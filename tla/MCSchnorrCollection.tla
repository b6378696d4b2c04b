------------------------- MODULE MCSchnorrCollection -------------------------
(***************************************************************************)
(* An instance of SchnorrCollection for TLC.                               *)
(***************************************************************************)
EXTENDS SchnorrCollection, TLC

CONSTANTS self, a1, a2, p1, p2

\* Self leaves the list of height 1 and a2 that of height 0: a call may reach
\* keys the list no longer has, and may be composed without Self.  The third seat
\* of height 1 is empty, so that two lists agree on two signers or ask for three.
\* A node that does not answer takes the group back to height 0, to Self's duty.
LeavingMembers ==
  [h \in Height |->
    IF h = 0 THEN [members |-> {self, a1}, seats |-> 2, onDuty |-> self]
             ELSE [members |-> {a1, a2}, seats |-> 3, onDuty |-> a1]]
=============================================================================
