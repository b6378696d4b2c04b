--------------------------- MODULE MCSignCollection ---------------------------
(***************************************************************************)
(* Instances of SignCollection for TLC.                                    *)
(***************************************************************************)
EXTENDS SignCollectionInv, TLC

CONSTANTS self, a1, a2, a3, p1, p2, h1, h2

Three == {self, a1, a2}
Four == {self, a1, a2, a3}

On(members, duty) == [members |-> members, seats |-> Cardinality(members), onDuty |-> duty]

\* One list for every height; Self is on duty at the odd ones.  As a failed RPC
\* takes the group back to height 0, one block already lets Self be relieved
\* and come back, with a Reset, any number of times.
RotatingDuty == [h \in Height |-> On(Arbiter, IF h % 2 = 1 THEN self ELSE a1)]

\* One list, Self always on duty.
ConstantDuty == [h \in Height |-> On(Arbiter, self)]

\* The list changes with the height: a3 stands in for a1, then for a2.
ChangingLists ==
  [h \in Height |-> On(CASE h = 0 -> {self, a1, a2} [] h = 1 -> {self, a2, a3}
                               [] OTHER -> {self, a1, a3}, self)]

OwnHashes == [p \in Proposal |-> IF p = p1 THEN h1 ELSE h2]
OneHash == [p \in Proposal |-> h1]

Peers == Permutations({a2, a3})
PeersAndTwins == Permutations(Arbiter \ {self}) \cup Permutations(Proposal)
=============================================================================
