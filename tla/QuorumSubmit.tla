----------------------------- MODULE QuorumSubmit -----------------------------
(***************************************************************************)
(* What signature collection promises, without messages, maps, goroutines  *)
(* or resets: a transaction is opened with the signature of the arbiter    *)
(* that made it, each other arbiter signs it at most once, and it leaves   *)
(* for the main chain at most once, with a quorum of signatures; nothing   *)
(* is added to a transaction that has left.  Giving a transaction up is a  *)
(* stuttering step: it is simply never signed or sent again.               *)
(***************************************************************************)
CONSTANTS
  Arbiter,   \* who may sign
  Self,      \* who opens and sends
  Proposal,  \* the transactions
  Quorums    \* sets of arbiters whose signatures satisfy the redeem script

VARIABLES
  signers,   \* who has signed each transaction
  sent       \* which transactions have left

Init ==
  /\ signers = [p \in Proposal |-> {}]
  /\ sent = {}

Open(p) ==
  /\ signers[p] = {}
  /\ signers' = [signers EXCEPT ![p] = {Self}]
  /\ UNCHANGED sent

Sign(p, a) ==
  /\ p \notin sent
  /\ Self \in signers[p]
  /\ a \in Arbiter \ signers[p]
  /\ signers' = [signers EXCEPT ![p] = @ \cup {a}]
  /\ UNCHANGED sent

Send(p) ==
  /\ p \notin sent
  /\ signers[p] \in Quorums
  /\ sent' = sent \cup {p}
  /\ UNCHANGED signers

Next ==
  \E p \in Proposal : Open(p) \/ Send(p) \/ \E a \in Arbiter : Sign(p, a)

Spec == Init /\ [][Next]_<<signers, sent>>
=============================================================================
