----------------------------- MODULE DepositLedger -----------------------------
(***************************************************************************)
(* What the deposit tables promise.  A deposit is outside until it is      *)
(* opened; an open deposit stays open until it is closed with a verdict, a *)
(* crash loses it, or it is returned because the side chain refused it; a  *)
(* verdict is final, and it is "succeed" only for a deposit the side chain *)
(* has taken.  A deposit that was lost or returned may be opened again.    *)
(***************************************************************************)
CONSTANT Deposit

VARIABLES
  entry,   \* where each deposit stands
  taken,   \* deposits the side chain has taken
  refused  \* those of them it could not credit

Entries == {"outside", "open", "lost", "returned", "succeed", "failed"}

Init ==
  /\ entry = [d \in Deposit |-> "outside"]
  /\ taken = {} /\ refused = {}

\* What may become of one deposit in a step; the tables work in batches.
Moves(d) ==
  \/ entry'[d] = entry[d]
  \/ entry[d] \in {"outside", "lost", "returned"} /\ entry'[d] = "open"
  \/ entry[d] = "open" /\ entry'[d] \in {"lost", "failed"}
  \/ entry[d] = "open" /\ d \in taken /\ entry'[d] = "succeed"
  \/ entry[d] = "open" /\ d \in refused /\ entry'[d] = "returned"

Next ==
  /\ entry' \in [Deposit -> Entries]
  /\ \A d \in Deposit : Moves(d)
  /\ taken \subseteq taken' /\ taken' \subseteq Deposit
  /\ refused \subseteq refused' /\ refused' \subseteq taken'

Spec == Init /\ [][Next]_<<entry, taken, refused>>
=============================================================================
