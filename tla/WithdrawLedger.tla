---------------------------- MODULE WithdrawLedger ----------------------------
(***************************************************************************)
(* What an arbiter promises about the withdraws of a side chain: it keeps  *)
(* the book of a withdraw open until the withdraw is settled, and records  *)
(* settled withdraws only, for good.                                       *)
(***************************************************************************)
CONSTANT Withdraw

VARIABLES
  open,     \* withdraws the arbiter still has to see to
  settled,  \* withdraws that were paid or taken back
  closed    \* withdraws the arbiter recorded as done

books == <<open, settled, closed>>

Init == open = {} /\ settled = {} /\ closed = {}

Open ==
  /\ open' \in SUBSET Withdraw /\ open \subseteq open'
  /\ UNCHANGED <<settled, closed>>

Settle ==
  /\ settled' \in SUBSET Withdraw /\ settled \subseteq settled'
  /\ UNCHANGED <<open, closed>>

Close ==
  /\ open' \subseteq open
  /\ open \ open' \subseteq settled
  /\ UNCHANGED <<settled, closed>>

Record ==
  /\ closed' \in SUBSET settled /\ closed \subseteq closed'
  /\ UNCHANGED <<open, settled>>

Next == Open \/ Settle \/ Close \/ Record

Spec == Init /\ [][Next]_books
===============================================================================
