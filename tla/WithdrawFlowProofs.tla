-------------------------- MODULE WithdrawFlowProofs --------------------------
(***************************************************************************)
(* Proofs about WithdrawFlow for every finite set of withdraws, any batch  *)
(* and transaction size, any number of failing calls and crashes.          *)
(*                                                                         *)
(* Every step does one of four things to the books: it leaves them alone,  *)
(* enters a withdraw, removes rows of settled withdraws, or records        *)
(* withdraws the main chain has (StepKinds).  That it is only those rests  *)
(* on what the goroutines hold between two steps (InHand).                 *)
(***************************************************************************)
EXTENDS SideToMain, FiniteLemmas

\* The goroutines hold what the chains have said, and it stays true.
InHand ==
  /\ sender.received \subseteq onMain
  /\ checker.received \subseteq onMain
  /\ monitor.received \subseteq refunded

HandInv == FlowTypeOK /\ InHand

-----------------------------------------------------------------------------
(***************************************************************************)
(* Types.                                                                  *)
(***************************************************************************)
LEMMA IdleTyped == Idle \in Routine /\ Idle.received = {}
  BY DEF Idle, Routine

\* The fields of a goroutine's state.
LEMMA RoutineFields ==
  ASSUME NEW r \in Routine
  PROVE  /\ r = [pc |-> r.pc, asked |-> r.asked, received |-> r.received]
         /\ r.pc \in {"idle", "read", "ask", "propose", "remove", "record"}
         /\ r.asked \subseteq Withdraw /\ r.received \subseteq Withdraw
  BY DEF Routine

\* A goroutine that moves on is in a state of a goroutine.
LEMMA RoutineMoves ==
  ASSUME NEW r \in Routine,
         NEW p \in {"idle", "read", "ask", "propose", "remove", "record"},
         NEW ws \in SUBSET Withdraw
  PROVE  /\ [r EXCEPT !.pc = p] \in Routine
         /\ [r EXCEPT !.pc = p, !.received = ws] \in Routine
         /\ [pc |-> p, asked |-> ws, received |-> {}] \in Routine
         /\ [r EXCEPT !.pc = p].received = r.received
         /\ [r EXCEPT !.pc = p, !.received = ws].received = ws
  BY DEF Routine

LEMMA TypeInit == FlowInit => FlowTypeOK
  <1> SUFFICES ASSUME FlowInit PROVE FlowTypeOK
    OBVIOUS
  <1>1. QED
    BY IdleTyped DEF FlowInit, FlowTypeOK

\* The rows and the head of the table are withdraws.
LEMMA RowsTyped ==
  ASSUME FlowTypeOK
  PROVE  Rows(row) \subseteq Withdraw /\ Head \subseteq Withdraw
  BY DEF FlowTypeOK, Rows, Head, First

\* The table after a removal is a table.
LEMMA RemovedTyped ==
  ASSUME FlowTypeOK, NEW ws, RemoveSideChainTxs(ws)
  PROVE  row' \in [Withdraw -> Nat] /\ Rows(row') = Rows(row) \ ws
  BY DeletedRows DEF FlowTypeOK, RemoveSideChainTxs

\* A step of the on-duty goroutine keeps the types.
LEMMA SenderTypes ==
  ASSUME FlowTypeOK, OnDuty \/ SenderStep \/ AskMainChainFails \/ ProposalFails
  PROVE  FlowTypeOK'
  <1> USE DEF stores, chains, history, bounds
  <1>0. sender \in Routine /\ sender.received \subseteq Withdraw /\ Idle \in Routine
    BY RoutineFields, IdleTyped DEF FlowTypeOK
  <1>1. CASE OnDuty
    <2>1. sender' \in Routine /\ proposals' \in SUBSET Proposal
      BY <1>0, <1>1, RoutineMoves DEF OnDuty
    <2>2. QED
      BY <1>1, <2>1 DEF OnDuty, FlowTypeOK
  <1>2. CASE ReadRows
    <2>1. sender' \in Routine
      BY <1>0, <1>2, RoutineMoves, RowsTyped DEF ReadRows
    <2>2. QED
      BY <1>2, <2>1 DEF ReadRows, FlowTypeOK
  <1>3. CASE AskMainChain
    <2>1. GetExist(sender.asked) \in SUBSET Withdraw
      BY DEF GetExist, FlowTypeOK
    <2>2. sender' \in Routine
      BY <1>0, <1>3, <2>1, RoutineMoves DEF AskMainChain
    <2>3. QED
      BY <1>3, <2>2 DEF AskMainChain, FlowTypeOK
  <1>4. CASE AskMainChainFails
    BY <1>0, <1>4 DEF AskMainChainFails, Fault, FlowTypeOK
  <1>5. ASSUME AfterProposal PROVE sender' \in Routine
    BY <1>0, <1>5, RoutineMoves DEF AfterProposal
  <1>6. CASE Propose
    <2>1. PICK carried \in SUBSET Sendable :
            /\ carried # {}
            /\ proposals' = proposals \cup {[carried |-> carried, era |-> era]}
      BY <1>6 DEF Propose
    <2>2. carried \in (SUBSET Payable) \ {{}}
      BY <2>1 DEF Sendable
    <2>3. [carried |-> carried, era |-> era] \in Proposal
      BY <2>2 DEF Proposal, FlowTypeOK
    <2>4. QED
      BY <1>5, <1>6, <2>1, <2>3 DEF Propose, FlowTypeOK
  <1>7. CASE NothingToPropose
    BY <1>5, <1>7 DEF NothingToPropose, FlowTypeOK
  <1>8. CASE ProposalFails
    BY <1>5, <1>8 DEF ProposalFails, Fault, FlowTypeOK
  <1>9. CASE RemoveReceived
    <2>1. sender' \in Routine /\ row' \in [Withdraw -> Nat]
      BY <1>0, <1>9, RoutineMoves, RemovedTyped DEF RemoveReceived
    <2>2. QED
      BY <1>9, <2>1 DEF RemoveReceived, FlowTypeOK
  <1>10. CASE RecordReceived
    <2>1. finished' \subseteq Withdraw
      BY <1>0, <1>10 DEF RecordReceived, AddSucceedWithdrawTxs, FlowTypeOK
    <2>2. QED
      BY <1>0, <1>10, <2>1 DEF RecordReceived, FlowTypeOK
  <1>11. QED
    BY <1>1, <1>2, <1>3, <1>4, <1>6, <1>7, <1>8, <1>9, <1>10 DEF SenderStep

\* A step of the check loop or of the monitor keeps the types.
LEMMA LoopTypes ==
  ASSUME FlowTypeOK,
         CheckRows \/ CheckGoesOn \/ MonitorStep \/ CheckAskFails \/ MonitorAskFails
  PROVE  FlowTypeOK'
  <1> USE DEF stores, chains, history, bounds
  <1>0. /\ checker \in Routine /\ checker.received \subseteq Withdraw
        /\ monitor \in Routine /\ monitor.received \subseteq Withdraw
        /\ Idle \in Routine
    BY RoutineFields, IdleTyped DEF FlowTypeOK
  <1>1. CASE CheckRows
    <2>1. checker' \in Routine
      BY <1>1, RowsTyped DEF CheckRows, Routine
    <2>2. QED
      BY <1>1, <2>1 DEF CheckRows, FlowTypeOK
  <1>2. CASE CheckAsks
    <2>1. GetExist(checker.asked) \in SUBSET Withdraw
      BY DEF GetExist, FlowTypeOK
    <2>2. checker' \in Routine
      BY <1>0, <1>2, <2>1, RoutineMoves DEF CheckAsks
    <2>3. QED
      BY <1>2, <2>2 DEF CheckAsks, FlowTypeOK
  <1>3. CASE CheckAskFails
    BY <1>0, <1>3 DEF CheckAskFails, Fault, FlowTypeOK
  <1>4. CASE CheckRemoves
    <2>1. checker' \in Routine /\ row' \in [Withdraw -> Nat]
      BY <1>0, <1>4, RoutineMoves, RemovedTyped DEF CheckRemoves
    <2>2. QED
      BY <1>4, <2>1 DEF CheckRemoves, FlowTypeOK
  <1>5. CASE CheckRecords
    <2>1. finished' \subseteq Withdraw
      BY <1>0, <1>5 DEF CheckRecords, AddSucceedWithdrawTxs, FlowTypeOK
    <2>2. QED
      BY <1>0, <1>5, <2>1 DEF CheckRecords, FlowTypeOK
  <1>6. CASE MonitorReads
    <2>1. Rows(row) \cap Unpayable \in SUBSET Withdraw
      BY RowsTyped
    <2>2. monitor' \in Routine
      BY <1>6, <2>1 DEF MonitorReads, Routine
    <2>3. QED
      BY <1>6, <2>2 DEF MonitorReads, FlowTypeOK
  <1>7. CASE MonitorAsks
    <2>1. monitor.asked \cap refunded \in SUBSET Withdraw
      BY DEF FlowTypeOK
    <2>2. monitor' \in Routine
      BY <1>0, <1>7, <2>1, RoutineMoves DEF MonitorAsks
    <2>3. QED
      BY <1>7, <2>2 DEF MonitorAsks, FlowTypeOK
  <1>8. CASE MonitorAskFails
    BY <1>0, <1>8 DEF MonitorAskFails, Fault, FlowTypeOK
  <1>9. CASE MonitorRemoves
    <2>1. row' \in [Withdraw -> Nat]
      BY <1>9, RemovedTyped DEF MonitorRemoves
    <2>2. QED
      BY <1>0, <1>9, <2>1 DEF MonitorRemoves, FlowTypeOK
  <1>10. QED
    BY <1>1, <1>2, <1>3, <1>4, <1>5, <1>6, <1>7, <1>8, <1>9 DEF CheckGoesOn, MonitorStep

\* What a proposal carries are withdraws.
LEMMA ProposalFields ==
  ASSUME FlowTypeOK, NEW p \in proposals
  PROVE  p.carried \subseteq Withdraw
  BY DEF FlowTypeOK, Proposal, Payable

\* After the death of the process the goroutines are idle.
LEMMA DeadTyped ==
  ASSUME FlowTypeOK, Dies
  PROVE  /\ sender' \in Routine /\ checker' \in Routine /\ monitor' \in Routine
         /\ sender'.received = {} /\ checker'.received = {} /\ monitor'.received = {}
         /\ proposals' \in SUBSET Proposal
         /\ torn' \subseteq Withdraw
  <1>1. HalfDone(sender) \subseteq Withdraw /\ HalfDone(checker) \subseteq Withdraw
    BY RoutineFields DEF HalfDone, FlowTypeOK
  <1>2. QED
    BY <1>1, IdleTyped DEF Dies, FlowTypeOK

\* The pool after a transaction came in, or did not.
LEMMA PoolTyped ==
  ASSUME FlowTypeOK, NEW p \in proposals, UNCHANGED pool \/ Pools(p)
  PROVE  pool' \in SUBSET (SUBSET Withdraw)
  BY ProposalFields DEF Pools, FlowTypeOK

\* A step of the handler of the answers keeps the types.
LEMMA SubmitTypes ==
  ASSUME FlowTypeOK,
         NEW p \in proposals,
         Submit(p) \/ SubmitPanics(p) \/ SubmitRefused(p) \/ SubmitCallFails(p)
  PROVE  FlowTypeOK'
  <1> USE DEF stores, chains, history, bounds
  <1>0. proposals \ {p} \in SUBSET Proposal
    BY DEF FlowTypeOK
  <1>1. CASE SubmitAccepted(p)
    <2>1. pool' \in SUBSET (SUBSET Withdraw)
      BY <1>1, PoolTyped DEF SubmitAccepted
    <2>2. QED
      BY <1>0, <1>1, <2>1 DEF SubmitAccepted, FlowTypeOK
  <1>2. CASE SubmitDuplicate(p)
    BY <1>0, <1>2 DEF SubmitDuplicate, FlowTypeOK
  <1>3. CASE SubmitRefused(p)
    BY <1>0, <1>3 DEF SubmitRefused, Fault, FlowTypeOK
  <1>4. CASE SubmitPanics(p)
    <2>1. pool' \in SUBSET (SUBSET Withdraw)
      BY <1>4, PoolTyped DEF SubmitPanics
    <2>2. QED
      BY <1>4, <2>1, DeadTyped DEF SubmitPanics, FlowTypeOK
  <1>5. CASE SubmitCallFails(p)
    <2>1. pool' \in SUBSET (SUBSET Withdraw) /\ failedSend' \subseteq Withdraw
      BY <1>5, PoolTyped, ProposalFields DEF SubmitCallFails, FlowTypeOK
    <2>2. QED
      BY <1>5, <2>1, DeadTyped DEF SubmitCallFails, Fault, FlowTypeOK
  <1>6. QED
    BY <1>1, <1>2, <1>3, <1>4, <1>5 DEF Submit

\* What enters the table leaves a table.
LEMMA EnterRows ==
  ASSUME FlowTypeOK, NEW w \in Withdraw, Enter(w)
  PROVE  row' \in [Withdraw -> Nat] /\ Rows(row') = Rows(row) \cup {w}
  <1> DEFINE ws == {w}
             order == [v \in ws |-> 0]
  <1>1. order \in Orders(ws)
    <2>1. Cardinality(ws) = 1
      BY FS_Singleton
    <2>2. QED
      BY <2>1 DEF Orders
  <1>2. row' = Inserted(row, ws, order)
    BY DEF Enter
  <1>3. ws \in SUBSET Withdraw
    OBVIOUS
  <1>4. IsFiniteSet(Withdraw) /\ row \in [Withdraw -> Nat]
    BY FlowAssumption, FS_Subset DEF FlowTypeOK
  <1> HIDE DEF order, ws
  <1>5. row' \in [Withdraw -> Nat] /\ Rows(row') = Rows(row) \cup ws
    BY <1>1, <1>2, <1>3, <1>4, InsertedRows
  <1>6. QED
    BY <1>5 DEF ws

\* A step of the outside, of the scan, or a crash keeps the types.
LEMMA OutsideTypes ==
  ASSUME FlowTypeOK, Outside \/ Crash \/ \E w \in Withdraw : Enter(w)
  PROVE  FlowTypeOK'
  <1> USE DEF stores, chains, history, bounds, routines
  <1>1. ASSUME NEW w \in Withdraw, OtherArbiterSends(w) PROVE FlowTypeOK'
    BY <1>1 DEF OtherArbiterSends, Payable, FlowTypeOK
  <1>2. ASSUME NEW w \in Withdraw, SideChainRefunds(w) PROVE FlowTypeOK'
    BY <1>2 DEF SideChainRefunds, FlowTypeOK
  <1>3. ASSUME NEW t \in pool, MainChainMines(t) PROVE FlowTypeOK'
    BY <1>3 DEF MainChainMines, FlowTypeOK
  <1>4. ASSUME NEW t \in pool, MainChainDrops(t) PROVE FlowTypeOK'
    BY <1>4 DEF MainChainDrops, Fault, FlowTypeOK
  <1>5. CASE NewEra
    BY <1>5 DEF NewEra, FlowTypeOK
  <1>6. CASE Crash
    BY <1>6, DeadTyped DEF Crash, FlowTypeOK
  <1>7. ASSUME NEW w \in Withdraw, Enter(w) PROVE FlowTypeOK'
    <2>1. row' \in [Withdraw -> Nat] /\ entered' \subseteq Withdraw
      BY <1>7, EnterRows DEF Enter, FlowTypeOK
    <2>2. QED
      BY <1>7, <2>1 DEF Enter, FlowTypeOK
  <1>8. QED
    BY <1>1, <1>2, <1>3, <1>4, <1>5, <1>6, <1>7 DEF Outside

LEMMA TypeStep == FlowTypeOK /\ [FlowNext]_flowVars => FlowTypeOK'
  <1> SUFFICES ASSUME FlowTypeOK, [FlowNext]_flowVars PROVE FlowTypeOK'
    OBVIOUS
  <1>1. CASE UNCHANGED flowVars
    BY <1>1 DEF flowVars, stores, routines, chains, history, bounds, FlowTypeOK
  <1>2. CASE FlowNext
    BY <1>2, SenderTypes, LoopTypes, SubmitTypes, OutsideTypes DEF FlowNext, FlowStep, Fails
  <1>3. QED
    BY <1>1, <1>2

\* The variables keep their types, whatever the withdraws.
THEOREM TypeCorrect == FlowSpec => []FlowTypeOK
  BY TypeInit, TypeStep, PTL DEF FlowSpec

-----------------------------------------------------------------------------
(***************************************************************************)
(* What a step does to the books.                                          *)
(***************************************************************************)
\* What is settled stays settled.
SettledGrows == onMain \subseteq onMain' /\ refunded \subseteq refunded'

Quiet == SettledGrows /\ UNCHANGED <<row, finished, entered>>

Enters == \E ws \in SUBSET Withdraw : /\ Rows(row') = Rows(row) \cup ws
                                      /\ entered' = entered \cup ws
                                      /\ UNCHANGED <<finished, onMain, refunded>>

Removes(ws) == /\ Rows(row') = Rows(row) \ ws
               /\ UNCHANGED <<finished, entered, onMain, refunded>>

Records(ws) == /\ AddSucceedWithdrawTxs(ws)
               /\ UNCHANGED <<row, entered, onMain, refunded>>

BookSteps ==
  \/ Quiet
  \/ Enters
  \/ \E ws \in SUBSET Settled : Removes(ws)
  \/ \E ws \in SUBSET onMain : Records(ws)

\* What the on-duty goroutine does.
LEMMA SenderKinds ==
  ASSUME HandInv, OnDuty \/ SenderStep \/ AskMainChainFails \/ ProposalFails
  PROVE  BookSteps /\ InHand'
  <1> USE DEF HandInv, InHand, stores, chains, history, bounds, BookSteps, Quiet, SettledGrows
  <1>0. sender \in Routine /\ Idle.received = {}
    BY DEF FlowTypeOK, Idle
  <1>1. CASE OnDuty
    <2>1. sender'.received = sender.received
      BY <1>0, <1>1, RoutineMoves DEF OnDuty
    <2>2. QED
      BY <1>1, <2>1 DEF OnDuty
  <1>2. CASE ReadRows
    <2>1. sender'.received = {}
      BY <1>0, <1>2 DEF ReadRows
    <2>2. QED
      BY <1>2, <2>1 DEF ReadRows
  <1>3. CASE AskMainChain
    <2>1. sender'.received = GetExist(sender.asked)
      BY <1>0, <1>3 DEF AskMainChain, Routine
    <2>2. QED
      BY <1>3, <2>1 DEF AskMainChain, GetExist
  <1>4. CASE AskMainChainFails
    BY <1>0, <1>4 DEF AskMainChainFails
  <1>5. ASSUME AfterProposal PROVE sender'.received \subseteq onMain
    BY <1>0, <1>5, RoutineMoves DEF AfterProposal
  <1>6. CASE Propose
    BY <1>5, <1>6 DEF Propose
  <1>7. CASE NothingToPropose
    BY <1>5, <1>7 DEF NothingToPropose
  <1>8. CASE ProposalFails
    BY <1>5, <1>8 DEF ProposalFails
  <1>9. CASE RemoveReceived
    <2>1. Removes(sender.received)
      BY <1>9, RemovedTyped DEF RemoveReceived, Removes
    <2>2. sender'.received = sender.received
      BY <1>0, <1>9, RoutineMoves DEF RemoveReceived
    <2>3. QED
      BY <1>9, <2>1, <2>2 DEF RemoveReceived, Settled
  <1>10. CASE RecordReceived
    <2>1. Records(sender.received)
      BY <1>10 DEF RecordReceived, Records
    <2>2. QED
      BY <1>0, <1>10, <2>1 DEF RecordReceived
  <1>11. QED
    BY <1>1, <1>2, <1>3, <1>4, <1>6, <1>7, <1>8, <1>9, <1>10 DEF SenderStep

\* What the check loop and the monitor do.
LEMMA LoopKinds ==
  ASSUME HandInv,
         CheckRows \/ CheckGoesOn \/ MonitorStep \/ CheckAskFails \/ MonitorAskFails
  PROVE  BookSteps /\ InHand'
  <1> USE DEF HandInv, InHand, stores, chains, history, bounds, BookSteps, Quiet, SettledGrows
  <1>0. checker \in Routine /\ monitor \in Routine /\ Idle.received = {}
    BY DEF FlowTypeOK, Idle
  <1>1. CASE CheckRows
    BY <1>1 DEF CheckRows
  <1>2. CASE CheckAsks
    <2>1. checker'.received \subseteq onMain
      BY <1>0, <1>2 DEF CheckAsks, GetExist, Routine
    <2>2. QED
      BY <1>2, <2>1 DEF CheckAsks
  <1>3. CASE CheckAskFails
    BY <1>0, <1>3 DEF CheckAskFails
  <1>4. CASE CheckRemoves
    <2>1. Removes(checker.received)
      BY <1>4, RemovedTyped DEF CheckRemoves, Removes
    <2>2. checker'.received = checker.received
      BY <1>0, <1>4, RoutineMoves DEF CheckRemoves
    <2>3. QED
      BY <1>4, <2>1, <2>2 DEF CheckRemoves, Settled
  <1>5. CASE CheckRecords
    <2>1. Records(checker.received)
      BY <1>5 DEF CheckRecords, Records
    <2>2. QED
      BY <1>0, <1>5, <2>1 DEF CheckRecords
  <1>6. CASE MonitorReads
    BY <1>6 DEF MonitorReads
  <1>7. CASE MonitorAsks
    <2>1. monitor'.received = monitor.asked \cap refunded
      BY <1>0, <1>7 DEF MonitorAsks, Routine
    <2>2. QED
      BY <1>7, <2>1 DEF MonitorAsks
  <1>8. CASE MonitorAskFails
    BY <1>0, <1>8 DEF MonitorAskFails
  <1>9. CASE MonitorRemoves
    <2>1. Removes(monitor.received)
      BY <1>9, RemovedTyped DEF MonitorRemoves, Removes
    <2>2. QED
      BY <1>0, <1>9, <2>1 DEF MonitorRemoves, Settled
  <1>10. QED
    BY <1>1, <1>2, <1>3, <1>4, <1>5, <1>6, <1>7, <1>8, <1>9 DEF CheckGoesOn, MonitorStep

\* What the handler of the answers does: it touches neither table.
LEMMA SubmitKinds ==
  ASSUME HandInv,
         NEW p \in proposals,
         Submit(p) \/ SubmitPanics(p) \/ SubmitRefused(p) \/ SubmitCallFails(p)
  PROVE  BookSteps /\ InHand'
  <1> USE DEF HandInv, InHand, stores, chains, history, bounds, BookSteps, Quiet, SettledGrows
  <1>1. CASE SubmitAccepted(p)
    BY <1>1 DEF SubmitAccepted
  <1>2. CASE SubmitDuplicate(p)
    BY <1>2 DEF SubmitDuplicate
  <1>3. CASE SubmitRefused(p)
    BY <1>3 DEF SubmitRefused
  <1>4. CASE SubmitPanics(p)
    BY <1>4, DeadTyped DEF SubmitPanics
  <1>5. CASE SubmitCallFails(p)
    BY <1>5, DeadTyped DEF SubmitCallFails
  <1>6. QED
    BY <1>1, <1>2, <1>3, <1>4, <1>5 DEF Submit

\* What the outside, the scan and a crash do.
LEMMA OutsideKinds ==
  ASSUME HandInv, Outside \/ Crash \/ \E w \in Withdraw : Enter(w)
  PROVE  BookSteps /\ InHand'
  <1> USE DEF HandInv, InHand, stores, chains, history, bounds, routines, BookSteps, Quiet, SettledGrows
  <1>1. ASSUME NEW w \in Withdraw, OtherArbiterSends(w) PROVE BookSteps /\ InHand'
    BY <1>1 DEF OtherArbiterSends
  <1>2. ASSUME NEW w \in Withdraw, SideChainRefunds(w) PROVE BookSteps /\ InHand'
    BY <1>2 DEF SideChainRefunds
  <1>3. ASSUME NEW t \in pool, MainChainMines(t) PROVE BookSteps /\ InHand'
    BY <1>3 DEF MainChainMines
  <1>4. ASSUME NEW t \in pool, MainChainDrops(t) PROVE BookSteps /\ InHand'
    BY <1>4 DEF MainChainDrops
  <1>5. CASE NewEra
    BY <1>5 DEF NewEra
  <1>6. CASE Crash
    BY <1>6, DeadTyped DEF Crash
  <1>7. ASSUME NEW w \in Withdraw, Enter(w) PROVE BookSteps /\ InHand'
    <2>1. Rows(row') = Rows(row) \cup {w}
      BY <1>7, EnterRows
    <2>2. Enters
      BY <1>7, <2>1 DEF Enter, Enters
    <2>3. QED
      BY <1>7, <2>2 DEF Enter
  <1>8. QED
    BY <1>1, <1>2, <1>3, <1>4, <1>5, <1>6, <1>7 DEF Outside

\* Every step does one of these things to the books.
LEMMA StepKinds ==
  ASSUME HandInv, [FlowNext]_flowVars
  PROVE  BookSteps /\ InHand'
  <1>1. CASE UNCHANGED flowVars
    BY <1>1 DEF HandInv, InHand, BookSteps, Quiet, SettledGrows,
                flowVars, stores, routines, chains, history, bounds
  <1>2. CASE FlowNext
    BY <1>2, SenderKinds, LoopKinds, SubmitKinds, OutsideKinds DEF FlowNext, FlowStep, Fails
  <1>3. QED
    BY <1>1, <1>2

-----------------------------------------------------------------------------
(***************************************************************************)
(* Withdraws are accounted for, and verdicts are founded.                  *)
(***************************************************************************)
BooksInv == HandInv /\ WithdrawsAccounted /\ VerdictsFounded

LEMMA BooksInit == FlowInit => BooksInv
  <1> SUFFICES ASSUME FlowInit PROVE BooksInv
    OBVIOUS
  <1>1. InHand
    BY DEF FlowInit, InHand, Idle
  <1>2. WithdrawsAccounted /\ VerdictsFounded
    BY DEF FlowInit, WithdrawsAccounted, VerdictsFounded
  <1>3. QED
    BY TypeInit, <1>1, <1>2 DEF BooksInv, HandInv

\* Steps of these kinds keep the books, whoever makes them.
LEMMA BooksByKinds ==
  ASSUME BooksInv, HandInv', BookSteps
  PROVE  BooksInv'
  <1>1. WithdrawsAccounted'
    <2> USE DEF BooksInv, WithdrawsAccounted, Settled
    <2>1. CASE Quiet
      BY <2>1 DEF Quiet, SettledGrows
    <2>2. CASE Enters
      BY <2>2 DEF Enters
    <2>3. ASSUME NEW ws \in SUBSET Settled, Removes(ws) PROVE WithdrawsAccounted'
      BY <2>3 DEF Removes
    <2>4. ASSUME NEW ws, Records(ws) PROVE WithdrawsAccounted'
      BY <2>4 DEF Records
    <2>5. QED
      BY <2>1, <2>2, <2>3, <2>4 DEF BookSteps
  <1>2. VerdictsFounded'
    <2> USE DEF BooksInv, VerdictsFounded
    <2>1. CASE Quiet
      BY <2>1 DEF Quiet, SettledGrows
    <2>2. CASE Enters
      BY <2>2 DEF Enters
    <2>3. ASSUME NEW ws, Removes(ws) PROVE VerdictsFounded'
      BY <2>3 DEF Removes
    <2>4. ASSUME NEW ws \in SUBSET onMain, Records(ws) PROVE VerdictsFounded'
      BY <2>4 DEF Records, AddSucceedWithdrawTxs
    <2>5. QED
      BY <2>1, <2>2, <2>3, <2>4 DEF BookSteps
  <1>3. QED
    BY <1>1, <1>2 DEF BooksInv

LEMMA BooksStep == BooksInv /\ [FlowNext]_flowVars => BooksInv'
  <1> SUFFICES ASSUME BooksInv, [FlowNext]_flowVars PROVE BooksInv'
    OBVIOUS
  <1>1. HandInv' /\ BookSteps
    BY TypeStep, StepKinds DEF BooksInv, HandInv
  <1>2. QED
    BY <1>1, BooksByKinds

\* No withdraw is forgotten: one that was entered keeps its row until the
\* main chain has it in a block, or the side chain took it back.
THEOREM WithdrawsKept == FlowSpec => []WithdrawsAccounted
  <1>1. BooksInv => WithdrawsAccounted
    BY DEF BooksInv
  <1>2. QED
    BY <1>1, BooksInit, BooksStep, PTL DEF FlowSpec

\* Succeeded is recorded only of withdraws the main chain has in a block.
THEOREM VerdictsHold == FlowSpec => []VerdictsFounded
  <1>1. BooksInv => VerdictsFounded
    BY DEF BooksInv
  <1>2. QED
    BY <1>1, BooksInit, BooksStep, PTL DEF FlowSpec

-----------------------------------------------------------------------------
(***************************************************************************)
(* The refinement of WithdrawLedger.                                       *)
(***************************************************************************)
LEMMA LedgerInit == FlowInit => Ledger!Init
  BY DEF FlowInit, Ledger!Init, Rows, Settled

LEMMA LedgerByKinds ==
  ASSUME BooksInv, FlowTypeOK', BookSteps
  PROVE  [Ledger!Next]_<<Rows(row), Settled, finished>>
  <1> USE DEF Ledger!Next, Settled
  <1>0. /\ FlowTypeOK /\ FlowTypeOK' /\ BookSteps
    BY DEF BooksInv, HandInv
  <1>1. Settled' \in SUBSET Withdraw /\ Rows(row') \in SUBSET Withdraw
    BY <1>0, RowsAre DEF FlowTypeOK
  <1>2. CASE Quiet
    <2>1. Ledger!Settle
      BY <1>1, <1>2 DEF Quiet, SettledGrows, Ledger!Settle
    <2>2. QED
      BY <2>1
  <1>3. CASE Enters
    <2>1. Ledger!Open
      BY <1>1, <1>3 DEF Enters, Ledger!Open
    <2>2. QED
      BY <2>1
  <1>4. ASSUME NEW ws \in SUBSET Settled, Removes(ws)
        PROVE  [Ledger!Next]_<<Rows(row), Settled, finished>>
    <2>1. Ledger!Close
      BY <1>4 DEF Removes, Ledger!Close
    <2>2. QED
      BY <2>1
  <1>5. ASSUME NEW ws \in SUBSET onMain, Records(ws), VerdictsFounded
        PROVE  [Ledger!Next]_<<Rows(row), Settled, finished>>
    <2>1. Ledger!Record
      BY <1>5 DEF Records, AddSucceedWithdrawTxs, VerdictsFounded, Ledger!Record
    <2>2. QED
      BY <2>1
  <1>6. QED
    BY <1>0, <1>2, <1>3, <1>4, <1>5 DEF BookSteps, BooksInv

(***************************************************************************)
(* The two tables and the goroutines that race on them implement           *)
(* WithdrawLedger: books are closed on settled withdraws only, and what    *)
(* was recorded stays.                                                     *)
(***************************************************************************)
THEOREM BooksImplementLedger == FlowSpec => ImplementsLedger
  <1>1. BooksInv /\ [FlowNext]_flowVars => [Ledger!Next]_<<Rows(row), Settled, finished>>
    BY TypeStep, StepKinds, LedgerByKinds DEF BooksInv, HandInv
  <1>2. QED
    BY <1>1, LedgerInit, BooksInit, BooksStep, PTL
    DEF FlowSpec, ImplementsLedger, Ledger!Spec, Ledger!books

-----------------------------------------------------------------------------
(***************************************************************************)
(* Proofs about SideToMain for every finite set of withdraws, any Depth,   *)
(* and any number of failing calls, deaths and reorganisations of fewer    *)
(* than Depth blocks.                                                      *)
(*                                                                         *)
(* What is paid came out of a row, here or at another arbiter, and what    *)
(* has a row was Depth blocks deep when the scan entered it.  So the       *)
(* invariant is that rows, proposals, the pool and the main chain hold     *)
(* only withdraws that are final, and that the scan stays behind the tip.  *)
(***************************************************************************)
\* The withdraws no branch takes back.
FinalOnes == {w \in Withdraw : Final(w)}

\* The rows, and everything made of rows.
OnlyFinal ==
  /\ Rows(row) \subseteq FinalOnes
  /\ onMain \subseteq FinalOnes
  /\ \A t \in pool : t \subseteq FinalOnes
  /\ \A p \in proposals : p.carried \subseteq FinalOnes

\* The scan does not look past the chain it saw when its round began.
Behind ==
  /\ goal <= tip
  /\ pc \in {"withdraw", "evidence"} => cur < goal

ScanTypes ==
  /\ tip \in Nat /\ at \in [Withdraw -> Nat]
  /\ cur \in Nat /\ goal \in Nat /\ stored \in Nat

PathInv == FlowTypeOK /\ ScanTypes /\ Behind /\ OnlyFinal

-----------------------------------------------------------------------------
(***************************************************************************)
(* The steps of the flow, for any set S that holds what the rows, the      *)
(* proposals, the pool and the main chain hold.                            *)
(***************************************************************************)
LEMMA SenderStaysWithin ==
  ASSUME FlowTypeOK, NEW S, Rows(row) \subseteq S,
         \A p \in proposals : p.carried \subseteq S,
         OnDuty \/ SenderStep \/ AskMainChainFails \/ ProposalFails
  PROVE  /\ Rows(row') \subseteq S
         /\ \A p \in proposals' : p.carried \subseteq S
         /\ onMain' = onMain /\ pool' = pool
  <1> USE DEF stores, chains, bounds, history
  <1>1. CASE OnDuty
    BY <1>1 DEF OnDuty
  <1>2. CASE ReadRows \/ AskMainChain \/ NothingToPropose \/ RecordReceived
             \/ AskMainChainFails \/ ProposalFails
    BY <1>2 DEF ReadRows, AskMainChain, NothingToPropose, RecordReceived,
                AskMainChainFails, ProposalFails
  <1>3. CASE Propose
    <2>1. PICK carried \in SUBSET Sendable :
            proposals' = proposals \cup {[carried |-> carried, era |-> era]}
      BY <1>3 DEF Propose
    <2>2. carried \subseteq S
      BY DEF Sendable
    <2>3. row' = row /\ onMain' = onMain /\ pool' = pool
      BY <1>3 DEF Propose
    <2>4. QED
      BY <2>1, <2>2, <2>3
  <1>4. CASE RemoveReceived
    <2>1. Rows(row') \subseteq Rows(row)
      BY <1>4, RemovedTyped DEF RemoveReceived
    <2>2. QED
      BY <1>4, <2>1 DEF RemoveReceived
  <1>5. QED
    BY <1>1, <1>2, <1>3, <1>4 DEF SenderStep

LEMMA LoopsStayWithin ==
  ASSUME FlowTypeOK, NEW S, Rows(row) \subseteq S,
         CheckRows \/ CheckGoesOn \/ MonitorStep \/ CheckAskFails \/ MonitorAskFails
  PROVE  Rows(row') \subseteq S /\ onMain' = onMain /\ pool' = pool /\ proposals' = proposals
  <1> USE DEF stores, chains, bounds, history
  <1>1. CASE CheckRows \/ CheckAsks \/ CheckRecords \/ MonitorReads \/ MonitorAsks
             \/ CheckAskFails \/ MonitorAskFails
    BY <1>1 DEF CheckRows, CheckAsks, CheckRecords, MonitorReads, MonitorAsks,
                CheckAskFails, MonitorAskFails
  <1>2. CASE CheckRemoves \/ MonitorRemoves
    <2>1. Rows(row') \subseteq Rows(row)
      BY <1>2, RemovedTyped DEF CheckRemoves, MonitorRemoves
    <2>2. QED
      BY <1>2, <2>1 DEF CheckRemoves, MonitorRemoves
  <1>3. QED
    BY <1>1, <1>2 DEF CheckGoesOn, MonitorStep

LEMMA SubmitStaysWithin ==
  ASSUME FlowTypeOK, NEW S,
         \A t \in pool : t \subseteq S, \A p \in proposals : p.carried \subseteq S,
         NEW p \in proposals,
         Submit(p) \/ SubmitPanics(p) \/ SubmitRefused(p) \/ SubmitCallFails(p)
  PROVE  /\ row' = row /\ onMain' = onMain
         /\ \A t \in pool' : t \subseteq S
         /\ \A q \in proposals' : q.carried \subseteq S
  <1> USE DEF stores, chains, bounds, history
  <1>1. row' = row /\ onMain' = onMain
    BY DEF Submit, SubmitAccepted, SubmitDuplicate, SubmitPanics, SubmitRefused, SubmitCallFails
  <1>2. pool' = pool \/ pool' = pool \cup {p.carried}
    BY DEF Submit, SubmitAccepted, SubmitDuplicate, SubmitPanics, SubmitRefused, SubmitCallFails,
           Pools
  <1>3. proposals' \subseteq proposals
    BY DEF Submit, SubmitAccepted, SubmitDuplicate, SubmitPanics, SubmitRefused, SubmitCallFails,
           Dies
  <1>4. QED
    BY <1>1, <1>2, <1>3

LEMMA OutsideStaysWithin ==
  ASSUME FlowTypeOK, NEW S, onMain \subseteq S, \A t \in pool : t \subseteq S,
         \/ \E w \in S : OtherArbiterSends(w)
         \/ \E w \in Withdraw : SideChainRefunds(w)
         \/ \E t \in pool : MainChainMines(t) \/ MainChainDrops(t)
         \/ NewEra \/ Crash
  PROVE  /\ row' = row /\ proposals' \subseteq proposals
         /\ onMain' \subseteq S /\ \A t \in pool' : t \subseteq S
  <1> USE DEF stores, chains, bounds, history, routines
  <1>1. ASSUME NEW w \in S, OtherArbiterSends(w)
        PROVE  /\ row' = row /\ proposals' = proposals /\ onMain' = onMain
               /\ pool' = pool \cup {{w}}
    BY <1>1 DEF OtherArbiterSends
  <1>2. ASSUME NEW w \in Withdraw, SideChainRefunds(w)
        PROVE  row' = row /\ proposals' = proposals /\ onMain' = onMain /\ pool' = pool
    BY <1>2 DEF SideChainRefunds
  <1>3. ASSUME NEW t \in pool, MainChainMines(t) \/ MainChainDrops(t)
        PROVE  /\ row' = row /\ proposals' = proposals
               /\ onMain' \subseteq onMain \cup t /\ pool' \subseteq pool
    BY <1>3 DEF MainChainMines, MainChainDrops
  <1>4. CASE NewEra
    BY <1>4 DEF NewEra
  <1>5. CASE Crash
    BY <1>5 DEF Crash, Dies
  <1>6. QED
    BY <1>1, <1>2, <1>3, <1>4, <1>5

-----------------------------------------------------------------------------
(***************************************************************************)
(* The steps of the composition.                                           *)
(***************************************************************************)
\* Within a step that leaves the side chain alone, final is final.
LEMMA SameFinal ==
  ASSUME UNCHANGED <<tip, at>>
  PROVE  FinalOnes' = FinalOnes
  BY DEF FinalOnes, Final

LEMMA FlowKeeps ==
  ASSUME PathInv, FlowRuns
  PROVE  PathInv'
  <1> DEFINE S == FinalOnes
  <1>1. /\ FlowTypeOK /\ Rows(row) \subseteq S /\ onMain \subseteq S
        /\ \A t \in pool : t \subseteq S
        /\ \A p \in proposals : p.carried \subseteq S
    BY DEF PathInv, OnlyFinal
  <1>2. UNCHANGED <<tip, at, pc, cur, goal, stored>>
    BY DEF FlowRuns, side, scan
  <1>3. ScanTypes' /\ Behind'
    BY <1>2 DEF PathInv, ScanTypes, Behind
  <1>4. FlowTypeOK'
    <2>1. FlowNext
      BY DEF FlowRuns, FlowNext, FlowStep, Fails, Outside
    <2>2. QED
      BY <1>1, <2>1, TypeStep
  <1>5. /\ Rows(row') \subseteq S /\ onMain' \subseteq S
        /\ \A t \in pool' : t \subseteq S
        /\ \A p \in proposals' : p.carried \subseteq S
    <2> HIDE DEF S
    <2>1. CASE OnDuty \/ SenderStep \/ AskMainChainFails \/ ProposalFails
      BY <1>1, <2>1, SenderStaysWithin
    <2>2. CASE CheckRows \/ CheckGoesOn \/ MonitorStep \/ CheckAskFails \/ MonitorAskFails
      BY <1>1, <2>2, LoopsStayWithin
    <2>3. ASSUME NEW p \in proposals, Submit(p) \/ SubmitRefused(p)
          PROVE  /\ row' = row /\ onMain' = onMain
                 /\ \A t \in pool' : t \subseteq S
                 /\ \A q \in proposals' : q.carried \subseteq S
      BY <1>1, <2>3, SubmitStaysWithin
    <2>4. CASE \/ \E w \in Withdraw : Final(w) /\ (OtherArbiterSends(w) \/ SideChainRefunds(w))
               \/ \E t \in pool : MainChainMines(t) \/ MainChainDrops(t)
               \/ NewEra
      <3>1. \/ \E w \in S : OtherArbiterSends(w)
            \/ \E w \in Withdraw : SideChainRefunds(w)
            \/ \E t \in pool : MainChainMines(t) \/ MainChainDrops(t)
            \/ NewEra
        BY <2>4 DEF S, FinalOnes
      <3>2. /\ row' = row /\ proposals' \subseteq proposals
            /\ onMain' \subseteq S /\ \A t \in pool' : t \subseteq S
        BY <1>1, <3>1, OutsideStaysWithin
      <3>3. QED
        BY <1>1, <3>2
    <2>5. QED
      BY <1>1, <2>1, <2>2, <2>3, <2>4 DEF FlowRuns
  <1>6. S' = S
    BY <1>2, SameFinal
  <1>7. QED
    BY <1>3, <1>4, <1>5, <1>6 DEF PathInv, OnlyFinal

LEMMA DeathKeeps ==
  ASSUME PathInv, ProcessDies
  PROVE  PathInv'
  <1> DEFINE S == FinalOnes
  <1>1. /\ FlowTypeOK /\ Rows(row) \subseteq S /\ onMain \subseteq S
        /\ \A t \in pool : t \subseteq S
        /\ \A p \in proposals : p.carried \subseteq S
    BY DEF PathInv, OnlyFinal
  <1>2. /\ UNCHANGED <<tip, at, stored>>
        /\ pc' = "sleep" /\ cur' = 0 /\ goal' = 0
    BY DEF ProcessDies, Scan!Killed, Scan!side
  <1>3. ScanTypes' /\ Behind'
    BY <1>2 DEF PathInv, ScanTypes, Behind
  <1>4. FlowTypeOK'
    <2>1. FlowNext
      BY DEF ProcessDies, FlowNext, FlowStep, Fails
    <2>2. QED
      BY <1>1, <2>1, TypeStep
  <1>5. /\ row' = row /\ onMain' \subseteq S
        /\ \A t \in pool' : t \subseteq S
        /\ \A p \in proposals' : p.carried \subseteq S
    <2> HIDE DEF S
    <2>1. CASE Crash
      BY <1>1, <2>1, OutsideStaysWithin
    <2>2. ASSUME NEW p \in proposals, SubmitPanics(p) \/ SubmitCallFails(p)
          PROVE  /\ row' = row /\ onMain' = onMain
                 /\ \A t \in pool' : t \subseteq S
                 /\ \A q \in proposals' : q.carried \subseteq S
      BY <1>1, <2>2, SubmitStaysWithin
    <2>3. QED
      BY <1>1, <2>1, <2>2 DEF ProcessDies
  <1>6. S' = S
    BY <1>2, SameFinal
  <1>7. QED
    BY <1>1, <1>3, <1>4, <1>5, <1>6 DEF PathInv, OnlyFinal

\* The table of the scan is that of the flow.
LEMMA SameTable ==
  ASSUME FlowTypeOK, NEW kept \in SUBSET Withdraw, NEW order \in Scan!Orders(kept)
  PROVE  /\ Scan!Inserted(row, kept, order) \in [Withdraw -> Nat]
         /\ Rows(Scan!Inserted(row, kept, order)) = Rows(row) \cup kept
  <1>1. order \in Orders(kept)
    <2>1. Scan!Cardinality(kept) = Cardinality(kept)
      BY DEF Scan!Cardinality, Cardinality
    <2>2. QED
      BY <2>1 DEF Scan!Orders, Orders
  <1>2. Scan!NextId(row) = NextId(row)
    BY DEF Scan!NextId, NextId
  <1>3. Scan!Inserted(row, kept, order) = Inserted(row, kept, order)
    BY <1>2 DEF Scan!Inserted, Inserted
  <1>4. IsFiniteSet(Withdraw) /\ row \in [Withdraw -> Nat]
    BY FlowAssumption DEF FlowTypeOK
  <1>5. QED
    BY <1>1, <1>3, <1>4, InsertedRows

\* What the call for the withdraws of a height does to the table: of those in
\* the block each has a row afterwards, or its insert failed.
LEMMA ScanEnters ==
  ASSUME FlowTypeOK, Scan!GetWithdrawTransactionByHeight
  PROVE  LET ws == Scan!In(Withdraw, Scan!WithdrawBlock(cur)) IN
         /\ \E kept \in SUBSET ws :
              /\ row' \in [Withdraw -> Nat] /\ Rows(row') = Rows(row) \cup kept
              /\ entered' = entered \cup kept
         /\ missed \subseteq missed'
         /\ cur >= Depth => ws \subseteq Rows(row') \cup missed'
  <1> DEFINE ws == Scan!In(Withdraw, Scan!WithdrawBlock(cur))
  <1>1. ws \in SUBSET Withdraw
    BY DEF Scan!In
  <1>2. CASE ~(cur >= Depth)
    <2>1. UNCHANGED <<row, entered, missed>>
      BY <1>2 DEF Scan!GetWithdrawTransactionByHeight
    <2>2. /\ row' \in [Withdraw -> Nat] /\ Rows(row') = Rows(row) \cup {}
          /\ entered' = entered \cup {}
      BY <2>1 DEF FlowTypeOK
    <2> HIDE DEF ws
    <2>3. {} \in SUBSET ws
      OBVIOUS
    <2>4. QED
      BY <1>2, <2>1, <2>2, <2>3 DEF ws
  <1>3. CASE cur >= Depth
    <2>1. Scan!RecordWithdraws(ws)
      BY <1>3 DEF Scan!GetWithdrawTransactionByHeight
    <2>2. Scan!Rows(row) = Rows(row)
      BY DEF Scan!Rows, Rows
    <2> HIDE DEF ws
    <2>3. PICK kept \in SUBSET (ws \ Rows(row)) :
            /\ \E order \in Scan!Orders(kept) : row' = Scan!Inserted(row, kept, order)
            /\ entered' = entered \cup kept
            /\ missed' = missed \cup ((ws \ Rows(row)) \ kept)
      BY <2>1, <2>2 DEF Scan!RecordWithdraws
    <2>4. kept \in SUBSET Withdraw
      BY <1>1
    <2>5. row' \in [Withdraw -> Nat] /\ Rows(row') = Rows(row) \cup kept
      BY <2>3, <2>4, SameTable
    <2>6. ws \subseteq Rows(row') \cup missed'
      BY <2>3, <2>5
    <2>7. QED
      BY <2>3, <2>5, <2>6 DEF ws
  <1>4. QED
    BY <1>2, <1>3

\* A scan step that finds nothing.
LEMMA QuietScanKeeps ==
  ASSUME PathInv, UNCHANGED flowOnly, UNCHANGED <<row, entered, crashes>>, faults' \in Nat,
         ScanTypes', Behind', FinalOnes \subseteq FinalOnes'
  PROVE  PathInv'
  <1>1. FlowTypeOK'
    BY DEF PathInv, FlowTypeOK, flowOnly, routines
  <1>2. OnlyFinal'
    BY DEF PathInv, OnlyFinal, flowOnly, routines
  <1>3. QED
    BY <1>1, <1>2 DEF PathInv

\* A new block, or a branch of fewer than Depth blocks, leaves what is Depth
\* blocks deep.
LEMMA SideChainKeeps ==
  ASSUME PathInv, UNCHANGED flowOnly, Scan!Grow \/ Scan!Reorganise
  PROVE  PathInv'
  <1>0. /\ Depth \in Nat /\ tip \in Nat /\ at \in [Withdraw -> Nat]
        /\ Scan!Event = Withdraw
    BY PathAssumption DEF PathInv, ScanTypes, Scan!Event
  <1>1. /\ UNCHANGED <<pc, cur, goal, stored, row, entered, faults, crashes>>
        /\ tip' = tip + 1
    BY DEF Scan!Grow, Scan!Reorganise, Scan!loop, Scan!tables, Scan!past, Scan!limits
  <1>2. /\ at' \in [Withdraw -> Nat]
        /\ \A w \in Withdraw : Final(w) => at'[w] = at[w]
    <2>1. CASE Scan!Grow
      <3>1. PICK block \in SUBSET Scan!In(Scan!Event, 0) :
              at' = [e \in Scan!Event |-> IF e \in block THEN tip + 1 ELSE at[e]]
        BY <2>1 DEF Scan!Grow
      <3>2. \A w \in block : at[w] = 0
        BY DEF Scan!In
      <3>3. QED
        BY <1>0, <3>1, <3>2 DEF Final
    <2>2. CASE Scan!Reorganise
      <3>1. PICK k \in 1..(Depth - 1) :
              LET moved == {e \in Scan!Event : at[e] > tip - k} IN
              /\ k <= tip
              /\ \E to \in [moved -> {0} \cup (tip - k + 1)..(tip + 1)] :
                   at' = [e \in Scan!Event |-> IF e \in moved THEN to[e] ELSE at[e]]
        BY <2>2 DEF Scan!Reorganise
      <3> DEFINE moved == {e \in Scan!Event : at[e] > tip - k}
      <3>2. PICK to \in [moved -> {0} \cup (tip - k + 1)..(tip + 1)] :
              at' = [e \in Scan!Event |-> IF e \in moved THEN to[e] ELSE at[e]]
        BY <3>1
      <3>3. k \in Nat /\ k <= tip /\ k < Depth
        BY <1>0, <3>1
      <3>4. \A e \in moved : to[e] \in Nat
        BY <1>0, <3>2, <3>3
      <3>5. \A w \in Withdraw : Final(w) => w \notin moved
        BY <1>0, <3>3 DEF Final
      <3> HIDE DEF moved
      <3>6. QED
        BY <1>0, <3>2, <3>4, <3>5
    <2>3. QED
      BY <2>1, <2>2
  <1>3. FinalOnes \subseteq FinalOnes'
    BY <1>0, <1>1, <1>2 DEF FinalOnes, Final
  <1>4. ScanTypes' /\ Behind'
    BY <1>0, <1>1, <1>2 DEF PathInv, ScanTypes, Behind
  <1>5. faults' \in Nat
    BY <1>1 DEF PathInv, FlowTypeOK
  <1>6. QED
    BY <1>1, <1>3, <1>4, <1>5, QuietScanKeeps

\* What GetWithdrawTransactionByHeight enters is Depth blocks under a height
\* the chain has.
LEMMA EnteredIsFinal ==
  ASSUME PathInv, UNCHANGED flowOnly, Scan!GetWithdrawTransactionByHeight
  PROVE  PathInv'
  <1>1. /\ UNCHANGED <<tip, at, cur, goal, stored, crashes>>
        /\ pc = "withdraw" /\ pc' = "evidence"
    BY DEF Scan!GetWithdrawTransactionByHeight, Scan!side
  <1>2. ScanTypes' /\ Behind'
    BY <1>1 DEF PathInv, ScanTypes, Behind
  <1>3. FinalOnes' = FinalOnes
    BY <1>1, SameFinal
  <1>4. CASE cur >= Depth
    <2> DEFINE ws == Scan!In(Withdraw, Scan!WithdrawBlock(cur))
    <2>1. ws \subseteq FinalOnes
      <3>1. /\ Depth \in Nat /\ cur \in Nat /\ goal \in Nat /\ tip \in Nat
            /\ cur < goal /\ goal <= tip
        BY <1>1, PathAssumption DEF PathInv, ScanTypes, Behind
      <3>2. \A w \in ws : w \in Withdraw /\ at[w] = cur + 1 - Depth
        BY DEF Scan!In, Scan!WithdrawBlock
      <3>3. QED
        BY <1>4, <3>1, <3>2 DEF FinalOnes, Final
    <2>2. PICK kept \in SUBSET ws :
            /\ row' \in [Withdraw -> Nat] /\ Rows(row') = Rows(row) \cup kept
            /\ entered' = entered \cup kept
      BY ScanEnters DEF PathInv
    <2>3. UNCHANGED faults \/ Scan!Fail
      BY <1>4 DEF Scan!GetWithdrawTransactionByHeight, Scan!RecordWithdraws
    <2>4. kept \subseteq FinalOnes /\ kept \in SUBSET Withdraw
      BY <2>1, <2>2 DEF FinalOnes
    <2> HIDE DEF ws
    <2>6. faults' \in Nat
      BY <2>3 DEF Scan!Fail, PathInv, FlowTypeOK
    <2>7. FlowTypeOK'
      BY <1>1, <2>2, <2>4, <2>6 DEF PathInv, FlowTypeOK, flowOnly, routines
    <2>8. OnlyFinal'
      BY <1>3, <2>2, <2>4 DEF PathInv, OnlyFinal, flowOnly, routines
    <2>9. QED
      BY <1>2, <2>7, <2>8 DEF PathInv
  <1>5. CASE ~(cur >= Depth)
    <2>1. UNCHANGED <<row, entered, faults>>
      BY <1>5 DEF Scan!GetWithdrawTransactionByHeight
    <2>2. faults' \in Nat
      BY <2>1 DEF PathInv, FlowTypeOK
    <2>3. QED
      BY <1>1, <1>2, <1>3, <2>1, <2>2, QuietScanKeeps
  <1>6. QED
    BY <1>4, <1>5

\* The other steps of the scan enter no withdraw.
LEMMA LoopKeeps ==
  ASSUME PathInv, UNCHANGED flowOnly,
         Scan!BecomeReady \/ Scan!Sync \/ Scan!CallFails,
         ~Scan!GetWithdrawTransactionByHeight
  PROVE  PathInv'
  <1> USE DEF Scan!side, Scan!loop, Scan!tables, Scan!past, Scan!limits
  <1>0. /\ tip \in Nat /\ at \in [Withdraw -> Nat] /\ goal <= tip
        /\ cur \in Nat /\ goal \in Nat /\ stored \in Nat /\ SyncStartHeight \in Nat
        /\ pc \in {"withdraw", "evidence"} => cur < goal
        /\ faults \in Nat
    BY PathAssumption DEF PathInv, ScanTypes, Behind, FlowTypeOK
  <1>1. CASE Scan!BecomeReady
    <2>1. UNCHANGED <<row, entered, crashes, faults, tip, at, pc, cur, goal, stored>>
      BY <1>1 DEF Scan!BecomeReady
    <2>2. ScanTypes' /\ Behind'
      BY <2>1 DEF PathInv, ScanTypes, Behind
    <2>3. QED
      BY <1>0, <2>1, <2>2, SameFinal, QuietScanKeeps
  <1>2. ASSUME UNCHANGED <<row, entered, crashes, tip, at>>, faults' \in Nat,
               cur' \in Nat, stored' \in Nat, goal' \in {goal, tip},
               pc' \in {"withdraw", "evidence"} => cur' < goal'
        PROVE  PathInv'
    <2>1. ScanTypes' /\ Behind'
      BY <1>0, <1>2 DEF ScanTypes, Behind
    <2>2. QED
      BY <1>2, <2>1, SameFinal, QuietScanKeeps
  <1>3. CASE Scan!NeedSyncBlocks
    <2>1. /\ UNCHANGED <<row, entered, crashes, faults, tip, at, stored>> /\ goal' = tip
          /\ cur' \in Nat
          /\ pc' \in {"withdraw", "evidence"} => cur' < tip
      BY <1>0, <1>3 DEF Scan!NeedSyncBlocks, Scan!Continue
    <2>2. QED
      BY <1>0, <1>2, <2>1
  <1>4. CASE Scan!GetIllegalEvidenceByHeight
    <2>1. /\ UNCHANGED <<row, crashes, faults, tip, at, goal>>
          /\ cur' \in Nat /\ stored' \in Nat
      BY <1>0, <1>4 DEF Scan!GetIllegalEvidenceByHeight, Scan!CurrentSideHeight
    <2>2. entered' = entered
      BY <1>4 DEF Scan!GetIllegalEvidenceByHeight, Scan!In
    <2>3. pc' \in {"withdraw", "evidence"} => cur' < goal
      BY <1>4 DEF Scan!GetIllegalEvidenceByHeight, Scan!AfterMove, Scan!Continue
    <2>4. QED
      BY <1>0, <1>2, <2>1, <2>2, <2>3
  <1>5. CASE Scan!GetFailedDepositTransactions \/ Scan!GetFailedDepositsFails
    <2>1. /\ UNCHANGED <<row, crashes, tip, at, goal, cur, stored>>
          /\ faults' = faults \/ faults' = faults + 1
      BY <1>5 DEF Scan!GetFailedDepositTransactions, Scan!GetFailedDepositsFails, Scan!Fail
    <2>2. entered' = entered
      BY <1>5 DEF Scan!GetFailedDepositTransactions, Scan!GetFailedDepositsFails, Scan!In
    <2>3. pc' \in {"withdraw", "evidence"} => cur' < goal
      BY <1>5, <2>1 DEF Scan!GetFailedDepositTransactions, Scan!GetFailedDepositsFails,
                 Scan!AfterFailedDeposits, Scan!Continue
    <2>4. QED
      BY <1>0, <1>2, <2>1, <2>2, <2>3
  <1>6. CASE Scan!GetNFTDestroyTransactionByHeight \/ Scan!GetNFTDestroyFails
    <2>1. /\ UNCHANGED <<row, crashes, tip, at, goal, cur, stored>>
          /\ faults' = faults \/ faults' = faults + 1
      BY <1>6 DEF Scan!GetNFTDestroyTransactionByHeight, Scan!GetNFTDestroyFails, Scan!Fail
    <2>2. entered' = entered
      BY <1>6 DEF Scan!GetNFTDestroyTransactionByHeight, Scan!GetNFTDestroyFails,
                  Scan!DestroyedAt, Scan!In
    <2>3. pc' \in {"withdraw", "evidence"} => cur' < goal
      BY <1>6, <2>1 DEF Scan!GetNFTDestroyTransactionByHeight, Scan!GetNFTDestroyFails,
                 Scan!Continue
    <2>4. QED
      BY <1>0, <1>2, <2>1, <2>2, <2>3
  <1>7. CASE Scan!StoreHeight
    <2>1. /\ UNCHANGED <<row, entered, crashes, faults, tip, at, goal>>
          /\ cur' \in Nat /\ stored' \in Nat /\ pc' = "sleep"
      BY <1>0, <1>7 DEF Scan!StoreHeight, Scan!CurrentSideHeight
    <2>2. QED
      BY <1>0, <1>2, <2>1
  <1>8. CASE Scan!GetWithdrawTransactionFails \/ Scan!GetIllegalEvidenceFails
    <2>1. /\ UNCHANGED <<row, entered, crashes, tip, at, goal, cur, stored>>
          /\ faults' = faults + 1 /\ pc' = "store"
      BY <1>8 DEF Scan!GetWithdrawTransactionFails, Scan!GetIllegalEvidenceFails, Scan!Fail
    <2>2. QED
      BY <1>0, <1>2, <2>1
  <1>9. QED
    BY <1>1, <1>3, <1>4, <1>5, <1>6, <1>7, <1>8 DEF Scan!Sync, Scan!CallFails

-----------------------------------------------------------------------------
(***************************************************************************)
(* What is paid is final.                                                  *)
(***************************************************************************)
LEMMA PathInvInit == PathInit => PathInv
  <1> SUFFICES ASSUME PathInit PROVE PathInv
    OBVIOUS
  <1>1. FlowTypeOK
    BY TypeInit DEF PathInit
  <1>2. /\ tip = 0 /\ at = [w \in Withdraw |-> 0] /\ pc = "sleep"
        /\ cur = 0 /\ goal = 0 /\ stored = 0
    BY DEF PathInit, Scan!ScanInit, Scan!Event
  <1>3. Rows(row) = {} /\ onMain = {} /\ pool = {} /\ proposals = {}
    BY DEF PathInit, FlowInit, Rows
  <1>4. QED
    BY <1>1, <1>2, <1>3 DEF PathInv, ScanTypes, Behind, OnlyFinal

LEMMA PathInvStep == PathInv /\ [PathNext]_pathVars => PathInv'
  <1> SUFFICES ASSUME PathInv, [PathNext]_pathVars PROVE PathInv'
    OBVIOUS
  <1>1. CASE ScanStep
    BY <1>1, SideChainKeeps, EnteredIsFinal, LoopKeeps DEF ScanStep
  <1>2. CASE FlowRuns
    BY <1>2, FlowKeeps
  <1>3. CASE ProcessDies
    BY <1>3, DeathKeeps
  <1>4. CASE UNCHANGED pathVars
    <2>1. UNCHANGED <<flowOnly, row, entered, crashes, faults, tip, at, pc, cur, goal, stored>>
      BY <1>4 DEF pathVars, flowVars, flowOnly, stores, chains, history, bounds, routines, side, scan
    <2>2. ScanTypes' /\ Behind' /\ faults' \in Nat
      BY <2>1 DEF PathInv, ScanTypes, Behind, FlowTypeOK
    <2>3. QED
      BY <2>1, <2>2, SameFinal, QuietScanKeeps
  <1>5. QED
    BY <1>1, <1>2, <1>3, <1>4 DEF PathNext

\* No branch of fewer than Depth blocks takes back what the main chain has
\* paid or is asked to pay: the delay of GetWithdrawTransactionByHeight holds
\* for all that SendCachedWithdrawTxs and the other arbiters make of it.
THEOREM PaidStaysFinal == PathSpec => []PaidIsFinal
  <1>1. PathInv => PaidIsFinal
    BY DEF PathInv, OnlyFinal, FinalOnes, PaidIsFinal, Pooled
  <1>2. QED
    BY <1>1, PathInvInit, PathInvStep, PTL DEF PathSpec

-----------------------------------------------------------------------------
(***************************************************************************)
(* The books in the composition.  Its steps are of the same kinds as those *)
(* of the flow alone, but that the scan may enter several withdraws.       *)
(***************************************************************************)
\* The steps of the scan and of the side chain but that call leave the table
\* alone.
LEMMA ScanFindsNothing ==
  ASSUME ~Scan!GetWithdrawTransactionByHeight,
         \/ Scan!Grow \/ Scan!Reorganise \/ Scan!BecomeReady \/ Scan!Sync \/ Scan!CallFails
  PROVE  UNCHANGED <<row, entered>>
  <1> USE DEF Scan!tables, Scan!past
  <1>1. CASE Scan!Grow \/ Scan!Reorganise \/ Scan!BecomeReady \/ Scan!NeedSyncBlocks
             \/ Scan!StoreHeight \/ Scan!CallFails
    BY <1>1 DEF Scan!Grow, Scan!Reorganise, Scan!BecomeReady, Scan!NeedSyncBlocks,
                Scan!StoreHeight, Scan!CallFails, Scan!GetWithdrawTransactionFails,
                Scan!GetIllegalEvidenceFails, Scan!GetFailedDepositsFails,
                Scan!GetNFTDestroyFails
  <1>2. CASE Scan!GetIllegalEvidenceByHeight
    BY <1>2 DEF Scan!GetIllegalEvidenceByHeight, Scan!In
  <1>3. CASE Scan!GetFailedDepositTransactions
    BY <1>3 DEF Scan!GetFailedDepositTransactions, Scan!In
  <1>4. CASE Scan!GetNFTDestroyTransactionByHeight
    BY <1>4 DEF Scan!GetNFTDestroyTransactionByHeight, Scan!DestroyedAt, Scan!In
  <1>5. QED
    BY <1>1, <1>2, <1>3, <1>4 DEF Scan!Sync

LEMMA PathKinds ==
  ASSUME PathInv, PathInv', InHand, [PathNext]_pathVars
  PROVE  BookSteps /\ InHand'
  <1>0. HandInv
    BY DEF HandInv, PathInv
  <1>1. CASE FlowRuns
    <2>1. FlowNext
      BY <1>1 DEF FlowRuns, FlowNext, FlowStep, Fails, Outside
    <2>2. QED
      BY <1>0, <2>1, StepKinds
  <1>2. CASE ProcessDies
    <2>1. FlowNext
      BY <1>2 DEF ProcessDies, FlowNext, FlowStep, Fails
    <2>2. QED
      BY <1>0, <2>1, StepKinds
  <1>3. ASSUME UNCHANGED flowOnly
        PROVE  InHand' /\ UNCHANGED <<finished, onMain, refunded>>
    BY <1>3 DEF flowOnly, routines, InHand
  <1>4. ASSUME UNCHANGED flowOnly, UNCHANGED <<row, entered>> PROVE BookSteps
    BY <1>3, <1>4 DEF BookSteps, Quiet, SettledGrows
  <1>5. CASE ScanStep
    <2>1. UNCHANGED flowOnly
      BY <1>5 DEF ScanStep
    <2>2. CASE Scan!GetWithdrawTransactionByHeight
      <3>1. PICK kept \in SUBSET Scan!In(Withdraw, Scan!WithdrawBlock(cur)) :
              Rows(row') = Rows(row) \cup kept /\ entered' = entered \cup kept
        BY <2>2, ScanEnters DEF PathInv
      <3>2. kept \in SUBSET Withdraw
        BY <3>1 DEF Scan!In
      <3>3. Enters
        BY <1>3, <2>1, <3>1, <3>2 DEF Enters
      <3>4. QED
        BY <1>3, <2>1, <3>3 DEF BookSteps
    <2>3. CASE ~Scan!GetWithdrawTransactionByHeight
      <3>1. UNCHANGED <<row, entered>>
        BY <1>5, <2>3, ScanFindsNothing DEF ScanStep
      <3>2. QED
        BY <1>3, <1>4, <2>1, <3>1
    <2>4. QED
      BY <2>2, <2>3
  <1>6. CASE UNCHANGED pathVars
    <2>1. UNCHANGED flowOnly /\ UNCHANGED <<row, entered>>
      BY <1>6 DEF pathVars, flowVars, flowOnly, stores, chains, history, routines
    <2>2. QED
      BY <1>3, <1>4, <2>1
  <1>7. QED
    BY <1>1, <1>2, <1>5, <1>6 DEF PathNext

PathBooksInv == PathInv /\ BooksInv

LEMMA PathBooksInit == PathInit => PathBooksInv
  BY PathInvInit, BooksInit DEF PathBooksInv, PathInit

LEMMA PathBooksStep == PathBooksInv /\ [PathNext]_pathVars => PathBooksInv'
  <1> SUFFICES ASSUME PathBooksInv, [PathNext]_pathVars PROVE PathBooksInv'
    OBVIOUS
  <1>1. PathInv'
    BY PathInvStep DEF PathBooksInv
  <1>2. BookSteps /\ InHand'
    BY <1>1, PathKinds DEF PathBooksInv, BooksInv, HandInv
  <1>3. HandInv'
    BY <1>1, <1>2 DEF HandInv, PathInv
  <1>4. QED
    BY <1>1, <1>2, <1>3, BooksByKinds DEF PathBooksInv

\* The books implement WithdrawLedger with the scan in the process, too, which
\* enters rows while the goroutines of the flow remove some.
THEOREM PathImplementsLedger == PathSpec => ImplementsLedger
  <1>1. PathBooksInv /\ [PathNext]_pathVars => [Ledger!Next]_<<Rows(row), Settled, finished>>
    <2> SUFFICES ASSUME PathBooksInv, [PathNext]_pathVars
                 PROVE  [Ledger!Next]_<<Rows(row), Settled, finished>>
      OBVIOUS
    <2>1. PathInv' /\ BookSteps
      BY PathInvStep, PathKinds DEF PathBooksInv, BooksInv, HandInv
    <2>2. QED
      BY <2>1, LedgerByKinds DEF PathBooksInv, PathInv
  <1>2. PathInit => Ledger!Init
    BY LedgerInit DEF PathInit
  <1>3. QED
    BY <1>1, <1>2, PathBooksInit, PathBooksStep, PTL
    DEF PathSpec, ImplementsLedger, Ledger!Spec, Ledger!books

-----------------------------------------------------------------------------
(***************************************************************************)
(* Nothing is lost between the scan and the flow.  The invariant is about  *)
(* two heights, the stored one and that of the round under way: what the   *)
(* scan is done with at either was entered, or its insert failed.  Neither *)
(* height is past the chain, so no branch brings a withdraw in below it.   *)
(***************************************************************************)
Reached(h) == h <= tip \/ h <= SyncStartHeight

Covered(h) == \A w \in Withdraw : Scan!DoneWith(w, h, Depth) => w \in entered \cup missed

CoverInv ==
  /\ pc \in {"sleep", "withdraw", "evidence", "store"}
  /\ Rows(row) \subseteq entered
  /\ Reached(stored) /\ Covered(stored)
  /\ pc # "sleep" => stored <= cur /\ Reached(cur) /\ Covered(cur)
  /\ pc = "evidence" => Covered(cur + 1)

\* What the scan has entered, or missed, stays so; where no block changes, the
\* heights are covered as before.
LEMMA CoverStays ==
  ASSUME PathInv, CoverInv,
         Rows(row') \subseteq entered', entered \subseteq entered', missed \subseteq missed',
         UNCHANGED <<tip, at, stored>>,
         pc' = "sleep" \/ (cur' = cur /\ (pc' = pc \/ (pc # "sleep" /\ pc' = "store")))
  PROVE  CoverInv'
  BY DEF PathInv, ScanTypes, CoverInv, Reached, Covered, Scan!DoneWith

\* The flow leaves what was entered alone.
LEMMA FlowLeavesEntered ==
  ASSUME BookSteps, Rows(row) \subseteq entered
  PROVE  Rows(row') \subseteq entered' /\ entered \subseteq entered'
  <1>1. CASE Quiet
    BY <1>1 DEF Quiet, Rows
  <1>2. CASE Enters
    BY <1>2 DEF Enters
  <1>3. ASSUME NEW ws, Removes(ws) PROVE Rows(row') \subseteq entered' /\ entered \subseteq entered'
    BY <1>3 DEF Removes
  <1>4. ASSUME NEW ws, Records(ws) PROVE Rows(row') \subseteq entered' /\ entered \subseteq entered'
    BY <1>4 DEF Records, Rows
  <1>5. QED
    BY <1>1, <1>2, <1>3, <1>4 DEF BookSteps

\* The side chain puts a withdraw into a block past what the scan has covered:
\* the blocks that change are less than Depth under the tip.
LEMMA ChainKeepsCover ==
  ASSUME PathInv, CoverInv, Scan!Grow \/ Scan!Reorganise
  PROVE  CoverInv'
  <1>0. /\ Depth \in Nat /\ tip \in Nat /\ at \in [Withdraw -> Nat]
        /\ SyncStartHeight \in Nat /\ cur \in Nat /\ stored \in Nat
        /\ goal <= tip /\ (pc = "evidence" => cur < goal) /\ goal \in Nat
        /\ Scan!Event = Withdraw
    BY PathAssumption DEF PathInv, ScanTypes, Behind, Scan!Event
  <1>1. /\ UNCHANGED <<pc, cur, stored, row, entered, missed>>
        /\ tip' = tip + 1
    BY DEF Scan!Grow, Scan!Reorganise, Scan!loop, Scan!tables, Scan!past
  <1>2. \A w \in Withdraw : \/ at'[w] = at[w]
                            \/ at'[w] = 0
                            \/ at'[w] \in Nat /\ at'[w] + Depth > tip + 1
    <2>1. CASE Scan!Grow
      <3>1. PICK block \in SUBSET Scan!In(Scan!Event, 0) :
              at' = [e \in Scan!Event |-> IF e \in block THEN tip + 1 ELSE at[e]]
        BY <2>1 DEF Scan!Grow
      <3>2. QED
        BY <1>0, <3>1, PathAssumption
    <2>2. CASE Scan!Reorganise
      <3>1. PICK k \in 1..(Depth - 1) :
              LET moved == {e \in Scan!Event : at[e] > tip - k} IN
              /\ k <= tip
              /\ \E to \in [moved -> {0} \cup (tip - k + 1)..(tip + 1)] :
                   at' = [e \in Scan!Event |-> IF e \in moved THEN to[e] ELSE at[e]]
        BY <2>2 DEF Scan!Reorganise
      <3> DEFINE moved == {e \in Scan!Event : at[e] > tip - k}
      <3>2. PICK to \in [moved -> {0} \cup (tip - k + 1)..(tip + 1)] :
              at' = [e \in Scan!Event |-> IF e \in moved THEN to[e] ELSE at[e]]
        BY <3>1
      <3>3. k \in Nat /\ k <= tip /\ k < Depth
        BY <1>0, <3>1
      <3>4. \A e \in moved : to[e] = 0 \/ (to[e] \in Nat /\ to[e] >= tip - k + 1)
        BY <1>0, <3>2, <3>3
      <3> HIDE DEF moved
      <3>5. QED
        BY <1>0, <3>2, <3>3, <3>4
    <2>3. QED
      BY <2>1, <2>2
  <1>3. \A h \in Nat : Reached(h) /\ Covered(h) =>
          \A w \in Withdraw : at'[w] > 0 /\ at'[w] + Depth <= h /\ at'[w] + Depth > SyncStartHeight
            => w \in entered \cup missed
    BY <1>0, <1>2 DEF Reached, Covered, Scan!DoneWith
  <1>4. pc = "evidence" => Reached(cur + 1)
    BY <1>0 DEF Reached
  <1>5. cur + 1 \in Nat
    BY <1>0
  <1>6. /\ Covered(stored)'
        /\ pc # "sleep" => Covered(cur)'
        /\ pc = "evidence" => Covered(cur + 1)'
    BY <1>0, <1>1, <1>3, <1>4, <1>5 DEF CoverInv, Covered, Scan!DoneWith
  <1>7. Reached(stored)' /\ (pc # "sleep" => Reached(cur)')
    BY <1>0, <1>1 DEF CoverInv, Reached
  <1>8. Rows(row') \subseteq entered'
    BY <1>1 DEF CoverInv, Rows
  <1>9. QED
    BY <1>1, <1>6, <1>7, <1>8 DEF CoverInv

\* The block asked for at height cur holds what the scan is done with at
\* cur + 1 but not at cur.
LEMMA CallKeepsCover ==
  ASSUME PathInv, CoverInv, Scan!GetWithdrawTransactionByHeight
  PROVE  CoverInv'
  <1>0. /\ Depth \in Nat /\ at \in [Withdraw -> Nat] /\ cur \in Nat /\ stored \in Nat
        /\ FlowTypeOK
    BY PathAssumption DEF PathInv, ScanTypes
  <1>1. UNCHANGED <<tip, at, cur, stored>> /\ pc = "withdraw" /\ pc' = "evidence"
    BY DEF Scan!GetWithdrawTransactionByHeight, Scan!side
  <1> DEFINE ws == Scan!In(Withdraw, Scan!WithdrawBlock(cur))
  <1>2. /\ \E kept \in SUBSET ws : /\ Rows(row') = Rows(row) \cup kept
                                   /\ entered' = entered \cup kept
        /\ missed \subseteq missed'
        /\ cur >= Depth => ws \subseteq Rows(row') \cup missed'
    BY <1>0, ScanEnters
  <1>3. Rows(row') \subseteq entered' /\ entered \subseteq entered'
    BY <1>2 DEF CoverInv
  <1>4. \A w \in Withdraw : at[w] > 0 /\ at[w] + Depth = cur + 1 => w \in entered' \cup missed'
    <2>1. SUFFICES ASSUME NEW w \in Withdraw, at[w] > 0, at[w] + Depth = cur + 1
                   PROVE  w \in entered' \cup missed'
      OBVIOUS
    <2>2. at[w] \in Nat
      BY <1>0
    <2>3. cur >= Depth /\ at[w] = cur + 1 - Depth
      BY <1>0, <2>1, <2>2
    <2>4. w \in ws
      BY <2>3 DEF Scan!In, Scan!WithdrawBlock
    <2>5. QED
      BY <1>2, <1>3, <2>3, <2>4
  <1> HIDE DEF ws
  <1>5. Covered(stored)' /\ Covered(cur)'
    BY <1>1, <1>2, <1>3 DEF CoverInv, Covered, Scan!DoneWith
  <1>6. Covered(cur + 1)'
    BY <1>0, <1>1, <1>4, <1>5 DEF Covered, Scan!DoneWith
  <1>7. QED
    BY <1>1, <1>3, <1>5, <1>6 DEF CoverInv, Reached

\* A round begins at a height that is covered, moves on to one that the last
\* call has covered, and stores where it is.
LEMMA LoopKeepsCover ==
  ASSUME PathInv, CoverInv, ~Scan!GetWithdrawTransactionByHeight,
         Scan!BecomeReady \/ Scan!Sync \/ Scan!CallFails
  PROVE  CoverInv'
  <1> USE DEF Scan!side, Scan!loop, Scan!past
  <1>0. /\ Depth \in Nat /\ tip \in Nat /\ at \in [Withdraw -> Nat]
        /\ SyncStartHeight \in Nat /\ cur \in Nat /\ goal \in Nat /\ stored \in Nat
        /\ goal <= tip /\ (pc = "evidence" => cur < goal)
    BY PathAssumption DEF PathInv, ScanTypes, Behind
  <1>1. UNCHANGED <<row, entered>>
    BY ScanFindsNothing
  <1>2. Rows(row') \subseteq entered' /\ entered \subseteq entered'
    BY <1>1 DEF CoverInv, Rows
  <1>3. CASE Scan!BecomeReady
    <2>1. UNCHANGED <<missed, tip, at, stored, cur, pc>>
      BY <1>3 DEF Scan!BecomeReady
    <2>2. QED
      BY <1>2, <2>1, CoverStays
  <1>4. CASE Scan!GetWithdrawTransactionFails \/ Scan!GetIllegalEvidenceFails
    <2>1. UNCHANGED <<missed, tip, at, stored, cur>> /\ pc # "sleep" /\ pc' = "store"
      BY <1>4 DEF Scan!GetWithdrawTransactionFails, Scan!GetIllegalEvidenceFails
    <2>2. QED
      BY <1>2, <2>1, CoverStays
  <1>5. CASE Scan!NeedSyncBlocks
    <2>1. /\ UNCHANGED <<missed, tip, at, stored>> /\ stored < tip
          /\ cur' = IF stored < SyncStartHeight THEN SyncStartHeight ELSE stored
          /\ pc' \in {"withdraw", "store"}
      BY <1>5 DEF Scan!NeedSyncBlocks, Scan!Continue
    <2>2. Covered(stored)' /\ Covered(cur)'
      BY <1>0, <1>1, <2>1 DEF CoverInv, Covered, Scan!DoneWith
    <2>3. Reached(stored)' /\ Reached(cur)' /\ stored' <= cur'
      BY <1>0, <2>1 DEF Reached
    <2>4. QED
      BY <1>2, <2>1, <2>2, <2>3 DEF CoverInv
  <1>6. CASE Scan!GetIllegalEvidenceByHeight
    <2>1. /\ UNCHANGED <<missed, tip, at>> /\ pc = "evidence"
          /\ cur' = cur + 1 /\ stored' \in {stored, cur + 1}
      BY <1>0, <1>6 DEF Scan!GetIllegalEvidenceByHeight, Scan!CurrentSideHeight, CoverInv
    <2>2. pc' \in {"withdraw", "store"}
      BY <1>6 DEF Scan!GetIllegalEvidenceByHeight, Scan!AfterMove, Scan!Continue
    <2>3. Covered(stored)' /\ Covered(cur)'
      BY <1>1, <2>1 DEF CoverInv, Covered, Scan!DoneWith
    <2>4. Reached(stored)' /\ Reached(cur)' /\ stored' <= cur'
      BY <1>0, <2>1 DEF CoverInv, Reached
    <2>5. QED
      BY <1>2, <2>2, <2>3, <2>4 DEF CoverInv
  <1>7. CASE Scan!StoreHeight
    <2>1. UNCHANGED <<missed, tip, at>> /\ pc = "store" /\ stored' = cur /\ pc' = "sleep"
      BY <1>0, <1>7 DEF Scan!StoreHeight, Scan!CurrentSideHeight, CoverInv
    <2>2. Reached(stored)' /\ Covered(stored)'
      BY <1>1, <2>1 DEF CoverInv, Reached, Covered, Scan!DoneWith
    <2>3. QED
      BY <1>2, <2>1, <2>2 DEF CoverInv
  <1>8. /\ ~Scan!GetFailedDepositTransactions /\ ~Scan!GetNFTDestroyTransactionByHeight
        /\ ~Scan!GetFailedDepositsFails /\ ~Scan!GetNFTDestroyFails
    BY DEF CoverInv, Scan!GetFailedDepositTransactions, Scan!GetNFTDestroyTransactionByHeight,
           Scan!GetFailedDepositsFails, Scan!GetNFTDestroyFails
  <1>9. QED
    BY <1>3, <1>4, <1>5, <1>6, <1>7, <1>8 DEF Scan!Sync, Scan!CallFails

LEMMA CoverInit == PathInit => CoverInv
  <1> SUFFICES ASSUME PathInit PROVE CoverInv
    OBVIOUS
  <1>1. /\ tip = 0 /\ at = [w \in Withdraw |-> 0] /\ pc = "sleep" /\ stored = 0
        /\ Rows(row) = {}
    BY DEF PathInit, FlowInit, Rows, Scan!ScanInit, Scan!Event
  <1>2. QED
    BY <1>1 DEF CoverInv, Reached, Covered, Scan!DoneWith

LEMMA CoverStep ==
  ASSUME PathBooksInv, CoverInv, [PathNext]_pathVars
  PROVE  CoverInv'
  <1>0. PathInv /\ BookSteps
    BY PathInvStep, PathKinds DEF PathBooksInv, BooksInv, HandInv
  <1>1. Rows(row') \subseteq entered' /\ entered \subseteq entered'
    BY <1>0, FlowLeavesEntered DEF CoverInv
  <1>2. CASE ScanStep
    BY <1>0, <1>2, ChainKeepsCover, CallKeepsCover, LoopKeepsCover DEF ScanStep
  <1>3. CASE FlowRuns
    BY <1>0, <1>1, <1>3, CoverStays DEF FlowRuns, side, scan
  <1>4. CASE ProcessDies
    <2>1. /\ UNCHANGED <<tip, at, stored>> /\ pc' = "sleep" /\ missed \subseteq missed'
      BY <1>4 DEF ProcessDies, Scan!Killed, Scan!side
    <2>2. QED
      BY <1>0, <1>1, <2>1, CoverStays
  <1>5. CASE UNCHANGED pathVars
    BY <1>0, <1>1, <1>5, CoverStays DEF pathVars, side, scan
  <1>6. QED
    BY <1>2, <1>3, <1>4, <1>5 DEF PathNext

\* A withdraw whose block the scan is done with keeps its row until the main
\* chain has it in a block or the side chain took it back, unless its insert
\* failed: neither SyncChainData, which stores its height apart from the rows,
\* nor a death between the two, nor the goroutines that remove rows lose it.
THEOREM NothingIsLost == PathSpec => []NoneLost
  <1>1. PathBooksInv /\ CoverInv => NoneLost
    BY DEF PathBooksInv, BooksInv, WithdrawsAccounted, CoverInv, Covered, NoneLost
  <1>2. PathBooksInv /\ CoverInv /\ [PathNext]_pathVars => (PathBooksInv /\ CoverInv)'
    BY PathBooksStep, CoverStep
  <1>3. QED
    BY <1>1, <1>2, PathBooksInit, CoverInit, PTL DEF PathSpec
===============================================================================
