----------------------------- MODULE WithdrawFlow -----------------------------
(***************************************************************************)
(* Withdraws from one side chain, from the row the scan made to the        *)
(* verdict.                                                                *)
(*                                                                         *)
(* A withdraw the scan found has a row in SideChainTxs.  An arbiter that   *)
(* comes on duty asks the main chain which of its first Batch rows it has  *)
(* already, proposes a withdraw transaction for the others, and moves the  *)
(* ones the main chain has to WithdrawTransactions, in another database.   *)
(* The proposal gathers signatures (SignCollection) and is submitted by    *)
(* the goroutine that handles the answers of the peers.  A check loop      *)
(* moves what the main chain has, whoever sent it, and a monitor asks the  *)
(* side chain about the withdraws that can never be sent.  These four      *)
(* share no lock but the one inside each store.                            *)
(*                                                                         *)
(* From NewCrossChainTransactionHeight on the hashes of the withdraws are  *)
(* in the outputs of the transaction.  The list in its payload, by which   *)
(* the handler moves rows after a submission, is empty, so a submission    *)
(* touches no row.  Before that height the list is there but the outputs   *)
(* name no side chain; as the version of the payload is that of the later  *)
(* form, the handler looks for the side chain in the outputs and panics,   *)
(* whatever the main chain answered.                                       *)
(*                                                                         *)
(* The main chain node, the side chain and the other arbiters are          *)
(* external.  Statements to SQLite are assumed to succeed.  Side chains    *)
(* have a table each, and one is modelled.                                 *)
(***************************************************************************)
EXTENDS Naturals, FiniteSets, SideTable

CONSTANTS
  Withdraw,    \* withdraws of the side chain
  Unpayable,   \* those with a fee too small or a bad address
  Frozen,      \* those to an address that was frozen after they were found
  Batch,       \* MaxTxsPerWithdrawTx
  MaxCarried,  \* how many withdraws fit into one transaction
  MaxId,       \* bound: the largest Id of a row
  MaxFaults,   \* bound: how many calls fail or are refused for other reasons
  MaxCrashes   \* bound: how often the process is killed

ASSUME FlowAssumption ==
  /\ IsFiniteSet(Withdraw)
  /\ Unpayable \subseteq Withdraw /\ Frozen \subseteq Withdraw
  /\ Batch \in Nat \ {0} /\ MaxCarried \in Nat \ {0}
  /\ MaxId \in Nat /\ MaxFaults \in Nat /\ MaxCrashes \in Nat

VARIABLES
  row,        \* SideChainTxs
  finished,   \* WithdrawTransactions: withdraws recorded as succeeded
  era,        \* "V0" before NewCrossChainTransactionHeight, "V1" from it on
  sender,     \* the goroutine of SendCachedWithdrawTxs
  checker,    \* CheckAndRemoveCrossChainTransactionsFromDBLoop
  monitor,    \* MonitorInvalidWithdrawTransaction
  proposals,  \* proposals that gather signatures
  pool,       \* transactions in the pool of the main chain: the withdraws of each
  onMain,     \* withdraws in a block of the main chain
  refunded,   \* unpayable withdraws the side chain has processed
  entered,    \* history: withdraws that had a row
  failedSend, \* history: withdraws whose sendrawtransaction call failed
  torn,       \* history: withdraws whose row was removed by a goroutine that
              \* died before it recorded them
  faults, crashes  \* how often each bounded event happened

stores   == <<row, finished>>
routines == <<sender, checker, monitor, proposals>>
chains   == <<pool, onMain, refunded, era>>
history  == <<entered, failedSend, torn>>
bounds   == <<faults, crashes>>
flowVars == <<stores, routines, chains, history, bounds>>

\* A goroutine: where it is, the withdraws it asked about, and the answer.
Routine == [pc : {"idle", "read", "ask", "propose", "remove", "record"},
            asked : SUBSET Withdraw, received : SUBSET Withdraw]
Idle    == [pc |-> "idle", asked |-> {}, received |-> {}]

\* The withdraws that may be sent, and the proposals: of one or more of them.
Payable  == Withdraw \ (Unpayable \cup Frozen)
Proposal == [carried : (SUBSET Payable) \ {{}}, era : {"V0", "V1"}]

FlowInit ==
  /\ row = [w \in Withdraw |-> 0]
  /\ finished = {}
  /\ era \in {"V0", "V1"}
  /\ sender = Idle /\ checker = Idle /\ monitor = Idle
  /\ proposals = {}
  /\ pool = {} /\ onMain = {} /\ refunded = {}
  /\ entered = {} /\ failedSend = {} /\ torn = {}
  /\ faults = 0 /\ crashes = 0

Fault == faults < MaxFaults /\ faults' = faults + 1

Pooled == UNION pool

\* AddSucceedWithdrawTxs: TransactionHash is UNIQUE, one that is there stays.
AddSucceedWithdrawTxs(ws) == finished' = finished \cup ws

RemoveSideChainTxs(ws) == row' = Deleted(row, ws)

-----------------------------------------------------------------------------
(***************************************************************************)
(* What happens outside: the scan finds a withdraw, perhaps again; the     *)
(* other arbiters send one; the main chain puts a transaction into a block *)
(* or drops it; the side chain deals with an unpayable withdraw.           *)
(***************************************************************************)
Enter(w) ==
  /\ row[w] = 0 /\ NextId(row) <= MaxId
  /\ row' = Inserted(row, {w}, [v \in {w} |-> 0])
  /\ entered' = entered \cup {w}
  /\ UNCHANGED <<finished, routines, chains, failedSend, torn, bounds>>

OtherArbiterSends(w) ==
  /\ w \in Payable \ (onMain \cup Pooled)
  /\ pool' = pool \cup {{w}}
  /\ UNCHANGED <<stores, routines, onMain, refunded, era, history, bounds>>

MainChainMines(t) ==
  /\ t \in pool
  /\ pool' = pool \ {t}
  /\ onMain' = onMain \cup t
  /\ UNCHANGED <<stores, routines, refunded, era, history, bounds>>

MainChainDrops(t) ==
  /\ t \in pool /\ Fault
  /\ pool' = pool \ {t}
  /\ UNCHANGED <<stores, routines, onMain, refunded, era, history, crashes>>

SideChainRefunds(w) ==
  /\ w \in Unpayable \ refunded
  /\ refunded' = refunded \cup {w}
  /\ UNCHANGED <<stores, routines, pool, onMain, era, history, bounds>>

NewEra ==
  /\ era = "V0" /\ era' = "V1"
  /\ UNCHANGED <<stores, routines, pool, onMain, refunded, history, bounds>>

-----------------------------------------------------------------------------
(***************************************************************************)
(* SendCachedWithdrawTxs.  OnDutyArbitratorChanged forgets the contents    *)
(* that gather signatures (Reset) and starts the goroutine; the one of the *)
(* last duty is taken to be done.                                          *)
(***************************************************************************)
OnDuty ==
  /\ sender.pc = "idle"
  /\ sender' = [sender EXCEPT !.pc = "read"]
  /\ proposals' = {}
  /\ UNCHANGED <<stores, checker, monitor, chains, history, bounds>>

\* Mutant of Head: one row too few.
ShortHead == First(row, Rows(row), Batch - 1)

\* The rows a duty deals with: the first MaxTxsPerWithdrawTx.
Head == First(row, Rows(row), Batch)

\* GetAllSideChainTxHashesAndHeights, cut to MaxTxsPerWithdrawTx.
ReadRows ==
  /\ sender.pc = "read"
  /\ sender' = IF Rows(row) = {} THEN Idle
               ELSE [pc |-> "ask", asked |-> Head, received |-> {}]
  /\ UNCHANGED <<stores, checker, monitor, proposals, chains, history, bounds>>

\* GetExistWithdrawTransactions: of the withdraws ws, those in a block.
GetExist(ws) == ws \cap onMain

AskMainChain ==
  /\ sender.pc = "ask"
  /\ sender' = [sender EXCEPT !.pc = "propose", !.received = GetExist(sender.asked)]
  /\ UNCHANGED <<stores, checker, monitor, proposals, chains, history, bounds>>

AskMainChainFails ==
  /\ sender.pc = "ask" /\ Fault
  /\ sender' = Idle
  /\ UNCHANGED <<stores, checker, monitor, proposals, chains, history, crashes>>

\* SubstractTransactionHashesAndBlockHeights.
Unsolved == sender.asked \ sender.received

\* Mutant of Sendable: nothing is left out.
SendableOrNot == Unsolved \cap Rows(row)

\* The withdraws a proposal may carry: their rows are read once more, and
\* those that must not be sent are left out.
Sendable == (Unsolved \cap Rows(row)) \cap Payable

\* Where SendCachedWithdrawTxs goes after the proposal, made or not.
AfterProposal ==
  sender' = IF sender.received = {} THEN Idle ELSE [sender EXCEPT !.pc = "remove"]

\* CreateAndBroadcastWithdrawProposal: one transaction with as many
\* withdraws as fit.
Propose ==
  /\ sender.pc = "propose"
  /\ Sendable # {}
  /\ \E carried \in SUBSET Sendable :
       /\ carried # {}
       /\ Cardinality(carried) =
            IF Cardinality(Sendable) < MaxCarried THEN Cardinality(Sendable) ELSE MaxCarried
       /\ proposals' = proposals \cup {[carried |-> carried, era |-> era]}
  /\ AfterProposal
  /\ UNCHANGED <<stores, checker, monitor, chains, history, bounds>>

NothingToPropose ==
  /\ sender.pc = "propose"
  /\ Sendable = {}
  /\ AfterProposal
  /\ UNCHANGED <<stores, checker, monitor, proposals, chains, history, bounds>>

\* No transaction: too few coins, or the call for them fails.
ProposalFails ==
  /\ sender.pc = "propose" /\ Sendable # {} /\ Fault
  /\ AfterProposal
  /\ UNCHANGED <<stores, checker, monitor, proposals, chains, history, crashes>>

\* Mutant of RemoveReceived: what was asked about is removed.
RemoveAsked ==
  /\ sender.pc = "remove"
  /\ RemoveSideChainTxs(sender.asked)
  /\ sender' = [sender EXCEPT !.pc = "record"]
  /\ UNCHANGED <<finished, checker, monitor, proposals, chains, history, bounds>>

RemoveReceived ==
  /\ sender.pc = "remove"
  /\ RemoveSideChainTxs(sender.received)
  /\ sender' = [sender EXCEPT !.pc = "record"]
  /\ UNCHANGED <<finished, checker, monitor, proposals, chains, history, bounds>>

\* Mutant of RecordReceived: the verdict is forgotten.
RecordNothing ==
  /\ sender.pc = "record"
  /\ sender' = Idle
  /\ UNCHANGED <<stores, checker, monitor, proposals, chains, history, bounds>>

RecordReceived ==
  /\ sender.pc = "record"
  /\ AddSucceedWithdrawTxs(sender.received)
  /\ sender' = Idle
  /\ UNCHANGED <<row, checker, monitor, proposals, chains, history, bounds>>

-----------------------------------------------------------------------------
(***************************************************************************)
(* CheckAndRemoveWithdrawTransactionsFromDB.  It goes through the side     *)
(* chains in turn and gives up at the first whose table is empty, so that  *)
(* this side chain may or may not be looked at.                            *)
(***************************************************************************)
CheckRows ==
  /\ checker.pc = "idle"
  /\ Rows(row) # {}
  /\ checker' = [pc |-> "ask", asked |-> Rows(row), received |-> {}]
  /\ UNCHANGED <<stores, sender, monitor, proposals, chains, history, bounds>>

\* The answer is empty, or there is something to remove.
CheckAsks ==
  /\ checker.pc = "ask"
  /\ checker' = IF GetExist(checker.asked) = {} THEN Idle
                ELSE [checker EXCEPT !.pc = "remove", !.received = GetExist(checker.asked)]
  /\ UNCHANGED <<stores, sender, monitor, proposals, chains, history, bounds>>

CheckAskFails ==
  /\ checker.pc = "ask" /\ Fault
  /\ checker' = Idle
  /\ UNCHANGED <<stores, sender, monitor, proposals, chains, history, crashes>>

CheckRemoves ==
  /\ checker.pc = "remove"
  /\ RemoveSideChainTxs(checker.received)
  /\ checker' = [checker EXCEPT !.pc = "record"]
  /\ UNCHANGED <<finished, sender, monitor, proposals, chains, history, bounds>>

\* Mutant of CheckRecords: the verdict goes to what was asked about.
CheckRecordsAsked ==
  /\ checker.pc = "record"
  /\ AddSucceedWithdrawTxs(checker.asked)
  /\ checker' = Idle
  /\ UNCHANGED <<row, sender, monitor, proposals, chains, history, bounds>>

CheckRecords ==
  /\ checker.pc = "record"
  /\ AddSucceedWithdrawTxs(checker.received)
  /\ checker' = Idle
  /\ UNCHANGED <<row, sender, monitor, proposals, chains, history, bounds>>

-----------------------------------------------------------------------------
(***************************************************************************)
(* MonitorInvalidWithdrawTransaction: the rows of unpayable withdraws the  *)
(* side chain has processed are removed; the others are sent to the side   *)
(* chain, signed, which changes nothing here.                              *)
(***************************************************************************)
MonitorReads ==
  /\ monitor.pc = "idle"
  /\ Rows(row) \cap Unpayable # {}
  /\ monitor' = [pc |-> "ask", asked |-> Rows(row) \cap Unpayable, received |-> {}]
  /\ UNCHANGED <<stores, sender, checker, proposals, chains, history, bounds>>

MonitorAsks ==
  /\ monitor.pc = "ask"
  /\ monitor' = [monitor EXCEPT !.pc = "remove", !.received = monitor.asked \cap refunded]
  /\ UNCHANGED <<stores, sender, checker, proposals, chains, history, bounds>>

MonitorAskFails ==
  /\ monitor.pc = "ask" /\ Fault
  /\ monitor' = Idle
  /\ UNCHANGED <<stores, sender, checker, proposals, chains, history, crashes>>

MonitorRemoves ==
  /\ monitor.pc = "remove"
  /\ RemoveSideChainTxs(monitor.received)
  /\ monitor' = Idle
  /\ UNCHANGED <<finished, sender, checker, proposals, chains, history, bounds>>

-----------------------------------------------------------------------------
(***************************************************************************)
(* SubmitWithdrawTransaction, once a proposal has its signatures.          *)
(***************************************************************************)
Fresh(p) == p.carried \cap (onMain \cup Pooled) = {}

Pools(p) == Fresh(p) /\ pool' = pool \cup {p.carried}

\* Mutant of SubmitAccepted: the rows are removed, as those a payload lists.
SubmitMovesRows(p) ==
  /\ p.era = "V1" /\ p \in proposals
  /\ Pools(p)
  /\ RemoveSideChainTxs(p.carried)
  /\ proposals' = proposals \ {p}
  /\ UNCHANGED <<finished, sender, checker, monitor, onMain, refunded, era, history, bounds>>

\* A result: the transaction is in the pool of the main chain.
SubmitAccepted(p) ==
  /\ p.era = "V1" /\ p \in proposals
  /\ Pools(p)
  /\ proposals' = proposals \ {p}
  /\ UNCHANGED <<stores, sender, checker, monitor, onMain, refunded, era, history, bounds>>

\* MCErrSidechainTxDuplicate: the main chain has one of the withdraws.
SubmitDuplicate(p) ==
  /\ p.era = "V1" /\ p \in proposals
  /\ ~Fresh(p)
  /\ proposals' = proposals \ {p}
  /\ UNCHANGED <<stores, sender, checker, monitor, chains, history, bounds>>

\* Any other error, as MCErrDoubleSpend: its coins are spent elsewhere.
SubmitRefused(p) ==
  /\ p.era = "V1" /\ p \in proposals
  /\ Fault
  /\ proposals' = proposals \ {p}
  /\ UNCHANGED <<stores, sender, checker, monitor, chains, history, crashes>>

\* The death of the process ends every goroutine.
HalfDone(r) == IF r.pc = "record" THEN r.received ELSE {}

Dies ==
  /\ torn' = torn \cup HalfDone(sender) \cup HalfDone(checker)
  /\ sender' = Idle /\ checker' = Idle /\ monitor' = Idle
  /\ proposals' = {}

\* The transaction was sent, and no output names a side chain.
SubmitPanics(p) ==
  /\ p.era = "V0" /\ p \in proposals
  /\ UNCHANGED pool \/ Pools(p)
  /\ Dies
  /\ UNCHANGED <<stores, onMain, refunded, era, entered, failedSend, bounds>>

\* The call fails, whether or not the main chain got the transaction.  The
\* response has no error object, and the log statement that reads its code
\* panics in the goroutine of the handler, if it comes that far.
SubmitCallFails(p) ==
  /\ p \in proposals /\ Fault
  /\ UNCHANGED pool \/ Pools(p)
  /\ failedSend' = failedSend \cup p.carried
  /\ Dies
  /\ UNCHANGED <<stores, onMain, refunded, era, entered, crashes>>

Crash ==
  /\ crashes < MaxCrashes /\ crashes' = crashes + 1
  /\ Dies
  /\ UNCHANGED <<stores, chains, entered, failedSend, faults>>

-----------------------------------------------------------------------------
SenderStep == ReadRows \/ AskMainChain \/ Propose \/ NothingToPropose
              \/ RemoveReceived \/ RecordReceived
CheckGoesOn == CheckAsks \/ CheckRemoves \/ CheckRecords
MonitorStep == MonitorReads \/ MonitorAsks \/ MonitorRemoves

\* The main chain answers a submission for what it is.
Submit(p) == SubmitAccepted(p) \/ SubmitDuplicate(p)

Fails ==
  \/ AskMainChainFails \/ ProposalFails \/ CheckAskFails \/ MonitorAskFails
  \/ \E p \in proposals : SubmitRefused(p) \/ SubmitCallFails(p)

Outside ==
  \/ \E w \in Withdraw : OtherArbiterSends(w) \/ SideChainRefunds(w)
  \/ \E t \in pool : MainChainMines(t) \/ MainChainDrops(t)
  \/ NewEra

\* All steps but Enter, which stands for the scan of the side chain.
FlowStep ==
  \/ OnDuty \/ SenderStep \/ CheckRows \/ CheckGoesOn \/ MonitorStep
  \/ \E p \in proposals : Submit(p) \/ SubmitPanics(p)
  \/ Fails \/ Outside \/ Crash

FlowNext == FlowStep \/ \E w \in Withdraw : Enter(w)

FlowSpec == FlowInit /\ [][FlowNext]_flowVars

-----------------------------------------------------------------------------
(***************************************************************************)
(* Properties.                                                             *)
(***************************************************************************)
\* The types of the variables.
FlowTypeOK ==
  /\ row \in [Withdraw -> Nat]
  /\ finished \subseteq Withdraw
  /\ era \in {"V0", "V1"}
  /\ sender \in Routine /\ checker \in Routine /\ monitor \in Routine
  /\ proposals \in SUBSET Proposal
  /\ pool \in SUBSET (SUBSET Withdraw)
  /\ onMain \subseteq Withdraw /\ refunded \subseteq Withdraw
  /\ entered \subseteq Withdraw /\ failedSend \subseteq Withdraw /\ torn \subseteq Withdraw
  /\ faults \in Nat /\ crashes \in Nat

\* Where the books may be closed on a withdraw: the main chain has it in a
\* block, or the side chain took it back.
Settled == onMain \cup refunded

\* No withdraw is forgotten.  One that was found keeps its row until it is
\* settled, across crashes between any two steps, answers that come late,
\* submissions that fail, and goroutines that remove rows at the same time.
WithdrawsAccounted == entered \subseteq Rows(row) \cup Settled

\* Succeeded is recorded only of a withdraw that is in a block of the main
\* chain, not of one it was only asked about, or whose submission it took.
VerdictsFounded == finished \subseteq onMain

\* The books as the abstract specification WithdrawLedger sees them.
Ledger == INSTANCE WithdrawLedger WITH open <- Rows(row), settled <- Settled, closed <- finished

\* Every step closes books only on settled withdraws, and what was recorded
\* stays.
ImplementsLedger == Ledger!Spec

\* When the call of sendrawtransaction fails, the log says "send withdraw
\* transaction failed, move to finished db": its withdraws are recorded.
FailedSendIsFinished == failedSend \subseteq finished

\* The arbiter comes on duty again and again, the goroutines run, the main
\* chain mines what it has and grows past NewCrossChainTransactionHeight, and
\* a proposal gets its signatures before the next duty again and again.  The check loop need not get to this side
\* chain, but goes on once it did.
FlowFairness ==
  /\ WF_flowVars(OnDuty) /\ WF_flowVars(SenderStep)
  /\ WF_flowVars(CheckGoesOn) /\ WF_flowVars(NewEra)
  /\ WF_flowVars(\E t \in pool : MainChainMines(t))
  /\ SF_flowVars(\E p \in proposals : Submit(p))

FlowFairSpec == FlowSpec /\ FlowFairness

\* A withdraw that can be paid does not keep its row for ever, though rows
\* that cannot be paid stand before it, as long as they are fewer than Batch.
RowsLeave == \A w \in Payable : row[w] > 0 ~> row[w] = 0

\* A withdraw the main chain has while its row is there is recorded, but for
\* those a death between the removal and the record tore.
PaidGetsVerdict ==
  \A w \in Withdraw : row[w] > 0 /\ w \in onMain ~> w \in finished \cup torn
===============================================================================
