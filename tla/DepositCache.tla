----------------------------- MODULE DepositCache -----------------------------
(***************************************************************************)
(* Deposits to one side chain, from the SPV notification to the verdict.   *)
(*                                                                         *)
(* The SPV service of an arbiter notifies DepositListener of every deposit *)
(* in a main chain block until the arbiter hands in a receipt.  A deposit  *)
(* is first kept in the MainChainTxs table (DbCache), then leaves it for   *)
(* the DepositTransactions table (FinishedTxsDbCache) with a verdict,      *)
(* succeed or failed.  Four kinds of goroutines move it:                   *)
(*   - the listener, which sends what is new when the arbiter is on duty;  *)
(*   - one goroutine per change to on duty, which sends what is cached;    *)
(*   - the check loop, which removes what the side chain already has;      *)
(*   - the consumer of P2P messages, which removes the deposits of a       *)
(*     return once that has been submitted, and records no verdict.        *)
(* They run concurrently, share no lock but the one inside each store, and *)
(* the two tables are in two databases: nothing makes a removal and the    *)
(* verdict that goes with it one step.                                     *)
(*                                                                         *)
(* Both tables are keyed by transaction and side chain, so side chains are *)
(* independent and one is modelled.  A batch is a set: the order of its    *)
(* transactions is free.  The side chain node and the other arbiters are   *)
(* external.  Statements to SQLite are assumed to succeed.                 *)
(***************************************************************************)
EXTENDS Naturals, FiniteSets

CONSTANTS
  Deposit,     \* deposit transactions of the main chain
  Listener,    \* the goroutine of DepositListener.start
  Checker,     \* CheckAndRemoveCrossChainTransactionsFromDBLoop
  Duty,        \* goroutines createAndSendDepositTransactionsInDB; bounds how
               \* many run at a time
  Answers,     \* what the side chain node may do with sendrechargetransaction
  MaxCrashes   \* bound: how often the process is killed

Worker == {Listener, Checker} \cup Duty

AllAnswers == {"accepted", "duplicate", "invalid", "error", "lost"}

ASSUME ConstantsAssumption ==
  /\ IsFiniteSet(Deposit)
  /\ Listener # Checker /\ Listener \notin Duty /\ Checker \notin Duty
  /\ Answers \subseteq AllAnswers
  /\ MaxCrashes \in Nat

VARIABLES
  pending,   \* deposits the SPV service has no receipt for
  queue,     \* notifyQueue and the tasks taken from it
  cache,     \* MainChainTxs
  finished,  \* DepositTransactions: the Succeed column
  pool,      \* deposits in the transaction pool of the side chain
  mined,     \* deposits in a block of the side chain
  rejected,  \* those of them the side chain could not credit
  onDuty,    \* ArbitratorImpl.isOnDuty
  job,       \* what each goroutine is doing
  lost,      \* history: deposits a crash took between removal and verdict
  returned,  \* history: deposits whose row went with their return
  crashes    \* how often the process was killed

stores == <<cache, finished>>
side   == <<pool, mined, rejected>>
vars   == <<pending, queue, stores, side, onDuty, job, lost, returned, crashes>>

(***************************************************************************)
(* A goroutine: the deposits whose receipts it still owes, those it has    *)
(* still to send, those it found or sent with success, those that failed,  *)
(* and how many rounds of its removal loop are left.                       *)
(***************************************************************************)
Steps == {"idle", "receipt", "start", "ask", "found", "foundRemoved", "load", "send",
          "fail", "failRemoved", "succeed", "succeedRemoved"}

Job == [pc : Steps, receipts : SUBSET Deposit, todo : SUBSET Deposit,
        failed : SUBSET Deposit, succeed : SUBSET Deposit, left : Nat]

NoJob == [pc |-> "idle", receipts |-> {}, todo |-> {}, failed |-> {}, succeed |-> {}, left |-> 0]

At(w, pc) == job[w].pc = pc

\* Goroutine w goes on as j.
Becomes(w, j) == job' = [job EXCEPT ![w] = j]

Init ==
  /\ pending = Deposit
  /\ queue = {}
  /\ cache = {}
  /\ finished = [d \in Deposit |-> "none"]
  /\ pool = {} /\ mined = {} /\ rejected = {}
  /\ onDuty = FALSE
  /\ job = [w \in Worker |-> NoJob]
  /\ lost = {} /\ returned = {}
  /\ crashes = 0

-----------------------------------------------------------------------------
(***************************************************************************)
(* The two tables.  Both have a UNIQUE key: a second insert does nothing,  *)
(* so the first verdict stays.                                             *)
(***************************************************************************)
RemoveMainChainTxs(txs) == cache' = cache \ txs

\* Mutant of AddVerdict: INSERT OR REPLACE, the last verdict stays.
ReplaceVerdict(txs, verdict) ==
  finished' = [d \in Deposit |-> IF d \in txs THEN verdict ELSE finished[d]]

AddVerdict(txs, verdict) ==
  finished' = [d \in Deposit |->
    IF d \in txs /\ finished[d] = "none" THEN verdict ELSE finished[d]]

-----------------------------------------------------------------------------
(***************************************************************************)
(* DepositListener.  Notify puts a deposit into the queue; the goroutine   *)
(* takes what has arrived as one batch, caches it, hands in the receipts,  *)
(* and sends the new ones when the arbiter is on duty at that moment.      *)
(***************************************************************************)
Notify(d) ==
  /\ d \in pending
  /\ d \notin queue
  /\ queue' = queue \cup {d}
  /\ UNCHANGED <<pending, stores, side, onDuty, job, lost, returned, crashes>>

ProcessNotifyData ==
  /\ At(Listener, "idle")
  /\ queue # {}
  /\ cache' = cache \cup queue
  /\ Becomes(Listener, [NoJob EXCEPT !.pc = "receipt", !.receipts = queue,
                                     !.todo = queue \ cache])
  /\ queue' = {}
  /\ lost' = lost \ queue /\ returned' = returned \ queue
  /\ UNCHANGED <<pending, finished, side, onDuty, crashes>>

SubmitTransactionReceipt(d) ==
  /\ At(Listener, "receipt")
  /\ d \in job[Listener].receipts
  /\ pending' = pending \ {d}
  /\ Becomes(Listener, [job[Listener] EXCEPT !.receipts = @ \ {d}])
  /\ UNCHANGED <<queue, stores, side, onDuty, lost, returned, crashes>>

SendIfOnDuty ==
  /\ At(Listener, "receipt")
  /\ job[Listener].receipts = {}
  /\ Becomes(Listener, IF onDuty THEN [job[Listener] EXCEPT !.pc = "send"] ELSE NoJob)
  /\ UNCHANGED <<pending, queue, stores, side, onDuty, lost, returned, crashes>>

(***************************************************************************)
(* OnDutyArbitratorChanged: the flag is set first; SyncMainChainCachedTxs  *)
(* reads the whole table and starts a goroutine when there is something in *)
(* it.  The sync loop does one change at a time, but a new goroutine may   *)
(* start while the last one still runs.                                    *)
(***************************************************************************)
SyncLoopFree == \A w \in Duty : ~At(w, "start")

OnDutyArbitratorChanged(w) ==
  /\ w \in Duty /\ At(w, "idle")
  /\ SyncLoopFree
  /\ onDuty' = TRUE
  /\ Becomes(w, [NoJob EXCEPT !.pc = "start"])
  /\ UNCHANGED <<pending, queue, stores, side, lost, returned, crashes>>

RelievedOfDuty ==
  /\ onDuty /\ SyncLoopFree
  /\ onDuty' = FALSE
  /\ UNCHANGED <<pending, queue, stores, side, job, lost, returned, crashes>>

SyncMainChainCachedTxs(w) ==
  /\ w \in Duty /\ At(w, "start")
  /\ Becomes(w, IF cache = {} THEN NoJob ELSE [NoJob EXCEPT !.pc = "ask", !.todo = cache])
  /\ UNCHANGED <<pending, queue, stores, side, onDuty, lost, returned, crashes>>

CheckAndRemoveDepositTransactionsFromDB ==
  /\ At(Checker, "idle")
  /\ cache # {}
  /\ Becomes(Checker, [NoJob EXCEPT !.pc = "ask", !.todo = cache])
  /\ UNCHANGED <<pending, queue, stores, side, onDuty, lost, returned, crashes>>

(***************************************************************************)
(* Both ask the side chain which of the deposits it has in a block; when   *)
(* it does not answer they give up.  What it has is removed and recorded.  *)
(***************************************************************************)
GetExistDepositTransactions(w) ==
  /\ At(w, "ask")
  /\ Becomes(w, [job[w] EXCEPT !.pc = "found", !.succeed = job[w].todo \cap mined,
                               !.todo = @ \ mined])
  /\ UNCHANGED <<pending, queue, stores, side, onDuty, lost, returned, crashes>>

GetExistFails(w) ==
  /\ At(w, "ask")
  /\ Becomes(w, NoJob)
  /\ UNCHANGED <<pending, queue, stores, side, onDuty, lost, returned, crashes>>

\* Mutant of RemoveFound: the whole batch is removed, found or not.
RemoveAsked(w) ==
  /\ At(w, "found")
  /\ RemoveMainChainTxs(job[w].succeed \cup job[w].todo)
  /\ Becomes(w, [job[w] EXCEPT !.pc = "foundRemoved"])
  /\ UNCHANGED <<pending, queue, finished, side, onDuty, lost, returned, crashes>>

RemoveFound(w) ==
  /\ At(w, "found")
  /\ RemoveMainChainTxs(job[w].succeed)
  /\ Becomes(w, [job[w] EXCEPT !.pc = "foundRemoved"])
  /\ UNCHANGED <<pending, queue, finished, side, onDuty, lost, returned, crashes>>

\* Mutant of AddFound: the check loop removes and does not record.
AddFoundOnDuty(w) ==
  /\ At(w, "foundRemoved")
  /\ IF w = Checker THEN UNCHANGED finished ELSE AddVerdict(job[w].succeed, "succeed")
  /\ Becomes(w, IF w = Checker THEN NoJob
                ELSE [job[w] EXCEPT !.pc = "load", !.succeed = {}])
  /\ UNCHANGED <<pending, queue, cache, side, onDuty, lost, returned, crashes>>

AddFound(w) ==
  /\ At(w, "foundRemoved")
  /\ AddVerdict(job[w].succeed, "succeed")
  /\ Becomes(w, IF w = Checker THEN NoJob
                ELSE [job[w] EXCEPT !.pc = "load", !.succeed = {}])
  /\ UNCHANGED <<pending, queue, cache, side, onDuty, lost, returned, crashes>>

\* What another goroutine removed in the meantime is not sent.
GetMainChainTxsFromHashes(w) ==
  /\ At(w, "load")
  /\ Becomes(w, [job[w] EXCEPT !.pc = "send", !.todo = @ \cap cache])
  /\ UNCHANGED <<pending, queue, stores, side, onDuty, lost, returned, crashes>>

-----------------------------------------------------------------------------
(***************************************************************************)
(* The side chain node.  It answers that a deposit it has in a block or in *)
(* its pool is a duplicate, and that a deposit whose main chain block it   *)
(* has not seen yet is invalid.  The call may fail, before or after the    *)
(* node took the deposit.                                                  *)
(***************************************************************************)
SendTransaction(d, answer) ==
  \/ /\ answer \in {"accepted", "lost"}
     /\ d \notin pool \cup mined
     /\ pool' = pool \cup {d}
  \/ /\ answer = "duplicate"
     /\ d \in pool \cup mined
     /\ UNCHANGED pool
  \/ /\ answer = "invalid"
     /\ d \notin pool \cup mined
     /\ UNCHANGED pool
  \/ /\ answer = "error"
     /\ UNCHANGED pool

\* Mutant of IsSucceed: "invalid" is taken for success as well.
AnyReplySucceeds(answer) == answer \in {"accepted", "invalid"}

(***************************************************************************)
(* SendDepositTransactions: any error but ErrInvalidMainchainTx means      *)
(* failed, a result means succeed, and ErrInvalidMainchainTx leaves the    *)
(* deposit in the table to be sent again.                                  *)
(***************************************************************************)
IsFailed(answer)  == answer \in {"error", "lost", "duplicate"}
IsSucceed(answer) == answer = "accepted"

SendDepositTransaction(w, d, answer) ==
  /\ At(w, "send")
  /\ d \in job[w].todo
  /\ SendTransaction(d, answer)
  /\ Becomes(w, [job[w] EXCEPT
       !.todo = @ \ {d},
       !.failed = IF IsFailed(answer) THEN @ \cup {d} ELSE @,
       !.succeed = IF IsSucceed(answer) THEN @ \cup {d} ELSE @])
  /\ UNCHANGED <<pending, queue, stores, mined, rejected, onDuty, lost, returned, crashes>>

SendFinished(w) ==
  /\ At(w, "send")
  /\ job[w].todo = {}
  /\ Becomes(w, [job[w] EXCEPT !.pc = "fail", !.left = Cardinality(job[w].failed)])
  /\ UNCHANGED <<pending, queue, stores, side, onDuty, lost, returned, crashes>>

(***************************************************************************)
(* The loops at its end go as many rounds as there are deposits, and every *)
(* round removes and records the whole batch.                              *)
(***************************************************************************)
\* Mutant of RemoveFailed: the loop goes one round too many.
RemoveFailedOnceMore(w) ==
  /\ At(w, "fail")
  /\ RemoveMainChainTxs(job[w].failed)
  /\ Becomes(w, [job[w] EXCEPT !.pc = "failRemoved", !.left = @ - 1])
  /\ UNCHANGED <<pending, queue, finished, side, onDuty, lost, returned, crashes>>

RemoveFailed(w) ==
  /\ At(w, "fail") /\ job[w].left > 0
  /\ RemoveMainChainTxs(job[w].failed)
  /\ Becomes(w, [job[w] EXCEPT !.pc = "failRemoved", !.left = @ - 1])
  /\ UNCHANGED <<pending, queue, finished, side, onDuty, lost, returned, crashes>>

AddFailedDepositTxs(w) ==
  /\ At(w, "failRemoved")
  /\ AddVerdict(job[w].failed, "failed")
  /\ Becomes(w, [job[w] EXCEPT !.pc = "fail"])
  /\ UNCHANGED <<pending, queue, cache, side, onDuty, lost, returned, crashes>>

FailedFinished(w) ==
  /\ At(w, "fail") /\ job[w].left = 0
  /\ Becomes(w, [job[w] EXCEPT !.pc = "succeed", !.left = Cardinality(job[w].succeed)])
  /\ UNCHANGED <<pending, queue, stores, side, onDuty, lost, returned, crashes>>

RemoveSucceed(w) ==
  /\ At(w, "succeed") /\ job[w].left > 0
  /\ RemoveMainChainTxs(job[w].succeed)
  /\ Becomes(w, [job[w] EXCEPT !.pc = "succeedRemoved", !.left = @ - 1])
  /\ UNCHANGED <<pending, queue, finished, side, onDuty, lost, returned, crashes>>

AddSucceedDepositTxs(w) ==
  /\ At(w, "succeedRemoved")
  /\ AddVerdict(job[w].succeed, "succeed")
  /\ Becomes(w, [job[w] EXCEPT !.pc = "succeed"])
  /\ UNCHANGED <<pending, queue, cache, side, onDuty, lost, returned, crashes>>

SendReturns(w) ==
  /\ At(w, "succeed") /\ job[w].left = 0
  /\ Becomes(w, NoJob)
  /\ UNCHANGED <<pending, queue, stores, side, onDuty, lost, returned, crashes>>

-----------------------------------------------------------------------------
(***************************************************************************)
(* The consumer of P2P messages submits the return of failed deposits when *)
(* it has collected its signatures, and then removes the rows of all the   *)
(* deposits the return names: whatever the main chain answers, except that *)
(* after a double spend it leaves them alone, and a call that fails kills  *)
(* the process (Crash).  It writes no verdict, and it shares no lock with  *)
(* the goroutines that may hold the same deposits.                         *)
(***************************************************************************)
SubmitReturnSideChainDepositCoin(txs) ==
  /\ txs \subseteq rejected
  /\ RemoveMainChainTxs(txs)
  /\ returned' = returned \cup (txs \cap cache)
  /\ UNCHANGED <<pending, queue, finished, side, onDuty, job, lost, crashes>>

-----------------------------------------------------------------------------
(***************************************************************************)
(* The environment: other arbiters send the same deposits when they are on *)
(* duty, the side chain mines, crediting a deposit or not (its answer that *)
(* it has a deposit covers both), and the process dies.                    *)
(***************************************************************************)
OtherArbiterSends(d) ==
  /\ d \notin pool \cup mined
  /\ pool' = pool \cup {d}
  /\ UNCHANGED <<pending, queue, stores, mined, rejected, onDuty, job, lost, returned, crashes>>

SideChainMines(d) ==
  /\ d \in pool
  /\ pool' = pool \ {d}
  /\ mined' = mined \cup {d}
  /\ rejected' \in {rejected, rejected \cup {d}}
  /\ UNCHANGED <<pending, queue, stores, onDuty, job, lost, returned, crashes>>

\* Removed from the cache, verdict not written yet.
InHands(d) == \E w \in Worker :
  \/ job[w].pc \in {"foundRemoved", "succeedRemoved"} /\ d \in job[w].succeed
  \/ At(w, "failRemoved") /\ d \in job[w].failed

Unwritten == {d \in Deposit \ cache : InHands(d) /\ finished[d] = "none"}

Crash ==
  /\ crashes < MaxCrashes
  /\ crashes' = crashes + 1
  /\ lost' = lost \cup Unwritten
  /\ queue' = {}
  /\ onDuty' = FALSE
  /\ job' = [w \in Worker |-> NoJob]
  /\ UNCHANGED <<pending, stores, side, returned>>

Listen ==
  \/ \E d \in Deposit : Notify(d) \/ SubmitTransactionReceipt(d)
  \/ ProcessNotifyData
  \/ SendIfOnDuty

Ask(w) ==
  \/ GetExistDepositTransactions(w)
  \/ GetExistFails(w)
  \/ RemoveFound(w)
  \/ AddFound(w)
  \/ GetMainChainTxsFromHashes(w)

SendDepositTransactions(w) ==
  \/ \E d \in Deposit, answer \in Answers : SendDepositTransaction(w, d, answer)
  \/ SendFinished(w)
  \/ RemoveFailed(w)
  \/ AddFailedDepositTxs(w)
  \/ FailedFinished(w)
  \/ RemoveSucceed(w)
  \/ AddSucceedDepositTxs(w)
  \/ SendReturns(w)

OnDuty ==
  \/ \E w \in Duty : OnDutyArbitratorChanged(w) \/ SyncMainChainCachedTxs(w)
  \/ RelievedOfDuty

Environment ==
  \/ \E d \in Deposit : OtherArbiterSends(d) \/ SideChainMines(d)
  \/ Crash

Next ==
  \/ Listen
  \/ CheckAndRemoveDepositTransactionsFromDB
  \/ \E w \in Worker : Ask(w) \/ SendDepositTransactions(w)
  \/ OnDuty
  \/ \E txs \in SUBSET Deposit : SubmitReturnSideChainDepositCoin(txs)
  \/ Environment

Spec == Init /\ [][Next]_vars

(***************************************************************************)
(* The goroutines run, the SPV service repeats a notification until it has *)
(* the receipt, and the side chain answers the check loop again and again. *)
(***************************************************************************)
Fairness ==
  /\ \A d \in Deposit : WF_vars(Notify(d)) /\ WF_vars(SubmitTransactionReceipt(d))
  /\ WF_vars(ProcessNotifyData) /\ WF_vars(SendIfOnDuty)
  /\ WF_vars(CheckAndRemoveDepositTransactionsFromDB)
  /\ SF_vars(GetExistDepositTransactions(Checker))
  /\ \A w \in Worker : WF_vars(Ask(w)) /\ WF_vars(SendDepositTransactions(w))

FairSpec == Spec /\ Fairness

-----------------------------------------------------------------------------
(***************************************************************************)
(* The types of the variables.                                             *)
(***************************************************************************)
TypeOK ==
  /\ pending \subseteq Deposit /\ queue \subseteq Deposit
  /\ cache \subseteq Deposit
  /\ finished \in [Deposit -> {"none", "succeed", "failed"}]
  /\ pool \subseteq Deposit /\ mined \subseteq Deposit /\ rejected \subseteq mined
  /\ onDuty \in BOOLEAN
  /\ job \in [Worker -> Job]
  /\ lost \subseteq Deposit /\ returned \subseteq Deposit
  /\ crashes \in Nat

(***************************************************************************)
(* No deposit slips through: once the SPV service has the receipt and will *)
(* not notify it again, the deposit is in the cache, has a verdict, or is  *)
(* in the hands of a goroutine.  Two things can take it away: a crash      *)
(* between the removal and the verdict, which are in two databases, and    *)
(* the submission of its return.  Being cached again clears either.        *)
(***************************************************************************)
Safe(d) ==
  d \in cache \/ finished[d] # "none" \/ InHands(d) \/ d \in lost \cup returned

Accounted == \A d \in Deposit \ pending : Safe(d)

(***************************************************************************)
(* A deposit is recorded as succeeded only when the side chain has it, in  *)
(* a block or in its pool, whichever goroutine recorded it.                *)
(***************************************************************************)
SucceedIsOnSide ==
  \A d \in Deposit : finished[d] = "succeed" => d \in pool \cup mined

(***************************************************************************)
(* Their inductive invariants: a deposit whose receipt is about to be      *)
(* handed in is safe already, and what a goroutine holds as succeeded is   *)
(* on the side chain before it is recorded.                                *)
(***************************************************************************)
AccountedInv ==
  /\ TypeOK
  /\ Accounted
  /\ \A d \in job[Listener].receipts : Safe(d)

SucceedInv ==
  /\ TypeOK
  /\ SucceedIsOnSide
  /\ \A w \in Worker : job[w].succeed \subseteq pool \cup mined

Entry == [d \in Deposit |->
  IF finished[d] # "none" THEN finished[d]
  ELSE IF d \in cache \/ InHands(d) THEN "open"
  ELSE IF d \in lost THEN "lost"
  ELSE IF d \in returned THEN "returned"
  ELSE "outside"]

Ledger == INSTANCE DepositLedger
            WITH entry <- Entry, taken <- pool \cup mined, refused <- rejected

(***************************************************************************)
(* The two tables and the goroutines that race on them implement           *)
(* DepositLedger: a deposit leaves the tables without a verdict only by a  *)
(* crash, or by its return when the side chain could not credit it, and no *)
(* verdict is overwritten by the goroutine that comes second.              *)
(***************************************************************************)
ImplementsDepositLedger == Ledger!Spec

(***************************************************************************)
(* The send loop says "Send deposit found transaction has been processed,  *)
(* move to finished db" in its success branch: when no call is lost, what  *)
(* the side chain has is not recorded as failed.                           *)
(***************************************************************************)
ProcessedIsNotFailed ==
  \A d \in Deposit : finished[d] = "failed" => d \notin pool \cup mined

(***************************************************************************)
(* A deposit the side chain has mined is recorded in the end, whoever sent *)
(* it: by the sender, by the next change of duty or by the check loop; a   *)
(* crash at the wrong moment, and a return that is submitted before any of *)
(* them recorded the deposit, are the only exceptions.                     *)
(***************************************************************************)
RecordedEventually ==
  \A d \in Deposit : d \in mined ~> finished[d] # "none" \/ d \in lost \cup returned
=============================================================================
