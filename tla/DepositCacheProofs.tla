-------------------------- MODULE DepositCacheProofs --------------------------
(***************************************************************************)
(* Proofs about DepositCache for every finite set of deposits, any number  *)
(* of on-duty goroutines, and any number of crashes.                       *)
(***************************************************************************)
EXTENDS DepositCache, FiniteSetTheorems, TLAPS

\* The number of rounds of a removal loop is a number.
LEMMA RoundsAreNat ==
  ASSUME NEW S \in SUBSET Deposit
  PROVE  Cardinality(S) \in Nat
  BY ConstantsAssumption, FS_Subset, FS_CardinalityType

\* Goroutine w goes on as j, the others as they were.
LEMMA BecomesOne ==
  ASSUME job \in [Worker -> Job], NEW w \in Worker, NEW j \in Job, Becomes(w, j)
  PROVE  /\ job' \in [Worker -> Job]
         /\ job'[w] = j
         /\ \A v \in Worker \ {w} : job'[v] = job[v]
  BY DEF Becomes

\* The fields of a goroutine's state have their types.
LEMMA JobFields ==
  ASSUME job \in [Worker -> Job], NEW w \in Worker
  PROVE  /\ job[w] \in Job
         /\ job[w].pc \in Steps
         /\ job[w].receipts \in SUBSET Deposit
         /\ job[w].todo \in SUBSET Deposit
         /\ job[w].failed \in SUBSET Deposit
         /\ job[w].succeed \in SUBSET Deposit
         /\ job[w].left \in Nat
  BY DEF Job

\* The three goroutines are goroutines, and the idle state is a state.
LEMMA Workers ==
  /\ Listener \in Worker /\ Checker \in Worker /\ Duty \subseteq Worker
  /\ NoJob \in Job
  BY DEF Worker, NoJob, Job, Steps

-----------------------------------------------------------------------------
(***************************************************************************)
(* Types.                                                                  *)
(***************************************************************************)
LEMMA TypeInit == Init => TypeOK
  <1> SUFFICES ASSUME Init PROVE TypeOK
    OBVIOUS
  <1>1. job \in [Worker -> Job]
    BY Workers DEF Init
  <1>2. /\ pending \subseteq Deposit /\ queue \subseteq Deposit /\ cache \subseteq Deposit
        /\ pool \subseteq Deposit /\ mined \subseteq Deposit /\ rejected \subseteq mined
        /\ lost \subseteq Deposit /\ returned \subseteq Deposit
        /\ onDuty \in BOOLEAN /\ crashes \in Nat
        /\ finished \in [Deposit -> {"none", "succeed", "failed"}]
    BY DEF Init
  <1>3. QED
    BY <1>1, <1>2 DEF TypeOK

\* A step of the listener keeps the types.
LEMMA ListenTypes ==
  ASSUME TypeOK, Listen
  PROVE  TypeOK'
  <1> USE DEF TypeOK, stores, side
  <1> Listener \in Worker /\ NoJob \in Job
    BY Workers
  <1>1. ASSUME NEW d \in Deposit, Notify(d) PROVE TypeOK'
    BY <1>1 DEF Notify
  <1>2. ASSUME NEW d \in Deposit, SubmitTransactionReceipt(d) PROVE TypeOK'
    <2>1. [job[Listener] EXCEPT !.receipts = @ \ {d}] \in Job
      BY JobFields DEF Job
    <2>2. QED
      BY <1>2, <2>1, BecomesOne DEF SubmitTransactionReceipt
  <1>3. CASE ProcessNotifyData
    <2>1. [NoJob EXCEPT !.pc = "receipt", !.receipts = queue, !.todo = queue \ cache] \in Job
      BY DEF NoJob, Job, Steps
    <2>2. QED
      BY <1>3, <2>1, BecomesOne DEF ProcessNotifyData
  <1>4. CASE SendIfOnDuty
    <2>1. (IF onDuty THEN [job[Listener] EXCEPT !.pc = "send"] ELSE NoJob) \in Job
      BY JobFields DEF Job, Steps
    <2>2. QED
      BY <1>4, <2>1, BecomesOne DEF SendIfOnDuty
  <1>5. QED
    BY <1>1, <1>2, <1>3, <1>4 DEF Listen

\* Asking the side chain and recording what it has keeps the types.
LEMMA AskTypes ==
  ASSUME TypeOK, NEW w \in Worker, Ask(w)
  PROVE  TypeOK'
  <1> USE DEF TypeOK, stores, side
  <1> NoJob \in Job
    BY Workers
  <1> DEFINE j == job[w]
  <1>0. /\ j \in Job /\ j.succeed \subseteq Deposit /\ j.todo \subseteq Deposit
    BY JobFields
  <1>1. CASE GetExistDepositTransactions(w)
    <2>1. [j EXCEPT !.pc = "found", !.succeed = job[w].todo \cap mined, !.todo = @ \ mined] \in Job
      BY <1>0 DEF Job, Steps
    <2>2. QED
      BY <1>1, <2>1, BecomesOne DEF GetExistDepositTransactions
  <1>2. CASE GetExistFails(w)
    BY <1>2, BecomesOne DEF GetExistFails
  <1>3. CASE RemoveFound(w)
    <2>1. [j EXCEPT !.pc = "foundRemoved"] \in Job
      BY <1>0 DEF Job, Steps
    <2>2. QED
      BY <1>3, <2>1, BecomesOne DEF RemoveFound, RemoveMainChainTxs
  <1>4. CASE AddFound(w)
    <2>1. (IF w = Checker THEN NoJob ELSE [j EXCEPT !.pc = "load", !.succeed = {}]) \in Job
      BY <1>0 DEF Job, Steps
    <2>2. QED
      BY <1>4, <2>1, BecomesOne DEF AddFound, AddVerdict
  <1>5. CASE GetMainChainTxsFromHashes(w)
    <2>1. [j EXCEPT !.pc = "send", !.todo = @ \cap cache] \in Job
      BY <1>0 DEF Job, Steps
    <2>2. QED
      BY <1>5, <2>1, BecomesOne DEF GetMainChainTxsFromHashes
  <1>6. QED
    BY <1>1, <1>2, <1>3, <1>4, <1>5 DEF Ask

\* Sending keeps the types.
LEMMA SendTypes ==
  ASSUME TypeOK, NEW w \in Worker, SendDepositTransactions(w)
  PROVE  TypeOK'
  <1> USE DEF TypeOK, stores, side
  <1> NoJob \in Job
    BY Workers
  <1> DEFINE j == job[w]
  <1>0. /\ j \in Job /\ j.left \in Nat
        /\ j.failed \in SUBSET Deposit /\ j.succeed \in SUBSET Deposit
    BY JobFields
  <1>1. ASSUME NEW d \in Deposit, NEW answer \in Answers, SendDepositTransaction(w, d, answer)
        PROVE  TypeOK'
    <2>1. [j EXCEPT !.todo = @ \ {d},
                    !.failed = IF IsFailed(answer) THEN @ \cup {d} ELSE @,
                    !.succeed = IF IsSucceed(answer) THEN @ \cup {d} ELSE @] \in Job
      BY <1>0 DEF Job
    <2>2. pool' \subseteq Deposit
      BY <1>1 DEF SendDepositTransaction, SendTransaction
    <2>3. QED
      BY <1>1, <2>1, <2>2, BecomesOne DEF SendDepositTransaction
  <1>2. CASE SendFinished(w)
    <2>1. [j EXCEPT !.pc = "fail", !.left = Cardinality(job[w].failed)] \in Job
      BY <1>0, RoundsAreNat DEF Job, Steps
    <2>2. QED
      BY <1>2, <2>1, BecomesOne DEF SendFinished
  <1>3. CASE RemoveFailed(w)
    <2>1. j.left - 1 \in Nat
      BY <1>0, <1>3 DEF RemoveFailed
    <2>2. [j EXCEPT !.pc = "failRemoved", !.left = @ - 1] \in Job
      BY <1>0, <2>1 DEF Job, Steps
    <2>3. QED
      BY <1>3, <2>2, BecomesOne DEF RemoveFailed, RemoveMainChainTxs
  <1>4. CASE AddFailedDepositTxs(w)
    <2>1. [j EXCEPT !.pc = "fail"] \in Job
      BY <1>0 DEF Job, Steps
    <2>2. QED
      BY <1>4, <2>1, BecomesOne DEF AddFailedDepositTxs, AddVerdict
  <1>5. CASE FailedFinished(w)
    <2>1. [j EXCEPT !.pc = "succeed", !.left = Cardinality(job[w].succeed)] \in Job
      BY <1>0, RoundsAreNat DEF Job, Steps
    <2>2. QED
      BY <1>5, <2>1, BecomesOne DEF FailedFinished
  <1>6. CASE RemoveSucceed(w)
    <2>1. j.left - 1 \in Nat
      BY <1>0, <1>6 DEF RemoveSucceed
    <2>2. [j EXCEPT !.pc = "succeedRemoved", !.left = @ - 1] \in Job
      BY <1>0, <2>1 DEF Job, Steps
    <2>3. QED
      BY <1>6, <2>2, BecomesOne DEF RemoveSucceed, RemoveMainChainTxs
  <1>7. CASE AddSucceedDepositTxs(w)
    <2>1. [j EXCEPT !.pc = "succeed"] \in Job
      BY <1>0 DEF Job, Steps
    <2>2. QED
      BY <1>7, <2>1, BecomesOne DEF AddSucceedDepositTxs, AddVerdict
  <1>8. CASE SendReturns(w)
    BY <1>8, BecomesOne DEF SendReturns
  <1>9. QED
    BY <1>1, <1>2, <1>3, <1>4, <1>5, <1>6, <1>7, <1>8 DEF SendDepositTransactions

\* Every step keeps the types.
LEMMA TypeStep ==
  ASSUME TypeOK, [Next]_vars
  PROVE  TypeOK'
  <1> USE DEF TypeOK, stores, side
  <1>0. NoJob \in Job /\ Duty \subseteq Worker /\ Checker \in Worker
    BY Workers
  <1>1. CASE Listen
    BY <1>1, ListenTypes
  <1>2. CASE CheckAndRemoveDepositTransactionsFromDB
    <2>1. [NoJob EXCEPT !.pc = "ask", !.todo = cache] \in Job
      BY DEF NoJob, Job, Steps
    <2>2. QED
      BY <1>0, <1>2, <2>1, BecomesOne DEF CheckAndRemoveDepositTransactionsFromDB
  <1>3. ASSUME NEW w \in Worker, Ask(w) \/ SendDepositTransactions(w) PROVE TypeOK'
    BY <1>3, AskTypes, SendTypes
  <1>4. CASE OnDuty
    <2>1. ASSUME NEW w \in Duty, OnDutyArbitratorChanged(w) PROVE TypeOK'
      <3>1. [NoJob EXCEPT !.pc = "start"] \in Job
        BY DEF NoJob, Job, Steps
      <3>2. QED
        BY <1>0, <2>1, <3>1, BecomesOne DEF OnDutyArbitratorChanged
    <2>2. ASSUME NEW w \in Duty, SyncMainChainCachedTxs(w) PROVE TypeOK'
      <3>1. (IF cache = {} THEN NoJob ELSE [NoJob EXCEPT !.pc = "ask", !.todo = cache]) \in Job
        BY DEF NoJob, Job, Steps
      <3>2. QED
        BY <1>0, <2>2, <3>1, BecomesOne DEF SyncMainChainCachedTxs
    <2>3. CASE RelievedOfDuty
      BY <2>3 DEF RelievedOfDuty
    <2>4. QED
      BY <1>4, <2>1, <2>2, <2>3 DEF OnDuty
  <1>5. CASE Environment
    <2>1. ASSUME NEW d \in Deposit, OtherArbiterSends(d) \/ SideChainMines(d) PROVE TypeOK'
      BY <2>1 DEF OtherArbiterSends, SideChainMines
    <2>2. CASE Crash
      <3>1. [w \in Worker |-> NoJob] \in [Worker -> Job]
        BY <1>0
      <3>2. Unwritten \subseteq Deposit
        BY DEF Unwritten, InHands
      <3>3. job' \in [Worker -> Job]
        BY <2>2, <3>1 DEF Crash
      <3>4. lost' \subseteq Deposit /\ crashes' \in Nat
        BY <2>2, <3>2 DEF Crash
      <3>5. QED
        BY <2>2, <3>3, <3>4 DEF Crash
    <2>3. QED
      BY <1>5, <2>1, <2>2 DEF Environment
  <1>6. ASSUME NEW txs \in SUBSET Deposit, SubmitReturnSideChainDepositCoin(txs) PROVE TypeOK'
    BY <1>6 DEF SubmitReturnSideChainDepositCoin, RemoveMainChainTxs
  <1>7. CASE UNCHANGED vars
    BY <1>7 DEF vars
  <1>8. QED
    BY <1>1, <1>2, <1>3, <1>4, <1>5, <1>6, <1>7 DEF Next

(***************************************************************************)
(* The variables keep their types: in particular the number of rounds of   *)
(* the removal loops never goes below zero.                                *)
(***************************************************************************)
THEOREM TypeCorrect == Spec => []TypeOK
  BY TypeInit, TypeStep, PTL DEF Spec

-----------------------------------------------------------------------------
(***************************************************************************)
(* What a goroutine does to the deposits in the hands of the others: a     *)
(* step of w between two states that hold nothing leaves InHands alone.    *)
(***************************************************************************)
Removed == {"foundRemoved", "failRemoved", "succeedRemoved"}

LEMMA HandsFrame ==
  ASSUME job \in [Worker -> Job], NEW w \in Worker, NEW j, Becomes(w, j),
         job[w].pc \notin Removed, j.pc \notin Removed, NEW d \in Deposit
  PROVE  InHands(d)' <=> InHands(d)
  <1>1. job'[w] = j /\ \A v \in Worker \ {w} : job'[v] = job[v]
    BY DEF Becomes
  <1>2. QED
    BY <1>1 DEF InHands, At, Removed

\* A goroutine that removes a batch takes it into its hands.
LEMMA HandsTake ==
  ASSUME job \in [Worker -> Job], NEW w \in Worker, NEW j, Becomes(w, j),
         job[w].pc \notin Removed, NEW d \in Deposit
  PROVE  /\ InHands(d) => InHands(d)'
         /\ j.pc \in {"foundRemoved", "succeedRemoved"} /\ d \in j.succeed => InHands(d)'
         /\ j.pc = "failRemoved" /\ d \in j.failed => InHands(d)'
  <1>1. job'[w] = j /\ \A v \in Worker \ {w} : job'[v] = job[v]
    BY DEF Becomes
  <1>2. QED
    BY <1>1 DEF InHands, At, Removed

\* A goroutine that lets go of a batch leaves the hands of the others alone.
LEMMA HandsGive ==
  ASSUME job \in [Worker -> Job], NEW w \in Worker, NEW j, Becomes(w, j),
         j.pc \notin Removed, NEW d \in Deposit
  PROVE  /\ InHands(d)' => InHands(d)
         /\ InHands(d) => \/ InHands(d)'
                          \/ /\ job[w].pc \in {"foundRemoved", "succeedRemoved"}
                             /\ d \in job[w].succeed
                          \/ job[w].pc = "failRemoved" /\ d \in job[w].failed
  <1>1. job'[w] = j /\ \A v \in Worker \ {w} : job'[v] = job[v]
    BY DEF Becomes
  <1>2. QED
    BY <1>1 DEF InHands, At, Removed

(***************************************************************************)
(* The steps by what they do to the tables: some leave the tables and the  *)
(* hands alone, or only add to the cache, what was lost or returned        *)
(* included; some remove a batch from the cache and hold it; some write    *)
(* the verdict on the batch they hold; and the submission of a return      *)
(* drops a batch that nobody holds on its account.                         *)
(***************************************************************************)
Quiet ==
  /\ cache \subseteq cache' /\ UNCHANGED finished
  /\ lost' \subseteq lost /\ lost \subseteq lost' \cup cache'
  /\ returned' \subseteq returned /\ returned \subseteq returned' \cup cache'
  /\ \A d \in Deposit : InHands(d)' <=> InHands(d)

Drops(txs) ==
  /\ cache' = cache \ txs /\ UNCHANGED <<finished, lost>>
  /\ returned' = returned \cup (txs \cap cache)
  /\ txs \subseteq rejected
  /\ \A d \in Deposit : InHands(d)' <=> InHands(d)

Removes(txs) ==
  /\ cache' = cache \ txs /\ UNCHANGED <<finished, lost, returned>>
  /\ \A d \in Deposit : (InHands(d) => InHands(d)') /\ (d \in txs => InHands(d)')

Records(txs, verdict) ==
  /\ AddVerdict(txs, verdict) /\ UNCHANGED <<cache, lost, returned>>
  /\ \A d \in txs : InHands(d)
  /\ \A d \in Deposit : /\ InHands(d)' => InHands(d)
                       /\ InHands(d) => InHands(d)' \/ d \in txs

\* A step that leaves the goroutines alone leaves their hands alone.
LEMMA HandsUnchanged == UNCHANGED job => \A d \in Deposit : InHands(d)' <=> InHands(d)
  BY DEF InHands, At

\* The listener's own steps are quiet.
LEMMA ListenIsQuiet ==
  ASSUME TypeOK, Listen
  PROVE  Quiet
  <1> USE DEF Quiet, stores
  <1>0. job \in [Worker -> Job] /\ Listener \in Worker /\ NoJob.pc \notin Removed
    BY Workers DEF TypeOK, NoJob, Removed
  <1>1. ASSUME NEW d \in Deposit, Notify(d) PROVE Quiet
    BY <1>1, HandsUnchanged DEF Notify
  <1>2. ASSUME NEW e \in Deposit, SubmitTransactionReceipt(e) PROVE Quiet
    <2> DEFINE j == [job[Listener] EXCEPT !.receipts = @ \ {e}]
    <2>1. j.pc \notin Removed /\ job[Listener].pc \notin Removed
      BY <1>0, <1>2, JobFields DEF SubmitTransactionReceipt, At, Removed, Job
    <2>2. \A d \in Deposit : InHands(d)' <=> InHands(d)
      <3> HIDE DEF j
      <3>1. Becomes(Listener, j)
        BY <1>2 DEF SubmitTransactionReceipt, j
      <3>2. QED
        BY <1>0, <2>1, <3>1, HandsFrame
    <2>3. QED
      BY <1>2, <2>2 DEF SubmitTransactionReceipt
  <1>3. CASE ProcessNotifyData
    <2> DEFINE j == [NoJob EXCEPT !.pc = "receipt", !.receipts = queue, !.todo = queue \ cache]
    <2>1. j.pc \notin Removed /\ job[Listener].pc \notin Removed
      BY <1>0, <1>3 DEF ProcessNotifyData, At, Removed, NoJob
    <2>2. \A d \in Deposit : InHands(d)' <=> InHands(d)
      <3> HIDE DEF j
      <3>1. Becomes(Listener, j)
        BY <1>3 DEF ProcessNotifyData, j
      <3>2. QED
        BY <1>0, <2>1, <3>1, HandsFrame
    <2>3. QED
      BY <1>3, <2>2 DEF ProcessNotifyData
  <1>4. CASE SendIfOnDuty
    <2> DEFINE j == IF onDuty THEN [job[Listener] EXCEPT !.pc = "send"] ELSE NoJob
    <2>1. j.pc \notin Removed /\ job[Listener].pc \notin Removed
      BY <1>0, <1>4, JobFields DEF SendIfOnDuty, At, Removed, Job
    <2>2. \A d \in Deposit : InHands(d)' <=> InHands(d)
      <3> HIDE DEF j
      <3>1. Becomes(Listener, j)
        BY <1>4 DEF SendIfOnDuty, j
      <3>2. QED
        BY <1>0, <2>1, <3>1, HandsFrame
    <2>3. QED
      BY <1>4, <2>2 DEF SendIfOnDuty
  <1>5. QED
    BY <1>1, <1>2, <1>3, <1>4 DEF Listen

\* Asking the side chain is quiet; what it has is removed, then recorded.
LEMMA AskMoves ==
  ASSUME TypeOK, NEW w \in Worker, Ask(w)
  PROVE  \/ Quiet
         \/ \E txs \in SUBSET Deposit : Removes(txs)
         \/ \E txs \in SUBSET Deposit : txs = job[w].succeed /\ Records(txs, "succeed")
  <1>0. /\ job \in [Worker -> Job] /\ job[w] \in Job /\ NoJob.pc \notin Removed
        /\ job[w].failed \in SUBSET Deposit /\ job[w].succeed \in SUBSET Deposit
    BY JobFields DEF TypeOK, NoJob, Removed
  <1>1. CASE GetExistDepositTransactions(w)
    <2> DEFINE j == [job[w] EXCEPT
       !.pc = "found", !.succeed = job[w].todo \cap mined, !.todo = @ \ mined]
    <2>1. j.pc \notin Removed /\ job[w].pc \notin Removed
      BY <1>0, <1>1 DEF GetExistDepositTransactions, At, Removed, Job
    <2>2. \A d \in Deposit : InHands(d)' <=> InHands(d)
      <3> HIDE DEF j
      <3>1. Becomes(w, j)
        BY <1>1 DEF GetExistDepositTransactions, j
      <3>2. QED
        BY <1>0, <2>1, <3>1, HandsFrame
    <2>3. QED
      BY <1>1, <2>2 DEF GetExistDepositTransactions, Quiet, stores
  <1>2. CASE GetExistFails(w)
    <2> DEFINE j == NoJob
    <2>1. j.pc \notin Removed /\ job[w].pc \notin Removed
      BY <1>0, <1>2 DEF GetExistFails, At, Removed, Job
    <2>2. \A d \in Deposit : InHands(d)' <=> InHands(d)
      <3> HIDE DEF j
      <3>1. Becomes(w, j)
        BY <1>2 DEF GetExistFails, j
      <3>2. QED
        BY <1>0, <2>1, <3>1, HandsFrame
    <2>3. QED
      BY <1>2, <2>2 DEF GetExistFails, Quiet, stores
  <1>3. CASE RemoveFound(w)
    <2> DEFINE j == [job[w] EXCEPT !.pc = "foundRemoved"]
    <2>1. /\ job[w].pc \notin Removed
          /\ j.pc = "foundRemoved" /\ j.succeed = job[w].succeed
      BY <1>0, <1>3 DEF RemoveFound, At, Removed, Job
    <2>2. \A d \in Deposit : (InHands(d) => InHands(d)') /\ (d \in job[w].succeed => InHands(d)')
      <3> HIDE DEF j
      <3>1. Becomes(w, j)
        BY <1>3 DEF RemoveFound, j
      <3>2. QED
        BY <1>0, <2>1, <3>1, HandsTake
    <2>3. Removes(job[w].succeed)
      BY <1>3, <2>2 DEF RemoveFound, Removes, RemoveMainChainTxs
    <2>4. QED
      BY <2>3, <1>0
  <1>4. CASE AddFound(w)
    <2> DEFINE j == IF w = Checker THEN NoJob
                  ELSE [job[w] EXCEPT !.pc = "load", !.succeed = {}]
    <2>1. /\ job[w].pc = "foundRemoved"
          /\ j.pc \notin Removed
      BY <1>0, <1>4 DEF AddFound, At, Removed, Job
    <2>2. \A d \in job[w].succeed : InHands(d)
      BY <1>0, <2>1 DEF InHands, At
    <2>3. \A d \in Deposit : /\ InHands(d)' => InHands(d)
                            /\ InHands(d) => InHands(d)' \/ d \in job[w].succeed
      <3> HIDE DEF j
      <3>1. Becomes(w, j)
        BY <1>4 DEF AddFound, j
      <3>2. QED
        BY <1>0, <2>1, <3>1, HandsGive
    <2>4. AddVerdict(job[w].succeed, "succeed") /\ UNCHANGED <<cache, lost, returned>>
      BY <1>4 DEF AddFound
    <2>5. Records(job[w].succeed, "succeed")
      BY <2>2, <2>3, <2>4 DEF Records
    <2>6. QED
      BY <1>0, <2>5
  <1>5. CASE GetMainChainTxsFromHashes(w)
    <2> DEFINE j == [job[w] EXCEPT !.pc = "send", !.todo = @ \cap cache]
    <2>1. j.pc \notin Removed /\ job[w].pc \notin Removed
      BY <1>0, <1>5 DEF GetMainChainTxsFromHashes, At, Removed, Job
    <2>2. \A d \in Deposit : InHands(d)' <=> InHands(d)
      <3> HIDE DEF j
      <3>1. Becomes(w, j)
        BY <1>5 DEF GetMainChainTxsFromHashes, j
      <3>2. QED
        BY <1>0, <2>1, <3>1, HandsFrame
    <2>3. QED
      BY <1>5, <2>2 DEF GetMainChainTxsFromHashes, Quiet, stores
  <1>6. QED
    BY <1>1, <1>2, <1>3, <1>4, <1>5 DEF Ask

\* Sending is quiet; failures and successes are removed, then recorded.
LEMMA SendMoves ==
  ASSUME TypeOK, NEW w \in Worker, SendDepositTransactions(w)
  PROVE  \/ Quiet
         \/ \E txs \in SUBSET Deposit : Removes(txs)
         \/ \E txs \in SUBSET Deposit : txs = job[w].succeed /\ Records(txs, "succeed")
         \/ \E txs \in SUBSET Deposit : Records(txs, "failed")
  <1>0. /\ job \in [Worker -> Job] /\ job[w] \in Job /\ NoJob.pc \notin Removed
        /\ job[w].failed \in SUBSET Deposit /\ job[w].succeed \in SUBSET Deposit
    BY JobFields DEF TypeOK, NoJob, Removed
  <1>1. ASSUME NEW e \in Deposit, NEW answer \in Answers, SendDepositTransaction(w, e, answer)
        PROVE  Quiet
    <2> DEFINE j == [job[w] EXCEPT
       !.todo = @ \ {e},
       !.failed = IF IsFailed(answer) THEN @ \cup {e} ELSE @,
       !.succeed = IF IsSucceed(answer) THEN @ \cup {e} ELSE @]
    <2>1. j.pc \notin Removed /\ job[w].pc \notin Removed
      BY <1>0, <1>1 DEF SendDepositTransaction, At, Removed, Job
    <2>2. \A d \in Deposit : InHands(d)' <=> InHands(d)
      <3> HIDE DEF j
      <3>1. Becomes(w, j)
        BY <1>1 DEF SendDepositTransaction, j
      <3>2. QED
        BY <1>0, <2>1, <3>1, HandsFrame
    <2>3. QED
      BY <1>1, <2>2 DEF SendDepositTransaction, Quiet, stores
  <1>2. CASE SendFinished(w)
    <2> DEFINE j == [job[w] EXCEPT !.pc = "fail", !.left = Cardinality(job[w].failed)]
    <2>1. j.pc \notin Removed /\ job[w].pc \notin Removed
      BY <1>0, <1>2 DEF SendFinished, At, Removed, Job
    <2>2. \A d \in Deposit : InHands(d)' <=> InHands(d)
      <3> HIDE DEF j
      <3>1. Becomes(w, j)
        BY <1>2 DEF SendFinished, j
      <3>2. QED
        BY <1>0, <2>1, <3>1, HandsFrame
    <2>3. QED
      BY <1>2, <2>2 DEF SendFinished, Quiet, stores
  <1>3. CASE RemoveFailed(w)
    <2> DEFINE j == [job[w] EXCEPT !.pc = "failRemoved", !.left = @ - 1]
    <2>1. /\ job[w].pc \notin Removed
          /\ j.pc = "failRemoved" /\ j.failed = job[w].failed
      BY <1>0, <1>3 DEF RemoveFailed, At, Removed, Job
    <2>2. \A d \in Deposit : (InHands(d) => InHands(d)') /\ (d \in job[w].failed => InHands(d)')
      <3> HIDE DEF j
      <3>1. Becomes(w, j)
        BY <1>3 DEF RemoveFailed, j
      <3>2. QED
        BY <1>0, <2>1, <3>1, HandsTake
    <2>3. Removes(job[w].failed)
      BY <1>3, <2>2 DEF RemoveFailed, Removes, RemoveMainChainTxs
    <2>4. QED
      BY <2>3, <1>0
  <1>4. CASE AddFailedDepositTxs(w)
    <2> DEFINE j == [job[w] EXCEPT !.pc = "fail"]
    <2>1. /\ job[w].pc = "failRemoved"
          /\ j.pc \notin Removed
      BY <1>0, <1>4 DEF AddFailedDepositTxs, At, Removed, Job
    <2>2. \A d \in job[w].failed : InHands(d)
      BY <1>0, <2>1 DEF InHands, At
    <2>3. \A d \in Deposit : /\ InHands(d)' => InHands(d)
                            /\ InHands(d) => InHands(d)' \/ d \in job[w].failed
      <3> HIDE DEF j
      <3>1. Becomes(w, j)
        BY <1>4 DEF AddFailedDepositTxs, j
      <3>2. QED
        BY <1>0, <2>1, <3>1, HandsGive
    <2>4. AddVerdict(job[w].failed, "failed") /\ UNCHANGED <<cache, lost, returned>>
      BY <1>4 DEF AddFailedDepositTxs
    <2>5. Records(job[w].failed, "failed")
      BY <2>2, <2>3, <2>4 DEF Records
    <2>6. QED
      BY <1>0, <2>5
  <1>5. CASE FailedFinished(w)
    <2> DEFINE j == [job[w] EXCEPT !.pc = "succeed", !.left = Cardinality(job[w].succeed)]
    <2>1. j.pc \notin Removed /\ job[w].pc \notin Removed
      BY <1>0, <1>5 DEF FailedFinished, At, Removed, Job
    <2>2. \A d \in Deposit : InHands(d)' <=> InHands(d)
      <3> HIDE DEF j
      <3>1. Becomes(w, j)
        BY <1>5 DEF FailedFinished, j
      <3>2. QED
        BY <1>0, <2>1, <3>1, HandsFrame
    <2>3. QED
      BY <1>5, <2>2 DEF FailedFinished, Quiet, stores
  <1>6. CASE RemoveSucceed(w)
    <2> DEFINE j == [job[w] EXCEPT !.pc = "succeedRemoved", !.left = @ - 1]
    <2>1. /\ job[w].pc \notin Removed
          /\ j.pc = "succeedRemoved" /\ j.succeed = job[w].succeed
      BY <1>0, <1>6 DEF RemoveSucceed, At, Removed, Job
    <2>2. \A d \in Deposit : (InHands(d) => InHands(d)') /\ (d \in job[w].succeed => InHands(d)')
      <3> HIDE DEF j
      <3>1. Becomes(w, j)
        BY <1>6 DEF RemoveSucceed, j
      <3>2. QED
        BY <1>0, <2>1, <3>1, HandsTake
    <2>3. Removes(job[w].succeed)
      BY <1>6, <2>2 DEF RemoveSucceed, Removes, RemoveMainChainTxs
    <2>4. QED
      BY <2>3, <1>0
  <1>7. CASE AddSucceedDepositTxs(w)
    <2> DEFINE j == [job[w] EXCEPT !.pc = "succeed"]
    <2>1. /\ job[w].pc = "succeedRemoved"
          /\ j.pc \notin Removed
      BY <1>0, <1>7 DEF AddSucceedDepositTxs, At, Removed, Job
    <2>2. \A d \in job[w].succeed : InHands(d)
      BY <1>0, <2>1 DEF InHands, At
    <2>3. \A d \in Deposit : /\ InHands(d)' => InHands(d)
                            /\ InHands(d) => InHands(d)' \/ d \in job[w].succeed
      <3> HIDE DEF j
      <3>1. Becomes(w, j)
        BY <1>7 DEF AddSucceedDepositTxs, j
      <3>2. QED
        BY <1>0, <2>1, <3>1, HandsGive
    <2>4. AddVerdict(job[w].succeed, "succeed") /\ UNCHANGED <<cache, lost, returned>>
      BY <1>7 DEF AddSucceedDepositTxs
    <2>5. Records(job[w].succeed, "succeed")
      BY <2>2, <2>3, <2>4 DEF Records
    <2>6. QED
      BY <1>0, <2>5
  <1>8. CASE SendReturns(w)
    <2> DEFINE j == NoJob
    <2>1. j.pc \notin Removed /\ job[w].pc \notin Removed
      BY <1>0, <1>8 DEF SendReturns, At, Removed, Job
    <2>2. \A d \in Deposit : InHands(d)' <=> InHands(d)
      <3> HIDE DEF j
      <3>1. Becomes(w, j)
        BY <1>8 DEF SendReturns, j
      <3>2. QED
        BY <1>0, <2>1, <3>1, HandsFrame
    <2>3. QED
      BY <1>8, <2>2 DEF SendReturns, Quiet, stores
  <1>9. QED
    BY <1>1, <1>2, <1>3, <1>4, <1>5, <1>6, <1>7, <1>8 DEF SendDepositTransactions

-----------------------------------------------------------------------------
(***************************************************************************)
(* Every step is one of these moves, or a crash, which empties all hands.  *)
(***************************************************************************)
LEMMA StepMoves ==
  ASSUME TypeOK, [Next]_vars
  PROVE  \/ Quiet
         \/ \E txs \in SUBSET Deposit : Removes(txs)
         \/ \E w \in Worker, txs \in SUBSET Deposit :
              txs = job[w].succeed /\ Records(txs, "succeed")
         \/ \E txs \in SUBSET Deposit : Records(txs, "failed")
         \/ \E txs \in SUBSET Deposit : Drops(txs)
         \/ Crash /\ \A d \in Deposit : ~InHands(d)'
  <1>0. job \in [Worker -> Job] /\ Duty \subseteq Worker /\ Checker \in Worker
    BY Workers DEF TypeOK
  <1>1. CASE Listen
    BY <1>1, ListenIsQuiet
  <1>2. CASE CheckAndRemoveDepositTransactionsFromDB
    <2> DEFINE j == [NoJob EXCEPT !.pc = "ask", !.todo = cache]
    <2>1. j.pc \notin Removed /\ job[Checker].pc \notin Removed
      BY <1>2 DEF CheckAndRemoveDepositTransactionsFromDB, At, Removed, NoJob
    <2>2. \A d \in Deposit : InHands(d)' <=> InHands(d)
      <3> HIDE DEF j
      <3>1. Becomes(Checker, j)
        BY <1>2 DEF CheckAndRemoveDepositTransactionsFromDB, j
      <3>2. QED
        BY <1>0, <2>1, <3>1, HandsFrame
    <2>3. Quiet
      BY <1>2, <2>2 DEF CheckAndRemoveDepositTransactionsFromDB, Quiet, stores
    <2>4. QED
      BY <2>3
  <1>3. ASSUME NEW w \in Worker, Ask(w)
        PROVE  \/ Quiet
               \/ \E txs \in SUBSET Deposit : Removes(txs)
               \/ \E txs \in SUBSET Deposit : txs = job[w].succeed /\ Records(txs, "succeed")
    BY <1>3, AskMoves
  <1>4. ASSUME NEW w \in Worker, SendDepositTransactions(w)
        PROVE  \/ Quiet
               \/ \E txs \in SUBSET Deposit : Removes(txs)
               \/ \E txs \in SUBSET Deposit : txs = job[w].succeed /\ Records(txs, "succeed")
               \/ \E txs \in SUBSET Deposit : Records(txs, "failed")
    BY <1>4, SendMoves
  <1>5. ASSUME NEW w \in Duty, OnDutyArbitratorChanged(w)
        PROVE  Quiet
    <2> DEFINE j == [NoJob EXCEPT !.pc = "start"]
    <2>1. j.pc \notin Removed /\ job[w].pc \notin Removed
      BY <1>5 DEF OnDutyArbitratorChanged, At, Removed, NoJob
    <2>2. \A d \in Deposit : InHands(d)' <=> InHands(d)
      <3> HIDE DEF j
      <3>1. Becomes(w, j)
        BY <1>5 DEF OnDutyArbitratorChanged, j
      <3>2. QED
        BY <1>0, <2>1, <3>1, HandsFrame
    <2>3. QED
      BY <1>5, <2>2 DEF OnDutyArbitratorChanged, Quiet, stores
  <1>6. ASSUME NEW w \in Duty, SyncMainChainCachedTxs(w)
        PROVE  Quiet
    <2> DEFINE j == IF cache = {} THEN NoJob ELSE [NoJob EXCEPT !.pc = "ask", !.todo = cache]
    <2>1. j.pc \notin Removed /\ job[w].pc \notin Removed
      BY <1>6 DEF SyncMainChainCachedTxs, At, Removed, NoJob
    <2>2. \A d \in Deposit : InHands(d)' <=> InHands(d)
      <3> HIDE DEF j
      <3>1. Becomes(w, j)
        BY <1>6 DEF SyncMainChainCachedTxs, j
      <3>2. QED
        BY <1>0, <2>1, <3>1, HandsFrame
    <2>3. QED
      BY <1>6, <2>2 DEF SyncMainChainCachedTxs, Quiet, stores
  <1>7. CASE RelievedOfDuty
    BY <1>7, HandsUnchanged DEF RelievedOfDuty, Quiet, stores
  <1>8. ASSUME NEW d \in Deposit, OtherArbiterSends(d) \/ SideChainMines(d)
        PROVE  Quiet
    BY <1>8, HandsUnchanged DEF OtherArbiterSends, SideChainMines, Quiet, stores
  <1>9. CASE Crash
    <2>1. \A w \in Worker : job'[w].pc = "idle"
      BY <1>9 DEF Crash, NoJob
    <2>2. \A d \in Deposit : ~InHands(d)'
      BY <2>1 DEF InHands, At
    <2>3. QED
      BY <1>9, <2>2
  <1>10. CASE UNCHANGED vars
    BY <1>10, HandsUnchanged DEF vars, Quiet, stores
  <1>11. ASSUME NEW txs \in SUBSET Deposit, SubmitReturnSideChainDepositCoin(txs)
         PROVE  Drops(txs)
    BY <1>11, HandsUnchanged DEF SubmitReturnSideChainDepositCoin, RemoveMainChainTxs, Drops
  <1>12. QED
    BY <1>1, <1>2, <1>3, <1>4, <1>5, <1>6, <1>7, <1>8, <1>9, <1>10, <1>11
    DEF Next, OnDuty, Environment

(***************************************************************************)
(* Once safe, always safe: a removal leaves the deposit in the hands of    *)
(* the goroutine, which gives it up only for a verdict or to a crash, and  *)
(* what the submission of a return drops counts as returned.               *)
(***************************************************************************)
LEMMA SafeStep ==
  ASSUME TypeOK, [Next]_vars, NEW d \in Deposit, Safe(d)
  PROVE  Safe(d)'
  <1> USE DEF Safe
  <1>1. CASE Quiet
    BY <1>1 DEF Quiet
  <1>2. ASSUME NEW txs \in SUBSET Deposit, Removes(txs) PROVE Safe(d)'
    BY <1>2 DEF Removes
  <1>3. ASSUME NEW txs \in SUBSET Deposit, NEW verdict \in {"succeed", "failed"},
               Records(txs, verdict)
        PROVE  Safe(d)'
    BY <1>3 DEF Records, AddVerdict
  <1>4. CASE Crash
    BY <1>4 DEF Crash, Unwritten, stores
  <1>5. ASSUME NEW txs \in SUBSET Deposit, Drops(txs) PROVE Safe(d)'
    BY <1>5 DEF Drops
  <1>6. QED
    BY <1>1, <1>2, <1>3, <1>4, <1>5, StepMoves

(***************************************************************************)
(* What a step may put into the hands of the listener and of the senders:  *)
(* receipts only for what it caches, successes only for what is on the     *)
(* side chain.  A receipt is handed in only for what the listener owes.    *)
(***************************************************************************)
Grounded(v) ==
  /\ job'[v].receipts \subseteq job[v].receipts \cup cache'
  /\ job'[v].succeed \subseteq job[v].succeed \cup pool' \cup mined'

JobChange ==
  /\ \A v \in Worker : Grounded(v)
  /\ pool \cup mined \subseteq pool' \cup mined'
  /\ rejected \subseteq rejected'
  /\ pending \subseteq pending' \cup job[Listener].receipts

\* It is enough to look at the goroutine that moves.
LEMMA GroundedOne ==
  ASSUME job \in [Worker -> Job], NEW w \in Worker, NEW j, Becomes(w, j),
         j.receipts \subseteq job[w].receipts \cup cache',
         j.succeed \subseteq job[w].succeed \cup pool' \cup mined'
  PROVE  \A v \in Worker : Grounded(v)
  BY DEF Becomes, Grounded

\* A step that leaves the goroutines alone is grounded.
LEMMA GroundedNone == UNCHANGED job => \A v \in Worker : Grounded(v)
  BY DEF Grounded

\* Asking and sending are grounded.
LEMMA WorkerChange ==
  ASSUME TypeOK, NEW w \in Worker, Ask(w) \/ SendDepositTransactions(w)
  PROVE  JobChange
  <1> DEFINE k == job[w]
  <1>0. /\ job \in [Worker -> Job] /\ k \in Job /\ NoJob.receipts = {} /\ NoJob.succeed = {}
    BY JobFields DEF TypeOK, NoJob
  <1>1. CASE GetExistDepositTransactions(w)
    <2> DEFINE j == [k EXCEPT !.pc = "found", !.succeed = job[w].todo \cap mined, !.todo = @ \ mined]
    <2>1. /\ j.receipts \subseteq k.receipts \cup cache'
          /\ j.succeed \subseteq k.succeed \cup pool' \cup mined'
      BY <1>0, <1>1 DEF GetExistDepositTransactions, Job, side
    <2>2. Becomes(w, j)
      BY <1>1 DEF GetExistDepositTransactions
    <2>3. \A v \in Worker : Grounded(v)
      <3> HIDE DEF j
      <3>1. QED
        BY <1>0, <2>1, <2>2, GroundedOne
    <2>4. QED
      BY <1>1, <2>3 DEF GetExistDepositTransactions, JobChange, side
  <1>2. CASE GetExistFails(w)
    <2> DEFINE j == NoJob
    <2>1. /\ j.receipts \subseteq k.receipts \cup cache'
          /\ j.succeed \subseteq k.succeed \cup pool' \cup mined'
      BY <1>0, <1>2 DEF GetExistFails, Job, side
    <2>2. Becomes(w, j)
      BY <1>2 DEF GetExistFails
    <2>3. \A v \in Worker : Grounded(v)
      <3> HIDE DEF j
      <3>1. QED
        BY <1>0, <2>1, <2>2, GroundedOne
    <2>4. QED
      BY <1>2, <2>3 DEF GetExistFails, JobChange, side
  <1>3. CASE RemoveFound(w)
    <2> DEFINE j == [k EXCEPT !.pc = "foundRemoved"]
    <2>1. /\ j.receipts \subseteq k.receipts \cup cache'
          /\ j.succeed \subseteq k.succeed \cup pool' \cup mined'
      BY <1>0, <1>3 DEF RemoveFound, Job, side
    <2>2. Becomes(w, j)
      BY <1>3 DEF RemoveFound
    <2>3. \A v \in Worker : Grounded(v)
      <3> HIDE DEF j
      <3>1. QED
        BY <1>0, <2>1, <2>2, GroundedOne
    <2>4. QED
      BY <1>3, <2>3 DEF RemoveFound, JobChange, side
  <1>4. CASE AddFound(w)
    <2> DEFINE j == IF w = Checker THEN NoJob ELSE [k EXCEPT !.pc = "load", !.succeed = {}]
    <2>1. /\ j.receipts \subseteq k.receipts \cup cache'
          /\ j.succeed \subseteq k.succeed \cup pool' \cup mined'
      BY <1>0, <1>4 DEF AddFound, Job, side
    <2>2. Becomes(w, j)
      BY <1>4 DEF AddFound
    <2>3. \A v \in Worker : Grounded(v)
      <3> HIDE DEF j
      <3>1. QED
        BY <1>0, <2>1, <2>2, GroundedOne
    <2>4. QED
      BY <1>4, <2>3 DEF AddFound, JobChange, side
  <1>5. CASE GetMainChainTxsFromHashes(w)
    <2> DEFINE j == [k EXCEPT !.pc = "send", !.todo = @ \cap cache]
    <2>1. /\ j.receipts \subseteq k.receipts \cup cache'
          /\ j.succeed \subseteq k.succeed \cup pool' \cup mined'
      BY <1>0, <1>5 DEF GetMainChainTxsFromHashes, Job, side
    <2>2. Becomes(w, j)
      BY <1>5 DEF GetMainChainTxsFromHashes
    <2>3. \A v \in Worker : Grounded(v)
      <3> HIDE DEF j
      <3>1. QED
        BY <1>0, <2>1, <2>2, GroundedOne
    <2>4. QED
      BY <1>5, <2>3 DEF GetMainChainTxsFromHashes, JobChange, side
  <1>6. CASE SendFinished(w)
    <2> DEFINE j == [k EXCEPT !.pc = "fail", !.left = Cardinality(job[w].failed)]
    <2>1. /\ j.receipts \subseteq k.receipts \cup cache'
          /\ j.succeed \subseteq k.succeed \cup pool' \cup mined'
      BY <1>0, <1>6 DEF SendFinished, Job, side
    <2>2. Becomes(w, j)
      BY <1>6 DEF SendFinished
    <2>3. \A v \in Worker : Grounded(v)
      <3> HIDE DEF j
      <3>1. QED
        BY <1>0, <2>1, <2>2, GroundedOne
    <2>4. QED
      BY <1>6, <2>3 DEF SendFinished, JobChange, side
  <1>7. CASE RemoveFailed(w)
    <2> DEFINE j == [k EXCEPT !.pc = "failRemoved", !.left = @ - 1]
    <2>1. /\ j.receipts \subseteq k.receipts \cup cache'
          /\ j.succeed \subseteq k.succeed \cup pool' \cup mined'
      BY <1>0, <1>7 DEF RemoveFailed, Job, side
    <2>2. Becomes(w, j)
      BY <1>7 DEF RemoveFailed
    <2>3. \A v \in Worker : Grounded(v)
      <3> HIDE DEF j
      <3>1. QED
        BY <1>0, <2>1, <2>2, GroundedOne
    <2>4. QED
      BY <1>7, <2>3 DEF RemoveFailed, JobChange, side
  <1>8. CASE AddFailedDepositTxs(w)
    <2> DEFINE j == [k EXCEPT !.pc = "fail"]
    <2>1. /\ j.receipts \subseteq k.receipts \cup cache'
          /\ j.succeed \subseteq k.succeed \cup pool' \cup mined'
      BY <1>0, <1>8 DEF AddFailedDepositTxs, Job, side
    <2>2. Becomes(w, j)
      BY <1>8 DEF AddFailedDepositTxs
    <2>3. \A v \in Worker : Grounded(v)
      <3> HIDE DEF j
      <3>1. QED
        BY <1>0, <2>1, <2>2, GroundedOne
    <2>4. QED
      BY <1>8, <2>3 DEF AddFailedDepositTxs, JobChange, side
  <1>9. CASE FailedFinished(w)
    <2> DEFINE j == [k EXCEPT !.pc = "succeed", !.left = Cardinality(job[w].succeed)]
    <2>1. /\ j.receipts \subseteq k.receipts \cup cache'
          /\ j.succeed \subseteq k.succeed \cup pool' \cup mined'
      BY <1>0, <1>9 DEF FailedFinished, Job, side
    <2>2. Becomes(w, j)
      BY <1>9 DEF FailedFinished
    <2>3. \A v \in Worker : Grounded(v)
      <3> HIDE DEF j
      <3>1. QED
        BY <1>0, <2>1, <2>2, GroundedOne
    <2>4. QED
      BY <1>9, <2>3 DEF FailedFinished, JobChange, side
  <1>10. CASE RemoveSucceed(w)
    <2> DEFINE j == [k EXCEPT !.pc = "succeedRemoved", !.left = @ - 1]
    <2>1. /\ j.receipts \subseteq k.receipts \cup cache'
          /\ j.succeed \subseteq k.succeed \cup pool' \cup mined'
      BY <1>0, <1>10 DEF RemoveSucceed, Job, side
    <2>2. Becomes(w, j)
      BY <1>10 DEF RemoveSucceed
    <2>3. \A v \in Worker : Grounded(v)
      <3> HIDE DEF j
      <3>1. QED
        BY <1>0, <2>1, <2>2, GroundedOne
    <2>4. QED
      BY <1>10, <2>3 DEF RemoveSucceed, JobChange, side
  <1>11. CASE AddSucceedDepositTxs(w)
    <2> DEFINE j == [k EXCEPT !.pc = "succeed"]
    <2>1. /\ j.receipts \subseteq k.receipts \cup cache'
          /\ j.succeed \subseteq k.succeed \cup pool' \cup mined'
      BY <1>0, <1>11 DEF AddSucceedDepositTxs, Job, side
    <2>2. Becomes(w, j)
      BY <1>11 DEF AddSucceedDepositTxs
    <2>3. \A v \in Worker : Grounded(v)
      <3> HIDE DEF j
      <3>1. QED
        BY <1>0, <2>1, <2>2, GroundedOne
    <2>4. QED
      BY <1>11, <2>3 DEF AddSucceedDepositTxs, JobChange, side
  <1>12. CASE SendReturns(w)
    <2> DEFINE j == NoJob
    <2>1. /\ j.receipts \subseteq k.receipts \cup cache'
          /\ j.succeed \subseteq k.succeed \cup pool' \cup mined'
      BY <1>0, <1>12 DEF SendReturns, Job, side
    <2>2. Becomes(w, j)
      BY <1>12 DEF SendReturns
    <2>3. \A v \in Worker : Grounded(v)
      <3> HIDE DEF j
      <3>1. QED
        BY <1>0, <2>1, <2>2, GroundedOne
    <2>4. QED
      BY <1>12, <2>3 DEF SendReturns, JobChange, side
  <1>13. ASSUME NEW d \in Deposit, NEW answer \in Answers, SendDepositTransaction(w, d, answer)
        PROVE  JobChange
    <2> DEFINE j == [k EXCEPT
       !.todo = @ \ {d},
       !.failed = IF IsFailed(answer) THEN @ \cup {d} ELSE @,
       !.succeed = IF IsSucceed(answer) THEN @ \cup {d} ELSE @]
    <2>1. j.receipts = k.receipts
      BY <1>0 DEF Job
    <2>2. pool \subseteq pool' /\ (IsSucceed(answer) => d \in pool')
      BY <1>13 DEF SendDepositTransaction, SendTransaction, IsSucceed
    <2>3. j.succeed \subseteq k.succeed \cup pool' \cup mined'
      BY <1>0, <2>2 DEF Job
    <2>4. Becomes(w, j)
      BY <1>13 DEF SendDepositTransaction
    <2>5. \A v \in Worker : Grounded(v)
      <3> HIDE DEF j
      <3>1. QED
        BY <1>0, <2>1, <2>3, <2>4, GroundedOne
    <2>6. QED
      BY <1>13, <2>2, <2>5 DEF SendDepositTransaction, JobChange
  <1>14. QED
    BY <1>1, <1>2, <1>3, <1>4, <1>5, <1>6, <1>7, <1>8, <1>9, <1>10, <1>11, <1>12, <1>13 DEF Ask, SendDepositTransactions

\* Every step is grounded.
LEMMA JobChangeStep ==
  ASSUME TypeOK, [Next]_vars
  PROVE  JobChange
  <1>0. /\ job \in [Worker -> Job] /\ Listener \in Worker /\ Checker \in Worker /\ Duty \subseteq Worker
        /\ job[Listener] \in Job /\ NoJob.receipts = {} /\ NoJob.succeed = {}
    BY Workers DEF TypeOK, NoJob
  <1>1. ASSUME NEW d \in Deposit, Notify(d) PROVE JobChange
    BY <1>1, GroundedNone DEF Notify, JobChange, side
  <1>2. ASSUME NEW d \in Deposit, SubmitTransactionReceipt(d) PROVE JobChange
    <2> DEFINE j == [job[Listener] EXCEPT !.receipts = @ \ {d}]
    <2>1. j.receipts \subseteq job[Listener].receipts /\ j.succeed = job[Listener].succeed
      BY <1>0 DEF Job
    <2>2. Becomes(Listener, j)
      BY <1>2 DEF SubmitTransactionReceipt
    <2>3. \A v \in Worker : Grounded(v)
      <3> HIDE DEF j
      <3>1. QED
        BY <1>0, <2>1, <2>2, GroundedOne
    <2>4. QED
      BY <1>2, <2>3 DEF SubmitTransactionReceipt, JobChange, side
  <1>3. CASE ProcessNotifyData
    <2> DEFINE j == [NoJob EXCEPT !.pc = "receipt", !.receipts = queue, !.todo = queue \ cache]
    <2>1. j.receipts \subseteq cache' /\ j.succeed = {}
      BY <1>3 DEF ProcessNotifyData, NoJob
    <2>2. Becomes(Listener, j)
      BY <1>3 DEF ProcessNotifyData
    <2>3. \A v \in Worker : Grounded(v)
      <3> HIDE DEF j
      <3>1. QED
        BY <1>0, <2>1, <2>2, GroundedOne
    <2>4. QED
      BY <1>3, <2>3 DEF ProcessNotifyData, JobChange, side
  <1>4. CASE SendIfOnDuty
    <2> DEFINE j == IF onDuty THEN [job[Listener] EXCEPT !.pc = "send"] ELSE NoJob
    <2>1. j.receipts \subseteq job[Listener].receipts /\ j.succeed \subseteq job[Listener].succeed
      BY <1>0 DEF Job
    <2>2. Becomes(Listener, j)
      BY <1>4 DEF SendIfOnDuty
    <2>3. \A v \in Worker : Grounded(v)
      <3> HIDE DEF j
      <3>1. QED
        BY <1>0, <2>1, <2>2, GroundedOne
    <2>4. QED
      BY <1>4, <2>3 DEF SendIfOnDuty, JobChange, side
  <1>5. ASSUME CheckAndRemoveDepositTransactionsFromDB PROVE JobChange
    <2> DEFINE j == [NoJob EXCEPT !.pc = "ask", !.todo = cache]
    <2>1. j.receipts = {} /\ j.succeed = {}
      BY DEF NoJob
    <2>2. Becomes(Checker, j)
      BY <1>5 DEF CheckAndRemoveDepositTransactionsFromDB
    <2>3. \A v \in Worker : Grounded(v)
      <3> HIDE DEF j
      <3>1. QED
        BY <1>0, <2>1, <2>2, GroundedOne
    <2>4. QED
      BY <1>5, <2>3 DEF CheckAndRemoveDepositTransactionsFromDB, JobChange, side
  <1>6. ASSUME NEW w \in Duty, OnDutyArbitratorChanged(w) PROVE JobChange
    <2> DEFINE j == [NoJob EXCEPT !.pc = "start"]
    <2>1. j.receipts = {} /\ j.succeed = {}
      BY DEF NoJob
    <2>2. Becomes(w, j)
      BY <1>6 DEF OnDutyArbitratorChanged
    <2>3. \A v \in Worker : Grounded(v)
      <3> HIDE DEF j
      <3>1. QED
        BY <1>0, <2>1, <2>2, GroundedOne
    <2>4. QED
      BY <1>6, <2>3 DEF OnDutyArbitratorChanged, JobChange, side
  <1>7. ASSUME NEW w \in Duty, SyncMainChainCachedTxs(w) PROVE JobChange
    <2> DEFINE j == IF cache = {} THEN NoJob ELSE [NoJob EXCEPT !.pc = "ask", !.todo = cache]
    <2>1. j.receipts = {} /\ j.succeed = {}
      BY DEF NoJob
    <2>2. Becomes(w, j)
      BY <1>7 DEF SyncMainChainCachedTxs
    <2>3. \A v \in Worker : Grounded(v)
      <3> HIDE DEF j
      <3>1. QED
        BY <1>0, <2>1, <2>2, GroundedOne
    <2>4. QED
      BY <1>7, <2>3 DEF SyncMainChainCachedTxs, JobChange, side
  <1>8. CASE RelievedOfDuty
    BY <1>8, GroundedNone DEF RelievedOfDuty, JobChange, side
  <1>9. ASSUME NEW d \in Deposit, OtherArbiterSends(d) \/ SideChainMines(d) PROVE JobChange
    <2>1. /\ UNCHANGED <<job, pending>> /\ pool \cup mined \subseteq pool' \cup mined'
          /\ rejected \subseteq rejected'
      BY <1>9 DEF OtherArbiterSends, SideChainMines
    <2>2. QED
      BY <2>1, GroundedNone DEF JobChange
  <1>10. CASE Crash
    <2>1. \A v \in Worker : Grounded(v)
      BY <1>0, <1>10 DEF Crash, Grounded
    <2>2. QED
      BY <1>10, <2>1 DEF Crash, JobChange, side
  <1>11. CASE UNCHANGED vars
    BY <1>11, GroundedNone DEF vars, JobChange, side
  <1>12. ASSUME NEW txs \in SUBSET Deposit, SubmitReturnSideChainDepositCoin(txs)
         PROVE  JobChange
    BY <1>12, GroundedNone DEF SubmitReturnSideChainDepositCoin, JobChange, side
  <1>13. QED
    BY <1>1, <1>2, <1>3, <1>4, <1>5, <1>6, <1>7, <1>8, <1>9, <1>10, <1>11, <1>12, WorkerChange
    DEF Next, Listen, OnDuty, Environment

-----------------------------------------------------------------------------
(***************************************************************************)
(* No deposit slips through.  The receipts the listener owes are the link: *)
(* they are safe from the moment the batch is cached, and safety is for    *)
(* ever, so that what leaves "pending" is safe.                            *)
(***************************************************************************)
LEMMA AccountedInit == Init => AccountedInv
  <1> SUFFICES ASSUME Init PROVE AccountedInv
    OBVIOUS
  <1>1. Deposit \ pending = {} /\ job[Listener].receipts = {}
    BY Workers DEF Init, NoJob
  <1>2. QED
    BY <1>1, TypeInit DEF AccountedInv, Accounted

\* Every step keeps it.
LEMMA AccountedStep ==
  ASSUME AccountedInv, [Next]_vars
  PROVE  AccountedInv'
  <1>0. TypeOK /\ TypeOK' /\ JobChange /\ Listener \in Worker
    BY TypeStep, JobChangeStep, Workers DEF AccountedInv
  <1>1. \A d \in Deposit : Safe(d) => Safe(d)'
    BY <1>0, SafeStep
  <1>2. ASSUME NEW d \in Deposit \ pending' PROVE Safe(d)'
    <2>1. d \in Deposit \ pending \/ d \in job[Listener].receipts
      BY <1>0 DEF JobChange
    <2>2. Safe(d)
      BY <2>1 DEF AccountedInv, Accounted
    <2>3. QED
      BY <1>1, <2>2
  <1>3. ASSUME NEW d \in job'[Listener].receipts PROVE Safe(d)'
    <2>1. d \in job[Listener].receipts \/ d \in cache'
      BY <1>0 DEF JobChange, Grounded
    <2>2. d \in Deposit
      BY <1>0, <2>1, JobFields DEF TypeOK
    <2>3. CASE d \in job[Listener].receipts
      <3>1. Safe(d)
        BY <2>3 DEF AccountedInv
      <3>2. QED
        BY <1>1, <2>2, <3>1
    <2>4. CASE d \in cache'
      BY <2>4 DEF Safe
    <2>5. QED
      BY <2>1, <2>3, <2>4
  <1>4. QED
    BY <1>0, <1>2, <1>3 DEF AccountedInv, Accounted

(***************************************************************************)
(* The invariant: a deposit whose batch is cached is safe before its       *)
(* receipt is handed in, and what a goroutine removed it still holds.      *)
(***************************************************************************)
THEOREM AccountedInvHolds == Spec => []AccountedInv
  BY AccountedInit, AccountedStep, PTL DEF Spec

(***************************************************************************)
(* A deposit whose receipt was handed in is in the cache, has a verdict,   *)
(* is in the hands of a goroutine, was lost to a crash in between, or lost *)
(* its row to the submission of its return.                                *)
(***************************************************************************)
THEOREM DepositsAccounted == Spec => []Accounted
  <1>1. AccountedInv => Accounted
    BY DEF AccountedInv
  <1>2. QED
    BY AccountedInvHolds, <1>1, PTL

-----------------------------------------------------------------------------
(***************************************************************************)
(* "succeed" is recorded for what the side chain has.  A goroutine holds   *)
(* as succeeded only what is there, and what is there stays there.         *)
(***************************************************************************)
LEMMA SucceedInit == Init => SucceedInv
  <1> SUFFICES ASSUME Init PROVE SucceedInv
    OBVIOUS
  <1>1. \A w \in Worker : job[w].succeed = {}
    BY DEF Init, NoJob
  <1>2. \A d \in Deposit : finished[d] = "none"
    BY DEF Init
  <1>3. QED
    BY <1>1, <1>2, TypeInit DEF SucceedInv, SucceedIsOnSide

\* Every step keeps it.
LEMMA SucceedStep ==
  ASSUME SucceedInv, [Next]_vars
  PROVE  SucceedInv'
  <1>0. /\ TypeOK /\ TypeOK' /\ JobChange
        /\ \A w \in Worker : job[w].succeed \subseteq pool \cup mined
    BY TypeStep, JobChangeStep DEF SucceedInv
  <1>1. \A w \in Worker : job'[w].succeed \subseteq pool' \cup mined'
    BY <1>0 DEF JobChange, Grounded
  <1>2. SucceedIsOnSide'
    <2> SUFFICES ASSUME NEW d \in Deposit, finished'[d] = "succeed"
                 PROVE  d \in pool' \cup mined'
      BY DEF SucceedIsOnSide
    <2>1. finished[d] = "succeed" \/ \E w \in Worker : d \in job[w].succeed
      <3>1. CASE UNCHANGED finished
        BY <3>1
      <3>2. ASSUME NEW w \in Worker, Records(job[w].succeed, "succeed")
            PROVE  finished[d] = "succeed" \/ d \in job[w].succeed
        BY <3>2 DEF Records, AddVerdict
      <3>3. ASSUME NEW txs \in SUBSET Deposit, Records(txs, "failed")
            PROVE  finished[d] = "succeed"
        BY <3>3 DEF Records, AddVerdict
      <3>4. QED
        BY <1>0, <3>1, <3>2, <3>3, StepMoves DEF Quiet, Removes, Drops, Crash, stores
    <2>2. d \in pool \cup mined
      BY <1>0, <2>1 DEF SucceedInv, SucceedIsOnSide
    <2>3. QED
      BY <1>0, <2>2 DEF JobChange
  <1>3. QED
    BY <1>0, <1>1, <1>2 DEF SucceedInv

(***************************************************************************)
(* The invariant: a goroutine holds as succeeded only what the side chain  *)
(* has, from the answer to the statement that records it.                  *)
(***************************************************************************)
THEOREM SucceedInvHolds == Spec => []SucceedInv
  BY SucceedInit, SucceedStep, PTL DEF Spec

(***************************************************************************)
(* A deposit is recorded as succeeded only when the side chain has it.     *)
(***************************************************************************)
THEOREM SucceededOnSide == Spec => []SucceedIsOnSide
  <1>1. SucceedInv => SucceedIsOnSide
    BY DEF SucceedInv
  <1>2. QED
    BY SucceedInvHolds, <1>1, PTL

-----------------------------------------------------------------------------
(***************************************************************************)
(* The refinement: what a step does to one deposit is a move of the        *)
(* ledger.                                                                 *)
(***************************************************************************)
LEMMA EntryOf ==
  ASSUME NEW d \in Deposit
  PROVE  /\ Entry[d] = IF finished[d] # "none" THEN finished[d]
                       ELSE IF d \in cache \/ InHands(d) THEN "open"
                       ELSE IF d \in lost THEN "lost"
                       ELSE IF d \in returned THEN "returned" ELSE "outside"
         /\ Entry'[d] = IF finished'[d] # "none" THEN finished'[d]
                       ELSE IF d \in cache' \/ InHands(d)' THEN "open"
                       ELSE IF d \in lost' THEN "lost"
                       ELSE IF d \in returned' THEN "returned" ELSE "outside"
  BY DEF Entry

\* One deposit makes a move, or stays where it is.
LEMMA LedgerMove ==
  ASSUME SucceedInv, [Next]_vars, NEW d \in Deposit
  PROVE  Ledger!Moves(d)
  <1> USE EntryOf DEF Ledger!Moves
  <1>0. TypeOK /\ \A w \in Worker : job[w].succeed \subseteq pool \cup mined
    BY DEF SucceedInv
  <1>1. CASE Quiet
    BY <1>1 DEF Quiet
  <1>2. ASSUME NEW txs \in SUBSET Deposit, Removes(txs) PROVE Ledger!Moves(d)
    BY <1>2 DEF Removes
  <1>3. ASSUME NEW w \in Worker, Records(job[w].succeed, "succeed") PROVE Ledger!Moves(d)
    <2>1. d \in job[w].succeed => d \in pool \cup mined
      BY <1>0
    <2>2. QED
      BY <1>3, <2>1 DEF Records, AddVerdict
  <1>4. ASSUME NEW txs \in SUBSET Deposit, Records(txs, "failed") PROVE Ledger!Moves(d)
    BY <1>4 DEF Records, AddVerdict
  <1>5. ASSUME Crash, ~InHands(d)' PROVE Ledger!Moves(d)
    BY <1>5 DEF Crash, Unwritten, stores
  <1>6. ASSUME NEW txs \in SUBSET Deposit, Drops(txs) PROVE Ledger!Moves(d)
    BY <1>6 DEF Drops
  <1>7. QED
    BY <1>0, <1>1, <1>2, <1>3, <1>4, <1>5, <1>6, StepMoves

\* A step of the tables is a step of the ledger.
LEMMA LedgerStep ==
  ASSUME SucceedInv, [Next]_vars
  PROVE  [Ledger!Next]_<<Entry, pool \cup mined, rejected>>
  <1>0. TypeOK' /\ JobChange
    BY TypeStep, JobChangeStep DEF SucceedInv
  <1>1. Entry' \in [Deposit -> Ledger!Entries]
    BY <1>0 DEF TypeOK, Entry, Ledger!Entries
  <1>2. \A d \in Deposit : Ledger!Moves(d)
    BY LedgerMove
  <1>3. pool \cup mined \subseteq (pool \cup mined)' /\ (pool \cup mined)' \subseteq Deposit
    BY <1>0 DEF JobChange, TypeOK
  <1>4. rejected \subseteq rejected' /\ rejected' \subseteq (pool \cup mined)'
    BY <1>0 DEF JobChange, TypeOK
  <1>5. QED
    BY <1>1, <1>2, <1>3, <1>4 DEF Ledger!Next

\* The ledger starts empty.
LEMMA LedgerInit == Init => Ledger!Init
  <1> SUFFICES ASSUME Init PROVE Ledger!Init
    OBVIOUS
  <1>1. \A d \in Deposit : ~InHands(d)
    BY DEF Init, InHands, At, NoJob
  <1>2. QED
    BY <1>1 DEF Init, Ledger!Init, Entry

(***************************************************************************)
(* The two tables and their racing goroutines implement DepositLedger.     *)
(***************************************************************************)
THEOREM TablesImplementLedger == Spec => ImplementsDepositLedger
  <1>1. Init => Ledger!Init
    BY LedgerInit
  <1>2. SucceedInv /\ [Next]_vars => [Ledger!Next]_<<Entry, pool \cup mined, rejected>>
    BY LedgerStep
  <1>3. QED
    BY SucceedInit, SucceedStep, <1>1, <1>2, PTL DEF Spec, ImplementsDepositLedger, Ledger!Spec
=============================================================================
