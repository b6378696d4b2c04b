# A verification of the cross-chain arbiter

This directory holds TLA+ models of Elastos.ELA.Arbiter (`src/`), the TLC
configurations that check them on small instances, and proofs of their main
invariants that TLAPS checks for every value of the constants.

An arbiter is one of a group of processes that carry assets between the main
chain and its side chains. A deposit is seen on the main chain by SPV and sent
to the side chain; a withdraw is scanned on the side chain, made into a main
chain transaction by the arbiter on duty, signed by a two-thirds quorum of the
group and sent to the main chain. Each process keeps its work in SQLite tables
and goes on with it whenever it comes on duty.

## Inventory

| Component | State it keeps | Operations | Interacts with | What is hard | What makes it correct |
|---|---|---|---|---|---|
| Arbiter group (`arbitratorgroup.go`, `jsonrpc.go`) | list of keys, on-duty index, height, on-duty flag | `SyncFromMainNode`, `CheckOnDutyStatus` | main chain node; calls `OnDutyArbitratorChanged` | list and height installed separately; a failed call falls back to height 0 | readers see a list that was valid; duty changes are noticed once |
| Signature collection (`distributednodeserver.go`, `distributednodeclient.go`, `distributeditem.go`, `txdistributedcontent.go`) | `unsolvedContents`, `unsolvedContentsSignature`, the transaction being signed | broadcast, answer, merge, `Submit`, `Reset` | peers over P2P; the group; the withdraw tables | answers late, twice, or after the list changed; `Reset` from another goroutine, without the lock | submitted once, with distinct signers of the script, enough of them |
| Deposit tables and sender (`depositlistener.go`, `arbitrator.go`, `mainchainImpl.go`) | `MainChainTxs` in one database, `DepositTransactions` in another; SPV receipts; the on-duty flag | notify, send, check and remove | SPV service, side chain node, other arbiters, submitted returns | four goroutines race without a common lock; a crash between the databases; a call that fails after it took effect | nothing is lost, the verdict is right and final |
| Withdraw tables (`sidechainimpl.go`, `sidechainmanager.go`, `txdistributedcontent.go`) | `SideChainTxs` per side chain, `WithdrawTransactions` | scan adds, on-duty goroutine proposes, `Submit` and check loop remove | side chain scan, collection, main chain node | as above; only the head of the table is looked at | every withdraw is paid once and recorded |
| Side chain scan (`sidechainaccountmoniter.go`) | cursor per side chain, stored every thousand blocks | one round per interval | side chain node, all side tables | four calls per height, each may fail; restart from a stored cursor | no height is skipped |
| Invalid withdraws (`invalidwithdrawlistener.go`) | none of its own | round every five seconds | side chain, `SideChainTxs` | races with the sender and the scan | invalid withdraws leave the table |
| Proposals and their checks (`sidechainimpl.go`, `mainchainImpl.go`, `arbitrator.go`, `txdistributedcontent.go`) | the tables of withdraws and of failed deposits; a node per arbiter | choose rows, build a transaction, check one, settle it | collection, main chain, side chain node | the same amounts computed twice from different sources; heights that differ; coins shared by two kinds of transaction | peers agree to what is right and to no more; the bank's books balance |
| NFT destroy (`sidechainimpl.go`, `txdistributedcontent.go`) | `NFTDestroyTxs` | as withdraws, towards a side chain | collection | no finished table | as withdraws |
| Schnorr collection (`distributednodeserver.go`, `txschnorrrequest*content.go`, `schnorr.go`) | three more content maps, `UnsignedSigners` | two rounds: commitments (R), then signatures (S) of chosen signers | peers, group, a message of the timer to itself | the group changes between two reads of it; `Reset` without `mux`; a return that keeps `mux` | one aggregate signature, of the keys and commitments that were announced, submitted once |
| Side chain registration (`sidechainmanager.go`, `mainchainImpl.go`, `config.go`) | two register tables, a database per chain, the list of stores, the map of chains, listeners, the list of side nodes, the configuration file | a call of an operator; the table filled by each sync | scan, group, start of the process | eight places written one after the other, no lock, any number of calls at once; a death in between | scanned once, and still registered after a restart |
| Side chain mining (`auxpowlistener.go`, `sideauxpow/`) | two heights per side chain | mining on duty, submission on notification | SPV, both chains | heights in memory only | no block is mined twice |
| Small transfers (`smalltransferlistener.go`) | hashes done, in memory | round every few seconds | main and side chain nodes | lost on restart | sent once while running |
| P2P adapter (`p2pclientadapter.go`) | queue, peers | one consumer goroutine | all collections | handlers run one at a time but next to other goroutines | |
| Stores (`datastore.go`, `finishedtxstore.go`) | the tables | add, remove, list; a lock each | everything | two stores are two databases | unique keys |
| RPC server, RPC client, config, log, password, complaints | – | I/O | – | – | – |

## Modules

* `SignCollection` – the collection of one arbiter (`Self`) with its goroutines.
  The sync loop is `SyncList`, `SyncHeight`, `CheckOnDutyStatus`, `ResetContents`,
  `ResetSigns`; a sending goroutine is `CreateRedeemScript`, `CreateTransaction`,
  `InitScript`, `BroadcastWithdrawProposal`; the P2P consumer is `LookupContent`,
  `MergeSign`, `RecordSigner`, `CountArbiters`, `CheckAgreement`, `Submit`: one
  action for each stretch of code between two reads or writes of shared memory
  that another goroutine can see. `None` in `onDuty` of a list stands for the
  empty key; an empty list, or an index outside it, where the code changes
  nothing, is a step not taken. Peers are the action `OnReceivedProposal`.
* `SignCollectionInv` – its inductive invariants and the refinement mapping.
* `QuorumSubmit` – what the collection promises: open, sign once each, send once
  with a quorum.
* `DepositCache` – the deposits of one side chain. `pending` is what the SPV service
  has no receipt for, `cache` the table `MainChainTxs`, `finished` the `Succeed`
  column of `DepositTransactions`, `pool` and `mined` what the side chain has, and
  `job` what each goroutine is doing: the listener, the check loop and any number of
  on-duty goroutines. Each database statement is an action of its own.
  `SubmitReturnSideChainDepositCoin` is the P2P consumer, which removes the rows of the deposits
  a return names, in one statement and without a verdict; those it may name are `rejected`, on
  the side chain but not credited (the answer that a deposit exists covers these too). The tables
  are keyed by transaction and side chain, so the side chains are independent. `lost` and
  `returned` are history: deposits a crash took between two databases, and deposits whose row
  went with their return; one that is notified and cached again is in neither.
* `DepositLedger` – what the tables promise: a deposit is opened, and closed with one
  final verdict, unless a crash loses it or it is returned because the side chain refused it.
* `SideTable` – operators on the table `SideChainTxs`: a function from withdraws to
  row Ids. The order of the Ids is what `SELECT` returns rows in, and so decides which
  withdraws a duty looks at.
* `SideScan` – `SyncChainData` of one side chain. `cur`, `goal` and `count` are
  `currentHeight`, `chainHeight` and `count`; `stored` is the row of `SideHeightInfo`;
  `pc` says which of the four calls of a height comes next. Each call is an action with
  all that is done with its answer (`GetWithdrawTransactionByHeight`,
  `GetIllegalEvidenceByHeight` with the move to the next height,
  `GetFailedDepositTransactions`, `GetNFTDestroyTransactionByHeight`), and an action
  for its failure, which ends the round, or not, at a place of its own. `RecordWithdraws`
  also covers inserts that fail, one or all. The side chain (`Grow`, `Reorganise`) is
  external: `at` is the block of an event, 0 while it is in none. `found`, `missed` and
  `late` are history: what was entered, what a fault passed over, what a branch put
  into a block scanned before.
* `WithdrawFlow` – the withdraws of one side chain from the row to the verdict. `row` is
  `SideChainTxs`, `finished` the withdraws `WithdrawTransactions` records as succeeded;
  `sender`, `checker` and `monitor` are the goroutines of `SendCachedWithdrawTxs`, of the
  check loop and of `MonitorInvalidWithdrawTransaction`: what each asked about, what it was
  answered, where it is. The signature collection is the step from a member of
  `proposals` to a `Submit` action, which `Reset` (in `OnDuty`) can take away. A
  submission touches no row: from `NewCrossChainTransactionHeight` on (`era` "V1") the list
  of hashes in the payload is empty, and before it the handler panics while it looks for a
  side chain in outputs that name none (`SubmitPanics`). Rows leave by the check loop and
  the next duty alone. `pool` and `onMain` are the main chain's. `entered`, `failedSend` and
  `torn` are history.
* `WithdrawLedger` – what these tables promise: a book that was opened is closed only when
  the withdraw is settled, only settled withdraws are recorded, and what is recorded stays.
* `SideToMain` – `SideScan` and `WithdrawFlow` on one table, in one process that dies as
  one, by a kill or by a panic of the flow, with the other arbiters bound by the same
  delay. `Enter` of the flow gives way to the scan's steps.
* `ProposalCheck` – what is in the transactions. `SendCachedWithdrawTxs` and
  `SendCachedReturnDepositTxs` choose rows, take coins of the bank and build the outputs of
  a withdraw (`form` "V0", "V1" or, for Schnorr, "V2", by the height of the builder) or of a
  return. `Agrees` is the check of a peer, with its own rows (`peerRows`), its own side chain
  node (`peerNode`) and its own height (`eras`); one peer stands for the quorum.
  `SubmitTaken`, `SubmitRefused`, `SubmitDoubleSpend` and `SubmitPanics` are the answers of
  the main chain, or its silence, with what the handler does about them. `OtherArbiterPays` and
  `OtherArbiterReturns` spend the same coins. Amounts are small numbers, the exchange rate a
  whole one that divides with the fraction cut off; `listSent` says whether the version of
  the payload has its list written on the wire. The outputs of a transaction are a function
  from the assets, or the rows of failed deposits, they pay, and rows are a set: the tables give
  them in the order of their Ids, which the model does not keep, so that any prefix of any order
  may be proposed. `ReturnDepositTransactions` has no unique key, so its rows are pairs: `<<d, n>>`
  is the `n`-th row of `d`. A return has an output for each row; rows are compared with the main
  chain, and removed, by hash (`Unreturned`). Whether the main chain takes a transaction that names
  a deposit twice is left open: `SubmitTaken` and `SubmitRefused` are both possible. `unseen` is history: the deposits in returns whose check was cut short. Sending
  cached rows is one step here, as its interleavings are those of `WithdrawFlow`.
* `Registration` – side chains registered while the arbiter runs. On the disk: `pending` and
  `finished` (the two register tables), `database` (the chains that have one) and `file` (the
  configuration). In memory: `list` (the side nodes of the configuration), `stores`, `chains`,
  and for the goroutines of the scan `started` (has not looked for its store yet) and
  `scans`. A call of an operator is at `pc`, about the chain `of`, and has `seen` a list it
  is to append to: an append is a read and a write, two actions. `OpenFile` empties the file
  and `WriteFile` fills it. `Restart` is the start of the process from the file. `raced` and
  `cut` are history: registrations another call overlapped, and those a death cut short.
* `SchnorrCollection` – the server side of the Schnorr collection of `Self`. The sending
  goroutine is `FileTransaction` and `RecordOwnR`; the handlers of the P2P consumer are
  `ReceiveR`, the steps `ChooseSigners`, `ComposeCall`, `AnnounceCall`, `CountUnsigned` of
  the timer's message (one for each read of the list or write of the maps), and `ReceiveS`
  with `Aggregate`. `handler` is where the consumer is while it holds `mux`; `mux` itself
  only remembers a handler that returned without releasing it. `filed` and `registered` are
  the two kinds of hash in `schnorrWithdrawContentsTransaction`, `rs`, `ss` and `unsigned` the
  other maps, `called` the announced keys with the R behind the challenge. Everything
  cryptographic is a name: an R is a number new with each draw, an S its signer, a
  challenge or an aggregate signature the function from its keys to the R it was made of,
  so that a signature verifies when it equals the challenge. `moved` is history: the list
  changed its members while a transaction was in hand. The stored height is left out of
  `SyncList`, so that after height 0 any other may follow: more behaviours than the code.
* `SignCollectionProofs`, `DepositCacheProofs`, `WithdrawFlowProofs` (with `SideToMain`),
  `SideScanProofs`, `SchnorrProofs`, `ProposalCheckProofs`, `RegistrationProofs` – the theorems
  and lemmas of each component. `FiniteLemmas` – what several of them use of tables and of sums.
* `MCSignCollection`, `MCDepositCache`, `MCSideScan`, `MCWithdrawFlow`, `MCSideToMain`,
  `MCSchnorrCollection`, `MCProposalCheck`, `MCRegistration` – the instances TLC checks.

## Runs

| Run | Instance | What it shows |
|---|---|---|
| `sign_stable` | four arbiters (threshold 3), one list at every height, duty rotating, a crash, fair goroutines and peers | types; a submitted transaction is spendable; refinement of `QuorumSubmit`; no content stays in the map for ever |
| `sign_churn` | two transactions, three heights with three lists and two threshold rules, duplicated answers | submitted once, no repeated signer, signers of the script only |
| `sign_repeated` | two transactions of one hash | violated: a signer counted twice is not noticed |
| `deposit_live` | one deposit, all goroutines, all answers, credited or not, returns submitted at any moment, a crash, fair goroutines | nothing slips out of the tables but with a return or by a crash; succeeded means on the side chain; a mined deposit gets its verdict, with the same exceptions; refinement of `DepositLedger` |
| `deposit_processed` | one deposit, no call lost | violated: a duplicate is recorded as failed |
| `scan_safe` | one event of each kind, a chain of five blocks scanned from its second, delay 3, a fault, a crash, a reorganisation, a removal | what is recorded is final; the stored height never runs ahead of the tables, but where a height's failed deposits and NFTs are asked for once only; returns are entered twice only by a crash or a branch |
| `withdraw_safe` | one withdraw that can be paid, one that cannot and may stand before it, both eras, all goroutines, two faults, a crash | no withdraw is forgotten, no verdict is unfounded; refinement of `WithdrawLedger`; the payable one leaves the table |
| `withdraw_failed` | one payable withdraw, a frozen one, a fault | violated: a failed `sendrawtransaction` moves nothing to the finished table |
| `path_live` | one withdraw, a chain of three blocks, delay 2, a fault, a crash, a reorganisation | what is paid is final on the side chain; what the scan is done with keeps its row until it is settled, and what is final is paid, unless its insert failed; what the main chain has while its row is there gets its verdict |
| `schnorr_collect` | two transactions, two lists that share one peer, answers that repeat, resets and restarts at any moment | what is submitted verifies, once; `mux` is released; a call of two keys or more is submitted |
| `proposal_check` | two burns and a failed deposit with up to two rows in three worlds with both rates, a builder and a checker, two coins, other arbiters | which withdraws and returns the checker agrees to, exactly; the bank pays what was burnt once, what was deposited in vain once for each row of its return, and keeps the rest |
| `registration` | two chains registered by two calls at once beside a configured one, a death at any step, fair goroutines | a chain is scanned by one goroutine; a registration nothing disturbed stays in the file; a chain with a database is scanned in the end |

### Bounds and why they are enough

Four arbiters is the least number whose quorum (three) leaves one out, so that an
answer after the threshold exists; with three all must sign. Two transactions let one
be collected while another one of the same or another hash is created; each has its
own maps' entries otherwise. Three heights give a list, its successor and one more, so
that code, script and current list can be three different ones. One on-duty goroutine, the listener,
the check loop and the P2P consumer make four that race about the
deposit; batches in which answers differ, and returns of several deposits, are left to the
theorems of `DepositCacheProofs`, which hold for any set of deposits. One crash is enough as
everything but the stores starts afresh.

The delay of a withdraw (`Depth`, six in the code) is 3 in `scan_safe`, so that branches
of one and of two blocks exist, and 2 in `path_live`. `Interval`, 1000 in the code, is
2: a round of the instance stores a height in its middle, and not at every block. Five
blocks let the withdraw of block 1 be found, the chain switch and grow on; three are
enough with a delay of two. `SyncStartHeight` 2 leaves blocks out. One event of
each kind suffices, because the tables of the kinds are apart and rows of one kind
share only the order of their Ids, of which no property of the scan speaks. In
`WithdrawFlow` two withdraws with one per transaction (`MaxCarried`, which stands for the
chunking by transaction size: as many as fit) make two proposals, and `Batch` 2
(`MaxTxsPerWithdrawTx`) with an unpayable withdraw is the smallest table whose head a
withdraw that never leaves can share; `withdraw_safe` shows that a payable one leaves
while the others are fewer than the batch, and would not with a head of one. `MaxId`
bounds how often a withdraw is entered again.

In `schnorr_collect` two transactions make a peer's count cover two calls at once. Self
leaves one of the two lists and a peer the other: a call can name a key that is gone when
the unsigned are counted, and can be composed without Self; an empty seat makes the lists
differ in how many must sign, and yet agree on calls of two. `Draws` 2 gives a peer's second
answer an R of its own. Restarts and resets have no bound.

In `proposal_check` the three worlds have, between them: a burn of one asset, of two, of two
of which one is to a frozen address, one with too small a fee, and one of which the rate cuts
off a fraction; a deposit that also went to another side chain, one that the rate divides, and
one whose payload does not list all it sent; exchange rates 1 and 2; payloads written with and
without their list. `MaxScans` 2 gives a deposit the second row that is returned with the first,
in one transaction or, were it not for the main chain, in two. Two
coins of 5 cover some totals with one coin, some with both, with change or without, and not
everything at once: withdraw and return compete for them. `MaxOuts` 3
lets two burns of one asset into one transaction. `Step`, 100 in the code, is 1, so that a
proposal is tried for every number of rows. `MaxLag` 1 makes builder and checker differ by
one change of the rules.

In `registration` two calls can be about one chain or about two; an operator can also name
the configured chain once it is in the table, and is refused. One death falls between any
two steps of any call; the theorems of `RegistrationProofs` hold for any number.

Bounds in guards: `MaxHeight`, `MaxCrashes`, `MaxFaults`, `MaxReorgs`, `MaxTaken`,
`MaxId`, `Draws`, `MaxLag`, `MaxScans`.

`CHECK_DEADLOCK` is off: the bounded models end when the last block is seen and all
messages are delivered, all deposits are decided, or the process is down with a
configuration file it cannot read. In the code a lasting `mux` is such an
end; `MuxReleased` says when it cannot come.

### Fairness

`SignCollection!Fairness`: the goroutines run (`WF`); every peer asked gets the message
and answers. A run under this assumption asks whether the server can be stuck although
the peers do their part. `DepositCache!Fairness`: the goroutines run, the SPV service
repeats what it has no receipt for, and the side chain answers the check loop
again and again (`SF` of `GetExistDepositTransactions(Checker)`), since the loop
asks every `ClearTransactionInterval`. New blocks, crashes, other arbiters and the side
chain's mining are not fair.

`WithdrawFlow!FlowFairness`: the arbiter comes on duty again and again, as the group
rotates (`OnDuty`); its sender and its check loop go on once started (`SenderStep`,
`CheckGoesOn`); the height of the new rules comes (`NewEra`); the main chain mines its pool
(all `WF`). A proposal is
submitted under `SF`: `Reset` at the start of each duty takes the proposals away, so the
step is enabled again and again but not for ever, and a withdraw is paid only if some
proposal gathers its signatures within one duty. The start of the check loop for this
side chain (`CheckRows`) has no fairness, because
`CheckAndRemoveWithdrawTransactionsFromDB` returns at the first side chain with an empty
table (`sidechainmanager.go:130`): the liveness shown does not need it. The monitor,
the other arbiters, faults and crashes are not fair. `SideToMain!PathFairness` adds that
the side chain grows to its bound, that the node gets ready and that the scan goes on.

`SchnorrCollection!Fairness`: the consumer finishes what it handles (`WF` of `Handle`), and as
long as some awaited S can arrive, some does (`WF` of `AnswerS`): a run asks again whether the
server can be stuck though the peers do their part. The sending goroutines, the R and the
timers need no fairness, because the property starts at the call.

`Registration!RegistrationFairness`: each call goes on, a goroutine that was started looks
for its store, and somebody starts a process that is down (`WF`). Operators and the main
chain owe nothing. `ProposalCheck` has safety properties only and no fairness.

## Proofs

`SignCollectionProofs` proves for any sets of arbiters and transactions, any lists,
duplication and crashes:

* `TypeCorrect`, from `TypeInv` (a list is known while the sync goroutine is inside
  its round).
* `SubmitsOnce`, from `OnceInv`. "Submitted at most once" is not inductive: it needs
  that what is in the map or held by the consumer was broadcast and not submitted
  yet, and that an agreed content is out of the map before `Submit`.
* `SubmitsDistinctSigners`, from `DistinctInv`: the signer set covers the parameter, but
  for the signer merged and not recorded yet; when `Reset` has taken the set away, a
  signer may be merged again, but then recording him panics before anything is sent.
* `MergesCodeKeysOnly`, from `CodeInv`.
* `SpendInvHolds`, and from it `SubmitsSpendable` and `CollectionImplementsQuorumSubmit`, under the assumption
  `StableGroups`: one list, one threshold, at most 64 signatures. Without it the
  threshold of one height is applied to the script of another; the assumption is
  therefore part of the statement, as is that it matters (`SignedCount` divides by 64).

`DepositCacheProofs` proves for any finite set of deposits, any number of on-duty
goroutines and any crashes:

* `TypeCorrect`.
* `AccountedInvHolds`, and from it `DepositsAccounted`: receipts owed are safe from the moment the
  batch is cached. Its core is `StepMoves`: every step leaves tables and hands alone,
  or takes a batch into hand, or writes the verdict on a batch in hand, or drops rows with a
  return (`Drops`), or crashes.
* `SucceedInvHolds`, and from it `SucceededOnSide`: what a goroutine holds as succeeded is on the side
  chain already.
* `TablesImplementLedger`: the refinement, from both. A return may meet a deposit in another
  goroutine's hands; it then stays open until that goroutine records or drops it.

`FiniteLemmas` has the lemmas about the table for finitely many withdraws and any Ids:
there is a largest Id (by well-foundedness of the strict subsets of a finite set), the
next Id is new, an insert adds exactly the rows it is given, a removal takes them away.
It also has the lemmas about `SumFunctionOnSet` of the community modules: what a sum over a
finite set is of an empty set, of one more element, of two sets that share nothing; that it is
monotone and, if two sums are equal and one is below the other everywhere, that the summands
are; that only the summands count and not where they stand. The operator is defined by a
recursive fold over chosen elements. An induction theorem would take the claim as an operator,
which the provers cannot instantiate, so the induction is made inside the proofs: a function
on the subsets that adds up right in one order (`Additive`) exists and agrees with the fold,
because a smallest subset where it did not (`SmallestOf`) could be made smaller.

`WithdrawFlowProofs` proves for any finite set of withdraws, any batch size, any number of
faults and crashes:

* `TypeCorrect`.
* `WithdrawsKept`, `VerdictsHold` and `BooksImplementLedger`, from one invariant:
  `InHand` says that what a goroutine is about to remove or to record was settled, in the
  way its verdict says, when it was answered; settling is for ever, so it may come as late
  as it likes. `StepKinds` sorts every step by what it does to the books (opens, settles,
  closes, records, or none), from which each theorem follows without looking at single
  actions again.

`SideScanProofs` proves for any finite sets of events, any delay, interval and start
height, and any number of faults, crashes and branches of fewer than `Depth` blocks:

* `TypeCorrect`.
* `RecordedStays`, `WithdrawsCovered`, `EvidenceCovered`, `PassedOverByFaults`, from
  `ScanInv`. What the tables cover up to the stored height is not inductive: it needs the
  same for the height the round got to (`Cover`), since that is what will be stored, and
  that neither height is ahead of the side chain but for `SyncStartHeight` (`Control`),
  since new blocks and branches must not put an event behind them unnoticed (`Shifted` is
  what the two have in common). `Cover` has an exception for the height just reached while
  its failed deposits or NFTs are still to be asked for; `CrashKeeps` shows that a crash
  there either passes them over by the recorded fault or has them scanned again.
* `ReturnsBounded`: a failed deposit has one row, and one more for each crash and each branch
  at the most. The count alone is not inductive: the one row that needs neither is there only
  when the scan has `Passed` the block of the deposit (`EnteredWhenPassed`), which it undoes
  only by a crash or a branch.

`WithdrawFlowProofs` also proves `PaidStaysFinal` of the composition, for any withdraws, any delay, any
failing calls and deaths: what the main chain has paid, or is asked to pay, no branch of
fewer than `Depth` blocks takes back. `PathInv` says that every withdraw with a row, in a
goroutine's hands, in a proposal, in the pool or in a block is `Depth` deep on the side chain,
and that the scan does not look past the tip it saw when its round began (`Behind`).

Two more theorems carry what was proved of the parts over to the whole:

* `PathImplementsLedger`: the scan enters rows in sets, and may lose some to failing
  inserts, but its steps are of the same kinds as those of the flow (`PathKinds`), so the
  argument of `BooksImplementLedger` holds for the composition as it stands.
* `NothingIsLost`: a withdraw the scan is done with keeps its row until it is settled, unless
  its insert failed. It joins the books' `WithdrawsAccounted` with `CoverInv`, which says what
  was entered in terms of the stored height and of the height of the round under way, and
  that neither is past the side chain; blocks that come, or change, are above both
  (`ChainKeepsCover`). `SideScan!NoWithdrawSkipped` is not used: it is about a table nobody
  else writes to but by `TakeOut`.

`SchnorrProofs` proves for any finite sets of arbiters and transactions, any lists and
thresholds, and any resets and restarts:

* `SchnorrTypeCorrect`: among the types, that no count of `UnsignedSigners`, unsigned in the
  code, is taken below zero.
* `SubmittedSignatureVerifies` and `SubmittedOnlyOnce`. `CallsOnce` says that a transaction is
  neither registered nor sent before the handler of its timer announces it, and that this
  timer fires once; `CallsFromRecords` that the R a call was made of stay recorded while the
  maps hold the transaction, which is what `SubmittedVerifies` lacks; `SentInv` that the S
  recorded are those of the keys called, that they are complete when they are aggregated, and
  that a transaction that was sent has no answer left to complete it again.
* `MuxIsReleased`, from `CountsCover`: unless the list moved, the count of a peer is at least
  the number of calls that still await its answer. `CoveredOneMore` and `CoveredOneLess` are
  the two steps that change both sides.

`RegistrationProofs` proves for any chains, any number of calls at a time and any deaths:

* `TypesHold`: among the types, that a call runs only for a chain and only while the process
  does.
* `ChainScannedOnce`, from `OneCall`: of all calls that name a chain one alone is past the
  creation of its database, nothing scans the chain while that call has not started the scan,
  and nothing does while there is no database. It is the second insert of the height that
  keeps the second call out.
* `RegistrationsKept`, from `KeptInv`: a registration nothing hurt is in `list` while the process
  runs, or its call is still on its way, and every list that was read and not written yet names
  the chain (`Spares`); files and lists name chains with a database only (`Known`).

`ProposalCheckProofs` proves for any finite sets of burns and deposits, any assets and outputs
in them, any whole exchange rate, any coins, and any order of the steps:

* `ProposalsBuilt`, the invariant `IInv`. None of the three properties is inductive: a proposal
  outlives the rows it was made of and the era of its builder, so `BuildInv` says of each what
  remains, namely which burns it pays (`WithdrawOf`) or which rows it returns (`ReturnOf`),
  with which outputs, and that its coins are its total and its change. `EnteredInv` says that the
  scan entered every row but those other arbiters return. `SignedInv` says of what
  is signed, and of what is on the main chain, that each return was either cut short in its check or
  takes and pays what the check computed (`Sound`). `BooksInv` are the books with the amounts
  of the builder in place of those of the checker.
* `WithdrawsAgreedExactly`. `AmountsAgreeIff` shows that the checker's sums over what it found
  agree with the outputs exactly if no fraction is cut off, wherever the assets stand.
  `RowsAnswerIff` and `OwedAgrees` show that it finds the assets of the rows only if each burn
  has one payable asset: the hashes outnumber the rows otherwise, and what the node says, asked
  once for each hash, outnumbers the outputs. Both are countings: a surjection of finite sets
  of one size is a bijection.
* `ReturnsAgreedExactly`. At a rate other than 1 a value without its fee is smaller than the
  check wants it, since no deposit is taken whose amount the fee eats up.
* `BooksAlwaysBalance`, from `BooksInv`, `Sound` and `EnteredInv`. `CoinsMove` follows the coins
  through a transaction, `WithdrawTaken` and `ReturnTaken` the sums of what is paid. That no
  deposit is in two transactions is the main chain's doing; that one is in a transaction no more
  often than it was entered is counted from the rows.

Assumed of the constants: what the `ASSUME` of each module says
(`ConstantsAssumption`, `FlowAssumption`, `ScanAssumption`, `PathAssumption`,
`SchnorrAssumption`, `RegistrationAssumption`, `CheckAssumption`).

Only model-checked: liveness, which is out of the prover's reach (`ContentsResolved`,
`RecordedEventually`, `RowsLeave`, `PaidGetsVerdict`, `FinalIsPaid`, `CalledIsSubmitted`,
`CreatedIsServed`). Every invariant and every step property that a passing run checks is also a theorem.

## Findings

* `sign_repeated`: the check in `MergeSignToTransaction` cannot recognise a signer,
  because it verifies against other bytes than were signed.
* `deposit_processed`: the branch for duplicates in `SendDepositTransactions` is
  shadowed by the failure branch before it.
* `withdraw_failed`: the log statement for a failed `sendrawtransaction`
  (`txdistributedcontent.go:97`) reads the code of an error object the response does not
  have, and panics; the withdraws it announces as moved to the finished table are not.

## Observations

What the models show beside the findings. No text of the repository says otherwise, so they
are not violations, but a maintainer should know them.

* A burn with two payable assets puts its hash into two outputs. The rows never answer for two
  hashes with one row, and the node is asked twice: every peer counts the amounts twice and
  refuses, and so refuses everything else in the transaction, at each duty (`WithdrawAgreedIff`).
* Rows and node disagree about frozen and malformed addresses: the scan leaves them out, the
  node reports them. A burn the scan cut down is agreed to only while the checker has the rows
  of all burns of the transaction.
* Builder and checker choose rules by their own heights: around a change of the rules the
  proposals of an arbiter that is ahead or behind are refused, and proposed again at the next duty.
* A return is agreed to only at exchange rate 1: the builder divides, the checker does not
  (`ReturnAgreedIff`). The same if a deposit sent the bank an output its payload does not list.
* The fractions are cut off of each amount by itself, and of an address's sum by the check: at
  a rate other than 1 a withdraw whose amounts leave a fraction is refused by every peer, at each
  duty, with all it is carried with (`NoFraction`).
* A failed deposit the scan entered twice, after a crash or on another branch, is returned with
  two outputs in one transaction: the rows are not made unique when they are read
  (`GetAllReturnDepositTx`), nor when the transaction is built, and a checker looks at each output
  by itself. Its depositor gets the deposit twice unless the main chain refuses (`BooksBalance`).
* The submission of a return removes the deposits from `MainChainTxs` and records no verdict
  (`txdistributedcontent.go:230`, `:244`), although its log says they move to the finished
  database. A deposit the check loop had not seen yet then never gets a verdict. A call
  that fails panics here as it does for withdraws, at `:222`.
* The loop over the outputs of a return ends with `break` at a call that fails, and accepts the
  outputs that are left unseen (`CheckCutShort`).
* Withdraws and returns of one duty take their coins from the same list; the second to arrive is
  refused as a double spend.
* The list of hashes in a withdraw payload is empty from V1 on, so that the removals after a
  submission remove nothing; a V0 payload has the version of V1, and the handler panics.
* `SyncChainData` of the main chain returns height 0 when a call fails, and the group of height 0
  is then in force until the next sync; an answer recorded in the map `Reset` has replaced
  panics (both in `SignCollection`).
* A registration that is cut short between its database and the configuration file can never
  be made again, because its database exists. A death while the file is written leaves a text
  the arbiter does not start with. Two calls that overlap can lose a registration or garble the
  file. Finished registrations come back into the pending table with each new one of the
  main chain (`registration`).

## Not modelled

* The NFT flow beyond its entry by the scan: the proposals, checks and submission of NFT
  destructions. They go to a side chain whose contract decides, and there is no finished table.
* Illegal evidence beyond its scan: a collection in one round whose answers are not recorded
  and on which no table waits.
* Side chain mining and small transfers: what they remember is two heights, or a set of hashes,
  in memory, shared with nothing; the rest is the building and signing of one transaction.
* The queries of the JSON-RPC server, which read only; complaints, for which `GetComplainSolving`
  returns nil; logs and passwords.
* `LoadRegisterSideChain` and `AddFailedRegisterTxs`, which are called from nowhere.
* The rate limit of the group's sync (`arbitratorgroup.go:78`), a product that wraps: in the
  models a sync may be skipped at any time.
* SQLite statements that fail (but for the inserts of the scan), hash collisions, the
  cryptography, the text of messages and logs, concurrent map writes (the Go runtime aborts:
  a crash, which the models allow).
* Of the scan: the start of side chain mining at the end of a round, and events
  `processTransactions` cannot read.

Side chains have tables of their own and are modelled one at a time; what they share, the check
loop's early return, is the missing fairness above. Components without a module are listed
in `PROJECT.json` with the reason.

## Plan

Done and proved: `SignCollection`, `DepositCache`, `SideTable` with `WithdrawFlow` and
`WithdrawLedger`, `SideScan`, `SideToMain`, `SchnorrCollection`, `ProposalCheck`, `Registration`.

Left, in this order:

1. The composition of `SignCollection` with `WithdrawFlow` in place of `proposals`: that the
   collection of a duty and the rows of the next one meet only in what the main chain has.
2. The NFT flow, as another flow on `SideTable`, with its checks in `ProposalCheck`.
3. The contents for illegal evidence, as a third kind of content of `SignCollection`.
4. Mining: two heights per side chain against the notifications of both chains.
