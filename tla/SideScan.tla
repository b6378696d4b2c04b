------------------------------- MODULE SideScan -------------------------------
(***************************************************************************)
(* The scan of one side chain: SideChainAccountMonitorImpl.SyncChainData.  *)
(*                                                                         *)
(* A goroutine per side chain walks its heights one at a time.  At height  *)
(* h it asks for the withdraws of the block that lies Depth blocks under   *)
(* h + 1, for the illegal evidence of block h + 1, then moves on to h + 1  *)
(* and asks for the failed deposits of that block and for the destroyed    *)
(* NFTs.  What it finds goes into tables that survive a restart, and so    *)
(* does the height it got to, but that only at the end of a round and      *)
(* every Interval blocks.  A call that fails has a different effect at     *)
(* each of the four places: it ends the round before the height is moved   *)
(* (withdraws, evidence), it goes on with the next height (failed          *)
(* deposits), or it ends the round after the height was moved (NFTs).      *)
(*                                                                         *)
(* The side chain is external: it grows, and may replace fewer than Depth  *)
(* of its last blocks by a longer branch.  So are the goroutines that take *)
(* withdraws out of the table.  A withdraw here is one processTransactions *)
(* can read, with at least one asset to an address that is not frozen; a   *)
(* failed deposit and an NFT are well formed.                              *)
(***************************************************************************)
EXTENDS Naturals, FiniteSets, SideTable

CONSTANTS
  Withdraw,               \* withdraws of the side chain
  FailedDeposit,          \* deposits the side chain could not credit
  NFT,                    \* NFTs destroyed on the side chain
  Evidence,               \* illegal evidence in side chain blocks
  Depth,                  \* how deep a withdraw has to be; 6 in the code
  Interval,               \* sideChainHeightInterval; 1000 in the code
  SyncStartHeight,        \* SideNodeConfig.SyncStartHeight
  SupportInvalidDeposit,  \* SideNodeConfig.SupportInvalidDeposit
  SupportNFT,             \* SideNodeConfig.SupportNFT
  MaxHeight,              \* bound: length of the side chain
  MaxFaults,              \* bound: how many calls fail
  MaxCrashes,             \* bound: how often the process is killed
  MaxReorgs,              \* bound: how often blocks are replaced
  MaxTaken                \* bound: how often a withdraw is taken out of the table

Event == Withdraw \cup FailedDeposit \cup NFT \cup Evidence

ASSUME ScanAssumption ==
  /\ IsFiniteSet(Event)
  /\ Withdraw \cap (FailedDeposit \cup NFT \cup Evidence) = {}
  /\ FailedDeposit \cap (NFT \cup Evidence) = {} /\ NFT \cap Evidence = {}
  /\ Depth \in Nat \ {0}
  /\ Interval \in Nat \ {0}
  /\ SyncStartHeight \in Nat
  /\ SupportInvalidDeposit \in BOOLEAN /\ SupportNFT \in BOOLEAN
  /\ MaxHeight \in Nat /\ MaxFaults \in Nat /\ MaxCrashes \in Nat
  /\ MaxReorgs \in Nat /\ MaxTaken \in Nat

VARIABLES
  tip,      \* height of the side chain
  at,       \* the block of an event; 0 while it is in none
  ready,    \* Initialized, and the main chain is past effectiveHeight
  pc,       \* what SyncChainData does next
  cur,      \* currentHeight
  goal,     \* chainHeight
  count,    \* count
  stored,   \* the Height of SideHeightInfo
  row,      \* SideChainTxs
  returns,  \* ReturnDepositTransactions: the number of rows of a deposit
  nftRows,  \* NFTDestroyTxs
  told,     \* evidence handed to OnIllegalEvidenceFound
  found,    \* history: events that were entered into a table
  missed,   \* history: events a failed call, a failed insert or a crash passed over
  late,     \* history: events a reorganisation put into a block scanned before
  faults, crashes, reorgs, taken  \* how often each bounded event happened

side   == <<tip, at>>
loop   == <<pc, cur, goal, count>>
tables == <<row, returns, nftRows, told>>
past   == <<found, missed, late>>
limits == <<faults, crashes, reorgs, taken>>
scanVars == <<side, ready, loop, stored, tables, past, limits>>

PCs == {"sleep", "withdraw", "evidence", "failed", "nft", "store"}

ScanInit ==
  /\ tip = 0 /\ at = [e \in Event |-> 0]
  /\ ready = FALSE
  /\ pc = "sleep" /\ cur = 0 /\ goal = 0 /\ count = 0
  /\ stored = 0
  /\ row = [w \in Withdraw |-> 0]
  /\ returns = [f \in FailedDeposit |-> 0]
  /\ nftRows = {} /\ told = {}
  /\ found = {} /\ missed = {} /\ late = {}
  /\ faults = 0 /\ crashes = 0 /\ reorgs = 0 /\ taken = 0

In(events, h) == {e \in events : at[e] = h}

Fail == faults < MaxFaults /\ faults' = faults + 1

-----------------------------------------------------------------------------
(***************************************************************************)
(* The side chain.  A block may hold any of the events that are in none.   *)
(***************************************************************************)
Grow ==
  /\ tip < MaxHeight
  /\ tip' = tip + 1
  /\ \E block \in SUBSET In(Event, 0) :
       at' = [e \in Event |-> IF e \in block THEN tip + 1 ELSE at[e]]
  /\ UNCHANGED <<ready, loop, stored, tables, past, limits>>

\* Fewer than Depth blocks give way to a branch that is one block longer,
\* into which the events of the old blocks come back at other heights or,
\* for now, not at all.
Reorganise ==
  /\ reorgs < MaxReorgs /\ reorgs' = reorgs + 1
  /\ tip < MaxHeight /\ tip' = tip + 1
  /\ \E k \in 1..(Depth - 1) :
       LET moved == {e \in Event : at[e] > tip - k} IN
       /\ k <= tip
       /\ moved # {}
       /\ \E to \in [moved -> {0} \cup (tip - k + 1)..(tip + 1)] :
            /\ at' = [e \in Event |-> IF e \in moved THEN to[e] ELSE at[e]]
            /\ late' = late \cup {e \in moved \cap (FailedDeposit \cup Evidence) :
                                    to[e] \in 1..(IF cur > stored THEN cur ELSE stored)}
  /\ UNCHANGED <<ready, loop, stored, tables, found, missed, faults, crashes, taken>>

\* The flow of the withdraws takes one out of SideChainTxs.
TakeOut(w) ==
  /\ taken < MaxTaken /\ taken' = taken + 1
  /\ w \in Rows(row)
  /\ row' = Deleted(row, {w})
  /\ UNCHANGED <<side, ready, loop, stored, returns, nftRows, told, past, faults, crashes, reorgs>>

-----------------------------------------------------------------------------
(***************************************************************************)
(* SyncChainData.                                                          *)
(***************************************************************************)
BecomeReady ==
  /\ ~ready
  /\ ready' = TRUE
  /\ UNCHANGED <<side, loop, stored, tables, past, limits>>

\* The head of the loop over the heights: another block, or the end of the round.
Continue(h, top) == pc' = IF h < top THEN "withdraw" ELSE "store"

\* Mutant of NeedSyncBlocks: every round starts at SyncStartHeight.
ScanFromStart ==
  /\ pc = "sleep" /\ ready
  /\ stored < tip
  /\ goal' = tip
  /\ cur' = SyncStartHeight
  /\ count' = 1
  /\ Continue(cur', tip)
  /\ UNCHANGED <<side, ready, stored, tables, past, limits>>

\* needSyncBlocks: a round starts when the chain is ahead of the stored height.
NeedSyncBlocks ==
  /\ pc = "sleep" /\ ready
  /\ stored < tip
  /\ goal' = tip
  /\ cur' = IF stored < SyncStartHeight THEN SyncStartHeight ELSE stored
  /\ count' = 1
  /\ Continue(cur', tip)
  /\ UNCHANGED <<side, ready, stored, tables, past, limits>>

\* Mutant of WithdrawBlock: the delay is one block short.
WithdrawBlockTooEarly(h) == h + 2 - Depth

\* The block whose withdraws are asked for at height h.
WithdrawBlock(h) == h + 1 - Depth

\* processTransactions and OnUTXOChanged: what has no row gets one.  An
\* insert that fails, of one row or of all, is logged, and the scan goes on.
RecordWithdraws(ws) ==
  LET new == ws \ Rows(row) IN
  \E kept \in SUBSET new :
    /\ IF kept = new THEN UNCHANGED faults ELSE Fail
    /\ \E order \in Orders(kept) : row' = Inserted(row, kept, order)
    /\ found' = found \cup kept
    /\ missed' = missed \cup (new \ kept)

GetWithdrawTransactionByHeight ==
  /\ pc = "withdraw"
  /\ IF cur >= Depth
     THEN RecordWithdraws(In(Withdraw, WithdrawBlock(cur)))
     ELSE UNCHANGED <<row, found, missed, faults>>
  /\ pc' = "evidence"
  /\ UNCHANGED <<side, ready, cur, goal, count, stored, returns, nftRows, told, late,
                 crashes, reorgs, taken>>

GetWithdrawTransactionFails ==
  /\ pc = "withdraw" /\ cur >= Depth /\ Fail
  /\ pc' = "store"
  /\ UNCHANGED <<side, ready, cur, goal, count, stored, tables, past, crashes, reorgs, taken>>

\* Mutant of CurrentSideHeight: the height of the chain is stored, not the
\* one the round got to.
StoreTheGoal(h) == IF goal > stored THEN goal ELSE stored

\* CurrentSideHeight: the larger of the height handed in and the stored one.
CurrentSideHeight(h) == IF h > stored THEN h ELSE stored

\* What follows the move to height h.
AfterMove(h) ==
  IF SupportInvalidDeposit THEN pc' = "failed"
  ELSE IF h >= Depth /\ SupportNFT THEN pc' = "nft"
  ELSE Continue(h, goal)

GetIllegalEvidenceByHeight ==
  /\ pc = "evidence"
  /\ told' = told \cup In(Evidence, cur + 1)
  /\ found' = found \cup In(Evidence, cur + 1)
  /\ count' = count + 1
  /\ IF count' % Interval = 0
     THEN /\ stored' = CurrentSideHeight(cur + 1)
          /\ cur' = stored'
     ELSE /\ cur' = cur + 1
          /\ UNCHANGED stored
  /\ AfterMove(cur')
  /\ UNCHANGED <<side, ready, goal, row, returns, nftRows, missed, late, limits>>

\* Mutant of GetIllegalEvidenceFails: the height is moved before the call.
EvidenceFailsAfterMove ==
  /\ pc = "evidence" /\ Fail
  /\ pc' = "store" /\ cur' = cur + 1
  /\ UNCHANGED <<side, ready, goal, count, stored, tables, past, crashes, reorgs, taken>>

GetIllegalEvidenceFails ==
  /\ pc = "evidence" /\ Fail
  /\ pc' = "store"
  /\ UNCHANGED <<side, ready, cur, goal, count, stored, tables, past, crashes, reorgs, taken>>

\* Mutant of AfterFailedDeposits: a chain with failed deposits has no NFTs.
NoNFTAfterFailedDeposits == Continue(cur, goal)

AfterFailedDeposits == IF cur >= Depth /\ SupportNFT THEN pc' = "nft" ELSE Continue(cur, goal)

\* Each failed deposit needs two more calls to the main chain node; one
\* whose calls fail is passed over.
GetFailedDepositTransactions ==
  /\ pc = "failed"
  /\ \E got \in SUBSET In(FailedDeposit, cur) :
       LET lost == In(FailedDeposit, cur) \ got IN
       /\ IF lost = {} THEN UNCHANGED faults ELSE Fail
       /\ returns' = [f \in FailedDeposit |-> IF f \in got THEN returns[f] + 1 ELSE returns[f]]
       /\ found' = found \cup got
       /\ missed' = missed \cup lost
  /\ AfterFailedDeposits
  /\ UNCHANGED <<side, ready, cur, goal, count, stored, row, nftRows, told, late,
                 crashes, reorgs, taken>>

\* The NFTs of the block NFTBlock(h) are asked for after the move to h.
NFTBlock(h) == h + 1 - Depth

\* Mutant of DestroyedAt: the call for the withdraws of the block.
WithdrawsInstead(h) == In(Withdraw, NFTBlock(h))

DestroyedAt(h) == In(NFT, NFTBlock(h))

\* The height was moved, and the loop goes on with the next: neither the
\* failed deposits nor the NFTs of this height are asked for again.
GetFailedDepositsFails ==
  /\ pc = "failed" /\ Fail
  /\ Continue(cur, goal)
  /\ missed' = missed \cup In(FailedDeposit, cur)
                      \cup (IF cur >= Depth THEN DestroyedAt(cur) ELSE {})
  /\ UNCHANGED <<side, ready, cur, goal, count, stored, tables, found, late, crashes, reorgs, taken>>

\* processNFTDestroyTxs and OnNFTChanged.
GetNFTDestroyTransactionByHeight ==
  /\ pc = "nft"
  /\ nftRows' = nftRows \cup DestroyedAt(cur)
  /\ found' = found \cup DestroyedAt(cur)
  /\ Continue(cur, goal)
  /\ UNCHANGED <<side, ready, cur, goal, count, stored, row, returns, told, missed, late, limits>>

\* The round ends, but the height was moved already.
GetNFTDestroyFails ==
  /\ pc = "nft" /\ Fail
  /\ pc' = "store"
  /\ missed' = missed \cup DestroyedAt(cur)
  /\ UNCHANGED <<side, ready, cur, goal, count, stored, tables, found, late, crashes, reorgs, taken>>

StoreHeight ==
  /\ pc = "store"
  /\ stored' = CurrentSideHeight(cur)
  /\ cur' = stored'
  /\ pc' = "sleep"
  /\ UNCHANGED <<side, ready, goal, count, tables, past, limits>>

\* What a crash passes over: the height was stored in the middle of the
\* round, and its failed deposits or NFTs had not been asked for.
PassedOver ==
  IF stored < cur THEN {}
  ELSE (IF pc = "failed" THEN In(FailedDeposit, cur) ELSE {})
         \cup (IF pc \in {"failed", "nft"} /\ cur >= Depth THEN DestroyedAt(cur) ELSE {})

\* The process dies: only the tables and the stored height are left.
Killed ==
  /\ missed' = missed \cup PassedOver
  /\ ready' = FALSE
  /\ pc' = "sleep" /\ cur' = 0 /\ goal' = 0 /\ count' = 0
  /\ UNCHANGED <<side, stored, tables, found, late, reorgs, taken>>

Crash ==
  /\ crashes < MaxCrashes /\ crashes' = crashes + 1
  /\ Killed
  /\ UNCHANGED faults

-----------------------------------------------------------------------------
\* The steps of SyncChainData.
Sync ==
  \/ NeedSyncBlocks
  \/ GetWithdrawTransactionByHeight
  \/ GetIllegalEvidenceByHeight
  \/ GetFailedDepositTransactions
  \/ GetNFTDestroyTransactionByHeight
  \/ StoreHeight

CallFails ==
  \/ GetWithdrawTransactionFails
  \/ GetIllegalEvidenceFails
  \/ GetFailedDepositsFails
  \/ GetNFTDestroyFails

ScanNext ==
  \/ Grow \/ Reorganise
  \/ \E w \in Withdraw : TakeOut(w)
  \/ BecomeReady \/ Sync \/ CallFails \/ Crash

ScanSpec == ScanInit /\ [][ScanNext]_scanVars

-----------------------------------------------------------------------------
(***************************************************************************)
(* Properties.                                                             *)
(***************************************************************************)
\* The types of the variables.
ScanTypeOK ==
  /\ tip \in 0..MaxHeight /\ at \in [Event -> 0..MaxHeight]
  /\ ready \in BOOLEAN
  /\ pc \in PCs /\ cur \in Nat /\ goal \in Nat /\ count \in Nat
  /\ stored \in Nat
  /\ row \in [Withdraw -> Nat]
  /\ returns \in [FailedDeposit -> Nat]
  /\ nftRows \subseteq NFT /\ told \subseteq Evidence
  /\ found \subseteq Event /\ missed \subseteq Event /\ late \subseteq Event
  /\ faults \in Nat /\ crashes \in Nat /\ reorgs \in Nat /\ taken \in Nat

\* What is recorded is final: no branch that replaces fewer than Depth
\* blocks removes a withdraw in SideChainTxs, or an NFT in NFTDestroyTxs,
\* from the side chain.  The main chain pays for what these tables hold.
RecordedIsFinal ==
  /\ \A w \in found \cap Withdraw : at[w] > 0 /\ at[w] + Depth <= tip
  /\ \A n \in found \cap NFT : at[n] > 0 /\ at[n] + Depth <= tip + 1

\* The heights the scan is done with, when it got to height h: those it
\* leaves out from SyncStartHeight on, and delay blocks less at the end.
DoneWith(e, h, delay) == at[e] > 0 /\ at[e] + delay <= h /\ at[e] + delay > SyncStartHeight

\* The stored height never runs ahead of the tables.  A withdraw of a block
\* behind it was recorded, or its insert failed: neither a failing call nor
\* a crash at any point makes the scan skip one.
NoWithdrawSkipped ==
  \A w \in Withdraw : DoneWith(w, stored, Depth) => w \in found \cup missed

\* The evidence of every block behind the stored height was handed on,
\* unless a reorganisation brought it into a block scanned before.
NoEvidenceSkipped ==
  \A e \in Evidence : DoneWith(e, stored, 0) => e \in found \cup late

\* Failed deposits and NFTs are asked for once per height.  One of them is
\* passed over exactly by a call that fails after the height was moved, or
\* by a crash just after an intermediate store of the height.
OnlyFaultsPassOver ==
  /\ SupportInvalidDeposit =>
       \A f \in FailedDeposit : DoneWith(f, stored, 0) =>
         f \in found \cup missed \cup late \/ (pc = "failed" /\ at[f] = cur)
  /\ SupportNFT =>
       \A n \in NFT : DoneWith(n, stored, Depth - 1) =>
         n \in found \cup missed \/ (pc \in {"failed", "nft"} /\ at[n] = NFTBlock(cur))

\* AddReturnDepositTx has no UNIQUE key to rely on.  A failed deposit is
\* entered again only when its height is scanned again, which takes a crash,
\* or when it comes back at another height.
ReturnsEnteredOnce ==
  \A f \in FailedDeposit : returns[f] <= 1 + crashes + reorgs
===============================================================================
