---------------------------- MODULE SideScanProofs ----------------------------
(***************************************************************************)
(* Proofs about SideScan for every finite set of events, any Depth,        *)
(* Interval and SyncStartHeight, and any number of failing calls, crashes  *)
(* and reorganisations of fewer than Depth blocks.                         *)
(*                                                                         *)
(* What the tables cover up to the stored height is inductive only         *)
(* together with what they cover up to the height the round got to, and    *)
(* with how far the two may run ahead of the side chain (Control, Cover).  *)
(***************************************************************************)
EXTENDS SideScan, FiniteLemmas

\* No height is past the end of the side chain, but for SyncStartHeight.
Reached(h) == h <= tip \/ h <= SyncStartHeight

\* Where a round stands.
Control ==
  /\ goal <= tip
  /\ Reached(stored)
  /\ pc # "sleep" => stored <= cur /\ Reached(cur)
  /\ pc \in {"withdraw", "evidence"} => cur < goal
  /\ pc \in {"failed", "nft"} => cur <= goal
  /\ pc = "nft" => cur >= Depth

\* What has a row was found.
RowsAreFound == Rows(row) \subseteq found

WithdrawsDone(h) == \A w \in Withdraw : DoneWith(w, h, Depth) => w \in found \cup missed

EvidenceDone(h) == \A e \in Evidence : DoneWith(e, h, 0) => e \in found \cup late

DepositsDone(h) ==
  SupportInvalidDeposit =>
    \A f \in FailedDeposit : DoneWith(f, h, 0) =>
      f \in found \cup missed \cup late \/ (pc = "failed" /\ at[f] = cur)

NFTsDone(h) ==
  SupportNFT =>
    \A n \in NFT : DoneWith(n, h, Depth - 1) =>
      n \in found \cup missed \/ (pc \in {"failed", "nft"} /\ at[n] = NFTBlock(cur))

AllDone(h) == WithdrawsDone(h) /\ EvidenceDone(h) /\ DepositsDone(h) /\ NFTsDone(h)

\* What the tables cover.
Cover ==
  /\ AllDone(stored)
  /\ pc # "sleep" => AllDone(cur)
  /\ pc = "evidence" => WithdrawsDone(cur + 1)

ScanInv == ScanTypeOK /\ Control /\ RowsAreFound /\ RecordedIsFinal /\ Cover

-----------------------------------------------------------------------------
(***************************************************************************)
(* Types.                                                                  *)
(***************************************************************************)
LEMMA EventKinds ==
  /\ Withdraw \subseteq Event /\ FailedDeposit \subseteq Event
  /\ NFT \subseteq Event /\ Evidence \subseteq Event
  /\ IsFiniteSet(Withdraw)
  <1>1. /\ Withdraw \in SUBSET Event /\ FailedDeposit \subseteq Event
        /\ NFT \subseteq Event /\ Evidence \subseteq Event
    BY DEF Event
  <1>2. QED
    BY <1>1, ScanAssumption, FS_Subset

\* The types of the variables but ready.
OtherTypesOK ==
  /\ tip \in 0..MaxHeight /\ at \in [Event -> 0..MaxHeight]
  /\ pc \in PCs /\ cur \in Nat /\ goal \in Nat /\ count \in Nat
  /\ stored \in Nat
  /\ row \in [Withdraw -> Nat]
  /\ returns \in [FailedDeposit -> Nat]
  /\ nftRows \subseteq NFT /\ told \subseteq Evidence
  /\ found \subseteq Event /\ missed \subseteq Event /\ late \subseteq Event
  /\ faults \in Nat /\ crashes \in Nat /\ reorgs \in Nat /\ taken \in Nat

LEMMA TypeParts == ScanTypeOK <=> OtherTypesOK /\ ready \in BOOLEAN
  BY DEF ScanTypeOK, OtherTypesOK

LEMMA TypePartsNext == ASSUME OtherTypesOK', ready' \in BOOLEAN PROVE ScanTypeOK'
  BY DEF ScanTypeOK, OtherTypesOK

LEMMA TypeInit == ScanInit => ScanTypeOK
  <1> SUFFICES ASSUME ScanInit PROVE ScanTypeOK
    OBVIOUS
  <1>1. OtherTypesOK
    BY ScanAssumption DEF ScanInit, OtherTypesOK, PCs
  <1>2. ready = FALSE
    BY DEF ScanInit
  <1>3. QED
    BY <1>1, <1>2, TypeParts

\* The events of a block are events of their kind.
LEMMA InBlock ==
  ASSUME NEW events, NEW h
  PROVE  In(events, h) \subseteq events
  BY DEF In

\* The loop goes on in one of its places.
LEMMA ContinueTyped ==
  ASSUME NEW h, NEW top, Continue(h, top)
  PROVE  pc' \in {"withdraw", "store"}
  BY DEF Continue

\* What a branch that replaces the last k blocks does to the events: those
\* in other blocks stay, the others are in none or in one of the branch.
Branch(k) ==
  /\ k <= tip
  /\ at' \in [Event -> Nat]
  /\ \A e \in Event :
       \/ at[e] <= tip - k /\ at'[e] = at[e]
       \/ at[e] > tip - k /\ (at'[e] = 0 \/ at'[e] \in (tip - k + 1)..(tip + 1))
  /\ \E new \in SUBSET (FailedDeposit \cup Evidence) :
       /\ late' = late \cup new
       /\ \A e \in FailedDeposit \cup Evidence :
            at[e] > tip - k /\ 0 < at'[e] /\ (at'[e] <= cur \/ at'[e] <= stored) => e \in new

LEMMA Branches ==
  ASSUME ScanTypeOK, Reorganise
  PROVE  \E k \in 1..(Depth - 1) : Branch(k)
  <1> USE ScanAssumption, EventKinds
  <1>1. PICK k \in 1..(Depth - 1) :
          LET moved == {e \in Event : at[e] > tip - k} IN
          /\ k <= tip
          /\ \E to \in [moved -> {0} \cup (tip - k + 1)..(tip + 1)] :
               /\ at' = [e \in Event |-> IF e \in moved THEN to[e] ELSE at[e]]
               /\ late' = late \cup {e \in moved \cap (FailedDeposit \cup Evidence) :
                                       to[e] \in 1..(IF cur > stored THEN cur ELSE stored)}
    BY DEF Reorganise
  <1> DEFINE moved == {e \in Event : at[e] > tip - k}
  <1>2. PICK to \in [moved -> {0} \cup (tip - k + 1)..(tip + 1)] :
          /\ at' = [e \in Event |-> IF e \in moved THEN to[e] ELSE at[e]]
          /\ late' = late \cup {e \in moved \cap (FailedDeposit \cup Evidence) :
                                  to[e] \in 1..(IF cur > stored THEN cur ELSE stored)}
    BY <1>1
  <1>3. tip \in Nat /\ k \in Nat /\ k <= tip /\ \A e \in Event : at[e] \in Nat
    BY <1>1 DEF ScanTypeOK
  <1>4. \A e \in Event : e \in moved <=> at[e] > tip - k
    OBVIOUS
  <1>5. \A e \in moved : to[e] = 0 \/ to[e] \in (tip - k + 1)..(tip + 1)
    BY <1>2
  <1>6. \A e \in Event : at'[e] = IF e \in moved THEN to[e] ELSE at[e]
    BY <1>2
  <1> DEFINE new == {e \in moved \cap (FailedDeposit \cup Evidence) :
                       to[e] \in 1..(IF cur > stored THEN cur ELSE stored)}
  <1>7. late' = late \cup new /\ new \in SUBSET (FailedDeposit \cup Evidence)
    BY <1>2
  <1>8. \A e \in FailedDeposit \cup Evidence :
          at[e] > tip - k /\ 0 < at'[e] /\ (at'[e] <= cur \/ at'[e] <= stored) => e \in new
    <2> HIDE DEF moved
    <2> SUFFICES ASSUME NEW e \in FailedDeposit \cup Evidence,
                        at[e] > tip - k, 0 < at'[e], at'[e] <= cur \/ at'[e] <= stored
                 PROVE  e \in new
      OBVIOUS
    <2>1. e \in moved /\ at'[e] = to[e] /\ to[e] \in Nat
      BY <1>3, <1>4, <1>5, <1>6
    <2>2. to[e] \in 1..(IF cur > stored THEN cur ELSE stored)
      BY <2>1 DEF ScanTypeOK
    <2>3. QED
      BY <2>1, <2>2
  <1>9. at' \in [Event -> Nat]
    <2>1. \A e \in Event : (IF e \in moved THEN to[e] ELSE at[e]) \in Nat
      BY <1>3, <1>5
    <2>2. QED
      BY <1>2, <2>1
  <1> HIDE DEF moved, new
  <1>10. \A e \in Event :
       \/ at[e] <= tip - k /\ at'[e] = at[e]
       \/ at[e] > tip - k /\ (at'[e] = 0 \/ at'[e] \in (tip - k + 1)..(tip + 1))
    BY <1>3, <1>4, <1>5, <1>6
  <1>11. Branch(k)
    BY <1>3, <1>7, <1>8, <1>9, <1>10 DEF Branch
  <1>12. QED
    BY <1>11

\* The side chain keeps the types.
LEMMA SideTypes ==
  ASSUME ScanTypeOK, Grow \/ Reorganise
  PROVE  /\ ScanTypeOK'
  <1> USE ScanAssumption DEF side, loop, tables, past, limits
  <1>1. CASE Grow
    <2>1. PICK block \in SUBSET In(Event, 0) :
            at' = [e \in Event |-> IF e \in block THEN tip + 1 ELSE at[e]]
      BY <1>1 DEF Grow
    <2>2. tip' \in 0..MaxHeight /\ at' \in [Event -> 0..MaxHeight]
      BY <1>1, <2>1 DEF Grow, ScanTypeOK
    <2>3. QED
      BY <1>1, <2>2 DEF Grow, ScanTypeOK
  <1>2. CASE Reorganise
    <2>1. PICK k \in 1..(Depth - 1) : Branch(k)
      BY <1>2, Branches
    <2>2. tip' \in 0..MaxHeight /\ tip' = tip + 1
      BY <1>2 DEF Reorganise, ScanTypeOK
    <2>3. at' \in [Event -> 0..MaxHeight]
      BY <2>1, <2>2 DEF Branch, ScanTypeOK
    <2>4. late' \subseteq Event
      BY <2>1, EventKinds DEF Branch, ScanTypeOK
    <2>5. QED
      BY <1>2, <2>2, <2>3, <2>4 DEF Reorganise, ScanTypeOK
  <1>3. QED
    BY <1>1, <1>2

\* What RecordWithdraws does to the table and the history.
LEMMA Recorded ==
  ASSUME ScanTypeOK, NEW ws \in SUBSET Withdraw, RecordWithdraws(ws)
  PROVE  /\ row' \in [Withdraw -> Nat]
         /\ \E kept \in SUBSET (ws \ Rows(row)) :
              /\ Rows(row') = Rows(row) \cup kept
              /\ found' = found \cup kept
              /\ missed' = missed \cup ((ws \ Rows(row)) \ kept)
         /\ faults' \in Nat
  <1>1. PICK kept \in SUBSET (ws \ Rows(row)) :
          /\ IF kept = ws \ Rows(row) THEN UNCHANGED faults ELSE Fail
          /\ \E order \in Orders(kept) : row' = Inserted(row, kept, order)
          /\ found' = found \cup kept
          /\ missed' = missed \cup ((ws \ Rows(row)) \ kept)
    BY DEF RecordWithdraws
  <1>2. PICK order \in Orders(kept) : row' = Inserted(row, kept, order)
    BY <1>1
  <1>3. row' \in [Withdraw -> Nat] /\ Rows(row') = Rows(row) \cup kept
    <2>1. /\ IsFiniteSet(Withdraw) /\ row \in [Withdraw -> Nat] /\ kept \in SUBSET Withdraw
      BY EventKinds DEF ScanTypeOK
    <2>2. QED
      BY <1>2, <2>1, InsertedRows
  <1>4. faults' \in Nat
    BY <1>1 DEF Fail, ScanTypeOK
  <1>5. QED
    BY <1>1, <1>3, <1>4

\* The step to the next height, with or without a store of it.
LEMMA Moved ==
  ASSUME ScanTypeOK, Control, GetIllegalEvidenceByHeight
  PROVE  /\ cur' = cur + 1
         /\ stored' = stored \/ stored' = cur + 1
         /\ \/ SupportInvalidDeposit /\ pc' = "failed"
            \/ ~SupportInvalidDeposit /\ SupportNFT /\ cur + 1 >= Depth /\ pc' = "nft"
            \/ /\ ~SupportInvalidDeposit /\ ~(SupportNFT /\ cur + 1 >= Depth)
               /\ pc' = IF cur + 1 < goal THEN "withdraw" ELSE "store"
  <1>1. stored <= cur /\ stored \in Nat /\ cur \in Nat
    BY DEF GetIllegalEvidenceByHeight, Control, ScanTypeOK
  <1>2. CurrentSideHeight(cur + 1) = cur + 1
    BY <1>1 DEF CurrentSideHeight
  <1>3. /\ cur' = cur + 1
        /\ stored' = stored \/ stored' = cur + 1
    BY <1>2 DEF GetIllegalEvidenceByHeight
  <1>4. AfterMove(cur + 1)
    BY <1>3 DEF GetIllegalEvidenceByHeight
  <1>5. QED
    BY <1>3, <1>4, ScanAssumption DEF AfterMove, Continue, GetIllegalEvidenceByHeight

LEMMA CallTypes ==
  ASSUME ScanTypeOK, Control, Sync \/ CallFails
  PROVE  ScanTypeOK'
  <1> USE ScanAssumption, EventKinds DEF side, loop, tables, past, limits, PCs
  <1>1. CASE NeedSyncBlocks
    <2>1. pc' \in PCs
      BY <1>1, ContinueTyped DEF NeedSyncBlocks
    <2>2. QED
      BY <1>1, <2>1 DEF NeedSyncBlocks, ScanTypeOK
  <1>2. CASE GetWithdrawTransactionByHeight
    <2>1. CASE cur >= Depth
      <3>1. In(Withdraw, WithdrawBlock(cur)) \in SUBSET Withdraw
        BY InBlock
      <3>2. RecordWithdraws(In(Withdraw, WithdrawBlock(cur)))
        BY <1>2, <2>1 DEF GetWithdrawTransactionByHeight
      <3>3. PICK kept \in SUBSET (In(Withdraw, WithdrawBlock(cur)) \ Rows(row)) :
              /\ Rows(row') = Rows(row) \cup kept
              /\ found' = found \cup kept
              /\ missed' = missed \cup ((In(Withdraw, WithdrawBlock(cur)) \ Rows(row)) \ kept)
        BY <3>1, <3>2, Recorded
      <3>4. row' \in [Withdraw -> Nat] /\ faults' \in Nat
        BY <3>1, <3>2, Recorded
      <3>5. found' \subseteq Event /\ missed' \subseteq Event
        BY <3>1, <3>3 DEF ScanTypeOK
      <3>6. QED
        BY <1>2, <3>4, <3>5 DEF GetWithdrawTransactionByHeight, ScanTypeOK
    <2>2. CASE ~(cur >= Depth)
      BY <1>2, <2>2 DEF GetWithdrawTransactionByHeight, ScanTypeOK
    <2>3. QED
      BY <2>1, <2>2
  <1>3. CASE GetIllegalEvidenceByHeight
    <2>1. In(Evidence, cur + 1) \subseteq Evidence
      BY InBlock
    <2>2. cur' \in Nat /\ stored' \in Nat /\ pc' \in PCs
      BY <1>3, Moved DEF ScanTypeOK
    <2>3. told' \subseteq Evidence /\ found' \subseteq Event
      BY <1>3, <2>1 DEF GetIllegalEvidenceByHeight, ScanTypeOK
    <2>4. QED
      BY <1>3, <2>2, <2>3 DEF GetIllegalEvidenceByHeight, ScanTypeOK
  <1>4. CASE GetFailedDepositTransactions
    <2>1. PICK got \in SUBSET In(FailedDeposit, cur) :
            /\ IF In(FailedDeposit, cur) \ got = {} THEN UNCHANGED faults ELSE Fail
            /\ returns' = [f \in FailedDeposit |-> IF f \in got THEN returns[f] + 1 ELSE returns[f]]
            /\ found' = found \cup got
            /\ missed' = missed \cup (In(FailedDeposit, cur) \ got)
      BY <1>4 DEF GetFailedDepositTransactions
    <2>2. In(FailedDeposit, cur) \subseteq FailedDeposit
      BY InBlock
    <2>3. /\ faults' \in Nat /\ returns' \in [FailedDeposit -> Nat]
          /\ found' \subseteq Event /\ missed' \subseteq Event
      BY <2>1, <2>2 DEF ScanTypeOK, Fail
    <2>4. pc' \in PCs
      BY <1>4 DEF GetFailedDepositTransactions, AfterFailedDeposits, Continue
    <2>5. QED
      BY <1>4, <2>3, <2>4 DEF GetFailedDepositTransactions, ScanTypeOK
  <1>5. DestroyedAt(cur) \subseteq NFT
    BY InBlock DEF DestroyedAt
  <1>6. CASE GetNFTDestroyTransactionByHeight
    <2>1. pc' \in PCs
      BY <1>6, ContinueTyped DEF GetNFTDestroyTransactionByHeight
    <2>2. QED
      BY <1>5, <1>6, <2>1 DEF GetNFTDestroyTransactionByHeight, ScanTypeOK
  <1>7. CASE StoreHeight
    <2>1. stored' \in Nat
      BY <1>7 DEF StoreHeight, CurrentSideHeight, ScanTypeOK
    <2>2. QED
      BY <1>7, <2>1 DEF StoreHeight, ScanTypeOK
  <1>8. CASE GetWithdrawTransactionFails
    BY <1>8 DEF GetWithdrawTransactionFails, Fail, ScanTypeOK
  <1>9. CASE GetIllegalEvidenceFails
    BY <1>9 DEF GetIllegalEvidenceFails, Fail, ScanTypeOK
  <1>10. CASE GetFailedDepositsFails
    <2>1. In(FailedDeposit, cur) \subseteq FailedDeposit
      BY InBlock
    <2>2. pc' \in PCs
      BY <1>10, ContinueTyped DEF GetFailedDepositsFails
    <2>3. QED
      BY <1>5, <1>10, <2>1, <2>2 DEF GetFailedDepositsFails, Fail, ScanTypeOK
  <1>11. CASE GetNFTDestroyFails
    BY <1>5, <1>11 DEF GetNFTDestroyFails, Fail, ScanTypeOK
  <1>12. QED
    BY <1>1, <1>2, <1>3, <1>4, <1>6, <1>7, <1>8, <1>9, <1>10, <1>11 DEF Sync, CallFails

LEMMA OtherTypes ==
  ASSUME ScanTypeOK, BecomeReady \/ Crash \/ \E w \in Withdraw : TakeOut(w)
  PROVE  ScanTypeOK'
  <1> USE ScanAssumption, EventKinds DEF side, loop, tables, past, limits, PCs
  <1>1. CASE BecomeReady
    <2>1. OtherTypesOK'
      BY <1>1 DEF BecomeReady, ScanTypeOK, OtherTypesOK
    <2>2. ready' = TRUE
      BY <1>1 DEF BecomeReady
    <2>3. QED
      BY <2>1, <2>2, TypePartsNext
  <1>2. CASE Crash
    <2>1. PassedOver \subseteq Event
      BY InBlock DEF PassedOver, DestroyedAt
    <2>2. OtherTypesOK'
      BY <1>2, <2>1 DEF Crash, Killed, ScanTypeOK, OtherTypesOK
    <2>3. ready' = FALSE
      BY <1>2 DEF Crash, Killed
    <2>4. QED
      BY <2>2, <2>3, TypePartsNext
  <1>3. ASSUME NEW w \in Withdraw, TakeOut(w) PROVE ScanTypeOK'
    <2>1. row' \in [Withdraw -> Nat]
      BY <1>3, DeletedRows DEF TakeOut, ScanTypeOK
    <2>2. /\ UNCHANGED <<side, ready, loop, stored, returns, nftRows, told, past>>
          /\ UNCHANGED <<faults, crashes, reorgs>> /\ taken' = taken + 1
      BY <1>3 DEF TakeOut
    <2>3. OtherTypesOK'
      BY <2>1, <2>2 DEF ScanTypeOK, OtherTypesOK
    <2>4. ready' \in BOOLEAN
      BY <2>2 DEF ScanTypeOK
    <2>5. QED
      BY <2>3, <2>4, TypePartsNext
  <1>4. QED
    BY <1>1, <1>2, <1>3

LEMMA StepTypes ==
  ASSUME ScanTypeOK, Control, ScanNext
  PROVE  ScanTypeOK'
  BY SideTypes, CallTypes, OtherTypes DEF ScanNext

-----------------------------------------------------------------------------
(***************************************************************************)
(* The side chain moves on.                                                *)
(***************************************************************************)
\* What a new block and a branch have in common: an event that moves ends
\* up fewer than Depth - 1 blocks under the new tip, and one that was at
\* least as deep stays.
Shifted ==
  /\ tip' = tip + 1
  /\ \A e \in Event : at'[e] \in Nat
  /\ \A e \in Event : at'[e] = at[e] \/ at'[e] = 0 \/ at'[e] + Depth >= tip + 2
  /\ \A e \in Event : at[e] > 0 /\ at[e] + Depth <= tip + 1 => at'[e] = at[e]
  /\ late \subseteq late'
  /\ \A e \in FailedDeposit \cup Evidence :
       \/ at'[e] = at[e] \/ at'[e] = 0 \/ at'[e] = tip + 1
       \/ e \in late'
       \/ at'[e] > cur /\ at'[e] > stored

LEMMA SideShifts ==
  ASSUME ScanTypeOK, Grow \/ Reorganise
  PROVE  Shifted /\ UNCHANGED <<pc, cur, goal, stored, row, found, missed>>
  <1> USE ScanAssumption, EventKinds
  <1>1. tip \in Nat /\ cur \in Nat /\ stored \in Nat /\ \A e \in Event : at[e] \in Nat
    BY DEF ScanTypeOK
  <1>2. CASE Grow
    <2>1. PICK block \in SUBSET In(Event, 0) :
            at' = [e \in Event |-> IF e \in block THEN tip + 1 ELSE at[e]]
      BY <1>2 DEF Grow
    <2>2. \A e \in Event : at'[e] = IF e \in block THEN tip + 1 ELSE at[e]
      BY <2>1
    <2>3. \A e \in block : at[e] = 0
      BY <2>1 DEF In
    <2>4. /\ tip' = tip + 1 /\ late' = late
          /\ UNCHANGED <<pc, cur, goal, stored, row, found, missed>>
      BY <1>2 DEF Grow, loop, tables, past
    <2>5. Shifted
      BY <1>1, <2>2, <2>3, <2>4 DEF Shifted
    <2>6. QED
      BY <2>4, <2>5
  <1>3. CASE Reorganise
    <2>1. PICK k \in 1..(Depth - 1) : Branch(k)
      BY <1>3, Branches
    <2>2. /\ k \in Nat /\ k <= Depth - 1 /\ k <= tip
          /\ \A e \in Event : at'[e] \in Nat
      BY <2>1 DEF Branch
    <2>3. \A e \in Event :
            \/ at[e] <= tip - k /\ at'[e] = at[e]
            \/ at[e] > tip - k /\ (at'[e] = 0 \/ at'[e] >= tip - k + 1)
      BY <1>1, <2>1 DEF Branch
    <2>4. PICK new \in SUBSET (FailedDeposit \cup Evidence) :
            /\ late' = late \cup new
            /\ \A e \in FailedDeposit \cup Evidence :
                 at[e] > tip - k /\ 0 < at'[e] /\ (at'[e] <= cur \/ at'[e] <= stored) => e \in new
      BY <2>1 DEF Branch
    <2>5. /\ tip' = tip + 1
          /\ UNCHANGED <<pc, cur, goal, stored, row, found, missed>>
      BY <1>3 DEF Reorganise, loop, tables
    <2>6. \A e \in Event : at'[e] = at[e] \/ at'[e] = 0 \/ at'[e] + Depth >= tip + 2
      BY <1>1, <2>2, <2>3
    <2>7. \A e \in Event : at[e] > 0 /\ at[e] + Depth <= tip + 1 => at'[e] = at[e]
      BY <1>1, <2>2, <2>3
    <2>8. \A e \in FailedDeposit \cup Evidence :
            \/ at'[e] = at[e] \/ at'[e] = 0 \/ e \in late'
            \/ at'[e] > cur /\ at'[e] > stored
      BY <1>1, <2>2, <2>3, <2>4
    <2>9. Shifted
      BY <2>2, <2>4, <2>5, <2>6, <2>7, <2>8 DEF Shifted
    <2>10. QED
      BY <2>5, <2>9
  <1>4. QED
    BY <1>2, <1>3

\* Heights the scan did not reach cannot be moved behind it, and what it
\* found cannot be moved at all.
LEMMA SideKeeps ==
  ASSUME ScanInv, Grow \/ Reorganise
  PROVE  Control' /\ RowsAreFound' /\ RecordedIsFinal' /\ Cover'
  <1> USE ScanAssumption, EventKinds
  <1>1. Shifted /\ UNCHANGED <<pc, cur, goal, stored, row, found, missed>>
    BY SideShifts DEF ScanInv
  <1>2. /\ tip \in Nat /\ cur \in Nat /\ stored \in Nat /\ goal \in Nat
        /\ \A e \in Event : at[e] \in Nat
    BY DEF ScanInv, ScanTypeOK
  <1>3. Control'
    BY <1>1, <1>2 DEF ScanInv, Control, Reached, Shifted
  <1>4. RowsAreFound'
    BY <1>1 DEF ScanInv, RowsAreFound, Rows
  <1>5. RecordedIsFinal'
    BY <1>1, <1>2 DEF ScanInv, RecordedIsFinal, Shifted
  <1>6. ASSUME NEW h \in Nat, Reached(h), NEW e \in Event, NEW delay \in {Depth - 1, Depth},
               at'[e] > 0, at'[e] + delay <= h, at'[e] + delay > SyncStartHeight
        PROVE  at'[e] = at[e]
    BY <1>1, <1>2, <1>6 DEF Shifted, Reached
  <1>7. ASSUME NEW h \in Nat, Reached(h), h <= cur \/ h <= stored,
               NEW e \in FailedDeposit \cup Evidence,
               at'[e] > 0, at'[e] <= h, at'[e] > SyncStartHeight
        PROVE  at'[e] = at[e] \/ e \in late'
    BY <1>1, <1>2, <1>7 DEF Shifted, Reached
  <1>8. late \subseteq late'
    BY <1>1 DEF Shifted
  <1>9. /\ Reached(stored)
        /\ pc # "sleep" => Reached(cur)
        /\ pc = "evidence" => Reached(cur + 1) /\ cur + 1 \in Nat
    BY <1>2 DEF ScanInv, Control, Reached
  <1>10. ASSUME NEW h \in Nat, Reached(h), WithdrawsDone(h)
         PROVE  \A w \in Withdraw :
                  at'[w] > 0 /\ at'[w] + Depth <= h /\ at'[w] + Depth > SyncStartHeight
                    => w \in found \cup missed
    BY <1>6, <1>10 DEF WithdrawsDone, DoneWith
  <1>11. ASSUME NEW h \in Nat, Reached(h), NFTsDone(h), SupportNFT
         PROVE  \A n \in NFT :
                  at'[n] > 0 /\ at'[n] + (Depth - 1) <= h /\ at'[n] + (Depth - 1) > SyncStartHeight
                    => n \in found \cup missed
                         \/ (pc \in {"failed", "nft"} /\ at'[n] = NFTBlock(cur))
    BY <1>6, <1>11 DEF NFTsDone, DoneWith
  <1>12. ASSUME NEW h \in Nat, Reached(h), h <= cur \/ h <= stored, EvidenceDone(h)
         PROVE  \A e \in Evidence :
                  at'[e] > 0 /\ at'[e] <= h /\ at'[e] > SyncStartHeight => e \in found \cup late'
    BY <1>2, <1>7, <1>8, <1>12 DEF EvidenceDone, DoneWith
  <1>13. ASSUME NEW h \in Nat, Reached(h), h <= cur \/ h <= stored, DepositsDone(h),
                SupportInvalidDeposit
         PROVE  \A f \in FailedDeposit :
                  at'[f] > 0 /\ at'[f] <= h /\ at'[f] > SyncStartHeight
                    => f \in found \cup missed \cup late' \/ (pc = "failed" /\ at'[f] = cur)
    BY <1>2, <1>7, <1>8, <1>13 DEF DepositsDone, DoneWith
  <1>14. \A e \in Event : at'[e] \in Nat
    BY <1>1 DEF Shifted
  <1>15. AllDone(stored)'
    BY <1>1, <1>2, <1>9, <1>10, <1>11, <1>12, <1>13, <1>14
    DEF ScanInv, Cover, AllDone, WithdrawsDone, EvidenceDone, DepositsDone, NFTsDone, DoneWith, NFTBlock
  <1>16. (pc # "sleep" => AllDone(cur))'
    BY <1>1, <1>2, <1>9, <1>10, <1>11, <1>12, <1>13, <1>14
    DEF ScanInv, Cover, AllDone, WithdrawsDone, EvidenceDone, DepositsDone, NFTsDone, DoneWith, NFTBlock
  <1>17. (pc = "evidence" => WithdrawsDone(cur + 1))'
    BY <1>1, <1>2, <1>9, <1>10 DEF ScanInv, Cover, WithdrawsDone, DoneWith
  <1>18. QED
    BY <1>3, <1>4, <1>5, <1>15, <1>16, <1>17 DEF Cover

-----------------------------------------------------------------------------
(***************************************************************************)
(* SyncChainData.                                                          *)
(***************************************************************************)
\* In the middle of a round it is enough to look at the height it got to.
LEMMA CoverInRound ==
  ASSUME ScanTypeOK', Control', pc' # "sleep",
         WithdrawsDone(cur)', EvidenceDone(cur)', DepositsDone(cur)', NFTsDone(cur)',
         pc' # "evidence"
  PROVE  Cover'
  <1> USE ScanAssumption, EventKinds
  <1>1. stored' \in Nat /\ cur' \in Nat /\ stored' <= cur' /\ \A e \in Event : at'[e] \in Nat
    BY DEF ScanTypeOK, Control
  <1>2. WithdrawsDone(stored)'
    BY <1>1 DEF WithdrawsDone, DoneWith
  <1>3. EvidenceDone(stored)'
    BY <1>1 DEF EvidenceDone, DoneWith
  <1>4. DepositsDone(stored)'
    BY <1>1 DEF DepositsDone, DoneWith
  <1>5. NFTsDone(stored)'
    BY <1>1 DEF NFTsDone, DoneWith
  <1>6. QED
    BY <1>2, <1>3, <1>4, <1>5 DEF Cover, AllDone

\* The start and the end of a round.
LEMMA RoundKeeps ==
  ASSUME ScanInv, ScanTypeOK', NeedSyncBlocks \/ StoreHeight
  PROVE  Control' /\ RowsAreFound' /\ RecordedIsFinal' /\ Cover'
  <1> USE ScanAssumption, EventKinds
  <1>1. /\ tip \in Nat /\ cur \in Nat /\ stored \in Nat /\ goal \in Nat
        /\ \A e \in Event : at[e] \in Nat
    BY DEF ScanInv, ScanTypeOK
  <1>2. UNCHANGED <<tip, at, row, found, missed, late>>
    BY DEF NeedSyncBlocks, StoreHeight, side, tables, past
  <1>3. RowsAreFound' /\ RecordedIsFinal'
    BY <1>2 DEF ScanInv, RowsAreFound, Rows, RecordedIsFinal
  <1>4. CASE NeedSyncBlocks
    <2>1. /\ pc = "sleep" /\ stored < tip /\ goal' = tip /\ stored' = stored
          /\ cur' = IF stored < SyncStartHeight THEN SyncStartHeight ELSE stored
          /\ pc' = IF cur' < tip THEN "withdraw" ELSE "store"
      BY <1>4 DEF NeedSyncBlocks, Continue
    <2>2. Control'
      BY <1>1, <1>2, <2>1 DEF ScanInv, Control, Reached
    <2>3. cur' = stored \/ cur' = SyncStartHeight
      BY <2>1
    <2>4. WithdrawsDone(cur)'
      BY <1>1, <1>2, <2>3 DEF ScanInv, Cover, AllDone, WithdrawsDone, DoneWith
    <2>5. EvidenceDone(cur)'
      BY <1>1, <1>2, <2>3 DEF ScanInv, Cover, AllDone, EvidenceDone, DoneWith
    <2>6. DepositsDone(cur)'
      BY <1>1, <1>2, <2>1, <2>3 DEF ScanInv, Cover, AllDone, DepositsDone, DoneWith
    <2>7. NFTsDone(cur)'
      BY <1>1, <1>2, <2>1, <2>3 DEF ScanInv, Cover, AllDone, NFTsDone, DoneWith
    <2>8. Cover'
      BY <2>1, <2>2, <2>4, <2>5, <2>6, <2>7, CoverInRound
    <2>9. QED
      BY <1>3, <2>2, <2>8
  <1>5. CASE StoreHeight
    <2>1. pc = "store" /\ pc' = "sleep" /\ goal' = goal /\ stored' = CurrentSideHeight(cur)
      BY <1>5 DEF StoreHeight
    <2>2. stored <= cur /\ Reached(cur) /\ goal <= tip
      BY <2>1 DEF ScanInv, Control
    <2>3. stored' = cur
      BY <1>1, <2>1, <2>2 DEF CurrentSideHeight
    <2>4. Control'
      BY <1>1, <1>2, <2>1, <2>2, <2>3 DEF Control, Reached
    <2>5. AllDone(stored)'
      BY <1>1, <1>2, <2>1, <2>3
      DEF ScanInv, Cover, AllDone, WithdrawsDone, EvidenceDone, DepositsDone, NFTsDone, DoneWith
    <2>6. QED
      BY <1>3, <2>1, <2>4, <2>5 DEF Cover
  <1>6. QED
    BY <1>4, <1>5

\* Every withdraw of the block asked for is in the table, was there before,
\* or is one whose insert failed.
LEMMA WithdrawCallKeeps ==
  ASSUME ScanInv, ScanTypeOK', GetWithdrawTransactionByHeight
  PROVE  Control' /\ RowsAreFound' /\ RecordedIsFinal' /\ Cover'
  <1> USE ScanAssumption, EventKinds
  <1> DEFINE block == In(Withdraw, WithdrawBlock(cur))
  <1>1. /\ tip \in Nat /\ cur \in Nat /\ stored \in Nat /\ goal \in Nat
        /\ \A e \in Event : at[e] \in Nat
    BY DEF ScanInv, ScanTypeOK
  <1>2. /\ pc = "withdraw" /\ pc' = "evidence"
        /\ UNCHANGED <<tip, at, cur, goal, stored, late>>
    BY DEF GetWithdrawTransactionByHeight, side
  <1>3. PICK kept \in SUBSET Withdraw :
          /\ Rows(row') \subseteq Rows(row) \cup kept
          /\ found' = found \cup kept
          /\ missed \subseteq missed'
          /\ \A w \in kept : cur >= Depth /\ at[w] = WithdrawBlock(cur)
          /\ \A w \in Withdraw : cur >= Depth /\ at[w] = WithdrawBlock(cur)
                => w \in Rows(row) \/ w \in kept \/ w \in missed'
    <2>1. CASE cur >= Depth
      <3>1. block \in SUBSET Withdraw
        BY InBlock
      <3>2. PICK kept \in SUBSET (block \ Rows(row)) :
              /\ Rows(row') = Rows(row) \cup kept
              /\ found' = found \cup kept
              /\ missed' = missed \cup ((block \ Rows(row)) \ kept)
        <4>1. RecordWithdraws(block)
          BY <2>1 DEF GetWithdrawTransactionByHeight
        <4> HIDE DEF block
        <4>2. QED
          BY <3>1, <4>1, Recorded DEF ScanInv
      <3>3. kept \in SUBSET Withdraw
        BY <3>1, <3>2
      <3>4. \A w \in Withdraw : w \in block <=> at[w] = WithdrawBlock(cur)
        BY DEF In
      <3> HIDE DEF block
      <3>5. QED
        BY <2>1, <3>2, <3>3, <3>4
    <2>2. CASE ~(cur >= Depth)
      <3>1. UNCHANGED <<row, found, missed>>
        BY <2>2 DEF GetWithdrawTransactionByHeight
      <3>2. Rows(row') = Rows(row)
        BY <3>1 DEF Rows
      <3>3. /\ Rows(row') \subseteq Rows(row) \cup {}
            /\ found' = found \cup {} /\ missed \subseteq missed'
        BY <3>1, <3>2
      <3>4. QED
        BY <2>2, <3>3
    <2>3. QED
      BY <2>1, <2>2
  <1>4. Control'
    BY <1>1, <1>2 DEF ScanInv, Control, Reached
  <1>5. RowsAreFound'
    BY <1>3 DEF ScanInv, RowsAreFound
  <1>6. cur + 1 <= tip
    BY <1>1, <1>2 DEF ScanInv, Control
  <1>7. RecordedIsFinal'
    <2>1. \A w \in kept : at[w] > 0 /\ at[w] + Depth <= tip
      BY <1>1, <1>3, <1>6 DEF WithdrawBlock
    <2>2. found' \cap NFT = found \cap NFT
      BY <1>3
    <2>3. QED
      BY <1>2, <1>3, <2>1, <2>2 DEF ScanInv, RecordedIsFinal
  <1>8. found \subseteq found' /\ missed \subseteq missed'
    BY <1>3
  <1>9. AllDone(stored)' /\ AllDone(cur)'
    BY <1>1, <1>2, <1>8
    DEF ScanInv, Cover, AllDone, WithdrawsDone, EvidenceDone, DepositsDone, NFTsDone, DoneWith
  <1>10. WithdrawsDone(cur + 1)'
    <2> SUFFICES ASSUME NEW w \in Withdraw, at[w] > 0, at[w] + Depth <= cur + 1,
                        at[w] + Depth > SyncStartHeight
                 PROVE  w \in found' \cup missed'
      BY <1>2 DEF WithdrawsDone, DoneWith
    <2>1. CASE at[w] + Depth <= cur
      BY <1>2, <1>8, <2>1 DEF ScanInv, Cover, AllDone, WithdrawsDone, DoneWith
    <2>2. CASE at[w] + Depth = cur + 1
      <3>1. cur >= Depth /\ at[w] = WithdrawBlock(cur)
        BY <1>1, <2>2 DEF WithdrawBlock
      <3>2. QED
        BY <1>3, <3>1 DEF ScanInv, RowsAreFound
    <2>3. QED
      BY <1>1, <2>1, <2>2
  <1>11. QED
    BY <1>2, <1>4, <1>5, <1>7, <1>9, <1>10 DEF Cover

\* The height moves on to a block whose withdraws and evidence are done and
\* whose failed deposits and NFTs are asked for next, if ever.
LEMMA MoveKeeps ==
  ASSUME ScanInv, ScanTypeOK', GetIllegalEvidenceByHeight
  PROVE  Control' /\ RowsAreFound' /\ RecordedIsFinal' /\ Cover'
  <1> USE ScanAssumption, EventKinds
  <1>1. /\ tip \in Nat /\ cur \in Nat /\ stored \in Nat /\ goal \in Nat
        /\ \A e \in Event : at[e] \in Nat
    BY DEF ScanInv, ScanTypeOK
  <1>2. /\ pc = "evidence"
        /\ UNCHANGED <<tip, at, goal, row, missed, late>>
        /\ found' = found \cup In(Evidence, cur + 1)
    BY DEF GetIllegalEvidenceByHeight, side
  <1>3. /\ cur' = cur + 1
        /\ stored' = stored \/ stored' = cur + 1
        /\ \/ SupportInvalidDeposit /\ pc' = "failed"
           \/ ~SupportInvalidDeposit /\ SupportNFT /\ cur + 1 >= Depth /\ pc' = "nft"
           \/ /\ ~SupportInvalidDeposit /\ ~(SupportNFT /\ cur + 1 >= Depth)
              /\ pc' = IF cur + 1 < goal THEN "withdraw" ELSE "store"
    BY Moved DEF ScanInv
  <1>4. stored <= cur /\ cur < goal /\ goal <= tip
    BY <1>2 DEF ScanInv, Control
  <1>5. Control'
    BY <1>1, <1>2, <1>3, <1>4 DEF ScanInv, Control, Reached
  <1>6. In(Evidence, cur + 1) \subseteq Evidence
    BY InBlock
  <1>7. RowsAreFound'
    BY <1>2 DEF ScanInv, RowsAreFound, Rows
  <1>8. RecordedIsFinal'
    <2>1. found' \cap Withdraw = found \cap Withdraw /\ found' \cap NFT = found \cap NFT
      BY <1>2, <1>6
    <2>2. QED
      BY <1>2, <2>1 DEF ScanInv, RecordedIsFinal
  <1>9. found \subseteq found'
    BY <1>2
  <1>10. AllDone(cur) /\ WithdrawsDone(cur + 1)
    BY <1>2 DEF ScanInv, Cover
  <1>11. WithdrawsDone(cur)'
    BY <1>2, <1>3, <1>9, <1>10 DEF WithdrawsDone, DoneWith
  <1>12. EvidenceDone(cur)'
    BY <1>1, <1>2, <1>3, <1>9, <1>10 DEF AllDone, EvidenceDone, DoneWith, In
  <1>13. DepositsDone(cur)'
    BY <1>1, <1>2, <1>3, <1>9, <1>10 DEF AllDone, DepositsDone, DoneWith
  <1>14. NFTsDone(cur)'
    BY <1>1, <1>2, <1>3, <1>9, <1>10 DEF AllDone, NFTsDone, DoneWith, NFTBlock
  <1>15. pc' # "sleep" /\ pc' # "evidence"
    BY <1>3
  <1>16. QED
    BY <1>5, <1>7, <1>8, <1>11, <1>12, <1>13, <1>14, <1>15, CoverInRound

\* The failed deposits and the NFTs asked for at the height the round got
\* to are entered, or passed over by a fault.
LEMMA AfterMoveKeeps ==
  ASSUME ScanInv, ScanTypeOK',
         \/ GetFailedDepositTransactions \/ GetFailedDepositsFails
         \/ GetNFTDestroyTransactionByHeight \/ GetNFTDestroyFails
  PROVE  Control' /\ RowsAreFound' /\ RecordedIsFinal' /\ Cover'
  <1> USE ScanAssumption, EventKinds
  <1>1. /\ tip \in Nat /\ cur \in Nat /\ stored \in Nat /\ goal \in Nat
        /\ \A e \in Event : at[e] \in Nat
    BY DEF ScanInv, ScanTypeOK
  <1>2. /\ pc \in {"failed", "nft"}
        /\ UNCHANGED <<tip, at, cur, goal, stored, row, late>>
        /\ found \subseteq found' /\ missed \subseteq missed'
    BY DEF GetFailedDepositTransactions, GetFailedDepositsFails,
           GetNFTDestroyTransactionByHeight, GetNFTDestroyFails, side, tables
  <1>3. /\ stored <= cur /\ cur <= goal /\ goal <= tip /\ Reached(stored) /\ Reached(cur)
        /\ AllDone(cur)
    BY <1>2 DEF ScanInv, Control, Cover
  \* What this step answers for.
  <1>4. /\ \A f \in FailedDeposit : pc = "failed" /\ at[f] = cur => f \in found' \cup missed'
        /\ \A n \in NFT : at[n] > 0 /\ at[n] = NFTBlock(cur) /\ SupportNFT =>
             n \in found' \cup missed' \/ pc' \in {"failed", "nft"}
        /\ pc' # "sleep" /\ pc' # "evidence"
        /\ pc' = "withdraw" => cur < goal
        /\ pc' = "nft" => cur >= Depth
        /\ pc' # "failed"
        /\ \A w \in Withdraw : w \in found' => w \in found
        /\ \A n \in NFT : n \in found' => n \in found \/ (cur >= Depth /\ at[n] = NFTBlock(cur))
    <2>1. CASE GetFailedDepositTransactions
      <3>1. PICK got \in SUBSET In(FailedDeposit, cur) :
              /\ found' = found \cup got
              /\ missed' = missed \cup (In(FailedDeposit, cur) \ got)
        BY <2>1 DEF GetFailedDepositTransactions
      <3>2. /\ \A f \in FailedDeposit : at[f] = cur => f \in found' \cup missed'
            /\ got \subseteq FailedDeposit
        BY <3>1 DEF In
      <3>3. \/ cur >= Depth /\ SupportNFT /\ pc' = "nft"
            \/ ~(cur >= Depth /\ SupportNFT) /\ pc' = IF cur < goal THEN "withdraw" ELSE "store"
        BY <2>1 DEF GetFailedDepositTransactions, AfterFailedDeposits, Continue
      <3>4. \A n \in NFT : at[n] > 0 /\ at[n] = NFTBlock(cur) /\ SupportNFT => pc' = "nft"
        BY <1>1, <3>3 DEF NFTBlock
      <3>5. \A n \in NFT \cup Withdraw : n \in found' => n \in found
        BY <3>1, <3>2
      <3>6. QED
        BY <3>2, <3>3, <3>4, <3>5
    <2>2. CASE GetFailedDepositsFails
      <3>1. /\ found' = found
            /\ missed' = missed \cup In(FailedDeposit, cur)
                                \cup (IF cur >= Depth THEN DestroyedAt(cur) ELSE {})
            /\ pc' = IF cur < goal THEN "withdraw" ELSE "store"
        BY <2>2 DEF GetFailedDepositsFails, Continue
      <3>2. \A f \in FailedDeposit : at[f] = cur => f \in missed'
        BY <3>1 DEF In
      <3>3. \A n \in NFT : at[n] > 0 /\ at[n] = NFTBlock(cur) => n \in missed'
        <4>1. \A n \in NFT : at[n] > 0 /\ at[n] = NFTBlock(cur) => cur >= Depth
          BY <1>1 DEF NFTBlock
        <4>2. QED
          BY <3>1, <4>1 DEF DestroyedAt, In
      <3>4. QED
        BY <3>1, <3>2, <3>3
    <2>3. CASE GetNFTDestroyTransactionByHeight
      <3>1. /\ pc = "nft" /\ cur >= Depth
            /\ found' = found \cup DestroyedAt(cur)
            /\ pc' = IF cur < goal THEN "withdraw" ELSE "store"
        BY <2>3 DEF GetNFTDestroyTransactionByHeight, Continue, ScanInv, Control
      <3>2. DestroyedAt(cur) = {n \in NFT : at[n] = NFTBlock(cur)}
        BY DEF DestroyedAt, In
      <3>3. QED
        BY <3>1, <3>2
    <2>4. CASE GetNFTDestroyFails
      <3>1. /\ pc = "nft" /\ found' = found /\ pc' = "store"
            /\ missed' = missed \cup DestroyedAt(cur)
        BY <2>4 DEF GetNFTDestroyFails
      <3>2. DestroyedAt(cur) = {n \in NFT : at[n] = NFTBlock(cur)}
        BY DEF DestroyedAt, In
      <3>3. QED
        BY <3>1, <3>2
    <2>5. QED
      BY <2>1, <2>2, <2>3, <2>4
  <1>5. Control'
    <2>1. Reached(stored)' /\ Reached(cur)'
      BY <1>2, <1>3 DEF Reached
    <2>2. pc' \in {"failed", "nft"} => cur' <= goal'
      BY <1>2, <1>3
    <2>3. QED
      BY <1>2, <1>3, <1>4, <2>1, <2>2 DEF Control
  <1>6. RowsAreFound'
    BY <1>2 DEF ScanInv, RowsAreFound, Rows
  <1>7. RecordedIsFinal'
    <2>1. \A n \in NFT : cur >= Depth /\ at[n] = NFTBlock(cur) => at[n] > 0 /\ at[n] + Depth <= tip + 1
      BY <1>1, <1>3 DEF NFTBlock
    <2>2. QED
      BY <1>2, <1>4, <2>1 DEF ScanInv, RecordedIsFinal
  <1>8. WithdrawsDone(cur)' /\ EvidenceDone(cur)'
    BY <1>2, <1>3 DEF AllDone, WithdrawsDone, EvidenceDone, DoneWith
  <1>9. DepositsDone(cur)'
    BY <1>2, <1>3, <1>4 DEF AllDone, DepositsDone, DoneWith
  <1>10. NFTsDone(cur)'
    BY <1>2, <1>3, <1>4 DEF AllDone, NFTsDone, DoneWith, NFTBlock
  <1>11. QED
    BY <1>4, <1>5, <1>6, <1>7, <1>8, <1>9, <1>10, CoverInRound

\* A call that fails before the height is moved ends the round there.
LEMMA EarlyFailKeeps ==
  ASSUME ScanInv, ScanTypeOK', GetWithdrawTransactionFails \/ GetIllegalEvidenceFails
  PROVE  Control' /\ RowsAreFound' /\ RecordedIsFinal' /\ Cover'
  <1>1. /\ pc \in {"withdraw", "evidence"} /\ pc' = "store"
        /\ UNCHANGED <<tip, at, cur, goal, stored, row, found, missed, late>>
    BY DEF GetWithdrawTransactionFails, GetIllegalEvidenceFails, side, tables, past
  <1>2. Control'
    BY <1>1 DEF ScanInv, Control, Reached
  <1>3. RowsAreFound' /\ RecordedIsFinal'
    BY <1>1 DEF ScanInv, RowsAreFound, Rows, RecordedIsFinal
  <1>4. AllDone(cur)'
    BY <1>1
    DEF ScanInv, Cover, AllDone, WithdrawsDone, EvidenceDone, DepositsDone, NFTsDone, DoneWith
  <1>5. QED
    BY <1>1, <1>2, <1>3, <1>4, CoverInRound DEF AllDone

-----------------------------------------------------------------------------
(***************************************************************************)
(* The other steps.                                                        *)
(***************************************************************************)
\* Were the height stored in the middle of a round, the crash passes over
\* what it had not asked for; otherwise the height is scanned again.
LEMMA CrashKeeps ==
  ASSUME ScanInv, Crash
  PROVE  Control' /\ RowsAreFound' /\ RecordedIsFinal' /\ Cover'
  <1> USE ScanAssumption, EventKinds
  <1>1. /\ tip \in Nat /\ cur \in Nat /\ stored \in Nat
        /\ \A e \in Event : at[e] \in Nat
    BY DEF ScanInv, ScanTypeOK
  <1>2. /\ pc' = "sleep" /\ cur' = 0 /\ goal' = 0
        /\ UNCHANGED <<tip, at, stored, row, found, late>>
        /\ missed' = missed \cup PassedOver
    BY DEF Crash, Killed, side, tables
  <1>3. Control'
    BY <1>1, <1>2 DEF ScanInv, Control, Reached
  <1>4. RowsAreFound' /\ RecordedIsFinal'
    BY <1>2 DEF ScanInv, RowsAreFound, Rows, RecordedIsFinal
  <1>5. AllDone(stored) /\ (pc # "sleep" => stored <= cur)
    BY DEF ScanInv, Cover, Control
  <1>6. WithdrawsDone(stored)' /\ EvidenceDone(stored)'
    BY <1>2, <1>5 DEF AllDone, WithdrawsDone, EvidenceDone, DoneWith
  <1>7. DepositsDone(stored)'
    <2> SUFFICES ASSUME SupportInvalidDeposit, NEW f \in FailedDeposit,
                        at[f] > 0, at[f] <= stored, at[f] > SyncStartHeight
                 PROVE  f \in found' \cup missed' \cup late'
      BY <1>1, <1>2 DEF DepositsDone, DoneWith
    <2>1. f \in found \cup missed \cup late \/ (pc = "failed" /\ at[f] = cur)
      BY <1>1, <1>5 DEF AllDone, DepositsDone, DoneWith
    <2>2. CASE pc = "failed" /\ at[f] = cur
      <3>1. ~(stored < cur)
        BY <1>1, <2>2
      <3>2. f \in PassedOver
        BY <2>2, <3>1 DEF PassedOver, In
      <3>3. QED
        BY <1>2, <3>2
    <2>3. QED
      BY <1>2, <2>1, <2>2
  <1>8. NFTsDone(stored)'
    <2> SUFFICES ASSUME SupportNFT, NEW n \in NFT, at[n] > 0, at[n] + (Depth - 1) <= stored,
                        at[n] + (Depth - 1) > SyncStartHeight
                 PROVE  n \in found' \cup missed'
      BY <1>1, <1>2 DEF NFTsDone, DoneWith
    <2>1. n \in found \cup missed \/ (pc \in {"failed", "nft"} /\ at[n] = NFTBlock(cur))
      BY <1>1, <1>5 DEF AllDone, NFTsDone, DoneWith
    <2>2. CASE pc \in {"failed", "nft"} /\ at[n] = NFTBlock(cur)
      <3>1. ~(stored < cur) /\ cur >= Depth
        BY <1>1, <2>2 DEF NFTBlock
      <3>2. n \in PassedOver
        BY <2>2, <3>1 DEF PassedOver, DestroyedAt, In
      <3>3. QED
        BY <1>2, <3>2
    <2>3. QED
      BY <1>2, <2>1, <2>2
  <1>9. QED
    BY <1>2, <1>3, <1>4, <1>6, <1>7, <1>8 DEF Cover, AllDone

\* No row is needed to know what was found.
LEMMA TakeOutKeeps ==
  ASSUME ScanInv, NEW w \in Withdraw, TakeOut(w)
  PROVE  Control' /\ RowsAreFound' /\ RecordedIsFinal' /\ Cover'
  <1>1. UNCHANGED <<tip, at, pc, cur, goal, stored, found, missed, late>>
    BY DEF TakeOut, side, loop, past
  <1>2. Control' /\ RecordedIsFinal'
    BY <1>1 DEF ScanInv, Control, Reached, RecordedIsFinal
  <1>3. Rows(row') \subseteq Rows(row)
    BY EventKinds, DeletedRows DEF TakeOut, ScanInv, ScanTypeOK
  <1>4. RowsAreFound'
    BY <1>1, <1>3 DEF ScanInv, RowsAreFound
  <1>5. Cover'
    BY <1>1
    DEF ScanInv, Cover, AllDone, WithdrawsDone, EvidenceDone, DepositsDone, NFTsDone, DoneWith, NFTBlock
  <1>6. QED
    BY <1>2, <1>4, <1>5

\* A step that changes nothing but ready.
LEMMA IdleKeeps ==
  ASSUME ScanInv, BecomeReady \/ UNCHANGED scanVars
  PROVE  Control' /\ RowsAreFound' /\ RecordedIsFinal' /\ Cover'
  <1>1. UNCHANGED <<tip, at, pc, cur, goal, stored, row, found, missed, late>>
    BY DEF BecomeReady, scanVars, side, loop, tables, past
  <1>2. Control' /\ RowsAreFound' /\ RecordedIsFinal'
    BY <1>1 DEF ScanInv, Control, Reached, RowsAreFound, Rows, RecordedIsFinal
  <1>3. Cover'
    BY <1>1
    DEF ScanInv, Cover, AllDone, WithdrawsDone, EvidenceDone, DepositsDone, NFTsDone, DoneWith, NFTBlock
  <1>4. QED
    BY <1>2, <1>3

LEMMA InvInit == ScanInit => ScanInv
  <1> SUFFICES ASSUME ScanInit PROVE ScanInv
    OBVIOUS
  <1> USE ScanAssumption, EventKinds
  <1>1. ScanTypeOK
    BY TypeInit
  <1>2. /\ tip = 0 /\ pc = "sleep" /\ cur = 0 /\ goal = 0 /\ stored = 0 /\ found = {}
        /\ \A e \in Event : at[e] = 0
        /\ row \in [Withdraw -> {0}]
    BY DEF ScanInit
  <1>3. Rows(row) = {}
    BY <1>2 DEF Rows
  <1>4. Control /\ RowsAreFound /\ RecordedIsFinal
    BY <1>2, <1>3 DEF Control, Reached, RowsAreFound, RecordedIsFinal
  <1>5. AllDone(stored)
    BY <1>2 DEF AllDone, WithdrawsDone, EvidenceDone, DepositsDone, NFTsDone, DoneWith
  <1>6. QED
    BY <1>1, <1>2, <1>4, <1>5 DEF ScanInv, Cover

LEMMA InvStep == ScanInv /\ [ScanNext]_scanVars => ScanInv'
  <1> SUFFICES ASSUME ScanInv, [ScanNext]_scanVars PROVE ScanInv'
    OBVIOUS
  <1>1. ScanTypeOK /\ Control
    BY DEF ScanInv
  <1>2. CASE UNCHANGED scanVars
    <2>1. OtherTypesOK'
      BY <1>1, <1>2 DEF ScanTypeOK, OtherTypesOK, scanVars, side, loop, tables, past, limits
    <2>2. ready' \in BOOLEAN
      BY <1>1, <1>2 DEF ScanTypeOK, scanVars
    <2>3. QED
      BY <1>2, <2>1, <2>2, TypePartsNext, IdleKeeps DEF ScanInv
  <1>3. CASE ScanNext
    <2>1. ScanTypeOK'
      BY <1>1, <1>3, StepTypes
    <2>2. CASE Grow \/ Reorganise
      BY <2>1, <2>2, SideKeeps DEF ScanInv
    <2>3. ASSUME NEW w \in Withdraw, TakeOut(w) PROVE ScanInv'
      BY <2>1, <2>3, TakeOutKeeps DEF ScanInv
    <2>4. CASE BecomeReady
      BY <2>1, <2>4, IdleKeeps DEF ScanInv
    <2>5. CASE Sync
      BY <2>1, <2>5, RoundKeeps, WithdrawCallKeeps, MoveKeeps, AfterMoveKeeps DEF Sync, ScanInv
    <2>6. CASE CallFails
      BY <2>1, <2>6, EarlyFailKeeps, AfterMoveKeeps DEF CallFails, ScanInv
    <2>7. CASE Crash
      BY <2>1, <2>7, CrashKeeps DEF ScanInv
    <2>8. QED
      BY <1>3, <2>2, <2>3, <2>4, <2>5, <2>6, <2>7 DEF ScanNext
  <1>4. QED
    BY <1>2, <1>3

-----------------------------------------------------------------------------
(***************************************************************************)
(* The theorems.                                                           *)
(***************************************************************************)
\* The invariant the others follow from.
THEOREM ScanInvHolds == ScanSpec => []ScanInv
  BY InvInit, InvStep, PTL DEF ScanSpec

\* Type correctness of SyncChainData and the tables it fills.
THEOREM TypeCorrect == ScanSpec => []ScanTypeOK
  <1>1. ScanInv => ScanTypeOK
    BY DEF ScanInv
  <1>2. QED
    BY <1>1, ScanInvHolds, PTL

\* No branch that replaces fewer than Depth blocks of the side chain takes
\* back a withdraw SyncChainData wrote to SideChainTxs, or an NFT it wrote
\* to NFTDestroyTxs.
THEOREM RecordedStays == ScanSpec => []RecordedIsFinal
  <1>1. ScanInv => RecordedIsFinal
    BY DEF ScanInv
  <1>2. QED
    BY <1>1, ScanInvHolds, PTL

\* The height CurrentSideHeight stores never runs ahead of SideChainTxs,
\* whichever calls fail and wherever the process dies.
THEOREM WithdrawsCovered == ScanSpec => []NoWithdrawSkipped
  <1>1. ScanInv => NoWithdrawSkipped
    BY DEF ScanInv, Cover, AllDone, WithdrawsDone, NoWithdrawSkipped
  <1>2. QED
    BY <1>1, ScanInvHolds, PTL

\* Nor does it run ahead of the evidence SyncChainData handed on.
THEOREM EvidenceCovered == ScanSpec => []NoEvidenceSkipped
  <1>1. ScanInv => NoEvidenceSkipped
    BY DEF ScanInv, Cover, AllDone, EvidenceDone, NoEvidenceSkipped
  <1>2. QED
    BY <1>1, ScanInvHolds, PTL

\* A failed deposit or an NFT behind the stored height is in its table
\* unless a call that failed, a crash just after an intermediate store of
\* the height, or a branch made SyncChainData pass over it.
THEOREM PassedOverByFaults == ScanSpec => []OnlyFaultsPassOver
  <1>1. ScanInv => OnlyFaultsPassOver
    BY DEF ScanInv, Cover, AllDone, DepositsDone, NFTsDone, OnlyFaultsPassOver
  <1>2. QED
    BY <1>1, ScanInvHolds, PTL
-----------------------------------------------------------------------------
(***************************************************************************)
(* How often a failed deposit is entered.                                  *)
(***************************************************************************)
\* The block of f was asked for its failed deposits, and will not be again
\* by this process: between two rounds the scan stands at the stored height.
Passed(f) ==
  /\ at[f] > 0
  /\ IF pc = "sleep" THEN at[f] <= stored
     ELSE at[f] <= cur /\ ~(pc = "failed" /\ at[f] = cur)

\* A crash and a branch give a deposit one more row at the most, and so does
\* being passed for the first time.
EnteredWhenPassed ==
  \A f \in FailedDeposit :
    returns[f] <= crashes + reorgs + (IF Passed(f) THEN 1 ELSE 0)

\* Failed deposits are asked for after a move to another height.
MovedOn == pc = "failed" => cur > 0

ReturnInv == ScanInv /\ MovedOn /\ EnteredWhenPassed

\* A count n is below c and one more where passed is 1; c grows, or passed
\* does not fall.
LEMMA CountBound ==
  ASSUME NEW n \in Nat, NEW c \in Nat, NEW d \in Nat,
         NEW passed \in {0, 1}, NEW after \in {0, 1},
         n <= c + passed, c <= d, c < d \/ passed <= after
  PROVE  n <= d + after
  OBVIOUS

\* A step that adds no row and lets no deposit be passed again.
LEMMA PassedOnceMore ==
  ASSUME ScanTypeOK, EnteredWhenPassed, returns' = returns,
         crashes + reorgs \in Nat, crashes' + reorgs' \in Nat,
         crashes + reorgs <= crashes' + reorgs',
         \/ crashes + reorgs < crashes' + reorgs'
         \/ \A g \in FailedDeposit : Passed(g) => Passed(g)'
  PROVE  EnteredWhenPassed'
  <1>1. ASSUME NEW f \in FailedDeposit
        PROVE  returns'[f] <= crashes' + reorgs' + (IF Passed(f)' THEN 1 ELSE 0)
    <2> DEFINE passed == IF Passed(f) THEN 1 ELSE 0
               after  == IF Passed(f)' THEN 1 ELSE 0
               before == crashes + reorgs
               now    == crashes' + reorgs'
    <2>1. returns'[f] \in Nat
      BY DEF ScanTypeOK
    <2>2. before \in Nat /\ now \in Nat
      OBVIOUS
    <2>3. passed \in {0, 1} /\ after \in {0, 1}
      OBVIOUS
    <2>4. returns'[f] <= before + passed
      BY DEF EnteredWhenPassed
    <2>5. before <= now /\ (before < now \/ passed <= after)
      OBVIOUS
    <2> HIDE DEF passed, after, before, now
    <2>6. returns'[f] <= now + after
      BY <2>1, <2>2, <2>3, <2>4, <2>5, CountBound
    <2>7. QED
      BY <2>6 DEF now, after
  <1>2. QED
    BY <1>1 DEF EnteredWhenPassed

\* The rows of GetFailedDepositTransactions are of deposits it passes.
LEMMA EnteringPasses ==
  ASSUME ScanTypeOK, MovedOn, EnteredWhenPassed, GetFailedDepositTransactions
  PROVE  EnteredWhenPassed'
  <1>1. ASSUME NEW f \in FailedDeposit
        PROVE  returns'[f] <= crashes' + reorgs' + (IF Passed(f)' THEN 1 ELSE 0)
    <2>1. /\ returns[f] \in Nat /\ crashes \in Nat /\ reorgs \in Nat
          /\ crashes' = crashes /\ reorgs' = reorgs
          /\ at[f] \in Nat /\ cur \in Nat /\ stored \in Nat
      BY EventKinds, ScanAssumption DEF ScanTypeOK, GetFailedDepositTransactions
    <2>2. returns[f] <= crashes + reorgs + (IF Passed(f) THEN 1 ELSE 0)
      BY DEF EnteredWhenPassed
    <2>3. /\ pc = "failed" /\ pc' \notin {"sleep", "failed"}
          /\ at' = at /\ cur' = cur
      BY DEF GetFailedDepositTransactions, AfterFailedDeposits, Continue, side
    <2>4. PICK got \in SUBSET In(FailedDeposit, cur) :
            returns' = [g \in FailedDeposit |-> IF g \in got THEN returns[g] + 1 ELSE returns[g]]
      BY DEF GetFailedDepositTransactions
    <2>5. Passed(f) => f \notin got
      BY <2>3 DEF Passed, In
    <2>6. f \in got => at[f] = cur
      BY DEF In
    <2>7. Passed(f) => Passed(f)'
      BY <2>1, <2>3 DEF Passed
    <2>8. CASE f \in got
      <3>1. returns'[f] = returns[f] + 1 /\ ~Passed(f)
        BY <2>4, <2>5, <2>8
      <3>2. at[f] > 0 => Passed(f)'
        BY <2>1, <2>3, <2>6, <2>8 DEF Passed
      <3>3. cur > 0
        BY <2>3 DEF MovedOn
      <3>4. QED
        BY <2>1, <2>2, <2>6, <2>8, <3>1, <3>2, <3>3
    <2>9. CASE f \notin got
      <3>1. returns'[f] = returns[f]
        BY <2>4, <2>9
      <3>2. QED
        BY <2>1, <2>2, <2>7, <3>1
    <2>10. QED
      BY <2>8, <2>9
  <1>2. QED
    BY <1>1 DEF EnteredWhenPassed

\* A step that leaves the scan and the blocks where they are.
LEMMA StandingKeepsPassed ==
  ASSUME UNCHANGED <<at, pc, cur, stored>>
  PROVE  \A f \in FailedDeposit : Passed(f) => Passed(f)'
  BY DEF Passed

\* A new block takes no deposit out of its block.
LEMMA GrowKeepsPassed ==
  ASSUME ScanTypeOK, Grow
  PROVE  \A f \in FailedDeposit : Passed(f) => Passed(f)'
  <1>1. PICK block \in SUBSET In(Event, 0) :
          at' = [e \in Event |-> IF e \in block THEN tip + 1 ELSE at[e]]
    BY DEF Grow
  <1>2. \A f \in FailedDeposit : at[f] > 0 => at'[f] = at[f]
    BY <1>1, EventKinds DEF In
  <1>3. UNCHANGED <<pc, cur, stored>>
    BY DEF Grow, loop
  <1>4. QED
    BY <1>2, <1>3 DEF Passed

\* What the scan has passed it does not come back to, in this round or the
\* next, while the process lives.
LEMMA SyncKeepsPassed ==
  ASSUME ScanTypeOK, Control, Sync \/ CallFails
  PROVE  \A f \in FailedDeposit : Passed(f) => Passed(f)'
  <1>1. cur \in Nat /\ stored \in Nat /\ \A f \in FailedDeposit : at[f] \in Nat
    BY EventKinds, ScanAssumption DEF ScanTypeOK
  <1>2. pc # "sleep" => stored <= cur
    BY DEF Control
  <1>3. CASE NeedSyncBlocks
    <2>1. /\ pc = "sleep" /\ pc' \in {"withdraw", "store"}
          /\ cur' >= stored /\ cur' \in Nat /\ at' = at
      BY <1>1, <1>3, ScanAssumption DEF NeedSyncBlocks, Continue, side
    <2>2. QED
      BY <1>1, <2>1 DEF Passed
  <1>4. CASE StoreHeight
    <2>1. /\ pc = "store" /\ pc' = "sleep" /\ stored' >= cur /\ at' = at /\ stored' \in Nat
      BY <1>1, <1>4 DEF StoreHeight, CurrentSideHeight, side
    <2>2. QED
      BY <1>1, <2>1 DEF Passed
  <1>5. CASE GetIllegalEvidenceByHeight
    <2>1. pc = "evidence" /\ cur' = cur + 1 /\ at' = at
      BY <1>1, <1>2, <1>5 DEF GetIllegalEvidenceByHeight, CurrentSideHeight, side
    <2>2. pc' # "sleep"
      BY <1>5 DEF GetIllegalEvidenceByHeight, AfterMove, Continue
    <2>3. QED
      BY <1>1, <2>1, <2>2 DEF Passed
  <1>6. ASSUME pc # "sleep", pc' \notin {"sleep", "failed"}, cur' = cur, at' = at
        PROVE  \A f \in FailedDeposit : Passed(f) => Passed(f)'
    BY <1>1, <1>6 DEF Passed
  <1>7. CASE GetWithdrawTransactionByHeight \/ GetWithdrawTransactionFails \/ GetIllegalEvidenceFails
    BY <1>6, <1>7 DEF GetWithdrawTransactionByHeight, GetWithdrawTransactionFails,
                      GetIllegalEvidenceFails, side
  <1>8. CASE GetFailedDepositTransactions \/ GetFailedDepositsFails
    BY <1>6, <1>8 DEF GetFailedDepositTransactions, GetFailedDepositsFails,
                      AfterFailedDeposits, Continue, side
  <1>9. CASE GetNFTDestroyTransactionByHeight \/ GetNFTDestroyFails
    BY <1>6, <1>9 DEF GetNFTDestroyTransactionByHeight, GetNFTDestroyFails, Continue, side
  <1>10. QED
    BY <1>3, <1>4, <1>5, <1>7, <1>8, <1>9 DEF Sync, CallFails

LEMMA MovedOnStep ==
  ASSUME ScanTypeOK, Control, MovedOn, [ScanNext]_scanVars
  PROVE  MovedOn'
  <1>1. cur \in Nat /\ stored \in Nat /\ (pc # "sleep" => stored <= cur)
    BY DEF ScanTypeOK, Control
  <1>2. CASE UNCHANGED <<pc, cur>>
    BY <1>2 DEF MovedOn
  <1>3. CASE pc' # "failed"
    BY <1>3 DEF MovedOn
  <1>4. CASE GetIllegalEvidenceByHeight
    <2>1. cur' = cur + 1
      BY <1>1, <1>4 DEF GetIllegalEvidenceByHeight, CurrentSideHeight
    <2>2. QED
      BY <1>1, <2>1 DEF MovedOn
  <1>5. CASE Sync \/ CallFails
    BY <1>3, <1>4, <1>5
       DEF Sync, CallFails, NeedSyncBlocks, GetWithdrawTransactionByHeight,
           GetFailedDepositTransactions, AfterFailedDeposits,
           GetNFTDestroyTransactionByHeight, StoreHeight, Continue,
           GetWithdrawTransactionFails, GetIllegalEvidenceFails,
           GetFailedDepositsFails, GetNFTDestroyFails
  <1>6. CASE Grow \/ Reorganise \/ BecomeReady \/ \E w \in Withdraw : TakeOut(w)
    BY <1>2, <1>6 DEF Grow, Reorganise, BecomeReady, TakeOut, loop
  <1>7. CASE Crash
    BY <1>3, <1>7 DEF Crash, Killed
  <1>8. CASE UNCHANGED scanVars
    BY <1>2, <1>8 DEF scanVars, loop
  <1>9. QED
    BY <1>5, <1>6, <1>7, <1>8 DEF ScanNext

LEMMA ReturnInit == ScanInit => ReturnInv
  <1> SUFFICES ASSUME ScanInit PROVE ReturnInv
    OBVIOUS
  <1>1. \A f \in FailedDeposit : returns[f] = 0 /\ at[f] = 0
    BY EventKinds DEF ScanInit
  <1>2. crashes = 0 /\ reorgs = 0 /\ pc = "sleep"
    BY DEF ScanInit
  <1>3. QED
    BY <1>1, <1>2, InvInit DEF ReturnInv, MovedOn, EnteredWhenPassed

LEMMA ReturnStep == ReturnInv /\ [ScanNext]_scanVars => ReturnInv'
  <1> SUFFICES ASSUME ReturnInv, [ScanNext]_scanVars PROVE ReturnInv'
    OBVIOUS
  <1>1. ScanInv /\ ScanTypeOK /\ Control /\ MovedOn /\ EnteredWhenPassed
    BY DEF ReturnInv, ScanInv
  <1>2. ScanInv' /\ ScanTypeOK' /\ MovedOn'
    <2>1. ScanInv'
      BY <1>1, InvStep
    <2>2. QED
      BY <1>1, <2>1, MovedOnStep DEF ScanInv
  <1>3. crashes \in Nat /\ reorgs \in Nat
    BY <1>1 DEF ScanTypeOK
  <1>4. CASE GetFailedDepositTransactions
    BY <1>1, <1>2, <1>4, EnteringPasses DEF ReturnInv
  <1>5. ASSUME UNCHANGED <<returns, crashes, reorgs>>,
               \A f \in FailedDeposit : Passed(f) => Passed(f)'
        PROVE  ReturnInv'
    <2>1. /\ returns' = returns /\ crashes + reorgs \in Nat /\ crashes' + reorgs' \in Nat
          /\ crashes + reorgs <= crashes' + reorgs'
      <3>1. returns' = returns /\ crashes' = crashes /\ reorgs' = reorgs
        BY <1>5
      <3>2. crashes + reorgs \in Nat /\ crashes + reorgs <= crashes + reorgs
        BY <1>3
      <3>3. QED
        BY <3>1, <3>2
    <2>2. QED
      BY <1>1, <1>2, <1>5, <2>1, PassedOnceMore DEF ReturnInv
  <1>6. CASE UNCHANGED scanVars
    BY <1>5, <1>6, StandingKeepsPassed DEF scanVars, side, loop, tables, limits
  <1>7. CASE Grow
    <2>1. UNCHANGED <<returns, crashes, reorgs>>
      BY <1>7 DEF Grow, tables, limits
    <2>2. QED
      BY <1>1, <1>5, <1>7, <2>1, GrowKeepsPassed
  <1>8. CASE Reorganise \/ Crash
    <2>1. /\ UNCHANGED returns
          /\ \/ crashes' = crashes /\ reorgs' = reorgs + 1
             \/ crashes' = crashes + 1 /\ reorgs' = reorgs
      BY <1>8 DEF Reorganise, Crash, Killed, tables
    <2>2. /\ crashes + reorgs \in Nat /\ crashes' + reorgs' \in Nat
          /\ crashes + reorgs < crashes' + reorgs' /\ crashes + reorgs <= crashes' + reorgs'
      BY <1>3, <2>1
    <2>3. QED
      BY <1>1, <1>2, <2>1, <2>2, PassedOnceMore DEF ReturnInv
  <1>9. CASE BecomeReady \/ \E w \in Withdraw : TakeOut(w)
    <2>1. UNCHANGED <<returns, crashes, reorgs, at, pc, cur, stored>>
      BY <1>9 DEF BecomeReady, TakeOut, side, loop, tables, limits
    <2>2. QED
      BY <1>5, <2>1, StandingKeepsPassed
  <1>10. CASE (Sync \/ CallFails) /\ ~GetFailedDepositTransactions
    <2>1. UNCHANGED <<returns, crashes, reorgs>>
      BY <1>10 DEF Sync, CallFails, NeedSyncBlocks, GetWithdrawTransactionByHeight,
           GetIllegalEvidenceByHeight, GetNFTDestroyTransactionByHeight, StoreHeight,
           GetWithdrawTransactionFails, GetIllegalEvidenceFails,
           GetFailedDepositsFails, GetNFTDestroyFails, tables, limits
    <2>2. QED
      BY <1>1, <1>5, <1>10, <2>1, SyncKeepsPassed
  <1>11. QED
    BY <1>4, <1>6, <1>7, <1>8, <1>9, <1>10 DEF ScanNext

\* AddReturnDepositTx has no UNIQUE key: a failed deposit gets a second row
\* only by a crash of SyncChainData or by a branch of the side chain, one
\* for each.
THEOREM ReturnsBounded == ScanSpec => []ReturnsEnteredOnce
  <1>1. ReturnInv => ReturnsEnteredOnce
    <2> SUFFICES ASSUME ReturnInv, NEW f \in FailedDeposit
                 PROVE  returns[f] <= 1 + crashes + reorgs
      BY DEF ReturnsEnteredOnce
    <2>1. returns[f] \in Nat /\ crashes \in Nat /\ reorgs \in Nat
      BY DEF ReturnInv, ScanInv, ScanTypeOK
    <2>2. QED
      BY <2>1 DEF ReturnInv, EnteredWhenPassed
  <1>2. QED
    BY <1>1, ReturnInit, ReturnStep, PTL DEF ScanSpec
===============================================================================
