------------------------- MODULE SignCollectionProofs -------------------------
(***************************************************************************)
(* Proofs about SignCollection for every set of arbiters, transactions and *)
(* hashes, every sequence of arbiter lists, and any number of blocks,      *)
(* resets, duplicated answers and crashes.                                 *)
(***************************************************************************)
EXTENDS SignCollectionInv, FiniteSetTheorems, TLAPS

-----------------------------------------------------------------------------
(***************************************************************************)
(* Types of the operators.                                                 *)
(***************************************************************************)
LEMMA GroupTypes ==
  ASSUME NEW l \in Height \cup {None}
  PROVE  /\ Members(l) \in SUBSET Arbiter
         /\ Seats(l) \in Nat
  <1>1. CASE l = None
    BY <1>1 DEF Members, Seats
  <1>2. CASE l # None
    <2>1. GroupAt[l] \in Group
      BY <1>2, ConstantsAssumption
    <2>2. QED
      BY <1>2, <2>1 DEF Members, Seats, Group
  <1>3. QED
    BY <1>1, <1>2

\* The threshold is a number, whatever the height.
LEMMA AgreementCountType ==
  ASSUME NEW n \in Nat, NEW h \in Height
  PROVE  AgreementCount(n, h) \in Int
  BY DEF AgreementCount

(***************************************************************************)
(* A consumer that is not idle holds a transaction and an answer to it.    *)
(***************************************************************************)
LEMMA HandlerFields ==
  ASSUME handler \in HandlerStates, handler.pc # "idle"
  PROVE  /\ handler.prop \in Proposal
         /\ handler.signer \in Arbiter
         /\ handler.seats \in Nat
         /\ handler # Idle
  BY DEF HandlerStates, Idle

\* The consumer is in one of its states while it holds a content.
LEMMA HoldingType ==
  ASSUME NEW pc \in {"found", "merged", "recorded", "counted", "agreed"},
         NEW p \in Proposal, NEW a \in Arbiter, NEW n \in Nat
  PROVE  /\ Holding(pc, p, a, n) \in HandlerStates
         /\ Holding(pc, p, a, n).pc = pc
         /\ Holding(pc, p, a, n).prop = p
         /\ Holding(pc, p, a, n).signer = a
         /\ Holding(pc, p, a, n).seats = n
  BY DEF HandlerStates, Holding

\* The idle consumer is one of its states.
LEMMA IdleType == Idle \in HandlerStates /\ Idle.pc = "idle"
  BY DEF HandlerStates, Idle

-----------------------------------------------------------------------------
(***************************************************************************)
(* Type correctness.                                                       *)
(***************************************************************************)
LEMMA ZeroIsHeight == 0 \in Height
  BY ConstantsAssumption DEF Height

\* A restart leaves every variable in its type.
LEMMA RestartKeepsTypes ==
  ASSUME TypeInv, Restart, crashes' \in Nat
  PROVE  TypeInv'
  <1> USE DEF TypeInv, SyncHasList, TypeOK, Restart, netVars
  <1>1. /\ chain' \in Height /\ stored' \in Height /\ height' \in Height
        /\ listAt' \in Height \cup {None} /\ onDuty' \in BOOLEAN
    BY ZeroIsHeight
  <1>2. status' \in [Proposal ->
          {"none", "spawned", "listed", "created", "signed", "sent", "gone"}]
    OBVIOUS
  <1>3. /\ contents' \in [Hash -> Proposal \cup {None}]
        /\ signs' \in [Hash -> (SUBSET Arbiter) \cup {None}]
    OBVIOUS
  <1>4. handler' \in HandlerStates
    BY IdleType
  <1>5. QED
    BY <1>1, <1>2, <1>3, <1>4

\* Every step keeps the types, and the list once the sync goroutine has one.
LEMMA TypeStep ==
  ASSUME TypeInv, [Next]_vars
  PROVE  TypeInv'
  <1> USE DEF TypeInv, SyncHasList, TypeOK, syncVars, txVars, mapVars, netVars
  <1>1. CASE Crash
    BY <1>1, RestartKeepsTypes, ConstantsAssumption DEF Crash
  <1>2. CASE NewBlock
    BY <1>2, ConstantsAssumption DEF NewBlock, Height
  <1>3. ASSUME NEW h \in Height, SyncList(h) PROVE TypeInv'
    <2>1. stored' \in Height
      BY <1>3 DEF SyncList, SyncChainData
    <2>2. /\ listAt' \in Height /\ listAt' # None /\ syncPc' = "listed"
      BY <1>3, ConstantsAssumption DEF SyncList, SyncChainData
    <2>3. QED
      BY <1>3, <2>1, <2>2 DEF SyncList, SyncChainData
  <1>4. CASE SyncHeight
    BY <1>4 DEF SyncHeight
  <1>5. CASE CheckOnDutyStatus
    BY <1>5 DEF CheckOnDutyStatus
  <1>6. CASE ResetContents
    BY <1>6 DEF ResetContents
  <1>7. ASSUME NEW spawned \in SUBSET Proposal, ResetSigns(spawned) PROVE TypeInv'
    BY <1>7 DEF ResetSigns
  <1>8. ASSUME NEW p \in Proposal, CreateRedeemScript(p) PROVE TypeInv'
    BY <1>8 DEF CreateRedeemScript
  <1>9. ASSUME NEW p \in Proposal, CreateTransaction(p) PROVE TypeInv'
    BY <1>9, GroupTypes, AgreementCountType DEF CreateTransaction
  <1>10. ASSUME NEW p \in Proposal, InitScript(p) PROVE TypeInv'
    <2>1. <<Self>> \in Seq(Arbiter)
      BY ConstantsAssumption
    <2>2. params' \in [Proposal -> Seq(Arbiter)]
      BY <1>10, <2>1 DEF InitScript
    <2>3. script' \in [Proposal -> Height \cup {None}]
      BY <1>10 DEF InitScript
    <2>4. status' \in [Proposal ->
            {"none", "spawned", "listed", "created", "signed", "sent", "gone"}]
      BY <1>10 DEF InitScript
    <2>5. QED
      BY <1>10, <2>2, <2>3, <2>4 DEF InitScript
  <1>11. ASSUME NEW p \in Proposal, BroadcastWithdrawProposal(p) PROVE TypeInv'
    <2>1. TxHash[p] \in Hash /\ Self \in Arbiter
      BY ConstantsAssumption
    <2>2. contents' \in [Hash -> Proposal \cup {None}]
      BY <1>11, <2>1 DEF BroadcastWithdrawProposal
    <2>3. signs' \in [Hash -> (SUBSET Arbiter) \cup {None}]
      <3>1. {Self} \in (SUBSET Arbiter) \cup {None}
        BY <2>1
      <3>2. QED
        BY <1>11, <2>1, <3>1 DEF BroadcastWithdrawProposal
    <2>4. inbox' \subseteq [prop : Proposal, peer : Arbiter]
      <3>1. Members(script[p]) \in SUBSET Arbiter
        BY GroupTypes
      <3>2. QED
        BY <1>11, <3>1 DEF BroadcastWithdrawProposal
    <2>5. status' \in [Proposal ->
            {"none", "spawned", "listed", "created", "signed", "sent", "gone"}]
      BY <1>11 DEF BroadcastWithdrawProposal
    <2>6. QED
      BY <1>11, <2>2, <2>3, <2>4, <2>5 DEF BroadcastWithdrawProposal
  <1>12. ASSUME NEW m \in inbox, OnReceivedProposal(m) PROVE TypeInv'
    BY <1>12 DEF OnReceivedProposal
  <1>13. ASSUME NEW m \in answers, LookupContent(m) PROVE TypeInv'
    <2>1. TxHash[m.prop] \in Hash /\ m.signer \in Arbiter
      BY ConstantsAssumption
    <2>2. handler' \in HandlerStates
      BY <1>13, <2>1, IdleType, HoldingType DEF LookupContent
    <2>3. answers' \subseteq [prop : Proposal, signer : Arbiter]
      BY <1>13 DEF LookupContent
    <2>4. QED
      BY <1>13, <2>2, <2>3 DEF LookupContent
  <1>14. CASE MergeSign
    <2>1. handler.prop \in Proposal /\ handler.signer \in Arbiter
      BY <1>14, HandlerFields DEF MergeSign
    <2>2. handler' \in HandlerStates
      BY <1>14, <2>1, IdleType, HoldingType DEF MergeSign
    <2>3. Append(params[handler.prop], handler.signer) \in Seq(Arbiter)
      BY <2>1
    <2>4. params' \in [Proposal -> Seq(Arbiter)]
      BY <1>14, <2>1, <2>3 DEF MergeSign
    <2>5. QED
      BY <1>14, <2>2, <2>4 DEF MergeSign
  <1>15. CASE RecordSigner
    <2>1. /\ handler.prop \in Proposal /\ handler.signer \in Arbiter
          /\ TxHash[handler.prop] \in Hash
      BY <1>15, HandlerFields, ConstantsAssumption DEF RecordSigner
    <2>2. CASE signs[TxHash[handler.prop]] = None
      BY <1>15, <2>2, RestartKeepsTypes DEF RecordSigner
    <2>3. CASE signs[TxHash[handler.prop]] # None
      <3>1. signs' \in [Hash -> (SUBSET Arbiter) \cup {None}]
        <4>1. signs[TxHash[handler.prop]] \cup {handler.signer} \in (SUBSET Arbiter) \cup {None}
          BY <2>1, <2>3
        <4>2. QED
          BY <1>15, <2>1, <2>3, <4>1 DEF RecordSigner
      <3>2. handler' \in HandlerStates
        BY <1>15, <2>1, <2>3, HoldingType DEF RecordSigner
      <3>3. QED
        BY <1>15, <2>3, <3>1, <3>2 DEF RecordSigner
    <2>4. QED
      BY <2>2, <2>3
  <1>16. CASE CountArbiters
    BY <1>16, HoldingType, HandlerFields, GroupTypes DEF CountArbiters
  <1>17. CASE CheckAgreement
    <2>1. handler.prop \in Proposal /\ handler.signer \in Arbiter
      BY <1>17, HandlerFields DEF CheckAgreement
    <2>2. handler' \in HandlerStates
      BY <1>17, <2>1, IdleType, HoldingType DEF CheckAgreement
    <2>3. /\ contents' \in [Hash -> Proposal \cup {None}]
          /\ signs' \in [Hash -> (SUBSET Arbiter) \cup {None}]
      BY <1>17 DEF CheckAgreement, DeleteContent
    <2>4. QED
      BY <1>17, <2>2, <2>3 DEF CheckAgreement
  <1>18. CASE Submit
    BY <1>18, IdleType, HandlerFields DEF Submit
  <1>19. CASE UNCHANGED vars
    BY <1>19 DEF vars
  <1>20. QED
    BY <1>1, <1>2, <1>3, <1>4, <1>5, <1>6, <1>7, <1>8, <1>9, <1>10, <1>11, <1>12, <1>13,
       <1>14, <1>15, <1>16, <1>17, <1>18, <1>19 DEF Next, Sync, Send, Clients, Consume

\* The process starts with every variable in its type.
LEMMA TypeInit == Init => TypeInv
  <1> SUFFICES ASSUME Init PROVE TypeInv
    OBVIOUS
  <1>1. 0 \in Height
    BY ZeroIsHeight
  <1>2. <<>> \in Seq(Arbiter)
    OBVIOUS
  <1>3. params \in [Proposal -> Seq(Arbiter)]
    BY <1>2 DEF Init
  <1>4. status \in [Proposal ->
          {"none", "spawned", "listed", "created", "signed", "sent", "gone"}]
    BY DEF Init
  <1>5. code \in [Proposal -> [at : Height \cup {None}, m : Int]]
    BY DEF Init
  <1>6. QED
    BY <1>1, <1>3, <1>4, <1>5, IdleType DEF Init, TypeInv, SyncHasList, TypeOK

(***************************************************************************)
(* The variables of the server, the network and the arbiter group keep     *)
(* their types.                                                            *)
(***************************************************************************)
THEOREM TypeCorrect == Spec => []TypeOK
  BY TypeInit, TypeStep, PTL DEF Spec, TypeInv

-----------------------------------------------------------------------------
(***************************************************************************)
(* An object is submitted at most once.                                    *)
(***************************************************************************)
\* Restart forgets the maps and the consumer, and takes the objects with it.
LEMMA OnceRestart ==
  ASSUME OnceInv, TypeInv', Restart
  PROVE  OnceInv'
  <1> USE DEF OnceInv, Restart, Live, Held, HeldAt, Unsent
  <1>1. \A p \in Proposal : ~Live(p)' /\ ~HeldAt(p, "agreed")'
    BY IdleType, ConstantsAssumption
  <1>2. FiledUnderItsHash'
    BY DEF FiledUnderItsHash
  <1>3. LiveIsSent' /\ LiveIsUnsubmitted' /\ AgreedIsDeleted'
    BY <1>1 DEF LiveIsSent, LiveIsUnsubmitted, AgreedIsDeleted
  <1>4. UnsentIsUnsubmitted'
    BY DEF UnsentIsUnsubmitted, TypeInv, TypeOK
  <1>5. SubmittedAtMostOnce'
    BY DEF SubmittedAtMostOnce
  <1>6. QED
    BY <1>2, <1>3, <1>4, <1>5

\* A step that changes none of the four variables the invariant is about.
LEMMA OnceFrame ==
  ASSUME OnceInv, TypeInv', UNCHANGED <<status, contents, handler, submitted>>
  PROVE  OnceInv'
  BY DEF OnceInv, FiledUnderItsHash, LiveIsSent, LiveIsUnsubmitted, UnsentIsUnsubmitted,
         AgreedIsDeleted, SubmittedAtMostOnce, Live, Held, HeldAt

\* A sending goroutine moves on before its transaction is in the map.
LEMMA OnceProgress ==
  ASSUME OnceInv, TypeInv', NEW p \in Proposal, NEW next \in {"listed", "created", "signed", "gone"},
         status[p] \in Unsent, status' = [status EXCEPT ![p] = next],
         UNCHANGED <<contents, handler, submitted>>
  PROVE  OnceInv'
  <1> USE DEF OnceInv, TypeInv, TypeOK, Live, Held, HeldAt, Unsent
  <1>1. ~Live(p) /\ submitted[p] = 0
    BY DEF LiveIsSent, UnsentIsUnsubmitted
  <1>2. \A q \in Proposal : q # p => status'[q] = status[q]
    OBVIOUS
  <1>3. LiveIsSent' /\ LiveIsUnsubmitted'
    BY <1>1, <1>2 DEF LiveIsSent, LiveIsUnsubmitted
  <1>4. UnsentIsUnsubmitted'
    BY <1>1, <1>2 DEF UnsentIsUnsubmitted
  <1>5. FiledUnderItsHash' /\ AgreedIsDeleted' /\ SubmittedAtMostOnce'
    BY DEF FiledUnderItsHash, AgreedIsDeleted, SubmittedAtMostOnce
  <1>6. QED
    BY <1>3, <1>4, <1>5

\* Every step keeps the invariant of the life of an object.
LEMMA OnceStep ==
  ASSUME OnceInv, [Next]_vars
  PROVE  OnceInv'
  <1>1. TypeInv'
    BY TypeStep DEF OnceInv
  <1> USE DEF syncVars, txVars, mapVars, netVars
  <1>2. CASE Crash
    BY <1>1, <1>2, OnceRestart DEF Crash
  <1>3. CASE NewBlock \/ SyncHeight \/ CheckOnDutyStatus \/ UNCHANGED vars
    BY <1>1, <1>3, OnceFrame DEF NewBlock, SyncHeight, CheckOnDutyStatus, vars
  <1>4. ASSUME NEW h \in Height, SyncList(h) PROVE OnceInv'
    BY <1>1, <1>4, OnceFrame DEF SyncList, SyncChainData
  <1>5. CASE ResetContents
    <2> USE <1>5 DEF ResetContents, OnceInv, Live, Held, HeldAt
    <2>1. \A p \in Proposal : Live(p)' => Live(p)
      BY ConstantsAssumption
    <2>2. LiveIsSent' /\ LiveIsUnsubmitted'
      BY <2>1 DEF LiveIsSent, LiveIsUnsubmitted
    <2>3. FiledUnderItsHash'
      BY DEF FiledUnderItsHash
    <2>4. AgreedIsDeleted'
      BY ConstantsAssumption DEF AgreedIsDeleted
    <2>5. UnsentIsUnsubmitted' /\ SubmittedAtMostOnce'
      BY DEF UnsentIsUnsubmitted, SubmittedAtMostOnce
    <2>6. QED
      BY <1>1, <2>2, <2>3, <2>4, <2>5
  <1>6. ASSUME NEW spawned \in SUBSET Proposal, ResetSigns(spawned) PROVE OnceInv'
    <2> USE <1>6 DEF ResetSigns, OnceInv, Live, Held, HeldAt, Unsent, TypeInv, TypeOK
    <2>1. \A p \in Proposal : status'[p] \in Unsent => status[p] \in Unsent
      OBVIOUS
    <2>2. UnsentIsUnsubmitted'
      BY <2>1 DEF UnsentIsUnsubmitted
    <2>3. LiveIsSent'
      BY DEF LiveIsSent
    <2>4. /\ FiledUnderItsHash' /\ LiveIsUnsubmitted' /\ AgreedIsDeleted'
          /\ SubmittedAtMostOnce'
      BY DEF FiledUnderItsHash, LiveIsUnsubmitted, AgreedIsDeleted, SubmittedAtMostOnce
    <2>5. QED
      BY <1>1, <2>2, <2>3, <2>4
  <1>7. ASSUME NEW p \in Proposal, CreateRedeemScript(p) \/ CreateTransaction(p) PROVE OnceInv'
    <2>1. \/ status' = [status EXCEPT ![p] = "listed"]
          \/ status' = [status EXCEPT ![p] = "created"]
      BY <1>7 DEF CreateRedeemScript, CreateTransaction
    <2>2. status[p] \in Unsent /\ UNCHANGED <<contents, handler, submitted>>
      BY <1>7 DEF CreateRedeemScript, CreateTransaction, Unsent
    <2>3. QED
      BY <1>1, <2>1, <2>2, OnceProgress
  <1>8. ASSUME NEW p \in Proposal, InitScript(p) PROVE OnceInv'
    <2>1. \/ status' = [status EXCEPT ![p] = "signed"]
          \/ status' = [status EXCEPT ![p] = "gone"]
      BY <1>8 DEF InitScript
    <2>2. status[p] \in Unsent /\ UNCHANGED <<contents, handler, submitted>>
      BY <1>8 DEF InitScript, Unsent
    <2>3. QED
      BY <1>1, <2>1, <2>2, OnceProgress
  <1>9. ASSUME NEW p \in Proposal, BroadcastWithdrawProposal(p) PROVE OnceInv'
    <2>1. CASE contents[TxHash[p]] # None
      <3>1. /\ status[p] \in Unsent /\ status' = [status EXCEPT ![p] = "gone"]
            /\ UNCHANGED <<contents, handler, submitted>>
        BY <1>9, <2>1 DEF BroadcastWithdrawProposal, Unsent
      <3>2. QED
        BY <1>1, <3>1, OnceProgress
    <2>2. CASE contents[TxHash[p]] = None
      <3> DEFINE x == TxHash[p]
      <3>1. /\ status[p] = "signed" /\ status' = [status EXCEPT ![p] = "sent"]
            /\ contents' = [contents EXCEPT ![x] = p]
            /\ UNCHANGED <<handler, submitted>>
        BY <1>9, <2>2 DEF BroadcastWithdrawProposal
      <3>2. x \in Hash
        BY ConstantsAssumption
      <3> USE DEF OnceInv, Live, Held, HeldAt, Unsent, TypeInv, TypeOK
      <3>3. ~Live(p) /\ submitted[p] = 0
        BY <3>1 DEF LiveIsSent, UnsentIsUnsubmitted
      <3>4. \A q \in Proposal : q # p =>
              status'[q] = status[q] /\ (Live(q)' => Live(q))
        BY <3>1, <3>2, ConstantsAssumption
      <3>5. status'[p] = "sent" /\ contents'[x] = p
        BY <3>1, <3>2
      <3>6. LiveIsSent' /\ LiveIsUnsubmitted' /\ UnsentIsUnsubmitted'
        BY <3>1, <3>3, <3>4, <3>5 DEF LiveIsSent, LiveIsUnsubmitted, UnsentIsUnsubmitted
      <3>7. FiledUnderItsHash'
        BY <3>1, <3>2 DEF FiledUnderItsHash
      <3>8. AgreedIsDeleted'
        <4> SUFFICES ASSUME NEW q \in Proposal, HeldAt(q, "agreed"), contents'[TxHash[q]] = q
                     PROVE  FALSE
          BY <3>1 DEF AgreedIsDeleted
        <4>1. q # p
          BY <3>3
        <4>2. contents[TxHash[q]] # q
          BY DEF AgreedIsDeleted
        <4>3. QED
          BY <3>1, <3>2, <4>1, <4>2, ConstantsAssumption
      <3>9. SubmittedAtMostOnce'
        BY <3>1 DEF SubmittedAtMostOnce
      <3>10. QED
        BY <1>1, <3>6, <3>7, <3>8, <3>9
    <2>3. QED
      BY <2>1, <2>2
  <1>10. ASSUME NEW m \in inbox, OnReceivedProposal(m) PROVE OnceInv'
    BY <1>1, <1>10, OnceFrame DEF OnReceivedProposal
  <1>11. ASSUME NEW m \in answers, LookupContent(m) PROVE OnceInv'
    <2> USE <1>11 DEF LookupContent, OnceInv, Live, Held, HeldAt
    <2>1. TxHash[m.prop] \in Hash /\ m.signer \in Arbiter
      BY ConstantsAssumption DEF TypeInv, TypeOK
    <2>2. \/ handler' = Idle
          \/ \E q \in Proposal : /\ contents[TxHash[q]] = q
                                 /\ handler' = Holding("found", q, m.signer, 0)
      BY <2>1 DEF FiledUnderItsHash, TypeInv, TypeOK
    <2>3. \A q \in Proposal : (Live(q)' => Live(q)) /\ ~HeldAt(q, "agreed")'
      BY <2>1, <2>2, IdleType, HoldingType
    <2>4. LiveIsSent' /\ LiveIsUnsubmitted' /\ AgreedIsDeleted'
      BY <2>3 DEF LiveIsSent, LiveIsUnsubmitted, AgreedIsDeleted
    <2>5. FiledUnderItsHash' /\ UnsentIsUnsubmitted' /\ SubmittedAtMostOnce'
      BY DEF FiledUnderItsHash, UnsentIsUnsubmitted, SubmittedAtMostOnce
    <2>6. QED
      BY <1>1, <2>4, <2>5
  <1>12. CASE MergeSign \/ CountArbiters
    <2>1. handler \in HandlerStates /\ handler.pc # "idle"
      BY <1>12 DEF MergeSign, CountArbiters, OnceInv, TypeInv, TypeOK
    <2>2. /\ handler.prop \in Proposal /\ handler.signer \in Arbiter
          /\ UNCHANGED <<status, contents, submitted>>
      BY <1>12, <2>1, HandlerFields DEF MergeSign, CountArbiters
    <2>3. \/ handler' = Idle
          \/ handler'.pc \in {"merged", "counted"} /\ handler'.prop = handler.prop
      BY <1>12, <2>2, HoldingType, GroupTypes DEF MergeSign, CountArbiters, OnceInv, TypeInv, TypeOK
    <2> USE DEF OnceInv, Live, Held, HeldAt
    <2>4. \A q \in Proposal : (Live(q)' => Live(q)) /\ ~HeldAt(q, "agreed")'
      BY <2>1, <2>2, <2>3, IdleType
    <2>5. LiveIsSent' /\ LiveIsUnsubmitted' /\ AgreedIsDeleted'
      BY <2>2, <2>4 DEF LiveIsSent, LiveIsUnsubmitted, AgreedIsDeleted
    <2>6. FiledUnderItsHash' /\ UnsentIsUnsubmitted' /\ SubmittedAtMostOnce'
      BY <2>2 DEF FiledUnderItsHash, UnsentIsUnsubmitted, SubmittedAtMostOnce
    <2>7. QED
      BY <1>1, <2>5, <2>6
  <1>13. CASE RecordSigner
    <2>1. CASE Restart
      BY <1>1, <2>1, OnceRestart
    <2>2. CASE ~Restart
      <3>1. handler \in HandlerStates /\ handler.pc # "idle"
        BY <1>13 DEF RecordSigner, OnceInv, TypeInv, TypeOK
      <3>2. /\ UNCHANGED <<status, contents, submitted>>
            /\ handler'.pc = "recorded" /\ handler'.prop = handler.prop
        BY <1>13, <2>2, <3>1, HandlerFields, HoldingType DEF RecordSigner
      <3>3. QED
        BY <1>1, <3>1, <3>2
           DEF OnceInv, Live, Held, HeldAt, FiledUnderItsHash, LiveIsSent, LiveIsUnsubmitted,
               UnsentIsUnsubmitted, AgreedIsDeleted, SubmittedAtMostOnce
    <2>3. QED
      BY <2>1, <2>2
  <1>14. CASE CheckAgreement
    <2> DEFINE p == handler.prop
               x == TxHash[p]
    <2>1. handler \in HandlerStates /\ handler.pc = "counted"
      BY <1>14 DEF CheckAgreement, OnceInv, TypeInv, TypeOK
    <2>2. p \in Proposal /\ handler.signer \in Arbiter /\ x \in Hash
      BY <2>1, HandlerFields, ConstantsAssumption
    <2>3. UNCHANGED <<status, submitted>>
      BY <1>14 DEF CheckAgreement
    <2>4. CASE handler' = Idle /\ UNCHANGED contents
      BY <1>1, <2>3, <2>4, IdleType
         DEF OnceInv, Live, Held, HeldAt, FiledUnderItsHash, LiveIsSent, LiveIsUnsubmitted,
             UnsentIsUnsubmitted, AgreedIsDeleted, SubmittedAtMostOnce
    <2>5. CASE handler' = Holding("agreed", p, handler.signer, 0)
               /\ contents' = [contents EXCEPT ![x] = None]
      <3> USE DEF OnceInv, Live, Held, HeldAt
      <3>1. handler'.pc = "agreed" /\ handler'.prop = p
        BY <2>2, <2>5, HoldingType
      <3>2. \A h \in Hash : contents'[h] = (IF h = x THEN None ELSE contents[h])
        BY <2>5 DEF TypeInv, TypeOK
      <3>3. \A q \in Proposal : TxHash[q] \in Hash /\ q # None
        BY ConstantsAssumption
      <3>4. \A q \in Proposal : Live(q)' => Live(q)
        BY <2>1, <3>1, <3>2, <3>3
      <3>5. LiveIsSent' /\ LiveIsUnsubmitted'
        BY <2>3, <3>4 DEF LiveIsSent, LiveIsUnsubmitted
      <3>6. FiledUnderItsHash' /\ AgreedIsDeleted'
        BY <2>2, <3>1, <3>2, <3>3 DEF FiledUnderItsHash, AgreedIsDeleted
      <3>7. UnsentIsUnsubmitted' /\ SubmittedAtMostOnce'
        BY <2>3 DEF UnsentIsUnsubmitted, SubmittedAtMostOnce
      <3>8. QED
        BY <1>1, <3>5, <3>6, <3>7
    <2>6. QED
      BY <1>14, <2>4, <2>5 DEF CheckAgreement, DeleteContent
  <1>15. CASE Submit
    <2> DEFINE p == handler.prop
    <2>1. handler \in HandlerStates /\ handler.pc = "agreed" /\ handler' = Idle
      BY <1>15 DEF Submit, OnceInv, TypeInv, TypeOK
    <2>2. p \in Proposal /\ UNCHANGED <<status, contents>>
      BY <1>15, <2>1, HandlerFields DEF Submit
    <2> USE DEF OnceInv, Live, Held, HeldAt
    <2>3. status[p] = "sent" /\ submitted[p] = 0 /\ contents[TxHash[p]] # p
      BY <2>1, <2>2 DEF LiveIsSent, LiveIsUnsubmitted, AgreedIsDeleted
    <2>4. submitted'[p] = 1 /\ \A q \in Proposal : q # p => submitted'[q] = submitted[q]
      BY <1>15, <2>2, <2>3 DEF Submit, TypeInv, TypeOK
    <2>5. \A q \in Proposal : (Live(q)' => Live(q)) /\ (Live(q)' => q # p) /\ ~HeldAt(q, "agreed")'
      BY <2>1, <2>2, <2>3, IdleType
    <2>6. LiveIsSent' /\ LiveIsUnsubmitted' /\ AgreedIsDeleted'
      BY <2>2, <2>4, <2>5 DEF LiveIsSent, LiveIsUnsubmitted, AgreedIsDeleted
    <2>7. FiledUnderItsHash' /\ UnsentIsUnsubmitted' /\ SubmittedAtMostOnce'
      BY <2>2, <2>3, <2>4 DEF FiledUnderItsHash, UnsentIsUnsubmitted, SubmittedAtMostOnce, Unsent
    <2>8. QED
      BY <1>1, <2>6, <2>7
  <1>16. QED
    BY <1>2, <1>3, <1>4, <1>5, <1>6, <1>7, <1>8, <1>9, <1>10, <1>11, <1>12, <1>13, <1>14, <1>15
       DEF Next, Sync, Send, Clients, Consume

\* At the start no object is live and none is submitted.
LEMMA OnceInit == Init => OnceInv
  <1> SUFFICES ASSUME Init PROVE OnceInv
    OBVIOUS
  <1>1. \A p \in Proposal : ~Live(p) /\ ~HeldAt(p, "agreed")
    BY IdleType, ConstantsAssumption DEF Init, Live, Held, HeldAt
  <1>2. QED
    BY <1>1, TypeInit DEF Init, OnceInv, FiledUnderItsHash, LiveIsSent, LiveIsUnsubmitted,
         UnsentIsUnsubmitted, AgreedIsDeleted, SubmittedAtMostOnce

\* The invariant of the life of an object holds in every reachable state.
LEMMA OnceAlways == Spec => []OnceInv
  BY OnceInit, OnceStep, PTL DEF Spec

(***************************************************************************)
(* No transaction object is handed to Submit twice, whatever answers come  *)
(* after the threshold, and however resets and crashes interleave.         *)
(***************************************************************************)
THEOREM SubmitsOnce == Spec => []SubmittedAtMostOnce
  <1>1. OnceInv => SubmittedAtMostOnce
    BY DEF OnceInv
  <1>2. QED
    BY <1>1, OnceAlways, PTL
-----------------------------------------------------------------------------
(***************************************************************************)
(* No signer is counted twice in what is submitted.                        *)
(***************************************************************************)
Unbuilt == {"none", "spawned", "listed", "created"}

(***************************************************************************)
(* A step that adds no signature and makes no object live: it may drop     *)
(* contents and signer sets, or move a merged signer into his set.         *)
(***************************************************************************)
LEMMA DistinctShrink ==
  ASSUME DistinctInv, OnceInv', UNCHANGED params,
         \A p \in Proposal : /\ status'[p] \in Unbuilt => status[p] \in Unbuilt
                             /\ status'[p] = "signed" => status[p] = "signed",
         \A p \in Proposal : Live(p)' => Live(p),
         \A p \in Proposal : Live(p)' /\ signs'[TxHash[p]] # None =>
            /\ signs[TxHash[p]] # None
            /\ signs[TxHash[p]] \cup Unrecorded(p) \subseteq signs'[TxHash[p]] \cup Unrecorded(p)',
         \A p \in Proposal : Live(p)' /\ Doomed(p) => Doomed(p)',
         \A p \in Proposal : Nonced(p) /\ submitted'[p] > 0 => NoRepetition(params[p])
  PROVE  DistinctInv'
  <1>1. UnsignedHasNoParameter' /\ SignedHasOwnSignature'
    BY DEF DistinctInv, UnsignedHasNoParameter, SignedHasOwnSignature, Unbuilt
  <1>2. SignersCoverParameter'
    <2> SUFFICES ASSUME NEW p \in Proposal, Nonced(p), Live(p)', signs'[TxHash[p]] # None
                 PROVE  Range(params[p]) \subseteq signs'[TxHash[p]] \cup Unrecorded(p)'
      BY DEF SignersCoverParameter, Nonced
    <2>1. Range(params[p]) \subseteq signs[TxHash[p]] \cup Unrecorded(p)
      BY DEF DistinctInv, SignersCoverParameter
    <2>2. QED
      BY <2>1
  <1>3. LiveHasNoRepetition'
    BY DEF DistinctInv, LiveHasNoRepetition, Nonced, NoRepetition
  <1>4. NoRepeatedSignerSubmitted'
    BY DEF NoRepeatedSignerSubmitted, Nonced, NoRepetition
  <1>5. QED
    BY <1>1, <1>2, <1>3, <1>4 DEF DistinctInv

(***************************************************************************)
(* Only the status of objects changes.                                     *)
(***************************************************************************)
LEMMA DistinctFrame ==
  ASSUME DistinctInv, OnceInv', UNCHANGED <<params, contents, signs, handler, submitted>>,
         \A p \in Proposal : /\ status'[p] \in Unbuilt => status[p] \in Unbuilt
                             /\ status'[p] = "signed" => status[p] = "signed"
  PROVE  DistinctInv'
  <1>1. \A p \in Proposal : /\ Live(p)' => Live(p)
                            /\ Unrecorded(p)' = Unrecorded(p)
                            /\ Doomed(p)' = Doomed(p)
    BY DEF Live, Held, HeldAt, Unrecorded, Doomed
  <1>2. \A p \in Proposal : Nonced(p) /\ submitted'[p] > 0 => NoRepetition(params[p])
    BY DEF DistinctInv, NoRepeatedSignerSubmitted
  <1>3. QED
    BY <1>1, <1>2, DistinctShrink

\* A restart leaves nothing live, so nothing to be signed twice.
LEMMA DistinctRestart ==
  ASSUME DistinctInv, OnceInv', Restart
  PROVE  DistinctInv'
  <1>1. \A p \in Proposal : ~Live(p)'
    BY IdleType, ConstantsAssumption DEF Restart, Live, Held
  <1>2. \A p \in Proposal : /\ status'[p] \in Unbuilt => status[p] \in Unbuilt
                            /\ status'[p] = "signed" => status[p] = "signed"
    BY DEF Restart, Unbuilt
  <1>3. \A p \in Proposal : Nonced(p) /\ submitted'[p] > 0 => NoRepetition(params[p])
    BY DEF Restart, DistinctInv, NoRepeatedSignerSubmitted
  <1>4. UNCHANGED params
    BY DEF Restart
  <1>5. QED
    BY <1>1, <1>2, <1>3, <1>4, DistinctShrink

\* Appending a name that does not occur keeps a sequence without repetition.
LEMMA AppendDistinct ==
  ASSUME NEW S, NEW sigs \in Seq(S), NEW a \in S
  PROVE  /\ Range(Append(sigs, a)) = Range(sigs) \cup {a}
         /\ NoRepetition(sigs) /\ a \notin Range(sigs) => NoRepetition(Append(sigs, a))
  <1>1. /\ DOMAIN Append(sigs, a) = 1 .. Len(sigs) + 1
        /\ \A i \in 1 .. Len(sigs) : Append(sigs, a)[i] = sigs[i]
        /\ Append(sigs, a)[Len(sigs) + 1] = a
        /\ DOMAIN sigs = 1 .. Len(sigs) /\ Len(sigs) \in Nat
    OBVIOUS
  <1>2. \A i \in 1 .. Len(sigs) + 1 : i \in 1 .. Len(sigs) \/ i = Len(sigs) + 1
    BY <1>1
  <1>3. Range(Append(sigs, a)) = Range(sigs) \cup {a}
    BY <1>1, <1>2 DEF Range
  <1>4. ASSUME NoRepetition(sigs), a \notin Range(sigs) PROVE NoRepetition(Append(sigs, a))
    BY <1>1, <1>2, <1>4 DEF NoRepetition, Range
  <1>5. QED
    BY <1>3, <1>4

\* The parameter a transaction enters the map with.
LEMMA OwnSignature ==
  /\ Range(<<Self>>) = {Self}
  /\ NoRepetition(<<Self>>)
  <1>1. DOMAIN <<Self>> = {1} /\ <<Self>>[1] = Self
    OBVIOUS
  <1>2. QED
    BY <1>1 DEF Range, NoRepetition

\* InitScript gives an object its first signature.
LEMMA DistinctInitScript ==
  ASSUME DistinctInv, OnceInv', NEW p \in Proposal, InitScript(p)
  PROVE  DistinctInv'
  <1> USE DEF DistinctInv
  <1>1. /\ status[p] = "created" /\ UNCHANGED <<contents, signs, handler, submitted>>
        /\ \A q \in Proposal : q # p => status'[q] = status[q] /\ params'[q] = params[q]
    BY DEF InitScript, mapVars, OnceInv, TypeInv, TypeOK
  <1>2. \/ status'[p] = "gone" /\ UNCHANGED params
        \/ status'[p] = "signed" /\ params'[p] = <<Self>>
    BY DEF InitScript, OnceInv, TypeInv, TypeOK
  <1>3. \A q \in Proposal : /\ Live(q)' = Live(q)
                            /\ Unrecorded(q)' = Unrecorded(q)
                            /\ Doomed(q)' = Doomed(q)
    BY <1>1 DEF Live, Held, HeldAt, Unrecorded, Doomed
  <1>4. ~Live(p) /\ submitted[p] = 0
    BY <1>1 DEF OnceInv, LiveIsSent, UnsentIsUnsubmitted, Unsent
  <1>5. UnsignedHasNoParameter' /\ SignedHasOwnSignature'
    BY <1>1, <1>2 DEF UnsignedHasNoParameter, SignedHasOwnSignature
  <1>6. SignersCoverParameter'
    <2> SUFFICES ASSUME NEW q \in Proposal, Nonced(q), Live(q), signs[TxHash[q]] # None
                 PROVE  Range(params'[q]) \subseteq signs[TxHash[q]] \cup Unrecorded(q)
      BY <1>1, <1>3 DEF SignersCoverParameter, Nonced
    <2>1. params'[q] = params[q]
      BY <1>1, <1>4
    <2>2. QED
      BY <2>1 DEF SignersCoverParameter
  <1>7. LiveHasNoRepetition'
    BY <1>1, <1>3, <1>4 DEF LiveHasNoRepetition, Nonced, NoRepetition
  <1>8. NoRepeatedSignerSubmitted'
    BY <1>1, <1>4 DEF NoRepeatedSignerSubmitted, Nonced, NoRepetition
  <1>9. QED
    BY <1>5, <1>6, <1>7, <1>8

\* An object enters the map with one signer, who is in the signer set.
LEMMA DistinctBroadcast ==
  ASSUME DistinctInv, OnceInv', NEW p \in Proposal, BroadcastWithdrawProposal(p)
  PROVE  DistinctInv'
  <1> USE DEF DistinctInv
  <1> DEFINE x == TxHash[p]
  <1>1. /\ status[p] = "signed" /\ UNCHANGED <<params, handler, submitted>>
        /\ \A q \in Proposal : q # p => status'[q] = status[q]
    BY DEF BroadcastWithdrawProposal, OnceInv, TypeInv, TypeOK
  <1>2. params[p] = <<Self>> /\ submitted[p] = 0 /\ ~Held(p)
    BY <1>1 DEF SignedHasOwnSignature, OnceInv, UnsentIsUnsubmitted, Unsent, LiveIsSent, Live
  <1>3. CASE contents[x] # None
    <2>1. status'[p] = "gone" /\ UNCHANGED <<contents, signs>>
      BY <1>3 DEF BroadcastWithdrawProposal, OnceInv, TypeInv, TypeOK
    <2>2. QED
      BY <1>1, <2>1, DistinctFrame DEF Unbuilt
  <1>4. CASE contents[x] = None
    <2>1. /\ status'[p] = "sent"
          /\ contents' = [contents EXCEPT ![x] = p]
          /\ signs' = [signs EXCEPT ![x] = {Self}]
      BY <1>4 DEF BroadcastWithdrawProposal, OnceInv, TypeInv, TypeOK
    <2>2. x \in Hash /\ \A q \in Proposal : TxHash[q] \in Hash
      BY ConstantsAssumption
    <2>3. signs'[x] = {Self}
      BY <2>1, <2>2 DEF OnceInv, TypeInv, TypeOK
    <2>4. \A q \in Proposal : q # p /\ Nonced(q) =>
            /\ Live(q)' = Live(q)
            /\ signs'[TxHash[q]] = signs[TxHash[q]]
      BY <1>1, <2>1, <2>2 DEF Nonced, Live, Held, OnceInv, TypeInv, TypeOK
    <2>5. \A q \in Proposal : /\ Unrecorded(q)' = Unrecorded(q)
                              /\ q # p /\ Nonced(q) => Doomed(q)' = Doomed(q)
      BY <1>1, <2>4 DEF Unrecorded, HeldAt, Doomed
    <2>6. UnsignedHasNoParameter' /\ SignedHasOwnSignature'
      BY <1>1, <2>1 DEF UnsignedHasNoParameter, SignedHasOwnSignature
    <2>7. SignersCoverParameter'
      <3> SUFFICES ASSUME NEW q \in Proposal, Nonced(q), Live(q)', signs'[TxHash[q]] # None
                   PROVE  Range(params[q]) \subseteq signs'[TxHash[q]] \cup Unrecorded(q)
        BY <1>1, <2>5 DEF SignersCoverParameter, Nonced
      <3>1. CASE q = p
        BY <1>2, <2>3, <3>1, OwnSignature
      <3>2. CASE q # p
        BY <2>4, <3>2 DEF SignersCoverParameter
      <3>3. QED
        BY <3>1, <3>2
    <2>8. LiveHasNoRepetition'
      <3> SUFFICES ASSUME NEW q \in Proposal, Nonced(q), Live(q)', ~Doomed(q)'
                   PROVE  NoRepetition(params[q])
        BY <1>1 DEF LiveHasNoRepetition, Nonced, NoRepetition
      <3>1. CASE q = p
        BY <1>2, <3>1, OwnSignature
      <3>2. CASE q # p
        BY <2>4, <2>5, <3>2 DEF LiveHasNoRepetition
      <3>3. QED
        BY <3>1, <3>2
    <2>9. NoRepeatedSignerSubmitted'
      BY <1>1 DEF NoRepeatedSignerSubmitted, Nonced, NoRepetition
    <2>10. QED
      BY <2>6, <2>7, <2>8, <2>9
  <1>5. QED
    BY <1>3, <1>4

(***************************************************************************)
(* The signer who is merged is not in the signer set of a live object      *)
(* unless Reset has just taken that set away.                              *)
(***************************************************************************)
LEMMA DistinctMergeSign ==
  ASSUME DistinctInv, OnceInv', MergeSign
  PROVE  DistinctInv'
  <1> USE DEF DistinctInv
  <1> DEFINE p == handler.prop
             a == handler.signer
             x == TxHash[handler.prop]
  <1>1. handler \in HandlerStates /\ handler.pc = "found"
    BY DEF MergeSign, OnceInv, TypeInv, TypeOK
  <1>2. p \in Proposal /\ a \in Arbiter /\ params[p] \in Seq(Arbiter)
    BY <1>1, HandlerFields DEF OnceInv, TypeInv, TypeOK
  <1>3. UNCHANGED <<status, contents, signs, submitted>>
    BY DEF MergeSign, mapVars
  <1>4. CASE handler' = Idle /\ UNCHANGED params
    <2>1. \A q \in Proposal : /\ Live(q)' => Live(q)
                              /\ Unrecorded(q) = {} /\ ~Doomed(q)
      BY <1>1, <1>3, <1>4, IdleType DEF Live, Held, HeldAt, Unrecorded, Doomed
    <2>2. \A q \in Proposal : Nonced(q) /\ submitted'[q] > 0 => NoRepetition(params[q])
      BY <1>3 DEF NoRepeatedSignerSubmitted
    <2>3. QED
      BY <1>3, <1>4, <2>1, <2>2, DistinctShrink
  <1>5. CASE /\ ~AlreadySigned(p, a)
             /\ params' = [params EXCEPT ![p] = Append(@, a)]
             /\ handler' = Holding("merged", p, a, 0)
    <2>1. handler'.pc = "merged" /\ handler'.prop = p /\ handler'.signer = a
      BY <1>2, <1>5, HoldingType
    <2>2. params'[p] = Append(params[p], a) /\ \A q \in Proposal : q # p => params'[q] = params[q]
      BY <1>2, <1>5 DEF OnceInv, TypeInv, TypeOK
    <2>3. \A q \in Proposal : Live(q)' = Live(q)
      BY <1>1, <1>3, <2>1 DEF Live, Held
    <2>4. \A q \in Proposal :
            /\ Unrecorded(q) = {} /\ ~Doomed(q)
            /\ q = p => Unrecorded(q)' = {a}
            /\ q # p => Unrecorded(q)' = {} /\ ~Doomed(q)'
            /\ q = p => (Doomed(q)' <=> signs[TxHash[q]] = None)
      BY <1>1, <1>3, <2>1 DEF Unrecorded, HeldAt, Doomed
    <2>5. Live(p) /\ status[p] = "sent" /\ submitted[p] = 0
      BY <1>1, <1>2 DEF Live, Held, OnceInv, LiveIsSent, LiveIsUnsubmitted
    <2>6. UnsignedHasNoParameter' /\ SignedHasOwnSignature'
      BY <1>3, <2>2, <2>5 DEF UnsignedHasNoParameter, SignedHasOwnSignature
    <2>7. Range(Append(params[p], a)) = Range(params[p]) \cup {a}
      BY <1>2, AppendDistinct
    <2>8. SignersCoverParameter'
      <3> SUFFICES ASSUME NEW q \in Proposal, Nonced(q), Live(q), signs[TxHash[q]] # None
                   PROVE  Range(params'[q]) \subseteq signs[TxHash[q]] \cup Unrecorded(q)'
        BY <1>3, <2>3 DEF SignersCoverParameter, Nonced
      <3>1. Range(params[q]) \subseteq signs[TxHash[q]]
        BY <2>4 DEF SignersCoverParameter
      <3>2. QED
        BY <2>2, <2>4, <2>7, <3>1
    <2>9. LiveHasNoRepetition'
      <3> SUFFICES ASSUME NEW q \in Proposal, Nonced(q), Live(q), ~Doomed(q)'
                   PROVE  NoRepetition(params'[q])
        BY <2>3 DEF LiveHasNoRepetition, Nonced, NoRepetition
      <3>1. NoRepetition(params[q])
        BY <2>4 DEF LiveHasNoRepetition
      <3>2. CASE q # p
        BY <2>2, <3>1, <3>2
      <3>3. CASE q = p
        <4>1. signs[x] # None
          BY <2>4, <3>3
        <4>2. a \notin signs[x]
          BY <1>5, <4>1 DEF AlreadySigned
        <4>3. Range(params[p]) \subseteq signs[x]
          BY <2>4, <3>3, <4>1 DEF SignersCoverParameter
        <4>4. a \notin Range(params[p])
          BY <4>2, <4>3
        <4>5. NoRepetition(Append(params[p], a))
          BY <1>2, <3>1, <3>3, <4>4, AppendDistinct
        <4>6. QED
          BY <2>2, <3>3, <4>5
      <3>4. QED
        BY <3>2, <3>3
    <2>10. NoRepeatedSignerSubmitted'
      BY <1>3, <2>2, <2>5 DEF NoRepeatedSignerSubmitted, Nonced, NoRepetition
    <2>11. QED
      BY <2>6, <2>8, <2>9, <2>10
  <1>6. QED
    BY <1>4, <1>5 DEF MergeSign

\* Recording a merged signer closes the gap between parameter and signer set.
LEMMA DistinctRecordSigner ==
  ASSUME DistinctInv, OnceInv', RecordSigner
  PROVE  DistinctInv'
  <1>1. CASE Restart
    BY <1>1, DistinctRestart
  <1>2. CASE ~Restart
    <2> DEFINE x == TxHash[handler.prop]
    <2>1. handler \in HandlerStates /\ handler.pc = "merged"
      BY DEF RecordSigner, DistinctInv, OnceInv, TypeInv, TypeOK
    <2>2. handler.prop \in Proposal /\ handler.signer \in Arbiter /\ x \in Hash
      BY <2>1, HandlerFields, ConstantsAssumption
    <2>3. /\ signs[x] # None
          /\ signs' = [signs EXCEPT ![x] = @ \cup {handler.signer}]
          /\ UNCHANGED <<status, contents, params, submitted>>
          /\ handler' = Holding("recorded", handler.prop, handler.signer, 0)
      BY <1>2 DEF RecordSigner, txVars
    <2>4. handler'.pc = "recorded" /\ handler'.prop = handler.prop
      BY <2>2, <2>3, HoldingType
    <2>5. \A h \in Hash : signs'[h] = IF h = x THEN signs[h] \cup {handler.signer} ELSE signs[h]
      BY <2>3 DEF DistinctInv, OnceInv, TypeInv, TypeOK
    <2>6. \A p \in Proposal : (Live(p)' => Live(p)) /\ ~Doomed(p)
      BY <2>1, <2>3, <2>4 DEF Live, Held, HeldAt, Doomed
    <2>7. \A p \in Proposal : signs'[TxHash[p]] # None =>
            /\ signs[TxHash[p]] # None
            /\ signs[TxHash[p]] \cup Unrecorded(p) \subseteq signs'[TxHash[p]] \cup Unrecorded(p)'
      <3> SUFFICES ASSUME NEW p \in Proposal, signs'[TxHash[p]] # None
                   PROVE  /\ signs[TxHash[p]] # None
                          /\ signs[TxHash[p]] \cup Unrecorded(p)
                               \subseteq signs'[TxHash[p]] \cup Unrecorded(p)'
        OBVIOUS
      <3>1. TxHash[p] \in Hash
        BY ConstantsAssumption
      <3>2. signs[TxHash[p]] # None /\ signs[TxHash[p]] \subseteq signs'[TxHash[p]]
        BY <2>3, <2>5, <3>1
      <3>3. Unrecorded(p) \subseteq signs'[TxHash[p]]
        BY <2>5, <3>1 DEF Unrecorded, HeldAt
      <3>4. QED
        BY <3>2, <3>3
    <2>8. \A p \in Proposal : Nonced(p) /\ submitted'[p] > 0 => NoRepetition(params[p])
      BY <2>3 DEF DistinctInv, NoRepeatedSignerSubmitted
    <2>9. QED
      BY <2>3, <2>6, <2>7, <2>8, DistinctShrink
  <1>3. QED
    BY <1>1, <1>2

\* Every step keeps the signatures of live and submitted objects distinct.
LEMMA DistinctStep ==
  ASSUME DistinctInv, [Next]_vars
  PROVE  DistinctInv'
  <1>1. OnceInv'
    BY OnceStep DEF DistinctInv
  <1> USE DEF syncVars, txVars, mapVars, netVars
  <1>2. \A p \in Proposal : Nonced(p) /\ submitted[p] > 0 => NoRepetition(params[p])
    BY DEF DistinctInv, NoRepeatedSignerSubmitted
  <1>3. CASE Crash
    BY <1>1, <1>3, DistinctRestart DEF Crash
  <1>4. CASE NewBlock \/ SyncHeight \/ CheckOnDutyStatus \/ UNCHANGED vars
    BY <1>1, <1>4, DistinctFrame DEF NewBlock, SyncHeight, CheckOnDutyStatus, vars
  <1>5. ASSUME NEW h \in Height, SyncList(h) PROVE DistinctInv'
    BY <1>1, <1>5, DistinctFrame DEF SyncList, SyncChainData
  <1>6. CASE ResetContents
    <2>1. /\ UNCHANGED <<status, params, signs, handler, submitted>>
          /\ contents' = [h \in Hash |-> None]
      BY <1>6 DEF ResetContents
    <2>2. \A p \in Proposal : /\ Live(p)' => Live(p)
                              /\ Unrecorded(p)' = Unrecorded(p)
                              /\ Doomed(p)' = Doomed(p)
      BY <2>1, ConstantsAssumption DEF Live, Held, HeldAt, Unrecorded, Doomed
    <2>3. QED
      BY <1>1, <1>2, <2>1, <2>2, DistinctShrink
  <1>7. ASSUME NEW spawned \in SUBSET Proposal, ResetSigns(spawned) PROVE DistinctInv'
    <2>1. /\ UNCHANGED <<params, contents, handler, submitted>>
          /\ signs' = [h \in Hash |-> None]
      BY <1>7 DEF ResetSigns
    <2>2. \A p \in Proposal : /\ status'[p] \in Unbuilt => status[p] \in Unbuilt
                              /\ status'[p] = "signed" => status[p] = "signed"
      BY <1>7 DEF ResetSigns, Unbuilt
    <2>3. \A p \in Proposal : /\ signs'[TxHash[p]] = None
                              /\ Live(p)' => Live(p)
                              /\ Doomed(p) => Doomed(p)'
      BY <2>1, ConstantsAssumption DEF Live, Held, HeldAt, Doomed
    <2>4. QED
      BY <1>1, <1>2, <2>1, <2>2, <2>3, DistinctShrink
  <1>8. ASSUME NEW p \in Proposal, CreateRedeemScript(p) \/ CreateTransaction(p)
        PROVE  DistinctInv'
    <2>1. \A q \in Proposal : /\ status'[q] \in Unbuilt => status[q] \in Unbuilt
                              /\ status'[q] = "signed" => status[q] = "signed"
      BY <1>8 DEF CreateRedeemScript, CreateTransaction, Unbuilt, DistinctInv, OnceInv, TypeInv, TypeOK
    <2>2. UNCHANGED <<params, contents, signs, handler, submitted>>
      BY <1>8 DEF CreateRedeemScript, CreateTransaction
    <2>3. QED
      BY <1>1, <2>1, <2>2, DistinctFrame
  <1>9. ASSUME NEW p \in Proposal, InitScript(p) PROVE DistinctInv'
    BY <1>1, <1>9, DistinctInitScript
  <1>10. ASSUME NEW p \in Proposal, BroadcastWithdrawProposal(p) PROVE DistinctInv'
    BY <1>1, <1>10, DistinctBroadcast
  <1>11. ASSUME NEW m \in inbox, OnReceivedProposal(m) PROVE DistinctInv'
    BY <1>1, <1>11, DistinctFrame DEF OnReceivedProposal
  <1>12. ASSUME NEW m \in answers, LookupContent(m) PROVE DistinctInv'
    <2> DEFINE x == TxHash[m.prop]
    <2>1. /\ handler = Idle /\ UNCHANGED <<status, params, contents, signs, submitted>>
      BY <1>12 DEF LookupContent
    <2>2. x \in Hash /\ m.signer \in Arbiter
      BY ConstantsAssumption DEF DistinctInv, OnceInv, TypeInv, TypeOK
    <2>3. \/ handler' = Idle
          \/ \E q \in Proposal : /\ contents[TxHash[q]] = q
                                 /\ handler' = Holding("found", q, m.signer, 0)
      BY <1>12, <2>2
         DEF LookupContent, DistinctInv, OnceInv, FiledUnderItsHash, TypeInv, TypeOK
    <2>4. \A q \in Proposal : /\ Live(q)' => Live(q)
                              /\ Unrecorded(q) = {} /\ ~Doomed(q)
      BY <2>1, <2>2, <2>3, IdleType, HoldingType DEF Live, Held, HeldAt, Unrecorded, Doomed
    <2>5. QED
      BY <1>1, <1>2, <2>1, <2>4, DistinctShrink
  <1>13. CASE MergeSign
    BY <1>1, <1>13, DistinctMergeSign
  <1>14. CASE RecordSigner
    BY <1>1, <1>14, DistinctRecordSigner
  <1>15. CASE CountArbiters
    <2>1. handler \in HandlerStates /\ handler.pc = "recorded"
      BY <1>15 DEF CountArbiters, DistinctInv, OnceInv, TypeInv, TypeOK
    <2>2. /\ UNCHANGED <<status, params, contents, signs, submitted>>
          /\ handler'.pc = "counted" /\ handler'.prop = handler.prop
      BY <1>15, <2>1, HandlerFields, HoldingType, GroupTypes
         DEF CountArbiters, DistinctInv, OnceInv, TypeInv, TypeOK
    <2>3. \A q \in Proposal : /\ Live(q)' => Live(q)
                              /\ Unrecorded(q) = {} /\ ~Doomed(q)
      BY <2>1, <2>2 DEF Live, Held, HeldAt, Unrecorded, Doomed
    <2>4. QED
      BY <1>1, <1>2, <2>2, <2>3, DistinctShrink
  <1>16. CASE CheckAgreement
    <2> DEFINE x == TxHash[handler.prop]
    <2>1. handler \in HandlerStates /\ handler.pc = "counted"
      BY <1>16 DEF CheckAgreement, DistinctInv, OnceInv, TypeInv, TypeOK
    <2>2. handler.prop \in Proposal /\ handler.signer \in Arbiter /\ x \in Hash
      BY <2>1, HandlerFields, ConstantsAssumption
    <2>3. UNCHANGED <<status, params, submitted>>
      BY <1>16 DEF CheckAgreement
    <2>4. /\ handler' = Idle \/ handler' = Holding("agreed", handler.prop, handler.signer, 0)
          /\ \/ UNCHANGED <<contents, signs>>
             \/ /\ contents' = [contents EXCEPT ![x] = None]
                /\ signs' = [signs EXCEPT ![x] = None]
      BY <1>16 DEF CheckAgreement, DeleteContent
    <2>5. \A h \in Hash : /\ contents'[h] = contents[h] \/ contents'[h] = None
                          /\ signs'[h] = signs[h] \/ signs'[h] = None
      BY <2>2, <2>4 DEF DistinctInv, OnceInv, TypeInv, TypeOK
    <2>6. handler'.pc = "idle" \/ handler'.prop = handler.prop
      BY <2>2, <2>4, IdleType, HoldingType
    <2>7. \A q \in Proposal : /\ Live(q)' => Live(q)
                              /\ Unrecorded(q) = {} /\ ~Doomed(q)
      BY <2>1, <2>5, <2>6, ConstantsAssumption DEF Live, Held, HeldAt, Unrecorded, Doomed
    <2>8. \A q \in Proposal : signs'[TxHash[q]] # None => signs'[TxHash[q]] = signs[TxHash[q]]
      BY <2>5, ConstantsAssumption
    <2>9. QED
      BY <1>1, <1>2, <2>3, <2>7, <2>8, DistinctShrink
  <1>17. CASE Submit
    <2>1. /\ handler \in HandlerStates /\ handler.pc = "agreed" /\ handler' = Idle
          /\ UNCHANGED <<status, params, contents, signs>>
      BY <1>17 DEF Submit, DistinctInv, OnceInv, TypeInv, TypeOK
    <2>2. handler.prop \in Proposal
      BY <2>1, HandlerFields
    <2>3. \A q \in Proposal : /\ Live(q)' => Live(q)
                              /\ Unrecorded(q) = {} /\ ~Doomed(q)
      BY <2>1, IdleType DEF Live, Held, HeldAt, Unrecorded, Doomed
    <2>4. Nonced(handler.prop) => NoRepetition(params[handler.prop])
      BY <2>1, <2>2, <2>3 DEF DistinctInv, LiveHasNoRepetition, Live, Held
    <2>5. \A q \in Proposal : q # handler.prop => submitted'[q] = submitted[q]
      BY <1>17, <2>2 DEF Submit, DistinctInv, OnceInv, TypeInv, TypeOK
    <2>6. \A q \in Proposal : Nonced(q) /\ submitted'[q] > 0 => NoRepetition(params[q])
      BY <1>2, <2>4, <2>5
    <2>7. QED
      BY <1>1, <2>1, <2>3, <2>6, DistinctShrink
  <1>18. QED
    BY <1>3, <1>4, <1>5, <1>6, <1>7, <1>8, <1>9, <1>10, <1>11, <1>12, <1>13, <1>14, <1>15,
       <1>16, <1>17 DEF Next, Sync, Send, Clients, Consume

\* At the start there is no signature.
LEMMA DistinctInit == Init => DistinctInv
  <1> SUFFICES ASSUME Init PROVE DistinctInv
    OBVIOUS
  <1>1. \A p \in Proposal : ~Live(p) /\ submitted[p] = 0
    BY IdleType, ConstantsAssumption DEF Init, Live, Held
  <1>2. QED
    BY <1>1, OnceInit
       DEF Init, DistinctInv, UnsignedHasNoParameter, SignedHasOwnSignature,
           SignersCoverParameter, LiveHasNoRepetition, NoRepeatedSignerSubmitted

\* The invariant of the signatures holds in every reachable state.
LEMMA DistinctAlways == Spec => []DistinctInv
  BY DistinctInit, DistinctStep, PTL DEF Spec

(***************************************************************************)
(* A transaction whose hash is its own is never submitted with two         *)
(* signatures of one arbiter, although an answer may arrive twice and the  *)
(* check in MergeSignToTransaction does not detect it.                     *)
(***************************************************************************)
THEOREM SubmitsDistinctSigners == Spec => []NoRepeatedSignerSubmitted
  <1>1. DistinctInv => NoRepeatedSignerSubmitted
    BY DEF DistinctInv
  <1>2. QED
    BY <1>1, DistinctAlways, PTL
-----------------------------------------------------------------------------
(***************************************************************************)
(* Merged signers are keys of the redeem script.                           *)
(***************************************************************************)
LEMMA CodeFrame ==
  ASSUME CodeInv, DistinctInv', UNCHANGED <<code, params>>
  PROVE  CodeInv'
  BY DEF CodeInv, MergedSignersInCode, CodeKeys

\* Every step keeps the merged signers among the keys of the redeem script.
LEMMA CodeStep ==
  ASSUME CodeInv, [Next]_vars
  PROVE  CodeInv'
  <1>1. DistinctInv'
    BY DistinctStep DEF CodeInv
  <1> USE DEF syncVars, txVars, mapVars, netVars
  <1>2. CASE Crash
    BY <1>1, <1>2, CodeFrame DEF Crash, Restart
  <1>3. CASE NewBlock \/ SyncHeight \/ CheckOnDutyStatus \/ ResetContents \/ UNCHANGED vars
    BY <1>1, <1>3, CodeFrame DEF NewBlock, SyncHeight, CheckOnDutyStatus, ResetContents, vars
  <1>4. ASSUME NEW h \in Height, SyncList(h) PROVE CodeInv'
    BY <1>1, <1>4, CodeFrame DEF SyncList, SyncChainData
  <1>5. ASSUME NEW spawned \in SUBSET Proposal, ResetSigns(spawned) PROVE CodeInv'
    BY <1>1, <1>5, CodeFrame DEF ResetSigns
  <1>6. ASSUME NEW p \in Proposal, CreateRedeemScript(p) PROVE CodeInv'
    <2>1. /\ status[p] = "spawned" /\ UNCHANGED params
          /\ \A q \in Proposal : q # p => code'[q] = code[q]
      BY <1>6 DEF CreateRedeemScript, CodeInv, DistinctInv, OnceInv, TypeInv, TypeOK
    <2>2. DOMAIN params[p] = {}
      <3>1. params[p] = <<>>
        BY <2>1 DEF CodeInv, DistinctInv, UnsignedHasNoParameter
      <3>2. QED
        BY <3>1
    <2>3. MergedSignersInCode'
      BY <2>1, <2>2 DEF CodeInv, MergedSignersInCode, CodeKeys
    <2>4. QED
      BY <1>1, <2>3 DEF CodeInv
  <1>7. ASSUME NEW p \in Proposal, CreateTransaction(p) PROVE CodeInv'
    <2>1. UNCHANGED params /\ \A q \in Proposal : code'[q].at = code[q].at
      BY <1>7 DEF CreateTransaction, CodeInv, DistinctInv, OnceInv, TypeInv, TypeOK
    <2>2. MergedSignersInCode'
      BY <2>1 DEF CodeInv, MergedSignersInCode, CodeKeys
    <2>3. QED
      BY <1>1, <2>2 DEF CodeInv
  <1>8. ASSUME NEW p \in Proposal, InitScript(p) PROVE CodeInv'
    <2>1. UNCHANGED code /\ \A q \in Proposal : params'[q] = params[q] \/ params'[q] = <<Self>>
      BY <1>8 DEF InitScript, CodeInv, DistinctInv, OnceInv, TypeInv, TypeOK
    <2>2. DOMAIN <<Self>> = {1}
      OBVIOUS
    <2>3. MergedSignersInCode'
      BY <2>1, <2>2 DEF CodeInv, MergedSignersInCode, CodeKeys
    <2>4. QED
      BY <1>1, <2>3 DEF CodeInv
  <1>9. ASSUME NEW p \in Proposal, BroadcastWithdrawProposal(p) PROVE CodeInv'
    BY <1>1, <1>9, CodeFrame DEF BroadcastWithdrawProposal
  <1>10. ASSUME NEW m \in inbox, OnReceivedProposal(m) PROVE CodeInv'
    BY <1>1, <1>10, CodeFrame DEF OnReceivedProposal
  <1>11. ASSUME NEW m \in answers, LookupContent(m) PROVE CodeInv'
    BY <1>1, <1>11, CodeFrame DEF LookupContent
  <1>12. CASE MergeSign
    <2> DEFINE p == handler.prop
               a == handler.signer
    <2>1. p \in Proposal /\ a \in Arbiter /\ params[p] \in Seq(Arbiter) /\ UNCHANGED code
      BY <1>12, HandlerFields DEF MergeSign, CodeInv, DistinctInv, OnceInv, TypeInv, TypeOK
    <2>2. CASE UNCHANGED params
      BY <1>1, <2>1, <2>2, CodeFrame
    <2>3. CASE a \in CodeKeys(p) /\ params' = [params EXCEPT ![p] = Append(@, a)]
      <3>1. /\ params'[p] = Append(params[p], a)
            /\ \A q \in Proposal : q # p => params'[q] = params[q]
        BY <2>1, <2>3 DEF CodeInv, DistinctInv, OnceInv, TypeInv, TypeOK
      <3>2. \A i \in DOMAIN Append(params[p], a) :
              \/ i \in DOMAIN params[p] /\ Append(params[p], a)[i] = params[p][i]
              \/ Append(params[p], a)[i] = a
        BY <2>1
      <3>3. MergedSignersInCode'
        BY <2>1, <2>3, <3>1, <3>2 DEF CodeInv, MergedSignersInCode, CodeKeys
      <3>4. QED
        BY <1>1, <3>3 DEF CodeInv
    <2>4. QED
      BY <1>12, <2>2, <2>3 DEF MergeSign, IsCodeKey
  <1>13. CASE RecordSigner
    BY <1>1, <1>13, CodeFrame DEF RecordSigner, Restart
  <1>14. CASE CountArbiters \/ CheckAgreement \/ Submit
    BY <1>1, <1>14, CodeFrame DEF CountArbiters, CheckAgreement, Submit
  <1>15. QED
    BY <1>2, <1>3, <1>4, <1>5, <1>6, <1>7, <1>8, <1>9, <1>10, <1>11, <1>12, <1>13, <1>14
       DEF Next, Sync, Send, Clients, Consume

\* At the start nothing is merged.
LEMMA CodeInit == Init => CodeInv
  <1> SUFFICES ASSUME Init PROVE CodeInv
    OBVIOUS
  <1>1. \A p \in Proposal : DOMAIN params[p] = {}
    BY DEF Init
  <1>2. QED
    BY <1>1, DistinctInit DEF CodeInv, MergedSignersInCode

\* Merged signers are keys of the redeem script in every reachable state.
LEMMA CodeAlways == Spec => []CodeInv
  BY CodeInit, CodeStep, PTL DEF Spec

(***************************************************************************)
(* Whatever lists are installed while signatures are collected, every      *)
(* signature merged after Self's is by a key of the script the transaction *)
(* was created with.                                                       *)
(***************************************************************************)
THEOREM MergesCodeKeysOnly == Spec => []MergedSignersInCode
  <1>1. CodeInv => MergedSignersInCode
    BY DEF CodeInv
  <1>2. QED
    BY <1>1, CodeAlways, PTL

-----------------------------------------------------------------------------
(***************************************************************************)
(* With one list and one threshold, what is submitted can be spent.        *)
(***************************************************************************)

\* Dividing the length of the parameter by 64 counts signatures of 65 bytes
\* correctly up to 63 of them, so the count reaches a threshold of at most 64
\* only when that many signatures are there.
LEMMA SixtyFiveBySixtyFour ==
  ASSUME NEW n \in Nat, n < 64
  PROVE  (65 * n) \div 64 = n
  <1>1. /\ 65 * n = 64 * n + n
        /\ 0 <= n /\ n < 64
    OBVIOUS
  <1>2. QED
    BY <1>1, Z3

\* Below 64 signatures the count by length is the number of signatures.
LEMMA CountIsExact ==
  ASSUME NEW S, NEW sigs \in Seq(S), NEW q \in Int, q <= 64, SignedCount(sigs) >= q
  PROVE  Len(sigs) >= q
  <1>1. Len(sigs) \in Nat
    OBVIOUS
  <1>2. SUFFICES ASSUME Len(sigs) < q PROVE FALSE
    BY <1>1
  <1>3. Len(sigs) < 64
    BY <1>1, <1>2
  <1>4. (65 * Len(sigs)) \div 64 = Len(sigs)
    BY <1>1, <1>3, SixtyFiveBySixtyFour
  <1>5. SignedCount(sigs) = Len(sigs)
    BY <1>4 DEF SignedCount, SignatureScriptLength
  <1>6. QED
    BY <1>1, <1>2, <1>5

\* A sequence without repetition has as many names as it is long.
LEMMA DistinctCount ==
  ASSUME NEW S, NEW sigs \in Seq(S), NoRepetition(sigs)
  PROVE  Cardinality(Range(sigs)) = Len(sigs)
  <1> DEFINE n == Len(sigs)
  <1>1. n \in Nat /\ sigs \in [1 .. n -> Range(sigs)] /\ DOMAIN sigs = 1 .. n
    BY DEF Range
  <1>2. sigs \in Bijection(1 .. n, Range(sigs))
    BY <1>1 DEF Bijection, Injection, Surjection, IsInjective, NoRepetition, Range
  <1>3. ExistsBijection(1 .. n, Range(sigs))
    BY <1>2 DEF ExistsBijection
  <1>4. IsFiniteSet(1 .. n) /\ Cardinality(1 .. n) = n
    BY <1>1, FS_Interval
  <1>5. QED
    BY <1>3, <1>4, FS_Bijection
\* With one list, the keys of every script are the members of that list.
LEMMA StableKeys ==
  ASSUME StableGroups, NEW l \in Height
  PROVE  /\ Members(l) = GroupAt[0].members
         /\ Seats(l) = GroupAt[l].seats
         /\ \A h \in Height : AgreementCount(Seats(l), h) = StableQuorum
  BY ConstantsAssumption DEF StableGroups, Members, Seats

\* The quorum is a number, and the count of signatures is exact up to it.
LEMMA StableQuorumType ==
  ASSUME StableGroups
  PROVE  StableQuorum \in Int /\ StableQuorum <= 64
  <1>1. GroupAt[0].seats \in Nat
    BY ZeroIsHeight, ConstantsAssumption DEF Group
  <1>2. QED
    BY <1>1, ZeroIsHeight, AgreementCountType
       DEF StableGroups, StableQuorum, SignatureScriptLength

Sending == {"spawned", "listed", "created", "signed", "sent"}

\* There is a list while transactions are on their way.
LEMMA RunningStep ==
  ASSUME SpendInv, [Next]_vars
  PROVE  RunningHasList'
  <1> USE DEF syncVars, txVars, mapVars, netVars
  <1>1. TypeInv
    BY DEF SpendInv, CodeInv, DistinctInv, OnceInv
  <1>2. RunningHasList
    BY DEF SpendInv
  <1>3. ASSUME UNCHANGED listAt,
               \A p \in Proposal : status'[p] \in Sending => status[p] \in Sending \/ listAt # None,
               handler'.pc # "idle" => handler.pc # "idle" \/ listAt # None
        PROVE  RunningHasList'
    BY <1>2, <1>3 DEF RunningHasList, Sending
  <1>4. ASSUME Restart PROVE RunningHasList'
    BY <1>4, IdleType DEF Restart, RunningHasList
  <1>5. CASE Crash \/ NewBlock \/ SyncHeight \/ CheckOnDutyStatus \/ ResetContents \/ UNCHANGED vars
    BY <1>3, <1>4, <1>5
       DEF Crash, NewBlock, SyncHeight, CheckOnDutyStatus, ResetContents, vars
  <1>6. ASSUME NEW h \in Height, SyncList(h) PROVE RunningHasList'
    BY <1>6, ConstantsAssumption DEF SyncList, SyncChainData, RunningHasList
  <1>7. ASSUME NEW spawned \in SUBSET Proposal, ResetSigns(spawned) PROVE RunningHasList'
    <2>1. listAt # None
      BY <1>1, <1>7 DEF ResetSigns, TypeInv, SyncHasList
    <2>2. QED
      BY <1>3, <1>7, <2>1 DEF ResetSigns
  <1>8. ASSUME NEW p \in Proposal,
               \/ CreateRedeemScript(p) \/ CreateTransaction(p)
               \/ InitScript(p) \/ BroadcastWithdrawProposal(p)
        PROVE  RunningHasList'
    <2>1. status[p] \in Sending /\ UNCHANGED <<listAt, handler>>
      BY <1>8 DEF CreateRedeemScript, CreateTransaction, InitScript, BroadcastWithdrawProposal,
                  Sending
    <2>2. \A q \in Proposal : q # p => status'[q] = status[q]
      BY <1>1, <1>8
         DEF CreateRedeemScript, CreateTransaction, InitScript, BroadcastWithdrawProposal,
             TypeInv, TypeOK
    <2>3. QED
      BY <1>3, <2>1, <2>2
  <1>9. ASSUME NEW m \in inbox, OnReceivedProposal(m) PROVE RunningHasList'
    BY <1>3, <1>9 DEF OnReceivedProposal
  <1>10. ASSUME NEW m \in answers, LookupContent(m) PROVE RunningHasList'
    <2>1. listAt = None => handler' = Idle
      BY <1>10 DEF LookupContent, Members
    <2>2. QED
      BY <1>3, <1>10, <2>1, IdleType DEF LookupContent
  <1>11. CASE MergeSign \/ CountArbiters \/ CheckAgreement \/ Submit
    BY <1>3, <1>11 DEF MergeSign, CountArbiters, CheckAgreement, Submit
  <1>12. CASE RecordSigner
    BY <1>3, <1>4, <1>12 DEF RecordSigner
  <1>13. QED
    BY <1>5, <1>6, <1>7, <1>8, <1>9, <1>10, <1>11, <1>12 DEF Next, Sync, Send, Clients, Consume

\* A step after which only objects already built or submitted are so.
Built(p) == status[p] \in {"created", "signed", "sent"} \/ submitted[p] > 0
Drawn(p) == status[p] = "listed" \/ Built(p)

\* The life of an object goes forward: what is drawn, built or signed after a
\* step was so before it, but for the steps of its own goroutine.
LEMMA ObjectsAge ==
  ASSUME OnceInv, [Next]_vars, NEW p \in Proposal
  PROVE  /\ CreateRedeemScript(p) \/ (Drawn(p)' => Drawn(p))
         /\ CreateTransaction(p) \/ (Built(p)' => Built(p))
         /\ InitScript(p) \/ (status'[p] \in {"signed", "sent"} \/ submitted'[p] > 0
                                => status[p] \in {"signed", "sent"} \/ submitted[p] > 0)
  <1> USE DEF Built, Drawn, syncVars, txVars, mapVars, netVars
  <1>1. TypeInv
    BY DEF OnceInv
  <1>2. ASSUME UNCHANGED <<status, submitted>> PROVE
          /\ Drawn(p)' => Drawn(p)
          /\ Built(p)' => Built(p)
          /\ status'[p] \in {"signed", "sent"} \/ submitted'[p] > 0
               => status[p] \in {"signed", "sent"} \/ submitted[p] > 0
    BY <1>2
  <1>3. CASE NewBlock \/ SyncHeight \/ CheckOnDutyStatus \/ ResetContents \/ UNCHANGED vars
    BY <1>2, <1>3 DEF NewBlock, SyncHeight, CheckOnDutyStatus, ResetContents, vars
  <1>4. CASE \E h \in Height : SyncList(h)
    BY <1>2, <1>4 DEF SyncList, SyncChainData
  <1>5. CASE \/ \E m \in inbox : OnReceivedProposal(m)
             \/ \E m \in answers : LookupContent(m)
    BY <1>2, <1>5 DEF OnReceivedProposal, LookupContent
  <1>6. CASE MergeSign \/ CountArbiters \/ CheckAgreement
    BY <1>2, <1>6 DEF MergeSign, CountArbiters, CheckAgreement
  <1>7. CASE Crash \/ RecordSigner
    <2>1. CASE Restart
      BY <2>1 DEF Restart
    <2>2. CASE ~Restart
      BY <1>2, <1>7, <2>2 DEF Crash, RecordSigner
    <2>3. QED
      BY <2>1, <2>2
  <1>8. CASE \E spawned \in SUBSET Proposal : ResetSigns(spawned)
    BY <1>8 DEF ResetSigns
  <1>9. ASSUME NEW q \in Proposal,
               \/ CreateRedeemScript(q) \/ CreateTransaction(q)
               \/ InitScript(q) \/ BroadcastWithdrawProposal(q)
        PROVE  /\ CreateRedeemScript(p) \/ (Drawn(p)' => Drawn(p))
               /\ CreateTransaction(p) \/ (Built(p)' => Built(p))
               /\ InitScript(p) \/ (status'[p] \in {"signed", "sent"} \/ submitted'[p] > 0
                                      => status[p] \in {"signed", "sent"} \/ submitted[p] > 0)
    <2>1. CASE q # p
      BY <1>1, <1>2, <1>9, <2>1
         DEF CreateRedeemScript, CreateTransaction, InitScript, BroadcastWithdrawProposal,
             TypeInv, TypeOK
    <2>2. CASE q = p
      BY <1>1, <1>9, <2>2
         DEF CreateRedeemScript, CreateTransaction, InitScript, BroadcastWithdrawProposal,
             TypeInv, TypeOK
    <2>3. QED
      BY <2>1, <2>2
  <1>10. CASE Submit
    <2>1. handler \in HandlerStates /\ handler.pc = "agreed" /\ UNCHANGED status
      BY <1>1, <1>10 DEF Submit, TypeInv, TypeOK
    <2>2. handler.prop \in Proposal /\ status[handler.prop] = "sent"
      BY <2>1, HandlerFields DEF OnceInv, LiveIsSent, Live, Held
    <2>3. p # handler.prop => submitted'[p] = submitted[p]
      BY <1>1, <1>10, <2>2 DEF Submit, TypeInv, TypeOK
    <2>4. QED
      BY <2>1, <2>2, <2>3
  <1>11. QED
    BY <1>3, <1>4, <1>5, <1>6, <1>7, <1>8, <1>9, <1>10 DEF Next, Sync, Send, Clients, Consume
\* Only the goroutine of an object makes its script, and only that goroutine
\* and the merging of an answer change its parameter.
LEMMA ObjectChanges ==
  ASSUME TypeInv, [Next]_vars, NEW p \in Proposal
  PROVE  /\ CreateRedeemScript(p) \/ CreateTransaction(p) \/ code'[p] = code[p]
         /\ \/ InitScript(p)
            \/ params'[p] = params[p]
            \/ /\ handler.pc = "found" /\ handler.prop = p
               /\ handler.signer \in CodeKeys(p)
               /\ params'[p] = Append(params[p], handler.signer)
  <1> USE DEF syncVars, txVars, mapVars, netVars
  <1>1. CASE NewBlock \/ SyncHeight \/ CheckOnDutyStatus \/ ResetContents \/ UNCHANGED vars
    BY <1>1 DEF NewBlock, SyncHeight, CheckOnDutyStatus, ResetContents, vars
  <1>2. CASE \/ \E h \in Height : SyncList(h)
             \/ \E spawned \in SUBSET Proposal : ResetSigns(spawned)
    BY <1>2 DEF SyncList, SyncChainData, ResetSigns
  <1>3. CASE \/ \E m \in inbox : OnReceivedProposal(m)
             \/ \E m \in answers : LookupContent(m)
    BY <1>3 DEF OnReceivedProposal, LookupContent
  <1>4. CASE CountArbiters \/ CheckAgreement \/ Submit \/ Crash \/ RecordSigner
    BY <1>4 DEF CountArbiters, CheckAgreement, Submit, Crash, RecordSigner, Restart
  <1>5. ASSUME NEW q \in Proposal,
               \/ CreateRedeemScript(q) \/ CreateTransaction(q)
               \/ InitScript(q) \/ BroadcastWithdrawProposal(q)
        PROVE  /\ CreateRedeemScript(p) \/ CreateTransaction(p) \/ code'[p] = code[p]
               /\ InitScript(p) \/ params'[p] = params[p]
    <2>1. CASE q # p
      BY <1>5, <2>1
         DEF CreateRedeemScript, CreateTransaction, InitScript, BroadcastWithdrawProposal,
             TypeInv, TypeOK
    <2>2. CASE q = p
      BY <1>5, <2>2
         DEF CreateRedeemScript, CreateTransaction, InitScript, BroadcastWithdrawProposal
    <2>3. QED
      BY <2>1, <2>2
  <1>6. CASE MergeSign
    <2>1. handler.prop \in Proposal /\ handler.pc = "found" /\ UNCHANGED code
      BY <1>6, HandlerFields DEF MergeSign, TypeInv, TypeOK
    <2>2. CASE handler.prop # p
      BY <1>6, <2>1, <2>2 DEF MergeSign, TypeInv, TypeOK
    <2>3. CASE handler.prop = p
      BY <1>6, <2>1, <2>3 DEF MergeSign, IsCodeKey, TypeInv, TypeOK
    <2>4. QED
      BY <2>1, <2>2, <2>3
  <1>7. QED
    BY <1>1, <1>2, <1>3, <1>4, <1>5, <1>6 DEF Next, Sync, Send, Clients, Consume

\* A transaction that is built has the stable quorum as the M of its script.
LEMMA CreatedStep ==
  ASSUME StableGroups, SpendInv, [Next]_vars
  PROVE  CreatedHasCode'
  <1>1. OnceInv /\ TypeInv /\ RunningHasList /\ CreatedHasCode
    BY DEF SpendInv, CodeInv, DistinctInv, OnceInv
  <1> SUFFICES ASSUME NEW p \in Proposal
               PROVE  /\ Drawn(p)' => code'[p].at # None
                      /\ Built(p)' => code'[p].m = StableQuorum
    BY DEF CreatedHasCode, Drawn, Built
  <1>2. /\ Drawn(p) => code[p].at # None
        /\ Built(p) => code[p].m = StableQuorum
    BY <1>1 DEF CreatedHasCode, Drawn, Built
  <1>3. CASE CreateRedeemScript(p)
    <2>1. status[p] = "spawned" /\ status'[p] = "listed" /\ submitted' = submitted
      BY <1>1, <1>3 DEF CreateRedeemScript, TypeInv, TypeOK
    <2>2. code'[p].at = listAt /\ listAt # None
      BY <1>1, <1>3, <2>1 DEF CreateRedeemScript, RunningHasList, TypeInv, TypeOK
    <2>3. ~Built(p)'
      BY <1>1, <2>1 DEF Built, OnceInv, UnsentIsUnsubmitted, Unsent
    <2>4. QED
      BY <2>2, <2>3
  <1>4. CASE CreateTransaction(p)
    <2>1. Drawn(p)
      BY <1>4 DEF CreateTransaction, Drawn
    <2>2. code[p].at \in Height /\ height \in Height
      BY <1>1, <1>2, <2>1 DEF TypeInv, TypeOK
    <2>3. /\ code'[p].at = code[p].at
          /\ code'[p].m = AgreementCount(Seats(code[p].at), height)
      BY <1>1, <1>4 DEF CreateTransaction, TypeInv, TypeOK
    <2>4. QED
      BY <1>2, <2>1, <2>2, <2>3, StableKeys
  <1>5. CASE ~CreateRedeemScript(p) /\ ~CreateTransaction(p)
    <2>1. code'[p] = code[p]
      BY <1>1, <1>5, ObjectChanges
    <2>2. (Drawn(p)' => Drawn(p)) /\ (Built(p)' => Built(p))
      BY <1>1, <1>5, ObjectsAge
    <2>3. QED
      BY <1>2, <2>1, <2>2
  <1>6. QED
    BY <1>3, <1>4, <1>5

\* The signers of a transaction are keys of its own script.
LEMMA SignedStep ==
  ASSUME StableGroups, SpendInv, [Next]_vars
  PROVE  SignedByCodeKeys'
  <1>1. OnceInv /\ TypeInv /\ CreatedHasCode /\ SignedByCodeKeys
    BY DEF SpendInv, CodeInv, DistinctInv, OnceInv
  <1> SUFFICES ASSUME NEW p \in Proposal,
                      status'[p] \in {"signed", "sent"} \/ submitted'[p] > 0
               PROVE  Range(params'[p]) \subseteq CodeKeys(p)'
    BY DEF SignedByCodeKeys
  <1>2. CASE InitScript(p)
    <2>1. status[p] = "created" /\ submitted'[p] = 0 /\ UNCHANGED code
      BY <1>1, <1>2 DEF InitScript, OnceInv, UnsentIsUnsubmitted, Unsent
    <2>2. status'[p] = "signed"
      BY <1>1, <1>2, <2>1 DEF InitScript, TypeInv, TypeOK
    <2>3. params'[p] = <<Self>> /\ Self \in Members(listAt)
      BY <1>1, <1>2, <2>2 DEF InitScript, TypeInv, TypeOK
    <2>4. listAt \in Height /\ code[p].at \in Height
      BY <1>1, <2>1, <2>3 DEF Members, CreatedHasCode, TypeInv, TypeOK
    <2>5. Self \in CodeKeys(p)
      BY <2>3, <2>4, StableKeys DEF CodeKeys
    <2>6. QED
      BY <2>1, <2>3, <2>5, OwnSignature DEF CodeKeys
  <1>3. CASE ~InitScript(p)
    <2>1. status[p] \in {"signed", "sent"} \/ submitted[p] > 0
      BY <1>1, <1>3, ObjectsAge
    <2>2. ~CreateRedeemScript(p) /\ ~CreateTransaction(p)
      BY <1>1, <2>1
         DEF CreateRedeemScript, CreateTransaction, OnceInv, UnsentIsUnsubmitted, Unsent
    <2>3. code'[p] = code[p] /\ Range(params[p]) \subseteq CodeKeys(p)
      BY <1>1, <2>1, <2>2, ObjectChanges DEF SignedByCodeKeys
    <2>4. CodeKeys(p)' = CodeKeys(p)
      BY <2>3 DEF CodeKeys
    <2>5. CASE params'[p] = params[p]
      BY <2>3, <2>4, <2>5
    <2>6. CASE /\ handler.pc = "found"
               /\ handler.signer \in CodeKeys(p)
               /\ params'[p] = Append(params[p], handler.signer)
      <3>1. handler.signer \in Arbiter /\ params[p] \in Seq(Arbiter)
        BY <1>1, <2>6, HandlerFields DEF TypeInv, TypeOK
      <3>2. Range(params'[p]) = Range(params[p]) \cup {handler.signer}
        BY <2>6, <3>1, AppendDistinct
      <3>3. QED
        BY <2>3, <2>4, <2>6, <3>2
    <2>7. QED
      BY <1>1, <1>3, <2>5, <2>6, ObjectChanges
  <1>4. QED
    BY <1>2, <1>3

\* The threshold is computed from the seats of some list.
LEMMA CountedStep ==
  ASSUME SpendInv, [Next]_vars
  PROVE  CountedSeats'
  <1> USE DEF syncVars, txVars, mapVars, netVars
  <1>1. TypeInv /\ RunningHasList /\ CountedSeats
    BY DEF SpendInv, CodeInv, DistinctInv, OnceInv
  <1>2. ASSUME UNCHANGED handler PROVE CountedSeats'
    BY <1>1, <1>2 DEF CountedSeats
  <1>3. ASSUME handler'.pc # "counted" PROVE CountedSeats'
    BY <1>3 DEF CountedSeats
  <1>4. CASE NewBlock \/ SyncHeight \/ CheckOnDutyStatus \/ ResetContents \/ UNCHANGED vars
    BY <1>2, <1>4 DEF NewBlock, SyncHeight, CheckOnDutyStatus, ResetContents, vars
  <1>5. CASE Sync \/ Send \/ Clients
    BY <1>2, <1>5
       DEF Sync, Send, Clients, SyncList, SyncChainData, SyncHeight, CheckOnDutyStatus, ResetContents,
           ResetSigns, CreateRedeemScript, CreateTransaction, InitScript,
           BroadcastWithdrawProposal, OnReceivedProposal
  <1>6. ASSUME NEW m \in answers, LookupContent(m) PROVE CountedSeats'
    BY <1>3, <1>6 DEF LookupContent, Idle, Holding
  <1>7. CASE MergeSign \/ CheckAgreement \/ Submit
    BY <1>3, <1>7 DEF MergeSign, CheckAgreement, Submit, Idle, Holding
  <1>8. CASE Crash \/ RecordSigner
    BY <1>3, <1>8 DEF Crash, RecordSigner, Restart, Idle, Holding
  <1>9. CASE CountArbiters
    <2>1. listAt \in Height /\ handler'.seats = Seats(listAt)
      BY <1>1, <1>9 DEF CountArbiters, Holding, RunningHasList, TypeInv, TypeOK
    <2>2. Seats(listAt) = GroupAt[listAt].seats
      BY <2>1, ConstantsAssumption DEF Seats
    <2>3. QED
      BY <2>1, <2>2 DEF CountedSeats
  <1>10. QED
    BY <1>4, <1>5, <1>6, <1>7, <1>8, <1>9 DEF Next, Consume

\* What is handed to Submit has been counted to the quorum, and no signature
\* is added to it afterwards.
LEMMA AgreedStep ==
  ASSUME StableGroups, SpendInv, [Next]_vars
  PROVE  AgreedHasQuorum'
  <1> USE DEF syncVars, txVars, mapVars, netVars
  <1>1. OnceInv /\ TypeInv /\ CountedSeats /\ AgreedHasQuorum
    BY DEF SpendInv, CodeInv, DistinctInv, OnceInv
  <1> SUFFICES ASSUME NEW p \in Proposal, HeldAt(p, "agreed")' \/ submitted'[p] > 0
               PROVE  SignedCount(params'[p]) >= StableQuorum
    BY DEF AgreedHasQuorum, SignedCount
  <1>2. CASE CheckAgreement
    <2>1. UNCHANGED <<params, submitted>> /\ handler.pc = "counted"
      BY <1>2 DEF CheckAgreement
    <2>2. CASE submitted[p] > 0
      BY <1>1, <2>1, <2>2 DEF AgreedHasQuorum
    <2>3. CASE HeldAt(p, "agreed")'
      <3>1. /\ handler.prop = p
            /\ SignedCount(params[p]) >= AgreementCount(handler.seats, height)
        BY <1>2, <2>3 DEF CheckAgreement, HeldAt, Holding, Idle
      <3>2. PICK h \in Height : handler.seats = GroupAt[h].seats
        BY <1>1, <2>1 DEF CountedSeats
      <3>3. AgreementCount(handler.seats, height) = StableQuorum
        BY <1>1, <3>2 DEF StableGroups, TypeInv, TypeOK
      <3>4. QED
        BY <2>1, <3>1, <3>3
    <2>4. QED
      BY <2>1, <2>2, <2>3
  <1>3. CASE ~CheckAgreement
    <2>1. HeldAt(p, "agreed")' => HeldAt(p, "agreed")
      <3>1. CASE UNCHANGED handler
        BY <3>1 DEF HeldAt
      <3>2. CASE handler'.pc # "agreed"
        BY <3>2 DEF HeldAt
      <3>3. CASE NewBlock \/ UNCHANGED vars
        BY <3>1, <3>3 DEF NewBlock, vars
      <3>4. CASE Sync \/ Send \/ Clients
        BY <3>1, <3>4
           DEF Sync, Send, Clients, SyncList, SyncChainData, SyncHeight, CheckOnDutyStatus, ResetContents,
               ResetSigns, CreateRedeemScript, CreateTransaction, InitScript,
               BroadcastWithdrawProposal, OnReceivedProposal
      <3>5. CASE Crash
        BY <3>2, <3>5 DEF Crash, Restart, Idle
      <3>6. CASE Consume
        BY <1>3, <3>2, <3>6
           DEF Consume, LookupContent, MergeSign, RecordSigner, Restart, CountArbiters, Submit,
               Idle, Holding
      <3>7. QED
        BY <3>3, <3>4, <3>5, <3>6 DEF Next
    <2>2. submitted'[p] > 0 => submitted[p] > 0 \/ HeldAt(p, "agreed")
      <3>1. CASE UNCHANGED submitted
        BY <3>1
      <3>2. CASE NewBlock \/ Crash \/ UNCHANGED vars
        BY <3>1, <3>2 DEF NewBlock, Crash, Restart, vars
      <3>3. CASE Sync \/ Send \/ Clients
        BY <3>1, <3>3
           DEF Sync, Send, Clients, SyncList, SyncChainData, SyncHeight, CheckOnDutyStatus, ResetContents,
               ResetSigns, CreateRedeemScript, CreateTransaction, InitScript,
               BroadcastWithdrawProposal, OnReceivedProposal
      <3>4. CASE Submit
        BY <1>1, <3>4 DEF Submit, HeldAt, TypeInv, TypeOK
      <3>5. CASE Consume /\ ~Submit
        BY <3>1, <3>5
           DEF Consume, LookupContent, MergeSign, RecordSigner, Restart, CountArbiters,
               CheckAgreement
      <3>6. QED
        BY <3>2, <3>3, <3>4, <3>5 DEF Next
    <2>3. HeldAt(p, "agreed") \/ submitted[p] > 0
      BY <2>1, <2>2
    <2>4. SignedCount(params[p]) >= StableQuorum
      BY <1>1, <2>3 DEF AgreedHasQuorum
    <2>5. ~InitScript(p)
      BY <1>1, <2>3
         DEF InitScript, OnceInv, UnsentIsUnsubmitted, LiveIsSent, Live, Held, HeldAt, Unsent
    <2>6. ~(handler.pc = "found" /\ handler.prop = p)
      <3>1. CASE HeldAt(p, "agreed")
        BY <3>1 DEF HeldAt
      <3>2. CASE submitted[p] > 0
        <4>1. ~Held(p)
          BY <1>1, <3>2 DEF OnceInv, LiveIsUnsubmitted, Live, TypeInv, TypeOK
        <4>2. QED
          BY <4>1 DEF Held
      <3>3. QED
        BY <2>3, <3>1, <3>2
    <2>7. params'[p] = params[p]
      BY <1>1, <2>5, <2>6, ObjectChanges
    <2>8. QED
      BY <2>4, <2>7
  <1>4. QED
    BY <1>2, <1>3

\* Every step keeps the invariant that submitted objects can be spent.
LEMMA SpendStep ==
  ASSUME StableGroups, SpendInv, [Next]_vars
  PROVE  SpendInv'
  <1>1. CodeInv'
    BY CodeStep DEF SpendInv
  <1>2. QED
    BY <1>1, RunningStep, CreatedStep, SignedStep, CountedStep, AgreedStep DEF SpendInv

\* At the start nothing is submitted.
LEMMA SpendInit == Init => SpendInv
  <1> SUFFICES ASSUME Init PROVE SpendInv
    OBVIOUS
  <1>1. \A p \in Proposal : status[p] = "none" /\ submitted[p] = 0
    BY DEF Init
  <1>2. handler.pc = "idle"
    BY IdleType DEF Init
  <1>3. QED
    BY <1>1, <1>2, CodeInit
       DEF SpendInv, RunningHasList, CreatedHasCode, SignedByCodeKeys, CountedSeats,
           AgreedHasQuorum, HeldAt

(***************************************************************************)
(* The invariant of the collection under one list and one threshold: from  *)
(* the creation of a redeem script to the count that makes the handler     *)
(* submit, every signature is of a key of that script, and counted once.   *)
(***************************************************************************)
THEOREM SpendInvHolds ==
  ASSUME StableGroups
  PROVE  Spec => []SpendInv
  BY SpendInit, SpendStep, StableGroups, PTL DEF Spec

(***************************************************************************)
(* When the arbiter list and the threshold are the same at every height,   *)
(* every transaction with a nonce that is submitted is signed by at least  *)
(* M different keys of its own redeem script: the main chain can accept    *)
(* its signatures.                                                         *)
(***************************************************************************)
THEOREM SubmitsSpendable ==
  ASSUME StableGroups
  PROVE  Spec => []SubmittedIsSpendable
  <1>1. SpendInv => SubmittedIsSpendable
    <2> SUFFICES ASSUME SpendInv, NEW p \in Proposal, Nonced(p), submitted[p] > 0
                 PROVE  Spendable(p)
      BY DEF SubmittedIsSpendable
    <2>1. params[p] \in Seq(Arbiter) /\ code[p].m = StableQuorum
      BY DEF SpendInv, CodeInv, DistinctInv, OnceInv, TypeInv, TypeOK, CreatedHasCode
    <2>2. NoRepetition(params[p])
      BY DEF SpendInv, CodeInv, DistinctInv, NoRepeatedSignerSubmitted
    <2>3. SignedCount(params[p]) >= StableQuorum
      BY DEF SpendInv, AgreedHasQuorum
    <2>4. Len(params[p]) >= StableQuorum
      BY <2>1, <2>3, CountIsExact, StableQuorumType
    <2>5. Cardinality(Range(params[p])) >= code[p].m
      BY <2>1, <2>2, <2>4, DistinctCount
    <2>6. Range(params[p]) \subseteq CodeKeys(p)
      BY DEF SpendInv, SignedByCodeKeys
    <2>7. QED
      BY <2>5, <2>6 DEF Spendable
  <1>2. QED
    BY <1>1, SpendInvHolds, StableGroups, PTL
-----------------------------------------------------------------------------
(***************************************************************************)
(* Signature collection implements its abstract specification.             *)
(***************************************************************************)
RefInv == SpendInv /\ OwnSignatureIsIn

\* A transaction on its way carries the signature of the arbiter that made it.
LEMMA OwnSignatureStep ==
  ASSUME SpendInv, OwnSignatureIsIn, [Next]_vars
  PROVE  OwnSignatureIsIn'
  <1>1. OnceInv /\ TypeInv
    BY DEF SpendInv, CodeInv, DistinctInv, OnceInv
  <1> SUFFICES ASSUME NEW p \in Proposal,
                      status'[p] \in {"signed", "sent"} \/ submitted'[p] > 0
               PROVE  Self \in Range(params'[p])
    BY DEF OwnSignatureIsIn
  <1>2. CASE InitScript(p)
    <2>1. status[p] = "created" /\ submitted'[p] = 0
      BY <1>1, <1>2 DEF InitScript, OnceInv, UnsentIsUnsubmitted, Unsent
    <2>2. params'[p] = <<Self>>
      BY <1>1, <1>2, <2>1 DEF InitScript, TypeInv, TypeOK
    <2>3. QED
      BY <2>2, OwnSignature
  <1>3. CASE ~InitScript(p)
    <2>1. Self \in Range(params[p])
      BY <1>1, <1>3, ObjectsAge DEF OwnSignatureIsIn
    <2>2. CASE params'[p] = params[p]
      BY <2>1, <2>2
    <2>3. CASE /\ handler.pc = "found"
               /\ params'[p] = Append(params[p], handler.signer)
      <3>1. handler.signer \in Arbiter /\ params[p] \in Seq(Arbiter)
        BY <1>1, <2>3, HandlerFields DEF TypeInv, TypeOK
      <3>2. QED
        BY <2>1, <2>3, <3>1, AppendDistinct
    <2>4. QED
      BY <1>1, <1>3, <2>2, <2>3, ObjectChanges
  <1>4. QED
    BY <1>2, <1>3

\* No signature is added but Self's to an empty parameter and a merged one.
LEMMA SignersChange ==
  ASSUME TypeInv, [Next]_vars
  PROVE  \/ UNCHANGED params
         \/ \E p \in Proposal : InitScript(p)
         \/ MergeSign
  BY DEF Next, Sync, Send, Clients, Consume, Crash, Restart, NewBlock, SyncList, SyncChainData, SyncHeight,
         CheckOnDutyStatus, ResetContents, ResetSigns, CreateRedeemScript, CreateTransaction,
         BroadcastWithdrawProposal, OnReceivedProposal, LookupContent, RecordSigner,
         CountArbiters, CheckAgreement, Submit, vars, syncVars, txVars, mapVars, netVars

\* Only Submit submits.
LEMMA SubmittedChange ==
  ASSUME TypeInv, [Next]_vars
  PROVE  UNCHANGED submitted \/ Submit
  BY DEF Next, Sync, Send, Clients, Consume, Crash, Restart, NewBlock, SyncList, SyncChainData, SyncHeight,
         CheckOnDutyStatus, ResetContents, ResetSigns, CreateRedeemScript, CreateTransaction,
         InitScript, MergeSign, BroadcastWithdrawProposal, OnReceivedProposal, LookupContent,
         RecordSigner, CountArbiters, CheckAgreement, vars, syncVars, txVars, mapVars, netVars

\* Every step of the collection is a step of QuorumSubmit, or stutters.
LEMMA RefinementStep ==
  ASSUME StableGroups, \A p \in Proposal : Nonced(p), RefInv, [Next]_vars
  PROVE  [Collected!Next]_<<Signers, SentOff>>
  <1>1. SpendInv /\ OnceInv /\ TypeInv /\ OwnSignatureIsIn
    BY DEF RefInv, SpendInv, CodeInv, DistinctInv, OnceInv
  <1>2. ASSUME UNCHANGED params PROVE UNCHANGED Signers
    BY <1>2 DEF Signers
  <1>3. ASSUME UNCHANGED submitted PROVE UNCHANGED SentOff
    BY <1>3 DEF SentOff
  <1>4. CASE UNCHANGED params /\ UNCHANGED submitted
    BY <1>2, <1>3, <1>4
  <1>5. ASSUME NEW p \in Proposal, InitScript(p), ~UNCHANGED params
        PROVE  Collected!Open(p)
    <2>1. /\ status[p] = "created" /\ UNCHANGED submitted
          /\ params' = [params EXCEPT ![p] = <<Self>>]
      BY <1>5 DEF InitScript
    <2>2. params[p] = <<>>
      BY <1>1, <2>1 DEF SpendInv, CodeInv, DistinctInv, UnsignedHasNoParameter
    <2>3. Signers[p] = {}
      BY <2>2 DEF Signers, Range
    <2>4. \A q \in Proposal : Range(params'[q]) = IF q = p THEN {Self} ELSE Range(params[q])
      BY <1>1, <2>1, OwnSignature DEF TypeInv, TypeOK
    <2>5. Signers' = [Signers EXCEPT ![p] = {Self}]
      BY <2>4 DEF Signers
    <2>6. QED
      BY <1>3, <2>1, <2>3, <2>5 DEF Collected!Open
  <1>6. CASE MergeSign /\ ~UNCHANGED params
    <2> DEFINE p == handler.prop
               a == handler.signer
    <2>1. p \in Proposal /\ a \in Arbiter /\ params[p] \in Seq(Arbiter) /\ Held(p)
      BY <1>1, <1>6, HandlerFields DEF MergeSign, Held, TypeInv, TypeOK
    <2>2. params' = [params EXCEPT ![p] = Append(@, a)] /\ UNCHANGED submitted
      BY <1>6 DEF MergeSign
    <2>3. Range(Append(params[p], a)) = Range(params[p]) \cup {a}
      BY <2>1, AppendDistinct
    <2>4. \A q \in Proposal :
            Range(params'[q]) = IF q = p THEN Range(params[q]) \cup {a} ELSE Range(params[q])
      BY <1>1, <2>1, <2>2, <2>3 DEF TypeInv, TypeOK
    <2>5. Signers' = [Signers EXCEPT ![p] = @ \cup {a}]
      BY <2>4 DEF Signers
    <2>6. CASE a \in Signers[p]
      <3>1. a \in Range(params[p])
        BY <2>1, <2>6 DEF Signers
      <3>2. Range(params[p]) \cup {a} = Range(params[p])
        BY <3>1
      <3>3. \A q \in Proposal : Range(params'[q]) = Range(params[q])
        BY <2>4, <3>2
      <3>4. Signers' = Signers
        BY <3>3 DEF Signers
      <3>5. QED
        BY <1>3, <2>2, <3>4
    <2>7. CASE a \notin Signers[p]
      <3>1. status[p] = "sent" /\ submitted[p] = 0
        BY <1>1, <2>1 DEF OnceInv, LiveIsSent, LiveIsUnsubmitted, Live
      <3>2. Self \in Signers[p] /\ p \notin SentOff
        BY <1>1, <2>1, <3>1 DEF OwnSignatureIsIn, Signers, SentOff
      <3>3. Collected!Sign(p, a)
        BY <1>3, <2>1, <2>2, <2>5, <2>7, <3>2 DEF Collected!Sign
      <3>4. QED
        BY <2>1, <3>3 DEF Collected!Next
    <2>8. QED
      BY <2>6, <2>7
  <1>7. CASE Submit
    <2> DEFINE p == handler.prop
    <2>1. /\ p \in Proposal /\ HeldAt(p, "agreed") /\ Held(p) /\ UNCHANGED params
          /\ submitted' = [submitted EXCEPT ![p] = @ + 1]
      BY <1>1, <1>7, HandlerFields DEF Submit, Held, HeldAt, txVars, TypeInv, TypeOK
    <2>2. submitted[p] = 0 /\ ~Doomed(p) /\ Live(p)
      BY <1>1, <2>1 DEF OnceInv, LiveIsUnsubmitted, Live, HeldAt, Doomed
    <2>3. \A q \in Proposal : submitted'[q] > 0 <=> submitted[q] > 0 \/ q = p
      BY <1>1, <2>1, <2>2 DEF TypeInv, TypeOK
    <2>4. SentOff' = SentOff \cup {p} /\ p \notin SentOff
      BY <2>1, <2>2, <2>3 DEF SentOff
    <2>5. NoRepetition(params[p])
      BY <1>1, <2>1, <2>2 DEF SpendInv, CodeInv, DistinctInv, LiveHasNoRepetition
    <2>6. SignedCount(params[p]) >= StableQuorum
      BY <1>1, <2>1 DEF SpendInv, AgreedHasQuorum
    <2>7. params[p] \in Seq(Arbiter)
      BY <1>1, <2>1 DEF TypeInv, TypeOK
    <2>8. Cardinality(Range(params[p])) >= StableQuorum
      BY <2>5, <2>6, <2>7, CountIsExact, DistinctCount, StableQuorumType
    <2>9. Collected!Send(p)
      <3>1. Signers[p] = Range(params[p])
        BY <2>1 DEF Signers
      <3>2. Signers' = Signers
        BY <1>2, <2>1
      <3>3. Signers[p] \in StableQuorums
        BY <2>7, <2>8, <3>1 DEF StableQuorums, Range
      <3>4. QED
        BY <2>4, <3>2, <3>3 DEF Collected!Send
    <2>10. QED
      BY <2>1, <2>9 DEF Collected!Next
  <1>8. ~UNCHANGED submitted => Submit
    BY <1>1, SubmittedChange
  <1>9. UNCHANGED params \/ MergeSign \/ \E p \in Proposal : InitScript(p)
    BY <1>1, SignersChange
  <1>10. QED
    BY <1>4, <1>5, <1>6, <1>7, <1>8, <1>9 DEF Collected!Next

\* The empty parameters are transactions not yet opened.
LEMMA RefinementInit == Init => Collected!Init /\ RefInv
  <1> SUFFICES ASSUME Init PROVE Collected!Init /\ RefInv
    OBVIOUS
  <1>1. \A p \in Proposal : Range(params[p]) = {} /\ submitted[p] = 0 /\ status[p] = "none"
    BY DEF Init, Range
  <1>2. Collected!Init
    BY <1>1 DEF Collected!Init, Signers, SentOff
  <1>3. RefInv
    BY <1>1, SpendInit DEF RefInv, OwnSignatureIsIn
  <1>4. QED
    BY <1>2, <1>3

(***************************************************************************)
(* With one list, and transactions that all have a nonce, the server, its  *)
(* maps, the messages, the resets and the crashes implement QuorumSubmit.  *)
(***************************************************************************)
THEOREM CollectionImplementsQuorumSubmit ==
  ASSUME StableGroups, \A p \in Proposal : Nonced(p)
  PROVE  Spec => ImplementsQuorumSubmit
  <1>1. RefInv /\ [Next]_vars => RefInv'
    BY SpendStep, OwnSignatureStep, StableGroups DEF RefInv
  <1>2. RefInv /\ [Next]_vars => [Collected!Next]_<<Signers, SentOff>>
    BY RefinementStep, StableGroups
  <1>3. QED
    BY <1>1, <1>2, RefinementInit, PTL DEF Spec, ImplementsQuorumSubmit, Collected!Spec
=============================================================================
