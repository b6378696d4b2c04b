---------------------------- MODULE SchnorrProofs ----------------------------
(***************************************************************************)
(* Proofs about SchnorrCollection for every finite set of arbiters and of  *)
(* transactions, any lists, any number of R drawn, and any resets and      *)
(* restarts.                                                               *)
(*                                                                         *)
(* Each transaction is called once (CallsOnce); on top of that, a recorded *)
(* R that a call was made of stays as it is while the maps hold the        *)
(* transaction (CallsFromRecords), and as long as the list has not moved a *)
(* peer's count covers every call that awaits its answer (CountsCover).    *)
(***************************************************************************)
EXTENDS SchnorrCollection, FiniteSetTheorems, TLAPS

-----------------------------------------------------------------------------
(***************************************************************************)
(* Types.                                                                  *)
(***************************************************************************)
LEMMA RestrictTyped ==
  ASSUME NEW S \in SUBSET Arbiter, NEW T, NEW f \in [S -> 0 .. Draws]
  PROVE  /\ Restrict(f, T \cap S) \in Challenge
         /\ DOMAIN Restrict(f, T \cap S) = T \cap S
         /\ \A a \in T \cap S : Restrict(f, T \cap S)[a] = f[a]
  <1>1. Restrict(f, T \cap S) = [a \in T \cap S |-> f[a]]
    BY DEF Restrict
  <1>2. T \cap S \in SUBSET Arbiter
    OBVIOUS
  <1>3. Restrict(f, T \cap S) \in [T \cap S -> 0 .. Draws]
    BY <1>1
  <1>4. QED
    BY <1>1, <1>2, <1>3 DEF Challenge

\* Restriction to a subset of the domain.
LEMMA RestrictToSubset ==
  ASSUME NEW S \in SUBSET Arbiter, NEW T \in SUBSET S, NEW f \in [S -> 0 .. Draws]
  PROVE  /\ Restrict(f, T) \in Challenge
         /\ DOMAIN Restrict(f, T) = T
         /\ \A a \in T : Restrict(f, T)[a] = f[a]
  <1>1. T \cap S = T
    OBVIOUS
  <1>2. QED
    BY <1>1, RestrictTyped

LEMMA ChallengeDomain ==
  ASSUME NEW c \in Challenge
  PROVE  DOMAIN c \in SUBSET Arbiter /\ c \in [DOMAIN c -> 0 .. Draws]
  BY DEF Challenge

LEMMA NoCallTyped == NoCall \in Challenge /\ DOMAIN NoCall = {}
  <1>1. NoCall \in [{} -> 0 .. Draws]
    BY DEF NoCall
  <1>2. QED
    BY <1>1 DEF Challenge, NoCall

LEMMA HandlerTyped ==
  /\ Idle \in HandlerStates
  /\ \A h \in HandlerStates :
       /\ h.pc \in {"idle", "chosen", "composed", "counting", "aggregating"}
       /\ h.signers \in SUBSET Arbiter /\ h.call \in Challenge
       /\ h.pc # "idle" => h.prop \in Proposal
       /\ h.pc = "idle" => h = Idle
  BY NoCallTyped DEF HandlerStates, Idle

LEMMA NoDrawsTyped == NoDraws \in [Arbiter -> 0 .. Draws]
  BY SchnorrAssumption DEF NoDraws

\* Between its list and its height the sync goroutine has a list.
SyncHasList == syncPc # "idle" => listAt \in Height

TypeInv == TypeOK /\ SyncHasList

LEMMA TypeInit == Init => TypeInv
  <1> SUFFICES ASSUME Init PROVE TypeOK /\ SyncHasList
    BY DEF TypeInv
  <1>0. SyncHasList
    BY DEF Init, SyncHasList
  <1>1. listAt \in Height \cup {None} /\ height \in Height
    BY SchnorrAssumption DEF Init, Height
  <1>2. rs \in [Proposal -> [Arbiter -> 0 .. Draws]] /\ called \in [Proposal -> Challenge]
        /\ handler \in HandlerStates
    BY NoDrawsTyped, NoCallTyped, HandlerTyped DEF Init
  <1>3. sent \in [Proposal -> Seq(Challenge)]
    BY DEF Init
  <1>4. syncPc \in {"idle", "listed", "reset"} /\ onDuty \in BOOLEAN /\ moved \in BOOLEAN
        /\ mux \in {"free", "kept"}
    BY DEF Init
  <1>5. status \in [Proposal -> {"none", "spawned", "filed", "asked", "timed", "gone"}]
        /\ filed \subseteq Proposal /\ registered \subseteq Proposal
        /\ ss \in [Proposal -> SUBSET Arbiter]
        /\ unsigned \in [Arbiter -> Nat \cup {Absent}]
    BY DEF Init
  <1>6. QED
    BY <1>0, <1>1, <1>2, <1>3, <1>4, <1>5 DEF TypeOK

LEMMA SyncHasListNext == SyncHasList /\ [Next]_vars => SyncHasList'
  <1> SUFFICES ASSUME SyncHasList, [Next]_vars PROVE SyncHasList'
    OBVIOUS
  <1>1. ASSUME NEW h \in Height, SyncList(h) PROVE SyncHasList'
    BY <1>1 DEF SyncList, SyncHasList
  <1>2. CASE Restart
    BY <1>2 DEF Restart, SyncHasList
  <1>3. CASE SyncHeight
    BY <1>3 DEF SyncHeight, SyncHasList
  <1>4. ASSUME NEW spawned \in SUBSET Proposal, Reset(spawned) PROVE SyncHasList'
    BY <1>4 DEF Reset, SyncHasList
  <1>5. CASE UNCHANGED syncVars
    BY <1>5 DEF syncVars, SyncHasList
  <1>6. Ask => Restart \/ UNCHANGED syncVars
    BY DEF Ask, FileTransaction, RecordOwnR
  <1>7. Call => UNCHANGED syncVars
    BY DEF Call, Handle, ChooseSigners, ComposeCall, AnnounceCall, CountUnsigned, Aggregate
  <1>8. AnswerR \/ AnswerS => UNCHANGED syncVars
    BY DEF AnswerR, AnswerS, ReceiveR, ReceiveS
  <1>9. UNCHANGED vars => UNCHANGED syncVars
    BY DEF vars
  <1>10. QED
    BY <1>1, <1>2, <1>3, <1>4, <1>5, <1>6, <1>7, <1>8, <1>9 DEF Next, Sync

LEMMA TypeNext == TypeInv /\ [Next]_vars => TypeInv'
  <1> SUFFICES ASSUME TypeOK, SyncHasList, [Next]_vars PROVE TypeOK'
    BY SyncHasListNext DEF TypeInv
  <1> USE SchnorrAssumption
  <1>1. CASE Restart
    <2>1. listAt' \in Height \cup {None} /\ height' \in Height
      BY <1>1 DEF Restart, Height
    <2>2. rs' \in [Proposal -> [Arbiter -> 0 .. Draws]] /\ handler' \in HandlerStates
      BY <1>1, NoDrawsTyped, HandlerTyped DEF Restart
    <2>3. syncPc' \in {"idle", "listed", "reset"} /\ onDuty' \in BOOLEAN
          /\ moved' \in BOOLEAN /\ mux' \in {"free", "kept"}
      BY <1>1 DEF Restart
    <2>4. status' \in [Proposal -> {"none", "spawned", "filed", "asked", "timed", "gone"}]
          /\ filed' \subseteq Proposal /\ registered' \subseteq Proposal
          /\ ss' \in [Proposal -> SUBSET Arbiter]
          /\ unsigned' \in [Arbiter -> Nat \cup {Absent}]
      BY <1>1 DEF Restart
    <2>5. QED
      BY <1>1, <2>1, <2>2, <2>3, <2>4 DEF TypeOK, Restart
  <1>2. ASSUME NEW h \in Height, SyncList(h) PROVE TypeOK'
    <2>1. moved' \in BOOLEAN
      BY <1>2 DEF SyncList
    <2>2. QED
      BY <1>2, <2>1 DEF TypeOK, SyncList, roundR, roundS
  <1>3. CASE SyncHeight
    <2>1. listAt \in Height /\ onDuty' \in BOOLEAN /\ syncPc' \in {"idle", "listed", "reset"}
      BY <1>3 DEF SyncHeight, SyncHasList
    <2>2. QED
      BY <1>3, <2>1 DEF TypeOK, SyncHeight, roundR, roundS
  <1>4. ASSUME NEW spawned \in SUBSET Proposal, Reset(spawned) PROVE TypeOK'
    <2>1. rs' \in [Proposal -> [Arbiter -> 0 .. Draws]] /\ moved' \in BOOLEAN
      BY <1>4, NoDrawsTyped DEF Reset
    <2>2. status' \in [Proposal -> {"none", "spawned", "filed", "asked", "timed", "gone"}]
          /\ filed' \subseteq Proposal /\ registered' \subseteq Proposal
          /\ ss' \in [Proposal -> SUBSET Arbiter] /\ syncPc' \in {"idle", "listed", "reset"}
      BY <1>4 DEF TypeOK, Reset
    <2>3. QED
      BY <1>4, <2>1, <2>2 DEF TypeOK, Reset
  <1>5. ASSUME NEW p \in Proposal, FileTransaction(p) PROVE TypeOK'
    <2>1. filed' \subseteq Proposal
          /\ status' \in [Proposal -> {"none", "spawned", "filed", "asked", "timed", "gone"}]
      BY <1>5 DEF TypeOK, FileTransaction
    <2>2. UNCHANGED <<listAt, height, syncPc, onDuty, rs, called, registered, ss, unsigned,
                      handler, mux, sent, moved>>
      BY <1>5 DEF FileTransaction, syncVars, roundS
    <2>3. sent' \in [Proposal -> Seq(Challenge)] /\ moved' \in BOOLEAN /\ onDuty' \in BOOLEAN
      BY <2>2 DEF TypeOK
    <2>4. QED
      BY <2>1, <2>2, <2>3 DEF TypeOK
  <1>6. ASSUME NEW p \in Proposal, RecordOwnR(p) PROVE TypeOK'
    <2>1. CASE p \notin filed
      BY <1>1, <1>6, <2>1 DEF RecordOwnR
    <2>2. CASE p \in filed
      <3>1. 1 \in 0 .. Draws
        OBVIOUS
      <3>2. rs' = [rs EXCEPT ![p] = [rs[p] EXCEPT ![Self] = 1]]
            /\ status' = [status EXCEPT ![p] = "asked"]
        BY <1>6, <2>2 DEF RecordOwnR
      <3>3. rs' \in [Proposal -> [Arbiter -> 0 .. Draws]]
        BY <3>1, <3>2 DEF TypeOK
      <3>4. status' \in [Proposal -> {"none", "spawned", "filed", "asked", "timed", "gone"}]
        BY <3>2 DEF TypeOK
      <3>5. QED
        BY <1>6, <2>2, <3>3, <3>4 DEF TypeOK, RecordOwnR, syncVars, roundS
    <2>3. QED
      BY <2>1, <2>2
  <1>7. ASSUME NEW p \in Proposal, NEW a \in Arbiter \ {Self}, ReceiveR(p, a) PROVE TypeOK'
    BY <1>7 DEF TypeOK, ReceiveR, RecordR, syncVars, roundS
  <1>8. ASSUME NEW p \in Proposal, ChooseSigners(p) PROVE TypeOK'
    <2>1. handler' \in HandlerStates
      <3>1. Signers(p) \in SUBSET Arbiter
        BY DEF Signers
      <3>2. ASSUME NEW S \in Picked(Signers(p), AgreementCount(Seats(listAt), height))
            PROVE  Restrict(rs[p], S) \in Challenge
        BY <3>1, RestrictToSubset DEF Picked, TypeOK
      <3>3. QED
        BY <1>8, <3>1, <3>2, HandlerTyped, NoCallTyped DEF ChooseSigners, HandlerStates
    <2>2. QED
      BY <1>8, <2>1 DEF TypeOK, ChooseSigners, syncVars, roundR, roundS
  <1>9. CASE ComposeCall
    <2>1. handler' \in HandlerStates
      <3>1. handler.call \in Challenge /\ handler.prop \in Proposal
            /\ handler \in [pc : {"chosen", "composed", "counting", "aggregating"}, prop : Proposal,
                            signers : SUBSET Arbiter, call : Challenge]
        BY <1>9 DEF TypeOK, ComposeCall, HandlerStates, Idle
      <3>2. Restrict(handler.call, DOMAIN handler.call \cap Members(listAt)) \in Challenge
        BY <3>1, ChallengeDomain, RestrictToSubset
      <3>3. QED
        BY <1>9, <3>1, <3>2, HandlerTyped DEF ComposeCall, HandlerStates
    <2>2. QED
      BY <1>9, <2>1 DEF TypeOK, ComposeCall, syncVars, roundR, roundS
  <1>10. CASE AnnounceCall
    <2>1. handler.call \in Challenge /\ handler.prop \in Proposal
          /\ handler \in [pc : {"chosen", "composed", "counting", "aggregating"}, prop : Proposal,
                          signers : SUBSET Arbiter, call : Challenge]
      BY <1>10 DEF TypeOK, AnnounceCall, HandlerStates, Idle
    <2>2. handler' \in HandlerStates
      BY <1>10, <2>1 DEF AnnounceCall, HandlerStates
    <2>3. QED
      BY <1>10, <2>1, <2>2 DEF TypeOK, AnnounceCall, OwnS, syncVars, roundR
  <1>11. CASE CountUnsigned
    <2>1. \A a \in Arbiter : CountOf(a, handler.signers) \in Nat \cup {Absent}
      BY DEF TypeOK, CountOf, Increment, Absent
    <2>2. QED
      BY <1>11, <2>1, HandlerTyped DEF TypeOK, CountUnsigned, syncVars, roundR, roundS
  <1>12. ASSUME NEW p \in Proposal, NEW a \in Arbiter \ {Self}, ReceiveS(p, a) PROVE TypeOK'
    <2>0. unsigned[a] \in Nat \cup {Absent}
          /\ (unsigned[a] >= 1 => unsigned[a] - 1 \in Nat \cup {Absent})
      BY DEF TypeOK, Absent
    <2>1. unsigned' \in [Arbiter -> Nat \cup {Absent}] /\ mux' \in {"free", "kept"}
          /\ ss' \in [Proposal -> SUBSET Arbiter]
      <3>1. CASE Uncounted(a)
        BY <1>12, <3>1 DEF TypeOK, ReceiveS
      <3>2. CASE ~Uncounted(a)
        <4>1. unsigned[a] >= 1
          BY <2>0, <3>2 DEF Uncounted, Absent
        <4>2. unsigned' = [unsigned EXCEPT ![a] = @ - 1] /\ mux' = mux
              /\ ss' = [ss EXCEPT ![p] = @ \cup {a}]
          BY <1>12, <3>2 DEF ReceiveS
        <4>3. QED
          BY <2>0, <4>1, <4>2 DEF TypeOK
      <3>3. QED
        BY <3>1, <3>2
    <2>2. handler' \in HandlerStates
      <3>1. [pc |-> "aggregating", prop |-> p, signers |-> {}, call |-> NoCall] \in HandlerStates
        BY NoCallTyped DEF HandlerStates
      <3>2. handler' \in {handler, Idle,
                         [pc |-> "aggregating", prop |-> p, signers |-> {}, call |-> NoCall]}
        BY <1>12 DEF ReceiveS
      <3>3. QED
        BY <3>1, <3>2, HandlerTyped DEF TypeOK
    <2>3. QED
      BY <1>12, <2>1, <2>2 DEF TypeOK, ReceiveS, syncVars, roundR
  <1>15. CASE Aggregate
    <2> DEFINE p == handler.prop
               s == Restrict(rs[p], ss[p])
    <2>1. p \in Proposal
      BY <1>15, HandlerTyped DEF TypeOK, Aggregate
    <2>2. s \in Challenge
      BY <2>1, RestrictToSubset DEF TypeOK
    <2>3. sent' = sent \/ sent' = [sent EXCEPT ![p] = Append(@, s)]
      BY <1>15 DEF Aggregate
    <2>4. Append(sent[p], s) \in Seq(Challenge)
      BY <2>1, <2>2 DEF TypeOK
    <2>5. sent' \in [Proposal -> Seq(Challenge)]
      BY <2>3, <2>4 DEF TypeOK
    <2>6. QED
      BY <1>15, <2>5, HandlerTyped DEF TypeOK, Aggregate, syncVars, roundR, roundS
  <1>13. CASE UNCHANGED vars
    BY <1>13 DEF TypeOK, vars, syncVars, roundR, roundS
  <1>14. QED
    BY <1>1, <1>2, <1>3, <1>4, <1>5, <1>6, <1>7, <1>8, <1>9, <1>10, <1>11, <1>12, <1>13, <1>15
    DEF Next, Sync, Ask, Call, Handle, AnswerR, AnswerS

(***************************************************************************)
(* The variables keep their types; no count of UnsignedSigners, which the  *)
(* answers to the second round take down, ever wraps below zero.           *)
(***************************************************************************)
THEOREM SchnorrTypeCorrect == Spec => []TypeOK
  <1>1. TypeInv => TypeOK
    BY DEF TypeInv
  <1>2. QED
    BY <1>1, TypeInit, TypeNext, PTL DEF Spec

-----------------------------------------------------------------------------
(***************************************************************************)
(* A transaction is called once: until the handler of its timer announces  *)
(* it, it is neither registered nor sent.                                  *)
(***************************************************************************)
BeforeCall(p) ==
  \/ status[p] \in {"none", "spawned", "filed", "asked"}
  \/ handler.pc \in {"chosen", "composed"} /\ handler.prop = p

CallsOnce ==
  /\ handler.pc # "idle" => status[handler.prop] = "timed"
  /\ \A p \in registered : status[p] = "timed"
  /\ \A p \in Proposal : BeforeCall(p) => p \notin registered /\ sent[p] = <<>>

LEMMA CallsOnceInit == Init => CallsOnce
  BY DEF Init, CallsOnce, BeforeCall, Idle

LEMMA CallsOnceNext == TypeOK /\ CallsOnce /\ [Next]_vars => CallsOnce'
  <1> SUFFICES ASSUME TypeOK, CallsOnce, [Next]_vars PROVE CallsOnce'
    OBVIOUS
  <1>0. /\ Idle.pc = "idle"
        /\ handler.pc # "idle" => handler.prop \in Proposal
        /\ handler = Idle <=> handler.pc = "idle"
    BY HandlerTyped DEF TypeOK, Idle
  <1>1. CASE Restart
    BY <1>1, <1>0 DEF Restart, CallsOnce, BeforeCall, TypeOK
  <1>2. ASSUME UNCHANGED <<status, handler, registered, sent>> PROVE CallsOnce'
    BY <1>2 DEF CallsOnce, BeforeCall
  <1>3. (\E h \in Height : SyncList(h)) \/ SyncHeight \/ AnswerR \/ UNCHANGED vars
        => UNCHANGED <<status, handler, registered, sent>>
    BY DEF SyncList, SyncHeight, AnswerR, ReceiveR, vars, roundS
  <1>4. ASSUME NEW spawned \in SUBSET Proposal, Reset(spawned) PROVE CallsOnce'
    BY <1>4, <1>0 DEF Reset, CallsOnce, BeforeCall, TypeOK
  <1>5. ASSUME NEW p \in Proposal, FileTransaction(p) PROVE CallsOnce'
    BY <1>5, <1>0 DEF FileTransaction, MuxFree, roundS, CallsOnce, BeforeCall, TypeOK
  <1>6. ASSUME NEW p \in Proposal, RecordOwnR(p) PROVE CallsOnce'
    <2>1. CASE p \notin filed
      BY <1>1, <1>6, <2>1 DEF RecordOwnR
    <2>2. CASE p \in filed
      BY <1>6, <1>0, <2>2 DEF RecordOwnR, roundS, CallsOnce, BeforeCall, TypeOK
    <2>3. QED
      BY <2>1, <2>2
  <1>7. ASSUME NEW p \in Proposal, ChooseSigners(p) PROVE CallsOnce'
    <2>1. handler.pc = "idle" /\ status[p] = "asked" /\ status' = [status EXCEPT ![p] = "timed"]
          /\ UNCHANGED <<registered, sent>>
          /\ (handler'.pc = "idle" \/ handler'.prop = p)
      BY <1>7, <1>0 DEF ChooseSigners, MuxFree, roundS
    <2>2. QED
      BY <2>1 DEF CallsOnce, BeforeCall, TypeOK
  <1>8. CASE ComposeCall
    <2>1. handler.pc = "chosen" /\ UNCHANGED <<status, registered, sent>>
          /\ (handler' = Idle \/ (handler'.pc = "composed" /\ handler'.prop = handler.prop))
      BY <1>8, HandlerTyped DEF ComposeCall, TypeOK, HandlerStates, Idle, roundS
    <2>2. QED
      BY <2>1, <1>0 DEF CallsOnce, BeforeCall
  <1>9. CASE AnnounceCall
    <2>1. /\ handler.pc = "composed" /\ handler.prop \in Proposal
          /\ handler'.pc = "counting" /\ handler'.prop = handler.prop
          /\ registered' = registered \cup {handler.prop} /\ UNCHANGED <<status, sent>>
      BY <1>9, <1>0 DEF AnnounceCall, TypeOK, HandlerStates, Idle
    <2>2. QED
      BY <2>1 DEF CallsOnce, BeforeCall
  <1>10. CASE CountUnsigned
    BY <1>10, <1>0 DEF CountUnsigned, roundS, CallsOnce, BeforeCall
  <1>11. ASSUME NEW p \in Proposal, NEW a \in Arbiter \ {Self}, ReceiveS(p, a) PROVE CallsOnce'
    <2>1. /\ handler.pc = "idle" /\ p \in registered /\ UNCHANGED <<status, registered, sent>>
          /\ handler' = handler \/ handler' = Idle
             \/ (handler'.pc = "aggregating" /\ handler'.prop = p)
      BY <1>11, <1>0 DEF ReceiveS, MuxFree
    <2>2. QED
      BY <2>1, <1>0 DEF CallsOnce, BeforeCall
  <1>12. CASE Aggregate
    <2>1. /\ handler.pc = "aggregating" /\ handler' = Idle /\ UNCHANGED <<status, registered>>
          /\ \A q \in Proposal \ {handler.prop} : sent'[q] = sent[q]
      BY <1>12 DEF Aggregate, TypeOK, roundS
    <2>2. QED
      BY <2>1, <1>0 DEF CallsOnce, BeforeCall
  <1>13. QED
    BY <1>1, <1>2, <1>3, <1>4, <1>5, <1>6, <1>7, <1>8, <1>9, <1>10, <1>11, <1>12
    DEF Next, Sync, Ask, Call, Handle, AnswerS
-----------------------------------------------------------------------------
(***************************************************************************)
(* A call that is still in the maps was made of recorded R, and they are   *)
(* recorded still.                                                         *)
(***************************************************************************)
MadeOf(call, p) == \A a \in DOMAIN call : call[a] # 0 /\ call[a] = rs[p][a]

CallsFromRecords ==
  /\ \A p \in registered : p \in filed => MadeOf(called[p], p)
  /\ handler.pc \in {"chosen", "composed"} /\ handler.prop \in filed =>
       MadeOf(handler.call, handler.prop)
  /\ \A p \in filed : status[p] \in {"filed", "asked", "timed"}

LEMMA CallsFromRecordsInit == Init => CallsFromRecords
  BY DEF Init, CallsFromRecords, Idle

LEMMA CallsFromRecordsNext ==
  TypeOK /\ CallsOnce /\ CallsFromRecords /\ [Next]_vars => CallsFromRecords'
  <1> SUFFICES ASSUME TypeOK, CallsOnce, CallsFromRecords, [Next]_vars PROVE CallsFromRecords'
    OBVIOUS
  <1>0. /\ Idle.pc = "idle"
        /\ handler.pc # "idle" => handler.prop \in Proposal /\ status[handler.prop] = "timed"
        /\ handler = Idle <=> handler.pc = "idle"
        /\ filed \subseteq Proposal /\ registered \subseteq Proposal
    BY HandlerTyped DEF TypeOK, Idle, CallsOnce
  <1>1. CASE Restart
    BY <1>1, <1>0 DEF Restart, CallsFromRecords
  <1>2. ASSUME UNCHANGED <<status, handler, registered, filed, rs, called>>
        PROVE CallsFromRecords'
    BY <1>2 DEF CallsFromRecords, MadeOf
  <1>3. (\E h \in Height : SyncList(h)) \/ SyncHeight \/ UNCHANGED vars
        => UNCHANGED <<status, handler, registered, filed, rs, called>>
    BY DEF SyncList, SyncHeight, vars, roundR, roundS
  <1>4. ASSUME NEW spawned \in SUBSET Proposal, Reset(spawned) PROVE CallsFromRecords'
    BY <1>4 DEF Reset, CallsFromRecords
  <1>5. ASSUME NEW p \in Proposal, FileTransaction(p) PROVE CallsFromRecords'
    <2>1. /\ handler = Idle /\ status[p] = "spawned" /\ filed' = filed \cup {p}
          /\ status' = [status EXCEPT ![p] = "filed"]
          /\ UNCHANGED <<handler, registered, rs, called>>
      BY <1>5 DEF FileTransaction, MuxFree, roundS
    <2>2. p \notin registered
      BY <2>1 DEF CallsOnce
    <2>3. \A q \in registered : q \in filed' => q \in filed
      BY <2>1, <2>2
    <2>4. QED
      BY <1>0, <2>1, <2>2, <2>3 DEF CallsFromRecords, MadeOf, TypeOK
  <1>6. ASSUME NEW p \in Proposal, RecordOwnR(p) PROVE CallsFromRecords'
    <2>1. CASE p \notin filed
      BY <1>1, <1>6, <2>1 DEF RecordOwnR
    <2>2. CASE p \in filed
      <3>1. /\ status[p] = "filed" /\ status' = [status EXCEPT ![p] = "asked"]
            /\ UNCHANGED <<handler, registered, filed, called>>
            /\ \A q \in Proposal \ {p} : rs'[q] = rs[q]
        BY <1>6, <2>2 DEF RecordOwnR, roundS, TypeOK
      <3>2. p \notin registered /\ (handler.pc # "idle" => handler.prop # p)
        BY <1>0, <3>1 DEF CallsOnce
      <3>3. \A q \in registered' : q \in filed' => MadeOf(called[q], q)'
        BY <1>0, <3>1, <3>2 DEF CallsFromRecords, MadeOf
      <3>4. handler'.pc \in {"chosen", "composed"} /\ handler'.prop \in filed' =>
              MadeOf(handler.call, handler.prop)'
        BY <1>0, <3>1, <3>2 DEF CallsFromRecords, MadeOf
      <3>5. QED
        BY <1>0, <3>1, <3>2, <3>3, <3>4 DEF CallsFromRecords, TypeOK
    <2>3. QED
      BY <2>1, <2>2
  <1>7. ASSUME NEW p \in Proposal, NEW a \in Arbiter \ {Self}, ReceiveR(p, a)
        PROVE CallsFromRecords'
    <2>1. /\ rs[p][a] = 0 /\ handler = Idle
          /\ UNCHANGED <<handler, registered, filed, called, status>>
          /\ \A q \in Proposal : \A b \in Arbiter : q # p \/ b # a => rs'[q][b] = rs[q][b]
      BY <1>7 DEF ReceiveR, RecordR, MuxFree, roundS, TypeOK
    <2>2. ASSUME NEW q \in registered, q \in filed, NEW b \in DOMAIN called[q]
          PROVE  called[q][b] # 0 /\ called[q][b] = rs'[q][b]
      <3>1. b \in Arbiter
        BY <1>0, <2>2, ChallengeDomain DEF TypeOK
      <3>2. called[q][b] # 0 /\ called[q][b] = rs[q][b]
        BY <2>2 DEF CallsFromRecords, MadeOf
      <3>3. QED
        BY <1>0, <2>1, <3>1, <3>2
    <2>3. \A q \in registered' : q \in filed' => MadeOf(called[q], q)'
      BY <2>1, <2>2 DEF MadeOf
    <2>4. handler'.pc = "idle"
      BY <1>0, <2>1
    <2>5. QED
      BY <2>1, <2>3, <2>4 DEF CallsFromRecords
  <1>8. ASSUME NEW p \in Proposal, ChooseSigners(p) PROVE CallsFromRecords'
    <2>1. /\ handler = Idle /\ status[p] = "asked" /\ status' = [status EXCEPT ![p] = "timed"]
          /\ UNCHANGED <<registered, filed, called, rs>>
      BY <1>8 DEF ChooseSigners, MuxFree, roundR, roundS
    <2>2. ASSUME handler'.pc \in {"chosen", "composed"}
          PROVE  handler'.prop = p /\ MadeOf(handler.call, p)'
      <3>1. PICK S \in Picked(Signers(p), AgreementCount(Seats(listAt), height)) :
              handler' = [pc |-> "chosen", prop |-> p, signers |-> Signers(p),
                          call |-> Restrict(rs[p], S)]
        BY <1>0, <1>8, <2>2 DEF ChooseSigners
      <3>2. S \in SUBSET Arbiter /\ \A a \in S : rs[p][a] # 0
        BY DEF Picked, Signers
      <3>3. rs[p] \in [Arbiter -> 0 .. Draws]
        BY DEF TypeOK
      <3>4. DOMAIN Restrict(rs[p], S) = S /\ \A a \in S : Restrict(rs[p], S)[a] = rs[p][a]
        BY <3>2, <3>3, RestrictToSubset
      <3>5. handler'.call = Restrict(rs[p], S) /\ handler'.prop = p
        BY <3>1
      <3>6. QED
        BY <2>1, <3>2, <3>4, <3>5 DEF MadeOf
    <2>3. \A q \in registered' : q \in filed' => MadeOf(called[q], q)'
      BY <2>1 DEF CallsFromRecords, MadeOf
    <2>4. QED
      BY <1>0, <2>1, <2>2, <2>3 DEF CallsFromRecords, TypeOK
  <1>9. CASE ComposeCall
    <2>1. handler.pc = "chosen" /\ UNCHANGED <<status, registered, filed, rs, called>>
      BY <1>9 DEF ComposeCall, roundR, roundS
    <2>2. ASSUME handler'.pc \in {"chosen", "composed"}, handler'.prop \in filed
          PROVE  MadeOf(handler.call, handler.prop)'
      <3>1. handler.call \in Challenge
        BY HandlerTyped DEF TypeOK
      <3>2. /\ handler' = [handler EXCEPT !.pc = "composed",
                             !.call = Restrict(@, DOMAIN handler.call \cap Members(listAt))]
            /\ handler \in [pc : {"chosen", "composed", "counting", "aggregating"}, prop : Proposal,
                            signers : SUBSET Arbiter, call : Challenge]
        BY <1>0, <1>9, <2>1, <2>2 DEF ComposeCall, TypeOK, HandlerStates
      <3>3. handler'.prop = handler.prop
            /\ handler'.call = Restrict(handler.call, DOMAIN handler.call \cap Members(listAt))
        BY <3>2
      <3>4. MadeOf(handler.call, handler.prop)
        BY <2>1, <2>2, <3>3 DEF CallsFromRecords
      <3>5. QED
        BY <2>1, <3>1, <3>3, <3>4, ChallengeDomain, RestrictToSubset DEF MadeOf
    <2>3. \A q \in registered' : q \in filed' => MadeOf(called[q], q)'
      BY <2>1 DEF CallsFromRecords, MadeOf
    <2>4. QED
      BY <2>1, <2>2, <2>3 DEF CallsFromRecords
  <1>10. CASE AnnounceCall
    <2>1. /\ handler.pc = "composed" /\ handler.prop \in Proposal
          /\ handler'.pc = "counting"
          /\ registered' = registered \cup {handler.prop} /\ UNCHANGED <<status, filed, rs>>
          /\ called' = [called EXCEPT ![handler.prop] = handler.call]
      BY <1>10, <1>0 DEF AnnounceCall, TypeOK, HandlerStates, Idle, roundR
    <2>2. called'[handler.prop] = handler.call
          /\ \A q \in Proposal \ {handler.prop} : called'[q] = called[q]
      BY <2>1 DEF TypeOK
    <2>3. ASSUME NEW q \in registered', q \in filed PROVE MadeOf(called[q], q)'
      <3>1. MadeOf(called'[q], q)
        BY <1>0, <2>1, <2>2, <2>3 DEF CallsFromRecords
      <3>2. QED
        BY <2>1, <3>1 DEF MadeOf
    <2>4. QED
      BY <1>0, <2>1, <2>3 DEF CallsFromRecords
  <1>11. CASE CountUnsigned
    BY <1>11, <1>0 DEF CountUnsigned, roundR, roundS, CallsFromRecords, MadeOf
  <1>12. CASE AnswerS \/ Aggregate
    <2>1. UNCHANGED <<status, registered, filed, rs, called>>
      BY <1>12 DEF AnswerS, ReceiveS, Aggregate, roundR, roundS
    <2>2. handler' = handler \/ handler'.pc \in {"idle", "aggregating"}
      BY <1>12, <1>0 DEF AnswerS, ReceiveS, Aggregate
    <2>3. QED
      BY <2>1, <2>2 DEF CallsFromRecords, MadeOf
  <1>13. QED
    BY <1>1, <1>2, <1>3, <1>4, <1>5, <1>6, <1>7, <1>8, <1>9, <1>10, <1>11, <1>12
    DEF Next, Sync, Ask, Call, Handle, AnswerR
-----------------------------------------------------------------------------
(***************************************************************************)
(* The S recorded are those of the keys called, when Self's is one of      *)
(* them, and once the transaction is sent they are as many as the keys.    *)
(***************************************************************************)
AnswersToCall ==
  \A p \in registered :
    /\ Self \in ss[p]
    /\ Self \in DOMAIN called[p] => ss[p] \subseteq DOMAIN called[p]
    /\ sent[p] # <<>> => Cardinality(ss[p]) >= Cardinality(DOMAIN called[p])

\* Only what was not sent is aggregated, and only when its answers are complete,
\* unless a Reset has taken them away.
ToAggregate ==
  handler.pc = "aggregating" =>
    /\ sent[handler.prop] = <<>>
    /\ IF handler.prop \in registered
       THEN Complete(ss[handler.prop], DOMAIN called[handler.prop])
       ELSE ss[handler.prop] = {}

SentInv == AnswersToCall /\ ToAggregate /\ SubmittedVerifies /\ SubmittedOnce

LEMMA SentInvInit == Init => SentInv
  BY DEF Init, Idle, SentInv, AnswersToCall, ToAggregate, SubmittedVerifies, SubmittedOnce

\* Adding a set's new member makes it larger by one.
LEMMA OneMore ==
  ASSUME NEW S \in SUBSET Arbiter, NEW a \in Arbiter, a \notin S
  PROVE  Cardinality(S) \in Nat /\ Cardinality(S \cup {a}) = Cardinality(S) + 1
  <1>1. IsFiniteSet(S)
    BY SchnorrAssumption, FS_Subset
  <1>2. QED
    BY <1>1, FS_AddElement, FS_CardinalityType

\* The signature made when the answers are complete is that of the call.
LEMMA CompleteVerifies ==
  ASSUME NEW c \in Challenge, NEW S \in SUBSET DOMAIN c, NEW f \in [Arbiter -> 0 .. Draws],
         Complete(S, DOMAIN c), \A a \in DOMAIN c : c[a] = f[a]
  PROVE  Restrict(f, S) = c
  <1>1. DOMAIN c \in SUBSET Arbiter /\ c \in [DOMAIN c -> 0 .. Draws]
    BY ChallengeDomain
  <1>2. IsFiniteSet(DOMAIN c)
    BY <1>1, SchnorrAssumption, FS_Subset
  <1>3. S = DOMAIN c
    BY <1>2, FS_Subset DEF Complete
  <1>4. Restrict(f, S) = [a \in S |-> f[a]]
    BY DEF Restrict
  <1>5. QED
    BY <1>1, <1>3, <1>4

LEMMA SentInvNext ==
  TypeOK /\ CallsOnce /\ CallsFromRecords /\ SentInv /\ [Next]_vars => SentInv'
  <1> SUFFICES ASSUME TypeOK, CallsOnce, CallsFromRecords, SentInv, [Next]_vars PROVE SentInv'
    OBVIOUS
  <1>0. /\ registered \subseteq Proposal
        /\ handler.pc # "idle" => handler.prop \in Proposal
        /\ handler = Idle <=> handler.pc = "idle"
        /\ Idle.pc = "idle"
    BY HandlerTyped DEF TypeOK, Idle
  <1>1. ASSUME UNCHANGED <<called, sent>>, registered' = {}, \A p \in Proposal : ss'[p] = {},
               handler' = handler \/ handler' = Idle
        PROVE  SentInv'
    BY <1>0, <1>1
    DEF SentInv, AnswersToCall, ToAggregate, SubmittedVerifies, SubmittedOnce
  <1>2. Restart \/ (\E spawned \in SUBSET Proposal : Reset(spawned))
        => /\ UNCHANGED <<called, sent>> /\ registered' = {}
           /\ \A p \in Proposal : ss'[p] = {}
           /\ handler' = handler \/ handler' = Idle
    BY DEF Restart, Reset
  <1>3. ASSUME UNCHANGED <<called, registered, ss, sent>>,
               handler' = handler \/ handler'.pc # "aggregating"
        PROVE  SentInv'
    BY <1>3 DEF SentInv, AnswersToCall, ToAggregate, SubmittedVerifies, SubmittedOnce
  <1>4. ComposeCall \/ CountUnsigned \/ (\E p \in Proposal : ChooseSigners(p))
        => /\ UNCHANGED <<called, registered, ss, sent>>
           /\ handler' = handler \/ handler'.pc # "aggregating"
    <2>1. ComposeCall => handler' = Idle \/ handler'.pc = "composed"
      BY <1>0, HandlerTyped DEF ComposeCall, TypeOK, HandlerStates
    <2>2. QED
      BY <1>0, <2>1 DEF ComposeCall, CountUnsigned, ChooseSigners, roundS
  <1>5. CASE AnnounceCall
    <2> DEFINE p == handler.prop
    <2>1. /\ p \in Proposal /\ p \notin registered /\ sent[p] = <<>>
          /\ registered' = registered \cup {p} /\ UNCHANGED sent
          /\ called' = [called EXCEPT ![p] = handler.call] /\ ss' = [ss EXCEPT ![p] = {Self}]
      BY <1>5, HandlerTyped DEF AnnounceCall, CallsOnce, BeforeCall, TypeOK, OwnS
    <2>2. /\ called'[p] = handler.call /\ ss'[p] = {Self}
          /\ \A q \in Proposal \ {p} : called'[q] = called[q] /\ ss'[q] = ss[q]
      BY <2>1 DEF TypeOK
    <2>3. AnswersToCall'
      BY <1>0, <2>1, <2>2 DEF SentInv, AnswersToCall
    <2>4. SubmittedVerifies' /\ SubmittedOnce'
      BY <2>1, <2>2 DEF SentInv, SubmittedVerifies, SubmittedOnce
    <2>5. handler'.pc = "counting"
      BY <1>0, <1>5 DEF AnnounceCall, TypeOK, HandlerStates
    <2>6. QED
      BY <2>3, <2>4, <2>5 DEF SentInv, ToAggregate
  <1>6. ASSUME NEW p \in Proposal, NEW a \in Arbiter \ {Self}, ReceiveS(p, a) PROVE SentInv'
    <2>1. /\ a \in DOMAIN called[p] /\ p \in registered /\ a \notin ss[p]
          /\ UNCHANGED <<called, registered, sent>>
          /\ ss[p] \in SUBSET Arbiter
      BY <1>6 DEF ReceiveS, TypeOK
    <2>2. CASE Uncounted(a)
      BY <1>3, <1>6, <2>1, <2>2 DEF ReceiveS
    <2>3. CASE ~Uncounted(a)
      <3>1. /\ ss' = [ss EXCEPT ![p] = @ \cup {a}]
            /\ handler' = IF Complete(ss'[p], DOMAIN called[p])
                          THEN [pc |-> "aggregating", prop |-> p, signers |-> {}, call |-> NoCall]
                          ELSE Idle
        BY <1>6, <2>3 DEF ReceiveS
      <3>2. ss'[p] = ss[p] \cup {a} /\ \A q \in Proposal \ {p} : ss'[q] = ss[q]
        BY <3>1 DEF TypeOK
      <3>3. Cardinality(ss[p]) \in Nat /\ Cardinality(ss'[p]) = Cardinality(ss[p]) + 1
        BY <2>1, <3>2, OneMore
      <3>4. Cardinality(DOMAIN called[p]) \in Nat
        <4>1. DOMAIN called[p] \in SUBSET Arbiter
          BY ChallengeDomain DEF TypeOK
        <4>2. QED
          BY <4>1, SchnorrAssumption, FS_Subset, FS_CardinalityType
      <3>5. AnswersToCall'
        <4>1. ASSUME NEW q \in registered, q # p
              PROVE  /\ Self \in ss'[q]
                     /\ Self \in DOMAIN called[q] => ss'[q] \subseteq DOMAIN called[q]
                     /\ sent[q] # <<>> => Cardinality(ss'[q]) >= Cardinality(DOMAIN called[q])
          BY <1>0, <3>2, <4>1 DEF SentInv, AnswersToCall
        <4>2. /\ Self \in ss'[p]
              /\ Self \in DOMAIN called[p] => ss'[p] \subseteq DOMAIN called[p]
          BY <2>1, <3>2 DEF SentInv, AnswersToCall
        <4>3. sent[p] # <<>> => Cardinality(ss'[p]) >= Cardinality(DOMAIN called[p])
          BY <2>1, <3>3, <3>4 DEF SentInv, AnswersToCall
        <4>4. QED
          BY <2>1, <4>1, <4>2, <4>3 DEF AnswersToCall
      <3>6. ToAggregate'
        <4>1. CASE Complete(ss'[p], DOMAIN called[p])
          <5>1. handler'.prop = p
            BY <3>1, <4>1
          <5>2. sent[p] = <<>>
            BY <2>1, <3>3, <3>4, <4>1 DEF SentInv, AnswersToCall, Complete
          <5>3. QED
            BY <2>1, <4>1, <5>1, <5>2 DEF ToAggregate, Complete
        <4>2. CASE ~Complete(ss'[p], DOMAIN called[p])
          BY <1>0, <3>1, <4>2 DEF ToAggregate
        <4>3. QED
          BY <4>1, <4>2
      <3>7. SubmittedVerifies' /\ SubmittedOnce'
        BY <2>1 DEF SentInv, SubmittedVerifies, SubmittedOnce
      <3>8. QED
        BY <3>5, <3>6, <3>7 DEF SentInv
    <2>4. QED
      BY <2>2, <2>3
  <1>7. CASE Aggregate
    <2> DEFINE p == handler.prop
               s == Restrict(rs[p], ss[p])
    <2>1. /\ p \in Proposal /\ handler.pc = "aggregating" /\ handler'.pc = "idle"
          /\ UNCHANGED <<called, registered, ss>> /\ sent[p] = <<>>
      BY <1>0, <1>7 DEF Aggregate, roundS, SentInv, ToAggregate
    <2>2. CASE UNCHANGED sent
      BY <1>3, <2>1, <2>2
    <2>3. CASE (p \in filed \/ ss[p] = {}) /\ sent' = [sent EXCEPT ![p] = Append(@, s)]
      <3>1. sent'[p] = <<s>> /\ \A q \in Proposal \ {p} : sent'[q] = sent[q]
        BY <2>1, <2>3 DEF TypeOK
      <3>2. SubmittedOnce'
        <4>1. \A q \in Proposal \ {p} : Len(sent'[q]) <= 1
          BY <3>1 DEF SentInv, SubmittedOnce
        <4>2. Len(sent'[p]) <= 1
          BY <3>1
        <4>3. QED
          BY <4>1, <4>2, Zenon DEF SubmittedOnce
      <3>3. AnswersToCall'
        <4>1. p \in registered => Cardinality(ss[p]) >= Cardinality(DOMAIN called[p])
          <5>1. DOMAIN called[p] \in SUBSET Arbiter
            BY <2>1, ChallengeDomain DEF TypeOK
          <5>2. Cardinality(DOMAIN called[p]) \in Nat
            BY <5>1, SchnorrAssumption, FS_Subset, FS_CardinalityType
          <5>3. QED
            BY <2>1, <5>2 DEF SentInv, ToAggregate, Complete
        <4>2. QED
          BY <1>0, <2>1, <3>1, <4>1 DEF SentInv, AnswersToCall
      <3>4. Self \in DOMAIN called[p] => s \in {called[p], NoCall}
        <4>1. CASE ss[p] = {}
          BY <4>1 DEF Restrict, NoCall
        <4>2. CASE ss[p] # {} /\ Self \in DOMAIN called[p]
          <5>1. p \in registered /\ p \in filed /\ Complete(ss[p], DOMAIN called[p])
            BY <2>1, <2>3, <4>2 DEF SentInv, ToAggregate
          <5>2. ss[p] \subseteq DOMAIN called[p]
            BY <4>2, <5>1 DEF SentInv, AnswersToCall
          <5>3. MadeOf(called[p], p)
            BY <5>1 DEF CallsFromRecords
          <5>4. called[p] \in Challenge /\ rs[p] \in [Arbiter -> 0 .. Draws]
            BY <2>1 DEF TypeOK
          <5>5. QED
            BY <5>1, <5>2, <5>3, <5>4, CompleteVerifies DEF MadeOf
        <4>3. QED
          BY <4>1, <4>2
      <3>5. SubmittedVerifies'
        BY <2>1, <3>1, <3>4 DEF SentInv, SubmittedVerifies
      <3>6. QED
        BY <2>1, <3>2, <3>3, <3>5 DEF SentInv, ToAggregate
    <2>4. QED
      BY <1>7, <2>2, <2>3 DEF Aggregate
  <1>8. (\E h \in Height : SyncList(h)) \/ SyncHeight \/ AnswerR \/ UNCHANGED vars
        => UNCHANGED <<called, registered, ss, sent, handler>>
    BY DEF SyncList, SyncHeight, AnswerR, ReceiveR, vars, roundS
  <1>9. Ask => Restart \/ UNCHANGED <<called, registered, ss, sent, handler>>
    BY DEF Ask, FileTransaction, RecordOwnR, roundS
  <1>10. QED
    BY <1>1, <1>2, <1>3, <1>4, <1>5, <1>6, <1>7, <1>8, <1>9 DEF Next, Sync, Call, Handle, AnswerS

SchnorrInv == TypeInv /\ CallsOnce /\ CallsFromRecords /\ SentInv

LEMMA SchnorrInvariant == Spec => []SchnorrInv
  <1>1. Init => SchnorrInv
    BY TypeInit, CallsOnceInit, CallsFromRecordsInit, SentInvInit DEF SchnorrInv
  <1>2. SchnorrInv /\ [Next]_vars => SchnorrInv'
    <2>1. SchnorrInv => TypeOK
      BY DEF SchnorrInv, TypeInv
    <2>2. QED
      BY <2>1, TypeNext, CallsOnceNext, CallsFromRecordsNext, SentInvNext DEF SchnorrInv
  <1>3. QED
    BY <1>1, <1>2, PTL DEF Spec

(***************************************************************************)
(* What is submitted carries the S of exactly the keys announced, and the  *)
(* R their challenge was computed from.                                    *)
(***************************************************************************)
THEOREM SubmittedSignatureVerifies == Spec => []SubmittedVerifies
  <1>1. SchnorrInv => SubmittedVerifies
    BY DEF SchnorrInv, SentInv
  <1>2. QED
    BY <1>1, SchnorrInvariant, PTL

(***************************************************************************)
(* No answer, however late, submits a transaction a second time.           *)
(***************************************************************************)
THEOREM SubmittedOnlyOnce == Spec => []SubmittedOnce
  <1>1. SchnorrInv => SubmittedOnce
    BY DEF SchnorrInv, SentInv
  <1>2. QED
    BY <1>1, SchnorrInvariant, PTL
-----------------------------------------------------------------------------
(***************************************************************************)
(* The counts.  A call awaits a key that has not answered it, from the     *)
(* moment it is counted; with the list unmoved, a key some call awaits has *)
(* a count of at least their number.                                       *)
(***************************************************************************)
BeingCounted(p) == handler.pc = "counting" /\ handler.prop = p

Awaiting(a) == {p \in registered : a \in DOMAIN called[p] \ ss[p] /\ ~BeingCounted(p)}

Covered(a) == Awaiting(a) # {} => unsigned[a] >= Cardinality(Awaiting(a))

CountsCover ==
  /\ mux = "free"
  /\ handler.pc \in {"composed", "counting"} => DOMAIN handler.call \subseteq Members(listAt)
  /\ \A p \in registered : BeingCounted(p) => called[p] = handler.call
  /\ \A a \in Arbiter : Covered(a)

MuxInv == moved \/ CountsCover

LEMMA AwaitingFinite ==
  ASSUME TypeOK, NEW a
  PROVE  IsFiniteSet(Awaiting(a)) /\ Cardinality(Awaiting(a)) \in Nat
  <1>1. Awaiting(a) \subseteq Proposal
    BY DEF Awaiting, TypeOK
  <1>2. QED
    BY <1>1, SchnorrAssumption, FS_Subset, FS_CardinalityType

\* No call awaits a key: nothing to cover.
LEMMA NothingAwaited == registered = {} => \A a \in Arbiter : Covered(a)
  BY DEF Covered, Awaiting

LEMMA MuxInvInit == Init => MuxInv
  <1> SUFFICES ASSUME Init PROVE CountsCover
    BY DEF MuxInv
  <1>1. mux = "free" /\ handler.pc = "idle" /\ registered = {}
    BY DEF Init, Idle
  <1>2. QED
    BY <1>1, NothingAwaited DEF CountsCover

\* The counts cover as before when nothing more is awaited and no count falls.
LEMMA CoveredStill ==
  ASSUME TypeOK, TypeOK', NEW a \in Arbiter, Covered(a),
         Awaiting(a)' \subseteq Awaiting(a), unsigned'[a] >= unsigned[a]
  PROVE  Covered(a)'
  <1>1. IsFiniteSet(Awaiting(a)) /\ Cardinality(Awaiting(a)) \in Nat
    BY AwaitingFinite
  <1>2. Cardinality(Awaiting(a)') \in Nat /\ Cardinality(Awaiting(a)') <= Cardinality(Awaiting(a))
    BY <1>1, FS_Subset, FS_CardinalityType
  <1>3. unsigned[a] \in Int /\ unsigned'[a] \in Int
    BY DEF TypeOK, Absent
  <1>4. QED
    BY <1>1, <1>2, <1>3 DEF Covered

\* One call more is awaited, and the count is raised.
LEMMA CoveredOneMore ==
  ASSUME TypeOK, TypeOK', NEW a \in Arbiter, Covered(a), NEW p,
         Awaiting(a)' \subseteq Awaiting(a) \cup {p},
         unsigned'[a] >= 1, unsigned'[a] >= unsigned[a] + 1
  PROVE  Covered(a)'
  <1>1. IsFiniteSet(Awaiting(a)) /\ Cardinality(Awaiting(a)) \in Nat
    BY AwaitingFinite
  <1>2. /\ IsFiniteSet(Awaiting(a) \cup {p})
        /\ Cardinality(Awaiting(a) \cup {p}) <= Cardinality(Awaiting(a)) + 1
        /\ Cardinality(Awaiting(a) \cup {p}) \in Nat
    BY <1>1, FS_AddElement, FS_CardinalityType
  <1>3. /\ Cardinality(Awaiting(a)') \in Nat
        /\ Cardinality(Awaiting(a)') <= Cardinality(Awaiting(a)) + 1
    BY <1>1, <1>2, FS_Subset, FS_CardinalityType
  <1>4. unsigned[a] \in Int /\ unsigned'[a] \in Int
    BY DEF TypeOK, Absent
  <1>5. Awaiting(a) = {} => Cardinality(Awaiting(a)) = 0
    BY FS_EmptySet
  <1>6. QED
    BY <1>1, <1>3, <1>4, <1>5 DEF Covered

\* One call less is awaited, and the count is taken down by one.
LEMMA CoveredOneLess ==
  ASSUME TypeOK, TypeOK', NEW a \in Arbiter, Covered(a), NEW p \in Awaiting(a),
         Awaiting(a)' \subseteq Awaiting(a) \ {p}, unsigned'[a] = unsigned[a] - 1
  PROVE  Covered(a)'
  <1>1. IsFiniteSet(Awaiting(a)) /\ Cardinality(Awaiting(a)) \in Nat
    BY AwaitingFinite
  <1>2. /\ IsFiniteSet(Awaiting(a) \ {p})
        /\ Cardinality(Awaiting(a) \ {p}) = Cardinality(Awaiting(a)) - 1
        /\ Cardinality(Awaiting(a) \ {p}) \in Nat
    BY <1>1, FS_RemoveElement, FS_CardinalityType
  <1>3. /\ Cardinality(Awaiting(a)') \in Nat
        /\ Cardinality(Awaiting(a)') <= Cardinality(Awaiting(a)) - 1
    BY <1>1, <1>2, FS_Subset, FS_CardinalityType
  <1>4. unsigned[a] \in Int /\ unsigned'[a] \in Int
    BY DEF TypeOK, Absent
  <1>5. QED
    BY <1>1, <1>3, <1>4 DEF Covered

\* What counting the signers of a call adds to a member of the list.
LEMMA CountRises ==
  ASSUME TypeOK, NEW a \in Arbiter, NEW signers
  PROVE  /\ CountOf(a, signers) \in Int /\ CountOf(a, signers) >= unsigned[a]
         /\ a # Self => CountOf(a, signers) >= 1 /\ CountOf(a, signers) >= unsigned[a] + 1
  <1>1. unsigned[a] \in Nat \cup {Absent}
    BY DEF TypeOK
  <1>2. QED
    BY <1>1 DEF CountOf, Increment, Absent
LEMMA MuxInvNext ==
  TypeOK /\ TypeOK' /\ CallsOnce /\ AnswersToCall /\ MuxInv /\ [Next]_vars => MuxInv'
  <1> SUFFICES ASSUME TypeOK, TypeOK', CallsOnce, AnswersToCall, MuxInv, [Next]_vars, ~moved'
               PROVE  CountsCover'
    BY DEF MuxInv
  <1>0. /\ Idle.pc = "idle"
        /\ handler.pc # "idle" => handler.prop \in Proposal
        /\ handler = Idle <=> handler.pc = "idle"
        /\ registered \subseteq Proposal /\ unsigned \in [Arbiter -> Int]
    BY HandlerTyped DEF TypeOK, Idle, Absent
  <1>1. ASSUME mux' = "free", handler'.pc = "idle", registered' = {} PROVE CountsCover'
    BY <1>1, NothingAwaited DEF CountsCover, Covered, Awaiting
  <1>2. CASE Restart
    BY <1>1, <1>2, <1>0 DEF Restart
  <1>3. ASSUME CountsCover, UNCHANGED <<called, registered, ss, unsigned, handler, mux>>,
               handler = Idle \/ Members(listAt') = Members(listAt)
        PROVE  CountsCover'
    <2>1. Members(listAt)' = Members(listAt')
      BY DEF Members
    <2>2. QED
      BY <1>0, <1>3, <2>1 DEF CountsCover, Covered, Awaiting, BeingCounted
  <1>4. ASSUME NEW h \in Height, SyncList(h) PROVE CountsCover'
    <2>1. /\ ~moved /\ (handler = Idle \/ Members(h) = Members(listAt)) /\ listAt' = h
          /\ UNCHANGED <<called, registered, ss, unsigned, handler, mux>>
      BY <1>4 DEF SyncList, InHand, roundS
    <2>2. QED
      BY <1>3, <2>1 DEF MuxInv
  <1>5. ASSUME NEW spawned \in SUBSET Proposal, Reset(spawned) PROVE CountsCover'
    <2>1. registered' = {} /\ UNCHANGED <<handler, mux, listAt>> /\ (~moved \/ MuxFree)
      BY <1>5 DEF Reset
    <2>2. CASE MuxFree
      BY <1>0, <1>1, <2>1, <2>2 DEF MuxFree
    <2>3. CASE ~MuxFree
      <3>1. \A a \in Arbiter : Covered(a)'
        BY <2>1 DEF Covered, Awaiting
      <3>2. QED
        BY <2>1, <2>3, <3>1 DEF MuxInv, CountsCover
    <2>4. QED
      BY <2>2, <2>3
  <1>6. CASE UNCHANGED <<called, registered, ss, unsigned, handler, mux, listAt, moved>>
    BY <1>3, <1>6 DEF MuxInv
  <1>7. SyncHeight \/ AnswerR \/ UNCHANGED vars
        => UNCHANGED <<called, registered, ss, unsigned, handler, mux, listAt, moved>>
    BY DEF SyncHeight, AnswerR, ReceiveR, vars, roundS, syncVars
  <1>8. Ask => Restart \/ UNCHANGED <<called, registered, ss, unsigned, handler, mux, listAt, moved>>
    BY DEF Ask, FileTransaction, RecordOwnR, roundS, syncVars
  <1>9. Call \/ AnswerS => ~moved /\ CountsCover
    BY DEF Call, Handle, ChooseSigners, ComposeCall, AnnounceCall, CountUnsigned, Aggregate,
           AnswerS, ReceiveS, MuxInv
  <1>10. ASSUME NEW p \in Proposal, ChooseSigners(p) PROVE CountsCover'
    <2>1. /\ handler.pc = "idle" /\ p \notin registered
          /\ UNCHANGED <<called, registered, ss, unsigned, mux, listAt>>
          /\ CountsCover
      BY <1>0, <1>9, <1>10
      DEF Call, ChooseSigners, MuxFree, CallsOnce, BeforeCall, roundS, syncVars
    <2>2. /\ handler'.pc \in {"idle", "chosen", "counting"}
          /\ handler'.pc = "counting" => handler'.prop = p /\ handler'.call = NoCall
      BY <1>0, <1>10 DEF ChooseSigners
    <2>3. \A a \in Arbiter : Covered(a)'
      BY <2>1, <2>2 DEF CountsCover, Covered, Awaiting, BeingCounted
    <2>4. QED
      BY <2>1, <2>2, <2>3, NoCallTyped DEF CountsCover, BeingCounted
  <1>11. CASE ComposeCall
    <2>1. /\ handler.pc = "chosen" /\ CountsCover
          /\ UNCHANGED <<called, registered, ss, unsigned, mux, listAt>>
      BY <1>9, <1>11 DEF Call, Handle, ComposeCall, roundS, syncVars
    <2>2. \/ handler'.pc = "idle"
          \/ /\ handler'.pc = "composed"
             /\ handler'.call = Restrict(handler.call, DOMAIN handler.call \cap Members(listAt))
      BY <1>0, <1>11 DEF ComposeCall, TypeOK, HandlerStates
    <2>3. DOMAIN Restrict(handler.call, DOMAIN handler.call \cap Members(listAt))
            \subseteq Members(listAt)
      BY DEF Restrict
    <2>4. \A a \in Arbiter : Covered(a)'
      BY <2>1, <2>2 DEF CountsCover, Covered, Awaiting, BeingCounted
    <2>5. Members(listAt)' = Members(listAt)
      BY <2>1 DEF Members
    <2>6. QED
      BY <2>1, <2>2, <2>3, <2>4, <2>5 DEF CountsCover, BeingCounted
  <1>12. CASE AnnounceCall
    <2> DEFINE p == handler.prop
    <2>1. /\ handler.pc = "composed" /\ p \in Proposal /\ p \notin registered /\ CountsCover
          /\ handler'.pc = "counting" /\ handler'.prop = p /\ handler'.call = handler.call
          /\ registered' = registered \cup {p} /\ UNCHANGED <<unsigned, mux, listAt>>
          /\ called' = [called EXCEPT ![p] = handler.call] /\ ss' = [ss EXCEPT ![p] = {Self}]
      BY <1>0, <1>9, <1>12
      DEF Call, Handle, AnnounceCall, OwnS, TypeOK, HandlerStates, CallsOnce, BeforeCall, syncVars
    <2>2. /\ called'[p] = handler.call
          /\ \A q \in Proposal \ {p} : called'[q] = called[q] /\ ss'[q] = ss[q]
      BY <2>1 DEF TypeOK
    <2>3. \A a \in Arbiter : Awaiting(a)' \subseteq Awaiting(a)
      BY <1>0, <2>1, <2>2 DEF Awaiting, BeingCounted
    <2>4. \A a \in Arbiter : Covered(a)'
      BY <1>0, <2>1, <2>3, CoveredStill DEF CountsCover
    <2>5. Members(listAt)' = Members(listAt)
      BY <2>1 DEF Members
    <2>6. QED
      BY <1>0, <2>1, <2>2, <2>4, <2>5 DEF CountsCover, BeingCounted
  <1>13. CASE CountUnsigned
    <2> DEFINE p == handler.prop
    <2>1. /\ handler.pc = "counting" /\ p \in Proposal /\ handler'.pc = "idle" /\ CountsCover
          /\ UNCHANGED <<called, registered, ss, mux>>
          /\ unsigned' = [a \in Arbiter |-> IF a \in Members(listAt)
                                           THEN CountOf(a, handler.signers) ELSE unsigned[a]]
      BY <1>0, <1>9, <1>13 DEF Call, Handle, CountUnsigned, roundS
    <2>2. ASSUME NEW a \in Arbiter PROVE Covered(a)'
      <3>1. Awaiting(a)' \subseteq Awaiting(a) \cup {p}
        BY <2>1 DEF Awaiting, BeingCounted
      <3>2. unsigned'[a] >= unsigned[a]
        BY <1>0, <2>1, CountRises
      <3>3. CASE p \in Awaiting(a)'
        <4>1. p \in registered /\ a \in DOMAIN called[p] /\ a \notin ss[p]
          BY <2>1, <3>3 DEF Awaiting
        <4>2. a \in Members(listAt) /\ a # Self
          BY <2>1, <4>1 DEF CountsCover, BeingCounted, AnswersToCall
        <4>3. unsigned'[a] >= 1 /\ unsigned'[a] >= unsigned[a] + 1
          BY <2>1, <4>2, CountRises
        <4>4. QED
          BY <2>1, <3>1, <4>3, CoveredOneMore DEF CountsCover
      <3>4. CASE p \notin Awaiting(a)'
        BY <2>1, <3>1, <3>2, <3>4, CoveredStill DEF CountsCover
      <3>5. QED
        BY <3>3, <3>4
    <2>3. QED
      BY <2>1, <2>2 DEF CountsCover, BeingCounted
  <1>14. ASSUME NEW p \in Proposal, NEW a \in Arbiter \ {Self}, ReceiveS(p, a) PROVE CountsCover'
    <2>1. /\ handler.pc = "idle" /\ p \in registered /\ CountsCover
          /\ a \in DOMAIN called[p] /\ a \notin ss[p]
          /\ UNCHANGED <<called, registered>> /\ handler'.pc \in {"idle", "aggregating"}
      BY <1>0, <1>9, <1>14 DEF AnswerS, ReceiveS, MuxFree
    <2>2. p \in Awaiting(a)
      BY <2>1 DEF Awaiting, BeingCounted
    <2>3. ~Uncounted(a)
      <3>1. IsFiniteSet(Awaiting(a)) /\ Cardinality(Awaiting(a)) \in Nat
        BY AwaitingFinite
      <3>2. Cardinality(Awaiting(a)) # 0
        BY <2>2, <3>1, FS_EmptySet
      <3>3. unsigned[a] >= Cardinality(Awaiting(a))
        BY <2>1, <2>2 DEF CountsCover, Covered
      <3>4. QED
        BY <1>0, <3>1, <3>2, <3>3 DEF Uncounted
    <2>4. /\ mux' = mux /\ unsigned' = [unsigned EXCEPT ![a] = @ - 1]
          /\ ss' = [ss EXCEPT ![p] = @ \cup {a}]
      BY <1>14, <2>3 DEF ReceiveS
    <2>5. /\ ss'[p] = ss[p] \cup {a} /\ \A q \in Proposal \ {p} : ss'[q] = ss[q]
          /\ unsigned'[a] = unsigned[a] - 1
          /\ \A b \in Arbiter \ {a} : unsigned'[b] = unsigned[b]
      BY <2>4 DEF TypeOK
    <2>6. \A b \in Arbiter : Awaiting(b)' \subseteq Awaiting(b)
      BY <1>0, <2>1, <2>5 DEF Awaiting, BeingCounted
    <2>7. Awaiting(a)' \subseteq Awaiting(a) \ {p}
      BY <2>5, <2>6 DEF Awaiting
    <2>8. Covered(a)'
      BY <2>1, <2>2, <2>5, <2>7, CoveredOneLess DEF CountsCover
    <2>9. ASSUME NEW b \in Arbiter \ {a} PROVE Covered(b)'
      BY <1>0, <2>1, <2>5, <2>6, CoveredStill DEF CountsCover
    <2>10. QED
      BY <2>1, <2>4, <2>8, <2>9 DEF CountsCover, BeingCounted
  <1>15. CASE Aggregate
    <2>1. /\ handler.pc = "aggregating" /\ handler'.pc = "idle" /\ CountsCover
          /\ UNCHANGED <<called, registered, ss, unsigned, mux>>
      BY <1>0, <1>9, <1>15 DEF Call, Handle, Aggregate, roundS
    <2>2. \A a \in Arbiter : Awaiting(a)' = Awaiting(a)
      BY <2>1 DEF Awaiting, BeingCounted
    <2>3. QED
      BY <2>1, <2>2 DEF CountsCover, Covered, BeingCounted
  <1>16. QED
    BY <1>2, <1>4, <1>5, <1>6, <1>7, <1>8, <1>10, <1>11, <1>12, <1>13, <1>14, <1>15
    DEF Next, Sync, Call, Handle, AnswerS

(***************************************************************************)
(* As long as the list keeps its members while the maps hold a             *)
(* transaction, every handler releases mux: no answer, to any call, meets  *)
(* a count below one.                                                      *)
(***************************************************************************)
THEOREM MuxIsReleased == Spec => []MuxReleased
  <1>1. SchnorrInv => TypeOK /\ CallsOnce /\ AnswersToCall
    BY DEF SchnorrInv, TypeInv, SentInv
  <1>2. SchnorrInv' => TypeOK'
    BY DEF SchnorrInv, TypeInv
  <1>3. SchnorrInv /\ SchnorrInv' /\ MuxInv /\ [Next]_vars => MuxInv'
    BY <1>1, <1>2, MuxInvNext
  <1>4. MuxInv => MuxReleased
    BY DEF MuxInv, CountsCover, MuxReleased
  <1>5. QED
    BY <1>3, <1>4, MuxInvInit, SchnorrInvariant, PTL DEF Spec
=============================================================================
