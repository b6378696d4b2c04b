-------------------------- MODULE SchnorrCollection --------------------------
(***************************************************************************)
(* Schnorr signature collection by the on-duty arbiter.                    *)
(*                                                                         *)
(* From SchnorrStartHeight on, DistributedNodeServer of Self collects one  *)
(* aggregate signature in two rounds.  A sending goroutine files the       *)
(* transaction under its nonce hash, records Self's own R and asks every   *)
(* peer for an R; five seconds later a message to itself makes the         *)
(* consumer of the P2P queue choose the signers among those who sent an R, *)
(* announce them with the challenge E, and count who did not sign.  The    *)
(* chosen peers answer with an S; the transaction is sent to the main      *)
(* chain when as many S are recorded as keys were announced.               *)
(*                                                                         *)
(* Everything runs under mux, which the arbiter list and Reset do not      *)
(* take: the handler of the timer reads the list three times, and Reset    *)
(* may empty the maps between any two steps of a handler.                  *)
(*                                                                         *)
(* Abstracted: a transaction is a Proposal, whose nonce makes both of its  *)
(* hashes its own; an R with its K0 and its key is a number, new with each *)
(* draw of its owner; an S is the name of its signer; a challenge, and an  *)
(* aggregate signature, is the function from its keys to the R it was made *)
(* from.  A handler that returns an error and changes nothing is a step    *)
(* not taken.                                                              *)
(***************************************************************************)
EXTENDS Integers, Sequences, FiniteSets, Functions

CONSTANTS
  Arbiter,      \* public keys that ever appear in an arbiter list
  Self,         \* the arbiter whose server is modelled
  Proposal,     \* transactions Self may create
  None,         \* no list, no proposal
  MaxHeight,    \* bound: the highest main chain block
  GroupAt,      \* [Height -> arbiter list and on-duty arbiter]
  CRClaimDPOSNodeStartHeight,
  DPOSNodeCrossChainHeight,
  Draws         \* bound: how many R a peer draws for one transaction

Height == 0 .. MaxHeight

Group == [members : SUBSET Arbiter, seats : Nat, onDuty : Arbiter \cup {None}]

ASSUME SchnorrAssumption ==
  /\ IsFiniteSet(Arbiter) /\ IsFiniteSet(Proposal)
  /\ Self \in Arbiter
  /\ None \notin Arbiter /\ None \notin Proposal /\ None \notin Height
  /\ MaxHeight \in Nat
  /\ GroupAt \in [Height -> Group]
  /\ CRClaimDPOSNodeStartHeight \in Nat
  /\ DPOSNodeCrossChainHeight \in Nat
  /\ Draws \in Nat \ {0}

VARIABLES
  listAt,     \* height whose list is in group.arbitrators, None when empty
  height,     \* group.currentHeight
  syncPc,     \* where the SyncLoop goroutine is
  onDuty,     \* group.isListenerOnDuty
  status,     \* life of each transaction in its sending goroutine and timer
  filed,      \* nonce hashes in schnorrWithdrawContentsTransaction
  rs,         \* schnorrWithdrawRequestRContentsSigners: draw recorded, 0 if none
  called,     \* the call on the network: its keys and the R behind its E
  registered, \* announced transactions in schnorrWithdrawContentsTransaction
  ss,         \* schnorrWithdrawRequestSContentsSigners
  unsigned,   \* UnsignedSigners, Absent for a key it lacks
  handler,    \* the consumer inside the handler of a timer or of an S
  mux,        \* "kept" once a handler returned without releasing it
  sent,       \* aggregate signatures handed to Submit, in order
  moved       \* the list changed while the maps held a transaction

syncVars  == <<listAt, height, syncPc, onDuty>>
roundR    == <<filed, rs>>
roundS    == <<called, registered, ss>>
vars == <<syncVars, status, roundR, roundS, unsigned, handler, mux, sent, moved>>

-----------------------------------------------------------------------------
Members(l) == IF l = None THEN {} ELSE GroupAt[l].members
Seats(l)   == IF l = None THEN 0 ELSE GroupAt[l].seats

AgreementCount(arbitersCount, h) ==
  IF h > CRClaimDPOSNodeStartHeight /\ h < DPOSNodeCrossChainHeight
  THEN (arbitersCount * 2) \div 3
  ELSE (arbitersCount * 2) \div 3 + 1

Absent == -1
NoDraws == [a \in Arbiter |-> 0]
Signers(p) == {a \in Arbiter : rs[p][a] # 0}

Challenge == UNION {[S -> 0 .. Draws] : S \in SUBSET Arbiter}
NoCall == [a \in {} |-> 0]

Idle == [pc |-> "idle", prop |-> None, signers |-> {}, call |-> NoCall]
HandlerStates == {Idle} \cup
  [pc : {"chosen", "composed", "counting", "aggregating"}, prop : Proposal,
   signers : SUBSET Arbiter, call : Challenge]

\* The consumer waits for mux, and holds it from its first step to its last.
MuxFree == handler = Idle /\ mux = "free"

-----------------------------------------------------------------------------
Init ==
  /\ listAt = None /\ height = 0 /\ syncPc = "idle" /\ onDuty = FALSE
  /\ status = [p \in Proposal |-> "none"]
  /\ filed = {} /\ rs = [p \in Proposal |-> NoDraws]
  /\ called = [p \in Proposal |-> NoCall]
  /\ registered = {} /\ ss = [p \in Proposal |-> {}]
  /\ unsigned = [a \in Arbiter |-> Absent]
  /\ handler = Idle /\ mux = "free"
  /\ sent = [p \in Proposal |-> <<>>]
  /\ moved = FALSE

(***************************************************************************)
(* Death of the process at any moment, and restart: goroutines, timers and *)
(* maps are lost.  A write into a map that Reset has taken away from a     *)
(* handler is one such death, by panic.                                    *)
(***************************************************************************)
Restart ==
  /\ listAt' = None /\ height' = 0 /\ syncPc' = "idle" /\ onDuty' = FALSE
  /\ status' = [p \in Proposal |-> IF status[p] = "none" THEN "none" ELSE "gone"]
  /\ filed' = {} /\ rs' = [p \in Proposal |-> NoDraws]
  /\ registered' = {} /\ ss' = [p \in Proposal |-> {}]
  /\ unsigned' = [a \in Arbiter |-> Absent]
  /\ handler' = Idle /\ mux' = "free" /\ moved' = FALSE
  /\ UNCHANGED <<called, sent>>

-----------------------------------------------------------------------------
(***************************************************************************)
(* SyncFromMainNode: the list of a height, 0 when the node does not        *)
(* answer, then the height with CheckOnDutyStatus, which only this         *)
(* goroutine sees.  The persisted height is left out: after height 0 any   *)
(* other may follow.  A list with other members is noted in moved when the *)
(* server has a transaction in hand.                                       *)
(***************************************************************************)
InHand == filed \cup registered # {} \/ handler # Idle

SyncList(h) ==
  /\ syncPc = "idle"
  /\ h = 0 \/ h > height
  /\ listAt' = h
  /\ syncPc' = "listed"
  /\ moved' = (moved \/ (InHand /\ Members(h) # Members(listAt)))
  /\ UNCHANGED <<height, onDuty, status, roundR, roundS, unsigned, handler, mux, sent>>

SyncHeight ==
  LET mine == GroupAt[listAt].onDuty = Self IN
  /\ syncPc = "listed"
  /\ height' = listAt
  /\ onDuty' = mine
  /\ syncPc' = IF mine /\ (~onDuty \/ listAt = CRClaimDPOSNodeStartHeight)
               THEN "reset" ELSE "idle"
  /\ UNCHANGED <<listAt, status, roundR, roundS, unsigned, handler, mux,
                 sent, moved>>

(***************************************************************************)
(* OnDutyArbitratorChanged(true): Reset takes no lock and leaves           *)
(* UnsignedSigners alone; then the sending goroutines start.               *)
(***************************************************************************)
Reset(spawned) ==
  /\ syncPc = "reset"
  /\ spawned \subseteq {p \in Proposal : status[p] = "none"}
  /\ status' = [p \in Proposal |-> IF p \in spawned THEN "spawned" ELSE status[p]]
  /\ filed' = {} /\ rs' = [p \in Proposal |-> NoDraws]
  /\ registered' = {} /\ ss' = [p \in Proposal |-> {}]
  /\ moved' = (moved /\ ~MuxFree)
  /\ syncPc' = "idle"
  /\ UNCHANGED <<listAt, height, onDuty, called, unsigned, handler, mux, sent>>

-----------------------------------------------------------------------------
(***************************************************************************)
(* A sending goroutine, BroadcastSchnorrWithdrawProposal2.  The maps are   *)
(* written under mux; Self's own R is recorded without it, into a map that *)
(* Reset may have taken away: the process panics.  Then every peer is      *)
(* asked and the timer starts.                                             *)
(***************************************************************************)
FileTransaction(p) ==
  /\ status[p] = "spawned"
  /\ MuxFree
  /\ status' = [status EXCEPT ![p] = "filed"]
  /\ filed' = filed \cup {p}
  /\ UNCHANGED <<syncVars, rs, roundS, unsigned, handler, mux, sent, moved>>

RecordOwnR(p) ==
  /\ status[p] = "filed"
  /\ IF p \notin filed
     THEN Restart
     ELSE /\ status' = [status EXCEPT ![p] = "asked"]
          /\ rs' = [rs EXCEPT ![p][Self] = 1]
          /\ UNCHANGED <<syncVars, filed, roundS, unsigned, handler, mux, sent, moved>>

(***************************************************************************)
(* A peer in its own list answers with a fresh R, as often as it is asked: *)
(* none equals an R recorded before.  The server takes it from a sender in *)
(* its current list, the first one only.                                   *)
(***************************************************************************)
\* Mutant of RecordR: a later answer replaces the R the challenge was made of.
RecordLatestR(p, a, r) == rs' = [rs EXCEPT ![p][a] = r]

RecordR(p, a, r) == rs[p][a] = 0 /\ rs' = [rs EXCEPT ![p][a] = r]

ReceiveR(p, a) ==
  /\ status[p] \in {"asked", "timed"}
  /\ \E view \in Height : a \in GroupAt[view].members
  /\ MuxFree
  /\ a \in Members(listAt) /\ p \in filed
  /\ rs[p][a] < Draws
  /\ RecordR(p, a, rs[p][a] + 1)
  /\ UNCHANGED <<syncVars, status, filed, roundS, unsigned, handler, mux, sent, moved>>

-----------------------------------------------------------------------------
(***************************************************************************)
(* ReceiveSendSchnorrWithdrawProposal3, when the timer of p fires.  As     *)
(* many signers as the list and the height ask for: Self, then those with  *)
(* the lowest counts, a key without a count before all; map order decides  *)
(* between equals.  The loop that picks them stops at a count of n, which  *)
(* it never meets when n is 0.                                             *)
(***************************************************************************)
Picked(signers, n) ==
  {S \in SUBSET signers :
     /\ Cardinality(S) = (IF n = 0 THEN Cardinality(signers) ELSE n)
     /\ Self \in signers => Self \in S
     /\ \A a \in S \ {Self}, b \in signers \ S : unsigned[a] <= unsigned[b]}

ChooseSigners(p) ==
  LET signers == Signers(p)
      n == AgreementCount(Seats(listAt), height) IN
  /\ status[p] = "asked"
  /\ MuxFree
  /\ status' = [status EXCEPT ![p] = "timed"]
  /\ IF p \notin filed
     THEN handler' = Idle
     ELSE IF Cardinality(signers) < n
     THEN handler' = [pc |-> "counting", prop |-> p, signers |-> signers, call |-> NoCall]
     ELSE \E S \in Picked(signers, n) :
            handler' = [pc |-> "chosen", prop |-> p, signers |-> signers,
                        call |-> Restrict(rs[p], S)]
  /\ UNCHANGED <<syncVars, roundR, roundS, unsigned, mux, sent, moved>>

\* The keys are those of the picked signers the list, read again, still has;
\* a missing R is an error, after which nobody is counted.
ComposeCall ==
  LET pks == DOMAIN handler.call \cap Members(listAt) IN
  /\ handler.pc = "chosen"
  /\ handler' = IF handler.prop \in filed \/ pks = {}
                THEN [handler EXCEPT !.pc = "composed", !.call = Restrict(@, pks)]
                ELSE Idle
  /\ UNCHANGED <<syncVars, status, roundR, roundS, unsigned, mux, sent, moved>>

\* Mutant of OwnS: Self's S is not recorded, so one answer more is awaited.
OwnSMissing == {}

OwnS == {Self}

AnnounceCall ==
  LET p == handler.prop IN
  /\ handler.pc = "composed"
  /\ called' = [called EXCEPT ![p] = handler.call]
  /\ registered' = registered \cup {p}
  /\ ss' = [ss EXCEPT ![p] = OwnS]
  /\ handler' = [handler EXCEPT !.pc = "counting"]
  /\ UNCHANGED <<syncVars, status, roundR, unsigned, mux, sent, moved>>

Increment(count) == IF count = Absent THEN 1 ELSE count + 1

\* Mutant of CountOf: only who sent no R is counted.
CountMissingOnly(a, signers) ==
  IF a \in signers THEN unsigned[a] ELSE Increment(unsigned[a])

CountOf(a, signers) ==
  LET missing == IF a \in signers THEN unsigned[a] ELSE Increment(unsigned[a])
  IN  IF a = Self THEN missing ELSE Increment(missing)

CountUnsigned ==
  /\ handler.pc = "counting"
  /\ unsigned' = [a \in Arbiter |->
       IF a \in Members(listAt) THEN CountOf(a, handler.signers) ELSE unsigned[a]]
  /\ handler' = Idle
  /\ UNCHANGED <<syncVars, status, roundR, roundS, mux, sent, moved>>

-----------------------------------------------------------------------------
(***************************************************************************)
(* A called peer signs when the payload has as many signers as its own     *)
(* list and height ask for.                                                *)
(***************************************************************************)
SignerCountAgreed(pks) ==
  \E l, h \in Height : Cardinality(pks) = AgreementCount(Seats(l), h)

\* Mutant of Complete: any further answer submits again.
CompleteOrMore(signers, pks) == Cardinality(signers) >= Cardinality(pks)

Complete(signers, pks) == Cardinality(signers) = Cardinality(pks)

\* Mutant of Uncounted: the count is taken down unchecked.
NeverUncounted(a) == FALSE

Uncounted(a) == unsigned[a] < 1

(***************************************************************************)
(* receiveSchnorrWithdrawProposal3Feedback.  A signer whose count is below *)
(* one makes the handler return with mux locked.  The answer that makes    *)
(* the set complete goes on to the aggregation.                            *)
(***************************************************************************)
ReceiveS(p, a) ==
  /\ a \in DOMAIN called[p] \ {Self}
  /\ \E view \in Height : a \in GroupAt[view].members
  /\ SignerCountAgreed(DOMAIN called[p])
  /\ MuxFree
  /\ a \in Members(listAt) /\ p \in registered /\ a \notin ss[p]
  /\ IF Uncounted(a)
     THEN mux' = "kept" /\ UNCHANGED <<unsigned, ss, handler>>
     ELSE /\ unsigned' = [unsigned EXCEPT ![a] = @ - 1]
          /\ ss' = [ss EXCEPT ![p] = @ \cup {a}]
          /\ handler' = IF Complete(ss'[p], DOMAIN called[p])
                        THEN [pc |-> "aggregating", prop |-> p, signers |-> {}, call |-> NoCall]
                        ELSE Idle
          /\ UNCHANGED mux
  /\ UNCHANGED <<syncVars, status, roundR, called, registered, sent, moved>>

(***************************************************************************)
(* The S and R are read from the maps again, and submitted; an R that is   *)
(* missing is an error.  After a Reset nothing is left to aggregate, and   *)
(* the program made of nothing is submitted, unless its key is no point.   *)
(***************************************************************************)
Aggregate ==
  LET p == handler.prop IN
  /\ handler.pc = "aggregating"
  /\ handler' = Idle
  /\ \/ /\ p \in filed \/ ss[p] = {}
        /\ sent' = [sent EXCEPT ![p] = Append(@, Restrict(rs[p], ss[p]))]
     \/ /\ p \notin filed
        /\ UNCHANGED sent
  /\ UNCHANGED <<syncVars, status, roundR, roundS, unsigned, mux, moved>>

-----------------------------------------------------------------------------
Sync ==
  \/ \E h \in Height : SyncList(h)
  \/ SyncHeight
  \/ \E spawned \in SUBSET Proposal : Reset(spawned)

Ask == \E p \in Proposal : FileTransaction(p) \/ RecordOwnR(p)

Handle == ComposeCall \/ AnnounceCall \/ CountUnsigned \/ Aggregate

Call == (\E p \in Proposal : ChooseSigners(p)) \/ Handle

AnswerR == \E p \in Proposal, a \in Arbiter \ {Self} : ReceiveR(p, a)

AnswerS == \E p \in Proposal, a \in Arbiter \ {Self} : ReceiveS(p, a)

Next == Restart \/ Sync \/ Ask \/ Call \/ AnswerR \/ AnswerS

Spec == Init /\ [][Next]_vars

(***************************************************************************)
(* The consumer finishes what it handles, and as long as an awaited S can  *)
(* arrive, some does.                                                      *)
(***************************************************************************)
Fairness == WF_vars(Handle) /\ WF_vars(AnswerS)

FairSpec == Spec /\ Fairness

-----------------------------------------------------------------------------
(***************************************************************************)
(* The types of the variables; the counts of UnsignedSigners are unsigned  *)
(* in the code, so a decrement below zero would wrap.                      *)
(***************************************************************************)
TypeOK ==
  /\ listAt \in Height \cup {None} /\ height \in Height
  /\ syncPc \in {"idle", "listed", "reset"}
  /\ onDuty \in BOOLEAN
  /\ status \in [Proposal -> {"none", "spawned", "filed", "asked", "timed", "gone"}]
  /\ filed \subseteq Proposal
  /\ rs \in [Proposal -> [Arbiter -> 0 .. Draws]]
  /\ called \in [Proposal -> Challenge]
  /\ registered \subseteq Proposal
  /\ ss \in [Proposal -> SUBSET Arbiter]
  /\ unsigned \in [Arbiter -> Nat \cup {Absent}]
  /\ handler \in HandlerStates
  /\ mux \in {"free", "kept"}
  /\ sent \in [Proposal -> Seq(Challenge)]
  /\ moved \in BOOLEAN

(***************************************************************************)
(* A submitted signature verifies: it is made of the S of exactly the keys *)
(* that were announced, and of the very R the challenge they answered was  *)
(* computed from; a Reset just before the aggregation leaves a signature   *)
(* of nothing, never one of some keys.  The exception is a call composed   *)
(* from a list without Self, whose own S is counted all the same.          *)
(***************************************************************************)
SubmittedVerifies ==
  \A p \in Proposal : \A i \in DOMAIN sent[p] :
    Self \in DOMAIN called[p] => sent[p][i] \in {called[p], NoCall}

(***************************************************************************)
(* The contents stay in the maps after the submission, and late answers    *)
(* still find them: a transaction is submitted once all the same.          *)
(***************************************************************************)
SubmittedOnce == \A p \in Proposal : Len(sent[p]) <= 1

(***************************************************************************)
(* mux, which every sending goroutine and every answer needs, is released  *)
(* by each handler as long as the list keeps its members while the maps    *)
(* hold a transaction: every called signer was counted when the call was   *)
(* made, and is counted down once for it.                                  *)
(***************************************************************************)
MuxReleased == mux = "kept" => moved

(***************************************************************************)
(* A call for the signatures of two arbiters or more ends in a submission, *)
(* unless the transaction is forgotten by Reset or by a crash, or the list *)
(* changed under it.  (A call for Self's alone is never submitted: only an *)
(* answer submits.)                                                        *)
(***************************************************************************)
Called(p) == p \in registered /\ Cardinality(DOMAIN called[p]) >= 2

CalledIsSubmitted ==
  \A p \in Proposal :
    Called(p) ~> (sent[p] # <<>> \/ p \notin registered \/ p \notin filed \/ moved)
=============================================================================
