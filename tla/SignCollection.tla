---------------------------- MODULE SignCollection ----------------------------
(***************************************************************************)
(* Multi-signature collection by the on-duty arbiter.                      *)
(*                                                                         *)
(* One arbiter, Self, runs DistributedNodeServer: a goroutine of           *)
(* SendCached*Txs builds a main chain transaction and broadcasts it for    *)
(* signing, the single consumer of the P2P queue merges the answers of the *)
(* other arbiters and submits the transaction once enough of them signed,  *)
(* and the SyncLoop goroutine installs the arbiter list of a new main      *)
(* chain height and resets the server when Self comes on duty.  The other  *)
(* arbiters run DistributedNodeClient.                                     *)
(*                                                                         *)
(* Shared between those goroutines: the arbiter list and height of         *)
(* ArbitratorGroupImpl, and the two maps unsolvedContents and              *)
(* unsolvedContentsSignature.  Reset replaces the maps without a lock and  *)
(* the consumer releases its lock between looking a content up and reading *)
(* the signers of its hash, so those are separate steps here.              *)
(*                                                                         *)
(* Abstracted: a transaction is a Proposal (one object in memory) with a   *)
(* hash; a signature is the name of its signer; a main chain height        *)
(* determines the arbiter list.  A goroutine that returns early with an    *)
(* error and changes nothing is a step not taken: a message refused is as  *)
(* good as a message lost.                                                 *)
(***************************************************************************)
EXTENDS Integers, Sequences, FiniteSets, Functions

CONSTANTS
  Arbiter,      \* public keys that ever appear in an arbiter list
  Self,         \* the arbiter whose server is modelled
  Proposal,     \* transaction objects Self may create
  Hash,         \* transaction hashes
  TxHash,       \* [Proposal -> Hash]: equal for two objects only when the
                \* transaction has no nonce attribute (return deposit)
  None,         \* absent: no content, nil map, no key
  MaxHeight,    \* bound: the highest main chain block
  GroupAt,      \* [Height -> arbiter list and on-duty arbiter]
  CRClaimDPOSNodeStartHeight,
  DPOSNodeCrossChainHeight,
  DuplicateAnswers, \* TRUE: the network may deliver an answer twice
  MaxCrashes    \* bound: how often the process is killed

Height == 0 .. MaxHeight

Group == [members : SUBSET Arbiter, seats : Nat, onDuty : Arbiter \cup {None}]

ASSUME ConstantsAssumption ==
  /\ Self \in Arbiter
  /\ None \notin Arbiter /\ None \notin Proposal /\ None \notin Hash
  /\ None \notin Height /\ \A A \in SUBSET Arbiter : A # None
  /\ TxHash \in [Proposal -> Hash]
  /\ MaxHeight \in Nat
  /\ GroupAt \in [Height -> Group]
  /\ CRClaimDPOSNodeStartHeight \in Nat
  /\ DPOSNodeCrossChainHeight \in Nat
  /\ DuplicateAnswers \in BOOLEAN
  /\ MaxCrashes \in Nat

VARIABLES
  chain,     \* best height of the main chain
  stored,    \* height persisted in MainChainStore
  listAt,    \* height whose list is in group.arbitrators, None when empty
  height,    \* group.currentHeight
  syncPc,    \* where the SyncLoop goroutine is
  onDuty,    \* group.isListenerOnDuty
  status,    \* life of each proposal in the sending goroutines
  code,      \* redeem script in Programs()[0].Code: height of its list, and M
  script,    \* height of the list in the script of the message
  params,    \* signatures in Programs()[0].Parameter
  contents,  \* unsolvedContents
  signs,     \* unsolvedContentsSignature
  inbox,     \* proposals on their way to a client
  answers,   \* signed feedbacks on their way to the server
  handler,   \* the P2P queue consumer inside ReceiveProposalFeedback
  submitted, \* how often each object was handed to Submit
  crashes    \* how often the process was killed

syncVars   == <<chain, stored, listAt, height, syncPc, onDuty>>
txVars     == <<status, code, script, params>>
mapVars    == <<contents, signs>>
netVars    == <<inbox, answers>>
vars == <<syncVars, txVars, mapVars, netVars, handler, submitted, crashes>>

-----------------------------------------------------------------------------
(***************************************************************************)
(* The arbiter group as Self sees it.  The list and the height are         *)
(* installed one after the other, so a reader may combine two heights.     *)
(***************************************************************************)
Members(l) == IF l = None THEN {} ELSE GroupAt[l].members
Seats(l)   == IF l = None THEN 0 ELSE GroupAt[l].seats

AgreementCount(arbitersCount, h) ==
  IF h > CRClaimDPOSNodeStartHeight /\ h < DPOSNodeCrossChainHeight
  THEN (arbitersCount * 2) \div 3
  ELSE (arbitersCount * 2) \div 3 + 1

CodeKeys(p) == Members(code[p].at)

(***************************************************************************)
(* MergeSignToTransaction counts signatures by the length of the           *)
(* parameter: 65 bytes each, divided by 64.                                *)
(***************************************************************************)
SignatureScriptLength == 65

\* Mutant of SignedCount: one too many, as if Self's were counted apart.
SignedCountPlusOwn(sigs) == (SignatureScriptLength * Len(sigs)) \div (SignatureScriptLength - 1) + 1

SignedCount(sigs) == (SignatureScriptLength * Len(sigs)) \div (SignatureScriptLength - 1)

Idle == [pc |-> "idle"]
Holding(pc, p, a, n) == [pc |-> pc, prop |-> p, signer |-> a, seats |-> n]
HandlerStates == {Idle} \cup
  [pc : {"found", "merged", "recorded", "counted", "agreed"},
   prop : Proposal, signer : Arbiter, seats : Nat]

-----------------------------------------------------------------------------
(***************************************************************************)
(* Start of the process: the maps are empty, no list is known, the height  *)
(* persisted in the database survives.                                     *)
(***************************************************************************)
Init ==
  /\ chain = 0 /\ stored = 0
  /\ listAt = None /\ height = 0 /\ syncPc = "idle" /\ onDuty = FALSE
  /\ status = [p \in Proposal |-> "none"]
  /\ code = [p \in Proposal |-> [at |-> None, m |-> 0]]
  /\ script = [p \in Proposal |-> None]
  /\ params = [p \in Proposal |-> <<>>]
  /\ contents = [x \in Hash |-> None]
  /\ signs = [x \in Hash |-> None]
  /\ inbox = {} /\ answers = {}
  /\ handler = Idle
  /\ submitted = [p \in Proposal |-> 0]
  /\ crashes = 0

(***************************************************************************)
(* Death of the process and restart: every goroutine and map is lost.      *)
(***************************************************************************)
Restart ==
  /\ listAt' = None /\ height' = 0 /\ syncPc' = "idle" /\ onDuty' = FALSE
  /\ status' = [p \in Proposal |-> IF status[p] = "none" THEN "none" ELSE "gone"]
  /\ contents' = [x \in Hash |-> None]
  /\ signs' = [x \in Hash |-> None]
  /\ handler' = Idle
  /\ UNCHANGED <<chain, stored, code, script, params, netVars, submitted>>

Crash ==
  /\ crashes < MaxCrashes
  /\ crashes' = crashes + 1
  /\ Restart

NewBlock ==
  /\ chain < MaxHeight
  /\ chain' = chain + 1
  /\ UNCHANGED <<stored, listAt, height, syncPc, onDuty, txVars, mapVars, netVars,
                 handler, submitted, crashes>>

-----------------------------------------------------------------------------
(***************************************************************************)
(* SyncFromMainNode.  SyncChainData returns the height of the database,    *)
(* raised to the node's when everything succeeds, or 0 when the node does  *)
(* not answer; the list of that height is installed first, the height      *)
(* second, then CheckOnDutyStatus runs.                                    *)
(***************************************************************************)
SyncChainData(h) ==
  \/ h = 0 /\ UNCHANGED stored
  \/ h \in stored .. chain /\ stored' = h

SyncList(h) ==
  /\ syncPc = "idle"
  /\ \E node \in stored .. chain : height = 0 \/ height # node
  /\ SyncChainData(h)
  /\ listAt' = h
  /\ syncPc' = "listed"
  /\ UNCHANGED <<chain, height, onDuty, txVars, mapVars, netVars, handler, submitted, crashes>>

\* Mutant of SyncHeight: the group takes the height of the block to come.
SyncNextHeight ==
  /\ syncPc = "listed"
  /\ height' = listAt + 1
  /\ syncPc' = "synced"
  /\ UNCHANGED <<chain, stored, listAt, onDuty, txVars, mapVars, netVars, handler,
                 submitted, crashes>>

SyncHeight ==
  /\ syncPc = "listed"
  /\ height' = listAt
  /\ syncPc' = "synced"
  /\ UNCHANGED <<chain, stored, listAt, onDuty, txVars, mapVars, netVars, handler,
                 submitted, crashes>>

CheckOnDutyStatus ==
  LET mine == GroupAt[listAt].onDuty = Self IN
  /\ syncPc = "synced"
  /\ onDuty' = mine
  /\ syncPc' = IF mine /\ (~onDuty \/ height = CRClaimDPOSNodeStartHeight)
               THEN "reset" ELSE "idle"
  /\ UNCHANGED <<chain, stored, listAt, height, txVars, mapVars, netVars, handler,
                 submitted, crashes>>

(***************************************************************************)
(* OnDutyArbitratorChanged(true): Reset assigns the two maps one after the *)
(* other and without a lock, then one goroutine per side chain and kind of *)
(* transaction is started; some of them will create a transaction.         *)
(***************************************************************************)
ResetContents ==
  /\ syncPc = "reset"
  /\ contents' = [x \in Hash |-> None]
  /\ syncPc' = "resetSigns"
  /\ UNCHANGED <<chain, stored, listAt, height, onDuty, txVars, signs, netVars, handler,
                 submitted, crashes>>

ResetSigns(spawned) ==
  /\ syncPc = "resetSigns"
  /\ spawned \subseteq {p \in Proposal : status[p] = "none"}
  /\ signs' = [x \in Hash |-> None]
  /\ status' = [p \in Proposal |-> IF p \in spawned THEN "spawned" ELSE status[p]]
  /\ syncPc' = "idle"
  /\ UNCHANGED <<chain, stored, listAt, height, onDuty, code, script, params, contents, netVars,
                 handler, submitted, crashes>>

-----------------------------------------------------------------------------
(***************************************************************************)
(* A sending goroutine.  The redeem script of the transaction is made when *)
(* it is created: the list is read first and the height, for M, after it.  *)
(* InitScript reads the list again for the script of the message, Self     *)
(* must be one of its keys, and Self's signature becomes the parameter.    *)
(***************************************************************************)
CreateRedeemScript(p) ==
  /\ status[p] = "spawned"
  /\ status' = [status EXCEPT ![p] = "listed"]
  /\ code' = [code EXCEPT ![p] = [at |-> listAt, m |-> 0]]
  /\ UNCHANGED <<syncVars, script, params, mapVars, netVars, handler, submitted, crashes>>

CreateTransaction(p) ==
  /\ status[p] = "listed"
  /\ status' = [status EXCEPT ![p] = "created"]
  /\ code' = [code EXCEPT ![p] =
       [at |-> code[p].at, m |-> AgreementCount(Seats(code[p].at), height)]]
  /\ UNCHANGED <<syncVars, script, params, mapVars, netVars, handler, submitted, crashes>>

InitScript(p) ==
  /\ status[p] = "created"
  /\ IF Self \in Members(listAt)
     THEN /\ status' = [status EXCEPT ![p] = "signed"]
          /\ script' = [script EXCEPT ![p] = listAt]
          /\ params' = [params EXCEPT ![p] = <<Self>>]
     ELSE /\ status' = [status EXCEPT ![p] = "gone"]
          /\ UNCHANGED <<script, params>>
  /\ UNCHANGED <<syncVars, code, mapVars, netVars, handler, submitted, crashes>>

(***************************************************************************)
(* The two entries are written under mux, hence in one step; Reset does    *)
(* not take mux, but between the two it could only leave a signer set no   *)
(* content refers to.  The item is then sent to the peers; those outside   *)
(* its script refuse it.                                                   *)
(***************************************************************************)
BroadcastWithdrawProposal(p) ==
  /\ status[p] = "signed"
  /\ IF contents[TxHash[p]] # None
     THEN /\ status' = [status EXCEPT ![p] = "gone"]
          /\ UNCHANGED <<contents, signs, inbox>>
     ELSE /\ status' = [status EXCEPT ![p] = "sent"]
          /\ contents' = [contents EXCEPT ![TxHash[p]] = p]
          /\ signs' = [signs EXCEPT ![TxHash[p]] = {Self}]
          /\ inbox' = inbox \cup
               {[prop |-> p, peer |-> a] : a \in Members(script[p]) \ {Self}}
  /\ UNCHANGED <<syncVars, code, script, params, answers, handler, submitted, crashes>>

(***************************************************************************)
(* A client: it must be in its own current list and in the script, and its *)
(* own node must report Self on duty.  Its view of the heights is its own. *)
(***************************************************************************)
OnReceivedProposal(m) ==
  /\ m \in inbox
  /\ \E view \in 0 .. chain : m.peer \in GroupAt[view].members
  /\ \E node \in 0 .. chain : GroupAt[node].onDuty = Self
  /\ inbox' = inbox \ {m}
  /\ answers' = answers \cup {[prop |-> m.prop, signer |-> m.peer]}
  /\ UNCHANGED <<syncVars, txVars, mapVars, handler, submitted, crashes>>

-----------------------------------------------------------------------------
(***************************************************************************)
(* ReceiveProposalFeedback, run by the one consumer of the queue under     *)
(* withdrawMux.  The content is looked up by hash under mux; what follows  *)
(* is not protected until the deletion.                                    *)
(***************************************************************************)
LookupContent(m) ==
  /\ handler = Idle
  /\ m \in answers
  /\ answers' = IF DuplicateAnswers THEN answers ELSE answers \ {m}
  /\ handler' = IF m.signer \in Members(listAt) /\ contents[TxHash[m.prop]] # None
                THEN Holding("found", contents[TxHash[m.prop]], m.signer, 0)
                ELSE Idle
  /\ UNCHANGED <<syncVars, txVars, mapVars, inbox, submitted, crashes>>

\* Mutant of AlreadySigned: the check of the signer set is dropped.
NeverSigned(p, a) == FALSE

AlreadySigned(p, a) == signs[TxHash[p]] # None /\ a \in signs[TxHash[p]]

\* Mutant of IsCodeKey: the sender is looked up in the current list only.
IsCurrentKey(p, a) == a \in Members(listAt)

IsCodeKey(p, a) == a \in CodeKeys(p)

MergeSign ==
  LET p == handler.prop
      a == handler.signer IN
  /\ handler.pc = "found"
  /\ IF AlreadySigned(p, a) \/ ~IsCodeKey(p, a)
     THEN handler' = Idle /\ UNCHANGED params
     ELSE /\ params' = [params EXCEPT ![p] = Append(@, a)]
          /\ handler' = Holding("merged", p, a, 0)
  /\ UNCHANGED <<syncVars, status, code, script, mapVars, netVars, submitted, crashes>>

(***************************************************************************)
(* The signer is noted under the hash.  When Reset removed the inner map   *)
(* in between, the assignment is to a nil map: the process panics.         *)
(***************************************************************************)
RecordSigner ==
  LET x == TxHash[handler.prop] IN
  /\ handler.pc = "merged"
  /\ IF signs[x] = None
     THEN Restart
     ELSE /\ signs' = [signs EXCEPT ![x] = @ \cup {handler.signer}]
          /\ handler' = Holding("recorded", handler.prop, handler.signer, 0)
          /\ UNCHANGED <<syncVars, txVars, contents, netVars, submitted>>
  /\ UNCHANGED crashes

(***************************************************************************)
(* The threshold: the list is read first, the height after it.             *)
(***************************************************************************)
CountArbiters ==
  /\ handler.pc = "recorded"
  /\ handler' = Holding("counted", handler.prop, handler.signer, Seats(listAt))
  /\ UNCHANGED <<syncVars, txVars, mapVars, netVars, submitted, crashes>>

\* Mutant of DeleteContent: the maps keep a content that is submitted.
KeepContent(x) == UNCHANGED mapVars

DeleteContent(x) ==
  /\ contents' = [contents EXCEPT ![x] = None]
  /\ signs' = [signs EXCEPT ![x] = None]

CheckAgreement ==
  LET x == TxHash[handler.prop] IN
  /\ handler.pc = "counted"
  /\ IF SignedCount(params[handler.prop]) >= AgreementCount(handler.seats, height)
     THEN /\ DeleteContent(x)
          /\ handler' = Holding("agreed", handler.prop, handler.signer, 0)
     ELSE handler' = Idle /\ UNCHANGED mapVars
  /\ UNCHANGED <<syncVars, txVars, netVars, submitted, crashes>>

Submit ==
  /\ handler.pc = "agreed"
  /\ submitted' = [submitted EXCEPT ![handler.prop] = @ + 1]
  /\ handler' = Idle
  /\ UNCHANGED <<syncVars, txVars, mapVars, netVars, crashes>>

-----------------------------------------------------------------------------
Sync ==
  \/ \E h \in Height : SyncList(h)
  \/ SyncHeight
  \/ CheckOnDutyStatus
  \/ ResetContents
  \/ \E spawned \in SUBSET Proposal : ResetSigns(spawned)

Send == \E p \in Proposal :
  \/ CreateRedeemScript(p)
  \/ CreateTransaction(p)
  \/ InitScript(p)
  \/ BroadcastWithdrawProposal(p)

Consume ==
  \/ \E m \in answers : LookupContent(m)
  \/ MergeSign
  \/ RecordSigner
  \/ CountArbiters
  \/ CheckAgreement
  \/ Submit

Clients == \E m \in inbox : OnReceivedProposal(m)

Next == Crash \/ NewBlock \/ Sync \/ Send \/ Clients \/ Consume

Spec == Init /\ [][Next]_vars

(***************************************************************************)
(* For the liveness run: SyncLoop, the sending goroutines and the consumer *)
(* keep running, and every peer that is asked receives the message,        *)
(* answers it, and its answer arrives.  NewBlock and Crash have no         *)
(* fairness.  Resetting is fair as part of SyncLoop's iteration.           *)
(***************************************************************************)
Fairness ==
  /\ WF_vars(SyncHeight) /\ WF_vars(CheckOnDutyStatus) /\ WF_vars(ResetContents)
  /\ WF_vars(ResetSigns({}))
  /\ WF_vars(Send)
  /\ \A p \in Proposal, a \in Arbiter :
       /\ WF_vars(OnReceivedProposal([prop |-> p, peer |-> a]))
       /\ WF_vars(LookupContent([prop |-> p, signer |-> a]))
  /\ WF_vars(MergeSign) /\ WF_vars(RecordSigner) /\ WF_vars(CountArbiters)
  /\ WF_vars(CheckAgreement) /\ WF_vars(Submit)

FairSpec == Spec /\ Fairness

-----------------------------------------------------------------------------
(***************************************************************************)
(* The types of the variables.                                             *)
(***************************************************************************)
TypeOK ==
  /\ chain \in Height /\ stored \in Height
  /\ listAt \in Height \cup {None} /\ height \in Height
  /\ syncPc \in {"idle", "listed", "synced", "reset", "resetSigns"}
  /\ onDuty \in BOOLEAN
  /\ status \in [Proposal ->
       {"none", "spawned", "listed", "created", "signed", "sent", "gone"}]
  /\ code \in [Proposal -> [at : Height \cup {None}, m : Int]]
  /\ script \in [Proposal -> Height \cup {None}]
  /\ params \in [Proposal -> Seq(Arbiter)]
  /\ contents \in [Hash -> Proposal \cup {None}]
  /\ signs \in [Hash -> (SUBSET Arbiter) \cup {None}]
  /\ inbox \subseteq [prop : Proposal, peer : Arbiter]
  /\ answers \subseteq [prop : Proposal, signer : Arbiter]
  /\ handler \in HandlerStates
  /\ submitted \in [Proposal -> Nat]
  /\ crashes \in Nat

(***************************************************************************)
(* A transaction object is handed to Submit at most once, however answers, *)
(* resets and crashes interleave: deleting the content before submitting   *)
(* is what stops the answers that come after the threshold.                *)
(***************************************************************************)
SubmittedAtMostOnce == \A p \in Proposal : submitted[p] <= 1

NoRepetition(sigs) == \A i, j \in DOMAIN sigs : sigs[i] = sigs[j] => i = j

Nonced(p) == \A q \in Proposal : TxHash[q] = TxHash[p] => q = p

(***************************************************************************)
(* A transaction with a nonce never leaves with two signatures of one      *)
(* arbiter, although answers may be delivered twice, Reset empties the     *)
(* signer set while the consumer works, and the check in                   *)
(* MergeSignToTransaction does not recognise a repeated signer.            *)
(***************************************************************************)
NoRepeatedSignerSubmitted ==
  \A p \in Proposal : Nonced(p) /\ submitted[p] > 0 => NoRepetition(params[p])

(***************************************************************************)
(* Every signature merged after Self's belongs to a key of the redeem      *)
(* script the transaction was created with, whatever lists have been       *)
(* installed since.                                                        *)
(***************************************************************************)
MergedSignersInCode ==
  \A p \in Proposal : \A i \in DOMAIN params[p] : i > 1 => params[p][i] \in CodeKeys(p)

(***************************************************************************)
(* When the list and the threshold are the same at every height, what is   *)
(* submitted satisfies its own redeem script: M different keys signed.     *)
(***************************************************************************)
Spendable(p) ==
  /\ Range(params[p]) \subseteq CodeKeys(p)
  /\ Cardinality(Range(params[p])) >= code[p].m

SubmittedIsSpendable ==
  \A p \in Proposal : Nonced(p) /\ submitted[p] > 0 => Spendable(p)

(***************************************************************************)
(* "Check if singer already signed", says MergeSignToTransaction: no       *)
(* transaction is submitted with a signer counted twice.                   *)
(***************************************************************************)
SignerNotCountedTwice ==
  \A p \in Proposal : submitted[p] > 0 => NoRepetition(params[p])

(***************************************************************************)
(* A content kept for collection does not stay for ever when the peers     *)
(* answer: it reaches the threshold, or a Reset or a panic drops it.       *)
(***************************************************************************)
ContentsResolved ==
  \A p \in Proposal : contents[TxHash[p]] = p ~> contents[TxHash[p]] # p
=============================================================================
