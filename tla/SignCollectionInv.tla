--------------------------- MODULE SignCollectionInv ---------------------------
(***************************************************************************)
(* The inductive invariants behind the properties of SignCollection, as    *)
(* conjunctions of named parts.  TLC checks them; SignCollectionProofs     *)
(* proves them.                                                            *)
(***************************************************************************)
EXTENDS SignCollection

(***************************************************************************)
(* While the sync goroutine is inside SyncFromMainNode there is a list.    *)
(***************************************************************************)
SyncHasList == syncPc # "idle" => listAt # None

TypeInv == TypeOK /\ SyncHasList

-----------------------------------------------------------------------------
Held(p) == handler.pc # "idle" /\ handler.prop = p
HeldAt(p, pc) == handler.pc = pc /\ handler.prop = p

\* The server still has its hands on the object: a map or the consumer.
Live(p) == contents[TxHash[p]] = p \/ Held(p)

Unsent == {"none", "spawned", "listed", "created", "signed"}

(***************************************************************************)
(* The life of one object: it enters the map once, from "signed", and only *)
(* an object that has been in the map is ever held or submitted.           *)
(***************************************************************************)
FiledUnderItsHash == \A x \in Hash : contents[x] # None => TxHash[contents[x]] = x

LiveIsSent == \A p \in Proposal : Live(p) => status[p] = "sent"

LiveIsUnsubmitted == \A p \in Proposal : Live(p) => submitted[p] = 0

UnsentIsUnsubmitted == \A p \in Proposal : status[p] \in Unsent => submitted[p] = 0

AgreedIsDeleted == \A p \in Proposal : HeldAt(p, "agreed") => contents[TxHash[p]] # p

OnceInv ==
  /\ TypeInv
  /\ FiledUnderItsHash
  /\ LiveIsSent
  /\ LiveIsUnsubmitted
  /\ UnsentIsUnsubmitted
  /\ AgreedIsDeleted
  /\ SubmittedAtMostOnce

(***************************************************************************)
(* The signatures of one object.  The signer set of a live object covers   *)
(* its parameter, but for the signer merged and not yet recorded; only     *)
(* when Reset has taken the signer set away may a signer be merged again,  *)
(* and then recording him panics.                                          *)
(***************************************************************************)
UnsignedHasNoParameter ==
  \A p \in Proposal : status[p] \in {"none", "spawned", "listed", "created"} => params[p] = <<>>

SignedHasOwnSignature == \A p \in Proposal : status[p] = "signed" => params[p] = <<Self>>

Unrecorded(p) == IF HeldAt(p, "merged") THEN {handler.signer} ELSE {}

SignersCoverParameter ==
  \A p \in Proposal : Nonced(p) /\ Live(p) /\ signs[TxHash[p]] # None
    => Range(params[p]) \subseteq signs[TxHash[p]] \cup Unrecorded(p)

Doomed(p) == HeldAt(p, "merged") /\ signs[TxHash[p]] = None

LiveHasNoRepetition ==
  \A p \in Proposal : Nonced(p) /\ Live(p) /\ ~Doomed(p) => NoRepetition(params[p])

DistinctInv ==
  /\ OnceInv
  /\ UnsignedHasNoParameter
  /\ SignedHasOwnSignature
  /\ SignersCoverParameter
  /\ LiveHasNoRepetition
  /\ NoRepeatedSignerSubmitted

(***************************************************************************)
(* Signers and redeem script: the script of an object is settled before    *)
(* the first signature.                                                    *)
(***************************************************************************)
CodeInv == DistinctInv /\ MergedSignersInCode

(***************************************************************************)
(* The list and the threshold are the same at every height.  A parameter   *)
(* of 64 signatures or more would be counted wrongly.                      *)
(***************************************************************************)
StableQuorum == AgreementCount(GroupAt[0].seats, 0)

StableGroups ==
  /\ \A h \in Height : GroupAt[h].members = GroupAt[0].members
  /\ \A g, h \in Height : AgreementCount(GroupAt[g].seats, h) = StableQuorum
  /\ StableQuorum <= SignatureScriptLength - 1

RunningHasList ==
  /\ \A p \in Proposal :
       status[p] \in {"spawned", "listed", "created", "signed", "sent"} => listAt # None
  /\ handler.pc # "idle" => listAt # None

CreatedHasCode ==
  \A p \in Proposal :
    /\ status[p] \in {"listed", "created", "signed", "sent"} \/ submitted[p] > 0
         => code[p].at # None
    /\ status[p] \in {"created", "signed", "sent"} \/ submitted[p] > 0
         => code[p].m = StableQuorum

SignedByCodeKeys ==
  \A p \in Proposal :
    status[p] \in {"signed", "sent"} \/ submitted[p] > 0 => Range(params[p]) \subseteq CodeKeys(p)

CountedSeats == handler.pc = "counted" => \E h \in Height : handler.seats = GroupAt[h].seats

AgreedHasQuorum ==
  \A p \in Proposal : HeldAt(p, "agreed") \/ submitted[p] > 0
    => SignedCount(params[p]) >= StableQuorum

SpendInv ==
  /\ CodeInv
  /\ RunningHasList
  /\ CreatedHasCode
  /\ SignedByCodeKeys
  /\ CountedSeats
  /\ AgreedHasQuorum

-----------------------------------------------------------------------------
(***************************************************************************)
(* Refinement.  The signers of a transaction are those in its parameter,   *)
(* and it is sent once it is submitted.                                    *)
(***************************************************************************)
Signers == [p \in Proposal |-> Range(params[p])]
SentOff == {p \in Proposal : submitted[p] > 0}

StableQuorums == {A \in SUBSET Arbiter : Cardinality(A) >= StableQuorum}

Collected == INSTANCE QuorumSubmit WITH
  Quorums <- StableQuorums, signers <- Signers, sent <- SentOff

(***************************************************************************)
(* Signature collection implements QuorumSubmit: for transactions with a   *)
(* nonce and one arbiter list, all the messages, maps and resets come down *)
(* to opening, signing once each, and sending once with a quorum.          *)
(***************************************************************************)
ImplementsQuorumSubmit == Collected!Spec

(***************************************************************************)
(* Whatever was signed and not given up before it was sent carries the     *)
(* signature of the arbiter that made it.                                  *)
(***************************************************************************)
OwnSignatureIsIn ==
  \A p \in Proposal :
    status[p] \in {"signed", "sent"} \/ submitted[p] > 0 => Self \in Range(params[p])
=============================================================================
