---------------------------- MODULE ProposalCheck ----------------------------
(***************************************************************************)
(* The transactions of one side chain that spend the coins of its bank on  *)
(* the main chain: what the arbiter on duty builds, what another arbiter   *)
(* checks before it signs, and what the main chain then does.              *)
(*                                                                         *)
(* The two arbiters compute the same amounts from different sources.  The  *)
(* builder uses the rows of its table, in which the scan left out what it  *)
(* could not pay.  The checker uses its own rows if they answer for every  *)
(* hash, and its side chain node otherwise.  The form of a withdraw        *)
(* depends on the height of its builder, the check on that of the checker. *)
(* The payload of a withdraw of form V0 has the version of the later form, *)
(* which decides on the wire whether its list of burns is written, and     *)
(* after the submission sends the handler to the outputs for the side      *)
(* chain, where it panics.                                                 *)
(*                                                                         *)
(* The main chain, the side chain and its nodes are external.  Gathering   *)
(* signatures is SignCollection and SchnorrCollection, the interleaving of *)
(* the goroutines that move rows and calls that fail are WithdrawFlow;     *)
(* here one checker stands for the quorum, and sending cached rows is one  *)
(* step.                                                                   *)
(*                                                                         *)
(* The tables give their rows in the order of their Ids.  Here the rows    *)
(* are sets, so that any order is possible, and the outputs of a           *)
(* transaction are a function from the asset, or the row, each pays.       *)
(*                                                                         *)
(* ReturnDepositTransactions has no unique key: a deposit has a row for    *)
(* every time the scan passed over the block in which it failed, and a     *)
(* return has an output for every row.  No one on the way looks whether a  *)
(* deposit is named twice; whether the main chain does is left open.       *)
(***************************************************************************)
EXTENDS Integers, Sequences, FiniteSets, Functions

CONSTANTS
  Burn,          \* transactions of the side chain that burn coins
  Deposit,       \* deposits that failed on the side chain
  DepositFrom,   \* the address the first input of a deposit refers to
  Worlds,        \* records of an ExchangeRate, a whole number the same at both
                 \* arbiters, the assets of each burn, the outputs of each deposit,
                 \* and whether a payload of version V1 is written with its list
  Address,       \* addresses of users; a target on a side chain is left out of
                 \* the outputs and of the rows alike, and so of Worlds
  Frozen,        \* FrozenAddresses, the same at both arbiters
  Malformed,     \* addresses that do not parse
  Bank,          \* GenesisBlockAddress: the address of the side chain
  None,
  MinFee,        \* MinCrossChainTxFee
  ReturnFee,     \* ReturnDepositTransactionFee
  Step,          \* a proposal is built for 100, 200, ... rows
  MaxOuts,       \* how many outputs fit into one transaction
  MaxLag,        \* bound: how many eras one arbiter is behind the other
  MaxScans,      \* bound: how often the scan enters a failed deposit
  Funds          \* the coins of the bank at first, a sequence of values

\* What outputs, a sequence, put into the bank: those the payload lists, as
\* the scan reads a deposit, or all, as the check does.
ListedSum(outs) ==
  SumFunction([i \in DOMAIN outs |-> IF outs[i].to = Bank /\ outs[i].listed
                                    THEN outs[i].value ELSE 0])
BankSum(outs) ==
  SumFunction([i \in DOMAIN outs |-> IF outs[i].to = Bank THEN outs[i].value ELSE 0])

\* Of an asset, amount leaves the side chain and cross reaches the address.
\* The main chain takes no deposit that does not exceed the fee of its return.
ASSUME CheckAssumption ==
  /\ IsFiniteSet(Burn) /\ IsFiniteSet(Deposit) /\ Burn \cap Deposit = {}
  /\ None \notin Burn \cup Deposit
  /\ \A w \in Worlds : w.rate \in Nat \ {0} /\ w.listSent \in BOOLEAN
  /\ \A w \in Worlds : \A b \in Burn :
       w.burnt[b] \in Seq([to : Address, amount : Nat, cross : Nat])
  /\ \A w \in Worlds : \A d \in Deposit :
       /\ w.deposited[d] \in Seq([to : {Bank, None}, value : Nat, listed : BOOLEAN])
       /\ ReturnFee < ListedSum(w.deposited[d])
  /\ DepositFrom \in [Deposit -> Address]
  /\ Frozen \cup Malformed \subseteq Address
  /\ MinFee \in Nat \ {0} /\ ReturnFee \in Nat
  /\ Step \in Nat \ {0} /\ MaxOuts \in Nat /\ MaxLag \in Nat
  /\ MaxScans \in Nat \ {0}
  /\ Funds \in Seq(Nat)

VARIABLES
  rate,       \* ExchangeRate
  burnt,      \* the assets of each burn, as the side chain reports them
  deposited,  \* the outputs of each failed deposit, as the main chain has them
  listSent,   \* the list of a V0 payload reaches the other arbiters
  eras,       \* 0, 1 from NewCrossChainTransactionHeight, 2 from SchnorrStartHeight
  ownRows,    \* SideChainTxs of the builder
  returnRows, \* its ReturnDepositTransactions: <<deposit, n>>, the n-th row it got
  mainRows,   \* failed deposits that still have a row in its MainChainTxs
  peerRows,   \* SideChainTxs of the checker
  peerNode,   \* burns and failed deposits its side chain node reports
  proposals,  \* transactions that gather signatures
  signed,     \* those the checker signed
  coins,      \* the coins the bank ever had
  spent,      \* those spent, by index
  paid,       \* burns in a transaction of the main chain
  returned,   \* rows of failed deposits in one
  received,   \* what each address got
  entered,    \* history: how many rows each failed deposit got
  unseen      \* history: deposits in a return whose check was cut short

given    == <<rate, burnt, deposited, listSent>>
arbiters == <<eras, ownRows, returnRows, entered, mainRows, peerRows, peerNode>>
ledger   == <<coins, spent, paid, returned, received>>
checkVars == <<given, arbiters, proposals, signed, ledger, unseen>>

Near(es) == es["own"] - es["peer"] \in -MaxLag..MaxLag

CheckInit ==
  /\ \E w \in Worlds : /\ rate = w.rate /\ burnt = w.burnt
                       /\ deposited = w.deposited /\ listSent = w.listSent
  /\ eras \in [{"own", "peer"} -> 0..2] /\ Near(eras)
  /\ ownRows = {} /\ returnRows = {} /\ mainRows = Deposit
  /\ entered = [d \in Deposit |-> 0]
  /\ peerRows = {} /\ peerNode = {}
  /\ proposals = {} /\ signed = {}
  /\ coins = Funds /\ spent = {} /\ paid = {} /\ returned = {}
  /\ received = [a \in Address |-> 0]
  /\ unseen = {}

-----------------------------------------------------------------------------
(***************************************************************************)
(* Amounts.                                                                *)
(***************************************************************************)
\* Fixed64(float64(amount) / exchangeRate): the fraction is cut off.
Value(amount) == amount \div rate

\* The assets in the row of b: processTransactions leaves out the others.
RowOf(b) == {i \in DOMAIN burnt[b] : burnt[b][i].to \notin Frozen \cup Malformed}

\* parseUserWithdrawTransactions: the assets in the rows of bs, each with its burn.
Parse(bs) == UNION {{b} \X RowOf(b) : b \in bs}
Asset(w)  == burnt[w[1]][w[2]]

\* What the outputs and their fees take from the bank.
Taken(bs) == SumFunction([w \in Parse(bs) |-> Value(Asset(w).amount)])

\* What a failed deposit put into the bank, as the scan and as the check read it.
ScannedAmount(d) == ListedSum(deposited[d])
DepositAmount(d) == BankSum(deposited[d])

Row            == Deposit \X (1..MaxScans)
DepositsOf(rs) == {r[1] : r \in rs}

\* What the returns of the rows rs take from the bank.
TakenBack(rs) == SumFunction([r \in rs |-> Value(ScannedAmount(r[1]))])

-----------------------------------------------------------------------------
(***************************************************************************)
(* The two scans, and the heights.                                         *)
(***************************************************************************)
OwnScans(b) ==
  /\ b \notin ownRows /\ RowOf(b) # {}
  /\ ownRows' = ownRows \cup {b}
  /\ UNCHANGED <<given, eras, returnRows, entered, mainRows, peerRows, peerNode,
                 proposals, signed, ledger, unseen>>

\* A block may be scanned again, after a crash or on another branch.
OwnScansFailed(d) ==
  /\ entered[d] < MaxScans
  /\ entered' = [entered EXCEPT ![d] = @ + 1]
  /\ returnRows' = returnRows \cup {<<d, entered[d] + 1>>}
  /\ UNCHANGED <<given, eras, ownRows, mainRows, peerRows, peerNode,
                 proposals, signed, ledger, unseen>>

PeerNodeSyncs(x) ==
  /\ x \notin peerNode
  /\ peerNode' = peerNode \cup {x}
  /\ UNCHANGED <<given, eras, ownRows, returnRows, entered, mainRows, peerRows,
                 proposals, signed, ledger, unseen>>

PeerScans(b) ==
  /\ b \in peerNode \ peerRows /\ RowOf(b) # {}
  /\ peerRows' = peerRows \cup {b}
  /\ UNCHANGED <<given, eras, ownRows, returnRows, entered, mainRows, peerNode,
                 proposals, signed, ledger, unseen>>

\* CheckAndRemoveWithdrawTransactionsFromDB at the checker.
PeerRemoves ==
  /\ peerRows \cap paid # {}
  /\ peerRows' = peerRows \ paid
  /\ UNCHANGED <<given, eras, ownRows, returnRows, entered, mainRows, peerNode,
                 proposals, signed, ledger, unseen>>

\* The rows of deposits the main chain has not returned: removal is by hash.
Unreturned == {r \in returnRows : r[1] \notin DepositsOf(returned)}

\* CheckAndRemoveReturnDepositTransactionsFromDB at the builder.
RemoveReturned ==
  /\ Unreturned # returnRows
  /\ returnRows' = Unreturned
  /\ UNCHANGED <<given, eras, ownRows, entered, mainRows, peerRows, peerNode,
                 proposals, signed, ledger, unseen>>

NewEra(who) ==
  /\ eras[who] < 2
  /\ eras' = [eras EXCEPT ![who] = @ + 1] /\ Near(eras')
  /\ UNCHANGED <<given, ownRows, returnRows, entered, mainRows, peerRows, peerNode,
                 proposals, signed, ledger, unseen>>

-----------------------------------------------------------------------------
(***************************************************************************)
(* Building.                                                               *)
(***************************************************************************)
Unspent == DOMAIN coins \ spent
CoinSum(S) == SumFunctionOnSet(coins, S)

\* The inputs for a total: coins are taken until they cover it.
Covers(total) ==
  {S \in SUBSET Unspent :
     CoinSum(S) >= total /\ \E c \in S : CoinSum(S \ {c}) < total}

\* Mutant of Change: the rest is not given back.
NoChange(total, S) == 0

\* The rest goes back to the bank in an output, if there is a rest.
Change(total, S) == CoinSum(S) - total

\* The filter of CreateAndBroadcastWithdrawProposal.
Sendable(b) ==
  \A i \in RowOf(b) :
    LET a == burnt[b][i]
    IN  a.cross > 0 /\ a.amount - a.cross >= MinFee

\* The form of a withdraw at the height of the builder.
Form == CASE eras["own"] = 0 -> "V0" [] eras["own"] = 1 -> "V1" [] eras["own"] = 2 -> "V2"

\* Mutant of Outputs: the fee is paid out too.
OutputsOfAmount(bs) ==
  [w \in Parse(bs) |-> [to |-> Asset(w).to, value |-> Value(Asset(w).amount),
                        of |-> IF Form = "V0" THEN None ELSE w[1]]]

\* An output per asset.  From V1 on it names the burn, before the payload does.
Outputs(bs) ==
  [w \in Parse(bs) |-> [to |-> Asset(w).to, value |-> Value(Asset(w).cross),
                        of |-> IF Form = "V0" THEN None ELSE w[1]]]

\* CreateWithdrawTransactionV0, V1 and CreateSchnorrWithdrawTransaction.
CreateWithdraw(bs, S) ==
  [form   |-> Form, ins |-> S,
   outs   |-> Outputs(bs), change |-> Change(Taken(bs), S),
   hashes |-> IF Form = "V0" THEN [w \in Parse(bs) |-> w[1]] ELSE <<>>]

\* CreateFailedDepositTransaction: an output per row.  The fee of the return
\* is not taken from the bank's coins by an output, and the rate divides both.
CreateReturn(rs, S) ==
  [form   |-> "return", ins |-> S,
   outs   |-> [r \in rs |-> [to |-> DepositFrom[r[1]],
                             value |-> Value(ScannedAmount(r[1]) - ReturnFee),
                             of |-> r[1]]],
   change |-> Change(TakenBack(rs), S),
   hashes |-> <<>>]

\* The numbers of rows a transaction is built for.
Tried(S, rows) == Cardinality(S) % Step = 0 \/ S = rows

\* Of the prefixes of rows that are tried, in some order, the longest for
\* which there are coins and room (fits); {} if there is none.
Longest(rows, fits) ==
  {S \in fits :
     /\ Tried(S, rows)
     /\ \/ S = rows
        \/ \E T \in SUBSET rows \ fits :
             /\ S \subseteq T /\ Tried(T, rows)
             /\ Cardinality(T) <= Cardinality(S) + Step}

Pending(forms) == \E p \in proposals : p.form \in forms

\* SendCachedWithdrawTxs: propose what the main chain does not have, remove
\* what it has.
SendCachedWithdrawTxs ==
  LET rows == {b \in ownRows \ paid : Sendable(b)}
      fits == {bs \in SUBSET rows : /\ Taken(bs) <= CoinSum(Unspent)
                                    /\ Cardinality(Parse(bs)) <= MaxOuts}
  IN  /\ ~Pending({"V0", "V1", "V2"})
      /\ \/ \E bs \in Longest(rows, fits) \ {{}} : \E S \in Covers(Taken(bs)) :
              proposals' = proposals \cup {CreateWithdraw(bs, S)}
         \/ /\ {} \in Longest(rows, fits) /\ ownRows \cap paid # {}
            /\ UNCHANGED proposals
      /\ ownRows' = ownRows \ paid
      /\ UNCHANGED <<given, eras, returnRows, entered, mainRows, peerRows, peerNode,
                     signed, ledger, unseen>>

\* SendCachedReturnDepositTxs: nothing is removed if the proposal fails.
SendCachedReturnDepositTxs ==
  LET fits == {rs \in SUBSET Unreturned : /\ TakenBack(rs) <= CoinSum(Unspent)
                                          /\ Cardinality(rs) <= MaxOuts}
  IN  /\ ~Pending({"return"})
      /\ \/ \E rs \in Longest(Unreturned, fits) \ {{}} : \E S \in Covers(TakenBack(rs)) :
              proposals' = proposals \cup {CreateReturn(rs, S)}
         \/ /\ Unreturned = {} /\ returnRows # {}
            /\ UNCHANGED proposals
      /\ returnRows' = Unreturned
      /\ UNCHANGED <<given, eras, ownRows, entered, mainRows, peerRows, peerNode,
                     signed, ledger, unseen>>

\* Reset, at the next duty.
Reset ==
  /\ proposals # {}
  /\ proposals' = {} /\ signed' = {}
  /\ UNCHANGED <<given, arbiters, ledger, unseen>>

-----------------------------------------------------------------------------
(***************************************************************************)
(* Checking.                                                               *)
(***************************************************************************)
\* GetSideChainTxsFromHashes answers with one row for each hash it knows,
\* and is believed if it gave as many as were asked for.
RowsAnswer(hashes) == Cardinality(Range(hashes) \cap peerRows) = Cardinality(DOMAIN hashes)

\* The rows answer, or the node knows every one.
Known(hashes) == RowsAnswer(hashes) \/ Range(hashes) \subseteq peerNode

\* The assets the checker finds: the rows of the burns, or what the node
\* says, asked once for each hash.
Owed(hashes) ==
  IF RowsAnswer(hashes)
  THEN [w \in Parse(Range(hashes)) |-> Asset(w)]
  ELSE [x \in UNION {{w} \X DOMAIN burnt[hashes[w]] : w \in DOMAIN hashes}
          |-> burnt[hashes[x[1]]][x[2]]]

NoneFrozen(as) == \A x \in DOMAIN as : as[x].to \notin Frozen

To(a, f)   == {x \in DOMAIN f : f[x].to = a}
Targets(f) == {f[x].to : x \in DOMAIN f}

\* The common end of the checks of a withdraw: inputs pay for outputs and
\* fees, and every target gets what is owed to it.
AmountsAgree(p, as) ==
  /\ \A x \in DOMAIN as : as[x].amount > 0 /\ as[x].cross >= 0 /\ as[x].cross < as[x].amount
  /\ CoinSum(p.ins) = SumFunction([x \in DOMAIN p.outs |-> p.outs[x].value]) + p.change
                      + SumFunction([x \in DOMAIN as |-> Value(as[x].amount - as[x].cross)])
  /\ Cardinality(DOMAIN as) = Cardinality(DOMAIN p.outs)
  /\ Targets(as) = Targets(p.outs)
  /\ \A a \in Targets(as) :
       Value(SumFunction([x \in To(a, as) |-> as[x].cross]))
         = SumFunction([x \in To(a, p.outs) |-> p.outs[x].value])
  /\ SumFunction([x \in DOMAIN as |-> Value(as[x].cross)])
       = SumFunction([x \in DOMAIN p.outs |-> p.outs[x].value])

\* checkWithdrawFromSidechainPayload.  Frozen addresses are looked for only
\* in what the node says; a payload without its list has no side chain either.
V0Agrees(p) ==
  /\ p.form = "V0" /\ listSent
  /\ Known(p.hashes)
  /\ RowsAnswer(p.hashes) \/ NoneFrozen(Owed(p.hashes))
  /\ AmountsAgree(p, Owed(p.hashes))

\* The hashes in the outputs, one for each.
OutHashes(p) ==
  [x \in {y \in DOMAIN p.outs : p.outs[y].of # None} |-> p.outs[x].of]

\* checkWithdrawFromSideChainPayload.
V1Agrees(p) ==
  /\ DOMAIN OutHashes(p) # {}
  /\ Known(OutHashes(p))
  /\ NoneFrozen(Owed(OutHashes(p)))
  /\ AmountsAgree(p, Owed(OutHashes(p)))

\* Mutant of OutputAgrees: the fee of the return is forgotten.
OutputAgreesNoFee(o) ==
  /\ o.of \in peerNode
  /\ o.value = DepositAmount(o.of)
  /\ o.to = DepositFrom[o.of]

\* The body of the loop of checkReturnDepositTxPayload.
OutputAgrees(o) ==
  /\ o.of \in peerNode
  /\ o.value = DepositAmount(o.of) - ReturnFee
  /\ o.to = DepositFrom[o.of]

\* A withdraw by its form and the height of the checker, a return by its
\* outputs; a Schnorr withdraw comes in a content of its own.
Agrees(p) ==
  CASE p.form = "return" -> \A x \in DOMAIN p.outs : OutputAgrees(p.outs[x])
    [] p.form = "V2"     -> eras["peer"] = 2 /\ V1Agrees(p)
    [] OTHER             -> IF eras["peer"] > 0 THEN V1Agrees(p) ELSE V0Agrees(p)

Check(p) ==
  /\ p \in proposals \ signed
  /\ Agrees(p)
  /\ signed' = signed \cup {p}
  /\ UNCHANGED <<given, arbiters, proposals, ledger, unseen>>

\* The call for the transaction an input refers to fails: the loop ends, and
\* the outputs that are left, here all of them, go unchecked.
CheckCutShort(p) ==
  /\ p \in proposals \ signed /\ p.form = "return"
  /\ \E x \in DOMAIN p.outs : p.outs[x].of \in peerNode
  /\ signed' = signed \cup {p}
  /\ unseen' = unseen \cup Range(OutHashes(p))
  /\ UNCHANGED <<given, arbiters, proposals, ledger>>

-----------------------------------------------------------------------------
(***************************************************************************)
(* The main chain: a transaction spends coins that are there, and settles  *)
(* no burn or deposit that another one has settled.                        *)
(***************************************************************************)
Settles(p)  == Range(p.hashes) \cup Range(OutHashes(p))
Settled     == paid \cup DepositsOf(returned)
FreshCoins(p) == p.ins \cap spent = {}
FreshItems(p) == Settles(p) \cap Settled = {}

\* A return with two outputs for one deposit.
Repeats(p) == p.form = "return" /\ Cardinality(Settles(p)) < Cardinality(DOMAIN p.outs)

\* Submit takes a proposal with its signatures.
Decided(p) ==
  /\ p \in signed
  /\ proposals' = proposals \ {p} /\ signed' = signed \ {p}

\* SubmitReturnSideChainDepositCoin, any answer but a double spend: the rows
\* of the deposits are looked for in MainChainTxs.  SubmitWithdrawTransaction
\* removes the rows the payload lists, which from V1 on are none.
RemoveListed(p) ==
  mainRows' = IF p.form = "return" THEN mainRows \ Settles(p) ELSE mainRows

\* What a transaction does on the main chain.
Takes(p) ==
  /\ FreshCoins(p) /\ FreshItems(p)
  /\ spent' = spent \cup p.ins
  /\ coins' = IF p.change = 0 THEN coins ELSE Append(coins, p.change)
  /\ paid' = paid \cup (Settles(p) \cap Burn)
  /\ returned' = returned \cup (IF p.form = "return" THEN DOMAIN p.outs ELSE {})
  /\ received' = [a \in Address |-> received[a]
                   + SumFunction([x \in To(a, p.outs) |-> p.outs[x].value])]

SubmitTaken(p) ==
  /\ p.form # "V0"
  /\ Decided(p)
  /\ Takes(p)
  /\ RemoveListed(p)
  /\ UNCHANGED <<given, eras, ownRows, returnRows, entered, peerRows, peerNode, unseen>>

\* What it settles is settled already; or the main chain refuses it because
\* it names a deposit twice.
SubmitRefused(p) ==
  /\ p.form # "V0" /\ (~FreshItems(p) \/ Repeats(p))
  /\ Decided(p)
  /\ RemoveListed(p)
  /\ UNCHANGED <<given, eras, ownRows, returnRows, entered, peerRows, peerNode, ledger, unseen>>

\* MCErrDoubleSpend: its coins went into another transaction.
SubmitDoubleSpend(p) ==
  /\ p.form # "V0" /\ ~FreshCoins(p)
  /\ Decided(p)
  /\ UNCHANGED <<given, arbiters, ledger, unseen>>

\* The call fails, before or after the main chain took the transaction, and a
\* log statement reads the answer that is not there; or a V0 withdraw was sent,
\* whatever the answer, and no output names a side chain.  The process dies
\* with its proposals.
SubmitPanics(p) ==
  /\ p \in signed
  /\ Takes(p) \/ UNCHANGED ledger
  /\ proposals' = {} /\ signed' = {}
  /\ UNCHANGED <<given, arbiters, unseen>>

\* A transaction of another arbiter, for one burn or one row of a deposit.
OtherArbiterPays(b) ==
  /\ Len(burnt[b]) = 1 /\ RowOf(b) # {} /\ Sendable(b)
  /\ Form # "V0" \/ listSent
  /\ \E S \in Covers(Taken({b})) : Takes(CreateWithdraw({b}, S))
  /\ UNCHANGED <<given, arbiters, proposals, signed, unseen>>

OtherArbiterReturns(d) ==
  /\ rate = 1 /\ ScannedAmount(d) = DepositAmount(d)
  /\ \E S \in Covers(TakenBack({<<d, 1>>})) : Takes(CreateReturn({<<d, 1>>}, S))
  /\ UNCHANGED <<given, arbiters, proposals, signed, unseen>>

-----------------------------------------------------------------------------
CheckNext ==
  \/ \E b \in Burn : OwnScans(b) \/ PeerScans(b) \/ OtherArbiterPays(b)
  \/ \E d \in Deposit : OwnScansFailed(d) \/ OtherArbiterReturns(d)
  \/ \E x \in Burn \cup Deposit : PeerNodeSyncs(x)
  \/ \E who \in {"own", "peer"} : NewEra(who)
  \/ PeerRemoves \/ RemoveReturned
  \/ SendCachedWithdrawTxs \/ SendCachedReturnDepositTxs \/ Reset
  \/ \E p \in proposals : Check(p) \/ CheckCutShort(p)
  \/ \E p \in proposals : SubmitTaken(p) \/ SubmitRefused(p) \/ SubmitDoubleSpend(p)
                         \/ SubmitPanics(p)

CheckSpec == CheckInit /\ [][CheckNext]_checkVars

-----------------------------------------------------------------------------
(***************************************************************************)
(* Properties.                                                             *)
(***************************************************************************)
\* Cutting off fractions loses nothing of what bs take, be it divided
\* into cross and fee or put together for an address.
NoFraction(bs) ==
  /\ \A w \in Parse(bs) :
       Value(Asset(w).amount) = Value(Asset(w).cross) + Value(Asset(w).amount - Asset(w).cross)
  /\ \A a \in Address :
       LET ws == {w \in Parse(bs) : Asset(w).to = a}
       IN  Value(SumFunction([w \in ws |-> Asset(w).cross]))
             = SumFunction([w \in ws |-> Value(Asset(w).cross)])

\* The check of a withdraw finds wrong no amount of a transaction the
\* builder made of one asset per burn, whatever else it carries, whichever
\* coins it spends, and wherever the checker looks, as long as the exchange
\* rate leaves no fraction.  But a burn with two payable assets is refused,
\* with all it is carried with, and a burn the scan cut down is agreed to only
\* while the checker has the rows of all.  No V0 withdraw is, if its list is
\* not sent.
WithdrawAgreedIff ==
  \A p \in proposals : p.form # "return" =>
    LET bs == Settles(p)
        formKnown == CASE p.form = "V0" -> eras["peer"] = 0 /\ listSent
                       [] p.form = "V1" -> eras["peer"] > 0
                       [] p.form = "V2" -> eras["peer"] = 2
    IN  Agrees(p) <=>
          /\ formKnown
          /\ NoFraction(bs)
          /\ \A b \in bs : Cardinality(RowOf(b)) = 1
          /\ \/ bs \subseteq peerRows
             \/ bs \subseteq peerNode /\ \A b \in bs : Len(burnt[b]) = 1

\* A return the builder made is agreed to by every arbiter whose node knows
\* of the failures, as long as the exchange rate is 1 and the payloads of
\* the deposits list all they sent to the bank; never otherwise.  How often
\* it names a deposit makes no difference.
ReturnAgreedIff ==
  \A p \in proposals : p.form = "return" =>
    (Agrees(p) <=> /\ rate = 1
                   /\ Settles(p) \subseteq peerNode
                   /\ \A d \in Settles(p) : ScannedAmount(d) = DepositAmount(d))

\* What the bank loses by a return, and what the depositor gets: what was
\* deposited, without the fee.  Where a failed call cut the check short
\* it is what the builder made of the row, even if that is not the same.
Lost(d) == IF d \in unseen THEN Value(ScannedAmount(d)) ELSE DepositAmount(d)
Back(d) == IF d \in unseen THEN Value(ScannedAmount(d) - ReturnFee)
           ELSE DepositAmount(d) - ReturnFee

\* The books of the bank: it lost what was burnt and what was deposited in
\* vain and no more, every user got what is due, for a burn once and for a
\* failed deposit once per row, and the rest is still in its coins.  What
\* is returned more than once had as many rows at the builder, and none is
\* paid for twice by two transactions, whoever made them.
BooksBalance ==
  /\ CoinSum(Unspent) = SumFunction(Funds) - Taken(paid)
                        - SumFunction([r \in returned |-> Lost(r[1])])
  /\ \A a \in Address :
       received[a] =
         SumFunction([w \in {w \in Parse(paid) : Asset(w).to = a} |-> Value(Asset(w).cross)])
         + SumFunction([r \in {r \in returned : DepositFrom[r[1]] = a} |-> Back(r[1])])
  /\ \A d \in Deposit :
       LET n == Cardinality({r \in returned : r[1] = d})
       IN  n <= 1 \/ n <= entered[d]
=============================================================================
