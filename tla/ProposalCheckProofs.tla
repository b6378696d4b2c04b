------------------------- MODULE ProposalCheckProofs -------------------------
(***************************************************************************)
(* What a checker agrees to, and the books of the bank, for every set of   *)
(* burns and deposits, every world and every order of the steps.           *)
(*                                                                         *)
(* BuildInv says what a proposal is made of while it gathers signatures,   *)
(* whatever happened to the rows it was made of; SignedInv says why a      *)
(* return that is signed takes from the bank what its check computed.      *)
(* Both carry the books through the steps of the main chain.               *)
(***************************************************************************)
EXTENDS ProposalCheck, FiniteLemmas

-----------------------------------------------------------------------------
(***************************************************************************)
(* The invariants.                                                         *)
(***************************************************************************)
\* The chains and the configuration are those of some world.
Given ==
  \E w \in Worlds : /\ rate = w.rate /\ burnt = w.burnt
                    /\ deposited = w.deposited /\ listSent = w.listSent

\* p pays the burns bs: what CreateWithdraw made at some height of the builder.
WithdrawOf(p, bs) ==
  /\ p.form \in {"V0", "V1", "V2"} /\ bs # {}
  /\ \A b \in bs : RowOf(b) # {} /\ Sendable(b)
  /\ p.outs = [w \in Parse(bs) |-> [to |-> Asset(w).to, value |-> Value(Asset(w).cross),
                                    of |-> IF p.form = "V0" THEN None ELSE w[1]]]
  /\ p.hashes = IF p.form = "V0" THEN [w \in Parse(bs) |-> w[1]] ELSE <<>>
  /\ CoinSum(p.ins) = Taken(bs) + p.change

\* p returns the rows rs: what CreateReturn made.
ReturnOf(p, rs) ==
  /\ p.form = "return" /\ rs # {}
  /\ p.outs = [r \in rs |-> [to |-> DepositFrom[r[1]],
                             value |-> Value(ScannedAmount(r[1]) - ReturnFee),
                             of |-> r[1]]]
  /\ p.hashes = <<>>
  /\ CoinSum(p.ins) = TakenBack(rs) + p.change

Built(p) ==
  /\ p.ins \subseteq DOMAIN coins /\ p.change \in Nat
  /\ \/ \E bs \in SUBSET Burn : WithdrawOf(p, bs)
     \/ \E rs \in SUBSET Row : ReturnOf(p, rs)

BuildInv ==
  /\ Given
  /\ eras \in [{"own", "peer"} -> 0..2]
  /\ \A b \in ownRows \cup peerRows : b \in Burn /\ RowOf(b) # {}
  /\ returnRows \subseteq Row
  /\ coins \in Seq(Nat) /\ spent \subseteq DOMAIN coins
  /\ paid \subseteq Burn /\ returned \subseteq Row
  /\ \A p \in proposals : Built(p)
  /\ signed \subseteq proposals

\* The scan entered the row r; other arbiters return first rows.
Counted(r) == r[2] = 1 \/ r[2] <= entered[r[1]]

EnteredInv ==
  /\ entered \in [Deposit -> Nat]
  /\ \A r \in returnRows \cup returned : Counted(r)
  /\ \A p \in proposals : p.form = "return" => \A r \in DOMAIN p.outs : Counted(r)

\* The builder and the checker compute the same for d.
Sound(d) ==
  /\ Value(ScannedAmount(d)) = DepositAmount(d)
  /\ Value(ScannedAmount(d) - ReturnFee) = DepositAmount(d) - ReturnFee

SignedInv ==
  /\ \A p \in signed : p.form = "return" => \A d \in Settles(p) : d \in unseen \/ Sound(d)
  /\ \A r \in returned : r[1] \in unseen \/ Sound(r[1])

\* What a gets for the burns bs, and for the rows rs.
Due(bs, a) ==
  SumFunction([w \in {w \in Parse(bs) : Asset(w).to = a} |-> Value(Asset(w).cross)])
DueBack(rs, a) ==
  SumFunction([r \in {r \in rs : DepositFrom[r[1]] = a}
                 |-> Value(ScannedAmount(r[1]) - ReturnFee)])

\* The books by what the builder makes of its rows.
BooksInv ==
  /\ CoinSum(Unspent) = SumFunction(Funds) - Taken(paid) - TakenBack(returned)
  /\ \A a \in Address : received[a] = Due(paid, a) + DueBack(returned, a)

-----------------------------------------------------------------------------
(***************************************************************************)
(* Amounts.                                                                *)
(***************************************************************************)
\* Whole numbers divided by the rate.
LEMMA Division ==
  ASSUME NEW r \in Nat \ {0}
  PROVE  /\ \A n \in Int : n \div r \in Int
         /\ \A n \in Nat : n \div r \in Nat
         /\ \A n \in Nat : r = 1 => n \div r = n
         /\ \A n \in Nat : r # 1 /\ n > 0 => n \div r < n
  <1>1. \A n \in Int : n \div r \in Int
    OBVIOUS
  <1>2. \A n \in Nat : n \div r \in Nat
    OBVIOUS
  <1>3. \A n \in Nat : r = 1 => n \div r = n
    OBVIOUS
  <1>4. ASSUME NEW n \in Nat, r # 1, n > 0 PROVE n \div r < n
    <2>1. r >= 2
      BY <1>4
    <2>2. QED
      BY <1>4, <2>1
  <1>5. QED
    BY <1>1, <1>2, <1>3, <1>4

\* Cutting off what is smaller than the rate loses nothing or one.
LEMMA DividedApart ==
  ASSUME NEW r \in Nat \ {0}, NEW m \in Nat, NEW n \in Nat
  PROVE  m \div r + n \div r <= (m + n) \div r
  OBVIOUS

\* What the world says of a burn, of its row and of a deposit.
LEMMA GivenTypes ==
  ASSUME Given
  PROVE  /\ rate \in Nat \ {0} /\ listSent \in BOOLEAN
         /\ \A b \in Burn : burnt[b] \in Seq([to : Address, amount : Nat, cross : Nat])
         /\ \A d \in Deposit :
              /\ deposited[d] \in Seq([to : {Bank, None}, value : Nat, listed : BOOLEAN])
              /\ ReturnFee < ScannedAmount(d)
  BY CheckAssumption DEF Given, ScannedAmount

LEMMA ElementOf ==
  ASSUME NEW X, NEW s \in Seq(X), NEW i \in DOMAIN s
  PROVE  s[i] \in X
  OBVIOUS

\* The indices of a burn and of its row.
LEMMA RowFinite ==
  ASSUME Given, NEW b \in Burn
  PROVE  /\ DOMAIN burnt[b] = 1..Len(burnt[b]) /\ Len(burnt[b]) \in Nat
         /\ IsFiniteSet(DOMAIN burnt[b]) /\ IsFiniteSet(RowOf(b))
         /\ RowOf(b) \subseteq DOMAIN burnt[b]
  <1>1. burnt[b] \in Seq([to : Address, amount : Nat, cross : Nat])
    BY GivenTypes
  <1>2. DOMAIN burnt[b] = 1..Len(burnt[b]) /\ Len(burnt[b]) \in Nat
    BY <1>1
  <1>3. IsFiniteSet(DOMAIN burnt[b])
    BY <1>2, FS_Interval
  <1>4. RowOf(b) \subseteq DOMAIN burnt[b]
    BY DEF RowOf
  <1>5. QED
    BY <1>2, <1>3, <1>4, FS_Subset

\* The assets of finitely many burns.
LEMMA BurnTypes ==
  ASSUME Given, NEW bs \in SUBSET Burn
  PROVE  /\ IsFiniteSet(bs) /\ IsFiniteSet(Parse(bs))
         /\ \A w \in Parse(bs) :
              /\ w = <<w[1], w[2]>> /\ w[1] \in bs /\ w[2] \in RowOf(w[1])
              /\ Asset(w) \in [to : Address, amount : Nat, cross : Nat]
         /\ \A b \in bs : \A i \in RowOf(b) : <<b, i>> \in Parse(bs)
  <1>1. IsFiniteSet(bs)
    BY CheckAssumption, FS_Subset
  <1>2. ASSUME NEW b \in bs
        PROVE  IsFiniteSet(RowOf(b)) /\ IsFiniteSet({b}) /\ IsFiniteSet({b} \X RowOf(b))
    BY RowFinite, FS_Singleton, FS_Product
  <1>3. IsFiniteSet(Parse(bs))
    <2> DEFINE pieces == {{b} \X RowOf(b) : b \in bs}
               piece == [b \in bs |-> {b} \X RowOf(b)]
    <2>1. IsFiniteSet(pieces)
      <3>1. piece \in Surjection(bs, pieces)
        BY DEF Surjection
      <3> HIDE DEF pieces, piece
      <3>2. QED
        BY <1>1, <3>1, FS_Surjection
    <2>2. \A T \in pieces : IsFiniteSet(T)
      BY <1>2
    <2>3. Parse(bs) = UNION pieces
      BY DEF Parse
    <2> HIDE DEF pieces
    <2>4. QED
      BY <2>1, <2>2, <2>3, FS_UNION
  <1>4. ASSUME NEW w \in Parse(bs)
        PROVE  /\ w = <<w[1], w[2]>> /\ w[1] \in bs /\ w[2] \in RowOf(w[1])
               /\ Asset(w) \in [to : Address, amount : Nat, cross : Nat]
    <2>1. w = <<w[1], w[2]>> /\ w[1] \in bs /\ w[2] \in RowOf(w[1])
      BY DEF Parse
    <2>2. burnt[w[1]] \in Seq([to : Address, amount : Nat, cross : Nat])
      BY <2>1, GivenTypes
    <2>3. w[2] \in DOMAIN burnt[w[1]]
      BY <2>1 DEF RowOf
    <2>4. burnt[w[1]][w[2]] \in [to : Address, amount : Nat, cross : Nat]
      BY <2>2, <2>3, ElementOf
    <2>5. QED
      BY <2>1, <2>4 DEF Asset
  <1>5. \A b \in bs : \A i \in RowOf(b) : <<b, i>> \in Parse(bs)
    BY DEF Parse
  <1>6. QED
    BY <1>1, <1>3, <1>4, <1>5

\* The assets of two sets of burns.
LEMMA ParseJoins ==
  ASSUME NEW bs, NEW cs
  PROVE  /\ Parse(bs \cup cs) = Parse(bs) \cup Parse(cs)
         /\ bs \cap cs = {} => Parse(bs) \cap Parse(cs) = {}
  <1>1. Parse(bs \cup cs) = Parse(bs) \cup Parse(cs)
    BY DEF Parse
  <1>2. ASSUME bs \cap cs = {}, NEW w \in Parse(bs) \cap Parse(cs) PROVE FALSE
    <2>1. w[1] \in bs /\ w[1] \in cs
      BY DEF Parse
    <2>2. QED
      BY <1>2, <2>1
  <1>3. QED
    BY <1>1, <1>2

\* What two sets of burns take from the bank and bring to an address.
LEMMA BurnsJoin ==
  ASSUME Given, NEW bs \in SUBSET Burn, NEW cs \in SUBSET Burn, bs \cap cs = {}
  PROVE  /\ Taken(bs) \in Nat /\ Taken(cs) \in Nat
         /\ Taken(bs \cup cs) = Taken(bs) + Taken(cs)
         /\ \A a : /\ Due(bs, a) \in Nat /\ Due(cs, a) \in Nat
                   /\ Due(bs \cup cs, a) = Due(bs, a) + Due(cs, a)
  <1>1. bs \cup cs \in SUBSET Burn
    OBVIOUS
  <1>2. /\ IsFiniteSet(Parse(bs)) /\ IsFiniteSet(Parse(cs))
        /\ \A w \in Parse(bs \cup cs) : Asset(w).amount \in Nat /\ Asset(w).cross \in Nat
    BY <1>1, BurnTypes
  <1>3. /\ Parse(bs \cup cs) = Parse(bs) \cup Parse(cs)
        /\ Parse(bs) \cap Parse(cs) = {}
    BY ParseJoins
  <1>4. \A w \in Parse(bs \cup cs) :
          Value(Asset(w).amount) \in Nat /\ Value(Asset(w).cross) \in Nat
    BY <1>2, GivenTypes, Division DEF Value
  <1>5. /\ Taken(bs) \in Nat /\ Taken(cs) \in Nat
        /\ Taken(bs \cup cs) = Taken(bs) + Taken(cs)
    <2> DEFINE e == [w \in Parse(bs) |-> Value(Asset(w).amount)]
               f == [w \in Parse(cs) |-> Value(Asset(w).amount)]
               k == [w \in Parse(bs \cup cs) |-> Value(Asset(w).amount)]
    <2>1. DOMAIN e = Parse(bs) /\ DOMAIN f = Parse(cs) /\ DOMAIN k = Parse(bs) \cup Parse(cs)
      BY <1>3
    <2>2. \A w \in Parse(bs) : e[w] \in Nat /\ k[w] = e[w]
      BY <1>3, <1>4
    <2>3. \A w \in Parse(cs) : f[w] \in Nat /\ k[w] = f[w]
      BY <1>3, <1>4
    <2>4. Taken(bs) = SumFunction(e) /\ Taken(cs) = SumFunction(f)
          /\ Taken(bs \cup cs) = SumFunction(k)
      BY DEF Taken
    <2> HIDE DEF e, f, k
    <2>5. QED
      BY <1>2, <1>3, <2>1, <2>2, <2>3, <2>4, SumJoins
  <1>6. ASSUME NEW a
        PROVE  /\ Due(bs, a) \in Nat /\ Due(cs, a) \in Nat
               /\ Due(bs \cup cs, a) = Due(bs, a) + Due(cs, a)
    <2> DEFINE to(ds) == {w \in Parse(ds) : Asset(w).to = a}
               e == [w \in to(bs) |-> Value(Asset(w).cross)]
               f == [w \in to(cs) |-> Value(Asset(w).cross)]
               k == [w \in to(bs \cup cs) |-> Value(Asset(w).cross)]
    <2>1. /\ IsFiniteSet(to(bs)) /\ IsFiniteSet(to(cs))
          /\ to(bs) \cap to(cs) = {} /\ to(bs \cup cs) = to(bs) \cup to(cs)
          /\ to(bs \cup cs) \subseteq Parse(bs \cup cs)
      <3>1. to(bs) \in SUBSET Parse(bs) /\ to(cs) \in SUBSET Parse(cs)
        OBVIOUS
      <3>2. IsFiniteSet(to(bs)) /\ IsFiniteSet(to(cs))
        <4> HIDE DEF to
        <4>1. QED
          BY <1>2, <3>1, FS_Subset
      <3>3. QED
        BY <1>3, <3>2
    <2>2. Due(bs, a) = SumFunction(e) /\ Due(cs, a) = SumFunction(f)
          /\ Due(bs \cup cs, a) = SumFunction(k)
      BY DEF Due
    <2> HIDE DEF to
    <2>3. DOMAIN e = to(bs) /\ DOMAIN f = to(cs) /\ DOMAIN k = to(bs) \cup to(cs)
      BY <2>1
    <2>4. \A w \in to(bs) : e[w] \in Nat /\ k[w] = e[w]
      BY <1>4, <2>1
    <2>5. \A w \in to(cs) : f[w] \in Nat /\ k[w] = f[w]
      BY <1>4, <2>1
    <2> HIDE DEF e, f, k
    <2>6. QED
      BY <2>1, <2>2, <2>3, <2>4, <2>5, SumJoins
  <1>7. QED
    BY <1>5, <1>6

\* What the scan and the check read of a deposit.
LEMMA DepositAmounts ==
  ASSUME Given, NEW d \in Deposit
  PROVE  /\ ScannedAmount(d) \in Nat /\ DepositAmount(d) \in Nat
         /\ ScannedAmount(d) <= DepositAmount(d)
         /\ ReturnFee \in Nat /\ ReturnFee < ScannedAmount(d)
         /\ Value(ScannedAmount(d)) \in Nat /\ Value(ScannedAmount(d) - ReturnFee) \in Nat
  <1> DEFINE outs == deposited[d]
             S == DOMAIN outs
             e == [i \in DOMAIN outs |-> IF outs[i].to = Bank /\ outs[i].listed
                                         THEN outs[i].value ELSE 0]
             f == [i \in DOMAIN outs |-> IF outs[i].to = Bank THEN outs[i].value ELSE 0]
             Out == [to : {Bank, None}, value : Nat, listed : BOOLEAN]
  <1>1. outs \in Seq(Out)
    BY GivenTypes
  <1>2. IsFiniteSet(S)
    <2>1. S = 1..Len(outs) /\ Len(outs) \in Nat
      <3> HIDE DEF Out
      <3>1. QED
        BY <1>1
    <2>2. QED
      BY <2>1, FS_Interval
  <1>3. \A i \in S : outs[i] \in Out
    <2> HIDE DEF Out
    <2>1. QED
      BY <1>1, ElementOf
  <1>4. \A i \in S : e[i] \in Nat /\ f[i] \in Nat /\ e[i] \in Int /\ f[i] \in Int /\ e[i] <= f[i]
    <2>1. \A i \in S : outs[i].value \in Nat
      BY <1>3
    <2> HIDE DEF Out
    <2>2. QED
      BY <2>1
  <1>5. ScannedAmount(d) = SumFunctionOnSet(e, S)
    BY DEF ScannedAmount, ListedSum, SumFunction
  <1>6. DepositAmount(d) = SumFunctionOnSet(f, S)
    BY DEF DepositAmount, BankSum, SumFunction
  <1> HIDE DEF S, e, f
  <1>7. SumFunctionOnSet(e, S) \in Nat /\ SumFunctionOnSet(f, S) \in Nat
    BY <1>2, <1>4, SumNat
  <1>8. SumFunctionOnSet(e, S) <= SumFunctionOnSet(f, S)
    BY <1>2, <1>4, SumLeq
  <1>9. ReturnFee \in Nat /\ ReturnFee < ScannedAmount(d)
    BY CheckAssumption, GivenTypes
  <1>10. ScannedAmount(d) \in Nat /\ ScannedAmount(d) - ReturnFee \in Nat
    BY <1>5, <1>7, <1>9
  <1>11. Value(ScannedAmount(d)) \in Nat /\ Value(ScannedAmount(d) - ReturnFee) \in Nat
    BY <1>10, GivenTypes, Division DEF Value
  <1>12. QED
    BY <1>5, <1>6, <1>7, <1>8, <1>9, <1>10, <1>11

\* Finitely many rows, each of a deposit.
LEMMA RowTypes ==
  /\ IsFiniteSet(Row)
  /\ \A r \in Row : r[1] \in Deposit /\ r[2] \in 1..MaxScans /\ r = <<r[1], r[2]>>
  <1>1. IsFiniteSet(1..MaxScans) /\ IsFiniteSet(Deposit)
    BY CheckAssumption, FS_Interval
  <1>2. IsFiniteSet(Deposit \X (1..MaxScans))
    BY <1>1, FS_Product
  <1>3. \A r \in Row : r[1] \in Deposit /\ r[2] \in 1..MaxScans /\ r = <<r[1], r[2]>>
    BY DEF Row
  <1>4. QED
    BY <1>2, <1>3 DEF Row

\* What the returns of two sets of rows take from the bank and bring to
\* an address.
LEMMA RowsJoin ==
  ASSUME Given, NEW rs \in SUBSET Row, NEW ts \in SUBSET Row, rs \cap ts = {}
  PROVE  /\ TakenBack(rs) \in Nat /\ TakenBack(ts) \in Nat
         /\ TakenBack(rs \cup ts) = TakenBack(rs) + TakenBack(ts)
         /\ \A a : /\ DueBack(rs, a) \in Nat /\ DueBack(ts, a) \in Nat
                   /\ DueBack(rs \cup ts, a) = DueBack(rs, a) + DueBack(ts, a)
  <1>1. IsFiniteSet(rs) /\ IsFiniteSet(ts)
    BY RowTypes, FS_Subset
  <1>2. \A r \in rs \cup ts :
          Value(ScannedAmount(r[1])) \in Nat /\ Value(ScannedAmount(r[1]) - ReturnFee) \in Nat
    BY RowTypes, DepositAmounts
  <1>3. /\ TakenBack(rs) \in Nat /\ TakenBack(ts) \in Nat
        /\ TakenBack(rs \cup ts) = TakenBack(rs) + TakenBack(ts)
    <2> DEFINE e == [r \in rs |-> Value(ScannedAmount(r[1]))]
               f == [r \in ts |-> Value(ScannedAmount(r[1]))]
               k == [r \in rs \cup ts |-> Value(ScannedAmount(r[1]))]
    <2>1. DOMAIN e = rs /\ DOMAIN f = ts /\ DOMAIN k = rs \cup ts
      OBVIOUS
    <2>2. \A r \in rs : e[r] \in Nat /\ k[r] = e[r]
      BY <1>2
    <2>3. \A r \in ts : f[r] \in Nat /\ k[r] = f[r]
      BY <1>2
    <2>4. TakenBack(rs) = SumFunction(e) /\ TakenBack(ts) = SumFunction(f)
          /\ TakenBack(rs \cup ts) = SumFunction(k)
      BY DEF TakenBack
    <2> HIDE DEF e, f, k
    <2>5. /\ SumFunction(e) \in Nat /\ SumFunction(f) \in Nat
          /\ SumFunction(k) = SumFunction(e) + SumFunction(f)
      <3>1. rs \cap ts = {}
        OBVIOUS
      <3>2. QED
        BY <1>1, <2>1, <2>2, <2>3, <3>1, SumJoins
    <2>6. QED
      BY <2>4, <2>5
  <1>4. ASSUME NEW a
        PROVE  /\ DueBack(rs, a) \in Nat /\ DueBack(ts, a) \in Nat
               /\ DueBack(rs \cup ts, a) = DueBack(rs, a) + DueBack(ts, a)
    <2> DEFINE to(cs) == {r \in cs : DepositFrom[r[1]] = a}
               e == [r \in to(rs) |-> Value(ScannedAmount(r[1]) - ReturnFee)]
               f == [r \in to(ts) |-> Value(ScannedAmount(r[1]) - ReturnFee)]
               k == [r \in to(rs \cup ts) |-> Value(ScannedAmount(r[1]) - ReturnFee)]
    <2>1. /\ to(rs) \in SUBSET rs /\ to(ts) \in SUBSET ts
          /\ to(rs) \cap to(ts) = {} /\ to(rs \cup ts) = to(rs) \cup to(ts)
      <3>1. to(rs) \in SUBSET rs /\ to(ts) \in SUBSET ts
        OBVIOUS
      <3>2. to(rs) \cap to(ts) = {}
        OBVIOUS
      <3>3. to(rs \cup ts) = to(rs) \cup to(ts)
        OBVIOUS
      <3>4. QED
        BY <3>1, <3>2, <3>3
    <2>2. DueBack(rs, a) = SumFunction(e) /\ DueBack(ts, a) = SumFunction(f)
          /\ DueBack(rs \cup ts, a) = SumFunction(k)
      BY DEF DueBack
    <2> HIDE DEF to
    <2>3. IsFiniteSet(to(rs)) /\ IsFiniteSet(to(ts))
      BY <1>1, <2>1, FS_Subset
    <2>4. DOMAIN e = to(rs) /\ DOMAIN f = to(ts) /\ DOMAIN k = to(rs) \cup to(ts)
      BY <2>1
    <2>5. \A r \in to(rs) : e[r] \in Nat /\ k[r] = e[r]
      BY <1>2, <2>1
    <2>6. \A r \in to(ts) : f[r] \in Nat /\ k[r] = f[r]
      BY <1>2, <2>1
    <2> HIDE DEF e, f, k
    <2>7. /\ SumFunction(e) \in Nat /\ SumFunction(f) \in Nat
          /\ SumFunction(k) = SumFunction(e) + SumFunction(f)
      <3>1. to(rs) \cap to(ts) = {}
        BY <2>1
      <3>2. QED
        BY <2>3, <2>4, <2>5, <2>6, <3>1, SumJoins
    <2>8. QED
      BY <2>2, <2>7
  <1>5. QED
    BY <1>3, <1>4

-----------------------------------------------------------------------------
(***************************************************************************)
(* Coins.                                                                  *)
(***************************************************************************)
\* Any of finitely many coins.
LEMMA CoinTypes ==
  ASSUME coins \in Seq(Nat), NEW S \in SUBSET DOMAIN coins
  PROVE  /\ IsFiniteSet(S) /\ CoinSum(S) \in Nat
         /\ \A c \in DOMAIN coins : coins[c] \in Nat
  <1>1. DOMAIN coins = 1..Len(coins) /\ Len(coins) \in Nat
    OBVIOUS
  <1>2. IsFiniteSet(S)
    <2>1. IsFiniteSet(DOMAIN coins)
      BY <1>1, FS_Interval
    <2>2. QED
      BY <2>1, FS_Subset
  <1>3. \A c \in DOMAIN coins : coins[c] \in Nat
    OBVIOUS
  <1>4. CoinSum(S) \in Nat
    <2>1. \A c \in S : coins[c] \in Nat
      BY <1>3
    <2>2. SumFunctionOnSet(coins, S) \in Nat
      BY <1>2, <2>1, SumNat
    <2>3. QED
      BY <2>2 DEF CoinSum
  <1>5. QED
    BY <1>2, <1>3, <1>4

\* A coin more leaves the values of the others as they were.
LEMMA CoinAdded ==
  ASSUME coins \in Seq(Nat), NEW change \in Nat,
         coins' = IF change = 0 THEN coins ELSE Append(coins, change)
  PROVE  /\ coins' \in Seq(Nat) /\ DOMAIN coins \subseteq DOMAIN coins'
         /\ DOMAIN coins' = IF change = 0 THEN DOMAIN coins ELSE DOMAIN coins \cup {Len(coins) + 1}
         /\ change # 0 => coins'[Len(coins) + 1] = change /\ Len(coins) + 1 \notin DOMAIN coins
         /\ \A S \in SUBSET DOMAIN coins : CoinSum(S)' = CoinSum(S)
  <1>1. /\ coins' \in Seq(Nat) /\ DOMAIN coins \subseteq DOMAIN coins'
        /\ DOMAIN coins' = IF change = 0 THEN DOMAIN coins ELSE DOMAIN coins \cup {Len(coins) + 1}
        /\ change # 0 => coins'[Len(coins) + 1] = change /\ Len(coins) + 1 \notin DOMAIN coins
        /\ \A c \in DOMAIN coins : coins'[c] = coins[c]
    <2>1. DOMAIN coins = 1..Len(coins) /\ Len(coins) \in Nat
      OBVIOUS
    <2>2. CASE change = 0
      BY <2>2
    <2>3. CASE change # 0
      <3>1. /\ coins' \in Seq(Nat) /\ Len(coins') = Len(coins) + 1
            /\ \A c \in 1..Len(coins) : coins'[c] = coins[c]
            /\ coins'[Len(coins) + 1] = change
        BY <2>3
      <3>2. DOMAIN coins' = 1..(Len(coins) + 1)
        BY <3>1
      <3>3. 1..(Len(coins) + 1) = (1..Len(coins)) \cup {Len(coins) + 1}
        BY <2>1
      <3>4. Len(coins) + 1 \notin 1..Len(coins)
        BY <2>1
      <3>5. QED
        BY <2>1, <2>3, <3>1, <3>2, <3>3, <3>4
    <2>4. QED
      BY <2>2, <2>3
  <1>2. ASSUME NEW S \in SUBSET DOMAIN coins PROVE CoinSum(S)' = CoinSum(S)
    <2>1. IsFiniteSet(S) /\ \A c \in S : coins[c] \in Int /\ coins'[c] = coins[c]
      BY <1>1, CoinTypes
    <2>2. SumFunctionOnSet(coins', S) = SumFunctionOnSet(coins, S)
      BY <2>1, SumEqual
    <2>3. QED
      BY <2>2 DEF CoinSum
  <1>3. QED
    BY <1>1, <1>2

\* The burns of the assets in rows: no burn is missing, and each is there
\* once if the rows have one asset.
LEMMA FirstsAre ==
  ASSUME Given, NEW bs \in SUBSET Burn, \A b \in bs : RowOf(b) # {}
  PROVE  LET firsts == [w \in Parse(bs) |-> w[1]]
         IN  /\ Range(firsts) = bs
             /\ firsts \in Surjection(Parse(bs), bs)
             /\ firsts \in Injection(Parse(bs), bs)
                  <=> \A b \in bs : Cardinality(RowOf(b)) = 1
  <1> DEFINE firsts == [w \in Parse(bs) |-> w[1]]
             W == Parse(bs)
  <1>1. /\ \A w \in W : w = <<w[1], w[2]>> /\ w[1] \in bs /\ w[2] \in RowOf(w[1])
        /\ \A b \in bs : \A i \in RowOf(b) : <<b, i>> \in W
    BY BurnTypes
  <1>2. DOMAIN firsts = W /\ firsts \in [W -> bs] /\ \A w \in W : firsts[w] = w[1]
    BY <1>1
  <1>3. ASSUME NEW b \in bs PROVE \E w \in W : firsts[w] = b
    <2>1. PICK i \in RowOf(b) : TRUE
      OBVIOUS
    <2>2. <<b, i>> \in W /\ <<b, i>>[1] = b
      BY <1>1, <2>1
    <2> HIDE DEF W, firsts
    <2>3. firsts[<<b, i>>] = b
      BY <1>2, <2>2
    <2>4. QED
      BY <2>2, <2>3
  <1> HIDE DEF W, firsts
  <1>4. Range(firsts) = bs
    BY <1>2, <1>3 DEF Range
  <1>5. firsts \in Surjection(W, bs)
    BY <1>2, <1>3 DEF Surjection
  <1>6. ASSUME firsts \in Injection(W, bs), NEW b \in bs
        PROVE  Cardinality(RowOf(b)) = 1
    <2>1. \A v, w \in W : firsts[v] = firsts[w] => v = w
      BY <1>6 DEF Injection, IsInjective
    <2>2. PICK i \in RowOf(b) : TRUE
      OBVIOUS
    <2>3. ASSUME NEW j \in RowOf(b) PROVE j = i
      <3>1. /\ <<b, i>> \in W /\ <<b, j>> \in W
            /\ <<b, i>>[1] = b /\ <<b, j>>[1] = b
        BY <1>1, <2>2, <2>3
      <3>2. firsts[<<b, i>>] = firsts[<<b, j>>]
        BY <1>2, <3>1
      <3>3. <<b, i>> = <<b, j>>
        BY <2>1, <3>1, <3>2
      <3>4. QED
        BY <3>3
    <2>4. RowOf(b) = {i}
      BY <2>2, <2>3
    <2>5. QED
      BY <2>4, FS_Singleton
  <1>7. ASSUME \A b \in bs : Cardinality(RowOf(b)) = 1
        PROVE  firsts \in Injection(W, bs)
    <2>1. ASSUME NEW b \in bs PROVE \E i : RowOf(b) = {i}
      <3>1. IsFiniteSet(RowOf(b))
        BY RowFinite
      <3>2. QED
        BY <1>7, <3>1, FS_Singleton
    <2>2. ASSUME NEW v \in W, NEW w \in W, firsts[v] = firsts[w] PROVE v = w
      <3>1. v[1] = w[1] /\ v[1] \in bs
        BY <1>1, <1>2, <2>2
      <3>2. PICK i : RowOf(v[1]) = {i}
        BY <2>1, <3>1
      <3>3. v[2] = i /\ w[2] = i
        BY <1>1, <3>1, <3>2
      <3>4. QED
        BY <1>1, <3>1, <3>3
    <2>3. QED
      BY <1>2, <2>2 DEF Injection, IsInjective
  <1>8. QED
    BY <1>4, <1>5, <1>6, <1>7 DEF firsts, W

-----------------------------------------------------------------------------
(***************************************************************************)
(* Proposals.                                                              *)
(***************************************************************************)
\* A withdraw names the burns it pays: in its list, or in its outputs.
LEMMA SettlesBurns ==
  ASSUME Given, NEW bs \in SUBSET Burn, NEW p, WithdrawOf(p, bs)
  PROVE  /\ Settles(p) = bs
         /\ p.form = "V0" => p.hashes = [w \in Parse(bs) |-> w[1]]
         /\ p.form # "V0" => OutHashes(p) = [w \in Parse(bs) |-> w[1]]
         /\ p.form = "V0" => DOMAIN OutHashes(p) = {}
  <1> DEFINE firsts == [w \in Parse(bs) |-> w[1]]
  <1>1. Range(firsts) = bs
    BY FirstsAre DEF WithdrawOf
  <1>2. \A w \in Parse(bs) : w[1] # None
    BY BurnTypes, CheckAssumption
  <1>3. /\ DOMAIN p.outs = Parse(bs)
        /\ \A w \in Parse(bs) : p.outs[w].of = IF p.form = "V0" THEN None ELSE w[1]
    BY DEF WithdrawOf
  <1>4. CASE p.form = "V0"
    <2>1. p.hashes = firsts
      BY <1>4 DEF WithdrawOf
    <2>2. DOMAIN OutHashes(p) = {} /\ Range(OutHashes(p)) = {}
      BY <1>3, <1>4 DEF OutHashes, Range
    <2>3. QED
      BY <1>1, <1>4, <2>1, <2>2 DEF Settles
  <1>5. CASE p.form # "V0"
    <2>1. Range(p.hashes) = {}
      BY <1>5 DEF WithdrawOf, Range
    <2>2. OutHashes(p) = firsts
      BY <1>2, <1>3, <1>5 DEF OutHashes
    <2>3. QED
      BY <1>1, <1>5, <2>1, <2>2 DEF Settles
  <1>6. QED
    BY <1>4, <1>5

\* A return names the deposits of its rows in its outputs.
LEMMA SettlesDeposits ==
  ASSUME NEW rs \in SUBSET Row, NEW p, ReturnOf(p, rs)
  PROVE  /\ Settles(p) = DepositsOf(rs) /\ DepositsOf(rs) \subseteq Deposit
         /\ DOMAIN p.outs = rs
         /\ OutHashes(p) = [r \in rs |-> r[1]]
  <1>1. \A r \in rs : r[1] \in Deposit /\ r[1] # None
    BY RowTypes, CheckAssumption
  <1>2. DOMAIN p.outs = rs /\ \A r \in rs : p.outs[r].of = r[1]
    BY DEF ReturnOf
  <1>3. OutHashes(p) = [r \in rs |-> r[1]]
    BY <1>1, <1>2 DEF OutHashes
  <1>4. Range(p.hashes) = {}
    BY DEF ReturnOf, Range
  <1>5. Range(OutHashes(p)) = DepositsOf(rs)
    BY <1>3 DEF Range, DepositsOf
  <1>6. DepositsOf(rs) \subseteq Deposit
    BY <1>1 DEF DepositsOf
  <1>7. QED
    BY <1>2, <1>3, <1>4, <1>5, <1>6 DEF Settles

\* The coins that cover a total leave a change.
LEMMA ChangeIsNat ==
  ASSUME coins \in Seq(Nat), NEW total \in Nat, NEW S \in Covers(total)
  PROVE  /\ S \subseteq DOMAIN coins
         /\ Change(total, S) \in Nat /\ CoinSum(S) = total + Change(total, S)
  <1>1. S \subseteq DOMAIN coins /\ CoinSum(S) >= total
    BY DEF Covers, Unspent
  <1>2. CoinSum(S) \in Nat
    BY <1>1, CoinTypes
  <1>3. QED
    BY <1>1, <1>2 DEF Change

LEMMA FormIs ==
  ASSUME eras \in [{"own", "peer"} -> 0..2]
  PROVE  Form \in {"V0", "V1", "V2"}
  <1>1. eras["own"] \in 0..2
    OBVIOUS
  <1>2. eras["own"] = 0 \/ eras["own"] = 1 \/ eras["own"] = 2
    BY <1>1
  <1>3. QED
    BY <1>2 DEF Form

\* What the builder makes is built.
LEMMA WithdrawBuilt ==
  ASSUME Given, eras \in [{"own", "peer"} -> 0..2], coins \in Seq(Nat),
         NEW bs \in SUBSET Burn, bs # {}, \A b \in bs : RowOf(b) # {} /\ Sendable(b),
         NEW S \in Covers(Taken(bs))
  PROVE  LET p == CreateWithdraw(bs, S)
         IN  /\ WithdrawOf(p, bs) /\ p.form # "return"
             /\ p.ins \subseteq DOMAIN coins /\ p.change \in Nat
  <1>1. Taken(bs) \in Nat
    <2>1. {} \in SUBSET Burn /\ bs \cap {} = {}
      OBVIOUS
    <2>2. QED
      BY <2>1, BurnsJoin
  <1>2. S \subseteq DOMAIN coins /\ Change(Taken(bs), S) \in Nat
        /\ CoinSum(S) = Taken(bs) + Change(Taken(bs), S)
    BY <1>1, ChangeIsNat
  <1>3. Form \in {"V0", "V1", "V2"}
    BY FormIs
  <1> DEFINE p == CreateWithdraw(bs, S)
  <1>4. /\ p.form = Form /\ p.ins = S /\ p.outs = Outputs(bs)
        /\ p.change = Change(Taken(bs), S)
        /\ p.hashes = IF Form = "V0" THEN [w \in Parse(bs) |-> w[1]] ELSE <<>>
    BY DEF CreateWithdraw
  <1> HIDE DEF p
  <1>5. WithdrawOf(p, bs)
    BY <1>2, <1>3, <1>4 DEF WithdrawOf, Outputs
  <1>6. QED
    BY <1>2, <1>3, <1>4, <1>5 DEF p

LEMMA ReturnBuilt ==
  ASSUME Given, coins \in Seq(Nat),
         NEW rs \in SUBSET Row, rs # {}, NEW S \in Covers(TakenBack(rs))
  PROVE  LET p == CreateReturn(rs, S)
         IN  /\ ReturnOf(p, rs)
             /\ p.ins \subseteq DOMAIN coins /\ p.change \in Nat
  <1>1. TakenBack(rs) \in Nat
    <2>1. {} \in SUBSET Row /\ rs \cap {} = {}
      OBVIOUS
    <2>2. QED
      BY <2>1, RowsJoin
  <1>2. S \subseteq DOMAIN coins /\ Change(TakenBack(rs), S) \in Nat
        /\ CoinSum(S) = TakenBack(rs) + Change(TakenBack(rs), S)
    BY <1>1, ChangeIsNat
  <1>3. QED
    BY <1>2 DEF ReturnOf, CreateReturn

-----------------------------------------------------------------------------
(***************************************************************************)
(* What a step keeps.                                                      *)
(***************************************************************************)
LEMMA GivenKept ==
  ASSUME given' = given
  PROVE  /\ Given <=> Given'
         /\ \A n : Value(n)' = Value(n)
         /\ \A w : Asset(w)' = Asset(w)
         /\ \A b : RowOf(b)' = RowOf(b) /\ Sendable(b)' = Sendable(b)
         /\ \A bs : Parse(bs)' = Parse(bs) /\ Taken(bs)' = Taken(bs)
         /\ \A bs : \A a : Due(bs, a)' = Due(bs, a)
         /\ \A d : ScannedAmount(d)' = ScannedAmount(d) /\ DepositAmount(d)' = DepositAmount(d)
         /\ \A rs : TakenBack(rs)' = TakenBack(rs)
         /\ \A rs : \A a : DueBack(rs, a)' = DueBack(rs, a)
         /\ \A d : Sound(d)' <=> Sound(d)
  <1>1. rate' = rate /\ burnt' = burnt /\ deposited' = deposited /\ listSent' = listSent
    BY DEF given
  <1>2. Given <=> Given'
    BY <1>1 DEF Given
  <1>3. \A n : Value(n)' = Value(n)
    BY <1>1 DEF Value
  <1>4. \A w : Asset(w)' = Asset(w)
    BY <1>1 DEF Asset
  <1>5. \A b : RowOf(b)' = RowOf(b) /\ Sendable(b)' = Sendable(b)
    BY <1>1 DEF RowOf, Sendable
  <1>6. \A bs : Parse(bs)' = Parse(bs)
    BY <1>5 DEF Parse
  <1>7. \A bs : Taken(bs)' = Taken(bs)
    BY <1>1 DEF Taken, Parse, RowOf, Asset, Value
  <1>8. \A bs : \A a : Due(bs, a)' = Due(bs, a)
    BY <1>1 DEF Due, Parse, RowOf, Asset, Value
  <1>9. \A d : ScannedAmount(d)' = ScannedAmount(d) /\ DepositAmount(d)' = DepositAmount(d)
    BY <1>1 DEF ScannedAmount, DepositAmount
  <1>10. \A rs : TakenBack(rs)' = TakenBack(rs)
    BY <1>3, <1>9 DEF TakenBack
  <1>11. \A rs : \A a : DueBack(rs, a)' = DueBack(rs, a)
    BY <1>3, <1>9 DEF DueBack
  <1>12. \A d : Sound(d)' <=> Sound(d)
    BY <1>1 DEF Sound, Value, ScannedAmount, DepositAmount
  <1>13. QED
    BY <1>2, <1>3, <1>4, <1>5, <1>6, <1>7, <1>8, <1>9, <1>10, <1>11, <1>12

\* A proposal stays built, whichever coins are added.
LEMMA BuiltKept ==
  ASSUME given' = given, NEW p, Built(p),
         DOMAIN coins \subseteq DOMAIN coins',
         \A S \in SUBSET DOMAIN coins : CoinSum(S)' = CoinSum(S)
  PROVE  Built(p)'
  <1>1. /\ p.ins \subseteq DOMAIN coins /\ p.change \in Nat
        /\ CoinSum(p.ins)' = CoinSum(p.ins)
    BY DEF Built
  <1>2. CASE \E bs \in SUBSET Burn : WithdrawOf(p, bs)
    <2>1. PICK bs \in SUBSET Burn : WithdrawOf(p, bs)
      BY <1>2
    <2>2. \A b \in bs : (RowOf(b) # {})' /\ Sendable(b)'
      BY <2>1, GivenKept DEF WithdrawOf
    <2>3. p.outs = [w \in Parse(bs)' |-> [to |-> Asset(w)'.to, value |-> Value(Asset(w).cross)',
                                          of |-> IF p.form = "V0" THEN None ELSE w[1]]]
      BY <2>1, GivenKept DEF WithdrawOf, Value, given
    <2>4. p.hashes = IF p.form = "V0" THEN [w \in Parse(bs)' |-> w[1]] ELSE <<>>
      BY <2>1, GivenKept DEF WithdrawOf
    <2>5. WithdrawOf(p, bs)'
      BY <1>1, <2>1, <2>2, <2>3, <2>4, GivenKept DEF WithdrawOf
    <2>6. QED
      BY <1>1, <2>5 DEF Built
  <1>3. CASE \E rs \in SUBSET Row : ReturnOf(p, rs)
    <2>1. PICK rs \in SUBSET Row : ReturnOf(p, rs)
      BY <1>3
    <2>2. \A d : Value(ScannedAmount(d) - ReturnFee)' = Value(ScannedAmount(d) - ReturnFee)
      BY GivenKept DEF Value, given
    <2>3. ReturnOf(p, rs)'
      BY <1>1, <2>1, <2>2, GivenKept DEF ReturnOf
    <2>4. QED
      BY <1>1, <2>3 DEF Built
  <1>4. QED
    BY <1>2, <1>3 DEF Built

-----------------------------------------------------------------------------
(***************************************************************************)
(* The main chain takes a transaction.                                     *)
(***************************************************************************)
\* Coins leave the bank, and the change comes back.
LEMMA CoinsMove ==
  ASSUME coins \in Seq(Nat), spent \subseteq DOMAIN coins,
         NEW p, p.ins \subseteq DOMAIN coins, p.change \in Nat, Takes(p)
  PROVE  /\ coins' \in Seq(Nat) /\ spent' \subseteq DOMAIN coins'
         /\ DOMAIN coins \subseteq DOMAIN coins'
         /\ \A S \in SUBSET DOMAIN coins : CoinSum(S)' = CoinSum(S)
         /\ CoinSum(Unspent) \in Nat /\ CoinSum(p.ins) \in Nat
         /\ CoinSum(Unspent)' = CoinSum(Unspent) - CoinSum(p.ins) + p.change
  <1> DEFINE kept == Unspent \ p.ins
  <1>1. /\ p.ins \cap spent = {} /\ spent' = spent \cup p.ins
        /\ coins' = IF p.change = 0 THEN coins ELSE Append(coins, p.change)
    BY DEF Takes, FreshCoins
  <1>2. /\ coins' \in Seq(Nat) /\ DOMAIN coins \subseteq DOMAIN coins'
        /\ DOMAIN coins' = IF p.change = 0 THEN DOMAIN coins
                           ELSE DOMAIN coins \cup {Len(coins) + 1}
        /\ p.change # 0 => coins'[Len(coins) + 1] = p.change /\ Len(coins) + 1 \notin DOMAIN coins
        /\ \A S \in SUBSET DOMAIN coins : CoinSum(S)' = CoinSum(S)
    BY <1>1, CoinAdded
  <1>3. /\ kept \in SUBSET DOMAIN coins /\ Unspent \in SUBSET DOMAIN coins
        /\ kept \cup p.ins = Unspent /\ kept \cap p.ins = {}
    BY <1>1 DEF Unspent
  <1>4. /\ Unspent' = IF p.change = 0 THEN kept ELSE kept \cup {Len(coins) + 1}
        /\ spent' \subseteq DOMAIN coins'
    BY <1>1, <1>2 DEF Unspent
  <1> HIDE DEF kept
  <1>5. /\ IsFiniteSet(kept) /\ IsFiniteSet(p.ins)
        /\ CoinSum(kept) \in Nat /\ CoinSum(p.ins) \in Nat /\ CoinSum(Unspent) \in Nat
        /\ \A c \in kept \cup p.ins : coins[c] \in Int
    BY <1>3, CoinTypes
  <1>6. CoinSum(Unspent) = CoinSum(kept) + CoinSum(p.ins)
    BY <1>3, <1>5, SumUnion DEF CoinSum
  <1>7. CoinSum(Unspent)' = CoinSum(kept) + p.change
    <2>1. CoinSum(Unspent)' = SumFunctionOnSet(coins', Unspent')
      BY DEF CoinSum
    <2>2. SumFunctionOnSet(coins', kept) = CoinSum(kept)
      <3>1. \A S : CoinSum(S)' = SumFunctionOnSet(coins', S)
        BY DEF CoinSum
      <3>2. QED
        BY <1>2, <1>3, <3>1
    <2>3. CASE p.change = 0
      BY <1>4, <1>5, <2>1, <2>2, <2>3
    <2>4. CASE p.change # 0
      <3> DEFINE n == Len(coins) + 1
      <3>1. n \notin kept /\ coins'[n] = p.change
        BY <1>2, <1>3, <2>4
      <3>2. \A c \in kept \cup {n} : coins'[c] \in Int
        <4>1. kept \cup {n} \subseteq DOMAIN coins'
          BY <1>2, <1>3, <2>4
        <4>2. \A c \in DOMAIN coins' : coins'[c] \in Nat
          BY <1>2, ElementOf
        <4>3. QED
          BY <4>1, <4>2
      <3> HIDE DEF n
      <3>3. SumFunctionOnSet(coins', kept \cup {n}) = coins'[n] + SumFunctionOnSet(coins', kept)
        BY <1>5, <3>1, <3>2, SumAdd
      <3>4. SumFunctionOnSet(coins', kept \cup {n}) = p.change + CoinSum(kept)
        BY <2>2, <3>1, <3>3
      <3>5. Unspent' = kept \cup {n}
        BY <1>4, <2>4 DEF n
      <3>6. QED
        BY <1>5, <2>1, <3>4, <3>5
    <2>5. QED
      BY <2>3, <2>4
  <1>8. CoinSum(Unspent)' = CoinSum(Unspent) - CoinSum(p.ins) + p.change
    BY <1>5, <1>6, <1>7
  <1>9. QED
    BY <1>2, <1>4, <1>5, <1>8

LEMMA FundsSum ==
  SumFunction(Funds) \in Nat
  <1>1. Funds \in Seq(Nat)
    BY CheckAssumption
  <1>2. DOMAIN Funds = 1..Len(Funds) /\ Len(Funds) \in Nat
    BY <1>1
  <1>3. IsFiniteSet(DOMAIN Funds)
    BY <1>2, FS_Interval
  <1>4. \A i \in DOMAIN Funds : Funds[i] \in Nat
    BY <1>1, ElementOf
  <1>5. QED
    BY <1>3, <1>4, SumNat DEF SumFunction

\* The books balance when the main chain takes a withdraw.
LEMMA WithdrawTaken ==
  ASSUME Given, given' = given, coins \in Seq(Nat), spent \subseteq DOMAIN coins,
         paid \subseteq Burn, returned \subseteq Row, BooksInv,
         NEW p, p.ins \subseteq DOMAIN coins, p.change \in Nat,
         NEW bs \in SUBSET Burn, WithdrawOf(p, bs), Takes(p)
  PROVE  paid' = paid \cup bs /\ returned' = returned /\ BooksInv'
  <1>1. Settles(p) = bs
    BY SettlesBurns
  <1>2. /\ paid \cap bs = {} /\ paid' = paid \cup bs /\ returned' = returned
    <2>1. bs \cap Burn = bs /\ p.form # "return"
      BY DEF WithdrawOf
    <2>2. bs \cap paid = {}
      BY <1>1 DEF Takes, FreshItems, Settled
    <2>3. paid' = paid \cup (bs \cap Burn) /\ returned' = returned \cup {}
      BY <1>1, <2>1 DEF Takes
    <2>4. QED
      BY <2>1, <2>2, <2>3
  <1>3. /\ Taken(paid) \in Nat /\ Taken(bs) \in Nat
        /\ Taken(paid \cup bs) = Taken(paid) + Taken(bs)
        /\ \A a : /\ Due(paid, a) \in Nat /\ Due(bs, a) \in Nat
                  /\ Due(paid \cup bs, a) = Due(paid, a) + Due(bs, a)
    BY <1>2, BurnsJoin
  <1>4. /\ TakenBack(returned) \in Nat
        /\ \A a : DueBack(returned, a) \in Nat
    <2>1. returned \in SUBSET Row /\ {} \in SUBSET Row /\ returned \cap {} = {}
      OBVIOUS
    <2>2. QED
      BY <2>1, RowsJoin
  <1>5. /\ Taken(paid)' = Taken(paid) + Taken(bs)
        /\ TakenBack(returned)' = TakenBack(returned)
        /\ \A a : /\ Due(paid, a)' = Due(paid, a) + Due(bs, a)
                  /\ DueBack(returned, a)' = DueBack(returned, a)
    BY <1>2, <1>3, GivenKept
  <1>6. CoinSum(Unspent)' = SumFunction(Funds) - Taken(paid)' - TakenBack(returned)'
    <2>1. CoinSum(Unspent) = SumFunction(Funds) - Taken(paid) - TakenBack(returned)
      BY DEF BooksInv
    <2>2. CoinSum(p.ins) = Taken(bs) + p.change
      BY DEF WithdrawOf
    <2>3. /\ CoinSum(Unspent) \in Nat /\ CoinSum(p.ins) \in Nat
          /\ CoinSum(Unspent)' = CoinSum(Unspent) - CoinSum(p.ins) + p.change
      BY CoinsMove
    <2>4. QED
      BY <1>3, <1>4, <1>5, <2>1, <2>2, <2>3, FundsSum
  <1>7. ASSUME NEW a \in Address
        PROVE  received'[a] = Due(paid, a)' + DueBack(returned, a)'
    <2>1. received'[a] = received[a] + SumFunction([x \in To(a, p.outs) |-> p.outs[x].value])
      BY DEF Takes
    <2>2. [x \in To(a, p.outs) |-> p.outs[x].value]
            = [w \in {w \in Parse(bs) : Asset(w).to = a} |-> Value(Asset(w).cross)]
      <3>1. /\ DOMAIN p.outs = Parse(bs)
            /\ \A w \in Parse(bs) : /\ p.outs[w].to = Asset(w).to
                                    /\ p.outs[w].value = Value(Asset(w).cross)
        BY DEF WithdrawOf
      <3>2. To(a, p.outs) = {w \in Parse(bs) : Asset(w).to = a}
        BY <3>1 DEF To
      <3>3. QED
        BY <3>1, <3>2
    <2>3. received'[a] = received[a] + Due(bs, a)
      BY <2>1, <2>2 DEF Due
    <2>4. received[a] = Due(paid, a) + DueBack(returned, a)
      BY DEF BooksInv
    <2>5. QED
      BY <1>3, <1>4, <1>5, <2>3, <2>4
  <1>8. BooksInv'
    BY <1>6, <1>7 DEF BooksInv
  <1>9. QED
    BY <1>2, <1>8

\* The books balance when the main chain takes a return.
LEMMA ReturnTaken ==
  ASSUME Given, given' = given, coins \in Seq(Nat), spent \subseteq DOMAIN coins,
         paid \subseteq Burn, returned \subseteq Row, BooksInv,
         NEW p, p.ins \subseteq DOMAIN coins, p.change \in Nat,
         NEW rs \in SUBSET Row, ReturnOf(p, rs), Takes(p)
  PROVE  paid' = paid /\ returned' = returned \cup rs /\ BooksInv'
  <1>1. /\ Settles(p) = DepositsOf(rs) /\ DepositsOf(rs) \subseteq Deposit
        /\ DOMAIN p.outs = rs /\ p.form = "return"
    BY SettlesDeposits DEF ReturnOf
  <1>2. /\ returned \cap rs = {} /\ paid' = paid /\ returned' = returned \cup rs
    <2>1. DepositsOf(rs) \cap Burn = {}
      BY <1>1, CheckAssumption
    <2>2. DepositsOf(rs) \cap DepositsOf(returned) = {}
      BY <1>1 DEF Takes, FreshItems, Settled
    <2>3. paid' = paid \cup (DepositsOf(rs) \cap Burn) /\ returned' = returned \cup rs
      BY <1>1 DEF Takes
    <2>4. returned \cap rs = {}
      BY <2>2 DEF DepositsOf
    <2>5. QED
      BY <2>1, <2>3, <2>4
  <1>3. /\ TakenBack(returned) \in Nat /\ TakenBack(rs) \in Nat
        /\ TakenBack(returned \cup rs) = TakenBack(returned) + TakenBack(rs)
        /\ \A a : /\ DueBack(returned, a) \in Nat /\ DueBack(rs, a) \in Nat
                  /\ DueBack(returned \cup rs, a) = DueBack(returned, a) + DueBack(rs, a)
    BY <1>2, RowsJoin
  <1>4. Taken(paid) \in Nat /\ \A a : Due(paid, a) \in Nat
    <2>1. paid \in SUBSET Burn /\ {} \in SUBSET Burn /\ paid \cap {} = {}
      OBVIOUS
    <2>2. QED
      BY <2>1, BurnsJoin
  <1>5. /\ Taken(paid)' = Taken(paid)
        /\ TakenBack(returned)' = TakenBack(returned) + TakenBack(rs)
        /\ \A a : /\ Due(paid, a)' = Due(paid, a)
                  /\ DueBack(returned, a)' = DueBack(returned, a) + DueBack(rs, a)
    BY <1>2, <1>3, GivenKept
  <1>6. CoinSum(Unspent)' = SumFunction(Funds) - Taken(paid)' - TakenBack(returned)'
    <2>1. CoinSum(Unspent) = SumFunction(Funds) - Taken(paid) - TakenBack(returned)
      BY DEF BooksInv
    <2>2. CoinSum(p.ins) = TakenBack(rs) + p.change
      BY DEF ReturnOf
    <2>3. /\ CoinSum(Unspent) \in Nat /\ CoinSum(p.ins) \in Nat
          /\ CoinSum(Unspent)' = CoinSum(Unspent) - CoinSum(p.ins) + p.change
      BY CoinsMove
    <2>4. QED
      BY <1>3, <1>4, <1>5, <2>1, <2>2, <2>3, FundsSum
  <1>7. ASSUME NEW a \in Address
        PROVE  received'[a] = Due(paid, a)' + DueBack(returned, a)'
    <2>1. received'[a] = received[a] + SumFunction([x \in To(a, p.outs) |-> p.outs[x].value])
      BY DEF Takes
    <2>2. [x \in To(a, p.outs) |-> p.outs[x].value]
            = [r \in {r \in rs : DepositFrom[r[1]] = a}
                 |-> Value(ScannedAmount(r[1]) - ReturnFee)]
      <3>1. /\ DOMAIN p.outs = rs
            /\ \A r \in rs : /\ p.outs[r].to = DepositFrom[r[1]]
                             /\ p.outs[r].value = Value(ScannedAmount(r[1]) - ReturnFee)
        BY DEF ReturnOf
      <3>2. To(a, p.outs) = {r \in rs : DepositFrom[r[1]] = a}
        BY <3>1 DEF To
      <3>3. QED
        BY <3>1, <3>2
    <2>3. received'[a] = received[a] + DueBack(rs, a)
      BY <2>1, <2>2 DEF DueBack
    <2>4. received[a] = Due(paid, a) + DueBack(returned, a)
      BY DEF BooksInv
    <2>5. QED
      BY <1>3, <1>4, <1>5, <2>3, <2>4
  <1>8. BooksInv'
    BY <1>6, <1>7 DEF BooksInv
  <1>9. QED
    BY <1>2, <1>8

-----------------------------------------------------------------------------
(***************************************************************************)
(* The check of a return.                                                  *)
(***************************************************************************)
\* The amount of an output agrees only if nothing is divided and nothing is
\* left out: what is divided by more than one is less than what it was.
LEMMA OutputSound ==
  ASSUME Given, NEW d \in Deposit
  PROVE  /\ Value(ScannedAmount(d) - ReturnFee) = DepositAmount(d) - ReturnFee
              <=> rate = 1 /\ ScannedAmount(d) = DepositAmount(d)
         /\ rate = 1 /\ ScannedAmount(d) = DepositAmount(d) => Sound(d)
  <1> DEFINE s == ScannedAmount(d)
             t == DepositAmount(d)
  <1>1. s \in Nat /\ t \in Nat /\ s <= t /\ ReturnFee \in Nat /\ ReturnFee < s
    BY DepositAmounts
  <1>2. rate \in Nat \ {0}
    BY GivenTypes
  <1>3. rate = 1 => Value(s) = s /\ Value(s - ReturnFee) = s - ReturnFee
    <2>1. s \in Nat /\ s - ReturnFee \in Nat
      BY <1>1
    <2>2. QED
      BY <1>2, <2>1, Division DEF Value
  <1>4. rate # 1 => Value(s - ReturnFee) \in Nat /\ Value(s - ReturnFee) < s - ReturnFee
    <2>1. s - ReturnFee \in Nat /\ s - ReturnFee > 0
      BY <1>1
    <2>2. QED
      BY <1>2, <2>1, Division DEF Value
  <1> HIDE DEF s, t
  <1>5. Value(s - ReturnFee) = t - ReturnFee <=> rate = 1 /\ s = t
    BY <1>1, <1>3, <1>4
  <1>6. rate = 1 /\ s = t => Sound(d)
    BY <1>3 DEF Sound, s, t
  <1>7. QED
    BY <1>5, <1>6 DEF s, t

\* A return is agreed to if every output is.
LEMMA ReturnAgrees ==
  ASSUME Given, NEW rs \in SUBSET Row, NEW p, ReturnOf(p, rs)
  PROVE  Agrees(p) <=> /\ rate = 1
                       /\ DepositsOf(rs) \subseteq peerNode
                       /\ \A d \in DepositsOf(rs) : ScannedAmount(d) = DepositAmount(d)
  <1>1. p.form = "return" /\ rs # {} /\ DOMAIN p.outs = rs /\ DepositsOf(rs) # {}
    BY DEF ReturnOf, DepositsOf
  <1>2. Agrees(p) <=> \A r \in rs : OutputAgrees(p.outs[r])
    BY <1>1 DEF Agrees
  <1>3. \A r \in rs : /\ p.outs[r].of = r[1] /\ p.outs[r].to = DepositFrom[r[1]]
                      /\ p.outs[r].value = Value(ScannedAmount(r[1]) - ReturnFee)
    BY DEF ReturnOf
  <1>4. \A r \in rs : OutputAgrees(p.outs[r]) <=>
          /\ r[1] \in peerNode
          /\ Value(ScannedAmount(r[1]) - ReturnFee) = DepositAmount(r[1]) - ReturnFee
    BY <1>3 DEF OutputAgrees
  <1>5. \A r \in rs : OutputAgrees(p.outs[r]) <=>
          r[1] \in peerNode /\ rate = 1 /\ ScannedAmount(r[1]) = DepositAmount(r[1])
    BY <1>4, RowTypes, OutputSound
  <1>6. Agrees(p) <=> \A d \in DepositsOf(rs) :
          d \in peerNode /\ rate = 1 /\ ScannedAmount(d) = DepositAmount(d)
    BY <1>2, <1>5 DEF DepositsOf
  <1>7. QED
    BY <1>1, <1>6

-----------------------------------------------------------------------------
(***************************************************************************)
(* The inductive invariant.                                                *)
(***************************************************************************)
IInv == BuildInv /\ EnteredInv /\ SignedInv /\ BooksInv

\* What is left of the invariant after a step, as far as the chains and the
\* bank go.
LedgerGood ==
  /\ Given'
  /\ coins' \in Seq(Nat) /\ spent' \subseteq DOMAIN coins'
  /\ paid' \subseteq Burn /\ returned' \subseteq Row
  /\ BooksInv'
  /\ \A p : Built(p) => Built(p)'

\* The bank does not move.
LEMMA LedgerStays ==
  ASSUME IInv, given' = given, ledger' = ledger
  PROVE  LedgerGood /\ returned' = returned
  <1>1. coins' = coins /\ spent' = spent /\ paid' = paid /\ returned' = returned
        /\ received' = received
    BY DEF ledger
  <1>2. Given' /\ coins' \in Seq(Nat) /\ spent' \subseteq DOMAIN coins'
        /\ paid' \subseteq Burn /\ returned' \subseteq Row
    BY <1>1, GivenKept DEF IInv, BuildInv
  <1>3. \A S : CoinSum(S)' = CoinSum(S)
    BY <1>1 DEF CoinSum
  <1>4. \A p : Built(p) => Built(p)'
    BY <1>1, <1>3, BuiltKept
  <1>5. BooksInv'
    <2>1. CoinSum(Unspent)' = CoinSum(Unspent)
      BY <1>1 DEF CoinSum, Unspent
    <2>2. /\ Taken(paid)' = Taken(paid) /\ TakenBack(returned)' = TakenBack(returned)
          /\ \A a : Due(paid, a)' = Due(paid, a) /\ DueBack(returned, a)' = DueBack(returned, a)
      BY <1>1, GivenKept
    <2>3. QED
      BY <1>1, <2>1, <2>2 DEF IInv, BooksInv
  <1>6. QED
    BY <1>1, <1>2, <1>4, <1>5 DEF LedgerGood

\* The main chain takes a transaction that is built.
LEMMA LedgerMoves ==
  ASSUME IInv, given' = given, NEW p, Built(p), Takes(p)
  PROVE  /\ LedgerGood
         /\ p.form # "return" => returned' = returned
         /\ p.form = "return" => returned' = returned \cup DOMAIN p.outs
  <1>1. /\ Given /\ coins \in Seq(Nat) /\ spent \subseteq DOMAIN coins
        /\ paid \subseteq Burn /\ returned \subseteq Row /\ BooksInv
    BY DEF IInv, BuildInv
  <1>2. p.ins \subseteq DOMAIN coins /\ p.change \in Nat
    BY DEF Built
  <1>3. /\ coins' \in Seq(Nat) /\ spent' \subseteq DOMAIN coins'
        /\ DOMAIN coins \subseteq DOMAIN coins'
        /\ \A S \in SUBSET DOMAIN coins : CoinSum(S)' = CoinSum(S)
    BY <1>1, <1>2, CoinsMove
  <1>4. Given' /\ \A q : Built(q) => Built(q)'
    BY <1>1, <1>3, GivenKept, BuiltKept
  <1>5. CASE \E bs \in SUBSET Burn : WithdrawOf(p, bs)
    <2>1. PICK bs \in SUBSET Burn : WithdrawOf(p, bs)
      BY <1>5
    <2>2. paid' = paid \cup bs /\ returned' = returned /\ BooksInv'
      BY <1>1, <1>2, <2>1, WithdrawTaken
    <2>3. p.form # "return"
      BY <2>1 DEF WithdrawOf
    <2>4. QED
      BY <1>1, <1>3, <1>4, <2>2, <2>3 DEF LedgerGood
  <1>6. CASE \E rs \in SUBSET Row : ReturnOf(p, rs)
    <2>1. PICK rs \in SUBSET Row : ReturnOf(p, rs)
      BY <1>6
    <2>2. paid' = paid /\ returned' = returned \cup rs /\ BooksInv'
      BY <1>1, <1>2, <2>1, ReturnTaken
    <2>3. p.form = "return" /\ DOMAIN p.outs = rs
      BY <2>1, SettlesDeposits DEF ReturnOf
    <2>4. QED
      BY <1>1, <1>3, <1>4, <2>2, <2>3 DEF LedgerGood
  <1>7. QED
    BY <1>5, <1>6 DEF Built

\* The main chain takes a transaction that is signed.
LEMMA SignedTaken ==
  ASSUME IInv, given' = given, NEW p \in signed, Takes(p)
  PROVE  /\ LedgerGood
         /\ \A r \in returned' : r \in returned \/ Counted(r)
         /\ \A r \in returned' : r \in returned \/ r[1] \in unseen \/ Sound(r[1])
  <1>1. p \in proposals /\ Built(p)
    BY DEF IInv, BuildInv
  <1>2. /\ LedgerGood
        /\ p.form # "return" => returned' = returned
        /\ p.form = "return" => returned' = returned \cup DOMAIN p.outs
    BY <1>1, LedgerMoves
  <1>3. ASSUME p.form = "return", NEW r \in DOMAIN p.outs
        PROVE  Counted(r) /\ (r[1] \in unseen \/ Sound(r[1]))
    <2>1. Counted(r)
      BY <1>1, <1>3 DEF IInv, EnteredInv
    <2>2. PICK rs \in SUBSET Row : ReturnOf(p, rs)
      BY <1>1, <1>3 DEF Built, WithdrawOf
    <2>3. r[1] \in Settles(p)
      <3>1. Settles(p) = DepositsOf(rs) /\ r \in rs
        BY <1>3, <2>2, SettlesDeposits
      <3>2. QED
        BY <3>1 DEF DepositsOf
    <2>4. \A d \in Settles(p) : d \in unseen \/ Sound(d)
      BY <1>3 DEF IInv, SignedInv
    <2>5. QED
      BY <2>1, <2>3, <2>4
  <1>4. QED
    BY <1>2, <1>3

\* The invariant from its parts.
LEMMA InvariantFrom ==
  ASSUME IInv, given' = given, LedgerGood,
         eras' \in [{"own", "peer"} -> 0..2],
         \A b \in ownRows' \cup peerRows' : b \in Burn /\ RowOf(b) # {},
         entered' \in [Deposit -> Nat], \A d \in Deposit : entered[d] <= entered'[d],
         \A r \in returnRows' : r \in returnRows \/ (r \in Row /\ r[2] <= entered'[r[1]]),
         \A p \in proposals' : p \in proposals \/
           (Built(p) /\ (p.form = "return" => \A r \in DOMAIN p.outs : Counted(r))),
         signed' \subseteq proposals', unseen \subseteq unseen',
         \A p \in signed' : p \in signed \/
           (p.form = "return" => \A d \in Settles(p) : d \in unseen' \/ Sound(d)),
         \A r \in returned' : r \in returned \/ Counted(r),
         \A r \in returned' : r \in returned \/ r[1] \in unseen \/ Sound(r[1])
  PROVE  IInv'
  <1>1. BuildInv'
    <2>1. \A b \in ownRows' \cup peerRows' : b \in Burn /\ RowOf(b)' # {}
      BY GivenKept
    <2>2. \A p \in proposals' : Built(p)'
      BY DEF LedgerGood, IInv, BuildInv
    <2>3. returnRows' \subseteq Row
      BY DEF IInv, BuildInv
    <2>4. QED
      BY <2>1, <2>2, <2>3 DEF LedgerGood, BuildInv
  <1>2. EnteredInv'
    <2>1. ASSUME NEW r \in Row, Counted(r) PROVE Counted(r)'
      <3>1. r[1] \in Deposit /\ r[2] \in Nat
        BY RowTypes, CheckAssumption
      <3>2. entered[r[1]] \in Nat /\ entered'[r[1]] \in Nat /\ entered[r[1]] <= entered'[r[1]]
        BY <3>1 DEF IInv, EnteredInv
      <3>3. QED
        BY <2>1, <3>1, <3>2 DEF Counted
    <2>2. ASSUME NEW r \in returnRows' PROVE Counted(r)'
      <3>1. CASE r \in returnRows
        BY <2>1, <3>1 DEF IInv, BuildInv, EnteredInv
      <3>2. CASE r \notin returnRows
        BY <3>2 DEF Counted
      <3>3. QED
        BY <3>1, <3>2
    <2>3. ASSUME NEW r \in returned' PROVE Counted(r)'
      <3>1. r \in Row
        BY DEF LedgerGood
      <3>2. Counted(r)
        BY DEF IInv, EnteredInv
      <3>3. QED
        BY <2>1, <3>1, <3>2
    <2>4. ASSUME NEW p \in proposals', p.form = "return", NEW r \in DOMAIN p.outs
          PROVE  Counted(r)'
      <3>1. Built(p) /\ Counted(r)
        BY <2>4 DEF IInv, BuildInv, EnteredInv
      <3>2. PICK rs \in SUBSET Row : ReturnOf(p, rs)
        BY <2>4, <3>1 DEF Built, WithdrawOf
      <3>3. r \in Row
        BY <2>4, <3>2, SettlesDeposits
      <3>4. QED
        BY <2>1, <3>1, <3>3
    <2>5. QED
      BY <2>2, <2>3, <2>4 DEF EnteredInv
  <1>3. SignedInv'
    <2>1. \A d : Sound(d)' <=> Sound(d)
      BY GivenKept
    <2>2. \A p \in signed' : p.form = "return" => \A d \in Settles(p) : d \in unseen' \/ Sound(d)'
      BY <2>1 DEF IInv, SignedInv
    <2>3. \A r \in returned' : r[1] \in unseen' \/ Sound(r[1])'
      BY <2>1 DEF IInv, SignedInv
    <2>4. QED
      BY <2>2, <2>3 DEF SignedInv
  <1>4. QED
    BY <1>1, <1>2, <1>3 DEF IInv, LedgerGood

\* At first the bank has its funds, and nothing is proposed.
LEMMA IInvInit ==
  CheckInit => IInv
  <1> SUFFICES ASSUME CheckInit PROVE IInv
    OBVIOUS
  <1>1. Given
    BY DEF CheckInit, Given
  <1>2. BuildInv
    BY <1>1, CheckAssumption DEF CheckInit, BuildInv
  <1>3. EnteredInv /\ SignedInv
    BY DEF CheckInit, EnteredInv, SignedInv
  <1>4. BooksInv
    <2>1. /\ \A f : SumFunctionOnSet(f, {}) = 0
      BY SumEmpty
    <2>2. CoinSum(Unspent) = SumFunction(Funds)
      <3>1. Unspent = DOMAIN Funds /\ coins = Funds
        BY DEF CheckInit, Unspent
      <3>2. QED
        BY <3>1 DEF CoinSum, SumFunction
    <2>3. Parse({}) = {}
      BY DEF Parse
    <2>4. Taken({}) = 0 /\ \A a : Due({}, a) = 0
      BY <2>1, <2>3 DEF Taken, Due, SumFunction
    <2>5. TakenBack({}) = 0 /\ \A a : DueBack({}, a) = 0
      BY <2>1 DEF TakenBack, DueBack, SumFunction
    <2>6. paid = {} /\ returned = {} /\ \A a \in Address : received[a] = 0
      BY DEF CheckInit
    <2>7. QED
      BY <2>2, <2>4, <2>5, <2>6, FundsSum DEF BooksInv
  <1>5. QED
    BY <1>2, <1>3, <1>4 DEF IInv

\* No step breaks the invariant.
LEMMA IInvNext ==
  IInv /\ [CheckNext]_checkVars => IInv'
  <1> SUFFICES ASSUME IInv, [CheckNext]_checkVars PROVE IInv'
    OBVIOUS
  <1> DEFINE Fresh(p) == Built(p) /\ (p.form = "return" => \A r \in DOMAIN p.outs : Counted(r))
  <1>1. /\ Given /\ eras \in [{"own", "peer"} -> 0..2]
        /\ \A b \in ownRows \cup peerRows : b \in Burn /\ RowOf(b) # {}
        /\ returnRows \subseteq Row
        /\ coins \in Seq(Nat)
        /\ \A p \in proposals : Built(p)
        /\ signed \subseteq proposals
        /\ entered \in [Deposit -> Nat]
    BY DEF IInv, BuildInv, EnteredInv
  <1>2. \A p \in signed : p.form = "return" => \A d \in Settles(p) : d \in unseen \/ Sound(d)
    BY DEF IInv, SignedInv
  <1>3. ASSUME NEW b \in Burn, OwnScans(b) PROVE IInv'
    <2>1. given' = given /\ ledger' = ledger
      BY <1>3 DEF OwnScans
    <2>2. LedgerGood /\ returned' = returned
      BY <2>1, LedgerStays
    <2>3. QED
      BY <1>1, <1>3, <2>1, <2>2, InvariantFrom DEF OwnScans
  <1>4. ASSUME NEW b \in Burn, PeerScans(b) PROVE IInv'
    <2>1. given' = given /\ ledger' = ledger
      BY <1>4 DEF PeerScans
    <2>2. LedgerGood /\ returned' = returned
      BY <2>1, LedgerStays
    <2>3. QED
      BY <1>1, <1>4, <2>1, <2>2, InvariantFrom DEF PeerScans
  <1>5. ASSUME NEW b \in Burn, OtherArbiterPays(b) PROVE IInv'
    <2>1. PICK S \in Covers(Taken({b})) : Takes(CreateWithdraw({b}, S))
      BY <1>5 DEF OtherArbiterPays
    <2> DEFINE p == CreateWithdraw({b}, S)
    <2>2. given' = given /\ RowOf(b) # {} /\ Sendable(b)
      BY <1>5 DEF OtherArbiterPays
    <2>3. {b} \in SUBSET Burn /\ {b} # {} /\ \A x \in {b} : RowOf(x) # {} /\ Sendable(x)
      BY <2>2
    <2>4. WithdrawOf(p, {b}) /\ p.form # "return" /\ p.ins \subseteq DOMAIN coins /\ p.change \in Nat
      BY <1>1, <2>3, WithdrawBuilt
    <2>5. Built(p)
      BY <2>3, <2>4 DEF Built
    <2> HIDE DEF p
    <2>6. LedgerGood /\ returned' = returned
      BY <2>1, <2>2, <2>4, <2>5, LedgerMoves DEF p
    <2>7. QED
      BY <1>1, <1>5, <2>2, <2>6, InvariantFrom DEF OtherArbiterPays, arbiters
  <1>6. ASSUME NEW d \in Deposit, OwnScansFailed(d) PROVE IInv'
    <2>1. given' = given /\ ledger' = ledger
      BY <1>6 DEF OwnScansFailed
    <2>2. LedgerGood /\ returned' = returned
      BY <2>1, LedgerStays
    <2>3. /\ entered' \in [Deposit -> Nat]
          /\ \A x \in Deposit : entered[x] <= entered'[x]
          /\ entered'[d] = entered[d] + 1
      BY <1>1, <1>6 DEF OwnScansFailed
    <2>4. ASSUME NEW r \in returnRows'
          PROVE  r \in returnRows \/ (r \in Row /\ r[2] <= entered'[r[1]])
      <3>1. <<d, entered[d] + 1>> \in Row
        <4>1. entered[d] \in Nat /\ entered[d] < MaxScans /\ MaxScans \in Nat
          BY <1>1, <1>6, CheckAssumption DEF OwnScansFailed
        <4>2. QED
          BY <4>1 DEF Row
      <3>2. r \in returnRows \/ r = <<d, entered[d] + 1>>
        BY <1>6 DEF OwnScansFailed
      <3>3. CASE r = <<d, entered[d] + 1>>
        <4>1. r[1] = d /\ r[2] = entered[d] + 1
          BY <3>3
        <4>2. r[2] <= entered'[r[1]]
          BY <1>1, <2>3, <4>1
        <4>3. QED
          BY <3>1, <3>3, <4>2
      <3>4. QED
        BY <3>2, <3>3
    <2>5. /\ eras' = eras /\ ownRows' = ownRows /\ peerRows' = peerRows
          /\ proposals' = proposals /\ signed' = signed /\ unseen' = unseen
      BY <1>6 DEF OwnScansFailed
    <2>6. QED
      BY <1>1, <2>1, <2>2, <2>3, <2>4, <2>5, InvariantFrom
  <1>7. ASSUME NEW d \in Deposit, OtherArbiterReturns(d) PROVE IInv'
    <2> DEFINE rs == {<<d, 1>>}
    <2>1. PICK S \in Covers(TakenBack(rs)) : Takes(CreateReturn(rs, S))
      BY <1>7 DEF OtherArbiterReturns
    <2> DEFINE p == CreateReturn(rs, S)
    <2>2. given' = given /\ rate = 1 /\ ScannedAmount(d) = DepositAmount(d)
      BY <1>7 DEF OtherArbiterReturns
    <2>3. rs \in SUBSET Row /\ rs # {}
      BY CheckAssumption DEF Row
    <2>4. \A r \in rs : r[1] = d /\ Counted(r)
      BY DEF Counted
    <2> HIDE DEF rs
    <2>5. ReturnOf(p, rs) /\ p.ins \subseteq DOMAIN coins /\ p.change \in Nat
      BY <1>1, <2>3, ReturnBuilt
    <2>6. Built(p) /\ p.form = "return" /\ DOMAIN p.outs = rs
      BY <2>3, <2>5, SettlesDeposits DEF Built, ReturnOf
    <2> HIDE DEF p
    <2>7. LedgerGood /\ returned' = returned \cup rs
      BY <2>1, <2>2, <2>6, LedgerMoves DEF p
    <2>8. Sound(d)
      BY <1>1, <2>2, OutputSound
    <2>9. arbiters' = arbiters /\ proposals' = proposals /\ signed' = signed /\ unseen' = unseen
      BY <1>7 DEF OtherArbiterReturns
    <2>10. QED
      BY <1>1, <2>2, <2>4, <2>7, <2>8, <2>9, InvariantFrom DEF arbiters
  <1>8. ASSUME NEW x \in Burn \cup Deposit, PeerNodeSyncs(x) PROVE IInv'
    <2>1. given' = given /\ ledger' = ledger
      BY <1>8 DEF PeerNodeSyncs
    <2>2. LedgerGood /\ returned' = returned
      BY <2>1, LedgerStays
    <2>3. QED
      BY <1>1, <1>8, <2>1, <2>2, InvariantFrom DEF PeerNodeSyncs
  <1>9. ASSUME NEW who \in {"own", "peer"}, NewEra(who) PROVE IInv'
    <2>1. given' = given /\ ledger' = ledger
      BY <1>9 DEF NewEra
    <2>2. LedgerGood /\ returned' = returned
      BY <2>1, LedgerStays
    <2>3. eras' \in [{"own", "peer"} -> 0..2]
      BY <1>1, <1>9 DEF NewEra
    <2>4. QED
      BY <1>1, <1>9, <2>1, <2>2, <2>3, InvariantFrom DEF NewEra
  <1>10. CASE PeerRemoves
    <2>1. given' = given /\ ledger' = ledger
      BY <1>10 DEF PeerRemoves
    <2>2. LedgerGood /\ returned' = returned
      BY <2>1, LedgerStays
    <2>3. QED
      BY <1>1, <1>10, <2>1, <2>2, InvariantFrom DEF PeerRemoves
  <1>11. CASE RemoveReturned
    <2>1. given' = given /\ ledger' = ledger
      BY <1>11 DEF RemoveReturned
    <2>2. LedgerGood /\ returned' = returned
      BY <2>1, LedgerStays
    <2>3. QED
      BY <1>1, <1>11, <2>1, <2>2, InvariantFrom DEF RemoveReturned, Unreturned
  <1>12. CASE SendCachedWithdrawTxs
    <2>1. given' = given /\ ledger' = ledger /\ unseen' = unseen /\ signed' = signed
          /\ eras' = eras /\ peerRows' = peerRows /\ returnRows' = returnRows
          /\ ownRows' = ownRows \ paid /\ entered' = entered
      BY <1>12 DEF SendCachedWithdrawTxs
    <2>2. LedgerGood /\ returned' = returned
      BY <2>1, LedgerStays
    <2>3. \/ proposals' = proposals
          \/ \E bs \in SUBSET ownRows : \E S \in Covers(Taken(bs)) :
               /\ bs # {} /\ \A b \in bs : Sendable(b)
               /\ proposals' = proposals \cup {CreateWithdraw(bs, S)}
      BY <1>12 DEF SendCachedWithdrawTxs, Longest
    <2>4. /\ proposals \subseteq proposals'
          /\ \A p \in proposals' : p \in proposals \/ Fresh(p)
      <3>1. CASE proposals' = proposals
        BY <3>1
      <3>2. ASSUME NEW bs \in SUBSET ownRows, NEW S \in Covers(Taken(bs)),
                   bs # {}, \A b \in bs : Sendable(b),
                   proposals' = proposals \cup {CreateWithdraw(bs, S)}
            PROVE  /\ proposals \subseteq proposals'
                   /\ \A p \in proposals' : p \in proposals \/ Fresh(p)
        <4>1. bs \in SUBSET Burn /\ \A b \in bs : RowOf(b) # {} /\ Sendable(b)
          BY <1>1, <3>2
        <4>2. Fresh(CreateWithdraw(bs, S))
          BY <1>1, <3>2, <4>1, WithdrawBuilt DEF Built
        <4>3. QED
          BY <3>2, <4>2
      <3>3. QED
        BY <2>3, <3>1, <3>2
    <2>5. QED
      BY <1>1, <2>1, <2>2, <2>4, InvariantFrom
  <1>13. CASE SendCachedReturnDepositTxs
    <2>1. given' = given /\ ledger' = ledger /\ unseen' = unseen /\ signed' = signed
          /\ eras' = eras /\ peerRows' = peerRows /\ ownRows' = ownRows
          /\ returnRows' = Unreturned /\ Unreturned \subseteq returnRows
          /\ entered' = entered
      BY <1>13 DEF SendCachedReturnDepositTxs, Unreturned
    <2>2. LedgerGood /\ returned' = returned
      BY <2>1, LedgerStays
    <2>3. \/ proposals' = proposals
          \/ \E rs \in SUBSET returnRows : \E S \in Covers(TakenBack(rs)) :
               /\ rs # {}
               /\ proposals' = proposals \cup {CreateReturn(rs, S)}
      BY <1>13, <2>1 DEF SendCachedReturnDepositTxs, Longest
    <2>4. /\ proposals \subseteq proposals'
          /\ \A p \in proposals' : p \in proposals \/ Fresh(p)
      <3>1. CASE proposals' = proposals
        BY <3>1
      <3>2. ASSUME NEW rs \in SUBSET returnRows, NEW S \in Covers(TakenBack(rs)), rs # {},
                   proposals' = proposals \cup {CreateReturn(rs, S)}
            PROVE  /\ proposals \subseteq proposals'
                   /\ \A p \in proposals' : p \in proposals \/ Fresh(p)
        <4>1. rs \in SUBSET Row /\ \A r \in rs : Counted(r)
          BY <1>1 DEF IInv, EnteredInv
        <4>2. Fresh(CreateReturn(rs, S))
          <5> DEFINE p == CreateReturn(rs, S)
          <5>1. ReturnOf(p, rs) /\ p.ins \subseteq DOMAIN coins /\ p.change \in Nat
            BY <1>1, <3>2, <4>1, ReturnBuilt
          <5> HIDE DEF p
          <5>2. DOMAIN p.outs = rs
            BY <4>1, <5>1, SettlesDeposits
          <5>3. Fresh(p)
            BY <4>1, <5>1, <5>2 DEF Built
          <5>4. QED
            BY <5>3 DEF p
        <4>3. QED
          BY <3>2, <4>2
      <3>3. QED
        BY <2>3, <3>1, <3>2
    <2>5. QED
      BY <1>1, <2>1, <2>2, <2>4, InvariantFrom
  <1>14. CASE Reset
    <2>1. given' = given /\ ledger' = ledger
      BY <1>14 DEF Reset
    <2>2. LedgerGood /\ returned' = returned
      BY <2>1, LedgerStays
    <2>3. QED
      BY <1>1, <1>14, <2>1, <2>2, InvariantFrom DEF Reset, arbiters
  <1>15. ASSUME NEW p \in proposals, Check(p) PROVE IInv'
    <2>1. given' = given /\ ledger' = ledger
      BY <1>15 DEF Check
    <2>2. LedgerGood /\ returned' = returned
      BY <2>1, LedgerStays
    <2>3. ASSUME p.form = "return", NEW d \in Settles(p) PROVE Sound(d)
      <3>1. PICK rs \in SUBSET Row : ReturnOf(p, rs)
        BY <1>1, <2>3 DEF Built, WithdrawOf
      <3>2. d \in DepositsOf(rs) /\ d \in Deposit
        BY <2>3, <3>1, SettlesDeposits
      <3>3. rate = 1 /\ ScannedAmount(d) = DepositAmount(d)
        BY <1>1, <1>15, <3>1, <3>2, ReturnAgrees DEF Check
      <3>4. QED
        BY <1>1, <3>2, <3>3, OutputSound
    <2>4. QED
      BY <1>1, <1>15, <2>1, <2>2, <2>3, InvariantFrom DEF Check, arbiters
  <1>16. ASSUME NEW p \in proposals, CheckCutShort(p) PROVE IInv'
    <2>1. given' = given /\ ledger' = ledger
      BY <1>16 DEF CheckCutShort
    <2>2. LedgerGood /\ returned' = returned
      BY <2>1, LedgerStays
    <2>3. Settles(p) \subseteq unseen'
      <3>1. PICK rs \in SUBSET Row : ReturnOf(p, rs)
        BY <1>1, <1>16 DEF CheckCutShort, Built, WithdrawOf
      <3>2. Settles(p) = DepositsOf(rs) /\ OutHashes(p) = [r \in rs |-> r[1]]
        BY <3>1, SettlesDeposits
      <3>3. Settles(p) = Range(OutHashes(p))
        BY <3>2 DEF Range, DepositsOf
      <3>4. QED
        BY <1>16, <3>3 DEF CheckCutShort
    <2>4. QED
      BY <1>1, <1>16, <2>1, <2>2, <2>3, InvariantFrom DEF CheckCutShort, arbiters
  <1>17. ASSUME NEW p \in proposals, SubmitTaken(p) PROVE IInv'
    <2>1. given' = given /\ Takes(p) /\ p \in signed
          /\ proposals' = proposals \ {p} /\ signed' = signed \ {p}
          /\ eras' = eras /\ ownRows' = ownRows /\ peerRows' = peerRows
          /\ returnRows' = returnRows /\ entered' = entered /\ unseen' = unseen
      BY <1>17 DEF SubmitTaken, Decided
    <2>2. /\ LedgerGood
          /\ \A r \in returned' : r \in returned \/ Counted(r)
          /\ \A r \in returned' : r \in returned \/ r[1] \in unseen \/ Sound(r[1])
      BY <2>1, SignedTaken
    <2>3. QED
      BY <1>1, <2>1, <2>2, InvariantFrom
  <1>18. ASSUME NEW p \in proposals, SubmitRefused(p) PROVE IInv'
    <2>1. given' = given /\ ledger' = ledger
      BY <1>18 DEF SubmitRefused
    <2>2. LedgerGood /\ returned' = returned
      BY <2>1, LedgerStays
    <2>3. QED
      BY <1>1, <1>18, <2>1, <2>2, InvariantFrom DEF SubmitRefused, Decided
  <1>19. ASSUME NEW p \in proposals, SubmitDoubleSpend(p) PROVE IInv'
    <2>1. given' = given /\ ledger' = ledger
      BY <1>19 DEF SubmitDoubleSpend
    <2>2. LedgerGood /\ returned' = returned
      BY <2>1, LedgerStays
    <2>3. QED
      BY <1>1, <1>19, <2>1, <2>2, InvariantFrom DEF SubmitDoubleSpend, Decided, arbiters
  <1>20. ASSUME NEW p \in proposals, SubmitPanics(p) PROVE IInv'
    <2>1. given' = given /\ p \in signed /\ proposals' = {} /\ signed' = {}
          /\ arbiters' = arbiters /\ unseen' = unseen
          /\ (Takes(p) \/ ledger' = ledger)
      BY <1>20 DEF SubmitPanics
    <2>2. /\ LedgerGood
          /\ \A r \in returned' : r \in returned \/ Counted(r)
          /\ \A r \in returned' : r \in returned \/ r[1] \in unseen \/ Sound(r[1])
      BY <2>1, LedgerStays, SignedTaken
    <2>3. QED
      BY <1>1, <2>1, <2>2, InvariantFrom DEF arbiters
  <1>21. CASE UNCHANGED checkVars
    <2>1. given' = given /\ ledger' = ledger /\ arbiters' = arbiters
          /\ proposals' = proposals /\ signed' = signed /\ unseen' = unseen
      BY <1>21 DEF checkVars
    <2>2. LedgerGood /\ returned' = returned
      BY <2>1, LedgerStays
    <2>3. QED
      BY <1>1, <2>1, <2>2, InvariantFrom DEF arbiters
  <1>22. QED
    BY <1>3, <1>4, <1>5, <1>6, <1>7, <1>8, <1>9, <1>10, <1>11, <1>12, <1>13, <1>14, <1>15,
       <1>16, <1>17, <1>18, <1>19, <1>20, <1>21 DEF CheckNext

\* Every proposal is what the builder made of rows, a signed return is sound
\* or its check was cut short, and the books balance by what the builder makes.
THEOREM ProposalsBuilt ==
  CheckSpec => []IInv
  <1>1. CheckInit => IInv
    BY IInvInit
  <1>2. IInv /\ [CheckNext]_checkVars => IInv'
    BY IInvNext
  <1>3. QED
    BY <1>1, <1>2, PTL DEF CheckSpec

-----------------------------------------------------------------------------
(***************************************************************************)
(* What follows for returns and for the books.                             *)
(***************************************************************************)
\* A return is agreed to by exactly the checkers whose node knows of the
\* failures, at an exchange rate of 1 and for deposits whose payloads list
\* all (checkReturnDepositTxPayload against CreateFailedDepositTransaction).
THEOREM ReturnsAgreedExactly ==
  CheckSpec => []ReturnAgreedIff
  <1>1. IInv => ReturnAgreedIff
    <2> SUFFICES ASSUME IInv, NEW p \in proposals, p.form = "return"
                 PROVE  Agrees(p) <=>
                          /\ rate = 1
                          /\ Settles(p) \subseteq peerNode
                          /\ \A d \in Settles(p) : ScannedAmount(d) = DepositAmount(d)
      BY DEF ReturnAgreedIff
    <2>1. Given /\ Built(p)
      BY DEF IInv, BuildInv
    <2>2. PICK rs \in SUBSET Row : ReturnOf(p, rs)
      BY <2>1 DEF Built, WithdrawOf
    <2>3. Settles(p) = DepositsOf(rs)
      BY <2>2, SettlesDeposits
    <2>4. QED
      BY <2>1, <2>2, <2>3, ReturnAgrees
  <1>2. QED
    BY <1>1, ProposalsBuilt, PTL

\* The bank loses what was burnt and what was deposited in vain, every user
\* gets what is due, and the rest is in the coins of the bank; only for
\* returns whose check was cut short is it what the builder computed.  A burn
\* is paid once; a deposit is returned by one transaction, for as many rows as
\* ReturnDepositTransactions, which has no unique key, got of it.
THEOREM BooksAlwaysBalance ==
  CheckSpec => []BooksBalance
  <1>1. IInv => BooksBalance
    <2> SUFFICES ASSUME IInv PROVE BooksBalance
      OBVIOUS
    <2>1. \A r \in returned : Lost(r[1]) = Value(ScannedAmount(r[1]))
      BY DEF IInv, SignedInv, Sound, Lost
    <2>2. \A r \in returned : Back(r[1]) = Value(ScannedAmount(r[1]) - ReturnFee)
      BY DEF IInv, SignedInv, Sound, Back
    <2>3. SumFunction([r \in returned |-> Lost(r[1])]) = TakenBack(returned)
      <3>1. [r \in returned |-> Lost(r[1])] = [r \in returned |-> Value(ScannedAmount(r[1]))]
        BY <2>1
      <3>2. QED
        BY <3>1 DEF TakenBack
    <2>4. ASSUME NEW a \in Address
          PROVE  SumFunction([r \in {r \in returned : DepositFrom[r[1]] = a} |-> Back(r[1])])
                   = DueBack(returned, a)
      <3>1. [r \in {r \in returned : DepositFrom[r[1]] = a} |-> Back(r[1])]
              = [r \in {r \in returned : DepositFrom[r[1]] = a}
                   |-> Value(ScannedAmount(r[1]) - ReturnFee)]
        BY <2>2
      <3>2. QED
        BY <3>1 DEF DueBack
    <2>5. CoinSum(Unspent) = SumFunction(Funds) - Taken(paid)
                             - SumFunction([r \in returned |-> Lost(r[1])])
      BY <2>3 DEF IInv, BooksInv
    <2>6. \A a \in Address :
            received[a] = SumFunction([w \in {w \in Parse(paid) : Asset(w).to = a}
                                         |-> Value(Asset(w).cross)])
                          + SumFunction([r \in {r \in returned : DepositFrom[r[1]] = a} |-> Back(r[1])])
      BY <2>4 DEF IInv, BooksInv, Due
    <2>7. ASSUME NEW d \in Deposit
          PROVE  LET n == Cardinality({r \in returned : r[1] = d})
                 IN  n <= 1 \/ n <= entered[d]
      <3> DEFINE mine == {r \in returned : r[1] = d}
                 most == IF entered[d] = 0 THEN 1 ELSE entered[d]
      <3>1. entered[d] \in Nat
        BY DEF IInv, EnteredInv
      <3>2. ASSUME NEW r \in mine PROVE r \in {d} \X (1..most)
        <4>1. r \in Row /\ Counted(r)
          BY DEF IInv, BuildInv, EnteredInv
        <4>2. r[2] \in 1..MaxScans /\ r = <<d, r[2]>>
          BY <4>1, RowTypes
        <4>3. r[2] = 1 \/ r[2] <= entered[d]
          BY <4>1 DEF Counted
        <4>4. r[2] \in 1..most
          BY <3>1, <4>2, <4>3, CheckAssumption
        <4>5. QED
          BY <4>2, <4>4
      <3>3. /\ IsFiniteSet({d} \X (1..most))
            /\ Cardinality({d} \X (1..most)) = Cardinality({d}) * Cardinality(1..most)
            /\ Cardinality({d}) = 1 /\ Cardinality(1..most) = most
        <4>1. most \in Nat /\ 1 <= most
          BY <3>1
        <4> HIDE DEF most
        <4>2. IsFiniteSet(1..most) /\ Cardinality(1..most) = most
          BY <4>1, FS_Interval
        <4>3. IsFiniteSet({d}) /\ Cardinality({d}) = 1
          BY FS_Singleton
        <4>4. QED
          BY <4>2, <4>3, FS_Product
      <3>4. IsFiniteSet(mine) /\ Cardinality(mine) <= Cardinality({d} \X (1..most))
        <4>1. mine \subseteq {d} \X (1..most)
          BY <3>2
        <4> HIDE DEF mine, most
        <4>2. QED
          BY <3>3, <4>1, FS_Subset
      <3>5. Cardinality(mine) \in Nat
        BY <3>4, FS_CardinalityType
      <3>6. Cardinality(mine) <= most
        <4> HIDE DEF mine
        <4>1. QED
          BY <3>1, <3>3, <3>4, <3>5
      <3>7. Cardinality(mine) <= 1 \/ Cardinality(mine) <= entered[d]
        <4> HIDE DEF mine
        <4>1. QED
          BY <3>1, <3>5, <3>6
      <3>8. QED
        BY <3>7
    <2>8. QED
      BY <2>5, <2>6, <2>7 DEF BooksBalance
  <1>2. QED
    BY <1>1, ProposalsBuilt, PTL

-----------------------------------------------------------------------------
(***************************************************************************)
(* The check of a withdraw.                                                *)
(***************************************************************************)
\* The amounts agree with assets that are those of the rows, at whatever
\* places they stand, if no fraction is cut off.
LEMMA AmountsAgreeIff ==
  ASSUME Given, NEW bs \in SUBSET Burn, NEW p, WithdrawOf(p, bs),
         NEW D, IsFiniteSet(D), NEW m \in Bijection(D, Parse(bs)),
         NEW as, DOMAIN as = D, \A x \in D : as[x] = Asset(m[x]),
         p.change \in Nat
  PROVE  AmountsAgree(p, as) <=> NoFraction(bs)
  <1> DEFINE W == Parse(bs)
             A == [w \in W |-> Value(Asset(w).amount)]
             C == [w \in W |-> Value(Asset(w).cross)]
             F == [w \in W |-> Value(Asset(w).amount - Asset(w).cross)]
             sent(a) == {w \in W : Asset(w).to = a}
  <1>1. /\ IsFiniteSet(W)
        /\ \A w \in W : Asset(w) \in [to : Address, amount : Nat, cross : Nat]
    BY BurnTypes
  <1>2. \A w \in W : /\ Asset(w).to \in Address
                     /\ Asset(w).amount \in Nat /\ Asset(w).cross \in Nat
                     /\ Asset(w).cross > 0 /\ Asset(w).amount - Asset(w).cross > 0
                     /\ Asset(w).amount - Asset(w).cross \in Nat
    <2>1. ASSUME NEW w \in W
          PROVE  Asset(w).cross > 0 /\ Asset(w).amount - Asset(w).cross >= MinFee
      <3>1. w[1] \in bs /\ w[2] \in RowOf(w[1])
        BY BurnTypes
      <3>2. Sendable(w[1])
        BY <3>1 DEF WithdrawOf
      <3>3. QED
        BY <3>1, <3>2 DEF Sendable, Asset
    <2>2. MinFee \in Nat /\ MinFee > 0
      BY CheckAssumption
    <2>3. \A w \in W : /\ Asset(w).to \in Address
                       /\ Asset(w).amount \in Nat /\ Asset(w).cross \in Nat
      BY <1>1
    <2> HIDE DEF W
    <2>4. QED
      BY <2>1, <2>2, <2>3
  <1>3. /\ m \in [D -> W]
        /\ \A x, y \in D : m[x] = m[y] => x = y
        /\ \A w \in W : \E x \in D : m[x] = w
    BY DEF Bijection, Injection, Surjection, IsInjective
  <1>4. /\ p.form # "return" /\ DOMAIN p.outs = W
        /\ \A w \in W : p.outs[w].to = Asset(w).to /\ p.outs[w].value = Value(Asset(w).cross)
        /\ CoinSum(p.ins) = Taken(bs) + p.change
    BY DEF WithdrawOf
  <1>5. rate \in Nat \ {0}
    BY GivenTypes
  <1>6. \A w \in W : /\ Value(Asset(w).amount) \in Nat /\ Value(Asset(w).cross) \in Nat
                     /\ Value(Asset(w).amount - Asset(w).cross) \in Nat
                     /\ Value(Asset(w).cross) + Value(Asset(w).amount - Asset(w).cross)
                          <= Value(Asset(w).amount)
    <2>1. ASSUME NEW w \in W
          PROVE  Value(Asset(w).cross) + Value(Asset(w).amount - Asset(w).cross)
                   <= Value(Asset(w).amount)
      <3>1. /\ Asset(w).cross \in Nat /\ Asset(w).amount - Asset(w).cross \in Nat
            /\ Asset(w).cross + (Asset(w).amount - Asset(w).cross) = Asset(w).amount
        BY <1>2
      <3>2. Asset(w).cross \div rate + (Asset(w).amount - Asset(w).cross) \div rate
              <= (Asset(w).cross + (Asset(w).amount - Asset(w).cross)) \div rate
        BY <1>5, <3>1, DividedApart
      <3>3. QED
        BY <3>1, <3>2 DEF Value
    <2>2. QED
      BY <1>2, <1>5, <2>1, Division DEF Value
  <1> HIDE DEF W
  <1>7. \A x \in D : as[x].amount > 0 /\ as[x].cross >= 0 /\ as[x].cross < as[x].amount
    <2>1. \A w \in W : Asset(w).amount > 0 /\ Asset(w).cross >= 0
                       /\ Asset(w).cross < Asset(w).amount
      BY <1>2
    <2>2. \A x \in D : m[x] \in W
      BY <1>3
    <2>3. QED
      BY <2>1, <2>2
  <1>8. SumFunction([x \in D |-> Value(as[x].amount - as[x].cross)]) = SumFunction(F)
    <2> DEFINE f == [x \in D |-> Value(as[x].amount - as[x].cross)]
    <2>1. DOMAIN f = D /\ DOMAIN F = W /\ m \in Bijection(D, W)
      BY DEF W
    <2>2. \A x \in D : f[x] = F[m[x]]
      BY <1>3
    <2>3. \A w \in W : F[w] \in Int
      BY <1>6
    <2> HIDE DEF f, F
    <2>4. SumFunction(f) = SumFunction(F)
      BY <2>1, <2>2, <2>3, SumCarried
    <2>5. QED
      BY <2>4 DEF f
  <1>9. SumFunction([x \in D |-> Value(as[x].cross)]) = SumFunction(C)
    <2> DEFINE f == [x \in D |-> Value(as[x].cross)]
    <2>1. DOMAIN f = D /\ DOMAIN C = W /\ m \in Bijection(D, W)
      BY DEF W
    <2>2. \A x \in D : f[x] = C[m[x]]
      BY <1>3
    <2>3. \A w \in W : C[w] \in Int
      BY <1>6
    <2> HIDE DEF f, C
    <2>4. SumFunction(f) = SumFunction(C)
      BY <2>1, <2>2, <2>3, SumCarried
    <2>5. QED
      BY <2>4 DEF f
  <1>10. [x \in DOMAIN p.outs |-> p.outs[x].value] = C
    BY <1>4
  <1>11. Cardinality(D) = Cardinality(DOMAIN p.outs)
    BY <1>4, FS_Bijection DEF ExistsBijection, W
  <1>12. Targets(as) = Targets(p.outs) /\ Targets(as) \subseteq Address
    <2>1. Targets(as) = {Asset(w).to : w \in W}
      <3>1. \A x \in D : as[x].to = Asset(m[x]).to /\ m[x] \in W
        BY <1>3
      <3>2. Targets(as) = {as[x].to : x \in D}
        BY DEF Targets
      <3> HIDE DEF Asset
      <3>3. ASSUME NEW a \in {Asset(w).to : w \in W} PROVE a \in Targets(as)
        <4>1. PICK w \in W : a = Asset(w).to
          BY <3>3
        <4>2. PICK x \in D : m[x] = w
          BY <1>3
        <4>3. QED
          BY <3>1, <3>2, <4>1, <4>2
      <3>4. ASSUME NEW a \in Targets(as) PROVE a \in {Asset(w).to : w \in W}
        BY <3>1, <3>2
      <3>5. QED
        BY <3>3, <3>4
    <2>2. Targets(p.outs) = {Asset(w).to : w \in W}
      BY <1>4 DEF Targets
    <2>3. QED
      BY <1>2, <2>1, <2>2
  <1>13. ASSUME NEW a
         PROVE  /\ SumFunction([x \in To(a, as) |-> as[x].cross])
                     = SumFunction([w \in sent(a) |-> Asset(w).cross])
                /\ SumFunction([x \in To(a, p.outs) |-> p.outs[x].value])
                     = SumFunction([w \in sent(a) |-> Value(Asset(w).cross)])
                /\ a \notin Targets(as) => sent(a) = {}
    <2>1. To(a, p.outs) = sent(a)
      BY <1>4 DEF To
    <2>2. [x \in To(a, p.outs) |-> p.outs[x].value] = [w \in sent(a) |-> Value(Asset(w).cross)]
      BY <1>4, <2>1
    <2>3. a \notin Targets(as) => sent(a) = {}
      <3>1. ASSUME NEW w \in sent(a) PROVE a \in Targets(as)
        <4>1. w \in W /\ Asset(w).to = a
          BY <3>1
        <4>2. PICK x \in D : m[x] = w
          BY <1>3, <4>1
        <4>3. as[x].to = a
          BY <4>1, <4>2
        <4>4. QED
          BY <4>3 DEF Targets
      <3>2. QED
        BY <3>1
    <2>4. SumFunction([x \in To(a, as) |-> as[x].cross])
            = SumFunction([w \in sent(a) |-> Asset(w).cross])
      <3> DEFINE S == To(a, as)
                 T == sent(a)
                 n == [x \in S |-> m[x]]
                 e == [w \in T |-> Asset(w).cross]
                 f == [x \in S |-> as[x].cross]
      <3>1. S \in SUBSET D /\ \A x \in D : x \in S <=> m[x] \in T
        BY <1>3 DEF To
      <3>2. IsFiniteSet(S)
        <4> HIDE DEF S
        <4>1. QED
          BY <3>1, FS_Subset
      <3>3. n \in Bijection(S, T)
        <4>1. T \subseteq W
          OBVIOUS
        <4>2. n \in [S -> T] /\ \A x \in S : n[x] = m[x]
          BY <3>1
        <4> HIDE DEF S, T, n
        <4>3. \A x, y \in S : n[x] = n[y] => x = y
          BY <1>3, <3>1, <4>2
        <4>4. \A w \in T : \E x \in S : n[x] = w
          BY <1>3, <3>1, <4>1, <4>2
        <4>5. QED
          BY <4>2, <4>3, <4>4 DEF Bijection, Injection, Surjection, IsInjective
      <3>4. DOMAIN e = T /\ \A w \in T : e[w] \in Int
        BY <1>2
      <3>5. DOMAIN f = S /\ \A x \in S : f[x] = e[n[x]]
        BY <3>1
      <3> HIDE DEF S, T, n, e, f
      <3>6. SumFunction(f) = SumFunction(e)
        BY <3>2, <3>3, <3>4, <3>5, SumCarried
      <3>7. QED
        BY <3>6 DEF e, f, S, T
    <2>5. QED
      BY <2>2, <2>3, <2>4
  <1>14. CoinSum(p.ins) = SumFunction(C) + p.change + SumFunction(F)
           <=> \A w \in W : Value(Asset(w).amount)
                 = Value(Asset(w).cross) + Value(Asset(w).amount - Asset(w).cross)
    <2> DEFINE G == [w \in W |-> C[w] + F[w]]
    <2>1. \A w \in W : /\ A[w] \in Int /\ C[w] \in Int /\ F[w] \in Int
                       /\ G[w] \in Int /\ G[w] <= A[w] /\ G[w] = C[w] + F[w]
      BY <1>6
    <2>2. CoinSum(p.ins) = SumFunction(A) + p.change
      BY <1>4 DEF Taken, W
    <2>3. DOMAIN A = W /\ DOMAIN C = W /\ DOMAIN F = W /\ DOMAIN G = W
      OBVIOUS
    <2>4. (\A w \in W : G[w] = A[w])
            <=> \A w \in W : Value(Asset(w).amount)
                  = Value(Asset(w).cross) + Value(Asset(w).amount - Asset(w).cross)
      <3>1. \A w \in W : /\ A[w] = Value(Asset(w).amount)
                         /\ G[w] = Value(Asset(w).cross) + Value(Asset(w).amount - Asset(w).cross)
        OBVIOUS
      <3> HIDE DEF A, G
      <3>2. QED
        BY <3>1
    <2> HIDE DEF A, C, F, G
    <2>5. /\ SumFunction(A) = SumFunctionOnSet(A, W) /\ SumFunction(C) = SumFunctionOnSet(C, W)
          /\ SumFunction(F) = SumFunctionOnSet(F, W)
      BY <2>3 DEF SumFunction
    <2>6. SumFunctionOnSet(G, W) = SumFunctionOnSet(C, W) + SumFunctionOnSet(F, W)
      BY <1>1, <2>1, SumPlus
    <2>7. /\ SumFunctionOnSet(A, W) \in Int /\ SumFunctionOnSet(C, W) \in Int
          /\ SumFunctionOnSet(F, W) \in Int
      BY <1>1, <2>1, SumType
    <2>8. CoinSum(p.ins) = SumFunction(C) + p.change + SumFunction(F)
            <=> SumFunctionOnSet(G, W) = SumFunctionOnSet(A, W)
      BY <2>2, <2>5, <2>6, <2>7
    <2>9. SumFunctionOnSet(G, W) = SumFunctionOnSet(A, W) => \A w \in W : G[w] = A[w]
      BY <1>1, <2>1, SumLeq
    <2>10. (\A w \in W : G[w] = A[w]) => SumFunctionOnSet(G, W) = SumFunctionOnSet(A, W)
      <3>1. ASSUME \A w \in W : G[w] = A[w]
            PROVE  SumFunctionOnSet(G, W) = SumFunctionOnSet(A, W)
        <4>1. \A w \in W : A[w] \in Int /\ G[w] = A[w]
          BY <2>1, <3>1
        <4>2. QED
          BY <1>1, <4>1, SumEqual
      <3>2. QED
        BY <3>1
    <2>11. QED
      BY <2>4, <2>8, <2>9, <2>10
  <1>15. (\A a \in Targets(as) :
            Value(SumFunction([x \in To(a, as) |-> as[x].cross]))
              = SumFunction([x \in To(a, p.outs) |-> p.outs[x].value]))
           <=> \A a \in Address :
                 Value(SumFunction([w \in sent(a) |-> Asset(w).cross]))
                   = SumFunction([w \in sent(a) |-> Value(Asset(w).cross)])
    <2> DEFINE same(a) == Value(SumFunction([w \in sent(a) |-> Asset(w).cross]))
                            = SumFunction([w \in sent(a) |-> Value(Asset(w).cross)])
    <2>1. ASSUME NEW a, a \notin Targets(as) PROVE same(a)
      <3>1. sent(a) = {}
        BY <1>13, <2>1
      <3>2. /\ SumFunction([w \in sent(a) |-> Asset(w).cross]) = 0
            /\ SumFunction([w \in sent(a) |-> Value(Asset(w).cross)]) = 0
        <4> DEFINE e == [w \in sent(a) |-> Asset(w).cross]
                   f == [w \in sent(a) |-> Value(Asset(w).cross)]
        <4>1. DOMAIN e = {} /\ DOMAIN f = {}
          BY <3>1
        <4> HIDE DEF e, f
        <4>2. SumFunction(e) = 0 /\ SumFunction(f) = 0
          BY <4>1, SumEmpty DEF SumFunction
        <4>3. QED
          BY <4>2 DEF e, f
      <3>3. 0 \div rate = 0
        BY <1>5
      <3>4. QED
        BY <3>2, <3>3 DEF Value
    <2>2. ASSUME NEW a
          PROVE  same(a) <=> Value(SumFunction([x \in To(a, as) |-> as[x].cross]))
                               = SumFunction([x \in To(a, p.outs) |-> p.outs[x].value])
      BY <1>13
    <2> HIDE DEF same
    <2>3. (\A a \in Targets(as) : same(a)) <=> \A a \in Address : same(a)
      BY <1>12, <2>1
    <2>4. QED
      BY <2>2, <2>3 DEF same
  <1>16. (\A w \in W : Value(Asset(w).amount)
             = Value(Asset(w).cross) + Value(Asset(w).amount - Asset(w).cross))
         /\ (\A a \in Address :
               Value(SumFunction([w \in sent(a) |-> Asset(w).cross]))
                 = SumFunction([w \in sent(a) |-> Value(Asset(w).cross)]))
         <=> NoFraction(bs)
    BY DEF NoFraction, W
  <1>17. QED
    <2>1. SumFunction([x \in DOMAIN p.outs |-> p.outs[x].value]) = SumFunction(C)
      BY <1>10
    <2>2. AmountsAgree(p, as)
            <=> /\ CoinSum(p.ins) = SumFunction(C) + p.change + SumFunction(F)
                /\ \A a \in Targets(as) :
                     Value(SumFunction([x \in To(a, as) |-> as[x].cross]))
                       = SumFunction([x \in To(a, p.outs) |-> p.outs[x].value])
      <3> HIDE DEF C, F
      <3>1. QED
        BY <1>7, <1>8, <1>9, <1>11, <1>12, <2>1 DEF AmountsAgree
    <2> HIDE DEF C, F, sent
    <2>3. QED
      BY <1>14, <1>15, <1>16, <2>2

\* The checker's rows answer for a withdraw if it has them all, with one
\* asset each (GetSideChainTxsFromHashes).
LEMMA RowsAnswerIff ==
  ASSUME Given, NEW bs \in SUBSET Burn, \A b \in bs : RowOf(b) # {}
  PROVE  RowsAnswer([w \in Parse(bs) |-> w[1]])
           <=> bs \subseteq peerRows /\ \A b \in bs : Cardinality(RowOf(b)) = 1
  <1> DEFINE firsts == [w \in Parse(bs) |-> w[1]]
             W == Parse(bs)
  <1>1. IsFiniteSet(W) /\ IsFiniteSet(bs)
    BY BurnTypes
  <1>2. DOMAIN firsts = W
    OBVIOUS
  <1>3. /\ Range(firsts) = bs /\ firsts \in Surjection(W, bs)
        /\ firsts \in Injection(W, bs) <=> \A b \in bs : Cardinality(RowOf(b)) = 1
    BY FirstsAre
  <1> HIDE DEF W, firsts
  <1>4. /\ Cardinality(bs) <= Cardinality(W)
        /\ Cardinality(bs) = Cardinality(W) <=> firsts \in Injection(W, bs)
    BY <1>1, <1>3, FS_Surjection
  <1>5. /\ Cardinality(bs \cap peerRows) <= Cardinality(bs)
        /\ Cardinality(bs) = Cardinality(bs \cap peerRows) => bs = bs \cap peerRows
        /\ IsFiniteSet(bs \cap peerRows)
    <2>1. bs \cap peerRows \in SUBSET bs
      OBVIOUS
    <2>2. QED
      BY <1>1, <2>1, FS_Subset
  <1>6. /\ Cardinality(bs) \in Nat /\ Cardinality(W) \in Nat
        /\ Cardinality(bs \cap peerRows) \in Nat
    BY <1>1, <1>5, FS_CardinalityType
  <1>7. RowsAnswer(firsts) <=> Cardinality(bs \cap peerRows) = Cardinality(W)
    BY <1>2, <1>3 DEF RowsAnswer
  <1>8. bs \subseteq peerRows => bs \cap peerRows = bs
    OBVIOUS
  <1>9. RowsAnswer(firsts)
          <=> bs \subseteq peerRows /\ Cardinality(bs) = Cardinality(W)
    <2>1. Cardinality(bs \cap peerRows) = Cardinality(W)
            => Cardinality(bs) = Cardinality(W)
      BY <1>4, <1>5, <1>6
    <2>2. bs = bs \cap peerRows => bs \subseteq peerRows
      OBVIOUS
    <2>3. Cardinality(bs \cap peerRows) = Cardinality(W) => bs \subseteq peerRows
      BY <1>5, <2>1, <2>2
    <2>4. bs \subseteq peerRows => Cardinality(bs \cap peerRows) = Cardinality(bs)
      BY <1>8
    <2>5. QED
      BY <1>7, <2>1, <2>3, <2>4
  <1>10. RowsAnswer(firsts)
           <=> bs \subseteq peerRows /\ \A b \in bs : Cardinality(RowOf(b)) = 1
    BY <1>3, <1>4, <1>9
  <1>11. QED
    BY <1>10 DEF firsts, W

\* What the node says of burns with an asset each, or the rows of any, agrees
\* with a withdraw of them if no fraction is cut off; what the node says of
\* others does not.
LEMMA OwedAgrees ==
  ASSUME Given, NEW bs \in SUBSET Burn, NEW p, WithdrawOf(p, bs), p.change \in Nat,
         NEW hs, hs = [w \in Parse(bs) |-> w[1]]
  PROVE  LET one == \A b \in bs : Len(burnt[b]) = 1
         IN  /\ RowsAnswer(hs) \/ one =>
                  /\ AmountsAgree(p, Owed(hs)) <=> NoFraction(bs)
                  /\ NoneFrozen(Owed(hs))
             /\ one => \A b \in bs : Cardinality(RowOf(b)) = 1
             /\ ~RowsAnswer(hs) /\ AmountsAgree(p, Owed(hs)) => one
  <1> DEFINE W == Parse(bs)
             one == \A b \in bs : Len(burnt[b]) = 1
             D == UNION {{w} \X DOMAIN burnt[hs[w]] : w \in W}
             asked == [x \in D |-> burnt[hs[x[1]]][x[2]]]
             of == [x \in D |-> x[1]]
  <1>1. /\ IsFiniteSet(W)
        /\ \A w \in W : /\ w = <<w[1], w[2]>> /\ w[1] \in bs /\ w[2] \in RowOf(w[1])
                        /\ hs[w] = w[1]
        /\ \A b \in bs : \A i \in RowOf(b) : <<b, i>> \in W
    BY BurnTypes
  <1>2. DOMAIN hs = W /\ Range(hs) = bs /\ \A b \in bs : RowOf(b) # {}
    BY FirstsAre DEF WithdrawOf
  <1>3. \A b \in bs : /\ DOMAIN burnt[b] = 1..Len(burnt[b]) /\ Len(burnt[b]) \in Nat
                      /\ IsFiniteSet(DOMAIN burnt[b]) /\ RowOf(b) \subseteq DOMAIN burnt[b]
    BY RowFinite
  <1>4. \A w \in W : Asset(w).to \notin Frozen
    BY <1>1 DEF Asset, RowOf
  <1>5. ASSUME RowsAnswer(hs)
        PROVE  /\ AmountsAgree(p, Owed(hs)) <=> NoFraction(bs)
               /\ NoneFrozen(Owed(hs))
    <2> DEFINE as == [w \in W |-> Asset(w)]
               same == [w \in W |-> w]
    <2>1. Owed(hs) = as
      BY <1>2, <1>5 DEF Owed
    <2>2. same \in Bijection(W, W)
      BY DEF Bijection, Injection, Surjection, IsInjective
    <2>3. DOMAIN as = W /\ \A w \in W : as[w] = Asset(same[w])
      OBVIOUS
    <2>4. AmountsAgree(p, as) <=> NoFraction(bs)
      <3>1. IsFiniteSet(W) /\ same \in Bijection(W, Parse(bs))
        BY <1>1, <2>2
      <3>2. DOMAIN as = W /\ \A w \in W : as[w] = Asset(same[w])
        BY <2>3
      <3> HIDE DEF W, as, same, Asset
      <3>3. ASSUME NEW f, DOMAIN f = W, \A w \in W : f[w] = Asset(same[w])
            PROVE  AmountsAgree(p, f) <=> NoFraction(bs)
        BY <3>1, <3>3, AmountsAgreeIff
      <3>4. QED
        BY <3>2, <3>3
    <2> HIDE DEF W, as, same
    <2>5. NoneFrozen(as)
      BY <1>4, <2>3 DEF NoneFrozen, as
    <2>6. QED
      BY <2>1, <2>4, <2>5
  <1>6. ~RowsAnswer(hs) => Owed(hs) = asked
    BY <1>2 DEF Owed
  <1>7. \A x \in D : /\ x = <<x[1], x[2]>> /\ x[1] \in W
                     /\ x[2] \in DOMAIN burnt[hs[x[1]]]
    OBVIOUS
  <1>8. ASSUME NEW w \in W PROVE \A j \in DOMAIN burnt[hs[w]] : <<w, j>> \in D
    OBVIOUS
  <1>9. IsFiniteSet(D)
    <2> DEFINE pieces == {{w} \X DOMAIN burnt[hs[w]] : w \in W}
               piece == [w \in W |-> {w} \X DOMAIN burnt[hs[w]]]
    <2>1. \A w \in W : IsFiniteSet({w} \X DOMAIN burnt[hs[w]])
      BY <1>1, <1>3, FS_Singleton, FS_Product
    <2>2. \A T \in pieces : IsFiniteSet(T)
      BY <2>1
    <2>3. piece \in Surjection(W, pieces)
      BY DEF Surjection
    <2> HIDE DEF W, pieces, piece
    <2>4. IsFiniteSet(pieces)
      BY <1>1, <2>3, FS_Surjection
    <2>5. IsFiniteSet(UNION pieces)
      BY <2>2, <2>4, FS_UNION
    <2>6. QED
      BY <2>5 DEF pieces
  <1>10. DOMAIN asked = D /\ DOMAIN of = D /\ \A x \in D : of[x] = x[1]
    OBVIOUS
  <1>11. of \in Surjection(D, W)
    <2>1. \A w \in W : \E j : j \in DOMAIN burnt[hs[w]]
      BY <1>1, <1>2, <1>3
    <2>2. ASSUME NEW w \in W PROVE \E x \in D : of[x] = w
      <3>1. PICK j : j \in DOMAIN burnt[hs[w]]
        BY <2>1
      <3>2. <<w, j>> \in D /\ <<w, j>>[1] = w
        BY <1>8, <3>1
      <3> HIDE DEF D, of
      <3>3. of[<<w, j>>] = w
        BY <1>10, <3>2
      <3>4. QED
        BY <3>2, <3>3
    <2>3. of \in [D -> W]
      BY <1>7
    <2> HIDE DEF D, of, W
    <2>4. QED
      BY <2>2, <2>3 DEF Surjection
  <1>12. ASSUME of \in Injection(D, W) PROVE one
    <2>1. \A x, y \in D : of[x] = of[y] => x = y
      BY <1>12 DEF Injection, IsInjective
    <2>2. ASSUME NEW b \in bs PROVE Len(burnt[b]) = 1
      <3>1. PICK i \in RowOf(b) : TRUE
        BY <1>2
      <3>2. <<b, i>> \in W /\ hs[<<b, i>>] = b
        BY <1>1, <3>1
      <3>3. i \in 1..Len(burnt[b]) /\ Len(burnt[b]) \in Nat
        BY <1>3, <3>1
      <3>4. ASSUME NEW j \in 1..Len(burnt[b]) PROVE j = i
        <4>1. <<<<b, i>>, j>> \in D /\ <<<<b, i>>, i>> \in D
          BY <1>3, <1>8, <3>2, <3>3
        <4> HIDE DEF D, of
        <4>2. of[<<<<b, i>>, j>>] = of[<<<<b, i>>, i>>]
          BY <1>10, <4>1
        <4>3. <<<<b, i>>, j>> = <<<<b, i>>, i>>
          BY <2>1, <4>1, <4>2
        <4>4. QED
          BY <4>3
      <3>5. 1 \in 1..Len(burnt[b]) /\ Len(burnt[b]) \in 1..Len(burnt[b])
        BY <3>3
      <3>6. QED
        BY <3>4, <3>5
    <2>3. QED
      BY <2>2
  <1>13. ASSUME AmountsAgree(p, asked) PROVE one
    <2>1. Cardinality(D) = Cardinality(DOMAIN p.outs)
      BY <1>10, <1>13 DEF AmountsAgree
    <2>2. DOMAIN p.outs = W
      BY DEF WithdrawOf
    <2> HIDE DEF D, of, W, one
    <2>3. of \in Injection(D, W)
      BY <1>9, <1>11, <2>1, <2>2, FS_Surjection
    <2>4. QED
      BY <1>12, <2>3
  <1>14. ASSUME one, NEW b \in bs PROVE RowOf(b) = {1} /\ DOMAIN burnt[b] = {1}
    BY <1>2, <1>3, <1>14
  <1>15. ASSUME one
         PROVE  /\ AmountsAgree(p, asked) <=> NoFraction(bs)
                /\ NoneFrozen(asked)
    <2>1. \A w \in W : DOMAIN burnt[hs[w]] = {1} /\ w[2] = 1
      BY <1>1, <1>14, <1>15
    <2>2. \A x \in D : asked[x] = Asset(of[x]) /\ of[x] \in W
      <3>1. \A x \in D : x[1] \in W /\ x[2] = 1
        BY <1>7, <2>1
      <3>2. \A w \in W : Asset(w) = burnt[hs[w]][1]
        BY <1>1, <2>1 DEF Asset
      <3>3. \A x \in D : asked[x] = burnt[hs[x[1]]][x[2]]
        OBVIOUS
      <3> HIDE DEF D, W, asked, of, Asset
      <3>4. QED
        BY <1>10, <3>1, <3>2, <3>3
    <2>3. of \in Injection(D, W)
      <3>1. ASSUME NEW x \in D, NEW y \in D, of[x] = of[y] PROVE x = y
        <4>1. x[2] = 1 /\ y[2] = 1 /\ x[1] = y[1] /\ x = <<x[1], x[2]>> /\ y = <<y[1], y[2]>>
          BY <1>7, <1>10, <2>1, <3>1
        <4>2. QED
          BY <4>1
      <3>2. of \in [D -> W]
        BY <1>7
      <3> HIDE DEF D, W, of
      <3>3. QED
        BY <3>1, <3>2 DEF Injection, IsInjective
    <2> HIDE DEF D, W, asked, of, Asset
    <2>4. of \in Bijection(D, W)
      BY <1>11, <2>3 DEF Bijection
    <2>5. AmountsAgree(p, asked) <=> NoFraction(bs)
      BY <1>9, <1>10, <2>2, <2>4, AmountsAgreeIff DEF W
    <2>6. NoneFrozen(asked)
      BY <1>4, <1>10, <2>2 DEF NoneFrozen
    <2>7. QED
      BY <2>5, <2>6
  <1>16. one => \A b \in bs : Cardinality(RowOf(b)) = 1
    BY <1>14, FS_Singleton
  <1> HIDE DEF D, W, asked, of
  <1>17. QED
    BY <1>5, <1>6, <1>13, <1>15, <1>16

\* The withdraws the builder makes are agreed to as WithdrawAgreedIff says.
LEMMA WithdrawAgrees ==
  ASSUME Given, eras \in [{"own", "peer"} -> 0..2],
         NEW bs \in SUBSET Burn, NEW p, WithdrawOf(p, bs), p.change \in Nat
  PROVE  LET formKnown == CASE p.form = "V0" -> eras["peer"] = 0 /\ listSent
                            [] p.form = "V1" -> eras["peer"] > 0
                            [] p.form = "V2" -> eras["peer"] = 2
         IN  Agrees(p) <=>
               /\ formKnown
               /\ NoFraction(bs)
               /\ \A b \in bs : Cardinality(RowOf(b)) = 1
               /\ \/ bs \subseteq peerRows
                  \/ bs \subseteq peerNode /\ \A b \in bs : Len(burnt[b]) = 1
  <1> DEFINE hs == [w \in Parse(bs) |-> w[1]]
             one == \A b \in bs : Len(burnt[b]) = 1
             single == \A b \in bs : Cardinality(RowOf(b)) = 1
             amounts == /\ NoFraction(bs) /\ single
                        /\ bs \subseteq peerRows \/ (bs \subseteq peerNode /\ one)
             found == /\ Known(hs) /\ AmountsAgree(p, Owed(hs))
                      /\ NoneFrozen(Owed(hs))
             foundV0 == /\ Known(hs) /\ AmountsAgree(p, Owed(hs))
                        /\ RowsAnswer(hs) \/ NoneFrozen(Owed(hs))
  <1>1. (\A b \in bs : RowOf(b) # {}) /\ bs # {} /\ p.form \in {"V0", "V1", "V2"}
    BY DEF WithdrawOf
  <1>2. Range(hs) = bs
    BY <1>1, FirstsAre
  <1>3. RowsAnswer(hs) <=> bs \subseteq peerRows /\ single
    BY <1>1, RowsAnswerIff
  <1>4. /\ RowsAnswer(hs) \/ one => /\ AmountsAgree(p, Owed(hs)) <=> NoFraction(bs)
                                    /\ NoneFrozen(Owed(hs))
        /\ one => single
        /\ ~RowsAnswer(hs) /\ AmountsAgree(p, Owed(hs)) => one
    BY OwedAgrees
  <1>5. Known(hs) <=> RowsAnswer(hs) \/ bs \subseteq peerNode
    BY <1>2 DEF Known
  <1>6. DOMAIN hs # {}
    <2>1. Parse(bs) # {}
      <3>1. PICK b \in bs : TRUE
        BY <1>1
      <3>2. PICK i \in RowOf(b) : TRUE
        BY <1>1
      <3>3. <<b, i>> \in Parse(bs)
        BY BurnTypes
      <3>4. QED
        BY <3>3
    <2>2. QED
      BY <2>1
  <1>7. /\ p.form = "V0" => p.hashes = hs /\ DOMAIN OutHashes(p) = {}
        /\ p.form # "V0" => OutHashes(p) = hs
    BY SettlesBurns
  <1>8. eras["peer"] \in 0..2
    OBVIOUS
  <1> HIDE DEF hs, one, single
  <1>9. (found <=> amounts) /\ (foundV0 <=> amounts)
    BY <1>3, <1>4, <1>5
  <1>10. /\ p.form = "V0" => (V0Agrees(p) <=> listSent /\ amounts)
         /\ p.form # "V0" => ~V0Agrees(p)
    BY <1>7, <1>9 DEF V0Agrees
  <1>11. /\ p.form = "V0" => ~V1Agrees(p)
         /\ p.form # "V0" => (V1Agrees(p) <=> amounts)
    BY <1>6, <1>7, <1>9 DEF V1Agrees
  <1> DEFINE formKnown == CASE p.form = "V0" -> eras["peer"] = 0 /\ listSent
                            [] p.form = "V1" -> eras["peer"] > 0
                            [] p.form = "V2" -> eras["peer"] = 2
  <1>12. /\ p.form = "V0" => (formKnown <=> eras["peer"] = 0 /\ listSent)
         /\ p.form = "V1" => (formKnown <=> eras["peer"] > 0)
         /\ p.form = "V2" => (formKnown <=> eras["peer"] = 2)
    OBVIOUS
  <1>13. /\ p.form = "V0" => (Agrees(p) <=> eras["peer"] = 0 /\ V0Agrees(p))
         /\ p.form = "V1" => (Agrees(p) <=> eras["peer"] > 0 /\ V1Agrees(p))
         /\ p.form = "V2" => (Agrees(p) <=> eras["peer"] = 2 /\ V1Agrees(p))
    <2>1. CASE p.form = "V0"
      BY <1>8, <1>11, <2>1 DEF Agrees
    <2>2. CASE p.form = "V1"
      BY <1>8, <1>10, <2>2 DEF Agrees
    <2>3. CASE p.form = "V2"
      BY <2>3 DEF Agrees
    <2>4. QED
      BY <1>1, <2>1, <2>2, <2>3
  <1> HIDE DEF formKnown, amounts
  <1>14. Agrees(p) <=> formKnown /\ amounts
    BY <1>1, <1>10, <1>11, <1>12, <1>13
  <1>15. QED
    BY <1>14 DEF formKnown, amounts, one, single

\* A withdraw of the builder is agreed to exactly if the checker is of its
\* era, no fraction is cut off, each burn has one payable asset, and the
\* checker has the rows of all, or its node knows of all and the scan cut no
\* burn down (checkWithdrawFromSidechainPayload, and its V1 and Schnorr
\* versions, against CreateWithdrawTransactionV0, V1 and the Schnorr one).
THEOREM WithdrawsAgreedExactly ==
  CheckSpec => []WithdrawAgreedIff
  <1>1. IInv => WithdrawAgreedIff
    <2>1. ASSUME IInv, NEW p \in proposals, p.form # "return"
          PROVE  \E bs \in SUBSET Burn :
                   WithdrawOf(p, bs) /\ Settles(p) = bs
      <3>1. Given /\ Built(p)
        BY <2>1 DEF IInv, BuildInv
      <3>2. PICK bs \in SUBSET Burn : WithdrawOf(p, bs)
        BY <2>1, <3>1 DEF Built, ReturnOf
      <3>3. QED
        BY <3>1, <3>2, SettlesBurns
    <2>2. ASSUME IInv, NEW p \in proposals
          PROVE  Given /\ eras \in [{"own", "peer"} -> 0..2] /\ p.change \in Nat
      BY <2>2 DEF IInv, BuildInv, Built
    <2>3. QED
      BY <2>1, <2>2, WithdrawAgrees DEF WithdrawAgreedIff
  <1>2. QED
    BY <1>1, ProposalsBuilt, PTL
=============================================================================
