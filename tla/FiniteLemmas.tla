---------------------------- MODULE FiniteLemmas ----------------------------
(***************************************************************************)
(* What the proofs of several components use about finite sets: what the   *)
(* operators of SideTable do to a table with finitely many withdraws,      *)
(* whatever the Ids of its rows, and how the sums of the community module  *)
(* Functions are calculated with.                                          *)
(*                                                                         *)
(* An induction over finite sets is made by the smallest set that is a     *)
(* counterexample (SmallestOf).  One such induction says that a sum can be *)
(* taken apart in any order (SumIsAdditive); of what else is said of sums  *)
(* only SumNat needs another.                                              *)
(***************************************************************************)
EXTENDS SideTable, Functions, FiniteSetTheorems, WellFoundedInduction, TLAPS

\* Of the subsets of a finite set, among those of some kind there is one
\* that has no other within it.
LEMMA SmallestOf ==
  ASSUME NEW W, IsFiniteSet(W), NEW Kind \in SUBSET (SUBSET W), Kind # {}
  PROVE  \E V \in Kind : \A U \in Kind : U \subseteq V => U = V
  <1> DEFINE R == StrictSubsetOrdering(W)
  <1>1. IsWellFoundedOn(R, SUBSET W)
    <2>1. IsWellFoundedOn(R, FiniteSubsetsOf(W))
      BY FS_StrictSubsetOrderingWellFounded
    <2>2. QED
      BY <2>1, FS_FiniteSubsetsOfFinite
  <1>2. PICK V \in Kind : \A U \in Kind : ~(<<U, V>> \in R)
    <2> HIDE DEF R
    <2>1. QED
      BY <1>1, WFMin
  <1>3. ASSUME NEW U \in Kind, U \subseteq V PROVE U = V
    BY <1>2, <1>3 DEF StrictSubsetOrdering
  <1>4. QED
    BY <1>3

\* Some row of finitely many has the largest Id.
LEMMA LargestOf ==
  ASSUME NEW W, IsFiniteSet(W), NEW row \in [W -> Nat]
  PROVE  \E n \in {0} \cup {row[w] : w \in W} : \A w \in W : row[w] <= n
  <1> DEFINE Ids == {0} \cup {row[w] : w \in W}
             Bounded(V) == \E n \in Ids : \A v \in V : row[v] <= n
             Unbounded == {V \in SUBSET W : ~Bounded(V)}
  <1>1. ASSUME Unbounded # {} PROVE FALSE
    <2>1. PICK V \in Unbounded : \A U \in Unbounded : U \subseteq V => U = V
      <3> HIDE DEF Unbounded
      <3>1. Unbounded \in SUBSET (SUBSET W)
        BY DEF Unbounded
      <3>2. QED
        BY <1>1, <3>1, SmallestOf
    <2>2. V \subseteq W /\ ~Bounded(V)
      BY <2>1
    <2>3. PICK x \in V : TRUE
      <3>1. V # {}
        BY <2>2
      <3>2. QED
        BY <3>1
    <2>4. PICK n \in Ids : \A v \in V \ {x} : row[v] <= n
      <3>1. V \ {x} \notin Unbounded
        BY <2>1, <2>3
      <3>2. QED
        BY <2>2, <3>1
    <2>5. n \in Nat /\ row[x] \in Ids /\ \A v \in V : row[v] \in Nat
      BY <2>2, <2>3, <2>4
    <2>6. CASE row[x] <= n
      <3>1. \A v \in V : row[v] <= n
        BY <2>4, <2>6
      <3>2. QED
        BY <2>2, <3>1
    <2>7. CASE ~(row[x] <= n)
      <3>1. \A v \in V : row[v] <= row[x]
        BY <2>4, <2>5, <2>7
      <3>2. QED
        BY <2>2, <2>5, <3>1
    <2>8. QED
      BY <2>6, <2>7
  <1>2. W \notin Unbounded
    BY <1>1
  <1>3. QED
    BY <1>2

\* The next row gets an Id, and it is none of those in the table.
LEMMA NextIdIsNew ==
  ASSUME NEW W, IsFiniteSet(W), NEW row \in [W -> Nat]
  PROVE  /\ NextId(row) \in Nat /\ NextId(row) > 0
         /\ \A w \in W : row[w] < NextId(row)
  <1> DEFINE Largest == CHOOSE n \in {0} \cup {row[w] : w \in DOMAIN row} :
                          \A w \in DOMAIN row : row[w] <= n
  <1>1. DOMAIN row = W
    OBVIOUS
  <1>2. /\ Largest \in {0} \cup {row[w] : w \in W}
        /\ \A w \in W : row[w] <= Largest
    BY <1>1, LargestOf
  <1>3. NextId(row) = 1 + Largest
    BY DEF NextId
  <1>4. Largest \in Nat
    BY <1>2
  <1> HIDE DEF Largest
  <1>5. QED
    BY <1>2, <1>3, <1>4

\* An insert gives every withdraw of it a row, and takes none away.
LEMMA InsertedRows ==
  ASSUME NEW W, IsFiniteSet(W), NEW row \in [W -> Nat],
         NEW ws \in SUBSET W, NEW order \in Orders(ws)
  PROVE  /\ Inserted(row, ws, order) \in [W -> Nat]
         /\ Rows(Inserted(row, ws, order)) = Rows(row) \cup ws
  <1>1. /\ NextId(row) \in Nat /\ NextId(row) > 0
    BY NextIdIsNew
  <1>2. \A w \in ws : order[w] \in Nat
    <2>1. order \in [ws -> 0..(Cardinality(ws) - 1)]
      BY DEF Orders
    <2>2. Cardinality(ws) \in Nat
      BY FS_Subset, FS_CardinalityType
    <2>3. QED
      BY <2>1, <2>2
  <1> DEFINE new == Inserted(row, ws, order)
  <1>3. new = [w \in W |-> IF w \in ws /\ row[w] = 0 THEN NextId(row) + order[w] ELSE row[w]]
    BY DEF Inserted
  <1>4. \A w \in W : new[w] \in Nat /\ (new[w] > 0 <=> row[w] > 0 \/ w \in ws)
    BY <1>1, <1>2, <1>3
  <1>5. new \in [W -> Nat]
    BY <1>3, <1>4
  <1> HIDE DEF new
  <1>6. Rows(new) = Rows(row) \cup ws
    BY <1>4, <1>5 DEF Rows
  <1>7. QED
    BY <1>5, <1>6 DEF new

\* A removal takes away the rows it is given, and no other.
LEMMA DeletedRows ==
  ASSUME NEW W, NEW row \in [W -> Nat], NEW ws
  PROVE  /\ Deleted(row, ws) \in [W -> Nat]
         /\ Rows(Deleted(row, ws)) = Rows(row) \ ws
  <1>1. Deleted(row, ws) = [w \in W |-> IF w \in ws THEN 0 ELSE row[w]]
    BY DEF Deleted
  <1>2. QED
    BY <1>1 DEF Rows

\* The rows are withdraws.
LEMMA RowsAre ==
  ASSUME NEW W, NEW row \in [W -> Nat]
  PROVE  /\ Rows(row) \subseteq W
         /\ \A w \in W : w \in Rows(row) <=> row[w] # 0
  BY DEF Rows
-----------------------------------------------------------------------------
(***************************************************************************)
(* Sums.                                                                   *)
(***************************************************************************)
\* g sums up f over the subsets of S.
Additive(g, f, S) ==
  /\ g \in [SUBSET S -> Int]
  /\ g[{}] = 0
  /\ \A T \in SUBSET S : \A x \in S \ T : g[T \cup {x}] = f[x] + g[T]

\* There is a function that sums up f.
LEMMA AdditiveExists ==
  ASSUME NEW S, IsFiniteSet(S), NEW f, \A x \in S : f[x] \in Int
  PROVE  \E g : Additive(g, f, S)
  <1> DEFINE Bad == {V \in SUBSET S : ~ \E g : Additive(g, f, V)}
  <1>1. ASSUME Bad # {} PROVE FALSE
    <2>1. PICK V \in Bad : \A U \in Bad : U \subseteq V => U = V
      <3> HIDE DEF Bad
      <3>1. Bad \in SUBSET (SUBSET S)
        BY DEF Bad
      <3>2. QED
        BY <1>1, <3>1, SmallestOf
    <2>2. V \subseteq S /\ ~ \E g : Additive(g, f, V)
      BY <2>1
    <2>3. V # {}
      <3>1. Additive([T \in SUBSET {} |-> 0], f, {})
        BY DEF Additive
      <3>2. QED
        BY <2>2, <3>1
    <2>4. PICK x \in V : TRUE
      BY <2>3
    <2>5. f[x] \in Int
      BY <2>2, <2>4
    <2>6. V \ {x} \notin Bad
      BY <2>1, <2>4
    <2>7. PICK g : Additive(g, f, V \ {x})
      BY <2>2, <2>6
    <2> DEFINE h == [T \in SUBSET V |-> IF x \in T THEN f[x] + g[T \ {x}] ELSE g[T]]
    <2>8. \A T \in SUBSET V : T \ {x} \in SUBSET (V \ {x}) /\ (x \notin T => T \ {x} = T)
      OBVIOUS
    <2>9. \A T \in SUBSET V : g[T \ {x}] \in Int
      BY <2>7, <2>8 DEF Additive
    <2>10. h \in [SUBSET V -> Int]
      <3>1. \A T \in SUBSET V : (IF x \in T THEN f[x] + g[T \ {x}] ELSE g[T]) \in Int
        <4>1. \A T \in SUBSET V : x \notin T => g[T] \in Int
          BY <2>8, <2>9
        <4>2. \A T \in SUBSET V : f[x] + g[T \ {x}] \in Int
          BY <2>5, <2>9
        <4>3. QED
          BY <4>1, <4>2
      <3>2. QED
        BY <3>1
    <2>11. h[{}] = 0
      BY <2>7 DEF Additive
    <2>12. ASSUME NEW T \in SUBSET V, NEW y \in V \ T
           PROVE  h[T \cup {y}] = f[y] + h[T]
      <3>1. h[T \cup {y}] = IF x \in T \cup {y} THEN f[x] + g[(T \cup {y}) \ {x}] ELSE g[T \cup {y}]
        OBVIOUS
      <3>2. h[T] = IF x \in T THEN f[x] + g[T \ {x}] ELSE g[T]
        OBVIOUS
      <3>3. f[y] \in Int
        BY <2>2
      <3>4. CASE x = y
        <4>1. (T \cup {y}) \ {x} = T
          BY <3>4
        <4>2. QED
          BY <3>1, <3>2, <3>4, <4>1
      <3>5. CASE x # y
        <4>1. (T \cup {y}) \ {x} = (T \ {x}) \cup {y} /\ y \in (V \ {x}) \ (T \ {x})
          BY <3>5
        <4>2. g[(T \ {x}) \cup {y}] = f[y] + g[T \ {x}]
          BY <2>7, <2>8, <4>1 DEF Additive
        <4>3. CASE x \in T
          <5>1. h[T \cup {y}] = f[x] + g[(T \ {x}) \cup {y}] /\ h[T] = f[x] + g[T \ {x}]
            BY <3>1, <3>2, <4>1, <4>3
          <5>2. g[T \ {x}] \in Int
            BY <2>9
          <5> HIDE DEF h
          <5>3. QED
            BY <2>5, <3>3, <4>2, <5>1, <5>2
        <4>4. CASE x \notin T
          <5>1. T \ {x} = T
            BY <4>4
          <5>2. QED
            BY <3>1, <3>2, <3>5, <4>2, <4>4, <5>1
        <4>5. QED
          BY <4>3, <4>4
      <3>6. QED
        BY <3>4, <3>5
    <2>13. Additive(h, f, V)
      <3> HIDE DEF h
      <3>1. QED
        BY <2>10, <2>11, <2>12 DEF Additive
    <2>14. QED
      BY <2>2, <2>13
  <1>2. S \notin Bad
    BY <1>1
  <1>3. QED
    BY <1>2

\* The definition of a sum of the community modules, unfolded once.
LEMMA SumUnfolds ==
  ASSUME NEW f, NEW S
  PROVE  SumFunctionOnSet(f, S) =
           (CHOOSE iter : iter = [s \in SUBSET S |->
              IF s = {} THEN 0
              ELSE f[CHOOSE x \in s : TRUE] + iter[s \ {CHOOSE x \in s : TRUE}]])[S]
  BY DEF SumFunctionOnSet, FoldFunctionOnSet, MapThenFoldSet

\* A function that sums up f says what the sum is.
LEMMA SumIsAdditive ==
  ASSUME NEW S, IsFiniteSet(S), NEW f, NEW g, Additive(g, f, S)
  PROVE  SumFunctionOnSet(f, S) = g[S]
  <1> DEFINE Some(s) == CHOOSE x \in s : TRUE
             Step(iter) == [s \in SUBSET S |->
                              IF s = {} THEN 0 ELSE f[Some(s)] + iter[s \ {Some(s)}]]
             sum == CHOOSE iter : iter = Step(iter)
  <1>1. \A s \in SUBSET S : s # {} => Some(s) \in s
    OBVIOUS
  <1>2. ASSUME NEW s \in SUBSET S, s # {}
        PROVE  g[s] = f[Some(s)] + g[s \ {Some(s)}]
    <2>1. /\ s \ {Some(s)} \in SUBSET S
          /\ Some(s) \in S \ (s \ {Some(s)})
          /\ (s \ {Some(s)}) \cup {Some(s)} = s
      BY <1>1, <1>2
    <2> HIDE DEF Some
    <2>2. QED
      BY <2>1 DEF Additive
  <1>3. g = Step(g)
    <2> HIDE DEF Some
    <2>1. QED
      BY <1>2 DEF Additive
  <1>4. sum = Step(sum)
    <2> HIDE DEF Step
    <2>1. QED
      BY <1>3
  <1>5. \A s \in SUBSET S : sum[s] = IF s = {} THEN 0 ELSE f[Some(s)] + sum[s \ {Some(s)}]
    <2> HIDE DEF sum, Some
    <2>1. QED
      BY <1>4
  <1> HIDE DEF sum, Step, Some
  <1> DEFINE Bad == {V \in SUBSET S : sum[V] # g[V]}
  <1>6. ASSUME Bad # {} PROVE FALSE
    <2>1. PICK V \in Bad : \A U \in Bad : U \subseteq V => U = V
      <3> HIDE DEF Bad
      <3>1. Bad \in SUBSET (SUBSET S)
        BY DEF Bad
      <3>2. QED
        BY <1>6, <3>1, SmallestOf
    <2>2. V \in SUBSET S /\ sum[V] # g[V]
      BY <2>1
    <2>3. V # {}
      BY <1>5, <2>2 DEF Additive
    <2>4. Some(V) \in V
      BY <1>1, <2>2, <2>3
    <2>5. V \ {Some(V)} \notin Bad
      BY <2>1, <2>4
    <2>6. QED
      BY <1>2, <1>5, <2>2, <2>3, <2>5
  <1>7. sum[S] = g[S]
    BY <1>6
  <1>8. SumFunctionOnSet(f, S) = sum[S]
    BY SumUnfolds DEF sum, Step, Some
  <1>9. QED
    BY <1>7, <1>8
\* The sums of a function over the subsets of a finite set.
LEMMA SumsAre ==
  ASSUME NEW S, IsFiniteSet(S), NEW f, \A x \in S : f[x] \in Int
  PROVE  \E g : Additive(g, f, S) /\ \A T \in SUBSET S : SumFunctionOnSet(f, T) = g[T]
  <1>1. PICK g : Additive(g, f, S)
    BY AdditiveExists
  <1>2. ASSUME NEW T \in SUBSET S PROVE SumFunctionOnSet(f, T) = g[T]
    <2> DEFINE h == [U \in SUBSET T |-> g[U]]
    <2>1. Additive(h, f, T)
      BY <1>1 DEF Additive
    <2>2. IsFiniteSet(T)
      BY FS_Subset
    <2>3. h[T] = g[T]
      OBVIOUS
    <2> HIDE DEF h
    <2>4. QED
      BY <2>1, <2>2, <2>3, SumIsAdditive
  <1>3. QED
    BY <1>1, <1>2

LEMMA SumType ==
  ASSUME NEW S, IsFiniteSet(S), NEW f, \A x \in S : f[x] \in Int
  PROVE  SumFunctionOnSet(f, S) \in Int
  <1>1. PICK g : Additive(g, f, S) /\ \A T \in SUBSET S : SumFunctionOnSet(f, T) = g[T]
    BY SumsAre
  <1>2. QED
    BY <1>1 DEF Additive

LEMMA SumEmpty ==
  ASSUME NEW f
  PROVE  SumFunctionOnSet(f, {}) = 0
  <1>1. IsFiniteSet({}) /\ \A x \in {} : f[x] \in Int
    BY FS_EmptySet
  <1>2. PICK g : Additive(g, f, {}) /\ \A T \in SUBSET {} : SumFunctionOnSet(f, T) = g[T]
    BY <1>1, SumsAre
  <1>3. QED
    BY <1>2 DEF Additive

LEMMA SumAdd ==
  ASSUME NEW S, IsFiniteSet(S), NEW x, x \notin S,
         NEW f, \A y \in S \cup {x} : f[y] \in Int
  PROVE  SumFunctionOnSet(f, S \cup {x}) = f[x] + SumFunctionOnSet(f, S)
  <1>1. IsFiniteSet(S \cup {x})
    BY FS_AddElement
  <1>2. PICK g : /\ Additive(g, f, S \cup {x})
                 /\ \A T \in SUBSET (S \cup {x}) : SumFunctionOnSet(f, T) = g[T]
    BY <1>1, SumsAre
  <1>3. g[S \cup {x}] = f[x] + g[S]
    BY <1>2 DEF Additive
  <1>4. QED
    BY <1>2, <1>3

LEMMA SumSingle ==
  ASSUME NEW x, NEW f, f[x] \in Int
  PROVE  SumFunctionOnSet(f, {x}) = f[x]
  <1>1. {} \cup {x} = {x} /\ IsFiniteSet({})
    BY FS_EmptySet
  <1>2. SumFunctionOnSet(f, {} \cup {x}) = f[x] + SumFunctionOnSet(f, {})
    BY <1>1, SumAdd
  <1>3. QED
    BY <1>1, <1>2, SumEmpty

\* The sum over two sets that have nothing in common.
LEMMA SumUnion ==
  ASSUME NEW S, IsFiniteSet(S), NEW T, IsFiniteSet(T), S \cap T = {},
         NEW f, \A x \in S \cup T : f[x] \in Int
  PROVE  SumFunctionOnSet(f, S \cup T) = SumFunctionOnSet(f, S) + SumFunctionOnSet(f, T)
  <1>1. IsFiniteSet(S \cup T)
    BY FS_Union
  <1>2. PICK g : /\ Additive(g, f, S \cup T)
                 /\ \A U \in SUBSET (S \cup T) : SumFunctionOnSet(f, U) = g[U]
    BY <1>1, SumsAre
  <1> DEFINE h == [U \in SUBSET S |-> g[U \cup T] - g[T]]
  <1>3. \A U \in SUBSET S : U \cup T \in SUBSET (S \cup T)
    OBVIOUS
  <1>4. g[T] \in Int /\ \A U \in SUBSET S : g[U \cup T] \in Int
    BY <1>2, <1>3 DEF Additive
  <1>5. h \in [SUBSET S -> Int]
    <2>1. \A U \in SUBSET S : g[U \cup T] - g[T] \in Int
      BY <1>4
    <2>2. QED
      BY <2>1
  <1>6. h[{}] = 0
    <2>1. {} \cup T = T /\ {} \in SUBSET S
      OBVIOUS
    <2>2. h[{}] = g[T] - g[T]
      BY <2>1
    <2>3. QED
      BY <1>4, <2>2
  <1>7. ASSUME NEW U \in SUBSET S, NEW x \in S \ U PROVE h[U \cup {x}] = f[x] + h[U]
    <2>1. /\ U \cup T \in SUBSET (S \cup T) /\ x \in (S \cup T) \ (U \cup T)
          /\ (U \cup {x}) \cup T = (U \cup T) \cup {x}
      OBVIOUS
    <2>2. g[(U \cup {x}) \cup T] = f[x] + g[U \cup T]
      BY <1>2, <2>1 DEF Additive
    <2>3. h[U \cup {x}] = g[(U \cup {x}) \cup T] - g[T] /\ h[U] = g[U \cup T] - g[T]
      OBVIOUS
    <2>4. f[x] \in Int /\ g[U \cup T] \in Int /\ g[T] \in Int
      BY <1>4
    <2> HIDE DEF h
    <2>5. QED
      BY <2>2, <2>3, <2>4
  <1>8. h[S] = g[S \cup T] - g[T]
    OBVIOUS
  <1> HIDE DEF h
  <1>9. Additive(h, f, S)
    BY <1>5, <1>6, <1>7 DEF Additive
  <1>10. SumFunctionOnSet(f, S) = g[S \cup T] - g[T]
    BY <1>8, <1>9, SumIsAdditive
  <1>11. g[S \cup T] \in Int
    BY <1>2 DEF Additive
  <1>12. QED
    BY <1>2, <1>4, <1>10, <1>11

\* The sum of the sums of two functions.
LEMMA SumPlus ==
  ASSUME NEW S, IsFiniteSet(S), NEW e, NEW f, NEW k,
         \A x \in S : e[x] \in Int /\ f[x] \in Int /\ k[x] = e[x] + f[x]
  PROVE  SumFunctionOnSet(k, S) = SumFunctionOnSet(e, S) + SumFunctionOnSet(f, S)
  <1>1. PICK g : Additive(g, e, S) /\ \A T \in SUBSET S : SumFunctionOnSet(e, T) = g[T]
    BY SumsAre
  <1>2. PICK i : Additive(i, f, S) /\ \A T \in SUBSET S : SumFunctionOnSet(f, T) = i[T]
    BY SumsAre
  <1> DEFINE h == [T \in SUBSET S |-> g[T] + i[T]]
  <1>3. \A T \in SUBSET S : g[T] \in Int /\ i[T] \in Int
    BY <1>1, <1>2 DEF Additive
  <1>4. h \in [SUBSET S -> Int]
    BY <1>3
  <1>5. h[{}] = 0
    BY <1>1, <1>2 DEF Additive
  <1>6. ASSUME NEW T \in SUBSET S, NEW x \in S \ T PROVE h[T \cup {x}] = k[x] + h[T]
    <2>1. g[T \cup {x}] = e[x] + g[T] /\ i[T \cup {x}] = f[x] + i[T]
      BY <1>1, <1>2 DEF Additive
    <2>2. h[T \cup {x}] = g[T \cup {x}] + i[T \cup {x}] /\ h[T] = g[T] + i[T]
      OBVIOUS
    <2> HIDE DEF h
    <2>3. QED
      BY <1>3, <2>1, <2>2
  <1>7. h[S] = g[S] + i[S]
    OBVIOUS
  <1> HIDE DEF h
  <1>8. Additive(h, k, S)
    BY <1>4, <1>5, <1>6 DEF Additive
  <1>9. QED
    BY <1>1, <1>2, <1>7, <1>8, SumIsAdditive

\* Equal summands make equal sums.
LEMMA SumEqual ==
  ASSUME NEW S, IsFiniteSet(S), NEW e, NEW f, \A x \in S : e[x] \in Int /\ f[x] = e[x]
  PROVE  SumFunctionOnSet(f, S) = SumFunctionOnSet(e, S)
  <1>1. PICK g : Additive(g, e, S) /\ \A T \in SUBSET S : SumFunctionOnSet(e, T) = g[T]
    BY SumsAre
  <1>2. Additive(g, f, S)
    BY <1>1 DEF Additive
  <1>3. QED
    BY <1>1, <1>2, SumIsAdditive

\* The places of the summands do not matter.
LEMMA SumMoved ==
  ASSUME NEW S, IsFiniteSet(S), NEW T, NEW m \in Bijection(S, T),
         NEW e, \A y \in T : e[y] \in Int, NEW f, \A x \in S : f[x] = e[m[x]]
  PROVE  SumFunctionOnSet(f, S) = SumFunctionOnSet(e, T)
  <1>1. /\ m \in [S -> T]
        /\ \A x, y \in S : m[x] = m[y] => x = y
        /\ \A y \in T : \E x \in S : m[x] = y
    BY DEF Bijection, Injection, Surjection, IsInjective
  <1>2. IsFiniteSet(T)
    BY FS_Bijection DEF ExistsBijection
  <1>3. PICK g : Additive(g, e, T) /\ \A U \in SUBSET T : SumFunctionOnSet(e, U) = g[U]
    BY <1>2, SumsAre
  <1> DEFINE Image(U) == {m[x] : x \in U}
             h == [U \in SUBSET S |-> g[Image(U)]]
  <1>4. \A U \in SUBSET S : Image(U) \in SUBSET T
    BY <1>1
  <1>5. Image({}) = {}
    OBVIOUS
  <1>6. Image(S) = T
    BY <1>1
  <1>7. \A U \in SUBSET S : \A x \in S \ U :
          Image(U \cup {x}) = Image(U) \cup {m[x]} /\ m[x] \in T \ Image(U)
    BY <1>1
  <1> HIDE DEF Image
  <1>8. Additive(h, f, S)
    <2>1. h \in [SUBSET S -> Int]
      BY <1>3, <1>4 DEF Additive
    <2>2. h[{}] = 0
      BY <1>3, <1>5 DEF Additive
    <2>3. ASSUME NEW U \in SUBSET S, NEW x \in S \ U PROVE h[U \cup {x}] = f[x] + h[U]
      <3>1. g[Image(U) \cup {m[x]}] = e[m[x]] + g[Image(U)]
        BY <1>3, <1>4, <1>7 DEF Additive
      <3>2. h[U \cup {x}] = g[Image(U \cup {x})] /\ h[U] = g[Image(U)]
        OBVIOUS
      <3> HIDE DEF h
      <3>3. QED
        BY <1>7, <3>1, <3>2
    <2> HIDE DEF h
    <2>4. QED
      BY <2>1, <2>2, <2>3 DEF Additive
  <1>9. h[S] = g[T]
    BY <1>6
  <1> HIDE DEF h
  <1>10. QED
    BY <1>3, <1>8, <1>9, SumIsAdditive

\* The sum of naturals is one.
LEMMA SumNat ==
  ASSUME NEW S, IsFiniteSet(S), NEW f, \A x \in S : f[x] \in Nat
  PROVE  SumFunctionOnSet(f, S) \in Nat
  <1>1. PICK g : Additive(g, f, S) /\ \A T \in SUBSET S : SumFunctionOnSet(f, T) = g[T]
    BY SumsAre
  <1> DEFINE Bad == {V \in SUBSET S : g[V] \notin Nat}
  <1>2. ASSUME Bad # {} PROVE FALSE
    <2>1. PICK V \in Bad : \A U \in Bad : U \subseteq V => U = V
      <3> HIDE DEF Bad
      <3>1. Bad \in SUBSET (SUBSET S)
        BY DEF Bad
      <3>2. QED
        BY <1>2, <3>1, SmallestOf
    <2>2. V \in SUBSET S /\ g[V] \notin Nat
      BY <2>1
    <2>3. V # {}
      <3>1. g[{}] = 0
        BY <1>1 DEF Additive
      <3>2. QED
        BY <2>2, <3>1
    <2>4. PICK x \in V : TRUE
      BY <2>3
    <2>5. V \ {x} \notin Bad
      BY <2>1, <2>4
    <2>6. /\ V \ {x} \in SUBSET S /\ x \in S \ (V \ {x})
          /\ (V \ {x}) \cup {x} = V
      BY <2>2, <2>4
    <2>7. g[V] = f[x] + g[V \ {x}]
      BY <1>1, <2>6 DEF Additive
    <2>8. f[x] \in Nat /\ g[V \ {x}] \in Nat
      BY <2>5, <2>6
    <2>9. QED
      BY <2>2, <2>7, <2>8
  <1>3. S \notin Bad
    BY <1>2
  <1>4. QED
    BY <1>1, <1>3

\* Larger summands make a larger sum, and an equal one only if they are equal.
LEMMA SumLeq ==
  ASSUME NEW S, IsFiniteSet(S), NEW e, NEW f,
         \A x \in S : e[x] \in Int /\ f[x] \in Int /\ e[x] <= f[x]
  PROVE  /\ SumFunctionOnSet(e, S) <= SumFunctionOnSet(f, S)
         /\ SumFunctionOnSet(e, S) = SumFunctionOnSet(f, S) => \A x \in S : e[x] = f[x]
  <1> DEFINE d == [x \in S |-> f[x] - e[x]]
  <1>1. \A x \in S : d[x] \in Nat /\ d[x] \in Int /\ f[x] = e[x] + d[x] /\ e[x] \in Int
    OBVIOUS
  <1>2. \A x \in S : d[x] = 0 => e[x] = f[x]
    OBVIOUS
  <1> HIDE DEF d
  <1>3. SumFunctionOnSet(f, S) = SumFunctionOnSet(e, S) + SumFunctionOnSet(d, S)
    BY <1>1, SumPlus
  <1>4. SumFunctionOnSet(d, S) \in Nat
    BY <1>1, SumNat
  <1>5. SumFunctionOnSet(e, S) \in Int
    BY <1>1, SumType
  <1>6. ASSUME SumFunctionOnSet(d, S) = 0, NEW x \in S PROVE d[x] = 0
    <2>1. IsFiniteSet(S \ {x})
      BY FS_RemoveElement
    <2>2. (S \ {x}) \cup {x} = S /\ x \notin S \ {x}
      OBVIOUS
    <2>3. \A y \in (S \ {x}) \cup {x} : d[y] \in Int
      BY <1>1
    <2>4. SumFunctionOnSet(d, (S \ {x}) \cup {x}) = d[x] + SumFunctionOnSet(d, S \ {x})
      BY <2>1, <2>2, <2>3, SumAdd
    <2>5. SumFunctionOnSet(d, S \ {x}) \in Nat
      BY <1>1, <2>1, SumNat
    <2>6. QED
      BY <1>1, <1>6, <2>2, <2>4, <2>5
  <1>7. QED
    BY <1>2, <1>3, <1>4, <1>5, <1>6

\* A sum over places of two kinds.
LEMMA SumJoins ==
  ASSUME NEW S, IsFiniteSet(S), NEW T, IsFiniteSet(T), S \cap T = {},
         NEW e, DOMAIN e = S, NEW f, DOMAIN f = T, NEW k, DOMAIN k = S \cup T,
         \A x \in S : e[x] \in Nat /\ k[x] = e[x],
         \A x \in T : f[x] \in Nat /\ k[x] = f[x]
  PROVE  /\ SumFunction(e) \in Nat /\ SumFunction(f) \in Nat
         /\ SumFunction(k) = SumFunction(e) + SumFunction(f)
  <1>1. SumFunctionOnSet(e, S) \in Nat /\ SumFunctionOnSet(f, T) \in Nat
    BY SumNat
  <1>2. SumFunctionOnSet(k, S) = SumFunctionOnSet(e, S)
    BY SumEqual
  <1>3. SumFunctionOnSet(k, T) = SumFunctionOnSet(f, T)
    BY SumEqual
  <1>4. SumFunctionOnSet(k, S \cup T) = SumFunctionOnSet(k, S) + SumFunctionOnSet(k, T)
    BY SumUnion
  <1>5. QED
    BY <1>1, <1>2, <1>3, <1>4 DEF SumFunction

\* A sum whose places are moved.
LEMMA SumCarried ==
  ASSUME NEW S, IsFiniteSet(S), NEW T, NEW m \in Bijection(S, T),
         NEW e, DOMAIN e = T, \A y \in T : e[y] \in Int,
         NEW f, DOMAIN f = S, \A x \in S : f[x] = e[m[x]]
  PROVE  SumFunction(f) = SumFunction(e)
  BY SumMoved DEF SumFunction
==============================================================================
