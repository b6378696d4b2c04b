------------------------------ MODULE SideTable ------------------------------
(***************************************************************************)
(* SideChainTxs, the table of the withdraws an arbiter found on a side     *)
(* chain.  The Id of a row grows with every insert and TransactionHash is  *)
(* UNIQUE, so the table is a function from withdraws to Ids, 0 for a       *)
(* withdraw without a row.  SELECT without an ORDER BY returns the rows by *)
(* Id.                                                                     *)
(***************************************************************************)
EXTENDS Naturals, FiniteSets

\* The withdraws that have a row.
Rows(row) == {w \in DOMAIN row : row[w] > 0}

\* The Id the next row gets: one more than the largest.
NextId(row) == 1 + CHOOSE n \in {0} \cup {row[w] : w \in DOMAIN row} :
                     \A w \in DOMAIN row : row[w] <= n

\* The orders in which one AddSideChainTxs may insert the withdraws ws.
Orders(ws) == {o \in [ws -> 0..(Cardinality(ws) - 1)] : \A v, w \in ws : o[v] = o[w] => v = w}

\* The table after AddSideChainTxs(ws): a withdraw that has a row keeps it.
Inserted(row, ws, order) ==
  [w \in DOMAIN row |-> IF w \in ws /\ row[w] = 0 THEN NextId(row) + order[w] ELSE row[w]]

\* The table after RemoveSideChainTxs(ws).
Deleted(row, ws) == [w \in DOMAIN row |-> IF w \in ws THEN 0 ELSE row[w]]

\* The first n of the withdraws ws, by Id.
First(row, ws, n) == {w \in ws : Cardinality({v \in ws : row[v] < row[w]}) < n}
==============================================================================
