------------------------------- MODULE Select -------------------------------
(***************************************************************************)
(* The SELECT pipeline (src/executor/executor.go, operator.go, join.go and *)
(* eval.go) on the query                                                   *)
(*                                                                         *)
(*   SELECT ... FROM l JOIN r ON l.k = r.k' [WHERE l.k = lit AND p]        *)
(*                                                                         *)
(* The base access path is a scan or an index seek, the join a nested loop *)
(* or an indexed nested loop, and what is left of WHERE is a filter on     *)
(* top.  Rows are known by their positions, p by its truth value on each   *)
(* row of l, and the projection keeps every row.  The tables do not change *)
(* while the query runs: it reads its transaction's snapshot.  An index    *)
(* seek here finds all rows of its key; module BTree is about when it      *)
(* does.  NULLs are not indexed, and an index page has room for integers   *)
(* only: a key of any other type is stored as 0.  A column holds values of *)
(* its type and NULLs (INSERT and UPDATE check it).  Values are named      *)
(* alike in every type: only their types tell the integer 0 from a text    *)
(* called 0.  The SQL dialect has no NULL literal:                         *)
(* NULLs come with statements built as syntax trees, which the executor    *)
(* accepts.                                                                *)
(***************************************************************************)
EXTENDS Integers, Sequences, FiniteSets

CONSTANTS Key,         \* non-null values of the joined columns
          Null,        \* the NULL value
          zero,        \* the value that integers call 0
          ColumnType,  \* types of columns and literals, "INT" among them
          MaxRows      \* bound: rows of each table

ASSUME SelectAssumption ==
  /\ Null \notin Key /\ zero \in Key /\ "INT" \in ColumnType /\ MaxRows \in Nat

\* What an expression evaluates to; "error" is a comparison of different types.
Truth == {"true", "false", "null", "error"}

\* The query and the tables' definitions: which joined columns are indexed,
\* whether there is a WHERE, whether the joined columns have the same name, the
\* literal, the types of the columns and of the literal, and whether the indexes
\* have entries of versions that this transaction does not see.
Query == [leftIndex : BOOLEAN, rightIndex : BOOLEAN, where : BOOLEAN, sameName : BOOLEAN,
          lit : Key, leftType : ColumnType, rightType : ColumnType, litType : ColumnType,
          stale : BOOLEAN]

Value == Key \cup {Null}

VARIABLES left,       \* rows of l: the joined column and the truth of p
          right,      \* rows of r: the joined column
          query,      \* the query
          child,      \* positions of l the base access path has yet to deliver
          leftRow,    \* the row of l being joined
          rightIter,  \* positions of r yet to be tried against it
          out,        \* rows delivered: pairs of positions
          status      \* "running", "done" or "error"

qvars == <<left, right, query, child, leftRow, rightIter, out, status>>

BoundedSeq(S) == UNION {[1 .. n -> S] : n \in 0 .. MaxRows}

(***************************************************************************)
(* Expressions                                                             *)
(***************************************************************************)

\* `=` on value a of type s and value b of type t: NULL when either is, an error
\* when the types differ.
evalComparison(a, s, b, t) ==
  IF Null \in {a, b} THEN "null"
  ELSE IF s # t THEN "error"
  ELSE IF a = b THEN "true" ELSE "false"

\* Mutant: AND that takes NULL for its neutral element.
andSkipNull(x, y) ==
  IF "error" \in {x, y} THEN "error" ELSE IF "false" \in {x, y} THEN "false" ELSE "true"

\* AND: both operands are evaluated first, and false wins over NULL.
evalAnd(x, y) ==
  IF "error" \in {x, y} THEN "error"
  ELSE IF "false" \in {x, y} THEN "false"
  ELSE IF "null" \in {x, y} THEN "null" ELSE "true"

evalWhere(v) == v = "true"

(***************************************************************************)
(* Access paths                                                            *)
(***************************************************************************)

\* A scan operator that has yet to deliver the positions in S delivers the
\* lowest of them next.
ScanOp(S, i) == i \in S /\ \A j \in S : i <= j

\* What an index page holds of a value v of type t: its Int field.
IndexKey(v, t) == IF t = "INT" THEN v ELSE zero

\* The index entry of a value v of type t is equal to the key k.
Sought(v, t, k) == v # Null /\ k # Null /\ IndexKey(v, t) = k

\* The base access path: a seek when WHERE has an equality on an indexed
\* column, else every row.
BasePath ==
  {i \in DOMAIN left :
     query.where /\ query.leftIndex => Sought(left[i].k, query.leftType, query.lit)}

\* The rows of r the join tries against a left row with key k: those the index
\* yields, or the whole materialized table.
Probe(k) ==
  {j \in DOMAIN right : query.rightIndex => Sought(right[j], query.rightType, k)}

LeftKeys == {left[i].k : i \in DOMAIN left}
RightKeys == {right[j] : j \in DOMAIN right}

\* Mutant: a seek fails for any key that the index does not hold.
SeekFailsMissing(k, t, keys) == t # "INT" \/ k \notin keys

\* A seek of a key k of type t, in an index of the values in keys, ends in an
\* error at the first entry it compares with: when k is NULL, or no integer.
SeekFails(k, t, keys) ==
  (k = Null \/ t # "INT") /\ (query.stale \/ keys \ {Null} # {})

BaseFails == query.where /\ query.leftIndex /\ SeekFails(query.lit, query.litType, LeftKeys)

ProbeFails(i) == query.rightIndex /\ SeekFails(left[i].k, query.leftType, RightKeys)

\* Whether the join fails to get its next left row, or the rows of r for it.
PullError == BaseFails \/ \E i \in child : ScanOp(child, i) /\ ProbeFails(i)

\* The ON condition on the combined row.  A column is looked up by its name
\* alone, so with equal names both sides find the left one.
On(i, j) ==
  IF query.sameName
  THEN evalComparison(left[i].k, query.leftType, left[i].k, query.leftType)
  ELSE evalComparison(left[i].k, query.leftType, right[j], query.rightType)

\* The WHERE that is left for the filter: without the equality when the base
\* path is a seek on it.
Remaining(i) ==
  IF ~query.where THEN "true"
  ELSE IF query.leftIndex THEN left[i].p
  ELSE evalAnd(evalComparison(left[i].k, query.leftType, query.lit, query.litType), left[i].p)

(***************************************************************************)
(* Actions                                                                 *)
(***************************************************************************)

Init ==
  /\ left \in BoundedSeq([k : Value, p : Truth])
  /\ right \in BoundedSeq(Value)
  /\ query \in Query
  /\ child = BasePath
  /\ leftRow = 0
  /\ rightIter = {}
  /\ out = <<>>
  /\ status = "running"

\* Mutant: the left operator delivers its first row again and again.
PullLeftAgain ==
  /\ status = "running"
  /\ rightIter = {}
  /\ ~PullError
  /\ \E i \in child :
       /\ ScanOp(child, i)
       /\ leftRow' = i
       /\ rightIter' = Probe(left[i].k)
  /\ UNCHANGED <<left, right, query, child, out, status>>

\* The join pulls the next left row once the rows of r are used up.
PullLeft ==
  /\ status = "running"
  /\ rightIter = {}
  /\ ~PullError
  /\ \E i \in child :
       /\ ScanOp(child, i)
       /\ leftRow' = i
       /\ child' = child \ {i}
       /\ rightIter' = Probe(left[i].k)
  /\ UNCHANGED <<left, right, query, out, status>>

\* executeSelect drops the rows it has when any operator fails.
PullFails ==
  /\ status = "running"
  /\ rightIter = {}
  /\ PullError
  /\ status' = "error"
  /\ out' = <<>>
  /\ UNCHANGED <<left, right, query, child, leftRow, rightIter>>

\* One combined row: tested against ON, then against the filter.
TryRight ==
  /\ status = "running"
  /\ \E j \in rightIter :
       /\ ScanOp(rightIter, j)
       /\ On(leftRow, j) # "error"
       /\ ~(evalWhere(On(leftRow, j)) /\ Remaining(leftRow) = "error")
       /\ rightIter' = rightIter \ {j}
       /\ out' = IF evalWhere(On(leftRow, j)) /\ evalWhere(Remaining(leftRow))
                 THEN Append(out, <<leftRow, j>>)
                 ELSE out
  /\ UNCHANGED <<left, right, query, child, leftRow, status>>

\* The ON condition cannot be evaluated on the combined row.
JoinFails ==
  /\ status = "running"
  /\ \E j \in rightIter : ScanOp(rightIter, j) /\ On(leftRow, j) = "error"
  /\ status' = "error"
  /\ out' = <<>>
  /\ UNCHANGED <<left, right, query, child, leftRow, rightIter>>

\* Nor can the filter, on a row that the join has let through.
FilterFails ==
  /\ status = "running"
  /\ \E j \in rightIter : ScanOp(rightIter, j) /\ evalWhere(On(leftRow, j))
  /\ Remaining(leftRow) = "error"
  /\ status' = "error"
  /\ out' = <<>>
  /\ UNCHANGED <<left, right, query, child, leftRow, rightIter>>

Finish ==
  /\ status = "running"
  /\ rightIter = {}
  /\ child = {}
  /\ ~PullError
  /\ status' = "done"
  /\ UNCHANGED <<left, right, query, child, leftRow, rightIter, out>>

Next == PullLeft \/ PullFails \/ TryRight \/ JoinFails \/ FilterFails \/ Finish

\* executeSelect drains the pipeline in a loop.
Spec == Init /\ [][Next]_qvars /\ WF_qvars(Next)

(***************************************************************************)
(* Properties                                                              *)
(***************************************************************************)

\* What the query means, whatever plan is taken.
Answer ==
  {pair \in (DOMAIN left) \X (DOMAIN right) :
     LET l == left[pair[1]]
     IN  /\ query.leftType = query.rightType
         /\ l.k # Null /\ l.k = right[pair[2]]
         /\ query.where => query.litType = query.leftType /\ l.k = query.lit /\ l.p = "true"}

Delivery == {out[n] : n \in DOMAIN out}

\* ON compares a name with itself, and no exact seek has tested the equality.
NameConfused == query.sameName /\ ~(query.rightIndex /\ query.leftType = query.rightType)

\* The integer 0 is sought in an index of a column that holds no integers, where
\* every entry is 0.
ZeroConfused ==
  /\ query.where /\ query.leftIndex
  /\ query.lit = zero /\ query.litType = "INT" /\ query.leftType # "INT"

\* A query that ends without an error has delivered every row of its answer, once:
\* with or without an index on either table, dropping the seeked equality from
\* WHERE, NULLs in keys and predicate, mixed types and empty tables change nothing
\* (buildSelectPlan, NestedLoopJoinOp, IndexedNestedLoopJoinOp).  And it has
\* delivered nothing else but in the two cases of NameConfused and ZeroConfused.
ResultExact ==
  status = "done" =>
    /\ Answer \subseteq Delivery
    /\ Len(out) = Cardinality(Delivery)
    /\ NameConfused \/ ZeroConfused \/ Delivery = Answer

\* core.go's "ColumnRef references a column, optionally qualified by table": a
\* join on l.k = r.k delivers only pairs of rows with equal keys.
QualifiedNames == status = "done" /\ ~ZeroConfused => Delivery \subseteq Answer

\* DESIGN.md's "with index: ... seeks directly to the matching row(s)": a query
\* with an equality on an indexed column delivers only rows that match.
SeeksMatching == status = "done" /\ ~NameConfused => Delivery \subseteq Answer

\* A query fails for a reason in its data: a predicate that cannot be evaluated on
\* some row; ON, or the equality of WHERE when it is not sought, between values of
\* different types; a NULL among the left keys, or keys that are no integers,
\* sought in the index of r; a literal that is no integer sought in that of l.
\* So over integers without NULLs, an index never makes a query fail that a scan
\* answers, and no plan fails on empty tables unless an index has old entries.
FailsForAReason ==
  status = "error" =>
    \/ query.where /\ \E i \in DOMAIN left : left[i].p = "error"
    \/ /\ ~query.sameName /\ query.leftType # query.rightType
       /\ LeftKeys \ {Null} # {} /\ RightKeys \ {Null} # {}
    \/ /\ query.where /\ ~query.leftIndex /\ query.litType # query.leftType
       /\ LeftKeys \ {Null} # {}
    \/ /\ query.rightIndex /\ LeftKeys # {} /\ (query.stale \/ RightKeys \ {Null} # {})
       /\ Null \in LeftKeys \/ query.leftType # "INT"
    \/ /\ query.where /\ query.leftIndex /\ (query.stale \/ LeftKeys \ {Null} # {})
       /\ query.litType # "INT"

\* Every query ends, the nested loop's on an empty right table too.
Terminates == <>(status # "running")
=============================================================================
