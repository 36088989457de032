------------------------------ MODULE Planner ------------------------------
(***************************************************************************)
(* Statistics (Analyze and Stats of both engines) and the optimizer that   *)
(* reads them (src/executor/planner).                                      *)
(*                                                                         *)
(* A table is the sequence of values of an INTEGER column k, NULLs         *)
(* included, as the analysing transaction sees it; what makes a change     *)
(* visible is the subject of Mvcc and Memstore, and a rollback shows here  *)
(* as the opposite change.  A query is FROM, a     *)
(* sequence of JOIN clauses, each on column k or on something that the     *)
(* statistics do not know, and a WHERE whose shape is all the estimator    *)
(* looks at.  Plans are left-deep, so a plan is the sequence of its        *)
(* tables.  Floating-point numbers are exact fractions here.               *)
(***************************************************************************)
EXTENDS Integers, Sequences, SequencesExt, FiniteSets, FiniteSetsExt

CONSTANTS Table,
          Live,      \* the tables that change; the others are loaded at the start
          Loaded,    \* what those may hold, and whether they have been analysed
          Value,     \* integers a row may hold
          Null,
          None,      \* no table, no statistics, no plan
          Queries,   \* queries that may be optimized
          MaxRows,   \* bound: rows of a live table
          MaxDrop    \* bound: DROP TABLE, per table

Where == {"none", "opaque", "expr", "eq", "ne", "range", "and", "or"}

ASSUME PlannerAssumption ==
  /\ IsFiniteSet(Table)
  /\ Live \subseteq Table
  /\ Value \subseteq Int
  /\ Null \notin Int
  /\ \A load \in Loaded : \A t \in Table \ Live :
       load[t].rows \in Seq(Value \cup {Null}) /\ load[t].analysed \in BOOLEAN
  /\ MaxRows \in Nat
  /\ MaxDrop \in Nat
  /\ \A q \in Queries :
       /\ q.from \in Table
       /\ q.where \in Where
       /\ q.joins \in Seq([table : Table, on : {"k", "other"}])
  /\ None \notin Seq(Value \cup {Null})
  /\ None \notin [rowCount : Nat, distinct : Nat, nulls : Nat, min : Int \cup {Null}, max : Int \cup {Null}]
  /\ None \notin [tables : Seq(Table), rowCount : Nat, cost : Nat]

VARIABLES engine,    \* "storage" or "memstore"
          rows,      \* the rows of each table, or None
          stats,     \* TableMeta.Stats, or the statsCache of the in-memory engine
          taken,     \* history: the rows the statistics of a table were taken of, and when
          drops,     \* how often each table has been dropped: which table bears the name
          asked,     \* Optimizer: the query it works on, and Optimizer.stats
          result     \* the plan it returned

pvars == <<engine, rows, stats, taken, drops, asked, result>>

(***************************************************************************)
(* Statistics                                                              *)
(***************************************************************************)

\* The Min and Max of the disk engine start from the zero Value, which is the
\* integer 0 and not NULL; those of the in-memory engine start from NULL.
Start(eng) == IF eng = "storage" THEN 0 ELSE Null

Smaller(v, min) == IF min = Null \/ v < min THEN v ELSE min
Larger(v, max) == IF max = Null \/ v > max THEN v ELSE max

\* What the scan of Analyze has gathered, after one more value.
Seen(acc, v) ==
  IF v = Null
    THEN [acc EXCEPT !.nulls = @ + 1]
    ELSE [nulls |-> acc.nulls, values |-> acc.values \cup {v},
          min |-> Smaller(v, acc.min), max |-> Larger(v, acc.max)]

Gathered(eng, s) ==
  LET acc[n \in 0 .. Len(s)] ==
        IF n = 0 THEN [nulls |-> 0, values |-> {}, min |-> Start(eng), max |-> Start(eng)]
                 ELSE Seen(acc[n - 1], s[n])
  IN  acc[Len(s)]

\* The statistics that Analyze stores.
Collect(eng, s) ==
  LET acc == Gathered(eng, s)
  IN  [rowCount |-> Len(s), distinct |-> Cardinality(acc.values), nulls |-> acc.nulls,
       min |-> acc.min, max |-> acc.max]

\* Engine.Stats: the in-memory engine analyses a table that it has no statistics
\* of, and caches them.
Stats(t) ==
  IF engine = "memstore" /\ stats[t] = None /\ rows[t] # None
    THEN Collect(engine, rows[t])
    ELSE stats[t]

\* Mutant: the disk engine keeps the statistics of a dropped table.
AlwaysKept(t) == stats[t]

\* The statistics of the disk engine go with the table's catalog entry; the
\* in-memory engine keeps its cache.
AfterDrop(t) == IF engine = "storage" THEN None ELSE stats[t]

\* What statistics taken of t now are taken of.
Taking(t) == [rows |-> rows[t], life |-> drops[t]]

Init ==
  /\ engine \in {"storage", "memstore"}
  /\ drops = [t \in Table |-> 0]
  /\ \E load \in Loaded :
       /\ rows = [t \in Table |-> IF t \in Live THEN <<>> ELSE load[t].rows]
       /\ taken = [t \in Table |-> IF t \in Live \/ ~load[t].analysed THEN None ELSE Taking(t)]
  /\ stats = [t \in Table |-> IF taken[t] = None THEN None ELSE Collect(engine, taken[t].rows)]
  /\ asked = None
  /\ result = None

Idle == asked = None

Insert(t, v) ==
  /\ Idle
  /\ rows[t] # None
  /\ Len(rows[t]) < MaxRows
  /\ rows' = [rows EXCEPT ![t] = Append(@, v)]
  /\ UNCHANGED <<engine, stats, taken, drops, asked, result>>

\* The order of the rows is of no account: a new version takes the place of the old.
Update(t, i, v) ==
  /\ Idle
  /\ rows[t] # None
  /\ i \in DOMAIN rows[t]
  /\ rows' = [rows EXCEPT ![t] = [@ EXCEPT ![i] = v]]
  /\ UNCHANGED <<engine, stats, taken, drops, asked, result>>

Delete(t, i) ==
  /\ Idle
  /\ rows[t] # None
  /\ i \in DOMAIN rows[t]
  /\ rows' = [rows EXCEPT ![t] = RemoveAt(@, i)]
  /\ UNCHANGED <<engine, stats, taken, drops, asked, result>>

CreateTable(t) ==
  /\ Idle
  /\ rows[t] = None
  /\ rows' = [rows EXCEPT ![t] = <<>>]
  /\ UNCHANGED <<engine, stats, taken, drops, asked, result>>

DropTable(t) ==
  /\ Idle
  /\ rows[t] # None
  /\ drops[t] < MaxDrop
  /\ rows' = [rows EXCEPT ![t] = None]
  /\ stats' = [stats EXCEPT ![t] = AfterDrop(t)]
  /\ drops' = [drops EXCEPT ![t] = @ + 1]
  /\ UNCHANGED <<engine, taken, asked, result>>

Analyze(t) ==
  /\ Idle
  /\ rows[t] # None
  /\ stats' = [stats EXCEPT ![t] = Collect(engine, rows[t])]
  /\ taken' = [taken EXCEPT ![t] = Taking(t)]
  /\ UNCHANGED <<engine, rows, drops, asked, result>>

(***************************************************************************)
(* Estimates and costs, from statistics st                                 *)
(***************************************************************************)

\* What Optimize assumes of a table without statistics.
Unknown == [rowCount |-> 1000, distinct |-> 0, nulls |-> 0, min |-> None, max |-> None]

Distinct(st, t) == IF st[t].distinct > 0 THEN st[t].distinct ELSE 1

\* EstimateJoinSize: a left side that is itself a join has no table name, and so
\* no rows.
EstimateJoinSize(st, left, t, on) ==
  IF Len(left.tables) > 1
    THEN 0
    ELSE (st[left.tables[1]].rowCount * st[t].rowCount)
           \div (IF on = "k" THEN Max({Distinct(st, left.tables[1]), Distinct(st, t)}) ELSE 1)

\* bestAccessPath and costScan: always a sequential scan.
bestAccessPath(st, t) ==
  [tables |-> <<t>>, rowCount |-> st[t].rowCount, cost |-> st[t].rowCount]

\* costJoin: the left side once, and the right table for every row of it.
costJoin(left, right) == left.cost + left.rowCount * right.cost

JoinPlan(st, left, join) ==
  [tables   |-> Append(left.tables, join.table),
   rowCount |-> EstimateJoinSize(st, left, join.table, join.on),
   cost     |-> costJoin(left, bestAccessPath(st, join.table))]

\* Selectivities are fractions <<numerator, denominator>>.
eqSel(st, t) == IF st[t].distinct > 0 THEN <<1, st[t].distinct>> ELSE <<1, 2>>
andSel(l, r) == <<l[1] * r[1], l[2] * r[2]>>

orSel(l, r) == <<l[1] * r[2] + r[1] * l[2] - l[1] * r[1], l[2] * r[2]>>

\* EstimateSelectivity; a predicate on an expression, or on a column without
\* statistics, keeps one half.  AND and OR have a column on their left here, as in
\* estimateBinarySelectivity, and an expression on their right.
EstimateSelectivity(st, t, where) ==
  IF where = "opaque" THEN <<1, 1>>
  ELSE IF where = "expr" \/ st[t] = Unknown THEN <<1, 2>>
  ELSE CASE where = "eq" -> eqSel(st, t)
         [] where = "ne" -> IF st[t].distinct > 0
                              THEN <<st[t].distinct - 1, st[t].distinct>>
                              ELSE <<1, 2>>
         [] where = "range" -> IF st[t].min = Null THEN <<1, 3>> ELSE <<333, 1000>>
         [] where = "and" -> andSel(eqSel(st, t), <<1, 2>>)
         [] where = "or" -> orSel(eqSel(st, t), <<1, 2>>)

(***************************************************************************)
(* The search for the best join order.  list is the order in which Go      *)
(* iterated the map of tables; memo is the map from sets of tables to      *)
(* their plans, as the set of its entries.                                 *)
(***************************************************************************)

Keys(memo) == {e.key : e \in memo}
PlanAt(memo, S) == (CHOOSE e \in memo : e.key = S).plan

Tables(q) == {q.from} \cup {q.joins[i].table : i \in DOMAIN q.joins}

\* The joins findBestJoinForSubset tries for S, as positions in its two loops: the
\* table taken out of S, and a JOIN clause that names it.
Candidates(memo, list, joins, S) ==
  {k \in (DOMAIN list) \X (DOMAIN joins) :
     /\ list[k[1]] \in S
     /\ joins[k[2]].table = list[k[1]]
     /\ S \ {list[k[1]]} \in Keys(memo)}

Earliest(K) == CHOOSE k \in K : \A l \in K : k[1] < l[1] \/ (k[1] = l[1] /\ k[2] <= l[2])

\* Mutant: the first plan found is kept.
FirstFound(plans) == plans[Earliest(DOMAIN plans)]

\* Of the cheapest plans, the one found first.
Cheapest(plans) ==
  plans[Earliest({k \in DOMAIN plans : \A l \in DOMAIN plans : plans[k].cost <= plans[l].cost})]

findBestJoinForSubset(st, memo, list, joins, S) ==
  Cheapest([k \in Candidates(memo, list, joins, S) |->
              JoinPlan(st, PlanAt(memo, S \ {list[k[1]]}), joins[k[2]])])

\* One round of findBestJoinOrder: the subsets of a size, those that no JOIN clause
\* can complete left out.
PlanSubsets(st, memo, list, joins, size) ==
  LET some == {S \in SUBSET ToSet(list) :
                 /\ Cardinality(S) = size
                 /\ size = 1 \/ Candidates(memo, list, joins, S) # {}}
  IN  memo \cup {[key  |-> S,
                  plan |-> IF size = 1 THEN bestAccessPath(st, CHOOSE t \in S : TRUE)
                           ELSE findBestJoinForSubset(st, memo, list, joins, S)] : S \in some}

\* None stands for the left-deep fallback.
findBestJoinOrder(st, list, joins) ==
  LET rounds[size \in 0 .. Len(list)] ==
        IF size = 0 THEN {} ELSE PlanSubsets(st, rounds[size - 1], list, joins, size)
      memo == rounds[Len(list)]
  IN  IF ToSet(list) \in Keys(memo) THEN PlanAt(memo, ToSet(list)) ELSE None

\* The rows the plan delivers after the WHERE filter; filter and projection cost
\* nothing.
Output(st, q, plan) ==
  LET sel == EstimateSelectivity(st, q.from, q.where)
  IN  IF q.where = "none" THEN plan.rowCount ELSE (plan.rowCount * sel[1]) \div sel[2]

\* Optimize: read the statistics of the tables of the query ...
CollectStats(q) ==
  /\ Idle
  /\ asked' = [query |-> q,
               stats |-> [t \in Tables(q) |-> IF Stats(t) = None THEN Unknown ELSE Stats(t)]]
  /\ stats' = [t \in Table |-> IF t \in Tables(q) THEN Stats(t) ELSE stats[t]]
  /\ taken' = [t \in Table |-> IF t \in Tables(q) /\ Stats(t) # stats[t] THEN Taking(t) ELSE taken[t]]
  /\ UNCHANGED <<engine, rows, drops, result>>

\* ... and plan it.
Optimize ==
  /\ asked # None
  /\ result = None
  /\ \E list \in SetToSeqs(Tables(asked.query)) :
       LET plan == findBestJoinOrder(asked.stats, list, asked.query.joins)
       IN  result' = [plan   |-> plan,
                      output |-> IF plan = None THEN None
                                 ELSE Output(asked.stats, asked.query, plan)]
  /\ UNCHANGED <<engine, rows, stats, taken, drops, asked>>

\* The caller has read the plan.
Return ==
  /\ result # None
  /\ asked' = None
  /\ result' = None
  /\ UNCHANGED <<engine, rows, stats, taken, drops>>

Next ==
  \/ \E t \in Live :
       \/ \E v \in Value \cup {Null} : Insert(t, v)
       \/ \E i \in 1 .. MaxRows, v \in Value \cup {Null} : Update(t, i, v)
       \/ \E i \in 1 .. MaxRows : Delete(t, i)
       \/ CreateTable(t)
       \/ DropTable(t)
       \/ Analyze(t)
  \/ \E q \in Queries : CollectStats(q)
  \/ Optimize
  \/ Return

Spec == Init /\ [][Next]_pvars

(***************************************************************************)
(* Properties                                                              *)
(***************************************************************************)

Values(s) == {v \in ToSet(s) : v # Null}

\* What the statistics st of engine eng say if they were taken of the rows s.
Describes(eng, st, s) ==
  /\ st.rowCount = Len(s)
  /\ st.nulls = Cardinality({i \in DOMAIN s : s[i] = Null})
  /\ st.distinct = Cardinality(Values(s))
  /\ \A v \in Values(s) : st.min <= v /\ v <= st.max
  /\ eng = "memstore" =>
       IF Values(s) = {} THEN st.min = Null /\ st.max = Null
                         ELSE st.min = Min(Values(s)) /\ st.max = Max(Values(s))

\* Whatever is inserted, updated, deleted, dropped and created again, the statistics
\* of a table describe the rows they were taken of: row, NULL and distinct counts to
\* the number, every value between minimum and maximum, and in the in-memory engine
\* these are exact.  In the disk engine the rows are those of the table that has the
\* name now, and not of a dropped one of the same name.
StatsDescribe ==
  \A t \in Table : stats[t] # None =>
    /\ Describes(engine, stats[t], taken[t].rows)
    /\ engine = "storage" => rows[t] # None /\ taken[t].life = drops[t]

\* README.md: ANALYZE scans the table "to compute ... min/max values": the minimum
\* and the maximum are values that a row held.  The disk engine compares with the
\* zero Value it starts from, which is no row's.
MinMaxExact ==
  \A t \in Table :
    stats[t] # None /\ Values(taken[t].rows) # {} =>
      /\ stats[t].min = Min(Values(taken[t].rows))
      /\ stats[t].max = Max(Values(taken[t].rows))

\* Every way to join the tables of a query one by one, beginning with FROM.
Orders(q) == {o \in [1 .. Len(q.joins) -> DOMAIN q.joins] : IsInjective(o)}

\* The plan of one such order, put together clause by clause.
PlanOf(st, q, o) ==
  LET plan[n \in 0 .. Len(o)] ==
        IF n = 0 THEN bestAccessPath(st, q.from) ELSE JoinPlan(st, plan[n - 1], q.joins[o[n]])
  IN  plan[Len(o)]

\* The dynamic programme finds a plan for every query, so the left-deep fallback is
\* never needed; it joins each table of the query once.  For a query that names no
\* table twice, the plan begins with FROM and is the cheapest of all orders of the
\* JOIN clauses by the cost model, whatever the order in which Go iterates the map
\* of tables: the best plan of a set of tables extends a best plan of one table
\* less.  And the estimate of its filter's output never exceeds its input, for every
\* shape of predicate.
Optimal ==
  result # None =>
    /\ result.plan # None
    /\ ToSet(result.plan.tables) = Tables(asked.query)
    /\ IsInjective(result.plan.tables)
    /\ result.output \in 0 .. result.plan.rowCount
    /\ Cardinality(Tables(asked.query)) = Len(asked.query.joins) + 1 =>
         /\ result.plan.tables[1] = asked.query.from
         /\ \A o \in Orders(asked.query) :
              result.plan.cost <= PlanOf(asked.stats, asked.query, o).cost
=============================================================================
