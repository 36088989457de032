# AURA_SQL: TLA+ models, checks and proofs

AURA_SQL is a small relational engine in Go: SQL text is parsed into a syntax
tree, sessions run statements in explicit or autocommit transactions, an
iterator pipeline answers queries, and a storage engine keeps row versions in
heap files behind a buffer pool, with B+-tree indexes. This directory holds
TLA+ modules translated from that code, the TLC runs that check them, and
TLAPS proofs about every part but the parser and the restart.

Source paths below are relative to `src/`. `PROJECT.json` maps every
definition to its lines.

## 1. Inventory

| component | state | operations | interacts with |
|---|---|---|---|
| MVCC transactions (`storage/engine.go`) | `nextTx`, `activeTxns`, `committed`, one frozen snapshot per running transaction; `Xmin`/`Xmax` stamps on each stored version | Begin, commit, rollback, Insert, Update, Delete, Scan | heap file, index, sessions |
| Heap file and buffer pool (`storage/heapfile.go`, `page.go`, `bufferpool.go`) | file of slotted pages, cached pages, dirty marks | Insert, Get, Update, Delete; FetchPage, Flush, FlushAll, evictPage | engine, index (same pool type) |
| B+-tree (`storage/btree.go`, `btree_insert.go`) | index pages, root page per column in the catalog | CreateIndex, InsertIntoIndex, SeekIndex | engine mutex, catalog, heap file |
| Catalog and DDL (`storage/catalog.go`, `engine.go`) | tables, schemas, index roots; `catalog.json` | AddTable, DropTable, Save, Load | engine life cycle |
| Sessions (`executor/session.go`) | the open transaction, if any | Exec: BEGIN, COMMIT, ROLLBACK, explicit and autocommit statements | executor, engine |
| Executor (`executor/executor.go`, `operator.go`, `join.go`, `eval.go`) | one operator tree per SELECT | INSERT, UPDATE, DELETE row by row; scan, seek, filter, project, two joins | engine interface |
| In-memory engine (`memstore/memstore.go`) | committed rows, row owners, pending changes per transaction | same interface as the storage engine | executor |
| Planner (`executor/planner`) | table statistics | dynamic programming over join orders, costs | engine statistics |
| Parser (`parser`) | token stream | lexing, recursive descent | REPL |
| REPL (`cmd/aura/main.go`) | partial statement buffer, a session | feed a line, drain statements, meta commands | parser, session |

What is hard here: transactions of several sessions interleave between
statements; a rollback undoes nothing on disk, so correctness rests on
visibility alone; one row version has room for one deleter; statements fail
half-way; pages are evicted and written back in any order; leaves split between
equal keys; an index build runs under a mutex that one of its callees takes
again; the catalog is written when DDL happens and pages when they are evicted,
with a crash possible between any two writes; a restart keeps the stamps and
loses the transaction table; rows of the in-memory engine share their value
slices with every scan; statement boundaries and line boundaries do not
coincide; and the optimizer lists tables in the random order of a Go map. The
`hazards` in `PROJECT.json` list each of these at its line.

What makes each part correct: a transaction reads one committed state plus its
own work (MVCC); failed calls publish and leak nothing (sessions); the cache is
invisible (heap file); an index never loses a row and a seek finds its key
(B+-tree); what DDL has reported is on disk, and no two trees share a page
(catalog); every plan gives the same answer (SELECT); writers exclude each other
(in-memory engine); a restart changes nothing a reader can see (life cycle); the
tree says what the text says (parser); the statements run are those of the text
(REPL); the plan is complete and the cheapest (planner).

## 2. Modules

**`Mvcc`** is the core. A version is known by its RowID; its column values never
change once written, so the state keeps the two stamps. `Snapshot`, `isVisible`,
`checkWriteConflict` and the actions `Begin`, `Commit`, `Rollback`, `Insert`,
`Update`, `UpdateTooLarge` and `Delete` follow `engine.go` one to one. Update and
Delete are called with RowIDs that a scan of the same transaction returned, as
the executor does; a rejected write is a stuttering step. Which RowID a new
version gets is any unused one. There is one table: nothing in the transaction
logic looks at which table a version belongs to.

**`SnapshotStore`** is what `Mvcc` promises, without stamps: each transaction has
a base and a view, Commit publishes the difference, Rollback publishes nothing.
It is textbook snapshot isolation: nobody else's write changes a view. One step of
the code is none of its steps: writing a row that another running transaction has
removed replaces that transaction's stamp and puts the row back into its view.
`Mvcc!ImplementsStore` therefore says that every step is a step of the store or
such an overwriting (`Overwrites`), which even then leaves the committed database
and every base alone; `RepeatableRead`, which TLC refutes, says what it breaks
(section 4).

**`Session`** puts sessions on top of `Mvcc`. One call of `Session.Exec` is one
step: the program runs every session from one goroutine. A statement is the set
of versions it stamps, the set it stores, and its error, with every half-way
failure the executor's loops allow; calls that return are modelled, a panic is not
(section 6). **`SessionHistory`** adds a history variable
(who ever stamped a version) for the question of overwritten stamps.

**`Restart`** adds a clean Close and New to `Mvcc`, with a history of what was
committed at Close.

**`Page`** (operators) and **`HeapFile`** model slotted pages, the file and the
pool. `HeapFile.Insert` visits pages one by one, each visit may evict, so it
takes several steps. Eviction picks any page that the iteration order of a Go map
may yield. **`RowStore`** is the abstract map from RowIDs to rows it implements.

**`BTree`** models one index: descent, iterator, insertion, leaf splits, the new
root, the failing split of an internal node, and CreateIndex with its loop under
the mutex. Since an internal node cannot be split, a tree has at most two levels.

**`Catalog`** models DDL and the life cycle on disk: the tables and index roots
in memory and in `catalog.json`, the data files, the index file and its pool. A
call runs in steps, one per data file, catalog file or index entry it writes (the
two pages of a root split are allocated in one of them), and between any two steps
pages may be evicted or the process may crash. A node is what the descent tells apart:
a page never written, an empty leaf, a leaf, an internal node with its children.
Whether a leaf is full is a free choice (`BTree` counts keys), rows are a count,
and a build that splits its root gets `stuck`, as in `BTree`.

**`Select`** models the pipeline for a two-table join with an optional WHERE, over
every choice of indexes, equal or different column names, INTEGER or TEXT columns
and literals, and indexes with entries of versions the transaction does not see.
A comparison of different types fails, in ON and in WHERE; an index page keeps an
integer of every key, which is 0 for TEXT. One step is one
iteration of the join's loop. An operator is the set of positions it has yet to
deliver; it delivers the lowest first. NULLs are included: the SQL dialect has no
NULL literal, but the executor accepts syntax trees that carry one and has code for
it.

**`Memstore`** models the in-memory engine under the same sessions: pending
changes, row locks, the one table dropped and created again, and the contents of
rows. A row has one value slice that the committed row, every scan and every
pending change share, so an UPDATE takes effect before the engine has agreed.

**`Parser`** is the recursive descent over tokens, function by function. A
behaviour grows a text token by token as long as the parser has not rejected it,
so that every accepted text within the bound is reached without enumerating the
rejected ones; others start from the text of a given statement. `Text` is the
reference: the tokens of a tree.

**`Repl`** is the shell: lines, the statement buffer, meta-commands and files,
over texts made of semicolons, dots, blanks and other characters. What a
statement does is left to `Parser` and `Session`; here it returns a result, an
error or a panic, or never returns.

**`Planner`** holds the statistics of both engines, over tables that are inserted
into, updated, deleted from, dropped and created again, and the optimizer: estimates,
costs and the dynamic programme over sets of tables, round by round, with the order
of its loops (the first of equally cheap plans is kept). The map `memo` is the set
of its entries. The reference is the cost of every order of the JOIN clauses.

`*Proofs` modules hold the theorems about the module they are named after, and
`TransactionProofs` those about `Mvcc` and `Session` (section 5). `MC*` modules instantiate these for TLC. Definitions whose comment begins with
"Mutant" are broken variants of the definition that follows them; nothing uses them
except `PROJECT.json`, which pairs each property with a variant that violates it.

## 3. Runs that pass

| run | instance | states | shows |
|---|---|---|---|
| `mvcc` | 3 versions, 4 transactions, versions symmetric | 47,954 | see the theorems; also the refinement of `SnapshotStore`, but for overwritten stamps |
| `sessions` | 2 sessions, 3 transactions, 3 versions | 33,433 | every running transaction belongs to one session; a failed call changes nothing committed; autocommit statements never meet a conflict; an UPDATE loses its transaction at most one row, and only when a new version cannot be stored |
| `heap_file` | pages of 8 units, pool of 1, 2 pages, rows of 2, 3, 7 | 34,508 | cache coherence, sound pages, refinement of `RowStore` |
| `index` | 7 rows, 3 keys, split at 3 | 10,017 | splits lose nothing, not even failing ones; as long as equal keys share a leaf the leaves stay in order and a seek returns exactly the rows of its key (otherwise only rows of its key); a build that fits one leaf ends |
| `catalog` | 1 table name, 2 columns, 2 schemas, 6 index pages, crashes without limit | 1,159,485 | DDL is durable when its call returns; trees share no page; a tree becomes unreadable only through a page that a crash lost; a created table is empty; a clean restart brings everything back; the root left by a failed CREATE INDEX is never written to |
| `memstore` | 3 transactions, 2 rows, 2 values, 3 changes each, 1 drop | 421,344 | writers exclude each other, locks are released, deletions are final, and with nothing refused or rolled back the rows at rest hold what was last committed |
| `select` | all tables of up to 2 rows over 2 keys and NULL, columns and literal INT or TEXT; queries that differ only in what they do not use are checked once | 675,646 | each plan ends, delivers the answer, each row once (and nothing else but in the two cases of section 4), and fails only for a reason in its data |
| `parser` | 2 names, 1 literal, 7 tokens past each opening; statements over expressions of depth 2 | 88,957 | an accepted text and its tree say the same, operators group by precedence and from the left, every statement parses to itself; no prefix is a dead end (deadlock is checked) |
| `repl` | all lines of up to 3 characters, files of up to 3, 7 characters in all | 21,040 | the statements run are those of the whole text, meta-commands are recognised exactly between statements, the shell comes back after every line whatever its statements return or panic with, unless one never returns |
| `planner` | 4 tables, one of them changing, 14 queries, a table dropped once | 43,937 | statistics describe the rows they were taken of, in the disk engine rows of the table that has the name now; every query gets a complete plan, and the cheapest one unless it names a table twice |

Why the bounds are enough. Three transactions are the fewest in which one
writes, one overwrites and one observes; `mvcc` has a fourth so that a snapshot
can hold some but not all of the others' commits. Three versions let an UPDATE
chain and an independent row coexist. A pool of one page makes every second
visit evict; a page of 8 units holds two rows, so that it fills up, shrinks in
place and refuses a third, and a row of 7 fits no page. Seven rows with nodes split
at three keys give a leaf split, a new root, a second split below it and the
failing split of the root; `TInv` was also checked with nodes of two and four keys
and nine rows. Six index pages hold two indexes of which one has
split, or the tree of a dropped table next to that of its successor. Two rows a
side give an empty table, a miss, a duplicate and a NULL. Seven tokens past an
opening hold two operators of different levels with their operands, in every
place where an expression may stand. Seven characters hold two statements and
the beginning of a third over three lines. Four tables are the fewest where the
third join of a plan differs in kind: its left side is a join of joins.

Deadlock is checked in `heap_file`, `parser` and `planner`. The other systems
really stop in the model: a bound is used up, the query is done, the shell has
ended, or the engine cannot be opened.

Fairness. `BTree` assumes weak fairness of `BackfillRow` and `FinishIndex`:
CreateIndex is one call that loops until done. `Select` assumes weak fairness of
its next step: `executeSelect` drains the pipeline in a loop. `Repl` assumes weak
fairness of draining the buffer and of running a file, two loops of the one
goroutine. It does not force a statement to return: `hangs` may take the place of
`runOne` at every statement, and `Responds` allows for nothing else. No other
module has fairness, since users are free not to issue statements.

## 4. Where the code and its documents disagree

Here a property states what a document, a comment or a help text says, and TLC
shows a behaviour of the code that breaks it. The two runs listed in
`PROJECT.json`, with the quotes under `findings`:

| run | what happens |
|---|---|
| `lost_update` (`NoLostUpdate`) | T1 and T2 update the same row while both run; the second stamp replaces the first; both commit |
| `commits_forgotten` (`CommittedPersist`) | after a restart the committed set is empty: a committed row is on disk and invisible |

The others have a configuration each, and end in a violation within seconds
(`tlc -config <file> <module>`):

| configuration, module | property | the code | the document |
|---|---|---|---|
| `NonRepeatableRead.cfg`, `MCSessionHistory` | `RepeatableRead` | T1 deletes a row, T2 deletes it too; T1, still running, reads the row again (`storage/engine.go:316`) | `docs/DESIGN.md:468` "Non-Repeatable Read: Snapshot isolation prevents this within a transaction" |
| `ConflictKeepsTxn.cfg`, `MCSession` | `ConflictAborts` | the engine's conflict error is not one that `isWriteConflict` knows, so the session stays in its transaction (`executor/session.go:118`); the shell prints "(transaction rolled back automatically)" exactly then | `docs/DESIGN.md:367` "the transaction is automatically aborted" |
| `UncommittedRead.cfg`, `MCRestart` | `UncommittedGone` | after a restart ids start from 1 again: a transaction reads what the old one with its id left without committing (`storage/engine.go:144`) | `docs/DESIGN.md:365` "persist only on `COMMIT`; `ROLLBACK` discards them" (the test at `storage/btree_test.go:361` never commits the row that it reads back, and so depends on the code) |
| `PoolBound.cfg`, `MCHeapFile` | `PoolBounded` | a page appended to the file enters a full pool past the eviction (`storage/heapfile.go:138`) | `storage/bufferpool.go:16` "The maximum number of pages we can hold in RAM" |
| `SeekMisses.cfg`, `MCBTree` | `SeekFindsAll` | a leaf split between equal keys hides the rows of the left leaf from every seek (`storage/btree.go:213`) | `docs/DESIGN.md:405` "an iterator over exactly the rows where `id = 5`" |
| `BuildBlocks.cfg`, `MCBTree` | `BuildAlwaysCompletes` | an index build over as many rows as a node holds splits the root and waits for the mutex its caller holds (`storage/btree_insert.go:235`) | `storage/README.md:37` "to ensure all physical rows are indexed" |
| `RollbackKeeps.cfg`, `MCMemstore` | `RollbackDiscards` | an UPDATE in the in-memory engine changes the committed row at once, and a rollback does not change it back (`memstore/memstore.go:316`) | `docs/DESIGN.md:365` "`ROLLBACK` discards them" |
| `SameNameJoin.cfg`, `MCSelect` | `QualifiedNames` | `ON l.id = r.id` in a nested loop compares the left column with itself and joins every pair of rows (`executor/eval.go:15`) | `core/core.go:309` "ColumnRef references a column, optionally qualified by table" |
| `TextIndex.cfg`, `MCSelect` | `SeeksMatching` | every key of a TEXT index is stored as 0, and a seek of the integer 0 returns all rows (`storage/btree.go:175`) | `docs/DESIGN.md:321` "seeks directly to the matching row(s)" |
| `StatsMinMax.cfg`, `MCPlanner` | `MinMaxExact` | `Analyze` of the disk engine takes a zero that no row holds into the minimum and maximum (`storage/engine.go:696`) | `README.md:57` "min/max values" |

Where a passing run has a property about the same code, the property says what
holds beside the violation, and its exception is no wider than the case the
violation shows: `ImplementsStore` (overwritten stamps), `SeekExact` and
`ChainSorted` (`Straddled`), `BuildCompletes` (fewer rows than a node holds),
`ContentsAtRest` (nothing refused or rolled back), `ResultExact` (`NameConfused`,
`ZeroConfused`), `StatsDescribe` (range in the disk engine).

Other behaviour to know of, which no document contradicts or which the models only
record:

* It gets worse for a seek when the left leaf is split at the same key
  again: the root then lists the new leaf after the old right neighbour
  (`storage/btree_insert.go:119`) while the links have it before, so that a seek
  may miss a key that occurs once. With nodes split at four keys, the insertions
  2, 2, 2, 2, 5, 1, 1, 4, 6 make a seek of 5 return nothing. The run's nodes of
  three keys are too small for this effect; the theorems hold for every node size.
* A crash inside `Catalog.Save` leaves a catalog that cannot be loaded; a crash
  after a root split may leave a root that was never written
  (`Catalog!IndexesReadable` names the pages), and an insert through it panics in
  `fetchNode`. `docs/DESIGN.md:482` lists crash recovery as future work. `main` ends
  with `os.Exit` after an input error, which skips `Close` and is such a crash.
* A CREATE INDEX on a column that does not exist returns an error and leaves the
  index in the catalog (`storage/engine.go:480`).
* Dropping a table of the in-memory engine leaves pending changes, which a
  later commit puts into the new table of that name (`NoResurrection` leaves them
  out). Its statistics stay in the cache, for ever and for the new table too.
* An UPDATE of a row that the same transaction has inserted is an error in the
  in-memory engine (`memstore/memstore.go:209`).
* The estimated size of a join of three or more tables is 0, since its left side
  has no table name (`executor/planner/stats.go:93`): from the fourth table on
  the order costs nothing. A query that joins a table to itself is planned with
  that table once.
* `.exit` in a transaction says "Type .exit again" and exits.

## 5. Proofs

Thirty-six theorems, each for every value of the constants. All but one
(`TreeInvariant`) restate a property that a run checks; between them they cover every
invariant, action property and refinement of the passing runs but those of `parser`.
Each inductive invariant was checked with TLC as well.

| module | theorems | inductive invariant |
|---|---|---|
| `TransactionProofs`, about `Mvcc` | `TypeCorrect`, `StampsAreDisciplined`, `DirtyReadsPrevented`, `ConflictsAreLaterCommits`, `SnapshotsAreStable`, `CommittedDeletesAreFinal`, `EngineImplementsStore` | `IInv` |
| `TransactionProofs`, about `Session` | `NoTxnLeaks`, `SessionsIsolated`, `SessionSnapshotsStable`, `FailedCallsPublishNothing`, `ConflictsAreExplicit`, `UpdatesKeepRows` | `SInv` |
| `HeapFileProofs` | `CacheIsCoherent`, `PagesStaySound`, `HeapFileImplementsRowStore` | `HInv` |
| `BTreeProofs` | `TreeInvariant`, `LeavesHoldAll`, `LeavesSorted`, `SeeksExact` | `TInv` |
| `CatalogProofs` | `DdlIsDurable`, `IndexesStayReadable`, `TreesStayDisjoint`, `OrphansStayEmpty`, `CreatedTablesAreEmpty`, `RestartIsClean` | `CInv` |
| `MemstoreProofs` | `WritersAreExclusive`, `LocksAreReleased`, `RestIsCommitted`, `DeletionsAreFinal` | `MInv` |
| `SelectProofs` | `ResultsAreExact`, `FailuresHaveReasons` | `QInv` |
| `ReplProofs` | `ShellNeverMisreads`, `ShellRunsExactly` | `RInv`, `LInv` |
| `PlannerProofs` | `StatsTrue`, `OptimizeIsOptimal` | `StatsInv`, `PlannerInv` |

**Assumptions**, each named in the module that declares the constant: bounds are
natural numbers; RowIDs are finitely many (`Session`); there is a value
(`Memstore`); rows are not empty and the pool holds a page (`HeapFile`); keys are
integers and a node is split at two keys or more (`BTree`); what a torn write leaves
is not a catalog (`Catalog`: `json.Unmarshal` rejects a truncated object); NULL is
not a key, the zero value is one and there are INT columns (`Select`); lines and files are texts (`Repl`); tables are finitely many,
column values are integers and NULL is none, and `None` is not a sequence of rows, a
record of statistics or a plan (`Planner`). TLC evaluates them in every run.

**`Mvcc`.** `IInv` is `TypeOK`, disjointness of running and committed
transactions, and `StampDiscipline`. The last is what makes it inductive: whether
a scan may return a version depends on who may have stamped it, and a stamp by
someone who did not have the version in its snapshot would let a later commit
change other transactions' views. The argument runs in three layers: a write
changes one stamp of a version its writer can see, and that version's deleter is
uncommitted (`WritableVersion`); hence each of the three kinds of step, Begin,
end and write, keeps `IInv` (`WriteKeepsIInv`, `BeginKeepsIInv`,
`EndKeepsIInv`); and each has a simple effect on committed database, snapshot
contents and views (`BeginEffect`, `EndEffect`, `WriteEffect`), from which the
action properties and the refinement follow. For a commit the refinement needs that
the rows it removes are still in the committed database (`RemovedStillLive`); for a
write that meets no other stamp, that it changes one view only.

**`Session`.** `SInv` is `IInv`, which must survive steps that begin, write many
versions and end in one, and the sessions' hold on the running transactions. A
statement inside a transaction is one write in the sense of `Mvcc`; an autocommit
call is a Begin, a write and an end, and since its transaction begins after every
commit it can meet no conflict. `UpdateKeepsRows` counts rows, which is why RowIDs
have to be finitely many.

**`HeapFile`.** `HInv` is the types with `CacheCoherent` and `PagesSound`. The
first lemmas say what an insert, an update in place and a delete do to
the slots of a sound page. Every step of the file then has one of four effects on
the rows a reader gets (`Effect`): none, one row more, one row replaced, one row
gone. Eviction and flushing have none, because of coherence; from that follows
the refinement of `RowStore`.

**`BTree`.** `TInv` says that there is a list of pages such that: it is the chain
of the leaves along their links, and holds every leaf; each leaf is sorted, below
the node size, and holds rows of the heap under their keys; the leaves share out
the indexed rows; the root's children are leaves. As long as no insertion has
failed and no two leaves share a key, the keys of each leaf are below those of
the next, the root lists the leaves in this order, and its separators part them.
The last clause is what makes the rest inductive: it puts the descent for a key
into the one leaf where the key belongs (`FindsPosition`), and a separator into
the place where its leaf was (`LeadingUnique` in `RootTakesShape`), which fails
when two leaves share the key. An insertion is proved in two steps, the entry
into its leaf (`Grown`) and the split, if any (`NewRootShape`, `RootTakesShape`,
`FailedShape`). `Chain` and `Visits` are recursive functions: a part of the list
solves their equations, and no other function does, by the least step at which
one would differ (`WalkIs`). `LeavesHoldAll` needs a bijection between positions
and rows; `SeeksExact` that the leaf where the descent ends holds all of a key.

**`Catalog`.** `CInv` relates three things that the code keeps in step by order
of writing alone: the catalog in memory, the one in `catalog.json`, and the index
pages in the pool and in the file. `Good` says of one catalog that its trees are
disjoint, within the file, and readable but for lost pages; it holds of the
catalog in memory and of the one on disk, which differ between two Saves only in
what the running call has done (`Within`). That a crash keeps the trees disjoint
needs that a node in the file has no child that its copy in the pool does not
have. Tables that no catalog lists have no rows.

**`Memstore`.** `WritersExclusive` and `NoStaleLock` support each other;
`PendingLive` is what makes deletions final. `ContentsAtRest` needs `SliceHolds`:
while a transaction runs, the shared slice of a row holds its last pending value.

**`Select`.** `QInv`: the pairs delivered are those tried and accepted, each
once; tried are all pairs of the rows delivered by the base path with the rows
probed for them, but those still in the iterator. At the end these are all the
pairs a plan reads, and `AcceptedIsAnswer` compares them with the answer for
every plan and every combination of types: an indexed join of columns of different
types finds nothing to compare or fails, equal names apart.

**`Repl`.** `Unfinished` says that some character which is not blank has no
semicolon after it. `RInv`: what the shell holds is unfinished exactly when the
whole text is, and at the prompt the buffer is empty exactly when nothing is.
The second half is the reason for `drainStatements` dropping a blank remainder.
The lemmas follow `Unfinished` through concatenation, through cutting off a
statement and through a file without its end; least and greatest positions exist
by well-foundedness (`LeastIs`). `ShellRunsExactly` is about all that was run:
`ListsPieces` says, without a loop, that `ran` lists the pieces of the text between
its semicolons that are not blank. `LInv` says that there is a position `d` of the
text up to which `ran` lists the pieces (`Progress`), and that the shell holds what
comes after it. It needs to know that nothing but blanks lies between the last
semicolon before `d` and `d`, since a buffer that is dropped as blank moves `d` past
it, and that a file's unfinished end is held without being part of the text. A line
extends the text and leaves `d`; running a statement moves `d` past the first
semicolon of what is held (`FirstPiece`) and adds one piece or none (`ListsOneMore`).

**`Planner`.** `StatsInv` says of each table what `StatsDescribe` does, with types;
statistics are of the table that has the name now because, in the disk engine, a
drop removes them. What `Analyze` gathers is a recursive function over the rows: `ScanInv` says what it has
gathered after `n` of them. `PlannerInv` adds that the optimizer reads statistics
with numbers in them and that its result is `OptimalFor` the query it works on. That
part rests on facts about the dynamic programme:

* After `n` rounds (`MemoOK`) memo has one entry per set, for a set of one table
  its scan, and for a larger one of at most `n` tables the cheapest extension of an
  entry by a JOIN clause, wherever there is an extension (`BestJoin`). The sets of a
  round have a size that no earlier entry has, so a round changes no entry and no
  extension it was compared with (`MemoStep`).
* Every set with FROM has an entry: any other table is named by a clause, and the
  set without it is smaller (`FromPlanned`). Hence there is always a plan and the
  left-deep fallback is dead code.
* Along any order of the clauses the entry for the tables joined so far costs no more
  than the plan of the order, and is estimated to deliver as many rows
  (`NoDearerStep`). The second half is needed, because the cost of the next join
  depends on it, and it is not obvious: the estimate depends on the clause. It holds
  because a set of two tables that holds FROM has one clause, and from three tables on
  the estimate is 0.

Recursive definitions are CHOOSE expressions to the prover: `RecursionExists` shows
once that a recursion over `0 .. k` has a solution, and each definition is then
unfolded (`GatheredUnfold`, `RoundsUnfold`, `PathUnfold`). Induction is by the least
counterexample (`LeastNat`).

**Only model-checked.** Liveness (`BuildCompletes`, `Terminates`, `Responds`), which
the prover does not handle, and the three invariants of `Parser`, whose functions and
trees are recursive operators.

## 6. Not modelled, and the plan

Left out for good:

* the characters of the lexer, result formatting, logging and the demo programs;
* operating-system errors, among them those of `FlushAll` that `Close` ignores
  (`storage/engine.go:93`);
* a panic inside an autocommit statement (`executor/session.go:97` has no `defer`):
  the shell recovers and goes on, and the transaction stays among the running ones
  of the engine with no session that could end it. `NoLeakedTxn` is about calls of
  `Session.Exec` that return;
* a table named `indexes`, whose data file would be the index file
  (`storage/engine.go:52`, `214`);
* row serialisation (`storage/page.go`): a byte layout, with no state and no
  choice to explore;
* calls of several goroutines at once: the program drives its sessions from one
  goroutine. (The engine is not ready for more: the conflict test and the stamp
  of an Update are two critical sections, and the buffer pool has no lock.)
* `DeleteFromIndex` and the planner's left-deep fallback, which nothing reaches.

Left for later, most important first:

1. Proofs about `Parser`. Its operators would have to become recursive functions
   over bounded texts and trees; induction is then to be had through least
   counterexamples, as for the rounds in `PlannerProofs!SearchIs`.
2. The index composed with the transactions: SELECT through an index against
   SELECT through a scan, over versions of a row.
3. Expressions with OR and arithmetic, projections and chains of joins in
   `Select`; SET with several columns, where a later assignment reads an earlier
   one (`executor/executor.go:411`).
