------------------------------- MODULE Catalog -------------------------------
(***************************************************************************)
(* Tables, index roots and what of them is on disk (src/storage/catalog.go *)
(* and the DDL, New and Close of src/storage/engine.go), with a crash      *)
(* between any two steps.                                                  *)
(*                                                                         *)
(* Durable are catalog.json, the index file and one heap file per table.   *)
(* In memory are the catalog's map and, behind the buffer pools, heap      *)
(* pages and index pages newer than those on disk.  Of a heap file the     *)
(* model keeps how many versions are stored in it (a file that does not    *)
(* exist holds none, and NewHeapFile creates it); of an index page its     *)
(* kind and its children.  How full a leaf is, is left open: an insert     *)
(* into a leaf with keys may fit or may split it.  Module BTree has the    *)
(* keys, module HeapFile the pages.  DDL does not look at transactions.    *)
(***************************************************************************)
EXTENDS Integers, FiniteSets

CONSTANTS Table,      \* names of tables
          Column,     \* names of columns
          Schemas,    \* the sets of columns a table may be created with
          Torn,       \* catalog.json cut short: it does not parse
          MaxKeys,    \* keys at which a node is split (250)
          MaxRow,     \* bound: versions of a table are counted up to this many
          MaxPage     \* bound: pages of the index file

ASSUME CatalogAssumption ==
  /\ Schemas \subseteq SUBSET Column
  /\ MaxKeys \in Nat /\ MaxKeys >= 2
  /\ MaxRow \in Nat /\ MaxPage \in Nat

\* TableMetadata: a schema, and the root page of each indexed column.
TableMetadata == [cols : SUBSET Column, roots : UNION {[C -> Nat] : C \in SUBSET Column}]

\* json.Unmarshal rejects what a truncated write leaves.
ASSUME TornAssumption == \A T \in SUBSET Table : Torn \notin [T -> TableMetadata]

VARIABLES tables,    \* Catalog.tables: name -> schema and index roots
          saved,     \* catalog.json
          heap,      \* per table: versions its pool shows
          file,      \* per table: versions in its file
          nodes,     \* index pages as the pool shows them
          pages,     \* index pages in the file
          dirty,     \* BufferPool.dirty of the index pool
          call,      \* the running call: its stage and what is left of it
          up,        \* the process runs
          how,       \* history: how the process stopped
          lost       \* history: index pages newer in a pool when it crashed

disk == <<saved, file, pages>>
hist == <<how, lost>>
cvars == <<tables, saved, heap, file, nodes, pages, dirty, call, up, hist>>

(***************************************************************************)
(* Index pages                                                             *)
(***************************************************************************)

\* Page 0, and a page that was allocated and never written.
Zero == [kind |-> "zero", kids |-> {}]

Empty == [kind |-> "empty", kids |-> {}]

Leaf == [kind |-> "leaf", kids |-> {}]

Internal(kids) == [kind |-> "internal", kids |-> kids]

Keys(kids) == Cardinality(kids) - 1

getPageCount == Cardinality(DOMAIN pages)

With(f, g) == [x \in DOMAIN f \cup DOMAIN g |-> IF x \in DOMAIN g THEN g[x] ELSE f[x]]

\* Mutant: a new page is left to the pool, and the file does not grow.
allocateNothing(n) == pages

\* n new pages, zeroed in the file at once.
allocateIndexPage(n) ==
  With(pages, [p \in getPageCount .. getPageCount + n - 1 |-> Zero])

\* Mutant: a changed index page is not marked.
MarkNothing(ps) == dirty

\* writeNode marks what it writes, for FlushAll.
MarkDirty(ps) == dirty \cup ps

\* Nodes go to the pool, not to the file.
writeNodes(more) ==
  /\ nodes' = With(With(nodes, pages'), With(nodes, more))
  /\ dirty' = MarkDirty(DOMAIN more)

(***************************************************************************)
(* Steps of the running call                                               *)
(***************************************************************************)

Idle == [stage |-> "idle", table |-> "", todo |-> {}]

Running(stage, t, todo) == [stage |-> stage, table |-> t, todo |-> todo]

\* The call has columns left to index, or returns.
Continue(t, todo) == IF todo = {} THEN Idle ELSE Running("index", t, todo)

\* Mutant: an index is maintained whether or not its column exists.
AllRoots(t) == DOMAIN tables[t].roots

\* The indexed columns of t.
Columns(t) == tables[t].cols \cap DOMAIN tables[t].roots

NoTables == [t \in {} |-> [cols |-> {}, roots |-> [c \in {} |-> 0]]]

Init ==
  /\ tables = NoTables
  /\ saved = tables
  /\ heap = [t \in {} |-> 0]
  /\ file = [t \in Table |-> 0]
  /\ nodes = [p \in {0} |-> Zero]
  /\ pages = nodes
  /\ dirty = {}
  /\ call = Idle
  /\ up = TRUE
  /\ how = ""
  /\ lost = {}

\* The call may begin: no other one runs.
Ready == up /\ call = Idle

\* CreateTable opens the file, adds the table and goes on to Save.  No table is
\* named "indexes": its file would be the index file.
CreateTable(t, cols) ==
  /\ Ready
  /\ t \notin DOMAIN tables
  /\ tables' = With(tables, [x \in {t} |-> [cols |-> cols, roots |-> [c \in {} |-> 0]]])
  /\ heap' = With(heap, [x \in {t} |-> file[t]])
  /\ call' = Running("save", t, {})
  /\ UNCHANGED <<disk, nodes, dirty, up, hist>>

\* Mutant: the file of a dropped table is left behind.
removeNothing(t) == file

\* os.Remove of a table's file.
Remove(t) == [file EXCEPT ![t] = 0]

\* DropTable flushes, closes and removes the file, forgets the table, and goes
\* on to Save.  The pages of its indexes stay in the index file.
DropTable(t) ==
  /\ Ready
  /\ t \in DOMAIN tables
  /\ file' = Remove(t)
  /\ tables' = [x \in DOMAIN tables \ {t} |-> tables[x]]
  /\ heap' = [x \in DOMAIN tables \ {t} |-> heap[x]]
  /\ call' = Running("save", t, {})
  /\ UNCHANGED <<saved, pages, nodes, dirty, up, hist>>

\* CreateIndex writes an empty leaf to the file and registers it; only then it
\* looks for the column, and returns an error without it.  The versions that are
\* visible and not NULL go into the leaf.  With as many as a leaf can take, it
\* splits the root under the engine's mutex and waits for that mutex: module
\* BTree has the steps.
CreateIndex(t, c) ==
  LET p == getPageCount
  IN  /\ Ready
      /\ t \in DOMAIN tables
      /\ c \notin DOMAIN tables[t].roots
      /\ p + 3 <= MaxPage
      /\ tables' = [tables EXCEPT ![t].roots = With(@, [x \in {c} |-> p])]
      /\ \/ /\ c \notin tables[t].cols
            /\ pages' = With(pages, [q \in {p} |-> Empty])
            /\ call' = Idle
            /\ writeNodes([q \in {} |-> Zero])
         \/ /\ c \in tables[t].cols
            /\ pages' = With(pages, [q \in {p} |-> Empty])
            /\ call' = Running("save", t, {})
            /\ \/ writeNodes([q \in {} |-> Zero])
               \/ heap[t] > 0 /\ writeNodes([q \in {p} |-> Leaf])
         \/ /\ c \in tables[t].cols
            /\ heap[t] > 1
            /\ pages' = With(pages, [q \in p .. p + 2 |-> IF q = p THEN Empty ELSE Zero])
            /\ call' = Running("stuck", t, {})
            /\ writeNodes([q \in p .. p + 2 |-> IF q = p + 2 THEN Internal({p, p + 1}) ELSE Leaf])
      /\ UNCHANGED <<saved, file, heap, up, hist>>

\* Insert, or the new version of an Update: the row first, then the indexes of
\* those of the table's columns where it is not NULL.
Insert(t, keys) ==
  /\ Ready
  /\ t \in DOMAIN tables
  /\ keys \subseteq Columns(t)
  /\ heap' = [heap EXCEPT ![t] = IF @ < MaxRow THEN @ + 1 ELSE @]
  /\ call' = Continue(t, keys)
  /\ UNCHANGED <<tables, disk, nodes, dirty, up, hist>>

\* InsertIntoIndex into leaf p of column c: in place; with a split of the root
\* leaf, a new root and Save; with a split below the root; or with an error,
\* when the root cannot take another child.
IndexRow(c, p) ==
  LET t     == call.table
      todo  == call.todo \ {c}
      root  == tables[t].roots[c]
      right == getPageCount
      top   == getPageCount + (IF allocateIndexPage(1) = pages THEN 0 ELSE 1)
      half  == [q \in {p, right} |-> Leaf]
  IN  /\ up
      /\ call.stage = "index"
      /\ c \in call.todo
      /\ nodes[p].kind \in {"empty", "leaf"}
      /\ p \in {root} \cup nodes[root].kids
      /\ \/ /\ pages' = pages
            /\ writeNodes([q \in {p} |-> Leaf])
            /\ call' = Continue(t, todo)
            /\ UNCHANGED tables
         \/ /\ nodes[p] = Leaf
            /\ p = root
            /\ right + 2 <= MaxPage
            /\ pages' = allocateIndexPage(2)
            /\ writeNodes(With(half, [q \in {top} |-> Internal({p, right})]))
            /\ tables' = [tables EXCEPT ![t].roots[c] = top]
            /\ call' = Running("save", t, todo)
         \/ /\ nodes[p] = Leaf
            /\ p # root
            /\ Keys(nodes[root].kids) + 1 < MaxKeys
            /\ right + 1 <= MaxPage
            /\ pages' = allocateIndexPage(1)
            /\ writeNodes(With(half, [q \in {root} |-> Internal(nodes[root].kids \cup {right})]))
            /\ call' = Continue(t, todo)
            /\ UNCHANGED tables
         \/ /\ nodes[p] = Leaf
            /\ p # root
            /\ Keys(nodes[root].kids) + 1 >= MaxKeys
            /\ right + 1 <= MaxPage
            /\ pages' = allocateIndexPage(1)
            /\ writeNodes(half)
            /\ call' = Idle
            /\ UNCHANGED tables
      /\ UNCHANGED <<saved, file, heap, up, hist>>

\* A descent into a page that was never written: it reads as an internal node
\* without keys over page 0, and page 0, read as a node, makes fetchNode panic.
\* The statement fails; the shell recovers from the panic.
IndexRowFails(c, p) ==
  /\ up
  /\ call.stage = "index"
  /\ c \in call.todo
  /\ p \in {tables[call.table].roots[c]} \cup nodes[tables[call.table].roots[c]].kids
  /\ nodes[p].kind = "zero"
  /\ call' = Idle
  /\ UNCHANGED <<tables, disk, heap, nodes, dirty, up, hist>>

\* Catalog.Save: os.WriteFile cuts the file to nothing ...
SaveTruncate ==
  /\ up
  /\ call.stage = "save"
  /\ saved' = Torn
  /\ call' = [call EXCEPT !.stage = "write"]
  /\ UNCHANGED <<tables, heap, file, nodes, pages, dirty, up, hist>>

\* Mutant: the roots are left out of what is saved.
ImageNoRoots == [t \in DOMAIN tables |-> [tables[t] EXCEPT !.roots = [c \in {} |-> 0]]]

\* What Save writes: diskMetadata of every table.
Image == tables

\* ... and writes it; then the call goes on or returns.
SaveWrite ==
  /\ up
  /\ call.stage = "write"
  /\ saved' = Image
  /\ call' = Continue(call.table, call.todo)
  /\ UNCHANGED <<tables, heap, file, nodes, pages, dirty, up, hist>>

\* The pools may write back a page at any time, when they evict it.  The rows of
\* a table are on one page.
EvictHeap(t) ==
  /\ up
  /\ t \in DOMAIN tables
  /\ heap[t] # file[t]
  /\ file' = [file EXCEPT ![t] = heap[t]]
  /\ UNCHANGED <<tables, saved, heap, nodes, pages, dirty, call, up, hist>>

EvictIndex(p) ==
  /\ up
  /\ p \in dirty
  /\ pages' = [pages EXCEPT ![p] = nodes[p]]
  /\ dirty' = dirty \ {p}
  /\ UNCHANGED <<tables, saved, heap, file, nodes, call, up, hist>>

Stop(kind) ==
  /\ how' = kind
  /\ up' = FALSE

\* Close flushes every pool; the catalog is not saved again.
Close ==
  /\ Ready
  /\ Stop("close")
  /\ file' = With(file, heap)
  /\ pages' = [p \in DOMAIN pages |-> IF p \in dirty THEN nodes[p] ELSE pages[p]]
  /\ dirty' = {}
  /\ UNCHANGED <<tables, saved, heap, nodes, call, lost>>

\* The process ends without Close, and what it held in memory is gone: killed,
\* stuck on its own mutex, or through os.Exit after an input error.
Crash ==
  /\ up
  /\ Stop("crash")
  /\ lost' = lost \cup {p \in DOMAIN pages : nodes[p] # pages[p]}
  /\ tables' = NoTables
  /\ heap' = [t \in {} |-> 0]
  /\ nodes' = pages
  /\ dirty' = {}
  /\ call' = Idle
  /\ UNCHANGED <<disk>>

\* New loads the catalog and opens the files; it fails on a torn catalog.
Open ==
  /\ ~up
  /\ saved # Torn
  /\ up' = TRUE
  /\ tables' = saved
  /\ heap' = [t \in DOMAIN saved |-> file[t]]
  /\ nodes' = pages
  /\ how' = ""
  /\ UNCHANGED <<disk, dirty, call, lost>>

Next ==
  \/ \E t \in Table : \/ \E cols \in Schemas : CreateTable(t, cols)
                      \/ DropTable(t)
                      \/ \E c \in Column : CreateIndex(t, c)
                      \/ \E keys \in SUBSET Column : Insert(t, keys)
                      \/ EvictHeap(t)
  \/ \E c \in Column, p \in DOMAIN pages : IndexRow(c, p) \/ IndexRowFails(c, p)
  \/ \E p \in dirty : EvictIndex(p)
  \/ SaveTruncate \/ SaveWrite \/ Close \/ Crash \/ Open

Spec == Init /\ [][Next]_cvars

(***************************************************************************)
(* Properties                                                              *)
(***************************************************************************)

\* A catalog without the roots of columns that its tables do not have.
Sound(cat) ==
  [t \in DOMAIN cat |->
     [cols |-> cat[t].cols,
      roots |-> [c \in DOMAIN cat[t].roots \cap cat[t].cols |-> cat[t].roots[c]]]]

\* The pages of the index on column c of t, as a descent finds them.
Tree(t, c) == {tables[t].roots[c]} \cup nodes[tables[t].roots[c]].kids

Indexes == {x \in (DOMAIN tables) \X Column : x[2] \in DOMAIN tables[x[1]].roots}

\* Whatever CREATE TABLE, CREATE INDEX, DropTable or a growing index has done is
\* in catalog.json when the call returns: a crash between calls loses no DDL.
\* (The root that a failed CREATE INDEX leaves in memory may be missing.)
DdlDurable == Ready => saved # Torn /\ Sound(saved) = Sound(tables)

\* Every index can be descended, unless a crash has lost a page of it: only a
\* page that was newer in the pool at a crash can be unreadable later, never one
\* after clean shutdowns, evictions or other tables' DDL.
IndexesReadable ==
  up => \A x \in Indexes :
    \/ \A p \in Tree(x[1], x[2]) : nodes[p].kind # "zero"
    \/ Tree(x[1], x[2]) \cap lost # {}

\* No index page is handed out twice, although the pages of all indexes share
\* one file whose length is the only allocator: a root is not its own child, and
\* the trees of two indexes have no page in common, after crashes too
\* (allocateIndexPage: "collide on one page ID, aliasing two nodes").
TreesDisjoint ==
  up => /\ \A x \in Indexes : tables[x[1]].roots[x[2]] \notin nodes[tables[x[1]].roots[x[2]]].kids
        /\ \A x, y \in Indexes : x # y => Tree(x[1], x[2]) \cap Tree(y[1], y[2]) = {}

\* A table that is created is empty, also under the name of a dropped one and
\* after a crash in the middle of CREATE TABLE or DropTable: no row of an earlier
\* table of this name comes back.
CreatedEmpty ==
  [][\A t \in Table : up /\ up' /\ t \notin DOMAIN tables /\ t \in DOMAIN tables' => heap'[t] = 0]_cvars

\* Close and New bring back every table, row, root and index page
\* (storage/README.md: "flushed to disk on Close()").
CleanRestart ==
  [][how = "close" /\ up' =>
       /\ Sound(tables') = Sound(tables)
       /\ heap' = heap
       /\ nodes' = nodes]_cvars

\* The root that CREATE INDEX leaves behind when the column does not exist is
\* never written to: it stays an empty leaf, whatever is inserted, saved and
\* loaded later.
OrphanRootsEmpty ==
  up => \A x \in Indexes : x[2] \notin tables[x[1]].cols => nodes[tables[x[1]].roots[x[2]]] = Empty
=============================================================================
