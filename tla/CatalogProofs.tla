---------------------------- MODULE CatalogProofs ----------------------------
(***************************************************************************)
(* Theorems about Catalog for every set of tables and columns and every    *)
(* bound, with a crash between any two steps.                              *)
(***************************************************************************)
EXTENDS Catalog, FiniteSetTheorems, TLAPS

(***************************************************************************)
(* The inductive invariant                                                 *)
(***************************************************************************)

TableOK(m) ==
  /\ m = [cols |-> m.cols, roots |-> m.roots]
  /\ m.cols \subseteq Column
  /\ m.roots = [c \in DOMAIN m.roots |-> m.roots[c]]
  /\ DOMAIN m.roots \subseteq Column
  /\ \A c \in DOMAIN m.roots : m.roots[c] \in Nat

CatOK(cat) ==
  /\ cat = [t \in DOMAIN cat |-> cat[t]]
  /\ DOMAIN cat \subseteq Table
  /\ \A t \in DOMAIN cat : TableOK(cat[t])

\* The pages of an index with root r, when the pages are nd.
TreeAt(nd, r) == {r} \cup nd[r].kids

\* A root that can be descended, unless a crash has lost a page (ls) below it.
GoodRoot(nd, ls, r) ==
  /\ TreeAt(nd, r) \subseteq DOMAIN nd
  /\ r \notin nd[r].kids
  /\ (\A q \in TreeAt(nd, r) : nd[q].kind # "zero") \/ TreeAt(nd, r) \cap ls # {}

\* The indexes of a catalog: readable, apart from each other, and empty when
\* their column does not exist.
Good(cat, nd, pg, ls) ==
  /\ \A t \in DOMAIN cat : \A c \in DOMAIN cat[t].roots :
       /\ GoodRoot(nd, ls, cat[t].roots[c])
       /\ c \notin cat[t].cols => nd[cat[t].roots[c]] = Empty /\ pg[cat[t].roots[c]] = Empty
  /\ \A t, u \in DOMAIN cat : \A c \in DOMAIN cat[t].roots, d \in DOMAIN cat[u].roots :
       t # u \/ c # d => TreeAt(nd, cat[t].roots[c]) \cap TreeAt(nd, cat[u].roots[d]) = {}

\* Catalog a is b without some of the roots of columns that do not exist.
Within(a, b) ==
  /\ DOMAIN a = DOMAIN b
  /\ \A t \in DOMAIN b :
       /\ a[t].cols = b[t].cols
       /\ DOMAIN a[t].roots \subseteq DOMAIN b[t].roots
       /\ DOMAIN b[t].roots \cap b[t].cols \subseteq DOMAIN a[t].roots
       /\ \A c \in DOMAIN a[t].roots : a[t].roots[c] = b[t].roots[c]

\* No node has children but an internal one.
Plain(nd) == \A q \in DOMAIN nd : nd[q].kind # "internal" => nd[q].kids = {}

PagesOK ==
  /\ getPageCount \in Nat /\ DOMAIN pages = 0 .. getPageCount - 1
  /\ nodes = [q \in DOMAIN pages |-> nodes[q]]
  /\ pages = [q \in DOMAIN pages |-> pages[q]]
  /\ dirty \subseteq DOMAIN pages
  /\ \A q \in DOMAIN pages : q \notin dirty => nodes[q] = pages[q]
  /\ \A q \in DOMAIN pages : pages[q].kids \subseteq nodes[q].kids
  /\ Plain(nodes) /\ Plain(pages)

CallOK ==
  /\ call = [stage |-> call.stage, table |-> call.table, todo |-> call.todo]
  /\ call.stage \in {"idle", "index", "save", "write", "stuck"}
  /\ call.stage = "idle" => call = Idle
  /\ call.todo # {} => call.table \in DOMAIN tables /\ call.todo \subseteq Columns(call.table)
  /\ ~up => call = Idle

RowsOK ==
  /\ heap = [t \in DOMAIN tables |-> heap[t]]
  /\ file = [t \in Table |-> file[t]]
  /\ \A t \in Table \ DOMAIN tables : up => file[t] = 0
  /\ saved # Torn => \A t \in Table \ DOMAIN saved :
                       file[t] = 0 /\ (t \in DOMAIN tables => heap[t] = 0)

CatalogsOK ==
  /\ CatOK(tables) /\ Good(tables, nodes, pages, lost)
  /\ saved # Torn => CatOK(saved) /\ Good(saved, nodes, pages, lost)

\* Between two Saves the file is the catalog; and after Close it is all there.
Settled == (up /\ call.stage \in {"idle", "index"}) \/ how = "close"

SavedOK ==
  /\ Settled => saved # Torn /\ Within(saved, tables)
  /\ how = "close" => ~up /\ \A t \in DOMAIN tables : heap[t] = file[t]
  /\ ~up => nodes = pages

CInv == PagesOK /\ CallOK /\ RowsOK /\ CatalogsOK /\ SavedOK

(***************************************************************************)
(* Catalogs and trees                                                      *)
(***************************************************************************)

LEMMA WithFacts ==
  ASSUME NEW f, NEW g
  PROVE  /\ DOMAIN With(f, g) = DOMAIN f \cup DOMAIN g
         /\ With(f, g) = [x \in DOMAIN With(f, g) |-> With(f, g)[x]]
         /\ \A x \in DOMAIN g : With(f, g)[x] = g[x]
         /\ \A x \in DOMAIN f \ DOMAIN g : With(f, g)[x] = f[x]
BY DEF With

LEMMA TornIsNoCatalog ==
  ASSUME NEW cat, CatOK(cat)
  PROVE  cat # Torn
<1>1. ASSUME NEW t \in DOMAIN cat PROVE cat[t] \in TableMetadata
  <2>1. PICK m : m = cat[t]
    OBVIOUS
  <2>2. /\ m = [cols |-> m.cols, roots |-> m.roots] /\ m.cols \in SUBSET Column
        /\ m.roots = [c \in DOMAIN m.roots |-> m.roots[c]]
        /\ DOMAIN m.roots \in SUBSET Column
        /\ \A c \in DOMAIN m.roots : m.roots[c] \in Nat
    BY <2>1 DEF CatOK, TableOK
  <2>3. m.roots \in [DOMAIN m.roots -> Nat]
    BY <2>2
  <2>4. m.roots \in UNION {[C -> Nat] : C \in SUBSET Column}
    BY <2>2, <2>3
  <2>5. [cols |-> m.cols, roots |-> m.roots] \in TableMetadata
    BY <2>2, <2>4 DEF TableMetadata
  <2> QED
    BY <2>1, <2>2, <2>5
<1>2. cat \in [DOMAIN cat -> TableMetadata] /\ DOMAIN cat \in SUBSET Table
  BY <1>1 DEF CatOK
<1> QED
  BY <1>2, TornAssumption

\* A step that writes pages of the index t0.c0 and new pages only.
OneTree(old, new, nd, nd2, pg, pg2, ls, t0, c0, own) ==
  /\ DOMAIN nd \subseteq DOMAIN nd2
  /\ \/ own = {}
     \/ t0 \in DOMAIN old /\ c0 \in DOMAIN old[t0].roots /\ own = TreeAt(nd, old[t0].roots[c0])
  /\ \A q \in DOMAIN nd \ own : nd2[q] = nd[q]
  /\ \A q \in DOMAIN nd : pg2[q] = pg[q]
  /\ \A t \in DOMAIN new : \A c \in DOMAIN new[t].roots : t # t0 \/ c # c0 =>
       /\ t \in DOMAIN old /\ c \in DOMAIN old[t].roots
       /\ new[t].roots[c] = old[t].roots[c] /\ new[t].cols = old[t].cols
  /\ t0 \in DOMAIN new /\ c0 \in DOMAIN new[t0].roots =>
       /\ GoodRoot(nd2, ls, new[t0].roots[c0])
       /\ c0 \notin new[t0].cols => nd2[new[t0].roots[c0]] = Empty /\ pg2[new[t0].roots[c0]] = Empty
       /\ TreeAt(nd2, new[t0].roots[c0]) \cap DOMAIN nd \subseteq own

LEMMA OneTreeGood ==
  ASSUME NEW old, NEW new, NEW nd, NEW nd2, NEW pg, NEW pg2, NEW ls, NEW t0, NEW c0, NEW own,
         Good(old, nd, pg, ls), OneTree(old, new, nd, nd2, pg, pg2, ls, t0, c0, own)
  PROVE  Good(new, nd2, pg2, ls)
<1>1. ASSUME NEW t \in DOMAIN new, NEW c \in DOMAIN new[t].roots, t # t0 \/ c # c0
      PROVE  /\ TreeAt(nd2, new[t].roots[c]) = TreeAt(nd, new[t].roots[c])
             /\ TreeAt(nd, new[t].roots[c]) \subseteq DOMAIN nd
             /\ TreeAt(nd, new[t].roots[c]) \cap own = {}
             /\ GoodRoot(nd2, ls, new[t].roots[c])
             /\ c \notin new[t].cols => nd2[new[t].roots[c]] = Empty /\ pg2[new[t].roots[c]] = Empty
  <2>1. PICK r : r = new[t].roots[c]
    OBVIOUS
  <2>2. /\ t \in DOMAIN old /\ c \in DOMAIN old[t].roots
        /\ r = old[t].roots[c] /\ new[t].cols = old[t].cols
    BY <1>1, <2>1 DEF OneTree
  <2>3. /\ GoodRoot(nd, ls, r)
        /\ c \notin old[t].cols => nd[r] = Empty /\ pg[r] = Empty
    BY <2>2 DEF Good
  <2>4. TreeAt(nd, r) \cap own = {}
    <3>1. CASE own = {}
      BY <3>1
    <3>2. CASE t0 \in DOMAIN old /\ c0 \in DOMAIN old[t0].roots /\ own = TreeAt(nd, old[t0].roots[c0])
      BY <1>1, <2>2, <3>2 DEF Good
    <3> QED
      BY <3>1, <3>2 DEF OneTree
  <2>5. TreeAt(nd, r) \subseteq DOMAIN nd /\ r \in TreeAt(nd, r)
    BY <2>3 DEF GoodRoot, TreeAt
  <2>6. \A q \in TreeAt(nd, r) : nd2[q] = nd[q] /\ pg2[q] = pg[q]
    BY <2>4, <2>5 DEF OneTree
  <2>7. TreeAt(nd2, r) = TreeAt(nd, r) /\ nd2[r] = nd[r] /\ pg2[r] = pg[r]
    BY <2>5, <2>6 DEF TreeAt
  <2>8. GoodRoot(nd2, ls, r)
    BY <2>3, <2>5, <2>6, <2>7 DEF GoodRoot, OneTree
  <2> QED
    BY <2>1, <2>2, <2>3, <2>4, <2>5, <2>7, <2>8
<1>2. ASSUME NEW t \in DOMAIN new, NEW c \in DOMAIN new[t].roots
      PROVE  /\ GoodRoot(nd2, ls, new[t].roots[c])
             /\ c \notin new[t].cols => nd2[new[t].roots[c]] = Empty /\ pg2[new[t].roots[c]] = Empty
  BY <1>1 DEF OneTree
<1>3. ASSUME NEW t \in DOMAIN new, NEW u \in DOMAIN new,
             NEW c \in DOMAIN new[t].roots, NEW d \in DOMAIN new[u].roots, t # u \/ c # d
      PROVE  TreeAt(nd2, new[t].roots[c]) \cap TreeAt(nd2, new[u].roots[d]) = {}
  <2>1. CASE (t # t0 \/ c # c0) /\ (u # t0 \/ d # c0)
    <3>1. /\ t \in DOMAIN old /\ c \in DOMAIN old[t].roots /\ new[t].roots[c] = old[t].roots[c]
          /\ u \in DOMAIN old /\ d \in DOMAIN old[u].roots /\ new[u].roots[d] = old[u].roots[d]
      BY <2>1 DEF OneTree
    <3>2. TreeAt(nd, old[t].roots[c]) \cap TreeAt(nd, old[u].roots[d]) = {}
      BY <1>3, <3>1 DEF Good
    <3> QED
      BY <1>1, <2>1, <3>1, <3>2
  <2>2. CASE t = t0 /\ c = c0
    <3>1. u # t0 \/ d # c0
      BY <1>3, <2>2
    <3>2. TreeAt(nd2, new[t].roots[c]) \cap DOMAIN nd \subseteq own
      BY <2>2 DEF OneTree
    <3> QED
      BY <1>1, <3>1, <3>2
  <2>3. CASE u = t0 /\ d = c0
    <3>1. t # t0 \/ c # c0
      BY <1>3, <2>3
    <3>2. TreeAt(nd2, new[u].roots[d]) \cap DOMAIN nd \subseteq own
      BY <2>3 DEF OneTree
    <3> QED
      BY <1>1, <3>1, <3>2
  <2> QED
    BY <2>1, <2>2, <2>3
<1> QED
  BY <1>2, <1>3 DEF Good

LEMMA GoodWithin ==
  ASSUME NEW a, NEW b, NEW nd, NEW pg, NEW ls, Within(a, b), Good(b, nd, pg, ls)
  PROVE  Good(a, nd, pg, ls)
<1>1. ASSUME NEW t \in DOMAIN a, NEW c \in DOMAIN a[t].roots
      PROVE  /\ t \in DOMAIN b /\ c \in DOMAIN b[t].roots
             /\ a[t].roots[c] = b[t].roots[c] /\ a[t].cols = b[t].cols
  BY DEF Within
<1>2. ASSUME NEW t \in DOMAIN a, NEW c \in DOMAIN a[t].roots
      PROVE  /\ GoodRoot(nd, ls, a[t].roots[c])
             /\ c \notin a[t].cols => nd[a[t].roots[c]] = Empty /\ pg[a[t].roots[c]] = Empty
  BY <1>1 DEF Good
<1>3. ASSUME NEW t \in DOMAIN a, NEW u \in DOMAIN a,
             NEW c \in DOMAIN a[t].roots, NEW d \in DOMAIN a[u].roots, t # u \/ c # d
      PROVE  TreeAt(nd, a[t].roots[c]) \cap TreeAt(nd, a[u].roots[d]) = {}
  BY <1>1, <1>3 DEF Good
<1> QED
  BY <1>2, <1>3 DEF Good

\* Writing back pages as they are in the pool.
LEMMA GoodFlushed ==
  ASSUME NEW cat, NEW nd, NEW pg, NEW pg2, NEW ls, Good(cat, nd, pg, ls),
         \A q \in DOMAIN nd : pg2[q] = pg[q] \/ pg2[q] = nd[q]
  PROVE  Good(cat, nd, pg2, ls)
<1>1. ASSUME NEW t \in DOMAIN cat, NEW c \in DOMAIN cat[t].roots, c \notin cat[t].cols
      PROVE  nd[cat[t].roots[c]] = Empty /\ pg2[cat[t].roots[c]] = Empty
  <2>1. cat[t].roots[c] \in DOMAIN nd
    BY DEF Good, GoodRoot, TreeAt
  <2> QED
    BY <1>1, <2>1 DEF Good
<1> QED
  BY <1>1 DEF Good

\* A crash: the pool is gone, and the pages that were newer in it count as lost.
LEMMA GoodCrashed ==
  ASSUME NEW cat, NEW nd, NEW pg, NEW ls, NEW ls2, Good(cat, nd, pg, ls),
         DOMAIN nd = DOMAIN pg, \A q \in DOMAIN pg : pg[q].kids \subseteq nd[q].kids,
         ls2 = ls \cup {q \in DOMAIN pg : nd[q] # pg[q]}
  PROVE  Good(cat, pg, pg, ls2)
<1>1. ASSUME NEW r, GoodRoot(nd, ls, r)
      PROVE  r \in DOMAIN pg /\ TreeAt(pg, r) \subseteq TreeAt(nd, r) /\ GoodRoot(pg, ls2, r)
  <2>1. r \in DOMAIN pg /\ TreeAt(nd, r) \subseteq DOMAIN pg /\ r \notin nd[r].kids
    BY <1>1 DEF GoodRoot, TreeAt
  <2>2. TreeAt(pg, r) \subseteq TreeAt(nd, r) /\ r \notin pg[r].kids
    BY <2>1 DEF TreeAt
  <2>3. CASE pg[r] # nd[r]
    <3>1. r \in TreeAt(pg, r) \cap ls2
      BY <2>1, <2>3 DEF TreeAt
    <3> QED
      BY <2>1, <2>2, <3>1 DEF GoodRoot
  <2>4. CASE pg[r] = nd[r]
    <3>1. TreeAt(pg, r) = TreeAt(nd, r)
      BY <2>4 DEF TreeAt
    <3>2. CASE TreeAt(nd, r) \cap ls # {}
      BY <2>1, <2>2, <3>1, <3>2 DEF GoodRoot
    <3>3. CASE \A q \in TreeAt(nd, r) : nd[q].kind # "zero"
      <4>1. ASSUME NEW q \in TreeAt(pg, r), pg[q].kind = "zero" PROVE q \in ls2
        BY <2>1, <3>1, <3>3, <4>1
      <4>2. (\A q \in TreeAt(pg, r) : pg[q].kind # "zero") \/ TreeAt(pg, r) \cap ls2 # {}
        BY <4>1
      <4> QED
        BY <2>1, <2>2, <4>2 DEF GoodRoot
    <3> QED
      BY <1>1, <3>2, <3>3 DEF GoodRoot
  <2> QED
    BY <2>1, <2>2, <2>3, <2>4
<1>2. ASSUME NEW t \in DOMAIN cat, NEW c \in DOMAIN cat[t].roots
      PROVE  /\ TreeAt(pg, cat[t].roots[c]) \subseteq TreeAt(nd, cat[t].roots[c])
             /\ GoodRoot(pg, ls2, cat[t].roots[c])
             /\ c \notin cat[t].cols => pg[cat[t].roots[c]] = Empty
  BY <1>1 DEF Good
<1>3. ASSUME NEW t \in DOMAIN cat, NEW u \in DOMAIN cat,
             NEW c \in DOMAIN cat[t].roots, NEW d \in DOMAIN cat[u].roots, t # u \/ c # d
      PROVE  TreeAt(pg, cat[t].roots[c]) \cap TreeAt(pg, cat[u].roots[d]) = {}
  <2>1. TreeAt(nd, cat[t].roots[c]) \cap TreeAt(nd, cat[u].roots[d]) = {}
    BY <1>3 DEF Good
  <2> QED
    BY <1>2, <2>1
<1> QED
  BY <1>2, <1>3 DEF Good

(***************************************************************************)
(* Steps that write no index page                                          *)
(***************************************************************************)

NodesSame == nodes' = nodes /\ pages' = pages /\ dirty' = dirty

LEMMA PagesSame ==
  ASSUME CInv, NodesSame
  PROVE  PagesOK'
<1>1. getPageCount' = getPageCount
  BY DEF NodesSame, getPageCount
<1> QED
  BY <1>1 DEF CInv, PagesOK, NodesSame

\* A call that runs is neither a shutdown nor the end of one.
LEMMA NotClosed ==
  ASSUME CInv, up
  PROVE  how # "close"
BY DEF CInv, SavedOK

LEMMA CallReturns ==
  ASSUME call' = Idle
  PROVE  CallOK'
BY DEF CallOK, Idle

LEMMA CallGoesOn ==
  ASSUME NEW s \in {"index", "save", "write", "stuck"}, NEW t, NEW k,
         call' = [stage |-> s, table |-> t, todo |-> k], up',
         k # {} => t \in DOMAIN tables' /\ k \subseteq tables'[t].cols \cap DOMAIN tables'[t].roots
  PROVE  CallOK'
<1>1. call'.stage = s /\ call'.table = t /\ call'.todo = k
  OBVIOUS
<1>2. s # "idle"
  OBVIOUS
<1>3. call'.todo # {} => call'.table \in DOMAIN tables' /\ call'.todo \subseteq Columns(call.table)'
  BY <1>1 DEF Columns
<1> QED
  BY <1>1, <1>2, <1>3 DEF CallOK

LEMMA CreateTableStep ==
  ASSUME CInv, NEW t \in Table, NEW cols \in Schemas, CreateTable(t, cols)
  PROVE  CInv'
<1>1. /\ up /\ t \notin DOMAIN tables /\ NodesSame
      /\ saved' = saved /\ file' = file /\ up' = up /\ how' = how /\ lost' = lost
      /\ call' = [stage |-> "save", table |-> t, todo |-> {}]
  BY DEF CreateTable, Ready, disk, hist, Running, NodesSame
<1>2. PICK m : m = [cols |-> cols, roots |-> [c \in {} |-> 0]]
  OBVIOUS
<1>3. /\ DOMAIN tables' = DOMAIN tables \cup {t} /\ tables'[t] = m
      /\ \A x \in DOMAIN tables : tables'[x] = tables[x]
      /\ tables' = [x \in DOMAIN tables' |-> tables'[x]]
  BY <1>1, <1>2 DEF CreateTable, With
<1>4. m.cols = cols /\ DOMAIN m.roots = {} /\ TableOK(m)
  BY <1>2, CatalogAssumption DEF TableOK
<1>5. /\ DOMAIN heap = DOMAIN tables
      /\ DOMAIN heap' = DOMAIN tables' /\ heap' = [x \in DOMAIN heap' |-> heap'[x]]
      /\ heap'[t] = file[t]
      /\ \A x \in DOMAIN tables : heap'[x] = heap[x]
  <2>1. DOMAIN heap = DOMAIN tables
    BY DEF CInv, RowsOK
  <2> QED
    BY <1>1, <1>3, <2>1 DEF CreateTable, With
<1>6. CatalogsOK'
  <2>1. CatOK(tables')
    BY <1>3, <1>4 DEF CInv, CatalogsOK, CatOK
  <2>2. OneTree(tables, tables', nodes, nodes, pages, pages, lost, t, "", {})
    BY <1>1, <1>3, <1>4 DEF OneTree
  <2>3. Good(tables', nodes, pages, lost)
    BY <2>2, OneTreeGood DEF CInv, CatalogsOK
  <2> QED
    BY <1>1, <2>1, <2>3 DEF CInv, CatalogsOK, NodesSame
<1>7. RowsOK'
  BY <1>1, <1>3, <1>5 DEF CInv, RowsOK
<1>8. CallOK'
  BY <1>1 DEF CallOK
<1>9. SavedOK'
  BY <1>1, NotClosed DEF SavedOK, Settled
<1> QED
  BY <1>1, <1>6, <1>7, <1>8, <1>9, PagesSame DEF CInv

LEMMA DropTableStep ==
  ASSUME CInv, NEW t \in Table, DropTable(t)
  PROVE  CInv'
<1>1. /\ up /\ t \in DOMAIN tables /\ NodesSame
      /\ saved' = saved /\ up' = up /\ how' = how /\ lost' = lost
      /\ call' = [stage |-> "save", table |-> t, todo |-> {}]
      /\ tables' = [x \in DOMAIN tables \ {t} |-> tables[x]]
      /\ heap' = [x \in DOMAIN tables \ {t} |-> heap[x]]
  BY DEF DropTable, Ready, hist, Running, NodesSame
<1>2. file' = [file EXCEPT ![t] = 0]
  BY DEF DropTable, Remove
<1>3. saved # Torn /\ DOMAIN saved = DOMAIN tables
  BY DEF CInv, SavedOK, Settled, Within, DropTable, Ready, Idle
<1>4. CatalogsOK'
  <2>1. CatOK(tables')
    BY <1>1 DEF CInv, CatalogsOK, CatOK
  <2>2. OneTree(tables, tables', nodes, nodes, pages, pages, lost, t, "", {})
    BY <1>1 DEF OneTree
  <2>3. Good(tables', nodes, pages, lost)
    BY <2>2, OneTreeGood DEF CInv, CatalogsOK
  <2> QED
    BY <1>1, <2>1, <2>3 DEF CInv, CatalogsOK, NodesSame
<1>5. RowsOK'
  BY <1>1, <1>2, <1>3 DEF CInv, RowsOK
<1>6. CallOK'
  BY <1>1 DEF CallOK
<1>7. SavedOK'
  BY <1>1, NotClosed DEF SavedOK, Settled
<1> QED
  BY <1>1, <1>4, <1>5, <1>6, <1>7, PagesSame DEF CInv

LEMMA InsertStep ==
  ASSUME CInv, NEW t \in Table, NEW keys, Insert(t, keys)
  PROVE  CInv'
<1>1. /\ up /\ call = Idle /\ t \in DOMAIN tables /\ keys \subseteq Columns(t) /\ NodesSame
      /\ tables' = tables /\ saved' = saved /\ file' = file
      /\ up' = up /\ how' = how /\ lost' = lost
  BY DEF Insert, Ready, disk, hist, NodesSame
<1>2. \/ call' = Idle
      \/ call' = [stage |-> "index", table |-> t, todo |-> keys]
  BY DEF Insert, Continue, Running
<1>3. /\ heap' = [x \in DOMAIN tables |-> heap'[x]]
      /\ \A x \in DOMAIN tables \ {t} : heap'[x] = heap[x]
  BY DEF Insert, CInv, RowsOK
<1>4. Settled /\ saved # Torn /\ Within(saved, tables) /\ DOMAIN saved = DOMAIN tables
  BY <1>1 DEF CInv, SavedOK, Settled, Within, Idle
<1>5. RowsOK'
  BY <1>1, <1>3, <1>4 DEF CInv, RowsOK
<1>6. CallOK'
  BY <1>1, <1>2, CallReturns, CallGoesOn DEF Columns
<1>7. SavedOK'
  BY <1>1, <1>4, NotClosed DEF SavedOK
<1>8. CatalogsOK'
  BY <1>1 DEF CInv, CatalogsOK, NodesSame
<1> QED
  BY <1>1, <1>5, <1>6, <1>7, <1>8, PagesSame DEF CInv

LEMMA IndexRowFailsStep ==
  ASSUME CInv, NEW c, NEW p, IndexRowFails(c, p)
  PROVE  CInv'
<1>1. /\ up /\ call.stage = "index" /\ NodesSame
      /\ tables' = tables /\ saved' = saved /\ file' = file /\ heap' = heap
      /\ up' = up /\ how' = how /\ lost' = lost /\ call' = Idle
  BY DEF IndexRowFails, disk, hist, NodesSame
<1>2. Settled /\ saved # Torn /\ Within(saved, tables)
  BY <1>1 DEF CInv, SavedOK, Settled
<1>3. SavedOK'
  BY <1>1, <1>2, NotClosed DEF SavedOK
<1>4. CallOK'
  BY <1>1 DEF CallOK, Idle
<1>5. CatalogsOK' /\ RowsOK'
  BY <1>1 DEF CInv, CatalogsOK, RowsOK, NodesSame
<1> QED
  BY <1>1, <1>3, <1>4, <1>5, PagesSame DEF CInv

LEMMA SaveTruncateStep ==
  ASSUME CInv, SaveTruncate
  PROVE  CInv'
<1>1. /\ up /\ call.stage = "save" /\ NodesSame
      /\ tables' = tables /\ saved' = Torn /\ file' = file /\ heap' = heap
      /\ up' = up /\ how' = how /\ lost' = lost
  BY DEF SaveTruncate, hist, NodesSame
<1>2. call'.stage = "write" /\ call'.table = call.table /\ call'.todo = call.todo
      /\ call' = [stage |-> "write", table |-> call.table, todo |-> call.todo]
  BY DEF SaveTruncate, CInv, CallOK
<1>3. SavedOK'
  BY <1>1, <1>2, NotClosed DEF SavedOK, Settled
<1>4. CallOK'
  BY <1>1, <1>2 DEF CInv, CallOK, Columns
<1>5. CatalogsOK' /\ RowsOK'
  BY <1>1 DEF CInv, CatalogsOK, RowsOK, NodesSame
<1> QED
  BY <1>1, <1>3, <1>4, <1>5, PagesSame DEF CInv

LEMMA WithinSelf ==
  ASSUME NEW cat
  PROVE  Within(cat, cat)
BY DEF Within

LEMMA SaveWriteStep ==
  ASSUME CInv, SaveWrite
  PROVE  CInv'
<1>1. /\ up /\ call.stage = "write" /\ NodesSame
      /\ tables' = tables /\ saved' = tables /\ file' = file /\ heap' = heap
      /\ up' = up /\ how' = how /\ lost' = lost
      /\ call' = Continue(call.table, call.todo)
  BY DEF SaveWrite, Image, hist, NodesSame
<1>2. \/ call' = Idle
      \/ call' = [stage |-> "index", table |-> call.table, todo |-> call.todo]
  BY <1>1 DEF Continue, Running
<1>3. tables # Torn
  BY TornIsNoCatalog DEF CInv, CatalogsOK
<1>4. SavedOK'
  BY <1>1, <1>3, NotClosed, WithinSelf DEF SavedOK
<1>5. CallOK'
  <2>1. call.todo # {} => call.table \in DOMAIN tables /\ call.todo \subseteq Columns(call.table)
    BY DEF CInv, CallOK
  <2> QED
    BY <1>1, <1>2, <2>1, CallReturns, CallGoesOn DEF Columns
<1>6. CatalogsOK'
  BY <1>1 DEF CInv, CatalogsOK, NodesSame
<1>7. RowsOK'
  BY <1>1 DEF CInv, RowsOK
<1> QED
  BY <1>1, <1>4, <1>5, <1>6, <1>7, PagesSame DEF CInv

LEMMA EvictHeapStep ==
  ASSUME CInv, NEW t \in Table, EvictHeap(t)
  PROVE  CInv'
<1>1. /\ up /\ t \in DOMAIN tables /\ NodesSame
      /\ tables' = tables /\ saved' = saved /\ heap' = heap /\ call' = call
      /\ up' = up /\ how' = how /\ lost' = lost
      /\ file' = [file EXCEPT ![t] = heap[t]]
  BY DEF EvictHeap, hist, NodesSame
<1>2. SavedOK'
  BY <1>1, NotClosed DEF CInv, SavedOK, Settled
<1>3. CallOK'
  BY <1>1 DEF CInv, CallOK, Columns
<1>4. CatalogsOK'
  BY <1>1 DEF CInv, CatalogsOK, NodesSame
<1>5. RowsOK'
  BY <1>1 DEF CInv, RowsOK
<1> QED
  BY <1>1, <1>2, <1>3, <1>4, <1>5, PagesSame DEF CInv

(***************************************************************************)
(* Evictions, shutdown, crash and restart                                  *)
(***************************************************************************)

\* Pages are written back as the pool shows them.
LEMMA PagesFlushed ==
  ASSUME CInv, nodes' = nodes, DOMAIN pages' = DOMAIN pages,
         pages' = [q \in DOMAIN pages' |-> pages'[q]], dirty' \subseteq DOMAIN pages,
         \A q \in DOMAIN pages : pages'[q] = nodes[q] \/ (pages'[q] = pages[q] /\ (q \notin dirty' => q \notin dirty))
  PROVE  PagesOK'
<1>1. getPageCount' = getPageCount
  BY DEF getPageCount
<1>2. \A q \in DOMAIN pages : /\ q \notin dirty => nodes[q] = pages[q]
                              /\ pages[q].kids \subseteq nodes[q].kids
  BY DEF CInv, PagesOK
<1>3. DOMAIN nodes = DOMAIN pages /\ Plain(nodes) /\ Plain(pages)
  BY DEF CInv, PagesOK
<1>4. Plain(pages)'
  BY <1>3 DEF Plain
<1> QED
  BY <1>1, <1>2, <1>3, <1>4 DEF CInv, PagesOK

LEMMA EvictIndexStep ==
  ASSUME CInv, NEW p, EvictIndex(p)
  PROVE  CInv'
<1>1. /\ up /\ p \in dirty
      /\ tables' = tables /\ saved' = saved /\ heap' = heap /\ file' = file /\ call' = call
      /\ up' = up /\ how' = how /\ lost' = lost /\ nodes' = nodes /\ dirty' = dirty \ {p}
      /\ pages' = [pages EXCEPT ![p] = nodes[p]]
  BY DEF EvictIndex, hist
<1>2. pages = [q \in DOMAIN pages |-> pages[q]] /\ dirty \subseteq DOMAIN pages /\ DOMAIN nodes = DOMAIN pages
  BY DEF CInv, PagesOK
<1>3. /\ DOMAIN pages' = DOMAIN pages /\ pages' = [q \in DOMAIN pages' |-> pages'[q]]
      /\ pages'[p] = nodes[p] /\ \A q \in DOMAIN pages \ {p} : pages'[q] = pages[q]
  BY <1>1, <1>2
<1>4. PagesOK'
  BY <1>1, <1>2, <1>3, PagesFlushed
<1>5. CatalogsOK'
  <2>1. \A q \in DOMAIN nodes : pages'[q] = pages[q] \/ pages'[q] = nodes[q]
    BY <1>2, <1>3
  <2>2. Good(tables, nodes, pages', lost)
    BY <2>1, GoodFlushed DEF CInv, CatalogsOK
  <2>3. saved # Torn => Good(saved, nodes, pages', lost)
    BY <2>1, GoodFlushed DEF CInv, CatalogsOK
  <2> QED
    BY <1>1, <2>2, <2>3 DEF CInv, CatalogsOK
<1>6. SavedOK'
  BY <1>1, NotClosed DEF CInv, SavedOK, Settled
<1>7. CallOK' /\ RowsOK'
  BY <1>1 DEF CInv, CallOK, Columns, RowsOK
<1> QED
  BY <1>4, <1>5, <1>6, <1>7 DEF CInv

LEMMA CloseStep ==
  ASSUME CInv, Close
  PROVE  CInv'
<1>1. /\ up /\ call = Idle
      /\ tables' = tables /\ saved' = saved /\ heap' = heap /\ call' = call
      /\ ~up' /\ how' = "close" /\ lost' = lost /\ nodes' = nodes /\ dirty' = {}
      /\ pages' = [q \in DOMAIN pages |-> IF q \in dirty THEN nodes[q] ELSE pages[q]]
      /\ file' = With(file, heap)
  BY DEF Close, Ready, Stop
<1>2. /\ DOMAIN nodes = DOMAIN pages /\ nodes = [q \in DOMAIN pages |-> nodes[q]]
      /\ \A q \in DOMAIN pages : q \notin dirty => nodes[q] = pages[q]
  BY DEF CInv, PagesOK
<1>3. DOMAIN pages' = DOMAIN pages /\ pages' = [q \in DOMAIN pages' |-> pages'[q]]
      /\ \A q \in DOMAIN pages : pages'[q] = nodes[q]
  BY <1>1, <1>2
<1>4. PagesOK'
  BY <1>1, <1>3, PagesFlushed
<1>5. nodes' = pages'
  BY <1>1, <1>2, <1>3
<1>6. CatalogsOK'
  <2>1. \A q \in DOMAIN nodes : pages'[q] = pages[q] \/ pages'[q] = nodes[q]
    BY <1>2, <1>3
  <2>2. Good(tables, nodes, pages', lost)
    BY <2>1, GoodFlushed DEF CInv, CatalogsOK
  <2>3. saved # Torn => Good(saved, nodes, pages', lost)
    BY <2>1, GoodFlushed DEF CInv, CatalogsOK
  <2> QED
    BY <1>1, <2>2, <2>3 DEF CInv, CatalogsOK
<1>7. saved # Torn /\ Within(saved, tables) /\ DOMAIN saved = DOMAIN tables
  BY <1>1 DEF CInv, SavedOK, Settled, Within, Idle
<1>8. /\ DOMAIN heap = DOMAIN tables /\ DOMAIN file = Table /\ DOMAIN tables \subseteq Table
      /\ heap = [t \in DOMAIN tables |-> heap[t]]
      /\ \A t \in Table \ DOMAIN saved : file[t] = 0
  BY <1>7 DEF CInv, RowsOK, CatalogsOK, CatOK
<1>9. /\ file' = [t \in Table |-> file'[t]]
      /\ \A t \in DOMAIN tables : file'[t] = heap[t]
      /\ \A t \in Table \ DOMAIN tables : file'[t] = file[t]
  BY <1>1, <1>8 DEF With
<1>10. RowsOK'
  BY <1>1, <1>7, <1>8, <1>9 DEF RowsOK
<1>11. SavedOK'
  BY <1>1, <1>5, <1>7, <1>9 DEF SavedOK
<1> QED
  BY <1>1, <1>4, <1>6, <1>10, <1>11, CallReturns DEF CInv

LEMMA NothingIsGood ==
  ASSUME NEW nd, NEW pg, NEW ls
  PROVE  DOMAIN NoTables = {} /\ CatOK(NoTables) /\ Good(NoTables, nd, pg, ls)
<1>1. DOMAIN NoTables = {} /\ NoTables = [t \in DOMAIN NoTables |-> NoTables[t]]
  BY DEF NoTables
<1> QED
  BY <1>1 DEF CatOK, Good

LEMMA CrashStep ==
  ASSUME CInv, Crash
  PROVE  CInv'
<1>1. /\ up /\ tables' = NoTables /\ saved' = saved /\ file' = file /\ pages' = pages
      /\ ~up' /\ how' = "crash" /\ nodes' = pages /\ dirty' = {} /\ call' = Idle
      /\ heap' = [t \in {} |-> 0]
      /\ lost' = lost \cup {p \in DOMAIN pages : nodes[p] # pages[p]}
  BY DEF Crash, Stop, disk
<1>2. DOMAIN tables' = {}
  BY <1>1, NothingIsGood
<1>3. PagesOK'
  <2>1. getPageCount' = getPageCount
    BY <1>1 DEF getPageCount
  <2> QED
    BY <1>1, <2>1 DEF CInv, PagesOK
<1>4. CatalogsOK'
  <2>1. DOMAIN nodes = DOMAIN pages /\ \A q \in DOMAIN pages : pages[q].kids \subseteq nodes[q].kids
    BY DEF CInv, PagesOK
  <2>2. saved # Torn => Good(saved, pages, pages, lost')
    BY <1>1, <2>1, GoodCrashed DEF CInv, CatalogsOK
  <2> QED
    BY <1>1, <2>2, NothingIsGood DEF CInv, CatalogsOK
<1>5. RowsOK'
  BY <1>1, <1>2 DEF CInv, RowsOK
<1>6. SavedOK'
  BY <1>1 DEF SavedOK, Settled
<1> QED
  BY <1>1, <1>3, <1>4, <1>5, <1>6, CallReturns DEF CInv

LEMMA OpenStep ==
  ASSUME CInv, Open
  PROVE  CInv'
<1>1. /\ ~up /\ saved # Torn /\ up' /\ tables' = saved /\ nodes' = pages /\ how' = ""
      /\ saved' = saved /\ file' = file /\ pages' = pages /\ dirty' = dirty /\ call' = call /\ lost' = lost
      /\ heap' = [t \in DOMAIN saved |-> file[t]]
  BY DEF Open, disk
<1>2. call = Idle
  BY <1>1 DEF CInv, CallOK
<1>3. PagesOK'
  <2>1. getPageCount' = getPageCount
    BY <1>1 DEF getPageCount
  <2> QED
    BY <1>1, <2>1 DEF CInv, PagesOK
<1>4. Good(saved, pages, pages, lost)
  BY <1>1 DEF CInv, CatalogsOK, SavedOK
<1>5. CatalogsOK'
  BY <1>1, <1>4 DEF CInv, CatalogsOK
<1>6. RowsOK'
  BY <1>1 DEF CInv, RowsOK
<1>7. SavedOK'
  BY <1>1, WithinSelf DEF SavedOK
<1> QED
  BY <1>1, <1>2, <1>3, <1>5, <1>6, <1>7, CallReturns DEF CInv

(***************************************************************************)
(* Steps that write index pages                                            *)
(***************************************************************************)

\* k pages are added to the index file.
MorePages(k) ==
  /\ pages' = [q \in DOMAIN pages' |-> pages'[q]]
  /\ DOMAIN pages' = 0 .. getPageCount + k - 1
  /\ \A q \in DOMAIN pages : pages'[q] = pages[q]
  /\ \A q \in DOMAIN pages' \ DOMAIN pages : pages'[q].kind # "internal" /\ pages'[q].kids = {}

\* What may be written: pages of the file, and a node keeps the children it has.
Writable(more) ==
  /\ DOMAIN more \subseteq DOMAIN pages'
  /\ \A q \in DOMAIN more : more[q].kind # "internal" => more[q].kids = {}
  /\ \A q \in DOMAIN more \cap DOMAIN pages : nodes[q].kids \subseteq more[q].kids

LEMMA IntervalCount ==
  ASSUME NEW n \in Nat
  PROVE  Cardinality(0 .. n - 1) = n
<1>1. Cardinality(0 .. n - 1) = IF 0 > n - 1 THEN 0 ELSE n - 1 - 0 + 1
  BY FS_Interval
<1> QED
  BY <1>1

LEMMA PagesGrown ==
  ASSUME CInv, NEW k \in Nat, MorePages(k), NEW more, writeNodes(more), Writable(more)
  PROVE  /\ PagesOK' /\ DOMAIN nodes' = DOMAIN pages' /\ DOMAIN pages \subseteq DOMAIN pages'
         /\ \A q \in DOMAIN more : nodes'[q] = more[q]
         /\ \A q \in DOMAIN nodes \ DOMAIN more : nodes'[q] = nodes[q]
         /\ \A q \in DOMAIN nodes' \ (DOMAIN nodes \cup DOMAIN more) : nodes'[q] = pages'[q]
<1>1. /\ getPageCount \in Nat /\ DOMAIN pages = 0 .. getPageCount - 1
      /\ DOMAIN nodes = DOMAIN pages
      /\ dirty \subseteq DOMAIN pages
      /\ \A q \in DOMAIN pages : q \notin dirty => nodes[q] = pages[q]
      /\ \A q \in DOMAIN pages : pages[q].kids \subseteq nodes[q].kids
      /\ Plain(nodes) /\ Plain(pages)
  BY DEF CInv, PagesOK
<1>2. nodes' = With(With(nodes, pages'), With(nodes, more)) /\ dirty' = dirty \cup DOMAIN more
  BY DEF writeNodes, MarkDirty
<1>3. DOMAIN pages \subseteq DOMAIN pages'
  BY <1>1 DEF MorePages
<1>4. /\ DOMAIN nodes' = DOMAIN pages' /\ nodes' = [q \in DOMAIN nodes' |-> nodes'[q]]
      /\ \A q \in DOMAIN more : nodes'[q] = more[q]
      /\ \A q \in DOMAIN nodes \ DOMAIN more : nodes'[q] = nodes[q]
      /\ \A q \in DOMAIN nodes' \ (DOMAIN nodes \cup DOMAIN more) : nodes'[q] = pages'[q]
  BY <1>1, <1>2, <1>3 DEF With, Writable
<1>5. getPageCount' \in Nat /\ DOMAIN pages' = 0 .. getPageCount' - 1
  <2>1. getPageCount + k \in Nat /\ DOMAIN pages' = 0 .. (getPageCount + k) - 1
    BY <1>1 DEF MorePages
  <2>2. getPageCount' = getPageCount + k
    BY <2>1, IntervalCount DEF getPageCount
  <2> QED
    BY <2>1, <2>2
<1>6. dirty' \subseteq DOMAIN pages'
  BY <1>1, <1>2, <1>3 DEF Writable
<1>7. ASSUME NEW q \in DOMAIN pages'
      PROVE  /\ q \notin dirty' => nodes'[q] = pages'[q]
             /\ pages'[q].kids \subseteq nodes'[q].kids
             /\ nodes'[q].kind # "internal" => nodes'[q].kids = {}
             /\ pages'[q].kind # "internal" => pages'[q].kids = {}
  <2>1. CASE q \in DOMAIN pages /\ q \in DOMAIN more
    BY <1>1, <1>2, <1>4, <2>1 DEF Plain, MorePages, Writable
  <2>2. CASE q \in DOMAIN pages /\ q \notin DOMAIN more
    BY <1>1, <1>2, <1>4, <2>2 DEF Plain, MorePages
  <2>3. CASE q \notin DOMAIN pages /\ q \in DOMAIN more
    BY <1>1, <1>2, <1>4, <2>3 DEF MorePages, Writable
  <2>4. CASE q \notin DOMAIN pages /\ q \notin DOMAIN more
    BY <1>1, <1>2, <1>4, <2>4 DEF MorePages
  <2> QED
    BY <2>1, <2>2, <2>3, <2>4
<1>8. Plain(nodes)' /\ Plain(pages)'
  BY <1>4, <1>7 DEF Plain
<1> QED
  BY <1>3, <1>4, <1>5, <1>6, <1>7, <1>8 DEF PagesOK, MorePages

LEMMA Allocated ==
  ASSUME CInv, NEW k \in Nat, pages' = allocateIndexPage(k)
  PROVE  MorePages(k)
<1>1. PICK n : n = getPageCount
  OBVIOUS
<1>2. n \in Nat /\ DOMAIN pages = 0 .. n - 1
  BY <1>1 DEF CInv, PagesOK
<1>3. pages' = With(pages, [p \in n .. n + k - 1 |-> Zero])
  BY <1>1 DEF allocateIndexPage
<1>4. /\ DOMAIN pages' = 0 .. n + k - 1 /\ pages' = [q \in DOMAIN pages' |-> pages'[q]]
      /\ \A q \in DOMAIN pages : pages'[q] = pages[q]
      /\ \A q \in DOMAIN pages' \ DOMAIN pages : pages'[q] = Zero
  BY <1>2, <1>3 DEF With
<1> QED
  BY <1>1, <1>4 DEF MorePages, Zero

\* The table t gets root r for column c, which it may have had another root for.
SetsRoot(t, c, r) ==
  /\ tables' = [x \in DOMAIN tables' |-> tables'[x]] /\ DOMAIN tables' = DOMAIN tables
  /\ \A x \in DOMAIN tables \ {t} : tables'[x] = tables[x]
  /\ tables'[t].cols = tables[t].cols
  /\ DOMAIN tables'[t].roots = DOMAIN tables[t].roots \cup {c}
  /\ tables'[t].roots[c] = r
  /\ \A d \in DOMAIN tables[t].roots \ {c} : tables'[t].roots[d] = tables[t].roots[d]
  /\ TableOK(tables'[t])

LEMMA RootIsSet ==
  ASSUME CInv, NEW t \in DOMAIN tables, NEW c \in Column, NEW r \in Nat,
         \/ tables' = [tables EXCEPT ![t].roots = With(@, [x \in {c} |-> r])]
         \/ c \in DOMAIN tables[t].roots /\ tables' = [tables EXCEPT ![t].roots[c] = r]
  PROVE  SetsRoot(t, c, r)
<1>1. tables = [x \in DOMAIN tables |-> tables[x]] /\ TableOK(tables[t])
  BY DEF CInv, CatalogsOK, CatOK
<1>2. PICK m : m = tables[t]
  OBVIOUS
<1>3. PICK R : R = With(m.roots, [x \in {c} |-> r])
  OBVIOUS
<1>4. /\ DOMAIN R = DOMAIN m.roots \cup {c} /\ R[c] = r /\ R = [d \in DOMAIN R |-> R[d]]
      /\ \A d \in DOMAIN m.roots \ {c} : R[d] = m.roots[d]
  BY <1>3 DEF With
<1>5. c \in DOMAIN m.roots => [m.roots EXCEPT ![c] = r] = R
  BY <1>1, <1>2, <1>4 DEF TableOK
<1>6. PICK k : k = [cols |-> m.cols, roots |-> R]
  OBVIOUS
<1>7. k.cols = m.cols /\ k.roots = R
  BY <1>6
<1>8. m = [cols |-> m.cols, roots |-> m.roots]
  BY <1>1, <1>2 DEF TableOK
<1>9. [m EXCEPT !.roots = R] = k
  BY <1>6, <1>8
<1>10. tables' = [tables EXCEPT ![t] = k]
  BY <1>2, <1>3, <1>5, <1>9
<1>11. TableOK(k)
  BY <1>1, <1>2, <1>4, <1>6, <1>7 DEF TableOK
<1>12. /\ DOMAIN tables' = DOMAIN tables /\ tables'[t] = k
       /\ \A x \in DOMAIN tables \ {t} : tables'[x] = tables[x]
       /\ tables' = [x \in DOMAIN tables' |-> tables'[x]]
  BY <1>1, <1>10
<1> QED
  BY <1>2, <1>4, <1>7, <1>11, <1>12 DEF SetsRoot

\* CREATE INDEX has registered a new page as the root.
Registers(t, c, p) ==
  /\ t \in DOMAIN tables /\ c \in Column /\ c \notin DOMAIN tables[t].roots
  /\ SetsRoot(t, c, p)
  /\ p \notin DOMAIN nodes /\ p \in DOMAIN nodes'
  /\ DOMAIN nodes \subseteq DOMAIN nodes'
  /\ \A q \in DOMAIN nodes : nodes'[q] = nodes[q] /\ pages'[q] = pages[q]
  /\ nodes'[p].kind # "zero" /\ nodes'[p].kids = {}
  /\ c \notin tables[t].cols => nodes'[p] = Empty /\ pages'[p] = Empty
  /\ saved' = saved /\ lost' = lost /\ heap' = heap /\ file' = file
  /\ up /\ up' = up /\ how' = how /\ call = Idle

LEMMA RegistersGood ==
  ASSUME CInv, NEW t, NEW c, NEW p, Registers(t, c, p)
  PROVE  CatalogsOK' /\ RowsOK' /\ Within(saved, tables) /\ saved # Torn
<1>1. Good(tables, nodes, pages, lost) /\ CatOK(tables)
  BY DEF CInv, CatalogsOK
<1>2. saved # Torn /\ Within(saved, tables)
  BY DEF CInv, SavedOK, Settled, Registers, Idle
<1>3. CatOK(tables')
  BY <1>1 DEF CatOK, Registers, SetsRoot
<1>4. OneTree(tables, tables, nodes, nodes', pages, pages', lost, t, c, {})
  BY DEF OneTree, Registers
<1>5. Good(saved, nodes', pages', lost)
  BY <1>1, <1>2, <1>4, OneTreeGood, GoodWithin
<1>6. OneTree(tables, tables', nodes, nodes', pages, pages', lost, t, c, {})
  <2>1. TreeAt(nodes', p) = {p}
    BY DEF TreeAt, Registers
  <2>2. GoodRoot(nodes', lost, p) /\ TreeAt(nodes', p) \cap DOMAIN nodes = {}
    BY <2>1 DEF GoodRoot, Registers
  <2>3. tables'[t].roots[c] = p /\ tables'[t].cols = tables[t].cols
    BY DEF Registers, SetsRoot
  <2>4. ASSUME NEW x \in DOMAIN tables', NEW d \in DOMAIN tables'[x].roots, x # t \/ d # c
        PROVE  /\ x \in DOMAIN tables /\ d \in DOMAIN tables[x].roots
               /\ tables'[x].roots[d] = tables[x].roots[d] /\ tables'[x].cols = tables[x].cols
    BY <2>4 DEF Registers, SetsRoot
  <2> QED
    BY <2>2, <2>3, <2>4 DEF OneTree, Registers
<1>7. Good(tables', nodes', pages', lost)
  BY <1>1, <1>6, OneTreeGood
<1>8. CatalogsOK'
  BY <1>3, <1>5, <1>7 DEF CInv, CatalogsOK, Registers
<1>9. RowsOK'
  BY DEF CInv, RowsOK, Registers, SetsRoot
<1> QED
  BY <1>2, <1>8, <1>9

LEMMA CreateIndexStep ==
  ASSUME CInv, NEW t \in Table, NEW c \in Column, CreateIndex(t, c)
  PROVE  CInv'
<1>1. PICK p : p = getPageCount
  OBVIOUS
<1>2. /\ up /\ call = Idle /\ t \in DOMAIN tables /\ c \notin DOMAIN tables[t].roots
      /\ tables' = [tables EXCEPT ![t].roots = With(@, [x \in {c} |-> p])]
      /\ saved' = saved /\ file' = file /\ heap' = heap /\ up' = up /\ how' = how /\ lost' = lost
  BY <1>1 DEF CreateIndex, Ready, hist
<1>3. p \in Nat /\ DOMAIN pages = 0 .. p - 1 /\ DOMAIN nodes = DOMAIN pages
  BY <1>1 DEF CInv, PagesOK
<1>4. SetsRoot(t, c, p)
  BY <1>2, <1>3, RootIsSet
<1>5. ASSUME NEW k \in Nat, k > 0, MorePages(k), NEW more, writeNodes(more),
             DOMAIN more \subseteq p .. p + k - 1,
             \A q \in DOMAIN more : more[q].kind # "internal" => more[q].kids = {},
             pages'[p] = Empty,
             p \in DOMAIN more => more[p] = Leaf /\ c \in tables[t].cols
      PROVE  PagesOK' /\ Registers(t, c, p)
  <2>1. DOMAIN pages' = 0 .. p + k - 1 /\ \A q \in DOMAIN pages : pages'[q] = pages[q]
    BY <1>1, <1>5 DEF MorePages
  <2>2. Writable(more)
    BY <1>3, <1>5, <2>1 DEF Writable
  <2>3. /\ PagesOK' /\ DOMAIN nodes' = DOMAIN pages' /\ DOMAIN pages \subseteq DOMAIN pages'
        /\ \A q \in DOMAIN more : nodes'[q] = more[q]
        /\ \A q \in DOMAIN nodes \ DOMAIN more : nodes'[q] = nodes[q]
        /\ \A q \in DOMAIN nodes' \ (DOMAIN nodes \cup DOMAIN more) : nodes'[q] = pages'[q]
    BY <1>5, <2>2, PagesGrown
  <2>4. p \notin DOMAIN nodes /\ p \in DOMAIN nodes'
    BY <1>3, <1>5, <2>1, <2>3
  <2>5. (nodes'[p] = Leaf /\ c \in tables[t].cols) \/ nodes'[p] = Empty
    BY <1>5, <2>3, <2>4
  <2>6. nodes'[p].kind # "zero" /\ nodes'[p].kids = {}
    BY <2>5 DEF Leaf, Empty
  <2>7. \A q \in DOMAIN nodes : nodes'[q] = nodes[q]
    BY <1>3, <1>5, <2>3
  <2> QED
    BY <1>2, <1>3, <1>4, <1>5, <2>1, <2>3, <2>4, <2>5, <2>6, <2>7 DEF Registers
<1>6. ASSUME pages' = With(pages, [q \in {p} |-> Empty])
      PROVE  MorePages(1) /\ pages'[p] = Empty
  <2>1. /\ DOMAIN pages' = 0 .. p + 1 - 1 /\ pages' = [q \in DOMAIN pages' |-> pages'[q]]
        /\ \A q \in DOMAIN pages : pages'[q] = pages[q]
        /\ \A q \in DOMAIN pages' \ DOMAIN pages : pages'[q] = Empty
        /\ pages'[p] = Empty
    BY <1>3, <1>6 DEF With
  <2>2. Empty.kind # "internal" /\ Empty.kids = {}
    BY DEF Empty
  <2> QED
    BY <1>1, <2>1, <2>2 DEF MorePages
<1>7. CASE /\ c \notin tables[t].cols
           /\ pages' = With(pages, [q \in {p} |-> Empty])
           /\ call' = Idle
           /\ writeNodes([q \in {} |-> Zero])
  <2>1. PagesOK' /\ Registers(t, c, p)
    BY <1>5, <1>6, <1>7
  <2>2. Within(saved, tables) /\ saved # Torn /\ CatalogsOK' /\ RowsOK'
    BY <2>1, RegistersGood
  <2>3. Within(saved, tables')
    <3>1. DOMAIN saved = DOMAIN tables /\ DOMAIN tables' = DOMAIN tables
      BY <1>4, <2>2 DEF Within, SetsRoot
    <3>2. ASSUME NEW x \in DOMAIN tables
          PROVE  /\ saved[x].cols = tables'[x].cols
                 /\ DOMAIN saved[x].roots \subseteq DOMAIN tables'[x].roots
                 /\ DOMAIN tables'[x].roots \cap tables'[x].cols \subseteq DOMAIN saved[x].roots
                 /\ \A d \in DOMAIN saved[x].roots : saved[x].roots[d] = tables'[x].roots[d]
      <4>1. /\ saved[x].cols = tables[x].cols
            /\ DOMAIN saved[x].roots \subseteq DOMAIN tables[x].roots
            /\ DOMAIN tables[x].roots \cap tables[x].cols \subseteq DOMAIN saved[x].roots
            /\ \A d \in DOMAIN saved[x].roots : saved[x].roots[d] = tables[x].roots[d]
        BY <2>2 DEF Within
      <4>2. CASE x # t
        BY <1>4, <4>1, <4>2 DEF SetsRoot
      <4>3. CASE x = t
        <5>1. c \notin DOMAIN saved[t].roots
          BY <1>2, <4>1, <4>3
        <5> QED
          BY <1>4, <1>7, <4>1, <4>3, <5>1 DEF SetsRoot
      <4> QED
        BY <4>2, <4>3
    <3> QED
      BY <3>1, <3>2 DEF Within
  <2>4. SavedOK'
    BY <1>2, <2>2, <2>3, NotClosed DEF SavedOK
  <2> QED
    BY <1>7, <2>1, <2>2, <2>4, CallReturns DEF CInv
<1>8. ASSUME PagesOK', Registers(t, c, p), NEW s \in {"save", "stuck"},
             call' = [stage |-> s, table |-> t, todo |-> {}]
      PROVE  CInv'
  <2>1. CatalogsOK' /\ RowsOK'
    BY <1>8, RegistersGood
  <2>2. SavedOK'
    BY <1>2, <1>8, NotClosed DEF SavedOK, Settled
  <2>3. CallOK'
    BY <1>2, <1>8, CallGoesOn
  <2> QED
    BY <1>8, <2>1, <2>2, <2>3 DEF CInv
<1>9. CASE /\ c \in tables[t].cols
           /\ pages' = With(pages, [q \in {p} |-> Empty])
           /\ call' = Running("save", t, {})
           /\ writeNodes([q \in {} |-> Zero]) \/ writeNodes([q \in {p} |-> Leaf])
  <2>1. PICK more \in {[q \in {} |-> Zero], [q \in {p} |-> Leaf]} : writeNodes(more)
    BY <1>9
  <2>2. DOMAIN more \subseteq {p} /\ \A q \in DOMAIN more : more[q] = Leaf
    BY <2>1
  <2>3. \A q \in DOMAIN more : more[q].kind # "internal" => more[q].kids = {}
    BY <2>2 DEF Leaf
  <2>4. DOMAIN more \subseteq p .. p + 1 - 1
    BY <1>3, <2>2
  <2>5. PagesOK' /\ Registers(t, c, p)
    BY <1>5, <1>6, <1>9, <2>1, <2>2, <2>3, <2>4
  <2> QED
    BY <1>8, <1>9, <2>5 DEF Running
<1>10. CASE /\ c \in tables[t].cols
            /\ pages' = With(pages, [q \in p .. p + 2 |-> IF q = p THEN Empty ELSE Zero])
            /\ call' = Running("stuck", t, {})
            /\ writeNodes([q \in p .. p + 2 |-> IF q = p + 2 THEN Internal({p, p + 1}) ELSE Leaf])
  <2>1. PICK more : more = [q \in p .. p + 2 |-> IF q = p + 2 THEN Internal({p, p + 1}) ELSE Leaf]
    OBVIOUS
  <2>2. /\ DOMAIN more = p .. p + 3 - 1 /\ more[p] = Leaf
        /\ \A q \in DOMAIN more : more[q] = Leaf \/ more[q] = Internal({p, p + 1})
    BY <1>3, <2>1
  <2>3. \A q \in DOMAIN more : more[q].kind # "internal" => more[q].kids = {}
    BY <2>2 DEF Leaf, Internal
  <2>4. MorePages(3) /\ pages'[p] = Empty
    <3>1. /\ DOMAIN pages' = 0 .. p + 3 - 1 /\ pages' = [q \in DOMAIN pages' |-> pages'[q]]
          /\ \A q \in DOMAIN pages : pages'[q] = pages[q]
          /\ \A q \in DOMAIN pages' \ DOMAIN pages : pages'[q] = Empty \/ pages'[q] = Zero
          /\ pages'[p] = Empty
      BY <1>3, <1>10 DEF With
    <3> QED
      BY <1>1, <3>1 DEF MorePages, Empty, Zero
  <2>5. writeNodes(more) /\ DOMAIN more \subseteq p .. p + 3 - 1
        /\ (p \in DOMAIN more => more[p] = Leaf /\ c \in tables[t].cols)
    BY <1>10, <2>1, <2>2
  <2>6. PagesOK' /\ Registers(t, c, p)
    <3>1. 3 \in Nat /\ 3 > 0
      OBVIOUS
    <3> QED
      BY <1>5, <2>3, <2>4, <2>5, <3>1
  <2> QED
    BY <1>8, <1>10, <2>6 DEF Running
<1> QED
  BY <1>1, <1>7, <1>9, <1>10 DEF CreateIndex

\* InsertIntoIndex has written pages of the index t.c and new ones, and what the
\* old root of the index leads to is still a tree.
Grows(t, c) ==
  LET root == tables[t].roots[c]
  IN  /\ t \in DOMAIN tables /\ c \in DOMAIN tables[t].roots /\ c \in tables[t].cols
      /\ DOMAIN nodes \subseteq DOMAIN nodes'
      /\ \A q \in DOMAIN nodes : pages'[q] = pages[q]
      /\ \A q \in DOMAIN nodes \ TreeAt(nodes, root) : nodes'[q] = nodes[q]
      /\ GoodRoot(nodes', lost, root)
      /\ TreeAt(nodes', root) \cap DOMAIN nodes \subseteq TreeAt(nodes, root)

LEMMA GrowsGood ==
  ASSUME CInv, up, call.stage = "index", NEW t, NEW c, Grows(t, c)
  PROVE  /\ Good(tables, nodes', pages', lost) /\ Good(saved, nodes', pages', lost)
         /\ saved # Torn /\ Within(saved, tables)
<1>1. Good(tables, nodes, pages, lost)
  BY DEF CInv, CatalogsOK
<1>2. saved # Torn /\ Within(saved, tables)
  BY DEF CInv, SavedOK, Settled
<1>3. OneTree(tables, tables, nodes, nodes', pages, pages', lost, t, c, TreeAt(nodes, tables[t].roots[c]))
  BY DEF OneTree, Grows
<1>4. Good(tables, nodes', pages', lost)
  BY <1>1, <1>3, OneTreeGood
<1> QED
  BY <1>2, <1>4, GoodWithin

\* What an IndexRow step leaves alone.
IndexFrame ==
  /\ up /\ call.stage = "index"
  /\ saved' = saved /\ file' = file /\ heap' = heap /\ up' = up /\ how' = how /\ lost' = lost

LEMMA InPlaceStep ==
  ASSUME CInv, IndexFrame, NEW t, NEW c, Grows(t, c), PagesOK', tables' = tables,
         NEW todo, todo \subseteq tables[t].cols \cap DOMAIN tables[t].roots,
         call' = Continue(t, todo) \/ call' = Idle
  PROVE  CInv'
<1>1. /\ Good(tables, nodes', pages', lost) /\ Good(saved, nodes', pages', lost)
      /\ saved # Torn /\ Within(saved, tables)
  BY GrowsGood DEF IndexFrame
<1>2. CatalogsOK'
  BY <1>1 DEF CInv, CatalogsOK, IndexFrame
<1>3. RowsOK'
  BY DEF CInv, RowsOK, IndexFrame
<1>4. SavedOK'
  BY <1>1, NotClosed DEF SavedOK, IndexFrame
<1>5. call' = Idle \/ call' = [stage |-> "index", table |-> t, todo |-> todo]
  BY DEF Continue, Running
<1>6. CallOK'
  BY <1>5, CallReturns, CallGoesOn DEF IndexFrame, Grows
<1> QED
  BY <1>2, <1>3, <1>4, <1>6 DEF CInv

\* The root leaf is split, and a new root is put above its halves.
LEMMA NewRootStep ==
  ASSUME CInv, IndexFrame, NEW t, NEW c, Grows(t, c), PagesOK',
         NEW todo, todo \subseteq tables[t].cols \cap DOMAIN tables[t].roots,
         NEW top, SetsRoot(t, c, top), GoodRoot(nodes', lost, top),
         TreeAt(nodes', top) \cap DOMAIN nodes \subseteq TreeAt(nodes, tables[t].roots[c]),
         call' = Running("save", t, todo)
  PROVE  CInv'
<1>1. Good(saved, nodes', pages', lost) /\ Good(tables, nodes, pages, lost) /\ CatOK(tables)
  BY GrowsGood DEF CInv, CatalogsOK, IndexFrame
<1>2. OneTree(tables, tables', nodes, nodes', pages, pages', lost, t, c, TreeAt(nodes, tables[t].roots[c]))
  <2>1. ASSUME NEW x \in DOMAIN tables', NEW d \in DOMAIN tables'[x].roots, x # t \/ d # c
        PROVE  /\ x \in DOMAIN tables /\ d \in DOMAIN tables[x].roots
               /\ tables'[x].roots[d] = tables[x].roots[d] /\ tables'[x].cols = tables[x].cols
    BY <2>1 DEF SetsRoot
  <2>2. tables'[t].roots[c] = top /\ tables'[t].cols = tables[t].cols
    BY DEF SetsRoot
  <2> QED
    BY <2>1, <2>2 DEF OneTree, Grows
<1>3. Good(tables', nodes', pages', lost)
  BY <1>1, <1>2, OneTreeGood
<1>4. CatOK(tables')
  BY <1>1 DEF CatOK, SetsRoot
<1>5. CatalogsOK'
  BY <1>1, <1>3, <1>4 DEF CInv, CatalogsOK, IndexFrame
<1>6. RowsOK'
  BY DEF CInv, RowsOK, IndexFrame, SetsRoot
<1>7. call' = [stage |-> "save", table |-> t, todo |-> todo]
  BY DEF Running
<1>8. SavedOK'
  BY <1>7, NotClosed DEF SavedOK, IndexFrame, Settled
<1>9. CallOK'
  <2>1. /\ t \in DOMAIN tables' /\ up'
        /\ todo \subseteq tables'[t].cols \cap DOMAIN tables'[t].roots
    BY DEF SetsRoot, Grows, IndexFrame
  <2> QED
    BY <1>7, <2>1, CallGoesOn
<1> QED
  BY <1>5, <1>6, <1>8, <1>9 DEF CInv

LEMMA IndexRowStep ==
  ASSUME CInv, NEW c \in Column, NEW p \in DOMAIN pages, IndexRow(c, p)
  PROVE  CInv'
<1>1. PICK t : t = call.table
  OBVIOUS
<1>2. PICK todo : todo = call.todo \ {c}
  OBVIOUS
<1>3. PICK root : root = tables[t].roots[c]
  OBVIOUS
<1>4. PICK n : n = getPageCount
  OBVIOUS
<1>5. PICK half : half = [q \in {p, n} |-> Leaf]
  OBVIOUS
<1>6. n \in Nat /\ DOMAIN pages = 0 .. n - 1 /\ DOMAIN nodes = DOMAIN pages /\ Plain(nodes)
      /\ pages = [q \in DOMAIN pages |-> pages[q]]
  BY <1>4 DEF CInv, PagesOK
<1>7. /\ IndexFrame /\ c \in call.todo
      /\ nodes[p].kind \in {"empty", "leaf"} /\ p \in TreeAt(nodes, root)
  BY <1>1, <1>3 DEF IndexRow, IndexFrame, hist, TreeAt
<1>8. /\ t \in DOMAIN tables /\ c \in DOMAIN tables[t].roots /\ c \in tables[t].cols
      /\ todo \subseteq tables[t].cols \cap DOMAIN tables[t].roots
  BY <1>1, <1>2, <1>7 DEF CInv, CallOK, Columns
<1>9. GoodRoot(nodes, lost, root)
  BY <1>3, <1>8 DEF CInv, CatalogsOK, Good
<1>10. nodes[p].kids = {} /\ root \in DOMAIN nodes /\ nodes[root].kids \subseteq DOMAIN nodes
       /\ root \notin nodes[root].kids
  BY <1>6, <1>7, <1>9 DEF Plain, GoodRoot, TreeAt
<1>11. Leaf.kids = {} /\ Leaf.kind # "internal" /\ Leaf.kind # "zero"
  BY DEF Leaf
<1>12. n \notin DOMAIN nodes /\ p # n /\ root # n /\ p \in Nat
  BY <1>6, <1>10
<1>13. n + 1 = getPageCount + (IF allocateIndexPage(1) = pages THEN 0 ELSE 1)
  <2>1. n \in DOMAIN allocateIndexPage(1)
    BY <1>4, <1>6 DEF allocateIndexPage, With
  <2>2. allocateIndexPage(1) # pages
    BY <1>6, <1>12, <2>1
  <2> QED
    BY <1>4, <2>2
<1>14. CASE /\ pages' = pages
            /\ writeNodes([q \in {p} |-> Leaf])
            /\ call' = Continue(t, todo)
            /\ UNCHANGED tables
  <2>1. PICK more : more = [q \in {p} |-> Leaf]
    OBVIOUS
  <2>2. DOMAIN more = {p} /\ more[p] = Leaf /\ writeNodes(more)
    BY <1>14, <2>1
  <2>3. MorePages(0)
    BY <1>4, <1>6, <1>14 DEF MorePages
  <2>4. Writable(more)
    BY <1>10, <1>11, <1>14, <2>2 DEF Writable
  <2>5. /\ PagesOK' /\ DOMAIN nodes' = DOMAIN pages' /\ DOMAIN pages \subseteq DOMAIN pages'
        /\ \A q \in DOMAIN more : nodes'[q] = more[q]
        /\ \A q \in DOMAIN nodes \ DOMAIN more : nodes'[q] = nodes[q]
    BY <2>2, <2>3, <2>4, PagesGrown
  <2>6. nodes'[p] = Leaf /\ \A q \in DOMAIN nodes \ {p} : nodes'[q] = nodes[q]
    BY <2>2, <2>5
  <2>7. nodes'[root].kids = nodes[root].kids /\ TreeAt(nodes', root) = TreeAt(nodes, root)
    BY <1>10, <1>11, <2>6 DEF TreeAt
  <2>8. GoodRoot(nodes', lost, root)
    BY <1>6, <1>9, <1>11, <1>14, <2>5, <2>6, <2>7 DEF GoodRoot
  <2>9. Grows(t, c)
    BY <1>3, <1>6, <1>7, <1>8, <1>14, <2>5, <2>6, <2>7, <2>8 DEF Grows
  <2> QED
    BY <1>7, <1>8, <1>14, <2>5, <2>9, InPlaceStep
<1>15. CASE /\ nodes[p] = Leaf /\ p = root
            /\ pages' = allocateIndexPage(2)
            /\ writeNodes(With(half, [q \in {n + 1} |-> Internal({p, n})]))
            /\ tables' = [tables EXCEPT ![t].roots[c] = n + 1]
            /\ call' = Running("save", t, todo)
  <2>1. PICK more : more = With(half, [q \in {n + 1} |-> Internal({p, n})])
    OBVIOUS
  <2>2. /\ DOMAIN more = {p, n, n + 1} /\ more[p] = Leaf /\ more[n] = Leaf
        /\ more[n + 1].kind = "internal" /\ more[n + 1].kids = {p, n}
    BY <1>5, <1>6, <2>1 DEF With, Internal
  <2>3. MorePages(2) /\ DOMAIN pages' = 0 .. n + 1
    BY <1>4, <1>6, <1>15, Allocated DEF MorePages
  <2>4. Writable(more)
    BY <1>6, <1>10, <1>11, <2>2, <2>3 DEF Writable
  <2>5. /\ PagesOK' /\ DOMAIN nodes' = DOMAIN pages' /\ DOMAIN pages \subseteq DOMAIN pages'
        /\ \A q \in DOMAIN more : nodes'[q] = more[q]
        /\ \A q \in DOMAIN nodes \ DOMAIN more : nodes'[q] = nodes[q]
    BY <1>15, <2>1, <2>3, <2>4, PagesGrown
  <2>6. /\ nodes'[p] = Leaf /\ nodes'[n] = Leaf
        /\ nodes'[n + 1].kind = "internal" /\ nodes'[n + 1].kids = {p, n}
        /\ \A q \in DOMAIN nodes \ {p} : nodes'[q] = nodes[q]
    BY <1>6, <2>2, <2>5
  <2>7. TreeAt(nodes', root) = {p} /\ TreeAt(nodes, root) = {p} /\ TreeAt(nodes', n + 1) = {n + 1, p, n}
    BY <1>10, <1>11, <1>15, <2>6 DEF TreeAt
  <2>8. GoodRoot(nodes', lost, root) /\ GoodRoot(nodes', lost, n + 1)
    <3>1. {n + 1, p, n} \subseteq DOMAIN nodes' /\ n + 1 \notin {p, n}
      BY <1>6, <2>3, <2>5
    <3>2. nodes'[p].kind # "zero" /\ nodes'[n].kind # "zero" /\ nodes'[n + 1].kind # "zero"
      BY <1>11, <2>6
    <3>3. root \notin nodes'[root].kids
      BY <1>11, <1>15, <2>6
    <3> QED
      BY <2>6, <2>7, <3>1, <3>2, <3>3 DEF GoodRoot
  <2>9. \A q \in DOMAIN nodes : pages'[q] = pages[q]
    BY <1>6, <2>3 DEF MorePages
  <2>10. Grows(t, c)
    BY <1>3, <1>6, <1>8, <2>5, <2>6, <2>7, <2>8, <2>9 DEF Grows
  <2>11. SetsRoot(t, c, n + 1)
    <3>1. n + 1 \in Nat
      BY <1>6
    <3>2. tables' = [tables EXCEPT ![t].roots[c] = n + 1]
      BY <1>15
    <3> QED
      BY <1>8, <3>1, <3>2, RootIsSet
  <2>12. TreeAt(nodes', n + 1) \cap DOMAIN nodes \subseteq TreeAt(nodes, tables[t].roots[c])
    BY <1>3, <1>6, <2>7
  <2> QED
    BY <1>7, <1>8, <1>15, <2>5, <2>8, <2>10, <2>11, <2>12, NewRootStep
<1>16. CASE /\ nodes[p] = Leaf /\ p # root
            /\ pages' = allocateIndexPage(1)
            /\ writeNodes(With(half, [q \in {root} |-> Internal(nodes[root].kids \cup {n})]))
            /\ call' = Continue(t, todo)
            /\ UNCHANGED tables
  <2>1. PICK more : more = With(half, [q \in {root} |-> Internal(nodes[root].kids \cup {n})])
    OBVIOUS
  <2>2. /\ DOMAIN more = {p, n, root} /\ more[p] = Leaf /\ more[n] = Leaf
        /\ more[root].kind = "internal" /\ more[root].kids = nodes[root].kids \cup {n}
    BY <1>5, <1>12, <1>16, <2>1 DEF With, Internal
  <2>3. MorePages(1) /\ DOMAIN pages' = 0 .. n
    BY <1>4, <1>6, <1>16, Allocated DEF MorePages
  <2>4. Writable(more)
    BY <1>6, <1>10, <1>11, <2>2, <2>3 DEF Writable
  <2>5. /\ PagesOK' /\ DOMAIN nodes' = DOMAIN pages' /\ DOMAIN pages \subseteq DOMAIN pages'
        /\ \A q \in DOMAIN more : nodes'[q] = more[q]
        /\ \A q \in DOMAIN nodes \ DOMAIN more : nodes'[q] = nodes[q]
    BY <1>16, <2>1, <2>3, <2>4, PagesGrown
  <2>6. /\ nodes'[p] = Leaf /\ nodes'[n] = Leaf
        /\ nodes'[root].kind = "internal" /\ nodes'[root].kids = nodes[root].kids \cup {n}
        /\ \A q \in DOMAIN nodes \ {p, root} : nodes'[q] = nodes[q]
    BY <1>12, <2>2, <2>5
  <2>7. TreeAt(nodes', root) = TreeAt(nodes, root) \cup {n}
    BY <2>6 DEF TreeAt
  <2>8. GoodRoot(nodes', lost, root)
    <3>1. TreeAt(nodes', root) \subseteq DOMAIN nodes' /\ root \notin nodes'[root].kids
      BY <1>6, <1>9, <1>10, <1>12, <2>3, <2>5, <2>6, <2>7 DEF GoodRoot
    <3>2. ASSUME \A q \in TreeAt(nodes, root) : nodes[q].kind # "zero",
                 NEW q \in TreeAt(nodes', root)
          PROVE  nodes'[q].kind # "zero"
      <4>1. q \in {p, n, root} \/ q \in TreeAt(nodes, root) \ {p, n, root}
        BY <2>7
      <4>2. TreeAt(nodes, root) \subseteq DOMAIN nodes
        BY <1>9 DEF GoodRoot
      <4> QED
        BY <1>11, <2>6, <3>2, <4>1, <4>2
    <3> QED
      BY <1>9, <2>7, <3>1, <3>2 DEF GoodRoot
  <2>9. \A q \in DOMAIN nodes : pages'[q] = pages[q]
    BY <1>6, <2>3 DEF MorePages
  <2>10. \A q \in DOMAIN nodes \ TreeAt(nodes, root) : nodes'[q] = nodes[q]
    BY <1>7, <2>6 DEF TreeAt
  <2>11. Grows(t, c)
    BY <1>3, <1>6, <1>8, <1>12, <2>5, <2>7, <2>8, <2>9, <2>10 DEF Grows
  <2> QED
    BY <1>7, <1>8, <1>16, <2>5, <2>11, InPlaceStep
<1>17. CASE /\ nodes[p] = Leaf /\ p # root
            /\ pages' = allocateIndexPage(1)
            /\ writeNodes(half)
            /\ call' = Idle
            /\ UNCHANGED tables
  <2>1. DOMAIN half = {p, n} /\ half[p] = Leaf /\ half[n] = Leaf
    BY <1>5
  <2>2. MorePages(1) /\ DOMAIN pages' = 0 .. n
    BY <1>4, <1>6, <1>17, Allocated DEF MorePages
  <2>3. Writable(half)
    BY <1>6, <1>10, <1>11, <2>1, <2>2 DEF Writable
  <2>4. /\ PagesOK' /\ DOMAIN nodes' = DOMAIN pages' /\ DOMAIN pages \subseteq DOMAIN pages'
        /\ \A q \in DOMAIN half : nodes'[q] = half[q]
        /\ \A q \in DOMAIN nodes \ DOMAIN half : nodes'[q] = nodes[q]
    BY <1>17, <2>2, <2>3, PagesGrown
  <2>5. nodes'[p] = Leaf /\ \A q \in DOMAIN nodes \ {p} : nodes'[q] = nodes[q]
    BY <1>12, <2>1, <2>4
  <2>6. nodes'[root] = nodes[root] /\ TreeAt(nodes', root) = TreeAt(nodes, root)
    BY <1>10, <1>17, <2>5 DEF TreeAt
  <2>7. GoodRoot(nodes', lost, root)
    <3>1. TreeAt(nodes', root) \subseteq DOMAIN nodes /\ root \notin nodes'[root].kids
      BY <1>9, <1>10, <2>6 DEF GoodRoot
    <3>2. DOMAIN nodes \subseteq DOMAIN nodes'
      BY <1>6, <2>4
    <3>3. ASSUME NEW q \in TreeAt(nodes, root), nodes[q].kind # "zero" PROVE nodes'[q].kind # "zero"
      BY <1>11, <2>5, <2>6, <3>1, <3>3
    <3> QED
      BY <1>9, <2>6, <3>1, <3>2, <3>3 DEF GoodRoot
  <2>8. \A q \in DOMAIN nodes : pages'[q] = pages[q]
    BY <1>6, <2>2 DEF MorePages
  <2>9. Grows(t, c)
    BY <1>3, <1>6, <1>7, <1>8, <2>4, <2>5, <2>6, <2>7, <2>8 DEF Grows
  <2> QED
    BY <1>7, <1>8, <1>17, <2>4, <2>9, InPlaceStep
<1> QED
  BY <1>1, <1>2, <1>3, <1>4, <1>5, <1>13, <1>14, <1>15, <1>16, <1>17 DEF IndexRow

(***************************************************************************)
(* The invariant holds                                                     *)
(***************************************************************************)

LEMMA CInvInit == Init => CInv
<1> SUFFICES ASSUME Init PROVE CInv
  OBVIOUS
<1>1. /\ tables = NoTables /\ saved = NoTables /\ heap = [t \in {} |-> 0]
      /\ file = [t \in Table |-> 0] /\ nodes = [p \in {0} |-> Zero] /\ pages = [p \in {0} |-> Zero]
      /\ dirty = {} /\ call = Idle /\ up /\ how = "" /\ lost = {}
  BY DEF Init
<1>2. DOMAIN tables = {} /\ CatalogsOK
  BY <1>1, NothingIsGood DEF CatalogsOK
<1>3. PagesOK
  <2>1. DOMAIN pages = 0 .. 1 - 1
    <3>1. DOMAIN pages = {0}
      BY <1>1
    <3> QED
      BY <3>1
  <2>2. getPageCount = 1
    BY <2>1, IntervalCount DEF getPageCount
  <2> QED
    BY <1>1, <2>1, <2>2 DEF PagesOK, Plain, Zero
<1>4. CallOK
  BY <1>1 DEF CallOK, Idle
<1>5. RowsOK
  BY <1>1, <1>2 DEF RowsOK
<1>6. SavedOK
  BY <1>1, <1>2, TornIsNoCatalog, WithinSelf DEF SavedOK, CatalogsOK
<1> QED
  BY <1>2, <1>3, <1>4, <1>5, <1>6 DEF CInv

LEMMA StutterStep ==
  ASSUME CInv, UNCHANGED cvars
  PROVE  CInv'
<1>1. /\ tables' = tables /\ saved' = saved /\ heap' = heap /\ file' = file /\ call' = call
      /\ up' = up /\ how' = how /\ lost' = lost /\ NodesSame
  BY DEF cvars, hist, NodesSame
<1>2. CatalogsOK' /\ RowsOK' /\ SavedOK' /\ CallOK'
  BY <1>1 DEF CInv, CatalogsOK, RowsOK, SavedOK, Settled, CallOK, Columns, NodesSame
<1> QED
  BY <1>1, <1>2, PagesSame DEF CInv

LEMMA CInvInductive == CInv /\ [Next]_cvars => CInv'
<1> SUFFICES ASSUME CInv, [Next]_cvars PROVE CInv'
  OBVIOUS
<1>1. CASE UNCHANGED cvars
  BY <1>1, StutterStep
<1>2. CASE Next
  BY <1>2, CreateTableStep, DropTableStep, CreateIndexStep, InsertStep, EvictHeapStep,
     IndexRowStep, IndexRowFailsStep, EvictIndexStep, SaveTruncateStep, SaveWriteStep,
     CloseStep, CrashStep, OpenStep DEF Next
<1> QED
  BY <1>1, <1>2

LEMMA CInvAlways == Spec => []CInv
BY CInvInit, CInvInductive, PTL DEF Spec

LEMMA SoundWithin ==
  ASSUME NEW a, NEW b, Within(a, b)
  PROVE  Sound(a) = Sound(b)
<1>1. DOMAIN a = DOMAIN b
  BY DEF Within
<1>2. ASSUME NEW t \in DOMAIN b
      PROVE  /\ a[t].cols = b[t].cols
             /\ DOMAIN a[t].roots \cap a[t].cols = DOMAIN b[t].roots \cap b[t].cols
             /\ \A c \in DOMAIN a[t].roots : a[t].roots[c] = b[t].roots[c]
  BY DEF Within
<1>3. ASSUME NEW t \in DOMAIN b
      PROVE  [c \in DOMAIN a[t].roots \cap a[t].cols |-> a[t].roots[c]] =
             [c \in DOMAIN b[t].roots \cap b[t].cols |-> b[t].roots[c]]
  BY <1>2
<1>4. ASSUME NEW t \in DOMAIN b
      PROVE  [cols |-> a[t].cols,
              roots |-> [c \in DOMAIN a[t].roots \cap a[t].cols |-> a[t].roots[c]]] =
             [cols |-> b[t].cols,
              roots |-> [c \in DOMAIN b[t].roots \cap b[t].cols |-> b[t].roots[c]]]
  BY <1>2, <1>3
<1> QED
  BY <1>1, <1>4 DEF Sound

LEMMA CInvDdl == CInv => DdlDurable
<1> SUFFICES ASSUME CInv, Ready PROVE saved # Torn /\ Sound(saved) = Sound(tables)
  BY DEF DdlDurable
<1>1. up /\ call.stage = "idle"
  BY DEF Ready, Idle
<1>2. saved # Torn /\ Within(saved, tables)
  BY <1>1 DEF CInv, SavedOK, Settled
<1> QED
  BY <1>2, SoundWithin

LEMMA CInvTrees == CInv => IndexesReadable /\ TreesDisjoint /\ OrphanRootsEmpty
<1> SUFFICES ASSUME CInv PROVE IndexesReadable /\ TreesDisjoint /\ OrphanRootsEmpty
  OBVIOUS
<1>1. Good(tables, nodes, pages, lost)
  BY DEF CInv, CatalogsOK
<1>2. ASSUME NEW x \in Indexes
      PROVE  /\ x[1] \in DOMAIN tables /\ x[2] \in DOMAIN tables[x[1]].roots /\ x = <<x[1], x[2]>>
             /\ Tree(x[1], x[2]) = TreeAt(nodes, tables[x[1]].roots[x[2]])
  BY DEF Indexes, Tree, TreeAt
<1>3. ASSUME NEW x \in Indexes
      PROVE  /\ GoodRoot(nodes, lost, tables[x[1]].roots[x[2]])
             /\ x[2] \notin tables[x[1]].cols => nodes[tables[x[1]].roots[x[2]]] = Empty
  BY <1>1, <1>2 DEF Good
<1>4. ASSUME NEW x \in Indexes, NEW y \in Indexes, x # y
      PROVE  Tree(x[1], x[2]) \cap Tree(y[1], y[2]) = {}
  <2>1. x[1] # y[1] \/ x[2] # y[2]
    BY <1>2, <1>4
  <2> QED
    BY <1>1, <1>2, <2>1, SMTT(40) DEF Good
<1>5. IndexesReadable
  BY <1>2, <1>3 DEF IndexesReadable, GoodRoot
<1>6. TreesDisjoint
  BY <1>3, <1>4 DEF TreesDisjoint, GoodRoot
<1>7. OrphanRootsEmpty
  BY <1>3 DEF OrphanRootsEmpty
<1> QED
  BY <1>5, <1>6, <1>7

\* What CreateTable, CreateIndex, DropTable and InsertIntoIndex have done to the
\* catalog is in catalog.json whenever no call runs (Catalog.Save).
THEOREM DdlIsDurable == Spec => []DdlDurable
BY CInvAlways, CInvDdl, PTL

\* Only a page that a crash has lost can make an index unreadable
\* (writeNode, FlushAll, allocateIndexPage).
THEOREM IndexesStayReadable == Spec => []IndexesReadable
BY CInvAlways, CInvTrees, PTL

\* allocateIndexPage never hands out a page of another index, crashes included.
THEOREM TreesStayDisjoint == Spec => []TreesDisjoint
BY CInvAlways, CInvTrees, PTL

\* The root that a failed CreateIndex leaves behind stays an empty leaf.
THEOREM OrphansStayEmpty == Spec => []OrphanRootsEmpty
BY CInvAlways, CInvTrees, PTL

\* A table that CreateTable adds has no rows of an earlier table of its name.
THEOREM CreatedTablesAreEmpty == Spec => CreatedEmpty
<1>1. CInv /\ [Next]_cvars =>
        [\A t \in Table : up /\ up' /\ t \notin DOMAIN tables /\ t \in DOMAIN tables' => heap'[t] = 0]_cvars
  <2> SUFFICES ASSUME CInv, Next, NEW t \in Table, up, up', t \notin DOMAIN tables, t \in DOMAIN tables'
               PROVE  heap'[t] = 0
    OBVIOUS
  <2>1. file[t] = 0 /\ DOMAIN heap = DOMAIN tables
    BY DEF CInv, RowsOK
  <2>2. ASSUME NEW x \in Table, NEW cols \in Schemas, CreateTable(x, cols) PROVE heap'[t] = 0
    <3>1. DOMAIN tables' = DOMAIN tables \cup {x} /\ heap' = With(heap, [y \in {x} |-> file[x]])
      BY <2>2 DEF CreateTable, With
    <3>2. t = x
      BY <3>1
    <3> QED
      BY <2>1, <3>1, <3>2 DEF With
  <2>3. ASSUME NEW x \in Table, DropTable(x) PROVE FALSE
    BY <2>3 DEF DropTable
  <2>4. ASSUME NEW x \in Table, NEW c \in Column, CreateIndex(x, c) PROVE FALSE
    <3>1. PICK p : tables' = [tables EXCEPT ![x].roots = With(@, [y \in {c} |-> p])]
      BY <2>4 DEF CreateIndex
    <3>2. DOMAIN tables' = DOMAIN tables
      BY <3>1
    <3> QED
      BY <3>2
  <2>5. ASSUME NEW c \in Column, NEW p \in DOMAIN pages, IndexRow(c, p) PROVE FALSE
    <3>1. DOMAIN tables' = DOMAIN tables
      BY <2>5 DEF IndexRow
    <3> QED
      BY <3>1
  <2>6. CASE tables' = tables
    BY <2>6
  <2>7. ASSUME Open \/ Close \/ Crash PROVE FALSE
    BY <2>7 DEF Open, Close, Crash, Stop
  <2>8. ASSUME \/ \E x \in Table : (\E keys \in SUBSET Column : Insert(x, keys)) \/ EvictHeap(x)
               \/ \E c \in Column, p \in DOMAIN pages : IndexRowFails(c, p)
               \/ \E p \in dirty : EvictIndex(p)
               \/ SaveTruncate \/ SaveWrite
        PROVE  tables' = tables
    BY <2>8 DEF Insert, EvictHeap, IndexRowFails, EvictIndex, SaveTruncate, SaveWrite
  <2> QED
    BY <2>2, <2>3, <2>4, <2>5, <2>6, <2>7, <2>8 DEF Next
<1> QED
  BY <1>1, CInvAlways, PTL DEF Spec, CreatedEmpty

\* New after Close finds every table, row, root and index page again.
THEOREM RestartIsClean == Spec => CleanRestart
<1>1. CInv /\ [Next]_cvars =>
        [how = "close" /\ up' =>
           /\ Sound(tables') = Sound(tables)
           /\ heap' = heap
           /\ nodes' = nodes]_cvars
  <2> SUFFICES ASSUME CInv, Next, how = "close", up'
               PROVE  Sound(tables') = Sound(tables) /\ heap' = heap /\ nodes' = nodes
    OBVIOUS
  <2>1. ~up /\ saved # Torn /\ Within(saved, tables) /\ nodes = pages
        /\ \A t \in DOMAIN tables : heap[t] = file[t]
    BY DEF CInv, SavedOK, Settled
  <2>2. Open
    BY <2>1 DEF Next, CreateTable, DropTable, CreateIndex, Insert, EvictHeap, IndexRow, IndexRowFails,
       EvictIndex, SaveTruncate, SaveWrite, Close, Crash, Ready
  <2>3. tables' = saved /\ nodes' = pages /\ heap' = [t \in DOMAIN saved |-> file[t]]
    BY <2>2 DEF Open
  <2>4. DOMAIN saved = DOMAIN tables /\ heap = [t \in DOMAIN tables |-> heap[t]]
    BY <2>1 DEF Within, CInv, RowsOK
  <2>5. heap' = heap
    BY <2>1, <2>3, <2>4
  <2> QED
    BY <2>1, <2>3, <2>5, SoundWithin
<1> QED
  BY <1>1, CInvAlways, PTL DEF Spec, CleanRestart
=============================================================================
