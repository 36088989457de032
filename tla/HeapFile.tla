------------------------------ MODULE HeapFile ------------------------------
(***************************************************************************)
(* A table's heap file (src/storage/heapfile.go) behind its buffer pool    *)
(* (src/storage/bufferpool.go).  The file is a sequence of slotted pages;  *)
(* the pool holds copies of some of them and knows which are dirty.  Which *)
(* page is evicted is the iteration order of a Go map: any that the code's *)
(* two passes may pick.  Page ids are numbered from 1 here, from 0 in the  *)
(* code.  Operating-system errors are left out.                            *)
(*                                                                         *)
(* HeapFile.Insert visits the pages one by one and every visit may evict,  *)
(* so it takes several steps; the other calls visit one page.  Calls do    *)
(* not overlap.                                                            *)
(***************************************************************************)
EXTENDS Page, FiniteSets

CONSTANTS capacity,   \* pages the pool may hold (100)
          MaxPages,   \* bound: pages of the file
          RowLen,     \* lengths of the rows tried
          Val         \* contents of the rows tried

\* A stored row has at least its two stamps, 16 bytes.
ASSUME PoolAssumption ==
  /\ capacity \in Nat \ {0} /\ MaxPages \in Nat
  /\ RowLen \subseteq Nat \ {0}

VARIABLES disk,    \* the file: page id -> page
          pages,   \* the pool: page id -> cached page
          dirty,   \* ids of cached pages changed since they were read
          op       \* the HeapFile.Insert under way, or Idle

hvars == <<disk, pages, dirty, op>>

Idle == [kind |-> "idle"]

getPageCount == Len(disk)

(***************************************************************************)
(* The buffer pool                                                         *)
(***************************************************************************)

None == 0

clean == DOMAIN pages \ dirty

\* The pages FetchPage(p) may evict: none on a hit or with room left, else any
\* clean page, else any page.
evictPage(p) ==
  IF p \in DOMAIN pages \/ Cardinality(DOMAIN pages) < capacity THEN {None}
  ELSE IF clean # {} THEN clean ELSE DOMAIN pages

\* Mutant: an evicted page is dropped without being flushed.
FlushForgotten(v) == disk

\* The file after a dirty victim has been flushed.
Flush(v) == IF v \in dirty THEN [disk EXCEPT ![v] = pages[v]] ELSE disk

\* The pool after FetchPage(p) with victim v.
FetchPage(p, v) ==
  [q \in (DOMAIN pages \ {v}) \cup {p} |-> IF q \in DOMAIN pages THEN pages[q] ELSE disk[q]]

\* Mutant: the page is changed without being marked.
MarkNothing(p, v) == dirty \ {v}

MarkDirty(p, v) == (dirty \ {v}) \cup {p}

\* A visit of page p that evicts v and leaves the page as it is.
Read(p, v) ==
  /\ pages' = FetchPage(p, v)
  /\ dirty' = dirty \ {v}
  /\ disk' = Flush(v)

\* A visit of page p that evicts v and replaces the page's contents.
Write(p, v, new) ==
  /\ pages' = [FetchPage(p, v) EXCEPT ![p] = new]
  /\ dirty' = MarkDirty(p, v)
  /\ disk' = Flush(v)

\* The page that a visit with victim v reads.
Visited(p, v) == FetchPage(p, v)[p]

(***************************************************************************)
(* HeapFile.Insert                                                         *)
(***************************************************************************)

Init ==
  /\ disk = <<>>
  /\ pages = [p \in {} |-> NewPage]
  /\ dirty = {}
  /\ op = Idle

StartInsert(len, val) ==
  /\ op = Idle
  /\ op' = [kind |-> "insert", len |-> len, val |-> val, at |-> 1, count |-> getPageCount]
  /\ UNCHANGED <<disk, pages, dirty>>

\* The next page, through the pool: take the first that has room.
InsertVisit ==
  /\ op # Idle
  /\ op.at <= op.count
  /\ \E v \in evictPage(op.at) :
       IF Fits(Visited(op.at, v), op.len)
       THEN /\ Write(op.at, v, PageInsert(Visited(op.at, v), op.len, op.val))
            /\ op' = Idle
       ELSE /\ Read(op.at, v)
            /\ op' = [op EXCEPT !.at = @ + 1]

\* No page has room: write a new one to the file at once and put it into the
\* pool, past FetchPage and its eviction.
InsertAppend ==
  /\ op # Idle
  /\ op.at > op.count
  /\ op.count < MaxPages
  /\ Fits(NewPage, op.len)
  /\ LET new == PageInsert(NewPage, op.len, op.val)
     IN  /\ disk' = Append(disk, new)
         /\ pages' = [q \in DOMAIN pages \cup {op.count + 1} |->
                        IF q = op.count + 1 THEN new ELSE pages[q]]
  /\ op' = Idle
  /\ UNCHANGED dirty

\* The row is larger than a page; or the bound on the file is reached.
InsertFails ==
  /\ op # Idle
  /\ op.at > op.count
  /\ ~Fits(NewPage, op.len) \/ op.count = MaxPages
  /\ op' = Idle
  /\ UNCHANGED <<disk, pages, dirty>>

(***************************************************************************)
(* The other calls                                                         *)
(***************************************************************************)

\* Get, and one page's visit of a scan.
Get(p) ==
  /\ op = Idle
  /\ \E v \in evictPage(p) : Read(p, v)
  /\ UNCHANGED op

Update(p, s, len, val) ==
  /\ op = Idle
  /\ \E v \in evictPage(p) :
       /\ s \in DOMAIN Visited(p, v).slots
       /\ IF UpdateFits(Visited(p, v), s, len)
          THEN Write(p, v, PageUpdate(Visited(p, v), s, len, val))
          ELSE Read(p, v)
  /\ UNCHANGED op

Delete(p, s) ==
  /\ op = Idle
  /\ \E v \in evictPage(p) :
       /\ s \in DOMAIN Visited(p, v).slots
       /\ Write(p, v, PageDelete(Visited(p, v), s))
  /\ UNCHANGED op

FlushAll == [p \in DOMAIN disk |-> IF p \in dirty THEN pages[p] ELSE disk[p]]

\* Engine.Close flushes every dirty page, New starts with an empty pool.
Reopen ==
  /\ op = Idle
  /\ disk' = FlushAll
  /\ pages' = [p \in {} |-> NewPage]
  /\ dirty' = {}
  /\ UNCHANGED op

MaxSlots == (PageSize - Header) \div SlotEntry

Next ==
  \/ \E len \in RowLen, val \in Val : StartInsert(len, val)
  \/ InsertVisit
  \/ InsertAppend
  \/ InsertFails
  \/ \E p \in DOMAIN disk :
       \/ Get(p)
       \/ \E s \in 1 .. MaxSlots :
            \/ \E len \in RowLen, val \in Val : Update(p, s, len, val)
            \/ Delete(p, s)
  \/ Reopen

Spec == Init /\ [][Next]_hvars

(***************************************************************************)
(* Properties                                                              *)
(***************************************************************************)

\* What a reader gets for page p: the cached copy when there is one.
Content(p) == IF p \in DOMAIN pages THEN pages[p] ELSE disk[p]

\* The cache never hides or loses a change: a cached page that is not dirty is
\* the page on disk, and a dirty page is in the cache, so Flush always finds it
\* and FlushAll never stops half-way with "cannot flush: page not in cache".
CacheCoherent ==
  /\ dirty \subseteq DOMAIN pages
  /\ \A p \in clean : pages[p] = disk[p]

\* Every page a reader can get is sound: rows never overlap each other or the
\* slot directory, after any sequence of inserts, shrinking updates and deletes.
PagesSound == \A p \in DOMAIN disk : PageSound(Content(p))

\* bufferpool.go's capacity, "the maximum number of pages we can hold in RAM".
PoolBounded == Cardinality(DOMAIN pages) <= capacity

\* The rows a reader can get, by RowID.
LiveSlots ==
  {i \in (DOMAIN disk) \X (1 .. MaxSlots) :
     i[2] \in DOMAIN Content(i[1]).slots /\ Content(i[1]).slots[i[2]].len > 0}

rowMap == [i \in LiveSlots |->
             <<Content(i[1]).slots[i[2]].len, PageGet(Content(i[1]), i[2])>>]

Rows == INSTANCE RowStore WITH
          ID <- (1 .. MaxPages) \X (1 .. MaxSlots),
          Row <- RowLen \X Val,
          store <- rowMap

\* Pages, slots, cache and file implement a plain map from RowIDs to rows:
\* evicting, flushing and reopening change no row, an insert never reuses the
\* RowID of another row, and an update or a delete touches its own row only.
ImplementsRowStore == Rows!Spec
=============================================================================
