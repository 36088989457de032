--------------------------- MODULE HeapFileProofs ---------------------------
(***************************************************************************)
(* Theorems about HeapFile for every page size, pool capacity, number of   *)
(* pages and set of rows.                                                  *)
(***************************************************************************)
EXTENDS HeapFile, TLAPS

(***************************************************************************)
(* The slotted page: what each operation does to the slot directory, and   *)
(* that it keeps the page sound, for every page size and every row.        *)
(***************************************************************************)

Slots(V) == [off : Nat, len : Nat, val : V]

\* Pages whose rows hold values of V.
Pages(V) == [slots : Seq(Slots(V)), free : Nat]

LEMMA PageFields ==
  ASSUME NEW V, NEW p \in Pages(V)
  PROVE  /\ p.free \in Nat /\ Len(p.slots) \in Nat
         /\ p.slots \in Seq(Slots(V)) /\ DOMAIN p.slots = 1 .. Len(p.slots)
         /\ \A s \in DOMAIN p.slots : p.slots[s].off \in Nat /\ p.slots[s].len \in Nat
<1>1. p.free \in Nat /\ p.slots \in Seq(Slots(V))
  BY DEF Pages
<1>2. \A s \in DOMAIN p.slots : p.slots[s] \in Slots(V)
  BY <1>1
<1>3. \A r \in Slots(V) : r.off \in Nat /\ r.len \in Nat
  BY DEF Slots
<1> QED
  BY <1>1, <1>2, <1>3

\* One more slot takes one more directory entry.
LEMMA OneMoreEntry ==
  ASSUME NEW n \in Nat
  PROVE  Header + (n + 1) * SlotEntry = Header + n * SlotEntry + SlotEntry
BY PageAssumption

\* The directory of a page with a row added.
LEMMA InsertedSlots ==
  ASSUME NEW V, NEW p \in Pages(V), NEW len \in Nat, NEW val \in V, Fits(p, len), PageSound(p)
  PROVE  LET q == PageInsert(p, len, val)
             n == Len(p.slots)
         IN  /\ q \in Pages(V)
             /\ n \in Nat /\ DOMAIN p.slots = 1 .. n
             /\ DOMAIN q.slots = 1 .. n + 1 /\ Len(q.slots) = n + 1
             /\ q.slots[n + 1] = [off |-> p.free - len, len |-> len, val |-> val]
             /\ \A s \in 1 .. n : q.slots[s] = p.slots[s]
             /\ q.free = p.free - len
<1> DEFINE q == PageInsert(p, len, val)
           n == Len(p.slots)
           new == [off |-> p.free - len, len |-> len, val |-> val]
<1>1. p.slots \in Seq(Slots(V)) /\ p.free \in Nat /\ n \in Nat /\ DOMAIN p.slots = 1 .. n
  BY DEF Pages
<1>2. n * SlotEntry \in Nat
  BY <1>1, PageAssumption
<1>3. p.free - len \in Nat
  BY <1>1, <1>2, PageAssumption DEF Fits, slotOffset
<1>4. new \in Slots(V)
  BY <1>3 DEF Slots
<1>5. q.slots = Append(p.slots, new) /\ q.free = p.free - len
      /\ q = [slots |-> Append(p.slots, new), free |-> p.free - len]
  BY DEF PageInsert
<1> HIDE DEF new, q
<1>6. Append(p.slots, new) \in Seq(Slots(V)) /\ Len(Append(p.slots, new)) = n + 1
      /\ DOMAIN Append(p.slots, new) = 1 .. n + 1
      /\ Append(p.slots, new)[n + 1] = new
      /\ \A s \in 1 .. n : Append(p.slots, new)[s] = p.slots[s]
  BY <1>1, <1>4
<1>7. q \in Pages(V)
  BY <1>3, <1>5, <1>6 DEF Pages
<1> QED
  BY <1>1, <1>5, <1>6, <1>7 DEF new, q

\* An insert that fits keeps the page sound.
LEMMA InsertSound ==
  ASSUME NEW V, NEW p \in Pages(V), NEW len \in Nat, NEW val \in V, Fits(p, len), PageSound(p)
  PROVE  PageSound(PageInsert(p, len, val))
<1>1. PICK q : q = PageInsert(p, len, val)
  OBVIOUS
<1>2. PICK n : n = Len(p.slots)
  OBVIOUS
<1>3. /\ n \in Nat /\ DOMAIN p.slots = 1 .. n
      /\ DOMAIN q.slots = 1 .. n + 1 /\ Len(q.slots) = n + 1
      /\ q.slots[n + 1] = [off |-> p.free - len, len |-> len, val |-> val]
      /\ \A s \in 1 .. n : q.slots[s] = p.slots[s]
      /\ q.free = p.free - len
  BY <1>1, <1>2, InsertedSlots
<1>4. /\ p.free \in Nat
      /\ \A s \in 1 .. n : p.slots[s].off \in Nat /\ p.slots[s].len \in Nat
  BY <1>2, <1>3, PageFields
<1>5. slotOffset(q) = slotOffset(p) + SlotEntry
  BY <1>2, <1>3, OneMoreEntry DEF slotOffset
<1>6. slotOffset(p) \in Nat
  BY <1>2, <1>3, PageAssumption DEF slotOffset
<1>7. slotOffset(q) <= q.free /\ q.free <= PageSize
  BY <1>3, <1>4, <1>5, <1>6, PageAssumption DEF Fits, PageSound
<1>8. ASSUME NEW s \in DOMAIN q.slots, q.slots[s].len > 0
      PROVE  q.free <= q.slots[s].off /\ q.slots[s].off + q.slots[s].len <= PageSize
  <2>1. CASE s = n + 1
    BY <1>3, <1>4, <2>1, PageAssumption DEF PageSound
  <2>2. CASE s \in 1 .. n
    <3>1. q.slots[s] = p.slots[s] /\ s \in DOMAIN p.slots
      BY <1>3, <2>2
    <3>2. p.free <= p.slots[s].off /\ p.slots[s].off + p.slots[s].len <= PageSize
      BY <1>8, <3>1 DEF PageSound
    <3> QED
      BY <1>3, <1>4, <2>2, <3>1, <3>2
  <2> QED
    BY <1>3, <2>1, <2>2
<1>9. ASSUME NEW s \in DOMAIN q.slots, NEW u \in DOMAIN q.slots,
             s < u, q.slots[s].len > 0, q.slots[u].len > 0
      PROVE  q.slots[u].off + q.slots[u].len <= q.slots[s].off
  <2>1. s \in 1 .. n
    BY <1>3, <1>9
  <2>2. CASE u = n + 1
    BY <1>3, <1>4, <1>9, <2>1, <2>2, SMTT(40) DEF PageSound
  <2>3. CASE u \in 1 .. n
    BY <1>3, <1>9, <2>1, <2>3 DEF PageSound
  <2> QED
    BY <1>3, <2>2, <2>3
<1> QED
  BY <1>1, <1>7, <1>8, <1>9 DEF PageSound

\* The directory of a page with one slot replaced.
LEMMA ReplacedSlot ==
  ASSUME NEW V, NEW p \in Pages(V), NEW s \in DOMAIN p.slots, NEW r \in Slots(V),
         NEW q, q = [p EXCEPT !.slots[s] = r]
  PROVE  /\ q \in Pages(V)
         /\ Len(q.slots) = Len(p.slots) /\ DOMAIN q.slots = DOMAIN p.slots
         /\ q.slots[s] = r
         /\ \A u \in DOMAIN p.slots \ {s} : q.slots[u] = p.slots[u]
         /\ q.free = p.free
<1>1. p.slots \in Seq(Slots(V)) /\ p.free \in Nat /\ p = [slots |-> p.slots, free |-> p.free]
  BY DEF Pages
<1>2. q = [slots |-> [p.slots EXCEPT ![s] = r], free |-> p.free]
  BY <1>1
<1>3. /\ [p.slots EXCEPT ![s] = r] \in Seq(Slots(V))
      /\ Len([p.slots EXCEPT ![s] = r]) = Len(p.slots)
      /\ DOMAIN [p.slots EXCEPT ![s] = r] = DOMAIN p.slots
      /\ [p.slots EXCEPT ![s] = r][s] = r
      /\ \A u \in DOMAIN p.slots \ {s} : [p.slots EXCEPT ![s] = r][u] = p.slots[u]
  BY <1>1
<1> QED
  BY <1>1, <1>2, <1>3 DEF Pages

\* A slot that keeps its offset and does not grow, or is emptied, keeps the page
\* sound.
LEMMA ReplaceSound ==
  ASSUME NEW V, NEW p \in Pages(V), NEW s \in DOMAIN p.slots, NEW r \in Slots(V), PageSound(p),
         r.len > 0 => r.off = p.slots[s].off /\ r.len <= p.slots[s].len,
         NEW q, q = [p EXCEPT !.slots[s] = r]
  PROVE  PageSound(q)
<1>1. /\ Len(q.slots) = Len(p.slots) /\ DOMAIN q.slots = DOMAIN p.slots
      /\ q.slots[s] = r
      /\ \A u \in DOMAIN p.slots \ {s} : q.slots[u] = p.slots[u]
      /\ q.free = p.free
  BY ReplacedSlot
<1>2. /\ DOMAIN p.slots \subseteq Int /\ p.free \in Nat
      /\ \A u \in DOMAIN p.slots : p.slots[u].off \in Nat /\ p.slots[u].len \in Nat
      /\ r.off \in Nat /\ r.len \in Nat
  <2>1. r.off \in Nat /\ r.len \in Nat
    BY DEF Slots
  <2> QED
    BY <2>1, PageFields
<1>3. \A u \in DOMAIN p.slots : q.slots[u].len > 0 =>
        /\ p.slots[u].len > 0
        /\ q.slots[u].off = p.slots[u].off
        /\ q.slots[u].len <= p.slots[u].len
        /\ q.slots[u].len \in Nat
  BY <1>1, <1>2
<1>4. slotOffset(q) = slotOffset(p)
  BY <1>1 DEF slotOffset
<1>5. ASSUME NEW u \in DOMAIN q.slots, q.slots[u].len > 0
      PROVE  q.free <= q.slots[u].off /\ q.slots[u].off + q.slots[u].len <= PageSize
  BY <1>1, <1>2, <1>3, <1>5, PageAssumption DEF PageSound
<1>6. ASSUME NEW u \in DOMAIN q.slots, NEW w \in DOMAIN q.slots,
             u < w, q.slots[u].len > 0, q.slots[w].len > 0
      PROVE  q.slots[w].off + q.slots[w].len <= q.slots[u].off
  BY <1>1, <1>2, <1>3, <1>6 DEF PageSound
<1>7. slotOffset(q) <= q.free /\ q.free <= PageSize
  BY <1>1, <1>4 DEF PageSound
<1> QED
  BY <1>5, <1>6, <1>7 DEF PageSound

\* A sound page has no more slots than its directory has room for.
LEMMA SlotsBounded ==
  ASSUME NEW V, NEW p \in Pages(V), PageSound(p)
  PROVE  Len(p.slots) <= (PageSize - Header) \div SlotEntry
<1> DEFINE n == Len(p.slots)
           k == PageSize - Header
           d == k \div SlotEntry
<1>1. n \in Nat /\ p.free \in Nat
  BY DEF Pages
<1>2. k \in Nat /\ SlotEntry \in Nat \ {0}
  BY PageAssumption
<1>3. n * SlotEntry <= k
  BY <1>1, PageAssumption DEF PageSound, slotOffset
<1> HIDE DEF n, k
<1>4. d \in Nat /\ k < (d + 1) * SlotEntry
  BY <1>2
<1> HIDE DEF d
<1>5. ASSUME n > d PROVE FALSE
  <2>1. PICK m \in Nat : n = d + 1 + m
    <3>1. n - d - 1 \in Nat /\ n = d + 1 + (n - d - 1)
      BY <1>1, <1>4, <1>5
    <3> QED
      BY <3>1
  <2>2. n * SlotEntry = (d + 1) * SlotEntry + m * SlotEntry
    BY <1>2, <1>4, <2>1
  <2>3. m * SlotEntry \in Nat /\ (d + 1) * SlotEntry \in Nat
    BY <1>2, <1>4, <2>1
  <2> QED
    BY <1>2, <1>3, <1>4, <2>2, <2>3
<1> QED
  BY <1>1, <1>4, <1>5 DEF n, d, k

(***************************************************************************)
(* The heap file and its invariant                                         *)
(***************************************************************************)

PageT == Pages(Val \cup {NoValue})

\* The insert under way: it has counted the pages of the file, which stays as
\* long as it is until the insert ends, and has some of them left to visit.
Inserting ==
  /\ op.kind = "insert"
  /\ op.len \in RowLen /\ op.val \in Val
  /\ op.count = Len(disk)
  /\ op.at \in 1 .. op.count + 1

HTypeOK ==
  /\ disk \in Seq(PageT) /\ Len(disk) <= MaxPages
  /\ DOMAIN pages \subseteq DOMAIN disk
  /\ pages \in [DOMAIN pages -> PageT]
  /\ op = Idle \/ Inserting

\* The inductive invariant.
HInv == HTypeOK /\ CacheCoherent /\ PagesSound

\* What one step does to what readers get: nothing, or it gives one page, old or
\* new at the end of the file, new contents.
Same ==
  /\ Len(disk') = Len(disk)
  /\ \A q \in DOMAIN disk : Content(q)' = Content(q)

Changes(p, new) ==
  /\ p \in DOMAIN disk' /\ Content(p)' = new
  /\ DOMAIN disk' = DOMAIN disk \cup {p}
  /\ \A q \in DOMAIN disk \ {p} : Content(q)' = Content(q)

(***************************************************************************)
(* The pool                                                                *)
(***************************************************************************)

LEMMA DiskDomain ==
  ASSUME HInv
  PROVE  /\ Len(disk) \in Nat /\ DOMAIN disk = 1 .. Len(disk)
         /\ None \notin DOMAIN disk
         /\ \A q \in DOMAIN disk : disk[q] \in PageT /\ Content(q) \in PageT /\ PageSound(Content(q))
<1>1. Len(disk) \in Nat /\ DOMAIN disk = 1 .. Len(disk) /\ \A q \in DOMAIN disk : disk[q] \in PageT
  BY DEF HInv, HTypeOK
<1>2. \A q \in DOMAIN pages : pages[q] \in PageT
  BY DEF HInv, HTypeOK
<1> QED
  BY <1>1, <1>2 DEF HInv, PagesSound, Content, None

\* A victim is cached and is not the page that is visited.
LEMMA Victim ==
  ASSUME HInv, NEW p \in DOMAIN disk, NEW v \in evictPage(p)
  PROVE  /\ v # p
         /\ v = None \/ (v \in DOMAIN pages /\ p \notin DOMAIN pages)
         /\ Visited(p, v) = Content(p)
<1>1. v = None \/ (v \in DOMAIN pages /\ p \notin DOMAIN pages)
  BY DEF evictPage, clean
<1>2. v # p
  BY <1>1, DiskDomain DEF None
<1> QED
  BY <1>1, <1>2 DEF Visited, FetchPage, Content

\* The file after the victim has been flushed, and the pool after the visit.
LEMMA VisitEffect ==
  ASSUME HInv, NEW p \in DOMAIN disk, NEW v \in evictPage(p)
  PROVE  /\ Flush(v) \in Seq(PageT) /\ Len(Flush(v)) = Len(disk) /\ DOMAIN Flush(v) = DOMAIN disk
         /\ \A q \in DOMAIN disk : Flush(v)[q] = IF q = v /\ v \in dirty THEN pages[v] ELSE disk[q]
         /\ DOMAIN FetchPage(p, v) = (DOMAIN pages \ {v}) \cup {p}
         /\ FetchPage(p, v) \in [DOMAIN FetchPage(p, v) -> PageT]
         /\ \A q \in DOMAIN FetchPage(p, v) : FetchPage(p, v)[q] = Content(q)
<1>1. /\ disk \in Seq(PageT) /\ dirty \subseteq DOMAIN pages /\ DOMAIN pages \subseteq DOMAIN disk
      /\ \A q \in DOMAIN pages : pages[q] \in PageT
  BY DEF HInv, HTypeOK, CacheCoherent
<1>2. /\ Flush(v) \in Seq(PageT) /\ Len(Flush(v)) = Len(disk) /\ DOMAIN Flush(v) = DOMAIN disk
      /\ \A q \in DOMAIN disk : Flush(v)[q] = IF q = v /\ v \in dirty THEN pages[v] ELSE disk[q]
  <2>1. CASE v \in dirty
    <3>1. v \in DOMAIN disk /\ pages[v] \in PageT
      BY <1>1, <2>1
    <3> QED
      BY <1>1, <2>1, <3>1 DEF Flush
  <2>2. CASE v \notin dirty
    BY <1>1, <2>2 DEF Flush
  <2> QED
    BY <2>1, <2>2
<1>3. DOMAIN FetchPage(p, v) = (DOMAIN pages \ {v}) \cup {p}
      /\ FetchPage(p, v) = [q \in DOMAIN FetchPage(p, v) |-> FetchPage(p, v)[q]]
  BY DEF FetchPage
<1>4. \A q \in DOMAIN FetchPage(p, v) : FetchPage(p, v)[q] = Content(q)
  BY DEF FetchPage, Content
<1>5. DOMAIN FetchPage(p, v) \subseteq DOMAIN disk
  BY <1>1, <1>3
<1>6. FetchPage(p, v) \in [DOMAIN FetchPage(p, v) -> PageT]
  BY <1>3, <1>4, <1>5, DiskDomain
<1> QED
  BY <1>2, <1>3, <1>4, <1>6

\* A visit that changes nothing is invisible.
LEMMA ReadSame ==
  ASSUME HInv, NEW p \in DOMAIN disk, NEW v \in evictPage(p), Read(p, v)
  PROVE  /\ Same /\ CacheCoherent'
         /\ disk' \in Seq(PageT)
         /\ DOMAIN pages' = (DOMAIN pages \ {v}) \cup {p} /\ DOMAIN pages' \subseteq DOMAIN disk'
         /\ pages' \in [DOMAIN pages' -> PageT]
<1>1. pages' = FetchPage(p, v) /\ dirty' = dirty \ {v} /\ disk' = Flush(v)
  BY DEF Read
<1>2. dirty \subseteq DOMAIN pages /\ DOMAIN pages \subseteq DOMAIN disk
      /\ \A q \in DOMAIN pages \ dirty : pages[q] = disk[q]
  BY DEF HInv, HTypeOK, CacheCoherent, clean
<1>3. /\ disk' \in Seq(PageT) /\ Len(disk') = Len(disk) /\ DOMAIN disk' = DOMAIN disk
      /\ \A q \in DOMAIN disk : disk'[q] = IF q = v /\ v \in dirty THEN pages[v] ELSE disk[q]
      /\ DOMAIN pages' = (DOMAIN pages \ {v}) \cup {p}
      /\ pages' \in [DOMAIN pages' -> PageT]
      /\ \A q \in DOMAIN pages' : pages'[q] = Content(q)
  BY <1>1, VisitEffect
<1>4. v # p /\ (v = None \/ (v \in DOMAIN pages /\ p \notin DOMAIN pages)) /\ None \notin DOMAIN disk
  BY Victim, DiskDomain
<1>5. ASSUME NEW q \in DOMAIN disk PROVE Content(q)' = Content(q)
  <2>1. CASE q \in DOMAIN pages'
    BY <1>3, <2>1 DEF Content
  <2>2. CASE q \notin DOMAIN pages'
    <3>1. q \notin DOMAIN pages \/ q = v
      BY <1>3, <2>2
    <3>2. Content(q)' = disk'[q]
      BY <2>2 DEF Content
    <3> QED
      BY <1>2, <1>3, <3>1, <3>2 DEF Content
  <2> QED
    BY <2>1, <2>2
<1>6. CacheCoherent'
  <2>1. dirty' \subseteq DOMAIN pages'
    BY <1>1, <1>2, <1>3
  <2>2. ASSUME NEW q \in DOMAIN pages' \ dirty' PROVE pages'[q] = disk'[q]
    BY <1>1, <1>2, <1>3, <1>4 DEF Content
  <2> QED
    BY <2>1, <2>2 DEF CacheCoherent, clean
<1> QED
  BY <1>2, <1>3, <1>5, <1>6 DEF Same

\* A visit that changes the page is seen by readers of that page only.
LEMMA WriteChanges ==
  ASSUME HInv, NEW p \in DOMAIN disk, NEW v \in evictPage(p), NEW new \in PageT, Write(p, v, new)
  PROVE  /\ Changes(p, new) /\ CacheCoherent'
         /\ disk' \in Seq(PageT) /\ Len(disk') = Len(disk)
         /\ DOMAIN pages' = (DOMAIN pages \ {v}) \cup {p} /\ DOMAIN pages' \subseteq DOMAIN disk'
         /\ pages' \in [DOMAIN pages' -> PageT]
<1>1. pages' = [FetchPage(p, v) EXCEPT ![p] = new] /\ dirty' = (dirty \ {v}) \cup {p} /\ disk' = Flush(v)
  BY DEF Write, MarkDirty
<1>2. dirty \subseteq DOMAIN pages /\ DOMAIN pages \subseteq DOMAIN disk
      /\ \A q \in DOMAIN pages \ dirty : pages[q] = disk[q]
  BY DEF HInv, HTypeOK, CacheCoherent, clean
<1>3. /\ disk' \in Seq(PageT) /\ Len(disk') = Len(disk) /\ DOMAIN disk' = DOMAIN disk
      /\ \A q \in DOMAIN disk : disk'[q] = IF q = v /\ v \in dirty THEN pages[v] ELSE disk[q]
  BY <1>1, VisitEffect
<1>4. PICK F : F = FetchPage(p, v)
  OBVIOUS
<1>5. /\ DOMAIN F = (DOMAIN pages \ {v}) \cup {p}
      /\ F \in [DOMAIN F -> PageT]
      /\ \A q \in DOMAIN F : F[q] = Content(q)
  BY <1>4, VisitEffect
<1>6. /\ DOMAIN pages' = (DOMAIN pages \ {v}) \cup {p}
      /\ pages' \in [DOMAIN pages' -> PageT]
      /\ pages'[p] = new
      /\ \A q \in DOMAIN pages' \ {p} : pages'[q] = Content(q)
  BY <1>1, <1>4, <1>5
<1>7. v # p /\ (v = None \/ (v \in DOMAIN pages /\ p \notin DOMAIN pages)) /\ None \notin DOMAIN disk
  BY Victim, DiskDomain
<1>8. ASSUME NEW q \in DOMAIN disk \ {p} PROVE Content(q)' = Content(q)
  <2>1. CASE q \in DOMAIN pages'
    BY <1>6, <2>1 DEF Content
  <2>2. CASE q \notin DOMAIN pages'
    <3>1. q \notin DOMAIN pages \/ q = v
      BY <1>6, <2>2
    <3>2. Content(q)' = disk'[q]
      BY <2>2 DEF Content
    <3> QED
      BY <1>2, <1>3, <3>1, <3>2 DEF Content
  <2> QED
    BY <2>1, <2>2
<1>9. CacheCoherent'
  <2>1. dirty' \subseteq DOMAIN pages'
    BY <1>1, <1>2, <1>6
  <2>2. ASSUME NEW q \in DOMAIN pages' \ dirty' PROVE pages'[q] = disk'[q]
    BY <1>1, <1>2, <1>3, <1>6, <1>7 DEF Content
  <2> QED
    BY <2>1, <2>2 DEF CacheCoherent, clean
<1>10. Changes(p, new)
  BY <1>3, <1>6, <1>8 DEF Changes, Content
<1> QED
  BY <1>2, <1>3, <1>6, <1>9, <1>10

(***************************************************************************)
(* What each step does to the rows                                         *)
(***************************************************************************)

\* A row is added to page p, which may be new.
Adds(p, old, len, val) ==
  /\ p \in 1 .. MaxPages
  /\ len \in RowLen /\ val \in Val
  /\ p \in DOMAIN disk => old = Content(p)
  /\ p \notin DOMAIN disk => old = NewPage
  /\ old \in PageT /\ PageSound(old) /\ Fits(old, len)
  /\ Changes(p, PageInsert(old, len, val))

\* Row s of page p is overwritten by a row no longer than it.
Overwrites(p, s, len, val) ==
  /\ p \in DOMAIN disk /\ s \in DOMAIN Content(p).slots
  /\ len \in RowLen /\ val \in Val /\ UpdateFits(Content(p), s, len)
  /\ Changes(p, PageUpdate(Content(p), s, len, val))

Erases(p, s) ==
  /\ p \in DOMAIN disk /\ s \in DOMAIN Content(p).slots
  /\ Changes(p, PageDelete(Content(p), s))

Effect ==
  \/ Same
  \/ \E p, old, len, val : Adds(p, old, len, val)
  \/ \E p, s, len, val : Overwrites(p, s, len, val)
  \/ \E p, s : Erases(p, s)

LEMMA InsertedPage ==
  ASSUME NEW old \in PageT, PageSound(old), NEW len \in RowLen, NEW val \in Val, Fits(old, len)
  PROVE  PageInsert(old, len, val) \in PageT /\ PageSound(PageInsert(old, len, val))
<1>1. len \in Nat /\ val \in Val \cup {NoValue}
  BY PoolAssumption
<1> QED
  BY <1>1, InsertedSlots, InsertSound DEF PageT

LEMMA UpdatedPage ==
  ASSUME NEW old \in PageT, PageSound(old), NEW s \in DOMAIN old.slots,
         NEW len \in RowLen, NEW val \in Val, UpdateFits(old, s, len),
         NEW q, q = PageUpdate(old, s, len, val)
  PROVE  /\ q \in PageT /\ PageSound(q)
         /\ Len(q.slots) = Len(old.slots) /\ DOMAIN q.slots = DOMAIN old.slots
         /\ q.slots[s].len = len /\ q.slots[s].val = val /\ old.slots[s].len > 0
         /\ \A u \in DOMAIN old.slots \ {s} : q.slots[u] = old.slots[u]
<1>1. len \in Nat \ {0} /\ val \in Val \cup {NoValue}
  BY PoolAssumption
<1>2. old.slots[s].off \in Nat /\ old.slots[s].len \in Nat
  BY PageFields DEF PageT
<1>3. PICK r : r = [off |-> old.slots[s].off, len |-> len, val |-> val]
  OBVIOUS
<1>4. r \in Slots(Val \cup {NoValue}) /\ r.off = old.slots[s].off /\ r.len = len /\ r.val = val
  BY <1>1, <1>2, <1>3 DEF Slots
<1>5. q = [old EXCEPT !.slots[s] = r]
  BY <1>3 DEF PageUpdate
<1>6. r.len > 0 => r.off = old.slots[s].off /\ r.len <= old.slots[s].len
  BY <1>4 DEF UpdateFits
<1>7. PageSound(q)
  BY <1>4, <1>5, <1>6, ReplaceSound DEF PageT
<1>8. /\ q \in PageT
      /\ Len(q.slots) = Len(old.slots) /\ DOMAIN q.slots = DOMAIN old.slots
      /\ q.slots[s] = r
      /\ \A u \in DOMAIN old.slots \ {s} : q.slots[u] = old.slots[u]
  BY <1>4, <1>5, ReplacedSlot DEF PageT
<1> QED
  BY <1>1, <1>2, <1>4, <1>7, <1>8 DEF UpdateFits

LEMMA DeletedPage ==
  ASSUME NEW old \in PageT, PageSound(old), NEW s \in DOMAIN old.slots,
         NEW q, q = PageDelete(old, s)
  PROVE  /\ q \in PageT /\ PageSound(q)
         /\ Len(q.slots) = Len(old.slots) /\ DOMAIN q.slots = DOMAIN old.slots
         /\ q.slots[s].len = 0
         /\ \A u \in DOMAIN old.slots \ {s} : q.slots[u] = old.slots[u]
<1>1. PICK r : r = [off |-> 0, len |-> 0, val |-> NoValue]
  OBVIOUS
<1>2. r \in Slots(Val \cup {NoValue}) /\ r.len = 0
  BY <1>1 DEF Slots
<1>3. q = [old EXCEPT !.slots[s] = r]
  BY <1>1 DEF PageDelete
<1>4. r.len > 0 => r.off = old.slots[s].off /\ r.len <= old.slots[s].len
  BY <1>2
<1>5. PageSound(q)
  BY <1>2, <1>3, <1>4, ReplaceSound DEF PageT
<1> QED
  BY <1>2, <1>3, <1>5, ReplacedSlot DEF PageT

Sound == HTypeOK' /\ CacheCoherent' /\ Effect

LEMMA StepRead ==
  ASSUME HInv, NEW p \in DOMAIN disk, NEW v \in evictPage(p), Read(p, v),
         op' = op \/ (op # Idle /\ op.at <= op.count /\ op' = [op EXCEPT !.at = @ + 1])
  PROVE  Sound
<1>1. /\ Same /\ CacheCoherent'
      /\ disk' \in Seq(PageT)
      /\ DOMAIN pages' = (DOMAIN pages \ {v}) \cup {p} /\ DOMAIN pages' \subseteq DOMAIN disk'
      /\ pages' \in [DOMAIN pages' -> PageT]
  BY ReadSame
<1>2. Len(disk') = Len(disk) /\ Len(disk) <= MaxPages /\ Len(disk) \in Nat
  BY <1>1, DiskDomain DEF Same, HInv, HTypeOK
<1>3. op' = Idle \/ Inserting'
  <2>1. op = Idle \/ Inserting
    BY DEF HInv, HTypeOK
  <2>2. CASE op' = op
    BY <1>2, <2>1, <2>2 DEF Inserting
  <2>3. CASE op # Idle /\ op.at <= op.count /\ op' = [op EXCEPT !.at = @ + 1]
    <3>1. Inserting
      BY <2>1, <2>3
    <3>2. /\ op'.kind = op.kind /\ op'.len = op.len /\ op'.val = op.val
          /\ op'.count = op.count /\ op'.at = op.at + 1
      BY <2>3, <3>1 DEF Inserting
    <3> QED
      BY <1>2, <2>3, <3>1, <3>2 DEF Inserting
  <2> QED
    BY <2>2, <2>3
<1> QED
  BY <1>1, <1>2, <1>3 DEF Sound, HTypeOK, Effect

LEMMA StepWrite ==
  ASSUME HInv, NEW p \in DOMAIN disk, NEW v \in evictPage(p), NEW new \in PageT, Write(p, v, new),
         op' = Idle,
         Changes(p, new) => Effect
  PROVE  Sound
<1>1. /\ Changes(p, new) /\ CacheCoherent'
      /\ disk' \in Seq(PageT) /\ Len(disk') = Len(disk)
      /\ DOMAIN pages' = (DOMAIN pages \ {v}) \cup {p} /\ DOMAIN pages' \subseteq DOMAIN disk'
      /\ pages' \in [DOMAIN pages' -> PageT]
  BY WriteChanges
<1>2. Len(disk) <= MaxPages
  BY DEF HInv, HTypeOK
<1> QED
  BY <1>1, <1>2 DEF Sound, HTypeOK

LEMMA StepIdle ==
  ASSUME HInv, UNCHANGED <<disk, pages, dirty>>, op' = Idle \/ Inserting' \/ op' = op
  PROVE  Sound
<1>1. HTypeOK'
  <2>1. op' = Idle \/ Inserting'
    BY DEF HInv, HTypeOK, Inserting
  <2> QED
    BY <2>1 DEF HInv, HTypeOK
<1>2. CacheCoherent'
  BY DEF HInv, CacheCoherent, clean
<1>3. Same
  BY DEF Same, Content
<1> QED
  BY <1>1, <1>2, <1>3 DEF Sound, Effect

LEMMA StepStartInsert ==
  ASSUME HInv, NEW len \in RowLen, NEW val \in Val, StartInsert(len, val)
  PROVE  Sound
<1>1. Len(disk) \in Nat
  BY DiskDomain
<1>2. /\ UNCHANGED <<disk, pages, dirty>>
      /\ op' = [kind |-> "insert", len |-> len, val |-> val, at |-> 1, count |-> Len(disk)]
  BY DEF StartInsert, getPageCount
<1>3. Inserting'
  BY <1>1, <1>2 DEF Inserting
<1> QED
  BY <1>2, <1>3, StepIdle

LEMMA StepInsertVisit ==
  ASSUME HInv, InsertVisit
  PROVE  Sound
<1>1. Inserting /\ op.at <= op.count
  BY DEF InsertVisit, HInv, HTypeOK
<1>2. PICK p : p = op.at
  OBVIOUS
<1>3. p \in DOMAIN disk /\ p \in 1 .. MaxPages
  <2>1. Len(disk) \in Nat /\ Len(disk) <= MaxPages /\ DOMAIN disk = 1 .. Len(disk)
    BY DiskDomain DEF HInv, HTypeOK
  <2> QED
    BY <1>1, <1>2, <2>1, PoolAssumption DEF Inserting
<1>4. PICK v \in evictPage(p) :
        IF Fits(Visited(p, v), op.len)
        THEN Write(p, v, PageInsert(Visited(p, v), op.len, op.val)) /\ op' = Idle
        ELSE Read(p, v) /\ op' = [op EXCEPT !.at = @ + 1]
  BY <1>2 DEF InsertVisit
<1>5. Visited(p, v) = Content(p) /\ Content(p) \in PageT /\ PageSound(Content(p))
  BY <1>3, Victim, DiskDomain
<1>6. CASE Fits(Content(p), op.len)
  <2>1. PICK new : new = PageInsert(Content(p), op.len, op.val)
    OBVIOUS
  <2>2. Write(p, v, new) /\ op' = Idle
    BY <1>4, <1>5, <1>6, <2>1
  <2>3. op.len \in RowLen /\ op.val \in Val
    BY <1>1 DEF Inserting
  <2>4. new \in PageT
    BY <1>5, <1>6, <2>1, <2>3, InsertedPage
  <2>5. ASSUME Changes(p, new) PROVE Effect
    <3>1. Adds(p, Content(p), op.len, op.val)
      BY <1>3, <1>5, <1>6, <2>1, <2>3, <2>5 DEF Adds
    <3> QED
      BY <3>1 DEF Effect
  <2> QED
    BY <1>3, <2>2, <2>4, <2>5, StepWrite
<1>7. CASE ~Fits(Content(p), op.len)
  <2>1. Read(p, v) /\ op' = [op EXCEPT !.at = @ + 1] /\ op # Idle
    BY <1>4, <1>5, <1>7 DEF InsertVisit
  <2> QED
    BY <1>1, <1>3, <2>1, StepRead
<1> QED
  BY <1>6, <1>7

LEMMA StepInsertFails ==
  ASSUME HInv, InsertFails
  PROVE  Sound
BY StepIdle DEF InsertFails

LEMMA EmptyPage == NewPage \in PageT /\ PageSound(NewPage)
<1>1. NewPage.slots = <<>> /\ NewPage.free = PageSize /\ Len(NewPage.slots) = 0
      /\ DOMAIN NewPage.slots = {}
  BY DEF NewPage
<1>2. NewPage \in PageT
  BY PageAssumption DEF NewPage, PageT, Pages
<1> QED
  BY <1>1, <1>2, PageAssumption DEF PageSound, slotOffset

LEMMA StepInsertAppend ==
  ASSUME HInv, InsertAppend
  PROVE  Sound
<1>1. Inserting
  BY DEF InsertAppend, HInv, HTypeOK
<1>2. PICK p : p = op.count + 1
  OBVIOUS
<1>3. PICK new : new = PageInsert(NewPage, op.len, op.val)
  OBVIOUS
<1>4. /\ disk' = Append(disk, new)
      /\ pages' = [q \in DOMAIN pages \cup {p} |-> IF q = p THEN new ELSE pages[q]]
      /\ op' = Idle /\ dirty' = dirty
      /\ op.count < MaxPages /\ Fits(NewPage, op.len)
  BY <1>2, <1>3 DEF InsertAppend
<1>5. op.len \in RowLen /\ op.val \in Val /\ op.count = Len(disk)
  BY <1>1 DEF Inserting
<1>6. new \in PageT
  BY <1>3, <1>4, <1>5, InsertedPage, EmptyPage
<1>7. /\ disk \in Seq(PageT) /\ Len(disk) \in Nat /\ DOMAIN disk = 1 .. Len(disk)
      /\ DOMAIN pages \subseteq DOMAIN disk /\ dirty \subseteq DOMAIN pages
      /\ pages \in [DOMAIN pages -> PageT]
      /\ \A q \in DOMAIN pages \ dirty : pages[q] = disk[q]
  BY DiskDomain DEF HInv, HTypeOK, CacheCoherent, clean
<1>8. p = Len(disk) + 1 /\ p \notin DOMAIN disk /\ p \in 1 .. MaxPages
  BY <1>2, <1>4, <1>5, <1>7, PoolAssumption
<1>9. /\ disk' \in Seq(PageT) /\ Len(disk') = p /\ DOMAIN disk' = DOMAIN disk \cup {p}
      /\ disk'[p] = new /\ \A q \in DOMAIN disk : disk'[q] = disk[q]
  BY <1>4, <1>6, <1>7, <1>8
<1>10. /\ DOMAIN pages' = DOMAIN pages \cup {p} /\ pages' \in [DOMAIN pages' -> PageT]
       /\ pages'[p] = new /\ \A q \in DOMAIN pages : pages'[q] = pages[q]
  BY <1>4, <1>6, <1>7, <1>8
<1>11. Changes(p, new)
  BY <1>7, <1>8, <1>9, <1>10 DEF Changes, Content
<1>12. Adds(p, NewPage, op.len, op.val)
  BY <1>3, <1>4, <1>5, <1>8, <1>11, EmptyPage DEF Adds
<1>13. CacheCoherent'
  BY <1>4, <1>7, <1>8, <1>9, <1>10 DEF CacheCoherent, clean
<1>14. HTypeOK'
  BY <1>4, <1>7, <1>8, <1>9, <1>10 DEF HTypeOK
<1>15. Len(disk') > Len(disk)
  BY <1>7, <1>8, <1>9
<1> QED
  BY <1>12, <1>13, <1>14, <1>15 DEF Sound, Effect

LEMMA StepGet ==
  ASSUME HInv, NEW p \in DOMAIN disk, Get(p)
  PROVE  Sound
BY StepRead DEF Get

LEMMA StepUpdate ==
  ASSUME HInv, NEW p \in DOMAIN disk, NEW s, NEW len \in RowLen, NEW val \in Val, Update(p, s, len, val)
  PROVE  Sound
<1>1. PICK v \in evictPage(p) :
        /\ s \in DOMAIN Visited(p, v).slots
        /\ IF UpdateFits(Visited(p, v), s, len)
           THEN Write(p, v, PageUpdate(Visited(p, v), s, len, val))
           ELSE Read(p, v)
  BY DEF Update
<1>2. op = Idle /\ op' = op
  BY DEF Update
<1>3. Visited(p, v) = Content(p) /\ Content(p) \in PageT /\ PageSound(Content(p))
  BY Victim, DiskDomain
<1>4. CASE UpdateFits(Content(p), s, len)
  <2>1. PICK new : new = PageUpdate(Content(p), s, len, val)
    OBVIOUS
  <2>2. Write(p, v, new) /\ s \in DOMAIN Content(p).slots
    BY <1>1, <1>3, <1>4, <2>1
  <2>3. new \in PageT
    BY <1>3, <1>4, <2>1, <2>2, UpdatedPage
  <2>4. ASSUME Changes(p, new) PROVE Effect
    <3>1. Overwrites(p, s, len, val)
      BY <1>4, <2>1, <2>2, <2>4 DEF Overwrites
    <3> QED
      BY <3>1 DEF Effect
  <2> QED
    BY <1>2, <2>2, <2>3, <2>4, StepWrite
<1>5. CASE ~UpdateFits(Content(p), s, len)
  BY <1>1, <1>2, <1>3, <1>5, StepRead
<1> QED
  BY <1>4, <1>5

LEMMA StepDelete ==
  ASSUME HInv, NEW p \in DOMAIN disk, NEW s, Delete(p, s)
  PROVE  Sound
<1>1. PICK v \in evictPage(p) :
        /\ s \in DOMAIN Visited(p, v).slots
        /\ Write(p, v, PageDelete(Visited(p, v), s))
  BY DEF Delete
<1>2. op' = Idle
  BY DEF Delete
<1>3. Visited(p, v) = Content(p) /\ Content(p) \in PageT /\ PageSound(Content(p))
  BY Victim, DiskDomain
<1>4. PICK new : new = PageDelete(Content(p), s)
  OBVIOUS
<1>5. Write(p, v, new) /\ s \in DOMAIN Content(p).slots
  BY <1>1, <1>3, <1>4
<1>6. new \in PageT
  BY <1>3, <1>4, <1>5, DeletedPage
<1>7. ASSUME Changes(p, new) PROVE Effect
  <2>1. Erases(p, s)
    BY <1>4, <1>5, <1>7 DEF Erases
  <2> QED
    BY <2>1 DEF Effect
<1> QED
  BY <1>2, <1>5, <1>6, <1>7, StepWrite

LEMMA StepReopen ==
  ASSUME HInv, Reopen
  PROVE  Sound
<1>1. /\ disk \in Seq(PageT) /\ Len(disk) \in Nat /\ DOMAIN disk = 1 .. Len(disk)
      /\ DOMAIN pages \subseteq DOMAIN disk /\ dirty \subseteq DOMAIN pages
      /\ Len(disk) <= MaxPages
      /\ \A q \in DOMAIN pages : pages[q] \in PageT
      /\ \A q \in DOMAIN pages \ dirty : pages[q] = disk[q]
  BY DiskDomain DEF HInv, HTypeOK, CacheCoherent, clean
<1>2. /\ disk' = [p \in DOMAIN disk |-> IF p \in dirty THEN pages[p] ELSE disk[p]]
      /\ dirty' = {} /\ op' = Idle
  BY DEF Reopen, FlushAll
<1>3. DOMAIN pages' = {} /\ pages' \in [DOMAIN pages' -> PageT]
  BY DEF Reopen
<1>4. disk' \in Seq(PageT) /\ Len(disk') = Len(disk) /\ DOMAIN disk' = DOMAIN disk
  <2>1. \A q \in DOMAIN disk : disk[q] \in PageT
    BY <1>1
  <2>2. disk' \in [1 .. Len(disk) -> PageT]
    BY <1>1, <1>2, <2>1
  <2> QED
    BY <1>1, <2>2
<1>5. Same
  BY <1>1, <1>2, <1>3, <1>4 DEF Same, Content
<1>6. CacheCoherent' /\ HTypeOK'
  BY <1>1, <1>2, <1>3, <1>4 DEF CacheCoherent, clean, HTypeOK
<1> QED
  BY <1>3, <1>5, <1>6 DEF Sound, Effect

LEMMA NextSound ==
  ASSUME HInv, [Next]_hvars
  PROVE  Sound
<1>1. CASE UNCHANGED hvars
  BY <1>1, StepIdle DEF hvars
<1>2. CASE Next
  BY <1>2, StepStartInsert, StepInsertVisit, StepInsertAppend, StepInsertFails,
     StepGet, StepUpdate, StepDelete, StepReopen DEF Next
<1> QED
  BY <1>1, <1>2

(***************************************************************************)
(* The invariant                                                           *)
(***************************************************************************)

LEMMA HInvInductive ==
  ASSUME HInv, [Next]_hvars
  PROVE  HInv'
<1>1. Sound
  BY NextSound
<1>2. ASSUME NEW q \in DOMAIN disk' PROVE PageSound(Content(q))'
  <2>1. /\ \A r \in DOMAIN disk : Content(r) \in PageT /\ PageSound(Content(r))
        /\ DOMAIN disk = 1 .. Len(disk)
    BY DiskDomain
  <2>2. CASE Same
    <3>1. q \in DOMAIN disk
      BY <1>1, <2>1, <2>2 DEF Same, Sound, HTypeOK
    <3> QED
      BY <2>1, <2>2, <3>1 DEF Same
  <2>3. ASSUME NEW p, NEW new, Changes(p, new), PageSound(new) PROVE PageSound(Content(q))'
    BY <2>1, <2>3 DEF Changes
  <2>4. ASSUME NEW p, NEW old, NEW len, NEW val, Adds(p, old, len, val) PROVE PageSound(Content(q))'
    BY <2>3, <2>4, InsertedPage DEF Adds
  <2>5. ASSUME NEW p, NEW s, NEW len, NEW val, Overwrites(p, s, len, val) PROVE PageSound(Content(q))'
    BY <2>1, <2>3, <2>5, UpdatedPage DEF Overwrites
  <2>6. ASSUME NEW p, NEW s, Erases(p, s) PROVE PageSound(Content(q))'
    BY <2>1, <2>3, <2>6, DeletedPage DEF Erases
  <2> QED
    BY <1>1, <2>2, <2>4, <2>5, <2>6 DEF Sound, Effect
<1> QED
  BY <1>1, <1>2 DEF Sound, HInv, PagesSound

LEMMA HInvInit == Init => HInv
<1> SUFFICES ASSUME Init PROVE HInv
  OBVIOUS
<1>1. disk = <<>> /\ DOMAIN pages = {} /\ dirty = {} /\ op = Idle
  BY DEF Init
<1>2. disk \in Seq(PageT) /\ Len(disk) = 0 /\ DOMAIN disk = {}
  BY <1>1
<1>3. HTypeOK
  <2>1. pages \in [DOMAIN pages -> PageT]
    BY DEF Init
  <2> QED
    BY <1>1, <1>2, <2>1, PoolAssumption DEF HTypeOK
<1>4. CacheCoherent /\ PagesSound
  BY <1>1, <1>2 DEF CacheCoherent, clean, PagesSound
<1> QED
  BY <1>3, <1>4 DEF HInv

LEMMA HInvAlways == Spec => []HInv
<1>1. Init => HInv
  BY HInvInit
<1>2. HInv /\ [Next]_hvars => HInv'
  BY HInvInductive
<1> QED
  BY <1>1, <1>2, PTL DEF Spec

\* The buffer pool never hides or loses a change (FetchPage, evictPage, MarkDirty,
\* FlushPage): a clean cached page is the page on disk, a dirty one is cached.
THEOREM CacheIsCoherent == Spec => []CacheCoherent
<1>1. HInv => CacheCoherent
  BY DEF HInv
<1> QED
  BY <1>1, HInvAlways, PTL

\* Page.Insert, Update and Delete never let two rows share a byte or a row reach
\* the slot directory, for every page size and every sequence of calls.
THEOREM PagesStaySound == Spec => []PagesSound
<1>1. HInv => PagesSound
  BY DEF HInv
<1> QED
  BY <1>1, HInvAlways, PTL

(***************************************************************************)
(* The heap file implements a map from RowIDs to rows                      *)
(***************************************************************************)

RowAt(i) == <<Content(i[1]).slots[i[2]].len, Content(i[1]).slots[i[2]].val>>

\* The new contents differ from the old ones of page p in slot s at most.
OneRow(p, s, new) ==
  /\ Changes(p, new) /\ new \in PageT /\ PageSound(new)
  /\ s \in DOMAIN new.slots
  /\ p \in DOMAIN disk => /\ DOMAIN new.slots \ {s} = DOMAIN Content(p).slots \ {s}
                          /\ \A u \in DOMAIN new.slots \ {s} : new.slots[u] = Content(p).slots[u]
  /\ p \notin DOMAIN disk => DOMAIN new.slots = {s}

\* A RowID is the page and the slot of a row that is not a tombstone.
ByPage ==
  /\ \A i \in LiveSlots : i = <<i[1], i[2]>>
  /\ \A q, u : <<q, u>> \in LiveSlots <=>
       /\ q \in DOMAIN disk /\ u \in DOMAIN Content(q).slots
       /\ Content(q).slots[u].len > 0

LEMMA RowsByPage == HInv => ByPage
<1> SUFFICES ASSUME HInv PROVE ByPage
  OBVIOUS
<1>1. ASSUME NEW q \in DOMAIN disk, NEW u \in DOMAIN Content(q).slots
      PROVE  u \in 1 .. MaxSlots
  <2>1. Content(q) \in Pages(Val \cup {NoValue}) /\ PageSound(Content(q))
    BY DiskDomain DEF PageT
  <2>2. Len(Content(q).slots) \in Nat /\ DOMAIN Content(q).slots = 1 .. Len(Content(q).slots)
    BY <2>1, PageFields
  <2>3. Len(Content(q).slots) <= MaxSlots
    BY <2>1, SlotsBounded DEF MaxSlots
  <2>4. MaxSlots \in Int
    BY PageAssumption DEF MaxSlots
  <2> QED
    BY <2>2, <2>3, <2>4
<1>2. \A i \in LiveSlots : i = <<i[1], i[2]>>
  BY DEF LiveSlots
<1>3. ASSUME NEW q, NEW u
      PROVE  <<q, u>> \in LiveSlots <=>
               /\ q \in DOMAIN disk /\ u \in DOMAIN Content(q).slots
               /\ Content(q).slots[u].len > 0
  BY <1>1 DEF LiveSlots
<1> QED
  BY <1>2, <1>3 DEF ByPage

\* Every other row stays, with its bytes.
LEMMA OtherRows ==
  ASSUME HInv, HInv', NEW p, NEW s, NEW new, OneRow(p, s, new), NEW i, i # <<p, s>>
  PROVE  /\ i \in LiveSlots' <=> i \in LiveSlots
         /\ i \in LiveSlots => RowAt(i)' = RowAt(i)
<1>1. /\ \A j \in LiveSlots : j = <<j[1], j[2]>>
      /\ \A q, u : <<q, u>> \in LiveSlots <=>
           /\ q \in DOMAIN disk /\ u \in DOMAIN Content(q).slots
           /\ Content(q).slots[u].len > 0
  BY RowsByPage DEF ByPage
<1>2. /\ \A j \in LiveSlots' : j = <<j[1], j[2]>>
      /\ \A q, u : <<q, u>> \in LiveSlots' <=>
           /\ q \in DOMAIN disk' /\ u \in DOMAIN Content(q)'.slots
           /\ Content(q)'.slots[u].len > 0
  <2>1. ByPage'
    BY RowsByPage, PTL
  <2> QED
    BY <2>1 DEF ByPage
<1>3. ASSUME NEW q, NEW u, <<q, u>> # <<p, s>>
      PROVE  /\ <<q, u>> \in LiveSlots' <=> <<q, u>> \in LiveSlots
             /\ <<q, u>> \in LiveSlots => RowAt(<<q, u>>)' = RowAt(<<q, u>>)
  <2>1. /\ Content(p)' = new /\ DOMAIN disk' = DOMAIN disk \cup {p}
        /\ \A r \in DOMAIN disk \ {p} : Content(r)' = Content(r)
    BY DEF OneRow, Changes
  <2>2. CASE q # p
    BY <1>1, <1>2, <2>1, <2>2 DEF RowAt
  <2>3. CASE q = p /\ p \in DOMAIN disk
    <3>1. u # s
      BY <1>3, <2>3
    <3>2. /\ u \in DOMAIN new.slots <=> u \in DOMAIN Content(p).slots
          /\ u \in DOMAIN new.slots => new.slots[u] = Content(p).slots[u]
      BY <2>3, <3>1 DEF OneRow
    <3> QED
      BY <1>1, <1>2, <2>1, <2>3, <3>2 DEF RowAt
  <2>4. CASE q = p /\ p \notin DOMAIN disk
    <3>1. u \notin DOMAIN new.slots
      BY <1>3, <2>4 DEF OneRow
    <3> QED
      BY <1>1, <1>2, <2>1, <2>4, <3>1
  <2> QED
    BY <2>2, <2>3, <2>4
<1>4. CASE i = <<i[1], i[2]>>
  BY <1>3, <1>4
<1>5. CASE i # <<i[1], i[2]>>
  BY <1>1, <1>2, <1>5
<1> QED
  BY <1>4, <1>5

\* Row <<p, s>> itself is there afterwards when its slot is not a tombstone.
LEMMA ThisRow ==
  ASSUME HInv, HInv', NEW p, NEW s, NEW new, OneRow(p, s, new)
  PROVE  /\ <<p, s>> \in LiveSlots' <=> new.slots[s].len > 0
         /\ RowAt(<<p, s>>)' = <<new.slots[s].len, new.slots[s].val>>
         /\ <<p, s>> \in (1 .. MaxPages) \X (1 .. MaxSlots)
<1>1. \A q, u : <<q, u>> \in LiveSlots' <=>
        /\ q \in DOMAIN disk' /\ u \in DOMAIN Content(q)'.slots
        /\ Content(q)'.slots[u].len > 0
  <2>1. ByPage'
    BY RowsByPage, PTL
  <2> QED
    BY <2>1 DEF ByPage
<1>2. Content(p)' = new /\ p \in DOMAIN disk' /\ s \in DOMAIN new.slots
  BY DEF OneRow, Changes
<1>3. s \in 1 .. MaxSlots
  <2>1. new \in Pages(Val \cup {NoValue}) /\ PageSound(new)
    BY DEF OneRow, PageT
  <2>2. Len(new.slots) \in Nat /\ DOMAIN new.slots = 1 .. Len(new.slots)
    BY <2>1, PageFields
  <2>3. Len(new.slots) <= MaxSlots
    BY <2>1, SlotsBounded DEF MaxSlots
  <2>4. MaxSlots \in Int
    BY PageAssumption DEF MaxSlots
  <2> QED
    BY <1>2, <2>2, <2>3, <2>4
<1>4. p \in 1 .. MaxPages
  <2>1. Len(disk') \in Nat /\ Len(disk') <= MaxPages /\ DOMAIN disk' = 1 .. Len(disk')
    BY DEF HInv, HTypeOK
  <2> QED
    BY <1>2, <2>1, PoolAssumption
<1> QED
  BY <1>1, <1>2, <1>3, <1>4 DEF RowAt

LEMMA RowMapRows == rowMap = [i \in LiveSlots |-> RowAt(i)]
BY DEF rowMap, RowAt, PageGet

LEMMA SameRows ==
  ASSUME HInv, HInv', Same
  PROVE  rowMap' = rowMap
<1>1. DOMAIN disk' = DOMAIN disk
  BY DEF Same, HInv, HTypeOK
<1>2. LiveSlots' = LiveSlots
  BY <1>1 DEF LiveSlots, Same
<1>3. \A i \in LiveSlots : i[1] \in DOMAIN disk
  BY DEF LiveSlots
<1>4. \A i \in LiveSlots : RowAt(i)' = RowAt(i)
  BY <1>3 DEF RowAt, Same
<1>5. rowMap' = [i \in LiveSlots' |-> RowAt(i)']
  BY DEF rowMap, RowAt, PageGet
<1> QED
  BY <1>2, <1>4, <1>5, RowMapRows

LEMMA AddsRow ==
  ASSUME HInv, HInv', NEW p, NEW old, NEW len, NEW val, Adds(p, old, len, val)
  PROVE  Rows!Next
<1> DEFINE i == <<p, Len(old.slots) + 1>>
<1>1. PICK new : new = PageInsert(old, len, val)
  OBVIOUS
<1>2. PICK n : n = Len(old.slots)
  OBVIOUS
<1>3. len \in Nat \ {0} /\ len \in RowLen /\ val \in Val /\ old \in PageT /\ PageSound(old)
  BY PoolAssumption DEF Adds
<1>4. /\ new \in PageT /\ n \in Nat /\ DOMAIN old.slots = 1 .. n
      /\ DOMAIN new.slots = 1 .. n + 1
      /\ new.slots[n + 1].len = len /\ new.slots[n + 1].val = val
      /\ \A u \in 1 .. n : new.slots[u] = old.slots[u]
  <2>1. old \in Pages(Val \cup {NoValue}) /\ val \in Val \cup {NoValue} /\ Fits(old, len) /\ len \in Nat
    BY <1>3 DEF PageT, Adds
  <2>2. /\ new \in Pages(Val \cup {NoValue}) /\ n \in Nat /\ DOMAIN old.slots = 1 .. n
        /\ DOMAIN new.slots = 1 .. n + 1
        /\ new.slots[n + 1] = [off |-> old.free - len, len |-> len, val |-> val]
        /\ \A u \in 1 .. n : new.slots[u] = old.slots[u]
    BY <1>1, <1>2, <1>3, <2>1, InsertedSlots
  <2> QED
    BY <2>2 DEF PageT
<1>5. PageSound(new)
  BY <1>1, <1>3, InsertedPage DEF Adds
<1>6. OneRow(p, n + 1, new)
  <2>1. Changes(p, new) /\ (p \in DOMAIN disk => old = Content(p))
        /\ (p \notin DOMAIN disk => old = NewPage)
    BY <1>1 DEF Adds
  <2>2. p \notin DOMAIN disk => n = 0
    BY <1>2, <2>1 DEF NewPage
  <2>3. p \notin DOMAIN disk => DOMAIN new.slots = {n + 1}
    BY <1>4, <2>2
  <2>4. DOMAIN new.slots \ {n + 1} = DOMAIN old.slots \ {n + 1}
        /\ \A u \in DOMAIN new.slots \ {n + 1} : new.slots[u] = old.slots[u]
    BY <1>4
  <2>5. n + 1 \in DOMAIN new.slots
    BY <1>4
  <2> QED
    BY <1>4, <1>5, <2>1, <2>3, <2>4, <2>5 DEF OneRow
<1>7. /\ i \in LiveSlots' /\ RowAt(i)' = <<len, val>>
      /\ i \in (1 .. MaxPages) \X (1 .. MaxSlots)
  BY <1>2, <1>3, <1>4, <1>6, ThisRow
<1>8. i \notin LiveSlots
  <2>1. p \in DOMAIN disk => old = Content(p)
    BY DEF Adds
  <2>2. n + 1 \notin DOMAIN old.slots
    BY <1>4
  <2> QED
    BY <1>2, <2>1, <2>2, RowsByPage DEF ByPage
<1>9. \A j : j # i => /\ j \in LiveSlots' <=> j \in LiveSlots
                      /\ j \in LiveSlots => RowAt(j)' = RowAt(j)
  BY <1>2, <1>6, OtherRows
<1> HIDE DEF i
<1>10. LiveSlots' = LiveSlots \cup {i}
  BY <1>7, <1>8, <1>9
<1>11. rowMap' = [j \in LiveSlots' |-> RowAt(j)']
  BY DEF rowMap, RowAt, PageGet
<1>12. rowMap' = [j \in LiveSlots \cup {i} |-> IF j = i THEN <<len, val>> ELSE rowMap[j]]
  BY <1>7, <1>8, <1>9, <1>10, <1>11, RowMapRows
<1>13. DOMAIN rowMap = LiveSlots
  BY RowMapRows
<1>14. Rows!Insert(i, <<len, val>>)
  BY <1>8, <1>12, <1>13 DEF Rows!Insert
<1>15. <<len, val>> \in RowLen \X Val
  BY <1>3
<1> QED
  BY <1>7, <1>14, <1>15 DEF Rows!Next

LEMMA OverwritesRow ==
  ASSUME HInv, HInv', NEW p, NEW s, NEW len, NEW val, Overwrites(p, s, len, val)
  PROVE  Rows!Next
<1> DEFINE i == <<p, s>>
<1>1. PICK new : new = PageUpdate(Content(p), s, len, val)
  OBVIOUS
<1>2. /\ p \in DOMAIN disk /\ s \in DOMAIN Content(p).slots
      /\ len \in RowLen /\ val \in Val /\ len > 0 /\ UpdateFits(Content(p), s, len)
      /\ Changes(p, new)
  BY <1>1, PoolAssumption DEF Overwrites
<1>3. Content(p) \in PageT /\ PageSound(Content(p))
  BY <1>2, DiskDomain
<1>4. /\ new \in PageT /\ PageSound(new)
      /\ DOMAIN new.slots = DOMAIN Content(p).slots
      /\ new.slots[s].len = len /\ new.slots[s].val = val /\ Content(p).slots[s].len > 0
      /\ \A u \in DOMAIN Content(p).slots \ {s} : new.slots[u] = Content(p).slots[u]
  BY <1>1, <1>2, <1>3, UpdatedPage
<1>5. OneRow(p, s, new)
  BY <1>2, <1>4 DEF OneRow
<1>6. /\ i \in LiveSlots' /\ RowAt(i)' = <<len, val>>
      /\ i \in (1 .. MaxPages) \X (1 .. MaxSlots)
  BY <1>2, <1>4, <1>5, ThisRow
<1>7. i \in LiveSlots
  BY <1>2, <1>4, RowsByPage DEF ByPage
<1>8. \A j : j # i => /\ j \in LiveSlots' <=> j \in LiveSlots
                      /\ j \in LiveSlots => RowAt(j)' = RowAt(j)
  BY <1>5, OtherRows
<1> HIDE DEF i
<1>9. LiveSlots' = LiveSlots
  BY <1>6, <1>7, <1>8
<1>10. rowMap' = [j \in LiveSlots' |-> RowAt(j)']
  BY DEF rowMap, RowAt, PageGet
<1>11. rowMap' = [rowMap EXCEPT ![i] = <<len, val>>] /\ DOMAIN rowMap = LiveSlots
  BY <1>6, <1>7, <1>8, <1>9, <1>10, RowMapRows
<1>12. Rows!Update(i, <<len, val>>)
  BY <1>7, <1>11 DEF Rows!Update
<1>13. <<len, val>> \in RowLen \X Val
  BY <1>2
<1> QED
  BY <1>6, <1>12, <1>13 DEF Rows!Next

\* Deleting a tombstone again changes no row.
LEMMA ErasesRow ==
  ASSUME HInv, HInv', NEW p, NEW s, Erases(p, s)
  PROVE  Rows!Next \/ rowMap' = rowMap
<1> DEFINE i == <<p, s>>
<1>1. PICK new : new = PageDelete(Content(p), s)
  OBVIOUS
<1>2. p \in DOMAIN disk /\ s \in DOMAIN Content(p).slots /\ Changes(p, new)
  BY <1>1 DEF Erases
<1>3. Content(p) \in PageT /\ PageSound(Content(p))
  BY <1>2, DiskDomain
<1>4. /\ new \in PageT /\ PageSound(new)
      /\ DOMAIN new.slots = DOMAIN Content(p).slots
      /\ new.slots[s].len = 0
      /\ \A u \in DOMAIN Content(p).slots \ {s} : new.slots[u] = Content(p).slots[u]
  BY <1>1, <1>2, <1>3, DeletedPage
<1>5. OneRow(p, s, new)
  BY <1>2, <1>4 DEF OneRow
<1>6. i \notin LiveSlots' /\ i \in (1 .. MaxPages) \X (1 .. MaxSlots)
  BY <1>4, <1>5, ThisRow
<1>7. \A j : j # i => /\ j \in LiveSlots' <=> j \in LiveSlots
                      /\ j \in LiveSlots => RowAt(j)' = RowAt(j)
  BY <1>5, OtherRows
<1> HIDE DEF i
<1>8. LiveSlots' = LiveSlots \ {i}
  BY <1>6, <1>7
<1>9. rowMap' = [j \in LiveSlots' |-> RowAt(j)']
  BY DEF rowMap, RowAt, PageGet
<1>10. rowMap' = [j \in LiveSlots \ {i} |-> rowMap[j]] /\ DOMAIN rowMap = LiveSlots
  BY <1>7, <1>8, <1>9, RowMapRows
<1>11. CASE i \in LiveSlots
  <2>1. Rows!Delete(i)
    BY <1>10, <1>11 DEF Rows!Delete
  <2> QED
    BY <1>6, <2>1 DEF Rows!Next
<1>12. CASE i \notin LiveSlots
  <2>1. LiveSlots \ {i} = LiveSlots
    BY <1>12
  <2> QED
    BY <1>10, <2>1, RowMapRows
<1> QED
  BY <1>11, <1>12

\* Pages, slots, pool and file implement the map from RowIDs to rows that the
\* engine relies on: eviction, flushing and reopening are invisible, an insert
\* takes a fresh RowID, update and delete touch their own row only.
THEOREM HeapFileImplementsRowStore == Spec => ImplementsRowStore
<1>1. Init => Rows!Init
  <2> SUFFICES ASSUME Init PROVE Rows!Init
    OBVIOUS
  <2>1. DOMAIN disk = {}
    BY DEF Init
  <2>2. LiveSlots = {}
    BY <2>1 DEF LiveSlots
  <2> QED
    BY <2>2 DEF Rows!Init, rowMap
<1>2. HInv /\ HInv' /\ [Next]_hvars => [Rows!Next]_rowMap
  <2> SUFFICES ASSUME HInv, HInv', [Next]_hvars PROVE Rows!Next \/ rowMap' = rowMap
    OBVIOUS
  <2>1. Effect
    BY NextSound DEF Sound
  <2> QED
    BY <2>1, SameRows, AddsRow, OverwritesRow, ErasesRow DEF Effect
<1> QED
  BY <1>1, <1>2, HInvAlways, PTL DEF Spec, ImplementsRowStore, Rows!Spec
=============================================================================
