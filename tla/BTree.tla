-------------------------------- MODULE BTree --------------------------------
(***************************************************************************)
(* One secondary index (src/storage/btree.go, btree_insert.go and          *)
(* Engine.CreateIndex): a B+-tree of pages, filled from the existing rows  *)
(* when it is created and by every INSERT and UPDATE from then on.         *)
(*                                                                         *)
(* An internal node cannot be split (splitInternalNode is a stub that      *)
(* returns an error), so a tree is a leaf, or a root over leaves.  RowIDs  *)
(* are numbers in the order of arrival.  Keys are integers: the pages hold *)
(* no other type.  Nothing is removed from an index by any statement.      *)
(***************************************************************************)
EXTENDS Integers, Sequences, FiniteSets

CONSTANTS Key,          \* indexed values, integers
          MaxKeys,      \* keys at which a node is split (250)
          MaxRows,      \* bound: rows of the table
          MaxBackfill   \* bound: rows present when the index is created

ASSUME TreeAssumption ==
  /\ Key \subseteq Int
  /\ MaxKeys \in Nat /\ MaxKeys >= 2
  /\ MaxRows \in Nat /\ MaxBackfill \in Nat

VARIABLES rows,    \* the heap: RowID -> key
          nodes,   \* index pages: page id -> node
          root,    \* the catalog's root page of this index
          phase,   \* "none", "building", "blocked" or "ready"
          filled,  \* rows that CreateIndex has put into the index
          failed   \* some insertion has met a root that cannot be split

tvars == <<rows, nodes, root, phase, filled, failed>>

NoLeaf == -1

NewLeafNode(keys, ptrs, next) ==
  [leaf |-> TRUE, keys |-> keys, ptrs |-> ptrs, next |-> next]

NewInternalNode(keys, ptrs) ==
  [leaf |-> FALSE, keys |-> keys, ptrs |-> ptrs, next |-> NoLeaf]

(***************************************************************************)
(* Searching                                                               *)
(***************************************************************************)

\* Keys passed before the first one greater than k.
leading(keys, k) ==
  CHOOSE n \in 0 .. Len(keys) :
    /\ \A i \in 1 .. n : keys[i] <= k
    /\ n = Len(keys) \/ keys[n + 1] > k

\* Mutant: the descent goes one child too far to the left.
findLeafLeft(k) ==
  IF nodes[root].leaf THEN root
  ELSE nodes[root].ptrs[IF leading(nodes[root].keys, k) = 0 THEN 1 ELSE leading(nodes[root].keys, k)]

\* The leaf that holds k or should: right of every separator not above k.
findLeaf(k) ==
  IF nodes[root].leaf THEN root ELSE nodes[root].ptrs[leading(nodes[root].keys, k) + 1]

\* What the iterator takes from leaf p: the rows of k that come before the
\* first key above k, and whether it goes on to the next leaf.
Hits(p, k) ==
  {nodes[p].ptrs[i] : i \in {j \in 1 .. leading(nodes[p].keys, k) : nodes[p].keys[j] = k}}

GoesOn(p, k) ==
  leading(nodes[p].keys, k) = Len(nodes[p].keys) /\ nodes[p].next # NoLeaf

\* The leaves the iterator visits, in order: a leaf, and the next one for as
\* long as it goes on.
Visits(k) ==
  LET visit[n \in 1 .. Cardinality(DOMAIN nodes)] ==
        IF n = 1 THEN <<findLeaf(k)>>
        ELSE LET path == visit[n - 1]
             IN  IF GoesOn(path[Len(path)], k)
                 THEN Append(path, nodes[path[Len(path)]].next)
                 ELSE path
  IN  visit[Cardinality(DOMAIN nodes)]

\* Mutant: the iterator returns nothing of a leaf it goes on from.
SeekLastOnly(k) == Hits(Visits(k)[Len(Visits(k))], k)

\* The RowIDs SeekIndex and its iterator return for k, before visibility.
SeekIndex(k) == UNION {Hits(Visits(k)[n], k) : n \in DOMAIN Visits(k)}

(***************************************************************************)
(* Inserting                                                               *)
(***************************************************************************)

InsertedAt(s, n, x) == SubSeq(s, 1, n) \o <<x>> \o SubSeq(s, n + 1, Len(s))

\* After the equal keys; in an internal node the new child goes to the right
\* of its key.
insertIntoNodeArrays(node, k, ptr) ==
  LET n == leading(node.keys, k)
  IN  [node EXCEPT !.keys = InsertedAt(@, n, k),
                   !.ptrs = InsertedAt(@, IF node.leaf THEN n ELSE n + 1, ptr)]

\* Mutant: a node is split one key too early.
OverflowsEarly(node) == Len(node.keys) >= MaxKeys - 1

Overflows(node) == Len(node.keys) >= MaxKeys

allocateIndexPage == Cardinality(DOMAIN nodes) + 1

Half(node) == Len(node.keys) \div 2

\* splitLeafNode: the lower half, linked to the new right sibling ...
LeftHalf(node, right) ==
  NewLeafNode(SubSeq(node.keys, 1, Half(node)), SubSeq(node.ptrs, 1, Half(node)), right)

\* Mutant: the right half starts one entry too late.
RightHalfShort(node) ==
  NewLeafNode(SubSeq(node.keys, Half(node) + 2, Len(node.keys)),
              SubSeq(node.ptrs, Half(node) + 2, Len(node.ptrs)), node.next)

\* ... and the upper half.
RightHalf(node) ==
  NewLeafNode(SubSeq(node.keys, Half(node) + 1, Len(node.keys)),
              SubSeq(node.ptrs, Half(node) + 1, Len(node.ptrs)), node.next)

WithNodes(more) == [p \in DOMAIN nodes \cup DOMAIN more |->
                      IF p \in DOMAIN more THEN more[p] ELSE nodes[p]]

\* InsertIntoIndex of row id with key k.  `locked` says that the caller holds
\* the engine's mutex: createNewRoot takes it again.
InsertIntoIndex(k, id, locked) ==
  LET p     == findLeaf(k)
      full  == insertIntoNodeArrays(nodes[p], k, id)
      right == allocateIndexPage
      left2 == LeftHalf(full, right)
      rite2 == RightHalf(full)
      upKey == rite2.keys[1]
      up    == insertIntoNodeArrays(nodes[root], upKey, right)
  IN  \/ /\ ~Overflows(full)
         /\ nodes' = [nodes EXCEPT ![p] = full]
         /\ UNCHANGED <<root, failed>>
         /\ phase' = phase
      \/ /\ Overflows(full)
         /\ p = root
         /\ nodes' = WithNodes([q \in {p, right, right + 1} |->
                       IF q = p THEN left2 ELSE IF q = right THEN rite2
                       ELSE NewInternalNode(<<upKey>>, <<p, right>>)])
         /\ root' = IF locked THEN root ELSE right + 1
         /\ phase' = IF locked THEN "blocked" ELSE phase
         /\ UNCHANGED failed
      \/ /\ Overflows(full)
         /\ p # root
         /\ ~Overflows(up)
         /\ nodes' = WithNodes([q \in {p, right, root} |->
                       IF q = p THEN left2 ELSE IF q = right THEN rite2 ELSE up])
         /\ UNCHANGED <<root, failed>>
         /\ phase' = phase
      \/ /\ Overflows(full)
         /\ p # root
         /\ Overflows(up)
         /\ nodes' = WithNodes([q \in {p, right} |-> IF q = p THEN left2 ELSE rite2])
         /\ failed' = TRUE
         /\ UNCHANGED root
         /\ phase' = phase

(***************************************************************************)
(* Actions                                                                 *)
(***************************************************************************)

Init ==
  /\ rows = <<>>
  /\ nodes = [p \in {} |-> NewLeafNode(<<>>, <<>>, NoLeaf)]
  /\ root = NoLeaf
  /\ phase = "none"
  /\ filled = 0
  /\ failed = FALSE

\* Engine.Insert before there is an index.
InsertPlain(k) ==
  /\ phase = "none"
  /\ Len(rows) < MaxBackfill
  /\ rows' = Append(rows, k)
  /\ UNCHANGED <<nodes, root, phase, filled, failed>>

\* Engine.Insert, or the new version of Engine.Update.
InsertIndexed(k) ==
  /\ phase = "ready"
  /\ Len(rows) < MaxRows
  /\ rows' = Append(rows, k)
  /\ InsertIntoIndex(k, Len(rows) + 1, FALSE)
  /\ UNCHANGED filled

\* Engine.CreateIndex takes the engine's mutex and writes an empty root.
CreateIndex ==
  /\ phase = "none"
  /\ nodes' = [p \in {1} |-> NewLeafNode(<<>>, <<>>, NoLeaf)]
  /\ root' = 1
  /\ phase' = "building"
  /\ UNCHANGED <<rows, filled, failed>>

\* Its loop: the next row of the raw scan, mutex held.
BackfillRow ==
  /\ phase = "building"
  /\ filled < Len(rows)
  /\ filled' = filled + 1
  /\ InsertIntoIndex(rows[filled + 1], filled + 1, TRUE)
  /\ UNCHANGED rows

\* Its end: save the catalog and release the mutex.
FinishIndex ==
  /\ phase = "building"
  /\ filled = Len(rows)
  /\ phase' = "ready"
  /\ UNCHANGED <<rows, nodes, root, filled, failed>>

Next ==
  \/ \E k \in Key : InsertPlain(k) \/ InsertIndexed(k)
  \/ CreateIndex
  \/ BackfillRow
  \/ FinishIndex

\* CreateIndex is one call: once begun it goes on for as long as it can.
Fairness == WF_tvars(BackfillRow) /\ WF_tvars(FinishIndex)

Spec == Init /\ [][Next]_tvars /\ Fairness

(***************************************************************************)
(* Properties                                                              *)
(***************************************************************************)

Indexed == IF phase = "ready" THEN DOMAIN rows ELSE 1 .. filled

\* The leaves from the leftmost on, along the links.
Chain ==
  LET walk[n \in 1 .. Cardinality(DOMAIN nodes)] ==
        IF n = 1 THEN <<1>>
        ELSE LET path == walk[n - 1]
             IN  IF nodes[path[Len(path)]].next # NoLeaf
                 THEN Append(path, nodes[path[Len(path)]].next)
                 ELSE path
  IN  walk[Cardinality(DOMAIN nodes)]

\* The linked leaves hold every indexed row exactly once, under its own key,
\* through any sequence of splits; an insertion that ends in "tree too large"
\* loses none either, because both halves are written before the error.
ChainHoldsAll ==
  phase # "none" =>
    LET entries == {e \in (DOMAIN Chain) \X (1 .. MaxKeys) : e[2] \in DOMAIN nodes[Chain[e[1]]].keys}
    IN  /\ \A id \in Indexed : \E e \in entries :
             /\ nodes[Chain[e[1]]].ptrs[e[2]] = id
             /\ nodes[Chain[e[1]]].keys[e[2]] = rows[id]
        /\ Cardinality(entries) = Cardinality(Indexed)

Leaves == {p \in DOMAIN nodes : nodes[p].leaf}

LeafKeys(p) == {nodes[p].keys[i] : i \in DOMAIN nodes[p].keys}

\* A leaf boundary lies between equal keys.  The descent goes right of a
\* separator equal to its key, so it misses the entries on the left; and when
\* that left leaf is split at the same key again, the parent takes the new leaf
\* for the right neighbour of the old one, so that the parent and the links
\* disagree on the order of the leaves.
Straddled == \E p, q \in Leaves : p # q /\ LeafKeys(p) \cap LeafKeys(q) # {}

\* As long as no insertion has failed and equal keys share a leaf, keys grow
\* along the linked leaves, so the iterator may stop at the first key above the
\* one it seeks.
ChainSorted ==
  phase # "none" /\ ~failed /\ ~Straddled =>
    \A m, n \in DOMAIN Chain : \A i \in DOMAIN nodes[Chain[m]].keys,
                                  j \in DOMAIN nodes[Chain[n]].keys :
      m < n \/ (m = n /\ i < j) => nodes[Chain[m]].keys[i] <= nodes[Chain[n]].keys[j]

\* A seek returns rows of its key only, and all of them as long as no insertion
\* has failed and equal keys share a leaf, however the tree has grown.
SeekExact ==
  phase = "ready" =>
    \A k \in Key :
      LET all == {id \in DOMAIN rows : rows[id] = k}
      IN  /\ SeekIndex(k) \subseteq all
          /\ ~failed /\ ~Straddled => SeekIndex(k) = all

\* DESIGN.md's "an iterator over exactly the rows where id = 5", for every tree
\* whose insertions have all succeeded.
SeekFindsAll ==
  phase = "ready" /\ ~failed =>
    \A k \in Key : SeekIndex(k) = {id \in DOMAIN rows : rows[id] = k}

\* An index build over rows that fit in one leaf ends, with every row indexed.
\* Over more rows it splits the root while it holds the mutex that createNewRoot
\* takes, and stays "blocked".
BuildCompletes ==
  phase = "building" /\ Len(rows) < MaxKeys ~> phase = "ready"

\* storage/README.md's "CreateIndex performs a raw scan ... to ensure all physical
\* rows are indexed": a build ends, whatever the number of rows.
BuildAlwaysCompletes == phase = "building" ~> phase = "ready"
=============================================================================
