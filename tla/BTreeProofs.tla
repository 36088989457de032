---------------------------- MODULE BTreeProofs ----------------------------
(***************************************************************************)
(* Theorems about BTree for every set of keys, every node size and any     *)
(* number of rows.                                                         *)
(***************************************************************************)
EXTENDS BTree, FiniteSetTheorems, WellFoundedInduction, TLAPS

(***************************************************************************)
(* Numbers, sequences and positions                                        *)
(***************************************************************************)

\* A set of natural numbers has a least member; this is what stands in for
\* induction below.
LEMMA LeastNumber ==
  ASSUME NEW S, S \subseteq Nat, S # {}
  PROVE  \E x \in S : \A y \in S : x <= y
<1>1. PICK R : R = OpToRel(<, Nat)
  OBVIOUS
<1>2. \A x, y \in Nat : <<y, x>> \in R <=> y < x
  BY <1>1 DEF OpToRel
<1>3. IsWellFoundedOn(R, Nat)
  BY <1>1, NatLessThanWellFounded
<1>4. PICK x \in S : \A y \in S : ~(<<y, x>> \in R)
  BY <1>3, WFMin
<1>5. ASSUME NEW y \in S PROVE x <= y
  <2>1. x \in Nat /\ y \in Nat
    OBVIOUS
  <2>2. ~(<<y, x>> \in R)
    BY <1>4
  <2>3. ~(y < x)
    BY <1>2, <2>1, <2>2, Zenon
  <2> QED
    BY <2>1, <2>3
<1> QED
  BY <1>5

\* The elements of a concatenation.
LEMMA ConcatFacts ==
  ASSUME NEW S, NEW a \in Seq(S), NEW b \in Seq(S), NEW r, r = a \o b
  PROVE  /\ r \in Seq(S) /\ Len(r) = Len(a) + Len(b)
         /\ \A i \in 1 .. Len(a) : r[i] = a[i]
         /\ \A i \in 1 .. Len(b) : r[Len(a) + i] = b[i]
<1>1. r \in Seq(S) /\ Len(r) = Len(a) + Len(b)
  OBVIOUS
<1>2. \A i \in 1 .. Len(a) : r[i] = a[i]
  OBVIOUS
<1>3. \A i \in 1 .. Len(b) : r[Len(a) + i] = b[i]
  OBVIOUS
<1> QED
  BY <1>1, <1>2, <1>3

\* Sequence r over S is s with x put in after position n.
Inserted(S, r, s, n, x) ==
  /\ r \in Seq(S) /\ Len(r) = Len(s) + 1
  /\ \A i \in 1 .. n : r[i] = s[i]
  /\ r[n + 1] = x
  /\ \A i \in n + 1 .. Len(s) : r[i + 1] = s[i]

\* InsertedAt puts one element in and moves the later ones up.
LEMMA InsertedAtFacts ==
  ASSUME NEW S, NEW s \in Seq(S), NEW x \in S, NEW n \in 0 .. Len(s)
  PROVE  Inserted(S, InsertedAt(s, n, x), s, n, x)
<1>0. PICK r : r = InsertedAt(s, n, x)
  OBVIOUS
<1>1. PICK m \in Nat : m = Len(s)
  OBVIOUS
<1>2. PICK a : a = SubSeq(s, 1, n)
  OBVIOUS
<1>3. PICK b : b = SubSeq(s, n + 1, m)
  OBVIOUS
<1>4. n \in Nat /\ n <= m
  BY <1>1
<1>5. a \in Seq(S) /\ Len(a) = n /\ \A i \in 1 .. n : a[i] = s[i]
  BY <1>1, <1>2, <1>4
<1>6. b \in Seq(S) /\ Len(b) = m - n /\ \A i \in 1 .. m - n : b[i] = s[n + i]
  BY <1>1, <1>3, <1>4
<1>7. PICK ax : ax = a \o <<x>>
  OBVIOUS
<1>8. ax \in Seq(S) /\ Len(ax) = n + 1 /\ ax[n + 1] = x /\ \A i \in 1 .. n : ax[i] = s[i]
  BY <1>4, <1>5, <1>7, SMTT(40)
<1>9. r = ax \o b
  BY <1>0, <1>1, <1>2, <1>3, <1>7 DEF InsertedAt
<1>10. /\ r \in Seq(S) /\ Len(r) = m + 1
       /\ \A i \in 1 .. n + 1 : r[i] = ax[i]
       /\ \A i \in 1 .. m - n : r[n + 1 + i] = b[i]
  <2>1. PICK q \in Nat : q = Len(ax) /\ q = n + 1
    BY <1>4, <1>8
  <2>2. PICK l \in Nat : l = Len(b) /\ l = m - n
    BY <1>4, <1>6
  <2>3. /\ r \in Seq(S) /\ Len(r) = q + l
        /\ \A i \in 1 .. q : r[i] = ax[i]
        /\ \A i \in 1 .. l : r[q + i] = b[i]
    <3>1. ax \in Seq(S) /\ b \in Seq(S)
      BY <1>6, <1>8
    <3>2. /\ r \in Seq(S) /\ Len(r) = Len(ax) + Len(b)
          /\ \A i \in 1 .. Len(ax) : r[i] = ax[i]
          /\ \A i \in 1 .. Len(b) : r[Len(ax) + i] = b[i]
      BY <1>9, <3>1, ConcatFacts
    <3> QED
      BY <2>1, <2>2, <3>2, Zenon
  <2>4. q + l = m + 1
    BY <1>4, <2>1, <2>2
  <2> QED
    BY <2>1, <2>2, <2>3, <2>4
<1>11. ASSUME NEW i \in n + 1 .. m PROVE r[i + 1] = s[i]
  <2>1. i - n \in 1 .. m - n /\ n + 1 + (i - n) = i + 1 /\ n + (i - n) = i
    BY <1>4
  <2>2. r[n + 1 + (i - n)] = b[i - n] /\ b[i - n] = s[n + (i - n)]
    BY <1>6, <1>10, <2>1
  <2> QED
    BY <2>1, <2>2, Zenon
<1>12. /\ \A i \in 1 .. n : r[i] = s[i]
       /\ r[n + 1] = x
  BY <1>4, <1>8, <1>10
<1>13. Inserted(S, r, s, n, x)
  BY <1>1, <1>10, <1>11, <1>12 DEF Inserted
<1> QED
  BY <1>0, <1>13

\* The position of k among keys: everything before it is at most k, and what
\* comes next is greater.
IsLeading(keys, k, n) ==
  /\ n \in 0 .. Len(keys)
  /\ \A i \in 1 .. n : keys[i] <= k
  /\ n = Len(keys) \/ keys[n + 1] > k

\* The position that leading chooses exists, even if keys are not sorted.
LEMMA LeadingIs ==
  ASSUME NEW keys \in Seq(Int), NEW k \in Int
  PROVE  IsLeading(keys, k, leading(keys, k))
<1>1. PICK m \in Nat : m = Len(keys)
  OBVIOUS
<1>2. \E n \in 0 .. m : (\A i \in 1 .. n : keys[i] <= k) /\ (n = m \/ keys[n + 1] > k)
  <2> DEFINE S == {n \in Nat : n + 1 \in 1 .. m /\ keys[n + 1] > k}
  <2>1. CASE S = {}
    <3>1. \A i \in 1 .. m : keys[i] <= k
      <4>1. ASSUME NEW i \in 1 .. m PROVE keys[i] <= k
        <5>1. i - 1 \in Nat /\ (i - 1) + 1 = i
          OBVIOUS
        <5>2. i - 1 \notin S
          BY <2>1, Zenon
        <5>3. ~(keys[i] > k) /\ keys[i] \in Int
          BY <1>1, <5>1, <5>2
        <5> QED
          BY <5>3
      <4> QED
        BY <4>1
    <3> QED
      BY <3>1
  <2>2. CASE S # {}
    <3>1. PICK n \in S : \A y \in S : n <= y
      BY <2>2, LeastNumber
    <3>2. n \in 0 .. m /\ keys[n + 1] > k
      BY <3>1
    <3>3. ASSUME NEW i \in 1 .. n PROVE keys[i] <= k
      <4>1. i - 1 \in Nat /\ (i - 1) + 1 = i /\ ~(n <= i - 1) /\ i \in 1 .. m
        BY <3>1, <3>2
      <4>2. i - 1 \notin S
        BY <3>1, <4>1
      <4>3. ~(keys[i] > k) /\ keys[i] \in Int
        BY <1>1, <4>1, <4>2
      <4> QED
        BY <4>3
    <3> QED
      BY <3>2, <3>3
  <2> QED
    BY <2>1, <2>2
<1> QED
  BY <1>1, <1>2 DEF leading, IsLeading

\* There is no other such position.
LEMMA LeadingUnique ==
  ASSUME NEW keys \in Seq(Int), NEW k \in Int, NEW n, IsLeading(keys, k, n)
  PROVE  leading(keys, k) = n
<1>1. PICK m : m = leading(keys, k)
  OBVIOUS
<1>2. IsLeading(keys, k, m)
  BY <1>1, LeadingIs
<1>3. \A i \in 1 .. Len(keys) : keys[i] \in Int
  OBVIOUS
<1>4. Len(keys) \in Nat /\ m \in 0 .. Len(keys) /\ n \in 0 .. Len(keys)
  BY <1>2 DEF IsLeading
<1>5. ~(m < n)
  <2> SUFFICES ASSUME m < n PROVE FALSE
    OBVIOUS
  <2>1. m + 1 \in 1 .. n /\ m + 1 \in 1 .. Len(keys) /\ m # Len(keys)
    BY <1>4
  <2> QED
    BY <1>2, <1>3, <2>1 DEF IsLeading
<1>6. ~(n < m)
  <2> SUFFICES ASSUME n < m PROVE FALSE
    OBVIOUS
  <2>1. n + 1 \in 1 .. m /\ n + 1 \in 1 .. Len(keys) /\ n # Len(keys)
    BY <1>4
  <2> QED
    BY <1>2, <1>3, <2>1 DEF IsLeading
<1> QED
  BY <1>1, <1>4, <1>5, <1>6

(***************************************************************************)
(* Leaves                                                                  *)
(***************************************************************************)

NodeT == [leaf : BOOLEAN, keys : Seq(Int), ptrs : Seq(Nat), next : Int]

KeysOf(nd) == {nd.keys[i] : i \in DOMAIN nd.keys}

RowsOf(nd) == {nd.ptrs[i] : i \in DOMAIN nd.keys}

\* A leaf over the rows R: sorted, every row once and under its own key.
LeafOK(nd, R) ==
  /\ nd \in NodeT /\ nd.leaf /\ Len(nd.ptrs) = Len(nd.keys)
  /\ \A i, j \in DOMAIN nd.keys : i < j => nd.keys[i] <= nd.keys[j]
  /\ \A i, j \in DOMAIN nd.keys : nd.ptrs[i] = nd.ptrs[j] => i = j
  /\ \A i \in DOMAIN nd.keys : nd.ptrs[i] \in DOMAIN R /\ R[nd.ptrs[i]] = nd.keys[i]

\* What insertIntoNodeArrays makes of the fields of a node.
LEMMA InsertedFields ==
  ASSUME NEW nd \in NodeT, NEW k \in Int, NEW ptr \in Nat, NEW r, r = insertIntoNodeArrays(nd, k, ptr)
  PROVE  /\ r.leaf = nd.leaf /\ r.next = nd.next
         /\ r.keys = InsertedAt(nd.keys, leading(nd.keys, k), k)
         /\ r.ptrs = InsertedAt(nd.ptrs, IF nd.leaf THEN leading(nd.keys, k) ELSE leading(nd.keys, k) + 1, ptr)
         /\ r = [leaf |-> r.leaf, keys |-> r.keys, ptrs |-> r.ptrs, next |-> r.next]
BY DEF insertIntoNodeArrays, NodeT

\* It does not turn a leaf into an internal node, whatever it inserts.
LEMMA InsertedLeaf ==
  ASSUME NEW nd \in NodeT, NEW k, NEW ptr, NEW r, r = insertIntoNodeArrays(nd, k, ptr)
  PROVE  r.leaf = nd.leaf
BY DEF insertIntoNodeArrays, NodeT

\* A leaf that takes in a new row stays sorted and gains that row only.
LEMMA LeafInsert ==
  ASSUME NEW R, NEW nd, LeafOK(nd, R), NEW k \in Int, NEW id \in DOMAIN R, id \in Nat, R[id] = k,
         id \notin RowsOf(nd), NEW r, r = insertIntoNodeArrays(nd, k, id)
  PROVE  /\ LeafOK(r, R) /\ Len(r.keys) = Len(nd.keys) + 1 /\ r.next = nd.next
         /\ KeysOf(r) = KeysOf(nd) \cup {k}
         /\ RowsOf(r) = RowsOf(nd) \cup {id}
<1>1. nd \in NodeT /\ nd.leaf /\ nd.keys \in Seq(Int) /\ nd.ptrs \in Seq(Nat) /\ nd.next \in Int
  BY DEF LeafOK, NodeT
<1>2. PICK m \in Nat : m = Len(nd.keys) /\ m = Len(nd.ptrs) /\ DOMAIN nd.keys = 1 .. m
  BY <1>1 DEF LeafOK
<1>3. PICK n : n = leading(nd.keys, k)
  OBVIOUS
<1>4. /\ n \in 0 .. m
      /\ \A i \in 1 .. n : nd.keys[i] <= k
      /\ n = m \/ nd.keys[n + 1] > k
  BY <1>1, <1>2, <1>3, LeadingIs DEF IsLeading
<1>5. /\ r.leaf /\ r.next = nd.next
      /\ r.keys = InsertedAt(nd.keys, n, k) /\ r.ptrs = InsertedAt(nd.ptrs, n, id)
      /\ r = [leaf |-> r.leaf, keys |-> r.keys, ptrs |-> r.ptrs, next |-> r.next]
  BY <1>1, <1>3, InsertedFields
<1>6. /\ r.keys \in Seq(Int) /\ Len(r.keys) = m + 1
      /\ \A i \in 1 .. n : r.keys[i] = nd.keys[i]
      /\ r.keys[n + 1] = k
      /\ \A i \in n + 1 .. m : r.keys[i + 1] = nd.keys[i]
  <2>1. PICK s \in Seq(Int) : s = nd.keys /\ m = Len(s)
    BY <1>1, <1>2
  <2>2. n \in 0 .. Len(s)
    BY <1>4, <2>1
  <2>3. Inserted(Int, InsertedAt(s, n, k), s, n, k)
    BY <2>2, InsertedAtFacts, Zenon
  <2>4. r.keys = InsertedAt(s, n, k)
    BY <1>5, <2>1
  <2>5. PICK q : q = r.keys /\ Inserted(Int, q, s, n, k)
    BY <2>3, <2>4
  <2> QED
    BY <2>1, <2>5 DEF Inserted
<1>7. /\ r.ptrs \in Seq(Nat) /\ Len(r.ptrs) = m + 1
      /\ \A i \in 1 .. n : r.ptrs[i] = nd.ptrs[i]
      /\ r.ptrs[n + 1] = id
      /\ \A i \in n + 1 .. m : r.ptrs[i + 1] = nd.ptrs[i]
  <2>1. PICK s \in Seq(Nat) : s = nd.ptrs /\ m = Len(s)
    BY <1>1, <1>2
  <2>2. n \in 0 .. Len(s)
    BY <1>4, <2>1
  <2>3. Inserted(Nat, InsertedAt(s, n, id), s, n, id)
    BY <2>2, InsertedAtFacts, Zenon
  <2>4. r.ptrs = InsertedAt(s, n, id)
    BY <1>5, <2>1
  <2>5. PICK q : q = r.ptrs /\ Inserted(Nat, q, s, n, id)
    BY <2>3, <2>4
  <2> QED
    BY <2>1, <2>5 DEF Inserted
<1>8. DOMAIN r.keys = 1 .. m + 1 /\ r \in NodeT
  <2>1. DOMAIN r.keys = 1 .. m + 1
    BY <1>6
  <2>2. r.leaf \in BOOLEAN
    BY <1>1, InsertedFields DEF NodeT
  <2>3. [leaf |-> r.leaf, keys |-> r.keys, ptrs |-> r.ptrs, next |-> r.next] \in NodeT
    BY <1>1, <1>5, <1>6, <1>7, <2>2 DEF NodeT
  <2> QED
    BY <1>5, <2>1, <2>3
\* Where the entries of the new leaf come from.
<1> DEFINE old(i) == IF i <= n THEN i ELSE i - 1
<1>9. ASSUME NEW i \in 1 .. m + 1, i # n + 1
      PROVE  /\ old(i) \in 1 .. m
             /\ r.keys[i] = nd.keys[old(i)] /\ r.ptrs[i] = nd.ptrs[old(i)]
  <2>1. CASE i <= n
    <3>1. i \in 1 .. n /\ old(i) = i /\ i \in 1 .. m
      BY <1>4, <2>1
    <3> QED
      BY <1>6, <1>7, <3>1
  <2>2. CASE ~(i <= n)
    <3>1. i - 1 \in n + 1 .. m /\ (i - 1) + 1 = i /\ old(i) = i - 1 /\ i - 1 \in 1 .. m
      BY <1>4, <1>9, <2>2
    <3> QED
      BY <1>6, <1>7, <3>1, ZenonT(40)
  <2> QED
    BY <2>1, <2>2
<1>10. ASSUME NEW j \in 1 .. m
       PROVE  \E i \in 1 .. m + 1 : i # n + 1 /\ r.keys[i] = nd.keys[j] /\ r.ptrs[i] = nd.ptrs[j]
  <2>1. CASE j <= n
    <3>1. j \in 1 .. n /\ j \in 1 .. m + 1 /\ j # n + 1
      BY <1>4, <2>1
    <3> QED
      BY <1>6, <1>7, <3>1
  <2>2. CASE ~(j <= n)
    <3>1. j \in n + 1 .. m /\ j + 1 \in 1 .. m + 1 /\ j + 1 # n + 1
      BY <1>4, <2>2
    <3> QED
      BY <1>6, <1>7, <3>1
  <2> QED
    BY <2>1, <2>2
<1>11. n + 1 \in 1 .. m + 1
  BY <1>4
<1>12. KeysOf(r) = KeysOf(nd) \cup {k}
  <2>1. ASSUME NEW i \in 1 .. m + 1 PROVE r.keys[i] \in KeysOf(nd) \cup {k}
    <3>1. CASE i = n + 1
      BY <1>6, <3>1
    <3>2. CASE i # n + 1
      BY <1>2, <1>9, <3>2, Zenon DEF KeysOf
    <3> QED
      BY <3>1, <3>2
  <2>2. k \in KeysOf(r)
    BY <1>6, <1>8, <1>11 DEF KeysOf
  <2>3. ASSUME NEW j \in 1 .. m PROVE nd.keys[j] \in KeysOf(r)
    BY <1>8, <1>10, Zenon DEF KeysOf
  <2>4. KeysOf(r) = {r.keys[i] : i \in 1 .. m + 1} /\ KeysOf(nd) = {nd.keys[i] : i \in 1 .. m}
    BY <1>2, <1>8 DEF KeysOf
  <2> QED
    BY <2>1, <2>2, <2>3, <2>4
<1>13. RowsOf(r) = RowsOf(nd) \cup {id}
  <2>1. ASSUME NEW i \in 1 .. m + 1 PROVE r.ptrs[i] \in RowsOf(nd) \cup {id}
    <3>1. CASE i = n + 1
      BY <1>7, <3>1
    <3>2. CASE i # n + 1
      BY <1>2, <1>9, <3>2, Zenon DEF RowsOf
    <3> QED
      BY <3>1, <3>2
  <2>2. id \in RowsOf(r)
    BY <1>7, <1>8, <1>11 DEF RowsOf
  <2>3. ASSUME NEW j \in 1 .. m PROVE nd.ptrs[j] \in RowsOf(r)
    BY <1>8, <1>10, Zenon DEF RowsOf
  <2>4. RowsOf(r) = {r.ptrs[i] : i \in 1 .. m + 1} /\ RowsOf(nd) = {nd.ptrs[i] : i \in 1 .. m}
    BY <1>2, <1>8 DEF RowsOf
  <2> QED
    BY <2>1, <2>2, <2>3, <2>4
<1>14. \A i \in 1 .. m : nd.ptrs[i] # id
  BY <1>2 DEF RowsOf
<1>15. ASSUME NEW i \in 1 .. m + 1, NEW j \in 1 .. m + 1, r.ptrs[i] = r.ptrs[j] PROVE i = j
  <2>1. CASE i = n + 1
    BY <1>7, <1>9, <1>14, <1>15, <2>1
  <2>2. CASE j = n + 1
    BY <1>7, <1>9, <1>14, <1>15, <2>2, ZenonT(40)
  <2>3. CASE i # n + 1 /\ j # n + 1
    <3>1. /\ old(i) \in 1 .. m /\ old(j) \in 1 .. m
          /\ nd.ptrs[old(i)] = nd.ptrs[old(j)]
      BY <1>9, <1>15, <2>3
    <3>2. old(i) = old(j)
      BY <1>2, <3>1 DEF LeafOK
    <3> QED
      BY <1>4, <2>3, <3>2
  <2> QED
    BY <2>1, <2>2, <2>3
<1>16. \A i, j \in 1 .. m : i < j => nd.keys[i] <= nd.keys[j]
  BY <1>2 DEF LeafOK
<1>17. \A i \in 1 .. m : nd.keys[i] \in Int
  BY <1>1, <1>2
<1>18. ASSUME NEW i \in n + 1 .. m PROVE k <= nd.keys[i]
  <2>1. n + 1 \in 1 .. m /\ nd.keys[n + 1] > k /\ i \in 1 .. m
    BY <1>4
  <2>2. nd.keys[n + 1] <= nd.keys[i]
    <3>1. CASE i = n + 1
      BY <1>17, <2>1, <3>1
    <3>2. CASE i # n + 1
      BY <1>4, <1>16, <2>1, <3>2
    <3> QED
      BY <3>1, <3>2
  <2> QED
    BY <1>17, <2>1, <2>2
<1>19. ASSUME NEW i \in 1 .. m + 1, NEW j \in 1 .. m + 1, i < j PROVE r.keys[i] <= r.keys[j]
  <2>1. CASE i = n + 1
    <3>1. old(j) \in n + 1 .. m /\ j # n + 1
      BY <1>4, <1>19, <2>1
    <3> QED
      BY <1>6, <1>9, <1>18, <2>1, <3>1
  <2>2. CASE j = n + 1
    <3>1. i \in 1 .. n
      BY <1>4, <1>19, <2>2
    <3> QED
      BY <1>4, <1>6, <2>2, <3>1
  <2>3. CASE i # n + 1 /\ j # n + 1
    <3>1. old(i) \in 1 .. m /\ old(j) \in 1 .. m /\ old(i) < old(j)
      BY <1>4, <1>9, <1>19, <2>3
    <3>2. nd.keys[old(i)] <= nd.keys[old(j)]
      BY <1>16, <3>1
    <3> QED
      BY <1>9, <2>3, <3>2
  <2> QED
    BY <2>1, <2>2, <2>3
<1>20. ASSUME NEW i \in 1 .. m + 1 PROVE r.ptrs[i] \in DOMAIN R /\ R[r.ptrs[i]] = r.keys[i]
  <2>1. CASE i = n + 1
    BY <1>6, <1>7, <2>1
  <2>2. CASE i # n + 1
    BY <1>2, <1>9, <2>2, SMTT(40) DEF LeafOK
  <2> QED
    BY <2>1, <2>2
<1>21. LeafOK(r, R)
  BY <1>5, <1>6, <1>7, <1>8, <1>15, <1>19, <1>20 DEF LeafOK
<1> QED
  BY <1>2, <1>5, <1>6, <1>12, <1>13, <1>21

\* Sequence r over S is the part of s after position a, up to position b.
IsSub(S, r, s, a, b) ==
  /\ r \in Seq(S) /\ Len(r) = b - a
  /\ \A i \in 1 .. b - a : r[i] = s[a + i]

\* SubSeq cuts out a part.
LEMMA SubSeqFacts ==
  ASSUME NEW S, NEW s \in Seq(S), NEW a \in Nat, NEW b \in Nat, a <= b, b <= Len(s)
  PROVE  IsSub(S, SubSeq(s, a + 1, b), s, a, b)
BY DEF IsSub

\* Leaf q is the part of leaf f after position a, up to position b.
Part(q, f, a, b) ==
  /\ q \in NodeT /\ q.leaf
  /\ Len(q.keys) = b - a /\ Len(q.ptrs) = b - a
  /\ \A i \in 1 .. b - a : q.keys[i] = f.keys[a + i] /\ q.ptrs[i] = f.ptrs[a + i]

\* A part of a leaf is a leaf with the entries of that part.
LEMMA PartOK ==
  ASSUME NEW R, NEW f, LeafOK(f, R), NEW a \in Nat, NEW b \in Nat, a <= b, b <= Len(f.keys),
         NEW q, Part(q, f, a, b)
  PROVE  /\ LeafOK(q, R) /\ DOMAIN q.keys = 1 .. b - a
         /\ KeysOf(q) = {f.keys[i] : i \in a + 1 .. b}
         /\ RowsOf(q) = {f.ptrs[i] : i \in a + 1 .. b}
<1>1. f.keys \in Seq(Int) /\ q.keys \in Seq(Int) /\ f.ptrs \in Seq(Nat) /\ q.ptrs \in Seq(Nat)
  BY DEF LeafOK, Part, NodeT
<1>2. PICK m \in Nat : m = Len(f.keys) /\ DOMAIN f.keys = 1 .. m /\ b <= m
  BY <1>1
<1>3. Len(q.keys) = b - a /\ DOMAIN q.keys = 1 .. b - a /\ Len(q.ptrs) = Len(q.keys)
  BY <1>1 DEF Part
<1>4. \A i \in 1 .. b - a : a + i \in 1 .. m /\ a + i \in a + 1 .. b
  BY <1>2
<1>5. \A i \in 1 .. b - a : q.keys[i] = f.keys[a + i] /\ q.ptrs[i] = f.ptrs[a + i]
  BY DEF Part
<1>6. \A i \in a + 1 .. b : i - a \in 1 .. b - a /\ a + (i - a) = i
  OBVIOUS
<1>7. KeysOf(q) = {f.keys[i] : i \in a + 1 .. b}
  <2>1. KeysOf(q) = {q.keys[i] : i \in 1 .. b - a}
    BY <1>3 DEF KeysOf
  <2>2. ASSUME NEW i \in a + 1 .. b PROVE f.keys[i] \in KeysOf(q)
    <3>1. f.keys[i] = q.keys[i - a] /\ i - a \in 1 .. b - a
      BY <1>5, <1>6
    <3> QED
      BY <2>1, <3>1
  <2>3. ASSUME NEW i \in 1 .. b - a PROVE q.keys[i] \in {f.keys[j] : j \in a + 1 .. b}
    BY <1>4, <1>5
  <2> QED
    BY <2>1, <2>2, <2>3
<1>8. RowsOf(q) = {f.ptrs[i] : i \in a + 1 .. b}
  <2>1. RowsOf(q) = {q.ptrs[i] : i \in 1 .. b - a}
    BY <1>3 DEF RowsOf
  <2>2. ASSUME NEW i \in a + 1 .. b PROVE f.ptrs[i] \in RowsOf(q)
    <3>1. f.ptrs[i] = q.ptrs[i - a] /\ i - a \in 1 .. b - a
      BY <1>5, <1>6
    <3> QED
      BY <2>1, <3>1
  <2>3. ASSUME NEW i \in 1 .. b - a PROVE q.ptrs[i] \in {f.ptrs[j] : j \in a + 1 .. b}
    BY <1>4, <1>5
  <2> QED
    BY <2>1, <2>2, <2>3
<1>9. ASSUME NEW i \in 1 .. b - a, NEW j \in 1 .. b - a, i < j PROVE q.keys[i] <= q.keys[j]
  <2>1. a + i \in 1 .. m /\ a + j \in 1 .. m
    BY <1>4
  <2>2. a + i < a + j
    BY <1>9
  <2>3. f.keys[a + i] <= f.keys[a + j]
    BY <1>2, <2>1, <2>2 DEF LeafOK
  <2> QED
    BY <1>5, <2>3
<1>10. ASSUME NEW i \in 1 .. b - a, NEW j \in 1 .. b - a, q.ptrs[i] = q.ptrs[j] PROVE i = j
  <2>1. a + i \in 1 .. m /\ a + j \in 1 .. m /\ f.ptrs[a + i] = f.ptrs[a + j]
    BY <1>4, <1>5, <1>10
  <2>2. a + i = a + j
    BY <1>2, <2>1 DEF LeafOK
  <2> QED
    BY <2>2
<1>11. \A i \in 1 .. b - a : q.ptrs[i] \in DOMAIN R /\ R[q.ptrs[i]] = q.keys[i]
  BY <1>2, <1>4, <1>5, SMTT(40) DEF LeafOK
<1>12. LeafOK(q, R)
  <2>1. q \in NodeT /\ q.leaf
    BY DEF Part
  <2> QED
    BY <1>3, <1>9, <1>10, <1>11, <2>1 DEF LeafOK
<1> QED
  BY <1>3, <1>7, <1>8, <1>12

\* What splitLeafNode does to the entries of a leaf.
LEMMA LeafSplit ==
  ASSUME NEW R, NEW f, LeafOK(f, R), Len(f.keys) >= 2, NEW right \in Nat,
         NEW l, l = LeftHalf(f, right), NEW q, q = RightHalf(f)
  PROVE  /\ LeafOK(l, R) /\ LeafOK(q, R)
         /\ l.next = right /\ q.next = f.next
         /\ Len(l.keys) < Len(f.keys) /\ Len(q.keys) < Len(f.keys)
         /\ KeysOf(l) \cup KeysOf(q) = KeysOf(f)
         /\ RowsOf(l) \cup RowsOf(q) = RowsOf(f) /\ RowsOf(l) \cap RowsOf(q) = {}
         /\ \A x \in KeysOf(l), y \in KeysOf(q) : x <= y
         /\ q.keys[1] \in KeysOf(q) /\ \A y \in KeysOf(q) : q.keys[1] <= y
<1>1. f.keys \in Seq(Int) /\ f.ptrs \in Seq(Nat) /\ f.next \in Int
  BY DEF LeafOK, NodeT
<1>2. PICK m \in Nat : m = Len(f.keys) /\ m = Len(f.ptrs) /\ m >= 2 /\ DOMAIN f.keys = 1 .. m
  BY <1>1 DEF LeafOK
<1>3. PICK h : h = Half(f)
  OBVIOUS
<1>4. h \in Nat /\ 1 <= h /\ h < m
  <2>1. h = m \div 2
    BY <1>2, <1>3 DEF Half
  <2>2. m \in Nat /\ m >= 2
    BY <1>2
  <2>3. 2 * (m \div 2) <= m /\ m < 2 * (m \div 2) + 2 /\ m \div 2 \in Int
    BY <2>2
  <2> QED
    BY <2>1, <2>2, <2>3
<1>5. /\ l = [leaf |-> TRUE, keys |-> SubSeq(f.keys, 0 + 1, h), ptrs |-> SubSeq(f.ptrs, 0 + 1, h), next |-> right]
      /\ q = [leaf |-> TRUE, keys |-> SubSeq(f.keys, h + 1, m), ptrs |-> SubSeq(f.ptrs, h + 1, m), next |-> f.next]
  BY <1>2, <1>3 DEF LeftHalf, RightHalf, NewLeafNode
<1>6. Part(l, f, 0, h)
  <2>1. IsSub(Int, SubSeq(f.keys, 0 + 1, h), f.keys, 0, h)
    <3>1. 0 \in Nat /\ h \in Nat /\ 0 <= h /\ h <= Len(f.keys)
      BY <1>2, <1>4
    <3> QED
      BY <1>1, <3>1, SubSeqFacts, Zenon
  <2>2. IsSub(Nat, SubSeq(f.ptrs, 0 + 1, h), f.ptrs, 0, h)
    <3>1. 0 \in Nat /\ h \in Nat /\ 0 <= h /\ h <= Len(f.ptrs)
      BY <1>2, <1>4
    <3> QED
      BY <1>1, <3>1, SubSeqFacts, Zenon
  <2>3. IsSub(Int, l.keys, f.keys, 0, h) /\ IsSub(Nat, l.ptrs, f.ptrs, 0, h) /\ l.leaf
    BY <1>5, <2>1, <2>2
  <2>4. l \in NodeT
    <3>1. l.keys \in Seq(Int) /\ l.ptrs \in Seq(Nat)
      BY <2>3 DEF IsSub
    <3>2. l = [leaf |-> TRUE, keys |-> l.keys, ptrs |-> l.ptrs, next |-> l.next] /\ l.next \in Int
      BY <1>1, <1>5
    <3>3. [leaf |-> TRUE, keys |-> l.keys, ptrs |-> l.ptrs, next |-> l.next] \in NodeT
      BY <3>1, <3>2 DEF NodeT
    <3> QED
      BY <3>2, <3>3
  <2> QED
    BY <2>3, <2>4 DEF Part, IsSub
<1>7. Part(q, f, h, m)
  <2>1. IsSub(Int, SubSeq(f.keys, h + 1, m), f.keys, h, m)
    <3>1. h \in Nat /\ m \in Nat /\ h <= m /\ m <= Len(f.keys)
      BY <1>2, <1>4
    <3> QED
      BY <1>1, <3>1, SubSeqFacts, Zenon
  <2>2. IsSub(Nat, SubSeq(f.ptrs, h + 1, m), f.ptrs, h, m)
    <3>1. h \in Nat /\ m \in Nat /\ h <= m /\ m <= Len(f.ptrs)
      BY <1>2, <1>4
    <3> QED
      BY <1>1, <3>1, SubSeqFacts, Zenon
  <2>3. IsSub(Int, q.keys, f.keys, h, m) /\ IsSub(Nat, q.ptrs, f.ptrs, h, m) /\ q.leaf
    BY <1>5, <2>1, <2>2
  <2>4. q \in NodeT
    <3>1. q.keys \in Seq(Int) /\ q.ptrs \in Seq(Nat)
      BY <2>3 DEF IsSub
    <3>2. q = [leaf |-> TRUE, keys |-> q.keys, ptrs |-> q.ptrs, next |-> q.next] /\ q.next \in Int
      BY <1>1, <1>5
    <3>3. [leaf |-> TRUE, keys |-> q.keys, ptrs |-> q.ptrs, next |-> q.next] \in NodeT
      BY <3>1, <3>2 DEF NodeT
    <3> QED
      BY <3>2, <3>3
  <2> QED
    BY <2>3, <2>4 DEF Part, IsSub
<1>8. /\ LeafOK(l, R) /\ DOMAIN l.keys = 1 .. h
      /\ KeysOf(l) = {f.keys[i] : i \in 1 .. h} /\ RowsOf(l) = {f.ptrs[i] : i \in 1 .. h}
  <2>1. 0 \in Nat /\ 0 <= h /\ h <= Len(f.keys)
    BY <1>2, <1>4
  <2>2. /\ LeafOK(l, R) /\ DOMAIN l.keys = 1 .. h - 0
        /\ KeysOf(l) = {f.keys[i] : i \in 0 + 1 .. h}
        /\ RowsOf(l) = {f.ptrs[i] : i \in 0 + 1 .. h}
    BY <1>4, <1>6, <2>1, PartOK
  <2>3. h - 0 = h /\ 0 + 1 = 1
    BY <1>4
  <2> QED
    BY <2>2, <2>3
<1>9. /\ LeafOK(q, R) /\ DOMAIN q.keys = 1 .. m - h
      /\ KeysOf(q) = {f.keys[i] : i \in h + 1 .. m} /\ RowsOf(q) = {f.ptrs[i] : i \in h + 1 .. m}
  <2>1. h <= m /\ m <= Len(f.keys)
    BY <1>2, <1>4
  <2> QED
    BY <1>4, <1>7, <2>1, PartOK
<1>10. 1 .. m = (1 .. h) \cup (h + 1 .. m) /\ (1 .. h) \cap (h + 1 .. m) = {}
  BY <1>4
<1>11. KeysOf(l) \cup KeysOf(q) = KeysOf(f) /\ RowsOf(l) \cup RowsOf(q) = RowsOf(f)
  <2>1. KeysOf(f) = {f.keys[i] : i \in 1 .. m} /\ RowsOf(f) = {f.ptrs[i] : i \in 1 .. m}
    BY <1>2 DEF KeysOf, RowsOf
  <2> QED
    BY <1>8, <1>9, <1>10, <2>1, ZenonT(40)
<1>12. RowsOf(l) \cap RowsOf(q) = {}
  <2>1. ASSUME NEW i \in 1 .. h, NEW j \in h + 1 .. m PROVE f.ptrs[i] # f.ptrs[j]
    <3>1. i \in 1 .. m /\ j \in 1 .. m /\ i # j
      BY <1>4
    <3> QED
      BY <1>2, <3>1 DEF LeafOK
  <2> QED
    BY <1>8, <1>9, <2>1
<1>13. ASSUME NEW i \in 1 .. h, NEW j \in h + 1 .. m PROVE f.keys[i] <= f.keys[j]
  <2>1. i \in 1 .. m /\ j \in 1 .. m /\ i < j
    BY <1>4
  <2> QED
    BY <1>2, <2>1 DEF LeafOK
<1>14. \A x \in KeysOf(l), y \in KeysOf(q) : x <= y
  BY <1>8, <1>9, <1>13
<1>15. 1 \in DOMAIN q.keys
  BY <1>4, <1>9
<1>16. q.keys[1] \in KeysOf(q)
  BY <1>15 DEF KeysOf
<1>17. ASSUME NEW y \in KeysOf(q) PROVE q.keys[1] <= y
  <2>1. PICK i \in DOMAIN q.keys : y = q.keys[i]
    BY DEF KeysOf
  <2>2. i \in 1 .. m - h /\ q.keys[1] \in Int
    <3>1. q.keys \in Seq(Int)
      BY <1>7 DEF Part, NodeT
    <3>2. \A j \in DOMAIN q.keys : q.keys[j] \in Int
      BY <3>1
    <3> QED
      BY <1>9, <1>15, <2>1, <3>2, Zenon
  <2>3. CASE i = 1
    BY <2>1, <2>2, <2>3
  <2>4. CASE i # 1
    <3>1. 1 < i
      BY <2>2, <2>4
    <3> QED
      BY <1>9, <1>15, <2>1, <3>1 DEF LeafOK
  <2> QED
    BY <2>3, <2>4
<1>18. l.next = right /\ q.next = f.next /\ Len(l.keys) < Len(f.keys) /\ Len(q.keys) < Len(f.keys)
  <2>1. Len(l.keys) = h - 0 /\ Len(q.keys) = m - h
    BY <1>6, <1>7 DEF Part
  <2>2. l.next = right /\ q.next = f.next
    BY <1>5
  <2> QED
    BY <1>2, <1>4, <2>1, <2>2
<1> QED
  BY <1>8, <1>9, <1>11, <1>12, <1>14, <1>16, <1>17, <1>18

\* A leaf stays right when rows are added to the heap.
LEMMA LeafMoreRows ==
  ASSUME NEW R, NEW R2, NEW nd, LeafOK(nd, R),
         \A id \in DOMAIN R : id \in DOMAIN R2 /\ R2[id] = R[id]
  PROVE  LeafOK(nd, R2)
BY DEF LeafOK

(***************************************************************************)
(* The invariant                                                           *)
(***************************************************************************)

IsChain(nd, c) ==
  /\ c \in Seq(Nat) /\ Len(c) >= 1 /\ c[1] = 1
  /\ \A m, n \in DOMAIN c : c[m] = c[n] => m = n
  /\ \A n \in DOMAIN c : c[n] \in DOMAIN nd /\ nd[c[n]].leaf
  /\ \A p \in DOMAIN nd : nd[p].leaf => \E n \in DOMAIN c : c[n] = p
  /\ \A n \in DOMAIN c : nd[c[n]].next = IF n = Len(c) THEN NoLeaf ELSE c[n + 1]

LeavesOK(nd, R) ==
  \A p \in DOMAIN nd : nd[p].leaf => LeafOK(nd[p], R) /\ Len(nd[p].keys) < MaxKeys

\* The leaves share out the rows of I.
RowsOK(nd, I) ==
  /\ \A p, q \in DOMAIN nd : nd[p].leaf /\ nd[q].leaf /\ p # q => RowsOf(nd[p]) \cap RowsOf(nd[q]) = {}
  /\ \A id : id \in I <=> \E p \in DOMAIN nd : nd[p].leaf /\ id \in RowsOf(nd[p])

Straddles(nd) ==
  \E p, q \in DOMAIN nd : nd[p].leaf /\ nd[q].leaf /\ p # q /\ KeysOf(nd[p]) \cap KeysOf(nd[q]) # {}

Ordered(nd, c) ==
  \A m, n \in DOMAIN c : m < n => \A x \in KeysOf(nd[c[m]]), y \in KeysOf(nd[c[n]]) : x < y

RootOK(nd, rt, c) ==
  /\ nd[rt].leaf => Len(c) = 1
  /\ ~nd[rt].leaf =>
       /\ nd[rt] \in NodeT /\ Len(nd[rt].ptrs) = Len(nd[rt].keys) + 1
       /\ \A i \in DOMAIN nd[rt].ptrs : nd[rt].ptrs[i] \in DOMAIN nd /\ nd[nd[rt].ptrs[i]].leaf

\* The separators of the root part the keys of the leaves.
Parts(seps, nd, c) ==
  /\ \A i, j \in DOMAIN seps : i < j => seps[i] <= seps[j]
  /\ \A i \in DOMAIN seps, n \in DOMAIN c : \A x \in KeysOf(nd[c[n]]) :
       (n <= i => x < seps[i]) /\ (i < n => seps[i] <= x)

\* Without failures and straddling, the root lists the leaves in their order.
Separated(nd, rt, c) == ~nd[rt].leaf => nd[rt].ptrs = c /\ Parts(nd[rt].keys, nd, c)

\* N pages whose leaves, in the order of their links, are c, share the rows of
\* I, and under the root rt unless the build is blocked; fl: some insertion has
\* failed.
Shape(nd, rt, I, fl, ph, N, c) ==
  /\ DOMAIN nd = 1 .. N /\ rt \in 1 .. N /\ Len(c) <= N
  /\ IsChain(nd, c)
  /\ RowsOK(nd, I)
  /\ ~fl /\ ~Straddles(nd) => Ordered(nd, c)
  /\ ph # "blocked" =>
       /\ RootOK(nd, rt, c)
       /\ ~fl /\ ~Straddles(nd) => Separated(nd, rt, c)

TreeOK(N, c) ==
  Shape(nodes, root, Indexed, failed, phase, N, c) /\ LeavesOK(nodes, rows)

TreeInv == \E N \in Nat, c \in Seq(Nat) : TreeOK(N, c)

\* The inductive invariant.
TInv ==
  /\ rows \in Seq(Key) /\ filled \in 0 .. Len(rows) /\ failed \in BOOLEAN
  /\ phase \in {"none", "building", "blocked", "ready"}
  /\ phase = "none" => filled = 0
  /\ phase # "none" => TreeInv

(***************************************************************************)
(* One leaf changes                                                        *)
(***************************************************************************)

\* The keys of all leaves but c[m] lie on their side of k.
Around(nd, c, m, k) ==
  \A n \in DOMAIN c : \A x \in KeysOf(nd[c[n]]) : (n < m => x < k) /\ (m < n => k < x)

\* Leaf p takes in key k and row id.
Takes(nd, nd2, p, k, id) ==
  /\ p \in DOMAIN nd /\ DOMAIN nd2 = DOMAIN nd /\ nd[p].leaf /\ nd2[p].leaf
  /\ nd2[p].next = nd[p].next
  /\ KeysOf(nd2[p]) = KeysOf(nd[p]) \cup {k}
  /\ RowsOf(nd2[p]) = RowsOf(nd[p]) \cup {id}
  /\ \A q \in DOMAIN nd \ {p} : nd2[q] = nd[q]

\* A leaf that takes in an entry stays where it is in the chain.
LEMMA TakesKeeps ==
  ASSUME NEW nd, NEW nd2, NEW p, NEW k, NEW id, Takes(nd, nd2, p, k, id)
  PROVE  /\ \A c : IsChain(nd, c) => IsChain(nd2, c)
         /\ \A I : RowsOK(nd, I) /\ id \notin I => RowsOK(nd2, I \cup {id})
         /\ Straddles(nd) => Straddles(nd2)
<1>1. \A q \in DOMAIN nd : nd2[q].leaf <=> nd[q].leaf
  BY DEF Takes
<1>2. ASSUME NEW c, IsChain(nd, c) PROVE IsChain(nd2, c)
  <2>1. \A q \in DOMAIN nd : nd2[q].next = nd[q].next
    BY DEF Takes
  <2>2. DOMAIN nd2 = DOMAIN nd
    BY DEF Takes
  <2> QED
    BY <1>1, <1>2, <2>1, <2>2 DEF IsChain
<1>3. ASSUME NEW I, RowsOK(nd, I), id \notin I PROVE RowsOK(nd2, I \cup {id})
  <2>1. \A q \in DOMAIN nd : nd[q].leaf => id \notin RowsOf(nd[q])
    BY <1>3 DEF RowsOK
  <2>2. ASSUME NEW a \in DOMAIN nd2, NEW b \in DOMAIN nd2, nd2[a].leaf, nd2[b].leaf, a # b
        PROVE  RowsOf(nd2[a]) \cap RowsOf(nd2[b]) = {}
    <3>1. a \in DOMAIN nd /\ b \in DOMAIN nd /\ nd[a].leaf /\ nd[b].leaf
      BY <1>1, <2>2 DEF Takes
    <3>2. RowsOf(nd[a]) \cap RowsOf(nd[b]) = {}
      BY <1>3, <2>2, <3>1 DEF RowsOK
    <3>3. CASE a = p
      BY <2>1, <2>2, <3>1, <3>2, <3>3 DEF Takes
    <3>4. CASE b = p
      BY <2>1, <2>2, <3>1, <3>2, <3>4 DEF Takes
    <3>5. CASE a # p /\ b # p
      BY <3>1, <3>2, <3>5 DEF Takes
    <3> QED
      BY <3>3, <3>4, <3>5
  <2>3. ASSUME NEW x
        PROVE  x \in I \cup {id} <=> \E q \in DOMAIN nd2 : nd2[q].leaf /\ x \in RowsOf(nd2[q])
    <3>1. x \in I <=> \E q \in DOMAIN nd : nd[q].leaf /\ x \in RowsOf(nd[q])
      BY <1>3 DEF RowsOK
    <3>2. ASSUME NEW q \in DOMAIN nd
          PROVE  x \in RowsOf(nd2[q]) <=> x \in RowsOf(nd[q]) \/ (q = p /\ x = id)
      BY DEF Takes
    <3>3. DOMAIN nd2 = DOMAIN nd /\ p \in DOMAIN nd /\ nd[p].leaf
      BY DEF Takes
    <3> QED
      BY <1>1, <3>1, <3>2, <3>3
  <2> QED
    BY <2>2, <2>3 DEF RowsOK
<1>4. ASSUME Straddles(nd) PROVE Straddles(nd2)
  <2>1. \A q \in DOMAIN nd : KeysOf(nd[q]) \subseteq KeysOf(nd2[q])
    BY DEF Takes
  <2>2. DOMAIN nd2 = DOMAIN nd
    BY DEF Takes
  <2>3. PICK a \in DOMAIN nd, b \in DOMAIN nd :
          nd[a].leaf /\ nd[b].leaf /\ a # b /\ KeysOf(nd[a]) \cap KeysOf(nd[b]) # {}
    BY <1>4 DEF Straddles
  <2> QED
    BY <1>1, <2>1, <2>2, <2>3 DEF Straddles
<1> QED
  BY <1>2, <1>3, <1>4

\* Leaves in order stay in order if the new key belongs where it goes.
LEMMA TakesOrdered ==
  ASSUME NEW nd, NEW nd2, NEW c, NEW m \in DOMAIN c, NEW k, NEW id, Takes(nd, nd2, c[m], k, id),
         IsChain(nd, c), Ordered(nd, c), Around(nd, c, m, k)
  PROVE  Ordered(nd2, c)
<1>1. c \in Seq(Nat) /\ DOMAIN c = 1 .. Len(c) /\ Len(c) \in Nat
  BY DEF IsChain
<1>2. \A n \in DOMAIN c : n # m => nd2[c[n]] = nd[c[n]]
  BY DEF IsChain, Takes
<1>3. ASSUME NEW a \in DOMAIN c, NEW b \in DOMAIN c, a < b,
             NEW x \in KeysOf(nd2[c[a]]), NEW y \in KeysOf(nd2[c[b]])
      PROVE  x < y
  <2>1. CASE a = m
    <3>1. b # m /\ y \in KeysOf(nd[c[b]]) /\ m < b
      BY <1>1, <1>2, <1>3, <2>1
    <3>2. x \in KeysOf(nd[c[a]]) \/ x = k
      BY <1>3, <2>1 DEF Takes
    <3> QED
      BY <1>3, <2>1, <3>1, <3>2 DEF Ordered, Around
  <2>2. CASE b = m
    <3>1. a # m /\ x \in KeysOf(nd[c[a]]) /\ a < m
      BY <1>1, <1>2, <1>3, <2>2
    <3>2. y \in KeysOf(nd[c[b]]) \/ y = k
      BY <1>3, <2>2 DEF Takes
    <3> QED
      BY <1>3, <2>2, <3>1, <3>2 DEF Ordered, Around
  <2>3. CASE a # m /\ b # m
    BY <1>2, <1>3, <2>3 DEF Ordered
  <2> QED
    BY <2>1, <2>2, <2>3
<1> QED
  BY <1>3 DEF Ordered

(***************************************************************************)
(* One leaf is split                                                       *)
(***************************************************************************)

\* Leaf p is shared out between itself and the new leaf r to its right; no
\* other leaf changes.
Splits(nd, nd2, p, r) ==
  /\ p \in DOMAIN nd /\ r \notin DOMAIN nd
  /\ DOMAIN nd \subseteq DOMAIN nd2 /\ r \in DOMAIN nd2
  /\ nd[p].leaf /\ nd2[p].leaf /\ nd2[r].leaf
  /\ nd2[p].next = r /\ nd2[r].next = nd[p].next
  /\ KeysOf(nd2[p]) \cup KeysOf(nd2[r]) = KeysOf(nd[p])
  /\ RowsOf(nd2[p]) \cup RowsOf(nd2[r]) = RowsOf(nd[p])
  /\ RowsOf(nd2[p]) \cap RowsOf(nd2[r]) = {}
  /\ \A x \in KeysOf(nd2[p]), y \in KeysOf(nd2[r]) : x <= y
  /\ \A a \in DOMAIN nd \ {p} : nd2[a].leaf <=> nd[a].leaf
  /\ \A a \in DOMAIN nd \ {p} : nd[a].leaf => nd2[a] = nd[a]
  /\ \A a \in DOMAIN nd2 \ (DOMAIN nd \cup {r}) : ~nd2[a].leaf

\* The old position of an element of c2, which is c with r after position m.
Before(m, i) == IF i <= m THEN i ELSE i - 1

Placed(c2, c, m, r) ==
  /\ c2 \in Seq(Nat) /\ Len(c2) = Len(c) + 1 /\ DOMAIN c2 = 1 .. Len(c) + 1
  /\ m + 1 \in DOMAIN c2 /\ c2[m + 1] = r
  /\ \A i \in DOMAIN c2 : i # m + 1 => Before(m, i) \in DOMAIN c /\ c2[i] = c[Before(m, i)]
  /\ \A j \in DOMAIN c : \E i \in DOMAIN c2 : i # m + 1 /\ Before(m, i) = j /\ c2[i] = c[j]

\* Inserted, in terms of the old positions.
LEMMA InsertedPositions ==
  ASSUME NEW c \in Seq(Nat), NEW m \in DOMAIN c, NEW r, NEW c2, Inserted(Nat, c2, c, m, r)
  PROVE  Placed(c2, c, m, r)
<1>1. PICK n \in Nat : n = Len(c) /\ DOMAIN c = 1 .. n
  OBVIOUS
<1>2. c2 \in Seq(Nat) /\ Len(c2) = n + 1 /\ DOMAIN c2 = 1 .. n + 1 /\ m + 1 \in DOMAIN c2 /\ c2[m + 1] = r
  BY <1>1 DEF Inserted
<1>3. /\ \A i \in 1 .. m : c2[i] = c[i]
      /\ \A i \in m + 1 .. n : c2[i + 1] = c[i]
  BY <1>1 DEF Inserted
<1>4. ASSUME NEW i \in 1 .. n + 1, i # m + 1
      PROVE  Before(m, i) \in 1 .. n /\ c2[i] = c[Before(m, i)]
  <2>1. CASE i <= m
    <3>1. i \in 1 .. m /\ Before(m, i) = i /\ i \in 1 .. n
      BY <1>1, <2>1 DEF Before
    <3> QED
      BY <1>3, <3>1
  <2>2. CASE ~(i <= m)
    <3>1. i - 1 \in m + 1 .. n /\ Before(m, i) = i - 1 /\ i - 1 \in 1 .. n /\ (i - 1) + 1 = i
      BY <1>1, <1>4, <2>2 DEF Before
    <3> QED
      BY <1>3, <3>1
  <2> QED
    BY <2>1, <2>2
<1>5. ASSUME NEW j \in 1 .. n
      PROVE  \E i \in 1 .. n + 1 : i # m + 1 /\ Before(m, i) = j /\ c2[i] = c[j]
  <2>1. CASE j <= m
    <3>1. j \in 1 .. m /\ j \in 1 .. n + 1 /\ j # m + 1 /\ Before(m, j) = j
      BY <1>1, <2>1 DEF Before
    <3> QED
      BY <1>3, <3>1
  <2>2. CASE ~(j <= m)
    <3>1. j \in m + 1 .. n /\ j + 1 \in 1 .. n + 1 /\ j + 1 # m + 1 /\ Before(m, j + 1) = j
      BY <1>1, <2>2 DEF Before
    <3> QED
      BY <1>3, <3>1
  <2> QED
    BY <2>1, <2>2
<1> QED
  BY <1>1, <1>2, <1>4, <1>5 DEF Placed

\* The new leaf follows the old one along the links.
LEMMA SplitsChain ==
  ASSUME NEW nd, NEW nd2, NEW c, NEW m \in DOMAIN c, NEW r, Splits(nd, nd2, c[m], r),
         IsChain(nd, c), NEW c2, Inserted(Nat, c2, c, m, r)
  PROVE  IsChain(nd2, c2)
<1>1. c \in Seq(Nat) /\ Len(c) >= 1 /\ c[1] = 1
  BY DEF IsChain
<1>2. PICK n \in Nat : n = Len(c) /\ DOMAIN c = 1 .. n
  BY <1>1
<1>3. /\ c2 \in Seq(Nat) /\ Len(c2) = n + 1 /\ DOMAIN c2 = 1 .. n + 1
      /\ m + 1 \in DOMAIN c2 /\ c2[m + 1] = r
      /\ \A i \in DOMAIN c2 : i # m + 1 => Before(m, i) \in DOMAIN c /\ c2[i] = c[Before(m, i)]
      /\ \A j \in DOMAIN c : \E i \in DOMAIN c2 : i # m + 1 /\ Before(m, i) = j /\ c2[i] = c[j]
  <2>1. Placed(c2, c, m, r)
    BY <1>1, InsertedPositions
  <2> QED
    BY <1>2, <2>1 DEF Placed
<1>4. c2[1] = 1
  BY <1>1, <1>2, <1>3, SMTT(40) DEF Before
<1>5. \A i \in DOMAIN c : c[i] \in DOMAIN nd /\ c[i] # r /\ nd[c[i]].leaf
  BY DEF IsChain, Splits
<1>6. \A i, j \in DOMAIN c : c[i] = c[j] => i = j
  BY DEF IsChain
<1>7. ASSUME NEW i \in DOMAIN c2, NEW j \in DOMAIN c2, c2[i] = c2[j] PROVE i = j
  <2>1. CASE i = m + 1
    BY <1>3, <1>5, <1>7, <2>1
  <2>2. CASE j = m + 1
    BY <1>3, <1>5, <1>7, <2>2
  <2>3. CASE i # m + 1 /\ j # m + 1
    <3>1. Before(m, i) = Before(m, j)
      BY <1>3, <1>6, <1>7, <2>3
    <3>2. m \in Int /\ i \in Int /\ j \in Int
      BY <1>2, <1>3
    <3> QED
      BY <2>3, <3>1, <3>2 DEF Before
  <2> QED
    BY <2>1, <2>2, <2>3
<1>8. ASSUME NEW i \in DOMAIN c2 PROVE c2[i] \in DOMAIN nd2 /\ nd2[c2[i]].leaf
  <2>1. CASE i = m + 1
    BY <1>3, <2>1 DEF Splits
  <2>2. CASE i # m + 1
    BY <1>3, <1>5, <2>2 DEF Splits
  <2> QED
    BY <2>1, <2>2
<1>9. ASSUME NEW p \in DOMAIN nd2, nd2[p].leaf PROVE \E i \in DOMAIN c2 : c2[i] = p
  <2>1. CASE p = r
    BY <1>3, <2>1
  <2>2. CASE p # r
    <3>1. p \in DOMAIN nd /\ nd[p].leaf
      BY <1>9, <2>2 DEF Splits
    <3>2. PICK j \in DOMAIN c : c[j] = p
      BY <3>1 DEF IsChain
    <3> QED
      BY <1>3, <3>2
  <2> QED
    BY <2>1, <2>2
<1>10. ASSUME NEW i \in DOMAIN c2
       PROVE  nd2[c2[i]].next = IF i = Len(c2) THEN NoLeaf ELSE c2[i + 1]
  <2>0. \A j \in DOMAIN c : nd[c[j]].next = IF j = n THEN NoLeaf ELSE c[j + 1]
    BY <1>2 DEF IsChain
  <2>1. CASE i = m + 1
    <3>1. nd2[c2[i]].next = nd[c[m]].next
      BY <1>3, <2>1 DEF Splits
    <3>2. CASE m = n
      BY <1>2, <1>3, <2>0, <2>1, <3>1, <3>2
    <3>3. CASE m # n
      <4>1. m + 2 \in DOMAIN c2 /\ m + 2 # m + 1 /\ Before(m, m + 2) = m + 1 /\ i + 1 = m + 2 /\ i # n + 1
        BY <1>2, <1>3, <2>1, <3>3, SMTT(40) DEF Before
      <4>2. c2[m + 2] = c[m + 1]
        BY <1>3, <4>1
      <4> QED
        BY <1>2, <1>3, <2>0, <3>1, <3>3, <4>1, <4>2
    <3> QED
      BY <3>2, <3>3
  <2>2. CASE i = m
    <3>1. Before(m, i) = m /\ i # m + 1 /\ i + 1 = m + 1 /\ i # n + 1
      BY <1>2, <2>2 DEF Before
    <3>2. c2[i] = c[m] /\ c2[i + 1] = r
      BY <1>3, <3>1
    <3>3. nd2[c2[i]].next = r
      BY <3>2 DEF Splits
    <3> QED
      BY <1>3, <3>1, <3>2, <3>3
  <2>3. CASE i # m + 1 /\ i # m
    <3>1. PICK j \in DOMAIN c : j = Before(m, i) /\ c2[i] = c[j]
      BY <1>3, <2>3
    <3>2. j # m /\ (i = n + 1 <=> j = n)
      BY <1>2, <1>3, <2>3, <3>1, SMTT(40) DEF Before
    <3>3. nd2[c2[i]].next = nd[c[j]].next
      <4>1. c[j] # c[m] /\ c[j] \in DOMAIN nd /\ nd[c[j]].leaf
        BY <1>5, <1>6, <3>2
      <4>2. nd2[c[j]] = nd[c[j]]
        BY <4>1 DEF Splits
      <4> QED
        BY <3>1, <4>2
    <3>4. CASE j = n
      BY <1>3, <2>0, <3>2, <3>3, <3>4
    <3>5. CASE j # n
      <4>1. i + 1 \in DOMAIN c2 /\ i + 1 # m + 1 /\ Before(m, i + 1) = j + 1 /\ i # n + 1
        <5>1. m \in 1 .. n /\ i \in 1 .. n + 1 /\ j \in 1 .. n
          BY <1>2, <1>3
        <5>2. j = Before(m, i)
          BY <3>1
        <5>3. i + 1 \in 1 .. n + 1 /\ i + 1 # m + 1 /\ Before(m, i + 1) = j + 1 /\ i # n + 1
          BY <2>3, <3>2, <3>5, <5>1, <5>2 DEF Before
        <5> QED
          BY <1>3, <5>3
      <4>2. c2[i + 1] = c[j + 1]
        BY <1>3, <4>1
      <4> QED
        BY <1>3, <2>0, <3>3, <3>5, <4>1, <4>2
    <3> QED
      BY <3>4, <3>5
  <2> QED
    BY <2>1, <2>2, <2>3
<1> QED
  BY <1>2, <1>3, <1>4, <1>7, <1>8, <1>9, <1>10, SMTT(40) DEF IsChain

\* A split moves no row out of the leaves, and no key out of a straddling pair.
LEMMA SplitsKeeps ==
  ASSUME NEW nd, NEW nd2, NEW p, NEW r, Splits(nd, nd2, p, r)
  PROVE  /\ \A I : RowsOK(nd, I) => RowsOK(nd2, I)
         /\ Straddles(nd) => Straddles(nd2)
\* The leaf that held the entries of leaf a before the split.
<1> DEFINE src(a) == IF a = r THEN p ELSE a
<1>1. ASSUME NEW a \in DOMAIN nd2, nd2[a].leaf
      PROVE  /\ src(a) \in DOMAIN nd /\ nd[src(a)].leaf
             /\ RowsOf(nd2[a]) \subseteq RowsOf(nd[src(a)])
  <2>1. CASE a = r \/ a = p
    BY <2>1 DEF Splits
  <2>2. CASE a # r /\ a # p
    <3>1. a \in DOMAIN nd /\ nd[a].leaf
      BY <1>1, <2>2 DEF Splits
    <3>2. nd2[a] = nd[a]
      BY <2>2, <3>1 DEF Splits
    <3> QED
      BY <2>2, <3>1, <3>2
  <2> QED
    BY <2>1, <2>2
<1>2. ASSUME NEW a \in DOMAIN nd, nd[a].leaf, a # p
      PROVE  a \in DOMAIN nd2 /\ nd2[a].leaf /\ nd2[a] = nd[a]
  BY <1>2 DEF Splits
<1>3. ASSUME NEW I, RowsOK(nd, I) PROVE RowsOK(nd2, I)
  <2>1. ASSUME NEW a \in DOMAIN nd2, NEW b \in DOMAIN nd2, nd2[a].leaf, nd2[b].leaf, a # b
        PROVE  RowsOf(nd2[a]) \cap RowsOf(nd2[b]) = {}
    <3>1. CASE src(a) = src(b)
      <4>1. (a = p /\ b = r) \/ (a = r /\ b = p)
        BY <2>1, <3>1
      <4> QED
        BY <4>1 DEF Splits
    <3>2. CASE src(a) # src(b)
      <4>1. RowsOf(nd[src(a)]) \cap RowsOf(nd[src(b)]) = {}
        BY <1>1, <1>3, <2>1, <3>2, Zenon DEF RowsOK
      <4>2. RowsOf(nd2[a]) \subseteq RowsOf(nd[src(a)]) /\ RowsOf(nd2[b]) \subseteq RowsOf(nd[src(b)])
        BY <1>1, <2>1
      <4> QED
        BY <4>1, <4>2
    <3> QED
      BY <3>1, <3>2
  <2>2. ASSUME NEW x
        PROVE  x \in I <=> \E a \in DOMAIN nd2 : nd2[a].leaf /\ x \in RowsOf(nd2[a])
    <3>1. x \in I <=> \E a \in DOMAIN nd : nd[a].leaf /\ x \in RowsOf(nd[a])
      BY <1>3 DEF RowsOK
    <3>2. ASSUME NEW a \in DOMAIN nd2, nd2[a].leaf, x \in RowsOf(nd2[a])
          PROVE  \E b \in DOMAIN nd : nd[b].leaf /\ x \in RowsOf(nd[b])
      BY <1>1, <3>2
    <3>3. ASSUME NEW b \in DOMAIN nd, nd[b].leaf, x \in RowsOf(nd[b])
          PROVE  \E a \in DOMAIN nd2 : nd2[a].leaf /\ x \in RowsOf(nd2[a])
      <4>1. CASE b = p
        <5>1. x \in RowsOf(nd2[p]) \/ x \in RowsOf(nd2[r])
          BY <3>3, <4>1 DEF Splits
        <5> QED
          BY <5>1 DEF Splits
      <4>2. CASE b # p
        BY <1>2, <3>3, <4>2
      <4> QED
        BY <4>1, <4>2
    <3> QED
      BY <3>1, <3>2, <3>3
  <2> QED
    BY <2>1, <2>2 DEF RowsOK
<1>4. ASSUME Straddles(nd) PROVE Straddles(nd2)
  <2>1. PICK a \in DOMAIN nd, b \in DOMAIN nd :
          nd[a].leaf /\ nd[b].leaf /\ a # b /\ KeysOf(nd[a]) \cap KeysOf(nd[b]) # {}
    BY <1>4 DEF Straddles
  <2>2. PICK x : x \in KeysOf(nd[a]) /\ x \in KeysOf(nd[b])
    BY <2>1
  \* Where x is found after the split.
  <2>3. ASSUME NEW d \in DOMAIN nd, nd[d].leaf, x \in KeysOf(nd[d])
        PROVE  \E e \in DOMAIN nd2 : nd2[e].leaf /\ x \in KeysOf(nd2[e]) /\ (e = d \/ (d = p /\ e = r))
    <3>1. CASE d = p
      <4>1. x \in KeysOf(nd2[p]) \/ x \in KeysOf(nd2[r])
        BY <2>3, <3>1 DEF Splits
      <4> QED
        BY <3>1, <4>1 DEF Splits
    <3>2. CASE d # p
      BY <1>2, <2>3, <3>2
    <3> QED
      BY <3>1, <3>2
  <2>4. PICK e \in DOMAIN nd2 : nd2[e].leaf /\ x \in KeysOf(nd2[e]) /\ (e = a \/ (a = p /\ e = r))
    BY <2>1, <2>2, <2>3
  <2>5. PICK g \in DOMAIN nd2 : nd2[g].leaf /\ x \in KeysOf(nd2[g]) /\ (g = b \/ (b = p /\ g = r))
    BY <2>1, <2>2, <2>3
  <2>6. e # g
    BY <2>1, <2>4, <2>5 DEF Splits
  <2> QED
    BY <2>4, <2>5, <2>6 DEF Straddles
<1> QED
  BY <1>3, <1>4

\* The keys of a leaf were in the leaf it comes from.
LEMMA SplitsKeys ==
  ASSUME NEW nd, NEW nd2, NEW c, NEW m \in DOMAIN c, NEW r, Splits(nd, nd2, c[m], r),
         IsChain(nd, c), NEW c2, Placed(c2, c, m, r), NEW i \in DOMAIN c2
  PROVE  Before(m, i) \in DOMAIN c /\ KeysOf(nd2[c2[i]]) \subseteq KeysOf(nd[c[Before(m, i)]])
<1>1. c \in Seq(Nat)
  BY DEF IsChain
<1>2. CASE i = m + 1
  <2>1. Before(m, i) = m
    BY <1>1, <1>2 DEF Before
  <2>2. c2[i] = r
    BY <1>2 DEF Placed
  <2> QED
    BY <2>1, <2>2 DEF Splits
<1>3. CASE i # m + 1
  <2>1. PICK j \in DOMAIN c : j = Before(m, i) /\ c2[i] = c[j]
    BY <1>3 DEF Placed
  <2>2. CASE j = m
    BY <2>1, <2>2 DEF Splits
  <2>3. CASE j # m
    <3>1. c[j] # c[m] /\ c[j] \in DOMAIN nd /\ nd[c[j]].leaf
      BY <2>3 DEF IsChain
    <3>2. nd2[c[j]] = nd[c[j]]
      BY <3>1 DEF Splits
    <3> QED
      BY <2>1, <3>2
  <2> QED
    BY <2>2, <2>3, <2>1
<1> QED
  BY <1>2, <1>3

\* A split between different keys keeps the leaves in order.
LEMMA SplitsOrdered ==
  ASSUME NEW nd, NEW nd2, NEW c, NEW m \in DOMAIN c, NEW r, Splits(nd, nd2, c[m], r),
         IsChain(nd, c), NEW c2, Placed(c2, c, m, r), \A n \in DOMAIN c : KeysOf(nd[c[n]]) \subseteq Int,
         Ordered(nd, c), ~Straddles(nd2)
  PROVE  Ordered(nd2, c2)
<1>1. c \in Seq(Nat) /\ DOMAIN c = 1 .. Len(c) /\ Len(c) \in Nat /\ DOMAIN c2 = 1 .. Len(c) + 1
  BY DEF IsChain, Placed
<1>2. ASSUME NEW a \in DOMAIN c2, NEW b \in DOMAIN c2, a < b,
             NEW x \in KeysOf(nd2[c2[a]]), NEW y \in KeysOf(nd2[c2[b]])
      PROVE  x < y
  <2>1. a \in Int /\ b \in Int /\ m \in Int
    BY <1>1
  <2>2. CASE a = m /\ b = m + 1
    <3>1. Before(m, a) = m /\ a # m + 1
      BY <2>1, <2>2 DEF Before
    <3>2. c2[a] = c[m] /\ c2[b] = r
      BY <2>2, <3>1 DEF Placed
    <3>3. x <= y
      BY <1>2, <3>2 DEF Splits
    <3>4. x \in Int /\ y \in Int
      BY <1>2, <3>2 DEF Splits
    <3>5. x # y
      <4>1. c[m] \in DOMAIN nd2 /\ r \in DOMAIN nd2 /\ nd2[c[m]].leaf /\ nd2[r].leaf /\ c[m] # r
        BY DEF Splits
      <4> QED
        BY <1>2, <3>2, <4>1 DEF Straddles
    <3> QED
      BY <3>3, <3>4, <3>5
  <2>3. CASE ~(a = m /\ b = m + 1)
    <3>1. Before(m, a) < Before(m, b)
      BY <1>2, <2>1, <2>3 DEF Before
    <3>2. Before(m, a) \in DOMAIN c /\ x \in KeysOf(nd[c[Before(m, a)]])
      BY <1>2, SplitsKeys
    <3>3. Before(m, b) \in DOMAIN c /\ y \in KeysOf(nd[c[Before(m, b)]])
      BY <1>2, SplitsKeys
    <3> QED
      BY <3>1, <3>2, <3>3 DEF Ordered
  <2> QED
    BY <2>2, <2>3
<1> QED
  BY <1>2 DEF Ordered

\* The separators after the split, with the first key u of the new leaf among
\* them, part the leaves again.
LEMMA SplitsParts ==
  ASSUME NEW nd, NEW nd2, NEW c, NEW m \in DOMAIN c, NEW r, Splits(nd, nd2, c[m], r),
         IsChain(nd, c), NEW c2, Placed(c2, c, m, r), \A n \in DOMAIN c : KeysOf(nd[c[n]]) \subseteq Int,
         Ordered(nd2, c2), NEW seps \in Seq(Int), Len(seps) = Len(c) - 1, Parts(seps, nd, c),
         NEW u \in KeysOf(nd2[r]), \A y \in KeysOf(nd2[r]) : u <= y,
         NEW seps2, Inserted(Int, seps2, seps, m - 1, u)
  PROVE  Parts(seps2, nd2, c2)
<1>1. PICK n \in Nat : n = Len(c) /\ DOMAIN c = 1 .. n /\ DOMAIN c2 = 1 .. n + 1 /\ DOMAIN seps = 1 .. n - 1
  <2>1. PICK n \in Nat : n = Len(c) /\ DOMAIN c = 1 .. n
    BY DEF IsChain
  <2>2. DOMAIN c2 = 1 .. n + 1
    BY <2>1 DEF Placed
  <2>3. DOMAIN seps = 1 .. n - 1
    BY <2>1
  <2> QED
    BY <2>1, <2>2, <2>3
<1>2. m \in 1 .. n
  BY <1>1
<1>3. /\ DOMAIN seps2 = 1 .. n
      /\ \A i \in 1 .. m - 1 : seps2[i] = seps[i]
      /\ seps2[m] = u
      /\ \A i \in m .. n - 1 : seps2[i + 1] = seps[i]
  <2>1. PICK l \in Nat : l = Len(seps) /\ l = n - 1
    BY <1>1
  <2>2. /\ seps2 \in Seq(Int) /\ Len(seps2) = l + 1
        /\ \A i \in 1 .. m - 1 : seps2[i] = seps[i]
        /\ seps2[(m - 1) + 1] = u
        /\ \A i \in (m - 1) + 1 .. l : seps2[i + 1] = seps[i]
    BY <2>1 DEF Inserted
  <2>3. (m - 1) + 1 = m /\ l + 1 = n
    BY <1>2, <2>1
  <2> QED
    BY <2>1, <2>2, <2>3
<1>4. ASSUME NEW i \in 1 .. n, i # m
      PROVE  Before(m - 1, i) \in 1 .. n - 1 /\ seps2[i] = seps[Before(m - 1, i)]
  <2>1. CASE i <= m - 1
    <3>1. i \in 1 .. m - 1 /\ Before(m - 1, i) = i /\ i \in 1 .. n - 1
      BY <1>2, <2>1 DEF Before
    <3> QED
      BY <1>3, <3>1
  <2>2. CASE ~(i <= m - 1)
    <3>1. i - 1 \in m .. n - 1 /\ Before(m - 1, i) = i - 1 /\ (i - 1) + 1 = i /\ i - 1 \in 1 .. n - 1
      BY <1>2, <1>4, <2>2 DEF Before
    <3> QED
      BY <1>3, <3>1
  <2> QED
    BY <2>1, <2>2
<1>5. u \in KeysOf(nd[c[m]]) /\ u \in Int
  BY DEF Splits
<1>6. \A i \in 1 .. n - 1 : seps[i] \in Int /\ (m <= i => u < seps[i]) /\ (i < m => seps[i] <= u)
  <2>1. \A i \in 1 .. n - 1 : seps[i] \in Int
    BY <1>1
  <2> QED
    BY <1>1, <1>5, <2>1 DEF Parts
<1>7. ASSUME NEW i \in 1 .. n, NEW j \in 1 .. n, i < j PROVE seps2[i] <= seps2[j]
  <2>1. CASE i = m
    <3>1. Before(m - 1, j) \in 1 .. n - 1 /\ m <= Before(m - 1, j) /\ j # m
      BY <1>2, <1>7, <2>1 DEF Before
    <3>2. seps2[j] = seps[Before(m - 1, j)] /\ seps2[i] = u
      BY <1>3, <1>4, <2>1, <3>1
    <3>3. u < seps[Before(m - 1, j)] /\ seps[Before(m - 1, j)] \in Int
      BY <1>6, <3>1
    <3> QED
      BY <1>5, <3>2, <3>3
  <2>2. CASE j = m
    <3>1. Before(m - 1, i) \in 1 .. n - 1 /\ Before(m - 1, i) < m /\ i # m
      BY <1>2, <1>7, <2>2 DEF Before
    <3> QED
      BY <1>3, <1>4, <1>5, <1>6, <2>2, <3>1
  <2>3. CASE i # m /\ j # m
    <3>1. Before(m - 1, i) < Before(m - 1, j)
      BY <1>2, <1>7, <2>3 DEF Before
    <3>2. seps[Before(m - 1, i)] <= seps[Before(m - 1, j)]
      BY <1>1, <1>4, <2>3, <3>1 DEF Parts
    <3> QED
      BY <1>4, <2>3, <3>2
  <2> QED
    BY <2>1, <2>2, <2>3
<1>8. ASSUME NEW i \in 1 .. n, NEW j \in 1 .. n + 1, NEW x \in KeysOf(nd2[c2[j]])
      PROVE  (j <= i => x < seps2[i]) /\ (i < j => seps2[i] <= x)
  <2>1. CASE i = m
    <3>0. m + 1 \in DOMAIN c2 /\ c2[m + 1] = r
      BY DEF Placed
    <3>1. ASSUME j <= i PROVE x < u
      <4>1. j < m + 1 /\ j \in DOMAIN c2
        BY <1>1, <1>2, <2>1, <3>1
      <4> QED
        BY <3>0, <4>1 DEF Ordered
    <3>2. ASSUME i < j PROVE u <= x
      <4>1. CASE j = m + 1
        BY <3>0, <4>1
      <4>2. CASE j # m + 1
        <5>1. m + 1 < j /\ j \in DOMAIN c2
          BY <1>1, <1>2, <2>1, <3>2, <4>2
        <5>2. u < x
          BY <3>0, <5>1 DEF Ordered
        <5>3. x \in Int
          <6>1. Before(m, j) \in DOMAIN c /\ x \in KeysOf(nd[c[Before(m, j)]])
            BY <1>1, <1>8, SplitsKeys
          <6> QED
            BY <6>1
        <5> QED
          BY <1>5, <5>2, <5>3
      <4> QED
        BY <4>1, <4>2
    <3> QED
      BY <1>3, <2>1, <3>1, <3>2
  <2>2. CASE i # m
    <3>1. Before(m, j) \in DOMAIN c /\ x \in KeysOf(nd[c[Before(m, j)]])
      BY <1>1, <1>8, SplitsKeys
    <3>2. Before(m - 1, i) \in DOMAIN seps /\ seps2[i] = seps[Before(m - 1, i)]
      BY <1>1, <1>4, <2>2
    <3>3. /\ j <= i => Before(m, j) <= Before(m - 1, i)
          /\ i < j => Before(m - 1, i) < Before(m, j)
      BY <1>2, <2>2 DEF Before
    <3> QED
      BY <3>1, <3>2, <3>3 DEF Parts
  <2> QED
    BY <2>1, <2>2
<1> QED
  BY <1>1, <1>3, <1>7, <1>8 DEF Parts

(***************************************************************************)
(* Where the descent ends                                                  *)
(***************************************************************************)

\* The keys of a leaf are integers.
LEMMA LeafInts ==
  ASSUME NEW nd, NEW R, LeafOK(nd, R)
  PROVE  KeysOf(nd) \subseteq Int
<1>1. nd.keys \in Seq(Int)
  BY DEF LeafOK, NodeT
<1>2. \A i \in DOMAIN nd.keys : nd.keys[i] \in Int
  BY <1>1
<1> QED
  BY <1>2 DEF KeysOf

\* The descent ends in a leaf of the chain.
LEMMA FindsLeaf ==
  ASSUME NEW c, IsChain(nodes, c), root \in DOMAIN nodes, RootOK(nodes, root, c), NEW k \in Int
  PROVE  \E m \in DOMAIN c : findLeaf(k) = c[m]
<1>1. findLeaf(k) \in DOMAIN nodes /\ nodes[findLeaf(k)].leaf
  <2>1. CASE nodes[root].leaf
    BY <2>1 DEF findLeaf
  <2>2. CASE ~nodes[root].leaf
    <3>1. PICK seps \in Seq(Int) : seps = nodes[root].keys
      BY <2>2 DEF RootOK, NodeT
    <3>2. nodes[root].ptrs \in Seq(Nat) /\ Len(nodes[root].ptrs) = Len(seps) + 1
      BY <2>2, <3>1 DEF RootOK, NodeT
    <3>3. leading(seps, k) \in 0 .. Len(seps)
      BY LeadingIs DEF IsLeading
    <3>4. leading(seps, k) + 1 \in DOMAIN nodes[root].ptrs
      BY <3>2, <3>3
    <3>5. findLeaf(k) = nodes[root].ptrs[leading(seps, k) + 1]
      BY <2>2, <3>1 DEF findLeaf
    <3> QED
      BY <2>2, <3>4, <3>5 DEF RootOK
  <2> QED
    BY <2>1, <2>2
<1> QED
  BY <1>1 DEF IsChain

\* In a tree in order, the descent for k ends between the smaller and the
\* greater keys of the other leaves.
LEMMA FindsPosition ==
  ASSUME NEW c, IsChain(nodes, c), root \in DOMAIN nodes, RootOK(nodes, root, c),
         Separated(nodes, root, c), \A n \in DOMAIN c : KeysOf(nodes[c[n]]) \subseteq Int,
         NEW k \in Int, NEW m \in DOMAIN c, findLeaf(k) = c[m]
  PROVE  /\ Around(nodes, c, m, k)
         /\ ~nodes[root].leaf => IsLeading(nodes[root].keys, k, m - 1)
<1>1. c \in Seq(Nat) /\ DOMAIN c = 1 .. Len(c) /\ Len(c) \in Nat
  BY DEF IsChain
<1>2. CASE nodes[root].leaf
  <2>1. \A n \in DOMAIN c : n = m
    BY <1>1, <1>2 DEF RootOK
  <2> QED
    BY <1>1, <1>2, <2>1 DEF Around
<1>3. CASE ~nodes[root].leaf
  <2>1. PICK seps \in Seq(Int) : seps = nodes[root].keys
    BY <1>3 DEF RootOK, NodeT
  <2>2. nodes[root].ptrs = c /\ Len(c) = Len(seps) + 1 /\ Parts(seps, nodes, c)
    BY <1>3, <2>1 DEF RootOK, Separated
  <2>3. PICK l : l = leading(seps, k)
    OBVIOUS
  <2>4. IsLeading(seps, k, l)
    BY <2>3, LeadingIs
  <2>5. findLeaf(k) = c[l + 1] /\ l + 1 \in DOMAIN c /\ l \in Nat
    BY <1>1, <1>3, <2>1, <2>2, <2>3, <2>4 DEF findLeaf, IsLeading
  <2>6. m = l + 1
    <3>1. \A i, j \in DOMAIN c : c[i] = c[j] => i = j
      BY DEF IsChain
    <3> QED
      BY <2>5, <3>1, Zenon
  <2>7. m - 1 = l
    BY <2>5, <2>6
  <2>8. PICK s \in Nat : s = Len(seps) /\ DOMAIN seps = 1 .. s /\ DOMAIN c = 1 .. s + 1
    BY <1>1, <2>2
  <2>9. \A i \in 1 .. s : seps[i] \in Int
    BY <2>8
  <2>10. ASSUME NEW n \in DOMAIN c, NEW x \in KeysOf(nodes[c[n]]) PROVE (n < m => x < k) /\ (m < n => k < x)
    <3>0. x \in Int
      OBVIOUS
    <3>1. ASSUME n < m PROVE x < k
      <4>1. n \in 1 .. s /\ n \in 1 .. l /\ n <= n
        BY <2>5, <2>6, <2>8, <3>1
      <4>2. x < seps[n]
        BY <2>2, <2>8, <4>1 DEF Parts
      <4>3. seps[n] <= k
        BY <2>4, <4>1 DEF IsLeading
      <4> QED
        BY <2>9, <3>0, <4>1, <4>2, <4>3
    <3>2. ASSUME m < n PROVE k < x
      <4>1. m \in 1 .. s /\ l # s
        BY <2>5, <2>6, <2>8, <3>2
      <4>2. seps[m] <= x
        BY <2>2, <2>8, <3>2, <4>1 DEF Parts
      <4>3. seps[l + 1] > k
        BY <2>4, <2>8, <4>1 DEF IsLeading
      <4> QED
        BY <2>6, <2>9, <3>0, <4>1, <4>2, <4>3
    <3> QED
      BY <3>1, <3>2
  <2>11. Around(nodes, c, m, k)
    BY <2>10 DEF Around
  <2> QED
    BY <2>1, <2>4, <2>7, <2>11
<1> QED
  BY <1>2, <1>3

\* The separators still part the leaves after an insertion below them.
LEMMA TakesParts ==
  ASSUME NEW nd, NEW nd2, NEW c, NEW m \in DOMAIN c, NEW k \in Int, NEW id, Takes(nd, nd2, c[m], k, id),
         IsChain(nd, c), NEW seps \in Seq(Int), Parts(seps, nd, c), IsLeading(seps, k, m - 1)
  PROVE  Parts(seps, nd2, c)
<1>1. PICK s \in Nat : s = Len(seps) /\ DOMAIN seps = 1 .. s
  OBVIOUS
<1>2. m \in Nat /\ c \in Seq(Nat)
  BY DEF IsChain
<1>3. \A i \in 1 .. s : seps[i] \in Int
  BY <1>1
<1>4. ASSUME NEW i \in 1 .. s PROVE (m <= i => k < seps[i]) /\ (i < m => seps[i] <= k)
  <2>1. ASSUME m <= i PROVE k < seps[i]
    <3>1. m \in 1 .. s /\ m - 1 # s /\ (m - 1) + 1 = m
      BY <1>2, <2>1 DEF IsLeading
    <3>2. k < seps[m] /\ seps[m] \in Int /\ seps[i] \in Int
      BY <1>1, <1>3, <3>1 DEF IsLeading
    <3>3. CASE i = m
      BY <3>2, <3>3
    <3>4. CASE i # m
      <4>1. seps[m] <= seps[i]
        <5>1. m < i /\ m \in DOMAIN seps /\ i \in DOMAIN seps
          BY <1>1, <1>2, <2>1, <3>1, <3>4
        <5> QED
          BY <5>1 DEF Parts
      <4> QED
        BY <3>2, <4>1
    <3> QED
      BY <3>3, <3>4
  <2>2. ASSUME i < m PROVE seps[i] <= k
    <3>1. i \in 1 .. m - 1
      BY <1>2, <2>2
    <3> QED
      BY <3>1 DEF IsLeading
  <2> QED
    BY <2>1, <2>2
<1>5. ASSUME NEW i \in 1 .. s, NEW n \in DOMAIN c, NEW x \in KeysOf(nd2[c[n]])
      PROVE  (n <= i => x < seps[i]) /\ (i < n => seps[i] <= x)
  <2>1. CASE n = m /\ x = k
    BY <1>4, <2>1
  <2>2. CASE ~(n = m /\ x = k)
    <3>1. x \in KeysOf(nd[c[n]])
      <4>1. CASE n = m
        BY <1>5, <2>2, <4>1 DEF Takes
      <4>2. CASE n # m
        <5>1. c[n] # c[m] /\ c[n] \in DOMAIN nd
          BY <4>2 DEF IsChain
        <5> QED
          BY <1>5, <5>1 DEF Takes
      <4> QED
        BY <4>1, <4>2
    <3> QED
      BY <1>1, <3>1 DEF Parts
  <2> QED
    BY <2>1, <2>2
<1>6. \A i, j \in DOMAIN seps : i < j => seps[i] <= seps[j]
  BY DEF Parts
<1> QED
  BY <1>1, <1>5, <1>6 DEF Parts

(***************************************************************************)
(* Insertion                                                               *)
(***************************************************************************)

\* The tree nd is the tree of the state with leaf p replaced by f.
GrownTo(nd, p, f, R, I, N, c) ==
  /\ p \in DOMAIN nodes /\ nodes[p].leaf /\ nd[p] = f
  /\ \A a \in DOMAIN nodes \ {p} : nd[a] = nodes[a]
  /\ LeafOK(f, R) /\ Len(f.keys) <= MaxKeys
  /\ Shape(nd, root, I, failed, phase, N, c)

\* Leaf findLeaf(k) takes the new entry in; this is before any split.
LEMMA Grown ==
  ASSUME NEW N \in Nat, NEW c \in Seq(Nat), NEW R, NEW I, phase # "blocked",
         Shape(nodes, root, I, failed, phase, N, c), LeavesOK(nodes, R),
         NEW k \in Int, NEW id \in Nat, id \in DOMAIN R, R[id] = k, id \notin I,
         NEW p, p = findLeaf(k), NEW f, f = insertIntoNodeArrays(nodes[p], k, id),
         NEW nd, nd = [nodes EXCEPT ![p] = f]
  PROVE  GrownTo(nd, p, f, R, I \cup {id}, N, c)
<1>1. /\ DOMAIN nodes = 1 .. N /\ root \in 1 .. N /\ Len(c) <= N
      /\ IsChain(nodes, c) /\ RowsOK(nodes, I) /\ RootOK(nodes, root, c)
      /\ ~failed /\ ~Straddles(nodes) => Ordered(nodes, c) /\ Separated(nodes, root, c)
  BY DEF Shape
<1>2. PICK m \in DOMAIN c : p = c[m]
  BY <1>1, FindsLeaf
<1>3. p \in DOMAIN nodes /\ nodes[p].leaf
  BY <1>1, <1>2 DEF IsChain
<1>4. LeafOK(nodes[p], R) /\ Len(nodes[p].keys) < MaxKeys /\ id \notin RowsOf(nodes[p])
  BY <1>1, <1>3 DEF LeavesOK, RowsOK
<1>5. /\ LeafOK(f, R) /\ Len(f.keys) = Len(nodes[p].keys) + 1 /\ f.next = nodes[p].next
      /\ KeysOf(f) = KeysOf(nodes[p]) \cup {k}
      /\ RowsOf(f) = RowsOf(nodes[p]) \cup {id}
  <2>1. PICK x : x = nodes[p]
    OBVIOUS
  <2>2. LeafOK(x, R) /\ id \notin RowsOf(x) /\ f = insertIntoNodeArrays(x, k, id)
    BY <1>4, <2>1
  <2>3. /\ LeafOK(f, R) /\ Len(f.keys) = Len(x.keys) + 1 /\ f.next = x.next
        /\ KeysOf(f) = KeysOf(x) \cup {k}
        /\ RowsOf(f) = RowsOf(x) \cup {id}
    BY <2>2, LeafInsert
  <2> QED
    BY <2>1, <2>3
<1>6. Len(f.keys) <= MaxKeys
  <2>1. Len(nodes[p].keys) \in Nat
    BY <1>4 DEF LeafOK, NodeT
  <2> QED
    BY <1>4, <1>5, <2>1, TreeAssumption, SMTT(40)
<1>7. DOMAIN nd = DOMAIN nodes /\ nd[p] = f /\ \A a \in DOMAIN nodes \ {p} : nd[a] = nodes[a]
  BY <1>3
<1>8. Takes(nodes, nd, p, k, id)
  <2>1. f.leaf
    BY <1>5 DEF LeafOK
  <2> QED
    BY <1>3, <1>5, <1>7, <2>1 DEF Takes
<1>9. IsChain(nd, c) /\ RowsOK(nd, I \cup {id}) /\ (Straddles(nodes) => Straddles(nd))
  BY <1>1, <1>8, TakesKeeps
<1>10. \A n \in DOMAIN c : KeysOf(nodes[c[n]]) \subseteq Int
  <2>1. ASSUME NEW n \in DOMAIN c PROVE KeysOf(nodes[c[n]]) \subseteq Int
    <3>1. LeafOK(nodes[c[n]], R)
      BY <1>1 DEF IsChain, LeavesOK
    <3> QED
      BY <3>1, LeafInts
  <2> QED
    BY <2>1
<1>11. \A a \in DOMAIN nodes : nd[a].leaf <=> nodes[a].leaf
  BY <1>8 DEF Takes
<1>12. ~nodes[root].leaf => nd[root] = nodes[root]
  BY <1>1, <1>3, <1>7
<1>13. RootOK(nd, root, c)
  BY <1>1, <1>7, <1>11, <1>12 DEF RootOK
<1>14. ASSUME ~failed, ~Straddles(nd) PROVE Ordered(nd, c) /\ Separated(nd, root, c)
  <2>1. Ordered(nodes, c) /\ Separated(nodes, root, c)
    BY <1>1, <1>9, <1>14
  <2>2. /\ Around(nodes, c, m, k)
        /\ ~nodes[root].leaf => IsLeading(nodes[root].keys, k, m - 1)
    BY <1>1, <1>2, <1>10, <2>1, FindsPosition
  <2>3. Ordered(nd, c)
    BY <1>1, <1>2, <1>8, <2>1, <2>2, TakesOrdered
  <2>4. ASSUME ~nd[root].leaf PROVE nd[root].ptrs = c /\ Parts(nd[root].keys, nd, c)
    <3>1. ~nodes[root].leaf /\ nd[root] = nodes[root]
      BY <1>1, <1>11, <1>12, <2>4
    <3>2. nodes[root].ptrs = c /\ Parts(nodes[root].keys, nodes, c)
      BY <2>1, <3>1 DEF Separated
    <3>3. nodes[root].keys \in Seq(Int)
      BY <1>1, <3>1 DEF RootOK, NodeT
    <3>4. Parts(nodes[root].keys, nd, c)
      BY <1>1, <1>2, <1>8, <2>2, <3>1, <3>2, <3>3, TakesParts
    <3> QED
      BY <3>1, <3>2, <3>4
  <2> QED
    BY <2>3, <2>4 DEF Separated
<1>15. Shape(nd, root, I \cup {id}, failed, phase, N, c)
  BY <1>1, <1>7, <1>9, <1>13, <1>14 DEF Shape
<1> QED
  BY <1>3, <1>5, <1>6, <1>7, <1>15 DEF GrownTo

\* What the split of a leaf leaves of the invariant but the root.
SplitLeaves(nd, nd2, c, c2, m, r, I) ==
  /\ c2 \in Seq(Nat) /\ Placed(c2, c, m, r) /\ IsChain(nd2, c2) /\ RowsOK(nd2, I)
  /\ Straddles(nd) => Straddles(nd2)
  /\ Ordered(nd, c) /\ ~Straddles(nd2) => Ordered(nd2, c2)

\* The lemmas on splits together, with the new leaf on the next free page.
LEMMA SplitTree ==
  ASSUME NEW N \in Nat, NEW c \in Seq(Nat), NEW I, NEW nd,
         DOMAIN nd = 1 .. N, IsChain(nd, c), RowsOK(nd, I),
         NEW m \in DOMAIN c, \A n \in DOMAIN c : KeysOf(nd[c[n]]) \subseteq Int,
         NEW nd2, Splits(nd, nd2, c[m], N + 1), NEW c2, c2 = InsertedAt(c, m, N + 1)
  PROVE  SplitLeaves(nd, nd2, c, c2, m, N + 1, I)
<1>1. Inserted(Nat, c2, c, m, N + 1)
  <2>1. m \in 0 .. Len(c) /\ N + 1 \in Nat
    OBVIOUS
  <2> QED
    BY <2>1, InsertedAtFacts, Zenon
<1>2. Placed(c2, c, m, N + 1)
  BY <1>1, InsertedPositions
<1>3. IsChain(nd2, c2)
  BY <1>1, SplitsChain
<1>4. RowsOK(nd2, I) /\ (Straddles(nd) => Straddles(nd2))
  BY SplitsKeeps
<1>5. Ordered(nd, c) /\ ~Straddles(nd2) => Ordered(nd2, c2)
  BY <1>2, <1>4, SplitsOrdered
<1> QED
  BY <1>2, <1>3, <1>4, <1>5 DEF Placed, SplitLeaves

\* splitLeafNode splits a leaf that has reached the node size, and both halves
\* are below it again.
LEMMA HalvesSplit ==
  ASSUME NEW R, NEW nd, NEW p \in DOMAIN nd, LeafOK(nd[p], R), Len(nd[p].keys) >= 2, Len(nd[p].keys) <= MaxKeys,
         \A a \in DOMAIN nd \ {p} : nd[a].leaf => LeafOK(nd[a], R) /\ Len(nd[a].keys) < MaxKeys,
         NEW r \in Nat, r \notin DOMAIN nd,
         NEW nd2, DOMAIN nd \subseteq DOMAIN nd2, r \in DOMAIN nd2,
         nd2[p] = LeftHalf(nd[p], r), nd2[r] = RightHalf(nd[p]),
         \A a \in DOMAIN nd \ {p} : nd2[a].leaf <=> nd[a].leaf,
         \A a \in DOMAIN nd \ {p} : nd[a].leaf => nd2[a] = nd[a],
         \A a \in DOMAIN nd2 \ (DOMAIN nd \cup {r}) : ~nd2[a].leaf
  PROVE  /\ Splits(nd, nd2, p, r) /\ LeavesOK(nd2, R)
         /\ nd2[r].keys[1] \in KeysOf(nd2[r]) /\ nd2[r].keys[1] \in Int
         /\ \A y \in KeysOf(nd2[r]) : nd2[r].keys[1] <= y
<1>1. PICK f : f = nd[p]
  OBVIOUS
<1>2. PICK l : l = LeftHalf(f, r)
  OBVIOUS
<1>3. PICK q : q = RightHalf(f)
  OBVIOUS
<1>4. nd2[p] = l /\ nd2[r] = q
  BY <1>1, <1>2, <1>3
<1>5. /\ LeafOK(l, R) /\ LeafOK(q, R)
      /\ l.next = r /\ q.next = f.next
      /\ Len(l.keys) < Len(f.keys) /\ Len(q.keys) < Len(f.keys)
      /\ KeysOf(l) \cup KeysOf(q) = KeysOf(f)
      /\ RowsOf(l) \cup RowsOf(q) = RowsOf(f) /\ RowsOf(l) \cap RowsOf(q) = {}
      /\ \A x \in KeysOf(l), y \in KeysOf(q) : x <= y
      /\ q.keys[1] \in KeysOf(q) /\ \A y \in KeysOf(q) : q.keys[1] <= y
  <2>1. LeafOK(f, R) /\ Len(f.keys) >= 2 /\ r \in Nat
    BY <1>1
  <2> QED
    BY ONLY <1>2, <1>3, <2>1, LeafSplit
<1>6. l.leaf /\ q.leaf /\ f.leaf
  BY <1>1, <1>5 DEF LeafOK
<1>7. Splits(nd, nd2, p, r)
  BY <1>1, <1>4, <1>5, <1>6 DEF Splits
<1>8. Len(l.keys) < MaxKeys /\ Len(q.keys) < MaxKeys
  <2>1. Len(l.keys) \in Nat /\ Len(q.keys) \in Nat /\ Len(f.keys) \in Nat /\ Len(f.keys) <= MaxKeys
    BY <1>1, <1>5 DEF LeafOK, NodeT
  <2> QED
    BY <1>5, <2>1, TreeAssumption
<1>9. LeavesOK(nd2, R)
  <2>1. ASSUME NEW a \in DOMAIN nd2, nd2[a].leaf PROVE LeafOK(nd2[a], R) /\ Len(nd2[a].keys) < MaxKeys
    <3>1. CASE a = p \/ a = r
      BY <1>4, <1>5, <1>8, <3>1
    <3>2. CASE a # p /\ a # r
      BY <2>1, <3>2
    <3> QED
      BY <3>1, <3>2
  <2> QED
    BY <2>1 DEF LeavesOK
<1>10. q.keys[1] \in Int
  BY <1>5, LeafInts
<1> QED
  BY <1>4, <1>5, <1>7, <1>9, <1>10

\* A root leaf is split: the new root has the two halves under it.
LEMMA NewRootShape ==
  ASSUME NEW N \in Nat, NEW c \in Seq(Nat), NEW I, NEW nd, NEW fl, NEW ph, NEW rt,
         Shape(nd, rt, I, fl, ph, N, c), ph # "blocked", nd[rt].leaf,
         KeysOf(nd[rt]) \subseteq Int, NEW nd2, DOMAIN nd2 = 1 .. N + 2, Splits(nd, nd2, rt, N + 1),
         NEW u \in KeysOf(nd2[N + 1]), \A y \in KeysOf(nd2[N + 1]) : u <= y,
         nd2[N + 2] = NewInternalNode(<<u>>, <<rt, N + 1>>)
  PROVE  \E c2 \in Seq(Nat) : /\ Shape(nd2, N + 2, I, fl, ph, N + 2, c2)
                              /\ Shape(nd2, rt, I, fl, "blocked", N + 2, c2)
<1>1. /\ DOMAIN nd = 1 .. N /\ rt \in 1 .. N /\ Len(c) <= N /\ IsChain(nd, c) /\ RowsOK(nd, I)
      /\ ~fl /\ ~Straddles(nd) => Ordered(nd, c)
  BY DEF Shape
<1>2. Len(c) = 1 /\ DOMAIN c = {1}
  <2>1. Len(c) = 1
    BY DEF Shape, RootOK
  <2> QED
    BY <2>1
<1>3. c[1] = rt
  BY <1>1, <1>2 DEF IsChain
<1>4. \A n \in DOMAIN c : KeysOf(nd[c[n]]) \subseteq Int
  BY <1>2, <1>3
<1>5. PICK c2 : c2 = InsertedAt(c, 1, N + 1)
  OBVIOUS
<1>6. /\ c2 \in Seq(Nat) /\ Placed(c2, c, 1, N + 1) /\ IsChain(nd2, c2) /\ RowsOK(nd2, I)
      /\ Straddles(nd) => Straddles(nd2)
      /\ ~fl /\ ~Straddles(nd2) => Ordered(nd2, c2)
  <2>1. PICK m \in DOMAIN c : m = 1
    BY <1>2
  <2>2. c2 = InsertedAt(c, m, N + 1) /\ Splits(nd, nd2, c[m], N + 1) /\ N \in Nat /\ c \in Seq(Nat) /\ m \in DOMAIN c
    BY <1>3, <1>5, <2>1
  <2>3. SplitLeaves(nd, nd2, c, c2, m, N + 1, I)
    BY <1>1, <1>4, <2>2, SplitTree
  <2> QED
    BY <1>1, <2>1, <2>3 DEF SplitLeaves
<1>7. Len(c2) = 2 /\ c2[1] = rt /\ c2[2] = N + 1
  <2>1. Len(c2) = 2 /\ DOMAIN c2 = 1 .. 2 /\ c2[2] = N + 1
    BY <1>2, <1>6 DEF Placed
  <2>2. Before(1, 1) = 1 /\ 1 # 1 + 1
    BY DEF Before
  <2>3. c2[1] = c[1]
    BY <1>6, <2>1, <2>2, SMTT(40) DEF Placed
  <2> QED
    BY <1>3, <2>1, <2>3
<1>8. c2 = <<rt, N + 1>>
  BY <1>6, <1>7
<1>9. u \in Int
  BY DEF Splits
<1>10. /\ ~nd2[N + 2].leaf /\ nd2[N + 2].keys = <<u>> /\ nd2[N + 2].ptrs = <<rt, N + 1>>
       /\ nd2[N + 2] \in NodeT
  <2>1. rt \in Nat /\ N + 1 \in Nat /\ NoLeaf \in Int
    BY <1>1 DEF NoLeaf
  <2>2. <<u>> \in Seq(Int) /\ <<rt, N + 1>> \in Seq(Nat)
    BY <1>9, <2>1
  <2> QED
    BY <2>1, <2>2 DEF NewInternalNode, NodeT
<1>11. RootOK(nd2, N + 2, c2)
  <2>1. Len(<<rt, N + 1>>) = Len(<<u>>) + 1
    OBVIOUS
  <2>2. ASSUME NEW i \in DOMAIN <<rt, N + 1>>
        PROVE  <<rt, N + 1>>[i] \in DOMAIN nd2 /\ nd2[<<rt, N + 1>>[i]].leaf
    <3>1. i = 1 \/ i = 2
      OBVIOUS
    <3>2. rt \in DOMAIN nd2 /\ N + 1 \in DOMAIN nd2 /\ nd2[rt].leaf /\ nd2[N + 1].leaf
      BY DEF Splits
    <3> QED
      BY <3>1, <3>2
  <2> QED
    BY <1>10, <2>1, <2>2 DEF RootOK
<1>12. ASSUME ~fl, ~Straddles(nd2) PROVE Separated(nd2, N + 2, c2)
  <2>1. Ordered(nd2, c2)
    BY <1>6, <1>12
  <2>2. Parts(<<>>, nd, c)
    BY DEF Parts
  <2>3. Inserted(Int, <<u>>, <<>>, 1 - 1, u)
    BY <1>9 DEF Inserted
  <2>4. <<>> \in Seq(Int) /\ Len(<<>>) = Len(c) - 1 /\ 1 \in DOMAIN c /\ Splits(nd, nd2, c[1], N + 1)
    BY <1>2, <1>3
  <2>5. Parts(<<u>>, nd2, c2)
    BY <1>1, <1>4, <1>6, <2>1, <2>2, <2>3, <2>4, SplitsParts
  <2> QED
    BY <1>8, <1>10, <2>5 DEF Separated
<1>13. N + 2 \in 1 .. N + 2 /\ rt \in 1 .. N + 2 /\ Len(c2) <= N + 2
  BY <1>1, <1>7
<1>14. Shape(nd2, N + 2, I, fl, ph, N + 2, c2)
  BY <1>6, <1>11, <1>12, <1>13 DEF Shape
<1>15. Shape(nd2, rt, I, fl, "blocked", N + 2, c2)
  BY <1>6, <1>13 DEF Shape
<1> QED
  BY <1>6, <1>14, <1>15

\* A leaf below the root is split; the root takes the new leaf in.
LEMMA RootTakesShape ==
  ASSUME NEW N \in Nat, NEW c \in Seq(Nat), NEW I, NEW nd, NEW fl, NEW ph, NEW rt,
         Shape(nd, rt, I, fl, ph, N, c), ph # "blocked", ~nd[rt].leaf,
         NEW m \in DOMAIN c, \A n \in DOMAIN c : KeysOf(nd[c[n]]) \subseteq Int,
         NEW nd2, DOMAIN nd2 = 1 .. N + 1, Splits(nd, nd2, c[m], N + 1),
         NEW u \in KeysOf(nd2[N + 1]), \A y \in KeysOf(nd2[N + 1]) : u <= y,
         nd2[rt] = insertIntoNodeArrays(nd[rt], u, N + 1)
  PROVE  \E c2 \in Seq(Nat) : Shape(nd2, rt, I, fl, ph, N + 1, c2)
<1>1. /\ DOMAIN nd = 1 .. N /\ rt \in 1 .. N /\ Len(c) <= N /\ IsChain(nd, c) /\ RowsOK(nd, I)
      /\ ~fl /\ ~Straddles(nd) => Ordered(nd, c) /\ Separated(nd, rt, c)
      /\ RootOK(nd, rt, c)
  BY DEF Shape
<1>2. PICK c2 : c2 = InsertedAt(c, m, N + 1)
  OBVIOUS
<1>3. /\ c2 \in Seq(Nat) /\ Placed(c2, c, m, N + 1) /\ IsChain(nd2, c2) /\ RowsOK(nd2, I)
      /\ Straddles(nd) => Straddles(nd2)
      /\ Ordered(nd, c) /\ ~Straddles(nd2) => Ordered(nd2, c2)
  <2>1. SplitLeaves(nd, nd2, c, c2, m, N + 1, I)
    BY <1>1, <1>2, SplitTree
  <2> QED
    BY <2>1 DEF SplitLeaves
<1>4. PICK x \in NodeT : x = nd[rt]
  BY <1>1 DEF RootOK
<1>5. PICK y : y = nd2[rt] /\ y = insertIntoNodeArrays(x, u, N + 1)
  BY <1>4
<1>6. u \in Int
  BY DEF Splits
<1>7. PICK seps \in Seq(Int) : seps = x.keys
  BY <1>4 DEF NodeT
<1>8. PICK ps \in Seq(Nat) : ps = x.ptrs
  BY <1>4 DEF NodeT
<1>9. Len(ps) = Len(seps) + 1 /\ \A i \in DOMAIN ps : ps[i] \in DOMAIN nd /\ nd[ps[i]].leaf
  BY <1>1, <1>4, <1>7, <1>8 DEF RootOK
<1>10. PICK l : l = leading(seps, u)
  OBVIOUS
<1>11. l \in 0 .. Len(seps) /\ l + 1 \in 0 .. Len(ps)
  <2>1. l \in 0 .. Len(seps)
    BY <1>6, <1>10, LeadingIs DEF IsLeading
  <2> QED
    BY <1>9, <2>1
<1>12. /\ ~y.leaf /\ y.next = x.next /\ y.keys = InsertedAt(seps, l, u) /\ y.ptrs = InsertedAt(ps, l + 1, N + 1)
       /\ y = [leaf |-> y.leaf, keys |-> y.keys, ptrs |-> y.ptrs, next |-> y.next]
  <2>1. N + 1 \in Nat /\ ~x.leaf
    BY <1>4
  <2>2. /\ y.leaf = x.leaf /\ y.next = x.next
        /\ y.keys = InsertedAt(x.keys, leading(x.keys, u), u)
        /\ y.ptrs = InsertedAt(x.ptrs, IF x.leaf THEN leading(x.keys, u) ELSE leading(x.keys, u) + 1, N + 1)
        /\ y = [leaf |-> y.leaf, keys |-> y.keys, ptrs |-> y.ptrs, next |-> y.next]
    BY <1>5, <1>6, <2>1, InsertedFields
  <2> QED
    BY <1>7, <1>8, <1>10, <2>1, <2>2
<1>13. Inserted(Int, y.keys, seps, l, u)
  BY <1>6, <1>11, <1>12, InsertedAtFacts, Zenon
<1>14. Inserted(Nat, y.ptrs, ps, l + 1, N + 1)
  <2>1. N + 1 \in Nat
    OBVIOUS
  <2> QED
    BY <1>11, <1>12, <2>1, InsertedAtFacts, Zenon
<1>15. /\ y.keys \in Seq(Int) /\ Len(y.keys) = Len(seps) + 1
       /\ y.ptrs \in Seq(Nat) /\ Len(y.ptrs) = Len(ps) + 1
  BY <1>13, <1>14 DEF Inserted
<1>16. y \in NodeT
  <2>1. y.leaf \in BOOLEAN /\ y.next \in Int
    <3>1. N + 1 \in Nat
      OBVIOUS
    <3>2. y.leaf = x.leaf
      BY <1>5, <1>6, <3>1, InsertedFields
    <3>3. x.leaf \in BOOLEAN /\ x.next \in Int
      BY DEF NodeT
    <3> QED
      BY <1>12, <3>2, <3>3
  <2>2. [leaf |-> y.leaf, keys |-> y.keys, ptrs |-> y.ptrs, next |-> y.next] \in NodeT
    BY <1>15, <2>1 DEF NodeT
  <2> QED
    BY <1>12, <2>2
<1>17. RootOK(nd2, rt, c2)
  <2>1. Len(y.ptrs) = Len(y.keys) + 1
    BY <1>9, <1>15
  <2>2. l + 1 \in DOMAIN ps
    BY <1>9, <1>11
  <2>3. Placed(y.ptrs, ps, l + 1, N + 1)
    BY <1>14, <2>2, InsertedPositions
  <2>4. ASSUME NEW i \in DOMAIN y.ptrs PROVE y.ptrs[i] \in DOMAIN nd2 /\ nd2[y.ptrs[i]].leaf
    <3>1. CASE i = (l + 1) + 1
      BY <2>3, <3>1 DEF Placed, Splits
    <3>2. CASE i # (l + 1) + 1
      <4>1. PICK j \in DOMAIN ps : y.ptrs[i] = ps[j]
        BY <2>3, <3>2 DEF Placed
      <4>2. ps[j] \in DOMAIN nd /\ nd[ps[j]].leaf
        BY <1>9
      <4>3. ps[j] \in DOMAIN nd2 /\ nd2[ps[j]].leaf
        BY <4>2 DEF Splits
      <4> QED
        BY <4>1, <4>3
    <3> QED
      BY <3>1, <3>2
  <2> QED
    BY <1>5, <1>12, <1>16, <2>1, <2>4 DEF RootOK
<1>18. ASSUME ~fl, ~Straddles(nd2) PROVE Ordered(nd2, c2) /\ Separated(nd2, rt, c2)
  <2>1. Ordered(nd, c) /\ Ordered(nd2, c2) /\ ps = c /\ Parts(seps, nd, c)
    BY <1>1, <1>3, <1>4, <1>7, <1>8, <1>18 DEF Separated
  <2>2. PICK s \in Nat : s = Len(seps) /\ DOMAIN seps = 1 .. s /\ DOMAIN c = 1 .. s + 1 /\ Len(c) = s + 1
    BY <1>9, <2>1
  <2>3. IsLeading(seps, u, m - 1)
    <3>1. m \in 1 .. s + 1
      BY <2>2
    <3>2. u \in KeysOf(nd[c[m]])
      BY DEF Splits
    <3>3. \A i \in 1 .. s : (m <= i => u < seps[i]) /\ (i < m => seps[i] <= u)
      BY <2>1, <2>2, <3>2 DEF Parts
    <3>4. m - 1 \in 0 .. s /\ (m - 1) + 1 = m
      BY <3>1
    <3>5. ASSUME NEW i \in 1 .. m - 1 PROVE seps[i] <= u
      <4>1. i \in 1 .. s /\ i < m
        BY <3>1
      <4> QED
        BY <3>3, <4>1
    <3>6. m - 1 = s \/ seps[m] > u
      <4>1. ASSUME m - 1 # s PROVE seps[m] > u
        <5>1. m \in 1 .. s /\ m <= m
          BY <3>1, <4>1
        <5>2. u < seps[m] /\ seps[m] \in Int
          BY <2>2, <3>3, <5>1
        <5> QED
          BY <1>6, <5>2
      <4> QED
        BY <4>1
    <3> QED
      BY <2>2, <3>4, <3>5, <3>6 DEF IsLeading
  <2>4. l = m - 1 /\ l + 1 = m
    BY <1>6, <1>10, <2>2, <2>3, LeadingUnique
  <2>5. y.ptrs = c2
    BY <1>2, <1>12, <2>1, <2>4
  <2>6. Inserted(Int, y.keys, seps, m - 1, u)
    BY <1>13, <2>4
  <2>7. Len(seps) = Len(c) - 1
    BY <2>2
  <2>8. Parts(y.keys, nd2, c2)
    <3>1. PICK s2 : s2 = y.keys
      OBVIOUS
    <3>2. Inserted(Int, s2, seps, m - 1, u)
      BY <2>6, <3>1
    <3>3. Parts(s2, nd2, c2)
      BY <1>1, <1>3, <2>1, <2>7, <3>2, SplitsParts
    <3> QED
      BY <3>1, <3>3
  <2> QED
    BY <1>5, <2>1, <2>5, <2>8 DEF Separated
<1>19. rt \in 1 .. N + 1 /\ Len(c2) <= N + 1
  BY <1>1, <1>3 DEF Placed
<1>20. Shape(nd2, rt, I, fl, ph, N + 1, c2)
  BY <1>3, <1>17, <1>18, <1>19 DEF Shape
<1> QED
  BY <1>3, <1>20

\* A leaf below a full root is split and the insertion fails: the root does
\* not know the new leaf.
LEMMA FailedShape ==
  ASSUME NEW N \in Nat, NEW c \in Seq(Nat), NEW I, NEW nd, NEW fl, NEW ph, NEW rt,
         Shape(nd, rt, I, fl, ph, N, c), ph # "blocked", ~nd[rt].leaf,
         NEW m \in DOMAIN c, \A n \in DOMAIN c : KeysOf(nd[c[n]]) \subseteq Int,
         NEW nd2, DOMAIN nd2 = 1 .. N + 1, Splits(nd, nd2, c[m], N + 1), nd2[rt] = nd[rt]
  PROVE  \E c2 \in Seq(Nat) : Shape(nd2, rt, I, TRUE, ph, N + 1, c2)
<1>1. /\ DOMAIN nd = 1 .. N /\ rt \in 1 .. N /\ Len(c) <= N /\ IsChain(nd, c) /\ RowsOK(nd, I)
      /\ RootOK(nd, rt, c)
  BY DEF Shape
<1>2. PICK c2 : c2 = InsertedAt(c, m, N + 1)
  OBVIOUS
<1>3. /\ c2 \in Seq(Nat) /\ Placed(c2, c, m, N + 1) /\ IsChain(nd2, c2) /\ RowsOK(nd2, I)
      /\ Straddles(nd) => Straddles(nd2)
      /\ Ordered(nd, c) /\ ~Straddles(nd2) => Ordered(nd2, c2)
  <2>1. SplitLeaves(nd, nd2, c, c2, m, N + 1, I)
    BY <1>1, <1>2, SplitTree
  <2> QED
    BY <2>1 DEF SplitLeaves
<1>4. \A p \in DOMAIN nd : nd[p].leaf => p \in DOMAIN nd2 /\ nd2[p].leaf
  BY DEF Splits
<1>5. RootOK(nd2, rt, c2)
  BY <1>1, <1>4 DEF RootOK
<1>6. rt \in 1 .. N + 1 /\ Len(c2) <= N + 1
  BY <1>1, <1>3 DEF Placed
<1> QED
  BY <1>3, <1>5, <1>6 DEF Shape

\* Page ids count up from 1, so the next one is free.
LEMMA PageCount ==
  ASSUME NEW N \in Nat, DOMAIN nodes = 1 .. N
  PROVE  Cardinality(DOMAIN nodes) = N /\ allocateIndexPage = N + 1
<1>1. Cardinality(1 .. N) = N
  <2>1. IF 1 > N THEN Cardinality(1 .. N) = 0 ELSE Cardinality(1 .. N) = N - 1 + 1
    BY FS_Interval
  <2> QED
    BY <2>1
<1> QED
  BY <1>1 DEF allocateIndexPage

\* What InsertIntoIndex does to a tree that satisfies the invariant.
LEMMA InsertStep ==
  ASSUME NEW N \in Nat, NEW c \in Seq(Nat), NEW R, NEW I, phase # "blocked", failed \in BOOLEAN,
         Shape(nodes, root, I, failed, phase, N, c), LeavesOK(nodes, R),
         NEW k \in Int, NEW id \in Nat, id \in DOMAIN R, R[id] = k, id \notin I,
         NEW locked, InsertIntoIndex(k, id, locked)
  PROVE  /\ \E N2 \in Nat, c2 \in Seq(Nat) : Shape(nodes', root', I \cup {id}, failed', phase', N2, c2)
         /\ LeavesOK(nodes', R)
         /\ phase' \in {phase, "blocked"} /\ failed' \in BOOLEAN
<1>1. PICK p : p = findLeaf(k)
  OBVIOUS
<1>2. PICK f : f = insertIntoNodeArrays(nodes[p], k, id)
  OBVIOUS
<1>3. PICK nd : nd = [nodes EXCEPT ![p] = f]
  OBVIOUS
<1>4. PICK J : J = I \cup {id}
  OBVIOUS
<1>5. /\ p \in DOMAIN nodes /\ nodes[p].leaf /\ nd[p] = f
      /\ \A a \in DOMAIN nodes \ {p} : nd[a] = nodes[a]
      /\ LeafOK(f, R) /\ Len(f.keys) <= MaxKeys
      /\ Shape(nd, root, J, failed, phase, N, c)
  <2>1. GrownTo(nd, p, f, R, I \cup {id}, N, c)
    BY <1>1, <1>2, <1>3, Grown
  <2> QED
    BY <1>4, <2>1 DEF GrownTo
<1>6. /\ DOMAIN nodes = 1 .. N /\ DOMAIN nd = 1 .. N /\ root \in 1 .. N
      /\ IsChain(nd, c) /\ RootOK(nd, root, c)
  BY <1>5 DEF Shape
<1>7. PICK r : r = allocateIndexPage /\ r = N + 1
  BY <1>6, PageCount
<1>8. PICK l : l = LeftHalf(f, r)
  OBVIOUS
<1>9. PICK q : q = RightHalf(f)
  OBVIOUS
<1>10. PICK u : u = q.keys[1]
  OBVIOUS
<1>11. PICK up : up = insertIntoNodeArrays(nodes[root], u, r)
  OBVIOUS
<1>12. \/ /\ ~Overflows(f) /\ nodes' = nd
          /\ root' = root /\ failed' = failed /\ phase' = phase
       \/ /\ Overflows(f) /\ p = root
          /\ nodes' = WithNodes([a \in {p, r, r + 1} |->
                        IF a = p THEN l ELSE IF a = r THEN q ELSE NewInternalNode(<<u>>, <<p, r>>)])
          /\ root' = (IF locked THEN root ELSE r + 1)
          /\ phase' = (IF locked THEN "blocked" ELSE phase)
          /\ failed' = failed
       \/ /\ Overflows(f) /\ p # root
          /\ nodes' = WithNodes([a \in {p, r, root} |-> IF a = p THEN l ELSE IF a = r THEN q ELSE up])
          /\ root' = root /\ failed' = failed /\ phase' = phase
       \/ /\ Overflows(f) /\ p # root
          /\ nodes' = WithNodes([a \in {p, r} |-> IF a = p THEN l ELSE q])
          /\ root' = root /\ failed' = TRUE /\ phase' = phase
  BY <1>1, <1>2, <1>3, <1>7, <1>8, <1>9, <1>10, <1>11 DEF InsertIntoIndex
<1>13. \A a \in DOMAIN nd \ {p} : nd[a].leaf => LeafOK(nd[a], R) /\ Len(nd[a].keys) < MaxKeys
  BY <1>5, <1>6 DEF LeavesOK
<1>14. CASE ~Overflows(f) /\ nodes' = nd /\ root' = root /\ failed' = failed /\ phase' = phase
  <2>1. Len(f.keys) < MaxKeys
    <3>1. Len(f.keys) \in Nat
      BY <1>5 DEF LeafOK, NodeT
    <3> QED
      BY <1>14, <3>1, TreeAssumption DEF Overflows
  <2>2. LeavesOK(nd, R)
    BY <1>5, <1>6, <1>13, <2>1 DEF LeavesOK
  <2> QED
    BY <1>4, <1>5, <1>14, <2>2
<1>15. PICK m \in DOMAIN c : c[m] = p
  BY <1>1, <1>6, FindsLeaf DEF Shape
<1>16. \A n \in DOMAIN c : KeysOf(nd[c[n]]) \subseteq Int
  <2>1. ASSUME NEW n \in DOMAIN c PROVE KeysOf(nd[c[n]]) \subseteq Int
    <3>1. LeafOK(nd[c[n]], R)
      BY <1>5, <1>6, <1>13 DEF IsChain
    <3> QED
      BY <3>1, LeafInts
  <2> QED
    BY <2>1
<1>17. r \in Nat /\ r \notin 1 .. N /\ r + 1 \notin 1 .. N /\ r # r + 1 /\ r + 1 = N + 2
       /\ p \in 1 .. N /\ p # r /\ p # r + 1 /\ root # r
  BY <1>5, <1>6, <1>7
<1>18. nd[root].leaf <=> p = root
  <2>1. ASSUME nd[root].leaf PROVE p = root
    <3>1. Len(c) = 1 /\ DOMAIN c = {1}
      <4>1. Len(c) = 1
        BY <1>6, <2>1 DEF RootOK
      <4> QED
        BY <4>1
    <3>2. PICK n \in DOMAIN c : c[n] = root
      BY <1>6, <2>1 DEF IsChain
    <3> QED
      BY <1>15, <3>1, <3>2
  <2>2. f.leaf
    BY <1>5 DEF LeafOK
  <2> QED
    BY <1>5, <2>1, <2>2
\* What the three kinds of split have in common.
<1>19. ASSUME Overflows(f), NEW nd2, 1 .. N \subseteq DOMAIN nd2, r \in DOMAIN nd2, nd2[p] = l, nd2[r] = q,
              \A a \in (1 .. N) \ {p} : nd2[a].leaf <=> nd[a].leaf,
              \A a \in (1 .. N) \ {p} : nd[a].leaf => nd2[a] = nd[a],
              \A a \in DOMAIN nd2 \ ((1 .. N) \cup {r}) : ~nd2[a].leaf
       PROVE  /\ Splits(nd, nd2, p, r) /\ LeavesOK(nd2, R)
              /\ u \in KeysOf(nd2[r]) /\ u \in Int /\ \A y \in KeysOf(nd2[r]) : u <= y
  <2>1. Len(f.keys) >= 2
    <3>1. Len(f.keys) \in Nat
      BY <1>5 DEF LeafOK, NodeT
    <3> QED
      BY <1>19, <3>1, TreeAssumption DEF Overflows
  <2>2. /\ p \in DOMAIN nd /\ LeafOK(nd[p], R) /\ Len(nd[p].keys) >= 2 /\ Len(nd[p].keys) <= MaxKeys
        /\ r \in Nat /\ r \notin DOMAIN nd /\ DOMAIN nd \subseteq DOMAIN nd2
        /\ nd2[p] = LeftHalf(nd[p], r) /\ nd2[r] = RightHalf(nd[p])
    BY <1>5, <1>6, <1>8, <1>9, <1>17, <1>19, <2>1
  <2>3. /\ \A a \in DOMAIN nd \ {p} : nd2[a].leaf <=> nd[a].leaf
        /\ \A a \in DOMAIN nd \ {p} : nd[a].leaf => nd2[a] = nd[a]
        /\ \A a \in DOMAIN nd2 \ (DOMAIN nd \cup {r}) : ~nd2[a].leaf
    BY <1>6, <1>19
  <2>4. /\ Splits(nd, nd2, p, r) /\ LeavesOK(nd2, R)
        /\ nd2[r].keys[1] \in KeysOf(nd2[r]) /\ nd2[r].keys[1] \in Int
        /\ \A y \in KeysOf(nd2[r]) : nd2[r].keys[1] <= y
    BY <1>13, <1>19, <2>2, <2>3, HalvesSplit
  <2> QED
    BY <1>10, <1>19, <2>4
<1>20. CASE /\ Overflows(f) /\ p = root
            /\ nodes' = WithNodes([a \in {p, r, r + 1} |->
                          IF a = p THEN l ELSE IF a = r THEN q ELSE NewInternalNode(<<u>>, <<p, r>>)])
            /\ root' = (IF locked THEN root ELSE r + 1)
            /\ phase' = (IF locked THEN "blocked" ELSE phase)
            /\ failed' = failed
  <2>1. DOMAIN nodes' = 1 .. N + 2
    <3>1. DOMAIN nodes' = (1 .. N) \cup {p, r, r + 1}
      BY <1>6, <1>20 DEF WithNodes
    <3> QED
      BY <1>7, <1>17, <3>1, SMTT(40)
  <2>2. /\ nodes'[p] = l /\ nodes'[r] = q /\ nodes'[r + 1] = NewInternalNode(<<u>>, <<p, r>>)
        /\ \A a \in (1 .. N) \ {p} : nodes'[a] = nodes[a]
    BY <1>6, <1>17, <1>20 DEF WithNodes
  <2>3. /\ Splits(nd, nodes', p, r) /\ LeavesOK(nodes', R)
        /\ u \in KeysOf(nodes'[r]) /\ u \in Int /\ \A y \in KeysOf(nodes'[r]) : u <= y
    <3>1. \A a \in (1 .. N) \ {p} : nodes'[a] = nd[a]
      BY <1>5, <1>6, <2>2
    <3>2. 1 .. N \subseteq DOMAIN nodes' /\ r \in DOMAIN nodes'
      BY <1>7, <2>1
    <3>3. ~nodes'[r + 1].leaf
      BY <2>2 DEF NewInternalNode
    <3>4. \A a \in DOMAIN nodes' \ ((1 .. N) \cup {r}) : a = r + 1
      BY <1>7, <2>1, SMTT(40)
    <3> QED
      BY <1>19, <1>20, <2>2, <3>1, <3>2, <3>3, <3>4
  <2>4. KeysOf(nd[root]) \subseteq Int /\ nd[root].leaf
    BY <1>15, <1>16, <1>18, <1>20
  <2>5. PICK c2 \in Seq(Nat) : /\ Shape(nodes', N + 2, J, failed, phase, N + 2, c2)
                               /\ Shape(nodes', root, J, failed, "blocked", N + 2, c2)
    <3>1. /\ Splits(nd, nodes', root, N + 1)
          /\ u \in KeysOf(nodes'[N + 1]) /\ \A y \in KeysOf(nodes'[N + 1]) : u <= y
          /\ nodes'[N + 2] = NewInternalNode(<<u>>, <<root, N + 1>>)
      BY <1>7, <1>17, <1>20, <2>2, <2>3
    <3> QED
      BY <1>5, <2>1, <2>4, <3>1, NewRootShape
  <2>6. N + 2 \in Nat
    OBVIOUS
  <2>7. CASE locked
    BY <1>4, <1>20, <2>3, <2>5, <2>6, <2>7
  <2>8. CASE ~locked
    BY <1>4, <1>17, <1>20, <2>3, <2>5, <2>6, <2>8
  <2> QED
    BY <2>7, <2>8
<1>21. CASE /\ Overflows(f) /\ p # root
            /\ nodes' = WithNodes([a \in {p, r, root} |-> IF a = p THEN l ELSE IF a = r THEN q ELSE up])
            /\ root' = root /\ failed' = failed /\ phase' = phase
  <2>1. DOMAIN nodes' = 1 .. N + 1
    <3>1. DOMAIN nodes' = (1 .. N) \cup {p, r, root}
      BY <1>6, <1>21 DEF WithNodes
    <3>2. (1 .. N) \cup {r} = 1 .. N + 1
      BY <1>7
    <3> QED
      BY <1>6, <1>17, <3>1, <3>2
  <2>2. /\ nodes'[p] = l /\ nodes'[r] = q /\ nodes'[root] = up
        /\ \A a \in (1 .. N) \ {p, root} : nodes'[a] = nodes[a]
    BY <1>6, <1>17, <1>21 DEF WithNodes
  <2>3. ~nd[root].leaf /\ nd[root] = nodes[root]
    BY <1>5, <1>6, <1>18, <1>21
  <2>4. up.leaf = nodes[root].leaf
    <3>1. nodes[root] \in NodeT
      BY <1>6, <2>3 DEF RootOK
    <3> QED
      BY <1>11, <3>1, InsertedLeaf
  <2>5. /\ Splits(nd, nodes', p, r) /\ LeavesOK(nodes', R)
        /\ u \in KeysOf(nodes'[r]) /\ u \in Int /\ \A y \in KeysOf(nodes'[r]) : u <= y
    <3>1. \A a \in (1 .. N) \ {p, root} : nodes'[a] = nd[a]
      BY <1>5, <1>6, <2>2
    <3>2. 1 .. N \subseteq DOMAIN nodes' /\ r \in DOMAIN nodes'
      BY <1>7, <2>1
    <3>3. ~nodes'[root].leaf
      BY <2>2, <2>3, <2>4
    <3>4. DOMAIN nodes' \ ((1 .. N) \cup {r}) = {}
      BY <1>7, <2>1
    <3>5. \A a \in (1 .. N) \ {p} : nodes'[a].leaf <=> nd[a].leaf
      BY <2>3, <3>1, <3>3
    <3>6. \A a \in (1 .. N) \ {p} : nd[a].leaf => nodes'[a] = nd[a]
      BY <2>3, <3>1
    <3> QED
      BY <1>19, <1>21, <2>2, <3>2, <3>4, <3>5, <3>6
  <2>6. PICK c2 \in Seq(Nat) : Shape(nodes', root, J, failed, phase, N + 1, c2)
    <3>1. /\ Splits(nd, nodes', c[m], N + 1)
          /\ u \in KeysOf(nodes'[N + 1]) /\ \A y \in KeysOf(nodes'[N + 1]) : u <= y
          /\ nodes'[root] = insertIntoNodeArrays(nd[root], u, N + 1)
      BY <1>7, <1>11, <1>15, <2>2, <2>3, <2>5
    <3> QED
      BY <1>5, <1>16, <2>1, <2>3, <3>1, RootTakesShape
  <2>7. N + 1 \in Nat
    OBVIOUS
  <2> QED
    BY <1>4, <1>21, <2>5, <2>6, <2>7
<1>22. CASE /\ Overflows(f) /\ p # root
            /\ nodes' = WithNodes([a \in {p, r} |-> IF a = p THEN l ELSE q])
            /\ root' = root /\ failed' = TRUE /\ phase' = phase
  <2>1. DOMAIN nodes' = 1 .. N + 1
    <3>1. DOMAIN nodes' = (1 .. N) \cup {p, r}
      BY <1>6, <1>22 DEF WithNodes
    <3>2. (1 .. N) \cup {r} = 1 .. N + 1
      BY <1>7
    <3> QED
      BY <1>6, <1>17, <3>1, <3>2
  <2>2. /\ nodes'[p] = l /\ nodes'[r] = q
        /\ \A a \in (1 .. N) \ {p} : nodes'[a] = nodes[a]
    BY <1>6, <1>17, <1>22 DEF WithNodes
  <2>3. \A a \in (1 .. N) \ {p} : nodes'[a] = nd[a]
    BY <1>5, <1>6, <2>2
  <2>4. Splits(nd, nodes', p, r) /\ LeavesOK(nodes', R)
    <3>1. 1 .. N \subseteq DOMAIN nodes' /\ r \in DOMAIN nodes'
      BY <1>7, <2>1
    <3>2. DOMAIN nodes' \ ((1 .. N) \cup {r}) = {}
      BY <1>7, <2>1
    <3> QED
      BY <1>19, <1>22, <2>2, <2>3, <3>1, <3>2
  <2>5. ~nd[root].leaf /\ nodes'[root] = nd[root]
    BY <1>6, <1>18, <1>22, <2>3
  <2>6. PICK c2 \in Seq(Nat) : Shape(nodes', root, J, TRUE, phase, N + 1, c2)
    <3>1. Splits(nd, nodes', c[m], N + 1)
      BY <1>7, <1>15, <2>4
    <3> QED
      BY <1>5, <1>16, <2>1, <2>5, <3>1, FailedShape
  <2>7. N + 1 \in Nat
    OBVIOUS
  <2> QED
    BY <1>4, <1>22, <2>4, <2>6, <2>7
<1> QED
  BY <1>12, <1>14, <1>20, <1>21, <1>22

(***************************************************************************)
(* The invariant holds                                                     *)
(***************************************************************************)

\* The invariant holds before there is an index.
LEMMA InvInit == Init => TInv
<1> SUFFICES ASSUME Init PROVE TInv
  OBVIOUS
<1>1. rows = <<>> /\ filled = 0 /\ failed = FALSE /\ phase = "none"
  BY DEF Init
<1>2. rows \in Seq(Key) /\ Len(rows) = 0
  BY <1>1
<1>3. filled \in 0 .. Len(rows)
  BY <1>1, <1>2
<1>4. failed \in BOOLEAN
  BY <1>1
<1> QED
  BY <1>1, <1>2, <1>3, <1>4 DEF TInv

\* Insertion of row id, the new member of what is indexed.
LEMMA InsertInv ==
  ASSUME TInv, phase \in {"building", "ready"}, rows' \in Seq(Key),
         \A i \in DOMAIN rows : i \in DOMAIN rows' /\ rows'[i] = rows[i],
         NEW id \in DOMAIN rows', id \notin Indexed, NEW locked \in BOOLEAN,
         InsertIntoIndex(rows'[id], id, locked),
         (locked => phase = "building"), (phase' \in {phase, "blocked"} => Indexed' = Indexed \cup {id})
  PROVE  TreeInv' /\ failed' \in BOOLEAN /\ phase' \in {phase, "blocked"}
<1>1. PICK N \in Nat, c \in Seq(Nat) : TreeOK(N, c)
  BY DEF TInv, TreeInv
<1>2. Shape(nodes, root, Indexed, failed, phase, N, c) /\ LeavesOK(nodes, rows)
  BY <1>1 DEF TreeOK
<1>3. LeavesOK(nodes, rows')
  <2>1. ASSUME NEW p \in DOMAIN nodes, nodes[p].leaf
        PROVE  LeafOK(nodes[p], rows') /\ Len(nodes[p].keys) < MaxKeys
    <3>1. LeafOK(nodes[p], rows) /\ Len(nodes[p].keys) < MaxKeys
      BY <1>2, <2>1 DEF LeavesOK
    <3> QED
      BY <3>1, LeafMoreRows
  <2> QED
    BY <2>1 DEF LeavesOK
<1>4. PICK k \in Int : k = rows'[id]
  <2>1. rows'[id] \in Key
    OBVIOUS
  <2> QED
    BY <2>1, TreeAssumption
<1>5. id \in Nat /\ InsertIntoIndex(k, id, locked) /\ phase # "blocked" /\ failed \in BOOLEAN
  BY <1>4 DEF TInv
<1>6. /\ \E N2 \in Nat, c2 \in Seq(Nat) : Shape(nodes', root', Indexed \cup {id}, failed', phase', N2, c2)
      /\ LeavesOK(nodes', rows')
      /\ phase' \in {phase, "blocked"} /\ failed' \in BOOLEAN
  <2>1. PICK I : I = Indexed
    OBVIOUS
  <2>2. PICK R : R = rows'
    OBVIOUS
  <2>3. /\ id \in DOMAIN R /\ R[id] = k /\ id \notin I
        /\ Shape(nodes, root, I, failed, phase, N, c) /\ LeavesOK(nodes, R)
    BY <1>2, <1>3, <1>4, <2>1, <2>2
  <2>4. /\ \E N2 \in Nat, c2 \in Seq(Nat) : Shape(nodes', root', I \cup {id}, failed', phase', N2, c2)
        /\ LeavesOK(nodes', R)
        /\ phase' \in {phase, "blocked"} /\ failed' \in BOOLEAN
    BY <1>5, <2>3, InsertStep
  <2> QED
    BY <2>1, <2>2, <2>4
<1>7. PICK N2 \in Nat, c2 \in Seq(Nat) : Shape(nodes', root', Indexed', failed', phase', N2, c2)
  BY <1>6
<1> QED
  BY <1>6, <1>7 DEF TreeInv, TreeOK

\* Every step keeps the invariant.
LEMMA InvNext == TInv /\ [Next]_tvars => TInv'
<1> SUFFICES ASSUME TInv, [Next]_tvars PROVE TInv'
  OBVIOUS
<1>0. /\ rows \in Seq(Key) /\ Len(rows) \in Nat /\ DOMAIN rows = 1 .. Len(rows)
      /\ filled \in 0 .. Len(rows) /\ filled \in Nat /\ filled <= Len(rows) /\ failed \in BOOLEAN
      /\ phase \in {"none", "building", "blocked", "ready"}
      /\ phase = "none" => filled = 0
      /\ phase # "none" => TreeInv
  BY DEF TInv
<1>1. ASSUME NEW k \in Key, InsertPlain(k) PROVE TInv'
  <2>1. rows' = Append(rows, k) /\ rows' \in Seq(Key) /\ Len(rows') = Len(rows) + 1
    BY <1>0, <1>1 DEF InsertPlain
  <2>2. phase' = "none" /\ filled' = 0 /\ failed' \in BOOLEAN
    BY <1>0, <1>1 DEF InsertPlain
  <2>3. filled' \in 0 .. Len(rows')
    BY <1>0, <2>1, <2>2
  <2> QED
    BY <2>1, <2>2, <2>3 DEF TInv
<1>2. ASSUME NEW k \in Key, InsertIndexed(k) PROVE TInv'
  <2>1. PICK id \in Nat : id = Len(rows) + 1
    BY <1>0
  <2>2. /\ rows' = Append(rows, k) /\ rows' \in Seq(Key) /\ Len(rows') = id
        /\ DOMAIN rows' = 1 .. id /\ rows'[id] = k
        /\ \A i \in 1 .. Len(rows) : rows'[i] = rows[i]
    BY <1>0, <1>2, <2>1 DEF InsertIndexed
  <2>3. phase = "ready" /\ filled' = filled /\ InsertIntoIndex(k, id, FALSE)
    BY <1>2, <2>1 DEF InsertIndexed
  <2>4. phase' = phase
    BY <2>3 DEF InsertIntoIndex
  <2>5. Indexed = 1 .. Len(rows) /\ Indexed' = 1 .. id
    BY <1>0, <2>2, <2>3, <2>4 DEF Indexed
  <2>6. id \in DOMAIN rows' /\ id \notin Indexed /\ Indexed' = Indexed \cup {id}
    BY <1>0, <2>1, <2>2, <2>5
  <2>7. \A i \in DOMAIN rows : i \in DOMAIN rows' /\ rows'[i] = rows[i]
    BY <1>0, <2>1, <2>2
  <2>8. TreeInv' /\ failed' \in BOOLEAN
    <3>1. InsertIntoIndex(rows'[id], id, FALSE) /\ phase \in {"building", "ready"} /\ FALSE \in BOOLEAN
      BY <2>2, <2>3
    <3> QED
      BY <2>2, <2>6, <2>7, <3>1, InsertInv
  <2>9. filled' \in 0 .. Len(rows')
    BY <1>0, <2>1, <2>2, <2>3
  <2> QED
    BY <2>2, <2>3, <2>4, <2>8, <2>9 DEF TInv
<1>3. ASSUME CreateIndex PROVE TInv'
  <2>1. /\ rows' = rows /\ filled' = 0 /\ failed' = failed /\ root' = 1 /\ phase' = "building"
        /\ nodes' = [p \in {1} |-> NewLeafNode(<<>>, <<>>, NoLeaf)]
    BY <1>0, <1>3 DEF CreateIndex
  <2>2. PICK nd : nd = nodes'
    OBVIOUS
  <2>3. DOMAIN nd = {1} /\ nd[1] = [leaf |-> TRUE, keys |-> <<>>, ptrs |-> <<>>, next |-> NoLeaf]
    BY <2>1, <2>2 DEF NewLeafNode
  <2>4. LeafOK(nd[1], rows) /\ Len(nd[1].keys) < MaxKeys /\ KeysOf(nd[1]) = {} /\ RowsOf(nd[1]) = {} /\ nd[1].leaf
    <3>1. nd[1] \in NodeT
      <4>1. <<>> \in Seq(Int) /\ <<>> \in Seq(Nat) /\ NoLeaf \in Int
        BY DEF NoLeaf
      <4> QED
        BY <2>3, <4>1 DEF NodeT
    <3>2. DOMAIN nd[1].keys = {} /\ Len(nd[1].keys) = 0 /\ Len(nd[1].ptrs) = 0
      BY <2>3
    <3> QED
      BY <2>3, <3>1, <3>2, TreeAssumption DEF LeafOK, KeysOf, RowsOf
  <2>5. PICK c \in Seq(Nat) : c = <<1>> /\ Len(c) = 1 /\ DOMAIN c = {1} /\ c[1] = 1
    <3>1. <<1>> \in Seq(Nat) /\ Len(<<1>>) = 1 /\ <<1>>[1] = 1
      OBVIOUS
    <3>2. DOMAIN <<1>> = 1 .. 1 /\ 1 .. 1 = {1}
      OBVIOUS
    <3> QED
      BY <3>1, <3>2
  <2>6. IsChain(nd, c)
    BY <2>3, <2>4, <2>5 DEF IsChain
  <2>7. Indexed' = {}
    BY <2>1 DEF Indexed
  <2>8. RowsOK(nd, {})
    BY <2>3, <2>4 DEF RowsOK
  <2>9. Ordered(nd, c) /\ RootOK(nd, 1, c) /\ Separated(nd, 1, c)
    BY <2>4, <2>5 DEF Ordered, RootOK, Separated
  <2>10. Shape(nd, 1, {}, failed, "building", 1, c)
    <3>1. DOMAIN nd = 1 .. 1 /\ 1 \in 1 .. 1 /\ Len(c) <= 1
      BY <2>3, <2>5
    <3> QED
      BY <2>6, <2>8, <2>9, <3>1 DEF Shape
  <2>11. LeavesOK(nd, rows)
    BY <2>3, <2>4 DEF LeavesOK
  <2>12. TreeInv'
    <3>1. TreeOK(1, c)'
      BY <2>1, <2>2, <2>7, <2>10, <2>11 DEF TreeOK
    <3> QED
      BY <3>1 DEF TreeInv
  <2>13. filled' \in 0 .. Len(rows')
    BY <1>0, <2>1
  <2> QED
    BY <1>0, <2>1, <2>12, <2>13 DEF TInv
<1>4. ASSUME BackfillRow PROVE TInv'
  <2>1. PICK id \in Nat : id = filled + 1
    BY <1>0
  <2>2. /\ phase = "building" /\ rows' = rows /\ filled' = id /\ id \in 1 .. Len(rows)
        /\ InsertIntoIndex(rows[id], id, TRUE)
    <3>1. /\ phase = "building" /\ rows' = rows /\ filled' = filled + 1 /\ filled < Len(rows)
          /\ InsertIntoIndex(rows[filled + 1], filled + 1, TRUE)
      BY <1>4 DEF BackfillRow
    <3>2. id \in 1 .. Len(rows)
      BY <1>0, <2>1, <3>1
    <3> QED
      BY <2>1, <3>1, <3>2
  <2>3. Indexed = 1 .. filled /\ (phase' \in {phase, "blocked"} => Indexed' = 1 .. id)
    BY <2>2 DEF Indexed
  <2>4. id \in DOMAIN rows' /\ id \notin Indexed /\ 1 .. id = (1 .. filled) \cup {id}
    BY <1>0, <2>1, <2>2, <2>3
  <2>5. TreeInv' /\ failed' \in BOOLEAN /\ phase' \in {phase, "blocked"}
    <3>1. /\ InsertIntoIndex(rows'[id], id, TRUE) /\ phase \in {"building", "ready"} /\ TRUE \in BOOLEAN
          /\ rows' \in Seq(Key) /\ \A i \in DOMAIN rows : i \in DOMAIN rows' /\ rows'[i] = rows[i]
          /\ (phase' \in {phase, "blocked"} => Indexed' = Indexed \cup {id})
      BY <1>0, <2>2, <2>3, <2>4
    <3> QED
      BY <2>2, <2>4, <3>1, InsertInv
  <2>6. filled' \in 0 .. Len(rows')
    BY <1>0, <2>2
  <2> QED
    BY <1>0, <2>2, <2>5, <2>6 DEF TInv
<1>5. ASSUME FinishIndex PROVE TInv'
  <2>1. /\ phase = "building" /\ phase' = "ready" /\ filled = Len(rows)
        /\ rows' = rows /\ nodes' = nodes /\ root' = root /\ filled' = filled /\ failed' = failed
    BY <1>5 DEF FinishIndex
  <2>2. Indexed' = Indexed
    BY <1>0, <2>1 DEF Indexed
  <2>3. PICK N \in Nat, c \in Seq(Nat) : TreeOK(N, c)
    BY <1>0, <2>1 DEF TreeInv
  <2>4. TreeOK(N, c)'
    BY <2>1, <2>2, <2>3 DEF TreeOK, Shape
  <2> QED
    BY <1>0, <2>1, <2>4 DEF TInv, TreeInv
<1>6. CASE UNCHANGED tvars
  <2>1. UNCHANGED <<rows, nodes, root, phase, filled, failed>>
    BY <1>6 DEF tvars
  <2>2. Indexed' = Indexed
    BY <2>1 DEF Indexed
  <2>3. TreeInv => TreeInv'
    BY <2>1, <2>2 DEF TreeInv, TreeOK
  <2> QED
    BY <1>0, <2>1, <2>3 DEF TInv
<1> QED
  BY <1>1, <1>2, <1>3, <1>4, <1>5, <1>6 DEF Next

\* Every reachable state has a tree in shape: the leaves form one chain, share
\* the indexed rows, are sorted and not full, and, as long as no insertion has
\* failed and equal keys share a leaf, the root's separators part them.
THEOREM TreeInvariant == Spec => []TInv
<1>1. TInv /\ [Next]_tvars => TInv'
  BY InvNext
<1> QED
  BY InvInit, <1>1, PTL DEF Spec

(***************************************************************************)
(* Walks along the links.  The leaves a walk has seen after n steps are    *)
(* the part of the chain from position m on, up to position e at most.     *)
(***************************************************************************)

Seen(c, m, e, n) == SubSeq(c, m, IF m + n - 1 <= e THEN m + n - 1 ELSE e)

LastOf(s) == s[Len(s)]

\* Two sequences with the same elements are the same.
LEMMA SameSequence ==
  ASSUME NEW s \in Seq(Nat), NEW t \in Seq(Nat), Len(s) = Len(t), \A i \in 1 .. Len(s) : s[i] = t[i]
  PROVE  s = t
OBVIOUS

IsRange(s, c, m, j) ==
  s \in Seq(Nat) /\ Len(s) = j - m + 1 /\ \A i \in 1 .. j - m + 1 : s[i] = c[m + i - 1]

\* SubSeq, in terms of first and last position.
LEMMA SubSeqRange ==
  ASSUME NEW c \in Seq(Nat), NEW n \in Nat, n = Len(c), NEW m \in 1 .. n, NEW j \in 1 .. n, m <= j,
         NEW s, s = SubSeq(c, m, j)
  PROVE  IsRange(s, c, m, j)
BY DEF IsRange

\* The last element of a part of a sequence, and the part one longer.
LEMMA SubSeqEnds ==
  ASSUME NEW c \in Seq(Nat), NEW m \in DOMAIN c, NEW j \in DOMAIN c, m <= j
  PROVE  /\ LastOf(SubSeq(c, m, j)) = c[j]
         /\ m = j => SubSeq(c, m, j) = <<c[m]>>
         /\ j + 1 \in DOMAIN c => SubSeq(c, m, j + 1) = Append(SubSeq(c, m, j), c[j + 1])
<1>1. PICK n \in Nat : n = Len(c) /\ DOMAIN c = 1 .. n
  OBVIOUS
<1>2. m \in 1 .. n /\ j \in 1 .. n
  BY <1>1
<1>3. PICK s : s = SubSeq(c, m, j)
  OBVIOUS
<1>4. s \in Seq(Nat) /\ Len(s) = j - m + 1 /\ \A i \in 1 .. j - m + 1 : s[i] = c[m + i - 1]
  <2>1. IsRange(s, c, m, j)
    BY <1>1, <1>2, <1>3, SubSeqRange
  <2> QED
    BY <2>1 DEF IsRange
<1>5. LastOf(s) = c[j]
  <2>1. j - m + 1 \in 1 .. j - m + 1 /\ m + (j - m + 1) - 1 = j
    BY <1>2
  <2>2. s[j - m + 1] = c[m + (j - m + 1) - 1]
    BY <1>4, <2>1
  <2> QED
    BY <1>4, <2>1, <2>2 DEF LastOf
<1>6. ASSUME m = j PROVE s = <<c[m]>>
  <2>1. j - m + 1 = 1 /\ m + 1 - 1 = m
    BY <1>2, <1>6
  <2>2. Len(s) = 1 /\ s[1] = c[m]
    BY <1>4, <2>1
  <2>3. <<c[m]>> \in Seq(Nat) /\ Len(<<c[m]>>) = 1 /\ <<c[m]>>[1] = c[m]
    OBVIOUS
  <2>4. \A i \in 1 .. 1 : i = 1
    OBVIOUS
  <2> QED
    BY <1>4, <2>2, <2>3, <2>4, SameSequence
<1>7. ASSUME j + 1 \in DOMAIN c PROVE SubSeq(c, m, j + 1) = Append(s, c[j + 1])
  <2>1. PICK t : t = SubSeq(c, m, j + 1)
    OBVIOUS
  <2>2. PICK a : a = Append(s, c[j + 1])
    OBVIOUS
  <2>3. t \in Seq(Nat) /\ Len(t) = j - m + 2 /\ \A i \in 1 .. j - m + 2 : t[i] = c[m + i - 1]
    <3>1. PICK d \in 1 .. n : d = j + 1
      BY <1>1, <1>7
    <3>2. t = SubSeq(c, m, d) /\ m <= d /\ d - m + 1 = j - m + 2
      <4>1. t = SubSeq(c, m, d)
        BY <2>1, <3>1
      <4>2. m \in Int /\ j \in Int /\ m <= j
        BY <1>2
      <4>3. m <= d /\ d - m + 1 = j - m + 2
        BY ONLY <3>1, <4>2
      <4> QED
        BY <4>1, <4>3
    <3>3. t \in Seq(Nat) /\ Len(t) = d - m + 1 /\ \A i \in 1 .. d - m + 1 : t[i] = c[m + i - 1]
      <4>1. IsRange(t, c, m, d)
        BY <1>1, <1>2, <3>2, SubSeqRange
      <4> QED
        BY <4>1 DEF IsRange
    <3> QED
      BY <3>2, <3>3
  <2>4. /\ a \in Seq(Nat) /\ Len(a) = j - m + 2 /\ a[j - m + 2] = c[j + 1]
        /\ \A i \in 1 .. j - m + 1 : a[i] = s[i]
    <3>1. c[j + 1] \in Nat
      BY <1>7
    <3>2. Len(a) = Len(s) + 1 /\ a \in Seq(Nat) /\ a[Len(s) + 1] = c[j + 1]
          /\ \A i \in 1 .. Len(s) : a[i] = s[i]
      BY <1>4, <2>2, <3>1, SMTT(40)
    <3>3. (j - m + 1) + 1 = j - m + 2
      BY <1>2
    <3> QED
      BY <1>4, <3>2, <3>3
  <2>5. ASSUME NEW i \in 1 .. j - m + 2 PROVE t[i] = a[i]
    <3>1. CASE i = j - m + 2
      <4>0. m \in Int /\ j \in Int
        BY <1>2
      <4>1. m + i - 1 = j + 1
        BY ONLY <3>1, <4>0, SMTT(40)
      <4>2. t[i] = c[m + i - 1]
        BY <2>3
      <4> QED
        BY <2>4, <3>1, <4>1, <4>2
    <3>2. CASE i # j - m + 2
      <4>0. m \in Int /\ j \in Int /\ i \in 1 .. j - m + 2
        BY <1>2
      <4>1. i \in 1 .. j - m + 1
        BY ONLY <3>2, <4>0, SMTT(40)
      <4> QED
        BY <1>4, <2>3, <2>4, <4>1
    <3> QED
      BY <3>1, <3>2
  <2>6. t = a
    BY <2>3, <2>4, <2>5, SameSequence
  <2> QED
    BY <2>1, <2>2, <2>6
<1> QED
  BY <1>3, <1>5, <1>6, <1>7

\* What step n adds to what has been seen.
SeenStep(c, m, e, n) ==
  /\ n = 1 => Seen(c, m, e, n) = <<c[m]>>
  /\ n # 1 => \E j \in m .. e :
                /\ LastOf(Seen(c, m, e, n - 1)) = c[j]
                /\ j < e => Seen(c, m, e, n) = Append(Seen(c, m, e, n - 1), c[j + 1])
                /\ j = e => Seen(c, m, e, n) = Seen(c, m, e, n - 1)

\* A walk that has reached e stays there, one that has not goes on by one leaf.
LEMMA SeenSteps ==
  ASSUME NEW c \in Seq(Nat), NEW m \in DOMAIN c, NEW e \in DOMAIN c, m <= e, NEW n \in Nat, n >= 1
  PROVE  SeenStep(c, m, e, n)
<1>1. PICK l \in Nat : l = Len(c) /\ DOMAIN c = 1 .. l
  OBVIOUS
<1>2. m \in 1 .. l /\ e \in 1 .. l
  BY <1>1
<1>3. ASSUME n = 1 PROVE Seen(c, m, e, n) = <<c[m]>>
  <2>1. m + n - 1 = m /\ m <= e
    BY <1>2, <1>3
  <2>2. Seen(c, m, e, n) = SubSeq(c, m, m)
    BY <2>1 DEF Seen
  <2>3. m <= m
    BY <1>2
  <2> QED
    BY <2>2, <2>3, SubSeqEnds
<1>4. ASSUME n # 1
      PROVE  \E j \in m .. e :
                /\ LastOf(Seen(c, m, e, n - 1)) = c[j]
                /\ j < e => Seen(c, m, e, n) = Append(Seen(c, m, e, n - 1), c[j + 1])
                /\ j = e => Seen(c, m, e, n) = Seen(c, m, e, n - 1)
  <2>1. PICK j : j = IF m + (n - 1) - 1 <= e THEN m + (n - 1) - 1 ELSE e
    OBVIOUS
  <2>2. j \in m .. e /\ j \in 1 .. l /\ m <= j
    BY <1>2, <1>4, <2>1
  <2>3. Seen(c, m, e, n - 1) = SubSeq(c, m, j)
    BY <2>1 DEF Seen
  <2>4. /\ LastOf(SubSeq(c, m, j)) = c[j]
        /\ j + 1 \in DOMAIN c => SubSeq(c, m, j + 1) = Append(SubSeq(c, m, j), c[j + 1])
    BY <1>1, <2>2, SubSeqEnds
  <2>5. ASSUME j < e PROVE Seen(c, m, e, n) = SubSeq(c, m, j + 1) /\ j + 1 \in DOMAIN c
    <3>1. m + n - 1 = j + 1 /\ j + 1 <= e /\ j + 1 \in 1 .. l
      BY <1>2, <1>4, <2>1, <2>2, <2>5, SMTT(40)
    <3> QED
      BY <1>1, <3>1 DEF Seen
  <2>6. ASSUME j = e PROVE Seen(c, m, e, n) = SubSeq(c, m, j)
    <3>1. ~(m + n - 1 <= e)
      BY <1>2, <1>4, <2>1, <2>2, <2>6
    <3> QED
      BY <2>6, <3>1 DEF Seen
  <2> QED
    BY <2>2, <2>3, <2>4, <2>5, <2>6
<1> QED
  BY <1>3, <1>4 DEF SeenStep

\* A walk through the nodes nd that goes on from the pages of S.
Follows(v, nd, N, a, S) ==
  /\ v[1] = <<a>>
  /\ \A n \in 2 .. N : LastOf(v[n - 1]) \in S => v[n] = Append(v[n - 1], nd[LastOf(v[n - 1])].next)
  /\ \A n \in 2 .. N : LastOf(v[n - 1]) \in DOMAIN nd \ S => v[n] = v[n - 1]

\* Along the chain c the walk goes on from every leaf from m to e but e.
GoesTo(c, m, e, nd, S) ==
  /\ c[e] \in DOMAIN nd \ S
  /\ \A j \in m .. e - 1 : c[j] \in DOMAIN nd /\ c[j] \in S

\* Such a walk sees what Seen says, whichever function it is.
LEMMA WalkIs ==
  ASSUME NEW nd, NEW c, IsChain(nd, c), NEW m \in DOMAIN c, NEW e \in DOMAIN c, m <= e,
         NEW S, GoesTo(c, m, e, nd, S), NEW N \in Nat, NEW v, Follows(v, nd, N, c[m], S),
         NEW n \in 1 .. N
  PROVE  v[n] = Seen(c, m, e, n)
<1>1. c \in Seq(Nat)
  BY DEF IsChain
<1>2. PICK l \in Nat : l = Len(c) /\ DOMAIN c = 1 .. l /\ m \in 1 .. l /\ e \in 1 .. l
  BY <1>1
<1> DEFINE B == {i \in 1 .. N : v[i] # Seen(c, m, e, i)}
<1>3. B = {}
  <2> SUFFICES ASSUME B # {} PROVE FALSE
    OBVIOUS
  <2>1. PICK b \in B : \A y \in B : b <= y
    <3>1. B \subseteq Nat
      OBVIOUS
    <3> QED
      BY <3>1, LeastNumber
  <2>2. b \in 1 .. N /\ v[b] # Seen(c, m, e, b) /\ b \in Nat /\ b >= 1
    BY <2>1
  <2>3. SeenStep(c, m, e, b)
    BY <1>1, <2>2, SeenSteps
  <2>4. CASE b = 1
    BY <2>2, <2>3, <2>4 DEF SeenStep, Follows
  <2>5. CASE b # 1
    <3>1. b \in 2 .. N /\ b - 1 \in 1 .. N /\ ~(b <= b - 1)
      BY <2>2, <2>5
    <3>2. v[b - 1] = Seen(c, m, e, b - 1)
      BY <2>1, <3>1
    <3>3. PICK j \in m .. e :
                /\ LastOf(v[b - 1]) = c[j]
                /\ j < e => Seen(c, m, e, b) = Append(v[b - 1], c[j + 1])
                /\ j = e => Seen(c, m, e, b) = v[b - 1]
      BY <2>3, <2>5, <3>2 DEF SeenStep
    <3>4. CASE j = e
      BY <2>2, <3>1, <3>3, <3>4 DEF Follows, GoesTo
    <3>5. CASE j # e
      <4>1. j \in m .. e - 1 /\ j < e /\ j \in DOMAIN c /\ j # l
        BY <1>2, <3>5
      <4>2. nd[c[j]].next = c[j + 1]
        BY <1>2, <4>1 DEF IsChain
      <4>3. c[j] \in S
        BY <4>1 DEF GoesTo
      <4>4. v[b] = Append(v[b - 1], c[j + 1])
        BY <3>1, <3>3, <4>2, <4>3 DEF Follows
      <4> QED
        BY <2>2, <3>3, <4>1, <4>4
    <3> QED
      BY <3>4, <3>5
  <2> QED
    BY <2>4, <2>5
<1> QED
  BY <1>3

\* The equation of the recursive function in Chain.
ChainEq(w) ==
  w = [n \in 1 .. Cardinality(DOMAIN nodes) |->
        IF n = 1 THEN <<1>>
        ELSE IF nodes[w[n - 1][Len(w[n - 1])]].next # NoLeaf
             THEN Append(w[n - 1], nodes[w[n - 1][Len(w[n - 1])]].next)
             ELSE w[n - 1]]

\* If the equation has a solution, Chain is taken from one.
LEMMA ChainUnfold ==
  ASSUME NEW w, ChainEq(w)
  PROVE  \E v : ChainEq(v) /\ Chain = v[Cardinality(DOMAIN nodes)]
BY DEF ChainEq, Chain

\* Chain is the chain of the invariant.
LEMMA ChainIs ==
  ASSUME NEW N \in Nat, NEW c, DOMAIN nodes = 1 .. N, Len(c) <= N, IsChain(nodes, c)
  PROVE  Chain = c
<1>1. c \in Seq(Nat) /\ c[1] = 1
  BY DEF IsChain
<1>2. PICK l \in Nat : l = Len(c) /\ DOMAIN c = 1 .. l /\ 1 <= l /\ l <= N
  BY <1>1 DEF IsChain
<1>3. Cardinality(DOMAIN nodes) = N
  BY PageCount
<1> DEFINE S == {p \in DOMAIN nodes : nodes[p].next # NoLeaf}
<1>4. 1 \in DOMAIN c /\ l \in DOMAIN c
  BY <1>2
<1>5. GoesTo(c, 1, l, nodes, S)
  <2>1. nodes[c[l]].next = NoLeaf /\ c[l] \in DOMAIN nodes
    BY <1>2, <1>4 DEF IsChain
  <2>2. ASSUME NEW j \in 1 .. l - 1 PROVE c[j] \in DOMAIN nodes /\ c[j] \in S
    <3>1. j \in DOMAIN c /\ j + 1 \in DOMAIN c /\ j # l
      BY <1>2
    <3>2. nodes[c[j]].next = c[j + 1] /\ c[j] \in DOMAIN nodes
      BY <1>2, <3>1 DEF IsChain
    <3>3. c[j + 1] \in Nat
      BY <1>1, <3>1
    <3>4. c[j + 1] # NoLeaf
      BY <3>3 DEF NoLeaf
    <3> QED
      BY <3>2, <3>4
  <2> QED
    BY <2>1, <2>2 DEF GoesTo
<1>6. PICK w : w = [n \in 1 .. N |-> Seen(c, 1, l, n)]
  OBVIOUS
<1>7. w = [n \in 1 .. N |->
            IF n = 1 THEN <<1>>
            ELSE IF nodes[w[n - 1][Len(w[n - 1])]].next # NoLeaf
                 THEN Append(w[n - 1], nodes[w[n - 1][Len(w[n - 1])]].next)
                 ELSE w[n - 1]]
  <2>1. ASSUME NEW n \in 1 .. N
        PROVE  w[n] = IF n = 1 THEN <<1>>
                      ELSE IF nodes[w[n - 1][Len(w[n - 1])]].next # NoLeaf
                           THEN Append(w[n - 1], nodes[w[n - 1][Len(w[n - 1])]].next)
                           ELSE w[n - 1]
    <3>0. n \in Nat /\ n >= 1
      OBVIOUS
    <3>1. SeenStep(c, 1, l, n) /\ w[n] = Seen(c, 1, l, n)
      BY <1>1, <1>2, <1>4, <1>6, <3>0, SeenSteps
    <3>2. CASE n = 1
      BY <1>1, <3>1, <3>2 DEF SeenStep
    <3>3. CASE n # 1
      <4>1. n - 1 \in 1 .. N
        BY <3>3
      <4>2. w[n - 1] = Seen(c, 1, l, n - 1)
        BY <1>6, <4>1
      <4>3. PICK j \in 1 .. l :
                /\ w[n - 1][Len(w[n - 1])] = c[j]
                /\ j < l => w[n] = Append(w[n - 1], c[j + 1])
                /\ j = l => w[n] = w[n - 1]
        BY <3>1, <3>3, <4>2 DEF SeenStep, LastOf
      <4>4. CASE j = l
        <5>1. nodes[c[j]].next = NoLeaf
          BY <1>2, <1>4, <4>4 DEF IsChain
        <5> QED
          BY <3>3, <4>3, <4>4, <5>1
      <4>5. CASE j # l
        <5>1. j < l /\ j \in 1 .. l - 1 /\ j \in DOMAIN c
          BY <1>2, <4>5
        <5>2. nodes[c[j]].next = c[j + 1]
          BY <1>2, <4>5, <5>1 DEF IsChain
        <5>3. nodes[c[j]].next # NoLeaf
          BY <1>5, <5>1 DEF GoesTo
        <5> QED
          BY <3>3, <4>3, <5>1, <5>2, <5>3
      <4> QED
        BY <4>4, <4>5
    <3> QED
      BY <3>2, <3>3
  <2> QED
    BY <1>6, <2>1
<1>8. PICK v : /\ Chain = v[N]
               /\ v = [n \in 1 .. N |->
                         IF n = 1 THEN <<1>>
                         ELSE IF nodes[v[n - 1][Len(v[n - 1])]].next # NoLeaf
                              THEN Append(v[n - 1], nodes[v[n - 1][Len(v[n - 1])]].next)
                              ELSE v[n - 1]]
  <2>1. ChainEq(w)
    BY <1>3, <1>7 DEF ChainEq
  <2>2. PICK v : ChainEq(v) /\ Chain = v[Cardinality(DOMAIN nodes)]
    BY <2>1, ChainUnfold
  <2> QED
    BY <1>3, <2>2 DEF ChainEq
<1>9. Follows(v, nodes, N, c[1], S)
  <2>1. v[1] = <<c[1]>>
    BY <1>1, <1>2, <1>8
  <2>2. ASSUME NEW n \in 2 .. N
        PROVE  /\ LastOf(v[n - 1]) \in S => v[n] = Append(v[n - 1], nodes[LastOf(v[n - 1])].next)
               /\ LastOf(v[n - 1]) \in DOMAIN nodes \ S => v[n] = v[n - 1]
    <3>1. n \in 1 .. N /\ n # 1
      OBVIOUS
    <3>2. v[n] = IF nodes[LastOf(v[n - 1])].next # NoLeaf
                 THEN Append(v[n - 1], nodes[LastOf(v[n - 1])].next) ELSE v[n - 1]
      BY <1>8, <3>1, Zenon DEF LastOf
    <3> QED
      BY <3>2
  <2> QED
    BY <2>1, <2>2 DEF Follows
<1>10. v[N] = Seen(c, 1, l, N)
  <2>1. N \in 1 .. N
    BY <1>2
  <2> QED
    BY <1>2, <1>4, <1>5, <1>9, <2>1, WalkIs
<1>11. Seen(c, 1, l, N) = SubSeq(c, 1, l)
  <2>1. (IF 1 + N - 1 <= l THEN 1 + N - 1 ELSE l) = l
    BY <1>2
  <2> QED
    BY <2>1 DEF Seen
<1>12. SubSeq(c, 1, l) = c
  BY <1>1, <1>2
<1> QED
  BY <1>8, <1>10, <1>11, <1>12

\* The equation of the recursive function in Visits.
VisitEq(w, k) ==
  w = [n \in 1 .. Cardinality(DOMAIN nodes) |->
        IF n = 1 THEN <<findLeaf(k)>>
        ELSE IF GoesOn(w[n - 1][Len(w[n - 1])], k)
             THEN Append(w[n - 1], nodes[w[n - 1][Len(w[n - 1])]].next)
             ELSE w[n - 1]]

\* If the equation has a solution, Visits is taken from one.
LEMMA VisitUnfold ==
  ASSUME NEW k, NEW w, VisitEq(w, k)
  PROVE  \E v : VisitEq(v, k) /\ Visits(k) = v[Cardinality(DOMAIN nodes)]
BY DEF VisitEq, Visits

\* The iterator visits the leaves of the chain from position m to position e.
VisitsTo(c, k, m, e) ==
  /\ e \in DOMAIN c /\ m <= e /\ Visits(k) = SubSeq(c, m, e)
  /\ ~GoesOn(c[e], k) /\ \A j \in m .. e - 1 : GoesOn(c[j], k)

\* The iterator visits consecutive leaves, up to the first it does not leave.
LEMMA VisitsIs ==
  ASSUME NEW N \in Nat, NEW c, DOMAIN nodes = 1 .. N, Len(c) <= N, IsChain(nodes, c),
         NEW k, NEW m \in DOMAIN c, c[m] = findLeaf(k)
  PROVE  \E e \in DOMAIN c : VisitsTo(c, k, m, e)
<1>1. c \in Seq(Nat)
  BY DEF IsChain
<1>2. PICK l \in Nat : l = Len(c) /\ DOMAIN c = 1 .. l /\ 1 <= l /\ l <= N
  BY <1>1 DEF IsChain
<1>3. Cardinality(DOMAIN nodes) = N
  BY PageCount
<1> DEFINE S == {p \in DOMAIN nodes : GoesOn(p, k)}
<1>4. PICK e \in m .. l : ~GoesOn(c[e], k) /\ \A j \in m .. e - 1 : GoesOn(c[j], k)
  <2> DEFINE B == {j \in m .. l : ~GoesOn(c[j], k)}
  <2>1. l \in B
    <3>1. nodes[c[l]].next = NoLeaf
      BY <1>2 DEF IsChain
    <3>2. ~GoesOn(c[l], k)
      BY <3>1 DEF GoesOn
    <3>3. l \in m .. l
      BY <1>2
    <3> QED
      BY <3>2, <3>3
  <2>2. B \subseteq Nat
    BY <1>2
  <2>3. PICK e \in B : \A y \in B : e <= y
    BY <2>1, <2>2, LeastNumber
  <2>4. ASSUME NEW j \in m .. e - 1 PROVE GoesOn(c[j], k)
    <3>1. j \in m .. l /\ ~(e <= j)
      BY <1>2, <2>3
    <3> QED
      BY <2>3, <3>1
  <2> QED
    BY <2>3, <2>4
<1>5. e \in DOMAIN c /\ m <= e /\ m \in 1 .. l /\ e \in 1 .. l
  BY <1>2, <1>4
<1>6. GoesTo(c, m, e, nodes, S)
  <2>1. c[e] \in DOMAIN nodes \ S
    BY <1>4, <1>5 DEF IsChain
  <2>2. ASSUME NEW j \in m .. e - 1 PROVE c[j] \in DOMAIN nodes /\ c[j] \in S
    <3>1. j \in DOMAIN c
      BY <1>2, <1>5
    <3>2. c[j] \in DOMAIN nodes
      BY <3>1 DEF IsChain
    <3> QED
      BY <1>4, <3>2
  <2> QED
    BY <2>1, <2>2 DEF GoesTo
<1>7. PICK w : w = [n \in 1 .. N |-> Seen(c, m, e, n)]
  OBVIOUS
<1>8. ASSUME NEW n \in 1 .. N
      PROVE  w[n] = IF n = 1 THEN <<findLeaf(k)>>
                    ELSE IF GoesOn(w[n - 1][Len(w[n - 1])], k)
                         THEN Append(w[n - 1], nodes[w[n - 1][Len(w[n - 1])]].next)
                         ELSE w[n - 1]
  <2>0. n \in Nat /\ n >= 1
    OBVIOUS
  <2>1. SeenStep(c, m, e, n) /\ w[n] = Seen(c, m, e, n)
    BY <1>1, <1>5, <1>7, <2>0, SeenSteps
  <2>2. CASE n = 1
    BY <2>1, <2>2 DEF SeenStep
  <2>3. CASE n # 1
    <3>1. n - 1 \in 1 .. N
      BY <2>3
    <3>2. w[n - 1] = Seen(c, m, e, n - 1)
      BY <1>7, <3>1
    <3>3. PICK j \in m .. e :
              /\ w[n - 1][Len(w[n - 1])] = c[j]
              /\ j < e => w[n] = Append(w[n - 1], c[j + 1])
              /\ j = e => w[n] = w[n - 1]
      BY <2>1, <2>3, <3>2 DEF SeenStep, LastOf
    <3>4. CASE j = e
      BY <1>4, <2>3, <3>3, <3>4
    <3>5. CASE j # e
      <4>1. j < e /\ j \in m .. e - 1 /\ j \in DOMAIN c /\ j # l
        BY <1>2, <1>5, <3>5
      <4>2. nodes[c[j]].next = c[j + 1]
        BY <1>2, <4>1 DEF IsChain
      <4>3. GoesOn(c[j], k)
        BY <1>4, <4>1
      <4> QED
        BY <2>3, <3>3, <4>1, <4>2, <4>3
    <3> QED
      BY <3>4, <3>5
  <2> QED
    BY <2>2, <2>3
<1>9. VisitEq(w, k)
  BY <1>3, <1>7, <1>8 DEF VisitEq
<1>10. PICK v : VisitEq(v, k) /\ Visits(k) = v[N]
  BY <1>3, <1>9, VisitUnfold
<1>11. Follows(v, nodes, N, c[m], S)
  <2>1. v[1] = <<c[m]>>
    BY <1>2, <1>3, <1>10 DEF VisitEq
  <2>2. ASSUME NEW n \in 2 .. N
        PROVE  /\ LastOf(v[n - 1]) \in S => v[n] = Append(v[n - 1], nodes[LastOf(v[n - 1])].next)
               /\ LastOf(v[n - 1]) \in DOMAIN nodes \ S => v[n] = v[n - 1]
    <3>1. n \in 1 .. N /\ n # 1
      OBVIOUS
    <3>2. v[n] = IF GoesOn(LastOf(v[n - 1]), k)
                 THEN Append(v[n - 1], nodes[LastOf(v[n - 1])].next) ELSE v[n - 1]
      BY <1>3, <1>10, <3>1 DEF LastOf, VisitEq
    <3> QED
      BY <3>2
  <2> QED
    BY <2>1, <2>2 DEF Follows
<1>12. v[N] = Seen(c, m, e, N)
  <2>1. N \in 1 .. N
    BY <1>2
  <2> QED
    BY <1>5, <1>6, <1>11, <2>1, WalkIs
<1>13. Seen(c, m, e, N) = SubSeq(c, m, e)
  <2>1. (IF m + N - 1 <= e THEN m + N - 1 ELSE e) = e
    BY <1>2, <1>5
  <2> QED
    BY <2>1 DEF Seen
<1> QED
  BY <1>4, <1>5, <1>10, <1>12, <1>13 DEF VisitsTo

(***************************************************************************)
(* The properties                                                          *)
(***************************************************************************)

\* Straddled, in terms of this module.
LEMMA StraddledIs == Straddled <=> Straddles(nodes)
<1>1. \A p : LeafKeys(p) = KeysOf(nodes[p])
  BY DEF LeafKeys, KeysOf
<1> QED
  BY <1>1 DEF Straddled, Straddles, Leaves

\* A state of the invariant with its pages and its chain at hand.
At(N, c) == N \in Nat /\ c \in Seq(Nat) /\ TreeOK(N, c) /\ Chain = c

\* Outside phase "none" there is a tree in shape, and Chain lists its leaves.
LEMMA AtTree ==
  ASSUME TInv, phase # "none"
  PROVE  \E N, c : At(N, c)
<1>1. PICK N \in Nat, c \in Seq(Nat) : TreeOK(N, c)
  BY DEF TInv, TreeInv
<1>2. Chain = c
  <2>1. DOMAIN nodes = 1 .. N /\ Len(c) <= N /\ IsChain(nodes, c)
    BY <1>1 DEF TreeOK, Shape
  <2> QED
    BY <2>1, ChainIs
<1> QED
  BY <1>1, <1>2 DEF At

\* A leaf of the chain.
LEMMA ChainLeaf ==
  ASSUME NEW N, NEW c, At(N, c), NEW n \in DOMAIN c
  PROVE  /\ c[n] \in DOMAIN nodes /\ nodes[c[n]].leaf /\ LeafOK(nodes[c[n]], rows)
         /\ Len(nodes[c[n]].keys) < MaxKeys
<1>1. c[n] \in DOMAIN nodes /\ nodes[c[n]].leaf
  BY DEF At, TreeOK, Shape, IsChain
<1> QED
  BY <1>1 DEF At, TreeOK, LeavesOK

\* Where an indexed row is.
LEMMA RowPlace ==
  ASSUME NEW N, NEW c, At(N, c), NEW id \in Indexed
  PROVE  \E n \in DOMAIN c : \E i \in DOMAIN nodes[c[n]].keys :
           nodes[c[n]].ptrs[i] = id /\ nodes[c[n]].keys[i] = rows[id]
<1>1. PICK p \in DOMAIN nodes : nodes[p].leaf /\ id \in RowsOf(nodes[p])
  BY DEF At, TreeOK, Shape, RowsOK
<1>2. PICK i \in DOMAIN nodes[p].keys : nodes[p].ptrs[i] = id
  BY <1>1 DEF RowsOf
<1>3. PICK n \in DOMAIN c : c[n] = p
  BY <1>1 DEF At, TreeOK, Shape, IsChain
<1>4. nodes[p].keys[i] = rows[id]
  BY <1>1, <1>2 DEF At, TreeOK, LeavesOK, LeafOK
<1> QED
  BY <1>2, <1>3, <1>4

\* A row of a leaf is indexed.
LEMMA PlacedRow ==
  ASSUME NEW N, NEW c, At(N, c), NEW n \in DOMAIN c, NEW i \in DOMAIN nodes[c[n]].keys
  PROVE  nodes[c[n]].ptrs[i] \in Indexed /\ rows[nodes[c[n]].ptrs[i]] = nodes[c[n]].keys[i]
<1>1. c[n] \in DOMAIN nodes /\ nodes[c[n]].leaf /\ LeafOK(nodes[c[n]], rows)
  BY ChainLeaf
<1>2. nodes[c[n]].ptrs[i] \in RowsOf(nodes[c[n]])
  BY DEF RowsOf
<1>3. nodes[c[n]].ptrs[i] \in Indexed
  BY <1>1, <1>2 DEF At, TreeOK, Shape, RowsOK
<1> QED
  BY <1>1, <1>3 DEF LeafOK

\* The invariant implies ChainHoldsAll: positions in leaves and indexed rows
\* correspond one to one.
LEMMA InvHoldsAll == TInv => ChainHoldsAll
<1> SUFFICES ASSUME TInv, phase # "none"
             PROVE  LET entries == {e \in (DOMAIN Chain) \X (1 .. MaxKeys) : e[2] \in DOMAIN nodes[Chain[e[1]]].keys}
                    IN  /\ \A id \in Indexed : \E e \in entries :
                             /\ nodes[Chain[e[1]]].ptrs[e[2]] = id
                             /\ nodes[Chain[e[1]]].keys[e[2]] = rows[id]
                        /\ Cardinality(entries) = Cardinality(Indexed)
  BY DEF ChainHoldsAll
<1>1. PICK N, c : At(N, c)
  BY AtTree
<1>2. Chain = c
  BY <1>1 DEF At
<1>3. PICK E : E = {e \in (DOMAIN c) \X (1 .. MaxKeys) : e[2] \in DOMAIN nodes[c[e[1]]].keys}
  OBVIOUS
<1>4. ASSUME NEW n \in DOMAIN c, NEW i \in DOMAIN nodes[c[n]].keys PROVE <<n, i>> \in E
  <2>1. nodes[c[n]].keys \in Seq(Int) /\ Len(nodes[c[n]].keys) < MaxKeys
    BY <1>1, ChainLeaf DEF LeafOK, NodeT
  <2>2. i \in 1 .. MaxKeys
    BY <2>1, TreeAssumption
  <2> QED
    BY <1>3, <2>2
<1>5. ASSUME NEW e \in E
      PROVE  /\ e[1] \in DOMAIN c /\ e[2] \in DOMAIN nodes[c[e[1]]].keys /\ e = <<e[1], e[2]>>
  BY <1>3
<1>6. ASSUME NEW id \in Indexed
      PROVE  \E e \in E : nodes[c[e[1]]].ptrs[e[2]] = id /\ nodes[c[e[1]]].keys[e[2]] = rows[id]
  <2>1. PICK n \in DOMAIN c : \E i \in DOMAIN nodes[c[n]].keys :
           nodes[c[n]].ptrs[i] = id /\ nodes[c[n]].keys[i] = rows[id]
    BY <1>1, RowPlace
  <2>2. PICK i \in DOMAIN nodes[c[n]].keys :
           nodes[c[n]].ptrs[i] = id /\ nodes[c[n]].keys[i] = rows[id]
    BY <2>1
  <2>3. <<n, i>> \in E /\ <<n, i>>[1] = n /\ <<n, i>>[2] = i
    BY <1>4
  <2> QED
    BY <2>2, <2>3
<1>7. PICK g : g = [e \in E |-> nodes[c[e[1]]].ptrs[e[2]]]
  OBVIOUS
<1>8. g \in [E -> Indexed]
  <2>1. ASSUME NEW e \in E PROVE g[e] \in Indexed
    <3>1. PICK n, i : n = e[1] /\ i = e[2]
      OBVIOUS
    <3>2. n \in DOMAIN c /\ i \in DOMAIN nodes[c[n]].keys /\ g[e] = nodes[c[n]].ptrs[i]
      BY <1>5, <1>7, <3>1
    <3> QED
      BY <1>1, <3>2, PlacedRow
  <2> QED
    BY <1>7, <2>1
<1>9. ASSUME NEW d \in E, NEW e \in E, g[d] = g[e] PROVE d = e
  <2>1. PICK n, i : n = d[1] /\ i = d[2]
    OBVIOUS
  <2>2. PICK m, j : m = e[1] /\ j = e[2]
    OBVIOUS
  <2>3. n \in DOMAIN c /\ i \in DOMAIN nodes[c[n]].keys /\ d = <<n, i>> /\ g[d] = nodes[c[n]].ptrs[i]
    BY <1>5, <1>7, <2>1
  <2>4. m \in DOMAIN c /\ j \in DOMAIN nodes[c[m]].keys /\ e = <<m, j>> /\ g[e] = nodes[c[m]].ptrs[j]
    BY <1>5, <1>7, <2>2
  <2>5. g[d] \in RowsOf(nodes[c[n]]) /\ g[e] \in RowsOf(nodes[c[m]])
    BY <2>3, <2>4 DEF RowsOf
  <2>6. c[n] = c[m]
    <3>1. /\ c[n] \in DOMAIN nodes /\ nodes[c[n]].leaf /\ c[m] \in DOMAIN nodes /\ nodes[c[m]].leaf
      BY <1>1, <2>3, <2>4, ChainLeaf
    <3>2. c[n] # c[m] => RowsOf(nodes[c[n]]) \cap RowsOf(nodes[c[m]]) = {}
      BY <1>1, <3>1 DEF At, TreeOK, Shape, RowsOK
    <3> QED
      BY <1>9, <2>5, <3>2
  <2>7. n = m
    BY <1>1, <2>3, <2>4, <2>6 DEF At, TreeOK, Shape, IsChain
  <2>8. i = j
    <3>1. LeafOK(nodes[c[n]], rows)
      BY <1>1, <2>3, ChainLeaf
    <3> QED
      BY <1>9, <2>3, <2>4, <2>7, <3>1 DEF LeafOK
  <2> QED
    BY <2>3, <2>4, <2>7, <2>8
<1>10. \A id \in Indexed : \E e \in E : g[e] = id
  BY <1>6, <1>7
<1>11. g \in Injection(E, Indexed) /\ g \in Surjection(E, Indexed)
  <2>1. DOMAIN g = E
    BY <1>7
  <2> QED
    BY <1>8, <1>9, <1>10, <2>1 DEF Injection, Surjection, IsInjective
<1>12. IsFiniteSet(Indexed)
  <2>1. PICK n \in Nat : Indexed = 1 .. n
    <3>1. rows \in Seq(Key) /\ filled \in Nat
      BY DEF TInv
    <3> QED
      BY <3>1 DEF Indexed
  <2> QED
    BY <2>1, FS_Interval
<1>13. Cardinality(E) = Cardinality(Indexed)
  BY <1>11, <1>12, FS_Injection
<1> QED
  BY <1>2, <1>3, <1>6, <1>13

\* The invariant implies ChainSorted.
LEMMA InvSorted == TInv => ChainSorted
<1> SUFFICES ASSUME TInv, phase # "none", ~failed, ~Straddled,
                    NEW m \in DOMAIN Chain, NEW n \in DOMAIN Chain,
                    NEW i \in DOMAIN nodes[Chain[m]].keys, NEW j \in DOMAIN nodes[Chain[n]].keys,
                    m < n \/ (m = n /\ i < j)
             PROVE  nodes[Chain[m]].keys[i] <= nodes[Chain[n]].keys[j]
  BY DEF ChainSorted
<1>1. PICK N, c : At(N, c)
  BY AtTree
<1>2. Chain = c
  BY <1>1 DEF At
<1>3. m \in DOMAIN c /\ n \in DOMAIN c /\ i \in DOMAIN nodes[c[m]].keys /\ j \in DOMAIN nodes[c[n]].keys
  BY <1>2
<1>4. Ordered(nodes, c)
  BY <1>1, StraddledIs DEF At, TreeOK, Shape
<1>5. LeafOK(nodes[c[m]], rows) /\ LeafOK(nodes[c[n]], rows)
  BY <1>1, <1>3, ChainLeaf
<1>6. CASE m < n
  <2>1. nodes[c[m]].keys[i] \in KeysOf(nodes[c[m]]) /\ nodes[c[n]].keys[j] \in KeysOf(nodes[c[n]])
    BY <1>3 DEF KeysOf
  <2>2. nodes[c[m]].keys[i] < nodes[c[n]].keys[j]
    BY <1>3, <1>4, <1>6, <2>1 DEF Ordered
  <2>3. nodes[c[m]].keys[i] \in Int /\ nodes[c[n]].keys[j] \in Int
    BY <1>5, <2>1, LeafInts
  <2> QED
    BY <1>2, <2>2, <2>3
<1>7. CASE m = n /\ i < j
  BY <1>2, <1>3, <1>5, <1>7 DEF LeafOK
<1> QED
  BY <1>6, <1>7

\* What the iterator takes from a leaf: the rows of k.
LEMMA LeafHits ==
  ASSUME NEW N, NEW c, At(N, c), NEW n \in DOMAIN c, NEW k \in Int
  PROVE  Hits(c[n], k) = {nodes[c[n]].ptrs[i] : i \in {j \in DOMAIN nodes[c[n]].keys : nodes[c[n]].keys[j] = k}}
<1>1. LeafOK(nodes[c[n]], rows)
  BY ChainLeaf
<1>2. PICK ks \in Seq(Int) : ks = nodes[c[n]].keys
  BY <1>1 DEF LeafOK, NodeT
<1>3. PICK l \in Nat : l = Len(ks) /\ DOMAIN ks = 1 .. l
  OBVIOUS
<1>4. PICK h : h = leading(ks, k) /\ h \in 0 .. l /\ (h = l \/ ks[h + 1] > k)
  BY <1>3, LeadingIs DEF IsLeading
<1>5. ASSUME NEW j \in 1 .. l, ks[j] = k PROVE j \in 1 .. h
  <2> SUFFICES ASSUME ~(j <= h) PROVE FALSE
    BY <1>4
  <2>1. h + 1 \in 1 .. l /\ h # l /\ h + 1 <= j
    BY <1>4
  <2>2. ks[h + 1] > k /\ ks[h + 1] \in Int
    BY <1>3, <1>4, <2>1
  <2>3. CASE h + 1 = j
    BY <1>5, <2>2, <2>3
  <2>4. CASE h + 1 # j
    <3>1. h + 1 < j
      BY <1>4, <2>1, <2>4
    <3>2. ks[h + 1] <= ks[j]
      BY <1>1, <1>2, <1>3, <2>1, <3>1 DEF LeafOK
    <3> QED
      BY <1>5, <2>2, <3>2
  <2> QED
    BY <2>3, <2>4
<1>6. {j \in 1 .. h : ks[j] = k} = {j \in 1 .. l : ks[j] = k}
  <2>1. 1 .. h \subseteq 1 .. l
    BY <1>4
  <2> QED
    BY <1>5, <2>1
<1>7. Hits(c[n], k) = {nodes[c[n]].ptrs[i] : i \in {j \in 1 .. h : ks[j] = k}}
  BY <1>2, <1>4 DEF Hits
<1> QED
  BY <1>2, <1>3, <1>6, <1>7

\* The invariant implies SeekExact: the rows of a key are in the one leaf where
\* the descent ends.
LEMMA InvSeek == TInv => SeekExact
<1> SUFFICES ASSUME TInv, phase = "ready", NEW k \in Key
             PROVE  /\ SeekIndex(k) \subseteq {id \in DOMAIN rows : rows[id] = k}
                    /\ ~failed /\ ~Straddled => SeekIndex(k) = {id \in DOMAIN rows : rows[id] = k}
  BY DEF SeekExact
<1>1. PICK N, c : At(N, c)
  BY AtTree
<1>2. k \in Int /\ Indexed = DOMAIN rows
  BY TreeAssumption DEF Indexed
<1>3. /\ N \in Nat /\ c \in Seq(Nat) /\ DOMAIN nodes = 1 .. N /\ root \in DOMAIN nodes /\ Len(c) <= N
      /\ IsChain(nodes, c) /\ RootOK(nodes, root, c)
      /\ ~failed /\ ~Straddles(nodes) => Separated(nodes, root, c)
  BY <1>1 DEF At, TreeOK, Shape
<1>4. PICK m \in DOMAIN c : findLeaf(k) = c[m]
  BY <1>2, <1>3, FindsLeaf
<1>5. PICK e \in DOMAIN c : VisitsTo(c, k, m, e)
  BY <1>3, <1>4, VisitsIs
<1>6. PICK v : v = Visits(k)
  OBVIOUS
<1>7. PICK l \in Nat : l = Len(c) /\ DOMAIN c = 1 .. l /\ m \in 1 .. l /\ e \in 1 .. l /\ m <= e
  <2>1. m <= e
    BY <1>5 DEF VisitsTo
  <2>2. PICK l \in Nat : l = Len(c) /\ DOMAIN c = 1 .. l
    BY <1>3
  <2> QED
    BY <2>1, <2>2
<1>8. v \in Seq(Nat) /\ Len(v) = e - m + 1 /\ \A i \in 1 .. e - m + 1 : v[i] = c[m + i - 1]
  <2>1. v = SubSeq(c, m, e)
    BY <1>5, <1>6 DEF VisitsTo
  <2>2. IsRange(v, c, m, e)
    BY <1>3, <1>7, <2>1, SubSeqRange
  <2> QED
    BY <2>2 DEF IsRange
<1>9. DOMAIN v = 1 .. e - m + 1
  BY <1>7, <1>8
<1>10. SeekIndex(k) = UNION {Hits(v[n], k) : n \in DOMAIN v}
  BY <1>6 DEF SeekIndex
<1>11. ASSUME NEW id \in SeekIndex(k) PROVE id \in DOMAIN rows /\ rows[id] = k
  <2>1. PICK n \in DOMAIN v : id \in Hits(v[n], k)
    BY <1>10
  <2>2. PICK a \in DOMAIN c : v[n] = c[a]
    <3>1. n \in 1 .. e - m + 1 /\ m + n - 1 \in 1 .. l
      BY <1>7, <1>9
    <3> QED
      BY <1>7, <1>8, <3>1
  <2>3. id \in {nodes[c[a]].ptrs[i] : i \in {j \in DOMAIN nodes[c[a]].keys : nodes[c[a]].keys[j] = k}}
    BY <1>1, <1>2, <2>1, <2>2, LeafHits
  <2>4. PICK i \in DOMAIN nodes[c[a]].keys : nodes[c[a]].keys[i] = k /\ id = nodes[c[a]].ptrs[i]
    BY <2>3
  <2> QED
    BY <1>1, <1>2, <2>4, PlacedRow
<1>12. ASSUME ~failed, ~Straddled, NEW id \in DOMAIN rows, rows[id] = k PROVE id \in SeekIndex(k)
  <2>1. PICK n \in DOMAIN c : \E i \in DOMAIN nodes[c[n]].keys :
           nodes[c[n]].ptrs[i] = id /\ nodes[c[n]].keys[i] = k
    BY <1>1, <1>2, <1>12, RowPlace
  <2>2. PICK i \in DOMAIN nodes[c[n]].keys : nodes[c[n]].ptrs[i] = id /\ nodes[c[n]].keys[i] = k
    BY <2>1
  <2>3. k \in KeysOf(nodes[c[n]])
    BY <2>2 DEF KeysOf
  <2>4. \A a \in DOMAIN c : KeysOf(nodes[c[a]]) \subseteq Int
    BY <1>1, ChainLeaf, LeafInts
  <2>5. Around(nodes, c, m, k)
    <3>1. Separated(nodes, root, c)
      BY <1>3, <1>12, StraddledIs
    <3> QED
      BY <1>2, <1>3, <1>4, <2>4, <3>1, FindsPosition
  <2>6. n = m
    <3>1. (n < m => k < k) /\ (m < n => k < k)
      BY <2>3, <2>5 DEF Around
    <3>2. n \in 1 .. l
      BY <1>7
    <3> QED
      BY <1>2, <1>7, <3>1, <3>2
  <2>7. 1 \in DOMAIN v /\ v[1] = c[m]
    <3>1. 1 \in 1 .. e - m + 1 /\ m + 1 - 1 = m
      BY <1>7
    <3> QED
      BY <1>8, <1>9, <3>1
  <2>8. id \in Hits(c[m], k)
    <3>1. Hits(c[m], k) = {nodes[c[m]].ptrs[a] : a \in {j \in DOMAIN nodes[c[m]].keys : nodes[c[m]].keys[j] = k}}
      BY <1>1, <1>2, LeafHits
    <3> QED
      BY <2>2, <2>6, <3>1
  <2> QED
    BY <1>10, <2>7, <2>8
<1> QED
  BY <1>11, <1>12

\* Through any sequence of insertions, splits, failed insertions and blocked
\* builds the linked leaves hold every indexed row exactly once, under its key.
THEOREM LeavesHoldAll == Spec => []ChainHoldsAll
BY TreeInvariant, InvHoldsAll, PTL

\* Without failed insertions, and while equal keys share a leaf, keys grow along
\* the linked leaves.
THEOREM LeavesSorted == Spec => []ChainSorted
BY TreeInvariant, InvSorted, PTL

\* SeekIndex never returns a row of another key, and under the same conditions
\* it returns every row of its key.
THEOREM SeeksExact == Spec => []SeekExact
BY TreeInvariant, InvSeek, PTL
=============================================================================
