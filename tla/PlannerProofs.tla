--------------------------- MODULE PlannerProofs ---------------------------
(***************************************************************************)
(* Theorems about Planner for every set of tables, rows of any length and  *)
(* queries with any number of joins.                                       *)
(***************************************************************************)
EXTENDS Planner, FiniteSetTheorems, WellFoundedInduction, TLAPS

(***************************************************************************)
(* Natural numbers and recursion                                           *)
(***************************************************************************)

\* A set of natural numbers has a least element.
LEMMA LeastNat ==
  ASSUME NEW S, S \subseteq Nat, S # {}
  PROVE  \E x \in S : \A y \in S : x <= y
<1>1. PICK R : R = OpToRel(<, Nat)
  OBVIOUS
<1>2. \A x, y \in Nat : <<y, x>> \in R <=> y < x
  BY <1>1 DEF OpToRel
<1>3. IsWellFoundedOn(R, Nat)
  BY <1>1, NatLessThanWellFounded
<1>4. PICK x \in S : \A y \in S : ~(<<y, x>> \in R)
  BY <1>3, WFMin
<1>5. ASSUME NEW y \in S PROVE x <= y
  <2>1. x \in Nat /\ y \in Nat
    OBVIOUS
  <2>2. ~(<<y, x>> \in R)
    BY <1>4
  <2>3. ~(y < x)
    BY <1>2, <2>1, <2>2, Zenon
  <2> QED
    BY <2>1, <2>3
<1> QED
  BY <1>5

\* f starts with b and takes the steps F, k times.
Follows(f, b, F, k) ==
  /\ f[0] = b
  /\ \A n \in 1 .. k : f[n] = F[n][f[n - 1]]

\* A recursion over 0 .. k has a solution.
LEMMA RecursionExists ==
  ASSUME NEW V, NEW b \in V, NEW k \in Nat, NEW F \in [1 .. k -> [V -> V]]
  PROVE  \E f \in [0 .. k -> V] : Follows(f, b, F, k)
<1> DEFINE Bad == {j \in 0 .. k : ~ \E f \in [0 .. j -> V] : Follows(f, b, F, j)}
<1>1. ASSUME Bad # {} PROVE FALSE
  <2>1. PICK j \in Bad : \A i \in Bad : j <= i
    <3>1. Bad \subseteq Nat
      OBVIOUS
    <3> HIDE DEF Bad
    <3> QED
      BY <1>1, <3>1, LeastNat
  <2>2. j \in 0 .. k /\ ~ \E f \in [0 .. j -> V] : Follows(f, b, F, j)
    OBVIOUS
  <2>3. CASE j = 0
    <3>1. [n \in 0 .. 0 |-> b] \in [0 .. 0 -> V]
      OBVIOUS
    <3>2. Follows([n \in 0 .. 0 |-> b], b, F, 0)
      BY DEF Follows
    <3> QED
      BY <2>2, <2>3, <3>1, <3>2
  <2>4. CASE j # 0
    <3>1. PICK i \in 0 .. k : i + 1 = j /\ i = j - 1 /\ ~(j <= i)
      BY <2>2, <2>4
    <3>2. PICK f \in [0 .. i -> V] : Follows(f, b, F, i)
      BY <2>1, <3>1
    <3>3. PICK g : g = [n \in 0 .. j |-> IF n = j THEN F[j][f[i]] ELSE f[n]]
      OBVIOUS
    <3>4. j \in 1 .. k /\ i \in 0 .. i /\ \A n \in 0 .. j : n # j => n \in 0 .. i
      BY <2>2, <2>4, <3>1
    <3>5. F[j] \in [V -> V] /\ f[i] \in V
      BY <3>2, <3>4
    <3>6. g \in [0 .. j -> V]
      BY <3>2, <3>3, <3>4, <3>5
    <3>7. g[0] = b
      BY <2>2, <2>4, <3>2, <3>3 DEF Follows
    <3>8. ASSUME NEW n \in 1 .. j PROVE g[n] = F[n][g[n - 1]]
      <4>1. n - 1 \in 0 .. j /\ n \in 0 .. j /\ n - 1 # j /\ n - 1 \in 0 .. i
        BY <2>2, <3>1
      <4>2. g[n - 1] = f[n - 1]
        BY <3>3, <4>1
      <4>3. CASE n = j
        BY <3>1, <3>3, <4>1, <4>2, <4>3
      <4>4. CASE n # j
        <5>1. n \in 1 .. i /\ g[n] = f[n]
          BY <2>2, <3>1, <3>3, <4>1, <4>4
        <5>2. f[n] = F[n][f[n - 1]]
          BY <3>2, <5>1 DEF Follows
        <5> QED
          BY <4>2, <5>1, <5>2
      <4> QED
        BY <4>3, <4>4
    <3>9. Follows(g, b, F, j)
      BY <3>7, <3>8 DEF Follows
    <3> QED
      BY <2>2, <3>6, <3>9
  <2> QED
    BY <2>3, <2>4
<1>2. k \in 0 .. k
  OBVIOUS
<1> QED
  BY <1>1, <1>2

(***************************************************************************)
(* Statistics                                                              *)
(***************************************************************************)

Engines == {"storage", "memstore"}
Rows == Seq(Value \cup {Null})
Extreme == Int \cup {Null}
AccT == [nulls : Nat, values : SUBSET Int, min : Extreme, max : Extreme]
Acc0(eng) == [nulls |-> 0, values |-> {}, min |-> Start(eng), max |-> Start(eng)]

\* The equation of the recursive function in Gathered.
GatheredEq(a, eng, s) ==
  a = [n \in 0 .. Len(s) |-> IF n = 0 THEN Acc0(eng) ELSE Seen(a[n - 1], s[n])]

\* If the equation has a solution, Gathered is taken from one.
LEMMA GatheredUnfold ==
  ASSUME NEW eng, NEW s, NEW a, GatheredEq(a, eng, s)
  PROVE  \E c : GatheredEq(c, eng, s) /\ Gathered(eng, s) = c[Len(s)]
BY DEF GatheredEq, Gathered, Acc0

LEMMA SeenType ==
  ASSUME NEW acc \in AccT, NEW v \in Value \cup {Null}
  PROVE  Seen(acc, v) \in AccT
<1>1. Value \subseteq Int /\ Null \notin Int
  BY PlannerAssumption
<1>2. CASE v = Null
  BY <1>2 DEF Seen, AccT
<1>3. CASE v # Null
  <2>1. v \in Int
    BY <1>1, <1>3
  <2>2. acc.min \in Extreme /\ acc.max \in Extreme /\ acc.values \in SUBSET Int /\ acc.nulls \in Nat
    BY DEF AccT
  <2>3. Smaller(v, acc.min) \in Extreme /\ Larger(v, acc.max) \in Extreme
    BY <2>1, <2>2 DEF Smaller, Larger, Extreme
  <2>4. acc.values \cup {v} \in SUBSET Int
    BY <2>1, <2>2
  <2> QED
    BY <1>3, <2>2, <2>3, <2>4 DEF Seen, AccT
<1> QED
  BY <1>2, <1>3

\* Gathered is the end of a scan.
IsScan(c, eng, s) ==
  /\ c[0] = Acc0(eng)
  /\ \A n \in 1 .. Len(s) : c[n] = Seen(c[n - 1], s[n])

LEMMA GatheredScan ==
  ASSUME NEW eng, NEW s \in Rows
  PROVE  \E c : IsScan(c, eng, s) /\ Gathered(eng, s) = c[Len(s)]
<1>1. PICK k \in Nat : k = Len(s) /\ DOMAIN s = 1 .. k
  BY DEF Rows
<1>2. \A n \in 1 .. k : s[n] \in Value \cup {Null}
  BY <1>1 DEF Rows
<1>3. PICK F : F = [n \in 1 .. k |-> [acc \in AccT |-> Seen(acc, s[n])]]
  OBVIOUS
<1>4. F \in [1 .. k -> [AccT -> AccT]]
  <2>1. \A n \in 1 .. k : \A acc \in AccT : Seen(acc, s[n]) \in AccT
    BY <1>2, SeenType
  <2> QED
    BY <1>3, <2>1
<1>5. PICK b : b = Acc0(eng)
  OBVIOUS
<1>6. b \in AccT
  BY <1>5 DEF Acc0, AccT, Start, Extreme
<1>7. PICK f \in [0 .. k -> AccT] : Follows(f, b, F, k)
  BY <1>4, <1>6, RecursionExists
<1>8. ASSUME NEW n \in 0 .. k PROVE f[n] = IF n = 0 THEN b ELSE Seen(f[n - 1], s[n])
  <2>1. CASE n = 0
    BY <1>7, <2>1 DEF Follows
  <2>2. CASE n # 0
    <3>1. n \in 1 .. k /\ n - 1 \in 0 .. k
      BY <2>2
    <3>2. f[n] = F[n][f[n - 1]] /\ f[n - 1] \in AccT
      BY <1>7, <3>1 DEF Follows
    <3> QED
      BY <1>3, <2>2, <3>1, <3>2
  <2> QED
    BY <2>1, <2>2
<1>9. f = [n \in 0 .. k |-> IF n = 0 THEN b ELSE Seen(f[n - 1], s[n])]
  BY <1>8
<1>10. GatheredEq(f, eng, s)
  BY <1>1, <1>5, <1>9 DEF GatheredEq
<1>11. PICK c : GatheredEq(c, eng, s) /\ Gathered(eng, s) = c[Len(s)]
  BY <1>10, GatheredUnfold
<1>12. c = [n \in 0 .. k |-> IF n = 0 THEN Acc0(eng) ELSE Seen(c[n - 1], s[n])]
  BY <1>1, <1>11 DEF GatheredEq
<1>13. c[0] = Acc0(eng)
  <2>1. 0 \in 0 .. k
    OBVIOUS
  <2> QED
    BY <1>12, <2>1, Zenon
<1>14. ASSUME NEW n \in 1 .. k PROVE c[n] = Seen(c[n - 1], s[n])
  <2>1. n \in 0 .. k /\ n # 0
    OBVIOUS
  <2> QED
    BY <1>12, <2>1, Zenon
<1> QED
  BY <1>1, <1>11, <1>13, <1>14 DEF IsScan

Zero(eng) == IF eng = "storage" THEN {0} ELSE {}

IsLeast(x, V) == IF V = {} THEN x = Null ELSE x \in V /\ \A y \in V : x <= y
IsGreatest(x, V) == IF V = {} THEN x = Null ELSE x \in V /\ \A y \in V : x >= y

LEMMA SmallerIs ==
  ASSUME NEW V, V \subseteq Int, NEW x, IsLeast(x, V), NEW v \in Int
  PROVE  IsLeast(Smaller(v, x), V \cup {v})
<1>1. Null \notin Int
  BY PlannerAssumption
<1>2. CASE V = {}
  BY <1>2 DEF IsLeast, Smaller
<1>3. CASE V # {}
  <2>1. x \in Int /\ x \in V /\ (\A y \in V : x <= y) /\ x # Null
    BY <1>1, <1>3 DEF IsLeast
  <2>2. CASE v < x
    <3>1. \A y \in V \cup {v} : v <= y
      BY <2>1, <2>2
    <3> QED
      BY <2>2, <3>1 DEF IsLeast, Smaller
  <2>3. CASE ~(v < x)
    <3>1. \A y \in V \cup {v} : x <= y
      BY <2>1, <2>3
    <3> QED
      BY <2>1, <2>3, <3>1 DEF IsLeast, Smaller
  <2> QED
    BY <2>2, <2>3
<1> QED
  BY <1>2, <1>3

LEMMA LargerIs ==
  ASSUME NEW V, V \subseteq Int, NEW x, IsGreatest(x, V), NEW v \in Int
  PROVE  IsGreatest(Larger(v, x), V \cup {v})
<1>1. Null \notin Int
  BY PlannerAssumption
<1>2. CASE V = {}
  BY <1>2 DEF IsGreatest, Larger
<1>3. CASE V # {}
  <2>1. x \in Int /\ x \in V /\ (\A y \in V : x >= y) /\ x # Null
    BY <1>1, <1>3 DEF IsGreatest
  <2>2. CASE v > x
    <3>1. \A y \in V \cup {v} : v >= y
      BY <2>1, <2>2
    <3> QED
      BY <2>2, <3>1 DEF IsGreatest, Larger
  <2>3. CASE ~(v > x)
    <3>1. \A y \in V \cup {v} : x >= y
      BY <2>1, <2>3
    <3> QED
      BY <2>1, <2>3, <3>1 DEF IsGreatest, Larger
  <2> QED
    BY <2>2, <2>3
<1> QED
  BY <1>2, <1>3

NullsOf(s, n) == {i \in 1 .. n : s[i] = Null}
ValuesOf(s, n) == {s[i] : i \in {j \in 1 .. n : s[j] # Null}}

\* What a scan has gathered after n rows.
ScanInv(acc, eng, s, n) ==
  /\ acc \in AccT
  /\ acc.nulls = Cardinality(NullsOf(s, n))
  /\ acc.values = ValuesOf(s, n)
  /\ IsLeast(acc.min, acc.values \cup Zero(eng))
  /\ IsGreatest(acc.max, acc.values \cup Zero(eng))

LEMMA ScanStart ==
  ASSUME NEW eng, NEW s
  PROVE  ScanInv(Acc0(eng), eng, s, 0)
<1>1. NullsOf(s, 0) = {} /\ ValuesOf(s, 0) = {}
  BY DEF NullsOf, ValuesOf
<1>2. Cardinality({}) = 0
  BY FS_EmptySet
<1>3. PICK a : a = Acc0(eng)
  OBVIOUS
<1>4. a \in AccT /\ a.nulls = 0 /\ a.values = {} /\ a.min = Start(eng) /\ a.max = Start(eng)
  BY <1>3 DEF Acc0, AccT, Start, Extreme
<1>5. IsLeast(Start(eng), {} \cup Zero(eng)) /\ IsGreatest(Start(eng), {} \cup Zero(eng))
  <2>1. CASE eng = "storage"
    BY <2>1 DEF IsLeast, IsGreatest, Start, Zero
  <2>2. CASE eng # "storage"
    BY <2>2 DEF IsLeast, IsGreatest, Start, Zero
  <2> QED
    BY <2>1, <2>2
<1> QED
  BY <1>1, <1>2, <1>3, <1>4, <1>5 DEF ScanInv

LEMMA ScanStep ==
  ASSUME NEW eng, NEW s \in Rows, NEW n \in 1 .. Len(s), NEW acc, ScanInv(acc, eng, s, n - 1)
  PROVE  ScanInv(Seen(acc, s[n]), eng, s, n)
<1>1. n \in Nat /\ n >= 1 /\ s[n] \in Value \cup {Null} /\ Value \subseteq Int /\ Null \notin Int
  BY PlannerAssumption DEF Rows
<1>2. PICK v : v = s[n]
  OBVIOUS
<1>3. PICK b : b = Seen(acc, v)
  OBVIOUS
<1>4. PICK A : A = NullsOf(s, n - 1)
  OBVIOUS
<1>5. /\ acc \in AccT /\ acc.nulls = Cardinality(A) /\ acc.values = ValuesOf(s, n - 1)
      /\ IsLeast(acc.min, acc.values \cup Zero(eng)) /\ IsGreatest(acc.max, acc.values \cup Zero(eng))
  BY <1>4 DEF ScanInv
<1>6. b \in AccT
  BY <1>1, <1>2, <1>3, <1>5, SeenType
<1>7. 1 .. n = (1 .. n - 1) \cup {n} /\ n \notin 1 .. n - 1
  BY <1>1
<1>8. IsFiniteSet(A) /\ n \notin A
  <2>1. IsFiniteSet(1 .. n - 1)
    <3>1. 1 \in Int /\ n - 1 \in Int
      BY <1>1
    <3> QED
      BY <3>1, FS_Interval
  <2>2. A \in SUBSET (1 .. n - 1)
    BY <1>4 DEF NullsOf
  <2> QED
    BY <1>7, <2>1, <2>2, FS_Subset
<1>9. CASE v = Null
  <2>1. NullsOf(s, n) = A \cup {n}
    BY <1>2, <1>4, <1>7, <1>9 DEF NullsOf
  <2>2. ValuesOf(s, n) = ValuesOf(s, n - 1)
    <3>1. {j \in 1 .. n : s[j] # Null} = {j \in 1 .. n - 1 : s[j] # Null}
      BY <1>2, <1>7, <1>9
    <3> QED
      BY <3>1 DEF ValuesOf
  <2>3. Cardinality(A \cup {n}) = Cardinality(A) + 1
    BY <1>8, FS_AddElement
  <2>4. b.nulls = acc.nulls + 1 /\ b.values = acc.values /\ b.min = acc.min /\ b.max = acc.max
    BY <1>3, <1>5, <1>9 DEF Seen, AccT
  <2>5. ScanInv(b, eng, s, n)
    BY <1>5, <1>6, <2>1, <2>2, <2>3, <2>4 DEF ScanInv
  <2> QED
    BY <1>2, <1>3, <2>5
<1>10. CASE v # Null
  <2>1. v \in Int
    BY <1>1, <1>2, <1>10
  <2>2. NullsOf(s, n) = A
    BY <1>2, <1>4, <1>7, <1>10 DEF NullsOf
  <2>3. ValuesOf(s, n) = ValuesOf(s, n - 1) \cup {v}
    <3>1. {j \in 1 .. n : s[j] # Null} = {j \in 1 .. n - 1 : s[j] # Null} \cup {n}
      BY <1>2, <1>7, <1>10
    <3> QED
      BY <1>2, <3>1, Zenon DEF ValuesOf
  <2>4. /\ b.nulls = acc.nulls /\ b.values = acc.values \cup {v}
        /\ b.min = Smaller(v, acc.min) /\ b.max = Larger(v, acc.max)
    BY <1>3, <1>10 DEF Seen
  <2>5. PICK W : W = acc.values \cup Zero(eng)
    OBVIOUS
  <2>6. W \subseteq Int /\ W \cup {v} = b.values \cup Zero(eng)
    <3>1. acc.values \subseteq Int /\ Zero(eng) \subseteq Int
      BY <1>5 DEF AccT, Zero
    <3> QED
      BY <2>4, <2>5, <3>1
  <2>7. IsLeast(b.min, W \cup {v}) /\ IsGreatest(b.max, W \cup {v})
    BY <1>5, <2>1, <2>4, <2>5, <2>6, SmallerIs, LargerIs
  <2>8. ScanInv(b, eng, s, n)
    BY <1>5, <1>6, <2>2, <2>3, <2>4, <2>6, <2>7 DEF ScanInv
  <2> QED
    BY <1>2, <1>3, <2>8
<1> QED
  BY <1>9, <1>10

LEMMA ScanHolds ==
  ASSUME NEW eng, NEW s \in Rows, NEW c, IsScan(c, eng, s)
  PROVE  ScanInv(c[Len(s)], eng, s, Len(s))
<1>1. PICK k \in Nat : k = Len(s)
  BY DEF Rows
<1>2. c[0] = Acc0(eng) /\ \A n \in 1 .. k : c[n] = Seen(c[n - 1], s[n])
  BY <1>1 DEF IsScan
<1> DEFINE Bad == {n \in 0 .. k : ~ScanInv(c[n], eng, s, n)}
<1>3. ASSUME Bad # {} PROVE FALSE
  <2>1. PICK j \in Bad : \A i \in Bad : j <= i
    <3>1. Bad \subseteq Nat
      OBVIOUS
    <3> HIDE DEF Bad
    <3> QED
      BY <1>3, <3>1, LeastNat
  <2>2. j \in 0 .. k /\ ~ScanInv(c[j], eng, s, j)
    OBVIOUS
  <2>3. j # 0
    BY <1>2, <2>2, ScanStart
  <2>4. PICK i \in 0 .. k : i = j - 1 /\ ~(j <= i) /\ j \in 1 .. k
    BY <2>2, <2>3
  <2>5. ScanInv(c[i], eng, s, i)
    BY <2>1, <2>4
  <2>6. ScanInv(Seen(c[j - 1], s[j]), eng, s, j)
    BY <1>1, <2>4, <2>5, ScanStep
  <2> QED
    BY <1>2, <2>2, <2>4, <2>6
<1>4. k \in 0 .. k
  OBVIOUS
<1> QED
  BY <1>1, <1>3, <1>4

\* Min and Max choose the least and the greatest element.
LEMMA MinMaxAre ==
  ASSUME NEW W, W \subseteq Int
  PROVE  /\ \A x \in W : (\A y \in W : x <= y) => x = Min(W)
         /\ \A x \in W : (\A y \in W : x >= y) => x = Max(W)
<1>1. ASSUME NEW x \in W, \A y \in W : x <= y PROVE x = Min(W)
  <2>1. PICK m : m = Min(W)
    OBVIOUS
  <2>2. m \in W /\ \A y \in W : m <= y
    <3>1. \E z \in W : \A y \in W : z <= y
      BY <1>1
    <3> QED
      BY <2>1, <3>1, Zenon DEF Min
  <2>3. x \in Int /\ m \in Int /\ x <= m /\ m <= x
    BY <1>1, <2>2
  <2> QED
    BY <2>1, <2>3
<1>2. ASSUME NEW x \in W, \A y \in W : x >= y PROVE x = Max(W)
  <2>1. PICK m : m = Max(W)
    OBVIOUS
  <2>2. m \in W /\ \A y \in W : m >= y
    <3>1. \E z \in W : \A y \in W : z >= y
      BY <1>2
    <3> QED
      BY <2>1, <3>1, Zenon DEF Max
  <2>3. x \in Int /\ m \in Int /\ x >= m /\ m >= x
    BY <1>2, <2>2
  <2> QED
    BY <2>1, <2>3
<1> QED
  BY <1>1, <1>2

StatsT == [rowCount : Nat, distinct : Nat, nulls : Nat, min : Extreme, max : Extreme]

\* Analyze describes the rows it has read, and finitely many of them.
LEMMA CollectDescribes ==
  ASSUME NEW eng, NEW s \in Rows
  PROVE  Collect(eng, s) \in StatsT /\ Describes(eng, Collect(eng, s), s)
<1>1. PICK k \in Nat : k = Len(s) /\ DOMAIN s = 1 .. k
  BY DEF Rows
<1>2. PICK acc : acc = Gathered(eng, s)
  OBVIOUS
<1>3. ScanInv(acc, eng, s, k)
  <2>1. PICK c : IsScan(c, eng, s) /\ acc = c[Len(s)]
    BY <1>2, GatheredScan
  <2> QED
    BY <1>1, <2>1, ScanHolds
<1>4. /\ acc \in AccT /\ acc.nulls = Cardinality(NullsOf(s, k)) /\ acc.values = ValuesOf(s, k)
      /\ IsLeast(acc.min, acc.values \cup Zero(eng)) /\ IsGreatest(acc.max, acc.values \cup Zero(eng))
  BY <1>3 DEF ScanInv
<1>5. NullsOf(s, k) = {i \in DOMAIN s : s[i] = Null}
  BY <1>1 DEF NullsOf
<1>6. ValuesOf(s, k) = Values(s)
  BY <1>1 DEF ValuesOf, Values, ToSet
<1>7. IsFiniteSet(acc.values)
  <2>1. PICK D : D = {j \in 1 .. k : s[j] # Null}
    OBVIOUS
  <2>2. IsFiniteSet(D)
    <3>1. IsFiniteSet(1 .. k)
      BY FS_Interval
    <3>2. D \in SUBSET (1 .. k)
      BY <2>1
    <3> QED
      BY <3>1, <3>2, FS_Subset
  <2>3. PICK f : f = [j \in D |-> s[j]]
    OBVIOUS
  <2>4. f \in Surjection(D, acc.values)
    <3>1. acc.values = {s[i] : i \in D}
      BY <1>4, <2>1 DEF ValuesOf
    <3> QED
      BY <2>3, <3>1 DEF Surjection
  <2> QED
    BY <2>2, <2>4, FS_Surjection
<1>8. Cardinality(acc.values) \in Nat
  BY <1>7, FS_CardinalityType
<1>9. PICK c : c = Collect(eng, s)
  OBVIOUS
<1>10. c = [rowCount |-> k, distinct |-> Cardinality(acc.values), nulls |-> acc.nulls,
            min |-> acc.min, max |-> acc.max]
  BY <1>1, <1>2, <1>9 DEF Collect
<1>11. c \in StatsT
  BY <1>4, <1>8, <1>10 DEF StatsT, AccT
<1>12. PICK W : W = acc.values \cup Zero(eng)
  OBVIOUS
<1>13. W \subseteq Int /\ Values(s) \subseteq W
  BY <1>4, <1>6, <1>12 DEF AccT, Zero
<1>14. W # {} => /\ c.min \in W /\ (\A y \in W : c.min <= y)
                 /\ c.max \in W /\ (\A y \in W : c.max >= y)
  BY <1>4, <1>10, <1>12 DEF IsLeast, IsGreatest
<1>15. \A v \in Values(s) : c.min <= v /\ v <= c.max
  BY <1>13, <1>14
<1>16. ASSUME eng = "memstore"
       PROVE  IF Values(s) = {} THEN c.min = Null /\ c.max = Null
                                ELSE c.min = Min(Values(s)) /\ c.max = Max(Values(s))
  <2>1. W = Values(s)
    BY <1>4, <1>6, <1>12, <1>16 DEF Zero
  <2>2. CASE W = {}
    BY <1>4, <1>10, <1>12, <2>1, <2>2 DEF IsLeast, IsGreatest
  <2>3. CASE W # {}
    <3>1. c.min = Min(W)
      BY <1>13, <1>14, <2>3, MinMaxAre
    <3>2. c.max = Max(W)
      BY <1>13, <1>14, <2>3, MinMaxAre
    <3> QED
      BY <2>1, <2>3, <3>1, <3>2
  <2> QED
    BY <2>2, <2>3
<1>17. Describes(eng, c, s)
  BY <1>1, <1>4, <1>5, <1>6, <1>10, <1>15, <1>16 DEF Describes
<1> QED
  BY <1>9, <1>11, <1>17

(***************************************************************************)
(* The statistics of a table                                               *)
(***************************************************************************)

\* A table with rows r, dropped d times, its statistics st and what, tk, these were
\* taken of.
StatOK(eng, r, d, st, tk) ==
  /\ r \in Rows \cup {None}
  /\ st \in StatsT \cup {None}
  /\ st # None =>
       /\ Describes(eng, st, tk.rows)
       /\ eng = "storage" => r # None /\ tk.life = d

StatsInv ==
  /\ engine \in Engines
  /\ rows = [t \in Table |-> rows[t]]
  /\ drops = [t \in Table |-> drops[t]]
  /\ stats = [t \in Table |-> stats[t]]
  /\ taken = [t \in Table |-> taken[t]]
  /\ \A t \in Table : StatOK(engine, rows[t], drops[t], stats[t], taken[t])

LEMMA NoneIsNoRows ==
  None \notin Rows /\ None \notin StatsT /\ <<>> \in Rows
BY PlannerAssumption DEF Rows, StatsT, Extreme

\* INSERT, UPDATE and DELETE leave rows.
LEMMA ChangedRows ==
  ASSUME NEW r \in Rows, NEW v \in Value \cup {Null}, NEW i \in DOMAIN r
  PROVE  [r EXCEPT ![i] = v] \in Rows /\ RemoveAt(r, i) \in Rows
<1>1. PICK E : E = Value \cup {Null}
  OBVIOUS
<1>2. r \in Seq(E) /\ v \in E /\ Rows = Seq(E) /\ i \in 1 .. Len(r)
  BY <1>1 DEF Rows
<1>3. [r EXCEPT ![i] = v] \in Seq(E)
  BY <1>2
<1>4. PICK a : a = SubSeq(r, 1, i - 1)
  OBVIOUS
<1>5. PICK b : b = SubSeq(r, i + 1, Len(r))
  OBVIOUS
<1>6. a \in Seq(E) /\ b \in Seq(E)
  BY <1>2, <1>4, <1>5
<1>7. a \o b \in Seq(E)
  BY <1>6
<1> QED
  BY <1>2, <1>3, <1>4, <1>5, <1>7 DEF RemoveAt

\* What is taken now is as it should be.
LEMMA TakenNow ==
  ASSUME NEW eng, NEW r \in Rows, NEW d, NEW tk, tk = [rows |-> r, life |-> d]
  PROVE  StatOK(eng, r, d, Collect(eng, r), tk) /\ Collect(eng, r) # None
<1>1. Collect(eng, r) \in StatsT /\ Describes(eng, Collect(eng, r), r)
  BY CollectDescribes
<1>2. tk.rows = r /\ tk.life = d
  OBVIOUS
<1> QED
  BY <1>1, <1>2, NoneIsNoRows DEF StatOK

LEMMA StatsInit ==
  ASSUME Init
  PROVE  StatsInv
<1>1. engine \in Engines /\ drops = [t \in Table |-> 0]
  BY DEF Init, Engines
<1>2. PICK load \in Loaded :
        /\ rows = [t \in Table |-> IF t \in Live THEN <<>> ELSE load[t].rows]
        /\ taken = [t \in Table |-> IF t \in Live \/ ~load[t].analysed THEN None ELSE Taking(t)]
  BY DEF Init
<1>3. stats = [t \in Table |-> IF taken[t] = None THEN None ELSE Collect(engine, taken[t].rows)]
  BY DEF Init
<1>4. ASSUME NEW t \in Table PROVE StatOK(engine, rows[t], drops[t], stats[t], taken[t])
  <2>1. rows[t] \in Rows /\ (taken[t] = None \/ taken[t] = Taking(t))
    <3>1. CASE t \in Live
      BY <1>2, <3>1, NoneIsNoRows
    <3>2. CASE t \notin Live
      <4>1. load[t].rows \in Rows
        BY <1>2, <3>2, PlannerAssumption DEF Rows
      <4> QED
        BY <1>2, <3>2, <4>1
    <3> QED
      BY <3>1, <3>2
  <2>2. CASE taken[t] = None
    <3>1. stats[t] = None
      BY <1>3, <2>2
    <3> QED
      BY <2>1, <2>2, <3>1 DEF StatOK
  <2>3. CASE taken[t] # None
    <3>1. taken[t] = [rows |-> rows[t], life |-> drops[t]]
      BY <2>1, <2>3 DEF Taking
    <3>2. taken[t].rows = rows[t]
      BY <3>1
    <3>3. stats[t] = Collect(engine, rows[t])
      BY <1>3, <2>3, <3>2
    <3> QED
      BY <2>1, <3>1, <3>3, TakenNow
  <2> QED
    BY <2>2, <2>3
<1> QED
  BY <1>1, <1>2, <1>3, <1>4 DEF StatsInv

\* One table's rows change, and nothing else.
LEMMA RowsStep ==
  ASSUME StatsInv, NEW t \in Table, NEW r, rows[t] # None => r \in Rows,
         rows[t] = None => r = <<>>, rows' = [rows EXCEPT ![t] = r],
         engine' = engine, stats' = stats, taken' = taken, drops' = drops
  PROVE  StatsInv'
<1>1. /\ engine \in Engines
      /\ rows = [u \in Table |-> rows[u]]
      /\ drops = [u \in Table |-> drops[u]]
      /\ stats = [u \in Table |-> stats[u]]
      /\ taken = [u \in Table |-> taken[u]]
      /\ \A u \in Table : StatOK(engine, rows[u], drops[u], stats[u], taken[u])
  BY DEF StatsInv
<1>2. rows' = [u \in Table |-> rows'[u]] /\ rows'[t] = r
  BY <1>1
<1>3. r \in Rows /\ r # None
  BY NoneIsNoRows
<1>4. ASSUME NEW u \in Table PROVE StatOK(engine, rows'[u], drops[u], stats[u], taken[u])
  <2>1. StatOK(engine, rows[u], drops[u], stats[u], taken[u])
    BY <1>1
  <2>2. CASE u # t
    BY <1>1, <2>1, <2>2
  <2>3. CASE u = t
    BY <1>2, <1>3, <2>1, <2>3 DEF StatOK
  <2> QED
    BY <2>2, <2>3
<1> QED
  BY <1>1, <1>2, <1>4 DEF StatsInv

LEMMA StatsStep ==
  ASSUME StatsInv, [Next]_pvars
  PROVE  StatsInv'
<1>1. /\ engine \in Engines
      /\ rows = [t \in Table |-> rows[t]]
      /\ drops = [t \in Table |-> drops[t]]
      /\ stats = [t \in Table |-> stats[t]]
      /\ taken = [t \in Table |-> taken[t]]
      /\ \A t \in Table : StatOK(engine, rows[t], drops[t], stats[t], taken[t])
  BY DEF StatsInv
<1>2. Live \subseteq Table
  BY PlannerAssumption
<1>3. ASSUME UNCHANGED <<engine, rows, drops, stats, taken>> PROVE StatsInv'
  BY <1>1, <1>3 DEF StatsInv
<1>4. ASSUME NEW t \in Live, NEW v \in Value \cup {Null}, Insert(t, v) PROVE StatsInv'
  <2>1. rows[t] # None /\ rows[t] \in Rows
    BY <1>1, <1>2, <1>4 DEF Insert, StatOK
  <2>2. Append(rows[t], v) \in Rows
    BY <2>1 DEF Rows
  <2> QED
    BY <1>2, <1>4, <2>1, <2>2, RowsStep DEF Insert
<1>5. ASSUME NEW t \in Live, NEW i, NEW v \in Value \cup {Null}, Update(t, i, v) PROVE StatsInv'
  <2>1. rows[t] # None /\ rows[t] \in Rows /\ i \in DOMAIN rows[t]
    BY <1>1, <1>2, <1>5 DEF Update, StatOK
  <2>2. [rows[t] EXCEPT ![i] = v] \in Rows
    BY <2>1, ChangedRows
  <2> QED
    BY <1>2, <1>5, <2>1, <2>2, RowsStep DEF Update
<1>6. ASSUME NEW t \in Live, NEW i, Delete(t, i) PROVE StatsInv'
  <2>1. rows[t] # None /\ rows[t] \in Rows /\ i \in DOMAIN rows[t]
    BY <1>1, <1>2, <1>6 DEF Delete, StatOK
  <2>2. RemoveAt(rows[t], i) \in Rows
    <3>1. Null \in Value \cup {Null}
      OBVIOUS
    <3> QED
      BY <2>1, <3>1, ChangedRows
  <2> QED
    BY <1>2, <1>6, <2>1, <2>2, RowsStep DEF Delete
<1>7. ASSUME NEW t \in Live, CreateTable(t) PROVE StatsInv'
  BY <1>2, <1>7, RowsStep DEF CreateTable
<1>8. ASSUME NEW t \in Live, DropTable(t) PROVE StatsInv'
  <2>1. /\ rows' = [rows EXCEPT ![t] = None] /\ stats' = [stats EXCEPT ![t] = AfterDrop(t)]
        /\ engine' = engine /\ taken' = taken /\ drops' = [drops EXCEPT ![t] = drops[t] + 1]
    BY <1>8 DEF DropTable
  <2>2. rows' = [u \in Table |-> rows'[u]] /\ stats' = [u \in Table |-> stats'[u]] /\ drops' = [u \in Table |-> drops'[u]]
    BY <1>1, <2>1
  <2>3. ASSUME NEW u \in Table PROVE StatOK(engine, rows'[u], drops'[u], stats'[u], taken[u])
    <3>1. StatOK(engine, rows[u], drops[u], stats[u], taken[u])
      BY <1>1
    <3>2. CASE u # t
      <4>1. rows'[u] = rows[u] /\ stats'[u] = stats[u] /\ drops'[u] = drops[u]
        BY <1>1, <2>1, <3>2
      <4> QED
        BY <3>1, <4>1
    <3>3. CASE u = t
      <4>1. rows'[t] = None /\ stats'[t] = AfterDrop(t)
        BY <1>1, <1>2, <2>1
      <4> QED
        BY <3>1, <3>3, <4>1 DEF StatOK, AfterDrop
    <3> QED
      BY <3>2, <3>3
  <2> QED
    BY <1>1, <2>1, <2>2, <2>3 DEF StatsInv
<1>9. ASSUME NEW t \in Live, Analyze(t) PROVE StatsInv'
  <2>1. /\ rows[t] # None /\ stats' = [stats EXCEPT ![t] = Collect(engine, rows[t])]
        /\ taken' = [taken EXCEPT ![t] = Taking(t)] /\ engine' = engine /\ rows' = rows /\ drops' = drops
    BY <1>9 DEF Analyze
  <2>2. stats' = [u \in Table |-> stats'[u]] /\ taken' = [u \in Table |-> taken'[u]]
    BY <1>1, <2>1
  <2>3. ASSUME NEW u \in Table PROVE StatOK(engine, rows[u], drops[u], stats'[u], taken'[u])
    <3>1. StatOK(engine, rows[u], drops[u], stats[u], taken[u])
      BY <1>1
    <3>2. CASE u # t
      <4>1. taken'[u] = taken[u] /\ stats'[u] = stats[u]
        BY <1>1, <2>1, <3>2
      <4> QED
        BY <3>1, <4>1
    <3>3. CASE u = t
      <4>1. stats'[t] = Collect(engine, rows[t]) /\ taken'[t] = [rows |-> rows[t], life |-> drops[t]]
        BY <1>1, <1>2, <2>1 DEF Taking
      <4>2. rows[t] \in Rows
        BY <2>1, <3>1, <3>3 DEF StatOK
      <4> QED
        BY <3>3, <4>1, <4>2, TakenNow
    <3> QED
      BY <3>2, <3>3
  <2> QED
    BY <1>1, <2>1, <2>2, <2>3 DEF StatsInv
<1>10. ASSUME NEW q \in Queries, CollectStats(q) PROVE StatsInv'
  <2>1. /\ stats' = [t \in Table |-> IF t \in Tables(q) THEN Stats(t) ELSE stats[t]]
        /\ taken' = [t \in Table |-> IF t \in Tables(q) /\ Stats(t) # stats[t] THEN Taking(t) ELSE taken[t]]
        /\ engine' = engine /\ rows' = rows /\ drops' = drops
    BY <1>10 DEF CollectStats
  <2>2. stats' = [u \in Table |-> stats'[u]] /\ taken' = [u \in Table |-> taken'[u]]
    BY <2>1
  <2>3. ASSUME NEW u \in Table PROVE StatOK(engine, rows[u], drops[u], stats'[u], taken'[u])
    <3>1. StatOK(engine, rows[u], drops[u], stats[u], taken[u])
      BY <1>1
    <3>2. CASE u \in Tables(q) /\ Stats(u) # stats[u]
      <4>1. stats'[u] = Stats(u) /\ taken'[u] = [rows |-> rows[u], life |-> drops[u]]
        BY <2>1, <3>2 DEF Taking
      <4>2. Stats(u) = Collect(engine, rows[u]) /\ rows[u] # None
        BY <3>2 DEF Stats
      <4>3. rows[u] \in Rows
        BY <3>1, <4>2 DEF StatOK
      <4> QED
        BY <4>1, <4>2, <4>3, TakenNow
    <3>3. CASE ~(u \in Tables(q) /\ Stats(u) # stats[u])
      <4>1. stats'[u] = stats[u] /\ taken'[u] = taken[u]
        BY <2>1, <3>3
      <4> QED
        BY <3>1, <4>1
    <3> QED
      BY <3>2, <3>3
  <2> QED
    BY <1>1, <2>1, <2>2, <2>3 DEF StatsInv
<1>11. CASE Optimize
  BY <1>3, <1>11 DEF Optimize
<1>12. CASE Return
  BY <1>3, <1>12 DEF Return
<1>13. CASE UNCHANGED pvars
  BY <1>3, <1>13 DEF pvars
<1> QED
  BY <1>4, <1>5, <1>6, <1>7, <1>8, <1>9, <1>10, <1>11, <1>12, <1>13 DEF Next

\* Whatever is inserted, updated, deleted, dropped, created and analysed, in both
\* engines the counts of a table's statistics are those of the rows that Analyze
\* read and its values lie between minimum and maximum, which are exact in the
\* in-memory engine; in the disk engine Analyze read them from the table that has
\* that name now.
THEOREM StatsTrue == Spec => []StatsDescribe
<1>1. Init => StatsInv
  BY StatsInit
<1>2. StatsInv /\ [Next]_pvars => StatsInv'
  BY StatsStep
<1>3. StatsInv => StatsDescribe
  BY DEF StatsInv, StatOK, StatsDescribe
<1> QED
  BY <1>1, <1>2, <1>3, PTL DEF Spec

(***************************************************************************)
(* Plans                                                                   *)
(***************************************************************************)

PlanT == [tables : Seq(Table), rowCount : Nat, cost : Nat]
JoinT == [table : Table, on : {"k", "other"}]

\* The statistics have what the cost model reads.
Estimated(st, T) == \A t \in T : st[t].rowCount \in Nat /\ st[t].distinct \in Nat

\* A plan that may be the left side of a join.
LeftSide(p, T) == p \in PlanT /\ Len(p.tables) >= 1 /\ ToSet(p.tables) \subseteq T

\* A plan that joins each table of S once.
PlanFor(p, S) ==
  /\ p \in PlanT
  /\ ToSet(p.tables) = S
  /\ IsInjective(p.tables)
  /\ Len(p.tables) = Cardinality(S)

LEMMA DivNat ==
  ASSUME NEW x \in Nat, NEW d \in Nat, d >= 1
  PROVE  x \div d \in Nat
OBVIOUS

LEMMA ProductNat ==
  ASSUME NEW x \in Nat, NEW y \in Nat
  PROVE  x * y \in Nat
OBVIOUS

LEMMA DistinctPositive ==
  ASSUME NEW st, NEW T, Estimated(st, T), NEW t \in T
  PROVE  Distinct(st, t) \in Nat /\ Distinct(st, t) >= 1
BY DEF Estimated, Distinct

LEMMA EstimateNat ==
  ASSUME NEW st, NEW T, Estimated(st, T), NEW left, LeftSide(left, T), NEW t \in T, NEW on
  PROVE  EstimateJoinSize(st, left, t, on) \in Nat
<1>1. PICK u : u = left.tables[1]
  OBVIOUS
<1>2. u \in T
  BY <1>1 DEF LeftSide, PlanT, ToSet
<1>3. CASE Len(left.tables) > 1
  BY <1>3 DEF EstimateJoinSize
<1>4. CASE ~(Len(left.tables) > 1)
  <2>1. PICK a, b : a = Distinct(st, u) /\ b = Distinct(st, t)
    OBVIOUS
  <2>2. a \in Nat /\ a >= 1 /\ b \in Nat /\ b >= 1
    BY <1>2, <2>1, DistinctPositive
  <2>3. Max({a, b}) \in Nat /\ Max({a, b}) >= 1
    <3>1. {a, b} \subseteq Int
      BY <2>2
    <3>2. CASE a >= b
      <4>1. a = Max({a, b})
        BY <2>2, <3>1, <3>2, MinMaxAre
      <4> QED
        BY <2>2, <4>1
    <3>3. CASE ~(a >= b)
      <4>1. b = Max({a, b})
        BY <2>2, <3>1, <3>3, MinMaxAre
      <4> QED
        BY <2>2, <4>1
    <3> QED
      BY <3>2, <3>3
  <2>4. PICK d : d = IF on = "k" THEN Max({a, b}) ELSE 1
    OBVIOUS
  <2>5. d \in Nat /\ d >= 1
    BY <2>3, <2>4
  <2>6. PICK x : x = st[u].rowCount * st[t].rowCount
    OBVIOUS
  <2>7. x \in Nat
    BY <1>2, <2>6, ProductNat DEF Estimated
  <2>8. EstimateJoinSize(st, left, t, on) = x \div d
    BY <1>1, <1>4, <2>1, <2>4, <2>6, Zenon DEF EstimateJoinSize
  <2> QED
    BY <2>5, <2>7, <2>8, DivNat
<1> QED
  BY <1>3, <1>4

\* What a join costs, and that it is a plan again.
LEMMA JoinPlanIs ==
  ASSUME NEW st, NEW T, T \subseteq Table, Estimated(st, T),
         NEW left, LeftSide(left, T), NEW join, join.table \in T
  PROVE  /\ LeftSide(JoinPlan(st, left, join), T)
         /\ JoinPlan(st, left, join).tables = Append(left.tables, join.table)
         /\ JoinPlan(st, left, join).cost = left.cost + left.rowCount * st[join.table].rowCount
         /\ Len(left.tables) > 1 => JoinPlan(st, left, join).rowCount = 0
<1>1. PICK p : p = JoinPlan(st, left, join)
  OBVIOUS
<1>2. PICK t : t = join.table
  OBVIOUS
<1>3. left.tables \in Seq(Table) /\ left.cost \in Nat /\ left.rowCount \in Nat /\ t \in T /\ t \in Table
  BY <1>2 DEF LeftSide, PlanT
<1>4. st[t].rowCount \in Nat
  BY <1>3 DEF Estimated
<1>5. PICK e : e = EstimateJoinSize(st, left, t, join.on)
  OBVIOUS
<1>6. e \in Nat
  BY <1>3, <1>5, EstimateNat
<1>7. PICK c : c = left.cost + left.rowCount * st[t].rowCount
  OBVIOUS
<1>8. c \in Nat
  <2>1. left.rowCount * st[t].rowCount \in Nat
    BY <1>3, <1>4, ProductNat
  <2> QED
    BY <1>3, <1>7, <2>1
<1>9. p = [tables |-> Append(left.tables, t), rowCount |-> e, cost |-> c]
  BY <1>1, <1>2, <1>5, <1>7 DEF JoinPlan, costJoin, bestAccessPath
<1>10. PICK w : w = Append(left.tables, t)
  OBVIOUS
<1>11. w \in Seq(Table) /\ Len(w) = Len(left.tables) + 1 /\ Len(w) >= 1
  BY <1>3, <1>10
<1>12. ToSet(w) \subseteq T
  BY <1>3, <1>10 DEF LeftSide, ToSet
<1>13. p.tables = w /\ p.rowCount = e /\ p.cost = c /\ p \in PlanT
  BY <1>6, <1>8, <1>9, <1>10, <1>11 DEF PlanT
<1>14. LeftSide(p, T)
  BY <1>11, <1>12, <1>13 DEF LeftSide
<1>15. Len(left.tables) > 1 => e = 0
  BY <1>5 DEF EstimateJoinSize
<1> QED
  BY <1>1, <1>2, <1>7, <1>10, <1>13, <1>14, <1>15

LEMMA ForIsLeft ==
  ASSUME NEW T, NEW S \in SUBSET T, IsFiniteSet(T), S # {}, NEW p, PlanFor(p, S)
  PROVE  LeftSide(p, T)
<1>1. IsFiniteSet(S)
  BY FS_Subset
<1>2. Cardinality(S) \in Nat /\ Cardinality(S) # 0
  BY <1>1, FS_CardinalityType, FS_EmptySet
<1> QED
  BY <1>2 DEF PlanFor, LeftSide

LEMMA ScanFor ==
  ASSUME NEW st, NEW T, T \subseteq Table, Estimated(st, T), NEW t \in T
  PROVE  PlanFor(bestAccessPath(st, t), {t}) /\ LeftSide(bestAccessPath(st, t), T)
<1>1. PICK p : p = bestAccessPath(st, t)
  OBVIOUS
<1>2. p.tables = <<t>> /\ p \in PlanT
  BY <1>1 DEF bestAccessPath, PlanT, Estimated
<1>3. Cardinality({t}) = 1
  BY FS_Singleton
<1>4. ToSet(<<t>>) = {t} /\ IsInjective(<<t>>) /\ Len(<<t>>) = 1
  BY DEF ToSet, IsInjective
<1>5. PlanFor(p, {t})
  BY <1>2, <1>3, <1>4 DEF PlanFor
<1>6. LeftSide(p, T)
  BY <1>2, <1>4 DEF LeftSide
<1> QED
  BY <1>1, <1>5, <1>6

LEMMA JoinFor ==
  ASSUME NEW st, NEW T, T \subseteq Table, IsFiniteSet(T), Estimated(st, T),
         NEW S \in SUBSET T, NEW join, join.table \in S, S \ {join.table} # {},
         NEW left, PlanFor(left, S \ {join.table})
  PROVE  PlanFor(JoinPlan(st, left, join), S)
<1>1. PICK t : t = join.table
  OBVIOUS
<1>2. PICK R : R = S \ {t}
  OBVIOUS
<1>3. t \in S /\ R \in SUBSET T /\ R # {} /\ PlanFor(left, R) /\ t \notin R /\ S = R \cup {t}
  BY <1>1, <1>2
<1>4. LeftSide(left, T)
  BY <1>3, ForIsLeft
<1>5. PICK p : p = JoinPlan(st, left, join)
  OBVIOUS
<1>6. p.tables = Append(left.tables, t) /\ LeftSide(p, T)
  BY <1>1, <1>3, <1>4, <1>5, JoinPlanIs
<1>7. IsFiniteSet(R)
  BY <1>3, FS_Subset
<1>8. Cardinality(S) = Cardinality(R) + 1 /\ Cardinality(R) \in Nat
  BY <1>3, <1>7, FS_AddElement, FS_CardinalityType
<1>9. PICK w : w = left.tables
  OBVIOUS
<1>10. w \in Seq(Table) /\ ToSet(w) = R /\ IsInjective(w) /\ Len(w) = Cardinality(R)
  BY <1>3, <1>9 DEF PlanFor, PlanT
<1>11. PICK n \in Nat : n = Len(w) /\ DOMAIN w = 1 .. n
  BY <1>10
<1>12. PICK u : u = Append(w, t)
  OBVIOUS
<1>13. /\ u \in Seq(Table) /\ Len(u) = n + 1 /\ DOMAIN u = 1 .. n + 1
       /\ (\A i \in 1 .. n : u[i] = w[i]) /\ u[n + 1] = t
  <2>1. t \in Table
    BY <1>3
  <2> QED
    BY <1>10, <1>11, <1>12, <2>1
<1>14. \A i \in 1 .. n : w[i] \in R
  BY <1>10, <1>11 DEF ToSet
<1>15. ToSet(u) = S
  <2>1. ASSUME NEW x \in ToSet(u) PROVE x \in S
    <3>1. PICK i \in 1 .. n + 1 : x = u[i]
      BY <1>13 DEF ToSet
    <3>2. CASE i = n + 1
      BY <1>3, <1>13, <3>1, <3>2
    <3>3. CASE i # n + 1
      <4>1. i \in 1 .. n
        BY <3>3
      <4> QED
        BY <1>3, <1>13, <1>14, <3>1, <4>1
    <3> QED
      BY <3>2, <3>3
  <2>2. ASSUME NEW x \in S PROVE x \in ToSet(u)
    <3>1. CASE x = t
      <4>1. n + 1 \in 1 .. n + 1
        OBVIOUS
      <4> QED
        BY <1>13, <3>1, <4>1 DEF ToSet
    <3>2. CASE x # t
      <4>1. PICK i \in 1 .. n : x = w[i]
        BY <1>3, <1>10, <1>11, <3>2 DEF ToSet
      <4>2. i \in 1 .. n + 1
        OBVIOUS
      <4> QED
        BY <1>13, <4>1, <4>2 DEF ToSet
    <3> QED
      BY <3>1, <3>2
  <2> QED
    BY <2>1, <2>2
<1>16. IsInjective(u)
  <2>1. SUFFICES ASSUME NEW a \in 1 .. n + 1, NEW b \in 1 .. n + 1, u[a] = u[b] PROVE a = b
    BY <1>13 DEF IsInjective
  <2>2. \A i \in 1 .. n : u[i] # t
    BY <1>3, <1>13, <1>14
  <2>3. CASE a = n + 1 \/ b = n + 1
    BY <1>13, <2>1, <2>2, <2>3
  <2>4. CASE a # n + 1 /\ b # n + 1
    <3>1. a \in 1 .. n /\ b \in 1 .. n
      BY <2>4
    <3> QED
      BY <1>10, <1>11, <1>13, <2>1, <3>1 DEF IsInjective
  <2> QED
    BY <2>3, <2>4
<1>17. PlanFor(p, S)
  BY <1>6, <1>8, <1>9, <1>10, <1>11, <1>12, <1>13, <1>15, <1>16 DEF PlanFor, LeftSide
<1> QED
  BY <1>5, <1>17

(***************************************************************************)
(* The plan kept for a set of tables                                       *)
(***************************************************************************)

LEMMA EarliestIs ==
  ASSUME NEW K, K \subseteq Nat \X Nat, K # {}
  PROVE  Earliest(K) \in K
<1>1. PICK A : A = {k[1] : k \in K}
  OBVIOUS
<1>2. A \subseteq Nat /\ A # {}
  BY <1>1
<1>3. PICK a \in A : \A y \in A : a <= y
  BY <1>2, LeastNat
<1>4. PICK B : B = {k[2] : k \in {l \in K : l[1] = a}}
  OBVIOUS
<1>5. B \subseteq Nat /\ B # {}
  BY <1>1, <1>3, <1>4
<1>6. PICK b \in B : \A y \in B : b <= y
  BY <1>5, LeastNat
<1>7. PICK k \in K : k[1] = a /\ k[2] = b
  BY <1>4, <1>6
<1>8. ASSUME NEW l \in K PROVE k[1] < l[1] \/ (k[1] = l[1] /\ k[2] <= l[2])
  <2>1. l[1] \in A /\ l[1] \in Nat /\ a \in Nat /\ a <= l[1]
    BY <1>1, <1>2, <1>3
  <2>2. l[1] = a => b <= l[2]
    BY <1>4, <1>6
  <2> QED
    BY <1>7, <2>1, <2>2
<1>9. \E x \in K : \A l \in K : x[1] < l[1] \/ (x[1] = l[1] /\ x[2] <= l[2])
  BY <1>8
<1> QED
  BY <1>9, Zenon DEF Earliest

LEMMA CheapestIs ==
  ASSUME NEW K, K \subseteq Nat \X Nat, K # {}, NEW plans, DOMAIN plans = K,
         \A k \in K : plans[k].cost \in Nat
  PROVE  \E k \in K : Cheapest(plans) = plans[k] /\ \A l \in K : plans[k].cost <= plans[l].cost
<1>1. PICK C : C = {plans[k].cost : k \in K}
  OBVIOUS
<1>2. C \subseteq Nat /\ C # {}
  BY <1>1
<1>3. PICK c \in C : \A y \in C : c <= y
  BY <1>2, LeastNat
<1>4. PICK M : M = {k \in K : \A l \in K : plans[k].cost <= plans[l].cost}
  OBVIOUS
<1>5. M # {} /\ M \subseteq Nat \X Nat
  BY <1>1, <1>3, <1>4
<1>6. Earliest(M) \in M
  BY <1>5, EarliestIs
<1>7. Cheapest(plans) = plans[Earliest(M)]
  BY <1>4 DEF Cheapest
<1> QED
  BY <1>4, <1>6, <1>7

\* An entry of memo: a set of tables with a plan that joins each of them once.
Entries(T) == {e \in [key : SUBSET T, plan : PlanT] : e.key # {} /\ PlanFor(e.plan, e.key)}

LEMMA PlanAtIs ==
  ASSUME NEW T, NEW m \in SUBSET Entries(T), NEW S \in Keys(m)
  PROVE  /\ S \in SUBSET T /\ S # {} /\ PlanFor(PlanAt(m, S), S)
         /\ \E e \in m : e.key = S /\ e.plan = PlanAt(m, S)
<1>1. \E e \in m : e.key = S
  BY DEF Keys
<1>2. PICK e : e = CHOOSE x \in m : x.key = S
  OBVIOUS
<1>3. e \in m /\ e.key = S
  BY <1>1, <1>2, Zenon
<1>4. e.plan = PlanAt(m, S)
  BY <1>2 DEF PlanAt
<1> QED
  BY <1>3, <1>4 DEF Entries

\* JOIN clause j completes the plan of a smaller set to one of S.
Extends(m, joins, S, j) ==
  /\ j \in DOMAIN joins
  /\ joins[j].table \in S
  /\ S \ {joins[j].table} \in Keys(m)

Extended(st, m, joins, S, j) == JoinPlan(st, PlanAt(m, S \ {joins[j].table}), joins[j])

\* What the search starts from: the tables T of a query, in some order.
Setting(st, list, joins, T) ==
  /\ T \subseteq Table /\ IsFiniteSet(T)
  /\ Estimated(st, T)
  /\ list \in Seq(T) /\ ToSet(list) = T /\ Len(list) = Cardinality(T)
  /\ joins \in Seq(JoinT)

LEMMA ExtendedFor ==
  ASSUME NEW st, NEW list, NEW joins, NEW T, Setting(st, list, joins, T),
         NEW m \in SUBSET Entries(T), NEW S \in SUBSET T, NEW j, Extends(m, joins, S, j)
  PROVE  PlanFor(Extended(st, m, joins, S, j), S)
<1>1. PICK join : join = joins[j]
  OBVIOUS
<1>2. join.table \in S /\ S \ {join.table} \in Keys(m)
  BY <1>1 DEF Extends
<1>3. S \ {join.table} # {} /\ PlanFor(PlanAt(m, S \ {join.table}), S \ {join.table})
  BY <1>2, PlanAtIs
<1>4. T \subseteq Table /\ IsFiniteSet(T) /\ Estimated(st, T)
  BY DEF Setting
<1>5. PlanFor(JoinPlan(st, PlanAt(m, S \ {join.table}), join), S)
  BY <1>2, <1>3, <1>4, JoinFor
<1> QED
  BY <1>1, <1>5 DEF Extended

\* The two loops find every clause that extends a smaller set ...
LEMMA CandidatesAre ==
  ASSUME NEW st, NEW list, NEW joins, NEW T, Setting(st, list, joins, T),
         NEW m, NEW S \in SUBSET T
  PROVE  /\ \A k \in Candidates(m, list, joins, S) :
              k \in Nat \X Nat /\ list[k[1]] = joins[k[2]].table /\ Extends(m, joins, S, k[2])
         /\ \A j : Extends(m, joins, S, j) => \E i : <<i, j>> \in Candidates(m, list, joins, S)
<1>1. DOMAIN list \subseteq Nat /\ DOMAIN joins \subseteq Nat /\ ToSet(list) = T
  BY DEF Setting
<1>2. ASSUME NEW k \in Candidates(m, list, joins, S)
      PROVE  k \in Nat \X Nat /\ list[k[1]] = joins[k[2]].table /\ Extends(m, joins, S, k[2])
  <2>1. /\ k \in (DOMAIN list) \X (DOMAIN joins) /\ list[k[1]] \in S
        /\ joins[k[2]].table = list[k[1]] /\ S \ {list[k[1]]} \in Keys(m)
    BY DEF Candidates
  <2>2. k \in Nat \X Nat /\ k[2] \in DOMAIN joins
    BY <1>1, <2>1
  <2> QED
    BY <2>1, <2>2 DEF Extends
<1>3. ASSUME NEW j, Extends(m, joins, S, j) PROVE \E i : <<i, j>> \in Candidates(m, list, joins, S)
  <2>1. j \in DOMAIN joins /\ joins[j].table \in S /\ S \ {joins[j].table} \in Keys(m)
    BY <1>3 DEF Extends
  <2>2. PICK i \in DOMAIN list : list[i] = joins[j].table
    BY <1>1, <2>1 DEF ToSet
  <2>3. <<i, j>> \in (DOMAIN list) \X (DOMAIN joins)
    BY <2>1, <2>2
  <2>4. <<i, j>> \in Candidates(m, list, joins, S)
    BY <2>1, <2>2, <2>3 DEF Candidates
  <2> QED
    BY <2>4
<1> QED
  BY <1>2, <1>3

\* ... and keep the cheapest of them.
IsBest(p, st, m, joins, S) ==
  /\ \E j : Extends(m, joins, S, j) /\ p = Extended(st, m, joins, S, j)
  /\ \A j : Extends(m, joins, S, j) => p.cost <= Extended(st, m, joins, S, j).cost

LEMMA BestJoin ==
  ASSUME NEW st, NEW list, NEW joins, NEW T, Setting(st, list, joins, T),
         NEW m \in SUBSET Entries(T), NEW S \in SUBSET T, Candidates(m, list, joins, S) # {}
  PROVE  IsBest(findBestJoinForSubset(st, m, list, joins, S), st, m, joins, S)
<1>1. PICK K : K = Candidates(m, list, joins, S)
  OBVIOUS
<1>2. PICK plans : plans = [k \in K |-> JoinPlan(st, PlanAt(m, S \ {list[k[1]]}), joins[k[2]])]
  OBVIOUS
<1>3. ASSUME NEW k \in K
      PROVE  k \in Nat \X Nat /\ Extends(m, joins, S, k[2]) /\ plans[k] = Extended(st, m, joins, S, k[2])
  <2>1. k \in Nat \X Nat /\ list[k[1]] = joins[k[2]].table /\ Extends(m, joins, S, k[2])
    BY <1>1, CandidatesAre
  <2> QED
    BY <1>2, <2>1 DEF Extended
<1>4. \A k \in K : plans[k].cost \in Nat
  <2>1. ASSUME NEW k \in K PROVE plans[k].cost \in Nat
    <3>1. PlanFor(plans[k], S)
      BY <1>3, ExtendedFor
    <3> QED
      BY <3>1 DEF PlanFor, PlanT
  <2> QED
    BY <2>1
<1>5. K \subseteq Nat \X Nat /\ K # {} /\ DOMAIN plans = K
  BY <1>1, <1>2, <1>3
<1>6. PICK k \in K : Cheapest(plans) = plans[k] /\ \A l \in K : plans[k].cost <= plans[l].cost
  BY <1>4, <1>5, CheapestIs
<1>7. findBestJoinForSubset(st, m, list, joins, S) = Cheapest(plans)
  BY <1>1, <1>2 DEF findBestJoinForSubset
<1>8. ASSUME NEW j, Extends(m, joins, S, j) PROVE plans[k].cost <= Extended(st, m, joins, S, j).cost
  <2>1. PICK i : <<i, j>> \in K
    BY <1>1, <1>8, CandidatesAre
  <2>2. plans[<<i, j>>] = Extended(st, m, joins, S, j)
    BY <1>3, <2>1
  <2> QED
    BY <1>6, <2>1, <2>2
<1> QED
  BY <1>3, <1>6, <1>7, <1>8 DEF IsBest

(***************************************************************************)
(* The rounds                                                              *)
(***************************************************************************)

\* memo after n rounds: one entry for a set of tables, the scans, and for each
\* larger set the best extension of the entries, where there is one.
MemoOK(m, n, st, joins, T) ==
  /\ m \in SUBSET Entries(T)
  /\ \A e \in m : Cardinality(e.key) <= n
  /\ \A e, f \in m : e.key = f.key => e = f
  /\ n >= 1 => \A t \in T : {t} \in Keys(m) /\ PlanAt(m, {t}) = bestAccessPath(st, t)
  /\ \A S \in SUBSET T : Cardinality(S) \in 2 .. n /\ (\E j : Extends(m, joins, S, j)) => S \in Keys(m)
  /\ \A S \in Keys(m) : Cardinality(S) >= 2 => IsBest(PlanAt(m, S), st, m, joins, S)

\* Unfolding PlanSubsets.
Some(m, list, joins, size) ==
  {S \in SUBSET ToSet(list) : Cardinality(S) = size /\ (size = 1 \/ Candidates(m, list, joins, S) # {})}

Added(st, m, list, joins, size, S) ==
  IF size = 1 THEN bestAccessPath(st, CHOOSE t \in S : TRUE) ELSE findBestJoinForSubset(st, m, list, joins, S)

LEMMA PlanSubsetsIs ==
  ASSUME NEW st, NEW m, NEW list, NEW joins, NEW size
  PROVE  PlanSubsets(st, m, list, joins, size)
           = m \cup {[key |-> S, plan |-> Added(st, m, list, joins, size, S)] :
                       S \in Some(m, list, joins, size)}
BY DEF PlanSubsets, Some, Added

LEMMA SubsetSizes ==
  ASSUME NEW T, IsFiniteSet(T), NEW S \in SUBSET T
  PROVE  /\ IsFiniteSet(S) /\ Cardinality(S) \in Nat
         /\ \A x \in S : Cardinality(S \ {x}) = Cardinality(S) - 1
<1>1. IsFiniteSet(S)
  BY FS_Subset
<1>2. Cardinality(S) \in Nat
  BY <1>1, FS_CardinalityType
<1>3. \A x \in S : Cardinality(S \ {x}) = Cardinality(S) - 1
  BY <1>1, FS_RemoveElement
<1> QED
  BY <1>1, <1>2, <1>3

\* What a round adds are plans.
LEMMA AddedFor ==
  ASSUME NEW st, NEW list, NEW joins, NEW T, Setting(st, list, joins, T),
         NEW m \in SUBSET Entries(T), NEW size \in Nat, size >= 1,
         NEW S \in Some(m, list, joins, size)
  PROVE  /\ S \in SUBSET T /\ S # {} /\ Cardinality(S) = size
         /\ PlanFor(Added(st, m, list, joins, size, S), S)
         /\ size = 1 => \E t \in T : S = {t} /\ Added(st, m, list, joins, size, S) = bestAccessPath(st, t)
         /\ size # 1 => IsBest(Added(st, m, list, joins, size, S), st, m, joins, S)
<1>1. T \subseteq Table /\ IsFiniteSet(T) /\ Estimated(st, T) /\ ToSet(list) = T
  BY DEF Setting
<1>2. S \in SUBSET T /\ Cardinality(S) = size /\ (size = 1 \/ Candidates(m, list, joins, S) # {})
  BY <1>1 DEF Some
<1>3. IsFiniteSet(S) /\ S # {}
  <2>1. IsFiniteSet(S)
    BY <1>1, <1>2, SubsetSizes
  <2>2. Cardinality({}) = 0
    BY FS_EmptySet
  <2> QED
    BY <1>2, <2>1, <2>2
<1>4. PICK p : p = Added(st, m, list, joins, size, S)
  OBVIOUS
<1>5. CASE size = 1
  <2>1. PICK t : S = {t}
    BY <1>2, <1>3, <1>5, FS_Singleton
  <2>2. (CHOOSE u \in S : TRUE) = t /\ t \in T
    BY <1>2, <2>1
  <2>3. p = bestAccessPath(st, t)
    BY <1>4, <1>5, <2>2 DEF Added
  <2>4. PlanFor(p, S)
    BY <1>1, <2>1, <2>2, <2>3, ScanFor
  <2> QED
    BY <1>2, <1>3, <1>4, <1>5, <2>1, <2>2, <2>3, <2>4
<1>6. CASE size # 1
  <2>1. p = findBestJoinForSubset(st, m, list, joins, S) /\ Candidates(m, list, joins, S) # {}
    BY <1>2, <1>4, <1>6 DEF Added
  <2>2. IsBest(p, st, m, joins, S)
    BY <1>2, <2>1, BestJoin
  <2>3. PICK j : Extends(m, joins, S, j) /\ p = Extended(st, m, joins, S, j)
    BY <2>2 DEF IsBest
  <2>4. PlanFor(p, S)
    BY <1>2, <2>3, ExtendedFor
  <2> QED
    BY <1>2, <1>3, <1>4, <1>6, <2>2, <2>4
<1> QED
  BY <1>5, <1>6

\* A round makes entries of entries.
LEMMA RoundEntries ==
  ASSUME NEW st, NEW list, NEW joins, NEW T, Setting(st, list, joins, T),
         NEW m \in SUBSET Entries(T), NEW size \in Nat, size >= 1
  PROVE  PlanSubsets(st, m, list, joins, size) \in SUBSET Entries(T)
<1>1. ASSUME NEW S \in Some(m, list, joins, size)
      PROVE  [key |-> S, plan |-> Added(st, m, list, joins, size, S)] \in Entries(T)
  <2>1. PICK p : p = Added(st, m, list, joins, size, S)
    OBVIOUS
  <2>2. S \in SUBSET T /\ S # {} /\ PlanFor(p, S)
    BY <2>1, AddedFor
  <2>3. p \in PlanT
    BY <2>2 DEF PlanFor
  <2>4. [key |-> S, plan |-> p] \in Entries(T)
    BY <2>2, <2>3 DEF Entries
  <2> QED
    BY <2>1, <2>4
<1> QED
  BY <1>1, PlanSubsetsIs

LEMMA MemoStart ==
  ASSUME NEW st, NEW joins, NEW T
  PROVE  MemoOK({}, 0, st, joins, T)
<1>1. Keys({}) = {}
  BY DEF Keys
<1>2. \A i : i \notin 2 .. 0
  OBVIOUS
<1> QED
  BY <1>1, <1>2 DEF MemoOK

LEMMA MemoStep ==
  ASSUME NEW st, NEW list, NEW joins, NEW T, Setting(st, list, joins, T),
         NEW n \in Nat, n >= 1, NEW m, MemoOK(m, n - 1, st, joins, T)
  PROVE  MemoOK(PlanSubsets(st, m, list, joins, n), n, st, joins, T)
<1>1. PICK M : M = PlanSubsets(st, m, list, joins, n)
  OBVIOUS
<1>2. PICK W : W = Some(m, list, joins, n)
  OBVIOUS
<1>3. PICK A : A = {[key |-> S, plan |-> Added(st, m, list, joins, n, S)] : S \in W}
  OBVIOUS
<1>4. M = m \cup A
  BY <1>1, <1>2, <1>3, PlanSubsetsIs
<1>5. T \subseteq Table /\ IsFiniteSet(T) /\ ToSet(list) = T
  BY DEF Setting
<1>6. /\ m \in SUBSET Entries(T)
      /\ \A e \in m : Cardinality(e.key) <= n - 1
      /\ \A e, f \in m : e.key = f.key => e = f
      /\ n - 1 >= 1 => \A t \in T : {t} \in Keys(m) /\ PlanAt(m, {t}) = bestAccessPath(st, t)
      /\ \A S \in SUBSET T : Cardinality(S) \in 2 .. n - 1 /\ (\E j : Extends(m, joins, S, j)) => S \in Keys(m)
      /\ \A S \in Keys(m) : Cardinality(S) >= 2 => IsBest(PlanAt(m, S), st, m, joins, S)
  BY DEF MemoOK
<1>7. M \in SUBSET Entries(T)
  BY <1>1, <1>6, RoundEntries
<1>8. \A e \in M : e.key \in SUBSET T /\ Cardinality(e.key) \in Nat
  <2>1. ASSUME NEW e \in M PROVE e.key \in SUBSET T /\ Cardinality(e.key) \in Nat
    <3>1. e.key \in SUBSET T
      BY <1>7 DEF Entries
    <3> QED
      BY <1>5, <3>1, SubsetSizes
  <2> QED
    BY <2>1
<1>9. \A e \in A : Cardinality(e.key) = n /\ e.key \in W
  <2>1. \A S \in W : Cardinality(S) = n
    BY <1>2, <1>6, AddedFor
  <2> QED
    BY <1>3, <2>1
<1>10. \A e \in M : Cardinality(e.key) <= n
  BY <1>4, <1>6, <1>8, <1>9
<1>11. \A e, f \in M : e.key = f.key => e = f
  <2>1. SUFFICES ASSUME NEW e \in M, NEW f \in M, e.key = f.key PROVE e = f
    OBVIOUS
  <2>2. CASE e \in m /\ f \in m
    BY <1>6, <2>1, <2>2
  <2>3. CASE e \in A /\ f \in A
    BY <1>3, <2>1, <2>3
  <2>4. ASSUME NEW x \in m, NEW y \in A, x.key = y.key PROVE FALSE
    <3>1. Cardinality(x.key) \in Nat /\ Cardinality(x.key) <= n - 1 /\ Cardinality(x.key) = n
      BY <1>4, <1>6, <1>8, <1>9, <2>4
    <3> QED
      BY <3>1
  <2> QED
    BY <1>4, <2>1, <2>2, <2>3, <2>4
\* The old entries are kept, the new ones are those of size n.
<1>12. ASSUME NEW e \in M PROVE e.key \in Keys(M) /\ PlanAt(M, e.key) = e.plan
  <2>1. e.key \in Keys(M)
    BY DEF Keys
  <2>2. PICK f \in M : f.key = e.key /\ f.plan = PlanAt(M, e.key)
    BY <1>7, <2>1, PlanAtIs
  <2> QED
    BY <1>11, <2>1, <2>2
<1>13. ASSUME NEW S \in Keys(m) PROVE S \in Keys(M) /\ PlanAt(M, S) = PlanAt(m, S)
  <2>1. PICK e \in m : e.key = S /\ e.plan = PlanAt(m, S)
    BY <1>6, PlanAtIs
  <2> QED
    BY <1>4, <1>12, <2>1
<1>14. ASSUME NEW S \in W PROVE S \in Keys(M) /\ PlanAt(M, S) = Added(st, m, list, joins, n, S)
  <2>1. PICK e : e = [key |-> S, plan |-> Added(st, m, list, joins, n, S)]
    OBVIOUS
  <2>2. e \in M
    BY <1>3, <1>4, <2>1
  <2> QED
    BY <1>12, <2>1, <2>2
<1>15. \A S \in Keys(M) : S \in SUBSET T /\ Cardinality(S) \in Nat /\ (S \in Keys(m) \/ S \in W)
  <2>1. ASSUME NEW S \in Keys(M)
        PROVE  S \in SUBSET T /\ Cardinality(S) \in Nat /\ (S \in Keys(m) \/ S \in W)
    <3>1. PICK e \in M : e.key = S
      BY DEF Keys
    <3>2. e \in m => S \in Keys(m)
      BY <3>1 DEF Keys
    <3> QED
      BY <1>4, <1>8, <1>9, <3>1, <3>2
  <2> QED
    BY <2>1
<1>16. \A S \in Keys(m) : Cardinality(S) <= n - 1
  BY <1>6 DEF Keys
\* A set of at most n tables is extended in M as it is in m.
<1>17. ASSUME NEW S \in SUBSET T, Cardinality(S) <= n, NEW j
       PROVE  /\ Extends(M, joins, S, j) <=> Extends(m, joins, S, j)
              /\ Extends(m, joins, S, j) => Extended(st, M, joins, S, j) = Extended(st, m, joins, S, j)
  <2>1. PICK R : R = S \ {joins[j].table}
    OBVIOUS
  <2>2. ASSUME joins[j].table \in S PROVE R \in Keys(M) <=> R \in Keys(m)
    <3>1. Cardinality(S) \in Nat /\ Cardinality(R) = Cardinality(S) - 1
      BY <1>5, <2>1, <2>2, SubsetSizes
    <3>2. R \notin W
      <4>1. \A X \in W : Cardinality(X) = n
        BY <1>2, <1>6, AddedFor
      <4> QED
        BY <1>17, <3>1, <4>1
    <3> QED
      BY <1>13, <1>15, <3>2
  <2>3. Extends(M, joins, S, j) <=> Extends(m, joins, S, j)
    BY <2>1, <2>2 DEF Extends
  <2>4. ASSUME Extends(m, joins, S, j) PROVE PlanAt(M, R) = PlanAt(m, R)
    BY <1>13, <2>1, <2>4 DEF Extends
  <2> QED
    BY <2>1, <2>3, <2>4 DEF Extended
<1>18. ASSUME NEW t \in T PROVE {t} \in Keys(M) /\ PlanAt(M, {t}) = bestAccessPath(st, t)
  <2>1. CASE n = 1
    <3>1. {t} \in W
      BY <1>2, <1>5, <2>1, FS_Singleton DEF Some
    <3>2. PICK u \in T : {t} = {u} /\ Added(st, m, list, joins, n, {t}) = bestAccessPath(st, u)
      BY <1>2, <1>6, <2>1, <3>1, AddedFor
    <3> QED
      BY <1>14, <3>1, <3>2
  <2>2. CASE n # 1
    BY <1>6, <1>13, <2>2
  <2> QED
    BY <2>1, <2>2
<1>19. ASSUME NEW S \in SUBSET T, Cardinality(S) \in 2 .. n, NEW j, Extends(M, joins, S, j)
       PROVE  S \in Keys(M)
  <2>1. Cardinality(S) <= n
    BY <1>19
  <2>2. Extends(m, joins, S, j)
    BY <1>17, <1>19, <2>1
  <2>3. CASE Cardinality(S) = n
    <3>1. Candidates(m, list, joins, S) # {}
      BY <2>2, CandidatesAre
    <3>2. S \in W
      BY <1>2, <1>5, <2>3, <3>1 DEF Some
    <3> QED
      BY <1>14, <3>2
  <2>4. CASE Cardinality(S) # n
    <3>1. Cardinality(S) \in 2 .. n - 1
      BY <1>19, <2>4
    <3> QED
      BY <1>6, <1>13, <2>2, <3>1
  <2> QED
    BY <2>3, <2>4
<1>20. ASSUME NEW S \in Keys(M), Cardinality(S) >= 2 PROVE IsBest(PlanAt(M, S), st, M, joins, S)
  <2>1. S \in SUBSET T /\ Cardinality(S) \in Nat /\ (S \in Keys(m) \/ S \in W)
    BY <1>15
  <2>2. IsBest(PlanAt(M, S), st, m, joins, S) /\ Cardinality(S) <= n
    <3>1. CASE S \in Keys(m)
      BY <1>6, <1>13, <1>16, <1>20, <2>1, <3>1
    <3>2. CASE S \in W
      <4>1. Cardinality(S) = n
        BY <1>2, <1>6, <3>2, AddedFor
      <4>2. IsBest(Added(st, m, list, joins, n, S), st, m, joins, S)
        BY <1>2, <1>6, <1>20, <3>2, <4>1, AddedFor
      <4> QED
        BY <1>14, <3>2, <4>1, <4>2
    <3> QED
      BY <2>1, <3>1, <3>2
  <2> QED
    BY <1>17, <2>1, <2>2 DEF IsBest
<1>21. MemoOK(M, n, st, joins, T)
  BY <1>7, <1>10, <1>11, <1>18, <1>19, <1>20 DEF MemoOK
<1> QED
  BY <1>1, <1>21

RoundsEq(r, st, list, joins) ==
  r = [size \in 0 .. Len(list) |->
         IF size = 0 THEN {} ELSE PlanSubsets(st, r[size - 1], list, joins, size)]

Chosen(F, T) == IF T \in Keys(F) THEN PlanAt(F, T) ELSE None

LEMMA RoundsUnfold ==
  ASSUME NEW st, NEW list, NEW joins, NEW a, RoundsEq(a, st, list, joins)
  PROVE  \E r : /\ RoundsEq(r, st, list, joins)
                /\ findBestJoinOrder(st, list, joins) = Chosen(r[Len(list)], ToSet(list))
BY DEF RoundsEq, findBestJoinOrder, Chosen

\* The search takes its plan from memo after as many rounds as there are tables.
LEMMA SearchIs ==
  ASSUME NEW st, NEW list, NEW joins, NEW T, Setting(st, list, joins, T)
  PROVE  \E F : MemoOK(F, Cardinality(T), st, joins, T) /\ findBestJoinOrder(st, list, joins) = Chosen(F, T)
<1>1. PICK k \in Nat : k = Len(list) /\ k = Cardinality(T) /\ ToSet(list) = T
  BY DEF Setting
<1>2. PICK V : V = SUBSET Entries(T)
  OBVIOUS
<1>3. PICK G : G = [n \in 1 .. k |-> [m \in V |-> PlanSubsets(st, m, list, joins, n)]]
  OBVIOUS
<1>4. G \in [1 .. k -> [V -> V]]
  <2>1. \A n \in 1 .. k : \A m \in V : PlanSubsets(st, m, list, joins, n) \in V
    <3>1. SUFFICES ASSUME NEW n \in 1 .. k, NEW m \in V PROVE PlanSubsets(st, m, list, joins, n) \in V
      OBVIOUS
    <3>2. n \in Nat /\ n >= 1
      OBVIOUS
    <3> QED
      BY <1>2, <3>2, RoundEntries
  <2> QED
    BY <1>3, <2>1
<1>5. {} \in V
  BY <1>2
<1>6. PICK f \in [0 .. k -> V] : Follows(f, {}, G, k)
  BY <1>4, <1>5, RecursionExists
<1>7. ASSUME NEW n \in 0 .. k
      PROVE  f[n] = IF n = 0 THEN {} ELSE PlanSubsets(st, f[n - 1], list, joins, n)
  <2>1. CASE n = 0
    BY <1>6, <2>1 DEF Follows
  <2>2. CASE n # 0
    <3>1. n \in 1 .. k /\ n - 1 \in 0 .. k
      BY <2>2
    <3>2. f[n] = G[n][f[n - 1]] /\ f[n - 1] \in V
      BY <1>6, <3>1 DEF Follows
    <3> QED
      BY <1>3, <2>2, <3>1, <3>2
  <2> QED
    BY <2>1, <2>2
<1>8. f = [n \in 0 .. k |-> IF n = 0 THEN {} ELSE PlanSubsets(st, f[n - 1], list, joins, n)]
  BY <1>7
<1>9. RoundsEq(f, st, list, joins)
  BY <1>1, <1>8 DEF RoundsEq
<1>10. PICK r : /\ RoundsEq(r, st, list, joins)
                /\ findBestJoinOrder(st, list, joins) = Chosen(r[Len(list)], ToSet(list))
  BY <1>9, RoundsUnfold
<1>11. r = [n \in 0 .. k |-> IF n = 0 THEN {} ELSE PlanSubsets(st, r[n - 1], list, joins, n)]
  BY <1>1, <1>10 DEF RoundsEq
<1>12. r[0] = {} /\ \A n \in 1 .. k : r[n] = PlanSubsets(st, r[n - 1], list, joins, n)
  <2>1. 0 \in 0 .. k /\ \A n \in 1 .. k : n \in 0 .. k /\ n # 0
    OBVIOUS
  <2> QED
    BY <1>11, <2>1, Zenon
<1> DEFINE Bad == {n \in 0 .. k : ~MemoOK(r[n], n, st, joins, T)}
<1>13. ASSUME Bad # {} PROVE FALSE
  <2>1. PICK j \in Bad : \A i \in Bad : j <= i
    <3>1. Bad \subseteq Nat
      OBVIOUS
    <3> HIDE DEF Bad
    <3> QED
      BY <1>13, <3>1, LeastNat
  <2>2. j \in 0 .. k /\ ~MemoOK(r[j], j, st, joins, T)
    OBVIOUS
  <2>3. j # 0
    <3>1. MemoOK({}, 0, st, joins, T)
      BY MemoStart
    <3>2. MemoOK(r[0], 0, st, joins, T)
      BY <1>12, <3>1
    <3> QED
      BY <2>2, <3>2
  <2>4. PICK i \in 0 .. k : i = j - 1 /\ ~(j <= i) /\ j \in 1 .. k /\ j \in Nat /\ j >= 1
    BY <2>2, <2>3
  <2>5. MemoOK(r[i], i, st, joins, T)
    BY <2>1, <2>4
  <2>6. MemoOK(PlanSubsets(st, r[i], list, joins, j), j, st, joins, T)
    BY <2>4, <2>5, MemoStep
  <2> QED
    BY <1>12, <2>2, <2>4, <2>6
<1>14. MemoOK(r[k], k, st, joins, T)
  BY <1>13
<1> QED
  BY <1>1, <1>10, <1>14

(***************************************************************************)
(* What the search finds                                                   *)
(***************************************************************************)

\* A query, with statistics of its tables.
Posed(st, q) ==
  /\ q.from \in Table
  /\ q.joins \in Seq(JoinT)
  /\ IsFiniteSet(Tables(q)) /\ Tables(q) \subseteq Table
  /\ Estimated(st, Tables(q))

Memo(F, st, q) == MemoOK(F, Cardinality(Tables(q)), st, q.joins, Tables(q))

\* Every set of tables that holds FROM has a plan: take out any other table, which
\* some JOIN clause names.
LEMMA FromPlanned ==
  ASSUME NEW st, NEW q, Posed(st, q), NEW F, Memo(F, st, q), NEW S \in SUBSET Tables(q), q.from \in S
  PROVE  S \in Keys(F)
<1>1. PICK T : T = Tables(q)
  OBVIOUS
<1>2. PICK joins : joins = q.joins
  OBVIOUS
<1>3. PICK from : from = q.from
  OBVIOUS
<1>4. IsFiniteSet(T) /\ T = {from} \cup {joins[i].table : i \in DOMAIN joins}
  BY <1>1, <1>2, <1>3 DEF Posed, Tables
<1>5. MemoOK(F, Cardinality(T), st, joins, T)
  BY <1>1, <1>2 DEF Memo
<1> DEFINE Bad == {n \in Nat : \E X \in SUBSET T : Cardinality(X) = n /\ from \in X /\ X \notin Keys(F)}
<1>6. ASSUME Bad # {} PROVE FALSE
  <2>1. PICK n \in Bad : \A i \in Bad : n <= i
    <3>1. Bad \subseteq Nat
      OBVIOUS
    <3> HIDE DEF Bad
    <3> QED
      BY <1>6, <3>1, LeastNat
  <2>2. PICK X \in SUBSET T : Cardinality(X) = n /\ from \in X /\ X \notin Keys(F)
    OBVIOUS
  <2>3. IsFiniteSet(X) /\ Cardinality(X) \in Nat /\ Cardinality(X) <= Cardinality(T) /\ Cardinality(T) \in Nat
    BY <1>4, FS_Subset, SubsetSizes, FS_CardinalityType
  <2>4. T # {} /\ Cardinality(T) >= 1
    BY <1>4, <2>3, FS_EmptySet
  <2>5. CASE X = {from}
    BY <1>4, <1>5, <2>2, <2>4, <2>5 DEF MemoOK
  <2>6. CASE X # {from}
    <3>1. PICK t \in X : t # from
      BY <2>2, <2>6
    <3>2. PICK j \in DOMAIN joins : joins[j].table = t
      BY <1>4, <3>1
    <3>3. PICK R : R = X \ {t}
      OBVIOUS
    <3>4. R \in SUBSET T /\ from \in R /\ Cardinality(R) = n - 1 /\ Cardinality(R) \in Nat
      BY <1>4, <2>2, <3>1, <3>3, SubsetSizes
    <3>5. R \in Keys(F)
      <4>1. PICK i \in Nat : i = n - 1 /\ ~(n <= i)
        BY <2>2, <2>3, <3>4
      <4>2. i \notin Bad
        BY <2>1, <4>1
      <4> QED
        BY <3>4, <4>1, <4>2
    <3>6. Extends(F, joins, X, j)
      BY <3>1, <3>2, <3>3, <3>5 DEF Extends
    <3>7. Cardinality(R) # 0
      <4>1. IsFiniteSet(R) /\ R # {}
        BY <1>4, <3>4, SubsetSizes
      <4> QED
        BY <4>1, FS_EmptySet
    <3>8. Cardinality(X) \in 2 .. Cardinality(T)
      BY <2>2, <2>3, <3>4, <3>7
    <3> QED
      BY <1>5, <2>2, <3>6, <3>8 DEF MemoOK
  <2> QED
    BY <2>5, <2>6
<1>7. Cardinality(S) \in Nat /\ S \in SUBSET T
  BY <1>1, <1>4, SubsetSizes
<1> QED
  BY <1>1, <1>3, <1>6, <1>7

\* The query names no table twice.
Simple(q) == Cardinality(Tables(q)) = Len(q.joins) + 1

LEMMA SimpleMeans ==
  ASSUME NEW st, NEW q, Posed(st, q), Simple(q)
  PROVE  /\ \A i \in DOMAIN q.joins : q.joins[i].table # q.from
         /\ \A i, j \in DOMAIN q.joins : q.joins[i].table = q.joins[j].table => i = j
<1>1. PICK n \in Nat : n = Len(q.joins) /\ DOMAIN q.joins = 1 .. n
  BY DEF Posed
<1>2. PICK D : D = 0 .. n
  OBVIOUS
<1>3. IsFiniteSet(D) /\ Cardinality(D) = n + 1
  BY <1>2, FS_Interval
<1>4. PICK f : f = [i \in D |-> IF i = 0 THEN q.from ELSE q.joins[i].table]
  OBVIOUS
<1>5. f[0] = q.from /\ \A i \in 1 .. n : f[i] = q.joins[i].table /\ i \in D /\ 0 \in D /\ i # 0
  BY <1>2, <1>4
<1>6. f \in Surjection(D, Tables(q))
  <2>1. \A i \in D : i = 0 \/ i \in 1 .. n
    BY <1>2
  <2>2. 0 \in D
    BY <1>2
  <2>3. f \in [D -> Tables(q)]
    BY <1>1, <1>4, <2>1 DEF Tables
  <2>4. \A t \in Tables(q) : \E i \in D : f[i] = t
    BY <1>1, <1>5, <2>2 DEF Tables
  <2> QED
    BY <2>3, <2>4 DEF Surjection
<1>7. f \in Injection(D, Tables(q))
  <2>1. Cardinality(D) = Cardinality(Tables(q))
    BY <1>1, <1>3 DEF Simple
  <2> QED
    BY <1>3, <1>6, <2>1, FS_SurjSameCardinalityImpliesInj
<1>8. \A a, b \in D : f[a] = f[b] => a = b
  BY <1>7 DEF Injection, IsInjective
<1> QED
  BY <1>1, <1>5, <1>8

\* The facts that Memo gives about the plan of a set of tables.
LEMMA MemoMeans ==
  ASSUME NEW st, NEW q, Posed(st, q), NEW F, Memo(F, st, q), NEW S \in Keys(F)
  PROVE  /\ S \in SUBSET Tables(q) /\ S # {} /\ Cardinality(S) \in Nat /\ Cardinality(S) >= 1
         /\ PlanFor(PlanAt(F, S), S)
         /\ LeftSide(PlanAt(F, S), Tables(q))
         /\ Cardinality(S) >= 2 => IsBest(PlanAt(F, S), st, F, q.joins, S)
         /\ \A t : S = {t} => PlanAt(F, S) = bestAccessPath(st, t)
<1>1. PICK T : T = Tables(q)
  OBVIOUS
<1>2. IsFiniteSet(T) /\ MemoOK(F, Cardinality(T), st, q.joins, T)
  BY <1>1 DEF Posed, Memo
<1>3. F \in SUBSET Entries(T)
  BY <1>2 DEF MemoOK
<1>4. S \in SUBSET T /\ S # {} /\ PlanFor(PlanAt(F, S), S)
  BY <1>3, PlanAtIs
<1>5. Cardinality(S) \in Nat /\ Cardinality(S) # 0
  <2>1. IsFiniteSet(S) /\ Cardinality(S) \in Nat
    BY <1>2, <1>4, SubsetSizes
  <2> QED
    BY <1>4, <2>1, FS_EmptySet
<1>6. LeftSide(PlanAt(F, S), T)
  BY <1>2, <1>4, ForIsLeft
<1>7. Cardinality(S) >= 2 => IsBest(PlanAt(F, S), st, F, q.joins, S)
  BY <1>2 DEF MemoOK
<1>8. ASSUME NEW t, S = {t} PROVE PlanAt(F, S) = bestAccessPath(st, t)
  <2>1. t \in T /\ T # {}
    BY <1>4, <1>8
  <2>2. Cardinality(T) \in Nat /\ Cardinality(T) # 0
    BY <1>2, <2>1, FS_EmptySet, FS_CardinalityType
  <2> QED
    BY <1>2, <1>8, <2>1, <2>2 DEF MemoOK
<1> QED
  BY <1>1, <1>4, <1>5, <1>6, <1>7, <1>8

\* A larger set's plan joins a table to the plan of the others.
LEMMA BestSplits ==
  ASSUME NEW st, NEW q, Posed(st, q), NEW F, Memo(F, st, q), NEW S \in Keys(F), Cardinality(S) >= 2
  PROVE  \E j \in DOMAIN q.joins :
           /\ q.joins[j].table \in S /\ S \ {q.joins[j].table} \in Keys(F)
           /\ PlanAt(F, S) = JoinPlan(st, PlanAt(F, S \ {q.joins[j].table}), q.joins[j])
           /\ Cardinality(S \ {q.joins[j].table}) = Cardinality(S) - 1
<1>1. S \in SUBSET Tables(q) /\ IsBest(PlanAt(F, S), st, F, q.joins, S)
  BY MemoMeans
<1>2. PICK j : Extends(F, q.joins, S, j) /\ PlanAt(F, S) = Extended(st, F, q.joins, S, j)
  BY <1>1 DEF IsBest
<1>3. IsFiniteSet(Tables(q))
  BY DEF Posed
<1>4. j \in DOMAIN q.joins /\ q.joins[j].table \in S /\ S \ {q.joins[j].table} \in Keys(F)
  BY <1>2 DEF Extends
<1>5. Cardinality(S \ {q.joins[j].table}) = Cardinality(S) - 1
  BY <1>1, <1>3, <1>4, SubsetSizes
<1> QED
  BY <1>2, <1>4, <1>5 DEF Extended

\* FROM is never joined to others when no JOIN clause names it.
LEMMA FromFirst ==
  ASSUME NEW st, NEW q, Posed(st, q), Simple(q), NEW F, Memo(F, st, q), NEW S \in Keys(F), q.from \in S
  PROVE  PlanAt(F, S).tables[1] = q.from
<1> DEFINE Bad == {n \in Nat : \E X \in Keys(F) :
                     Cardinality(X) = n /\ q.from \in X /\ PlanAt(F, X).tables[1] # q.from}
<1>1. ASSUME Bad # {} PROVE FALSE
  <2>1. PICK n \in Bad : \A i \in Bad : n <= i
    <3>1. Bad \subseteq Nat
      OBVIOUS
    <3> HIDE DEF Bad
    <3> QED
      BY <1>1, <3>1, LeastNat
  <2>2. PICK X \in Keys(F) : Cardinality(X) = n /\ q.from \in X /\ PlanAt(F, X).tables[1] # q.from
    OBVIOUS
  <2>3. X \in SUBSET Tables(q) /\ Cardinality(X) \in Nat /\ Cardinality(X) >= 1 /\ IsFiniteSet(Tables(q))
    BY MemoMeans DEF Posed
  <2>4. CASE Cardinality(X) = 1
    <3>1. IsFiniteSet(X)
      BY <2>3, SubsetSizes
    <3>2. X = {q.from}
      BY <2>2, <2>4, <3>1, FS_Singleton
    <3>3. PlanAt(F, X) = bestAccessPath(st, q.from)
      BY <3>2, MemoMeans
    <3> QED
      BY <2>2, <3>3 DEF bestAccessPath
  <2>5. CASE Cardinality(X) # 1
    <3>1. Cardinality(X) >= 2
      BY <2>3, <2>5
    <3>2. PICK j \in DOMAIN q.joins :
            /\ q.joins[j].table \in X /\ X \ {q.joins[j].table} \in Keys(F)
            /\ PlanAt(F, X) = JoinPlan(st, PlanAt(F, X \ {q.joins[j].table}), q.joins[j])
            /\ Cardinality(X \ {q.joins[j].table}) = Cardinality(X) - 1
      BY <3>1, BestSplits
    <3>3. PICK R : R = X \ {q.joins[j].table}
      OBVIOUS
    <3>4. q.from \in R /\ R \in Keys(F) /\ Cardinality(R) = n - 1
      BY <2>2, <3>2, <3>3, SimpleMeans
    <3>5. PlanAt(F, R).tables[1] = q.from
      <4>1. PICK i \in Nat : i = n - 1 /\ ~(n <= i)
        BY <2>2, <2>3
      <4>2. i \notin Bad
        BY <2>1, <4>1
      <4> QED
        BY <3>4, <4>1, <4>2
    <3>6. PICK left : left = PlanAt(F, R)
      OBVIOUS
    <3>7. LeftSide(left, Tables(q))
      BY <3>4, <3>6, MemoMeans
    <3>8. PlanAt(F, X).tables = Append(left.tables, q.joins[j].table)
      <4>1. PlanAt(F, X) = JoinPlan(st, left, q.joins[j])
        BY <3>2, <3>3, <3>6
      <4>2. JoinPlan(st, left, q.joins[j]).tables = Append(left.tables, q.joins[j].table)
        BY DEF JoinPlan
      <4> QED
        BY <4>1, <4>2
    <3>9. left.tables \in Seq(Table) /\ Len(left.tables) >= 1
      BY <3>7 DEF LeftSide, PlanT
    <3>10. PlanAt(F, X).tables[1] = left.tables[1]
      BY <3>8, <3>9
    <3> QED
      BY <2>2, <3>5, <3>6, <3>10
  <2> QED
    BY <2>4, <2>5
<1>2. Cardinality(S) \in Nat
  BY MemoMeans
<1> QED
  BY <1>1, <1>2

(***************************************************************************)
(* The plan against every order of the JOIN clauses                        *)
(***************************************************************************)

PathEq(c, st, q, o) ==
  c = [n \in 0 .. Len(o) |->
         IF n = 0 THEN bestAccessPath(st, q.from) ELSE JoinPlan(st, c[n - 1], q.joins[o[n]])]

LEMMA PathUnfold ==
  ASSUME NEW st, NEW q, NEW o, NEW a, PathEq(a, st, q, o)
  PROVE  \E c : PathEq(c, st, q, o) /\ PlanOf(st, q, o) = c[Len(o)]
BY DEF PathEq, PlanOf

IsPath(c, st, q, o) ==
  /\ c[0] = bestAccessPath(st, q.from)
  /\ \A n \in 1 .. Len(q.joins) : c[n] = JoinPlan(st, c[n - 1], q.joins[o[n]])

LEMMA OrderIs ==
  ASSUME NEW st, NEW q, Posed(st, q), NEW o \in Orders(q)
  PROVE  /\ Len(o) = Len(q.joins) /\ Len(q.joins) \in Nat /\ DOMAIN q.joins = 1 .. Len(q.joins)
         /\ \A n \in 1 .. Len(q.joins) :
              /\ o[n] \in DOMAIN q.joins
              /\ q.joins[o[n]] \in JoinT
              /\ q.joins[o[n]].table \in Tables(q)
         /\ \A a, b \in 1 .. Len(q.joins) : o[a] = o[b] => a = b
<1>1. PICK n \in Nat : n = Len(q.joins) /\ DOMAIN q.joins = 1 .. n
  BY DEF Posed
<1>2. o \in [1 .. n -> 1 .. n] /\ IsInjective(o)
  BY <1>1 DEF Orders
<1>3. Len(o) = n
  <2>1. o \in Seq(1 .. n) /\ DOMAIN o = 1 .. n
    BY <1>2
  <2> QED
    BY <2>1
<1>4. \A a, b \in 1 .. n : o[a] = o[b] => a = b
  BY <1>2 DEF IsInjective
<1>5. \A i \in 1 .. n : q.joins[i] \in JoinT /\ q.joins[i].table \in Tables(q)
  BY <1>1 DEF Posed, Tables
<1> QED
  BY <1>1, <1>2, <1>3, <1>4, <1>5

LEMMA PlanOfIs ==
  ASSUME NEW st, NEW q, Posed(st, q), NEW o \in Orders(q)
  PROVE  \E c : IsPath(c, st, q, o) /\ PlanOf(st, q, o) = c[Len(q.joins)]
<1>1. PICK k \in Nat : k = Len(q.joins) /\ k = Len(o)
  BY OrderIs
<1>2. PICK T : T = Tables(q)
  OBVIOUS
<1>3. T \subseteq Table /\ Estimated(st, T) /\ q.from \in T
  BY <1>2 DEF Posed, Tables
<1>4. PICK V : V = {p \in PlanT : LeftSide(p, T)}
  OBVIOUS
<1>5. \A n \in 1 .. k : q.joins[o[n]].table \in T
  BY <1>1, <1>2, OrderIs
<1>6. PICK G : G = [n \in 1 .. k |-> [p \in V |-> JoinPlan(st, p, q.joins[o[n]])]]
  OBVIOUS
<1>7. \A n \in 1 .. k : \A p \in V : JoinPlan(st, p, q.joins[o[n]]) \in V
  <2>1. SUFFICES ASSUME NEW n \in 1 .. k, NEW p \in V PROVE JoinPlan(st, p, q.joins[o[n]]) \in V
    OBVIOUS
  <2>2. LeftSide(p, T)
    BY <1>4
  <2>3. LeftSide(JoinPlan(st, p, q.joins[o[n]]), T)
    BY <1>3, <1>5, <2>2, JoinPlanIs
  <2> QED
    BY <1>4, <2>3 DEF LeftSide
<1>8. G \in [1 .. k -> [V -> V]]
  BY <1>6, <1>7
<1>9. PICK b : b = bestAccessPath(st, q.from)
  OBVIOUS
<1>10. b \in V
  <2>1. LeftSide(b, T)
    BY <1>3, <1>9, ScanFor
  <2> QED
    BY <1>4, <2>1 DEF LeftSide
<1>11. PICK f \in [0 .. k -> V] : Follows(f, b, G, k)
  BY <1>8, <1>10, RecursionExists
<1>12. ASSUME NEW n \in 0 .. k
       PROVE  f[n] = IF n = 0 THEN b ELSE JoinPlan(st, f[n - 1], q.joins[o[n]])
  <2>1. CASE n = 0
    BY <1>11, <2>1 DEF Follows
  <2>2. CASE n # 0
    <3>1. n \in 1 .. k /\ n - 1 \in 0 .. k
      BY <2>2
    <3>2. f[n] = G[n][f[n - 1]] /\ f[n - 1] \in V
      BY <1>11, <3>1 DEF Follows
    <3> QED
      BY <1>6, <2>2, <3>1, <3>2
  <2> QED
    BY <2>1, <2>2
<1>13. f = [n \in 0 .. k |-> IF n = 0 THEN b ELSE JoinPlan(st, f[n - 1], q.joins[o[n]])]
  BY <1>12
<1>14. PathEq(f, st, q, o)
  BY <1>1, <1>9, <1>13 DEF PathEq
<1>15. PICK c : PathEq(c, st, q, o) /\ PlanOf(st, q, o) = c[Len(o)]
  BY <1>14, PathUnfold
<1>16. c = [n \in 0 .. k |-> IF n = 0 THEN b ELSE JoinPlan(st, c[n - 1], q.joins[o[n]])]
  BY <1>1, <1>9, <1>15 DEF PathEq
<1>17. c[0] = b /\ \A n \in 1 .. k : c[n] = JoinPlan(st, c[n - 1], q.joins[o[n]])
  <2>1. 0 \in 0 .. k /\ \A n \in 1 .. k : n \in 0 .. k /\ n # 0
    OBVIOUS
  <2> QED
    BY <1>16, <2>1, Zenon
<1>18. IsPath(c, st, q, o)
  BY <1>1, <1>9, <1>17 DEF IsPath
<1> QED
  BY <1>1, <1>15, <1>18

\* The tables joined after i clauses of the order.
Reach(q, o, i) == {q.from} \cup {q.joins[o[l]].table : l \in 1 .. i}

LEMMA ReachIs ==
  ASSUME NEW st, NEW q, Posed(st, q), Simple(q), NEW o \in Orders(q)
  PROVE  /\ Reach(q, o, 0) = {q.from}
         /\ \A i \in 0 .. Len(q.joins) : Reach(q, o, i) \in SUBSET Tables(q) /\ q.from \in Reach(q, o, i)
         /\ \A i \in 1 .. Len(q.joins) :
              /\ q.joins[o[i]].table \notin Reach(q, o, i - 1)
              /\ Reach(q, o, i) = Reach(q, o, i - 1) \cup {q.joins[o[i]].table}
<1>1. PICK n \in Nat : n = Len(q.joins) /\ DOMAIN q.joins = 1 .. n
  BY DEF Posed
<1>2. /\ \A i \in 1 .. n : o[i] \in 1 .. n /\ q.joins[o[i]].table \in Tables(q)
      /\ \A a, b \in 1 .. n : o[a] = o[b] => a = b
  BY <1>1, OrderIs
<1>3. /\ \A i \in 1 .. n : q.joins[i].table # q.from
      /\ \A i, j \in 1 .. n : q.joins[i].table = q.joins[j].table => i = j
  BY <1>1, SimpleMeans
<1>4. Reach(q, o, 0) = {q.from}
  <2>1. 1 .. 0 = {}
    OBVIOUS
  <2> QED
    BY <2>1 DEF Reach
<1>5. q.from \in Tables(q)
  BY DEF Tables
<1>6. ASSUME NEW i \in 0 .. n PROVE Reach(q, o, i) \in SUBSET Tables(q) /\ q.from \in Reach(q, o, i)
  <2>1. \A l \in 1 .. i : l \in 1 .. n
    OBVIOUS
  <2> QED
    BY <1>2, <1>5, <2>1 DEF Reach
<1>7. ASSUME NEW i \in 1 .. n
      PROVE  /\ q.joins[o[i]].table \notin Reach(q, o, i - 1)
             /\ Reach(q, o, i) = Reach(q, o, i - 1) \cup {q.joins[o[i]].table}
  <2>1. 1 .. i = (1 .. i - 1) \cup {i} /\ \A l \in 1 .. i - 1 : l \in 1 .. n /\ l # i
    OBVIOUS
  <2>2. \A l \in 1 .. i - 1 : q.joins[o[l]].table # q.joins[o[i]].table
    BY <1>2, <1>3, <2>1
  <2>3. q.joins[o[i]].table # q.from
    BY <1>2, <1>3
  <2>4. Reach(q, o, i) = Reach(q, o, i - 1) \cup {q.joins[o[i]].table}
    BY <2>1, Zenon DEF Reach
  <2> QED
    BY <2>2, <2>3, <2>4 DEF Reach
<1> QED
  BY <1>1, <1>4, <1>6, <1>7

\* After i clauses memo's plan of the same tables is no dearer, and estimated to
\* deliver as many rows.
NoDearer(F, q, o, c, i) ==
  /\ LeftSide(c[i], Tables(q))
  /\ Len(c[i].tables) = i + 1
  /\ Cardinality(Reach(q, o, i)) = i + 1
  /\ PlanAt(F, Reach(q, o, i)).cost <= c[i].cost
  /\ PlanAt(F, Reach(q, o, i)).rowCount = c[i].rowCount

LEMMA NoDearerStart ==
  ASSUME NEW st, NEW q, Posed(st, q), Simple(q), NEW F, Memo(F, st, q), NEW o \in Orders(q),
         NEW c, IsPath(c, st, q, o)
  PROVE  NoDearer(F, q, o, c, 0)
<1>1. PICK p : p = bestAccessPath(st, q.from)
  OBVIOUS
<1>2. Reach(q, o, 0) = {q.from} /\ c[0] = p
  BY <1>1, ReachIs DEF IsPath
<1>3. q.from \in Tables(q) /\ Tables(q) \subseteq Table /\ Estimated(st, Tables(q))
  BY DEF Posed, Tables
<1>4. LeftSide(p, Tables(q)) /\ p.tables = <<q.from>> /\ p.cost \in Nat
  <2>1. LeftSide(p, Tables(q))
    BY <1>1, <1>3, ScanFor
  <2> QED
    BY <1>1, <2>1 DEF bestAccessPath, LeftSide, PlanT
<1>5. Cardinality({q.from}) = 1
  BY FS_Singleton
<1>6. PlanAt(F, {q.from}) = p
  <2>1. {q.from} \in Keys(F)
    BY <1>3, FromPlanned
  <2> QED
    BY <1>1, <2>1, MemoMeans
<1> QED
  BY <1>2, <1>4, <1>5, <1>6 DEF NoDearer

LEMMA NoDearerStep ==
  ASSUME NEW st, NEW q, Posed(st, q), Simple(q), NEW F, Memo(F, st, q), NEW o \in Orders(q),
         NEW c, IsPath(c, st, q, o), NEW i \in 1 .. Len(q.joins), NoDearer(F, q, o, c, i - 1)
  PROVE  NoDearer(F, q, o, c, i)
<1>1. PICK n \in Nat : n = Len(q.joins) /\ DOMAIN q.joins = 1 .. n
  BY DEF Posed
<1>2. i \in Nat /\ i >= 1 /\ i \in 1 .. n /\ i \in 0 .. n /\ i - 1 \in 0 .. n
  BY <1>1
<1>3. PICK T : T = Tables(q)
  OBVIOUS
<1>4. PICK join : join = q.joins[o[i]]
  OBVIOUS
<1>5. PICK t : t = join.table
  OBVIOUS
<1>6. PICK R : R = Reach(q, o, i - 1)
  OBVIOUS
<1>7. PICK S : S = Reach(q, o, i)
  OBVIOUS
<1>8. R \in SUBSET T /\ q.from \in R /\ S \in SUBSET T /\ q.from \in S /\ t \notin R /\ S = R \cup {t}
  BY <1>1, <1>2, <1>3, <1>4, <1>5, <1>6, <1>7, ReachIs
<1>9. R \in Keys(F) /\ S \in Keys(F)
  BY <1>3, <1>8, FromPlanned
<1>10. PICK p : p = PlanAt(F, R)
  OBVIOUS
<1>11. PICK x : x = PlanAt(F, S)
  OBVIOUS
<1>12. PICK d : d = c[i - 1]
  OBVIOUS
<1>13. PICK e : e = c[i]
  OBVIOUS
<1>14. e = JoinPlan(st, d, join) /\ o[i] \in DOMAIN q.joins /\ t \in T
  BY <1>1, <1>2, <1>3, <1>4, <1>5, <1>12, <1>13, OrderIs DEF IsPath
<1>15. T \subseteq Table /\ Estimated(st, T) /\ IsFiniteSet(T) /\ st[t].rowCount \in Nat
  BY <1>3, <1>14 DEF Posed, Estimated
<1>16. /\ LeftSide(d, T) /\ Len(d.tables) = i /\ Cardinality(R) = i
       /\ p.cost <= d.cost /\ p.rowCount = d.rowCount
  BY <1>2, <1>3, <1>6, <1>10, <1>12 DEF NoDearer
<1>17. LeftSide(p, T) /\ LeftSide(x, T)
  BY <1>3, <1>9, <1>10, <1>11, MemoMeans
<1>18. /\ p.cost \in Nat /\ p.rowCount \in Nat /\ d.cost \in Nat /\ d.rowCount \in Nat
       /\ x.cost \in Nat /\ x.rowCount \in Nat /\ d.tables \in Seq(Table)
  BY <1>16, <1>17 DEF LeftSide, PlanT
\* The plan of the order.
<1>19. /\ LeftSide(e, T) /\ e.tables = Append(d.tables, t)
       /\ e.cost = d.cost + d.rowCount * st[t].rowCount
       /\ Len(d.tables) > 1 => e.rowCount = 0
  BY <1>5, <1>14, <1>15, <1>16, JoinPlanIs
<1>20. Len(e.tables) = i + 1
  BY <1>16, <1>18, <1>19
<1>21. Cardinality(S) = i + 1
  <2>1. IsFiniteSet(R)
    BY <1>8, <1>15, SubsetSizes
  <2> QED
    BY <1>8, <1>16, <2>1, FS_AddElement
\* Its cost.
<1>22. x.cost <= e.cost
  <2>1. S \ {t} = R
    BY <1>8
  <2>2. Extends(F, q.joins, S, o[i])
    BY <1>4, <1>5, <1>8, <1>9, <1>14, <2>1 DEF Extends
  <2>3. IsBest(x, st, F, q.joins, S)
    BY <1>2, <1>9, <1>11, <1>21, MemoMeans
  <2>4. x.cost <= Extended(st, F, q.joins, S, o[i]).cost
    BY <2>2, <2>3 DEF IsBest
  <2>5. Extended(st, F, q.joins, S, o[i]) = JoinPlan(st, p, join)
    BY <1>4, <1>5, <1>10, <2>1 DEF Extended
  <2>6. JoinPlan(st, p, join).cost = p.cost + p.rowCount * st[t].rowCount
    BY <1>5, <1>14, <1>15, <1>17, JoinPlanIs
  <2>7. PICK y : y = d.rowCount * st[t].rowCount
    OBVIOUS
  <2>8. y \in Nat
    BY <1>15, <1>18, <2>7, ProductNat
  <2>9. x.cost <= p.cost + y /\ e.cost = d.cost + y
    BY <1>16, <1>19, <2>4, <2>5, <2>6, <2>7
  <2> QED
    BY <1>16, <1>18, <2>8, <2>9
\* Its rows.
<1>23. x.rowCount = e.rowCount
  <2>1. Cardinality(S) >= 2
    BY <1>2, <1>21
  <2>2. PICK j \in DOMAIN q.joins :
          /\ q.joins[j].table \in S /\ S \ {q.joins[j].table} \in Keys(F)
          /\ PlanAt(F, S) = JoinPlan(st, PlanAt(F, S \ {q.joins[j].table}), q.joins[j])
          /\ Cardinality(S \ {q.joins[j].table}) = Cardinality(S) - 1
    BY <1>9, <2>1, BestSplits
  <2>3. PICK Q : Q = S \ {q.joins[j].table}
    OBVIOUS
  <2>4. PICK left : left = PlanAt(F, Q)
    OBVIOUS
  <2>5. x = JoinPlan(st, left, q.joins[j]) /\ Cardinality(Q) = i /\ Q \in Keys(F)
    BY <1>2, <1>11, <1>21, <2>2, <2>3, <2>4
  <2>6. CASE i = 1
    <3>1. i - 1 = 0 /\ R = {q.from} /\ d = bestAccessPath(st, q.from)
      BY <1>6, <1>12, <2>6, ReachIs DEF IsPath
    <3>2. q.joins[j].table = t
      BY <1>8, <2>2, <3>1, SimpleMeans
    <3>3. j = o[i]
      BY <1>4, <1>5, <1>14, <3>2, SimpleMeans
    <3>4. Q = {q.from} /\ {q.from} \in Keys(F)
      BY <1>8, <2>3, <2>5, <3>1, <3>2
    <3>5. left = bestAccessPath(st, q.from)
      BY <2>4, <3>4, MemoMeans
    <3> QED
      BY <1>4, <1>14, <2>5, <3>1, <3>3, <3>5
  <2>7. CASE i # 1
    <3>1. LeftSide(left, T) /\ PlanFor(left, Q)
      BY <1>3, <2>4, <2>5, MemoMeans
    <3>2. Len(left.tables) = i
      BY <2>5, <3>1 DEF PlanFor
    <3>3. i > 1
      BY <1>2, <2>7
    <3>4. q.joins[j].table \in T
      BY <1>8, <2>2
    <3>5. JoinPlan(st, left, q.joins[j]).rowCount = 0
      BY <1>15, <3>1, <3>2, <3>3, <3>4, JoinPlanIs
    <3>6. e.rowCount = 0
      BY <1>16, <1>19, <3>3
    <3> QED
      BY <2>5, <3>5, <3>6
  <2> QED
    BY <2>6, <2>7
<1> QED
  BY <1>3, <1>7, <1>11, <1>13, <1>19, <1>20, <1>21, <1>22, <1>23 DEF NoDearer

\* The plan of memo for all tables is the cheapest.
LEMMA CheapestOfAll ==
  ASSUME NEW st, NEW q, Posed(st, q), Simple(q), NEW F, Memo(F, st, q), NEW o \in Orders(q)
  PROVE  PlanAt(F, Tables(q)).cost <= PlanOf(st, q, o).cost
<1>1. PICK n \in Nat : n = Len(q.joins)
  BY DEF Posed
<1>2. PICK c : IsPath(c, st, q, o) /\ PlanOf(st, q, o) = c[n]
  BY <1>1, PlanOfIs
<1> DEFINE Bad == {i \in 0 .. n : ~NoDearer(F, q, o, c, i)}
<1>3. ASSUME Bad # {} PROVE FALSE
  <2>1. PICK j \in Bad : \A i \in Bad : j <= i
    <3>1. Bad \subseteq Nat
      OBVIOUS
    <3> HIDE DEF Bad
    <3> QED
      BY <1>3, <3>1, LeastNat
  <2>2. j \in 0 .. n /\ ~NoDearer(F, q, o, c, j)
    OBVIOUS
  <2>3. j # 0
    BY <1>2, <2>2, NoDearerStart
  <2>4. PICK i \in 0 .. n : i = j - 1 /\ ~(j <= i) /\ j \in 1 .. n
    BY <2>2, <2>3
  <2>5. NoDearer(F, q, o, c, i)
    BY <2>1, <2>4
  <2>6. NoDearer(F, q, o, c, j)
    BY <1>1, <1>2, <2>4, <2>5, NoDearerStep
  <2> QED
    BY <2>2, <2>6
<1>4. NoDearer(F, q, o, c, n)
  BY <1>3
<1>5. Reach(q, o, n) = Tables(q)
  <2>1. Reach(q, o, n) \in SUBSET Tables(q)
    BY <1>1, ReachIs
  <2>2. Cardinality(Reach(q, o, n)) = Cardinality(Tables(q)) /\ IsFiniteSet(Tables(q))
    BY <1>1, <1>4 DEF NoDearer, Simple, Posed
  <2> QED
    BY <2>1, <2>2, FS_Subset
<1> QED
  BY <1>2, <1>4, <1>5 DEF NoDearer

(***************************************************************************)
(* The estimate of the filter                                              *)
(***************************************************************************)

IsFraction(f) == f[1] \in Nat /\ f[2] \in Nat /\ f[2] >= 1 /\ f[1] <= f[2]

\* A fraction of a number of rows is no more than that.
LEMMA FractionOf ==
  ASSUME NEW x \in Nat, NEW a \in Nat, NEW b \in Nat, b >= 1, a <= b
  PROVE  (x * a) \div b \in 0 .. x
<1>1. PICK y : y = x * a
  OBVIOUS
<1>2. y \in Nat /\ y <= x * b
  <2>1. PICK d \in Nat : b = a + d
    <3>1. b - a \in Nat /\ b = a + (b - a)
      OBVIOUS
    <3> QED
      BY <3>1
  <2>2. x * b = x * a + x * d
    BY <2>1
  <2>3. x * a \in Nat /\ x * d \in Nat
    BY <2>1, ProductNat
  <2> QED
    BY <1>1, <2>2, <2>3
<1>3. PICK z : z = y \div b
  OBVIOUS
<1>4. z \in Nat
  BY <1>2, <1>3, DivNat
<1>5. z * b <= y
  BY <1>2, <1>3
<1>6. ASSUME z > x PROVE FALSE
  <2>1. PICK d \in Nat : z = x + 1 + d
    <3>1. z - x - 1 \in Nat /\ z = x + 1 + (z - x - 1)
      BY <1>4, <1>6
    <3> QED
      BY <3>1
  <2>2. z * b = x * b + b + d * b
    BY <2>1
  <2>3. x * b \in Nat /\ d * b \in Nat /\ z * b \in Nat
    BY <1>4, <2>1, ProductNat
  <2> QED
    BY <1>2, <1>5, <2>2, <2>3
<1> QED
  BY <1>1, <1>3, <1>4, <1>6

LEMMA SelectivityIs ==
  ASSUME NEW st, NEW t, st[t].distinct \in Nat, NEW where \in Where, where # "none"
  PROVE  IsFraction(EstimateSelectivity(st, t, where))
<1>1. PICK n \in Nat : n = st[t].distinct
  OBVIOUS
<1>2. PICK l : l = eqSel(st, t)
  OBVIOUS
<1>3. l[1] = 1 /\ l[2] \in Nat /\ l[2] >= 1
  BY <1>1, <1>2 DEF eqSel
<1>4. CASE where = "opaque" \/ where = "expr" \/ st[t] = Unknown
  BY <1>4 DEF EstimateSelectivity, IsFraction
<1>5. CASE ~(where = "opaque" \/ where = "expr" \/ st[t] = Unknown)
  <2>1. CASE where = "eq"
    <3>1. EstimateSelectivity(st, t, where) = l
      BY <1>2, <1>5, <2>1 DEF EstimateSelectivity
    <3> QED
      BY <1>3, <3>1 DEF IsFraction
  <2>2. CASE where = "ne"
    <3>1. EstimateSelectivity(st, t, where) = IF n > 0 THEN <<n - 1, n>> ELSE <<1, 2>>
      BY <1>1, <1>5, <2>2 DEF EstimateSelectivity
    <3> QED
      BY <3>1 DEF IsFraction
  <2>3. CASE where = "range"
    <3>1. EstimateSelectivity(st, t, where) \in {<<1, 3>>, <<333, 1000>>}
      BY <1>5, <2>3 DEF EstimateSelectivity
    <3> QED
      BY <3>1 DEF IsFraction
  <2>4. CASE where = "and"
    <3>1. EstimateSelectivity(st, t, where) = andSel(l, <<1, 2>>)
      BY <1>2, <1>5, <2>4 DEF EstimateSelectivity
    <3>2. andSel(l, <<1, 2>>) = <<l[1] * 1, l[2] * 2>>
      BY DEF andSel
    <3> QED
      BY <1>3, <3>1, <3>2 DEF IsFraction
  <2>5. CASE where = "or"
    <3>1. EstimateSelectivity(st, t, where) = orSel(l, <<1, 2>>)
      BY <1>2, <1>5, <2>5 DEF EstimateSelectivity
    <3>2. orSel(l, <<1, 2>>) = <<l[1] * 2 + 1 * l[2] - l[1] * 1, l[2] * 2>>
      BY DEF orSel
    <3> QED
      BY <1>3, <3>1, <3>2 DEF IsFraction
  <2> QED
    BY <1>5, <2>1, <2>2, <2>3, <2>4, <2>5 DEF Where
<1> QED
  BY <1>4, <1>5

LEMMA OutputIs ==
  ASSUME NEW st, NEW q, st[q.from].distinct \in Nat, q.where \in Where,
         NEW plan, plan.rowCount \in Nat
  PROVE  Output(st, q, plan) \in 0 .. plan.rowCount
<1>1. CASE q.where = "none"
  BY <1>1 DEF Output
<1>2. CASE q.where # "none"
  <2>1. PICK sel : sel = EstimateSelectivity(st, q.from, q.where)
    OBVIOUS
  <2>2. IsFraction(sel)
    BY <1>2, <2>1, SelectivityIs
  <2>3. Output(st, q, plan) = (plan.rowCount * sel[1]) \div sel[2]
    BY <1>2, <2>1 DEF Output
  <2> QED
    BY <2>2, <2>3, FractionOf DEF IsFraction
<1> QED
  BY <1>1, <1>2

(***************************************************************************)
(* Optimize                                                                *)
(***************************************************************************)

\* What Optimal says of the result res for query q and statistics st.
OptimalFor(res, st, q) ==
  /\ res.plan # None
  /\ ToSet(res.plan.tables) = Tables(q)
  /\ IsInjective(res.plan.tables)
  /\ res.output \in 0 .. res.plan.rowCount
  /\ Cardinality(Tables(q)) = Len(q.joins) + 1 =>
       /\ res.plan.tables[1] = q.from
       /\ \A o \in Orders(q) : res.plan.cost <= PlanOf(st, q, o).cost

LEMMA QueryTables ==
  ASSUME NEW q \in Queries
  PROVE  Tables(q) \in SUBSET Table
<1>1. PICK joins : joins = q.joins
  OBVIOUS
<1>2. q.from \in Table /\ joins \in Seq(JoinT)
  BY <1>1, PlannerAssumption DEF JoinT
<1>3. \A i \in DOMAIN joins : joins[i] \in JoinT
  BY <1>2
<1>4. \A i \in DOMAIN joins : joins[i].table \in Table
  BY <1>3 DEF JoinT
<1> QED
  BY <1>1, <1>2, <1>4 DEF Tables

LEMMA QueryPosed ==
  ASSUME NEW q \in Queries, NEW st, Estimated(st, Tables(q))
  PROVE  Posed(st, q) /\ q.where \in Where
<1>1. q.from \in Table /\ q.where \in Where /\ q.joins \in Seq(JoinT) /\ IsFiniteSet(Table)
  BY PlannerAssumption DEF JoinT
<1>2. Tables(q) \in SUBSET Table
  BY QueryTables
<1>3. IsFiniteSet(Tables(q))
  BY <1>1, <1>2, FS_Subset
<1> QED
  BY <1>1, <1>2, <1>3 DEF Posed

LEMMA QuerySetting ==
  ASSUME NEW q, NEW st, Posed(st, q), NEW list \in SetToSeqs(Tables(q))
  PROVE  Setting(st, list, q.joins, Tables(q))
<1>1. PICK T : T = Tables(q)
  OBVIOUS
<1>2. T \subseteq Table /\ IsFiniteSet(T) /\ Estimated(st, T) /\ q.joins \in Seq(JoinT)
  BY <1>1 DEF Posed
<1>3. PICK k \in Nat : k = Cardinality(T)
  BY <1>2, FS_CardinalityType
<1>4. list \in [1 .. k -> T] /\ \A i, j \in 1 .. k : i # j => list[i] # list[j]
  BY <1>1, <1>3 DEF SetToSeqs
<1>5. list \in Seq(T) /\ Len(list) = k /\ DOMAIN list = 1 .. k
  BY <1>4
<1>6. list \in Injection(1 .. k, T)
  BY <1>4, Zenon DEF Injection, IsInjective
<1>7. Cardinality(1 .. k) = k
  BY FS_Interval
<1>8. list \in Surjection(1 .. k, T)
  BY <1>2, <1>3, <1>6, <1>7, FS_Injection
<1>9. ToSet(list) = T
  <2>1. \A t \in T : \E i \in 1 .. k : list[i] = t
    BY <1>8 DEF Surjection
  <2> QED
    BY <1>4, <1>5, <2>1 DEF ToSet
<1>10. Setting(st, list, q.joins, T)
  BY <1>2, <1>3, <1>5, <1>9 DEF Setting
<1> QED
  BY <1>1, <1>10

LEMMA OptimizeFinds ==
  ASSUME NEW q \in Queries, NEW st, Estimated(st, Tables(q)), NEW list \in SetToSeqs(Tables(q)),
         NEW plan, plan = findBestJoinOrder(st, list, q.joins),
         NEW res, res.plan = plan, res.output = IF plan = None THEN None ELSE Output(st, q, plan)
  PROVE  OptimalFor(res, st, q)
<1>1. Posed(st, q) /\ q.where \in Where
  BY QueryPosed
<1>2. Setting(st, list, q.joins, Tables(q))
  BY <1>1, QuerySetting
<1>3. PICK F : /\ MemoOK(F, Cardinality(Tables(q)), st, q.joins, Tables(q))
               /\ findBestJoinOrder(st, list, q.joins) = Chosen(F, Tables(q))
  BY <1>2, SearchIs
<1>4. Memo(F, st, q)
  BY <1>3 DEF Memo
<1>5. q.from \in Tables(q) /\ Tables(q) \in SUBSET Tables(q)
  BY DEF Tables
<1>6. Tables(q) \in Keys(F)
  BY <1>1, <1>4, <1>5, FromPlanned
<1>7. plan = PlanAt(F, Tables(q))
  BY <1>3, <1>6 DEF Chosen
<1>8. PlanFor(plan, Tables(q))
  BY <1>1, <1>4, <1>6, <1>7, MemoMeans
<1>9. plan \in PlanT /\ plan # None
  BY <1>8, PlannerAssumption DEF PlanFor, PlanT
<1>10. res.output = Output(st, q, plan) /\ plan.rowCount \in Nat
  BY <1>9 DEF PlanT
<1>11. res.output \in 0 .. plan.rowCount
  <2>1. st[q.from].distinct \in Nat
    BY <1>5 DEF Estimated
  <2> QED
    BY <1>1, <1>10, <2>1, OutputIs
<1>12. ASSUME Simple(q)
       PROVE  plan.tables[1] = q.from /\ \A o \in Orders(q) : plan.cost <= PlanOf(st, q, o).cost
  <2>1. plan.tables[1] = q.from
    BY <1>1, <1>4, <1>5, <1>6, <1>7, <1>12, FromFirst
  <2>2. \A o \in Orders(q) : plan.cost <= PlanOf(st, q, o).cost
    BY <1>1, <1>4, <1>7, <1>12, CheapestOfAll
  <2> QED
    BY <2>1, <2>2
<1>13. ToSet(plan.tables) = Tables(q) /\ IsInjective(plan.tables)
  BY <1>8 DEF PlanFor
<1> QED
  BY <1>9, <1>11, <1>12, <1>13 DEF OptimalFor, Simple

\* The optimizer works on a query of the set with statistics it can read, and has a
\* result only for that query.
AskedInv ==
  /\ asked # None => asked.query \in Queries /\ Estimated(asked.stats, Tables(asked.query))
  /\ result # None => asked # None /\ OptimalFor(result, asked.stats, asked.query)

PlannerInv == StatsInv /\ AskedInv

LEMMA AskedStep ==
  ASSUME StatsInv, AskedInv, [Next]_pvars
  PROVE  AskedInv'
<1>1. ASSUME UNCHANGED <<asked, result>> PROVE AskedInv'
  BY <1>1 DEF AskedInv
<1>2. ASSUME NEW t \in Live, NEW v \in Value \cup {Null}, Insert(t, v) PROVE AskedInv'
  BY <1>1, <1>2 DEF Insert
<1>3. ASSUME NEW t \in Live, NEW i, NEW v \in Value \cup {Null}, Update(t, i, v) PROVE AskedInv'
  BY <1>1, <1>3 DEF Update
<1>4. ASSUME NEW t \in Live, NEW i, Delete(t, i) PROVE AskedInv'
  BY <1>1, <1>4 DEF Delete
<1>5. ASSUME NEW t \in Live, CreateTable(t) PROVE AskedInv'
  BY <1>1, <1>5 DEF CreateTable
<1>6. ASSUME NEW t \in Live, DropTable(t) PROVE AskedInv'
  BY <1>1, <1>6 DEF DropTable
<1>7. ASSUME NEW t \in Live, Analyze(t) PROVE AskedInv'
  BY <1>1, <1>7 DEF Analyze
<1>8. ASSUME NEW q \in Queries, CollectStats(q) PROVE AskedInv'
  <2>1. PICK st : st = [t \in Tables(q) |-> IF Stats(t) = None THEN Unknown ELSE Stats(t)]
    OBVIOUS
  <2>2. asked = None /\ asked' = [query |-> q, stats |-> st] /\ result' = result
    BY <1>8, <2>1 DEF CollectStats, Idle
  <2>3. result' = None
    BY <2>2 DEF AskedInv
  <2>4. Estimated(st, Tables(q))
    <3>1. SUFFICES ASSUME NEW t \in Tables(q) PROVE st[t].rowCount \in Nat /\ st[t].distinct \in Nat
      BY DEF Estimated
    <3>2. t \in Table
      BY <1>8, QueryTables
    <3>3. StatOK(engine, rows[t], drops[t], stats[t], taken[t])
      BY <3>2 DEF StatsInv
    <3>4. Stats(t) = None \/ Stats(t) \in StatsT
      <4>1. rows[t] # None => Collect(engine, rows[t]) \in StatsT
        BY <3>3, CollectDescribes DEF StatOK
      <4> QED
        BY <3>3, <4>1 DEF StatOK, Stats
    <3>5. st[t] = Unknown \/ st[t] \in StatsT
      BY <2>1, <3>4
    <3>6. Unknown.rowCount \in Nat /\ Unknown.distinct \in Nat
      BY DEF Unknown
    <3> QED
      BY <3>5, <3>6 DEF StatsT
  <2>5. asked'.query = q /\ asked'.stats = st
    BY <2>2
  <2> QED
    BY <1>8, <2>3, <2>4, <2>5 DEF AskedInv
<1>9. CASE Optimize
  <2>1. asked # None /\ asked' = asked
    BY <1>9 DEF Optimize
  <2>2. asked.query \in Queries /\ Estimated(asked.stats, Tables(asked.query))
    BY <2>1 DEF AskedInv
  <2>3. PICK list \in SetToSeqs(Tables(asked.query)) :
          result' = [plan   |-> findBestJoinOrder(asked.stats, list, asked.query.joins),
                     output |-> IF findBestJoinOrder(asked.stats, list, asked.query.joins) = None THEN None
                                ELSE Output(asked.stats, asked.query,
                                            findBestJoinOrder(asked.stats, list, asked.query.joins))]
    BY <1>9 DEF Optimize
  <2>4. PICK plan : plan = findBestJoinOrder(asked.stats, list, asked.query.joins)
    OBVIOUS
  <2>5. PICK res : res = [plan   |-> plan,
                          output |-> IF plan = None THEN None ELSE Output(asked.stats, asked.query, plan)]
    OBVIOUS
  <2>6. result' = res
    BY <2>3, <2>4, <2>5
  <2>7. res.plan = plan /\ res.output = IF plan = None THEN None ELSE Output(asked.stats, asked.query, plan)
    BY <2>5
  <2>8. OptimalFor(res, asked.stats, asked.query)
    BY <2>2, <2>4, <2>7, OptimizeFinds
  <2> QED
    BY <2>1, <2>2, <2>6, <2>8 DEF AskedInv
<1>10. CASE Return
  BY <1>10 DEF Return, AskedInv
<1>11. CASE UNCHANGED pvars
  BY <1>1, <1>11 DEF pvars
<1> QED
  BY <1>2, <1>3, <1>4, <1>5, <1>6, <1>7, <1>8, <1>9, <1>10, <1>11 DEF Next

\* For every query, every state of the statistics and every order in which Go walks
\* the map of tables, Optimize finds a plan that joins each table once; if no table
\* is named twice, none of the orders of the JOIN clauses costs less.
THEOREM OptimizeIsOptimal == Spec => []Optimal
<1>1. Init => PlannerInv
  <2>1. Init => StatsInv
    BY StatsInit
  <2>2. Init => AskedInv
    BY DEF Init, AskedInv
  <2> QED
    BY <2>1, <2>2 DEF PlannerInv
<1>2. PlannerInv /\ [Next]_pvars => PlannerInv'
  <2>1. StatsInv /\ [Next]_pvars => StatsInv'
    BY StatsStep
  <2>2. StatsInv /\ AskedInv /\ [Next]_pvars => AskedInv'
    BY AskedStep
  <2> QED
    BY <2>1, <2>2 DEF PlannerInv
<1>3. PlannerInv => Optimal
  BY DEF PlannerInv, AskedInv, OptimalFor, Optimal
<1> QED
  BY <1>1, <1>2, <1>3, PTL DEF Spec
=============================================================================
