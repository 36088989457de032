---------------------------- MODULE SelectProofs ----------------------------
(***************************************************************************)
(* Theorems about Select for every set of keys and tables of every size:   *)
(* each plan delivers exactly the answer of its query.                     *)
(***************************************************************************)
EXTENDS Select, FiniteSetTheorems, TLAPS

(***************************************************************************)
(* The invariant                                                           *)
(***************************************************************************)

\* A pair of rows that the join has tried, and one that it lets through.
Tried(i, j) ==
  /\ i \in BasePath \ child
  /\ j \in Probe(left[i].k)
  /\ ~(i = leftRow /\ j \in rightIter)

Accepted(i, j) == evalWhere(On(i, j)) /\ evalWhere(Remaining(i))

Delivered(i, j) == \E n \in DOMAIN out : out[n] = <<i, j>>

Tables ==
  /\ \A i \in DOMAIN left : left[i].k \in Value /\ left[i].p \in Truth
  /\ \A j \in DOMAIN right : right[j] \in Value
  /\ query \in Query

Iterators ==
  /\ child \subseteq BasePath
  /\ rightIter # {} => leftRow \in BasePath \ child /\ rightIter \subseteq Probe(left[leftRow].k)

\* What has been delivered is what has been tried and accepted, each pair once.
Output ==
  /\ out \in Seq((DOMAIN left) \X (DOMAIN right))
  /\ \A m, n \in DOMAIN out : out[m] = out[n] => m = n
  /\ \A i \in DOMAIN left, j \in DOMAIN right :
       Delivered(i, j) <=> Tried(i, j) /\ Accepted(i, j)

\* No seek behind a row that was pulled, or behind a finished query, has failed.
Seeks ==
  /\ status = "done" => ~BaseFails
  /\ \A i \in BasePath \ child : ~ProbeFails(i)

QInv ==
  /\ Tables
  /\ Iterators
  /\ Seeks
  /\ status # "error" => Output
  /\ status = "done" => child = {} /\ rightIter = {}
  /\ FailsForAReason

(***************************************************************************)
(* Expressions                                                             *)
(***************************************************************************)

LEMMA ComparisonIs ==
  ASSUME NEW a, NEW s, NEW b, NEW t
  PROVE  /\ evalComparison(a, s, b, t) \in Truth
         /\ evalComparison(a, s, b, t) = "true" <=> a # Null /\ b # Null /\ s = t /\ a = b
         /\ evalComparison(a, s, b, t) = "error" <=> a # Null /\ b # Null /\ s # t
BY DEF evalComparison, Truth

LEMMA AndTrue ==
  ASSUME NEW x \in Truth, NEW y \in Truth
  PROVE  /\ evalAnd(x, y) = "true" <=> x = "true" /\ y = "true"
         /\ evalAnd(x, y) = "error" <=> x = "error" \/ y = "error"
BY DEF evalAnd, Truth

LEMMA RemainingIs ==
  ASSUME Tables, NEW i \in DOMAIN left
  PROVE  /\ Remaining(i) = "true" <=>
              (query.where => /\ left[i].p = "true"
                              /\ \/ query.leftIndex
                                 \/ left[i].k = query.lit /\ query.leftType = query.litType)
         /\ Remaining(i) = "error" =>
              /\ query.where
              /\ \/ left[i].p = "error"
                 \/ ~query.leftIndex /\ left[i].k # Null /\ query.leftType # query.litType
<1>1. left[i].k \in Value /\ left[i].p \in Truth /\ query.lit # Null
  BY SelectAssumption DEF Tables, Query
<1>2. PICK c : c = evalComparison(left[i].k, query.leftType, query.lit, query.litType)
  OBVIOUS
<1>3. /\ c \in Truth
      /\ c = "true" <=> left[i].k = query.lit /\ query.leftType = query.litType
      /\ c = "error" => left[i].k # Null /\ query.leftType # query.litType
  BY <1>1, <1>2, ComparisonIs
<1>4. /\ evalAnd(c, left[i].p) = "true" <=> c = "true" /\ left[i].p = "true"
      /\ evalAnd(c, left[i].p) = "error" => c = "error" \/ left[i].p = "error"
  BY <1>1, <1>3, AndTrue
<1>5. Remaining(i) = IF ~query.where THEN "true"
                     ELSE IF query.leftIndex THEN left[i].p ELSE evalAnd(c, left[i].p)
  BY <1>2 DEF Remaining
<1>6. CASE query.where /\ ~query.leftIndex
  BY <1>3, <1>4, <1>5, <1>6
<1>7. CASE ~query.where \/ query.leftIndex
  BY <1>5, <1>7
<1> QED
  BY <1>6, <1>7

LEMMA OnIs ==
  ASSUME NEW i \in DOMAIN left, NEW j \in DOMAIN right
  PROVE  /\ On(i, j) = "true" <=>
              /\ left[i].k # Null
              /\ query.sameName \/ (left[i].k = right[j] /\ query.leftType = query.rightType)
         /\ On(i, j) = "error" =>
              /\ ~query.sameName /\ query.leftType # query.rightType
              /\ left[i].k # Null /\ right[j] # Null
<1>1. CASE query.sameName
  <2>1. On(i, j) = evalComparison(left[i].k, query.leftType, left[i].k, query.leftType)
    BY <1>1 DEF On
  <2> QED
    BY <1>1, <2>1, ComparisonIs
<1>2. CASE ~query.sameName
  <2>1. On(i, j) = evalComparison(left[i].k, query.leftType, right[j], query.rightType)
    BY <1>2 DEF On
  <2> QED
    BY <1>2, <2>1, ComparisonIs
<1> QED
  BY <1>1, <1>2

\* A seek that neither fails nor meets keys of another type finds the rows of its
\* key, all of them and no others.
LEMMA SeekIs ==
  ASSUME NEW k, NEW t, NEW keys, NEW v \in keys, ~SeekFails(k, t, keys)
  PROVE  Sought(v, t, k) <=> v # Null /\ v = k
<1>1. CASE v = Null
  BY <1>1 DEF Sought
<1>2. CASE v # Null
  <2>1. k # Null /\ t = "INT"
    BY <1>2 DEF SeekFails
  <2> QED
    BY <1>2, <2>1 DEF Sought, IndexKey
<1> QED
  BY <1>1, <1>2

\* The base path of a seek that has not failed: the rows of the literal, unless
\* the integer 0 is sought in an index of another type.
LEMMA BasePathIs ==
  ASSUME Tables, ~BaseFails, query.where, query.leftIndex, NEW i \in DOMAIN left
  PROVE  /\ query.litType = query.leftType => (i \in BasePath <=> left[i].k = query.lit)
         /\ i \in BasePath /\ ~ZeroConfused => query.litType = query.leftType
<1>1. query.lit # Null /\ left[i].k \in LeftKeys
  BY SelectAssumption DEF Tables, Query, LeftKeys
<1>2. ~SeekFails(query.lit, query.litType, LeftKeys)
  BY DEF BaseFails
<1>3. i \in BasePath <=> Sought(left[i].k, query.leftType, query.lit)
  BY DEF BasePath
<1>4. ASSUME query.litType = query.leftType
      PROVE  i \in BasePath <=> left[i].k = query.lit
  BY <1>1, <1>2, <1>3, <1>4, SeekIs
<1>5. ASSUME i \in BasePath, query.litType # query.leftType
      PROVE  ZeroConfused
  <2>1. left[i].k # Null /\ IndexKey(left[i].k, query.leftType) = query.lit
    BY <1>3, <1>5 DEF Sought
  <2>2. query.litType = "INT"
    BY <1>1, <1>2, <2>1 DEF SeekFails
  <2> QED
    BY <1>5, <2>1, <2>2 DEF ZeroConfused, IndexKey
<1> QED
  BY <1>4, <1>5

\* A pair of the answer is read and let through by every plan, and what a plan
\* reads and lets through is in the answer but for the two confusions.
LEMMA AcceptedIsAnswer ==
  ASSUME Tables, NEW i \in DOMAIN left, NEW j \in DOMAIN right, ~BaseFails,
         i \in BasePath => ~ProbeFails(i)
  PROVE  /\ <<i, j>> \in Answer =>
              i \in BasePath /\ j \in Probe(left[i].k) /\ Accepted(i, j)
         /\ i \in BasePath /\ j \in Probe(left[i].k) /\ Accepted(i, j)
              /\ ~NameConfused /\ ~ZeroConfused => <<i, j>> \in Answer
<1>1. Remaining(i) = "true" <=>
        (query.where => /\ left[i].p = "true"
                        /\ \/ query.leftIndex
                           \/ left[i].k = query.lit /\ query.leftType = query.litType)
  BY RemainingIs
<1>2. On(i, j) = "true" <=>
        /\ left[i].k # Null
        /\ query.sameName \/ (left[i].k = right[j] /\ query.leftType = query.rightType)
  BY OnIs
<1>3. <<i, j>> \in Answer <=>
        /\ query.leftType = query.rightType
        /\ left[i].k # Null /\ left[i].k = right[j]
        /\ query.where => query.litType = query.leftType /\ left[i].k = query.lit /\ left[i].p = "true"
  BY DEF Answer
<1>4. Accepted(i, j) <=> On(i, j) = "true" /\ Remaining(i) = "true"
  BY DEF Accepted, evalWhere
<1>5. ~(query.where /\ query.leftIndex) => i \in BasePath
  BY DEF BasePath
<1>6. query.where /\ query.leftIndex =>
        /\ query.litType = query.leftType => (i \in BasePath <=> left[i].k = query.lit)
        /\ i \in BasePath /\ ~ZeroConfused => query.litType = query.leftType
  BY BasePathIs
<1>7. ~query.rightIndex => j \in Probe(left[i].k)
  BY DEF Probe
<1>8. query.rightIndex /\ i \in BasePath /\ query.leftType = query.rightType =>
        (j \in Probe(left[i].k) <=> right[j] # Null /\ right[j] = left[i].k)
  <2> SUFFICES ASSUME query.rightIndex, i \in BasePath, query.leftType = query.rightType
               PROVE  j \in Probe(left[i].k) <=> right[j] # Null /\ right[j] = left[i].k
    OBVIOUS
  <2>1. ~SeekFails(left[i].k, query.leftType, RightKeys) /\ right[j] \in RightKeys
    BY DEF ProbeFails, RightKeys
  <2>2. j \in Probe(left[i].k) <=> Sought(right[j], query.rightType, left[i].k)
    BY DEF Probe
  <2> QED
    BY <2>1, <2>2, SeekIs
<1>9. ASSUME <<i, j>> \in Answer
      PROVE  i \in BasePath /\ j \in Probe(left[i].k) /\ Accepted(i, j)
  BY <1>1, <1>2, <1>3, <1>4, <1>5, <1>6, <1>7, <1>8, <1>9
<1>10. ASSUME i \in BasePath, j \in Probe(left[i].k), Accepted(i, j), ~NameConfused, ~ZeroConfused
       PROVE  <<i, j>> \in Answer
  <2>1. query.leftType = query.rightType /\ left[i].k # Null /\ left[i].k = right[j]
    BY <1>2, <1>4, <1>8, <1>10 DEF NameConfused
  <2>2. query.where => query.litType = query.leftType /\ left[i].k = query.lit /\ left[i].p = "true"
    BY <1>1, <1>4, <1>6, <1>10
  <2> QED
    BY <1>3, <2>1, <2>2
<1> QED
  BY <1>9, <1>10

(***************************************************************************)
(* The steps                                                               *)
(***************************************************************************)

LEMMA QInvInit == Init => QInv
<1> SUFFICES ASSUME Init PROVE QInv
  OBVIOUS
<1>1. Tables
  BY DEF Init, Tables, BoundedSeq
<1>2. Iterators
  BY DEF Init, Iterators
<1>3. Output
  BY DEF Init, Output, Delivered, Tried
<1>4. Seeks
  BY DEF Init, Seeks
<1> QED
  BY <1>1, <1>2, <1>3, <1>4 DEF Init, QInv, FailsForAReason

\* Tables, base path and probes do not change while a query runs.
Fixed == left' = left /\ right' = right /\ query' = query

LEMMA FixedFacts ==
  ASSUME Fixed
  PROVE  /\ BasePath' = BasePath /\ Answer' = Answer
         /\ \A i \in DOMAIN left, j \in DOMAIN right : Accepted(i, j)' = Accepted(i, j)
         /\ BaseFails' = BaseFails
         /\ \A i \in DOMAIN left : ProbeFails(i)' = ProbeFails(i)
         /\ Tables => Tables'
<1>1. LeftKeys' = LeftKeys /\ RightKeys' = RightKeys
  BY DEF Fixed, LeftKeys, RightKeys
<1>2. BaseFails' = BaseFails /\ \A i \in DOMAIN left : ProbeFails(i)' = ProbeFails(i)
  BY <1>1 DEF Fixed, BaseFails, ProbeFails, SeekFails
<1>3. Tables => Tables'
  BY DEF Fixed, Tables
<1>4. BasePath' = BasePath /\ Answer' = Answer
  BY DEF Fixed, BasePath, Answer
<1>5. \A i \in DOMAIN left, j \in DOMAIN right : Accepted(i, j)' = Accepted(i, j)
  BY DEF Fixed, Accepted, On, Remaining
<1> QED
  BY <1>2, <1>3, <1>4, <1>5

\* A step that pulls no row and does not finish keeps what is known of the seeks.
LEMMA SeeksKept ==
  ASSUME QInv, Fixed, child' = child, status' # "done"
  PROVE  Seeks'
<1>1. BasePath \subseteq DOMAIN left
  BY DEF BasePath
<1> QED
  BY <1>1, FixedFacts DEF QInv, Seeks

LEMMA PullLeftStep ==
  ASSUME QInv, PullLeft
  PROVE  QInv'
<1>1. /\ status = "running" /\ rightIter = {} /\ Fixed
      /\ out' = out /\ status' = status
  BY DEF PullLeft, Fixed
<1>2. PICK i \in child : /\ leftRow' = i /\ child' = child \ {i} /\ rightIter' = Probe(left[i].k)
                        /\ ~ProbeFails(i)
  BY DEF PullLeft, PullError
<1>3. Tables' /\ BasePath' = BasePath /\ child \subseteq BasePath /\ i \in BasePath
  BY <1>1, <1>2, FixedFacts DEF QInv, Iterators
<1>4. Iterators'
  BY <1>1, <1>2, <1>3 DEF Iterators, Probe, Fixed
<1>5. \A a \in DOMAIN left, b \in DOMAIN right : Tried(a, b)' <=> Tried(a, b)
  BY <1>1, <1>2, <1>3 DEF Tried, Probe, Fixed
<1>6. Output'
  <2>1. \A a \in DOMAIN left, b \in DOMAIN right : Delivered(a, b)' <=> Delivered(a, b)
    BY <1>1 DEF Delivered
  <2>2. Output
    BY <1>1 DEF QInv
  <2> QED
    BY <1>1, <1>5, <2>1, <2>2, FixedFacts DEF Output, Fixed
<1>7. Seeks'
  <2>1. BasePath \subseteq DOMAIN left
    BY DEF BasePath
  <2> QED
    BY <1>1, <1>2, <1>3, <2>1, FixedFacts DEF QInv, Seeks
<1> QED
  BY <1>1, <1>3, <1>4, <1>6, <1>7 DEF QInv, FailsForAReason

LEMMA TryRightStep ==
  ASSUME QInv, TryRight
  PROVE  QInv'
<1>1. status = "running" /\ Fixed /\ child' = child /\ leftRow' = leftRow /\ status' = status
  BY DEF TryRight, Fixed
<1>2. PICK j \in rightIter :
        /\ rightIter' = rightIter \ {j}
        /\ out' = IF Accepted(leftRow, j) THEN Append(out, <<leftRow, j>>) ELSE out
  BY DEF TryRight, Accepted
<1>3. Tables' /\ BasePath' = BasePath
  BY <1>1, FixedFacts DEF QInv
<1>4. /\ leftRow \in BasePath \ child /\ rightIter \subseteq Probe(left[leftRow].k)
      /\ j \in Probe(left[leftRow].k) /\ child \subseteq BasePath
  BY <1>2 DEF QInv, Iterators
<1>5. leftRow \in DOMAIN left /\ j \in DOMAIN right
  BY <1>4 DEF BasePath, Probe
<1>6. Iterators'
  BY <1>1, <1>2, <1>3, <1>4 DEF Iterators, Probe, Fixed
<1>7. \A a \in DOMAIN left, b \in DOMAIN right :
        Tried(a, b)' <=> Tried(a, b) \/ (a = leftRow /\ b = j)
  BY <1>1, <1>2, <1>3, <1>4 DEF Tried, Probe, Fixed
<1>8. ~Tried(leftRow, j)
  BY <1>2 DEF Tried
<1>9. Output
  BY <1>1 DEF QInv
<1>10. ~Delivered(leftRow, j)
  BY <1>5, <1>8, <1>9 DEF Output
<1>11. CASE Accepted(leftRow, j)
  <2>1. out' = Append(out, <<leftRow, j>>)
    BY <1>2, <1>11
  <2>2. PICK S : S = (DOMAIN left) \X (DOMAIN right)
    OBVIOUS
  <2>3. PICK e : e = <<leftRow, j>>
    OBVIOUS
  <2>4. e \in S /\ out \in Seq(S) /\ out' = Append(out, e)
    BY <1>5, <1>9, <2>1, <2>2, <2>3 DEF Output
  <2>5. PICK n \in Nat : n = Len(out) /\ DOMAIN out = 1 .. n
    BY <2>4
  <2>6. /\ out' \in Seq(S) /\ DOMAIN out' = 1 .. n + 1 /\ out'[n + 1] = e
        /\ \A m \in 1 .. n : out'[m] = out[m]
    BY <2>4, <2>5
  <2>7. \A m \in 1 .. n : out[m] # e
    BY <1>10, <2>3, <2>5 DEF Delivered
  <2>8. \A m \in DOMAIN out' : m = n + 1 \/ m \in 1 .. n
    BY <2>5, <2>6
  <2>9. \A k, m \in DOMAIN out' : out'[k] = out'[m] => k = m
    <3>1. \A k, m \in 1 .. n : out[k] = out[m] => k = m
      BY <1>9, <2>5 DEF Output
    <3> QED
      BY <2>6, <2>7, <2>8, <3>1
  <2>10. ASSUME NEW a \in DOMAIN left, NEW b \in DOMAIN right
         PROVE  Delivered(a, b)' <=> Delivered(a, b) \/ (a = leftRow /\ b = j)
    <3>1. e = <<a, b>> <=> a = leftRow /\ b = j
      BY <2>3
    <3>2. n + 1 \in DOMAIN out' /\ 1 .. n \subseteq DOMAIN out'
      BY <2>5, <2>6
    <3> QED
      BY <2>5, <2>6, <2>8, <3>1, <3>2 DEF Delivered
  <2>11. Output'
    BY <1>1, <1>7, <1>9, <1>11, <2>2, <2>6, <2>9, <2>10, FixedFacts DEF Output, Fixed
  <2> QED
    BY <1>1, <1>3, <1>6, <2>11, SeeksKept DEF QInv, FailsForAReason
<1>12. CASE ~Accepted(leftRow, j)
  <2>1. out' = out
    BY <1>2, <1>12
  <2>2. \A a \in DOMAIN left, b \in DOMAIN right : Delivered(a, b)' <=> Delivered(a, b)
    BY <2>1 DEF Delivered
  <2>3. Output'
    BY <1>1, <1>7, <1>9, <1>12, <2>1, <2>2, FixedFacts DEF Output, Fixed
  <2> QED
    BY <1>1, <1>3, <1>6, <2>3, SeeksKept DEF QInv, FailsForAReason
<1> QED
  BY <1>11, <1>12

LEMMA FinishStep ==
  ASSUME QInv, Finish
  PROVE  QInv'
<1>1. /\ status = "running" /\ rightIter = {} /\ child = {} /\ status' = "done" /\ Fixed
      /\ child' = child /\ leftRow' = leftRow /\ rightIter' = rightIter /\ out' = out
  BY DEF Finish, Fixed
<1>2. Tables' /\ BasePath' = BasePath
  BY <1>1, FixedFacts DEF QInv
<1>3. Iterators'
  BY <1>1 DEF Iterators
<1>4. \A a \in DOMAIN left, b \in DOMAIN right :
        (Tried(a, b)' <=> Tried(a, b)) /\ (Delivered(a, b)' <=> Delivered(a, b))
  BY <1>1, <1>2 DEF Tried, Delivered, Probe, Fixed
<1>5. Output
  BY <1>1 DEF QInv
<1>6. Output'
  BY <1>1, <1>4, <1>5, FixedFacts DEF Output, Fixed
<1>7. Seeks'
  <2>1. ~BaseFails
    BY DEF Finish, PullError
  <2>2. BasePath \subseteq DOMAIN left
    BY DEF BasePath
  <2> QED
    BY <1>1, <1>2, <2>1, <2>2, FixedFacts DEF QInv, Seeks
<1> QED
  BY <1>1, <1>2, <1>3, <1>6, <1>7 DEF QInv, FailsForAReason

\* The keys of the two tables stay what they are.
LEMMA FixedReasons ==
  ASSUME Fixed
  PROVE  LeftKeys' = LeftKeys /\ RightKeys' = RightKeys
BY DEF Fixed, LeftKeys, RightKeys

\* A seek that fails, fails for a reason.
LEMMA PullFailsStep ==
  ASSUME QInv, PullFails
  PROVE  QInv'
<1>1. /\ PullError /\ status' = "error" /\ Fixed
      /\ child' = child /\ leftRow' = leftRow /\ rightIter' = rightIter
  BY DEF PullFails, Fixed
<1>2. Tables' /\ BasePath' = BasePath
  BY <1>1, FixedFacts DEF QInv
<1>3. Iterators'
  BY <1>1, <1>2 DEF Iterators, QInv, Probe, Fixed
<1>4. child \subseteq DOMAIN left
  BY DEF QInv, Iterators, BasePath
<1>5. FailsForAReason'
  <2>1. CASE BaseFails
    <3>1. /\ query.where /\ query.leftIndex /\ query.litType # "INT"
          /\ query.stale \/ LeftKeys \ {Null} # {}
      BY <2>1, SelectAssumption DEF BaseFails, SeekFails, QInv, Tables, Query
    <3> QED
      BY <1>1, <3>1, FixedReasons DEF FailsForAReason, Fixed
  <2>2. CASE \E i \in child : ProbeFails(i)
    <3>1. PICK i \in child : ProbeFails(i)
      BY <2>2
    <3>2. left[i].k \in LeftKeys
      BY <1>4 DEF LeftKeys
    <3>3. /\ query.rightIndex /\ (query.stale \/ RightKeys \ {Null} # {})
          /\ left[i].k = Null \/ query.leftType # "INT"
      BY <3>1 DEF ProbeFails, SeekFails
    <3> QED
      BY <1>1, <3>2, <3>3, FixedReasons DEF FailsForAReason, Fixed
  <2> QED
    BY <1>1, <2>1, <2>2 DEF PullError
<1> QED
  BY <1>1, <1>2, <1>3, <1>5, SeeksKept DEF QInv

LEMMA JoinFailsStep ==
  ASSUME QInv, JoinFails
  PROVE  QInv'
<1>1. /\ status' = "error" /\ Fixed
      /\ child' = child /\ leftRow' = leftRow /\ rightIter' = rightIter
  BY DEF JoinFails, Fixed
<1>2. PICK j \in rightIter : On(leftRow, j) = "error"
  BY DEF JoinFails
<1>3. Tables' /\ BasePath' = BasePath
  BY <1>1, FixedFacts DEF QInv
<1>4. Iterators'
  BY <1>1, <1>3 DEF Iterators, QInv, Probe, Fixed
<1>5. leftRow \in DOMAIN left /\ j \in DOMAIN right
  BY <1>2 DEF QInv, Iterators, BasePath, Probe
<1>6. /\ ~query.sameName /\ query.leftType # query.rightType
      /\ left[leftRow].k # Null /\ right[j] # Null
  BY <1>2, <1>5, OnIs
<1>7. LeftKeys \ {Null} # {} /\ RightKeys \ {Null} # {}
  BY <1>5, <1>6 DEF LeftKeys, RightKeys
<1>8. FailsForAReason'
  BY <1>1, <1>6, <1>7, FixedReasons DEF FailsForAReason, Fixed
<1> QED
  BY <1>1, <1>3, <1>4, <1>8, SeeksKept DEF QInv

LEMMA FilterFailsStep ==
  ASSUME QInv, FilterFails
  PROVE  QInv'
<1>1. /\ Remaining(leftRow) = "error" /\ rightIter # {} /\ status' = "error" /\ Fixed
      /\ child' = child /\ leftRow' = leftRow /\ rightIter' = rightIter
  BY DEF FilterFails, Fixed
<1>2. Tables' /\ BasePath' = BasePath
  BY <1>1, FixedFacts DEF QInv
<1>3. Iterators'
  BY <1>1, <1>2 DEF Iterators, QInv, Probe, Fixed
<1>4. leftRow \in DOMAIN left /\ Tables
  BY <1>1 DEF QInv, Iterators, BasePath
<1>5. /\ query.where
      /\ \/ left[leftRow].p = "error"
         \/ ~query.leftIndex /\ left[leftRow].k # Null /\ query.leftType # query.litType
  BY <1>1, <1>4, RemainingIs
<1>6. left[leftRow].k # Null => LeftKeys \ {Null} # {}
  BY <1>4 DEF LeftKeys
<1>7. FailsForAReason'
  BY <1>1, <1>4, <1>5, <1>6, FixedReasons DEF FailsForAReason, Fixed
<1> QED
  BY <1>1, <1>2, <1>3, <1>7, SeeksKept DEF QInv

LEMMA QInvNext == QInv /\ [Next]_qvars => QInv'
<1> SUFFICES ASSUME QInv, [Next]_qvars PROVE QInv'
  OBVIOUS
<1>1. CASE UNCHANGED qvars
  <2>1. Fixed /\ child' = child /\ leftRow' = leftRow /\ rightIter' = rightIter
        /\ out' = out /\ status' = status
    BY <1>1 DEF qvars, Fixed
  <2>2. Seeks'
    <3>1. BasePath \subseteq DOMAIN left
      BY DEF BasePath
    <3> QED
      BY <2>1, <3>1, FixedFacts DEF QInv, Seeks
  <2>3. FailsForAReason'
    BY <2>1, FixedReasons DEF QInv, FailsForAReason, Fixed
  <2>4. Tables' /\ Iterators'
    BY <2>1, FixedFacts DEF QInv, Iterators, Probe, Fixed
  <2>5. Output => Output'
    <3>1. \A a \in DOMAIN left, b \in DOMAIN right :
            (Tried(a, b)' <=> Tried(a, b)) /\ (Delivered(a, b)' <=> Delivered(a, b))
      BY <2>1, FixedFacts DEF Tried, Delivered, Probe, Fixed
    <3> QED
      BY <2>1, <3>1, FixedFacts DEF Output, Fixed
  <2> QED
    BY <2>1, <2>2, <2>3, <2>4, <2>5 DEF QInv
<1> QED
  BY <1>1, PullLeftStep, PullFailsStep, TryRightStep, JoinFailsStep, FilterFailsStep,
     FinishStep DEF Next

LEMMA QInvHolds == Spec => []QInv
BY QInvInit, QInvNext, PTL DEF Spec

(***************************************************************************)
(* The theorems                                                            *)
(***************************************************************************)

LEMMA InjectiveLength ==
  ASSUME NEW S, NEW s \in Seq(S), \A m, n \in DOMAIN s : s[m] = s[n] => m = n
  PROVE  Len(s) = Cardinality({s[n] : n \in DOMAIN s})
<1>1. PICK T : T = {s[n] : n \in DOMAIN s}
  OBVIOUS
<1>2. Len(s) \in Nat /\ DOMAIN s = 1 .. Len(s)
  OBVIOUS
<1>3. s \in Bijection(1 .. Len(s), T)
  BY <1>1, <1>2 DEF Bijection, Injection, Surjection, IsInjective
<1>4. ExistsBijection(1 .. Len(s), T)
  BY <1>3 DEF ExistsBijection
<1> QED
  BY <1>1, <1>2, <1>4, FS_CountingElements

LEMMA QInvExact == QInv => ResultExact
<1> SUFFICES ASSUME QInv, status = "done" PROVE ResultExact
  BY DEF ResultExact
<1>1. Tables /\ Output /\ child = {} /\ rightIter = {}
  BY DEF QInv
<1>2. out \in Seq((DOMAIN left) \X (DOMAIN right))
  BY <1>1 DEF Output
<1>3. \A i \in DOMAIN left, j \in DOMAIN right :
        <<i, j>> \in Delivery <=> i \in BasePath /\ j \in Probe(left[i].k) /\ Accepted(i, j)
  <2>1. \A i \in DOMAIN left, j \in DOMAIN right : <<i, j>> \in Delivery <=> Delivered(i, j)
    BY DEF Delivered, Delivery
  <2> QED
    BY <1>1, <2>1 DEF Output, Tried
<1>4. Delivery \subseteq (DOMAIN left) \X (DOMAIN right)
  BY <1>2 DEF Delivery
<1>5. Answer \subseteq (DOMAIN left) \X (DOMAIN right)
  BY DEF Answer
<1>6. ~BaseFails /\ \A i \in BasePath : ~ProbeFails(i)
  BY <1>1 DEF QInv, Seeks
<1>7. Answer \subseteq Delivery
  BY <1>1, <1>3, <1>5, <1>6, AcceptedIsAnswer
<1>8. ~NameConfused /\ ~ZeroConfused => Delivery \subseteq Answer
  BY <1>1, <1>3, <1>4, <1>6, AcceptedIsAnswer
<1>9. Len(out) = Cardinality(Delivery)
  BY <1>1, <1>2, InjectiveLength DEF Output, Delivery
<1> QED
  BY <1>7, <1>8, <1>9 DEF ResultExact

\* A query that ends without an error has delivered its answer, each row once, and
\* nothing else but where a name or the integer 0 is confused, for tables of every
\* size, every choice of indexes and every mix of types.
THEOREM ResultsAreExact == Spec => []ResultExact
BY QInvHolds, QInvExact, PTL

\* A query fails only for a reason in its data: the errors of buildSelectPlan's
\* operators are those of the predicate, of comparing different types, of a NULL
\* sought in an index, or of seeking anything but an integer.
THEOREM FailuresHaveReasons == Spec => []FailsForAReason
<1>1. QInv => FailsForAReason
  BY DEF QInv
<1> QED
  BY <1>1, QInvHolds, PTL
=============================================================================
