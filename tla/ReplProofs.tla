----------------------------- MODULE ReplProofs -----------------------------
(***************************************************************************)
(* Theorems about Repl for every set of lines and files.                   *)
(***************************************************************************)
EXTENDS Repl, WellFoundedInduction, TLAPS

Texts == Seq(Char)

\* Text s ends in an unfinished statement: some character that is not blank has
\* no semicolon after it.
Unfinished(s) ==
  \E i \in DOMAIN s : s[i] # Blank /\ \A j \in DOMAIN s : j >= i => s[j] # Semi

(***************************************************************************)
(* Positions                                                               *)
(***************************************************************************)

LEMMA LeastIs ==
  ASSUME NEW S, S \subseteq Nat, S # {}
  PROVE  Least(S) \in S /\ \A j \in S : Least(S) <= j
<1>1. PICK R : R = OpToRel(<, Nat)
  OBVIOUS
<1>2. \A x, y \in Nat : <<y, x>> \in R <=> y < x
  BY <1>1 DEF OpToRel
<1>3. IsWellFoundedOn(R, Nat)
  BY <1>1, NatLessThanWellFounded
<1>4. \E x \in S : \A y \in S : ~(<<y, x>> \in R)
  BY <1>3, WFMin
<1>5. PICK x \in S : \A y \in S : ~(<<y, x>> \in R)
  BY <1>4
<1>6. ASSUME NEW y \in S PROVE x <= y
  <2>1. x \in Nat /\ y \in Nat
    OBVIOUS
  <2>2. ~(<<y, x>> \in R)
    BY <1>5
  <2>3. ~(y < x)
    BY <1>2, <2>1, <2>2, Zenon
  <2> QED
    BY <2>1, <2>3
<1> QED
  BY <1>6 DEF Least

\* A set of positions, or of positions and 0, has a greatest element.
LEMMA GreatestFromZero ==
  ASSUME NEW n \in Nat, NEW S, S \subseteq 0 .. n, S # {}
  PROVE  Greatest(S) \in S /\ \A j \in S : j <= Greatest(S)
<1> DEFINE M == {k \in Nat : n - k \in S}
<1>1. M \subseteq Nat /\ M # {}
  <2>1. PICK i \in S : TRUE
    OBVIOUS
  <2>2. n - i \in Nat /\ n - (n - i) = i
    BY <2>1
  <2> QED
    BY <2>1, <2>2
<1>2. Least(M) \in M /\ \A k \in M : Least(M) <= k
  BY <1>1, LeastIs
<1>3. ASSUME NEW j \in S PROVE j <= n - Least(M)
  <2>1. n - j \in M
    BY <1>3
  <2> QED
    BY <1>2, <2>1
<1>4. \E i \in S : \A j \in S : i >= j
  BY <1>2, <1>3
<1>5. Greatest(S) \in S /\ \A j \in S : Greatest(S) >= j
  BY <1>4 DEF Greatest
<1> QED
  BY <1>5

LEMMA GreatestIs ==
  ASSUME NEW n \in Nat, NEW S, S \subseteq 1 .. n, S # {}
  PROVE  Greatest(S) \in S /\ \A j \in S : j <= Greatest(S)
<1>1. S \subseteq 0 .. n
  OBVIOUS
<1> QED
  BY <1>1, GreatestFromZero

(***************************************************************************)
(* Texts                                                                   *)
(***************************************************************************)

LEMMA TextFacts ==
  ASSUME NEW s \in Texts
  PROVE  /\ Len(s) \in Nat /\ DOMAIN s = 1 .. Len(s)
         /\ Semis(s) = {i \in DOMAIN s : s[i] = Semi}
         /\ Semis(s) \subseteq 1 .. Len(s)
BY DEF Texts, Semis, Positions

LEMMA TrimmedAway ==
  ASSUME NEW s \in Texts
  PROVE  TrimSpace(s) = <<>> <=> \A i \in DOMAIN s : s[i] = Blank
<1> DEFINE solid == {i \in DOMAIN s : s[i] # Blank}
<1>1. TrimSpace(s) = IF solid = {} THEN <<>> ELSE SubSeq(s, Least(solid), Greatest(solid))
  BY DEF TrimSpace, Positions
<1>2. Len(s) \in Nat /\ solid \subseteq 1 .. Len(s) /\ solid \subseteq Nat
  BY TextFacts
<1>3. ASSUME solid # {} PROVE SubSeq(s, Least(solid), Greatest(solid)) # <<>>
  <2>1. PICK a : a = Least(solid)
    OBVIOUS
  <2>2. PICK b : b = Greatest(solid)
    OBVIOUS
  <2>3. a \in solid /\ \A j \in solid : a <= j
    BY <1>2, <1>3, <2>1, LeastIs
  <2>4. b \in solid
    BY <1>2, <1>3, <2>2, GreatestIs
  <2>5. a \in 1 .. Len(s) /\ b \in 1 .. Len(s) /\ a <= b
    BY <1>2, <2>3, <2>4
  <2>6. Len(SubSeq(s, a, b)) = b - a + 1
    BY <2>5 DEF Texts
  <2>7. Len(SubSeq(s, a, b)) # 0
    BY <2>5, <2>6
  <2> QED
    BY <2>1, <2>2, <2>7
<1> QED
  BY <1>1, <1>3

LEMMA RemainderUnfinished ==
  ASSUME NEW s \in Texts
  PROVE  TrimSpace(Remainder(s)) # <<>> <=> Unfinished(s)
<1>1. PICK n : n = Len(s)
  OBVIOUS
<1>2. n \in Nat /\ DOMAIN s = 1 .. n /\ Semis(s) = {i \in DOMAIN s : s[i] = Semi} /\ Semis(s) \subseteq 1 .. n
  BY <1>1, TextFacts
<1>3. CASE Semis(s) = {}
  <2>1. Remainder(s) = s
    BY <1>3 DEF Remainder
  <2>2. Unfinished(s) <=> \E i \in DOMAIN s : s[i] # Blank
    BY <1>2, <1>3 DEF Unfinished
  <2> QED
    BY <2>1, <2>2, TrimmedAway
<1>4. CASE Semis(s) # {}
  <2>1. PICK g : g = Greatest(Semis(s))
    OBVIOUS
  <2>2. g \in 1 .. n /\ s[g] = Semi /\ \A j \in DOMAIN s : s[j] = Semi => j <= g
    BY <1>2, <1>4, <2>1, GreatestIs
  <2>3. PICK r : r = Remainder(s)
    OBVIOUS
  <2>4. r = SubSeq(s, g + 1, n)
    BY <1>1, <1>4, <2>1, <2>3 DEF Remainder
  <2>5. /\ r \in Texts /\ DOMAIN r = 1 .. n - g
        /\ \A k \in 1 .. n - g : r[k] = s[g + k]
    BY <1>1, <1>2, <2>2, <2>4 DEF Texts
  <2>6. ASSUME NEW k \in DOMAIN r, r[k] # Blank PROVE Unfinished(s)
    <3>1. g + k \in DOMAIN s /\ s[g + k] # Blank
      BY <1>2, <2>2, <2>5, <2>6
    <3>2. \A j \in DOMAIN s : j >= g + k => s[j] # Semi
      BY <1>2, <2>2, <2>5, <2>6
    <3> QED
      BY <3>1, <3>2 DEF Unfinished
  <2>7. ASSUME NEW i \in DOMAIN s, s[i] # Blank, \A j \in DOMAIN s : j >= i => s[j] # Semi
        PROVE  \E k \in DOMAIN r : r[k] # Blank
    <3>1. ~(g >= i)
      BY <1>2, <2>2, <2>7
    <3>2. i - g \in 1 .. n - g /\ g + (i - g) = i
      BY <1>2, <2>2, <2>7, <3>1
    <3> QED
      BY <2>5, <2>7, <3>2
  <2>8. TrimSpace(r) # <<>> <=> \E k \in DOMAIN r : r[k] # Blank
    BY <2>5, TrimmedAway
  <2> QED
    BY <2>3, <2>6, <2>7, <2>8 DEF Unfinished
<1> QED
  BY <1>3, <1>4

LEMMA ConcatUnfinished ==
  ASSUME NEW a \in Texts, NEW b \in Texts
  PROVE  /\ a \o b \in Texts
         /\ Unfinished(a \o b) <=> Unfinished(b) \/ (Unfinished(a) /\ Semis(b) = {})
<1>1. PICK c : c = a \o b
  OBVIOUS
<1>2. PICK m : m = Len(a)
  OBVIOUS
<1>3. PICK n : n = Len(b)
  OBVIOUS
<1>4. /\ m \in Nat /\ n \in Nat /\ DOMAIN a = 1 .. m /\ DOMAIN b = 1 .. n
      /\ Semis(b) = {i \in DOMAIN b : b[i] = Semi}
  BY <1>2, <1>3, TextFacts
<1>5. /\ c \in Texts /\ DOMAIN c = 1 .. m + n
      /\ \A i \in 1 .. m : c[i] = a[i]
      /\ \A i \in 1 .. n : c[m + i] = b[i]
  BY <1>1, <1>2, <1>3 DEF Texts
<1>6. ASSUME NEW i \in DOMAIN b, b[i] # Blank, \A j \in DOMAIN b : j >= i => b[j] # Semi
      PROVE  Unfinished(c)
  <2>1. m + i \in DOMAIN c /\ c[m + i] # Blank
    BY <1>4, <1>5, <1>6
  <2>2. ASSUME NEW j \in DOMAIN c, j >= m + i PROVE c[j] # Semi
    <3>1. j - m \in 1 .. n /\ j - m >= i /\ m + (j - m) = j
      BY <1>4, <1>5, <2>2
    <3> QED
      BY <1>4, <1>5, <1>6, <3>1
  <2> QED
    BY <2>1, <2>2 DEF Unfinished
<1>7. ASSUME NEW i \in DOMAIN a, a[i] # Blank, \A j \in DOMAIN a : j >= i => a[j] # Semi, Semis(b) = {}
      PROVE  Unfinished(c)
  <2>1. i \in DOMAIN c /\ c[i] # Blank
    BY <1>4, <1>5, <1>7
  <2>2. ASSUME NEW j \in DOMAIN c, j >= i PROVE c[j] # Semi
    <3>1. CASE j \in 1 .. m
      BY <1>4, <1>5, <1>7, <2>2, <3>1
    <3>2. CASE j \notin 1 .. m
      <4>1. j - m \in 1 .. n /\ m + (j - m) = j
        BY <1>4, <1>5, <2>2, <3>2
      <4> QED
        BY <1>4, <1>5, <1>7, <4>1
    <3> QED
      BY <3>1, <3>2
  <2> QED
    BY <2>1, <2>2 DEF Unfinished
<1>8. ASSUME NEW i \in DOMAIN c, c[i] # Blank, \A j \in DOMAIN c : j >= i => c[j] # Semi
      PROVE  Unfinished(b) \/ (Unfinished(a) /\ Semis(b) = {})
  <2>1. CASE i \in 1 .. m
    <3>1. ASSUME NEW j \in 1 .. n PROVE b[j] # Semi
      <4>1. m + j \in DOMAIN c /\ m + j >= i
        BY <1>4, <1>5, <2>1
      <4> QED
        BY <1>5, <1>8, <4>1
    <3>2. \A j \in DOMAIN a : j >= i => a[j] # Semi
      BY <1>4, <1>5, <1>8, <2>1
    <3> QED
      BY <1>4, <1>5, <1>8, <2>1, <3>1, <3>2 DEF Unfinished
  <2>2. CASE i \notin 1 .. m
    <3>1. i - m \in 1 .. n /\ m + (i - m) = i
      BY <1>4, <1>5, <2>2
    <3>2. ASSUME NEW j \in DOMAIN b, j >= i - m PROVE b[j] # Semi
      <4>1. m + j \in DOMAIN c /\ m + j >= i
        BY <1>4, <1>5, <3>1, <3>2
      <4> QED
        BY <1>4, <1>5, <1>8, <4>1
    <3>3. b[i - m] # Blank
      BY <1>5, <1>8, <3>1
    <3> QED
      BY <1>4, <3>1, <3>2, <3>3 DEF Unfinished
  <2> QED
    BY <2>1, <2>2
<1> QED
  BY <1>1, <1>5, <1>6, <1>7, <1>8 DEF Unfinished

LEMMA AfterUnfinished ==
  ASSUME NEW s \in Texts, Semis(s) # {}
  PROVE  After(s) \in Texts /\ (Unfinished(After(s)) <=> Unfinished(s))
<1>1. PICK n : n = Len(s)
  OBVIOUS
<1>2. n \in Nat /\ DOMAIN s = 1 .. n /\ Semis(s) = {i \in DOMAIN s : s[i] = Semi} /\ Semis(s) \subseteq 1 .. n
  BY <1>1, TextFacts
<1>3. PICK g : g = Least(Semis(s))
  OBVIOUS
<1>4. g \in 1 .. n /\ s[g] = Semi
  <2>1. Semis(s) \subseteq Nat
    BY <1>2
  <2> QED
    BY <1>2, <1>3, <2>1, LeastIs
<1>5. PICK r : r = After(s)
  OBVIOUS
<1>6. r = SubSeq(s, g + 1, n)
  BY <1>1, <1>3, <1>5 DEF After
<1>7. /\ r \in Texts /\ DOMAIN r = 1 .. n - g
      /\ \A k \in 1 .. n - g : r[k] = s[g + k]
  BY <1>1, <1>2, <1>4, <1>6 DEF Texts
<1>8. ASSUME NEW k \in DOMAIN r, r[k] # Blank, \A j \in DOMAIN r : j >= k => r[j] # Semi
      PROVE  Unfinished(s)
  <2>1. g + k \in DOMAIN s /\ s[g + k] # Blank
    BY <1>2, <1>4, <1>7, <1>8
  <2>2. ASSUME NEW j \in DOMAIN s, j >= g + k PROVE s[j] # Semi
    <3>1. j - g \in 1 .. n - g /\ j - g >= k /\ g + (j - g) = j
      BY <1>2, <1>4, <1>7, <2>2
    <3> QED
      BY <1>7, <1>8, <3>1
  <2> QED
    BY <2>1, <2>2 DEF Unfinished
<1>9. ASSUME NEW i \in DOMAIN s, s[i] # Blank, \A j \in DOMAIN s : j >= i => s[j] # Semi
      PROVE  Unfinished(r)
  <2>1. ~(g >= i)
    BY <1>2, <1>4, <1>9
  <2>2. i - g \in 1 .. n - g /\ g + (i - g) = i
    BY <1>2, <1>4, <1>9, <2>1
  <2>3. ASSUME NEW j \in DOMAIN r, j >= i - g PROVE r[j] # Semi
    <3>1. g + j \in DOMAIN s /\ g + j >= i
      BY <1>2, <1>4, <1>7, <2>2, <2>3
    <3> QED
      BY <1>7, <1>9, <3>1
  <2>4. r[i - g] # Blank
    BY <1>7, <1>9, <2>2
  <2> QED
    BY <1>7, <2>2, <2>3, <2>4 DEF Unfinished
<1> QED
  BY <1>5, <1>7, <1>8, <1>9 DEF Unfinished

\* What readFile runs of a file ends with a semicolon.
LEMMA FileFinished ==
  ASSUME NEW s \in Texts, NEW c, c = SubSeq(s, 1, Len(s) - Len(Remainder(s)))
  PROVE  c \in Texts /\ ~Unfinished(c)
<1>1. PICK n : n = Len(s)
  OBVIOUS
<1>2. n \in Nat /\ DOMAIN s = 1 .. n /\ Semis(s) = {i \in DOMAIN s : s[i] = Semi} /\ Semis(s) \subseteq 1 .. n
  BY <1>1, TextFacts
<1>3. CASE Semis(s) = {}
  <2>1. c = SubSeq(s, 1, 0)
    BY <1>1, <1>2, <1>3 DEF Remainder
  <2>2. c \in Texts /\ DOMAIN c = {}
    BY <2>1 DEF Texts
  <2> QED
    BY <2>2 DEF Unfinished
<1>4. CASE Semis(s) # {}
  <2>1. PICK g : g = Greatest(Semis(s))
    OBVIOUS
  <2>2. g \in 1 .. n /\ s[g] = Semi
    BY <1>2, <1>4, <2>1, GreatestIs
  <2>3. Remainder(s) = SubSeq(s, g + 1, n)
    BY <1>1, <1>4, <2>1 DEF Remainder
  <2>4. Len(Remainder(s)) = n - g
    BY <1>1, <1>2, <2>2, <2>3 DEF Texts
  <2>5. c = SubSeq(s, 1, g)
    <3>1. n - (n - g) = g
      BY <1>2, <2>2
    <3> QED
      BY <1>1, <2>4, <3>1
  <2>6. c \in Texts /\ DOMAIN c = 1 .. g /\ c[g] = Semi
    <3>1. /\ 1 \in 1 .. n + 1 /\ g \in 0 .. n /\ g - 1 + 1 = g
      BY <1>2, <2>2
    <3>2. c \in Texts /\ DOMAIN c = 1 .. g
      BY <1>1, <2>2, <2>5, <3>1 DEF Texts
    <3>3. c[g] = s[g]
      BY <1>1, <2>2, <2>5, <3>1 DEF Texts
    <3> QED
      BY <2>2, <3>2, <3>3, Zenon
  <2>7. \A i \in DOMAIN c : g \in DOMAIN c /\ g >= i
    BY <2>2, <2>6
  <2> QED
    BY <2>6, <2>7 DEF Unfinished
<1> QED
  BY <1>3, <1>4

(***************************************************************************)
(* Parts of a text                                                         *)
(***************************************************************************)

\* q is the part of s from a to b.
IsPart(q, s, a, b) ==
  /\ q \in Texts /\ Len(q) = b - a + 1 /\ DOMAIN q = 1 .. b - a + 1
  /\ \A k \in 1 .. b - a + 1 : q[k] = s[a + k - 1]

LEMMA PartIs ==
  ASSUME NEW s \in Texts, NEW a \in 1 .. Len(s) + 1, NEW b \in 0 .. Len(s), a <= b + 1
  PROVE  IsPart(SubSeq(s, a, b), s, a, b)
<1>1. PICK n \in Nat : n = Len(s)
  BY DEF Texts
<1>2. a \in 1 .. n + 1 /\ b \in 0 .. n
  BY <1>1
<1>3. PICK q : q = SubSeq(s, a, b)
  OBVIOUS
<1>4. CASE a <= b
  <2>1. a \in 1 .. n /\ b \in 1 .. n
    BY <1>2, <1>4
  <2>2. q \in Texts /\ Len(q) = b - a + 1
    BY <1>1, <1>3, <1>4, <2>1 DEF Texts
  <2>3. \A k \in 1 .. b - a + 1 : q[k] = s[a + k - 1]
    BY <1>1, <1>3, <1>4, <2>1 DEF Texts
  <2>4. DOMAIN q = 1 .. Len(q)
    BY <2>2, TextFacts
  <2> QED
    BY <1>3, <2>2, <2>3, <2>4 DEF IsPart
<1>5. CASE ~(a <= b)
  <2>1. b - a + 1 = 0 /\ a > b
    BY <1>2, <1>5
  <2>2. q = <<>>
    BY <1>1, <1>2, <1>3, <2>1 DEF Texts
  <2>3. q \in Texts /\ Len(q) = 0 /\ DOMAIN q = {} /\ 1 .. b - a + 1 = {}
    BY <2>1, <2>2 DEF Texts
  <2> QED
    BY <1>3, <2>1, <2>3 DEF IsPart
<1> QED
  BY <1>4, <1>5

\* Texts of the same length that agree everywhere are the same.
LEMMA SameText ==
  ASSUME NEW q \in Texts, NEW r \in Texts, Len(q) = Len(r), \A k \in 1 .. Len(q) : q[k] = r[k]
  PROVE  q = r
BY DEF Texts

\* The solid characters of the part of s from a to b.
Solid(s, a, b) == {i \in a .. b : s[i] # Blank}

\* What TrimSpace leaves of a part depends on its solid characters only.
LEMMA TrimPart ==
  ASSUME NEW s \in Texts, NEW a \in 1 .. Len(s) + 1, NEW b \in 0 .. Len(s), a <= b + 1
  PROVE  TrimSpace(SubSeq(s, a, b)) =
           IF Solid(s, a, b) = {} THEN <<>>
           ELSE SubSeq(s, Least(Solid(s, a, b)), Greatest(Solid(s, a, b)))
<1>1. PICK n \in Nat : n = Len(s)
  BY DEF Texts
<1>2. a \in 1 .. n + 1 /\ b \in 0 .. n
  BY <1>1
<1>3. PICK q : q = SubSeq(s, a, b)
  OBVIOUS
<1>4. PICK c \in Nat : c = b - a + 1
  BY <1>2
<1>5. /\ q \in Texts /\ Len(q) = c /\ DOMAIN q = 1 .. c
      /\ \A k \in 1 .. c : q[k] = s[a + k - 1]
  BY <1>3, <1>4, PartIs DEF IsPart
<1>6. PICK X : X = {i \in DOMAIN q : q[i] # Blank}
  OBVIOUS
<1>7. PICK Y : Y = Solid(s, a, b)
  OBVIOUS
<1>8. TrimSpace(q) = IF X = {} THEN <<>> ELSE SubSeq(q, Least(X), Greatest(X))
  BY <1>6 DEF TrimSpace, Positions
<1>9. \A i \in X : i \in 1 .. c /\ a + i - 1 \in Y
  <2>1. ASSUME NEW i \in X PROVE i \in 1 .. c /\ a + i - 1 \in Y
    <3>1. i \in 1 .. c /\ s[a + i - 1] # Blank
      BY <1>5, <1>6
    <3>2. a + i - 1 \in a .. b
      BY <1>2, <1>4, <3>1
    <3> QED
      BY <1>7, <3>1, <3>2 DEF Solid
  <2> QED
    BY <2>1
<1>10. \A j \in Y : j \in a .. b /\ j - a + 1 \in X
  <2>1. ASSUME NEW j \in Y PROVE j \in a .. b /\ j - a + 1 \in X
    <3>1. j \in a .. b /\ s[j] # Blank
      BY <1>7 DEF Solid
    <3>2. j - a + 1 \in 1 .. c /\ a + (j - a + 1) - 1 = j
      BY <1>2, <1>4, <3>1
    <3>3. q[j - a + 1] # Blank
      BY <1>5, <3>1, <3>2
    <3> QED
      BY <1>5, <1>6, <3>1, <3>2, <3>3
  <2> QED
    BY <2>1
<1>11. CASE X = {}
  BY <1>3, <1>7, <1>8, <1>10, <1>11
<1>12. CASE X # {}
  <2>1. PICK x : x = Least(X)
    OBVIOUS
  <2>2. PICK y : y = Greatest(X)
    OBVIOUS
  <2>3. X \subseteq 1 .. c /\ X \subseteq Nat
    BY <1>9
  <2>4. x \in X /\ (\A j \in X : x <= j) /\ x \in 1 .. c
    BY <1>12, <2>1, <2>3, LeastIs
  <2>5. y \in X /\ (\A j \in X : j <= y) /\ y \in 1 .. c
    BY <1>12, <2>2, <2>3, GreatestIs
  <2>6. x <= y
    BY <2>4, <2>5
  <2>7. PICK u : u = Least(Y)
    OBVIOUS
  <2>8. PICK v : v = Greatest(Y)
    OBVIOUS
  <2>9. Y # {} /\ Y \subseteq 1 .. n /\ Y \subseteq Nat
    <3>1. Y # {}
      BY <1>9, <1>12
    <3>2. a .. b \subseteq 1 .. n /\ 1 .. n \subseteq Nat
      BY <1>2
    <3> QED
      BY <1>10, <3>1, <3>2, Zenon
  <2>10. u \in Y /\ (\A j \in Y : u <= j)
    BY <2>7, <2>9, LeastIs
  <2>11. v \in Y /\ (\A j \in Y : j <= v)
    BY <2>8, <2>9, GreatestIs
  <2>12. u = a + x - 1
    <3>1. a + x - 1 \in Y /\ u - a + 1 \in X /\ u \in a .. b
      BY <1>9, <1>10, <2>4, <2>10
    <3>2. u <= a + x - 1 /\ x <= u - a + 1
      BY <2>4, <2>10, <3>1
    <3> QED
      BY <1>2, <2>4, <3>1, <3>2
  <2>13. v = a + y - 1
    <3>1. a + y - 1 \in Y /\ v - a + 1 \in X /\ v \in a .. b
      BY <1>9, <1>10, <2>5, <2>11
    <3>2. a + y - 1 <= v /\ v - a + 1 <= y
      BY <2>5, <2>11, <3>1
    <3> QED
      BY <1>2, <2>5, <3>1, <3>2
  <2>14. /\ u \in 1 .. n + 1 /\ v \in 0 .. n /\ u <= v + 1
         /\ x \in 1 .. c + 1 /\ y \in 0 .. c /\ x <= y + 1
         /\ v - u + 1 = y - x + 1
    BY <1>2, <1>4, <2>4, <2>5, <2>6, <2>12, <2>13
  <2>15. IsPart(SubSeq(s, u, v), s, u, v)
    BY <1>1, <2>14, PartIs
  <2>16. IsPart(SubSeq(q, x, y), q, x, y)
    BY <1>5, <2>14, PartIs
  <2>17. ASSUME NEW k \in 1 .. y - x + 1 PROVE SubSeq(q, x, y)[k] = SubSeq(s, u, v)[k]
    <3>1. x + k - 1 \in 1 .. c /\ a + (x + k - 1) - 1 = u + k - 1
      BY <1>2, <2>4, <2>5, <2>12
    <3>2. SubSeq(q, x, y)[k] = q[x + k - 1]
      BY <2>16 DEF IsPart
    <3>3. SubSeq(s, u, v)[k] = s[u + k - 1]
      BY <2>14, <2>15 DEF IsPart
    <3> QED
      BY <1>5, <3>1, <3>2, <3>3
  <2>18. SubSeq(q, x, y) = SubSeq(s, u, v)
    <3>1. /\ SubSeq(q, x, y) \in Texts /\ SubSeq(s, u, v) \in Texts
          /\ Len(SubSeq(q, x, y)) = y - x + 1 /\ Len(SubSeq(s, u, v)) = y - x + 1
      BY <2>14, <2>15, <2>16 DEF IsPart
    <3> QED
      BY <2>17, <3>1, SameText
  <2> QED
    BY <1>3, <1>7, <1>8, <1>12, <2>1, <2>2, <2>7, <2>8, <2>9, <2>18
<1> QED
  BY <1>11, <1>12

\* Blanks at the beginning of a part make no difference.
LEMMA TrimBlankStart ==
  ASSUME NEW s \in Texts, NEW p \in 0 .. Len(s), NEW d \in 0 .. Len(s), NEW b \in 0 .. Len(s),
         p <= d, d <= b, \A i \in p + 1 .. d : s[i] = Blank
  PROVE  TrimSpace(SubSeq(s, p + 1, b)) = TrimSpace(SubSeq(s, d + 1, b))
<1>1. PICK n \in Nat : n = Len(s)
  BY DEF Texts
<1>2. p \in 0 .. n /\ d \in 0 .. n /\ b \in 0 .. n
  BY <1>1
<1>3. /\ p + 1 \in 1 .. n + 1 /\ d + 1 \in 1 .. n + 1 /\ p + 1 <= b + 1 /\ d + 1 <= b + 1
  BY <1>2
<1>4. Solid(s, p + 1, b) = Solid(s, d + 1, b)
  <2>1. p + 1 .. b = (p + 1 .. d) \cup (d + 1 .. b)
    BY <1>2
  <2> QED
    BY <2>1 DEF Solid
<1> QED
  BY <1>1, <1>3, <1>4, TrimPart

(***************************************************************************)
(* Pieces of a text                                                        *)
(***************************************************************************)

\* Positions p and e of s with no semicolon between them.
NoneBetween(s, p, e) ==
  /\ p \in 0 .. Len(s) /\ e \in 1 .. Len(s) /\ p < e
  /\ p = 0 \/ s[p] = Semi
  /\ \A i \in p + 1 .. e - 1 : s[i] # Semi

LEMMA PieceIs ==
  ASSUME NEW s \in Texts, NEW p, NEW e, NoneBetween(s, p, e)
  PROVE  Piece(s, e) = TrimSpace(SubSeq(s, p + 1, e - 1))
<1>1. PICK n \in Nat : n = Len(s)
  BY DEF Texts
<1>2. /\ p \in 0 .. n /\ e \in 1 .. n /\ p < e /\ (p = 0 \/ s[p] = Semi)
      /\ \A i \in p + 1 .. e - 1 : s[i] # Semi
  BY <1>1 DEF NoneBetween
<1>3. Semis(s) = {i \in 1 .. n : s[i] = Semi}
  BY <1>1, TextFacts
<1>4. PICK X : X = {0} \cup {i \in Semis(s) : i < e}
  OBVIOUS
<1>5. X \subseteq 0 .. n /\ X # {} /\ p \in X
  BY <1>2, <1>3, <1>4
<1>6. PICK g : g = Greatest(X)
  OBVIOUS
<1>7. g \in X /\ \A j \in X : j <= g
  BY <1>5, <1>6, GreatestFromZero
<1>8. g = p
  <2>1. p <= g /\ g \in 0 .. n
    BY <1>5, <1>7
  <2>2. g \in p + 1 .. e - 1 => s[g] # Semi
    BY <1>2
  <2>3. g = 0 \/ (s[g] = Semi /\ g < e)
    BY <1>3, <1>4, <1>7
  <2> QED
    BY <1>2, <2>1, <2>2, <2>3
<1> QED
  BY <1>4, <1>6, <1>8 DEF Piece

\* Every position has a last semicolon, or the beginning, before it.
LEMMA HasBefore ==
  ASSUME NEW s \in Texts, NEW e \in 1 .. Len(s)
  PROVE  \E p \in 0 .. Len(s) : NoneBetween(s, p, e)
<1>1. PICK n \in Nat : n = Len(s)
  BY DEF Texts
<1>2. Semis(s) = {i \in 1 .. n : s[i] = Semi} /\ e \in 1 .. n
  BY <1>1, TextFacts
<1>3. PICK X : X = {0} \cup {i \in Semis(s) : i < e}
  OBVIOUS
<1>4. X \subseteq 0 .. n /\ X # {}
  BY <1>2, <1>3
<1>5. PICK g : g = Greatest(X)
  OBVIOUS
<1>6. g \in X /\ \A j \in X : j <= g
  BY <1>4, <1>5, GreatestFromZero
<1>7. g \in 0 .. n /\ g < e /\ (g = 0 \/ s[g] = Semi)
  BY <1>2, <1>3, <1>4, <1>6
<1>8. ASSUME NEW i \in g + 1 .. e - 1, s[i] = Semi PROVE FALSE
  <2>1. i \in 1 .. n /\ i < e /\ ~(i <= g)
    BY <1>2, <1>7
  <2> QED
    BY <1>2, <1>3, <1>6, <1>8, <2>1
<1> QED
  BY <1>1, <1>2, <1>7, <1>8 DEF NoneBetween

\* A piece does not depend on what comes after it.
LEMMA PieceExtends ==
  ASSUME NEW s \in Texts, NEW c \in Texts, Len(s) <= Len(c),
         \A i \in 1 .. Len(s) : c[i] = s[i], NEW e \in 1 .. Len(s)
  PROVE  Piece(c, e) = Piece(s, e)
<1>1. PICK n \in Nat : n = Len(s)
  BY DEF Texts
<1>2. PICK m \in Nat : m = Len(c)
  BY DEF Texts
<1>3. n <= m /\ e \in 1 .. n /\ \A i \in 1 .. n : c[i] = s[i]
  BY <1>1, <1>2
<1>4. PICK p \in 0 .. n : NoneBetween(s, p, e)
  BY <1>1, HasBefore
<1>5. p < e /\ (p = 0 \/ s[p] = Semi) /\ \A i \in p + 1 .. e - 1 : s[i] # Semi
  BY <1>4 DEF NoneBetween
<1>6. NoneBetween(c, p, e)
  <2>1. p \in 0 .. m /\ e \in 1 .. m
    BY <1>3
  <2>2. p = 0 \/ c[p] = Semi
    BY <1>3, <1>5
  <2>3. \A i \in p + 1 .. e - 1 : c[i] # Semi
    BY <1>3, <1>5
  <2> QED
    BY <1>2, <1>5, <2>1, <2>2, <2>3 DEF NoneBetween
<1>7. /\ p + 1 \in 1 .. n + 1 /\ p + 1 \in 1 .. m + 1 /\ e - 1 \in 0 .. n /\ e - 1 \in 0 .. m
      /\ p + 1 <= (e - 1) + 1
  BY <1>3, <1>5
<1>8. IsPart(SubSeq(s, p + 1, e - 1), s, p + 1, e - 1)
  BY <1>1, <1>7, PartIs
<1>9. IsPart(SubSeq(c, p + 1, e - 1), c, p + 1, e - 1)
  BY <1>2, <1>7, PartIs
<1>10. SubSeq(c, p + 1, e - 1) = SubSeq(s, p + 1, e - 1)
  <2>1. PICK k \in Nat : k = (e - 1) - (p + 1) + 1
    BY <1>7
  <2>2. ASSUME NEW i \in 1 .. k PROVE SubSeq(c, p + 1, e - 1)[i] = SubSeq(s, p + 1, e - 1)[i]
    <3>1. (p + 1) + i - 1 \in 1 .. n
      BY <1>3, <2>1
    <3>2. /\ SubSeq(s, p + 1, e - 1)[i] = s[(p + 1) + i - 1]
          /\ SubSeq(c, p + 1, e - 1)[i] = c[(p + 1) + i - 1]
      BY <1>8, <1>9, <2>1 DEF IsPart
    <3> QED
      BY <1>3, <3>1, <3>2
  <2>3. /\ SubSeq(c, p + 1, e - 1) \in Texts /\ SubSeq(s, p + 1, e - 1) \in Texts
        /\ Len(SubSeq(c, p + 1, e - 1)) = k /\ Len(SubSeq(s, p + 1, e - 1)) = k
    BY <1>8, <1>9, <2>1 DEF IsPart
  <2> QED
    BY <2>2, <2>3, SameText
<1> QED
  BY <1>4, <1>6, <1>10, PieceIs

\* r lists the pieces of s that end at d or before.
ListsUpTo(r, s, d) ==
  \E ends \in [DOMAIN r -> {e \in Semis(s) : e <= d}] :
    /\ \A m, n \in DOMAIN r : m < n => ends[m] < ends[n]
    /\ {ends[n] : n \in DOMAIN r} = {e \in Semis(s) : e <= d /\ Piece(s, e) # <<>>}
    /\ \A n \in DOMAIN r : r[n] = Piece(s, ends[n])

\* No statement of s is unfinished at d.
FinishedAt(s, d) == \A i \in 1 .. d : s[i] # Blank => \E j \in i .. d : s[j] = Semi

\* w is what comes after d in s, and perhaps more.
Continues(w, s, d) ==
  /\ Len(w) >= Len(s) - d
  /\ \A k \in 1 .. Len(s) - d : w[k] = s[d + k]

\* Text after d changes nothing up to d.
LEMMA UpToExtends ==
  ASSUME NEW s \in Texts, NEW c \in Texts, Len(s) <= Len(c), \A i \in 1 .. Len(s) : c[i] = s[i],
         NEW d \in 0 .. Len(s), NEW r, ListsUpTo(r, s, d), FinishedAt(s, d)
  PROVE  ListsUpTo(r, c, d) /\ FinishedAt(c, d)
<1>1. PICK n \in Nat : n = Len(s)
  BY DEF Texts
<1>2. PICK m \in Nat : m = Len(c)
  BY DEF Texts
<1>3. n <= m /\ d \in 0 .. n /\ \A i \in 1 .. n : c[i] = s[i]
  BY <1>1, <1>2
<1>4. Semis(s) = {i \in 1 .. n : s[i] = Semi} /\ Semis(c) = {i \in 1 .. m : c[i] = Semi}
  BY <1>1, <1>2, TextFacts
<1>5. {e \in Semis(c) : e <= d} = {e \in Semis(s) : e <= d}
  <2>1. \A e \in 1 .. m : e <= d => e \in 1 .. n
    BY <1>3
  <2>2. \A e \in 1 .. n : e \in 1 .. m
    BY <1>3
  <2> QED
    BY <1>3, <1>4, <2>1, <2>2
<1>6. \A e \in {x \in Semis(s) : x <= d} : Piece(c, e) = Piece(s, e)
  <2>1. \A e \in 1 .. n : Piece(c, e) = Piece(s, e)
    BY <1>1, PieceExtends
  <2> QED
    BY <1>4, <2>1
<1>7. {e \in Semis(c) : e <= d /\ Piece(c, e) # <<>>} = {e \in Semis(s) : e <= d /\ Piece(s, e) # <<>>}
  BY <1>5, <1>6, Zenon
<1>8. PICK ends \in [DOMAIN r -> {e \in Semis(s) : e <= d}] :
        /\ \A i, j \in DOMAIN r : i < j => ends[i] < ends[j]
        /\ {ends[i] : i \in DOMAIN r} = {e \in Semis(s) : e <= d /\ Piece(s, e) # <<>>}
        /\ \A i \in DOMAIN r : r[i] = Piece(s, ends[i])
  BY DEF ListsUpTo
<1>9. /\ ends \in [DOMAIN r -> {e \in Semis(c) : e <= d}]
      /\ {ends[i] : i \in DOMAIN r} = {e \in Semis(c) : e <= d /\ Piece(c, e) # <<>>}
      /\ \A i \in DOMAIN r : r[i] = Piece(c, ends[i])
  BY <1>5, <1>6, <1>7, <1>8, Zenon
<1>10. ListsUpTo(r, c, d)
  BY <1>8, <1>9, Zenon DEF ListsUpTo
<1>11. FinishedAt(c, d)
  <2>1. ASSUME NEW i \in 1 .. d, c[i] # Blank PROVE \E j \in i .. d : c[j] = Semi
    <3>1. i \in 1 .. n /\ s[i] # Blank
      BY <1>3, <2>1
    <3>2. PICK j \in i .. d : s[j] = Semi
      BY <3>1 DEF FinishedAt
    <3>3. j \in 1 .. n
      BY <1>3, <3>1
    <3> QED
      BY <1>3, <3>2, <3>3
  <2> QED
    BY <2>1 DEF FinishedAt
<1> QED
  BY <1>10, <1>11

\* One more piece, blank or not.
LEMMA ListsOneMore ==
  ASSUME NEW s \in Texts, NEW d \in Nat, NEW h \in Nat, d < h, h \in Semis(s),
         {e \in Semis(s) : e <= h} = {e \in Semis(s) : e <= d} \cup {h},
         NEW r \in Seq(Texts), ListsUpTo(r, s, d), NEW x \in Texts, x = Piece(s, h),
         NEW q, q = IF x = <<>> THEN r ELSE Append(r, x)
  PROVE  ListsUpTo(q, s, h)
<1>1. PICK A : A = {e \in Semis(s) : e <= d}
  OBVIOUS
<1>2. PICK B : B = {e \in Semis(s) : e <= h}
  OBVIOUS
<1>3. B = A \cup {h} /\ h \notin A
  BY <1>1, <1>2
<1>4. PICK ends \in [DOMAIN r -> A] :
        /\ \A i, j \in DOMAIN r : i < j => ends[i] < ends[j]
        /\ {ends[i] : i \in DOMAIN r} = {e \in A : Piece(s, e) # <<>>}
        /\ \A i \in DOMAIN r : r[i] = Piece(s, ends[i])
  BY <1>1 DEF ListsUpTo
<1>5. {e \in Semis(s) : e <= h /\ Piece(s, e) # <<>>} = {e \in B : Piece(s, e) # <<>>}
  BY <1>2
<1>6. CASE x = <<>>
  <2>1. q = r /\ ends \in [DOMAIN r -> B]
    BY <1>3, <1>6
  <2>2. {e \in B : Piece(s, e) # <<>>} = {e \in A : Piece(s, e) # <<>>}
    BY <1>3, <1>6
  <2> QED
    BY <1>2, <1>4, <1>5, <2>1, <2>2, Zenon DEF ListsUpTo
<1>7. CASE x # <<>>
  <2>1. PICK l \in Nat : l = Len(r) /\ DOMAIN r = 1 .. l
    OBVIOUS
  <2>2. DOMAIN q = 1 .. l + 1 /\ q[l + 1] = x /\ \A i \in 1 .. l : q[i] = r[i]
    BY <1>7, <2>1
  <2>3. PICK more : more = [i \in 1 .. l + 1 |-> IF i = l + 1 THEN h ELSE ends[i]]
    OBVIOUS
  <2>4. \A i \in 1 .. l + 1 : i = l + 1 \/ i \in 1 .. l
    BY <2>1
  <2>5. /\ more[l + 1] = h /\ l + 1 \in 1 .. l + 1
        /\ \A i \in 1 .. l : more[i] = ends[i] /\ i \in 1 .. l + 1 /\ i # l + 1
    BY <2>1, <2>3
  <2>6. more \in [DOMAIN q -> B]
    <3>1. \A i \in 1 .. l + 1 : more[i] \in B
      BY <1>3, <1>4, <2>1, <2>4, <2>5
    <3> QED
      BY <2>2, <2>3, <3>1
  <2>7. ASSUME NEW i \in DOMAIN q, NEW j \in DOMAIN q, i < j PROVE more[i] < more[j]
    <3>1. i \in 1 .. l
      BY <2>1, <2>2, <2>7
    <3>2. CASE j = l + 1
      <4>1. ends[i] \in A
        BY <1>4, <2>1, <3>1
      <4>2. ends[i] < h
        <5>1. ends[i] \in Semis(s) /\ ends[i] <= d
          BY <1>1, <4>1
        <5>2. ends[i] \in Nat
          BY <5>1, TextFacts
        <5> QED
          BY <5>1, <5>2
      <4> QED
        BY <2>5, <3>1, <3>2, <4>2
    <3>3. CASE j # l + 1
      <4>1. j \in 1 .. l
        BY <2>2, <2>4, <3>3
      <4> QED
        BY <1>4, <2>1, <2>5, <2>7, <3>1, <4>1
    <3> QED
      BY <3>2, <3>3
  <2>8. {more[i] : i \in DOMAIN q} = {e \in B : Piece(s, e) # <<>>}
    <3>1. {more[i] : i \in 1 .. l + 1} = {ends[i] : i \in 1 .. l} \cup {h}
      BY <2>4, <2>5, Zenon
    <3>2. {e \in B : Piece(s, e) # <<>>} = {e \in A : Piece(s, e) # <<>>} \cup {h}
      BY <1>3, <1>7
    <3> QED
      BY <1>4, <2>1, <2>2, <3>1, <3>2
  <2>9. ASSUME NEW i \in DOMAIN q PROVE q[i] = Piece(s, more[i])
    <3>1. CASE i = l + 1
      BY <2>2, <2>5, <3>1
    <3>2. CASE i \in 1 .. l
      <4>1. q[i] = r[i] /\ more[i] = ends[i] /\ i \in DOMAIN r
        BY <2>1, <2>2, <2>5, <3>2
      <4>2. r[i] = Piece(s, ends[i])
        BY <1>4, <4>1
      <4> QED
        BY <4>1, <4>2
    <3> QED
      BY <2>2, <2>4, <3>1, <3>2
  <2> QED
    BY <1>2, <1>5, <2>6, <2>7, <2>8, <2>9, Zenon DEF ListsUpTo
<1> QED
  BY <1>6, <1>7

LEMMA TrimmedText ==
  ASSUME NEW s \in Texts
  PROVE  TrimSpace(s) \in Texts
<1>1. PICK n \in Nat : n = Len(s) /\ DOMAIN s = 1 .. n
  BY TextFacts
<1>2. PICK X : X = {i \in DOMAIN s : s[i] # Blank}
  OBVIOUS
<1>3. TrimSpace(s) = IF X = {} THEN <<>> ELSE SubSeq(s, Least(X), Greatest(X))
  BY <1>2 DEF TrimSpace, Positions
<1>4. CASE X # {}
  <2>1. PICK x : x = Least(X)
    OBVIOUS
  <2>2. PICK y : y = Greatest(X)
    OBVIOUS
  <2>3. X \subseteq 1 .. n /\ X \subseteq Nat
    BY <1>1, <1>2
  <2>4. x \in X /\ y \in X /\ \A j \in X : x <= j
    BY <1>4, <2>1, <2>2, <2>3, LeastIs, GreatestIs
  <2>5. x \in 1 .. n + 1 /\ y \in 0 .. n /\ x <= y + 1
    BY <2>3, <2>4
  <2>6. IsPart(SubSeq(s, x, y), s, x, y)
    BY <1>1, <2>5, PartIs
  <2> QED
    BY <1>3, <1>4, <2>1, <2>2, <2>6 DEF IsPart
<1>5. CASE X = {}
  BY <1>3, <1>5 DEF Texts
<1> QED
  BY <1>4, <1>5

\* What is known of the first semicolon, at g, of what comes after d in s.
FirstIs(w, s, d, g) ==
  /\ d + g \in Semis(s)
  /\ {e \in Semis(s) : e <= d + g} = {e \in Semis(s) : e <= d} \cup {d + g}
  /\ Before(w) \in Texts
  /\ Piece(s, d + g) = TrimSpace(Before(w))
  /\ FinishedAt(s, d + g)
  /\ After(w) \in Texts /\ Len(After(w)) = Len(w) - g
  /\ \A k \in DOMAIN After(w) : After(w)[k] = w[g + k]
  /\ Continues(After(w), s, d + g)

LEMMA FirstPiece ==
  ASSUME NEW s \in Texts, NEW w \in Texts, NEW d \in 0 .. Len(s), Continues(w, s, d), FinishedAt(s, d),
         Semis(w) # {}, NEW g, g = Least(Semis(w)), g <= Len(s) - d
  PROVE  FirstIs(w, s, d, g)
<1>1. PICK n \in Nat : n = Len(s)
  BY DEF Texts
<1>2. PICK m \in Nat : m = Len(w)
  BY DEF Texts
<1>3. /\ Semis(s) = {i \in 1 .. n : s[i] = Semi}
      /\ Semis(w) = {i \in 1 .. m : w[i] = Semi}
  BY <1>1, <1>2, TextFacts
<1>4. d \in 0 .. n /\ m >= n - d /\ \A k \in 1 .. n - d : w[k] = s[d + k]
  BY <1>1, <1>2 DEF Continues
<1>5. g \in 1 .. m /\ w[g] = Semi /\ g <= n - d /\ \A k \in 1 .. m : w[k] = Semi => g <= k
  <2>1. Semis(w) \subseteq Nat
    BY <1>3
  <2>2. g \in Semis(w) /\ \A j \in Semis(w) : g <= j
    BY <2>1, LeastIs
  <2> QED
    BY <1>1, <1>3, <2>2
<1>6. g \in 1 .. n - d /\ d + g \in 1 .. n /\ s[d + g] = Semi
  BY <1>4, <1>5
<1>7. d + g \in Semis(s)
  BY <1>3, <1>6
<1>8. \A i \in d + 1 .. d + g - 1 : s[i] # Semi
  <2>1. ASSUME NEW i \in d + 1 .. d + g - 1 PROVE s[i] # Semi
    <3>1. d \in Nat /\ g \in Nat /\ g <= m /\ g <= n - d
      BY <1>4, <1>5
    <3>2. PICK j \in Nat : j = i - d
      BY <3>1
    <3>3. j \in 1 .. n - d /\ j \in 1 .. m /\ ~(g <= j) /\ d + j = i
      BY <3>1, <3>2
    <3>4. s[i] = w[j]
      BY <1>4, <3>3
    <3>5. w[j] # Semi
      BY <1>5, <3>3
    <3> QED
      BY <3>4, <3>5
  <2> QED
    BY <2>1
<1>9. {e \in Semis(s) : e <= d + g} = {e \in Semis(s) : e <= d} \cup {d + g}
  <2>1. ASSUME NEW e \in Semis(s), e <= d + g PROVE e <= d \/ e = d + g
    <3>1. e \in 1 .. n /\ s[e] = Semi
      BY <1>3
    <3>2. e \in d + 1 .. d + g - 1 => s[e] # Semi
      BY <1>8
    <3> QED
      BY <1>4, <1>5, <2>1, <3>1, <3>2
  <2>2. ASSUME NEW e \in Semis(s), e <= d PROVE e <= d + g
    BY <1>3, <1>4, <1>5, <2>2
  <2>3. d + g <= d + g
    BY <1>4, <1>5
  <2> QED
    BY <1>7, <2>1, <2>2, <2>3, Zenon
<1>25. PICK h : h = d + g
  OBVIOUS
<1>10. PICK p \in 0 .. n : NoneBetween(s, p, h)
  BY <1>1, <1>6, <1>25, HasBefore
<1>11. p < d + g /\ (p = 0 \/ s[p] = Semi) /\ \A i \in p + 1 .. d + g - 1 : s[i] # Semi
  <2>1. p < h /\ (p = 0 \/ s[p] = Semi) /\ \A i \in p + 1 .. h - 1 : s[i] # Semi
    BY <1>10 DEF NoneBetween
  <2> QED
    BY <1>4, <1>5, <1>25, <2>1
<1>12. p <= d
  <2>1. p \in d + 1 .. d + g - 1 => s[p] # Semi
    BY <1>8
  <2> QED
    BY <1>4, <1>5, <1>11, <2>1
<1>13. \A i \in p + 1 .. d : s[i] = Blank
  <2>1. ASSUME NEW i \in p + 1 .. d, s[i] # Blank PROVE FALSE
    <3>1. i \in 1 .. d
      BY <1>4
    <3>2. PICK j \in i .. d : s[j] = Semi
      BY <2>1, <3>1 DEF FinishedAt
    <3>3. j \in p + 1 .. d + g - 1
      BY <1>4, <1>5, <3>1
    <3> QED
      BY <1>11, <3>2, <3>3
  <2> QED
    BY <2>1
<1>14. d + g - 1 \in 0 .. n /\ d <= d + g - 1 /\ d + 1 \in 1 .. n + 1 /\ d + 1 <= (d + g - 1) + 1
  <2>1. d \in Nat /\ d <= n /\ g \in Nat /\ g >= 1 /\ g <= n - d
    BY <1>4, <1>5
  <2> QED
    BY <2>1
<1>15. Piece(s, d + g) = TrimSpace(SubSeq(s, d + 1, d + g - 1))
  <2>1. Piece(s, h) = TrimSpace(SubSeq(s, p + 1, h - 1))
    BY <1>10, PieceIs
  <2>2. TrimSpace(SubSeq(s, p + 1, d + g - 1)) = TrimSpace(SubSeq(s, d + 1, d + g - 1))
    BY <1>1, <1>12, <1>13, <1>14, TrimBlankStart
  <2> QED
    BY <1>4, <1>5, <1>25, <2>1, <2>2
<1>16. IsPart(SubSeq(s, d + 1, d + g - 1), s, d + 1, d + g - 1)
  BY <1>1, <1>14, PartIs
<1>17. Before(w) = SubSeq(w, 1, g - 1) /\ After(w) = SubSeq(w, g + 1, m)
  BY <1>2 DEF Before, After
<1>18. /\ 1 \in 1 .. m + 1 /\ g - 1 \in 0 .. m /\ 1 <= (g - 1) + 1
       /\ g + 1 \in 1 .. m + 1 /\ m \in 0 .. m /\ g + 1 <= m + 1
  BY <1>5
<1>19. IsPart(Before(w), w, 1, g - 1)
  BY <1>2, <1>17, <1>18, PartIs
<1>20. IsPart(After(w), w, g + 1, m)
  BY <1>2, <1>17, <1>18, PartIs
<1>21. Before(w) = SubSeq(s, d + 1, d + g - 1)
  <2>1. (g - 1) - 1 + 1 = g - 1 /\ (d + g - 1) - (d + 1) + 1 = g - 1
    BY <1>4, <1>5
  <2>2. ASSUME NEW k \in 1 .. g - 1 PROVE Before(w)[k] = SubSeq(s, d + 1, d + g - 1)[k]
    <3>1. 1 + k - 1 = k /\ (d + 1) + k - 1 = d + k /\ k \in 1 .. n - d
      BY <1>4, <1>5
    <3>2. Before(w)[k] = w[1 + k - 1]
      BY <1>19, <2>1 DEF IsPart
    <3>3. SubSeq(s, d + 1, d + g - 1)[k] = s[(d + 1) + k - 1]
      BY <1>16, <2>1 DEF IsPart
    <3> QED
      BY <1>4, <3>1, <3>2, <3>3
  <2>3. /\ Before(w) \in Texts /\ SubSeq(s, d + 1, d + g - 1) \in Texts
        /\ Len(Before(w)) = g - 1 /\ Len(SubSeq(s, d + 1, d + g - 1)) = g - 1
    BY <1>16, <1>19, <2>1 DEF IsPart
  <2> QED
    BY <2>2, <2>3, SameText
<1>22. FinishedAt(s, d + g)
  <2>1. \A i \in 1 .. d + g : d + g \in i .. d + g
    BY <1>4, <1>5
  <2> QED
    BY <1>6, <2>1 DEF FinishedAt
<1>23. /\ After(w) \in Texts /\ Len(After(w)) = m - g
       /\ \A k \in DOMAIN After(w) : After(w)[k] = w[g + k]
       /\ DOMAIN After(w) = 1 .. m - g
  <2>1. m - (g + 1) + 1 = m - g
    BY <1>5
  <2>2. \A k \in 1 .. m - g : (g + 1) + k - 1 = g + k
    BY <1>5
  <2> QED
    BY <1>20, <2>1, <2>2 DEF IsPart
<1>24. Continues(After(w), s, d + g)
  <2>1. m - g >= n - (d + g)
    BY <1>4, <1>5
  <2>2. ASSUME NEW k \in 1 .. n - (d + g) PROVE After(w)[k] = s[(d + g) + k]
    <3>1. k \in 1 .. m - g /\ g + k \in 1 .. n - d /\ d + (g + k) = (d + g) + k
      BY <1>4, <1>5, SMTT(40)
    <3> QED
      BY <1>4, <1>23, <3>1
  <2> QED
    BY <1>1, <1>23, <2>1, <2>2 DEF Continues
<1> QED
  BY <1>2, <1>7, <1>9, <1>15, <1>19, <1>21, <1>22, <1>23, <1>24 DEF FirstIs, IsPart

(***************************************************************************)
(* The invariant                                                           *)
(***************************************************************************)

Shown == IF mode = "drain" THEN rest ELSE buf

\* What the shell holds of the text is unfinished exactly when the text is; at
\* the prompt that shows in the buffer, which is empty when nothing is.
RInv ==
  /\ buf \in Texts /\ rest \in Texts /\ text \in Texts
  /\ mode \in {"read", "drain", "file"}
  /\ Unfinished(Shown) <=> Unfinished(text)
  /\ mode = "read" => (buf # <<>> <=> Unfinished(buf))
  /\ mode = "file" => buf = <<>>
  /\ ~misread

LEMMA NothingUnfinished == <<>> \in Texts /\ ~Unfinished(<<>>)
BY DEF Texts, Unfinished

LEMMA RInvInit == Init => RInv
BY NothingUnfinished DEF Init, RInv, Shown

\* A meta-command is taken only when no statement is unfinished.
LEMMA MetaLineStep ==
  ASSUME RInv, NEW line, MetaLine(line)
  PROVE  mode = "read" /\ ~Unfinished(text) /\ buf = <<>> /\ ~misread'
<1>1. mode = "read" /\ buf = <<>>
  BY DEF MetaLine, Prompt
<1>2. text \in Texts /\ ~Unfinished(text) /\ ~misread
  BY <1>1 DEF RInv, Shown
<1>3. TrimSpace(Remainder(text)) = <<>>
  BY <1>2, RemainderUnfinished
<1> QED
  BY <1>1, <1>2, <1>3 DEF MetaLine

LEMMA handleReadStep ==
  ASSUME RInv, NEW line, NEW file \in Texts, handleRead(line, file)
  PROVE  RInv'
<1>1. mode = "read" /\ ~Unfinished(text) /\ buf = <<>> /\ ~misread'
  BY MetaLineStep DEF handleRead
<1>2. PICK c : c = SubSeq(file, 1, Len(file) - Len(Remainder(file)))
  OBVIOUS
<1>3. c \in Texts /\ ~Unfinished(c)
  BY <1>2, FileFinished
<1>4. text \in Texts
  BY DEF RInv
<1>5. text \o c \in Texts /\ ~Unfinished(text \o c)
  BY <1>1, <1>3, <1>4, ConcatUnfinished
<1>6. text' = text \o c /\ rest' = file /\ mode' = "file" /\ buf' = buf
  BY <1>2 DEF handleRead
<1> QED
  BY <1>1, <1>5, <1>6, NothingUnfinished DEF RInv, Shown

LEMMA feedSqlStep ==
  ASSUME RInv, NEW line \in Texts, feedSql(line)
  PROVE  RInv'
<1>1. /\ mode = "read" /\ ~(buf = <<>> /\ IsMeta(line))
      /\ buf' = buf \o line \o <<Blank>> /\ rest' = buf' /\ mode' = "drain"
      /\ text' = text \o line \o <<Blank>>
      /\ misread' = (misread \/ (IsMeta(line) /\ TrimSpace(Remainder(text)) = <<>>))
  BY DEF feedSql, Prompt
<1>2. /\ buf \in Texts /\ text \in Texts /\ ~misread
      /\ Unfinished(buf) <=> Unfinished(text)
      /\ buf # <<>> <=> Unfinished(buf)
  BY <1>1 DEF RInv, Shown
<1>3. <<Blank>> \in Texts
  <2>1. PICK c \in Char : c = Blank
    BY ReplAssumption
  <2>2. <<c>> \in Texts
    BY DEF Texts
  <2> QED
    BY <2>1, <2>2, Zenon
<1>4. /\ buf \o line \in Texts /\ text \o line \in Texts
      /\ Unfinished(buf \o line) <=> Unfinished(text \o line)
  BY <1>2, ConcatUnfinished
<1>5. /\ buf' \in Texts /\ text' \in Texts
      /\ Unfinished(buf') <=> Unfinished(text')
  BY <1>1, <1>3, <1>4, ConcatUnfinished
<1>6. ~misread'
  <2>1. CASE ~IsMeta(line)
    BY <1>1, <1>2, <2>1
  <2>2. CASE IsMeta(line)
    <3>1. TrimSpace(Remainder(text)) # <<>>
      BY <1>1, <1>2, <2>2, RemainderUnfinished
    <3> QED
      BY <1>1, <1>2, <3>1
  <2> QED
    BY <2>1, <2>2
<1>7. Shown' = buf'
  BY <1>1 DEF Shown
<1> QED
  BY <1>1, <1>5, <1>6, <1>7 DEF RInv

LEMMA runOneStep ==
  ASSUME RInv, NEW o \in Outcome, runOne(o)
  PROVE  RInv'
<1>1. /\ mode # "read" /\ Semis(rest) # {} /\ rest' = After(rest)
      /\ buf' = buf /\ mode' = mode /\ text' = text /\ misread' = misread
  BY DEF runOne, AtStatement
<1>2. rest \in Texts
  BY DEF RInv
<1>3. After(rest) \in Texts /\ (Unfinished(After(rest)) <=> Unfinished(rest))
  BY <1>1, <1>2, AfterUnfinished
<1> QED
  BY <1>1, <1>3 DEF RInv, Shown

\* A blank remainder does not count as unfinished.
LEMMA drainedStep ==
  ASSUME RInv, drained
  PROVE  RInv'
<1>1. /\ mode = "drain" /\ Semis(rest) = {} /\ buf' = keepPartial(rest)
      /\ rest' = <<>> /\ mode' = "read" /\ text' = text /\ misread' = misread
  BY DEF drained
<1>2. rest \in Texts /\ (Unfinished(rest) <=> Unfinished(text))
  BY <1>1 DEF RInv, Shown
<1>3. Remainder(rest) = rest
  BY <1>1 DEF Remainder
<1>4. TrimSpace(rest) # <<>> <=> Unfinished(rest)
  BY <1>2, <1>3, RemainderUnfinished
<1>5. /\ buf' \in Texts /\ (buf' # <<>> <=> Unfinished(buf'))
      /\ Unfinished(buf') <=> Unfinished(text)
  <2>1. CASE TrimSpace(rest) = <<>>
    BY <1>1, <1>2, <1>4, <2>1, NothingUnfinished DEF keepPartial
  <2>2. CASE TrimSpace(rest) # <<>>
    BY <1>1, <1>2, <1>4, <2>2, NothingUnfinished DEF keepPartial
  <2> QED
    BY <2>1, <2>2
<1> QED
  BY <1>1, <1>5, NothingUnfinished DEF RInv, Shown

LEMMA fileReadStep ==
  ASSUME RInv, fileRead
  PROVE  RInv'
BY NothingUnfinished DEF RInv, Shown, fileRead

LEMMA RInvNext == RInv /\ [Next]_rvars => RInv'
<1> SUFFICES ASSUME RInv, [Next]_rvars PROVE RInv'
  OBVIOUS
<1>1. ASSUME NEW line \in Lines, handleExit(line) PROVE RInv'
  <2>1. ~misread'
    BY <1>1, MetaLineStep DEF handleExit
  <2> QED
    BY <1>1, <2>1 DEF handleExit, RInv, Shown
<1>2. ASSUME NEW line \in Lines, NEW file \in Files, handleRead(line, file) PROVE RInv'
  <2>1. file \in Texts
    BY ReplAssumption DEF Texts
  <2> QED
    BY <1>2, <2>1, handleReadStep
<1>3. ASSUME NEW line \in Lines, handleOther(line) PROVE RInv'
  <2>1. ~misread'
    BY <1>3, MetaLineStep DEF handleOther
  <2> QED
    BY <1>3, <2>1 DEF handleOther, RInv, Shown
<1>4. ASSUME NEW line \in Lines, feedSql(line) PROVE RInv'
  <2>1. line \in Texts
    BY ReplAssumption DEF Texts
  <2> QED
    BY <1>4, <2>1, feedSqlStep
<1>5. ASSUME NEW o \in Outcome, runOne(o) PROVE RInv'
  BY <1>5, runOneStep
<1>6. CASE drained
  BY <1>6, drainedStep
<1>7. CASE fileRead
  BY <1>7, fileReadStep
<1>8. CASE scanEnds
  BY <1>8 DEF scanEnds, RInv, Shown
<1>9. CASE hangs
  BY <1>9 DEF hangs, RInv, Shown
<1>10. CASE UNCHANGED rvars
  BY <1>10 DEF rvars, RInv, Shown
<1> QED
  BY <1>1, <1>2, <1>3, <1>4, <1>5, <1>6, <1>7, <1>8, <1>9, <1>10 DEF Next

(***************************************************************************)
(* The statements run                                                      *)
(***************************************************************************)

\* The shell has run what s holds up to d, r, and holds w in mode md: the rest of
\* s, and in a file also what comes after the last semicolon, which is not part of
\* the text.
Progress(w, md, r, s, d) ==
  /\ d \in 0 .. Len(s)
  /\ ListsUpTo(r, s, d)
  /\ FinishedAt(s, d)
  /\ Continues(w, s, d)
  /\ md # "file" => Len(w) = Len(s) - d
  /\ md = "read" => Semis(w) = {}
  /\ md = "file" => /\ \A k \in DOMAIN w : k > Len(s) - d => w[k] # Semi
                    /\ d = Len(s) \/ s[Len(s)] = Semi

Held == IF mode = "read" THEN buf ELSE rest

LInv ==
  /\ ran \in Seq(Texts)
  /\ \E d \in Nat : Progress(Held, mode, ran, text, d)

LEMMA LInvInit == Init => LInv
<1> SUFFICES ASSUME Init PROVE LInv
  OBVIOUS
<1>1. text = <<>> /\ ran = <<>> /\ Held = <<>> /\ mode = "read"
  BY DEF Init, Held
<1>2. PICK s : s = text
  OBVIOUS
<1>3. s \in Texts /\ Len(s) = 0 /\ DOMAIN s = {} /\ Semis(s) = {}
  BY <1>1, <1>2 DEF Texts, Semis, Positions
<1>4. ListsUpTo(s, s, 0)
  <2>1. [i \in DOMAIN s |-> 0] \in [DOMAIN s -> {e \in Semis(s) : e <= 0}]
    BY <1>3
  <2> QED
    BY <1>3, <2>1, Zenon DEF ListsUpTo
<1>5. FinishedAt(s, 0) /\ Continues(s, s, 0)
  BY <1>3 DEF FinishedAt, Continues
<1>6. Progress(s, "read", s, s, 0)
  BY <1>3, <1>4, <1>5 DEF Progress
<1> QED
  BY <1>1, <1>2, <1>6 DEF LInv

\* The part of a file that is run: up to its last semicolon.
LEMMA FilePart ==
  ASSUME NEW s \in Texts, NEW c, c = SubSeq(s, 1, Len(s) - Len(Remainder(s)))
  PROVE  /\ c \in Texts /\ Len(c) <= Len(s)
         /\ \A k \in 1 .. Len(c) : c[k] = s[k]
         /\ \A k \in DOMAIN s : k > Len(c) => s[k] # Semi
         /\ Len(c) = 0 \/ c[Len(c)] = Semi
<1>1. PICK n \in Nat : n = Len(s) /\ DOMAIN s = 1 .. n
  BY TextFacts
<1>2. Semis(s) = {i \in 1 .. n : s[i] = Semi} /\ Semis(s) \subseteq 1 .. n
  BY <1>1, TextFacts
<1>3. PICK g : g = IF Semis(s) = {} THEN 0 ELSE Greatest(Semis(s))
  OBVIOUS
<1>4. /\ g \in 0 .. n /\ (g = 0 \/ s[g] = Semi)
      /\ \A k \in 1 .. n : k > g => s[k] # Semi
  <2>1. CASE Semis(s) = {}
    BY <1>2, <1>3, <2>1
  <2>2. CASE Semis(s) # {}
    <3>1. g \in Semis(s) /\ \A j \in Semis(s) : j <= g
      BY <1>2, <1>3, <2>2, GreatestIs
    <3> QED
      BY <1>2, <3>1
  <2> QED
    BY <2>1, <2>2
<1>5. Len(Remainder(s)) = n - g
  <2>1. CASE Semis(s) = {}
    BY <1>1, <1>3, <2>1 DEF Remainder
  <2>2. CASE Semis(s) # {}
    <3>1. Remainder(s) = SubSeq(s, g + 1, n)
      BY <1>1, <1>3, <2>2 DEF Remainder
    <3>2. g + 1 \in 1 .. n + 1 /\ n \in 0 .. n /\ g + 1 <= n + 1
      BY <1>4
    <3>3. IsPart(SubSeq(s, g + 1, n), s, g + 1, n)
      BY <1>1, <3>2, PartIs
    <3>4. Len(Remainder(s)) = n - (g + 1) + 1
      BY <3>1, <3>3 DEF IsPart
    <3> QED
      BY <1>4, <3>4
  <2> QED
    BY <2>1, <2>2
<1>6. c = SubSeq(s, 1, g)
  <2>1. n - (n - g) = g
    BY <1>4
  <2> QED
    BY <1>1, <1>5, <2>1
<1>7. 1 \in 1 .. n + 1 /\ 1 <= g + 1
  BY <1>4
<1>8. IsPart(c, s, 1, g)
  BY <1>1, <1>4, <1>6, <1>7, PartIs
<1>9. g - 1 + 1 = g /\ \A k \in 1 .. g : 1 + k - 1 = k
  BY <1>4
<1>10. c \in Texts /\ Len(c) = g /\ \A k \in 1 .. g : c[k] = s[k]
  BY <1>8, <1>9 DEF IsPart
<1>11. g = 0 \/ c[g] = Semi
  <2>1. g = 0 \/ g \in 1 .. g
    BY <1>4
  <2> QED
    BY <1>4, <1>10, <2>1
<1> QED
  BY <1>1, <1>4, <1>10, <1>11

\* A text with something appended.
IsJoined(t, s, x) ==
  /\ t \in Texts /\ Len(t) = Len(s) + Len(x)
  /\ \A i \in 1 .. Len(s) : t[i] = s[i]
  /\ \A i \in 1 .. Len(x) : t[Len(s) + i] = x[i]

LEMMA ConcatFacts ==
  ASSUME NEW s \in Texts, NEW x \in Texts, NEW t, t = s \o x
  PROVE  IsJoined(t, s, x)
BY DEF Texts, IsJoined

Associates(a, b, c) == (a \o b) \o c = a \o (b \o c)

LEMMA JoinedText ==
  ASSUME NEW a \in Texts, NEW b \in Texts, NEW c \in Texts
  PROVE  Associates(a, b, c)
<1>1. PICK n \in Nat : n = Len(a)
  BY DEF Texts
<1>2. PICK m \in Nat : m = Len(b)
  BY DEF Texts
<1>3. PICK l \in Nat : l = Len(c)
  BY DEF Texts
<1>4. PICK u : u = a \o b
  OBVIOUS
<1>5. PICK v : v = b \o c
  OBVIOUS
<1>6. PICK x : x = u \o c
  OBVIOUS
<1>7. PICK y : y = a \o v
  OBVIOUS
<1>8. PICK p \in Nat : p = n + m
  OBVIOUS
<1>9. PICK q \in Nat : q = m + l
  OBVIOUS
<1>10. /\ u \in Texts /\ Len(u) = p
       /\ \A i \in 1 .. n : u[i] = a[i]
       /\ \A i \in 1 .. m : u[n + i] = b[i]
  <2>1. IsJoined(u, a, b)
    BY <1>4, ConcatFacts
  <2> QED
    BY <1>1, <1>2, <1>4, <1>8, <2>1 DEF IsJoined
<1>11. /\ v \in Texts /\ Len(v) = q
       /\ \A i \in 1 .. m : v[i] = b[i]
       /\ \A i \in 1 .. l : v[m + i] = c[i]
  <2>1. IsJoined(v, b, c)
    BY <1>5, ConcatFacts
  <2> QED
    BY <1>2, <1>3, <1>5, <1>9, <2>1 DEF IsJoined
<1>12. /\ x \in Texts /\ Len(x) = p + l
       /\ \A i \in 1 .. p : x[i] = u[i]
       /\ \A i \in 1 .. l : x[p + i] = c[i]
  <2>1. /\ x \in Texts /\ Len(x) = Len(u) + Len(c)
        /\ \A i \in 1 .. Len(u) : x[i] = u[i]
        /\ \A i \in 1 .. Len(c) : x[Len(u) + i] = c[i]
    <3>1. IsJoined(x, u, c)
      BY <1>6, <1>10, ConcatFacts
    <3> QED
      BY <3>1 DEF IsJoined
  <2>2. Len(u) = p /\ Len(c) = l
    BY <1>3, <1>10
  <2> QED
    BY <2>1, <2>2, Zenon
<1>13. /\ y \in Texts /\ Len(y) = n + q
       /\ \A i \in 1 .. n : y[i] = a[i]
       /\ \A i \in 1 .. q : y[n + i] = v[i]
  <2>1. IsJoined(y, a, v)
    BY <1>7, <1>11, ConcatFacts
  <2> QED
    BY <1>1, <1>7, <1>11, <2>1 DEF IsJoined
<1>14. ASSUME NEW k \in 1 .. p + l PROVE x[k] = y[k]
  <2>1. CASE k \in 1 .. n
    <3>1. k \in 1 .. p
      BY <1>8, <2>1
    <3> QED
      BY <1>10, <1>12, <1>13, <2>1, <3>1
  <2>2. CASE k \in n + 1 .. n + m
    <3>1. PICK j \in 1 .. m : k = n + j
      BY <2>2
    <3>2. j \in 1 .. q /\ k \in 1 .. p
      BY <1>8, <1>9, <3>1
    <3>3. x[k] = u[n + j] /\ y[n + j] = v[j]
      BY <1>12, <1>13, <3>1, <3>2
    <3>4. u[n + j] = b[j] /\ v[j] = b[j]
      BY <1>10, <1>11, <3>1, Zenon
    <3> QED
      BY <3>1, <3>3, <3>4, Zenon
  <2>3. CASE k \in p + 1 .. p + l
    <3>1. PICK j \in 1 .. l : k = p + j
      BY <2>3
    <3>2. PICK i \in 1 .. q : i = m + j
      BY <1>9, <3>1
    <3>3. k = n + i
      BY <1>8, <3>1, <3>2
    <3>4. x[p + j] = c[j] /\ y[n + i] = v[i]
      BY <1>12, <1>13, <3>1, <3>2
    <3>5. v[m + j] = c[j]
      BY <1>11, <3>1, Zenon
    <3> QED
      BY <3>1, <3>2, <3>3, <3>4, <3>5, Zenon
  <2> QED
    BY <1>8, <2>1, <2>2, <2>3
<1>15. p + l = n + q
  BY <1>8, <1>9
<1>16. x = y
  BY <1>12, <1>13, <1>14, <1>15, SameText
<1> QED
  BY <1>4, <1>5, <1>6, <1>7, <1>16, Zenon DEF Associates

\* .read begins with nothing held, so the file continues the text.
LEMMA ReadProgress ==
  ASSUME NEW s \in Texts, NEW r, NEW d, Progress(<<>>, "read", r, s, d),
         NEW f \in Texts, NEW c, c = SubSeq(f, 1, Len(f) - Len(Remainder(f)))
  PROVE  Progress(f, "file", r, s \o c, d)
<1>1. PICK n \in Nat : n = Len(s)
  BY DEF Texts
<1>2. PICK m \in Nat : m = Len(f) /\ DOMAIN f = 1 .. m
  BY TextFacts
<1>3. PICK l : l = Len(c)
  OBVIOUS
<1>4. /\ c \in Texts /\ l <= m
      /\ \A k \in 1 .. l : c[k] = f[k]
      /\ \A k \in DOMAIN f : k > l => f[k] # Semi
      /\ l = 0 \/ c[l] = Semi
  BY <1>2, <1>3, FilePart
<1>5. l \in Nat
  BY <1>3, <1>4 DEF Texts
<1>6. d = n /\ ListsUpTo(r, s, d) /\ FinishedAt(s, d)
  <2>1. d \in 0 .. n /\ Len(<<>>) = n - d /\ ListsUpTo(r, s, d) /\ FinishedAt(s, d)
    BY <1>1 DEF Progress
  <2>2. Len(<<>>) = 0
    OBVIOUS
  <2> QED
    BY <2>1, <2>2
<1>7. PICK t : t = s \o c
  OBVIOUS
<1>8. /\ t \in Texts /\ Len(t) = n + l
      /\ \A i \in 1 .. n : t[i] = s[i]
      /\ \A i \in 1 .. l : t[n + i] = c[i]
  <2>1. IsJoined(t, s, c)
    BY <1>4, <1>7, ConcatFacts
  <2> QED
    BY <1>1, <1>3, <1>4, <1>7, <2>1 DEF IsJoined
<1>9. ListsUpTo(r, t, d) /\ FinishedAt(t, d)
  <2>1. n <= n + l /\ d \in 0 .. n
    BY <1>5, <1>6
  <2> QED
    BY <1>1, <1>6, <1>8, <2>1, UpToExtends
<1>10. Continues(f, t, d)
  <2>1. Len(t) - d = l
    BY <1>5, <1>6, <1>8
  <2>2. \A k \in 1 .. l : f[k] = t[d + k]
    BY <1>4, <1>6, <1>8
  <2>3. m >= l
    BY <1>4, <1>5
  <2> QED
    BY <1>2, <2>1, <2>2, <2>3 DEF Continues
<1>11. /\ d \in 0 .. n + l /\ n + l - d = l
       /\ d = n + l \/ t[n + l] = Semi
  <2>1. d \in 0 .. n + l /\ n + l - d = l
    BY <1>5, <1>6
  <2>2. CASE l = 0
    BY <1>6, <2>1, <2>2
  <2>3. CASE l # 0
    <3>1. l \in 1 .. l
      BY <1>5, <2>3
    <3> QED
      BY <1>4, <1>8, <2>1, <2>3, <3>1
  <2> QED
    BY <2>1, <2>2, <2>3
<1>12. \A k \in DOMAIN f : k > Len(t) - d => f[k] # Semi
  <2>1. Len(t) - d = l
    BY <1>5, <1>6, <1>8
  <2> QED
    BY <1>4, <2>1
<1>13. d \in 0 .. Len(t) /\ (d = Len(t) \/ t[Len(t)] = Semi)
  BY <1>8, <1>11
<1>14. Progress(f, "file", r, t, d)
  BY <1>9, <1>10, <1>12, <1>13, Zenon DEF Progress
<1> QED
  BY <1>7, <1>14

\* A line of SQL is added to the text and to what is held of it.
LEMMA FeedProgress ==
  ASSUME NEW s \in Texts, NEW w \in Texts, NEW r, NEW d, Progress(w, "read", r, s, d), NEW x \in Texts
  PROVE  Progress(w \o x, "drain", r, s \o x, d)
<1>1. PICK n \in Nat : n = Len(s)
  BY DEF Texts
<1>2. PICK m \in Nat : m = Len(w)
  BY DEF Texts
<1>3. PICK l \in Nat : l = Len(x)
  BY DEF Texts
<1>4. /\ d \in 0 .. n /\ m = n - d /\ ListsUpTo(r, s, d) /\ FinishedAt(s, d)
      /\ \A k \in 1 .. n - d : w[k] = s[d + k]
  BY <1>1, <1>2 DEF Progress, Continues
<1>5. PICK t : t = s \o x
  OBVIOUS
<1>6. PICK u : u = w \o x
  OBVIOUS
<1>7. /\ t \in Texts /\ Len(t) = n + l
      /\ \A i \in 1 .. n : t[i] = s[i]
      /\ \A i \in 1 .. l : t[n + i] = x[i]
  <2>1. IsJoined(t, s, x)
    BY <1>5, ConcatFacts
  <2> QED
    BY <1>1, <1>3, <1>5, <2>1 DEF IsJoined
<1>8. /\ u \in Texts /\ Len(u) = m + l
      /\ \A i \in 1 .. m : u[i] = w[i]
      /\ \A i \in 1 .. l : u[m + i] = x[i]
  <2>1. IsJoined(u, w, x)
    BY <1>6, ConcatFacts
  <2> QED
    BY <1>2, <1>3, <1>6, <2>1 DEF IsJoined
<1>9. ListsUpTo(r, t, d) /\ FinishedAt(t, d)
  <2>1. n <= n + l
    OBVIOUS
  <2> QED
    BY <1>1, <1>4, <1>7, <2>1, UpToExtends
<1>10. ASSUME NEW k \in 1 .. n + l - d PROVE u[k] = t[d + k]
  <2>1. CASE k \in 1 .. m
    <3>1. d + k \in 1 .. n
      BY <1>4, <2>1
    <3> QED
      BY <1>4, <1>7, <1>8, <2>1, <3>1
  <2>2. CASE k \notin 1 .. m
    <3>1. k - m \in 1 .. l /\ m + (k - m) = k /\ n + (k - m) = d + k
      BY <1>4, <2>2
    <3> QED
      BY <1>7, <1>8, <3>1
  <2> QED
    BY <2>1, <2>2
<1>11. m + l = n + l - d /\ d \in 0 .. n + l
  BY <1>4
<1>12. Continues(u, t, d)
  BY <1>7, <1>8, <1>10, <1>11 DEF Continues
<1> QED
  BY <1>5, <1>6, <1>7, <1>8, <1>9, <1>11, <1>12 DEF Progress

\* The loop of drainStatements and readFile takes one statement.
LEMMA RunProgress ==
  ASSUME NEW s \in Texts, NEW w \in Texts, NEW md \in {"drain", "file"}, NEW r \in Seq(Texts), NEW d,
         Progress(w, md, r, s, d), Semis(w) # {}, NEW x, x = TrimSpace(Before(w)),
         NEW q, q = IF x = <<>> THEN r ELSE Append(r, x)
  PROVE  q \in Seq(Texts) /\ \E h \in Nat : Progress(After(w), md, q, s, h)
<1>1. PICK n \in Nat : n = Len(s)
  BY DEF Texts
<1>2. PICK m \in Nat : m = Len(w) /\ DOMAIN w = 1 .. m /\ Semis(w) = {i \in 1 .. m : w[i] = Semi}
  BY TextFacts
<1>3. /\ d \in 0 .. n /\ ListsUpTo(r, s, d) /\ FinishedAt(s, d) /\ Continues(w, s, d)
      /\ md # "file" => m = n - d
      /\ md = "file" => /\ \A k \in DOMAIN w : k > n - d => w[k] # Semi
                        /\ d = n \/ s[n] = Semi
  BY <1>1, <1>2 DEF Progress
<1>4. PICK g : g = Least(Semis(w))
  OBVIOUS
<1>5. g \in 1 .. m /\ w[g] = Semi
  <2>1. Semis(w) \subseteq Nat
    BY <1>2
  <2> QED
    BY <1>2, <1>4, <2>1, LeastIs
<1>6. g <= n - d
  <2>1. CASE md # "file"
    BY <1>3, <1>5, <2>1
  <2>2. CASE md = "file"
    <3>1. ~(g > n - d)
      BY <1>2, <1>3, <1>5, <2>2
    <3> QED
      BY <1>3, <1>5, <3>1
  <2> QED
    BY <2>1, <2>2
<1>7. FirstIs(w, s, d, g)
  BY <1>1, <1>3, <1>4, <1>6, FirstPiece
<1>8. PICK h : h = d + g
  OBVIOUS
<1>9. h \in Nat /\ d \in Nat /\ d < h /\ h \in 0 .. n
  BY <1>3, <1>5, <1>6, <1>8
<1>10. PICK a : a = After(w)
  OBVIOUS
<1>11. /\ h \in Semis(s)
       /\ {e \in Semis(s) : e <= h} = {e \in Semis(s) : e <= d} \cup {h}
       /\ Before(w) \in Texts
       /\ Piece(s, h) = x
       /\ FinishedAt(s, h)
       /\ a \in Texts /\ Len(a) = m - g
       /\ \A k \in DOMAIN a : a[k] = w[g + k]
       /\ Continues(a, s, h)
  BY <1>2, <1>7, <1>8, <1>10 DEF FirstIs
<1>12. x \in Texts
  BY <1>11, TrimmedText
<1>13. q \in Seq(Texts)
  BY <1>12
<1>14. ListsUpTo(q, s, h)
  BY <1>3, <1>9, <1>11, <1>12, ListsOneMore
<1>15. md # "file" => Len(a) = n - h
  BY <1>3, <1>5, <1>8, <1>11
<1>16. ASSUME md = "file", NEW k \in DOMAIN a, k > n - h PROVE a[k] # Semi
  <2>1. k \in 1 .. m - g
    BY <1>11, TextFacts
  <2>2. g + k \in 1 .. m /\ g + k > n - d
    BY <1>3, <1>5, <1>8, <1>16, <2>1
  <2> QED
    BY <1>2, <1>3, <1>11, <1>16, <2>2
<1>17. md = "file" => h = n \/ s[n] = Semi
  <2>1. CASE d = n
    BY <1>3, <1>5, <1>6, <2>1
  <2>2. CASE d # n
    BY <1>3, <2>2
  <2> QED
    BY <2>1, <2>2
<1>18. md # "read"
  OBVIOUS
<1>19. Progress(a, md, q, s, h)
  BY <1>1, <1>9, <1>11, <1>14, <1>15, <1>16, <1>17, <1>18 DEF Progress
<1> QED
  BY <1>9, <1>10, <1>13, <1>19

\* drainStatements ends: a blank remainder counts as dealt with.
LEMMA DrainProgress ==
  ASSUME NEW s \in Texts, NEW w \in Texts, NEW r, NEW d, Progress(w, "drain", r, s, d), Semis(w) = {}
  PROVE  \E h \in Nat : Progress(keepPartial(w), "read", r, s, h)
<1>1. PICK n \in Nat : n = Len(s)
  BY DEF Texts
<1>2. PICK m \in Nat : m = Len(w) /\ DOMAIN w = 1 .. m /\ Semis(w) = {i \in 1 .. m : w[i] = Semi}
  BY TextFacts
<1>3. /\ d \in 0 .. n /\ ListsUpTo(r, s, d) /\ FinishedAt(s, d) /\ m = n - d
      /\ Continues(w, s, d) /\ \A k \in 1 .. n - d : w[k] = s[d + k]
  BY <1>1, <1>2 DEF Progress, Continues
<1>4. CASE TrimSpace(w) # <<>>
  <2>1. Progress(w, "read", r, s, d)
    BY DEF Progress
  <2>2. keepPartial(w) = w /\ d \in Nat
    BY <1>3, <1>4 DEF keepPartial
  <2> QED
    BY <2>1, <2>2
<1>5. CASE TrimSpace(w) = <<>>
  <2>1. \A k \in 1 .. m : w[k] = Blank
    BY <1>2, <1>5, TrimmedAway
  <2>2. \A i \in d + 1 .. n : s[i] = Blank
    <3>1. ASSUME NEW i \in d + 1 .. n PROVE s[i] = Blank
      <4>1. i - d \in 1 .. m /\ d + (i - d) = i
        BY <1>3
      <4> QED
        BY <1>3, <2>1, <4>1
    <3> QED
      BY <3>1
  <2>3. Blank # Semi
    BY DEF Blank, Semi
  <2>4. FinishedAt(s, n)
    <3>1. ASSUME NEW i \in 1 .. n, s[i] # Blank PROVE \E j \in i .. n : s[j] = Semi
      <4>1. i \in 1 .. d
        BY <1>3, <2>2, <3>1
      <4>2. PICK j \in i .. d : s[j] = Semi
        BY <1>3, <3>1, <4>1 DEF FinishedAt
      <4>3. j \in i .. n
        BY <1>3, <4>1
      <4> QED
        BY <4>2, <4>3
    <3> QED
      BY <3>1 DEF FinishedAt
  <2>5. \A e \in Semis(s) : e <= d /\ e <= n
    <3>1. ASSUME NEW e \in Semis(s) PROVE e <= d /\ e <= n
      <4>1. e \in 1 .. n /\ s[e] = Semi
        BY <1>1, TextFacts
      <4> QED
        BY <1>3, <2>2, <2>3, <4>1
    <3> QED
      BY <3>1
  <2>6. ListsUpTo(r, s, n)
    BY <1>3, <2>5, Zenon DEF ListsUpTo
  <2>7. PICK v : v = keepPartial(w)
    OBVIOUS
  <2>8. v = <<>> /\ Len(v) = 0 /\ Semis(v) = {}
    BY <1>5, <2>7 DEF keepPartial, Semis, Positions
  <2>9. n \in 0 .. n /\ n - n = 0
    OBVIOUS
  <2>10. Continues(v, s, n)
    BY <1>1, <2>8, <2>9 DEF Continues
  <2>11. Progress(v, "read", r, s, n)
    BY <1>1, <2>4, <2>6, <2>8, <2>9, <2>10 DEF Progress
  <2> QED
    BY <2>7, <2>11
<1> QED
  BY <1>4, <1>5

\* readFile ends: the whole text has been run.
LEMMA FileProgress ==
  ASSUME NEW s \in Texts, NEW w \in Texts, NEW r, NEW d, Progress(w, "file", r, s, d), Semis(w) = {}
  PROVE  Progress(<<>>, "read", r, s, d)
<1>1. PICK n \in Nat : n = Len(s)
  BY DEF Texts
<1>2. PICK m \in Nat : m = Len(w) /\ Semis(w) = {i \in 1 .. m : w[i] = Semi}
  BY TextFacts
<1>3. /\ d \in 0 .. n /\ ListsUpTo(r, s, d) /\ FinishedAt(s, d) /\ m >= n - d
      /\ \A k \in 1 .. n - d : w[k] = s[d + k]
      /\ d = n \/ s[n] = Semi
  BY <1>1, <1>2 DEF Progress, Continues
<1>4. d = n
  <2>1. ASSUME d # n PROVE FALSE
    <3>1. n - d \in 1 .. n - d /\ n - d \in 1 .. m /\ d + (n - d) = n
      BY <1>3, <2>1
    <3> QED
      BY <1>2, <1>3, <2>1, <3>1
  <2> QED
    BY <2>1
<1>5. PICK v : v = <<>>
  OBVIOUS
<1>6. Len(v) = 0 /\ Semis(v) = {} /\ n - d = 0
  BY <1>4, <1>5 DEF Semis, Positions
<1>7. Continues(v, s, d)
  BY <1>1, <1>6 DEF Continues
<1>8. Progress(v, "read", r, s, d)
  BY <1>1, <1>3, <1>6, <1>7 DEF Progress
<1> QED
  BY <1>5, <1>8

LEMMA LInvNext == RInv /\ RInv' /\ LInv /\ [Next]_rvars => LInv'
<1> SUFFICES ASSUME RInv, RInv', LInv, [Next]_rvars PROVE LInv'
  OBVIOUS
<1>1. /\ buf \in Texts /\ rest \in Texts /\ text \in Texts /\ mode \in {"read", "drain", "file"}
      /\ mode = "file" => buf = <<>>
  BY DEF RInv
<1>2. ran \in Seq(Texts)
  BY DEF LInv
<1>3. PICK d \in Nat : Progress(Held, mode, ran, text, d)
  BY DEF LInv
<1>4. ASSUME mode' = mode, buf' = buf, rest' = rest, ran' = ran, text' = text PROVE LInv'
  BY <1>2, <1>3, <1>4 DEF LInv, Held
<1>5. ASSUME NEW line \in Lines, NEW file \in Files, handleRead(line, file) PROVE LInv'
  <2>1. file \in Texts
    BY ReplAssumption DEF Texts
  <2>2. mode = "read" /\ buf = <<>>
    BY <1>5 DEF handleRead, MetaLine, Prompt
  <2>3. PICK c : c = SubSeq(file, 1, Len(file) - Len(Remainder(file)))
    OBVIOUS
  <2>4. mode' = "file" /\ rest' = file /\ ran' = ran /\ text' = text \o c
    BY <1>5, <2>3 DEF handleRead
  <2>5. Progress(<<>>, "read", ran, text, d)
    BY <1>3, <2>2 DEF Held
  <2>6. Progress(file, "file", ran, text \o c, d)
    BY <1>1, <2>1, <2>3, <2>5, ReadProgress
  <2> QED
    BY <1>2, <2>4, <2>6 DEF LInv, Held
<1>6. ASSUME NEW line \in Lines, feedSql(line) PROVE LInv'
  <2>1. line \in Texts
    BY ReplAssumption DEF Texts
  <2>2. /\ mode = "read" /\ buf' = buf \o line \o <<Blank>> /\ rest' = buf' /\ mode' = "drain"
        /\ text' = text \o line \o <<Blank>> /\ ran' = ran
    BY <1>6 DEF feedSql, Prompt
  <2>3. <<Blank>> \in Texts
    <3>1. PICK c \in Char : c = Blank
      BY ReplAssumption
    <3>2. <<c>> \in Texts
      BY DEF Texts
    <3> QED
      BY <3>1, <3>2, Zenon
  <2>4. PICK x : x = line \o <<Blank>>
    OBVIOUS
  <2>5. x \in Texts
    BY <2>1, <2>3, <2>4, ConcatFacts DEF IsJoined
  <2>6. buf' = buf \o x /\ text' = text \o x
    <3>1. PICK b \in Texts : b = <<Blank>>
      BY <2>3
    <3>2. (buf \o line) \o b = buf \o (line \o b) /\ (text \o line) \o b = text \o (line \o b)
      <4>1. Associates(buf, line, b) /\ Associates(text, line, b)
        BY <1>1, <2>1, JoinedText
      <4> QED
        BY <4>1 DEF Associates
    <3> QED
      BY <2>2, <2>4, <3>1, <3>2, Zenon
  <2>7. Progress(buf, "read", ran, text, d)
    BY <1>3, <2>2 DEF Held
  <2>8. Progress(buf \o x, "drain", ran, text \o x, d)
    BY <1>1, <2>5, <2>7, FeedProgress
  <2> QED
    BY <1>2, <2>2, <2>6, <2>8 DEF LInv, Held
<1>7. ASSUME NEW o \in Outcome, runOne(o) PROVE LInv'
  <2>1. PICK x : x = TrimSpace(Before(rest))
    OBVIOUS
  <2>2. /\ mode # "read" /\ Semis(rest) # {} /\ rest' = After(rest) /\ mode' = mode /\ text' = text
        /\ ran' = IF x = <<>> THEN ran ELSE Append(ran, x)
    BY <1>7, <2>1 DEF runOne, AtStatement, Statement
  <2>3. Progress(rest, mode, ran, text, d) /\ mode \in {"drain", "file"}
    BY <1>1, <1>3, <2>2 DEF Held
  <2>4. ran' \in Seq(Texts) /\ \E h \in Nat : Progress(After(rest), mode, ran', text, h)
    BY <1>1, <1>2, <2>1, <2>2, <2>3, RunProgress
  <2> QED
    BY <2>2, <2>4 DEF LInv, Held
<1>8. CASE drained
  <2>1. /\ mode = "drain" /\ Semis(rest) = {} /\ buf' = keepPartial(rest)
        /\ mode' = "read" /\ text' = text /\ ran' = ran
    BY <1>8 DEF drained
  <2>2. Progress(rest, "drain", ran, text, d)
    BY <1>3, <2>1 DEF Held
  <2>3. \E h \in Nat : Progress(keepPartial(rest), "read", ran, text, h)
    BY <1>1, <2>1, <2>2, DrainProgress
  <2> QED
    BY <1>2, <2>1, <2>3 DEF LInv, Held
<1>9. CASE fileRead
  <2>1. /\ mode = "file" /\ Semis(rest) = {} /\ buf' = buf
        /\ mode' = "read" /\ text' = text /\ ran' = ran
    BY <1>9 DEF fileRead
  <2>2. Progress(rest, "file", ran, text, d)
    BY <1>3, <2>1 DEF Held
  <2>3. Progress(<<>>, "read", ran, text, d)
    BY <1>1, <2>1, <2>2, FileProgress
  <2> QED
    BY <1>1, <1>2, <2>1, <2>3 DEF LInv, Held
<1>10. ASSUME NEW line \in Lines, handleExit(line) \/ handleOther(line) PROVE LInv'
  BY <1>4, <1>10 DEF handleExit, handleOther
<1>11. CASE scanEnds
  BY <1>4, <1>11 DEF scanEnds
<1>12. CASE hangs
  BY <1>4, <1>12 DEF hangs
<1>13. CASE UNCHANGED rvars
  BY <1>4, <1>13 DEF rvars
<1> QED
  BY <1>5, <1>6, <1>7, <1>8, <1>9, <1>10, <1>11, <1>12, <1>13 DEF Next

\* At the prompt everything has been run but what the buffer holds.
LEMMA PromptExact ==
  ASSUME NEW s \in Texts, NEW w \in Texts, NEW r, NEW d, Progress(w, "read", r, s, d)
  PROVE  ListsPieces(r, s) /\ TrimSpace(w) = TrimSpace(Remainder(s))
<1>1. PICK n \in Nat : n = Len(s)
  BY DEF Texts
<1>2. PICK m \in Nat : m = Len(w) /\ DOMAIN w = 1 .. m /\ Semis(w) = {i \in 1 .. m : w[i] = Semi}
  BY TextFacts
<1>3. /\ d \in 0 .. n /\ ListsUpTo(r, s, d) /\ FinishedAt(s, d) /\ m = n - d /\ Semis(w) = {}
      /\ \A k \in 1 .. n - d : w[k] = s[d + k]
  BY <1>1, <1>2 DEF Progress, Continues
<1>4. Semis(s) = {i \in 1 .. n : s[i] = Semi} /\ Semis(s) \subseteq 1 .. n
  BY <1>1, TextFacts
<1>5. \A i \in d + 1 .. n : s[i] # Semi
  <2>1. ASSUME NEW i \in d + 1 .. n PROVE s[i] # Semi
    <3>1. i - d \in 1 .. m /\ d + (i - d) = i
      BY <1>3
    <3> QED
      BY <1>2, <1>3, <3>1
  <2> QED
    BY <2>1
<1>6. \A e \in Semis(s) : e <= d
  BY <1>3, <1>4, <1>5
<1>7. ListsPieces(r, s)
  <2>1. {e \in Semis(s) : e <= d} = Semis(s)
    BY <1>6
  <2>2. {e \in Semis(s) : e <= d /\ Piece(s, e) # <<>>} = {e \in Semis(s) : Piece(s, e) # <<>>}
    BY <1>6
  <2> QED
    BY <1>3, <2>1, <2>2, Zenon DEF ListsUpTo, ListsPieces
<1>8. PICK g : g = IF Semis(s) = {} THEN 0 ELSE Greatest(Semis(s))
  OBVIOUS
<1>9. g \in 0 .. d /\ \A e \in Semis(s) : e <= g
  <2>1. CASE Semis(s) = {}
    BY <1>3, <1>8, <2>1
  <2>2. CASE Semis(s) # {}
    <3>1. g \in Semis(s) /\ \A j \in Semis(s) : j <= g
      BY <1>4, <1>8, <2>2, GreatestIs
    <3> QED
      BY <1>3, <1>4, <1>6, <3>1
  <2> QED
    BY <2>1, <2>2
<1>10. Remainder(s) = SubSeq(s, g + 1, n)
  <2>1. CASE Semis(s) # {}
    BY <1>1, <1>8, <2>1 DEF Remainder
  <2>2. CASE Semis(s) = {}
    <3>1. 1 \in 1 .. n + 1 /\ n \in 0 .. n /\ 1 <= n + 1 /\ n - 1 + 1 = n /\ \A k \in 1 .. n : 1 + k - 1 = k
      OBVIOUS
    <3>2. IsPart(SubSeq(s, 1, n), s, 1, n)
      BY <1>1, <3>1, PartIs
    <3>3. SubSeq(s, 1, n) \in Texts /\ Len(SubSeq(s, 1, n)) = n /\ \A k \in 1 .. n : SubSeq(s, 1, n)[k] = s[k]
      BY <3>1, <3>2 DEF IsPart
    <3>4. SubSeq(s, 1, n) = s
      BY <1>1, <3>3, SameText
    <3> QED
      BY <1>8, <2>2, <3>4 DEF Remainder
  <2> QED
    BY <2>1, <2>2
<1>11. \A i \in g + 1 .. d : s[i] = Blank
  <2>1. ASSUME NEW i \in g + 1 .. d, s[i] # Blank PROVE FALSE
    <3>1. i \in 1 .. d
      BY <1>3, <1>9
    <3>2. PICK j \in i .. d : s[j] = Semi
      BY <1>3, <2>1, <3>1 DEF FinishedAt
    <3>3. j \in 1 .. n /\ ~(j <= g)
      BY <1>3, <1>9, <3>1
    <3> QED
      BY <1>4, <1>9, <3>2, <3>3
  <2> QED
    BY <2>1
<1>12. TrimSpace(SubSeq(s, g + 1, n)) = TrimSpace(SubSeq(s, d + 1, n))
  <2>1. g \in 0 .. n /\ n \in 0 .. n /\ g <= d /\ d <= n
    BY <1>3, <1>9
  <2> QED
    BY <1>1, <1>3, <1>11, <2>1, TrimBlankStart
<1>13. SubSeq(s, d + 1, n) = w
  <2>1. d + 1 \in 1 .. n + 1 /\ n \in 0 .. n /\ d + 1 <= n + 1
    BY <1>3
  <2>2. IsPart(SubSeq(s, d + 1, n), s, d + 1, n)
    BY <1>1, <2>1, PartIs
  <2>3. n - (d + 1) + 1 = m /\ \A k \in 1 .. m : (d + 1) + k - 1 = d + k
    BY <1>3
  <2>4. /\ SubSeq(s, d + 1, n) \in Texts /\ Len(SubSeq(s, d + 1, n)) = m
        /\ \A k \in 1 .. m : SubSeq(s, d + 1, n)[k] = w[k]
    BY <1>3, <2>2, <2>3 DEF IsPart
  <2> QED
    BY <1>2, <2>4, SameText
<1> QED
  BY <1>7, <1>10, <1>12, <1>13

\* At every prompt the statements run are the pieces of the whole text so far that
\* end with a semicolon and are not blank, in order, each once, and the buffer
\* holds the unfinished one: drainStatements and readFile lose, repeat and split
\* nothing, for texts of any length and any way to cut them into lines and files.
THEOREM ShellRunsExactly == Spec => []StatementsExact
<1>1. RInv /\ LInv => StatementsExact
  <2> SUFFICES ASSUME RInv, LInv, mode = "read"
               PROVE  ListsPieces(ran, text) /\ TrimSpace(buf) = TrimSpace(Remainder(text))
    BY DEF StatementsExact
  <2>1. buf \in Texts /\ text \in Texts
    BY DEF RInv
  <2>2. PICK d \in Nat : Progress(buf, "read", ran, text, d)
    BY DEF LInv, Held
  <2> QED
    BY <2>1, <2>2, PromptExact
<1> QED
  BY <1>1, RInvInit, RInvNext, LInvInit, LInvNext, PTL DEF Spec

\* No line is taken for the wrong kind: feedLine reads a line that begins with a
\* dot as a meta-command exactly when the text before it has no unfinished
\* statement, whatever the lines and the files hold and however long they are.
THEOREM ShellNeverMisreads == Spec => []NeverMisread
<1>1. RInv => NeverMisread
  BY DEF RInv, NeverMisread
<1> QED
  BY <1>1, RInvInit, RInvNext, PTL DEF Spec
=============================================================================
