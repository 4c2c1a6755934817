-------------------------- MODULE AnsweringProofs ---------------------------
(***************************************************************************)
(* Proofs about Answering, for any corpus, any configurations and any      *)
(* number of requests.  First what the pure parts return: rankings, fused  *)
(* candidates, the context, the citations.                                 *)
(***************************************************************************)
EXTENDS Answering, FiniteSetTheorems, SequenceTheorems, WellFoundedInduction, TLAPS

(* ------------------------------- Numbers ------------------------------- *)

LEMMA Least ==
  ASSUME NEW S, S \subseteq Nat, S # {}
  PROVE  \E x \in S : \A y \in S : x <= y
<1> DEFINE R == {ss \in Nat \X Nat : ss[1] < ss[2]}
<1>1. IsWellFoundedOn(R, Nat) BY NatLessThanWellFounded DEF OpToRel
<1> HIDE DEF R
<1>2. PICK x \in S : \A y \in S : ~(<<y, x>> \in R) BY <1>1, WFMin
<1>3. \A y \in S : ~(y < x) BY <1>2 DEF R
<1> QED BY <1>3

LEMMA Greatest ==
  ASSUME NEW n \in Nat, NEW S, S \subseteq 0..n, S # {}
  PROVE  \E x \in S : \A y \in S : y <= x
<1> DEFINE T == {n - x : x \in S}
<1>1. T \subseteq Nat /\ T # {}
  <2>1. \A x \in S : n - x \in Nat OBVIOUS
  <2> QED BY <2>1
<1>2. PICK t \in T : \A u \in T : t <= u BY <1>1, Least
<1>3. PICK x \in S : t = n - x OBVIOUS
<1>4. \A y \in S : t <= n - y BY <1>2
<1>5. \A y \in S : y <= x BY <1>3, <1>4
<1> QED BY <1>5

(* Fractions of positive numbers compare as fractions do.                  *)
LEMMA Scale ==
  ASSUME NEW a \in Nat, NEW b \in Nat, NEW n \in Nat, n > 0
  PROVE  /\ a > b => a * n > b * n
         /\ a >= b => a * n >= b * n
         /\ a * n > b * n => a > b
         /\ a * n >= b * n => a >= b
OBVIOUS

LEMMA Cross ==
  ASSUME NEW a \in Nat, NEW b \in Nat, NEW c \in Nat, NEW d \in Nat, NEW e \in Nat, NEW f \in Nat,
         b > 0, d > 0, f > 0
  PROVE  /\ a * d > c * b /\ c * f >= e * d => a * f > e * b
         /\ a * d >= c * b /\ c * f > e * d => a * f > e * b
         /\ a * d >= c * b /\ c * f >= e * d => a * f >= e * b
<1>1. /\ a * d \in Nat /\ c * b \in Nat /\ c * f \in Nat /\ e * d \in Nat
      /\ a * f \in Nat /\ e * b \in Nat
  OBVIOUS
<1>2. /\ (a * d) * f = (a * f) * d /\ (c * b) * f = (c * f) * b /\ (e * d) * b = (e * b) * d
  OBVIOUS
<1>3. /\ (a * f) * d \in Nat /\ (c * f) * b \in Nat /\ (e * b) * d \in Nat BY <1>1
<1>4. ASSUME a * d > c * b, c * f >= e * d PROVE a * f > e * b
  <2>1. (a * d) * f > (c * b) * f BY <1>1, <1>4, Scale
  <2>2. (c * f) * b >= (e * d) * b BY <1>1, <1>4, Scale
  <2>3. (a * f) * d > (e * b) * d BY <2>1, <2>2, <1>2, <1>3
  <2> QED BY <2>3, <1>1, Scale
<1>5. ASSUME a * d >= c * b, c * f > e * d PROVE a * f > e * b
  <2>1. (a * d) * f >= (c * b) * f BY <1>1, <1>5, Scale
  <2>2. (c * f) * b > (e * d) * b BY <1>1, <1>5, Scale
  <2>3. (a * f) * d > (e * b) * d BY <2>1, <2>2, <1>2, <1>3
  <2> QED BY <2>3, <1>1, Scale
<1>6. ASSUME a * d >= c * b, c * f >= e * d PROVE a * f >= e * b
  <2>1. (a * d) * f >= (c * b) * f BY <1>1, <1>6, Scale
  <2>2. (c * f) * b >= (e * d) * b BY <1>1, <1>6, Scale
  <2>3. (a * f) * d >= (e * b) * d BY <2>1, <2>2, <1>2, <1>3
  <2> QED BY <2>3, <1>1, Scale
<1> QED BY <1>4, <1>5, <1>6

(* ------------------------------- Listings ------------------------------ *)

Orders(R, S) ==
  /\ \A x \in S : <<x, x>> \notin R
  /\ \A x, y \in S : x # y => <<x, y>> \in R \/ <<y, x>> \in R
  /\ \A x, y, z \in S : <<x, y>> \in R /\ <<y, z>> \in R => <<x, z>> \in R

(* A finite set has one listing along a total order.                       *)
LEMMA ListedFacts ==
  ASSUME NEW S, IsFiniteSet(S), NEW R, Orders(R, S)
  PROVE  LET s == Listed(S, R) IN
         /\ Cardinality(S) \in Nat
         /\ s \in [1..Cardinality(S) -> S]
         /\ \A i, j \in 1..Cardinality(S) : i < j => <<s[i], s[j]>> \in R
         /\ \A x \in S : \E i \in 1..Cardinality(S) : s[i] = x
<1> DEFINE n == Cardinality(S)
           Below(x) == {y \in S : <<y, x>> \in R}
           r == [x \in S |-> Cardinality(Below(x)) + 1]
           s == Listed(S, R)
<1>0. /\ \A x \in S : r[x] = Cardinality(Below(x)) + 1
      /\ \A x, y \in S : y \in Below(x) <=> <<y, x>> \in R
      /\ \A x \in S : Below(x) \subseteq S
      /\ r = [x \in S |-> r[x]]
  OBVIOUS
<1>1. n \in Nat BY FS_CardinalityType
<1>2. ASSUME NEW x \in S PROVE IsFiniteSet(Below(x)) /\ Cardinality(Below(x)) \in 0..n - 1
  <2>1. Below(x) \in SUBSET S /\ Below(x) # S BY DEF Orders
  <2>2. IsFiniteSet(Below(x)) /\ Cardinality(Below(x)) <= n /\ Cardinality(Below(x)) # n
    BY <2>1, FS_Subset
  <2>3. Cardinality(Below(x)) \in Nat BY <2>2, FS_CardinalityType
  <2> QED BY <1>1, <2>2, <2>3
<1> HIDE DEF Below, r
<1>3. ASSUME NEW x \in S, NEW y \in S, <<x, y>> \in R PROVE r[x] < r[y]
  <2>1. Below(x) \in SUBSET Below(y) /\ Below(x) # Below(y) BY <1>0, <1>3 DEF Orders
  <2>2. Cardinality(Below(x)) <= Cardinality(Below(y)) /\ Cardinality(Below(x)) # Cardinality(Below(y))
    BY <1>2, <2>1, FS_Subset
  <2>3. Cardinality(Below(x)) \in Int /\ Cardinality(Below(y)) \in Int BY <1>1, <1>2
  <2> QED BY <1>0, <2>2, <2>3
<1>4. r \in [S -> 1..n]
  <2>1. \A x \in S : r[x] \in 1..n BY <1>0, <1>1, <1>2
  <2> QED BY <1>0, <2>1
<1>5. \A x, y \in S : r[x] = r[y] => x = y
  <2> SUFFICES ASSUME NEW x \in S, NEW y \in S, r[x] = r[y], x # y PROVE FALSE
    OBVIOUS
  <2>1. r[x] \in Nat /\ r[y] \in Nat BY <1>1, <1>4
  <2>2. <<x, y>> \in R \/ <<y, x>> \in R BY DEF Orders
  <2> QED BY <1>3, <2>1, <2>2
<1>6. \A i \in 1..n : \E x \in S : r[x] = i
  <2>1. r \in Injection(S, 1..n) BY <1>4, <1>5 DEF Injection, IsInjective
  <2>2. IsFiniteSet(1..n) /\ Cardinality(1..n) = n BY <1>1, FS_Interval
  <2>3. r \in Surjection(S, 1..n) BY <2>1, <2>2, FS_Injection
  <2> QED BY <2>3 DEF Surjection
<1>7. ASSUME NEW i \in 1..n PROVE s[i] \in S /\ r[s[i]] = i
  <2>1. PICK x \in S : r[x] = i BY <1>6
  <2>2. Cardinality(Below(x)) = i - 1 BY <1>0, <1>1, <1>2, <2>1
  <2>3. s[i] = CHOOSE y \in S : Cardinality(Below(y)) = i - 1 BY <1>7 DEF Listed, Below
  <2>4. s[i] \in S /\ Cardinality(Below(s[i])) = i - 1 BY <2>2, <2>3
  <2> QED BY <1>0, <1>1, <2>4
<1>8. s \in [1..n -> S] BY <1>7 DEF Listed
<1>9. ASSUME NEW i \in 1..n, NEW j \in 1..n, i < j PROVE <<s[i], s[j]>> \in R
  <2>1. s[i] \in S /\ s[j] \in S /\ r[s[i]] = i /\ r[s[j]] = j BY <1>7
  <2>2. s[i] # s[j] BY <1>9, <2>1
  <2>3. <<s[j], s[i]>> \in R => r[s[j]] < r[s[i]] BY <1>3, <2>1
  <2> QED BY <1>9, <2>1, <2>2, <2>3 DEF Orders
<1>10. ASSUME NEW x \in S PROVE \E i \in 1..n : s[i] = x
  <2>1. r[x] \in 1..n BY <1>4
  <2>2. s[r[x]] \in S /\ r[s[r[x]]] = r[x] BY <1>7, <2>1
  <2>3. s[r[x]] = x BY <1>5, <2>2
  <2> QED BY <2>1, <2>3
<1> QED BY <1>1, <1>8, <1>9, <1>10

(* ------------------------------ Sequences ------------------------------ *)

LEMMA Elements ==
  ASSUME NEW T, NEW s \in Seq(T)
  PROVE  /\ Len(s) \in Nat /\ DOMAIN s = 1..Len(s) /\ \A i \in 1..Len(s) : s[i] \in T
         /\ ToSet(s) = {s[i] : i \in 1..Len(s)}
         /\ ToSet(s) \subseteq T /\ IsFiniteSet(ToSet(s))
         /\ s = <<>> <=> Len(s) = 0
         /\ s = <<>> <=> ToSet(s) = {}
<1>1. Len(s) \in Nat /\ DOMAIN s = 1..Len(s) /\ s \in [1..Len(s) -> T] BY LenProperties
<1>2. ToSet(s) = {s[i] : i \in 1..Len(s)} BY <1>1 DEF ToSet
<1>3. ToSet(s) \subseteq T BY <1>1, <1>2
<1>4. IsFiniteSet(ToSet(s))
  <2>1. IsFiniteSet(1..Len(s)) BY <1>1, FS_Interval
  <2>2. s \in Surjection(1..Len(s), ToSet(s)) BY <1>1, <1>2 DEF Surjection
  <2> QED BY <2>1, <2>2, FS_Surjection
<1>5. s = <<>> <=> Len(s) = 0 BY EmptySeq, <1>1
<1>6. ToSet(s) = {} <=> Len(s) = 0 BY <1>1, <1>2
<1> QED BY <1>1, <1>2, <1>3, <1>4, <1>5, <1>6

LEMMA Sequence ==
  ASSUME NEW T, NEW n \in Nat, NEW s \in [1..n -> T]
  PROVE  s \in Seq(T) /\ Len(s) = n
<1>1. s \in Seq(T) BY SeqDef
<1>2. Len(s) \in Nat /\ DOMAIN s = 1..Len(s) BY <1>1, LenProperties
<1> QED BY <1>1, <1>2

LEMMA Listing ==
  ASSUME NEW S, IsFiniteSet(S), NEW R, Orders(R, S)
  PROVE  LET s == Listed(S, R) IN
         /\ s \in Seq(S) /\ ToSet(s) = S /\ IsInjective(s)
         /\ \A i, j \in 1..Len(s) : i < j => <<s[i], s[j]>> \in R
<1> DEFINE s == Listed(S, R)
<1>1. /\ Cardinality(S) \in Nat /\ s \in [1..Cardinality(S) -> S]
      /\ \A i, j \in 1..Cardinality(S) : i < j => <<s[i], s[j]>> \in R
      /\ \A x \in S : \E i \in 1..Cardinality(S) : s[i] = x
  BY ListedFacts
<1> HIDE DEF s
<1>2. s \in Seq(S) /\ Len(s) = Cardinality(S) BY <1>1, Sequence
<1>3. ToSet(s) = S
  <2>1. ToSet(s) = {s[i] : i \in 1..Len(s)} BY <1>2, Elements
  <2> QED BY <1>1, <1>2, <2>1
<1>4. IsInjective(s)
  <2> SUFFICES ASSUME NEW i \in 1..Len(s), NEW j \in 1..Len(s), s[i] = s[j], i < j PROVE FALSE
    BY <1>2, Elements DEF IsInjective
  <2> QED BY <1>1, <1>2 DEF Orders
<1> QED BY <1>1, <1>2, <1>3, <1>4 DEF s

LEMMA Prefix ==
  ASSUME NEW T, NEW s \in Seq(T), NEW n \in Nat
  PROVE  LET p == FirstOf(s, n) IN
         /\ p \in Seq(T)
         /\ Len(p) = IF n < Len(s) THEN n ELSE Len(s)
         /\ \A i \in 1..Len(p) : p[i] = s[i]
         /\ ToSet(p) \subseteq ToSet(s)
         /\ IsInjective(s) => IsInjective(p)
<1> DEFINE m == IF n < Len(s) THEN n ELSE Len(s)
           p == FirstOf(s, n)
<1>1. Len(s) \in Nat /\ DOMAIN s = 1..Len(s) /\ \A i \in 1..Len(s) : s[i] \in T BY Elements
<1>2. m \in Nat /\ m <= Len(s) BY <1>1
<1>3. p = SubSeq(s, 1, m) BY DEF FirstOf
<1> HIDE DEF m, p
<1>4. /\ p \in Seq(T) /\ Len(p) = IF 1 <= m THEN m - 1 + 1 ELSE 0
      /\ \A i \in 1..m - 1 + 1 : p[i] = s[1 + i - 1]
  <2>1. \A i \in 1..m : s[i] \in T BY <1>1, <1>2
  <2> QED BY <1>2, <1>3, <2>1, SubSeqProperties
<1>5. Len(p) = m /\ \A i \in 1..m : p[i] = s[i] BY <1>2, <1>4
<1>6. DOMAIN p = 1..m /\ ToSet(p) = {p[i] : i \in 1..m} BY <1>4, <1>5, Elements
<1>7. ToSet(p) \subseteq ToSet(s)
  <2>1. ToSet(s) = {s[i] : i \in 1..Len(s)} BY Elements
  <2> QED BY <1>1, <1>2, <1>5, <1>6, <2>1
<1>8. IsInjective(s) => IsInjective(p) BY <1>1, <1>2, <1>5, <1>6 DEF IsInjective
<1> QED BY <1>4, <1>5, <1>7, <1>8 DEF m, p

LEMMA RankFacts ==
  ASSUME NEW T, NEW s \in Seq(T), NEW c
  PROVE  /\ Rank(s, c) \in Nat /\ Rank(s, c) <= Len(s)
         /\ c \in ToSet(s) <=> Rank(s, c) > 0
         /\ c \in ToSet(s) => s[Rank(s, c)] = c
         /\ \A i \in 1..Len(s) : s[i] = c => Rank(s, c) <= i
<1>1. Len(s) \in Nat /\ DOMAIN s = 1..Len(s) /\ ToSet(s) = {s[i] : i \in 1..Len(s)} BY Elements
<1>2. CASE c \notin ToSet(s) BY <1>1, <1>2 DEF Rank
<1>3. CASE c \in ToSet(s)
  <2> DEFINE S == {i \in 1..Len(s) : s[i] = c}
  <2>1. S \subseteq Nat /\ S # {} BY <1>1, <1>3
  <2>2. PICK i \in S : \A j \in S : i <= j BY <2>1, Least
  <2>3. i \in DOMAIN s /\ s[i] = c /\ \A j \in DOMAIN s : s[j] = c => i <= j BY <1>1, <2>2
  <2>4. /\ Rank(s, c) \in DOMAIN s /\ s[Rank(s, c)] = c
        /\ \A j \in DOMAIN s : s[j] = c => Rank(s, c) <= j
    BY <1>3, <2>3 DEF Rank
  <2> QED BY <1>1, <1>3, <2>4
<1> QED BY <1>2, <1>3

LEMMA RankOfPlace ==
  ASSUME NEW T, NEW s \in Seq(T), IsInjective(s), NEW i \in 1..Len(s)
  PROVE  s[i] \in ToSet(s) /\ Rank(s, s[i]) = i
<1>1. /\ Len(s) \in Nat /\ DOMAIN s = 1..Len(s) /\ s[i] \in ToSet(s) BY Elements
<1>2. /\ Rank(s, s[i]) \in Nat /\ Rank(s, s[i]) <= Len(s) /\ Rank(s, s[i]) > 0
      /\ s[Rank(s, s[i])] = s[i]
  BY <1>1, RankFacts
<1> QED BY <1>1, <1>2 DEF IsInjective

LEMMA Ordering ==
  ASSUME NEW T, NEW s \in Seq(T), NEW S, S \subseteq ToSet(s)
  PROVE  LET t == InOrderOf(s, S) IN
         /\ t \in Seq(S) /\ ToSet(t) = S /\ IsInjective(t)
         /\ \A i, j \in 1..Len(t) : i < j => Rank(s, t[i]) < Rank(s, t[j])
<1> DEFINE R == {p \in S \X S : Rank(s, p[1]) < Rank(s, p[2])}
           t == InOrderOf(s, S)
<1>1. IsFiniteSet(S) BY Elements, FS_Subset
<1>2. \A x \in S : Rank(s, x) \in Nat /\ s[Rank(s, x)] = x BY RankFacts
<1>3. \A x, y \in S : <<x, y>> \in R <=> Rank(s, x) < Rank(s, y) OBVIOUS
<1>4. Orders(R, S) BY <1>2, <1>3 DEF Orders
<1>5. t = Listed(S, R) BY DEF InOrderOf
<1> HIDE DEF R, t
<1>6. /\ t \in Seq(S) /\ ToSet(t) = S /\ IsInjective(t)
      /\ \A i, j \in 1..Len(t) : i < j => <<t[i], t[j]>> \in R
  BY <1>1, <1>4, <1>5, Listing
<1>7. \A i \in 1..Len(t) : t[i] \in S BY <1>6, Elements
<1> QED BY <1>3, <1>6, <1>7 DEF t

LEMMA BranchFacts ==
  ASSUME NEW T, NEW order \in Seq(T), NEW searchable, NEW limit \in Nat
  PROVE  LET b == Branch(order, searchable, limit) IN
         /\ b \in Seq(T) /\ IsInjective(b) /\ ToSet(b) \subseteq searchable /\ Len(b) <= limit
<1> DEFINE S == ToSet(order) \cap searchable
           t == InOrderOf(order, S)
           b == Branch(order, searchable, limit)
<1>1. t \in Seq(S) /\ ToSet(t) = S /\ IsInjective(t) BY Ordering
<1>2. t \in Seq(T)
  <2>1. S \subseteq T BY Elements
  <2> QED BY <1>1, <2>1, SeqMonotonic
<1>3. b = FirstOf(t, limit) BY DEF Branch
<1> HIDE DEF b, t
<1>4. /\ b \in Seq(T) /\ Len(b) = IF limit < Len(t) THEN limit ELSE Len(t)
      /\ ToSet(b) \subseteq ToSet(t) /\ IsInjective(b)
  BY <1>1, <1>2, <1>3, Prefix
<1>5. Len(t) \in Nat BY <1>2, Elements
<1> QED BY <1>1, <1>4, <1>5 DEF b

(* ------------------------------- Fusion -------------------------------- *)

Fraction == (Nat \ {0}) \X (Nat \ {0})

LEMMA HigherFacts ==
  ASSUME NEW x \in Fraction, NEW y \in Fraction, NEW z \in Fraction
  PROVE  /\ ~Higher(x, x)
         /\ Higher(x, y) => ~Higher(y, x)
         /\ Higher(x, y) /\ ~Higher(z, y) => Higher(x, z)
         /\ ~Higher(y, x) /\ Higher(y, z) => Higher(x, z)
         /\ ~Higher(y, x) /\ ~Higher(z, y) => ~Higher(z, x)
<1>1. /\ x[1] \in Nat /\ x[2] \in Nat /\ y[1] \in Nat /\ y[2] \in Nat /\ z[1] \in Nat /\ z[2] \in Nat
      /\ x[2] > 0 /\ y[2] > 0 /\ z[2] > 0
  BY DEF Fraction
<1>2. \A m, n \in Nat : m * n \in Nat OBVIOUS
<1>3. \A p, q \in {x, y, z} : /\ p[1] * q[2] \in Nat
                              /\ Higher(p, q) <=> p[1] * q[2] > q[1] * p[2]
                              /\ ~Higher(p, q) <=> q[1] * p[2] >= p[1] * q[2]
  BY <1>1, <1>2 DEF Higher
<1>4. /\ x[1] * y[2] > y[1] * x[2] /\ y[1] * z[2] >= z[1] * y[2] => x[1] * z[2] > z[1] * x[2]
      /\ x[1] * y[2] >= y[1] * x[2] /\ y[1] * z[2] > z[1] * y[2] => x[1] * z[2] > z[1] * x[2]
      /\ x[1] * y[2] >= y[1] * x[2] /\ y[1] * z[2] >= z[1] * y[2] => x[1] * z[2] >= z[1] * x[2]
  <2>1. PICK a \in Nat, b \in Nat, c \in Nat, d \in Nat, e \in Nat, f \in Nat :
          a = x[1] /\ b = x[2] /\ c = y[1] /\ d = y[2] /\ e = z[1] /\ f = z[2]
    BY <1>1
  <2>2. b > 0 /\ d > 0 /\ f > 0 BY <1>1, <2>1
  <2>3. /\ a * d > c * b /\ c * f >= e * d => a * f > e * b
        /\ a * d >= c * b /\ c * f > e * d => a * f > e * b
        /\ a * d >= c * b /\ c * f >= e * d => a * f >= e * b
    BY <2>2, Cross
  <2> QED BY <2>1, <2>3
<1>5. ~Higher(x, x) BY <1>3
<1>6. Higher(x, y) => ~Higher(y, x) BY <1>3
<1> QED BY <1>3, <1>4, <1>5, <1>6

LEMMA ScoreFacts ==
  ASSUME NEW near \in Seq(Chunks), NEW match \in Seq(Chunks), NEW k \in Nat, k > 0, NEW c
  PROVE  Score(near, match, k, c) \in Fraction
<1> DEFINE v == Rank(near, c)
           f == Rank(match, c)
<1>1. v \in Nat /\ f \in Nat BY RankFacts
<1>2. /\ Score(near, match, k, c) \in
            {<<(k + f) + (k + v), (k + v) * (k + f)>>, <<1, k + v>>, <<1, k + f>>}
  BY <1>1 DEF Score
<1> HIDE DEF v, f
<1>3. k + v \in Nat \ {0} /\ k + f \in Nat \ {0} BY <1>1
<1>4. \A m, n \in Nat \ {0} : m * n \in Nat \ {0} /\ m + n \in Nat \ {0} OBVIOUS
<1>5. (k + f) + (k + v) \in Nat \ {0} /\ (k + v) * (k + f) \in Nat \ {0} BY <1>3, <1>4
<1> QED BY <1>2, <1>3, <1>5 DEF Fraction

(* Candidates that tie are told apart by branch, distance and identity.    *)
LEMMA PrecedesOrders ==
  ASSUME NEW near \in Seq(Chunks), NEW match \in Seq(Chunks), NEW k \in Nat, k > 0,
         NEW S, S \subseteq Chunks
  PROVE  Orders({p \in S \X S : Precedes(near, match, k, p[1], p[2])}, S)
<1> DEFINE R == {p \in S \X S : Precedes(near, match, k, p[1], p[2])}
           H(a, b) == Higher(Score(near, match, k, a), Score(near, match, k, b))
           In(a) == Rank(near, a) > 0
           dist(a) == IF Rank(near, a) > 0 THEN Distance[a] ELSE 0
           Tie(a, b) == \/ In(a) /\ ~In(b)
                        \/ /\ In(a) = In(b)
                           /\ dist(a) < dist(b) \/ (dist(a) = dist(b) /\ a < b)
<1>1. \A a \in S : a \in Nat /\ Rank(near, a) \in Nat /\ dist(a) \in Int
  BY CorpusAssumption, RankFacts
<1>2. \A a, b \in S : <<a, b>> \in R <=> H(a, b) \/ (~H(b, a) /\ Tie(a, b))
  BY <1>1 DEF Precedes
<1>3. \A a, b, c \in S : /\ ~Tie(a, a)
                         /\ a # b => Tie(a, b) \/ Tie(b, a)
                         /\ Tie(a, b) /\ Tie(b, c) => Tie(a, c)
  BY <1>1
<1>4. \A a, b, c \in S : /\ ~H(a, a)
                         /\ H(a, b) => ~H(b, a)
                         /\ H(a, b) /\ ~H(c, b) => H(a, c)
                         /\ ~H(b, a) /\ H(b, c) => H(a, c)
                         /\ ~H(b, a) /\ ~H(c, b) => ~H(c, a)
  BY ScoreFacts, HigherFacts
<1> HIDE DEF R, H, Tie
<1>5. \A a \in S : <<a, a>> \notin R BY <1>2, <1>3, <1>4
<1>6. \A a, b \in S : a # b => <<a, b>> \in R \/ <<b, a>> \in R BY <1>2, <1>3, <1>4
<1>7. \A a, b, c \in S : <<a, b>> \in R /\ <<b, c>> \in R => <<a, c>> \in R
  BY <1>2, <1>3, <1>4
<1>8. Orders(R, S) BY <1>5, <1>6, <1>7 DEF Orders
<1> QED BY <1>8 DEF R

(* All candidates, best first.                                             *)
Ranking(near, match, k) ==
  LET hits == ToSet(near) \cup ToSet(match)
  IN Listed(hits, {p \in hits \X hits : Precedes(near, match, k, p[1], p[2])})

LEMMA FuseFacts ==
  ASSUME NEW near \in Seq(Chunks), NEW match \in Seq(Chunks), NEW k \in Nat, k > 0,
         NEW limit \in Nat
  PROVE  LET hits == ToSet(near) \cup ToSet(match)
             all == Ranking(near, match, k)
             fused == Fuse(near, match, k, limit)
         IN /\ all \in Seq(Chunks) /\ ToSet(all) = hits /\ IsInjective(all)
            /\ \A i, j \in 1..Len(all) : i < j => Precedes(near, match, k, all[i], all[j])
            /\ fused = FirstOf(all, limit) /\ fused \in Seq(Chunks) /\ IsInjective(fused)
            /\ ToSet(fused) \subseteq hits /\ Len(fused) <= limit
            /\ near # <<>> /\ limit > 0 => fused # <<>>
<1> DEFINE hits == ToSet(near) \cup ToSet(match)
           R == {p \in hits \X hits : Precedes(near, match, k, p[1], p[2])}
           all == Ranking(near, match, k)
           fused == Fuse(near, match, k, limit)
<1>1. hits \subseteq Chunks /\ IsFiniteSet(hits) BY Elements, FS_Union
<1>2. Orders(R, hits) BY <1>1, PrecedesOrders
<1>3. \A a, b : <<a, b>> \in R => Precedes(near, match, k, a, b) OBVIOUS
<1>4. fused = FirstOf(all, limit) BY DEF Fuse, Ranking
<1>5. near # <<>> => hits # {} BY Elements
<1>8. hits = ToSet(near) \cup ToSet(match) /\ all = Listed(hits, R) BY DEF Ranking
<1> HIDE DEF hits, R, all, fused
<1>6. /\ all \in Seq(hits) /\ ToSet(all) = hits /\ IsInjective(all)
      /\ \A i, j \in 1..Len(all) : i < j => <<all[i], all[j]>> \in R
  BY <1>1, <1>2, <1>8, Listing
<1>7. all \in Seq(Chunks) BY <1>1, <1>6, SeqMonotonic
<1>9. Len(all) \in Nat /\ (hits # {} => Len(all) # 0) BY <1>6, <1>7, Elements
<1>10. /\ fused \in Seq(Chunks) /\ Len(fused) = IF limit < Len(all) THEN limit ELSE Len(all)
       /\ ToSet(fused) \subseteq ToSet(all) /\ IsInjective(fused)
  BY <1>4, <1>6, <1>7, Prefix
<1>11. Len(fused) <= limit BY <1>9, <1>10
<1>12. near # <<>> /\ limit > 0 => fused # <<>>
  <2> SUFFICES ASSUME near # <<>>, limit > 0 PROVE Len(fused) # 0 BY <1>10, Elements
  <2> QED BY <1>5, <1>9, <1>10
<1>13. \A i, j \in 1..Len(all) : i < j => Precedes(near, match, k, all[i], all[j]) BY <1>3, <1>6
<1> QED BY <1>4, <1>6, <1>7, <1>10, <1>11, <1>12, <1>13 DEF hits, R, all, fused

(* A candidate that both branches put above another one scores higher.     *)
Above(s, a, b) == Rank(s, a) > 0 /\ (Rank(s, b) = 0 \/ Rank(s, a) < Rank(s, b))

LEMMA Product ==
  ASSUME NEW m \in Nat, NEW n \in Nat, NEW l \in Nat, l > 0, m > n
  PROVE  l * m > l * n /\ m * l > n * l
OBVIOUS

LEMMA AboveScoresHigher ==
  ASSUME NEW near \in Seq(Chunks), NEW match \in Seq(Chunks), NEW k \in Nat, k > 0,
         NEW a, NEW b, b \in ToSet(near) \cup ToSet(match), Above(near, a, b), Above(match, a, b)
  PROVE  Higher(Score(near, match, k, a), Score(near, match, k, b))
<1>0. PICK v \in Nat, f \in Nat, w \in Nat, g \in Nat :
        v = Rank(near, a) /\ f = Rank(match, a) /\ w = Rank(near, b) /\ g = Rank(match, b)
  BY RankFacts
<1>1. v > 0 /\ f > 0 /\ (w = 0 \/ v < w) /\ (g = 0 \/ f < g) /\ (w > 0 \/ g > 0)
  BY <1>0, RankFacts DEF Above
<1> DEFINE A == k + v
           F == k + f
           B == k + w
           G == k + g
<1>2. /\ A \in Nat /\ F \in Nat /\ B \in Nat /\ G \in Nat
      /\ A > 0 /\ F > 0 /\ B > 0 /\ G > 0
      /\ (w > 0 => A < B) /\ (g > 0 => F < G)
  BY <1>1
<1>3. /\ Score(near, match, k, a) = <<F + A, A * F>>
      /\ w > 0 /\ g > 0 => Score(near, match, k, b) = <<G + B, B * G>>
      /\ w = 0 => Score(near, match, k, b) = <<1, G>>
      /\ w > 0 /\ g = 0 => Score(near, match, k, b) = <<1, B>>
  <2>1. Score(near, match, k, a) = <<F + A, A * F>>
    <3>1. Rank(near, a) > 0 /\ Rank(match, a) > 0 BY <1>0, <1>1
    <3>2. Score(near, match, k, a) =
            <<(k + Rank(match, a)) + (k + Rank(near, a)), (k + Rank(near, a)) * (k + Rank(match, a))>>
      BY <3>1 DEF Score
    <3> QED BY <1>0, <3>2
  <2>2. ASSUME w > 0, g > 0 PROVE Score(near, match, k, b) = <<G + B, B * G>>
    <3>1. Rank(near, b) > 0 /\ Rank(match, b) > 0 BY <1>0, <2>2
    <3>2. Score(near, match, k, b) =
            <<(k + Rank(match, b)) + (k + Rank(near, b)), (k + Rank(near, b)) * (k + Rank(match, b))>>
      BY <3>1 DEF Score
    <3> QED BY <1>0, <3>2
  <2>3. ASSUME w = 0 PROVE Score(near, match, k, b) = <<1, G>>
    <3>1. ~(Rank(near, b) > 0) BY <1>0, <2>3
    <3>2. Score(near, match, k, b) = <<1, k + Rank(match, b)>> BY <3>1 DEF Score
    <3> QED BY <1>0, <3>2
  <2>4. ASSUME w > 0, g = 0 PROVE Score(near, match, k, b) = <<1, B>>
    <3>1. Rank(near, b) > 0 /\ Rank(match, b) = 0 BY <1>0, <2>4
    <3>2. Score(near, match, k, b) = <<1, k + Rank(near, b)>> BY <3>1 DEF Score
    <3> QED BY <1>0, <3>2
  <2> QED BY <2>1, <2>2, <2>3, <2>4
<1> HIDE DEF A, B, F, G
<1>4. \A m, n \in Nat : m * n \in Nat OBVIOUS
<1>5. CASE w > 0 /\ g > 0
  <2>1. Score(near, match, k, b) = <<G + B, B * G>> BY <1>5, <1>3
  <2>2. B * G > 0 /\ A * F > 0 BY <1>2
  <2>3. F * (B * G) > G * (A * F)
    <3>1. B * (F * G) > A * (F * G) BY <1>2, <1>4, <1>5, Product
    <3> QED BY <1>2, <3>1
  <2>4. A * (B * G) > B * (A * F)
    <3>1. G * (A * B) > F * (A * B) BY <1>2, <1>4, <1>5, Product
    <3> QED BY <1>2, <3>1
  <2>5. /\ F * (B * G) \in Nat /\ G * (A * F) \in Nat /\ A * (B * G) \in Nat /\ B * (A * F) \in Nat
    BY <1>2, <1>4
  <2>6. /\ (F + A) * (B * G) = F * (B * G) + A * (B * G)
        /\ (G + B) * (A * F) = G * (A * F) + B * (A * F)
    BY <1>2, <1>4
  <2>7. (F + A) * (B * G) > (G + B) * (A * F) BY <2>3, <2>4, <2>5, <2>6
  <2> QED BY <1>3, <2>1, <2>7 DEF Higher
<1>6. CASE w = 0
  <2>1. Score(near, match, k, b) = <<1, G>> /\ F < G BY <1>1, <1>2, <1>3, <1>6
  <2>2. A * G > A * F /\ F * G >= 0 BY <1>2, <1>4, <2>1, Product
  <2>3. (F + A) * G = F * G + A * G /\ 1 * (A * F) = A * F BY <1>2
  <2>4. A * G \in Nat /\ A * F \in Nat /\ F * G \in Nat BY <1>2, <1>4
  <2>5. (F + A) * G > 1 * (A * F) BY <2>2, <2>3, <2>4
  <2> QED BY <1>3, <2>1, <2>5 DEF Higher
<1>7. CASE w > 0 /\ g = 0
  <2>1. Score(near, match, k, b) = <<1, B>> /\ A < B BY <1>2, <1>3, <1>7
  <2>2. F * B > F * A /\ A * B >= 0 BY <1>2, <1>4, <2>1, Product
  <2>3. (F + A) * B = F * B + A * B /\ 1 * (A * F) = F * A BY <1>2
  <2>4. A * B \in Nat /\ F * A \in Nat /\ F * B \in Nat BY <1>2, <1>4
  <2>5. (F + A) * B > 1 * (A * F) BY <2>2, <2>3, <2>4
  <2> QED BY <1>3, <2>1, <2>5 DEF Higher
<1> QED BY <1>1, <1>5, <1>6, <1>7

(* ---------------------------- The context ------------------------------ *)

LEMMA CharactersFinite ==
  ASSUME NEW s \in Seq(Chunks)
  PROVE  IsFiniteSet(Characters(s)) /\ Total(s) \in Nat
<1> DEFINE area == (1..Len(s)) \X (1..Budget)
<1>1. Len(s) \in Nat /\ DOMAIN s = 1..Len(s) /\ \A i \in 1..Len(s) : s[i] \in Chunks BY Elements
<1>2. Budget \in Nat /\ \A c \in Chunks : Size[c] \in Nat /\ Size[c] <= Budget
  BY BudgetAssumption, CorpusAssumption
<1>3. IsFiniteSet(area)
  <2>1. IsFiniteSet(1..Len(s)) BY <1>1, FS_Interval
  <2>2. IsFiniteSet(1..Budget) BY <1>2, FS_Interval
  <2> QED BY <2>1, <2>2, FS_Product
<1>4. Characters(s) \in SUBSET area
  <2>1. \A i \in 1..Len(s) : {i} \X (1..Size[s[i]]) \subseteq area BY <1>1, <1>2
  <2> QED BY <1>1, <2>1 DEF Characters
<1>5. IsFiniteSet(Characters(s)) BY <1>3, <1>4, FS_Subset
<1> QED BY <1>5, FS_CardinalityType DEF Total

LEMMA TotalStep ==
  ASSUME NEW s \in Seq(Chunks), NEW n \in Nat, n < Len(s)
  PROVE  Total(FirstOf(s, n + 1)) = Total(FirstOf(s, n)) + Size[s[n + 1]]
<1> DEFINE p == FirstOf(s, n)
           t == FirstOf(s, n + 1)
           last == {n + 1} \X (1..Size[s[n + 1]])
<1>1. Len(s) \in Nat /\ \A i \in 1..Len(s) : s[i] \in Chunks BY Elements
<1>2. /\ p \in Seq(Chunks) /\ Len(p) = n /\ \A i \in 1..n : p[i] = s[i]
      /\ t \in Seq(Chunks) /\ Len(t) = n + 1 /\ \A i \in 1..n + 1 : t[i] = s[i]
  <2>1. n + 1 \in Nat /\ ~(n + 1 < Len(s)) => Len(s) = n + 1 BY <1>1
  <2> QED BY <1>1, <2>1, Prefix
<1> HIDE DEF p, t
<1>3. DOMAIN p = 1..n /\ DOMAIN t = 1..n + 1 BY <1>2, Elements
<1>4. Characters(t) = Characters(p) \cup last
  <2>1. Characters(p) = UNION {{i} \X (1..Size[s[i]]) : i \in 1..n} BY <1>2, <1>3 DEF Characters
  <2>2. Characters(t) = UNION {{i} \X (1..Size[s[i]]) : i \in 1..n + 1} BY <1>2, <1>3 DEF Characters
  <2>3. 1..n + 1 = (1..n) \cup {n + 1} OBVIOUS
  <2> QED BY <2>1, <2>2, <2>3
<1>5. Characters(p) \cap last = {}
  <2>1. \A x \in Characters(p) : x[1] \in 1..n BY <1>3 DEF Characters
  <2>2. \A x \in last : x[1] = n + 1 OBVIOUS
  <2> QED BY <2>1, <2>2
<1>6. IsFiniteSet(last) /\ Cardinality(last) = Size[s[n + 1]]
  <2>1. Size[s[n + 1]] \in Nat BY <1>1, BudgetAssumption
  <2>2. IsFiniteSet({n + 1}) /\ Cardinality({n + 1}) = 1 BY FS_Singleton
  <2>3. PICK z \in Nat : z = Size[s[n + 1]] BY <2>1
  <2>4. IsFiniteSet(1..z) /\ Cardinality(1..z) = z
    <3>1. 1 \in Int /\ z \in Int OBVIOUS
    <3>2. IsFiniteSet(1..z) /\ Cardinality(1..z) = IF 1 > z THEN 0 ELSE z - 1 + 1
      BY <3>1, FS_Interval
    <3> QED BY <3>2
  <2> DEFINE A == {n + 1}  B == 1..z
  <2>5. IsFiniteSet(A) /\ Cardinality(A) = 1 /\ IsFiniteSet(B) /\ Cardinality(B) = z BY <2>2, <2>4
  <2>6. last = A \X B BY <2>3
  <2> HIDE DEF A, B, last
  <2>7. IsFiniteSet(A \X B) /\ Cardinality(A \X B) = Cardinality(A) * Cardinality(B)
    BY <2>5, FS_Product
  <2>8. 1 * z = z OBVIOUS
  <2> QED BY <2>3, <2>5, <2>6, <2>7, <2>8
<1>7. IsFiniteSet(Characters(p)) BY <1>2, CharactersFinite
<1>8. Cardinality(Characters(p) \cup last)
        = Cardinality(Characters(p)) + Cardinality(last) - Cardinality(Characters(p) \cap last)
  BY <1>6, <1>7, FS_Union
<1>9. Cardinality({}) = 0 /\ Cardinality(Characters(p)) \in Nat
  BY <1>7, FS_EmptySet, FS_CardinalityType
<1>10. Size[s[n + 1]] \in Nat BY <1>1, BudgetAssumption
<1>11. Cardinality(Characters(t)) = Cardinality(Characters(p)) + Size[s[n + 1]] - 0
  BY <1>4, <1>5, <1>6, <1>8, <1>9
<1> QED BY <1>9, <1>10, <1>11 DEF Total, p, t

(* What ContextIsRanked says of a request past BuildPrompt.                *)
Ranked(evidence, context) ==
  /\ context # <<>> /\ IsPrefix(context, evidence) /\ IsInjective(context)
  /\ Len(context) <= Len(evidence) /\ Total(context) <= Budget
  /\ Len(context) < Len(evidence) =>
       Total(context) + Size[evidence[Len(context) + 1]] > Budget

LEMMA ContextFacts ==
  ASSUME NEW evidence \in Seq(Chunks), evidence # <<>>, IsInjective(evidence)
  PROVE  LET context == SelectContext(evidence) IN
         /\ context \in Seq(Chunks) /\ ToSet(context) \subseteq ToSet(evidence)
         /\ Ranked(evidence, context)
<1> DEFINE fits == {n \in 0..Len(evidence) : Total(FirstOf(evidence, n)) <= Budget}
           m == CHOOSE n \in fits : \A l \in fits : l <= n
           context == FirstOf(evidence, m)
<1>0. PICK len \in Nat : len = Len(evidence) BY Elements
<1>1. /\ Len(evidence) \in Nat /\ Len(evidence) > 0 /\ DOMAIN evidence = 1..Len(evidence)
      /\ \A i \in 1..Len(evidence) : evidence[i] \in Chunks
  BY Elements
<1>2. \A n \in 0..Len(evidence) :
        /\ FirstOf(evidence, n) \in Seq(Chunks) /\ Len(FirstOf(evidence, n)) = n
        /\ \A i \in 1..n : FirstOf(evidence, n)[i] = evidence[i]
        /\ ToSet(FirstOf(evidence, n)) \subseteq ToSet(evidence)
        /\ IsInjective(FirstOf(evidence, n)) /\ Total(FirstOf(evidence, n)) \in Nat
  <2> SUFFICES ASSUME NEW n \in 0..Len(evidence)
               PROVE  /\ FirstOf(evidence, n) \in Seq(Chunks) /\ Len(FirstOf(evidence, n)) = n
                      /\ \A i \in 1..n : FirstOf(evidence, n)[i] = evidence[i]
                      /\ ToSet(FirstOf(evidence, n)) \subseteq ToSet(evidence)
                      /\ IsInjective(FirstOf(evidence, n)) /\ Total(FirstOf(evidence, n)) \in Nat
    OBVIOUS
  <2>0. n \in Nat /\ n <= len BY <1>0
  <2>1. n < Len(evidence) \/ n = Len(evidence) BY <1>0, <2>0
  <2>2. /\ FirstOf(evidence, n) \in Seq(Chunks) /\ Len(FirstOf(evidence, n)) = n
        /\ \A i \in 1..Len(FirstOf(evidence, n)) : FirstOf(evidence, n)[i] = evidence[i]
        /\ ToSet(FirstOf(evidence, n)) \subseteq ToSet(evidence)
        /\ IsInjective(FirstOf(evidence, n))
    BY <2>0, <2>1, Prefix
  <2> QED BY <2>2, CharactersFinite
<1>3. Total(FirstOf(evidence, 0)) = 0
  <2>1. DOMAIN FirstOf(evidence, 0) = {} BY <1>1, <1>2, Elements
  <2>2. Characters(FirstOf(evidence, 0)) = {} BY <2>1 DEF Characters
  <2> QED BY <2>2, FS_EmptySet DEF Total
<1>4. 1 \in fits
  <2>1. Total(FirstOf(evidence, 0 + 1)) = Total(FirstOf(evidence, 0)) + Size[evidence[0 + 1]]
    BY <1>1, TotalStep
  <2>2. evidence[1] \in Chunks /\ Size[evidence[1]] \in Nat /\ Size[evidence[1]] <= Budget
    BY <1>1, BudgetAssumption
  <2>3. Total(FirstOf(evidence, 1)) = Size[evidence[1]] BY <1>3, <2>1, <2>2
  <2> QED BY <1>1, <2>2, <2>3
<1>5. m \in fits /\ \A l \in fits : l <= m
  <2>1. \E n \in fits : \A l \in fits : l <= n BY <1>1, <1>4, Greatest
  <2> QED BY <2>1
<1>6. m \in 1..Len(evidence) /\ Total(context) <= Budget BY <1>1, <1>4, <1>5
<1>7. m < Len(evidence) => Total(context) + Size[evidence[m + 1]] > Budget
  <2> SUFFICES ASSUME m < Len(evidence) PROVE Total(context) + Size[evidence[m + 1]] > Budget
    OBVIOUS
  <2>1. m + 1 \in 0..Len(evidence) /\ m + 1 \notin fits BY <1>1, <1>5, <1>6
  <2>2. Total(FirstOf(evidence, m + 1)) \in Nat /\ ~(Total(FirstOf(evidence, m + 1)) <= Budget)
    BY <1>2, <2>1
  <2>3. Total(FirstOf(evidence, m + 1)) = Total(context) + Size[evidence[m + 1]]
    BY <1>6, TotalStep
  <2>4. Budget \in Nat BY CorpusAssumption
  <2> QED BY <2>2, <2>3, <2>4
<1>8. context = SelectContext(evidence) BY DEF SelectContext
<1> HIDE DEF m, fits
<1>9. /\ context \in Seq(Chunks) /\ Len(context) = m /\ IsInjective(context)
      /\ \A i \in 1..m : context[i] = evidence[i]
      /\ ToSet(context) \subseteq ToSet(evidence)
  BY <1>1, <1>2, <1>6
<1>10. context # <<>> BY <1>6, <1>9, Elements
<1>11. IsPrefix(context, evidence)
  <2>1. SubSeq(context, 1, m) = context BY <1>9, SubSeqFull
  <2>2. SubSeq(evidence, 1, m) = context
    <3>1. (IF m < Len(evidence) THEN m ELSE Len(evidence)) = m BY <1>0, <1>6
    <3> QED BY <3>1 DEF FirstOf
  <2> QED BY <1>1, <1>6, <1>9, <2>1, <2>2 DEF IsPrefix
<1> QED BY <1>1, <1>6, <1>7, <1>8, <1>9, <1>10, <1>11 DEF Ranked

(* ---------------------------- The citations ---------------------------- *)

AnswerType == [insufficient : BOOLEAN, cites : Seq(Nat)]

(* What CitationsGrounded says of an answer.                               *)
Grounded(text, citations, context) ==
  /\ ToSet(citations) \subseteq ToSet(context) /\ IsInjective(citations)
  /\ text.insufficient <=> citations = <<>>
  /\ ToSet(text.cites) \subseteq DOMAIN context

LEMMA CitedFacts ==
  ASSUME NEW context \in Seq(Chunks), IsInjective(context), NEW text \in AnswerType,
         text.insufficient => text.cites = <<>>, CitationCode(text, context) = "ok"
  PROVE  /\ Cited(text, context) \in Seq(Chunks)
         /\ Grounded(text, Cited(text, context), context)
<1> DEFINE cites == text.cites
           numbers == FirstMentions(cites)
           cited == Cited(text, context)
<1>1. cites \in Seq(Nat) /\ text.insufficient \in BOOLEAN BY DEF AnswerType
<1>2. ToSet(cites) \subseteq DOMAIN context /\ (~text.insufficient => cites # <<>>)
  <2>1. CASE text.insufficient
    <3>1. cites = <<>> BY <2>1
    <3>2. ToSet(cites) = {} BY <1>1, <3>1, Elements
    <3> QED BY <2>1, <3>2
  <2>2. CASE ~text.insufficient BY <2>2 DEF CitationCode
  <2> QED BY <2>1, <2>2
<1>3. cited = [i \in DOMAIN numbers |-> context[numbers[i]]] BY DEF Cited
<1> HIDE DEF cites, cited
<1>4. numbers \in Seq(ToSet(cites)) /\ ToSet(numbers) = ToSet(cites) /\ IsInjective(numbers)
  BY <1>1, Ordering DEF FirstMentions
<1> HIDE DEF numbers
<1>5. /\ Len(numbers) \in Nat /\ DOMAIN numbers = 1..Len(numbers)
      /\ \A i \in 1..Len(numbers) : numbers[i] \in ToSet(cites)
      /\ numbers = <<>> <=> Len(numbers) = 0
      /\ numbers = <<>> <=> ToSet(numbers) = {}
  BY <1>4, Elements
<1>6. /\ DOMAIN context = 1..Len(context) /\ \A i \in 1..Len(context) : context[i] \in Chunks
      /\ ToSet(context) = {context[i] : i \in 1..Len(context)}
  BY Elements
<1>7. cited \in [1..Len(numbers) -> Chunks] BY <1>2, <1>3, <1>5, <1>6
<1>8. cited \in Seq(Chunks) /\ Len(cited) = Len(numbers) BY <1>5, <1>7, Sequence
<1>9. DOMAIN cited = 1..Len(numbers) /\ ToSet(cited) = {cited[i] : i \in 1..Len(numbers)}
      /\ (cited = <<>> <=> Len(numbers) = 0)
  BY <1>8, Elements
<1>10. ToSet(cited) \subseteq ToSet(context) BY <1>2, <1>3, <1>5, <1>6, <1>9
<1>11. IsInjective(cited)
  <2> SUFFICES ASSUME NEW i \in 1..Len(numbers), NEW j \in 1..Len(numbers), cited[i] = cited[j]
               PROVE  i = j
    BY <1>9 DEF IsInjective
  <2>1. context[numbers[i]] = context[numbers[j]] BY <1>3, <1>5
  <2>2. numbers[i] = numbers[j] BY <1>2, <1>5, <2>1 DEF IsInjective
  <2> QED BY <1>4, <1>5, <2>2 DEF IsInjective
<1>12. text.insufficient <=> cited = <<>>
  <2>1. cites = <<>> <=> ToSet(cites) = {} BY <1>1, Elements
  <2>2. text.insufficient <=> cites = <<>> BY <1>1, <1>2 DEF cites
  <2> QED BY <1>4, <1>5, <1>9, <2>1, <2>2
<1> QED BY <1>2, <1>8, <1>10, <1>11, <1>12 DEF Grounded, cites, cited
----------------------------------------------------------------------------
(* The pipeline: types, and what a request holds at each point.            *)

Working == {"embed", "vector", "text", "boundary", "rerank", "prompt", "generate", "cite",
            "persist", "reply"}
Codes == {"ok", "validation_error", "not_found", "persistence_failed", "embedding_failed",
          "retrieval_failed", "retrieval_empty", "revision_unavailable", "rerank_failed",
          "capability_unavailable", "model_failed", "model_timeout", "citation_invalid",
          "citation_missing"}
Tokens == Usage \cup {<<>>}

RequestType ==
  [pc : Working \cup {"idle", "end"}, config : Configs \cup {Idle.config},
   near : Seq(Chunks), evidence : Seq(Chunks), context : Seq(Chunks),
   embedded : Tokens, input : Tokens, output : Tokens,
   answer : AnswerType, citations : Seq(Chunks), code : Codes]
TraceType == [success : BOOLEAN, code : Codes, context : Seq(Chunks), answer : AnswerType,
              citations : Seq(Chunks), cost : BOOLEAN]
ReplyType == [kind : {"none", "answer", "error"}, code : Codes, answer : AnswerType,
              citations : Seq(Chunks), retrieved : Seq(Chunks), cost : BOOLEAN]

TypeOK ==
  /\ active \in [Docs -> Revisions \cup {0}] /\ deleted \subseteq Docs
  /\ requests \in [Requests -> RequestType]
  /\ traces \in [Requests -> Seq(TraceType)] /\ replies \in [Requests -> ReplyType]
  /\ torn \subseteq Requests

(* The evidence is ranked and not empty once it is chosen, cut to top_k    *)
(* for the prompt, and an outcome that counts as a success is grounded.    *)
Sound(req) ==
  /\ req \in RequestType
  /\ req.pc \in Working => req.config \in Configs
  /\ req.pc = "text" => req.near # <<>>
  /\ req.pc \in {"rerank", "prompt", "generate", "cite"} =>
       req.evidence # <<>> /\ IsInjective(req.evidence)
  /\ req.pc \in {"prompt", "generate", "cite"} => Len(req.evidence) <= req.config.topK
  /\ req.pc \in {"generate", "cite"} => Ranked(req.evidence, req.context)
  /\ req.pc = "cite" => (req.answer.insufficient => req.answer.cites = <<>>)
  /\ req.pc \in {"persist", "reply"} /\ req.code = "ok" =>
       Grounded(req.answer, req.citations, req.context)

(* While the corpus stood still between the two branches, all candidates   *)
(* were searchable at once.                                                *)
Single(s) ==
  \A c, e \in ToSet(s) : RevisionDoc[ChunkRevision[c]] = RevisionDoc[ChunkRevision[e]] =>
                           ChunkRevision[c] = ChunkRevision[e]
OfOneCorpus(req) ==
  /\ req.pc = "text" => ToSet(req.near) \subseteq Searchable(req.config)
  /\ Single(req.evidence) /\ Single(req.context)

(* Nothing is stored or said before Persist, and what is said was stored.  *)
Traced(q) ==
  /\ requests[q].pc \notin {"reply", "end"} => traces[q] = <<>>
  /\ requests[q].pc # "end" => replies[q] = NoReply
  /\ requests[q].pc = "reply" /\ requests[q].code # "persistence_failed" =>
       traces[q] = <<TraceOf(requests[q])>>
  /\ Answered(q) =>
       /\ traces[q] = <<[success |-> TRUE, code |-> "ok", context |-> replies[q].retrieved,
                         answer |-> replies[q].answer, citations |-> replies[q].citations,
                         cost |-> replies[q].cost]>>
       /\ Grounded(replies[q].answer, replies[q].citations, replies[q].retrieved)
  /\ replies[q].kind = "error" /\ replies[q].code \notin Untraced =>
       Len(traces[q]) = 1 /\ ~traces[q][1].success /\ traces[q][1].code = replies[q].code

IInv ==
  /\ TypeOK
  /\ \A q \in Requests : /\ Sound(requests[q])
                         /\ q \notin torn => OfOneCorpus(requests[q])
                         /\ Traced(q)
----------------------------------------------------------------------------
LEMMA EmptyTexts ==
  /\ \A T : <<>> \in Seq(T)
  /\ ToSet(<<>>) = {} /\ Single(<<>>)
  /\ Insufficient \in AnswerType /\ NoReply \in ReplyType
<1>1. \A T : <<>> \in Seq(T) BY EmptySeq
<1>2. ToSet(<<>>) = {}
  <2>1. <<>> \in Seq({}) BY <1>1
  <2> QED BY <2>1, Elements
<1>3. Insufficient \in AnswerType BY <1>1 DEF Insufficient, AnswerType
<1>4. NoReply \in ReplyType BY <1>1, <1>3 DEF NoReply, ReplyType, Codes
<1> QED BY <1>1, <1>2, <1>3, <1>4 DEF Single

LEMMA IdleSound ==
  ASSUME NEW pc \in {"idle", "end"}
  PROVE  /\ Sound([Idle EXCEPT !.pc = pc]) /\ [Idle EXCEPT !.pc = pc].pc = pc
         /\ OfOneCorpus([Idle EXCEPT !.pc = pc])
<1> DEFINE req == [Idle EXCEPT !.pc = pc]
<1>1. /\ req.pc = pc /\ req.evidence = <<>> /\ req.context = <<>>
      /\ req \in RequestType
  BY EmptyTexts DEF Idle, RequestType, Tokens, Codes
<1>2. req.pc \notin Working BY <1>1 DEF Working
<1> HIDE DEF req
<1>3. Sound(req) BY <1>1, <1>2 DEF Sound, Working
<1>4. OfOneCorpus(req) BY <1>1, EmptyTexts DEF OfOneCorpus
<1> QED BY <1>1, <1>3, <1>4 DEF req

LEMMA InvInit == Init => IInv
<1> SUFFICES ASSUME Init PROVE IInv OBVIOUS
<1>1. Idle = [Idle EXCEPT !.pc = "idle"] BY DEF Idle
<1>2. Sound(Idle) /\ OfOneCorpus(Idle) /\ Idle.pc = "idle" BY <1>1, IdleSound
<1>3. TypeOK BY <1>2, EmptyTexts DEF Init, TypeOK, Sound
<1>4. \A q \in Requests : requests[q] = Idle /\ traces[q] = <<>> /\ replies[q] = NoReply BY DEF Init
<1>5. NoReply.kind = "none" BY DEF NoReply
<1>6. \A q \in Requests : Traced(q) BY <1>2, <1>4, <1>5 DEF Traced, Answered
<1> QED BY <1>2, <1>3, <1>4, <1>6 DEF IInv

(* Searchable chunks of one document are of its active revision.           *)
LEMMA SearchableSingle ==
  ASSUME NEW s, NEW g, ToSet(s) \subseteq Searchable(g)
  PROVE  Single(s)
BY DEF Single, Searchable

LEMMA SinglePart ==
  ASSUME NEW s, NEW t, ToSet(t) \subseteq ToSet(s), Single(s)
  PROVE  Single(t)
BY DEF Single

(* A step that only replaces one request's record.                         *)
LEMMA SetKeeps ==
  ASSUME IInv, NEW q \in Requests, NEW new, Set(q, new), Sound(new),
         q \notin torn => OfOneCorpus(new),
         requests[q].pc # "end", new.pc # "reply",
         requests[q].pc = "reply" => new.pc = "end"
  PROVE  IInv'
<1>0. /\ requests' = [requests EXCEPT ![q] = new] /\ requests \in [Requests -> RequestType]
      /\ traces' = traces /\ replies' = replies /\ torn' = torn
      /\ active' = active /\ deleted' = deleted
  BY DEF Set, corpus, IInv, TypeOK
<1>1. /\ requests'[q] = new /\ \A p \in Requests : p # q => requests'[p] = requests[p]
      /\ requests' \in [Requests -> RequestType]
  BY <1>0 DEF Sound
<1>2. TypeOK' BY <1>0, <1>1 DEF IInv, TypeOK
<1>3. \A p \in Requests : Sound(requests[p])' BY <1>1 DEF IInv
<1>4. \A p \in Requests : (p \notin torn => OfOneCorpus(requests[p]))'
  <2>1. OfOneCorpus(new)' <=> OfOneCorpus(new)
    BY <1>0 DEF OfOneCorpus, Searchable
  <2>2. \A p \in Requests : OfOneCorpus(requests[p]) => p = q \/ OfOneCorpus(requests[p])'
    BY <1>0, <1>1 DEF OfOneCorpus, Searchable
  <2> QED BY <1>0, <1>1, <2>1, <2>2 DEF IInv
<1>5. ASSUME NEW p \in Requests PROVE Traced(p)'
  <2>1. Traced(p) /\ Traced(q) BY DEF IInv
  <2>2. CASE p # q BY <1>0, <1>1, <2>1, <2>2 DEF Traced, Answered
  <2>3. CASE p = q
    <3>1. replies[q] = NoReply BY <2>1 DEF Traced
    <3>2. new.pc # "end" => traces[q] = <<>> BY <2>1 DEF Traced
    <3> QED BY <1>0, <1>1, <2>3, <3>1, <3>2 DEF Traced, Answered, NoReply
  <2> QED BY <2>2, <2>3
<1> QED BY <1>2, <1>3, <1>4, <1>5 DEF IInv

LEMMA FailKeeps ==
  ASSUME IInv, NEW q \in Requests, NEW code \in Codes \ {"ok"}, Fail(q, code),
         requests[q].pc \in Working \ {"reply"}
  PROVE  IInv'
<1>1. PICK old : old = requests[q] OBVIOUS
<1>2. PICK new : new = [old EXCEPT !.pc = "persist", !.code = code] OBVIOUS
<1>3. Set(q, new) BY <1>1, <1>2 DEF Fail
<1>4. Sound(old) /\ (q \notin torn => OfOneCorpus(old)) BY <1>1 DEF IInv
<1>5. old \in RequestType /\ old.config \in Configs BY <1>1, <1>4 DEF Sound
<1>6. /\ new \in RequestType /\ new.pc = "persist" /\ new.code # "ok" /\ new.config = old.config
      /\ new.evidence = old.evidence /\ new.context = old.context
  BY <1>2, <1>5 DEF RequestType, Working
<1>7. Sound(new) BY <1>5, <1>6 DEF Sound
<1>8. q \notin torn => OfOneCorpus(new) BY <1>4, <1>6 DEF OfOneCorpus
<1> QED BY <1>3, <1>6, <1>7, <1>8, SetKeeps DEF Working
----------------------------------------------------------------------------
(* One lemma an action.                                                    *)

LEMMA ConfigFacts ==
  ASSUME NEW g \in Configs
  PROVE  /\ g.hybrid \in BOOLEAN /\ g.rerank \in BOOLEAN
         /\ g.topK \in Nat /\ g.topK > 0 /\ g.k \in Nat /\ g.k > 0
         /\ g.vectorLimit \in Nat /\ g.vectorLimit > 0 /\ g.textLimit \in Nat /\ g.textLimit > 0
         /\ CandidateLimit(g) \in Nat /\ CandidateLimit(g) > 0
         /\ ~g.rerank => CandidateLimit(g) = g.topK
         /\ AfterRetrieval(g) = IF g.rerank THEN "rerank" ELSE "prompt"
<1>1. /\ g.hybrid \in BOOLEAN /\ g.rerank \in BOOLEAN /\ g.rerankLimit \in Nat
      /\ {g.topK, g.k, g.vectorLimit, g.textLimit} \subseteq Nat \ {0}
  BY ConfigAssumption
<1>2. /\ g.topK \in Nat /\ g.topK > 0 /\ g.k \in Nat /\ g.k > 0
      /\ g.vectorLimit \in Nat /\ g.vectorLimit > 0 /\ g.textLimit \in Nat /\ g.textLimit > 0
  BY <1>1
<1>3. /\ CandidateLimit(g) \in Nat /\ CandidateLimit(g) > 0
      /\ ~g.rerank => CandidateLimit(g) = g.topK
  BY <1>1, <1>2 DEF CandidateLimit
<1> QED BY <1>1, <1>2, <1>3 DEF AfterRetrieval

LEMMA EndKeeps ==
  ASSUME IInv, NEW q \in Requests, RequestDies(q)
  PROVE  IInv'
<1>1. PICK new : new = [Idle EXCEPT !.pc = "end"] OBVIOUS
<1>2. Set(q, new) /\ requests[q].pc # "end" BY <1>1 DEF RequestDies
<1>3. Sound(new) /\ new.pc = "end" /\ OfOneCorpus(new) BY <1>1, IdleSound
<1> QED BY <1>2, <1>3, SetKeeps

LEMMA BeginKeeps ==
  ASSUME IInv, NEW q \in Requests, NEW g \in Configs, Begin(q, g)
  PROVE  IInv'
<1>0. requests[q].pc = "idle" /\ Sound(requests[q]) /\ (q \notin torn => OfOneCorpus(requests[q]))
  BY DEF Begin, At, IInv
<1>1. CASE Set(q, [Idle EXCEPT !.pc = "embed", !.config = g])
  <2>1. PICK new : new = [Idle EXCEPT !.pc = "embed", !.config = g] OBVIOUS
  <2>2. /\ new.pc = "embed" /\ new.evidence = <<>> /\ new.context = <<>> /\ new.config = g
        /\ new \in RequestType
    BY <2>1, EmptyTexts DEF Idle, RequestType, Tokens, Codes, Working
  <2>3. Sound(new) BY <2>2 DEF Sound
  <2>4. OfOneCorpus(new) BY <2>2, EmptyTexts DEF OfOneCorpus
  <2>5. Set(q, new) BY <1>1, <2>1
  <2> QED BY <1>0, <2>2, <2>3, <2>4, <2>5, SetKeeps
<1>2. CASE ~Set(q, [Idle EXCEPT !.pc = "embed", !.config = g])
  <2>1. PICK code \in {"validation_error", "not_found", "persistence_failed"} :
          replies' = [replies EXCEPT ![q] = [NoReply EXCEPT !.kind = "error", !.code = code]]
    BY <1>2 DEF Begin
  <2>2. PICK answer : answer = [NoReply EXCEPT !.kind = "error", !.code = code] OBVIOUS
  <2>3. PICK new : new = [requests[q] EXCEPT !.pc = "end"] OBVIOUS
  <2>4. /\ requests' = [requests EXCEPT ![q] = new] /\ replies' = [replies EXCEPT ![q] = answer]
        /\ traces' = traces /\ torn' = torn /\ active' = active /\ deleted' = deleted
    BY <1>2, <2>1, <2>2, <2>3 DEF Begin, corpus
  <2>5. answer \in ReplyType /\ answer.kind = "error" /\ answer.code \in Untraced
    BY <2>2, EmptyTexts DEF NoReply, ReplyType, Untraced, Codes
  <2>6. /\ new \in RequestType /\ new.pc = "end"
        /\ new.evidence = requests[q].evidence /\ new.context = requests[q].context
    BY <1>0, <2>3 DEF Sound, RequestType
  <2>7. Sound(new) /\ (q \notin torn => OfOneCorpus(new)')
    BY <1>0, <2>6 DEF Sound, OfOneCorpus, Working
  <2>8. /\ requests \in [Requests -> RequestType] /\ replies \in [Requests -> ReplyType]
        /\ traces \in [Requests -> Seq(TraceType)]
    BY DEF IInv, TypeOK
  <2>9. /\ requests'[q] = new /\ replies'[q] = answer
        /\ \A p \in Requests : p # q => requests'[p] = requests[p] /\ replies'[p] = replies[p]
        /\ requests' \in [Requests -> RequestType] /\ replies' \in [Requests -> ReplyType]
    BY <2>4, <2>5, <2>6, <2>8
  <2>10. TypeOK' BY <2>4, <2>9 DEF IInv, TypeOK
  <2>11. ASSUME NEW p \in Requests
         PROVE  /\ Sound(requests[p])' /\ (p \notin torn => OfOneCorpus(requests[p]))'
                /\ Traced(p)'
    <3>1. CASE p = q
      BY <3>1, <2>4, <2>5, <2>6, <2>7, <2>9 DEF Traced, Answered
    <3>2. CASE p # q
      <4>1. Sound(requests[p]) /\ (p \notin torn => OfOneCorpus(requests[p])) /\ Traced(p)
        BY DEF IInv
      <4>2. OfOneCorpus(requests[p]) => OfOneCorpus(requests[p])'
        BY <3>2, <2>4, <2>9 DEF OfOneCorpus, Searchable
      <4> QED BY <3>2, <4>1, <4>2, <2>4, <2>9 DEF Traced, Answered
    <3> QED BY <3>1, <3>2
  <2> QED BY <2>10, <2>11 DEF IInv
<1> QED BY <1>1, <1>2

LEMMA EmbedKeeps ==
  ASSUME IInv, NEW q \in Requests, EmbedQuestion(q)
  PROVE  IInv'
<1>1. PICK old : old = requests[q] OBVIOUS
<1>2. Sound(old) /\ (q \notin torn => OfOneCorpus(old)) /\ old.pc = "embed"
  BY <1>1 DEF IInv, EmbedQuestion, At
<1>3. CASE \E t \in Usage : Set(q, [requests[q] EXCEPT !.pc = "vector", !.embedded = t])
  <2>1. PICK t \in Usage : Set(q, [old EXCEPT !.pc = "vector", !.embedded = t]) BY <1>1, <1>3
  <2>2. PICK new : new = [old EXCEPT !.pc = "vector", !.embedded = t] OBVIOUS
  <2>3. old \in RequestType /\ old.config \in Configs BY <1>2 DEF Sound, Working
  <2>4. /\ new \in RequestType /\ new.pc = "vector" /\ new.config = old.config
        /\ new.evidence = old.evidence /\ new.context = old.context
    BY <2>2, <2>3 DEF RequestType, Working, Tokens
  <2>5. Sound(new) /\ (q \notin torn => OfOneCorpus(new))
    BY <1>2, <2>3, <2>4 DEF Sound, OfOneCorpus
  <2>6. Set(q, new) BY <2>1, <2>2
  <2> QED BY <1>1, <1>2, <2>4, <2>5, <2>6, SetKeeps
<1>4. CASE Fail(q, "embedding_failed")
  BY <1>1, <1>2, <1>4, FailKeeps DEF Codes, Working
<1> QED BY <1>3, <1>4 DEF EmbedQuestion

LEMMA VectorKeeps ==
  ASSUME IInv, NEW q \in Requests, RetrieveVector(q)
  PROVE  IInv'
<1>1. PICK old : old = requests[q] OBVIOUS
<1>2. PICK g : g = old.config OBVIOUS
<1>3. /\ Sound(old) /\ (q \notin torn => OfOneCorpus(old)) /\ old.pc = "vector"
      /\ old \in RequestType /\ g \in Configs
  BY <1>1, <1>2 DEF IInv, RetrieveVector, At, Sound, Working
<1>4. PICK limit : limit = IF g.hybrid THEN g.vectorLimit ELSE CandidateLimit(g) OBVIOUS
<1>5. limit \in Nat /\ (~g.hybrid /\ ~g.rerank => limit = g.topK) BY <1>3, <1>4, ConfigFacts
<1>6. PICK near : near = Branch(Nearness, Searchable(g), limit) OBVIOUS
<1>7. /\ near \in Seq(Chunks) /\ IsInjective(near) /\ ToSet(near) \subseteq Searchable(g)
      /\ Len(near) <= limit
  BY <1>5, <1>6, CorpusAssumption, BranchFacts
<1>8. PICK new : new = [old EXCEPT !.near = near,
                                   !.evidence = IF g.hybrid THEN <<>> ELSE near,
                                   !.pc = IF near = <<>> THEN "boundary"
                                          ELSE IF g.hybrid THEN "text" ELSE AfterRetrieval(g)]
  OBVIOUS
<1>9. CASE Set(q, new)
  <2>1. /\ new \in RequestType /\ new.near = near /\ new.config = g /\ new.context = old.context
        /\ new.evidence = IF g.hybrid THEN <<>> ELSE near
        /\ new.pc = IF near = <<>> THEN "boundary"
                    ELSE IF g.hybrid THEN "text" ELSE AfterRetrieval(g)
    <3>1. (IF near = <<>> THEN "boundary" ELSE IF g.hybrid THEN "text" ELSE AfterRetrieval(g))
            \in Working
      BY <1>3, ConfigFacts DEF Working
    <3>2. (IF g.hybrid THEN <<>> ELSE near) \in Seq(Chunks) BY <1>7, EmptyTexts
    <3> QED BY <1>2, <1>3, <1>7, <1>8, <3>1, <3>2 DEF RequestType
  <2>2. Sound(new)
    <3>1. CASE near = <<>> \/ g.hybrid BY <3>1, <1>3, <1>7, <2>1 DEF Sound
    <3>2. CASE near # <<>> /\ ~g.hybrid
      <4>1. new.evidence = near /\ new.pc = IF g.rerank THEN "rerank" ELSE "prompt"
        BY <1>3, <2>1, <3>2, ConfigFacts
      <4>2. new.pc = "prompt" => Len(near) <= g.topK BY <1>3, <1>5, <1>7, <3>2, <4>1, ConfigFacts
      <4> QED BY <1>3, <1>7, <2>1, <3>2, <4>1, <4>2 DEF Sound
    <3> QED BY <3>1, <3>2
  <2>3. q \notin torn => OfOneCorpus(new)
    <3>1. Single(near) BY <1>7, SearchableSingle
    <3> QED BY <1>3, <1>7, <2>1, <3>1, EmptyTexts DEF OfOneCorpus
  <2>4. new.pc # "reply" BY <1>3, <2>1, ConfigFacts
  <2> QED BY <1>1, <1>3, <1>9, <2>2, <2>3, <2>4, SetKeeps
<1>10. CASE Fail(q, "retrieval_failed")
  BY <1>1, <1>3, <1>10, FailKeeps DEF Codes, Working
<1> QED BY <1>1, <1>2, <1>4, <1>6, <1>8, <1>9, <1>10 DEF RetrieveVector

LEMMA TextKeeps ==
  ASSUME IInv, NEW q \in Requests, RetrieveText(q)
  PROVE  IInv'
<1>1. PICK old : old = requests[q] OBVIOUS
<1>2. PICK g : g = old.config OBVIOUS
<1>3. /\ Sound(old) /\ (q \notin torn => OfOneCorpus(old)) /\ old.pc = "text"
      /\ old \in RequestType /\ g \in Configs /\ old.near \in Seq(Chunks) /\ old.near # <<>>
  BY <1>1, <1>2 DEF IInv, RetrieveText, At, Sound, Working, RequestType
<1>4. /\ g.k \in Nat /\ g.k > 0 /\ g.textLimit \in Nat
      /\ CandidateLimit(g) \in Nat /\ CandidateLimit(g) > 0
  BY <1>3, ConfigFacts
<1>5. PICK match : match = Branch(Matches, Searchable(g), g.textLimit) OBVIOUS
<1>6. match \in Seq(Chunks) /\ ToSet(match) \subseteq Searchable(g)
  BY <1>4, <1>5, CorpusAssumption, BranchFacts
<1>7. PICK fused : fused = Fuse(old.near, match, g.k, CandidateLimit(g)) OBVIOUS
<1>8. /\ fused \in Seq(Chunks) /\ IsInjective(fused) /\ Len(fused) <= CandidateLimit(g)
      /\ ToSet(fused) \subseteq ToSet(old.near) \cup ToSet(match) /\ fused # <<>>
  BY <1>3, <1>4, <1>6, <1>7, FuseFacts
<1>9. PICK new : new = [old EXCEPT !.evidence = fused, !.pc = AfterRetrieval(g)] OBVIOUS
<1>10. CASE Set(q, new)
  <2>1. /\ new \in RequestType /\ new.config = g /\ new.context = old.context
        /\ new.evidence = fused /\ new.pc = IF g.rerank THEN "rerank" ELSE "prompt"
    <3>1. AfterRetrieval(g) = (IF g.rerank THEN "rerank" ELSE "prompt")
          /\ AfterRetrieval(g) \in Working
      BY <1>3, ConfigFacts DEF Working
    <3> QED BY <1>2, <1>3, <1>8, <1>9, <3>1 DEF RequestType
  <2>2. new.pc = "prompt" => Len(fused) <= g.topK BY <1>3, <1>8, <2>1, ConfigFacts
  <2>3. Sound(new) BY <1>3, <1>8, <2>1, <2>2 DEF Sound
  <2>4. q \notin torn => OfOneCorpus(new)
    <3> SUFFICES ASSUME q \notin torn PROVE OfOneCorpus(new) OBVIOUS
    <3>1. ToSet(old.near) \subseteq Searchable(g) BY <1>2, <1>3 DEF OfOneCorpus
    <3>2. Single(fused) BY <1>6, <1>8, <3>1, SearchableSingle
    <3> QED BY <1>3, <2>1, <3>2 DEF OfOneCorpus
  <2> QED BY <1>1, <1>3, <1>10, <2>1, <2>3, <2>4, SetKeeps
<1>11. CASE Fail(q, "retrieval_failed")
  BY <1>1, <1>3, <1>11, FailKeeps DEF Codes, Working
<1> QED BY <1>1, <1>2, <1>5, <1>7, <1>9, <1>10, <1>11 DEF RetrieveText

LEMMA BoundaryKeeps ==
  ASSUME IInv, NEW q \in Requests, ClassifyBoundary(q)
  PROVE  IInv'
<1>1. requests[q].pc \in Working \ {"reply"} BY DEF ClassifyBoundary, At, Working
<1>2. PICK code \in Codes \ {"ok"} : Fail(q, code)
  BY DEF ClassifyBoundary, Codes
<1> QED BY <1>1, <1>2, FailKeeps

LEMMA RerankKeeps ==
  ASSUME IInv, NEW q \in Requests, Rerank(q)
  PROVE  IInv'
<1>1. PICK old : old = requests[q] OBVIOUS
<1>2. PICK g : g = old.config OBVIOUS
<1>3. /\ Sound(old) /\ (q \notin torn => OfOneCorpus(old)) /\ old.pc = "rerank"
      /\ old \in RequestType /\ g \in Configs
      /\ old.evidence \in Seq(Chunks) /\ old.evidence # <<>> /\ IsInjective(old.evidence)
  BY <1>1, <1>2 DEF IInv, Rerank, At, Sound, Working, RequestType
<1>4. g.topK \in Nat /\ g.topK > 0 BY <1>3, ConfigFacts
<1>5. CASE Fail(q, "rerank_failed")
  BY <1>1, <1>3, <1>5, FailKeeps DEF Codes, Working
<1>6. ASSUME NEW answer \in RerankAnswers(old.evidence), Acceptable(answer, old.evidence),
             Set(q, [old EXCEPT !.evidence = FirstOf(answer, g.topK), !.pc = "prompt"])
      PROVE  IInv'
  <2>1. PICK len \in Nat : len = Len(old.evidence) /\ len > 0
    BY <1>3, Elements
  <2>2. PICK n \in Nat : answer \in [1..n -> ToSet(old.evidence) \cup {0}]
    <3>1. PICK n \in {len - 1, len} : answer \in [1..n -> ToSet(old.evidence) \cup {0}]
      BY <1>6, <2>1 DEF RerankAnswers
    <3>2. n \in Nat BY <2>1
    <3> QED BY <3>1, <3>2
  <2>3. answer \in Seq(ToSet(old.evidence) \cup {0}) /\ Len(answer) = n BY <2>2, Sequence
  <2>4. n = len /\ IsInjective(answer) /\ ToSet(answer) \subseteq ToSet(old.evidence)
    BY <1>6, <2>1, <2>3 DEF Acceptable
  <2>5. \A i \in 1..n : answer[i] \in ToSet(answer) BY <2>3, Elements
  <2>6. ToSet(old.evidence) \subseteq Chunks BY <1>3, Elements
  <2>7. answer \in [1..n -> Chunks] BY <2>2, <2>4, <2>5, <2>6
  <2>8. answer \in Seq(Chunks) BY <2>7, Sequence
  <2>9. PICK cut : cut = FirstOf(answer, g.topK) OBVIOUS
  <2>10. /\ cut \in Seq(Chunks) /\ Len(cut) = IF g.topK < n THEN g.topK ELSE n
         /\ ToSet(cut) \subseteq ToSet(answer) /\ IsInjective(cut)
    BY <1>4, <2>3, <2>4, <2>8, <2>9, Prefix
  <2>11. Len(cut) <= g.topK /\ Len(cut) # 0 BY <1>4, <2>1, <2>4, <2>10
  <2>12. cut # <<>> BY <2>10, <2>11, Elements
  <2>13. PICK new : new = [old EXCEPT !.evidence = cut, !.pc = "prompt"] OBVIOUS
  <2>14. /\ new \in RequestType /\ new.config = g /\ new.context = old.context
         /\ new.evidence = cut /\ new.pc = "prompt"
    BY <1>2, <1>3, <2>10, <2>13 DEF RequestType, Working
  <2>15. Sound(new) BY <1>3, <2>10, <2>11, <2>12, <2>14 DEF Sound
  <2>16. q \notin torn => OfOneCorpus(new)
    <3>1. Single(old.evidence) => Single(cut) BY <2>4, <2>10, SinglePart
    <3> QED BY <1>3, <2>14, <3>1 DEF OfOneCorpus
  <2>17. Set(q, new) BY <1>6, <2>9, <2>13
  <2> QED BY <1>1, <1>3, <2>14, <2>15, <2>16, <2>17, SetKeeps
<1> QED BY <1>1, <1>2, <1>5, <1>6 DEF Rerank

LEMMA PromptKeeps ==
  ASSUME IInv, NEW q \in Requests, BuildPrompt(q)
  PROVE  IInv'
<1>1. PICK old : old = requests[q] OBVIOUS
<1>2. /\ Sound(old) /\ (q \notin torn => OfOneCorpus(old)) /\ old.pc = "prompt"
      /\ old \in RequestType /\ old.config \in Configs
      /\ old.evidence \in Seq(Chunks) /\ old.evidence # <<>> /\ IsInjective(old.evidence)
  BY <1>1 DEF IInv, BuildPrompt, At, Sound, Working, RequestType
<1>3. PICK context : context = SelectContext(old.evidence) OBVIOUS
<1>4. /\ context \in Seq(Chunks) /\ ToSet(context) \subseteq ToSet(old.evidence)
      /\ Ranked(old.evidence, context)
  BY <1>2, <1>3, ContextFacts
<1>5. ASSUME NEW pc \in {"generate", "persist"}, NEW code \in Codes,
             pc = "generate" \/ code # "ok",
             Set(q, [[old EXCEPT !.context = context] EXCEPT !.pc = pc, !.code = code])
      PROVE  IInv'
  <2>1. PICK new : new = [[old EXCEPT !.context = context] EXCEPT !.pc = pc, !.code = code] OBVIOUS
  <2>2. /\ new \in RequestType /\ new.config = old.config /\ new.evidence = old.evidence
        /\ new.context = context /\ new.pc = pc /\ new.code = code
    BY <1>2, <1>4, <2>1 DEF RequestType, Working
  <2>3. Sound(new) BY <1>2, <1>4, <1>5, <2>2 DEF Sound
  <2>4. q \notin torn => OfOneCorpus(new)
    <3>1. Single(old.evidence) => Single(context) BY <1>4, SinglePart
    <3> QED BY <1>2, <2>2, <3>1 DEF OfOneCorpus
  <2>5. Set(q, new) BY <1>5, <2>1
  <2> QED BY <1>1, <1>2, <2>2, <2>3, <2>4, <2>5, SetKeeps
<1>6. CASE Set(q, [[old EXCEPT !.context = context] EXCEPT !.pc = "generate"])
  <2>1. [[old EXCEPT !.context = context] EXCEPT !.pc = "generate"]
          = [[old EXCEPT !.context = context] EXCEPT !.pc = "generate", !.code = old.code]
        /\ old.code \in Codes
    BY <1>2 DEF RequestType
  <2>2. Set(q, [[old EXCEPT !.context = context] EXCEPT !.pc = "generate", !.code = old.code])
    BY <1>6, <2>1
  <2> QED BY <1>5, <2>1, <2>2
<1>7. CASE Set(q, [[old EXCEPT !.context = context] EXCEPT
                      !.pc = "persist", !.code = "capability_unavailable"])
  BY <1>5, <1>7 DEF Codes
<1> QED BY <1>1, <1>3, <1>6, <1>7 DEF BuildPrompt

LEMMA TextsTyped ==
  ASSUME NEW context \in Seq(Chunks), NEW text \in Texts(context)
  PROVE  text \in AnswerType /\ (text.insufficient => text.cites = <<>>)
<1>1. CASE text = Insufficient BY <1>1, EmptyTexts DEF Insufficient
<1>2. ASSUME NEW n \in 0..MaxCites, NEW s \in [1..n -> 0..Len(context) + 1],
             text = [insufficient |-> FALSE, cites |-> s]
      PROVE  text \in AnswerType /\ ~text.insufficient
  <2>1. n \in Nat /\ Len(context) \in Nat BY CorpusAssumption, Elements
  <2>2. s \in [1..n -> Nat] BY <2>1
  <2>3. s \in Seq(Nat) BY <2>1, <2>2, Sequence
  <2> QED BY <1>2, <2>3 DEF AnswerType
<1> QED BY <1>1, <1>2 DEF Texts

LEMMA GenerateKeeps ==
  ASSUME IInv, NEW q \in Requests, Generate(q)
  PROVE  IInv'
<1>1. PICK old : old = requests[q] OBVIOUS
<1>2. /\ Sound(old) /\ (q \notin torn => OfOneCorpus(old)) /\ old.pc = "generate"
      /\ old \in RequestType /\ old.config \in Configs /\ old.context \in Seq(Chunks)
  BY <1>1 DEF IInv, Generate, At, Sound, Working, RequestType
<1>3. PICK input \in Usage, output \in Usage :
        LET used == [old EXCEPT !.input = input, !.output = output] IN
        \/ \E text \in Texts(old.context) : Set(q, [used EXCEPT !.answer = text, !.pc = "cite"])
        \/ \E code \in {"model_failed", "model_timeout"} :
             Set(q, [used EXCEPT !.pc = "persist", !.code = code])
  BY <1>1 DEF Generate
<1>4. PICK used : used = [old EXCEPT !.input = input, !.output = output] OBVIOUS
<1>5. used \in RequestType /\ /\ used.config = old.config /\ used.evidence = old.evidence
                              /\ used.context = old.context /\ used.pc = "generate"
  BY <1>2, <1>4 DEF RequestType, Tokens
<1>6. ASSUME NEW text \in Texts(old.context), Set(q, [used EXCEPT !.answer = text, !.pc = "cite"])
      PROVE  IInv'
  <2>1. PICK new : new = [used EXCEPT !.answer = text, !.pc = "cite"] OBVIOUS
  <2>2. text \in AnswerType /\ (text.insufficient => text.cites = <<>>) BY <1>2, TextsTyped
  <2>3. /\ new \in RequestType /\ new.config = old.config /\ new.evidence = old.evidence
        /\ new.context = old.context /\ new.pc = "cite" /\ new.answer = text
    BY <1>5, <2>1, <2>2 DEF RequestType, Working
  <2>4. Sound(new) BY <1>2, <2>2, <2>3 DEF Sound
  <2>5. q \notin torn => OfOneCorpus(new) BY <1>2, <2>3 DEF OfOneCorpus
  <2>6. Set(q, new) BY <1>6, <2>1
  <2> QED BY <1>1, <1>2, <2>3, <2>4, <2>5, <2>6, SetKeeps
<1>7. ASSUME NEW code \in {"model_failed", "model_timeout"},
             Set(q, [used EXCEPT !.pc = "persist", !.code = code])
      PROVE  IInv'
  <2>1. PICK new : new = [used EXCEPT !.pc = "persist", !.code = code] OBVIOUS
  <2>2. /\ new \in RequestType /\ new.config = old.config /\ new.evidence = old.evidence
        /\ new.context = old.context /\ new.pc = "persist" /\ new.code # "ok"
    BY <1>5, <2>1 DEF RequestType, Working, Codes
  <2>3. Sound(new) BY <1>2, <2>2 DEF Sound
  <2>4. q \notin torn => OfOneCorpus(new) BY <1>2, <2>2 DEF OfOneCorpus
  <2>5. Set(q, new) BY <1>7, <2>1
  <2> QED BY <1>1, <1>2, <2>2, <2>3, <2>4, <2>5, SetKeeps
<1> QED BY <1>3, <1>4, <1>6, <1>7

LEMMA CiteKeeps ==
  ASSUME IInv, NEW q \in Requests, MapCitations(q)
  PROVE  IInv'
<1>1. PICK old : old = requests[q] OBVIOUS
<1>2. /\ Sound(old) /\ (q \notin torn => OfOneCorpus(old)) /\ old.pc = "cite"
      /\ old \in RequestType /\ old.config \in Configs /\ old.context \in Seq(Chunks)
      /\ old.answer \in AnswerType /\ (old.answer.insufficient => old.answer.cites = <<>>)
      /\ IsInjective(old.context)
  BY <1>1 DEF IInv, MapCitations, At, Sound, Working, RequestType, Ranked
<1>3. PICK code : code = CitationCode(old.answer, old.context) OBVIOUS
<1>4. PICK citations :
        citations = IF code = "ok" THEN Cited(old.answer, old.context) ELSE <<>>
  OBVIOUS
<1>5. code \in Codes BY <1>3 DEF CitationCode, Codes
<1>6. /\ citations \in Seq(Chunks)
      /\ code = "ok" => Grounded(old.answer, citations, old.context)
  BY <1>2, <1>3, <1>4, CitedFacts, EmptyTexts
<1>7. PICK new : new = [old EXCEPT !.pc = "persist", !.code = code, !.citations = citations]
  OBVIOUS
<1>8. Set(q, new) BY <1>1, <1>3, <1>4, <1>7 DEF MapCitations
<1>9. /\ new \in RequestType /\ new.config = old.config /\ new.evidence = old.evidence
      /\ new.context = old.context /\ new.answer = old.answer /\ new.citations = citations
      /\ new.pc = "persist" /\ new.code = code
  BY <1>2, <1>5, <1>6, <1>7 DEF RequestType, Working
<1>10. Sound(new) BY <1>2, <1>6, <1>9 DEF Sound
<1>11. q \notin torn => OfOneCorpus(new) BY <1>2, <1>9 DEF OfOneCorpus
<1> QED BY <1>1, <1>2, <1>8, <1>9, <1>10, <1>11, SetKeeps

LEMMA TraceTyped ==
  ASSUME NEW req \in RequestType
  PROVE  /\ TraceOf(req) \in TraceType /\ TraceOf(req).code = req.code
         /\ TraceOf(req).success = (req.code = "ok")
<1>1. (IF req.code = "ok" THEN req.answer ELSE Insufficient) \in AnswerType
  BY EmptyTexts DEF RequestType
<1>2. CostKnown(req) \in BOOLEAN BY DEF CostKnown
<1> QED BY <1>1, <1>2 DEF TraceOf, TraceType, RequestType

LEMMA PersistKeeps ==
  ASSUME IInv, NEW q \in Requests, Persist(q)
  PROVE  IInv'
<1>1. PICK old : old = requests[q] OBVIOUS
<1>2. /\ Sound(old) /\ (q \notin torn => OfOneCorpus(old)) /\ old.pc = "persist"
      /\ old \in RequestType /\ old.config \in Configs
      /\ traces[q] = <<>> /\ replies[q] = NoReply
  BY <1>1 DEF IInv, Persist, At, Sound, Working, Traced
<1>3. PICK committed \in BOOLEAN, heard \in BOOLEAN :
        /\ traces' = [traces EXCEPT ![q] = IF committed THEN Append(@, TraceOf(old)) ELSE @]
        /\ requests' = [requests EXCEPT ![q] =
             [@ EXCEPT !.pc = "reply", !.code = ReplyCode(old, committed /\ heard)]]
  BY <1>1 DEF Persist
<1>4. PICK code : code = ReplyCode(old, committed /\ heard) OBVIOUS
<1>5. PICK new : new = [old EXCEPT !.pc = "reply", !.code = code] OBVIOUS
<1>6. PICK trace : trace = IF committed THEN Append(<<>>, TraceOf(old)) ELSE <<>> OBVIOUS
<1>7. /\ active' = active /\ deleted' = deleted /\ replies' = replies /\ torn' = torn
      /\ requests \in [Requests -> RequestType] /\ traces \in [Requests -> Seq(TraceType)]
  BY DEF Persist, corpus, IInv, TypeOK
<1>8. /\ code \in Codes
      /\ code # "persistence_failed" => committed /\ code = old.code
      /\ code = "ok" => old.code = "ok"
  BY <1>2, <1>4 DEF ReplyCode, Codes, RequestType
<1>9. /\ new \in RequestType /\ new.pc = "reply" /\ new.code = code
      /\ new.config = old.config /\ new.evidence = old.evidence /\ new.context = old.context
      /\ new.answer = old.answer /\ new.citations = old.citations
      /\ new.embedded = old.embedded /\ new.input = old.input /\ new.output = old.output
  BY <1>2, <1>5, <1>8 DEF RequestType, Working
<1>10. trace \in Seq(TraceType)
  BY <1>2, <1>6, TraceTyped, EmptyTexts, AppendProperties
<1>11. /\ requests'[q] = new /\ traces'[q] = trace
       /\ \A p \in Requests : p # q => requests'[p] = requests[p] /\ traces'[p] = traces[p]
       /\ requests' \in [Requests -> RequestType] /\ traces' \in [Requests -> Seq(TraceType)]
  BY <1>1, <1>2, <1>3, <1>4, <1>5, <1>6, <1>7, <1>9, <1>10
<1>12. TypeOK' BY <1>7, <1>11 DEF IInv, TypeOK
<1>13. Sound(new)
  BY <1>2, <1>8, <1>9 DEF Sound
<1>14. q \notin torn => OfOneCorpus(new)' BY <1>2, <1>9 DEF OfOneCorpus
<1>15. code # "persistence_failed" => trace = <<TraceOf(new)>>
  <2> SUFFICES ASSUME code # "persistence_failed" PROVE trace = <<TraceOf(new)>> OBVIOUS
  <2>1. CostKnown(new) = CostKnown(old) BY <1>9 DEF CostKnown
  <2>2. TraceOf(new) = TraceOf(old) BY <1>8, <1>9, <2>1 DEF TraceOf
  <2>3. trace = Append(<<>>, TraceOf(old)) BY <1>6, <1>8
  <2> QED BY <2>2, <2>3
<1>16. ASSUME NEW p \in Requests
       PROVE  /\ Sound(requests[p])' /\ (p \notin torn => OfOneCorpus(requests[p]))'
              /\ Traced(p)'
  <2>0. NoReply.kind = "none" BY DEF NoReply
  <2>1. CASE p = q
    <3>1. Traced(q)' BY <1>2, <1>7, <1>9, <1>11, <1>15, <2>0 DEF Traced, Answered, TraceOf, CostKnown
    <3> QED BY <2>1, <3>1, <1>7, <1>11, <1>13, <1>14
  <2>2. CASE p # q
    <3>1. Sound(requests[p]) /\ (p \notin torn => OfOneCorpus(requests[p])) /\ Traced(p)
      BY DEF IInv
    <3>2. OfOneCorpus(requests[p]) => OfOneCorpus(requests[p])'
      BY <2>2, <1>7, <1>11 DEF OfOneCorpus, Searchable
    <3> QED BY <2>2, <3>1, <3>2, <1>7, <1>11 DEF Traced, Answered
  <2> QED BY <2>1, <2>2
<1> QED BY <1>12, <1>16 DEF IInv

LEMMA ReplyKeeps ==
  ASSUME IInv, NEW q \in Requests, Reply(q)
  PROVE  IInv'
<1>1. PICK old : old = requests[q] OBVIOUS
<1>2. /\ Sound(old) /\ (q \notin torn => OfOneCorpus(old)) /\ old.pc = "reply"
      /\ old \in RequestType
      /\ old.code # "persistence_failed" => traces[q] = <<TraceOf(old)>>
  BY <1>1 DEF IInv, Reply, At, Sound, Traced
<1>3. PICK answer : answer = ReplyOf(old, old.code) OBVIOUS
<1>4. PICK new : new = [old EXCEPT !.pc = "end"] OBVIOUS
<1>5. /\ requests' = [requests EXCEPT ![q] = new] /\ replies' = [replies EXCEPT ![q] = answer]
      /\ traces' = traces /\ torn' = torn /\ active' = active /\ deleted' = deleted
      /\ requests \in [Requests -> RequestType] /\ replies \in [Requests -> ReplyType]
  BY <1>1, <1>3, <1>4 DEF Reply, corpus, IInv, TypeOK
<1>6. ASSUME old.code = "ok"
      PROVE  /\ answer \in ReplyType /\ answer.kind = "answer"
             /\ traces[q] = <<[success |-> TRUE, code |-> "ok", context |-> answer.retrieved,
                               answer |-> answer.answer, citations |-> answer.citations,
                               cost |-> answer.cost]>>
             /\ Grounded(answer.answer, answer.citations, answer.retrieved)
  <2>1. /\ answer = [kind |-> "answer", code |-> "ok", answer |-> old.answer,
                     citations |-> old.citations, retrieved |-> old.context,
                     cost |-> CostKnown(old)]
    BY <1>3, <1>6 DEF ReplyOf
  <2>2. CostKnown(old) \in BOOLEAN BY DEF CostKnown
  <2>3. answer \in ReplyType BY <1>2, <2>1, <2>2 DEF ReplyType, RequestType, Codes
  <2>4. traces[q] = <<[success |-> TRUE, code |-> "ok", context |-> answer.retrieved,
                       answer |-> answer.answer, citations |-> answer.citations,
                       cost |-> answer.cost]>>
    BY <1>2, <1>6, <2>1 DEF TraceOf
  <2>5. Grounded(answer.answer, answer.citations, answer.retrieved)
    BY <1>2, <1>6, <2>1 DEF Sound
  <2> QED BY <2>1, <2>3, <2>4, <2>5
<1>7. ASSUME old.code # "ok"
      PROVE  /\ answer \in ReplyType /\ answer.kind = "error"
             /\ answer.code \notin Untraced =>
                  Len(traces[q]) = 1 /\ ~traces[q][1].success /\ traces[q][1].code = answer.code
  <2>1. answer = [NoReply EXCEPT !.kind = "error", !.code = old.code] BY <1>3, <1>7 DEF ReplyOf
  <2>2. answer \in ReplyType /\ answer.kind = "error" /\ answer.code = old.code
    BY <1>2, <2>1, EmptyTexts DEF ReplyType, NoReply, RequestType
  <2>3. ASSUME old.code \notin Untraced
        PROVE  Len(traces[q]) = 1 /\ ~traces[q][1].success /\ traces[q][1].code = old.code
    <3>1. PICK t : t = TraceOf(old) OBVIOUS
    <3>2. traces[q] = <<t>> BY <1>2, <2>3, <3>1 DEF Untraced
    <3>3. ~t.success /\ t.code = old.code BY <1>2, <1>7, <3>1, TraceTyped
    <3> QED BY <3>2, <3>3
  <2> QED BY <2>2, <2>3
<1>8. /\ answer \in ReplyType
      /\ answer.kind = "answer" =>
           /\ traces[q] = <<[success |-> TRUE, code |-> "ok", context |-> answer.retrieved,
                             answer |-> answer.answer, citations |-> answer.citations,
                             cost |-> answer.cost]>>
           /\ Grounded(answer.answer, answer.citations, answer.retrieved)
      /\ answer.kind = "error" /\ answer.code \notin Untraced =>
           Len(traces[q]) = 1 /\ ~traces[q][1].success /\ traces[q][1].code = answer.code
  BY <1>6, <1>7
<1>9. /\ new \in RequestType /\ new.pc = "end"
      /\ new.evidence = old.evidence /\ new.context = old.context
  BY <1>2, <1>4 DEF RequestType
<1>10. Sound(new) /\ (q \notin torn => OfOneCorpus(new)')
  BY <1>2, <1>9 DEF Sound, OfOneCorpus, Working
<1>11. /\ requests'[q] = new /\ replies'[q] = answer
       /\ \A p \in Requests : p # q => requests'[p] = requests[p] /\ replies'[p] = replies[p]
       /\ requests' \in [Requests -> RequestType] /\ replies' \in [Requests -> ReplyType]
  BY <1>5, <1>8, <1>9
<1>12. TypeOK' BY <1>5, <1>11 DEF IInv, TypeOK
<1>13. ASSUME NEW p \in Requests
       PROVE  /\ Sound(requests[p])' /\ (p \notin torn => OfOneCorpus(requests[p]))'
              /\ Traced(p)'
  <2>1. CASE p = q
    <3>1. Traced(q)' BY <1>5, <1>8, <1>9, <1>11 DEF Traced, Answered
    <3> QED BY <2>1, <3>1, <1>5, <1>10, <1>11
  <2>2. CASE p # q
    <3>1. Sound(requests[p]) /\ (p \notin torn => OfOneCorpus(requests[p])) /\ Traced(p)
      BY DEF IInv
    <3>2. OfOneCorpus(requests[p]) => OfOneCorpus(requests[p])'
      BY <2>2, <1>5, <1>11 DEF OfOneCorpus, Searchable
    <3> QED BY <2>2, <3>1, <3>2, <1>5, <1>11 DEF Traced, Answered
  <2> QED BY <2>1, <2>2
<1> QED BY <1>12, <1>13 DEF IInv

(* The corpus moves: requests between their two branches are torn.         *)
LEMMA CorpusKeeps ==
  ASSUME IInv, (\E r \in Revisions : Publish(r)) \/ (\E d \in Docs : Delete(d))
  PROVE  IInv'
<1>1. /\ torn' = torn \cup {q \in Requests : requests[q].pc = "text"}
      /\ requests' = requests /\ traces' = traces /\ replies' = replies
  BY DEF Publish, Delete, Moves
<1>2. active' \in [Docs -> Revisions \cup {0}] /\ deleted' \subseteq Docs
  <2>1. ASSUME NEW r \in Revisions, Publish(r)
        PROVE  active' \in [Docs -> Revisions \cup {0}] /\ deleted' \subseteq Docs
    BY <2>1 DEF Publish, IInv, TypeOK
  <2>2. ASSUME NEW d \in Docs, Delete(d)
        PROVE  active' \in [Docs -> Revisions \cup {0}] /\ deleted' \subseteq Docs
    BY <2>2 DEF Delete, IInv, TypeOK
  <2> QED BY <2>1, <2>2
<1>3. TypeOK' BY <1>1, <1>2 DEF IInv, TypeOK
<1>4. ASSUME NEW p \in Requests
      PROVE  /\ Sound(requests[p])' /\ (p \notin torn => OfOneCorpus(requests[p]))'
             /\ Traced(p)'
  <2>1. Sound(requests[p]) /\ (p \notin torn => OfOneCorpus(requests[p])) /\ Traced(p)
    BY DEF IInv
  <2>2. (p \notin torn => OfOneCorpus(requests[p]))' BY <1>1, <2>1 DEF OfOneCorpus
  <2> QED BY <1>1, <2>1, <2>2 DEF Traced, Answered
<1> QED BY <1>3, <1>4 DEF IInv

LEMMA InvStep == IInv /\ [Next]_vars => IInv'
<1> SUFFICES ASSUME IInv, [Next]_vars PROVE IInv' OBVIOUS
<1>1. CASE UNCHANGED vars
  <2>1. TypeOK' BY <1>1 DEF vars, IInv, TypeOK
  <2>2. ASSUME NEW p \in Requests
        PROVE  /\ Sound(requests[p])' /\ (p \notin torn => OfOneCorpus(requests[p]))'
               /\ Traced(p)'
    <3>1. Sound(requests[p]) /\ (p \notin torn => OfOneCorpus(requests[p])) /\ Traced(p)
      BY DEF IInv
    <3> QED BY <1>1, <3>1 DEF vars, Traced, Answered, OfOneCorpus, Searchable
  <2> QED BY <2>1, <2>2 DEF IInv
<1>2. CASE Next
  BY <1>2, CorpusKeeps, BeginKeeps, EmbedKeeps, VectorKeeps, TextKeeps, BoundaryKeeps, RerankKeeps,
     PromptKeeps, GenerateKeeps, CiteKeeps, PersistKeeps, ReplyKeeps, EndKeeps DEF Next
<1> QED BY <1>1, <1>2

LEMMA Invariance == Spec => []IInv
  BY InvInit, InvStep, PTL DEF Spec
----------------------------------------------------------------------------
(* Requests, traces and replies keep their types, for every corpus.        *)
THEOREM TypeCorrect == Spec => []TypeOK
<1>1. IInv => TypeOK BY DEF IInv
<1> QED BY <1>1, Invariance, PTL

(* Every executed outcome produces a correlated trace (rag/pipeline.go:    *)
(* persistTrace): an answer is told only with the one trace that holds it, *)
(* though a commit may be lost or unheard and the API may die.             *)
THEOREM ReplyAlwaysTraced == Spec => []ReplyIsTraced
<1>1. IInv => ReplyIsTraced BY DEF IInv, Traced, ReplyIsTraced
<1> QED BY <1>1, Invariance, PTL

(* An answer cites what it was given, each chunk once, whatever the model  *)
(* and the reranker say (citations.go: mapCitations).                      *)
THEOREM CitationsAlwaysGrounded == Spec => []CitationsGrounded
<1>1. IInv => CitationsGrounded BY DEF IInv, Traced, CitationsGrounded, Grounded
<1> QED BY <1>1, Invariance, PTL

(* The context is the best-ranked evidence as far as the budget goes       *)
(* (prompt.go: SelectContext), for every budget and every chunk sizes.     *)
THEOREM ContextAlwaysRanked == Spec => []ContextIsRanked
<1>1. IInv => ContextIsRanked
  <2> SUFFICES ASSUME IInv, NEW q \in Requests, requests[q].pc \in {"generate", "cite"}
               PROVE  Ranked(requests[q].evidence, requests[q].context)
                      /\ Len(requests[q].context) <= requests[q].config.topK
    BY DEF ContextIsRanked, Ranked
  <2>1. PICK req : req = requests[q] OBVIOUS
  <2>2. /\ Ranked(req.evidence, req.context) /\ Len(req.evidence) <= req.config.topK
        /\ req \in RequestType /\ req.config \in Configs
    BY <2>1 DEF IInv, Sound, Working
  <2>3. PICK m \in Nat, n \in Nat, k \in Nat :
          m = Len(req.context) /\ n = Len(req.evidence) /\ k = req.config.topK
    BY <2>2, Elements, ConfigFacts DEF RequestType
  <2>4. m <= n /\ n <= k BY <2>2, <2>3 DEF Ranked
  <2>5. m <= k BY <2>4
  <2> QED BY <2>1, <2>2, <2>3, <2>5
<1> QED BY <1>1, Invariance, PTL

(* A context holds one revision of a document, unless the corpus moved     *)
(* between the two statements of a hybrid retrieval (retrieval.go).        *)
THEOREM AlwaysOneRevisionPerDocument == Spec => []OneRevisionPerDocument
<1>1. IInv => OneRevisionPerDocument BY DEF IInv, OfOneCorpus, Single, OneRevisionPerDocument
<1> QED BY <1>1, Invariance, PTL

LEMMA FuseKeepsOrder ==
  ASSUME NEW near \in Seq(Chunks), NEW match \in Seq(Chunks), NEW k \in Nat, k > 0,
         NEW limit \in Nat, NEW a, NEW b \in ToSet(Fuse(near, match, k, limit)),
         Above(near, a, b), Above(match, a, b)
  PROVE  LET fused == Fuse(near, match, k, limit)
         IN Rank(fused, a) > 0 /\ Rank(fused, a) < Rank(fused, b)
<1> DEFINE hits == ToSet(near) \cup ToSet(match)
           all == Ranking(near, match, k)
           fused == Fuse(near, match, k, limit)
<1>1. /\ all \in Seq(Chunks) /\ ToSet(all) = hits /\ IsInjective(all)
      /\ \A i, j \in 1..Len(all) : i < j => Precedes(near, match, k, all[i], all[j])
      /\ fused = FirstOf(all, limit) /\ fused \in Seq(Chunks) /\ IsInjective(fused)
      /\ ToSet(fused) \subseteq hits
  BY FuseFacts
<1>2. a \in hits /\ b \in hits BY <1>1, RankFacts DEF Above
<1>3. Higher(Score(near, match, k, a), Score(near, match, k, b)) BY <1>2, AboveScoresHigher
<1>4. ~Precedes(near, match, k, b, a) /\ a # b
  <2>1. /\ Score(near, match, k, a) \in Fraction /\ Score(near, match, k, b) \in Fraction
    BY ScoreFacts
  <2>2. ~Higher(Score(near, match, k, b), Score(near, match, k, a)) BY <1>3, <2>1, HigherFacts
  <2> QED BY <1>3, <2>2 DEF Precedes
<1>5. PICK len \in Nat, flen \in Nat : len = Len(all) /\ flen = Len(fused) BY <1>1, Elements
<1> HIDE DEF all, hits, fused
<1>6. /\ ToSet(all) = {all[i] : i \in 1..len} /\ ToSet(fused) = {fused[i] : i \in 1..flen}
      /\ DOMAIN all = 1..len
  BY <1>1, <1>5, Elements
<1>7. PICK i \in 1..len : all[i] = a BY <1>1, <1>2, <1>6
<1>8. PICK j \in 1..flen : fused[j] = b BY <1>6 DEF fused
<1>9. /\ flen = (IF limit < len THEN limit ELSE len)
      /\ \A l \in 1..flen : fused[l] = all[l]
  BY <1>1, <1>5, Prefix
<1>10. j \in 1..len /\ all[j] = b BY <1>8, <1>9
<1>11. i < j
  <2>1. i # j BY <1>4, <1>7, <1>10
  <2>2. j < i => Precedes(near, match, k, b, a) BY <1>1, <1>5, <1>7, <1>10
  <2> QED BY <1>4, <1>7, <1>10, <2>1, <2>2
<1>12. i \in 1..flen /\ fused[i] = a BY <1>7, <1>8, <1>9, <1>11
<1>13. Rank(fused, a) = i /\ Rank(fused, b) = j BY <1>1, <1>5, <1>8, <1>12, RankOfPlace
<1> QED BY <1>11, <1>12, <1>13 DEF fused

(* Only RetrieveText leads from its point to a reranker or a prompt.       *)
LEMMA TextStep ==
  ASSUME IInv, Next, NEW q \in Requests, requests[q].pc = "text",
         requests'[q].pc \in {"rerank", "prompt"}
  PROVE  requests'[q].evidence =
           Fuse(requests[q].near,
                Branch(Matches, Searchable(requests[q].config), requests[q].config.textLimit),
                requests[q].config.k, CandidateLimit(requests[q].config))
<1>0. requests \in [Requests -> RequestType] BY DEF IInv, TypeOK
<1> DEFINE Goal == requests'[q].evidence =
              Fuse(requests[q].near,
                   Branch(Matches, Searchable(requests[q].config), requests[q].config.textLimit),
                   requests[q].config.k, CandidateLimit(requests[q].config))
<1>1. ASSUME (\E r \in Revisions : Publish(r)) \/ (\E d \in Docs : Delete(d)) PROVE Goal
  BY <1>1 DEF Publish, Delete
<1>2. ASSUME NEW p \in Requests, NEW new, requests' = [requests EXCEPT ![p] = new]
      PROVE  p = q /\ requests'[q] = new
  BY <1>0, <1>2
<1>3. ASSUME NEW p \in Requests, NEW new, requests' = [requests EXCEPT ![p] = new],
             new.pc \notin {"rerank", "prompt"} \/ requests[p].pc # "text"
      PROVE  Goal
  BY <1>2, <1>3
<1>4. ASSUME NEW p \in Requests, NEW code, Fail(p, code) PROVE Goal
  <2>1. PICK new : new = [requests[p] EXCEPT !.pc = "persist", !.code = code] OBVIOUS
  <2>2. requests' = [requests EXCEPT ![p] = new] BY <1>4, <2>1 DEF Fail, Set
  <2>3. new.pc = "persist" BY <1>0, <2>1 DEF RequestType
  <2> QED BY <1>3, <2>2, <2>3
<1>5. ASSUME NEW p \in Requests, requests[p].pc # "text", NEW new,
             requests' = [requests EXCEPT ![p] = new]
      PROVE  Goal
  BY <1>3, <1>5
<1>6. ASSUME NEW p \in Requests, RetrieveText(p) PROVE Goal
  <2>1. CASE Fail(p, "retrieval_failed") BY <1>4, <2>1
  <2>2. CASE ~Fail(p, "retrieval_failed")
    <3>1. PICK old : old = requests[p] /\ old \in RequestType BY <1>0
    <3>2. PICK fused : fused =
            Fuse(old.near, Branch(Matches, Searchable(old.config), old.config.textLimit),
                 old.config.k, CandidateLimit(old.config))
      OBVIOUS
    <3>3. PICK new : new = [old EXCEPT !.evidence = fused, !.pc = AfterRetrieval(old.config)]
      OBVIOUS
    <3>4. requests' = [requests EXCEPT ![p] = new]
      BY <1>6, <2>2, <3>1, <3>2, <3>3 DEF RetrieveText, Set
    <3>5. p = q /\ requests'[q] = new BY <1>2, <3>4
    <3>6. new.evidence = fused BY <3>1, <3>3 DEF RequestType
    <3> QED BY <3>1, <3>2, <3>5, <3>6
  <2> QED BY <2>1, <2>2
<1>7. ASSUME NEW p \in Requests, RequestDies(p) PROVE Goal
  <2>1. PICK new : new = [Idle EXCEPT !.pc = "end"] OBVIOUS
  <2>2. requests' = [requests EXCEPT ![p] = new] BY <1>7, <2>1 DEF RequestDies, Set
  <2>3. new.pc = "end" BY <2>1 DEF Idle
  <2> QED BY <1>3, <2>2, <2>3
<1>8. ASSUME NEW p \in Requests,
             (\E g \in Configs : Begin(p, g)) \/ EmbedQuestion(p) \/ RetrieveVector(p)
             \/ ClassifyBoundary(p) \/ Rerank(p) \/ BuildPrompt(p) \/ Generate(p)
             \/ MapCitations(p) \/ Persist(p) \/ Reply(p)
      PROVE  Goal
  <2>1. requests[p].pc # "text"
    BY <1>8 DEF Begin, EmbedQuestion, RetrieveVector, ClassifyBoundary, Rerank, BuildPrompt,
                Generate, MapCitations, Persist, Reply, At
  <2>2. \A r \in Requests : r # p => requests'[r] = requests[r]
    <3>1. ASSUME \E g \in Configs : Begin(p, g) PROVE \A r \in Requests : r # p => requests'[r] = requests[r]
      BY <1>0, <3>1 DEF Begin, Set
    <3>2. ASSUME EmbedQuestion(p) \/ RetrieveVector(p) \/ ClassifyBoundary(p)
          PROVE  \A r \in Requests : r # p => requests'[r] = requests[r]
      BY <1>0, <3>2 DEF EmbedQuestion, RetrieveVector, ClassifyBoundary, Set, Fail
    <3>3. ASSUME Rerank(p) \/ BuildPrompt(p) PROVE \A r \in Requests : r # p => requests'[r] = requests[r]
      BY <1>0, <3>3 DEF Rerank, BuildPrompt, Set, Fail
    <3>4. ASSUME Generate(p) \/ MapCitations(p) PROVE \A r \in Requests : r # p => requests'[r] = requests[r]
      BY <1>0, <3>4 DEF Generate, MapCitations, Set
    <3>5. ASSUME Persist(p) \/ Reply(p) PROVE \A r \in Requests : r # p => requests'[r] = requests[r]
      BY <1>0, <3>5 DEF Persist, Reply
    <3> QED BY <1>8, <3>1, <3>2, <3>3, <3>4, <3>5
  <2>3. q # p BY <2>1
  <2> QED BY <2>2, <2>3
<1> QED BY <1>1, <1>6, <1>7, <1>8 DEF Next

(* fuseHybrid drops or demotes no chunk that both branches put above       *)
(* another one of its evidence, for every rank constant and limit.         *)
THEOREM FusionAlwaysKeepsOrder == Spec => FusionKeepsOrder
<1> DEFINE A == \A q \in Requests :
       At(q, "text") /\ requests'[q].pc \in {"rerank", "prompt"} =>
         LET g == requests[q].config
             fused == requests'[q].evidence
         IN \A a \in Chunks, b \in ToSet(fused) :
              /\ Rank(requests[q].near, a) > 0
              /\ Rank(requests[q].near, b) = 0 \/ Rank(requests[q].near, a) < Rank(requests[q].near, b)
              /\ Beats(Matches, Searchable(g), g.textLimit, a, b)
              => Rank(fused, a) > 0 /\ Rank(fused, a) < Rank(fused, b)
<1>1. IInv /\ [Next]_vars => [A]_vars
  <2> SUFFICES ASSUME IInv, Next, NEW q \in Requests, At(q, "text"),
                      requests'[q].pc \in {"rerank", "prompt"},
                      NEW a \in Chunks, NEW b \in ToSet(requests'[q].evidence),
                      Above(requests[q].near, a, b),
                      Beats(Matches, Searchable(requests[q].config),
                            requests[q].config.textLimit, a, b)
               PROVE  /\ Rank(requests'[q].evidence, a) > 0
                      /\ Rank(requests'[q].evidence, a) < Rank(requests'[q].evidence, b)
    BY DEF Above
  <2>1. PICK old : old = requests[q] OBVIOUS
  <2>2. /\ old.near \in Seq(Chunks) /\ old.config \in Configs /\ old.pc = "text"
    BY <2>1 DEF IInv, At, Sound, Working, RequestType
  <2>3. PICK match : match = Branch(Matches, Searchable(old.config), old.config.textLimit) OBVIOUS
  <2>4. /\ old.config.k \in Nat /\ old.config.k > 0 /\ old.config.textLimit \in Nat
        /\ CandidateLimit(old.config) \in Nat
    BY <2>2, ConfigFacts
  <2>5. match \in Seq(Chunks) BY <2>3, <2>4, CorpusAssumption, BranchFacts
  <2>6. requests'[q].evidence = Fuse(old.near, match, old.config.k, CandidateLimit(old.config))
    BY <2>1, <2>2, <2>3, TextStep
  <2>7. Above(old.near, a, b) /\ Above(match, a, b) BY <2>1, <2>3 DEF Beats, Above
  <2> QED BY <2>2, <2>4, <2>5, <2>6, <2>7, FuseKeepsOrder
<1> QED BY <1>1, Invariance, PTL DEF Spec, FusionKeepsOrder
=============================================================================
