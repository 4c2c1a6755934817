--------------------------- MODULE ContentProofs ----------------------------
(***************************************************************************)
(* What normalize and chunk guarantee for every source a parser may        *)
(* return, every chunk size and overlap: first what the recursive          *)
(* functions of Normalizing compute, then chunking on its own, then both   *)
(* stages.                                                                 *)
(***************************************************************************)
EXTENDS Content, FiniteSetTheorems, SequenceTheorems, WellFoundedInduction, TLAPS

(* ------------------------------ Induction ------------------------------ *)

LEMMA Least ==
  ASSUME NEW S, S \subseteq Nat, S # {}
  PROVE  \E x \in S : \A y \in S : x <= y
<1> DEFINE R == {ss \in Nat \X Nat : ss[1] < ss[2]}
<1>1. IsWellFoundedOn(R, Nat) BY NatLessThanWellFounded DEF OpToRel
<1> HIDE DEF R
<1>2. PICK x \in S : \A y \in S : ~(<<y, x>> \in R) BY <1>1, WFMin
<1>3. \A y \in S : ~(y < x) BY <1>2 DEF R
<1> QED BY <1>3

(* A set that has 0, and with a number the next, has all up to n.          *)
LEMMA Reached ==
  ASSUME NEW n \in Nat, NEW S, 0 \in S, \A i \in 1..n : i - 1 \in S => i \in S
  PROVE  0..n \subseteq S
<1> SUFFICES ASSUME NEW j \in 0..n, j \notin S PROVE FALSE OBVIOUS
<1> DEFINE Missed == {i \in 0..n : i \notin S}
<1>1. PICK x \in Missed : \A y \in Missed : x <= y
  <2>1. Missed \subseteq Nat /\ Missed # {} OBVIOUS
  <2> HIDE DEF Missed
  <2> QED BY <2>1, Least
<1>2. x # 0 /\ x \in 1..n /\ x - 1 \in 0..n OBVIOUS
<1>3. x - 1 \in S
  <2>1. ~(x <= x - 1) BY <1>2
  <2> QED BY <1>1, <1>2, <2>1
<1> QED BY <1>1, <1>2, <1>3

(* f holds what a loop of this step has computed after every turn.         *)
Turns(f, step, a, n) == f[0] = a /\ \A i \in 1..n : f[i] = step[<<f[i - 1], i>>]

LEMMA Recursion ==
  ASSUME NEW A, NEW a \in A, NEW n \in Nat, NEW step \in [A \X (1..n) -> A]
  PROVE  \E f \in [0..n -> A] : Turns(f, step, a, n)
<1> DEFINE Upto(k) == \E f \in [0..k -> A] : Turns(f, step, a, k)
           S == {k \in 0..n : Upto(k)}
<1>1. Upto(0)
  <2> DEFINE f == [k \in 0..0 |-> a]
  <2>1. f \in [0..0 -> A] /\ f[0] = a /\ 1..0 = {} OBVIOUS
  <2> HIDE DEF f
  <2> QED BY <2>1 DEF Turns
<1>2. ASSUME NEW k \in 1..n, Upto(k - 1) PROVE Upto(k)
  <2>1. PICK f \in [0..k - 1 -> A] : Turns(f, step, a, k - 1) BY <1>2
  <2> DEFINE g == [i \in 0..k |-> IF i = k THEN step[<<f[k - 1], k>>] ELSE f[i]]
  <2>2. f[k - 1] \in A OBVIOUS
  <2>3. step[<<f[k - 1], k>>] \in A BY <2>2
  <2>4. \A i \in 0..k : i # k => i \in 0..k - 1 OBVIOUS
  <2>5. g \in [0..k -> A] BY <2>3, <2>4
  <2>6. g[0] = a BY <2>1 DEF Turns
  <2>7. ASSUME NEW i \in 1..k PROVE g[i] = step[<<g[i - 1], i>>]
    <3>1. i - 1 \in 0..k /\ i - 1 # k OBVIOUS
    <3>2. g[i - 1] = f[i - 1] BY <3>1
    <3>3. i # k => i \in 1..k - 1 OBVIOUS
    <3>4. CASE i = k
      <4>1. g[k] = step[<<f[k - 1], k>>] OBVIOUS
      <4> HIDE DEF g
      <4> QED BY <3>2, <3>4, <4>1
    <3>5. CASE i # k
      <4>1. g[i] = f[i] BY <3>5
      <4> HIDE DEF g
      <4> QED BY <2>1, <3>2, <3>3, <3>5, <4>1 DEF Turns
    <3> QED BY <3>4, <3>5
  <2> HIDE DEF g
  <2> QED BY <2>5, <2>6, <2>7 DEF Turns
<1> HIDE DEF Upto
<1>3. 0 \in S BY <1>1
<1>4. \A k \in 1..n : k - 1 \in S => k \in S BY <1>2
<1>5. n \in S
  <2> HIDE DEF S
  <2>1. 0..n \subseteq S BY <1>3, <1>4, Reached
  <2> QED BY <2>1
<1> QED BY <1>5 DEF Upto

(* --------------------------- Characters -------------------------------- *)

Texts == Seq(TextChars)

(* No blank at either end and no two together.                             *)
Neat(s) ==
  \A k \in DOMAIN s : s[k] = "blank" => /\ k > 1 /\ k < Len(s)
                                        /\ s[k - 1] = "visible" /\ s[k + 1] = "visible"

LEMMA ShortTexts ==
  /\ <<>> \in Texts /\ <<"blank">> \in Texts /\ <<"visible">> \in Texts
  /\ Neat(<<>>) /\ Neat(<<"visible">>)
  /\ Len(<<"blank">>) = 1 /\ Len(<<"visible">>) = 1
  /\ Visibles(<<>>) = {} /\ Visibles(<<"blank">>) = {} /\ Visibles(<<"visible">>) = {1}
<1>1. <<"blank">> \in Seq({"visible", "blank"}) /\ <<"visible">> \in Seq({"visible", "blank"})
  OBVIOUS
<1> QED BY <1>1, EmptySeq DEF Texts, TextChars, Neat, Visibles

LEMMA Concat ==
  ASSUME NEW s \in Texts, NEW t \in Texts
  PROVE  /\ s \o t \in Texts /\ Len(s) \in Nat /\ Len(t) \in Nat
         /\ DOMAIN s = 1..Len(s) /\ DOMAIN t = 1..Len(t)
         /\ Len(s \o t) = Len(s) + Len(t) /\ DOMAIN (s \o t) = 1..Len(s) + Len(t)
         /\ \A i \in 1..Len(s) : (s \o t)[i] = s[i]
         /\ \A i \in 1..Len(t) : (s \o t)[Len(s) + i] = t[i]
<1>1. /\ s \o t \in Texts /\ Len(s \o t) = Len(s) + Len(t)
      /\ \A i \in 1..Len(s) + Len(t) : (s \o t)[i] = IF i <= Len(s) THEN s[i] ELSE t[i - Len(s)]
  BY ConcatProperties DEF Texts
<1>2. Len(s) \in Nat /\ Len(t) \in Nat /\ DOMAIN s = 1..Len(s) /\ DOMAIN t = 1..Len(t)
  BY LenProperties DEF Texts
<1>3. DOMAIN (s \o t) = 1..Len(s) + Len(t) BY <1>1, LenProperties DEF Texts
<1>4. \A i \in 1..Len(s) : (s \o t)[i] = s[i] BY <1>1, <1>2
<1>5. ASSUME NEW i \in 1..Len(t) PROVE (s \o t)[Len(s) + i] = t[i]
  <2>1. Len(s) + i \in 1..Len(s) + Len(t) /\ ~(Len(s) + i <= Len(s)) /\ (Len(s) + i) - Len(s) = i
    BY <1>2
  <2> QED BY <1>1, <2>1
<1> QED BY <1>1, <1>2, <1>3, <1>4, <1>5

LEMMA Disjoint ==
  ASSUME NEW S, NEW T, IsFiniteSet(S), IsFiniteSet(T), S \cap T = {}
  PROVE  /\ IsFiniteSet(S \cup T) /\ Cardinality(S) \in Nat /\ Cardinality(T) \in Nat
         /\ Cardinality(S \cup T) = Cardinality(S) + Cardinality(T)
<1>1. IsFiniteSet(S \cap T) /\ Cardinality(S \cap T) = 0 BY FS_EmptySet
<1>2. Cardinality(S) \in Nat /\ Cardinality(T) \in Nat BY FS_CardinalityType
<1>3. /\ IsFiniteSet(S \cup T)
      /\ Cardinality(S \cup T) = Cardinality(S) + Cardinality(T) - Cardinality(S \cap T)
  BY FS_Union
<1> QED BY <1>1, <1>2, <1>3

LEMMA VisiblesFinite ==
  ASSUME NEW T, NEW s \in Seq(T)
  PROVE  /\ IsFiniteSet(Visibles(s)) /\ Visibles(s) \subseteq 1..Len(s)
         /\ Cardinality(Visibles(s)) \in Nat
<1>1. Len(s) \in Nat /\ DOMAIN s = 1..Len(s) BY LenProperties
<1>2. IsFiniteSet(1..Len(s)) BY <1>1, FS_Interval
<1>3. Visibles(s) \subseteq 1..Len(s) BY <1>1 DEF Visibles
<1> QED BY <1>2, <1>3, FS_Subset, FS_CardinalityType

LEMMA ConcatVisibles ==
  ASSUME NEW s \in Texts, NEW t \in Texts
  PROVE  Cardinality(Visibles(s \o t)) = Cardinality(Visibles(s)) + Cardinality(Visibles(t))
<1> DEFINE Moved == {Len(s) + i : i \in Visibles(t)}
           f == [i \in Visibles(t) |-> Len(s) + i]
<1>1. /\ IsFiniteSet(Visibles(s)) /\ Visibles(s) \subseteq 1..Len(s)
      /\ IsFiniteSet(Visibles(t)) /\ Visibles(t) \subseteq 1..Len(t)
  BY VisiblesFinite DEF Texts
<1>2. /\ Len(s) \in Nat /\ Len(t) \in Nat /\ DOMAIN (s \o t) = 1..Len(s) + Len(t)
      /\ DOMAIN s = 1..Len(s) /\ DOMAIN t = 1..Len(t)
      /\ \A i \in 1..Len(s) : (s \o t)[i] = s[i]
      /\ \A i \in 1..Len(t) : (s \o t)[Len(s) + i] = t[i]
  BY Concat
<1>3. f \in Bijection(Visibles(t), Moved)
  <2>1. \A i, j \in Visibles(t) : Len(s) + i = Len(s) + j => i = j BY <1>1, <1>2
  <2>2. f \in Surjection(Visibles(t), Moved) BY DEF Surjection
  <2>3. f \in Injection(Visibles(t), Moved)
    <3>1. f \in [Visibles(t) -> Moved] OBVIOUS
    <3>2. \A i, j \in Visibles(t) : f[i] = f[j] => i = j BY <2>1
    <3> HIDE DEF f, Moved
    <3> QED BY <3>1, <3>2 DEF Injection, IsInjective
  <2> QED BY <2>2, <2>3 DEF Bijection
<1>4. IsFiniteSet(Moved) /\ Cardinality(Moved) = Cardinality(Visibles(t))
  <2>1. ExistsBijection(Visibles(t), Moved) BY <1>3 DEF ExistsBijection
  <2> HIDE DEF Moved
  <2> QED BY <1>1, <2>1, FS_Bijection
<1>5. Visibles(s) \cap Moved = {} BY <1>1, <1>2
<1>6. Visibles(s \o t) = Visibles(s) \cup Moved
  <2>1. ASSUME NEW i \in Visibles(s \o t) PROVE i \in Visibles(s) \cup Moved
    <3>1. i \in 1..Len(s) + Len(t) /\ (s \o t)[i] = "visible" BY <1>2 DEF Visibles
    <3>2. CASE i <= Len(s) BY <1>2, <3>1, <3>2 DEF Visibles
    <3>3. CASE i > Len(s)
      <4>1. i - Len(s) \in 1..Len(t) /\ i = Len(s) + (i - Len(s)) BY <1>2, <3>1, <3>3
      <4>2. t[i - Len(s)] = "visible" BY <1>2, <3>1, <4>1
      <4> QED BY <1>2, <4>1, <4>2 DEF Visibles
    <3> QED BY <1>2, <3>1, <3>2, <3>3
  <2>2. ASSUME NEW i \in Visibles(s) PROVE i \in Visibles(s \o t)
    BY <1>1, <1>2 DEF Visibles
  <2>3. ASSUME NEW i \in Visibles(t) PROVE Len(s) + i \in Visibles(s \o t)
    <3>1. i \in 1..Len(t) /\ t[i] = "visible" BY <1>2 DEF Visibles
    <3>2. Len(s) + i \in 1..Len(s) + Len(t) BY <1>2, <3>1
    <3> QED BY <1>2, <3>1, <3>2 DEF Visibles
  <2> QED BY <2>1, <2>2, <2>3
<1> HIDE DEF Moved
<1> QED BY <1>1, <1>4, <1>5, <1>6, Disjoint

LEMMA NeatEnds ==
  ASSUME NEW s \in Texts, Neat(s), s # <<>>
  PROVE  Len(s) \in Nat \ {0} /\ s[1] = "visible" /\ s[Len(s)] = "visible"
<1>1. Len(s) \in Nat \ {0} /\ DOMAIN s = 1..Len(s) BY EmptySeq, LenProperties DEF Texts
<1>2. s[1] \in {"visible", "blank"} /\ s[Len(s)] \in {"visible", "blank"}
  BY <1>1, ElementOfSeq DEF Texts, TextChars
<1>3. 1 \in DOMAIN s /\ Len(s) \in DOMAIN s /\ ~(1 > 1) /\ ~(Len(s) < Len(s)) BY <1>1
<1>4. s[1] # "blank" /\ s[Len(s)] # "blank" BY <1>3 DEF Neat
<1> QED BY <1>1, <1>2, <1>4

(* Neat texts put after one another are neat, with or without a blank      *)
(* between them.                                                           *)
LEMMA Glued ==
  ASSUME NEW s \in Texts, Neat(s), s # <<>>, NEW t \in Texts, Neat(t), t # <<>>
  PROVE  Neat(s \o t) /\ Neat(s \o <<"blank">> \o t)
<1> DEFINE n == Len(s)  m == Len(t)
<1>1. /\ n \in Nat \ {0} /\ s[1] = "visible" /\ s[n] = "visible"
      /\ m \in Nat \ {0} /\ t[1] = "visible" /\ t[m] = "visible"
  BY NeatEnds
<1>2. Neat(s \o t)
  <2> DEFINE u == s \o t
  <2>1. /\ DOMAIN s = 1..n /\ DOMAIN t = 1..m /\ Len(u) = n + m /\ DOMAIN u = 1..n + m
        /\ \A i \in 1..n : u[i] = s[i]
        /\ \A i \in 1..m : u[n + i] = t[i]
    BY Concat
  <2> HIDE DEF u
  <2> SUFFICES ASSUME NEW k \in 1..n + m, u[k] = "blank"
               PROVE  /\ k > 1 /\ k < n + m
                      /\ u[k - 1] = "visible" /\ u[k + 1] = "visible"
    BY <2>1 DEF Neat, u
  <2> HIDE DEF n, m
  <2>2. CASE k <= n
    <3>1. k \in 1..n /\ s[k] = "blank" BY <1>1, <2>1, <2>2
    <3>2. /\ k > 1 /\ k < n /\ s[k - 1] = "visible" /\ s[k + 1] = "visible"
      BY <2>1, <3>1 DEF Neat, n
    <3>3. k - 1 \in 1..n /\ k + 1 \in 1..n BY <1>1, <3>1, <3>2
    <3> QED BY <1>1, <2>1, <3>2, <3>3
  <2>3. CASE k > n
    <3>1. k - n \in 1..m /\ k = n + (k - n) BY <1>1, <2>3
    <3>2. t[k - n] = "blank" BY <2>1, <3>1
    <3>3. /\ k - n > 1 /\ k - n < m /\ t[(k - n) - 1] = "visible" /\ t[(k - n) + 1] = "visible"
      BY <2>1, <3>1, <3>2 DEF Neat, m
    <3>4. /\ (k - n) - 1 \in 1..m /\ (k - n) + 1 \in 1..m
          /\ n + ((k - n) - 1) = k - 1 /\ n + ((k - n) + 1) = k + 1
      BY <1>1, <3>1, <3>3
    <3> QED BY <1>1, <2>1, <3>1, <3>3, <3>4
  <2> QED BY <1>1, <2>2, <2>3
<1>3. Neat(s \o <<"blank">> \o t)
  <2> DEFINE b == s \o <<"blank">>  u == b \o t
  <2>1. /\ b \in Texts /\ Len(b) = n + 1 /\ DOMAIN s = 1..n /\ DOMAIN t = 1..m
        /\ \A i \in 1..n : b[i] = s[i]
    BY ShortTexts, Concat
  <2>2. /\ Len(u) = (n + 1) + m /\ DOMAIN u = 1..(n + 1) + m
        /\ \A i \in 1..n + 1 : u[i] = b[i]
        /\ \A i \in 1..m : u[(n + 1) + i] = t[i]
    <3> HIDE DEF b, n, m
    <3>1. /\ Len(u) = Len(b) + Len(t) /\ DOMAIN u = 1..Len(b) + Len(t)
          /\ \A i \in 1..Len(b) : u[i] = b[i]
          /\ \A i \in 1..Len(t) : u[Len(b) + i] = t[i]
      BY <2>1, Concat
    <3> HIDE DEF u
    <3> QED BY <2>1, <3>1 DEF m
  <2>3. \A i \in 1..n : u[i] = s[i]
    <3> HIDE DEF b, u
    <3> QED BY <1>1, <2>1, <2>2
  <2> HIDE DEF u
  <2> SUFFICES ASSUME NEW k \in 1..(n + 1) + m, u[k] = "blank"
               PROVE  /\ k > 1 /\ k < (n + 1) + m
                      /\ u[k - 1] = "visible" /\ u[k + 1] = "visible"
    BY <2>2 DEF Neat, u
  <2> HIDE DEF n, m, b
  <2>4. CASE k <= n
    <3>1. k \in 1..n /\ s[k] = "blank" BY <1>1, <2>3, <2>4
    <3>2. /\ k > 1 /\ k < n /\ s[k - 1] = "visible" /\ s[k + 1] = "visible"
      BY <2>1, <3>1 DEF Neat, n
    <3>3. k - 1 \in 1..n /\ k + 1 \in 1..n BY <1>1, <3>1, <3>2
    <3> QED BY <1>1, <2>3, <3>2, <3>3
  <2>5. CASE k = n + 1
    <3>1. u[n] = "visible" BY <1>1, <2>3
    <3>2. u[(n + 1) + 1] = "visible" BY <1>1, <2>2
    <3> QED BY <1>1, <2>5, <3>1, <3>2
  <2>6. CASE k > n + 1
    <3> DEFINE j == k - (n + 1)
    <3>1. j \in 1..m /\ k = (n + 1) + j BY <1>1, <2>6
    <3> HIDE DEF j
    <3>2. t[j] = "blank" BY <2>2, <3>1
    <3>3. j > 1 /\ j < m /\ t[j - 1] = "visible" /\ t[j + 1] = "visible"
      BY <2>1, <3>1, <3>2 DEF Neat, m
    <3>4. /\ j - 1 \in 1..m /\ j + 1 \in 1..m
          /\ (n + 1) + (j - 1) = k - 1 /\ (n + 1) + (j + 1) = k + 1
      BY <1>1, <3>1, <3>3
    <3> QED BY <1>1, <2>2, <3>1, <3>3, <3>4
  <2> QED BY <1>1, <2>4, <2>5, <2>6
<1> QED BY <1>2, <1>3

(* ------------------------- normalize_text, join ------------------------ *)

Cleaning == [clean : Texts, gap : BOOLEAN]
NoText == [clean |-> <<>>, gap |-> FALSE]

(* A cleaned text is neat, and a gap is only ever owed after a character.  *)
Cleaned(acc) ==
  /\ acc \in Cleaning /\ Neat(acc.clean)
  /\ acc.gap => acc.clean # <<>>

LEMMA CleanSteps ==
  ASSUME NEW acc, Cleaned(acc), NEW c \in Chars
  PROVE  /\ Cleaned(Clean(acc, c))
         /\ Cardinality(Visibles(Clean(acc, c).clean)) =
              Cardinality(Visibles(acc.clean)) + (IF c = "visible" THEN 1 ELSE 0)
<1> DEFINE s == acc.clean
<1>1. s \in Texts /\ acc = [clean |-> s, gap |-> acc.gap] /\ acc.gap \in BOOLEAN
  BY DEF Cleaned, Cleaning
<1>2. Cardinality(Visibles(s)) \in Nat BY <1>1, VisiblesFinite DEF Texts
<1>3. CASE c = "control" BY <1>2, <1>3 DEF Clean
<1>4. CASE c = "blank"
  <2>1. Clean(acc, c) = [clean |-> s, gap |-> s # <<>>]
    <3>1. Clean(acc, c) = [acc EXCEPT !.gap = acc.clean # <<>>] BY <1>4 DEF Clean
    <3> QED BY <1>1, <3>1
  <2>2. (s # <<>>) \in BOOLEAN /\ Neat(s) BY DEF Cleaned
  <2> HIDE DEF s
  <2>3. Cleaned(Clean(acc, c)) BY <1>1, <2>1, <2>2 DEF Cleaned, Cleaning
  <2>4. Clean(acc, c).clean = s BY <2>1
  <2> QED BY <1>2, <1>4, <2>3, <2>4 DEF s
<1>5. CASE c = "visible"
  <2> DEFINE one == <<"visible">>
             t == IF acc.gap THEN s \o <<"blank">> \o one ELSE s \o one
  <2>1. /\ one \in Texts /\ Neat(one) /\ one # <<>> /\ <<"blank">> \in Texts
        /\ Cardinality(Visibles(one)) = 1 /\ Cardinality(Visibles(<<"blank">>)) = 0
    <3>1. one # <<>> OBVIOUS
    <3> HIDE DEF one
    <3>2. Cardinality({1}) = 1 /\ Cardinality({}) = 0 BY FS_Singleton, FS_EmptySet
    <3> QED BY <3>1, <3>2, ShortTexts DEF one
  <2>2. Clean(acc, c) = [clean |-> t, gap |-> FALSE]
    <3>1. <<"blank", "visible">> = <<"blank">> \o <<"visible">> OBVIOUS
    <3>2. s \o (<<"blank">> \o <<"visible">>) = (s \o <<"blank">>) \o <<"visible">>
      BY <1>1, ShortTexts, ConcatAssociative DEF Texts
    <3>3. Clean(acc, c) = [clean |-> s \o (IF acc.gap THEN <<"blank", c>> ELSE <<c>>), gap |-> FALSE]
      BY <1>5 DEF Clean
    <3>4. s \o (IF acc.gap THEN <<"blank", c>> ELSE <<c>>) = t
      <4> HIDE DEF s
      <4>1. CASE acc.gap BY <1>5, <3>1, <3>2, <4>1
      <4>2. CASE ~acc.gap BY <1>5, <4>2
      <4> QED BY <4>1, <4>2
    <3> QED BY <3>3, <3>4
  <2>3. s \o <<"blank">> \in Texts /\ s \o one \in Texts /\ s \o <<"blank">> \o one \in Texts
    <3> HIDE DEF s, one
    <3>1. s \o <<"blank">> \in Texts BY <1>1, <2>1, Concat
    <3> QED BY <1>1, <2>1, <3>1, Concat
  <2>4. Neat(t)
    <3>1. CASE s = <<>>
      <4>1. ~acc.gap BY <3>1 DEF Cleaned
      <4>2. s \o one = one BY <2>1, <3>1, ConcatEmptySeq DEF Texts
      <4> QED BY <2>1, <4>1, <4>2
    <3>2. CASE s # <<>>
      <4>1. Neat(s) BY DEF Cleaned
      <4> HIDE DEF s, one
      <4> QED BY <1>1, <2>1, <3>2, <4>1, Glued
    <3> QED BY <3>1, <3>2
  <2>5. Cardinality(Visibles(t)) = Cardinality(Visibles(s)) + 1
    <3> HIDE DEF s, one
    <3>1. /\ Cardinality(Visibles(s \o one)) = Cardinality(Visibles(s)) + 1
          /\ Cardinality(Visibles(s \o <<"blank">>)) = Cardinality(Visibles(s)) + 0
      BY <1>1, <2>1, ConcatVisibles
    <3>2. Cardinality(Visibles(s \o <<"blank">> \o one)) = Cardinality(Visibles(s \o <<"blank">>)) + 1
      BY <2>1, <2>3, ConcatVisibles
    <3> QED BY <1>2, <3>1, <3>2
  <2>6. t \in Texts BY <2>3
  <2> HIDE DEF t
  <2>7. Cleaned(Clean(acc, c)) BY <2>2, <2>4, <2>6 DEF Cleaned, Cleaning
  <2>8. Clean(acc, c).clean = t BY <2>2
  <2> QED BY <1>5, <2>5, <2>7, <2>8
<1> QED BY <1>3, <1>4, <1>5 DEF Chars

(* normalize_text returns a neat text with every visible character.        *)
LEMMA NormalizeTextFacts ==
  ASSUME NEW raw \in Seq(Chars)
  PROVE  /\ NormalizeText(raw) \in Texts /\ Neat(NormalizeText(raw))
         /\ Cardinality(Visibles(NormalizeText(raw))) = Cardinality(Visibles(raw))
<1> DEFINE n == Len(raw)
           Good == {acc \in Cleaning : Cleaned(acc)}
           step == [p \in Good \X (1..n) |-> Clean(p[1], raw[p[2]])]
           Def(f) == f = [i \in 0..n |-> IF i = 0 THEN NoText ELSE Clean(f[i - 1], raw[i])]
           g == CHOOSE f : Def(f)
           Before(i) == {j \in 1..i : raw[j] = "visible"}
<1>1. n \in Nat /\ DOMAIN raw = 1..n /\ \A i \in 1..n : raw[i] \in Chars
  BY LenProperties, ElementOfSeq
<1> HIDE DEF n
<1>2. step \in [Good \X (1..n) -> Good]
  <2>1. ASSUME NEW acc \in Good, NEW i \in 1..n PROVE Clean(acc, raw[i]) \in Good
    BY <1>1, CleanSteps DEF Cleaned
  <2> QED BY <2>1
<1>3. NoText \in Good BY ShortTexts DEF NoText, Cleaned, Cleaning
<1>4. PICK f \in [0..n -> Good] : Turns(f, step, NoText, n)
  <2> HIDE DEF step, Good
  <2> QED BY <1>1, <1>2, <1>3, Recursion
<1>5. f[0] = NoText /\ \A i \in 1..n : f[i] = Clean(f[i - 1], raw[i])
  <2> SUFFICES ASSUME NEW i \in 1..n PROVE f[i] = Clean(f[i - 1], raw[i])
    BY <1>4 DEF Turns
  <2>1. <<f[i - 1], i>> \in Good \X (1..n)
    <3>1. i - 1 \in 0..n BY <1>1
    <3> HIDE DEF Good
    <3> QED BY <3>1
  <2>2. step[<<f[i - 1], i>>] = Clean(f[i - 1], raw[i]) BY <2>1
  <2> QED BY <1>4, <2>2 DEF Turns
<1>6. Def(g)
  <2>1. \A i \in 0..n : i # 0 => i \in 1..n BY <1>1
  <2>2. Def(f) BY <1>5, <2>1
  <2> QED BY <2>2
<1>7. NormalizeText(raw) = g[n].clean BY DEF NormalizeText, NoText, n
<1> HIDE DEF g
<1>8. g[0] = NoText /\ \A i \in 1..n : g[i] = Clean(g[i - 1], raw[i])
  <2>1. 0 \in 0..n /\ \A i \in 1..n : i \in 0..n /\ i # 0 BY <1>1
  <2> QED BY <1>6, <2>1
<1> DEFINE Right(i) == /\ Cleaned(g[i])
                       /\ Cardinality(Visibles(g[i].clean)) = Cardinality(Before(i))
           S == {i \in 0..n : Right(i)}
<1>9. Right(0)
  <2>1. Before(0) = {} /\ Visibles(NoText.clean) = {} BY ShortTexts DEF NoText
  <2>2. Cleaned(NoText) BY <1>3
  <2> QED BY <1>8, <2>1, <2>2
<1>10. ASSUME NEW i \in 1..n, Right(i - 1) PROVE Right(i)
  <2>1. raw[i] \in Chars /\ g[i] = Clean(g[i - 1], raw[i]) BY <1>1, <1>8
  <2>2. /\ Cleaned(g[i])
        /\ Cardinality(Visibles(g[i].clean)) =
             Cardinality(Before(i - 1)) + (IF raw[i] = "visible" THEN 1 ELSE 0)
    <3> HIDE DEF Before
    <3> QED BY <1>10, <2>1, CleanSteps
  <2>3. IsFiniteSet(Before(i - 1)) /\ Cardinality(Before(i - 1)) \in Nat
    <3>1. Before(i - 1) \subseteq 1..i - 1 /\ i - 1 \in Int BY <1>1
    <3>2. IsFiniteSet(1..i - 1) BY <3>1, FS_Interval
    <3> QED BY <3>1, <3>2, FS_Subset, FS_CardinalityType
  <2>4. i \notin Before(i - 1) BY <1>1
  <2>5. CASE raw[i] = "visible"
    <3>1. Before(i) = Before(i - 1) \cup {i} BY <1>1, <2>5
    <3> HIDE DEF Before
    <3>2. Cardinality(Before(i)) = Cardinality(Before(i - 1)) + 1
      BY <2>3, <2>4, <3>1, FS_AddElement
    <3> QED BY <2>2, <2>5, <3>2
  <2>6. CASE raw[i] # "visible"
    <3>1. Before(i) = Before(i - 1) BY <1>1, <2>6
    <3> HIDE DEF Before
    <3> QED BY <2>2, <2>3, <2>6, <3>1
  <2> QED BY <2>5, <2>6
<1>11. Right(n)
  <2> HIDE DEF Right
  <2>1. 0 \in S BY <1>1, <1>9
  <2>2. \A i \in 1..n : i - 1 \in S => i \in S BY <1>1, <1>10
  <2> HIDE DEF S
  <2>3. 0..n \subseteq S BY <1>1, <2>1, <2>2, Reached
  <2> QED BY <1>1, <2>3 DEF S
<1>12. Before(n) = Visibles(raw) BY <1>1 DEF Visibles
<1> HIDE DEF Before
<1> QED BY <1>7, <1>11, <1>12 DEF Cleaned, Cleaning

(* The k-th turn of the join.                                              *)
JoinTurn(ps, acc, k) == IF k = 1 THEN ps[1] ELSE acc \o <<"blank">> \o ps[k]

LEMMA JoinedTurns ==
  ASSUME NEW ps \in Seq(Texts)
  PROVE  \E g \in [0..Len(ps) -> Texts] :
           /\ g[0] = <<>> /\ \A k \in 1..Len(ps) : g[k] = JoinTurn(ps, g[k - 1], k)
           /\ Joined(ps) = g[Len(ps)]
<1> DEFINE n == Len(ps)
           step == [p \in Texts \X (1..n) |-> JoinTurn(ps, p[1], p[2])]
           Def(f) == f = [k \in 0..n |-> IF k = 0 THEN <<>>
                                         ELSE IF k = 1 THEN ps[1] ELSE f[k - 1] \o <<"blank">> \o ps[k]]
           g == CHOOSE f : Def(f)
<1>1. n \in Nat /\ \A k \in 1..n : ps[k] \in Texts
  BY LenProperties, ElementOfSeq
<1> HIDE DEF n
<1>2. step \in [Texts \X (1..n) -> Texts]
  <2>1. ASSUME NEW acc \in Texts, NEW k \in 1..n PROVE JoinTurn(ps, acc, k) \in Texts
    <3>1. ps[k] \in Texts /\ (k = 1 => ps[1] \in Texts) BY <1>1
    <3>2. acc \o <<"blank">> \in Texts BY ShortTexts, Concat
    <3>3. acc \o <<"blank">> \o ps[k] \in Texts BY <3>1, <3>2, Concat
    <3> QED BY <3>1, <3>3 DEF JoinTurn
  <2> QED BY <2>1
<1>3. <<>> \in Texts BY ShortTexts
<1>4. PICK f \in [0..n -> Texts] : Turns(f, step, <<>>, n)
  <2> HIDE DEF step
  <2> QED BY <1>1, <1>2, <1>3, Recursion
<1>5. f[0] = <<>> /\ \A k \in 1..n : f[k] = JoinTurn(ps, f[k - 1], k)
  <2> SUFFICES ASSUME NEW k \in 1..n PROVE f[k] = JoinTurn(ps, f[k - 1], k)
    BY <1>4 DEF Turns
  <2>1. <<f[k - 1], k>> \in Texts \X (1..n)
    <3>1. k - 1 \in 0..n BY <1>1
    <3> QED BY <3>1
  <2>2. step[<<f[k - 1], k>>] = JoinTurn(ps, f[k - 1], k) BY <2>1
  <2> QED BY <1>4, <2>2 DEF Turns
<1>6. Def(g)
  <2>1. \A k \in 0..n : k # 0 => k \in 1..n BY <1>1
  <2>2. Def(f) BY <1>5, <2>1 DEF JoinTurn
  <2> QED BY <2>2
<1>7. Joined(ps) = g[n] BY DEF Joined, n
<1> HIDE DEF g
<1>8. g[0] = <<>> /\ \A k \in 1..n : g[k] = JoinTurn(ps, g[k - 1], k)
  <2>1. 0 \in 0..n /\ \A k \in 1..n : k \in 0..n /\ k # 0 BY <1>1
  <2> QED BY <1>6, <2>1 DEF JoinTurn
<1> DEFINE S == {k \in 0..n : g[k] = f[k]}
<1>9. 0..n \subseteq S
  <2>1. 0 \in S BY <1>1, <1>5, <1>8
  <2>2. ASSUME NEW k \in 1..n, k - 1 \in S PROVE k \in S
    BY <1>1, <1>5, <1>8, <2>2
  <2> HIDE DEF S
  <2> QED BY <1>1, <2>1, <2>2, Reached
<1>10. g = [k \in 0..n |-> g[k]] BY <1>6
<1>11. g \in [0..n -> Texts] BY <1>4, <1>9, <1>10
<1> QED BY <1>7, <1>8, <1>11 DEF n

(* One more part is put behind what was joined before.                     *)
LEMMA JoinedFacts ==
  ASSUME NEW ps \in Seq(Texts)
  PROVE  /\ Joined(ps) \in Texts /\ Joined(<<>>) = <<>>
         /\ \A t \in Texts : Joined(Append(ps, t)) =
              IF ps = <<>> THEN t ELSE Joined(ps) \o <<"blank">> \o t
<1> DEFINE n == Len(ps)
<1>1. n \in Nat /\ (ps = <<>> <=> n = 0) BY LenProperties, EmptySeq
<1>2. PICK f \in [0..n -> Texts] : /\ f[0] = <<>> /\ \A k \in 1..n : f[k] = JoinTurn(ps, f[k - 1], k)
                                   /\ Joined(ps) = f[n]
  BY JoinedTurns
<1>3. Joined(<<>>) = <<>>
  <2>1. <<>> \in Seq(Texts) /\ Len(<<>>) = 0 BY EmptySeq
  <2> QED BY <2>1, JoinedTurns
<1>4. ASSUME NEW t \in Texts
      PROVE  Joined(Append(ps, t)) = IF ps = <<>> THEN t ELSE Joined(ps) \o <<"blank">> \o t
  <2> DEFINE qs == Append(ps, t)
  <2>1. /\ qs \in Seq(Texts) /\ Len(qs) = n + 1 /\ qs[n + 1] = t
        /\ \A k \in 1..n : qs[k] = ps[k]
    BY AppendProperties
  <2> HIDE DEF qs
  <2>2. PICK g \in [0..n + 1 -> Texts] :
          /\ g[0] = <<>> /\ \A k \in 1..n + 1 : g[k] = JoinTurn(qs, g[k - 1], k)
          /\ Joined(qs) = g[n + 1]
    BY <2>1, JoinedTurns
  <2> HIDE DEF n
  <2> DEFINE S == {k \in 0..n : g[k] = f[k]}
  <2>3. 0 \in S BY <1>1, <1>2, <2>2
  <2>4. ASSUME NEW k \in 1..n, k - 1 \in S PROVE k \in S
    <3>1. k \in 1..n + 1 /\ k \in 0..n /\ (k = 1 => 1 \in 1..n) BY <1>1
    <3>2. qs[k] = ps[k] /\ (k = 1 => qs[1] = ps[1]) BY <2>1, <3>1
    <3>3. g[k] = JoinTurn(qs, g[k - 1], k) BY <2>2, <3>1
    <3>4. f[k] = JoinTurn(ps, f[k - 1], k) BY <1>2
    <3> QED BY <2>4, <3>1, <3>2, <3>3, <3>4 DEF JoinTurn
  <2>5. 0..n \subseteq S
    <3> HIDE DEF S
    <3> QED BY <1>1, <2>3, <2>4, Reached
  <2>6. g[n] = Joined(ps) BY <1>1, <1>2, <2>5
  <2>7. g[n + 1] = JoinTurn(qs, g[n], n + 1)
    <3>1. n + 1 \in 1..n + 1 /\ (n + 1) - 1 = n BY <1>1
    <3> QED BY <2>2, <3>1
  <2>8. CASE ps = <<>>
    <3>1. n = 0 /\ n + 1 = 1 BY <1>1, <2>8
    <3> QED BY <2>1, <2>2, <2>7, <2>8, <3>1 DEF JoinTurn, qs
  <2>9. CASE ps # <<>>
    <3>1. n + 1 # 1 BY <1>1, <2>9
    <3> QED BY <2>1, <2>2, <2>6, <2>7, <2>9, <3>1 DEF JoinTurn, qs
  <2> QED BY <2>8, <2>9
<1>5. Joined(ps) \in Texts BY <1>1, <1>2
<1> QED BY <1>3, <1>4, <1>5

(* What was joined and one more part: where it starts and what comes out.  *)
Base(s) == IF s = <<>> THEN Len(s) ELSE Len(s) + 1
Extension(s, t) == IF s = <<>> THEN t ELSE s \o <<"blank">> \o t

ExtendedWell(s, t, n, u) ==
  /\ u \in Texts /\ Neat(u) /\ u # <<>>
  /\ n \in Nat /\ Len(t) \in Nat \ {0} /\ Len(u) = n + Len(t)
  /\ Cardinality(Visibles(u)) = Cardinality(Visibles(s)) + Cardinality(Visibles(t))
  /\ SubSeq(u, n + 1, n + Len(t)) = t
  /\ Len(s) \in Nat /\ Len(s) <= n
  /\ \A i, j \in 0..Len(s) : i < j => SubSeq(u, i + 1, j) = SubSeq(s, i + 1, j)

LEMMA Extended ==
  ASSUME NEW s \in Texts, Neat(s), NEW t \in Texts, Neat(t), t # <<>>
  PROVE  ExtendedWell(s, t, Base(s), Extension(s, t))
<1> DEFINE u == Extension(s, t)  n == Base(s)
<1>1. /\ Len(s) \in Nat /\ Len(t) \in Nat \ {0} /\ (s = <<>> <=> Len(s) = 0)
      /\ \A v \in Texts : Len(v) # 0 => v # <<>>
  BY LenProperties, EmptySeq DEF Texts
<1>2. /\ Cardinality(Visibles(s)) \in Nat /\ Cardinality(Visibles(t)) \in Nat
      /\ Cardinality(Visibles(<<"blank">>)) = 0 /\ Cardinality(Visibles(<<>>)) = 0
  BY VisiblesFinite, ShortTexts, FS_EmptySet DEF Texts
<1>3. CASE s = <<>>
  <2>1. u = t /\ n = 0 /\ Len(s) = 0 BY <1>1, <1>3 DEF Extension, Base
  <2>2. SubSeq(t, 1, Len(t)) = t BY SubSeqFull DEF Texts
  <2>3. 0 + 1 = 1 /\ 0 + Len(t) = Len(t) BY <1>1
  <2>4. SubSeq(u, n + 1, n + Len(t)) = t BY <2>1, <2>2, <2>3
  <2>5. \A i, j \in 0..Len(s) : ~(i < j) BY <2>1
  <2>6. Cardinality(Visibles(u)) = Cardinality(Visibles(s)) + Cardinality(Visibles(t))
    BY <1>2, <1>3, <2>1
  <2> HIDE DEF u, n
  <2>7. ExtendedWell(s, t, n, u)
    BY <1>1, <2>1, <2>3, <2>4, <2>5, <2>6 DEF ExtendedWell
  <2> QED BY <2>7 DEF u, n
<1>4. CASE s # <<>>
  <2> DEFINE b == s \o <<"blank">>
  <2>1. u = b \o t /\ n = Len(s) + 1 BY <1>4 DEF Extension, Base
  <2>2. /\ b \in Texts /\ Len(b) = n
        /\ Cardinality(Visibles(b)) = Cardinality(Visibles(s)) + 0
    BY <1>2, <2>1, ShortTexts, Concat, ConcatVisibles
  <2>3. Neat(u) BY <1>4, <2>1, Glued
  <2>4. \A i, j \in 0..Len(s) : i < j => SubSeq(b, i + 1, j) = SubSeq(s, i + 1, j)
    <3> SUFFICES ASSUME NEW i \in 0..Len(s), NEW j \in 0..Len(s), i < j
                 PROVE  SubSeq(b, i + 1, j) = SubSeq(s, i + 1, j)
      OBVIOUS
    <3>1. i + 1 \in 1..Len(s) /\ j \in 1..Len(s) BY <1>1
    <3> QED BY <3>1, ShortTexts, SubSeqOfConcat1 DEF Texts
  <2> HIDE DEF b, u, n
  <2>5. /\ u \in Texts /\ Len(u) = n + Len(t)
        /\ Cardinality(Visibles(u)) = Cardinality(Visibles(b)) + Cardinality(Visibles(t))
    <3>1. /\ b \o t \in Texts /\ Len(b \o t) = Len(b) + Len(t)
          /\ Cardinality(Visibles(b \o t)) = Cardinality(Visibles(b)) + Cardinality(Visibles(t))
      BY <2>2, Concat, ConcatVisibles
    <3> QED BY <2>1, <2>2, <3>1
  <2>6. n \in Nat /\ Len(s) <= n BY <1>1, <2>1
  <2>7. SubSeq(u, n + 1, n + Len(t)) = t
    <3>1. n + 1 \in n + 1..n + Len(t) /\ n + Len(t) \in n + 1..n + Len(t) BY <1>1, <2>6
    <3>2. SubSeq(b \o t, n + 1, n + Len(t)) = SubSeq(t, (n + 1) - n, (n + Len(t)) - n)
      <4>1. b \in Seq(TextChars) /\ t \in Seq(TextChars) /\ Len(b) = n BY <2>2 DEF Texts
      <4>2. /\ n + 1 \in Len(b) + 1..Len(b) + Len(t)
            /\ n + Len(t) \in Len(b) + 1..Len(b) + Len(t)
        BY <3>1, <4>1
      <4>3. SubSeq(b \o t, n + 1, n + Len(t)) = SubSeq(t, (n + 1) - Len(b), (n + Len(t)) - Len(b))
        BY <4>1, <4>2, SubSeqOfConcat2, SMTT(30)
      <4> QED BY <4>1, <4>3
    <3>3. (n + 1) - n = 1 /\ (n + Len(t)) - n = Len(t) BY <1>1, <2>6
    <3>4. SubSeq(t, 1, Len(t)) = t BY SubSeqFull DEF Texts
    <3> QED BY <2>1, <3>2, <3>3, <3>4
  <2>8. ASSUME NEW i \in 0..Len(s), NEW j \in 0..Len(s), i < j
        PROVE  SubSeq(u, i + 1, j) = SubSeq(s, i + 1, j)
    <3>1. i + 1 \in 1..Len(b) /\ j \in 1..Len(b) BY <1>1, <2>2, <2>6, <2>8
    <3>2. SubSeq(b \o t, i + 1, j) = SubSeq(b, i + 1, j) BY <2>2, <3>1, SubSeqOfConcat1 DEF Texts
    <3> QED BY <2>1, <2>4, <2>8, <3>2
  <2>9. u # <<>> BY <1>1, <2>5, <2>6
  <2>10. Cardinality(Visibles(u)) = Cardinality(Visibles(s)) + Cardinality(Visibles(t))
    BY <1>2, <2>2, <2>5
  <2>11. ExtendedWell(s, t, n, u)
    BY <1>1, <2>3, <2>5, <2>6, <2>7, <2>8, <2>9, <2>10 DEF ExtendedWell
  <2> QED BY <2>11 DEF u, n
<1> QED BY <1>3, <1>4

(* ------------------------------ Normalizing ---------------------------- *)

Location == [section : Nat, start : Nat, end : Nat]
VisiblesUpto(n) == UNION {{k} \X Visibles(source[k]) : k \in 1..n}

JoinTypeOK ==
  /\ source \in Seq(Seq(Chars)) /\ joining \in {"join", "done", "failed"}
  /\ section \in 1..Len(source) + 1 /\ offset \in Nat
  /\ parts \in Seq(Texts) /\ locations \in Seq(Location)

(* The text joined so far has exactly the visible characters of the        *)
(* sections that were seen, and every location lies where its section is.  *)
Whereabouts ==
  \A k \in DOMAIN locations :
    LET l == locations[k] IN
    /\ l.section \in DOMAIN source /\ l.start < l.end /\ l.end <= Len(Text)
    /\ Located(l) = NormalizeText(source[l.section])

JoinInv ==
  /\ JoinTypeOK /\ Whereabouts
  /\ Text \in Texts /\ Neat(Text) /\ offset = Len(Text)
  /\ parts = <<>> <=> Text = <<>>
  /\ Cardinality(Visibles(Text)) = Cardinality(VisiblesUpto(section - 1))
  /\ joining # "join" => section = Len(source) + 1 /\ joining = Outcome

LEMMA UptoFinite ==
  ASSUME source \in Seq(Seq(Chars)), NEW n \in Nat, n <= Len(source)
  PROVE  IsFiniteSet(VisiblesUpto(n))
<1> DEFINE D(k) == {k} \X Visibles(source[k])
           F == {D(k) : k \in 1..n}
           h == [k \in 1..n |-> D(k)]
<1>1. ASSUME NEW k \in 1..n PROVE IsFiniteSet(D(k))
  <2>1. k \in 1..Len(source) BY LenProperties
  <2>2. source[k] \in Seq(Chars) BY <2>1, LenProperties, ElementOfSeq
  <2>3. IsFiniteSet(Visibles(source[k])) /\ IsFiniteSet({k})
    BY <2>2, VisiblesFinite, FS_Singleton
  <2> QED BY <2>3, FS_Product
<1>2. IsFiniteSet(1..n) BY FS_Interval
<1>3. h \in Surjection(1..n, F)
  <2> HIDE DEF D
  <2> QED BY DEF Surjection
<1>4. IsFiniteSet(F)
  <2> HIDE DEF h, F
  <2> QED BY <1>2, <1>3, FS_Surjection
<1>5. \A T \in F : IsFiniteSet(T)
  <2> HIDE DEF D
  <2> QED BY <1>1
<1>6. VisiblesUpto(n) = UNION F BY DEF VisiblesUpto
<1> HIDE DEF F
<1> QED BY <1>4, <1>5, <1>6, FS_UNION

LEMMA UptoFacts ==
  ASSUME source \in Seq(Seq(Chars)), NEW n \in Nat, n + 1 <= Len(source)
  PROVE  Cardinality(VisiblesUpto(n + 1)) =
           Cardinality(VisiblesUpto(n)) + Cardinality(Visibles(source[n + 1]))
<1> DEFINE D(k) == {k} \X Visibles(source[k])
<1>1. Len(source) \in Nat /\ DOMAIN source = 1..Len(source)
      /\ \A k \in 1..Len(source) : source[k] \in Seq(Chars)
  BY LenProperties, ElementOfSeq
<1>2. ASSUME NEW k \in 1..Len(source)
      PROVE  IsFiniteSet(D(k)) /\ Cardinality(D(k)) = Cardinality(Visibles(source[k]))
  <2>1. /\ IsFiniteSet(Visibles(source[k])) /\ Cardinality(Visibles(source[k])) \in Nat
        /\ IsFiniteSet({k}) /\ Cardinality({k}) = 1
    BY <1>1, VisiblesFinite, FS_Singleton
  <2>2. /\ IsFiniteSet(D(k))
        /\ Cardinality(D(k)) = Cardinality({k}) * Cardinality(Visibles(source[k]))
    BY <2>1, FS_Product
  <2> HIDE DEF D
  <2> QED BY <2>1, <2>2
<1>3. IsFiniteSet(VisiblesUpto(n))
  BY <1>1, UptoFinite
<1>4. VisiblesUpto(n + 1) = VisiblesUpto(n) \cup D(n + 1)
  <2>1. 1..n + 1 = (1..n) \cup {n + 1} OBVIOUS
  <2> HIDE DEF D
  <2>2. {D(k) : k \in 1..n + 1} = {D(k) : k \in 1..n} \cup {D(n + 1)} BY <2>1
  <2>3. VisiblesUpto(n + 1) = UNION {D(k) : k \in 1..n + 1} BY DEF VisiblesUpto, D
  <2>4. VisiblesUpto(n) = UNION {D(k) : k \in 1..n} BY DEF VisiblesUpto, D
  <2> QED BY <2>2, <2>3, <2>4
<1>5. VisiblesUpto(n) \cap D(n + 1) = {}
  <2>1. \A p \in VisiblesUpto(n) : p[1] \in 1..n BY DEF VisiblesUpto
  <2>2. \A p \in D(n + 1) : p[1] = n + 1 OBVIOUS
  <2>3. n + 1 \notin 1..n OBVIOUS
  <2> HIDE DEF D
  <2> QED BY <2>1, <2>2, <2>3
<1>6. n + 1 \in 1..Len(source) BY <1>1
<1> HIDE DEF D
<1> QED BY <1>2, <1>3, <1>4, <1>5, <1>6, Disjoint

LEMMA NoneUpto == VisiblesUpto(0) = {}
<1>1. 1..0 = {} OBVIOUS
<1> QED BY <1>1 DEF VisiblesUpto

LEMMA JoinStarts == NormalizeInit => JoinInv
<1> SUFFICES ASSUME NormalizeInit PROVE JoinInv OBVIOUS
<1>1. JoinTypeOK
  <2>1. source \in Seq(Seq(Chars)) BY SourcesAssumption DEF NormalizeInit
  <2>2. Len(source) \in Nat BY <2>1, LenProperties
  <2>3. <<>> \in Seq(Texts) /\ <<>> \in Seq(Location) BY EmptySeq
  <2> QED BY <2>1, <2>2, <2>3 DEF JoinTypeOK, NormalizeInit
<1>2. Text = <<>> /\ parts = <<>> /\ DOMAIN locations = {}
  <2>1. <<>> \in Seq(Texts) BY EmptySeq
  <2>2. Text = <<>> BY <2>1, JoinedFacts DEF Text, NormalizeInit
  <2> QED BY <2>2 DEF NormalizeInit
<1>3. section - 1 = 0 /\ Len(<<>>) = 0 BY DEF NormalizeInit
<1>4. Cardinality(Visibles(Text)) = Cardinality(VisiblesUpto(section - 1))
  BY <1>2, <1>3, NoneUpto, ShortTexts
<1> QED BY <1>1, <1>2, <1>3, <1>4, ShortTexts DEF JoinInv, Whereabouts, NormalizeInit

LEMMA JoinStep == JoinInv /\ JoinSection => JoinInv'
<1> SUFFICES ASSUME JoinInv, JoinSection PROVE JoinInv' OBVIOUS
<1> DEFINE t == NormalizeText(source[section])
           new == [section |-> section, start |-> SectionStart, end |-> SectionStart + Len(t)]
<1>1. /\ source \in Seq(Seq(Chars)) /\ Len(source) \in Nat /\ DOMAIN source = 1..Len(source)
      /\ section \in 1..Len(source) /\ section \in Nat
      /\ source[section] \in Seq(Chars) /\ source' = source
      /\ joining = "join" /\ joining' = "join" /\ section' = section + 1
  <2>1. source \in Seq(Seq(Chars)) /\ section \in 1..Len(source) + 1 /\ section <= Len(source)
    BY DEF JoinInv, JoinTypeOK, JoinSection
  <2>2. Len(source) \in Nat /\ DOMAIN source = 1..Len(source) BY <2>1, LenProperties
  <2>3. section \in 1..Len(source) BY <2>1, <2>2
  <2> QED BY <2>1, <2>2, <2>3, ElementOfSeq DEF JoinSection
<1>2. /\ t \in Texts /\ Neat(t)
      /\ Cardinality(Visibles(t)) = Cardinality(Visibles(source[section]))
  BY <1>1, NormalizeTextFacts
<1>3. section' \in 1..Len(source') + 1 /\ section' - 1 = (section - 1) + 1
      /\ (section - 1) + 1 = section /\ section - 1 \in Nat
  BY <1>1
<1>4. Cardinality(VisiblesUpto(section' - 1)) = Cardinality(Visibles(Text)) + Cardinality(Visibles(t))
  <2>1. Cardinality(VisiblesUpto((section - 1) + 1)) =
          Cardinality(VisiblesUpto(section - 1)) + Cardinality(Visibles(source[(section - 1) + 1]))
    BY <1>1, <1>3, UptoFacts
  <2> QED BY <1>2, <1>3, <2>1 DEF JoinInv
<1>5. VisiblesUpto(section - 1)' = VisiblesUpto(section' - 1) BY <1>1 DEF VisiblesUpto
<1>6. CASE t = <<>>
  <2>1. UNCHANGED <<offset, parts, locations>> BY <1>6 DEF JoinSection
  <2>2. Text' = Text BY <2>1 DEF Text
  <2>3. Cardinality(Visibles(t)) = 0 /\ Cardinality(Visibles(Text)) \in Nat
    BY <1>6, ShortTexts, FS_EmptySet, VisiblesFinite DEF JoinInv, Texts
  <2>4. Cardinality(Visibles(Text')) = Cardinality(VisiblesUpto(section' - 1))
    BY <1>4, <2>2, <2>3
  <2>5. JoinTypeOK' BY <1>1, <1>3, <2>1 DEF JoinInv, JoinTypeOK
  <2>6. Whereabouts' BY <1>1, <2>1, <2>2 DEF JoinInv, Whereabouts, Located
  <2>7. Visibles(Text)' = Visibles(Text') BY DEF Visibles
  <2> QED BY <1>1, <1>5, <2>1, <2>2, <2>4, <2>5, <2>6, <2>7 DEF JoinInv, Neat
<1>7. CASE t # <<>>
  <2>1. /\ locations' = Append(locations, new) /\ parts' = Append(parts, t)
        /\ offset' = SectionStart + Len(t)
    BY <1>7 DEF JoinSection
  <2>2. /\ parts \in Seq(Texts) /\ locations \in Seq(Location) /\ Text \in Texts /\ Neat(Text)
        /\ offset = Len(Text) /\ (parts = <<>> <=> Text = <<>>)
    BY DEF JoinInv, JoinTypeOK
  <2>3. Text' = IF Text = <<>> THEN t ELSE Text \o <<"blank">> \o t
    <3> HIDE DEF t
    <3>1. Text' = Joined(Append(parts, t)) BY <2>1 DEF Text
    <3> QED BY <1>2, <2>2, <3>1, JoinedFacts DEF Text
  <2>4. SectionStart = IF Text = <<>> THEN Len(Text) ELSE Len(Text) + 1
    BY <2>2 DEF SectionStart
  <2> HIDE DEF t
  <2>5. /\ Text' \in Texts /\ Neat(Text') /\ Text' # <<>>
        /\ SectionStart \in Nat /\ Len(t) \in Nat \ {0} /\ Len(Text') = SectionStart + Len(t)
        /\ Cardinality(Visibles(Text')) = Cardinality(Visibles(Text)) + Cardinality(Visibles(t))
        /\ SubSeq(Text', SectionStart + 1, SectionStart + Len(t)) = t
        /\ Len(Text) \in Nat /\ Len(Text) <= SectionStart
        /\ \A i, j \in 0..Len(Text) : i < j => SubSeq(Text', i + 1, j) = SubSeq(Text, i + 1, j)
    <3>1. Text' = Extension(Text, t) BY <2>3 DEF Extension
    <3>2. SectionStart = Base(Text) BY <2>4 DEF Base
    <3>3. ExtendedWell(Text, t, Base(Text), Extension(Text, t)) BY <1>2, <1>7, <2>2, Extended
    <3> QED BY <3>1, <3>2, <3>3 DEF ExtendedWell
  <2>6. new \in Location BY <1>1, <2>5 DEF Location
  <2>7. new.section = section /\ new.start = SectionStart /\ new.end = SectionStart + Len(t)
    OBVIOUS
  <2> HIDE DEF new
  <2>8. /\ locations' \in Seq(Location) /\ Len(locations) \in Nat
        /\ DOMAIN locations = 1..Len(locations) /\ DOMAIN locations' = 1..Len(locations) + 1
        /\ \A k \in 1..Len(locations) : locations'[k] = locations[k] /\ locations[k] \in Location
        /\ locations'[Len(locations) + 1] = new
    <3>1. /\ locations' \in Seq(Location) /\ Len(locations') = Len(locations) + 1
          /\ \A k \in 1..Len(locations) : locations'[k] = locations[k]
          /\ locations'[Len(locations) + 1] = new
      BY <2>1, <2>2, <2>6, AppendProperties
    <3> QED BY <2>2, <3>1, LenProperties, ElementOfSeq
  <2>9. parts' \in Seq(Texts) /\ parts' # <<>>
    <3>1. parts' \in Seq(Texts) /\ Len(parts') = Len(parts) + 1 /\ Len(parts) \in Nat
      BY <1>2, <2>1, <2>2, AppendProperties, LenProperties
    <3> QED BY <3>1, EmptySeq
  <2>10. offset' \in Nat /\ offset' = Len(Text') BY <2>1, <2>5
  <2>11. JoinTypeOK' BY <1>1, <1>3, <2>8, <2>9, <2>10 DEF JoinTypeOK
  <2>12. Whereabouts'
    <3> SUFFICES ASSUME NEW k \in 1..Len(locations) + 1
                 PROVE  /\ locations'[k].section \in DOMAIN source
                        /\ locations'[k].start < locations'[k].end
                        /\ locations'[k].end <= Len(Text')
                        /\ SubSeq(Text', locations'[k].start + 1, locations'[k].end) =
                             NormalizeText(source[locations'[k].section])
      BY <1>1, <2>8 DEF Whereabouts, Located
    <3>1. CASE k = Len(locations) + 1
      <4>1. locations'[k] = new BY <2>8, <3>1
      <4>2. SectionStart < SectionStart + Len(t) /\ SectionStart + Len(t) <= Len(Text')
        BY <2>5
      <4> QED BY <1>1, <2>5, <2>7, <4>1, <4>2 DEF t
    <3>2. CASE k # Len(locations) + 1
      <4>1. k \in 1..Len(locations) BY <2>8, <3>2
      <4> DEFINE l == locations[k]
      <4>2. locations'[k] = l /\ l.start \in Nat /\ l.end \in Nat BY <2>8, <4>1 DEF Location
      <4>3. /\ l.section \in DOMAIN source /\ l.start < l.end /\ l.end <= Len(Text)
            /\ SubSeq(Text, l.start + 1, l.end) = NormalizeText(source[l.section])
        BY <2>8, <4>1 DEF JoinInv, Whereabouts, Located
      <4> HIDE DEF l
      <4>4. l.start \in 0..Len(Text) /\ l.end \in 0..Len(Text) /\ l.end <= Len(Text')
        BY <2>5, <4>2, <4>3
      <4>5. SubSeq(Text', l.start + 1, l.end) = SubSeq(Text, l.start + 1, l.end)
        BY <2>5, <4>3, <4>4
      <4> QED BY <4>2, <4>3, <4>4, <4>5
    <3> QED BY <3>1, <3>2
  <2>13. Visibles(Text)' = Visibles(Text') BY DEF Visibles
  <2> QED BY <1>1, <1>4, <1>5, <2>5, <2>9, <2>10, <2>11, <2>12, <2>13 DEF JoinInv, Neat
<1> QED BY <1>6, <1>7

LEMMA ReturnStep == JoinInv /\ Return => JoinInv'
<1> SUFFICES ASSUME JoinInv, Return PROVE JoinInv' OBVIOUS
<1>1. UNCHANGED <<source, section, offset, parts, locations>> /\ joining' = Outcome
  BY DEF Return
<1>2. Text' = Text /\ Outcome' = Outcome /\ Outcome \in {"done", "failed"}
  BY <1>1 DEF Text, Outcome
<1>3. section = Len(source) + 1
  <2>1. section \in 1..Len(source) + 1 /\ section > Len(source) /\ source \in Seq(Seq(Chars))
    BY DEF JoinInv, JoinTypeOK, Return
  <2>2. Len(source) \in Nat BY <2>1, LenProperties
  <2> QED BY <2>1, <2>2
<1>4. JoinTypeOK' BY <1>1, <1>2 DEF JoinInv, JoinTypeOK
<1>5. Whereabouts' BY <1>1, <1>2 DEF JoinInv, Whereabouts, Located
<1>6. Visibles(Text)' = Visibles(Text) /\ VisiblesUpto(section - 1)' = VisiblesUpto(section - 1)
  BY <1>1, <1>2 DEF Visibles, VisiblesUpto
<1> QED BY <1>1, <1>2, <1>3, <1>4, <1>5, <1>6 DEF JoinInv, Neat

LEMMA JoinStutters == JoinInv /\ UNCHANGED normalizing => JoinInv'
<1> SUFFICES ASSUME JoinInv, UNCHANGED normalizing PROVE JoinInv' OBVIOUS
<1>1. UNCHANGED <<source, joining, section, offset, parts, locations>> BY DEF normalizing
<1>2. Text' = Text BY <1>1 DEF Text
<1>3. Visibles(Text)' = Visibles(Text) /\ VisiblesUpto(section - 1)' = VisiblesUpto(section - 1)
  BY <1>1, <1>2 DEF Visibles, VisiblesUpto
<1> QED BY <1>1, <1>2, <1>3 DEF JoinInv, JoinTypeOK, Whereabouts, Located, Neat, Outcome

LEMMA JoinKeepsText == JoinInv => TextKept
<1> SUFFICES ASSUME JoinInv PROVE TextKept OBVIOUS
<1>1. LocationsMatchText BY DEF JoinInv, Whereabouts, LocationsMatchText
<1>2. ASSUME joining # "join"
      PROVE  Cardinality(Visibles(Text)) =
               Cardinality(UNION {{n} \X Visibles(source[n]) : n \in DOMAIN source})
  <2>1. section = Len(source) + 1 /\ source \in Seq(Seq(Chars)) BY <1>2 DEF JoinInv, JoinTypeOK
  <2>2. Len(source) \in Nat /\ DOMAIN source = 1..Len(source) BY <2>1, LenProperties
  <2>3. section - 1 = Len(source) BY <2>1, <2>2
  <2> QED BY <2>2, <2>3 DEF JoinInv, VisiblesUpto
<1>3. NothingLost BY <1>2 DEF JoinInv, NothingLost, Neat
<1> QED BY <1>1, <1>3 DEF TextKept

(* ------------------------------- Chunking ------------------------------ *)

(* A turn of the loop has covered the text up to its window's end, and the *)
(* next window starts no later than that; the chunks cut so far start and  *)
(* end before the next window does.                                        *)
Progress ==
  /\ pc \in {"check", "cut"} =>
       /\ \A i \in 1..Length : Visible(i) /\ i <= start => Covered(i)
       /\ \A k \in DOMAIN chunks : /\ chunks[k].start < start
                                   /\ chunks[k].end < start + size
                                   /\ chunks[k].end < Length
  /\ pc = "check" => start = 0 /\ chunks = <<>>
  /\ pc = "cut" => size >= 1 /\ overlap < size

IInv == TypeOK /\ Progress /\ EverythingCovered /\ WindowsAdvance

LEMMA Appended ==
  ASSUME NEW T, NEW s \in Seq(T), NEW e \in T, NEW t, t = Append(s, e)
  PROVE  /\ t \in Seq(T) /\ Len(s) \in Nat /\ Len(t) = Len(s) + 1
         /\ DOMAIN s = 1..Len(s) /\ DOMAIN t = 1..Len(s) + 1
         /\ \A k \in 1..Len(s) : t[k] = s[k]
         /\ t[Len(s) + 1] = e
  OBVIOUS

LEMMA InitInv == Init => IInv
  BY InputsAssumption
  DEF Init, IInv, TypeOK, Progress, EverythingCovered, WindowsAdvance

(* The window is a slice of the text, and not an empty one.                *)
LEMMA WindowFacts ==
  ASSUME IInv, pc = "cut", start < Length
  PROVE  /\ Length \in Nat /\ size \in Nat /\ overlap \in Nat /\ start \in Nat
         /\ size >= 1 /\ overlap < size
         /\ WindowEnd \in Nat /\ start < WindowEnd
         /\ WindowEnd <= Length /\ WindowEnd <= start + size
         /\ WindowEnd # Length => WindowEnd = start + size
  BY InputsAssumption DEF IInv, TypeOK, Progress, Input, Length, WindowEnd

LEMMA CutStep == IInv /\ CutWindow => IInv'
<1> SUFFICES ASSUME IInv, CutWindow PROVE IInv'
  OBVIOUS
<1> DEFINE new == [start |-> start, end |-> WindowEnd, locations |-> LocationsIn(Window)]
           Piece == [start : Nat, end : Nat, locations : SUBSET Nat]
<1>1. /\ pc = "cut" /\ start < Length /\ UNCHANGED args
      /\ input' = input /\ size' = size /\ overlap' = overlap
      /\ chunks' = chunks \/ (HasText /\ chunks' = Append(chunks, new))
      /\ HasText => chunks' = Append(chunks, new)
  BY DEF CutWindow, args
<1>2. /\ Length \in Nat /\ size \in Nat /\ overlap \in Nat /\ start \in Nat
      /\ size >= 1 /\ overlap < size
      /\ WindowEnd \in Nat /\ start < WindowEnd
      /\ WindowEnd <= Length /\ WindowEnd <= start + size
      /\ WindowEnd # Length => WindowEnd = start + size
  BY <1>1, WindowFacts
<1>3. Length' = Length /\ \A i : Visible(i)' <=> Visible(i)
  BY <1>1 DEF Length, Visible
<1>4. new \in Piece
  BY <1>2 DEF LocationsIn, IInv, TypeOK, Input
<1>5. chunks \in Seq(Piece)
  BY DEF IInv, TypeOK
<1> HIDE DEF Piece
<1>6. chunks' \in Seq(Piece)
  <2> HIDE DEF new
  <2> QED
    BY <1>1, <1>4, <1>5, Appended
<1>7. /\ DOMAIN chunks = 1..Len(chunks) /\ Len(chunks) \in Nat
      /\ \A k \in DOMAIN chunks : k \in DOMAIN chunks' /\ chunks'[k] = chunks[k]
      /\ \A k \in DOMAIN chunks' : k \notin DOMAIN chunks =>
           k = Len(chunks) + 1 /\ chunks'[k] = new
      /\ HasText => Len(chunks) + 1 \in DOMAIN chunks' /\ chunks'[Len(chunks) + 1] = new
      /\ DOMAIN chunks' \subseteq 1..Len(chunks) + 1
  <2> HIDE DEF new
  <2>1. DOMAIN chunks = 1..Len(chunks) /\ Len(chunks) \in Nat
    BY <1>5
  <2>2. CASE chunks' = chunks /\ ~HasText
    BY <2>1, <2>2
  <2>3. CASE chunks' = Append(chunks, new)
    <3>1. /\ DOMAIN chunks' = 1..Len(chunks) + 1
          /\ \A k \in 1..Len(chunks) : chunks'[k] = chunks[k]
          /\ chunks'[Len(chunks) + 1] = new
      BY <1>4, <1>5, <2>3, Appended
    <3> QED
      BY <2>1, <3>1
  <2> QED
    BY <1>1, <2>2, <2>3
<1>8. new.start = start /\ new.end = WindowEnd
  OBVIOUS
<1> HIDE DEF new
<1>9. TypeOK'
  <2>1. start' \in Nat
    BY <1>1, <1>2 DEF CutWindow, Advance
  <2>2. pc' \in {"check", "cut", "done", "failed"}
    BY <1>1 DEF CutWindow
  <2> QED
    BY <1>1, <1>6, <2>1, <2>2 DEF IInv, TypeOK, Piece
<1>10. \A i \in 1..Length : Visible(i) /\ i <= WindowEnd => Covered(i)'
  <2> SUFFICES ASSUME NEW i \in 1..Length, Visible(i), i <= WindowEnd PROVE Covered(i)'
    OBVIOUS
  <2>1. CASE i <= start
    <3>1. PICK k \in DOMAIN chunks : Within(i, chunks[k])
      BY <1>1, <2>1 DEF IInv, Progress, Covered
    <3> QED
      BY <1>7, <3>1 DEF Covered, Within
  <2>2. CASE ~(i <= start)
    <3>1. HasText
      BY <1>2, <2>2 DEF HasText, Within, Window
    <3> QED
      BY <1>2, <1>7, <1>8, <2>2, <3>1 DEF Covered, Within
  <2> QED
    BY <2>1, <2>2
<1>11. \A k \in DOMAIN chunks : /\ chunks[k].start < start /\ chunks[k].end < start + size
                                /\ chunks[k].end < Length
                                /\ chunks[k].start \in Nat /\ chunks[k].end \in Nat
  <2>1. \A k \in DOMAIN chunks : chunks[k] \in Piece
    BY <1>5
  <2> QED
    BY <1>1, <2>1 DEF IInv, Progress, Piece
<1>12. WindowsAdvance'
  <2>1. ASSUME NEW k \in DOMAIN chunks'
        PROVE  /\ chunks'[k].start < chunks'[k].end
               /\ chunks'[k].end <= chunks'[k].start + size
               /\ chunks'[k].end <= Length
    BY <1>2, <1>7, <1>8 DEF IInv, WindowsAdvance
  <2>2. ASSUME NEW j \in DOMAIN chunks', NEW k \in DOMAIN chunks', j < k
        PROVE  chunks'[j].start < chunks'[k].start /\ chunks'[j].end < chunks'[k].end
    <3>1. CASE k \in DOMAIN chunks
      <4>1. j \in DOMAIN chunks
        BY <1>5, <1>6, <2>2, <3>1
      <4> QED
        BY <1>7, <2>2, <3>1, <4>1 DEF IInv, WindowsAdvance
    <3>2. CASE k \notin DOMAIN chunks
      <4>1. j \in DOMAIN chunks /\ chunks'[k] = new
        BY <1>5, <1>6, <1>7, <2>2, <3>2
      <4> QED
        BY <1>2, <1>7, <1>8, <1>11, <4>1
    <3> QED
      BY <3>1, <3>2
  <2> QED
    BY <1>1, <1>3, <2>1, <2>2 DEF WindowsAdvance
<1>13. CASE LastWindow
  <2>1. pc' \in {"done", "failed"} /\ WindowEnd = Length
    BY <1>13 DEF CutWindow, LastWindow
  <2>2. EverythingCovered'
    BY <1>2, <1>3, <1>10, <2>1 DEF EverythingCovered
  <2> QED
    BY <1>9, <1>12, <2>1, <2>2 DEF IInv, Progress
<1>14. CASE ~LastWindow
  <2>1. pc' = "cut" /\ start' = start + Advance /\ WindowEnd = start + size
        /\ WindowEnd < Length
    BY <1>1, <1>2, <1>14 DEF CutWindow, LastWindow
  <2>2. start' <= WindowEnd /\ start < start' /\ start' \in Nat
        /\ start + size < start' + size
    BY <1>2, <2>1 DEF Advance
  <2>3. \A i \in 1..Length' : Visible(i)' /\ i <= start' => Covered(i)'
    BY <1>2, <1>3, <1>10, <2>2
  <2>4. \A k \in DOMAIN chunks' : /\ chunks'[k].start < start'
                                  /\ chunks'[k].end < start' + size
                                  /\ chunks'[k].end < Length
    BY <1>2, <1>7, <1>8, <1>11, <2>1, <2>2, SMTT(20)
  <2>5. Progress'
    BY <1>1, <1>2, <1>3, <2>1, <2>3, <2>4 DEF Progress
  <2>6. EverythingCovered'
    BY <2>1 DEF EverythingCovered
  <2> QED
    BY <1>9, <1>12, <2>5, <2>6 DEF IInv
<1> QED
  BY <1>13, <1>14

LEMMA InvStep == IInv /\ [Next]_vars => IInv'
<1> SUFFICES ASSUME IInv, [Next]_vars PROVE IInv'
  OBVIOUS
<1> USE DEF Progress, EverythingCovered, WindowsAdvance, Covered, Visible, Length, Within
<1>1. CASE CheckConfig
  <2>1. UNCHANGED <<args, start, chunks>> /\ pc' \in {"cut", "failed"}
        /\ pc = "check"
    BY <1>1 DEF CheckConfig
  <2>2. TypeOK'
    BY <2>1 DEF IInv, TypeOK, args
  <2>3. pc' = "cut" => size >= 1 /\ overlap < size
    BY <1>1 DEF CheckConfig, IInv, TypeOK
  <2> QED
    BY <2>1, <2>2, <2>3 DEF IInv, args
<1>2. CASE UNCHANGED vars
  BY <1>2 DEF vars, args, IInv, TypeOK
<1> QED
  BY <1>1, <1>2, CutStep DEF Next

LEMMA Invariance == Spec => []IInv
  BY InitInv, InvStep, PTL DEF Spec

(* Chunks are slices of the text in a result of its type.                  *)
THEOREM ChunksTyped == Spec => []TypeOK
<1>1. IInv => TypeOK
  BY DEF IInv
<1> QED
  BY <1>1, Invariance, PTL

(* Whatever the text, the chunk size and the overlap, nothing visible is   *)
(* left out of the chunks.                                                 *)
THEOREM ChunksCover == Spec => []EverythingCovered
<1>1. IInv => EverythingCovered
  BY DEF IInv
<1> QED
  BY <1>1, Invariance, PTL

(* ... and no chunk lies within another one.                               *)
THEOREM ChunksAdvance == Spec => []WindowsAdvance
<1>1. IInv => WindowsAdvance
  BY DEF IInv
<1> QED
  BY <1>1, Invariance, PTL

(* Both: the chunks cover the text and none repeats another.               *)
THEOREM ChunksSound == Spec => []WindowsSound
<1>1. EverythingCovered /\ WindowsAdvance => WindowsSound
  BY DEF WindowsSound
<1> QED
  BY <1>1, ChunksCover, ChunksAdvance, PTL

(* What normalize hands over: a neat text, and no empty range.             *)
Prepared ==
  /\ Neat(input.text)
  /\ \A l \in DOMAIN input.locations : input.locations[l].start < input.locations[l].end

(* The next window starts the overlap before the end of the last chunk:    *)
(* in a neat text a window of two characters is never blank, and the last  *)
(* one ends in a visible character whatever its size.                      *)
NextWindow ==
  pc = "cut" /\ size > 1 =>
    IF chunks = <<>> THEN start = 0 ELSE chunks[Len(chunks)].end = start + overlap

ConfigDecides == /\ pc = "failed" => size <= overlap
                 /\ pc = "done" => overlap < size

Faithful == Prepared /\ OverlapKept /\ CitesItsSections /\ NextWindow /\ ConfigDecides

LEMMA WindowHasText ==
  ASSUME IInv, Prepared, pc = "cut", start < Length, LastWindow \/ size > 1
  PROVE  HasText
<1>1. /\ Length \in Nat /\ size \in Nat /\ start \in Nat
      /\ WindowEnd \in Nat /\ start < WindowEnd /\ WindowEnd <= Length
      /\ WindowEnd # Length => WindowEnd = start + size
  BY WindowFacts
<1>2. input.text \in Texts /\ DOMAIN input.text = 1..Length /\ Neat(input.text)
  BY LenProperties DEF IInv, TypeOK, Input, Texts, Prepared, Length
<1>3. CASE LastWindow
  <2>1. WindowEnd = Length /\ Length \in 1..Length BY <1>1, <1>3 DEF LastWindow
  <2>2. input.text # <<>> BY <1>1, <2>1 DEF Length
  <2>3. input.text[Length] = "visible" BY <1>2, <2>2, NeatEnds DEF Length
  <2> QED BY <1>1, <2>1, <2>3 DEF HasText, Visible, Within, Window
<1>4. CASE ~LastWindow
  <2>1. /\ WindowEnd = start + size /\ size > 1 /\ start + 1 \in 1..Length
        /\ start + 2 \in 1..Length /\ start + 2 <= WindowEnd /\ (start + 1) + 1 = start + 2
    BY <1>1, <1>4 DEF LastWindow
  <2>2. input.text[start + 1] \in {"visible", "blank"}
    BY <1>2, <2>1, ElementOfSeq DEF Texts, TextChars, Length
  <2>3. input.text[start + 1] = "blank" => input.text[start + 2] = "visible"
    BY <1>2, <2>1 DEF Neat
  <2>4. /\ Within(start + 1, Window) /\ Within(start + 2, Window)
    BY <1>1, <2>1 DEF Within, Window
  <2> QED BY <2>1, <2>2, <2>3, <2>4 DEF HasText, Visible
<1> QED BY <1>3, <1>4

(* Two ranges that are not empty touch exactly when they share a character. *)
LEMMA Shared ==
  ASSUME NEW a \in Nat, NEW b \in Nat, a < b, NEW c \in Nat, NEW d \in Nat, c < d,
         NEW n \in Nat, b <= n
  PROVE  (c < b /\ d > a) <=> \E i \in 1..n : a < i /\ i <= b /\ c < i /\ i <= d
<1>1. ASSUME c < b, d > a PROVE \E i \in 1..n : a < i /\ i <= b /\ c < i /\ i <= d
  <2>1. CASE a <= c
    <3>1. c + 1 \in 1..n /\ a < c + 1 /\ c + 1 <= b /\ c < c + 1 /\ c + 1 <= d BY <1>1, <2>1
    <3> QED BY <3>1
  <2>2. CASE c < a
    <3>1. a + 1 \in 1..n /\ a < a + 1 /\ a + 1 <= b /\ c < a + 1 /\ a + 1 <= d BY <1>1, <2>2
    <3> QED BY <3>1
  <2> QED BY <2>1, <2>2
<1>2. ASSUME NEW i \in 1..n, a < i, i <= b, c < i, i <= d PROVE c < b /\ d > a
  BY <1>2
<1> QED BY <1>1, <1>2

LEMMA FaithfulCut == IInv /\ Faithful /\ CutWindow => Faithful'
<1> SUFFICES ASSUME IInv, Faithful, CutWindow PROVE Faithful' OBVIOUS
<1> DEFINE new == [start |-> start, end |-> WindowEnd, locations |-> LocationsIn(Window)]
           Piece == [start : Nat, end : Nat, locations : SUBSET Nat]
<1>1. /\ pc = "cut" /\ start < Length
      /\ input' = input /\ size' = size /\ overlap' = overlap
      /\ HasText => chunks' = Append(chunks, new)
      /\ ~HasText => chunks' = chunks
  BY DEF CutWindow, args
<1>2. /\ Length \in Nat /\ size \in Nat /\ overlap \in Nat /\ start \in Nat
      /\ size >= 1 /\ overlap < size
      /\ WindowEnd \in Nat /\ start < WindowEnd
      /\ WindowEnd <= Length /\ WindowEnd <= start + size
      /\ WindowEnd # Length => WindowEnd = start + size
  BY <1>1, WindowFacts
<1>3. Length' = Length BY <1>1 DEF Length
<1>4. new \in Piece
  BY <1>2 DEF LocationsIn, IInv, TypeOK, Input
<1>5. chunks \in Seq(Piece) BY DEF IInv, TypeOK
<1>6. /\ new.start = start /\ new.end = WindowEnd
      /\ new.locations = LocationsIn(Window)
  OBVIOUS
<1> HIDE DEF new, Piece
<1>7. /\ DOMAIN chunks = 1..Len(chunks) /\ Len(chunks) \in Nat
      /\ chunks = <<>> <=> Len(chunks) = 0
  BY <1>5, LenProperties, EmptySeq
<1>8. HasText => /\ DOMAIN chunks' = 1..Len(chunks) + 1 /\ Len(chunks') = Len(chunks) + 1
                 /\ \A k \in 1..Len(chunks) : chunks'[k] = chunks[k]
                 /\ chunks'[Len(chunks) + 1] = new /\ chunks' # <<>>
  <2> SUFFICES ASSUME HasText
               PROVE  /\ DOMAIN chunks' = 1..Len(chunks) + 1 /\ Len(chunks') = Len(chunks) + 1
                      /\ \A k \in 1..Len(chunks) : chunks'[k] = chunks[k]
                      /\ chunks'[Len(chunks) + 1] = new /\ chunks' # <<>>
    OBVIOUS
  <2>1. chunks' = Append(chunks, new) BY <1>1
  <2>2. /\ DOMAIN chunks' = 1..Len(chunks) + 1 /\ Len(chunks') = Len(chunks) + 1
        /\ \A k \in 1..Len(chunks) : chunks'[k] = chunks[k]
        /\ chunks'[Len(chunks) + 1] = new
    BY <1>4, <1>5, <2>1, Appended
  <2>3. chunks' # <<>> BY <1>7, <2>2
  <2> QED BY <2>2, <2>3
<1>9. Prepared' BY <1>1 DEF Faithful, Prepared, Neat
<1>10. LastWindow \/ size > 1 => HasText BY <1>1, WindowHasText DEF Faithful
<1>11. OverlapKept'
  <2> SUFFICES ASSUME size > 1, NEW k \in DOMAIN chunks', k + 1 \in DOMAIN chunks'
               PROVE  chunks'[k].end - chunks'[k + 1].start = overlap
    BY <1>1 DEF OverlapKept
  <2>1. HasText BY <1>10
  <2>2. k \in 1..Len(chunks) /\ k + 1 \in 1..Len(chunks) + 1 BY <1>7, <1>8, <2>1
  <2>3. CASE k + 1 = Len(chunks) + 1
    <3>1. k = Len(chunks) /\ chunks # <<>> BY <1>7, <2>2, <2>3
    <3>2. chunks[k].end = start + overlap BY <1>1, <3>1 DEF Faithful, NextWindow
    <3>3. chunks'[k] = chunks[k] /\ chunks'[k + 1].start = start BY <1>6, <1>8, <2>1, <2>2, <2>3
    <3> QED BY <1>2, <3>2, <3>3
  <2>4. CASE k + 1 # Len(chunks) + 1
    <3>1. k + 1 \in 1..Len(chunks) BY <1>7, <2>2, <2>4
    <3> QED BY <1>7, <1>8, <2>1, <2>2, <3>1 DEF Faithful, OverlapKept
  <2> QED BY <2>3, <2>4
<1>12. CitesItsSections'
  <2>1. ASSUME NEW l \in DOMAIN input.locations
        PROVE  l \in new.locations <=>
                 \E i \in 1..Length : Within(i, new) /\ Within(i, input.locations[l])
    <3> DEFINE r == input.locations[l]
    <3>1. r \in Slice /\ r.start < r.end
      BY ElementOfSeq, LenProperties DEF IInv, TypeOK, Input, Faithful, Prepared
    <3>2. l \in new.locations <=> r.start < WindowEnd /\ r.end > start
      BY <1>6 DEF LocationsIn, Window
    <3>3. r.start \in Nat /\ r.end \in Nat BY <3>1 DEF Slice
    <3> HIDE DEF r
    <3>4. (r.start < WindowEnd /\ r.end > start) <=>
            \E i \in 1..Length : start < i /\ i <= WindowEnd /\ r.start < i /\ i <= r.end
      BY <1>2, <3>1, <3>3, Shared
    <3> QED BY <1>6, <3>2, <3>4 DEF Within, r
  <2>2. CASE ~HasText
    BY <1>1, <1>3, <2>2 DEF Faithful, CitesItsSections, Within
  <2>3. CASE HasText
    <3> SUFFICES ASSUME NEW k \in DOMAIN chunks', NEW l \in DOMAIN input.locations
                 PROVE  l \in chunks'[k].locations <=>
                          \E i \in 1..Length : /\ Within(i, chunks'[k])
                                               /\ Within(i, input.locations[l])
      BY <1>1, <1>3 DEF CitesItsSections, Within
    <3>1. CASE k = Len(chunks) + 1 BY <1>8, <2>1, <2>3, <3>1
    <3>2. CASE k # Len(chunks) + 1
      <4>1. k \in 1..Len(chunks) BY <1>7, <1>8, <2>3, <3>2
      <4>2. chunks'[k] = chunks[k] BY <1>8, <2>3, <4>1
      <4> QED BY <1>7, <4>1, <4>2 DEF Faithful, CitesItsSections
    <3> QED BY <3>1, <3>2
  <2> QED BY <2>2, <2>3
<1>13. CASE LastWindow
  <2>1. pc' = "done"
    <3>1. chunks' # <<>> BY <1>8, <1>10, <1>13
    <3> QED BY <1>13, <3>1 DEF CutWindow
  <2>2. NextWindow' /\ ConfigDecides' BY <1>1, <1>2, <2>1 DEF NextWindow, ConfigDecides
  <2> QED BY <1>9, <1>11, <1>12, <2>2 DEF Faithful
<1>14. CASE ~LastWindow
  <2>1. pc' = "cut" /\ start' = start + Advance /\ WindowEnd = start + size
    BY <1>1, <1>2, <1>14 DEF CutWindow, LastWindow
  <2>2. ASSUME size > 1 PROVE chunks' # <<>> /\ chunks'[Len(chunks')].end = start' + overlap
    <3>1. HasText BY <1>10, <2>2
    <3>2. chunks' # <<>> /\ chunks'[Len(chunks')] = new BY <1>8, <3>1
    <3> QED BY <1>2, <1>6, <2>1, <3>2 DEF Advance
  <2>3. NextWindow' /\ ConfigDecides' BY <1>1, <2>1, <2>2 DEF NextWindow, ConfigDecides
  <2> QED BY <1>9, <1>11, <1>12, <2>3 DEF Faithful
<1> QED BY <1>13, <1>14

LEMMA FaithfulStep == IInv /\ Faithful /\ [Next]_vars => Faithful'
<1> SUFFICES ASSUME IInv, Faithful, [Next]_vars PROVE Faithful' OBVIOUS
<1>1. CASE CheckConfig
  <2>1. /\ UNCHANGED <<input, size, overlap, start, chunks>> /\ pc = "check"
        /\ pc' = IF size < 1 \/ overlap >= size THEN "failed" ELSE "cut"
    BY <1>1 DEF CheckConfig, args
  <2>2. start = 0 /\ chunks = <<>> /\ size \in Nat /\ overlap \in Nat
    BY <2>1, InputsAssumption DEF IInv, Progress, TypeOK
  <2>3. NextWindow' /\ ConfigDecides' BY <2>1, <2>2 DEF NextWindow, ConfigDecides
  <2> QED BY <2>1, <2>3 DEF Faithful, Prepared, Neat, OverlapKept, CitesItsSections, Within, Length
<1>2. CASE UNCHANGED vars
  BY <1>2 DEF vars, args, Faithful, Prepared, Neat, OverlapKept, CitesItsSections, Within, Length,
              NextWindow, ConfigDecides
<1> QED BY <1>1, <1>2, FaithfulCut DEF Next

(* ------------------------------ Both stages ---------------------------- *)

(* Chunking has not begun before it has read what normalize handed over,   *)
(* and a document without text goes no further.                            *)
ContentInv ==
  /\ JoinInv /\ IInv /\ Faithful
  /\ \/ input = NoArtifact /\ pc = "check"
     \/ input = ChunkInput /\ joining = "done"

LEMMA ContentStarts == Prepare => ContentInv
<1> SUFFICES ASSUME Prepare PROVE ContentInv OBVIOUS
<1>1. JoinInv /\ IInv BY JoinStarts, InitInv DEF Prepare
<1>2. /\ input = NoArtifact /\ pc = "check" /\ chunks = <<>>
      /\ input.text = <<>> /\ input.locations = <<>>
  BY DEF Prepare, Init, NoArtifact
<1>3. Faithful
  BY <1>2, ShortTexts
  DEF Faithful, Prepared, OverlapKept, CitesItsSections, NextWindow, ConfigDecides
<1> QED BY <1>1, <1>2, <1>3 DEF ContentInv

LEMMA HandedOver ==
  ASSUME JoinInv
  PROVE  /\ ChunkInput \in Input /\ Neat(ChunkInput.text)
         /\ \A l \in DOMAIN ChunkInput.locations :
              ChunkInput.locations[l].start < ChunkInput.locations[l].end
<1> DEFINE n == Len(locations)
           ranges == [k \in DOMAIN locations |-> [start |-> locations[k].start,
                                                  end   |-> locations[k].end]]
<1>1. /\ n \in Nat /\ DOMAIN locations = 1..n
      /\ \A k \in 1..n : locations[k] \in Location
  BY LenProperties, ElementOfSeq DEF JoinInv, JoinTypeOK
<1>2. Text \in Texts /\ Neat(Text) BY DEF JoinInv
<1>3. ChunkInput.text = Text /\ ChunkInput.locations = ranges
      /\ ChunkInput = [text |-> Text, locations |-> ranges]
  BY DEF ChunkInput
<1>4. \A k \in 1..n : ranges[k].start = locations[k].start /\ ranges[k].end = locations[k].end
                      /\ ranges[k] \in Slice
  BY <1>1 DEF Location, Slice
<1>5. DOMAIN ranges = 1..n BY <1>1
<1>6. ranges \in Seq(Slice)
  <2>1. ranges \in [1..n -> Slice] BY <1>1, <1>4
  <2> HIDE DEF ranges, n
  <2> QED BY <1>1, <2>1, SeqDef
<1>7. \A k \in 1..n : locations[k].start < locations[k].end
  BY <1>1 DEF JoinInv, Whereabouts
<1> HIDE DEF ranges
<1> QED BY <1>2, <1>3, <1>4, <1>5, <1>6, <1>7 DEF Input, Texts

LEMMA ReadStep == ContentInv /\ ReadArtifact => ContentInv'
<1> SUFFICES ASSUME ContentInv, ReadArtifact PROVE ContentInv' OBVIOUS
<1>1. /\ input' = ChunkInput /\ joining = "done" /\ input = NoArtifact
      /\ UNCHANGED <<size, overlap, pc, start, chunks>> /\ UNCHANGED normalizing
  BY DEF ReadArtifact
<1>2. JoinInv' BY <1>1, JoinStutters DEF ContentInv
<1>3. UNCHANGED <<source, joining, parts, locations>> BY <1>1 DEF normalizing
<1>4. ChunkInput' = ChunkInput BY <1>3 DEF ChunkInput, Text
<1>5. pc = "check" \/ joining # "done" \/ input = ChunkInput BY DEF ContentInv
<1>6. /\ ChunkInput \in Input /\ Neat(ChunkInput.text)
      /\ \A l \in DOMAIN ChunkInput.locations :
           ChunkInput.locations[l].start < ChunkInput.locations[l].end
  BY HandedOver DEF ContentInv
<1>7. pc = "check"
  <2>1. CASE input = ChunkInput
    <3>1. Text = <<>> BY <1>1, <2>1 DEF ChunkInput, NoArtifact
    <3>2. joining = Outcome /\ parts = <<>> BY <1>1, <3>1 DEF ContentInv, JoinInv
    <3> QED BY <1>1, <3>2 DEF Outcome
  <2> QED BY <1>1, <2>1 DEF ContentInv
<1>8. chunks = <<>> /\ start = 0 BY <1>7 DEF ContentInv, IInv, Progress
<1>9. IInv'
  <2>1. TypeOK' BY <1>1, <1>6 DEF ContentInv, IInv, TypeOK
  <2>2. \A i \in 1..Length' : ~(i <= 0) OBVIOUS
  <2>3. Progress' BY <1>1, <1>7, <1>8, <2>2 DEF Progress
  <2> QED BY <1>1, <1>7, <1>8, <2>1, <2>3 DEF IInv, EverythingCovered, WindowsAdvance
<1>10. Faithful'
  BY <1>1, <1>6, <1>7, <1>8
  DEF Faithful, Prepared, Neat, OverlapKept, CitesItsSections, NextWindow, ConfigDecides
<1> QED BY <1>1, <1>2, <1>3, <1>4, <1>9, <1>10 DEF ContentInv

LEMMA ContentSteps == ContentInv /\ [ContentNext]_contentVars => ContentInv'
<1> SUFFICES ASSUME ContentInv, [ContentNext]_contentVars PROVE ContentInv' OBVIOUS
<1>1. CASE Normalize
  <2>1. UNCHANGED vars /\ (JoinSection \/ Return) /\ joining = "join"
    BY <1>1 DEF Normalize, NormalizeNext, JoinSection, Return
  <2>2. JoinInv' BY <2>1, JoinStep, ReturnStep DEF ContentInv
  <2>3. IInv' /\ Faithful' BY <2>1, InvStep, FaithfulStep DEF ContentInv
  <2>4. input' = NoArtifact /\ pc' = "check" BY <2>1 DEF ContentInv, vars, args
  <2>5. NoArtifact' = NoArtifact BY DEF NoArtifact
  <2> QED BY <2>2, <2>3, <2>4, <2>5 DEF ContentInv
<1>2. CASE Chunk
  <2>1. Next /\ UNCHANGED normalizing /\ input # NoArtifact BY <1>2 DEF Chunk
  <2>2. JoinInv' BY <2>1, JoinStutters DEF ContentInv
  <2>3. IInv' /\ Faithful' BY <2>1, InvStep, FaithfulStep DEF ContentInv
  <2>4. input' = input BY <2>1 DEF Next, CheckConfig, CutWindow, args
  <2>5. ChunkInput' = ChunkInput /\ joining' = joining
    BY <2>1 DEF normalizing, ChunkInput, Text
  <2> QED BY <2>1, <2>2, <2>3, <2>4, <2>5 DEF ContentInv
<1>3. CASE UNCHANGED contentVars
  <2>1. UNCHANGED vars /\ UNCHANGED normalizing BY <1>3 DEF contentVars
  <2>2. JoinInv' BY <2>1, JoinStutters DEF ContentInv
  <2>3. IInv' /\ Faithful' BY <2>1, InvStep, FaithfulStep DEF ContentInv
  <2>4. input' = input /\ pc' = pc BY <2>1 DEF vars, args
  <2>5. ChunkInput' = ChunkInput /\ joining' = joining /\ NoArtifact' = NoArtifact
    BY <2>1 DEF normalizing, ChunkInput, Text, NoArtifact
  <2> QED BY <2>2, <2>3, <2>4, <2>5 DEF ContentInv
<1> QED BY <1>1, <1>2, <1>3, ReadStep DEF ContentNext, Idle

LEMMA ContentInvariance == ContentSpec => []ContentInv
  BY ContentStarts, ContentSteps, PTL DEF ContentSpec

(* Sections, text and ranges stay what their types say, and so do the      *)
(* chunks cut from them.                                                   *)
THEOREM ContentTyped == ContentSpec => [](JoinTypeOK /\ TypeOK)
<1>1. ContentInv => JoinTypeOK /\ TypeOK BY DEF ContentInv, JoinInv, IInv
<1> QED BY <1>1, ContentInvariance, PTL

(* Whatever the parser returns, normalize loses no visible character,      *)
(* leaves no blank at an end or beside another one, and every range it     *)
(* records is where the final join puts that section.                      *)
THEOREM TextAlwaysKept == ContentSpec => []TextKept
<1>1. ContentInv => TextKept BY JoinKeepsText DEF ContentInv
<1> QED BY <1>1, ContentInvariance, PTL

(* On such a text chunks share exactly the configured overlap and cite     *)
(* exactly the sections they have a character of.                          *)
THEOREM SlicesAlwaysFaithful == ContentSpec => []SlicesFaithful
<1>1. ContentInv => SlicesFaithful BY DEF ContentInv, Faithful, SlicesFaithful
<1> QED BY <1>1, ContentInvariance, PTL

(* Nothing visible is left out of the chunks and none repeats another,     *)
(* when the text is the one normalize made.                                *)
THEOREM ContentSound == ContentSpec => []WindowsSound
<1>1. ContentInv => WindowsSound BY DEF ContentInv, IInv, WindowsSound
<1> QED BY <1>1, ContentInvariance, PTL

(* What a run of both stages ends in is decided by the source and the      *)
(* configuration alone.                                                    *)
HasChunks == (\E k \in DOMAIN source : HasVisible(source[k])) /\ overlap < size
EndsRight == Ended => (pc = "done" <=> HasChunks)

LEMMA SomethingVisible ==
  ASSUME JoinInv, joining # "join"
  PROVE  joining = "done" <=> \E k \in DOMAIN source : HasVisible(source[k])
<1> DEFINE Seen == UNION {{n} \X Visibles(source[n]) : n \in DOMAIN source}
<1>1. Cardinality(Visibles(Text)) = Cardinality(Seen)
  BY JoinKeepsText DEF TextKept, NothingLost
<1>2. /\ joining = Outcome /\ (parts = <<>> <=> Text = <<>>) /\ Text \in Texts /\ Neat(Text)
      /\ source \in Seq(Seq(Chars))
  BY DEF JoinInv, JoinTypeOK
<1>3. joining = "done" <=> Text # <<>> BY <1>2 DEF Outcome
<1>4. IsFiniteSet(Visibles(Text)) BY <1>2, VisiblesFinite DEF Texts
<1>5. Text # <<>> <=> Visibles(Text) # {}
  <2>1. ASSUME Text # <<>> PROVE 1 \in Visibles(Text)
    <3>1. Len(Text) \in Nat \ {0} /\ Text[1] = "visible" BY <1>2, <2>1, NeatEnds
    <3>2. DOMAIN Text = 1..Len(Text) BY <1>2, LenProperties DEF Texts
    <3> QED BY <3>1, <3>2 DEF Visibles
  <2>2. ASSUME Text = <<>> PROVE Visibles(Text) = {} BY <2>2, ShortTexts
  <2> QED BY <2>1, <2>2
<1>6. Visibles(Text) # {} <=> Cardinality(Visibles(Text)) # 0 BY <1>4, FS_EmptySet
<1>7. Seen # {} <=> \E k \in DOMAIN source : HasVisible(source[k])
  <2>1. ASSUME NEW p \in Seen PROVE \E k \in DOMAIN source : HasVisible(source[k])
    <3>1. PICK n \in DOMAIN source : p \in {n} \X Visibles(source[n]) BY <2>1
    <3>2. p[2] \in Visibles(source[n]) BY <3>1
    <3> QED BY <3>1, <3>2 DEF Visibles, HasVisible
  <2>2. ASSUME NEW k \in DOMAIN source, HasVisible(source[k]) PROVE Seen # {}
    <3>1. PICK i \in DOMAIN source[k] : source[k][i] = "visible" BY <2>2 DEF HasVisible
    <3>2. <<k, i>> \in {k} \X Visibles(source[k]) BY <3>1 DEF Visibles
    <3>3. <<k, i>> \in Seen BY <3>2
    <3> QED BY <3>3
  <2> QED BY <2>1, <2>2
<1>8. Seen # {} <=> Cardinality(Seen) # 0
  <2>1. section = Len(source) + 1 BY DEF JoinInv
  <2>2. Len(source) \in Nat /\ DOMAIN source = 1..Len(source) BY <1>2, LenProperties
  <2>3. IsFiniteSet(VisiblesUpto(Len(source))) BY <1>2, <2>2, UptoFinite
  <2>4. Seen = VisiblesUpto(Len(source)) BY <2>2 DEF VisiblesUpto
  <2> QED BY <2>3, <2>4, FS_EmptySet
<1> QED BY <1>1, <1>3, <1>5, <1>6, <1>7, <1>8

(* When both stages have come to an end, the document has chunks exactly   *)
(* when it has a visible character and the configured overlap is less than *)
(* the size: a text normalize accepts never fails in the chunk stage.      *)
THEOREM ContentEndsRight == ContentSpec => []EndsRight
<1>1. ContentInv => EndsRight
  <2> SUFFICES ASSUME ContentInv, Ended PROVE pc = "done" <=> HasChunks BY DEF EndsRight
  <2>1. CASE joining = "failed"
    <3>1. pc # "done" BY <2>1 DEF ContentInv
    <3>2. ~\E k \in DOMAIN source : HasVisible(source[k])
      BY <2>1, SomethingVisible DEF ContentInv
    <3> QED BY <3>1, <3>2 DEF HasChunks
  <2>2. CASE joining # "failed"
    <3>1. pc \in {"done", "failed"} BY <2>2 DEF Ended
    <3>2. joining = "done" BY <3>1 DEF ContentInv
    <3>3. \E k \in DOMAIN source : HasVisible(source[k])
      BY <3>2, SomethingVisible DEF ContentInv
    <3>4. size \in Nat /\ overlap \in Nat BY InputsAssumption DEF ContentInv, IInv, TypeOK
    <3> QED BY <3>1, <3>3, <3>4 DEF HasChunks, ContentInv, Faithful, ConfigDecides
  <2> QED BY <2>1, <2>2
<1> QED BY <1>1, ContentInvariance, PTL
=============================================================================
