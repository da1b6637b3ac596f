------------------------- MODULE ModelHistoryProofs -------------------------
EXTENDS ModelHistory, SequenceTheorems, FiniteSetTheorems, TLAPS

-----------------------------------------------------------------------------
(* Induction over the naturals, stated with sets: a set that holds 0 and the *)
(* successor of each of its naturals holds them all.  Otherwise subtracting  *)
(* one would map the missing numbers up to some n into themselves without n. *)
LEMMA SetInduction ==
  ASSUME NEW S, 0 \in S, \A n \in Nat : n \in S => n + 1 \in S
  PROVE  Nat \subseteq S
<1> SUFFICES ASSUME NEW n \in Nat, n \notin S PROVE FALSE
  OBVIOUS
<1> DEFINE T == {k \in 0..n : k \notin S}
<1> DEFINE f == [k \in T |-> k - 1]
<1>0. IsFiniteSet(0..n)
  BY FS_Interval
<1>1. IsFiniteSet(T)
  BY <1>0, FS_Subset
<1>2. IsFiniteSet(T \ {n}) /\ Cardinality(T \ {n}) < Cardinality(T)
  <2>1. n \in T OBVIOUS
  <2> HIDE DEF T
  <2>2. Cardinality(T) \in Nat BY <1>1, FS_CardinalityType
  <2>3. IsFiniteSet(T \ {n}) /\ Cardinality(T \ {n}) = Cardinality(T) - 1
    BY <2>1, <1>1, FS_RemoveElement
  <2> QED BY <2>2, <2>3
<1>3. f \in [T -> T \ {n}]
  <2> SUFFICES ASSUME NEW k \in T PROVE k - 1 \in T \ {n}
    OBVIOUS
  <2>1. k # 0 /\ k \in Nat OBVIOUS
  <2>2. k - 1 \in Nat BY <2>1
  <2>3. k - 1 \notin S BY <2>2, k = (k-1)+1
  <2> QED BY <2>1, <2>3
<1>4. PICK x \in T, y \in T : x # y /\ f[x] = f[y]
  <2> HIDE DEF T, f
  <2> QED BY <1>1, <1>2, <1>3, FS_PigeonHole
<1> QED
  <2>1. x - 1 = y - 1 BY <1>4
  <2> QED BY <1>4, <2>1

(* The same up to a bound.                                                  *)
LEMMA RangeInduction ==
  ASSUME NEW N \in Nat, NEW S, 0 \in S,
         \A n \in 0..(N - 1) : n \in S => n + 1 \in S
  PROVE  0..N \subseteq S
<1> DEFINE T == {n \in Nat : n <= N => n \in S}
<1>1. 0 \in T
  OBVIOUS
<1>2. \A n \in Nat : n \in T => n + 1 \in T
  OBVIOUS
<1>3. Nat \subseteq T
  <2> HIDE DEF T
  <2> QED BY <1>1, <1>2, SetInduction
<1> QED BY <1>3

(* A set of naturals that is not empty has a least element ...               *)
LEMMA LeastElement ==
  ASSUME NEW S, NEW n \in Nat, n \in S, S \subseteq Nat
  PROVE  \E m \in S : \A k \in S : m <= k
<1> SUFFICES ASSUME \A m \in S : \E k \in S : ~(m <= k) PROVE FALSE
  OBVIOUS
<1> DEFINE T == {i \in Nat : \A k \in 0..i : k \notin S}
<1>1. 0 \in T
  <2>1. 0 \notin S OBVIOUS
  <2> QED BY <2>1
<1>2. \A i \in Nat : i \in T => i + 1 \in T
  <2> SUFFICES ASSUME NEW i \in Nat, i \in T, i + 1 \in S PROVE FALSE
    OBVIOUS
  <2>1. PICK k \in S : ~(i + 1 <= k) OBVIOUS
  <2> QED BY <2>1
<1>3. Nat \subseteq T
  <2> HIDE DEF T
  <2> QED BY <1>1, <1>2, SetInduction
<1> QED BY <1>3

(* ... and a greatest one, if it is bounded.                                 *)
LEMMA GreatestElement ==
  ASSUME NEW S, NEW n \in S, S \subseteq Nat, NEW N \in Nat, \A k \in S : k <= N
  PROVE  \E m \in S : \A k \in S : k <= m
<1> DEFINE U == {i \in Nat : \A k \in S : k <= i}
<1>1. PICK m \in U : \A i \in U : m <= i
  <2>1. N \in U OBVIOUS
  <2>2. U \subseteq Nat OBVIOUS
  <2> HIDE DEF U
  <2> QED BY <2>1, <2>2, LeastElement
<1>2. CASE m \in S
  BY <1>1, <1>2
<1>3. CASE m \notin S
  <2>1. \A k \in S : k <= m - 1
    <3> TAKE k \in S
    <3>1. k <= m /\ k # m /\ k \in Nat /\ m \in Nat BY <1>1, <1>3
    <3> QED BY <3>1
  <2>2. m \in Nat /\ m > 0
    <3>1. n <= m - 1 /\ n \in Nat BY <2>1
    <3> QED BY <3>1, <1>1
  <2>3. m - 1 \in U BY <2>1, <2>2
  <2> QED BY <1>1, <2>2, <2>3
<1> QED BY <1>2, <1>3

LEMMA MinIsLeast ==
  ASSUME NEW S, NEW n \in S, S \subseteq Nat
  PROVE  Min(S) \in S /\ \A k \in S : Min(S) <= k
<1>1. \E m \in S : \A k \in S : m <= k
  BY LeastElement
<1> QED BY <1>1 DEF Min

LEMMA MaxIsGreatest ==
  ASSUME NEW S, NEW n \in S, S \subseteq Nat, NEW N \in Nat, \A k \in S : k <= N
  PROVE  Max(S) \in S /\ \A k \in S : k <= Max(S)
<1>1. \E m \in S : \A k \in S : k <= m
  BY GreatestElement
<1>2. \E m \in S : \A k \in S : m >= k
  BY <1>1
<1>3. Max(S) \in S /\ \A k \in S : Max(S) >= k
  BY <1>2 DEF Max
<1> QED BY <1>3

(* A function given by its value at 0 and a step from each value to the next *)
(* exists.                                                                  *)
Recurses(g, N, T, a, step) ==
  g \in [0..N -> T] /\ g[0] = a /\ \A n \in 1..N : g[n] = step[<<g[n - 1], n>>]

LEMMA RecursionExists ==
  ASSUME NEW N \in Nat, NEW T, NEW a \in T, NEW step \in [T \X (1..N) -> T]
  PROVE  \E g : Recurses(g, N, T, a, step)
<1> DEFINE P(k, g) == g[0] = a /\ \A n \in 1..k : g[n] = step[<<g[n - 1], n>>]
<1> DEFINE S == {k \in 0..N : \E g \in [0..k -> T] : P(k, g)}
<1>1. 0 \in S
  <2> DEFINE g == [i \in 0..0 |-> a]
  <2>1. g \in [0..0 -> T] OBVIOUS
  <2>2. P(0, g) OBVIOUS
  <2> HIDE DEF g, P
  <2> QED BY <2>1, <2>2
<1>2. \A k \in 0..(N - 1) : k \in S => k + 1 \in S
  <2> SUFFICES ASSUME NEW k \in 0..(N - 1), k \in S PROVE k + 1 \in S
    OBVIOUS
  <2>1. PICK g \in [0..k -> T] : P(k, g) OBVIOUS
  <2>2. step[<<g[k], k + 1>>] \in T
    <3>1. <<g[k], k + 1>> \in T \X (1..N) OBVIOUS
    <3> QED BY <3>1
  <2> DEFINE g1 == [i \in 0..(k + 1) |-> IF i <= k THEN g[i] ELSE step[<<g[k], k + 1>>]]
  <2>3. g1 \in [0..(k + 1) -> T] BY <2>2
  <2>4. g1[0] = a BY <2>1
  <2>5. ASSUME NEW n \in 1..(k + 1) PROVE g1[n] = step[<<g1[n - 1], n>>]
    <3>1. CASE n <= k
      <4>1. g1[n] = g[n] /\ g1[n - 1] = g[n - 1] BY <3>1
      <4>2. n \in 1..k BY <3>1
      <4> HIDE DEF g1
      <4> QED BY <2>1, <4>1, <4>2
    <3>2. CASE n = k + 1
      <4>1. g1[n] = step[<<g[k], k + 1>>] /\ g1[n - 1] = g[k] BY <3>2
      <4> HIDE DEF g1
      <4> QED BY <4>1, <3>2
    <3> QED BY <3>1, <3>2
  <2>6. P(k + 1, g1)
    <3> HIDE DEF g1
    <3> QED BY <2>4, <2>5
  <2> HIDE DEF g1, P
  <2> QED BY <2>3, <2>6
<1>3. 0..N \subseteq S
  <2> HIDE DEF S
  <2> QED BY <1>1, <1>2, RangeInduction
<1>4. N \in S
  <2>1. N \in 0..N OBVIOUS
  <2> HIDE DEF S
  <2> QED BY <2>1, <1>3
<1>5. PICK g \in [0..N -> T] : P(N, g)
  BY <1>4
<1>6. Recurses(g, N, T, a, step)
  BY <1>5 DEF Recurses
<1> QED BY <1>6

-----------------------------------------------------------------------------
(* Filtering a sequence.                                                    *)

Filters(kept, D, s, set) ==
  /\ kept \in [0..Len(s) -> Seq(D)]
  /\ kept[0] = <<>>
  /\ \A n \in 1..Len(s) :
       kept[n] = IF s[n] \in set THEN Append(kept[n - 1], s[n]) ELSE kept[n - 1]

LEMMA OnlySteps ==
  ASSUME NEW D, NEW s \in Seq(D), NEW set
  PROVE  \E kept : Only(s, set) = kept[Len(s)] /\ Filters(kept, D, s, set)
<1> DEFINE N == Len(s)
<1> DEFINE T == Seq(D)
<1> DEFINE Next1(p, n) == IF s[n] \in set THEN Append(p, s[n]) ELSE p
<1> DEFINE step == [p \in T \X (1..N) |-> Next1(p[1], p[2])]
<1>1. N \in Nat /\ <<>> \in T /\ \A n \in 1..N : s[n] \in D
  BY EmptySeq
<1>2. \A p \in T, n \in 1..N : Next1(p, n) \in T
  BY <1>1, AppendProperties
<1>3. Only(s, set) = (CHOOSE f : f = [n \in 0..N |-> IF n = 0 THEN <<>> ELSE Next1(f[n - 1], n)])[N]
  BY DEF Only
<1>4. \A p \in T, n \in 1..N : Next1(p, n) = IF s[n] \in set THEN Append(p, s[n]) ELSE p
  OBVIOUS
<1> HIDE DEF N, T, Next1
<1>5. step \in [T \X (1..N) -> T]
  BY <1>2
<1>6. \A p \in T, n \in 1..N : step[<<p, n>>] = Next1(p, n)
  OBVIOUS
<1> HIDE DEF step
<1>7. PICK g \in [0..N -> T] : g[0] = <<>> /\ \A n \in 1..N : g[n] = step[<<g[n - 1], n>>]
  <2>1. \E g : Recurses(g, N, T, <<>>, step)
    BY <1>1, <1>5, RecursionExists
  <2> QED BY <2>1 DEF Recurses
<1>8. \A n \in 1..N : g[n] = Next1(g[n - 1], n)
  <2> TAKE n \in 1..N
  <2>1. n - 1 \in 0..N BY <1>1
  <2>2. g[n - 1] \in T BY <1>7, <2>1
  <2>3. g[n] = step[<<g[n - 1], n>>] BY <1>7
  <2> QED BY <1>6, <2>2, <2>3
<1>9. g = [n \in 0..N |-> IF n = 0 THEN <<>> ELSE Next1(g[n - 1], n)]
  <2>1. \A n \in 0..N : g[n] = IF n = 0 THEN <<>> ELSE Next1(g[n - 1], n)
    BY <1>7, <1>8, <1>1
  <2> QED BY <2>1, <1>7
<1> DEFINE kept == CHOOSE f : f = [n \in 0..N |-> IF n = 0 THEN <<>> ELSE Next1(f[n - 1], n)]
<1>10. kept = [n \in 0..N |-> IF n = 0 THEN <<>> ELSE Next1(kept[n - 1], n)]
  BY <1>9
<1>11. Only(s, set) = kept[N]
  BY <1>3
<1> HIDE DEF kept
<1>12. kept[0] = <<>> /\ \A n \in 1..N : kept[n] = Next1(kept[n - 1], n)
  BY <1>10, <1>1
<1>13. kept \in [0..N -> T]
  <2> DEFINE S == {n \in 0..N : kept[n] \in T}
  <2>1. 0 \in S BY <1>12, <1>1
  <2>2. \A n \in 0..(N - 1) : n \in S => n + 1 \in S
    <3> TAKE n \in 0..(N - 1)
    <3> HAVE n \in S
    <3>1. n + 1 \in 1..N /\ n + 1 \in 0..N /\ (n + 1) - 1 = n BY <1>1
    <3>2. kept[n + 1] = Next1(kept[n], n + 1) BY <3>1, <1>12
    <3> QED BY <3>1, <3>2, <1>2
  <2>3. 0..N \subseteq S
    <3> HIDE DEF S
    <3> QED BY <1>1, <2>1, <2>2, RangeInduction
  <2> QED BY <2>3, <1>10
<1>14. \A n \in 1..N : kept[n] = IF s[n] \in set THEN Append(kept[n - 1], s[n]) ELSE kept[n - 1]
  <2> TAKE n \in 1..N
  <2>1. kept[n - 1] \in T BY <1>13, <1>1
  <2> QED BY <2>1, <1>4, <1>12
<1> QED BY <1>11, <1>12, <1>13, <1>14 DEF N, T, Filters

LEMMA ElementsOfAppend ==
  ASSUME NEW D, NEW s \in Seq(D), NEW e \in D
  PROVE  Elements(Append(s, e)) = Elements(s) \union {e}
BY AppendProperties DEF Elements

LEMMA ElementsFacts ==
  ASSUME NEW D, NEW s \in Seq(D)
  PROVE  /\ Elements(s) \subseteq D
         /\ \A i \in 1..Len(s) : s[i] \in Elements(s)
         /\ \A e \in Elements(s) : \E i \in 1..Len(s) : s[i] = e
         /\ Elements(s) = {} <=> s = <<>>
         /\ IsFiniteSet(Elements(s))
<1>1. DOMAIN s = 1..Len(s) /\ Len(s) \in Nat
  OBVIOUS
<1>2. Elements(s) = {} <=> s = <<>>
  <2>1. s # <<>> => 1 \in DOMAIN s BY EmptySeq, <1>1
  <2>2. DOMAIN <<>> = {} OBVIOUS
  <2> QED BY <2>1, <2>2 DEF Elements
<1>3. IsFiniteSet(Elements(s))
  <2> DEFINE f == [i \in 1..Len(s) |-> s[i]]
  <2>1. f \in Surjection(1..Len(s), Elements(s))
    BY <1>1 DEF Elements, Surjection
  <2>2. IsFiniteSet(1..Len(s)) BY <1>1, FS_Interval
  <2> HIDE DEF f
  <2> QED BY <2>1, <2>2, FS_Surjection
<1>4. \A e \in Elements(s) : \E i \in 1..Len(s) : s[i] = e
  BY <1>1 DEF Elements
<1>5. \A i \in 1..Len(s) : s[i] \in Elements(s)
  BY <1>1 DEF Elements
<1>6. Elements(s) \subseteq D
  BY <1>1 DEF Elements
<1> QED BY <1>2, <1>3, <1>4, <1>5, <1>6

(* A sequence in which nothing comes twice.                                  *)
Distinct(s) == \A i, j \in 1..Len(s) : s[i] = s[j] => i = j

LEMMA DistinctAppend ==
  ASSUME NEW D, NEW s \in Seq(D), NEW e \in D, Distinct(s), e \notin Elements(s)
  PROVE  Distinct(Append(s, e))
<1>1. Len(s) \in Nat /\ \A i \in 1..Len(s) : s[i] # e
  BY ElementsFacts
<1>2. Len(Append(s, e)) = Len(s) + 1
  BY AppendProperties
<1>3. \A i \in 1..Len(s) : Append(s, e)[i] = s[i]
  BY AppendProperties
<1>4. Append(s, e)[Len(s) + 1] = e
  BY AppendProperties
<1> SUFFICES ASSUME NEW i \in 1..(Len(s) + 1), NEW j \in 1..(Len(s) + 1),
                    Append(s, e)[i] = Append(s, e)[j]
             PROVE  i = j
  BY <1>2 DEF Distinct
<1>5. CASE i \in 1..Len(s) /\ j \in 1..Len(s)
  BY <1>5, <1>3 DEF Distinct
<1>6. CASE i = Len(s) + 1 /\ j \in 1..Len(s)
  BY <1>6, <1>1, <1>3, <1>4
<1>7. CASE j = Len(s) + 1 /\ i \in 1..Len(s)
  BY <1>7, <1>1, <1>3, <1>4
<1> QED BY <1>1, <1>5, <1>6, <1>7

LEMMA OnlyFacts ==
  ASSUME NEW D, NEW s \in Seq(D), NEW set
  PROVE  /\ Only(s, set) \in Seq(D)
         /\ Elements(Only(s, set)) = Elements(s) \intersect set
         /\ Distinct(s) => Distinct(Only(s, set))
<1> DEFINE N == Len(s)
<1>0. N \in Nat /\ \A n \in 1..N : s[n] \in D
  OBVIOUS
<1>1. PICK kept : Only(s, set) = kept[N] /\ Filters(kept, D, s, set)
  BY OnlySteps
<1>2. /\ kept[0] = <<>>
      /\ \A n \in 0..N : kept[n] \in Seq(D)
      /\ \A n \in 1..N :
           kept[n] = IF s[n] \in set THEN Append(kept[n - 1], s[n]) ELSE kept[n - 1]
  BY <1>1 DEF Filters
<1> DEFINE Kept(n, e) == e \in set /\ \E i \in 1..n : s[i] = e
<1> DEFINE S == {n \in 0..N : /\ \A e : e \in Elements(kept[n]) <=> Kept(n, e)
                              /\ Distinct(s) => Distinct(kept[n])}
<1>3. 0 \in S
  <2>1. Elements(<<>>) = {} /\ Distinct(<<>>)
    BY DEF Elements, Distinct
  <2>2. \A e : ~Kept(0, e) OBVIOUS
  <2> QED BY <1>0, <1>2, <2>1, <2>2
<1>4. \A n \in 0..(N - 1) : n \in S => n + 1 \in S
  <2> SUFFICES ASSUME NEW n \in 0..(N - 1), n \in S PROVE n + 1 \in S
    OBVIOUS
  <2>1. n + 1 \in 1..N /\ (n + 1) - 1 = n /\ n \in 0..N /\ n + 1 \in 0..N BY <1>0
  <2>2. kept[n] \in Seq(D) /\ s[n + 1] \in D BY <2>1, <1>0, <1>2
  <2>3. kept[n + 1] = IF s[n + 1] \in set THEN Append(kept[n], s[n + 1]) ELSE kept[n]
    BY <2>1, <1>2
  <2>4. \A e : Kept(n + 1, e) <=> Kept(n, e) \/ (e \in set /\ e = s[n + 1])
    BY <2>1
  <2>5. \A e : e \in Elements(kept[n]) <=> Kept(n, e) OBVIOUS
  <2>6. Distinct(s) => Distinct(kept[n]) OBVIOUS
  <2>7. Distinct(s) => ~Kept(n, s[n + 1])
    BY <2>1, <1>0 DEF Distinct
  <2> HIDE DEF Kept
  <2>8. CASE s[n + 1] \in set
    <3>1. kept[n + 1] = Append(kept[n], s[n + 1]) BY <2>3, <2>8
    <3>2. Elements(kept[n + 1]) = Elements(kept[n]) \union {s[n + 1]}
      BY <3>1, <2>2, ElementsOfAppend
    <3>3. Distinct(s) => Distinct(kept[n + 1])
      BY <3>1, <2>2, <2>5, <2>6, <2>7, DistinctAppend
    <3> QED BY <3>2, <3>3, <2>1, <2>4, <2>5, <2>8
  <2>9. CASE s[n + 1] \notin set
    BY <2>9, <2>1, <2>3, <2>4, <2>5, <2>6
  <2> QED BY <2>8, <2>9
<1>5. N \in S
  <2>1. 0..N \subseteq S
    <3> HIDE DEF S
    <3> QED BY <1>0, <1>3, <1>4, RangeInduction
  <2> QED BY <2>1, <1>0
<1>6. \A e : e \in Elements(s) <=> \E i \in 1..N : s[i] = e
  BY ElementsFacts
<1>7. Only(s, set) \in Seq(D)
  BY <1>0, <1>1, <1>2
<1>8. Elements(Only(s, set)) = Elements(s) \intersect set
  BY <1>1, <1>5, <1>6
<1>9. Distinct(s) => Distinct(Only(s, set))
  BY <1>1, <1>5
<1> QED BY <1>7, <1>8, <1>9

(* If what is not in the set is all in front, what is left is the rest.      *)
LEMMA OnlyRest ==
  ASSUME NEW D, NEW s \in Seq(D), NEW set, NEW p \in 0..Len(s),
         \A i \in 1..p : s[i] \notin set,
         \A i \in (p + 1)..Len(s) : s[i] \in set
  PROVE  Only(s, set) = SubSeq(s, p + 1, Len(s))
<1> DEFINE N == Len(s)
<1>0. N \in Nat /\ DOMAIN s = 1..N /\ p \in Nat /\ \A n \in 1..N : s[n] \in D
  OBVIOUS
<1>a. PICK kept : Only(s, set) = kept[N] /\ Filters(kept, D, s, set)
  BY OnlySteps
<1>1. /\ kept[0] = <<>>
      /\ \A n \in 1..N :
           kept[n] = IF s[n] \in set THEN Append(kept[n - 1], s[n]) ELSE kept[n - 1]
  BY <1>a DEF Filters
<1> DEFINE S == {n \in 0..N : kept[n] = SubSeq(s, p + 1, n)}
<1>2. 0 \in S
  <2>1. SubSeq(s, p + 1, 0) = <<>> BY <1>0, SubSeqEmpty
  <2>2. kept[0] = SubSeq(s, p + 1, 0) BY <2>1, <1>1
  <2>3. 0 \in 0..N BY <1>0
  <2> QED BY <2>2, <2>3
<1>3. \A n \in 0..(N - 1) : n \in S => n + 1 \in S
  <2> SUFFICES ASSUME NEW n \in 0..(N - 1), n \in S PROVE n + 1 \in S
    OBVIOUS
  <2>1. n + 1 \in 1..N /\ (n + 1) - 1 = n /\ n \in 0..N /\ n \in Nat BY <1>0
  <2>2. kept[n] = SubSeq(s, p + 1, n) OBVIOUS
  <2>3. kept[n + 1] = IF s[n + 1] \in set THEN Append(kept[n], s[n + 1]) ELSE kept[n]
    BY <2>1, <1>1
  <2>4. CASE n + 1 <= p
    <3>1. s[n + 1] \notin set BY <2>4, <2>1
    <3>2. SubSeq(s, p + 1, n) = <<>> /\ SubSeq(s, p + 1, n + 1) = <<>>
      BY <2>4, <2>1, <1>0, SubSeqEmpty
    <3> QED BY <2>1, <2>2, <2>3, <3>1, <3>2
  <2>5. CASE n + 1 > p
    <3>1. s[n + 1] \in set BY <2>5, <2>1, <1>0
    <3>2. SubSeq(s, p + 1, n + 1) = SubSeq(s, p + 1, n) \o <<s[n + 1]>>
      <4>1. p + 1 \in 1..N /\ n + 1 \in (p + 1)..N BY <2>5, <2>1, <1>0
      <4> QED BY <4>1, <2>1, SubSeqRecursiveSecond
    <3>3. SubSeq(s, p + 1, n) \in Seq(D) BY <2>1, <2>2, <1>0
    <3>4. Append(SubSeq(s, p + 1, n), s[n + 1]) = SubSeq(s, p + 1, n) \o <<s[n + 1]>>
      BY <3>3, <2>1, <1>0, AppendIsConcat
    <3>5. kept[n + 1] = SubSeq(s, p + 1, n + 1)
      BY <2>2, <2>3, <3>1, <3>2, <3>4
    <3> QED BY <2>1, <3>5, <1>0
  <2> QED BY <2>1, <2>4, <2>5, <1>0
<1>4. N \in S
  <2>1. 0..N \subseteq S
    <3> HIDE DEF S
    <3> QED BY <1>0, <1>2, <1>3, RangeInduction
  <2> QED BY <2>1, <1>0
<1> QED BY <1>0, <1>a, <1>4

LEMMA OnlyAll ==
  ASSUME NEW D, NEW s \in Seq(D), NEW set, \A i \in 1..Len(s) : s[i] \in set
  PROVE  Only(s, set) = s
<1>1. 0 \in 0..Len(s) /\ 0 + 1 = 1
  OBVIOUS
<1>2. Only(s, set) = SubSeq(s, 0 + 1, Len(s))
  BY <1>1, OnlyRest
<1> QED BY <1>1, <1>2, SubSeqFull

(* What From keeps of a sequence.                                           *)
LEMMA FromFacts ==
  ASSUME NEW D, NEW s \in Seq(D), NEW p \in 0..Len(s)
  PROVE  /\ From(s, p + 1) \in Seq(D)
         /\ Len(From(s, p + 1)) = Len(s) - p
         /\ \A i \in 1..(Len(s) - p) : From(s, p + 1)[i] = s[p + i]
<1> DEFINE N == Len(s)
<1>1. N \in Nat /\ p \in Nat /\ p <= N /\ \A i \in (p + 1)..N : s[i] \in D
  OBVIOUS
<1>2. /\ SubSeq(s, p + 1, N) \in Seq(D)
      /\ Len(SubSeq(s, p + 1, N)) = IF p + 1 <= N THEN N - (p + 1) + 1 ELSE 0
      /\ \A i \in 1..(N - (p + 1) + 1) : SubSeq(s, p + 1, N)[i] = s[(p + 1) + i - 1]
  BY <1>1, SubSeqProperties
<1>3. Len(SubSeq(s, p + 1, N)) = N - p
  BY <1>1, <1>2
<1>4. \A i \in 1..(N - p) : i \in 1..(N - (p + 1) + 1) /\ (p + 1) + i - 1 = p + i
  BY <1>1
<1> QED BY <1>2, <1>3, <1>4 DEF From

(* Two filterings agree as far as the sequences do.                          *)
LEMMA FiltersAgree ==
  ASSUME NEW D, NEW s \in Seq(D), NEW t \in Seq(D), NEW set, NEW a, NEW b,
         Filters(a, D, s, set), Filters(b, D, t, set),
         NEW n \in 0..Len(s), n <= Len(t), \A i \in 1..n : s[i] = t[i]
  PROVE  a[n] = b[n]
<1>1. n \in Nat /\ Len(s) \in Nat /\ Len(t) \in Nat
  OBVIOUS
<1>2. /\ a[0] = <<>> /\ b[0] = <<>>
      /\ \A i \in 1..Len(s) : a[i] = IF s[i] \in set THEN Append(a[i - 1], s[i]) ELSE a[i - 1]
      /\ \A i \in 1..Len(t) : b[i] = IF t[i] \in set THEN Append(b[i - 1], t[i]) ELSE b[i - 1]
  BY DEF Filters
<1> DEFINE S == {i \in 0..n : a[i] = b[i]}
<1>3. 0 \in S
  BY <1>1, <1>2
<1>4. \A i \in 0..(n - 1) : i \in S => i + 1 \in S
  <2> TAKE i \in 0..(n - 1)
  <2> HAVE i \in S
  <2>1. /\ i + 1 \in 1..n /\ i + 1 \in 0..n /\ (i + 1) - 1 = i
        /\ i + 1 \in 1..Len(s) /\ i + 1 \in 1..Len(t)
    BY <1>1
  <2>2. a[i] = b[i] /\ s[i + 1] = t[i + 1]
    BY <2>1
  <2> QED BY <2>1, <2>2, <1>2
<1>5. 0..n \subseteq S
  <2> HIDE DEF S
  <2> QED BY <1>1, <1>3, <1>4, RangeInduction
<1> QED BY <1>1, <1>5

LEMMA OnlyAppend ==
  ASSUME NEW D, NEW s \in Seq(D), NEW e \in D, NEW set
  PROVE  Only(Append(s, e), set) = IF e \in set THEN Append(Only(s, set), e) ELSE Only(s, set)
<1> DEFINE t == Append(s, e)
<1> DEFINE n == Len(s)
<1>1. /\ t \in Seq(D) /\ Len(t) = n + 1 /\ n \in Nat /\ t[n + 1] = e
      /\ \A i \in 1..n : s[i] = t[i]
  BY AppendProperties
<1>2. PICK a : Only(s, set) = a[n] /\ Filters(a, D, s, set)
  BY OnlySteps
<1> HIDE DEF t
<1>3. PICK b : Only(t, set) = b[Len(t)] /\ Filters(b, D, t, set)
  BY <1>1, OnlySteps
<1>4. a[n] = b[n]
  <2>1. n \in 0..Len(s) /\ n <= Len(t) BY <1>1
  <2> HIDE DEF n
  <2> QED BY <1>1, <1>2, <1>3, <2>1, FiltersAgree
<1>5. b[n + 1] = IF t[n + 1] \in set THEN Append(b[(n + 1) - 1], t[n + 1]) ELSE b[(n + 1) - 1]
  <2>1. n + 1 \in 1..Len(t) BY <1>1
  <2> QED BY <1>3, <2>1 DEF Filters
<1>6. (n + 1) - 1 = n
  BY <1>1
<1> QED BY <1>1, <1>2, <1>3, <1>4, <1>5, <1>6 DEF t

(* Two sets that hold the same of a sequence keep the same of it.            *)
LEMMA OnlySame ==
  ASSUME NEW D, NEW s \in Seq(D), NEW A, NEW B, \A i \in 1..Len(s) : s[i] \in A <=> s[i] \in B
  PROVE  Only(s, A) = Only(s, B)
<1> DEFINE n == Len(s)
<1>1. n \in Nat
  OBVIOUS
<1>2. PICK a : Only(s, A) = a[n] /\ Filters(a, D, s, A)
  BY OnlySteps
<1>3. PICK b : Only(s, B) = b[n] /\ Filters(b, D, s, B)
  BY OnlySteps
<1> DEFINE S == {i \in 0..n : a[i] = b[i]}
<1>4. 0 \in S
  BY <1>1, <1>2, <1>3 DEF Filters
<1>5. \A i \in 0..(n - 1) : i \in S => i + 1 \in S
  <2> TAKE i \in 0..(n - 1)
  <2> HAVE i \in S
  <2>1. i + 1 \in 1..n /\ i + 1 \in 0..n /\ (i + 1) - 1 = i BY <1>1
  <2>2. a[i + 1] = IF s[i + 1] \in A THEN Append(a[i], s[i + 1]) ELSE a[i]
    BY <2>1, <1>2 DEF Filters
  <2>3. b[i + 1] = IF s[i + 1] \in B THEN Append(b[i], s[i + 1]) ELSE b[i]
    BY <2>1, <1>3 DEF Filters
  <2> QED BY <2>1, <2>2, <2>3
<1>6. n \in S
  <2>1. n \in 0..n BY <1>1
  <2>2. 0..n \subseteq S
    <3> HIDE DEF S, n
    <3> QED BY <1>1, <1>4, <1>5, RangeInduction
  <2> QED BY <2>1, <2>2
<1> QED BY <1>2, <1>3, <1>6

(* What is appended and not in the set changes nothing.                      *)
LEMMA OnlyConcat ==
  ASSUME NEW D, NEW s \in Seq(D), NEW t \in Seq(D), NEW set,
         \A i \in 1..Len(t) : t[i] \notin set
  PROVE  Only(s \o t, set) = Only(s, set)
<1> DEFINE g == s \o t
<1> DEFINE n == Len(s)
<1> DEFINE k == Len(t)
<1>1. /\ g \in Seq(D) /\ Len(g) = n + k /\ n \in Nat /\ k \in Nat
      /\ \A i \in 1..(n + k) : g[i] = IF i <= n THEN s[i] ELSE t[i - n]
  BY ConcatProperties
<1>2. PICK a : Only(s, set) = a[n] /\ Filters(a, D, s, set)
  BY OnlySteps
<1> HIDE DEF g
<1>3. PICK b : Only(g, set) = b[Len(g)] /\ Filters(b, D, g, set)
  BY <1>1, OnlySteps
<1>4. a[n] = b[n]
  <2>1. n \in 0..Len(s) /\ n <= Len(g) BY <1>1
  <2>2. \A i \in 1..n : s[i] = g[i] BY <1>1
  <2> HIDE DEF n
  <2> QED BY <1>1, <1>2, <1>3, <2>1, <2>2, FiltersAgree
<1> DEFINE S == {i \in 0..k : b[n + i] = b[n]}
<1>5. 0 \in S
  <2>1. n + 0 = n BY <1>1
  <2> QED BY <2>1, <1>1
<1>6. \A i \in 0..(k - 1) : i \in S => i + 1 \in S
  <2> TAKE i \in 0..(k - 1)
  <2> HAVE i \in S
  <2>1. /\ n + (i + 1) \in 1..Len(g) /\ (n + (i + 1)) - 1 = n + i
        /\ ~(n + (i + 1) <= n) /\ (n + (i + 1)) - n = i + 1
        /\ i + 1 \in 1..k /\ i + 1 \in 0..k /\ n + (i + 1) \in 1..(n + k)
    BY <1>1
  <2>2. g[n + (i + 1)] \notin set BY <2>1, <1>1
  <2>3. b[n + (i + 1)] = b[n + i] BY <2>1, <2>2, <1>3 DEF Filters
  <2> QED BY <2>1, <2>3
<1>7. k \in S
  <2>1. k \in 0..k BY <1>1
  <2>2. 0..k \subseteq S
    <3> HIDE DEF S, k
    <3> QED BY <1>1, <1>5, <1>6, RangeInduction
  <2> QED BY <2>1, <2>2
<1> QED BY <1>1, <1>2, <1>3, <1>4, <1>7 DEF g

LEMMA PrefixAppend ==
  ASSUME NEW D, NEW h \in Seq(D), NEW n \in 0..(Len(h) - 1)
  PROVE  /\ SubSeq(h, 1, n) \in Seq(D) /\ Len(SubSeq(h, 1, n)) = n
         /\ \A i \in 1..n : SubSeq(h, 1, n)[i] = h[i]
         /\ Append(SubSeq(h, 1, n), h[n + 1]) = SubSeq(h, 1, n + 1)
<1>1. n \in Nat /\ Len(h) \in Nat /\ \A i \in 1..Len(h) : h[i] \in D
  OBVIOUS
<1> DEFINE f == SubSeq(h, 1, n)
<1>2. f \in Seq(D) /\ Len(f) = n /\ \A i \in 1..n : f[i] = h[i]
  BY <1>1, SubSeqProperties
<1>3. SubSeq(h, 1, n + 1) = f \o <<h[n + 1]>>
  <2>1. 1 \in 1..Len(h) /\ n + 1 \in 1..Len(h) /\ (n + 1) - 1 = n BY <1>1
  <2> QED BY <2>1, SubSeqRecursiveSecond
<1>4. Append(f, h[n + 1]) = f \o <<h[n + 1]>>
  <2>1. h[n + 1] \in D BY <1>1
  <2> HIDE DEF f
  <2> QED BY <1>2, <2>1, AppendIsConcat
<1> QED BY <1>2, <1>3, <1>4

(* What is appended and in the set is kept as it is.                         *)
LEMMA OnlyKept ==
  ASSUME NEW D, NEW s \in Seq(D), NEW t \in Seq(D), NEW set,
         \A i \in 1..Len(t) : t[i] \in set
  PROVE  Only(s \o t, set) = Only(s, set) \o t
<1> DEFINE g == s \o t
<1> DEFINE n == Len(s)
<1> DEFINE k == Len(t)
<1>1. /\ g \in Seq(D) /\ Len(g) = n + k /\ n \in Nat /\ k \in Nat
      /\ \A i \in 1..(n + k) : g[i] = IF i <= n THEN s[i] ELSE t[i - n]
  BY ConcatProperties
<1>2. PICK a : Only(s, set) = a[n] /\ Filters(a, D, s, set)
  BY OnlySteps
<1> HIDE DEF g
<1>3. PICK b : Only(g, set) = b[Len(g)] /\ Filters(b, D, g, set)
  BY <1>1, OnlySteps
<1>4. a[n] = b[n]
  <2>1. n \in 0..Len(s) /\ n <= Len(g) BY <1>1
  <2>2. \A i \in 1..n : s[i] = g[i] BY <1>1
  <2> HIDE DEF n
  <2> QED BY <1>1, <1>2, <1>3, <2>1, <2>2, FiltersAgree
<1>5. b[n] \in Seq(D)
  BY <1>1, <1>3 DEF Filters
<1> DEFINE S == {i \in 0..k : b[n + i] = b[n] \o SubSeq(t, 1, i)}
<1>6. 0 \in S
  <2>1. n + 0 = n BY <1>1
  <2>2. SubSeq(t, 1, 0) = <<>> BY SubSeqEmpty
  <2>3. b[n] \o <<>> = b[n] BY <1>5, ConcatEmptySeq
  <2>4. 0 \in 0..k BY <1>1
  <2> HIDE DEF n, k
  <2>5. b[n + 0] = b[n] \o SubSeq(t, 1, 0) BY <2>1, <2>2, <2>3
  <2> QED BY <2>4, <2>5
<1>7. \A i \in 0..(k - 1) : i \in S => i + 1 \in S
  <2> TAKE i \in 0..(k - 1)
  <2> HAVE i \in S
  <2>1. /\ n + (i + 1) \in 1..Len(g) /\ (n + (i + 1)) - 1 = n + i
        /\ ~(n + (i + 1) <= n) /\ (n + (i + 1)) - n = i + 1
        /\ i + 1 \in 1..k /\ i + 1 \in 0..k /\ n + (i + 1) \in 1..(n + k)
    BY <1>1
  <2>2. g[n + (i + 1)] = t[i + 1] /\ t[i + 1] \in set /\ t[i + 1] \in D BY <2>1, <1>1
  <2>3. b[n + (i + 1)] = Append(b[n + i], t[i + 1]) BY <2>1, <2>2, <1>3 DEF Filters
  <2> DEFINE u == SubSeq(t, 1, i)
  <2>4. u \in Seq(D) /\ Append(u, t[i + 1]) = SubSeq(t, 1, i + 1)
    BY PrefixAppend
  <2>5. b[n + i] = b[n] \o u OBVIOUS
  <2> HIDE DEF u
  <2>6. Append(b[n] \o u, t[i + 1]) = b[n] \o Append(u, t[i + 1])
    <3> DEFINE x == b[n]
    <3> DEFINE y == <<t[i + 1]>>
    <3>1. x \in Seq(D) /\ u \in Seq(D) /\ y \in Seq(D) BY <1>5, <2>2, <2>4
    <3>2. Append(u, t[i + 1]) = u \o y BY <2>2, <2>4, AppendIsConcat
    <3>3. x \o u \in Seq(D) BY <3>1, ConcatProperties
    <3>4. Append(x \o u, t[i + 1]) = (x \o u) \o y BY <2>2, <3>3, AppendIsConcat
    <3> HIDE DEF x, y, n, k, S
    <3>5. (x \o u) \o y = x \o (u \o y) BY <3>1, ConcatAssociative
    <3>6. Append(x \o u, t[i + 1]) = x \o Append(u, t[i + 1]) BY <3>2, <3>4, <3>5
    <3> QED BY <3>6 DEF x
  <2> QED BY <2>1, <2>3, <2>4, <2>5, <2>6
<1>8. k \in S
  <2>1. k \in 0..k BY <1>1
  <2>2. 0..k \subseteq S
    <3> HIDE DEF S, k
    <3> QED BY <1>1, <1>6, <1>7, RangeInduction
  <2> QED BY <2>1, <2>2
<1>9. SubSeq(t, 1, k) = t
  BY SubSeqFull
<1> QED BY <1>1, <1>2, <1>3, <1>4, <1>8, <1>9 DEF g

-----------------------------------------------------------------------------
(* The messages a history is made of, and the states of the recovery.        *)

Messages ==
  [role : {"user"}, calls : {<<>>}, id : {NoId}, kind : {"real", "hidden", "summary"}]
    \union [role : {"assistant"}, calls : Seq(CallIds), id : {NoId}, kind : {"text", "empty"}]
    \union [role : {"tool"}, calls : {<<>>}, id : CallIds, kind : {"real", "placeholder"}]
    \union [role : {"system"}, calls : {<<>>}, id : {NoId}, kind : {"real"}]

LEMMA MessageFacts ==
  ASSUME NEW m \in Messages
  PROVE  /\ m.role \in {"user", "assistant", "tool", "system"}
         /\ m.calls \in Seq(CallIds)
         /\ m.id \in CallIds
         /\ m.role # "assistant" => m.calls = <<>>
         /\ m.kind = "placeholder" => m.role = "tool"
         /\ m.role = "tool" => m.kind \in {"real", "placeholder"}
BY EmptySeq, CallAssumption DEF Messages

LEMMA UserIsMessage ==
  ASSUME NEW kind \in {"real", "hidden", "summary"}
  PROVE  User(kind) \in Messages /\ User(kind).role = "user" /\ User(kind).kind = kind
BY DEF User, Message, Messages

LEMMA SystemIsMessage == System \in Messages /\ System.role = "system" /\ System.kind = "real"
BY DEF System, Message, Messages

LEMMA AssistantIsMessage ==
  ASSUME NEW calls \in Seq(CallIds), NEW kind \in {"text", "empty"}
  PROVE  /\ Assistant(calls, kind) \in Messages
         /\ Assistant(calls, kind).role = "assistant"
         /\ Assistant(calls, kind).calls = calls
BY DEF Assistant, Message, Messages

LEMMA ResultIsMessage ==
  ASSUME NEW id \in CallIds, NEW kind \in {"real", "placeholder"}
  PROVE  /\ Result(id, kind) \in Messages
         /\ Result(id, kind).role = "tool"
         /\ Result(id, kind).id = id
         /\ Result(id, kind).kind = kind
BY DEF Result, Message, Messages

(* A result is its id and its kind, and keeping all calls changes nothing.   *)
LEMMA ToolIsResult ==
  ASSUME NEW m \in Messages, m.role = "tool"
  PROVE  m = Result(m.id, m.kind)
<1>1. m \in [role : {"tool"}, calls : {<<>>}, id : CallIds, kind : {"real", "placeholder"}]
  BY DEF Messages
<1>2. m = [role |-> "tool", calls |-> <<>>, id |-> m.id, kind |-> m.kind]
  BY <1>1
<1> DEFINE r == Result(m.id, m.kind)
<1>3. r \in [role : {"tool"}, calls : {<<>>}, id : CallIds, kind : {"real", "placeholder"}]
  BY <1>1 DEF Result, Message
<1>4. r.id = m.id /\ r.kind = m.kind
  BY DEF Result, Message
<1> HIDE DEF r
<1>5. r = [role |-> "tool", calls |-> <<>>, id |-> r.id, kind |-> r.kind]
  BY <1>3
<1>6. r = m
  BY <1>2, <1>4, <1>5
<1> QED BY <1>6 DEF r

LEMMA CallsReplaced ==
  ASSUME NEW m \in Messages, m.role = "assistant", NEW calls \in Seq(CallIds)
  PROVE  /\ [m EXCEPT !.calls = calls] \in Messages
         /\ [m EXCEPT !.calls = calls].role = "assistant"
         /\ [m EXCEPT !.calls = calls].calls = calls
         /\ [m EXCEPT !.calls = calls].kind = m.kind
         /\ m.calls = calls => [m EXCEPT !.calls = calls] = m
BY DEF Messages

States == [out : Seq(Messages), pending : Seq(CallIds), called : SUBSET CallIds]

Placeholders(p) == [i \in DOMAIN p |-> Result(p[i], "placeholder")]

LEMMA PlaceholderFacts ==
  ASSUME NEW p \in Seq(CallIds)
  PROVE  /\ Placeholders(p) \in Seq(Messages)
         /\ Len(Placeholders(p)) = Len(p)
         /\ \A i \in 1..Len(p) : Placeholders(p)[i] = Result(p[i], "placeholder")
<1>1. Len(p) \in Nat /\ DOMAIN p = 1..Len(p) /\ \A i \in 1..Len(p) : p[i] \in CallIds
  OBVIOUS
<1>2. \A i \in 1..Len(p) : Result(p[i], "placeholder") \in Messages
  BY <1>1, ResultIsMessage
<1> QED BY <1>1, <1>2 DEF Placeholders

LEMMA FlushedFacts ==
  ASSUME NEW st \in States
  PROVE  /\ Flushed(st) \in States
         /\ Flushed(st).out = st.out \o Placeholders(st.pending)
         /\ Flushed(st).pending = <<>>
         /\ Flushed(st).called = st.called
         /\ st.pending = <<>> => Flushed(st) = st
<1>1. Placeholders(st.pending) \in Seq(Messages)
  BY PlaceholderFacts DEF States
<1>2. st.out \o Placeholders(st.pending) \in Seq(Messages)
  BY <1>1, ConcatProperties DEF States
<1>3. Flushed(st) = [st EXCEPT !.out = st.out \o Placeholders(st.pending), !.pending = <<>>]
  BY DEF Flushed, Placeholders, States
<1>4. /\ Flushed(st) \in States
      /\ Flushed(st).out = st.out \o Placeholders(st.pending)
      /\ Flushed(st).pending = <<>>
      /\ Flushed(st).called = st.called
  BY <1>2, <1>3, EmptySeq DEF States
<1>5. ASSUME st.pending = <<>> PROVE Flushed(st) = st
  <2>1. Len(st.pending) = 0 BY <1>5, EmptySeq
  <2>2. Len(Placeholders(st.pending)) = 0 BY <2>1, PlaceholderFacts DEF States
  <2>3. Placeholders(st.pending) = <<>> BY <1>1, <2>2, EmptySeq
  <2>4. st.out \o Placeholders(st.pending) = st.out BY <2>3, ConcatEmptySeq DEF States
  <2> QED BY <1>3, <1>5, <2>4 DEF States
<1> QED BY <1>4, <1>5

(* The calls of a message that are kept.                                    *)
NewCallsKept(kept, called, calls) ==
  /\ kept \in [0..Len(calls) -> Seq(CallIds)]
  /\ kept[0] = <<>>
  /\ \A n \in 1..Len(calls) :
       kept[n] = IF calls[n] = NoId \/ calls[n] \in called \union Elements(kept[n - 1])
                 THEN kept[n - 1] ELSE Append(kept[n - 1], calls[n])

LEMMA NewCallsSteps ==
  ASSUME NEW called, NEW calls \in Seq(CallIds)
  PROVE  \E kept : NewCalls(called, calls) = kept[Len(calls)] /\ NewCallsKept(kept, called, calls)
<1> DEFINE N == Len(calls)
<1> DEFINE T == Seq(CallIds)
<1> DEFINE Next1(p, n) == IF calls[n] = NoId \/ calls[n] \in called \union Elements(p)
                          THEN p ELSE Append(p, calls[n])
<1> DEFINE step == [p \in T \X (1..N) |-> Next1(p[1], p[2])]
<1>1. N \in Nat /\ <<>> \in T /\ \A n \in 1..N : calls[n] \in CallIds
  BY EmptySeq
<1>2. \A p \in T, n \in 1..N : Next1(p, n) \in T
  BY <1>1, AppendProperties
<1>3. NewCalls(called, calls) =
        (CHOOSE f : f = [n \in 0..N |-> IF n = 0 THEN <<>> ELSE Next1(f[n - 1], n)])[N]
  BY DEF NewCalls
<1>4. \A p \in T, n \in 1..N :
        Next1(p, n) = IF calls[n] = NoId \/ calls[n] \in called \union Elements(p)
                      THEN p ELSE Append(p, calls[n])
  OBVIOUS
<1> HIDE DEF N, T, Next1
<1>5. step \in [T \X (1..N) -> T]
  BY <1>2
<1>6. \A p \in T, n \in 1..N : step[<<p, n>>] = Next1(p, n)
  OBVIOUS
<1> HIDE DEF step
<1>7. PICK g \in [0..N -> T] : g[0] = <<>> /\ \A n \in 1..N : g[n] = step[<<g[n - 1], n>>]
  <2>1. \E g : Recurses(g, N, T, <<>>, step)
    BY <1>1, <1>5, RecursionExists
  <2> QED BY <2>1 DEF Recurses
<1>8. \A n \in 1..N : g[n] = Next1(g[n - 1], n)
  <2> TAKE n \in 1..N
  <2>1. n - 1 \in 0..N BY <1>1
  <2>2. g[n - 1] \in T BY <1>7, <2>1
  <2>3. g[n] = step[<<g[n - 1], n>>] BY <1>7
  <2> QED BY <1>6, <2>2, <2>3
<1>9. g = [n \in 0..N |-> IF n = 0 THEN <<>> ELSE Next1(g[n - 1], n)]
  <2>1. \A n \in 0..N : g[n] = IF n = 0 THEN <<>> ELSE Next1(g[n - 1], n)
    BY <1>7, <1>8, <1>1
  <2> QED BY <2>1, <1>7
<1> DEFINE kept == CHOOSE f : f = [n \in 0..N |-> IF n = 0 THEN <<>> ELSE Next1(f[n - 1], n)]
<1>10. kept = [n \in 0..N |-> IF n = 0 THEN <<>> ELSE Next1(kept[n - 1], n)]
  BY <1>9
<1>11. NewCalls(called, calls) = kept[N]
  BY <1>3
<1> HIDE DEF kept
<1>12. kept[0] = <<>> /\ \A n \in 1..N : kept[n] = Next1(kept[n - 1], n)
  BY <1>10, <1>1
<1>13. kept \in [0..N -> T]
  <2> DEFINE S == {n \in 0..N : kept[n] \in T}
  <2>1. 0 \in S BY <1>12, <1>1
  <2>2. \A n \in 0..(N - 1) : n \in S => n + 1 \in S
    <3> TAKE n \in 0..(N - 1)
    <3> HAVE n \in S
    <3>1. n + 1 \in 1..N /\ n + 1 \in 0..N /\ (n + 1) - 1 = n BY <1>1
    <3>2. kept[n + 1] = Next1(kept[n], n + 1) BY <3>1, <1>12
    <3> QED BY <3>1, <3>2, <1>2
  <2>3. 0..N \subseteq S
    <3> HIDE DEF S
    <3> QED BY <1>1, <2>1, <2>2, RangeInduction
  <2> QED BY <2>3, <1>10
<1>14. \A n \in 1..N :
         kept[n] = IF calls[n] = NoId \/ calls[n] \in called \union Elements(kept[n - 1])
                   THEN kept[n - 1] ELSE Append(kept[n - 1], calls[n])
  <2> TAKE n \in 1..N
  <2>1. kept[n - 1] \in T BY <1>13, <1>1
  <2> QED BY <2>1, <1>4, <1>12
<1> QED BY <1>11, <1>12, <1>13, <1>14 DEF N, T, NewCallsKept

LEMMA NewCallsFacts ==
  ASSUME NEW called, NEW calls \in Seq(CallIds)
  PROVE  /\ NewCalls(called, calls) \in Seq(CallIds)
         /\ Distinct(NewCalls(called, calls))
         /\ Elements(NewCalls(called, calls)) \subseteq Elements(calls)
         /\ NoId \notin Elements(NewCalls(called, calls))
         /\ Elements(NewCalls(called, calls)) \intersect called = {}
<1> DEFINE N == Len(calls)
<1>0. N \in Nat /\ \A n \in 1..N : calls[n] \in CallIds
  OBVIOUS
<1>1. PICK kept : NewCalls(called, calls) = kept[N] /\ NewCallsKept(kept, called, calls)
  BY NewCallsSteps
<1>2. /\ kept[0] = <<>>
      /\ \A n \in 0..N : kept[n] \in Seq(CallIds)
      /\ \A n \in 1..N :
           kept[n] = IF calls[n] = NoId \/ calls[n] \in called \union Elements(kept[n - 1])
                     THEN kept[n - 1] ELSE Append(kept[n - 1], calls[n])
  BY <1>1 DEF NewCallsKept
<1> DEFINE Right(k) == /\ Distinct(k)
                       /\ \A e \in Elements(k) : e \in Elements(calls) /\ e # NoId /\ e \notin called
<1> DEFINE S == {n \in 0..N : Right(kept[n])}
<1>3. 0 \in S
  <2>1. Elements(<<>>) = {} /\ Distinct(<<>>)
    BY DEF Elements, Distinct
  <2> QED BY <1>0, <1>2, <2>1
<1>4. \A n \in 0..(N - 1) : n \in S => n + 1 \in S
  <2> SUFFICES ASSUME NEW n \in 0..(N - 1), n \in S PROVE n + 1 \in S
    OBVIOUS
  <2>1. n + 1 \in 1..N /\ (n + 1) - 1 = n /\ n \in 0..N /\ n + 1 \in 0..N BY <1>0
  <2>2. kept[n] \in Seq(CallIds) /\ calls[n + 1] \in CallIds /\ calls[n + 1] \in Elements(calls)
    BY <2>1, <1>0, <1>2, ElementsFacts
  <2>3. Right(kept[n]) OBVIOUS
  <2>4. kept[n + 1] = IF calls[n + 1] = NoId \/ calls[n + 1] \in called \union Elements(kept[n])
                      THEN kept[n] ELSE Append(kept[n], calls[n + 1])
    BY <2>1, <1>2
  <2>5. CASE calls[n + 1] = NoId \/ calls[n + 1] \in called \union Elements(kept[n])
    BY <2>1, <2>3, <2>4, <2>5
  <2>6. CASE ~(calls[n + 1] = NoId \/ calls[n + 1] \in called \union Elements(kept[n]))
    <3>1. kept[n + 1] = Append(kept[n], calls[n + 1]) BY <2>4, <2>6
    <3>2. Elements(kept[n + 1]) = Elements(kept[n]) \union {calls[n + 1]}
      BY <3>1, <2>2, ElementsOfAppend
    <3>3. Distinct(kept[n + 1])
      BY <3>1, <2>2, <2>3, <2>6, DistinctAppend
    <3> QED BY <3>2, <3>3, <2>1, <2>2, <2>3, <2>6
  <2> QED BY <2>5, <2>6
<1>5. N \in S
  <2>1. 0..N \subseteq S
    <3> HIDE DEF S
    <3> QED BY <1>0, <1>3, <1>4, RangeInduction
  <2> QED BY <2>1, <1>0
<1> QED BY <1>0, <1>1, <1>2, <1>5

(* Calls that are all well formed and new are all kept.                      *)
LEMMA NewCallsAll ==
  ASSUME NEW called, NEW calls \in Seq(CallIds), Distinct(calls),
         NoId \notin Elements(calls), Elements(calls) \intersect called = {}
  PROVE  NewCalls(called, calls) = calls
<1> DEFINE N == Len(calls)
<1>0. N \in Nat /\ \A n \in 1..N : calls[n] \in CallIds
  OBVIOUS
<1>1. PICK kept : NewCalls(called, calls) = kept[N] /\ NewCallsKept(kept, called, calls)
  BY NewCallsSteps
<1>2. /\ kept[0] = <<>>
      /\ \A n \in 1..N :
           kept[n] = IF calls[n] = NoId \/ calls[n] \in called \union Elements(kept[n - 1])
                     THEN kept[n - 1] ELSE Append(kept[n - 1], calls[n])
  BY <1>1 DEF NewCallsKept
<1> DEFINE S == {n \in 0..N : kept[n] = SubSeq(calls, 1, n)}
<1>3. 0 \in S
  <2>1. SubSeq(calls, 1, 0) = <<>> BY <1>0, SubSeqEmpty
  <2>2. kept[0] = SubSeq(calls, 1, 0) BY <2>1, <1>2
  <2>3. 0 \in 0..N BY <1>0
  <2> QED BY <2>2, <2>3
<1>4. \A n \in 0..(N - 1) : n \in S => n + 1 \in S
  <2> SUFFICES ASSUME NEW n \in 0..(N - 1), n \in S PROVE n + 1 \in S
    OBVIOUS
  <2>1. n + 1 \in 1..N /\ (n + 1) - 1 = n /\ n \in 0..N /\ n + 1 \in 0..N BY <1>0
  <2>2. kept[n] = SubSeq(calls, 1, n) OBVIOUS
  <2> DEFINE f == SubSeq(calls, 1, n)
  <2>3. f \in Seq(CallIds) /\ Len(f) = n /\ \A i \in 1..n : f[i] = calls[i]
    BY <2>1, <1>0, SubSeqProperties
  <2>4. calls[n + 1] \notin Elements(f)
    <3> HIDE DEF f
    <3> SUFFICES ASSUME calls[n + 1] \in Elements(f) PROVE FALSE
      OBVIOUS
    <3>1. PICK i \in 1..n : f[i] = calls[n + 1] BY <2>3, ElementsFacts
    <3>2. i \in 1..N /\ calls[i] = calls[n + 1] /\ i # n + 1 BY <3>1, <2>1, <2>3, <1>0
    <3> QED BY <3>2, <2>1 DEF Distinct
  <2>5. calls[n + 1] # NoId /\ calls[n + 1] \notin called
    BY <2>1, ElementsFacts
  <2>6. kept[n + 1] = Append(f, calls[n + 1])
    BY <2>1, <2>2, <2>4, <2>5, <1>2
  <2>7. SubSeq(calls, 1, n + 1) = f \o <<calls[n + 1]>>
    <3>1. 1 \in 1..N /\ n + 1 \in 1..N BY <2>1, <1>0
    <3> QED BY <3>1, <2>1, SubSeqRecursiveSecond
  <2>8. Append(f, calls[n + 1]) = f \o <<calls[n + 1]>>
    BY <2>1, <2>3, <1>0, AppendIsConcat
  <2>9. kept[n + 1] = SubSeq(calls, 1, n + 1)
    BY <2>6, <2>7, <2>8
  <2> QED BY <2>1, <2>9
<1>5. N \in S
  <2>1. 0..N \subseteq S
    <3> HIDE DEF S
    <3> QED BY <1>0, <1>3, <1>4, RangeInduction
  <2> QED BY <2>1, <1>0
<1> QED BY <1>1, <1>5, SubSeqFull

-----------------------------------------------------------------------------
(* Calls and their answers.  Result j belongs to the answers behind i, if    *)
(* there are only results and system rows from i to j.                       *)
Behind(h, i, j) ==
  i < j /\ h[j].role = "tool" /\ \A k \in (i + 1)..j : h[k].role \in {"tool", "system"}

(* Only results and system rows follow i.                                   *)
Last(h, i) == \A k \in (i + 1)..Len(h) : h[k].role \in {"tool", "system"}

CallsSound(h) ==
  \A i \in 1..Len(h) : h[i].role = "assistant" =>
    /\ Distinct(h[i].calls)
    /\ NoId \notin Elements(h[i].calls)
    /\ h[i].calls # <<>> \/ h[i].kind # "empty"

CallsApart(h) ==
  \A i, k \in 1..Len(h) : i # k => Elements(h[i].calls) \intersect Elements(h[k].calls) = {}

AnswersSound(h) ==
  \A i \in 1..Len(h) : h[i].role = "assistant" =>
    /\ \A j \in 1..Len(h) : Behind(h, i, j) => h[j].id \in Elements(h[i].calls)
    /\ \A j, k \in 1..Len(h) :
         Behind(h, i, j) /\ Behind(h, i, k) /\ h[j].id = h[k].id => j = k

(* Every call is answered, but those in open, which the last answer made.    *)
CallsAnswered(h, open) ==
  \A i \in 1..Len(h) : h[i].role = "assistant" =>
    \A x \in Elements(h[i].calls) :
      \/ \E j \in 1..Len(h) : Behind(h, i, j) /\ h[j].id = x
      \/ x \in open /\ Last(h, i)

ResultsOwned(h) ==
  \A j \in 1..Len(h) : h[j].role = "tool" =>
    \E i \in 1..Len(h) : h[i].role = "assistant" /\ Behind(h, i, j)

OpenCalled(h, open) ==
  open # {} =>
    \E i \in 1..Len(h) :
      /\ h[i].role = "assistant" /\ Last(h, i)
      /\ open \subseteq Elements(h[i].calls)
      /\ \A j \in 1..Len(h) : Behind(h, i, j) => h[j].id \notin open

Paired(h, open) ==
  /\ CallsSound(h) /\ CallsApart(h) /\ AnswersSound(h)
  /\ CallsAnswered(h, open) /\ ResultsOwned(h) /\ OpenCalled(h, open)

LEMMA PairedEmpty == Paired(<<>>, {})
<1>1. Len(<<>>) = 0 /\ 1..0 = {}
  OBVIOUS
<1> QED BY <1>1
  DEF Paired, CallsSound, CallsApart, AnswersSound, CallsAnswered, ResultsOwned, OpenCalled

(* A row that is no result is no answer; the answers in front of it end, but *)
(* for a system row.                                                        *)
LEMMA BehindAppend ==
  ASSUME NEW h \in Seq(Messages), NEW m \in Messages, m.role # "tool"
  PROVE  LET g == Append(h, m)
             n == Len(h) + 1 IN
         /\ g \in Seq(Messages) /\ Len(g) = n /\ Len(h) \in Nat
         /\ g[n] = m /\ \A i \in 1..Len(h) : g[i] = h[i]
         /\ \A i, j \in 1..Len(h) : Behind(g, i, j) <=> Behind(h, i, j)
         /\ \A i \in 1..n : ~Behind(g, i, n)
         /\ \A j \in 1..n : ~Behind(g, n, j)
         /\ Last(g, n)
         /\ m.role = "system" => \A i \in 1..Len(h) : Last(g, i) <=> Last(h, i)
<1> DEFINE g == Append(h, m)
<1> DEFINE n == Len(h) + 1
<1>1. g \in Seq(Messages) /\ Len(g) = n /\ Len(h) \in Nat
  BY AppendProperties
<1>2. g[n] = m
  BY AppendProperties
<1>3. \A i \in 1..Len(h) : g[i] = h[i]
  BY AppendProperties
<1> HIDE DEF g
<1>4. ASSUME NEW i \in 1..Len(h), NEW j \in 1..Len(h)
      PROVE  Behind(g, i, j) <=> Behind(h, i, j)
  <2>1. \A k \in (i + 1)..j : g[k] = h[k] BY <1>1, <1>3
  <2> QED BY <2>1, <1>3 DEF Behind
<1>5. \A i \in 1..n : ~Behind(g, i, n)
  BY <1>1, <1>2 DEF Behind
<1>6. \A j \in 1..n : ~Behind(g, n, j)
  BY <1>1 DEF Behind
<1>7. Last(g, n)
  BY <1>1 DEF Last
<1>8. ASSUME m.role = "system", NEW i \in 1..Len(h)
      PROVE  Last(g, i) <=> Last(h, i)
  <2>1. \A k \in (i + 1)..Len(h) : k \in (i + 1)..n /\ g[k] = h[k] BY <1>1, <1>3
  <2>2. \A k \in (i + 1)..n : k \in (i + 1)..Len(h) \/ k = n BY <1>1
  <2> QED BY <2>1, <2>2, <1>1, <1>2, <1>8 DEF Last
<1> QED BY <1>1, <1>2, <1>3, <1>4, <1>5, <1>6, <1>7, <1>8 DEF g

LEMMA PairedUser ==
  ASSUME NEW h \in Seq(Messages), NEW m \in Messages, m.role = "user", Paired(h, {})
  PROVE  Paired(Append(h, m), {})
<1> DEFINE g == Append(h, m)
<1> DEFINE n == Len(h) + 1
<1>1. /\ Len(g) = n /\ Len(h) \in Nat
      /\ g[n] = m /\ \A i \in 1..Len(h) : g[i] = h[i]
      /\ \A i, j \in 1..Len(h) : Behind(g, i, j) <=> Behind(h, i, j)
      /\ \A i \in 1..n : ~Behind(g, i, n)
  BY BehindAppend
<1>2. m.calls = <<>> /\ Elements(m.calls) = {}
  BY MessageFacts DEF Elements
<1> HIDE DEF g
<1>3. CallsSound(g)
  BY <1>1 DEF Paired, CallsSound
<1>4. CallsApart(g)
  <2> SUFFICES ASSUME NEW i \in 1..n, NEW k \in 1..n, i # k
               PROVE  Elements(g[i].calls) \intersect Elements(g[k].calls) = {}
    BY <1>1 DEF CallsApart
  <2>1. CASE i = n \/ k = n
    BY <2>1, <1>1, <1>2
  <2>2. CASE i \in 1..Len(h) /\ k \in 1..Len(h)
    BY <2>2, <1>1 DEF Paired, CallsApart
  <2> QED BY <2>1, <2>2, <1>1
<1>5. AnswersSound(g)
  BY <1>1 DEF Paired, AnswersSound
<1>6. CallsAnswered(g, {})
  <2> SUFFICES ASSUME NEW i \in 1..n, g[i].role = "assistant", NEW x \in Elements(g[i].calls)
               PROVE  \E j \in 1..n : Behind(g, i, j) /\ g[j].id = x
    <3>1. Len(g) = n BY <1>1
    <3> HIDE DEF n
    <3> QED BY <3>1, Zenon DEF CallsAnswered
  <2>1. i \in 1..Len(h) /\ g[i] = h[i] BY <1>1
  <2>2. PICK j \in 1..Len(h) : Behind(h, i, j) /\ h[j].id = x
    BY <2>1 DEF Paired, CallsAnswered
  <2> QED BY <2>1, <2>2, <1>1
<1>7. ResultsOwned(g)
  BY <1>1 DEF Paired, ResultsOwned
<1>8. OpenCalled(g, {})
  BY DEF OpenCalled
<1> QED BY <1>3, <1>4, <1>5, <1>6, <1>7, <1>8 DEF Paired, g

LEMMA PairedSystem ==
  ASSUME NEW h \in Seq(Messages), NEW m \in Messages, m.role = "system", NEW open, Paired(h, open)
  PROVE  Paired(Append(h, m), open)
<1> DEFINE g == Append(h, m)
<1> DEFINE n == Len(h) + 1
<1>1. /\ Len(g) = n /\ Len(h) \in Nat
      /\ g[n] = m /\ \A i \in 1..Len(h) : g[i] = h[i]
      /\ \A i, j \in 1..Len(h) : Behind(g, i, j) <=> Behind(h, i, j)
      /\ \A i \in 1..n : ~Behind(g, i, n)
      /\ \A i \in 1..Len(h) : Last(g, i) <=> Last(h, i)
  BY BehindAppend
<1>2. m.calls = <<>> /\ Elements(m.calls) = {}
  BY MessageFacts DEF Elements
<1> HIDE DEF g
<1>3. CallsSound(g)
  BY <1>1 DEF Paired, CallsSound
<1>4. CallsApart(g)
  <2> SUFFICES ASSUME NEW i \in 1..n, NEW k \in 1..n, i # k
               PROVE  Elements(g[i].calls) \intersect Elements(g[k].calls) = {}
    BY <1>1 DEF CallsApart
  <2>1. CASE i = n \/ k = n
    BY <2>1, <1>1, <1>2
  <2>2. CASE i \in 1..Len(h) /\ k \in 1..Len(h)
    BY <2>2, <1>1 DEF Paired, CallsApart
  <2> QED BY <2>1, <2>2, <1>1
<1>5. AnswersSound(g)
  BY <1>1 DEF Paired, AnswersSound
<1>6. CallsAnswered(g, open)
  <2> SUFFICES ASSUME NEW i \in 1..n, g[i].role = "assistant", NEW x \in Elements(g[i].calls)
               PROVE  \/ \E j \in 1..n : Behind(g, i, j) /\ g[j].id = x
                      \/ x \in open /\ Last(g, i)
    <3>1. Len(g) = n BY <1>1
    <3> HIDE DEF n
    <3> QED BY <3>1, Zenon DEF CallsAnswered
  <2>1. i \in 1..Len(h) /\ g[i] = h[i] BY <1>1
  <2>2. \/ \E j \in 1..Len(h) : Behind(h, i, j) /\ h[j].id = x
        \/ x \in open /\ Last(h, i)
    BY <2>1 DEF Paired, CallsAnswered
  <2> QED BY <2>1, <2>2, <1>1
<1>7. ResultsOwned(g)
  BY <1>1 DEF Paired, ResultsOwned
<1>8. OpenCalled(g, open)
  <2> SUFFICES ASSUME open # {}
               PROVE  \E i \in 1..n :
                        /\ g[i].role = "assistant" /\ Last(g, i)
                        /\ open \subseteq Elements(g[i].calls)
                        /\ \A j \in 1..n : Behind(g, i, j) => g[j].id \notin open
    BY <1>1 DEF OpenCalled
  <2>1. PICK i \in 1..Len(h) :
          /\ h[i].role = "assistant" /\ Last(h, i)
          /\ open \subseteq Elements(h[i].calls)
          /\ \A j \in 1..Len(h) : Behind(h, i, j) => h[j].id \notin open
    BY DEF Paired, OpenCalled
  <2>2. i \in 1..n /\ g[i] = h[i] /\ Last(g, i) BY <2>1, <1>1
  <2>3. \A j \in 1..n : Behind(g, i, j) => g[j].id \notin open
    <3> TAKE j \in 1..n
    <3>1. CASE j = n BY <3>1, <2>2, <1>1
    <3>2. CASE j \in 1..Len(h) BY <3>2, <2>1, <1>1
    <3> QED BY <3>1, <3>2, <1>1
  <2> QED BY <2>1, <2>2, <2>3
<1> QED BY <1>3, <1>4, <1>5, <1>6, <1>7, <1>8 DEF Paired, g

LEMMA PairedAssistant ==
  ASSUME NEW h \in Seq(Messages), NEW m \in Messages, m.role = "assistant", Paired(h, {}),
         Distinct(m.calls), NoId \notin Elements(m.calls),
         m.calls # <<>> \/ m.kind # "empty",
         \A i \in 1..Len(h) : Elements(h[i].calls) \intersect Elements(m.calls) = {}
  PROVE  Paired(Append(h, m), Elements(m.calls))
<1> DEFINE g == Append(h, m)
<1> DEFINE n == Len(h) + 1
<1>1. /\ Len(g) = n /\ Len(h) \in Nat
      /\ g[n] = m /\ \A i \in 1..Len(h) : g[i] = h[i]
      /\ \A i, j \in 1..Len(h) : Behind(g, i, j) <=> Behind(h, i, j)
      /\ \A i \in 1..n : ~Behind(g, i, n)
      /\ \A j \in 1..n : ~Behind(g, n, j)
      /\ Last(g, n)
  BY BehindAppend
<1> HIDE DEF g
<1>3. CallsSound(g)
  BY <1>1 DEF Paired, CallsSound
<1>4. CallsApart(g)
  <2> SUFFICES ASSUME NEW i \in 1..n, NEW k \in 1..n, i # k
               PROVE  Elements(g[i].calls) \intersect Elements(g[k].calls) = {}
    BY <1>1 DEF CallsApart
  <2>1. CASE i = n
    BY <2>1, <1>1
  <2>2. CASE k = n
    BY <2>2, <1>1
  <2>3. CASE i \in 1..Len(h) /\ k \in 1..Len(h)
    BY <2>3, <1>1 DEF Paired, CallsApart
  <2> QED BY <2>1, <2>2, <2>3, <1>1
<1>5. AnswersSound(g)
  BY <1>1 DEF Paired, AnswersSound
<1>6. CallsAnswered(g, Elements(m.calls))
  <2> SUFFICES ASSUME NEW i \in 1..n, g[i].role = "assistant", NEW x \in Elements(g[i].calls)
               PROVE  \/ \E j \in 1..n : Behind(g, i, j) /\ g[j].id = x
                      \/ x \in Elements(m.calls) /\ Last(g, i)
    BY <1>1 DEF CallsAnswered
  <2>1. CASE i = n BY <2>1, <1>1
  <2>2. CASE i \in 1..Len(h)
    <3>1. g[i] = h[i] BY <2>2, <1>1
    <3>2. PICK j \in 1..Len(h) : Behind(h, i, j) /\ h[j].id = x
      BY <2>2, <3>1 DEF Paired, CallsAnswered
    <3> QED BY <2>2, <3>1, <3>2, <1>1
  <2> QED BY <2>1, <2>2, <1>1
<1>7. ResultsOwned(g)
  BY <1>1 DEF Paired, ResultsOwned
<1>8. OpenCalled(g, Elements(m.calls))
  BY <1>1 DEF OpenCalled
<1> QED BY <1>3, <1>4, <1>5, <1>6, <1>7, <1>8 DEF Paired, g

(* Results belong to the calls in front of them.                             *)
LEMMA BehindConcat ==
  ASSUME NEW h \in Seq(Messages), NEW t \in Seq(Messages),
         \A j \in 1..Len(t) : t[j].role = "tool"
  PROVE  LET g == h \o t
             n == Len(h) IN
         /\ g \in Seq(Messages) /\ Len(g) = n + Len(t) /\ n \in Nat /\ Len(t) \in Nat
         /\ \A i \in 1..n : g[i] = h[i]
         /\ \A j \in (n + 1)..(n + Len(t)) : g[j] = t[j - n]
         /\ \A i, j \in 1..n : Behind(g, i, j) <=> Behind(h, i, j)
         /\ \A i \in 1..n : \A j \in (n + 1)..(n + Len(t)) : Behind(g, i, j) <=> Last(h, i)
         /\ \A i \in 1..n : Last(g, i) <=> Last(h, i)
<1> DEFINE g == h \o t
<1> DEFINE n == Len(h)
<1>1. g \in Seq(Messages) /\ Len(g) = n + Len(t) /\ n \in Nat /\ Len(t) \in Nat
  BY ConcatProperties
<1>2. \A i \in 1..n : g[i] = h[i]
  BY <1>1, ConcatProperties
<1>3. \A j \in (n + 1)..(n + Len(t)) : g[j] = t[j - n] /\ g[j].role = "tool"
  BY <1>1, ConcatProperties
<1> HIDE DEF g, n
<1>4. ASSUME NEW i \in 1..n, NEW j \in 1..n
      PROVE  Behind(g, i, j) <=> Behind(h, i, j)
  <2>1. \A k \in (i + 1)..j : g[k] = h[k] BY <1>1, <1>2
  <2> QED BY <2>1, <1>2 DEF Behind
<1>5. ASSUME NEW i \in 1..n, NEW j \in (n + 1)..(n + Len(t))
      PROVE  Behind(g, i, j) <=> Last(h, i)
  <2>1. \A k \in (i + 1)..n : g[k] = h[k] BY <1>1, <1>2
  <2>2. \A k \in (n + 1)..j : g[k].role = "tool" BY <1>1, <1>3
  <2>3. i < j /\ \A k \in (i + 1)..j : k \in (i + 1)..n \/ k \in (n + 1)..j BY <1>1
  <2>4. \A k \in (i + 1)..n : k \in (i + 1)..j BY <1>1
  <2>5. Last(h, i) <=> \A k \in (i + 1)..n : h[k].role \in {"tool", "system"} BY DEF Last, n
  <2> QED BY <2>1, <2>2, <2>3, <2>4, <2>5, <1>3 DEF Behind
<1>6. ASSUME NEW i \in 1..n PROVE Last(g, i) <=> Last(h, i)
  <2>1. \A k \in (i + 1)..n : g[k] = h[k] BY <1>1, <1>2
  <2>2. \A k \in (i + 1)..(n + Len(t)) : k \in (i + 1)..n \/ k \in (n + 1)..(n + Len(t)) BY <1>1
  <2>3. \A k \in (i + 1)..n : k \in (i + 1)..(n + Len(t)) BY <1>1
  <2>5. Last(h, i) <=> \A k \in (i + 1)..n : h[k].role \in {"tool", "system"} BY DEF Last, n
  <2>6. Last(g, i) <=> \A k \in (i + 1)..(n + Len(t)) : g[k].role \in {"tool", "system"}
    BY <1>1 DEF Last
  <2> QED BY <2>1, <2>2, <2>3, <2>5, <2>6, <1>3
<1> QED BY <1>1, <1>2, <1>3, <1>4, <1>5, <1>6 DEF g, n

LEMMA PairedResults ==
  ASSUME NEW h \in Seq(Messages), NEW open, Paired(h, open),
         NEW t \in Seq(Messages), NEW left,
         \A j \in 1..Len(t) : t[j].role = "tool" /\ t[j].id \in open,
         \A j, k \in 1..Len(t) : t[j].id = t[k].id => j = k,
         \A x : x \in left <=> x \in open /\ \A j \in 1..Len(t) : t[j].id # x
  PROVE  Paired(h \o t, left)
<1> DEFINE g == h \o t
<1> DEFINE n == Len(h)
<1> DEFINE N == n + Len(t)
<1>1. /\ Len(g) = N /\ n \in Nat /\ Len(t) \in Nat
      /\ \A i \in 1..n : g[i] = h[i]
      /\ \A j \in (n + 1)..N : g[j] = t[j - n]
      /\ \A i, j \in 1..n : Behind(g, i, j) <=> Behind(h, i, j)
      /\ \A i \in 1..n : \A j \in (n + 1)..N : Behind(g, i, j) <=> Last(h, i)
      /\ \A i \in 1..n : Last(g, i) <=> Last(h, i)
  BY BehindConcat
<1>2. /\ \A j \in (n + 1)..N : g[j] \in Messages /\ g[j].role = "tool" /\ g[j].id \in open
      /\ \A j, k \in (n + 1)..N : g[j].id = g[k].id => j = k
  <2>1. \A j \in (n + 1)..N : j - n \in 1..Len(t) /\ g[j] = t[j - n] BY <1>1
  <2>2. \A j \in (n + 1)..N : g[j] \in Messages /\ g[j].role = "tool" /\ g[j].id \in open
    BY <2>1
  <2>3. ASSUME NEW j \in (n + 1)..N, NEW k \in (n + 1)..N, g[j].id = g[k].id PROVE j = k
    <3>1. j - n = k - n BY <2>1, <2>3
    <3> QED BY <3>1, <1>1
  <2> QED BY <2>2, <2>3
<1>3. \A x : x \in left <=> x \in open /\ \A j \in (n + 1)..N : g[j].id # x
  <2>1. \A j \in 1..Len(t) : j + n \in (n + 1)..N /\ g[j + n] = t[j] BY <1>1
  <2>2. \A j \in (n + 1)..N : j - n \in 1..Len(t) /\ g[j] = t[j - n] BY <1>1
  <2>3. ASSUME NEW x
        PROVE  (\A j \in 1..Len(t) : t[j].id # x) <=> (\A j \in (n + 1)..N : g[j].id # x)
    <3>1. ASSUME \A j \in 1..Len(t) : t[j].id # x, NEW j \in (n + 1)..N PROVE g[j].id # x
      BY <3>1, <2>2
    <3>2. ASSUME \A j \in (n + 1)..N : g[j].id # x, NEW j \in 1..Len(t) PROVE t[j].id # x
      <4>1. j + n \in (n + 1)..N /\ g[j + n] = t[j] BY <2>1
      <4> QED BY <3>2, <4>1
    <3> QED BY <3>1, <3>2
  <2> QED BY <2>3
<1>4. \A j \in 1..N : j \in 1..n \/ j \in (n + 1)..N
  BY <1>1
<1>5. \A j \in (n + 1)..N : g[j].calls = <<>> /\ Elements(g[j].calls) = {}
  BY <1>2, MessageFacts DEF Elements
<1>6. 1..n \subseteq 1..N /\ (n + 1)..N \subseteq 1..N
  BY <1>1
<1>7. /\ \A i \in 1..n : h[i].role = "assistant" =>
           /\ Distinct(h[i].calls)
           /\ NoId \notin Elements(h[i].calls)
           /\ h[i].calls # <<>> \/ h[i].kind # "empty"
      /\ \A i, k \in 1..n : i # k => Elements(h[i].calls) \intersect Elements(h[k].calls) = {}
      /\ \A i \in 1..n : h[i].role = "assistant" =>
           /\ \A j \in 1..n : Behind(h, i, j) => h[j].id \in Elements(h[i].calls)
           /\ \A j, k \in 1..n :
                Behind(h, i, j) /\ Behind(h, i, k) /\ h[j].id = h[k].id => j = k
           /\ \A x \in Elements(h[i].calls) :
                \/ \E j \in 1..n : Behind(h, i, j) /\ h[j].id = x
                \/ x \in open /\ Last(h, i)
      /\ \A j \in 1..n : h[j].role = "tool" =>
           \E i \in 1..n : h[i].role = "assistant" /\ Behind(h, i, j)
  BY DEF Paired, CallsSound, CallsApart, AnswersSound, CallsAnswered, ResultsOwned
<1>8. OpenCalled(h, open)
  BY DEF Paired
<1>9. \A i, k \in 1..n : h[i].role = "assistant" /\ h[k].role = "assistant"
                         /\ Last(h, i) /\ Last(h, k) => i = k
  <2> SUFFICES ASSUME NEW i \in 1..n, NEW k \in 1..n, h[i].role = "assistant",
                      h[k].role = "assistant", Last(h, i), Last(h, k), i < k
               PROVE  FALSE
    BY <1>1
  <2>1. k \in (i + 1)..Len(h) BY <1>1
  <2> QED BY <2>1 DEF Last
<1>10. \A i \in 1..n : h[i].role = "assistant" /\ Last(h, i) /\ open # {} =>
         /\ open \subseteq Elements(h[i].calls)
         /\ \A j \in 1..n : Behind(h, i, j) => h[j].id \notin open
  BY <1>8, <1>9 DEF OpenCalled
<1> HIDE DEF g, n, N
<1>11. CallsSound(g)
  BY <1>1, <1>2, <1>4, <1>7 DEF CallsSound
<1>12. CallsApart(g)
  <2> SUFFICES ASSUME NEW i \in 1..N, NEW k \in 1..N, i # k
               PROVE  Elements(g[i].calls) \intersect Elements(g[k].calls) = {}
    BY <1>1 DEF CallsApart
  <2>1. CASE i \in (n + 1)..N \/ k \in (n + 1)..N
    BY <2>1, <1>5
  <2>2. CASE i \in 1..n /\ k \in 1..n
    BY <2>2, <1>1, <1>7
  <2> QED BY <2>1, <2>2, <1>4
<1>13. AnswersSound(g)
  <2> SUFFICES ASSUME NEW i \in 1..N, g[i].role = "assistant"
               PROVE  /\ \A j \in 1..N : Behind(g, i, j) => g[j].id \in Elements(g[i].calls)
                      /\ \A j, k \in 1..N :
                           Behind(g, i, j) /\ Behind(g, i, k) /\ g[j].id = g[k].id => j = k
    BY <1>1 DEF AnswersSound
  <2>1. i \in 1..n /\ h[i].role = "assistant" /\ g[i] = h[i] BY <1>1, <1>2, <1>4
  <2>2. ASSUME NEW j \in 1..N, Behind(g, i, j) PROVE g[j].id \in Elements(g[i].calls)
    <3>1. CASE j \in 1..n BY <3>1, <2>1, <2>2, <1>1, <1>7
    <3>2. CASE j \in (n + 1)..N
      <4>1. Last(h, i) /\ g[j].id \in open BY <3>2, <2>1, <2>2, <1>1, <1>2
      <4> QED BY <4>1, <2>1, <1>10
    <3> QED BY <3>1, <3>2, <1>4
  <2>3. ASSUME NEW j \in 1..N, NEW k \in 1..N,
               Behind(g, i, j), Behind(g, i, k), g[j].id = g[k].id
        PROVE  j = k
    <3>1. CASE j \in 1..n /\ k \in 1..n BY <3>1, <2>1, <2>3, <1>1, <1>7
    <3>2. CASE j \in (n + 1)..N /\ k \in (n + 1)..N BY <3>2, <2>3, <1>2
    <3>3. CASE j \in 1..n /\ k \in (n + 1)..N
      <4>1. Last(h, i) /\ g[k].id \in open BY <3>3, <2>1, <2>3, <1>1, <1>2
      <4>2. h[j].id \notin open BY <4>1, <3>3, <2>1, <2>3, <1>1, <1>10
      <4> QED BY <4>1, <4>2, <3>3, <2>3, <1>1
    <3>4. CASE k \in 1..n /\ j \in (n + 1)..N
      <4>1. Last(h, i) /\ g[j].id \in open BY <3>4, <2>1, <2>3, <1>1, <1>2
      <4>2. h[k].id \notin open BY <4>1, <3>4, <2>1, <2>3, <1>1, <1>10
      <4> QED BY <4>1, <4>2, <3>4, <2>3, <1>1
    <3> QED BY <3>1, <3>2, <3>3, <3>4, <1>4
  <2> QED BY <2>2, <2>3
<1>14. CallsAnswered(g, left)
  <2> SUFFICES ASSUME NEW i \in 1..N, g[i].role = "assistant", NEW x \in Elements(g[i].calls)
               PROVE  \/ \E j \in 1..N : Behind(g, i, j) /\ g[j].id = x
                      \/ x \in left /\ Last(g, i)
    BY <1>1 DEF CallsAnswered
  <2>1. i \in 1..n /\ h[i].role = "assistant" /\ g[i] = h[i] BY <1>1, <1>2, <1>4
  <2>2. CASE \E j \in 1..n : Behind(h, i, j) /\ h[j].id = x
    BY <2>1, <2>2, <1>1, <1>6
  <2>3. CASE x \in open /\ Last(h, i)
    BY <2>1, <2>3, <1>1, <1>3, <1>6
  <2> QED BY <2>1, <2>2, <2>3, <1>7
<1>15. ResultsOwned(g)
  <2> SUFFICES ASSUME NEW j \in 1..N, g[j].role = "tool"
               PROVE  \E i \in 1..N : g[i].role = "assistant" /\ Behind(g, i, j)
    BY <1>1 DEF ResultsOwned
  <2>1. CASE j \in 1..n BY <2>1, <1>1, <1>6, <1>7
  <2>2. CASE j \in (n + 1)..N
    <3>1. open # {} BY <2>2, <1>2
    <3>2. PICK i \in 1..n : h[i].role = "assistant" /\ Last(h, i)
      BY <3>1, <1>8 DEF OpenCalled, n
    <3> QED BY <2>2, <3>2, <1>1, <1>6
  <2> QED BY <2>1, <2>2, <1>4
<1>16. OpenCalled(g, left)
  <2> SUFFICES ASSUME left # {}
               PROVE  \E i \in 1..N :
                        /\ g[i].role = "assistant" /\ Last(g, i)
                        /\ left \subseteq Elements(g[i].calls)
                        /\ \A j \in 1..N : Behind(g, i, j) => g[j].id \notin left
    BY <1>1 DEF OpenCalled
  <2>1. open # {} BY <1>3
  <2>2. PICK i \in 1..n : h[i].role = "assistant" /\ Last(h, i)
    BY <2>1, <1>8 DEF OpenCalled, n
  <2>3. g[i] = h[i] /\ Last(g, i) /\ i \in 1..N BY <2>2, <1>1, <1>6
  <2>4. left \subseteq Elements(g[i].calls) BY <2>1, <2>2, <2>3, <1>3, <1>10
  <2>5. ASSUME NEW j \in 1..N, Behind(g, i, j) PROVE g[j].id \notin left
    <3>1. CASE j \in 1..n BY <3>1, <2>1, <2>2, <2>5, <1>1, <1>3, <1>10
    <3>2. CASE j \in (n + 1)..N BY <3>2, <1>3
    <3> QED BY <3>1, <3>2, <1>4
  <2> QED BY <2>2, <2>3, <2>4, <2>5
<1> QED BY <1>11, <1>12, <1>13, <1>14, <1>15, <1>16 DEF Paired, g

-----------------------------------------------------------------------------
(* One message of the recovery.                                             *)

LEMMA RecoveredUser ==
  ASSUME NEW st \in States, NEW m \in Messages, m.role = "user"
  PROVE  /\ Recovered(st, m) \in States
         /\ Recovered(st, m).out = Append(Flushed(st).out, m)
         /\ Recovered(st, m).pending = <<>>
         /\ Recovered(st, m).called = st.called
<1> DEFINE now == Flushed(st)
<1>1. Recovered(st, m) = [now EXCEPT !.out = Append(now.out, m)]
  BY FlushedFacts DEF Recovered, EndsWait, States
<1>2. now \in States /\ now.pending = <<>> /\ now.called = st.called
  BY FlushedFacts
<1> HIDE DEF now
<1>3. Append(now.out, m) \in Seq(Messages)
  BY <1>2, AppendProperties DEF States
<1>4. /\ Recovered(st, m) \in States
      /\ Recovered(st, m).out = Append(now.out, m)
      /\ Recovered(st, m).pending = now.pending
      /\ Recovered(st, m).called = now.called
  BY <1>1, <1>2, <1>3 DEF States
<1> QED BY <1>2, <1>4 DEF now

LEMMA RecoveredSystem ==
  ASSUME NEW st \in States, NEW m \in Messages, m.role = "system"
  PROVE  /\ Recovered(st, m) \in States
         /\ Recovered(st, m).out = Append(st.out, m)
         /\ Recovered(st, m).pending = st.pending
         /\ Recovered(st, m).called = st.called
<1>1. Recovered(st, m) = [st EXCEPT !.out = Append(st.out, m)]
  BY DEF Recovered, EndsWait, States
<1>2. Append(st.out, m) \in Seq(Messages)
  BY AppendProperties DEF States
<1> QED BY <1>1, <1>2 DEF States

LEMMA RecoveredAssistant ==
  ASSUME NEW st \in States, NEW m \in Messages, m.role = "assistant"
  PROVE  LET new == NewCalls(st.called, m.calls)
             r == Recovered(st, m)
             kept == [m EXCEPT !.calls = new] IN
         /\ r \in States
         /\ new = <<>> /\ m.kind = "empty" => r = Flushed(st)
         /\ ~(new = <<>> /\ m.kind = "empty") =>
              /\ r.out = Append(Flushed(st).out, kept)
              /\ r.pending = new
              /\ r.called = st.called \union Elements(new)
<1> DEFINE now == Flushed(st)
<1> DEFINE new == NewCalls(st.called, m.calls)
<1> DEFINE kept == [m EXCEPT !.calls = new]
<1>1. now \in States /\ now.called = st.called
  BY FlushedFacts
<1>2. new \in Seq(CallIds) /\ Elements(new) \subseteq CallIds
  BY MessageFacts, NewCallsFacts, ElementsFacts
<1>3. kept \in Messages
  BY <1>2, CallsReplaced
<1>4. Recovered(st, m) = IF new = <<>> /\ m.kind = "empty" THEN now
                         ELSE [out |-> Append(now.out, kept), pending |-> new,
                               called |-> now.called \union Elements(new)]
  BY <1>1 DEF Recovered, EndsWait, WithAssistant
<1> HIDE DEF now, new, kept
<1>5. Append(now.out, kept) \in Seq(Messages)
  BY <1>1, <1>3, AppendProperties DEF States
<1>6. Recovered(st, m) \in States
  BY <1>1, <1>2, <1>4, <1>5 DEF States
<1>7. new = <<>> /\ m.kind = "empty" => Recovered(st, m) = now
  BY <1>4
<1>8. ~(new = <<>> /\ m.kind = "empty") =>
        /\ Recovered(st, m).out = Append(now.out, kept)
        /\ Recovered(st, m).pending = new
        /\ Recovered(st, m).called = now.called \union Elements(new)
  BY <1>4
<1> QED BY <1>1, <1>6, <1>7, <1>8 DEF now, new, kept

LEMMA RecoveredResult ==
  ASSUME NEW st \in States, NEW m \in Messages, m.role = "tool"
  PROVE  LET r == Recovered(st, m)
             left == Only(st.pending, Elements(st.pending) \ {m.id}) IN
         /\ r \in States
         /\ m.id \notin Elements(st.pending) => r = st
         /\ m.id \in Elements(st.pending) =>
              r.out = Append(st.out, m) /\ r.pending = left /\ r.called = st.called
<1> DEFINE left == Only(st.pending, Elements(st.pending) \ {m.id})
<1>1. Recovered(st, m) = IF m.id \in Elements(st.pending)
                         THEN [st EXCEPT !.out = Append(st.out, m), !.pending = left] ELSE st
  BY DEF Recovered, EndsWait, WithResult, States
<1>2. left \in Seq(CallIds)
  BY OnlyFacts DEF States
<1>3. Append(st.out, m) \in Seq(Messages)
  BY AppendProperties DEF States
<1> HIDE DEF left
<1>4. Recovered(st, m) \in States
  BY <1>1, <1>2, <1>3 DEF States
<1>5. m.id \in Elements(st.pending) =>
        /\ Recovered(st, m).out = Append(st.out, m)
        /\ Recovered(st, m).pending = left
        /\ Recovered(st, m).called = st.called
  BY <1>1 DEF States
<1> QED BY <1>1, <1>4, <1>5 DEF left

LEMMA RecoveredType ==
  ASSUME NEW st \in States, NEW m \in Messages
  PROVE  Recovered(st, m) \in States
BY MessageFacts, RecoveredUser, RecoveredSystem, RecoveredAssistant, RecoveredResult

LEMMA FreshType == Fresh \in States
BY EmptySeq DEF Fresh, States

(* The whole recovery, state by state.                                      *)
LEMMA RecoverySteps ==
  ASSUME NEW h \in Seq(Messages)
  PROVE  /\ Recovery(h) \in [0..Len(h) -> States]
         /\ Recovery(h)[0] = Fresh
         /\ \A n \in 1..Len(h) : Recovery(h)[n] = Recovered(Recovery(h)[n - 1], h[n])
<1> DEFINE N == Len(h)
<1> DEFINE step == [p \in States \X (1..N) |-> Recovered(p[1], h[p[2]])]
<1>1. N \in Nat /\ \A n \in 1..N : h[n] \in Messages
  OBVIOUS
<1>3. Recovery(h) = CHOOSE f : f = [n \in 0..N |-> IF n = 0 THEN Fresh ELSE Recovered(f[n - 1], h[n])]
  BY DEF Recovery
<1> HIDE DEF N
<1>5. step \in [States \X (1..N) -> States]
  <2>1. \A p \in States \X (1..N) : p[1] \in States /\ h[p[2]] \in Messages BY <1>1
  <2> QED BY <2>1, RecoveredType
<1>6. \A p \in States, n \in 1..N : step[<<p, n>>] = Recovered(p, h[n])
  OBVIOUS
<1> HIDE DEF step
<1>7. PICK g \in [0..N -> States] : g[0] = Fresh /\ \A n \in 1..N : g[n] = step[<<g[n - 1], n>>]
  <2>1. \E g : Recurses(g, N, States, Fresh, step)
    BY <1>1, <1>5, FreshType, RecursionExists
  <2> QED BY <2>1 DEF Recurses
<1>8. \A n \in 1..N : g[n] = Recovered(g[n - 1], h[n])
  <2> TAKE n \in 1..N
  <2>1. n - 1 \in 0..N BY <1>1
  <2>2. g[n - 1] \in States BY <1>7, <2>1
  <2>3. g[n] = step[<<g[n - 1], n>>] BY <1>7
  <2> QED BY <1>6, <2>2, <2>3
<1>9. g = [n \in 0..N |-> IF n = 0 THEN Fresh ELSE Recovered(g[n - 1], h[n])]
  <2>1. \A n \in 0..N : g[n] = IF n = 0 THEN Fresh ELSE Recovered(g[n - 1], h[n])
    BY <1>7, <1>8, <1>1
  <2> QED BY <2>1, <1>7
<1> DEFINE st == Recovery(h)
<1>10. st = [n \in 0..N |-> IF n = 0 THEN Fresh ELSE Recovered(st[n - 1], h[n])]
  BY <1>3, <1>9
<1> HIDE DEF st
<1>12. st[0] = Fresh /\ \A n \in 1..N : st[n] = Recovered(st[n - 1], h[n])
  BY <1>10, <1>1
<1>13. st \in [0..N -> States]
  <2> DEFINE S == {n \in 0..N : st[n] \in States}
  <2>1. 0 \in S BY <1>12, <1>1, FreshType
  <2>2. \A n \in 0..(N - 1) : n \in S => n + 1 \in S
    <3> TAKE n \in 0..(N - 1)
    <3> HAVE n \in S
    <3>1. n + 1 \in 1..N /\ n + 1 \in 0..N /\ (n + 1) - 1 = n BY <1>1
    <3>2. st[n + 1] = Recovered(st[n], h[n + 1]) BY <3>1, <1>12
    <3> QED BY <3>1, <3>2, <1>1, RecoveredType
  <2>3. 0..N \subseteq S
    <3> HIDE DEF S
    <3> QED BY <1>1, <2>1, <2>2, RangeInduction
  <2> QED BY <2>3, <1>10
<1> QED BY <1>12, <1>13 DEF N, st

LEMMA RecoverType ==
  ASSUME NEW h \in Seq(Messages)
  PROVE  Recover(h) \in Seq(Messages)
<1>1. Recovery(h)[Len(h)] \in States
  <2>1. Len(h) \in 0..Len(h) OBVIOUS
  <2> QED BY <2>1, RecoverySteps
<1> QED BY <1>1, FlushedFacts DEF Recover, States

(* What has been put out is paired, but for what is pending.                 *)
Sound(st) ==
  /\ Paired(st.out, Elements(st.pending))
  /\ Distinct(st.pending)
  /\ \A i \in 1..Len(st.out) : Elements(st.out[i].calls) \subseteq st.called

LEMMA FreshSound == Sound(Fresh)
<1>1. Elements(<<>>) = {} /\ Distinct(<<>>) /\ Len(<<>>) = 0 /\ 1..0 = {}
  BY DEF Elements, Distinct
<1> QED BY <1>1, PairedEmpty DEF Sound, Fresh

LEMMA FlushedSound ==
  ASSUME NEW st \in States, Sound(st)
  PROVE  Sound(Flushed(st)) /\ Paired(Flushed(st).out, {})
<1> DEFINE t == Placeholders(st.pending)
<1> DEFINE n == Len(st.out)
<1>1. /\ t \in Seq(Messages) /\ Len(t) = Len(st.pending)
      /\ \A j \in 1..Len(t) : t[j] = Result(st.pending[j], "placeholder")
  BY PlaceholderFacts DEF States
<1>2. st.pending \in Seq(CallIds) /\ st.out \in Seq(Messages)
  BY DEF States
<1>3. \A j \in 1..Len(t) : t[j].role = "tool" /\ t[j].id = st.pending[j] /\ st.pending[j] \in CallIds
  BY <1>1, <1>2, ResultIsMessage
<1> HIDE DEF t
<1>4. \A j \in 1..Len(t) : t[j].role = "tool" /\ t[j].id \in Elements(st.pending)
  BY <1>1, <1>2, <1>3, ElementsFacts
<1>5. \A j, k \in 1..Len(t) : t[j].id = t[k].id => j = k
  BY <1>1, <1>3 DEF Sound, Distinct
<1>6. \A x : x \in {} <=> x \in Elements(st.pending) /\ \A j \in 1..Len(t) : t[j].id # x
  <2>1. \A x \in Elements(st.pending) : \E j \in 1..Len(t) : t[j].id = x
    BY <1>1, <1>2, <1>3, ElementsFacts
  <2> QED BY <2>1
<1>7. Paired(st.out \o t, {})
  <2> DEFINE o == st.out
  <2> DEFINE open == Elements(st.pending)
  <2>1. o \in Seq(Messages) /\ Paired(o, open)
    BY <1>2 DEF Sound
  <2>2. \A j \in 1..Len(t) : t[j].role = "tool" /\ t[j].id \in open
    BY <1>4
  <2>3. \A x : x \in {} <=> x \in open /\ \A j \in 1..Len(t) : t[j].id # x
    BY <1>6
  <2> HIDE DEF o, open
  <2>4. Paired(o \o t, {})
    BY <1>1, <1>5, <2>1, <2>2, <2>3, PairedResults
  <2> QED BY <2>4 DEF o
<1>8. Flushed(st).out = st.out \o t /\ Flushed(st).pending = <<>> /\ Flushed(st).called = st.called
  BY FlushedFacts DEF t
<1>9. Elements(<<>>) = {} /\ Distinct(<<>>)
  BY DEF Elements, Distinct
<1>10. ASSUME NEW i \in 1..Len(st.out \o t)
       PROVE  Elements((st.out \o t)[i].calls) \subseteq st.called
  <2> DEFINE o == st.out
  <2>o. o \in Seq(Messages) /\ n = Len(o) BY <1>2
  <2>t. \A j \in 1..Len(t) : t[j].role = "tool" BY <1>4
  <2> HIDE DEF n, o
  <2>b. /\ Len(o \o t) = Len(o) + Len(t) /\ Len(o) \in Nat /\ Len(t) \in Nat
        /\ \A k \in 1..Len(o) : (o \o t)[k] = o[k]
        /\ \A k \in (Len(o) + 1)..(Len(o) + Len(t)) : (o \o t)[k] = t[k - Len(o)]
    BY <1>1, <2>o, <2>t, BehindConcat
  <2>a. /\ Len(o \o t) = n + Len(t) /\ n \in Nat /\ Len(t) \in Nat
        /\ \A k \in 1..n : (o \o t)[k] = o[k]
        /\ \A k \in (n + 1)..(n + Len(t)) : (o \o t)[k] = t[k - n]
    BY <2>b, <2>o
  <2>1. /\ Len(st.out \o t) = n + Len(t) /\ n \in Nat /\ Len(t) \in Nat
        /\ \A k \in 1..n : (st.out \o t)[k] = st.out[k]
        /\ \A k \in (n + 1)..(n + Len(t)) : (st.out \o t)[k] = t[k - n]
    BY <2>a DEF o
  <2>2. CASE i \in 1..n BY <2>1, <2>2 DEF Sound, n
  <2>3. CASE i \in (n + 1)..(n + Len(t))
    <3>1. i - n \in 1..Len(t) /\ (st.out \o t)[i] = t[i - n] BY <2>1, <2>3
    <3>2. t[i - n] \in Messages /\ t[i - n].role = "tool" BY <3>1, <1>1, <1>4
    <3>3. t[i - n].calls = <<>> BY <3>2, MessageFacts
    <3> QED BY <3>1, <3>3, <1>9
  <2> QED BY <2>1, <2>2, <2>3
<1> QED BY <1>7, <1>8, <1>9, <1>10 DEF Sound

LEMMA RecoveredSound ==
  ASSUME NEW st \in States, Sound(st), NEW m \in Messages
  PROVE  Sound(Recovered(st, m))
<1> DEFINE r == Recovered(st, m)
<1> DEFINE now == Flushed(st)
<1>1. now \in States /\ Sound(now) /\ now.pending = <<>> /\ now.called = st.called /\ Paired(now.out, {})
  BY FlushedFacts, FlushedSound
<1>2. now.out \in Seq(Messages) /\ st.out \in Seq(Messages) /\ st.pending \in Seq(CallIds)
  BY <1>1 DEF States
<1>3. Elements(<<>>) = {} /\ Distinct(<<>>)
  BY DEF Elements, Distinct
<1>4. CASE m.role = "user"
  <2>1. r.out = Append(now.out, m) /\ r.pending = <<>> /\ r.called = st.called
    BY <1>4, RecoveredUser
  <2>2. Paired(Append(now.out, m), {})
    BY <1>1, <1>2, <1>4, PairedUser
  <2>3. m.calls = <<>> BY <1>4, MessageFacts
  <2>4. \A i \in 1..Len(Append(now.out, m)) : Elements(Append(now.out, m)[i].calls) \subseteq st.called
    <3>1. Len(Append(now.out, m)) = Len(now.out) + 1 /\ Len(now.out) \in Nat
          /\ Append(now.out, m)[Len(now.out) + 1] = m
          /\ \A i \in 1..Len(now.out) : Append(now.out, m)[i] = now.out[i]
      BY <1>2, AppendProperties
    <3>2. \A i \in 1..Len(now.out) : Elements(now.out[i].calls) \subseteq st.called
      BY <1>1 DEF Sound
    <3>3. \A i \in 1..(Len(now.out) + 1) : i \in 1..Len(now.out) \/ i = Len(now.out) + 1
      BY <3>1
    <3> HIDE DEF now
    <3> QED BY <3>1, <3>2, <3>3, <2>3, <1>3
  <2> QED BY <2>1, <2>2, <2>4, <1>3 DEF Sound
<1>5. CASE m.role = "assistant"
  <2> DEFINE new == NewCalls(st.called, m.calls)
  <2> DEFINE kept == [m EXCEPT !.calls = new]
  <2>0. /\ new \in Seq(CallIds) /\ Distinct(new) /\ NoId \notin Elements(new)
        /\ Elements(new) \intersect st.called = {}
    BY MessageFacts, NewCallsFacts
  <2>1. CASE new = <<>> /\ m.kind = "empty"
    BY <2>1, <1>1, <1>5, RecoveredAssistant
  <2>2. CASE ~(new = <<>> /\ m.kind = "empty")
    <3>1. /\ r.out = Append(now.out, kept) /\ r.pending = new
          /\ r.called = st.called \union Elements(new)
      BY <2>2, <1>5, RecoveredAssistant
    <3>2. /\ kept \in Messages /\ kept.role = "assistant" /\ kept.calls = new /\ kept.kind = m.kind
      BY <2>0, <1>5, CallsReplaced
    <3>3. \A i \in 1..Len(now.out) : Elements(now.out[i].calls) \subseteq st.called
      BY <1>1 DEF Sound
    <3> HIDE DEF now, new, kept
    <3>4. \A i \in 1..Len(now.out) : Elements(now.out[i].calls) \intersect Elements(kept.calls) = {}
      BY <3>2, <3>3, <2>0
    <3>5. Paired(Append(now.out, kept), Elements(new))
      BY <1>1, <1>2, <2>0, <2>2, <3>2, <3>4, PairedAssistant
    <3>6. \A i \in 1..Len(Append(now.out, kept)) :
            Elements(Append(now.out, kept)[i].calls) \subseteq st.called \union Elements(new)
      <4>1. Len(Append(now.out, kept)) = Len(now.out) + 1 /\ Len(now.out) \in Nat
            /\ Append(now.out, kept)[Len(now.out) + 1] = kept
            /\ \A i \in 1..Len(now.out) : Append(now.out, kept)[i] = now.out[i]
        BY <1>2, <3>2, AppendProperties
      <4>2. \A i \in 1..(Len(now.out) + 1) : i \in 1..Len(now.out) \/ i = Len(now.out) + 1
        BY <4>1
      <4> QED BY <4>1, <4>2, <3>2, <3>3
    <3> QED BY <3>1, <3>5, <3>6, <2>0 DEF Sound
  <2> QED BY <2>1, <2>2
<1>6. CASE m.role = "tool"
  <2>1. CASE m.id \notin Elements(st.pending)
    BY <2>1, <1>6, RecoveredResult
  <2>2. CASE m.id \in Elements(st.pending)
    <3> DEFINE left == Only(st.pending, Elements(st.pending) \ {m.id})
    <3>1. r.out = Append(st.out, m) /\ r.pending = left /\ r.called = st.called
      BY <2>2, <1>6, RecoveredResult
    <3>2. Elements(left) = Elements(st.pending) \ {m.id} /\ Distinct(left)
      <4>1. Elements(left) = Elements(st.pending) \intersect (Elements(st.pending) \ {m.id})
        BY <1>2, OnlyFacts
      <4>2. Distinct(left)
        BY <1>2, OnlyFacts DEF Sound
      <4> QED BY <4>1, <4>2
    <3> HIDE DEF left
    <3>3. Append(st.out, m) = st.out \o <<m>>
      BY <1>2, AppendIsConcat
    <3>4. Paired(st.out \o <<m>>, Elements(left))
      <4>1. <<m>> \in Seq(Messages) /\ Len(<<m>>) = 1 /\ <<m>>[1] = m
        OBVIOUS
      <4> DEFINE t == <<m>>
      <4>2. \A j \in 1..Len(t) : t[j].role = "tool" /\ t[j].id \in Elements(st.pending)
        BY <4>1, <2>2, <1>6
      <4>3. \A j, k \in 1..Len(t) : t[j].id = t[k].id => j = k
        BY <4>1
      <4>4. \A x : x \in Elements(left) <=> x \in Elements(st.pending) /\ \A j \in 1..Len(t) : t[j].id # x
        BY <3>2, <4>1
      <4>5. t \in Seq(Messages) BY <4>1
      <4> HIDE DEF t
      <4> DEFINE open == Elements(st.pending)
      <4> DEFINE rest == Elements(left)
      <4>6. Paired(st.out, open) BY DEF Sound
      <4>7. \A j \in 1..Len(t) : t[j].role = "tool" /\ t[j].id \in open
        BY <4>2
      <4>8. \A x : x \in rest <=> x \in open /\ \A j \in 1..Len(t) : t[j].id # x
        BY <4>4
      <4> HIDE DEF open, rest
      <4>9. Paired(st.out \o t, rest)
        BY <1>2, <4>3, <4>5, <4>6, <4>7, <4>8, PairedResults
      <4> QED BY <4>9 DEF t, rest
    <3>5. m.calls = <<>> BY <1>6, MessageFacts
    <3>6. \A i \in 1..Len(Append(st.out, m)) : Elements(Append(st.out, m)[i].calls) \subseteq st.called
      <4>1. Len(Append(st.out, m)) = Len(st.out) + 1 /\ Len(st.out) \in Nat
            /\ Append(st.out, m)[Len(st.out) + 1] = m
            /\ \A i \in 1..Len(st.out) : Append(st.out, m)[i] = st.out[i]
        BY <1>2, AppendProperties
      <4>2. \A i \in 1..Len(st.out) : Elements(st.out[i].calls) \subseteq st.called
        BY DEF Sound
      <4>3. \A i \in 1..(Len(st.out) + 1) : i \in 1..Len(st.out) \/ i = Len(st.out) + 1
        BY <4>1
      <4> QED BY <4>1, <4>2, <4>3, <3>5, <1>3
    <3> QED BY <3>1, <3>2, <3>3, <3>4, <3>6 DEF Sound
  <2> QED BY <2>1, <2>2
<1>7. CASE m.role = "system"
  <2>1. r.out = Append(st.out, m) /\ r.pending = st.pending /\ r.called = st.called
    BY <1>7, RecoveredSystem
  <2>2. Paired(Append(st.out, m), Elements(st.pending))
    <3> DEFINE open == Elements(st.pending)
    <3>1. Paired(st.out, open) BY DEF Sound
    <3> HIDE DEF open
    <3>2. Paired(Append(st.out, m), open) BY <3>1, <1>2, <1>7, PairedSystem
    <3> QED BY <3>2 DEF open
  <2>3. m.calls = <<>> BY <1>7, MessageFacts
  <2>4. \A i \in 1..Len(Append(st.out, m)) : Elements(Append(st.out, m)[i].calls) \subseteq st.called
    <3>1. Len(Append(st.out, m)) = Len(st.out) + 1 /\ Len(st.out) \in Nat
          /\ Append(st.out, m)[Len(st.out) + 1] = m
          /\ \A i \in 1..Len(st.out) : Append(st.out, m)[i] = st.out[i]
      BY <1>2, AppendProperties
    <3>2. \A i \in 1..Len(st.out) : Elements(st.out[i].calls) \subseteq st.called
      BY DEF Sound
    <3>3. \A i \in 1..(Len(st.out) + 1) : i \in 1..Len(st.out) \/ i = Len(st.out) + 1
      BY <3>1
    <3> QED BY <3>1, <3>2, <3>3, <2>3, <1>3
  <2> QED BY <2>1, <2>2, <2>4 DEF Sound
<1> QED BY <1>4, <1>5, <1>6, <1>7, MessageFacts

LEMMA RecoverySound ==
  ASSUME NEW h \in Seq(Messages), NEW n \in 0..Len(h)
  PROVE  Recovery(h)[n] \in States /\ Sound(Recovery(h)[n])
<1> DEFINE st == Recovery(h)
<1> DEFINE N == Len(h)
<1>1. N \in Nat /\ \A k \in 1..N : h[k] \in Messages
  OBVIOUS
<1>2. /\ st \in [0..N -> States] /\ st[0] = Fresh
      /\ \A k \in 1..N : st[k] = Recovered(st[k - 1], h[k])
  BY RecoverySteps
<1> HIDE DEF st, N
<1> DEFINE S == {k \in 0..N : Sound(st[k])}
<1>3. 0 \in S BY <1>1, <1>2, FreshSound
<1>4. \A k \in 0..(N - 1) : k \in S => k + 1 \in S
  <2> TAKE k \in 0..(N - 1)
  <2> HAVE k \in S
  <2>1. k + 1 \in 1..N /\ k + 1 \in 0..N /\ k \in 0..N /\ (k + 1) - 1 = k BY <1>1
  <2>2. st[k + 1] = Recovered(st[k], h[k + 1]) BY <2>1, <1>2
  <2>3. Sound(st[k + 1]) BY <2>1, <2>2, <1>1, <1>2, RecoveredSound
  <2> QED BY <2>1, <2>3
<1>5. 0..N \subseteq S
  <2> HIDE DEF S
  <2> QED BY <1>1, <1>3, <1>4, RangeInduction
<1> QED BY <1>2, <1>5 DEF N, st

(* Whatever is recovered is paired.                                         *)
LEMMA RecoverPaired ==
  ASSUME NEW h \in Seq(Messages)
  PROVE  Paired(Recover(h), {})
<1>1. Len(h) \in 0..Len(h)
  OBVIOUS
<1> QED BY <1>1, RecoverySound, FlushedSound DEF Recover

-----------------------------------------------------------------------------
(* What is paired with nothing open is what providers accept.                *)

LEMMA OneToOne ==
  ASSUME NEW A, NEW C, NEW f \in [A -> C],
         \A j, k \in A : f[j] = f[k] => j = k,
         \A x \in C : \E j \in A : f[j] = x
  PROVE  ExistsBijection(A, C)
<1>1. f \in Injection(A, C)
  BY DEF Injection, IsInjective
<1>2. f \in Surjection(A, C)
  BY DEF Surjection
<1> QED BY <1>1, <1>2 DEF ExistsBijection, Bijection

LEMMA DistinctCardinality ==
  ASSUME NEW D, NEW s \in Seq(D), Distinct(s)
  PROVE  Cardinality(Elements(s)) = Len(s)
<1> DEFINE f == [i \in 1..Len(s) |-> s[i]]
<1>1. Len(s) \in Nat /\ \A i \in 1..Len(s) : s[i] \in Elements(s)
  BY ElementsFacts
<1>2. f \in [1..Len(s) -> Elements(s)]
  BY <1>1
<1>3. \A i, j \in 1..Len(s) : f[i] = f[j] => i = j
  BY DEF Distinct
<1>4. \A e \in Elements(s) : \E i \in 1..Len(s) : f[i] = e
  BY ElementsFacts
<1>5. ExistsBijection(1..Len(s), Elements(s))
  <2> HIDE DEF f
  <2> QED BY <1>2, <1>3, <1>4, OneToOne
<1> QED BY <1>1, <1>5, FS_CountingElements

LEMMA AnswersBehind ==
  ASSUME NEW h \in Seq(Messages), NEW i \in 1..Len(h)
  PROVE  /\ \A j : j \in Answers(h, i) <=> j \in 1..Len(h) /\ Behind(h, i, j)
         /\ IsFiniteSet(Answers(h, i))
<1>1. DOMAIN h = 1..Len(h) /\ Len(h) \in Nat
  OBVIOUS
<1>2. \A j : j \in Answers(h, i) <=> j \in 1..Len(h) /\ Behind(h, i, j)
  BY <1>1 DEF Answers, Behind
<1>3. Answers(h, i) \subseteq 1..Len(h)
  BY <1>2
<1>4. IsFiniteSet(Answers(h, i))
  <2>1. IsFiniteSet(1..Len(h))
    BY <1>1, FS_Interval
  <2> QED BY <2>1, <1>3, FS_Subset
<1> QED BY <1>2, <1>4

LEMMA PairedIsWellPaired ==
  ASSUME NEW h \in Seq(Messages), Paired(h, {})
  PROVE  WellPaired(h)
<1>1. DOMAIN h = 1..Len(h) /\ Len(h) \in Nat /\ \A i \in 1..Len(h) : h[i] \in Messages
  OBVIOUS
<1>2. ASSUME NEW i \in 1..Len(h), h[i].role = "assistant"
      PROVE  /\ {h[j].id : j \in Answers(h, i)} = Elements(h[i].calls)
             /\ Cardinality(Answers(h, i)) = Len(h[i].calls)
             /\ h[i].calls # <<>> \/ h[i].kind # "empty"
             /\ \A k \in 1..Len(h) : k # i => Elements(h[i].calls) \intersect Elements(h[k].calls) = {}
  <2> DEFINE A == Answers(h, i)
  <2> DEFINE C == Elements(h[i].calls)
  <2>1. /\ \A j : j \in A <=> j \in 1..Len(h) /\ Behind(h, i, j)
        /\ IsFiniteSet(A)
    BY AnswersBehind
  <2>2. /\ \A j \in A : h[j].id \in C
        /\ \A j, k \in A : h[j].id = h[k].id => j = k
    BY <1>2, <2>1 DEF Paired, AnswersSound
  <2>3. \A x \in C : \E j \in A : h[j].id = x
    BY <1>2, <2>1 DEF Paired, CallsAnswered
  <2>4. Cardinality(C) = Len(h[i].calls)
    <3>1. Distinct(h[i].calls) BY <1>2 DEF Paired, CallsSound
    <3>2. h[i].calls \in Seq(CallIds) BY <1>1, MessageFacts
    <3> QED BY <3>1, <3>2, DistinctCardinality
  <2>5. h[i].calls # <<>> \/ h[i].kind # "empty"
    BY <1>2 DEF Paired, CallsSound
  <2>6. \A k \in 1..Len(h) : k # i => Elements(h[i].calls) \intersect Elements(h[k].calls) = {}
    BY DEF Paired, CallsApart
  <2> HIDE DEF A, C
  <2>7. {h[j].id : j \in A} = C
    BY <2>2, <2>3
  <2>8. Cardinality(A) = Cardinality(C)
    <3> DEFINE f == [j \in A |-> h[j].id]
    <3>1. f \in [A -> C] BY <2>2
    <3>2. \A j, k \in A : f[j] = f[k] => j = k BY <2>2
    <3>3. \A x \in C : \E j \in A : f[j] = x BY <2>3
    <3> HIDE DEF f
    <3>4. ExistsBijection(A, C)
      BY <3>1, <3>2, <3>3, OneToOne
    <3> QED BY <2>1, <3>4, FS_Bijection
  <2> QED BY <2>4, <2>5, <2>6, <2>7, <2>8 DEF A, C
<1>3. ASSUME NEW j \in 1..Len(h), h[j].role = "tool"
      PROVE  \E i \in 1..Len(h) : h[i].role = "assistant" /\ j \in Answers(h, i)
  BY <1>3, AnswersBehind DEF Paired, ResultsOwned
<1> QED BY <1>1, <1>2, <1>3 DEF WellPaired

-----------------------------------------------------------------------------
(* A paired history is its own recovery.                                    *)

(* A row behind a call of x that is not its result and ends no wait.         *)
Skips(m, x) == m.role = "system" \/ (m.role = "tool" /\ m.id # x)

(* After n rows, x was called and has no result yet.                         *)
Waits(h, n, x) ==
  \E i \in 1..n :
    /\ h[i].role = "assistant" /\ x \in Elements(h[i].calls)
    /\ \A k \in (i + 1)..n : Skips(h[k], x)

LEMMA NothingWaits ==
  ASSUME NEW h \in Seq(Messages), Paired(h, {}), NEW n \in 0..Len(h),
         n = Len(h) \/ h[n + 1].role \notin {"tool", "system"}, NEW x
  PROVE  ~Waits(h, n, x)
<1> SUFFICES ASSUME Waits(h, n, x) PROVE FALSE
  OBVIOUS
<1>1. n \in Nat /\ Len(h) \in Nat
  OBVIOUS
<1>2. PICK i \in 1..n : /\ h[i].role = "assistant" /\ x \in Elements(h[i].calls)
                        /\ \A k \in (i + 1)..n : Skips(h[k], x)
  BY DEF Waits
<1>3. i \in 1..Len(h)
  BY <1>1
<1>4. PICK j \in 1..Len(h) : Behind(h, i, j) /\ h[j].id = x
  BY <1>2, <1>3 DEF Paired, CallsAnswered
<1>5. ~(j \in (i + 1)..n)
  BY <1>2, <1>4 DEF Behind, Skips
<1>6. n + 1 \in (i + 1)..j
  BY <1>1, <1>4, <1>5 DEF Behind
<1> QED BY <1>1, <1>4, <1>6 DEF Behind

LEMMA WaitsStep ==
  ASSUME NEW h \in Seq(Messages), NEW n \in 0..(Len(h) - 1), NEW x
  PROVE  /\ h[n + 1].role \in {"tool", "system"} =>
              (Waits(h, n + 1, x) <=> Waits(h, n, x) /\ Skips(h[n + 1], x))
         /\ h[n + 1].role \notin {"tool", "system"} =>
              (Waits(h, n + 1, x) <=> h[n + 1].role = "assistant" /\ x \in Elements(h[n + 1].calls))
<1>1. n \in Nat /\ Len(h) \in Nat
  OBVIOUS
<1>2. \A i \in 1..(n + 1) : i \in 1..n \/ i = n + 1
  BY <1>1
<1>3. ASSUME h[n + 1].role \in {"tool", "system"}
      PROVE  Waits(h, n + 1, x) <=> Waits(h, n, x) /\ Skips(h[n + 1], x)
  <2>1. ASSUME Waits(h, n + 1, x) PROVE Waits(h, n, x) /\ Skips(h[n + 1], x)
    <3>1. PICK i \in 1..(n + 1) : /\ h[i].role = "assistant" /\ x \in Elements(h[i].calls)
                                  /\ \A k \in (i + 1)..(n + 1) : Skips(h[k], x)
      BY <2>1 DEF Waits
    <3>2. i \in 1..n BY <1>2, <1>3, <3>1
    <3>3. n + 1 \in (i + 1)..(n + 1) /\ \A k \in (i + 1)..n : k \in (i + 1)..(n + 1) BY <1>1, <3>2
    <3> QED BY <3>1, <3>2, <3>3 DEF Waits
  <2>2. ASSUME Waits(h, n, x), Skips(h[n + 1], x) PROVE Waits(h, n + 1, x)
    <3>1. PICK i \in 1..n : /\ h[i].role = "assistant" /\ x \in Elements(h[i].calls)
                            /\ \A k \in (i + 1)..n : Skips(h[k], x)
      BY <2>2 DEF Waits
    <3>2. \A k \in (i + 1)..(n + 1) : k \in (i + 1)..n \/ k = n + 1 BY <1>1
    <3>3. i \in 1..(n + 1) BY <1>1
    <3> QED BY <1>3, <2>2, <3>1, <3>2, <3>3 DEF Waits
  <2> QED BY <2>1, <2>2
<1>4. ASSUME h[n + 1].role \notin {"tool", "system"}
      PROVE  Waits(h, n + 1, x) <=> h[n + 1].role = "assistant" /\ x \in Elements(h[n + 1].calls)
  <2>1. ASSUME Waits(h, n + 1, x)
        PROVE  h[n + 1].role = "assistant" /\ x \in Elements(h[n + 1].calls)
    <3>1. PICK i \in 1..(n + 1) : /\ h[i].role = "assistant" /\ x \in Elements(h[i].calls)
                                  /\ \A k \in (i + 1)..(n + 1) : Skips(h[k], x)
      BY <2>1 DEF Waits
    <3>2. ~(i \in 1..n)
      <4> SUFFICES ASSUME i \in 1..n PROVE FALSE
        OBVIOUS
      <4>1. n + 1 \in (i + 1)..(n + 1) BY <1>1
      <4> QED BY <3>1, <4>1, <1>4 DEF Skips
    <3> QED BY <3>1, <3>2, <1>2
  <2>2. ASSUME h[n + 1].role = "assistant", x \in Elements(h[n + 1].calls)
        PROVE  Waits(h, n + 1, x)
    <3>1. n + 1 \in 1..(n + 1) /\ ((n + 1) + 1)..(n + 1) = {} BY <1>1
    <3> QED BY <2>2, <3>1 DEF Waits
  <2> QED BY <2>1, <2>2
<1> QED BY <1>3, <1>4

(* An answer all of whose calls are new is kept as it is.                    *)
LEMMA RecoveredWhole ==
  ASSUME NEW st \in States, NEW m \in Messages, m.role = "assistant", Flushed(st) = st,
         NewCalls(st.called, m.calls) = m.calls, ~(m.calls = <<>> /\ m.kind = "empty")
  PROVE  /\ Recovered(st, m).out = Append(st.out, m)
         /\ Recovered(st, m).pending = m.calls
         /\ Recovered(st, m).called = st.called \union Elements(m.calls)
<1>1. [m EXCEPT !.calls = m.calls] = m
  <2>1. m.calls \in Seq(CallIds)
    BY MessageFacts
  <2> QED BY <2>1, CallsReplaced
<1>2. Recovered(st, m) = [out |-> Append(st.out, m), pending |-> m.calls,
                          called |-> st.called \union Elements(m.calls)]
  BY <1>1 DEF Recovered, EndsWait, WithAssistant
<1> QED BY <1>2

LEMMA RecoverFixed ==
  ASSUME NEW h \in Seq(Messages), Paired(h, {})
  PROVE  Recover(h) = h
<1> DEFINE st == Recovery(h)
<1> DEFINE N == Len(h)
<1>1. N \in Nat /\ \A k \in 1..N : h[k] \in Messages
  OBVIOUS
<1>2. /\ \A k \in 0..N : st[k] \in States
      /\ st[0] = Fresh
      /\ \A k \in 1..N : st[k] = Recovered(st[k - 1], h[k])
  BY RecoverySteps
<1> HIDE DEF st
<1> DEFINE Follows(n) ==
      /\ st[n].out = SubSeq(h, 1, n)
      /\ \A x : x \in Elements(st[n].pending) <=> Waits(h, n, x)
      /\ \A x \in st[n].called : \E i \in 1..n : x \in Elements(h[i].calls)
<1> DEFINE S == {n \in 0..N : Follows(n)}
<1>3. 0 \in S
  <2>1. SubSeq(h, 1, 0) = <<>> BY SubSeqEmpty
  <2>2. \A x : ~Waits(h, 0, x) BY DEF Waits
  <2>3. Elements(<<>>) = {} BY DEF Elements
  <2>4. Follows(0) BY <1>2, <2>1, <2>2, <2>3 DEF Fresh
  <2> QED BY <2>4, <1>1
<1>4. ASSUME NEW n \in 0..N, Follows(n), n = N \/ h[n + 1].role \notin {"tool", "system"}
      PROVE  Flushed(st[n]) = st[n]
  <2>1. Elements(st[n].pending) = {} BY <1>4, NothingWaits
  <2>2. st[n] \in States /\ st[n].pending \in Seq(CallIds) BY <1>2 DEF States
  <2>3. st[n].pending = <<>> BY <2>1, <2>2, ElementsFacts
  <2> QED BY <2>2, <2>3, FlushedFacts
<1>5. \A n \in 0..(N - 1) : n \in S => n + 1 \in S
  <2> SUFFICES ASSUME NEW n \in 0..(N - 1), n \in S PROVE n + 1 \in S
    OBVIOUS
  <2> DEFINE m == h[n + 1]
  <2> DEFINE p == st[n]
  <2> DEFINE q == st[n + 1]
  <2>1. n + 1 \in 1..N /\ n \in 0..N /\ n + 1 \in 0..N /\ (n + 1) - 1 = n /\ n \in Nat BY <1>1
  <2>2. m \in Messages /\ p \in States /\ q = Recovered(p, m) BY <2>1, <1>1, <1>2
  <2>3. Follows(n) OBVIOUS
  <2>4. /\ Append(SubSeq(h, 1, n), m) = SubSeq(h, 1, n + 1)
    BY PrefixAppend
  <2>5. /\ m.role \in {"tool", "system"} =>
             \A x : Waits(h, n + 1, x) <=> Waits(h, n, x) /\ Skips(m, x)
        /\ m.role \notin {"tool", "system"} =>
             \A x : Waits(h, n + 1, x) <=> m.role = "assistant" /\ x \in Elements(m.calls)
    BY WaitsStep
  <2>6. 1..n \subseteq 1..(n + 1) /\ n + 1 \in 1..(n + 1) BY <2>1
  <2>7. m.role \notin {"tool", "system"} => Flushed(p) = p
    BY <2>1, <2>3, <1>4
  <2>8. /\ p.out = SubSeq(h, 1, n)
        /\ \A x : x \in Elements(p.pending) <=> Waits(h, n, x)
        /\ \A x \in p.called : \E i \in 1..n : x \in Elements(h[i].calls)
    BY <2>3
  <2>9. Elements(<<>>) = {} BY DEF Elements
  <2> SUFFICES Follows(n + 1)
    BY <2>1
  <2>10. CASE m.role = "user"
    <3>1. q.out = Append(p.out, m) /\ q.pending = <<>> /\ q.called = p.called
      BY <2>2, <2>7, <2>10, RecoveredUser
    <3>2. q.out = SubSeq(h, 1, n + 1) BY <3>1, <2>4, <2>8
    <3>3. \A x : x \in Elements(q.pending) <=> Waits(h, n + 1, x) BY <3>1, <2>5, <2>9, <2>10
    <3>4. \A x \in q.called : \E i \in 1..(n + 1) : x \in Elements(h[i].calls) BY <3>1, <2>6, <2>8
    <3> QED BY <3>2, <3>3, <3>4
  <2>11. CASE m.role = "assistant"
    <3>1. /\ m.calls \in Seq(CallIds) /\ Distinct(m.calls) /\ NoId \notin Elements(m.calls)
          /\ ~(m.calls = <<>> /\ m.kind = "empty")
      BY <2>1, <2>2, <2>11, MessageFacts DEF Paired, CallsSound
    <3>2. Elements(m.calls) \intersect p.called = {}
      <4>1. \A i \in 1..n : i \in 1..N /\ i # n + 1 BY <2>1, <1>1
      <4>2. \A i \in 1..n : Elements(h[i].calls) \intersect Elements(m.calls) = {}
        BY <4>1, <2>1 DEF Paired, CallsApart
      <4> QED BY <4>2, <2>8
    <3>3. NewCalls(p.called, m.calls) = m.calls
      BY <3>1, <3>2, NewCallsAll
    <3>4. Flushed(p) = p
      BY <2>7, <2>11
    <3>5. /\ q.out = Append(p.out, m) /\ q.pending = m.calls
          /\ q.called = p.called \union Elements(m.calls)
      <4> HIDE DEF m, p, q
      <4> QED BY <2>2, <2>11, <3>1, <3>3, <3>4, RecoveredWhole
    <3>6. q.out = SubSeq(h, 1, n + 1) BY <3>5, <2>4, <2>8
    <3>7. \A x : x \in Elements(q.pending) <=> Waits(h, n + 1, x) BY <3>5, <2>5, <2>11
    <3>8. \A x \in q.called : \E i \in 1..(n + 1) : x \in Elements(h[i].calls) BY <3>5, <2>6, <2>8
    <3> QED BY <3>6, <3>7, <3>8
  <2>12. CASE m.role = "tool"
    <3>1. PICK i \in 1..N : h[i].role = "assistant" /\ Behind(h, i, n + 1)
      BY <2>1, <2>12 DEF Paired, ResultsOwned
    <3>2. i \in 1..n BY <2>1, <3>1 DEF Behind
    <3>3. m.id \in Elements(h[i].calls)
      BY <2>1, <3>1 DEF Paired, AnswersSound
    <3>4. ASSUME NEW k \in (i + 1)..n PROVE Skips(h[k], m.id)
      <4>1. k \in 1..N /\ k # n + 1 /\ h[k].role \in {"tool", "system"}
        BY <2>1, <1>1, <3>1, <3>2 DEF Behind
      <4>2. CASE h[k].role = "tool"
        <5>1. Behind(h, i, k) BY <4>1, <4>2, <2>1, <1>1, <3>1, <3>2 DEF Behind
        <5> QED BY <4>1, <4>2, <5>1, <2>1, <3>1 DEF Paired, AnswersSound, Skips
      <4> QED BY <4>1, <4>2 DEF Skips
    <3>5. Waits(h, n, m.id)
      BY <3>1, <3>2, <3>3, <3>4 DEF Waits
    <3> DEFINE left == Only(p.pending, Elements(p.pending) \ {m.id})
    <3>6. q.out = Append(p.out, m) /\ q.pending = left /\ q.called = p.called
      <4>1. m.id \in Elements(p.pending) BY <2>8, <3>5
      <4>2. m \in Messages /\ p \in States /\ m.role = "tool" BY <2>2, <2>12
      <4>3. LET r == Recovered(p, m) IN
              r.out = Append(p.out, m) /\ r.pending = left /\ r.called = p.called
        <5> HIDE DEF m, p
        <5> QED BY <4>1, <4>2, RecoveredResult
      <4> QED BY <4>3, <2>2
    <3>7. Elements(left) = Elements(p.pending) \intersect (Elements(p.pending) \ {m.id})
      BY <2>2, OnlyFacts DEF States
    <3>8. q.out = SubSeq(h, 1, n + 1) BY <3>6, <2>4, <2>8
    <3>9. \A x : x \in Elements(q.pending) <=> Waits(h, n + 1, x)
      BY <3>6, <3>7, <2>5, <2>8, <2>12 DEF Skips
    <3>10. \A x \in q.called : \E k \in 1..(n + 1) : x \in Elements(h[k].calls) BY <3>6, <2>6, <2>8
    <3> QED BY <3>8, <3>9, <3>10
  <2>13. CASE m.role = "system"
    <3>1. q.out = Append(p.out, m) /\ q.pending = p.pending /\ q.called = p.called
      BY <2>2, <2>13, RecoveredSystem
    <3>2. q.out = SubSeq(h, 1, n + 1) BY <3>1, <2>4, <2>8
    <3>3. \A x : x \in Elements(q.pending) <=> Waits(h, n + 1, x)
      BY <3>1, <2>5, <2>8, <2>13 DEF Skips
    <3>4. \A x \in q.called : \E i \in 1..(n + 1) : x \in Elements(h[i].calls) BY <3>1, <2>6, <2>8
    <3> QED BY <3>2, <3>3, <3>4
  <2> QED BY <2>2, <2>10, <2>11, <2>12, <2>13, MessageFacts
<1>6. N \in S
  <2>1. 0..N \subseteq S
    <3> HIDE DEF S
    <3> QED BY <1>1, <1>3, <1>5, RangeInduction
  <2> QED BY <2>1, <1>1
<1>7. Flushed(st[N]) = st[N]
  BY <1>1, <1>4, <1>6
<1>8. st[N].out = h
  BY <1>6, SubSeqFull
<1> QED BY <1>7, <1>8 DEF Recover, st

(* The end of a paired history that no call in front of it is answered in is *)
(* paired.                                                                  *)
LEMMA PairedSuffix ==
  ASSUME NEW h \in Seq(Messages), Paired(h, {}), NEW p \in 0..Len(h),
         \A i \in 1..p : \A j \in (p + 1)..Len(h) : h[i].role = "assistant" => ~Behind(h, i, j)
  PROVE  From(h, p + 1) \in Seq(Messages) /\ Paired(From(h, p + 1), {})
<1> DEFINE s == From(h, p + 1)
<1> DEFINE N == Len(h)
<1> DEFINE M == Len(s)
<1>1. N \in Nat /\ p \in Nat /\ p <= N /\ \A i \in 1..N : h[i] \in Messages
  OBVIOUS
<1>2. s \in Seq(Messages) /\ M = N - p /\ \A i \in 1..M : s[i] = h[p + i]
  BY FromFacts
<1> HIDE DEF s, M
<1>3. \A i \in 1..M : p + i \in 1..N /\ p + i > p
  BY <1>1, <1>2
<1>4. \A i \in (p + 1)..N : i - p \in 1..M /\ p + (i - p) = i
  BY <1>1, <1>2
<1>5. ASSUME NEW i \in 1..M, NEW j \in 1..M
      PROVE  Behind(s, i, j) <=> Behind(h, p + i, p + j)
  <2>1. i < j <=> p + i < p + j BY <1>1, <1>2
  <2>2. ASSUME Behind(s, i, j), NEW k \in ((p + i) + 1)..(p + j)
        PROVE  h[k].role \in {"tool", "system"}
    <3>1. k - p \in (i + 1)..j /\ k - p \in 1..M /\ p + (k - p) = k BY <1>1, <1>2
    <3> QED BY <3>1, <2>2, <1>2 DEF Behind
  <2>3. ASSUME Behind(h, p + i, p + j), NEW k \in (i + 1)..j
        PROVE  s[k].role \in {"tool", "system"}
    <3>1. p + k \in ((p + i) + 1)..(p + j) /\ k \in 1..M BY <1>1, <1>2
    <3> QED BY <3>1, <2>3, <1>2 DEF Behind
  <2> QED BY <2>1, <2>2, <2>3, <1>2 DEF Behind
<1>6. \A i \in 1..M : s[i] = h[p + i]
  BY <1>2
<1>7. CallsSound(s)
  BY <1>2, <1>3, <1>6 DEF Paired, CallsSound, M
<1>8. CallsApart(s)
  <2> SUFFICES ASSUME NEW i \in 1..M, NEW k \in 1..M, i # k
               PROVE  Elements(s[i].calls) \intersect Elements(s[k].calls) = {}
    BY DEF CallsApart, M
  <2>1. p + i # p + k BY <1>1, <1>2
  <2> QED BY <2>1, <1>3, <1>6 DEF Paired, CallsApart
<1>9. AnswersSound(s)
  <2> SUFFICES ASSUME NEW i \in 1..M, s[i].role = "assistant"
               PROVE  /\ \A j \in 1..M : Behind(s, i, j) => s[j].id \in Elements(s[i].calls)
                      /\ \A j, k \in 1..M :
                           Behind(s, i, j) /\ Behind(s, i, k) /\ s[j].id = s[k].id => j = k
    BY DEF AnswersSound, M
  <2>1. /\ \A j \in 1..N : Behind(h, p + i, j) => h[j].id \in Elements(h[p + i].calls)
        /\ \A j, k \in 1..N :
             Behind(h, p + i, j) /\ Behind(h, p + i, k) /\ h[j].id = h[k].id => j = k
    BY <1>3, <1>6 DEF Paired, AnswersSound
  <2>2. \A j \in 1..M : Behind(s, i, j) => s[j].id \in Elements(s[i].calls)
    BY <2>1, <1>3, <1>5, <1>6
  <2>3. ASSUME NEW j \in 1..M, NEW k \in 1..M, Behind(s, i, j), Behind(s, i, k), s[j].id = s[k].id
        PROVE  j = k
    <3>1. p + j = p + k BY <2>1, <2>3, <1>3, <1>5, <1>6
    <3> QED BY <3>1, <1>1, <1>2
  <2> QED BY <2>2, <2>3
<1>10. CallsAnswered(s, {})
  <2> SUFFICES ASSUME NEW i \in 1..M, s[i].role = "assistant", NEW x \in Elements(s[i].calls)
               PROVE  \E j \in 1..M : Behind(s, i, j) /\ s[j].id = x
    BY DEF CallsAnswered, M
  <2>1. PICK j \in 1..N : Behind(h, p + i, j) /\ h[j].id = x
    BY <1>3, <1>6 DEF Paired, CallsAnswered
  <2>2. j \in (p + 1)..N BY <2>1, <1>1, <1>3 DEF Behind
  <2>3. j - p \in 1..M /\ p + (j - p) = j BY <2>2, <1>4
  <2> QED BY <2>1, <2>3, <1>5, <1>6
<1>11. ResultsOwned(s)
  <2> SUFFICES ASSUME NEW j \in 1..M, s[j].role = "tool"
               PROVE  \E i \in 1..M : s[i].role = "assistant" /\ Behind(s, i, j)
    BY DEF ResultsOwned, M
  <2>1. PICK i \in 1..N : h[i].role = "assistant" /\ Behind(h, i, p + j)
    BY <1>3, <1>6 DEF Paired, ResultsOwned
  <2>2. i \in (p + 1)..N
    <3> SUFFICES ASSUME i <= p PROVE FALSE
      BY <1>1
    <3>1. i \in 1..p /\ p + j \in (p + 1)..Len(h) BY <1>1, <1>2
    <3> QED BY <3>1, <2>1
  <2>3. i - p \in 1..M /\ p + (i - p) = i BY <2>2, <1>4
  <2> QED BY <2>1, <2>3, <1>5, <1>6
<1>12. OpenCalled(s, {})
  BY DEF OpenCalled
<1> QED BY <1>2, <1>7, <1>8, <1>9, <1>10, <1>11, <1>12 DEF Paired, s

(* System rows in front of a paired history leave it paired.                 *)
LEMMA SystemsInFront ==
  ASSUME NEW s \in Seq(Messages), Paired(s, {}), NEW f \in Seq(Messages),
         \A i \in 1..Len(f) : f[i].role = "system"
  PROVE  f \o s \in Seq(Messages) /\ Paired(f \o s, {})
<1> DEFINE h == f \o s
<1> DEFINE p == Len(f)
<1> DEFINE M == Len(s)
<1> DEFINE N == p + M
<1>1. /\ h \in Seq(Messages) /\ Len(h) = N /\ p \in Nat /\ M \in Nat
      /\ \A i \in 1..p : h[i] = f[i]
      /\ \A i \in (p + 1)..N : h[i] = s[i - p]
  BY ConcatProperties
<1>2. \A i \in 1..p : h[i] \in Messages /\ h[i].role = "system" /\ Elements(h[i].calls) = {}
  <2> TAKE i \in 1..p
  <2>1. h[i] \in Messages /\ h[i].role = "system" BY <1>1
  <2>2. h[i].calls = <<>> BY <2>1, MessageFacts
  <2> QED BY <2>1, <2>2 DEF Elements
<1> HIDE DEF h, p, M
<1>3. \A i \in 1..M : p + i \in 1..N /\ h[p + i] = s[i]
  <2> TAKE i \in 1..M
  <2>1. p + i \in (p + 1)..N /\ (p + i) - p = i BY <1>1
  <2> QED BY <2>1, <1>1
<1>4. \A i \in 1..N : i \in 1..p \/ (i - p \in 1..M /\ p + (i - p) = i)
  BY <1>1
<1>5. ASSUME NEW i \in 1..M, NEW j \in 1..M
      PROVE  Behind(s, i, j) <=> Behind(h, p + i, p + j)
  <2>1. i < j <=> p + i < p + j BY <1>1
  <2>2. ASSUME Behind(s, i, j), NEW k \in ((p + i) + 1)..(p + j)
        PROVE  h[k].role \in {"tool", "system"}
    <3>1. k - p \in (i + 1)..j /\ k - p \in 1..M /\ p + (k - p) = k BY <1>1
    <3> QED BY <3>1, <2>2, <1>3 DEF Behind
  <2>3. ASSUME Behind(h, p + i, p + j), NEW k \in (i + 1)..j
        PROVE  s[k].role \in {"tool", "system"}
    <3>1. p + k \in ((p + i) + 1)..(p + j) /\ k \in 1..M BY <1>1
    <3> QED BY <3>1, <2>3, <1>3 DEF Behind
  <2> QED BY <2>1, <2>2, <2>3, <1>3 DEF Behind
<1>6. ASSUME NEW i \in 1..N, h[i].role \in {"assistant", "tool"}
      PROVE  i - p \in 1..M /\ p + (i - p) = i /\ h[i] = s[i - p]
  <2>1. i \notin 1..p BY <1>2, <1>6
  <2> QED BY <2>1, <1>3, <1>4
<1>7. CallsSound(h)
  BY <1>1, <1>6 DEF Paired, CallsSound, M
<1>8. CallsApart(h)
  <2> SUFFICES ASSUME NEW i \in 1..N, NEW k \in 1..N, i # k
               PROVE  Elements(h[i].calls) \intersect Elements(h[k].calls) = {}
    BY <1>1 DEF CallsApart
  <2>1. CASE i \in 1..p \/ k \in 1..p
    BY <2>1, <1>2
  <2>2. CASE i \notin 1..p /\ k \notin 1..p
    <3>1. i - p \in 1..M /\ k - p \in 1..M /\ i - p # k - p /\ h[i] = s[i - p] /\ h[k] = s[k - p]
      BY <2>2, <1>1, <1>3, <1>4
    <3> QED BY <3>1 DEF Paired, CallsApart, M
  <2> QED BY <2>1, <2>2
<1>9. AnswersSound(h)
  <2> SUFFICES ASSUME NEW i \in 1..N, h[i].role = "assistant"
               PROVE  /\ \A j \in 1..N : Behind(h, i, j) => h[j].id \in Elements(h[i].calls)
                      /\ \A j, k \in 1..N :
                           Behind(h, i, j) /\ Behind(h, i, k) /\ h[j].id = h[k].id => j = k
    BY <1>1 DEF AnswersSound
  <2>1. i - p \in 1..M /\ p + (i - p) = i /\ h[i] = s[i - p] BY <1>6
  <2>2. /\ \A j \in 1..M : Behind(s, i - p, j) => s[j].id \in Elements(s[i - p].calls)
        /\ \A j, k \in 1..M :
             Behind(s, i - p, j) /\ Behind(s, i - p, k) /\ s[j].id = s[k].id => j = k
    BY <2>1 DEF Paired, AnswersSound, M
  <2>3. ASSUME NEW j \in 1..N, Behind(h, i, j)
        PROVE  j - p \in 1..M /\ p + (j - p) = j /\ h[j] = s[j - p] /\ Behind(s, i - p, j - p)
    <3>1. h[j].role = "tool" BY <2>3 DEF Behind
    <3>2. j - p \in 1..M /\ p + (j - p) = j /\ h[j] = s[j - p] BY <3>1, <1>6
    <3>3. Behind(s, i - p, j - p) <=> Behind(h, p + (i - p), p + (j - p)) BY <3>2, <2>1, <1>5
    <3> QED BY <3>2, <3>3, <2>1, <2>3
  <2>4. \A j \in 1..N : Behind(h, i, j) => h[j].id \in Elements(h[i].calls)
    BY <2>1, <2>2, <2>3
  <2>5. ASSUME NEW j \in 1..N, NEW k \in 1..N, Behind(h, i, j), Behind(h, i, k), h[j].id = h[k].id
        PROVE  j = k
    <3>1. j - p = k - p BY <2>2, <2>3, <2>5
    <3> QED BY <3>1, <2>3, <2>5
  <2> QED BY <2>4, <2>5
<1>10. CallsAnswered(h, {})
  <2> SUFFICES ASSUME NEW i \in 1..N, h[i].role = "assistant", NEW x \in Elements(h[i].calls)
               PROVE  \E j \in 1..N : Behind(h, i, j) /\ h[j].id = x
    BY <1>1 DEF CallsAnswered
  <2>1. i - p \in 1..M /\ p + (i - p) = i /\ h[i] = s[i - p] BY <1>6
  <2>2. PICK j \in 1..M : Behind(s, i - p, j) /\ s[j].id = x
    BY <2>1 DEF Paired, CallsAnswered, M
  <2>3. Behind(s, i - p, j) <=> Behind(h, p + (i - p), p + j) BY <2>1, <1>5
  <2> QED BY <2>1, <2>2, <2>3, <1>3
<1>11. ResultsOwned(h)
  <2> SUFFICES ASSUME NEW j \in 1..N, h[j].role = "tool"
               PROVE  \E i \in 1..N : h[i].role = "assistant" /\ Behind(h, i, j)
    BY <1>1 DEF ResultsOwned
  <2>1. j - p \in 1..M /\ p + (j - p) = j /\ h[j] = s[j - p] BY <1>6
  <2>2. PICK i \in 1..M : s[i].role = "assistant" /\ Behind(s, i, j - p)
    BY <2>1 DEF Paired, ResultsOwned, M
  <2>3. Behind(s, i, j - p) <=> Behind(h, p + i, p + (j - p)) BY <2>1, <1>5
  <2> QED BY <2>1, <2>2, <2>3, <1>3
<1>12. OpenCalled(h, {})
  BY DEF OpenCalled
<1> QED BY <1>1, <1>7, <1>8, <1>9, <1>10, <1>11, <1>12 DEF Paired, h

-----------------------------------------------------------------------------
(* Giving up the oldest item of a paired history leaves a paired history.    *)

(* Behind an answer its results follow, and system rows, up to row q.        *)
LEMMA AnswersEnd ==
  ASSUME NEW h \in Seq(Messages), h # <<>>
  PROVE  \E q \in 1..Len(h) :
           /\ \A k \in 2..q : h[k].role \in {"tool", "system"}
           /\ q = Len(h) \/ h[q + 1].role \notin {"tool", "system"}
<1> DEFINE S == {q \in 1..Len(h) : q = Len(h) \/ h[q + 1].role \notin {"tool", "system"}}
<1>1. Len(h) \in Nat /\ Len(h) # 0
  BY EmptySeq
<1>2. Len(h) \in S /\ S \subseteq Nat
  BY <1>1
<1>3. PICK q \in S : \A k \in S : q <= k
  <2> HIDE DEF S
  <2> QED BY <1>1, <1>2, LeastElement
<1>4. ASSUME NEW k \in 2..q PROVE h[k].role \in {"tool", "system"}
  <2>1. k - 1 \in 1..Len(h) /\ ~(q <= k - 1) /\ (k - 1) + 1 = k /\ k - 1 # Len(h)
    BY <1>1, <1>3
  <2> QED BY <2>1, <1>3
<1> QED BY <1>3, <1>4

(* Without an answer in front and its results, the system rows between them  *)
(* and what comes behind are left.                                          *)
LEMMA OldestAnswer ==
  ASSUME NEW h \in Seq(Messages), h # <<>>, Paired(h, {}), h[1].role = "assistant"
  PROVE  \E q \in 1..Len(h), f \in Seq(Messages) :
           /\ q = Len(h) \/ h[q + 1].role \notin {"tool", "system"}
           /\ \A i \in 1..Len(f) : f[i].role = "system"
           /\ Only(Tail(h), {m \in Elements(h) :
                     m.role = "tool" => m.id \notin Elements(h[1].calls)}) = f \o From(h, q + 1)
<1> DEFINE N == Len(h)
<1> DEFINE C == Elements(h[1].calls)
<1> DEFINE stays == {m \in Elements(h) : m.role = "tool" => m.id \notin C}
<1>1. N \in Nat /\ N # 0
  BY EmptySeq
<1>2. PICK q \in 1..N : /\ \A k \in 2..q : h[k].role \in {"tool", "system"}
                        /\ q = N \/ h[q + 1].role \notin {"tool", "system"}
  BY AnswersEnd
<1>4. ASSUME NEW k \in 2..q, h[k].role = "tool" PROVE h[k] \notin stays
  <2>1. k \in 1..N /\ 1 \in 1..N BY <1>1
  <2>2. Behind(h, 1, k)
    <3>1. \A n \in (1 + 1)..k : n \in 2..q BY <1>1
    <3> QED BY <3>1, <1>2, <1>4 DEF Behind
  <2>3. h[k].id \in C BY <2>1, <2>2 DEF Paired, AnswersSound
  <2> QED BY <2>3, <1>4
<1>5. ASSUME NEW k \in (q + 1)..N PROVE h[k] \in stays
  <2>1. k \in 1..N /\ 1 \in 1..N /\ q + 1 \in 1..N BY <1>1
  <2>2. h[k] \in Elements(h) BY <2>1, ElementsFacts
  <2>3. ASSUME h[k].role = "tool" PROVE h[k].id \notin C
    <3>1. PICK i \in 1..N : h[i].role = "assistant" /\ Behind(h, i, k)
      BY <2>1, <2>3 DEF Paired, ResultsOwned
    <3>2. i # 1
      <4> SUFFICES ASSUME i = 1 PROVE FALSE
        OBVIOUS
      <4>1. q + 1 \in (i + 1)..k BY <1>1
      <4>2. q # N BY <1>1
      <4> QED BY <4>1, <4>2, <3>1, <1>2 DEF Behind
    <3>3. h[k].id \in Elements(h[i].calls)
      BY <2>1, <3>1 DEF Paired, AnswersSound
    <3>4. Elements(h[i].calls) \intersect C = {}
      BY <2>1, <3>2 DEF Paired, CallsApart
    <3> QED BY <3>3, <3>4
  <2> QED BY <2>2, <2>3
<1> HIDE DEF stays
<1> DEFINE u == SubSeq(h, 2, q)
<1> DEFINE v == From(h, q + 1)
<1>6. u \in Seq(Messages) /\ Len(u) = q - 1 /\ \A i \in 1..(q - 1) : u[i] = h[i + 1]
  <2>1. \A i \in 2..q : h[i] \in Messages BY <1>1
  <2>2. /\ u \in Seq(Messages)
        /\ Len(u) = IF 2 <= q THEN q - 2 + 1 ELSE 0
        /\ \A i \in 1..(q - 2 + 1) : u[i] = h[2 + i - 1]
    BY <2>1, <1>1, SubSeqProperties
  <2>3. Len(u) = q - 1 BY <2>2, <1>1
  <2>4. \A i \in 1..(q - 1) : i \in 1..(q - 2 + 1) /\ 2 + i - 1 = i + 1 BY <1>1
  <2> QED BY <2>2, <2>3, <2>4
<1>7. v \in Seq(Messages) /\ Len(v) = N - q /\ \A i \in 1..(N - q) : v[i] = h[q + i]
  <2>1. q \in 0..Len(h) BY <1>1
  <2> QED BY <2>1, FromFacts
<1>8. Tail(h) = u \o v
  <2>1. Tail(h) = SubSeq(h, 2, N) BY TailIsSubSeq
  <2>2. 2 \in 1..(Len(h) + 1) /\ q \in (2 - 1)..Len(h) /\ N \in q..Len(h) BY <1>1
  <2>3. u \o SubSeq(h, q + 1, N) = SubSeq(h, 2, N) BY <2>2, ConcatAdjacentSubSeq
  <2> QED BY <2>1, <2>3 DEF From
<1> DEFINE f == Only(u, stays)
<1>9. Only(u \o v, stays) = f \o v
  <2>1. \A i \in 1..Len(v) : v[i] \in stays
    <3> TAKE i \in 1..Len(v)
    <3>1. i \in 1..(N - q) /\ q + i \in (q + 1)..N BY <1>1, <1>7
    <3> QED BY <3>1, <1>5, <1>7
  <2> HIDE DEF u, v
  <2> QED BY <2>1, <1>6, <1>7, OnlyKept
<1>10. f \in Seq(Messages) /\ \A i \in 1..Len(f) : f[i].role = "system"
  <2> HIDE DEF u
  <2>1. f \in Seq(Messages) /\ Elements(f) = Elements(u) \intersect stays
    BY <1>6, OnlyFacts
  <2> HIDE DEF f
  <2>2. ASSUME NEW i \in 1..Len(f) PROVE f[i].role = "system"
    <3>1. f[i] \in Elements(u) /\ f[i] \in stays
      <4>1. f[i] \in Elements(f) BY <2>1, ElementsFacts
      <4> QED BY <4>1, <2>1
    <3>2. PICK k \in 1..Len(u) : u[k] = f[i]
      BY <3>1, <1>6, ElementsFacts
    <3>3. k + 1 \in 2..q /\ f[i] = h[k + 1] BY <3>2, <1>1, <1>6
    <3>4. h[k + 1].role \in {"tool", "system"} BY <3>3, <1>2
    <3> QED BY <3>1, <3>3, <3>4, <1>4
  <2> QED BY <2>1, <2>2
<1>11. Only(Tail(h), stays) = f \o From(h, q + 1)
  BY <1>8, <1>9
<1> HIDE DEF f
<1> QED BY <1>2, <1>10, <1>11 DEF stays

LEMMA WithoutOldestPaired ==
  ASSUME NEW h \in Seq(Messages), h # <<>>, Paired(h, {})
  PROVE  WithoutOldest(h) \in Seq(Messages) /\ Paired(WithoutOldest(h), {})
<1>1. Len(h) \in Nat /\ Len(h) # 0 /\ 1 \in 1..Len(h) /\ h[1] \in Messages /\ Head(h) = h[1]
  BY EmptySeq
<1>2. h[1].role # "tool"
  <2> SUFFICES ASSUME h[1].role = "tool" PROVE FALSE
    OBVIOUS
  <2>1. PICK i \in 1..Len(h) : Behind(h, i, 1)
    BY <1>1 DEF Paired, ResultsOwned
  <2> QED BY <2>1, <1>1 DEF Behind
<1>3. CASE h[1].role \in {"user", "system"}
  <2>1. WithoutOldest(h) = Tail(h)
    BY <1>1, <1>3 DEF WithoutOldest
  <2>2. Tail(h) = From(h, 1 + 1)
    BY TailIsSubSeq DEF From
  <2>3. \A i \in 1..1 : \A j \in (1 + 1)..Len(h) : h[i].role = "assistant" => ~Behind(h, i, j)
    BY <1>3
  <2>4. 1 \in 0..Len(h) BY <1>1
  <2> QED BY <2>1, <2>2, <2>3, <2>4, PairedSuffix
<1>4. CASE h[1].role = "assistant"
  <2>1. WithoutOldest(h) = Only(Tail(h), {m \in Elements(h) :
                     m.role = "tool" => m.id \notin Elements(h[1].calls)})
    BY <1>1, <1>4 DEF WithoutOldest
  <2>2. PICK q \in 1..Len(h), f \in Seq(Messages) :
          /\ q = Len(h) \/ h[q + 1].role \notin {"tool", "system"}
          /\ \A i \in 1..Len(f) : f[i].role = "system"
          /\ WithoutOldest(h) = f \o From(h, q + 1)
    BY <1>4, <2>1, OldestAnswer
  <2>3. q \in 0..Len(h) BY <1>1
  <2>4. ASSUME NEW i \in 1..q, NEW j \in (q + 1)..Len(h) PROVE ~Behind(h, i, j)
    <3>1. q # Len(h) /\ q + 1 \in (i + 1)..j BY <1>1
    <3> QED BY <3>1, <2>2 DEF Behind
  <2>5. From(h, q + 1) \in Seq(Messages) /\ Paired(From(h, q + 1), {})
    BY <2>3, <2>4, PairedSuffix
  <2> QED BY <2>2, <2>5, SystemsInFront
<1> QED BY <1>1, <1>2, <1>3, <1>4, MessageFacts

PairedHistories == {h \in Seq(Messages) : Paired(h, {})}

(* What is left of a paired history, however much of it was given up.        *)
LEMMA ShrunkPaired ==
  ASSUME NEW h \in PairedHistories
  PROVE  Shrunk(h) \in [0..Len(h) -> PairedHistories]
<1> DEFINE N == Len(h)
<1> DEFINE T == PairedHistories
<1> DEFINE Next1(p) == IF p = <<>> THEN <<>> ELSE WithoutOldest(p)
<1> DEFINE step == [p \in T \X (1..N) |-> Next1(p[1])]
<1>1. N \in Nat
  BY DEF PairedHistories
<1>2. <<>> \in T
  BY PairedEmpty, EmptySeq DEF PairedHistories
<1>3. \A p \in T : Next1(p) \in T
  BY <1>2, WithoutOldestPaired DEF PairedHistories
<1>4. Shrunk(h) = CHOOSE f : f = [n \in 0..N |-> IF n = 0 THEN h ELSE Next1(f[n - 1])]
  BY DEF Shrunk
<1> HIDE DEF N, T, Next1
<1>5. step \in [T \X (1..N) -> T]
  BY <1>3
<1>6. \A p \in T, n \in 1..N : step[<<p, n>>] = Next1(p)
  OBVIOUS
<1> HIDE DEF step
<1>7. PICK g \in [0..N -> T] : g[0] = h /\ \A n \in 1..N : g[n] = step[<<g[n - 1], n>>]
  <2>1. \E g : Recurses(g, N, T, h, step)
    BY <1>1, <1>5, RecursionExists DEF T
  <2> QED BY <2>1 DEF Recurses
<1>8. \A n \in 1..N : g[n] = Next1(g[n - 1])
  <2> TAKE n \in 1..N
  <2>1. n - 1 \in 0..N BY <1>1
  <2>2. g[n - 1] \in T BY <1>7, <2>1
  <2> QED BY <1>6, <1>7, <2>2
<1>9. g = [n \in 0..N |-> IF n = 0 THEN h ELSE Next1(g[n - 1])]
  <2>1. \A n \in 0..N : g[n] = IF n = 0 THEN h ELSE Next1(g[n - 1])
    BY <1>7, <1>8, <1>1
  <2> QED BY <2>1, <1>7
<1> DEFINE st == Shrunk(h)
<1>10. st = [n \in 0..N |-> IF n = 0 THEN h ELSE Next1(st[n - 1])]
  BY <1>4, <1>9
<1> HIDE DEF st
<1>11. st[0] = h /\ \A n \in 1..N : st[n] = Next1(st[n - 1])
  BY <1>10, <1>1
<1> DEFINE S == {n \in 0..N : st[n] \in T}
<1>12. 0 \in S BY <1>11, <1>1 DEF T
<1>13. \A n \in 0..(N - 1) : n \in S => n + 1 \in S
  <2> TAKE n \in 0..(N - 1)
  <2> HAVE n \in S
  <2>1. n + 1 \in 1..N /\ n + 1 \in 0..N /\ (n + 1) - 1 = n BY <1>1
  <2>2. st[n + 1] = Next1(st[n]) BY <2>1, <1>11
  <2> QED BY <2>1, <2>2, <1>3 DEF T
<1>14. 0..N \subseteq S
  <2> HIDE DEF S
  <2> QED BY <1>1, <1>12, <1>13, RangeInduction
<1>15. st \in [0..N -> T]
  BY <1>10, <1>14
<1> QED BY <1>15 DEF N, T, st

-----------------------------------------------------------------------------
(* What a transcript stands for.                                            *)

Checkpointed == [role : {"checkpoint"}, history : Seq(Messages), kind : {"compact", "repair"}]
Rows == Messages \union Checkpointed \union {Partial}

LEMMA RowFacts ==
  /\ \A r \in Messages : ~IsCheckpoint(r) /\ r \in Rows
  /\ \A r \in Checkpointed : IsCheckpoint(r) /\ r \in Rows /\ r.history \in Seq(Messages)
  /\ \A r \in Rows : IsCheckpoint(r) => r \in Checkpointed
  /\ \A r \in Rows : IsMessage(r) <=> r \in Messages
  /\ Partial \in Rows /\ ~IsCheckpoint(Partial) /\ Partial \notin Messages
  /\ \A h \in Seq(Messages), kind \in {"compact", "repair"} :
       /\ Checkpoint(h, kind) \in Checkpointed
       /\ Checkpoint(h, kind).history = h
       /\ Checkpoint(h, kind).kind = kind
<1>1. \A r \in Messages : r.role # "checkpoint" /\ r.role # "partial"
  <2> SUFFICES ASSUME NEW r \in Messages PROVE r.role # "checkpoint" /\ r.role # "partial"
    OBVIOUS
  <2> QED BY MessageFacts
<1>2. \A r \in Checkpointed : r.role = "checkpoint" /\ r.history \in Seq(Messages)
  BY DEF Checkpointed
<1>3. \A h \in Seq(Messages), kind \in {"compact", "repair"} :
        /\ Checkpoint(h, kind) \in Checkpointed
        /\ Checkpoint(h, kind).history = h
        /\ Checkpoint(h, kind).kind = kind
  BY DEF Checkpoint, Checkpointed
<1>4. Partial.role = "partial"
  BY DEF Partial
<1>5. \A r \in Rows : IsMessage(r) <=> r \in Messages
  BY <1>1, <1>2, <1>4 DEF IsMessage, Rows
<1> QED BY <1>1, <1>2, <1>3, <1>4, <1>5 DEF IsCheckpoint, Rows

(* Row p is the latest checkpoint of d, 0 when there is none.                *)
Latest(d, p) ==
  /\ p \in 0..Len(d)
  /\ p # 0 => IsCheckpoint(d[p])
  /\ \A k \in (p + 1)..Len(d) : ~IsCheckpoint(d[k])

LEMMA StartIsLatest ==
  ASSUME NEW d \in Seq(Rows)
  PROVE  Latest(d, Start(d)) /\ \A p : Latest(d, p) => p = Start(d)
<1> DEFINE C == Checkpoints(d)
<1>1. Len(d) \in Nat /\ DOMAIN d = 1..Len(d)
  OBVIOUS
<1>2. \A k : k \in C <=> k \in 1..Len(d) /\ IsCheckpoint(d[k])
  BY <1>1 DEF Checkpoints
<1>3. Latest(d, Start(d))
  <2>1. CASE C = {}
    <3>1. Start(d) = 0 BY <2>1 DEF Start
    <3>2. \A k \in (0 + 1)..Len(d) : ~IsCheckpoint(d[k]) BY <1>2, <2>1
    <3> QED BY <3>1, <3>2, <1>1 DEF Latest
  <2>2. CASE C # {}
    <3>1. Start(d) = Max(C) BY <2>2 DEF Start
    <3>2. C \subseteq Nat /\ \A k \in C : k <= Len(d) BY <1>1, <1>2
    <3>3. PICK n \in C : TRUE BY <2>2
    <3> HIDE DEF C
    <3>4. Max(C) \in C /\ \A k \in C : k <= Max(C)
      BY <1>1, <3>2, <3>3, MaxIsGreatest
    <3> DEFINE m == Max(C)
    <3> HIDE DEF m
    <3>5. m \in C /\ \A k \in C : k <= m BY <3>4 DEF m
    <3>6. \A k \in (m + 1)..Len(d) : ~IsCheckpoint(d[k])
      <4> SUFFICES ASSUME NEW k \in (m + 1)..Len(d), IsCheckpoint(d[k]) PROVE FALSE
        OBVIOUS
      <4>1. m \in Nat BY <3>2, <3>5
      <4>2. k \in C BY <1>1, <1>2, <3>5, <4>1
      <4> QED BY <3>5, <4>1, <4>2
    <3>7. m \in 0..Len(d) /\ IsCheckpoint(d[m]) BY <1>1, <1>2, <3>5
    <3> QED BY <3>1, <3>6, <3>7 DEF Latest, m
  <2> QED BY <2>1, <2>2
<1>4. ASSUME NEW p, NEW q, Latest(d, p), Latest(d, q), p < q PROVE FALSE
  <2>1. p \in Nat /\ q \in Nat /\ q \in (p + 1)..Len(d) /\ q # 0
    BY <1>1, <1>4 DEF Latest
  <2> QED BY <2>1, <1>4 DEF Latest
<1>5. ASSUME NEW p, Latest(d, p) PROVE p = Start(d)
  <2> DEFINE q == Start(d)
  <2> HIDE DEF q
  <2>1. Latest(d, q) BY <1>3 DEF q
  <2>2. p \in Nat /\ q \in Nat BY <1>1, <1>5, <2>1 DEF Latest
  <2>3. ~(p < q) /\ ~(q < p) BY <1>4, <1>5, <2>1
  <2> QED BY <2>2, <2>3 DEF q
<1> QED BY <1>3, <1>5

(* The history in the latest checkpoint.                                    *)
Base(d, p) == IF p = 0 THEN <<>> ELSE d[p].history

LEMMA EffectiveFacts ==
  ASSUME NEW d \in Seq(Rows), NEW p, Latest(d, p)
  PROVE  /\ From(d, p + 1) \in Seq(Rows)
         /\ Only(From(d, p + 1), Messages) \in Seq(Messages)
         /\ Base(d, p) \in Seq(Messages)
         /\ Effective(d) = Base(d, p) \o Only(From(d, p + 1), Messages)
<1>1. p = Start(d) /\ Len(d) \in Nat /\ p \in 0..Len(d)
  BY StartIsLatest DEF Latest
<1>2. \A i \in 1..Len(d) : d[i] \in Rows
  OBVIOUS
<1> DEFINE rest == From(d, p + 1)
<1> DEFINE messages == {r \in Elements(d) : IsMessage(r)}
<1>3. /\ rest \in Seq(Rows) /\ Len(rest) = Len(d) - p
      /\ \A i \in 1..(Len(d) - p) : rest[i] = d[p + i]
  BY <1>1, FromFacts
<1> HIDE DEF rest
<1>4. \A i \in 1..Len(rest) : rest[i] \in messages <=> rest[i] \in Messages
  <2> TAKE i \in 1..Len(rest)
  <2>1. p + i \in 1..Len(d) /\ rest[i] = d[p + i] BY <1>1, <1>3
  <2>2. d[p + i] \in Elements(d) /\ d[p + i] \in Rows BY <1>2, <2>1, ElementsFacts
  <2> QED BY <2>1, <2>2, RowFacts
<1>5. Only(rest, messages) = Only(rest, Messages)
  <2> HIDE DEF messages
  <2> QED BY <1>3, <1>4, OnlySame
<1>6. Only(rest, Messages) \in Seq(Messages)
  <2> DEFINE o == Only(rest, Messages)
  <2>1. o \in Seq(Rows) /\ Elements(o) = Elements(rest) \intersect Messages
    BY <1>3, OnlyFacts
  <2> HIDE DEF o
  <2>2. Len(o) \in Nat /\ o \in [1..Len(o) -> Rows] /\ \A i \in 1..Len(o) : o[i] \in Messages
    BY <2>1, ElementsFacts
  <2>3. o \in [1..Len(o) -> Messages] BY <2>2
  <2>4. o \in Seq(Messages) BY <2>2, <2>3
  <2> QED BY <2>4 DEF o
<1>7. Base(d, p) \in Seq(Messages)
  <2>1. CASE p = 0 BY <2>1, EmptySeq DEF Base
  <2>2. CASE p # 0
    <3>1. p \in 1..Len(d) /\ IsCheckpoint(d[p]) BY <1>1, <2>2 DEF Latest
    <3>2. d[p] \in Checkpointed BY <1>2, <3>1, RowFacts
    <3> QED BY <2>2, <3>2, RowFacts DEF Base
  <2> QED BY <2>1, <2>2
<1>8. Effective(d) = Base(d, p) \o Only(rest, messages)
  BY <1>1 DEF Effective, Base, rest
<1> QED BY <1>3, <1>5, <1>6, <1>7, <1>8 DEF rest

LEMMA EffectiveType ==
  ASSUME NEW d \in Seq(Rows)
  PROVE  Effective(d) \in Seq(Messages)
<1> DEFINE p == Start(d)
<1>1. Latest(d, p)
  BY StartIsLatest
<1> HIDE DEF p
<1>2. /\ Only(From(d, p + 1), Messages) \in Seq(Messages) /\ Base(d, p) \in Seq(Messages)
      /\ Effective(d) = Base(d, p) \o Only(From(d, p + 1), Messages)
  BY <1>1, EffectiveFacts
<1> QED BY <1>2, ConcatProperties

(* A message behind the transcript is one behind the history, a partial line *)
(* none.                                                                    *)
LEMMA EffectiveAppend ==
  ASSUME NEW d \in Seq(Rows), NEW m \in Rows, ~IsCheckpoint(m)
  PROVE  /\ Append(d, m) \in Seq(Rows)
         /\ Effective(Append(d, m)) =
              IF m \in Messages THEN Append(Effective(d), m) ELSE Effective(d)
<1> DEFINE p == Start(d)
<1> DEFINE g == Append(d, m)
<1>1. Latest(d, p)
  BY StartIsLatest
<1>3. /\ g \in Seq(Rows) /\ Len(g) = Len(d) + 1 /\ Len(d) \in Nat
      /\ \A i \in 1..Len(d) : g[i] = d[i]
      /\ g[Len(d) + 1] = m
  BY AppendProperties
<1> HIDE DEF p, g
<1>4. p \in 0..Len(d) /\ p \in Nat
  BY <1>1, <1>3 DEF Latest
<1>5. Latest(g, p)
  <2>1. p \in 0..Len(g) BY <1>3, <1>4
  <2>2. p # 0 => IsCheckpoint(g[p])
    <3> HAVE p # 0
    <3>1. p \in 1..Len(d) BY <1>3, <1>4
    <3> QED BY <3>1, <1>1, <1>3 DEF Latest
  <2>3. ASSUME NEW k \in (p + 1)..Len(g) PROVE ~IsCheckpoint(g[k])
    <3>1. CASE k = Len(d) + 1 BY <3>1, <1>3
    <3>2. CASE k # Len(d) + 1
      <4>1. k \in (p + 1)..Len(d) /\ k \in 1..Len(d) BY <1>3, <1>4, <3>2
      <4> QED BY <4>1, <1>1, <1>3 DEF Latest
    <3> QED BY <3>1, <3>2
  <2> QED BY <2>1, <2>2, <2>3 DEF Latest
<1> DEFINE b == Base(d, p)
<1> DEFINE f == From(d, p + 1)
<1> DEFINE o == Only(f, Messages)
<1>6. f \in Seq(Rows) /\ o \in Seq(Messages) /\ b \in Seq(Messages) /\ Effective(d) = b \o o
  BY <1>1, EffectiveFacts
<1>7. Base(g, p) = b
  BY <1>3, <1>4 DEF Base
<1>8. /\ From(g, p + 1) \in Seq(Rows)
      /\ Effective(g) = Base(g, p) \o Only(From(g, p + 1), Messages)
  BY <1>3, <1>5, EffectiveFacts
<1>9. From(g, p + 1) = Append(f, m)
  <2> DEFINE x == From(g, p + 1)
  <2>1. Len(f) = Len(d) - p /\ \A i \in 1..(Len(d) - p) : f[i] = d[p + i]
    BY <1>4, FromFacts
  <2>2. p \in 0..Len(g) BY <1>3, <1>4
  <2>3. Len(x) = Len(g) - p /\ \A i \in 1..(Len(g) - p) : x[i] = g[p + i]
    BY <1>3, <2>2, FromFacts
  <2> HIDE DEF x, f
  <2>4. /\ Append(f, m) \in Seq(Rows) /\ Len(Append(f, m)) = Len(f) + 1
        /\ \A i \in 1..Len(f) : Append(f, m)[i] = f[i]
        /\ Append(f, m)[Len(f) + 1] = m
    BY <1>6, AppendProperties
  <2>5. Len(x) = Len(Append(f, m)) BY <1>3, <1>4, <2>1, <2>3, <2>4
  <2>6. \A i \in 1..Len(x) : x[i] = Append(f, m)[i]
    <3> TAKE i \in 1..Len(x)
    <3>1. i \in 1..(Len(g) - p) /\ x[i] = g[p + i] BY <2>3
    <3>2. CASE p + i = Len(d) + 1
      <4>1. i = Len(f) + 1 BY <1>3, <1>4, <2>1, <3>2
      <4> QED BY <4>1, <3>1, <3>2, <1>3, <2>4
    <3>3. CASE p + i # Len(d) + 1
      <4>0. /\ Len(g) = Len(d) + 1 /\ Len(d) \in Nat /\ p \in Nat /\ p <= Len(d)
            /\ Len(f) = Len(d) - p /\ i \in 1..(Len(g) - p)
        BY <1>3, <1>4, <2>1, <3>1
      <4>1. p + i \in 1..Len(d) /\ i \in 1..(Len(d) - p) BY <4>0, <3>3
      <4>2. i \in 1..Len(f) BY <4>0, <4>1
      <4> QED BY <4>1, <4>2, <3>1, <1>3, <2>1, <2>4
    <3> QED BY <3>2, <3>3
  <2>7. x \in Seq(Rows) BY <1>8 DEF x
  <2>8. x = Append(f, m) BY <2>4, <2>5, <2>6, <2>7, SeqEqual
  <2> QED BY <2>8 DEF x
<1>10. Only(Append(f, m), Messages) = IF m \in Messages THEN Append(o, m) ELSE o
  <2> HIDE DEF f
  <2> QED BY <1>6, OnlyAppend
<1>11. m \in Messages => b \o Append(o, m) = Append(b \o o, m)
  <2> HIDE DEF b, o
  <2> HAVE m \in Messages
  <2>1. <<m>> \in Seq(Messages) OBVIOUS
  <2>2. Append(o, m) = o \o <<m>> BY <1>6, AppendIsConcat
  <2>3. b \o o \in Seq(Messages) BY <1>6, ConcatProperties
  <2>4. Append(b \o o, m) = (b \o o) \o <<m>> BY <2>3, AppendIsConcat
  <2>5. (b \o o) \o <<m>> = b \o (o \o <<m>>) BY <1>6, <2>1, ConcatAssociative
  <2> QED BY <2>2, <2>4, <2>5
<1> HIDE DEF b, f, o
<1>12. Effective(g) = IF m \in Messages THEN Append(Effective(d), m) ELSE Effective(d)
  BY <1>6, <1>7, <1>8, <1>9, <1>10, <1>11
<1> QED BY <1>3, <1>12 DEF g

LEMMA EffectiveMessage ==
  ASSUME NEW d \in Seq(Rows), NEW m \in Messages
  PROVE  Append(d, m) \in Seq(Rows) /\ Effective(Append(d, m)) = Append(Effective(d), m)
<1>1. m \in Rows /\ ~IsCheckpoint(m)
  BY RowFacts
<1> QED BY <1>1, EffectiveAppend

LEMMA EffectivePartial ==
  ASSUME NEW d \in Seq(Rows)
  PROVE  Append(d, Partial) \in Seq(Rows) /\ Effective(Append(d, Partial)) = Effective(d)
<1>1. Partial \in Rows /\ ~IsCheckpoint(Partial) /\ Partial \notin Messages
  BY RowFacts
<1> QED BY <1>1, EffectiveAppend

(* A checkpoint behind the transcript replaces the history.                  *)
LEMMA EffectiveCheckpoint ==
  ASSUME NEW d \in Seq(Rows), NEW c \in Checkpointed
  PROVE  Append(d, c) \in Seq(Rows) /\ Effective(Append(d, c)) = c.history
<1> DEFINE g == Append(d, c)
<1> DEFINE p == Len(d) + 1
<1>1. c \in Rows
  BY DEF Rows
<1>2. g \in Seq(Rows) /\ Len(g) = p /\ g[p] = c /\ Len(d) \in Nat
  BY <1>1, AppendProperties
<1> HIDE DEF g, p
<1>3. p \in Nat /\ p # 0
  BY <1>2 DEF p
<1>4. Latest(g, p)
  BY <1>2, <1>3, RowFacts DEF Latest
<1>5. Only(From(g, p + 1), Messages) = <<>>
  <2>1. From(g, p + 1) = <<>> BY <1>2, <1>3, SubSeqEmpty DEF From
  <2>2. <<>> \in Seq(Rows) /\ \A i \in 1..Len(<<>>) : <<>>[i] \in Messages BY EmptySeq
  <2>3. Only(<<>>, Messages) = <<>> BY <2>2, OnlyAll
  <2> QED BY <2>1, <2>3
<1>6. Base(g, p) = c.history
  BY <1>2, <1>3 DEF Base
<1>7. Effective(g) = c.history \o <<>>
  BY <1>2, <1>4, <1>5, <1>6, EffectiveFacts
<1>8. c.history \in Seq(Messages)
  BY RowFacts
<1> QED BY <1>2, <1>7, <1>8, ConcatEmptySeq DEF g

(* Without a checkpoint the transcript is the history.                       *)
LEMMA EffectivePlain ==
  ASSUME NEW d \in Seq(Messages)
  PROVE  d \in Seq(Rows) /\ Effective(d) = d
<1>1. d \in Seq(Rows)
  BY DEF Rows
<1>2. Latest(d, 0)
  BY RowFacts DEF Latest
<1>3. Effective(d) = Base(d, 0) \o Only(From(d, 0 + 1), Messages)
  BY <1>1, <1>2, EffectiveFacts
<1>4. Base(d, 0) = <<>> /\ From(d, 0 + 1) = d
  BY SubSeqFull DEF Base, From
<1>5. Only(d, Messages) = d
  <2>1. \A i \in 1..Len(d) : d[i] \in Messages OBVIOUS
  <2> QED BY <2>1, OnlyAll
<1> QED BY <1>1, <1>3, <1>4, <1>5, ConcatEmptySeq

-----------------------------------------------------------------------------
(* What a history is that was recorded message by message: a result belongs  *)
(* to the calls in front of it, and a placeholder shares its id with no      *)
(* other result there.                                                      *)

Owned(h) ==
  \A j \in 1..Len(h) : h[j].role = "tool" =>
    \E i \in 1..Len(h) :
      h[i].role = "assistant" /\ Behind(h, i, j) /\ h[j].id \in Elements(h[i].calls)

PlaceholdersAlone(h) ==
  \A i, j, k \in 1..Len(h) :
    h[i].role = "assistant" /\ Behind(h, i, j) /\ Behind(h, i, k)
      /\ h[j].kind = "placeholder" /\ h[j].id = h[k].id => j = k

Recorded(h) == Owned(h) /\ PlaceholdersAlone(h)

(* The results that are due belong to the latest answer, and only recorded   *)
(* results and system rows follow it.                                       *)
DueOwned(h, ids) ==
  ids # <<>> =>
    \E i \in 1..Len(h) :
      /\ h[i].role = "assistant" /\ Last(h, i)
      /\ \A k \in (i + 1)..Len(h) : h[k].kind = "real"
      /\ Elements(ids) \subseteq Elements(h[i].calls)

LEMMA PairedRecorded ==
  ASSUME NEW h \in Seq(Messages), Paired(h, {})
  PROVE  Recorded(h)
<1>1. Owned(h)
  BY DEF Paired, ResultsOwned, AnswersSound, Owned
<1>2. PlaceholdersAlone(h)
  BY DEF Paired, AnswersSound, PlaceholdersAlone
<1> QED BY <1>1, <1>2 DEF Recorded

LEMMA RecordedEmpty == Recorded(<<>>)
<1>1. Len(<<>>) = 0 /\ 1..0 = {}
  OBVIOUS
<1> QED BY <1>1 DEF Recorded, Owned, PlaceholdersAlone

LEMMA RecordedMessage ==
  ASSUME NEW h \in Seq(Messages), Recorded(h), NEW m \in Messages, m.role # "tool"
  PROVE  Recorded(Append(h, m))
<1> DEFINE g == Append(h, m)
<1> DEFINE n == Len(h) + 1
<1>1. /\ Len(g) = n /\ Len(h) \in Nat /\ g[n] = m
      /\ \A i \in 1..Len(h) : g[i] = h[i]
      /\ \A i, j \in 1..Len(h) : Behind(g, i, j) <=> Behind(h, i, j)
      /\ \A i \in 1..n : ~Behind(g, i, n)
      /\ \A j \in 1..n : ~Behind(g, n, j)
  BY BehindAppend
<1>2. \A i \in 1..n : i \in 1..Len(h) \/ i = n
  BY <1>1
<1>3. \A i \in 1..Len(h) : i \in 1..n
  BY <1>1
<1> HIDE DEF g, n
<1>4. Owned(g)
  <2> SUFFICES ASSUME NEW j \in 1..n, g[j].role = "tool"
               PROVE  \E i \in 1..n : /\ g[i].role = "assistant" /\ Behind(g, i, j)
                                      /\ g[j].id \in Elements(g[i].calls)
    BY <1>1 DEF Owned
  <2>1. j \in 1..Len(h) /\ h[j].role = "tool" BY <1>1, <1>2
  <2>2. PICK i \in 1..Len(h) : /\ h[i].role = "assistant" /\ Behind(h, i, j)
                              /\ h[j].id \in Elements(h[i].calls)
    BY <2>1 DEF Recorded, Owned
  <2> QED BY <2>1, <2>2, <1>1, <1>3
<1>5. PlaceholdersAlone(g)
  <2> SUFFICES ASSUME NEW i \in 1..n, NEW j \in 1..n, NEW k \in 1..n, g[i].role = "assistant",
                      Behind(g, i, j), Behind(g, i, k), g[j].kind = "placeholder", g[j].id = g[k].id
               PROVE  j = k
    BY <1>1 DEF PlaceholdersAlone
  <2>1. i \in 1..Len(h) /\ j \in 1..Len(h) /\ k \in 1..Len(h) BY <1>1, <1>2
  <2>2. g[i] = h[i] /\ g[j] = h[j] /\ g[k] = h[k] /\ Behind(h, i, j) /\ Behind(h, i, k)
    BY <2>1, <1>1
  <2> QED BY <2>1, <2>2 DEF Recorded, PlaceholdersAlone
<1> QED BY <1>4, <1>5 DEF Recorded, g

(* The next result that is due is recorded.                                 *)
LEMMA RecordedResult ==
  ASSUME NEW h \in Seq(Messages), Recorded(h),
         NEW ids \in Seq(CallIds), ids # <<>>, DueOwned(h, ids)
  PROVE  /\ Recorded(Append(h, Result(Head(ids), "real")))
         /\ DueOwned(Append(h, Result(Head(ids), "real")), Tail(ids))
<1> DEFINE m == Result(Head(ids), "real")
<1> DEFINE g == Append(h, m)
<1> DEFINE n == Len(h)
<1>1. /\ Head(ids) \in Elements(ids) /\ Elements(Tail(ids)) \subseteq Elements(ids)
      /\ Head(ids) \in CallIds
  <2>1. Len(ids) \in Nat /\ Len(ids) # 0 /\ Head(ids) = ids[1] BY EmptySeq
  <2>2. 1 \in 1..Len(ids) BY <2>1
  <2>3. /\ Tail(ids) \in Seq(CallIds) /\ Len(Tail(ids)) = Len(ids) - 1
        /\ \A i \in 1..Len(Tail(ids)) : Tail(ids)[i] = ids[i + 1]
        /\ Head(ids) \in CallIds
    BY HeadTailProperties
  <2>4. \A i \in 1..Len(Tail(ids)) : i + 1 \in 1..Len(ids) BY <2>1, <2>3
  <2>5. \A e \in Elements(Tail(ids)) : \E i \in 1..Len(Tail(ids)) : Tail(ids)[i] = e
    BY <2>3, ElementsFacts
  <2>6. \A i \in 1..Len(ids) : ids[i] \in Elements(ids) BY ElementsFacts
  <2> QED BY <2>1, <2>2, <2>3, <2>4, <2>5, <2>6
<1>2. m \in Messages /\ m.role = "tool" /\ m.id = Head(ids) /\ m.kind = "real"
  BY <1>1, ResultIsMessage
<1> HIDE DEF m
<1>3. /\ Len(g) = n + 1 /\ n \in Nat /\ g[n + 1] = m
      /\ \A i \in 1..n : g[i] = h[i]
      /\ \A i, j \in 1..n : Behind(g, i, j) <=> Behind(h, i, j)
      /\ \A i \in 1..n : Behind(g, i, n + 1) <=> Last(h, i)
      /\ \A i \in 1..n : Last(g, i) <=> Last(h, i)
  <2> DEFINE t == <<m>>
  <2>1. t \in Seq(Messages) /\ Len(t) = 1 /\ t[1] = m BY <1>2
  <2>2. \A j \in 1..Len(t) : t[j].role = "tool" BY <2>1, <1>2
  <2>3. g = h \o t BY <1>2, AppendIsConcat
  <2> HIDE DEF t, n, g
  <2>4. /\ Len(h \o t) = n + Len(t) /\ n \in Nat
        /\ \A i \in 1..n : (h \o t)[i] = h[i]
        /\ \A j \in (n + 1)..(n + Len(t)) : (h \o t)[j] = t[j - n]
        /\ \A i, j \in 1..n : Behind(h \o t, i, j) <=> Behind(h, i, j)
        /\ \A i \in 1..n : \A j \in (n + 1)..(n + Len(t)) : Behind(h \o t, i, j) <=> Last(h, i)
        /\ \A i \in 1..n : Last(h \o t, i) <=> Last(h, i)
    BY <2>1, <2>2, BehindConcat DEF n
  <2>5. n + 1 \in (n + 1)..(n + Len(t)) /\ (n + 1) - n = 1 BY <2>1, <2>4
  <2> QED BY <2>1, <2>3, <2>4, <2>5
<1>4. \A i \in 1..(n + 1) : i \in 1..n \/ i = n + 1
  BY <1>3
<1>5. \A i \in 1..n : i \in 1..(n + 1)
  BY <1>3
<1>6. PICK p \in 1..n : /\ h[p].role = "assistant" /\ Last(h, p)
                        /\ \A k \in (p + 1)..n : h[k].kind = "real"
                        /\ Elements(ids) \subseteq Elements(h[p].calls)
  BY DEF DueOwned
<1> HIDE DEF g, n
<1>7. Owned(g)
  <2> SUFFICES ASSUME NEW j \in 1..(n + 1), g[j].role = "tool"
               PROVE  \E i \in 1..(n + 1) : /\ g[i].role = "assistant" /\ Behind(g, i, j)
                                            /\ g[j].id \in Elements(g[i].calls)
    BY <1>3 DEF Owned
  <2>1. CASE j \in 1..n
    <3>1. h[j].role = "tool" BY <2>1, <1>3
    <3>2. PICK i \in 1..n : /\ h[i].role = "assistant" /\ Behind(h, i, j)
                            /\ h[j].id \in Elements(h[i].calls)
      BY <2>1, <3>1 DEF Recorded, Owned, n
    <3> QED BY <2>1, <3>2, <1>3, <1>5
  <2>2. CASE j = n + 1
    BY <2>2, <1>1, <1>2, <1>3, <1>5, <1>6
  <2> QED BY <2>1, <2>2, <1>4
<1>8. PlaceholdersAlone(g)
  <2> SUFFICES ASSUME NEW i \in 1..(n + 1), NEW j \in 1..(n + 1), NEW k \in 1..(n + 1),
                      g[i].role = "assistant", Behind(g, i, j), Behind(g, i, k),
                      g[j].kind = "placeholder", g[j].id = g[k].id
               PROVE  j = k
    BY <1>3 DEF PlaceholdersAlone
  <2>1. i \in 1..n BY <1>2, <1>3, <1>4
  <2>2. j \in 1..n BY <1>2, <1>3, <1>4
  <2>3. Behind(h, i, j) /\ h[j].kind = "placeholder" /\ h[i].role = "assistant" BY <2>1, <2>2, <1>3
  <2>4. CASE k \in 1..n
    BY <2>1, <2>2, <2>3, <2>4, <1>3 DEF Recorded, PlaceholdersAlone, n
  <2>5. CASE k = n + 1
    <3>1. Last(h, i) BY <2>1, <2>5, <1>3
    <3>2. i = p
      <4>1. i \in Nat /\ p \in Nat BY <1>3, <2>1
      <4>2. ~(i < p)
        <5> SUFFICES ASSUME i < p PROVE FALSE
          OBVIOUS
        <5>1. p \in (i + 1)..n BY <4>1, <1>3
        <5> QED BY <5>1, <3>1, <1>6 DEF Last, n
      <4>3. ~(p < i)
        <5> SUFFICES ASSUME p < i PROVE FALSE
          OBVIOUS
        <5>1. i \in (p + 1)..n BY <4>1, <1>3, <2>1
        <5> QED BY <5>1, <2>3, <1>6 DEF Last, n
      <4> QED BY <4>1, <4>2, <4>3
    <3>3. j \in (p + 1)..n BY <3>2, <2>2, <2>3, <1>3 DEF Behind
    <3> QED BY <3>3, <2>3, <1>6
  <2> QED BY <2>4, <2>5, <1>4
<1>9. DueOwned(g, Tail(ids))
  <2>1. p \in 1..(n + 1) /\ g[p].role = "assistant" /\ Last(g, p) BY <1>3, <1>5, <1>6
  <2>2. \A k \in (p + 1)..(n + 1) : g[k].kind = "real"
    <3> TAKE k \in (p + 1)..(n + 1)
    <3>1. k = n + 1 \/ (k \in (p + 1)..n /\ k \in 1..n) BY <1>3
    <3> QED BY <3>1, <1>2, <1>3, <1>6
  <2>3. Elements(Tail(ids)) \subseteq Elements(g[p].calls) BY <1>1, <1>3, <1>6
  <2> QED BY <2>1, <2>2, <2>3, <1>3 DEF DueOwned
<1> QED BY <1>7, <1>8, <1>9 DEF Recorded, g, m

(* A system row between results changes nothing of what is due.              *)
LEMMA DueOwnedSystem ==
  ASSUME NEW h \in Seq(Messages), NEW ids, DueOwned(h, ids)
  PROVE  DueOwned(Append(h, System), ids)
<1> DEFINE g == Append(h, System)
<1> DEFINE n == Len(h) + 1
<1>1. /\ Len(g) = n /\ Len(h) \in Nat
      /\ g[n] = System /\ \A i \in 1..Len(h) : g[i] = h[i]
      /\ \A i \in 1..Len(h) : Last(g, i) <=> Last(h, i)
  BY SystemIsMessage, BehindAppend
<1> HIDE DEF g
<1>2. SUFFICES ASSUME ids # <<>>
               PROVE  \E i \in 1..n :
                        /\ g[i].role = "assistant" /\ Last(g, i)
                        /\ \A k \in (i + 1)..n : g[k].kind = "real"
                        /\ Elements(ids) \subseteq Elements(g[i].calls)
  BY <1>1 DEF DueOwned, g
<1>3. PICK i \in 1..Len(h) :
        /\ h[i].role = "assistant" /\ Last(h, i)
        /\ \A k \in (i + 1)..Len(h) : h[k].kind = "real"
        /\ Elements(ids) \subseteq Elements(h[i].calls)
  BY <1>2 DEF DueOwned
<1>4. \A k \in (i + 1)..n : g[k].kind = "real"
  <2> TAKE k \in (i + 1)..n
  <2>1. k = n \/ (k \in (i + 1)..Len(h) /\ k \in 1..Len(h)) BY <1>1
  <2> QED BY <2>1, <1>1, <1>3, SystemIsMessage
<1> QED BY <1>1, <1>3, <1>4

LEMMA RecordedPrefix ==
  ASSUME NEW h \in Seq(Messages), Recorded(h), NEW n \in 0..Len(h)
  PROVE  SubSeq(h, 1, n) \in Seq(Messages) /\ Recorded(SubSeq(h, 1, n))
<1> DEFINE g == SubSeq(h, 1, n)
<1>1. n \in Nat /\ Len(h) \in Nat /\ \A i \in 1..n : i \in 1..Len(h)
  OBVIOUS
<1>2. g \in Seq(Messages) /\ Len(g) = n /\ \A i \in 1..n : g[i] = h[i]
  <2>1. \A i \in 1..n : h[i] \in Messages BY <1>1
  <2> QED BY <1>1, <2>1, SubSeqProperties
<1> HIDE DEF g
<1>3. ASSUME NEW i \in 1..n, NEW j \in 1..n
      PROVE  Behind(g, i, j) <=> Behind(h, i, j)
  <2>1. \A k \in (i + 1)..j : g[k] = h[k] BY <1>1, <1>2
  <2> QED BY <2>1, <1>2 DEF Behind
<1>4. Owned(g)
  <2> SUFFICES ASSUME NEW j \in 1..n, g[j].role = "tool"
               PROVE  \E i \in 1..n : /\ g[i].role = "assistant" /\ Behind(g, i, j)
                                      /\ g[j].id \in Elements(g[i].calls)
    BY <1>2 DEF Owned
  <2>1. PICK i \in 1..Len(h) : /\ h[i].role = "assistant" /\ Behind(h, i, j)
                              /\ h[j].id \in Elements(h[i].calls)
    BY <1>1, <1>2 DEF Recorded, Owned
  <2>2. i \in 1..n BY <2>1, <1>1 DEF Behind
  <2> QED BY <2>1, <2>2, <1>2, <1>3
<1>5. PlaceholdersAlone(g)
  BY <1>1, <1>2, <1>3 DEF Recorded, PlaceholdersAlone
<1> QED BY <1>2, <1>4, <1>5 DEF Recorded, g

-----------------------------------------------------------------------------
(* Where the placeholders of a recovered history come from.                  *)

LEMMA ElementsOfConcat ==
  ASSUME NEW D, NEW s \in Seq(D), NEW t \in Seq(D)
  PROVE  \A e \in Elements(s \o t) : e \in Elements(s) \/ e \in Elements(t)
<1>1. /\ s \o t \in Seq(D) /\ Len(s \o t) = Len(s) + Len(t) /\ Len(s) \in Nat /\ Len(t) \in Nat
      /\ \A i \in 1..(Len(s) + Len(t)) :
           (s \o t)[i] = IF i <= Len(s) THEN s[i] ELSE t[i - Len(s)]
  BY ConcatProperties
<1> TAKE e \in Elements(s \o t)
<1>2. PICK i \in 1..(Len(s) + Len(t)) : (s \o t)[i] = e
  <2>1. \A x \in Elements(s \o t) : \E i \in 1..Len(s \o t) : (s \o t)[i] = x
    BY <1>1, ElementsFacts
  <2> QED BY <2>1, <1>1
<1>3. CASE i <= Len(s)
  <2>1. i \in 1..Len(s) /\ e = s[i] BY <1>1, <1>2, <1>3
  <2> QED BY <2>1, ElementsFacts
<1>4. CASE ~(i <= Len(s))
  <2>1. i - Len(s) \in 1..Len(t) /\ e = t[i - Len(s)] BY <1>1, <1>2, <1>4
  <2> QED BY <2>1, ElementsFacts
<1> QED BY <1>3, <1>4

(* What a flush puts out.                                                   *)
LEMMA FlushedRows ==
  ASSUME NEW st \in States
  PROVE  \A r \in Elements(Flushed(st).out) :
           \/ r \in Elements(st.out)
           \/ \E x \in Elements(st.pending) : r = Result(x, "placeholder")
<1> DEFINE t == Placeholders(st.pending)
<1> DEFINE o == st.out
<1>1. o \in Seq(Messages) /\ st.pending \in Seq(CallIds)
  BY DEF States
<1>2. /\ t \in Seq(Messages) /\ Len(t) = Len(st.pending)
      /\ \A i \in 1..Len(st.pending) : t[i] = Result(st.pending[i], "placeholder")
  BY <1>1, PlaceholderFacts
<1>3. Flushed(st).out = o \o t
  BY FlushedFacts
<1> HIDE DEF t, o
<1>4. \A r \in Elements(o \o t) : r \in Elements(o) \/ r \in Elements(t)
  BY <1>1, <1>2, ElementsOfConcat
<1>5. \A r \in Elements(t) : \E x \in Elements(st.pending) : r = Result(x, "placeholder")
  <2> TAKE r \in Elements(t)
  <2>1. PICK i \in 1..Len(t) : t[i] = r BY <1>2, ElementsFacts
  <2>2. st.pending[i] \in Elements(st.pending) BY <1>1, <1>2, ElementsFacts
  <2> QED BY <2>1, <2>2, <1>2
<1> QED BY <1>3, <1>4, <1>5 DEF o

(* Row n ends the answers behind a call, and x is still waited for.          *)
Given(h, x) ==
  \E n \in 0..Len(h) : (n = Len(h) \/ h[n + 1].role \notin {"tool", "system"}) /\ Waits(h, n, x)

Explained(h, n, st) ==
  /\ \A x \in Elements(st.pending) : Waits(h, n, x)
  /\ \A r \in Elements(st.out) :
       r.kind = "placeholder" => r \in Elements(h) \/ Given(h, r.id)

LEMMA ExplainedFlush ==
  ASSUME NEW h \in Seq(Messages), NEW n \in 0..Len(h), NEW st \in States,
         Explained(h, n, st), n = Len(h) \/ h[n + 1].role \notin {"tool", "system"}
  PROVE  \A r \in Elements(Flushed(st).out) :
           r.kind = "placeholder" => r \in Elements(h) \/ Given(h, r.id)
<1> SUFFICES ASSUME NEW r \in Elements(Flushed(st).out), r.kind = "placeholder"
             PROVE  r \in Elements(h) \/ Given(h, r.id)
  OBVIOUS
<1>1. CASE r \in Elements(st.out)
  BY <1>1 DEF Explained
<1>2. ASSUME NEW x \in Elements(st.pending), r = Result(x, "placeholder")
      PROVE  Given(h, r.id)
  <2>1. r.id = x
    <3>1. st.pending \in Seq(CallIds) BY DEF States
    <3>2. x \in CallIds BY <3>1, ElementsFacts
    <3> QED BY <3>2, <1>2, ResultIsMessage
  <2>2. Waits(h, n, x) BY DEF Explained
  <2> QED BY <2>1, <2>2 DEF Given
<1> QED BY <1>1, <1>2, FlushedRows

LEMMA ExplainedStep ==
  ASSUME NEW h \in Seq(Messages), NEW n \in 0..(Len(h) - 1), NEW st \in States,
         Explained(h, n, st)
  PROVE  Explained(h, n + 1, Recovered(st, h[n + 1]))
<1> DEFINE m == h[n + 1]
<1> DEFINE r == Recovered(st, m)
<1> DEFINE now == Flushed(st)
<1>1. n \in 0..Len(h) /\ n + 1 \in 1..Len(h) /\ m \in Messages /\ m \in Elements(h)
  <2>1. n \in 0..Len(h) /\ n + 1 \in 1..Len(h) OBVIOUS
  <2>2. m \in Messages BY <2>1
  <2>3. m \in Elements(h) BY <2>1, ElementsFacts
  <2> QED BY <2>1, <2>2, <2>3
<1>2. now \in States /\ now.out \in Seq(Messages) /\ now.pending = <<>> /\ st.out \in Seq(Messages)
      /\ st.pending \in Seq(CallIds)
  BY FlushedFacts DEF States
<1>3. Elements(<<>>) = {}
  BY DEF Elements
<1>4. /\ m.role \in {"tool", "system"} =>
           \A x : Waits(h, n + 1, x) <=> Waits(h, n, x) /\ Skips(m, x)
      /\ m.role \notin {"tool", "system"} =>
           \A x : Waits(h, n + 1, x) <=> m.role = "assistant" /\ x \in Elements(m.calls)
  BY WaitsStep
<1>5. m.role \notin {"tool", "system"} =>
        \A w \in Elements(now.out) : w.kind = "placeholder" => w \in Elements(h) \/ Given(h, w.id)
  BY <1>1, ExplainedFlush
<1>6. CASE m.role = "user"
  <2>1. r.out = Append(now.out, m) /\ r.pending = <<>>
    BY <1>1, <1>6, RecoveredUser
  <2>2. Elements(r.out) = Elements(now.out) \union {m}
    <3> HIDE DEF m, r, now
    <3> QED BY <2>1, <1>1, <1>2, ElementsOfAppend
  <2> QED BY <2>1, <2>2, <1>1, <1>3, <1>5, <1>6 DEF Explained
<1>7. CASE m.role = "assistant"
  <2> DEFINE new == NewCalls(st.called, m.calls)
  <2> DEFINE kept == [m EXCEPT !.calls = new]
  <2>1. new \in Seq(CallIds) /\ Elements(new) \subseteq Elements(m.calls)
    BY <1>1, MessageFacts, NewCallsFacts
  <2>2. kept \in Messages /\ kept.role = "assistant"
    BY <1>1, <1>7, <2>1, CallsReplaced
  <2>3. CASE new = <<>> /\ m.kind = "empty"
    <3>1. r = now BY <1>1, <1>7, <2>3, RecoveredAssistant
    <3> QED BY <3>1, <1>2, <1>3, <1>5, <1>7 DEF Explained
  <2>4. CASE ~(new = <<>> /\ m.kind = "empty")
    <3>1. r.out = Append(now.out, kept) /\ r.pending = new
      <4> HIDE DEF m
      <4> QED BY <1>1, <1>7, <2>4, RecoveredAssistant
    <3> HIDE DEF m, r, now, new, kept
    <3>2. Elements(r.out) = Elements(now.out) \union {kept}
      BY <3>1, <1>2, <2>2, ElementsOfAppend
    <3>3. kept.kind # "placeholder" BY <2>2, MessageFacts
    <3>4. \A x \in Elements(r.pending) : Waits(h, n + 1, x)
      BY <3>1, <2>1, <1>4, <1>7
    <3>5. \A w \in Elements(r.out) : w.kind = "placeholder" => w \in Elements(h) \/ Given(h, w.id)
      BY <3>2, <3>3, <1>5, <1>7
    <3>6. Explained(h, n + 1, r) BY <3>4, <3>5 DEF Explained
    <3> QED BY <3>6 DEF r, m
  <2> QED BY <2>3, <2>4
<1>8. CASE m.role = "tool"
  <2> DEFINE left == Only(st.pending, Elements(st.pending) \ {m.id})
  <2>1. CASE m.id \notin Elements(st.pending)
    <3>1. r = st BY <1>1, <1>8, <2>1, RecoveredResult
    <3> QED BY <3>1, <2>1, <1>4, <1>8 DEF Explained, Skips
  <2>2. CASE m.id \in Elements(st.pending)
    <3>1. r.out = Append(st.out, m) /\ r.pending = left
      BY <1>1, <1>8, <2>2, RecoveredResult
    <3>2. Elements(left) = Elements(st.pending) \intersect (Elements(st.pending) \ {m.id})
      BY <1>2, OnlyFacts
    <3> HIDE DEF m, r, left
    <3>3. Elements(r.out) = Elements(st.out) \union {m}
      BY <3>1, <1>1, <1>2, ElementsOfAppend
    <3>4. \A x \in Elements(r.pending) : Waits(h, n + 1, x)
      BY <3>1, <3>2, <1>4, <1>8 DEF Explained, Skips
    <3>5. \A w \in Elements(r.out) : w.kind = "placeholder" => w \in Elements(h) \/ Given(h, w.id)
      BY <3>3, <1>1 DEF Explained
    <3>6. Explained(h, n + 1, r) BY <3>4, <3>5 DEF Explained
    <3> QED BY <3>6 DEF r, m
  <2> QED BY <2>1, <2>2
<1>9. CASE m.role = "system"
  <2>1. r.out = Append(st.out, m) /\ r.pending = st.pending
    BY <1>1, <1>9, RecoveredSystem
  <2> HIDE DEF m, r
  <2>2. Elements(r.out) = Elements(st.out) \union {m}
    BY <2>1, <1>1, <1>2, ElementsOfAppend
  <2>3. \A x \in Elements(r.pending) : Waits(h, n + 1, x)
    BY <2>1, <1>4, <1>9 DEF Explained, Skips
  <2>4. Explained(h, n + 1, r) BY <2>2, <2>3, <1>1 DEF Explained
  <2> QED BY <2>4 DEF r, m
<1> QED BY <1>1, <1>6, <1>7, <1>8, <1>9, MessageFacts

(* A placeholder is sent if it was recorded, or if a call has no result.     *)
LEMMA PlaceholderOrigin ==
  ASSUME NEW h \in Seq(Messages), NEW r \in Elements(Recover(h)), r.kind = "placeholder"
  PROVE  r \in Elements(h) \/ Given(h, r.id)
<1> DEFINE st == Recovery(h)
<1> DEFINE N == Len(h)
<1>1. N \in Nat
  OBVIOUS
<1>2. /\ st \in [0..N -> States] /\ st[0] = Fresh
      /\ \A k \in 1..N : st[k] = Recovered(st[k - 1], h[k])
  BY RecoverySteps
<1> HIDE DEF st
<1> DEFINE S == {k \in 0..N : Explained(h, k, st[k])}
<1>3. 0 \in S
  <2>1. Elements(<<>>) = {} BY DEF Elements
  <2>2. Explained(h, 0, Fresh) BY <2>1 DEF Explained, Fresh
  <2> QED BY <2>2, <1>1, <1>2
<1>4. \A k \in 0..(N - 1) : k \in S => k + 1 \in S
  <2> TAKE k \in 0..(N - 1)
  <2> HAVE k \in S
  <2>1. k + 1 \in 1..N /\ k + 1 \in 0..N /\ k \in 0..N /\ (k + 1) - 1 = k BY <1>1
  <2>2. st[k + 1] = Recovered(st[k], h[k + 1]) /\ st[k] \in States BY <2>1, <1>2
  <2>3. Explained(h, k + 1, st[k + 1])
    BY <2>2, ExplainedStep
  <2> QED BY <2>1, <2>3
<1>5. N \in S
  <2>1. 0..N \subseteq S
    <3> HIDE DEF S
    <3> QED BY <1>1, <1>3, <1>4, RangeInduction
  <2> QED BY <2>1, <1>1
<1>6. r \in Elements(Flushed(st[N]).out)
  BY DEF Recover, st
<1>7. st[N] \in States /\ N \in 0..Len(h)
  BY <1>1, <1>2
<1> QED BY <1>5, <1>6, <1>7, ExplainedFlush

(* Where each result belongs to one call, none is replaced.                  *)
LEMMA RecordedWins ==
  ASSUME NEW h \in Seq(Messages), Recorded(h),
         NEW m \in Elements(Recover(h)), m.kind = "placeholder",
         Result(m.id, "real") \in Elements(h)
  PROVE  \E i, k \in Callers(h, m.id) : i # k
<1> DEFINE N == Len(h)
<1> DEFINE x == m.id
<1>1. N \in Nat /\ DOMAIN h = 1..N
  OBVIOUS
<1>2. m \in Messages /\ x \in CallIds /\ m.role = "tool"
  <2>1. m \in Messages BY RecoverType, ElementsFacts
  <2> QED BY <2>1, MessageFacts
<1> HIDE DEF x
<1>3. PICK j \in 1..N : h[j] = Result(x, "real")
  BY ElementsFacts DEF x
<1>4. h[j].role = "tool" /\ h[j].id = x /\ h[j].kind = "real"
  BY <1>2, <1>3, ResultIsMessage
<1>5. PICK i \in 1..N : h[i].role = "assistant" /\ Behind(h, i, j) /\ x \in Elements(h[i].calls)
  BY <1>4 DEF Recorded, Owned
<1>6. SUFFICES ASSUME \A k \in 1..N : x \in Elements(h[k].calls) => k = i PROVE FALSE
  <2>1. i \in Callers(h, x) BY <1>1, <1>5 DEF Callers
  <2>2. \A k : k \in Callers(h, x) <=> k \in 1..N /\ x \in Elements(h[k].calls)
    BY <1>1 DEF Callers
  <2> QED BY <2>1, <2>2, <1>6 DEF x
<1>7. CASE m \in Elements(h)
  <2>1. PICK k \in 1..N : h[k] = m BY <1>7, ElementsFacts
  <2>2. PICK p \in 1..N : h[p].role = "assistant" /\ Behind(h, p, k) /\ x \in Elements(h[p].calls)
    BY <2>1, <1>2 DEF Recorded, Owned, x
  <2>3. p = i BY <2>2, <1>6
  <2>4. k = j BY <2>1, <2>2, <2>3, <1>4, <1>5 DEF Recorded, PlaceholdersAlone, x
  <2> QED BY <2>1, <2>4, <1>4
<1>8. CASE Given(h, x)
  <2>1. PICK n \in 0..N : (n = N \/ h[n + 1].role \notin {"tool", "system"}) /\ Waits(h, n, x)
    BY <1>8 DEF Given
  <2>2. PICK p \in 1..n : /\ h[p].role = "assistant" /\ x \in Elements(h[p].calls)
                          /\ \A k \in (p + 1)..n : Skips(h[k], x)
    BY <2>1 DEF Waits
  <2>3. p \in 1..N /\ p = i /\ n \in Nat BY <2>2, <1>1, <1>6
  <2>4. ~(j <= n)
    <3> SUFFICES ASSUME j <= n PROVE FALSE
      OBVIOUS
    <3>1. j \in (p + 1)..n BY <2>3, <1>1, <1>5 DEF Behind
    <3> QED BY <3>1, <2>2, <1>4 DEF Skips
  <2>5. n # N /\ n + 1 \in (i + 1)..j BY <2>2, <2>3, <2>4, <1>1
  <2> QED BY <2>1, <2>5, <1>5 DEF Behind
<1> QED BY <1>7, <1>8, PlaceholderOrigin DEF x

-----------------------------------------------------------------------------
(* What the user said survives a recovery, and system rows do.               *)

PromptRows == {m \in Messages : m.role \in {"user", "system"}}
Prompts(h) == Only(h, PromptRows)

LEMMA FlushedPrompts ==
  ASSUME NEW st \in States
  PROVE  Prompts(Flushed(st).out) = Prompts(st.out)
<1> DEFINE t == Placeholders(st.pending)
<1> DEFINE o == st.out
<1>1. o \in Seq(Messages) /\ st.pending \in Seq(CallIds)
  BY DEF States
<1>2. /\ t \in Seq(Messages) /\ Len(t) = Len(st.pending)
      /\ \A i \in 1..Len(st.pending) : t[i] = Result(st.pending[i], "placeholder")
  BY <1>1, PlaceholderFacts
<1>3. Flushed(st).out = o \o t
  BY FlushedFacts
<1> HIDE DEF t, o
<1>4. \A i \in 1..Len(t) : t[i] \notin PromptRows
  <2> TAKE i \in 1..Len(t)
  <2>1. st.pending[i] \in CallIds BY <1>1, <1>2
  <2>2. t[i].role = "tool" BY <2>1, <1>2, ResultIsMessage
  <2> QED BY <2>2 DEF PromptRows
<1>5. Only(o \o t, PromptRows) = Only(o, PromptRows)
  BY <1>1, <1>2, <1>4, OnlyConcat
<1> QED BY <1>3, <1>5 DEF Prompts, o

LEMMA RecoveredPrompts ==
  ASSUME NEW st \in States, NEW m \in Messages, NEW h \in Seq(Messages),
         Prompts(st.out) = Prompts(h)
  PROVE  Prompts(Recovered(st, m).out) = Prompts(Append(h, m))
<1> DEFINE r == Recovered(st, m)
<1> DEFINE now == Flushed(st)
<1>1. now.out \in Seq(Messages) /\ st.out \in Seq(Messages)
  BY FlushedFacts DEF States
<1>2. Prompts(now.out) = Prompts(h)
  BY FlushedPrompts
<1>3. Prompts(Append(h, m)) = IF m \in PromptRows THEN Append(Prompts(h), m) ELSE Prompts(h)
  BY OnlyAppend DEF Prompts
<1>4. m \in PromptRows <=> m.role \in {"user", "system"}
  BY DEF PromptRows
<1>5. CASE m.role = "user"
  <2>1. r.out = Append(now.out, m)
    BY <1>5, RecoveredUser
  <2> HIDE DEF r, now
  <2>2. Prompts(r.out) = Append(Prompts(now.out), m)
    BY <2>1, <1>1, <1>4, <1>5, OnlyAppend DEF Prompts
  <2>3. Prompts(r.out) = Prompts(Append(h, m))
    BY <2>2, <1>2, <1>3, <1>4, <1>5
  <2> QED BY <2>3 DEF r
<1>6. CASE m.role = "assistant"
  <2> DEFINE new == NewCalls(st.called, m.calls)
  <2> DEFINE kept == [m EXCEPT !.calls = new]
  <2>1. kept \in Messages /\ kept.role = "assistant"
    <3>1. new \in Seq(CallIds) BY MessageFacts, NewCallsFacts
    <3> QED BY <3>1, <1>6, CallsReplaced
  <2>2. r = now \/ r.out = Append(now.out, kept)
    BY <1>6, RecoveredAssistant
  <2> HIDE DEF r, now, kept, new
  <2>3. kept \notin PromptRows
    BY <2>1 DEF PromptRows
  <2>4. Prompts(Append(now.out, kept)) = Prompts(now.out)
    BY <2>1, <2>3, <1>1, OnlyAppend DEF Prompts
  <2>5. Prompts(r.out) = Prompts(now.out)
    BY <2>2, <2>4
  <2>6. Prompts(r.out) = Prompts(Append(h, m))
    BY <2>5, <1>2, <1>3, <1>4, <1>6
  <2> QED BY <2>6 DEF r
<1>7. CASE m.role = "tool"
  <2>1. r = st \/ r.out = Append(st.out, m)
    BY <1>7, RecoveredResult
  <2> HIDE DEF r
  <2>2. Prompts(Append(st.out, m)) = Prompts(st.out)
    BY <1>1, <1>4, <1>7, OnlyAppend DEF Prompts
  <2>3. Prompts(r.out) = Prompts(Append(h, m))
    BY <2>1, <2>2, <1>3, <1>4, <1>7
  <2> QED BY <2>3 DEF r
<1>8. CASE m.role = "system"
  <2>1. r.out = Append(st.out, m)
    BY <1>8, RecoveredSystem
  <2> HIDE DEF r
  <2>2. Prompts(r.out) = Append(Prompts(st.out), m)
    BY <2>1, <1>1, <1>4, <1>8, OnlyAppend DEF Prompts
  <2>3. Prompts(r.out) = Prompts(Append(h, m))
    BY <2>2, <1>3, <1>4, <1>8
  <2> QED BY <2>3 DEF r
<1> QED BY <1>5, <1>6, <1>7, <1>8, MessageFacts

LEMMA RecoverPrompts ==
  ASSUME NEW h \in Seq(Messages)
  PROVE  Prompts(Recover(h)) = Prompts(h)
<1> DEFINE st == Recovery(h)
<1> DEFINE N == Len(h)
<1>1. N \in Nat /\ \A k \in 1..N : h[k] \in Messages
  OBVIOUS
<1>2. /\ st \in [0..N -> States] /\ st[0] = Fresh
      /\ \A k \in 1..N : st[k] = Recovered(st[k - 1], h[k])
  BY RecoverySteps
<1> HIDE DEF st
<1> DEFINE S == {k \in 0..N : Prompts(st[k].out) = Prompts(SubSeq(h, 1, k))}
<1>3. 0 \in S
  <2>1. SubSeq(h, 1, 0) = <<>> BY SubSeqEmpty
  <2>2. st[0].out = <<>> BY <1>2 DEF Fresh
  <2>3. Prompts(st[0].out) = Prompts(SubSeq(h, 1, 0)) BY <2>1, <2>2
  <2>4. 0 \in 0..N BY <1>1
  <2> HIDE DEF N
  <2> QED BY <2>3, <2>4
<1>4. \A k \in 0..(N - 1) : k \in S => k + 1 \in S
  <2> TAKE k \in 0..(N - 1)
  <2> HAVE k \in S
  <2> DEFINE g == SubSeq(h, 1, k)
  <2>1. k + 1 \in 1..N /\ k + 1 \in 0..N /\ k \in 0..N /\ (k + 1) - 1 = k BY <1>1
  <2>2. st[k + 1] = Recovered(st[k], h[k + 1]) /\ st[k] \in States /\ h[k + 1] \in Messages
    BY <2>1, <1>1, <1>2
  <2>3. g \in Seq(Messages) /\ Append(g, h[k + 1]) = SubSeq(h, 1, k + 1)
    BY PrefixAppend
  <2>4. Prompts(st[k].out) = Prompts(g) OBVIOUS
  <2> HIDE DEF g
  <2>5. Prompts(Recovered(st[k], h[k + 1]).out) = Prompts(Append(g, h[k + 1]))
    BY <2>2, <2>3, <2>4, RecoveredPrompts
  <2> QED BY <2>1, <2>2, <2>3, <2>5
<1>5. N \in S
  <2>1. N \in 0..N BY <1>1
  <2>2. 0..N \subseteq S
    <3> HIDE DEF S, N
    <3> QED BY <1>1, <1>3, <1>4, RangeInduction
  <2> QED BY <2>1, <2>2
<1>6. Prompts(st[N].out) = Prompts(h)
  BY <1>5, SubSeqFull
<1>7. Recover(h) = Flushed(st[N]).out
  BY DEF Recover, st
<1>8. st[N] \in States
  BY <1>1, <1>2
<1> QED BY <1>6, <1>7, <1>8, FlushedPrompts

-----------------------------------------------------------------------------
(* Every history that is sent, whatever it was recovered from.               *)

(* Any messages in any order, recovered, are what providers accept, and      *)
(* recovering them again changes nothing.                                   *)
THEOREM RecoveryIsSound ==
  \A h \in Seq(Messages) : WellPaired(Recover(h)) /\ Recover(Recover(h)) = Recover(h)
<1> TAKE h \in Seq(Messages)
<1>1. Recover(h) \in Seq(Messages) /\ Paired(Recover(h), {})
  BY RecoverType, RecoverPaired
<1> QED BY <1>1, PairedIsWellPaired, RecoverFixed

(* Giving up the oldest items of a recovered history, any number of them,    *)
(* leaves what providers accept.                                            *)
THEOREM ShrinkingIsSound ==
  \A h \in Seq(Messages) : \A n \in 0..Len(Recover(h)) : WellPaired(Shrunk(Recover(h))[n])
<1> TAKE h \in Seq(Messages)
<1> DEFINE sent == Recover(h)
<1>1. sent \in PairedHistories
  BY RecoverType, RecoverPaired DEF PairedHistories
<1> HIDE DEF sent
<1>2. \A n \in 0..Len(sent) : Shrunk(sent)[n] \in PairedHistories
  BY <1>1, ShrunkPaired
<1>3. \A n \in 0..Len(sent) : WellPaired(Shrunk(sent)[n])
  BY <1>2, PairedIsWellPaired DEF PairedHistories
<1> QED BY <1>3 DEF sent

(* Every prompt is sent, in its place: those of the user, hidden ones,       *)
(* summaries and system rows.                                               *)
THEOREM RecoveryKeepsPrompts == \A h \in Seq(Messages) : Prompts(Recover(h)) = Prompts(h)
BY RecoverPrompts

LEMMA RealUsersFacts ==
  ASSUME NEW h \in Seq(Messages)
  PROVE  /\ RealUsers(h) \subseteq 1..Len(h)
         /\ \A i \in RealUsers(h) : h[i].role = "user"
BY DEF RealUsers, IsRealUser

(* A repair cuts a paired history off at a turn of the user, at the latest   *)
(* the last.                                                                *)
LEMMA PrunedIsEnd ==
  ASSUME NEW h \in PairedHistories, NEW target
  PROVE  /\ Pruned(h, target) \in PairedHistories
         /\ \E i \in 1..(Len(h) + 1) :
              /\ Pruned(h, target) = From(h, i)
              /\ i = 1 \/ i <= Max(RealUsers(h) \union {0})
<1> DEFINE N == Len(h)
<1> DEFINE C == Cuts(h, target)
<1>1. h \in Seq(Messages) /\ Paired(h, {}) /\ N \in Nat
  BY DEF PairedHistories
<1>2. CASE C = {}
  <2>1. Pruned(h, target) = h BY <1>2 DEF Pruned
  <2>2. From(h, 1) = h BY <1>1, SubSeqFull DEF From
  <2>3. 1 \in 1..(N + 1) BY <1>1
  <2> QED BY <2>1, <2>2, <2>3
<1>3. CASE C # {}
  <2>1. C \subseteq RealUsers(h)
    BY DEF Cuts
  <2>2. RealUsers(h) \subseteq 1..N /\ \A i \in RealUsers(h) : h[i].role = "user"
    BY <1>1, RealUsersFacts
  <2>3. C \subseteq Nat
    BY <2>1, <2>2
  <2>4. PICK c \in C : TRUE
    BY <1>3
  <2> DEFINE p == Min(C)
  <2>5. p \in C
    <3> HIDE DEF C
    <3> QED BY <2>3, <2>4, MinIsLeast
  <2>6. Pruned(h, target) = Recover(From(h, p))
    BY <1>3 DEF Pruned
  <2> HIDE DEF p, C
  <2>7. p \in 1..N /\ h[p].role = "user" /\ p \in RealUsers(h)
    BY <2>1, <2>2, <2>5
  <2>8. p - 1 \in 0..N /\ (p - 1) + 1 = p
    BY <1>1, <2>7
  <2>9. From(h, p) \in Seq(Messages) /\ Paired(From(h, p), {})
    <3> DEFINE k == p - 1
    <3>1. k \in 0..Len(h) /\ h[k + 1].role = "user" /\ k + 1 = p
      BY <2>7, <2>8
    <3> HIDE DEF k
    <3>2. ASSUME NEW i \in 1..k, NEW j \in (k + 1)..Len(h) PROVE ~Behind(h, i, j)
      <4>1. k + 1 \in (i + 1)..j BY <1>1, <3>1
      <4> QED BY <4>1, <3>1 DEF Behind
    <3>3. From(h, k + 1) \in Seq(Messages) /\ Paired(From(h, k + 1), {})
      BY <1>1, <3>1, <3>2, PairedSuffix
    <3> QED BY <3>1, <3>3
  <2>10. Pruned(h, target) = From(h, p)
    BY <2>6, <2>9, RecoverFixed
  <2>11. p <= Max(RealUsers(h) \union {0})
    <3> DEFINE U == RealUsers(h) \union {0}
    <3>1. U \subseteq Nat /\ p \in U /\ \A k \in U : k <= N
      BY <1>1, <2>2, <2>7
    <3> HIDE DEF U, N
    <3>2. \A k \in U : k <= Max(U)
      <4>1. N \in Nat BY <1>1
      <4> QED BY <3>1, <4>1, MaxIsGreatest
    <3>3. p <= Max(U) BY <3>1, <3>2
    <3> QED BY <3>3 DEF U
  <2>12. p \in 1..(N + 1)
    BY <1>1, <2>7
  <2> QED BY <2>9, <2>10, <2>11, <2>12 DEF PairedHistories
<1> QED BY <1>2, <1>3

LEMMA CompactedType ==
  ASSUME NEW h \in Seq(Messages), NEW kept \in 0..Len(Users(h))
  PROVE  Compacted(h, kept) \in Seq(Messages)
<1> DEFINE users == Users(h)
<1>1. users \in Seq(Messages)
  BY OnlyFacts DEF Users
<1> HIDE DEF users
<1>2. Len(users) - kept \in 0..Len(users)
  BY <1>1 DEF users
<1>3. From(users, (Len(users) - kept) + 1) \in Seq(Messages)
  BY <1>1, <1>2, FromFacts
<1>4. User("summary") \in Messages
  BY UserIsMessage
<1>5. Append(From(users, (Len(users) - kept) + 1), User("summary")) \in Seq(Messages)
  BY <1>3, <1>4, AppendProperties
<1> QED BY <1>5 DEF Compacted, users

-----------------------------------------------------------------------------
(* The inductive invariant.                                                 *)

TypeOK ==
  /\ up \in BOOLEAN
  /\ memory \in Seq(Messages)
  /\ disk \in Seq(Rows)
  /\ due \in Seq(CallIds)

NothingLoaded == ~up => memory = <<>> /\ due = <<>>

(* The transcript stands for a history recorded message by message.          *)
TranscriptRecorded == Recorded(Effective(disk)) /\ DueOwned(Effective(disk), due)

IInv == TypeOK /\ ResumeAgrees /\ NothingLoaded /\ TranscriptRecorded

LEMMA InitIInv == Init => IInv
<1> SUFFICES ASSUME Init PROVE IInv
  OBVIOUS
<1>1. up = TRUE /\ memory = <<>> /\ disk = <<>> /\ due = <<>>
  BY DEF Init
<1>2. <<>> \in Seq(Messages) /\ <<>> \in Seq(Rows) /\ <<>> \in Seq(CallIds)
  BY EmptySeq
<1>3. Effective(<<>>) = <<>>
  BY <1>2, EffectivePlain
<1>4. DueOwned(<<>>, <<>>)
  BY DEF DueOwned
<1> QED BY <1>1, <1>2, <1>3, <1>4, RecordedEmpty
    DEF IInv, TypeOK, ResumeAgrees, NothingLoaded, TranscriptRecorded

(* A message that is no result, at the end of memory and transcript.         *)
LEMMA MessageRecorded ==
  ASSUME IInv, up, NEW m \in Messages, m.role # "tool", Records(m)
  PROVE  /\ memory' \in Seq(Messages) /\ disk' \in Seq(Rows)
         /\ memory' = Append(memory, m)
         /\ Effective(disk') = memory' /\ Recorded(memory')
<1>1. memory' = Append(memory, m) /\ disk' = Append(disk, m)
  BY DEF Records, Written
<1>2. /\ memory \in Seq(Messages) /\ disk \in Seq(Rows)
      /\ Effective(disk) = memory /\ Recorded(memory)
  BY DEF IInv, TypeOK, ResumeAgrees, TranscriptRecorded
<1>3. memory' \in Seq(Messages)
  BY <1>1, <1>2, AppendProperties
<1>4. disk' \in Seq(Rows) /\ Effective(disk') = memory'
  BY <1>1, <1>2, EffectiveMessage
<1>5. Recorded(memory')
  BY <1>1, <1>2, RecordedMessage
<1> QED BY <1>1, <1>3, <1>4, <1>5

(* A checkpoint with a paired history, that is now in memory too.            *)
LEMMA CheckpointRecorded ==
  ASSUME IInv, NEW h \in PairedHistories, NEW kind \in {"compact", "repair"},
         disk' = Append(disk, Checkpoint(h, kind))
  PROVE  /\ disk' \in Seq(Rows) /\ Effective(disk') = h
         /\ Recorded(h) /\ DueOwned(h, <<>>) /\ h \in Seq(Messages)
<1>1. disk \in Seq(Rows)
  BY DEF IInv, TypeOK
<1>2. h \in Seq(Messages) /\ Recorded(h)
  BY PairedRecorded DEF PairedHistories
<1>3. Checkpoint(h, kind) \in Checkpointed /\ Checkpoint(h, kind).history = h
  BY <1>2, RowFacts
<1>4. disk' \in Seq(Rows) /\ Effective(disk') = h
  <2> DEFINE c == Checkpoint(h, kind)
  <2>1. c \in Checkpointed /\ c.history = h /\ disk' = Append(disk, c)
    BY <1>3
  <2> HIDE DEF c
  <2> QED BY <1>1, <2>1, EffectiveCheckpoint
<1> QED BY <1>2, <1>4 DEF DueOwned

LEMMA RecoverInPaired ==
  ASSUME NEW h \in Seq(Messages)
  PROVE  Recover(h) \in PairedHistories
BY RecoverType, RecoverPaired DEF PairedHistories

LEMMA NextIInv == IInv /\ [Next]_vars => IInv'
<1> SUFFICES ASSUME IInv, [Next]_vars PROVE IInv'
  OBVIOUS
<1>1. /\ up \in BOOLEAN /\ memory \in Seq(Messages) /\ disk \in Seq(Rows) /\ due \in Seq(CallIds)
      /\ up => Effective(disk) = memory
      /\ ~up => memory = <<>> /\ due = <<>>
      /\ Recorded(Effective(disk)) /\ DueOwned(Effective(disk), due)
  BY DEF IInv, TypeOK, ResumeAgrees, NothingLoaded, TranscriptRecorded
<1>2. SUFFICES
        /\ up' \in BOOLEAN /\ memory' \in Seq(Messages) /\ disk' \in Seq(Rows) /\ due' \in Seq(CallIds)
        /\ up' => Effective(disk') = memory'
        /\ ~up' => memory' = <<>> /\ due' = <<>>
        /\ Recorded(Effective(disk')) /\ DueOwned(Effective(disk'), due')
  BY DEF IInv, TypeOK, ResumeAgrees, NothingLoaded, TranscriptRecorded
<1>3. <<>> \in Seq(Messages) /\ <<>> \in Seq(CallIds)
  BY EmptySeq
<1>4. \A h : DueOwned(h, <<>>)
  BY DEF DueOwned
<1>5. CASE UserMessage
  <2>1. PICK kind \in {"real", "hidden"} : Records(User(kind))
    BY <1>5 DEF UserMessage
  <2>2. up /\ due = <<>> /\ up' = up /\ due' = due
    BY <1>5 DEF UserMessage
  <2>3. User(kind) \in Messages /\ User(kind).role = "user"
    BY UserIsMessage
  <2>4. memory' \in Seq(Messages) /\ disk' \in Seq(Rows) /\ Effective(disk') = memory' /\ Recorded(memory')
    BY <2>1, <2>2, <2>3, MessageRecorded
  <2> QED BY <2>2, <2>4, <1>1, <1>3, <1>4
<1>6. CASE AssistantMessage
  <2>1. PICK calls \in CallLists, kind \in {"text", "empty"} :
          Records(Assistant(calls, kind)) /\ due' = calls
    BY <1>6 DEF AssistantMessage
  <2>2. up /\ due = <<>> /\ up' = up
    BY <1>6 DEF AssistantMessage
  <2>3. calls \in Seq(CallIds)
    BY CallAssumption
  <2> DEFINE m == Assistant(calls, kind)
  <2>4. m \in Messages /\ m.role = "assistant" /\ m.calls = calls
    BY <2>3, AssistantIsMessage
  <2> HIDE DEF m
  <2>5. /\ memory' \in Seq(Messages) /\ disk' \in Seq(Rows) /\ Effective(disk') = memory'
        /\ Recorded(memory') /\ memory' = Append(memory, m)
    BY <2>1, <2>2, <2>4, MessageRecorded DEF m
  <2>6. DueOwned(memory', due')
    <3> DEFINE n == Len(memory) + 1
    <3>1. Len(memory') = n /\ n \in Nat /\ n # 0 /\ memory'[n] = m /\ Last(memory', n)
      BY <2>4, <2>5, <1>1, BehindAppend
    <3> HIDE DEF n
    <3>2. (n + 1)..Len(memory') = {} /\ n \in 1..Len(memory')
      BY <3>1
    <3> QED BY <2>1, <2>4, <3>1, <3>2 DEF DueOwned
  <2> QED BY <2>1, <2>2, <2>3, <2>5, <2>6, <1>1
<1>7. CASE RecordResult
  <2>1. due # <<>> /\ Records(Result(Head(due), "real")) /\ due' = Tail(due) /\ up' = up
    BY <1>7 DEF RecordResult
  <2>2. up
    BY <2>1, <1>1
  <2> DEFINE m == Result(Head(due), "real")
  <2>3. Head(due) \in CallIds /\ Tail(due) \in Seq(CallIds)
    BY <2>1, <1>1, HeadTailProperties
  <2>4. m \in Messages
    BY <2>3, ResultIsMessage
  <2>5. Recorded(Append(memory, m)) /\ DueOwned(Append(memory, m), Tail(due))
    BY <2>1, <2>2, <1>1, RecordedResult
  <2>6. memory' = Append(memory, m) /\ disk' = Append(disk, m)
    BY <2>1 DEF Records, Written
  <2> HIDE DEF m
  <2>7. memory' \in Seq(Messages)
    BY <2>4, <2>6, <1>1, AppendProperties
  <2>8. disk' \in Seq(Rows) /\ Effective(disk') = memory'
    BY <2>2, <2>4, <2>6, <1>1, EffectiveMessage
  <2> QED BY <2>1, <2>2, <2>3, <2>5, <2>6, <2>7, <2>8
<1>8. CASE Compact
  <2>1. PICK kept \in 0..Len(Users(Recover(memory))) :
          memory' = Recover(Compacted(Recover(memory), kept))
    BY <1>8 DEF Compact
  <2>2. up /\ due = <<>> /\ up' = up /\ due' = due /\ disk' = Append(disk, Checkpoint(memory', "compact"))
    BY <1>8 DEF Compact, Written
  <2>3. Recover(memory) \in Seq(Messages)
    BY <1>1, RecoverType
  <2>4. Compacted(Recover(memory), kept) \in Seq(Messages)
    BY <2>3, CompactedType
  <2>5. memory' \in PairedHistories
    BY <2>1, <2>4, RecoverInPaired
  <2>6. /\ disk' \in Seq(Rows) /\ Effective(disk') = memory' /\ Recorded(memory')
        /\ memory' \in Seq(Messages)
    BY <2>2, <2>5, CheckpointRecorded
  <2> QED BY <2>2, <2>6, <1>3, <1>4
<1>9. CASE Repair
  <2>1. PICK target \in 1..(Tokens(memory) + 1) : memory' = Pruned(Recover(memory), target)
    BY <1>9 DEF Repair
  <2>2. up /\ due = <<>> /\ up' = up /\ due' = due /\ disk' = Append(disk, Checkpoint(memory', "repair"))
    BY <1>9 DEF Repair, Written
  <2>3. memory' \in PairedHistories
    BY <2>1, <1>1, RecoverInPaired, PrunedIsEnd
  <2>4. /\ disk' \in Seq(Rows) /\ Effective(disk') = memory' /\ Recorded(memory')
        /\ memory' \in Seq(Messages)
    BY <2>2, <2>3, CheckpointRecorded
  <2> QED BY <2>2, <2>4, <1>3, <1>4
<1>10. CASE RepairOnDisk
  <2> DEFINE raw == Effective(disk)
  <2>1. PICK target \in 1..(Tokens(raw) + 1) :
          disk' = Append(disk, Checkpoint(Pruned(Recover(raw), target), "repair"))
    BY <1>10 DEF RepairOnDisk, Written
  <2>2. ~up /\ up' = up /\ memory' = memory /\ due' = due
    BY <1>10 DEF RepairOnDisk
  <2>3. raw \in Seq(Messages)
    BY <1>1, EffectiveType
  <2> DEFINE h == Pruned(Recover(raw), target)
  <2>4. h \in PairedHistories
    BY <2>3, RecoverInPaired, PrunedIsEnd
  <2>5. disk' = Append(disk, Checkpoint(h, "repair"))
    BY <2>1
  <2> HIDE DEF h
  <2>6. disk' \in Seq(Rows) /\ Effective(disk') = h /\ Recorded(h)
    BY <2>4, <2>5, CheckpointRecorded
  <2> QED BY <2>2, <2>6, <1>1, <1>3, <1>4
<1>11. CASE Rewind
  <2>1. PICK i \in RealUsers(memory) : memory' = SubSeq(memory, 1, i - 1)
    BY <1>11 DEF Rewind
  <2>2. up /\ due = <<>> /\ up' = up /\ due' = due /\ disk' = memory'
    BY <1>11 DEF Rewind
  <2>3. i - 1 \in 0..Len(memory)
    BY <1>1, RealUsersFacts
  <2>4. memory' \in Seq(Messages) /\ Recorded(memory')
    <3> DEFINE n == i - 1
    <3>1. memory' = SubSeq(memory, 1, n) /\ n \in 0..Len(memory) BY <2>1, <2>3
    <3> HIDE DEF n
    <3> QED BY <3>1, <2>2, <1>1, RecordedPrefix
  <2>5. disk' \in Seq(Rows) /\ Effective(disk') = memory'
    BY <2>2, <2>4, EffectivePlain
  <2> QED BY <2>2, <2>4, <2>5, <1>3, <1>4
<1>12. CASE Ends
  BY <1>12, <1>1, <1>3, <1>4 DEF Ends
<1>13. CASE Resume
  <2>1. ~up /\ up' = TRUE /\ memory' = Effective(disk) /\ disk' = disk /\ due' = due
    BY <1>13 DEF Resume
  <2>2. memory' \in Seq(Messages)
    BY <2>1, <1>1, EffectiveType
  <2> QED BY <2>1, <2>2, <1>1
<1>14. CASE SystemRow
  <2>1. up /\ Records(System) /\ up' = up /\ due' = due
    BY <1>14 DEF SystemRow
  <2>2. System \in Messages /\ System.role = "system"
    BY SystemIsMessage
  <2>3. /\ memory' \in Seq(Messages) /\ disk' \in Seq(Rows) /\ Effective(disk') = memory'
        /\ Recorded(memory') /\ memory' = Append(memory, System)
    BY <2>1, <2>2, MessageRecorded
  <2>4. DueOwned(memory', due')
    BY <2>1, <2>3, <1>1, DueOwnedSystem
  <2> QED BY <2>1, <2>3, <2>4, <1>1
<1>15. CASE DiesWriting
  <2>1. up' = FALSE /\ memory' = <<>> /\ due' = <<>> /\ disk' = Append(disk, Partial)
    BY <1>15 DEF DiesWriting, Written
  <2>2. disk' \in Seq(Rows) /\ Effective(disk') = Effective(disk)
    BY <2>1, <1>1, EffectivePartial
  <2> QED BY <2>1, <2>2, <1>1, <1>3, <1>4
<1>16. CASE UNCHANGED vars
  BY <1>16, <1>1 DEF vars
<1> QED BY <1>5, <1>6, <1>7, <1>8, <1>9, <1>10, <1>11, <1>12, <1>13, <1>14, <1>15, <1>16
     DEF Next

(* What every reachable state of a session has: its types, a transcript that *)
(* stands for the messages in memory, results that belong to the calls in    *)
(* front of them, and due results of the latest answer.                      *)
THEOREM Invariance == Spec => []IInv
<1>1. Init => IInv BY InitIInv
<1>2. IInv /\ [Next]_vars => IInv' BY NextIInv
<1> QED BY <1>1, <1>2, PTL DEF Spec

(* Memory holds messages, the transcript messages, checkpoints and partial    *)
(* lines, and what is due are ids.                                          *)
THEOREM TypeCorrect == Spec => []TypeOK
<1>1. IInv => TypeOK
  BY DEF IInv
<1> QED BY <1>1, Invariance, PTL

-----------------------------------------------------------------------------
(* The properties.                                                          *)

(* What is sent is always well paired, and stays so when recovered again.    *)
THEOREM RequestsStayPaired == Spec => []RequestsPaired
<1>1. IInv => RequestsPaired
  BY RecoveryIsSound DEF IInv, TypeOK, RequestsPaired
<1> QED BY <1>1, Invariance, PTL

(* A resumed session has the messages the one that ended had.                *)
THEOREM ResumeStaysFaithful == Spec => []ResumeAgrees
<1>1. IInv => ResumeAgrees
  BY DEF IInv
<1> QED BY <1>1, Invariance, PTL

(* No recorded result of a call that one message made is replaced by a       *)
(* placeholder.                                                             *)
THEOREM RealResultsWin == Spec => []RealResultWins
<1>1. ASSUME IInv PROVE RealResultWins
  <2>1. memory \in Seq(Messages)
    BY <1>1 DEF IInv, TypeOK
  <2>2. Recorded(memory)
    BY <1>1, RecordedEmpty DEF IInv, TypeOK, ResumeAgrees, NothingLoaded, TranscriptRecorded
  <2> QED BY <2>1, <2>2, RecordedWins DEF RealResultWins
<1> QED BY <1>1, Invariance, PTL

(* A compaction may give up as many of the oldest items as it has to.        *)
THEOREM ShrinkingStaysPaired == Spec => []ShrunkStaysPaired
<1>1. ASSUME IInv PROVE ShrunkStaysPaired
  BY <1>1, ShrinkingIsSound DEF IInv, TypeOK, ShrunkStaysPaired
<1> QED BY <1>1, Invariance, PTL

(* One step of RepairKeepsLastTurn.                                          *)
KeepsLastTurn ==
  LET before == Recover(Effective(disk))
      after == Effective(disk')
      last == Max(RealUsers(before) \union {0})
  IN Len(disk') > Len(disk) /\ IsCheckpoint(disk'[Len(disk')]) /\ disk'[Len(disk')].kind = "repair"
     => \E i \in 1..(Len(before) + 1) :
          /\ after = From(before, i)
          /\ i = 1 \/ i <= last

LEMMA RepairStep ==
  ASSUME IInv, NEW target,
         disk' = Append(disk, Checkpoint(Pruned(Recover(Effective(disk)), target), "repair"))
  PROVE  KeepsLastTurn
<1> DEFINE before == Recover(Effective(disk))
<1> DEFINE h == Pruned(before, target)
<1>1. before \in PairedHistories
  <2>1. Effective(disk) \in Seq(Messages) BY EffectiveType DEF IInv, TypeOK
  <2> QED BY <2>1, RecoverInPaired
<1> HIDE DEF before
<1>2. /\ h \in PairedHistories
      /\ \E i \in 1..(Len(before) + 1) :
           h = From(before, i) /\ (i = 1 \/ i <= Max(RealUsers(before) \union {0}))
  BY <1>1, PrunedIsEnd
<1>3. disk' = Append(disk, Checkpoint(h, "repair"))
  BY DEF before
<1> HIDE DEF h
<1>4. Effective(disk') = h
  BY <1>2, <1>3, CheckpointRecorded
<1> QED BY <1>2, <1>4 DEF KeepsLastTurn, before

(* A step that puts a message, a partial line or another checkpoint at the   *)
(* end, or a new transcript of messages.                                    *)
LEMMA NoRepairStep ==
  ASSUME IInv,
         \/ disk' = disk
         \/ \E m \in Messages : disk' = Append(disk, m)
         \/ \E h \in Seq(Messages) : disk' = Append(disk, Checkpoint(h, "compact"))
         \/ disk' \in Seq(Messages)
         \/ disk' = Append(disk, Partial)
  PROVE  KeepsLastTurn
<1> DEFINE r == disk'[Len(disk')]
<1>1. disk \in Seq(Rows) /\ Len(disk) \in Nat
  BY DEF IInv, TypeOK
<1>2. SUFFICES ASSUME Len(disk') > Len(disk), IsCheckpoint(r), r.kind = "repair" PROVE FALSE
  BY DEF KeepsLastTurn
<1>3. CASE disk' = disk
  BY <1>1, <1>2, <1>3
<1>4. ASSUME NEW m \in Messages, disk' = Append(disk, m) PROVE FALSE
  <2>1. m \in Rows BY DEF Rows
  <2>2. r = m BY <2>1, <1>1, <1>4, AppendProperties
  <2> QED BY <2>2, <1>2, RowFacts
<1>5. ASSUME NEW h \in Seq(Messages), disk' = Append(disk, Checkpoint(h, "compact")) PROVE FALSE
  <2> DEFINE c == Checkpoint(h, "compact")
  <2>1. c \in Rows /\ c.kind = "compact" BY RowFacts DEF Rows
  <2>2. disk' = Append(disk, c) BY <1>5
  <2> HIDE DEF c
  <2>3. r = c BY <2>1, <2>2, <1>1, AppendProperties
  <2> QED BY <2>1, <2>3, <1>2
<1>6. CASE disk' \in Seq(Messages)
  <2>1. Len(disk') \in 1..Len(disk') BY <1>1, <1>2, <1>6
  <2>2. r \in Messages BY <2>1, <1>6
  <2> QED BY <2>2, <1>2, RowFacts
<1>7. CASE disk' = Append(disk, Partial)
  <2>1. Partial \in Rows BY RowFacts
  <2>2. r = Partial BY <2>1, <1>1, <1>7, AppendProperties
  <2> QED BY <2>2, <1>2, RowFacts
<1> QED BY <1>3, <1>4, <1>5, <1>6, <1>7

(* A repair leaves the end of what would have been sent, from a turn of the  *)
(* user on, the last at the latest.                                         *)
THEOREM RepairsKeepLastTurn == Spec => RepairKeepsLastTurn
<1>1. ASSUME IInv, [Next]_vars PROVE [KeepsLastTurn]_vars
  <2>1. /\ memory \in Seq(Messages) /\ disk \in Seq(Rows) /\ due \in Seq(CallIds)
        /\ up => Effective(disk) = memory
    BY <1>1 DEF IInv, TypeOK, ResumeAgrees
  <2>2. CASE UserMessage
    <3>1. PICK kind \in {"real", "hidden"} : disk' = Append(disk, User(kind))
      BY <2>2 DEF UserMessage, Records, Written
    <3> QED BY <3>1, <1>1, UserIsMessage, NoRepairStep
  <2>3. CASE AssistantMessage
    <3>1. PICK calls \in CallLists, kind \in {"text", "empty"} :
            disk' = Append(disk, Assistant(calls, kind))
      BY <2>3 DEF AssistantMessage, Records, Written
    <3>2. calls \in Seq(CallIds) BY CallAssumption
    <3> QED BY <3>1, <3>2, <1>1, AssistantIsMessage, NoRepairStep
  <2>4. CASE RecordResult
    <3>1. due # <<>> /\ disk' = Append(disk, Result(Head(due), "real"))
      BY <2>4 DEF RecordResult, Records, Written
    <3>2. Head(due) \in CallIds BY <3>1, <2>1, HeadTailProperties
    <3>3. Result(Head(due), "real") \in Messages BY <3>2, ResultIsMessage
    <3> QED BY <3>1, <3>3, <1>1, NoRepairStep
  <2>5. CASE Compact
    <3>1. disk' = Append(disk, Checkpoint(memory', "compact"))
      BY <2>5 DEF Compact, Written
    <3>2. memory' \in Seq(Messages)
      BY <1>1, NextIInv DEF IInv, TypeOK
    <3> QED BY <3>1, <3>2, <1>1, NoRepairStep
  <2>6. CASE Repair
    <3>1. PICK target \in 1..(Tokens(memory) + 1) : memory' = Pruned(Recover(memory), target)
      BY <2>6 DEF Repair, Written
    <3>2. up /\ disk' = Append(disk, Checkpoint(memory', "repair"))
      BY <2>6 DEF Repair, Written
    <3>3. disk' = Append(disk, Checkpoint(Pruned(Recover(Effective(disk)), target), "repair"))
      BY <3>1, <3>2, <2>1
    <3> QED BY <3>3, <1>1, RepairStep
  <2>7. CASE RepairOnDisk
    <3>1. PICK target \in 1..(Tokens(Effective(disk)) + 1) :
            disk' = Append(disk, Checkpoint(Pruned(Recover(Effective(disk)), target), "repair"))
      BY <2>7 DEF RepairOnDisk, Written
    <3> QED BY <3>1, <1>1, RepairStep
  <2>8. CASE Rewind
    <3>1. disk' = memory' BY <2>8 DEF Rewind
    <3>2. memory' \in Seq(Messages)
      BY <1>1, NextIInv DEF IInv, TypeOK
    <3> QED BY <3>1, <3>2, <1>1, NoRepairStep
  <2>9. CASE Ends
    <3>1. disk' = disk BY <2>9 DEF Ends
    <3> QED BY <3>1, <1>1, NoRepairStep
  <2>10. CASE Resume
    <3>1. disk' = disk BY <2>10 DEF Resume
    <3> QED BY <3>1, <1>1, NoRepairStep
  <2>11. CASE SystemRow
    <3>1. disk' = Append(disk, System) BY <2>11 DEF SystemRow, Records, Written
    <3> QED BY <3>1, <1>1, SystemIsMessage, NoRepairStep
  <2>12. CASE DiesWriting
    <3>1. disk' = Append(disk, Partial) BY <2>12 DEF DiesWriting, Written
    <3> QED BY <3>1, <1>1, NoRepairStep
  <2>13. CASE UNCHANGED vars
    BY <2>13
  <2> QED BY <1>1, <2>2, <2>3, <2>4, <2>5, <2>6, <2>7, <2>8, <2>9, <2>10, <2>11, <2>12,
       <2>13 DEF Next
<1>2. Spec => [][KeepsLastTurn]_vars
  BY <1>1, Invariance, PTL DEF Spec
<1>3. [][KeepsLastTurn]_vars <=> RepairKeepsLastTurn
  BY DEF RepairKeepsLastTurn, KeepsLastTurn
<1> QED BY <1>2, <1>3

=============================================================================
