----------------------------- MODULE DataProofs -----------------------------
(* What the proofs of several modules need of data: least numbers, recursive *)
(* functions over numbers, sets put in order, and sums.                      *)
(*                                                                           *)
(* Induction over numbers goes by the least number for which a claim would   *)
(* fail.  A recursive function is well-defined, and keeps to sets that each  *)
(* of its steps keeps to, by Recursion and RecursionKeeps.                   *)
EXTENDS Sorting, FiniteSetTheorems, SequenceTheorems, NaturalsInduction, WellFoundedInduction, TLAPS

-----------------------------------------------------------------------------
(* Numbers.                                                                *)

\* A set of natural numbers has a least element.
LEMMA LeastNat ==
  ASSUME NEW S \in SUBSET Nat, S # {}
  PROVE  \E m \in S : \A y \in S : m <= y
<1>1. \E m \in S : \A y \in S : ~ (<<y, m>> \in OpToRel(<, Nat))
  BY NatLessThanWellFounded, WFMin
<1>2. ASSUME NEW m \in S, NEW y \in S, ~ (<<y, m>> \in OpToRel(<, Nat))
      PROVE  m <= y
  BY <1>2 DEF OpToRel
<1>3. QED
  BY <1>1, <1>2

\* What holds for 0 and from each number to the next holds for all up to N.
LEMMA ReachesAll ==
  ASSUME NEW N \in Nat, NEW S, 0 \in S, \A n \in 1..N : n - 1 \in S => n \in S
  PROVE  \A n \in 0..N : n \in S
<1> DEFINE missing == {n \in 0..N : n \notin S}
<1>1. SUFFICES ASSUME missing # {} PROVE FALSE
  OBVIOUS
<1>2. PICK m \in missing : \A y \in missing : m <= y
  <2>1. missing \in SUBSET Nat
    OBVIOUS
  <2> HIDE DEF missing
  <2>2. QED
    BY <1>1, <2>1, LeastNat
<1>3. m \in 1..N /\ m - 1 \in 0..N
  OBVIOUS
<1>4. m - 1 \notin missing
  BY <1>2, <1>3
<1>5. QED
  BY <1>3, <1>4

\* Induction over the numbers, as a fact about sets.
LEMMA NatReaches ==
  ASSUME NEW T, 0 \in T, \A n \in Nat : n \in T => n + 1 \in T
  PROVE  Nat \subseteq T
<1>1. SUFFICES ASSUME Nat \ T # {} PROVE FALSE
  OBVIOUS
<1>2. PICK m \in Nat \ T : \A n \in Nat \ T : m <= n
  <2>1. Nat \ T \subseteq Nat
    OBVIOUS
  <2>2. QED
    BY <1>1, <2>1, LeastNat
<1>3. m - 1 \in Nat /\ m - 1 \in T
  BY <1>2
<1>4. QED
  BY <1>2, <1>3

\* Min is an element of a set of moments that do not go back forever ...
LEMMA MinOfMoments ==
  ASSUME NEW a \in Int, NEW S \in SUBSET Int, S # {}, \A x \in S : a <= x
  PROVE  Min(S) \in S /\ \A y \in S : Min(S) <= y
<1> DEFINE T == {n \in Nat : a + n \in S}
<1>1. T # {}
  <2>1. PICK x \in S : TRUE
    OBVIOUS
  <2>2. x - a \in Nat /\ a + (x - a) = x
    BY <2>1
  <2>3. QED
    BY <2>2
<1>2. PICK m \in T : \A y \in T : m <= y
  <2> HIDE DEF T
  <2>1. T \in SUBSET Nat
    BY DEF T
  <2>2. QED
    BY <1>1, <2>1, LeastNat
<1>3. \A y \in S : a + m <= y
  <2> SUFFICES ASSUME NEW y \in S PROVE a + m <= y
    OBVIOUS
  <2>1. y - a \in Nat /\ a + (y - a) = y
    OBVIOUS
  <2>2. y - a \in T
    BY <2>1
  <2>3. m <= y - a
    BY <1>2, <2>2
  <2>4. QED
    BY <2>3
<1>4. a + m \in S
  OBVIOUS
<1>5. QED
  BY <1>3, <1>4 DEF Min

\* ... and Max of one that does not go on forever.
LEMMA MaxOfMoments ==
  ASSUME NEW b \in Int, NEW S \in SUBSET Int, S # {}, \A x \in S : x <= b
  PROVE  Max(S) \in S /\ \A y \in S : Max(S) >= y
<1> DEFINE T == {n \in Nat : b - n \in S}
<1>1. T # {}
  <2>1. PICK x \in S : TRUE
    OBVIOUS
  <2>2. b - x \in Nat /\ b - (b - x) = x
    BY <2>1
  <2>3. QED
    BY <2>2
<1>2. PICK m \in T : \A y \in T : m <= y
  <2> HIDE DEF T
  <2>1. T \in SUBSET Nat
    BY DEF T
  <2>2. QED
    BY <1>1, <2>1, LeastNat
<1>3. \A y \in S : b - m >= y
  <2> SUFFICES ASSUME NEW y \in S PROVE b - m >= y
    OBVIOUS
  <2>1. b - y \in Nat /\ b - (b - y) = y
    OBVIOUS
  <2>2. b - y \in T
    BY <2>1
  <2>3. m <= b - y
    BY <1>2, <2>2
  <2>4. QED
    BY <2>3
<1>4. b - m \in S
  OBVIOUS
<1>5. QED
  BY <1>3, <1>4 DEF Max

LEMMA MinOfTwo ==
  ASSUME NEW a \in Int, NEW b \in Int
  PROVE  /\ Min({a, b}) \in {a, b}
         /\ Min({a, b}) \in Int /\ Min({a, b}) <= a /\ Min({a, b}) <= b
<1>1. PICK l \in {a, b} : l <= a /\ l <= b
  <2>1. CASE a <= b
    BY <2>1
  <2>2. CASE b <= a
    BY <2>2
  <2>3. QED
    BY <2>1, <2>2
<1> DEFINE S == {a, b}
<1>2. S \in SUBSET Int /\ S # {} /\ l \in Int /\ \A x \in S : l <= x
  BY <1>1
<1> HIDE DEF S
<1>3. Min(S) \in S /\ \A y \in S : Min(S) <= y
  BY <1>2, MinOfMoments
<1>4. QED
  BY <1>2, <1>3 DEF S

LEMMA MaxOfTwo ==
  ASSUME NEW a \in Int, NEW b \in Int
  PROVE  /\ Max({a, b}) \in {a, b}
         /\ Max({a, b}) \in Int /\ Max({a, b}) >= a /\ Max({a, b}) >= b
<1>1. PICK u \in {a, b} : a <= u /\ b <= u
  <2>1. CASE a <= b
    BY <2>1
  <2>2. CASE b <= a
    BY <2>2
  <2>3. QED
    BY <2>1, <2>2
<1> DEFINE S == {a, b}
<1>2. S \in SUBSET Int /\ S # {} /\ u \in Int /\ \A x \in S : x <= u
  BY <1>1
<1> HIDE DEF S
<1>3. Max(S) \in S /\ \A y \in S : Max(S) >= y
  BY <1>2, MaxOfMoments
<1>4. QED
  BY <1>2, <1>3 DEF S

\* Finitely many numbers do not grow without end.
LEMMA BoundedImage ==
  ASSUME NEW P, IsFiniteSet(P), NEW f, \A p \in P : f[p] \in Int
  PROVE  \E b \in Nat : \A p \in P : f[p] <= b
<1> DEFINE n == Cardinality(P)
<1>1. n \in Nat /\ ExistsBijection(1..n, P)
  BY FS_CardinalityType
<1>2. PICK g : g \in Bijection(1..n, P)
  BY <1>1 DEF ExistsBijection
<1>3. /\ \A i \in 1..n : g[i] \in P
      /\ \A p \in P : \E i \in 1..n : g[i] = p
  BY <1>2 DEF Bijection, Injection, Surjection
<1> HIDE DEF n
<1> DEFINE fine == {k \in 0..n : \E b \in Nat : \A i \in 1..k : f[g[i]] <= b}
<1>4. 0 \in fine
  BY <1>1
<1>5. ASSUME NEW k \in 1..n, k - 1 \in fine PROVE k \in fine
  <2>1. PICK b \in Nat : \A i \in 1..(k - 1) : f[g[i]] <= b
    BY <1>5
  <2>2. f[g[k]] \in Int
    BY <1>3
  <2> DEFINE x == f[g[k]]
  <2>3. PICK c \in Nat : b <= c /\ x <= c
    <3> HIDE DEF x
    <3>1. x \in Int
      BY <2>2 DEF x
    <3>2. CASE x <= b
      BY <3>2
    <3>3. CASE ~(x <= b)
      <4>1. x \in Nat /\ b <= x
        BY <3>1, <3>3
      <4>2. QED
        BY <4>1
    <3>4. QED
      BY <3>2, <3>3
  <2>4. ASSUME NEW i \in 1..k PROVE f[g[i]] <= c
    <3>1. CASE i = k
      BY <2>3, <3>1
    <3>2. CASE i # k
      <4>1. i \in 1..(k - 1) /\ i \in 1..n
        BY <1>1, <3>2
      <4>2. f[g[i]] \in Int /\ f[g[i]] <= b
        BY <1>3, <2>1, <4>1
      <4>3. QED
        BY <2>3, <4>2
    <3>3. QED
      BY <3>1, <3>2
  <2>5. QED
    BY <1>1, <2>4
<1>6. n \in fine
  <2> HIDE DEF fine
  <2>1. \A k \in 0..n : k \in fine
    BY <1>1, <1>4, <1>5, ReachesAll
  <2>2. QED
    BY <1>1, <2>1
<1>7. PICK b \in Nat : \A i \in 1..n : f[g[i]] <= b
  BY <1>6
<1>8. QED
  BY <1>3, <1>7

\* The values of a function on finitely many arguments are finitely many.
LEMMA FiniteImage ==
  ASSUME NEW P, IsFiniteSet(P), NEW f
  PROVE  IsFiniteSet({f[p] : p \in P})
<1> DEFINE T == {f[p] : p \in P}
           g == [p \in P |-> f[p]]
<1>1. g \in [P -> T] /\ \A x \in T : \E p \in P : g[p] = x
  OBVIOUS
<1> HIDE DEF T, g
<1>2. g \in Surjection(P, T)
  BY <1>1 DEF Surjection
<1>3. IsFiniteSet(T)
  BY <1>2, FS_Surjection
<1>4. QED
  BY <1>3 DEF T

\* What holds of no element and of one more holds of a finite set.
LEMMA SetReaches ==
  ASSUME NEW S, IsFiniteSet(S), NEW T \in SUBSET (SUBSET S), {} \in T,
         \A s \in SUBSET S : \A x \in S \ s : s \in T => s \cup {x} \in T
  PROVE  S \in T
<1> DEFINE sizes == {Cardinality(s) : s \in (SUBSET S) \ T}
<1>1. \A s \in SUBSET S : IsFiniteSet(s) /\ Cardinality(s) \in Nat
  BY FS_Subset, FS_CardinalityType
<1>2. SUFFICES ASSUME S \notin T PROVE FALSE
  OBVIOUS
<1>3. sizes \in SUBSET Nat /\ sizes # {}
  BY <1>1, <1>2
<1>4. PICK m \in sizes : \A y \in sizes : m <= y
  <2> HIDE DEF sizes
  <2>1. QED
    BY <1>3, LeastNat
<1>5. PICK s \in (SUBSET S) \ T : Cardinality(s) = m
  BY <1>4
<1>6. PICK x \in s : TRUE
  <2>1. s # {}
    BY <1>5
  <2>2. QED
    BY <2>1
<1>7. Cardinality(s \ {x}) = Cardinality(s) - 1
  BY <1>1, <1>6, FS_RemoveElement
<1>8. s \ {x} \in T
  <2>1. Cardinality(s \ {x}) \notin sizes
    <3>1. m \in Nat /\ Cardinality(s \ {x}) = m - 1
      BY <1>3, <1>4, <1>5, <1>7
    <3> HIDE DEF sizes
    <3>2. QED
      BY <1>4, <3>1
  <2>2. QED
    BY <2>1
<1>9. (s \ {x}) \cup {x} = s /\ x \in S \ (s \ {x}) /\ s \ {x} \in SUBSET S
  BY <1>6
<1>10. s \in T
  BY <1>8, <1>9
<1>11. QED
  BY <1>5, <1>10

\* How many numbers of G are below x.
Rank(G, x) == Cardinality({y \in G : y < x})

\* Of finitely many numbers as many as there may be are among the first ones.
LEMMA FirstOnes ==
  ASSUME NEW G \in SUBSET Nat, IsFiniteSet(G), NEW k \in 0..Cardinality(G)
  PROVE  Cardinality({x \in G : Rank(G, x) < k}) = k
<1> DEFINE below(x) == {y \in G : y < x}
           firsts(n) == {x \in G : Rank(G, x) < n}
           N == Cardinality(G)
           S == {n \in 0..N : Cardinality(firsts(n)) = n}
<1>1. \A x \in G : x \in Nat
  OBVIOUS
<1>2. \A x \in G : IsFiniteSet(below(x))
  BY FS_Subset
<1>3. \A x \in G : Rank(G, x) \in Nat
  <2> TAKE x \in G
  <2>1. Rank(G, x) = Cardinality(below(x)) /\ IsFiniteSet(below(x))
    BY <1>2 DEF Rank
  <2> HIDE DEF below
  <2>2. QED
    BY <2>1, FS_CardinalityType
<1>4. ASSUME NEW x \in G, NEW y \in G, x < y PROVE Rank(G, x) < Rank(G, y)
  <2>1. below(x) \subseteq below(y)
    <3> SUFFICES ASSUME NEW z \in G, z < x PROVE z < y
      OBVIOUS
    <3>1. z \in Nat /\ x \in Nat /\ y \in Nat
      BY <1>1
    <3>2. QED
      BY <1>4, <3>1
  <2>2. x \in below(y) /\ x \notin below(x)
    <3>1. ~(x < x)
      BY <1>1
    <3>2. QED
      BY <1>4, <3>1
  <2>3. below(x) # below(y)
    BY <2>2
  <2>4. IsFiniteSet(below(x)) /\ IsFiniteSet(below(y))
    BY <1>2
  <2>5. Rank(G, x) = Cardinality(below(x)) /\ Rank(G, y) = Cardinality(below(y))
    BY DEF Rank
  <2> HIDE DEF below
  <2>6. Cardinality(below(x)) < Cardinality(below(y))
    BY <2>1, <2>3, <2>4, FS_Subset, FS_CardinalityType
  <2>7. QED
    BY <2>5, <2>6
<1>5. N \in Nat
  BY FS_CardinalityType
<1>6. \A n \in 0..N : IsFiniteSet(firsts(n)) /\ firsts(n) \subseteq G
  <2> TAKE n \in 0..N
  <2>1. firsts(n) \subseteq G
    OBVIOUS
  <2> HIDE DEF firsts
  <2>2. QED
    BY <2>1, FS_Subset
<1>7. 0 \in S
  <2>1. \A x \in G : ~(Rank(G, x) < 0)
    <3> TAKE x \in G
    <3>1. Rank(G, x) \in Nat
      BY <1>3
    <3>2. QED
      BY <3>1
  <2>2. firsts(0) = {}
    BY <2>1
  <2>3. QED
    BY <1>5, <2>2, FS_EmptySet
<1>8. ASSUME NEW n \in 1..N, n - 1 \in S PROVE n \in S
  <2> DEFINE A == firsts(n - 1)
             rest == G \ A
  <2>1. Cardinality(A) = n - 1 /\ A \subseteq G
    BY <1>8
  <2>2. rest # {} /\ rest \in SUBSET Nat
    <3>1. A # G
      <4> HIDE DEF A
      <4>1. QED
        BY <1>5, <2>1
    <3>2. QED
      BY <2>1, <3>1
  <2>3. PICK m \in rest : \A y \in rest : m <= y
    <3> HIDE DEF rest
    <3>1. QED
      BY <2>2, LeastNat
  <2>4. below(m) = A
    <3>1. ASSUME NEW x \in A PROVE x < m
      <4>1. x \in G /\ Rank(G, x) < n - 1 /\ m \in G /\ ~(Rank(G, m) < n - 1) /\ x # m
        BY <2>3
      <4>2. CASE m < x
        <5>1. Rank(G, m) < Rank(G, x)
          BY <1>4, <4>1, <4>2
        <5>2. Rank(G, m) \in Nat /\ Rank(G, x) \in Nat /\ n \in Nat
          BY <1>3, <1>5, <4>1
        <5>3. QED
          BY <4>1, <5>1, <5>2
      <4>3. QED
        BY <4>1, <4>2
    <3>2. ASSUME NEW x \in G, x < m PROVE x \in A
      BY <2>3, <3>2
    <3>3. QED
      BY <2>1, <3>1, <3>2
  <2>5. Rank(G, m) = n - 1 /\ m \in G /\ m \notin A
    BY <2>1, <2>3, <2>4 DEF Rank
  <2>6. firsts(n) = A \cup {m}
    <3>1. ASSUME NEW x \in firsts(n) PROVE x \in A \cup {m}
      <4>1. x \in G /\ Rank(G, x) < n
        BY <3>1
      <4>2. CASE x = m
        BY <4>2
      <4>3. CASE x # m
        <5>1. Rank(G, x) # Rank(G, m)
          <6>1. x < m \/ m < x
            BY <2>5, <4>1, <4>3
          <6>2. Rank(G, x) < Rank(G, m) \/ Rank(G, m) < Rank(G, x)
            BY <1>4, <2>5, <4>1, <6>1
          <6>3. Rank(G, m) \in Nat /\ Rank(G, x) \in Nat
            BY <1>3, <2>5, <4>1
          <6>4. QED
            BY <6>2, <6>3
        <5>2. Rank(G, x) < n - 1
          <6>1. Rank(G, x) \in Nat /\ n \in Nat
            BY <1>3, <1>5, <4>1
          <6>2. QED
            BY <2>5, <4>1, <5>1, <6>1
        <5>3. QED
          BY <4>1, <5>2
      <4>4. QED
        BY <4>2, <4>3
    <3>2. ASSUME NEW x \in A \cup {m} PROVE x \in firsts(n)
      <4>1. x \in G /\ (x = m \/ Rank(G, x) < n - 1) /\ Rank(G, x) \in Nat /\ n \in Nat
        <5>1. x \in G /\ (x = m \/ Rank(G, x) < n - 1)
          BY <2>1, <2>5, <3>2
        <5>2. QED
          BY <1>3, <1>5, <5>1
      <4>2. Rank(G, x) < n
        BY <2>5, <4>1
      <4>3. QED
        BY <4>1, <4>2
    <3> HIDE DEF A
    <3>3. QED
      BY <3>1, <3>2
  <2>7. Cardinality(firsts(n)) = n
    <3> HIDE DEF A
    <3>1. Cardinality(A \cup {m}) = Cardinality(A) + 1
      <4>1. IsFiniteSet(A)
        <5>1. n - 1 \in 0..N
          BY <1>5
        <5>2. QED
          BY <1>6, <5>1 DEF A
      <4>2. QED
        BY <2>5, <4>1, FS_AddElement
    <3>2. QED
      BY <2>1, <2>6, <3>1
  <2>8. QED
    BY <1>5, <2>7
<1>9. k \in S
  <2> HIDE DEF S, N
  <2>1. \A n \in 0..N : n \in S
    BY <1>5, <1>7, <1>8, ReachesAll
  <2>2. QED
    BY <2>1 DEF N
<1>10. QED
  BY <1>9

-----------------------------------------------------------------------------
(* Recursion over the numbers up to N.                                     *)

\* A recursive function keeps to the sets that each of its steps keeps to.
LEMMA RecursionKeeps ==
  ASSUME NEW N \in Nat, NEW S, NEW f, f[0] \in S[0], \A n \in 1..N : f[n - 1] \in S[n - 1] => f[n] \in S[n]
  PROVE  \A n \in 0..N : f[n] \in S[n]
<1> DEFINE fine == {n \in 0..N : f[n] \in S[n]}
<1>1. 0 \in fine
  OBVIOUS
<1>2. \A n \in 1..N : n - 1 \in fine => n \in fine
  OBVIOUS
<1> HIDE DEF fine
<1>3. \A n \in 0..N : n \in fine
  BY <1>1, <1>2, ReachesAll
<1>4. QED
  BY <1>3 DEF fine

\* The function that F builds step by step from base, up to k.
Builds(g, F, base, k) == \A n \in 0..k : g[n] = IF n = 0 THEN base ELSE F[<<g[n - 1], n>>]

\* What a recursive definition says of its function.
RunsTo(g, F, base, N) == g = [n \in 0..N |-> IF n = 0 THEN base ELSE F[<<g[n - 1], n>>]]

\* It exists, and it keeps to the sets that F keeps to.
LEMMA Recursion ==
  ASSUME NEW N \in Nat, NEW base, NEW F, NEW S, base \in S[0],
         \A n \in 1..N : \A s \in S[n - 1] : F[<<s, n>>] \in S[n]
  PROVE  \E g : RunsTo(g, F, base, N) /\ \A n \in 0..N : g[n] \in S[n]
<1> DEFINE solved == {k \in 0..N : \E g : Builds(g, F, base, k)}
<1>1. 0 \in solved
  <2>1. Builds([n \in 0..0 |-> base], F, base, 0)
    BY DEF Builds
  <2>2. QED
    BY <2>1
<1>2. ASSUME NEW k \in 1..N, k - 1 \in solved PROVE k \in solved
  <2>1. PICK g : Builds(g, F, base, k - 1)
    BY <1>2
  <2> DEFINE h == [n \in 0..k |-> IF n = k THEN F[<<g[k - 1], k>>] ELSE g[n]]
  <2>2. ASSUME NEW n \in 0..k PROVE h[n] = IF n = 0 THEN base ELSE F[<<h[n - 1], n>>]
    <3>1. CASE n = k
      <4>1. h[k - 1] = g[k - 1] /\ h[k] = F[<<g[k - 1], k>>] /\ k # 0
        OBVIOUS
      <4>2. QED
        BY <3>1, <4>1
    <3>2. CASE n = 0
      <4>1. h[0] = g[0] /\ 0 \in 0..(k - 1)
        OBVIOUS
      <4>2. g[0] = base
        BY <2>1, <4>1 DEF Builds
      <4>3. QED
        BY <3>2, <4>1, <4>2
    <3>3. CASE n # k /\ n # 0
      <4>1. n \in 0..(k - 1) /\ n - 1 \in 0..k /\ n - 1 # k
        BY <3>3
      <4>2. h[n] = g[n] /\ h[n - 1] = g[n - 1]
        BY <3>3, <4>1
      <4>3. g[n] = F[<<g[n - 1], n>>]
        BY <2>1, <3>3, <4>1 DEF Builds
      <4>4. QED
        BY <3>3, <4>2, <4>3
    <3>4. QED
      BY <3>1, <3>2, <3>3
  <2>3. Builds(h, F, base, k)
    <3> HIDE DEF h
    <3>1. QED
      BY <2>2 DEF Builds
  <2>4. QED
    BY <2>3
<1>3. N \in solved
  <2> HIDE DEF solved
  <2>1. \A n \in 0..N : n \in solved
    BY <1>1, <1>2, ReachesAll
  <2>2. QED
    BY <2>1
<1>4. PICK g : Builds(g, F, base, N)
  BY <1>3
<1> DEFINE h == [n \in 0..N |-> g[n]]
<1>5. ASSUME NEW n \in 0..N PROVE h[n] = IF n = 0 THEN base ELSE F[<<h[n - 1], n>>]
  <2>1. n # 0 => n - 1 \in 0..N
    OBVIOUS
  <2>2. QED
    BY <1>4, <2>1 DEF Builds
<1>6. h = [n \in 0..N |-> h[n]]
  OBVIOUS
<1> HIDE DEF h
<1>7. h = [n \in 0..N |-> IF n = 0 THEN base ELSE F[<<h[n - 1], n>>]]
  BY <1>5, <1>6
<1>8. \A n \in 0..N : h[n] \in S[n]
  <2>1. h[0] \in S[0]
    <3>1. 0 \in 0..N
      OBVIOUS
    <3>2. h[0] = base
      BY <1>5, <3>1
    <3>3. QED
      BY <3>2
  <2>2. ASSUME NEW n \in 1..N, h[n - 1] \in S[n - 1] PROVE h[n] \in S[n]
    <3>1. n \in 0..N /\ n # 0
      OBVIOUS
    <3>2. h[n] = F[<<h[n - 1], n>>]
      BY <1>5, <3>1
    <3>3. QED
      BY <2>2, <3>2
  <2>3. QED
    BY <2>1, <2>2, RecursionKeeps
<1>9. QED
  BY <1>7, <1>8 DEF RunsTo

-----------------------------------------------------------------------------
(* Sets put in order.                                                      *)

\* Where no element comes before itself by way of others, each set of slices
\* has a first one.
HasFirst(S, before) == \A T \in SUBSET S : T # {} => \E x \in T : \A y \in T : <<y, x>> \notin before

\* The first n of S in some order.
Lines(S, n) == {q \in [1..n -> S] : \A i, j \in 1..n : q[i] = q[j] => i = j}

\* Those in which nothing that comes before an element comes after it.
Ordered(S, before, n) ==
  {q \in Lines(S, n) : \A i \in 1..n : \A z \in S : (\A k \in 1..i : q[k] # z) => <<z, q[i]>> \notin before}

\* As long as a line does not name all of S, something is left.
LEMMA LineLeaves ==
  ASSUME NEW S, IsFiniteSet(S), NEW n \in 1..Cardinality(S), NEW q \in Lines(S, n - 1)
  PROVE  S \ ToSet(q) # {}
<1>1. Cardinality(S) \in Nat
  BY FS_CardinalityType
<1>2. SUFFICES ASSUME S \subseteq ToSet(q) PROVE FALSE
  OBVIOUS
<1>3. q \in [1..(n - 1) -> S] /\ DOMAIN q = 1..(n - 1)
  BY DEF Lines
<1>4. \A x \in S : \E i \in 1..(n - 1) : q[i] = x
  BY <1>2, <1>3 DEF ToSet
<1>5. q \in Surjection(1..(n - 1), S)
  BY <1>3, <1>4 DEF Surjection
<1>6. IsFiniteSet(1..(n - 1)) /\ Cardinality(1..(n - 1)) = n - 1
  BY <1>1, FS_Interval
<1>7. Cardinality(S) <= n - 1
  BY <1>5, <1>6, FS_Surjection
<1>8. QED
  BY <1>1, <1>7

\* A sorted line names each element once, and in order.
LEMMA SortedIs ==
  ASSUME NEW S, IsFiniteSet(S), NEW before, HasFirst(S, before)
  PROVE  /\ Sorted(S, before) \in Seq(S) /\ Len(Sorted(S, before)) = Cardinality(S)
         /\ Sorted(S, before) \in Lines(S, Cardinality(S))
         /\ \A i, j \in 1..Cardinality(S) : i < j => <<Sorted(S, before)[j], Sorted(S, before)[i]>> \notin before
         /\ ToSet(Sorted(S, before)) = S
<1> DEFINE N == Cardinality(S)
           Step(q) == Append(q, First(S \ ToSet(q), before))
           all == UNION {Ordered(S, before, n) : n \in 0..N}
           F == [p \in all \X (1..N) |-> Step(p[1])]
           line == CHOOSE f : f = [n \in 0..N |-> IF n = 0 THEN <<>> ELSE Step(f[n - 1])]
           L == [n \in 0..N |-> Ordered(S, before, n)]
<1>1. N \in Nat
  BY FS_CardinalityType
<1>2. ASSUME NEW n \in 1..N, NEW q \in Ordered(S, before, n - 1) PROVE Step(q) \in Ordered(S, before, n)
  <2> DEFINE x == First(S \ ToSet(q), before)
  <2>0. q \in Lines(S, n - 1)
    BY DEF Ordered
  <2>1. x \in S \ ToSet(q) /\ \A z \in S \ ToSet(q) : <<z, x>> \notin before
    <3>1. S \ ToSet(q) # {}
      BY <1>2, <2>0, LineLeaves
    <3>2. \E y \in S \ ToSet(q) : \A z \in S \ ToSet(q) : <<z, y>> \notin before
      BY <3>1 DEF HasFirst
    <3>3. QED
      BY <3>2 DEF First
  <2> HIDE DEF x
  <2>2. q \in [1..(n - 1) -> S] /\ \A i, j \in 1..(n - 1) : q[i] = q[j] => i = j
    BY <2>0 DEF Lines
  <2>3. n \in Nat \ {0} /\ n - 1 \in Nat
    BY <1>1
  <2>4. q \in Seq(S) /\ Len(q) = n - 1
    BY <2>2, <2>3
  <2>5. \A i \in 1..(n - 1) : q[i] # x
    BY <2>1, <2>2 DEF ToSet
  <2>6. Append(q, x) \in Seq(S) /\ Len(Append(q, x)) = n
    BY <2>1, <2>3, <2>4
  <2>7. \A i \in 1..n : Append(q, x)[i] = IF i = n THEN x ELSE q[i]
    BY <2>1, <2>3, <2>4
  <2>8. Append(q, x) \in [1..n -> S]
    <3>1. Append(q, x) \in [1..Len(Append(q, x)) -> S]
      BY <2>6, LenProperties
    <3>2. QED
      BY <2>6, <3>1
  <2>9. ASSUME NEW i \in 1..n, NEW j \in 1..n, Append(q, x)[i] = Append(q, x)[j] PROVE i = j
    <3>1. \A k \in 1..n : k # n => k \in 1..(n - 1)
      BY <2>3
    <3>2. QED
      BY <2>2, <2>5, <2>7, <2>9, <3>1
  <2>10. ASSUME NEW i \in 1..n, NEW z \in S, \A k \in 1..i : Append(q, x)[k] # z
         PROVE  <<z, Append(q, x)[i]>> \notin before
    <3>1. CASE i = n
      <4>1. z \notin ToSet(q)
        <5>1. \A k \in 1..(n - 1) : k \in 1..i /\ k \in 1..n /\ k # n
          BY <2>3, <3>1
        <5>2. \A k \in 1..(n - 1) : q[k] # z
          BY <2>7, <2>10, <5>1
        <5>3. QED
          BY <2>2, <5>2 DEF ToSet
      <4>2. QED
        BY <2>1, <2>7, <3>1, <4>1
    <3>2. CASE i # n
      <4>1. i \in 1..(n - 1) /\ \A k \in 1..i : k \in 1..n /\ k # n
        BY <2>3, <3>2
      <4>2. \A k \in 1..i : q[k] # z
        BY <2>7, <2>10, <4>1
      <4>3. <<z, q[i]>> \notin before
        BY <4>1, <4>2 DEF Ordered
      <4>4. QED
        BY <2>7, <3>2, <4>3
    <3>3. QED
      BY <3>1, <3>2
  <2>11. Append(q, x) \in Lines(S, n)
    BY <2>8, <2>9 DEF Lines
  <2>12. QED
    BY <2>10, <2>11 DEF Ordered, x
<1>3. <<>> \in L[0]
  BY <1>1 DEF Lines, Ordered
<1>4. \A n \in 1..N : \A q \in L[n - 1] : F[<<q, n>>] = Step(q) /\ Step(q) \in L[n]
  <2> SUFFICES ASSUME NEW n \in 1..N, NEW q \in L[n - 1] PROVE F[<<q, n>>] = Step(q) /\ Step(q) \in L[n]
    OBVIOUS
  <2>1. n - 1 \in 0..N /\ n \in 0..N
    BY <1>1
  <2>2. q \in Ordered(S, before, n - 1)
    BY <2>1
  <2>3. <<q, n>> \in all \X (1..N)
    BY <2>1, <2>2
  <2>4. Step(q) \in Ordered(S, before, n)
    BY <1>2, <2>2
  <2> HIDE DEF Step, all
  <2>5. QED
    BY <2>1, <2>3, <2>4
<1> HIDE DEF N, Step, F, L, all
<1>5. PICK g : RunsTo(g, F, <<>>, N) /\ \A n \in 0..N : g[n] \in L[n]
  <2>1. \A n \in 1..N : \A q \in L[n - 1] : F[<<q, n>>] \in L[n]
    BY <1>4
  <2>2. QED
    BY <1>1, <1>3, <2>1, Recursion
<1>6. \A n \in 1..N : F[<<g[n - 1], n>>] = Step(g[n - 1])
  BY <1>1, <1>4, <1>5
<1>7. g = [n \in 0..N |-> IF n = 0 THEN <<>> ELSE Step(g[n - 1])]
  <2>1. [n \in 0..N |-> IF n = 0 THEN <<>> ELSE F[<<g[n - 1], n>>]] = [n \in 0..N |-> IF n = 0 THEN <<>> ELSE Step(g[n - 1])]
    BY <1>1, <1>6
  <2>2. QED
    BY <1>5, <2>1 DEF RunsTo
<1>8. line = [n \in 0..N |-> IF n = 0 THEN <<>> ELSE Step(line[n - 1])]
  BY <1>7
<1> HIDE DEF line
<1>9. \A n \in 0..N : line[n] \in L[n]
  <2>1. line[0] \in L[0]
    BY <1>1, <1>3, <1>8
  <2>2. ASSUME NEW n \in 1..N, line[n - 1] \in L[n - 1] PROVE line[n] \in L[n]
    <3>1. line[n] = Step(line[n - 1])
      BY <1>1, <1>8
    <3>2. QED
      BY <1>4, <2>2, <3>1
  <2>3. QED
    BY <1>1, <2>1, <2>2, RecursionKeeps
<1>10. Sorted(S, before) = line[N]
  BY DEF Sorted, line, Step, N
<1>11. line[N] \in Ordered(S, before, N) /\ line[N] \in Lines(S, N)
  BY <1>1, <1>9 DEF L, Ordered
<1> DEFINE q == line[N]
<1>12. q \in [1..N -> S]
  BY <1>11 DEF Lines
<1>13. q \in Seq(S) /\ Len(q) = N
  BY <1>1, <1>12
<1>14. ToSet(q) = S
  <2>1. ToSet(q) \subseteq S
    BY <1>12 DEF ToSet
  <2>2. q \in Injection(1..N, S)
    BY <1>11 DEF Lines, Injection, IsInjective
  <2>3. IsFiniteSet(1..N) /\ Cardinality(1..N) = N
    BY <1>1, FS_Interval
  <2>4. q \in Surjection(1..N, S)
    BY <2>2, <2>3, FS_Injection DEF N
  <2>5. QED
    BY <2>1, <2>4 DEF Surjection, ToSet
<1>15. ASSUME NEW i \in 1..N, NEW j \in 1..N, i < j PROVE <<q[j], q[i]>> \notin before
  <2>1. q[j] \in S /\ \A k \in 1..i : k \in 1..N /\ k # j
    BY <1>1, <1>12, <1>15
  <2>2. \A k \in 1..i : q[k] # q[j]
    BY <1>11, <2>1 DEF Lines
  <2>3. QED
    BY <1>11, <2>1, <2>2 DEF Ordered
<1>16. QED
  BY <1>10, <1>11, <1>13, <1>14, <1>15 DEF N

-----------------------------------------------------------------------------
(* Sums.                                                                   *)

\* Two functions that agree on a set have the same sum on it: the recursive
\* functions that add them up are the same.
LEMMA SumAgrees ==
  ASSUME NEW f, NEW g, NEW S, \A x \in S : f[x] = g[x]
  PROVE  SumFunctionOnSet(f, S) = SumFunctionOnSet(g, S)
<1> DEFINE some(s) == CHOOSE x \in s : TRUE
           F(sum) == [s \in SUBSET S |-> IF s = {} THEN 0
                                         ELSE f[some(s)] + sum[s \ {some(s)}]]
           G(sum) == [s \in SUBSET S |-> IF s = {} THEN 0
                                         ELSE g[some(s)] + sum[s \ {some(s)}]]
           sumF == CHOOSE sum : sum = F(sum)
           sumG == CHOOSE sum : sum = G(sum)
<1>1. SumFunctionOnSet(f, S) = sumF[S]
  BY DEF SumFunctionOnSet, FoldFunctionOnSet, MapThenFoldSet
<1>2. SumFunctionOnSet(g, S) = sumG[S]
  BY DEF SumFunctionOnSet, FoldFunctionOnSet, MapThenFoldSet
<1>3. \A sum : F(sum) = G(sum)
  <2>1. ASSUME NEW s \in SUBSET S, s # {} PROVE f[some(s)] = g[some(s)]
    <3>1. some(s) \in s
      BY <2>1
    <3>2. QED
      BY <3>1
  <2>2. QED
    BY <2>1
<1> HIDE DEF F, G
<1>4. sumF = sumG
  BY <1>3
<1>5. QED
  BY <1>1, <1>2, <1>4

\* One step of the fold that adds f up over s, g being the sums of smaller sets.
Rec(f, g, s) == IF s = {} THEN 0
                ELSE f[CHOOSE x \in s : TRUE] + g[s \ {CHOOSE x \in s : TRUE}]

\* The subsets of S with at most n elements.
Sized(S, n) == {s \in SUBSET S : Cardinality(s) <= n}

\* A function that adds f up over the subsets of a finite set exists.
LEMMA IterExists ==
  ASSUME NEW f, NEW S, IsFiniteSet(S)
  PROVE  \E g : g = [s \in SUBSET S |-> Rec(f, g, s)]
<1> DEFINE Solved == {n \in Nat : \E g : \A s \in Sized(S, n) : g[s] = Rec(f, g, s)}
<1>0. \A s \in SUBSET S : IsFiniteSet(s) /\ Cardinality(s) \in Nat /\ Cardinality(s) <= Cardinality(S)
  BY FS_Subset, FS_CardinalityType
<1>1. 0 \in Solved
  <2>1. \A s \in Sized(S, 0) : s = {}
    BY <1>0, FS_EmptySet DEF Sized
  <2>2. \A s \in Sized(S, 0) : [t \in SUBSET S |-> 0][s] = Rec(f, [t \in SUBSET S |-> 0], s)
    BY <2>1 DEF Rec, Sized
  <2>3. QED
    BY <2>2
<1>2. \A n \in Nat : n \in Solved => n + 1 \in Solved
  <2> SUFFICES ASSUME NEW n \in Nat, n \in Solved PROVE n + 1 \in Solved
    OBVIOUS
  <2>1. PICK g : \A s \in Sized(S, n) : g[s] = Rec(f, g, s)
    OBVIOUS
  <2> DEFINE h == [s \in Sized(S, n + 1) |-> Rec(f, g, s)]
  <2>2. Sized(S, n) \subseteq Sized(S, n + 1)
    BY <1>0 DEF Sized
  <2>3. \A s \in Sized(S, n) : h[s] = g[s]
    BY <2>1, <2>2
  <2>4. \A s \in Sized(S, n + 1) : s # {} => s \ {CHOOSE x \in s : TRUE} \in Sized(S, n)
    <3> SUFFICES ASSUME NEW s \in Sized(S, n + 1), s # {}
                 PROVE  s \ {CHOOSE x \in s : TRUE} \in Sized(S, n)
      OBVIOUS
    <3> DEFINE x == CHOOSE x \in s : TRUE
    <3>1. x \in s
      OBVIOUS
    <3> HIDE DEF x
    <3>2. IsFiniteSet(s) /\ Cardinality(s) \in Nat /\ Cardinality(s) <= n + 1
      BY <1>0 DEF Sized
    <3>3. Cardinality(s \ {x}) = Cardinality(s) - 1
      BY <3>1, <3>2, FS_RemoveElement
    <3>4. s \ {x} \in Sized(S, n)
      BY <3>2, <3>3 DEF Sized
    <3>5. QED
      BY <3>4 DEF x
  <2> HIDE DEF h
  <2>5. \A s \in Sized(S, n + 1) : Rec(f, g, s) = Rec(f, h, s)
    <3> TAKE s \in Sized(S, n + 1)
    <3>1. CASE s = {}
      BY <3>1 DEF Rec
    <3>2. CASE s # {}
      <4>1. h[s \ {CHOOSE x \in s : TRUE}] = g[s \ {CHOOSE x \in s : TRUE}]
        BY <2>3, <2>4, <3>2
      <4>2. QED
        BY <4>1, <3>2 DEF Rec
    <3>3. QED
      BY <3>1, <3>2
  <2>6. \A s \in Sized(S, n + 1) : h[s] = Rec(f, h, s)
    BY <2>5 DEF h
  <2>7. QED
    BY <2>6
<1>3. Cardinality(S) \in Solved
  <2>1. Nat \subseteq Solved
    BY <1>1, <1>2, NatReaches
  <2>2. QED
    BY <2>1, FS_CardinalityType
<1>4. PICK g : \A s \in Sized(S, Cardinality(S)) : g[s] = Rec(f, g, s)
  BY <1>3
<1>5. Sized(S, Cardinality(S)) = SUBSET S
  BY <1>0 DEF Sized
<1> DEFINE h == [s \in SUBSET S |-> g[s]]
<1>6. \A s \in SUBSET S : Rec(f, g, s) = Rec(f, h, s)
  BY DEF Rec
<1>7. h = [s \in SUBSET S |-> Rec(f, h, s)]
  BY <1>4, <1>5, <1>6
<1>8. QED
  BY <1>7

\* The sums over subsets of S, as the fold chooses them.
Iter(f, S) == CHOOSE g : g = [s \in SUBSET S |-> Rec(f, g, s)]

LEMMA IterUnfolds ==
  ASSUME NEW f, NEW S, IsFiniteSet(S)
  PROVE  \A s \in SUBSET S : Iter(f, S)[s] = Rec(f, Iter(f, S), s)
<1>1. Iter(f, S) = [s \in SUBSET S |-> Rec(f, Iter(f, S), s)]
  BY IterExists DEF Iter
<1>2. QED
  BY <1>1

LEMMA SumIsIter == \A f, S : SumFunctionOnSet(f, S) = Iter(f, S)[S]
BY DEF SumFunctionOnSet, FoldFunctionOnSet, MapThenFoldSet, Iter, Rec

LEMMA SumOverEmpty == \A f : SumFunctionOnSet(f, {}) = 0
BY SumIsIter, IterUnfolds, FS_EmptySet DEF Rec

\* Iter(f, S) and Iter(f, T) agree where both are defined.
LEMMA IterAgrees ==
  ASSUME NEW f, NEW S, IsFiniteSet(S), NEW T \in SUBSET S
  PROVE  \A s \in SUBSET T : Iter(f, T)[s] = Iter(f, S)[s]
<1> DEFINE Bad == {Cardinality(s) : s \in {u \in SUBSET T : Iter(f, T)[u] # Iter(f, S)[u]}}
<1>0. IsFiniteSet(T)
  BY FS_Subset
<1>1. \A s \in SUBSET T : IsFiniteSet(s) /\ Cardinality(s) \in Nat
  BY <1>0, FS_Subset, FS_CardinalityType
<1>2. Bad \subseteq Nat
  BY <1>1
<1>3. SUFFICES ASSUME Bad # {} PROVE FALSE
  OBVIOUS
<1>4. PICK m \in Bad : \A n \in Bad : m <= n
  BY <1>2, <1>3, LeastNat
<1>5. PICK s \in SUBSET T : Cardinality(s) = m /\ Iter(f, T)[s] # Iter(f, S)[s]
  BY <1>4
<1> DEFINE x == CHOOSE x \in s : TRUE
<1>6. Iter(f, T)[s] = Rec(f, Iter(f, T), s) /\ Iter(f, S)[s] = Rec(f, Iter(f, S), s)
  BY <1>0, IterUnfolds
<1>7. s # {}
  BY <1>5, <1>6 DEF Rec
<1>8. x \in s
  BY <1>7
<1>9. Iter(f, T)[s] = f[x] + Iter(f, T)[s \ {x}] /\ Iter(f, S)[s] = f[x] + Iter(f, S)[s \ {x}]
  BY <1>6, <1>7 DEF Rec
<1> HIDE DEF x
<1>10. Cardinality(s \ {x}) = Cardinality(s) - 1
  BY <1>1, <1>8, FS_RemoveElement
<1>11. Cardinality(s \ {x}) \notin Bad
  BY <1>1, <1>4, <1>5, <1>10
<1>12. Iter(f, T)[s \ {x}] = Iter(f, S)[s \ {x}]
  BY <1>11
<1>13. QED
  BY <1>5, <1>9, <1>12

\* The sum over a subset is what the larger fold has for it.
LEMMA SumsWithin ==
  ASSUME NEW f, NEW S, IsFiniteSet(S), NEW T \in SUBSET S
  PROVE  SumFunctionOnSet(f, T) = Iter(f, S)[T]
BY SumIsIter, IterAgrees

\* Sums of integers are integers, and any element may be taken out first.
LEMMA SumTakesOut ==
  ASSUME NEW f, NEW S, IsFiniteSet(S), \A x \in S : f[x] \in Int
  PROVE  /\ SumFunctionOnSet(f, S) \in Int
         /\ \A x \in S : SumFunctionOnSet(f, S) = f[x] + SumFunctionOnSet(f, S \ {x})
<1> DEFINE it == Iter(f, S)
           Fine(s) == it[s] \in Int /\ \A x \in s : it[s] = f[x] + it[s \ {x}]
           Bad == {Cardinality(s) : s \in {u \in SUBSET S : ~ Fine(u)}}
<1>1. \A s \in SUBSET S : IsFiniteSet(s) /\ Cardinality(s) \in Nat
  BY FS_Subset, FS_CardinalityType
<1>2. Bad \subseteq Nat
  BY <1>1
<1>3. ASSUME Bad # {} PROVE FALSE
  <2>4. PICK m \in Bad : \A n \in Bad : m <= n
    BY <1>2, <1>3, LeastNat
  <2>5. PICK s \in SUBSET S : Cardinality(s) = m /\ ~ Fine(s)
    BY <2>4
  <2>6. \A x \in s : Fine(s \ {x})
    <3> TAKE x \in s
    <3>1. Cardinality(s \ {x}) = Cardinality(s) - 1
      BY <1>1, FS_RemoveElement
    <3>2. Cardinality(s \ {x}) \notin Bad
      BY <1>1, <2>4, <2>5, <3>1
    <3>3. QED
      BY <3>2
  <2>7. it[s] = Rec(f, it, s)
    BY IterUnfolds
  <2>8. s # {}
    BY <2>5, <2>7 DEF Rec
  <2> DEFINE y == CHOOSE y \in s : TRUE
  <2>9. y \in s
    BY <2>8
  <2>10. it[s] = f[y] + it[s \ {y}]
    BY <2>7, <2>8 DEF Rec
  <2> HIDE DEF y, it
  <2>11. it[s] \in Int
    <3>1. f[y] \in Int /\ it[s \ {y}] \in Int
      BY <2>6, <2>9
    <3>2. QED
      BY <2>10, <3>1
  <2>12. \A x \in s : it[s] = f[x] + it[s \ {x}]
    <3> SUFFICES ASSUME NEW x \in s, x # y PROVE it[s] = f[x] + it[s \ {x}]
      BY <2>10
    <3>1. it[s \ {y}] = f[x] + it[(s \ {y}) \ {x}] /\ it[s \ {x}] = f[y] + it[(s \ {x}) \ {y}]
      BY <2>6, <2>9
    <3>2. (s \ {y}) \ {x} = (s \ {x}) \ {y}
      OBVIOUS
    <3>3. Cardinality((s \ {x}) \ {y}) < Cardinality(s)
      <4>1. Cardinality(s \ {x}) = Cardinality(s) - 1
        BY <1>1, FS_RemoveElement
      <4>2. Cardinality((s \ {x}) \ {y}) = Cardinality(s \ {x}) - 1
        BY <1>1, <2>9, FS_RemoveElement
      <4>3. QED
        BY <1>1, <4>1, <4>2
    <3>4. it[(s \ {x}) \ {y}] \in Int
      BY <1>1, <2>4, <2>5, <3>3
    <3>5. f[x] \in Int /\ f[y] \in Int
      BY <2>9
    <3>6. it[s \ {y}] = f[x] + it[(s \ {x}) \ {y}]
      BY <3>1, <3>2
    <3>7. f[y] + (f[x] + it[(s \ {x}) \ {y}]) = f[x] + (f[y] + it[(s \ {x}) \ {y}])
      BY <3>4, <3>5
    <3>8. QED
      BY <2>10, <3>1, <3>6, <3>7
  <2>13. QED
    BY <2>5, <2>11, <2>12
<1>4. Fine(S)
  BY <1>3
<1>5. \A x \in S : SumFunctionOnSet(f, S \ {x}) = it[S \ {x}]
  BY SumsWithin
<1>6. SumFunctionOnSet(f, S) = it[S]
  BY SumIsIter
<1>7. QED
  BY <1>4, <1>5, <1>6

\* The sum with one element more.
LEMMA SumPutsIn ==
  ASSUME NEW f, NEW s, IsFiniteSet(s), NEW x, x \notin s, \A y \in s \cup {x} : f[y] \in Int
  PROVE  /\ SumFunctionOnSet(f, s) \in Int /\ f[x] \in Int
         /\ SumFunctionOnSet(f, s \cup {x}) = f[x] + SumFunctionOnSet(f, s)
<1>1. IsFiniteSet(s \cup {x}) /\ (s \cup {x}) \ {x} = s
  BY FS_AddElement
<1>2. SumFunctionOnSet(f, s) \in Int
  BY SumTakesOut
<1>3. SumFunctionOnSet(f, s \cup {x}) = f[x] + SumFunctionOnSet(f, (s \cup {x}) \ {x})
  BY <1>1, SumTakesOut
<1>4. QED
  BY <1>1, <1>2, <1>3

\* Two sums are the sum of both.
LEMMA SumOfBoth ==
  ASSUME NEW S, IsFiniteSet(S), NEW f, NEW g, NEW h,
         \A x \in S : f[x] \in Int /\ g[x] \in Int /\ h[x] = f[x] + g[x]
  PROVE  SumFunctionOnSet(h, S) = SumFunctionOnSet(f, S) + SumFunctionOnSet(g, S)
<1> DEFINE sum(u, s) == SumFunctionOnSet(u, s)
           T == {s \in SUBSET S : sum(h, s) = sum(f, s) + sum(g, s)}
<1>1. {} \in T
  BY SumOverEmpty
<1>2. ASSUME NEW s \in SUBSET S, NEW x \in S \ s, s \in T PROVE s \cup {x} \in T
  <2>1. IsFiniteSet(s)
    BY FS_Subset
  <2>2. \A y \in s \cup {x} : f[y] \in Int /\ g[y] \in Int /\ h[y] \in Int
    OBVIOUS
  <2>3. sum(f, s) \in Int /\ f[x] \in Int /\ sum(f, s \cup {x}) = f[x] + sum(f, s)
    BY <2>1, <2>2, SumPutsIn
  <2>4. sum(g, s) \in Int /\ g[x] \in Int /\ sum(g, s \cup {x}) = g[x] + sum(g, s)
    BY <2>1, <2>2, SumPutsIn
  <2>5. sum(h, s) \in Int /\ sum(h, s \cup {x}) = h[x] + sum(h, s)
    BY <2>1, <2>2, SumPutsIn
  <2>6. sum(h, s) = sum(f, s) + sum(g, s) /\ h[x] = f[x] + g[x]
    BY <1>2
  <2> HIDE DEF sum
  <2>7. sum(h, s \cup {x}) = sum(f, s \cup {x}) + sum(g, s \cup {x})
    BY <2>3, <2>4, <2>5, <2>6
  <2>8. s \cup {x} \in SUBSET S
    OBVIOUS
  <2>9. QED
    BY <2>7, <2>8
<1>3. S \in T
  <2> HIDE DEF T
  <2>1. T \in SUBSET (SUBSET S)
    BY DEF T
  <2>2. QED
    BY <1>1, <1>2, <2>1, SetReaches
<1>4. QED
  BY <1>3

\* The same amount for some of the elements is added up as often as there are some.
LEMMA SumOfSame ==
  ASSUME NEW S, IsFiniteSet(S), NEW A \in SUBSET S, NEW c \in Int, NEW f, \A x \in S : f[x] = IF x \in A THEN c ELSE 0
  PROVE  SumFunctionOnSet(f, S) = c * Cardinality(A)
<1> DEFINE sum(s) == SumFunctionOnSet(f, s)
           T == {s \in SUBSET S : sum(s) = c * Cardinality(A \cap s)}
<1>1. {} \in T
  <2>1. A \cap {} = {} /\ Cardinality({}) = 0 /\ sum({}) = 0
    BY SumOverEmpty, FS_EmptySet
  <2> HIDE DEF sum
  <2>2. QED
    BY <2>1
<1>2. ASSUME NEW s \in SUBSET S, NEW x \in S \ s, s \in T PROVE s \cup {x} \in T
  <2> DEFINE n == Cardinality(A \cap s)
  <2>1. IsFiniteSet(s) /\ IsFiniteSet(A \cap s)
    BY FS_Subset
  <2>2. \A y \in s \cup {x} : f[y] \in Int
    OBVIOUS
  <2>3. sum(s) \in Int /\ f[x] \in Int /\ sum(s \cup {x}) = f[x] + sum(s)
    BY <2>1, <2>2, SumPutsIn
  <2>4. n \in Nat
    BY <2>1, FS_CardinalityType
  <2>5. sum(s) = c * n
    BY <1>2
  <2>6. CASE x \in A
    <3>1. A \cap (s \cup {x}) = (A \cap s) \cup {x} /\ x \notin A \cap s
      BY <2>6
    <3>2. Cardinality(A \cap (s \cup {x})) = n + 1
      BY <2>1, <3>1, FS_AddElement
    <3>3. f[x] = c
      BY <2>6
    <3> HIDE DEF sum, n
    <3>4. c * (n + 1) = c + c * n
      BY <2>4
    <3>5. QED
      BY <2>3, <2>5, <3>2, <3>3, <3>4
  <2>7. CASE x \notin A
    <3>1. A \cap (s \cup {x}) = A \cap s /\ f[x] = 0
      BY <2>7
    <3> HIDE DEF sum
    <3>2. sum(s \cup {x}) = sum(s)
      BY <2>3, <3>1
    <3>3. sum(s \cup {x}) = c * Cardinality(A \cap (s \cup {x}))
      BY <2>5, <3>1, <3>2
    <3>4. QED
      BY <3>3
  <2>8. QED
    BY <2>6, <2>7
<1>3. S \in T
  <2> HIDE DEF T
  <2>1. T \in SUBSET (SUBSET S)
    BY DEF T
  <2>2. QED
    BY <1>1, <1>2, <2>1, SetReaches
<1>4. A \cap S = A
  OBVIOUS
<1>5. QED
  BY <1>3, <1>4
=============================================================================
