------------------------------ MODULE WeekProofs ------------------------------
(* Planning light takes no time twice, loses no work and shows what is       *)
(* current: for any tasks, dependencies, buckets and plans.                  *)
(*                                                                           *)
(* The light plan is a chain of recursive functions: fill goes through the   *)
(* moments of a bucket, slides through the tasks, carries and placing        *)
(* through slices.  For each there is a set of states, indexed by how far    *)
(* the function has come, that the first one is in and that each step keeps  *)
(* to (Filled, SlidStates, Carrying, Placing, Packing); that the function is *)
(* well-defined and keeps to them follows from Recursion and RecursionKeeps. *)
(* Work is counted by sets (Moments, Work), so that no sum is needed.        *)
EXTENDS Week, DataProofs

-----------------------------------------------------------------------------
(* Orders.                                                                 *)

\* The latest of some times is one of them, or 0.
LEMMA LatestIs ==
  ASSUME NEW times \in SUBSET Int, NEW b \in Nat, \A x \in times : x <= b
  PROVE  Latest(times) \in Nat /\ Latest(times) \in times \cup {0} /\ \A x \in times : x <= Latest(times)
<1> DEFINE all == times \cup {0}
           above == {n \in Nat : \A x \in all : x <= n}
<1>1. above \in SUBSET Nat /\ b \in above
  OBVIOUS
<1>2. PICK top \in above : \A n \in above : top <= n
  <2> HIDE DEF above
  <2>1. QED
    BY <1>1, LeastNat
<1>3. top \in all
  <2>1. CASE top = 0
    BY <2>1
  <2>2. CASE top # 0
    <3>1. top - 1 \in Nat /\ top - 1 \notin above
      BY <1>2, <2>2
    <3>2. PICK x \in all : ~(x <= top - 1)
      BY <3>1
    <3>3. x \in Int /\ x <= top
      BY <1>2
    <3>4. x = top
      BY <3>2, <3>3
    <3>5. QED
      BY <3>4
  <2>3. QED
    BY <2>1, <2>2
<1>4. top \in times \cup {0} /\ \A x \in times \cup {0} : x <= top
  BY <1>2, <1>3
<1>5. Latest(times) \in times \cup {0} /\ \A x \in times \cup {0} : x <= Latest(times)
  BY <1>4 DEF Latest
<1>6. Latest(times) \in Int /\ 0 <= Latest(times)
  <2>1. times \cup {0} \subseteq Int /\ 0 \in times \cup {0}
    OBVIOUS
  <2>2. QED
    BY <1>5, <2>1
<1>7. QED
  BY <1>5, <1>6

\* Of some buckets one starts first.
LEMMA EarliestIs ==
  ASSUME NEW bs, NEW frames, bs # {}, \A b \in bs : frames[b].from \in Nat
  PROVE  Earliest(bs, frames) \in bs /\ \A c \in bs : frames[Earliest(bs, frames)].from <= frames[c].from
<1> DEFINE starts == {frames[b].from : b \in bs}
<1>1. starts \in SUBSET Nat /\ starts # {}
  OBVIOUS
<1>2. PICK m \in starts : \A y \in starts : m <= y
  <2> HIDE DEF starts
  <2>1. QED
    BY <1>1, LeastNat
<1>3. \E b \in bs : \A c \in bs : frames[b].from <= frames[c].from
  BY <1>2
<1>4. QED
  BY <1>3 DEF Earliest

-----------------------------------------------------------------------------
(* Free time.                                                              *)

\* Times that are not over when they begin.
Busy == {o \in Interval : o.from < o.to}

\* No two of some times overlap.
Apart(pieces) == \A p, q \in pieces : p # q => ~Overlap(p, q)

\* The interval between two times.
LEMMA SpanIs ==
  ASSUME NEW a \in Nat, NEW b \in Nat
  PROVE  Span(a, b) \in Interval /\ Span(a, b).from = a /\ Span(a, b).to = b
BY DEF Span, Interval

\* A gap ends where something begins, and all of it is free.
LEMMA GapIs ==
  ASSUME NEW u \in Nat, NEW until \in Nat, u < until, NEW occupied, Free(u, occupied)
  PROVE  \E b \in (u + 1)..until : /\ Gap(u, until, occupied) = Span(u, b)
                                   /\ \A v \in u..(b - 1) : Free(v, occupied)
<1> DEFINE ends == {k \in Nat : k >= 1 /\ u + k <= until /\ (u + k = until \/ ~Free(u + k, occupied))}
           Fine(b) == (b = until \/ ~Free(b, occupied)) /\ \A v \in u..(b - 1) : Free(v, occupied)
           end == CHOOSE b \in (u + 1)..until : Fine(b)
<1>1. until - u \in Nat /\ until - u >= 1 /\ u + (until - u) = until
  OBVIOUS
<1>2. until - u \in ends
  BY <1>1
<1>3. ends \in SUBSET Nat
  OBVIOUS
<1>4. PICK k \in ends : \A l \in ends : k <= l
  <2> HIDE DEF ends
  <2>1. QED
    BY <1>2, <1>3, LeastNat
<1>5. k \in Nat /\ k >= 1 /\ u + k <= until /\ (u + k = until \/ ~Free(u + k, occupied))
  OBVIOUS
<1>6. ASSUME NEW v \in u..((u + k) - 1) PROVE Free(v, occupied)
  <2>1. CASE v = u
    BY <2>1
  <2>2. CASE v # u
    <3>1. v - u \in Nat /\ v - u >= 1 /\ v - u < k /\ u + (v - u) = v /\ v <= until
      BY <1>5, <2>2
    <3>2. v - u \notin ends
      BY <1>4, <1>5, <3>1
    <3>3. QED
      BY <3>1, <3>2
  <2>3. QED
    BY <2>1, <2>2
<1>7. u + k \in (u + 1)..until /\ Fine(u + k)
  BY <1>5, <1>6
<1> HIDE DEF Fine, ends
<1>8. end \in (u + 1)..until /\ Fine(end)
  BY <1>7
<1>9. Gap(u, until, occupied) = Span(u, end)
  BY DEF Gap, Fine
<1> HIDE DEF end
<1>10. QED
  BY <1>8, <1>9 DEF Fine

\* What was filled when the gaps that begin before from + n have been looked at.
Filled(length, from, until, occupied, n) ==
  {s \in [pieces : SUBSET Busy, left : Nat] :
     /\ IsFiniteSet(s.pieces) /\ Apart(s.pieces)
     /\ IsFiniteSet(Moments(s.pieces)) /\ Cardinality(Moments(s.pieces)) + s.left = length
     /\ \A p \in s.pieces : /\ from <= p.from /\ p.from < from + n /\ p.to <= until
                            /\ \A v \in p.from..(p.to - 1) : Free(v, occupied)}

\* What was filled before a gap begins ends before it.
LEMMA EndsBeforeGap ==
  ASSUME NEW length \in Nat, NEW from \in Nat, NEW until \in Nat, NEW occupied, NEW n \in Nat \ {0},
         NEW s \in Filled(length, from, until, occupied, n - 1), GapBegins(from + n - 1, from, occupied),
         NEW p \in s.pieces
  PROVE  p.to <= (from + n) - 1
<1> DEFINE u == (from + n) - 1
<1>1. p \in Busy /\ from <= p.from /\ p.from < from + (n - 1)
  BY DEF Filled
<1>2. \A v \in p.from..(p.to - 1) : Free(v, occupied)
  BY DEF Filled
<1>3. p.from \in Nat /\ p.to \in Nat /\ u \in Nat /\ p.from < u /\ from + n - 1 = u
  BY <1>1 DEF Busy, Interval
<1>4. u = from \/ ~Free(u - 1, occupied)
  BY <1>3 DEF GapBegins
<1> HIDE DEF u
<1>5. u # from
  BY <1>1, <1>3
<1>6. ~(u - 1 \in p.from..(p.to - 1))
  BY <1>2, <1>4, <1>5
<1>7. p.to <= u
  BY <1>3, <1>6
<1>8. QED
  BY <1>7 DEF u

\* As many moments as units pass.
LEMMA MomentsOfSpan ==
  ASSUME NEW a \in Nat, NEW b \in Nat, a < b
  PROVE  IsFiniteSet(a..(b - 1)) /\ Cardinality(a..(b - 1)) = b - a
<1> DEFINE c == b - 1
<1>1. c \in Int /\ ~(a > c) /\ (c - a) + 1 = b - a
  OBVIOUS
<1> HIDE DEF c
<1>2. IsFiniteSet(a..c) /\ Cardinality(a..c) = IF a > c THEN 0 ELSE c - a + 1
  BY <1>1, FS_Interval
<1>3. IsFiniteSet(a..c) /\ Cardinality(a..c) = b - a
  BY <1>1, <1>2
<1>4. QED
  BY <1>3 DEF c

\* One piece more.
LEMMA OnePieceMore ==
  ASSUME NEW pieces \in SUBSET Busy, IsFiniteSet(pieces), Apart(pieces), IsFiniteSet(Moments(pieces)),
         NEW p \in Busy, \A q \in pieces : q.to <= p.from
  PROVE  /\ pieces \cup {p} \in SUBSET Busy /\ IsFiniteSet(pieces \cup {p}) /\ Apart(pieces \cup {p})
         /\ IsFiniteSet(Moments(pieces \cup {p}))
         /\ Cardinality(Moments(pieces \cup {p})) = Cardinality(Moments(pieces)) + (p.to - p.from)
<1>1. p.from \in Nat /\ p.to \in Nat /\ p.from < p.to
  BY DEF Busy, Interval
<1>2. \A q \in pieces : q.from \in Nat /\ q.to \in Nat /\ q.from < q.to
  BY DEF Busy, Interval
<1>3. \A q \in pieces : ~Overlap(p, q) /\ ~Overlap(q, p)
  BY <1>1, <1>2 DEF Overlap
<1>4. Apart(pieces \cup {p})
  BY <1>3 DEF Apart
<1>5. Moments(pieces \cup {p}) = Moments(pieces) \cup (p.from..(p.to - 1))
  BY DEF Moments
<1>6. Moments(pieces) \cap (p.from..(p.to - 1)) = {}
  <2> SUFFICES ASSUME NEW q \in pieces, NEW v \in q.from..(q.to - 1), v \in p.from..(p.to - 1) PROVE FALSE
    BY DEF Moments
  <2>1. v < q.to /\ v \in Int /\ q.to <= p.from /\ p.from <= v
    BY <1>1, <1>2
  <2>2. QED
    BY <1>1, <1>2, <2>1
<1>7. IsFiniteSet(p.from..(p.to - 1)) /\ Cardinality(p.from..(p.to - 1)) = p.to - p.from
  BY <1>1, MomentsOfSpan
<1> DEFINE A == Moments(pieces)
           B == p.from..(p.to - 1)
<1>8. IsFiniteSet(A) /\ IsFiniteSet(B) /\ A \cap B = {} /\ Cardinality(B) = p.to - p.from
  BY <1>6, <1>7
<1> HIDE DEF A, B
<1>9. IsFiniteSet(A \cup B) /\ Cardinality(A \cup B) = Cardinality(A) + Cardinality(B) - Cardinality(A \cap B)
  BY <1>8, FS_Union
<1>10. Cardinality(A) \in Nat /\ Cardinality(A \cap B) = 0
  BY <1>8, FS_CardinalityType, FS_EmptySet
<1>11. IsFiniteSet(A \cup B) /\ Cardinality(A \cup B) = Cardinality(A) + (p.to - p.from)
  BY <1>1, <1>8, <1>9, <1>10
<1>12. IsFiniteSet(pieces \cup {p})
  BY FS_AddElement
<1>13. QED
  BY <1>4, <1>5, <1>11, <1>12 DEF A, B

\* A gap keeps to what the pieces promise.
LEMMA TakeKeeps ==
  ASSUME NEW length \in Nat, NEW from \in Nat, NEW until \in Nat, NEW occupied, NEW n \in Nat \ {0},
         NEW s \in Filled(length, from, until, occupied, n - 1), GapBegins(from + n - 1, from, occupied),
         from + n <= until
  PROVE  Take(s, Gap(from + n - 1, until, occupied)) \in Filled(length, from, until, occupied, n)
<1> DEFINE u == (from + n) - 1
<1>1. u \in Nat /\ u < until /\ from + n - 1 = u /\ from <= u /\ u < from + n
  OBVIOUS
<1>2. Free(u, occupied)
  BY <1>1 DEF GapBegins
<1>3. \A q \in s.pieces : q.to <= u
  BY EndsBeforeGap
<1> HIDE DEF u
<1>4. PICK b \in (u + 1)..until : /\ Gap(u, until, occupied) = Span(u, b)
                                  /\ \A v \in u..(b - 1) : Free(v, occupied)
  BY <1>1, <1>2, GapIs
<1>5. b \in Nat /\ u < b /\ b <= until
  BY <1>1
<1> DEFINE size == b - u
           take == Smaller(size, s.left)
           gap == Gap(u, until, occupied)
           p == Span(u, u + take)
<1>6. gap.from = u /\ gap.to = b
  BY <1>1, <1>4, <1>5, SpanIs
<1>7. /\ s \in [pieces : SUBSET Busy, left : Nat]
      /\ IsFiniteSet(s.pieces) /\ Apart(s.pieces)
      /\ IsFiniteSet(Moments(s.pieces)) /\ Cardinality(Moments(s.pieces)) + s.left = length
      /\ \A q \in s.pieces : /\ from <= q.from /\ q.from < from + (n - 1) /\ q.to <= until
                             /\ \A v \in q.from..(q.to - 1) : Free(v, occupied)
  BY DEF Filled
<1>8. \A q \in s.pieces : q.from < from + n
  BY <1>1, <1>3, <1>7 DEF Busy, Interval
<1>9. CASE ~(s.left > 0 /\ (size >= MinSlice \/ size >= s.left))
  <2>1. Take(s, gap) = s
    BY <1>6, <1>9 DEF Take
  <2>2. s \in Filled(length, from, until, occupied, n)
    BY <1>7, <1>8 DEF Filled
  <2>3. QED
    BY <1>1, <2>1, <2>2
<1>10. CASE s.left > 0 /\ (size >= MinSlice \/ size >= s.left)
  <2>1. Take(s, gap) = [pieces |-> s.pieces \cup {p}, left |-> s.left - take]
    BY <1>6, <1>10 DEF Take
  <2>2. s.left \in Nat /\ size \in Nat /\ size > 0
    BY <1>1, <1>5, <1>7
  <2>3. take \in Nat /\ 0 < take /\ take <= size /\ take <= s.left
    BY <1>10, <2>2 DEF Smaller
  <2> HIDE DEF take
  <2>4. p \in Interval /\ p.from = u /\ p.to = u + take /\ u + take <= b /\ u < u + take
    BY <1>1, <1>5, <2>3, SpanIs
  <2>5. p \in Busy
    BY <2>4 DEF Busy
  <2> HIDE DEF p
  <2> DEFINE more == s.pieces \cup {p}
  <2>6. \A q \in s.pieces : q.to <= p.from
    BY <1>3, <2>4
  <2>7. /\ more \in SUBSET Busy /\ IsFiniteSet(more) /\ Apart(more) /\ IsFiniteSet(Moments(more))
        /\ Cardinality(Moments(more)) = Cardinality(Moments(s.pieces)) + (p.to - p.from)
    BY <1>7, <2>5, <2>6, OnePieceMore
  <2>8. ASSUME NEW q \in more
        PROVE  /\ from <= q.from /\ q.from < from + n /\ q.to <= until
               /\ \A v \in q.from..(q.to - 1) : Free(v, occupied)
    <3>1. CASE q \in s.pieces
      BY <1>7, <1>8, <3>1
    <3>2. CASE q = p
      <4>1. from <= q.from /\ q.from < from + n /\ q.to <= until
        BY <1>1, <1>5, <2>3, <2>4, <3>2
      <4>2. \A v \in q.from..(q.to - 1) : v \in u..(b - 1)
        BY <1>1, <1>5, <2>3, <2>4, <3>2
      <4>3. QED
        BY <1>4, <4>1, <4>2
    <3>3. QED
      BY <3>1, <3>2
  <2> DEFINE t == [pieces |-> more, left |-> s.left - take]
  <2>9. t.pieces = more /\ t.left = s.left - take /\ s.left - take \in Nat
    BY <2>2, <2>3
  <2>10. t \in [pieces : SUBSET Busy, left : Nat]
    BY <2>7, <2>9
  <2>11. Cardinality(Moments(more)) + (s.left - take) = length
    <3>1. Cardinality(Moments(s.pieces)) \in Nat /\ p.to - p.from = take
      BY <1>1, <1>7, <2>3, <2>4, FS_CardinalityType
    <3>2. QED
      BY <1>7, <2>2, <2>3, <2>7, <3>1
  <2> HIDE DEF more
  <2>12. t \in Filled(length, from, until, occupied, n)
    BY <2>7, <2>8, <2>9, <2>10, <2>11 DEF Filled
  <2>13. QED
    BY <1>1, <2>1, <2>12 DEF more
<1>11. QED
  BY <1>9, <1>10

\* fill: pieces in free time, apart, for the work that is not left over.
LEMMA FillIs ==
  ASSUME NEW length \in Nat, NEW from \in Nat, NEW until \in Nat, NEW occupied
  PROVE  \E n \in Nat : /\ Fill(length, from, until, occupied) \in Filled(length, from, until, occupied, n)
                        /\ from + n <= Larger(from, until)
<1> DEFINE N == Larger(0, until - from)
           none == [pieces |-> {}, left |-> length]
           Step(s, n) == IF GapBegins(from + n - 1, from, occupied)
                         THEN Take(s, Gap(from + n - 1, until, occupied)) ELSE s
           L == [n \in 0..N |-> Filled(length, from, until, occupied, n)]
           all == UNION {L[n] : n \in 0..N}
           F == [p \in all \X (1..N) |-> Step(p[1], p[2])]
           filled == CHOOSE f : f = [n \in 0..N |-> IF n = 0 THEN none
                                ELSE IF GapBegins(from + n - 1, from, occupied)
                                THEN Take(f[n - 1], Gap(from + n - 1, until, occupied)) ELSE f[n - 1]]
<1>1. N \in Nat /\ (N > 0 => from + N = until) /\ from + N <= Larger(from, until)
  BY DEF Larger
<1>2. none \in L[0]
  <2>1. Moments({}) = {} /\ IsFiniteSet({}) /\ Cardinality({}) = 0 /\ Apart({})
    BY FS_EmptySet DEF Moments, Apart
  <2>2. none.pieces = {} /\ none.left = length /\ none \in [pieces : SUBSET Busy, left : Nat]
    OBVIOUS
  <2> HIDE DEF none
  <2>3. /\ IsFiniteSet(none.pieces) /\ Apart(none.pieces) /\ IsFiniteSet(Moments(none.pieces))
        /\ Cardinality(Moments(none.pieces)) + none.left = length
    BY <2>1, <2>2
  <2>4. none \in Filled(length, from, until, occupied, 0)
    BY <2>2, <2>3 DEF Filled
  <2>5. QED
    BY <1>1, <2>4
<1>3. ASSUME NEW n \in 1..N, NEW s \in L[n - 1] PROVE Step(s, n) \in L[n]
  <2>1. n \in Nat \ {0} /\ n - 1 \in 0..N /\ n \in 0..N /\ from + n <= until
    BY <1>1
  <2>2. s \in Filled(length, from, until, occupied, n - 1)
    BY <2>1
  <2>3. CASE GapBegins(from + n - 1, from, occupied)
    <3>1. Take(s, Gap(from + n - 1, until, occupied)) \in Filled(length, from, until, occupied, n)
      BY <2>1, <2>2, <2>3, TakeKeeps
    <3>2. QED
      BY <2>1, <2>3, <3>1
  <2>4. CASE ~GapBegins(from + n - 1, from, occupied)
    <3>1. s \in Filled(length, from, until, occupied, n)
      BY <2>1, <2>2 DEF Filled, Busy, Interval
    <3>2. QED
      BY <2>1, <2>4, <3>1
  <2>5. QED
    BY <2>3, <2>4
<1>4. \A n \in 1..N : \A s \in L[n - 1] : F[<<s, n>>] = Step(s, n)
  <2> SUFFICES ASSUME NEW n \in 1..N, NEW s \in L[n - 1] PROVE F[<<s, n>>] = Step(s, n)
    OBVIOUS
  <2> HIDE DEF L, Step
  <2>1. n - 1 \in 0..N
    BY <1>1
  <2>2. <<s, n>> \in all \X (1..N)
    BY <2>1
  <2> HIDE DEF all
  <2>3. QED
    BY <2>2
<1> HIDE DEF N, none, L, all, F, Step
<1>5. \A n \in 1..N : \A s \in L[n - 1] : F[<<s, n>>] \in L[n]
  BY <1>3, <1>4
<1>6. PICK g : RunsTo(g, F, none, N) /\ \A n \in 0..N : g[n] \in L[n]
  BY <1>1, <1>2, <1>5, Recursion
<1>7. \A n \in 1..N : F[<<g[n - 1], n>>] = Step(g[n - 1], n)
  BY <1>1, <1>4, <1>6
<1>8. g = [n \in 0..N |-> IF n = 0 THEN none ELSE Step(g[n - 1], n)]
  <2>1. g = [n \in 0..N |-> IF n = 0 THEN none ELSE F[<<g[n - 1], n>>]]
    BY <1>6 DEF RunsTo
  <2>2. [n \in 0..N |-> IF n = 0 THEN none ELSE F[<<g[n - 1], n>>]]
          = [n \in 0..N |-> IF n = 0 THEN none ELSE Step(g[n - 1], n)]
    BY <1>1, <1>7
  <2>3. QED
    BY <2>1, <2>2
<1>9. filled = [n \in 0..N |-> IF n = 0 THEN none ELSE Step(filled[n - 1], n)]
  <2>1. filled = CHOOSE f : f = [n \in 0..N |-> IF n = 0 THEN none ELSE Step(f[n - 1], n)]
    BY DEF Step
  <2> HIDE DEF filled
  <2>2. QED
    BY <1>8, <2>1
<1> HIDE DEF filled
<1>10. \A n \in 0..N : filled[n] \in L[n]
  <2>1. filled[0] \in L[0]
    BY <1>1, <1>2, <1>9
  <2>2. ASSUME NEW n \in 1..N, filled[n - 1] \in L[n - 1] PROVE filled[n] \in L[n]
    <3>1. filled[n] = Step(filled[n - 1], n)
      BY <1>1, <1>9
    <3>2. QED
      BY <1>3, <2>2, <3>1
  <2>3. QED
    BY <1>1, <2>1, <2>2, RecursionKeeps
<1>11. Fill(length, from, until, occupied) = filled[N]
  BY DEF Fill, filled, N, none
<1>12. filled[N] \in Filled(length, from, until, occupied, N)
  BY <1>1, <1>10 DEF L
<1>13. QED
  BY <1>1, <1>11, <1>12

\* What fill promises: pieces of free time, apart from each other, of the work
\* that is not left over.
FitsIn(f, length, from, until, occupied) ==
  /\ f \in [pieces : SUBSET Busy, left : Nat] /\ IsFiniteSet(f.pieces)
  /\ IsFiniteSet(Moments(f.pieces)) /\ Cardinality(Moments(f.pieces)) + f.left = length
  /\ \A p \in f.pieces : /\ from <= p.from /\ p.to <= until
                         /\ \A o \in occupied : ~Overlap(p, o) /\ ~Overlap(o, p)
                         /\ \A q \in f.pieces : p # q => ~Overlap(p, q)

\* What fill has placed so far lies in time that was free.
LEMMA FilledFits ==
  ASSUME NEW length \in Nat, NEW from \in Nat, NEW until \in Nat, NEW occupied \in SUBSET Busy, NEW n \in Nat,
         NEW f \in Filled(length, from, until, occupied, n)
  PROVE  FitsIn(f, length, from, until, occupied)
<1>1. /\ f \in [pieces : SUBSET Busy, left : Nat] /\ IsFiniteSet(f.pieces) /\ Apart(f.pieces)
      /\ IsFiniteSet(Moments(f.pieces)) /\ Cardinality(Moments(f.pieces)) + f.left = length
      /\ \A p \in f.pieces : /\ from <= p.from /\ p.to <= until
                             /\ \A v \in p.from..(p.to - 1) : Free(v, occupied)
  BY DEF Filled
<1>2. ASSUME NEW p \in f.pieces, NEW o \in occupied PROVE ~Overlap(p, o) /\ ~Overlap(o, p)
  <2>1. p \in Busy /\ o \in Busy
    BY <1>1
  <2>2. p.from \in Nat /\ p.to \in Nat /\ o.from \in Nat /\ o.to \in Nat /\ p.from < p.to /\ o.from < o.to
    BY <2>1 DEF Busy, Interval
  <2>3. SUFFICES ASSUME p.from < o.to, o.from < p.to PROVE FALSE
    BY DEF Overlap
  <2>4. CASE p.from >= o.from
    <3>1. Free(p.from, occupied)
      BY <1>1, <2>2
    <3>2. QED
      BY <2>2, <2>3, <2>4, <3>1 DEF Free
  <2>5. CASE o.from > p.from
    <3>1. Free(o.from, occupied)
      BY <1>1, <2>2, <2>3, <2>5
    <3>2. QED
      BY <2>2, <3>1 DEF Free
  <2>6. QED
    BY <2>2, <2>4, <2>5
<1>3. QED
  BY <1>1, <1>2 DEF FitsIn, Apart

\* What it places in the end does as well.
LEMMA FillFits ==
  ASSUME NEW length \in Nat, NEW from \in Nat, NEW until \in Nat, NEW occupied \in SUBSET Busy
  PROVE  FitsIn(Fill(length, from, until, occupied), length, from, until, occupied)
BY FillIs, FilledFits

\* Nor do they take the time of some of what is occupied.
LEMMA FillFitsAround ==
  ASSUME NEW length \in Nat, NEW from \in Nat, NEW until \in Nat, NEW occupied \in SUBSET Busy, NEW more
  PROVE  FitsIn(Fill(length, from, until, occupied \cup more), length, from, until, occupied)
<1> DEFINE f == Fill(length, from, until, occupied \cup more)
<1>1. PICK n \in Nat : f \in Filled(length, from, until, occupied \cup more, n)
  BY FillIs
<1> HIDE DEF f
<1>2. \A v : Free(v, occupied \cup more) => Free(v, occupied)
  BY DEF Free
<1>3. f \in Filled(length, from, until, occupied, n)
  BY <1>1, <1>2 DEF Filled
<1>4. QED
  BY <1>3, FilledFits DEF f

-----------------------------------------------------------------------------
(* What is anchored.                                                       *)

\* Tasks as the light plan gets them at some moment.
TasksAt(list, time) ==
  /\ list \in [Task -> TaskRecord]
  /\ \A t \in Task : list[t].tracked <= time /\ (list[t].done => list[t].doneAt # NoTime)

\* What is shown where its task says.
Anchored == [task : Task, at : Busy]

\* What the fields of a task are.
LEMMA RecordIs ==
  ASSUME NEW list \in [Task -> TaskRecord], NEW t \in Task
  PROVE  /\ list[t].done \in BOOLEAN /\ list[t].appointment \in BOOLEAN /\ list[t].fixed \in BOOLEAN
         /\ list[t].unplanned \in BOOLEAN /\ list[t].start \in Nat \cup {NoTime} /\ list[t].doneAt \in Nat \cup {NoTime}
         /\ list[t].duration \in Nat /\ list[t].spent \in Nat /\ list[t].tracked \in Nat \cup {NoTime}
         /\ list[t].rest \in Nat /\ list[t].occurrence \in Nat \cup {NoTime}
<1>1. list[t] \in TaskRecord
  OBVIOUS
<1>2. QED
  BY <1>1 DEF TaskRecord

\* A task needs no negative work.
LEMMA NeededIs ==
  ASSUME NEW list \in [Task -> TaskRecord], NEW t \in Task, NEW rest, NEW time \in Nat
  PROVE  Needed(list[t], rest, time) \in Nat
BY RecordIs DEF Needed, Larger, NoTime

\* A task's block is a time of whole units.
LEMMA BlockIs ==
  ASSUME NEW list \in [Task -> TaskRecord], NEW t \in Task, NEW time \in Nat
  PROVE  BlockOf(list, t, time) \in Interval
<1> DEFINE task == list[t]
           left == Needed(task, FALSE, time)
<1>1. /\ task.start \in Nat \cup {NoTime} /\ task.tracked \in Nat \cup {NoTime} /\ task.duration \in Nat
      /\ left \in Nat
  BY RecordIs, NeededIs
<1>2. IsWorkedOn(list, t) => Span(task.tracked, time) \in Interval
  BY <1>1, SpanIs DEF IsWorkedOn
<1>3. IsTimed(list, t) => task.start \in Nat /\ task.start + task.duration \in Nat /\ task.start + left \in Nat
  <2> HIDE DEF left
  <2>1. IsTimed(list, t) => task.start # NoTime
    BY DEF IsTimed
  <2>2. QED
    BY <1>1, <2>1
<1>4. /\ IsTimed(list, t) => Span(task.start, task.start + task.duration) \in Interval
      /\ IsPinned(list, t) => Span(task.start, task.start + left) \in Interval
  <2> HIDE DEF left, task
  <2>1. IsPinned(list, t) => IsTimed(list, t)
    BY DEF IsPinned
  <2>2. QED
    BY <1>3, <2>1, SpanIs
<1>5. Span(0, 0) \in Interval
  BY SpanIs
<1> HIDE DEF task, left
<1>6. BlockOf(list, t, time) =
        IF IsWorkedOn(list, t) THEN Span(task.tracked, time)
        ELSE IF IsTimed(list, t) /\ task.appointment THEN Span(task.start, task.start + task.duration)
        ELSE IF IsPinned(list, t) /\ task.start >= time THEN Span(task.start, task.start + left)
        ELSE Span(0, 0)
  BY DEF BlockOf, task, left
<1>7. QED
  BY <1>2, <1>4, <1>5, <1>6

\* Only what takes time is anchored from the start.
LEMMA BlocksAre ==
  ASSUME NEW list \in [Task -> TaskRecord], NEW time \in Nat
  PROVE  Blocks(list, time) \in SUBSET Anchored /\ IsFiniteSet(Blocks(list, time))
<1> DEFINE f == [t \in Task |-> [task |-> t, at |-> BlockOf(list, t, time)]]
<1>1. DOMAIN list = Task
  OBVIOUS
<1>2. Blocks(list, time) \in SUBSET {f[t] : t \in Task}
  BY <1>1 DEF Blocks
<1>3. IsFiniteSet({f[t] : t \in Task})
  <2> HIDE DEF f
  <2>1. QED
    BY FiniteImage, LightPlanConstants
<1>4. IsFiniteSet(Blocks(list, time))
  <2> HIDE DEF f
  <2>1. QED
    BY <1>2, <1>3, FS_Subset
<1>5. Blocks(list, time) \subseteq Anchored
  BY <1>1, BlockIs DEF Blocks, Anchored, Busy
<1>6. QED
  BY <1>4, <1>5

\* What slides stays apart from everything before it.
SlidOver(s) ==
  /\ s.occupied \in SUBSET Busy /\ s.anchored \in SUBSET Anchored /\ IsFiniteSet(s.anchored)
  /\ s.overflow \in [Task -> Nat]
  /\ \A b \in s.anchored : b.at \in s.occupied

\* What Slid goes through.
SlidStates == {s \in [occupied : SUBSET Busy, anchored : SUBSET Anchored, overflow : [Task -> Nat]] : SlidOver(s)}

\* The end of a day lies after each moment of it.
LEMMA DayEnds ==
  ASSUME NEW time \in Nat
  PROVE  DayOf(time) \in Nat /\ (DayOf(time) + 1) * Day \in Nat /\ DayOf(time) * Day <= time
         /\ time < (DayOf(time) + 1) * Day
<1> DEFINE q == time \div Day
<1>1. Day \in Nat /\ Day > 0
  BY LightPlanConstants
<1>2. q \in Nat /\ time = Day * q + (time % Day) /\ time % Day \in 0..(Day - 1)
  BY <1>1
<1> HIDE DEF q
<1>3. Day * q = q * Day /\ (q + 1) * Day = q * Day + Day /\ q * Day \in Nat
  BY <1>1, <1>2
<1> DEFINE x == q * Day
           r == time % Day
<1>4. x \in Nat /\ time = x + r /\ r \in 0..(Day - 1) /\ (q + 1) * Day = x + Day
  BY <1>2, <1>3
<1> HIDE DEF x, r
<1>5. (q + 1) * Day \in Nat /\ x <= time /\ time < (q + 1) * Day
  BY <1>1, <1>4
<1>6. QED
  BY <1>2, <1>5 DEF DayOf, q, x

\* One more task slides.
LEMMA SlideKeeps ==
  ASSUME NEW list \in [Task -> TaskRecord], NEW t \in Task, NEW time \in Nat, NEW s \in SlidStates
  PROVE  Slide(s, list, t, time) \in SlidStates
<1> DEFINE length == Needed(list[t], FALSE, time)
           until == (DayOf(time) + 1) * Day
           f == Fill(length, time, until, s.occupied)
           new == {[task |-> t, at |-> p] : p \in f.pieces}
<1>1. length \in Nat /\ until \in Nat /\ s.occupied \in SUBSET Busy
  BY NeededIs, DayEnds DEF SlidStates, SlidOver
<1>2. FitsIn(f, length, time, until, s.occupied)
  <2> HIDE DEF length, until
  <2>1. QED
    BY <1>1, FillFits
<1>3. Slide(s, list, t, time) = [occupied |-> s.occupied \cup f.pieces, anchored |-> s.anchored \cup new,
                                 overflow |-> [s.overflow EXCEPT ![t] = f.left]]
  BY DEF Slide
<1> HIDE DEF f, length, until
<1>4. f.pieces \in SUBSET Busy /\ f.left \in Nat /\ IsFiniteSet(f.pieces)
  BY <1>2 DEF FitsIn
<1>5. new \in SUBSET Anchored /\ \A b \in new : b.at \in f.pieces
  BY <1>4 DEF Anchored
<1>6. IsFiniteSet(new)
  <2> DEFINE g == [p \in f.pieces |-> [task |-> t, at |-> p]]
  <2>1. new = {g[p] : p \in f.pieces}
    OBVIOUS
  <2> HIDE DEF g, new
  <2>2. QED
    BY <1>4, <2>1, FiniteImage
<1> HIDE DEF new
<1>7. SlidOver(s) /\ s.overflow \in [Task -> Nat]
  BY DEF SlidStates, SlidOver
<1>8. IsFiniteSet(s.anchored \cup new)
  BY <1>6, <1>7, FS_Union DEF SlidOver
<1> DEFINE next == [occupied |-> s.occupied \cup f.pieces, anchored |-> s.anchored \cup new,
                    overflow |-> [s.overflow EXCEPT ![t] = f.left]]
<1>9. /\ next.occupied = s.occupied \cup f.pieces /\ next.anchored = s.anchored \cup new
      /\ next.overflow \in [Task -> Nat]
      /\ next \in [occupied : SUBSET Busy, anchored : SUBSET Anchored, overflow : [Task -> Nat]]
  BY <1>4, <1>5, <1>7 DEF SlidOver
<1> HIDE DEF next
<1>10. SlidOver(next)
  BY <1>4, <1>5, <1>7, <1>8, <1>9 DEF SlidOver
<1>11. next \in SlidStates
  BY <1>9, <1>10 DEF SlidStates
<1>12. QED
  BY <1>3, <1>11 DEF next

\* What slides goes on where nothing else is.
LEMMA SlidIs ==
  ASSUME NEW list \in [Task -> TaskRecord], NEW slices, NEW time \in Nat, NEW order \in Seq(Task)
  PROVE  Slid(list, slices, time, order) \in SlidStates
<1> DEFINE N == Len(order)
           blocks == Blocks(list, time)
           none == [occupied |-> {b.at : b \in blocks}, anchored |-> blocks, overflow |-> [t \in DOMAIN list |-> 0]]
           Step(s, n) == IF order[n] \in Sliding(list, slices, time) THEN Slide(s, list, order[n], time) ELSE s
           L == [n \in 0..N |-> SlidStates]
           F == [p \in SlidStates \X (1..N) |-> Step(p[1], p[2])]
           slid == CHOOSE f : f = [n \in 0..N |-> IF n = 0 THEN none
                              ELSE IF order[n] \in Sliding(list, slices, time) THEN Slide(f[n - 1], list, order[n], time)
                              ELSE f[n - 1]]
<1>1. N \in Nat /\ \A n \in 1..N : order[n] \in Task
  OBVIOUS
<1>2. none \in L[0]
  <2>1. blocks \in SUBSET Anchored /\ IsFiniteSet(blocks)
    BY BlocksAre
  <2> HIDE DEF blocks
  <2>2. {b.at : b \in blocks} \in SUBSET Busy /\ [t \in DOMAIN list |-> 0] \in [Task -> Nat]
    BY <2>1 DEF Anchored
  <2>3. /\ none \in [occupied : SUBSET Busy, anchored : SUBSET Anchored, overflow : [Task -> Nat]]
        /\ none.occupied = {b.at : b \in blocks} /\ none.anchored = blocks /\ none.overflow \in [Task -> Nat]
    BY <2>1, <2>2
  <2> HIDE DEF none
  <2>4. SlidOver(none)
    BY <2>1, <2>2, <2>3 DEF SlidOver
  <2>5. none \in SlidStates
    BY <2>3, <2>4 DEF SlidStates
  <2>6. QED
    BY <1>1, <2>5
<1>3. ASSUME NEW n \in 1..N, NEW s \in SlidStates PROVE Step(s, n) \in SlidStates
  BY <1>1, SlideKeeps
<1>4. \A n \in 1..N : \A s \in SlidStates : F[<<s, n>>] = Step(s, n)
  <2> HIDE DEF Step
  <2>1. QED
    OBVIOUS
<1>5. \A n \in 0..N : L[n] = SlidStates
  OBVIOUS
<1> HIDE DEF N, none, L, F, Step
<1>6. \A n \in 1..N : n - 1 \in 0..N /\ n \in 0..N
  BY <1>1
<1>7. \A n \in 1..N : \A s \in L[n - 1] : F[<<s, n>>] \in L[n]
  BY <1>3, <1>4, <1>5, <1>6
<1>8. PICK g : RunsTo(g, F, none, N) /\ \A n \in 0..N : g[n] \in L[n]
  BY <1>1, <1>2, <1>7, Recursion
<1>9. g = [n \in 0..N |-> IF n = 0 THEN none ELSE Step(g[n - 1], n)]
  <2>1. g = [n \in 0..N |-> IF n = 0 THEN none ELSE F[<<g[n - 1], n>>]]
    BY <1>8 DEF RunsTo
  <2>2. \A n \in 1..N : F[<<g[n - 1], n>>] = Step(g[n - 1], n)
    BY <1>4, <1>5, <1>6, <1>8
  <2>3. [n \in 0..N |-> IF n = 0 THEN none ELSE F[<<g[n - 1], n>>]]
          = [n \in 0..N |-> IF n = 0 THEN none ELSE Step(g[n - 1], n)]
    BY <1>1, <2>2
  <2>4. QED
    BY <2>1, <2>3
<1>10. slid = [n \in 0..N |-> IF n = 0 THEN none ELSE Step(slid[n - 1], n)]
  <2>1. slid = CHOOSE f : f = [n \in 0..N |-> IF n = 0 THEN none ELSE Step(f[n - 1], n)]
    BY DEF Step
  <2> HIDE DEF slid
  <2>2. QED
    BY <1>9, <2>1
<1> HIDE DEF slid
<1>11. \A n \in 0..N : slid[n] \in L[n]
  <2>1. slid[0] \in L[0]
    BY <1>1, <1>2, <1>10
  <2>2. ASSUME NEW n \in 1..N, slid[n - 1] \in L[n - 1] PROVE slid[n] \in L[n]
    <3>1. slid[n] = Step(slid[n - 1], n)
      BY <1>1, <1>10
    <3>2. QED
      BY <1>3, <1>5, <1>6, <2>2, <3>1
  <2>3. QED
    BY <1>1, <2>1, <2>2, RecursionKeeps
<1>12. Slid(list, slices, time, order) = slid[N]
  BY DEF Slid, slid, N, none
<1>13. QED
  BY <1>1, <1>5, <1>11, <1>12

-----------------------------------------------------------------------------
(* The slices that are placed.                                             *)

\* A slice that has a bucket.
OpenSlice == [task : Task, rest : BOOLEAN, bucket : DOMAIN Frames, start : Nat, length : Nat, revived : BOOLEAN]

\* Among slices one starts first.
LEMMA StartsFirst ==
  ASSUME NEW S, \A s \in S : s.start \in Nat
  PROVE  HasFirst(S, {p \in S \X S : p[1].start < p[2].start})
<1> DEFINE before == {p \in S \X S : p[1].start < p[2].start}
<1>1. ASSUME NEW T \in SUBSET S, T # {} PROVE \E x \in T : \A y \in T : <<y, x>> \notin before
  <2> DEFINE starts == {s.start : s \in T}
  <2>1. starts \in SUBSET Nat /\ starts # {}
    BY <1>1
  <2>2. PICK m \in starts : \A k \in starts : m <= k
    <3> HIDE DEF starts
    <3>1. QED
      BY <2>1, LeastNat
  <2>3. PICK x \in T : x.start = m
    OBVIOUS
  <2>4. ASSUME NEW y \in T PROVE <<y, x>> \notin before
    <3>1. x.start <= y.start /\ x.start \in Nat /\ y.start \in Nat
      BY <2>2, <2>3
    <3>2. ~(y.start < x.start)
      BY <3>1
    <3>3. QED
      BY <3>2
  <2>5. QED
    BY <2>4
<1> HIDE DEF before
<1>2. HasFirst(S, before)
  BY <1>1 DEF HasFirst
<1>3. QED
  BY <1>2 DEF before

\* Slices sorted by their start are the same slices.
LEMMA ByStartIs ==
  ASSUME NEW S, IsFiniteSet(S), \A s \in S : s.start \in Nat
  PROVE  ByStart(S) \in Seq(S) /\ ToSet(ByStart(S)) = S /\ ByStart(S) \in Lines(S, Cardinality(S))
BY StartsFirst, SortedIs DEF ByStart

\* By the start of the bucket, what was missed first, then as planned.
Earlier(a, b) ==
  LET x == Frames[a.bucket].from
      y == Frames[b.bucket].from IN
  x < y \/ (x = y /\ ((a.revived /\ ~b.revived) \/ (a.revived = b.revived /\ a.start < b.start)))

\* Of some slices there is one before which none has to be placed.
LEMMA EarlierFirst ==
  ASSUME NEW T \in SUBSET OpenSlice, T # {}
  PROVE  \E x \in T : \A y \in T : ~Earlier(y, x)
<1>1. \A s \in T : /\ s.start \in Nat /\ s.revived \in BOOLEAN /\ s.bucket \in DOMAIN Frames
                   /\ Frames[s.bucket] \in Interval
  BY WeekBounds DEF OpenSlice
<1>2. \A s \in T : Frames[s.bucket].from \in Nat
  BY <1>1 DEF Interval
<1> DEFINE froms == {Frames[s.bucket].from : s \in T}
<1>3. PICK m \in froms : \A k \in froms : m <= k
  <2>1. froms \in SUBSET Nat /\ froms # {}
    BY <1>2
  <2> HIDE DEF froms
  <2>2. QED
    BY <2>1, LeastNat
<1> DEFINE U == {s \in T : Frames[s.bucket].from = m}
           V == IF \E s \in U : s.revived THEN {s \in U : s.revived} ELSE U
           starts == {s.start : s \in V}
<1>4. U # {} /\ V # {} /\ V \subseteq U /\ U \subseteq T
  BY <1>3
<1>5. PICK l \in starts : \A k \in starts : l <= k
  <2>1. starts \in SUBSET Nat /\ starts # {}
    BY <1>1, <1>4
  <2> HIDE DEF starts
  <2>2. QED
    BY <2>1, LeastNat
<1>6. PICK x \in V : x.start = l
  OBVIOUS
<1>7. x \in T /\ x \in U /\ Frames[x.bucket].from = m /\ m \in Nat
  BY <1>2, <1>4
<1>8. ASSUME NEW y \in T PROVE ~Earlier(y, x)
  <2>1. Frames[y.bucket].from \in Nat /\ m <= Frames[y.bucket].from
    BY <1>2, <1>3
  <2>2. CASE Frames[y.bucket].from # m
    BY <1>7, <2>1, <2>2 DEF Earlier
  <2>3. CASE Frames[y.bucket].from = m
    <3>1. y \in U
      BY <2>3
    <3>2. y.revived => x.revived
      BY <3>1
    <3>3. y.revived = x.revived => y \in V
      BY <1>4, <3>1
    <3>4. y \in V => ~(y.start < x.start)
      BY <1>1, <1>4, <1>5, <1>6
    <3>5. QED
      BY <1>7, <2>3, <3>2, <3>3, <3>4 DEF Earlier
  <2>4. QED
    BY <2>2, <2>3
<1>9. QED
  BY <1>7, <1>8

\* Slices in the order of placing are the same slices.
LEMMA InOrderIs ==
  ASSUME NEW S \in SUBSET OpenSlice, IsFiniteSet(S)
  PROVE  /\ InOrder(S, Frames) \in Seq(S) /\ ToSet(InOrder(S, Frames)) = S
         /\ InOrder(S, Frames) \in Lines(S, Cardinality(S))
<1> DEFINE before == {p \in S \X S : Earlier(p[1], p[2])}
<1>1. InOrder(S, Frames) = Sorted(S, before)
  BY DEF InOrder, Earlier
<1>2. ASSUME NEW T \in SUBSET S, T # {} PROVE \E x \in T : \A y \in T : <<y, x>> \notin before
  <2>1. PICK x \in T : \A y \in T : ~Earlier(y, x)
    BY <1>2, EarlierFirst
  <2>2. QED
    BY <2>1
<1> HIDE DEF before
<1>3. HasFirst(S, before)
  BY <1>2 DEF HasFirst
<1>4. QED
  BY <1>1, <1>3, SortedIs

\* The slices of one unit that have a bucket, and that no two of some slices
\* start at once.
UnitSlice(u) == {s \in OpenSlice : s.task = u[1] /\ s.rest = u[2]}

\* No two start at once.
StartApart(S) == \A s, r \in S : s.start = r.start => s = r

\* The units of work on some slices that start apart.
Work(S) == UNION {{s.start} \X (1..s.length) : s \in S}

\* A slice more is its length more work.
LEMMA WorkOfOneMore ==
  ASSUME NEW S \in SUBSET OpenSlice, IsFiniteSet(Work(S)), NEW x \in OpenSlice, \A s \in S : s.start # x.start
  PROVE  /\ IsFiniteSet(Work(S \cup {x}))
         /\ Cardinality(Work(S \cup {x})) = Cardinality(Work(S)) + x.length
<1>1. x.length \in Nat
  BY DEF OpenSlice
<1> DEFINE A == Work(S)
           n == x.length
           B == {x.start} \X (1..n)
<1>2. Work(S \cup {x}) = A \cup B
  BY DEF Work
<1>3. A \cap B = {}
  BY DEF Work
<1>4. IsFiniteSet(B) /\ Cardinality(B) = n
  <2> HIDE DEF n
  <2>1. n \in Nat
    BY <1>1 DEF n
  <2>2. IsFiniteSet(1..n) /\ Cardinality(1..n) = n
    BY <2>1, FS_Interval
  <2>3. IsFiniteSet({x.start}) /\ Cardinality({x.start}) = 1
    BY FS_Singleton
  <2>4. IsFiniteSet(B) /\ Cardinality(B) = 1 * n
    BY <2>2, <2>3, FS_Product
  <2>5. QED
    BY <2>1, <2>4
<1>5. IsFiniteSet(A)
  OBVIOUS
<1> HIDE DEF A, B, n
<1>6. IsFiniteSet(A \cup B) /\ Cardinality(A \cup B) = Cardinality(A) + Cardinality(B) - Cardinality(A \cap B)
  BY <1>4, <1>5, FS_Union
<1>7. Cardinality(A) \in Nat /\ Cardinality(A \cap B) = 0 /\ n \in Nat
  BY <1>1, <1>3, <1>5, FS_CardinalityType, FS_EmptySet DEF n
<1>8. IsFiniteSet(A \cup B) /\ Cardinality(A \cup B) = Cardinality(A) + n
  BY <1>4, <1>6, <1>7
<1>9. QED
  BY <1>2, <1>8 DEF A, n

\* A function on the numbers from 1 is a sequence.
LEMMA IsLine ==
  ASSUME NEW S, NEW k \in Nat, NEW q \in [1..k -> S]
  PROVE  q \in Seq(S) /\ Len(q) = k
OBVIOUS

\* What is on a line.
LEMMA OnLine ==
  ASSUME NEW S, NEW q \in Seq(S), NEW k, Len(q) = k
  PROVE  \A y : y \in ToSet(q) <=> \E i \in 1..k : q[i] = y
<1>1. DOMAIN q = 1..k
  BY LenProperties
<1>2. QED
  BY <1>1 DEF ToSet

\* What the first n slices of a unit carry of the work that was left.
Carrying(u, slices, left, n) ==
  {c \in [left : Nat, units : Seq(UnitSlice(u))] :
     /\ \A i, j \in 1..Len(c.units) : c.units[i].start = c.units[j].start => i = j
     /\ \A i \in 1..Len(c.units) : \E j \in 1..n : c.units[i].start = slices[j].start
     /\ IsFiniteSet(Work(ToSet(c.units))) /\ Cardinality(Work(ToSet(c.units))) + c.left = left}

\* Nothing is carried at first.
LEMMA CarriesNothing ==
  ASSUME NEW u, NEW slices, NEW left \in Nat
  PROVE  [left |-> left, units |-> <<>>] \in Carrying(u, slices, left, 0)
<1> DEFINE c == [left |-> left, units |-> <<>>]
<1>1. c.left = left /\ c.units = <<>> /\ c \in [left : Nat, units : Seq(UnitSlice(u))]
  OBVIOUS
<1>2. 1..Len(c.units) = {} /\ ToSet(c.units) = {}
  BY <1>1 DEF ToSet
<1> HIDE DEF c
<1>3. Work({}) = {} /\ IsFiniteSet({}) /\ Cardinality({}) = 0
  BY FS_EmptySet DEF Work
<1>4. c \in Carrying(u, slices, left, 0)
  <2>1. Work(ToSet(c.units)) = {}
    BY <1>2, <1>3
  <2>2. IsFiniteSet(Work(ToSet(c.units))) /\ Cardinality(Work(ToSet(c.units))) = 0
    BY <1>3, <2>1
  <2>3. Cardinality(Work(ToSet(c.units))) + c.left = left
    BY <1>1, <2>2
  <2>4. QED
    BY <1>1, <1>2, <2>2, <2>3 DEF Carrying
<1>5. QED
  BY <1>4 DEF c

\* One slice more carries work.
LEMMA CarryKeeps ==
  ASSUME NEW u, NEW slices \in Seq(UnitSlice(u)), NEW left \in Nat, NEW n \in 1..Len(slices),
         \A i, j \in 1..Len(slices) : slices[i].start = slices[j].start => i = j,
         NEW c \in Carrying(u, slices, left, n - 1)
  PROVE  Carry(c, slices[n]) \in Carrying(u, slices, left, n)
<1> DEFINE s == slices[n]
           take == Smaller(s.length, c.left)
           x == [s EXCEPT !.length = take]
           q == c.units
           k == Len(q)
           d == [left |-> c.left - take, units |-> Append(q, x)]
<1>1. /\ c.left \in Nat /\ q \in Seq(UnitSlice(u))
      /\ \A i, j \in 1..k : q[i].start = q[j].start => i = j
      /\ \A i \in 1..k : \E j \in 1..(n - 1) : q[i].start = slices[j].start
      /\ IsFiniteSet(Work(ToSet(q))) /\ Cardinality(Work(ToSet(q))) + c.left = left
  BY DEF Carrying
<1>2. s \in UnitSlice(u) /\ s \in OpenSlice /\ n \in Nat /\ Len(slices) \in Nat
  BY DEF UnitSlice
<1>3. s.length \in Nat
  BY <1>2 DEF OpenSlice
<1>4. take \in Nat /\ take <= c.left
  BY <1>1, <1>3 DEF Smaller
<1> HIDE DEF take
<1>5. x \in UnitSlice(u) /\ x.start = s.start /\ x.length = take /\ x \in OpenSlice
  BY <1>2, <1>4 DEF UnitSlice, OpenSlice
<1>6. Carry(c, s) = d
  BY DEF Carry, take
<1> HIDE DEF x, s, q
<1>7. k \in Nat /\ Append(q, x) \in Seq(UnitSlice(u)) /\ Len(Append(q, x)) = k + 1
      /\ \A i \in 1..(k + 1) : Append(q, x)[i] = IF i = k + 1 THEN x ELSE q[i]
  BY <1>1, <1>5, AppendProperties
<1>8. \A i \in 1..k : q[i].start # x.start
  <2> SUFFICES ASSUME NEW i \in 1..k, q[i].start = x.start PROVE FALSE
    OBVIOUS
  <2>1. PICK j \in 1..(n - 1) : q[i].start = slices[j].start
    BY <1>1
  <2>2. j = n
    BY <1>2, <1>5, <2>1 DEF s
  <2>3. QED
    BY <1>2, <2>1, <2>2
<1>9. ToSet(Append(q, x)) = ToSet(q) \cup {x}
  <2>1. DOMAIN q = 1..k /\ DOMAIN Append(q, x) = 1..(k + 1)
    BY <1>1, <1>7, LenProperties
  <2>2. \A i \in 1..k : i \in 1..(k + 1) /\ i # k + 1
    BY <1>7
  <2>3. k + 1 \in 1..(k + 1) /\ \A i \in 1..(k + 1) : i # k + 1 => i \in 1..k
    <3>1. k \in Nat
      BY <1>7
    <3> HIDE DEF k
    <3>2. QED
      BY <3>1
  <2>0. PICK h \in {Append(q, x)} : TRUE
    OBVIOUS
  <2>4. h \in Seq(UnitSlice(u)) /\ Len(h) = k + 1 /\ \A i \in 1..(k + 1) : h[i] = IF i = k + 1 THEN x ELSE q[i]
    <3> HIDE DEF k
    <3>1. QED
      BY <1>7, <2>0
  <2>5. \A y : y \in ToSet(q) <=> \E i \in 1..k : q[i] = y
    <3>1. q \in Seq(UnitSlice(u)) /\ Len(q) = k
      BY <1>1
    <3> HIDE DEF k
    <3>2. QED
      BY <3>1, OnLine
  <2>6. \A y : y \in ToSet(h) <=> \E i \in 1..(k + 1) : h[i] = y
    BY <2>4, OnLine
  <2>7. ToSet(h) = ToSet(q) \cup {x}
    BY <2>2, <2>3, <2>4, <2>5, <2>6
  <2>8. QED
    BY <2>0, <2>7
<1>10. ToSet(q) \in SUBSET OpenSlice /\ \A y \in ToSet(q) : y.start # x.start
  <2>1. DOMAIN q = 1..k /\ \A i \in 1..k : q[i] \in UnitSlice(u)
    BY <1>1, LenProperties
  <2>2. QED
    BY <1>8, <2>1 DEF ToSet, UnitSlice
<1>11. /\ IsFiniteSet(Work(ToSet(q) \cup {x}))
       /\ Cardinality(Work(ToSet(q) \cup {x})) = Cardinality(Work(ToSet(q))) + x.length
  BY <1>1, <1>5, <1>10, WorkOfOneMore
<1>12. ASSUME NEW i \in 1..(k + 1), NEW j \in 1..(k + 1), Append(q, x)[i].start = Append(q, x)[j].start PROVE i = j
  <2>1. \A h \in 1..(k + 1) : h # k + 1 => h \in 1..k
    BY <1>7
  <2>2. QED
    BY <1>1, <1>7, <1>8, <1>12, <2>1
<1>13. ASSUME NEW i \in 1..(k + 1) PROVE \E j \in 1..n : Append(q, x)[i].start = slices[j].start
  <2>1. CASE i = k + 1
    BY <1>2, <1>5, <1>7, <2>1 DEF s
  <2>2. CASE i # k + 1
    <3>1. i \in 1..k
      BY <1>7, <2>2
    <3>2. PICK j \in 1..(n - 1) : q[i].start = slices[j].start
      BY <1>1, <3>1
    <3>3. j \in 1..n
      BY <1>2
    <3>4. QED
      BY <1>7, <2>2, <3>2, <3>3
  <2>3. QED
    BY <2>1, <2>2
<1>14. Cardinality(Work(ToSet(Append(q, x)))) + (c.left - take) = left
  <2>1. Cardinality(Work(ToSet(q))) \in Nat
    BY <1>1, FS_CardinalityType
  <2>2. QED
    BY <1>1, <1>4, <1>5, <1>9, <1>11, <2>1
<1>15. d.left = c.left - take /\ d.units = Append(q, x) /\ d \in [left : Nat, units : Seq(UnitSlice(u))]
  BY <1>1, <1>4, <1>7
<1> HIDE DEF d
<1>16. d \in Carrying(u, slices, left, n)
  <2>1. Len(d.units) = k + 1
    BY <1>7, <1>15
  <2>2. /\ \A i, j \in 1..Len(d.units) : d.units[i].start = d.units[j].start => i = j
        /\ \A i \in 1..Len(d.units) : \E j \in 1..n : d.units[i].start = slices[j].start
    BY <1>12, <1>13, <1>15, <2>1
  <2>3. IsFiniteSet(Work(ToSet(d.units))) /\ Cardinality(Work(ToSet(d.units))) + d.left = left
    BY <1>9, <1>11, <1>14, <1>15
  <2>4. QED
    BY <1>15, <2>2, <2>3 DEF Carrying
<1>17. QED
  BY <1>6, <1>16 DEF s

\* The slices ahead carry what they can of the work.
LEMMA CarryAheadIs ==
  ASSUME NEW u, NEW slices \in Seq(UnitSlice(u)), NEW left \in Nat,
         \A i, j \in 1..Len(slices) : slices[i].start = slices[j].start => i = j
  PROVE  CarryAhead(left, slices) \in Carrying(u, slices, left, Len(slices))
<1> DEFINE N == Len(slices)
           none == [left |-> left, units |-> <<>>]
           Step(s, n) == Carry(s, slices[n])
           L == [n \in 0..N |-> Carrying(u, slices, left, n)]
           all == UNION {L[n] : n \in 0..N}
           F == [p \in all \X (1..N) |-> Step(p[1], p[2])]
           carried == CHOOSE f : f = [n \in 0..N |-> IF n = 0 THEN none ELSE Carry(f[n - 1], slices[n])]
<1>1. N \in Nat
  OBVIOUS
<1>2. none \in L[0]
  BY <1>1, CarriesNothing
<1>3. ASSUME NEW n \in 1..N, NEW s \in L[n - 1] PROVE Step(s, n) \in L[n]
  <2>1. n - 1 \in 0..N /\ n \in 0..N
    BY <1>1
  <2>2. s \in Carrying(u, slices, left, n - 1)
    BY <2>1
  <2>3. Carry(s, slices[n]) \in Carrying(u, slices, left, n)
    BY <2>2, CarryKeeps
  <2>4. QED
    BY <2>1, <2>3
<1>4. \A n \in 1..N : \A s \in L[n - 1] : F[<<s, n>>] = Step(s, n)
  <2> SUFFICES ASSUME NEW n \in 1..N, NEW s \in L[n - 1] PROVE F[<<s, n>>] = Step(s, n)
    OBVIOUS
  <2> HIDE DEF L, Step
  <2>1. n - 1 \in 0..N
    BY <1>1
  <2>2. <<s, n>> \in all \X (1..N)
    BY <2>1
  <2> HIDE DEF all
  <2>3. QED
    BY <2>2
<1> HIDE DEF N, none, L, all, F, Step
<1>5. \A n \in 1..N : \A s \in L[n - 1] : F[<<s, n>>] \in L[n]
  BY <1>3, <1>4
<1>6. PICK g : RunsTo(g, F, none, N) /\ \A n \in 0..N : g[n] \in L[n]
  BY <1>1, <1>2, <1>5, Recursion
<1>7. \A n \in 1..N : F[<<g[n - 1], n>>] = Step(g[n - 1], n)
  BY <1>1, <1>4, <1>6
<1>8. g = [n \in 0..N |-> IF n = 0 THEN none ELSE Step(g[n - 1], n)]
  <2>1. g = [n \in 0..N |-> IF n = 0 THEN none ELSE F[<<g[n - 1], n>>]]
    BY <1>6 DEF RunsTo
  <2>2. [n \in 0..N |-> IF n = 0 THEN none ELSE F[<<g[n - 1], n>>]]
          = [n \in 0..N |-> IF n = 0 THEN none ELSE Step(g[n - 1], n)]
    BY <1>1, <1>7
  <2>3. QED
    BY <2>1, <2>2
<1>9. carried = [n \in 0..N |-> IF n = 0 THEN none ELSE Step(carried[n - 1], n)]
  <2>1. carried = CHOOSE f : f = [n \in 0..N |-> IF n = 0 THEN none ELSE Step(f[n - 1], n)]
    BY DEF Step
  <2> HIDE DEF carried
  <2>2. QED
    BY <1>8, <2>1
<1> HIDE DEF carried
<1>10. \A n \in 0..N : carried[n] \in L[n]
  <2>1. carried[0] \in L[0]
    BY <1>1, <1>2, <1>9
  <2>2. ASSUME NEW n \in 1..N, carried[n - 1] \in L[n - 1] PROVE carried[n] \in L[n]
    <3>1. carried[n] = Step(carried[n - 1], n)
      BY <1>1, <1>9
    <3>2. QED
      BY <1>3, <2>2, <3>1
  <2>3. QED
    BY <1>1, <2>1, <2>2, RecursionKeeps
<1>11. CarryAhead(left, slices) = carried[N]
  BY DEF CarryAhead, carried, N, none
<1>12. carried[N] \in Carrying(u, slices, left, N)
  BY <1>1, <1>10 DEF L
<1>13. QED
  BY <1>11, <1>12 DEF N

\* So do those that were missed, as long as there is some.
LEMMA CarryBackIs ==
  ASSUME NEW u, NEW slices \in Seq(UnitSlice(u)), NEW left \in Nat,
         \A i, j \in 1..Len(slices) : slices[i].start = slices[j].start => i = j
  PROVE  CarryBack(left, slices) \in Carrying(u, slices, left, Len(slices))
<1> DEFINE N == Len(slices)
           none == [left |-> left, units |-> <<>>]
           Step(s, n) == CarryIfAny(s, slices[n])
           L == [n \in 0..N |-> Carrying(u, slices, left, n)]
           all == UNION {L[n] : n \in 0..N}
           F == [p \in all \X (1..N) |-> Step(p[1], p[2])]
           carried == CHOOSE f : f = [n \in 0..N |-> IF n = 0 THEN none ELSE CarryIfAny(f[n - 1], slices[n])]
<1>1. N \in Nat
  OBVIOUS
<1>2. none \in L[0]
  BY <1>1, CarriesNothing
<1>3. ASSUME NEW n \in 1..N, NEW s \in L[n - 1] PROVE Step(s, n) \in L[n]
  <2>1. n - 1 \in 0..N /\ n \in 0..N
    BY <1>1
  <2>2. s \in Carrying(u, slices, left, n - 1)
    BY <2>1
  <2>3. Carry(s, slices[n]) \in Carrying(u, slices, left, n)
    BY <2>2, CarryKeeps
  <2>4. s \in Carrying(u, slices, left, n)
    <3>1. \A j \in 1..(n - 1) : j \in 1..n
      BY <1>1
    <3>2. QED
      BY <2>2, <3>1 DEF Carrying
  <2>5. QED
    BY <2>1, <2>3, <2>4 DEF CarryIfAny
<1>4. \A n \in 1..N : \A s \in L[n - 1] : F[<<s, n>>] = Step(s, n)
  <2> SUFFICES ASSUME NEW n \in 1..N, NEW s \in L[n - 1] PROVE F[<<s, n>>] = Step(s, n)
    OBVIOUS
  <2> HIDE DEF L, Step
  <2>1. n - 1 \in 0..N
    BY <1>1
  <2>2. <<s, n>> \in all \X (1..N)
    BY <2>1
  <2> HIDE DEF all
  <2>3. QED
    BY <2>2
<1> HIDE DEF N, none, L, all, F, Step
<1>5. \A n \in 1..N : \A s \in L[n - 1] : F[<<s, n>>] \in L[n]
  BY <1>3, <1>4
<1>6. PICK g : RunsTo(g, F, none, N) /\ \A n \in 0..N : g[n] \in L[n]
  BY <1>1, <1>2, <1>5, Recursion
<1>7. \A n \in 1..N : F[<<g[n - 1], n>>] = Step(g[n - 1], n)
  BY <1>1, <1>4, <1>6
<1>8. g = [n \in 0..N |-> IF n = 0 THEN none ELSE Step(g[n - 1], n)]
  <2>1. g = [n \in 0..N |-> IF n = 0 THEN none ELSE F[<<g[n - 1], n>>]]
    BY <1>6 DEF RunsTo
  <2>2. [n \in 0..N |-> IF n = 0 THEN none ELSE F[<<g[n - 1], n>>]]
          = [n \in 0..N |-> IF n = 0 THEN none ELSE Step(g[n - 1], n)]
    BY <1>1, <1>7
  <2>3. QED
    BY <2>1, <2>2
<1>9. carried = [n \in 0..N |-> IF n = 0 THEN none ELSE Step(carried[n - 1], n)]
  <2>1. carried = CHOOSE f : f = [n \in 0..N |-> IF n = 0 THEN none ELSE Step(f[n - 1], n)]
    BY DEF Step
  <2> HIDE DEF carried
  <2>2. QED
    BY <1>8, <2>1
<1> HIDE DEF carried
<1>10. \A n \in 0..N : carried[n] \in L[n]
  <2>1. carried[0] \in L[0]
    BY <1>1, <1>2, <1>9
  <2>2. ASSUME NEW n \in 1..N, carried[n - 1] \in L[n - 1] PROVE carried[n] \in L[n]
    <3>1. carried[n] = Step(carried[n - 1], n)
      BY <1>1, <1>9
    <3>2. QED
      BY <1>3, <2>2, <3>1
  <2>3. QED
    BY <1>1, <2>1, <2>2, RecursionKeeps
<1>11. CarryBack(left, slices) = carried[N]
  BY DEF CarryBack, carried, N, none
<1>12. carried[N] \in Carrying(u, slices, left, N)
  BY <1>1, <1>10 DEF L
<1>13. QED
  BY <1>11, <1>12 DEF N

\* A line of slices of which no two start at once.
OneByOne(q) == \A i, j \in 1..Len(q) : q[i].start = q[j].start => i = j

\* It names slices of one unit, which start apart.
LEMMA LineIs ==
  ASSUME NEW u, NEW q \in Seq(UnitSlice(u)), OneByOne(q)
  PROVE  /\ ToSet(q) \in SUBSET UnitSlice(u) /\ IsFiniteSet(ToSet(q)) /\ StartApart(ToSet(q))
         /\ ToSet(q) \in SUBSET OpenSlice
<1>1. Len(q) \in Nat /\ DOMAIN q = 1..Len(q) /\ \A i \in 1..Len(q) : q[i] \in UnitSlice(u)
  BY LenProperties
<1>2. ToSet(q) = {q[i] : i \in 1..Len(q)}
  BY <1>1 DEF ToSet
<1>3. IsFiniteSet({q[i] : i \in 1..Len(q)})
  <2>1. IsFiniteSet(1..Len(q))
    BY <1>1, FS_Interval
  <2>2. QED
    BY <2>1, FiniteImage
<1>4. StartApart(ToSet(q))
  BY <1>2 DEF StartApart, OneByOne
<1>5. QED
  BY <1>1, <1>2, <1>3, <1>4 DEF UnitSlice

\* Work on slices that start at different times adds up.
LEMMA WorkAddsUp ==
  ASSUME NEW S, NEW T, IsFiniteSet(Work(S)), IsFiniteSet(Work(T)), \A s \in S, t \in T : s.start # t.start
  PROVE  /\ IsFiniteSet(Work(S \cup T))
         /\ Cardinality(Work(S \cup T)) = Cardinality(Work(S)) + Cardinality(Work(T))
<1> DEFINE A == Work(S)
           B == Work(T)
<1>1. Work(S \cup T) = A \cup B /\ A \cap B = {}
  BY DEF Work
<1>2. IsFiniteSet(A) /\ IsFiniteSet(B)
  OBVIOUS
<1> HIDE DEF A, B
<1>3. IsFiniteSet(A \cup B) /\ Cardinality(A \cup B) = Cardinality(A) + Cardinality(B) - Cardinality(A \cap B)
  BY <1>2, FS_Union
<1>4. Cardinality(A) \in Nat /\ Cardinality(B) \in Nat /\ Cardinality(A \cap B) = 0
  BY <1>1, <1>2, FS_CardinalityType, FS_EmptySet
<1>5. IsFiniteSet(A \cup B) /\ Cardinality(A \cup B) = Cardinality(A) + Cardinality(B)
  BY <1>3, <1>4
<1>6. QED
  BY <1>1, <1>5 DEF A, B

\* The last slice of a line grows by what is left.
LEMMA GrownIs ==
  ASSUME NEW u, NEW q \in Seq(UnitSlice(u)), OneByOne(q), q # <<>>, IsFiniteSet(Work(ToSet(q))), NEW left \in Nat,
         NEW g, g = Grown(q, left)
  PROVE  /\ g \in Seq(UnitSlice(u)) /\ Len(g) = Len(q) /\ OneByOne(g) /\ g # <<>>
         /\ \A i \in 1..Len(q) : g[i].start = q[i].start
         /\ IsFiniteSet(Work(ToSet(g))) /\ Cardinality(Work(ToSet(g))) = Cardinality(Work(ToSet(q))) + left
<1> DEFINE k == Len(q)
           x == q[k]
           len == x.length + left
           y == [x EXCEPT !.length = len]
           rest == {q[i] : i \in 1..(k - 1)}
<1>1. k \in Nat \ {0} /\ DOMAIN q = 1..k /\ k \in 1..k /\ \A i \in 1..k : q[i] \in UnitSlice(u)
  BY LenProperties, EmptySeq
<1>2. x \in UnitSlice(u) /\ x \in OpenSlice /\ x.length \in Nat
  BY <1>1 DEF UnitSlice, OpenSlice
<1>3. y \in UnitSlice(u) /\ y \in OpenSlice /\ y.start = x.start /\ y.length = x.length + left
  <2>1. len \in Nat
    BY <1>2
  <2> HIDE DEF len, x
  <2>2. y \in UnitSlice(u) /\ y \in OpenSlice /\ y.start = x.start /\ y.length = len
    BY <1>2, <2>1 DEF UnitSlice, OpenSlice
  <2>3. QED
    BY <2>2 DEF len
<1>4. g = [q EXCEPT ![k] = y]
  BY DEF Grown
<1> HIDE DEF y
<1>5. g = [i \in 1..k |-> IF i = k THEN y ELSE q[i]]
  BY <1>1, <1>4
<1>6. g \in [1..k -> UnitSlice(u)]
  BY <1>1, <1>3, <1>5
<1>7. g \in Seq(UnitSlice(u)) /\ Len(g) = k
  BY <1>1, <1>6
<1>8. \A i \in 1..k : g[i] = IF i = k THEN y ELSE q[i]
  BY <1>5
<1>9. \A i \in 1..k : g[i].start = q[i].start
  BY <1>3, <1>8
<1>10. OneByOne(g)
  BY <1>7, <1>9 DEF OneByOne
<1>11. ToSet(q) = rest \cup {x} /\ ToSet(g) = rest \cup {y}
  <2>1. /\ \A z : z \in ToSet(q) <=> \E i \in 1..k : q[i] = z
        /\ \A z : z \in ToSet(g) <=> \E i \in 1..k : g[i] = z
    BY <1>7, OnLine
  <2>2. \A i \in 1..k : i # k => i \in 1..(k - 1)
    <3>1. k \in Nat \ {0}
      BY <1>1
    <3> HIDE DEF k
    <3>2. QED
      BY <3>1
  <2>3. \A i \in 1..(k - 1) : i \in 1..k /\ i # k
    <3>1. k \in Nat \ {0}
      BY <1>1
    <3> HIDE DEF k
    <3>2. QED
      BY <3>1
  <2>4. \A z : z \in rest <=> \E i \in 1..(k - 1) : q[i] = z
    OBVIOUS
  <2>5. g[k] = y /\ \A i \in 1..(k - 1) : g[i] = q[i]
    BY <1>1, <1>8, <2>3
  <2> HIDE DEF rest, x, y
  <2>6. \A z : z \in ToSet(q) <=> z \in rest \/ z = x
    BY <1>1, <2>1, <2>2, <2>3, <2>4 DEF x
  <2>7. \A z : z \in ToSet(g) <=> z \in rest \/ z = y
    BY <1>1, <2>1, <2>2, <2>3, <2>4, <2>5
  <2>8. QED
    BY <2>6, <2>7
<1>12. rest \in SUBSET OpenSlice /\ \A s \in rest : s.start # x.start /\ s.start # y.start
  <2> SUFFICES ASSUME NEW i \in 1..(k - 1) PROVE q[i] \in OpenSlice /\ q[i].start # x.start
    BY <1>3
  <2>1. i \in 1..k /\ i # k
    <3>1. k \in Nat \ {0}
      BY <1>1
    <3> HIDE DEF k
    <3>2. QED
      BY <3>1
  <2>2. q[i] \in UnitSlice(u) /\ (q[i].start = q[k].start => i = k)
    BY <1>1, <2>1 DEF OneByOne
  <2>3. QED
    BY <2>1, <2>2 DEF UnitSlice
<1>13. IsFiniteSet(Work(rest))
  <2>1. Work(rest) \subseteq Work(ToSet(q))
    BY <1>11 DEF Work
  <2>2. QED
    BY <2>1, FS_Subset
<1> HIDE DEF rest, x
<1>14. /\ IsFiniteSet(Work(rest \cup {x})) /\ Cardinality(Work(rest \cup {x})) = Cardinality(Work(rest)) + x.length
       /\ IsFiniteSet(Work(rest \cup {y})) /\ Cardinality(Work(rest \cup {y})) = Cardinality(Work(rest)) + y.length
  BY <1>2, <1>3, <1>12, <1>13, WorkOfOneMore
<1>15. Cardinality(Work(ToSet(g))) = Cardinality(Work(ToSet(q))) + left
  <2>1. Cardinality(Work(rest)) \in Nat
    BY <1>13, FS_CardinalityType
  <2>2. /\ Cardinality(Work(ToSet(g))) = Cardinality(Work(rest)) + y.length
        /\ Cardinality(Work(ToSet(q))) = Cardinality(Work(rest)) + x.length
    BY <1>11, <1>14
  <2>3. QED
    BY <1>2, <1>3, <2>1, <2>2
<1>16. g # <<>>
  BY <1>1, <1>7, EmptySeq
<1>17. QED
  BY <1>7, <1>9, <1>10, <1>11, <1>14, <1>15, <1>16

\* What was missed comes back with the same work, in another bucket.
LEMMA RevivedIs ==
  ASSUME NEW u, NEW q \in Seq(UnitSlice(u)), OneByOne(q), NEW bucket \in DOMAIN Frames,
         NEW r, r = Revived(q, bucket)
  PROVE  /\ r \in Seq(UnitSlice(u)) /\ Len(r) = Len(q) /\ OneByOne(r)
         /\ \A i \in 1..Len(q) : r[i].start = q[i].start
         /\ Work(ToSet(r)) = Work(ToSet(q))
<1> DEFINE k == Len(q)
<1>1. k \in Nat /\ DOMAIN q = 1..k /\ \A i \in 1..k : q[i] \in UnitSlice(u)
  BY LenProperties
<1>2. ASSUME NEW i \in 1..k PROVE r[i] \in UnitSlice(u) /\ r[i].start = q[i].start /\ r[i].length = q[i].length
  <2>1. q[i] \in UnitSlice(u)
    BY <1>1
  <2>2. r[i] = [q[i] EXCEPT !.bucket = bucket, !.revived = TRUE]
    BY <1>1, WeekBounds DEF Revived
  <2> DEFINE s == q[i]
             t == [s EXCEPT !.bucket = bucket, !.revived = TRUE]
  <2>3. t \in OpenSlice /\ t.task = s.task /\ t.rest = s.rest /\ t.start = s.start /\ t.length = s.length
    <3> HIDE DEF s
    <3>1. s \in OpenSlice
      BY <2>1 DEF UnitSlice, s
    <3>2. QED
      BY <3>1 DEF OpenSlice
  <2>4. r[i] = t
    BY <2>2
  <2> HIDE DEF t
  <2>5. t \in UnitSlice(u)
    BY <2>1, <2>3 DEF UnitSlice
  <2>6. QED
    BY <2>3, <2>4, <2>5
<1>3. r \in [1..k -> UnitSlice(u)]
  <2>1. DOMAIN r = 1..k
    BY <1>1, WeekBounds DEF Revived
  <2>2. r = [i \in 1..k |-> r[i]]
    BY <1>1, WeekBounds DEF Revived
  <2>3. QED
    BY <1>2, <2>1, <2>2
<1>4. r \in Seq(UnitSlice(u)) /\ Len(r) = k
  BY <1>1, <1>3, IsLine
<1>5. OneByOne(r)
  BY <1>2, <1>4 DEF OneByOne
<1>6. /\ \A z : z \in ToSet(q) <=> \E i \in 1..k : q[i] = z
      /\ \A z : z \in ToSet(r) <=> \E i \in 1..k : r[i] = z
  <2>1. \A z : z \in ToSet(q) <=> \E i \in 1..k : q[i] = z
    BY OnLine
  <2>2. \A z : z \in ToSet(r) <=> \E i \in 1..k : r[i] = z
    BY <1>4, OnLine
  <2>3. QED
    BY <2>1, <2>2
<1>7. Work(ToSet(r)) = Work(ToSet(q))
  <2>1. /\ \A p : p \in Work(ToSet(r)) <=> \E s \in ToSet(r) : p \in {s.start} \X (1..s.length)
        /\ \A p : p \in Work(ToSet(q)) <=> \E s \in ToSet(q) : p \in {s.start} \X (1..s.length)
    BY DEF Work
  <2>2. \A i \in 1..k : {r[i].start} \X (1..r[i].length) = {q[i].start} \X (1..q[i].length)
    BY <1>2
  <2>3. ASSUME NEW p, p \in Work(ToSet(r)) PROVE p \in Work(ToSet(q))
    <3>1. PICK s \in ToSet(r) : p \in {s.start} \X (1..s.length)
      BY <2>1, <2>3
    <3>2. PICK i \in 1..k : r[i] = s
      BY <1>6
    <3>3. q[i] \in ToSet(q) /\ p \in {q[i].start} \X (1..q[i].length)
      BY <1>6, <2>2, <3>1, <3>2
    <3>4. QED
      BY <2>1, <3>3
  <2>4. ASSUME NEW p, p \in Work(ToSet(q)) PROVE p \in Work(ToSet(r))
    <3>1. PICK s \in ToSet(q) : p \in {s.start} \X (1..s.length)
      BY <2>1, <2>4
    <3>2. PICK i \in 1..k : q[i] = s
      BY <1>6
    <3>3. r[i] \in ToSet(r) /\ p \in {r[i].start} \X (1..r[i].length)
      BY <1>6, <2>2, <3>1, <3>2
    <3>4. QED
      BY <2>1, <3>3
  <2>5. QED
    BY <2>3, <2>4
<1>8. QED
  BY <1>2, <1>4, <1>5, <1>7

\* What there is to place of a unit, and that it accounts for the work needed.
Accounted(c, u, task, needed) ==
  /\ c.place \in SUBSET UnitSlice(u) /\ IsFiniteSet(c.place) /\ StartApart(c.place)
  /\ c.overflow \in Nat /\ c.dropped \in Nat
  /\ IsFiniteSet(Work(c.place)) /\ Cardinality(Work(c.place)) + c.overflow <= needed
  /\ task.occurrence = NoTime => Cardinality(Work(c.place)) + c.overflow + c.dropped = needed

\* Together, what is ahead and what comes back account for the work of a unit:
\* it is to be placed, does not fit any more, or is dropped.
LEMMA FittedIs ==
  ASSUME NEW u, NEW task, NEW needed \in Nat, NEW ahead, NEW back, NEW bucket \in DOMAIN Frames \cup {NoBucket},
         ahead.left \in Nat, ahead.units \in Seq(UnitSlice(u)), OneByOne(ahead.units),
         IsFiniteSet(Work(ToSet(ahead.units))), Cardinality(Work(ToSet(ahead.units))) + ahead.left = needed,
         back.left \in Nat, back.units \in Seq(UnitSlice(u)), OneByOne(back.units),
         IsFiniteSet(Work(ToSet(back.units))), Cardinality(Work(ToSet(back.units))) + back.left = ahead.left,
         \A i \in 1..Len(ahead.units), j \in 1..Len(back.units) : ahead.units[i].start # back.units[j].start
  PROVE  Accounted(Fitted(task, ahead, back, bucket), u, task, needed)
<1> DEFINE A == ahead.units
           B == back.units
           R == Revived(B, bucket)
           left == IF task.occurrence # NoTime /\ ~task.appointment THEN 0 ELSE back.left
           GA == Grown(A, left)
           GR == Grown(R, left)
           place == IF A = <<>> THEN ToSet(GR) ELSE ToSet(R) \cup ToSet(GA)
           c == Fitted(task, ahead, back, bucket)
           a == Cardinality(Work(ToSet(A)))
           b == Cardinality(Work(ToSet(B)))
           r == Cardinality(Work(ToSet(R)))
<1>1. /\ c.place = {s \in place : s.length > 0}
      /\ c.overflow = (IF bucket = NoBucket THEN ahead.left - back.left ELSE 0)
      /\ c.dropped = (IF place = {} THEN left ELSE 0)
  BY DEF Fitted
<1>2. left \in Nat /\ (task.occurrence = NoTime => left = back.left) /\ left <= back.left
  OBVIOUS
<1>3. /\ A \in Seq(UnitSlice(u)) /\ OneByOne(A) /\ IsFiniteSet(Work(ToSet(A))) /\ a + ahead.left = needed /\ a \in Nat
      /\ B \in Seq(UnitSlice(u)) /\ OneByOne(B) /\ IsFiniteSet(Work(ToSet(B))) /\ b + back.left = ahead.left /\ b \in Nat
  BY FS_CardinalityType
<1>4. bucket # NoBucket => bucket \in DOMAIN Frames
  OBVIOUS
<1>5. Work({}) = {} /\ IsFiniteSet({}) /\ Cardinality({}) = 0 /\ ToSet(<<>>) = {}
  BY FS_EmptySet DEF Work, ToSet
<1> HIDE DEF c
<1>6. /\ R \in Seq(UnitSlice(u)) /\ OneByOne(R) /\ IsFiniteSet(Work(ToSet(R)))
      /\ r = (IF bucket = NoBucket THEN 0 ELSE b)
      /\ \A i \in 1..Len(R) : \A j \in 1..Len(A) : R[i].start # A[j].start
  <2>1. CASE bucket = NoBucket
    <3>1. R = <<>>
      BY <2>1 DEF Revived
    <3>2. R \in Seq(UnitSlice(u)) /\ 1..Len(R) = {} /\ ToSet(R) = {}
      <4> HIDE DEF R
      <4>1. QED
        BY <1>5, <3>1
    <3> HIDE DEF R
    <3>3. OneByOne(R)
      BY <3>2 DEF OneByOne
    <3>4. Work(ToSet(R)) = {}
      BY <1>5, <3>2
    <3>5. r = 0 /\ IsFiniteSet(Work(ToSet(R)))
      BY <1>5, <3>4
    <3>6. QED
      BY <2>1, <3>2, <3>3, <3>5
  <2>2. CASE bucket # NoBucket
    <3>1. R = Revived(B, bucket)
      OBVIOUS
    <3> HIDE DEF R, A, B
    <3>2. /\ R \in Seq(UnitSlice(u)) /\ Len(R) = Len(B) /\ OneByOne(R)
          /\ \A i \in 1..Len(B) : R[i].start = B[i].start
          /\ Work(ToSet(R)) = Work(ToSet(B))
      BY <1>3, <1>4, <2>2, <3>1, RevivedIs
    <3>3. \A i \in 1..Len(R) : \A j \in 1..Len(A) : R[i].start # A[j].start
      BY <3>2 DEF A, B
    <3>4. QED
      BY <1>3, <2>2, <3>2, <3>3
  <2>3. QED
    BY <2>1, <2>2
<1> HIDE DEF A, B, R, left
<1>7. A # <<>> => /\ GA \in Seq(UnitSlice(u)) /\ Len(GA) = Len(A) /\ OneByOne(GA) /\ GA # <<>>
                  /\ \A i \in 1..Len(A) : GA[i].start = A[i].start
                  /\ IsFiniteSet(Work(ToSet(GA))) /\ Cardinality(Work(ToSet(GA))) = a + left
  <2> HIDE DEF GA
  <2>1. GA = Grown(A, left)
    BY DEF GA
  <2>2. QED
    BY <1>2, <1>3, <2>1, GrownIs
<1>8. R # <<>> => /\ GR \in Seq(UnitSlice(u)) /\ Len(GR) = Len(R) /\ OneByOne(GR) /\ GR # <<>>
                  /\ IsFiniteSet(Work(ToSet(GR))) /\ Cardinality(Work(ToSet(GR))) = r + left
  <2> HIDE DEF GR
  <2>1. GR = Grown(R, left)
    BY DEF GR
  <2>2. QED
    BY <1>2, <1>6, <2>1, GrownIs
<1> HIDE DEF GA, GR
<1> DEFINE w == Cardinality(Work(place))
<1>9. /\ place \in SUBSET UnitSlice(u) /\ IsFiniteSet(place) /\ StartApart(place) /\ IsFiniteSet(Work(place))
      /\ w = a + r + (IF place = {} THEN 0 ELSE left)
  <2>1. CASE A = <<>>
    <3>1. a = 0
      BY <1>5, <2>1
    <3>2. CASE R = <<>>
      <4>1. place = {} /\ r = 0
        <5>1. GR = <<>> /\ place = ToSet(GR)
          BY <2>1, <3>2 DEF Grown, GR
        <5>2. QED
          BY <1>5, <3>2, <5>1
      <4> HIDE DEF place
      <4>2. Work(place) = {} /\ StartApart(place)
        BY <1>5, <4>1 DEF StartApart
      <4>3. w = 0
        BY <1>5, <4>2
      <4>4. /\ place \in SUBSET UnitSlice(u) /\ IsFiniteSet(place) /\ IsFiniteSet(Work(place))
        BY <1>5, <4>1, <4>2
      <4>5. w = a + r + (IF place = {} THEN 0 ELSE left)
        BY <3>1, <4>1, <4>3
      <4>6. QED
        BY <4>2, <4>4, <4>5
    <3>3. CASE R # <<>>
      <4>1. place = ToSet(GR)
        BY <2>1
      <4>2. ToSet(GR) \in SUBSET UnitSlice(u) /\ IsFiniteSet(ToSet(GR)) /\ StartApart(ToSet(GR))
            /\ \A y : y \in ToSet(GR) <=> \E i \in 1..Len(GR) : GR[i] = y
        BY <1>8, <3>3, LineIs, OnLine
      <4>3. ToSet(GR) # {}
        <5>1. Len(GR) \in Nat \ {0}
          BY <1>8, <3>3, LenProperties, EmptySeq
        <5>2. 1 \in 1..Len(GR)
          BY <5>1
        <5>3. QED
          BY <4>2, <5>2
      <4> HIDE DEF place
      <4>4. w = 0 + r + left /\ place # {}
        BY <1>2, <1>6, <1>8, <3>3, <4>1, <4>3, FS_CardinalityType
      <4>5. QED
        BY <1>8, <3>1, <3>3, <4>1, <4>2, <4>4
    <3>4. QED
      BY <3>2, <3>3
  <2>2. CASE A # <<>>
    <3>1. place = ToSet(R) \cup ToSet(GA)
      BY <2>2
    <3> HIDE DEF place
    <3>2. /\ ToSet(GA) \in SUBSET UnitSlice(u) /\ IsFiniteSet(ToSet(GA)) /\ StartApart(ToSet(GA))
          /\ \A y : y \in ToSet(GA) <=> \E i \in 1..Len(GA) : GA[i] = y
      BY <1>7, <2>2, LineIs, OnLine
    <3>3. /\ ToSet(R) \in SUBSET UnitSlice(u) /\ IsFiniteSet(ToSet(R)) /\ StartApart(ToSet(R))
          /\ \A y : y \in ToSet(R) <=> \E i \in 1..Len(R) : R[i] = y
      BY <1>6, LineIs, OnLine
    <3>4. \A s \in ToSet(R) : \A t \in ToSet(GA) : s.start # t.start
      BY <1>6, <1>7, <2>2, <3>2, <3>3
    <3>5. StartApart(place)
      BY <3>1, <3>2, <3>3, <3>4 DEF StartApart
    <3>6. IsFiniteSet(place)
      BY <3>1, <3>2, <3>3, FS_Union
    <3>7. /\ IsFiniteSet(Work(ToSet(R) \cup ToSet(GA)))
          /\ Cardinality(Work(ToSet(R) \cup ToSet(GA))) = r + (a + left)
      <4>1. IsFiniteSet(Work(ToSet(R))) /\ IsFiniteSet(Work(ToSet(GA))) /\ Cardinality(Work(ToSet(GA))) = a + left
        BY <1>6, <1>7, <2>2
      <4>2. /\ IsFiniteSet(Work(ToSet(R) \cup ToSet(GA)))
            /\ Cardinality(Work(ToSet(R) \cup ToSet(GA))) = Cardinality(Work(ToSet(R))) + Cardinality(Work(ToSet(GA)))
        BY <3>4, <4>1, WorkAddsUp
      <4>3. QED
        BY <4>1, <4>2
    <3>8. place # {}
      <4>1. Len(GA) \in Nat \ {0}
        BY <1>7, <2>2, LenProperties, EmptySeq
      <4>2. 1 \in 1..Len(GA)
        BY <4>1
      <4>3. QED
        BY <3>1, <3>2, <4>2
    <3>9. w = r + (a + left) /\ r \in Nat
      BY <1>6, <3>1, <3>7, FS_CardinalityType
    <3>10. QED
      BY <1>2, <1>3, <3>1, <3>2, <3>3, <3>5, <3>6, <3>7, <3>8, <3>9
  <2>3. QED
    BY <2>1, <2>2
<1> HIDE DEF place
<1>10. Work(c.place) = Work(place)
  <2>1. \A s \in place : s.length \in Nat
    BY <1>9 DEF UnitSlice, OpenSlice
  <2>2. \A s \in place : ~(s.length > 0) => 1..s.length = {}
    BY <2>1
  <2>3. QED
    BY <1>1, <2>2 DEF Work
<1>11. c.place \in SUBSET UnitSlice(u) /\ IsFiniteSet(c.place) /\ StartApart(c.place)
  BY <1>1, <1>9, FS_Subset DEF StartApart
<1>12. r \in Nat
  BY <1>6, FS_CardinalityType
<1>13. c.overflow \in Nat /\ c.dropped \in Nat /\ r + c.overflow = b
  <2> HIDE DEF b, r
  <2>1. CASE bucket = NoBucket
    BY <1>1, <1>2, <1>3, <1>6, <2>1
  <2>2. CASE bucket # NoBucket
    BY <1>1, <1>2, <1>3, <1>6, <2>2
  <2>3. QED
    BY <2>1, <2>2
<1>14. w + c.dropped = a + r + left
  BY <1>1, <1>2, <1>3, <1>9, <1>12
<1>15. w \in Nat
  BY <1>9, FS_CardinalityType
<1>16. a + b + back.left = needed
  <2> HIDE DEF a, b
  <2>1. QED
    BY <1>3
<1> HIDE DEF a, b, r, w
<1>17. w + c.overflow <= needed /\ (task.occurrence = NoTime => w + c.overflow + c.dropped = needed)
  <2>1. a \in Nat /\ b \in Nat /\ back.left \in Nat
    BY <1>3
  <2> DEFINE over == c.overflow
             dropped == c.dropped
             more == back.left
  <2>2. /\ over \in Nat /\ dropped \in Nat /\ r + over = b /\ w + dropped = a + r + left /\ a + b + more = needed
        /\ a \in Nat /\ b \in Nat /\ r \in Nat /\ w \in Nat /\ more \in Nat /\ left \in Nat /\ left <= more
    BY <1>2, <1>12, <1>13, <1>14, <1>15, <1>16, <2>1
  <2>3. task.occurrence = NoTime => left = more
    BY <1>2
  <2> HIDE DEF over, dropped, more
  <2>4. w + over <= needed /\ (left = more => w + over + dropped = needed)
    BY <2>2
  <2>5. QED
    BY <2>3, <2>4 DEF over, dropped
<1>18. QED
  BY <1>9, <1>10, <1>11, <1>13, <1>17 DEF Accounted, w, c

\* Today's first open bucket is a bucket, or there is none.
LEMMA FirstOpenTodayIs ==
  ASSUME NEW time \in Nat
  PROVE  FirstOpenToday(Frames, time) \in DOMAIN Frames \cup {NoBucket}
<1> DEFINE open == {b \in DOMAIN Frames : Frames[b].to > time /\ Frames[b].from < (DayOf(time) + 1) * Day}
<1>1. FirstOpenToday(Frames, time) = IF open = {} THEN NoBucket ELSE Earliest(open, Frames)
  BY DEF FirstOpenToday
<1>2. \A b \in open : Frames[b].from \in Nat
  BY WeekBounds DEF Interval
<1>3. open \subseteq DOMAIN Frames
  OBVIOUS
<1> HIDE DEF open
<1>4. open # {} => Earliest(open, Frames) \in open
  BY <1>2, EarliestIs
<1>5. QED
  BY <1>1, <1>3, <1>4

\* The slices of a unit by their start, none of which start at once.
LEMMA ByStartOfUnit ==
  ASSUME NEW u, NEW S \in SUBSET UnitSlice(u), IsFiniteSet(S), StartApart(S)
  PROVE  /\ ByStart(S) \in Seq(UnitSlice(u)) /\ OneByOne(ByStart(S))
         /\ \A i \in 1..Len(ByStart(S)) : ByStart(S)[i] \in S
<1> DEFINE q == ByStart(S)
           k == Cardinality(S)
<1>1. \A s \in S : s.start \in Nat
  BY DEF UnitSlice, OpenSlice
<1>2. q \in Seq(S) /\ q \in Lines(S, k)
  BY <1>1, ByStartIs
<1>3. k \in Nat
  BY FS_CardinalityType
<1> HIDE DEF q, k
<1>4. q \in [1..k -> S] /\ \A i, j \in 1..k : q[i] = q[j] => i = j
  BY <1>2 DEF Lines
<1>5. Len(q) = k
  BY <1>3, <1>4
<1>6. \A i \in 1..k : q[i] \in S
  BY <1>4
<1>7. OneByOne(q)
  BY <1>4, <1>5, <1>6 DEF OneByOne, StartApart
<1>8. q \in [1..k -> UnitSlice(u)]
  BY <1>4
<1>9. q \in Seq(UnitSlice(u))
  BY <1>3, <1>8, IsLine
<1>10. QED
  BY <1>5, <1>6, <1>7, <1>9 DEF q

\* The slices of a unit carry the work it needs, as far as they can.
LEMMA CarriedIs ==
  ASSUME NEW list \in [Task -> TaskRecord], NEW u \in Task \X BOOLEAN, NEW slices \in SUBSET UnitSlice(u),
         IsFiniteSet(slices), StartApart(slices), NEW time \in Nat
  PROVE  Accounted(Carried(list[u[1]], u[2], slices, time, Frames), u, list[u[1]], Needed(list[u[1]], u[2], time))
<1> DEFINE task == list[u[1]]
           needed == Needed(task, u[2], time)
           A == Ahead(slices, time)
           M == Missed(slices, time)
           qa == ByStart(A)
           qm == ByStart(M)
           ahead == CarryAhead(needed, qa)
           back == CarryBack(ahead.left, qm)
           bucket == FirstOpenToday(Frames, time)
<1>1. needed \in Nat
  BY NeededIs
<1>2. A \in SUBSET UnitSlice(u) /\ IsFiniteSet(A) /\ StartApart(A)
  BY FS_Subset DEF Ahead, StartApart
<1>3. M \in SUBSET UnitSlice(u) /\ IsFiniteSet(M) /\ StartApart(M)
  BY FS_Subset DEF Missed, StartApart
<1>4. \A s \in A : \A r \in M : s.start # r.start
  <2>1. ASSUME NEW s \in slices, EndOf(s) <= time PROVE ~(EndOf(s) > time)
    <3>1. EndOf(s) \in Nat
      BY DEF UnitSlice, OpenSlice, EndOf
    <3>2. QED
      BY <2>1, <3>1
  <2>2. A \cap M = {}
    BY <2>1 DEF Ahead, Missed
  <2>3. A \subseteq slices /\ M \subseteq slices
    BY DEF Ahead, Missed
  <2>4. QED
    BY <2>2, <2>3 DEF StartApart
<1>5. bucket \in DOMAIN Frames \cup {NoBucket}
  BY FirstOpenTodayIs
<1>6. Carried(task, u[2], slices, time, Frames) = Fitted(task, ahead, back, bucket)
  BY DEF Carried
<1> HIDE DEF A, M, bucket, needed
<1>7. /\ qa \in Seq(UnitSlice(u)) /\ OneByOne(qa) /\ \A i \in 1..Len(qa) : qa[i] \in A
      /\ qm \in Seq(UnitSlice(u)) /\ OneByOne(qm) /\ \A i \in 1..Len(qm) : qm[i] \in M
  BY <1>2, <1>3, ByStartOfUnit
<1> HIDE DEF qa, qm
<1>8. ahead \in Carrying(u, qa, needed, Len(qa))
  BY <1>1, <1>7, CarryAheadIs DEF OneByOne
<1> HIDE DEF ahead
<1>9. /\ ahead.left \in Nat /\ ahead.units \in Seq(UnitSlice(u)) /\ OneByOne(ahead.units)
      /\ \A i \in 1..Len(ahead.units) : \E j \in 1..Len(qa) : ahead.units[i].start = qa[j].start
      /\ IsFiniteSet(Work(ToSet(ahead.units))) /\ Cardinality(Work(ToSet(ahead.units))) + ahead.left = needed
  BY <1>8 DEF Carrying, OneByOne
<1>10. back \in Carrying(u, qm, ahead.left, Len(qm))
  BY <1>7, <1>9, CarryBackIs DEF OneByOne
<1> HIDE DEF back
<1>11. /\ back.left \in Nat /\ back.units \in Seq(UnitSlice(u)) /\ OneByOne(back.units)
       /\ \A i \in 1..Len(back.units) : \E j \in 1..Len(qm) : back.units[i].start = qm[j].start
       /\ IsFiniteSet(Work(ToSet(back.units))) /\ Cardinality(Work(ToSet(back.units))) + back.left = ahead.left
  BY <1>10 DEF Carrying, OneByOne
<1>12. ASSUME NEW i \in 1..Len(ahead.units), NEW j \in 1..Len(back.units)
       PROVE  ahead.units[i].start # back.units[j].start
  <2>1. PICK k \in 1..Len(qa) : ahead.units[i].start = qa[k].start
    BY <1>9
  <2>2. PICK l \in 1..Len(qm) : back.units[j].start = qm[l].start
    BY <1>11
  <2>3. qa[k] \in A /\ qm[l] \in M
    BY <1>7
  <2>4. QED
    BY <1>4, <2>1, <2>2, <2>3
<1>13. Accounted(Fitted(task, ahead, back, bucket), u, task, needed)
  BY <1>1, <1>5, <1>9, <1>11, <1>12, FittedIs
<1>14. QED
  BY <1>6, <1>13 DEF needed

\* Sets without common elements.
LEMMA CountsAddUp ==
  ASSUME NEW A, NEW B, IsFiniteSet(A), IsFiniteSet(B), \A x \in A : x \notin B
  PROVE  IsFiniteSet(A \cup B) /\ Cardinality(A \cup B) = Cardinality(A) + Cardinality(B)
<1>1. A \cap B = {}
  OBVIOUS
<1>2. IsFiniteSet(A \cup B) /\ Cardinality(A \cup B) = Cardinality(A) + Cardinality(B) - Cardinality(A \cap B)
  BY FS_Union
<1>3. Cardinality(A) \in Nat /\ Cardinality(B) \in Nat /\ Cardinality(A \cap B) = 0
  BY <1>1, FS_CardinalityType, FS_EmptySet
<1>4. QED
  BY <1>2, <1>3

\* Pieces that do not overlap others have moments of their own.
LEMMA MomentsAddUp ==
  ASSUME NEW P \in SUBSET Busy, NEW Q \in SUBSET Busy, IsFiniteSet(Moments(P)), IsFiniteSet(Moments(Q)),
         \A p \in P : \A q \in Q : ~Overlap(p, q)
  PROVE  /\ IsFiniteSet(Moments(P \cup Q))
         /\ Cardinality(Moments(P \cup Q)) = Cardinality(Moments(P)) + Cardinality(Moments(Q))
<1>1. Moments(P \cup Q) = Moments(P) \cup Moments(Q)
  BY DEF Moments
<1>2. ASSUME NEW v \in Moments(P), v \in Moments(Q) PROVE FALSE
  <2>1. PICK p \in P : v \in p.from..(p.to - 1)
    BY DEF Moments
  <2>2. PICK q \in Q : v \in q.from..(q.to - 1)
    BY <1>2 DEF Moments
  <2>3. p.from \in Nat /\ p.to \in Nat /\ q.from \in Nat /\ q.to \in Nat
    BY DEF Busy, Interval
  <2>4. p.from < q.to /\ q.from < p.to
    BY <2>1, <2>2, <2>3
  <2>5. QED
    BY <2>4 DEF Overlap
<1>3. /\ IsFiniteSet(Moments(P) \cup Moments(Q))
      /\ Cardinality(Moments(P) \cup Moments(Q)) = Cardinality(Moments(P)) + Cardinality(Moments(Q))
  BY <1>2, CountsAddUp
<1>4. QED
  BY <1>1, <1>3

\* Some of finitely many ends is the latest.
LEMMA LastEndIs ==
  ASSUME NEW pieces \in SUBSET Interval, IsFiniteSet(pieces)
  PROVE  LastEnd(pieces) \in Nat /\ \A p \in pieces : p.to <= LastEnd(pieces)
<1> DEFINE to == [p \in pieces |-> p.to]
           times == {p.to : p \in pieces}
<1>1. \A p \in pieces : to[p] = p.to /\ p.to \in Nat
  BY DEF Interval
<1> HIDE DEF to
<1>2. \A p \in pieces : to[p] \in Int
  BY <1>1
<1>3. PICK b \in Nat : \A p \in pieces : to[p] <= b
  BY <1>2, BoundedImage
<1>4. times \in SUBSET Int /\ \A x \in times : x <= b
  BY <1>1, <1>3
<1>5. \A p \in pieces : p.to \in times
  OBVIOUS
<1>6. LastEnd(pieces) = Latest(times)
  BY DEF LastEnd
<1> HIDE DEF times
<1>7. Latest(times) \in Nat /\ \A x \in times : x <= Latest(times)
  BY <1>4, LatestIs
<1>8. QED
  BY <1>5, <1>6, <1>7

\* When they ended.
Ended(ends, P) == {ends[p] : p \in P}

\* A slice may start when everything it waits for has ended.
LEMMA FromIs ==
  ASSUME NEW P, IsFiniteSet(P), NEW ends, \A p \in P : ends[p] \in Int, NEW a \in Int, NEW c \in Int
  PROVE  /\ Latest(Ended(ends, P) \cup {a, c}) \in Nat
         /\ a <= Latest(Ended(ends, P) \cup {a, c})
<1> DEFINE times == Ended(ends, P) \cup {a, c}
<1>1. PICK b \in Nat : \A p \in P : ends[p] <= b
  BY BoundedImage
<1>2. PICK d \in Nat : b <= d /\ a <= d /\ c <= d
  <2> DEFINE e == IF a >= c THEN a ELSE c
             d == IF b >= e THEN b ELSE e
  <2>1. e \in Int /\ a <= e /\ c <= e
    OBVIOUS
  <2> HIDE DEF e
  <2>2. d \in Nat /\ b <= d /\ e <= d
    BY <2>1
  <2> HIDE DEF d
  <2>3. a <= d /\ c <= d
    BY <2>1, <2>2
  <2>4. QED
    BY <2>2, <2>3
<1>3. \A p \in P : ends[p] <= d
  BY <1>1, <1>2
<1>4. times \in SUBSET Int /\ a \in times /\ \A x \in times : x <= d
  BY <1>2, <1>3 DEF Ended
<1> HIDE DEF times
<1>5. Latest(times) \in Nat /\ \A x \in times : x <= Latest(times)
  BY <1>4, LatestIs
<1>6. QED
  BY <1>4, <1>5 DEF times

\* What a task waits for are tasks.
LEMMA PredecessorsAre ==
  ASSUME NEW list \in [Task -> TaskRecord], NEW links, NEW t
  PROVE  Predecessors(list, links, t) \in SUBSET Task /\ IsFiniteSet(Predecessors(list, links, t))
<1>1. DOMAIN list = Task
  OBVIOUS
<1>2. Predecessors(list, links, t) \subseteq Task
  BY <1>1 DEF Predecessors
<1>3. QED
  BY <1>2, LightPlanConstants, FS_Subset
-----------------------------------------------------------------------------
(* Placing the slices.                                                     *)

\* What is shown of a slice.
PlacedCard == [task : Task, rest : BOOLEAN, bucket : DOMAIN Frames, at : Busy, planned : Nat, revived : BOOLEAN]

\* What Placed goes through.
PlacingState(units) ==
  [occupied : SUBSET Busy, cursor : [DOMAIN Frames -> Nat], ends : [Task -> Nat], placed : SUBSET PlacedCard,
   overflow : [units -> Nat]]

\* What is placed starts from now on, apart from what was taken before and
\* from each other.
WellPlaced(s, taken, time) ==
  /\ taken \subseteq s.occupied
  /\ \A p \in s.placed : p.at \in s.occupied /\ time <= p.at.from /\ \A o \in taken : ~Overlap(p.at, o)
  /\ \A p, q \in s.placed : p # q => ~Overlap(p.at, q.at)

\* The pieces of a unit, and which of the first n slices are its own.
Pieces(placed, u) == {p.at : p \in {r \in placed : r.task = u[1] /\ r.rest = u[2]}}

\* The slices of a unit among the first n of a line.
FirstOf(line, n, u) == {s \in OpenSlice : s.task = u[1] /\ s.rest = u[2] /\ \E i \in 1..n : line[i] = s}

\* The moments placed of a unit and what no longer fits are the work of its
\* first slices, and what did not fit before.
Counted(s, line, n, units, over) ==
  \A u \in units :
    /\ IsFiniteSet(Moments(Pieces(s.placed, u))) /\ IsFiniteSet(Work(FirstOf(line, n, u)))
    /\ Cardinality(Moments(Pieces(s.placed, u))) + s.overflow[u] = Cardinality(Work(FirstOf(line, n, u))) + over[u]

\* The cards that a slice's pieces become.
NewCards(unit, pieces) ==
  {[task |-> unit.task, rest |-> unit.rest, bucket |-> unit.bucket, at |-> p, planned |-> unit.start,
    revived |-> unit.revived] : p \in pieces}

\* Each piece of a slice is a card.
LEMMA NewCardsAre ==
  ASSUME NEW unit \in OpenSlice, NEW pieces \in SUBSET Busy
  PROVE  /\ NewCards(unit, pieces) \in SUBSET PlacedCard
         /\ \A c \in NewCards(unit, pieces) : c.task = unit.task /\ c.rest = unit.rest /\ c.at \in pieces
         /\ \A c, d \in NewCards(unit, pieces) : c # d => c.at # d.at
         /\ \A p \in pieces : \E c \in NewCards(unit, pieces) : c.at = p
<1> DEFINE Card6(p) == [task |-> unit.task, rest |-> unit.rest, bucket |-> unit.bucket, at |-> p,
                        planned |-> unit.start, revived |-> unit.revived]
<1>1. ASSUME NEW p \in pieces
      PROVE  /\ Card6(p) \in PlacedCard /\ Card6(p).task = unit.task /\ Card6(p).rest = unit.rest
             /\ Card6(p).at = p
  <2>1. /\ unit.task \in Task /\ unit.rest \in BOOLEAN /\ unit.bucket \in DOMAIN Frames /\ unit.start \in Nat
        /\ unit.revived \in BOOLEAN /\ p \in Busy
    BY DEF OpenSlice
  <2>2. QED
    BY <2>1 DEF PlacedCard
<1>2. NewCards(unit, pieces) = {Card6(p) : p \in pieces}
  BY DEF NewCards
<1> HIDE DEF Card6
<1>3. QED
  BY <1>1, <1>2

\* A slice is placed in free time, and keeps what was placed apart.
LEMMA TookKeeps ==
  ASSUME NEW units \in SUBSET (Task \X BOOLEAN), NEW s \in PlacingState(units), NEW unit \in OpenSlice,
         <<unit.task, unit.rest>> \in units, NEW taken, NEW time \in Nat, WellPlaced(s, taken, time),
         NEW from \in Nat, time <= from, NEW until \in Nat, NEW f, FitsIn(f, unit.length, from, until, s.occupied)
  PROVE  Took(s, unit, f) \in PlacingState(units) /\ WellPlaced(Took(s, unit, f), taken, time)
<1> DEFINE end == LastEnd(f.pieces)
           new == NewCards(unit, f.pieces)
           occupied == s.occupied \cup f.pieces
           cursor == IF f.pieces = {} THEN s.cursor ELSE [s.cursor EXCEPT ![unit.bucket] = end]
           ends == LaterEnd(s.ends, unit.task, end)
           placed == s.placed \cup new
           key == <<unit.task, unit.rest>>
           overflow == [s.overflow EXCEPT ![key] = @ + f.left]
           next == [occupied |-> occupied, cursor |-> cursor, ends |-> ends, placed |-> placed, overflow |-> overflow]
<1>1. Took(s, unit, f) = next
  BY DEF Took, Occupy, NewCards
<1>2. /\ s.occupied \in SUBSET Busy /\ s.cursor \in [DOMAIN Frames -> Nat] /\ s.ends \in [Task -> Nat]
      /\ s.placed \in SUBSET PlacedCard /\ s.overflow \in [units -> Nat]
  BY DEF PlacingState
<1>3. /\ f.pieces \in SUBSET Busy /\ f.left \in Nat /\ IsFiniteSet(f.pieces)
      /\ \A p \in f.pieces : /\ from <= p.from
                             /\ \A o \in s.occupied : ~Overlap(p, o) /\ ~Overlap(o, p)
                             /\ \A q \in f.pieces : p # q => ~Overlap(p, q)
  BY DEF FitsIn
<1>4. end \in Nat
  <2>1. f.pieces \in SUBSET Interval
    BY <1>3 DEF Busy
  <2>2. QED
    BY <1>3, <2>1, LastEndIs
<1>5. unit.task \in Task /\ unit.bucket \in DOMAIN Frames
  BY DEF OpenSlice
<1> HIDE DEF end
<1>6. occupied \in SUBSET Busy /\ cursor \in [DOMAIN Frames -> Nat]
  BY <1>2, <1>3, <1>4
<1>7. ends \in [Task -> Nat]
  <2>1. s.ends[unit.task] \in Nat
    BY <1>2, <1>5
  <2>2. Larger(s.ends[unit.task], end) \in Nat
    BY <1>4, <2>1 DEF Larger
  <2>3. ends = [s.ends EXCEPT ![unit.task] = Larger(s.ends[unit.task], end)]
    BY DEF LaterEnd
  <2> HIDE DEF ends
  <2>4. QED
    BY <1>2, <2>2, <2>3
<1>8. /\ new \in SUBSET PlacedCard /\ \A c \in new : c.at \in f.pieces
      /\ \A c, d \in new : c # d => c.at # d.at
  BY <1>3, NewCardsAre
<1>9. overflow \in [units -> Nat]
  <2>1. s.overflow[key] \in Nat /\ s.overflow[key] + f.left \in Nat
    BY <1>2, <1>3
  <2>2. overflow = [s.overflow EXCEPT ![key] = s.overflow[key] + f.left]
    OBVIOUS
  <2> HIDE DEF overflow, key
  <2>3. QED
    BY <1>2, <2>1, <2>2
<1> HIDE DEF new, ends, cursor, overflow
<1>10. next \in PlacingState(units) /\ next.occupied = occupied /\ next.placed = placed
  BY <1>2, <1>6, <1>7, <1>8, <1>9 DEF PlacingState
<1> HIDE DEF next
<1>11. WellPlaced(next, taken, time)
  <2>1. taken \subseteq s.occupied
    BY DEF WellPlaced
  <2>2. ASSUME NEW p \in placed
        PROVE  p.at \in occupied /\ time <= p.at.from /\ \A o \in taken : ~Overlap(p.at, o)
    <3>1. CASE p \in s.placed
      BY <3>1 DEF WellPlaced
    <3>2. CASE p \in new
      <4>1. p.at \in f.pieces /\ p.at \in Busy
        BY <1>3, <1>8, <3>2
      <4>2. from <= p.at.from /\ p.at.from \in Nat
        BY <1>3, <4>1 DEF Busy, Interval
      <4>3. QED
        BY <1>3, <2>1, <4>1, <4>2
    <3>3. QED
      BY <3>1, <3>2
  <2>3. ASSUME NEW p \in placed, NEW q \in placed, p # q PROVE ~Overlap(p.at, q.at)
    <3>1. CASE p \in s.placed /\ q \in s.placed
      BY <2>3, <3>1 DEF WellPlaced
    <3>2. CASE p \in s.placed /\ q \in new
      <4>1. p.at \in s.occupied
        BY <3>2 DEF WellPlaced
      <4>2. QED
        BY <1>3, <1>8, <3>2, <4>1
    <3>3. CASE p \in new /\ q \in s.placed
      <4>1. q.at \in s.occupied
        BY <3>3 DEF WellPlaced
      <4>2. QED
        BY <1>3, <1>8, <3>3, <4>1
    <3>4. CASE p \in new /\ q \in new
      BY <1>3, <1>8, <2>3, <3>4
    <3>5. QED
      BY <3>1, <3>2, <3>3, <3>4
  <2>4. QED
    BY <1>10, <2>1, <2>2, <2>3 DEF WellPlaced
<1>12. QED
  BY <1>1, <1>10, <1>11

\* The work of a slice is placed, or told that it no longer fits.
LEMMA TookCounts ==
  ASSUME NEW units \in SUBSET (Task \X BOOLEAN), NEW s \in PlacingState(units), NEW n \in Nat \ {0},
         NEW line, NEW unit \in OpenSlice, line[n] = unit, <<unit.task, unit.rest>> \in units,
         \A i \in 1..(n - 1) : line[i].task = unit.task /\ line[i].rest = unit.rest => line[i].start # unit.start,
         NEW taken, NEW time, WellPlaced(s, taken, time), NEW over \in [units -> Nat],
         NEW from, NEW until, NEW f, FitsIn(f, unit.length, from, until, s.occupied),
         Counted(s, line, n - 1, units, over)
  PROVE  Counted(Took(s, unit, f), line, n, units, over)
<1> DEFINE next == Took(s, unit, f)
           key == <<unit.task, unit.rest>>
           new == NewCards(unit, f.pieces)
<1>1. /\ f.pieces \in SUBSET Busy /\ f.left \in Nat /\ IsFiniteSet(Moments(f.pieces))
      /\ Cardinality(Moments(f.pieces)) + f.left = unit.length
      /\ \A p \in f.pieces : \A o \in s.occupied : ~Overlap(o, p)
  BY DEF FitsIn
<1>2. next.placed = s.placed \cup new /\ next.overflow = [s.overflow EXCEPT ![key] = @ + f.left]
  BY DEF Took, NewCards
<1>3. s.placed \in SUBSET PlacedCard /\ s.overflow \in [units -> Nat]
  BY DEF PlacingState
<1>4. /\ \A c \in new : c.task = unit.task /\ c.rest = unit.rest /\ c.at \in f.pieces
      /\ \A p \in f.pieces : \E c \in new : c.at = p
  BY <1>1, NewCardsAre
<1> HIDE DEF next, new
<1>5. ASSUME NEW u \in units
      PROVE  /\ IsFiniteSet(Moments(Pieces(next.placed, u))) /\ IsFiniteSet(Work(FirstOf(line, n, u)))
             /\ Cardinality(Moments(Pieces(next.placed, u))) + next.overflow[u]
                  = Cardinality(Work(FirstOf(line, n, u))) + over[u]
  <2> DEFINE before == Pieces(s.placed, u)
             work == FirstOf(line, n - 1, u)
  <2>1. /\ IsFiniteSet(Moments(before)) /\ IsFiniteSet(Work(work))
        /\ Cardinality(Moments(before)) + s.overflow[u] = Cardinality(Work(work)) + over[u]
    BY DEF Counted
  <2>2. s.overflow[u] \in Nat /\ over[u] \in Nat
    BY <1>3
  <2>3. u = <<u[1], u[2]>>
    OBVIOUS
  <2>4. \A i \in 1..n : i = n \/ i \in 1..(n - 1)
    OBVIOUS
  <2>5. \A i \in 1..(n - 1) : i \in 1..n
    OBVIOUS
  <2>6. n \in 1..n
    OBVIOUS
  <2>7. CASE u = key
    <3>1. u[1] = unit.task /\ u[2] = unit.rest
      BY <2>7
    <3>2. Pieces(next.placed, u) = before \cup f.pieces
      BY <1>2, <1>4, <3>1 DEF Pieces
    <3>3. FirstOf(line, n, u) = work \cup {unit}
      BY <2>4, <2>5, <2>6, <3>1 DEF FirstOf
    <3>4. work \in SUBSET OpenSlice /\ \A r \in work : r.start # unit.start
      BY <3>1 DEF FirstOf
    <3>5. before \in SUBSET Busy /\ \A p \in before : \A q \in f.pieces : ~Overlap(p, q)
      <4>1. \A c \in s.placed : c.at \in s.occupied /\ c.at \in Busy
        BY <1>3 DEF WellPlaced, PlacedCard
      <4>2. QED
        BY <1>1, <4>1 DEF Pieces
    <3>6. next.overflow[u] = s.overflow[u] + f.left
      BY <1>2, <1>3, <2>7
    <3> HIDE DEF before, work
    <3>7. /\ IsFiniteSet(Work(work \cup {unit}))
          /\ Cardinality(Work(work \cup {unit})) = Cardinality(Work(work)) + unit.length
      BY <2>1, <3>4, WorkOfOneMore
    <3>8. /\ IsFiniteSet(Moments(before \cup f.pieces))
          /\ Cardinality(Moments(before \cup f.pieces)) = Cardinality(Moments(before)) + Cardinality(Moments(f.pieces))
      BY <1>1, <2>1, <3>5, MomentsAddUp
    <3>9. /\ Cardinality(Moments(before)) \in Nat /\ Cardinality(Moments(f.pieces)) \in Nat
          /\ Cardinality(Work(work)) \in Nat
      BY <1>1, <2>1, FS_CardinalityType
    <3>10. unit.length \in Nat
      BY DEF OpenSlice
    <3> DEFINE a == Cardinality(Moments(before))
               b == Cardinality(Moments(f.pieces))
               w == Cardinality(Work(work))
               x == s.overflow[u]
               y == f.left
               l == unit.length
               o == over[u]
    <3>11. /\ a \in Nat /\ b \in Nat /\ w \in Nat /\ x \in Nat /\ y \in Nat /\ l \in Nat /\ o \in Nat
           /\ a + x = w + o /\ b + y = l
      BY <1>1, <2>1, <2>2, <3>9, <3>10
    <3> HIDE DEF a, b, w, x, y, l, o
    <3>12. (a + b) + (x + y) = (w + l) + o
      BY <3>11
    <3>13. /\ Cardinality(Moments(Pieces(next.placed, u))) = a + b
           /\ next.overflow[u] = x + y
           /\ Cardinality(Work(FirstOf(line, n, u))) = w + l
      BY <3>2, <3>3, <3>6, <3>7, <3>8 DEF a, b, w, x, y, l
    <3>14. IsFiniteSet(Moments(Pieces(next.placed, u))) /\ IsFiniteSet(Work(FirstOf(line, n, u)))
      BY <3>2, <3>3, <3>7, <3>8
    <3>15. QED
      BY <3>12, <3>13, <3>14 DEF o
  <2>8. CASE u # key
    <3>1. ~(u[1] = unit.task /\ u[2] = unit.rest)
      BY <2>3, <2>8
    <3>2. Pieces(next.placed, u) = before
      BY <1>2, <1>4, <3>1 DEF Pieces
    <3>3. FirstOf(line, n, u) = work
      BY <2>4, <2>5, <3>1 DEF FirstOf
    <3>4. next.overflow[u] = s.overflow[u]
      BY <1>2, <1>3, <2>8
    <3>5. QED
      BY <2>1, <3>2, <3>3, <3>4
  <2>9. QED
    BY <2>7, <2>8
<1>6. Counted(next, line, n, units, over)
  BY <1>5 DEF Counted
<1>7. QED
  BY <1>6 DEF next

\* The same, n slices further.
Placing(line, units, taken, time, over, n) ==
  {s \in PlacingState(units) : WellPlaced(s, taken, time) /\ Counted(s, line, n, units, over)}

\* The slices to place: each of a unit, and no two of one unit start at once.
InLine(line, units) ==
  /\ line \in Seq(OpenSlice)
  /\ \A i \in 1..Len(line) : <<line[i].task, line[i].rest>> \in units
  /\ \A i, j \in 1..Len(line) :
       line[i].task = line[j].task /\ line[i].rest = line[j].rest /\ line[i].start = line[j].start => i = j

\* One slice more is placed.
LEMMA PlaceKeeps ==
  ASSUME NEW list \in [Task -> TaskRecord], NEW links, NEW time \in Nat, NEW units \in SUBSET (Task \X BOOLEAN),
         NEW line, InLine(line, units), NEW taken, NEW over \in [units -> Nat], NEW n \in 1..Len(line),
         NEW s \in Placing(line, units, taken, time, over, n - 1)
  PROVE  Place(s, line[n], Frames, list, links, time) \in Placing(line, units, taken, time, over, n)
<1> DEFINE unit == line[n]
           t == unit.task
           notBefore == IF list[t].appointment THEN NoTime ELSE list[t].occurrence
           P == Predecessors(list, links, t)
           bucketFrom == BucketFrom(Frames, s.cursor, unit.bucket, time)
           from == Latest(Ended(s.ends, P) \cup {bucketFrom, notBefore})
           until == Frames[unit.bucket].to
           f == Fill(unit.length, from, until, s.occupied)
<1>1. /\ s \in PlacingState(units) /\ WellPlaced(s, taken, time) /\ Counted(s, line, n - 1, units, over)
      /\ Len(line) \in Nat /\ n \in Nat \ {0}
  BY DEF Placing, InLine
<1>2. unit \in OpenSlice /\ <<unit.task, unit.rest>> \in units
  BY DEF InLine
<1>3. t \in Task /\ unit.bucket \in DOMAIN Frames /\ unit.length \in Nat
  BY <1>2 DEF OpenSlice
<1>4. Frames[unit.bucket].from \in Nat /\ until \in Nat
  BY <1>3, WeekBounds DEF Interval
<1>5. /\ s.occupied \in SUBSET Busy /\ s.cursor \in [DOMAIN Frames -> Nat] /\ s.ends \in [Task -> Nat]
  BY <1>1 DEF PlacingState
<1>6. bucketFrom \in Int /\ time <= bucketFrom
  <2>1. s.cursor[unit.bucket] \in Nat
    BY <1>3, <1>5
  <2>2. QED
    BY <1>4, <2>1 DEF BucketFrom, Larger
<1>7. notBefore \in Int
  BY <1>3, RecordIs DEF NoTime
<1>8. P \in SUBSET Task /\ IsFiniteSet(P)
  BY PredecessorsAre
<1>9. Place(s, unit, Frames, list, links, time) = Took(s, unit, f)
  BY DEF Place, Ended
<1> HIDE DEF unit, bucketFrom, notBefore, P, until
<1>10. \A p \in P : s.ends[p] \in Int
  BY <1>5, <1>8
<1>11. from \in Nat /\ bucketFrom <= from
  BY <1>6, <1>7, <1>8, <1>10, FromIs
<1> HIDE DEF from
<1>12. time <= from
  BY <1>6, <1>11
<1>13. FitsIn(f, unit.length, from, until, s.occupied)
  BY <1>3, <1>4, <1>5, <1>11, FillFits
<1> HIDE DEF f
<1>14. Took(s, unit, f) \in PlacingState(units) /\ WellPlaced(Took(s, unit, f), taken, time)
  BY <1>1, <1>2, <1>4, <1>11, <1>12, <1>13, TookKeeps
<1>15. ASSUME NEW i \in 1..(n - 1), line[i].task = unit.task, line[i].rest = unit.rest, line[i].start = unit.start
       PROVE  FALSE
  <2>1. i \in 1..Len(line) /\ i # n
    BY <1>1
  <2>2. i = n
    BY <1>15, <2>1 DEF InLine, unit
  <2>3. QED
    BY <2>1, <2>2
<1>16. Counted(Took(s, unit, f), line, n, units, over)
  BY <1>1, <1>2, <1>13, <1>15, TookCounts DEF unit
<1>17. Took(s, unit, f) \in Placing(line, units, taken, time, over, n)
  BY <1>14, <1>16 DEF Placing
<1>18. QED
  BY <1>9, <1>17 DEF unit

\* One slice after the other.
LEMMA PlacedIs ==
  ASSUME NEW list \in [Task -> TaskRecord], NEW links, NEW time \in Nat, NEW units \in SUBSET (Task \X BOOLEAN),
         NEW line, InLine(line, units), NEW taken, NEW over \in [units -> Nat],
         NEW first \in Placing(line, units, taken, time, over, 0)
  PROVE  Placed(line, Frames, list, links, time, first) \in Placing(line, units, taken, time, over, Len(line))
<1> DEFINE N == Len(line)
           Step(s, n) == Place(s, line[n], Frames, list, links, time)
           L == [n \in 0..N |-> Placing(line, units, taken, time, over, n)]
           all == UNION {L[n] : n \in 0..N}
           F == [p \in all \X (1..N) |-> Step(p[1], p[2])]
           placed == CHOOSE f : f = [n \in 0..N |-> IF n = 0 THEN first
                                     ELSE Place(f[n - 1], line[n], Frames, list, links, time)]
<1>1. N \in Nat
  BY DEF InLine
<1>2. first \in L[0]
  BY <1>1
<1>3. ASSUME NEW n \in 1..N, NEW s \in L[n - 1] PROVE Step(s, n) \in L[n]
  <2>1. n - 1 \in 0..N /\ n \in 0..N
    BY <1>1
  <2>2. s \in Placing(line, units, taken, time, over, n - 1)
    BY <2>1
  <2>3. Place(s, line[n], Frames, list, links, time) \in Placing(line, units, taken, time, over, n)
    BY <2>2, PlaceKeeps
  <2>4. QED
    BY <2>1, <2>3
<1>4. \A n \in 1..N : \A s \in L[n - 1] : F[<<s, n>>] = Step(s, n)
  <2> SUFFICES ASSUME NEW n \in 1..N, NEW s \in L[n - 1] PROVE F[<<s, n>>] = Step(s, n)
    OBVIOUS
  <2> HIDE DEF L, Step
  <2>1. n - 1 \in 0..N
    BY <1>1
  <2>2. <<s, n>> \in all \X (1..N)
    BY <2>1
  <2> HIDE DEF all
  <2>3. QED
    BY <2>2
<1> HIDE DEF N, L, all, F, Step
<1>5. \A n \in 1..N : \A s \in L[n - 1] : F[<<s, n>>] \in L[n]
  BY <1>3, <1>4
<1>6. PICK g : RunsTo(g, F, first, N) /\ \A n \in 0..N : g[n] \in L[n]
  BY <1>1, <1>2, <1>5, Recursion
<1>7. \A n \in 1..N : F[<<g[n - 1], n>>] = Step(g[n - 1], n)
  BY <1>1, <1>4, <1>6
<1>8. g = [n \in 0..N |-> IF n = 0 THEN first ELSE Step(g[n - 1], n)]
  <2>1. g = [n \in 0..N |-> IF n = 0 THEN first ELSE F[<<g[n - 1], n>>]]
    BY <1>6 DEF RunsTo
  <2>2. [n \in 0..N |-> IF n = 0 THEN first ELSE F[<<g[n - 1], n>>]]
          = [n \in 0..N |-> IF n = 0 THEN first ELSE Step(g[n - 1], n)]
    BY <1>1, <1>7
  <2>3. QED
    BY <2>1, <2>2
<1>9. placed = [n \in 0..N |-> IF n = 0 THEN first ELSE Step(placed[n - 1], n)]
  <2>1. placed = CHOOSE f : f = [n \in 0..N |-> IF n = 0 THEN first ELSE Step(f[n - 1], n)]
    BY DEF Step
  <2> HIDE DEF placed
  <2>2. QED
    BY <1>8, <2>1
<1> HIDE DEF placed
<1>10. \A n \in 0..N : placed[n] \in L[n]
  <2>1. placed[0] \in L[0]
    BY <1>1, <1>2, <1>9
  <2>2. ASSUME NEW n \in 1..N, placed[n - 1] \in L[n - 1] PROVE placed[n] \in L[n]
    <3>1. placed[n] = Step(placed[n - 1], n)
      BY <1>1, <1>9
    <3>2. QED
      BY <1>3, <2>2, <3>1
  <2>3. QED
    BY <1>1, <2>1, <2>2, RecursionKeeps
<1>11. Placed(line, Frames, list, links, time, first) = placed[N]
  BY DEF Placed, placed, N
<1>12. placed[N] \in Placing(line, units, taken, time, over, N)
  BY <1>1, <1>10 DEF L
<1>13. QED
  BY <1>11, <1>12 DEF N
-----------------------------------------------------------------------------
(* The light plan.                                                         *)

\* A plan: no two of its slices that have a bucket start at once.
PlanIs(slices) ==
  /\ slices \in SUBSET Slice /\ IsFiniteSet(slices)
  /\ \A s, r \in slices : s.bucket # NoBucket /\ r.bucket # NoBucket /\ s.start = r.start => s = r

\* Planned are units of tasks, finitely many.
LEMMA UnitsAre ==
  ASSUME NEW list \in [Task -> TaskRecord], NEW slices, PlanIs(slices), NEW time
  PROVE  /\ UnitsOf(list, slices, time) \in SUBSET (Task \X BOOLEAN) /\ IsFiniteSet(UnitsOf(list, slices, time))
<1> DEFINE open == {p \in slices : p.bucket # NoBucket /\ p.task \in DOMAIN list \ FromTask(list, slices, time)}
           unit == [s \in open |-> <<s.task, s.rest>>]
<1>1. IsFiniteSet(open)
  BY FS_Subset DEF PlanIs
<1>2. UnitsOf(list, slices, time) = {unit[s] : s \in open}
  BY DEF UnitsOf
<1>3. \A s \in open : unit[s] \in Task \X BOOLEAN
  BY DEF PlanIs, Slice
<1> HIDE DEF open, unit
<1>4. IsFiniteSet({unit[s] : s \in open})
  BY <1>1, FiniteImage
<1>5. QED
  BY <1>2, <1>3, <1>4

\* The slices of a unit in a plan.
LEMMA SlicesAre ==
  ASSUME NEW slices, PlanIs(slices), NEW u \in Task \X BOOLEAN
  PROVE  /\ SlicesOf(slices, u) \in SUBSET UnitSlice(u) /\ IsFiniteSet(SlicesOf(slices, u))
         /\ StartApart(SlicesOf(slices, u))
<1>1. SlicesOf(slices, u) \subseteq slices
  BY DEF SlicesOf
<1>2. IsFiniteSet(SlicesOf(slices, u))
  BY <1>1, FS_Subset DEF PlanIs
<1>3. ASSUME NEW s \in SlicesOf(slices, u) PROVE s \in UnitSlice(u)
  <2>1. s \in Slice /\ s.bucket # NoBucket /\ <<s.task, s.rest>> = u
    BY <1>3 DEF SlicesOf, PlanIs
  <2>2. s \in OpenSlice
    BY <2>1 DEF Slice, OpenSlice
  <2>3. QED
    BY <2>1, <2>2 DEF UnitSlice
<1>4. StartApart(SlicesOf(slices, u))
  BY DEF StartApart, SlicesOf, PlanIs
<1>5. QED
  BY <1>2, <1>3, <1>4

\* Times that are not over before they begin.
Time == {o \in Interval : o.from <= o.to}

\* A reminder is shown at a time.
LEMMA RemindersAre ==
  ASSUME NEW list \in [Task -> TaskRecord]
  PROVE  /\ \A r \in Reminders(list) : r.task \in Task /\ r.at \in Time
         /\ IsFiniteSet(Reminders(list))
<1> DEFINE some == {s \in DOMAIN list : IsReminder(list, s) /\ list[s].start # NoTime}
           f == [t \in some |-> [task |-> t, at |-> Span(list[t].start, list[t].start + list[t].duration)]]
<1>1. some \subseteq Task
  OBVIOUS
<1>2. Reminders(list) = {f[t] : t \in some}
  BY DEF Reminders
<1>3. ASSUME NEW t \in some PROVE f[t].task \in Task /\ f[t].at \in Time
  <2>1. list[t].start \in Nat /\ list[t].duration \in Nat
    BY <1>1, RecordIs
  <2> DEFINE a == list[t].start
             b == list[t].start + list[t].duration
  <2>2. a \in Nat /\ b \in Nat /\ a <= b
    BY <2>1
  <2>3. f[t].task = t /\ f[t].at = Span(a, b)
    OBVIOUS
  <2> HIDE DEF a, b
  <2>4. Span(a, b) \in Time
    BY <2>2, SpanIs DEF Time
  <2>5. QED
    BY <1>1, <2>3, <2>4
<1>4. IsFiniteSet(some)
  BY <1>1, LightPlanConstants, FS_Subset
<1> HIDE DEF f, some
<1>5. IsFiniteSet({f[t] : t \in some})
  BY <1>4, FiniteImage
<1>6. QED
  BY <1>2, <1>3, <1>5

\* The past is shown as it was planned, at most until the task was done.
LEMMA HistoryIs ==
  ASSUME NEW time \in Nat, NEW list, TasksAt(list, time), NEW slices, PlanIs(slices), NEW anchored, NEW carried
  PROVE  \A h \in History(slices, list, time, anchored, carried) : h.task \in Task /\ h.at \in Time
<1> DEFINE Past(s) == /\ s.task \in DOMAIN list
                      /\ ~(s.task \in FromTask(list, slices, time) /\ ~list[s.task].done)
                      /\ IF s.bucket = NoBucket THEN list[s.task].done \/ list[s.task].start = NoTime
                         ELSE EndOf(s) <= time \/ (list[s.task].done /\ s.start < Smaller(time, list[s.task].doneAt))
           Until(s) == IF EndOf(s) <= time \/ s.bucket = NoBucket THEN EndOf(s)
                       ELSE Smaller(time, list[s.task].doneAt)
<1>1. list \in [Task -> TaskRecord] /\ \A t \in Task : list[t].done => list[t].doneAt # NoTime
  BY DEF TasksAt
<1>2. ASSUME NEW s \in slices, Past(s) PROVE s.task \in Task /\ Span(s.start, Until(s)) \in Time
  <2>1. s.task \in Task /\ s.start \in Nat /\ s.length \in Nat
    BY DEF PlanIs, Slice
  <2>2. EndOf(s) \in Nat /\ s.start <= EndOf(s)
    BY <2>1 DEF EndOf
  <2>3. CASE EndOf(s) <= time \/ s.bucket = NoBucket
    <3>1. Until(s) \in Nat /\ s.start <= Until(s)
      BY <2>2, <2>3
    <3> HIDE DEF Until
    <3>2. QED
      BY <2>1, <3>1, SpanIs DEF Time
  <2>4. CASE ~(EndOf(s) <= time \/ s.bucket = NoBucket)
    <3>1. list[s.task].done /\ s.start < Smaller(time, list[s.task].doneAt)
      BY <1>2, <2>4
    <3>2. list[s.task].doneAt \in Nat
      BY <1>1, <2>1, <3>1, RecordIs
    <3>3. Until(s) \in Nat /\ s.start <= Until(s)
      BY <2>1, <2>4, <3>1, <3>2 DEF Smaller
    <3> HIDE DEF Until
    <3>4. QED
      BY <2>1, <3>3, SpanIs DEF Time
  <2>5. QED
    BY <2>1, <2>3, <2>4
<1>3. \A h \in History(slices, list, time, anchored, carried) :
        \E s \in slices : Past(s) /\ h.task = s.task /\ h.at = Span(s.start, Until(s))
  <2> SUFFICES ASSUME NEW h \in History(slices, list, time, anchored, carried)
               PROVE  \E s \in slices : Past(s) /\ h.task = s.task /\ h.at = Span(s.start, Until(s))
    OBVIOUS
  <2> DEFINE past == {s \in slices : Past(s)}
             Card2(s) == [task |-> s.task, at |-> Span(s.start, Until(s))]
  <2>1. \E s \in past : h = Card2(s)
    BY DEF History
  <2>2. PICK s \in past : h = Card2(s)
    BY <2>1
  <2>3. s \in slices /\ Past(s)
    OBVIOUS
  <2> HIDE DEF Past, Until
  <2>4. h.task = s.task /\ h.at = Span(s.start, Until(s))
    BY <2>2
  <2>5. QED
    BY <2>3, <2>4
<1> HIDE DEF Past, Until
<1>4. QED
  BY <1>2, <1>3

\* All slices to place.
AllOf(carried, units) == UNION {carried[u].place : u \in units}

\* They are placed one by one, and each unit has its own among them.
LEMMA ToPlaceIs ==
  ASSUME NEW units \in SUBSET (Task \X BOOLEAN), IsFiniteSet(units), NEW carried,
         \A u \in units : /\ carried[u].place \in SUBSET UnitSlice(u) /\ IsFiniteSet(carried[u].place)
                          /\ StartApart(carried[u].place)
  PROVE  /\ InLine(InOrder(AllOf(carried, units), Frames), units)
         /\ \A u \in units : FirstOf(InOrder(AllOf(carried, units), Frames),
                                     Len(InOrder(AllOf(carried, units), Frames)), u) = carried[u].place
<1> DEFINE S == AllOf(carried, units)
           line == InOrder(S, Frames)
           n == Cardinality(S)
<1>1. \A s : s \in S <=> \E u \in units : s \in carried[u].place
  BY DEF AllOf
<1>2. S \in SUBSET OpenSlice
  BY <1>1 DEF UnitSlice
<1>3. IsFiniteSet(S)
  <2> DEFINE place == [u \in units |-> carried[u].place]
  <2>1. S = UNION {place[u] : u \in units}
    BY DEF AllOf
  <2>2. \A u \in units : IsFiniteSet(place[u])
    OBVIOUS
  <2> HIDE DEF place, S
  <2>3. IsFiniteSet({place[u] : u \in units})
    BY FiniteImage
  <2>4. \A T \in {place[u] : u \in units} : IsFiniteSet(T)
    BY <2>2
  <2>5. QED
    BY <2>1, <2>3, <2>4, FS_UNION
<1> HIDE DEF S
<1>4. line \in Seq(S) /\ line \in Lines(S, n) /\ ToSet(line) = S
  BY <1>2, <1>3, InOrderIs
<1>5. n \in Nat
  BY <1>3, FS_CardinalityType
<1> HIDE DEF line, n
<1>6. line \in [1..n -> S] /\ \A i, j \in 1..n : line[i] = line[j] => i = j
  BY <1>4 DEF Lines
<1>7. Len(line) = n /\ line \in Seq(OpenSlice)
  <2>1. line \in [1..n -> OpenSlice]
    BY <1>2, <1>6
  <2>2. QED
    BY <1>5, <2>1, IsLine
<1>8. \A s : s \in S <=> \E i \in 1..n : line[i] = s
  BY <1>4, <1>7, OnLine
<1>9. ASSUME NEW s \in S PROVE <<s.task, s.rest>> \in units /\ s \in carried[<<s.task, s.rest>>].place
  <2>1. PICK u \in units : s \in carried[u].place
    BY <1>1
  <2>2. s.task = u[1] /\ s.rest = u[2]
    BY <2>1 DEF UnitSlice
  <2>3. u = <<u[1], u[2]>>
    OBVIOUS
  <2>4. u = <<s.task, s.rest>>
    BY <2>2, <2>3
  <2>5. QED
    BY <2>1, <2>4
<1>10. InLine(line, units)
  <2>1. ASSUME NEW i \in 1..n PROVE <<line[i].task, line[i].rest>> \in units
    BY <1>6, <1>9
  <2>2. ASSUME NEW i \in 1..n, NEW j \in 1..n, line[i].task = line[j].task, line[i].rest = line[j].rest,
               line[i].start = line[j].start
        PROVE  i = j
    <3> DEFINE u == <<line[i].task, line[i].rest>>
    <3>1. u \in units /\ line[i] \in carried[u].place /\ line[j] \in carried[u].place
      BY <1>6, <1>9, <2>2
    <3>2. line[i] = line[j]
      BY <2>2, <3>1 DEF StartApart
    <3>3. QED
      BY <1>6, <3>2
  <2>3. QED
    BY <1>7, <2>1, <2>2 DEF InLine
<1>11. ASSUME NEW u \in units PROVE FirstOf(line, n, u) = carried[u].place
  <2>1. u = <<u[1], u[2]>>
    OBVIOUS
  <2>2. ASSUME NEW s \in FirstOf(line, n, u) PROVE s \in carried[u].place
    <3>1. s \in S /\ s.task = u[1] /\ s.rest = u[2]
      BY <1>8 DEF FirstOf
    <3>2. QED
      BY <1>9, <2>1, <3>1
  <2>3. ASSUME NEW s \in carried[u].place PROVE s \in FirstOf(line, n, u)
    <3>1. s \in S /\ s \in OpenSlice /\ s.task = u[1] /\ s.rest = u[2]
      BY <1>1, <2>3 DEF UnitSlice
    <3>2. QED
      BY <1>8, <3>1 DEF FirstOf
  <2>4. QED
    BY <2>2, <2>3
<1>12. QED
  BY <1>7, <1>10, <1>11 DEF line, S

\* What planning light shows of a plan at some time: nothing twice, and all the
\* work that is needed.
LightFits(l, list, slices, time) ==
  /\ l.placed \in SUBSET PlacedCard /\ l.anchored \in SUBSET Anchored
  /\ \A c \in l.reminders \cup l.history : c.task \in Task /\ c.at \in Time
  /\ \A p \in l.placed : /\ time <= p.at.from
                         /\ \A q \in l.placed \ {p} : ~Overlap(p.at, q.at)
                         /\ \A b \in l.anchored : ~Overlap(p.at, b.at)
  /\ DOMAIN l.overflow = UnitsOf(list, slices, time)
  /\ \A u \in UnitsOf(list, slices, time) :
       LET shown == Cardinality(Moments(Pieces(l.placed, u)))
           needed == Needed(list[u[1]], u[2], time) IN
       /\ u \in Task \X BOOLEAN
       /\ list[u[1]].occurrence = NoTime => shown + l.overflow[u] + l.dropped[u] = needed
       /\ shown + l.overflow[u] <= needed

\* The light plan of any plan: nothing where something else is, and no work lost
\* or done twice (lightPlan.ts).
LEMMA LightIs ==
  ASSUME NEW time \in Nat, NEW list, TasksAt(list, time), NEW links, NEW slices, PlanIs(slices),
         NEW order \in Seq(Task)
  PROVE  LightFits(Light(slices, Frames, list, links, time, order), list, slices, time)
<1> DEFINE units == UnitsOf(list, slices, time)
           slid == Slid(list, slices, time, order)
           carried == [u \in units |-> Carried(list[u[1]], u[2], SlicesOf(slices, u), time, Frames)]
           over == [u \in units |-> carried[u].overflow]
           Blocks1(t) == {s.at : s \in {r \in slid.anchored \cup Reminders(list) : r.task = t}}
           first == [occupied |-> slid.occupied, cursor |-> [b \in DOMAIN Frames |-> 0],
                     ends |-> [t \in DOMAIN list |-> LastEnd(Blocks1(t))], placed |-> {}, overflow |-> over]
           line == InOrder(AllOf(carried, units), Frames)
           done == Placed(line, Frames, list, links, time, first)
           history == History(slices, list, time, slid.anchored, carried)
           l == [anchored |-> slid.anchored, reminders |-> Reminders(list), placed |-> done.placed,
                 history |-> history, overflow |-> done.overflow, slidOver |-> slid.overflow,
                 dropped |-> [u \in units |-> carried[u].dropped]]
<1>1. list \in [Task -> TaskRecord] /\ DOMAIN list = Task
  BY DEF TasksAt
<1>2. Light(slices, Frames, list, links, time, order) = l
  BY DEF Light, Around, AllOf
<1>3. units \in SUBSET (Task \X BOOLEAN) /\ IsFiniteSet(units)
  BY <1>1, UnitsAre
<1>4. slid \in SlidStates
  BY <1>1, SlidIs
<1>5. /\ slid.occupied \in SUBSET Busy /\ slid.anchored \in SUBSET Anchored /\ IsFiniteSet(slid.anchored)
      /\ \A b \in slid.anchored : b.at \in slid.occupied
  BY <1>4 DEF SlidStates, SlidOver
<1>6. \A c \in Reminders(list) \cup history : c.task \in Task /\ c.at \in Time
  BY <1>1, RemindersAre, HistoryIs
<1>7. ASSUME NEW u \in units PROVE Accounted(carried[u], u, list[u[1]], Needed(list[u[1]], u[2], time))
  <2>1. u \in Task \X BOOLEAN
    BY <1>3
  <2>2. /\ SlicesOf(slices, u) \in SUBSET UnitSlice(u) /\ IsFiniteSet(SlicesOf(slices, u))
        /\ StartApart(SlicesOf(slices, u))
    BY <2>1, SlicesAre
  <2>3. carried[u] = Carried(list[u[1]], u[2], SlicesOf(slices, u), time, Frames)
    OBVIOUS
  <2> HIDE DEF carried
  <2>4. Accounted(Carried(list[u[1]], u[2], SlicesOf(slices, u), time, Frames), u, list[u[1]],
                  Needed(list[u[1]], u[2], time))
    BY <1>1, <2>1, <2>2, CarriedIs
  <2>5. QED
    BY <2>3, <2>4
<1>8. over \in [units -> Nat]
  BY <1>7 DEF Accounted
<1>9. ASSUME NEW t \in Task PROVE LastEnd(Blocks1(t)) \in Nat
  <2> DEFINE R == slid.anchored \cup Reminders(list)
             T == {r \in R : r.task = t}
             at == [r \in T |-> r.at]
  <2>1. IsFiniteSet(R)
    BY <1>1, <1>5, RemindersAre, FS_Union
  <2>2. \A r \in R : r.at \in Interval
    BY <1>1, <1>5, RemindersAre DEF Anchored, Busy, Time
  <2>3. IsFiniteSet(T)
    BY <2>1, FS_Subset
  <2>4. Blocks1(t) = {at[r] : r \in T}
    OBVIOUS
  <2>5. Blocks1(t) \in SUBSET Interval
    BY <2>2
  <2> HIDE DEF T, at, Blocks1
  <2>6. IsFiniteSet({at[r] : r \in T})
    BY <2>3, FiniteImage
  <2>7. QED
    BY <2>4, <2>5, <2>6, LastEndIs
<1> HIDE DEF units, slid, carried, over, Blocks1
<1>10. \A u \in units : /\ carried[u].place \in SUBSET UnitSlice(u) /\ IsFiniteSet(carried[u].place)
                        /\ StartApart(carried[u].place)
  BY <1>7 DEF Accounted
<1>11. InLine(line, units) /\ \A u \in units : FirstOf(line, Len(line), u) = carried[u].place
  BY <1>3, <1>10, ToPlaceIs
<1> HIDE DEF line
<1>12. first \in Placing(line, units, slid.occupied, time, over, 0)
  <2>1. /\ first.occupied = slid.occupied /\ first.placed = {} /\ first.overflow = over
        /\ first.cursor \in [DOMAIN Frames -> Nat] /\ first.ends \in [Task -> Nat]
    BY <1>1, <1>9
  <2>2. first \in PlacingState(units)
    BY <1>1, <1>5, <1>8, <1>9 DEF PlacingState
  <2> HIDE DEF first
  <2>3. WellPlaced(first, slid.occupied, time)
    BY <2>1 DEF WellPlaced
  <2>4. \A u \in units : Pieces({}, u) = {} /\ FirstOf(line, 0, u) = {}
    BY DEF Pieces, FirstOf
  <2>5. Moments({}) = {} /\ Work({}) = {} /\ IsFiniteSet({}) /\ Cardinality({}) = 0
    BY FS_EmptySet DEF Moments, Work
  <2>6. Counted(first, line, 0, units, over)
    <3> SUFFICES ASSUME NEW u \in units
                 PROVE  /\ IsFiniteSet(Moments(Pieces(first.placed, u))) /\ IsFiniteSet(Work(FirstOf(line, 0, u)))
                        /\ Cardinality(Moments(Pieces(first.placed, u))) + first.overflow[u]
                             = Cardinality(Work(FirstOf(line, 0, u))) + over[u]
      BY DEF Counted
    <3>1. Moments(Pieces(first.placed, u)) = {} /\ Work(FirstOf(line, 0, u)) = {}
      BY <2>1, <2>4, <2>5
    <3>2. QED
      BY <2>1, <2>5, <3>1
  <2>7. QED
    BY <2>2, <2>3, <2>6 DEF Placing
<1> HIDE DEF first
<1>13. done \in Placing(line, units, slid.occupied, time, over, Len(line))
  BY <1>1, <1>3, <1>8, <1>11, <1>12, PlacedIs
<1> HIDE DEF done
<1>14. /\ done \in PlacingState(units) /\ WellPlaced(done, slid.occupied, time)
       /\ Counted(done, line, Len(line), units, over)
  BY <1>13 DEF Placing
<1>15. done.placed \in SUBSET PlacedCard /\ done.overflow \in [units -> Nat]
  BY <1>14 DEF PlacingState
<1>16. /\ l.anchored = slid.anchored /\ l.reminders = Reminders(list) /\ l.placed = done.placed
       /\ l.history = history /\ l.overflow = done.overflow /\ \A u \in units : l.dropped[u] = carried[u].dropped
  OBVIOUS
<1> HIDE DEF l, history
<1>17. ASSUME NEW p \in l.placed
       PROVE  /\ time <= p.at.from
              /\ \A q \in l.placed \ {p} : ~Overlap(p.at, q.at)
              /\ \A b \in l.anchored : ~Overlap(p.at, b.at)
  BY <1>5, <1>14, <1>16 DEF WellPlaced
<1>18. ASSUME NEW u \in units
       PROVE  /\ u \in Task \X BOOLEAN
              /\ list[u[1]].occurrence = NoTime =>
                   Cardinality(Moments(Pieces(l.placed, u))) + l.overflow[u] + l.dropped[u]
                     = Needed(list[u[1]], u[2], time)
              /\ Cardinality(Moments(Pieces(l.placed, u))) + l.overflow[u] <= Needed(list[u[1]], u[2], time)
  <2> DEFINE shown == Cardinality(Moments(Pieces(done.placed, u)))
             work == Cardinality(Work(carried[u].place))
             needed == Needed(list[u[1]], u[2], time)
             a == carried[u].overflow
             b == carried[u].dropped
             o == done.overflow[u]
  <2>1. FirstOf(line, Len(line), u) = carried[u].place
    BY <1>11
  <2>2. shown + o = work + a /\ IsFiniteSet(Moments(Pieces(done.placed, u)))
    BY <1>14, <2>1 DEF Counted, over
  <2>3. /\ a \in Nat /\ b \in Nat /\ work + a <= needed /\ IsFiniteSet(Work(carried[u].place))
        /\ list[u[1]].occurrence = NoTime => work + a + b = needed
    BY <1>7 DEF Accounted
  <2>4. u \in Task \X BOOLEAN
    BY <1>3
  <2>5. needed \in Nat
    BY <1>1, <2>4, NeededIs
  <2>6. shown \in Nat /\ work \in Nat /\ o \in Nat
    BY <1>15, <2>2, <2>3, FS_CardinalityType
  <2>7. l.overflow[u] = o /\ l.dropped[u] = b /\ Cardinality(Moments(Pieces(l.placed, u))) = shown
    BY <1>16
  <2> HIDE DEF shown, work, needed, a, b, o
  <2>8. shown + o <= needed /\ (work + a + b = needed => shown + o + b = needed)
    BY <2>2, <2>3, <2>5, <2>6
  <2>9. QED
    BY <2>3, <2>4, <2>7, <2>8 DEF needed
<1>19. LightFits(l, list, slices, time)
  <2>1. DOMAIN l.overflow = units
    BY <1>15, <1>16
  <2>2. \A c \in l.reminders \cup l.history : c.task \in Task /\ c.at \in Time
    BY <1>6, <1>16
  <2>3. l.placed \in SUBSET PlacedCard /\ l.anchored \in SUBSET Anchored
    BY <1>5, <1>15, <1>16
  <2>4. QED
    BY <1>17, <1>18, <2>1, <2>2, <2>3 DEF LightFits, units
<1>20. QED
  BY <1>2, <1>19
-----------------------------------------------------------------------------
(* A real plan.                                                            *)

\* The slices planned so far take their times, no two at once.
PacksWell(s) ==
  /\ IsFiniteSet(s.slices) /\ StartApart(s.slices)
  /\ \A x \in s.slices : x.length > 0 /\ Span(x.start, EndOf(x)) \in s.occupied

\* What Packed goes through.
Packing == {s \in [occupied : SUBSET Busy, slices : SUBSET OpenSlice] : PacksWell(s)}

\* What PutTask goes through, n buckets further.
Putting(n) ==
  {s \in [left : Nat, after : Nat, buckets : SUBSET DOMAIN Frames, occupied : SUBSET Busy, slices : SUBSET OpenSlice] :
     PacksWell(s) /\ Cardinality(s.buckets) + n = Cardinality(DOMAIN Frames)}

\* The slices that pieces in a bucket become.
NewSlices(t, rest, b, pieces) ==
  {[task |-> t, rest |-> rest, bucket |-> b, start |-> p.from, length |-> p.to - p.from, revived |-> FALSE] :
     p \in pieces}

\* Each piece of a task is a slice of the bucket, and of no other start.
LEMMA NewSlicesAre ==
  ASSUME NEW t \in Task, NEW rest \in BOOLEAN, NEW b \in DOMAIN Frames, NEW pieces \in SUBSET Busy, IsFiniteSet(pieces)
  PROVE  /\ NewSlices(t, rest, b, pieces) \in SUBSET OpenSlice /\ IsFiniteSet(NewSlices(t, rest, b, pieces))
         /\ \A x \in NewSlices(t, rest, b, pieces) :
              \E p \in pieces : x.start = p.from /\ x.length > 0 /\ Span(x.start, EndOf(x)) = p
         /\ \A x, y \in NewSlices(t, rest, b, pieces) :
              x # y => \E p, q \in pieces : p # q /\ x.start = p.from /\ y.start = q.from
<1> DEFINE f == [p \in pieces |-> [task |-> t, rest |-> rest, bucket |-> b, start |-> p.from, length |-> p.to - p.from,
                                   revived |-> FALSE]]
<1>1. NewSlices(t, rest, b, pieces) = {f[p] : p \in pieces}
  BY DEF NewSlices
<1>2. ASSUME NEW p \in pieces
      PROVE  /\ f[p] \in OpenSlice /\ f[p].start = p.from /\ f[p].length = p.to - p.from /\ f[p].length > 0
             /\ Span(f[p].start, EndOf(f[p])) = p
  <2>1. p.from \in Nat /\ p.to \in Nat /\ p.from < p.to /\ p = [from |-> p.from, to |-> p.to]
    BY DEF Busy, Interval
  <2> DEFINE l == p.to - p.from
             x == [task |-> t, rest |-> rest, bucket |-> b, start |-> p.from, length |-> l, revived |-> FALSE]
  <2>2. l \in Nat /\ l > 0 /\ p.from + l = p.to
    BY <2>1
  <2>3. f[p] = x
    OBVIOUS
  <2> HIDE DEF l, f
  <2>4. x \in OpenSlice /\ x.start = p.from /\ x.length = l
    BY <2>1, <2>2 DEF OpenSlice
  <2> HIDE DEF x
  <2>5. EndOf(x) = p.to
    BY <2>2, <2>4 DEF EndOf
  <2>6. Span(x.start, EndOf(x)) = p
    BY <2>1, <2>4, <2>5 DEF Span
  <2>7. QED
    BY <2>2, <2>3, <2>4, <2>6 DEF l
<1> HIDE DEF f
<1>3. IsFiniteSet({f[p] : p \in pieces})
  BY FiniteImage
<1>4. QED
  BY <1>1, <1>2, <1>3

\* One bucket more is tried.
LEMMA PutInKeeps ==
  ASSUME NEW n \in 1..Cardinality(DOMAIN Frames), NEW s \in Putting(n - 1), NEW t \in Task, NEW rest \in BOOLEAN,
         NEW from \in Nat
  PROVE  PutIn(s, t, rest, from) \in Putting(n)
<1> DEFINE b == Earliest(s.buckets, Frames)
           begin == Larger(from, s.after)
           f == Fill(s.left, begin, Frames[b].to, s.occupied \cup {Span(0, Frames[b].from)})
           new == NewSlices(t, rest, b, f.pieces)
           next == [left |-> f.left, after |-> s.after, buckets |-> s.buckets \ {b},
                    occupied |-> s.occupied \cup f.pieces, slices |-> s.slices \cup new]
<1>1. PutIn(s, t, rest, from) = next
  BY DEF PutIn, NewSlices
<1>2. /\ s.left \in Nat /\ s.after \in Nat /\ s.buckets \in SUBSET DOMAIN Frames /\ s.occupied \in SUBSET Busy
      /\ s.slices \in SUBSET OpenSlice /\ PacksWell(s)
      /\ Cardinality(s.buckets) + (n - 1) = Cardinality(DOMAIN Frames)
  BY DEF Putting
<1>3. IsFiniteSet(DOMAIN Frames) /\ Cardinality(DOMAIN Frames) \in Nat /\ IsFiniteSet(s.buckets)
  BY <1>2, WeekBounds, FS_Subset, FS_CardinalityType
<1>4. Cardinality(s.buckets) \in Nat /\ Cardinality(s.buckets) # 0
  BY <1>2, <1>3, FS_CardinalityType
<1>5. s.buckets # {}
  BY <1>4, FS_EmptySet
<1>6. \A c \in s.buckets : Frames[c].from \in Nat
  BY <1>2, WeekBounds DEF Interval
<1>7. b \in s.buckets /\ b \in DOMAIN Frames
  BY <1>2, <1>5, <1>6, EarliestIs
<1>8. Frames[b].to \in Nat
  BY <1>7, WeekBounds DEF Interval
<1>9. begin \in Nat
  BY <1>2 DEF Larger
<1> HIDE DEF b, begin
<1>10. FitsIn(f, s.left, begin, Frames[b].to, s.occupied)
  BY <1>2, <1>8, <1>9, FillFitsAround
<1> HIDE DEF f
<1>11. /\ f.pieces \in SUBSET Busy /\ f.left \in Nat /\ IsFiniteSet(f.pieces)
       /\ \A p \in f.pieces : /\ \A o \in s.occupied : ~Overlap(p, o)
                              /\ \A q \in f.pieces : p # q => ~Overlap(p, q)
  BY <1>10 DEF FitsIn
<1>12. /\ new \in SUBSET OpenSlice /\ IsFiniteSet(new)
       /\ \A x \in new : \E p \in f.pieces : x.start = p.from /\ x.length > 0 /\ Span(x.start, EndOf(x)) = p
       /\ \A x, y \in new : x # y => \E p, q \in f.pieces : p # q /\ x.start = p.from /\ y.start = q.from
  BY <1>7, <1>11, NewSlicesAre
<1> HIDE DEF new
<1>13. \A p, q \in Busy : p.from = q.from => Overlap(p, q)
  BY DEF Busy, Interval, Overlap
<1> DEFINE slices == s.slices \cup new
           occupied == s.occupied \cup f.pieces
<1>14. IsFiniteSet(slices)
  BY <1>2, <1>12, FS_Union DEF PacksWell
<1>15. ASSUME NEW x \in slices PROVE x.length > 0 /\ Span(x.start, EndOf(x)) \in occupied
  BY <1>2, <1>12 DEF PacksWell
<1>16. ASSUME NEW x \in s.slices, NEW y \in new PROVE x.start # y.start
  <2>1. PICK p \in f.pieces : y.start = p.from
    BY <1>12
  <2> DEFINE o == Span(x.start, EndOf(x))
  <2>2. o \in s.occupied /\ o.from = x.start
    BY <1>2 DEF PacksWell, Span
  <2> HIDE DEF o
  <2>3. QED
    BY <1>2, <1>11, <1>13, <2>1, <2>2
<1>17. ASSUME NEW x \in new, NEW y \in new, x.start = y.start PROVE x = y
  <2> SUFFICES ASSUME x # y PROVE FALSE
    OBVIOUS
  <2>1. PICK p \in f.pieces, q \in f.pieces : p # q /\ x.start = p.from /\ y.start = q.from
    BY <1>12
  <2>2. QED
    BY <1>11, <1>13, <1>17, <2>1
<1>18. StartApart(slices)
  BY <1>2, <1>16, <1>17 DEF PacksWell, StartApart
<1>19. Cardinality(s.buckets \ {b}) + n = Cardinality(DOMAIN Frames)
  <2>1. Cardinality(s.buckets \ {b}) = Cardinality(s.buckets) - 1
    BY <1>3, <1>7, FS_RemoveElement
  <2>2. QED
    BY <1>2, <1>3, <1>4, <2>1
<1>20. /\ next.slices = slices /\ next.occupied = occupied /\ next.buckets = s.buckets \ {b}
       /\ next \in [left : Nat, after : Nat, buckets : SUBSET DOMAIN Frames, occupied : SUBSET Busy,
                    slices : SUBSET OpenSlice]
  BY <1>2, <1>11, <1>12
<1> HIDE DEF next, slices, occupied
<1>21. PacksWell(next)
  BY <1>14, <1>15, <1>18, <1>20 DEF PacksWell
<1>22. next \in Putting(n)
  BY <1>19, <1>20, <1>21 DEF Putting
<1>23. QED
  BY <1>1, <1>22

\* Of finitely many times one is the latest.
LEMMA FiniteLatest ==
  ASSUME NEW times \in SUBSET Int, IsFiniteSet(times)
  PROVE  Latest(times) \in Nat
<1> DEFINE f == [x \in times |-> x]
<1>1. \A x \in times : f[x] = x /\ x \in Int
  OBVIOUS
<1> HIDE DEF f
<1>2. \A x \in times : f[x] \in Int
  BY <1>1
<1>3. PICK b \in Nat : \A x \in times : f[x] <= b
  BY <1>2, BoundedImage
<1>4. \A x \in times : x <= b
  BY <1>1, <1>3
<1>5. QED
  BY <1>4, LatestIs

\* A task waits for a time of whole units.
LEMMA EndsOfIs ==
  ASSUME NEW list \in [Task -> TaskRecord], NEW slices \in SUBSET OpenSlice, IsFiniteSet(slices),
         NEW ts \in SUBSET Task, NEW from \in Nat
  PROVE  EndsOf(list, slices, ts, from) \in Nat
<1> DEFINE T == {u \in slices : u.task \in ts}
           f == [s \in T |-> EndOf(s)]
           g == [t \in ts |-> BlockOf(list, t, from).to]
           A == {f[s] : s \in T}
           B == {g[t] : t \in ts}
<1>1. IsFiniteSet(T) /\ IsFiniteSet(ts)
  BY LightPlanConstants, FS_Subset
<1>2. \A s \in T : f[s] \in Nat
  BY DEF OpenSlice, EndOf
<1>3. \A t \in ts : g[t] \in Nat
  <2> SUFFICES ASSUME NEW t \in ts PROVE BlockOf(list, t, from).to \in Nat
    OBVIOUS
  <2>1. BlockOf(list, t, from) \in Interval
    BY BlockIs
  <2>2. QED
    BY <2>1 DEF Interval
<1>4. EndsOf(list, slices, ts, from) = Latest(A \cup B)
  BY DEF EndsOf
<1> HIDE DEF T, f, g
<1>5. IsFiniteSet(A) /\ IsFiniteSet(B)
  BY <1>1, FiniteImage
<1>6. A \cup B \in SUBSET Int
  BY <1>2, <1>3
<1> HIDE DEF A, B
<1>7. IsFiniteSet(A \cup B)
  BY <1>5, FS_Union
<1>8. QED
  BY <1>4, <1>6, <1>7, FiniteLatest

\* A task's pieces go where it fits first.
LEMMA PutTaskKeeps ==
  ASSUME NEW list \in [Task -> TaskRecord], NEW links, NEW from \in Nat, NEW t \in Task, NEW p0 \in Packing
  PROVE  PutTask(p0, list, links, from, t) \in Packing
<1> DEFINE N == Cardinality(DOMAIN Frames)
           rest == Kids(list, t) # {}
           left == Needed(list[t], rest, from)
           after == Larger(list[t].occurrence, EndsOf(list, p0.slices, Predecessors(list, links, t), from))
           first == [left |-> left, buckets |-> DOMAIN Frames, after |-> after, occupied |-> p0.occupied,
                     slices |-> p0.slices]
           Step(c, n) == PutIn(c, t, rest, from)
           L == [n \in 0..N |-> Putting(n)]
           all == UNION {L[n] : n \in 0..N}
           F == [p \in all \X (1..N) |-> Step(p[1], p[2])]
           put == CHOOSE f : f = [n \in 0..N |-> IF n = 0 THEN first ELSE PutIn(f[n - 1], t, rest, from)]
           done == [occupied |-> put[N].occupied, slices |-> put[N].slices]
<1>0. p0.occupied \in SUBSET Busy /\ p0.slices \in SUBSET OpenSlice /\ PacksWell(p0)
  BY DEF Packing
<1>1. N \in Nat
  BY WeekBounds, FS_CardinalityType
<1>2. first \in L[0]
  <2>1. left \in Nat
    BY NeededIs
  <2>2. after \in Nat
    <3> DEFINE ends == EndsOf(list, p0.slices, Predecessors(list, links, t), from)
    <3>1. ends \in Nat
      BY <1>0, PredecessorsAre, EndsOfIs DEF PacksWell
    <3>2. list[t].occurrence \in Nat \cup {NoTime}
      BY RecordIs
    <3> HIDE DEF ends
    <3>3. Larger(list[t].occurrence, ends) \in Nat
      BY <3>1, <3>2 DEF Larger, NoTime
    <3>4. QED
      BY <3>3 DEF ends
  <2> HIDE DEF left, after, rest
  <2>3. /\ first \in [left : Nat, after : Nat, buckets : SUBSET DOMAIN Frames, occupied : SUBSET Busy,
                      slices : SUBSET OpenSlice]
        /\ first.slices = p0.slices /\ first.occupied = p0.occupied /\ first.buckets = DOMAIN Frames
    BY <1>0, <2>1, <2>2
  <2> HIDE DEF first
  <2>4. PacksWell(first)
    BY <1>0, <2>3 DEF PacksWell
  <2>5. Cardinality(first.buckets) + 0 = N
    BY <1>1, <2>3
  <2>6. first \in Putting(0)
    BY <2>3, <2>4, <2>5 DEF Putting
  <2>7. QED
    BY <1>1, <2>6
<1>3. ASSUME NEW n \in 1..N, NEW c \in L[n - 1] PROVE Step(c, n) \in L[n]
  <2>1. n - 1 \in 0..N /\ n \in 0..N
    BY <1>1
  <2>2. c \in Putting(n - 1)
    BY <2>1
  <2>3. rest \in BOOLEAN
    OBVIOUS
  <2> HIDE DEF rest
  <2>4. PutIn(c, t, rest, from) \in Putting(n)
    BY <2>2, <2>3, PutInKeeps
  <2>5. QED
    BY <2>1, <2>4
<1>4. \A n \in 1..N : \A s \in L[n - 1] : F[<<s, n>>] = Step(s, n)
  <2> SUFFICES ASSUME NEW n \in 1..N, NEW s \in L[n - 1] PROVE F[<<s, n>>] = Step(s, n)
    OBVIOUS
  <2> HIDE DEF L, Step
  <2>1. n - 1 \in 0..N
    BY <1>1
  <2>2. <<s, n>> \in all \X (1..N)
    BY <2>1
  <2> HIDE DEF all
  <2>3. QED
    BY <2>2
<1> HIDE DEF N, rest, left, after, first, L, all, F, Step
<1>5. \A n \in 1..N : \A s \in L[n - 1] : F[<<s, n>>] \in L[n]
  BY <1>3, <1>4
<1>6. PICK g : RunsTo(g, F, first, N) /\ \A n \in 0..N : g[n] \in L[n]
  BY <1>1, <1>2, <1>5, Recursion
<1>7. \A n \in 1..N : F[<<g[n - 1], n>>] = Step(g[n - 1], n)
  BY <1>1, <1>4, <1>6
<1>8. g = [n \in 0..N |-> IF n = 0 THEN first ELSE Step(g[n - 1], n)]
  <2>1. g = [n \in 0..N |-> IF n = 0 THEN first ELSE F[<<g[n - 1], n>>]]
    BY <1>6 DEF RunsTo
  <2>2. [n \in 0..N |-> IF n = 0 THEN first ELSE F[<<g[n - 1], n>>]]
          = [n \in 0..N |-> IF n = 0 THEN first ELSE Step(g[n - 1], n)]
    BY <1>1, <1>7
  <2>3. QED
    BY <2>1, <2>2
<1>9. put = [n \in 0..N |-> IF n = 0 THEN first ELSE Step(put[n - 1], n)]
  <2>1. put = CHOOSE f : f = [n \in 0..N |-> IF n = 0 THEN first ELSE Step(f[n - 1], n)]
    BY DEF Step
  <2> HIDE DEF put
  <2>2. QED
    BY <1>8, <2>1
<1> HIDE DEF put
<1>10. \A n \in 0..N : put[n] \in L[n]
  <2>1. put[0] \in L[0]
    BY <1>1, <1>2, <1>9
  <2>2. ASSUME NEW n \in 1..N, put[n - 1] \in L[n - 1] PROVE put[n] \in L[n]
    <3>1. put[n] = Step(put[n - 1], n)
      BY <1>1, <1>9
    <3>2. QED
      BY <1>3, <2>2, <3>1
  <2>3. QED
    BY <1>1, <2>1, <2>2, RecursionKeeps
<1>11. PutTask(p0, list, links, from, t) = done
  BY DEF PutTask, put, N, first, rest, left, after
<1>12. put[N] \in Putting(N)
  BY <1>1, <1>10 DEF L
<1>13. put[N].occupied \in SUBSET Busy /\ put[N].slices \in SUBSET OpenSlice /\ PacksWell(put[N])
  BY <1>12 DEF Putting
<1>14. /\ done.occupied = put[N].occupied /\ done.slices = put[N].slices
       /\ done \in [occupied : SUBSET Busy, slices : SUBSET OpenSlice]
  BY <1>13
<1> HIDE DEF done
<1>15. PacksWell(done)
  BY <1>13, <1>14 DEF PacksWell
<1>16. QED
  BY <1>11, <1>14, <1>15 DEF Packing

\* Appointments are planned when they are.
LEMMA MeetingsAre ==
  ASSUME NEW list \in [Task -> TaskRecord]
  PROVE  /\ Meetings(list) \in SUBSET Slice /\ IsFiniteSet(Meetings(list))
         /\ \A s \in Meetings(list) : s.bucket = NoBucket
<1> DEFINE some == {s \in DOMAIN list : list[s].appointment /\ ~list[s].unplanned /\ list[s].start # NoTime}
           f == [t \in some |-> [task |-> t, rest |-> FALSE, bucket |-> NoBucket, start |-> list[t].start,
                                 length |-> list[t].duration, revived |-> FALSE]]
<1>1. Meetings(list) = {f[t] : t \in some}
  BY DEF Meetings
<1>2. IsFiniteSet(some)
  BY LightPlanConstants, FS_Subset
<1>3. ASSUME NEW t \in some PROVE f[t] \in Slice /\ f[t].bucket = NoBucket
  <2>1. t \in Task /\ list[t].start \in Nat /\ list[t].duration \in Nat
    BY RecordIs
  <2>2. QED
    BY <2>1 DEF Slice
<1> HIDE DEF some, f
<1>4. IsFiniteSet({f[t] : t \in some})
  BY <1>2, FiniteImage
<1>5. QED
  BY <1>1, <1>3, <1>4

\* What the planner makes is a plan.
LEMMA PackedIs ==
  ASSUME NEW list \in [Task -> TaskRecord], NEW links, NEW from \in Nat, NEW order \in Seq(Task)
  PROVE  PlanIs(Packed(list, links, from, order))
<1> DEFINE N == Len(order)
           blocks == Blocks(list, from)
           none == [occupied |-> {b.at : b \in blocks}, slices |-> {}]
           Step(s, n) == IF Fits(list[order[n]], from) THEN PutTask(s, list, links, from, order[n]) ELSE s
           L == [n \in 0..N |-> Packing]
           all == UNION {L[n] : n \in 0..N}
           F == [p \in all \X (1..N) |-> Step(p[1], p[2])]
           packed == CHOOSE f : f = [n \in 0..N |-> IF n = 0 THEN none
                                ELSE IF Fits(list[order[n]], from) THEN PutTask(f[n - 1], list, links, from, order[n])
                                ELSE f[n - 1]]
<1>1. N \in Nat /\ \A n \in 1..N : order[n] \in Task
  OBVIOUS
<1>2. none \in L[0]
  <2>1. blocks \in SUBSET Anchored
    BY BlocksAre
  <2> HIDE DEF blocks
  <2>2. {b.at : b \in blocks} \in SUBSET Busy
    BY <2>1 DEF Anchored
  <2>3. none \in [occupied : SUBSET Busy, slices : SUBSET OpenSlice] /\ none.slices = {}
    BY <2>2
  <2> HIDE DEF none
  <2>4. PacksWell(none)
    BY <2>3, FS_EmptySet DEF PacksWell, StartApart
  <2>5. none \in Packing
    BY <2>3, <2>4 DEF Packing
  <2>6. QED
    BY <1>1, <2>5
<1>3. ASSUME NEW n \in 1..N, NEW s \in L[n - 1] PROVE Step(s, n) \in L[n]
  <2>1. n - 1 \in 0..N /\ n \in 0..N /\ order[n] \in Task
    BY <1>1
  <2>2. s \in Packing
    BY <2>1
  <2>3. PutTask(s, list, links, from, order[n]) \in Packing
    BY <2>1, <2>2, PutTaskKeeps
  <2>4. QED
    BY <2>1, <2>2, <2>3
<1>4. \A n \in 1..N : \A s \in L[n - 1] : F[<<s, n>>] = Step(s, n)
  <2> SUFFICES ASSUME NEW n \in 1..N, NEW s \in L[n - 1] PROVE F[<<s, n>>] = Step(s, n)
    OBVIOUS
  <2> HIDE DEF L, Step
  <2>1. n - 1 \in 0..N
    BY <1>1
  <2>2. <<s, n>> \in all \X (1..N)
    BY <2>1
  <2> HIDE DEF all
  <2>3. QED
    BY <2>2
<1> HIDE DEF N, none, L, all, F, Step
<1>5. \A n \in 1..N : \A s \in L[n - 1] : F[<<s, n>>] \in L[n]
  BY <1>3, <1>4
<1>6. PICK g : RunsTo(g, F, none, N) /\ \A n \in 0..N : g[n] \in L[n]
  BY <1>1, <1>2, <1>5, Recursion
<1>7. \A n \in 1..N : F[<<g[n - 1], n>>] = Step(g[n - 1], n)
  BY <1>1, <1>4, <1>6
<1>8. g = [n \in 0..N |-> IF n = 0 THEN none ELSE Step(g[n - 1], n)]
  <2>1. g = [n \in 0..N |-> IF n = 0 THEN none ELSE F[<<g[n - 1], n>>]]
    BY <1>6 DEF RunsTo
  <2>2. [n \in 0..N |-> IF n = 0 THEN none ELSE F[<<g[n - 1], n>>]]
          = [n \in 0..N |-> IF n = 0 THEN none ELSE Step(g[n - 1], n)]
    BY <1>1, <1>7
  <2>3. QED
    BY <2>1, <2>2
<1>9. packed = [n \in 0..N |-> IF n = 0 THEN none ELSE Step(packed[n - 1], n)]
  <2>1. packed = CHOOSE f : f = [n \in 0..N |-> IF n = 0 THEN none ELSE Step(f[n - 1], n)]
    BY DEF Step
  <2> HIDE DEF packed
  <2>2. QED
    BY <1>8, <2>1
<1> HIDE DEF packed
<1>10. \A n \in 0..N : packed[n] \in L[n]
  <2>1. packed[0] \in L[0]
    BY <1>1, <1>2, <1>9
  <2>2. ASSUME NEW n \in 1..N, packed[n - 1] \in L[n - 1] PROVE packed[n] \in L[n]
    <3>1. packed[n] = Step(packed[n - 1], n)
      BY <1>1, <1>9
    <3>2. QED
      BY <1>3, <2>2, <3>1
  <2>3. QED
    BY <1>1, <2>1, <2>2, RecursionKeeps
<1>11. Packed(list, links, from, order) = packed[N].slices \cup Meetings(list)
  BY DEF Packed, packed, N, none
<1>12. packed[N] \in Packing
  BY <1>1, <1>10 DEF L
<1> DEFINE S == packed[N].slices
           M == Meetings(list)
<1>13. S \in SUBSET OpenSlice /\ IsFiniteSet(S) /\ StartApart(S)
  BY <1>12 DEF Packing, PacksWell
<1>14. M \in SUBSET Slice /\ IsFiniteSet(M) /\ \A s \in M : s.bucket = NoBucket
  BY MeetingsAre
<1> HIDE DEF S, M
<1>15. OpenSlice \subseteq Slice
  BY DEF OpenSlice, Slice
<1>16. IsFiniteSet(S \cup M)
  BY <1>13, <1>14, FS_Union
<1>17. PlanIs(S \cup M)
  BY <1>13, <1>14, <1>15, <1>16 DEF PlanIs, StartApart
<1>18. QED
  BY <1>11, <1>17 DEF S, M

-----------------------------------------------------------------------------
(* The steps of the Week view.                                             *)

\* The tasks and the plan are as they should be, and what is shown is the
\* light plan of just these at this time.
WeekInv ==
  /\ TypeOK /\ PlanIs(plan)
  /\ light = Shown(tasks, plan, dependencies, now)

\* The task list with one task changed.
LEMMA OneTaskChanged ==
  ASSUME NEW time \in Nat, NEW list, TasksAt(list, time), NEW t \in Task, NEW r \in TaskRecord,
         r.tracked <= time, r.done => r.doneAt # NoTime
  PROVE  TasksAt([list EXCEPT ![t] = r], time)
<1>1. list \in [Task -> TaskRecord]
  BY DEF TasksAt
<1> DEFINE f == [list EXCEPT ![t] = r]
<1>2. f \in [Task -> TaskRecord]
  BY <1>1
<1>3. ASSUME NEW u \in Task PROVE f[u] = IF u = t THEN r ELSE list[u]
  BY <1>1
<1> HIDE DEF f
<1>4. ASSUME NEW u \in Task PROVE f[u].tracked <= time /\ (f[u].done => f[u].doneAt # NoTime)
  BY <1>3 DEF TasksAt
<1>5. TasksAt(f, time)
  BY <1>2, <1>4 DEF TasksAt
<1>6. QED
  BY <1>5 DEF f

\* What was tracked becomes time spent.
LEMMA StoppedIs ==
  ASSUME now \in Nat, TasksAt(tasks, now)
  PROVE  TasksAt(Stopped(tasks), now)
<1>1. tasks \in [Task -> TaskRecord]
  BY DEF TasksAt
<1>2. ASSUME NEW t \in Task
      PROVE  /\ Stopped(tasks)[t] \in TaskRecord /\ Stopped(tasks)[t].tracked <= now
             /\ (Stopped(tasks)[t].done => Stopped(tasks)[t].doneAt # NoTime)
  <2>1. /\ tasks[t] \in TaskRecord /\ tasks[t].tracked <= now /\ (tasks[t].done => tasks[t].doneAt # NoTime)
        /\ tasks[t].tracked \in Nat \cup {NoTime} /\ tasks[t].spent \in Nat
    BY <1>1, RecordIs DEF TasksAt
  <2>2. CASE tasks[t].tracked = NoTime
    BY <1>1, <2>1, <2>2 DEF Stopped
  <2>3. CASE tasks[t].tracked # NoTime
    <3> DEFINE spent == tasks[t].spent + (now - tasks[t].tracked)
               r == [tasks[t] EXCEPT !.spent = spent, !.tracked = NoTime]
    <3>1. spent \in Nat
      BY <2>1, <2>3 DEF NoTime
    <3>2. Stopped(tasks)[t] = r
      BY <1>1, <2>3 DEF Stopped
    <3> HIDE DEF spent
    <3>3. r \in TaskRecord /\ r.tracked = NoTime /\ r.done = tasks[t].done /\ r.doneAt = tasks[t].doneAt
      BY <2>1, <3>1 DEF TaskRecord
    <3> HIDE DEF r
    <3>4. NoTime <= now
      BY DEF NoTime
    <3>5. QED
      BY <2>1, <3>2, <3>3, <3>4
  <2>4. QED
    BY <2>2, <2>3
<1>3. Stopped(tasks) \in [Task -> TaskRecord]
  BY <1>1, <1>2 DEF Stopped
<1>4. QED
  BY <1>2, <1>3 DEF TasksAt

\* When the tasks change, the light plan changes with them.
LEMMA TasksChange ==
  ASSUME WeekInv, ops' \in 0..MaxOps,
         \E list : TasksAt(list, now) /\ Becomes(list),
         UNCHANGED <<dependencies, plan, now>>, drag' \in {drag, NoCard}, placing' \in {placing, tasks, <<>>}
  PROVE  WeekInv'
<1>1. PICK list : TasksAt(list, now) /\ Becomes(list)
  OBVIOUS
<1>2. tasks' = list /\ light' = Shown(list, plan, dependencies, now)
  BY <1>1 DEF Becomes
<1>3. light' = Shown(tasks', plan', dependencies', now') /\ PlanIs(plan')
  BY <1>2 DEF WeekInv
<1>4. TaskList(list) /\ TaskList(tasks) /\ (placing # <<>> => TaskList(placing))
  BY <1>1 DEF WeekInv, TypeOK, TaskList, TasksAt
<1>5. TaskList(tasks)' /\ (placing' # <<>> => TaskList(placing)')
  BY <1>2, <1>4 DEF TaskList
<1>6. /\ plan' \subseteq Slice /\ IsFiniteSet(plan') /\ now' \in 0..Horizon
      /\ (drag' # NoCard => drag'.task \in Task) /\ drag'.at \in Interval /\ drag'.at.from <= drag'.at.to
  <2>1. NoCard.at \in Interval /\ NoCard.at.from <= NoCard.at.to
    BY DEF NoCard, Span, Interval
  <2>2. QED
    BY <2>1 DEF WeekInv, TypeOK
<1>7. QED
  BY <1>3, <1>5, <1>6 DEF WeekInv, TypeOK

\* What WeekInv says of the parts that the actions read.
LEMMA Now ==
  ASSUME WeekInv
  PROVE  /\ now \in Nat /\ TasksAt(tasks, now) /\ tasks \in [Task -> TaskRecord] /\ ops \in 0..MaxOps
         /\ (placing # <<>> => TasksAt(placing, now)) /\ DOMAIN tasks = Task
BY WeekBounds DEF WeekInv, TypeOK, TaskList, TasksAt

\* One task with other values, and everything stays as it should be.
LEMMA WorkOnTasks ==
  ASSUME WeekInv, NEW t \in Task, NEW d,
         OnTrackStart(t) \/ OnTrackStop(t) \/ OnComplete(t) \/ OnJoin(t) \/ (d \in Estimates /\ ChangeEstimate(t, d))
  PROVE  WeekInv'
<1>1. /\ now \in Nat /\ TasksAt(tasks, now) /\ ops \in 0..MaxOps /\ tasks \in [Task -> TaskRecord]
      /\ tasks[t].tracked <= now /\ (tasks[t].done => tasks[t].doneAt # NoTime) /\ MaxOps \in Nat
      /\ tasks[t] \in TaskRecord /\ Estimates \subseteq Nat
  BY Now, WeekBounds DEF TasksAt
<1>2. TasksAt(Stopped(tasks), now)
  BY <1>1, StoppedIs
<1> DEFINE list == Stopped(tasks)
<1>3. /\ TasksAt(list, now) /\ list \in [Task -> TaskRecord] /\ list[t] \in TaskRecord
      /\ list[t].tracked <= now /\ (list[t].done => list[t].doneAt # NoTime)
  BY <1>2 DEF TasksAt
<1>4. list[t].done = tasks[t].done
  BY <1>1 DEF Stopped, TaskRecord
<1> HIDE DEF list
<1>5. /\ ops' \in 0..MaxOps /\ UNCHANGED <<dependencies, plan, now, drag, placing>>
  BY <1>1 DEF OnTrackStart, OnTrackStop, OnComplete, OnJoin, ChangeEstimate, Acting
<1>6. ASSUME OnTrackStart(t) PROVE \E new : TasksAt(new, now) /\ Becomes(new)
  <2> DEFINE r == [list[t] EXCEPT !.tracked = now]
  <2>1. r \in TaskRecord /\ r.tracked <= now /\ (r.done => r.doneAt # NoTime)
    BY <1>1, <1>3 DEF TaskRecord
  <2> HIDE DEF r
  <2>2. TasksAt([list EXCEPT ![t] = r], now)
    BY <1>1, <1>3, <2>1, OneTaskChanged
  <2>3. Becomes([list EXCEPT ![t] = r])
    BY <1>6 DEF OnTrackStart, list, r
  <2>4. QED
    BY <2>2, <2>3
<1>7. ASSUME OnTrackStop(t) PROVE \E new : TasksAt(new, now) /\ Becomes(new)
  BY <1>3, <1>7 DEF OnTrackStop, list
<1>8. ASSUME OnComplete(t) PROVE \E new : TasksAt(new, now) /\ Becomes(new)
  <2> DEFINE old == IF tasks[t].tracked # NoTime THEN Stopped(tasks) ELSE tasks
             r == [old[t] EXCEPT !.done = TRUE, !.doneAt = now]
  <2>1. TasksAt(old, now) /\ old[t] \in TaskRecord /\ old[t].tracked <= now
    BY <1>1, <1>2, <1>3 DEF list
  <2>2. Becomes([old EXCEPT ![t].done = TRUE, ![t].doneAt = now])
    BY <1>8 DEF OnComplete
  <2> HIDE DEF old
  <2>3. r \in TaskRecord /\ r.tracked = old[t].tracked /\ r.doneAt = now
    BY <1>1, <2>1 DEF TaskRecord
  <2>4. old \in [Task -> TaskRecord]
    BY <2>1 DEF TasksAt
  <2>5. [old EXCEPT ![t].done = TRUE, ![t].doneAt = now] = [old EXCEPT ![t] = r]
    BY <2>4
  <2> HIDE DEF r
  <2>6. r.doneAt # NoTime
    BY <1>1, <2>3 DEF NoTime
  <2>7. TasksAt([old EXCEPT ![t] = r], now)
    BY <1>1, <2>1, <2>3, <2>6, OneTaskChanged
  <2>8. QED
    BY <2>2, <2>5, <2>7
<1>9. ASSUME OnJoin(t) PROVE \E new : TasksAt(new, now) /\ Becomes(new)
  <2> DEFINE r == [tasks[t] EXCEPT !.unplanned = FALSE]
  <2>1. r \in TaskRecord /\ r.tracked <= now /\ (r.done => r.doneAt # NoTime)
    BY <1>1 DEF TaskRecord
  <2> HIDE DEF r
  <2>2. TasksAt([tasks EXCEPT ![t] = r], now)
    BY <1>1, <2>1, OneTaskChanged
  <2>3. Becomes([tasks EXCEPT ![t] = r])
    BY <1>9 DEF OnJoin, r
  <2>4. QED
    BY <2>2, <2>3
<1>10. ASSUME d \in Estimates, ChangeEstimate(t, d) PROVE \E new : TasksAt(new, now) /\ Becomes(new)
  <2> DEFINE r == [tasks[t] EXCEPT !.duration = d]
  <2>0. d \in Nat
    BY <1>1, <1>10
  <2>1. r \in TaskRecord /\ r.tracked <= now /\ (r.done => r.doneAt # NoTime)
    BY <1>1, <2>0 DEF TaskRecord
  <2> HIDE DEF r
  <2>2. TasksAt([tasks EXCEPT ![t] = r], now)
    BY <1>1, <2>1, OneTaskChanged
  <2>3. Becomes([tasks EXCEPT ![t] = r])
    BY <1>10 DEF ChangeEstimate, r
  <2>4. QED
    BY <2>2, <2>3
<1>11. \E new : TasksAt(new, now) /\ Becomes(new)
  BY <1>6, <1>7, <1>8, <1>9, <1>10
<1>12. QED
  BY <1>5, <1>11, TasksChange

\* As time passes what was tracked goes on.
LEMMA TimePasses ==
  ASSUME WeekInv, Tick
  PROVE  WeekInv'
<1>1. now' = now + 1 /\ now' \in 0..Horizon /\ now \in Nat
  BY WeekBounds DEF Tick, WeekInv, TypeOK
<1>2. UNCHANGED <<tasks, dependencies, plan, drag, placing, ops>>
  BY DEF Tick
<1>3. light' = Shown(tasks', plan', dependencies', now')
  BY <1>1, <1>2 DEF Tick
<1>4. ASSUME NEW list, TasksAt(list, now) PROVE TasksAt(list, now')
  <2>1. ASSUME NEW t \in Task PROVE list[t].tracked <= now'
    <3>1. list[t].tracked <= now /\ list[t].tracked \in Nat \cup {NoTime}
      BY <1>4, RecordIs DEF TasksAt
    <3>2. QED
      BY <1>1, <3>1 DEF NoTime
  <2>2. QED
    BY <1>4, <2>1 DEF TasksAt
<1>5. TasksAt(tasks', now') /\ (placing' # <<>> => TasksAt(placing', now'))
  BY <1>2, <1>4, Now
<1>6. TypeOK'
  BY <1>1, <1>2, <1>5 DEF WeekInv, TypeOK, TaskList, TasksAt
<1>7. PlanIs(plan')
  BY <1>2 DEF WeekInv
<1>8. QED
  BY <1>3, <1>6, <1>7 DEF WeekInv

\* Another plan, and the light plan of it.
LEMMA PlanChanges ==
  ASSUME WeekInv, RunReplan
  PROVE  WeekInv'
<1>1. PICK order \in Orders : plan' = Packed(tasks, dependencies, now, order)
  BY DEF RunReplan
<1>2. order \in Seq(Task)
  BY <1>1, WeekBounds
<1>3. PlanIs(plan')
  BY <1>1, <1>2, Now, PackedIs
<1>4. UNCHANGED <<tasks, dependencies, now, drag, placing>> /\ ops' \in 0..MaxOps
  BY Now, WeekBounds DEF RunReplan, Acting
<1>5. light' = Shown(tasks', plan', dependencies', now')
  BY <1>4 DEF RunReplan
<1>6. plan' \subseteq Slice /\ IsFiniteSet(plan')
  BY <1>3 DEF PlanIs
<1>7. TypeOK'
  BY <1>4, <1>6 DEF WeekInv, TypeOK, TaskList
<1>8. QED
  BY <1>3, <1>5, <1>7 DEF WeekInv

\* What is shown fits.
LEMMA ShownFits ==
  ASSUME WeekInv
  PROVE  LightFits(light, tasks, plan, now)
<1>1. Order \in Seq(Task)
  BY WeekBounds DEF Order
<1>2. PlanIs(plan) /\ light = Light(plan, Frames, tasks, dependencies, now, Order)
  BY DEF WeekInv, Shown
<1>3. QED
  BY <1>1, <1>2, Now, LightIs

\* A card shows a task at a time.
LEMMA CardsAre ==
  ASSUME WeekInv, NEW c \in Cards
  PROVE  c.task \in Task /\ c.at \in Time
<1>1. /\ \A s \in light.anchored \cup light.reminders \cup light.history : s.task \in Task /\ s.at \in Time
      /\ \A s \in light.placed : s.task \in Task /\ s.at \in Time
  <2>1. Busy \subseteq Time
    BY DEF Busy, Time, Interval
  <2>2. QED
    BY <2>1, ShownFits DEF LightFits, Anchored, PlacedCard
<1>2. \/ \E s \in light.anchored \cup light.reminders \cup light.history : c = Card(s.task, FALSE, s.at)
      \/ \E s \in light.placed : c = Card(s.task, s.rest, s.at)
  BY DEF Cards
<1>3. QED
  BY <1>1, <1>2 DEF Card

\* A day of some time begins before its end and ends after its start.
LEMMA DayBegins ==
  ASSUME NEW a \in Nat, NEW b \in Nat, a <= b, NEW d \in DayOf(a)..DayOf(b - 1)
  PROVE  d * Day \in Nat /\ (d + 1) * Day \in Nat /\ d * Day <= (d + 1) * Day /\ d * Day <= b /\ a < (d + 1) * Day
<1>1. Day \in Nat /\ Day > 0
  BY LightPlanConstants
<1>2. DayOf(a) \in Nat /\ a < (DayOf(a) + 1) * Day
  BY DayEnds
<1> DEFINE first == DayOf(a)
           last == DayOf(b - 1)
<1>3. first \in Nat /\ last \in Int
  BY <1>1, <1>2 DEF DayOf
<1>4. d \in Nat /\ first <= d /\ d <= last
  BY <1>3
<1>5. ASSUME NEW m \in Nat, NEW n \in Nat, m <= n PROVE m * Day \in Nat /\ n * Day \in Nat /\ m * Day <= n * Day
  <2>1. PICK k \in Nat : n = m + k
    <3>1. n - m \in Nat /\ n = m + (n - m)
      BY <1>5
    <3>2. QED
      BY <3>1
  <2>2. n * Day = m * Day + k * Day /\ k * Day \in Nat /\ m * Day \in Nat
    BY <1>1, <2>1
  <2>3. QED
    BY <2>2
<1>6. b > 0
  <2>1. SUFFICES ASSUME b = 0 PROVE FALSE
    OBVIOUS
  <2>2. last = (0 - 1) \div Day
    BY <2>1 DEF DayOf
  <2> DEFINE q == (0 - 1) \div Day
             r == (0 - 1) % Day
  <2>3. q \in Int /\ 0 - 1 = Day * q + r /\ r \in Nat
    BY <1>1
  <2>4. q \in Nat
    BY <1>4, <2>2, <2>3
  <2> HIDE DEF q, r
  <2>5. Day * q \in Nat
    BY <1>1, <2>4
  <2>6. QED
    BY <2>3, <2>5
<1>7. last \in Nat /\ last * Day <= b - 1
  <2> DEFINE c == b - 1
  <2>1. c \in Nat
    BY <1>6
  <2> HIDE DEF c
  <2>2. DayOf(c) \in Nat /\ DayOf(c) * Day <= c
    BY <2>1, DayEnds
  <2>3. QED
    BY <2>2 DEF c
<1> HIDE DEF first, last
<1>8. /\ d * Day \in Nat /\ (d + 1) * Day \in Nat /\ d * Day <= (d + 1) * Day
      /\ d * Day <= last * Day /\ last * Day \in Nat
  BY <1>4, <1>5, <1>7
<1>9. (first + 1) * Day <= (d + 1) * Day
  BY <1>3, <1>4, <1>5
<1>10. a < (first + 1) * Day /\ (first + 1) * Day \in Nat
  BY <1>2, <1>3, <1>5 DEF first
<1>11. d * Day <= b
  <2> DEFINE x == d * Day
             y == last * Day
  <2>1. x \in Nat /\ y \in Nat /\ x <= y /\ y <= b - 1
    BY <1>7, <1>8
  <2> HIDE DEF x, y
  <2>2. x <= b
    BY <2>1
  <2>3. QED
    BY <2>2 DEF x
<1>12. a < (d + 1) * Day
  <2> DEFINE x == (first + 1) * Day
             y == (d + 1) * Day
  <2>1. x \in Nat /\ y \in Nat /\ x <= y /\ a < x
    BY <1>8, <1>9, <1>10
  <2> HIDE DEF x, y
  <2>2. a < y
    BY <2>1
  <2>3. QED
    BY <2>2 DEF y
<1>13. QED
  BY <1>8, <1>11, <1>12

\* As does each of its parts, one per day.
LEMMA SegmentsAre ==
  ASSUME NEW c, c.task \in Task, c.at \in Time, NEW seg \in Segments(c), "at" \in DOMAIN c
  PROVE  seg.task = c.task /\ seg.at \in Time
<1> DEFINE a == c.at.from
           b == c.at.to
<1>1. a \in Nat /\ b \in Nat /\ a <= b
  BY DEF Time, Interval
<1>2. PICK d \in DayOf(a)..DayOf(b - 1) :
        seg = [c EXCEPT !.at = Span(Larger(c.at.from, d * Day), Smaller(c.at.to, (d + 1) * Day))]
  BY DEF Segments
<1> DEFINE from == Larger(a, d * Day)
           to == Smaller(b, (d + 1) * Day)
<1>3. seg.task = c.task /\ seg.at = Span(from, to)
  BY <1>2
<1>4. from \in Nat /\ to \in Nat /\ from <= to
  <2> DEFINE x == d * Day
             y == (d + 1) * Day
  <2>1. x \in Nat /\ y \in Nat /\ x <= y /\ x <= b /\ a < y
    BY <1>1, DayBegins
  <2> HIDE DEF a, b, x, y
  <2>2. Larger(a, x) \in Nat /\ Smaller(b, y) \in Nat /\ Larger(a, x) <= Smaller(b, y)
    BY <1>1, <2>1 DEF Larger, Smaller
  <2>3. QED
    BY <2>2 DEF x, y
<1>5. QED
  BY <1>3, <1>4, SpanIs DEF Time

\* A drag begins with a card.
LEMMA DragBegins ==
  ASSUME WeekInv, StartDrag
  PROVE  WeekInv'
<1>1. PICK seg \in UNION {Segments(c) : c \in Cards} :
        drag' \in {[task |-> seg.task, at |-> seg.at, mode |-> "move"],
                   [task |-> seg.task, at |-> seg.at, mode |-> "resize-bottom"]}
  BY DEF StartDrag
<1> PICK c \in Cards : seg \in Segments(c)
  OBVIOUS
<1>2. c.task \in Task /\ c.at \in Time /\ "at" \in DOMAIN c
  BY CardsAre DEF Cards, Card
<1>3. seg.task \in Task /\ seg.at \in Time
  BY <1>2, SegmentsAre
<1>4. drag'.task \in Task /\ drag'.at \in Interval /\ drag'.at.from <= drag'.at.to
  BY <1>1, <1>3 DEF Time
<1>5. UNCHANGED <<tasks, dependencies, plan, now, light, placing>> /\ ops' \in 0..MaxOps
  BY Now, WeekBounds DEF StartDrag
<1>6. TypeOK'
  BY <1>4, <1>5 DEF WeekInv, TypeOK, TaskList
<1>7. QED
  BY <1>5, <1>6 DEF WeekInv

\* Where a card can be dropped is a time.
LEMMA ResultsAre ==
  ASSUME WeekInv, NEW at \in Results
  PROVE  at \in Time
<1> DEFINE a == drag.at.from
           b == drag.at.to
           ends == (DayOf(a) + 1) * Day
<1>1. a \in Nat /\ b \in Nat /\ a <= b /\ MinSlice \in Nat /\ Horizon \in Nat
  BY WeekBounds, LightPlanConstants DEF WeekInv, TypeOK, Interval
<1>2. ends \in Nat /\ a < ends
  BY <1>1, DayEnds
<1>3. \/ \E start \in 0..Horizon : at = Span(start, start + (b - a))
      \/ \E to \in Smaller(a + MinSlice, ends)..ends : at = Span(a, to)
  BY DEF Results
<1> HIDE DEF a, b, ends
<1>4. ASSUME NEW start \in 0..Horizon, at = Span(start, start + (b - a)) PROVE at \in Time
  <2> DEFINE to == start + (b - a)
  <2>1. start \in Nat /\ to \in Nat /\ start <= to
    BY <1>1
  <2> HIDE DEF to
  <2>2. Span(start, to) \in Time
    BY <2>1, SpanIs DEF Time
  <2>3. QED
    BY <1>4, <2>2 DEF to
<1>5. ASSUME NEW to \in Smaller(a + MinSlice, ends)..ends, at = Span(a, to) PROVE at \in Time
  <2>1. to \in Nat /\ a <= to
    BY <1>1, <1>2 DEF Smaller
  <2>2. QED
    BY <1>1, <1>5, <2>1, SpanIs DEF Time
<1>6. QED
  BY <1>3, <1>4, <1>5

\* A card is dropped: its task gets that time.
LEMMA CardDropped ==
  ASSUME WeekInv, Drop
  PROVE  WeekInv'
<1> DEFINE t == drag.task
<1>1. PICK at \in Results :
        Becomes([tasks EXCEPT ![t].start = at.from, ![t].fixed = TRUE, ![t].duration = at.to - at.from])
  BY DEF Drop
<1>2. at \in Time
  BY ResultsAre
<1>3. t \in Task
  BY DEF Drop, WeekInv, TypeOK
<1>4. /\ TasksAt(tasks, now) /\ tasks \in [Task -> TaskRecord] /\ now \in Nat /\ ops \in 0..MaxOps
      /\ tasks[t] \in TaskRecord /\ tasks[t].tracked <= now /\ (tasks[t].done => tasks[t].doneAt # NoTime)
  BY <1>3, Now DEF TasksAt
<1> HIDE DEF t
<1> DEFINE length == at.to - at.from
           r == [tasks[t] EXCEPT !.start = at.from, !.fixed = TRUE, !.duration = length]
<1>5. at.from \in Nat /\ length \in Nat
  BY <1>2 DEF Time, Interval
<1>6. [tasks EXCEPT ![t].start = at.from, ![t].fixed = TRUE, ![t].duration = length] = [tasks EXCEPT ![t] = r]
  BY <1>3, <1>4
<1>7. Becomes([tasks EXCEPT ![t] = r])
  BY <1>1, <1>6
<1> HIDE DEF length
<1>8. r \in TaskRecord /\ r.tracked = tasks[t].tracked /\ r.done = tasks[t].done /\ r.doneAt = tasks[t].doneAt
  BY <1>4, <1>5 DEF TaskRecord
<1> HIDE DEF r
<1>9. TasksAt([tasks EXCEPT ![t] = r], now)
  BY <1>3, <1>4, <1>8, OneTaskChanged
<1>10. \E list : TasksAt(list, now) /\ Becomes(list)
  BY <1>7, <1>9
<1>11. ops' \in 0..MaxOps /\ UNCHANGED <<dependencies, plan, now>> /\ drag' = NoCard /\ placing' = tasks
  BY <1>4 DEF Drop
<1>12. QED
  BY <1>10, <1>11, TasksChange

\* A click, or the server's answer to a placement.
LEMMA PlacementEnds ==
  ASSUME WeekInv, Click \/ PlacementSaved \/ PlacementRefused
  PROVE  WeekInv'
<1>1. CASE Click
  <2>1. UNCHANGED <<tasks, dependencies, plan, now, light, placing, ops>> /\ drag' = NoCard
    BY <1>1 DEF Click
  <2>2. NoCard.at \in Interval /\ NoCard.at.from <= NoCard.at.to
    BY DEF NoCard, Span, Interval
  <2>3. TypeOK'
    BY <2>1, <2>2 DEF WeekInv, TypeOK, TaskList
  <2>4. QED
    BY <2>1, <2>3 DEF WeekInv
<1>2. CASE PlacementSaved
  <2>1. UNCHANGED <<tasks, dependencies, plan, now, light, drag, ops>> /\ placing' = <<>>
    BY <1>2 DEF PlacementSaved
  <2>2. TypeOK'
    BY <2>1 DEF WeekInv, TypeOK, TaskList
  <2>3. QED
    BY <2>1, <2>2 DEF WeekInv
<1>3. CASE PlacementRefused
  <2>1. TasksAt(placing, now) /\ Becomes(placing)
    BY <1>3, Now DEF PlacementRefused
  <2>2. ops' \in 0..MaxOps /\ UNCHANGED <<dependencies, plan, now, drag>> /\ placing' = <<>>
    BY <1>3, Now DEF PlacementRefused
  <2>3. QED
    BY <2>1, <2>2, TasksChange
<1>4. QED
  BY <1>1, <1>2, <1>3

-----------------------------------------------------------------------------
(* The theorems.                                                           *)

\* A week begins with a plan that was packed, and its light plan.
LEMMA WeekBegins == Init => WeekInv
<1> SUFFICES ASSUME Init PROVE WeekInv
  OBVIOUS
<1>1. TasksAt(tasks, 0) /\ now = 0 /\ drag = NoCard /\ placing = <<>> /\ ops = 0
  BY WeekBounds DEF Init, TasksAt
<1>2. TaskList(tasks)
  BY <1>1 DEF TaskList, TasksAt
<1>3. PICK order \in Orders : plan = Packed(tasks, dependencies, 0, order)
  BY DEF Init
<1>4. PlanIs(plan)
  <2>1. order \in Seq(Task) /\ tasks \in [Task -> TaskRecord]
    BY <1>1, WeekBounds DEF TasksAt
  <2>2. QED
    BY <1>3, <2>1, PackedIs
<1>5. NoCard.at \in Interval /\ NoCard.at.from <= NoCard.at.to
  BY DEF NoCard, Span, Interval
<1>6. TypeOK
  BY <1>1, <1>2, <1>4, <1>5, WeekBounds DEF TypeOK, PlanIs
<1>7. light = Shown(tasks, plan, dependencies, now)
  BY <1>1 DEF Init
<1>8. QED
  BY <1>4, <1>6, <1>7 DEF WeekInv

\* Whatever happens, what is shown follows.
LEMMA WeekGoesOn == WeekInv /\ [Next]_vars => WeekInv'
<1> SUFFICES ASSUME WeekInv, [Next]_vars PROVE WeekInv'
  OBVIOUS
<1>1. CASE Tick
  BY <1>1, TimePasses
<1>2. CASE RunReplan
  BY <1>2, PlanChanges
<1>3. CASE StartDrag
  BY <1>3, DragBegins
<1>4. CASE Drop
  BY <1>4, CardDropped
<1>5. CASE Click \/ PlacementSaved \/ PlacementRefused
  BY <1>5, PlacementEnds
<1>6. ASSUME NEW t \in DOMAIN tasks, OnTrackStart(t) \/ OnTrackStop(t) \/ OnComplete(t) \/ OnJoin(t)
      PROVE  WeekInv'
  BY <1>6, Now, WorkOnTasks
<1>7. ASSUME NEW t \in DOMAIN tasks, NEW d \in Estimates, ChangeEstimate(t, d) PROVE WeekInv'
  BY <1>7, Now, WorkOnTasks
<1>8. CASE UNCHANGED vars
  BY <1>8 DEF vars, WeekInv, TypeOK, TaskList
<1>9. QED
  BY <1>1, <1>2, <1>3, <1>4, <1>5, <1>6, <1>7, <1>8 DEF Next

\* Whatever the user does and however time passes, what is shown is the light
\* plan of the tasks, the plan and the moment.
THEOREM WeekIsCurrent == Spec => []WeekInv
BY WeekBegins, WeekGoesOn, PTL DEF Spec

\* Tasks, plan and what is dragged are as they should be.
THEOREM WeekTyped == Spec => []TypeOK
<1>1. WeekInv => TypeOK
  BY DEF WeekInv
<1>2. QED
  BY <1>1, WeekIsCurrent, PTL

\* For whatever tasks, dependencies, time frames and plans: planning light
\* places nothing in the past, nothing where another slice is, and nothing where
\* an appointment, a pinned task or what is being tracked is (lightPlan.ts).
THEOREM NothingTwice == Spec => []NoDoubleBooking
<1>1. WeekInv => NoDoubleBooking
  BY ShownFits DEF LightFits, NoDoubleBooking
<1>2. QED
  BY <1>1, WeekIsCurrent, PTL

\* The work a planned task or Rest still needs is placed or told of, no moment
\* more and none less; of a recurring task's occurrence never too much.
THEOREM NoWorkLost == Spec => []WorkIsAccounted
<1>1. ASSUME WeekInv PROVE WorkIsAccounted
  <2>1. LightFits(light, tasks, plan, now) /\ DOMAIN light.overflow = UnitsOf(tasks, plan, now)
    BY <1>1, ShownFits DEF LightFits
  <2>2. SUFFICES ASSUME NEW u \in DOMAIN light.overflow
        PROVE  LET task == tasks[u[1]]
                   spent == task.spent + (IF task.tracked = NoTime THEN 0 ELSE now - task.tracked)
                   needed == IF task.done THEN 0 ELSE IF u[2] THEN task.rest ELSE Larger(0, task.duration - spent)
                   shown == Cardinality(Moments({p.at : p \in {q \in light.placed : q.task = u[1] /\ q.rest = u[2]}})) IN
               IF task.occurrence # NoTime THEN shown + light.overflow[u] <= needed
               ELSE shown + light.overflow[u] + light.dropped[u] = needed
    BY DEF WorkIsAccounted
  <2> DEFINE task == tasks[u[1]]
             running == IF task.tracked = NoTime THEN 0 ELSE now - task.tracked
             needed == IF task.done THEN 0 ELSE IF u[2] THEN task.rest
                       ELSE Larger(0, task.duration - (task.spent + running))
             shown == Cardinality(Moments(Pieces(light.placed, u)))
  <2>3. /\ u[1] \in Task
        /\ task.occurrence = NoTime => shown + light.overflow[u] + light.dropped[u] = Needed(task, u[2], now)
        /\ shown + light.overflow[u] <= Needed(task, u[2], now)
    BY <2>1 DEF LightFits
  <2>4. needed = Needed(task, u[2], now)
    <3>1. /\ now \in Nat /\ task.tracked \in Nat \cup {NoTime} /\ task.tracked <= now
          /\ task.duration \in Nat /\ task.spent \in Nat
      BY <1>1, <2>3, Now, RecordIs DEF TasksAt
    <3> DEFINE under == IF task.tracked = NoTime THEN 0 ELSE Larger(0, now - task.tracked)
    <3>2. running = under /\ running \in Nat
      BY <3>1 DEF Larger, NoTime
    <3>3. task.duration - (task.spent + running) = task.duration - task.spent - under
      BY <3>1, <3>2
    <3>4. Needed(task, u[2], now) = IF task.done THEN 0 ELSE IF u[2] THEN task.rest
                                    ELSE Larger(0, task.duration - task.spent - under)
      BY DEF Needed
    <3> HIDE DEF task, running, under
    <3>5. QED
      BY <3>3, <3>4
  <2>5. shown = Cardinality(Moments({p.at : p \in {q \in light.placed : q.task = u[1] /\ q.rest = u[2]}}))
    BY DEF Pieces
  <2> HIDE DEF shown, running
  <2>6. IF task.occurrence # NoTime THEN shown + light.overflow[u] <= needed
        ELSE shown + light.overflow[u] + light.dropped[u] = needed
    BY <2>3, <2>4
  <2>7. QED
    BY <2>5, <2>6 DEF running
<1>2. QED
  BY <1>1, WeekIsCurrent, PTL

=============================================================================
