---------------------------- MODULE MemoryProof ----------------------------
(***************************************************************************)
(* Theorems of CoroutineMemory for every size of the pools and of the      *)
(* ring, and for callers that make any call at any time.                   *)
(*                                                                         *)
(* The percentile is about data: that values can be sorted, and that the   *)
(* rank of a value can be counted.  Both are proved here, sorting by the   *)
(* least length that could not be sorted.  The invariant of the runs is    *)
(* MInv: the scheduler's own, and RingHolds, which says where the ring     *)
(* keeps each of the last values.                                          *)
(***************************************************************************)
EXTENDS CoroutineMemory, CoroutineProof, FunctionTheorems, WellFoundedInduction

-----------------------------------------------------------------------------
(* Sorting.                                                                *)

\* A set of naturals that is not empty has a least element.
LEMMA LeastNat ==
    ASSUME NEW S, S \subseteq Nat, S # {}
    PROVE  \E n \in S : \A m \in S : n <= m
<1> DEFINE R == {m \in Nat \X Nat : m[1] < m[2]}
<1>1. R = OpToRel(<, Nat)
  BY Zenon DEF OpToRel
<1>2. IsWellFoundedOn(R, Nat)
  BY <1>1, NatLessThanWellFounded, Zenon
<1>3. PICK n \in S : \A m \in S : ~(<<m, n>> \in R)
  <2> HIDE DEF R
  <2> QED BY <1>2, WFMin, Zenon
<1>4. \A m \in S : n <= m
  <2> TAKE m \in S
  <2>1. n \in Nat /\ m \in Nat
    OBVIOUS
  <2>2. m < n => <<m, n>> \in R
    BY <2>1, SMT
  <2> HIDE DEF R
  <2> QED BY <1>3, <2>1, <2>2
<1> QED BY <1>4

\* An order of n places meets each of them exactly once.
LEMMA OrderIs ==
    ASSUME NEW n, NEW p \in Bijection(1 .. n, 1 .. n)
    PROVE  /\ p \in [1 .. n -> 1 .. n]
           /\ \A a, b \in 1 .. n : p[a] = p[b] => a = b
           /\ \A t \in 1 .. n : \E s \in 1 .. n : p[s] = t
<1>1. /\ p \in [1 .. n -> 1 .. n]
      /\ p \in Injection(1 .. n, 1 .. n) /\ p \in Surjection(1 .. n, 1 .. n)
  BY Fun_BijectionProperties, Zenon
<1>2. \A a, b \in 1 .. n : p[a] = p[b] => a = b
  BY <1>1, Fun_InjectionProperties, Zenon
<1>3. \A t \in 1 .. n : \E s \in 1 .. n : p[s] = t
  BY <1>1, Zenon DEF Surjection
<1> QED BY <1>1, <1>2, <1>3

Ascending(t, n) == \A i, j \in 1 .. n : i < j => t[i] <= t[j]

\* An order that sorts the first n values of f.
SortedBy(f, p, n) ==
    /\ p \in Bijection(1 .. n, 1 .. n)
    /\ \A i, j \in 1 .. n : i < j => f[p[i]] <= f[p[j]]

\* One value more is put behind the last value that is not greater.
LEMMA Insertion ==
    ASSUME NEW n \in Nat, NEW f \in [1 .. n + 1 -> Int],
           NEW p, SortedBy(f, p, n)
    PROVE  \E q : SortedBy(f, q, n + 1)
<1>1. /\ p \in [1 .. n -> 1 .. n]
      /\ \A a, b \in 1 .. n : p[a] = p[b] => a = b
      /\ \A t \in 1 .. n : \E s \in 1 .. n : p[s] = t
  <2>1. p \in Bijection(1 .. n, 1 .. n)
    BY DEF SortedBy
  <2> QED BY <2>1, OrderIs
<1>2. \A i, j \in 1 .. n : i < j => f[p[i]] <= f[p[j]]
  BY DEF SortedBy
<1> DEFINE S == {k \in 1 .. n + 1 : k = n + 1 \/ f[n + 1] < f[p[k]]}
<1>3. PICK k \in S : \A m \in S : k <= m
  <2>1. S \subseteq Nat /\ n + 1 \in S
    OBVIOUS
  <2> QED BY <2>1, LeastNat
<1>4. k \in 1 .. n + 1 /\ (k = n + 1 \/ f[n + 1] < f[p[k]])
  OBVIOUS
<1>5. \A i \in 1 .. n : i < k => f[p[i]] <= f[n + 1]
  <2> SUFFICES ASSUME NEW i \in 1 .. n, i < k PROVE f[p[i]] <= f[n + 1]
    OBVIOUS
  <2>1. i \notin S
    BY <1>3, <1>4
  <2>2. f[p[i]] \in Int /\ f[n + 1] \in Int
    BY <1>1
  <2>3. i \in 1 .. n + 1
    OBVIOUS
  <2> QED BY <2>1, <2>2, <2>3
<1>6. \A i \in 1 .. n : i >= k => f[n + 1] <= f[p[i]]
  <2> SUFFICES ASSUME NEW i \in 1 .. n, i >= k PROVE f[n + 1] <= f[p[i]]
    OBVIOUS
  <2>1. k \in 1 .. n /\ f[n + 1] < f[p[k]]
    BY <1>4
  <2>2. i = k \/ f[p[k]] <= f[p[i]]
    BY <1>2, <1>4, <2>1
  <2>3. p[i] \in 1 .. n + 1 /\ p[k] \in 1 .. n + 1 /\ n + 1 \in 1 .. n + 1
    <3>1. p[i] \in 1 .. n /\ p[k] \in 1 .. n
      BY <1>1, <2>1
    <3> QED BY <3>1
  <2>4. f[p[i]] \in Int /\ f[p[k]] \in Int /\ f[n + 1] \in Int
    BY <2>3
  <2> QED BY <2>1, <2>2, <2>4
<1> HIDE DEF S
<1> DEFINE q == [i \in 1 .. n + 1 |->
                    IF i < k THEN p[i] ELSE IF i = k THEN n + 1 ELSE p[i - 1]]
<1>7. \A i \in 1 .. n + 1 :
         /\ i < k => i \in 1 .. n /\ q[i] = p[i]
         /\ i = k => q[i] = n + 1
         /\ i > k => i - 1 \in 1 .. n /\ q[i] = p[i - 1]
  BY <1>4
<1>8. q \in [1 .. n + 1 -> 1 .. n + 1]
  <2>1. ASSUME NEW i \in 1 .. n + 1 PROVE q[i] \in 1 .. n + 1
    <3> HIDE DEF q
    <3>1. CASE i < k
      <4> i \in 1 .. n /\ q[i] = p[i]
        BY <1>7, <3>1
      <4> p[i] \in 1 .. n
        BY <1>1
      <4> QED OBVIOUS
    <3>2. CASE i = k
      BY <1>7, <3>2
    <3>3. CASE i > k
      <4> i - 1 \in 1 .. n /\ q[i] = p[i - 1]
        BY <1>7, <3>3
      <4> p[i - 1] \in 1 .. n
        BY <1>1
      <4> QED OBVIOUS
    <3> QED BY <1>4, <3>1, <3>2, <3>3
  <2> QED BY <2>1
<1> HIDE DEF q
<1>9. q \in Bijection(1 .. n + 1, 1 .. n + 1)
  <2>1. ASSUME NEW a \in 1 .. n + 1, NEW b \in 1 .. n + 1, q[a] = q[b]
        PROVE  a = b
    <3> DEFINE at(i) == IF i < k THEN i ELSE i - 1
    <3>1. CASE a # k /\ b # k
      <4>1. /\ at(a) \in 1 .. n /\ q[a] = p[at(a)]
            /\ at(b) \in 1 .. n /\ q[b] = p[at(b)]
        BY <1>4, <1>7, <3>1
      <4>2. at(a) = at(b)
        BY <1>1, <2>1, <4>1
      <4> QED BY <1>4, <3>1, <4>2
    <3>2. CASE a = k \/ b = k
      <4>1. \A i \in 1 .. n + 1 : i # k => q[i] # n + 1
        BY <1>1, <1>4, <1>7
      <4> QED BY <1>7, <2>1, <3>2, <4>1
    <3> QED BY <3>1, <3>2
  <2>2. ASSUME NEW t \in 1 .. n + 1 PROVE \E s \in 1 .. n + 1 : q[s] = t
    <3>1. CASE t = n + 1
      BY <1>4, <1>7, <3>1
    <3>2. CASE t # n + 1
      <4>1. PICK s \in 1 .. n : p[s] = t
        BY <1>1, <3>2
      <4>2. CASE s < k
        BY <1>7, <4>1, <4>2
      <4>3. CASE s >= k
        <5>1. s + 1 \in 1 .. n + 1 /\ s + 1 > k /\ (s + 1) - 1 = s
          BY <1>4, <4>3
        <5> QED BY <1>7, <4>1, <5>1
      <4> QED BY <1>4, <4>2, <4>3
    <3> QED BY <3>1, <3>2
  <2> QED BY <1>8, <2>1, <2>2, Fun_IsBij
<1>10. ASSUME NEW i \in 1 .. n + 1, NEW j \in 1 .. n + 1, i < j
       PROVE  f[q[i]] <= f[q[j]]
  <2>0. n + 1 \in 1 .. n + 1 /\ f[n + 1] \in Int
    OBVIOUS
  <2>1. CASE j < k
    <3>1. i \in 1 .. n /\ j \in 1 .. n /\ i < k
      BY <1>4, <1>10, <2>1
    <3>2. f[p[i]] <= f[p[j]]
      BY <1>2, <1>10, <3>1
    <3> QED BY <1>7, <2>1, <3>1, <3>2
  <2>2. CASE j = k
    BY <1>4, <1>5, <1>7, <1>10, <2>2
  <2>3. CASE j > k /\ i < k
    <3>1. i \in 1 .. n /\ j - 1 \in 1 .. n /\ j - 1 >= k /\ i < j - 1
      BY <1>4, <2>3
    <3>2. f[p[i]] <= f[p[j - 1]]
      BY <1>2, <3>1
    <3> QED BY <1>7, <2>3, <3>2
  <2>4. CASE j > k /\ i = k
    <3>1. j - 1 \in 1 .. n /\ j - 1 >= k
      BY <1>4, <2>4
    <3>2. f[n + 1] <= f[p[j - 1]]
      BY <1>6, <3>1
    <3> QED BY <1>7, <2>4, <3>2
  <2>5. CASE j > k /\ i > k
    <3>1. i - 1 \in 1 .. n /\ j - 1 \in 1 .. n /\ i - 1 < j - 1
      BY <1>4, <1>10, <2>5
    <3>2. f[p[i - 1]] <= f[p[j - 1]]
      BY <1>2, <3>1
    <3> QED BY <1>7, <2>5, <3>2
  <2> QED BY <1>4, <2>1, <2>2, <2>3, <2>4, <2>5
<1> QED BY <1>9, <1>10 DEF SortedBy

Sortable(n) == \A f \in [1 .. n -> Int] : \E p : SortedBy(f, p, n)

\* Any number of values can be sorted: there is no least number that cannot.
LEMMA AllSortable == \A n \in Nat : Sortable(n)
<1> SUFFICES ASSUME NEW bad \in Nat, ~Sortable(bad) PROVE FALSE
  OBVIOUS
<1>1. PICK n \in {m \in Nat : ~Sortable(m)} :
         \A m \in {k \in Nat : ~Sortable(k)} : n <= m
  BY LeastNat
<1>2. CASE n = 0
  <2> SUFFICES ASSUME NEW f \in [1 .. 0 -> Int] PROVE \E p : SortedBy(f, p, 0)
    BY <1>1, <1>2 DEF Sortable
  <2> DEFINE p == [i \in 1 .. 0 |-> i]
  <2>1. /\ p \in [1 .. 0 -> 1 .. 0]
        /\ \A a, b \in 1 .. 0 : p[a] = p[b] => a = b
        /\ \A t \in 1 .. 0 : \E s \in 1 .. 0 : p[s] = t
    OBVIOUS
  <2>2. p \in Bijection(1 .. 0, 1 .. 0)
    <3> HIDE DEF p
    <3> QED BY <2>1, Fun_IsBij
  <2>3. \A i, j \in 1 .. 0 : i < j => f[p[i]] <= f[p[j]]
    OBVIOUS
  <2> QED BY <2>2, <2>3 DEF SortedBy
<1>3. CASE n # 0
  <2>1. n - 1 \in Nat /\ (n - 1) + 1 = n
    BY <1>3
  <2>2. Sortable(n - 1)
    BY <1>1, <2>1
  <2> SUFFICES ASSUME NEW f \in [1 .. n -> Int] PROVE \E p : SortedBy(f, p, n)
    BY <1>1 DEF Sortable
  <2> DEFINE g == [i \in 1 .. n - 1 |-> f[i]]
  <2>3. g \in [1 .. n - 1 -> Int]
    BY <2>1
  <2>4. PICK p : SortedBy(g, p, n - 1)
    <3> HIDE DEF g
    <3> QED BY <2>2, <2>3 DEF Sortable
  <2>5. SortedBy(f, p, n - 1)
    <3>1. p \in [1 .. n - 1 -> 1 .. n - 1]
      <4> HIDE DEF g
      <4>1. p \in Bijection(1 .. n - 1, 1 .. n - 1)
        BY <2>4 DEF SortedBy
      <4> QED BY <4>1, OrderIs
    <3>2. \A i \in 1 .. n - 1 : g[p[i]] = f[p[i]]
      BY <3>1
    <3> HIDE DEF g
    <3> QED BY <2>4, <3>2 DEF SortedBy
  <2> QED BY <2>1, <2>5, Insertion
<1> QED BY <1>2, <1>3

\* What Sorted returns: the values in ascending order, each in the place that
\* some order gives it.
LEMMA SortedIs ==
    ASSUME NEW values \in Seq(Int)
    PROVE  \E p \in Bijection(1 .. Len(values), 1 .. Len(values)) :
              /\ Sorted(values) = [i \in 1 .. Len(values) |-> values[p[i]]]
              /\ Ascending(Sorted(values), Len(values))
<1> DEFINE n == Len(values)
<1> DEFINE P(p) == \A i, j \in 1 .. n : i < j => values[p[i]] <= values[p[j]]
<1> DEFINE order == CHOOSE p \in Bijection(1 .. n, 1 .. n) : P(p)
<1>1. n \in Nat /\ values \in [1 .. n -> Int]
  OBVIOUS
<1>2. \E p \in Bijection(1 .. n, 1 .. n) : P(p)
  <2> HIDE DEF n
  <2>1. PICK p : SortedBy(values, p, n)
    BY <1>1, AllSortable DEF Sortable
  <2> QED BY <2>1 DEF SortedBy
<1>3. order \in Bijection(1 .. n, 1 .. n) /\ P(order)
  <2> HIDE DEF P
  <2> QED BY <1>2
<1>4. Sorted(values) = [i \in 1 .. n |-> values[order[i]]]
  BY Zenon DEF Sorted
<1> HIDE DEF order
<1>5. Ascending(Sorted(values), n)
  <2> HIDE DEF n
  <2> QED BY <1>3, <1>4 DEF Ascending
<1> QED BY <1>3, <1>4, <1>5

-----------------------------------------------------------------------------
(* Numbers.                                                                *)

\* Products keep an order, and show it.
LEMMA TimesOrder ==
    ASSUME NEW a \in Int, NEW b \in Int, NEW c \in Nat
    PROVE  /\ a <= b => c * a <= c * b
           /\ c # 0 /\ c * a <= c * b => a <= b
           /\ c # 0 /\ c * a < c * b => a < b
<1>1. a <= b => c * a <= c * b
  <2>1. a <= b => 0 <= c * (b - a)
    <3>1. b - a \in Int
      OBVIOUS
    <3> QED BY <3>1
  <2>2. c * (b - a) = c * b - c * a
    OBVIOUS
  <2>3. c * a \in Int /\ c * b \in Int
    OBVIOUS
  <2> QED BY <2>1, <2>2, <2>3
<1>2. c # 0 /\ b < a => c * b < c * a
  <2>1. c # 0 /\ b < a => 0 < c * (a - b)
    <3>1. a - b \in Int
      OBVIOUS
    <3> QED BY <3>1
  <2>2. c * (a - b) = c * a - c * b
    OBVIOUS
  <2>3. c * a \in Int /\ c * b \in Int
    OBVIOUS
  <2> QED BY <2>1, <2>2, <2>3
<1>3. c * a \in Int /\ c * b \in Int
  OBVIOUS
<1> QED BY <1>1, <1>2, <1>3

\* Division leaves a remainder smaller than the divisor.
LEMMA DivMod ==
    ASSUME NEW a \in Nat, NEW b \in Nat \ {0}
    PROVE  /\ a \div b \in Nat /\ a % b \in Nat
           /\ a = b * (a \div b) + (a % b)
           /\ a % b < b
  OBVIOUS

\* The nearest whole number is half away at most.
LEMMA NearestIs ==
    ASSUME NEW a \in Nat, NEW b \in Nat \ {0}
    PROVE  /\ Nearest(a, b) \in Nat
           /\ 2 * (b * Nearest(a, b)) <= 2 * a + b
           /\ 2 * a <= 2 * (b * Nearest(a, b)) + b
<1> DEFINE q == a \div b
           r == a % b
<1>1. q \in Nat /\ r \in Nat /\ a = b * q + r /\ r < b
  BY DivMod
<1>2. \/ Nearest(a, b) = q /\ 2 * r <= b
      \/ Nearest(a, b) = q + 1 /\ 2 * r >= b
  <2>1. Nearest(a, b) = IF 2 * r < b \/ (2 * r = b /\ q % 2 = 0) THEN q ELSE q + 1
    BY Zenon DEF Nearest
  <2> HIDE DEF q, r
  <2> QED BY <1>1, <2>1
<1> HIDE DEF q, r
<1>3. b * (q + 1) = b * q + b
  BY <1>1
<1> QED BY <1>1, <1>2, <1>3

\* Two numbers, in units of 1 / M and of 1 / den, that are less than 1 / den
\* apart: cut off, they are the same, or the second is a whole number.
LEMMA CutIs ==
    ASSUME NEW M \in Nat \ {0}, NEW den \in Nat \ {0}, NEW W \in Nat, NEW A \in Nat,
           den * W < M * A + M, M * A < den * W + M
    PROVE  W \div M \in {A \div den, (A - 1) \div den}
<1> DEFINE q == A \div den
           r == A % den
           w == W \div M
           s == W % M
<1>1. /\ q \in Nat /\ r \in Nat /\ A = den * q + r /\ r < den
      /\ w \in Nat /\ s \in Nat /\ W = M * w + s /\ s < M
  OBVIOUS
<1>2. r = 0 => (A - 1) \div den = q - 1
  <2>1. r = 0 => A - 1 = den * (q - 1) + (den - 1)
    BY <1>1
  <2>2. \A a \in Int, b \in Int, c \in 0 .. den - 1 : a = den * b + c => a \div den = b
    <3>1. SUFFICES ASSUME NEW a \in Int, NEW b \in Int, NEW c \in 0 .. den - 1,
                          a = den * b + c
                   PROVE  a \div den = b
      OBVIOUS
    <3> DEFINE z == a \div den
    <3>2. z \in Int /\ a = den * z + (a % den) /\ a % den \in 0 .. den - 1
      BY <3>1
    <3> HIDE DEF z
    <3>3. den * z < den * (b + 1) /\ den * b < den * (z + 1)
      BY <3>1, <3>2
    <3>4. z < b + 1 /\ b < z + 1
      BY <3>2, <3>3, TimesOrder
    <3> QED BY <3>2, <3>4 DEF z
  <2>3. A - 1 \in Int /\ q - 1 \in Int /\ den - 1 \in 0 .. den - 1
    BY <1>1
  <2> HIDE DEF q, r
  <2> QED BY <2>1, <2>2, <2>3
<1> HIDE DEF q, r, w, s
<1>3. w <= q
  <2>1. den * W < den * (M * (q + 1))
    <3>1. M * (A + 1) <= M * (den * (q + 1))
      <4>1. A + 1 <= den * (q + 1)
        BY <1>1
      <4>2. A + 1 \in Int /\ den * (q + 1) \in Int
        BY <1>1
      <4> QED BY <4>1, <4>2, TimesOrder
    <3>2. M * (A + 1) = M * A + M
      OBVIOUS
    <3>3. M * (den * (q + 1)) = den * (M * (q + 1))
      BY <1>1
    <3>4. M * A \in Int /\ den * W \in Int /\ M * (den * (q + 1)) \in Int
      BY <1>1
    <3> QED BY <3>1, <3>2, <3>3, <3>4
  <2>2. W < M * (q + 1)
    <3>1. M * (q + 1) \in Int
      BY <1>1
    <3> QED BY <2>1, <3>1, TimesOrder
  <2>3. M * w < M * (q + 1)
    <3>1. M * w \in Int /\ M * (q + 1) \in Int
      BY <1>1
    <3> QED BY <1>1, <2>2, <3>1
  <2>4. w < q + 1
    BY <1>1, <2>3, TimesOrder
  <2> QED BY <1>1, <2>4
<1>4. ASSUME NEW g \in Int, den * g <= A - 1 PROVE g <= w
  <2>1. M * (den * g) <= M * (A - 1)
    <3>1. den * g \in Int /\ A - 1 \in Int
      OBVIOUS
    <3> QED BY <1>4, <3>1, TimesOrder
  <2>2. M * (A - 1) = M * A - M /\ M * (den * g) = den * (M * g)
    OBVIOUS
  <2>3. den * (M * g) < den * W
    <3>1. M * A \in Int /\ den * W \in Int /\ M * (den * g) \in Int
      OBVIOUS
    <3> QED BY <2>1, <2>2, <3>1
  <2>4. M * g < W
    <3>1. M * g \in Int
      OBVIOUS
    <3> QED BY <2>3, <3>1, TimesOrder
  <2>5. M * g < M * (w + 1)
    <3>1. M * w \in Int /\ M * (w + 1) = M * w + M /\ M * g \in Int
      BY <1>1
    <3> QED BY <1>1, <2>4, <3>1
  <2>6. g < w + 1
    BY <1>1, <2>5, TimesOrder
  <2> QED BY <1>1, <2>6
<1>5. CASE r # 0
  <2>1. den * q <= A - 1 /\ q \in Int
    BY <1>1, <1>5
  <2>2. w = q
    BY <1>1, <1>3, <1>4, <2>1
  <2> QED BY <2>2 DEF w, q
<1>6. CASE r = 0
  <2>1. den * (q - 1) <= A - 1 /\ q - 1 \in Int
    BY <1>1, <1>6
  <2>2. w = q \/ w = q - 1
    BY <1>1, <1>3, <1>4, <2>1
  <2> QED BY <1>2, <1>6, <2>2 DEF w, q
<1> QED BY <1>5, <1>6

\* Values at two ranks, x in units of 1 / M and y in units of 1 / den, that are
\* F / (M * den) apart, less than 1: with rises of C at most from one value to
\* the next, what is interpolated at the two is F * C / (M * den) apart.
LEMMA Close ==
    ASSUME NEW M \in Nat \ {0}, NEW den \in Nat \ {0}, NEW C \in Nat, NEW F \in Nat,
           NEW i \in Nat, NEW j \in Nat, j < M,
           NEW k \in Nat, NEW l \in Nat, l < den,
           NEW x, x = M * i + j, NEW y, y = den * k + l,
           den * x <= M * y + F, M * y <= den * x + F, F < M * den,
           NEW a \in Nat, NEW d \in 0 .. C, NEW b \in Nat, NEW e \in 0 .. C,
           i = k => a = b /\ d = e,
           i + 1 = k => b = a + d,
           k + 1 = i => a = b + e
    PROVE  LET V == M * a + j * d
               A == den * b + l * e
           IN  den * V <= M * A + F * C /\ M * A <= den * V + F * C
<1> DEFINE V == M * a + j * d
           A == den * b + l * e
           G == M * den
           dj == den * j
           Ml == M * l
<1>1. /\ G \in Nat \ {0} /\ dj \in Nat /\ Ml \in Nat
      /\ den * x = G * i + dj /\ M * y = G * k + Ml
  OBVIOUS
<1>2. dj <= G /\ Ml <= G /\ dj < G /\ Ml < G
  <2>1. den * j < den * M
    OBVIOUS
  <2>2. M * l < M * den
    OBVIOUS
  <2> QED BY <2>1, <2>2
<1>3. /\ den * V = G * a + dj * d
      /\ M * A = G * b + Ml * e
  OBVIOUS
<1>4. G * i + dj <= G * k + Ml + F /\ G * k + Ml <= G * i + dj + F /\ F < G
  BY <1>1
<1> HIDE DEF V, A, G, dj, Ml
<1>5. i <= k + 1 /\ k <= i + 1
  <2>1. G * i < G * (k + 2) /\ G * k < G * (i + 2)
    <3>1. G * (k + 2) = G * k + G + G /\ G * (i + 2) = G * i + G + G
      BY <1>1
    <3>2. G * k \in Int /\ G * i \in Int
      BY <1>1
    <3> QED BY <1>1, <1>2, <1>4, <3>1, <3>2
  <2>2. i < k + 2 /\ k < i + 2
    BY <1>1, <2>1, TimesOrder
  <2> QED BY <2>2
<1>6. ASSUME NEW u \in Int, NEW w \in 0 .. C, u <= F PROVE u * w <= F * C
  <2>1. w * u <= w * F
    BY <1>6, TimesOrder
  <2>2. F * w <= F * C
    BY TimesOrder
  <2> QED BY <2>1, <2>2
<1>7. CASE i = k
  <2>1. dj - Ml <= F /\ Ml - dj <= F
    <3>1. G * i \in Int
      BY <1>1
    <3> QED BY <1>1, <1>4, <1>7, <3>1
  <2>2. (dj - Ml) * d <= F * C /\ (Ml - dj) * d <= F * C
    BY <1>1, <1>6, <2>1
  <2>3. /\ (dj - Ml) * d = dj * d - Ml * d
        /\ (Ml - dj) * d = Ml * d - dj * d
    BY <1>1
  <2>4. dj * d \in Int /\ Ml * d \in Int /\ G * a \in Int /\ F * C \in Int
    BY <1>1
  <2>5. den * V <= M * A + F * C /\ M * A <= den * V + F * C
    BY <1>3, <1>7, <2>2, <2>3, <2>4
  <2> QED BY <2>5 DEF V, A
<1>8. CASE i + 1 = k
  <2> DEFINE u == G - dj
  <2>1. u \in Nat /\ u + Ml <= F
    <3>1. G * k = G * i + G /\ G * i \in Int
      BY <1>1, <1>8
    <3> QED BY <1>1, <1>2, <1>4, <3>1
  <2>2. G * b = G * a + G * d /\ G * d = dj * d + u * d
    BY <1>1, <1>8
  <2> HIDE DEF u
  <2>3. u * C + Ml * C <= F * C
    <3>1. (u + Ml) * C <= F * C
      BY <1>1, <1>6, <2>1
    <3>2. (u + Ml) * C = u * C + Ml * C
      BY <1>1, <2>1
    <3> QED BY <3>1, <3>2
  <2>4. u * d <= u * C /\ Ml * e <= Ml * C
    BY <1>1, <2>1, TimesOrder
  <2>5. /\ dj * d \in Nat /\ u * d \in Nat /\ Ml * e \in Nat /\ G * a \in Nat
        /\ u * C \in Nat /\ Ml * C \in Nat /\ F * C \in Nat
    BY <1>1, <2>1
  <2>6. den * V <= M * A + F * C /\ M * A <= den * V + F * C
    BY <1>3, <2>2, <2>3, <2>4, <2>5
  <2> QED BY <2>6 DEF V, A
<1>9. CASE k + 1 = i
  <2> DEFINE u == G - Ml
  <2>1. u \in Nat /\ u + dj <= F
    <3>1. G * i = G * k + G /\ G * k \in Int
      BY <1>1, <1>9
    <3> QED BY <1>1, <1>2, <1>4, <3>1
  <2>2. G * a = G * b + G * e /\ G * e = Ml * e + u * e
    BY <1>1, <1>9
  <2> HIDE DEF u
  <2>3. u * C + dj * C <= F * C
    <3>1. (u + dj) * C <= F * C
      BY <1>1, <1>6, <2>1
    <3>2. (u + dj) * C = u * C + dj * C
      BY <1>1, <2>1
    <3> QED BY <3>1, <3>2
  <2>4. u * e <= u * C /\ dj * d <= dj * C
    BY <1>1, <2>1, TimesOrder
  <2>5. /\ dj * d \in Nat /\ u * e \in Nat /\ Ml * e \in Nat /\ G * b \in Nat
        /\ u * C \in Nat /\ dj * C \in Nat /\ F * C \in Nat
    BY <1>1, <2>1
  <2>6. den * V <= M * A + F * C /\ M * A <= den * V + F * C
    BY <1>3, <2>2, <2>3, <2>4, <2>5
  <2> QED BY <2>6 DEF V, A
<1> QED BY <1>5, <1>7, <1>8, <1>9

-----------------------------------------------------------------------------
(* Doubles.                                                                *)

\* Rounding changes a number by half of a Significand-th of it at most, stated
\* here for the whole of it.
LEMMA RoundIs ==
    ASSUME NEW v \in Nat, v <= Significand * Significand
    PROVE  /\ Round(v) \in Nat
           /\ Significand * Round(v) <= Significand * v + v
           /\ Significand * v <= Significand * Round(v) + v
<1> DEFINE M == Significand
           S == {u \in Spacings : v <= M * u}
           u == Spacing(v)
           m == Nearest(v, u)
<1>1. /\ Spacings \subseteq Nat \ {0} /\ 1 \in Spacings /\ M \in Spacings
      /\ \A w \in Spacings : w = 1 \/ \E half \in Spacings : w = 2 * half
      /\ M \in Nat \ {0}
  BY DoubleAssumption
<1>2. \E w \in Spacings : v <= M * w /\ \A z \in Spacings : v <= M * z => w <= z
  <2>1. M \in S /\ S \subseteq Nat
    BY <1>1
  <2> HIDE DEF S
  <2>2. PICK w \in S : \A z \in S : w <= z
    BY <2>1, LeastNat
  <2> QED BY <2>2 DEF S
<1>3. u \in Spacings /\ v <= M * u /\ \A z \in Spacings : v <= M * z => u <= z
  <2> DEFINE L(w) == v <= M * w /\ \A z \in Spacings : v <= M * z => w <= z
  <2>1. u = CHOOSE w \in Spacings : L(w)
    BY Zenon DEF Spacing
  <2>2. \E w \in Spacings : L(w)
    BY <1>2
  <2> HIDE DEF L, u
  <2>3. u \in Spacings /\ L(u)
    BY <2>1, <2>2
  <2> QED BY <2>3 DEF L
<1>4. Round(v) = m * u
  BY Zenon DEF Round
<1> HIDE DEF u
<1>5. /\ u \in Nat \ {0} /\ m \in Nat
      /\ 2 * (u * m) <= 2 * v + u
      /\ 2 * v <= 2 * (u * m) + u
  BY <1>1, <1>3, NearestIs
<1> HIDE DEF M, m, S
<1>6. CASE u = 1
  <2>1. m * u = v
    BY <1>5, <1>6
  <2> QED BY <1>1, <1>4, <2>1 DEF M
<1>7. CASE u # 1
  <2>1. PICK half \in Spacings : u = 2 * half
    BY <1>1, <1>3, <1>7
  <2>2. half \in Nat \ {0} /\ half < u
    BY <1>1, <2>1
  <2>3. M * half < v
    <3>1. ~(v <= M * half)
      BY <1>1, <1>3, <2>2
    <3> QED BY <1>1, <2>2, <3>1
  <2> DEFINE r == m * u
  <2>4. r \in Nat /\ r <= v + half /\ v <= r + half
    BY <1>5, <2>1, <2>2
  <2> HIDE DEF r
  <2>5. M * r <= M * v + M * half /\ M * v <= M * r + M * half
    BY <1>1, <2>2, <2>4
  <2>6. M * r <= M * v + v /\ M * v <= M * r + v
    <3>1. M * r \in Nat /\ M * v \in Nat /\ M * half \in Nat
      BY <1>1, <2>2, <2>4
    <3> QED BY <2>3, <2>5, <3>1
  <2> QED BY <1>4, <2>4, <2>6 DEF M, r
<1> QED BY <1>6, <1>7

\* A product that is not greater than b * Significand is rounded by b at most.
LEMMA RoundBy ==
    ASSUME NEW v \in Nat, NEW b \in Nat, v <= Significand * b, b <= Significand
    PROVE  Round(v) \in Nat /\ Round(v) <= v + b /\ v <= Round(v) + b
<1> DEFINE M == Significand
           r == Round(v)
<1>1. M \in Nat \ {0}
  BY DoubleAssumption
<1>2. v <= M * M
  <2>1. M * b <= M * M
    BY <1>1, TimesOrder
  <2>2. M * b \in Int /\ M * M \in Int
    BY <1>1
  <2> QED BY <2>1, <2>2
<1>3. r \in Nat /\ M * r <= M * v + v /\ M * v <= M * r + v
  BY <1>2, RoundIs
<1> HIDE DEF r
<1>4. M * r <= M * (v + b) /\ M * v <= M * (r + b)
  <2>1. /\ M * (v + b) = M * v + M * b /\ M * (r + b) = M * r + M * b
        /\ M * v \in Int /\ M * r \in Int /\ M * b \in Int
    BY <1>1, <1>3
  <2>2. v <= M * b
    OBVIOUS
  <2> HIDE DEF M
  <2> QED BY <1>3, <2>1, <2>2
<1> HIDE DEF M
<1>5. r <= v + b /\ v <= r + b
  <2>1. v + b \in Int /\ r + b \in Int
    BY <1>3
  <2> QED BY <1>1, <1>3, <1>4, <2>1, TimesOrder
<1> QED BY <1>3, <1>5 DEF r

\* The sizes of the pools and of the ring are small for a double.
LEMMA SizesAreSmall ==
    LET n == max_stat_data_len_ - 1
        M == Significand
        C == coroutineCnt
    IN  /\ n \in Nat /\ M \in Nat \ {0} /\ C \in Nat \ {0}
        /\ PctNum \in Nat /\ PctDen \in Nat \ {0} /\ PctNum < PctDen
        /\ 2 * PctDen <= M /\ n <= M /\ 2 * n < M /\ C <= M /\ 2 * C <= M
        /\ 2 * (n * PctDen) * C + 4 * (PctDen * C) < M
<1> DEFINE n == max_stat_data_len_ - 1
           M == Significand
           C == coroutineCnt
           den == PctDen
           z == den * C
<1>1. /\ n \in Nat /\ M \in Nat \ {0} /\ C \in Nat \ {0} /\ den \in Nat \ {0}
      /\ PctNum \in Nat /\ PctNum < den /\ max_stat_data_len_ + 1 = n + 2
      /\ 2 * den * C * (max_stat_data_len_ + 1) < M
  <2>1. n \in Nat /\ max_stat_data_len_ + 1 = n + 2
    BY PercentileAssumption
  <2>2. M \in Nat \ {0}
    BY DoubleAssumption
  <2>3. C \in Nat \ {0}
    BY CoroutineAssumption
  <2>4. /\ den \in Nat \ {0} /\ PctNum \in Nat /\ PctNum < den
    BY MemoryAssumption
  <2>5. 2 * den * C * (max_stat_data_len_ + 1) < M
    BY MemoryAssumption, Zenon
  <2> QED BY <2>1, <2>2, <2>3, <2>4, <2>5
<1> HIDE DEF n, M, C, den
<1>2. z \in Nat \ {0} /\ den <= z /\ C <= z
  <2>1. den * 1 <= den * C /\ C * 1 <= C * den
    BY <1>1, TimesOrder
  <2> QED BY <1>1, <2>1
<1>3. 2 * den * C * (max_stat_data_len_ + 1) = 2 * (n * z) + 4 * z
  BY <1>1
<1>4. 2 * (n * den) * C = 2 * (n * z)
  BY <1>1
<1> HIDE DEF z
<1>5. n * z \in Nat /\ n <= n * z
  <2>1. n * 1 <= n * z
    BY <1>1, <1>2, TimesOrder
  <2> QED BY <1>1, <1>2, <2>1
<1>6. 2 * (n * z) + 4 * z < M
  BY <1>1, <1>3
<1>7. 2 * den <= M /\ n <= M /\ 2 * n < M /\ C <= M /\ 2 * C <= M
  BY <1>1, <1>2, <1>5, <1>6
<1>8. 2 * (n * den) * C + 4 * (den * C) < M
  BY <1>4, <1>6 DEF z
<1> QED BY <1>1, <1>7, <1>8 DEF n, M, C, den

\* The rank that the code computes is at most 2 * n / Significand away from
\* the one that is meant, of the n + 1 values, and not behind the last value.
LEMMA RankIs ==
    LET n == max_stat_data_len_ - 1
        M == Significand
        x == Round(n * Literal(PctNum, PctDen))
        y == n * PctNum
    IN  /\ x \in Nat /\ x <= M * n
        /\ PctDen * x <= M * y + 2 * (n * PctDen)
        /\ M * y <= PctDen * x + 2 * (n * PctDen)
<1> DEFINE n == max_stat_data_len_ - 1
           M == Significand
           num == PctNum
           den == PctDen
           p == Literal(num, den)
           v == n * p
           x == Round(v)
           y == n * num
           nd == n * den
           My == M * y
<1>1. /\ n \in Nat /\ M \in Nat \ {0} /\ num \in Nat /\ den \in Nat \ {0}
      /\ num < den /\ 2 * den <= M /\ n <= M
  BY SizesAreSmall
<1>2. /\ p \in Nat
      /\ 2 * (den * p) <= 2 * (M * num) + den
      /\ 2 * (M * num) <= 2 * (den * p) + den
  <2>1. M * num \in Nat
    BY <1>1
  <2>2. p = Nearest(M * num, den)
    BY DEF Literal
  <2> HIDE DEF p
  <2> QED BY <1>1, <2>1, <2>2, NearestIs
<1> HIDE DEF n, M, num, den, p
<1>3. p <= M
  <2>1. M * num <= M * (den - 1)
    BY <1>1, TimesOrder
  <2>2. M * (den - 1) = den * M - M /\ den * M \in Nat /\ M * num \in Nat
    BY <1>1
  <2>3. den * p \in Nat
    BY <1>1, <1>2
  <2>4. den * p <= den * M
    BY <1>1, <1>2, <2>1, <2>2, <2>3
  <2> QED BY <1>1, <1>2, <2>4, TimesOrder
<1>4. v \in Nat /\ v <= M * n
  <2>1. n * p <= n * M
    BY <1>1, <1>2, <1>3, TimesOrder
  <2> QED BY <1>1, <1>2, <2>1
<1> HIDE DEF v
<1>5. x \in Nat /\ x <= v + n /\ v <= x + n
  BY <1>1, <1>4, RoundBy DEF M
<1> HIDE DEF x
<1>6. /\ 2 * (den * v) <= 2 * My + nd
      /\ 2 * My <= 2 * (den * v) + nd
  <2>1. /\ n * (2 * (den * p)) <= n * (2 * (M * num) + den)
        /\ n * (2 * (M * num)) <= n * (2 * (den * p) + den)
    <3>1. den * p \in Int /\ M * num \in Int
      BY <1>1, <1>2
    <3> HIDE DEF My, nd
    <3> DEFINE s == 2 * (den * p)
               t == 2 * (M * num)
    <3>2. s \in Int /\ t \in Int /\ s + den \in Int /\ t + den \in Int
      BY <1>1, <3>1
    <3>3. s <= t + den /\ t <= s + den
      BY <1>2
    <3> HIDE DEF s, t
    <3>4. n * s <= n * (t + den) /\ n * t <= n * (s + den)
      BY <1>1, <3>2, <3>3, TimesOrder
    <3> QED BY <3>4 DEF s, t
  <2>2. /\ n * (2 * (den * p)) = 2 * (den * v)
        /\ n * (2 * (M * num)) = 2 * My
        /\ n * (2 * (M * num) + den) = 2 * My + nd
        /\ n * (2 * (den * p) + den) = 2 * (den * v) + nd
    BY <1>1, <1>2 DEF v
  <2> QED BY <2>1, <2>2
<1>7. nd \in Nat /\ My \in Nat /\ den * v \in Nat /\ den * x \in Nat
  BY <1>1, <1>4, <1>5
<1>8. den * x <= den * v + nd /\ den * v <= den * x + nd
  <2>1. den * x <= den * (v + n) /\ den * v <= den * (x + n)
    <3>1. v + n \in Int /\ x + n \in Int
      BY <1>1, <1>4, <1>5
    <3> QED BY <1>1, <1>4, <1>5, <3>1, TimesOrder
  <2>2. den * (v + n) = den * v + nd /\ den * (x + n) = den * x + nd
    BY <1>1, <1>4, <1>5
  <2> QED BY <2>1, <2>2
<1>9. den * x <= My + 2 * nd /\ My <= den * x + 2 * nd
  <2> HIDE DEF nd, My
  <2> QED BY <1>6, <1>7, <1>8
<1>10. x <= M * n
  <2>1. My <= n * (M * (den - 1))
    <3>1. M * num <= M * (den - 1) /\ M * num \in Int /\ M * (den - 1) \in Int
      BY <1>1, TimesOrder
    <3>2. n * (M * num) <= n * (M * (den - 1))
      BY <1>1, <3>1, TimesOrder
    <3> QED BY <1>1, <3>2
  <2>2. n * (2 * den) <= n * M
    BY <1>1, TimesOrder
  <2>3. /\ n * (M * (den - 1)) = den * (M * n) - n * M
        /\ n * (2 * den) = 2 * nd
        /\ den * (M * n) \in Int /\ n * M \in Int
    BY <1>1
  <2>4. den * x <= den * (M * n)
    <3> HIDE DEF nd, My
    <3> QED BY <1>7, <1>9, <2>1, <2>2, <2>3
  <2>5. M * n \in Int
    BY <1>1
  <2> QED BY <1>1, <1>5, <2>4, <2>5, TimesOrder
<1> QED BY <1>5, <1>9, <1>10 DEF n, M, num, den, p, v, x, nd, My

\* Two weighted values and their sum, each rounded.
LEMMA SumIs ==
    ASSUME NEW a \in 0 .. coroutineCnt, NEW b \in 0 .. coroutineCnt,
           NEW j \in 0 .. Significand - 1
    PROVE  LET V == (Significand - j) * a + j * b
               W == Round(Round((Significand - j) * a) + Round(j * b))
           IN  W \in Nat /\ W <= V + 4 * coroutineCnt /\ V <= W + 4 * coroutineCnt
<1> DEFINE M == Significand
           C == coroutineCnt
           f == (M - j) * a
           g == j * b
           s == Round(f) + Round(g)
<1>1. M \in Nat \ {0} /\ C \in Nat \ {0} /\ C <= M /\ 2 * C <= M
  BY SizesAreSmall
<1> HIDE DEF M, C
<1>2. /\ M - j \in Nat /\ j \in Nat /\ a \in Nat /\ b \in Nat
      /\ a <= C /\ b <= C
  BY <1>1 DEF M, C
<1>3. /\ f \in Nat /\ g \in Nat /\ f <= (M - j) * C /\ g <= j * C
      /\ (M - j) * C + j * C = M * C
      /\ (M - j) * C \in Nat /\ j * C \in Nat
  <2>1. f <= (M - j) * C /\ g <= j * C
    BY <1>1, <1>2, TimesOrder
  <2>2. (M - j) * C + j * C = M * C
    BY <1>1, <1>2
  <2> QED BY <1>1, <1>2, <2>1, <2>2
<1> HIDE DEF f, g
<1>4. /\ Round(f) \in Nat /\ Round(f) <= f + C /\ f <= Round(f) + C
      /\ Round(g) \in Nat /\ Round(g) <= g + C /\ g <= Round(g) + C
  <2>1. f <= M * C /\ g <= M * C
    BY <1>1, <1>3
  <2> QED BY <1>1, <1>3, <2>1, RoundBy DEF M
<1>5. s \in Nat /\ s <= f + g + 2 * C /\ f + g <= s + 2 * C
  BY <1>1, <1>3, <1>4
<1>6. s <= M * (2 * C)
  <2>1. 2 * C <= M * C
    <3>1. C * 2 <= C * M
      BY <1>1, TimesOrder
    <3> QED BY <1>1, <3>1
  <2>2. M * (2 * C) = M * C + M * C /\ M * C \in Nat
    BY <1>1
  <2> QED BY <1>1, <1>3, <1>5, <2>1, <2>2
<1> HIDE DEF s
<1>7. Round(s) \in Nat /\ Round(s) <= s + 2 * C /\ s <= Round(s) + 2 * C
  <2>1. 2 * C \in Nat
    BY <1>1
  <2> QED BY <1>1, <1>5, <1>6, <2>1, RoundBy DEF M
<1>8. /\ Round(s) \in Nat /\ Round(s) <= f + g + 4 * C
      /\ f + g <= Round(s) + 4 * C
  BY <1>1, <1>3, <1>5, <1>7
<1> QED BY <1>8 DEF M, C, f, g, s

\* A rank z in units of 1 / m: the whole part is a place, and there is a weight
\* for the value behind it only where there is such a value.
LEMMA RankParts ==
    ASSUME NEW n \in Nat, NEW m \in Nat \ {0}, NEW z \in Nat, z <= m * n
    PROVE  /\ z \div m \in 0 .. n /\ z % m \in 0 .. m - 1
           /\ z = m * (z \div m) + (z % m)
           /\ z \div m = n => z % m = 0
<1> DEFINE i == z \div m
           j == z % m
<1>1. i \in Nat /\ j \in Nat /\ z = m * i + j /\ j < m
  BY DivMod
<1> HIDE DEF i, j
<1>2. i <= n
  <2>1. m * i <= m * n
    <3>1. m * i \in Int /\ m * n \in Int
      BY <1>1
    <3> QED BY <1>1, <3>1
  <2> QED BY <1>1, <2>1, TimesOrder
<1>3. i = n => j = 0
  <2>1. m * n \in Int
    OBVIOUS
  <2> QED BY <1>1, <2>1
<1> QED BY <1>1, <1>2, <1>3 DEF i, j

-----------------------------------------------------------------------------
(* Ranks.                                                                  *)

\* How many of n values are in A.
Count(f, n, A) == Cardinality({i \in 1 .. n : f[i] \in A})

\* Values in another order have as many of any kind.
LEMMA SameCount ==
    ASSUME NEW n \in Nat, NEW f \in [1 .. n -> Int], NEW g \in [1 .. n -> Int],
           NEW p \in Bijection(1 .. n, 1 .. n),
           \A i \in 1 .. n : g[i] = f[p[i]],
           NEW A
    PROVE  Count(g, n, A) = Count(f, n, A)
<1> DEFINE S == {i \in 1 .. n : g[i] \in A}
           T == {i \in 1 .. n : f[i] \in A}
           q == [i \in S |-> p[i]]
<1>1. /\ p \in [1 .. n -> 1 .. n]
      /\ \A a, b \in 1 .. n : p[a] = p[b] => a = b
      /\ \A t \in 1 .. n : \E s \in 1 .. n : p[s] = t
  BY OrderIs
<1>2. q \in [S -> T]
  BY <1>1
<1>3. \A a, b \in S : q[a] = q[b] => a = b
  BY <1>1
<1>4. \A t \in T : \E s \in S : q[s] = t
  <2> SUFFICES ASSUME NEW t \in 1 .. n, f[t] \in A PROVE \E s \in S : q[s] = t
    OBVIOUS
  <2>1. PICK s \in 1 .. n : p[s] = t
    BY <1>1
  <2>2. s \in S /\ q[s] = t
    BY <2>1
  <2> QED BY <2>2
<1>5. IsFiniteSet(S)
  BY FS_Interval, FS_Subset
<1> HIDE DEF S, T, q
<1>6. q \in Bijection(S, T)
  BY <1>2, <1>3, <1>4, Fun_IsBij
<1>7. ExistsBijection(S, T)
  BY <1>6, Fun_ExistsBij
<1>8. Cardinality(T) = Cardinality(S)
  BY <1>5, <1>7, FS_Bijection
<1> QED BY <1>8 DEF S, T, Count

\* How many of n values are below v, and how many are not above it.
Below(f, n, v) == Cardinality({i \in 1 .. n : f[i] < v})

UpTo(f, n, v) == Cardinality({i \in 1 .. n : f[i] <= v})

\* So many values, and no more, are below v: it has rank r, counted from 0.
HasRank(f, n, v, r) == Below(f, n, v) <= r /\ r < UpTo(f, n, v)

\* v is, counted from 0, the value in place r.
IsAt(t, r, v) == v = t[r + 1]

\* As many of one as of the other, whatever value they are counted by.
SameCounts(f, g, n) ==
    \A v \in Int : Below(f, n, v) = Below(g, n, v) /\ UpTo(f, n, v) = UpTo(g, n, v)

\* A part of the first n numbers that lies within the first r, or contains
\* them, has at most, or at least, r elements.
LEMMA FirstFew ==
    ASSUME NEW n \in Nat, NEW r \in 0 .. n, NEW S \in SUBSET (1 .. n)
    PROVE  /\ IsFiniteSet(S) /\ Cardinality(S) \in Nat
           /\ S \subseteq 1 .. r => Cardinality(S) <= r
           /\ 1 .. r \subseteq S => r <= Cardinality(S)
<1>1. /\ IsFiniteSet(1 .. n) /\ IsFiniteSet(1 .. r) /\ Cardinality(1 .. r) = r
  BY FS_Interval
<1>2. IsFiniteSet(S) /\ Cardinality(S) \in Nat
  BY <1>1, FS_Subset, FS_CardinalityType
<1>3. S \subseteq 1 .. r => Cardinality(S) <= r
  BY <1>1, FS_Subset
<1>4. 1 .. r \subseteq S => r <= Cardinality(S)
  BY <1>1, <1>2, FS_Subset
<1> QED BY <1>2, <1>3, <1>4

\* Of values in ascending order the one of rank r, counted from 0, is the only
\* one that at most r values are below and more than r are not above.
LEMMA RankCount ==
    ASSUME NEW n \in Nat, NEW t \in [1 .. n -> Int], Ascending(t, n),
           NEW r \in 0 .. n - 1, NEW v \in Int
    PROVE  HasRank(t, n, v, r) <=> IsAt(t, r, v)
<1> DEFINE S == {i \in 1 .. n : t[i] < v}
           U == {i \in 1 .. n : t[i] <= v}
<1>0. /\ S \in SUBSET (1 .. n) /\ U \in SUBSET (1 .. n)
      /\ r \in Nat /\ r + 1 \in 1 .. n /\ r \in 0 .. n /\ r + 1 \in 0 .. n
      /\ t[r + 1] \in Int
  OBVIOUS
<1>1. ASSUME NEW i \in 1 .. n
      PROVE  /\ t[i] \in Int
             /\ i <= r + 1 => t[i] <= t[r + 1]
             /\ i >= r + 1 => t[r + 1] <= t[i]
  <2>1. t[i] \in Int
    OBVIOUS
  <2>2. CASE i < r + 1
    <3>1. t[i] <= t[r + 1]
      BY <1>0, <2>2 DEF Ascending
    <3> QED BY <2>1, <2>2, <3>1
  <2>3. CASE i = r + 1
    BY <2>1, <2>3
  <2>4. CASE i > r + 1
    <3>1. t[r + 1] <= t[i]
      BY <1>0, <2>4 DEF Ascending
    <3> QED BY <2>1, <2>4, <3>1
  <2> QED BY <2>2, <2>3, <2>4
<1>2. v <= t[r + 1] => S \subseteq 1 .. r
  BY <1>0, <1>1
<1>3. t[r + 1] <= v => 1 .. r + 1 \subseteq U
  BY <1>0, <1>1
<1>4. v < t[r + 1] => U \subseteq 1 .. r
  BY <1>0, <1>1
<1>5. t[r + 1] < v => 1 .. r + 1 \subseteq S
  BY <1>0, <1>1
<1> HIDE DEF S, U
<1>6. Cardinality(S) \in Nat /\ Cardinality(U) \in Nat
  BY <1>0, FirstFew
<1>7. v <= t[r + 1] => Cardinality(S) <= r
  BY <1>0, <1>2, FirstFew
<1>8. t[r + 1] <= v => r + 1 <= Cardinality(U)
  BY <1>0, <1>3, FirstFew
<1>9. v < t[r + 1] => Cardinality(U) <= r
  BY <1>0, <1>4, FirstFew
<1>10. t[r + 1] < v => r + 1 <= Cardinality(S)
  BY <1>0, <1>5, FirstFew
<1>11. (Cardinality(S) <= r /\ r < Cardinality(U)) <=> v = t[r + 1]
  BY <1>0, <1>6, <1>7, <1>8, <1>9, <1>10
<1> QED BY <1>11 DEF S, U, Below, UpTo, HasRank, IsAt

\* So it is known by the counts alone, in values of any order.
LEMMA RankKnown ==
    ASSUME NEW n \in Nat, NEW t \in [1 .. n -> Int], Ascending(t, n),
           NEW f, SameCounts(f, t, n),
           NEW r \in 0 .. n - 1, NEW v \in Int
    PROVE  HasRank(f, n, v, r) <=> IsAt(t, r, v)
<1>1. HasRank(t, n, v, r) <=> IsAt(t, r, v)
  BY RankCount
<1>2. HasRank(f, n, v, r) <=> HasRank(t, n, v, r)
  BY DEF SameCounts, HasRank
<1> QED BY <1>1, <1>2

\* OfRank finds the value that sorting puts at that rank.
LEMMA RankOf ==
    ASSUME NEW values \in Seq(Int), NEW n \in Nat, Len(values) = n,
           NEW t \in [1 .. n -> Int], Ascending(t, n),
           SameCounts(values, t, n),
           NEW r \in 0 .. n - 1, NEW place \in 1 .. n, IsAt(t, r, values[place])
    PROVE  IsAt(t, r, OfRank(values, r))
<1>1. DOMAIN values = 1 .. n
  OBVIOUS
<1> DEFINE c == CHOOSE m \in 1 .. n : HasRank(values, n, values[m], r)
<1>2. \A m \in 1 .. n : HasRank(values, n, values[m], r) <=> IsAt(t, r, values[m])
  <2> SUFFICES ASSUME NEW m \in 1 .. n
               PROVE  HasRank(values, n, values[m], r) <=> IsAt(t, r, values[m])
    OBVIOUS
  <2>1. values[m] \in Int
    OBVIOUS
  <2> QED BY <2>1, RankKnown, Zenon
<1>3. c \in 1 .. n /\ HasRank(values, n, values[c], r)
  BY <1>2
<1>4. OfRank(values, r) = values[c]
  BY <1>1, Zenon DEF OfRank, HasRank, Below, UpTo
<1> HIDE DEF c
<1> QED BY <1>2, <1>3, <1>4

-----------------------------------------------------------------------------
(* The ring and the window.                                                *)

\* Where the ring keeps the i-th of the last values.
Slot(ring, i) ==
    IF ring.index + i <= max_stat_data_len_
    THEN ring.index + i ELSE ring.index + i - max_stat_data_len_

\* The ring has the values of w, the oldest at its index.
RingHolds(ring, w) ==
    /\ ring \in [data : Seq(Int), index : 0 .. max_stat_data_len_ - 1]
    /\ w \in Seq(Int) /\ Len(w) = Len(ring.data)
    /\ Len(w) <= max_stat_data_len_
    /\ ~Full(ring) => ring.index = 0
    /\ \A i \in 1 .. Len(w) : w[i] = ring.data[Slot(ring, i)]

\* The window without its oldest value and with a new one.
LEMMA PushOut ==
    ASSUME NEW n \in Nat \ {0}, NEW w \in Seq(Int), Len(w) = n, NEW v \in Int
    PROVE  /\ Tail(Append(w, v)) \in Seq(Int) /\ Len(Tail(Append(w, v))) = n
           /\ \A i \in 1 .. n - 1 : Tail(Append(w, v))[i] = w[i + 1]
           /\ Tail(Append(w, v))[n] = v
<1> DEFINE a == Append(w, v)
<1>1. /\ a \in Seq(Int) /\ Len(a) = n + 1 /\ a[n + 1] = v
      /\ \A i \in 1 .. n : a[i] = w[i]
  OBVIOUS
<1> HIDE DEF a
<1>2. /\ Tail(a) \in Seq(Int) /\ Len(Tail(a)) = n
      /\ \A i \in 1 .. n : Tail(a)[i] = a[i + 1]
  BY <1>1
<1> DEFINE z == Tail(a)
<1> HIDE DEF z
<1>3. /\ z \in Seq(Int) /\ Len(z) = n
      /\ \A i \in 1 .. n : z[i] = a[i + 1]
  BY <1>2 DEF z
<1>4. \A i \in 1 .. n - 1 : z[i] = w[i + 1]
  BY <1>1, <1>3
<1>5. z[n] = v
  BY <1>1, <1>3
<1> QED BY <1>3, <1>4, <1>5 DEF z, a

\* A value overwritten in a sequence.
LEMMA Overwritten ==
    ASSUME NEW s \in Seq(Int), NEW j \in 1 .. Len(s), NEW v \in Int
    PROVE  /\ [s EXCEPT ![j] = v] \in Seq(Int)
           /\ Len([s EXCEPT ![j] = v]) = Len(s)
           /\ [s EXCEPT ![j] = v][j] = v
           /\ \A i \in 1 .. Len(s) : i # j => [s EXCEPT ![j] = v][i] = s[i]
  OBVIOUS

\* The index goes around.
LEMMA NextIs ==
    ASSUME NEW n \in Nat \ {0}, NEW k \in 0 .. n - 1
    PROVE  (k + 1) % n = IF k + 1 < n THEN k + 1 ELSE 0
<1>1. CASE k + 1 < n
  BY <1>1
<1>2. CASE k + 1 = n
  BY <1>2
<1> QED BY <1>1, <1>2

\* Once the index has moved, every value but the oldest is one place nearer to
\* the beginning, and the place of the oldest is the last one.
LEMMA SlotMoves ==
    ASSUME NEW ring, NEW next, ring.index \in 0 .. max_stat_data_len_ - 1,
           next.index = (ring.index + 1) % max_stat_data_len_
    PROVE  /\ Slot(next, max_stat_data_len_) = ring.index + 1
           /\ \A i \in 1 .. max_stat_data_len_ - 1 :
                 /\ Slot(next, i) = Slot(ring, i + 1)
                 /\ Slot(ring, i + 1) \in 1 .. max_stat_data_len_
                 /\ Slot(ring, i + 1) # ring.index + 1
<1> DEFINE n == max_stat_data_len_
           k == ring.index
           j == next.index
<1>1. n \in Nat \ {0} /\ k \in 0 .. n - 1
  BY PercentileAssumption
<1>2. j = IF k + 1 < n THEN k + 1 ELSE 0
  BY <1>1, NextIs
<1>3. \A i : /\ Slot(next, i) = IF j + i <= n THEN j + i ELSE j + i - n
             /\ Slot(ring, i) = IF k + i <= n THEN k + i ELSE k + i - n
  BY DEF Slot
<1> HIDE DEF n, k, j
<1>4. Slot(next, n) = k + 1
  BY <1>1, <1>2, <1>3
<1>5. ASSUME NEW i \in 1 .. n - 1
      PROVE  /\ Slot(next, i) = Slot(ring, i + 1)
             /\ Slot(ring, i + 1) \in 1 .. n
             /\ Slot(ring, i + 1) # k + 1
  <2>1. CASE k + (i + 1) <= n
    <3>1. Slot(ring, i + 1) = k + (i + 1) /\ j = k + 1 /\ Slot(next, i) = j + i
      BY <1>1, <1>2, <1>3, <2>1
    <3> QED BY <1>1, <2>1, <3>1
  <2>2. CASE k + (i + 1) > n
    <3>1. Slot(ring, i + 1) = k + (i + 1) - n
      BY <1>1, <1>3, <2>2
    <3>2. Slot(next, i) = k + (i + 1) - n
      BY <1>1, <1>2, <1>3, <2>2
    <3> QED BY <1>1, <2>2, <3>1, <3>2
  <2> QED BY <1>1, <2>1, <2>2
<1> QED BY <1>4, <1>5 DEF n, k

\* Stat puts a new value in the place of the oldest.
LEMMA StatKeeps ==
    ASSUME NEW ring, NEW w, RingHolds(ring, w), NEW v \in Int
    PROVE  RingHolds(Stat(ring, v), Latest(Append(w, v)))
<1> DEFINE max == max_stat_data_len_
           next == Stat(ring, v)
           last == Latest(Append(w, v))
<1>1. /\ max \in Nat \ {0}
      /\ ring.data \in Seq(Int) /\ ring.index \in 0 .. max - 1
      /\ ring = [data |-> ring.data, index |-> ring.index]
      /\ w \in Seq(Int) /\ Len(w) = Len(ring.data) /\ Len(w) <= max
  BY PercentileAssumption DEF RingHolds
<1>2. CASE ~Full(ring)
  <2>1. next = [data |-> Append(ring.data, v), index |-> ring.index]
    BY <1>1, <1>2 DEF Stat
  <2>2. Len(w) < max /\ ring.index = 0
    BY <1>1, <1>2 DEF RingHolds, Full
  <2>3. last = Append(w, v)
    BY <1>1, <2>2 DEF Latest
  <2>4. ASSUME NEW i \in 1 .. Len(w) + 1
        PROVE  Append(w, v)[i] = Append(ring.data, v)[i]
    <3>1. CASE i = Len(w) + 1
      BY <1>1, <3>1
    <3>2. CASE i # Len(w) + 1
      <4>1. i \in 1 .. Len(w) /\ Slot(ring, i) = i
        BY <1>1, <2>2, <3>2 DEF Slot
      <4>2. w[i] = ring.data[i]
        BY <4>1 DEF RingHolds
      <4> QED BY <1>1, <4>1, <4>2
    <3> QED BY <3>1, <3>2
  <2>5. \A i \in 1 .. Len(w) + 1 : Slot(next, i) = i
    BY <1>1, <2>1, <2>2 DEF Slot
  <2>6. /\ next \in [data : Seq(Int), index : 0 .. max - 1]
        /\ last \in Seq(Int) /\ Len(last) = Len(w) + 1
        /\ Len(next.data) = Len(w) + 1 /\ next.index = 0
        /\ next.data = Append(ring.data, v)
    BY <1>1, <2>1, <2>2, <2>3
  <2> HIDE DEF next, last
  <2>7. \A i \in 1 .. Len(last) : last[i] = next.data[Slot(next, i)]
    BY <2>3, <2>4, <2>5, <2>6
  <2>8. Len(last) <= max
    BY <1>1, <2>2, <2>6
  <2>9. RingHolds(next, last)
    BY <2>6, <2>7, <2>8 DEF RingHolds
  <2> QED BY <2>9 DEF next, last
<1>3. CASE Full(ring)
  <2> DEFINE k == ring.index
  <2>1. /\ next = [data |-> [ring.data EXCEPT ![k + 1] = v],
                   index |-> (k + 1) % max]
        /\ Len(w) = max /\ k \in 0 .. max - 1
    BY <1>1, <1>3 DEF Stat, NextIndex, Full
  <2>2. (k + 1) % max = IF k + 1 < max THEN k + 1 ELSE 0
    BY <1>1, <2>1, NextIs
  <2>3. last = Tail(Append(w, v))
    BY <1>1, <2>1 DEF Latest
  <2>4. /\ last \in Seq(Int) /\ Len(last) = max
        /\ \A i \in 1 .. max - 1 : last[i] = w[i + 1]
        /\ last[max] = v
    <3>1. /\ max \in Nat \ {0} /\ w \in Seq(Int) /\ Len(w) = max
      BY <1>1, <2>1
    <3> HIDE DEF last, next, max
    <3>2. /\ Tail(Append(w, v)) \in Seq(Int) /\ Len(Tail(Append(w, v))) = max
          /\ \A i \in 1 .. max - 1 : Tail(Append(w, v))[i] = w[i + 1]
          /\ Tail(Append(w, v))[max] = v
      BY <3>1, PushOut
    <3> QED BY <2>3, <3>2, Zenon
  <2>5. /\ next.data \in Seq(Int) /\ Len(next.data) = max
        /\ next.data[k + 1] = v
        /\ \A i \in 1 .. max : i # k + 1 => next.data[i] = ring.data[i]
        /\ next.index = (k + 1) % max
    <3>1. /\ next.data = [ring.data EXCEPT ![k + 1] = v]
          /\ next.index = (k + 1) % max
      BY <2>1
    <3>2. Len(ring.data) = max /\ k + 1 \in 1 .. max
      BY <1>1, <2>1
    <3> HIDE DEF next
    <3> QED BY <1>1, <3>1, <3>2, Overwritten
  <2>6. next \in [data : Seq(Int), index : 0 .. max - 1]
    BY <1>1, <2>1, <2>2, <2>5
  <2>7. \A i \in 1 .. max : w[i] = ring.data[Slot(ring, i)]
    BY <2>1 DEF RingHolds
  <2>8. ASSUME NEW i \in 1 .. max PROVE last[i] = next.data[Slot(next, i)]
    <3> HIDE DEF next, last
    <3>1. CASE i = max
      <4>1. Slot(next, i) = k + 1
        BY <1>1, <2>5, <3>1, SlotMoves
      <4> QED BY <2>4, <2>5, <3>1, <4>1
    <3>2. CASE i # max
      <4>1. i + 1 \in 1 .. max /\ i \in 1 .. max - 1
        BY <1>1, <3>2
      <4>2. /\ Slot(next, i) = Slot(ring, i + 1)
            /\ Slot(ring, i + 1) \in 1 .. max /\ Slot(ring, i + 1) # k + 1
        BY <1>1, <2>5, <4>1, SlotMoves
      <4>3. next.data[Slot(next, i)] = ring.data[Slot(ring, i + 1)]
        BY <2>5, <4>2
      <4> QED BY <2>4, <2>7, <4>1, <4>3
    <3> QED BY <3>1, <3>2
  <2> HIDE DEF next, last
  <2>9. Full(next)
    BY <2>5 DEF Full
  <2>10. /\ Len(last) = Len(next.data) /\ Len(last) <= max_stat_data_len_
         /\ \A i \in 1 .. Len(last) : last[i] = next.data[Slot(next, i)]
    BY <1>1, <2>4, <2>5, <2>8
  <2>11. RingHolds(next, last)
    BY <2>4, <2>6, <2>9, <2>10 DEF RingHolds
  <2> QED BY <2>11 DEF next, last
<1> QED BY <1>2, <1>3

\* The slots of a full ring are a permutation of its places.
LEMMA SlotsAreOrder ==
    ASSUME NEW ring, ring.index \in 0 .. max_stat_data_len_ - 1
    PROVE  [i \in 1 .. max_stat_data_len_ |-> Slot(ring, i)]
              \in Bijection(1 .. max_stat_data_len_, 1 .. max_stat_data_len_)
<1> DEFINE max == max_stat_data_len_
           s == [i \in 1 .. max |-> Slot(ring, i)]
<1>0. max \in Nat \ {0}
  BY PercentileAssumption
<1>1. s \in [1 .. max -> 1 .. max]
  BY <1>0 DEF Slot
<1>2. \A a, b \in 1 .. max : s[a] = s[b] => a = b
  BY <1>0 DEF Slot
<1>3. ASSUME NEW t \in 1 .. max PROVE \E i \in 1 .. max : s[i] = t
  <2>1. CASE t > ring.index
    <3>1. t - ring.index \in 1 .. max /\ Slot(ring, t - ring.index) = t
      BY <1>0, <2>1 DEF Slot
    <3> QED BY <3>1
  <2>2. CASE t <= ring.index
    <3> DEFINE i == t - ring.index + max
    <3>1. i \in 1 .. max /\ Slot(ring, i) = t
      BY <1>0, <2>2 DEF Slot
    <3> QED BY <3>1
  <2> QED BY <1>0, <2>1, <2>2
<1> HIDE DEF s
<1>4. s \in Bijection(1 .. max, 1 .. max)
  BY <1>1, <1>2, <1>3, Fun_IsBij
<1> QED BY <1>4 DEF s


\* Of a full ring, the values have the same counts as those of the window and
\* as their sorted copy.
LEMMA CountsAgree ==
    ASSUME NEW ring, NEW w, RingHolds(ring, w), Full(ring)
    PROVE  LET n == max_stat_data_len_
               t == Sorted(ring.data)
           IN  /\ n \in Nat \ {0} /\ w \in Seq(Int) /\ Len(w) = n
               /\ t \in Seq(Int) /\ t \in [1 .. n -> Int] /\ Len(t) = n
               /\ Ascending(t, n)
               /\ SameCounts(w, t, n)
               /\ \A r \in 0 .. n - 1 : \E m \in 1 .. n : w[m] = t[r + 1]
<1> DEFINE n == max_stat_data_len_
           t == Sorted(ring.data)
           f == ring.data
           s == [i \in 1 .. n |-> Slot(ring, i)]
<1>1. /\ n \in Nat \ {0} /\ w \in Seq(Int) /\ Len(w) = n
      /\ f \in Seq(Int) /\ Len(f) = n
      /\ ring.index \in 0 .. n - 1
      /\ \A i \in 1 .. n : w[i] = f[Slot(ring, i)]
  BY PercentileAssumption DEF RingHolds, Full
<1>2. s \in Bijection(1 .. n, 1 .. n) /\ \A i \in 1 .. n : s[i] = Slot(ring, i)
  <2>1. s \in Bijection(1 .. n, 1 .. n)
    BY <1>1, SlotsAreOrder
  <2> QED BY <2>1
<1>3. PICK p \in Bijection(1 .. n, 1 .. n) :
         t = [i \in 1 .. n |-> f[p[i]]] /\ Ascending(t, n)
  BY <1>1, SortedIs
<1> HIDE DEF n, t, f, s
<1>4. w \in [1 .. n -> Int] /\ f \in [1 .. n -> Int]
  BY <1>1
<1>5. /\ \A i \in 1 .. n : p[i] \in 1 .. n
      /\ \A i \in 1 .. n : s[i] \in 1 .. n
      /\ \A j \in 1 .. n : \E i \in 1 .. n : s[i] = j
  <2>1. p \in Bijection(1 .. n, 1 .. n) /\ s \in Bijection(1 .. n, 1 .. n)
    BY <1>2, <1>3
  <2>2. p \in [1 .. n -> 1 .. n]
    BY <2>1, OrderIs
  <2>3. /\ s \in [1 .. n -> 1 .. n]
        /\ \A j \in 1 .. n : \E i \in 1 .. n : s[i] = j
    BY <2>1, OrderIs
  <2> QED BY <2>2, <2>3
<1>6. t \in [1 .. n -> Int] /\ \A i \in 1 .. n : t[i] = f[p[i]]
  <2>1. \A i \in 1 .. n : f[p[i]] \in Int
    BY <1>4, <1>5
  <2>2. t = [i \in 1 .. n |-> f[p[i]]]
    BY <1>3
  <2> HIDE DEF f
  <2> QED BY <2>1, <2>2
<1>7. t \in Seq(Int) /\ Len(t) = n
  <2>1. t = [i \in 1 .. n |-> t[i]] /\ \A i \in 1 .. n : t[i] \in Int
    BY <1>6
  <2>2. n \in Nat
    BY <1>1
  <2> DEFINE u == [i \in 1 .. n |-> t[i]]
  <2>3. u \in Seq(Int) /\ Len(u) = n
    BY <2>1, <2>2
  <2> QED BY <2>1, <2>3
<1>8. \A i \in 1 .. n : w[i] = f[s[i]]
  BY <1>1, <1>2
<1>9. ASSUME NEW A PROVE Count(w, n, A) = Count(t, n, A)
  <2>1. n \in Nat /\ s \in Bijection(1 .. n, 1 .. n) /\ p \in Bijection(1 .. n, 1 .. n)
    BY <1>1, <1>2, <1>3
  <2>2. Count(w, n, A) = Count(f, n, A)
    BY <1>4, <1>8, <2>1, SameCount
  <2>3. Count(t, n, A) = Count(f, n, A)
    BY <1>4, <1>6, <2>1, SameCount
  <2> QED BY <2>2, <2>3
<1>10. SameCounts(w, t, n)
  <2> SUFFICES ASSUME NEW v \in Int
               PROVE  /\ Below(w, n, v) = Below(t, n, v)
                      /\ UpTo(w, n, v) = UpTo(t, n, v)
    BY DEF SameCounts
  <2> DEFINE less == {x \in Int : x < v}
             upTo == {x \in Int : x <= v}
  <2>1. /\ {i \in 1 .. n : w[i] \in less} = {i \in 1 .. n : w[i] < v}
        /\ {i \in 1 .. n : t[i] \in less} = {i \in 1 .. n : t[i] < v}
        /\ {i \in 1 .. n : w[i] \in upTo} = {i \in 1 .. n : w[i] <= v}
        /\ {i \in 1 .. n : t[i] \in upTo} = {i \in 1 .. n : t[i] <= v}
    BY <1>4, <1>6
  <2> HIDE DEF less, upTo
  <2>2. /\ Count(w, n, less) = Below(w, n, v) /\ Count(t, n, less) = Below(t, n, v)
        /\ Count(w, n, upTo) = UpTo(w, n, v) /\ Count(t, n, upTo) = UpTo(t, n, v)
    BY <2>1, Zenon DEF Below, UpTo, Count
  <2>3. Count(w, n, less) = Count(t, n, less) /\ Count(w, n, upTo) = Count(t, n, upTo)
    BY <1>9
  <2> QED BY <2>2, <2>3
<1>11. ASSUME NEW r \in 0 .. n - 1 PROVE \E m \in 1 .. n : w[m] = t[r + 1]
  <2>1. r + 1 \in 1 .. n
    BY <1>1
  <2>2. p[r + 1] \in 1 .. n /\ t[r + 1] = f[p[r + 1]]
    BY <1>5, <1>6, <2>1
  <2>3. PICK m \in 1 .. n : s[m] = p[r + 1]
    BY <1>5, <2>2
  <2> QED BY <1>8, <2>2, <2>3
<1>12. Ascending(t, n)
  BY <1>3
<1> QED BY <1>1, <1>6, <1>7, <1>10, <1>11, <1>12 DEF n, t

\* The values are numbers of live coroutines.
Bounded(w) == \A i \in 1 .. Len(w) : w[i] \in 0 .. coroutineCnt

\* What stands at a rank of the sorted values, and the rise to the next rank.
LEMMA RankValues ==
    ASSUME NEW ring, NEW w, RingHolds(ring, w), Full(ring), Bounded(w)
    PROVE  LET n == max_stat_data_len_ - 1
               t == Sorted(ring.data)
           IN  /\ Len(w) = n + 1 /\ Len(t) = n + 1
               /\ \A r \in 0 .. n : /\ OfRank(w, r) = At(t, r)
                                    /\ At(t, r) \in 0 .. coroutineCnt
                                    /\ r < n => At(t, r) <= At(t, r + 1)
               /\ \A r \in 0 .. n : At(t, r + 1) \in 0 .. coroutineCnt
<1> DEFINE m == max_stat_data_len_
           n == m - 1
           t == Sorted(ring.data)
<1>1. /\ m \in Nat \ {0} /\ w \in Seq(Int) /\ Len(w) = m
      /\ t \in Seq(Int) /\ t \in [1 .. m -> Int] /\ Len(t) = m
      /\ Ascending(t, m)
      /\ SameCounts(w, t, m)
      /\ \A r \in 0 .. m - 1 : \E q \in 1 .. m : w[q] = t[r + 1]
  BY CountsAgree
<1>2. coroutineCnt \in Nat
  BY CoroutineAssumption
<1> HIDE DEF m, t
<1>3. ASSUME NEW r \in 0 .. n
      PROVE  OfRank(w, r) = At(t, r) /\ At(t, r) \in 0 .. coroutineCnt /\ At(t, r) = t[r + 1]
  <2>0. r \in 0 .. m - 1
    OBVIOUS
  <2>1. PICK q \in 1 .. m : w[q] = t[r + 1]
    BY <1>1, <2>0
  <2>2. IsAt(t, r, OfRank(w, r))
    <3>1. IsAt(t, r, w[q])
      BY <2>1 DEF IsAt
    <3>2. m \in Nat
      BY <1>1
    <3> QED BY <1>1, <2>0, <3>1, <3>2, RankOf, Zenon
  <2>3. r + 1 \in 1 .. m /\ r < Len(t)
    BY <1>1, <2>0
  <2>4. At(t, r) = t[r + 1]
    BY <2>3 DEF At
  <2>5. w[q] \in 0 .. coroutineCnt
    BY <1>1 DEF Bounded
  <2>6. OfRank(w, r) = t[r + 1]
    BY <2>2 DEF IsAt
  <2> QED BY <2>1, <2>4, <2>5, <2>6
<1>4. ASSUME NEW r \in 0 .. n, r < n PROVE At(t, r) <= At(t, r + 1)
  <2>1. r + 1 \in 0 .. n /\ r + 1 \in 1 .. m /\ r + 1 + 1 \in 1 .. m /\ r + 1 < r + 1 + 1
    BY <1>1, <1>4
  <2>2. At(t, r) = t[r + 1] /\ At(t, r + 1) = t[r + 1 + 1]
    BY <1>3, <2>1
  <2>3. t[r + 1] <= t[r + 1 + 1]
    BY <1>1, <2>1 DEF Ascending
  <2> QED BY <2>2, <2>3
<1>5. ASSUME NEW r \in 0 .. n PROVE At(t, r + 1) \in 0 .. coroutineCnt
  <2>1. CASE r < n
    BY <1>1, <1>3, <2>1
  <2>2. CASE r = n
    <3>1. At(t, r + 1) = 0
      BY <1>1, <2>2 DEF At
    <3> QED BY <1>2, <3>1
  <2> QED BY <1>1, <2>1, <2>2
<1>6. Len(w) = n + 1 /\ Len(t) = n + 1
  BY <1>1
<1> QED BY <1>3, <1>4, <1>5, <1>6 DEF m, t

\* The percentile that the ring answers, cut off, is that of the window.
LEMMA PercentileIs ==
    ASSUME NEW ring, NEW w, RingHolds(ring, w), Full(ring), Bounded(w)
    PROVE  /\ Len(w) = max_stat_data_len_
           /\ P99(ring) \in CutOff(w)
           /\ P99(ring) \in Nat
<1> DEFINE n == max_stat_data_len_ - 1
           M == Significand
           C == coroutineCnt
           den == PctDen
           t == Sorted(ring.data)
           x == Round(n * Literal(PctNum, den))
           i == x \div M
           j == x % M
           y == n * PctNum
           k == y \div den
           l == y % den
           F == 2 * (n * den)
           rise(r) == IF r < n THEN At(t, r + 1) - At(t, r) ELSE 0
           a == At(t, i)
           a1 == At(t, i + 1)
           b == At(t, k)
           b1 == At(t, k + 1)
           d == rise(i)
           e == rise(k)
           W == Round(Round((M - j) * a) + Round(j * a1))
           V == M * a + j * d
           A == den * b + l * e
<1>1. /\ n \in Nat /\ M \in Nat \ {0} /\ C \in Nat \ {0} /\ den \in Nat \ {0}
      /\ PctNum \in Nat /\ PctNum < den /\ 2 * n < M
      /\ F * C + 4 * (den * C) < M
  BY SizesAreSmall
<1>2. /\ Len(w) = n + 1 /\ Len(t) = n + 1
      /\ \A r \in 0 .. n : /\ OfRank(w, r) = At(t, r)
                           /\ At(t, r) \in 0 .. C
                           /\ r < n => At(t, r) <= At(t, r + 1)
                           /\ At(t, r + 1) \in 0 .. C
  <2>1. /\ Len(w) = n + 1 /\ Len(t) = n + 1
        /\ \A r \in 0 .. n : /\ OfRank(w, r) = At(t, r)
                             /\ At(t, r) \in 0 .. C
                             /\ r < n => At(t, r) <= At(t, r + 1)
        /\ \A r \in 0 .. n : At(t, r + 1) \in 0 .. C
    BY RankValues
  <2> HIDE DEF n, t, C
  <2> QED BY <2>1
<1>3. GetPercentile(ring, PctNum, den) = W
  <2>1. Len(t) - 1 = n
    BY <1>1, <1>2
  <2> HIDE DEF n
  <2> QED BY <2>1, Zenon DEF GetPercentile
<1>4. PercentileOf(w, PctNum, den) =
         (den - l) * OfRank(w, k)
         + l * (IF l = 0 THEN OfRank(w, k) ELSE OfRank(w, k + 1))
  <2>1. Len(w) - 1 = n
    BY <1>1, <1>2
  <2> HIDE DEF n
  <2> QED BY <2>1, Zenon DEF PercentileOf
<1>5. /\ x \in Nat /\ x <= M * n
      /\ den * x <= M * y + F /\ M * y <= den * x + F
  BY RankIs
<1>6. y \in Nat /\ y <= den * n
  <2>1. n * PctNum <= n * den
    BY <1>1, TimesOrder
  <2> QED BY <1>1, <2>1
<1> HIDE DEF n, M, C, den, t, x, y
<1>7. i \in 0 .. n /\ j \in 0 .. M - 1 /\ x = M * i + j /\ (i = n => j = 0)
  BY <1>1, <1>5, RankParts
<1>8. k \in 0 .. n /\ l \in 0 .. den - 1 /\ y = den * k + l /\ (k = n => l = 0)
  BY <1>1, <1>6, RankParts
<1> HIDE DEF i, j, k, l
<1>9. \A r \in 0 .. n : rise(r) \in 0 .. C
  <2> SUFFICES ASSUME NEW r \in 0 .. n PROVE rise(r) \in 0 .. C
    OBVIOUS
  <2>1. /\ At(t, r) \in 0 .. C /\ At(t, r + 1) \in 0 .. C
        /\ r < n => At(t, r) <= At(t, r + 1)
    BY <1>1, <1>2
  <2> QED BY <1>1, <2>1
<1>10. /\ a \in 0 .. C /\ a1 \in 0 .. C /\ d \in 0 .. C
       /\ b \in 0 .. C /\ b1 \in 0 .. C /\ e \in 0 .. C
  BY <1>1, <1>2, <1>7, <1>8, <1>9
<1>11. /\ i < n => d = a1 - a
       /\ k < n => e = b1 - b
       /\ i = k => a = b /\ d = e
       /\ i + 1 = k => b = a + d
       /\ k + 1 = i => a = b + e
  <2>1. i < n => d = a1 - a
    OBVIOUS
  <2>2. k < n => e = b1 - b
    OBVIOUS
  <2>3. i + 1 = k => a1 = b /\ i < n
    BY <1>1, <1>7, <1>8
  <2>4. k + 1 = i => b1 = a /\ k < n
    BY <1>1, <1>7, <1>8
  <2>5. i = k => a = b /\ d = e
    OBVIOUS
  <2> HIDE DEF a, a1, b, b1, d, e
  <2> QED BY <1>1, <1>10, <2>1, <2>2, <2>3, <2>4, <2>5
<1>12. PercentileOf(w, PctNum, den) = A
  <2>1. OfRank(w, k) = b
    BY <1>1, <1>2, <1>8
  <2>2. CASE l = 0
    <3>1. PercentileOf(w, PctNum, den) = (den - 0) * b + 0 * b
      BY <1>4, <2>1, <2>2
    <3> HIDE DEF b, e
    <3> QED BY <1>1, <1>10, <2>2, <3>1
  <2>3. CASE l # 0
    <3>1. k + 1 \in 0 .. n /\ k < n
      BY <1>1, <1>8, <2>3
    <3>2. OfRank(w, k + 1) = b1
      BY <1>1, <1>2, <3>1
    <3>3. PercentileOf(w, PctNum, den) = (den - l) * b + l * b1
      BY <1>4, <2>1, <2>3, <3>2
    <3>4. e = b1 - b
      BY <1>11, <3>1
    <3> HIDE DEF b, b1, e
    <3>5. b1 = b + e
      BY <1>10, <3>4
    <3>6. (den - l) * b + l * (b + e) = den * b + l * e
      BY <1>1, <1>8, <1>10
    <3> QED BY <3>3, <3>5, <3>6
  <2> QED BY <2>2, <2>3
<1>13. (M - j) * a + j * a1 = V
  <2>1. CASE i = n
    <3>1. j = 0
      BY <1>7, <2>1
    <3> HIDE DEF a, a1, d
    <3> QED BY <1>1, <1>10, <3>1
  <2>2. CASE i < n
    <3>1. d = a1 - a
      BY <1>11, <2>2
    <3> HIDE DEF a, a1, d
    <3>2. a1 = a + d
      BY <1>10, <3>1
    <3>3. (M - j) * a + j * (a + d) = M * a + j * d
      BY <1>1, <1>7, <1>10
    <3> QED BY <3>2, <3>3
  <2> QED BY <1>1, <1>7, <2>1, <2>2
<1> HIDE DEF a, a1, b, b1, d, e, rise
<1>14. W \in Nat /\ W <= V + 4 * C /\ V <= W + 4 * C
  <2>1. j \in 0 .. Significand - 1 /\ a \in 0 .. coroutineCnt /\ a1 \in 0 .. coroutineCnt
    BY <1>7, <1>10 DEF M, C
  <2>2. /\ W \in Nat
        /\ W <= ((M - j) * a + j * a1) + 4 * C
        /\ (M - j) * a + j * a1 <= W + 4 * C
    BY <2>1, SumIs DEF M, C
  <2> QED BY <1>13, <2>2
<1> HIDE DEF W
<1>15. den * V <= M * A + F * C /\ M * A <= den * V + F * C
  <2>1. F \in Nat /\ F < M * den
    <3>1. den * (2 * n) < den * M
      <4>1. 2 * n \in Int /\ ~(den * M <= den * (2 * n))
        BY <1>1, TimesOrder
      <4>2. den * M \in Int /\ den * (2 * n) \in Int
        BY <1>1
      <4> QED BY <4>1, <4>2
    <3> QED BY <1>1, <3>1
  <2>2. /\ i \in Nat /\ j \in Nat /\ j < M /\ k \in Nat /\ l \in Nat /\ l < den
        /\ a \in Nat /\ b \in Nat
    BY <1>1, <1>7, <1>8, <1>10
  <2> HIDE DEF F
  <2> QED BY <1>1, <1>5, <1>7, <1>8, <1>10, <1>11, <2>1, <2>2, Close
<1>16. V \in Nat /\ A \in Nat
  BY <1>1, <1>7, <1>8, <1>10
<1> HIDE DEF V, A
<1>17. /\ den * W <= den * V + 4 * (den * C)
       /\ den * V <= den * W + 4 * (den * C)
  <2>1. V + 4 * C \in Int /\ W + 4 * C \in Int
    BY <1>1, <1>14, <1>16
  <2>2. den * W <= den * (V + 4 * C) /\ den * V <= den * (W + 4 * C)
    BY <1>1, <1>14, <1>16, <2>1, TimesOrder
  <2>3. /\ den * (V + 4 * C) = den * V + 4 * (den * C)
        /\ den * (W + 4 * C) = den * W + 4 * (den * C)
    BY <1>1, <1>14, <1>16
  <2> QED BY <2>2, <2>3
<1>18. den * W < M * A + M /\ M * A < den * W + M
  <2>1. /\ den * W \in Nat /\ den * V \in Nat /\ M * A \in Nat /\ den * C \in Nat
        /\ F * C \in Nat
    BY <1>1, <1>14, <1>16
  <2> HIDE DEF F
  <2> QED BY <1>1, <1>15, <1>17, <2>1
<1>19. W \div M \in {A \div den, (A - 1) \div den}
  BY <1>1, <1>14, <1>16, <1>18, CutIs
<1>20. P99(ring) = W \div M /\ CutOff(w) = {A \div den, (A - 1) \div den}
  BY <1>3, <1>12 DEF P99, CutOff, M, den
<1>21. W \div M \in Nat
  BY <1>1, <1>14, DivMod
<1>22. Len(w) = max_stat_data_len_
  BY <1>2, PercentileAssumption DEF n
<1> QED BY <1>19, <1>20, <1>21, <1>22

-----------------------------------------------------------------------------
(* Releasing stacks.                                                       *)

\* The slots are finitely many, and the stacks of idle ones are counted by
\* their slot: a later stack has more before it.
LEMMA IdleRank ==
    /\ IsFiniteSet(Cids)
    /\ \A c \in IdleStacks :
          /\ IdleStacksBelow(c) \in Nat
          /\ \A d \in IdleStacks :
                c < d => IdleStacksBelow(c) < IdleStacksBelow(d)
<1>1. Cids \subseteq Nat /\ IdleStacks \subseteq Cids
  BY DEF Cids, IdleStacks, IdleSlots
<1>2. IsFiniteSet(Cids)
  BY FS_Interval, CoroutineAssumption DEF Cids
<1> DEFINE K(c) == {d \in IdleStacks : d < c}
<1>3. \A c : IsFiniteSet(K(c)) /\ Cardinality(K(c)) \in Nat
  <2> SUFFICES ASSUME NEW c PROVE IsFiniteSet(K(c)) /\ Cardinality(K(c)) \in Nat
    OBVIOUS
  <2>1. K(c) \in SUBSET Cids
    BY <1>1
  <2> HIDE DEF K
  <2> QED BY <1>2, <2>1, FS_Subset, FS_CardinalityType
<1>4. \A c : IdleStacksBelow(c) = Cardinality(K(c))
  BY DEF IdleStacksBelow
<1>5. ASSUME NEW c \in IdleStacks, NEW d \in IdleStacks, c < d
      PROVE  Cardinality(K(c)) < Cardinality(K(d))
  <2>1. c \notin K(c) /\ K(c) \cup {c} \in SUBSET K(d)
    <3>1. c \in Nat /\ d \in Nat /\ \A x \in IdleStacks : x \in Nat
      BY <1>1
    <3>2. \A x \in IdleStacks : x < c => x < d
      BY <1>5, <3>1
    <3>3. ~(c < c)
      BY <3>1
    <3> QED BY <1>5, <3>2, <3>3
  <2> HIDE DEF K
  <2>2. Cardinality(K(c) \cup {c}) = Cardinality(K(c)) + 1
    BY <1>3, <2>1, FS_AddElement
  <2>3. Cardinality(K(c) \cup {c}) <= Cardinality(K(d))
    BY <1>3, <2>1, FS_Subset
  <2> QED BY <1>3, <2>2, <2>3
<1> HIDE DEF K
<1> QED BY <1>2, <1>3, <1>4, <1>5

\* No more than MAX_RELEASE stacks are released: each has its own place among
\* so many.
LEMMA ReleasedFew ==
    ASSUME NEW p \in Int, TypeOK
    PROVE  IsFiniteSet(Released(p)) /\ Cardinality(Released(p)) <= MAX_RELEASE
<1> DEFINE keep == IF p > activityCnt THEN p - activityCnt ELSE 0
           R == Released(p)
           T == keep .. keep + MAX_RELEASE - 1
           q == [c \in R |-> IdleStacksBelow(c)]
<1>1. keep \in Nat /\ MAX_RELEASE \in Nat \ {0}
  BY CoroutineAssumption DEF TypeOK
<1>2. R = {c \in IdleStacks : /\ IdleStacksBelow(c) >= keep
                              /\ IdleStacksBelow(c) < keep + MAX_RELEASE}
  BY DEF Released
<1> HIDE DEF keep, R
<1>3. q \in [R -> T]
  BY <1>1, <1>2, IdleRank
<1>4. \A a, b \in R : q[a] = q[b] => a = b
  <2> SUFFICES ASSUME NEW a \in R, NEW b \in R,
                      IdleStacksBelow(a) = IdleStacksBelow(b)
               PROVE  a = b
    OBVIOUS
  <2>1. a \in IdleStacks /\ b \in IdleStacks
    BY <1>2
  <2>2. a \in Int /\ b \in Int
    BY <2>1, CoroutineAssumption DEF IdleStacks, IdleSlots, Cids
  <2>3. IdleStacksBelow(a) \in Nat /\ IdleStacksBelow(b) \in Nat
    BY <2>1, IdleRank
  <2>4. ~(a < b) /\ ~(b < a)
    BY <2>1, <2>3, IdleRank
  <2> QED BY <2>2, <2>4
<1>5. IsFiniteSet(T) /\ Cardinality(T) = MAX_RELEASE
  BY <1>1, FS_Interval
<1> HIDE DEF q, T
<1>6. q \in Injection(R, T)
  BY <1>3, <1>4, Fun_IsInj
<1>7. IsFiniteSet(R) /\ Cardinality(R) <= Cardinality(T)
  BY <1>5, <1>6, FS_Injection
<1> QED BY <1>5, <1>7 DEF R

\* What is left is enough: where one stack is released, the idle ones before
\* it that the percentile still grants are kept, and so are all live ones.
LEMMA ReleaseBounds ==
    ASSUME IInv, ActivityCountOK, LiveStacks, NEW p \in Int,
           ScheduleTryReleaseMemory(p)
    PROVE  /\ Cardinality(Stacked') >= p \/ Stacked' = Stacked
           /\ Cardinality(Stacked \ Stacked') <= MAX_RELEASE
<1> DEFINE keep == IF p > activityCnt THEN p - activityCnt ELSE 0
           R == Released(p)
<1>0. TypeOK
  BY DEF IInv
<1>1. Stacked' = Stacked \ R /\ R \subseteq Stacked
  <2>1. stack' = [c \in Cids |-> IF c \in R THEN "none" ELSE stack[c]]
    BY DEF ScheduleTryReleaseMemory
  <2>2. R \subseteq Stacked
    BY DEF Released, IdleStacks, IdleSlots, Stacked
  <2> HIDE DEF R
  <2>3. Stacked' = Stacked \ R
    BY <2>1 DEF Stacked
  <2> QED BY <2>2, <2>3
<1>2. Cardinality(Stacked \ Stacked') <= MAX_RELEASE
  <2>1. Stacked \ Stacked' = R
    BY <1>1
  <2> QED BY <1>0, <2>1, ReleasedFew
<1>3. CASE R = {}
  BY <1>1, <1>2, <1>3
<1>4. CASE R # {}
  <2>1. R \subseteq IdleStacks /\ IdleStacks \subseteq Cids /\ Cids \subseteq Nat
    BY CoroutineAssumption DEF Released, IdleStacks, IdleSlots, Cids
  <2>2. PICK c \in R : \A d \in R : c <= d
    <3>1. R \subseteq Nat
      BY <2>1
    <3> HIDE DEF R
    <3> QED BY <1>4, <3>1, LeastNat
  <2> DEFINE K == {d \in IdleStacks : d < c}
  <2>3. Cardinality(K) >= keep
    BY <2>2 DEF Released, IdleStacksBelow
  <2>4. keep \in Int /\ activityCnt \in Int /\ activityCnt + keep >= p
    BY <1>0 DEF TypeOK
  <2>5. activityCnt = Cardinality(Live)
    BY DEF ActivityCountOK, Live
  <2>6. Live \cap IdleStacks = {} /\ Live \subseteq Stacked
    BY DEF ScheduleTryReleaseMemory, MasterFree, LiveStacks, Live, IdleStacks,
           IdleSlots, Stacked
  <2>7. K \cap R = {} /\ K \subseteq Stacked
    <3>1. \A d \in K : d \notin R
      <4> SUFFICES ASSUME NEW d \in K, d \in R PROVE FALSE
        OBVIOUS
      <4>1. c \in Nat /\ d \in Nat
        BY <2>1, <2>2
      <4>2. d < c
        OBVIOUS
      <4>3. c <= d
        BY <2>2
      <4> QED BY <4>1, <4>2, <4>3
    <3>2. K \subseteq Stacked
      BY DEF IdleStacks, IdleSlots, Stacked
    <3> QED BY <3>1, <3>2
  <2> HIDE DEF R, K, keep
  <2>8. K \subseteq IdleStacks
    BY DEF K
  <2>9. Live \cup K \in SUBSET (Stacked') /\ Live \cap K = {}
    BY <1>1, <2>1, <2>6, <2>7, <2>8
  <2>10. /\ IsFiniteSet(Live) /\ IsFiniteSet(K) /\ IsFiniteSet(Stacked')
         /\ Cardinality(Live) \in Nat /\ Cardinality(K) \in Nat
         /\ Cardinality(Stacked') \in Nat
    <3>1. Live \in SUBSET Cids /\ K \in SUBSET Cids /\ Stacked' \in SUBSET Cids
      BY <1>1, <2>1, <2>8 DEF Live, Stacked
    <3> QED BY <3>1, IdleRank, FS_Subset, FS_CardinalityType
  <2>11. Cardinality(Live \cup K) = Cardinality(Live) + Cardinality(K)
    <3>1. Cardinality(Live \cup K) =
             Cardinality(Live) + Cardinality(K) - Cardinality(Live \cap K)
      BY <2>10, FS_Union
    <3>2. Cardinality(Live \cap K) = 0
      BY <2>9, FS_EmptySet
    <3> QED BY <2>10, <3>1, <3>2
  <2>12. Cardinality(Live \cup K) <= Cardinality(Stacked')
    BY <2>9, <2>10, FS_Subset
  <2>13. Cardinality(Stacked') >= p
    BY <2>3, <2>4, <2>5, <2>10, <2>11, <2>12
  <2> QED BY <1>2, <2>13
<1> QED BY <1>3, <1>4

-----------------------------------------------------------------------------
(* The invariant.                                                          *)

MInv ==
    /\ IInv /\ ActivityCountOK /\ LiveStacks /\ NoOverrunStackPooled
    /\ RingHolds(pct, window) /\ Bounded(window)

\* The ring starts empty, and so does the window.
LEMMA MemoryInitInv == MemoryInit => MInv
<1> SUFFICES ASSUME MemoryInit PROVE MInv
  OBVIOUS
<1>1. Init
  BY DEF MemoryInit
<1>2. IInv /\ ActivityCountOK
  BY <1>1, InitInv, ActivityInit
<1>3. LiveStacks /\ NoOverrunStackPooled
  BY <1>1 DEF Init, LiveStacks, NoOverrunStackPooled, IdleSlots
<1>4. RingHolds(pct, window)
  <2>1. pct = [data |-> <<>>, index |-> 0] /\ window = <<>>
    BY DEF MemoryInit, EmptyRing
  <2>2. max_stat_data_len_ \in Nat \ {0}
    BY PercentileAssumption
  <2>3. /\ pct \in [data : Seq(Int), index : 0 .. max_stat_data_len_ - 1]
        /\ window \in Seq(Int) /\ Len(window) = 0 /\ Len(pct.data) = 0
        /\ pct.index = 0
    BY <2>1, <2>2
  <2> QED BY <2>2, <2>3 DEF RingHolds
<1>5. Bounded(window)
  BY DEF MemoryInit, Bounded
<1> QED BY <1>2, <1>3, <1>4, <1>5 DEF MInv

\* A call that is not ScheduleTryReleaseMemory is a step of the scheduler.
LEMMA SchedulerStep ==
    ASSUME MInv, [Next]_vars, UNCHANGED <<pct, window>>
    PROVE  MInv'
<1>1. IInv /\ ActivityCountOK /\ LiveStacks /\ NoOverrunStackPooled /\ TypeOK
  BY DEF MInv, IInv
<1>2. IInv'
  BY <1>1, StepInv
<1>3. ActivityCountOK'
  BY <1>1, LiveStep, ActivityKept
<1>4. LiveStacks' /\ NoOverrunStackPooled'
  BY <1>1, StackStep, LiveStacksKept, NoOverrunKept
<1>5. RingHolds(pct, window)'
  BY DEF MInv, RingHolds, Full, Slot
<1> QED BY <1>2, <1>3, <1>4, <1>5 DEF MInv

\* There are never more live coroutines than slots.
LEMMA ActivityBounded == IInv /\ ActivityCountOK => activityCnt \in 0 .. coroutineCnt
<1> SUFFICES ASSUME IInv, ActivityCountOK PROVE activityCnt \in 0 .. coroutineCnt
  OBVIOUS
<1>1. activityCnt = Cardinality(Live) /\ Live \in SUBSET Cids
  BY DEF ActivityCountOK, Live
<1>2. coroutineCnt \in Nat
  BY CoroutineAssumption
<1>3. IsFiniteSet(Cids) /\ Cardinality(Cids) = coroutineCnt
  BY <1>2, FS_Interval DEF Cids
<1>4. Cardinality(Live) \in Nat /\ Cardinality(Live) <= coroutineCnt
  BY <1>1, <1>3, FS_Subset, FS_CardinalityType
<1> QED BY <1>1, <1>2, <1>4

\* A value from a bounded window, or the new one.
LEMMA LatestBounded ==
    ASSUME NEW w \in Seq(Int), Bounded(w), NEW v \in 0 .. coroutineCnt
    PROVE  Bounded(Latest(Append(w, v)))
<1> DEFINE a == Append(w, v)
<1>1. coroutineCnt \in Nat /\ v \in Int
  BY CoroutineAssumption
<1>2. /\ a \in Seq(Int) /\ Len(a) = Len(w) + 1
      /\ \A i \in 1 .. Len(a) : a[i] \in 0 .. coroutineCnt
  <2>1. /\ a \in Seq(Int) /\ Len(a) = Len(w) + 1 /\ a[Len(w) + 1] = v
        /\ \A i \in 1 .. Len(w) : a[i] = w[i]
    BY <1>1
  <2> HIDE DEF a
  <2>2. ASSUME NEW i \in 1 .. Len(a) PROVE a[i] \in 0 .. coroutineCnt
    <3>1. CASE i = Len(w) + 1
      BY <2>1, <3>1
    <3>2. CASE i \in 1 .. Len(w)
      <4>1. a[i] = w[i]
        BY <2>1, <3>2
      <4>2. w[i] \in 0 .. coroutineCnt
        BY <3>2 DEF Bounded
      <4> QED BY <4>1, <4>2
    <3>3. Len(w) \in Nat
      OBVIOUS
    <3> QED BY <2>1, <3>1, <3>2, <3>3
  <2> QED BY <2>1, <2>2
<1> HIDE DEF a
<1>3. CASE Latest(a) = a
  BY <1>2, <1>3 DEF Bounded, a
<1>4. CASE Latest(a) = Tail(a)
  <2>1. /\ Len(Tail(a)) = Len(w) /\ \A i \in 1 .. Len(w) : Tail(a)[i] = a[i + 1]
    BY <1>2
  <2>2. Bounded(Tail(a))
    BY <1>2, <2>1 DEF Bounded
  <2> QED BY <1>4, <2>2 DEF a
<1> QED BY <1>3, <1>4 DEF Latest

\* ScheduleTryReleaseMemory puts the number of live coroutines in the ring.
LEMMA RingStep ==
    ASSUME MInv, TryReleaseMemory
    PROVE  /\ pct' = Stat(pct, activityCnt)
           /\ window' = Latest(Append(window, activityCnt))
           /\ RingHolds(pct', window') /\ Bounded(window')
<1>1. /\ pct' = Stat(pct, activityCnt)
      /\ window' = Latest(Append(window, activityCnt))
  BY DEF TryReleaseMemory
<1>2. /\ activityCnt \in Int /\ RingHolds(pct, window)
      /\ window \in Seq(Int) /\ Bounded(window) /\ activityCnt \in 0 .. coroutineCnt
  BY ActivityBounded DEF MInv, IInv, TypeOK, RingHolds
<1>3. RingHolds(Stat(pct, activityCnt), Latest(Append(window, activityCnt)))
  BY <1>2, StatKeeps
<1>4. Bounded(Latest(Append(window, activityCnt)))
  BY <1>2, LatestBounded
<1> QED BY <1>1, <1>3, <1>4

\* Every step keeps the invariant.
LEMMA MemoryStepInv == MInv /\ [MemoryNext]_memoryVars => MInv'
<1> SUFFICES ASSUME MInv, [MemoryNext]_memoryVars PROVE MInv'
  OBVIOUS
<1>1. IInv /\ ActivityCountOK /\ LiveStacks /\ NoOverrunStackPooled /\ TypeOK
  BY DEF MInv, IInv
<1>2. CASE Calls /\ UNCHANGED <<pct, window>>
  BY <1>2, SchedulerStep DEF Next
<1>3. CASE UNCHANGED memoryVars
  <2>1. [Next]_vars /\ UNCHANGED <<pct, window>>
    BY <1>3 DEF memoryVars
  <2> QED BY <2>1, SchedulerStep
<1>4. CASE TryReleaseMemory
  <2> DEFINE p == P99(pct')
  <2>1. RingHolds(pct, window)' /\ Bounded(window)'
    BY <1>4, RingStep DEF RingHolds, Full, Slot, Bounded
  <2>2. CASE UNCHANGED vars
    <3>1. IInv'
      BY <1>1, <2>2, StepInv
    <3>2. ActivityCountOK'
      BY <1>1, <2>2, LiveStep, ActivityKept
    <3>3. LiveStacks' /\ NoOverrunStackPooled'
      BY <1>1, <2>2, StackStep, LiveStacksKept, NoOverrunKept
    <3> QED BY <2>1, <3>1, <3>2, <3>3 DEF MInv
  <2>3. CASE ScheduleTryReleaseMemory(p)
    <3> HIDE DEF p
    <3>1. IInv'
      BY <1>1, <2>3, ReleaseInv
    <3>2. Same
      BY <2>3 DEF ScheduleTryReleaseMemory, Same, Live
    <3>3. ActivityCountOK'
      BY <1>1, <3>2, ActivityKept
    <3>4. LiveStacks' /\ NoOverrunStackPooled'
      BY <1>1, <2>3, ReleaseStack, LiveStacksKept, NoOverrunKept
    <3> QED BY <2>1, <3>1, <3>3, <3>4 DEF MInv
  <2> QED BY <1>4, <2>2, <2>3 DEF TryReleaseMemory
<1> QED BY <1>2, <1>3, <1>4 DEF MemoryNext

\* The invariant holds whenever the scheduler asks its percentile.
THEOREM Invariance == MemorySpec => []MInv
<1> QED BY MemoryInitInv, MemoryStepInv, PTL DEF MemorySpec

-----------------------------------------------------------------------------
(* What the runs check.                                                    *)

\* However often the ring has wrapped, the percentile that the code computes
\* from it in doubles and cuts off is that of the last max_stat_data_len_ numbers
\* of live coroutines, or one less where that is a whole number.
THEOREM PercentileIsOfWindow == MemorySpec => []PercentileOfWindow
<1>1. MInv => PercentileOfWindow
  BY PercentileIs DEF MInv, PercentileOfWindow
<1> QED BY <1>1, Invariance, PTL

\* Also with the percentile the scheduler really asks, no live coroutine loses
\* its stack.
THEOREM StacksSurviveRelease == MemorySpec => []LiveStacks
<1>1. MInv => LiveStacks
  BY DEF MInv
<1> QED BY <1>1, Invariance, PTL

\* A call of ScheduleTryReleaseMemory keeps as many stacks as the percentile of
\* the last calls, cut off, or all there were, and frees at most MAX_RELEASE.
THEOREM ReleaseKeepsEnough == MemorySpec => ReleaseKeepsP99
<1>1. ASSUME MInv, TryReleaseMemory
      PROVE  /\ \/ /\ Len(window') = max_stat_data_len_
                   /\ P99(pct') \in CutOff(window')
                   /\ Cardinality(Stacked') >= P99(pct')
                \/ Stacked' = Stacked
             /\ Cardinality(Stacked \ Stacked') <= MAX_RELEASE
  <2> DEFINE ring == Stat(pct, activityCnt)
             w == Latest(Append(window, activityCnt))
             p == P99(ring)
  <2>1. pct' = ring /\ window' = w /\ RingHolds(ring, w) /\ Bounded(w)
    BY <1>1, RingStep
  <2>2. \/ Full(ring) /\ ScheduleTryReleaseMemory(p)
        \/ ~Full(ring) /\ UNCHANGED vars
    BY <1>1 DEF TryReleaseMemory
  <2> HIDE DEF ring, w
  <2>3. CASE Full(ring) /\ ScheduleTryReleaseMemory(p)
    <3>1. Len(w) = max_stat_data_len_ /\ p \in CutOff(w) /\ p \in Int
      BY <2>1, <2>3, PercentileIs
    <3> HIDE DEF p
    <3>2. IInv /\ ActivityCountOK /\ LiveStacks
      BY <1>1 DEF MInv
    <3>3. /\ Cardinality(Stacked') >= p \/ Stacked' = Stacked
          /\ Cardinality(Stacked \ Stacked') <= MAX_RELEASE
      BY <2>3, <3>1, <3>2, ReleaseBounds
    <3> QED BY <2>1, <3>1, <3>3 DEF p
  <2>4. CASE UNCHANGED vars
    <3>1. Stacked' = Stacked
      BY <2>4 DEF vars, memVars, Stacked
    <3>2. Cardinality(Stacked \ Stacked') = 0 /\ MAX_RELEASE \in Nat
      BY <3>1, FS_EmptySet, CoroutineAssumption
    <3> QED BY <3>1, <3>2
  <2> QED BY <2>2, <2>3, <2>4
<1>2. MInv /\ [MemoryNext]_memoryVars =>
         [TryReleaseMemory =>
            /\ \/ /\ Len(window') = max_stat_data_len_
                  /\ P99(pct') \in CutOff(window')
                  /\ Cardinality(Stacked') >= P99(pct')
               \/ Stacked' = Stacked
            /\ Cardinality(Stacked \ Stacked') <= MAX_RELEASE]_memoryVars
  BY <1>1, Zenon
<1> QED BY <1>2, Invariance, PTL DEF MemorySpec, ReleaseKeepsP99
=============================================================================
