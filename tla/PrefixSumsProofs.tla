-------------------------- MODULE PrefixSumsProofs --------------------------
(***************************************************************************)
(* Facts about the sums of PrefixSums, by induction.  The provers cannot   *)
(* use an induction rule that takes a predicate as its parameter; here the *)
(* predicate is a set of numbers, and the rule is that natural numbers are *)
(* well-ordered.                                                           *)
(***************************************************************************)
EXTENDS PrefixSums, FiniteSetTheorems, WellFoundedInduction, TLAPS

\* A set of natural numbers that is not empty has a least element.
LEMMA LeastNumber ==
  ASSUME NEW T \in SUBSET Nat, T # {}
  PROVE  \E n \in T : \A m \in T : n <= m
<1> DEFINE Less == {ss \in Nat \X Nat : ss[1] < ss[2]}
<1>1. IsWellFoundedOn(Less, Nat)
  BY NatLessThanWellFounded DEF OpToRel
<1> HIDE DEF Less
<1>2. PICK n \in T : \A m \in T : <<m, n>> \notin Less
  BY <1>1, WFMin
<1>3. ASSUME NEW m \in T
      PROVE  n <= m
  <2>1. ~(m < n)
    BY <1>2 DEF Less
  <2> QED
    BY <2>1
<1> QED
  BY <1>3

\* Induction: a set that has 0, and the successor of each of its elements, has
\* every natural number.
LEMMA SetInduction ==
  ASSUME NEW S \in SUBSET Nat, 0 \in S, \A n \in S : n + 1 \in S
  PROVE  S = Nat
<1> SUFFICES ASSUME S # Nat PROVE FALSE
  OBVIOUS
<1>1. PICK n \in Nat \ S : \A m \in Nat \ S : n <= m
  BY LeastNumber
<1>2. n # 0 /\ n - 1 \in Nat
  BY <1>1
<1>3. n - 1 \in S
  BY <1>1, <1>2
<1> QED
  BY <1>1, <1>3

-----------------------------------------------------------------------------
\* What the accumulator of a loop over the first n elements does.
Accumulates(s, f, n) ==
  s = [i \in 0..n |-> IF i = 0 THEN 0 ELSE s[i - 1] + f[i]]

\* The recursion of PrefixSum defines a function.
LEMMA AccumulatorExists ==
  ASSUME NEW f, NEW n \in Nat
  PROVE  \E s : Accumulates(s, f, n)
<1> DEFINE S == {k \in Nat : \E s : Accumulates(s, f, k)}
<1>1. 0 \in S
  <2> DEFINE s == [i \in 0..0 |-> 0]
  <2>1. Accumulates(s, f, 0)
    BY DEF Accumulates
  <2> QED
    BY <2>1
<1>2. ASSUME NEW k \in S
      PROVE  k + 1 \in S
  <2>1. PICK s : Accumulates(s, f, k)
    OBVIOUS
  <2> DEFINE t == [i \in 0..(k + 1) |-> IF i = k + 1 THEN s[k] + f[k + 1] ELSE s[i]]
  <2>2. \A i \in 0..k : s[i] = IF i = 0 THEN 0 ELSE s[i - 1] + f[i]
    BY <2>1 DEF Accumulates
  <2>3. (\A i \in 0..k : t[i] = s[i]) /\ t[k + 1] = s[k] + f[k + 1]
    OBVIOUS
  <2>4. ASSUME NEW i \in 0..(k + 1)
        PROVE  t[i] = IF i = 0 THEN 0 ELSE t[i - 1] + f[i]
    BY <2>2, <2>3
  <2>5. Accumulates(t, f, k + 1)
    BY <2>4 DEF Accumulates
  <2> HIDE DEF t
  <2> QED
    BY <2>5
<1>3. S = Nat
  <2> HIDE DEF S
  <2>1. S \in SUBSET Nat
    BY DEF S
  <2> QED
    BY <1>1, <1>2, <2>1, SetInduction
<1> QED
  BY <1>3

\* Two accumulators agree as far as both go.
LEMMA AccumulatorUnique ==
  ASSUME NEW f, NEW m \in Nat, NEW n \in Nat, m <= n,
         NEW s, Accumulates(s, f, m), NEW t, Accumulates(t, f, n)
  PROVE  \A i \in 0..m : s[i] = t[i]
<1> DEFINE S == {i \in Nat : i <= m => s[i] = t[i]}
<1>1. 0 \in S
  BY DEF Accumulates
<1>2. ASSUME NEW i \in S
      PROVE  i + 1 \in S
  <2> SUFFICES ASSUME i + 1 <= m
               PROVE  s[i + 1] = t[i + 1]
    OBVIOUS
  <2>1. s[i + 1] = s[i] + f[i + 1]
    BY DEF Accumulates
  <2>2. t[i + 1] = t[i] + f[i + 1]
    BY DEF Accumulates
  <2> QED
    BY <2>1, <2>2
<1>3. S = Nat
  <2> HIDE DEF S
  <2>1. S \in SUBSET Nat
    BY DEF S
  <2> QED
    BY <1>1, <1>2, <2>1, SetInduction
<1> QED
  BY <1>3

\* A sum is what any accumulator that goes so far has then.
LEMMA SumOfAccumulator ==
  ASSUME NEW f, NEW m \in Nat, NEW n \in Nat, m <= n,
         NEW t, Accumulates(t, f, n)
  PROVE  PrefixSum(f, m) = t[m]
<1> DEFINE s == CHOOSE s : Accumulates(s, f, m)
<1>1. Accumulates(s, f, m)
  BY AccumulatorExists
<1>2. PrefixSum(f, m) = s[m]
  BY DEF PrefixSum, Accumulates
<1> HIDE DEF s
<1> QED
  BY <1>1, <1>2, AccumulatorUnique

\* One round of the loop adds one element.
LEMMA PrefixSumStep ==
  ASSUME NEW f
  PROVE  /\ PrefixSum(f, 0) = 0
         /\ \A n \in Nat : PrefixSum(f, n + 1) = PrefixSum(f, n) + f[n + 1]
<1>1. PrefixSum(f, 0) = 0
  <2>1. PICK t : Accumulates(t, f, 0)
    BY AccumulatorExists
  <2>2. PrefixSum(f, 0) = t[0]
    BY <2>1, SumOfAccumulator
  <2> QED
    BY <2>1, <2>2 DEF Accumulates
<1>2. ASSUME NEW n \in Nat
      PROVE  PrefixSum(f, n + 1) = PrefixSum(f, n) + f[n + 1]
  <2>1. PICK t : Accumulates(t, f, n + 1)
    BY AccumulatorExists
  <2>2. PrefixSum(f, n + 1) = t[n + 1] /\ PrefixSum(f, n) = t[n]
    BY <2>1, SumOfAccumulator
  <2>3. t[n + 1] = t[n] + f[n + 1]
    BY <2>1 DEF Accumulates
  <2> QED
    BY <2>2, <2>3
<1> QED
  BY <1>1, <1>2

\* Sums of natural numbers are natural numbers ...
LEMMA PrefixSumType ==
  ASSUME NEW N \in Nat, NEW f \in [1..N -> Nat], NEW n \in 0..N
  PROVE  PrefixSum(f, n) \in Nat
<1> DEFINE S == {k \in Nat : k <= N => PrefixSum(f, k) \in Nat}
<1>1. 0 \in S
  BY PrefixSumStep
<1>2. ASSUME NEW k \in S
      PROVE  k + 1 \in S
  <2>1. PrefixSum(f, k + 1) = PrefixSum(f, k) + f[k + 1]
    BY PrefixSumStep
  <2>2. k + 1 <= N => PrefixSum(f, k) \in Nat /\ f[k + 1] \in Nat
    OBVIOUS
  <2> QED
    BY <2>1, <2>2
<1>3. S = Nat
  <2> HIDE DEF S
  <2>1. S \in SUBSET Nat
    BY DEF S
  <2> QED
    BY <1>1, <1>2, <2>1, SetInduction
<1> QED
  BY <1>3

\* ... and what comes before an element, with the element, is at most what
\* comes before a later one.
LEMMA PrefixSumMonotone ==
  ASSUME NEW N \in Nat, NEW f \in [1..N -> Nat],
         NEW m \in 0..N, NEW n \in 0..N, m <= n
  PROVE  PrefixSum(f, m) <= PrefixSum(f, n)
<1> DEFINE S == {k \in Nat : m + k <= N => PrefixSum(f, m) <= PrefixSum(f, m + k)}
<1>1. 0 \in S
  BY PrefixSumType
<1>2. ASSUME NEW k \in S
      PROVE  k + 1 \in S
  <2> SUFFICES ASSUME m + k + 1 <= N
               PROVE  PrefixSum(f, m) <= PrefixSum(f, m + (k + 1))
    OBVIOUS
  <2>1. PrefixSum(f, m + k + 1) = PrefixSum(f, m + k) + f[m + k + 1]
    <3>1. m + k \in Nat
      OBVIOUS
    <3> QED
      BY <3>1, PrefixSumStep
  <2>2. PrefixSum(f, m) <= PrefixSum(f, m + k)
    OBVIOUS
  <2>3. /\ PrefixSum(f, m) \in Nat
        /\ PrefixSum(f, m + k) \in Nat
        /\ f[m + k + 1] \in Nat
    BY PrefixSumType
  <2>4. m + (k + 1) = m + k + 1
    OBVIOUS
  <2> QED
    BY <2>1, <2>2, <2>3, <2>4
<1>3. S = Nat
  <2> HIDE DEF S
  <2>1. S \in SUBSET Nat
    BY DEF S
  <2> QED
    BY <1>1, <1>2, <2>1, SetInduction
<1>4. n - m \in Nat /\ m + (n - m) = n
  OBVIOUS
<1>5. n - m \in S
  <2> HIDE DEF S
  <2> QED
    BY <1>3, <1>4
<1> QED
  BY <1>4, <1>5

\* A sum of ones and zeros is the number of ones.
LEMMA PrefixSumCounts ==
  ASSUME NEW N \in Nat, NEW f \in [1..N -> {0, 1}], NEW n \in 0..N
  PROVE  PrefixSum(f, n) = Cardinality({i \in 1..n : f[i] = 1})
<1> DEFINE Ones(k) == {i \in 1..k : f[i] = 1}
           S == {k \in Nat : k <= N => /\ IsFiniteSet(Ones(k))
                                       /\ PrefixSum(f, k) = Cardinality(Ones(k))}
<1>1. 0 \in S
  <2>1. Ones(0) = {}
    OBVIOUS
  <2> QED
    BY <2>1, PrefixSumStep, FS_EmptySet
<1>2. ASSUME NEW k \in S
      PROVE  k + 1 \in S
  <2> SUFFICES ASSUME k + 1 <= N
               PROVE  /\ IsFiniteSet(Ones(k + 1))
                      /\ PrefixSum(f, k + 1) = Cardinality(Ones(k + 1))
    OBVIOUS
  <2>1. PrefixSum(f, k + 1) = PrefixSum(f, k) + f[k + 1]
    <3>1. k \in Nat
      OBVIOUS
    <3> QED
      BY <3>1, PrefixSumStep
  <2>2. IsFiniteSet(Ones(k)) /\ PrefixSum(f, k) = Cardinality(Ones(k))
    OBVIOUS
  <2>3. Cardinality(Ones(k)) \in Nat
    BY <2>2, FS_CardinalityType
  <2>4. CASE f[k + 1] = 1
    <3>1. Ones(k + 1) = Ones(k) \cup {k + 1}
      BY <2>4
    <3>2. k + 1 \notin Ones(k)
      OBVIOUS
    <3> HIDE DEF Ones
    <3> QED
      BY <2>1, <2>2, <2>3, <2>4, <3>1, <3>2, FS_AddElement
  <2>5. CASE f[k + 1] = 0
    <3>1. Ones(k + 1) = Ones(k)
      BY <2>5
    <3> HIDE DEF Ones
    <3> QED
      BY <2>1, <2>2, <2>3, <2>5, <3>1
  <2> QED
    BY <2>4, <2>5
<1>3. S = Nat
  <2> HIDE DEF S
  <2>1. S \in SUBSET Nat
    BY DEF S
  <2> QED
    BY <1>1, <1>2, <2>1, SetInduction
<1>4. n \in S
  <2> HIDE DEF S
  <2> QED
    BY <1>3
<1> QED
  BY <1>4
=============================================================================
