-------------------------------- MODULE Orders --------------------------------
(* The minimum of a set of naturals, which the searches for a free slot,     *)
(* descriptor or context return, and the elements of a set in their order,   *)
(* which the walks over all slots or players meet; and sequences that are    *)
(* built step by step, flattened or in order, as loops over lists leave them.*)
EXTENDS Integers, SequencesExt, Ranks, WellFoundedInduction, FiniteSetTheorems,
        SequenceTheorems, TLAPS

\* A set of naturals has a least element, and Min is it.
LEMMA MinInSet ==
    ASSUME NEW S \in SUBSET Nat, S # {}
    PROVE  Min(S) \in S /\ \A y \in S : Min(S) <= y
<1> DEFINE Less == OpToRel(<, Nat)
<1>1. \A x, y \in Nat : x < y => <<x, y>> \in Less
  BY DEF OpToRel
<1>2. IsWellFoundedOn(Less, Nat)
  BY NatLessThanWellFounded
<1> HIDE DEF Less
<1>3. PICK n \in S : \A y \in S : ~ (<<y, n>> \in Less)
  BY <1>2, WFMin
<1>4. ASSUME NEW y \in S PROVE n <= y
  <2>1. n \in Nat /\ y \in Nat
    OBVIOUS
  <2>2. ~ (<<y, n>> \in Less)
    BY <1>3
  <2>3. ~ (y < n)
    BY <1>1, <2>1, <2>2
  <2>4. QED
    BY <2>1, <2>3
<1>5. \E m \in S : \A y \in S : m <= y
  BY <1>4
<1>6. QED
  BY <1>5 DEF Min

\* A set of integers with an upper bound has a greatest element, and Max is it.
LEMMA MaxInSet ==
    ASSUME NEW S \in SUBSET Int, S # {}, NEW b \in Int, \A y \in S : y <= b
    PROVE  Max(S) \in S /\ \A y \in S : Max(S) >= y
<1> DEFINE gaps == {b - y : y \in S}
<1>1. gaps \in SUBSET Nat /\ gaps # {}
  <2>1. \A y \in S : y \in Int /\ y <= b
    OBVIOUS
  <2>2. \A y \in S : b - y \in Nat
    BY <2>1
  <2>3. QED
    BY <2>2
<1>2. Min(gaps) \in gaps /\ \A d \in gaps : Min(gaps) <= d
  BY <1>1, MinInSet
<1>3. PICK m \in S : Min(gaps) = b - m
  BY <1>2
<1>4. \A y \in S : m >= y
  <2> TAKE y \in S
  <2>1. b - y \in gaps
    OBVIOUS
  <2>2. b - m <= b - y
    BY <1>2, <1>3, <2>1
  <2>3. QED
    BY <2>2
<1>5. \E x \in S : \A y \in S : x >= y
  BY <1>4
<1>6. QED
  BY <1>5 DEF Max

\* No two elements of a finite set of integers have as many smaller ones.
LEMMA RankInjective ==
    ASSUME NEW S \in SUBSET Int, IsFiniteSet(S), NEW a \in S, NEW b \in S, a < b
    PROVE  Cardinality({y \in S : y < a}) < Cardinality({y \in S : y < b})
<1> DEFINE A == {y \in S : y < a}
           B == {y \in S : y < b}
<1>1. IsFiniteSet(B) /\ B \subseteq S
  BY FS_Subset
<1>2. A \in SUBSET B /\ a \in B /\ a \notin A
  <2>1. ASSUME NEW y \in A PROVE y \in B
    <3>1. y \in Int /\ a \in Int /\ b \in Int /\ y < a
      BY <2>1
    <3>2. QED
      BY <2>1, <3>1
  <2>2. A \subseteq B
    BY <2>1
  <2>3. a \in B /\ a \notin A
    OBVIOUS
  <2>4. QED
    BY <2>2, <2>3
<1>3. Cardinality(A) <= Cardinality(B) /\ Cardinality(A) # Cardinality(B) /\ IsFiniteSet(A)
  BY <1>1, <1>2, FS_Subset
<1>4. Cardinality(A) \in Nat /\ Cardinality(B) \in Nat
  BY <1>1, <1>3, FS_CardinalityType
<1>5. QED
  BY <1>3, <1>4

\* A finite set of integers has a k-th element for every k up to its size, with
\* k - 1 elements before it.
LEMMA NthInSet ==
    ASSUME NEW S \in SUBSET Int, IsFiniteSet(S), NEW k \in 1 .. Cardinality(S)
    PROVE  Nth(S, k) \in S /\ Cardinality({y \in S : y < Nth(S, k)}) = k - 1
<1> DEFINE n == Cardinality(S)
           rank == [x \in S |-> Cardinality({y \in S : y < x})]
<1>1. n \in Nat
  BY FS_CardinalityType
<1>2. \A x \in S : rank[x] \in 0 .. n - 1
  <2> TAKE x \in S
  <2> DEFINE B == {y \in S : y < x}
  <2>1. B \in SUBSET S /\ B # S
    OBVIOUS
  <2>2. IsFiniteSet(B) /\ Cardinality(B) <= n /\ Cardinality(B) # n
    BY <2>1, FS_Subset
  <2>3. Cardinality(B) \in Nat
    BY <2>2, FS_CardinalityType
  <2>4. QED
    BY <1>1, <2>2, <2>3
<1>3. \A a, b \in S : a # b => rank[a] # rank[b]
  <2>1. ASSUME NEW a \in S, NEW b \in S, a < b PROVE rank[a] # rank[b]
    <3>1. rank[a] < rank[b]
      BY <2>1, RankInjective
    <3>2. rank[a] \in Int /\ rank[b] \in Int
      BY <1>1, <1>2
    <3>3. QED
      BY <3>1, <3>2
  <2>2. \A a, b \in S : a # b => a < b \/ b < a
    OBVIOUS
  <2>3. QED
    BY <2>1, <2>2
<1>4. rank \in Injection(S, 0 .. n - 1)
  BY <1>2, <1>3 DEF Injection, IsInjective
<1>5. IsFiniteSet(0 .. n - 1) /\ Cardinality(0 .. n - 1) = n
  <2> HIDE DEF n
  <2>1. 0 \in Int /\ n - 1 \in Int
    BY <1>1
  <2>2. /\ IsFiniteSet(0 .. n - 1)
        /\ Cardinality(0 .. n - 1) = IF 0 > n - 1 THEN 0 ELSE (n - 1) - 0 + 1
    BY <2>1, FS_Interval
  <2>3. QED
    BY <1>1, <2>2
<1>6. rank \in Surjection(S, 0 .. n - 1)
  BY <1>4, <1>5, FS_Injection
<1>7. k - 1 \in 0 .. n - 1
  BY <1>1
<1>8. \E x \in S : rank[x] = k - 1
  BY <1>6, <1>7 DEF Surjection
<1>9. \E x \in S : Cardinality({y \in S : y < x}) = k - 1
  BY <1>8
<1>10. QED
  BY <1>9 DEF Nth

\* A walk in order meets every element once.
LEMMA NthDistinct ==
    ASSUME NEW S \in SUBSET Int, IsFiniteSet(S),
           NEW j \in 1 .. Cardinality(S), NEW k \in 1 .. Cardinality(S), j # k
    PROVE  Nth(S, j) # Nth(S, k)
<1>1. Cardinality({y \in S : y < Nth(S, j)}) = j - 1
  BY NthInSet
<1>2. Cardinality({y \in S : y < Nth(S, k)}) = k - 1
  BY NthInSet
<1>3. j \in Int /\ k \in Int
  BY FS_CardinalityType
<1>4. QED
  BY <1>1, <1>2, <1>3

\* The elements come in increasing order.
LEMMA NthIncreasing ==
    ASSUME NEW S \in SUBSET Int, IsFiniteSet(S),
           NEW j \in 1 .. Cardinality(S), NEW k \in 1 .. Cardinality(S), j < k
    PROVE  Nth(S, j) < Nth(S, k)
<1> DEFINE Before(x) == {y \in S : y < x}
<1>1. Nth(S, j) \in S /\ Cardinality(Before(Nth(S, j))) = j - 1
  BY NthInSet
<1>2. Nth(S, k) \in S /\ Cardinality(Before(Nth(S, k))) = k - 1
  BY NthInSet
<1>3. j \in Int /\ k \in Int
  BY FS_CardinalityType
<1>4. Nth(S, k) < Nth(S, j) => Cardinality(Before(Nth(S, k))) < Cardinality(Before(Nth(S, j)))
  BY <1>1, <1>2, RankInjective
<1> HIDE DEF Before
<1>5. ~ (Nth(S, k) < Nth(S, j)) /\ Nth(S, j) # Nth(S, k)
  BY <1>1, <1>2, <1>3, <1>4
<1>6. Nth(S, j) \in Int /\ Nth(S, k) \in Int
  BY <1>1, <1>2
<1>7. QED
  BY <1>5, <1>6

\* The elements of S below x.
Below(S, x) == {y \in S : y < x}

\* The element with k - 1 elements before it is the k-th.
LEMMA NthIs ==
    ASSUME NEW S \in SUBSET Int, IsFiniteSet(S), NEW k \in 1 .. Cardinality(S),
           NEW x \in S, Cardinality(Below(S, x)) = k - 1
    PROVE  Nth(S, k) = x
<1>1. Nth(S, k) \in S /\ Cardinality(Below(S, Nth(S, k))) = k - 1
  BY NthInSet DEF Below
<1>2. k \in Int /\ x \in Int /\ Nth(S, k) \in Int
  <2>1. Nth(S, k) \in S
    BY <1>1
  <2>2. \A n \in 1 .. Cardinality(S) : n \in Int
    OBVIOUS
  <2>3. \A y \in S : y \in Int
    OBVIOUS
  <2>4. QED
    BY <2>1, <2>2, <2>3, Zenon
<1>3. Nth(S, k) < x => Cardinality(Below(S, Nth(S, k))) < Cardinality(Below(S, x))
  BY <1>1, RankInjective DEF Below
<1>4. x < Nth(S, k) => Cardinality(Below(S, x)) < Cardinality(Below(S, Nth(S, k)))
  BY <1>1, RankInjective DEF Below
<1>5. QED
  BY <1>1, <1>2, <1>3, <1>4

\* The first element is the least.
LEMMA NthFirst ==
    ASSUME NEW S \in SUBSET Nat, IsFiniteSet(S), S # {}
    PROVE  Nth(S, 1) = Min(S) /\ 1 \in 1 .. Cardinality(S)
<1>1. Min(S) \in S /\ \A y \in S : Min(S) <= y
  BY MinInSet
<1>2. Cardinality(S) \in Nat /\ Cardinality(S) # 0
  BY FS_CardinalityType, FS_EmptySet
<1>3. Below(S, Min(S)) = {}
  <2>1. \A y \in S : y \in Nat /\ Min(S) \in Nat /\ Min(S) <= y
    BY <1>1
  <2>2. \A y \in S : ~ (y < Min(S))
    BY <2>1
  <2>3. QED
    BY <2>2, Zenon DEF Below
<1>4. Cardinality(Below(S, Min(S))) = 1 - 1
  BY <1>3, FS_EmptySet
<1>5. 1 \in 1 .. Cardinality(S) /\ S \in SUBSET Int
  BY <1>2
<1>6. QED
  BY <1>1, <1>4, <1>5, NthIs, Zenon

\* A greater element comes last and leaves the others where they are.
LEMMA NthExtend ==
    ASSUME NEW S \in SUBSET Int, IsFiniteSet(S), NEW x \in Int, \A y \in S : y < x
    PROVE  /\ Cardinality(S \cup {x}) = Cardinality(S) + 1
           /\ \A k \in 1 .. Cardinality(S) : Nth(S \cup {x}, k) = Nth(S, k)
           /\ Nth(S \cup {x}, Cardinality(S) + 1) = x
<1> DEFINE T == S \cup {x}
           n == Cardinality(S)
<1>1. n \in Nat /\ x \notin S
  BY FS_CardinalityType
<1>2. IsFiniteSet(T) /\ Cardinality(T) = n + 1 /\ T \in SUBSET Int
  BY <1>1, FS_AddElement
<1>3. ASSUME NEW k \in 1 .. n PROVE Nth(T, k) = Nth(S, k)
  <2>1. Nth(S, k) \in S /\ Cardinality(Below(S, Nth(S, k))) = k - 1
    BY NthInSet DEF Below
  <2>2. Below(T, Nth(S, k)) = Below(S, Nth(S, k))
    <3>1. Nth(S, k) \in S /\ Nth(S, k) < x /\ \A y \in S : y \in Int
      BY <2>1
    <3>2. Nth(S, k) \in Int
      BY <3>1, Zenon
    <3>3. ~ (x < Nth(S, k))
      BY <3>1, <3>2
    <3>4. QED
      BY <3>3, Zenon DEF Below
  <2>3. k \in 1 .. Cardinality(T) /\ Nth(S, k) \in T
    <3>1. k \in 1 .. Cardinality(T)
      BY <1>1, <1>2
    <3>2. QED
      BY <2>1, <3>1, Zenon
  <2>4. Cardinality(Below(T, Nth(S, k))) = k - 1
    BY <2>1, <2>2
  <2> HIDE DEF T
  <2>5. QED
    BY <1>2, <2>3, <2>4, NthIs
<1>4. Nth(T, n + 1) = x
  <2>1. Below(T, x) = S
    <3>1. ~ (x < x)
      OBVIOUS
    <3>2. QED
      BY <3>1, Zenon DEF Below
  <2>2. n + 1 \in 1 .. Cardinality(T) /\ x \in T /\ (n + 1) - 1 = n
    BY <1>1, <1>2
  <2>3. Cardinality(Below(T, x)) = (n + 1) - 1
    BY <2>1, <2>2, Zenon
  <2> HIDE DEF T
  <2>4. QED
    BY <1>2, <2>2, <2>3, NthIs
<1>5. QED
  BY <1>2, <1>3, <1>4

\* Every element is the k-th for some k.
LEMMA NthOnto ==
    ASSUME NEW S \in SUBSET Int, IsFiniteSet(S), NEW x \in S
    PROVE  \E k \in 1 .. Cardinality(S) : Nth(S, k) = x
<1> DEFINE n == Cardinality(S)
           m == Cardinality(Below(S, x))
<1>1. Below(S, x) \in SUBSET (S \ {x})
  <2>1. ~ (x < x)
    OBVIOUS
  <2>2. QED
    BY <2>1, Zenon DEF Below
<1>2. IsFiniteSet(S \ {x}) /\ Cardinality(S \ {x}) = n - 1 /\ n \in Nat
  BY FS_RemoveElement, FS_CardinalityType
<1>3. m \in Nat /\ m <= n - 1
  BY <1>1, <1>2, FS_Subset, FS_CardinalityType
<1> HIDE DEF m
<1>4. m + 1 \in 1 .. n /\ m = (m + 1) - 1
  BY <1>2, <1>3
<1>5. Cardinality(Below(S, x)) = (m + 1) - 1
  BY <1>4, Zenon DEF m
<1>6. Nth(S, m + 1) = x
  BY <1>4, <1>5, NthIs
<1>7. QED
  BY <1>4, <1>6

\* The first n elements are n, and nothing else comes before one of them.
LEMMA FirstOnesCounted ==
    ASSUME NEW S \in SUBSET Int, IsFiniteSet(S), NEW n \in Nat, n <= Cardinality(S)
    PROVE  /\ IsFiniteSet({Nth(S, j) : j \in 1 .. n})
           /\ Cardinality({Nth(S, j) : j \in 1 .. n}) = n
<1> DEFINE T == {Nth(S, j) : j \in 1 .. n}
           f == [j \in 1 .. n |-> Nth(S, j)]
<1>1. Cardinality(S) \in Nat /\ 1 .. n \subseteq 1 .. Cardinality(S)
  BY FS_CardinalityType
<1>2. f \in Surjection(1 .. n, T)
  BY DEF Surjection
<1>3. \A i, j \in 1 .. n : i # j => Nth(S, i) # Nth(S, j)
  BY <1>1, NthDistinct
<1>4. f \in Injection(1 .. n, T)
  BY <1>3 DEF Injection, IsInjective
<1>5. IsFiniteSet(1 .. n) /\ Cardinality(1 .. n) = n
  <2>1. 1 \in Int /\ n \in Int
    OBVIOUS
  <2>2. IsFiniteSet(1 .. n) /\ Cardinality(1 .. n) = IF 1 > n THEN 0 ELSE n - 1 + 1
    BY <2>1, FS_Interval
  <2>3. QED
    BY <2>2
<1> HIDE DEF f, T
<1>6. IsFiniteSet(T) /\ Cardinality(T) = Cardinality(1 .. n)
  BY <1>2, <1>4, <1>5, FS_Surjection
<1>7. QED
  BY <1>5, <1>6 DEF T

LEMMA FirstOnesBefore ==
    ASSUME NEW S \in SUBSET Int, IsFiniteSet(S), NEW n \in Nat, n <= Cardinality(S),
           NEW k \in 1 .. n
    PROVE  {p \in {Nth(S, j) : j \in 1 .. n} : p < Nth(S, k)} = {y \in S : y < Nth(S, k)}
<1> DEFINE T == {Nth(S, j) : j \in 1 .. n}
           Before(x) == {y \in S : y < x}
           r(x) == Cardinality(Before(x))
<1>1. Cardinality(S) \in Nat /\ 1 .. n \subseteq 1 .. Cardinality(S) /\ k \in Nat
  BY FS_CardinalityType
<1>2. \A j \in 1 .. Cardinality(S) : Nth(S, j) \in S /\ r(Nth(S, j)) = j - 1
  BY NthInSet
<1>3. \A a, b \in S : a < b => r(a) < r(b)
  BY RankInjective
<1>4. \A a \in S : r(a) \in Nat
  <2> TAKE a \in S
  <2>1. IsFiniteSet(Before(a))
    BY FS_Subset
  <2>2. QED
    BY <2>1, FS_CardinalityType
<1> HIDE DEF r
<1>5. ASSUME NEW y \in S, y < Nth(S, k) PROVE y \in T
  <2>1. r(y) < k - 1 /\ r(y) \in Nat
    BY <1>1, <1>2, <1>3, <1>4, <1>5
  <2>2. PICK i \in 1 .. n : i - 1 = r(y)
    <3>1. ASSUME NEW q \in Nat, q < k - 1 PROVE \E i \in 1 .. n : i - 1 = q
      <4>1. q + 1 \in 1 .. n /\ q + 1 - 1 = q
        BY <3>1
      <4>2. QED
        BY <4>1
    <3>2. QED
      BY <2>1, <3>1
  <2> DEFINE z == Nth(S, i)
  <2>3. i \in 1 .. Cardinality(S)
    BY <1>1
  <2>4. z \in S /\ r(z) = r(y)
    BY <1>2, <2>2, <2>3
  <2>5. z \in T
    OBVIOUS
  <2> HIDE DEF z, T
  <2>6. y < z => r(y) < r(z)
    BY <1>3, <2>4
  <2>7. z < y => r(z) < r(y)
    BY <1>3, <2>4
  <2>8. r(z) \in Nat /\ r(y) \in Nat /\ y \in Int /\ z \in Int
    BY <2>1, <2>4
  <2>9. y = z
    BY <2>4, <2>6, <2>7, <2>8
  <2>10. QED
    BY <2>5, <2>9
<1>6. T \subseteq S
  BY <1>1, <1>2
<1> HIDE DEF T
<1>7. {p \in T : p < Nth(S, k)} = {y \in S : y < Nth(S, k)}
  BY <1>5, <1>6
<1>8. QED
  BY <1>7 DEF T

-----------------------------------------------------------------------------
(* Sequences that a recursive function builds, step by step.                 *)

\* The functions that start at a and go on by F.
StepsBy(n, S, a, F) ==
    {f \in [1 .. n -> S] : f[1] = a /\ \A i \in 2 .. n : f[i] = F[<<i, f[i - 1]>>]}

LEMMA StepsExist ==
    ASSUME NEW n \in Nat \ {0}, NEW S, NEW a \in S, NEW F \in [(2 .. n) \X S -> S]
    PROVE  StepsBy(n, S, a, F) # {}
<1> DEFINE Bad == {m \in 1 .. n : StepsBy(m, S, a, F) = {}}
<1>1. ASSUME Bad # {} PROVE FALSE
  <2>1. PICK m \in Bad : \A k \in Bad : m <= k
    <3>1. Bad \in SUBSET Nat
      OBVIOUS
    <3> HIDE DEF Bad
    <3>2. QED
      BY <1>1, <3>1, MinInSet
  <2>2. m \in 1 .. n /\ StepsBy(m, S, a, F) = {}
    OBVIOUS
  <2>3. CASE m = 1
    <3>1. [i \in 1 .. 1 |-> a] \in StepsBy(1, S, a, F)
      BY DEF StepsBy
    <3>2. QED
      BY <2>2, <2>3, <3>1
  <2>4. CASE m # 1
    <3>1. m - 1 \in 1 .. n /\ m - 1 \notin Bad
      BY <2>1, <2>2, <2>4
    <3>2. PICK f \in StepsBy(m - 1, S, a, F) : TRUE
      BY <3>1
    <3>3. f \in [1 .. m - 1 -> S] /\ f[1] = a
          /\ \A i \in 2 .. m - 1 : f[i] = F[<<i, f[i - 1]>>]
      BY <3>2 DEF StepsBy
    <3> DEFINE last == F[<<m, f[m - 1]>>]
               g == [i \in 1 .. m |-> IF i = m THEN last ELSE f[i]]
    <3>4. m \in 2 .. n /\ m - 1 \in 1 .. m - 1
      BY <2>2, <2>4
    <3>5. last \in S
      BY <3>3, <3>4
    <3> HIDE DEF Bad
    <3>6. g \in [1 .. m -> S] /\ g[1] = a
      <4> HIDE DEF last
      <4>1. QED
        BY <3>3, <3>4, <3>5
    <3>7. ASSUME NEW i \in 2 .. m PROVE g[i] = F[<<i, g[i - 1]>>]
      <4>1. g[i - 1] = f[i - 1]
        BY <2>2, <3>4
      <4>2. CASE i = m
        <5>1. g[i] = last
          BY <2>2, <4>2
        <5> HIDE DEF g
        <5>2. QED
          BY <4>1, <4>2, <5>1
      <4>3. CASE i # m
        <5>1. i \in 2 .. m - 1 /\ g[i] = f[i]
          BY <2>2, <3>4, <4>3
        <5>2. QED
          BY <3>3, <4>1, <5>1
      <4>4. QED
        BY <4>2, <4>3
    <3> HIDE DEF g
    <3>8. g \in StepsBy(m, S, a, F)
      BY <3>6, <3>7 DEF StepsBy
    <3>9. QED
      BY <2>2, <3>8
  <2>5. QED
    BY <2>3, <2>4
<1>2. n \in 1 .. n /\ n \notin Bad
  BY <1>1
<1>3. QED
  BY <1>2

\* Functions that start alike and go on alike end alike.
SameSteps(f, g, n) ==
    f[1] = g[1] /\ \A i \in 2 .. n : f[i - 1] = g[i - 1] => f[i] = g[i]

LEMMA StepsUnique ==
    ASSUME NEW n \in Nat \ {0}, NEW f, NEW g, SameSteps(f, g, n)
    PROVE  f[n] = g[n]
<1> DEFINE Bad == {i \in 1 .. n : f[i] # g[i]}
<1>1. SUFFICES ASSUME Bad # {} PROVE FALSE
  OBVIOUS
<1>2. PICK i \in Bad : \A k \in Bad : i <= k
  <2>1. Bad \in SUBSET Nat
    OBVIOUS
  <2> HIDE DEF Bad
  <2>2. QED
    BY <1>1, <2>1, MinInSet
<1>3. i \in 1 .. n /\ f[i] # g[i]
  BY <1>2
<1>4. i - 1 \in 1 .. n /\ i - 1 \notin Bad
  BY <1>2, <1>3 DEF SameSteps
<1>5. QED
  BY <1>3, <1>4 DEF SameSteps

\* FlattenSeq appends one sequence after the other.
LEMMA FlattenSteps ==
    ASSUME NEW T, NEW seqs \in Seq(Seq(T)), Len(seqs) > 0
    PROVE  \E f \in [1 .. Len(seqs) -> Seq(T)] :
              /\ f[1] = seqs[1] /\ f[Len(seqs)] = FlattenSeq(seqs)
              /\ \A i \in 2 .. Len(seqs) : f[i] = f[i - 1] \o seqs[i]
<1> DEFINE n == Len(seqs)
           step(i, t) == t \o seqs[i]
           F == [x \in (2 .. n) \X Seq(T) |-> step(x[1], x[2])]
           body(g) == [i \in 1 .. n |-> IF i = 1 THEN seqs[i] ELSE step(i, g[i - 1])]
           flatten == CHOOSE g : g = body(g)
<1>1. n \in Nat \ {0} /\ \A i \in 1 .. n : seqs[i] \in Seq(T)
  BY LenProperties, ElementOfSeq
<1>2. FlattenSeq(seqs) = flatten[n]
  BY <1>1 DEF FlattenSeq
<1>3. \A i \in 2 .. n, t \in Seq(T) : step(i, t) \in Seq(T)
  <2> SUFFICES ASSUME NEW i \in 2 .. n, NEW t \in Seq(T) PROVE t \o seqs[i] \in Seq(T)
    OBVIOUS
  <2>1. i \in 1 .. n
    BY <1>1
  <2>2. QED
    BY <1>1, <2>1, ConcatProperties
<1> HIDE DEF n, step
<1>4. F \in [(2 .. n) \X Seq(T) -> Seq(T)] /\ seqs[1] \in Seq(T)
  BY <1>1, <1>3
<1>5. \A i \in 2 .. n, t \in Seq(T) : F[<<i, t>>] = step(i, t)
  OBVIOUS
<1>6. \A g : /\ DOMAIN body(g) = 1 .. n /\ body(g)[1] = seqs[1]
             /\ \A i \in 2 .. n : body(g)[i] = step(i, g[i - 1])
  BY <1>1
<1> HIDE DEF F
<1>7. PICK f \in StepsBy(n, Seq(T), seqs[1], F) : TRUE
  BY <1>1, <1>4, StepsExist
<1>8. f \in [1 .. n -> Seq(T)] /\ f[1] = seqs[1]
      /\ \A i \in 2 .. n : f[i] = F[<<i, f[i - 1]>>]
  BY <1>7 DEF StepsBy
<1>9. \A i \in 2 .. n : f[i] = step(i, f[i - 1])
  <2> TAKE i \in 2 .. n
  <2>1. i - 1 \in 1 .. n
    BY <1>1
  <2>2. QED
    BY <1>5, <1>8, <2>1
<1>10. f = body(f)
  <2>1. \A i \in 1 .. n : f[i] = IF i = 1 THEN seqs[i] ELSE step(i, f[i - 1])
    <3> TAKE i \in 1 .. n
    <3>1. i = 1 \/ i \in 2 .. n
      BY <1>1
    <3>2. i # 1 => i \in 2 .. n
      BY <3>1
    <3>3. QED
      BY <1>8, <1>9, <3>2
  <2>2. f = [i \in 1 .. n |-> f[i]]
    BY <1>8
  <2>3. QED
    BY <2>1, <2>2
<1> HIDE DEF body
<1>11. flatten = body(flatten)
  BY <1>10, Zenon
<1> HIDE DEF flatten
<1>12. flatten[1] = f[1]
  BY <1>6, <1>8, <1>11
<1>13. \A i \in 2 .. n : flatten[i] = step(i, flatten[i - 1])
  BY <1>6, <1>11
<1>14. SameSteps(flatten, f, n)
  BY <1>9, <1>12, <1>13 DEF SameSteps
<1>15. f[n] = FlattenSeq(seqs)
  BY <1>1, <1>2, <1>14, StepsUnique
<1>16. \A i \in 2 .. n : f[i] = f[i - 1] \o seqs[i]
  BY <1>9 DEF step
<1>17. QED
  BY <1>8, <1>15, <1>16 DEF n

-----------------------------------------------------------------------------
(* Sequences whose elements are pairwise in a relation.                      *)

Ordered(s, E, R) ==
    s \in Seq(E) /\ \A i, j \in DOMAIN s : i < j => <<s[i], s[j]>> \in R

\* Every element of s is in the relation to every element of t.
Precede(s, t, R) == \A i \in DOMAIN s, j \in DOMAIN t : <<s[i], t[j]>> \in R

\* u is s followed by t.
Joins(u, s, t) ==
    /\ DOMAIN u = 1 .. Len(s) + Len(t)
    /\ \A i \in DOMAIN s : i \in DOMAIN u /\ u[i] = s[i]
    /\ \A i \in DOMAIN t : i + Len(s) \in DOMAIN u /\ u[i + Len(s)] = t[i]

LEMMA OrderedConcat ==
    ASSUME NEW E, NEW R, NEW s, NEW t, Ordered(s, E, R), Ordered(t, E, R), Precede(s, t, R)
    PROVE  Ordered(s \o t, E, R) /\ Joins(s \o t, s, t)
<1>1. /\ s \in Seq(E) /\ t \in Seq(E)
      /\ Len(s) \in Nat /\ Len(t) \in Nat
      /\ DOMAIN s = 1 .. Len(s) /\ DOMAIN t = 1 .. Len(t)
  BY LenProperties DEF Ordered
<1>2. /\ s \o t \in Seq(E) /\ DOMAIN (s \o t) = 1 .. Len(s) + Len(t)
      /\ \A i \in 1 .. Len(s) : (s \o t)[i] = s[i]
      /\ \A i \in Len(s) + 1 .. Len(s) + Len(t) : (s \o t)[i] = t[i - Len(s)]
  BY <1>1, ConcatProperties, LenProperties
<1>3. ASSUME NEW i \in DOMAIN (s \o t), i > Len(s)
      PROVE  i - Len(s) \in DOMAIN t /\ (s \o t)[i] = t[i - Len(s)]
  <2>1. i \in Len(s) + 1 .. Len(s) + Len(t)
    BY <1>1, <1>2, <1>3
  <2>2. QED
    BY <1>1, <1>2, <2>1
<1>4. ASSUME NEW i \in DOMAIN (s \o t), i <= Len(s)
      PROVE  i \in DOMAIN s /\ (s \o t)[i] = s[i]
  BY <1>1, <1>2, <1>4
<1>5. ASSUME NEW i \in DOMAIN (s \o t), NEW j \in DOMAIN (s \o t), i < j
      PROVE  <<(s \o t)[i], (s \o t)[j]>> \in R
  <2>1. i \in Nat /\ j \in Nat
    BY <1>1, <1>2
  <2>2. CASE j <= Len(s)
    BY <1>1, <1>4, <1>5, <2>1, <2>2 DEF Ordered
  <2>3. CASE i <= Len(s) /\ j > Len(s)
    BY <1>3, <1>4, <2>3 DEF Precede
  <2>4. CASE i > Len(s)
    <3>1. j > Len(s) /\ i - Len(s) < j - Len(s)
      BY <1>1, <1>5, <2>1, <2>4
    <3>2. /\ i - Len(s) \in DOMAIN t /\ (s \o t)[i] = t[i - Len(s)]
          /\ j - Len(s) \in DOMAIN t /\ (s \o t)[j] = t[j - Len(s)]
      BY <1>3, <2>4, <3>1
    <3>3. <<t[i - Len(s)], t[j - Len(s)]>> \in R
      BY <3>1, <3>2 DEF Ordered
    <3>4. QED
      BY <3>2, <3>3
  <2>5. j <= Len(s) \/ (i <= Len(s) /\ j > Len(s)) \/ i > Len(s)
    BY <1>1, <2>1
  <2>6. QED
    BY <2>2, <2>3, <2>4, <2>5
<1>6. ASSUME NEW i \in DOMAIN t
      PROVE  i + Len(s) \in DOMAIN (s \o t) /\ (s \o t)[i + Len(s)] = t[i]
  <2>1. i + Len(s) \in Len(s) + 1 .. Len(s) + Len(t) /\ (i + Len(s)) - Len(s) = i
    BY <1>1
  <2>2. (s \o t)[i + Len(s)] = t[(i + Len(s)) - Len(s)]
    BY <1>2, <2>1
  <2>3. QED
    BY <1>1, <1>2, <2>1, <2>2
<1>7. Ordered(s \o t, E, R)
  BY <1>2, <1>5 DEF Ordered
<1>8. Joins(s \o t, s, t)
  BY <1>1, <1>2, <1>6 DEF Joins
<1>9. QED
  BY <1>7, <1>8

LEMMA OrderedSub ==
    ASSUME NEW E, NEW R, NEW s, Ordered(s, E, R),
           NEW a \in 1 .. Len(s) + 1, NEW b \in a - 1 .. Len(s)
    PROVE  /\ Ordered(SubSeq(s, a, b), E, R)
           /\ DOMAIN SubSeq(s, a, b) = 1 .. b - a + 1 /\ Len(SubSeq(s, a, b)) = b - a + 1
           /\ \A i \in 1 .. b - a + 1 : i + a - 1 \in DOMAIN s /\ SubSeq(s, a, b)[i] = s[i + a - 1]
<1>1. s \in Seq(E) /\ Len(s) \in Nat /\ DOMAIN s = 1 .. Len(s)
  BY LenProperties DEF Ordered
<1>2. /\ SubSeq(s, a, b) \in Seq(E) /\ Len(SubSeq(s, a, b)) = b - a + 1
      /\ \A i \in 1 .. b - a + 1 : SubSeq(s, a, b)[i] = s[a + i - 1]
  BY <1>1, SubSeqProperties
<1>3. DOMAIN SubSeq(s, a, b) = 1 .. b - a + 1
  BY <1>2, LenProperties
<1>4. ASSUME NEW i \in 1 .. b - a + 1
      PROVE  i + a - 1 \in DOMAIN s /\ SubSeq(s, a, b)[i] = s[i + a - 1]
  <2>1. i + a - 1 = a + i - 1 /\ i + a - 1 \in 1 .. Len(s)
    BY <1>1
  <2>2. QED
    BY <1>1, <1>2, <2>1
<1>5. ASSUME NEW i \in 1 .. b - a + 1, NEW j \in 1 .. b - a + 1, i < j
      PROVE  <<SubSeq(s, a, b)[i], SubSeq(s, a, b)[j]>> \in R
  <2>1. i + a - 1 < j + a - 1
    BY <1>1, <1>5
  <2>2. <<s[i + a - 1], s[j + a - 1]>> \in R
    BY <1>4, <2>1 DEF Ordered
  <2>3. QED
    BY <1>4, <2>2
<1>6. QED
  BY <1>2, <1>3, <1>4, <1>5 DEF Ordered

\* Ordered sequences, each before the next, flatten to one that is ordered and has
\* their elements.
LEMMA OrderedFlatten ==
    ASSUME NEW E, NEW R, NEW seqs \in Seq(Seq(E)), Len(seqs) > 0,
           \A k \in DOMAIN seqs : Ordered(seqs[k], E, R),
           \A k, l \in DOMAIN seqs : k < l => Precede(seqs[k], seqs[l], R)
    PROVE  /\ Ordered(FlattenSeq(seqs), E, R)
           /\ \A k \in DOMAIN seqs : \A j \in DOMAIN seqs[k] :
                 \E i \in DOMAIN FlattenSeq(seqs) : FlattenSeq(seqs)[i] = seqs[k][j]
           /\ seqs[1] # <<>> => /\ 1 \in DOMAIN FlattenSeq(seqs)
                                /\ FlattenSeq(seqs)[1] = seqs[1][1]
<1> DEFINE n == Len(seqs)
<1>1. n \in Nat /\ n > 0 /\ DOMAIN seqs = 1 .. n /\ \A k \in 1 .. n : seqs[k] \in Seq(E)
  BY LenProperties, ElementOfSeq
<1>2. PICK f \in [1 .. n -> Seq(E)] :
         /\ f[1] = seqs[1] /\ f[n] = FlattenSeq(seqs)
         /\ \A i \in 2 .. n : f[i] = f[i - 1] \o seqs[i]
  BY FlattenSteps
<1> HIDE DEF n
<1> DEFINE From(t, m) == \A i \in DOMAIN t : \E k \in 1 .. m :
                            \E j \in DOMAIN seqs[k] : t[i] = seqs[k][j]
           Has(t, m) == \A k \in 1 .. m : \A j \in DOMAIN seqs[k] :
                            \E i \in DOMAIN t : t[i] = seqs[k][j]
           Begins(t) == seqs[1] # <<>> => 1 \in DOMAIN t /\ t[1] = seqs[1][1]
           P(m) == Ordered(f[m], E, R) /\ From(f[m], m) /\ Has(f[m], m) /\ Begins(f[m])
           Bad == {m \in 1 .. n : ~ P(m)}
<1>3. ASSUME NEW m \in 1 .. n, m = 1 \/ P(m - 1) PROVE P(m)
  <2>1. CASE m = 1
    <3>1. 1 \in 1 .. 1 /\ 1 \in DOMAIN seqs
      BY <1>1
    <3>2. From(seqs[1], 1) /\ Has(seqs[1], 1)
      BY <3>1
    <3>3. Begins(seqs[1])
      <4> SUFFICES ASSUME seqs[1] # <<>> PROVE 1 \in DOMAIN seqs[1]
        OBVIOUS
      <4>1. seqs[1] \in Seq(E) /\ Len(seqs[1]) \in Nat /\ DOMAIN seqs[1] = 1 .. Len(seqs[1])
        BY <1>1, <3>1, LenProperties
      <4>2. Len(seqs[1]) # 0
        BY <4>1, EmptySeq
      <4>3. QED
        BY <4>1, <4>2
    <3>4. QED
      BY <1>2, <2>1, <3>1, <3>2, <3>3
  <2>2. CASE m # 1
    <3> DEFINE s == f[m - 1]
               t == seqs[m]
    <3>1. m \in 2 .. n /\ m - 1 \in 1 .. n /\ m \in DOMAIN seqs
      BY <1>1, <2>2
    <3>2. f[m] = s \o t /\ P(m - 1)
      BY <1>2, <1>3, <2>2, <3>1
    <3>3. Ordered(t, E, R) /\ Ordered(s, E, R)
      BY <3>1, <3>2
    <3>4. Precede(s, t, R)
      <4> SUFFICES ASSUME NEW i \in DOMAIN s, NEW j \in DOMAIN t PROVE <<s[i], t[j]>> \in R
        BY DEF Precede
      <4>1. PICK k \in 1 .. m - 1 : \E h \in DOMAIN seqs[k] : s[i] = seqs[k][h]
        BY <3>2
      <4>2. k \in DOMAIN seqs /\ k < m
        BY <1>1, <3>1, <4>1
      <4>3. QED
        BY <3>1, <4>1, <4>2 DEF Precede
    <3> HIDE DEF s, t
    <3>5. Ordered(s \o t, E, R) /\ Joins(s \o t, s, t)
      BY <3>3, <3>4, OrderedConcat
    <3>6. ASSUME NEW i \in DOMAIN (s \o t)
          PROVE  \E k \in 1 .. m : \E j \in DOMAIN seqs[k] : (s \o t)[i] = seqs[k][j]
      <4>1. /\ Len(s) \in Nat /\ Len(t) \in Nat
            /\ DOMAIN s = 1 .. Len(s) /\ DOMAIN t = 1 .. Len(t)
        BY <3>3, LenProperties DEF Ordered
      <4>2. CASE i \in DOMAIN s
        <5>1. PICK k \in 1 .. m - 1 : \E h \in DOMAIN seqs[k] : s[i] = seqs[k][h]
          BY <3>2, <4>2 DEF s
        <5>2. k \in 1 .. m
          BY <5>1
        <5>3. QED
          BY <3>5, <4>2, <5>1, <5>2 DEF Joins
      <4>3. CASE i \notin DOMAIN s
        <5>1. i - Len(s) \in DOMAIN t /\ (i - Len(s)) + Len(s) = i
          BY <3>5, <4>1, <4>3 DEF Joins
        <5>2. (s \o t)[i] = t[i - Len(s)] /\ m \in 1 .. m
          BY <3>1, <3>5, <5>1 DEF Joins
        <5>3. QED
          BY <5>1, <5>2 DEF t
      <4>4. QED
        BY <4>2, <4>3
    <3>7. ASSUME NEW k \in 1 .. m, NEW j \in DOMAIN seqs[k]
          PROVE  \E i \in DOMAIN (s \o t) : (s \o t)[i] = seqs[k][j]
      <4>1. CASE k = m
        BY <3>5, <4>1 DEF t, Joins
      <4>2. CASE k # m
        <5>1. k \in 1 .. m - 1
          BY <3>1, <4>2
        <5>2. PICK i \in DOMAIN s : s[i] = seqs[k][j]
          BY <3>2, <5>1 DEF s
        <5>3. QED
          BY <3>5, <5>2 DEF Joins
      <4>3. QED
        BY <4>1, <4>2
    <3>8. Begins(s \o t)
      BY <3>2, <3>5 DEF s, Joins
    <3>9. From(s \o t, m) /\ Has(s \o t, m)
      BY <3>6, <3>7
    <3>10. f[m] = s \o t
      BY <3>2 DEF s, t
    <3> HIDE DEF From, Has, Begins
    <3>11. QED
      BY <3>5, <3>8, <3>9, <3>10
  <2>3. QED
    BY <2>1, <2>2
<1> HIDE DEF P
<1>4. ASSUME Bad # {} PROVE FALSE
  <2>1. PICK m \in Bad : \A k \in Bad : m <= k
    <3>1. Bad \in SUBSET Nat
      BY <1>1
    <3> HIDE DEF Bad
    <3>2. QED
      BY <1>4, <3>1, MinInSet
  <2>2. m \in 1 .. n /\ ~ P(m)
    OBVIOUS
  <2>3. m # 1 => m - 1 \in 1 .. n /\ m - 1 \notin Bad
    BY <1>1, <2>1, <2>2
  <2>4. m # 1 => P(m - 1)
    BY <2>3
  <2>5. QED
    BY <1>3, <2>2, <2>4
<1>5. P(n)
  <2>1. n \in 1 .. n
    BY <1>1
  <2>2. ~ P(n) => n \in Bad
    BY <2>1
  <2> HIDE DEF Bad
  <2>3. QED
    BY <1>4, <2>2
<1>6. QED
  BY <1>1, <1>2, <1>5 DEF P

-----------------------------------------------------------------------------
(* What flattening does to the first sequence, to pairs and to single elements. *)

\* What OrderedFlatten needs, and what it gives, each under a name: a citation with
\* large sequences in sight matches the names and not their bodies.
Stacked(seqs, E, R) ==
    /\ seqs \in Seq(Seq(E)) /\ Len(seqs) > 0
    /\ \A k \in DOMAIN seqs : Ordered(seqs[k], E, R)
    /\ \A k, l \in DOMAIN seqs : k < l => Precede(seqs[k], seqs[l], R)
Flattens(seqs, flat, E, R) ==
    /\ Ordered(flat, E, R)
    /\ \A k \in DOMAIN seqs : \A j \in DOMAIN seqs[k] :
          \E i \in DOMAIN flat : flat[i] = seqs[k][j]
    /\ seqs[1] # <<>> => 1 \in DOMAIN flat /\ flat[1] = seqs[1][1]

\* OrderedFlatten under these names.
LEMMA StackedFlattens ==
    ASSUME NEW E, NEW R, NEW seqs, Stacked(seqs, E, R)
    PROVE  Flattens(seqs, FlattenSeq(seqs), E, R)
<1>1. seqs \in Seq(Seq(E)) /\ Len(seqs) > 0
  BY Zenon DEF Stacked
<1>2. \A k \in DOMAIN seqs : Ordered(seqs[k], E, R)
  BY Zenon DEF Stacked
<1>3. \A k, l \in DOMAIN seqs : k < l => Precede(seqs[k], seqs[l], R)
  BY Zenon DEF Stacked
<1>4. QED
  BY <1>1, <1>2, <1>3, OrderedFlatten, Zenon DEF Flattens

LEMMA FlattenEmpty == FlattenSeq(<< >>) = << >>
  BY EmptySeq DEF FlattenSeq

LEMMA FlattenOne ==
    ASSUME NEW T, NEW s \in Seq(Seq(T)), Len(s) = 1
    PROVE  FlattenSeq(s) = s[1]
<1>1. Len(s) > 0
  OBVIOUS
<1>2. PICK f \in [1 .. Len(s) -> Seq(T)] :
         /\ f[1] = s[1] /\ f[Len(s)] = FlattenSeq(s)
         /\ \A i \in 2 .. Len(s) : f[i] = f[i - 1] \o s[i]
  BY <1>1, FlattenSteps
<1>3. QED
  BY <1>2

Regroups(x, y, z) == (x \o y) \o z = x \o (y \o z)

LEMMA ThreeConcat ==
    ASSUME NEW T, NEW x \in Seq(T), NEW y \in Seq(T), NEW z \in Seq(T)
    PROVE  Regroups(x, y, z)
<1> DEFINE u == x \o y
           v == y \o z
           a == Len(x)
           b == Len(y)
           c == Len(z)
<1>1. a \in Nat /\ b \in Nat /\ c \in Nat
  BY LenProperties
<1>2. /\ u \in Seq(T) /\ Len(u) = a + b
      /\ \A i \in 1 .. a + b : u[i] = IF i <= a THEN x[i] ELSE y[i - a]
  BY ConcatProperties
<1>3. /\ v \in Seq(T) /\ Len(v) = b + c
      /\ \A i \in 1 .. b + c : v[i] = IF i <= b THEN y[i] ELSE z[i - b]
  BY ConcatProperties
<1> HIDE DEF u, v
<1>4. /\ u \o z \in Seq(T) /\ Len(u \o z) = a + b + c
      /\ \A i \in 1 .. a + b + c : (u \o z)[i] = IF i <= a + b THEN u[i] ELSE z[i - (a + b)]
  <2>1. /\ u \o z \in Seq(T) /\ Len(u \o z) = Len(u) + Len(z)
        /\ \A i \in 1 .. Len(u) + Len(z) :
              (u \o z)[i] = IF i <= Len(u) THEN u[i] ELSE z[i - Len(u)]
    <3>1. u \in Seq(T)
      BY <1>2
    <3>2. QED
      BY <3>1, ConcatProperties, Zenon
  <2> HIDE DEF a, b
  <2>2. QED
    BY <1>2, <2>1
<1>5. /\ x \o v \in Seq(T) /\ Len(x \o v) = a + (b + c)
      /\ \A i \in 1 .. a + (b + c) : (x \o v)[i] = IF i <= a THEN x[i] ELSE v[i - a]
  <2>1. /\ x \o v \in Seq(T) /\ Len(x \o v) = Len(x) + Len(v)
        /\ \A i \in 1 .. Len(x) + Len(v) :
              (x \o v)[i] = IF i <= Len(x) THEN x[i] ELSE v[i - Len(x)]
    <3>1. v \in Seq(T)
      BY <1>3
    <3>2. QED
      BY <3>1, ConcatProperties, Zenon
  <2> HIDE DEF b, c
  <2>2. QED
    BY <1>3, <2>1
<1> HIDE DEF a, b, c
<1>6. ASSUME NEW i \in 1 .. a + b + c PROVE (u \o z)[i] = (x \o v)[i]
  <2>1. i \in 1 .. a + (b + c) /\ i \in Nat
    BY <1>1
  <2>2. CASE i <= a
    <3>1. i \in 1 .. a + b /\ i <= a + b
      BY <1>1, <2>1, <2>2
    <3>2. QED
      BY <1>2, <1>4, <1>5, <2>1, <2>2, <3>1
  <2>3. CASE i > a /\ i <= a + b
    <3>1. i \in 1 .. a + b /\ i - a \in 1 .. b + c /\ i - a <= b /\ ~ (i <= a)
      BY <1>1, <2>1, <2>3
    <3>2. (u \o z)[i] = y[i - a]
      BY <1>2, <1>4, <2>3, <3>1
    <3>3. (x \o v)[i] = v[i - a]
      BY <1>5, <2>1, <3>1
    <3>4. v[i - a] = y[i - a]
      BY <1>3, <3>1
    <3>5. QED
      BY <3>2, <3>3, <3>4
  <2>4. CASE i > a + b
    <3>1. /\ i - a \in 1 .. b + c /\ ~ (i - a <= b) /\ ~ (i <= a) /\ ~ (i <= a + b)
          /\ (i - a) - b = i - (a + b)
      BY <1>1, <2>1, <2>4
    <3>2. (u \o z)[i] = z[i - (a + b)]
      BY <1>4, <3>1
    <3>3. (x \o v)[i] = v[i - a]
      BY <1>5, <2>1, <3>1
    <3>4. v[i - a] = z[(i - a) - b]
      BY <1>3, <3>1
    <3>5. QED
      BY <3>1, <3>2, <3>3, <3>4
  <2>5. i <= a \/ (i > a /\ i <= a + b) \/ i > a + b
    BY <1>1, <2>1
  <2>6. QED
    BY <2>2, <2>3, <2>4, <2>5, Zenon
<1>7. a + (b + c) = a + b + c
  BY <1>1
<1> DEFINE p == u \o z
           q == x \o v
<1>8. p \in Seq(T) /\ q \in Seq(T) /\ Len(p) = Len(q) /\ \A i \in 1 .. Len(p) : p[i] = q[i]
  BY <1>4, <1>5, <1>6, <1>7
<1> HIDE DEF p, q
<1>9. p = q
  BY <1>8, SeqEqual
<1>10. QED
  BY <1>9 DEF p, q, u, v, Regroups

\* The elements of the first sequence come first.
LEMMA FlattenHead ==
    ASSUME NEW T, NEW s \in Seq(Seq(T)), s # << >>
    PROVE  /\ Head(s) \in Seq(T) /\ Tail(s) \in Seq(Seq(T))
           /\ FlattenSeq(s) \in Seq(T) /\ FlattenSeq(Tail(s)) \in Seq(T)
           /\ FlattenSeq(s) = Head(s) \o FlattenSeq(Tail(s))
<1> DEFINE n == Len(s)
           t == Tail(s)
<1>1. n \in Nat \ {0} /\ Len(s) > 0 /\ \A i \in 1 .. n : s[i] \in Seq(T)
  BY EmptySeq, ElementOfSeq, LenProperties
<1>2. /\ Head(s) \in Seq(T) /\ t \in Seq(Seq(T)) /\ Len(t) = n - 1
      /\ \A i \in 1 .. n - 1 : t[i] = s[i + 1]
  BY HeadTailProperties
<1>3. Head(s) = s[1]
  OBVIOUS
<1>4. PICK f \in [1 .. n -> Seq(T)] :
         /\ f[1] = s[1] /\ f[n] = FlattenSeq(s)
         /\ \A i \in 2 .. n : f[i] = f[i - 1] \o s[i]
  BY <1>1, FlattenSteps
<1>5. FlattenSeq(s) \in Seq(T)
  BY <1>1, <1>4
<1> HIDE DEF n, t
<1>6. CASE n = 1
  <2>1. Len(t) = 0
    BY <1>1, <1>2, <1>6
  <2>2. t = << >>
    BY <1>2, <2>1, EmptySeq
  <2>3. FlattenSeq(t) = << >>
    BY <2>2, FlattenEmpty
  <2>4. s[1] \o << >> = s[1] /\ << >> \in Seq(T)
    BY <1>2, <1>3, ConcatEmptySeq, EmptySeq
  <2>5. FlattenSeq(s) = s[1]
    BY <1>4, <1>6
  <2>6. QED
    BY <1>2, <1>3, <1>5, <2>3, <2>4, <2>5 DEF t
<1>7. CASE n # 1
  <2>1. n - 1 \in Nat \ {0} /\ Len(t) > 0
    BY <1>1, <1>2, <1>7
  <2>2. PICK g \in [1 .. n - 1 -> Seq(T)] :
           /\ g[1] = t[1] /\ g[n - 1] = FlattenSeq(t)
           /\ \A i \in 2 .. n - 1 : g[i] = g[i - 1] \o t[i]
    <3>1. \E g \in [1 .. Len(t) -> Seq(T)] :
             /\ g[1] = t[1] /\ g[Len(t)] = FlattenSeq(t)
             /\ \A i \in 2 .. Len(t) : g[i] = g[i - 1] \o t[i]
      BY <1>2, <2>1, FlattenSteps
    <3>2. Len(t) = n - 1
      BY <1>2
    <3>3. QED
      BY <3>1, <3>2
  <2> DEFINE a == [i \in 1 .. n - 1 |-> f[i + 1]]
             b == [i \in 1 .. n - 1 |-> s[1] \o g[i]]
  <2>3. a[1] = b[1]
    <3>0. 1 \in 1 .. n - 1 /\ 2 \in 2 .. n /\ 2 - 1 = 1
      BY <1>1, <2>1
    <3>1. a[1] = f[2] /\ b[1] = s[1] \o t[1] /\ t[1] = s[2]
      BY <1>2, <2>2, <3>0
    <3>2. f[2] = f[1] \o s[2]
      BY <1>4, <3>0
    <3>3. QED
      BY <1>4, <3>1, <3>2
  <2>4. ASSUME NEW i \in 2 .. n - 1, a[i - 1] = b[i - 1] PROVE a[i] = b[i]
    <3>1. i - 1 \in 1 .. n - 1 /\ i + 1 \in 2 .. n /\ i \in 1 .. n - 1 /\ (i + 1) - 1 = i
          /\ (i - 1) + 1 = i
      BY <1>1
    <3>2. a[i] = f[i] \o s[i + 1]
      BY <1>4, <3>1
    <3>3. f[i] = s[1] \o g[i - 1]
      BY <2>4, <3>1
    <3>4. b[i] = s[1] \o (g[i - 1] \o s[i + 1])
      BY <1>2, <2>2, <3>1
    <3>5. s[1] \in Seq(T) /\ g[i - 1] \in Seq(T) /\ s[i + 1] \in Seq(T)
      BY <1>1, <2>2, <3>1
    <3>6. Regroups(s[1], g[i - 1], s[i + 1])
      BY <3>5, ThreeConcat
    <3> HIDE DEF a, b
    <3>7. QED
      BY <3>2, <3>3, <3>4, <3>6 DEF Regroups
  <2> DEFINE m == n - 1
  <2>5. SameSteps(a, b, m)
    <3> HIDE DEF a, b
    <3> QED
      BY <2>3, <2>4 DEF SameSteps
  <2>6. m \in Nat \ {0} /\ m \in 1 .. n - 1 /\ m + 1 = n
    BY <1>1, <2>1
  <2>7. a[m] = f[n] /\ b[m] = s[1] \o g[m]
    BY <2>6
  <2>8. a[m] = b[m]
    <3> HIDE DEF a, b, m
    <3> QED
      BY <2>5, <2>6, StepsUnique
  <2>9. f[n] = s[1] \o g[n - 1]
    BY <2>7, <2>8
  <2>10. FlattenSeq(t) \in Seq(T)
    BY <2>2, <2>6
  <2>11. QED
    BY <1>2, <1>3, <1>4, <1>5, <2>2, <2>9, <2>10 DEF t
<1>8. QED
  BY <1>6, <1>7

\* Sequences of at most two elements flatten to at most twice their number.
LEMMA FlattenPairs ==
    ASSUME NEW T, NEW s \in Seq(Seq(T)), \A k \in DOMAIN s : Len(s[k]) <= 2
    PROVE  FlattenSeq(s) \in Seq(T) /\ Len(FlattenSeq(s)) <= 2 * Len(s)
<1> DEFINE n == Len(s)
<1>1. n \in Nat /\ DOMAIN s = 1 .. n /\ \A i \in 1 .. n : s[i] \in Seq(T)
  BY LenProperties, ElementOfSeq
<1>2. CASE n = 0
  <2>1. s = << >> /\ << >> \in Seq(T)
    BY <1>2, EmptySeq
  <2>2. FlattenSeq(s) = << >> /\ Len(<< >>) = 0
    BY <2>1, FlattenEmpty
  <2>3. Len(s) = 0
    BY <1>2
  <2> HIDE DEF n
  <2>4. FlattenSeq(s) \in Seq(T) /\ Len(FlattenSeq(s)) = 0
    BY <2>1, <2>2, Zenon
  <2>5. QED
    BY <2>3, <2>4
<1>3. CASE n # 0
  <2>0. Len(s) > 0
    BY <1>1, <1>3
  <2>1. PICK f \in [1 .. n -> Seq(T)] :
           /\ f[1] = s[1] /\ f[n] = FlattenSeq(s)
           /\ \A i \in 2 .. n : f[i] = f[i - 1] \o s[i]
    BY <2>0, FlattenSteps
  <2> HIDE DEF n
  <2> DEFINE Bad == {m \in 1 .. n : Len(f[m]) > 2 * m}
  <2>2. ASSUME Bad # {} PROVE FALSE
    <3>1. PICK m \in Bad : \A k \in Bad : m <= k
      <4>1. Bad \in SUBSET Nat
        BY <1>1
      <4> HIDE DEF Bad
      <4>2. QED
        BY <2>2, <4>1, MinInSet
    <3>2. m \in 1 .. n /\ Len(f[m]) > 2 * m
      OBVIOUS
    <3>3. Len(s[m]) \in Nat /\ Len(s[m]) <= 2
      BY <1>1, <3>2, LenProperties
    <3>4. m # 1
      BY <2>1, <3>2, <3>3
    <3>5. m - 1 \in 1 .. n /\ m - 1 \notin Bad
      BY <1>1, <3>1, <3>2, <3>4
    <3>6. Len(f[m - 1]) <= 2 * (m - 1) /\ f[m - 1] \in Seq(T) /\ Len(f[m - 1]) \in Nat
      <4>1. f[m - 1] \in Seq(T)
        BY <2>1, <3>5
      <4>2. Len(f[m - 1]) \in Nat
        BY <4>1, LenProperties
      <4>3. QED
        BY <3>5, <4>1, <4>2
    <3>7. Len(f[m]) = Len(f[m - 1]) + Len(s[m])
      <4>1. m \in 2 .. n /\ s[m] \in Seq(T)
        BY <1>1, <3>2, <3>4
      <4>2. f[m] = f[m - 1] \o s[m]
        BY <2>1, <4>1
      <4>3. Len(f[m - 1] \o s[m]) = Len(f[m - 1]) + Len(s[m])
        BY <3>6, <4>1, ConcatProperties, Zenon
      <4>4. QED
        BY <4>2, <4>3
    <3>8. QED
      BY <1>1, <3>2, <3>3, <3>6, <3>7
  <2>3. n \in 1 .. n /\ n \notin Bad
    <3>1. n \in 1 .. n
      BY <1>1, <1>3
    <3> HIDE DEF Bad
    <3>2. QED
      BY <2>2, <3>1
  <2>4. Len(f[n]) \in Nat /\ f[n] \in Seq(T)
    BY <2>1, <2>3, LenProperties
  <2>5. QED
    BY <1>1, <2>1, <2>3, <2>4 DEF n
<1>4. QED
  BY <1>2, <1>3

\* Sequences of one element flatten to these elements.
LEMMA FlattenSingles ==
    ASSUME NEW T, NEW s \in Seq(T)
    PROVE  FlattenSeq([k \in DOMAIN s |-> << s[k] >>]) = s
<1> DEFINE n == Len(s)
           u == [k \in DOMAIN s |-> << s[k] >>]
<1>1. n \in Nat /\ DOMAIN s = 1 .. n /\ \A i \in 1 .. n : s[i] \in T
  BY LenProperties, ElementOfSeq
<1>2. u \in Seq(Seq(T)) /\ Len(u) = n
  <2>1. \A i \in 1 .. n : << s[i] >> \in Seq(T)
    BY <1>1
  <2>2. QED
    BY <1>1, <2>1
<1>3. CASE n = 0
  <2>1. s = << >> /\ u = << >>
    BY <1>2, <1>3, EmptySeq
  <2>2. QED
    BY <2>1, FlattenEmpty
<1>4. CASE n # 0
  <2>1. PICK f \in [1 .. n -> Seq(T)] :
           /\ f[1] = u[1] /\ f[n] = FlattenSeq(u)
           /\ \A i \in 2 .. n : f[i] = f[i - 1] \o u[i]
    <3>1. Len(u) > 0 /\ u \in Seq(Seq(T)) /\ Len(u) = n
      BY <1>1, <1>2, <1>4
    <3> HIDE DEF u, n
    <3>2. \E f \in [1 .. Len(u) -> Seq(T)] :
             /\ f[1] = u[1] /\ f[Len(u)] = FlattenSeq(u)
             /\ \A i \in 2 .. Len(u) : f[i] = f[i - 1] \o u[i]
      BY <3>1, FlattenSteps
    <3>3. QED
      BY <3>1, <3>2
  <2>2. \A i \in 1 .. n : u[i] = << s[i] >>
    BY <1>1
  <2> HIDE DEF u, n
  <2> DEFINE g == [i \in 1 .. n |-> SubSeq(s, 1, i)]
  <2>3. f[1] = g[1]
    <3>1. 1 \in 1 .. n
      BY <1>1, <1>4
    <3>2. SubSeq(s, 1, 1) = << s[1] >>
      <4>1. \A i \in 1 .. 1 : s[i] \in T
        BY <1>1, <3>1
      <4>2. /\ SubSeq(s, 1, 1) \in Seq(T) /\ Len(SubSeq(s, 1, 1)) = 1
            /\ \A i \in 1 .. 1 : SubSeq(s, 1, 1)[i] = s[i]
        BY <4>1, SubSeqProperties
      <4>3. << s[1] >> \in Seq(T) /\ Len(<< s[1] >>) = 1 /\ << s[1] >>[1] = s[1]
        BY <4>1
      <4> DEFINE a == SubSeq(s, 1, 1)
                 b == << s[1] >>
      <4>4. a \in Seq(T) /\ b \in Seq(T) /\ Len(a) = Len(b) /\ \A i \in 1 .. Len(a) : a[i] = b[i]
        BY <4>2, <4>3
      <4> HIDE DEF a, b
      <4>5. a = b
        BY <4>4, SeqEqual
      <4>6. QED
        BY <4>5 DEF a, b
    <3>3. QED
      BY <2>1, <2>2, <3>1, <3>2
  <2>4. ASSUME NEW i \in 2 .. n, f[i - 1] = g[i - 1] PROVE f[i] = g[i]
    <3>1. i \in 1 .. n /\ i - 1 \in 1 .. n /\ i \in 1 .. i /\ 1 \in 1 .. Len(s) /\ i \in 1 .. Len(s)
      BY <1>1 DEF n
    <3>2. SubSeq(s, 1, i) = SubSeq(s, 1, i - 1) \o << s[i] >>
      BY <3>1, SubSeqRecursiveSecond
    <3>3. f[i] = f[i - 1] \o << s[i] >>
      BY <2>1, <2>2, <3>1
    <3>4. QED
      BY <2>4, <3>1, <3>2, <3>3
  <2>5. SameSteps(f, g, n)
    <3> HIDE DEF g
    <3> QED
      BY <2>3, <2>4 DEF SameSteps
  <2>6. n \in Nat \ {0} /\ n \in 1 .. n
    BY <1>1, <1>4
  <2>7. f[n] = g[n]
    <3> HIDE DEF g
    <3> QED
      BY <2>5, <2>6, StepsUnique
  <2>8. g[n] = SubSeq(s, 1, Len(s))
    BY <2>6 DEF n
  <2>9. QED
    BY <2>1, <2>7, <2>8, SubSeqFull DEF u
<1>5. QED
  BY <1>3, <1>4

-----------------------------------------------------------------------------
(* Beginnings of sequences.                                                 *)

\* What is cut off leaves a beginning, and so does what is appended.
LEMMA PrefixConcat ==
    ASSUME NEW T, NEW s \in Seq(T), NEW t \in Seq(T)
    PROVE  IsPrefix(s, s \o t)
<1> DEFINE n == Len(s)
<1>1. n \in Nat /\ Len(t) \in Nat
  BY LenProperties
<1>2. /\ s \o t \in Seq(T) /\ Len(s \o t) = n + Len(t)
      /\ \A i \in 1 .. n + Len(t) : (s \o t)[i] = IF i <= n THEN s[i] ELSE t[i - n]
  BY ConcatProperties
<1>3. \A i \in 1 .. n : s[i] \in T /\ (s \o t)[i] = s[i]
  BY <1>1, <1>2, ElementOfSeq
<1> HIDE DEF n
<1> DEFINE a == SubSeq(s, 1, n)
           b == SubSeq(s \o t, 1, n)
<1>4. /\ a \in Seq(T) /\ Len(a) = n /\ \A i \in 1 .. n : a[i] = s[i]
  BY <1>1, <1>3, SubSeqProperties
<1>5. /\ b \in Seq(T) /\ Len(b) = n /\ \A i \in 1 .. n : b[i] = (s \o t)[i]
  <2>1. \A i \in 1 .. n : (s \o t)[i] \in T
    BY <1>3
  <2> DEFINE v == s \o t
  <2> HIDE DEF v
  <2>2. \A i \in 1 .. n : v[i] \in T
    BY <2>1 DEF v
  <2>3. /\ SubSeq(v, 1, n) \in Seq(T) /\ Len(SubSeq(v, 1, n)) = n
        /\ \A i \in 1 .. n : SubSeq(v, 1, n)[i] = v[i]
    BY <1>1, <2>2, SubSeqProperties
  <2>4. QED
    BY <2>3 DEF v
<1> HIDE DEF a, b
<1>6. a = b
  BY <1>3, <1>4, <1>5, SeqEqual
<1>7. n <= Len(s \o t)
  BY <1>1, <1>2
<1>8. QED
  BY <1>6, <1>7 DEF IsPrefix, a, b, n

LEMMA PrefixSub ==
    ASSUME NEW T, NEW s \in Seq(T), NEW m \in 0 .. Len(s)
    PROVE  SubSeq(s, 1, m) \in Seq(T) /\ IsPrefix(SubSeq(s, 1, m), s)
<1>1. Len(s) \in Nat /\ \A i \in 1 .. m : s[i] \in T
  BY LenProperties, ElementOfSeq
<1>2. \A i \in m + 1 .. Len(s) : s[i] \in T
  BY <1>1, ElementOfSeq
<1>3. SubSeq(s, 1, m) \in Seq(T) /\ SubSeq(s, m + 1, Len(s)) \in Seq(T)
  <2>1. SubSeq(s, 1, m) \in Seq(T)
    BY <1>1, SubSeqProperties
  <2>2. SubSeq(s, m + 1, Len(s)) \in Seq(T)
    BY <1>1, <1>2, SubSeqProperties
  <2>3. QED
    BY <2>1, <2>2
<1>4. SubSeq(s, 1, m) \o SubSeq(s, m + 1, Len(s)) = s
  <2>1. /\ 1 \in 1 .. Len(s) + 1 /\ m \in 1 - 1 .. Len(s) /\ Len(s) \in m .. Len(s)
    BY <1>1
  <2>2. SubSeq(s, 1, m) \o SubSeq(s, m + 1, Len(s)) = SubSeq(s, 1, Len(s))
    BY <2>1, ConcatAdjacentSubSeq
  <2>3. QED
    BY <2>2, SubSeqFull
<1>5. QED
  BY <1>3, <1>4, PrefixConcat

LEMMA PrefixTransitive ==
    ASSUME NEW T, NEW s \in Seq(T), NEW t \in Seq(T), NEW u \in Seq(T),
           IsPrefix(s, t), IsPrefix(t, u)
    PROVE  IsPrefix(s, u)
<1>1. Len(s) \in Nat /\ Len(t) \in Nat /\ Len(u) \in Nat
  BY LenProperties
<1>2. ASSUME NEW v \in Seq(T), NEW w \in Seq(T), IsPrefix(v, w)
      PROVE  \A i \in 1 .. Len(v) : v[i] = w[i]
  <2>1. Len(v) \in Nat /\ Len(w) \in Nat /\ Len(v) <= Len(w)
    BY <1>2, LenProperties DEF IsPrefix
  <2>2. \A i \in 1 .. Len(v) : v[i] \in T /\ w[i] \in T
    BY <2>1, ElementOfSeq
  <2>3. \A i \in 1 .. Len(v) : SubSeq(v, 1, Len(v))[i] = v[i]
    BY <2>1, <2>2, SubSeqProperties
  <2>4. \A i \in 1 .. Len(v) : SubSeq(w, 1, Len(v))[i] = w[i]
    BY <2>1, <2>2, SubSeqProperties
  <2>5. QED
    BY <1>2, <2>3, <2>4 DEF IsPrefix
<1>3. Len(s) <= Len(t) /\ Len(t) <= Len(u)
  BY DEF IsPrefix
<1>4. \A i \in 1 .. Len(s) : s[i] = u[i]
  BY <1>1, <1>2, <1>3
<1>5. \A i \in 1 .. Len(s) : s[i] \in T /\ u[i] \in T
  BY <1>1, <1>3, ElementOfSeq
<1> DEFINE n == Len(s)
<1>6. n \in Nat /\ \A i \in 1 .. n : s[i] \in T /\ u[i] \in T /\ s[i] = u[i]
  BY <1>1, <1>4, <1>5
<1> HIDE DEF n
<1>7. /\ SubSeq(s, 1, n) \in Seq(T) /\ Len(SubSeq(s, 1, n)) = n
      /\ \A i \in 1 .. n : SubSeq(s, 1, n)[i] = s[i]
  BY <1>6, SubSeqProperties
<1>8. /\ SubSeq(u, 1, n) \in Seq(T) /\ Len(SubSeq(u, 1, n)) = n
      /\ \A i \in 1 .. n : SubSeq(u, 1, n)[i] = u[i]
  BY <1>6, SubSeqProperties
<1> DEFINE a == SubSeq(s, 1, n)
           b == SubSeq(u, 1, n)
<1>9. a \in Seq(T) /\ b \in Seq(T) /\ Len(a) = Len(b) /\ \A i \in 1 .. Len(a) : a[i] = b[i]
  BY <1>6, <1>7, <1>8
<1> HIDE DEF a, b
<1>10. a = b
  BY <1>9, SeqEqual
<1>11. QED
  BY <1>1, <1>3, <1>10 DEF a, b, n, IsPrefix
=============================================================================
