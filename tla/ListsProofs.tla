----------------------------- MODULE ListsProofs -----------------------------
(***************************************************************************)
(* Lemmas about Lists and the lists of the community modules, for the      *)
(* proofs of the modules that work on lists.                               *)
(***************************************************************************)
EXTENDS Lists, SequencesExt, FiniteSetTheorems, WellFoundedInduction, TLAPS

-----------------------------------------------------------------------------
\* Naturals

\* A set of naturals has a least element.
LEMMA LeastNat ==
    ASSUME NEW S, S \subseteq Nat, S # {}
    PROVE  \E m \in S : \A n \in S : m <= n
<1> DEFINE less == OpToRel(<, Nat)
<1>1. IsWellFoundedOn(less, Nat)
  BY NatLessThanWellFounded
<1>2. \A m, n \in Nat : m < n => <<m, n>> \in less
  BY DEF OpToRel
<1> HIDE DEF less
<1>3. PICK m \in S : \A n \in S : ~ (<<n, m>> \in less)
  BY <1>1, WFMin
<1>4. \A n \in S : ~ (n < m)
  BY <1>2, <1>3
<1> QED
  BY <1>4

\* What holds of zero, and of each number's successor below a bound, holds up to
\* that bound.
LEMMA Counting ==
    ASSUME NEW S, NEW n \in Nat, 0 \in S, \A k \in 0 .. n - 1 : k \in S => k + 1 \in S
    PROVE  \A k \in 0 .. n : k \in S
<1> DEFINE bad == (0 .. n) \ S
<1>1. SUFFICES ASSUME bad # {} PROVE FALSE
  OBVIOUS
<1>2. PICK m \in bad : \A k \in bad : m <= k
  <2>1. bad \subseteq Nat
    OBVIOUS
  <2> QED
    BY <1>1, <2>1, LeastNat
<1>3. m \in 1 .. n /\ m - 1 \in 0 .. n - 1 /\ m - 1 \notin bad
  BY <1>2
<1>4. m - 1 \in S
  BY <1>3
<1> QED
  BY <1>2, <1>3, <1>4

-----------------------------------------------------------------------------
\* Positions in order

\* In a finite set of naturals each element has a rank of its own.
LEMMA RankTells ==
    ASSUME NEW S, S \subseteq Nat, IsFiniteSet(S)
    PROVE  /\ \A x \in S : Cardinality({y \in S : y < x}) \in 0 .. Cardinality(S) - 1
           /\ \A x, z \in S : x # z =>
                Cardinality({y \in S : y < x}) # Cardinality({y \in S : y < z})
<1> DEFINE n == Cardinality(S)
           below(x) == {y \in S : y < x}
<1>1. n \in Nat
  BY FS_CardinalityType
<1>2. ASSUME NEW x \in S
      PROVE  IsFiniteSet(below(x)) /\ Cardinality(below(x)) \in 0 .. n - 1
  <2>1. IsFiniteSet(S \ {x}) /\ Cardinality(S \ {x}) = n - 1
    BY FS_RemoveElement
  <2>2. below(x) \in SUBSET (S \ {x})
    OBVIOUS
  <2>3. IsFiniteSet(below(x)) /\ Cardinality(below(x)) <= n - 1
    BY <2>1, <2>2, FS_Subset
  <2>4. Cardinality(below(x)) \in Nat
    BY <2>3, FS_CardinalityType
  <2> QED
    BY <1>1, <2>3, <2>4
<1>3. ASSUME NEW x \in S, NEW z \in S, x < z
      PROVE  Cardinality(below(x)) # Cardinality(below(z))
  <2>1. below(x) \in SUBSET below(z) /\ below(x) # below(z)
    <3>1. x \in below(z) /\ x \notin below(x)
      BY <1>3
    <3>2. \A y \in below(x) : y \in below(z)
      BY <1>3
    <3> QED
      BY <3>1, <3>2
  <2> QED
    BY <1>2, <2>1, FS_Subset
<1>4. \A x, z \in S : x # z => x < z \/ z < x
  OBVIOUS
<1> HIDE DEF below, n
<1>5. \A x, z \in S : x # z => Cardinality(below(x)) # Cardinality(below(z))
  BY <1>3, <1>4
<1> QED
  BY <1>2, <1>5 DEF below, n

\* Every rank is some element's.
LEMMA RankIsTaken ==
    ASSUME NEW S, S \subseteq Nat, IsFiniteSet(S), NEW k \in 0 .. Cardinality(S) - 1
    PROVE  \E x \in S : Cardinality({y \in S : y < x}) = k
<1> DEFINE n == Cardinality(S)
           below(x) == {y \in S : y < x}
           rank == [x \in S |-> Cardinality(below(x))]
<1>1. n \in Nat
  BY FS_CardinalityType
<1>2. /\ \A x \in S : Cardinality(below(x)) \in 0 .. n - 1
      /\ \A x, z \in S : x # z => Cardinality(below(x)) # Cardinality(below(z))
  BY RankTells
<1>3. rank \in [S -> 0 .. n - 1] /\ \A x, z \in S : rank[x] = rank[z] => x = z
  <2> HIDE DEF below, n
  <2> QED
    BY <1>2
<1>4. rank \in Injection(S, 0 .. n - 1)
  <2> HIDE DEF rank, n
  <2> QED
    BY <1>3 DEF Injection, IsInjective
<1>5. IsFiniteSet(0 .. n - 1) /\ Cardinality(0 .. n - 1) = n
  <2> HIDE DEF n
  <2>1. 0 \in Int /\ n - 1 \in Int
    BY <1>1
  <2>2. IsFiniteSet(0 .. n - 1) /\ Cardinality(0 .. n - 1) = IF 0 > n - 1 THEN 0 ELSE (n - 1) - 0 + 1
    BY <2>1, FS_Interval, Zenon
  <2> QED
    BY <1>1, <2>2
<1>6. rank \in Surjection(S, 0 .. n - 1)
  BY <1>4, <1>5, FS_Injection
<1>7. PICK x \in S : rank[x] = k
  BY <1>6 DEF Surjection
<1> QED
  BY <1>7

LEMMA AscendingType ==
    ASSUME NEW T, T \subseteq Nat, IsFiniteSet(T)
    PROVE  /\ Ascending(T) \in Seq(T)
           /\ Ascending(T) \in [1 .. Cardinality(T) -> T]
           /\ Len(Ascending(T)) = Cardinality(T) /\ Cardinality(T) \in Nat
<1>1. Cardinality(T) \in Nat
  BY FS_CardinalityType
<1>2. ASSUME NEW k \in 1 .. Cardinality(T)
      PROVE  (CHOOSE x \in T : Cardinality({y \in T : y < x}) = k - 1) \in T
  <2>1. \E x \in T : Cardinality({y \in T : y < x}) = k - 1
    <3>1. k - 1 \in 0 .. Cardinality(T) - 1
      BY <1>1
    <3> QED
      BY <3>1, RankIsTaken, Zenon
  <2> QED
    BY <2>1
<1>3. Ascending(T) \in [1 .. Cardinality(T) -> T]
  BY <1>2 DEF Ascending
<1> QED
  BY <1>1, <1>3

\* Each element has its place, and one only.
LEMMA AscendingOnto ==
    ASSUME NEW T, T \subseteq Nat, IsFiniteSet(T)
    PROVE  /\ \A x \in T : \E k \in 1 .. Cardinality(T) : Ascending(T)[k] = x
           /\ \A k, l \in 1 .. Cardinality(T) : Ascending(T)[k] = Ascending(T)[l] => k = l
<1> DEFINE n == Cardinality(T)
           Rank(x) == Cardinality({y \in T : y < x})
<1>1. n \in Nat
  BY FS_CardinalityType
<1>2. \A x \in T : Rank(x) \in 0 .. n - 1
  BY RankTells
<1>3. \A x, z \in T : Rank(x) = Rank(z) => x = z
  BY RankTells
<1>4. \A k \in 1 .. n : Ascending(T)[k] = CHOOSE x \in T : Rank(x) = k - 1
  BY DEF Ascending
<1>5. \A k \in 1 .. n : \E x \in T : Rank(x) = k - 1
  <2>1. \A k \in 1 .. n : k - 1 \in 0 .. n - 1
    BY <1>1
  <2> QED
    BY <2>1, RankIsTaken, Zenon
<1> HIDE DEF n, Rank
<1>6. \A k \in 1 .. n : Ascending(T)[k] \in T /\ Rank(Ascending(T)[k]) = k - 1
  BY <1>4, <1>5
<1>7. \A k, l \in 1 .. n : Ascending(T)[k] = Ascending(T)[l] => k = l
  BY <1>1, <1>6
<1>8. \A x \in T : \E k \in 1 .. n : Ascending(T)[k] = x
  <2> SUFFICES ASSUME NEW x \in T PROVE \E k \in 1 .. n : Ascending(T)[k] = x
    OBVIOUS
  <2>1. Rank(x) + 1 \in 1 .. n /\ (Rank(x) + 1) - 1 = Rank(x)
    BY <1>1, <1>2
  <2>2. Ascending(T)[Rank(x) + 1] \in T /\ Rank(Ascending(T)[Rank(x) + 1]) = Rank(x)
    BY <1>6, <2>1
  <2> QED
    BY <1>3, <2>1, <2>2
<1> QED
  BY <1>7, <1>8 DEF n

\* What stands at some positions of a sequence makes a sequence.
LEMMA PickedType ==
    ASSUME NEW S, NEW T, NEW s \in Seq(S), NEW P \in SUBSET (1 .. Len(s)), \A i \in P : s[i] \in T
    PROVE  Picked(s, P) \in Seq(T)
<1>1. P \subseteq Nat /\ IsFiniteSet(P)
  <2>1. Len(s) \in Nat
    OBVIOUS
  <2>2. IsFiniteSet(1 .. Len(s))
    BY <2>1, FS_Interval
  <2>3. IsFiniteSet(P)
    BY <2>2, FS_Subset, Zenon
  <2> QED
    BY <2>1, <2>3
<1>2. Ascending(P) \in [1 .. Cardinality(P) -> P] /\ Cardinality(P) \in Nat
  BY <1>1, AscendingType
<1>3. ASSUME NEW k \in 1 .. Cardinality(P) PROVE s[Ascending(P)[k]] \in T
  BY <1>2
<1>4. Picked(s, P) \in [1 .. Cardinality(P) -> T]
  BY <1>2, <1>3 DEF Picked
<1> QED
  BY <1>2, <1>4

LEMMA SeqWidens ==
    ASSUME NEW S, NEW T, S \subseteq T, NEW s \in Seq(S)
    PROVE  s \in Seq(T)
  OBVIOUS

\* What maps each place of a sequence to a member of T is a sequence over T.
LEMMA SeqOver ==
    ASSUME NEW S, NEW T, NEW s \in Seq(S), NEW f, f \in [DOMAIN s -> T]
    PROVE  f \in Seq(T)
<1>1. Len(s) \in Nat /\ DOMAIN s = 1 .. Len(s)
  OBVIOUS
<1>2. f \in [1 .. Len(s) -> T]
  BY <1>1
<1> QED
  BY <1>1, <1>2

-----------------------------------------------------------------------------
\* A sequence of sequences, end to end

\* Stringing sequences together: the recursive function has a value, which is
\* shown of ever longer prefixes.
FlatUpto(ss, flat, n) ==
    flat = [i \in 1 .. n |-> IF i = 1 THEN ss[i] ELSE flat[i - 1] \o ss[i]]

LEMMA FlatExists ==
    ASSUME NEW T, NEW ss \in Seq(Seq(T)), NEW n \in 1 .. Len(ss)
    PROVE  \E flat : FlatUpto(ss, flat, n)
<1> DEFINE bad == {k \in 1 .. Len(ss) : ~ \E flat : FlatUpto(ss, flat, k)}
<1> SUFFICES ASSUME bad # {} PROVE FALSE
  BY DEF bad
<1>1. bad \subseteq Nat /\ Len(ss) \in Nat
  OBVIOUS
<1>2. PICK k \in bad : \A j \in bad : k <= j
  BY <1>1, LeastNat
<1>3. k \in 1 .. Len(ss) /\ ~ \E flat : FlatUpto(ss, flat, k)
  BY <1>2
<1>4. CASE k = 1
  <2>1. FlatUpto(ss, [i \in 1 .. 1 |-> ss[i]], 1)
    BY DEF FlatUpto
  <2> QED
    BY <1>3, <1>4, <2>1
<1>5. CASE k # 1
  <2>1. k - 1 \in 1 .. Len(ss) /\ k - 1 \notin bad
    <3> HIDE DEF bad
    <3>1. k - 1 \in 1 .. Len(ss) /\ k \in Nat
      BY <1>1, <1>3, <1>5
    <3> QED
      BY <1>1, <1>2, <3>1
  <2>2. PICK flat : FlatUpto(ss, flat, k - 1)
    BY <2>1
  <2>3. flat = [i \in 1 .. k - 1 |-> IF i = 1 THEN ss[i] ELSE flat[i - 1] \o ss[i]]
    BY <2>2 DEF FlatUpto
  <2> DEFINE more == [i \in 1 .. k |-> IF i = k THEN flat[k - 1] \o ss[k] ELSE flat[i]]
  <2>4. more[k - 1] = flat[k - 1]
    BY <2>1, <1>3
  <2>5. ASSUME NEW i \in 1 .. k
        PROVE  more[i] = IF i = 1 THEN ss[i] ELSE more[i - 1] \o ss[i]
    <3>1. CASE i = k
      BY <1>3, <1>5, <2>4, <3>1
    <3>2. CASE i # k
      <4>1. i \in 1 .. k - 1
        BY <1>3, <3>2
      <4>2. flat[i] = IF i = 1 THEN ss[i] ELSE flat[i - 1] \o ss[i]
        BY <2>3, <4>1
      <4>3. more[i] = flat[i] /\ (i # 1 => more[i - 1] = flat[i - 1])
        BY <1>3, <3>2, <4>1
      <4> QED
        BY <4>2, <4>3
    <3> QED
      BY <3>1, <3>2
  <2>6. more = [i \in 1 .. k |-> IF i = 1 THEN ss[i] ELSE more[i - 1] \o ss[i]]
    BY <2>5
  <2> HIDE DEF more
  <2>7. FlatUpto(ss, more, k)
    BY <2>6 DEF FlatUpto
  <2> QED
    BY <1>3, <2>7
<1> QED
  BY <1>4, <1>5

LEMMA FlatIsSeq ==
    ASSUME NEW T, NEW ss \in Seq(Seq(T)), NEW flat, FlatUpto(ss, flat, Len(ss)),
           NEW n \in 1 .. Len(ss)
    PROVE  flat[n] \in Seq(T)
<1> DEFINE bad == {k \in 1 .. Len(ss) : flat[k] \notin Seq(T)}
<1> SUFFICES ASSUME bad # {} PROVE FALSE
  BY DEF bad
<1>1. bad \subseteq Nat /\ Len(ss) \in Nat
  OBVIOUS
<1>2. PICK k \in bad : \A j \in bad : k <= j
  BY <1>1, LeastNat
<1>3. k \in 1 .. Len(ss) /\ flat[k] \notin Seq(T) /\ ss[k] \in Seq(T)
  BY <1>2
<1>4. flat[k] = IF k = 1 THEN ss[k] ELSE flat[k - 1] \o ss[k]
  BY <1>3 DEF FlatUpto
<1>5. k # 1 /\ k - 1 \in 1 .. Len(ss)
  BY <1>3, <1>4
<1>6. k - 1 \notin bad
  BY <1>2, <1>3
<1>7. flat[k - 1] \in Seq(T)
  BY <1>5, <1>6
<1>8. flat[k - 1] \o ss[k] \in Seq(T)
  BY <1>3, <1>7
<1> QED
  BY <1>3, <1>4, <1>5, <1>8

LEMMA FlattenType ==
    ASSUME NEW T, NEW ss \in Seq(Seq(T))
    PROVE  FlattenSeq(ss) \in Seq(T)
<1>1. CASE Len(ss) = 0
  <2>1. ss = <<>>
    BY <1>1
  <2>2. FlattenSeq(ss) = ss
    BY <1>1 DEF FlattenSeq
  <2>3. <<>> \in Seq(T)
    OBVIOUS
  <2> QED
    BY <2>1, <2>2, <2>3
<1>2. CASE Len(ss) # 0
  <2> DEFINE flat == CHOOSE flatten : FlatUpto(ss, flatten, Len(ss))
  <2>1. FlattenSeq(ss) = flat[Len(ss)]
    BY <1>2 DEF FlattenSeq, FlatUpto
  <2>2. Len(ss) \in 1 .. Len(ss)
    BY <1>2
  <2>3. FlatUpto(ss, flat, Len(ss))
    BY <2>2, FlatExists
  <2> HIDE DEF flat
  <2> QED
    BY <2>1, <2>2, <2>3, FlatIsSeq
<1> QED
  BY <1>1, <1>2

-----------------------------------------------------------------------------
\* sort.SliceStable

\* What a comparison has to be: no cycles, and whatever is put in order stays in
\* order beside any third.
WeakOrder(P, less) ==
    /\ \A i, j \in P : <<i, j>> \in less => <<j, i>> \notin less
    /\ \A i, j, k \in P : <<i, k>> \in less => <<i, j>> \in less \/ <<j, k>> \in less

Earlier(less, i, j) == <<i, j>> \in less \/ (<<j, i>> \notin less /\ i < j)

Sooner(P, less, i) == {j \in P : Earlier(less, j, i)}

\* A stable sort has one place for each position.
LEMMA EarlierIsTotal ==
    ASSUME NEW P, P \subseteq Nat, NEW less, WeakOrder(P, less)
    PROVE  /\ \A i \in P : ~ Earlier(less, i, i)
           /\ \A i, j \in P : i # j => Earlier(less, i, j) \/ Earlier(less, j, i)
           /\ \A i, j \in P : Earlier(less, i, j) => ~ Earlier(less, j, i)
           /\ \A i, j, k \in P : Earlier(less, i, j) /\ Earlier(less, j, k) => Earlier(less, i, k)
<1>1. /\ \A i, j \in P : <<i, j>> \in less => <<j, i>> \notin less
      /\ \A i, j, k \in P : <<i, k>> \in less => <<i, j>> \in less \/ <<j, k>> \in less
  BY DEF WeakOrder
<1>2. \A i \in P : ~ Earlier(less, i, i)
  BY <1>1 DEF Earlier
<1>3. \A i, j \in P : i # j => Earlier(less, i, j) \/ Earlier(less, j, i)
  BY DEF Earlier
<1>4. ASSUME NEW i \in P, NEW j \in P, Earlier(less, i, j) PROVE ~ Earlier(less, j, i)
  <2>1. CASE <<i, j>> \in less
    BY <1>1, <2>1 DEF Earlier
  <2>2. CASE <<i, j>> \notin less
    BY <1>4, <2>2 DEF Earlier
  <2> QED
    BY <2>1, <2>2
<1>5. ASSUME NEW i \in P, NEW j \in P, NEW k \in P, Earlier(less, i, j), Earlier(less, j, k)
      PROVE  Earlier(less, i, k)
  <2>1. <<j, i>> \notin less /\ <<k, j>> \notin less
    BY <1>1, <1>5 DEF Earlier
  <2>2. <<k, i>> \notin less
    BY <1>1, <2>1
  <2>3. CASE <<i, j>> \in less
    BY <1>1, <2>1, <2>3 DEF Earlier
  <2>4. CASE <<j, k>> \in less
    BY <1>1, <2>1, <2>4 DEF Earlier
  <2>5. CASE <<i, j>> \notin less /\ <<j, k>> \notin less
    BY <1>5, <2>2, <2>5 DEF Earlier
  <2> QED
    BY <2>3, <2>4, <2>5
<1> QED
  BY <1>2, <1>3, <1>4, <1>5

\* The number of positions before a position is below their number, and is
\* smaller for the earlier of two.
LEMMA SoonerCounts ==
    ASSUME NEW P, P \subseteq Nat, IsFiniteSet(P), NEW less, WeakOrder(P, less)
    PROVE  /\ Cardinality(P) \in Nat
           /\ \A i \in P : Cardinality(Sooner(P, less, i)) \in 0 .. Cardinality(P) - 1
           /\ \A i, j \in P :
                Earlier(less, i, j) =>
                  Cardinality(Sooner(P, less, i)) < Cardinality(Sooner(P, less, j))
<1>1. Cardinality(P) \in Nat
  BY FS_CardinalityType
<1>2. ASSUME NEW i \in P
      PROVE  /\ IsFiniteSet(Sooner(P, less, i))
             /\ Cardinality(Sooner(P, less, i)) \in 0 .. Cardinality(P) - 1
  <2>1. IsFiniteSet(P \ {i}) /\ Cardinality(P \ {i}) = Cardinality(P) - 1
    BY FS_RemoveElement
  <2>2. Sooner(P, less, i) \in SUBSET (P \ {i})
    BY EarlierIsTotal DEF Sooner
  <2>3. IsFiniteSet(Sooner(P, less, i)) /\ Cardinality(Sooner(P, less, i)) <= Cardinality(P) - 1
    BY <2>1, <2>2, FS_Subset
  <2>4. Cardinality(Sooner(P, less, i)) \in Nat
    BY <2>3, FS_CardinalityType
  <2> QED
    BY <1>1, <2>3, <2>4
<1>3. ASSUME NEW i \in P, NEW j \in P, Earlier(less, i, j)
      PROVE  Cardinality(Sooner(P, less, i)) < Cardinality(Sooner(P, less, j))
  <2>1. i \in Sooner(P, less, j) /\ i \notin Sooner(P, less, i)
    BY <1>3, EarlierIsTotal DEF Sooner
  <2>2. Sooner(P, less, i) \in SUBSET Sooner(P, less, j)
    BY <1>3, EarlierIsTotal DEF Sooner
  <2>3. /\ Cardinality(Sooner(P, less, i)) <= Cardinality(Sooner(P, less, j))
        /\ Cardinality(Sooner(P, less, i)) # Cardinality(Sooner(P, less, j))
    BY <1>2, <2>1, <2>2, FS_Subset
  <2> QED
    BY <1>2, <2>3
<1> QED
  BY <1>1, <1>2, <1>3

\* The stable sort of s at P puts the position at[n] at place n.
PlacedAt(s, P, less, at) ==
    LET N == 1 .. Cardinality(P)
    IN  /\ at \in [N -> P]
        /\ SliceStable(s, P, less) = [n \in N |-> s[at[n]]]
        /\ \A i \in P : \E n \in N : at[n] = i
        /\ \A n \in N : Cardinality(Sooner(P, less, at[n])) = n - 1
        /\ \A n, m \in N : n < m => Earlier(less, at[n], at[m])

\* In a stable sort each position has a place, and each place a position.
LEMMA SortPlaces ==
    ASSUME NEW s, NEW P, P \subseteq Nat, IsFiniteSet(P), NEW less, WeakOrder(P, less)
    PROVE  \E at : PlacedAt(s, P, less, at)
<1> DEFINE size == Cardinality(P)
           before(i) == Cardinality(Sooner(P, less, i))
           place == [i \in P |-> before(i) + 1]
<1>1. /\ size \in Nat
      /\ \A i \in P : before(i) \in 0 .. size - 1
      /\ \A i, j \in P : Earlier(less, i, j) => before(i) < before(j)
  BY SoonerCounts
<1>2. place \in Injection(P, 1 .. size)
  <2>1. place \in [P -> 1 .. size]
    BY <1>1
  <2>2. ASSUME NEW i \in P, NEW j \in P, place[i] = place[j] PROVE i = j
    <3>1. before(i) = before(j)
      BY <1>1, <2>2
    <3>2. ~ Earlier(less, i, j) /\ ~ Earlier(less, j, i)
      BY <1>1, <3>1
    <3> QED
      BY <3>2, EarlierIsTotal
  <2> QED
    BY <2>1, <2>2 DEF Injection, IsInjective
<1>3. IsFiniteSet(1 .. size) /\ Cardinality(1 .. size) = size
  <2> HIDE DEF size
  <2>1. 1 \in Int /\ size \in Int
    BY <1>1
  <2>2. IsFiniteSet(1 .. size) /\ Cardinality(1 .. size) = IF 1 > size THEN 0 ELSE size - 1 + 1
    BY <2>1, FS_Interval, Zenon
  <2> QED
    BY <1>1, <2>2
<1>4. place \in Surjection(P, 1 .. size)
  BY <1>2, <1>3, FS_Injection
<1> DEFINE nth(n) == CHOOSE i \in P : before(i) = n - 1
           at == [n \in 1 .. size |-> nth(n)]
<1>5. ASSUME NEW n \in 1 .. size PROVE nth(n) \in P /\ before(nth(n)) = n - 1
  <2>1. PICK i \in P : place[i] = n
    BY <1>4 DEF Surjection
  <2>2. before(i) = n - 1
    BY <1>1, <2>1
  <2> HIDE DEF before
  <2> QED
    BY <2>2
<1>6. at \in [1 .. size -> P] /\ \A n \in 1 .. size : before(at[n]) = n - 1
  BY <1>5
<1>7. SliceStable(s, P, less) = [n \in 1 .. size |-> s[at[n]]]
  <2>1. SliceStable(s, P, less) = [n \in 1 .. size |-> s[nth(n)]]
    BY Zenon DEF SliceStable, Earlier, Sooner
  <2> HIDE DEF nth
  <2> QED
    BY <2>1
<1> HIDE DEF at, nth
<1>8. ASSUME NEW i \in P PROVE \E n \in 1 .. size : at[n] = i
  <2>1. PICK n \in 1 .. size : n = before(i) + 1
    BY <1>1
  <2>2. before(at[n]) = before(i) /\ at[n] \in P
    BY <1>1, <1>6, <2>1
  <2>3. PICK j \in P : j = at[n]
    BY <2>2
  <2>4. ~ Earlier(less, j, i) /\ ~ Earlier(less, i, j)
    <3>1. before(j) = before(i) /\ before(i) \in Nat
      BY <1>1, <2>2, <2>3
    <3> HIDE DEF before
    <3> QED
      BY <1>1, <3>1
  <2> QED
    BY <2>3, <2>4, EarlierIsTotal
<1>9. ASSUME NEW n \in 1 .. size, NEW m \in 1 .. size, n < m
      PROVE  Earlier(less, at[n], at[m])
  <2>1. at[n] \in P /\ at[m] \in P /\ before(at[n]) = n - 1 /\ before(at[m]) = m - 1
    BY <1>6
  <2>2. at[n] # at[m] /\ ~ (before(at[m]) < before(at[n]))
    BY <1>9, <2>1
  <2>3. ~ Earlier(less, at[m], at[n])
    BY <1>1, <2>1, <2>2
  <2> QED
    BY <2>1, <2>2, <2>3, EarlierIsTotal
<1> QED
  BY <1>6, <1>7, <1>8, <1>9 DEF PlacedAt

\* What a stable sort of s at P holds.
LEMMA SortHolds ==
    ASSUME NEW s, NEW P, NEW less, NEW at, PlacedAt(s, P, less, at)
    PROVE  ToSet(SliceStable(s, P, less)) = {s[i] : i \in P}
<1> DEFINE N == 1 .. Cardinality(P)
<1>1. /\ at \in [N -> P]
      /\ SliceStable(s, P, less) = [n \in N |-> s[at[n]]]
      /\ \A i \in P : \E n \in N : at[n] = i
  BY DEF PlacedAt
<1> HIDE DEF N
<1>2. ToSet(SliceStable(s, P, less)) = {s[at[n]] : n \in N}
  BY <1>1 DEF ToSet
<1> QED
  BY <1>1, <1>2

-----------------------------------------------------------------------------
\* Sums

\* The partial sums of s.
PartialSums(s, f) ==
    /\ f \in [0 .. Len(s) -> Int]
    /\ f = [n \in 0 .. Len(s) |-> IF n = 0 THEN 0 ELSE f[n - 1] + s[n]]

\* A sequence has partial sums: they are added one at a time.
LEMMA PartialSumsExist ==
    ASSUME NEW s \in Seq(Int)
    PROVE  \E f : PartialSums(s, f)
<1> DEFINE Part(n, f) ==
             /\ f \in [0 .. n -> Int]
             /\ f = [k \in 0 .. n |-> IF k = 0 THEN 0 ELSE f[k - 1] + s[k]]
           S == {n \in 0 .. Len(s) : \E f : Part(n, f)}
<1>1. 0 \in S
  <2>1. Part(0, [k \in 0 .. 0 |-> 0])
    OBVIOUS
  <2>2. 0 \in 0 .. Len(s)
    OBVIOUS
  <2> QED
    BY <2>1, <2>2
<1>2. ASSUME NEW n \in 0 .. Len(s) - 1, n \in S PROVE n + 1 \in S
  <2>1. PICK f : Part(n, f)
    BY <1>2
  <2> DEFINE g == [k \in 0 .. n + 1 |-> IF k = n + 1 THEN f[n] + s[n + 1] ELSE f[k]]
  <2>2. g \in [0 .. n + 1 -> Int]
    BY <2>1
  <2>3. ASSUME NEW k \in 0 .. n + 1
        PROVE  g[k] = IF k = 0 THEN 0 ELSE g[k - 1] + s[k]
    <3>1. CASE k = n + 1
      <4>1. g[k] = f[n] + s[n + 1] /\ g[k - 1] = f[n]
        BY <3>1
      <4> QED
        BY <3>1, <4>1
    <3>2. CASE k = 0
      BY <2>1, <3>2
    <3>3. CASE k \in 1 .. n
      <4>1. g[k] = f[k] /\ g[k - 1] = f[k - 1]
        BY <3>3
      <4>2. f[k] = f[k - 1] + s[k]
        BY <2>1, <3>3
      <4> QED
        BY <3>3, <4>1, <4>2
    <3> QED
      BY <3>1, <3>2, <3>3
  <2>4. Part(n + 1, g)
    BY <2>2, <2>3
  <2>5. n + 1 \in 0 .. Len(s)
    OBVIOUS
  <2> HIDE DEF Part, g
  <2> QED
    BY <2>4, <2>5
<1>3. Len(s) \in S
  <2>1. Len(s) \in Nat
    OBVIOUS
  <2> HIDE DEF S
  <2>2. \A k \in 0 .. Len(s) : k \in S
    BY <1>1, <1>2, <2>1, Counting
  <2> QED
    BY <2>1, <2>2
<1> QED
  BY <1>3 DEF PartialSums

\* A sum is the last of the partial sums.
LEMMA SumIsPartial ==
    ASSUME NEW s \in Seq(Int)
    PROVE  \E f : PartialSums(s, f) /\ SumOf(s) = f[Len(s)]
<1> DEFINE f == CHOOSE upto : upto = [n \in 0 .. Len(s) |-> IF n = 0 THEN 0 ELSE upto[n - 1] + s[n]]
<1>1. SumOf(s) = f[Len(s)]
  BY DEF SumOf
<1>2. f = [n \in 0 .. Len(s) |-> IF n = 0 THEN 0 ELSE f[n - 1] + s[n]]
  <2>1. \E upto : upto = [n \in 0 .. Len(s) |-> IF n = 0 THEN 0 ELSE upto[n - 1] + s[n]]
    BY PartialSumsExist DEF PartialSums
  <2> QED
    BY <2>1
<1> HIDE DEF f
<1>3. \A n \in 0 .. Len(s) : f[n] \in Int
  <2> DEFINE S == {n \in 0 .. Len(s) : f[n] \in Int}
  <2>1. 0 \in S
    BY <1>2
  <2>2. ASSUME NEW n \in 0 .. Len(s) - 1, n \in S PROVE n + 1 \in S
    <3>1. f[n + 1] = f[n] + s[n + 1]
      BY <1>2
    <3> QED
      BY <2>2, <3>1
  <2>3. Len(s) \in Nat
    OBVIOUS
  <2> HIDE DEF S
  <2>4. \A n \in 0 .. Len(s) : n \in S
    BY <2>1, <2>2, <2>3, Counting
  <2> QED
    BY <2>4 DEF S
<1>4. f \in [0 .. Len(s) -> Int]
  BY <1>2, <1>3
<1> QED
  BY <1>1, <1>2, <1>4 DEF PartialSums

LEMMA SumType ==
    ASSUME NEW s \in Seq(Int)
    PROVE  SumOf(s) \in Int /\ (s = <<>> => SumOf(s) = 0)
<1>1. PICK f : PartialSums(s, f) /\ SumOf(s) = f[Len(s)]
  BY SumIsPartial
<1>2. Len(s) \in 0 .. Len(s) /\ (s = <<>> => Len(s) = 0)
  OBVIOUS
<1> QED
  BY <1>1, <1>2 DEF PartialSums

LEMMA SumOfAppend ==
    ASSUME NEW s \in Seq(Int), NEW x \in Int
    PROVE  SumOf(Append(s, x)) = SumOf(s) + x
<1> DEFINE t == Append(s, x)
<1>1. /\ t \in Seq(Int) /\ Len(t) = Len(s) + 1 /\ Len(s) \in Nat
      /\ t[Len(s) + 1] = x /\ \A k \in 1 .. Len(s) : t[k] = s[k]
  OBVIOUS
<1> HIDE DEF t
<1>2. PICK f : PartialSums(s, f) /\ SumOf(s) = f[Len(s)]
  BY SumIsPartial
<1>3. PICK g : PartialSums(t, g) /\ SumOf(t) = g[Len(t)]
  BY <1>1, SumIsPartial
<1>4. \A n \in 0 .. Len(s) : g[n] = f[n]
  <2> DEFINE S == {n \in 0 .. Len(s) : g[n] = f[n]}
  <2>1. 0 \in S
    BY <1>1, <1>2, <1>3 DEF PartialSums
  <2>2. ASSUME NEW n \in 0 .. Len(s) - 1, n \in S PROVE n + 1 \in S
    <3>1. f[n + 1] = f[n] + s[n + 1]
      BY <1>2 DEF PartialSums
    <3>2. g[n + 1] = g[n] + t[n + 1]
      BY <1>1, <1>3 DEF PartialSums
    <3> QED
      BY <1>1, <2>2, <3>1, <3>2
  <2> HIDE DEF S
  <2>3. \A n \in 0 .. Len(s) : n \in S
    BY <1>1, <2>1, <2>2, Counting
  <2> QED
    BY <2>3 DEF S
<1>5. g[Len(s) + 1] = g[Len(s)] + x
  BY <1>1, <1>3 DEF PartialSums
<1>6. SumOf(t) = SumOf(s) + x
  BY <1>1, <1>2, <1>3, <1>4, <1>5
<1> QED
  BY <1>6 DEF t

\* A sum lies between as many times the least number and as many times the
\* greatest.
LEMMA SumOfNats ==
    ASSUME NEW s \in Seq(Nat)
    PROVE  SumOf(s) \in Nat
<1>1. s \in Seq(Int) /\ Len(s) \in Nat
  OBVIOUS
<1>2. PICK f : PartialSums(s, f) /\ SumOf(s) = f[Len(s)]
  BY <1>1, SumIsPartial
<1> DEFINE S == {n \in 0 .. Len(s) : f[n] \in Nat}
<1>3. 0 \in S
  BY <1>1, <1>2 DEF PartialSums
<1>4. ASSUME NEW n \in 0 .. Len(s) - 1, n \in S PROVE n + 1 \in S
  <2>1. n + 1 \in 1 .. Len(s) /\ s[n + 1] \in Nat /\ f[n] \in Nat
    BY <1>1, <1>4
  <2>2. f[n + 1] = f[n] + s[n + 1]
    BY <1>2, <2>1 DEF PartialSums
  <2> QED
    BY <1>1, <2>1, <2>2
<1> HIDE DEF S
<1>5. \A n \in 0 .. Len(s) : n \in S
  BY <1>1, <1>3, <1>4, Counting
<1> QED
  BY <1>1, <1>2, <1>5 DEF S

LEMMA SumBounds ==
    ASSUME NEW s \in Seq(Int), NEW low \in Int, NEW high \in Int,
           \A i \in 1 .. Len(s) : low <= s[i] /\ s[i] <= high
    PROVE  low * Len(s) <= SumOf(s) /\ SumOf(s) <= high * Len(s)
<1>1. PICK f : PartialSums(s, f) /\ SumOf(s) = f[Len(s)]
  BY SumIsPartial
<1> DEFINE S == {n \in 0 .. Len(s) : low * n <= f[n] /\ f[n] <= high * n}
<1>2. 0 \in S
  <2>1. f[0] = 0 /\ 0 \in 0 .. Len(s)
    BY <1>1 DEF PartialSums
  <2>2. low * 0 = 0 /\ high * 0 = 0
    OBVIOUS
  <2> QED
    BY <2>1, <2>2
<1>3. ASSUME NEW n \in 0 .. Len(s) - 1, n \in S PROVE n + 1 \in S
  <2>1. f[n + 1] = f[n] + s[n + 1] /\ f[n] \in Int /\ n + 1 \in 1 .. Len(s)
    <3>1. f[n + 1] = f[n] + s[n + 1]
      BY <1>1 DEF PartialSums
    <3>2. f \in [0 .. Len(s) -> Int] /\ n \in 0 .. Len(s)
      BY <1>1 DEF PartialSums
    <3> QED
      BY <3>1, <3>2
  <2>2. low * (n + 1) = low * n + low /\ high * (n + 1) = high * n + high
    OBVIOUS
  <2>3. low * n \in Int /\ high * n \in Int /\ s[n + 1] \in Int
    BY <2>1
  <2>4. low <= s[n + 1] /\ s[n + 1] <= high
    BY <2>1
  <2>5. low * n <= f[n] /\ f[n] <= high * n
    BY <1>3
  <2>6. low * (n + 1) <= f[n + 1] /\ f[n + 1] <= high * (n + 1)
    BY <2>1, <2>2, <2>3, <2>4, <2>5
  <2> QED
    BY <2>1, <2>6
<1>4. Len(s) \in Nat
  OBVIOUS
<1> HIDE DEF S
<1>5. \A n \in 0 .. Len(s) : n \in S
  BY <1>2, <1>3, <1>4, Counting
<1>6. Len(s) \in S
  BY <1>4, <1>5
<1> QED
  BY <1>1, <1>6 DEF S

-----------------------------------------------------------------------------
\* Numbers from the smallest to the largest

\* Sorting loses no number and puts them in order.
LEMMA SortedIs ==
    ASSUME NEW s \in Seq(Int)
    PROVE  /\ Sorted(s) \in Seq(Int) /\ Len(Sorted(s)) = Len(s)
           /\ \A i, j \in 1 .. Len(s) : i <= j => Sorted(s)[i] <= Sorted(s)[j]
           /\ \A i \in 1 .. Len(s) : \E j \in 1 .. Len(s) : Sorted(s)[i] = s[j]
<1> DEFINE P == DOMAIN s
           less == {p \in P \X P : s[p[1]] < s[p[2]]}
<1>1. Len(s) \in Nat /\ P = 1 .. Len(s) /\ P \subseteq Nat
  OBVIOUS
<1>2. IsFiniteSet(P) /\ Cardinality(P) = Len(s)
  <2>1. 1 \in Int /\ Len(s) \in Int
    BY <1>1
  <2>2. /\ IsFiniteSet(1 .. Len(s))
        /\ Cardinality(1 .. Len(s)) = IF 1 > Len(s) THEN 0 ELSE Len(s) - 1 + 1
    BY <2>1, FS_Interval, Zenon
  <2> QED
    BY <1>1, <2>2
<1>3. \A i, j \in P : <<i, j>> \in less <=> s[i] < s[j]
  OBVIOUS
<1>4. \A i \in P : s[i] \in Int
  OBVIOUS
<1>5. Sorted(s) = SliceStable(s, P, less)
  BY DEF Sorted
<1> HIDE DEF P, less
<1>6. WeakOrder(P, less)
  BY <1>3, <1>4 DEF WeakOrder
<1>7. PICK at : PlacedAt(s, P, less, at)
  BY <1>1, <1>2, <1>6, SortPlaces
<1>8. /\ at \in [1 .. Len(s) -> P]
      /\ Sorted(s) = [n \in 1 .. Len(s) |-> s[at[n]]]
      /\ \A n, m \in 1 .. Len(s) : n < m => Earlier(less, at[n], at[m])
  BY <1>2, <1>5, <1>7 DEF PlacedAt
<1>9. ASSUME NEW i \in 1 .. Len(s), NEW j \in 1 .. Len(s), i <= j
      PROVE  Sorted(s)[i] <= Sorted(s)[j]
  <2>1. at[i] \in P /\ at[j] \in P /\ Sorted(s)[i] = s[at[i]] /\ Sorted(s)[j] = s[at[j]]
    BY <1>8
  <2>2. CASE i = j
    BY <1>4, <2>1, <2>2
  <2>3. CASE i < j
    <3>1. <<at[j], at[i]>> \notin less
      BY <1>6, <1>8, <2>1, <2>3 DEF Earlier, WeakOrder
    <3>2. ~ (s[at[j]] < s[at[i]])
      BY <1>3, <2>1, <3>1
    <3> QED
      BY <1>4, <2>1, <3>2
  <2> QED
    BY <1>1, <1>9, <2>2, <2>3
<1>10. ASSUME NEW i \in 1 .. Len(s)
       PROVE  /\ Sorted(s)[i] \in Int
              /\ \E j \in 1 .. Len(s) : Sorted(s)[i] = s[j]
  <2>1. at[i] \in P /\ Sorted(s)[i] = s[at[i]]
    BY <1>8
  <2> QED
    BY <1>1, <1>4, <2>1
<1>11. Sorted(s) \in [1 .. Len(s) -> Int]
  BY <1>8, <1>10
<1> QED
  BY <1>1, <1>9, <1>10, <1>11

=============================================================================
