------------------------------ MODULE NumberSets ------------------------------
(***************************************************************************)
(* Finite sets of numbers: ranks, least and greatest elements, and what    *)
(* follows from least elements by descent.                                 *)
(***************************************************************************)
EXTENDS Integers, Sequences, FiniteSets, FiniteSetTheorems, TLAPS

\* The elements of a finite set of numbers are counted from below: each count up
\* to the size of the set belongs to one element.
UpTo(S, i) == {h \in S : h <= i}

LEMMA RankFacts ==
    ASSUME NEW S \in SUBSET Nat, IsFiniteSet(S)
    PROVE  /\ Cardinality(S) \in Nat
           /\ \A i \in S : Cardinality(UpTo(S, i)) \in 1..Cardinality(S)
           /\ \A i, h \in S : Cardinality(UpTo(S, i)) = Cardinality(UpTo(S, h)) => i = h
           /\ \A j \in 1..Cardinality(S) : \E i \in S : Cardinality(UpTo(S, i)) = j
<1>1. Cardinality(S) \in Nat
  BY FS_CardinalityType
<1>2. ASSUME NEW i \in S
      PROVE  IsFiniteSet(UpTo(S, i)) /\ Cardinality(UpTo(S, i)) \in 1..Cardinality(S)
  <2>1. UpTo(S, i) \in SUBSET S /\ i \in UpTo(S, i)
    BY DEF UpTo
  <2>2. IsFiniteSet(UpTo(S, i)) /\ Cardinality(UpTo(S, i)) <= Cardinality(S)
    BY <2>1, FS_Subset
  <2>3. Cardinality(UpTo(S, i)) \in Nat /\ Cardinality(UpTo(S, i)) # 0
    BY <2>1, <2>2, FS_CardinalityType, FS_EmptySet
  <2>4. QED
    BY <2>2, <2>3, <1>1
<1>3. ASSUME NEW i \in S, NEW h \in S, Cardinality(UpTo(S, i)) = Cardinality(UpTo(S, h))
      PROVE  i = h
  <2>0. \A x \in S : x \in Nat
    OBVIOUS
  <2>1. CASE i <= h
    <3>1. UpTo(S, i) \in SUBSET UpTo(S, h) /\ h \in UpTo(S, h)
      <4>1. \A x \in S : x <= i => x <= h
        BY <2>0, <2>1
      <4>2. UpTo(S, i) \in SUBSET UpTo(S, h)
        BY <4>1, Zenon DEF UpTo
      <4>3. h <= h
        BY <2>0
      <4>4. QED
        BY <4>2, <4>3 DEF UpTo
    <3>2. UpTo(S, i) = UpTo(S, h)
      BY <3>1, <1>2, <1>3, FS_Subset
    <3>3. QED
      BY <3>1, <3>2, <2>1 DEF UpTo
  <2>2. CASE h <= i
    <3>1. UpTo(S, h) \in SUBSET UpTo(S, i) /\ i \in UpTo(S, i)
      <4>1. \A x \in S : x <= h => x <= i
        BY <2>0, <2>2
      <4>2. UpTo(S, h) \in SUBSET UpTo(S, i)
        BY <4>1, Zenon DEF UpTo
      <4>3. i <= i
        BY <2>0
      <4>4. QED
        BY <4>2, <4>3 DEF UpTo
    <3>2. UpTo(S, i) = UpTo(S, h)
      BY <3>1, <1>2, <1>3, FS_Subset
    <3>3. QED
      BY <3>1, <3>2, <2>2 DEF UpTo
  <2>3. QED
    BY <2>1, <2>2
<1>4. ASSUME NEW j \in 1..Cardinality(S)
      PROVE  \E i \in S : Cardinality(UpTo(S, i)) = j
  <2> DEFINE r == [i \in S |-> Cardinality(UpTo(S, i))]
             R == 1..Cardinality(S)
  <2>1. r \in Injection(S, R)
    <3>1. r \in [S -> R]
      BY <1>2
    <3>2. IsInjective(r)
      BY <1>3 DEF IsInjective
    <3>3. QED
      BY <3>1, <3>2 DEF Injection
  <2>2. IsFiniteSet(R) /\ Cardinality(R) = Cardinality(S)
    BY <1>1, FS_Interval
  <2> HIDE DEF r
  <2>3. r \in Surjection(S, R)
    BY <2>1, <2>2, FS_Injection
  <2>4. PICK i \in S : r[i] = j
    BY <2>3 DEF Surjection
  <2>5. QED
    BY <2>4 DEF r
<1>5. QED
  BY <1>1, <1>2, <1>3, <1>4

\* A finite set of numbers that is not empty has a least and a greatest element.
LEMMA EndsExist ==
    ASSUME NEW S \in SUBSET Nat, IsFiniteSet(S), S # {}
    PROVE  /\ \E i \in S : \A j \in S : i <= j
           /\ \E i \in S : \A j \in S : j <= i
<1>1. /\ Cardinality(S) \in Nat
      /\ \A i \in S : Cardinality(UpTo(S, i)) \in 1..Cardinality(S)
      /\ \A j \in 1..Cardinality(S) : \E i \in S : Cardinality(UpTo(S, i)) = j
  BY RankFacts
<1>2. Cardinality(S) >= 1
  BY <1>1, FS_EmptySet
<1>3. PICK i \in S : Cardinality(UpTo(S, i)) = 1
  BY <1>1, <1>2
<1>4. PICK m \in S : Cardinality(UpTo(S, m)) = Cardinality(S)
  BY <1>1, <1>2
<1>5. UpTo(S, i) \in SUBSET S /\ UpTo(S, m) \in SUBSET S
  BY DEF UpTo
<1>6. UpTo(S, m) = S
  BY <1>4, <1>5, FS_Subset
<1>7. UpTo(S, i) = {i}
  <2>1. IsFiniteSet(UpTo(S, i))
    BY <1>5, FS_Subset
  <2>2. PICK x : UpTo(S, i) = {x}
    BY <2>1, <1>3, FS_Singleton
  <2>3. i \in UpTo(S, i)
    BY DEF UpTo
  <2>4. QED
    BY <2>2, <2>3
<1>8. \A j \in S : i <= j
  <2> SUFFICES ASSUME NEW j \in S, ~(i <= j) PROVE FALSE
    OBVIOUS
  <2>1. j \in UpTo(S, i)
    BY DEF UpTo
  <2>2. QED
    BY <2>1, <1>7
<1>9. \A j \in S : j <= m
  BY <1>6 DEF UpTo
<1>10. QED
  BY <1>8, <1>9

\* A set of numbers up to D that holds 0 and with every number the next one holds
\* them all: otherwise one that is missing is the least.  This is the induction of
\* the proofs about recursive definitions.
LEMMA Climb ==
    ASSUME NEW D \in Nat, NEW S, S \subseteq 0..D, 0 \in S, \A m \in S : m < D => m + 1 \in S
    PROVE  S = 0..D
<1> DEFINE Bad == 0..D \ S
<1> SUFFICES ASSUME Bad # {} PROVE FALSE
  OBVIOUS
<1>1. Bad \in SUBSET Nat /\ IsFiniteSet(Bad)
  <2>1. IsFiniteSet(0..D)
    BY FS_Interval
  <2>2. Bad \in SUBSET (0..D) /\ 0..D \subseteq Nat
    OBVIOUS
  <2> HIDE DEF Bad
  <2>3. QED
    BY <2>1, <2>2, FS_Subset
<1>2. PICK m \in Bad : \A j \in Bad : m <= j
  <2> HIDE DEF Bad
  <2> QED
    BY <1>1, EndsExist
<1>3. m # 0 /\ m - 1 \in 0..D /\ m - 1 \notin Bad
  BY <1>2
<1>4. QED
  BY <1>2, <1>3

\* The elements in order: the one of each rank.
ByRank(S) == [n \in 1..Cardinality(S) |-> CHOOSE i \in S : Cardinality(UpTo(S, i)) = n]

LEMMA ByRankFacts ==
    ASSUME NEW S \in SUBSET Nat, IsFiniteSet(S)
    PROVE  /\ ByRank(S) \in Seq(Nat) /\ Len(ByRank(S)) = Cardinality(S) /\ Cardinality(S) \in Nat
           /\ \A n \in 1..Cardinality(S) :
                 ByRank(S)[n] \in S /\ Cardinality(UpTo(S, ByRank(S)[n])) = n
           /\ \A i \in S : /\ Cardinality(UpTo(S, i)) \in 1..Cardinality(S)
                           /\ ByRank(S)[Cardinality(UpTo(S, i))] = i
<1> DEFINE m == ByRank(S)
<1>1. /\ Cardinality(S) \in Nat
      /\ \A i \in S : Cardinality(UpTo(S, i)) \in 1..Cardinality(S)
      /\ \A i, h \in S : Cardinality(UpTo(S, i)) = Cardinality(UpTo(S, h)) => i = h
      /\ \A n \in 1..Cardinality(S) : \E i \in S : Cardinality(UpTo(S, i)) = n
  BY RankFacts
<1>2. \A n \in 1..Cardinality(S) : m[n] = CHOOSE i \in S : Cardinality(UpTo(S, i)) = n
  BY DEF ByRank
<1>3. ASSUME NEW n \in 1..Cardinality(S)
      PROVE  m[n] \in S /\ Cardinality(UpTo(S, m[n])) = n
  <2>1. m[n] = CHOOSE i \in S : Cardinality(UpTo(S, i)) = n
    BY <1>2
  <2>2. \E i \in S : Cardinality(UpTo(S, i)) = n
    BY <1>1
  <2> HIDE DEF m
  <2>3. QED
    BY <2>1, <2>2, Zenon
<1>4. DOMAIN m = 1..Cardinality(S) /\ m = [n \in 1..Cardinality(S) |-> m[n]]
  BY DEF ByRank
<1> HIDE DEF m
<1>5. m \in Seq(Nat) /\ Len(m) = Cardinality(S)
  BY <1>1, <1>3, <1>4
<1>6. ASSUME NEW i \in S PROVE m[Cardinality(UpTo(S, i))] = i
  <2> DEFINE n == Cardinality(UpTo(S, i))
  <2>1. n \in 1..Cardinality(S)
    BY <1>1
  <2>2. m[n] \in S /\ Cardinality(UpTo(S, m[n])) = n
    BY <2>1, <1>3
  <2>3. QED
    BY <2>2, <1>1
<1>7. QED
  BY <1>1, <1>3, <1>5, <1>6 DEF m

\* The least element is the first, and an element with none between is the next.
LEMMA ByRankOrder ==
    ASSUME NEW S \in SUBSET Nat, IsFiniteSet(S)
    PROVE  /\ \A x \in S : (\A r \in S : x <= r) => Cardinality(S) >= 1 /\ ByRank(S)[1] = x
           /\ \A n \in 1..Cardinality(S), x \in S :
                 ByRank(S)[n] < x /\ (\A r \in S : r <= ByRank(S)[n] \/ x <= r)
                    => n + 1 \in 1..Cardinality(S) /\ ByRank(S)[n + 1] = x
           /\ \A n \in 1..Cardinality(S) :
                 (\A r \in S : r <= ByRank(S)[n]) => n = Cardinality(S)
<1>0. \A x \in S : x \in Nat
  OBVIOUS
<1>1. /\ Cardinality(S) \in Nat
      /\ \A n \in 1..Cardinality(S) :
            ByRank(S)[n] \in S /\ Cardinality(UpTo(S, ByRank(S)[n])) = n
      /\ \A i \in S : /\ Cardinality(UpTo(S, i)) \in 1..Cardinality(S)
                      /\ ByRank(S)[Cardinality(UpTo(S, i))] = i
  BY ByRankFacts
<1>2. \A i : IsFiniteSet(UpTo(S, i))
  <2>1. \A i : UpTo(S, i) \in SUBSET S
    BY DEF UpTo
  <2>2. QED
    BY <2>1, FS_Subset
<1>3. ASSUME NEW x \in S, \A r \in S : x <= r
      PROVE  Cardinality(S) >= 1 /\ ByRank(S)[1] = x
  <2>1. \A r \in S : r <= x <=> r = x
    BY <1>0, <1>3
  <2>2. UpTo(S, x) = {x}
    BY <2>1, Zenon DEF UpTo
  <2>3. Cardinality(UpTo(S, x)) = 1
    BY <2>2, FS_Singleton
  <2>4. QED
    BY <2>3, <1>1
<1>4. ASSUME NEW n \in 1..Cardinality(S), NEW x \in S, ByRank(S)[n] < x,
             \A r \in S : r <= ByRank(S)[n] \/ x <= r
      PROVE  n + 1 \in 1..Cardinality(S) /\ ByRank(S)[n + 1] = x
  <2> DEFINE y == ByRank(S)[n]
  <2>1. y \in S /\ Cardinality(UpTo(S, y)) = n
    BY <1>1
  <2>0. y < x /\ \A r \in S : r <= y \/ x <= r
    BY <1>4
  <2> HIDE DEF y
  <2>2. \A r \in S : r <= x <=> r <= y \/ r = x
    BY <1>0, <2>0, <2>1
  <2>3. UpTo(S, x) = UpTo(S, y) \cup {x}
    BY <2>2, Zenon DEF UpTo
  <2>4. x \notin UpTo(S, y)
    BY <1>0, <2>0, <2>1 DEF UpTo
  <2>5. Cardinality(UpTo(S, x)) = n + 1
    BY <1>2, <2>1, <2>3, <2>4, FS_AddElement
  <2>6. n + 1 \in 1..Cardinality(S) /\ ByRank(S)[n + 1] = x
    BY <2>5, <1>1
  <2>7. QED
    BY <2>6
<1>5. ASSUME NEW n \in 1..Cardinality(S), \A r \in S : r <= ByRank(S)[n]
      PROVE  n = Cardinality(S)
  <2>1. UpTo(S, ByRank(S)[n]) = S
    BY <1>5, Zenon DEF UpTo
  <2>2. QED
    BY <2>1, <1>1
<1>6. QED
  BY <1>3, <1>4, <1>5

=============================================================================
