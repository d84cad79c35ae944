----------------------------- MODULE OrderLemmas -----------------------------
(* Facts about ordered sets that the proofs about several components need:  *)
(* least and greatest numbers, as in the choice of a first row or a last    *)
(* directory, and the ranks of a finite set's elements in a strict order,   *)
(* as in ORDER BY ... LIMIT and in sort-and-truncate.                       *)
EXTENDS Integers, FiniteSets, FiniteSetTheorems, TLAPS

-----------------------------------------------------------------------------
(* Numbers *)

(* A set of naturals that is not empty has a least member. *)
LEMMA LeastNatural ==
    ASSUME NEW S \in SUBSET Nat, S # {}
    PROVE  \E m \in S : \A x \in S : m <= x
<1>1. \E m \in S : \A x \in S : ~(<<x, m>> \in OpToRel(<, Nat))
  BY NatLessThanWellFounded, WFMin
<1>2. PICK m \in S : \A x \in S : ~(<<x, m>> \in OpToRel(<, Nat))
  BY <1>1
<1>3. ASSUME NEW x \in S PROVE m <= x
  <2>1. ~(x < m)
    BY <1>2 DEF OpToRel
  <2> QED  BY <2>1
<1> QED  BY <1>3

(* And one that is bounded a greatest. *)
LEMMA GreatestNatural ==
    ASSUME NEW S \in SUBSET Nat, S # {}, NEW n \in Nat, \A x \in S : x <= n
    PROVE  \E m \in S : \A x \in S : m >= x
<1> DEFINE T == {n - x : x \in S}
<1>1. T \in SUBSET Nat /\ T # {}
  <2>1. ASSUME NEW x \in S PROVE n - x \in Nat
    BY S \subseteq Nat, x <= n
  <2>2. T \subseteq Nat
    BY <2>1
  <2>3. PICK x \in S : TRUE
    OBVIOUS
  <2>4. n - x \in T
    BY <2>3
  <2> QED  BY <2>2, <2>4
<1>2. PICK k \in T : \A y \in T : k <= y
  BY <1>1, LeastNatural
<1>3. PICK m \in S : k = n - m
  OBVIOUS
<1>4. ASSUME NEW x \in S PROVE m >= x
  <2>1. n - x \in T
    OBVIOUS
  <2>2. n - m <= n - x
    BY <1>2, <1>3, <2>1
  <2> QED  BY <2>2
<1> QED  BY <1>4

-----------------------------------------------------------------------------
(* Ranks *)

(* R orders S strictly. *)
Orders(R, S) ==
    /\ \A x \in S : <<x, x>> \notin R
    /\ \A x, y \in S : x # y => <<x, y>> \in R \/ <<y, x>> \in R
    /\ \A x, y, z \in S : <<x, y>> \in R /\ <<y, z>> \in R => <<x, z>> \in R

Ahead(R, S, x) == {y \in S : <<y, x>> \in R}

(* How many come before an element tells its place. *)
LEMMA RankFacts ==
    ASSUME NEW S, IsFiniteSet(S), NEW R, Orders(R, S)
    PROVE  /\ \A x \in S : Cardinality(Ahead(R, S, x)) \in 0 .. Cardinality(S) - 1
           /\ \A x, y \in S : <<x, y>> \in R =>
                 Cardinality(Ahead(R, S, x)) < Cardinality(Ahead(R, S, y))
           /\ \A x, y \in S :
                 Cardinality(Ahead(R, S, x)) = Cardinality(Ahead(R, S, y)) => x = y
<1>1. ASSUME NEW x \in S
      PROVE  /\ IsFiniteSet(Ahead(R, S, x))
             /\ Cardinality(Ahead(R, S, x)) \in 0 .. Cardinality(S) - 1
  <2>1. Ahead(R, S, x) \in SUBSET S /\ x \notin Ahead(R, S, x)
    BY DEF Ahead, Orders
  <2>2. /\ IsFiniteSet(Ahead(R, S, x))
        /\ Cardinality(Ahead(R, S, x)) <= Cardinality(S)
        /\ Cardinality(S) # Cardinality(Ahead(R, S, x))
    BY <2>1, FS_Subset
  <2>3. Cardinality(Ahead(R, S, x)) \in Nat /\ Cardinality(S) \in Nat
    BY <2>2, FS_CardinalityType
  <2> QED  BY <2>2, <2>3
<1>2. ASSUME NEW x \in S, NEW y \in S, <<x, y>> \in R
      PROVE  Cardinality(Ahead(R, S, x)) < Cardinality(Ahead(R, S, y))
  <2>1. Ahead(R, S, x) \subseteq Ahead(R, S, y)
    BY <1>2 DEF Ahead, Orders
  <2>2. x \in Ahead(R, S, y) /\ x \notin Ahead(R, S, x)
    BY <1>2 DEF Ahead, Orders
  <2>3. /\ Cardinality(Ahead(R, S, x)) <= Cardinality(Ahead(R, S, y))
        /\ Cardinality(Ahead(R, S, x)) # Cardinality(Ahead(R, S, y))
    BY <1>1, <2>1, <2>2, FS_Subset
  <2>4. Cardinality(Ahead(R, S, x)) \in Int /\ Cardinality(Ahead(R, S, y)) \in Int
    BY <1>1
  <2> QED  BY <2>3, <2>4
<1>3. ASSUME NEW x \in S, NEW y \in S,
             Cardinality(Ahead(R, S, x)) = Cardinality(Ahead(R, S, y)), x # y
      PROVE  FALSE
  <2>1. Cardinality(Ahead(R, S, x)) \in Int
    BY <1>1
  <2>2. <<x, y>> \in R \/ <<y, x>> \in R
    BY <1>3 DEF Orders
  <2> QED  BY <1>2, <1>3, <2>1, <2>2
<1> QED  BY <1>1, <1>2, <1>3

(* Every place is somebody's. *)
LEMMA EveryRankIsTaken ==
    ASSUME NEW S, IsFiniteSet(S), NEW R, Orders(R, S)
    PROVE  \A i \in 0 .. Cardinality(S) - 1 : \E x \in S : Cardinality(Ahead(R, S, x)) = i
<1> DEFINE n == Cardinality(S)
           rank == [x \in S |-> Cardinality(Ahead(R, S, x))]
<1>0. n \in Nat
  BY FS_CardinalityType
<1>1. rank \in [S -> 0 .. n - 1] /\ \A x, y \in S : rank[x] = rank[y] => x = y
  BY RankFacts
<1>2. \A x \in S : rank[x] = Cardinality(Ahead(R, S, x))
  OBVIOUS
<1>3. IsFiniteSet(0 .. n - 1) /\ Cardinality(0 .. n - 1) = n
  <2>1. 0 \in Int /\ n - 1 \in Int
    BY <1>0
  <2>2. /\ IsFiniteSet(0 .. n - 1)
        /\ Cardinality(0 .. n - 1) = IF 0 > n - 1 THEN 0 ELSE n - 1 - 0 + 1
    BY <2>1, FS_Interval
  <2> HIDE DEF n
  <2> QED  BY <1>0, <2>2
<1> HIDE DEF rank
<1>4. rank \in Injection(S, 0 .. n - 1)
  BY <1>1 DEF Injection, IsInjective
<1> HIDE DEF n
<1>5. n = Cardinality(0 .. n - 1) <=> rank \in Surjection(S, 0 .. n - 1)
  BY <1>3, <1>4, FS_Injection DEF n
<1>6. rank \in Surjection(S, 0 .. n - 1)
  BY <1>3, <1>5
<1> QED  BY <1>2, <1>6 DEF Surjection, n

(* Of the first n places as many are taken as there are elements for. *)
LEMMA FirstPlaces ==
    ASSUME NEW S, IsFiniteSet(S), NEW R, Orders(R, S), NEW n \in Nat
    PROVE  LET first == {x \in S : Cardinality(Ahead(R, S, x)) < n}
           IN  /\ IsFiniteSet(first)
               /\ Cardinality(first) = IF n < Cardinality(S) THEN n ELSE Cardinality(S)
<1> DEFINE first == {x \in S : Cardinality(Ahead(R, S, x)) < n}
           size  == IF n < Cardinality(S) THEN n ELSE Cardinality(S)
           rank  == [x \in first |-> Cardinality(Ahead(R, S, x))]
<1>0. Cardinality(S) \in Nat /\ size \in Nat /\ size <= n /\ size <= Cardinality(S)
  BY FS_CardinalityType
<1>1. ASSUME NEW x \in first
      PROVE  rank[x] = Cardinality(Ahead(R, S, x)) /\ rank[x] \in 0 .. size - 1
  <2>1. /\ rank[x] = Cardinality(Ahead(R, S, x)) /\ rank[x] < n
        /\ rank[x] \in 0 .. Cardinality(S) - 1
    BY RankFacts
  <2> QED  BY <1>0, <2>1
<1>2. \A x, y \in first : rank[x] = rank[y] => x = y
  <2>1. first \subseteq S
    OBVIOUS
  <2> QED  BY <1>1, <2>1, RankFacts
<1>3. \A i \in 0 .. size - 1 : \E x \in first : rank[x] = i
  <2> SUFFICES ASSUME NEW i \in 0 .. size - 1 PROVE \E x \in first : rank[x] = i
    OBVIOUS
  <2>1. i < n /\ i \in 0 .. Cardinality(S) - 1
    BY <1>0
  <2>2. PICK x \in S : Cardinality(Ahead(R, S, x)) = i
    BY <2>1, EveryRankIsTaken
  <2>3. x \in first
    BY <2>1, <2>2
  <2> QED  BY <1>1, <2>2, <2>3
<1>4. DOMAIN rank = first /\ rank = [x \in first |-> rank[x]]
  OBVIOUS
<1>5. IsFiniteSet(first)
  <2>1. first \in SUBSET S
    OBVIOUS
  <2> QED  BY <2>1, FS_Subset
<1> HIDE DEF rank, first
<1>6. rank \in Bijection(first, 0 .. size - 1)
  <2>1. rank \in [first -> 0 .. size - 1]
    BY <1>1, <1>4
  <2> QED  BY <1>2, <1>3, <1>4, <2>1 DEF Bijection, Injection, Surjection, IsInjective
<1>7. Cardinality(0 .. size - 1) = Cardinality(first)
  BY <1>5, <1>6, FS_Bijection DEF ExistsBijection
<1>8. Cardinality(0 .. size - 1) = size
  <2> HIDE DEF size
  <2>1. 0 \in Int /\ size - 1 \in Int
    BY <1>0
  <2>2. Cardinality(0 .. size - 1) = IF 0 > size - 1 THEN 0 ELSE size - 1 - 0 + 1
    BY <2>1, FS_Interval
  <2> QED  BY <1>0, <2>2
<1> QED  BY <1>5, <1>7, <1>8 DEF first
=============================================================================
