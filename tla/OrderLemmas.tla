------------------------------ MODULE OrderLemmas ------------------------------
(***************************************************************************)
(* Facts about the least and the greatest of some numbers and about the   *)
(* places of the members of a finite set in a strict order, on which the   *)
(* proofs about rankings and about the order of chunks and lines rest.     *)
(***************************************************************************)
EXTENDS Integers, FiniteSets, FiniteSetTheorems, WellFoundedInduction, TLAPS

\* A set of numbers has a least one.
LEMMA LeastNumber ==
  ASSUME NEW set \in SUBSET Nat, set # {}
  PROVE  \E m \in set : \A n \in set : m <= n
  <1> DEFINE less == OpToRel(<, Nat)
  <1>1. IsWellFoundedOn(less, Nat)
    BY NatLessThanWellFounded
  <1>2. PICK m \in set : \A n \in set : ~(<<n, m>> \in less)
    <2> HIDE DEF less
    <2>1. QED BY <1>1, WFMin
  <1>3. \A n \in set : ~(n < m)
    BY <1>2 DEF OpToRel
  <1>4. QED BY <1>3

\* Numbers up to a bound have a greatest one.
LEMMA GreatestNumber ==
  ASSUME NEW b \in Nat, NEW set \in SUBSET (0..b), set # {}
  PROVE  \E m \in set : \A n \in set : n <= m
  <1> DEFINE rest == {b - n : n \in set}
  <1>1. rest \in SUBSET Nat /\ rest # {}
    <2>1. \A n \in set : n \in 0..b
      OBVIOUS
    <2>2. \A n \in set : b - n \in Nat
      BY <2>1
    <2>3. PICK n \in set : TRUE
      OBVIOUS
    <2>4. b - n \in rest
      BY <2>3
    <2>5. QED BY <2>2, <2>4
  <1>2. PICK k \in rest : \A l \in rest : k <= l
    <2> HIDE DEF rest
    <2>1. QED BY <1>1, LeastNumber
  <1>3. PICK m \in set : k = b - m
    BY <1>2
  <1>4. \A n \in set : b - m <= b - n
    BY <1>2, <1>3
  <1>5. QED BY <1>3, <1>4

\* The places of the members of a finite set in a strict total order.
StrictOrder(S, R) ==
  /\ \A x \in S : <<x, x>> \notin R
  /\ \A x, y, z \in S : <<x, y>> \in R /\ <<y, z>> \in R => <<x, z>> \in R
  /\ \A x, y \in S : x # y => <<x, y>> \in R \/ <<y, x>> \in R
Ahead(S, R, g) == {h \in S : <<h, g>> \in R}
Place(S, R, g) == 1 + Cardinality(Ahead(S, R, g))

\* The places run from one to the number of members.
LEMMA PlaceBound ==
  ASSUME NEW S, IsFiniteSet(S), NEW R, StrictOrder(S, R), NEW g \in S
  PROVE  /\ IsFiniteSet(Ahead(S, R, g)) /\ Cardinality(Ahead(S, R, g)) \in Nat
         /\ Place(S, R, g) \in 1..Cardinality(S)
  <1>1. Ahead(S, R, g) \in SUBSET (S \ {g})
    BY DEF Ahead, StrictOrder
  <1>2. IsFiniteSet(S \ {g}) /\ Cardinality(S \ {g}) = Cardinality(S) - 1
    BY FS_RemoveElement
  <1>3. IsFiniteSet(Ahead(S, R, g)) /\ Cardinality(Ahead(S, R, g)) <= Cardinality(S) - 1
    BY <1>1, <1>2, FS_Subset
  <1>4. QED BY <1>3, FS_CardinalityType DEF Place

\* They follow the order.
LEMMA PlaceOrder ==
  ASSUME NEW S, IsFiniteSet(S), NEW R, StrictOrder(S, R), NEW g \in S, NEW h \in S
  PROVE  <<g, h>> \in R <=> Place(S, R, g) < Place(S, R, h)
  <1>1. ASSUME NEW x \in S, NEW y \in S, <<x, y>> \in R
        PROVE  Place(S, R, x) < Place(S, R, y)
    <2>1. x \notin Ahead(S, R, x) /\ Ahead(S, R, x) \cup {x} \in SUBSET Ahead(S, R, y)
      BY <1>1 DEF Ahead, StrictOrder
    <2>2. Cardinality(Ahead(S, R, x) \cup {x}) = Cardinality(Ahead(S, R, x)) + 1
      BY <2>1, PlaceBound, FS_AddElement
    <2>3. Cardinality(Ahead(S, R, x) \cup {x}) <= Cardinality(Ahead(S, R, y))
      BY <2>1, PlaceBound, FS_Subset
    <2>4. QED BY <2>2, <2>3, PlaceBound DEF Place
  <1>2. g = h \/ <<g, h>> \in R \/ <<h, g>> \in R
    BY DEF StrictOrder
  <1>3. Place(S, R, g) \in Nat /\ Place(S, R, h) \in Nat
    BY PlaceBound DEF Place
  <1>4. g = h => <<g, h>> \notin R
    BY DEF StrictOrder
  <1>5. QED BY <1>1, <1>2, <1>3, <1>4

\* Each of them is taken.
LEMMA PlaceTaken ==
  ASSUME NEW S, IsFiniteSet(S), NEW R, StrictOrder(S, R), NEW n \in 1..Cardinality(S)
  PROVE  \E g \in S : Place(S, R, g) = n
  <1> DEFINE T == 1..Cardinality(S)
             place == [g \in S |-> Place(S, R, g)]
  <1>1. place \in [S -> T]
    BY PlaceBound
  <1>2. \A g, h \in S : place[g] = place[h] => g = h
    <2> SUFFICES ASSUME NEW g \in S, NEW h \in S, place[g] = place[h], g # h PROVE FALSE
      OBVIOUS
    <2>1. <<g, h>> \in R \/ <<h, g>> \in R
      BY DEF StrictOrder
    <2>2. Place(S, R, g) = Place(S, R, h) /\ Place(S, R, g) \in Nat
      BY PlaceBound DEF Place
    <2>3. QED BY <2>1, <2>2, PlaceOrder
  <1>3. place \in Injection(S, T)
    BY <1>1, <1>2 DEF Injection, IsInjective
  <1>4. Cardinality(S) \in Nat
    BY FS_CardinalityType
  <1>5. IsFiniteSet(T) /\ Cardinality(T) = Cardinality(S)
    BY <1>4, FS_Interval
  <1>6. place \in Surjection(S, T)
    BY <1>3, <1>5, FS_Injection
  <1>7. QED BY <1>6 DEF Surjection

=============================================================================
