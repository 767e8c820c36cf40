----------------------------- MODULE OrderLemmas -----------------------------
(***************************************************************************)
(* Facts about sets and natural numbers that the proofs about several      *)
(* modules rest on.                                                        *)
(***************************************************************************)
EXTENDS FiniteSetTheorems, TLAPS

\* A non-empty set of naturals has a least element.
LEMMA LeastOfNats ==
  ASSUME NEW S \in SUBSET Nat, S # {}
  PROVE  \E i \in S : \A j \in S : i <= j
<1> DEFINE less == {p \in Nat \X Nat : p[1] < p[2]}
<1>1. IsWellFoundedOn(less, Nat)
  <2>1. less = OpToRel(<, Nat)
    BY DEF OpToRel
  <2> QED
    BY <2>1, NatLessThanWellFounded
<1>2. \E i \in S : \A j \in S : <<j, i>> \notin less
  <2> HIDE DEF less
  <2> QED
    BY <1>1, WFMin
<1>3. PICK i \in S : \A j \in S : <<j, i>> \notin less
  BY <1>2
<1>4. \A j \in S : i <= j
  <2> SUFFICES ASSUME NEW j \in S PROVE i <= j
    OBVIOUS
  <2>1. ~(j < i)
    BY <1>3
  <2> QED
    BY <1>3, <2>1
<1> QED
  BY <1>3, <1>4

\* A set of numbers up to n has a greatest element.
LEMMA GreatestUpTo ==
  ASSUME NEW n \in Nat, NEW S \in SUBSET (1..n), S # {}
  PROVE  \E i \in S : \A j \in S : i >= j
<1> DEFINE T == {n - i : i \in S}
<1>1. T \in SUBSET Nat /\ T # {}
  <2>1. \A i \in S : n - i \in Nat
    OBVIOUS
  <2>2. T # {}
    OBVIOUS
  <2> QED
    BY <2>1, <2>2
<1>2. PICK least \in T : \A j \in T : least <= j
  BY <1>1, LeastOfNats
<1>3. PICK i \in S : least = n - i
  BY <1>2
<1>4. \A j \in S : i >= j
  <2> SUFFICES ASSUME NEW j \in S PROVE i >= j
    OBVIOUS
  <2>1. n - j \in T
    OBVIOUS
  <2>2. n - i <= n - j
    BY <1>2, <1>3, <2>1
  <2> QED
    BY <2>2
<1> QED
  BY <1>3, <1>4

\* How many elements of the set come before f.
CountBefore(f, fields, position) == Cardinality({g \in fields : position[g] < position[f]})

\* In a set of n elements at different positions the numbers of elements that come
\* before an element are 0 .. n - 1, each of them once.
LEMMA PlacesAreNumbered ==
  ASSUME NEW fields, IsFiniteSet(fields), NEW position \in [fields -> Nat],
         \A f, g \in fields : position[f] = position[g] => f = g
  PROVE  LET place(f) == CountBefore(f, fields, position)
         IN  /\ Cardinality(fields) \in Nat
             /\ \A f \in fields : place(f) \in 0 .. (Cardinality(fields) - 1)
             /\ \A f, g \in fields : place(f) = place(g) => f = g
             /\ \A k \in 1 .. Cardinality(fields) : \E f \in fields : place(f) = k - 1
<1> DEFINE n == Cardinality(fields)
           before(f) == {g \in fields : position[g] < position[f]}
<1>1. IsFiniteSet(fields) /\ n \in Nat
  BY FS_CardinalityType
<1>2. \A f \in fields : /\ IsFiniteSet(before(f)) /\ Cardinality(before(f)) \in Nat
                        /\ Cardinality(before(f)) <= n - 1
  <2> SUFFICES ASSUME NEW f \in fields
               PROVE  /\ IsFiniteSet(before(f)) /\ Cardinality(before(f)) \in Nat
                      /\ Cardinality(before(f)) <= n - 1
    OBVIOUS
  <2>1. before(f) \in SUBSET fields /\ f \notin before(f) /\ before(f) # fields
    OBVIOUS
  <2>2. /\ IsFiniteSet(before(f)) /\ Cardinality(before(f)) \in Nat
        /\ Cardinality(before(f)) <= n /\ Cardinality(before(f)) # n
    BY <1>1, <2>1, FS_Subset, FS_CardinalityType
  <2> QED
    BY <1>1, <2>2
<1>3. \A f, g \in fields : position[f] < position[g] =>
        Cardinality(before(f)) < Cardinality(before(g))
  <2> SUFFICES ASSUME NEW f \in fields, NEW g \in fields, position[f] < position[g]
               PROVE  Cardinality(before(f)) < Cardinality(before(g))
    OBVIOUS
  <2>1. position[f] \in Nat /\ position[g] \in Nat /\ \A h \in fields : position[h] \in Nat
    OBVIOUS
  <2>2. before(f) \in SUBSET before(g) /\ f \in before(g) /\ f \notin before(f)
    BY <2>1
  <2>3. /\ Cardinality(before(f)) <= Cardinality(before(g))
        /\ Cardinality(before(f)) # Cardinality(before(g))
    BY <1>2, <2>2, FS_Subset
  <2>4. Cardinality(before(f)) \in Nat /\ Cardinality(before(g)) \in Nat
    BY <1>2
  <2> QED
    BY <2>3, <2>4
<1>4. \A f, g \in fields : Cardinality(before(f)) = Cardinality(before(g)) => f = g
  <2> SUFFICES ASSUME NEW f \in fields, NEW g \in fields, f # g
               PROVE  Cardinality(before(f)) # Cardinality(before(g))
    OBVIOUS
  <2>1. position[f] \in Nat /\ position[g] \in Nat /\ position[f] # position[g]
    OBVIOUS
  <2>2. Cardinality(before(f)) \in Nat /\ Cardinality(before(g)) \in Nat
    BY <1>2
  <2>3. CASE position[f] < position[g]
    <3>1. Cardinality(before(f)) < Cardinality(before(g))
      BY <1>3, <2>3
    <3> QED
      BY <2>2, <3>1
  <2>4. CASE position[g] < position[f]
    <3>1. Cardinality(before(g)) < Cardinality(before(f))
      BY <1>3, <2>4
    <3> QED
      BY <2>2, <3>1
  <2> QED
    BY <2>1, <2>3, <2>4
<1>5. \A f \in fields : Cardinality(before(f)) \in 0 .. (n - 1)
  <2> SUFFICES ASSUME NEW f \in fields PROVE Cardinality(before(f)) \in 0 .. (n - 1)
    OBVIOUS
  <2> DEFINE b == Cardinality(before(f))
  <2>1. b \in Nat /\ b <= n - 1 /\ n \in Nat
    BY <1>1, <1>2
  <2> HIDE DEF b, n
  <2> QED
    BY <2>1 DEF b
<1> DEFINE place == [f \in fields |-> Cardinality(before(f))]
<1>6. place \in Injection(fields, 0 .. (n - 1))
  <2>1. place \in [fields -> 0 .. (n - 1)]
    BY <1>5
  <2>2. \A f, g \in fields : place[f] = place[g] => f = g
    BY <1>4
  <2> QED
    BY <2>1, <2>2 DEF Injection, IsInjective
<1>7. IsFiniteSet(0 .. (n - 1)) /\ Cardinality(0 .. (n - 1)) = n
  BY <1>1, FS_Interval
<1>8. place \in Surjection(fields, 0 .. (n - 1))
  BY <1>6, <1>7, FS_Injection
<1>9. \A k \in 1 .. n : \E f \in fields : Cardinality(before(f)) = k - 1
  <2> SUFFICES ASSUME NEW k \in 1 .. n PROVE \E f \in fields : Cardinality(before(f)) = k - 1
    OBVIOUS
  <2>1. k - 1 \in 0 .. (n - 1)
    BY <1>1
  <2>2. \E f \in fields : place[f] = k - 1
    BY <1>8, <2>1 DEF Surjection
  <2> QED
    BY <2>2
<1> HIDE DEF before, n
<1> QED
  BY <1>1, <1>4, <1>5, <1>9 DEF n, before, CountBefore

=============================================================================
