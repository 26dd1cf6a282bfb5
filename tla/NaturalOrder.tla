---------------------------- MODULE NaturalOrder ----------------------------
(***************************************************************************)
(* The order of the natural numbers is well-founded: least and greatest    *)
(* elements of sets of numbers, and induction over a set of numbers, for   *)
(* the proofs about the other modules; and that a recursion over the       *)
(* subsets of a finite set has a solution, which is what the folds of the  *)
(* library are.  All are stated about sets and functions, and not about a  *)
(* predicate P(_) or an operator, so that every prover can apply them.     *)
(***************************************************************************)
EXTENDS Integers, FiniteSetTheorems, WellFoundedInduction, TLAPS

\* There is a well-founded relation that contains the order of the numbers.
LEMMA WellFounded ==
  \E R : IsWellFoundedOn(R, Nat) /\ \A x, y \in Nat : y < x => <<y, x>> \in R
<1>1. \A x, y \in Nat : y < x => <<y, x>> \in OpToRel(<, Nat)
  BY DEF OpToRel
<1> QED
  BY <1>1, NatLessThanWellFounded, Zenon

\* A set of natural numbers that is not empty has a least element.
THEOREM LeastElement ==
  ASSUME NEW T, T \subseteq Nat, T # {}
  PROVE  \E x \in T : \A y \in T : x <= y
<1>1. PICK R : IsWellFoundedOn(R, Nat) /\ \A x, y \in Nat : y < x => <<y, x>> \in R
  BY WellFounded, Zenon
<1>2. PICK x \in T : \A y \in T : ~ (<<y, x>> \in R)
  BY <1>1, WFMin, Zenon
<1>3. ASSUME NEW y \in T
      PROVE  x <= y
  <2>1. ~ (y < x)
    BY <1>1, <1>2
  <2> QED
    BY <2>1
<1> QED
  BY <1>3

\* If it is bounded, it has a greatest element.
THEOREM GreatestElement ==
  ASSUME NEW n \in Nat, NEW T, T \subseteq 0 .. n, T # {}
  PROVE  \E x \in T : \A y \in T : x >= y
<1> DEFINE U == {n - x : x \in T}
<1>1. PICK u \in U : \A v \in U : u <= v
  <2>1. U \subseteq Nat
    OBVIOUS
  <2>2. U # {}
    <3>1. PICK x : x \in T
      OBVIOUS
    <3> QED
      BY <3>1, n - x \in U
  <2> HIDE DEF U
  <2> QED
    BY <2>1, <2>2, LeastElement
<1>2. PICK x \in T : u = n - x
  OBVIOUS
<1>3. ASSUME NEW y \in T
      PROVE  x >= y
  BY <1>1, <1>2, n - y \in U
<1> QED
  BY <1>3

\* Induction: a set that has 0, and with every number the next one, has them all.
THEOREM NumbersByInduction ==
  ASSUME NEW S, 0 \in S, \A n \in Nat : n \in S => n + 1 \in S
  PROVE  Nat \subseteq S
<1> SUFFICES ASSUME Nat \ S # {}
             PROVE  FALSE
  OBVIOUS
<1>1. PICK x \in Nat \ S : \A y \in Nat \ S : x <= y
  BY LeastElement
<1> QED
  BY <1>1, x - 1 \in Nat, x - 1 < x

\* c names an element of every subset of T, and g is a step from a value to the
\* next with such an element.
Chooses(c, T) == \A s \in SUBSET T : s # {} => c[s] \in s

Steps(g, V, T) == g \in [V \X T -> V]

Recursion(h, T, base, c, g) ==
    /\ h[{}] = base
    /\ \A s \in SUBSET T : s # {} => h[s] = g[<<h[s \ {c[s]}], c[s]>>]

\* A recursion that takes one element after the other away from a finite set has
\* a solution.
THEOREM RecursionOverSubsets ==
  ASSUME NEW T, IsFiniteSet(T), NEW V, NEW base \in V,
         NEW g, Steps(g, V, T), NEW c, Chooses(c, T)
  PROVE  \E h \in [SUBSET T -> V] : Recursion(h, T, base, c, g)
<1> USE DEF Chooses, Steps
<1> DEFINE Small(k) == {s \in SUBSET T : Cardinality(s) <= k}
           Solves(h, k) ==
               /\ h[{}] = base
               /\ \A s \in Small(k) : s # {} => h[s] = g[<<h[s \ {c[s]}], c[s]>>]
           Solved == {k \in Nat : \E h \in [Small(k) -> V] : Solves(h, k)}
<1>1. \A s \in SUBSET T : Cardinality(s) \in Nat /\ Cardinality(s) <= Cardinality(T)
  <2>1. ASSUME NEW s \in SUBSET T
        PROVE  Cardinality(s) \in Nat /\ Cardinality(s) <= Cardinality(T)
    <3>1. IsFiniteSet(s) /\ Cardinality(s) <= Cardinality(T)
      BY FS_Subset
    <3> QED
      BY <3>1, FS_CardinalityType
  <2> QED
    BY <2>1
<1>2. \A k \in Nat : {} \in Small(k)
  BY FS_EmptySet
<1>3. \A s \in SUBSET T : \A k \in Nat :
         s # {} /\ s \in Small(k + 1) => s \ {c[s]} \in Small(k)
  <2> SUFFICES ASSUME NEW s \in SUBSET T, NEW k \in Nat, s # {}, s \in Small(k + 1)
               PROVE  s \ {c[s]} \in Small(k)
    OBVIOUS
  <2>1. IsFiniteSet(s) /\ c[s] \in s
    BY FS_Subset
  <2>2. Cardinality(s \ {c[s]}) = Cardinality(s) - 1
    BY <2>1, FS_RemoveElement
  <2> QED
    BY <1>1, <2>2
<1>4. \A k \in Nat : Small(k) \subseteq Small(k + 1)
  BY <1>1
<1>5. 0 \in Solved
  <2> DEFINE h == [s \in Small(0) |-> base]
  <2>1. \A s \in Small(0) : s = {}
    <3>1. ASSUME NEW s \in Small(0)
          PROVE  s = {}
      <4>1. IsFiniteSet(s) /\ Cardinality(s) = 0
        BY <1>1, FS_Subset
      <4> QED
        BY <4>1, FS_EmptySet
    <3> QED
      BY <3>1
  <2>2. h \in [Small(0) -> V] /\ h[{}] = base
    BY <1>2
  <2> QED
    BY <2>1, <2>2
<1>6. ASSUME NEW k \in Nat, k \in Solved
      PROVE  k + 1 \in Solved
  <2>1. PICK h \in [Small(k) -> V] : Solves(h, k)
    BY <1>6
  <2> DEFINE e == [s \in Small(k + 1) |-> IF s = {} THEN base ELSE g[<<h[s \ {c[s]}], c[s]>>]]
  <2>2. \A s \in Small(k + 1) : s # {} =>
           c[s] \in T /\ s \ {c[s]} \in Small(k) /\ h[s \ {c[s]}] \in V
    <3> HIDE DEF Small, Solves
    <3> QED
      BY <1>3, <2>1 DEF Small
  <2>3. e \in [Small(k + 1) -> V]
    <3> HIDE DEF Small, Solves
    <3> QED
      BY <2>2
  <2>4. \A s \in Small(k) : e[s] = h[s]
    <3> HIDE DEF Small
    <3> QED
      BY <1>4, <2>1
  <2>5. e[{}] = base
    <3> HIDE DEF Small
    <3> QED
      BY <1>2
  <2>6. \A s \in Small(k + 1) : s # {} => e[s] = g[<<e[s \ {c[s]}], c[s]>>]
    <3> HIDE DEF Small
    <3> QED
      BY <2>2, <2>4
  <2> HIDE DEF e, Small
  <2> QED
    BY <2>3, <2>5, <2>6
<1>7. Cardinality(T) \in Solved
  <2> HIDE DEF Solved
  <2> QED
    BY <1>5, <1>6, NumbersByInduction, FS_CardinalityType
<1>8. Small(Cardinality(T)) = SUBSET T
  BY <1>1
<1>9. \E h \in [SUBSET T -> V] : Solves(h, Cardinality(T))
  <2> HIDE DEF Small, Solves
  <2> QED
    BY <1>7, <1>8
<1> QED
  <2> HIDE DEF Small
  <2> QED
    BY <1>8, <1>9 DEF Recursion
=============================================================================
