----------------------------- MODULE LeastElement -----------------------------
EXTENDS Naturals, FiniteSetTheorems, TLAPS

(* A set of natural numbers has a least element: the intervals below its   *)
(* elements are finite sets, and strict inclusion of those is well founded. *)
LEMMA HasLeast ==
  ASSUME NEW S \in SUBSET Nat, S # {}
  PROVE  \E m \in S : \A n \in S : m <= n
<1> DEFINE below == {1..n : n \in S}
<1>1. below \subseteq FiniteSubsetsOf(Nat) /\ below # {}
  <2>1. \A n \in S : 1..n \subseteq Nat /\ IsFiniteSet(1..n)
    BY FS_Interval
  <2> QED BY <2>1 DEF FiniteSubsetsOf
<1> DEFINE order == StrictSubsetOrdering(Nat)
<1>2. \E x \in below : \A y \in below : ~(<<y, x>> \in order)
  <2>1. IsWellFoundedOn(order, FiniteSubsetsOf(Nat))
    BY FS_StrictSubsetOrderingWellFounded
  <2> HIDE DEF order, below
  <2> QED BY <2>1, <1>1, WFMin
<1>3. PICK m \in S : \A n \in S : ~(<<1..n, 1..m>> \in order)
  BY <1>2
<1>4. ASSUME NEW n \in S, n < m PROVE FALSE
  <2>1. 1..n \subseteq 1..m /\ m \in 1..m /\ m \notin 1..n
    BY <1>4
  <2>2. 1..n \in SUBSET Nat /\ 1..m \in SUBSET Nat
    OBVIOUS
  <2>3. <<1..n, 1..m>> \in order
    BY <2>1, <2>2 DEF StrictSubsetOrdering
  <2> QED BY <2>3, <1>3
<1> QED BY <1>4
===============================================================================
