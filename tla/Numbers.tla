------------------------------- MODULE Numbers -------------------------------
(* Facts about natural numbers and about the least and the greatest element   *)
(* of a set of them, for the proofs of the other modules.                     *)
EXTENDS Integers, FiniteSetsExt, WellFoundedInduction, TLAPS

LEMMA MinOfTwo ==
  ASSUME NEW a \in Int, NEW b \in Int
  PROVE  Min({a, b}) \in {a, b} /\ Min({a, b}) <= a /\ Min({a, b}) <= b
<1>1. \E x \in {a, b} : \A y \in {a, b} : x <= y
  <2>1. CASE a <= b
    BY <2>1
  <2>2. CASE b <= a
    BY <2>2
  <2> QED
    BY <2>1, <2>2
<1>2. Min({a, b}) \in {a, b} /\ \A y \in {a, b} : Min({a, b}) <= y
  BY <1>1 DEF Min
<1> QED
  BY <1>2

LEMMA MaxOfTwo ==
  ASSUME NEW a \in Int, NEW b \in Int
  PROVE  Max({a, b}) \in {a, b} /\ a <= Max({a, b}) /\ b <= Max({a, b})
<1>1. \E x \in {a, b} : \A y \in {a, b} : x >= y
  <2>1. CASE a <= b
    BY <2>1
  <2>2. CASE b <= a
    BY <2>2
  <2> QED
    BY <2>1, <2>2
<1>2. Max({a, b}) \in {a, b} /\ \A y \in {a, b} : Max({a, b}) >= y
  BY <1>1 DEF Max
<1> QED
  BY <1>2

\* A set of naturals that is not empty has a least element.
LEMMA LeastNatural ==
  ASSUME NEW S \in SUBSET Nat, S # {}
  PROVE  Min(S) \in S /\ \A y \in S : Min(S) <= y
<1>1. \E x \in S : \A y \in S : ~(y < x)
  <2>1. PICK R : /\ IsWellFoundedOn(R, Nat)
                 /\ \A x, y \in Nat : y < x => <<y, x>> \in R
    <3>1. IsWellFoundedOn({ss \in Nat \X Nat : ss[1] < ss[2]}, Nat)
      BY NatLessThanWellFounded, Zenon DEF OpToRel
    <3> QED
      BY <3>1
  <2>2. PICK x \in S : \A y \in S : <<y, x>> \notin R
    BY <2>1, WFMin, Zenon
  <2> QED
    BY <2>1, <2>2
<1>2. \E x \in S : \A y \in S : x <= y
  BY <1>1
<1> QED
  BY <1>2 DEF Min

\* Below a bound it has a greatest one.
LEMMA GreatestNatural ==
  ASSUME NEW n \in Nat, NEW S \in SUBSET (0..n), S # {}
  PROVE  Max(S) \in S /\ \A y \in S : Max(S) >= y
<1> DEFINE T == {n - x : x \in S}
<1>1. T \in SUBSET Nat /\ T # {}
  <2>1. \A x \in S : n - x \in Nat /\ n - x \in T
    OBVIOUS
  <2> QED
    BY <2>1
<1>2. PICK x \in S : Min(T) = n - x
  BY <1>1, LeastNatural
<1>3. \A y \in S : n - x <= n - y
  BY <1>1, <1>2, LeastNatural
<1>4. \A y \in S : x >= y
  BY <1>3
<1> QED
  BY <1>4 DEF Max
=============================================================================
