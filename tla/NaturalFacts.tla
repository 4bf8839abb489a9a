----------------------------- MODULE NaturalFacts -----------------------------
(* Least and greatest elements of sets of naturals.                        *)
EXTENDS Integers, WellFoundedInduction, TLAPS

(* A non-empty set of naturals has a least element. *)
LEMMA LeastNatural ==
  ASSUME NEW T, T \subseteq Nat, T # {}
  PROVE  \E x \in T : \A y \in T : x <= y
<1> DEFINE Below == {ss \in Nat \X Nat : ss[1] < ss[2]}
<1>1. IsWellFoundedOn(OpToRel(<, Nat), Nat)
  BY NatLessThanWellFounded
<1>2. OpToRel(<, Nat) = Below
  BY DEF OpToRel
<1>3. \E x \in T : \A y \in T : ~(<<y, x>> \in OpToRel(<, Nat))
  BY <1>1, WFMin, Zenon
<1>4. \E x \in T : \A y \in T : <<y, x>> \notin Below
  BY <1>2, <1>3, Zenon
<1>5. ASSUME NEW x \in T, NEW y \in T, <<y, x>> \notin Below
      PROVE  x <= y
  BY <1>5
<1> QED
  BY <1>4, <1>5

(* A non-empty set of naturals with an upper bound has a greatest element. *)
LEMMA GreatestNatural ==
  ASSUME NEW b \in Nat, NEW S, S \subseteq 0 .. b, S # {}
  PROVE  \E x \in S : \A y \in S : y <= x
<1> DEFINE T == {b - y : y \in S}
<1>1. T # {}
  OBVIOUS
<1>2. T \subseteq Nat
  OBVIOUS
<1>3. PICK m \in T : \A n \in T : m <= n
  BY <1>1, <1>2, LeastNatural
<1>4. PICK x \in S : m = b - x
  BY <1>3
<1>5. ASSUME NEW y \in S
      PROVE  y <= x
  <2>1. x \in 0 .. b /\ y \in 0 .. b
    OBVIOUS
  <2>2. b - x <= b - y
    BY <1>3, <1>4
  <2> HIDE DEF T
  <2> QED BY <2>1, <2>2
<1> QED
  BY <1>5
=============================================================================
