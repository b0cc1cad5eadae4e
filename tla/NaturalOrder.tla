---------------------------- MODULE NaturalOrder ----------------------------
(***************************************************************************)
(* First-order consequences of the well-foundedness of < on Nat, which the *)
(* proofs of this project use in place of induction.                       *)
(***************************************************************************)
EXTENDS Integers, WellFoundedInduction, TLAPS

\* A non-empty set of naturals has a least element.
LEMMA LeastElement ==
    ASSUME NEW T \in SUBSET Nat, T # {}
    PROVE  \E x \in T : \A y \in T : x <= y
<1> DEFINE R == OpToRel(<, Nat)
<1>1. IsWellFoundedOn(R, Nat)
  BY ZenonT(60), NatLessThanWellFounded
<1>2. \A x, y \in Nat : y < x => <<y, x>> \in R
  BY DEF OpToRel
<1> HIDE DEF R
<1>3. PICK x \in T : \A y \in T : ~ (<<y, x>> \in R)
  BY ZenonT(60), <1>1, WFMin
<1>4. \A y \in T : ~ (y < x)
  BY ZenonT(60), <1>2, <1>3
<1>5. QED
  BY <1>4

\* A non-empty set of numbers between 1 and n has a greatest element.
LEMMA GreatestElement ==
    ASSUME NEW n \in Nat, NEW T \in SUBSET (1 .. n), T # {}
    PROVE  \E x \in T : \A y \in T : y <= x
<1> DEFINE U == {u \in Nat : \E x \in T : u = n - x}
<1>1. \A y \in T : n - y \in U
  OBVIOUS
<1>2. U # {}
  BY ZenonT(60), <1>1
<1>3. PICK u \in U : \A v \in U : u <= v
  BY ZenonT(60), <1>2, LeastElement
<1>4. PICK x \in T : u = n - x
  BY <1>3
<1>5. \A y \in T : y <= x
  BY <1>1, <1>3, <1>4
<1>6. QED
  BY <1>5

==============================================================================
