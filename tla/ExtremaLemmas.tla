---------------------------- MODULE ExtremaLemmas ----------------------------
(***************************************************************************)
(* What Min and Max of the community modules return, from the well-founded *)
(* order of the natural numbers.                                           *)
(***************************************************************************)
EXTENDS Integers, FiniteSetsExt, WellFoundedInduction, TLAPS

\* A set of natural numbers has a least element, and Min is it.
LEMMA MinOfNats ==
  ASSUME NEW S \in SUBSET Nat, S # {}
  PROVE  Min(S) \in S /\ \A n \in S : Min(S) <= n
<1> DEFINE Below == {ss \in Nat \X Nat : ss[1] < ss[2]}
<1>1. Below = OpToRel(<, Nat)
  BY Zenon DEF OpToRel
<1>2. IsWellFoundedOn(Below, Nat)
  BY <1>1, NatLessThanWellFounded, Zenon
<1> HIDE DEF Below
<1>3. PICK m \in S : \A n \in S : ~ (<<n, m>> \in Below)
  BY <1>2, WFMin, Zenon
<1>4. ASSUME NEW n \in S PROVE m <= n
  <2>1. n < m => <<n, m>> \in Below
    BY DEF Below
  <2>2. QED
    BY <1>3, <2>1
<1>5. QED
  BY <1>3, <1>4 DEF Min

\* A set of natural numbers with a bound has a greatest element, and Max is it.
LEMMA MaxOfNats ==
  ASSUME NEW S \in SUBSET Nat, S # {}, NEW bound \in Nat, \A m \in S : m <= bound
  PROVE  Max(S) \in S /\ \A m \in S : m <= Max(S)
<1> DEFINE Bounds == {b \in Nat : \A m \in S : m <= b}
           top == Min(Bounds)
<1>1. bound \in Bounds /\ Bounds \in SUBSET Nat
  OBVIOUS
<1>2. top \in Bounds /\ \A b \in Bounds : top <= b
  <2> HIDE DEF Bounds
  <2>1. QED
    BY <1>1, MinOfNats
<1>3. PICK b \in Nat : b = top /\ \A m \in S : m <= b
  BY <1>2
<1>4. b \in S
  <2> SUFFICES ASSUME b \notin S PROVE FALSE
    OBVIOUS
  <2>1. \A m \in S : m <= b - 1
    BY <1>3
  <2>2. b - 1 \in Nat
    <3>1. PICK m \in S : m <= b - 1
      BY <2>1
    <3>2. QED
      BY <1>3, <3>1
  <2>3. b - 1 \in Bounds
    BY <2>1, <2>2
  <2> HIDE DEF Bounds, top
  <2>4. QED
    BY <1>2, <1>3, <2>3
<1>5. QED
  BY <1>3, <1>4 DEF Max
==============================================================================
