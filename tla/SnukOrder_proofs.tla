--------------------------- MODULE SnukOrder_proofs ---------------------------
(***************************************************************************)
(* The well-ordering of the naturals, as the other proofs need it: where a *)
(* model chooses the nearest, the first or the last position with some     *)
(* property, that position exists.                                         *)
(***************************************************************************)
EXTENDS Naturals, WellFoundedInduction, TLAPS

LEMMA LessThan == \A x, y \in Nat : x < y => <<x, y>> \in OpToRel(<, Nat)
  BY DEF OpToRel

\* A set of naturals has a least element.
LEMMA Smallest ==
    ASSUME NEW S \in SUBSET Nat, S # {}
    PROVE  \E m \in S : \A k \in S : m <= k
<1>1. PICK m \in S : \A k \in S : ~(<<k, m>> \in OpToRel(<, Nat))
  BY NatLessThanWellFounded, WFMin
<1>2. \A k \in S : ~(k < m)
  BY <1>1, LessThan
<1> QED BY <1>2

\* A bounded one has a greatest element.
LEMMA Greatest ==
    ASSUME NEW n \in Nat, NEW S \in SUBSET (0 .. n), S # {}
    PROVE  \E m \in S : \A k \in S : k <= m
<1> DEFINE T == {d \in Nat : n - d \in S}
<1>1. T \in SUBSET Nat
  OBVIOUS
<1>2. \A k \in S : n - k \in T
  <2> TAKE k \in S
  <2>1. k \in 0 .. n /\ n - k \in Nat /\ n - (n - k) = k
    OBVIOUS
  <2> QED BY <2>1
<1>3. \A d \in T : d \in Nat /\ n - d \in S
  OBVIOUS
<1> HIDE DEF T
<1>4. PICK d \in T : \A e \in T : d <= e
  BY <1>1, <1>2, Smallest
<1>5. \A k \in S : k <= n - d
  <2> TAKE k \in S
  <2>1. d <= n - k /\ d \in Nat /\ k \in Nat
    BY <1>2, <1>3, <1>4
  <2> QED BY <2>1
<1> QED BY <1>3, <1>4, <1>5
=============================================================================
