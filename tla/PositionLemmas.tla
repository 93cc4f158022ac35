--------------------------- MODULE PositionLemmas ---------------------------
(***************************************************************************)
(* A fact about positions in a sequence that the proofs about the queues   *)
(* share.                                                                  *)
(***************************************************************************)
EXTENDS Naturals, FiniteSetTheorems, WellFoundedInduction, TLAPS

\* A set of numbers up to n has a greatest element.
LEMMA Greatest ==
    ASSUME NEW n \in Nat, NEW S \in SUBSET (1..n), S # {}
    PROVE  \E m \in S : \A k \in S : k <= m
<1> DEFINE R == StrictSubsetOrdering(1..n)
           T == {k..n : k \in S}
<1>1. IsWellFoundedOn(R, SUBSET (1..n))
  <2>1. 1 \in Int /\ n \in Int
    BY SMT
  <2>2. IsFiniteSet(1..n)
    BY <2>1, FS_Interval, Zenon
  <2>3. FiniteSubsetsOf(1..n) = SUBSET (1..n)
    BY <2>2, FS_FiniteSubsetsOfFinite, Zenon
  <2> QED BY <2>3, FS_StrictSubsetOrderingWellFounded, Zenon
<1>2. T \subseteq SUBSET (1..n) /\ T # {}
  <2>1. \A k \in S : k..n \subseteq 1..n
    BY SMT
  <2> QED BY <2>1, Zenon
<1>3. PICK x \in T : \A y \in T : <<y, x>> \notin R
  <2> HIDE DEF R, T
  <2> QED BY <1>1, <1>2, WFMin, Zenon
<1>4. PICK m \in S : x = m..n
  BY SMT
<1>5. ASSUME NEW k \in S, k > m
      PROVE  FALSE
  <2>1. k..n \in T
    OBVIOUS
  <2>2. <<k..n, m..n>> \notin R
    BY <1>3, <1>4, <2>1, Zenon
  <2>3. k..n \in SUBSET (1..n) /\ m..n \in SUBSET (1..n)
    BY SMT
  <2>4. k..n \subseteq m..n /\ m \in m..n /\ m \notin k..n
    BY <1>5, SMT
  <2> QED BY <2>2, <2>3, <2>4, SMT DEF StrictSubsetOrdering
<1> QED BY <1>5, SMT
=============================================================================
