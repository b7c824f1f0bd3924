---------------------------- MODULE CommonLemmas ----------------------------
(***************************************************************************)
(* Facts about numbers and sequences that several proofs use.               *)
(***************************************************************************)
EXTENDS Naturals, Integers, Sequences, FiniteSets, SequencesExt, FiniteSetTheorems,
        WellFoundedInduction, TLAPS

(* Induction over the natural numbers, for a set.                           *)
LEMMA NatSetInduction ==
  ASSUME NEW T, 0 \in T, \A n \in Nat : n \in T => n + 1 \in T
  PROVE  Nat \subseteq T
<1> DEFINE R == OpToRel(<, Nat)
           U == Nat \ T
<1>1. IsWellFoundedOn(R, Nat)
  BY NatLessThanWellFounded, Zenon
<1>2. \A x, y \in Nat : x < y => <<x, y>> \in R
  BY DEF OpToRel
<1> SUFFICES ASSUME U # {} PROVE FALSE
  OBVIOUS
<1> HIDE DEF R
<1>3. U \subseteq Nat
  OBVIOUS
<1> HIDE DEF U
<1>4. PICK x \in U : \A y \in U : ~(<<y, x>> \in R)
  BY <1>1, <1>3, WFMin
<1> USE DEF U
<1>5. x # 0 /\ x - 1 \in Nat /\ x - 1 < x
  BY <1>4
<1>6. x - 1 \in T
  BY <1>2, <1>4, <1>5
<1>7. QED
  BY <1>4, <1>5, <1>6

(* A set of positions that is not empty has a first and a last one.         *)
LEMMA FirstAndLast ==
  ASSUME NEW n \in Nat, NEW S \in SUBSET (1..n), S # {}
  PROVE  /\ Max(S) \in S /\ \A i \in S : i <= Max(S)
         /\ Min(S) \in S /\ \A i \in S : i >= Min(S)
<1> DEFINE Bounded(m) == \A Z \in SUBSET (1..m) : Z # {} =>
                           /\ \E x \in Z : \A y \in Z : x >= y
                           /\ \E x \in Z : \A y \in Z : x <= y
           T == {m \in Nat : Bounded(m)}
<1>1. 0 \in T
  <2>1. 1..0 = {}
    OBVIOUS
  <2>2. QED
    BY <2>1
<1>2. ASSUME NEW m \in Nat, m \in T PROVE m + 1 \in T
  <2> SUFFICES ASSUME NEW Z \in SUBSET (1..m + 1), Z # {}
               PROVE  /\ \E x \in Z : \A y \in Z : x >= y
                      /\ \E x \in Z : \A y \in Z : x <= y
    OBVIOUS
  <2>1. CASE m + 1 \notin Z
    <3>1. Z \in SUBSET (1..m)
      BY <2>1
    <3>2. QED
      BY <1>2, <3>1
  <2>2. CASE Z = {m + 1}
    BY <2>2
  <2>3. CASE m + 1 \in Z /\ Z # {m + 1}
    <3> DEFINE Y == Z \ {m + 1}
    <3>1. Y \in SUBSET (1..m) /\ Y # {}
      BY <2>3
    <3>2. PICK x \in Y : \A y \in Y : x <= y
      BY <1>2, <3>1
    <3>3. x \in Z /\ \A y \in Z : x <= y
      BY <3>2
    <3>4. \A y \in Z : m + 1 >= y
      OBVIOUS
    <3>5. QED
      BY <2>3, <3>3, <3>4
  <2>4. QED
    BY <2>1, <2>2, <2>3
<1>3. Nat \subseteq T
  <2> HIDE DEF T
  <2>1. QED
    BY <1>1, <1>2, NatSetInduction
<1>4. Bounded(n)
  BY <1>3
<1>5. QED
  BY <1>4 DEF Max, Min
=============================================================================
