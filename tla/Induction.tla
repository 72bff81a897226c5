----------------------------- MODULE Induction -----------------------------
(***************************************************************************)
(* Induction over the natural numbers, stated for a set instead of a       *)
(* predicate, and the two facts about sets of numbers it goes with.        *)
(***************************************************************************)
EXTENDS Integers, WellFoundedInduction, TLAPS

(* A set of natural numbers that is not empty has a least element.         *)
LEMMA Least ==
    ASSUME NEW T, T \subseteq Nat, T # {}
    PROVE  \E x \in T : \A y \in T : x <= y
  <1> DEFINE R == OpToRel(<, Nat)
  <1>1. IsWellFoundedOn(R, Nat)
    BY NatLessThanWellFounded, Zenon
  <1>2. \A x, y \in Nat : y < x => <<y, x>> \in R
    BY DEF OpToRel
  <1> HIDE DEF R
  <1>3. PICK x \in T : \A y \in T : ~ (<<y, x>> \in R)
    BY <1>1, WFMin
  <1>4. ASSUME NEW y \in T PROVE x <= y
    <2>1. x \in Nat /\ y \in Nat
      OBVIOUS
    <2>2. ~ (y < x)
      BY <1>2, <1>3, <2>1
    <2>3. QED
      BY <2>1, <2>2
  <1>5. QED
    BY <1>4

(* A bounded one has a greatest element.                                    *)
LEMMA Greatest ==
    ASSUME NEW n \in Nat, NEW T, T \subseteq 0 .. n, T # {}
    PROVE  \E x \in T : \A y \in T : y <= x
  <1> DEFINE U == {m \in Nat : \E y \in T : m = n - y}
  <1>1. PICK t \in T : TRUE
    OBVIOUS
  <1>2. U \subseteq Nat /\ n - t \in U
    OBVIOUS
  <1>3. PICK m \in U : \A k \in U : m <= k
    <2> HIDE DEF U
    <2>1. QED
      BY <1>2, Least
  <1>4. PICK x \in T : m = n - x
    OBVIOUS
  <1>5. ASSUME NEW y \in T PROVE y <= x
    <2>1. n - y \in U
      OBVIOUS
    <2>2. m <= n - y
      BY <1>3, <2>1
    <2>3. QED
      BY <2>2, <1>4
  <1>6. QED
    BY <1>5

(* A set with 0 and the successor of each of its members holds all numbers. *)
LEMMA NatInductionSet ==
    ASSUME NEW S, 0 \in S, \A n \in Nat : n \in S => n + 1 \in S
    PROVE  Nat \subseteq S
  <1> SUFFICES ASSUME Nat \ S # {} PROVE FALSE
    OBVIOUS
  <1> DEFINE T == Nat \ S
  <1>1. PICK x \in T : \A y \in T : x <= y
    <2>1. T \subseteq Nat /\ T # {}
      OBVIOUS
    <2> HIDE DEF T
    <2>2. QED
      BY <2>1, Least
  <1>2. x \in Nat /\ x # 0 /\ x \notin S
    OBVIOUS
  <1>3. x - 1 \in S
    <2>1. x - 1 \in Nat /\ ~ (x <= x - 1)
      BY <1>2
    <2>2. QED
      BY <1>1, <2>1
  <1>4. x - 1 \in Nat /\ (x - 1) + 1 = x
    BY <1>2
  <1>5. QED
    BY <1>2, <1>3, <1>4
=============================================================================
