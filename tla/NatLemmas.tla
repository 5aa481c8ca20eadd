------------------------------ MODULE NatLemmas ------------------------------
(***************************************************************************)
(* Facts about natural numbers that the proofs of several components use.  *)
(* Induction is stated with a set instead of a predicate: a set can be     *)
(* instantiated by every prover.                                           *)
(***************************************************************************)
EXTENDS FiniteSetTheorems, TLAPS

(* A set of natural numbers has a smallest one *)
LEMMA NatSetMin ==
    ASSUME NEW T, T \subseteq Nat, T # {}
    PROVE  \E x \in T : \A y \in T : x <= y
<1>1. PICK x \in T : \A y \in T : ~(<<y, x>> \in OpToRel(<, Nat))
  BY NatLessThanWellFounded, WFMin
<1>2. \A y \in T : ~(y < x)
  BY <1>1 DEF OpToRel
<1> QED BY <1>2

(* A set that holds 0, and with every number the next, holds all *)
LEMMA SetInduction ==
    ASSUME NEW S, 0 \in S, \A n \in Nat : n \in S => n + 1 \in S
    PROVE  Nat \subseteq S
<1> SUFFICES ASSUME ~(Nat \subseteq S) PROVE FALSE
  OBVIOUS
<1>1. PICK n \in Nat \ S : \A m \in Nat \ S : n <= m
  BY NatSetMin
<1>2. n # 0 /\ n - 1 \in Nat /\ n - 1 < n
  BY <1>1
<1>3. n - 1 \in S
  BY <1>1, <1>2
<1>4. (n - 1) + 1 \in S
  BY <1>2, <1>3
<1> QED BY <1>1, <1>4

(* A set has twice as many subsets as the set without one of its elements *)
LEMMA TwiceThePower ==
    ASSUME NEW n \in Nat
    PROVE  2^n \in Nat \ {0} /\ 2^(n + 1) = 2 * 2^n
<1> DEFINE P == SUBSET (1 .. n)
           Q == {B \cup {n + 1} : B \in P}
           f == [B \in P |-> B \cup {n + 1}]
<1>1. IsFiniteSet(1 .. n) /\ Cardinality(1 .. n) = n
  BY FS_Interval
<1>2. IsFiniteSet(P) /\ Cardinality(P) = 2^n /\ Cardinality(P) \in Nat
  BY <1>1, FS_SUBSET, FS_CardinalityType
<1>3. IsFiniteSet(1 .. n + 1) /\ Cardinality(1 .. n + 1) = n + 1
  BY FS_Interval
<1>4. Cardinality(SUBSET (1 .. n + 1)) = 2^(n + 1)
  BY <1>3, FS_SUBSET
<1>5. \A B \in P : n + 1 \notin B
  OBVIOUS
<1>6. IsFiniteSet(Q) /\ Cardinality(Q) = Cardinality(P)
  <2>1. f \in [P -> Q] /\ \A B \in P : f[B] = B \cup {n + 1}
    OBVIOUS
  <2>2. ASSUME NEW A \in P, NEW B \in P, f[A] = f[B] PROVE A = B
    <3>1. A \cup {n + 1} = B \cup {n + 1} /\ n + 1 \notin A /\ n + 1 \notin B
      BY <1>5, <2>1, <2>2
    <3>2. A = (A \cup {n + 1}) \ {n + 1} /\ B = (B \cup {n + 1}) \ {n + 1}
      BY <3>1
    <3> QED BY <3>1, <3>2, Zenon
  <2>3. \A C \in Q : \E B \in P : f[B] = C
    BY <2>1, Zenon
  <2> HIDE DEF P, Q, f
  <2>4. f \in Bijection(P, Q)
    BY <2>1, <2>2, <2>3 DEF Bijection, Injection, Surjection, IsInjective
  <2>5. ExistsBijection(P, Q)
    BY <2>4 DEF ExistsBijection
  <2> QED BY <1>2, <2>5, FS_Bijection
<1>7. P \cap Q = {}
  BY <1>5
<1>8. SUBSET (1 .. n + 1) = P \cup Q
  <2>1. ASSUME NEW B \in SUBSET (1 .. n + 1) PROVE B \in P \cup Q
    <3>1. CASE n + 1 \in B
      <4>1. B = (B \ {n + 1}) \cup {n + 1} /\ B \ {n + 1} \in P
        BY <3>1
      <4> QED BY <4>1
    <3>2. CASE n + 1 \notin B
      BY <3>2
    <3> QED BY <3>1, <3>2
  <2>2. ASSUME NEW B \in P PROVE B \in SUBSET (1 .. n + 1) /\ B \cup {n + 1} \in SUBSET (1 .. n + 1)
    OBVIOUS
  <2>3. \A C \in Q : \E B \in P : C = B \cup {n + 1}
    OBVIOUS
  <2>4. ASSUME NEW C \in P \cup Q PROVE C \in SUBSET (1 .. n + 1)
    <3>1. CASE C \in P
      BY <2>2, <3>1, Zenon
    <3>2. CASE C \in Q
      <4>1. PICK B \in P : C = B \cup {n + 1}
        BY <2>3, <3>2, Zenon
      <4> QED BY <2>2, <4>1, Zenon
    <3> QED BY <3>1, <3>2, Zenon
  <2> QED BY <2>1, <2>4, Zenon
<1>8a. Cardinality(P) # 0
  <2>1. P # {}
    OBVIOUS
  <2> QED BY <1>2, <2>1, FS_EmptySet
<1>9. Cardinality(P \cap Q) = 0
  BY <1>7, FS_EmptySet
<1> HIDE DEF P, Q
<1>10. Cardinality(P \cup Q) = Cardinality(P) + Cardinality(Q) - Cardinality(P \cap Q)
  BY <1>2, <1>6, FS_Union
<1>11. Cardinality(P \cup Q) = 2 * Cardinality(P)
  BY <1>2, <1>6, <1>9, <1>10
<1> QED BY <1>2, <1>4, <1>8, <1>8a, <1>11

=============================================================================
