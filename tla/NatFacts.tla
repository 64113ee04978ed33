------------------------------- MODULE NatFacts -------------------------------
(***************************************************************************)
(* Facts about the natural numbers that the proofs need: induction, for     *)
(* sets of numbers instead of predicates, and the least number of a set.    *)
(***************************************************************************)
EXTENDS Integers, FiniteSetTheorems, TLAPS

\* A set with 0 that is closed under successor holds every number: otherwise
\* the numbers below a missing one that it holds without a gap could be mapped,
\* one to one, to those without 0, which are fewer.
LEMMA NatInd ==
  ASSUME NEW S, 0 \in S, \A n \in Nat : n \in S => n + 1 \in S, NEW m \in Nat
  PROVE  m \in S
<1> SUFFICES ASSUME m \notin S PROVE FALSE
  OBVIOUS
<1> DEFINE D == {n \in 0..m : \A k \in 0..n : k \in S}
           E == D \ {0}
           f == [n \in D |-> n + 1]
<1>1. IsFiniteSet(D)
  <2>1. IsFiniteSet(0..m)
    BY FS_Interval
  <2>2. D \subseteq 0..m
    OBVIOUS
  <2> HIDE DEF D
  <2> QED
    BY <2>1, <2>2, FS_Subset
<1>2. 0 \in D
  OBVIOUS
<1>3. f \in Injection(D, E)
  <2>1. ASSUME NEW n \in D PROVE n + 1 \in D /\ n + 1 # 0
    <3>1. n \in 0..m /\ n \in S
      OBVIOUS
    <3>2. n # m
      BY <3>1
    <3>3. n + 1 \in 0..m /\ n + 1 \in S
      BY <3>1, <3>2
    <3>4. ASSUME NEW k \in 0..(n + 1) PROVE k \in S
      <4>1. k \in 0..n \/ k = n + 1
        BY <3>1
      <4> QED
        BY <4>1, <3>3
    <3> QED
      BY <3>1, <3>3, <3>4
  <2>2. \A n \in D : n \in Nat
    OBVIOUS
  <2> HIDE DEF D
  <2>3. f \in [D -> E]
    BY <2>1
  <2>4. \A a, b \in D : f[a] = f[b] => a = b
    BY <2>2
  <2> QED
    BY <2>3, <2>4 DEF Injection, IsInjective
<1>4. IsFiniteSet(E) /\ Cardinality(E) = Cardinality(D) - 1
  <2> HIDE DEF D
  <2> QED
    BY <1>1, <1>2, FS_RemoveElement
<1>5. Cardinality(D) <= Cardinality(E)
  <2> HIDE DEF D, E, f
  <2> QED
    BY <1>3, <1>4, FS_Injection
<1> HIDE DEF D, E
<1> QED
  BY <1>1, <1>4, <1>5, FS_CardinalityType

\* A set of numbers that is not empty has a least one.
LEMMA NatLeast ==
  ASSUME NEW S, S \subseteq Nat, S # {}
  PROVE  \E m \in S : \A n \in S : m <= n
<1> SUFFICES ASSUME \A m \in S : \E n \in S : ~(m <= n)
             PROVE  FALSE
  OBVIOUS
<1> DEFINE T == {n \in Nat : \A k \in S : n <= k}
<1>1. 0 \in T
  OBVIOUS
<1>2. ASSUME NEW n \in Nat, n \in T PROVE n + 1 \in T
  <2>1. n \notin S
    BY <1>2
  <2>2. \A k \in S : n <= k /\ k # n
    BY <1>2, <2>1
  <2> QED
    BY <2>2
<1>3. PICK s \in S : TRUE
  OBVIOUS
<1>4. s + 1 \in T
  <2> HIDE DEF T
  <2> QED
    BY <1>1, <1>2, <1>3, NatInd
<1> QED
  BY <1>3, <1>4
=============================================================================
