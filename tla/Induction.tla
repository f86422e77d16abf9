------------------------------ MODULE Induction ------------------------------
(***************************************************************************)
(* Induction and recursion over the natural numbers, stated of sets and     *)
(* functions: unlike the library's theorems these take no operator.  They   *)
(* are for the definitions of the models that are recursive functions.      *)
(***************************************************************************)
EXTENDS Integers, WellFoundedInduction, TLAPS

\* What holds of 0, and of n + 1 when it does of n, holds of every number.
LEMMA SetInduction ==
  ASSUME NEW T, 0 \in T, \A n \in Nat : n \in T => n + 1 \in T
  PROVE  Nat \subseteq T
PROOF
  <1> DEFINE R == OpToRel(<, Nat)
  <1> SUFFICES ASSUME Nat \ T # {}  PROVE  FALSE
    OBVIOUS
  <1>1. PICK least \in Nat \ T : \A n \in Nat \ T : <<n, least>> \notin R
    <2>1. IsWellFoundedOn(R, Nat)
      BY NatLessThanWellFounded
    <2> HIDE DEF R
    <2> QED
      BY <2>1, WFMin
  <1>2. least # 0 /\ least - 1 \in Nat \ T
    OBVIOUS
  <1>3. <<least - 1, least>> \in R
    BY <1>2 DEF OpToRel
  <1> QED
    BY <1>1, <1>2, <1>3

\* A set of numbers that is not empty has a least one.
LEMMA Least ==
  ASSUME NEW S \in SUBSET Nat, S # {}
  PROVE  \E least \in S : \A n \in S : least <= n
PROOF
  <1> DEFINE T == {n \in Nat : \A m \in 0..n : m \notin S}
  <1> SUFFICES ASSUME ~\E least \in S : \A n \in S : least <= n
               PROVE  FALSE
    OBVIOUS
  <1>1. 0 \in T
    OBVIOUS
  <1>2. ASSUME NEW n \in Nat, n \in T  PROVE  n + 1 \in T
    <2>1. n + 1 \notin S
      <3>1. \A m \in S : n + 1 <= m
        BY <1>2
      <3> QED
        BY <3>1
    <2> QED
      BY <1>2, <2>1
  <1>3. Nat \subseteq T
    <2> HIDE DEF T
    <2> QED
      BY <1>1, <1>2, SetInduction
  <1>4. PICK n \in S : TRUE
    OBVIOUS
  <1>5. n \in T /\ n \in 0..n
    BY <1>3
  <1> QED
    BY <1>5

\* Induction up to a bound.
LEMMA BoundedInduction ==
  ASSUME NEW last \in Nat, NEW T, 0 \in T,
         \A n \in 1..last : n - 1 \in T => n \in T
  PROVE  0..last \subseteq T
PROOF
  <1> DEFINE U == {n \in Nat : n \in T \/ n > last}
  <1>1. 0 \in U
    OBVIOUS
  <1>2. ASSUME NEW n \in Nat, n \in U  PROVE  n + 1 \in U
    <2>1. CASE n + 1 > last
      BY <2>1
    <2>2. CASE n + 1 <= last
      <3>1. n + 1 \in 1..last /\ (n + 1) - 1 \in T
        BY <1>2, <2>2
      <3> QED
        BY <3>1
    <2> QED
      BY <2>1, <2>2
  <1>3. Nat \subseteq U
    <2> HIDE DEF U
    <2> QED
      BY <1>1, <1>2, SetInduction
  <1> QED
    BY <1>3

(***************************************************************************)
(* A value to start with and a step from one value to the next determine a  *)
(* function on the numbers up to a bound.                                   *)
(***************************************************************************)
Steps(last, V) == [(1..last) \X V -> V]

FollowsSteps(f, first, step, last) ==
  f[0] = first /\ \A n \in 1..last : f[n] = step[<<n, f[n - 1]>>]

\* There is such a function.
LEMMA Recursion ==
  ASSUME NEW last \in Nat, NEW V, NEW first \in V, NEW step \in Steps(last, V)
  PROVE  \E f \in [0..last -> V] : FollowsSteps(f, first, step, last)
PROOF
  <1> USE DEF Steps
  <1> DEFINE Follows(f, m) == FollowsSteps(f, first, step, m)
             T == {m \in 0..last : \E f \in [0..m -> V] : Follows(f, m)}
  <1>1. 0 \in T
    <2> DEFINE f == [n \in 0..0 |-> first]
    <2>1. f \in [0..0 -> V] /\ Follows(f, 0)
      BY DEF FollowsSteps
    <2> HIDE DEF f, Follows
    <2> QED
      BY <2>1
  <1>2. ASSUME NEW m \in 1..last, m - 1 \in T  PROVE  m \in T
    <2>1. PICK f \in [0..(m - 1) -> V] : Follows(f, m - 1)
      BY <1>2
    <2> DEFINE g == [n \in 0..m |-> IF n = m THEN step[<<m, f[m - 1]>>] ELSE f[n]]
    <2>2. g \in [0..m -> V]
      OBVIOUS
    <2>3. g[0] = first
      BY <2>1 DEF FollowsSteps
    <2>4. ASSUME NEW n \in 1..m  PROVE  g[n] = step[<<n, g[n - 1]>>]
      BY <2>1 DEF FollowsSteps
    <2>5. Follows(g, m)
      BY <2>3, <2>4 DEF FollowsSteps
    <2> HIDE DEF g, Follows
    <2> QED
      BY <2>2, <2>5
  <1>3. last \in T
    <2> HIDE DEF T
    <2> QED
      BY <1>1, <1>2, BoundedInduction
  <1> QED
    BY <1>3

=============================================================================
