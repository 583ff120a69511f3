------------------------------ MODULE Iteration ------------------------------
(***************************************************************************)
(* Induction over the naturals for the proofs of the project: least        *)
(* elements, what holds of 0 and passes from n to n + 1, and the runs of a  *)
(* sequence of steps, which are what a recursive function computes.        *)
(***************************************************************************)
EXTENDS Integers, WellFoundedInduction, TLAPS

\* A nonempty set of naturals has a least element.
LEMMA LeastElement ==
  ASSUME NEW S \in SUBSET Nat, S # {}
  PROVE  \E m \in S : \A n \in S : m <= n
<1> DEFINE R == OpToRel(<, Nat)
<1>1. IsWellFoundedOn(R, Nat)
  BY NatLessThanWellFounded
<1> HIDE DEF R
<1>2. PICK m \in S : \A n \in S : ~(<<n, m>> \in R)
  BY <1>1, WFMin
<1>3. \A n \in Nat : n < m => <<n, m>> \in R
  BY DEF R, OpToRel
<1>4. \A n \in S : n \in Nat /\ m \in Nat /\ ~(n < m)
  BY <1>2, <1>3
<1>5. \A n \in S : m <= n
  BY <1>4
<1> QED BY <1>5

\* A set that holds 0, and n + 1 with every n, holds every natural.
LEMMA EveryNat ==
  ASSUME NEW S, 0 \in S, \A n \in Nat : n \in S => n + 1 \in S
  PROVE  Nat \subseteq S
<1> SUFFICES ASSUME ~(Nat \subseteq S) PROVE FALSE
  OBVIOUS
<1> DEFINE T == Nat \ S
<1>1. PICK m \in T : \A n \in T : m <= n
  BY LeastElement
<1>2. m # 0 /\ m - 1 \in Nat /\ m - 1 \notin T
  BY <1>1
<1> QED BY <1>1, <1>2

\* g goes from base through n steps, the k-th of which is step[k].
IsRun(g, X, base, step, n) ==
  /\ g \in [0..n -> X]
  /\ g[0] = base
  /\ \A k \in 1..n : g[k] = step[k][g[k - 1]]

\* Every sequence of steps has its run.
LEMMA RunExists ==
  ASSUME NEW X, NEW base \in X, NEW n \in Nat, NEW step \in [1..n -> [X -> X]]
  PROVE  \E g : IsRun(g, X, base, step, n)
<1> DEFINE S == {m \in Nat : m <= n => \E g : IsRun(g, X, base, step, m)}
<1>1. 0 \in S
  <2>1. IsRun([k \in 0..0 |-> base], X, base, step, 0)
    BY DEF IsRun
  <2> QED BY <2>1
<1>2. ASSUME NEW m \in Nat, m \in S PROVE m + 1 \in S
  <2> SUFFICES ASSUME m + 1 <= n PROVE \E g : IsRun(g, X, base, step, m + 1)
    OBVIOUS
  <2>1. PICK g : IsRun(g, X, base, step, m)
    BY <1>2
  <2> DEFINE h == [k \in 0..(m + 1) |-> IF k = m + 1 THEN step[m + 1][g[m]] ELSE g[k]]
  <2>2. g \in [0..m -> X] /\ g[m] \in X /\ step[m + 1][g[m]] \in X
    BY <2>1 DEF IsRun
  <2>3. h \in [0..(m + 1) -> X] /\ h[0] = base
    BY <2>1, <2>2 DEF IsRun
  <2>4. ASSUME NEW k \in 1..(m + 1) PROVE h[k] = step[k][h[k - 1]]
    <3>1. k \in 0..(m + 1) /\ k - 1 \in 0..(m + 1) /\ k - 1 # m + 1
      OBVIOUS
    <3>2. h[k - 1] = g[k - 1]
      BY <3>1, Zenon
    <3>3. CASE k = m + 1
      <4>1. h[k] = step[m + 1][g[m]] /\ k - 1 = m
        BY <3>1, <3>3
      <4> QED BY <4>1, <3>2, <3>3, Zenon
    <3>4. CASE k # m + 1
      <4>1. k \in 1..m
        BY <3>4
      <4>2. g[k] = step[k][g[k - 1]]
        BY <4>1, <2>1, Zenon DEF IsRun
      <4>3. h[k] = g[k]
        BY <3>1, <3>4, Zenon
      <4> QED BY <4>2, <4>3, <3>2, Zenon
    <3> QED BY <3>3, <3>4, Zenon
  <2>5. IsRun(h, X, base, step, m + 1)
    BY <2>3, <2>4 DEF IsRun
  <2> QED BY <2>5
<1> HIDE DEF S
<1>3. Nat \subseteq S
  BY <1>1, <1>2, EveryNat
<1> QED BY <1>3 DEF S
==============================================================================
