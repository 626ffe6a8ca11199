------------------------------- MODULE Induction -------------------------------
(***************************************************************************)
(* Induction over the natural numbers and the existence of functions that  *)
(* are defined by recursion, for the proofs about recursive definitions of *)
(* the models.  Both are stated for sets and functions, so that the        *)
(* provers can use them, and follow from the order of finite sets by       *)
(* inclusion being well-founded.                                           *)
(***************************************************************************)
EXTENDS Naturals, FiniteSetTheorems, TLAPS

\* Every set of natural numbers that is not empty has a least element.
LEMMA LeastNatural ==
  ASSUME NEW T, T \subseteq Nat, T # {}
  PROVE  \E n \in T : \A m \in T : n <= m
<1> DEFINE Below == {1 .. n : n \in T}
<1>1. Below \subseteq FiniteSubsetsOf(Nat) /\ Below # {}
  <2>1. \A n \in T : IsFiniteSet(1 .. n) /\ 1 .. n \subseteq Nat
    BY FS_Interval
  <2> QED
    BY <2>1 DEF FiniteSubsetsOf
<1>2. PICK x \in Below : \A y \in Below : ~ (<<y, x>> \in StrictSubsetOrdering(Nat))
  <2>1. IsWellFoundedOn(StrictSubsetOrdering(Nat), FiniteSubsetsOf(Nat))
    BY FS_StrictSubsetOrderingWellFounded
  <2> HIDE DEF Below
  <2> QED
    BY <1>1, <2>1, WFMin
<1>3. PICK n \in T : x = 1 .. n
  OBVIOUS
<1>4. ASSUME NEW m \in T, m < n PROVE FALSE
  <2>1. 1 .. m \subseteq 1 .. n /\ 1 .. m # 1 .. n
    BY <1>4
  <2>2. << 1 .. m, 1 .. n >> \in StrictSubsetOrdering(Nat)
    BY <2>1 DEF StrictSubsetOrdering
  <2> QED
    BY <2>2, <1>2, <1>3
<1> QED
  BY <1>4

\* What holds at 0, and after each number at which it holds, holds up to n.
LEMMA InductionUpTo ==
  ASSUME NEW n \in Nat, NEW S, 0 \in S,
         \A i \in 0 .. n : i \in S /\ i < n => i + 1 \in S
  PROVE  \A i \in 0 .. n : i \in S
<1> DEFINE T == {i \in 0 .. n : i \notin S}
<1>1. CASE T = {}
  BY <1>1
<1>2. CASE T # {}
  <2>1. PICK i \in T : \A j \in T : i <= j
    <3>1. T \subseteq Nat
      OBVIOUS
    <3> HIDE DEF T
    <3> QED
      BY <1>2, <3>1, LeastNatural
  <2>2. i - 1 \in 0 .. n /\ i - 1 \notin T
    BY <2>1
  <2> QED
    BY <2>1, <2>2
<1> QED
  BY <1>1, <1>2

\* f begins with base and goes on by step, up to n.
Recurs(f, n, base, step) == f[0] = base /\ \A i \in 1 .. n : f[i] = step[i][f[i - 1]]

\* A function on 0 .. n is defined by its value at 0 and a step.
LEMMA RecursionExists ==
  ASSUME NEW n \in Nat, NEW S, NEW base \in S, NEW step \in [1 .. n -> [S -> S]]
  PROVE  \E f \in [0 .. n -> S] : Recurs(f, n, base, step)
<1> DEFINE Defines(f, k) == f[0] = base /\ \A i \in 1 .. k : f[i] = step[i][f[i - 1]]
           Good == {k \in 0 .. n : \E f \in [0 .. k -> S] : Defines(f, k)}
<1>1. 0 \in Good
  <2> DEFINE f == [i \in 0 .. 0 |-> base]
  <2>1. f \in [0 .. 0 -> S] /\ Defines(f, 0)
    OBVIOUS
  <2> HIDE DEF Defines, f
  <2> QED
    BY <2>1
<1>2. ASSUME NEW k \in 0 .. n, k \in Good, k < n
      PROVE  k + 1 \in Good
  <2>1. PICK f \in [0 .. k -> S] : Defines(f, k)
    BY <1>2
  <2> DEFINE g == [i \in 0 .. k + 1 |-> IF i = k + 1 THEN step[k + 1][f[k]] ELSE f[i]]
  <2>2. step[k + 1][f[k]] \in S
    BY <1>2
  <2>3. g \in [0 .. k + 1 -> S]
    BY <2>2
  <2>4. ASSUME NEW i \in 1 .. k + 1
        PROVE  g[i] = step[i][g[i - 1]]
    <3>1. CASE i = k + 1
      BY <3>1
    <3>2. CASE i # k + 1
      <4>1. i \in 1 .. k /\ g[i] = f[i] /\ i - 1 \in 0 .. k /\ g[i - 1] = f[i - 1]
        BY <3>2
      <4> QED
        BY <4>1, <2>1
    <3> QED
      BY <3>1, <3>2
  <2>5. Defines(g, k + 1)
    BY <2>1, <2>3, <2>4
  <2> HIDE DEF Defines, g
  <2> QED
    BY <2>3, <2>5, <1>2
<1>3. n \in Good
  <2> HIDE DEF Good
  <2>1. \A k \in 0 .. n : k \in Good /\ k < n => k + 1 \in Good
    BY <1>2
  <2>2. \A k \in 0 .. n : k \in Good
    BY <1>1, <2>1, InductionUpTo, Zenon
  <2> QED
    BY <2>2
<1> QED
  BY <1>3 DEF Recurs

\* A function on 0 .. n keeps to a set that it begins in and does not leave.
LEMMA RecursionType ==
  ASSUME NEW n \in Nat, NEW S, NEW f, f = [i \in 0 .. n |-> f[i]],
         f[0] \in S, \A i \in 1 .. n : f[i - 1] \in S => f[i] \in S
  PROVE  f \in [0 .. n -> S]
<1> DEFINE Good == {i \in 0 .. n : f[i] \in S}
<1>1. 0 \in Good
  OBVIOUS
<1>2. \A i \in 0 .. n : i \in Good /\ i < n => i + 1 \in Good
  OBVIOUS
<1>3. \A i \in 0 .. n : i \in Good
  <2> HIDE DEF Good
  <2> QED
    BY <1>1, <1>2, InductionUpTo, Zenon
<1> QED
  BY <1>3
================================================================================
