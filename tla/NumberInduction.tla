-------------------------- MODULE NumberInduction --------------------------
(***************************************************************************)
(* Induction up to a number, for what a recursion over a sequence          *)
(* computes.  A set of numbers has a least one, so a fact that holds of 0  *)
(* and is handed on has no counterexample; and a step that can be taken    *)
(* from everywhere can be taken any number of times, in one way.           *)
(***************************************************************************)
EXTENDS Naturals, WellFoundedInduction, TLAPS

Less == {p \in Nat \X Nat : p[1] < p[2]}

\* A set of natural numbers has a least one.
LEMMA LeastNumber ==
  ASSUME NEW T \in SUBSET Nat, T # {}
  PROVE  \E n \in T : \A m \in T : n <= m
<1>1. IsWellFoundedOn(Less, Nat)
  <2>1. Less = OpToRel(<, Nat)
    BY Zenon DEF Less, OpToRel
  <2> QED  BY <2>1, NatLessThanWellFounded, Zenon
<1>2. PICK n \in T : \A m \in T : ~(<<m, n>> \in Less)
  BY <1>1, WFMin
<1>3. \A m \in T : m \in Nat /\ n \in Nat /\ ~(m < n)
  BY <1>2 DEF Less
<1> QED  BY <1>3

\* A set that has 0, and the number after each it has, has every number up to N.
LEMMA EveryNumber ==
  ASSUME NEW N \in Nat, NEW T, 0 \in T, \A k \in 1 .. N : k - 1 \in T => k \in T
  PROVE  \A k \in 0 .. N : k \in T
<1> DEFINE U == {k \in 0 .. N : k \notin T}
<1>1. SUFFICES ASSUME U # {} PROVE FALSE
  OBVIOUS
<1>2. U \in SUBSET Nat
  OBVIOUS
<1>3. PICK n \in U : \A m \in U : n <= m
  BY <1>1, <1>2, LeastNumber
<1>4. n \in 1 .. N /\ n \notin T
  BY <1>3
<1>5. n - 1 \in T
  BY <1>3, <1>4
<1> QED  BY <1>4, <1>5

\* A step function can be iterated N times from any start.
LEMMA Iteration ==
  ASSUME NEW D, NEW x \in D, NEW N \in Nat, NEW step \in [1 .. N -> [D -> D]]
  PROVE  \E g \in [0 .. N -> D] : g[0] = x /\ \A k \in 1 .. N : g[k] = step[k][g[k - 1]]
<1> DEFINE Upto(n) == \E g \in [0 .. n -> D] :
                         g[0] = x /\ \A k \in 1 .. n : g[k] = step[k][g[k - 1]]
           T == {n \in 0 .. N : Upto(n)}
<1>1. Upto(0)
  <2>1. [k \in 0 .. 0 |-> x] \in [0 .. 0 -> D]
    OBVIOUS
  <2>2. [k \in 0 .. 0 |-> x][0] = x /\ \A k \in 1 .. 0 : FALSE
    OBVIOUS
  <2> QED  BY <2>1, <2>2
<1>2. ASSUME NEW n \in 1 .. N, Upto(n - 1) PROVE Upto(n)
  <2>1. PICK g \in [0 .. n - 1 -> D] :
           g[0] = x /\ \A k \in 1 .. n - 1 : g[k] = step[k][g[k - 1]]
    BY <1>2
  <2> DEFINE h == [k \in 0 .. n |-> IF k = n THEN step[n][g[n - 1]] ELSE g[k]]
  <2>2. n - 1 \in 0 .. n - 1 /\ n - 1 \in 0 .. n /\ 0 \in 0 .. n - 1 /\ n \in 0 .. n
    OBVIOUS
  <2>3. g[n - 1] \in D /\ step[n][g[n - 1]] \in D
    BY <2>2
  <2>4. \A k \in 0 .. n - 1 : h[k] = g[k] /\ g[k] \in D
    OBVIOUS
  <2>5. h \in [0 .. n -> D] /\ h[n] = step[n][g[n - 1]] /\ h[0] = x
    <3>1. \A k \in 0 .. n : k = n \/ k \in 0 .. n - 1
      OBVIOUS
    <3> QED  BY <2>1, <2>2, <2>3, <2>4, <3>1
  <2>6. ASSUME NEW k \in 1 .. n PROVE h[k] = step[k][h[k - 1]]
    <3>1. CASE k = n
      BY <2>2, <2>4, <2>5, <3>1
    <3>2. CASE k # n
      <4>1. k \in 1 .. n - 1 /\ k \in 0 .. n - 1 /\ k - 1 \in 0 .. n - 1
        BY <3>2
      <4> QED  BY <2>1, <2>4, <4>1
    <3> QED  BY <3>1, <3>2
  <2> HIDE DEF h
  <2> QED  BY <2>5, <2>6
<1> HIDE DEF Upto
<1>3. 0 \in T /\ \A n \in 1 .. N : n - 1 \in T => n \in T
  BY <1>1, <1>2
<1> HIDE DEF T
<1>4. \A n \in 0 .. N : n \in T
  BY <1>3, EveryNumber
<1>5. N \in T
  BY <1>4
<1> QED  BY <1>5 DEF T, Upto

\* Two functions that take the same steps from the same start are the same.
LEMMA IterationUnique ==
  ASSUME NEW N \in Nat, NEW g, NEW h, g[0] = h[0],
         \A k \in 1 .. N : g[k - 1] = h[k - 1] => g[k] = h[k]
  PROVE  \A k \in 0 .. N : g[k] = h[k]
<1> DEFINE T == {k \in 0 .. N : g[k] = h[k]}
<1>1. 0 \in T /\ \A k \in 1 .. N : k - 1 \in T => k \in T
  OBVIOUS
<1> HIDE DEF T
<1>2. \A k \in 0 .. N : k \in T
  BY <1>1, EveryNumber
<1> QED  BY <1>2 DEF T
=============================================================================
