----------------------------- MODULE Recursion ------------------------------
(***************************************************************************)
(* Induction over the naturals and functions that are defined by recursion *)
(* over a range of them, with sets and functions in the place of           *)
(* predicates and operators.  For the proofs about the models' sums,       *)
(* concatenations and folds, which TLC evaluates as recursive functions.   *)
(***************************************************************************)
EXTENDS Integers, Sequences, WellFoundedInduction, TLAPS

(* A set of naturals has a least element.                                  *)
LEMMA LeastExists ==
  ASSUME NEW S \in SUBSET Nat, S # {}
  PROVE  \E m \in S : \A n \in S : m <= n
<1> DEFINE R == OpToRel(<, Nat)
<1>1. IsWellFoundedOn(R, Nat)
  BY NatLessThanWellFounded
<1> HIDE DEF R
<1>2. PICK m \in S : \A n \in S : ~ (<<n, m>> \in R)
  BY <1>1, WFMin
<1>3. ASSUME NEW n \in S, ~ (m <= n)  PROVE FALSE
  <2>1. n \in Nat /\ m \in Nat /\ n < m
    BY <1>3
  <2>2. <<n, m>> \in R
    BY <2>1 DEF R, OpToRel
  <2> QED
    BY <1>2, <2>2
<1> QED
  BY <1>3

(* What holds at 0 and from one natural to the next holds of all.          *)
LEMMA SetInduction ==
  ASSUME NEW P, 0 \in P, \A n \in Nat : n \in P => n + 1 \in P
  PROVE  \A n \in Nat : n \in P
<1> DEFINE Bad == Nat \ P
<1> SUFFICES ASSUME Bad # {}  PROVE FALSE
  OBVIOUS
<1>1. Bad \in SUBSET Nat
  OBVIOUS
<1> HIDE DEF Bad
<1>2. PICK m \in Bad : \A n \in Bad : m <= n
  BY <1>1, LeastExists
<1>3. m \in Nat /\ m \notin P
  BY <1>2 DEF Bad
<1>4. m - 1 \in Nat /\ ~(m <= m - 1) /\ (m - 1) + 1 = m
  BY <1>3
<1>5. m - 1 \in P
  BY <1>2, <1>4 DEF Bad
<1> QED
  BY <1>3, <1>4, <1>5

(* Up to a bound.                                                          *)
LEMMA RangeInduction ==
  ASSUME NEW n \in Nat, NEW P, 0 \in P,
         \A i \in 0..n : i < n /\ i \in P => i + 1 \in P
  PROVE  \A i \in 0..n : i \in P
<1> DEFINE Q == {i \in Nat : i <= n => i \in P}
<1>1. 0 \in Q
  OBVIOUS
<1>2. ASSUME NEW i \in Nat, i \in Q  PROVE i + 1 \in Q
  <2>1. CASE i + 1 <= n
    <3>1. i \in 0..n /\ i < n
      BY <2>1
    <3> QED
      BY <1>2, <3>1
  <2>2. CASE ~(i + 1 <= n)
    BY <2>2
  <2> QED
    BY <2>1, <2>2
<1> HIDE DEF Q
<1>3. \A i \in Nat : i \in Q
  BY <1>1, <1>2, SetInduction
<1> QED
  BY <1>3 DEF Q

(* A recursion from one value to the next, and a solution of it.           *)
Recurs(n, S, base, step) ==
  n \in Nat /\ base \in S /\ step \in [(1..n) \X S -> S]
Solves(g, n, S, base, step) ==
  /\ g \in [0..n -> S] /\ g[0] = base
  /\ \A i \in 1..n : g[i] = step[<<i, g[i - 1]>>]

(* Every such recursion has one.                                           *)
LEMMA RecursionExists ==
  ASSUME NEW n, NEW S, NEW base, NEW step, Recurs(n, S, base, step)
  PROVE  \E g : Solves(g, n, S, base, step)
<1>0. n \in Nat /\ base \in S /\ step \in [(1..n) \X S -> S]
  BY DEF Recurs
<1> DEFINE P == {m \in 0..n : \E g : Solves(g, m, S, base, step)}
<1>1. 0 \in P
  <2> DEFINE z == [i \in 0..0 |-> base]
  <2>1. Solves(z, 0, S, base, step) /\ 0 \in 0..n
    BY <1>0 DEF Solves
  <2> HIDE DEF z
  <2> QED
    BY <2>1
<1>2. ASSUME NEW m \in 0..n, m < n, m \in P  PROVE m + 1 \in P
  <2>0. PICK g : Solves(g, m, S, base, step)
    BY <1>2
  <2>1. /\ g \in [0..m -> S] /\ g[0] = base
        /\ \A i \in 1..m : g[i] = step[<<i, g[i - 1]>>]
    BY <2>0 DEF Solves
  <2> DEFINE v == step[<<m + 1, g[m]>>]
             h == [i \in 0..m + 1 |-> IF i = m + 1 THEN v ELSE g[i]]
  <2>2. v \in S
    <3>1. m + 1 \in 1..n /\ m \in 0..m
      BY <1>0, <1>2
    <3>2. g[m] \in S
      BY <2>1, <3>1
    <3>3. <<m + 1, g[m]>> \in (1..n) \X S
      BY <3>1, <3>2
    <3> QED
      BY <1>0, <3>3
  <2>3. h \in [0..m + 1 -> S]
    <3>1. \A i \in 0..m + 1 : i # m + 1 => i \in 0..m
      BY <1>2
    <3> QED
      BY <2>1, <2>2, <3>1
  <2>4. h[0] = base
    BY <1>2, <2>1
  <2>5. ASSUME NEW i \in 1..m + 1  PROVE h[i] = step[<<i, h[i - 1]>>]
    <3>1. CASE i = m + 1
      <4>1. i - 1 = m /\ m \in 0..m + 1 /\ m # m + 1 /\ m + 1 \in 0..m + 1
        BY <1>2, <3>1
      <4>2. h[m + 1] = v /\ h[m] = g[m]
        BY <4>1
      <4> HIDE DEF h
      <4> QED
        BY <3>1, <4>1, <4>2
    <3>2. CASE i # m + 1
      <4>1. i \in 1..m /\ i - 1 \in 0..m + 1 /\ i - 1 # m + 1 /\ i \in 0..m + 1
        BY <1>2, <3>2
      <4> QED
        BY <2>1, <3>2, <4>1
    <3> QED
      BY <3>1, <3>2
  <2> HIDE DEF h
  <2>6. Solves(h, m + 1, S, base, step) /\ m + 1 \in 0..n
    BY <1>0, <1>2, <2>3, <2>4, <2>5 DEF Solves
  <2> QED
    BY <2>6
<1> HIDE DEF P
<1>3. \A m \in 0..n : m \in P
  BY <1>0, <1>1, <1>2, RangeInduction
<1>4. n \in P
  BY <1>0, <1>3
<1> QED
  BY <1>4 DEF P

=============================================================================
