--------------------------- MODULE InductionFacts ---------------------------
(***************************************************************************)
(* Induction over the natural numbers in the form the proofs use it: about *)
(* sets and functions rather than operators.  It rests on the theorem that *)
(* a set on which < is well founded has least elements.                    *)
(***************************************************************************)
EXTENDS Naturals, WellFoundedInduction, TLAPS

\* A set of natural numbers that is not empty has a least element.
LEMMA LeastNatural ==
    ASSUME NEW T \in SUBSET Nat, T # {}
    PROVE  \E n \in T : \A m \in T : n <= m
  <1>1. PICK n \in T : \A m \in T : ~(<<m, n>> \in OpToRel(<, Nat))
    BY NatLessThanWellFounded, WFMin, T \subseteq Nat
  <1>2. \A m \in T : ~(m < n)
    BY <1>1 DEF OpToRel
  <1> QED
    BY <1>2

\* Induction: what holds of 0, and of n + 1 if of n, holds of all numbers.
LEMMA InductionOnSet ==
    ASSUME NEW S, 0 \in S, \A n \in Nat : n \in S => n + 1 \in S
    PROVE  Nat \subseteq S
  <1> DEFINE T == Nat \ S
  <1> SUFFICES ASSUME T # {} PROVE FALSE
    OBVIOUS
  <1>1. PICK n \in T : \A m \in T : n <= m
    BY LeastNatural
  <1>2. n # 0 /\ n \in Nat /\ n \notin S
    BY <1>1
  <1>3. n - 1 \in Nat /\ (n - 1) + 1 = n /\ ~(n <= n - 1)
    BY <1>2
  <1>4. n - 1 \in S
    BY <1>1, <1>3
  <1> QED
    BY <1>2, <1>3, <1>4

\* Recursion: a value can be handed on by a function again and again.
LEMMA Recursion ==
    \A T : \A a \in T : \A g \in [T -> T] :
        \E f \in [Nat -> T] : f[0] = a /\ \A n \in Nat : f[n + 1] = g[f[n]]
  <1> SUFFICES ASSUME NEW T, NEW a \in T, NEW g \in [T -> T]
               PROVE  \E f \in [Nat -> T] :
                          f[0] = a /\ \A n \in Nat : f[n + 1] = g[f[n]]
    OBVIOUS
  <1> DEFINE Begins(f, n) == /\ f \in [0 .. n -> T] /\ f[0] = a
                             /\ \A m \in 0 .. n - 1 : f[m + 1] = g[f[m]]
             begin(n) == CHOOSE f : Begins(f, n)
             whole == [n \in Nat |-> begin(n)[n]]
  <1>1. \A n \in Nat : \E f : Begins(f, n)
    <2> DEFINE S == {n \in Nat : \E f : Begins(f, n)}
    <2>1. 0 \in S
      <3>1. Begins([m \in 0 .. 0 |-> a], 0)
        OBVIOUS
      <3> QED
        BY <3>1
    <2>2. ASSUME NEW n \in Nat, n \in S PROVE n + 1 \in S
      <3>1. PICK f : Begins(f, n)
        BY <2>2
      <3> DEFINE h == [m \in 0 .. n + 1 |-> IF m = n + 1 THEN g[f[n]] ELSE f[m]]
      <3>2. \A m \in 0 .. n : h[m] = f[m] /\ f[m] \in T
        BY <3>1
      <3>3. h[n + 1] = g[f[n]] /\ g[f[n]] \in T
        BY <3>2
      <3>4. h \in [0 .. n + 1 -> T]
        BY <3>2, <3>3
      <3>5. ASSUME NEW m \in 0 .. n PROVE h[m + 1] = g[h[m]]
        <4>1. CASE m = n
          BY <3>2, <3>3, <4>1
        <4>2. CASE m # n
          <5>1. m \in 0 .. n - 1 /\ m + 1 \in 0 .. n
            BY <4>2
          <5>2. f[m + 1] = g[f[m]]
            BY <3>1, <5>1
          <5> HIDE DEF h
          <5> QED
            BY <3>2, <5>1, <5>2
        <4> QED
          BY <4>1, <4>2
      <3>6. h[0] = a /\ 0 .. (n + 1) - 1 = 0 .. n
        <4>1. 0 \in 0 .. n /\ f[0] = a
          BY <3>1
        <4> HIDE DEF h
        <4> QED
          BY <3>2, <4>1
      <3> HIDE DEF h
      <3>7. Begins(h, n + 1)
        BY <3>4, <3>5, <3>6
      <3> HIDE DEF Begins
      <3> QED
        BY <3>7
    <2> HIDE DEF S
    <2>3. Nat \subseteq S
      BY <2>1, <2>2, InductionOnSet
    <2> QED
      BY <2>3 DEF S
  <1>2. \A n \in Nat : Begins(begin(n), n)
    BY <1>1
  <1>3. ASSUME NEW n \in Nat, NEW f, NEW h, Begins(f, n), Begins(h, n + 1)
        PROVE  f[n] = h[n]
    <2> DEFINE S == {m \in Nat : m <= n => f[m] = h[m]}
    <2>1. 0 \in S
      BY <1>3
    <2>2. ASSUME NEW m \in Nat, m \in S PROVE m + 1 \in S
      <3>1. CASE m + 1 <= n
        <4>1. m \in 0 .. n - 1 /\ m \in 0 .. (n + 1) - 1 /\ m <= n
          BY <3>1
        <4>2. f[m + 1] = g[f[m]] /\ h[m + 1] = g[h[m]] /\ f[m] = h[m]
          BY <1>3, <2>2, <4>1
        <4> QED
          BY <4>2
      <3>2. CASE ~(m + 1 <= n)
        BY <3>2
      <3> QED
        BY <3>1, <3>2
    <2> HIDE DEF S
    <2>3. Nat \subseteq S
      BY <2>1, <2>2, InductionOnSet
    <2> QED
      BY <2>3 DEF S
  <1> HIDE DEF begin
  <1>4. whole \in [Nat -> T]
    BY <1>2
  <1>5. whole[0] = a
    BY <1>2
  <1>6. ASSUME NEW n \in Nat PROVE whole[n + 1] = g[whole[n]]
    <2>1. Begins(begin(n), n) /\ Begins(begin(n + 1), n + 1)
      BY <1>2
    <2>2. begin(n)[n] = begin(n + 1)[n]
      BY <1>3, <2>1
    <2>3. n \in 0 .. (n + 1) - 1
      OBVIOUS
    <2>4. begin(n + 1)[n + 1] = g[begin(n + 1)[n]]
      BY <2>1, <2>3
    <2> QED
      BY <2>2, <2>4
  <1> HIDE DEF whole
  <1> QED
    BY <1>4, <1>5, <1>6
=============================================================================
