------------------------- MODULE Induction_proofs -------------------------
(***************************************************************************)
(* Induction over the natural numbers, and functions defined by recursion  *)
(* on them, with sets in place of predicates: the lemmas that the proofs   *)
(* about loops and lists rest on.                                          *)
(***************************************************************************)
EXTENDS Integers, WellFoundedInduction, TLAPS

(* Descending numbers come to an end. *)
LEMMA LessWellFounded == IsWellFoundedOn({p \in Nat \X Nat : p[1] < p[2]}, Nat)
<1>1. {p \in Nat \X Nat : p[1] < p[2]} = OpToRel(<, Nat)
  BY DEF OpToRel
<1> QED BY <1>1, NatLessThanWellFounded, Zenon

(* A set of numbers that is not empty has a smallest one. *)
LEMMA SmallestOf ==
  ASSUME NEW T \in SUBSET Nat, T # {}
  PROVE  \E x \in T : \A y \in T : x <= y
<1> DEFINE Less == {p \in Nat \X Nat : p[1] < p[2]}
<1>1. IsWellFoundedOn(Less, Nat)
  BY LessWellFounded, Zenon
<1>2. PICK x \in T : \A y \in T : ~(<<y, x>> \in Less)
  BY <1>1, WFMin, Zenon
<1>3. \A y \in T : ~(y < x)
  <2> TAKE y \in T
  <2>1. <<y, x>> \in Nat \X Nat /\ <<y, x>>[1] = y /\ <<y, x>>[2] = x
    OBVIOUS
  <2> QED BY <1>2, <2>1
<1> QED BY <1>3

(* What holds of 0 and passes on to the next number holds of all. *)
LEMMA InductionOn ==
  ASSUME NEW P, 0 \in P, \A n \in Nat : n \in P => n + 1 \in P
  PROVE  \A n \in Nat : n \in P
<1> DEFINE T == Nat \ P
<1> SUFFICES ASSUME T # {} PROVE FALSE
  OBVIOUS
<1>1. PICK n \in T : \A m \in T : n <= m
  BY SmallestOf
<1>2. n # 0 /\ n \in Nat
  OBVIOUS
<1>3. n - 1 \in Nat /\ n - 1 + 1 = n
  BY <1>2
<1>4. n - 1 \in P
  BY <1>1, <1>3
<1> QED BY <1>3, <1>4, <1>1

(* A step from a value in S, the number of steps known, and the values it leads to from a. *)
StepIn(step, S) == step \in [S \X Nat -> S]
Iterates(h, S, a, step) == h \in [Nat -> S] /\ h[0] = a /\ \A n \in Nat : h[n + 1] = step[<<h[n], n + 1>>]

(* The values of a function defined by recursion exist: approximations on 0 .. k agree   *)
(* where they overlap.                                                                   *)
LEMMA RecursionExists ==
  ASSUME NEW S, NEW a \in S, NEW step, StepIn(step, S)
  PROVE  \E h : Iterates(h, S, a, step)
<1> DEFINE G(k, g) == g \in [0 .. k -> S] /\ g[0] = a /\ \A n \in 1 .. k : g[n] = step[<<g[n - 1], n>>]
           P == {k \in Nat : \E g : G(k, g)}
<1>0. step \in [S \X Nat -> S]
  BY DEF StepIn
<1>1. 0 \in P
  <2>1. G(0, [n \in 0 .. 0 |-> a])
    OBVIOUS
  <2> QED BY <2>1
<1>2. ASSUME NEW k \in Nat, k \in P PROVE k + 1 \in P
  <2>1. PICK g : G(k, g)
    BY <1>2
  <2> DEFINE h == [n \in 0 .. k + 1 |-> IF n = k + 1 THEN step[<<g[k], k + 1>>] ELSE g[n]]
  <2>2. h \in [0 .. k + 1 -> S]
    <3>1. k \in 0 .. k /\ k + 1 \in Nat
      OBVIOUS
    <3>2. g[k] \in S
      BY <2>1, <3>1
    <3>3. step[<<g[k], k + 1>>] \in S
      BY <1>0, <3>1, <3>2
    <3>4. \A n \in 0 .. k + 1 : n # k + 1 => n \in 0 .. k
      OBVIOUS
    <3> QED BY <2>1, <3>3, <3>4
  <2>3. h[0] = a
    BY <2>1
  <2>4. ASSUME NEW n \in 1 .. k + 1 PROVE h[n] = step[<<h[n - 1], n>>]
    <3>1. CASE n = k + 1
      <4>1. k + 1 - 1 = k /\ k # k + 1 /\ k \in 0 .. k + 1 /\ k + 1 \in 0 .. k + 1
        OBVIOUS
      <4>2. h[k + 1] = step[<<g[k], k + 1>>] /\ h[k] = g[k]
        BY <4>1
      <4> QED BY <3>1, <4>1, <4>2
    <3>2. CASE n \in 1 .. k
      <4>1. g[n] = step[<<g[n - 1], n>>]
        BY <2>1, <3>2
      <4>2. n - 1 \in 0 .. k + 1 /\ n - 1 # k + 1 /\ n # k + 1 /\ n \in 0 .. k + 1
        BY <3>2
      <4>3. h[n] = g[n] /\ h[n - 1] = g[n - 1]
        BY <4>2
      <4> QED BY <4>1, <4>3
    <3> QED BY <3>1, <3>2
  <2>5. G(k + 1, h)
    BY <2>2, <2>3, <2>4
  <2> HIDE DEF h, G
  <2> QED BY <2>5
<1>3. \A k \in Nat : k \in P
  <2> HIDE DEF P
  <2> QED BY <1>1, <1>2, InductionOn
<1> DEFINE C(k) == CHOOSE g : G(k, g)
<1>4. \A k \in Nat : G(k, C(k))
  BY <1>3
<1> HIDE DEF C
<1>5. \A n \in Nat : \A k \in Nat : n <= k => C(k)[n] = C(n)[n]
  <2> DEFINE Q == {n \in Nat : \A k \in Nat : n <= k => C(k)[n] = C(n)[n]}
  <2>1. 0 \in Q
    BY <1>4
  <2>2. ASSUME NEW n \in Nat, n \in Q PROVE n + 1 \in Q
    <3> SUFFICES ASSUME NEW k \in Nat, n + 1 <= k PROVE C(k)[n + 1] = C(n + 1)[n + 1]
      OBVIOUS
    <3>1. C(k)[n] = C(n)[n] /\ C(n + 1)[n] = C(n)[n]
      BY <2>2
    <3>2. n + 1 - 1 = n /\ n + 1 \in 1 .. k /\ n + 1 \in 1 .. (n + 1)
      OBVIOUS
    <3>3. C(k)[n + 1] = step[<<C(k)[n], n + 1>>]
      <4>1. \A j \in 1 .. k : C(k)[j] = step[<<C(k)[j - 1], j>>]
        BY <1>4
      <4> QED BY <3>2, <4>1
    <3>4. C(n + 1)[n + 1] = step[<<C(n + 1)[n], n + 1>>]
      <4>1. \A j \in 1 .. n + 1 : C(n + 1)[j] = step[<<C(n + 1)[j - 1], j>>]
        BY <1>4
      <4> QED BY <3>2, <4>1
    <3> QED BY <3>1, <3>3, <3>4
  <2>3. \A n \in Nat : n \in Q
    <3> HIDE DEF Q
    <3> QED BY <2>1, <2>2, InductionOn
  <2> QED BY <2>3
<1> DEFINE h == [n \in Nat |-> C(n)[n]]
<1>6. h \in [Nat -> S]
  BY <1>4
<1>7. h[0] = a
  BY <1>4
<1>8. ASSUME NEW n \in Nat PROVE h[n + 1] = step[<<h[n], n + 1>>]
  <2>1. n + 1 \in Nat /\ n + 1 \in 1 .. n + 1 /\ n <= n + 1 /\ n + 1 - 1 = n
    OBVIOUS
  <2>2. C(n + 1)[n + 1] = step[<<C(n + 1)[n], n + 1>>]
    BY <1>4, <2>1
  <2>3. C(n + 1)[n] = C(n)[n]
    BY <1>5, <2>1
  <2> QED BY <2>1, <2>2, <2>3
<1> HIDE DEF h
<1> QED BY <1>6, <1>7, <1>8 DEF Iterates

(* The same on 0 .. n, each value in a set of its own. *)
Through(f, n) == f = [k \in 0..n |-> f[k]]
Turning(f, n, a, step) == f[0] = a /\ \A k \in 1..n : f[k] = step[<<f[k - 1], k>>]
StepsWithin(step, n, G) == \A k \in 1..n : \A x \in G[k - 1] : step[<<x, k>>] \in G[k]
StaysWithin(f, n, G) == \A k \in 0..n : f[k] \in G[k]
AgreeFurther(f, g, n) == f[0] = g[0] /\ \A k \in 1..n : f[k - 1] = g[k - 1] => f[k] = g[k]

LEMMA RecursionWithin ==
  ASSUME NEW n \in Nat, NEW G, NEW a, a \in G[0], NEW step, StepsWithin(step, n, G)
  PROVE  \E f : Through(f, n) /\ Turning(f, n, a, step) /\ StaysWithin(f, n, G)
<1> DEFINE S == UNION {G[k] : k \in 0..n}
           One(x, k) == IF k \in 1..n /\ step[<<x, k>>] \in S THEN step[<<x, k>>] ELSE a
           all == [z \in S \X Nat |-> One(z[1], z[2])]
<1>0. \A k \in 0..n : \A x \in G[k] : x \in S
  OBVIOUS
<1>0a. \A k \in 1..n : \A x \in G[k - 1] : step[<<x, k>>] \in G[k]
  BY DEF StepsWithin
<1>1. a \in S
  BY <1>0
<1> HIDE DEF S
<1>2. PICK h : Iterates(h, S, a, all)
  <2>1. StepIn(all, S)
    BY <1>1 DEF StepIn
  <2> HIDE DEF all
  <2> QED BY <1>1, <2>1, RecursionExists
<1>3. h[0] = a /\ \A k \in Nat : h[k] \in S /\ h[k + 1] = One(h[k], k + 1)
  <2>1. h[0] = a
    BY <1>2 DEF Iterates
  <2>2. ASSUME NEW k \in Nat PROVE h[k] \in S /\ h[k + 1] = One(h[k], k + 1)
    <3>1. h[k] \in S /\ h[k + 1] = all[<<h[k], k + 1>>]
      BY <1>2 DEF Iterates
    <3> HIDE DEF One
    <3> QED BY <3>1
  <2> QED BY <2>1, <2>2
<1> DEFINE P == {k \in Nat : k <= n => h[k] \in G[k]}
<1>4. 0 \in P
  BY <1>3
<1>5. ASSUME NEW k \in Nat, k + 1 <= n, h[k] \in G[k] PROVE h[k + 1] = step[<<h[k], k + 1>>] /\ h[k + 1] \in G[k + 1]
  <2>1. k + 1 \in 1..n /\ k + 1 - 1 = k /\ k + 1 \in 0..n
    BY <1>5
  <2>2. step[<<h[k], k + 1>>] \in G[k + 1]
    BY <1>0a, <1>5, <2>1
  <2>3. step[<<h[k], k + 1>>] \in S
    BY <1>0, <2>1, <2>2
  <2> QED BY <1>3, <2>1, <2>2, <2>3
<1>6. ASSUME NEW k \in Nat, k \in P PROVE k + 1 \in P
  <2> SUFFICES ASSUME k + 1 <= n PROVE h[k + 1] \in G[k + 1]
    OBVIOUS
  <2>1. h[k] \in G[k]
    BY <1>6
  <2> HIDE DEF One, all, P
  <2> QED BY <1>5, <2>1
<1>7. \A k \in Nat : k \in P
  <2> HIDE DEF P
  <2> QED BY <1>4, <1>6, InductionOn
<1> DEFINE f == [k \in 0..n |-> h[k]]
<1>8. f = [k \in 0..n |-> f[k]] /\ f[0] = a
  BY <1>3
<1>9. \A k \in 0..n : f[k] \in G[k]
  BY <1>7
<1>10. ASSUME NEW k \in 1..n PROVE f[k] = step[<<f[k - 1], k>>]
  <2>1. k - 1 \in Nat /\ k - 1 + 1 = k /\ k - 1 <= n /\ k <= n /\ k \in 0..n /\ k - 1 \in 0..n
    OBVIOUS
  <2>2. h[k] = step[<<h[k - 1], k>>]
    <3>1. h[k - 1] \in G[k - 1]
      BY <1>7, <2>1
    <3> QED BY <1>5, <2>1, <3>1
  <2> QED BY <2>1, <2>2
<1> HIDE DEF f
<1> QED BY <1>8, <1>9, <1>10 DEF Through, Turning, StaysWithin

(* Such a function is the only one. *)
LEMMA RecursionOnly ==
  ASSUME NEW n \in Nat, NEW f, NEW g, Through(f, n), Through(g, n), AgreeFurther(f, g, n)
  PROVE  f = g
<1>0. f[0] = g[0] /\ \A k \in 1..n : f[k - 1] = g[k - 1] => f[k] = g[k]
  BY DEF AgreeFurther
<1> DEFINE P == {k \in Nat : k <= n => f[k] = g[k]}
<1>1. 0 \in P
  BY <1>0
<1>2. ASSUME NEW k \in Nat, k \in P PROVE k + 1 \in P
  <2> SUFFICES ASSUME k + 1 <= n PROVE f[k + 1] = g[k + 1]
    OBVIOUS
  <2> DEFINE j == k + 1
  <2>1. j \in 1..n /\ j - 1 = k /\ f[k] = g[k]
    BY <1>2
  <2> HIDE DEF j
  <2>2. f[j - 1] = g[j - 1]
    BY <2>1
  <2>3. f[j] = g[j]
    BY <1>0, <2>1, <2>2
  <2> QED BY <2>3 DEF j
<1>3. \A k \in Nat : k \in P
  <2> HIDE DEF P
  <2> QED BY <1>1, <1>2, InductionOn
<1> QED BY <1>3 DEF Through
=============================================================================
