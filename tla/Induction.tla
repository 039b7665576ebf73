----------------------------- MODULE Induction -----------------------------
(***************************************************************************)
(* The forms of induction the proofs use, as facts about sets and          *)
(* functions: a set of numbers has a least element, a set with 0 and with  *)
(* every number its successor has all, and a function can be defined by    *)
(* its first value and its steps.                                          *)
(***************************************************************************)
EXTENDS Integers, FiniteSetTheorems, TLAPS

LEMMA LeastNat ==
  ASSUME NEW T \in SUBSET Nat, T # {}
  PROVE  \E x \in T : \A y \in T : x <= y
<1> DEFINE R == {ss \in Nat \X Nat : ss[1] < ss[2]}
<1>1. IsWellFoundedOn(R, Nat)
  BY NatLessThanWellFounded DEF OpToRel
<1>2. \E x \in T : \A y \in T : ~ (<<y, x>> \in R)
  <2> HIDE DEF R
  <2>1. T \subseteq Nat
    OBVIOUS
  <2> QED BY <1>1, <2>1, WFMin
<1>3. \A x, y \in Nat : x < y => <<x, y>> \in R
  OBVIOUS
<1>4. \A x \in T : (\A y \in T : ~ (<<y, x>> \in R)) => \A y \in T : x <= y
  <2> SUFFICES ASSUME NEW x \in T, NEW y \in T, ~ (<<y, x>> \in R) PROVE x <= y
    BY Zenon
  <2>1. x \in Nat /\ y \in Nat
    OBVIOUS
  <2>2. ~ (y < x)
    BY <1>3, <2>1, Zenon
  <2> QED BY <2>1, <2>2
<1> HIDE DEF R
<1> QED
  BY <1>2, <1>4

(* A set that has 0 and with every n < m also n+1 has all numbers up to m. *)
LEMMA UpTo ==
  ASSUME NEW m \in Nat, NEW S, 0 \in S, \A n \in 0 .. m - 1 : n \in S => n + 1 \in S
  PROVE  \A n \in 0 .. m : n \in S
<1> DEFINE T == {n \in 0 .. m : n \notin S}
<1> SUFFICES ASSUME T # {} PROVE FALSE
  OBVIOUS
<1>1. PICK x \in T : \A y \in T : x <= y
  <2>1. T \in SUBSET Nat
    OBVIOUS
  <2> HIDE DEF T
  <2> QED BY <2>1, LeastNat
<1>2. x \in 0 .. m /\ x # 0 /\ x - 1 \in 0 .. m - 1
  BY <1>1
<1>3. x - 1 \in S
  BY <1>1, <1>2
<1> QED
  BY <1>1, <1>2, <1>3

(* f starts with a and goes on by the steps F. *)
Iteration(f, n, A, a, F) ==
  f \in [0..n -> A] /\ f[0] = a /\ \A i \in 1..n : f[i] = F[i][f[i-1]]

(* A function on 0 .. n can be defined by its first value and its steps. *)
LEMMA Iterate ==
  ASSUME NEW n \in Nat, NEW A, NEW a \in A, NEW F \in [1..n -> [A -> A]]
  PROVE  \E f : Iteration(f, n, A, a, F)
<1> DEFINE Good(f, m) == f[0] = a /\ \A i \in 1..m : f[i] = F[i][f[i-1]]
           S == {m \in 0..n : \E f \in [0..m -> A] : Good(f, m)}
<1>1. 0 \in S
  <2> DEFINE f == [i \in 0..0 |-> a]
  <2>1. f \in [0..0 -> A] /\ Good(f, 0)
    OBVIOUS
  <2> HIDE DEF f
  <2> QED BY <2>1
<1>2. \A m \in 0..n - 1 : m \in S => m + 1 \in S
  <2> SUFFICES ASSUME NEW m \in 0..n - 1, NEW f \in [0..m -> A], Good(f, m)
               PROVE  \E g \in [0..m+1 -> A] : Good(g, m + 1)
    OBVIOUS
  <2> DEFINE g == [i \in 0..m+1 |-> IF i <= m THEN f[i] ELSE F[m + 1][f[m]]]
  <2>1. F[m + 1][f[m]] \in A
    OBVIOUS
  <2>2. g \in [0..m+1 -> A]
    BY <2>1
  <2>3. g[0] = a
    OBVIOUS
  <2>4. \A i \in 1..m+1 : g[i] = F[i][g[i-1]]
    <3> SUFFICES ASSUME NEW i \in 1..m+1 PROVE g[i] = F[i][g[i-1]]
      OBVIOUS
    <3>1. CASE i <= m
      BY <3>1
    <3>2. CASE i = m + 1
      <4>1. g[m + 1] = F[m + 1][f[m]] /\ g[m] = f[m] /\ i - 1 = m
        BY <3>2
      <4> HIDE DEF g
      <4> QED BY <3>2, <4>1
    <3> QED BY <3>1, <3>2
  <2> HIDE DEF g
  <2> QED BY <2>2, <2>3, <2>4
<1>3. n \in S
  <2>1. n \in 0..n
    OBVIOUS
  <2> HIDE DEF S
  <2> QED BY <1>1, <1>2, <2>1, UpTo
<1> QED
  BY <1>3 DEF Iteration
=============================================================================
