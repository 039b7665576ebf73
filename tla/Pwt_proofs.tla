----------------------------- MODULE Pwt_proofs -----------------------------
(***************************************************************************)
(* The properties of Pwt, for every tree, number of workers, buffer size   *)
(* and job.  The invariant is that of PwtInvariant, in three layers:       *)
(*   1. the conversation of the manager with each worker (TalkInv);        *)
(*   2. what each step does with the tokens of PwtInvariant (the ...Flow   *)
(*      lemmas): they move between workers, messages and queues, and are   *)
(*      made and spent at few places;                                      *)
(*   3. from these the three invariants: each path is taken once (WalkInv),*)
(*      the counts are those of what was stat-ed (CountInv), and the parts *)
(*      of each file lead to its verdict (CompareInv).                     *)
(* StartsApart says that no start path lies below another; without it a    *)
(* path is stat-ed once for each start path above it.                      *)
(***************************************************************************)
EXTENDS PwtInvariant, Induction

(***************************************************************************)
(* Sums.                                                                   *)
(***************************************************************************)

LEMMA TotalDef ==
  ASSUME NEW n \in Nat, NEW f, \A i \in 1..n : f[i] \in Int
  PROVE  \E g \in [0..n -> Int] :
            /\ g[0] = 0 /\ \A i \in 1..n : g[i] = g[i - 1] + f[i]
            /\ \A h \in [0..n -> Int] :
                 h[0] = 0 /\ (\A i \in 1..n : h[i] = h[i - 1] + f[i]) => h = g
            /\ Total(f, n) = g[n]
<1> DEFINE F == [i \in 1..n |-> [x \in Int |-> x + f[i]]]
           P(g) == g = [i \in 0..n |-> IF i = 0 THEN 0 ELSE g[i - 1] + f[i]]
<1>1. F \in [1..n -> [Int -> Int]]
  OBVIOUS
<1>2. \A i \in 1..n : \A x \in Int : F[i][x] = x + f[i]
  OBVIOUS
<1> HIDE DEF F
<1>0. PICK g : Iteration(g, n, Int, 0, F)
  <2>1. 0 \in Int
    OBVIOUS
  <2> QED BY <1>1, <2>1, Iterate
<1>3. g \in [0..n -> Int] /\ g[0] = 0 /\ \A i \in 1..n : g[i] = g[i - 1] + f[i]
  <2>1. g \in [0..n -> Int] /\ g[0] = 0 /\ \A i \in 1..n : g[i] = F[i][g[i - 1]]
    BY <1>0 DEF Iteration
  <2>2. \A i \in 1..n : g[i - 1] \in Int
    BY <2>1
  <2> QED BY <1>2, <2>1, <2>2
<1>4. P(g)
  BY <1>3
<1>5. \A h : P(h) => h = g
  <2> SUFFICES ASSUME NEW h, P(h) PROVE h = g
    OBVIOUS
  <2> DEFINE S == {i \in 0..n : h[i] = g[i]}
  <2>1. 0 \in S
    BY <1>3
  <2>2. \A i \in 0..n - 1 : i \in S => i + 1 \in S
    BY <1>3
  <2>3. \A i \in 0..n : i \in S
    <3> HIDE DEF S
    <3> QED BY <2>1, <2>2, UpTo
  <2> QED BY <1>3, <2>3
<1>6. Total(f, n) = g[n]
  <2>1. g = CHOOSE h : P(h)
    <3> HIDE DEF P
    <3> QED BY <1>4, <1>5
  <2> QED BY <2>1 DEF Total
<1>7. \A h \in [0..n -> Int] :
        h[0] = 0 /\ (\A i \in 1..n : h[i] = h[i - 1] + f[i]) => h = g
  <2> SUFFICES ASSUME NEW h \in [0..n -> Int], h[0] = 0, \A i \in 1..n : h[i] = h[i - 1] + f[i]
               PROVE  P(h)
    BY <1>5
  <2> QED OBVIOUS
<1> QED
  BY <1>3, <1>6, <1>7

(* A sum of integers is an integer. *)
LEMMA TotalInt ==
  ASSUME NEW n \in Nat, NEW f, \A i \in 1..n : f[i] \in Int
  PROVE  Total(f, n) \in Int
BY TotalDef

(* An empty sum is zero. *)
LEMMA TotalNone == \A f : Total(f, 0) = 0
<1> SUFFICES ASSUME NEW f PROVE Total(f, 0) = 0
  OBVIOUS
<1>1. \A i \in 1..0 : f[i] \in Int
  OBVIOUS
<1> QED BY <1>1, TotalDef

(* The last term of a sum. *)
LEMMA TotalLast ==
  ASSUME NEW n \in Nat, NEW f, NEW g, \A i \in 1..n + 1 : f[i] \in Int,
         \A i \in 1..n : g[i] = f[i]
  PROVE  Total(f, n + 1) = Total(g, n) + f[n + 1]
<1>1. PICK a \in [0..n + 1 -> Int] :
         /\ a[0] = 0 /\ \A i \in 1..n + 1 : a[i] = a[i - 1] + f[i]
         /\ Total(f, n + 1) = a[n + 1]
  BY TotalDef
<1>2. \A i \in 1..n : g[i] \in Int
  OBVIOUS
<1>3. PICK b \in [0..n -> Int] :
         /\ \A h \in [0..n -> Int] :
              h[0] = 0 /\ (\A i \in 1..n : h[i] = h[i - 1] + g[i]) => h = b
         /\ Total(g, n) = b[n]
  BY <1>2, TotalDef
<1> DEFINE h == [i \in 0..n |-> a[i]]
<1>4. h \in [0..n -> Int] /\ h[0] = 0 /\ \A i \in 1..n : h[i] = h[i - 1] + g[i]
  BY <1>1
<1>5. h = b
  <2> HIDE DEF h
  <2> QED BY <1>3, <1>4
<1>6. b[n] = a[n] /\ a[n + 1] = a[n] + f[n + 1]
  BY <1>1, <1>5
<1> QED
  BY <1>1, <1>3, <1>6

(* Sums of the same terms are equal. *)
LEMMA TotalSame ==
  ASSUME NEW n \in Nat, NEW f, NEW g, \A i \in 1..n : f[i] \in Int /\ g[i] = f[i]
  PROVE  Total(g, n) = Total(f, n)
<1>1. CASE n = 0
  BY <1>1, TotalNone
<1>2. CASE n # 0
  <2>1. n - 1 \in Nat /\ (n - 1) + 1 = n
    BY <1>2
  <2> DEFINE m == n - 1
  <2>2. m \in Nat /\ n = m + 1
    BY <2>1
  <2> HIDE DEF m
  <2>3. Total(f, m + 1) = Total(f, m) + f[m + 1]
    BY <2>2, TotalLast
  <2>4. Total(g, m + 1) = Total(f, m) + g[m + 1]
    BY <2>2, TotalLast
  <2> QED BY <2>2, <2>3, <2>4
<1> QED BY <1>1, <1>2

(* The first term of a sum. *)
LEMMA TotalFirst ==
  ASSUME NEW n \in Nat, NEW f, NEW g, \A i \in 1..n + 1 : f[i] \in Int,
         \A i \in 1..n : g[i] = f[i + 1]
  PROVE  Total(f, n + 1) = f[1] + Total(g, n)
<1> DEFINE S == {m \in 0..n : Total(f, m + 1) = f[1] + Total(g, m)}
<1>1. 0 \in S
  <2>1. Total(f, 1) = Total(f, 0) + f[1]
    <3>1. 0 \in Nat /\ (\A i \in 1..0 + 1 : f[i] \in Int) /\ (\A i \in 1..0 : f[i] = f[i])
      OBVIOUS
    <3>2. Total(f, 0 + 1) = Total(f, 0) + f[0 + 1]
      BY <3>1, TotalLast
    <3> QED BY <3>2
  <2> QED BY <2>1, TotalNone
<1>2. \A m \in 0..n - 1 : m \in S => m + 1 \in S
  <2> SUFFICES ASSUME NEW m \in 0..n - 1, Total(f, m + 1) = f[1] + Total(g, m)
               PROVE  Total(f, (m + 1) + 1) = f[1] + Total(g, m + 1)
    OBVIOUS
  <2>1. Total(f, (m + 1) + 1) = Total(f, m + 1) + f[(m + 1) + 1]
    <3>1. m + 1 \in Nat /\ \A i \in 1..(m + 1) + 1 : f[i] \in Int
      OBVIOUS
    <3> QED BY <3>1, TotalLast
  <2>2. Total(g, m + 1) = Total(g, m) + g[m + 1]
    <3>1. m \in Nat /\ \A i \in 1..m + 1 : g[i] \in Int
      OBVIOUS
    <3> QED BY <3>1, TotalLast
  <2>3. Total(g, m) \in Int
    <3>1. m \in Nat /\ \A i \in 1..m : g[i] \in Int
      OBVIOUS
    <3> QED BY <3>1, TotalInt
  <2>4. g[m + 1] = f[(m + 1) + 1] /\ g[m + 1] \in Int /\ f[1] \in Int
    OBVIOUS
  <2> QED BY <2>1, <2>2, <2>3, <2>4
<1>3. n \in S
  <2>1. n \in 0..n
    OBVIOUS
  <2> HIDE DEF S
  <2> QED BY <1>1, <1>2, <2>1, UpTo
<1> QED BY <1>3

(* A sum changes with its k-th value as that does. *)
LEMMA TotalChange ==
  ASSUME NEW n \in Nat, NEW f, NEW g, NEW k \in 1..n,
         \A i \in 1..n : f[i] \in Int /\ g[i] \in Int,
         \A i \in 1..n : i # k => g[i] = f[i]
  PROVE  Total(g, n) - g[k] = Total(f, n) - f[k]
<1> DEFINE S == {m \in 0..n : Total(g, m) - Total(f, m) = IF m < k THEN 0 ELSE g[k] - f[k]}
<1>1. 0 \in S
  BY TotalNone
<1>2. \A m \in 0..n - 1 : m \in S => m + 1 \in S
  <2> SUFFICES ASSUME NEW m \in 0..n - 1,
                      Total(g, m) - Total(f, m) = IF m < k THEN 0 ELSE g[k] - f[k]
               PROVE  Total(g, m + 1) - Total(f, m + 1) = IF m + 1 < k THEN 0 ELSE g[k] - f[k]
    OBVIOUS
  <2>0. m \in Nat /\ m + 1 \in 1..n /\ \A i \in 1..m + 1 : i \in 1..n
    OBVIOUS
  <2>1. Total(f, m + 1) = Total(f, m) + f[m + 1]
    BY <2>0, TotalLast
  <2>2. Total(g, m + 1) = Total(g, m) + g[m + 1]
    BY <2>0, TotalLast
  <2>3. Total(g, m) \in Int /\ Total(f, m) \in Int
    BY TotalInt
  <2>4. f[m + 1] \in Int /\ g[m + 1] \in Int /\ f[k] \in Int /\ g[k] \in Int
    BY <2>0
  <2>5. m + 1 # k => f[m + 1] = g[m + 1]
    BY <2>0
  <2> QED BY <2>1, <2>2, <2>3, <2>4, <2>5
<1>3. n \in S
  <2>1. n \in 0..n
    OBVIOUS
  <2> HIDE DEF S
  <2> QED BY <1>1, <1>2, <2>1, UpTo
<1>4. Total(g, n) \in Int /\ Total(f, n) \in Int /\ f[k] \in Int /\ g[k] \in Int
  BY TotalInt
<1> QED BY <1>3, <1>4

(* Of natural numbers the sum is at least each; of zeros it is zero. *)
LEMMA TotalBound ==
  ASSUME NEW n \in Nat, NEW f, NEW g, \A i \in 1..n : f[i] \in Nat /\ g[i] \in Nat /\ f[i] <= g[i]
  PROVE  Total(f, n) \in Nat /\ Total(f, n) <= Total(g, n)
<1> DEFINE S == {m \in 0..n : Total(f, m) \in Nat /\ Total(f, m) <= Total(g, m)}
<1>1. 0 \in S
  BY TotalNone
<1>2. \A m \in 0..n - 1 : m \in S => m + 1 \in S
  <2> SUFFICES ASSUME NEW m \in 0..n - 1, Total(f, m) \in Nat, Total(f, m) <= Total(g, m)
               PROVE  Total(f, m + 1) \in Nat /\ Total(f, m + 1) <= Total(g, m + 1)
    OBVIOUS
  <2>0. m \in Nat /\ m + 1 \in 1..n /\ \A i \in 1..m + 1 : i \in 1..n
    OBVIOUS
  <2>1. Total(f, m + 1) = Total(f, m) + f[m + 1]
    BY <2>0, TotalLast
  <2>2. Total(g, m + 1) = Total(g, m) + g[m + 1]
    BY <2>0, TotalLast
  <2>3. Total(g, m) \in Int
    BY TotalInt
  <2>4. f[m + 1] \in Nat /\ g[m + 1] \in Nat /\ f[m + 1] <= g[m + 1]
    BY <2>0
  <2> QED BY <2>1, <2>2, <2>3, <2>4
<1>3. n \in S
  <2>1. n \in 0..n
    OBVIOUS
  <2> HIDE DEF S
  <2> QED BY <1>1, <1>2, <2>1, UpTo
<1> QED BY <1>3

(* A sum of naturals is at least each of its terms. *)
LEMMA TotalAtLeast ==
  ASSUME NEW n \in Nat, NEW f, NEW k \in 1..n, \A i \in 1..n : f[i] \in Nat
  PROVE  f[k] <= Total(f, n)
<1> DEFINE g == [i \in 1..n |-> IF i = k THEN 0 ELSE f[i]]
<1>1. \A i \in 1..n : g[i] \in Nat /\ f[i] \in Int /\ g[i] \in Int /\ (i # k => g[i] = f[i])
  OBVIOUS
<1>2. g[k] = 0
  OBVIOUS
<1> HIDE DEF g
<1>3. Total(g, n) - g[k] = Total(f, n) - f[k]
  BY <1>1, TotalChange
<1>4. Total(g, n) \in Nat
  BY <1>1, TotalBound
<1>5. Total(f, n) \in Int /\ f[k] \in Int
  BY <1>1, TotalInt
<1> QED BY <1>2, <1>3, <1>4, <1>5

(* A sum of zeros is zero. *)
LEMMA TotalZero ==
  ASSUME NEW n \in Nat, NEW f, \A i \in 1..n : f[i] = 0
  PROVE  Total(f, n) = 0
<1> DEFINE S == {m \in 0..n : Total(f, m) = 0}
<1>1. 0 \in S
  BY TotalNone
<1>2. \A m \in 0..n - 1 : m \in S => m + 1 \in S
  <2> SUFFICES ASSUME NEW m \in 0..n - 1, Total(f, m) = 0 PROVE Total(f, m + 1) = 0
    OBVIOUS
  <2>0. m \in Nat /\ m + 1 \in 1..n /\ \A i \in 1..m + 1 : f[i] \in Int
    OBVIOUS
  <2>1. Total(f, m + 1) = Total(f, m) + f[m + 1]
    BY <2>0, TotalLast
  <2> QED BY <2>0, <2>1
<1>3. n \in S
  <2>1. n \in 0..n
    OBVIOUS
  <2> HIDE DEF S
  <2> QED BY <1>1, <1>2, <2>1, UpTo
<1> QED BY <1>3

(* A sum that is not zero has a value that is not. *)
LEMMA TotalSome ==
  ASSUME NEW n \in Nat, NEW f, \A i \in 1..n : f[i] \in Nat, Total(f, n) > 0
  PROVE  \E i \in 1..n : f[i] > 0
<1> SUFFICES ASSUME \A i \in 1..n : ~(f[i] > 0) PROVE FALSE
  OBVIOUS
<1>1. \A i \in 1..n : f[i] = 0
  OBVIOUS
<1> QED BY <1>1, TotalZero

(***************************************************************************)
(* The weights of paths and items.                                         *)
(***************************************************************************)

LEMMA PathWeightNat == \A t, fn, p : PathWeight(t, fn, p) \in Nat
BY DEF PathWeight, Bit

(* No path, no token. *)
LEMMA PathsNone == \A t, fn : PathsWeight(t, fn, <<>>) = 0
BY TotalNone DEF PathsWeight

(* The tokens of a list of paths are a natural number. *)
LEMMA PathsNat ==
  ASSUME NEW S, NEW s \in Seq(S), NEW t, NEW fn
  PROVE  PathsWeight(t, fn, s) \in Nat
<1> DEFINE f == [i \in 1..Len(s) |-> PathWeight(t, fn, s[i])]
<1>1. Len(s) \in Nat /\ \A i \in 1..Len(s) : f[i] \in Nat
  BY PathWeightNat
<1>2. \A i \in 1..Len(s) : f[i] <= f[i]
  BY <1>1
<1> HIDE DEF f
<1>3. Total(f, Len(s)) \in Nat
  BY <1>1, <1>2, TotalBound
<1> QED BY <1>3 DEF PathsWeight, f

(* A path appended to a list brings its tokens. *)
LEMMA PathsAppend ==
  ASSUME NEW S, NEW s \in Seq(S), NEW p \in S, NEW t, NEW fn
  PROVE  PathsWeight(t, fn, Append(s, p)) = PathsWeight(t, fn, s) + PathWeight(t, fn, p)
<1> DEFINE r == Append(s, p)
           f == [i \in 1..Len(r) |-> PathWeight(t, fn, r[i])]
           g == [i \in 1..Len(s) |-> PathWeight(t, fn, s[i])]
           n == Len(s)
<1>1. n \in Nat /\ Len(r) = n + 1 /\ r[n + 1] = p /\ \A i \in 1..n : r[i] = s[i]
  OBVIOUS
<1>2. \A i \in 1..n + 1 : f[i] \in Int
  BY <1>1, PathWeightNat
<1>3. (\A i \in 1..n : g[i] = f[i]) /\ f[n + 1] = PathWeight(t, fn, p)
  BY <1>1
<1> HIDE DEF f, g, n, r
<1>4. Total(f, n + 1) = Total(g, n) + f[n + 1]
  BY <1>1, <1>2, <1>3, TotalLast
<1> QED BY <1>1, <1>3, <1>4 DEF PathsWeight, f, g, n, r

(* The head of a list takes its tokens with it. *)
LEMMA PathsHead ==
  ASSUME NEW S, NEW s \in Seq(S), s # <<>>, NEW t, NEW fn
  PROVE  PathsWeight(t, fn, s) = PathWeight(t, fn, Head(s)) + PathsWeight(t, fn, Tail(s))
<1> DEFINE r == Tail(s)
           n == Len(r)
           f == [i \in 1..Len(s) |-> PathWeight(t, fn, s[i])]
           g == [i \in 1..Len(r) |-> PathWeight(t, fn, r[i])]
<1>1. n \in Nat /\ Len(s) = n + 1 /\ Head(s) = s[1] /\ \A i \in 1..n : r[i] = s[i + 1]
  OBVIOUS
<1>2. \A i \in 1..n + 1 : f[i] \in Int
  BY <1>1, PathWeightNat
<1>3. (\A i \in 1..n : g[i] = f[i + 1]) /\ f[1] = PathWeight(t, fn, Head(s))
  BY <1>1
<1> HIDE DEF f, g, n, r
<1>4. Total(f, n + 1) = f[1] + Total(g, n)
  BY <1>1, <1>2, <1>3, TotalFirst
<1> QED BY <1>1, <1>3, <1>4 DEF PathsWeight, f, g, n, r

(* So does the first path of the rest of a list. *)
LEMMA PathsRest ==
  ASSUME NEW S, NEW s \in Seq(S), NEW i \in 1..Len(s), NEW t, NEW fn
  PROVE  PathsWeight(t, fn, SubSeq(s, i, Len(s)))
           = PathWeight(t, fn, s[i]) + PathsWeight(t, fn, SubSeq(s, i + 1, Len(s)))
<1> DEFINE r == SubSeq(s, i, Len(s))
<1>1. r \in Seq(S) /\ r # <<>> /\ Head(r) = s[i]
  <2>1. r \in Seq(S) /\ Len(r) = Len(s) - i + 1 /\ r[1] = s[i]
    OBVIOUS
  <2>2. Len(r) > 0
    BY <2>1
  <2> HIDE DEF r
  <2> QED BY <2>1, <2>2
<1>2. Tail(r) = SubSeq(s, i + 1, Len(s))
  OBVIOUS
<1> HIDE DEF r
<1>3. PathsWeight(t, fn, r) = PathWeight(t, fn, Head(r)) + PathsWeight(t, fn, Tail(r))
  BY <1>1, PathsHead
<1> QED BY <1>1, <1>2, <1>3 DEF r

(* A path that is not in a buffer is no token of it; one that is in it     *)
(* once is one token.                                                      *)
LEMMA PathsOther ==
  ASSUME NEW S, NEW s \in Seq(S), NEW t, NEW fn, \A i \in 1..Len(s) : PathWeight(t, fn, s[i]) = 0
  PROVE  PathsWeight(t, fn, s) = 0
<1> DEFINE f == [i \in 1..Len(s) |-> PathWeight(t, fn, s[i])]
<1>1. Len(s) \in Nat /\ \A i \in 1..Len(s) : f[i] = 0
  OBVIOUS
<1> HIDE DEF f
<1>2. Total(f, Len(s)) = 0
  BY <1>1, TotalZero
<1> QED BY <1>2 DEF PathsWeight, f

(* One path of a list holds the token: the list holds it once. *)
LEMMA PathsOne ==
  ASSUME NEW S, NEW s \in Seq(S), NEW k \in 1..Len(s), NEW t, NEW fn, PathWeight(t, fn, s[k]) = 1,
         \A i \in 1..Len(s) : i # k => PathWeight(t, fn, s[i]) = 0
  PROVE  PathsWeight(t, fn, s) = 1
<1> DEFINE f == [i \in 1..Len(s) |-> PathWeight(t, fn, s[i])]
           g == [i \in 1..Len(s) |-> 0]
           n == Len(s)
<1>1. n \in Nat /\ k \in 1..n /\ f[k] = 1 /\ \A i \in 1..n : g[i] = 0
  OBVIOUS
<1>2. \A i \in 1..n : f[i] \in Int /\ g[i] \in Int
  BY PathWeightNat
<1>3. \A i \in 1..n : i # k => f[i] = g[i]
  OBVIOUS
<1> HIDE DEF f, g, n
<1>4. Total(g, n) = 0
  BY <1>1, TotalZero
<1>5. Total(f, n) - f[k] = Total(g, n) - g[k]
  <2>1. \A i \in 1..n : g[i] \in Int /\ f[i] \in Int
    BY <1>2
  <2>2. n \in Nat /\ k \in 1..n
    BY <1>1
  <2> HIDE <1>1
  <2> QED BY ONLY <1>3, <2>1, <2>2, TotalChange
<1>6. Total(f, n) \in Int
  BY <1>1, <1>2, TotalInt
<1>7. Total(f, n) = 1
  BY <1>1, <1>4, <1>5, <1>6
<1> QED BY <1>7 DEF PathsWeight, f, n

(* A list that holds a token has a path that holds it. *)
LEMMA PathsSome ==
  ASSUME NEW S, NEW s \in Seq(S), NEW t, NEW fn, PathsWeight(t, fn, s) > 0
  PROVE  \E i \in 1..Len(s) : PathWeight(t, fn, s[i]) > 0
<1> SUFFICES ASSUME \A i \in 1..Len(s) : ~(PathWeight(t, fn, s[i]) > 0) PROVE FALSE
  OBVIOUS
<1>1. \A i \in 1..Len(s) : PathWeight(t, fn, s[i]) = 0
  BY PathWeightNat
<1>2. PathsWeight(t, fn, s) = 0
  BY <1>1, PathsOther
<1> QED BY <1>2

(***************************************************************************)
(* Items.                                                                  *)
(***************************************************************************)

Messages == Work \cup Ask \cup Announce \cup Done \cup {Exit}

(* The fields of a work item. *)
LEMMA ItemFields ==
  ASSUME NEW m \in Item
  PROVE  /\ m.do_work \in ItemFns /\ m.manager_run \in BOOLEAN /\ m.qidx \in {0, 1}
         /\ m.originator \in {MANAGER_PROC} \cup Workers /\ m.path \in Seq(Path)
         /\ m.workdata \in {NoData} \cup PathData \cup RequestData \cup PerfData \cup PairData \cup StatData
BY DEF Item

(* workitem_new makes an item without function or data. *)
LEMMA NewItem ==
  /\ workitem_new(MANAGER_PROC) \in Item
  /\ workitem_new(MANAGER_PROC).do_work = "none" /\ workitem_new(MANAGER_PROC).workdata = NoData
<1>1. <<>> \in Seq(Path) /\ "none" \in ItemFns
  BY DEF ItemFns
<1> QED BY <1>1 DEF workitem_new, Item, ItemFns

(* The kinds of work data are told apart by their type. *)
LEMMA DataTypes ==
  /\ NoData.type = "none"
  /\ \A x \in PathData : x.type = "paths" /\ x.paths \in Seq(Path)
  /\ \A x \in RequestData : x.type = "request" /\ x.sleep_seconds \in Nat
  /\ \A x \in PerfData : x.type = "perf" /\ x.perf \in Perf
  /\ \A x \in PairData : /\ x.type = "pair" /\ x.src \in DOMAIN Src /\ x.chunknum \in -1..nproc
                         /\ x.matched \in BOOLEAN
  /\ \A x \in StatData : x.type = "filestat" /\ x.files \in PairData /\ x.perf \in Perf
BY DEF NoData, PathData, RequestData, PerfData, PairData, StatData

(* The message that ends a worker. *)
LEMMA ExitItem ==
  /\ Exit \in Item /\ Exit.do_work = "worker_exit" /\ Exit.originator = MANAGER_PROC
  /\ Exit.manager_run = FALSE
<1>1. <<>> \in Seq(Path) /\ "worker_exit" \in ItemFns
  BY DEF ItemFns
<1> QED BY <1>1 DEF Exit, workitem_new, Item, ItemFns

(* Every message is a work item. *)
LEMMA MessagesItems == Messages \subseteq Item
BY ExitItem DEF Messages, Work, Walk, Compare, Ask, Announce, Done, DoneWalk, DoneCompare

(* The kinds of items are told apart by what they have done. *)
LEMMA Kinds ==
  /\ \A m \in Walk : m.do_work \in WalkFns /\ ~m.manager_run
  /\ \A m \in Compare : m.do_work = "cmp_compare" /\ ~m.manager_run /\ m.workdata \in PairData
  /\ \A m \in Ask : m.do_work = "none" /\ ~m.manager_run /\ m.workdata \in RequestData
  /\ \A m \in Announce : m.do_work = "cmp_addchunkfile" /\ m.manager_run /\ m.workdata \in PairData
  /\ \A m \in DoneWalk : m.do_work = "manager_workdone" /\ m.manager_run /\ m.workdata \in PerfData
  /\ \A m \in DoneCompare : m.do_work = "cmp_workdone" /\ m.manager_run /\ m.workdata \in StatData
BY DEF Walk, Compare, Ask, Announce, DoneWalk, DoneCompare

(* The counters of a performance record are naturals. *)
LEMMA PerfNat == \A perf \in Perf : perf.dirs \in Nat /\ perf.compares \in Nat
BY DEF Perf

(* The paths of an item are paths. *)
LEMMA PathsOfItem ==
  ASSUME NEW m \in Item
  PROVE  PathsOf(m) \in Seq(Path)
BY ItemFields, DataTypes DEF PathsOf

(* The tokens of a performance record are natural numbers. *)
LEMMA PerfWeightNat == \A t : \A perf \in Perf : PerfWeight(t, perf) \in Nat
BY PerfNat DEF PerfWeight

(* So are those of a part, *)
LEMMA PartWeightNat == \A t, pair : PartWeight(t, pair) \in Nat
BY DEF PartWeight, Bit

(* and those of a message. *)
LEMMA WeightNat ==
  ASSUME NEW t, NEW m \in Messages
  PROVE  Weight(t, m) \in Nat
<1>1. CASE m \in Walk
  <2>1. PathsWeight(t, m.do_work, PathsOf(m)) \in Nat
    BY <1>1, PathsOfItem, PathsNat, MessagesItems
  <2> QED BY <1>1, <2>1, Kinds DEF Weight
<1>2. CASE m \in Compare
  BY <1>2, Kinds, PartWeightNat DEF Weight, Bit, WalkFns
<1>3. CASE m \in Ask
  BY <1>3, Kinds DEF Weight, WalkFns
<1>4. CASE m \in Announce
  BY <1>4, Kinds DEF Weight, Bit, WalkFns
<1>5. CASE m \in DoneWalk
  BY <1>5, Kinds, DataTypes, PerfWeightNat DEF Weight, WalkFns
<1>6. CASE m \in DoneCompare
  <2>1. m.workdata.perf \in Perf /\ m.do_work = "cmp_workdone"
    BY <1>6, Kinds, DataTypes
  <2>2. PerfWeight(t, m.workdata.perf) \in Nat /\ PartWeight(t, m.workdata.files) \in Nat
    BY <2>1, PerfWeightNat, PartWeightNat
  <2> QED BY <2>1, <2>2 DEF Weight, WalkFns
<1>7. CASE m = Exit
  BY <1>7, ExitItem DEF Weight, WalkFns
<1> QED
  BY <1>1, <1>2, <1>3, <1>4, <1>5, <1>6, <1>7 DEF Messages, Work, Done

(* Requests, answers and the order to exit hold no token. *)
LEMMA Weightless ==
  /\ \A t : \A m \in Ask \cup {Exit} : Weight(t, m) = 0
  /\ \A t : Weight(t, workitem_new(MANAGER_PROC)) = 0
BY Kinds, ExitItem, NewItem DEF Weight, WalkFns

(* Who sends an item does not change it otherwise. *)
LEMMA Signed ==
  ASSUME NEW m \in Messages, NEW r \in {MANAGER_PROC} \cup Workers
  PROVE  LET s == [m EXCEPT !.originator = r] IN
         /\ s \in Item /\ s.originator = r /\ s.do_work = m.do_work /\ s.manager_run = m.manager_run
         /\ s.qidx = m.qidx /\ s.path = m.path /\ s.workdata = m.workdata
<1>1. m \in Item
  BY MessagesItems
<1> QED BY <1>1 DEF Item

(* Setting the originator changes neither the kind of a message nor its *)
(* tokens.                                                              *)
LEMMA SignedKind ==
  ASSUME NEW m \in Messages, NEW r \in {MANAGER_PROC} \cup Workers
  PROVE  LET s == [m EXCEPT !.originator = r] IN
         /\ m \in Walk => s \in Walk
         /\ m \in Compare => s \in Compare
         /\ m \in Ask => s \in Ask
         /\ m \in Announce => s \in Announce
         /\ m \in DoneWalk => s \in DoneWalk
         /\ m \in DoneCompare => s \in DoneCompare
         /\ \A t : Weight(t, s) = Weight(t, m)
<1> DEFINE s == [m EXCEPT !.originator = r]
<1>1. /\ s \in Item /\ s.do_work = m.do_work /\ s.manager_run = m.manager_run
      /\ s.qidx = m.qidx /\ s.path = m.path /\ s.workdata = m.workdata
  BY Signed
<1> HIDE DEF s
<1>2. PathsOf(s) = PathsOf(m)
  BY <1>1 DEF PathsOf
<1>3. m \in Walk => s \in Walk
  BY <1>1, <1>2 DEF Walk
<1>4. /\ m \in Compare => s \in Compare
      /\ m \in Ask => s \in Ask
      /\ m \in Announce => s \in Announce
      /\ m \in DoneWalk => s \in DoneWalk
      /\ m \in DoneCompare => s \in DoneCompare
  BY <1>1 DEF Compare, Ask, Announce, DoneWalk, DoneCompare
<1>5. \A t : Weight(t, s) = Weight(t, m)
  BY <1>1, <1>2 DEF Weight
<1> QED BY <1>3, <1>4, <1>5 DEF s

(* No message, no token. *)
LEMMA ItemsNone == \A t : ItemsWeight(t, <<>>) = 0
BY TotalNone DEF ItemsWeight

(* The tokens of a list of messages are a natural number. *)
LEMMA ItemsNat ==
  ASSUME NEW s \in Seq(Messages), NEW t
  PROVE  ItemsWeight(t, s) \in Nat
<1> DEFINE f == [i \in 1..Len(s) |-> Weight(t, s[i])]
<1>1. Len(s) \in Nat /\ \A i \in 1..Len(s) : f[i] \in Nat
  BY WeightNat
<1>2. \A i \in 1..Len(s) : f[i] <= f[i]
  BY <1>1
<1> HIDE DEF f
<1>3. Total(f, Len(s)) \in Nat
  BY <1>1, <1>2, TotalBound
<1> QED BY <1>3 DEF ItemsWeight, f

(* A message appended to a list brings its tokens. *)
LEMMA ItemsAppend ==
  ASSUME NEW s \in Seq(Messages), NEW m \in Messages, NEW t
  PROVE  ItemsWeight(t, Append(s, m)) = ItemsWeight(t, s) + Weight(t, m)
<1> DEFINE r == Append(s, m)
           f == [i \in 1..Len(r) |-> Weight(t, r[i])]
           g == [i \in 1..Len(s) |-> Weight(t, s[i])]
           n == Len(s)
<1>1. n \in Nat /\ Len(r) = n + 1 /\ r[n + 1] = m /\ \A i \in 1..n : r[i] = s[i]
  OBVIOUS
<1>2. \A i \in 1..n + 1 : r[i] \in Messages
  BY <1>1
<1>3. \A i \in 1..n + 1 : f[i] \in Int
  BY <1>1, <1>2, WeightNat
<1>4. (\A i \in 1..n : g[i] = f[i]) /\ f[n + 1] = Weight(t, m)
  BY <1>1
<1> HIDE DEF f, g, n, r
<1>5. Total(f, n + 1) = Total(g, n) + f[n + 1]
  BY <1>1, <1>3, <1>4, TotalLast
<1> QED BY <1>1, <1>4, <1>5 DEF ItemsWeight, f, g, n, r

(* The head of a list takes its tokens with it. *)
LEMMA ItemsHead ==
  ASSUME NEW s \in Seq(Messages), s # <<>>, NEW t
  PROVE  ItemsWeight(t, s) = Weight(t, Head(s)) + ItemsWeight(t, Tail(s))
<1> DEFINE r == Tail(s)
           n == Len(r)
           f == [i \in 1..Len(s) |-> Weight(t, s[i])]
           g == [i \in 1..Len(r) |-> Weight(t, r[i])]
<1>1. n \in Nat /\ Len(s) = n + 1 /\ Head(s) = s[1] /\ \A i \in 1..n : r[i] = s[i + 1]
  OBVIOUS
<1>2. \A i \in 1..n + 1 : f[i] \in Int
  BY <1>1, WeightNat
<1>3. (\A i \in 1..n : g[i] = f[i + 1]) /\ f[1] = Weight(t, Head(s))
  BY <1>1
<1> HIDE DEF f, g, n, r
<1>4. Total(f, n + 1) = f[1] + Total(g, n)
  BY <1>1, <1>2, <1>3, TotalFirst
<1> QED BY <1>1, <1>3, <1>4 DEF ItemsWeight, f, g, n, r

(* A list holds at least the tokens of each of its messages. *)
LEMMA ItemsAtLeast ==
  ASSUME NEW s \in Seq(Messages), NEW k \in 1..Len(s), NEW t
  PROVE  Weight(t, s[k]) <= ItemsWeight(t, s)
<1> DEFINE f == [i \in 1..Len(s) |-> Weight(t, s[i])]
<1>1. Len(s) \in Nat /\ k \in 1..Len(s) /\ \A i \in 1..Len(s) : f[i] \in Nat
  BY WeightNat
<1>2. f[k] = Weight(t, s[k])
  OBVIOUS
<1> HIDE DEF f
<1>3. f[k] <= Total(f, Len(s))
  BY <1>1, TotalAtLeast
<1> QED BY <1>2, <1>3 DEF ItemsWeight, f

(* A list that holds a token has a message that holds it. *)
LEMMA ItemsSome ==
  ASSUME NEW s \in Seq(Messages), NEW t, ItemsWeight(t, s) > 0
  PROVE  \E k \in 1..Len(s) : Weight(t, s[k]) > 0
<1> DEFINE f == [i \in 1..Len(s) |-> Weight(t, s[i])]
<1>1. Len(s) \in Nat /\ \A i \in 1..Len(s) : f[i] \in Nat /\ f[i] = Weight(t, s[i])
  BY WeightNat
<1>2. Total(f, Len(s)) > 0
  BY DEF ItemsWeight
<1> HIDE DEF f
<1>3. \E i \in 1..Len(s) : f[i] > 0
  BY <1>1, <1>2, TotalSome
<1> QED BY <1>1, <1>3

(***************************************************************************)
(* The scheduler's choices.                                                *)
(***************************************************************************)

LEMMA Ranks ==
  /\ Workers = 1..nproc - 1 /\ nproc \in Nat /\ nproc > 1 /\ Workers \subseteq Nat \ {0} /\ Workers # {}
  /\ MANAGER_PROC = 0 /\ MANAGER_PROC \notin Workers /\ nproc - 1 \in Nat
<1>1. nproc \in Nat /\ nproc > 1 /\ Workers = 1..nproc - 1
  BY PwtAssumption
<1> HIDE DEF nproc
<1>2. 1 \in 1..nproc - 1
  BY <1>1
<1> QED BY <1>1, <1>2 DEF MANAGER_PROC

(* The queues are 0 and perhaps 1, and HighestIdx names one of them. *)
LEMMA QueueNumbers ==
  /\ 0 \in Queues /\ Queues \subseteq {0, 1}
  /\ \A idx \in {0, 1} : HighestIdx(idx) \in Queues
  /\ \A idx \in Queues : HighestIdx(idx) = idx
<1>1. Queues = {0} \/ Queues = {0, 1}
  BY DEF Queues
<1>2. \E q \in Queues : q + 1 \notin Queues
  BY <1>1
<1>3. (CHOOSE q \in Queues : q + 1 \notin Queues) \in Queues
  BY <1>2
<1> QED BY <1>1, <1>3 DEF HighestIdx

(* processing_get_idle finds an idle worker when there is one. *)
LEMMA LowestIdle ==
  ASSUME Idle # {}
  PROVE  processing_get_idle \in Workers /\ ~active[processing_get_idle]
<1>1. Idle \in SUBSET Nat
  BY Ranks DEF Idle
<1>2. \E w \in Idle : \A v \in Idle : w <= v
  BY <1>1, LeastNat
<1>3. processing_get_idle \in Idle
  BY <1>2 DEF processing_get_idle
<1> QED BY <1>3 DEF Idle

(* The queue scheduler_getwork takes from. *)
GetFrom(queues) == CHOOSE k \in Queues : queues[k] # <<>> /\ \A j \in Queues : j > k => queues[j] = <<>>

(* A queue to take work from exists when one of them is not empty. *)
LEMMA HighestQueue ==
  ASSUME NEW queues, NEW k \in Queues, queues[k] # <<>>
  PROVE  GetFrom(queues) \in Queues /\ queues[GetFrom(queues)] # <<>>
<1>1. Queues = {0} \/ Queues = {0, 1}
  BY DEF Queues
<1>2. \E n \in Queues : queues[n] # <<>> /\ \A j \in Queues : j > n => queues[j] = <<>>
  <2>1. CASE 1 \in Queues /\ queues[1] # <<>>
    BY <1>1, <2>1
  <2>2. CASE ~(1 \in Queues /\ queues[1] # <<>>)
    BY <1>1, <2>2
  <2> QED BY <2>1, <2>2
<1> QED BY <1>2 DEF GetFrom

(***************************************************************************)
(* The conversation: the steps of the manager.                             *)
(***************************************************************************)

LEMMA PhaseKept ==
  ASSUME NEW v, InPhase(v), toMgr'[v] = toMgr[v], toWrk'[v] = toWrk[v], wk'[v] = wk[v],
         active'[v] = active[v], Handing(v)' <=> Handing(v), mgr.pc = "done" => mgr'.pc = "done"
  PROVE  InPhase(v)'
<1>1. Free(v) => Free(v)'
  BY DEF Free
<1>2. Given(v) => Given(v)'
  BY DEF Given
<1>3. \A n : Told(v, n) => Told(v, n)'
  BY DEF Told
<1>4. AtWork(v) => AtWork(v)'
  BY <1>3 DEF AtWork
<1>5. Asking(v) => Asking(v)'
  BY <1>3 DEF Asking
<1>6. Answered(v) => Answered(v)'
  BY DEF Answered
<1>7. Finished(v) => Finished(v)'
  BY <1>3 DEF Finished
<1> QED BY <1>1, <1>2, <1>4, <1>5, <1>6, <1>7 DEF InPhase

(* The state of a worker that waits for a message. *)
LEMMA WaitingState ==
  /\ Waiting \in Local /\ Resting(Waiting)
  /\ Waiting.pc = "wait" /\ Waiting.item = workitem_new(MANAGER_PROC) /\ Waiting.i = 1
  /\ Waiting.dip = FALSE /\ Waiting.ents = <<>> /\ Waiting.out = <<>> /\ Waiting.perf = perfstat_new
  /\ Waiting.pair = NoData /\ Waiting.offer = workitem_new(MANAGER_PROC)
<1>1. perfstat_new \in Perf
  BY DEF perfstat_new, Perf
<1>2. /\ Waiting.pc = "wait" /\ Waiting.item = workitem_new(MANAGER_PROC) /\ Waiting.i = 1
      /\ Waiting.dip = FALSE /\ Waiting.ents = <<>> /\ Waiting.out = <<>> /\ Waiting.perf = perfstat_new
      /\ Waiting.pair = NoData /\ Waiting.offer = workitem_new(MANAGER_PROC)
  BY DEF Waiting
<1>3. Resting(Waiting)
  BY DEF Waiting, Resting
<1>4. Waiting \in Local
  <2>1. <<>> \in Seq(Path) /\ 1 \in Nat \ {0} /\ FALSE \in BOOLEAN /\ NoData \in {NoData} \cup PairData
    OBVIOUS
  <2> QED BY <1>1, <2>1, NewItem DEF Waiting, Local
<1> QED BY <1>2, <1>3, <1>4

(* The conversation at the start: every worker is free. *)
LEMMA TalkInit == Init => TalkInv
<1> SUFFICES ASSUME Init PROVE TalkInv
  OBVIOUS
<1>1. TypeOK
  <2>1. perfstat_new \in Perf
    BY DEF perfstat_new, Perf
  <2>2. mgr \in [pc : ManagerPcs, rank : {MANAGER_PROC} \cup Workers, idx : {0, 1}]
    BY DEF Init, ManagerPcs
  <2>3. workq \in [Queues -> Seq(Work)]
    BY DEF Init
  <2>4. active \in [{MANAGER_PROC} \cup Workers -> BOOLEAN]
    BY DEF Init
  <2>5. /\ chunktab = [f \in DOMAIN chunktab |-> chunktab[f]] /\ DOMAIN chunktab \subseteq DOMAIN Src
        /\ \A f \in DOMAIN chunktab : chunktab[f] \in Nat
    BY DEF Init, fchunktbl_create
  <2>6. toMgr \in [Workers -> Seq(Outbox)]
    BY DEF Init
  <2>7. toWrk \in [Workers -> Seq(Inbox)]
    BY DEF Init
  <2>8. wk \in [Workers -> Local]
    BY WaitingState DEF Init
  <2>9. printed \in [Path -> Seq({"path", "MATCHES", "differs"})] /\ statted \in [Path -> Nat]
    BY DEF Init
  <2> QED BY <2>1, <2>2, <2>3, <2>4, <2>5, <2>6, <2>7, <2>8, <2>9 DEF TypeOK, Init
<1>2. ManagerInv
  BY Ranks DEF ManagerInv, Init
<1>3. ASSUME NEW w \in Workers PROVE InPhase(w)
  BY WaitingState, Ranks DEF InPhase, Free, Init, Handing
<1>4. SendersInv
  BY DEF SendersInv, Init
<1> QED BY <1>1, <1>2, <1>3, <1>4 DEF TalkInv

(* Assigning the head of a queue to an idle worker. *)
LEMMA AssignTalks ==
  ASSUME TalkInv, NEW queues, queues \in [Queues -> Seq(Work)], NEW k \in Queues, queues[k] # <<>>,
         Idle # {}, scheduler_getwork(queues), mgr.pc \in {"init", "poll"},
         mgr' = [mgr EXCEPT !.pc = "probe"],
         UNCHANGED <<o, chunktab, jobstats, toMgr, wk, printed, statted, failed>>
  PROVE  TalkInv'
<1> DEFINE w == processing_get_idle
           q == GetFrom(queues)
           m == [Head(queues[q]) EXCEPT !.originator = MANAGER_PROC]
<1>1. w \in Workers /\ ~active[w]
  BY LowestIdle
<1>2. q \in Queues /\ queues[q] # <<>>
  BY HighestQueue
<1>3. /\ workq' = [queues EXCEPT ![q] = Tail(@)] /\ active' = [active EXCEPT ![w] = TRUE]
      /\ toWrk' = [toWrk EXCEPT ![w] = Append(@, m)]
  BY DEF scheduler_getwork, GetFrom, SendToWorker
<1> HIDE DEF w, q
<1>4. m \in Work
  <2>1. Head(queues[q]) \in Work
    BY <1>2
  <2> QED BY <2>1, SignedKind DEF Messages, Work
<1> HIDE DEF m
<1>5. mgr'.pc = "probe" /\ mgr'.rank = mgr.rank /\ mgr'.idx = mgr.idx
      /\ mgr' \in [pc : ManagerPcs, rank : {MANAGER_PROC} \cup Workers, idx : {0, 1}]
  BY DEF TalkInv, TypeOK, ManagerPcs
<1>6. Queues' = Queues
  BY DEF Queues
<1>7. \A v : ~Handing(v) /\ ~Handing(v)'
  BY <1>5 DEF Handing
<1>8. toWrk[w] = <<>>
  BY <1>1 DEF TalkInv, InPhase, Free, Given, AtWork, Asking, Answered, Finished
<1>9. TypeOK'
  <2>1. workq' \in [Queues -> Seq(Work)]
    <3>1. Tail(queues[q]) \in Seq(Work)
      BY <1>2
    <3> QED BY <1>2, <1>3, <3>1
  <2>2. active' \in [{MANAGER_PROC} \cup Workers -> BOOLEAN]
    BY <1>1, <1>3 DEF TalkInv, TypeOK
  <2>3. toWrk' \in [Workers -> Seq(Inbox)]
    BY <1>1, <1>3, <1>4 DEF TalkInv, TypeOK, Inbox
  <2> QED BY <1>5, <1>6, <2>1, <2>2, <2>3 DEF TalkInv, TypeOK
<1>10. ManagerInv'
  BY <1>1, <1>3, <1>5, Ranks DEF ManagerInv, TalkInv, TypeOK
<1>11. ASSUME NEW v \in Workers PROVE InPhase(v)'
  <2>1. CASE v # w
    BY <1>3, <1>5, <1>7, <2>1, PhaseKept DEF TalkInv, TypeOK
  <2>2. CASE v = w
    <3>1. Free(w)
      BY <1>1 DEF TalkInv, InPhase, Free, Given, AtWork, Asking, Answered, Finished
    <3>2. toWrk'[w] = <<m>> /\ active'[w]
      BY <1>1, <1>3, <1>8 DEF TalkInv, TypeOK
    <3>3. Len(toWrk'[v]) = 1 /\ toWrk'[v][1] \in Work /\ active'[v]
      BY <1>4, <2>2, <3>2
    <3>4. Resting(wk'[v]) /\ toMgr'[v] = <<>>
      BY <2>2, <3>1 DEF Free
    <3>5. Given(v)'
      BY <1>7, <3>3, <3>4 DEF Given
    <3> QED BY <3>5 DEF InPhase
  <2> QED BY <2>1, <2>2
<1>12. SendersInv'
  BY DEF TalkInv, SendersInv
<1> QED BY <1>9, <1>10, <1>11, <1>12 DEF TalkInv

(* startwork gives the first item to a free worker. *)
LEMMA StartTalks == TalkInv /\ startwork => TalkInv'
<1> SUFFICES ASSUME TalkInv, startwork PROVE TalkInv'
  OBVIOUS
<1> DEFINE items == [n \in 1..Len(o.roots) |-> StartItem(o.roots[n])]
           queues == scheduler_addwork(workq, items)
<1>1. mgr.pc = "init" /\ workq[0] = <<>> /\ \A w \in Workers : ~active[w]
  BY QueueNumbers DEF startwork, TalkInv, ManagerInv
<1>2. o.roots \in Seq(Path) /\ o.roots # <<>>
  BY JobAssumption DEF TalkInv, TypeOK
<1>3. items \in Seq(Work) /\ items # <<>>
  <2>1. \A n \in 1..Len(o.roots) : StartItem(o.roots[n]) \in Work
    <3> SUFFICES ASSUME NEW n \in 1..Len(o.roots) PROVE StartItem(o.roots[n]) \in Walk
      BY DEF Work
    <3>1. o.roots[n] \in Path
      BY <1>2
    <3>2. <<o.roots[n]>> \in Seq(Path)
      BY <3>1
    <3> DEFINE m == StartItem(o.roots[n])
    <3>3. /\ m \in Item /\ m.do_work = "treewalk_statpath" /\ m.manager_run = FALSE
          /\ m.workdata = NoData
      BY <3>2 DEF StartItem, workitem_new, Item, ItemFns
    <3> HIDE DEF m
    <3>4. m \in Walk
      BY <3>3 DEF Walk, WalkFns
    <3> QED BY <3>4 DEF m
  <2>2. Len(o.roots) \in Nat /\ Len(o.roots) > 0
    BY <1>2
  <2>3. items \in [1..Len(o.roots) -> Work]
    BY <2>1
  <2>4. items \in Seq(Work) /\ Len(items) = Len(o.roots)
    BY <2>2, <2>3
  <2> HIDE DEF items
  <2> QED BY <2>2, <2>4
<1> HIDE DEF items
<1>4. queues = [workq EXCEPT ![0] = workq[0] \o items]
  BY QueueNumbers DEF scheduler_addwork
<1>5. workq \in [Queues -> Seq(Work)]
  BY DEF TalkInv, TypeOK
<1>6. queues \in [Queues -> Seq(Work)] /\ queues[0] # <<>>
  BY <1>1, <1>3, <1>4, <1>5, QueueNumbers
<1>7. Idle # {}
  BY <1>1, Ranks DEF Idle
<1>8. scheduler_getwork(queues) /\ mgr' = [mgr EXCEPT !.pc = "probe"]
      /\ UNCHANGED <<o, chunktab, jobstats, toMgr, wk, printed, statted, failed>>
  BY DEF startwork, items
<1> HIDE DEF queues
<1>9. 0 \in Queues
  BY QueueNumbers
<1> QED BY <1>1, <1>6, <1>7, <1>8, <1>9, AssignTalks

(* The manager gives queued work to an idle worker, which is free. *)
LEMMA ManagerAssignTalks == TalkInv /\ ManagerAssign => TalkInv'
<1> SUFFICES ASSUME TalkInv, ManagerAssign PROVE TalkInv'
  OBVIOUS
<1>1. PICK k \in Queues : workq[k] # <<>>
  BY DEF ManagerAssign, scheduler_canAssignWork, WorkQueued
<1>2. workq \in [Queues -> Seq(Work)]
  BY DEF TalkInv, TypeOK
<1>3. Idle # {} /\ scheduler_getwork(workq) /\ mgr' = [mgr EXCEPT !.pc = "probe"] /\ mgr.pc = "poll"
      /\ UNCHANGED <<o, chunktab, jobstats, toMgr, wk, printed, statted, failed>>
  BY DEF ManagerAssign, scheduler_canAssignWork
<1> QED BY <1>1, <1>2, <1>3, AssignTalks

(* Looking at a worker changes no conversation, *)
LEMMA ManagerProbeTalks == TalkInv /\ ManagerProbe => TalkInv'
<1> SUFFICES ASSUME TalkInv, ManagerProbe PROVE TalkInv'
  OBVIOUS
<1>1. /\ mgr.pc = "probe" /\ mgr'.pc \in {"receive", "poll"} /\ mgr'.rank = mgr.rank /\ mgr'.idx = mgr.idx
      /\ mgr' \in [pc : ManagerPcs, rank : {MANAGER_PROC} \cup Workers, idx : {0, 1}]
  BY DEF ManagerProbe, TalkInv, TypeOK, ManagerPcs
<1>2. UNCHANGED <<o, workq, active, chunktab, jobstats, toMgr, toWrk, wk, printed, statted, failed>>
  BY DEF ManagerProbe
<1>3. TypeOK'
  BY <1>1, <1>2 DEF TalkInv, TypeOK, Queues
<1>4. ManagerInv'
  BY <1>1, <1>2 DEF TalkInv, ManagerInv
<1>5. \A v \in Workers : InPhase(v)'
  BY <1>1, <1>2, PhaseKept DEF TalkInv, Handing
<1>7. SendersInv'
  BY <1>2 DEF TalkInv, SendersInv
<1> QED BY <1>3, <1>4, <1>5, <1>7 DEF TalkInv

(* nor does choosing what to do next; *)
LEMMA ManagerPollTalks == TalkInv /\ ManagerPoll => TalkInv'
<1> SUFFICES ASSUME TalkInv, ManagerPoll PROVE TalkInv'
  OBVIOUS
<1>1. /\ mgr.pc = "poll" /\ mgr'.pc \in {"probe", "end"} /\ mgr'.rank = mgr.rank /\ mgr'.idx = mgr.idx
      /\ mgr' \in [pc : ManagerPcs, rank : {MANAGER_PROC} \cup Workers, idx : {0, 1}]
      /\ mgr'.pc = "end" => scheduler_workDone
  BY DEF ManagerPoll, TalkInv, TypeOK, ManagerPcs
<1>2. UNCHANGED <<o, workq, active, chunktab, jobstats, toMgr, toWrk, wk, printed, statted, failed>>
  BY DEF ManagerPoll
<1>3. TypeOK'
  BY <1>1, <1>2 DEF TalkInv, TypeOK, Queues
<1>4. scheduler_workDone => (\A w \in Workers : ~active[w]) /\ (\A q \in Queues : workq[q] = <<>>)
  BY Ranks DEF scheduler_workDone, processing_complete, WorkQueued, TalkInv, TypeOK, ManagerInv
<1>5. ManagerInv'
  BY <1>1, <1>2, <1>4 DEF TalkInv, ManagerInv, Queues
<1>6. \A v \in Workers : InPhase(v)'
  BY <1>1, <1>2, PhaseKept DEF TalkInv, Handing
<1>7. SendersInv'
  BY <1>2 DEF TalkInv, SendersInv
<1> QED BY <1>3, <1>5, <1>6, <1>7 DEF TalkInv

(* manager_fini tells free workers to exit. *)
LEMMA ManagerFiniTalks == TalkInv /\ manager_fini => TalkInv'
<1> SUFFICES ASSUME TalkInv, manager_fini PROVE TalkInv'
  OBVIOUS
<1>1. /\ mgr.pc = "end" /\ mgr'.pc = "done" /\ mgr'.rank = mgr.rank /\ mgr'.idx = mgr.idx
      /\ mgr' \in [pc : ManagerPcs, rank : {MANAGER_PROC} \cup Workers, idx : {0, 1}]
  BY DEF manager_fini, TalkInv, TypeOK, ManagerPcs
<1>2. /\ UNCHANGED <<o, workq, active, chunktab, jobstats, toMgr, wk, printed, statted, failed>>
      /\ toWrk' = [w \in Workers |-> Append(toWrk[w], Exit)]
  BY DEF manager_fini, Exit
<1>3. TypeOK'
  <2>1. toWrk' \in [Workers -> Seq(Inbox)]
    BY <1>2 DEF TalkInv, TypeOK, Inbox
  <2> QED BY <1>1, <1>2, <2>1 DEF TalkInv, TypeOK, Queues
<1>4. ManagerInv'
  BY <1>1, <1>2 DEF TalkInv, ManagerInv, Queues
<1>5. ASSUME NEW v \in Workers PROVE InPhase(v)'
  <2>1. Free(v) /\ toWrk[v] = <<>>
    BY <1>1 DEF TalkInv, ManagerInv, InPhase, Free, Given, AtWork, Asking, Answered, Finished
  <2>2. toWrk'[v] = <<Exit>>
    <3>1. toWrk'[v] = Append(toWrk[v], Exit)
      BY <1>2
    <3> QED BY <2>1, <3>1
  <2>3. Free(v)'
    BY <1>1, <1>2, <2>1, <2>2 DEF Free, Handing
  <2> QED BY <2>3 DEF InPhase
<1>7. SendersInv'
  BY <1>2 DEF TalkInv, SendersInv
<1> QED BY <1>3, <1>4, <1>5, <1>7 DEF TalkInv

(* The sums of two performance records. *)
LEMMA PerfAdd ==
  ASSUME NEW a \in Perf, NEW b \in Perf
  PROVE  /\ perfstat_add(a, b) \in Perf
         /\ perfstat_add(a, b).dirs = a.dirs + b.dirs
         /\ perfstat_add(a, b).compares = a.compares + b.compares
BY DEF perfstat_add, Perf

(* What is in the way of a worker that has sent something. *)
LEMMA Sending ==
  ASSUME TalkInv, NEW w \in Workers, toMgr[w] # <<>>
  PROVE  /\ toMgr[w] \in Seq(Messages) /\ Len(toMgr[w]) \in Nat /\ Len(toMgr[w]) > 0
         /\ Head(toMgr[w]) = toMgr[w][1] /\ Head(toMgr[w]) \in Messages /\ Head(toMgr[w]).originator = w
         /\ active[w] /\ toWrk[w] = <<>>
         /\ AtWork(w) \/ Asking(w) \/ Finished(w)
<1>1. toMgr[w] \in Seq(Outbox)
  BY DEF TalkInv, TypeOK
<1>2. toMgr[w] \in Seq(Messages)
  <2>1. Outbox \subseteq Messages
    BY DEF Messages, Outbox
  <2> QED BY <1>1, <2>1
<1>3. /\ Len(toMgr[w]) \in Nat /\ Len(toMgr[w]) > 0 /\ Head(toMgr[w]) = toMgr[w][1]
      /\ 1 \in 1..Len(toMgr[w])
  BY <1>2
<1>4. Head(toMgr[w]) \in Messages /\ Head(toMgr[w]).originator = w
  BY <1>2, <1>3 DEF TalkInv, SendersInv
<1>5. AtWork(w) \/ Asking(w) \/ Finished(w)
  BY DEF TalkInv, InPhase, Free, Given, Answered
<1>6. active[w] /\ toWrk[w] = <<>>
  BY <1>5 DEF AtWork, Asking, Finished
<1> QED BY <1>2, <1>3, <1>4, <1>5, <1>6

(* No message is of two kinds. *)
LEMMA Disjoint ==
  /\ \A m \in Done : m \notin Announce /\ m \notin Ask /\ m \notin Work /\ m \in Item
  /\ \A m \in Announce : m \notin Ask /\ m \notin Work
  /\ \A m \in Ask : m \notin Work
  /\ Exit \notin Work \cup Ask
BY Kinds, ExitItem, MessagesItems DEF Done, Work, WalkFns, Messages

(* A list of length zero is empty. *)
LEMMA EmptySeq ==
  ASSUME NEW S, NEW s \in Seq(S), Len(s) = 0
  PROVE  s = <<>>
OBVIOUS

(* The first message of a worker the manager does not wait for. *)
LEMMA FirstMessage ==
  ASSUME TalkInv, NEW w \in Workers, toMgr[w] # <<>>, ~Handing(w), NEW m, m = toMgr[w][1]
  PROVE  \/ m \in Announce
         \/ m \in Ask /\ Asking(w) /\ Len(toMgr[w]) = 1
         \/ m \in Done /\ Finished(w) /\ Len(toMgr[w]) = 1
<1> DEFINE n == Len(toMgr[w])
<1>1. n \in Nat /\ n > 0
  BY Sending
<1>2. AtWork(w) \/ Asking(w) \/ Finished(w)
  BY Sending
<1>3. \A k \in Nat : k > 0 /\ Told(w, k) => m \in Announce
  BY DEF Told
<1>4. AtWork(w) => Told(w, n)
  BY DEF AtWork
<1>5. Asking(w) => Told(w, n - 1) /\ toMgr[w][n] \in Ask
  BY DEF Asking
<1>6. Finished(w) => Told(w, n - 1) /\ toMgr[w][n] \in Done
  BY DEF Finished
<1> HIDE DEF n
<1>7. CASE n = 1
  BY <1>1, <1>2, <1>3, <1>4, <1>5, <1>6, <1>7 DEF n
<1>8. CASE n > 1
  BY <1>1, <1>2, <1>3, <1>4, <1>5, <1>6, <1>8
<1> QED BY <1>1, <1>7, <1>8

(* The step of a worker or of the manager that takes the first message of  *)
(* worker w, which was no handover.                                        *)
LEMMA OneFewer ==
  ASSUME TalkInv, NEW w \in Workers, toMgr[w] # <<>>, ~Handing(w),
         toMgr' = [toMgr EXCEPT ![w] = Tail(@)]
  PROVE  /\ toMgr'[w] = Tail(toMgr[w]) /\ \A v \in Workers : v # w => toMgr'[v] = toMgr[v]
         /\ toMgr' \in [Workers -> Seq(Outbox)]
         /\ SendersInv'
         /\ Len(Tail(toMgr[w])) = Len(toMgr[w]) - 1 /\ (Len(toMgr[w]) = 1 => toMgr'[w] = <<>>)
         /\ \A i \in 1..Len(toMgr[w]) - 1 : Tail(toMgr[w])[i] = toMgr[w][i + 1]
<1>1. toMgr \in [Workers -> Seq(Outbox)]
  BY DEF TalkInv, TypeOK
<1>2. /\ Tail(toMgr[w]) \in Seq(Outbox)
      /\ Len(Tail(toMgr[w])) = Len(toMgr[w]) - 1
      /\ \A i \in 1..Len(toMgr[w]) - 1 : Tail(toMgr[w])[i] = toMgr[w][i + 1]
  BY <1>1
<1>3. /\ toMgr'[w] = Tail(toMgr[w]) /\ \A v \in Workers : v # w => toMgr'[v] = toMgr[v]
      /\ toMgr' \in [Workers -> Seq(Outbox)]
  BY <1>1, <1>2
<1>4. ASSUME NEW v \in Workers, NEW n \in 1..Len(toMgr'[v]) PROVE toMgr'[v][n].originator = v
  <2>1. CASE v # w
    BY <1>3, <1>4, <2>1 DEF TalkInv, SendersInv
  <2>2. CASE v = w
    <3>1. Len(toMgr[w]) \in Nat /\ n \in 1..Len(toMgr[w]) - 1 /\ n + 1 \in 1..Len(toMgr[w])
      BY <1>1, <1>2, <1>3, <1>4, <2>2
    <3> QED BY <1>2, <1>3, <2>2, <3>1 DEF TalkInv, SendersInv
  <2> QED BY <2>1, <2>2
<1>5. Len(toMgr[w]) = 1 => Tail(toMgr[w]) = <<>>
  <2> SUFFICES ASSUME Len(toMgr[w]) = 1 PROVE Tail(toMgr[w]) = <<>>
    OBVIOUS
  <2> DEFINE r == Tail(toMgr[w])
  <2>1. r \in Seq(Outbox) /\ Len(r) = 0
    BY <1>2
  <2> HIDE DEF r
  <2>2. r = <<>>
    BY <2>1, EmptySeq
  <2> QED BY <2>2 DEF r
<1> QED BY <1>2, <1>3, <1>4, <1>5 DEF SendersInv

(* The manager runs an announcement, which leaves the worker where it *)
(* was, or the report of a finished item, which frees it.             *)
LEMMA ManagerRunTalks ==
  ASSUME TalkInv, NEW w \in Workers, ManagerRun(w)
  PROVE  TalkInv'
<1> DEFINE m == Head(toMgr[w])
<1>1. /\ mgr.pc = "receive" /\ toMgr[w] # <<>> /\ m.manager_run
      /\ toMgr' = [toMgr EXCEPT ![w] = Tail(@)] /\ mgr' = [mgr EXCEPT !.pc = "probe"]
      /\ UNCHANGED <<o, workq, toWrk, wk, statted>>
  BY DEF ManagerRun
<1>2. \/ m.do_work = "manager_workdone" /\ manager_workdone(m)
      \/ m.do_work = "cmp_workdone" /\ cmp_workdone(m)
      \/ m.do_work = "cmp_addchunkfile" /\ cmp_addchunkfile(m)
  BY DEF ManagerRun
<1>3. /\ m \in Messages /\ m.originator = w /\ active[w] /\ m = toMgr[w][1] /\ toWrk[w] = <<>>
      /\ AtWork(w) \/ Asking(w) \/ Finished(w)
  BY <1>1, Sending
<1> HIDE DEF m
<1>4. /\ mgr'.pc = "probe" /\ mgr'.rank = mgr.rank /\ mgr'.idx = mgr.idx
      /\ mgr' \in [pc : ManagerPcs, rank : {MANAGER_PROC} \cup Workers, idx : {0, 1}]
  BY <1>1 DEF TalkInv, TypeOK, ManagerPcs
<1>5. \A v : ~Handing(v) /\ ~Handing(v)'
  BY <1>1, <1>4 DEF Handing
<1>6. /\ toMgr'[w] = Tail(toMgr[w]) /\ \A v \in Workers : v # w => toMgr'[v] = toMgr[v]
      /\ toMgr' \in [Workers -> Seq(Outbox)]
      /\ SendersInv'
      /\ Len(Tail(toMgr[w])) = Len(toMgr[w]) - 1 /\ (Len(toMgr[w]) = 1 => toMgr'[w] = <<>>)
      /\ \A i \in 1..Len(toMgr[w]) - 1 : Tail(toMgr[w])[i] = toMgr[w][i + 1]
  BY <1>1, <1>5, OneFewer
<1>7. Len(toMgr[w]) \in Nat /\ Len(toMgr[w]) > 0
  BY <1>1, Sending
<1>8. jobstats \in Perf /\ active \in [{MANAGER_PROC} \cup Workers -> BOOLEAN]
      /\ printed \in [Path -> Seq({"path", "MATCHES", "differs"})]
      /\ chunktab = [f \in DOMAIN chunktab |-> chunktab[f]] /\ DOMAIN chunktab \subseteq DOMAIN Src
      /\ \A f \in DOMAIN chunktab : chunktab[f] \in Nat
  BY DEF TalkInv, TypeOK
<1>9. CASE m.do_work \in {"manager_workdone", "cmp_workdone"}
  <2>1. m \in Done /\ m.workdata.perf \in Perf
    BY <1>3, <1>9, Kinds, DataTypes, ExitItem DEF Messages, Work, Done, WalkFns
  <2>2. /\ active' = [active EXCEPT ![w] = FALSE]
        /\ jobstats' = perfstat_add(jobstats, m.workdata.perf)
    BY <1>2, <1>3, <1>9 DEF manager_workdone, cmp_workdone
  <2>3. jobstats' \in Perf /\ active' \in [{MANAGER_PROC} \cup Workers -> BOOLEAN]
    BY <1>8, <2>1, <2>2, PerfAdd
  <2>4. /\ printed' \in [Path -> Seq({"path", "MATCHES", "differs"})]
        /\ chunktab' = [f \in DOMAIN chunktab' |-> chunktab'[f]] /\ DOMAIN chunktab' \subseteq DOMAIN Src
        /\ \A f \in DOMAIN chunktab' : chunktab'[f] \in Nat
    <3>1. CASE m.do_work = "manager_workdone"
      BY <1>2, <1>8, <3>1 DEF manager_workdone
    <3>2. CASE m.do_work = "cmp_workdone"
      <4> DEFINE pair == m.workdata.files
                 after == ChunksAfter(pair)
      <4>1. cmp_workdone(m)
        BY <1>2, <3>2
      <4>2. pair \in PairData /\ pair.src \in DOMAIN Src /\ pair.src \in Path
        BY <1>3, <3>2, Kinds, DataTypes, ExitItem, PwtAssumption DEF Messages, Work, Done, WalkFns
      <4>3. /\ printed' = [printed EXCEPT ![pair.src] = @ \o Verdict(pair)]
            /\ chunktab' = IF after = 0 THEN fchunktbl_remove(chunktab, pair.src)
                           ELSE fchunktbl_update(chunktab, pair.src, after)
        BY <4>1 DEF cmp_workdone
      <4>4. Verdict(pair) \in Seq({"path", "MATCHES", "differs"})
        <5>1. Verdict(pair) \in {<<>>, <<"differs">>, <<"MATCHES">>}
          BY DEF Verdict
        <5>2. \A S : \A x \in S : <<>> \in Seq(S) /\ <<x>> \in Seq(S)
          OBVIOUS
        <5>3. "differs" \in {"path", "MATCHES", "differs"} /\ "MATCHES" \in {"path", "MATCHES", "differs"}
          OBVIOUS
        <5> QED BY <5>1, <5>2, <5>3
      <4>5. pair.src \in DOMAIN chunktab => after \in Nat
        BY <1>8 DEF ChunksAfter, fchunktbl_get
      <4> HIDE DEF pair, after
      <4>6. printed' \in [Path -> Seq({"path", "MATCHES", "differs"})]
        <5>1. printed[pair.src] \o Verdict(pair) \in Seq({"path", "MATCHES", "differs"})
          BY <1>8, <4>2, <4>4
        <5> QED BY <1>8, <4>3, <5>1
      <4>7. /\ chunktab' = [f \in DOMAIN chunktab' |-> chunktab'[f]] /\ DOMAIN chunktab' \subseteq DOMAIN Src
            /\ \A f \in DOMAIN chunktab' : chunktab'[f] \in Nat
        <5>1. CASE after = 0
          BY <1>8, <4>3, <5>1 DEF fchunktbl_remove, Restrict
        <5>2. CASE after # 0
          BY <1>8, <4>3, <4>5, <5>2 DEF fchunktbl_update
        <5> QED BY <5>1, <5>2
      <4> QED BY <4>6, <4>7
    <3> QED BY <1>9, <3>1, <3>2
  <2>5. TypeOK'
    BY <1>1, <1>4, <1>6, <2>3, <2>4 DEF TalkInv, TypeOK, Queues
  <2>6. ManagerInv'
    BY <1>1, <1>4, <1>8, <2>2, Ranks DEF TalkInv, ManagerInv
  <2>7. Finished(w) /\ Len(toMgr[w]) = 1
    BY <1>1, <1>3, <1>5, <2>1, FirstMessage, Disjoint
  <2>8. toMgr'[w] = <<>> /\ ~active'[w]
    BY <1>6, <1>8, <2>2, <2>7
  <2>9. ASSUME NEW v \in Workers PROVE InPhase(v)'
    <3>1. CASE v # w
      BY <1>1, <1>4, <1>5, <1>6, <1>8, <2>2, <3>1, PhaseKept DEF TalkInv
    <3>2. CASE v = w
      <4>1. Resting(wk'[v]) /\ toWrk'[v] = <<>>
        BY <1>1, <1>3, <2>7, <3>2 DEF Finished
      <4>2. Free(v)'
        BY <1>5, <2>8, <3>2, <4>1 DEF Free
      <4> QED BY <4>2 DEF InPhase
    <3> QED BY <3>1, <3>2
  <2> QED BY <1>6, <2>5, <2>6, <2>9 DEF TalkInv
<1>10. CASE m.do_work = "cmp_addchunkfile"
  <2>1. m \in Announce
    BY <1>3, <1>10, Kinds, ExitItem DEF Messages, Work, Done, WalkFns
  <2>2. UNCHANGED <<active, jobstats, printed>>
    BY <1>2, <1>10 DEF cmp_addchunkfile
  <2>3. m.workdata.src \in DOMAIN Src
    BY <2>1, Kinds, DataTypes
  <2>4. m.workdata.chunknum \in Nat
    BY <2>1, Ranks DEF Announce
  <2>5. \/ chunktab' = fchunktbl_insert(chunktab, m.workdata.src, m.workdata.chunknum)
        \/ chunktab' = chunktab
    BY <1>2, <1>10 DEF cmp_addchunkfile
  <2>6. /\ chunktab' = [f \in DOMAIN chunktab' |-> chunktab'[f]] /\ DOMAIN chunktab' \subseteq DOMAIN Src
        /\ \A f \in DOMAIN chunktab' : chunktab'[f] \in Nat
    BY <1>8, <2>3, <2>4, <2>5 DEF fchunktbl_insert
  <2>7. TypeOK'
    BY <1>1, <1>4, <1>6, <1>8, <2>2, <2>6 DEF TalkInv, TypeOK, Queues
  <2>8. ManagerInv'
    BY <1>1, <1>4, <2>2 DEF TalkInv, ManagerInv
  <2>9. ASSUME NEW v \in Workers PROVE InPhase(v)'
    <3>1. CASE v # w
      BY <1>1, <1>4, <1>5, <1>6, <2>2, <3>1, PhaseKept DEF TalkInv
    <3>2. CASE v = w
      <4> DEFINE n == Len(toMgr[v])
      <4>1. toMgr'[v] = Tail(toMgr[v]) /\ Len(toMgr'[v]) = n - 1
            /\ \A i \in 1..n - 1 : toMgr'[v][i] = toMgr[v][i + 1]
        BY <1>6, <3>2
      <4>2. n \in Nat /\ n > 0 /\ toMgr[v][1] \in Announce
        BY <1>3, <1>7, <2>1, <3>2
      <4>3. wk'[v] = wk[v] /\ toWrk'[v] = toWrk[v] /\ active'[v] = active[v]
        BY <1>1, <2>2
      <4>4. \A k \in 1..n : Told(v, k) => Told(v, k - 1)'
        BY <1>5, <4>1, <4>2 DEF Told
      <4>5. AtWork(v) => AtWork(v)'
        BY <4>1, <4>2, <4>3, <4>4 DEF AtWork
      <4>6. toMgr[v][n] \in Ask \cup Done => n > 1
        BY <4>2, Disjoint
      <4>7. n > 1 => toMgr'[v][n - 1] = toMgr[v][n] /\ n - 1 \in 1..n
        BY <4>1, <4>2
      <4>8. Asking(v) => Asking(v)'
        <5> SUFFICES ASSUME Asking(v) PROVE Asking(v)'
          OBVIOUS
        <5>2. n > 1 /\ Told(v, n - 1)
          BY <4>6 DEF Asking
        <5>3. \A i \in 1..n - 1 - 1 : toMgr'[v][i] \in Announce
          <6>1. \A i \in 1..n - 1 - 1 : i + 1 \in 1..n - 1 /\ toMgr'[v][i] = toMgr[v][i + 1] /\ i + 1 # 1
            BY <4>1, <4>2
          <6> QED BY <5>2, <6>1 DEF Told
        <5> HIDE DEF n
        <5>4. Len(toMgr'[v]) > 0 /\ toMgr'[v][Len(toMgr'[v])] \in Ask
          BY <4>1, <4>2, <4>7, <5>2 DEF Asking, n
        <5> QED BY <1>5, <4>1, <4>2, <4>3, <5>3, <5>4 DEF Asking, Told
      <4>9. Finished(v) => Finished(v)'
        <5> SUFFICES ASSUME Finished(v) PROVE Finished(v)'
          OBVIOUS
        <5>2. n > 1 /\ Told(v, n - 1)
          BY <4>6 DEF Finished
        <5>3. \A i \in 1..n - 1 - 1 : toMgr'[v][i] \in Announce
          <6>1. \A i \in 1..n - 1 - 1 : i + 1 \in 1..n - 1 /\ toMgr'[v][i] = toMgr[v][i + 1] /\ i + 1 # 1
            BY <4>1, <4>2
          <6> QED BY <5>2, <6>1 DEF Told
        <5> HIDE DEF n
        <5>4. Len(toMgr'[v]) > 0 /\ toMgr'[v][Len(toMgr'[v])] \in Done
          BY <4>1, <4>2, <4>7, <5>2 DEF Finished, n
        <5> QED BY <1>5, <4>1, <4>2, <4>3, <5>3, <5>4 DEF Finished, Told
      <4> QED BY <1>3, <3>2, <4>5, <4>8, <4>9 DEF InPhase
    <3> QED BY <3>1, <3>2
  <2> QED BY <1>6, <2>7, <2>8, <2>9 DEF TalkInv
<1> QED BY <1>2, <1>9, <1>10

(* The manager answers a worker that asks. *)
LEMMA AckworkTalks ==
  ASSUME TalkInv, NEW w \in Workers, scheduler_ackwork(w)
  PROVE  TalkInv'
<1> DEFINE m == Head(toMgr[w])
           idx == HighestIdx(m.qidx)
           full == workq_full(workq[idx], o.max)
           answer == IF full THEN workreq_deny(m.workdata) ELSE WorkRequest(0)
           sent == [m EXCEPT !.workdata = answer]
           a == [sent EXCEPT !.originator = MANAGER_PROC]
<1>1. /\ mgr.pc = "receive" /\ toMgr[w] # <<>> /\ ~m.manager_run
      /\ toWrk' = [toWrk EXCEPT ![m.originator] = Append(@, a)]
      /\ toMgr' = [toMgr EXCEPT ![w] = Tail(@)]
      /\ mgr' = IF full THEN [mgr EXCEPT !.pc = "probe"]
                        ELSE [pc |-> "getwork", rank |-> m.originator, idx |-> idx]
      /\ UNCHANGED <<o, workq, active, chunktab, jobstats, wk, printed, statted, failed>>
  BY DEF scheduler_ackwork, SendToWorker
<1>2. /\ m \in Messages /\ m.originator = w /\ active[w] /\ m = toMgr[w][1] /\ toWrk[w] = <<>>
      /\ AtWork(w) \/ Asking(w) \/ Finished(w)
  BY <1>1, Sending
<1>3. Len(toMgr[w]) \in Nat /\ Len(toMgr[w]) > 0
  BY <1>1, Sending
<1>4. ~Handing(w)
  BY <1>1 DEF Handing
<1>5. m \in Ask /\ Asking(w) /\ Len(toMgr[w]) = 1
  <2>1. m \notin Announce /\ m \notin Done
    BY <1>1, Kinds DEF Done
  <2> QED BY <1>1, <1>2, <1>4, <2>1, FirstMessage
<1>6. m.workdata \in RequestData /\ m.workdata.sleep_seconds \in Nat /\ m.qidx \in {0, 1} /\ idx \in Queues
  <2>1. m.workdata \in RequestData /\ m.qidx \in {0, 1}
    BY <1>5, Kinds DEF Ask, Item
  <2> QED BY <2>1, DataTypes, QueueNumbers
<1>7. answer \in RequestData /\ (answer.sleep_seconds = 0 <=> ~full)
  BY <1>6, PwtAssumption DEF workreq_deny, WorkRequest, RequestData
<1> HIDE DEF answer, full, idx
<1>8. a \in Ask /\ a.workdata = answer
  <2>1. m \in Item /\ m.do_work = "none" /\ m.manager_run = FALSE /\ m.path = <<>>
    BY <1>5 DEF Ask, Item
  <2> HIDE DEF m
  <2>2. sent \in Item /\ sent.do_work = "none" /\ sent.manager_run = FALSE /\ sent.path = <<>>
        /\ sent.workdata = answer
    BY <1>7, <2>1 DEF Item
  <2> HIDE DEF sent
  <2>3. a \in Item /\ a.do_work = "none" /\ a.manager_run = FALSE /\ a.path = <<>>
        /\ a.workdata = answer
    BY <2>2 DEF Item
  <2> HIDE DEF a
  <2> QED BY <1>7, <2>3 DEF Ask
<1> HIDE DEF a, sent, m
<1>9. mgr' \in [pc : ManagerPcs, rank : {MANAGER_PROC} \cup Workers, idx : {0, 1}]
      /\ mgr'.pc \in {"probe", "getwork"} /\ (full <=> mgr'.pc = "probe")
      /\ (mgr'.pc = "getwork" => mgr'.rank = w /\ mgr'.idx = idx)
  BY <1>1, <1>2, <1>6, QueueNumbers DEF TalkInv, TypeOK, ManagerPcs
<1>10. /\ toMgr'[w] = Tail(toMgr[w]) /\ \A v \in Workers : v # w => toMgr'[v] = toMgr[v]
       /\ toMgr' \in [Workers -> Seq(Outbox)]
       /\ SendersInv'
       /\ (Len(toMgr[w]) = 1 => toMgr'[w] = <<>>)
  BY <1>1, <1>4, OneFewer
<1>11. toMgr'[w] = <<>>
  BY <1>5, <1>10
<1>12. /\ toWrk' \in [Workers -> Seq(Inbox)] /\ toWrk'[w] = <<a>>
       /\ \A v \in Workers : v # w => toWrk'[v] = toWrk[v]
  <2>1. toWrk \in [Workers -> Seq(Inbox)]
    BY DEF TalkInv, TypeOK
  <2>2. Append(toWrk[w], a) = <<a>> /\ <<a>> \in Seq(Inbox)
    BY <1>2, <1>8 DEF Inbox
  <2> QED BY <1>1, <1>2, <2>1, <2>2
<1>13. TypeOK'
  BY <1>1, <1>9, <1>10, <1>12 DEF TalkInv, TypeOK, Queues
<1>14. ManagerInv'
  BY <1>1, <1>6, <1>9 DEF TalkInv, ManagerInv, Queues
<1>15. ASSUME NEW v \in Workers PROVE InPhase(v)'
  <2>1. CASE v # w
    <3>1. ~Handing(v) /\ ~Handing(v)'
      BY <1>1, <1>9, <2>1 DEF Handing
    <3> QED BY <1>1, <1>9, <1>10, <1>12, <2>1, <3>1, PhaseKept DEF TalkInv
  <2>2. CASE v = w
    <3>1. Handing(v)' <=> ~full
      BY <1>9, <2>2 DEF Handing
    <3>5. toWrk'[v] = <<a>>
      BY <1>12, <2>2
    <3>2. toWrk'[v][1] = a /\ Len(toWrk'[v]) = 1
      BY <3>5
    <3>3. active'[v] /\ wk'[v].pc = "ack" /\ Busy(wk'[v]) /\ toMgr'[v] = <<>>
      BY <1>1, <1>5, <1>11, <2>2 DEF Asking
    <3>4. Answered(v)'
      BY <1>7, <1>8, <3>1, <3>2, <3>3 DEF Answered
    <3> QED BY <3>4 DEF InPhase
  <2> QED BY <2>1, <2>2
<1> QED BY <1>10, <1>13, <1>14, <1>15 DEF TalkInv

(* The manager queues the item that an accepted worker hands over. *)
LEMMA AckedWorkTalks == TalkInv /\ AckedWork => TalkInv'
<1> SUFFICES ASSUME TalkInv, AckedWork PROVE TalkInv'
  OBVIOUS
<1> DEFINE w == mgr.rank
           m == Head(toMgr[w])
<1>1. /\ mgr.pc = "getwork" /\ toMgr[w] # <<>>
      /\ workq' = [workq EXCEPT ![mgr.idx] = Append(@, m)]
      /\ toMgr' = [toMgr EXCEPT ![w] = Tail(@)]
      /\ mgr' = [pc |-> "probe", rank |-> MANAGER_PROC, idx |-> 0]
      /\ UNCHANGED <<o, active, chunktab, jobstats, toWrk, wk, printed, statted, failed>>
  BY DEF AckedWork
<1>2. w \in Workers /\ mgr.idx \in Queues /\ Handing(w)
  BY <1>1 DEF TalkInv, ManagerInv, Handing
<1>3. /\ m \in Messages /\ m.originator = w /\ active[w] /\ m = toMgr[w][1] /\ toWrk[w] = <<>>
      /\ AtWork(w) \/ Asking(w) \/ Finished(w)
  BY <1>1, <1>2, Sending
<1>4. Len(toMgr[w]) \in Nat /\ Len(toMgr[w]) > 0
  BY <1>1, <1>2, Sending
<1> DEFINE n == Len(toMgr[w])
<1>5. m \in Work
  BY <1>2, <1>3 DEF AtWork, Asking, Finished, Told
<1>6. /\ mgr'.pc = "probe" /\ mgr' \in [pc : ManagerPcs, rank : {MANAGER_PROC} \cup Workers, idx : {0, 1}]
  BY <1>1 DEF ManagerPcs
<1>7. toMgr \in [Workers -> Seq(Outbox)]
  BY DEF TalkInv, TypeOK
<1>8. /\ Tail(toMgr[w]) \in Seq(Outbox)
      /\ Len(Tail(toMgr[w])) = n - 1 /\ \A i \in 1..n - 1 : Tail(toMgr[w])[i] = toMgr[w][i + 1]
  BY <1>1, <1>2, <1>7
<1>9. /\ toMgr' \in [Workers -> Seq(Outbox)]
      /\ toMgr'[w] = Tail(toMgr[w]) /\ \A v \in Workers : v # w => toMgr'[v] = toMgr[v]
  BY <1>1, <1>2, <1>7, <1>8
<1> HIDE DEF w, m, n
<1>10. SendersInv'
  <2> SUFFICES ASSUME NEW v \in Workers, NEW i \in 1..Len(toMgr'[v]) PROVE toMgr'[v][i].originator = v
    BY DEF SendersInv
  <2>1. CASE v # w
    BY <1>9, <2>1 DEF TalkInv, SendersInv
  <2>2. CASE v = w
    <3>1. Len(toMgr'[v]) = n - 1 /\ \A k \in 1..n - 1 : toMgr'[v][k] = toMgr[v][k + 1]
      BY <1>8, <1>9, <2>2
    <3>2. n \in Nat /\ n = Len(toMgr[v])
      BY <1>4, <2>2 DEF n
    <3>3. i + 1 \in 1..Len(toMgr[v]) /\ toMgr'[v][i] = toMgr[v][i + 1]
      BY <3>1, <3>2
    <3> QED BY <3>3 DEF TalkInv, SendersInv
  <2> QED BY <2>1, <2>2
<1>11. TypeOK'
  <2>1. workq \in [Queues -> Seq(Work)]
    BY DEF TalkInv, TypeOK
  <2>2. workq' \in [Queues -> Seq(Work)]
    BY <1>1, <1>2, <1>5, <2>1
  <2> QED BY <1>1, <1>6, <1>9, <2>2 DEF TalkInv, TypeOK, Queues
<1>12. ManagerInv'
  BY <1>1, <1>6 DEF TalkInv, ManagerInv
<1>13. ASSUME NEW v \in Workers PROVE InPhase(v)'
  <2>0. ~Handing(v)'
    BY <1>6 DEF Handing
  <2>1. CASE v # w
    <3>1. ~Handing(v)
      BY <2>1 DEF Handing, w
    <3> QED BY <1>1, <1>6, <1>9, <2>0, <2>1, <3>1, PhaseKept DEF TalkInv
  <2>2. CASE v = w
    <3>1. Len(toMgr'[v]) = n - 1 /\ \A i \in 1..n - 1 : toMgr'[v][i] = toMgr[v][i + 1]
      BY <1>8, <1>9, <2>2
    <3>2. n \in Nat /\ n > 0 /\ n = Len(toMgr[v]) /\ toMgr[v][1] \in Work
      BY <1>3, <1>4, <1>5, <2>2 DEF n
    <3>3. wk'[v] = wk[v] /\ toWrk'[v] = toWrk[v] /\ active'[v] = active[v]
      BY <1>1
    <3>4. \A k \in 1..n : Told(v, k) => Told(v, k - 1)'
      <4> SUFFICES ASSUME NEW k \in 1..n, Told(v, k) PROVE Told(v, k - 1)'
        OBVIOUS
      <4>1. \A i \in 1..k - 1 : toMgr'[v][i] = toMgr[v][i + 1] /\ i + 1 \in 1..k /\ i + 1 # 1
        BY <3>1, <3>2
      <4>2. \A i \in 1..k - 1 : toMgr'[v][i] \in Announce
        BY <4>1 DEF Told
      <4> QED BY <2>0, <4>2 DEF Told
    <3>5. AtWork(v) => AtWork(v)'
      BY <3>1, <3>2, <3>3, <3>4 DEF AtWork
    <3>6. toMgr[v][n] \in Ask \cup Done => n > 1
      BY <3>2, Disjoint
    <3>7. n > 1 => toMgr'[v][n - 1] = toMgr[v][n] /\ n - 1 \in 1..n
      BY <3>1, <3>2
    <3>8. Asking(v) => Asking(v)'
      <4> SUFFICES ASSUME Asking(v) PROVE Asking(v)'
        OBVIOUS
      <4>2. n > 1 /\ Told(v, n - 1)
        BY <3>2, <3>6 DEF Asking
      <4>3. \A i \in 1..n - 1 - 1 : toMgr'[v][i] \in Announce
        <5>1. \A i \in 1..n - 1 - 1 : i + 1 \in 1..n - 1 /\ toMgr'[v][i] = toMgr[v][i + 1] /\ i + 1 # 1
          BY <3>1, <3>2
        <5> QED BY <4>2, <5>1 DEF Told
      <4>4. Len(toMgr'[v]) > 0 /\ toMgr'[v][Len(toMgr'[v])] \in Ask
        BY <3>1, <3>2, <3>7, <4>2 DEF Asking
      <4> QED BY <2>0, <3>1, <3>3, <4>3, <4>4 DEF Asking, Told
    <3>9. Finished(v) => Finished(v)'
      <4> SUFFICES ASSUME Finished(v) PROVE Finished(v)'
        OBVIOUS
      <4>2. n > 1 /\ Told(v, n - 1)
        BY <3>2, <3>6 DEF Finished
      <4>3. \A i \in 1..n - 1 - 1 : toMgr'[v][i] \in Announce
        <5>1. \A i \in 1..n - 1 - 1 : i + 1 \in 1..n - 1 /\ toMgr'[v][i] = toMgr[v][i + 1] /\ i + 1 # 1
          BY <3>1, <3>2
        <5> QED BY <4>2, <5>1 DEF Told
      <4>4. Len(toMgr'[v]) > 0 /\ toMgr'[v][Len(toMgr'[v])] \in Done
        BY <3>1, <3>2, <3>7, <4>2 DEF Finished
      <4> QED BY <2>0, <3>1, <3>3, <4>3, <4>4 DEF Finished, Told
    <3> QED BY <1>3, <2>2, <3>5, <3>8, <3>9 DEF InPhase
  <2> QED BY <2>1, <2>2
<1> QED BY <1>10, <1>11, <1>12, <1>13 DEF TalkInv

(***************************************************************************)
(* The conversation: the steps of a worker.                                *)
(***************************************************************************)

OutputTypes ==
  printed \in [Path -> Seq({"path", "MATCHES", "differs"})] /\ statted \in [Path -> Nat]

(* The others go on as before. *)
LEMMA OwnStep ==
  ASSUME TalkInv, NEW w \in Workers, UNCHANGED <<o, manager>>, OutputTypes',
         NEW x, x \in Seq(Outbox), toMgr' = [toMgr EXCEPT ![w] = x],
         \A n \in 1..Len(x) : x[n].originator = w,
         NEW y, y \in Seq(Inbox), toWrk' = [toWrk EXCEPT ![w] = y],
         NEW s, s \in Local, wk' = [wk EXCEPT ![w] = s]
  PROVE  /\ toMgr'[w] = x /\ toWrk'[w] = y /\ wk'[w] = s /\ active'[w] = active[w]
         /\ \A v : Handing(v)' <=> Handing(v)
         /\ InPhase(w)' => TalkInv'
<1>0. UNCHANGED <<mgr, workq, active, chunktab, jobstats>>
  BY DEF manager
<1>1. /\ toMgr'[w] = x /\ toWrk'[w] = y /\ wk'[w] = s
      /\ \A v \in Workers : v # w => toMgr'[v] = toMgr[v] /\ toWrk'[v] = toWrk[v] /\ wk'[v] = wk[v]
      /\ toMgr' \in [Workers -> Seq(Outbox)]
      /\ toWrk' \in [Workers -> Seq(Inbox)]
      /\ wk' \in [Workers -> Local]
  BY DEF TalkInv, TypeOK
<1>2. TypeOK'
  BY <1>0, <1>1 DEF TalkInv, TypeOK, Queues, OutputTypes
<1>3. ManagerInv'
  BY <1>0 DEF TalkInv, ManagerInv, Queues
<1>4. SendersInv'
  BY <1>1 DEF TalkInv, SendersInv
<1>5. \A v : Handing(v)' <=> Handing(v)
  BY <1>0 DEF Handing
<1>6. ASSUME NEW v \in Workers, v # w PROVE InPhase(v)'
  BY <1>0, <1>1, <1>5, <1>6, PhaseKept DEF TalkInv
<1>7. InPhase(w)' => \A v \in Workers : InPhase(v)'
  BY <1>6
<1> QED BY <1>0, <1>1, <1>2, <1>3, <1>4, <1>5, <1>7 DEF TalkInv

(* Values for the parts a step leaves alone. *)
LEMMA OwnTypes ==
  ASSUME TalkInv, NEW w \in Workers
  PROVE  /\ toMgr[w] \in Seq(Outbox) /\ Len(toMgr[w]) \in Nat
         /\ toMgr = [toMgr EXCEPT ![w] = toMgr[w]]
         /\ \A n \in 1..Len(toMgr[w]) : toMgr[w][n].originator = w
         /\ toWrk[w] \in Seq(Inbox) /\ toWrk = [toWrk EXCEPT ![w] = toWrk[w]]
         /\ wk[w] \in Local /\ wk = [wk EXCEPT ![w] = wk[w]]
         /\ OutputTypes
BY DEF TalkInv, TypeOK, OutputTypes, SendersInv

(* x is what w has sent, m last. *)
Longer(x, w, m) ==
  /\ x \in Seq(Outbox) /\ Len(x) = Len(toMgr[w]) + 1
  /\ x[Len(x)] = m /\ \A n \in 1..Len(toMgr[w]) : x[n] = toMgr[w][n]
  /\ \A n \in 1..Len(x) : x[n].originator = w
  /\ Len(toMgr[w]) = 0 => x = <<m>>

(* One more message to the manager. *)
LEMMA Extended ==
  ASSUME TalkInv, NEW w \in Workers, NEW m, m \in Outbox, m.originator = w,
         NEW x, x = Append(toMgr[w], m)
  PROVE  Longer(x, w, m)
<1>1. toMgr[w] \in Seq(Outbox)
  BY OwnTypes
<1>2. /\ x \in Seq(Outbox) /\ Len(x) = Len(toMgr[w]) + 1
      /\ x[Len(x)] = m /\ \A n \in 1..Len(toMgr[w]) : x[n] = toMgr[w][n]
  BY <1>1
<1>3. \A n \in 1..Len(x) : x[n].originator = w
  <2> SUFFICES ASSUME NEW n \in 1..Len(x) PROVE x[n].originator = w
    OBVIOUS
  <2>1. n = Len(x) \/ n \in 1..Len(toMgr[w])
    BY <1>1, <1>2
  <2> QED BY <1>2, <2>1, OwnTypes
<1>4. Len(toMgr[w]) = 0 => x = <<m>>
  <2> SUFFICES ASSUME Len(toMgr[w]) = 0 PROVE x = <<m>>
    OBVIOUS
  <2>1. toMgr[w] = <<>>
    BY <1>1, EmptySeq
  <2> QED BY <2>1
<1> QED BY <1>2, <1>3, <1>4 DEF Longer

(* Sending one message signs it and appends it, *)
LEMMA SendOne ==
  ASSUME NEW w, NEW m, SendToManager(<<m>>, w)
  PROVE  toMgr' = [toMgr EXCEPT ![w] = @ \o <<[m EXCEPT !.originator = w]>>]
<1> DEFINE q == <<m>>
<1>1. Len(q) = 1 /\ q[1] = m
  OBVIOUS
<1>2. [n \in 1..Len(q) |-> [q[n] EXCEPT !.originator = w]] = <<[m EXCEPT !.originator = w]>>
  BY <1>1
<1> QED BY <1>2 DEF SendToManager

(* and it is still a message that a worker sends. *)
LEMMA SendAppends ==
  ASSUME TalkInv, NEW w \in Workers, NEW m \in Outbox,
         SendToManager(<<m>>, w)
  PROVE  /\ toMgr' = [toMgr EXCEPT ![w] = Append(toMgr[w], [m EXCEPT !.originator = w])]
         /\ [m EXCEPT !.originator = w].originator = w
         /\ [m EXCEPT !.originator = w] \in Outbox
<1>1. m \in Messages
  BY DEF Messages, Outbox
<1> DEFINE s == [m EXCEPT !.originator = w]
<1>2. s.originator = w /\ s \in Outbox
  BY <1>1, Signed, SignedKind DEF Outbox, Work, Done
<1>3. toMgr' = [toMgr EXCEPT ![w] = @ \o <<s>>]
  BY SendOne
<1> HIDE DEF s
<1>4. toMgr[w] \o <<s>> = Append(toMgr[w], s)
  BY <1>2, OwnTypes
<1>5. toMgr' = [toMgr EXCEPT ![w] = Append(toMgr[w], s)]
  BY <1>3, <1>4, OwnTypes
<1> QED BY <1>2, <1>5 DEF s

(* What w has told stays so when it sends another message. *)
LEMMA StillTold ==
  ASSUME TalkInv, NEW w \in Workers, Told(w, Len(toMgr[w])), Handing(w)' <=> Handing(w),
         Len(toMgr'[w]) = Len(toMgr[w]) + 1, \A n \in 1..Len(toMgr[w]) : toMgr'[w][n] = toMgr[w][n]
  PROVE  /\ Told(w, Len(toMgr[w]) - 1)'
         /\ toMgr'[w][Len(toMgr'[w])] \in Announce => Told(w, Len(toMgr[w]))'
<1> DEFINE n == Len(toMgr[w])
           x == toMgr'[w]
<1>1. n \in Nat /\ Len(x) = n + 1 /\ Len(x) - 1 = n
  BY OwnTypes
<1>2. Handing(w) => n > 0 /\ x[1] \in Work
  BY <1>1 DEF Told
<1>3. \A i \in 1..n : x[i] \in Announce \/ (Handing(w) /\ i = 1)
  BY <1>1 DEF Told
<1>4. Told(w, Len(toMgr[w]) - 1)'
  BY <1>1, <1>2, <1>3 DEF Told
<1>5. x[n + 1] \in Announce => \A i \in 1..n + 1 : x[i] \in Announce \/ (Handing(w) /\ i = 1)
  <2> SUFFICES ASSUME x[n + 1] \in Announce, NEW i \in 1..n + 1 PROVE x[i] \in Announce \/ (Handing(w) /\ i = 1)
    OBVIOUS
  <2>1. i = n + 1 \/ i \in 1..n
    BY <1>1
  <2> HIDE DEF x, n
  <2> QED BY <1>3, <2>1
<1>6. x[n + 1] \in Announce => Told(w, Len(toMgr[w]))'
  BY <1>1, <1>2, <1>5 DEF Told
<1> QED BY <1>1, <1>4, <1>6

(* A step within a work function, which may announce chunks. *)
LEMMA WorkOn ==
  ASSUME TalkInv, NEW w \in Workers, AtWork(w), UNCHANGED <<o, manager, toWrk>>, OutputTypes',
         NEW s, s \in Local, s.pc = "work", Busy(s), wk' = [wk EXCEPT ![w] = s],
         \/ UNCHANGED toMgr
         \/ \E m \in Announce : SendToManager(<<m>>, w)
  PROVE  TalkInv' /\ wk'[w] = s
<1>1. CASE UNCHANGED toMgr
  <2>1. /\ toMgr'[w] = toMgr[w] /\ toWrk'[w] = toWrk[w] /\ wk'[w] = s /\ active'[w] = active[w]
        /\ \A v : Handing(v)' <=> Handing(v)
        /\ InPhase(w)' => TalkInv'
    BY <1>1, OwnStep, OwnTypes
  <2>2. Told(w, Len(toMgr[w])) => Told(w, Len(toMgr[w]))'
    BY <2>1 DEF Told
  <2>3. AtWork(w)'
    BY <2>1, <2>2 DEF AtWork
  <2> QED BY <2>1, <2>3 DEF InPhase
<1>2. ASSUME NEW m \in Announce, SendToManager(<<m>>, w) PROVE TalkInv' /\ wk'[w] = s
  <2> DEFINE c == [m EXCEPT !.originator = w]
             x == Append(toMgr[w], c)
  <2>1. m \in Messages
    BY DEF Messages, Outbox
  <2>2. c \in Announce /\ c \in Outbox /\ m \in Outbox /\ c.originator = w
    BY <2>1, Signed, SignedKind DEF Outbox
  <2>3. toMgr' = [toMgr EXCEPT ![w] = x]
    BY <1>2, <2>2, SendAppends
  <2> HIDE DEF c
  <2>8. x = Append(toMgr[w], c)
    OBVIOUS
  <2> HIDE DEF x
  <2>9. c \in Outbox /\ c.originator = w
    BY <2>2
  <2>10. Longer(x, w, c)
    BY <2>8, <2>9, Extended
  <2>4. /\ x \in Seq(Outbox) /\ Len(x) = Len(toMgr[w]) + 1
        /\ x[Len(x)] = c /\ \A n \in 1..Len(toMgr[w]) : x[n] = toMgr[w][n]
        /\ \A n \in 1..Len(x) : x[n].originator = w
    BY <2>10 DEF Longer
  <2>5. /\ toMgr'[w] = x /\ toWrk'[w] = toWrk[w] /\ wk'[w] = s /\ active'[w] = active[w]
        /\ \A v : Handing(v)' <=> Handing(v)
        /\ InPhase(w)' => TalkInv'
    BY <2>3, <2>4, OwnStep, OwnTypes
  <2>6. Told(w, Len(toMgr[w]))'
    BY <2>2, <2>4, <2>5, StillTold DEF AtWork
  <2>7. AtWork(w)'
    BY <2>5, <2>6 DEF AtWork
  <2> QED BY <2>5, <2>7 DEF InPhase
<1> QED BY <1>1, <1>2

(* A worker at work that asks to hand over an item waits for the answer. *)
LEMMA AskFor ==
  ASSUME TalkInv, NEW w \in Workers, AtWork(w), UNCHANGED <<o, manager, toWrk>>, OutputTypes',
         NEW s, s \in Local, s.pc = "ack", Busy(s), wk' = [wk EXCEPT ![w] = s],
         NEW m \in Ask, SendToManager(<<m>>, w)
  PROVE  TalkInv' /\ wk'[w] = s
<1> DEFINE c == [m EXCEPT !.originator = w]
           x == Append(toMgr[w], c)
<1>1. m \in Messages
  BY DEF Messages, Outbox
<1>2. c \in Ask /\ c \in Outbox /\ m \in Outbox /\ c.originator = w
  BY <1>1, Signed, SignedKind DEF Outbox
<1>3. toMgr' = [toMgr EXCEPT ![w] = x]
  BY <1>2, SendAppends
<1> HIDE DEF c
<1>9. x = Append(toMgr[w], c)
  OBVIOUS
<1> HIDE DEF x
<1>10. c \in Outbox /\ c.originator = w
  BY <1>2
<1>11. Longer(x, w, c)
  BY <1>9, <1>10, Extended
<1>4. /\ x \in Seq(Outbox) /\ Len(x) = Len(toMgr[w]) + 1
      /\ x[Len(x)] = c /\ \A n \in 1..Len(toMgr[w]) : x[n] = toMgr[w][n]
      /\ \A n \in 1..Len(x) : x[n].originator = w
  BY <1>11 DEF Longer
<1>5. /\ toMgr'[w] = x /\ toWrk'[w] = toWrk[w] /\ wk'[w] = s /\ active'[w] = active[w]
      /\ \A v : Handing(v)' <=> Handing(v)
      /\ InPhase(w)' => TalkInv'
  BY <1>3, <1>4, OwnStep, OwnTypes
<1>6. Len(x) - 1 = Len(toMgr[w]) /\ Len(x) > 0 /\ Len(toMgr[w]) \in Nat
  BY <1>4, OwnTypes
<1>7. Told(w, Len(toMgr[w]) - 1)'
  BY <1>4, <1>5, StillTold DEF AtWork
<1>8. Asking(w)'
  BY <1>2, <1>4, <1>5, <1>6, <1>7 DEF AtWork, Asking
<1> QED BY <1>5, <1>8 DEF InPhase

(* A worker at work that reports its item done waits for the next one. *)
LEMMA Finish ==
  ASSUME TalkInv, NEW w \in Workers, AtWork(w), UNCHANGED <<o, manager, toWrk>>, OutputTypes',
         wk' = [wk EXCEPT ![w] = Waiting], NEW m \in Done, SendToManager(<<m>>, w)
  PROVE  TalkInv' /\ wk'[w] = Waiting
<1> DEFINE c == [m EXCEPT !.originator = w]
           x == Append(toMgr[w], c)
<1>1. m \in Messages
  BY DEF Messages, Outbox
<1>2. c \in Done /\ c \in Outbox /\ m \in Outbox /\ c.originator = w
  BY <1>1, Signed, SignedKind DEF Outbox, Done
<1>3. toMgr' = [toMgr EXCEPT ![w] = x]
  BY <1>2, SendAppends
<1> HIDE DEF c
<1>9. x = Append(toMgr[w], c)
  OBVIOUS
<1> HIDE DEF x
<1>10. c \in Outbox /\ c.originator = w
  BY <1>2
<1>11. Longer(x, w, c)
  BY <1>9, <1>10, Extended
<1>4. /\ x \in Seq(Outbox) /\ Len(x) = Len(toMgr[w]) + 1
      /\ x[Len(x)] = c /\ \A n \in 1..Len(toMgr[w]) : x[n] = toMgr[w][n]
      /\ \A n \in 1..Len(x) : x[n].originator = w
  BY <1>11 DEF Longer
<1>5. /\ toMgr'[w] = x /\ toWrk'[w] = toWrk[w] /\ wk'[w] = Waiting /\ active'[w] = active[w]
      /\ \A v : Handing(v)' <=> Handing(v)
      /\ InPhase(w)' => TalkInv'
  BY <1>3, <1>4, OwnStep, OwnTypes, WaitingState
<1>6. Len(x) - 1 = Len(toMgr[w]) /\ Len(x) > 0 /\ Len(toMgr[w]) \in Nat
  BY <1>4, OwnTypes
<1>7. Told(w, Len(toMgr[w]) - 1)'
  BY <1>4, <1>5, StillTold DEF AtWork
<1>8. Finished(w)'
  BY <1>2, <1>4, <1>5, <1>6, <1>7, WaitingState DEF AtWork, Finished
<1> QED BY <1>5, <1>8 DEF InPhase

(* A worker whose work function runs is at work. *)
LEMMA AtWorkWhen ==
  ASSUME TalkInv, NEW w \in Workers, wk[w].pc = "work"
  PROVE  AtWork(w) /\ Busy(wk[w]) /\ wk[w] \in Local /\ wk[w].item \in Work /\ toWrk[w] = <<>>
<1>1. AtWork(w)
  BY DEF TalkInv, InPhase, Free, Given, Asking, Answered, Finished, Resting
<1> QED BY <1>1, OwnTypes DEF AtWork, Busy

(***************************************************************************)
(* The states of a work function.                                          *)
(***************************************************************************)

LEMMA LocalFields ==
  ASSUME NEW s \in Local
  PROVE  /\ s.pc \in {"wait", "work", "ack", "gone"} /\ s.item \in Item /\ s.i \in Nat /\ s.i > 0
         /\ s.dip \in BOOLEAN /\ s.ents \in Seq(Path) /\ s.out \in Seq(Path) /\ s.perf \in Perf
         /\ s.pair \in {NoData} \cup PairData /\ s.offer \in Item
BY DEF Local

(* One counter goes up by one. *)
LEMMA PerfInc ==
  ASSUME NEW perf \in Perf, NEW c \in {"dirs", "stats", "compares", "matched"}
  PROVE  /\ perfstat_inc_counter(perf, c) \in Perf
         /\ perfstat_inc_counter(perf, c).dirs = perf.dirs + (IF c = "dirs" THEN 1 ELSE 0)
         /\ perfstat_inc_counter(perf, c).compares = perf.compares + (IF c = "compares" THEN 1 ELSE 0)
BY DEF perfstat_inc_counter, Perf

(* File pairs, with any chunk number. *)
LEMMA Pairs ==
  /\ \A f \in DOMAIN Src : filepair_new(f) \in PairData /\ filepair_new(f).chunknum = -1
                           /\ filepair_new(f).src = f
  /\ \A pair \in PairData, k \in -1..nproc : [pair EXCEPT !.chunknum = k] \in PairData
  /\ NoData \notin PairData
<1>1. nproc \in Nat
  BY Ranks
<1> QED BY <1>1 DEF filepair_new, PairData, NoData

(* An item of buffered paths. *)
LEMMA BufferItem ==
  ASSUME NEW fn \in WalkFns, NEW s \in Seq(Path), fn = "treewalk_readdir" => s \in Seq(DOMAIN Entries)
  PROVE  /\ Buffer(fn, s) \in Walk /\ Buffer(fn, s) \in Work
         /\ Buffer(fn, s).do_work = fn /\ Buffer(fn, s).workdata.type = "paths"
         /\ PathsOf(Buffer(fn, s)) = s
<1> DEFINE m == Buffer(fn, s)
<1>1. PathWork(s) \in PathData /\ PathWork(s).type = "paths" /\ PathWork(s).paths = s
  BY DEF PathWork, PathData
<1>2. <<>> \in Seq(Path) /\ fn \in ItemFns
  BY DEF WalkFns, ItemFns
<1>3. /\ m \in Item /\ m.do_work = fn /\ m.manager_run = FALSE /\ m.workdata = PathWork(s)
  BY <1>1, <1>2 DEF Buffer, workitem_new, Item
<1> HIDE DEF m
<1>4. PathsOf(m) = s
  BY <1>1, <1>3 DEF PathsOf
<1>5. m \in Walk
  BY <1>1, <1>3, <1>4 DEF Walk
<1> QED BY <1>1, <1>3, <1>4, <1>5 DEF m, Work

(* A request is a question a worker may ask. *)
LEMMA RequestItem ==
  ASSUME NEW rque \in {0, 1}, NEW secs \in Nat
  PROVE  Request(rque, secs) \in Ask
<1>1. <<>> \in Seq(Path) /\ "none" \in ItemFns /\ WorkRequest(secs) \in RequestData
  BY DEF ItemFns, WorkRequest, RequestData
<1> QED BY <1>1 DEF Request, workitem_new, Ask, Item

(* The report of a walk item carries its counters. *)
LEMMA WalkDoneItem ==
  ASSUME NEW perf \in Perf
  PROVE  LET m == [workitem_new(MANAGER_PROC) EXCEPT
                     !.do_work = "manager_workdone", !.manager_run = TRUE,
                     !.workdata = [type |-> "perf", perf |-> perf]]
         IN m \in DoneWalk /\ m \in Done /\ m.workdata.perf = perf
<1>1. /\ <<>> \in Seq(Path) /\ "manager_workdone" \in ItemFns
      /\ [type |-> "perf", perf |-> perf] \in PerfData
  BY DEF ItemFns, PerfData
<1> QED BY <1>1 DEF workitem_new, DoneWalk, Done, Item

(* The report of a compare carries the outcome and its counters. *)
LEMMA CompareDoneItem ==
  ASSUME NEW pair \in PairData, NEW perf \in Perf
  PROVE  LET m == [workitem_new(MANAGER_PROC) EXCEPT
                     !.do_work = "cmp_workdone", !.manager_run = TRUE,
                     !.workdata = FileWorkStat(pair, perf)]
         IN m \in DoneCompare /\ m \in Done /\ m.workdata.files = pair /\ m.workdata.perf = perf
<1>1. <<>> \in Seq(Path) /\ "cmp_workdone" \in ItemFns /\ FileWorkStat(pair, perf) \in StatData
      /\ FileWorkStat(pair, perf).files = pair /\ FileWorkStat(pair, perf).perf = perf
  BY DEF ItemFns, FileWorkStat, StatData
<1> QED BY <1>1 DEF workitem_new, DoneCompare, Done, Item

(* cmp_sendchunkfileadd announces the file of the pair. *)
LEMMA AnnounceItem ==
  ASSUME NEW pair \in PairData
  PROVE  cmp_sendchunkfileadd(pair) \in Announce /\ cmp_sendchunkfileadd(pair).workdata.src = pair.src
<1>1. <<>> \in Seq(Path) /\ "cmp_addchunkfile" \in ItemFns /\ nproc \in Nat
  BY Ranks DEF ItemFns
<1>2. [pair EXCEPT !.chunknum = nproc] \in PairData /\ [pair EXCEPT !.chunknum = nproc].chunknum = nproc
      /\ [pair EXCEPT !.chunknum = nproc].src = pair.src
  BY <1>1 DEF PairData
<1> QED BY <1>1, <1>2 DEF cmp_sendchunkfileadd, workitem_new, Announce, Item

(* The item to compare a part. *)
LEMMA CompareItem ==
  ASSUME NEW pair \in PairData
  PROVE  LET m == [workitem_new(MANAGER_PROC) EXCEPT !.do_work = "cmp_compare", !.qidx = 1, !.workdata = pair]
         IN m \in Compare /\ m \in Work /\ m \notin Walk /\ m.workdata = pair
<1> DEFINE m == [workitem_new(MANAGER_PROC) EXCEPT !.do_work = "cmp_compare", !.qidx = 1, !.workdata = pair]
<1>1. <<>> \in Seq(Path) /\ "cmp_compare" \in ItemFns
  BY DEF ItemFns
<1>2. m \in Item /\ m.do_work = "cmp_compare" /\ m.manager_run = FALSE /\ m.workdata = pair /\ m.path = <<>>
  BY <1>1 DEF workitem_new, Item
<1> HIDE DEF m
<1>3. m \in Compare /\ m \notin Walk
  BY <1>2 DEF Compare, Walk, WalkFns
<1> QED BY <1>2, <1>3 DEF Work, m

(***************************************************************************)
(* The conversation: the work functions.                                   *)
(***************************************************************************)

(* Offering the buffer of a walk. *)
LEMMA OfferBuffer ==
  ASSUME TalkInv, NEW w \in Workers, AtWork(w), UNCHANGED <<o, manager, toWrk>>, OutputTypes',
         NEW s \in Local, s.pc = "work", Busy(s), NEW fn, fn = OtherFn(s.item.do_work),
         s.item.do_work \in WalkFns,
         worker_sendrequest(w, s, 0, Buffer(fn, s.out))
  PROVE  /\ TalkInv'
         /\ wk'[w] = [s EXCEPT !.pc = "ack", !.offer = Buffer(fn, s.out)]
         /\ Buffer(fn, s.out) \in Walk
<1> DEFINE b == Buffer(fn, s.out)
           x == [s EXCEPT !.pc = "ack", !.offer = b]
<1>1. fn \in WalkFns /\ (fn = "treewalk_readdir" => s.item.do_work = "treewalk_statpath")
  BY DEF OtherFn, WalkFns
<1>2. s.out \in Seq(Path)
  BY LocalFields
<1>3. fn = "treewalk_readdir" => s.out \in Seq(DOMAIN Entries)
  BY <1>1 DEF Busy, Statting, Reading, Comparing
<1>4. b \in Walk /\ b \in Work /\ b \in Item
  <2>1. b \in Walk /\ b \in Work
    BY <1>1, <1>2, <1>3, BufferItem
  <2> QED BY <2>1 DEF Walk
<1> HIDE DEF b
<1>5. x \in Local /\ x.pc = "ack" /\ x.item = s.item /\ x.i = s.i /\ x.dip = s.dip /\ x.ents = s.ents
      /\ x.out = s.out /\ x.pair = s.pair /\ x.offer = b
  BY <1>4 DEF Local
<1> HIDE DEF x
<1>6. Busy(x)
  <2>1. Statting(x) \/ Reading(x)
    BY <1>5 DEF Busy, Statting, Reading, Comparing, WalkFns
  <2>2. b = Buffer(OtherFn(x.item.do_work), x.out)
    BY <1>5 DEF b
  <2> QED BY <1>4, <1>5, <2>1, <2>2 DEF Busy
<1>7. Request(0, 0) \in Ask
  BY RequestItem
<1>8. wk' = [wk EXCEPT ![w] = x] /\ SendToManager(<<Request(0, 0)>>, w)
  BY DEF worker_sendrequest, Set, x, b
<1>9. TalkInv' /\ wk'[w] = x
  BY <1>5, <1>6, <1>7, <1>8, AskFor
<1> QED BY <1>4, <1>9 DEF x, b

(* tw_senddone ends the work of an item. *)
LEMMA SendDone ==
  ASSUME TalkInv, NEW w \in Workers, AtWork(w), UNCHANGED <<o, manager, toWrk>>, OutputTypes',
         NEW perf \in Perf, tw_senddone(w, perf)
  PROVE  TalkInv' /\ wk'[w] = Waiting
<1> DEFINE m == [workitem_new(MANAGER_PROC) EXCEPT
                  !.do_work = "manager_workdone", !.manager_run = TRUE,
                  !.workdata = [type |-> "perf", perf |-> perf]]
<1>1. m \in Done
  BY WalkDoneItem
<1>2. SendToManager(<<m>>, w) /\ wk' = [wk EXCEPT ![w] = Waiting]
  BY DEF tw_senddone, Set
<1> HIDE DEF m
<1> QED BY <1>1, <1>2, Finish

(* A step that neither prints nor stats keeps the types of what was *)
(* printed and stat-ed.                                             *)
LEMMA Unprinted ==
  ASSUME TalkInv, UNCHANGED <<printed, statted>>
  PROVE  OutputTypes'
BY DEF TalkInv, TypeOK, OutputTypes

(* A worker in a work function of the walk. *)
LEMMA InWalk ==
  ASSUME TalkInv, NEW w \in Workers, NEW fn \in WalkFns, Working(w, fn)
  PROVE  /\ AtWork(w) /\ wk[w] \in Local /\ wk[w].pc = "work" /\ Busy(wk[w]) /\ toWrk[w] = <<>>
         /\ wk[w].item \in Walk /\ wk[w].item.do_work = fn
         /\ fn = "treewalk_statpath" => Statting(wk[w])
         /\ fn = "treewalk_readdir" => Reading(wk[w]) /\ Todo(w) \in Seq(DOMAIN Entries)
         /\ Todo(w) \in Seq(Path) /\ wk[w].i \in Nat /\ wk[w].i > 0 /\ Len(Todo(w)) \in Nat
<1>1. /\ AtWork(w) /\ Busy(wk[w]) /\ wk[w] \in Local /\ wk[w].item \in Work /\ toWrk[w] = <<>>
  BY AtWorkWhen DEF Working
<1>2. wk[w].item.do_work = fn /\ wk[w].pc = "work"
  BY DEF Working
<1>3. wk[w].item \in Walk
  BY <1>1, <1>2, Kinds DEF Work, WalkFns
<1>4. Statting(wk[w]) \/ Reading(wk[w])
  BY <1>1, <1>2 DEF Busy, Comparing, WalkFns
<1>5. Todo(w) \in Seq(Path)
  <2>1. wk[w].item \in Item
    BY <1>1, LocalFields
  <2> QED BY <2>1, PathsOfItem DEF Todo
<1>6. fn = "treewalk_readdir" => Todo(w) \in Seq(DOMAIN Entries)
  BY <1>2, <1>3 DEF Walk, Todo
<1>7. Len(Todo(w)) \in Nat
  BY <1>5
<1> QED
  BY <1>1, <1>2, <1>3, <1>4, <1>5, <1>6, <1>7, LocalFields DEF Statting, Reading

(* A directory is stat-ed: the worker walks on or offers its buffer. *)
LEMMA StatDirTalks ==
  ASSUME TalkInv, NEW w \in Workers, StatDir(w)
  PROVE  TalkInv'
<1> DEFINE s == wk[w]
           p == Todo(w)[s.i]
           next == [s EXCEPT !.i = @ + 1, !.perf = perfstat_inc_counter(@, "stats"), !.out = Append(@, p)]
<1>1. /\ Working(w, "treewalk_statpath") /\ s.pair = NoData
      /\ s.i <= Len(Todo(w)) /\ p \in DOMAIN Entries
      /\ statted' = [statted EXCEPT ![p] = @ + 1]
      /\ UNCHANGED <<o, manager, toWrk, printed, failed>>
      /\ \/ tw_senddirs(w, next)
         \/ Set(w, next) /\ UNCHANGED toMgr
  BY DEF StatDir
<1>2. AtWork(w) /\ s \in Local /\ s.pc = "work" /\ Busy(s) /\ Statting(s)
      /\ s.item.do_work = "treewalk_statpath"
  BY <1>1, InWalk DEF WalkFns
<1>3. p \in Path
  BY <1>1, PwtAssumption
<1>4. OutputTypes'
  BY <1>1, <1>3 DEF TalkInv, TypeOK, OutputTypes
<1>5. s.perf \in Perf /\ perfstat_inc_counter(s.perf, "stats") \in Perf
  BY <1>2, LocalFields, PerfInc
<1>6. s.out \in Seq(DOMAIN Entries) /\ Append(s.out, p) \in Seq(DOMAIN Entries)
      /\ Append(s.out, p) \in Seq(Path)
  BY <1>1, <1>2, <1>3, LocalFields DEF Statting
<1>7. s.i \in Nat /\ s.i > 0 /\ s.i + 1 \in Nat \ {0} /\ s.i + 1 <= Len(Todo(w)) + 1
  BY <1>1, InWalk DEF WalkFns
<1>8. next \in Local /\ next.pc = "work" /\ next.item = s.item /\ next.i = s.i + 1 /\ next.dip = s.dip
      /\ next.ents = s.ents /\ next.out = Append(s.out, p) /\ next.pair = s.pair /\ next.offer = s.offer
  BY <1>2, <1>5, <1>6, <1>7 DEF Local
<1> HIDE DEF next
<1>9. Busy(next)
  <2>1. Statting(next)
    BY <1>1, <1>2, <1>6, <1>7, <1>8 DEF Statting, Todo
  <2> QED BY <1>2, <1>8, <2>1 DEF Busy
<1>10. CASE tw_senddirs(w, next)
  <2>1. next.item.do_work \in WalkFns /\ OtherFn(next.item.do_work) = "treewalk_readdir"
    BY <1>2, <1>8 DEF OtherFn, WalkFns
  <2>2. worker_sendrequest(w, next, 0, Buffer("treewalk_readdir", next.out))
    BY <1>10 DEF tw_senddirs
  <2>3. UNCHANGED <<o, manager, toWrk>>
    BY <1>1
  <2> QED BY <1>2, <1>4, <1>8, <1>9, <2>1, <2>2, <2>3, OfferBuffer
<1>11. CASE Set(w, next) /\ UNCHANGED toMgr
  <2>1. wk' = [wk EXCEPT ![w] = next] /\ UNCHANGED toMgr /\ UNCHANGED <<o, manager, toWrk>>
    BY <1>1, <1>11 DEF Set
  <2> QED BY <1>2, <1>4, <1>8, <1>9, <2>1, WorkOn
<1> QED BY <1>1, <1>10, <1>11

-----------------------------------------------------------------------------
(* A file is stat-ed: it is printed, or its first part becomes the pair *)
(* to offer.                                                            *)
LEMMA StatFileTalks ==
  ASSUME TalkInv, NEW w \in Workers, StatFile(w)
  PROVE  TalkInv'
<1> DEFINE s == wk[w]
           p == Todo(w)[s.i]
           next == [s EXCEPT !.i = @ + 1, !.perf = perfstat_inc_counter(@, "stats")]
           counted == [next EXCEPT !.perf = perfstat_inc_counter(@, "stats")]
           pair == filepair_new(p)
           chunk == [pair EXCEPT !.chunknum = 0]
<1>1. /\ Working(w, "treewalk_statpath") /\ s.pair = NoData
      /\ s.i <= Len(Todo(w)) /\ p \in DOMAIN Src
      /\ statted' = [statted EXCEPT ![p] = @ + 1]
      /\ UNCHANGED <<o, manager, toWrk, failed>>
      /\ \/ /\ printed' = [printed EXCEPT ![p] = Append(@, "path")]
            /\ Set(w, next) /\ UNCHANGED toMgr
         \/ cmp_process_file(w, p, next) /\ UNCHANGED printed
  BY DEF StatFile
<1>2. AtWork(w) /\ s \in Local /\ s.pc = "work" /\ Busy(s) /\ Statting(s)
      /\ s.item.do_work = "treewalk_statpath"
  BY <1>1, InWalk DEF WalkFns
<1>3. p \in Path
  BY <1>1, PwtAssumption
<1>4. OutputTypes'
  <2>1. statted' \in [Path -> Nat]
    BY <1>1, <1>3 DEF TalkInv, TypeOK
  <2>2. Append(printed[p], "path") \in Seq({"path", "MATCHES", "differs"})
    BY <1>3 DEF TalkInv, TypeOK
  <2>3. printed' \in [Path -> Seq({"path", "MATCHES", "differs"})]
    BY <1>1, <1>3, <2>2 DEF TalkInv, TypeOK
  <2> QED BY <2>1, <2>3 DEF OutputTypes
<1>5. /\ s.perf \in Perf /\ perfstat_inc_counter(s.perf, "stats") \in Perf
      /\ perfstat_inc_counter(perfstat_inc_counter(s.perf, "stats"), "stats") \in Perf
  BY <1>2, LocalFields, PerfInc
<1>6. s.i \in Nat /\ s.i > 0 /\ s.i + 1 \in Nat \ {0} /\ s.i + 1 <= Len(Todo(w)) + 1
  BY <1>1, InWalk DEF WalkFns
<1>7. pair \in PairData /\ chunk \in PairData /\ pair.chunknum = -1 /\ chunk.chunknum = 0
  <2>1. pair \in PairData /\ pair.chunknum = -1
    BY <1>1, Pairs
  <2>2. 0 \in -1..nproc /\ chunk.chunknum = 0
    BY <2>1, Ranks DEF PairData
  <2> QED BY <2>1, <2>2, Pairs
<1> HIDE DEF pair, chunk
<1>8. /\ next \in Local /\ next.pc = "work" /\ next.item = s.item /\ next.i = s.i + 1 /\ next.dip = s.dip
      /\ next.ents = s.ents /\ next.out = s.out /\ next.pair = s.pair /\ next.offer = s.offer
      /\ next.perf = perfstat_inc_counter(s.perf, "stats")
  BY <1>2, <1>5, <1>6 DEF Local
<1> HIDE DEF next
<1>9. ASSUME NEW t, t \in Local, t.pc = "work", t.item = s.item, t.i = s.i + 1, t.dip = s.dip,
             t.ents = s.ents, t.out = s.out, t.offer = s.offer,
             t.pair \in {NoData, pair, chunk}
      PROVE  Busy(t)
  <2>1. nproc - 1 \in Nat
    BY Ranks
  <2>2. Statting(t)
    BY <1>2, <1>6, <1>7, <1>9, <2>1 DEF Statting, Todo
  <2> QED BY <1>2, <1>9, <2>2 DEF Busy
<1>10. CASE Set(w, next) /\ UNCHANGED toMgr
  <2>1. wk' = [wk EXCEPT ![w] = next] /\ UNCHANGED toMgr /\ UNCHANGED <<o, manager, toWrk>>
    BY <1>1, <1>10 DEF Set
  <2>2. Busy(next)
    BY <1>1, <1>8, <1>9
  <2> QED BY <1>2, <1>4, <1>8, <2>1, <2>2, WorkOn
<1>11. CASE cmp_process_file(w, p, next) /\ UNCHANGED printed
  <2>1. counted \in Local /\ counted.perf = perfstat_inc_counter(next.perf, "stats")
    BY <1>5, <1>8 DEF Local
  <2> DEFINE whole == [counted EXCEPT !.pair = pair]
             first == [counted EXCEPT !.pair = chunk]
  <2>2. \/ Set(w, next) /\ UNCHANGED toMgr
        \/ SendToManager(<<cmp_sendchunkfileadd(pair)>>, w) /\ Set(w, first)
        \/ Set(w, whole) /\ UNCHANGED toMgr
    BY <1>11 DEF cmp_process_file, pair, chunk
  <2>3. /\ whole \in Local /\ whole.pc = "work" /\ whole.item = s.item /\ whole.i = s.i + 1
        /\ whole.dip = s.dip /\ whole.ents = s.ents /\ whole.out = s.out /\ whole.offer = s.offer
        /\ whole.pair = pair
    BY <1>7, <1>8, <2>1 DEF Local
  <2>4. /\ first \in Local /\ first.pc = "work" /\ first.item = s.item /\ first.i = s.i + 1
        /\ first.dip = s.dip /\ first.ents = s.ents /\ first.out = s.out /\ first.offer = s.offer
        /\ first.pair = chunk
    BY <1>7, <1>8, <2>1 DEF Local
  <2> HIDE DEF whole, first
  <2>5. Busy(whole) /\ Busy(first)
    BY <1>9, <2>3, <2>4
  <2>6. UNCHANGED <<o, manager, toWrk>>
    BY <1>1
  <2>7. CASE Set(w, whole) /\ UNCHANGED toMgr
    <3>1. wk' = [wk EXCEPT ![w] = whole] /\ UNCHANGED toMgr
      BY <2>7 DEF Set
    <3> QED BY <1>2, <1>4, <2>3, <2>5, <2>6, <3>1, WorkOn
  <2>8. CASE SendToManager(<<cmp_sendchunkfileadd(pair)>>, w) /\ Set(w, first)
    <3>1. wk' = [wk EXCEPT ![w] = first]
      BY <2>8 DEF Set
    <3>2. cmp_sendchunkfileadd(pair) \in Announce
      BY <1>7, AnnounceItem
    <3>3. \E m \in Announce : SendToManager(<<m>>, w)
      BY <2>8, <3>2
    <3> QED BY <1>2, <1>4, <2>4, <2>5, <2>6, <3>1, <3>3, WorkOn
  <2> QED BY <1>10, <2>2, <2>7, <2>8
<1> QED BY <1>1, <1>10, <1>11

(* The worker offers a part of a file. *)
LEMMA SendPathsTalks ==
  ASSUME TalkInv, NEW w \in Workers, cmp_sendpaths(w)
  PROVE  TalkInv'
<1> DEFINE s == wk[w]
           pair == s.pair
           more == pair.chunknum >= 0 /\ pair.chunknum + 1 < nproc
           left == IF more THEN [pair EXCEPT !.chunknum = @ + 1] ELSE NoData
           state == [s EXCEPT !.pair = left]
           m == [workitem_new(MANAGER_PROC) EXCEPT !.do_work = "cmp_compare", !.qidx = 1, !.workdata = pair]
           x == [state EXCEPT !.pc = "ack", !.offer = m]
<1>1. Working(w, "treewalk_statpath") /\ pair # NoData /\ worker_sendrequest(w, state, 1, m)
      /\ UNCHANGED <<o, manager, toWrk, printed, statted>>
  BY DEF cmp_sendpaths, OnlyWorker
<1>2. AtWork(w) /\ s \in Local /\ s.pc = "work" /\ Busy(s) /\ Statting(s)
      /\ s.item.do_work = "treewalk_statpath"
  BY <1>1, InWalk DEF WalkFns
<1>3. OutputTypes'
  BY <1>1, Unprinted
<1>4. pair \in PairData /\ pair.chunknum \in -1..nproc - 1
  BY <1>1, <1>2, LocalFields DEF Statting
<1>5. m \in Compare /\ m \in Work /\ m \notin Walk /\ m \in Item
  BY <1>4, CompareItem DEF Compare
<1>6. left \in {NoData} \cup PairData /\ (left # NoData => left.chunknum \in -1..nproc - 1)
  <2>1. nproc \in Nat
    BY Ranks
  <2>2. CASE more
    <3>1. pair.chunknum + 1 \in -1..nproc - 1 /\ pair.chunknum + 1 \in -1..nproc
      BY <1>4, <2>1, <2>2
    <3>2. [pair EXCEPT !.chunknum = @ + 1] \in PairData
          /\ [pair EXCEPT !.chunknum = @ + 1].chunknum = pair.chunknum + 1
      BY <1>4, <3>1 DEF PairData
    <3> QED BY <2>2, <3>1, <3>2
  <2> QED BY <2>2
<1> HIDE DEF m, left
<1>7. /\ x \in Local /\ x.pc = "ack" /\ x.item = s.item /\ x.i = s.i /\ x.dip = s.dip /\ x.ents = s.ents
      /\ x.out = s.out /\ x.pair = left /\ x.offer = m
  BY <1>2, <1>5, <1>6 DEF Local
<1> HIDE DEF x
<1>8. Busy(x)
  <2>1. Statting(x)
    BY <1>2, <1>6, <1>7 DEF Statting
  <2> QED BY <1>2, <1>5, <1>7, <2>1 DEF Busy
<1>9. Request(1, 0) \in Ask
  BY RequestItem
<1>10. wk' = [wk EXCEPT ![w] = x] /\ SendToManager(<<Request(1, 0)>>, w)
  BY <1>1 DEF worker_sendrequest, Set, x
<1>11. UNCHANGED <<o, manager, toWrk>>
  BY <1>1
<1> QED BY <1>2, <1>3, <1>7, <1>8, <1>9, <1>10, <1>11, AskFor

(* A directory is opened, or cannot be and the item ends. *)
LEMMA OpenDirTalks ==
  ASSUME TalkInv, NEW w \in Workers, OpenDir(w)
  PROVE  TalkInv'
<1> DEFINE s == wk[w]
           next == [s EXCEPT !.dip = TRUE, !.ents = Entries[Todo(w)[s.i]]]
<1>1. /\ Working(w, "treewalk_readdir") /\ ~s.dip /\ s.i <= Len(Todo(w))
      /\ UNCHANGED <<o, manager, toWrk, printed, statted>>
      /\ \/ Set(w, next) /\ UNCHANGED toMgr
         \/ tw_senddone(w, s.perf)
  BY DEF OpenDir
<1>2. /\ AtWork(w) /\ s \in Local /\ s.pc = "work" /\ Busy(s) /\ Reading(s)
      /\ s.item.do_work = "treewalk_readdir" /\ Todo(w) \in Seq(DOMAIN Entries)
      /\ s.i \in Nat /\ s.i > 0
  BY <1>1, InWalk DEF WalkFns
<1>3. OutputTypes' /\ UNCHANGED <<o, manager, toWrk>>
  BY <1>1, Unprinted
<1>4. Entries[Todo(w)[s.i]] \in Seq(Path)
  <2>1. Todo(w)[s.i] \in DOMAIN Entries
    BY <1>1, <1>2
  <2> QED BY <2>1, PwtAssumption
<1>5. /\ next \in Local /\ next.pc = "work" /\ next.item = s.item /\ next.i = s.i /\ next.dip = TRUE
      /\ next.out = s.out /\ next.pair = s.pair /\ next.offer = s.offer
  BY <1>2, <1>4 DEF Local
<1> HIDE DEF next
<1>6. Busy(next)
  <2>1. Reading(next)
    BY <1>1, <1>2, <1>5 DEF Reading, Todo
  <2> QED BY <1>2, <1>5, <2>1 DEF Busy
<1>7. CASE Set(w, next) /\ UNCHANGED toMgr
  <2>1. wk' = [wk EXCEPT ![w] = next] /\ UNCHANGED toMgr
    BY <1>7 DEF Set
  <2> QED BY <1>2, <1>3, <1>5, <1>6, <2>1, WorkOn
<1>8. CASE tw_senddone(w, s.perf)
  BY <1>2, <1>3, <1>8, LocalFields, SendDone
<1> QED BY <1>1, <1>7, <1>8

(* An entry is buffered: the worker reads on or offers its buffer. *)
LEMMA ReadEntryTalks ==
  ASSUME TalkInv, NEW w \in Workers, ReadEntry(w)
  PROVE  TalkInv'
<1> DEFINE s == wk[w]
           next == [s EXCEPT !.ents = Tail(@), !.out = Append(@, Head(s.ents))]
<1>1. /\ Working(w, "treewalk_readdir") /\ s.dip /\ s.ents # <<>>
      /\ UNCHANGED <<o, manager, toWrk, printed, statted>>
      /\ \/ tw_sendpaths(w, next)
         \/ Set(w, next) /\ UNCHANGED toMgr
  BY DEF ReadEntry, OnlyWorker
<1>2. /\ AtWork(w) /\ s \in Local /\ s.pc = "work" /\ Busy(s) /\ Reading(s)
      /\ s.item.do_work = "treewalk_readdir"
  BY <1>1, InWalk DEF WalkFns
<1>3. OutputTypes' /\ UNCHANGED <<o, manager, toWrk>>
  BY <1>1, Unprinted
<1>4. Tail(s.ents) \in Seq(Path) /\ Append(s.out, Head(s.ents)) \in Seq(Path)
  BY <1>1, <1>2, LocalFields
<1>5. /\ next \in Local /\ next.pc = "work" /\ next.item = s.item /\ next.i = s.i /\ next.dip = s.dip
      /\ next.out = Append(s.out, Head(s.ents)) /\ next.pair = s.pair /\ next.offer = s.offer
  BY <1>2, <1>4 DEF Local
<1> HIDE DEF next
<1>6. Busy(next)
  <2>1. Reading(next)
    BY <1>1, <1>2, <1>5 DEF Reading
  <2> QED BY <1>2, <1>5, <2>1 DEF Busy
<1>7. CASE Set(w, next) /\ UNCHANGED toMgr
  <2>1. wk' = [wk EXCEPT ![w] = next] /\ UNCHANGED toMgr
    BY <1>7 DEF Set
  <2> QED BY <1>2, <1>3, <1>5, <1>6, <2>1, WorkOn
<1>8. CASE tw_sendpaths(w, next)
  <2>1. next.item.do_work \in WalkFns /\ OtherFn(next.item.do_work) = "treewalk_statpath"
    BY <1>2, <1>5 DEF OtherFn, WalkFns
  <2>2. worker_sendrequest(w, next, 0, Buffer("treewalk_statpath", next.out))
    BY <1>8 DEF tw_sendpaths
  <2> QED BY <1>2, <1>3, <1>5, <1>6, <2>1, <2>2, OfferBuffer
<1> QED BY <1>1, <1>7, <1>8

(* A directory is closed. *)
LEMMA CloseDirTalks ==
  ASSUME TalkInv, NEW w \in Workers, CloseDir(w)
  PROVE  TalkInv'
<1> DEFINE s == wk[w]
           next == [s EXCEPT !.dip = FALSE, !.i = @ + 1, !.perf = perfstat_inc_counter(@, "dirs")]
<1>1. /\ Working(w, "treewalk_readdir") /\ s.dip /\ s.ents = <<>>
      /\ UNCHANGED <<o, manager, toWrk, toMgr, printed, statted>>
      /\ wk' = [wk EXCEPT ![w] = next]
  BY DEF CloseDir, OnlyWorker, Set
<1>2. /\ AtWork(w) /\ s \in Local /\ s.pc = "work" /\ Busy(s) /\ Reading(s)
      /\ s.item.do_work = "treewalk_readdir" /\ s.i \in Nat /\ s.i > 0 /\ Len(Todo(w)) \in Nat
  BY <1>1, InWalk DEF WalkFns
<1>3. OutputTypes' /\ UNCHANGED <<o, manager, toWrk, toMgr>>
  BY <1>1, Unprinted
<1>4. perfstat_inc_counter(s.perf, "dirs") \in Perf /\ s.i + 1 \in Nat \ {0}
  BY <1>2, LocalFields, PerfInc
<1>5. /\ next \in Local /\ next.pc = "work" /\ next.item = s.item /\ next.i = s.i + 1 /\ next.dip = FALSE
      /\ next.ents = s.ents /\ next.out = s.out /\ next.pair = s.pair /\ next.offer = s.offer
  BY <1>2, <1>4 DEF Local
<1> HIDE DEF next
<1>6. Busy(next)
  <2>1. Reading(next)
    BY <1>1, <1>2, <1>5 DEF Reading, Todo
  <2> QED BY <1>2, <1>5, <2>1 DEF Busy
<1> QED BY <1>1, <1>2, <1>3, <1>5, <1>6, WorkOn

(* The paths of the item are done: the rest of the buffer is offered, or *)
(* the item ends.                                                        *)
LEMMA WalkEndTalks ==
  ASSUME TalkInv, NEW w \in Workers, WalkEnd(w)
  PROVE  TalkInv'
<1> DEFINE s == wk[w]
<1>1. /\ \/ Working(w, "treewalk_statpath") /\ tw_senddirs(w, s)
         \/ Working(w, "treewalk_readdir") /\ tw_sendpaths(w, s)
         \/ /\ Working(w, "treewalk_statpath") \/ Working(w, "treewalk_readdir")
            /\ tw_senddone(w, s.perf)
      /\ UNCHANGED <<o, manager, toWrk, printed, statted>>
  BY DEF WalkEnd, OnlyWorker
<1>2. Working(w, "treewalk_statpath") \/ Working(w, "treewalk_readdir")
  BY <1>1
<1>3. AtWork(w) /\ s \in Local /\ s.pc = "work" /\ Busy(s) /\ s.perf \in Perf
  BY <1>2, InWalk, LocalFields DEF WalkFns
<1>4. OutputTypes' /\ UNCHANGED <<o, manager, toWrk>>
  BY <1>1, Unprinted
<1>5. CASE Working(w, "treewalk_statpath") /\ tw_senddirs(w, s)
  <2>1. s.item.do_work \in WalkFns /\ OtherFn(s.item.do_work) = "treewalk_readdir"
        /\ worker_sendrequest(w, s, 0, Buffer("treewalk_readdir", s.out))
    BY <1>5 DEF OtherFn, WalkFns, Working, tw_senddirs
  <2> QED BY <1>3, <1>4, <2>1, OfferBuffer
<1>6. CASE Working(w, "treewalk_readdir") /\ tw_sendpaths(w, s)
  <2>1. s.item.do_work \in WalkFns /\ OtherFn(s.item.do_work) = "treewalk_statpath"
        /\ worker_sendrequest(w, s, 0, Buffer("treewalk_statpath", s.out))
    BY <1>6 DEF OtherFn, WalkFns, Working, tw_sendpaths
  <2> QED BY <1>3, <1>4, <2>1, OfferBuffer
<1>7. CASE tw_senddone(w, s.perf)
  BY <1>3, <1>4, <1>7, SendDone
<1> QED BY <1>1, <1>5, <1>6, <1>7

(* The ways a compare can end. *)
LEMMA OutcomeIs ==
  ASSUME NEW pair, NEW outcome \in Outcomes(pair), NEW src, src = Src[pair.src],
         NEW dst, dst = Dest[pair.src], NEW sameSize, sameSize <=> Len(src.bytes) = Len(dst.bytes)
  PROVE  /\ outcome[2] \in BOOLEAN
         /\ \/ outcome[1] = "ok" /\ ~outcome[2] /\ dst.lstat = "absent"
            \/ /\ dst.lstat # "absent" /\ sameSize /\ ~o.meta_only
               /\ \/ outcome[1] = "ok" /\ (outcome[2] <=> SameContents(pair))
                  \/ outcome[1] = "open" /\ ~outcome[2]
                  \/ outcome[1] = "read" /\ outcome[2]
            \/ /\ dst.lstat # "absent" /\ ~(sameSize /\ ~o.meta_only)
               /\ outcome[1] = "ok" /\ (outcome[2] <=> sameSize /\ src.mtime = dst.mtime)
<1>1. CASE dst.lstat = "absent"
  <2>1. outcome = <<"ok", FALSE>>
    BY <1>1 DEF Outcomes
  <2> QED BY <1>1, <2>1
<1>2. CASE dst.lstat # "absent" /\ sameSize /\ ~o.meta_only
  <2>1. outcome \in {<<"ok", SameContents(pair)>>} \cup ({"open"} \cap o.faults) \X {FALSE}
                                                 \cup ({"read"} \cap o.faults) \X {TRUE}
    BY <1>2 DEF Outcomes
  <2>2. CASE outcome = <<"ok", SameContents(pair)>>
    <3>1. SameContents(pair) \in BOOLEAN
      BY DEF SameContents
    <3>2. outcome[1] = "ok" /\ outcome[2] = SameContents(pair)
      BY <2>2
    <3> QED BY <1>2, <3>1, <3>2
  <2>3. CASE outcome \in ({"open"} \cap o.faults) \X {FALSE}
    <3>1. outcome[1] = "open" /\ outcome[2] = FALSE
      BY <2>3
    <3> QED BY <1>2, <3>1
  <2>4. CASE outcome \in ({"read"} \cap o.faults) \X {TRUE}
    <3>1. outcome[1] = "read" /\ outcome[2] = TRUE
      BY <2>4
    <3> QED BY <1>2, <3>1
  <2> QED BY <2>1, <2>2, <2>3, <2>4
<1>3. CASE dst.lstat # "absent" /\ ~(sameSize /\ ~o.meta_only)
  <2>1. outcome = <<"ok", Len(src.bytes) = Len(dst.bytes) /\ src.mtime = dst.mtime>>
    BY <1>3 DEF Outcomes
  <2> DEFINE b == Len(src.bytes) = Len(dst.bytes) /\ src.mtime = dst.mtime
  <2>2. b \in BOOLEAN /\ (b <=> sameSize /\ src.mtime = dst.mtime)
    OBVIOUS
  <2> HIDE DEF b
  <2>3. outcome[1] = "ok" /\ outcome[2] = b
    BY <2>1 DEF b
  <2> QED BY <1>3, <2>2, <2>3
<1> QED BY <1>1, <1>2, <1>3

(* A part is compared and its outcome reported. *)
LEMMA CompareTalks ==
  ASSUME TalkInv, NEW w \in Workers, cmp_compare(w)
  PROVE  TalkInv'
<1> DEFINE done(outcome) ==
      LET pair == [wk[w].item.workdata EXCEPT !.matched = outcome[2]]
          compared == perfstat_inc_counter(perfstat_new, "compares")
          perf == IF pair.matched THEN perfstat_inc_counter(compared, "matched") ELSE compared
      IN [workitem_new(MANAGER_PROC) EXCEPT !.do_work = "cmp_workdone", !.manager_run = TRUE,
                                            !.workdata = FileWorkStat(pair, perf)]
<1>1. PICK outcome \in Outcomes(wk[w].item.workdata) :
        /\ SendToManager(<<done(outcome)>>, w) /\ wk' = [wk EXCEPT ![w] = Waiting]
        /\ UNCHANGED <<o, manager, toWrk, printed, statted>>
  BY DEF cmp_compare, Set
<1>2. Working(w, "cmp_compare")
  BY DEF cmp_compare
<1>3. AtWork(w) /\ wk[w].item \in Work /\ wk[w].item.do_work = "cmp_compare"
  BY <1>2, AtWorkWhen DEF Working
<1>4. wk[w].item.workdata \in PairData
  BY <1>3, Kinds DEF Work, WalkFns
<1>5. outcome[2] \in BOOLEAN
  <2> DEFINE src == Src[wk[w].item.workdata.src]
             dst == Dest[wk[w].item.workdata.src]
             sameSize == Len(src.bytes) = Len(dst.bytes)
  <2> HIDE DEF src, dst, sameSize
  <2>1. src = Src[wk[w].item.workdata.src] /\ dst = Dest[wk[w].item.workdata.src]
        /\ (sameSize <=> Len(src.bytes) = Len(dst.bytes))
    BY DEF src, dst, sameSize
  <2> QED BY <2>1, OutcomeIs
<1> DEFINE pair == [wk[w].item.workdata EXCEPT !.matched = outcome[2]]
           compared == perfstat_inc_counter(perfstat_new, "compares")
           perf == IF pair.matched THEN perfstat_inc_counter(compared, "matched") ELSE compared
<1>6. pair \in PairData
  BY <1>4, <1>5 DEF PairData
<1>7. perf \in Perf
  <2>1. perfstat_new \in Perf
    BY DEF perfstat_new, Perf
  <2> QED BY <2>1, PerfInc
<1> HIDE DEF pair, perf
<1>8. done(outcome) \in Done
  BY <1>6, <1>7, CompareDoneItem DEF pair, perf
<1> HIDE DEF done
<1>9. OutputTypes' /\ UNCHANGED <<o, manager, toWrk>>
  BY <1>1, Unprinted
<1> QED BY <1>1, <1>3, <1>8, <1>9, Finish

(***************************************************************************)
(* The conversation: what a worker receives.                               *)
(***************************************************************************)

LEMMA OnlyOne ==
  ASSUME NEW S, NEW s \in Seq(S), Len(s) = 1
  PROVE  s[1] \in S /\ s = <<s[1]>> /\ Head(s) = s[1] /\ Tail(s) = <<>>
<1>1. s[1] \in S /\ Head(s) = s[1] /\ Tail(s) \in Seq(S) /\ Len(Tail(s)) = 0
  OBVIOUS
<1>2. Tail(s) = <<>>
  <2> DEFINE r == Tail(s)
  <2>1. r \in Seq(S) /\ Len(r) = 0
    BY <1>1
  <2> HIDE DEF r
  <2>2. r = <<>>
    BY <2>1, EmptySeq
  <2> QED BY <2>2 DEF r
<1> DEFINE r == <<s[1]>>
<1>3. r \in Seq(S) /\ Len(r) = 1 /\ r[1] = s[1]
  BY <1>1
<1> HIDE DEF r
<1>4. r = s
  BY <1>3
<1> QED BY <1>1, <1>2, <1>4 DEF r

(* Work begins. *)
Begun(m) == [Waiting EXCEPT !.pc = "work", !.item = m]

(* The state of a worker that begins an item. *)
LEMMA BegunState ==
  ASSUME NEW m \in Work
  PROVE  /\ Begun(m) \in Local /\ Begun(m).pc = "work" /\ Begun(m).item = m /\ Begun(m).i = 1
         /\ Begun(m).dip = FALSE /\ Begun(m).ents = <<>> /\ Begun(m).out = <<>>
         /\ Begun(m).perf = perfstat_new /\ Begun(m).pair = NoData
         /\ Begun(m).offer = workitem_new(MANAGER_PROC) /\ Busy(Begun(m))
<1> DEFINE s == Begun(m)
<1>1. m \in Item
  BY DEF Work, Walk, Compare
<1>2. /\ s \in Local /\ s.pc = "work" /\ s.item = m /\ s.i = 1 /\ s.dip = FALSE /\ s.ents = <<>>
      /\ s.out = <<>> /\ s.perf = perfstat_new /\ s.pair = NoData
      /\ s.offer = workitem_new(MANAGER_PROC)
  BY <1>1, WaitingState DEF Begun, Local
<1> HIDE DEF s
<1>3. PathsOf(m) \in Seq(Path) /\ Len(PathsOf(m)) \in Nat
  <2>1. PathsOf(m) \in Seq(Path)
    BY <1>1, PathsOfItem
  <2> QED BY <2>1
<1>4. <<>> \in Seq(DOMAIN Entries)
  OBVIOUS
<1>5. Statting(s) \/ Reading(s) \/ Comparing(s)
  BY <1>2, <1>3, <1>4, Kinds DEF Statting, Reading, Comparing, Work, WalkFns
<1>6. Busy(s)
  BY <1>2, <1>5 DEF Busy
<1> QED BY <1>2, <1>6 DEF s

(* A waiting worker receives work and begins it, or is told to exit. *)
LEMMA ReceiveTalks ==
  ASSUME TalkInv, NEW w \in Workers, worker_receive(w)
  PROVE  /\ TalkInv'
         /\ \/ \E m \in Work : toWrk[w] = <<m>> /\ wk'[w] = Begun(m) /\ active[w]
            \/ toWrk[w] = <<Exit>> /\ Resting(wk'[w]) /\ ~active[w]
         /\ toWrk'[w] = <<>> /\ Resting(wk[w]) /\ toMgr[w] = <<>>
<1> DEFINE m == Head(toWrk[w])
<1>1. /\ wk[w].pc = "wait" /\ toWrk[w] # <<>> /\ toWrk' = [toWrk EXCEPT ![w] = Tail(@)]
      /\ wk' = [wk EXCEPT ![w] = IF m.do_work = "worker_exit"
                   THEN [Waiting EXCEPT !.pc = IF m.originator = MANAGER_PROC THEN "gone" ELSE "wait"]
                   ELSE Begun(m)]
      /\ UNCHANGED <<o, manager, toMgr, printed, statted>>
  BY DEF worker_receive, Set, OnlyWorker, Begun
<1>2. Free(w) \/ Given(w)
  BY <1>1 DEF TalkInv, InPhase, AtWork, Asking, Answered, Finished
<1>3. OutputTypes'
  BY <1>1, Unprinted
<1> DEFINE y == <<>>
<1>4. y \in Seq(Inbox) /\ y = <<>>
  OBVIOUS
<1> HIDE DEF y
<1>5. CASE Given(w)
  <2>1. Len(toWrk[w]) = 1 /\ toWrk[w][1] \in Work
    BY <1>5 DEF Given
  <2>2. toWrk[w] \in Seq(Inbox)
    BY OwnTypes
  <2>3. toWrk[w] = <<m>> /\ m \in Work /\ Tail(toWrk[w]) = <<>>
    BY <2>1, <2>2, OnlyOne
  <2> HIDE DEF m
  <2>4. m.do_work # "worker_exit"
    BY <2>3, Kinds DEF Work, WalkFns
  <2>5. wk' = [wk EXCEPT ![w] = Begun(m)]
    BY <1>1, <2>4
  <2>6. /\ Begun(m) \in Local /\ Begun(m).pc = "work" /\ Busy(Begun(m))
    BY <2>3, BegunState
  <2>7. toWrk' = [toWrk EXCEPT ![w] = y]
    BY <1>1, <1>4, <2>3
  <2>8. /\ toMgr'[w] = toMgr[w] /\ toWrk'[w] = y /\ wk'[w] = Begun(m) /\ active'[w] = active[w]
        /\ \A v : Handing(v)' <=> Handing(v)
        /\ InPhase(w)' => TalkInv'
    <3>1. UNCHANGED <<o, manager>> /\ y \in Seq(Inbox) /\ Begun(m) \in Local /\ OutputTypes'
      BY <1>1, <1>3, <1>4, <2>6
    <3>2. toMgr[w] \in Seq(Outbox) /\ toMgr' = [toMgr EXCEPT ![w] = toMgr[w]]
          /\ \A n \in 1..Len(toMgr[w]) : toMgr[w][n].originator = w
      BY <1>1, OwnTypes
    <3> QED BY <2>5, <2>7, <3>1, <3>2, OwnStep
  <2>9. toMgr[w] = <<>> /\ ~Handing(w) /\ active[w] /\ Resting(wk[w])
    BY <1>5 DEF Given
  <2>10. AtWork(w)'
    BY <1>4, <2>6, <2>8, <2>9 DEF AtWork, Told
  <2> QED BY <1>4, <2>3, <2>8, <2>9, <2>10 DEF InPhase
<1>6. CASE Free(w)
  <2>1. toWrk[w] = <<Exit>> /\ mgr.pc = "done" /\ toMgr[w] = <<>> /\ ~Handing(w) /\ ~active[w]
        /\ Resting(wk[w])
    BY <1>1, <1>6 DEF Free
  <2>2. m = Exit /\ Tail(toWrk[w]) = <<>>
    BY <2>1
  <2> DEFINE s == [Waiting EXCEPT !.pc = "gone"]
  <2>3. m.do_work = "worker_exit" /\ m.originator = MANAGER_PROC
    BY <2>2, ExitItem
  <2>4. wk' = [wk EXCEPT ![w] = s]
    BY <1>1, <2>3
  <2>5. s \in Local /\ Resting(s)
    BY WaitingState DEF Local, Resting
  <2> HIDE DEF s, m
  <2>6. toWrk' = [toWrk EXCEPT ![w] = y]
    BY <1>1, <1>4, <2>2
  <2>7. /\ toMgr'[w] = toMgr[w] /\ toWrk'[w] = y /\ wk'[w] = s /\ active'[w] = active[w]
        /\ \A v : Handing(v)' <=> Handing(v)
        /\ InPhase(w)' => TalkInv'
    <3>1. UNCHANGED <<o, manager>> /\ y \in Seq(Inbox) /\ s \in Local /\ OutputTypes'
      BY <1>1, <1>3, <1>4, <2>5
    <3>2. toMgr[w] \in Seq(Outbox) /\ toMgr' = [toMgr EXCEPT ![w] = toMgr[w]]
          /\ \A n \in 1..Len(toMgr[w]) : toMgr[w][n].originator = w
      BY <1>1, OwnTypes
    <3> QED BY <2>4, <2>6, <3>1, <3>2, OwnStep
  <2>8. Free(w)'
    BY <1>4, <2>1, <2>5, <2>7 DEF Free
  <2> QED BY <1>4, <2>1, <2>5, <2>7, <2>8 DEF InPhase
<1> QED BY <1>2, <1>5, <1>6

(* A worker that was told to exit stops. *)
LEMMA QuitTalks ==
  ASSUME TalkInv, NEW w \in Workers, worker_quit(w)
  PROVE  TalkInv' /\ Resting(wk[w]) /\ Resting(wk'[w])
<1> DEFINE s == [Waiting EXCEPT !.pc = "gone"]
<1>1. /\ wk[w].pc = "wait" /\ toWrk[w] = <<>> /\ wk' = [wk EXCEPT ![w] = s]
      /\ UNCHANGED <<o, manager, toMgr, toWrk, printed, statted>>
  BY DEF worker_quit, Set
<1>2. Free(w) \/ Finished(w)
  <2>1. ~Given(w)
    BY <1>1 DEF Given
  <2> QED BY <1>1, <2>1 DEF TalkInv, InPhase, AtWork, Asking, Answered
<1>3. s \in Local /\ Resting(s)
  BY WaitingState DEF Local, Resting
<1> HIDE DEF s
<1>4. OutputTypes'
  BY <1>1, Unprinted
<1>5. /\ toMgr'[w] = toMgr[w] /\ toWrk'[w] = toWrk[w] /\ wk'[w] = s /\ active'[w] = active[w]
      /\ \A v : Handing(v)' <=> Handing(v)
      /\ InPhase(w)' => TalkInv'
  BY <1>1, <1>3, <1>4, OwnStep, OwnTypes
<1>6. Resting(wk[w])
  BY <1>2 DEF Free, Finished
<1>7. Free(w) => Free(w)'
  BY <1>1, <1>3, <1>5 DEF Free
<1>8. Finished(w) => Finished(w)'
  <2>1. \A n : Told(w, n) => Told(w, n)'
    BY <1>5 DEF Told
  <2> QED BY <1>3, <1>5, <2>1 DEF Finished
<1> QED BY <1>2, <1>3, <1>5, <1>6, <1>7, <1>8 DEF InPhase

(* The state of a worker whose offer was accepted. *)
Accepted(s) ==
  [s EXCEPT !.pc = "work", !.offer = workitem_new(MANAGER_PROC), !.out = AfterSend(s.offer, @)]

(* A worker whose offer was accepted goes on without it. *)
LEMMA AcceptedState ==
  ASSUME NEW s \in Local, s.pc = "ack", Busy(s)
  PROVE  /\ Accepted(s) \in Local /\ Accepted(s).pc = "work" /\ Accepted(s).item = s.item
         /\ Accepted(s).i = s.i /\ Accepted(s).dip = s.dip /\ Accepted(s).ents = s.ents
         /\ Accepted(s).out = AfterSend(s.offer, s.out) /\ Accepted(s).perf = s.perf
         /\ Accepted(s).pair = s.pair /\ Accepted(s).offer = workitem_new(MANAGER_PROC)
         /\ Busy(Accepted(s))
<1> DEFINE t == Accepted(s)
           out == AfterSend(s.offer, s.out)
<1>1. out \in Seq(Path) /\ (s.out \in Seq(DOMAIN Entries) => out \in Seq(DOMAIN Entries))
  <2>1. s.out \in Seq(Path) /\ <<>> \in Seq(Path) /\ <<>> \in Seq(DOMAIN Entries)
    BY LocalFields
  <2>2. out = s.out \/ out = <<>>
    BY DEF AfterSend
  <2> HIDE DEF out
  <2> QED BY <2>1, <2>2
<1> HIDE DEF out
<1>2. /\ t \in Local /\ t.pc = "work" /\ t.item = s.item /\ t.i = s.i /\ t.dip = s.dip /\ t.ents = s.ents
      /\ t.out = out /\ t.perf = s.perf /\ t.pair = s.pair /\ t.offer = workitem_new(MANAGER_PROC)
  BY <1>1, NewItem DEF Local, Accepted, out
<1> HIDE DEF t
<1>3. Statting(t) \/ Reading(t)
  BY <1>1, <1>2 DEF Busy, Statting, Reading, Comparing
<1>4. Busy(t)
  BY <1>2, <1>3 DEF Busy
<1> QED BY <1>2, <1>4 DEF t, out

(* A worker is answered: it asks again, or hands over its offer and goes *)
(* on.                                                                   *)
LEMMA AnsweredTalks ==
  ASSUME TalkInv, NEW w \in Workers, worker_answered(w)
  PROVE  /\ TalkInv' /\ Answered(w) /\ wk[w] \in Local /\ Busy(wk[w]) /\ wk[w].pc = "ack"
         /\ \/ \E m \in Ask : UNCHANGED wk /\ toMgr'[w] = <<m>>
            \/ /\ wk'[w] = Accepted(wk[w])
               /\ \E m \in Work : toMgr'[w] = <<m>> /\ \A t : Weight(t, m) = Weight(t, wk[w].offer)
         /\ \E m \in Ask : toWrk[w] = <<m>>
         /\ toWrk'[w] = <<>>
<1> DEFINE m == Head(toWrk[w])
           secs == m.workdata.sleep_seconds
           sent == wk[w].offer
<1>1. /\ wk[w].pc = "ack" /\ toWrk[w] # <<>> /\ toWrk' = [toWrk EXCEPT ![w] = Tail(@)]
      /\ IF secs = 0
           THEN SendToManager(<<sent>>, w) /\ wk' = [wk EXCEPT ![w] = Accepted(wk[w])]
           ELSE SendToManager(<<Request(m.qidx, secs)>>, w) /\ UNCHANGED wk
      /\ UNCHANGED <<o, manager, printed, statted>>
  BY DEF worker_answered, Set, OnlyWorker, Accepted
<1>2. Answered(w)
  BY <1>1 DEF TalkInv, InPhase, Free, Given, AtWork, Asking, Finished, Resting
<1>3. active[w] /\ Busy(wk[w]) /\ toMgr[w] = <<>> /\ Len(toWrk[w]) = 1 /\ toWrk[w][1] \in Ask
      /\ (toWrk[w][1].workdata.sleep_seconds = 0 <=> Handing(w))
  BY <1>2 DEF Answered
<1>4. toWrk[w] \in Seq(Inbox) /\ wk[w] \in Local
  BY OwnTypes
<1>5. m = toWrk[w][1] /\ toWrk[w] = <<m>> /\ Tail(toWrk[w]) = <<>>
  BY <1>3, <1>4, OnlyOne
<1> HIDE DEF m
<1>6. m \in Ask /\ m \in Item /\ m.workdata \in RequestData /\ m.qidx \in {0, 1} /\ secs \in Nat
      /\ (secs = 0 <=> Handing(w))
  BY <1>3, <1>5, ItemFields, DataTypes DEF Ask
<1> DEFINE y == <<>>
<1>7. toWrk' = [toWrk EXCEPT ![w] = y]
  BY <1>1, <1>5
<1>8. y \in Seq(Inbox) /\ y = <<>>
  OBVIOUS
<1> HIDE DEF y
<1>9. OutputTypes'
  BY <1>1, Unprinted
<1>10. Len(toMgr[w]) = 0
  BY <1>3
<1>11. CASE secs = 0
  <2> DEFINE a == [sent EXCEPT !.originator = w]
             x == Append(toMgr[w], a)
  <2>1. sent \in Work /\ sent \in Outbox /\ sent \in Messages
    BY <1>1, <1>3 DEF Busy, Outbox, Messages
  <2>2. SendToManager(<<sent>>, w) /\ wk' = [wk EXCEPT ![w] = Accepted(wk[w])]
    BY <1>1, <1>11
  <2> HIDE DEF sent
  <2>3. toMgr' = [toMgr EXCEPT ![w] = x] /\ a.originator = w /\ a \in Outbox
    BY <2>1, <2>2, SendAppends
  <2>4. a \in Work /\ \A t : Weight(t, a) = Weight(t, sent)
    BY <2>1, SignedKind DEF Work
  <2> HIDE DEF a
  <2>5. x = Append(toMgr[w], a)
    OBVIOUS
  <2> HIDE DEF x
  <2>6. Longer(x, w, a)
    BY <2>3, <2>5, Extended
  <2>7. x \in Seq(Outbox) /\ x = <<a>> /\ \A n \in 1..Len(x) : x[n].originator = w
    BY <1>10, <2>6 DEF Longer
  <2>8. Accepted(wk[w]) \in Local /\ Accepted(wk[w]).pc = "work" /\ Busy(Accepted(wk[w]))
    BY <1>1, <1>3, <1>4, AcceptedState
  <2>9. /\ toMgr'[w] = x /\ toWrk'[w] = y /\ wk'[w] = Accepted(wk[w]) /\ active'[w] = active[w]
        /\ \A v : Handing(v)' <=> Handing(v)
        /\ InPhase(w)' => TalkInv'
    <3>1. /\ UNCHANGED <<o, manager>> /\ y \in Seq(Inbox) /\ Accepted(wk[w]) \in Local /\ OutputTypes'
          /\ toMgr' = [toMgr EXCEPT ![w] = x] /\ wk' = [wk EXCEPT ![w] = Accepted(wk[w])]
      BY <1>1, <1>8, <1>9, <2>2, <2>3, <2>8
    <3> QED BY <1>7, <2>7, <3>1, OwnStep
  <2>10. Len(x) = 1 /\ x[1] = a
    BY <2>7
  <2>11. Told(w, Len(toMgr[w]))'
    BY <1>6, <1>11, <2>4, <2>9, <2>10 DEF Told
  <2>12. AtWork(w)'
    BY <1>3, <1>8, <2>8, <2>9, <2>11 DEF AtWork
  <2> QED BY <1>1, <1>2, <1>3, <1>4, <1>5, <1>6, <1>8, <2>4, <2>7, <2>9, <2>12 DEF InPhase, sent
<1>12. CASE secs # 0
  <2> DEFINE r == Request(m.qidx, secs)
             a == [r EXCEPT !.originator = w]
             x == Append(toMgr[w], a)
  <2>1. r \in Ask /\ r \in Outbox /\ r \in Messages
    BY <1>6, RequestItem DEF Outbox, Messages
  <2>2. SendToManager(<<r>>, w) /\ UNCHANGED wk
    BY <1>1, <1>12
  <2> HIDE DEF r
  <2>3. toMgr' = [toMgr EXCEPT ![w] = x] /\ a.originator = w /\ a \in Outbox
    BY <2>1, <2>2, SendAppends
  <2>4. a \in Ask
    BY <2>1, SignedKind
  <2> HIDE DEF a
  <2>5. x = Append(toMgr[w], a)
    OBVIOUS
  <2> HIDE DEF x
  <2>6. Longer(x, w, a)
    BY <2>3, <2>5, Extended
  <2>7. x \in Seq(Outbox) /\ x = <<a>> /\ \A n \in 1..Len(x) : x[n].originator = w
    BY <1>10, <2>6 DEF Longer
  <2>8. wk' = [wk EXCEPT ![w] = wk[w]]
    BY <2>2, OwnTypes
  <2>9. /\ toMgr'[w] = x /\ toWrk'[w] = y /\ wk'[w] = wk[w] /\ active'[w] = active[w]
        /\ \A v : Handing(v)' <=> Handing(v)
        /\ InPhase(w)' => TalkInv'
    <3>1. /\ UNCHANGED <<o, manager>> /\ y \in Seq(Inbox) /\ wk[w] \in Local /\ OutputTypes'
          /\ toMgr' = [toMgr EXCEPT ![w] = x]
      BY <1>1, <1>4, <1>8, <1>9, <2>3
    <3> QED BY <1>7, <2>7, <2>8, <3>1, OwnStep
  <2>10. Len(x) = 1 /\ x[1] = a
    BY <2>7
  <2>11. Told(w, Len(toMgr[w]) - 1)'
    BY <1>6, <1>12, <2>9, <2>10 DEF Told
  <2>12. Asking(w)'
    BY <1>1, <1>3, <1>8, <2>4, <2>9, <2>10, <2>11 DEF Asking
  <2> QED BY <1>1, <1>2, <1>3, <1>4, <1>5, <1>6, <1>8, <2>2, <2>4, <2>7, <2>9, <2>12 DEF InPhase
<1> QED BY <1>11, <1>12

-----------------------------------------------------------------------------
(* Every step keeps the conversation. *)
LEMMA TalkStep == TalkInv /\ [Next]_vars => TalkInv'
<1> SUFFICES ASSUME TalkInv, [Next]_vars PROVE TalkInv'
  OBVIOUS
<1>1. CASE Manager
  BY <1>1, StartTalks, ManagerProbeTalks, ManagerAssignTalks, ManagerPollTalks, AckedWorkTalks,
     ManagerFiniTalks, ManagerRunTalks, AckworkTalks DEF Manager
<1>2. ASSUME NEW w \in Workers, Worker(w) \/ worker_quit(w) PROVE TalkInv'
  BY <1>2, ReceiveTalks, AnsweredTalks, StatDirTalks, StatFileTalks, SendPathsTalks, OpenDirTalks,
     ReadEntryTalks, CloseDirTalks, WalkEndTalks, CompareTalks, QuitTalks DEF Worker
<1>3. CASE UNCHANGED vars
  <2>1. UNCHANGED <<o, mgr, workq, active, chunktab, jobstats, toMgr, toWrk, wk, printed, statted>>
    BY <1>3 DEF vars, manager
  <2>2. TypeOK' /\ ManagerInv' /\ SendersInv'
    BY <2>1 DEF TalkInv, TypeOK, ManagerInv, SendersInv, Queues
  <2>3. \A v \in Workers : InPhase(v)'
    BY <2>1, PhaseKept DEF TalkInv, Handing
  <2> QED BY <2>2, <2>3 DEF TalkInv
<1> QED BY <1>1, <1>2, <1>3 DEF Next

(* The manager and each worker converse in phases: at any time a worker *)
(* is idle, given one item, at work, asking to hand over an item,       *)
(* answered or finished, never two of them, and the messages under way  *)
(* between the two are those of its phase (manager_run,                 *)
(* scheduler_ackwork, worker_sendrequest, worker_run).                  *)
THEOREM TalkSafe == Spec => []TalkInv
BY TalkInit, TalkStep, PTL DEF Spec

(***************************************************************************)
(* What a worker holds.                                                    *)
(***************************************************************************)

LEMMA OfNone ==
  /\ workitem_new(MANAGER_PROC).do_work \notin WalkFns
  /\ workitem_new(MANAGER_PROC).workdata.type = "none"
  /\ \A t : Weight(t, workitem_new(MANAGER_PROC)) = 0
BY Weightless, NewItem, DataTypes DEF WalkFns

(* A worker without an item holds no token. *)
LEMMA HeldResting ==
  ASSUME NEW s, Resting(s), NEW t
  PROVE  Held(t, s) = 0
<1>1. s.item = workitem_new(MANAGER_PROC)
  <2>1. s = [Waiting EXCEPT !.pc = s.pc]
    BY DEF Resting
  <2>2. [Waiting EXCEPT !.pc = s.pc].item = workitem_new(MANAGER_PROC)
    BY DEF Waiting
  <2> QED BY <2>1, <2>2
<1> QED BY <1>1, OfNone DEF Held

(* The parts left of a pair are a natural number. *)
LEMMA LeftNat ==
  ASSUME NEW t, NEW pair \in {NoData} \cup PairData, pair # NoData => pair.chunknum \in -1..nproc - 1
  PROVE  LeftWeight(t, pair) \in Nat
<1>1. nproc \in Nat
  BY Ranks
<1> QED BY <1>1 DEF LeftWeight, Bit

(* What a worker in a function of the walk holds, piece by piece. *)
LEMMA HeldWalk ==
  ASSUME NEW s \in Local, Busy(s), s.item.do_work \in WalkFns, s.pc \in {"work", "ack"}, NEW t
  PROVE  /\ Held(t, s) = PathsWeight(t, s.item.do_work, Rest(s)) + PathsWeight(t, "treewalk_statpath", s.ents)
                         + BufferHeld(t, s) + Weight(t, s.offer) + LeftWeight(t, s.pair)
                         + PerfWeight(t, s.perf) + Bit(s.dip /\ t = <<"dirs">>)
         /\ PathsWeight(t, s.item.do_work, Rest(s)) \in Nat
         /\ PathsWeight(t, "treewalk_statpath", s.ents) \in Nat
         /\ BufferHeld(t, s) \in Nat /\ Weight(t, s.offer) \in Nat /\ LeftWeight(t, s.pair) \in Nat
         /\ PerfWeight(t, s.perf) \in Nat /\ Bit(s.dip /\ t = <<"dirs">>) \in Nat
         /\ Held(t, s) \in Nat
<1>1. /\ Held(t, s) = PathsWeight(t, s.item.do_work, Rest(s)) + PathsWeight(t, "treewalk_statpath", s.ents)
                      + BufferHeld(t, s) + Weight(t, s.offer) + LeftWeight(t, s.pair)
                      + PerfWeight(t, s.perf) + Bit(s.dip /\ t = <<"dirs">>)
  BY DEF Held
<1>2. /\ s.item \in Item /\ s.i \in Nat /\ s.i > 0 /\ s.ents \in Seq(Path) /\ s.out \in Seq(Path)
      /\ s.perf \in Perf /\ s.pair \in {NoData} \cup PairData
  BY LocalFields
<1>3. PathsWeight(t, s.item.do_work, Rest(s)) \in Nat
  <2>1. PathsOf(s.item) \in Seq(Path)
    BY <1>2, PathsOfItem
  <2>2. Rest(s) \in Seq(Path)
    <3> DEFINE q == PathsOf(s.item)
               k == IF s.dip THEN s.i + 1 ELSE s.i
    <3>1. k \in Nat /\ k > 0 /\ q \in Seq(Path)
      BY <1>2, <2>1
    <3> HIDE DEF q, k
    <3>2. SubSeq(q, k, Len(q)) \in Seq(Path)
      BY <3>1
    <3> QED BY <3>2 DEF Rest, q, k
  <2> QED BY <2>2, PathsNat
<1>4. PathsWeight(t, "treewalk_statpath", s.ents) \in Nat
  BY <1>2, PathsNat
<1>5. BufferHeld(t, s) \in Nat
  BY <1>2, PathsNat DEF BufferHeld
<1>6. Weight(t, s.offer) \in Nat
  <2>1. s.offer \in Messages \/ s.offer = workitem_new(MANAGER_PROC)
    BY DEF Busy, Messages
  <2> QED BY <2>1, OfNone, WeightNat
<1>7. LeftWeight(t, s.pair) \in Nat
  <2>1. s.pair # NoData => s.pair.chunknum \in -1..nproc - 1
    BY DEF Busy, Statting, Reading, Comparing, WalkFns
  <2> QED BY <1>2, <2>1, LeftNat
<1>8. PerfWeight(t, s.perf) \in Nat /\ Bit(s.dip /\ t = <<"dirs">>) \in Nat
  BY <1>2, PerfWeightNat DEF Bit
<1> HIDE DEF Bit
<1> QED BY <1>1, <1>3, <1>4, <1>5, <1>6, <1>7, <1>8

(* So are the tokens a worker holds, *)
LEMMA HeldNat ==
  ASSUME NEW s \in Local, Resting(s) \/ (Busy(s) /\ s.pc \in {"work", "ack"}), NEW t
  PROVE  Held(t, s) \in Nat
<1>1. CASE Resting(s)
  BY <1>1, HeldResting
<1>2. CASE Busy(s) /\ s.pc \in {"work", "ack"} /\ s.item.do_work \in WalkFns
  BY <1>2, HeldWalk
<1>3. CASE Busy(s) /\ s.item.do_work \notin WalkFns
  <2>1. Held(t, s) = Weight(t, s.item) /\ s.item \in Messages
    BY <1>3 DEF Held, Busy, Messages
  <2> QED BY <2>1, WeightNat
<1> QED BY <1>1, <1>2, <1>3

(* those of a worker with its messages, *)
LEMMA WithNat ==
  ASSUME TalkInv, NEW w \in Workers, NEW t
  PROVE  /\ Held(t, wk[w]) \in Nat /\ ItemsWeight(t, toMgr[w]) \in Nat /\ ItemsWeight(t, toWrk[w]) \in Nat
         /\ With(t, w) \in Nat
<1>1. wk[w] \in Local /\ toMgr[w] \in Seq(Outbox) /\ toWrk[w] \in Seq(Inbox)
  BY OwnTypes
<1>2. Resting(wk[w]) \/ (Busy(wk[w]) /\ wk[w].pc \in {"work", "ack"})
  BY DEF TalkInv, InPhase, Free, Given, AtWork, Asking, Answered, Finished
<1>3. Outbox \subseteq Messages /\ Inbox \subseteq Messages
  BY DEF Outbox, Inbox, Messages
<1>4. toMgr[w] \in Seq(Messages) /\ toWrk[w] \in Seq(Messages)
  BY <1>1, <1>3
<1>5. Held(t, wk[w]) \in Nat /\ ItemsWeight(t, toMgr[w]) \in Nat /\ ItemsWeight(t, toWrk[w]) \in Nat
  BY <1>1, <1>2, <1>4, HeldNat, ItemsNat
<1> QED BY <1>5 DEF With

(* those of a queue, *)
LEMMA QueuedNat ==
  ASSUME TalkInv, NEW t, NEW q
  PROVE  Queued(t, q) \in Nat
<1>1. q \in Queues => workq[q] \in Seq(Messages)
  <2>1. Work \subseteq Messages
    BY DEF Messages
  <2> QED BY <2>1 DEF TalkInv, TypeOK
<1> QED BY <1>1, ItemsNat DEF Queued

(* and all tokens, of which each worker has at most all. *)
LEMMA AllNat ==
  ASSUME TalkInv, NEW t
  PROVE  /\ All(t) \in Nat /\ Queued(t, 0) \in Nat /\ Queued(t, 1) \in Nat
         /\ Total([w \in Workers |-> With(t, w)], nproc - 1) \in Nat
         /\ \A w \in Workers : With(t, w) <= All(t)
<1> DEFINE f == [w \in Workers |-> With(t, w)]
           n == nproc - 1
<1>1. n \in Nat /\ Workers = 1..n
  BY Ranks
<1>2. \A i \in 1..n : f[i] \in Nat /\ f[i] <= f[i] /\ f[i] = With(t, i)
  BY <1>1, WithNat
<1> HIDE DEF f, n
<1>3. Total(f, n) \in Nat
  BY <1>1, <1>2, TotalBound
<1>4. \A i \in 1..n : f[i] <= Total(f, n)
  BY <1>1, <1>2, TotalAtLeast
<1>5. Queued(t, 0) \in Nat /\ Queued(t, 1) \in Nat
  BY QueuedNat
<1>6. All(t) = Total(f, n) + Queued(t, 0) + Queued(t, 1)
  BY DEF All, f, n
<1>7. \A w \in Workers : With(t, w) <= All(t)
  BY <1>1, <1>2, <1>3, <1>4, <1>5, <1>6
<1>8. All(t) \in Nat
  BY <1>3, <1>5, <1>6
<1> QED BY <1>3, <1>5, <1>7, <1>8 DEF f, n

(***************************************************************************)
(* How tokens move.                                                        *)
(***************************************************************************)

LEMMA WithNats == TalkInv => \A t : \A w \in Workers : With(t, w) \in Nat
BY WithNat

(* The same of the next state. *)
LEMMA WithNatsNext == TalkInv' => (\A t : \A w \in Workers : With(t, w) \in Nat)'
BY WithNats, PTL

(* The tokens of the workers, and those of the queues. *)
Sum(t) == Total([v \in Workers |-> With(t, v)], nproc - 1)

InQueues(t) == Queued(t, 0) + Queued(t, 1)

(* All tokens are natural numbers, *)
LEMMA AllNats == TalkInv => \A t : All(t) \in Nat /\ Sum(t) \in Nat /\ InQueues(t) \in Nat
<1> SUFFICES ASSUME TalkInv, NEW t PROVE All(t) \in Nat /\ Sum(t) \in Nat /\ InQueues(t) \in Nat
  OBVIOUS
<1>1. Queued(t, 0) \in Nat /\ Queued(t, 1) \in Nat
  BY AllNat
<1>2. Queued(t, 0) + Queued(t, 1) \in Nat
  BY <1>1
<1>3. All(t) \in Nat /\ Sum(t) \in Nat
  BY AllNat DEF Sum
<1> QED BY <1>2, <1>3 DEF InQueues

(* in the next state too. *)
LEMMA AllNatsNext == TalkInv' => (\A t : All(t) \in Nat /\ Sum(t) \in Nat /\ InQueues(t) \in Nat)'
BY AllNats, PTL

(* All tokens are with the workers or in the queues, *)
LEMMA AllSum == TalkInv => \A t : All(t) = Sum(t) + InQueues(t)
<1> SUFFICES ASSUME TalkInv, NEW t PROVE All(t) = Sum(t) + InQueues(t)
  OBVIOUS
<1>1. Queued(t, 0) \in Nat /\ Queued(t, 1) \in Nat /\ Sum(t) \in Nat
  BY AllNat DEF Sum
<1>2. All(t) = Sum(t) + Queued(t, 0) + Queued(t, 1)
  BY DEF All, Sum
<1> QED BY <1>1, <1>2 DEF InQueues

(* in the next state too. *)
LEMMA AllSumNext == TalkInv' => (\A t : All(t) = Sum(t) + InQueues(t))'
BY AllSum, PTL

(* One worker and its messages change. *)
LEMMA SumChange ==
  ASSUME TalkInv, TalkInv', NEW w \in Workers, NEW t,
         \A v \in Workers : v # w => toMgr'[v] = toMgr[v] /\ toWrk'[v] = toWrk[v] /\ wk'[v] = wk[v]
  PROVE  Sum(t)' - With(t, w)' = Sum(t) - With(t, w)
<1> DEFINE f == [v \in Workers |-> With(t, v)]
           g == [v \in Workers |-> With(t, v)']
           n == nproc - 1
<1>1. n \in Nat /\ Workers = 1..n /\ w \in 1..n
  BY Ranks
<1>2. ASSUME NEW v \in Workers PROVE With(t, v) \in Nat /\ With(t, v)' \in Nat
  BY WithNats, WithNatsNext
<1>3. \A v \in Workers : v # w => With(t, v)' = With(t, v)
  BY DEF With
<1>4. \A i \in 1..n : f[i] \in Int /\ g[i] \in Int /\ f[i] = With(t, i) /\ g[i] = With(t, i)'
  BY <1>1, <1>2
<1>5. \A i \in 1..n : i # w => g[i] = f[i]
  BY <1>1, <1>3
<1> HIDE DEF n
<1>6. Total(g, n) - g[w] = Total(f, n) - f[w]
  <2> HIDE DEF f, g
  <2> QED BY <1>1, <1>4, <1>5, TotalChange
<1>7. g = [v \in Workers |-> With(t, v)]'
  OBVIOUS
<1>8. g[w] = With(t, w)' /\ f[w] = With(t, w)
  OBVIOUS
<1> HIDE DEF g, f
<1> QED BY <1>6, <1>7, <1>8 DEF n, f, Sum

(* A queue that does not change keeps its tokens. *)
LEMMA QueuedSame ==
  ASSUME UNCHANGED <<o, workq>>
  PROVE  \A t, q : Queued(t, q)' = Queued(t, q)
BY DEF Queued, Queues

(* What a worker step adds to all tokens, it adds to that worker and its *)
(* messages.                                                             *)
LEMMA WorkerFlow ==
  ASSUME TalkInv, TalkInv', NEW w \in Workers, UNCHANGED <<o, workq>>,
         \A v \in Workers : v # w => toMgr'[v] = toMgr[v] /\ toWrk'[v] = toWrk[v] /\ wk'[v] = wk[v]
  PROVE  \A t : /\ All(t)' - All(t) = With(t, w)' - With(t, w)
                /\ All(t)' \in Nat /\ All(t) \in Nat /\ With(t, w)' \in Nat /\ With(t, w) \in Nat
<1> SUFFICES ASSUME NEW t
             PROVE  /\ All(t)' - All(t) = With(t, w)' - With(t, w)
                    /\ All(t)' \in Nat /\ All(t) \in Nat /\ With(t, w)' \in Nat /\ With(t, w) \in Nat
  OBVIOUS
<1>1. Sum(t)' - With(t, w)' = Sum(t) - With(t, w)
  BY SumChange
<1>2. InQueues(t)' = InQueues(t)
  BY QueuedSame DEF InQueues
<1>3. All(t) = Sum(t) + InQueues(t) /\ All(t)' = Sum(t)' + InQueues(t)'
  BY AllSum, AllSumNext
<1>4. /\ Sum(t) \in Nat /\ Sum(t)' \in Nat /\ With(t, w) \in Nat /\ With(t, w)' \in Nat
      /\ InQueues(t) \in Nat /\ All(t) \in Nat /\ All(t)' \in Nat
  BY WithNats, WithNatsNext, AllNats, AllNatsNext
<1> QED BY <1>1, <1>2, <1>3, <1>4

(* Nothing moves. *)
LEMMA StillFlow ==
  ASSUME UNCHANGED <<o, workq, toMgr, toWrk, wk>>
  PROVE  \A t : All(t)' = All(t)
BY DEF All, With, Queued, Queues

(***************************************************************************)
(* The manager's steps.                                                    *)
(***************************************************************************)

QueueWeight(t, queues, q) == IF q \in Queues THEN ItemsWeight(t, queues[q]) ELSE 0

QueuesWeight(t, queues) == QueueWeight(t, queues, 0) + QueueWeight(t, queues, 1)

(* The tokens of the queues, as a function of the queues. *)
LEMMA QueuesIs == \A t : InQueues(t) = QueuesWeight(t, workq)
BY DEF InQueues, Queued, QueuesWeight, QueueWeight

(* A queue loses or gains an item. *)
LEMMA QueuesChange ==
  ASSUME NEW t, NEW queues \in [Queues -> Seq(Messages)], NEW new \in [Queues -> Seq(Messages)],
         NEW k \in Queues, \A q \in Queues : q # k => new[q] = queues[q]
  PROVE  /\ QueuesWeight(t, new) - ItemsWeight(t, new[k]) = QueuesWeight(t, queues) - ItemsWeight(t, queues[k])
         /\ QueuesWeight(t, queues) \in Nat /\ QueuesWeight(t, new) \in Nat
<1>1. \A q \in Queues : ItemsWeight(t, queues[q]) \in Nat /\ ItemsWeight(t, new[q]) \in Nat
  BY ItemsNat
<1>2. k \in {0, 1}
  BY QueueNumbers
<1>3. \A q \in {0, 1} : QueueWeight(t, queues, q) \in Nat /\ QueueWeight(t, new, q) \in Nat
  BY <1>1 DEF QueueWeight
<1>4. \A q \in {0, 1} : q # k => QueueWeight(t, queues, q) = QueueWeight(t, new, q)
  BY DEF QueueWeight
<1>5. QueueWeight(t, queues, k) = ItemsWeight(t, queues[k]) /\ QueueWeight(t, new, k) = ItemsWeight(t, new[k])
  BY DEF QueueWeight
<1>6. CASE k = 0
  BY <1>3, <1>4, <1>5, <1>6 DEF QueuesWeight
<1>7. CASE k = 1
  BY <1>3, <1>4, <1>5, <1>7 DEF QueuesWeight
<1> QED BY <1>2, <1>6, <1>7

(* scheduler_getwork moves an item from a queue to a message. *)
LEMMA GetworkFlow ==
  ASSUME TalkInv, TalkInv', NEW queues, queues \in [Queues -> Seq(Work)], NEW k \in Queues,
         queues[k] # <<>>, Idle # {}, scheduler_getwork(queues), UNCHANGED <<o, toMgr, wk>>
  PROVE  \A t : All(t)' = Sum(t) + QueuesWeight(t, queues)
<1> SUFFICES ASSUME NEW t
             PROVE  All(t)' = Sum(t) + QueuesWeight(t, queues)
  OBVIOUS
<1>1. PICK w \in Workers : w = processing_get_idle
  BY LowestIdle
<1>2. PICK q \in Queues : q = GetFrom(queues) /\ queues[q] # <<>>
  BY HighestQueue
<1> DEFINE m == [Head(queues[q]) EXCEPT !.originator = MANAGER_PROC]
<1>3. /\ workq' = [queues EXCEPT ![q] = Tail(queues[q])]
      /\ toWrk' = [toWrk EXCEPT ![w] = Append(toWrk[w], m)]
  BY <1>1, <1>2 DEF scheduler_getwork, GetFrom, SendToWorker
<1>4. Head(queues[q]) \in Work /\ Tail(queues[q]) \in Seq(Work)
  BY <1>2
<1>5. m \in Work /\ Weight(t, m) = Weight(t, Head(queues[q]))
  BY <1>4, SignedKind DEF Messages, Work
<1> HIDE DEF m
<1>6. Work \subseteq Messages /\ Inbox \subseteq Messages
  BY DEF Messages, Inbox
<1>7. /\ queues \in [Queues -> Seq(Messages)] /\ workq' \in [Queues -> Seq(Messages)]
      /\ workq'[q] = Tail(queues[q]) /\ \A j \in Queues : j # q => workq'[j] = queues[j]
  BY <1>2, <1>3, <1>4, <1>6
<1>8. ItemsWeight(t, queues[q]) = Weight(t, m) + ItemsWeight(t, workq'[q])
  BY <1>2, <1>5, <1>7, ItemsHead
<1>9. /\ QueuesWeight(t, workq') - ItemsWeight(t, workq'[q]) = QueuesWeight(t, queues) - ItemsWeight(t, queues[q])
      /\ QueuesWeight(t, queues) \in Nat /\ QueuesWeight(t, workq') \in Nat
  BY <1>2, <1>7, QueuesChange
<1>10. ItemsWeight(t, workq'[q]) \in Nat /\ ItemsWeight(t, queues[q]) \in Nat /\ Weight(t, m) \in Nat
  BY <1>2, <1>5, <1>6, <1>7, ItemsNat, WeightNat
<1>11. /\ \A v \in Workers : v # w => toMgr'[v] = toMgr[v] /\ toWrk'[v] = toWrk[v] /\ wk'[v] = wk[v]
       /\ toWrk'[w] = Append(toWrk[w], m) /\ toMgr'[w] = toMgr[w] /\ wk'[w] = wk[w]
  BY <1>1, <1>3 DEF TalkInv, TypeOK
<1>12. Sum(t)' - With(t, w)' = Sum(t) - With(t, w)
  BY <1>1, <1>11, SumChange
<1>13. ItemsWeight(t, toWrk'[w]) = ItemsWeight(t, toWrk[w]) + Weight(t, m)
  <2>1. toWrk[w] \in Seq(Messages)
    BY <1>1, <1>6, OwnTypes
  <2> QED BY <1>5, <1>6, <1>11, <2>1, ItemsAppend
<1>14. With(t, w)' = With(t, w) + Weight(t, m)
  <2>1. Held(t, wk[w]) \in Nat /\ ItemsWeight(t, toMgr[w]) \in Nat /\ ItemsWeight(t, toWrk[w]) \in Nat
    BY <1>1, WithNat
  <2> QED BY <1>10, <1>11, <1>13, <2>1 DEF With
<1>15. InQueues(t)' = QueuesWeight(t, workq')
  BY DEF InQueues, Queued, QueuesWeight, QueueWeight, Queues
<1>16. All(t)' = Sum(t)' + InQueues(t)'
  BY AllSumNext
<1>17. Sum(t) \in Nat /\ Sum(t)' \in Nat /\ With(t, w) \in Nat
  BY <1>1, AllNats, AllNatsNext, WithNats
<1>18. Sum(t)' = Sum(t) + Weight(t, m)
  <2> DEFINE x == Weight(t, m)
  <2>1. x \in Nat /\ With(t, w)' = With(t, w) + x /\ With(t, w)' \in Nat
    BY <1>10, <1>14, <1>17
  <2> HIDE DEF x
  <2>2. Sum(t)' = Sum(t) + x
    BY <1>12, <1>17, <2>1
  <2> QED BY <2>2 DEF x
<1>19. QueuesWeight(t, workq') + Weight(t, m) = QueuesWeight(t, queues)
  <2> DEFINE a == ItemsWeight(t, workq'[q])
             b == ItemsWeight(t, queues[q])
             c == QueuesWeight(t, workq')
             d == QueuesWeight(t, queues)
             x == Weight(t, m)
  <2>1. /\ b = x + a /\ c - a = d - b
        /\ a \in Nat /\ b \in Nat /\ c \in Nat /\ d \in Nat /\ x \in Nat
    BY <1>8, <1>9, <1>10
  <2> HIDE DEF a, b, c, d, x
  <2>2. c + x = d
    BY <2>1
  <2> QED BY <2>2 DEF c, d, x
<1> QED BY <1>9, <1>10, <1>15, <1>16, <1>17, <1>18, <1>19

(* Giving out work moves its tokens and loses none. *)
LEMMA ManagerAssignFlow ==
  ASSUME TalkInv, TalkInv', ManagerAssign
  PROVE  \A t : All(t)' = All(t)
<1>1. PICK k \in Queues : workq[k] # <<>>
  BY DEF ManagerAssign, scheduler_canAssignWork, WorkQueued
<1>2. workq \in [Queues -> Seq(Work)]
  BY DEF TalkInv, TypeOK
<1>3. Idle # {} /\ scheduler_getwork(workq) /\ UNCHANGED <<o, toMgr, wk>>
  BY DEF ManagerAssign, scheduler_canAssignWork
<1>4. \A t : All(t)' = Sum(t) + QueuesWeight(t, workq)
  BY <1>1, <1>2, <1>3, GetworkFlow
<1> QED BY <1>4, AllSum, QueuesIs

(* startwork makes one token of every start path. *)
LEMMA StartFlow ==
  ASSUME TalkInv, TalkInv', startwork
  PROVE  \A t : All(t) = 0 /\ All(t)' = PathsWeight(t, "treewalk_statpath", o.roots)
<1> DEFINE items == [n \in 1..Len(o.roots) |-> StartItem(o.roots[n])]
           queues == scheduler_addwork(workq, items)
<1>1. mgr.pc = "init" /\ (\A q \in Queues : workq[q] = <<>>) /\ \A w \in Workers : ~active[w]
  BY DEF startwork, TalkInv, ManagerInv
<1>2. o.roots \in Seq(Path) /\ o.roots # <<>>
  BY JobAssumption DEF TalkInv, TypeOK
<1>3. ASSUME NEW p \in Path
      PROVE  StartItem(p) \in Work /\ \A t : Weight(t, StartItem(p)) = PathWeight(t, "treewalk_statpath", p)
  <2> DEFINE m == StartItem(p)
             r == <<p>>
  <2>1. r \in Seq(Path) /\ r # <<>> /\ Head(r) = p /\ Tail(r) = <<>>
    OBVIOUS
  <2>2. /\ m \in Item /\ m.do_work = "treewalk_statpath" /\ m.manager_run = FALSE
        /\ m.workdata = NoData /\ m.path = r
    BY <2>1 DEF StartItem, workitem_new, Item, ItemFns
  <2> HIDE DEF m, r
  <2>3. m \in Walk /\ PathsOf(m) = r
    BY <2>2, DataTypes DEF Walk, WalkFns, PathsOf
  <2>4. \A t : PathsWeight(t, "treewalk_statpath", r) = PathWeight(t, "treewalk_statpath", p)
    <3> SUFFICES ASSUME NEW t PROVE PathsWeight(t, "treewalk_statpath", r) = PathWeight(t, "treewalk_statpath", p)
      OBVIOUS
    <3>1. PathsWeight(t, "treewalk_statpath", r) = PathWeight(t, "treewalk_statpath", p) + PathsWeight(t, "treewalk_statpath", <<>>)
      BY <2>1, PathsHead
    <3> QED BY <3>1, PathsNone, PathWeightNat
  <2>5. \A t : Weight(t, m) = PathsWeight(t, "treewalk_statpath", r)
    BY <2>2, <2>3 DEF Weight, WalkFns
  <2> QED BY <2>3, <2>4, <2>5 DEF m, Work
<1>4. items \in Seq(Work) /\ items # <<>> /\ Len(items) = Len(o.roots)
      /\ \A n \in 1..Len(o.roots) : items[n] = StartItem(o.roots[n])
  <2>1. \A n \in 1..Len(o.roots) : StartItem(o.roots[n]) \in Work
    BY <1>2, <1>3
  <2>2. Len(o.roots) \in Nat /\ Len(o.roots) > 0
    BY <1>2
  <2>3. items \in Seq(Work) /\ Len(items) = Len(o.roots)
        /\ \A n \in 1..Len(o.roots) : items[n] = StartItem(o.roots[n])
    BY <2>1, <2>2
  <2> HIDE DEF items
  <2> QED BY <2>2, <2>3
<1> HIDE DEF items
<1>5. queues = [workq EXCEPT ![0] = workq[0] \o items] /\ workq \in [Queues -> Seq(Work)] /\ 0 \in Queues
  BY QueueNumbers DEF scheduler_addwork, TalkInv, TypeOK
<1>6. workq[0] \o items = items
  BY <1>1, <1>4, <1>5
<1>7. queues \in [Queues -> Seq(Work)] /\ queues[0] = items /\ \A q \in Queues : q # 0 => queues[q] = <<>>
  BY <1>1, <1>4, <1>5, <1>6
<1>8. Idle # {} /\ scheduler_getwork(queues) /\ UNCHANGED <<o, toMgr, wk>>
  BY <1>1, Ranks DEF Idle, startwork, items
<1> HIDE DEF queues
<1>9. \A t : All(t)' = Sum(t) + QueuesWeight(t, queues)
  BY <1>4, <1>5, <1>7, <1>8, GetworkFlow
<1>10. ASSUME NEW t PROVE Sum(t) = 0 /\ All(t) = 0
  <2> DEFINE f == [v \in Workers |-> With(t, v)]
             n == nproc - 1
  <2>1. ASSUME NEW v \in Workers PROVE With(t, v) = 0
    <3>1. Resting(wk[v]) /\ toMgr[v] = <<>> /\ toWrk[v] = <<>>
      BY <1>1 DEF TalkInv, InPhase, Free, Given, AtWork, Asking, Answered, Finished
    <3> QED BY <3>1, HeldResting, ItemsNone DEF With
  <2>2. n \in Nat /\ Workers = 1..n
    BY Ranks
  <2>3. \A i \in 1..n : f[i] = 0
    BY <2>1, <2>2
  <2> HIDE DEF f, n
  <2>4. Total(f, n) = 0
    BY <2>2, <2>3, TotalZero
  <2>5. InQueues(t) = 0
    <3>1. \A q : Queued(t, q) = 0
      BY <1>1, ItemsNone DEF Queued
    <3> QED BY <3>1 DEF InQueues
  <2>6. Sum(t) = 0
    BY <2>4 DEF Sum, f, n
  <2> QED BY <2>5, <2>6, AllSum
<1>11. ASSUME NEW t PROVE QueuesWeight(t, queues) = ItemsWeight(t, items)
  <2>1. items \in Seq(Messages)
    <3>1. Work \subseteq Messages
      BY DEF Messages
    <3> QED BY <1>4, <3>1
  <2>2. ItemsWeight(t, items) \in Nat
    BY <2>1, ItemsNat
  <2>3. QueueWeight(t, queues, 0) = ItemsWeight(t, items)
    BY <1>5, <1>7 DEF QueueWeight
  <2>4. QueueWeight(t, queues, 1) = 0
    <3>1. CASE 1 \in Queues
      <4>1. queues[1] = <<>>
        BY <1>7, <3>1
      <4> QED BY <3>1, <4>1, ItemsNone DEF QueueWeight
    <3> QED BY <3>1 DEF QueueWeight
  <2> QED BY <2>2, <2>3, <2>4 DEF QueuesWeight
<1>12. ASSUME NEW t PROVE ItemsWeight(t, items) = PathsWeight(t, "treewalk_statpath", o.roots)
  <2> DEFINE f == [n \in 1..Len(items) |-> Weight(t, items[n])]
             g == [i \in 1..Len(o.roots) |-> PathWeight(t, "treewalk_statpath", o.roots[i])]
             n == Len(o.roots)
  <2>1. n \in Nat /\ \A i \in 1..n : g[i] \in Int /\ f[i] = g[i]
    BY <1>2, <1>3, <1>4, PathWeightNat
  <2> HIDE DEF f, g, n
  <2>2. Total(f, n) = Total(g, n)
    BY <2>1, TotalSame
  <2> QED BY <1>4, <2>2 DEF ItemsWeight, PathsWeight, f, g, n
<1>13. ASSUME NEW t PROVE PathsWeight(t, "treewalk_statpath", o.roots) \in Nat
  BY <1>2, PathsNat
<1> QED BY <1>9, <1>10, <1>11, <1>12, <1>13

-----------------------------------------------------------------------------
(* The manager takes the tokens of the message it receives. *)
LEMMA TakeMessage ==
  ASSUME TalkInv, NEW w \in Workers, toMgr[w] # <<>>
  PROVE  \A t : /\ ItemsWeight(t, toMgr[w]) = Weight(t, Head(toMgr[w])) + ItemsWeight(t, Tail(toMgr[w]))
                /\ ItemsWeight(t, Tail(toMgr[w])) \in Nat /\ Weight(t, Head(toMgr[w])) \in Nat
<1> SUFFICES ASSUME NEW t
             PROVE  /\ ItemsWeight(t, toMgr[w]) = Weight(t, Head(toMgr[w])) + ItemsWeight(t, Tail(toMgr[w]))
                    /\ ItemsWeight(t, Tail(toMgr[w])) \in Nat /\ Weight(t, Head(toMgr[w])) \in Nat
  OBVIOUS
<1>1. toMgr[w] \in Seq(Messages)
  BY Sending
<1>2. Head(toMgr[w]) \in Messages /\ Tail(toMgr[w]) \in Seq(Messages)
  BY <1>1
<1> QED BY <1>1, <1>2, ItemsHead, ItemsNat, WeightNat

(* A message the manager runs takes its tokens with it. *)
LEMMA ManagerRunFlow ==
  ASSUME TalkInv, TalkInv', NEW w \in Workers, ManagerRun(w)
  PROVE  \A t : /\ All(t)' + Weight(t, Head(toMgr[w])) = All(t)
                /\ With(t, w)' + Weight(t, Head(toMgr[w])) = With(t, w)
                /\ ItemsWeight(t, toMgr'[w]) + Weight(t, Head(toMgr[w])) = ItemsWeight(t, toMgr[w])
                /\ Weight(t, Head(toMgr[w])) \in Nat
<1> DEFINE m == Head(toMgr[w])
<1>1. /\ toMgr[w] # <<>> /\ toMgr' = [toMgr EXCEPT ![w] = Tail(@)]
      /\ UNCHANGED <<o, workq, toWrk, wk>>
  BY DEF ManagerRun
<1> SUFFICES ASSUME NEW t
             PROVE  /\ All(t)' + Weight(t, m) = All(t) /\ With(t, w)' + Weight(t, m) = With(t, w)
                    /\ ItemsWeight(t, toMgr'[w]) + Weight(t, m) = ItemsWeight(t, toMgr[w])
                    /\ Weight(t, m) \in Nat
  OBVIOUS
<1>2. /\ toMgr'[w] = Tail(toMgr[w]) /\ toWrk'[w] = toWrk[w] /\ wk'[w] = wk[w]
      /\ \A v \in Workers : v # w => toMgr'[v] = toMgr[v] /\ toWrk'[v] = toWrk[v] /\ wk'[v] = wk[v]
  BY <1>1 DEF TalkInv, TypeOK
<1>3. /\ All(t)' - All(t) = With(t, w)' - With(t, w)
      /\ All(t)' \in Nat /\ All(t) \in Nat /\ With(t, w)' \in Nat /\ With(t, w) \in Nat
  BY <1>1, <1>2, WorkerFlow
<1> DEFINE h == Held(t, wk[w])
           c == ItemsWeight(t, toWrk[w])
           x == Weight(t, m)
           r == ItemsWeight(t, Tail(toMgr[w]))
           i == ItemsWeight(t, toMgr[w])
<1>4. h \in Nat /\ c \in Nat /\ i \in Nat
  BY WithNat
<1>5. i = x + r /\ x \in Nat /\ r \in Nat
  BY <1>1, TakeMessage
<1>6. With(t, w)' = h + r + c /\ With(t, w) = h + i + c /\ ItemsWeight(t, toMgr'[w]) = r
  BY <1>2 DEF With
<1> HIDE DEF h, c, x, r, i
<1>7. With(t, w)' + x = With(t, w)
  BY <1>4, <1>5, <1>6
<1>8. All(t)' + x = All(t)
  <2> DEFINE a == All(t)'
             b == All(t)
             u == With(t, w)'
             v == With(t, w)
  <2>1. /\ a - b = u - v \/ a - u = b - v
        /\ u + x = v /\ a \in Nat /\ b \in Nat /\ u \in Nat /\ v \in Nat /\ x \in Nat
    BY <1>3, <1>5, <1>7
  <2> HIDE DEF a, b, u, v
  <2>2. a + x = b
    BY <2>1
  <2> QED BY <2>2 DEF a, b
<1>9. r + x = i
  BY <1>4, <1>5
<1> QED BY <1>5, <1>6, <1>7, <1>8, <1>9 DEF x, i

(* A question or its answer holds no token. *)
LEMMA AckworkFlow ==
  ASSUME TalkInv, TalkInv', NEW w \in Workers, scheduler_ackwork(w)
  PROVE  /\ \A t : All(t)' = All(t)
         /\ Head(toMgr[w]) \in Ask /\ toMgr' = [toMgr EXCEPT ![w] = Tail(@)]
<1> DEFINE m == Head(toMgr[w])
           full == workq_full(workq[HighestIdx(m.qidx)], o.max)
           answer == IF full THEN workreq_deny(m.workdata) ELSE WorkRequest(0)
           a == [[m EXCEPT !.workdata = answer] EXCEPT !.originator = MANAGER_PROC]
<1>1. /\ mgr.pc = "receive" /\ toMgr[w] # <<>> /\ ~m.manager_run
      /\ toWrk' = [toWrk EXCEPT ![m.originator] = Append(@, a)]
      /\ toMgr' = [toMgr EXCEPT ![w] = Tail(@)]
      /\ UNCHANGED <<o, workq, wk>>
  BY DEF scheduler_ackwork, SendToWorker
<1>2. m.originator = w /\ toWrk[w] = <<>> /\ m = toMgr[w][1]
  BY <1>1, Sending
<1>3. m \in Ask
  <2>1. ~Handing(w)
    BY <1>1 DEF Handing
  <2>2. m \in Announce \/ m \in Ask \/ m \in Done
    BY <1>1, <1>2, <2>1, FirstMessage
  <2> QED BY <1>1, <2>2, Kinds DEF Done
<1> HIDE DEF answer
<1>4. a.do_work = "none"
  BY <1>3 DEF Ask, Item
<1>5. toWrk'[w] = <<a>>
  <2>1. toWrk'[w] = Append(toWrk[w], a)
    BY <1>1, <1>2 DEF TalkInv, TypeOK
  <2> QED BY <1>2, <2>1
<1> HIDE DEF a
<1>6. /\ toMgr'[w] = Tail(toMgr[w]) /\ wk'[w] = wk[w]
      /\ \A v \in Workers : v # w => toMgr'[v] = toMgr[v] /\ toWrk'[v] = toWrk[v] /\ wk'[v] = wk[v]
  BY <1>1, <1>2 DEF TalkInv, TypeOK
<1>7. ASSUME NEW t PROVE ItemsWeight(t, toWrk'[w]) = 0
  <2> DEFINE f == [n \in 1..Len(<<a>>) |-> Weight(t, <<a>>[n])]
  <2>1. Len(<<a>>) = 1 /\ \A n \in 1..1 : f[n] = 0
    BY <1>4 DEF Weight, WalkFns
  <2> HIDE DEF f
  <2>2. Total(f, 1) = 0
    BY <2>1, TotalZero
  <2>3. ItemsWeight(t, <<a>>) = Total(f, 1)
    BY <2>1 DEF ItemsWeight, f
  <2> QED BY <1>5, <2>2, <2>3
<1>8. ASSUME NEW t PROVE All(t)' = All(t)
  <2> DEFINE h == Held(t, wk[w])
             r == ItemsWeight(t, Tail(toMgr[w]))
             i == ItemsWeight(t, toMgr[w])
  <2>1. /\ All(t)' - All(t) = With(t, w)' - With(t, w)
        /\ All(t)' \in Nat /\ All(t) \in Nat /\ With(t, w)' \in Nat /\ With(t, w) \in Nat
    BY <1>1, <1>6, WorkerFlow
  <2>2. Weight(t, m) = 0
    BY <1>3, Weightless
  <2>3. i = Weight(t, m) + r /\ r \in Nat /\ h \in Nat
    BY <1>1, TakeMessage, WithNat
  <2>4. i = r
    BY <2>2, <2>3
  <2>5. With(t, w)' = h + r + 0
    BY <1>6, <1>7 DEF With
  <2>6. With(t, w) = h + i + 0
    BY <1>2, ItemsNone DEF With
  <2> HIDE DEF h, r, i
  <2> QED BY <2>1, <2>3, <2>4, <2>5, <2>6
<1> QED BY <1>1, <1>3, <1>8

(* An item handed over moves from a message to a queue. *)
LEMMA AckedWorkFlow ==
  ASSUME TalkInv, TalkInv', AckedWork
  PROVE  \A t : All(t)' = All(t)
<1>1. PICK w \in Workers : w = mgr.rank /\ toMgr[w] # <<>> /\ Handing(w)
  BY DEF AckedWork, TalkInv, ManagerInv, Handing
<1>2. PICK k \in Queues : k = mgr.idx
  BY DEF AckedWork, TalkInv, ManagerInv
<1> DEFINE m == Head(toMgr[w])
<1>3. /\ workq' = [workq EXCEPT ![k] = Append(@, m)]
      /\ toMgr' = [toMgr EXCEPT ![w] = Tail(@)]
      /\ UNCHANGED <<o, toWrk, wk>>
  BY <1>1, <1>2 DEF AckedWork
<1>4. workq \in [Queues -> Seq(Messages)] /\ m \in Messages
  <2>1. Work \subseteq Messages
    BY DEF Messages
  <2> QED BY <1>1, <2>1, Sending DEF TalkInv, TypeOK
<1>5. /\ workq' \in [Queues -> Seq(Messages)] /\ workq'[k] = Append(workq[k], m)
      /\ \A q \in Queues : q # k => workq'[q] = workq[q]
  BY <1>3, <1>4
<1>6. /\ toMgr'[w] = Tail(toMgr[w]) /\ toWrk'[w] = toWrk[w] /\ wk'[w] = wk[w]
      /\ \A v \in Workers : v # w => toMgr'[v] = toMgr[v] /\ toWrk'[v] = toWrk[v] /\ wk'[v] = wk[v]
  BY <1>3 DEF TalkInv, TypeOK
<1> SUFFICES ASSUME NEW t PROVE All(t)' = All(t)
  OBVIOUS
<1> DEFINE h == Held(t, wk[w])
           c == ItemsWeight(t, toWrk[w])
           x == Weight(t, m)
           r == ItemsWeight(t, Tail(toMgr[w]))
           i == ItemsWeight(t, toMgr[w])
           a == ItemsWeight(t, workq'[k])
           b == ItemsWeight(t, workq[k])
           d == QueuesWeight(t, workq')
           e == QueuesWeight(t, workq)
<1>7. i = x + r /\ x \in Nat /\ r \in Nat /\ h \in Nat /\ c \in Nat /\ i \in Nat
  BY <1>1, TakeMessage, WithNat
<1>8. With(t, w)' = h + r + c /\ With(t, w) = h + i + c
  BY <1>6 DEF With
<1>9. a = b + x /\ a \in Nat /\ b \in Nat
  BY <1>4, <1>5, ItemsAppend, ItemsNat
<1>10. d - a = e - b /\ d \in Nat /\ e \in Nat
  BY <1>4, <1>5, QueuesChange
<1>11. InQueues(t)' = d /\ InQueues(t) = e
  BY <1>3, QueuesIs DEF InQueues, Queued, QueuesWeight, QueueWeight, Queues
<1> HIDE DEF h, c, x, r, i, a, b, d, e
<1>12. d = e + x
  BY <1>7, <1>9, <1>10
<1>13. With(t, w)' + x = With(t, w) /\ With(t, w)' \in Nat /\ With(t, w) \in Nat
  BY <1>7, <1>8
<1>14. Sum(t)' - With(t, w)' = Sum(t) - With(t, w)
  BY <1>6, SumChange
<1>15. Sum(t)' \in Nat /\ Sum(t) \in Nat
  BY AllNats, AllNatsNext
<1>16. Sum(t)' + x = Sum(t)
  <2> DEFINE y == Sum(t)'
             z == Sum(t)
             u == With(t, w)'
             v == With(t, w)
  <2>1. /\ y - z = u - v \/ y - u = z - v
        /\ u + x = v /\ y \in Nat /\ z \in Nat /\ u \in Nat /\ v \in Nat /\ x \in Nat
    BY <1>7, <1>13, <1>14, <1>15
  <2> HIDE DEF y, z, u, v
  <2>2. y + x = z
    BY <2>1
  <2> QED BY <2>2 DEF y, z
<1>17. All(t) = Sum(t) + e /\ All(t)' = Sum(t)' + d
  BY <1>11, AllSum, AllSumNext
<1> QED BY <1>7, <1>10, <1>12, <1>15, <1>16, <1>17

(* Telling the workers to exit moves no token. *)
LEMMA FiniFlow ==
  ASSUME TalkInv, TalkInv', manager_fini
  PROVE  \A t : All(t)' = All(t)
<1>1. /\ UNCHANGED <<o, workq, toMgr, wk>>
      /\ toWrk' = [w \in Workers |-> Append(toWrk[w], Exit)]
  BY DEF manager_fini, Exit
<1> SUFFICES ASSUME NEW t PROVE All(t)' = All(t)
  OBVIOUS
<1>2. ASSUME NEW w \in Workers PROVE With(t, w)' = With(t, w)
  <2>1. toWrk[w] \in Seq(Messages) /\ Exit \in Messages
    <3>1. Inbox \subseteq Messages
      BY DEF Inbox, Messages
    <3> QED BY <3>1, OwnTypes DEF Messages
  <2>2. ItemsWeight(t, Append(toWrk[w], Exit)) = ItemsWeight(t, toWrk[w]) + Weight(t, Exit)
    BY <2>1, ItemsAppend
  <2>3. Weight(t, Exit) = 0 /\ ItemsWeight(t, toWrk[w]) \in Nat
    BY Weightless, WithNat
  <2>4. ItemsWeight(t, toWrk'[w]) = ItemsWeight(t, toWrk[w])
    BY <1>1, <2>2, <2>3
  <2> QED BY <1>1, <2>4 DEF With
<1>3. [w \in Workers |-> With(t, w)]' = [w \in Workers |-> With(t, w)]
  BY <1>2
<1>4. Sum(t)' = Sum(t)
  BY <1>3 DEF Sum
<1>5. InQueues(t)' = InQueues(t)
  BY <1>1, QueuedSame DEF InQueues
<1> QED BY <1>4, <1>5, AllSum, AllSumNext

(***************************************************************************)
(* The steps of a worker.                                                  *)
(***************************************************************************)

LEMMA OwnFlow ==
  ASSUME TalkInv, TalkInv', NEW w \in Workers, UNCHANGED <<o, workq, toWrk>>,
         NEW s, wk' = [wk EXCEPT ![w] = s], UNCHANGED toMgr
  PROVE  \A t : /\ All(t)' + Held(t, wk[w]) = All(t) + Held(t, s)
                /\ All(t)' \in Nat /\ All(t) \in Nat /\ Held(t, wk[w]) \in Nat /\ Held(t, s) \in Nat
<1>1. /\ toMgr'[w] = toMgr[w] /\ toWrk'[w] = toWrk[w] /\ wk'[w] = s
      /\ \A v \in Workers : v # w => toMgr'[v] = toMgr[v] /\ toWrk'[v] = toWrk[v] /\ wk'[v] = wk[v]
  BY DEF TalkInv, TypeOK
<1> SUFFICES ASSUME NEW t
             PROVE  /\ All(t)' + Held(t, wk[w]) = All(t) + Held(t, s)
                    /\ All(t)' \in Nat /\ All(t) \in Nat /\ Held(t, wk[w]) \in Nat /\ Held(t, s) \in Nat
  OBVIOUS
<1>2. s \in Local /\ (Resting(s) \/ (Busy(s) /\ s.pc \in {"work", "ack"}))
  <2>1. wk'[w] \in Local
    BY DEF TalkInv, TypeOK
  <2>2. Resting(wk'[w]) \/ (Busy(wk'[w]) /\ wk'[w].pc \in {"work", "ack"})
    BY DEF TalkInv, InPhase, Free, Given, AtWork, Asking, Answered, Finished
  <2> QED BY <1>1, <2>1, <2>2
<1> DEFINE a == All(t)'
           b == All(t)
           u == With(t, w)'
           v == With(t, w)
           h == Held(t, wk[w])
           k == Held(t, s)
           c == ItemsWeight(t, toMgr[w])
           d == ItemsWeight(t, toWrk[w])
<1>3. a - b = u - v /\ a \in Nat /\ b \in Nat /\ u \in Nat /\ v \in Nat
  BY <1>1, WorkerFlow
<1>4. u = k + c + d /\ v = h + c + d
  BY <1>1 DEF With
<1>5. h \in Nat /\ k \in Nat /\ c \in Nat /\ d \in Nat
  BY <1>2, WithNat, HeldNat
<1> HIDE DEF a, b, u, v, h, k, c, d
<1>6. a + h = b + k
  BY <1>3, <1>4, <1>5
<1> QED BY <1>3, <1>5, <1>6 DEF a, b, h, k

(* A worker that sends a message adds its tokens to those it keeps. *)
LEMMA SentFlow ==
  ASSUME TalkInv, TalkInv', NEW w \in Workers, UNCHANGED <<o, workq, toWrk>>,
         NEW s, wk' = [wk EXCEPT ![w] = s], NEW m, m \in Outbox, SendToManager(<<m>>, w)
  PROVE  \A t : /\ All(t)' + Held(t, wk[w]) = All(t) + Held(t, s) + Weight(t, m)
                /\ ItemsWeight(t, toMgr'[w]) = ItemsWeight(t, toMgr[w]) + Weight(t, m)
                /\ All(t)' \in Nat /\ All(t) \in Nat /\ Held(t, wk[w]) \in Nat /\ Held(t, s) \in Nat
                /\ Weight(t, m) \in Nat
<1> DEFINE l == [m EXCEPT !.originator = w]
<1>0. toMgr' = [toMgr EXCEPT ![w] = Append(toMgr[w], l)] /\ l \in Outbox
  BY SendAppends
<1>1. /\ toMgr'[w] = Append(toMgr[w], l) /\ toWrk'[w] = toWrk[w] /\ wk'[w] = s
      /\ \A v \in Workers : v # w => toMgr'[v] = toMgr[v] /\ toWrk'[v] = toWrk[v] /\ wk'[v] = wk[v]
  BY <1>0 DEF TalkInv, TypeOK
<1> SUFFICES ASSUME NEW t
             PROVE  /\ All(t)' + Held(t, wk[w]) = All(t) + Held(t, s) + Weight(t, m)
                    /\ ItemsWeight(t, toMgr'[w]) = ItemsWeight(t, toMgr[w]) + Weight(t, m)
                    /\ All(t)' \in Nat /\ All(t) \in Nat /\ Held(t, wk[w]) \in Nat /\ Held(t, s) \in Nat
                    /\ Weight(t, m) \in Nat
  OBVIOUS
<1>2. s \in Local /\ (Resting(s) \/ (Busy(s) /\ s.pc \in {"work", "ack"}))
  <2>1. wk'[w] \in Local
    BY DEF TalkInv, TypeOK
  <2>2. Resting(wk'[w]) \/ (Busy(wk'[w]) /\ wk'[w].pc \in {"work", "ack"})
    BY DEF TalkInv, InPhase, Free, Given, AtWork, Asking, Answered, Finished
  <2> QED BY <1>1, <2>1, <2>2
<1>3. Outbox \subseteq Messages
  BY DEF Outbox, Messages
<1>4. Weight(t, l) = Weight(t, m) /\ Weight(t, m) \in Nat
  BY <1>3, SignedKind, WeightNat
<1>5. toMgr[w] \in Seq(Messages)
  BY <1>3, OwnTypes
<1> HIDE DEF l
<1>6. ItemsWeight(t, toMgr'[w]) = ItemsWeight(t, toMgr[w]) + Weight(t, m)
  BY <1>0, <1>1, <1>3, <1>4, <1>5, ItemsAppend
<1> DEFINE a == All(t)'
           b == All(t)
           u == With(t, w)'
           v == With(t, w)
           h == Held(t, wk[w])
           k == Held(t, s)
           c == ItemsWeight(t, toMgr[w])
           d == ItemsWeight(t, toWrk[w])
           x == Weight(t, m)
<1>7. a - b = u - v /\ a \in Nat /\ b \in Nat /\ u \in Nat /\ v \in Nat
  BY <1>1, WorkerFlow
<1>8. u = k + (c + x) + d /\ v = h + c + d
  BY <1>1, <1>6 DEF With
<1>9. h \in Nat /\ k \in Nat /\ c \in Nat /\ d \in Nat /\ x \in Nat
  BY <1>2, <1>4, WithNat, HeldNat
<1> HIDE DEF a, b, u, v, h, k, c, d, x
<1>10. a + h = b + k + x
  BY <1>7, <1>8, <1>9
<1> QED BY <1>6, <1>7, <1>9, <1>10 DEF a, b, h, k, x, c

(***************************************************************************)
(* What is held at each point of the work functions.                       *)
(***************************************************************************)

LEMMA BitFalse == \A b : ~b => Bit(b) = 0
BY DEF Bit

(* What a worker in treewalk_statpath holds. *)
LEMMA HeldStatting ==
  ASSUME NEW s \in Local, s.pc = "work", Busy(s), Statting(s), NEW t
  PROVE  /\ Held(t, s) = PathsWeight(t, "treewalk_statpath", Rest(s))
                         + PathsWeight(t, "treewalk_readdir", s.out)
                         + LeftWeight(t, s.pair) + PerfWeight(t, s.perf)
         /\ PathsWeight(t, "treewalk_statpath", Rest(s)) \in Nat
         /\ PathsWeight(t, "treewalk_readdir", s.out) \in Nat
         /\ LeftWeight(t, s.pair) \in Nat /\ PerfWeight(t, s.perf) \in Nat /\ Held(t, s) \in Nat
<1>1. s.item.do_work = "treewalk_statpath" /\ s.ents = <<>> /\ ~s.dip /\ s.offer = workitem_new(MANAGER_PROC)
  BY DEF Statting, Busy
<1> DEFINE r == PathsWeight(t, s.item.do_work, Rest(s))
           e == PathsWeight(t, "treewalk_statpath", s.ents)
           b == BufferHeld(t, s)
           f == Weight(t, s.offer)
           l == LeftWeight(t, s.pair)
           p == PerfWeight(t, s.perf)
           d == Bit(s.dip /\ t = <<"dirs">>)
<1>2. Held(t, s) = r + e + b + f + l + p + d /\ r \in Nat /\ b \in Nat /\ l \in Nat /\ p \in Nat
      /\ Held(t, s) \in Nat
  BY <1>1, HeldWalk DEF WalkFns
<1>3. e = 0
  BY <1>1, PathsNone
<1>4. f = 0
  BY <1>1, OfNone
<1>5. d = 0
  BY <1>1, BitFalse
<1>6. b = PathsWeight(t, "treewalk_readdir", s.out)
  BY <1>1, OfNone DEF BufferHeld, OtherFn
<1>7. r = PathsWeight(t, "treewalk_statpath", Rest(s))
  BY <1>1
<1> HIDE DEF r, e, b, f, l, p, d
<1>8. Held(t, s) = r + b + l + p
  BY <1>2, <1>3, <1>4, <1>5
<1> QED BY <1>2, <1>6, <1>7, <1>8 DEF l, p

(* What a worker in treewalk_readdir holds. *)
LEMMA HeldReading ==
  ASSUME NEW s \in Local, s.pc = "work", Busy(s), Reading(s), NEW t
  PROVE  /\ Held(t, s) = PathsWeight(t, "treewalk_readdir", Rest(s))
                         + PathsWeight(t, "treewalk_statpath", s.ents)
                         + PathsWeight(t, "treewalk_statpath", s.out)
                         + PerfWeight(t, s.perf) + Bit(s.dip /\ t = <<"dirs">>)
         /\ PathsWeight(t, "treewalk_readdir", Rest(s)) \in Nat
         /\ PathsWeight(t, "treewalk_statpath", s.ents) \in Nat
         /\ PathsWeight(t, "treewalk_statpath", s.out) \in Nat
         /\ PerfWeight(t, s.perf) \in Nat /\ Bit(s.dip /\ t = <<"dirs">>) \in Nat
         /\ Held(t, s) \in Nat
<1>1. s.item.do_work = "treewalk_readdir" /\ s.pair = NoData /\ s.offer = workitem_new(MANAGER_PROC)
  BY DEF Reading, Busy
<1> DEFINE r == PathsWeight(t, s.item.do_work, Rest(s))
           e == PathsWeight(t, "treewalk_statpath", s.ents)
           b == BufferHeld(t, s)
           f == Weight(t, s.offer)
           l == LeftWeight(t, s.pair)
           p == PerfWeight(t, s.perf)
           d == Bit(s.dip /\ t = <<"dirs">>)
<1>2. Held(t, s) = r + e + b + f + l + p + d /\ r \in Nat /\ b \in Nat /\ p \in Nat /\ d \in Nat /\ e \in Nat
      /\ Held(t, s) \in Nat
  BY <1>1, HeldWalk DEF WalkFns
<1>3. l = 0
  BY <1>1 DEF LeftWeight
<1>4. f = 0
  BY <1>1, OfNone
<1>6. b = PathsWeight(t, "treewalk_statpath", s.out)
  BY <1>1, OfNone DEF BufferHeld, OtherFn
<1>7. r = PathsWeight(t, "treewalk_readdir", Rest(s))
  BY <1>1
<1> HIDE DEF r, e, b, f, l, p, d
<1>8. Held(t, s) = r + e + b + p + d
  BY <1>2, <1>3, <1>4
<1> QED BY <1>2, <1>6, <1>7, <1>8 DEF p, e, d

(* Offering the buffer moves its paths. *)
LEMMA HeldOffer ==
  ASSUME NEW s \in Local, s.pc = "work", Busy(s), s.item.do_work \in WalkFns, NEW b,
         b = Buffer(OtherFn(s.item.do_work), s.out), b \in Walk, NEW t
  PROVE  Held(t, [s EXCEPT !.pc = "ack", !.offer = b]) = Held(t, s)
<1> DEFINE x == [s EXCEPT !.pc = "ack", !.offer = b]
           fn == OtherFn(s.item.do_work)
<1>1. fn \in WalkFns /\ s.out \in Seq(Path) /\ (fn = "treewalk_readdir" => s.out \in Seq(DOMAIN Entries))
  BY LocalFields DEF OtherFn, WalkFns, Busy, Statting, Reading, Comparing
<1>2. b.do_work = fn /\ b.workdata.type = "paths" /\ PathsOf(b) = s.out
  BY <1>1, BufferItem
<1>3. /\ x.item = s.item /\ x.i = s.i /\ x.dip = s.dip /\ x.ents = s.ents /\ x.out = s.out
      /\ x.perf = s.perf /\ x.pair = s.pair /\ x.offer = b
  BY DEF Local
<1> HIDE DEF x
<1>4. BufferHeld(t, x) = 0
  BY <1>2, <1>3 DEF BufferHeld
<1>5. Weight(t, b) = PathsWeight(t, fn, s.out)
  BY <1>1, <1>2 DEF Weight
<1>6. s.offer = workitem_new(MANAGER_PROC)
  BY DEF Busy
<1>7. BufferHeld(t, s) = PathsWeight(t, fn, s.out) /\ Weight(t, s.offer) = 0
  BY <1>6, OfNone DEF BufferHeld
<1>8. Rest(x) = Rest(s)
  BY <1>3 DEF Rest
<1> HIDE DEF fn
<1>9. PathsWeight(t, fn, s.out) \in Nat
  BY <1>1, PathsNat
<1> DEFINE r == PathsWeight(t, s.item.do_work, Rest(s))
           e == PathsWeight(t, "treewalk_statpath", s.ents)
           y == PathsWeight(t, fn, s.out)
           l == LeftWeight(t, s.pair)
           p == PerfWeight(t, s.perf)
           d == Bit(s.dip /\ t = <<"dirs">>)
<1>10. Held(t, s) = r + e + y + 0 + l + p + d /\ r \in Nat /\ e \in Nat /\ l \in Nat /\ p \in Nat /\ d \in Nat
  BY <1>7, HeldWalk
<1>11. Held(t, x) = r + e + 0 + y + l + p + d
  BY <1>3, <1>4, <1>5, <1>8 DEF Held, fn
<1>12. y \in Nat
  BY <1>9
<1> HIDE DEF r, e, y, l, p, d
<1>13. Held(t, x) = Held(t, s)
  BY <1>10, <1>11, <1>12
<1> QED BY <1>13 DEF x

-----------------------------------------------------------------------------
(* A list of one message. *)
LEMMA ItemsOne ==
  ASSUME NEW m \in Messages, NEW t
  PROVE  ItemsWeight(t, <<m>>) = Weight(t, m)
<1>1. <<>> \in Seq(Messages) /\ <<m>> = Append(<<>>, m)
  OBVIOUS
<1>2. ItemsWeight(t, Append(<<>>, m)) = ItemsWeight(t, <<>>) + Weight(t, m)
  BY <1>1, ItemsAppend
<1> QED BY <1>1, <1>2, ItemsNone, WeightNat

(* A new performance record counts nothing. *)
LEMMA NewPerf == perfstat_new \in Perf /\ \A t : PerfWeight(t, perfstat_new) = 0
BY DEF perfstat_new, Perf, PerfWeight

(* A worker that begins an item holds its tokens. *)
LEMMA HeldBegun ==
  ASSUME NEW m \in Work, NEW t
  PROVE  Held(t, Begun(m)) = Weight(t, m)
<1> DEFINE s == Begun(m)
<1>1. /\ s \in Local /\ s.pc = "work" /\ s.item = m /\ s.i = 1
      /\ s.dip = FALSE /\ s.ents = <<>> /\ s.out = <<>>
      /\ s.perf = perfstat_new /\ s.pair = NoData /\ Busy(s)
      /\ s.offer = workitem_new(MANAGER_PROC)
  BY BegunState
<1> HIDE DEF s
<1>2. CASE m \in Compare
  <2>1. s.item.do_work \notin WalkFns
    BY <1>1, <1>2 DEF Compare, WalkFns
  <2>2. Held(t, s) = Weight(t, s.item)
    BY <2>1 DEF Held
  <2> QED BY <1>1, <2>2 DEF s
<1>3. CASE m \in Walk
  <2>1. PathsOf(m) \in Seq(Path)
    BY <1>3, PathsOfItem DEF Walk
  <2>2. Rest(s) = PathsOf(m)
    <3> DEFINE q == PathsOf(m)
    <3> HIDE DEF q
    <3>1. q \in Seq(Path)
      BY <2>1 DEF q
    <3>2. SubSeq(q, 1, Len(q)) = q
      BY <3>1
    <3> QED BY <1>1, <3>2 DEF Rest, q
  <2>3. m.do_work \in WalkFns
    BY <1>3, Kinds
  <2> DEFINE r == PathsWeight(t, m.do_work, PathsOf(m))
             e == PathsWeight(t, "treewalk_statpath", s.ents)
             b == BufferHeld(t, s)
             f == Weight(t, s.offer)
             l == LeftWeight(t, s.pair)
             p == PerfWeight(t, s.perf)
             d == Bit(s.dip /\ t = <<"dirs">>)
  <2>4. Held(t, s) = r + e + b + f + l + p + d /\ r \in Nat
    BY <1>1, <2>2, <2>3, HeldWalk
  <2>5. e = 0 /\ f = 0 /\ l = 0 /\ p = 0 /\ d = 0
    BY <1>1, PathsNone, OfNone, NewPerf, BitFalse DEF LeftWeight
  <2>6. b = 0
    BY <1>1, PathsNone, OfNone DEF BufferHeld
  <2>7. Weight(t, m) = r
    BY <2>3 DEF Weight
  <2> HIDE DEF r, e, b, f, l, p, d
  <2>8. Held(t, s) = r
    BY <2>4, <2>5, <2>6
  <2> QED BY <2>7, <2>8 DEF s
<1> QED BY <1>2, <1>3 DEF Work, s

(* A worker whose offer is accepted keeps all but the tokens of the *)
(* offer.                                                           *)
LEMMA HeldAccepted ==
  ASSUME NEW s \in Local, s.pc = "ack", Busy(s), NEW t
  PROVE  /\ Held(t, s) = Held(t, Accepted(s)) + Weight(t, s.offer)
         /\ Held(t, s) \in Nat /\ Held(t, Accepted(s)) \in Nat /\ Weight(t, s.offer) \in Nat
<1> DEFINE x == Accepted(s)
<1>1. /\ x \in Local /\ x.pc = "work" /\ x.item = s.item
      /\ x.i = s.i /\ x.dip = s.dip /\ x.ents = s.ents
      /\ x.out = AfterSend(s.offer, s.out) /\ x.perf = s.perf
      /\ x.pair = s.pair /\ x.offer = workitem_new(MANAGER_PROC) /\ Busy(x)
  BY AcceptedState
<1> HIDE DEF x
<1>2. s.item.do_work \in WalkFns
  BY DEF Busy, Statting, Reading, Comparing, WalkFns
<1>3. Rest(x) = Rest(s)
  BY <1>1 DEF Rest
<1>4. BufferHeld(t, x) = BufferHeld(t, s)
  <2>1. CASE s.offer.workdata.type = "paths"
    <3>1. x.out = <<>>
      BY <1>1, <2>1 DEF AfterSend
    <3>2. BufferHeld(t, x) = 0
      BY <1>1, <3>1, OfNone, PathsNone DEF BufferHeld
    <3> QED BY <2>1, <3>2 DEF BufferHeld
  <2>2. CASE s.offer.workdata.type # "paths"
    <3>1. x.out = s.out
      BY <1>1, <2>2 DEF AfterSend
    <3> QED BY <1>1, <2>2, <3>1, OfNone DEF BufferHeld
  <2> QED BY <2>1, <2>2
<1> DEFINE r == PathsWeight(t, s.item.do_work, Rest(s))
           e == PathsWeight(t, "treewalk_statpath", s.ents)
           b == BufferHeld(t, s)
           f == Weight(t, s.offer)
           l == LeftWeight(t, s.pair)
           p == PerfWeight(t, s.perf)
           d == Bit(s.dip /\ t = <<"dirs">>)
<1>5. /\ Held(t, s) = r + e + b + f + l + p + d /\ r \in Nat /\ e \in Nat /\ b \in Nat /\ f \in Nat
      /\ l \in Nat /\ p \in Nat /\ d \in Nat /\ Held(t, s) \in Nat
  BY <1>2, HeldWalk
<1>6. Weight(t, x.offer) = 0
  BY <1>1, OfNone
<1>7. Held(t, x) = r + e + b + 0 + l + p + d
  BY <1>1, <1>2, <1>3, <1>4, <1>6 DEF Held
<1> HIDE DEF r, e, b, f, l, p, d
<1>8. Held(t, s) = Held(t, x) + f /\ Held(t, x) \in Nat
  BY <1>5, <1>7
<1> QED BY <1>5, <1>8 DEF x, f

(* Receiving an item moves its tokens from the message to the worker. *)
LEMMA ReceiveFlow ==
  ASSUME TalkInv, TalkInv', NEW w \in Workers, worker_receive(w)
  PROVE  \A t : All(t)' = All(t)
<1>1. /\ toMgr' = toMgr /\ UNCHANGED <<o, workq>>
      /\ \A v \in Workers : v # w => toMgr'[v] = toMgr[v] /\ toWrk'[v] = toWrk[v] /\ wk'[v] = wk[v]
  BY DEF worker_receive, OnlyWorker, manager, Set, TalkInv, TypeOK
<1>2. /\ \/ \E m \in Work : toWrk[w] = <<m>> /\ wk'[w] = Begun(m) /\ active[w]
         \/ toWrk[w] = <<Exit>> /\ Resting(wk'[w]) /\ ~active[w]
      /\ toWrk'[w] = <<>> /\ Resting(wk[w]) /\ toMgr[w] = <<>>
  BY ReceiveTalks
<1> SUFFICES ASSUME NEW t PROVE All(t)' = All(t)
  OBVIOUS
<1>3. Held(t, wk[w]) = 0 /\ ItemsWeight(t, toMgr[w]) = 0 /\ ItemsWeight(t, toWrk'[w]) = 0
  BY <1>2, HeldResting, ItemsNone
<1>4. Held(t, wk'[w]) = ItemsWeight(t, toWrk[w])
  <2>1. CASE \E m \in Work : toWrk[w] = <<m>> /\ wk'[w] = Begun(m)
    <3>1. PICK m \in Work : toWrk[w] = <<m>> /\ wk'[w] = Begun(m)
      BY <2>1
    <3>2. m \in Messages
      BY DEF Messages
    <3> QED BY <3>1, <3>2, HeldBegun, ItemsOne
  <2>2. CASE toWrk[w] = <<Exit>> /\ Resting(wk'[w])
    <3>1. Exit \in Messages /\ Weight(t, Exit) = 0
      BY Weightless DEF Messages
    <3>2. ItemsWeight(t, toWrk[w]) = 0
      BY <2>2, <3>1, ItemsOne
    <3>3. Held(t, wk'[w]) = 0
      BY <2>2, HeldResting
    <3> QED BY <3>2, <3>3
  <2> QED BY <1>2, <2>1, <2>2
<1> DEFINE a == All(t)'
           b == All(t)
           u == With(t, w)'
           v == With(t, w)
           i == ItemsWeight(t, toWrk[w])
<1>5. a - b = u - v /\ a \in Nat /\ b \in Nat /\ u \in Nat /\ v \in Nat
  BY <1>1, WorkerFlow
<1>6. u = i + 0 + 0 /\ v = 0 + 0 + i
  BY <1>1, <1>3, <1>4 DEF With
<1>7. i \in Nat
  BY WithNat
<1> HIDE DEF a, b, u, v, i
<1>8. a = b
  BY <1>5, <1>6, <1>7
<1> QED BY <1>8 DEF a, b

(* A worker that stops holds none. *)
LEMMA QuitFlow ==
  ASSUME TalkInv, TalkInv', NEW w \in Workers, worker_quit(w)
  PROVE  \A t : All(t)' = All(t)
<1>1. Resting(wk[w]) /\ Resting(wk'[w])
  BY QuitTalks
<1> DEFINE s == [Waiting EXCEPT !.pc = "gone"]
<1>2. wk' = [wk EXCEPT ![w] = s] /\ UNCHANGED <<o, workq, toWrk>> /\ UNCHANGED toMgr
  BY DEF worker_quit, Set, manager
<1> HIDE DEF s
<1>3. wk'[w] = s
  BY <1>2 DEF TalkInv, TypeOK
<1> SUFFICES ASSUME NEW t PROVE All(t)' = All(t)
  OBVIOUS
<1>4. Held(t, wk[w]) = 0 /\ Held(t, s) = 0
  BY <1>1, <1>3, HeldResting
<1>5. All(t)' + Held(t, wk[w]) = All(t) + Held(t, s) /\ All(t)' \in Nat /\ All(t) \in Nat
  BY <1>2, OwnFlow
<1> QED BY <1>4, <1>5

(* Handing over an offer moves its tokens to a message. *)
LEMMA AnsweredFlow ==
  ASSUME TalkInv, TalkInv', NEW w \in Workers, worker_answered(w)
  PROVE  \A t : All(t)' = All(t)
<1>1. /\ UNCHANGED <<o, workq>>
      /\ \A v \in Workers : v # w => toMgr'[v] = toMgr[v] /\ toWrk'[v] = toWrk[v] /\ wk'[v] = wk[v]
  BY DEF worker_answered, OnlyWorker, manager, Set, SendToManager, TalkInv, TypeOK
<1>2. /\ Answered(w) /\ wk[w] \in Local /\ Busy(wk[w]) /\ wk[w].pc = "ack"
      /\ \/ \E m \in Ask : UNCHANGED wk /\ toMgr'[w] = <<m>>
         \/ /\ wk'[w] = Accepted(wk[w])
            /\ \E m \in Work : toMgr'[w] = <<m>> /\ \A t : Weight(t, m) = Weight(t, wk[w].offer)
      /\ \E m \in Ask : toWrk[w] = <<m>>
      /\ toWrk'[w] = <<>>
  BY AnsweredTalks
<1> SUFFICES ASSUME NEW t PROVE All(t)' = All(t)
  OBVIOUS
<1>3. \A m \in Ask : ItemsWeight(t, <<m>>) = 0
  BY ItemsOne, Weightless DEF Messages
<1>4. ItemsWeight(t, toMgr[w]) = 0 /\ ItemsWeight(t, toWrk[w]) = 0 /\ ItemsWeight(t, toWrk'[w]) = 0
  BY <1>2, <1>3, ItemsNone DEF Answered
<1> DEFINE h == Held(t, wk[w])
           k == Held(t, wk'[w])
           i == ItemsWeight(t, toMgr'[w])
           a == All(t)'
           b == All(t)
           u == With(t, w)'
           v == With(t, w)
<1>5. h = k + i /\ h \in Nat /\ k \in Nat /\ i \in Nat
  <2>1. CASE \E m \in Ask : UNCHANGED wk /\ toMgr'[w] = <<m>>
    <3>1. i = 0 /\ k = h
      BY <1>3, <2>1
    <3>2. h \in Nat
      BY WithNat
    <3> HIDE DEF i, k, h
    <3> QED BY <3>1, <3>2
  <2>2. CASE /\ wk'[w] = Accepted(wk[w])
             /\ \E m \in Work : toMgr'[w] = <<m>> /\ \A r : Weight(r, m) = Weight(r, wk[w].offer)
    <3>1. i = Weight(t, wk[w].offer)
      BY <2>2, ItemsOne DEF Messages
    <3> QED BY <1>2, <2>2, <3>1, HeldAccepted
  <2> QED BY <1>2, <2>1, <2>2
<1>6. a - b = u - v /\ a \in Nat /\ b \in Nat /\ u \in Nat /\ v \in Nat
  BY <1>1, WorkerFlow
<1>7. u = k + i + 0 /\ v = h + 0 + 0
  BY <1>4 DEF With
<1> HIDE DEF h, k, i, a, b, u, v
<1>8. a = b
  BY <1>5, <1>6, <1>7
<1> QED BY <1>8 DEF a, b

-----------------------------------------------------------------------------
(* A step of a walk function: it goes on, or offers its buffer. *)
LEMMA WalkOnFlow ==
  ASSUME TalkInv, TalkInv', NEW w \in Workers, AtWork(w), UNCHANGED <<o, workq, toWrk>>,
         NEW s \in Local, s.pc = "work", Busy(s), s.item.do_work \in WalkFns,
         \/ Set(w, s) /\ UNCHANGED toMgr
         \/ worker_sendrequest(w, s, 0, Buffer(OtherFn(s.item.do_work), s.out))
  PROVE  \A t : /\ All(t)' + Held(t, wk[w]) = All(t) + Held(t, s)
                /\ All(t)' \in Nat /\ All(t) \in Nat /\ Held(t, wk[w]) \in Nat /\ Held(t, s) \in Nat
                /\ ItemsWeight(t, toMgr'[w]) = ItemsWeight(t, toMgr[w])
                /\ Held(t, wk'[w]) = Held(t, s)
<1> SUFFICES ASSUME NEW t
             PROVE  /\ All(t)' + Held(t, wk[w]) = All(t) + Held(t, s)
                    /\ All(t)' \in Nat /\ All(t) \in Nat /\ Held(t, wk[w]) \in Nat /\ Held(t, s) \in Nat
                    /\ ItemsWeight(t, toMgr'[w]) = ItemsWeight(t, toMgr[w])
                    /\ Held(t, wk'[w]) = Held(t, s)
  OBVIOUS
<1>1. CASE Set(w, s) /\ UNCHANGED toMgr
  <2>1. wk' = [wk EXCEPT ![w] = s] /\ UNCHANGED toMgr
    BY <1>1 DEF Set
  <2>2. wk'[w] = s
    BY <2>1 DEF TalkInv, TypeOK
  <2> QED BY <2>1, <2>2, OwnFlow
<1>2. CASE worker_sendrequest(w, s, 0, Buffer(OtherFn(s.item.do_work), s.out))
  <2> DEFINE fn == OtherFn(s.item.do_work)
             b == Buffer(fn, s.out)
             x == [s EXCEPT !.pc = "ack", !.offer = b]
             m == Request(0, 0)
  <2>1. fn \in WalkFns /\ s.out \in Seq(Path) /\ (fn = "treewalk_readdir" => s.out \in Seq(DOMAIN Entries))
    BY LocalFields DEF OtherFn, WalkFns, Busy, Statting, Reading, Comparing
  <2>2. b \in Walk
    BY <2>1, BufferItem
  <2>3. wk' = [wk EXCEPT ![w] = x] /\ SendToManager(<<m>>, w)
    BY <1>2 DEF worker_sendrequest, Set
  <2>4. m \in Ask /\ m \in Outbox
    BY RequestItem DEF Outbox
  <2>5. Held(t, x) = Held(t, s)
    BY <2>2, HeldOffer
  <2> HIDE DEF x, m, b, fn
  <2>6. wk'[w] = x
    BY <2>3 DEF TalkInv, TypeOK
  <2>7. Weight(t, m) = 0
    BY <2>4, Weightless
  <2>8. /\ All(t)' + Held(t, wk[w]) = All(t) + Held(t, x) + Weight(t, m)
        /\ ItemsWeight(t, toMgr'[w]) = ItemsWeight(t, toMgr[w]) + Weight(t, m)
        /\ All(t)' \in Nat /\ All(t) \in Nat /\ Held(t, wk[w]) \in Nat /\ Held(t, x) \in Nat
        /\ Weight(t, m) \in Nat
    BY ONLY TalkInv, TalkInv', w \in Workers, UNCHANGED <<o, workq, toWrk>>, <2>3, <2>4, SentFlow
  <2>9. ItemsWeight(t, toMgr[w]) \in Nat
    BY WithNat
  <2> QED BY <2>5, <2>6, <2>7, <2>8, <2>9
<1> QED BY <1>1, <1>2

(* The item is done: what is left are the counters. *)
LEMMA WalkDoneFlow ==
  ASSUME TalkInv, TalkInv', NEW w \in Workers, UNCHANGED <<o, workq, toWrk>>,
         NEW perf \in Perf, tw_senddone(w, perf)
  PROVE  \A t : /\ All(t)' + Held(t, wk[w]) = All(t) + PerfWeight(t, perf)
                /\ All(t)' \in Nat /\ All(t) \in Nat /\ Held(t, wk[w]) \in Nat /\ PerfWeight(t, perf) \in Nat
                /\ ItemsWeight(t, toMgr'[w]) = ItemsWeight(t, toMgr[w]) + PerfWeight(t, perf)
                /\ wk'[w] = Waiting
<1> DEFINE m == [workitem_new(MANAGER_PROC) EXCEPT
                   !.do_work = "manager_workdone", !.manager_run = TRUE,
                   !.workdata = [type |-> "perf", perf |-> perf]]
           s == Waiting
<1>1. m \in DoneWalk /\ m \in Done /\ m.workdata.perf = perf
  BY WalkDoneItem
<1>2. wk' = [wk EXCEPT ![w] = s] /\ SendToManager(<<m>>, w)
  BY DEF tw_senddone, Set
<1> HIDE DEF m
<1> SUFFICES ASSUME NEW t
    PROVE  /\ All(t)' + Held(t, wk[w]) = All(t) + PerfWeight(t, perf)
           /\ All(t)' \in Nat /\ All(t) \in Nat /\ Held(t, wk[w]) \in Nat /\ PerfWeight(t, perf) \in Nat
           /\ ItemsWeight(t, toMgr'[w]) = ItemsWeight(t, toMgr[w]) + PerfWeight(t, perf)
           /\ wk'[w] = Waiting
  OBVIOUS
<1>3. Weight(t, m) = PerfWeight(t, perf)
  BY <1>1, Kinds DEF Weight, WalkFns
<1>4. m \in Outbox
  BY <1>1 DEF Outbox
<1>5. Held(t, s) = 0
  BY WaitingState, HeldResting
<1>6. wk'[w] = s
  BY <1>2 DEF TalkInv, TypeOK
<1> HIDE DEF s
<1>7. /\ All(t)' + Held(t, wk[w]) = All(t) + Held(t, s) + Weight(t, m)
      /\ ItemsWeight(t, toMgr'[w]) = ItemsWeight(t, toMgr[w]) + Weight(t, m)
      /\ All(t)' \in Nat /\ All(t) \in Nat /\ Held(t, wk[w]) \in Nat /\ Held(t, s) \in Nat
      /\ Weight(t, m) \in Nat
  BY ONLY TalkInv, TalkInv', w \in Workers, UNCHANGED <<o, workq, toWrk>>, <1>2, <1>4, SentFlow
<1> QED BY <1>3, <1>5, <1>6, <1>7 DEF s

-----------------------------------------------------------------------------
(* What is left of an item after its next path. *)
LEMMA RestNext ==
  ASSUME NEW s, ~s.dip, PathsOf(s.item) \in Seq(Path), s.i \in Nat, s.i > 0,
         s.i <= Len(PathsOf(s.item)), NEW r,
         r.item = s.item, (r.dip /\ r.i = s.i) \/ (~r.dip /\ r.i = s.i + 1), NEW t, NEW fn
  PROVE  PathsWeight(t, fn, Rest(s)) = PathWeight(t, fn, PathsOf(s.item)[s.i]) + PathsWeight(t, fn, Rest(r))
<1> DEFINE q == PathsOf(s.item)
           i == s.i
<1>1. q \in Seq(Path) /\ i \in 1..Len(q)
  OBVIOUS
<1>2. Rest(s) = SubSeq(q, i, Len(q)) /\ Rest(r) = SubSeq(q, i + 1, Len(q))
  BY DEF Rest
<1> HIDE DEF q, i
<1>3. PathsWeight(t, fn, SubSeq(q, i, Len(q))) = PathWeight(t, fn, q[i]) + PathsWeight(t, fn, SubSeq(q, i + 1, Len(q)))
  BY <1>1, PathsRest
<1> QED BY <1>2, <1>3 DEF q, i

(* Counting something a token does not count. *)
LEMMA PerfSame ==
  ASSUME NEW perf \in Perf, NEW t
  PROVE  PerfWeight(t, perfstat_inc_counter(perf, "stats")) = PerfWeight(t, perf)
BY PerfInc, PerfNat DEF PerfWeight

(* The stat token of a directory becomes its read token. *)
LEMMA StatDirFlow ==
  ASSUME TalkInv, TalkInv', NEW w \in Workers, StatDir(w)
  PROVE  \E p \in DOMAIN Entries :
           /\ statted' = [statted EXCEPT ![p] = @ + 1]
           /\ \A t : /\ All(t)' + PathWeight(t, "treewalk_statpath", p) = All(t) + PathWeight(t, "treewalk_readdir", p)
                     /\ ItemsWeight(t, toMgr'[w]) = ItemsWeight(t, toMgr[w])
                     /\ Held(t, wk'[w]) + PathWeight(t, "treewalk_statpath", p)
                          = Held(t, wk[w]) + PathWeight(t, "treewalk_readdir", p)
<1> DEFINE s == wk[w]
           p == Todo(w)[s.i]
           next == [s EXCEPT !.i = @ + 1, !.perf = perfstat_inc_counter(@, "stats"), !.out = Append(@, p)]
<1>1. /\ Working(w, "treewalk_statpath") /\ s.pair = NoData
      /\ s.i <= Len(Todo(w)) /\ p \in DOMAIN Entries
      /\ statted' = [statted EXCEPT ![p] = @ + 1]
      /\ UNCHANGED <<o, manager, toWrk, printed, failed>>
      /\ \/ tw_senddirs(w, next)
         \/ Set(w, next) /\ UNCHANGED toMgr
  BY DEF StatDir
<1>2. AtWork(w) /\ s \in Local /\ s.pc = "work" /\ Busy(s) /\ Statting(s)
      /\ s.item.do_work = "treewalk_statpath" /\ Todo(w) \in Seq(Path) /\ s.i \in Nat /\ s.i > 0
  BY <1>1, InWalk DEF WalkFns
<1>3. p \in Path
  BY <1>1, PwtAssumption
<1>5. s.perf \in Perf /\ perfstat_inc_counter(s.perf, "stats") \in Perf
  BY <1>2, LocalFields, PerfInc
<1>6. s.out \in Seq(DOMAIN Entries) /\ Append(s.out, p) \in Seq(DOMAIN Entries)
      /\ s.out \in Seq(Path) /\ Append(s.out, p) \in Seq(Path)
  BY <1>1, <1>2, <1>3, LocalFields DEF Statting
<1>7. s.i + 1 \in Nat \ {0} /\ s.i + 1 <= Len(Todo(w)) + 1
  BY <1>1, <1>2
<1>8. next \in Local /\ next.pc = "work" /\ next.item = s.item /\ next.i = s.i + 1 /\ next.dip = s.dip
      /\ next.ents = s.ents /\ next.out = Append(s.out, p) /\ next.pair = s.pair /\ next.offer = s.offer
      /\ next.perf = perfstat_inc_counter(s.perf, "stats")
  BY <1>2, <1>5, <1>6, <1>7 DEF Local
<1> HIDE DEF next
<1>9. Busy(next) /\ Statting(next)
  <2>1. Statting(next)
    BY <1>1, <1>2, <1>6, <1>7, <1>8 DEF Statting, Todo
  <2> QED BY <1>2, <1>8, <2>1 DEF Busy
<1>10. \/ Set(w, next) /\ UNCHANGED toMgr
       \/ worker_sendrequest(w, next, 0, Buffer(OtherFn(next.item.do_work), next.out))
  BY <1>1, <1>2, <1>8 DEF tw_senddirs, OtherFn
<1>11. next.item.do_work \in WalkFns /\ UNCHANGED <<o, workq, toWrk>>
  BY <1>1, <1>2, <1>8 DEF WalkFns, manager
<1>12. \A t : /\ All(t)' + Held(t, s) = All(t) + Held(t, next)
              /\ All(t)' \in Nat /\ All(t) \in Nat /\ Held(t, s) \in Nat /\ Held(t, next) \in Nat
              /\ ItemsWeight(t, toMgr'[w]) = ItemsWeight(t, toMgr[w])
              /\ Held(t, wk'[w]) = Held(t, next)
  BY <1>2, <1>8, <1>9, <1>10, <1>11, WalkOnFlow
<1>13. ASSUME NEW t
       PROVE  /\ All(t)' + PathWeight(t, "treewalk_statpath", p) = All(t) + PathWeight(t, "treewalk_readdir", p)
              /\ Held(t, next) + PathWeight(t, "treewalk_statpath", p)
                   = Held(t, s) + PathWeight(t, "treewalk_readdir", p)
  <2> DEFINE a == All(t)
             b == All(t)'
             h == Held(t, s)
             k == Held(t, next)
             x == PathWeight(t, "treewalk_statpath", p)
             y == PathWeight(t, "treewalk_readdir", p)
             r == PathsWeight(t, "treewalk_statpath", Rest(s))
             q == PathsWeight(t, "treewalk_statpath", Rest(next))
             c == PathsWeight(t, "treewalk_readdir", s.out)
             d == PathsWeight(t, "treewalk_readdir", next.out)
             l == LeftWeight(t, s.pair)
             e == PerfWeight(t, s.perf)
  <2>1. b + h = a + k /\ a \in Nat /\ b \in Nat /\ h \in Nat /\ k \in Nat
    BY <1>12
  <2>2. h = r + c + l + e /\ r \in Nat /\ c \in Nat /\ l \in Nat /\ e \in Nat
    BY <1>2, HeldStatting
  <2>3. Held(t, next) = q + d + LeftWeight(t, next.pair) + PerfWeight(t, next.perf) /\ q \in Nat /\ d \in Nat
    BY <1>8, <1>9, HeldStatting
  <2>4. PerfWeight(t, next.perf) = e
    BY <1>5, <1>8, PerfSame
  <2>5. LeftWeight(t, next.pair) = l
    BY <1>8
  <2>6. k = q + d + l + e
    BY <2>3, <2>4, <2>5
  <2>7. r = x + q
    <3>1. ~s.dip /\ ~next.dip /\ PathsOf(s.item) \in Seq(Path) /\ s.i <= Len(PathsOf(s.item))
      BY <1>1, <1>2, <1>8 DEF Statting, Todo
    <3> QED BY <1>2, <1>8, <3>1, RestNext DEF Todo
  <2>8. d = c + y
    BY <1>3, <1>6, <1>8, PathsAppend
  <2>9. x \in Nat /\ y \in Nat
    BY PathWeightNat
  <2> HIDE DEF a, b, h, k, x, y, r, q, c, d, l, e
  <2>10. b + x = a + y /\ k + x = h + y
    BY <2>1, <2>2, <2>3, <2>6, <2>7, <2>8, <2>9
  <2> QED BY <2>10 DEF a, b, x, y, h, k
<1>14. \A t : /\ All(t)' + PathWeight(t, "treewalk_statpath", p) = All(t) + PathWeight(t, "treewalk_readdir", p)
              /\ ItemsWeight(t, toMgr'[w]) = ItemsWeight(t, toMgr[w])
              /\ Held(t, wk'[w]) + PathWeight(t, "treewalk_statpath", p)
                   = Held(t, wk[w]) + PathWeight(t, "treewalk_readdir", p)
  BY <1>12, <1>13
<1> HIDE DEF p
<1> QED BY <1>1, <1>14

-----------------------------------------------------------------------------
(* The tokens of the compare are in no path. *)
Comparison(t) == t = <<"compares">> \/ \E f, k : t \in {<<"pair", f>>, <<"add", f>>, <<"part", f, k>>}

(* A path holds no token of the comparison, *)
LEMMA PathOfCompare ==
  ASSUME NEW t, Comparison(t)
  PROVE  \A fn, p : PathWeight(t, fn, p) = 0
<1>1. ASSUME NEW p PROVE t # <<"stat", p>> /\ t # <<"read", p>> /\ t # <<"dirs">>
  <2>1. /\ \A f, k : <<"part", f, k>> # <<"stat", p>> /\ <<"part", f, k>> # <<"read", p>>
        /\ \A f : <<"pair", f>> # <<"stat", p>> /\ <<"pair", f>> # <<"read", p>>
        /\ \A f : <<"add", f>> # <<"stat", p>> /\ <<"add", f>> # <<"read", p>>
        /\ <<"compares">> # <<"stat", p>> /\ <<"compares">> # <<"read", p>> /\ <<"compares">> # <<"dirs">>
        /\ \A f, k : <<"part", f, k>> # <<"dirs">>
        /\ \A f : <<"pair", f>> # <<"dirs">> /\ <<"add", f>> # <<"dirs">>
    OBVIOUS
  <2> QED BY <2>1 DEF Comparison
<1> QED BY <1>1 DEF PathWeight, Bit

(* nor does a list of paths. *)
LEMMA PathsOfCompare ==
  ASSUME NEW t, Comparison(t), NEW S, NEW s \in Seq(S), NEW fn
  PROVE  PathsWeight(t, fn, s) = 0
BY PathOfCompare, PathsOther

(* What opening a directory adds. *)
LEMMA OpenDirFlow ==
  ASSUME TalkInv, TalkInv', NEW w \in Workers, OpenDir(w)
  PROVE  \E d \in DOMAIN Entries :
           \/ /\ UNCHANGED failed
              /\ \A t : /\ All(t)' + PathWeight(t, "treewalk_readdir", d)
                             = All(t) + PathsWeight(t, "treewalk_statpath", Entries[d]) + Bit(t = <<"dirs">>)
                        /\ ItemsWeight(t, toMgr'[w]) = ItemsWeight(t, toMgr[w])
                        /\ Comparison(t) => Held(t, wk'[w]) = Held(t, wk[w])
           \/ /\ failed' = failed \cup {<<"opendir", d>>}
              /\ \A t : /\ All(t)' <= All(t) /\ (Comparison(t) => All(t)' = All(t))
                        /\ Comparison(t) => ItemsWeight(t, toMgr'[w]) = ItemsWeight(t, toMgr[w]) + Held(t, wk[w])
              /\ wk'[w] = Waiting
<1> DEFINE s == wk[w]
           d == Todo(w)[s.i]
           next == [s EXCEPT !.dip = TRUE, !.ents = Entries[d]]
<1>1. /\ Working(w, "treewalk_readdir") /\ ~s.dip /\ s.i <= Len(Todo(w))
      /\ UNCHANGED <<o, manager, toWrk, printed, statted>>
      /\ \/ Set(w, next) /\ UNCHANGED <<toMgr, failed>>
         \/ tw_senddone(w, s.perf) /\ failed' = failed \cup {<<"opendir", d>>}
  BY DEF OpenDir
<1>2. /\ AtWork(w) /\ s \in Local /\ s.pc = "work" /\ Busy(s) /\ Reading(s)
      /\ s.item.do_work = "treewalk_readdir" /\ Todo(w) \in Seq(DOMAIN Entries)
      /\ s.i \in Nat /\ s.i > 0 /\ s.perf \in Perf /\ s.ents \in Seq(Path) /\ s.out \in Seq(Path)
      /\ Todo(w) \in Seq(Path)
  BY <1>1, InWalk, LocalFields DEF WalkFns
<1>3. d \in DOMAIN Entries /\ Entries[d] \in Seq(Path)
  <2>1. d \in DOMAIN Entries
    BY <1>1, <1>2
  <2> QED BY <2>1, PwtAssumption
<1>4. UNCHANGED <<o, workq, toWrk>>
  BY <1>1 DEF manager
<1>5. /\ next \in Local /\ next.pc = "work" /\ next.item = s.item /\ next.i = s.i /\ next.dip = TRUE
      /\ next.ents = Entries[d]
      /\ next.out = s.out /\ next.pair = s.pair /\ next.offer = s.offer /\ next.perf = s.perf
  BY <1>2, <1>3 DEF Local
<1> HIDE DEF next
<1>6. Busy(next) /\ Reading(next)
  <2>1. Reading(next)
    BY <1>1, <1>2, <1>5 DEF Reading, Todo
  <2> QED BY <1>2, <1>5, <2>1 DEF Busy
<1>7. s.ents = <<>>
  BY <1>1, <1>2 DEF Reading
<1>8. ASSUME NEW t
      PROVE  /\ Held(t, s) = PathsWeight(t, "treewalk_readdir", Rest(s)) + PathsWeight(t, "treewalk_statpath", s.out)
                             + PerfWeight(t, s.perf)
             /\ PathsWeight(t, "treewalk_readdir", Rest(s)) \in Nat
             /\ PathsWeight(t, "treewalk_statpath", s.out) \in Nat
             /\ PerfWeight(t, s.perf) \in Nat /\ Held(t, s) \in Nat
  <2> DEFINE r == PathsWeight(t, "treewalk_readdir", Rest(s))
             e == PathsWeight(t, "treewalk_statpath", s.ents)
             c == PathsWeight(t, "treewalk_statpath", s.out)
             p == PerfWeight(t, s.perf)
             b == Bit(s.dip /\ t = <<"dirs">>)
  <2>1. Held(t, s) = r + e + c + p + b /\ r \in Nat /\ c \in Nat /\ p \in Nat /\ Held(t, s) \in Nat
    BY <1>2, HeldReading
  <2>2. e = 0
    BY <1>7, PathsNone
  <2>3. b = 0
    BY <1>1, BitFalse
  <2> HIDE DEF r, e, c, p, b
  <2>4. Held(t, s) = r + c + p
    BY <2>1, <2>2, <2>3
  <2> QED BY <2>1, <2>4 DEF r, c, p
<1>9. CASE Set(w, next) /\ UNCHANGED <<toMgr, failed>>
  <2>1. wk' = [wk EXCEPT ![w] = next] /\ UNCHANGED toMgr
    BY <1>9 DEF Set
  <2>2. wk'[w] = next
    BY <2>1 DEF TalkInv, TypeOK
  <2>3. \A t : /\ All(t)' + Held(t, s) = All(t) + Held(t, next)
               /\ All(t)' \in Nat /\ All(t) \in Nat /\ Held(t, s) \in Nat /\ Held(t, next) \in Nat
    BY <1>4, <2>1, OwnFlow
  <2>4. ASSUME NEW t
        PROVE  /\ Held(t, next) + PathWeight(t, "treewalk_readdir", d)
                    = Held(t, s) + PathsWeight(t, "treewalk_statpath", Entries[d]) + Bit(t = <<"dirs">>)
               /\ PathsWeight(t, "treewalk_statpath", Entries[d]) \in Nat /\ Bit(t = <<"dirs">>) \in Nat
    <3> DEFINE r == PathsWeight(t, "treewalk_readdir", Rest(s))
               q == PathsWeight(t, "treewalk_readdir", Rest(next))
               e == PathsWeight(t, "treewalk_statpath", Entries[d])
               c == PathsWeight(t, "treewalk_statpath", s.out)
               p == PerfWeight(t, s.perf)
               b == Bit(next.dip /\ t = <<"dirs">>)
               x == PathWeight(t, "treewalk_readdir", d)
               h == Held(t, s)
               k == Held(t, next)
    <3>1. h = r + c + p /\ r \in Nat /\ c \in Nat /\ p \in Nat
      BY <1>8
    <3>2. /\ k = q + PathsWeight(t, "treewalk_statpath", next.ents)
                 + PathsWeight(t, "treewalk_statpath", next.out) + PerfWeight(t, next.perf) + b
          /\ q \in Nat /\ b \in Nat
      BY <1>5, <1>6, HeldReading
    <3>3. k = q + e + c + p + b
      BY <1>5, <3>2
    <3>4. r = x + q
      <4>1. PathsOf(s.item) \in Seq(Path) /\ s.i <= Len(PathsOf(s.item)) /\ next.dip /\ next.i = s.i
        BY <1>1, <1>2, <1>5 DEF Todo
      <4> QED BY <1>1, <1>2, <1>5, <4>1, RestNext DEF Todo
    <3>5. e \in Nat
      BY <1>3, PathsNat
    <3>6. x \in Nat
      BY PathWeightNat
    <3>7. b = Bit(t = <<"dirs">>)
      BY <1>5 DEF Bit
    <3> HIDE DEF r, q, e, c, p, b, x, h, k
    <3>8. k + x = h + e + b
      BY <3>1, <3>2, <3>3, <3>4, <3>5, <3>6
    <3> QED BY <3>2, <3>5, <3>7, <3>8 DEF h, k, x, e
  <2>5. ASSUME NEW t
        PROVE  All(t)' + PathWeight(t, "treewalk_readdir", d)
                 = All(t) + PathsWeight(t, "treewalk_statpath", Entries[d]) + Bit(t = <<"dirs">>)
    <3> DEFINE a == All(t)
               b == All(t)'
               h == Held(t, s)
               k == Held(t, next)
               x == PathWeight(t, "treewalk_readdir", d)
               e == PathsWeight(t, "treewalk_statpath", Entries[d])
               c == Bit(t = <<"dirs">>)
    <3>1. b + h = a + k /\ a \in Nat /\ b \in Nat /\ h \in Nat /\ k \in Nat
      BY <2>3
    <3>2. k + x = h + e + c /\ e \in Nat /\ c \in Nat /\ x \in Nat
      BY <2>4, PathWeightNat
    <3> HIDE DEF a, b, h, k, x, e, c
    <3>3. b + x = a + e + c
      BY <3>1, <3>2
    <3> QED BY <3>3 DEF a, b, x, e, c
  <2>6. ASSUME NEW t, Comparison(t) PROVE Held(t, wk'[w]) = Held(t, s)
    <3>1. PathWeight(t, "treewalk_readdir", d) = 0 /\ PathsWeight(t, "treewalk_statpath", Entries[d]) = 0
      BY <1>3, <2>6, PathOfCompare, PathsOfCompare
    <3>2. Bit(t = <<"dirs">>) = 0
      <4>1. t # <<"dirs">>
        BY <2>6 DEF Comparison
      <4> QED BY <4>1, BitFalse
    <3>3. Held(t, next) \in Nat /\ Held(t, s) \in Nat
      BY <2>3
    <3>4. Held(t, next) + 0 = Held(t, s) + 0 + 0
      BY <2>4, <3>1, <3>2
    <3> QED BY <2>2, <3>3, <3>4
  <2>7. \A t : /\ All(t)' + PathWeight(t, "treewalk_readdir", d)
                    = All(t) + PathsWeight(t, "treewalk_statpath", Entries[d]) + Bit(t = <<"dirs">>)
               /\ ItemsWeight(t, toMgr'[w]) = ItemsWeight(t, toMgr[w])
               /\ Comparison(t) => Held(t, wk'[w]) = Held(t, wk[w])
    BY <2>1, <2>5, <2>6
  <2> HIDE DEF d
  <2> QED BY <1>3, <1>9, <2>7
<1>10. CASE tw_senddone(w, s.perf) /\ failed' = failed \cup {<<"opendir", d>>}
  <2>1. \A t : /\ All(t)' + Held(t, s) = All(t) + PerfWeight(t, s.perf)
               /\ All(t)' \in Nat /\ All(t) \in Nat /\ Held(t, s) \in Nat /\ PerfWeight(t, s.perf) \in Nat
               /\ ItemsWeight(t, toMgr'[w]) = ItemsWeight(t, toMgr[w]) + PerfWeight(t, s.perf)
               /\ wk'[w] = Waiting
    BY <1>2, <1>4, <1>10, WalkDoneFlow
  <2>2. ASSUME NEW t
        PROVE  /\ All(t)' <= All(t) /\ (Comparison(t) => All(t)' = All(t))
               /\ Comparison(t) => PerfWeight(t, s.perf) = Held(t, s)
    <3> DEFINE a == All(t)
               b == All(t)'
               h == Held(t, s)
               r == PathsWeight(t, "treewalk_readdir", Rest(s))
               c == PathsWeight(t, "treewalk_statpath", s.out)
               p == PerfWeight(t, s.perf)
    <3>1. b + h = a + p /\ a \in Nat /\ b \in Nat
      BY <2>1
    <3>2. h = r + c + p /\ r \in Nat /\ c \in Nat /\ p \in Nat
      BY <1>8
    <3>3. Comparison(t) => r = 0 /\ c = 0
      <4>1. Rest(s) \in Seq(Path)
        <5> DEFINE q == PathsOf(s.item)
                   i == IF s.dip THEN s.i + 1 ELSE s.i
        <5>1. q \in Seq(Path) /\ i \in Nat /\ i > 0
          BY <1>2 DEF Todo
        <5> HIDE DEF q, i
        <5>2. SubSeq(q, i, Len(q)) \in Seq(Path)
          BY <5>1
        <5> QED BY <5>2 DEF Rest, q, i
      <4> QED BY <1>2, <4>1, PathsOfCompare
    <3> HIDE DEF a, b, h, r, c, p
    <3>4. b <= a /\ (Comparison(t) => b = a) /\ (Comparison(t) => p = h)
      BY <3>1, <3>2, <3>3
    <3> QED BY <3>4 DEF a, b, p, h
  <2>3. wk'[w] = Waiting
    BY <2>1
  <2>4. \A t : /\ All(t)' <= All(t) /\ (Comparison(t) => All(t)' = All(t))
               /\ Comparison(t) => ItemsWeight(t, toMgr'[w]) = ItemsWeight(t, toMgr[w]) + Held(t, wk[w])
    BY <2>1, <2>2
  <2> HIDE DEF d
  <2> QED BY <1>3, <1>10, <2>3, <2>4
<1> QED BY <1>1, <1>9, <1>10

(* An entry moves from the open directory to the buffer. *)
LEMMA ReadEntryFlow ==
  ASSUME TalkInv, TalkInv', NEW w \in Workers, ReadEntry(w)
  PROVE  \A t : /\ All(t)' = All(t)
                /\ ItemsWeight(t, toMgr'[w]) = ItemsWeight(t, toMgr[w])
                /\ Held(t, wk'[w]) = Held(t, wk[w])
<1> DEFINE s == wk[w]
           next == [s EXCEPT !.ents = Tail(@), !.out = Append(@, Head(s.ents))]
<1>1. /\ Working(w, "treewalk_readdir") /\ s.dip /\ s.ents # <<>>
      /\ UNCHANGED <<o, manager, toWrk, printed, statted>>
      /\ \/ tw_sendpaths(w, next)
         \/ Set(w, next) /\ UNCHANGED toMgr
  BY DEF ReadEntry, OnlyWorker
<1>2. /\ AtWork(w) /\ s \in Local /\ s.pc = "work" /\ Busy(s) /\ Reading(s)
      /\ s.item.do_work = "treewalk_readdir" /\ s.ents \in Seq(Path) /\ s.out \in Seq(Path)
  BY <1>1, InWalk, LocalFields DEF WalkFns
<1>3. UNCHANGED <<o, workq, toWrk>>
  BY <1>1 DEF manager
<1>4. Tail(s.ents) \in Seq(Path) /\ Append(s.out, Head(s.ents)) \in Seq(Path) /\ Head(s.ents) \in Path
  BY <1>1, <1>2
<1>5. /\ next \in Local /\ next.pc = "work" /\ next.item = s.item /\ next.i = s.i /\ next.dip = s.dip
      /\ next.ents = Tail(s.ents) /\ next.perf = s.perf
      /\ next.out = Append(s.out, Head(s.ents)) /\ next.pair = s.pair /\ next.offer = s.offer
  BY <1>2, <1>4 DEF Local
<1> HIDE DEF next
<1>6. Busy(next) /\ Reading(next)
  <2>1. Reading(next)
    BY <1>1, <1>2, <1>5 DEF Reading
  <2> QED BY <1>2, <1>5, <2>1 DEF Busy
<1>7. \/ Set(w, next) /\ UNCHANGED toMgr
      \/ worker_sendrequest(w, next, 0, Buffer(OtherFn(next.item.do_work), next.out))
  BY <1>1, <1>2, <1>5 DEF tw_sendpaths, OtherFn
<1>8. next.item.do_work \in WalkFns
  BY <1>2, <1>5 DEF WalkFns
<1>9. \A t : /\ All(t)' + Held(t, s) = All(t) + Held(t, next)
             /\ All(t)' \in Nat /\ All(t) \in Nat /\ Held(t, s) \in Nat /\ Held(t, next) \in Nat
             /\ ItemsWeight(t, toMgr'[w]) = ItemsWeight(t, toMgr[w])
             /\ Held(t, wk'[w]) = Held(t, next)
  BY <1>2, <1>3, <1>5, <1>6, <1>7, <1>8, WalkOnFlow
<1>10. ASSUME NEW t PROVE Held(t, next) = Held(t, s)
  <2> DEFINE r == PathsWeight(t, "treewalk_readdir", Rest(s))
             e == PathsWeight(t, "treewalk_statpath", s.ents)
             f == PathsWeight(t, "treewalk_statpath", next.ents)
             c == PathsWeight(t, "treewalk_statpath", s.out)
             d == PathsWeight(t, "treewalk_statpath", next.out)
             p == PerfWeight(t, s.perf)
             b == Bit(s.dip /\ t = <<"dirs">>)
             x == PathWeight(t, "treewalk_statpath", Head(s.ents))
             h == Held(t, s)
             k == Held(t, next)
  <2>0. b \in Nat
    BY DEF Bit
  <2>1. h = r + e + c + p + b /\ r \in Nat /\ e \in Nat /\ c \in Nat /\ p \in Nat
    BY <1>2, HeldReading
  <2>2. /\ k = PathsWeight(t, "treewalk_readdir", Rest(next)) + f + d
               + PerfWeight(t, next.perf) + Bit(next.dip /\ t = <<"dirs">>)
        /\ f \in Nat /\ d \in Nat
    BY <1>5, <1>6, HeldReading
  <2>3. Rest(next) = Rest(s)
    BY <1>5 DEF Rest
  <2>4. k = r + f + d + p + b
    BY <1>5, <2>2, <2>3
  <2>5. e = x + f
    BY <1>1, <1>2, <1>5, PathsHead
  <2>6. d = c + x
    BY <1>2, <1>4, <1>5, PathsAppend
  <2>7. x \in Nat
    BY PathWeightNat
  <2> HIDE DEF r, e, f, c, d, p, b, x, h, k
  <2>8. k = h
    BY <2>0, <2>1, <2>2, <2>4, <2>5, <2>6, <2>7
  <2> QED BY <2>8 DEF h, k
<1> QED BY <1>9, <1>10

(* The token of an open directory becomes a count. *)
LEMMA CloseDirFlow ==
  ASSUME TalkInv, TalkInv', NEW w \in Workers, CloseDir(w)
  PROVE  \A t : /\ All(t)' = All(t)
                /\ ItemsWeight(t, toMgr'[w]) = ItemsWeight(t, toMgr[w])
                /\ Held(t, wk'[w]) = Held(t, wk[w])
<1> DEFINE s == wk[w]
           next == [s EXCEPT !.dip = FALSE, !.i = @ + 1, !.perf = perfstat_inc_counter(@, "dirs")]
<1>1. /\ Working(w, "treewalk_readdir") /\ s.dip /\ s.ents = <<>>
      /\ UNCHANGED <<o, manager, toWrk, toMgr, printed, statted>>
      /\ wk' = [wk EXCEPT ![w] = next]
  BY DEF CloseDir, OnlyWorker, Set
<1>2. /\ AtWork(w) /\ s \in Local /\ s.pc = "work" /\ Busy(s) /\ Reading(s)
      /\ s.item.do_work = "treewalk_readdir" /\ s.i \in Nat /\ s.i > 0 /\ Len(Todo(w)) \in Nat
      /\ s.perf \in Perf /\ s.out \in Seq(Path)
  BY <1>1, InWalk, LocalFields DEF WalkFns
<1>3. UNCHANGED <<o, workq, toWrk>> /\ UNCHANGED toMgr
  BY <1>1 DEF manager
<1>4. perfstat_inc_counter(s.perf, "dirs") \in Perf /\ s.i + 1 \in Nat \ {0}
  BY <1>2, PerfInc
<1>5. /\ next \in Local /\ next.pc = "work" /\ next.item = s.item /\ next.i = s.i + 1 /\ next.dip = FALSE
      /\ next.ents = s.ents /\ next.out = s.out /\ next.pair = s.pair /\ next.offer = s.offer
      /\ next.perf = perfstat_inc_counter(s.perf, "dirs")
  BY <1>2, <1>4 DEF Local
<1> HIDE DEF next
<1>6. Busy(next) /\ Reading(next)
  <2>1. Reading(next)
    BY <1>1, <1>2, <1>5 DEF Reading, Todo
  <2> QED BY <1>2, <1>5, <2>1 DEF Busy
<1>7. \A t : /\ All(t)' + Held(t, s) = All(t) + Held(t, next)
             /\ All(t)' \in Nat /\ All(t) \in Nat /\ Held(t, s) \in Nat /\ Held(t, next) \in Nat
  BY <1>1, <1>3, OwnFlow
<1>8. wk'[w] = next
  BY <1>1 DEF TalkInv, TypeOK
<1>9. ASSUME NEW t PROVE Held(t, next) = Held(t, s)
  <2> DEFINE r == PathsWeight(t, "treewalk_readdir", Rest(s))
             e == PathsWeight(t, "treewalk_statpath", s.ents)
             c == PathsWeight(t, "treewalk_statpath", s.out)
             p == PerfWeight(t, s.perf)
             q == PerfWeight(t, next.perf)
             b == Bit(s.dip /\ t = <<"dirs">>)
             d == Bit(next.dip /\ t = <<"dirs">>)
             h == Held(t, s)
             k == Held(t, next)
  <2>0. b \in Nat
    BY DEF Bit
  <2>1. h = r + e + c + p + b /\ r \in Nat /\ e \in Nat /\ c \in Nat /\ p \in Nat
    BY <1>2, HeldReading
  <2>2. /\ k = PathsWeight(t, "treewalk_readdir", Rest(next)) + PathsWeight(t, "treewalk_statpath", next.ents)
               + PathsWeight(t, "treewalk_statpath", next.out) + q + d
        /\ q \in Nat /\ d \in Nat
    BY <1>5, <1>6, HeldReading
  <2>3. Rest(next) = Rest(s)
    BY <1>1, <1>5 DEF Rest
  <2>4. k = r + e + c + q + d
    BY <1>5, <2>2, <2>3
  <2>5. q + d = p + b
    <3>1. next.perf.dirs = s.perf.dirs + 1 /\ next.perf.compares = s.perf.compares + 0
      BY <1>2, <1>5, PerfInc
    <3>2. s.perf.dirs \in Nat /\ s.perf.compares \in Nat
      BY <1>2, PerfNat
    <3>3. CASE t = <<"dirs">>
      <4>1. d = 0 /\ b = 1
        BY <1>1, <1>5, <3>3 DEF Bit
      <4>2. q = s.perf.dirs + 1 /\ p = s.perf.dirs
        BY <3>1, <3>3 DEF PerfWeight
      <4> HIDE DEF q, d, p, b
      <4> QED BY <3>2, <4>1, <4>2
    <3>4. CASE t # <<"dirs">>
      <4>1. d = 0 /\ b = 0
        BY <3>4 DEF Bit
      <4>2. q = p
        BY <3>1, <3>2, <3>4 DEF PerfWeight
      <4> HIDE DEF q, d, p, b
      <4> QED BY <4>1, <4>2
    <3> HIDE DEF q, d, p, b
    <3> QED BY <3>3, <3>4
  <2> HIDE DEF r, e, c, p, q, b, d, h, k
  <2>6. k = h
    BY <2>0, <2>1, <2>2, <2>4, <2>5
  <2> QED BY <2>6 DEF h, k
<1>10. \A t : All(t)' = All(t)
  BY <1>7, <1>9
<1> QED BY <1>3, <1>8, <1>9, <1>10

-----------------------------------------------------------------------------
(* Past the last path nothing is left to do. *)
LEMMA RestDone ==
  ASSUME NEW s, ~s.dip, PathsOf(s.item) \in Seq(Path), s.i \in Nat, s.i > Len(PathsOf(s.item)), NEW t, NEW fn
  PROVE  PathsWeight(t, fn, Rest(s)) = 0
<1> DEFINE q == PathsOf(s.item)
<1>1. Rest(s) = SubSeq(q, s.i, Len(q))
  BY DEF Rest
<1>2. q \in Seq(Path) /\ s.i > Len(q)
  OBVIOUS
<1> HIDE DEF q
<1>3. SubSeq(q, s.i, Len(q)) = <<>>
  BY <1>2
<1> QED BY <1>1, <1>3, PathsNone

(* The end of an item offers the buffer, or sends the counters. *)
LEMMA WalkEndFlow ==
  ASSUME TalkInv, TalkInv', NEW w \in Workers, WalkEnd(w)
  PROVE  /\ \A t : All(t)' = All(t)
         /\ \/ \A t : /\ ItemsWeight(t, toMgr'[w]) = ItemsWeight(t, toMgr[w])
                      /\ Held(t, wk'[w]) = Held(t, wk[w])
            \/ /\ wk'[w] = Waiting
               /\ \A t : /\ ItemsWeight(t, toMgr'[w]) = ItemsWeight(t, toMgr[w]) + Held(t, wk[w])
                         /\ Held(t, wk[w]) = PerfWeight(t, wk[w].perf)
<1> DEFINE s == wk[w]
<1>1. /\ ~s.dip /\ s.pair = NoData /\ s.i > Len(Todo(w))
      /\ \/ Working(w, "treewalk_statpath") /\ tw_senddirs(w, s)
         \/ Working(w, "treewalk_readdir") /\ tw_sendpaths(w, s)
         \/ /\ Working(w, "treewalk_statpath") \/ Working(w, "treewalk_readdir")
            /\ s.out = <<>> /\ tw_senddone(w, s.perf)
      /\ UNCHANGED <<o, manager, toWrk, printed, statted>>
  BY DEF WalkEnd, OnlyWorker
<1>2. Working(w, "treewalk_statpath") \/ Working(w, "treewalk_readdir")
  BY <1>1
<1>3. /\ AtWork(w) /\ s \in Local /\ s.pc = "work" /\ Busy(s) /\ s.perf \in Perf /\ s.item.do_work \in WalkFns
      /\ Todo(w) \in Seq(Path) /\ s.i \in Nat
  BY <1>2, InWalk, LocalFields DEF WalkFns
<1>4. UNCHANGED <<o, workq, toWrk>>
  BY <1>1 DEF manager
<1>5. CASE worker_sendrequest(w, s, 0, Buffer(OtherFn(s.item.do_work), s.out))
  <2>1. \A t : /\ All(t)' + Held(t, s) = All(t) + Held(t, s)
               /\ All(t)' \in Nat /\ All(t) \in Nat /\ Held(t, s) \in Nat
               /\ ItemsWeight(t, toMgr'[w]) = ItemsWeight(t, toMgr[w])
               /\ Held(t, wk'[w]) = Held(t, s)
    BY <1>3, <1>4, <1>5, WalkOnFlow
  <2>2. \A t : All(t)' = All(t)
    <3> SUFFICES ASSUME NEW t PROVE All(t)' = All(t)
      OBVIOUS
    <3> DEFINE a == All(t)
               b == All(t)'
               h == Held(t, s)
    <3>1. b + h = a + h /\ a \in Nat /\ b \in Nat /\ h \in Nat
      BY <2>1
    <3> HIDE DEF a, b, h
    <3>2. b = a
      BY <3>1
    <3> QED BY <3>2 DEF a, b
  <2> QED BY <2>1, <2>2
<1>6. CASE s.out = <<>> /\ tw_senddone(w, s.perf)
  <2>1. \A t : /\ All(t)' + Held(t, s) = All(t) + PerfWeight(t, s.perf)
               /\ All(t)' \in Nat /\ All(t) \in Nat /\ Held(t, s) \in Nat /\ PerfWeight(t, s.perf) \in Nat
               /\ ItemsWeight(t, toMgr'[w]) = ItemsWeight(t, toMgr[w]) + PerfWeight(t, s.perf)
               /\ wk'[w] = Waiting
    BY <1>3, <1>4, <1>6, WalkDoneFlow
  <2>2. ASSUME NEW t PROVE Held(t, s) = PerfWeight(t, s.perf)
    <3> DEFINE p == PerfWeight(t, s.perf)
               h == Held(t, s)
    <3>0. p \in Nat
      BY <2>1
    <3>1. PathsOf(s.item) \in Seq(Path) /\ s.i > Len(PathsOf(s.item))
      BY <1>1, <1>3 DEF Todo
    <3>2. CASE Working(w, "treewalk_statpath")
      <4> DEFINE r == PathsWeight(t, "treewalk_statpath", Rest(s))
                 c == PathsWeight(t, "treewalk_readdir", s.out)
                 l == LeftWeight(t, s.pair)
      <4>1. Statting(s)
        BY <3>2, InWalk DEF WalkFns
      <4>2. h = r + c + l + p
        BY <1>3, <4>1, HeldStatting
      <4>3. r = 0
        BY <1>1, <1>3, <3>1, RestDone
      <4>4. c = 0
        BY <1>6, PathsNone
      <4>5. l = 0
        BY <1>1 DEF LeftWeight
      <4> HIDE DEF r, c, l, p, h
      <4>6. h = p
        BY <3>0, <4>2, <4>3, <4>4, <4>5
      <4> QED BY <4>6 DEF h, p
    <3>3. CASE Working(w, "treewalk_readdir")
      <4> DEFINE r == PathsWeight(t, "treewalk_readdir", Rest(s))
                 e == PathsWeight(t, "treewalk_statpath", s.ents)
                 c == PathsWeight(t, "treewalk_statpath", s.out)
                 b == Bit(s.dip /\ t = <<"dirs">>)
      <4>1. Reading(s)
        BY <3>3, InWalk DEF WalkFns
      <4>2. h = r + e + c + p + b
        BY <1>3, <4>1, HeldReading
      <4>3. r = 0
        BY <1>1, <1>3, <3>1, RestDone
      <4>4. c = 0
        BY <1>6, PathsNone
      <4>5. e = 0
        BY <1>1, <4>1, PathsNone DEF Reading
      <4>6. b = 0
        BY <1>1, BitFalse
      <4> HIDE DEF r, e, c, b, p, h
      <4>7. h = p
        BY <3>0, <4>2, <4>3, <4>4, <4>5, <4>6
      <4> QED BY <4>7 DEF h, p
    <3> QED BY <1>2, <3>2, <3>3
  <2>3. \A t : All(t)' = All(t)
    <3> SUFFICES ASSUME NEW t PROVE All(t)' = All(t)
      OBVIOUS
    <3> DEFINE a == All(t)
               b == All(t)'
               h == Held(t, s)
               p == PerfWeight(t, s.perf)
    <3>1. b + h = a + p /\ a \in Nat /\ b \in Nat /\ h \in Nat /\ p = h
      BY <2>1, <2>2
    <3> HIDE DEF a, b, h, p
    <3>2. b = a
      BY <3>1
    <3> QED BY <3>2 DEF a, b
  <2> QED BY <2>1, <2>2, <2>3
<1>7. CASE tw_senddirs(w, s) /\ Working(w, "treewalk_statpath")
  <2>1. worker_sendrequest(w, s, 0, Buffer(OtherFn(s.item.do_work), s.out))
    BY <1>7 DEF tw_senddirs, Working, OtherFn
  <2> QED BY <1>5, <2>1
<1>8. CASE tw_sendpaths(w, s) /\ Working(w, "treewalk_readdir")
  <2>1. worker_sendrequest(w, s, 0, Buffer(OtherFn(s.item.do_work), s.out))
    BY <1>8 DEF tw_sendpaths, Working, OtherFn
  <2> QED BY <1>5, <2>1
<1> QED BY <1>1, <1>6, <1>7, <1>8

-----------------------------------------------------------------------------
(* What a file adds when it is stat-ed by the compare. *)
FirstPart(f) ==
  IF Chunked(f) THEN [filepair_new(f) EXCEPT !.chunknum = 0] ELSE filepair_new(f)

NewHeld(t, f) == IF Compared(f) THEN LeftWeight(t, FirstPart(f)) ELSE 0

NewSent(t, f) == Bit(Compared(f) /\ Chunked(f) /\ t = <<"add", f>>)

(* The first part of a file that is compared. *)
LEMMA FirstPartIs ==
  ASSUME NEW f \in DOMAIN Src
  PROVE  /\ FirstPart(f) \in PairData /\ FirstPart(f).src = f /\ FirstPart(f) # NoData
         /\ FirstPart(f).chunknum = IF Chunked(f) THEN 0 ELSE -1
         /\ FirstPart(f).chunknum \in -1..nproc - 1
<1>1. nproc \in Nat /\ nproc > 1
  BY Ranks
<1>2. filepair_new(f) \in PairData /\ filepair_new(f).chunknum = -1 /\ filepair_new(f).src = f
  BY Pairs
<1>3. [filepair_new(f) EXCEPT !.chunknum = 0] \in PairData /\ [filepair_new(f) EXCEPT !.chunknum = 0].chunknum = 0
      /\ [filepair_new(f) EXCEPT !.chunknum = 0].src = f
  BY <1>1, <1>2 DEF PairData
<1>4. NoData \notin PairData
  BY Pairs
<1> HIDE DEF NoData
<1>5. CASE Chunked(f)
  <2>1. FirstPart(f) = [filepair_new(f) EXCEPT !.chunknum = 0]
    BY <1>5 DEF FirstPart
  <2> QED BY <1>1, <1>3, <1>4, <1>5, <2>1
<1>6. CASE ~Chunked(f)
  <2>1. FirstPart(f) = filepair_new(f)
    BY <1>6 DEF FirstPart
  <2> QED BY <1>1, <1>2, <1>4, <1>6, <2>1
<1> QED BY <1>5, <1>6

(* The tokens of a file that is stat-ed are natural numbers. *)
LEMMA NewNat ==
  ASSUME NEW t, NEW f \in DOMAIN Src
  PROVE  NewHeld(t, f) \in Nat /\ NewSent(t, f) \in Nat
BY FirstPartIs, LeftNat DEF NewHeld, NewSent, Bit

(* The stat token of a file becomes the tokens of its parts, held by the *)
(* worker, and of its announcement, sent to the manager.                 *)
LEMMA StatFileFlow ==
  ASSUME TalkInv, TalkInv', NEW w \in Workers, StatFile(w)
  PROVE  \E p \in DOMAIN Src :
           /\ statted' = [statted EXCEPT ![p] = @ + 1]
           /\ o.app = "cmp" => UNCHANGED printed
           /\ Statting(wk[w]) /\ wk[w].pair = NoData /\ wk[w].pc = "work"
           /\ \A t : /\ All(t)' + PathWeight(t, "treewalk_statpath", p) = All(t) + NewHeld(t, p) + NewSent(t, p)
                     /\ ItemsWeight(t, toMgr'[w]) = ItemsWeight(t, toMgr[w]) + NewSent(t, p)
                     /\ Held(t, wk'[w]) + PathWeight(t, "treewalk_statpath", p) = Held(t, wk[w]) + NewHeld(t, p)
<1> DEFINE s == wk[w]
           p == Todo(w)[s.i]
           next == [s EXCEPT !.i = @ + 1, !.perf = perfstat_inc_counter(@, "stats")]
           counted == [next EXCEPT !.perf = perfstat_inc_counter(@, "stats")]
           pair == filepair_new(p)
           first == FirstPart(p)
           go == [counted EXCEPT !.pair = first]
           a == cmp_sendchunkfileadd(pair)
<1>1. /\ Working(w, "treewalk_statpath") /\ s.pair = NoData
      /\ s.i <= Len(Todo(w)) /\ p \in DOMAIN Src
      /\ statted' = [statted EXCEPT ![p] = @ + 1]
      /\ UNCHANGED <<o, manager, toWrk, failed>>
      /\ \/ /\ o.app = "treewalk"
            /\ Set(w, next) /\ UNCHANGED toMgr
         \/ o.app = "cmp" /\ cmp_process_file(w, p, next) /\ UNCHANGED printed
  BY DEF StatFile
<1>2. AtWork(w) /\ s \in Local /\ s.pc = "work" /\ Busy(s) /\ Statting(s)
      /\ s.item.do_work = "treewalk_statpath" /\ Todo(w) \in Seq(Path) /\ s.i \in Nat /\ s.i > 0
  BY <1>1, InWalk DEF WalkFns
<1>3. UNCHANGED <<o, workq, toWrk>>
  BY <1>1 DEF manager
<1>5. /\ s.perf \in Perf /\ perfstat_inc_counter(s.perf, "stats") \in Perf
      /\ perfstat_inc_counter(perfstat_inc_counter(s.perf, "stats"), "stats") \in Perf
  BY <1>2, LocalFields, PerfInc
<1>6. s.i + 1 \in Nat \ {0} /\ s.i + 1 <= Len(Todo(w)) + 1
  BY <1>1, <1>2
<1>7. pair \in PairData /\ pair.src = p /\ first \in PairData /\ first.chunknum \in -1..nproc - 1
  BY <1>1, Pairs, FirstPartIs
<1> HIDE DEF pair, first
<1>8. /\ next \in Local /\ next.pc = "work" /\ next.item = s.item /\ next.i = s.i + 1 /\ next.dip = s.dip
      /\ next.ents = s.ents /\ next.out = s.out /\ next.pair = s.pair /\ next.offer = s.offer
      /\ next.perf = perfstat_inc_counter(s.perf, "stats")
  BY <1>2, <1>5, <1>6 DEF Local
<1> HIDE DEF next
<1>9. /\ counted \in Local /\ counted.pc = "work" /\ counted.item = s.item /\ counted.i = s.i + 1
      /\ counted.dip = s.dip /\ counted.ents = s.ents /\ counted.out = s.out /\ counted.pair = s.pair
      /\ counted.offer = s.offer /\ counted.perf = perfstat_inc_counter(next.perf, "stats")
  BY <1>5, <1>8 DEF Local
<1> HIDE DEF counted
<1>10. /\ go \in Local /\ go.pc = "work" /\ go.item = s.item /\ go.i = s.i + 1
       /\ go.dip = s.dip /\ go.ents = s.ents /\ go.out = s.out /\ go.pair = first
       /\ go.offer = s.offer /\ go.perf = counted.perf
  BY <1>7, <1>9 DEF Local
<1>11. ASSUME NEW x, x \in Local, x.pc = "work", x.item = s.item, x.i = s.i + 1, x.dip = s.dip,
              x.ents = s.ents, x.out = s.out, x.offer = s.offer,
              x.pair = s.pair \/ (x.pair = first /\ first # NoData), \A t : PerfWeight(t, x.perf) = PerfWeight(t, s.perf)
       PROVE  \A t : /\ Held(t, x) + PathWeight(t, "treewalk_statpath", p) = Held(t, s) + LeftWeight(t, x.pair)
                     /\ Held(t, x) \in Nat /\ Held(t, s) \in Nat /\ LeftWeight(t, x.pair) \in Nat
  <2>1. nproc - 1 \in Nat
    BY Ranks
  <2>2. Statting(x)
    BY <1>1, <1>2, <1>6, <1>7, <1>11, <2>1 DEF Statting, Todo
  <2>3. Busy(x)
    BY <1>2, <1>11, <2>2 DEF Busy
  <2> SUFFICES ASSUME NEW t
               PROVE  /\ Held(t, x) + PathWeight(t, "treewalk_statpath", p) = Held(t, s) + LeftWeight(t, x.pair)
                      /\ Held(t, x) \in Nat /\ Held(t, s) \in Nat /\ LeftWeight(t, x.pair) \in Nat
    OBVIOUS
  <2> DEFINE r == PathsWeight(t, "treewalk_statpath", Rest(s))
             q == PathsWeight(t, "treewalk_statpath", Rest(x))
             c == PathsWeight(t, "treewalk_readdir", s.out)
             l == LeftWeight(t, s.pair)
             k == LeftWeight(t, x.pair)
             e == PerfWeight(t, s.perf)
             y == PathWeight(t, "treewalk_statpath", p)
             h == Held(t, s)
             g == Held(t, x)
  <2>4. h = r + c + l + e /\ r \in Nat /\ c \in Nat /\ e \in Nat /\ h \in Nat
    BY <1>2, HeldStatting
  <2>5. /\ g = q + PathsWeight(t, "treewalk_readdir", x.out) + k + PerfWeight(t, x.perf)
        /\ q \in Nat /\ k \in Nat /\ g \in Nat
    BY <1>11, <2>2, <2>3, HeldStatting
  <2>6. g = q + c + k + e
    BY <1>11, <2>5
  <2>7. r = y + q
    <3>1. ~s.dip /\ ~x.dip /\ PathsOf(s.item) \in Seq(Path) /\ s.i <= Len(PathsOf(s.item))
      BY <1>1, <1>2, <1>11 DEF Statting, Todo
    <3> QED BY <1>2, <1>11, <3>1, RestNext DEF Todo
  <2>8. l = 0
    BY <1>1 DEF LeftWeight
  <2>9. y \in Nat
    BY PathWeightNat
  <2> HIDE DEF r, q, c, l, k, e, y, h, g
  <2>10. g + y = h + k
    BY <2>4, <2>5, <2>6, <2>7, <2>8, <2>9
  <2> QED BY <2>4, <2>5, <2>10 DEF g, y, h, k
<1>12. \A t : PerfWeight(t, next.perf) = PerfWeight(t, s.perf) /\ PerfWeight(t, counted.perf) = PerfWeight(t, s.perf)
  <2>1. next.perf \in Perf
    BY <1>5, <1>8
  <2> QED BY <1>5, <1>8, <1>9, <2>1, PerfSame
<1>13. \/ Set(w, next) /\ UNCHANGED toMgr /\ ~Compared(p)
       \/ Set(w, go) /\ UNCHANGED toMgr /\ Compared(p) /\ ~Chunked(p)
       \/ Set(w, go) /\ SendToManager(<<a>>, w) /\ Compared(p) /\ Chunked(p)
  <2>1. CASE o.app = "treewalk"
    BY <1>1, <2>1 DEF Compared
  <2>2. CASE o.app = "cmp" /\ cmp_process_file(w, p, next)
    <3>1. CASE Dest[p].lstat = "error"
      BY <2>2, <3>1 DEF cmp_process_file, Compared
    <3>2. CASE Dest[p].lstat # "error" /\ Chunked(p)
      BY <2>2, <3>2 DEF cmp_process_file, Compared, FirstPart, pair, first, counted
    <3>3. CASE Dest[p].lstat # "error" /\ ~Chunked(p)
      BY <2>2, <3>3 DEF cmp_process_file, Compared, FirstPart, pair, first, counted
    <3> QED BY <3>1, <3>2, <3>3
  <2> QED BY <1>1, <2>1, <2>2
<1> HIDE DEF go, a
<1> DEFINE Flow(t) ==
      /\ All(t)' + PathWeight(t, "treewalk_statpath", p) = All(t) + NewHeld(t, p) + NewSent(t, p)
      /\ ItemsWeight(t, toMgr'[w]) = ItemsWeight(t, toMgr[w]) + NewSent(t, p)
      /\ Held(t, wk'[w]) + PathWeight(t, "treewalk_statpath", p) = Held(t, wk[w]) + NewHeld(t, p)
<1>14. CASE Set(w, next) /\ UNCHANGED toMgr /\ ~Compared(p)
  <2>1. wk' = [wk EXCEPT ![w] = next] /\ wk'[w] = next
    BY <1>14 DEF Set, TalkInv, TypeOK
  <2>2. \A t : /\ All(t)' + Held(t, s) = All(t) + Held(t, next)
               /\ All(t)' \in Nat /\ All(t) \in Nat
    BY <1>3, <1>14, <2>1, OwnFlow
  <2> SUFFICES ASSUME NEW t PROVE Flow(t)
    BY <1>1, <1>2
  <2> DEFINE x == All(t)
             y == All(t)'
             h == Held(t, s)
             k == Held(t, next)
             q == PathWeight(t, "treewalk_statpath", p)
             i == ItemsWeight(t, toMgr[w])
  <2>3. k + q = h + LeftWeight(t, next.pair) /\ k \in Nat /\ h \in Nat
    BY <1>8, <1>11, <1>12
  <2>4. LeftWeight(t, next.pair) = 0
    BY <1>1, <1>8 DEF LeftWeight
  <2>5. y + h = x + k /\ y \in Nat /\ x \in Nat
    BY <2>2
  <2>6. q \in Nat /\ i \in Nat
    BY PathWeightNat, WithNat
  <2>7. NewHeld(t, p) = 0 /\ NewSent(t, p) = 0
    BY <1>14 DEF NewHeld, NewSent, Bit
  <2>8. ItemsWeight(t, toMgr'[w]) = i /\ Held(t, wk'[w]) = k
    BY <1>14, <2>1
  <2> HIDE DEF x, y, h, k, q, i
  <2>9. y + q = x + 0 + 0 /\ i = i + 0 /\ k + q = h + 0
    BY <2>3, <2>4, <2>5, <2>6
  <2> QED BY <2>7, <2>8, <2>9 DEF x, y, h, k, q, i
<1>15. CASE Set(w, go) /\ Compared(p)
  <2>1. wk' = [wk EXCEPT ![w] = go] /\ wk'[w] = go
    BY <1>15 DEF Set, TalkInv, TypeOK
  <2> SUFFICES ASSUME NEW t PROVE Flow(t)
    BY <1>1, <1>2
  <2> DEFINE x == All(t)
             y == All(t)'
             h == Held(t, s)
             k == Held(t, go)
             q == PathWeight(t, "treewalk_statpath", p)
             i == ItemsWeight(t, toMgr[w])
             j == ItemsWeight(t, toMgr'[w])
             n == NewSent(t, p)
             m == NewHeld(t, p)
  <2>2. first # NoData /\ m = LeftWeight(t, first)
    BY <1>1, <1>15, FirstPartIs DEF first, NewHeld
  <2>3. k + q = h + m /\ k \in Nat /\ h \in Nat /\ m \in Nat
    BY <1>10, <1>11, <1>12, <2>2
  <2>4. /\ y + h = x + k + n /\ y \in Nat /\ x \in Nat /\ n \in Nat
        /\ j = i + n
    <3>1. CASE UNCHANGED toMgr /\ ~Chunked(p)
      <4>1. n = 0
        BY <3>1 DEF NewSent, Bit
      <4>2. y + h = x + k /\ y \in Nat /\ x \in Nat
        BY <1>3, <2>1, <3>1, OwnFlow
      <4>3. j = i /\ i \in Nat
        BY <3>1, WithNat
      <4> HIDE DEF x, y, h, k, i, j, n
      <4> QED BY <2>3, <4>1, <4>2, <4>3
    <3>2. CASE SendToManager(<<a>>, w) /\ Chunked(p)
      <4>1. a \in Announce /\ a.workdata.src = p
        BY <1>7, AnnounceItem DEF a
      <4>2. a \in Outbox
        BY <4>1 DEF Outbox
      <4>3. Weight(t, a) = n
        BY <1>15, <3>2, <4>1, Kinds DEF Weight, WalkFns, NewSent
      <4>4. /\ All(t)' + Held(t, wk[w]) = All(t) + Held(t, go) + Weight(t, a)
            /\ ItemsWeight(t, toMgr'[w]) = ItemsWeight(t, toMgr[w]) + Weight(t, a)
            /\ All(t)' \in Nat /\ All(t) \in Nat /\ Held(t, wk[w]) \in Nat /\ Held(t, go) \in Nat
            /\ Weight(t, a) \in Nat
        BY ONLY TalkInv, TalkInv', w \in Workers, <1>3, <2>1, <3>2, <4>2, SentFlow
      <4> QED BY <4>3, <4>4
    <3> QED BY <1>13, <1>14, <1>15, <3>1, <3>2
  <2>5. q \in Nat /\ i \in Nat
    BY PathWeightNat, WithNat
  <2>6. Held(t, wk'[w]) = k
    BY <2>1
  <2> HIDE DEF x, y, h, k, q, i, j, n, m
  <2>7. y + q = x + m + n /\ j = i + n /\ k + q = h + m
    BY <2>3, <2>4, <2>5
  <2> QED BY <2>6, <2>7 DEF x, y, h, k, q, i, j, n, m
<1> QED BY <1>13, <1>14, <1>15

-----------------------------------------------------------------------------
(* Offering the next part of a file moves it. *)
LEMMA LeftNext ==
  ASSUME NEW pair \in PairData, pair.chunknum \in -1..nproc - 1, NEW left,
         left = IF pair.chunknum >= 0 /\ pair.chunknum + 1 < nproc
                  THEN [pair EXCEPT !.chunknum = @ + 1] ELSE NoData, NEW t
  PROVE  /\ LeftWeight(t, pair) = PartWeight(t, pair) + Bit(t = <<"compares">>) + LeftWeight(t, left)
         /\ LeftWeight(t, left) \in Nat /\ PartWeight(t, pair) \in Nat /\ Bit(t = <<"compares">>) \in Nat
<1> DEFINE n == pair.chunknum
           f == pair.src
           one == {<<"pair", f>>, <<"compares">>}
<1>1. nproc \in Nat /\ nproc > 1 /\ n \in Int /\ n >= -1 /\ n < nproc
  BY Ranks
<1>2. pair # NoData
  BY Pairs
<1>3. /\ \A k : <<"part", f, k>> \notin one
      /\ <<"pair", f>> # <<"compares">>
      /\ \A k, j : <<"part", f, k>> = <<"part", f, j>> => k = j
  OBVIOUS
<1>4. PartWeight(t, pair) \in Nat /\ Bit(t = <<"compares">>) \in Nat
  BY PartWeightNat DEF Bit
<1>5. PartWeight(t, pair) + Bit(t = <<"compares">>)
        = IF t \in one THEN 1 ELSE IF t = <<"part", f, n>> THEN 1 ELSE 0
  BY <1>3 DEF PartWeight, Bit
<1>6. LeftWeight(t, pair)
        = IF t \in one THEN (IF n < 0 THEN 1 ELSE nproc - n)
          ELSE IF \E k \in PartsLeft(pair) : t = <<"part", f, k>> THEN 1 ELSE 0
  BY <1>2 DEF LeftWeight, Bit
<1>7. CASE n >= 0 /\ n + 1 < nproc
  <2>1. left = [pair EXCEPT !.chunknum = n + 1]
    BY <1>7
  <2>2. n + 1 \in -1..nproc
    BY <1>1, <1>7
  <2>3. left \in PairData /\ left.chunknum = n + 1 /\ left.src = f
    BY <2>1, <2>2 DEF PairData
  <2>4. left # NoData
    BY <2>3, Pairs
  <2>5. LeftWeight(t, left)
          = IF t \in one THEN (IF n + 1 < 0 THEN 1 ELSE nproc - (n + 1))
            ELSE IF \E k \in PartsLeft(left) : t = <<"part", f, k>> THEN 1 ELSE 0
    BY <2>3, <2>4 DEF LeftWeight, Bit
  <2>6. PartsLeft(pair) = n..nproc - 1 /\ PartsLeft(left) = n + 1..nproc - 1
    BY <1>1, <1>7, <2>3 DEF PartsLeft
  <2>7. CASE t \in one
    BY <1>1, <1>4, <1>5, <1>6, <1>7, <2>5, <2>7
  <2>8. CASE t \notin one
    <3>1. PartsLeft(pair) = {n} \cup PartsLeft(left) /\ n \notin PartsLeft(left)
      BY <1>1, <1>7, <2>6
    <3>2. (\E k \in PartsLeft(pair) : t = <<"part", f, k>>)
            <=> t = <<"part", f, n>> \/ \E k \in PartsLeft(left) : t = <<"part", f, k>>
      BY <3>1
    <3>3. ~(t = <<"part", f, n>> /\ \E k \in PartsLeft(left) : t = <<"part", f, k>>)
      BY <1>3, <3>1
    <3> HIDE DEF one, n, f
    <3> QED BY <1>4, <1>5, <1>6, <2>5, <2>8, <3>2, <3>3
  <2> QED BY <2>7, <2>8
<1>8. CASE ~(n >= 0 /\ n + 1 < nproc)
  <2>1. LeftWeight(t, left) = 0
    BY <1>8 DEF LeftWeight
  <2>2. PartsLeft(pair) = {n}
    BY <1>1, <1>8 DEF PartsLeft
  <2>3. (\E k \in PartsLeft(pair) : t = <<"part", f, k>>) <=> t = <<"part", f, n>>
    BY <2>2
  <2>4. (IF n < 0 THEN 1 ELSE nproc - n) = 1
    BY <1>1, <1>8
  <2> HIDE DEF one, n, f
  <2> QED BY <1>4, <1>5, <1>6, <2>1, <2>3, <2>4
<1> QED BY <1>7, <1>8

(* Offering a part moves its token to the offer. *)
LEMMA SendPathsFlow ==
  ASSUME TalkInv, TalkInv', NEW w \in Workers, cmp_sendpaths(w)
  PROVE  \A t : /\ All(t)' = All(t)
                /\ ItemsWeight(t, toMgr'[w]) = ItemsWeight(t, toMgr[w])
                /\ Held(t, wk'[w]) = Held(t, wk[w])
<1> DEFINE s == wk[w]
           pair == s.pair
           more == pair.chunknum >= 0 /\ pair.chunknum + 1 < nproc
           left == IF more THEN [pair EXCEPT !.chunknum = @ + 1] ELSE NoData
           state == [s EXCEPT !.pair = left]
           m == [workitem_new(MANAGER_PROC) EXCEPT !.do_work = "cmp_compare", !.qidx = 1, !.workdata = pair]
           x == [state EXCEPT !.pc = "ack", !.offer = m]
           ask == Request(1, 0)
<1>1. Working(w, "treewalk_statpath") /\ pair # NoData /\ worker_sendrequest(w, state, 1, m)
      /\ UNCHANGED <<o, manager, toWrk, printed, statted>>
  BY DEF cmp_sendpaths, OnlyWorker
<1>2. AtWork(w) /\ s \in Local /\ s.pc = "work" /\ Busy(s) /\ Statting(s)
      /\ s.item.do_work = "treewalk_statpath"
  BY <1>1, InWalk DEF WalkFns
<1>3. UNCHANGED <<o, workq, toWrk>>
  BY <1>1 DEF manager
<1>4. pair \in PairData /\ pair.chunknum \in -1..nproc - 1
  BY <1>1, <1>2, LocalFields DEF Statting
<1>5. m \in Compare /\ m \in Item /\ m.workdata = pair
  BY <1>4, CompareItem DEF Compare
<1>6. \A t : /\ LeftWeight(t, pair) = PartWeight(t, pair) + Bit(t = <<"compares">>) + LeftWeight(t, left)
             /\ LeftWeight(t, left) \in Nat /\ PartWeight(t, pair) \in Nat /\ Bit(t = <<"compares">>) \in Nat
  <2>1. left = IF pair.chunknum >= 0 /\ pair.chunknum + 1 < nproc
                 THEN [pair EXCEPT !.chunknum = @ + 1] ELSE NoData
    OBVIOUS
  <2> HIDE DEF left, pair
  <2> QED BY <1>4, <2>1, LeftNext
<1>7. \A t : Weight(t, m) = PartWeight(t, pair) + Bit(t = <<"compares">>)
  BY <1>5, Kinds DEF Weight, WalkFns
<1>8. wk' = [wk EXCEPT ![w] = x] /\ SendToManager(<<ask>>, w)
  BY <1>1 DEF worker_sendrequest, Set
<1>9. ask \in Ask /\ ask \in Outbox
  BY RequestItem DEF Outbox
<1>10. x.item = s.item /\ x.i = s.i /\ x.dip = s.dip /\ x.ents = s.ents /\ x.out = s.out
       /\ x.perf = s.perf /\ x.pair = left /\ x.offer = m
  BY <1>2 DEF Local
<1>11. m.workdata.type # "paths"
  BY <1>4, <1>5, DataTypes
<1> HIDE DEF x, m, left, ask
<1>12. wk'[w] = x
  BY <1>8 DEF TalkInv, TypeOK
<1>13. ASSUME NEW t PROVE Held(t, x) = Held(t, s)
  <2> DEFINE r == PathsWeight(t, "treewalk_statpath", Rest(s))
             c == PathsWeight(t, "treewalk_readdir", s.out)
             l == LeftWeight(t, pair)
             k == LeftWeight(t, left)
             e == PerfWeight(t, s.perf)
             y == PartWeight(t, pair)
             z == Bit(t = <<"compares">>)
             h == Held(t, s)
             g == Held(t, x)
  <2>1. h = r + c + l + e /\ r \in Nat /\ c \in Nat /\ l \in Nat /\ e \in Nat
    BY <1>2, HeldStatting
  <2>2. l = y + z + k /\ k \in Nat /\ y \in Nat /\ z \in Nat
    BY <1>6
  <2>3. Rest(x) = Rest(s)
    BY <1>10 DEF Rest
  <2>4. BufferHeld(t, x) = c
    BY <1>2, <1>10, <1>11 DEF BufferHeld, OtherFn
  <2>5. Weight(t, x.offer) = y + z
    BY <1>7, <1>10
  <2>6. PathsWeight(t, "treewalk_statpath", x.ents) = 0
    BY <1>2, <1>10, PathsNone DEF Statting
  <2>7. Bit(x.dip /\ t = <<"dirs">>) = 0
    BY <1>2, <1>10, BitFalse DEF Statting
  <2>8. g = PathsWeight(t, x.item.do_work, Rest(x)) + PathsWeight(t, "treewalk_statpath", x.ents)
            + BufferHeld(t, x) + Weight(t, x.offer) + LeftWeight(t, x.pair) + PerfWeight(t, x.perf)
            + Bit(x.dip /\ t = <<"dirs">>)
    BY <1>2, <1>10 DEF Held, WalkFns
  <2>9. g = r + 0 + c + (y + z) + k + e + 0
    BY <1>2, <1>10, <2>3, <2>4, <2>5, <2>6, <2>7, <2>8
  <2> HIDE DEF r, c, l, k, e, y, z, h, g
  <2>10. g = h
    BY <2>1, <2>2, <2>9
  <2> QED BY <2>10 DEF g, h
<1> SUFFICES ASSUME NEW t
             PROVE  /\ All(t)' = All(t)
                    /\ ItemsWeight(t, toMgr'[w]) = ItemsWeight(t, toMgr[w])
                    /\ Held(t, wk'[w]) = Held(t, wk[w])
  OBVIOUS
<1>14. /\ All(t)' + Held(t, wk[w]) = All(t) + Held(t, x) + Weight(t, ask)
       /\ ItemsWeight(t, toMgr'[w]) = ItemsWeight(t, toMgr[w]) + Weight(t, ask)
       /\ All(t)' \in Nat /\ All(t) \in Nat /\ Held(t, wk[w]) \in Nat /\ Held(t, x) \in Nat
       /\ Weight(t, ask) \in Nat
  BY ONLY TalkInv, TalkInv', w \in Workers, <1>3, <1>8, <1>9, SentFlow
<1>15. Weight(t, ask) = 0
  BY <1>9, Weightless
<1>16. ItemsWeight(t, toMgr[w]) \in Nat
  BY WithNat
<1> DEFINE a == All(t)
           b == All(t)'
           h == Held(t, wk[w])
           i == ItemsWeight(t, toMgr[w])
<1>17. b + h = a + h + 0 /\ a \in Nat /\ b \in Nat /\ h \in Nat /\ i \in Nat
  BY <1>13, <1>14, <1>15, <1>16
<1>18. ItemsWeight(t, toMgr'[w]) = i + 0
  BY <1>14, <1>15
<1> HIDE DEF a, b, h, i
<1>19. b = a /\ i + 0 = i
  BY <1>17
<1> QED BY <1>12, <1>13, <1>18, <1>19 DEF a, b, i

-----------------------------------------------------------------------------
(* What cmp_compare sends. *)
Compares(w, m, pair, outcome) ==
  /\ wk[w].item.workdata \in PairData /\ outcome \in Outcomes(wk[w].item.workdata)
  /\ outcome[2] \in BOOLEAN
  /\ pair = [wk[w].item.workdata EXCEPT !.matched = outcome[2]] /\ pair \in PairData
  /\ m \in DoneCompare /\ m.workdata.files = pair
  /\ m.workdata.perf.compares = 1 /\ m.workdata.perf.dirs = 0
  /\ SendToManager(<<m>>, w) /\ wk' = [wk EXCEPT ![w] = Waiting]
  /\ failed' = failed \cup ({<<outcome[1], pair.src>>} \ {<<"ok", pair.src>>})

(* cmp_compare sends one report, of one outcome, and the worker waits. *)
LEMMA CompareSends ==
  ASSUME TalkInv, NEW w \in Workers, cmp_compare(w)
  PROVE  \E m, pair, outcome : Compares(w, m, pair, outcome)
<1> DEFINE Pair(outcome) == [wk[w].item.workdata EXCEPT !.matched = outcome[2]]
           compared == perfstat_inc_counter(perfstat_new, "compares")
           PerfOf(outcome) == IF Pair(outcome).matched THEN perfstat_inc_counter(compared, "matched") ELSE compared
           Sent(outcome) == [workitem_new(MANAGER_PROC) EXCEPT
                               !.do_work = "cmp_workdone", !.manager_run = TRUE,
                               !.workdata = FileWorkStat(Pair(outcome), PerfOf(outcome))]
<1>1. PICK outcome \in Outcomes(wk[w].item.workdata) :
        /\ SendToManager(<<Sent(outcome)>>, w) /\ wk' = [wk EXCEPT ![w] = Waiting]
        /\ failed' = failed \cup ({<<outcome[1], Pair(outcome).src>>} \ {<<"ok", Pair(outcome).src>>})
  BY DEF cmp_compare, Set
<1>2. Working(w, "cmp_compare")
  BY DEF cmp_compare
<1>3. AtWork(w) /\ wk[w].item \in Work /\ wk[w].item.do_work = "cmp_compare"
  BY <1>2, AtWorkWhen DEF Working
<1>4. wk[w].item.workdata \in PairData
  BY <1>3, Kinds DEF Work, WalkFns
<1>5. outcome[2] \in BOOLEAN
  <2> DEFINE src == Src[wk[w].item.workdata.src]
             dst == Dest[wk[w].item.workdata.src]
             sameSize == Len(src.bytes) = Len(dst.bytes)
  <2> HIDE DEF src, dst, sameSize
  <2>1. src = Src[wk[w].item.workdata.src] /\ dst = Dest[wk[w].item.workdata.src]
        /\ (sameSize <=> Len(src.bytes) = Len(dst.bytes))
    BY DEF src, dst, sameSize
  <2> QED BY <2>1, OutcomeIs
<1> DEFINE pair == Pair(outcome)
           perf == PerfOf(outcome)
           m == Sent(outcome)
<1>6. pair \in PairData
  BY <1>4, <1>5 DEF PairData
<1>7. perf \in Perf /\ perf.compares = 1 /\ perf.dirs = 0
  <2>1. perfstat_new \in Perf /\ perfstat_new.compares = 0 /\ perfstat_new.dirs = 0
    BY DEF perfstat_new, Perf
  <2>2. compared \in Perf /\ compared.compares = 0 + 1 /\ compared.dirs = 0 + 0
    BY <2>1, PerfInc
  <2> HIDE DEF compared
  <2>3. /\ perfstat_inc_counter(compared, "matched") \in Perf
        /\ perfstat_inc_counter(compared, "matched").compares = compared.compares + 0
        /\ perfstat_inc_counter(compared, "matched").dirs = compared.dirs + 0
    BY <2>2, PerfInc
  <2> QED BY <2>2, <2>3
<1>8. pair = [wk[w].item.workdata EXCEPT !.matched = outcome[2]]
  OBVIOUS
<1>9. m = [workitem_new(MANAGER_PROC) EXCEPT !.do_work = "cmp_workdone", !.manager_run = TRUE,
                                            !.workdata = FileWorkStat(pair, perf)]
  OBVIOUS
<1> HIDE DEF perf
<1>10. /\ SendToManager(<<m>>, w) /\ wk' = [wk EXCEPT ![w] = Waiting]
       /\ failed' = failed \cup ({<<outcome[1], pair.src>>} \ {<<"ok", pair.src>>})
  BY <1>1 DEF perf
<1> HIDE DEF pair, m
<1>11. m \in DoneCompare /\ m.workdata.files = pair /\ m.workdata.perf = perf
  BY <1>6, <1>7, <1>9, CompareDoneItem
<1>12. Compares(w, m, pair, outcome)
  BY <1>4, <1>5, <1>6, <1>7, <1>8, <1>10, <1>11 DEF Compares
<1> QED BY <1>12

(* The token of the part compared moves to the report, and the comparison *)
(* becomes a count.                                                       *)
LEMMA CompareFlow ==
  ASSUME TalkInv, TalkInv', NEW w \in Workers, cmp_compare(w)
  PROVE  \A t : /\ All(t)' = All(t)
                /\ ItemsWeight(t, toMgr'[w]) = ItemsWeight(t, toMgr[w]) + Held(t, wk[w])
                /\ Held(t, wk[w]) = Weight(t, wk[w].item)
                /\ wk'[w] = Waiting
<1>1. PICK m, pair, outcome : Compares(w, m, pair, outcome)
  BY CompareSends
<1>2. Working(w, "cmp_compare") /\ UNCHANGED <<o, manager, toWrk>>
  BY DEF cmp_compare
<1>3. wk[w].item \in Work /\ wk[w].item.do_work = "cmp_compare"
  BY <1>2, AtWorkWhen DEF Working
<1>4. UNCHANGED <<o, workq, toWrk>>
  BY <1>2 DEF manager
<1>5. m \in DoneCompare /\ m \in Outbox
  BY <1>1 DEF Compares, Outbox, Done
<1> DEFINE s == Waiting
           d == wk[w].item.workdata
<1>6. SendToManager(<<m>>, w) /\ wk' = [wk EXCEPT ![w] = s]
  BY <1>1 DEF Compares
<1>7. wk'[w] = s
  BY <1>6 DEF TalkInv, TypeOK
<1> SUFFICES ASSUME NEW t
             PROVE  /\ All(t)' = All(t)
                    /\ ItemsWeight(t, toMgr'[w]) = ItemsWeight(t, toMgr[w]) + Held(t, wk[w])
                    /\ Held(t, wk[w]) = Weight(t, wk[w].item)
                    /\ wk'[w] = Waiting
  OBVIOUS
<1>8. Held(t, s) = 0
  BY WaitingState, HeldResting
<1> HIDE DEF s
<1>9. Held(t, wk[w]) = Weight(t, wk[w].item)
  BY <1>3 DEF Held, WalkFns
<1>10. Weight(t, wk[w].item) = PartWeight(t, d) + Bit(t = <<"compares">>)
  BY <1>3 DEF Weight, WalkFns
<1>11. pair.src = d.src /\ pair.chunknum = d.chunknum
  BY <1>1 DEF Compares, PairData
<1>12. Weight(t, m) = PartWeight(t, pair) + PerfWeight(t, m.workdata.perf)
  <2>1. m.do_work = "cmp_workdone" /\ m.workdata.files = pair
    BY <1>1, Kinds DEF Compares
  <2> QED BY <2>1 DEF Weight, WalkFns
<1>13. PartWeight(t, pair) = PartWeight(t, d)
  BY <1>11 DEF PartWeight
<1>14. PerfWeight(t, m.workdata.perf) = Bit(t = <<"compares">>)
  <2>1. m.workdata.perf.compares = 1 /\ m.workdata.perf.dirs = 0
    BY <1>1 DEF Compares
  <2>2. <<"dirs">> # <<"compares">>
    OBVIOUS
  <2> QED BY <2>1, <2>2 DEF PerfWeight, Bit
<1>15. Weight(t, m) = Held(t, wk[w])
  BY <1>9, <1>10, <1>12, <1>13, <1>14
<1>16. /\ All(t)' + Held(t, wk[w]) = All(t) + Held(t, s) + Weight(t, m)
       /\ ItemsWeight(t, toMgr'[w]) = ItemsWeight(t, toMgr[w]) + Weight(t, m)
       /\ All(t)' \in Nat /\ All(t) \in Nat /\ Held(t, wk[w]) \in Nat /\ Held(t, s) \in Nat
       /\ Weight(t, m) \in Nat
  BY ONLY TalkInv, TalkInv', w \in Workers, <1>4, <1>5, <1>6, SentFlow
<1> DEFINE a == All(t)
           b == All(t)'
           h == Held(t, wk[w])
<1>17. b + h = a + 0 + h /\ a \in Nat /\ b \in Nat /\ h \in Nat
  BY <1>8, <1>15, <1>16
<1> HIDE DEF a, b, h
<1>18. b = a
  BY <1>17
<1> QED BY <1>7, <1>9, <1>15, <1>16, <1>18 DEF a, b, s

(***************************************************************************)
(* A step, as the walk sees it.                                            *)
(***************************************************************************)

WalkStill ==
  /\ \A p : ToStat(p)' = ToStat(p) /\ ToRead(p)' = ToRead(p)
  /\ UNCHANGED statted

WalkStat(p) ==
  /\ p \in Path /\ Started
  /\ \A q : ToStat(q)' + Bit(q = p) = ToStat(q)
  /\ \A q : ToRead(q)' = ToRead(q) + Bit(q = p /\ p \in DOMAIN Entries)
  /\ statted' = [statted EXCEPT ![p] = @ + 1]

WalkOpen(d) ==
  /\ d \in DOMAIN Entries
  /\ \A q : ToStat(q)' = ToStat(q) + PathsWeight(<<"stat", q>>, "treewalk_statpath", Entries[d])
  /\ \A q : ToRead(q)' + Bit(q = d) = ToRead(q)
  /\ UNCHANGED statted

WalkFail ==
  /\ \A q : ToStat(q)' <= ToStat(q) /\ ToRead(q)' <= ToRead(q)
  /\ UNCHANGED statted /\ ~Complete'

WalkStart ==
  /\ ~Started
  /\ \A q : ToStat(q) = 0 /\ ToStat(q)' = PathsWeight(<<"stat", q>>, "treewalk_statpath", o.roots)
  /\ \A q : ToRead(q) = 0 /\ ToRead(q)' = 0
  /\ UNCHANGED statted

WalkStep ==
  /\ UNCHANGED o /\ failed \subseteq failed'
  /\ \/ Started' <=> Started
     \/ WalkStart /\ Started'
  /\ WalkStill \/ (\E p : WalkStat(p)) \/ (\E d : WalkOpen(d)) \/ WalkFail \/ WalkStart

(* The tokens of paths in the two kinds of buffers. *)
LEMMA StatToken ==
  /\ \A q, p : PathWeight(<<"stat", q>>, "treewalk_statpath", p) = Bit(q = p)
  /\ \A q, p : PathWeight(<<"stat", q>>, "treewalk_readdir", p) = 0
  /\ \A q, p : PathWeight(<<"read", q>>, "treewalk_statpath", p) = 0
  /\ \A q, p : PathWeight(<<"read", q>>, "treewalk_readdir", p) = Bit(q = p)
<1>1. \A q, p : <<"stat", q>> # <<"read", p>> /\ <<"stat", q>> # <<"dirs">> /\ <<"read", q>> # <<"dirs">>
                /\ (<<"stat", q>> = <<"stat", p>> <=> q = p) /\ (<<"read", q>> = <<"read", p>> <=> q = p)
  OBVIOUS
<1> QED BY <1>1 DEF PathWeight, Bit

(* Parts and counters hold no token of the walk. *)
LEMMA NoPart ==
  /\ \A q, pair : PartWeight(<<"stat", q>>, pair) = 0 /\ PartWeight(<<"read", q>>, pair) = 0
  /\ \A q, perf : PerfWeight(<<"stat", q>>, perf) = 0 /\ PerfWeight(<<"read", q>>, perf) = 0
  /\ \A q, f : NewHeld(<<"stat", q>>, f) = 0 /\ NewHeld(<<"read", q>>, f) = 0
  /\ \A q, f : NewSent(<<"stat", q>>, f) = 0 /\ NewSent(<<"read", q>>, f) = 0
  /\ \A q : Bit(<<"stat", q>> = <<"dirs">>) = 0 /\ Bit(<<"read", q>> = <<"dirs">>) = 0
<1>1. \A q, f : /\ <<"stat", q>> # <<"pair", f>> /\ <<"read", q>> # <<"pair", f>>
                /\ <<"stat", q>> # <<"add", f>> /\ <<"read", q>> # <<"add", f>>
  OBVIOUS
<1>2. \A q, f, k : <<"stat", q>> # <<"part", f, k>> /\ <<"read", q>> # <<"part", f, k>>
  OBVIOUS
<1>3. \A q : /\ <<"stat", q>> # <<"compares">> /\ <<"read", q>> # <<"compares">>
             /\ <<"stat", q>> # <<"dirs">> /\ <<"read", q>> # <<"dirs">>
  OBVIOUS
<1>4. \A q, pair : LeftWeight(<<"stat", q>>, pair) = 0 /\ LeftWeight(<<"read", q>>, pair) = 0
  BY <1>1, <1>2, <1>3 DEF LeftWeight, Bit
<1>5. \A q, f : NewHeld(<<"stat", q>>, f) = 0 /\ NewHeld(<<"read", q>>, f) = 0
  BY <1>4 DEF NewHeld
<1>6. \A q, f : NewSent(<<"stat", q>>, f) = 0 /\ NewSent(<<"read", q>>, f) = 0
  BY <1>1 DEF NewSent, Bit
<1>7. \A q, pair : PartWeight(<<"stat", q>>, pair) = 0 /\ PartWeight(<<"read", q>>, pair) = 0
  BY <1>1, <1>2 DEF PartWeight, Bit
<1>8. \A q, perf : PerfWeight(<<"stat", q>>, perf) = 0 /\ PerfWeight(<<"read", q>>, perf) = 0
  BY <1>3 DEF PerfWeight
<1>9. \A q : Bit(<<"stat", q>> = <<"dirs">>) = 0 /\ Bit(<<"read", q>> = <<"dirs">>) = 0
  BY <1>3 DEF Bit
<1> QED BY <1>5, <1>6, <1>7, <1>8, <1>9

(* A buffer to stat holds no read token, one to read no stat token. *)
LEMMA ReadInPaths ==
  ASSUME NEW s \in Seq(Path)
  PROVE  /\ \A q : PathsWeight(<<"read", q>>, "treewalk_statpath", s) = 0
         /\ \A q : PathsWeight(<<"stat", q>>, "treewalk_readdir", s) = 0
BY StatToken, PathsOther

(* What the manager runs itself is no path. *)
LEMMA RunWeight ==
  ASSUME NEW m \in Messages, m.manager_run, NEW q
  PROVE  Weight(<<"stat", q>>, m) = 0 /\ Weight(<<"read", q>>, m) = 0
<1>1. m \in Announce \cup DoneWalk \cup DoneCompare
  BY Kinds, ExitItem DEF Messages, Work, Done
<1>2. CASE m \in Announce
  <2>1. <<"stat", q>> # <<"add", m.workdata.src>> /\ <<"read", q>> # <<"add", m.workdata.src>>
    OBVIOUS
  <2> QED BY <1>2, <2>1, Kinds DEF Weight, WalkFns, Bit
<1>3. CASE m \in DoneWalk
  BY <1>3, Kinds, NoPart DEF Weight, WalkFns
<1>4. CASE m \in DoneCompare
  <2>1. \A t : Weight(t, m) = PartWeight(t, m.workdata.files) + PerfWeight(t, m.workdata.perf)
    BY <1>4, Kinds DEF Weight, WalkFns
  <2>2. \A pair, perf : /\ PartWeight(<<"stat", q>>, pair) = 0 /\ PartWeight(<<"read", q>>, pair) = 0
                        /\ PerfWeight(<<"stat", q>>, perf) = 0 /\ PerfWeight(<<"read", q>>, perf) = 0
    BY NoPart
  <2>3. /\ Weight(<<"stat", q>>, m) = PartWeight(<<"stat", q>>, m.workdata.files)
                                      + PerfWeight(<<"stat", q>>, m.workdata.perf)
        /\ Weight(<<"read", q>>, m) = PartWeight(<<"read", q>>, m.workdata.files)
                                      + PerfWeight(<<"read", q>>, m.workdata.perf)
    BY <2>1
  <2> QED BY <2>2, <2>3
<1> QED BY <1>1, <1>2, <1>3, <1>4

(* A step that moves tokens without making or spending one. *)
LEMMA Unmoved ==
  ASSUME \A t : All(t)' = All(t), UNCHANGED <<o, statted>>, failed \subseteq failed',
         Started' <=> Started
  PROVE  WalkStep
<1>1. \A p : ToStat(p)' = ToStat(p) /\ ToRead(p)' = ToRead(p)
  BY DEF ToStat, ToRead
<1> QED BY <1>1 DEF WalkStep, WalkStill

(* Every step is one of these. *)
LEMMA WalkSteps == TalkInv /\ TalkInv' /\ [Next]_vars => WalkStep
<1> SUFFICES ASSUME TalkInv, TalkInv', [Next]_vars PROVE WalkStep
  OBVIOUS
<1>1. CASE startwork
  <2>1. \A t : All(t) = 0 /\ All(t)' = PathsWeight(t, "treewalk_statpath", o.roots)
    BY <1>1, StartFlow
  <2>2. ~Started /\ Started' /\ UNCHANGED <<o, statted, failed>>
    BY <1>1 DEF startwork, Started, TalkInv, TypeOK
  <2>3. o.roots \in Seq(Path)
    BY JobAssumption DEF TalkInv, TypeOK
  <2>4. \A q : ToStat(q) = 0 /\ ToStat(q)' = PathsWeight(<<"stat", q>>, "treewalk_statpath", o.roots)
    BY <2>1 DEF ToStat
  <2>5. \A q : ToRead(q) = 0 /\ ToRead(q)' = 0
    BY <2>1, <2>3, ReadInPaths DEF ToRead
  <2> QED BY <2>2, <2>4, <2>5 DEF WalkStep, WalkStart
<1>2. CASE ManagerProbe \/ ManagerPoll
  <2>1. UNCHANGED <<o, workq, toMgr, toWrk, wk>> /\ UNCHANGED <<o, statted>> /\ failed \subseteq failed'
    BY <1>2 DEF ManagerProbe, ManagerPoll
  <2>2. Started' <=> Started
    BY <1>2 DEF ManagerProbe, ManagerPoll, Started, TalkInv, TypeOK
  <2> QED BY <2>1, <2>2, StillFlow, Unmoved
<1>3. CASE ManagerAssign
  <2>1. UNCHANGED <<o, statted>> /\ failed \subseteq failed' /\ (Started' <=> Started)
    BY <1>3 DEF ManagerAssign, Started, TalkInv, TypeOK
  <2> QED BY <1>3, <2>1, ManagerAssignFlow, Unmoved
<1>4. CASE AckedWork
  <2>1. UNCHANGED <<o, statted>> /\ failed \subseteq failed' /\ (Started' <=> Started)
    BY <1>4 DEF AckedWork, Started
  <2> QED BY <1>4, <2>1, AckedWorkFlow, Unmoved
<1>5. CASE manager_fini
  <2>1. UNCHANGED <<o, statted>> /\ failed \subseteq failed' /\ (Started' <=> Started)
    BY <1>5 DEF manager_fini, Started, TalkInv, TypeOK
  <2> QED BY <1>5, <2>1, FiniFlow, Unmoved
<1>6. ASSUME NEW w \in Workers, ManagerRun(w) PROVE WalkStep
  <2> DEFINE m == Head(toMgr[w])
  <2>1. UNCHANGED <<o, statted>> /\ failed \subseteq failed' /\ (Started' <=> Started)
        /\ toMgr[w] # <<>> /\ m.manager_run
    BY <1>6 DEF ManagerRun, manager_workdone, cmp_workdone, cmp_addchunkfile, Started, TalkInv, TypeOK
  <2>2. m \in Messages
    BY <2>1, Sending
  <2> HIDE DEF m
  <2>3. \A t : All(t)' + Weight(t, m) = All(t)
    BY <1>6, ManagerRunFlow DEF m
  <2>4. \A t : All(t)' \in Nat
    BY AllNatsNext
  <2>5. \A p : ToStat(p)' = ToStat(p) /\ ToRead(p)' = ToRead(p)
    <3> SUFFICES ASSUME NEW p PROVE ToStat(p)' = ToStat(p) /\ ToRead(p)' = ToRead(p)
      OBVIOUS
    <3>1. Weight(<<"stat", p>>, m) = 0 /\ Weight(<<"read", p>>, m) = 0
      BY <2>1, <2>2, RunWeight
    <3>2. ToStat(p)' + Weight(<<"stat", p>>, m) = ToStat(p) /\ ToRead(p)' + Weight(<<"read", p>>, m) = ToRead(p)
      BY <2>3 DEF ToStat, ToRead
    <3>3. ToStat(p)' \in Nat /\ ToRead(p)' \in Nat
      BY <2>4 DEF ToStat, ToRead
    <3> QED BY <3>1, <3>2, <3>3
  <2> QED BY <2>1, <2>5 DEF WalkStep, WalkStill
<1>7. ASSUME NEW w \in Workers, scheduler_ackwork(w) PROVE WalkStep
  <2>1. UNCHANGED <<o, statted>> /\ failed \subseteq failed'
    BY <1>7 DEF scheduler_ackwork
  <2>2. Started' <=> Started
    BY <1>7 DEF scheduler_ackwork, Started, TalkInv, TypeOK
  <2> QED BY <1>7, <2>1, <2>2, AckworkFlow, Unmoved
<1>8. ASSUME NEW w \in Workers, worker_receive(w) \/ worker_answered(w) \/ cmp_sendpaths(w) \/ ReadEntry(w)
                                \/ CloseDir(w) \/ WalkEnd(w)
      PROVE  WalkStep
  <2>1. UNCHANGED <<o, statted>> /\ failed \subseteq failed' /\ (Started' <=> Started)
    BY <1>8 DEF worker_receive, worker_answered, cmp_sendpaths, ReadEntry, CloseDir, WalkEnd, OnlyWorker,
                manager, Started
  <2>2. \A t : All(t)' = All(t)
    BY <1>8, ReceiveFlow, AnsweredFlow, SendPathsFlow, ReadEntryFlow, CloseDirFlow, WalkEndFlow
  <2> QED BY <2>1, <2>2, Unmoved
<1>9. ASSUME NEW w \in Workers, worker_quit(w) \/ cmp_compare(w) PROVE WalkStep
  <2>1. UNCHANGED <<o, statted>> /\ failed \subseteq failed' /\ (Started' <=> Started)
    BY <1>9 DEF worker_quit, cmp_compare, manager, Started
  <2>2. \A t : All(t)' = All(t)
    BY <1>9, QuitFlow, CompareFlow
  <2> QED BY <2>1, <2>2, Unmoved
<1>10. ASSUME NEW w \in Workers, wk[w].pc = "work" PROVE Started
  BY <1>10, AtWorkWhen DEF AtWork, TalkInv, ManagerInv, Started
<1>11. ASSUME NEW w \in Workers, StatDir(w) PROVE WalkStep
  <2>1. UNCHANGED <<o, failed>> /\ (Started' <=> Started) /\ Started
    BY <1>10, <1>11 DEF StatDir, Working, manager, Started
  <2>2. PICK p \in DOMAIN Entries :
           /\ statted' = [statted EXCEPT ![p] = @ + 1]
           /\ \A t : All(t)' + PathWeight(t, "treewalk_statpath", p) = All(t) + PathWeight(t, "treewalk_readdir", p)
    BY <1>11, StatDirFlow
  <2>3. p \in Path
    BY PwtAssumption
  <2>4. ASSUME NEW q
        PROVE  ToStat(q)' + Bit(q = p) = ToStat(q) /\ ToRead(q)' = ToRead(q) + Bit(q = p /\ p \in DOMAIN Entries)
    <3>1. All(<<"stat", q>>)' + Bit(q = p) = All(<<"stat", q>>) + 0
      BY <2>2, StatToken
    <3>2. All(<<"read", q>>)' + 0 = All(<<"read", q>>) + Bit(q = p)
      BY <2>2, StatToken
    <3>3. ToStat(q) \in Nat /\ ToRead(q)' \in Nat
      BY AllNats, AllNatsNext DEF ToStat, ToRead
    <3>4. Bit(q = p /\ p \in DOMAIN Entries) = Bit(q = p)
      BY DEF Bit
    <3> QED BY <3>1, <3>2, <3>3, <3>4 DEF ToStat, ToRead
  <2>5. WalkStat(p)
    BY <2>1, <2>2, <2>3, <2>4 DEF WalkStat
  <2> QED BY <2>1, <2>5 DEF WalkStep
<1>12. ASSUME NEW w \in Workers, StatFile(w) PROVE WalkStep
  <2>1. UNCHANGED <<o, failed>> /\ (Started' <=> Started) /\ Started
    BY <1>10, <1>12 DEF StatFile, Working, manager, Started
  <2>2. PICK p \in DOMAIN Src :
           /\ statted' = [statted EXCEPT ![p] = @ + 1]
           /\ \A t : All(t)' + PathWeight(t, "treewalk_statpath", p) = All(t) + NewHeld(t, p) + NewSent(t, p)
    BY <1>12, StatFileFlow
  <2>3. p \in Path /\ p \notin DOMAIN Entries
    BY PwtAssumption
  <2>4. ASSUME NEW q
        PROVE  ToStat(q)' + Bit(q = p) = ToStat(q) /\ ToRead(q)' = ToRead(q) + Bit(q = p /\ p \in DOMAIN Entries)
    <3>1. All(<<"stat", q>>)' + Bit(q = p) = All(<<"stat", q>>) + 0 + 0
      BY <2>2, StatToken, NoPart
    <3>2. All(<<"read", q>>)' + 0 = All(<<"read", q>>) + 0 + 0
      BY <2>2, StatToken, NoPart
    <3>3. ToStat(q) \in Nat /\ ToRead(q) \in Nat /\ ToRead(q)' \in Nat
      BY AllNats, AllNatsNext DEF ToStat, ToRead
    <3>4. Bit(q = p /\ p \in DOMAIN Entries) = 0
      BY <2>3 DEF Bit
    <3> QED BY <3>1, <3>2, <3>3, <3>4 DEF ToStat, ToRead
  <2>5. WalkStat(p)
    BY <2>1, <2>2, <2>3, <2>4 DEF WalkStat
  <2> QED BY <2>1, <2>5 DEF WalkStep
<1>13. ASSUME NEW w \in Workers, OpenDir(w) PROVE WalkStep
  <2>1. UNCHANGED <<o, statted>> /\ (Started' <=> Started) /\ failed \subseteq failed'
    BY <1>13 DEF OpenDir, manager, Started
  <2>2. PICK d \in DOMAIN Entries :
           \/ \A t : All(t)' + PathWeight(t, "treewalk_readdir", d)
                       = All(t) + PathsWeight(t, "treewalk_statpath", Entries[d]) + Bit(t = <<"dirs">>)
           \/ failed' = failed \cup {<<"opendir", d>>} /\ \A t : All(t)' <= All(t)
    BY <1>13, OpenDirFlow
  <2>3. Entries[d] \in Seq(Path)
    BY PwtAssumption
  <2>4. CASE \A t : All(t)' + PathWeight(t, "treewalk_readdir", d)
                       = All(t) + PathsWeight(t, "treewalk_statpath", Entries[d]) + Bit(t = <<"dirs">>)
    <3>1. ASSUME NEW q
          PROVE  /\ ToStat(q)' = ToStat(q) + PathsWeight(<<"stat", q>>, "treewalk_statpath", Entries[d])
                 /\ ToRead(q)' + Bit(q = d) = ToRead(q)
      <4> DEFINE e == PathsWeight(<<"stat", q>>, "treewalk_statpath", Entries[d])
      <4>1. All(<<"stat", q>>)' + 0 = All(<<"stat", q>>) + e + 0
        <5>1. All(<<"stat", q>>)' + PathWeight(<<"stat", q>>, "treewalk_readdir", d)
                = All(<<"stat", q>>) + e + Bit(<<"stat", q>> = <<"dirs">>)
          BY <2>4
        <5>2. PathWeight(<<"stat", q>>, "treewalk_readdir", d) = 0
          BY StatToken
        <5>3. Bit(<<"stat", q>> = <<"dirs">>) = 0
          BY DEF Bit
        <5> QED BY <5>1, <5>2, <5>3
      <4>2. All(<<"read", q>>)' + Bit(q = d) = All(<<"read", q>>) + 0 + 0
        <5>1. All(<<"read", q>>)' + PathWeight(<<"read", q>>, "treewalk_readdir", d)
                = All(<<"read", q>>) + PathsWeight(<<"read", q>>, "treewalk_statpath", Entries[d])
                  + Bit(<<"read", q>> = <<"dirs">>)
          BY <2>4
        <5>2. /\ PathWeight(<<"read", q>>, "treewalk_readdir", d) = Bit(q = d)
              /\ PathsWeight(<<"read", q>>, "treewalk_statpath", Entries[d]) = 0
          BY <2>3, StatToken, ReadInPaths
        <5>3. Bit(<<"read", q>> = <<"dirs">>) = 0
          BY DEF Bit
        <5> QED BY <5>1, <5>2, <5>3
      <4>3. ToStat(q) \in Nat /\ ToStat(q)' \in Nat /\ ToRead(q) \in Nat
        BY AllNats, AllNatsNext DEF ToStat, ToRead
      <4>4. e \in Nat
        BY <2>3, PathsNat
      <4> HIDE DEF e
      <4>5. ToStat(q)' = ToStat(q) + e
        BY <4>1, <4>3, <4>4 DEF ToStat
      <4>6. ToRead(q)' + Bit(q = d) = ToRead(q)
        BY <4>2, <4>3 DEF ToRead
      <4> QED BY <4>5, <4>6 DEF e
    <3>2. WalkOpen(d)
      BY <2>1, <3>1 DEF WalkOpen
    <3> QED BY <2>1, <3>2 DEF WalkStep
  <2>5. CASE failed' = failed \cup {<<"opendir", d>>} /\ \A t : All(t)' <= All(t)
    <3>1. \A q : ToStat(q)' <= ToStat(q) /\ ToRead(q)' <= ToRead(q)
      BY <2>5 DEF ToStat, ToRead
    <3>2. ~Complete'
      <4>1. <<"opendir", d>> \in failed' /\ <<"opendir", d>>[1] \in {"opendir"}
        BY <2>5
      <4> QED BY <4>1 DEF Complete, Happened
    <3> QED BY <2>1, <3>1, <3>2 DEF WalkStep, WalkFail
  <2> QED BY <2>2, <2>4, <2>5
<1>14. CASE UNCHANGED vars
  <2>1. UNCHANGED <<o, workq, toMgr, toWrk, wk>> /\ UNCHANGED <<o, statted>> /\ failed \subseteq failed'
        /\ (Started' <=> Started)
    BY <1>14 DEF vars, manager, Started
  <2> QED BY <2>1, StillFlow, Unmoved
<1>15. CASE Next
  <2>1. Manager \/ \E w \in Workers : Worker(w) \/ worker_quit(w)
    BY <1>15 DEF Next
  <2>2. CASE Manager
    BY <1>1, <1>2, <1>3, <1>4, <1>5, <1>6, <1>7, <2>2 DEF Manager
  <2>3. ASSUME NEW w \in Workers, Worker(w) \/ worker_quit(w) PROVE WalkStep
    BY <1>8, <1>9, <1>11, <1>12, <1>13, <2>3 DEF Worker
  <2> QED BY <2>1, <2>2, <2>3
<1> QED BY <1>14, <1>15

(***************************************************************************)
(* Every path once.                                                        *)
(***************************************************************************)

Apart(job, reach) ==
  /\ \A i, j \in 1..Len(job.roots) : job.roots[i] = job.roots[j] => i = j
  /\ Range(job.roots) \subseteq reach
  /\ \A d \in reach \cap DOMAIN Entries : Range(Entries[d]) \subseteq reach \ Range(job.roots)

WalkInv(reach) ==
  /\ Apart(o, reach)
  /\ RootInv /\ EntryInv /\ OthersInv /\ ReachInv(reach) /\ ReadInv /\ OnceInv

(* The elements of a list. *)
LEMMA RangeOf ==
  ASSUME NEW S, NEW s \in Seq(S)
  PROVE  Range(s) \subseteq S /\ \A q : q \in Range(s) <=> \E i \in 1..Len(s) : q = s[i]
<1>1. DOMAIN s = 1..Len(s) /\ \A i \in 1..Len(s) : s[i] \in S
  OBVIOUS
<1> QED BY <1>1 DEF Range

(* A list without repetitions holds the token of each of its paths once. *)
LEMMA PathsBit ==
  ASSUME NEW s \in Seq(Path), \A i, j \in 1..Len(s) : s[i] = s[j] => i = j, NEW q
  PROVE  PathsWeight(<<"stat", q>>, "treewalk_statpath", s) = Bit(q \in Range(s))
<1> DEFINE t == <<"stat", q>>
           fn == "treewalk_statpath"
<1>1. \A p : PathWeight(t, fn, p) = Bit(q = p)
  BY StatToken
<1> HIDE DEF t, fn
<1>2. CASE q \in Range(s)
  <2>1. PICK k \in 1..Len(s) : q = s[k]
    BY <1>2, RangeOf
  <2>2. PathWeight(t, fn, s[k]) = 1 /\ \A i \in 1..Len(s) : i # k => PathWeight(t, fn, s[i]) = 0
    BY <1>1, <2>1 DEF Bit
  <2>3. PathsWeight(t, fn, s) = 1
    BY <2>2, PathsOne
  <2> QED BY <1>2, <2>3 DEF Bit, t, fn
<1>3. CASE q \notin Range(s)
  <2>1. \A i \in 1..Len(s) : PathWeight(t, fn, s[i]) = 0
    BY <1>1, <1>3, RangeOf DEF Bit
  <2>2. PathsWeight(t, fn, s) = 0
    BY <2>1, PathsOther
  <2> QED BY <1>3, <2>2 DEF Bit, t, fn
<1> QED BY <1>2, <1>3

(* The tokens of the walk are natural numbers, in both states. *)
LEMMA WalkNats ==
  ASSUME TalkInv, TalkInv', NEW q
  PROVE  /\ ToStat(q) \in Nat /\ ToStat(q)' \in Nat /\ ToRead(q) \in Nat /\ ToRead(q)' \in Nat
         /\ q \in Path => statted[q] \in Nat /\ statted'[q] \in Nat
<1>1. ToStat(q) \in Nat /\ ToStat(q)' \in Nat /\ ToRead(q) \in Nat /\ ToRead(q)' \in Nat
  BY AllNats, AllNatsNext DEF ToStat, ToRead
<1>2. statted \in [Path -> Nat] /\ statted' \in [Path -> Nat]
  BY DEF TalkInv, TypeOK
<1> QED BY <1>1, <1>2

(* StatOf of the next state. *)
LEMMA StatOfNext == \A q : StatOf(q)' = ToStat(q)' + statted'[q]
BY DEF StatOf

(* Once a directory could not be opened, that remains so. *)
LEMMA CompleteNext == failed \subseteq failed' => (Complete' => Complete)
BY DEF Complete, Happened

(* The types of the start paths and of the entries. *)
LEMMA StartedRoots ==
  ASSUME TalkInv
  PROVE  /\ o.roots \in Seq(Path) /\ Range(o.roots) \subseteq Path
         /\ \A d \in DOMAIN Entries : Entries[d] \in Seq(Path) /\ Range(Entries[d]) \subseteq Path /\ d \in Path
         /\ \A d, e \in DOMAIN Entries : \A p \in Range(Entries[d]) : p \in Range(Entries[e]) => d = e
         /\ \A d \in DOMAIN Entries : \A i, j \in 1..Len(Entries[d]) : Entries[d][i] = Entries[d][j] => i = j
<1>1. o.roots \in Seq(Path)
  BY JobAssumption DEF TalkInv, TypeOK
<1>2. \A d \in DOMAIN Entries : Entries[d] \in Seq(Path) /\ d \in Path
  BY PwtAssumption
<1>3. \A d, e \in DOMAIN Entries : \A i \in 1..Len(Entries[d]), j \in 1..Len(Entries[e]) :
        Entries[d][i] = Entries[e][j] => d = e /\ i = j
  BY PwtAssumption
<1>4. \A d, e \in DOMAIN Entries : \A p \in Range(Entries[d]) : p \in Range(Entries[e]) => d = e
  <2> SUFFICES ASSUME NEW d \in DOMAIN Entries, NEW e \in DOMAIN Entries, NEW p \in Range(Entries[d]),
                      p \in Range(Entries[e])
               PROVE  d = e
    OBVIOUS
  <2>1. \E i \in 1..Len(Entries[d]) : p = Entries[d][i]
    BY <1>2, RangeOf
  <2>2. \E j \in 1..Len(Entries[e]) : p = Entries[e][j]
    BY <1>2, RangeOf
  <2> QED BY <1>3, <2>1, <2>2
<1> QED BY <1>1, <1>2, <1>3, <1>4, RangeOf

(* A step that moves no path keeps the invariant of the walk; *)
LEMMA StillOnce ==
  ASSUME NEW reach, TalkInv, TalkInv', WalkInv(reach), UNCHANGED o, failed \subseteq failed',
         Started' <=> Started, WalkStill
  PROVE  WalkInv(reach)'
<1>1. \A p : StatOf(p)' = StatOf(p) /\ ToRead(p)' = ToRead(p)
  BY StatOfNext DEF WalkStill, StatOf
<1>2. (Complete' => Complete) /\ statted' = statted
  BY CompleteNext DEF WalkStill
<1>3. RootInv' /\ EntryInv'
  BY <1>1, <1>2 DEF WalkInv, RootInv, EntryInv, Adds
<1>4. OthersInv' /\ ReachInv(reach)' /\ ReadInv' /\ OnceInv'
  BY <1>1, <1>2 DEF WalkInv, OthersInv, ReachInv, ReadInv, OnceInv
<1>5. Apart(o, reach)'
  BY DEF WalkInv, Apart
<1> QED BY <1>3, <1>4, <1>5 DEF WalkInv

(* a failing opendir loses tokens and can only lower the counts; *)
LEMMA FailOnce ==
  ASSUME NEW reach, TalkInv, TalkInv', WalkInv(reach), UNCHANGED o, Started' <=> Started, WalkFail
  PROVE  WalkInv(reach)'
<1>1. \A p \in Path : /\ StatOf(p) \in Nat /\ StatOf(p)' \in Nat /\ StatOf(p)' <= StatOf(p)
                      /\ statted[p] \in Nat
  <2> SUFFICES ASSUME NEW p \in Path
               PROVE  StatOf(p) \in Nat /\ StatOf(p)' \in Nat /\ StatOf(p)' <= StatOf(p) /\ statted[p] \in Nat
    OBVIOUS
  <2>1. ToStat(p)' <= ToStat(p) /\ statted'[p] = statted[p]
    BY DEF WalkFail
  <2> QED BY <2>1, StatOfNext, WalkNats DEF StatOf
<1>2. \A d : ToRead(d) \in Nat /\ ToRead(d)' \in Nat /\ ToRead(d)' <= ToRead(d)
  BY WalkNats DEF WalkFail
<1>3. ~Complete' /\ statted' = statted
  BY DEF WalkFail
<1>4. RootInv'
  BY <1>1, <1>3, StartedRoots DEF WalkInv, RootInv, Adds
<1>5. EntryInv'
  <2> SUFFICES ASSUME NEW d \in DOMAIN Entries, NEW p \in Range(Entries[d]) \ Range(o.roots)
               PROVE  (StatOf(p) + ToRead(d) <= statted[d])'
    BY <1>3 DEF EntryInv, Adds
  <2>1. p \in Path /\ d \in Path
    BY StartedRoots
  <2>2. StatOf(p) + ToRead(d) <= statted[d]
    BY DEF WalkInv, EntryInv, Adds
  <2> QED BY <1>1, <1>2, <1>3, <2>1, <2>2
<1>6. OthersInv' /\ ReachInv(reach)'
  BY <1>1 DEF WalkInv, OthersInv, ReachInv
<1>7. ReadInv'
  <2> SUFFICES ASSUME NEW d \in DOMAIN Entries PROVE (ToRead(d) <= statted[d])'
    BY DEF ReadInv
  <2>1. d \in Path /\ ToRead(d) <= statted[d]
    BY StartedRoots DEF WalkInv, ReadInv
  <2> QED BY <1>1, <1>2, <1>3, <2>1
<1>8. OnceInv'
  BY <1>3 DEF WalkInv, OnceInv
<1>9. Apart(o, reach)'
  BY DEF WalkInv, Apart
<1> QED BY <1>4, <1>5, <1>6, <1>7, <1>8, <1>9 DEF WalkInv

(* the start makes one token of each start path, where there was none; *)
LEMMA StartOnce ==
  ASSUME NEW reach, TalkInv, TalkInv', WalkInv(reach), UNCHANGED o, WalkStart
  PROVE  WalkInv(reach)'
<1>1. \A p \in Path : /\ statted[p] = 0 /\ statted'[p] = 0
                      /\ StatOf(p)' = Bit(p \in Range(o.roots))
  <2> SUFFICES ASSUME NEW p \in Path
               PROVE  statted[p] = 0 /\ statted'[p] = 0 /\ StatOf(p)' = Bit(p \in Range(o.roots))
    OBVIOUS
  <2>1. statted[p] = 0 /\ statted'[p] = 0
    BY DEF WalkInv, OnceInv, WalkStart
  <2>2. ToStat(p)' = PathsWeight(<<"stat", p>>, "treewalk_statpath", o.roots)
    BY DEF WalkStart
  <2>3. \A i, j \in 1..Len(o.roots) : o.roots[i] = o.roots[j] => i = j
    BY DEF WalkInv, Apart
  <2>4. ToStat(p)' = Bit(p \in Range(o.roots))
    BY <2>2, <2>3, PathsBit, StartedRoots
  <2>5. ToStat(p)' \in Nat
    BY WalkNats
  <2> QED BY <2>1, <2>4, <2>5, StatOfNext
<1>2. \A d : ToRead(d)' = 0
  BY DEF WalkStart
<1>3. RootInv'
  <2> SUFFICES ASSUME NEW p \in Range(o.roots) PROVE StatOf(p)' = 1
    BY DEF RootInv, Adds
  <2> QED BY <1>1, StartedRoots DEF Bit
<1>4. EntryInv'
  <2> SUFFICES ASSUME NEW d \in DOMAIN Entries, NEW p \in Range(Entries[d]) \ Range(o.roots)
               PROVE  (StatOf(p) + ToRead(d) = 0)' /\ statted'[d] = 0
    BY DEF EntryInv, Adds
  <2>1. p \in Path /\ d \in Path /\ p \notin Range(o.roots)
    BY StartedRoots
  <2>2. StatOf(p)' = 0 /\ statted'[d] = 0
    BY <1>1, <2>1 DEF Bit
  <2> QED BY <1>2, <2>2
<1>5. OthersInv'
  BY <1>1 DEF OthersInv, Bit
<1>6. ReachInv(reach)'
  BY <1>1 DEF ReachInv, WalkInv, Apart, Bit
<1>7. ReadInv' /\ OnceInv'
  BY <1>1, <1>2, StartedRoots DEF ReadInv, OnceInv
<1>8. Apart(o, reach)'
  BY DEF WalkInv, Apart
<1> QED BY <1>3, <1>4, <1>5, <1>6, <1>7, <1>8 DEF WalkInv

(* a stat token that is used up is counted, and for a directory replaced; *)
LEMMA StatOnce ==
  ASSUME NEW reach, TalkInv, TalkInv', WalkInv(reach), UNCHANGED o, failed \subseteq failed',
         Started', NEW p, WalkStat(p)
  PROVE  WalkInv(reach)'
<1>1. \A q \in Path : /\ StatOf(q)' = StatOf(q) /\ StatOf(q) \in Nat
                      /\ statted[q] \in Nat /\ statted'[q] = statted[q] + Bit(q = p)
                      /\ statted'[q] <= StatOf(q)
  <2> SUFFICES ASSUME NEW q \in Path
               PROVE  /\ StatOf(q)' = StatOf(q) /\ StatOf(q) \in Nat
                      /\ statted[q] \in Nat /\ statted'[q] = statted[q] + Bit(q = p)
                      /\ statted'[q] <= StatOf(q)
    OBVIOUS
  <2>1. ToStat(q)' + Bit(q = p) = ToStat(q)
    BY DEF WalkStat
  <2>2. statted[q] \in Nat /\ statted'[q] = statted[q] + Bit(q = p)
    <3>1. statted \in [Path -> Nat] /\ statted' = [statted EXCEPT ![p] = @ + 1] /\ p \in Path
      BY DEF WalkStat, TalkInv, TypeOK
    <3>2. statted[q] \in Nat /\ statted'[q] = IF q = p THEN statted[q] + 1 ELSE statted[q]
      BY <3>1
    <3> QED BY <3>2 DEF Bit
  <2>3. Bit(q = p) \in Nat
    BY DEF Bit
  <2>4. StatOf(q) = ToStat(q) + statted[q] /\ StatOf(q)' = ToStat(q)' + statted'[q]
    BY StatOfNext DEF StatOf
  <2>5. ToStat(q)' \in Nat /\ ToStat(q) \in Nat
    BY WalkNats
  <2> QED BY <2>1, <2>2, <2>3, <2>4, <2>5
<1>2. \A d \in DOMAIN Entries : d \in Path /\ ToRead(d)' = ToRead(d) + Bit(d = p) /\ ToRead(d) \in Nat
                                /\ Bit(d = p) \in Nat
  BY WalkNats, StartedRoots DEF WalkStat, Bit
<1>3. (Complete' => Complete) /\ Started /\ p \in Path
  BY CompleteNext DEF WalkStat
<1>4. RootInv'
  BY <1>1, <1>3, StartedRoots DEF WalkInv, RootInv, Adds
<1>5. EntryInv'
  <2> SUFFICES ASSUME NEW d \in DOMAIN Entries, NEW q \in Range(Entries[d]) \ Range(o.roots)
               PROVE  Adds(StatOf(q) + ToRead(d), statted[d])'
    BY DEF EntryInv
  <2>1. q \in Path /\ d \in Path
    BY StartedRoots
  <2>2. Adds(StatOf(q) + ToRead(d), statted[d])
    BY DEF WalkInv, EntryInv
  <2>3. StatOf(q)' + ToRead(d)' = StatOf(q) + ToRead(d) + Bit(d = p) /\ statted'[d] = statted[d] + Bit(d = p)
    BY <1>1, <1>2, <2>1
  <2> QED BY <1>1, <1>2, <1>3, <2>1, <2>2, <2>3 DEF Adds
<1>6. OthersInv' /\ ReachInv(reach)'
  BY <1>1 DEF WalkInv, OthersInv, ReachInv
<1>7. ReadInv'
  <2> SUFFICES ASSUME NEW d \in DOMAIN Entries PROVE (ToRead(d) <= statted[d])'
    BY DEF ReadInv
  <2>1. ToRead(d) <= statted[d]
    BY DEF WalkInv, ReadInv
  <2> QED BY <1>1, <1>2, <2>1
<1>8. OnceInv'
  <2>1. StatOf(p) <= 1
    <3>1. CASE p \in Range(o.roots)
      BY <1>3, <3>1 DEF WalkInv, RootInv, Adds
    <3>2. ASSUME p \notin Range(o.roots), NEW d \in DOMAIN Entries, p \in Range(Entries[d]) PROVE StatOf(p) <= 1
      <4>1. StatOf(p) + ToRead(d) <= statted[d]
        BY <3>2 DEF WalkInv, EntryInv, Adds
      <4>2. statted[d] <= 1
        BY <1>2 DEF WalkInv, OnceInv
      <4> QED BY <1>1, <1>2, <1>3, <4>1, <4>2
    <3>3. CASE p \notin Range(o.roots) /\ \A d \in DOMAIN Entries : p \notin Range(Entries[d])
      BY <1>3, <3>3 DEF WalkInv, OthersInv
    <3> QED BY <3>1, <3>2, <3>3
  <2> SUFFICES ASSUME NEW q \in Path PROVE statted'[q] <= 1
    BY DEF OnceInv
  <2>2. statted[q] <= 1
    BY DEF WalkInv, OnceInv
  <2> QED BY <1>1, <1>3, <2>1, <2>2 DEF Bit
<1>9. Apart(o, reach)'
  BY DEF WalkInv, Apart
<1> QED BY <1>4, <1>5, <1>6, <1>7, <1>8, <1>9 DEF WalkInv
(* the read token of a directory becomes the stat tokens of its entries, *)
(* of which there were none.                                             *)
LEMMA OpenOnce ==
  ASSUME NEW reach, TalkInv, TalkInv', WalkInv(reach), UNCHANGED o, failed \subseteq failed',
         Started' <=> Started, NEW d, WalkOpen(d)
  PROVE  WalkInv(reach)'
<1> DEFINE Below == Range(Entries[d])
<1>1. d \in DOMAIN Entries /\ d \in Path /\ statted' = statted /\ Below \subseteq Path
  BY StartedRoots DEF WalkOpen
<1>2. \A q \in Path : StatOf(q)' = StatOf(q) + Bit(q \in Below) /\ StatOf(q) \in Nat
                      /\ Bit(q \in Below) \in Nat /\ statted[q] \in Nat
  <2> SUFFICES ASSUME NEW q \in Path
               PROVE  StatOf(q)' = StatOf(q) + Bit(q \in Below) /\ StatOf(q) \in Nat
                      /\ Bit(q \in Below) \in Nat /\ statted[q] \in Nat
    OBVIOUS
  <2>1. ToStat(q)' = ToStat(q) + PathsWeight(<<"stat", q>>, "treewalk_statpath", Entries[d])
    BY DEF WalkOpen
  <2>2. Entries[d] \in Seq(Path) /\ \A i, j \in 1..Len(Entries[d]) : Entries[d][i] = Entries[d][j] => i = j
    BY <1>1, StartedRoots
  <2>3. PathsWeight(<<"stat", q>>, "treewalk_statpath", Entries[d]) = Bit(q \in Below)
    BY <2>2, PathsBit
  <2>4. Bit(q \in Below) \in Nat
    BY DEF Bit
  <2>5. statted'[q] = statted[q] /\ statted[q] \in Nat /\ ToStat(q) \in Nat
    BY <1>1, WalkNats
  <2>6. StatOf(q) = ToStat(q) + statted[q] /\ StatOf(q)' = ToStat(q)' + statted'[q]
    BY StatOfNext DEF StatOf
  <2> QED BY <2>1, <2>3, <2>4, <2>5, <2>6
<1>3. \A q : ToRead(q)' + Bit(q = d) = ToRead(q) /\ ToRead(q) \in Nat /\ ToRead(q)' \in Nat
  BY WalkNats DEF WalkOpen
<1>4. statted[d] > 0
  <2>1. ToRead(d) <= statted[d]
    BY <1>1 DEF WalkInv, ReadInv
  <2>2. Bit(d = d) = 1
    BY DEF Bit
  <2>3. ToRead(d)' + 1 = ToRead(d) /\ ToRead(d)' \in Nat /\ ToRead(d) \in Nat /\ statted[d] \in Nat
    BY <1>1, <1>2, <1>3, <2>2
  <2> QED BY <2>1, <2>3
<1>5. d \in reach
  <2>1. StatOf(d) # 0
    BY <1>1, <1>2, <1>4, WalkNats DEF StatOf
  <2> QED BY <1>1, <2>1 DEF WalkInv, ReachInv
<1>6. Below \subseteq reach \ Range(o.roots)
  BY <1>1, <1>5 DEF WalkInv, Apart
<1>7. (Complete' => Complete)
  BY CompleteNext
<1> HIDE DEF Below
<1>8. RootInv'
  <2> SUFFICES ASSUME Started, NEW p \in Range(o.roots) PROVE Adds(StatOf(p), 1)'
    BY DEF RootInv
  <2>1. p \in Path /\ p \notin Below /\ Adds(StatOf(p), 1)
    BY <1>6, StartedRoots DEF WalkInv, RootInv
  <2>2. StatOf(p)' = StatOf(p)
    BY <1>2, <2>1 DEF Bit
  <2> QED BY <1>7, <2>1, <2>2 DEF Adds
<1>9. EntryInv'
  <2> SUFFICES ASSUME NEW e \in DOMAIN Entries, NEW p \in Range(Entries[e]) \ Range(o.roots)
               PROVE  Adds(StatOf(p) + ToRead(e), statted[e])'
    BY DEF EntryInv
  <2>1. p \in Path /\ (p \in Below <=> e = d)
    BY <1>1, StartedRoots DEF Below
  <2>2. Adds(StatOf(p) + ToRead(e), statted[e])
    BY DEF WalkInv, EntryInv
  <2>3. Bit(p \in Below) = Bit(e = d)
    BY <2>1 DEF Bit
  <2>4. StatOf(p)' = StatOf(p) + Bit(e = d) /\ ToRead(e)' + Bit(e = d) = ToRead(e) /\ Bit(e = d) \in Nat
    BY <1>2, <1>3, <2>1, <2>3 DEF Bit
  <2>5. StatOf(p) \in Nat /\ ToRead(e) \in Nat /\ ToRead(e)' \in Nat
    BY <1>2, <1>3, <2>1
  <2>6. StatOf(p)' + ToRead(e)' = StatOf(p) + ToRead(e)
    BY <2>4, <2>5
  <2> QED BY <1>1, <1>7, <2>2, <2>6 DEF Adds
<1>10. OthersInv'
  <2> SUFFICES ASSUME NEW p \in Path \ Range(o.roots), \A e \in DOMAIN Entries : p \notin Range(Entries[e])
               PROVE  StatOf(p)' = 0
    BY DEF OthersInv
  <2>1. p \notin Below /\ StatOf(p) = 0
    BY <1>1 DEF WalkInv, OthersInv, Below
  <2> QED BY <1>2, <2>1 DEF Bit
<1>11. ReachInv(reach)'
  <2> SUFFICES ASSUME NEW p \in Path \ reach PROVE StatOf(p)' = 0
    BY DEF ReachInv
  <2>1. p \notin Below /\ StatOf(p) = 0
    BY <1>6 DEF WalkInv, ReachInv
  <2> QED BY <1>2, <2>1 DEF Bit
<1>12. ReadInv'
  <2> SUFFICES ASSUME NEW e \in DOMAIN Entries PROVE (ToRead(e) <= statted[e])'
    BY DEF ReadInv
  <2>1. ToRead(e) <= statted[e] /\ e \in Path
    BY StartedRoots DEF WalkInv, ReadInv
  <2>2. ToRead(e)' + Bit(e = d) = ToRead(e) /\ Bit(e = d) \in Nat
    BY <1>3 DEF Bit
  <2> QED BY <1>1, <1>2, <1>3, <2>1, <2>2
<1>13. OnceInv'
  BY <1>1 DEF WalkInv, OnceInv
<1>14. Apart(o, reach)'
  BY DEF WalkInv, Apart
<1> QED BY <1>8, <1>9, <1>10, <1>11, <1>12, <1>13, <1>14 DEF WalkInv

(* With every worker idle and the queues empty nothing is left to do. *)
LEMMA AllNone ==
  ASSUME TalkInv, mgr.pc \in {"init", "end", "done"}, NEW t
  PROVE  All(t) = 0
<1>1. (\A w \in Workers : ~active[w]) /\ (\A q \in Queues : workq[q] = <<>>)
  BY DEF TalkInv, ManagerInv
<1>2. ASSUME NEW v \in Workers PROVE With(t, v) = 0
  <2>1. Resting(wk[v]) /\ toMgr[v] = <<>> /\ (toWrk[v] = <<>> \/ toWrk[v] = <<Exit>>)
    BY <1>1 DEF TalkInv, InPhase, Free, Given, AtWork, Asking, Answered, Finished
  <2>2. Exit \in Messages /\ Weight(t, Exit) = 0
    BY Weightless DEF Messages
  <2>3. ItemsWeight(t, toWrk[v]) = 0
    BY <2>1, <2>2, ItemsOne, ItemsNone
  <2> QED BY <2>1, <2>3, HeldResting, ItemsNone DEF With
<1> DEFINE f == [v \in Workers |-> With(t, v)]
           n == nproc - 1
<1>3. n \in Nat /\ Workers = 1..n
  BY Ranks
<1>4. \A i \in 1..n : f[i] = 0
  BY <1>2, <1>3
<1> HIDE DEF f, n
<1>5. Total(f, n) = 0
  BY <1>3, <1>4, TotalZero
<1>6. InQueues(t) = 0
  <2>1. \A q : Queued(t, q) = 0
    BY <1>1, ItemsNone DEF Queued
  <2> QED BY <2>1 DEF InQueues
<1>7. Sum(t) = 0
  BY <1>5 DEF Sum, f, n
<1> QED BY <1>6, <1>7, AllSum

(* The invariant of the walk at the start. *)
LEMMA WalkInit ==
  ASSUME Init, NEW reach, Apart(o, reach)
  PROVE  WalkInv(reach)
<1>1. ~Started /\ statted = [p \in Path |-> 0]
  BY DEF Init, Started
<1>2. \A t : All(t) = 0
  BY TalkInit, AllNone DEF Init
<1>3. \A p \in Path : StatOf(p) = 0
  BY <1>1, <1>2 DEF StatOf, ToStat
<1>4. \A d : ToRead(d) = 0
  BY <1>2 DEF ToRead
<1>5. RootInv /\ OthersInv /\ ReachInv(reach) /\ OnceInv
  BY <1>1, <1>3 DEF RootInv, OthersInv, ReachInv, OnceInv
<1>6. EntryInv /\ ReadInv
  <2>1. \A d \in DOMAIN Entries : d \in Path /\ Range(Entries[d]) \subseteq Path
    BY TalkInit, StartedRoots
  <2> QED BY <1>1, <1>3, <1>4, <2>1 DEF EntryInv, ReadInv, Adds
<1> QED BY <1>5, <1>6 DEF WalkInv

(* Every step keeps the invariant of the walk. *)
LEMMA WalkOnce == ASSUME NEW reach PROVE TalkInv /\ TalkInv' /\ WalkInv(reach) /\ [Next]_vars => WalkInv(reach)'
<1> SUFFICES ASSUME TalkInv, TalkInv', WalkInv(reach), [Next]_vars PROVE WalkInv(reach)'
  OBVIOUS
<1>1. WalkStep
  BY WalkSteps
<1>2. CASE WalkStart
  BY <1>1, <1>2, StartOnce DEF WalkStep
<1>3. CASE ~WalkStart /\ (Started' <=> Started)
  <2>1. CASE WalkStill
    BY <1>1, <1>3, <2>1, StillOnce DEF WalkStep
  <2>2. ASSUME NEW p, WalkStat(p) PROVE WalkInv(reach)'
    BY <1>1, <1>3, <2>2, StatOnce DEF WalkStep, WalkStat
  <2>3. ASSUME NEW d, WalkOpen(d) PROVE WalkInv(reach)'
    BY <1>1, <1>3, <2>3, OpenOnce DEF WalkStep
  <2>4. CASE WalkFail
    BY <1>1, <1>3, <2>4, FailOnce DEF WalkStep
  <2> QED BY <1>1, <1>3, <2>1, <2>2, <2>3, <2>4 DEF WalkStep
<1> QED BY <1>1, <1>2, <1>3 DEF WalkStep

(* At the end, when no token is left, every path was stat-ed once. *)
LEMMA WalkRight == ASSUME NEW reach PROVE TalkInv /\ WalkInv(reach) => PathsOnce
<1> SUFFICES ASSUME TalkInv, WalkInv(reach) PROVE PathsOnce
  OBVIOUS
<1>1. \A p \in Path : statted[p] <= 1
  BY DEF WalkInv, OnceInv
<1>2. ASSUME Ended, ~Happened({"opendir"})
      PROVE  Range(o.roots) \cup UNION {Range(Entries[d]) : d \in Statted \cap DOMAIN Entries} = Statted
  <2>1. Complete /\ Started
    BY <1>2 DEF Complete, Started, Ended
  <2>2. \A t : All(t) = 0
    BY <1>2, AllNone DEF Ended
  <2>3. \A p \in Path : StatOf(p) = statted[p] /\ statted[p] \in Nat
    BY <2>2 DEF StatOf, ToStat, TalkInv, TypeOK
  <2>4. \A d : ToRead(d) = 0
    BY <2>2 DEF ToRead
  <2>5. \A p \in Range(o.roots) : p \in Path /\ statted[p] = 1
    BY <2>1, <2>3, StartedRoots DEF WalkInv, RootInv, Adds
  <2>6. ASSUME NEW d \in DOMAIN Entries, NEW p \in Range(Entries[d]), p \notin Range(o.roots)
        PROVE  p \in Path /\ d \in Path /\ statted[p] = statted[d]
    <3>1. p \in Path /\ d \in Path
      BY StartedRoots
    <3>2. StatOf(p) + ToRead(d) = statted[d]
      BY <2>1, <2>6 DEF WalkInv, EntryInv, Adds
    <3> QED BY <2>3, <2>4, <3>1, <3>2
  <2>7. ASSUME NEW p \in Path, p \notin Range(o.roots), \A d \in DOMAIN Entries : p \notin Range(Entries[d])
        PROVE  statted[p] = 0
    BY <2>3, <2>7 DEF WalkInv, OthersInv
  <2>8. \A p \in Path : p \in Statted <=> statted[p] > 0
    BY DEF Statted
  <2>9. Statted \subseteq Path
    BY DEF Statted
  <2>10. ASSUME NEW d \in Statted \cap DOMAIN Entries, NEW p \in Range(Entries[d]) PROVE p \in Statted
    <3>1. CASE p \in Range(o.roots)
      BY <2>5, <2>8, <3>1
    <3>2. CASE p \notin Range(o.roots)
      <4>1. p \in Path /\ statted[p] = statted[d] /\ statted[d] > 0
        BY <2>6, <2>8, <2>9, <2>10, <3>2
      <4> QED BY <2>8, <4>1
    <3> QED BY <3>1, <3>2
  <2>11. ASSUME NEW p \in Statted, p \notin Range(o.roots)
         PROVE  \E d \in Statted \cap DOMAIN Entries : p \in Range(Entries[d])
    <3>1. p \in Path /\ statted[p] > 0
      BY <2>8, <2>9
    <3>2. PICK d \in DOMAIN Entries : p \in Range(Entries[d])
      BY <2>7, <2>11, <3>1
    <3>3. d \in Path /\ statted[d] > 0
      BY <2>6, <2>11, <3>1, <3>2
    <3> QED BY <2>8, <3>2, <3>3
  <2>12. \A p \in Range(o.roots) : p \in Statted
    BY <2>5, <2>8
  <2> QED BY <2>10, <2>11, <2>12
<1> QED BY <1>1, <1>2 DEF PathsOnce

(* The same of a run, for any set of paths that holds what the start *)
(* paths reach.                                                      *)
LEMMA PathsOnceOf ==
  ASSUME NEW reach
  PROVE  Init /\ Apart(o, reach) /\ [][Next]_vars => []PathsOnce
<1>1. Init /\ Apart(o, reach) => TalkInv /\ WalkInv(reach)
  BY TalkInit, WalkInit
<1>2. TalkInv /\ WalkInv(reach) /\ [Next]_vars => (TalkInv /\ WalkInv(reach))'
  BY TalkStep, WalkOnce
<1>3. TalkInv /\ WalkInv(reach) => PathsOnce
  BY WalkRight
<1> QED BY <1>1, <1>2, <1>3, PTL

(* A walk stats no path twice, and when the manager ends without a failed *)
(* opendir it has stat-ed the start paths and every entry of every        *)
(* directory it stat-ed, and nothing else (treewalk.c), for every tree,   *)
(* number of workers, buffer size and interleaving.                       *)
THEOREM PathsOnceSafe == StartsApart => (Spec => []PathsOnce)
<1> SUFFICES ASSUME StartsApart PROVE Spec => []PathsOnce
  OBVIOUS
<1>1. Init => \E reach \in SUBSET Path : Apart(o, reach)
  BY DEF Init, StartsApart, Apart
<1>2. ASSUME NEW reach \in SUBSET Path PROVE Init /\ Apart(o, reach) /\ [][Next]_vars => []PathsOnce
  BY PathsOnceOf
<1>3. (\E reach \in SUBSET Path : Apart(o, reach)) /\ Init /\ [][Next]_vars => []PathsOnce
  BY <1>2
<1> QED BY <1>1, <1>3, PTL DEF Spec

(***************************************************************************)
(* The counters of a job.                                                  *)
(***************************************************************************)

ToClose == All(<<"dirs">>)
ToCompare == All(<<"compares">>)
Closed == ToClose + jobstats.dirs
Counted == ToCompare + jobstats.compares

Stats(p) == statted' = [statted EXCEPT ![p] = @ + 1]

CountStep ==
  /\ UNCHANGED o /\ failed \subseteq failed'
  /\ \/ Closed' = Closed /\ Counted' = Counted /\ UNCHANGED statted
     \/ \E p \in DOMAIN Entries : Stats(p) /\ Closed' = Closed + 1 /\ Counted' = Counted
     \/ \E p \in DOMAIN Src : Stats(p) /\ Closed' = Closed /\ Counted' = Counted + PartsOf(p)
     \/ ~Complete' /\ Counted' = Counted /\ UNCHANGED statted

(* The tokens of the two counts. *)
LEMMA CountTokens ==
  /\ Comparison(<<"compares">>)
  /\ \A fn, p : PathWeight(<<"compares">>, fn, p) = 0
  /\ \A p : PathWeight(<<"dirs">>, "treewalk_statpath", p) = 0 /\ PathWeight(<<"dirs">>, "treewalk_readdir", p) = 1
  /\ \A f : NewSent(<<"dirs">>, f) = 0 /\ NewSent(<<"compares">>, f) = 0
  /\ \A f : NewHeld(<<"dirs">>, f) = 0
  /\ Bit(<<"dirs">> = <<"dirs">>) = 1 /\ Bit(<<"compares">> = <<"dirs">>) = 0
<1>1. Comparison(<<"compares">>)
  BY DEF Comparison
<1>2. \A p : <<"dirs">> # <<"stat", p>> /\ <<"dirs">> # <<"read", p>>
  OBVIOUS
<1>3. \A f, k : /\ <<"dirs">> # <<"add", f>> /\ <<"dirs">> # <<"pair", f>> /\ <<"dirs">> # <<"part", f, k>>
                /\ <<"compares">> # <<"add", f>>
  OBVIOUS
<1>4. <<"dirs">> # <<"compares">>
  OBVIOUS
<1>5. \A fn, p : PathWeight(<<"compares">>, fn, p) = 0
  BY <1>1, PathOfCompare
<1>6. \A p : PathWeight(<<"dirs">>, "treewalk_statpath", p) = 0 /\ PathWeight(<<"dirs">>, "treewalk_readdir", p) = 1
  BY <1>2 DEF PathWeight, Bit
<1>7. \A f : NewSent(<<"dirs">>, f) = 0 /\ NewSent(<<"compares">>, f) = 0
  BY <1>3 DEF NewSent, Bit
<1>8. \A f : NewHeld(<<"dirs">>, f) = 0
  BY <1>3, <1>4 DEF NewHeld, LeftWeight, Bit
<1>9. Bit(<<"dirs">> = <<"dirs">>) = 1 /\ Bit(<<"compares">> = <<"dirs">>) = 0
  BY <1>4 DEF Bit
<1> QED BY <1>1, <1>5, <1>6, <1>7, <1>8, <1>9

(* The parts of a file: one, or one for each process. *)
LEMMA PartsCount ==
  ASSUME NEW f \in DOMAIN Src
  PROVE  /\ IsFiniteSet(Parts(f)) /\ Cardinality(Parts(f)) \in Nat
         /\ o.app = "cmp" => PartsOf(f) = Cardinality(Parts(f))
         /\ PartsOf(f) \in Nat
         /\ NewHeld(<<"compares">>, f) = PartsOf(f)
         /\ Compared(f) => Cardinality(Parts(f)) = IF Chunked(f) THEN nproc ELSE 1
<1>1. nproc \in Nat /\ nproc > 1
  BY Ranks
<1> DEFINE P == IF Dest[f].lstat = "error" THEN {} ELSE IF Chunked(f) THEN 0..(nproc - 1) ELSE {-1}
           n == IF Dest[f].lstat = "error" THEN 0 ELSE IF Chunked(f) THEN nproc ELSE 1
<1>2. IsFiniteSet(P) /\ Cardinality(P) = n
  <2> HIDE DEF nproc
  <2>1. IsFiniteSet(0..(nproc - 1)) /\ Cardinality(0..(nproc - 1)) = nproc
    BY <1>1, FS_Interval
  <2>2. IsFiniteSet({-1}) /\ Cardinality({-1}) = 1
    BY FS_Singleton
  <2>3. IsFiniteSet({}) /\ Cardinality({}) = 0
    BY FS_EmptySet
  <2> QED BY <2>1, <2>2, <2>3
<1>3. n \in Nat
  BY <1>1
<1>4. Parts(f) = {f} \X P
  BY DEF Parts
<1> HIDE DEF P, n
<1>5. IsFiniteSet({f}) /\ Cardinality({f}) = 1
  BY FS_Singleton
<1>6. IsFiniteSet({f} \X P) /\ Cardinality({f} \X P) = 1 * n
  BY <1>2, <1>5, FS_Product
<1>7. IsFiniteSet(Parts(f)) /\ Cardinality(Parts(f)) = n
  BY <1>3, <1>4, <1>6
<1>8. o.app = "cmp" => PartsOf(f) = Cardinality(Parts(f))
  BY <1>7 DEF PartsOf, Compared, n
<1>9. PartsOf(f) \in Nat
  BY <1>3, <1>7 DEF PartsOf
<1>10. Compared(f) => Cardinality(Parts(f)) = IF Chunked(f) THEN nproc ELSE 1
  BY <1>7 DEF Compared, n
<1>11. NewHeld(<<"compares">>, f) = PartsOf(f)
  <2>1. CASE ~Compared(f)
    BY <2>1 DEF NewHeld, PartsOf
  <2>2. CASE Compared(f)
    <3>1. NewHeld(<<"compares">>, f) = IF FirstPart(f).chunknum < 0 THEN 1 ELSE nproc - FirstPart(f).chunknum
      BY <2>2, FirstPartIs DEF NewHeld, LeftWeight
    <3>2. FirstPart(f).chunknum = IF Chunked(f) THEN 0 ELSE -1
      BY FirstPartIs
    <3> HIDE DEF nproc
    <3>3. NewHeld(<<"compares">>, f) = IF Chunked(f) THEN nproc ELSE 1
      BY <1>1, <3>1, <3>2
    <3> QED BY <1>10, <2>2, <3>3 DEF PartsOf
  <2> QED BY <2>1, <2>2
<1> QED BY <1>3, <1>7, <1>8, <1>9, <1>10, <1>11

(* A step that moves no token and counts nothing. *)
LEMMA CountUnmoved ==
  ASSUME TalkInv, TalkInv', \A t : All(t)' = All(t), UNCHANGED <<o, statted, jobstats>>, failed \subseteq failed'
  PROVE  CountStep
<1>1. Closed' = Closed /\ Counted' = Counted
  BY DEF Closed, Counted, ToClose, ToCompare
<1> QED BY <1>1 DEF CountStep

(* The counts are natural numbers, in both states. *)
LEMMA CountNats ==
  ASSUME TalkInv, TalkInv'
  PROVE  /\ ToClose \in Nat /\ ToClose' \in Nat /\ ToCompare \in Nat /\ ToCompare' \in Nat
         /\ jobstats \in Perf /\ jobstats' \in Perf
         /\ jobstats.dirs \in Nat /\ jobstats'.dirs \in Nat
         /\ jobstats.compares \in Nat /\ jobstats'.compares \in Nat
<1>1. jobstats \in Perf /\ jobstats' \in Perf
  BY DEF TalkInv, TypeOK
<1> QED BY <1>1, PerfNat, AllNats, AllNatsNext DEF ToClose, ToCompare

(* A report moves the counts of a worker to those of the job. *)
LEMMA RunCount ==
  ASSUME TalkInv, TalkInv', NEW w \in Workers, ManagerRun(w)
  PROVE  CountStep
<1> DEFINE m == Head(toMgr[w])
<1>1. /\ UNCHANGED <<o, statted>> /\ failed \subseteq failed'
      /\ toMgr[w] # <<>> /\ m.manager_run
      /\ \/ m.do_work = "manager_workdone" /\ jobstats' = perfstat_add(jobstats, m.workdata.perf)
         \/ m.do_work = "cmp_workdone" /\ jobstats' = perfstat_add(jobstats, m.workdata.perf)
         \/ m.do_work = "cmp_addchunkfile" /\ jobstats' = jobstats
  BY DEF ManagerRun, manager_workdone, cmp_workdone, cmp_addchunkfile
<1>2. m \in Messages
  BY <1>1, Sending
<1>3. \A t : All(t)' + Weight(t, m) = All(t)
  BY ManagerRunFlow
<1> HIDE DEF m
<1>4. \A t : Weight(t, m) \in Nat
  BY <1>2, WeightNat
<1>5. ToClose' + Weight(<<"dirs">>, m) = ToClose /\ ToCompare' + Weight(<<"compares">>, m) = ToCompare
  BY <1>3 DEF ToClose, ToCompare
<1>6. m \in Announce \cup DoneWalk \cup DoneCompare
  BY <1>1, <1>2, Kinds, ExitItem DEF Messages, Work, Done
<1>7. jobstats'.dirs = jobstats.dirs + Weight(<<"dirs">>, m)
      /\ jobstats'.compares = jobstats.compares + Weight(<<"compares">>, m)
  <2>1. CASE m \in Announce
    <3>1. <<"dirs">> # <<"add", m.workdata.src>> /\ <<"compares">> # <<"add", m.workdata.src>>
      OBVIOUS
    <3>2. Weight(<<"dirs">>, m) = 0 /\ Weight(<<"compares">>, m) = 0
      BY <2>1, <3>1, Kinds DEF Weight, WalkFns, Bit
    <3>3. jobstats' = jobstats
      BY <1>1, <2>1, Kinds
    <3> QED BY <3>2, <3>3, CountNats
  <2>2. CASE m \in DoneWalk \cup DoneCompare
    <3>1. m.workdata.perf \in Perf /\ jobstats' = perfstat_add(jobstats, m.workdata.perf)
      BY <1>1, <2>2, Kinds DEF PerfData, StatData
    <3>2. jobstats'.dirs = jobstats.dirs + m.workdata.perf.dirs
          /\ jobstats'.compares = jobstats.compares + m.workdata.perf.compares
      BY <3>1, CountNats DEF perfstat_add, Perf
    <3>3. <<"dirs">> # <<"compares">>
      OBVIOUS
    <3>4. PerfWeight(<<"dirs">>, m.workdata.perf) = m.workdata.perf.dirs
          /\ PerfWeight(<<"compares">>, m.workdata.perf) = m.workdata.perf.compares
      BY <3>3 DEF PerfWeight
    <3>5. CASE m \in DoneWalk
      BY <3>2, <3>4, <3>5, Kinds DEF Weight, WalkFns
    <3>6. CASE m \in DoneCompare
      <4>1. \A f, k : /\ <<"dirs">> # <<"pair", f>> /\ <<"dirs">> # <<"part", f, k>>
                      /\ <<"compares">> # <<"pair", f>> /\ <<"compares">> # <<"part", f, k>>
        OBVIOUS
      <4>2. PartWeight(<<"dirs">>, m.workdata.files) = 0 /\ PartWeight(<<"compares">>, m.workdata.files) = 0
        BY <4>1 DEF PartWeight, Bit
      <4>3. \A t : Weight(t, m) = PartWeight(t, m.workdata.files) + PerfWeight(t, m.workdata.perf)
        BY <3>6, Kinds DEF Weight, WalkFns
      <4>4. m.workdata.perf.dirs \in Nat /\ m.workdata.perf.compares \in Nat
        BY <3>1, PerfNat
      <4>5. Weight(<<"dirs">>, m) = 0 + m.workdata.perf.dirs /\ Weight(<<"compares">>, m) = 0 + m.workdata.perf.compares
        BY <3>4, <4>2, <4>3
      <4> QED BY <3>2, <4>4, <4>5
    <3> QED BY <2>2, <3>5, <3>6
  <2> QED BY <1>6, <2>1, <2>2
<1>8. Closed' = Closed /\ Counted' = Counted
  BY <1>4, <1>5, <1>7, CountNats DEF Closed, Counted
<1> QED BY <1>1, <1>8 DEF CountStep

(* Every step is one of these. *)
LEMMA CountSteps == TalkInv /\ TalkInv' /\ [Next]_vars => CountStep
<1> SUFFICES ASSUME TalkInv, TalkInv', [Next]_vars PROVE CountStep
  OBVIOUS
<1>1. CASE startwork
  <2>1. \A t : All(t) = 0 /\ All(t)' = PathsWeight(t, "treewalk_statpath", o.roots)
    BY <1>1, StartFlow
  <2>2. UNCHANGED <<o, statted, failed, jobstats>>
    BY <1>1 DEF startwork
  <2>3. o.roots \in Seq(Path)
    BY StartedRoots
  <2>4. \A p : PathWeight(<<"dirs">>, "treewalk_statpath", p) = 0 /\ PathWeight(<<"compares">>, "treewalk_statpath", p) = 0
    BY CountTokens
  <2>5. PathsWeight(<<"dirs">>, "treewalk_statpath", o.roots) = 0
        /\ PathsWeight(<<"compares">>, "treewalk_statpath", o.roots) = 0
    BY <2>3, <2>4, PathsOther
  <2>6. ToClose = 0 /\ ToClose' = 0 /\ ToCompare = 0 /\ ToCompare' = 0
    BY <2>1, <2>5 DEF ToClose, ToCompare
  <2> QED BY <2>2, <2>6 DEF CountStep, Closed, Counted
<1>2. CASE ManagerProbe \/ ManagerPoll
  <2>1. UNCHANGED <<o, workq, toMgr, toWrk, wk>> /\ UNCHANGED <<o, statted, jobstats>> /\ failed \subseteq failed'
    BY <1>2 DEF ManagerProbe, ManagerPoll
  <2> QED BY <2>1, StillFlow, CountUnmoved
<1>3. CASE ManagerAssign
  <2>1. UNCHANGED <<o, statted, jobstats>> /\ failed \subseteq failed'
    BY <1>3 DEF ManagerAssign
  <2> QED BY <1>3, <2>1, ManagerAssignFlow, CountUnmoved
<1>4. CASE AckedWork
  <2>1. UNCHANGED <<o, statted, jobstats>> /\ failed \subseteq failed'
    BY <1>4 DEF AckedWork
  <2> QED BY <1>4, <2>1, AckedWorkFlow, CountUnmoved
<1>5. CASE manager_fini
  <2>1. UNCHANGED <<o, statted, jobstats>> /\ failed \subseteq failed'
    BY <1>5 DEF manager_fini
  <2> QED BY <1>5, <2>1, FiniFlow, CountUnmoved
<1>6. ASSUME NEW w \in Workers, ManagerRun(w) PROVE CountStep
  BY <1>6, RunCount
<1>7. ASSUME NEW w \in Workers, scheduler_ackwork(w) PROVE CountStep
  <2>1. UNCHANGED <<o, statted, jobstats>> /\ failed \subseteq failed'
    BY <1>7 DEF scheduler_ackwork
  <2> QED BY <1>7, <2>1, AckworkFlow, CountUnmoved
<1>8. ASSUME NEW w \in Workers, worker_receive(w) \/ worker_answered(w) \/ cmp_sendpaths(w) \/ ReadEntry(w)
                                \/ CloseDir(w) \/ WalkEnd(w)
      PROVE  CountStep
  <2>1. UNCHANGED <<o, statted, jobstats>> /\ failed \subseteq failed'
    BY <1>8 DEF worker_receive, worker_answered, cmp_sendpaths, ReadEntry, CloseDir, WalkEnd, OnlyWorker, manager
  <2>2. \A t : All(t)' = All(t)
    BY <1>8, ReceiveFlow, AnsweredFlow, SendPathsFlow, ReadEntryFlow, CloseDirFlow, WalkEndFlow
  <2> QED BY <2>1, <2>2, CountUnmoved
<1>9. ASSUME NEW w \in Workers, worker_quit(w) \/ cmp_compare(w) PROVE CountStep
  <2>1. UNCHANGED <<o, statted, jobstats>> /\ failed \subseteq failed'
    BY <1>9 DEF worker_quit, cmp_compare, manager
  <2>2. \A t : All(t)' = All(t)
    BY <1>9, QuitFlow, CompareFlow
  <2> QED BY <2>1, <2>2, CountUnmoved
<1>10. ASSUME NEW w \in Workers, StatDir(w) PROVE CountStep
  <2>1. UNCHANGED <<o, failed, jobstats>>
    BY <1>10 DEF StatDir, manager
  <2>2. PICK p \in DOMAIN Entries :
           /\ statted' = [statted EXCEPT ![p] = @ + 1]
           /\ \A t : All(t)' + PathWeight(t, "treewalk_statpath", p) = All(t) + PathWeight(t, "treewalk_readdir", p)
    BY <1>10, StatDirFlow
  <2>3. ToClose' + 0 = ToClose + 1
    BY <2>2, CountTokens DEF ToClose
  <2>4. ToCompare' + 0 = ToCompare + 0
    BY <2>2, CountTokens DEF ToCompare
  <2>5. Closed' = Closed + 1 /\ Counted' = Counted
    BY <2>1, <2>3, <2>4, CountNats DEF Closed, Counted
  <2> QED BY <2>1, <2>2, <2>5 DEF CountStep, Stats
<1>11. ASSUME NEW w \in Workers, StatFile(w) PROVE CountStep
  <2>1. UNCHANGED <<o, failed, jobstats>>
    BY <1>11 DEF StatFile, manager
  <2>2. PICK p \in DOMAIN Src :
           /\ statted' = [statted EXCEPT ![p] = @ + 1]
           /\ \A t : All(t)' + PathWeight(t, "treewalk_statpath", p) = All(t) + NewHeld(t, p) + NewSent(t, p)
    BY <1>11, StatFileFlow
  <2>3. ToClose' + 0 = ToClose + 0 + 0
    BY <2>2, CountTokens DEF ToClose
  <2>4. ToCompare' + 0 = ToCompare + PartsOf(p) + 0
    BY <2>2, CountTokens, PartsCount DEF ToCompare
  <2>5. PartsOf(p) \in Nat
    BY PartsCount
  <2>6. Closed' = Closed /\ Counted' = Counted + PartsOf(p)
    BY <2>1, <2>3, <2>4, <2>5, CountNats DEF Closed, Counted
  <2> QED BY <2>1, <2>2, <2>6 DEF CountStep, Stats
<1>12. ASSUME NEW w \in Workers, OpenDir(w) PROVE CountStep
  <2>1. UNCHANGED <<o, statted, jobstats>> /\ failed \subseteq failed'
    BY <1>12 DEF OpenDir, manager
  <2>2. PICK d \in DOMAIN Entries :
           \/ /\ UNCHANGED failed
              /\ \A t : All(t)' + PathWeight(t, "treewalk_readdir", d)
                       = All(t) + PathsWeight(t, "treewalk_statpath", Entries[d]) + Bit(t = <<"dirs">>)
           \/ failed' = failed \cup {<<"opendir", d>>} /\ \A t : Comparison(t) => All(t)' = All(t)
    BY <1>12, OpenDirFlow
  <2>3. Entries[d] \in Seq(Path)
    BY PwtAssumption
  <2>4. CASE \A t : All(t)' + PathWeight(t, "treewalk_readdir", d)
                       = All(t) + PathsWeight(t, "treewalk_statpath", Entries[d]) + Bit(t = <<"dirs">>)
    <3>1. \A p : PathWeight(<<"dirs">>, "treewalk_statpath", p) = 0 /\ PathWeight(<<"compares">>, "treewalk_statpath", p) = 0
      BY CountTokens
    <3>2. PathsWeight(<<"dirs">>, "treewalk_statpath", Entries[d]) = 0
          /\ PathsWeight(<<"compares">>, "treewalk_statpath", Entries[d]) = 0
      BY <2>3, <3>1, PathsOther
    <3>3. ToClose' + 1 = ToClose + 0 + 1
      BY <2>4, <3>2, CountTokens DEF ToClose
    <3>4. ToCompare' + 0 = ToCompare + 0 + 0
      BY <2>4, <3>2, CountTokens DEF ToCompare
    <3>5. Closed' = Closed /\ Counted' = Counted
      BY <2>1, <3>3, <3>4, CountNats DEF Closed, Counted
    <3> QED BY <2>1, <3>5 DEF CountStep
  <2>5. CASE failed' = failed \cup {<<"opendir", d>>} /\ \A t : Comparison(t) => All(t)' = All(t)
    <3>1. ToCompare' = ToCompare
      BY <2>5, CountTokens DEF ToCompare
    <3>2. ~Complete'
      <4>1. <<"opendir", d>> \in failed' /\ <<"opendir", d>>[1] \in {"opendir"}
        BY <2>5
      <4> QED BY <4>1 DEF Complete, Happened
    <3>3. Counted' = Counted
      BY <2>1, <3>1 DEF Counted
    <3> QED BY <2>1, <3>2, <3>3 DEF CountStep
  <2> QED BY <2>2, <2>4, <2>5
<1>13. CASE UNCHANGED vars
  <2>1. UNCHANGED <<o, workq, toMgr, toWrk, wk>> /\ UNCHANGED <<o, statted, jobstats>> /\ failed \subseteq failed'
    BY <1>13 DEF vars, manager
  <2> QED BY <2>1, StillFlow, CountUnmoved
<1>14. CASE Next
  <2>1. Manager \/ \E w \in Workers : Worker(w) \/ worker_quit(w)
    BY <1>14 DEF Next
  <2>2. CASE Manager
    BY <1>1, <1>2, <1>3, <1>4, <1>5, <1>6, <1>7, <2>2 DEF Manager
  <2>3. ASSUME NEW w \in Workers, Worker(w) \/ worker_quit(w) PROVE CountStep
    BY <1>8, <1>9, <1>10, <1>11, <1>12, <2>3 DEF Worker
  <2> QED BY <2>1, <2>2, <2>3
<1> QED BY <1>13, <1>14

CountInv == DirsInv /\ ComparesInv

AllParts == UNION {Parts(f) : f \in Statted \cap DOMAIN Src}

(* The invariant of the counts, *)
LEMMA CountInvDef ==
  /\ DirsInv <=> (Complete => Closed = Cardinality(Statted \cap DOMAIN Entries))
  /\ ComparesInv <=> (o.app = "cmp" => Counted = Cardinality(AllParts))
BY DEF DirsInv, ComparesInv, Closed, Counted, ToClose, ToCompare, AllParts

(* and that of the next state. *)
LEMMA CountInvNext ==
  /\ DirsInv' <=> (Complete' => Closed' = Cardinality(Statted' \cap DOMAIN Entries))
  /\ ComparesInv' <=> (o'.app = "cmp" => Counted' = Cardinality(AllParts'))
BY DEF DirsInv, ComparesInv, Closed, Counted, ToClose, ToCompare, AllParts

(* What was stat-ed is finite, and so are its parts. *)
LEMMA FiniteStatted ==
  ASSUME TalkInv
  PROVE  /\ IsFiniteSet(Statted \cap DOMAIN Entries) /\ IsFiniteSet(Statted \cap DOMAIN Src)
         /\ IsFiniteSet(AllParts)
<1>1. IsFiniteSet(Path) /\ Statted \subseteq Path
  BY PwtAssumption DEF Statted
<1>2. IsFiniteSet(Statted \cap DOMAIN Entries) /\ IsFiniteSet(Statted \cap DOMAIN Src)
  BY <1>1, FS_Subset
<1> DEFINE S == {Parts(f) : f \in Statted \cap DOMAIN Src}
<1>3. IsFiniteSet(S)
  <2> DEFINE A == Statted \cap DOMAIN Src
             g == [f \in A |-> Parts(f)]
  <2>1. g \in Surjection(A, S)
    BY DEF Surjection
  <2>2. IsFiniteSet(A)
    BY <1>2
  <2> HIDE DEF A, S, g
  <2> QED BY <2>1, <2>2, FS_Surjection
<1>4. \A T \in S : IsFiniteSet(T)
  BY PartsCount
<1> HIDE DEF S
<1>5. IsFiniteSet(UNION S)
  BY <1>3, <1>4, FS_UNION
<1> QED BY <1>2, <1>5 DEF S, AllParts

(* One more path is stat-ed, one that was not before. *)
LEMMA StattedMore ==
  ASSUME TalkInv, TalkInv', OnceInv', NEW p \in Path, Stats(p)
  PROVE  Statted' = Statted \cup {p} /\ p \notin Statted
<1>1. statted \in [Path -> Nat] /\ statted' = [statted EXCEPT ![p] = @ + 1]
  BY DEF TalkInv, TypeOK, Stats
<1>2. statted'[p] = statted[p] + 1 /\ statted'[p] <= 1 /\ statted[p] \in Nat
  BY <1>1 DEF OnceInv
<1>3. \A q \in Path : statted'[q] = IF q = p THEN statted[q] + 1 ELSE statted[q]
  BY <1>1
<1>4. \A q \in Path : (statted'[q] > 0 <=> statted[q] > 0 \/ q = p) /\ (q = p => ~(statted[q] > 0))
  BY <1>1, <1>2, <1>3
<1> QED BY <1>4 DEF Statted

(* The parts of a file depend on the job alone. *)
LEMMA PartsKept == UNCHANGED o => \A f : Parts(f)' = Parts(f)
BY DEF Parts, Chunked

(* Without another file there is no other part; *)
LEMMA AllPartsKept == UNCHANGED o /\ Statted' \cap DOMAIN Src = Statted \cap DOMAIN Src => AllParts' = AllParts
BY PartsKept DEF AllParts

(* another file brings its own parts. *)
LEMMA AllPartsMore ==
  ASSUME UNCHANGED o, NEW p \in DOMAIN Src, Statted' = Statted \cup {p}, p \notin Statted
  PROVE  AllParts' = AllParts \cup Parts(p) /\ AllParts \cap Parts(p) = {}
<1>1. \A f : Parts(f)' = Parts(f)
  BY PartsKept
<1>2. AllParts' = AllParts \cup Parts(p)
  BY <1>1 DEF AllParts
<1>3. \A f : \A x \in Parts(f) : x[1] = f
  BY DEF Parts
<1>4. AllParts \cap Parts(p) = {}
  BY <1>3 DEF AllParts
<1> QED BY <1>2, <1>4

(* Every step keeps the invariant of the counts. *)
LEMMA CountHolds == TalkInv /\ TalkInv' /\ OnceInv' /\ CountInv /\ [Next]_vars => CountInv'
<1> SUFFICES ASSUME TalkInv, TalkInv', OnceInv', CountInv, [Next]_vars PROVE CountInv'
  OBVIOUS
<1>1. CountStep
  BY CountSteps
<1>2. UNCHANGED o /\ (Complete' => Complete)
  BY <1>1, CompleteNext DEF CountStep
<1> DEFINE D == Statted \cap DOMAIN Entries
<1>3. (Complete => Closed = Cardinality(D)) /\ (o.app = "cmp" => Counted = Cardinality(AllParts))
  BY CountInvDef DEF CountInv
<1> SUFFICES /\ Complete' => Closed' = Cardinality(Statted' \cap DOMAIN Entries)
             /\ o.app = "cmp" => Counted' = Cardinality(AllParts')
  BY <1>2, CountInvNext DEF CountInv
<1>4. CASE UNCHANGED statted /\ Counted' = Counted /\ (Closed' = Closed \/ ~Complete')
  <2>1. Statted' = Statted
    BY <1>4 DEF Statted
  <2>2. AllParts' = AllParts
    BY <1>2, <2>1, AllPartsKept
  <2> QED BY <1>2, <1>3, <1>4, <2>1, <2>2
<1>5. ASSUME NEW p \in DOMAIN Entries, Stats(p), Closed' = Closed + 1, Counted' = Counted
      PROVE  /\ Complete' => Closed' = Cardinality(Statted' \cap DOMAIN Entries)
             /\ o.app = "cmp" => Counted' = Cardinality(AllParts')
  <2>1. p \in Path /\ p \notin DOMAIN Src
    BY PwtAssumption
  <2>2. Statted' = Statted \cup {p} /\ p \notin Statted
    BY <1>5, <2>1, StattedMore
  <2>3. Statted' \cap DOMAIN Entries = D \cup {p} /\ p \notin D
    BY <2>2
  <2>4. Cardinality(D \cup {p}) = Cardinality(D) + 1
    <3>1. IsFiniteSet(D)
      BY FiniteStatted
    <3> HIDE DEF D
    <3> QED BY <2>3, <3>1, FS_AddElement
  <2>5. AllParts' = AllParts
    BY <1>2, <2>1, <2>2, AllPartsKept
  <2> QED BY <1>2, <1>3, <1>5, <2>3, <2>4, <2>5
<1>6. ASSUME NEW p \in DOMAIN Src, Stats(p), Closed' = Closed, Counted' = Counted + PartsOf(p)
      PROVE  /\ Complete' => Closed' = Cardinality(Statted' \cap DOMAIN Entries)
             /\ o.app = "cmp" => Counted' = Cardinality(AllParts')
  <2>1. p \in Path /\ p \notin DOMAIN Entries
    BY PwtAssumption
  <2>2. Statted' = Statted \cup {p} /\ p \notin Statted
    BY <1>6, <2>1, StattedMore
  <2>3. Statted' \cap DOMAIN Entries = D
    BY <2>1, <2>2
  <2>4. AllParts' = AllParts \cup Parts(p) /\ AllParts \cap Parts(p) = {}
    BY <1>2, <2>2, AllPartsMore
  <2>5. IsFiniteSet(AllParts) /\ IsFiniteSet(Parts(p)) /\ Cardinality(Parts(p)) \in Nat
    BY FiniteStatted, PartsCount
  <2>6. Cardinality(AllParts) \in Nat /\ Cardinality({}) = 0
    BY <2>5, FS_CardinalityType, FS_EmptySet
  <2>7. Cardinality(AllParts \cup Parts(p)) = Cardinality(AllParts) + Cardinality(Parts(p)) - 0
    <3> DEFINE A == AllParts
               B == Parts(p)
    <3>1. IsFiniteSet(A) /\ IsFiniteSet(B) /\ A \cap B = {} /\ Cardinality({}) = 0
      BY <2>4, <2>5, <2>6
    <3> HIDE DEF A, B
    <3>2. Cardinality(A \cup B) = Cardinality(A) + Cardinality(B) - Cardinality(A \cap B)
      BY <3>1, FS_Union
    <3>3. Cardinality(A \cup B) = Cardinality(A) + Cardinality(B) - 0
      BY <3>1, <3>2
    <3> QED BY <3>3 DEF A, B
  <2>8. o.app = "cmp" => PartsOf(p) = Cardinality(Parts(p))
    BY PartsCount
  <2>9. Cardinality(AllParts') = Cardinality(AllParts) + Cardinality(Parts(p))
    BY <2>4, <2>5, <2>6, <2>7
  <2> QED BY <1>2, <1>3, <1>6, <2>3, <2>8, <2>9
<1> QED BY <1>1, <1>4, <1>5, <1>6 DEF CountStep

(***************************************************************************)
(* The tokens of a file that is compared.                                  *)
(***************************************************************************)

FileToken(t) == \E f, k : t \in {<<"pair", f>>, <<"add", f>>, <<"part", f, k>>}

(* The tokens of a file are of three kinds. *)
LEMMA FileTokens ==
  /\ \A f, k : FileToken(<<"pair", f>>) /\ FileToken(<<"add", f>>) /\ FileToken(<<"part", f, k>>)
  /\ \A t : FileToken(t) => Comparison(t) /\ t # <<"dirs">> /\ t # <<"compares">>
  /\ \A f, g, k : <<"pair", f>> # <<"add", g>> /\ <<"pair", f>> # <<"part", g, k>> /\ <<"add", f>> # <<"part", g, k>>
  /\ \A f, g : (<<"pair", f>> = <<"pair", g>> <=> f = g) /\ (<<"add", f>> = <<"add", g>> <=> f = g)
  /\ \A f, g, j, k : <<"part", f, j>> = <<"part", g, k>> <=> f = g /\ j = k
<1>1. \A f, k : FileToken(<<"pair", f>>) /\ FileToken(<<"add", f>>) /\ FileToken(<<"part", f, k>>)
  BY DEF FileToken
<1>2. \A f, k : /\ <<"pair", f>> # <<"dirs">> /\ <<"pair", f>> # <<"compares">>
                /\ <<"add", f>> # <<"dirs">> /\ <<"add", f>> # <<"compares">>
                /\ <<"part", f, k>> # <<"dirs">> /\ <<"part", f, k>> # <<"compares">>
  OBVIOUS
<1>3. \A t : FileToken(t) => Comparison(t) /\ t # <<"dirs">> /\ t # <<"compares">>
  BY <1>2 DEF FileToken, Comparison
<1>4. \A f, g, k : <<"pair", f>> # <<"add", g>> /\ <<"pair", f>> # <<"part", g, k>> /\ <<"add", f>> # <<"part", g, k>>
  OBVIOUS
<1>5. \A f, g : (<<"pair", f>> = <<"pair", g>> <=> f = g) /\ (<<"add", f>> = <<"add", g>> <=> f = g)
  OBVIOUS
<1>6. \A f, g, j, k : <<"part", f, j>> = <<"part", g, k>> <=> f = g /\ j = k
  OBVIOUS
<1> QED BY <1>1, <1>3, <1>4, <1>5, <1>6

(* The tokens of a file in a part. *)
LEMMA FilePart ==
  /\ \A f, pair : /\ PartWeight(<<"pair", f>>, pair) = Bit(f = pair.src)
                  /\ PartWeight(<<"add", f>>, pair) = 0
  /\ \A f, k, pair : PartWeight(<<"part", f, k>>, pair) = Bit(f = pair.src /\ k = pair.chunknum)
  /\ \A t, perf : FileToken(t) => PerfWeight(t, perf) = 0 /\ Bit(t = <<"compares">>) = 0
<1>1. \A f, pair : PartWeight(<<"pair", f>>, pair) = Bit(f = pair.src) /\ PartWeight(<<"add", f>>, pair) = 0
  BY FileTokens DEF PartWeight, Bit
<1>2. \A f, k, pair : PartWeight(<<"part", f, k>>, pair) = Bit(f = pair.src /\ k = pair.chunknum)
  BY FileTokens DEF PartWeight, Bit
<1>3. \A t, perf : FileToken(t) => PerfWeight(t, perf) = 0 /\ Bit(t = <<"compares">>) = 0
  BY FileTokens DEF PerfWeight, Bit
<1> QED BY <1>1, <1>2, <1>3

(* The tokens of a file in a message of each kind. *)
LEMMA FileWeight ==
  ASSUME NEW m \in Messages, NEW t, FileToken(t)
  PROVE  /\ m \in Walk \cup Ask \cup DoneWalk \cup {Exit} => Weight(t, m) = 0
         /\ m \in Compare => Weight(t, m) = PartWeight(t, m.workdata)
         /\ m \in DoneCompare => Weight(t, m) = PartWeight(t, m.workdata.files)
         /\ m \in Announce => Weight(t, m) = Bit(t = <<"add", m.workdata.src>>)
<1>1. Comparison(t) /\ Bit(t = <<"compares">>) = 0 /\ \A perf : PerfWeight(t, perf) = 0
  BY FileTokens, FilePart
<1>2. CASE m \in Walk
  <2>1. m \in Item
    BY MessagesItems
  <2>2. PathsWeight(t, m.do_work, PathsOf(m)) = 0
    BY <1>1, <2>1, PathsOfItem, PathsOfCompare
  <2>3. Weight(t, m) = 0
    BY <1>2, <2>2, Kinds DEF Weight
  <2> QED BY <1>2, <2>3, Kinds DEF WalkFns
<1>3. CASE m \in Ask \cup {Exit}
  BY <1>3, Weightless, Kinds, ExitItem DEF WalkFns
<1>4. CASE m \in DoneWalk
  <2>1. Weight(t, m) = 0
    BY <1>1, <1>4, Kinds DEF Weight, WalkFns
  <2> QED BY <1>4, <2>1, Kinds DEF WalkFns
<1>5. CASE m \in Compare
  <2>1. Weight(t, m) = PartWeight(t, m.workdata) + Bit(t = <<"compares">>)
    BY <1>5, Kinds DEF Weight, WalkFns
  <2>2. Weight(t, m) = PartWeight(t, m.workdata)
    BY <1>1, <2>1, PartWeightNat
  <2> QED BY <1>5, <2>2, Kinds, ExitItem DEF WalkFns
<1>6. CASE m \in DoneCompare
  <2>1. Weight(t, m) = PartWeight(t, m.workdata.files) + PerfWeight(t, m.workdata.perf)
    BY <1>6, Kinds DEF Weight, WalkFns
  <2>2. Weight(t, m) = PartWeight(t, m.workdata.files)
    BY <1>1, <2>1, PartWeightNat
  <2> QED BY <1>6, <2>2, Kinds, ExitItem DEF WalkFns
<1>7. CASE m \in Announce
  <2>1. Weight(t, m) = Bit(t = <<"add", m.workdata.src>>)
    BY <1>7, Kinds DEF Weight, WalkFns
  <2> QED BY <1>7, <2>1, Kinds, ExitItem DEF WalkFns
<1> QED BY <1>2, <1>3, <1>4, <1>5, <1>6, <1>7 DEF Messages, Work, Done

(* The tokens of a file that a worker holds: its offer and the parts *)
(* left, or the part it compares.                                    *)
LEMMA FileHeld ==
  ASSUME NEW s \in Local, Busy(s), s.pc \in {"work", "ack"}, NEW t, FileToken(t)
  PROVE  /\ s.item.do_work \in WalkFns =>
              /\ Held(t, s) = Weight(t, s.offer) + LeftWeight(t, s.pair)
              /\ Weight(t, s.offer) \in Nat /\ LeftWeight(t, s.pair) \in Nat
              /\ s.offer \in Messages \/ s.offer = workitem_new(MANAGER_PROC)
              /\ s.pair \in {NoData} \cup PairData /\ (s.pair # NoData => s.pair.chunknum \in -1..nproc - 1)
         /\ s.item.do_work \notin WalkFns => s.item \in Compare /\ Held(t, s) = Weight(t, s.item)
<1>1. Comparison(t) /\ t # <<"dirs">> /\ \A perf : PerfWeight(t, perf) = 0
  BY FileTokens, FilePart
<1>2. ASSUME s.item.do_work \in WalkFns
      PROVE  /\ Held(t, s) = Weight(t, s.offer) + LeftWeight(t, s.pair)
             /\ Weight(t, s.offer) \in Nat /\ LeftWeight(t, s.pair) \in Nat
  <2> DEFINE r == PathsWeight(t, s.item.do_work, Rest(s))
             e == PathsWeight(t, "treewalk_statpath", s.ents)
             b == BufferHeld(t, s)
             f == Weight(t, s.offer)
             l == LeftWeight(t, s.pair)
             p == PerfWeight(t, s.perf)
             d == Bit(s.dip /\ t = <<"dirs">>)
  <2>1. Held(t, s) = r + e + b + f + l + p + d /\ f \in Nat /\ l \in Nat
    BY <1>2, HeldWalk
  <2>2. s.ents \in Seq(Path) /\ s.out \in Seq(Path) /\ PathsOf(s.item) \in Seq(Path) /\ s.i \in Nat /\ s.i > 0
    BY LocalFields, PathsOfItem
  <2>3. Rest(s) \in Seq(Path)
    <3> DEFINE q == PathsOf(s.item)
               k == IF s.dip THEN s.i + 1 ELSE s.i
    <3>1. k \in Nat /\ k > 0 /\ q \in Seq(Path)
      BY <2>2
    <3> HIDE DEF q, k
    <3>2. SubSeq(q, k, Len(q)) \in Seq(Path)
      BY <3>1
    <3> QED BY <3>2 DEF Rest, q, k
  <2>4. r = 0 /\ e = 0 /\ p = 0 /\ d = 0
    BY <1>1, <2>2, <2>3, PathsOfCompare, BitFalse
  <2>5. b = 0
    BY <1>1, <2>2, PathsOfCompare DEF BufferHeld
  <2> HIDE DEF r, e, b, f, l, p, d
  <2>6. Held(t, s) = f + l
    BY <2>1, <2>4, <2>5
  <2> QED BY <2>1, <2>6 DEF f, l
<1>3. s.item.do_work \in WalkFns => s.offer \in Messages \/ s.offer = workitem_new(MANAGER_PROC)
  BY DEF Busy, Messages
<1>4. s.pair \in {NoData} \cup PairData /\ (s.item.do_work \in WalkFns /\ s.pair # NoData => s.pair.chunknum \in -1..nproc - 1)
  BY LocalFields DEF Busy, Statting, Reading, Comparing, WalkFns
<1>5. s.item.do_work \notin WalkFns => s.item \in Compare /\ Held(t, s) = Weight(t, s.item)
  BY Kinds DEF Busy, Work, Held
<1> QED BY <1>2, <1>3, <1>4, <1>5

(* A part left is a part of its file. *)
LEMMA FileLeft ==
  ASSUME NEW pair \in {NoData} \cup PairData, pair # NoData => pair.chunknum \in -1..nproc - 1, NEW f, NEW k
  PROVE  /\ LeftWeight(<<"add", f>>, pair) = 0
         /\ LeftWeight(<<"part", f, k>>, pair) <= LeftWeight(<<"pair", f>>, pair)
<1>1. nproc \in Nat /\ nproc > 1
  BY Ranks
<1> HIDE DEF nproc
<1>2. CASE pair = NoData
  BY <1>2 DEF LeftWeight
<1>3. CASE pair # NoData
  <2>1. pair.chunknum \in -1..nproc - 1
    BY <1>3
  <2>2. LeftWeight(<<"add", f>>, pair) = 0
    <3>1. \A j : <<"add", f>> # <<"part", pair.src, j>> /\ <<"add", f>> # <<"pair", pair.src>>
                 /\ <<"add", f>> # <<"compares">>
      BY FileTokens
    <3> QED BY <1>3, <3>1 DEF LeftWeight, Bit
  <2>3. LeftWeight(<<"part", f, k>>, pair) = Bit(<<"part", f, k>> \in {<<"part", pair.src, j>> : j \in PartsLeft(pair)})
    BY <1>3, FileTokens DEF LeftWeight
  <2>4. LeftWeight(<<"part", f, k>>, pair) \in {0, 1} /\ (f # pair.src => LeftWeight(<<"part", f, k>>, pair) = 0)
    BY <2>3, FileTokens DEF Bit
  <2>5. CASE f = pair.src
    <3>1. LeftWeight(<<"pair", f>>, pair) = IF pair.chunknum < 0 THEN 1 ELSE nproc - pair.chunknum
      BY <1>3, <2>5 DEF LeftWeight
    <3>2. LeftWeight(<<"pair", f>>, pair) >= 1 /\ LeftWeight(<<"pair", f>>, pair) \in Nat
      BY <1>1, <2>1, <3>1
    <3> QED BY <2>2, <2>4, <3>2
  <2>6. CASE f # pair.src
    <3>1. \A j : <<"pair", f>> # <<"part", pair.src, j>> /\ <<"pair", f>> # <<"pair", pair.src>>
                 /\ <<"pair", f>> # <<"compares">>
      BY <2>6, FileTokens
    <3>2. LeftWeight(<<"pair", f>>, pair) = 0
      BY <1>3, <3>1 DEF LeftWeight, Bit
    <3> QED BY <2>2, <2>4, <2>6, <3>2
  <2> QED BY <2>5, <2>6
<1> QED BY <1>2, <1>3

(* A message that holds a part of a file holds a part; only an *)
(* announcement announces.                                     *)
LEMMA FileOrder ==
  ASSUME NEW m \in Messages, NEW f, NEW k
  PROVE  /\ Weight(<<"part", f, k>>, m) <= Weight(<<"pair", f>>, m)
         /\ m \in Work \cup Ask \cup Done \cup {Exit} => Weight(<<"add", f>>, m) = 0
<1>1. FileToken(<<"part", f, k>>) /\ FileToken(<<"pair", f>>) /\ FileToken(<<"add", f>>)
  BY FileTokens
<1>2. \A pair : PartWeight(<<"part", f, k>>, pair) <= PartWeight(<<"pair", f>>, pair)
                /\ PartWeight(<<"add", f>>, pair) = 0
  BY FilePart DEF Bit
<1>3. m \in Announce => Weight(<<"part", f, k>>, m) = 0 /\ Weight(<<"pair", f>>, m) = 0
  BY <1>1, FileTokens, FileWeight DEF Bit
<1>4. Weight(<<"part", f, k>>, m) <= Weight(<<"pair", f>>, m)
  BY <1>1, <1>2, <1>3, FileWeight DEF Messages, Work, Done
<1>5. m \in Work \cup Ask \cup Done \cup {Exit} => Weight(<<"add", f>>, m) = 0
  BY <1>1, <1>2, FileWeight DEF Work, Done
<1> QED BY <1>4, <1>5

(***************************************************************************)
(* A part of a file is one of its pairs; only messages announce.           *)
(***************************************************************************)

LEMMA ItemsOrder ==
  ASSUME NEW s \in Seq(Messages), NEW a, NEW b,
         \A i \in 1..Len(s) : Weight(a, s[i]) <= Weight(b, s[i])
  PROVE  ItemsWeight(a, s) <= ItemsWeight(b, s)
<1> DEFINE f == [i \in 1..Len(s) |-> Weight(a, s[i])]
           g == [i \in 1..Len(s) |-> Weight(b, s[i])]
<1>1. Len(s) \in Nat /\ \A i \in 1..Len(s) : f[i] \in Nat /\ g[i] \in Nat /\ f[i] <= g[i]
  BY WeightNat
<1> HIDE DEF f, g
<1>2. Total(f, Len(s)) <= Total(g, Len(s))
  BY <1>1, TotalBound
<1> QED BY <1>2 DEF ItemsWeight, f, g

(* A list whose messages hold no token holds none. *)
LEMMA ItemsZero ==
  ASSUME NEW s \in Seq(Messages), NEW t, \A i \in 1..Len(s) : Weight(t, s[i]) = 0
  PROVE  ItemsWeight(t, s) = 0
<1>1. ItemsWeight(t, s) \in Nat
  BY ItemsNat
<1>2. ~(ItemsWeight(t, s) > 0)
  BY ItemsSome
<1> QED BY <1>1, <1>2

(* A worker that holds a given part of a file holds a part of it, and no *)
(* announcement.                                                         *)
LEMMA HeldOrder ==
  ASSUME NEW s \in Local, Resting(s) \/ (Busy(s) /\ s.pc \in {"work", "ack"}), NEW f, NEW k
  PROVE  /\ Held(<<"part", f, k>>, s) <= Held(<<"pair", f>>, s)
         /\ Held(<<"add", f>>, s) = 0
<1> DEFINE a == <<"part", f, k>>
           b == <<"pair", f>>
           c == <<"add", f>>
<1>1. FileToken(a) /\ FileToken(b) /\ FileToken(c)
  BY FileTokens
<1>2. CASE Resting(s)
  <2>1. Held(a, s) = 0 /\ Held(b, s) = 0 /\ Held(c, s) = 0
    BY <1>2, HeldResting
  <2> QED BY <2>1
<1>3. CASE Busy(s) /\ s.pc \in {"work", "ack"} /\ s.item.do_work \in WalkFns
  <2>1. \A t : FileToken(t) => /\ Held(t, s) = Weight(t, s.offer) + LeftWeight(t, s.pair)
                               /\ Weight(t, s.offer) \in Nat /\ LeftWeight(t, s.pair) \in Nat
    BY <1>3, FileHeld
  <2>2. s.offer \in Messages \/ s.offer = workitem_new(MANAGER_PROC)
    BY <1>1, <1>3, FileHeld
  <2>3. s.pair \in {NoData} \cup PairData /\ (s.pair # NoData => s.pair.chunknum \in -1..nproc - 1)
    BY <1>1, <1>3, FileHeld
  <2>4. LeftWeight(c, s.pair) = 0 /\ LeftWeight(a, s.pair) <= LeftWeight(b, s.pair)
    BY <2>3, FileLeft
  <2>5. Weight(a, s.offer) <= Weight(b, s.offer) /\ Weight(c, s.offer) = 0
    <3>1. CASE s.offer = workitem_new(MANAGER_PROC)
      BY <3>1, OfNone
    <3>2. CASE s.offer # workitem_new(MANAGER_PROC)
      <4>1. s.offer \in Work /\ s.offer \in Messages
        BY <1>3, <2>2, <3>2 DEF Busy
      <4> QED BY <4>1, FileOrder
    <3> QED BY <3>1, <3>2
  <2> DEFINE oa == Weight(a, s.offer)
             ob == Weight(b, s.offer)
             la == LeftWeight(a, s.pair)
             lb == LeftWeight(b, s.pair)
  <2>6. Held(a, s) = oa + la /\ Held(b, s) = ob + lb /\ oa \in Nat /\ ob \in Nat /\ la \in Nat /\ lb \in Nat
        /\ oa <= ob /\ la <= lb
    BY <1>1, <2>1, <2>4, <2>5
  <2>7. Held(c, s) = 0 + 0
    BY <1>1, <2>1, <2>4, <2>5
  <2> HIDE DEF oa, ob, la, lb, a, b, c
  <2>8. Held(a, s) <= Held(b, s) /\ Held(c, s) = 0
    BY <2>6, <2>7
  <2> QED BY <2>8 DEF a, b, c
<1>4. CASE Busy(s) /\ s.pc \in {"work", "ack"} /\ s.item.do_work \notin WalkFns
  <2>1. \A t : FileToken(t) => s.item \in Compare /\ Held(t, s) = Weight(t, s.item)
    BY <1>4, FileHeld
  <2>2. s.item \in Work /\ s.item \in Messages
    BY <1>4 DEF Busy, Messages
  <2>3. Weight(a, s.item) <= Weight(b, s.item) /\ Weight(c, s.item) = 0
    BY <2>2, FileOrder
  <2> QED BY <1>1, <2>1, <2>3
<1> QED BY <1>2, <1>3, <1>4

(* Where the tokens are: the messages, the workers and the queues, with *)
(* their types.                                                         *)
LEMMA Places ==
  ASSUME TalkInv
  PROVE  /\ \A w \in Workers : /\ toMgr[w] \in Seq(Messages) /\ toWrk[w] \in Seq(Messages)
                               /\ \A i \in 1..Len(toWrk[w]) : toWrk[w][i] \in Work \cup Ask \cup {Exit}
                               /\ Resting(wk[w]) \/ (Busy(wk[w]) /\ wk[w].pc \in {"work", "ack"})
                               /\ wk[w] \in Local
         /\ \A q \in Queues : workq[q] \in Seq(Work)
<1>1. Outbox \subseteq Messages /\ Inbox \subseteq Messages
  BY DEF Outbox, Inbox, Messages
<1>2. \A w \in Workers : toMgr[w] \in Seq(Outbox) /\ toWrk[w] \in Seq(Inbox) /\ wk[w] \in Local
  BY OwnTypes
<1>3. \A w \in Workers : Resting(wk[w]) \/ (Busy(wk[w]) /\ wk[w].pc \in {"work", "ack"})
  BY DEF TalkInv, InPhase, Free, Given, AtWork, Asking, Answered, Finished
<1>4. \A q \in Queues : workq[q] \in Seq(Work)
  BY DEF TalkInv, TypeOK
<1>5. \A w \in Workers : \A i \in 1..Len(toWrk[w]) : toWrk[w][i] \in Work \cup Ask \cup {Exit}
  BY <1>2 DEF Inbox
<1> QED BY <1>1, <1>2, <1>3, <1>4, <1>5

(* Each part of a file is one of its parts. *)
LEMMA PartOfPair ==
  ASSUME TalkInv, NEW f, NEW k
  PROVE  ToPart(f, k) <= ToPair(f)
<1> DEFINE a == <<"part", f, k>>
           b == <<"pair", f>>
<1>0. \A m \in Messages : Weight(a, m) <= Weight(b, m)
  BY FileOrder
<1>2. \A w \in Workers : Held(a, wk[w]) <= Held(b, wk[w])
  BY Places, HeldOrder
<1> HIDE DEF a, b
<1>1. \A s \in Seq(Messages) : ItemsWeight(a, s) <= ItemsWeight(b, s)
  <2> SUFFICES ASSUME NEW s \in Seq(Messages) PROVE ItemsWeight(a, s) <= ItemsWeight(b, s)
    OBVIOUS
  <2>1. \A i \in 1..Len(s) : Weight(a, s[i]) <= Weight(b, s[i])
    BY <1>0
  <2> QED BY <2>1, ItemsOrder
<1>3. ASSUME NEW w \in Workers PROVE With(a, w) <= With(b, w) /\ With(a, w) \in Nat /\ With(b, w) \in Nat
  <2>1. /\ Held(a, wk[w]) \in Nat /\ ItemsWeight(a, toMgr[w]) \in Nat /\ ItemsWeight(a, toWrk[w]) \in Nat
        /\ Held(b, wk[w]) \in Nat /\ ItemsWeight(b, toMgr[w]) \in Nat /\ ItemsWeight(b, toWrk[w]) \in Nat
    BY WithNat
  <2>2. /\ Held(a, wk[w]) <= Held(b, wk[w]) /\ ItemsWeight(a, toMgr[w]) <= ItemsWeight(b, toMgr[w])
        /\ ItemsWeight(a, toWrk[w]) <= ItemsWeight(b, toWrk[w])
    BY <1>1, <1>2, Places
  <2> QED BY <2>1, <2>2 DEF With
<1> DEFINE g == [w \in Workers |-> With(a, w)]
           h == [w \in Workers |-> With(b, w)]
           n == nproc - 1
<1>4. n \in Nat /\ Workers = 1..n
  BY Ranks
<1>5. \A i \in 1..n : g[i] \in Nat /\ h[i] \in Nat /\ g[i] <= h[i]
  BY <1>3, <1>4
<1> HIDE DEF g, h, n
<1>6. Total(g, n) \in Nat /\ Total(g, n) <= Total(h, n)
  BY <1>4, <1>5, TotalBound
<1>7. ASSUME NEW q PROVE Queued(a, q) <= Queued(b, q)
  <2>1. Work \subseteq Messages
    BY DEF Messages
  <2>2. q \in Queues => workq[q] \in Seq(Messages)
    BY <2>1, Places
  <2> QED BY <1>1, <2>2 DEF Queued
<1>8. Total(g, n) = Sum(a) /\ Total(h, n) = Sum(b)
  BY DEF Sum, g, h, n
<1>9. All(a) = Sum(a) + Queued(a, 0) + Queued(a, 1) /\ All(b) = Sum(b) + Queued(b, 0) + Queued(b, 1)
  BY DEF All, Sum
<1>10. /\ Queued(a, 0) \in Nat /\ Queued(a, 1) \in Nat /\ Queued(b, 0) \in Nat /\ Queued(b, 1) \in Nat
       /\ Sum(a) \in Nat /\ Sum(b) \in Nat
  BY QueuedNat, AllNats
<1>11. All(a) <= All(b)
  BY <1>6, <1>7, <1>8, <1>9, <1>10
<1> QED BY <1>11 DEF ToPart, ToPair, a, b

(* An announcement is under way from some worker. *)
LEMMA AddPlace ==
  ASSUME TalkInv, NEW f, ToAdd(f) > 0
  PROVE  \E w \in Workers : ItemsWeight(<<"add", f>>, toMgr[w]) > 0
<1> DEFINE c == <<"add", f>>
<1>1. \A w \in Workers : Held(c, wk[w]) = 0
  BY Places, HeldOrder
<1>2. \A m \in Work \cup Ask \cup {Exit} : m \in Messages /\ Weight(c, m) = 0
  BY FileOrder DEF Messages
<1> HIDE DEF c
<1>3. \A w \in Workers : ItemsWeight(c, toWrk[w]) = 0
  BY <1>2, Places, ItemsZero
<1>4. \A q : Queued(c, q) = 0
  <2>1. ASSUME NEW q \in Queues PROVE ItemsWeight(c, workq[q]) = 0
    <3>1. workq[q] \in Seq(Work)
      BY Places
    <3>2. workq[q] \in Seq(Messages) /\ \A i \in 1..Len(workq[q]) : Weight(c, workq[q][i]) = 0
      BY <1>2, <3>1
    <3> QED BY <3>2, ItemsZero
  <2> QED BY <2>1 DEF Queued
<1> SUFFICES ASSUME \A w \in Workers : ~(ItemsWeight(c, toMgr[w]) > 0) PROVE FALSE
  BY DEF c
<1>5. \A w \in Workers : With(c, w) = 0
  <2> SUFFICES ASSUME NEW w \in Workers PROVE With(c, w) = 0
    OBVIOUS
  <2>1. ItemsWeight(c, toMgr[w]) \in Nat /\ ~(ItemsWeight(c, toMgr[w]) > 0)
    BY WithNat
  <2>2. ItemsWeight(c, toMgr[w]) = 0
    BY <2>1
  <2> QED BY <1>1, <1>3, <2>2 DEF With
<1> DEFINE g == [w \in Workers |-> With(c, w)]
           n == nproc - 1
<1>6. n \in Nat /\ Workers = 1..n
  BY Ranks
<1>7. \A i \in 1..n : g[i] = 0
  BY <1>5, <1>6
<1> HIDE DEF g, n
<1>8. Total(g, n) = 0
  BY <1>6, <1>7, TotalZero
<1>9. All(c) = 0 + 0 + 0
  BY <1>4, <1>8 DEF All, g, n
<1> QED BY <1>9 DEF ToAdd, c

(* A file that worker w has announced, but has not handed over any part of. *)
AddFirst(w, f) ==
  ItemsWeight(<<"add", f>>, toMgr[w]) > 0 => Held(<<"pair", f>>, wk[w]) = nproc

(* What a worker holds is a natural number, *)
LEMMA HeldNats == TalkInv => \A t : \A w \in Workers : Held(t, wk[w]) \in Nat
BY WithNat

(* in the next state too. *)
LEMMA HeldNatsNext == TalkInv' => (\A t : \A w \in Workers : Held(t, wk[w]) \in Nat)'
BY HeldNats, PTL

(* AddsFirst, worker by worker and file by file. *)
LEMMA AddsFirstDef ==
  /\ AddsFirst <=> \A w \in Workers, f \in DOMAIN Src : AddFirst(w, f)
  /\ AddsFirst' <=> \A w \in Workers, f \in DOMAIN Src : AddFirst(w, f)'
BY DEF AddsFirst, AddFirst

(* A worker that does not change keeps it, *)
LEMMA AddFirstSame ==
  ASSUME NEW w, NEW f, AddFirst(w, f), toMgr'[w] = toMgr[w], wk'[w] = wk[w]
  PROVE  AddFirst(w, f)'
BY DEF AddFirst

(* so does one whose tokens of the file do not change, *)
LEMMA AddFirstKept ==
  ASSUME NEW w, NEW f, AddFirst(w, f),
         ItemsWeight(<<"add", f>>, toMgr'[w]) = ItemsWeight(<<"add", f>>, toMgr[w]),
         Held(<<"pair", f>>, wk'[w]) = Held(<<"pair", f>>, wk[w])
  PROVE  AddFirst(w, f)'
BY DEF AddFirst

(* and one that has nothing under way. *)
LEMMA AddNothing ==
  ASSUME NEW w, NEW f, ItemsWeight(<<"add", f>>, toMgr'[w]) = 0
  PROVE  AddFirst(w, f)'
<1>1. ~(ItemsWeight(<<"add", f>>, toMgr'[w]) > 0)
  BY SMT
<1> QED BY <1>1 DEF AddFirst

(* A worker that holds no part of f has announced it to nobody. *)
LEMMA NoPartNoAdd ==
  ASSUME TalkInv, NEW w \in Workers, NEW f, AddFirst(w, f), Held(<<"pair", f>>, wk[w]) # nproc
  PROVE  ItemsWeight(<<"add", f>>, toMgr[w]) = 0
<1>1. ItemsWeight(<<"add", f>>, toMgr[w]) \in Nat
  BY WithNat
<1>2. ~(ItemsWeight(<<"add", f>>, toMgr[w]) > 0)
  BY DEF AddFirst
<1> QED BY <1>1, <1>2

(* A message less is no announcement more. *)
LEMMA TailAdds ==
  ASSUME TalkInv, NEW w \in Workers, NEW f, AddFirst(w, f), toMgr[w] # <<>>,
         toMgr'[w] = Tail(toMgr[w]), wk'[w] = wk[w]
  PROVE  AddFirst(w, f)'
<1> DEFINE a == <<"add", f>>
<1>1. /\ ItemsWeight(a, toMgr[w]) = Weight(a, Head(toMgr[w])) + ItemsWeight(a, Tail(toMgr[w]))
      /\ ItemsWeight(a, Tail(toMgr[w])) \in Nat /\ Weight(a, Head(toMgr[w])) \in Nat
  BY TakeMessage
<1>2. ItemsWeight(a, toMgr'[w]) > 0 => ItemsWeight(a, toMgr[w]) > 0
  BY <1>1
<1> QED BY <1>2 DEF AddFirst

(* The manager only takes messages. *)
LEMMA ManagerAdds ==
  ASSUME TalkInv, Manager, NEW v \in Workers, NEW f, AddFirst(v, f)
  PROVE  AddFirst(v, f)'
<1>1. CASE UNCHANGED <<toMgr, wk>>
  BY <1>1, AddFirstSame
<1>2. ASSUME NEW w \in Workers, toMgr[w] # <<>>, toMgr' = [toMgr EXCEPT ![w] = Tail(@)], UNCHANGED wk
      PROVE  AddFirst(v, f)'
  <2>1. toMgr \in [Workers -> Seq(Outbox)]
    BY DEF TalkInv, TypeOK
  <2>2. toMgr'[v] = IF v = w THEN Tail(toMgr[v]) ELSE toMgr[v]
    BY <1>2, <2>1
  <2>3. CASE v = w
    BY <1>2, <2>2, <2>3, TailAdds
  <2>4. CASE v # w
    BY <1>2, <2>2, <2>4, AddFirstSame
  <2> QED BY <2>3, <2>4
<1>3. CASE startwork \/ ManagerProbe \/ ManagerAssign \/ ManagerPoll \/ manager_fini
  BY <1>1, <1>3 DEF startwork, ManagerProbe, ManagerAssign, ManagerPoll, manager_fini
<1>4. CASE AckedWork
  <2>1. mgr.rank \in Workers
    BY <1>4 DEF TalkInv, ManagerInv, AckedWork
  <2> QED BY <1>2, <1>4, <2>1 DEF AckedWork
<1>5. ASSUME NEW w \in Workers, ManagerRun(w) \/ scheduler_ackwork(w) PROVE AddFirst(v, f)'
  BY <1>2, <1>5 DEF ManagerRun, scheduler_ackwork
<1> QED BY <1>3, <1>4, <1>5 DEF Manager

(* What a worker holds of a file while it looks for the next one. *)
LEMMA NoPair ==
  ASSUME TalkInv, NEW w \in Workers, wk[w].pc = "work", wk[w].item.do_work \in WalkFns,
         wk[w].pair = NoData, NEW t, FileToken(t)
  PROVE  Held(t, wk[w]) = 0
<1>1. Busy(wk[w]) /\ wk[w] \in Local
  BY AtWorkWhen
<1>2. Held(t, wk[w]) = Weight(t, wk[w].offer) + LeftWeight(t, wk[w].pair)
  BY <1>1, FileHeld
<1>3. wk[w].offer = workitem_new(MANAGER_PROC)
  BY <1>1 DEF Busy
<1>4. Weight(t, wk[w].offer) = 0
  BY <1>3, OfNone
<1>5. LeftWeight(t, wk[w].pair) = 0
  BY DEF LeftWeight
<1> QED BY <1>2, <1>4, <1>5

(* There are at least two processes. *)
LEMMA NprocAbove == nproc # 0 /\ nproc # 1 /\ nproc \in Nat /\ nproc > 1
BY Ranks

(* A worker that receives work has sent nothing. *)
LEMMA ReceiveAdds ==
  ASSUME TalkInv, TalkInv', NEW w \in Workers, worker_receive(w) \/ worker_quit(w), NEW f, AddFirst(w, f)
  PROVE  AddFirst(w, f)'
<1>1. Resting(wk[w]) /\ toMgr'[w] = toMgr[w]
  BY ReceiveTalks, QuitTalks DEF worker_receive, worker_quit
<1>2. Held(<<"pair", f>>, wk[w]) = 0
  BY <1>1, HeldResting
<1>3. ItemsWeight(<<"add", f>>, toMgr[w]) = 0
  BY <1>2, NoPartNoAdd, NprocAbove
<1> QED BY <1>1, <1>3, AddNothing

(* A worker that is answered has nothing under way. *)
LEMMA AnsweredAdds ==
  ASSUME TalkInv, TalkInv', NEW w \in Workers, worker_answered(w), NEW f
  PROVE  AddFirst(w, f)'
<1>1. \E m \in Ask \cup Work : toMgr'[w] = <<m>>
  BY AnsweredTalks
<1>2. PICK m \in Ask \cup Work : toMgr'[w] = <<m>>
  BY <1>1
<1>3. m \in Messages /\ m \in Work \cup Ask \cup Done \cup {Exit}
  BY DEF Messages
<1>4. Weight(<<"add", f>>, m) = 0
  BY <1>3, FileOrder
<1>5. ItemsWeight(<<"add", f>>, <<m>>) = 0
  BY <1>3, <1>4, ItemsOne
<1> QED BY <1>2, <1>5, AddNothing

(* A directory is neither announced nor handed over. *)
LEMMA StatDirAdds ==
  ASSUME TalkInv, TalkInv', NEW w \in Workers, StatDir(w), NEW f, AddFirst(w, f)
  PROVE  AddFirst(w, f)'
<1> DEFINE b == <<"pair", f>>
<1>1. PICK p \in DOMAIN Entries :
        \A t : /\ ItemsWeight(t, toMgr'[w]) = ItemsWeight(t, toMgr[w])
               /\ Held(t, wk'[w]) + PathWeight(t, "treewalk_statpath", p)
                    = Held(t, wk[w]) + PathWeight(t, "treewalk_readdir", p)
  BY StatDirFlow
<1>2. Comparison(b)
  BY FileTokens
<1>3. PathWeight(b, "treewalk_statpath", p) = 0 /\ PathWeight(b, "treewalk_readdir", p) = 0
  BY <1>2, PathOfCompare
<1>4. Held(b, wk[w]) \in Nat /\ Held(b, wk'[w]) \in Nat
  BY HeldNats, HeldNatsNext
<1>5. Held(b, wk'[w]) = Held(b, wk[w])
  BY <1>1, <1>3, <1>4
<1> QED BY <1>1, <1>5, AddFirstKept

(* Nor does opening a directory concern a file, *)
LEMMA OpenDirAdds ==
  ASSUME TalkInv, TalkInv', NEW w \in Workers, OpenDir(w), NEW f, AddFirst(w, f)
  PROVE  AddFirst(w, f)'
<1> DEFINE a == <<"add", f>>
           b == <<"pair", f>>
<1>1. Comparison(a) /\ Comparison(b)
  BY FileTokens
<1>2. CASE /\ ItemsWeight(a, toMgr'[w]) = ItemsWeight(a, toMgr[w])
           /\ Held(b, wk'[w]) = Held(b, wk[w])
  BY <1>2, AddFirstKept
<1>3. CASE ItemsWeight(a, toMgr'[w]) = ItemsWeight(a, toMgr[w]) + Held(a, wk[w])
  <2>1. "treewalk_readdir" \in WalkFns
    BY DEF WalkFns
  <2>2. wk[w].pc = "work" /\ wk[w].item.do_work \in WalkFns
    BY <2>1 DEF OpenDir, Working
  <2>3. wk[w].pair = NoData
    BY <2>1, InWalk DEF OpenDir, Reading
  <2>4. FileToken(a) /\ FileToken(b)
    BY FileTokens
  <2>5. Held(a, wk[w]) = 0 /\ Held(b, wk[w]) = 0
    BY <2>2, <2>3, <2>4, NoPair
  <2>6. ItemsWeight(a, toMgr[w]) = 0
    BY <2>5, NoPartNoAdd, NprocAbove
  <2> QED BY <1>3, <2>5, <2>6, AddNothing
<1> QED BY <1>1, <1>2, <1>3, OpenDirFlow

(* reading or closing one, or offering a part: the worker still holds the *)
(* parts.                                                                 *)
LEMMA ReadEntryAdds ==
  ASSUME TalkInv, TalkInv', NEW w \in Workers, ReadEntry(w) \/ CloseDir(w) \/ cmp_sendpaths(w),
         NEW f, AddFirst(w, f)
  PROVE  AddFirst(w, f)'
BY ReadEntryFlow, CloseDirFlow, SendPathsFlow, AddFirstKept

(* The end of an item, *)
LEMMA WalkEndAdds ==
  ASSUME TalkInv, TalkInv', NEW w \in Workers, WalkEnd(w), NEW f, AddFirst(w, f)
  PROVE  AddFirst(w, f)'
<1> DEFINE a == <<"add", f>>
           b == <<"pair", f>>
<1>1. CASE /\ ItemsWeight(a, toMgr'[w]) = ItemsWeight(a, toMgr[w])
           /\ Held(b, wk'[w]) = Held(b, wk[w])
  BY <1>1, AddFirstKept
<1>2. CASE /\ ItemsWeight(a, toMgr'[w]) = ItemsWeight(a, toMgr[w]) + Held(a, wk[w])
           /\ Held(a, wk[w]) = PerfWeight(a, wk[w].perf)
           /\ Held(b, wk[w]) = PerfWeight(b, wk[w].perf)
  <2>1. PerfWeight(a, wk[w].perf) = 0 /\ PerfWeight(b, wk[w].perf) = 0
    <3>1. FileToken(a) /\ FileToken(b)
      BY FileTokens
    <3> HIDE DEF a, b
    <3> QED BY <3>1, FilePart
  <2>2. ItemsWeight(a, toMgr[w]) = 0
    BY <1>2, <2>1, NoPartNoAdd, NprocAbove
  <2> QED BY <1>2, <2>1, <2>2, AddNothing
<1> QED BY <1>1, <1>2, WalkEndFlow

(* and of a compare: the worker held no file whole. *)
LEMMA CompareAdds ==
  ASSUME TalkInv, TalkInv', NEW w \in Workers, cmp_compare(w), NEW f, AddFirst(w, f)
  PROVE  AddFirst(w, f)'
<1> DEFINE a == <<"add", f>>
           b == <<"pair", f>>
           m == wk[w].item
<1>1. /\ ItemsWeight(a, toMgr'[w]) = ItemsWeight(a, toMgr[w]) + Held(a, wk[w])
      /\ Held(a, wk[w]) = Weight(a, m) /\ Held(b, wk[w]) = Weight(b, m)
  BY CompareFlow
<1>2. m \in Compare /\ m \in Messages
  <2>1. m.do_work = "cmp_compare" /\ Busy(wk[w])
    BY AtWorkWhen DEF cmp_compare, Working
  <2> QED BY <2>1, Kinds DEF Busy, Work, WalkFns, Messages
<1>3. Weight(a, m) = PartWeight(a, m.workdata) /\ Weight(b, m) = PartWeight(b, m.workdata)
  BY <1>2, FileTokens, FileWeight
<1>4. PartWeight(a, m.workdata) = 0 /\ PartWeight(b, m.workdata) = Bit(f = m.workdata.src)
  BY FilePart
<1>5. Bit(f = m.workdata.src) # nproc
  BY NprocAbove DEF Bit
<1>6. ItemsWeight(a, toMgr[w]) = 0
  BY <1>1, <1>3, <1>4, <1>5, NoPartNoAdd
<1> QED BY <1>1, <1>3, <1>4, <1>6, AddNothing

(* The pieces of a new file. *)
LEMMA NewPieces ==
  ASSUME NEW f, NEW p \in DOMAIN Src
  PROVE  /\ NewSent(<<"add", f>>, p) = Bit(Compared(p) /\ Chunked(p) /\ f = p)
         /\ NewSent(<<"pair", f>>, p) = 0 /\ \A k : NewSent(<<"part", f, k>>, p) = 0
         /\ NewHeld(<<"add", f>>, p) = 0
         /\ NewHeld(<<"pair", f>>, p) = IF f = p THEN PartsOf(p) ELSE 0
         /\ \A k : NewHeld(<<"part", f, k>>, p) = Bit(f = p /\ Compared(p) /\ <<p, k>> \in Parts(p))
<1> DEFINE pair == FirstPart(p)
           n == IF pair.chunknum < 0 THEN 1 ELSE nproc - pair.chunknum
<1>1. /\ pair.src = p /\ pair # NoData /\ pair.chunknum = IF Chunked(p) THEN 0 ELSE -1
  BY FirstPartIs
<1>2. n = IF Chunked(p) THEN nproc ELSE 1
  BY <1>1, Ranks
<1>3. Compared(p) => PartsOf(p) = n
  BY <1>2, PartsCount DEF PartsOf
<1>4. ~Compared(p) => PartsOf(p) = 0
  BY DEF PartsOf
<1>5. LeftWeight(<<"pair", f>>, pair) = IF f = p THEN n ELSE 0
  <2> DEFINE t == <<"pair", f>>
  <2>1. t = <<"pair", p>> <=> f = p
    OBVIOUS
  <2>2. t # <<"compares">> /\ t \notin {<<"part", pair.src, k>> : k \in PartsLeft(pair)}
    BY FileTokens
  <2> HIDE DEF t
  <2> QED BY <1>1, <2>1, <2>2 DEF LeftWeight, Bit
<1>6. ASSUME NEW k PROVE LeftWeight(<<"part", f, k>>, pair) = Bit(f = p /\ k \in PartsLeft(pair))
  <2> DEFINE t == <<"part", f, k>>
  <2>1. t \in {<<"part", pair.src, j>> : j \in PartsLeft(pair)} <=> f = p /\ k \in PartsLeft(pair)
    BY <1>1
  <2>2. t # <<"compares">> /\ t # <<"pair", pair.src>>
    BY FileTokens
  <2> HIDE DEF t
  <2> QED BY <1>1, <2>1, <2>2 DEF LeftWeight, Bit
<1>7. LeftWeight(<<"add", f>>, pair) = 0
  <2>1. pair \in {NoData} \cup PairData /\ pair.chunknum \in -1..nproc - 1
    BY FirstPartIs
  <2> QED BY <2>1, FileLeft
<1>8. ASSUME NEW k, Compared(p) PROVE k \in PartsLeft(pair) <=> <<p, k>> \in Parts(p)
  BY <1>1, <1>8, Ranks DEF Parts, PartsLeft, Compared
<1>9. /\ \A k : NewSent(<<"part", f, k>>, p) = 0
      /\ NewSent(<<"pair", f>>, p) = 0
  BY FileTokens DEF NewSent, Bit
<1>10. NewSent(<<"add", f>>, p) = Bit(Compared(p) /\ Chunked(p) /\ f = p)
  BY FileTokens DEF NewSent, Bit
<1>11. NewHeld(<<"add", f>>, p) = 0 /\ NewHeld(<<"pair", f>>, p) = IF f = p THEN PartsOf(p) ELSE 0
  BY <1>3, <1>4, <1>5, <1>7 DEF NewHeld
<1>12. ASSUME NEW k PROVE NewHeld(<<"part", f, k>>, p) = Bit(f = p /\ Compared(p) /\ <<p, k>> \in Parts(p))
  <2>1. NewHeld(<<"part", f, k>>, p) = IF Compared(p) THEN Bit(f = p /\ k \in PartsLeft(pair)) ELSE 0
    BY <1>6 DEF NewHeld
  <2> QED BY <1>8, <2>1 DEF Bit
<1> QED BY <1>9, <1>10, <1>11, <1>12

(* A file is announced when all of its parts are still with the worker. *)
LEMMA StatFileAdds ==
  ASSUME TalkInv, TalkInv', NEW w \in Workers, StatFile(w), NEW f, AddFirst(w, f)
  PROVE  AddFirst(w, f)'
<1> DEFINE a == <<"add", f>>
           b == <<"pair", f>>
<1>1. PICK p \in DOMAIN Src :
        /\ wk[w].pair = NoData /\ wk[w].pc = "work" /\ Statting(wk[w])
        /\ \A t : /\ ItemsWeight(t, toMgr'[w]) = ItemsWeight(t, toMgr[w]) + NewSent(t, p)
                  /\ Held(t, wk'[w]) + PathWeight(t, "treewalk_statpath", p) = Held(t, wk[w]) + NewHeld(t, p)
  BY StatFileFlow
<1>2. FileToken(a) /\ FileToken(b) /\ Comparison(a) /\ Comparison(b)
  BY FileTokens
<1>3. Held(a, wk[w]) = 0 /\ Held(b, wk[w]) = 0
  BY <1>1, <1>2, NoPair DEF Statting, WalkFns
<1>4. ItemsWeight(a, toMgr[w]) = 0
  BY <1>3, NoPartNoAdd, NprocAbove
<1>5. NewSent(a, p) = Bit(Compared(p) /\ Chunked(p) /\ f = p) /\ NewHeld(b, p) = IF f = p THEN PartsOf(p) ELSE 0
  BY NewPieces
<1>6. PathWeight(b, "treewalk_statpath", p) = 0
  BY <1>2, PathOfCompare
<1>7. CASE Compared(p) /\ Chunked(p) /\ f = p
  <2>1. PartsOf(p) = nproc
    BY <1>7, PartsCount DEF PartsOf
  <2>2. Held(b, wk'[w]) + 0 = 0 + nproc
    BY <1>1, <1>3, <1>5, <1>6, <1>7, <2>1
  <2>3. Held(b, wk'[w]) \in Nat
    BY HeldNatsNext
  <2>4. Held(b, wk'[w]) = nproc
    BY <2>2, <2>3, NprocAbove
  <2> QED BY <2>4 DEF AddFirst
<1>8. CASE ~(Compared(p) /\ Chunked(p) /\ f = p)
  <2>1. NewSent(a, p) = 0
    BY <1>5, <1>8, BitFalse
  <2>2. ItemsWeight(a, toMgr'[w]) = 0 + 0
    BY <1>1, <1>4, <2>1
  <2> QED BY <2>2, AddNothing
<1> QED BY <1>7, <1>8

(* Every step of the worker keeps it, *)
LEMMA WorkerAdds ==
  ASSUME TalkInv, TalkInv', NEW w \in Workers, Worker(w) \/ worker_quit(w), NEW f, AddFirst(w, f)
  PROVE  AddFirst(w, f)'
BY ReceiveAdds, AnsweredAdds, StatDirAdds, StatFileAdds, OpenDirAdds, ReadEntryAdds, WalkEndAdds, CompareAdds
   DEF Worker

(* A worker's step is its own. *)
LEMMA OthersStill ==
  ASSUME TalkInv, NEW w \in Workers, Worker(w) \/ worker_quit(w), NEW v \in Workers, v # w
  PROVE  toMgr'[v] = toMgr[v] /\ wk'[v] = wk[v]
<1>1. toMgr \in [Workers -> Seq(Outbox)] /\ wk \in [Workers -> Local]
  BY DEF TalkInv, TypeOK
<1> DEFINE Own == /\ UNCHANGED toMgr \/ \E x : toMgr' = [toMgr EXCEPT ![w] = x]
                  /\ UNCHANGED wk \/ \E s : wk' = [wk EXCEPT ![w] = s]
<1>2. \A x, y : SendToManager(x, w) => \E z : toMgr' = [toMgr EXCEPT ![w] = z]
  BY DEF SendToManager
<1>3. \A s : Set(w, s) => \E z : wk' = [wk EXCEPT ![w] = z]
  BY DEF Set
<1>4. \A s, q, m : worker_sendrequest(w, s, q, m) => Own
  BY <1>2, <1>3 DEF worker_sendrequest
<1>5. \A perf : tw_senddone(w, perf) => Own
  BY <1>2, <1>3 DEF tw_senddone
<1>6. worker_receive(w) \/ worker_quit(w) \/ CloseDir(w) => Own
  BY <1>3 DEF worker_receive, worker_quit, CloseDir, OnlyWorker
<1>7. worker_answered(w) => Own
  BY <1>2, <1>3 DEF worker_answered
<1>8. StatDir(w) => Own
  BY <1>3, <1>4 DEF StatDir, tw_senddirs
<1>9. StatFile(w) => Own
  BY <1>2, <1>3 DEF StatFile, cmp_process_file
<1>10. cmp_sendpaths(w) => Own
  BY <1>4 DEF cmp_sendpaths
<1>11. OpenDir(w) => Own
  BY <1>3, <1>5 DEF OpenDir
<1>12. ReadEntry(w) => Own
  BY <1>3, <1>4 DEF ReadEntry, tw_sendpaths
<1>13. WalkEnd(w) => Own
  BY <1>4, <1>5 DEF WalkEnd, tw_senddirs, tw_sendpaths
<1>14. cmp_compare(w) => Own
  BY <1>2, <1>3 DEF cmp_compare
<1>15. Own
  BY <1>6, <1>7, <1>8, <1>9, <1>10, <1>11, <1>12, <1>13, <1>14 DEF Worker
<1> QED BY <1>1, <1>15

(* and so does every step. *)
LEMMA AddsKept == TalkInv /\ TalkInv' /\ AddsFirst /\ [Next]_vars => AddsFirst'
<1> SUFFICES ASSUME TalkInv, TalkInv', AddsFirst, [Next]_vars, NEW v \in Workers, NEW f \in DOMAIN Src
             PROVE  AddFirst(v, f)'
  BY AddsFirstDef
<1>1. AddFirst(v, f)
  BY AddsFirstDef
<1>2. CASE UNCHANGED vars
  BY <1>1, <1>2, AddFirstSame DEF vars
<1>3. CASE Manager
  BY <1>1, <1>3, ManagerAdds
<1>4. ASSUME NEW w \in Workers, Worker(w) \/ worker_quit(w) PROVE AddFirst(v, f)'
  <2>1. CASE v = w
    BY <1>1, <1>4, <2>1, WorkerAdds
  <2>2. CASE v # w
    BY <1>1, <1>4, <2>2, OthersStill, AddFirstSame
  <2> QED BY <2>1, <2>2
<1> QED BY <1>2, <1>3, <1>4 DEF Next

(* The outcomes under way, message by message. *)
Contains(w, m) == \E n \in 1..Len(toMgr[w]) : m = toMgr[w][n]

Judged(m) == m.do_work = "cmp_workdone" => Outcome(m.workdata.files)

(* OutcomesRight, message by message, *)
LEMMA JudgedAll == OutcomesRight <=> \A w \in Workers : \A m : Contains(w, m) => Judged(m)
BY DEF OutcomesRight, Contains, Judged

(* and that of the next state. *)
LEMMA JudgedAllNext == OutcomesRight' <=> (\A w \in Workers : \A m : Contains(w, m) => Judged(m))'
BY JudgedAll, PTL

(* Whether two files are the same depends on the files. *)
LEMMA SameKept == UNCHANGED o => \A f : Same(f)' <=> Same(f)
BY DEF Same

(* A part that was the same remains so; failures remain. *)
LEMMA PartSameKept ==
  ASSUME UNCHANGED o, failed \subseteq failed', NEW f, NEW k, PartSame(f, k)
  PROVE  PartSame(f, k)'
BY DEF PartSame

(* A right outcome remains right, *)
LEMMA OutcomeKept ==
  ASSUME UNCHANGED o, failed \subseteq failed', NEW pair, Outcome(pair)
  PROVE  Outcome(pair)'
BY SameKept, PartSameKept DEF Outcome

(* and so does the message that carries it. *)
LEMMA JudgedKept ==
  ASSUME UNCHANGED o, failed \subseteq failed', NEW m, Judged(m)
  PROVE  Judged(m)'
BY OutcomeKept DEF Judged

(* A message of w that is new. *)
News(w, m) == Contains(w, m)' /\ ~Contains(w, m)

(* The manager adds no message to those it receives. *)
LEMMA ManagerNews ==
  ASSUME TalkInv, Manager, NEW v \in Workers, NEW m
  PROVE  ~News(v, m)
<1>1. CASE UNCHANGED toMgr
  BY <1>1 DEF News, Contains
<1>2. ASSUME NEW w \in Workers, toMgr[w] # <<>>, toMgr' = [toMgr EXCEPT ![w] = Tail(@)]
      PROVE  ~News(v, m)
  <2>1. toMgr \in [Workers -> Seq(Outbox)]
    BY DEF TalkInv, TypeOK
  <2>2. toMgr'[v] = IF v = w THEN Tail(toMgr[v]) ELSE toMgr[v]
    BY <1>2, <2>1
  <2>3. CASE v = w
    <3> DEFINE s == toMgr[v]
    <3>1. s \in Seq(Outbox) /\ s # <<>>
      BY <1>2, <2>1, <2>3
    <3> HIDE DEF s
    <3>2. Len(Tail(s)) = Len(s) - 1 /\ \A n \in 1..Len(s) - 1 : Tail(s)[n] = s[n + 1]
      BY <3>1
    <3>3. Len(s) \in Nat
      BY <3>1
    <3>4. (\E n \in 1..Len(Tail(s)) : m = Tail(s)[n]) => \E n \in 1..Len(s) : m = s[n]
      <4> SUFFICES ASSUME NEW n \in 1..Len(Tail(s)), m = Tail(s)[n] PROVE \E i \in 1..Len(s) : m = s[i]
        OBVIOUS
      <4>1. n + 1 \in 1..Len(s) /\ m = s[n + 1]
        BY <3>2, <3>3
      <4> QED BY <4>1
    <3>5. toMgr'[v] = Tail(s)
      BY <2>2, <2>3 DEF s
    <3> QED BY <3>4, <3>5 DEF News, Contains, s
  <2>4. CASE v # w
    BY <2>2, <2>4 DEF News, Contains
  <2> QED BY <2>3, <2>4
<1>3. CASE startwork \/ ManagerProbe \/ ManagerAssign \/ ManagerPoll \/ manager_fini
  BY <1>1, <1>3 DEF startwork, ManagerProbe, ManagerAssign, ManagerPoll, manager_fini
<1>4. CASE AckedWork
  <2>1. mgr.rank \in Workers
    BY <1>4 DEF TalkInv, ManagerInv, AckedWork
  <2> QED BY <1>2, <1>4, <2>1 DEF AckedWork
<1>5. ASSUME NEW w \in Workers, ManagerRun(w) \/ scheduler_ackwork(w) PROVE ~News(v, m)
  BY <1>2, <1>5 DEF ManagerRun, scheduler_ackwork
<1> QED BY <1>3, <1>4, <1>5 DEF Manager

(* The message a worker sends is the only new one. *)
LEMMA SentNews ==
  ASSUME TalkInv, NEW w \in Workers, NEW s \in Outbox, SendToManager(<<s>>, w), NEW m, News(w, m)
  PROVE  m = [s EXCEPT !.originator = w] /\ m.do_work = s.do_work /\ m.workdata = s.workdata
<1>1. toMgr' = [toMgr EXCEPT ![w] = Append(toMgr[w], [s EXCEPT !.originator = w])]
  BY SendAppends
<1>2. toMgr \in [Workers -> Seq(Outbox)] /\ toMgr[w] \in Seq(Outbox)
  BY DEF TalkInv, TypeOK
<1> DEFINE x == [s EXCEPT !.originator = w]
           q == toMgr[w]
<1>3. toMgr'[w] = Append(q, x)
  BY <1>1, <1>2
<1>4. s \in Messages
  BY DEF Outbox, Messages
<1>5. x.do_work = s.do_work /\ x.workdata = s.workdata
  BY <1>4, Signed
<1>6. PICK n \in 1..Len(toMgr'[w]) : m = toMgr'[w][n]
  BY DEF News, Contains
<1>7. ~\E i \in 1..Len(q) : m = q[i]
  BY DEF News, Contains
<1>8. m = x
  <2>1. q \in Seq(Outbox) /\ Len(q) \in Nat
    BY <1>2
  <2> HIDE DEF x, q
  <2>2. Len(Append(q, x)) = Len(q) + 1
    BY <2>1
  <2>3. Append(q, x)[Len(q) + 1] = x /\ \A i \in 1..Len(q) : Append(q, x)[i] = q[i]
    BY <2>1
  <2>4. n \in 1..Len(q) \/ n = Len(q) + 1
    BY <1>3, <1>6, <2>1, <2>2
  <2> QED BY <1>3, <1>6, <1>7, <2>3, <2>4
<1> QED BY <1>5, <1>8

(* Nothing but the end of a compare sends an outcome. *)
NoOutcome(w) ==
  \/ toMgr'[w] = toMgr[w]
  \/ \E s \in Outbox : SendToManager(<<s>>, w) /\ s.do_work # "cmp_workdone"

(* A request carries no outcome, *)
LEMMA RequestNoOutcome ==
  ASSUME NEW w, NEW state, NEW q \in {0, 1}, NEW offer, worker_sendrequest(w, state, q, offer)
  PROVE  NoOutcome(w)
<1>1. Request(q, 0) \in Ask /\ SendToManager(<<Request(q, 0)>>, w)
  BY RequestItem DEF worker_sendrequest
<1>2. Request(q, 0).do_work # "cmp_workdone"
  BY <1>1, Kinds
<1> QED BY <1>1, <1>2 DEF NoOutcome, Outbox

(* nor does the report of a walk item *)
LEMMA DoneNoOutcome ==
  ASSUME NEW w, NEW perf \in Perf, tw_senddone(w, perf)
  PROVE  NoOutcome(w)
<1> DEFINE s == [workitem_new(MANAGER_PROC) EXCEPT
                   !.do_work = "manager_workdone", !.manager_run = TRUE,
                   !.workdata = [type |-> "perf", perf |-> perf]]
<1>1. s \in DoneWalk /\ SendToManager(<<s>>, w)
  BY WalkDoneItem DEF tw_senddone
<1> HIDE DEF s
<1>2. s.do_work # "cmp_workdone"
  BY <1>1, Kinds
<1> QED BY <1>1, <1>2 DEF NoOutcome, Outbox, Done

(* or an announcement. *)
LEMMA AnnounceNoOutcome ==
  ASSUME NEW w, NEW f \in DOMAIN Src, SendToManager(<<cmp_sendchunkfileadd(filepair_new(f))>>, w)
  PROVE  NoOutcome(w)
<1>1. cmp_sendchunkfileadd(filepair_new(f)) \in Announce
  BY Pairs, AnnounceItem
<1>2. cmp_sendchunkfileadd(filepair_new(f)).do_work # "cmp_workdone"
  BY <1>1, Kinds
<1> QED BY <1>1, <1>2 DEF NoOutcome, Outbox

(* Only cmp_compare sends an outcome. *)
LEMMA WorkerNoOutcome ==
  ASSUME TalkInv, NEW w \in Workers,
         \/ worker_receive(w) \/ worker_quit(w) \/ StatDir(w) \/ StatFile(w) \/ cmp_sendpaths(w)
         \/ OpenDir(w) \/ ReadEntry(w) \/ CloseDir(w) \/ WalkEnd(w)
  PROVE  NoOutcome(w)
<1>1. UNCHANGED toMgr => NoOutcome(w)
  BY DEF NoOutcome
<1>2. CASE worker_receive(w) \/ worker_quit(w) \/ CloseDir(w)
  BY <1>1, <1>2 DEF worker_receive, worker_quit, CloseDir
<1>3. CASE StatDir(w)
  BY <1>1, <1>3, RequestNoOutcome DEF StatDir, tw_senddirs
<1>4. CASE StatFile(w)
  BY <1>1, <1>4, AnnounceNoOutcome DEF StatFile, cmp_process_file
<1>5. CASE cmp_sendpaths(w)
  BY <1>5, RequestNoOutcome DEF cmp_sendpaths
<1>6. wk[w].perf \in Perf
  BY LocalFields, OwnTypes
<1>7. CASE OpenDir(w)
  BY <1>1, <1>6, <1>7, DoneNoOutcome DEF OpenDir
<1>8. CASE ReadEntry(w)
  BY <1>1, <1>8, RequestNoOutcome DEF ReadEntry, tw_sendpaths
<1>9. CASE WalkEnd(w)
  BY <1>6, <1>9, RequestNoOutcome, DoneNoOutcome DEF WalkEnd, tw_senddirs, tw_sendpaths
<1> QED BY <1>2, <1>3, <1>4, <1>5, <1>7, <1>8, <1>9

(* What is handed over is work, not an outcome. *)
LEMMA AnsweredNoOutcome ==
  ASSUME TalkInv, NEW w \in Workers, worker_answered(w), NEW m, News(w, m)
  PROVE  m.do_work # "cmp_workdone"
<1>1. \E s \in Ask \cup Work : toMgr'[w] = <<s>>
  BY AnsweredTalks
<1>2. PICK s \in Ask \cup Work : toMgr'[w] = <<s>>
  BY <1>1
<1>3. m = s
  BY <1>2 DEF News, Contains
<1> QED BY <1>3, Kinds DEF Work, WalkFns

(* A worker compares only files that the walk has found comparable. *)
LEMMA ComparesPart ==
  ASSUME TalkInv, \A f \in DOMAIN Src : PartsInv(f), NEW w \in Workers, wk[w].pc = "work",
         wk[w].item \in Compare, NEW f, f = wk[w].item.workdata.src
  PROVE  f \in DOMAIN Src /\ Compared(f)
<1> DEFINE m == wk[w].item
           b == <<"pair", f>>
<1>1. m.workdata \in PairData /\ m \in Messages
  BY Kinds DEF Messages, Work
<1>2. f \in DOMAIN Src
  BY <1>1, DataTypes
<1>3. Busy(wk[w]) /\ wk[w] \in Local
  BY AtWorkWhen
<1>4. FileToken(b)
  BY FileTokens
<1>5. wk[w].item.do_work \notin WalkFns
  BY Kinds DEF WalkFns
<1>6. Held(b, wk[w]) = Weight(b, m)
  BY <1>3, <1>4, <1>5, FileHeld
<1>7. Weight(b, m) = PartWeight(b, m.workdata)
  BY <1>1, <1>4, FileWeight
<1>8. PartWeight(b, m.workdata) = 1
  BY FilePart DEF Bit
<1>9. /\ With(b, w) <= All(b) /\ All(b) \in Nat
      /\ ItemsWeight(b, toMgr[w]) \in Nat /\ ItemsWeight(b, toWrk[w]) \in Nat
  BY AllNat, WithNat
<1>10. With(b, w) = 1 + ItemsWeight(b, toMgr[w]) + ItemsWeight(b, toWrk[w])
  BY <1>6, <1>7, <1>8 DEF With
<1> HIDE DEF b
<1>11. All(b) > 0
  <2> DEFINE x == ItemsWeight(b, toMgr[w])
             y == ItemsWeight(b, toWrk[w])
             z == All(b)
             u == With(b, w)
  <2>1. x \in Nat /\ y \in Nat /\ z \in Nat /\ u = 1 + x + y /\ u <= z
    BY <1>9, <1>10
  <2> HIDE DEF x, y, z, u
  <2>2. z > 0
    BY <2>1
  <2> QED BY <2>2 DEF z
<1>12. All(b) <= PartsOf(f)
  BY <1>2 DEF PartsInv, ToPair, b
<1>13. PartsOf(f) # 0
  BY <1>9, <1>11, <1>12
<1> QED BY <1>2, <1>13 DEF PartsOf

(* The outcome of cmp_compare is right: a part found the same is the same *)
(* or could not be read, one found different is not or could not be       *)
(* opened.                                                                *)
LEMMA CompareJudged ==
  ASSUME TalkInv, \A f \in DOMAIN Src : PartsInv(f), UNCHANGED o, NEW w \in Workers,
         wk[w].pc = "work", wk[w].item \in Compare,
         NEW s, NEW pair, NEW outcome, Compares(w, s, pair, outcome)
  PROVE  Outcome(pair)'
<1>0. PICK item, f, k : item = wk[w].item.workdata /\ f = item.src /\ k = item.chunknum
  OBVIOUS
<1> DEFINE src == Src[f]
           dst == Dest[f]
           same == Len(src.bytes) = Len(dst.bytes)
<1>1. /\ pair = [item EXCEPT !.matched = outcome[2]] /\ outcome \in Outcomes(item) /\ item \in PairData
      /\ failed' = failed \cup ({<<outcome[1], pair.src>>} \ {<<"ok", pair.src>>})
  BY <1>0 DEF Compares
<1>2. pair.src = f /\ pair.chunknum = k /\ pair.matched = outcome[2]
  BY <1>0, <1>1 DEF PairData
<1>3. f \in DOMAIN Src /\ dst.lstat # "error"
  BY <1>0, ComparesPart DEF Compared
<1>4. dst.lstat \in {"ok", "absent", "error"}
  BY <1>3, PwtAssumption
<1> DEFINE q == [filepair_new(f) EXCEPT !.chunknum = k]
<1>5. q.src = f /\ q.chunknum = k
  BY DEF filepair_new
<1>6. SameContents(q) <=> SameContents(item)
  BY <1>0, <1>5 DEF SameContents, compute_transfer_offset, compute_transfer_length
<1>7. src.bytes = dst.bytes => SameContents(item)
  BY <1>0 DEF SameContents
<1>8. /\ outcome[2] \in BOOLEAN
      /\ \/ outcome[1] = "ok" /\ ~outcome[2] /\ dst.lstat = "absent"
         \/ /\ dst.lstat # "absent" /\ same /\ ~o.meta_only
            /\ \/ outcome[1] = "ok" /\ (outcome[2] <=> SameContents(item))
               \/ outcome[1] = "open" /\ ~outcome[2]
               \/ outcome[1] = "read" /\ outcome[2]
         \/ /\ dst.lstat # "absent" /\ ~(same /\ ~o.meta_only)
            /\ outcome[1] = "ok" /\ (outcome[2] <=> same /\ src.mtime = dst.mtime)
  <2>1. same <=> Len(src.bytes) = Len(dst.bytes)
    OBVIOUS
  <2> HIDE DEF same
  <2> QED BY <1>0, <1>1, <2>1, OutcomeIs
<1>9. Outcome(pair)' <=> /\ pair.matched => PartSame(f, k)'
                         /\ ~pair.matched => ~Same(f)' \/ <<"open", f>> \in failed'
  BY <1>2 DEF Outcome
<1>10. PartSame(f, k)' <=> \/ <<"read", f>> \in failed'
                           \/ /\ dst.lstat = "ok" /\ same
                              /\ o.meta_only => src.mtime = dst.mtime
                              /\ ~o.meta_only => SameContents(q)
  BY DEF PartSame
<1>11. Same(f)' <=> /\ dst.lstat = "ok"
                    /\ IF o.meta_only THEN same /\ src.mtime = dst.mtime ELSE src.bytes = dst.bytes
  BY SameKept DEF Same
<1>12. outcome[1] = "open" => <<"open", f>> \in failed'
  BY <1>1, <1>2
<1>13. outcome[1] = "read" => <<"read", f>> \in failed'
  BY <1>1, <1>2
<1>14. src.bytes = dst.bytes => same
  OBVIOUS
<1> DEFINE matched == outcome[2]
           contents == SameContents(item)
<1> HIDE DEF src, dst, same, q, contents
<1>15. CASE outcome[2]
  BY <1>2, <1>3, <1>4, <1>6, <1>8, <1>9, <1>10, <1>13, <1>15 DEF contents
<1>16. CASE ~outcome[2]
  BY <1>2, <1>3, <1>4, <1>7, <1>8, <1>9, <1>11, <1>12, <1>14, <1>16
<1> QED BY <1>15, <1>16

(* Every step keeps the outcomes right. *)
LEMMA OutcomesKept ==
  TalkInv /\ TalkInv' /\ (\A f \in DOMAIN Src : PartsInv(f)) /\ OutcomesRight /\ [Next]_vars => OutcomesRight'
<1> SUFFICES ASSUME TalkInv, TalkInv', \A f \in DOMAIN Src : PartsInv(f), OutcomesRight, [Next]_vars
             PROVE  OutcomesRight'
  OBVIOUS
<1>1. UNCHANGED o /\ failed \subseteq failed'
  BY WalkSteps DEF WalkStep
<1> SUFFICES ASSUME NEW v \in Workers, NEW m, Contains(v, m)' PROVE Judged(m)'
  BY JudgedAllNext
<1>2. Contains(v, m) => Judged(m)'
  <2>1. Contains(v, m) => Judged(m)
    BY JudgedAll
  <2> QED BY <1>1, <2>1, JudgedKept
<1>3. m.do_work # "cmp_workdone" => Judged(m)'
  BY DEF Judged
<1> SUFFICES ASSUME News(v, m) PROVE Judged(m)'
  BY <1>2 DEF News
<1>4. CASE UNCHANGED vars
  BY <1>4 DEF News, Contains, vars
<1>5. CASE Manager
  BY <1>5, ManagerNews
<1>6. ASSUME NEW w \in Workers, Worker(w) \/ worker_quit(w) PROVE Judged(m)'
  <2>1. CASE v # w
    BY <1>6, <2>1, OthersStill DEF News, Contains
  <2>2. CASE v = w /\ worker_answered(w)
    BY <1>3, <2>2, AnsweredNoOutcome
  <2>3. CASE v = w /\ cmp_compare(w)
    <3>1. PICK s, pair, outcome : Compares(w, s, pair, outcome)
      BY <2>3, CompareSends
    <3>2. wk[w].pc = "work" /\ wk[w].item \in Compare
      <4>1. wk[w].pc = "work" /\ wk[w].item.do_work = "cmp_compare"
        BY <2>3 DEF cmp_compare, Working
      <4> QED BY <4>1, AtWorkWhen, Kinds DEF Work, WalkFns
    <3>3. Outcome(pair)'
      BY <1>1, <3>1, <3>2, CompareJudged
    <3>4. s \in Outbox /\ SendToManager(<<s>>, w) /\ s \in DoneCompare
      BY <3>1 DEF Compares, Outbox, Done
    <3>5. m.workdata = s.workdata
      BY <2>3, <3>4, SentNews
    <3>6. m.workdata.files = pair
      BY <3>1, <3>5 DEF Compares
    <3> QED BY <3>3, <3>6 DEF Judged
  <2>4. CASE v = w /\ ~worker_answered(w) /\ ~cmp_compare(w)
    <3>1. NoOutcome(w)
      BY <1>6, <2>4, WorkerNoOutcome DEF Worker
    <3>2. CASE toMgr'[w] = toMgr[w]
      BY <2>4, <3>2 DEF News, Contains
    <3>3. ASSUME NEW s \in Outbox, SendToManager(<<s>>, w), s.do_work # "cmp_workdone"
          PROVE  Judged(m)'
      BY <1>3, <2>4, <3>3, SentNews
    <3> QED BY <3>1, <3>2, <3>3 DEF NoOutcome
  <2> QED BY <2>1, <2>2, <2>3, <2>4
<1> QED BY <1>4, <1>5, <1>6 DEF Next

(* What a step is for one file: nothing, its stat, the news of its chunks, *)
(* or the outcome of a part of it.                                         *)
TableSame(f) ==
  /\ f \in DOMAIN chunktab' <=> f \in DOMAIN chunktab
  /\ f \in DOMAIN chunktab => chunktab'[f] = chunktab[f]

FileStill(f) ==
  /\ ToPair(f)' = ToPair(f) /\ ToAdd(f)' = ToAdd(f)
  /\ \A k : ToPart(f, k)' = ToPart(f, k)
  /\ TableSame(f) /\ (o.app = "cmp" => printed'[f] = printed[f]) /\ statted'[f] = statted[f]

FileStat(f) ==
  /\ ToPair(f)' = ToPair(f) + PartsOf(f)
  /\ ToAdd(f)' = ToAdd(f) + Bit(Compared(f) /\ Chunked(f))
  /\ \A k : ToPart(f, k)' = ToPart(f, k) + Bit(Compared(f) /\ <<f, k>> \in Parts(f))
  /\ TableSame(f) /\ (o.app = "cmp" => printed'[f] = printed[f]) /\ statted'[f] = statted[f] + 1

FileAdded(f) ==
  /\ ToPair(f)' = ToPair(f) /\ ToAdd(f)' + 1 = ToAdd(f)
  /\ \A k : ToPart(f, k)' = ToPart(f, k)
  /\ \/ f \in DOMAIN chunktab' /\ chunktab'[f] = nproc
     \/ TableSame(f) /\ <<"heap", f>> \in failed'
  /\ printed'[f] = printed[f] /\ statted'[f] = statted[f]

FileDone(f, pair) ==
  /\ pair \in PairData /\ pair.src = f /\ Outcome(pair)
  /\ ToPair(f)' + 1 = ToPair(f) /\ ToAdd(f) = 0 /\ ToAdd(f)' = 0
  /\ \A k : ToPart(f, k)' + Bit(k = pair.chunknum) = ToPart(f, k)
  /\ IF ChunksAfter(pair) = 0 THEN f \notin DOMAIN chunktab'
     ELSE /\ f \in DOMAIN chunktab' <=> f \in DOMAIN chunktab
          /\ f \in DOMAIN chunktab => chunktab'[f] = ChunksAfter(pair)
  /\ printed'[f] = printed[f] \o Verdict(pair) /\ statted'[f] = statted[f]

FileStep(f) == FileStill(f) \/ FileStat(f) \/ FileAdded(f) \/ \E pair : FileDone(f, pair)

(* All tokens are at least those of each worker, *)
LEMMA AllCovers == TalkInv => \A t : \A w \in Workers : Held(t, wk[w]) <= All(t) /\ All(t) \in Nat
<1> SUFFICES ASSUME TalkInv, NEW t, NEW w \in Workers PROVE Held(t, wk[w]) <= All(t) /\ All(t) \in Nat
  OBVIOUS
<1> DEFINE h == Held(t, wk[w])
           x == ItemsWeight(t, toMgr[w])
           y == ItemsWeight(t, toWrk[w])
           z == All(t)
           u == With(t, w)
<1>1. h \in Nat /\ x \in Nat /\ y \in Nat /\ z \in Nat /\ u <= z
  BY WithNat, AllNat
<1>2. u = h + x + y
  BY DEF With
<1> HIDE DEF h, x, y, z, u
<1>3. h <= z /\ z \in Nat
  BY <1>1, <1>2
<1> QED BY <1>3 DEF h, z

(* in the next state too. *)
LEMMA AllCoversNext == TalkInv' => (\A t : \A w \in Workers : Held(t, wk[w]) <= All(t) /\ All(t) \in Nat)'
BY AllCovers, PTL

(* The tokens of a file are natural numbers, *)
LEMMA FileNats ==
  TalkInv => \A f : /\ ToPair(f) \in Nat /\ ToAdd(f) \in Nat /\ \A k : ToPart(f, k) \in Nat
                    /\ f \in DOMAIN Src => statted[f] \in Nat
<1> SUFFICES ASSUME TalkInv, NEW f
             PROVE  /\ ToPair(f) \in Nat /\ ToAdd(f) \in Nat /\ \A k : ToPart(f, k) \in Nat
                    /\ f \in DOMAIN Src => statted[f] \in Nat
  OBVIOUS
<1>1. ToPair(f) \in Nat /\ ToAdd(f) \in Nat /\ \A k : ToPart(f, k) \in Nat
  BY AllNats DEF ToPair, ToAdd, ToPart
<1>2. f \in DOMAIN Src => statted[f] \in Nat
  BY PwtAssumption DEF TalkInv, TypeOK
<1> QED BY <1>1, <1>2

(* in the next state too. *)
LEMMA FileNatsNext ==
  TalkInv' => (\A f : /\ ToPair(f) \in Nat /\ ToAdd(f) \in Nat /\ \A k : ToPart(f, k) \in Nat
                      /\ f \in DOMAIN Src => statted[f] \in Nat)'
BY FileNats, PTL

(* A file has at most one part for each process. *)
LEMMA PartsAtMost == \A f \in DOMAIN Src : PartsOf(f) \in Nat /\ PartsOf(f) <= nproc
BY PartsCount, NprocAbove DEF PartsOf

(* A part that the manager is told of has been handed over, and the file   *)
(* was announced before.                                                   *)
LEMMA DoneNotAdded ==
  ASSUME TalkInv, TalkInv', AddsFirst, NEW f \in DOMAIN Src, PartsInv(f), UNCHANGED wk,
         ToPair(f)' + 1 = ToPair(f)
  PROVE  ToAdd(f) = 0
<1>1. ToAdd(f) \in Nat /\ ToPair(f) \in Nat /\ ToPair(f)' \in Nat
  BY FileNats, FileNatsNext
<1> SUFFICES ASSUME ToAdd(f) > 0 PROVE FALSE
  BY <1>1
<1>2. PICK w \in Workers : ItemsWeight(<<"add", f>>, toMgr[w]) > 0
  BY AddPlace
<1>3. Held(<<"pair", f>>, wk[w]) = nproc
  BY <1>2 DEF AddsFirst
<1>4. Held(<<"pair", f>>, wk'[w]) <= All(<<"pair", f>>)'
  BY AllCoversNext
<1>5. nproc <= ToPair(f)'
  BY <1>3, <1>4 DEF ToPair
<1>6. ToPair(f) <= PartsOf(f) /\ PartsOf(f) \in Nat /\ PartsOf(f) <= nproc
  BY PartsAtMost DEF PartsInv
<1> QED BY <1>1, <1>5, <1>6, NprocAbove

(* A step that moves no token of a file and changes neither table nor *)
(* output.                                                            *)
LEMMA FileUnmoved ==
  ASSUME \A t : FileToken(t) => All(t)' = All(t), UNCHANGED chunktab, NEW f,
         o.app = "cmp" => printed'[f] = printed[f], statted'[f] = statted[f]
  PROVE  FileStill(f)
<1>1. ToPair(f)' = ToPair(f) /\ ToAdd(f)' = ToAdd(f)
  BY FileTokens DEF ToPair, ToAdd
<1>2. ASSUME NEW k PROVE ToPart(f, k)' = ToPart(f, k)
  BY FileTokens DEF ToPart
<1> QED BY <1>1, <1>2 DEF FileStill, TableSame

(* The same for every file. *)
LEMMA FilesUnmoved ==
  ASSUME \A t : All(t)' = All(t), UNCHANGED <<chunktab, printed, statted>>
  PROVE  \A f \in DOMAIN Src : FileStep(f)
BY FileUnmoved DEF FileStep

(* What the manager runs. *)
LEMMA RunKinds ==
  ASSUME TalkInv, NEW w \in Workers, ManagerRun(w), NEW m, m = Head(toMgr[w])
  PROVE  /\ m \in Messages /\ m \in Outbox /\ Contains(w, m)
         /\ \/ m \in DoneWalk /\ manager_workdone(m)
            \/ m \in DoneCompare /\ cmp_workdone(m)
            \/ m \in Announce /\ cmp_addchunkfile(m)
         /\ UNCHANGED <<o, workq, toWrk, wk, statted>>
<1>1. /\ toMgr[w] # <<>> /\ m.manager_run
      /\ \/ m.do_work = "manager_workdone" /\ manager_workdone(m)
         \/ m.do_work = "cmp_workdone" /\ cmp_workdone(m)
         \/ m.do_work = "cmp_addchunkfile" /\ cmp_addchunkfile(m)
      /\ UNCHANGED <<o, workq, toWrk, wk, statted>>
  BY DEF ManagerRun
<1>2. m \in Messages /\ m = toMgr[w][1] /\ Len(toMgr[w]) \in Nat /\ Len(toMgr[w]) > 0
  BY <1>1, Sending
<1>3. m \in Announce \cup DoneWalk \cup DoneCompare
  BY <1>1, <1>2, Kinds, ExitItem DEF Messages, Work, Done
<1>4. Contains(w, m)
  BY <1>2 DEF Contains
<1> QED BY <1>1, <1>2, <1>3, <1>4, Kinds DEF Outbox, Done

(* The report of a walk item concerns no file. *)
LEMMA DoneWalkFiles ==
  ASSUME TalkInv, TalkInv', NEW w \in Workers, ManagerRun(w), NEW m, m = Head(toMgr[w]),
         m \in DoneWalk, manager_workdone(m), NEW f \in DOMAIN Src
  PROVE  FileStep(f)
<1>1. \A t : All(t)' + Weight(t, m) = All(t) /\ Weight(t, m) \in Nat
  BY ManagerRunFlow
<1>2. m \in Messages
  BY DEF Messages, Done
<1>3. ASSUME NEW t, FileToken(t) PROVE All(t)' = All(t)
  <2>1. Weight(t, m) = 0
    BY <1>2, <1>3, FileWeight
  <2>2. All(t)' \in Nat /\ All(t) \in Nat
    BY AllNats, AllNatsNext
  <2> QED BY <1>1, <2>1, <2>2
<1>4. UNCHANGED <<chunktab, printed, statted>>
  BY DEF ManagerRun, manager_workdone
<1> QED BY <1>3, <1>4, FileUnmoved DEF FileStep

(* cmp_addchunkfile enters the file in the chunk table, or has no memory *)
(* for it.                                                               *)
LEMMA AnnounceFiles ==
  ASSUME TalkInv, TalkInv', NEW w \in Workers, ManagerRun(w), NEW m, m = Head(toMgr[w]),
         m \in Announce, cmp_addchunkfile(m), NEW f \in DOMAIN Src
  PROVE  FileStep(f)
<1> DEFINE g == m.workdata.src
<1>1. \A t : All(t)' + Weight(t, m) = All(t) /\ Weight(t, m) \in Nat
  BY ManagerRunFlow
<1>2. m \in Messages /\ m.workdata.chunknum = nproc
  BY DEF Messages, Announce
<1>3. UNCHANGED <<printed, statted>>
  BY DEF ManagerRun, cmp_addchunkfile
<1>4. \/ chunktab' = fchunktbl_insert(chunktab, g, nproc)
      \/ UNCHANGED chunktab /\ <<"heap", g>> \in failed'
  BY <1>2 DEF cmp_addchunkfile
<1>5. \A t : FileToken(t) => Weight(t, m) = Bit(t = <<"add", g>>)
  BY <1>2, FileWeight
<1> HIDE DEF g
<1>6. ToPair(f)' = ToPair(f) /\ \A k : ToPart(f, k)' = ToPart(f, k)
  <2>1. ASSUME NEW t, FileToken(t), t # <<"add", g>> PROVE All(t)' = All(t)
    <3>1. Weight(t, m) = 0
      BY <1>5, <2>1 DEF Bit
    <3>2. All(t)' \in Nat /\ All(t) \in Nat
      BY AllNats, AllNatsNext
    <3> QED BY <1>1, <3>1, <3>2
  <2> QED BY <2>1, FileTokens DEF ToPair, ToPart
<1>7. ToAdd(f)' + Bit(f = g) = ToAdd(f)
  <2>1. Weight(<<"add", f>>, m) = Bit(<<"add", f>> = <<"add", g>>)
    BY <1>5, FileTokens
  <2>2. Weight(<<"add", f>>, m) = Bit(f = g)
    BY <2>1
  <2> QED BY <1>1, <2>2 DEF ToAdd
<1>8. CASE f = g
  <2>1. ToAdd(f)' + 1 = ToAdd(f)
    BY <1>7, <1>8 DEF Bit
  <2>2. \/ f \in DOMAIN chunktab' /\ chunktab'[f] = nproc
        \/ TableSame(f) /\ <<"heap", f>> \in failed'
    BY <1>4, <1>8 DEF fchunktbl_insert, TableSame
  <2> QED BY <1>3, <1>6, <2>1, <2>2 DEF FileStep, FileAdded
<1>9. CASE f # g
  <2>1. ToAdd(f)' = ToAdd(f)
    <3>1. ToAdd(f)' + 0 = ToAdd(f)
      BY <1>7, <1>9 DEF Bit
    <3> QED BY <3>1, FileNats, FileNatsNext
  <2>2. TableSame(f)
    BY <1>4, <1>9 DEF fchunktbl_insert, TableSame
  <2> QED BY <1>3, <1>6, <2>1, <2>2 DEF FileStep, FileStill
<1> QED BY <1>8, <1>9

(* cmp_workdone counts the outcome of one part. *)
LEMMA OutcomeFiles ==
  ASSUME TalkInv, TalkInv', AddsFirst, OutcomesRight, NEW w \in Workers, ManagerRun(w),
         NEW m, m = Head(toMgr[w]), m \in DoneCompare, cmp_workdone(m),
         NEW f \in DOMAIN Src, PartsInv(f)
  PROVE  FileStep(f)
<1>1. \A t : All(t)' + Weight(t, m) = All(t) /\ Weight(t, m) \in Nat
  BY ManagerRunFlow
<1>2. m \in Messages /\ m.workdata \in StatData /\ m.do_work = "cmp_workdone"
  BY Kinds DEF Messages, Done, DoneCompare
<1>3. PICK pair : pair = m.workdata.files
  OBVIOUS
<1>4. pair \in PairData /\ pair.src \in DOMAIN Src
  BY <1>2, <1>3, DataTypes
<1>5. /\ UNCHANGED <<wk, statted>>
      /\ printed' = [printed EXCEPT ![pair.src] = @ \o Verdict(pair)]
      /\ chunktab' = IF ChunksAfter(pair) = 0
                       THEN fchunktbl_remove(chunktab, pair.src)
                       ELSE fchunktbl_update(chunktab, pair.src, ChunksAfter(pair))
  BY <1>3 DEF ManagerRun, cmp_workdone
<1>6. \A t : FileToken(t) => Weight(t, m) = PartWeight(t, pair)
  BY <1>2, <1>3, FileWeight
<1>7. Outcome(pair)
  <2>1. Contains(w, m)
    BY RunKinds
  <2> QED BY <1>2, <1>3, <2>1, JudgedAll DEF Judged
<1>8. ToPair(f)' + Bit(f = pair.src) = ToPair(f)
  <2>1. Weight(<<"pair", f>>, m) = Bit(f = pair.src)
    <3>1. Weight(<<"pair", f>>, m) = PartWeight(<<"pair", f>>, pair)
      BY <1>6, FileTokens
    <3> QED BY <3>1, FilePart
  <2> QED BY <1>1, <2>1 DEF ToPair
<1>9. ToAdd(f)' = ToAdd(f)
  <2>1. Weight(<<"add", f>>, m) = 0
    <3>1. Weight(<<"add", f>>, m) = PartWeight(<<"add", f>>, pair)
      BY <1>6, FileTokens
    <3> QED BY <3>1, FilePart
  <2>2. ToAdd(f)' + 0 = ToAdd(f)
    BY <1>1, <2>1 DEF ToAdd
  <2> QED BY <2>2, FileNats, FileNatsNext
<1>10. ASSUME NEW k PROVE ToPart(f, k)' + Bit(f = pair.src /\ k = pair.chunknum) = ToPart(f, k)
  <2>1. Weight(<<"part", f, k>>, m) = Bit(f = pair.src /\ k = pair.chunknum)
    <3>1. Weight(<<"part", f, k>>, m) = PartWeight(<<"part", f, k>>, pair)
      BY <1>6, FileTokens
    <3> QED BY <3>1, FilePart
  <2> QED BY <1>1, <2>1 DEF ToPart
<1>11. printed \in [Path -> Seq({"path", "MATCHES", "differs"})] /\ f \in Path
  BY PwtAssumption DEF TalkInv, TypeOK
<1>12. CASE f = pair.src
  <2>1. ToPair(f)' + 1 = ToPair(f)
    BY <1>8, <1>12 DEF Bit
  <2>2. ASSUME NEW k PROVE ToPart(f, k)' + Bit(k = pair.chunknum) = ToPart(f, k)
    BY <1>10, <1>12
  <2>3. ToAdd(f) = 0
    BY <1>5, <2>1, DoneNotAdded
  <2>4. printed'[f] = printed[f] \o Verdict(pair)
    BY <1>5, <1>11, <1>12
  <2>5. IF ChunksAfter(pair) = 0 THEN f \notin DOMAIN chunktab'
        ELSE /\ f \in DOMAIN chunktab' <=> f \in DOMAIN chunktab
             /\ f \in DOMAIN chunktab => chunktab'[f] = ChunksAfter(pair)
    <3> DEFINE c == ChunksAfter(pair)
    <3>1. chunktab' = IF c = 0 THEN fchunktbl_remove(chunktab, f) ELSE fchunktbl_update(chunktab, f, c)
      BY <1>5, <1>12
    <3> HIDE DEF c
    <3>2. IF c = 0 THEN f \notin DOMAIN chunktab'
          ELSE /\ f \in DOMAIN chunktab' <=> f \in DOMAIN chunktab
               /\ f \in DOMAIN chunktab => chunktab'[f] = c
      BY <3>1 DEF fchunktbl_remove, fchunktbl_update, Restrict
    <3> QED BY <3>2 DEF c
  <2>6. FileDone(f, pair)
    BY <1>4, <1>5, <1>7, <1>9, <1>12, <2>1, <2>2, <2>3, <2>4, <2>5 DEF FileDone
  <2> QED BY <2>6 DEF FileStep
<1>13. CASE f # pair.src
  <2>1. ToPair(f)' = ToPair(f)
    <3>1. ToPair(f)' + 0 = ToPair(f)
      BY <1>8, <1>13 DEF Bit
    <3> QED BY <3>1, FileNats, FileNatsNext
  <2>2. ASSUME NEW k PROVE ToPart(f, k)' = ToPart(f, k)
    <3>1. ToPart(f, k)' + 0 = ToPart(f, k)
      BY <1>10, <1>13 DEF Bit
    <3> QED BY <3>1, FileNats, FileNatsNext
  <2>3. TableSame(f)
    <3> DEFINE c == ChunksAfter(pair)
    <3>1. chunktab' = IF c = 0 THEN fchunktbl_remove(chunktab, pair.src)
                      ELSE fchunktbl_update(chunktab, pair.src, c)
      BY <1>5
    <3> HIDE DEF c
    <3> QED BY <1>13, <3>1 DEF fchunktbl_remove, fchunktbl_update, Restrict, TableSame
  <2>4. printed'[f] = printed[f] /\ statted'[f] = statted[f]
    BY <1>5, <1>11, <1>13
  <2> QED BY <1>9, <2>1, <2>2, <2>3, <2>4 DEF FileStep, FileStill
<1> QED BY <1>12, <1>13

(* The stat of a file, for that file and for the others. *)
LEMMA StatFileFiles ==
  ASSUME TalkInv, TalkInv', NEW w \in Workers, StatFile(w), NEW f \in DOMAIN Src
  PROVE  FileStep(f)
<1>1. PICK p \in DOMAIN Src :
        /\ statted' = [statted EXCEPT ![p] = @ + 1]
        /\ o.app = "cmp" => UNCHANGED printed
        /\ \A t : All(t)' + PathWeight(t, "treewalk_statpath", p) = All(t) + NewHeld(t, p) + NewSent(t, p)
  BY StatFileFlow
<1>2. UNCHANGED chunktab /\ statted \in [Path -> Nat] /\ f \in Path
  BY PwtAssumption DEF StatFile, manager, TalkInv, TypeOK
<1>3. ASSUME NEW t, FileToken(t) PROVE All(t)' + 0 = All(t) + NewHeld(t, p) + NewSent(t, p)
  <2>1. PathWeight(t, "treewalk_statpath", p) = 0
    BY <1>3, FileTokens, PathOfCompare
  <2> QED BY <1>1, <2>1
<1>4. ToPair(f)' + 0 = ToPair(f) + (IF f = p THEN PartsOf(p) ELSE 0) + 0
  <2>1. NewHeld(<<"pair", f>>, p) = (IF f = p THEN PartsOf(p) ELSE 0) /\ NewSent(<<"pair", f>>, p) = 0
    BY NewPieces
  <2>2. All(<<"pair", f>>)' + 0 = All(<<"pair", f>>) + NewHeld(<<"pair", f>>, p) + NewSent(<<"pair", f>>, p)
    BY <1>3, FileTokens
  <2> QED BY <2>1, <2>2 DEF ToPair
<1>5. ToAdd(f)' + 0 = ToAdd(f) + 0 + Bit(Compared(p) /\ Chunked(p) /\ f = p)
  <2>1. NewHeld(<<"add", f>>, p) = 0 /\ NewSent(<<"add", f>>, p) = Bit(Compared(p) /\ Chunked(p) /\ f = p)
    BY NewPieces
  <2>2. All(<<"add", f>>)' + 0 = All(<<"add", f>>) + NewHeld(<<"add", f>>, p) + NewSent(<<"add", f>>, p)
    BY <1>3, FileTokens
  <2> QED BY <2>1, <2>2 DEF ToAdd
<1>6. ASSUME NEW k PROVE ToPart(f, k)' + 0 = ToPart(f, k) + Bit(f = p /\ Compared(p) /\ <<p, k>> \in Parts(p)) + 0
  <2>1. /\ NewHeld(<<"part", f, k>>, p) = Bit(f = p /\ Compared(p) /\ <<p, k>> \in Parts(p))
        /\ NewSent(<<"part", f, k>>, p) = 0
    <3>1. /\ \A j : NewHeld(<<"part", f, j>>, p) = Bit(f = p /\ Compared(p) /\ <<p, j>> \in Parts(p))
          /\ \A j : NewSent(<<"part", f, j>>, p) = 0
      BY NewPieces
    <3> QED BY <3>1, Zenon
  <2>2. All(<<"part", f, k>>)' + 0 = All(<<"part", f, k>>) + NewHeld(<<"part", f, k>>, p) + NewSent(<<"part", f, k>>, p)
    BY <1>3, FileTokens
  <2> QED BY <2>1, <2>2 DEF ToPart
<1>7. TableSame(f) /\ (o.app = "cmp" => printed'[f] = printed[f])
  BY <1>1, <1>2 DEF TableSame
<1>8. CASE f = p
  <2>1. statted'[f] = statted[f] + 1
    BY <1>1, <1>2, <1>8
  <2>2. ToPair(f)' = ToPair(f) + PartsOf(f)
    <3>1. ToPair(f)' + 0 = ToPair(f) + PartsOf(f) + 0
      BY <1>4, <1>8
    <3> QED BY <3>1, FileNats, FileNatsNext, PartsAtMost
  <2>3. ToAdd(f)' = ToAdd(f) + Bit(Compared(f) /\ Chunked(f))
    <3> DEFINE b == Bit(Compared(f) /\ Chunked(f))
    <3>1. Bit(Compared(p) /\ Chunked(p) /\ f = p) = b /\ b \in Nat
      BY <1>8 DEF Bit
    <3> HIDE DEF b
    <3>2. ToAdd(f)' + 0 = ToAdd(f) + 0 + b
      BY <1>5, <3>1
    <3>3. ToAdd(f)' = ToAdd(f) + b
      BY <3>1, <3>2, FileNats, FileNatsNext
    <3> QED BY <3>3 DEF b
  <2>4. ASSUME NEW k PROVE ToPart(f, k)' = ToPart(f, k) + Bit(Compared(f) /\ <<f, k>> \in Parts(f))
    <3> DEFINE b == Bit(Compared(f) /\ <<f, k>> \in Parts(f))
    <3>1. Bit(f = p /\ Compared(p) /\ <<p, k>> \in Parts(p)) = b /\ b \in Nat
      BY <1>8 DEF Bit
    <3> HIDE DEF b
    <3>2. ToPart(f, k)' + 0 = ToPart(f, k) + b + 0
      BY <1>6, <3>1
    <3>3. ToPart(f, k)' = ToPart(f, k) + b
      BY <3>1, <3>2, FileNats, FileNatsNext
    <3> QED BY <3>3 DEF b
  <2> QED BY <1>7, <2>1, <2>2, <2>3, <2>4 DEF FileStep, FileStat
<1>9. CASE f # p
  <2>1. statted'[f] = statted[f]
    BY <1>1, <1>2, <1>9
  <2>2. ToPair(f)' = ToPair(f)
    <3>1. ToPair(f)' + 0 = ToPair(f) + 0 + 0
      BY <1>4, <1>9
    <3> QED BY <3>1, FileNats, FileNatsNext
  <2>3. ToAdd(f)' = ToAdd(f)
    <3>1. ToAdd(f)' + 0 = ToAdd(f) + 0 + 0
      BY <1>5, <1>9, BitFalse
    <3> QED BY <3>1, FileNats, FileNatsNext
  <2>4. ASSUME NEW k PROVE ToPart(f, k)' = ToPart(f, k)
    <3>0. Bit(f = p /\ Compared(p) /\ <<p, k>> \in Parts(p)) = 0
      BY <1>9 DEF Bit
    <3>1. ToPart(f, k)' + 0 = ToPart(f, k) + 0 + 0
      BY <1>6, <3>0
    <3> QED BY <3>1, FileNats, FileNatsNext
  <2> QED BY <1>7, <2>1, <2>2, <2>3, <2>4 DEF FileStep, FileStill
<1> QED BY <1>8, <1>9

(* The stat of a directory concerns no file, *)
LEMMA StatDirFiles ==
  ASSUME TalkInv, TalkInv', NEW w \in Workers, StatDir(w), NEW f \in DOMAIN Src
  PROVE  FileStep(f)
<1>1. PICK p \in DOMAIN Entries :
        /\ statted' = [statted EXCEPT ![p] = @ + 1]
        /\ \A t : All(t)' + PathWeight(t, "treewalk_statpath", p) = All(t) + PathWeight(t, "treewalk_readdir", p)
  BY StatDirFlow
<1>2. UNCHANGED <<chunktab, printed>> /\ statted \in [Path -> Nat] /\ f \in Path /\ f # p
  BY PwtAssumption DEF StatDir, manager, TalkInv, TypeOK
<1>3. statted'[f] = statted[f]
  BY <1>1, <1>2
<1>4. ASSUME NEW t, FileToken(t) PROVE All(t)' = All(t)
  <2>1. PathWeight(t, "treewalk_statpath", p) = 0 /\ PathWeight(t, "treewalk_readdir", p) = 0
    BY <1>4, FileTokens, PathOfCompare
  <2>2. All(t)' + 0 = All(t) + 0
    BY <1>1, <2>1
  <2> QED BY <2>2, AllNats, AllNatsNext
<1> QED BY <1>2, <1>3, <1>4, FileUnmoved DEF FileStep

(* nor does its opendir, *)
LEMMA OpenDirFiles ==
  ASSUME TalkInv, TalkInv', NEW w \in Workers, OpenDir(w), NEW f \in DOMAIN Src
  PROVE  FileStep(f)
<1>1. PICK d \in DOMAIN Entries :
        \/ \A t : All(t)' + PathWeight(t, "treewalk_readdir", d)
                   = All(t) + PathsWeight(t, "treewalk_statpath", Entries[d]) + Bit(t = <<"dirs">>)
        \/ \A t : Comparison(t) => All(t)' = All(t)
  BY OpenDirFlow
<1>2. UNCHANGED <<chunktab, printed, statted>>
  BY DEF OpenDir, manager
<1>3. ASSUME NEW t, FileToken(t) PROVE All(t)' = All(t)
  <2>1. Comparison(t) /\ t # <<"dirs">>
    BY <1>3, FileTokens
  <2>2. Entries[d] \in Seq(Path)
    BY StartedRoots
  <2>3. /\ PathWeight(t, "treewalk_readdir", d) = 0
        /\ PathsWeight(t, "treewalk_statpath", Entries[d]) = 0
        /\ Bit(t = <<"dirs">>) = 0
    BY <2>1, <2>2, PathOfCompare, PathsOfCompare DEF Bit
  <2>4. All(t)' + 0 = All(t) + 0 + 0 \/ All(t)' = All(t)
    BY <1>1, <2>1, <2>3
  <2> QED BY <2>4, AllNats, AllNatsNext
<1> QED BY <1>2, <1>3, FileUnmoved DEF FileStep

(* nor the start. *)
LEMMA StartFiles ==
  ASSUME TalkInv, TalkInv', startwork, NEW f \in DOMAIN Src
  PROVE  FileStep(f)
<1>1. \A t : All(t) = 0 /\ All(t)' = PathsWeight(t, "treewalk_statpath", o.roots)
  BY StartFlow
<1>2. o.roots \in Seq(Path)
  BY StartedRoots
<1>3. ASSUME NEW t, FileToken(t) PROVE All(t)' = All(t)
  <2>1. Comparison(t)
    BY <1>3, FileTokens
  <2>2. PathsWeight(t, "treewalk_statpath", o.roots) = 0
    BY <1>2, <2>1, PathsOfCompare
  <2> QED BY <1>1, <2>2
<1>4. UNCHANGED <<chunktab, printed, statted>>
  BY DEF startwork
<1> QED BY <1>3, <1>4, FileUnmoved DEF FileStep

(* Every step is one of these for every file. *)
LEMMA FileSteps ==
  ASSUME TalkInv, TalkInv', AddsFirst, OutcomesRight, [Next]_vars, NEW f \in DOMAIN Src, PartsInv(f)
  PROVE  FileStep(f)
<1>1. CASE startwork
  BY <1>1, StartFiles
<1>2. CASE ManagerProbe \/ ManagerPoll
  <2>1. UNCHANGED <<o, workq, toMgr, toWrk, wk>> /\ UNCHANGED <<chunktab, printed, statted>>
    BY <1>2 DEF ManagerProbe, ManagerPoll
  <2> QED BY <2>1, StillFlow, FilesUnmoved
<1>3. CASE ManagerAssign
  <2>1. UNCHANGED <<chunktab, printed, statted>>
    BY <1>3 DEF ManagerAssign
  <2> QED BY <1>3, <2>1, ManagerAssignFlow, FilesUnmoved
<1>4. CASE AckedWork
  <2>1. UNCHANGED <<chunktab, printed, statted>>
    BY <1>4 DEF AckedWork
  <2> QED BY <1>4, <2>1, AckedWorkFlow, FilesUnmoved
<1>5. CASE manager_fini
  <2>1. UNCHANGED <<chunktab, printed, statted>>
    BY <1>5 DEF manager_fini
  <2> QED BY <1>5, <2>1, FiniFlow, FilesUnmoved
<1>6. ASSUME NEW w \in Workers, ManagerRun(w) PROVE FileStep(f)
  <2>1. PICK m : m = Head(toMgr[w])
    OBVIOUS
  <2>2. \/ m \in DoneWalk /\ manager_workdone(m)
        \/ m \in DoneCompare /\ cmp_workdone(m)
        \/ m \in Announce /\ cmp_addchunkfile(m)
    BY <1>6, <2>1, RunKinds
  <2> QED BY <1>6, <2>1, <2>2, DoneWalkFiles, AnnounceFiles, OutcomeFiles
<1>7. ASSUME NEW w \in Workers, scheduler_ackwork(w) PROVE FileStep(f)
  <2>1. UNCHANGED <<chunktab, printed, statted>>
    BY <1>7 DEF scheduler_ackwork
  <2> QED BY <1>7, <2>1, AckworkFlow, FilesUnmoved
<1>8. ASSUME NEW w \in Workers, worker_receive(w) \/ worker_answered(w) \/ cmp_sendpaths(w) \/ ReadEntry(w)
                                \/ CloseDir(w) \/ WalkEnd(w)
      PROVE  FileStep(f)
  <2>1. UNCHANGED <<chunktab, printed, statted>>
    BY <1>8 DEF worker_receive, worker_answered, cmp_sendpaths, ReadEntry, CloseDir, WalkEnd, OnlyWorker, manager
  <2>2. \A t : All(t)' = All(t)
    BY <1>8, ReceiveFlow, AnsweredFlow, SendPathsFlow, ReadEntryFlow, CloseDirFlow, WalkEndFlow
  <2> QED BY <2>1, <2>2, FilesUnmoved
<1>9. ASSUME NEW w \in Workers, worker_quit(w) \/ cmp_compare(w) PROVE FileStep(f)
  <2>1. UNCHANGED <<chunktab, printed, statted>>
    BY <1>9 DEF worker_quit, cmp_compare, manager
  <2>2. \A t : All(t)' = All(t)
    BY <1>9, QuitFlow, CompareFlow
  <2> QED BY <2>1, <2>2, FilesUnmoved
<1>10. ASSUME NEW w \in Workers, StatDir(w) \/ StatFile(w) \/ OpenDir(w) PROVE FileStep(f)
  BY <1>10, StatDirFiles, StatFileFiles, OpenDirFiles
<1>11. CASE UNCHANGED vars
  <2>1. UNCHANGED <<o, workq, toMgr, toWrk, wk>> /\ UNCHANGED <<chunktab, printed, statted>>
    BY <1>11 DEF vars, manager
  <2> QED BY <2>1, StillFlow, FilesUnmoved
<1> QED BY <1>1, <1>2, <1>3, <1>4, <1>5, <1>6, <1>7, <1>8, <1>9, <1>10, <1>11 DEF Next, Manager, Worker

(* What is compared, and in what parts, depends on the job alone. *)
LEMMA JobKept ==
  UNCHANGED o =>
    \A f : /\ (Compared(f)' <=> Compared(f)) /\ (Chunked(f)' <=> Chunked(f))
           /\ Parts(f)' = Parts(f) /\ PartsOf(f)' = PartsOf(f)
BY PartsKept DEF Compared, Chunked, PartsOf

(* PartsInv of the next state. *)
LEMMA PartsInvNext ==
  ASSUME UNCHANGED o, NEW f
  PROVE  PartsInv(f)' <=>
           /\ statted'[f] = 0 => ToPair(f)' = 0 /\ ToAdd(f)' = 0
           /\ ToPair(f)' <= PartsOf(f)
           /\ \A k \in -1..nproc : ToPart(f, k)' <= Bit(Compared(f) /\ <<f, k>> \in Parts(f))
           /\ ToAdd(f)' <= Bit(Compared(f) /\ Chunked(f))
<1>1. /\ (Compared(f)' <=> Compared(f)) /\ (Chunked(f)' <=> Chunked(f))
      /\ Parts(f)' = Parts(f) /\ PartsOf(f)' = PartsOf(f)
  BY JobKept
<1>2. (nproc)' = nproc
  OBVIOUS
<1> QED BY <1>1, <1>2 DEF PartsInv, Bit

(* TableInv of the next state. *)
LEMMA TableInvNext ==
  ASSUME UNCHANGED o, NEW f
  PROVE  TableInv(f)' <=>
           /\ f \in DOMAIN chunktab' =>
                chunktab'[f] > 0 /\ ToPair(f)' = chunktab'[f] /\ ToAdd(f)' = 0 /\ Chunked(f)
           /\ ToAdd(f)' > 0 => ToPair(f)' = nproc
BY JobKept DEF TableInv

(* A file is stat-ed once: nothing of it is there before. *)
LEMMA StatFirst ==
  ASSUME TalkInv, TalkInv', OnceInv', NEW f \in DOMAIN Src, PartsInv(f), FileStat(f)
  PROVE  /\ statted[f] = 0 /\ statted'[f] = 1
         /\ ToPair(f) = 0 /\ ToAdd(f) = 0 /\ \A k : ToPart(f, k) = 0
<1>1. f \in Path /\ statted[f] \in Nat /\ statted'[f] = statted[f] + 1
  BY PwtAssumption, FileNats DEF FileStat
<1>2. statted'[f] <= 1
  BY <1>1 DEF OnceInv
<1>3. statted[f] = 0
  BY <1>1, <1>2
<1>4. ToPair(f) = 0 /\ ToAdd(f) = 0
  BY <1>3 DEF PartsInv
<1>5. ASSUME NEW k PROVE ToPart(f, k) = 0
  <2>1. ToPart(f, k) <= ToPair(f) /\ ToPart(f, k) \in Nat
    BY PartOfPair, FileNats
  <2> QED BY <1>4, <2>1
<1> QED BY <1>1, <1>3, <1>4, <1>5

(* Every such step keeps the parts of a file right. *)
LEMMA PartsStep ==
  ASSUME TalkInv, TalkInv', OnceInv', UNCHANGED o, NEW f \in DOMAIN Src, PartsInv(f), FileStep(f)
  PROVE  PartsInv(f)'
<1> DEFINE b(k) == Bit(Compared(f) /\ <<f, k>> \in Parts(f))
           c == Bit(Compared(f) /\ Chunked(f))
           n == PartsOf(f)
<1>1. /\ statted[f] = 0 => ToPair(f) = 0 /\ ToAdd(f) = 0
      /\ ToPair(f) <= n /\ ToAdd(f) <= c
      /\ \A k \in -1..nproc : ToPart(f, k) <= b(k)
  BY DEF PartsInv
<1>2. /\ ToPair(f) \in Nat /\ ToAdd(f) \in Nat /\ statted[f] \in Nat
      /\ ToPair(f)' \in Nat /\ ToAdd(f)' \in Nat /\ statted'[f] \in Nat /\ n \in Nat /\ c \in Nat
  BY FileNats, FileNatsNext, PartsAtMost DEF Bit
<1>3. \A k : ToPart(f, k) \in Nat /\ ToPart(f, k)' \in Nat /\ b(k) \in Nat
  BY FileNats, FileNatsNext DEF Bit
<1> HIDE DEF b, c, n
<1> SUFFICES /\ statted'[f] = 0 => ToPair(f)' = 0 /\ ToAdd(f)' = 0
             /\ ToPair(f)' <= n /\ ToAdd(f)' <= c
             /\ \A k \in -1..nproc : ToPart(f, k)' <= b(k)
  BY PartsInvNext DEF b, c, n
<1>4. CASE FileStill(f)
  BY <1>1, <1>4 DEF FileStill
<1>5. CASE FileStat(f)
  <2>1. /\ statted'[f] = 1 /\ ToPair(f) = 0 /\ ToAdd(f) = 0 /\ \A k : ToPart(f, k) = 0
    BY <1>5, StatFirst
  <2>2. /\ ToPair(f)' = ToPair(f) + n /\ ToAdd(f)' = ToAdd(f) + c
        /\ \A k : ToPart(f, k)' = ToPart(f, k) + b(k)
    BY <1>5 DEF FileStat, b, c, n
  <2> QED BY <1>2, <1>3, <2>1, <2>2
<1>6. CASE FileAdded(f)
  <2>1. /\ ToPair(f)' = ToPair(f) /\ ToAdd(f)' + 1 = ToAdd(f) /\ statted'[f] = statted[f]
        /\ \A k : ToPart(f, k)' = ToPart(f, k)
    BY <1>6 DEF FileAdded
  <2> QED BY <1>1, <1>2, <2>1
<1>7. ASSUME NEW pair, FileDone(f, pair)
      PROVE  /\ statted'[f] = 0 => ToPair(f)' = 0 /\ ToAdd(f)' = 0
             /\ ToPair(f)' <= n /\ ToAdd(f)' <= c
             /\ \A k \in -1..nproc : ToPart(f, k)' <= b(k)
  <2>1. /\ ToPair(f)' + 1 = ToPair(f) /\ ToAdd(f)' = 0 /\ statted'[f] = statted[f]
        /\ \A k : ToPart(f, k)' + Bit(k = pair.chunknum) = ToPart(f, k)
    BY <1>7 DEF FileDone
  <2>2. \A k : Bit(k = pair.chunknum) \in Nat
    BY DEF Bit
  <2>3. ASSUME NEW k \in -1..nproc PROVE ToPart(f, k)' <= b(k)
    <3> DEFINE x == ToPart(f, k)'
               y == Bit(k = pair.chunknum)
               z == ToPart(f, k)
               u == b(k)
    <3>1. x \in Nat /\ y \in Nat /\ z \in Nat /\ u \in Nat /\ x + y = z /\ z <= u
      BY <1>1, <1>3, <2>1, <2>2
    <3> HIDE DEF x, y, z, u
    <3>2. x <= u
      BY <3>1
    <3> QED BY <3>2 DEF x, u
  <2> QED BY <1>1, <1>2, <2>1, <2>3
<1> QED BY <1>4, <1>5, <1>6, <1>7 DEF FileStep

(* The part whose outcome the manager gets. *)
LEMMA DonePart ==
  ASSUME TalkInv, TalkInv', NEW f \in DOMAIN Src, PartsInv(f), NEW pair, FileDone(f, pair)
  PROVE  /\ Compared(f) /\ Dest[f].lstat # "error"
         /\ ToPart(f, pair.chunknum) > 0 /\ pair.chunknum \in Int
         /\ <<f, pair.chunknum>> \in Parts(f) /\ (Chunked(f) <=> pair.chunknum >= 0)
         /\ ToPair(f) > 0 /\ statted[f] > 0 /\ statted'[f] > 0 /\ pair.matched \in BOOLEAN
<1> DEFINE k == pair.chunknum
<1>1. pair \in PairData /\ ToPart(f, k)' + Bit(k = k) = ToPart(f, k) /\ statted'[f] = statted[f]
  BY DEF FileDone
<1>2. k \in -1..nproc /\ k \in Int /\ pair.matched \in BOOLEAN
  BY <1>1, DataTypes, NprocAbove
<1>3. ToPart(f, k)' \in Nat /\ ToPart(f, k) \in Nat /\ ToPair(f) \in Nat /\ statted[f] \in Nat
  BY FileNats, FileNatsNext
<1>4. Bit(k = k) = 1
  BY DEF Bit
<1>5. ToPart(f, k) > 0
  BY <1>1, <1>3, <1>4
<1>6. ToPart(f, k) <= Bit(Compared(f) /\ <<f, k>> \in Parts(f))
  BY <1>2 DEF PartsInv
<1>7. Compared(f) /\ <<f, k>> \in Parts(f)
  <2> SUFFICES ASSUME ~(Compared(f) /\ <<f, k>> \in Parts(f)) PROVE FALSE
    OBVIOUS
  <2>1. Bit(Compared(f) /\ <<f, k>> \in Parts(f)) = 0
    BY DEF Bit
  <2> HIDE DEF k
  <2> QED BY <1>3, <1>5, <1>6, <2>1
<1>8. Dest[f].lstat # "error" /\ (Chunked(f) <=> k >= 0)
  BY <1>2, <1>7 DEF Compared, Parts
<1>9. ToPair(f) > 0
  BY <1>3, <1>5, PartOfPair
<1>10. statted[f] > 0
  BY <1>3, <1>9 DEF PartsInv
<1> QED BY <1>1, <1>2, <1>5, <1>7, <1>8, <1>9, <1>10

(* What becomes of the entry of f. *)
LEMMA DoneTable ==
  ASSUME TalkInv, TalkInv', NEW f \in DOMAIN Src, PartsInv(f), TableInv(f), NEW pair, FileDone(f, pair)
  PROVE  /\ ~Chunked(f) => f \notin DOMAIN chunktab /\ f \notin DOMAIN chunktab'
         /\ f \notin DOMAIN chunktab => f \notin DOMAIN chunktab'
         /\ f \in DOMAIN chunktab => /\ Chunked(f)
                                     /\ f \in DOMAIN chunktab' <=> pair.matched /\ ToPair(f)' > 0
                                     /\ f \in DOMAIN chunktab' => chunktab'[f] = ToPair(f)'
         /\ ToPair(f)' \in Nat
         /\ Verdict(pair) = IF Chunked(f) /\ f \notin DOMAIN chunktab THEN <<>>
                            ELSE IF ~pair.matched THEN <<"differs">>
                            ELSE IF o.verbose /\ f \notin DOMAIN chunktab' THEN <<"MATCHES">> ELSE <<>>
<1> DEFINE c == ChunksAfter(pair)
           k == pair.chunknum
           T == f \in DOMAIN chunktab
           U == f \in DOMAIN chunktab'
<1>1. pair.src = f /\ ToPair(f)' + 1 = ToPair(f)
  BY DEF FileDone
<1>2. IF c = 0 THEN ~U ELSE (U <=> T) /\ (T => chunktab'[f] = c)
  BY DEF FileDone
<1>3. fchunktbl_get(chunktab, f) = IF T THEN chunktab[f] ELSE -1
  BY DEF fchunktbl_get
<1>4. ToPair(f) \in Nat /\ ToPair(f)' \in Nat
  BY FileNats, FileNatsNext
<1>5. T => chunktab[f] = ToPair(f) /\ ToPair(f) > 0 /\ Chunked(f)
  BY DEF TableInv
<1>6. (Chunked(f) <=> k >= 0) /\ k \in Int /\ pair.matched \in BOOLEAN
  BY DonePart
<1>7. c = IF k < 0 THEN 0
          ELSE IF ~pair.matched THEN IF fchunktbl_get(chunktab, f) >= 0 THEN 0 ELSE -1
          ELSE IF fchunktbl_get(chunktab, f) > 0 THEN fchunktbl_get(chunktab, f) - 1 ELSE fchunktbl_get(chunktab, f)
  BY <1>1 DEF ChunksAfter
<1>8. Verdict(pair) = IF ~pair.matched
                        THEN IF k >= 0 /\ fchunktbl_get(chunktab, f) < 0 THEN <<>> ELSE <<"differs">>
                        ELSE IF o.verbose /\ c = 0 THEN <<"MATCHES">> ELSE <<>>
  BY <1>1 DEF Verdict
<1> HIDE DEF c, k, T, U
<1>9. CASE ~Chunked(f)
  <2>1. k < 0 /\ ~(k >= 0) /\ ~T
    BY <1>5, <1>6, <1>9
  <2>2. c = 0 /\ ~U
    BY <1>2, <1>7, <2>1
  <2> QED BY <1>4, <1>6, <1>8, <1>9, <2>1, <2>2 DEF T, U
<1>10. CASE Chunked(f) /\ ~T
  <2>1. k >= 0 /\ ~(k < 0) /\ fchunktbl_get(chunktab, f) = -1
    BY <1>3, <1>6, <1>10
  <2>2. c = -1
    BY <1>6, <1>7, <2>1
  <2>3. ~U /\ Verdict(pair) = <<>>
    BY <1>2, <1>6, <1>8, <1>10, <2>1, <2>2
  <2> QED BY <1>4, <1>10, <2>3 DEF T, U
<1>11. CASE T
  <2>1. k >= 0 /\ ~(k < 0) /\ fchunktbl_get(chunktab, f) = ToPair(f) /\ ToPair(f) > 0 /\ Chunked(f)
    BY <1>3, <1>5, <1>6, <1>11
  <2>2. c = IF pair.matched THEN ToPair(f)' ELSE 0
    BY <1>1, <1>4, <1>6, <1>7, <2>1
  <2>3. U <=> pair.matched /\ ToPair(f)' > 0
    BY <1>2, <1>4, <1>6, <1>11, <2>2
  <2>4. U => chunktab'[f] = ToPair(f)'
    BY <1>2, <1>4, <1>6, <1>11, <2>2, <2>3
  <2>5. ~(fchunktbl_get(chunktab, f) < 0)
    BY <1>4, <2>1
  <2>6. Verdict(pair) = IF ~pair.matched THEN <<"differs">>
                        ELSE IF o.verbose /\ ~U THEN <<"MATCHES">> ELSE <<>>
    BY <1>4, <1>8, <2>2, <2>3, <2>5
  <2> QED BY <1>4, <1>11, <2>1, <2>3, <2>4, <2>6 DEF T, U
<1> QED BY <1>9, <1>10, <1>11

(* Every such step keeps the chunk table right. *)
LEMMA TableStep ==
  ASSUME TalkInv, TalkInv', OnceInv', UNCHANGED o, NEW f \in DOMAIN Src, PartsInv(f), TableInv(f), FileStep(f)
  PROVE  TableInv(f)'
<1>1. /\ ToPair(f) \in Nat /\ ToAdd(f) \in Nat /\ ToPair(f)' \in Nat /\ ToAdd(f)' \in Nat
  BY FileNats, FileNatsNext
<1> SUFFICES /\ f \in DOMAIN chunktab' =>
                  chunktab'[f] > 0 /\ ToPair(f)' = chunktab'[f] /\ ToAdd(f)' = 0 /\ Chunked(f)
             /\ ToAdd(f)' > 0 => ToPair(f)' = nproc
  BY TableInvNext
<1>2. CASE FileStill(f)
  BY <1>2 DEF FileStill, TableSame, TableInv
<1>3. CASE FileStat(f)
  <2>1. ToPair(f) = 0 /\ ToAdd(f) = 0
    BY <1>3, StatFirst
  <2>2. f \notin DOMAIN chunktab
    BY <2>1 DEF TableInv
  <2>3. f \notin DOMAIN chunktab'
    BY <1>3, <2>2 DEF FileStat, TableSame
  <2>4. ToPair(f)' = 0 + PartsOf(f) /\ ToAdd(f)' = 0 + Bit(Compared(f) /\ Chunked(f))
    BY <1>3, <2>1 DEF FileStat
  <2>5. Compared(f) /\ Chunked(f) => PartsOf(f) = nproc
    BY PartsCount DEF PartsOf
  <2>6. ~(Compared(f) /\ Chunked(f)) => ~(ToAdd(f)' > 0)
    BY <2>4 DEF Bit
  <2> QED BY <2>3, <2>4, <2>5, <2>6, NprocAbove
<1>4. CASE FileAdded(f)
  <2>1. ToPair(f)' = ToPair(f) /\ ToAdd(f)' + 1 = ToAdd(f)
        /\ \/ f \in DOMAIN chunktab' /\ chunktab'[f] = nproc
           \/ TableSame(f)
    BY <1>4 DEF FileAdded
  <2>2. ToAdd(f) <= Bit(Compared(f) /\ Chunked(f))
    BY DEF PartsInv
  <2>3. ToAdd(f) > 0
    BY <1>1, <2>1
  <2>4. Chunked(f)
    BY <1>1, <2>2, <2>3 DEF Bit
  <2>5. ToAdd(f)' = 0
    BY <1>1, <2>1, <2>2, <2>3 DEF Bit
  <2>6. ToPair(f) = nproc /\ f \notin DOMAIN chunktab
    BY <1>1, <2>3 DEF TableInv
  <2> QED BY <2>1, <2>4, <2>5, <2>6, NprocAbove DEF TableSame
<1>5. ASSUME NEW pair, FileDone(f, pair)
      PROVE  /\ f \in DOMAIN chunktab' =>
                  chunktab'[f] > 0 /\ ToPair(f)' = chunktab'[f] /\ ToAdd(f)' = 0 /\ Chunked(f)
             /\ ToAdd(f)' > 0 => ToPair(f)' = nproc
  <2>1. ToAdd(f)' = 0
    BY <1>5 DEF FileDone
  <2>2. f \in DOMAIN chunktab' => /\ f \in DOMAIN chunktab /\ Chunked(f)
                                  /\ chunktab'[f] = ToPair(f)' /\ ToPair(f)' > 0
    BY <1>5, DoneTable
  <2> QED BY <2>1, <2>2
<1> QED BY <1>2, <1>3, <1>4, <1>5 DEF FileStep

Verdicts == {<<>>, <<"MATCHES">>, <<"differs">>}

(* The verdicts are told apart. *)
LEMMA VerdictsDiffer ==
  /\ <<>> \in Verdicts /\ <<"MATCHES">> \in Verdicts /\ <<"differs">> \in Verdicts
  /\ <<"MATCHES">> # <<>> /\ <<"differs">> # <<>> /\ <<"MATCHES">> # <<"differs">>
  /\ \A p \in Verdicts : p \o <<>> = p
  /\ <<>> \o <<"MATCHES">> = <<"MATCHES">> /\ <<>> \o <<"differs">> = <<"differs">>
<1>1. <<"MATCHES">> # <<>> /\ <<"differs">> # <<>> /\ <<"MATCHES">> # <<"differs">>
  OBVIOUS
<1>2. ASSUME NEW p \in Verdicts PROVE p \o <<>> = p
  <2>1. /\ <<>> \o <<>> = <<>> /\ <<"MATCHES">> \o <<>> = <<"MATCHES">>
        /\ <<"differs">> \o <<>> = <<"differs">>
    OBVIOUS
  <2> QED BY <2>1 DEF Verdicts
<1>3. <<>> \o <<"MATCHES">> = <<"MATCHES">> /\ <<>> \o <<"differs">> = <<"differs">>
  OBVIOUS
<1> QED BY <1>1, <1>2, <1>3 DEF Verdicts

(* SoFarSame of the next state. *)
LEMMA SoFarNext ==
  ASSUME UNCHANGED o, NEW f
  PROVE  SoFarSame(f)' <=>
           \A k \in -1..nproc : <<f, k>> \in Parts(f) /\ ToPart(f, k)' = 0 => PartSame(f, k)'
BY PartsKept DEF SoFarSame

(* It holds as long as no outcome is added. *)
LEMMA SoFarKept ==
  ASSUME TalkInv, TalkInv', UNCHANGED o, failed \subseteq failed', NEW f, SoFarSame(f),
         \A k \in -1..nproc : ToPart(f, k)' = 0 => ToPart(f, k) = 0
  PROVE  SoFarSame(f)'
<1> SUFFICES ASSUME NEW k \in -1..nproc, <<f, k>> \in Parts(f), ToPart(f, k)' = 0
             PROVE  PartSame(f, k)'
  BY SoFarNext
<1>1. PartSame(f, k)
  BY DEF SoFarSame
<1> QED BY <1>1, PartSameKept

(* Awaited of the next state. *)
LEMMA AwaitedNext ==
  ASSUME UNCHANGED o, NEW f
  PROVE  Awaited(f)' <=>
           \/ Dest[f].lstat = "error"
           \/ f \in DOMAIN chunktab'
           \/ ToAdd(f)' > 0
           \/ <<"heap", f>> \in failed'
           \/ ~Chunked(f) /\ ToPair(f)' > 0
           \/ ~o.verbose /\ SoFarSame(f)' /\ ToPair(f)' = 0
BY JobKept DEF Awaited

(* VerdictInv of the next state. *)
LEMMA VerdictInvNext ==
  ASSUME UNCHANGED o, NEW f
  PROVE  VerdictInv(f)' <=>
           /\ printed'[f] \in Verdicts
           /\ printed'[f] = <<"MATCHES">> => o.verbose /\ SoFarSame(f)' /\ ToPair(f)' = 0
           /\ printed'[f] = <<"differs">> => ~Same(f) \/ <<"open", f>> \in failed'
           /\ printed'[f] # <<>> =>
                /\ statted'[f] > 0 /\ Dest[f].lstat # "error"
                /\ f \notin DOMAIN chunktab' /\ ToAdd(f)' = 0 /\ (~Chunked(f) => ToPair(f)' = 0)
           /\ f \in DOMAIN chunktab' \/ ToAdd(f)' > 0 => SoFarSame(f)'
           /\ statted'[f] > 0 /\ printed'[f] = <<>> => Awaited(f)'
<1>1. Chunked(f)' <=> Chunked(f)
  BY JobKept
<1>2. Same(f)' <=> Same(f)
  BY SameKept
<1> QED BY <1>1, <1>2 DEF VerdictInv, Verdicts

(* A step that does not concern the file keeps its verdict right; *)
LEMMA VerdictStill ==
  ASSUME TalkInv, TalkInv', UNCHANGED o, failed \subseteq failed', o.app = "cmp",
         NEW f \in DOMAIN Src, VerdictInv(f), FileStill(f)
  PROVE  VerdictInv(f)'
<1>1. /\ ToPair(f)' = ToPair(f) /\ ToAdd(f)' = ToAdd(f)
      /\ f \in DOMAIN chunktab' <=> f \in DOMAIN chunktab
      /\ printed'[f] = printed[f] /\ statted'[f] = statted[f]
  BY DEF FileStill, TableSame
<1>2. SoFarSame(f) => SoFarSame(f)'
  BY SoFarKept DEF FileStill
<1>3. Awaited(f) => Awaited(f)'
  BY <1>1, <1>2, AwaitedNext DEF Awaited
<1> QED BY <1>1, <1>2, <1>3, VerdictInvNext DEF VerdictInv, Verdicts

(* its stat awaits its outcomes; *)
LEMMA VerdictStat ==
  ASSUME TalkInv, TalkInv', OnceInv', UNCHANGED o, failed \subseteq failed', o.app = "cmp",
         NEW f \in DOMAIN Src, PartsInv(f), TableInv(f), VerdictInv(f), FileStat(f)
  PROVE  VerdictInv(f)'
<1>1. /\ statted[f] = 0 /\ statted'[f] = 1
      /\ ToPair(f) = 0 /\ ToAdd(f) = 0 /\ \A k : ToPart(f, k) = 0
  BY StatFirst
<1>2. printed[f] = <<>>
  BY <1>1 DEF VerdictInv
<1>3. printed'[f] = <<>> /\ f \notin DOMAIN chunktab'
  BY <1>1, <1>2 DEF FileStat, TableSame, TableInv
<1>4. /\ ToPair(f)' = 0 + PartsOf(f) /\ ToAdd(f)' = 0 + Bit(Compared(f) /\ Chunked(f))
      /\ \A k : ToPart(f, k)' = 0 + Bit(Compared(f) /\ <<f, k>> \in Parts(f))
  BY <1>1 DEF FileStat
<1>5. CASE ~Compared(f)
  <2>1. Dest[f].lstat = "error"
    BY <1>5 DEF Compared
  <2>2. ~(ToAdd(f)' > 0)
    BY <1>4, <1>5 DEF Bit
  <2> QED BY <1>3, <2>1, <2>2, VerdictsDiffer, AwaitedNext, VerdictInvNext DEF Verdicts
<1>6. CASE Compared(f)
  <2>1. SoFarSame(f)'
    <3> SUFFICES ASSUME NEW k \in -1..nproc, <<f, k>> \in Parts(f), ToPart(f, k)' = 0 PROVE FALSE
      BY SoFarNext
    <3>1. Bit(Compared(f) /\ <<f, k>> \in Parts(f)) = 1
      BY <1>6 DEF Bit
    <3> QED BY <1>4, <3>1
  <2>2. CASE Chunked(f)
    <3>1. ToAdd(f)' > 0
      BY <1>4, <1>6, <2>2 DEF Bit
    <3> QED BY <1>3, <2>1, <3>1, VerdictsDiffer, AwaitedNext, VerdictInvNext DEF Verdicts
  <2>3. CASE ~Chunked(f)
    <3>1. PartsOf(f) = 1
      BY <1>6, <2>3, PartsCount DEF PartsOf
    <3>2. ToPair(f)' > 0
      BY <1>4, <3>1
    <3> QED BY <1>3, <2>1, <2>3, <3>2, VerdictsDiffer, AwaitedNext, VerdictInvNext DEF Verdicts
  <2> QED BY <2>2, <2>3
<1> QED BY <1>5, <1>6

(* its announcement enters it in the table, before any outcome; *)
LEMMA VerdictAdded ==
  ASSUME TalkInv, TalkInv', UNCHANGED o, failed \subseteq failed', o.app = "cmp",
         NEW f \in DOMAIN Src, TableInv(f), TableInv(f)', VerdictInv(f), FileAdded(f)
  PROVE  VerdictInv(f)'
<1>1. /\ ToPair(f)' = ToPair(f) /\ ToAdd(f)' + 1 = ToAdd(f) /\ \A k : ToPart(f, k)' = ToPart(f, k)
      /\ f \in DOMAIN chunktab' \/ (TableSame(f) /\ <<"heap", f>> \in failed')
      /\ printed'[f] = printed[f] /\ statted'[f] = statted[f]
  BY DEF FileAdded
<1>2. ToAdd(f) > 0
  BY <1>1, FileNats, FileNatsNext
<1>3. ToAdd(f) # 0
  BY <1>2
<1>4. printed'[f] = <<>> /\ SoFarSame(f)
  BY <1>1, <1>2, <1>3 DEF VerdictInv
<1>5. SoFarSame(f)'
  BY <1>1, <1>4, SoFarKept
<1>6. Awaited(f)'
  BY <1>1, AwaitedNext
<1> QED BY <1>4, <1>5, <1>6, VerdictsDiffer, VerdictInvNext DEF Verdicts

(* Another part found the same. *)
LEMMA SoFarDone ==
  ASSUME TalkInv, TalkInv', UNCHANGED o, failed \subseteq failed',
         NEW f \in DOMAIN Src, NEW pair, FileDone(f, pair), pair.matched, SoFarSame(f)
  PROVE  SoFarSame(f)'
<1> SUFFICES ASSUME NEW k \in -1..nproc, <<f, k>> \in Parts(f), ToPart(f, k)' = 0
             PROVE  PartSame(f, k)'
  BY SoFarNext
<1>1. Outcome(pair) /\ pair.src = f /\ ToPart(f, k)' + Bit(k = pair.chunknum) = ToPart(f, k)
  BY DEF FileDone
<1>2. CASE k = pair.chunknum
  <2>1. PartSame(f, k)
    BY <1>1, <1>2 DEF Outcome
  <2> QED BY <2>1, PartSameKept
<1>3. CASE k # pair.chunknum
  <2>1. Bit(k = pair.chunknum) = 0
    BY <1>3 DEF Bit
  <2>2. ToPart(f, k) = 0 + 0
    BY <1>1, <2>1
  <2>3. PartSame(f, k)
    BY <2>2 DEF SoFarSame
  <2> QED BY <2>3, PartSameKept
<1> QED BY <1>2, <1>3

(* An outcome prints the verdict when it is the last, or the first to *)
(* differ.                                                            *)
LEMMA VerdictDone ==
  ASSUME TalkInv, TalkInv', UNCHANGED o, failed \subseteq failed', o.app = "cmp",
         NEW f \in DOMAIN Src, PartsInv(f), TableInv(f), TableInv(f)', VerdictInv(f),
         NEW pair, FileDone(f, pair)
  PROVE  VerdictInv(f)'
<1> DEFINE T == f \in DOMAIN chunktab
           U == f \in DOMAIN chunktab'
           C == Chunked(f)
           x == ToPair(f)
           y == ToPair(f)'
<1>1. /\ Compared(f) /\ Dest[f].lstat # "error"
      /\ ToPart(f, pair.chunknum) > 0 /\ <<f, pair.chunknum>> \in Parts(f)
      /\ x > 0 /\ statted[f] > 0 /\ statted'[f] > 0 /\ pair.matched \in BOOLEAN
  BY DonePart
<1>2. /\ pair \in PairData /\ pair.src = f /\ Outcome(pair)
      /\ y + 1 = x /\ ToAdd(f) = 0 /\ ToAdd(f)' = 0 /\ ~(ToAdd(f)' > 0)
      /\ printed'[f] = printed[f] \o Verdict(pair)
  BY DEF FileDone
<1>3. x \in Nat /\ y \in Nat
  BY FileNats, FileNatsNext
<1>4. /\ ~C => ~T /\ ~U
      /\ ~T => ~U
      /\ T => C /\ (U <=> pair.matched /\ y > 0)
      /\ Verdict(pair) = IF C /\ ~T THEN <<>>
                         ELSE IF ~pair.matched THEN <<"differs">>
                         ELSE IF o.verbose /\ ~U THEN <<"MATCHES">> ELSE <<>>
  BY DoneTable
<1>5. ~C => x = 1 /\ y = 0
  <2>1. x <= PartsOf(f) /\ (~C => PartsOf(f) = 1)
    BY <1>1, PartsCount DEF PartsInv, PartsOf
  <2> QED BY <1>1, <1>2, <1>3, <2>1
<1>6. ~C => SoFarSame(f)
  <2> SUFFICES ASSUME ~C, NEW k \in -1..nproc, <<f, k>> \in Parts(f), ToPart(f, k) = 0 PROVE FALSE
    BY DEF SoFarSame
  <2>1. k = pair.chunknum
    BY <1>1 DEF Parts
  <2>2. ~(ToPart(f, k) > 0)
    OBVIOUS
  <2> QED BY <1>1, <2>1, <2>2
<1>7. pair.matched /\ SoFarSame(f) => SoFarSame(f)'
  BY SoFarDone
<1>8. ~pair.matched => ~Same(f) \/ <<"open", f>> \in failed'
  BY <1>2 DEF Outcome
<1>9. /\ printed[f] \in Verdicts
      /\ printed[f] = <<"MATCHES">> => x = 0
      /\ printed[f] = <<"differs">> => ~Same(f) \/ <<"open", f>> \in failed'
      /\ printed[f] # <<>> => ~T /\ (~C => x = 0)
      /\ T => SoFarSame(f)
      /\ printed[f] = <<>> => Awaited(f)
  BY <1>1, <1>2 DEF VerdictInv, Verdicts
<1>10. Awaited(f) <=> \/ T \/ <<"heap", f>> \in failed \/ ~C
  BY <1>1, <1>2, <1>3 DEF Awaited
<1>11. Awaited(f)' <=> \/ U \/ <<"heap", f>> \in failed'
                       \/ ~C /\ y > 0
                       \/ ~o.verbose /\ SoFarSame(f)' /\ y = 0
  BY <1>1, <1>2, AwaitedNext
<1>12. x # 0 /\ (y > 0 \/ y = 0)
  BY <1>1, <1>3
<1> SUFFICES /\ printed'[f] \in Verdicts
             /\ printed'[f] = <<"MATCHES">> => o.verbose /\ SoFarSame(f)' /\ y = 0
             /\ printed'[f] = <<"differs">> => ~Same(f) \/ <<"open", f>> \in failed'
             /\ printed'[f] # <<>> => ~U /\ (~C => y = 0)
             /\ U => SoFarSame(f)'
             /\ printed'[f] = <<>> => Awaited(f)'
  BY <1>1, <1>2, VerdictInvNext
<1> HIDE DEF T, U, C, x, y
<1>13. CASE C /\ ~T
  <2>1. printed'[f] = printed[f] /\ ~U
    BY <1>2, <1>4, <1>9, <1>13, VerdictsDiffer
  <2>2. printed[f] = <<>> => <<"heap", f>> \in failed'
    BY <1>9, <1>10, <1>13
  <2> QED BY <1>9, <1>11, <1>12, <1>13, <2>1, <2>2
<1>14. CASE ~(C /\ ~T)
  <2>1. printed[f] = <<>> /\ SoFarSame(f)
    BY <1>4, <1>6, <1>9, <1>12, <1>14
  <2>2. Verdict(pair) = IF ~pair.matched THEN <<"differs">>
                        ELSE IF o.verbose /\ ~U THEN <<"MATCHES">> ELSE <<>>
    BY <1>4, <1>14
  <2>3. CASE ~pair.matched
    <3>1. printed'[f] = <<"differs">>
      BY <1>2, <2>1, <2>2, <2>3, VerdictsDiffer
    <3>2. ~U /\ (~C => y = 0)
      BY <1>4, <1>5, <2>3
    <3> QED BY <1>8, <2>3, <3>1, <3>2, VerdictsDiffer
  <2>4. CASE pair.matched /\ U
    <3>1. printed'[f] = <<>>
      BY <1>2, <2>1, <2>2, <2>4, VerdictsDiffer DEF Verdicts
    <3> QED BY <1>7, <1>11, <2>1, <2>4, <3>1, VerdictsDiffer DEF Verdicts
  <2>5. CASE pair.matched /\ ~U
    <3>1. SoFarSame(f)' /\ y = 0
      BY <1>4, <1>5, <1>7, <1>12, <1>14, <2>1, <2>5
    <3>2. printed'[f] = IF o.verbose THEN <<"MATCHES">> ELSE <<>>
      BY <1>2, <2>1, <2>2, <2>5, VerdictsDiffer DEF Verdicts
    <3>3. CASE o.verbose
      <4>1. printed'[f] = <<"MATCHES">>
        BY <3>2, <3>3
      <4> QED BY <2>5, <3>1, <3>3, <4>1, VerdictsDiffer
    <3>4. CASE ~o.verbose
      <4>1. printed'[f] = <<>> /\ Awaited(f)'
        BY <1>11, <3>1, <3>2, <3>4
      <4> QED BY <2>5, <4>1, VerdictsDiffer
    <3> QED BY <3>3, <3>4
  <2> QED BY <1>1, <2>3, <2>4, <2>5
<1> QED BY <1>13, <1>14

(* Every step keeps the verdict right. *)
LEMMA VerdictStep ==
  ASSUME TalkInv, TalkInv', OnceInv', UNCHANGED o, failed \subseteq failed', o.app = "cmp",
         NEW f \in DOMAIN Src, PartsInv(f), TableInv(f), VerdictInv(f), FileStep(f)
  PROVE  VerdictInv(f)'
BY VerdictStill, VerdictStat, VerdictAdded, VerdictDone, TableStep DEF FileStep

FileInv(f) == PartsInv(f) /\ TableInv(f) /\ (o.app = "cmp" => VerdictInv(f))

(* The invariant of the comparison, file by file. *)
LEMMA FilesInv ==
  /\ CompareInv <=> AddsFirst /\ OutcomesRight /\ \A f \in DOMAIN Src : FileInv(f)
  /\ CompareInv' <=> AddsFirst' /\ OutcomesRight' /\ \A f \in DOMAIN Src : FileInv(f)'
BY DEF CompareInv, FileInv

(* Every step keeps the invariant of the comparison. *)
LEMMA CompareHolds == TalkInv /\ TalkInv' /\ OnceInv' /\ CompareInv /\ [Next]_vars => CompareInv'
<1> SUFFICES ASSUME TalkInv, TalkInv', OnceInv', CompareInv, [Next]_vars PROVE CompareInv'
  OBVIOUS
<1>1. AddsFirst /\ OutcomesRight /\ \A f \in DOMAIN Src : FileInv(f)
  BY FilesInv
<1>2. AddsFirst'
  BY <1>1, AddsKept
<1>3. OutcomesRight'
  BY <1>1, OutcomesKept DEF FileInv
<1>4. UNCHANGED o /\ failed \subseteq failed'
  BY WalkSteps DEF WalkStep
<1>5. ASSUME NEW f \in DOMAIN Src PROVE FileInv(f)'
  <2>1. PartsInv(f) /\ TableInv(f) /\ (o.app = "cmp" => VerdictInv(f))
    BY <1>1 DEF FileInv
  <2>2. FileStep(f)
    BY <1>1, <2>1, FileSteps
  <2>3. PartsInv(f)'
    BY <1>4, <2>1, <2>2, PartsStep
  <2>4. TableInv(f)'
    BY <1>4, <2>1, <2>2, TableStep
  <2>5. o.app = "cmp" => VerdictInv(f)'
    BY <1>4, <2>1, <2>2, VerdictStep
  <2>6. o'.app = "cmp" => VerdictInv(f)'
    BY <1>4, <2>5
  <2> QED BY <2>3, <2>4, <2>6 DEF FileInv
<1> QED BY <1>2, <1>3, <1>5, FilesInv

(* The counts at the start. *)
LEMMA CountInit == Init => CountInv
<1> SUFFICES ASSUME Init PROVE CountInv
  OBVIOUS
<1>1. TalkInv /\ mgr.pc = "init"
  BY TalkInit DEF Init
<1>2. ToClose = 0 /\ ToCompare = 0
  BY <1>1, AllNone DEF ToClose, ToCompare
<1>3. jobstats.dirs = 0 /\ jobstats.compares = 0
  BY DEF Init, perfstat_new
<1>4. Statted = {}
  BY DEF Init, Statted
<1>5. AllParts = {} /\ Statted \cap DOMAIN Entries = {}
  BY <1>4 DEF AllParts
<1>6. Closed = 0 /\ Counted = 0
  BY <1>2, <1>3 DEF Closed, Counted
<1> QED BY <1>5, <1>6, CountInvDef, FS_EmptySet DEF CountInv

(* The comparison at the start. *)
LEMMA CompareInit == Init => CompareInv
<1> SUFFICES ASSUME Init PROVE CompareInv
  OBVIOUS
<1>1. TalkInv /\ mgr.pc = "init"
  BY TalkInit DEF Init
<1>2. ASSUME NEW w \in Workers PROVE toMgr[w] = <<>>
  BY DEF Init
<1>3. AddsFirst
  <2>1. ASSUME NEW w \in Workers, NEW f \in DOMAIN Src PROVE ~(ItemsWeight(<<"add", f>>, toMgr[w]) > 0)
    BY <1>2, ItemsNone
  <2> QED BY <2>1 DEF AddsFirst
<1>4. OutcomesRight
  BY <1>2 DEF OutcomesRight
<1>5. ASSUME NEW f \in DOMAIN Src PROVE FileInv(f)
  <2>1. ToPair(f) = 0 /\ ToAdd(f) = 0 /\ \A k : ToPart(f, k) = 0
    BY <1>1, AllNone DEF ToPair, ToAdd, ToPart
  <2>2. statted[f] = 0 /\ printed[f] = <<>> /\ f \notin DOMAIN chunktab
    BY PwtAssumption DEF Init, fchunktbl_create
  <2>3. PartsInv(f)
    BY <2>1, PartsAtMost DEF PartsInv, Bit
  <2>4. TableInv(f)
    BY <2>1, <2>2 DEF TableInv
  <2>5. VerdictInv(f)
    BY <2>1, <2>2, VerdictsDiffer DEF VerdictInv, Verdicts
  <2> QED BY <2>3, <2>4, <2>5 DEF FileInv
<1> QED BY <1>3, <1>4, <1>5, FilesInv

(* The manager ends when the job has: nothing is left anywhere. *)
LEMMA EndQuiet ==
  ASSUME TalkInv, Ended
  PROVE  /\ \A w \in Workers : Quiet(w)
         /\ WorkQueued = {}
<1>1. mgr.pc \in {"end", "done"}
  BY DEF Ended
<1>2. (\A w \in Workers : ~active[w]) /\ (\A q \in Queues : workq[q] = <<>>)
  BY <1>1 DEF TalkInv, ManagerInv
<1>3. ASSUME NEW w \in Workers PROVE Quiet(w)
  <2>1. InPhase(w) /\ ~active[w]
    BY <1>2 DEF TalkInv
  <2>2. Free(w)
    BY <2>1 DEF InPhase, Given, AtWork, Asking, Answered, Finished
  <2> QED BY <2>2 DEF Free, Resting, Quiet
<1> QED BY <1>2, <1>3 DEF WorkQueued

(* A table without entries. *)
LEMMA EmptyTable ==
  ASSUME NEW t, t = [x \in DOMAIN t |-> t[x]], DOMAIN t = {}
  PROVE  t = <<>>
OBVIOUS

(* At the end no token is left: the job has counted what was stat-ed, and *)
(* the table is empty.                                                    *)
LEMMA EndRight == TalkInv /\ CountInv /\ CompareInv => EndIsComplete
<1> SUFFICES ASSUME TalkInv, CountInv, CompareInv, Ended
             PROVE  /\ \A w \in Workers : Quiet(w)
                    /\ WorkQueued = {} /\ chunktab = fchunktbl_create
                    /\ ~Happened({"opendir"}) =>
                         /\ jobstats.dirs = Cardinality(Statted \cap DOMAIN Entries)
                         /\ o.app = "cmp" =>
                              jobstats.compares = Cardinality(UNION {Parts(f) : f \in Statted \cap DOMAIN Src})
  BY DEF EndIsComplete
<1>1. mgr.pc \in {"init", "end", "done"}
  BY DEF Ended
<1>2. ToClose = 0 /\ ToCompare = 0 /\ \A f : ToPair(f) = 0
  BY <1>1, AllNone DEF ToClose, ToCompare, ToPair
<1>3. chunktab = [f \in DOMAIN chunktab |-> chunktab[f]] /\ DOMAIN chunktab \subseteq DOMAIN Src
  BY DEF TalkInv, TypeOK
<1>4. DOMAIN chunktab = {}
  <2> SUFFICES ASSUME NEW f \in DOMAIN chunktab PROVE FALSE
    OBVIOUS
  <2>1. TableInv(f)
    BY <1>3, FilesInv DEF FileInv
  <2>2. chunktab[f] > 0 /\ ToPair(f) = chunktab[f]
    BY <2>1 DEF TableInv
  <2> QED BY <1>2, <2>2
<1>5. chunktab = fchunktbl_create
  BY <1>3, <1>4, EmptyTable DEF fchunktbl_create
<1>6. Closed = jobstats.dirs /\ Counted = jobstats.compares
  <2>1. jobstats.dirs \in Nat /\ jobstats.compares \in Nat
    BY PerfNat DEF TalkInv, TypeOK
  <2>2. Closed = 0 + jobstats.dirs /\ Counted = 0 + jobstats.compares
    BY <1>2 DEF Closed, Counted
  <2> QED BY <2>1, <2>2
<1>7. ASSUME ~Happened({"opendir"}) PROVE jobstats.dirs = Cardinality(Statted \cap DOMAIN Entries)
  BY <1>6, <1>7, CountInvDef DEF CountInv, Complete
<1>8. o.app = "cmp" => jobstats.compares = Cardinality(AllParts)
  BY <1>6, CountInvDef DEF CountInv
<1> QED BY <1>5, <1>7, <1>8, EndQuiet DEF AllParts

(* Division with rest. *)
LEMMA DivMod ==
  ASSUME NEW n \in Nat, NEW m \in Nat, m > 0
  PROVE  n \div m \in Nat /\ n % m \in Nat /\ n = (n \div m) * m + (n % m)
<1>1. n = m * (n \div m) + (n % m)
  OBVIOUS
<1>2. n \div m \in Nat /\ n % m \in Nat
  OBVIOUS
<1>3. m * (n \div m) = (n \div m) * m
  BY <1>2
<1> QED BY <1>1, <1>2, <1>3

(* The chunks of a file cover it. *)
LEMMA WindowsCover ==
  ASSUME NEW q \in Nat, NEW r \in Nat, NEW n \in 1..q * nproc + r
  PROVE  \E k \in 0..nproc - 1 :
           n \in q * k + 1 .. q * k + 1 + (q + (IF k + 1 = nproc THEN r ELSE 0)) - 1
<1> SUFFICES ASSUME \A k \in 0..nproc - 1 :
                      n \notin q * k + 1 .. q * k + 1 + (q + (IF k + 1 = nproc THEN r ELSE 0)) - 1
             PROVE  FALSE
  OBVIOUS
<1> DEFINE N == nproc
           S == {k \in 0..N - 1 : n > q * k}
<1>1. N \in Nat /\ N > 1 /\ N - 1 \in Nat
  BY NprocAbove
<1>2. n \in Nat /\ n > 0 /\ n <= q * N + r /\ q * N + r \in Nat
  BY <1>1
<1>3. \A k \in 0..N - 1 : ~(q * k + 1 <= n /\ n <= q * k + 1 + (q + (IF k + 1 = N THEN r ELSE 0)) - 1)
  BY <1>1, <1>2
<1> HIDE DEF N
<1>4. 0 \in S
  BY <1>1, <1>2
<1>5. ASSUME NEW k \in 0..(N - 1) - 1, k \in S PROVE k + 1 \in S
  <2>1. k \in Nat /\ k + 1 \in 0..N - 1 /\ k \in 0..N - 1 /\ k + 1 # N
    BY <1>1
  <2>2. q * (k + 1) = q * k + q /\ q * k \in Nat /\ n > q * k
    BY <1>5, <2>1
  <2>3. ~(q * k + 1 <= n /\ n <= q * k + 1 + (q + 0) - 1)
    BY <1>3, <2>1
  <2>4. n > q * k + q
    <3> DEFINE x == q * k
    <3>1. x \in Nat /\ n > x /\ ~(x + 1 <= n /\ n <= x + 1 + (q + 0) - 1)
      BY <2>2, <2>3
    <3> HIDE DEF x
    <3>2. n > x + q
      BY <1>2, <3>1
    <3> QED BY <3>2 DEF x
  <2> QED BY <2>1, <2>2, <2>4
<1>6. N - 1 \in S
  <2> HIDE DEF S
  <2>1. \A k \in 0..N - 1 : k \in S
    BY <1>1, <1>4, <1>5, UpTo
  <2> QED BY <1>1, <2>1
<1> DEFINE m == N - 1
           x == q * m
<1>7. n > x /\ x \in Nat /\ m \in 0..N - 1 /\ m + 1 = N
  BY <1>1, <1>6
<1>8. ~(x + 1 <= n /\ n <= x + 1 + (q + r) - 1)
  BY <1>3, <1>7
<1>9. q * N = x + q
  BY <1>1
<1> HIDE DEF x, m, S
<1> QED BY <1>2, <1>7, <1>8, <1>9

(* A file all parts of which were the same is the same. *)
LEMMA PartsCover ==
  ASSUME NEW f \in DOMAIN Src, o.app = "cmp", Dest[f].lstat # "error", <<"read", f>> \notin failed,
         \A k \in -1..nproc : <<f, k>> \in Parts(f) => PartSame(f, k)
  PROVE  Same(f)
<1> DEFINE a == Src[f].bytes
           b == Dest[f].bytes
           size == Len(a)
           pair(k) == [filepair_new(f) EXCEPT !.chunknum = k]
<1>1. Parts(f) = {f} \X (IF Chunked(f) THEN 0..(nproc - 1) ELSE {-1})
  BY DEF Parts
<1>2. \A k : <<f, k>> \in Parts(f) <=> IF Chunked(f) THEN k \in 0..(nproc - 1) ELSE k = -1
  BY <1>1
<1>3. \A k : <<f, k>> \in Parts(f) => k \in -1..nproc
  BY <1>2, NprocAbove
<1>4. ASSUME NEW k, <<f, k>> \in Parts(f)
      PROVE  /\ Dest[f].lstat = "ok" /\ Len(a) = Len(b)
             /\ o.meta_only => Src[f].mtime = Dest[f].mtime
             /\ ~o.meta_only => SameContents(pair(k))
  BY <1>3, <1>4 DEF PartSame
<1>5. <<f, IF Chunked(f) THEN 0 ELSE -1>> \in Parts(f)
  BY <1>2, NprocAbove
<1>6. /\ Dest[f].lstat = "ok" /\ Len(a) = Len(b) /\ (o.meta_only => Src[f].mtime = Dest[f].mtime)
  BY <1>4, <1>5
<1>7. a \in Seq(0..255) /\ b \in Seq(0..255) /\ size \in Nat
  BY PwtAssumption
<1>8. \A k : pair(k).src = f /\ pair(k).chunknum = k
  BY DEF filepair_new
<1>9. ASSUME NEW k, <<f, k>> \in Parts(f), ~o.meta_only
      PROVE  LET first == compute_transfer_offset(pair(k)) + 1 IN
             \A n \in first..(first + compute_transfer_length(pair(k)) - 1) : a[n] = b[n]
  <2>1. SameContents(pair(k))
    BY <1>4, <1>9
  <2> HIDE DEF pair
  <2> QED BY <1>8, <2>1 DEF SameContents
<1>10. ASSUME ~o.meta_only, NEW n \in 1..size PROVE a[n] = b[n]
  <2>1. CASE ~Chunked(f)
    <3>1. <<f, -1>> \in Parts(f)
      BY <1>2, <2>1
    <3>2. compute_transfer_offset(pair(-1)) = 0 /\ compute_transfer_length(pair(-1)) = size
      BY <1>8 DEF compute_transfer_offset, compute_transfer_length
    <3>3. n \in 0 + 1 .. 0 + 1 + size - 1
      BY <1>7
    <3> HIDE DEF pair
    <3> QED BY <1>9, <1>10, <3>1, <3>2, <3>3
  <2>2. CASE Chunked(f)
    <3> DEFINE q == size \div nproc
               r == size % nproc
    <3>1. q \in Nat /\ r \in Nat /\ size = q * nproc + r
      <4>1. nproc \in Nat /\ nproc > 0
        BY NprocAbove
      <4> HIDE DEF size
      <4>2. size \in Nat
        BY <1>7
      <4> DEFINE m == nproc
      <4>3. m \in Nat /\ m > 0
        BY <4>1
      <4> HIDE DEF m
      <4>4. size \div m \in Nat /\ size % m \in Nat /\ size = (size \div m) * m + (size % m)
        BY ONLY <4>2, <4>3, DivMod
      <4> QED BY <4>4 DEF m
    <3> HIDE DEF q, r
    <3>2. PICK k \in 0..nproc - 1 :
             n \in q * k + 1 .. q * k + 1 + (q + (IF k + 1 = nproc THEN r ELSE 0)) - 1
      BY <3>1, <1>10, WindowsCover
    <3>3. k \in Int /\ ~(k < 0)
      BY <3>2, NprocAbove
    <3>4. <<f, k>> \in Parts(f)
      BY <1>2, <2>2, <3>2
    <3>5. /\ compute_transfer_offset(pair(k)) = q * k
          /\ compute_transfer_length(pair(k)) = q + (IF k + 1 = nproc THEN r ELSE 0)
      BY <1>8, <3>3 DEF compute_transfer_offset, compute_transfer_length, q, r
    <3> HIDE DEF pair
    <3>6. \A i \in q * k + 1 .. q * k + 1 + (q + (IF k + 1 = nproc THEN r ELSE 0)) - 1 : a[i] = b[i]
      BY <1>9, <1>10, <3>4, <3>5
    <3> QED BY <3>2, <3>6
  <2> QED BY <2>1, <2>2
<1>11. ~o.meta_only => a = b
  <2> HIDE DEF a, b
  <2> QED BY <1>6, <1>7, <1>10
<1> QED BY <1>6, <1>11 DEF Same

(* A file whose parts were all found the same, with no failing read, is *)
(* the same.                                                            *)
LEMMA AllSame ==
  ASSUME TalkInv, NEW f \in DOMAIN Src, SoFarSame(f), ToPair(f) = 0, o.app = "cmp",
         Dest[f].lstat # "error", <<"read", f>> \notin failed
  PROVE  Same(f)
<1>1. ASSUME NEW k PROVE ToPart(f, k) = 0
  <2>1. ToPart(f, k) <= ToPair(f) /\ ToPart(f, k) \in Nat
    BY PartOfPair, FileNats
  <2> QED BY <2>1
<1>2. \A k \in -1..nproc : <<f, k>> \in Parts(f) => PartSame(f, k)
  BY <1>1 DEF SoFarSame
<1> QED BY <1>2, PartsCover

(* The verdicts are right. *)
LEMMA VerdictsHold == TalkInv /\ CompareInv => VerdictsRight
<1> SUFFICES ASSUME TalkInv, CompareInv, o.app = "cmp", NEW f \in DOMAIN Src
             PROVE  /\ printed[f] \in Verdicts
                    /\ printed[f] = <<"MATCHES">> => Same(f) \/ <<"read", f>> \in failed
                    /\ printed[f] = <<"differs">> => ~Same(f) \/ <<"open", f>> \in failed
                    /\ Ended /\ f \in Statted /\ <<"heap", f>> \notin failed =>
                         \/ (printed[f] # <<>>) = (Dest[f].lstat # "error" /\ (o.verbose \/ ~Same(f)))
                         \/ ~o.verbose /\ {<<"open", f>>, <<"read", f>>} \cap failed # {}
  BY DEF VerdictsRight, Verdicts
<1> DEFINE M == printed[f] = <<"MATCHES">>
           D == printed[f] = <<"differs">>
           N == printed[f] = <<>>
           E == Dest[f].lstat = "error"
           open == <<"open", f>> \in failed
           read == <<"read", f>> \in failed
           same == Same(f)
           z == ToPair(f) = 0
           far == SoFarSame(f)
<1>1. VerdictInv(f) /\ TableInv(f)
  BY FilesInv DEF FileInv
<1>2. /\ printed[f] \in Verdicts
      /\ M => o.verbose /\ far /\ z
      /\ D => ~same \/ open
      /\ ~N => ~E
      /\ statted[f] > 0 /\ N => Awaited(f)
  BY <1>1 DEF VerdictInv, Verdicts
<1>3. far /\ z /\ ~E => same \/ read
  BY AllSame
<1>4. ASSUME Ended, f \in Statted, <<"heap", f>> \notin failed, N PROVE E \/ (~o.verbose /\ far /\ z)
  <2>1. ToPair(f) = 0 /\ ToAdd(f) = 0
    BY <1>4, AllNone DEF Ended, ToPair, ToAdd
  <2>2. f \notin DOMAIN chunktab
    BY <1>1, <2>1 DEF TableInv
  <2>3. statted[f] > 0
    BY <1>4 DEF Statted
  <2> QED BY <1>2, <1>4, <2>1, <2>2, <2>3 DEF Awaited
<1>5. M \/ D \/ N
  BY <1>2 DEF Verdicts
<1>6. M => ~N /\ ~D
  BY VerdictsDiffer
<1>7. open \/ read => {<<"open", f>>, <<"read", f>>} \cap failed # {}
  OBVIOUS
<1>8. E => ~same
  BY DEF Same
<1>9. o.verbose \in BOOLEAN
  BY JobAssumption DEF TalkInv, TypeOK
<1> HIDE DEF M, D, N, E, open, read, same, z, far
<1> DEFINE fault == {<<"open", f>>, <<"read", f>>} \cap failed # {}
<1> HIDE DEF fault
<1>10. open \/ read => fault
  BY <1>7 DEF fault
<1>11. M => same \/ read
  BY <1>2, <1>3, <1>6
<1>12. ASSUME Ended, f \in Statted, <<"heap", f>> \notin failed
       PROVE  (~N <=> (~E /\ (o.verbose \/ ~same))) \/ (~o.verbose /\ fault)
  <2>1. CASE N
    BY <1>3, <1>4, <1>10, <1>12, <2>1
  <2>2. CASE ~N
    BY <1>2, <1>5, <1>10, <2>2
  <2> QED BY <2>1, <2>2
<1>13. ASSUME Ended, f \in Statted, <<"heap", f>> \notin failed
       PROVE  \/ (printed[f] # <<>>) = (Dest[f].lstat # "error" /\ (o.verbose \/ ~Same(f)))
              \/ ~o.verbose /\ {<<"open", f>>, <<"read", f>>} \cap failed # {}
  BY <1>12, <1>13 DEF N, E, same, fault
<1> QED BY <1>2, <1>11, <1>13 DEF M, D, same, open, read

(* The whole invariant of a job with given paths. *)
JobInv(reach) == TalkInv /\ WalkInv(reach) /\ CountInv /\ CompareInv

(* The whole invariant at the start. *)
LEMMA JobInit == ASSUME NEW reach PROVE Init /\ Apart(o, reach) => JobInv(reach)
BY TalkInit, WalkInit, CountInit, CompareInit DEF JobInv

(* Every step keeps the whole invariant. *)
LEMMA JobStep == ASSUME NEW reach PROVE JobInv(reach) /\ [Next]_vars => JobInv(reach)'
<1> SUFFICES ASSUME JobInv(reach), [Next]_vars PROVE JobInv(reach)'
  OBVIOUS
<1>1. TalkInv /\ WalkInv(reach) /\ CountInv /\ CompareInv
  BY DEF JobInv
<1>2. TalkInv'
  BY <1>1, TalkStep
<1>3. WalkInv(reach)'
  BY <1>1, <1>2, WalkOnce
<1>4. OnceInv'
  BY <1>3 DEF WalkInv
<1>5. CountInv'
  BY <1>1, <1>2, <1>4, CountHolds
<1>6. CompareInv'
  BY <1>1, <1>2, <1>4, CompareHolds
<1> QED BY <1>2, <1>3, <1>5, <1>6 DEF JobInv

(* The same of a run, for any set of paths that holds what the start *)
(* paths reach.                                                      *)
LEMMA JobOf ==
  ASSUME NEW reach
  PROVE  Init /\ Apart(o, reach) /\ [][Next]_vars => [](EndIsComplete /\ VerdictsRight)
<1>1. Init /\ Apart(o, reach) => JobInv(reach)
  BY JobInit
<1>2. JobInv(reach) /\ [Next]_vars => JobInv(reach)'
  BY JobStep
<1>3. JobInv(reach) => EndIsComplete /\ VerdictsRight
  BY EndRight, VerdictsHold DEF JobInv
<1> QED BY <1>1, <1>2, <1>3, PTL

(* When the manager ends every worker is idle, no work is queued and its *)
(* counters are those of what was stat-ed; and the verdicts of a compare *)
(* are right.                                                            *)
THEOREM JobSafe == StartsApart => (Spec => [](EndIsComplete /\ VerdictsRight))
<1> SUFFICES ASSUME StartsApart PROVE Spec => [](EndIsComplete /\ VerdictsRight)
  OBVIOUS
<1>1. Init => \E reach \in SUBSET Path : Apart(o, reach)
  BY DEF Init, StartsApart, Apart
<1>2. ASSUME NEW reach \in SUBSET Path
      PROVE  Init /\ Apart(o, reach) /\ [][Next]_vars => [](EndIsComplete /\ VerdictsRight)
  BY JobOf
<1>3. (\E reach \in SUBSET Path : Apart(o, reach)) /\ Init /\ [][Next]_vars => [](EndIsComplete /\ VerdictsRight)
  BY <1>2
<1> QED BY <1>1, <1>3, PTL DEF Spec

(* The manager of a job ends (manager.c) only when nothing is left to do, *)
(* and no report of a worker is lost: its counters are those of the       *)
(* directories and the parts of files that were stat-ed.                  *)
THEOREM EndIsCompleteSafe == StartsApart => (Spec => []EndIsComplete)
<1>1. StartsApart => (Spec => [](EndIsComplete /\ VerdictsRight))
  BY JobSafe
<1> QED BY <1>1, PTL

(* pfcmp prints one verdict per file at most, MATCHES only for a file    *)
(* that is the same (or that it could not read), differs only for one    *)
(* that is not (or that it could not open), and by the end no file lacks *)
(* the verdict it is due (cmp_workdone, cmp_addchunkfile).               *)
THEOREM VerdictsRightSafe == StartsApart => (Spec => []VerdictsRight)
<1>1. StartsApart => (Spec => [](EndIsComplete /\ VerdictsRight))
  BY JobSafe
<1> QED BY <1>1, PTL
=============================================================================
