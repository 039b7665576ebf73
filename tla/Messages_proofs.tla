--------------------------- MODULE Messages_proofs ---------------------------
(***************************************************************************)
(* Theorems about the message formats, for messages of any number of       *)
(* records, keys and values of any length, and any sizes of the structure  *)
(* and of an int: a message is packed whole or refused, what was packed is *)
(* unpacked, and what was allocated is released.                           *)
(***************************************************************************)
EXTENDS Messages, Induction, SequenceTheorems

-----------------------------------------------------------------------------
(* Sequences one after the other. *)

LEMMA Associative ==
  ASSUME NEW X, NEW s \in Seq(X), NEW t \in Seq(X), NEW u \in Seq(X)
  PROVE  (s \o t) \o u = s \o (t \o u)
<1> DEFINE l == (s \o t) \o u
           r == s \o (t \o u)
<1>1. s \o t \in Seq(X) /\ Len(s \o t) = Len(s) + Len(t)
  OBVIOUS
<1>2. t \o u \in Seq(X) /\ Len(t \o u) = Len(t) + Len(u)
  OBVIOUS
<1>3. l \in Seq(X) /\ Len(l) = Len(s) + Len(t) + Len(u)
  BY <1>1
<1>4. r \in Seq(X) /\ Len(r) = Len(s) + Len(t) + Len(u)
  BY <1>2
<1>5. \A i \in 1 .. Len(s) + Len(t) + Len(u) : l[i] = r[i]
  BY <1>1, <1>2
<1> HIDE DEF l, r
<1>6. l = r
  BY <1>3, <1>4, <1>5, SeqEqual
<1> QED
  BY <1>6 DEF l, r

(* g[i] is the first i sequences of ss, one after the other. *)
Joins(g, ss, X) ==
  /\ g \in [0 .. Len(ss) -> Seq(X)] /\ g[0] = <<>>
  /\ \A i \in 1 .. Len(ss) : g[i] = g[i - 1] \o ss[i]

LEMMA JoinsExist ==
  ASSUME NEW X, NEW ss \in Seq(Seq(X))
  PROVE  \E g : Joins(g, ss, X)
<1> DEFINE n == Len(ss)
           F == [i \in 1 .. n |-> [s \in Seq(X) |-> s \o ss[i]]]
<1>1. n \in Nat /\ \A i \in 1 .. n : ss[i] \in Seq(X)
  OBVIOUS
<1>2. F \in [1 .. n -> [Seq(X) -> Seq(X)]]
  <2>1. \A i \in 1 .. n : \A s \in Seq(X) : s \o ss[i] \in Seq(X)
    BY <1>1
  <2> QED BY <2>1
<1>3. PICK g : Iteration(g, n, Seq(X), <<>>, F)
  <2>1. <<>> \in Seq(X)
    OBVIOUS
  <2> HIDE DEF F, n
  <2> QED BY <1>1, <1>2, <2>1, Iterate
<1>4. \A i \in 1 .. n : g[i] = g[i - 1] \o ss[i]
  <2> SUFFICES ASSUME NEW i \in 1 .. n PROVE g[i] = g[i - 1] \o ss[i]
    OBVIOUS
  <2>1. i - 1 \in 0 .. n
    BY <1>1
  <2>2. g[i] = F[i][g[i - 1]] /\ g[i - 1] \in Seq(X)
    <3> HIDE DEF F, n
    <3> QED BY <1>3, <2>1 DEF Iteration
  <2> QED BY <2>2
<1> QED
  BY <1>3, <1>4 DEF Iteration, Joins

LEMMA JoinsUnique ==
  ASSUME NEW X, NEW ss \in Seq(Seq(X)), NEW f, NEW g, Joins(f, ss, X), Joins(g, ss, X)
  PROVE  \A i \in 0 .. Len(ss) : f[i] = g[i]
<1> DEFINE n == Len(ss)
           S == {i \in 0 .. n : f[i] = g[i]}
<1>1. n \in Nat
  OBVIOUS
<1>2. 0 \in S
  BY <1>1 DEF Joins
<1>3. \A i \in 0 .. n - 1 : i \in S => i + 1 \in S
  <2> SUFFICES ASSUME NEW i \in 0 .. n - 1, f[i] = g[i] PROVE f[i + 1] = g[i + 1]
    BY <1>1
  <2>1. i + 1 \in 1 .. n /\ (i + 1) - 1 = i
    BY <1>1
  <2>2. f[i + 1] = f[i] \o ss[i + 1] /\ g[i + 1] = g[i] \o ss[i + 1]
    BY <2>1 DEF Joins
  <2> QED BY <2>2
<1>4. \A i \in 0 .. n : i \in S
  <2> HIDE DEF S, n
  <2> QED BY <1>1, <1>2, <1>3, UpTo
<1> QED
  BY <1>4

LEMMA Flatten ==
  ASSUME NEW X, NEW ss \in Seq(Seq(X)), NEW g, Joins(g, ss, X)
  PROVE  FlattenSeq(ss) = g[Len(ss)]
<1> DEFINE n == Len(ss)
<1>1. n \in Nat
  OBVIOUS
<1>2. CASE n = 0
  BY <1>2 DEF FlattenSeq, Joins
<1>3. CASE n # 0
  <2> DEFINE Is(h) == h = [i \in 1 .. n |-> IF i = 1 THEN ss[i] ELSE h[i - 1] \o ss[i]]
             h1 == [i \in 1 .. n |-> g[i]]
             h == CHOOSE x : Is(x)
  <2>1. Is(h1)
    <3>1. \A i \in 1 .. n : h1[i] = IF i = 1 THEN ss[i] ELSE h1[i - 1] \o ss[i]
      <4> SUFFICES ASSUME NEW i \in 1 .. n
                   PROVE h1[i] = IF i = 1 THEN ss[i] ELSE h1[i - 1] \o ss[i]
        OBVIOUS
      <4>1. h1[i] = g[i - 1] \o ss[i] /\ ss[i] \in Seq(X)
        BY DEF Joins
      <4>2. CASE i = 1
        <5>1. g[i - 1] = <<>>
          BY <4>2 DEF Joins
        <5> QED BY <4>1, <4>2, <5>1
      <4>3. CASE i # 1
        <5>1. i - 1 \in 1 .. n
          BY <1>1, <4>3
        <5> QED BY <4>1, <4>3, <5>1
      <4> QED BY <4>2, <4>3
    <3> HIDE DEF n
    <3> QED BY <3>1
  <2>2. Is(h)
    <3> HIDE DEF h1, Is
    <3> QED BY <2>1
  <2>3. \A i \in 1 .. n : h[i] = IF i = 1 THEN ss[i] ELSE h[i - 1] \o ss[i]
    <3> HIDE DEF h, n
    <3> QED BY <2>2
  <2>4. FlattenSeq(ss) = h[n]
    BY <1>3 DEF FlattenSeq
  <2> HIDE DEF h
  <2> DEFINE S == {i \in 0 .. n : i = 0 \/ h[i] = g[i]}
  <2>5. 0 \in S
    BY <1>1
  <2>6. \A i \in 0 .. n - 1 : i \in S => i + 1 \in S
    <3> SUFFICES ASSUME NEW i \in 0 .. n - 1, i \in S PROVE h[i + 1] = g[i + 1]
      BY <1>1
    <3>1. i + 1 \in 1 .. n /\ (i + 1) - 1 = i
      BY <1>1
    <3>2. g[i + 1] = g[i] \o ss[i + 1] /\ ss[i + 1] \in Seq(X)
      <4>1. g[i + 1] = g[(i + 1) - 1] \o ss[i + 1]
        BY <3>1 DEF Joins
      <4>2. ss[i + 1] \in Seq(X)
        BY <3>1
      <4> QED BY <3>1, <4>1, <4>2
    <3>3. CASE i = 0
      <4>1. h[i + 1] = ss[i + 1] /\ g[i] = <<>>
        BY <2>3, <3>1, <3>3 DEF Joins
      <4> QED BY <3>2, <4>1
    <3>4. CASE i # 0
      <4>1. h[i + 1] = h[(i + 1) - 1] \o ss[i + 1]
        <5>1. i + 1 # 1
          BY <3>4
        <5> HIDE DEF n
        <5> QED BY <2>3, <3>1, <5>1
      <4>2. h[i] = g[i]
        BY <3>4
      <4> QED BY <3>1, <3>2, <4>1, <4>2
    <3> QED BY <3>3, <3>4
  <2>7. \A i \in 0 .. n : i \in S
    <3> HIDE DEF S, n
    <3> QED BY <1>1, <2>5, <2>6, UpTo
  <2> QED BY <1>1, <1>3, <2>4, <2>7
<1> QED
  BY <1>2, <1>3

LEMMA FlattenType ==
  ASSUME NEW X, NEW ss \in Seq(Seq(X))
  PROVE  FlattenSeq(ss) \in Seq(X)
<1>1. PICK g : Joins(g, ss, X)
  BY JoinsExist
<1>2. FlattenSeq(ss) = g[Len(ss)]
  BY <1>1, Flatten
<1>3. Len(ss) \in 0 .. Len(ss)
  OBVIOUS
<1> QED
  BY <1>1, <1>2, <1>3 DEF Joins

LEMMA FlattenNone == FlattenSeq(<<>>) = <<>>
BY DEF FlattenSeq

(* One more sequence at the end. *)
LEMMA FlattenAppend ==
  ASSUME NEW X, NEW ss \in Seq(Seq(X)), NEW s \in Seq(X)
  PROVE  FlattenSeq(Append(ss, s)) = FlattenSeq(ss) \o s
<1> DEFINE n == Len(ss)
           t == Append(ss, s)
<1>1. n \in Nat /\ t \in Seq(Seq(X)) /\ Len(t) = n + 1 /\ t[n + 1] = s
      /\ \A i \in 1 .. n : t[i] = ss[i]
  OBVIOUS
<1>2. PICK g : Joins(g, t, X)
  BY <1>1, JoinsExist
<1> DEFINE f == [i \in 0 .. n |-> g[i]]
<1>3. Joins(f, ss, X)
  <2>1. f \in [0 .. n -> Seq(X)] /\ f[0] = <<>>
    BY <1>1, <1>2 DEF Joins
  <2>2. \A i \in 1 .. n : f[i] = f[i - 1] \o ss[i]
    <3> SUFFICES ASSUME NEW i \in 1 .. n PROVE f[i] = f[i - 1] \o ss[i]
      OBVIOUS
    <3>1. g[i] = g[i - 1] \o t[i]
      <4>1. i \in 1 .. Len(t)
        BY <1>1
      <4> HIDE DEF t, n
      <4> QED BY <1>2, <4>1 DEF Joins
    <3>2. i - 1 \in 0 .. n /\ i \in 0 .. n
      BY <1>1
    <3> HIDE DEF t
    <3> QED BY <1>1, <3>1, <3>2
  <2> HIDE DEF f
  <2> QED BY <2>1, <2>2 DEF Joins
<1>4. FlattenSeq(ss) = g[n]
  <2>1. FlattenSeq(ss) = f[n]
    <3> HIDE DEF f
    <3> QED BY <1>3, Flatten
  <2> QED BY <1>1, <2>1
<1>5. FlattenSeq(t) = g[n + 1] /\ g[n + 1] = g[n] \o t[n + 1]
  <2>1. FlattenSeq(t) = g[Len(t)]
    BY <1>1, <1>2, Flatten
  <2>2. n + 1 \in 1 .. Len(t) /\ (n + 1) - 1 = n
    BY <1>1
  <2>3. g[n + 1] = g[(n + 1) - 1] \o t[n + 1]
    <3> HIDE DEF n, t
    <3> QED BY <1>2, <2>2 DEF Joins
  <2> QED BY <1>1, <2>1, <2>2, <2>3
<1> QED
  BY <1>1, <1>4, <1>5

(* A sequence up to i, and with one element more. *)
LEMMA UpToNext ==
  ASSUME NEW A, NEW t \in Seq(A), NEW i \in 0 .. Len(t) - 1
  PROVE  /\ SubSeq(t, 1, i) \in Seq(A) /\ i + 1 \in 1 .. Len(t) /\ t[i + 1] \in A
         /\ SubSeq(t, 1, i + 1) = Append(SubSeq(t, 1, i), t[i + 1])
<1>1. i + 1 \in 1 .. Len(t) /\ t[i + 1] \in A
  OBVIOUS
<1>2. SubSeq(t, 1, i) \in Seq(A) /\ Len(SubSeq(t, 1, i)) = i
  OBVIOUS
<1>3. SubSeq(t, 1, i + 1) \in Seq(A) /\ Len(SubSeq(t, 1, i + 1)) = i + 1
  OBVIOUS
<1>4. Append(SubSeq(t, 1, i), t[i + 1]) \in Seq(A) /\ Len(Append(SubSeq(t, 1, i), t[i + 1])) = i + 1
  BY <1>1, <1>2
<1>5. \A j \in 1 .. i + 1 : SubSeq(t, 1, i + 1)[j] = Append(SubSeq(t, 1, i), t[i + 1])[j]
  OBVIOUS
<1> QED
  BY <1>1, <1>2, <1>3, <1>4, <1>5, SeqEqual

LEMMA ConcatAppend ==
  ASSUME NEW Y, NEW s \in Seq(Y), NEW p \in Seq(Y), NEW e \in Y
  PROVE  s \o Append(p, e) = Append(s \o p, e) /\ s \o p \in Seq(Y)
OBVIOUS

LEMMA FlattenConcat ==
  ASSUME NEW X, NEW s \in Seq(Seq(X)), NEW t \in Seq(Seq(X))
  PROVE  FlattenSeq(s \o t) = FlattenSeq(s) \o FlattenSeq(t)
<1> DEFINE n == Len(t)
           P(i) == SubSeq(t, 1, i)
           T == {i \in 0 .. n : FlattenSeq(s \o P(i)) = FlattenSeq(s) \o FlattenSeq(P(i))}
<1>1. n \in Nat
  OBVIOUS
<1>s. FlattenSeq(s) \in Seq(X)
  BY FlattenType
<1>2. 0 \in T
  <2>1. P(0) = <<>> /\ s \o <<>> = s
    OBVIOUS
  <2>2. FlattenSeq(s) \o <<>> = FlattenSeq(s)
    BY <1>s, ConcatEmptySeq
  <2>3. FlattenSeq(s \o P(0)) = FlattenSeq(s) \o FlattenSeq(P(0))
    <3> HIDE DEF P
    <3> QED BY <2>1, <2>2, FlattenNone, Zenon
  <2>4. 0 \in 0 .. n
    BY <1>1
  <2> HIDE DEF P, n
  <2> QED BY <2>3, <2>4
<1>3. \A i \in 0 .. n - 1 : i \in T => i + 1 \in T
  <2> SUFFICES ASSUME NEW i \in 0 .. n - 1, i \in T
               PROVE  FlattenSeq(s \o P(i + 1)) = FlattenSeq(s) \o FlattenSeq(P(i + 1))
    <3>1. \A i \in 0 .. n - 1 : i + 1 \in 0 .. n
      BY <1>1
    <3> HIDE DEF P, n
    <3> QED BY <3>1
  <2>1. P(i) \in Seq(Seq(X)) /\ t[i + 1] \in Seq(X) /\ P(i + 1) = Append(P(i), t[i + 1])
    BY UpToNext
  <2> DEFINE e == t[i + 1]
             p == P(i)
  <2>2. e \in Seq(X) /\ p \in Seq(Seq(X)) /\ P(i + 1) = Append(p, e)
    BY <2>1
  <2>3. FlattenSeq(s \o p) = FlattenSeq(s) \o FlattenSeq(p)
    OBVIOUS
  <2> HIDE DEF e, p, P, T
  <2>4. s \o Append(p, e) = Append(s \o p, e) /\ s \o p \in Seq(Seq(X))
    BY <2>2, ConcatAppend
  <2>5. FlattenSeq(Append(s \o p, e)) = FlattenSeq(s \o p) \o e
    BY <2>2, <2>4, FlattenAppend
  <2>6. FlattenSeq(Append(p, e)) = FlattenSeq(p) \o e /\ FlattenSeq(p) \in Seq(X)
    BY <2>2, FlattenAppend, FlattenType
  <2>7. (FlattenSeq(s) \o FlattenSeq(p)) \o e = FlattenSeq(s) \o (FlattenSeq(p) \o e)
    <3> DEFINE x == FlattenSeq(s)
               y == FlattenSeq(p)
    <3>1. x \in Seq(X) /\ y \in Seq(X) /\ e \in Seq(X)
      BY <1>s, <2>2, <2>6
    <3> HIDE DEF x, y
    <3>2. (x \o y) \o e = x \o (y \o e)
      <4>1. (x \o y) \in Seq(X) /\ (y \o e) \in Seq(X)
        BY <3>1
      <4> DEFINE l == (x \o y) \o e
                 r == x \o (y \o e)
      <4>2. l \in Seq(X) /\ Len(l) = Len(x) + Len(y) + Len(e)
        BY <3>1
      <4>3. r \in Seq(X) /\ Len(r) = Len(x) + Len(y) + Len(e)
        BY <3>1
      <4>4. \A j \in 1 .. Len(x) + Len(y) + Len(e) : l[j] = r[j]
        BY <3>1
      <4> HIDE DEF l, r
      <4>5. l = r
        BY <4>2, <4>3, <4>4, SeqEqual
      <4> QED BY <4>5 DEF l, r
    <3> QED BY <3>2 DEF x, y
  <2> QED BY <2>2, <2>3, <2>4, <2>5, <2>6, <2>7
<1>4. n \in T
  <2>1. n \in 0 .. n
    BY <1>1
  <2> HIDE DEF T, n
  <2> QED BY <1>1, <1>2, <1>3, <2>1, UpTo
<1>5. P(n) = t
  OBVIOUS
<1> HIDE DEF P
<1> QED
  BY <1>4, <1>5

(* Flattened in pieces, then flattened. *)
LEMMA FlattenFlatten ==
  ASSUME NEW X, NEW sss \in Seq(Seq(Seq(X)))
  PROVE  FlattenSeq(FlattenSeq(sss)) = FlattenSeq([j \in 1 .. Len(sss) |-> FlattenSeq(sss[j])])
<1> DEFINE n == Len(sss)
           P(i) == SubSeq(sss, 1, i)
           Q(i) == [j \in 1 .. i |-> FlattenSeq(sss[j])]
           T == {i \in 0 .. n : FlattenSeq(FlattenSeq(P(i))) = FlattenSeq(Q(i))}
<1>1. n \in Nat
  OBVIOUS
<1>q. \A j \in 1 .. n : sss[j] \in Seq(Seq(X)) /\ FlattenSeq(sss[j]) \in Seq(X)
  <2> SUFFICES ASSUME NEW j \in 1 .. n PROVE sss[j] \in Seq(Seq(X)) /\ FlattenSeq(sss[j]) \in Seq(X)
    OBVIOUS
  <2>1. sss[j] \in Seq(Seq(X))
    OBVIOUS
  <2> QED BY <2>1, FlattenType
<1>2. 0 \in T
  <2>1. P(0) = <<>> /\ Q(0) = <<>>
    OBVIOUS
  <2> HIDE DEF P, Q
  <2> QED BY <1>1, <2>1, FlattenNone
<1>3. \A i \in 0 .. n - 1 : i \in T => i + 1 \in T
  <2> SUFFICES ASSUME NEW i \in 0 .. n - 1, FlattenSeq(FlattenSeq(P(i))) = FlattenSeq(Q(i))
               PROVE  FlattenSeq(FlattenSeq(P(i + 1))) = FlattenSeq(Q(i + 1))
    <3>1. \A i \in 0 .. n - 1 : i + 1 \in 0 .. n
      BY <1>1
    <3> HIDE DEF P, Q, n
    <3> QED BY <3>1
  <2> DEFINE e == sss[i + 1]
             p == P(i)
             q == Q(i)
  <2>1. p \in Seq(Seq(Seq(X))) /\ e \in Seq(Seq(X)) /\ P(i + 1) = Append(p, e)
    BY UpToNext
  <2>2. q \in Seq(Seq(X)) /\ FlattenSeq(e) \in Seq(X) /\ Q(i + 1) = Append(q, FlattenSeq(e))
    <3>1. i \in Nat /\ i + 1 \in 1 .. n /\ 1 .. i \subseteq 1 .. n /\ 1 .. i + 1 \subseteq 1 .. n
      BY <1>1
    <3>2. q \in Seq(Seq(X)) /\ Len(q) = i /\ Q(i + 1) \in Seq(Seq(X)) /\ Len(Q(i + 1)) = i + 1
      <4> DEFINE Y == Seq(X)
      <4>1. \A j \in 1 .. n : FlattenSeq(sss[j]) \in Y
        BY <1>q
      <4> HIDE DEF Y, n
      <4>2. \A j \in 1 .. i : FlattenSeq(sss[j]) \in Y
        BY <3>1, <4>1
      <4>3. \A j \in 1 .. i + 1 : FlattenSeq(sss[j]) \in Y
        BY <3>1, <4>1
      <4>4. q \in Seq(Y) /\ Len(q) = i
        BY <3>1, <4>2
      <4>5. Q(i + 1) \in Seq(Y) /\ Len(Q(i + 1)) = i + 1
        BY <3>1, <4>3
      <4> QED BY <4>4, <4>5 DEF Y
    <3>3. FlattenSeq(e) \in Seq(X)
      BY <1>q, <3>1
    <3>4. \A j \in 1 .. i + 1 : Q(i + 1)[j] = IF j <= i THEN q[j] ELSE FlattenSeq(e)
      BY <3>1
    <3> HIDE DEF q, Q, e
    <3>5. Append(q, FlattenSeq(e)) \in Seq(Seq(X)) /\ Len(Append(q, FlattenSeq(e))) = i + 1
          /\ \A j \in 1 .. i + 1 : Append(q, FlattenSeq(e))[j] = IF j <= i THEN q[j] ELSE FlattenSeq(e)
      BY <3>1, <3>2, <3>3
    <3> QED BY <3>1, <3>2, <3>3, <3>4, <3>5, SeqEqual
  <2>3. FlattenSeq(FlattenSeq(p)) = FlattenSeq(q)
    OBVIOUS
  <2> HIDE DEF e, p, q, P, Q
  <2>4. FlattenSeq(Append(p, e)) = FlattenSeq(p) \o e
    BY <2>1, FlattenAppend
  <2>5. FlattenSeq(p) \in Seq(Seq(X))
    BY <2>1, FlattenType
  <2>6. FlattenSeq(FlattenSeq(p) \o e) = FlattenSeq(FlattenSeq(p)) \o FlattenSeq(e)
    BY <2>1, <2>5, FlattenConcat
  <2>7. FlattenSeq(Append(q, FlattenSeq(e))) = FlattenSeq(q) \o FlattenSeq(e)
    BY <2>2, FlattenAppend
  <2> QED BY <2>1, <2>2, <2>3, <2>4, <2>6, <2>7
<1>4. n \in T
  <2>1. n \in 0 .. n
    BY <1>1
  <2> HIDE DEF T, n
  <2> QED BY <1>1, <1>2, <1>3, <2>1, UpTo
<1>5. P(n) = sss
  OBVIOUS
<1> HIDE DEF P
<1> QED
  BY <1>4, <1>5

LEMMA FlattenOne ==
  ASSUME NEW X, NEW a \in Seq(X)
  PROVE  FlattenSeq(<<a>>) = a
<1>1. <<a>> = Append(<<>>, a) /\ <<>> \in Seq(Seq(X))
  OBVIOUS
<1>2. FlattenSeq(<<a>>) = <<>> \o a
  BY <1>1, FlattenAppend, FlattenNone
<1> QED
  BY <1>2

LEMMA FlattenTwo ==
  ASSUME NEW X, NEW a \in Seq(X), NEW b \in Seq(X)
  PROVE  FlattenSeq(<<a, b>>) = a \o b
<1>1. <<a, b>> = Append(<<a>>, b) /\ <<a>> \in Seq(Seq(X))
  OBVIOUS
<1>2. FlattenSeq(<<a, b>>) = FlattenSeq(<<a>>) \o b
  BY <1>1, FlattenAppend
<1> QED
  BY <1>2, FlattenOne

LEMMA FlattenAny ==
  ASSUME NEW X, NEW a \in Seq(X)
  PROVE  IfAny(a) \in Seq(Seq(X)) /\ FlattenSeq(IfAny(a)) = a
<1>1. CASE a = <<>>
  <2>1. IfAny(a) = <<>>
    BY <1>1 DEF IfAny
  <2>2. <<>> \in Seq(Seq(X))
    OBVIOUS
  <2> QED BY <1>1, <2>1, <2>2, FlattenNone, Zenon
<1>2. CASE a # <<>>
  <2>1. IfAny(a) = <<a>>
    BY <1>2 DEF IfAny
  <2>2. FlattenSeq(<<a>>) = a
    BY FlattenOne
  <2>3. <<a>> \in Seq(Seq(X))
    OBVIOUS
  <2> QED BY <2>1, <2>2, <2>3, Zenon
<1> QED
  BY <1>1, <1>2

(* The first sequence, and the others. *)
LEMMA FlattenHead ==
  ASSUME NEW X, NEW ss \in Seq(Seq(X)), ss # <<>>
  PROVE  /\ Head(ss) \in Seq(X) /\ Tail(ss) \in Seq(Seq(X))
         /\ FlattenSeq(ss) = Head(ss) \o FlattenSeq(Tail(ss))
<1> DEFINE h == Head(ss)
           t == Tail(ss)
<1>1. h \in Seq(X) /\ t \in Seq(Seq(X))
  OBVIOUS
<1>2. ss = <<h>> \o t
  OBVIOUS
<1> HIDE DEF h, t
<1>3. <<h>> \in Seq(Seq(X))
  BY <1>1
<1>4. FlattenSeq(<<h>> \o t) = FlattenSeq(<<h>>) \o FlattenSeq(t)
  BY <1>1, <1>3, FlattenConcat
<1>5. FlattenSeq(<<h>>) = h
  BY <1>1, FlattenOne
<1>6. FlattenSeq(ss) = h \o FlattenSeq(t)
  BY <1>2, <1>4, <1>5
<1> QED
  BY <1>1, <1>6 DEF h, t

-----------------------------------------------------------------------------
(* The bytes of a message. *)

Names == {"header", "key", "value", "key_len", "value_len"}

Cell == Names \X Nat \X Nat \X Int

LEMMA Constants ==
  /\ HdrLen \in Nat /\ HdrLen >= 1 /\ IntLen \in Nat /\ IntLen >= 1 /\ MaxMsg \in Nat
  /\ Lens \subseteq Nat /\ \A n \in Lens : n <= MaxMsg
BY MessagesAssumption

LEMMA FieldType ==
  ASSUME NEW f \in Names, NEW i \in Nat, NEW n \in Nat, NEW v \in Int
  PROVE  /\ Field(f, i, n, v) \in Seq(Cell) /\ Len(Field(f, i, n, v)) = n
         /\ \A j \in 1 .. n : Field(f, i, n, v)[j] = <<f, i, j, v>>
<1> DEFINE F == Field(f, i, n, v)
<1>1. F = [j \in 1 .. n |-> <<f, i, j, v>>]
  BY DEF Field
<1>2. \A j \in 1 .. n : <<f, i, j, v>> \in Cell
  <2> SUFFICES ASSUME NEW j \in 1 .. n PROVE <<f, i, j, v>> \in Cell
    OBVIOUS
  <2>1. j \in Nat
    OBVIOUS
  <2> QED BY <2>1 DEF Cell
<1> HIDE DEF F, Cell
<1>3. \A j \in 1 .. n : F[j] = <<f, i, j, v>>
  BY <1>1
<1>4. F \in [1 .. n -> Cell]
  BY <1>1, <1>2, <1>3
<1>5. F \in Seq(Cell) /\ Len(F) = n
  BY <1>4
<1> QED
  BY <1>3, <1>5 DEF F

LEMMA MessageFacts ==
  ASSUME NEW m \in Message
  PROVE  /\ m.mtype \in Single \cup Bulk \cup Bare
         /\ Len(m.recs) \in Nat /\ DOMAIN m.recs = 1 .. Len(m.recs)
         /\ m.mtype \in Single => Len(m.recs) = 1
         /\ m.mtype \in Bare => m.recs = <<>> /\ Len(m.recs) = 0
         /\ \A i \in 1 .. Len(m.recs) :
              /\ m.recs[i].key_len \in Lens
              /\ m.mtype \in WithValue => m.recs[i].value_len \in Lens
              /\ m.mtype \notin WithValue => m.recs[i].value_len = 0
<1>0. \/ \E t \in Single : m \in [mtype : {t}, recs : [1 .. 1 -> Record(t)]]
      \/ \E t \in Bulk, n \in 0 .. MaxRecords : m \in [mtype : {t}, recs : [1 .. n -> Record(t)]]
      \/ m \in [mtype : Bare, recs : {<<>>}]
  <2> DEFINE A == UNION {[mtype : {t}, recs : [1 .. 1 -> Record(t)]] : t \in Single}
             B == UNION {[mtype : {t}, recs : [1 .. n -> Record(t)]] : t \in Bulk, n \in 0 .. MaxRecords}
             C == [mtype : Bare, recs : {<<>>}]
  <2>1. m \in A \/ m \in B \/ m \in C
    <3> HIDE DEF A, B, C
    <3>1. Message = A \cup B \cup C
      BY DEF Message, A, B, C
    <3> QED BY <3>1
  <2>2. m \in A => \E t \in Single : m \in [mtype : {t}, recs : [1 .. 1 -> Record(t)]]
    BY Zenon
  <2>3. m \in B => \E t \in Bulk, n \in 0 .. MaxRecords : m \in [mtype : {t}, recs : [1 .. n -> Record(t)]]
    <3> SUFFICES ASSUME m \in B
                 PROVE  \E t \in Bulk, n \in 0 .. MaxRecords : m \in [mtype : {t}, recs : [1 .. n -> Record(t)]]
      OBVIOUS
    <3>1. PICK S \in {[mtype : {t}, recs : [1 .. n -> Record(t)]] : t \in Bulk, n \in 0 .. MaxRecords} : m \in S
      <4> DEFINE SS == {[mtype : {t}, recs : [1 .. n -> Record(t)]] : t \in Bulk, n \in 0 .. MaxRecords}
      <4>1. m \in UNION SS
        OBVIOUS
      <4> HIDE DEF SS
      <4>2. \E S \in SS : m \in S
        BY <4>1
      <4> QED BY <4>2 DEF SS
    <3>2. PICK t \in Bulk, n \in 0 .. MaxRecords : S = [mtype : {t}, recs : [1 .. n -> Record(t)]]
      OBVIOUS
    <3>3. m \in [mtype : {t}, recs : [1 .. n -> Record(t)]]
      BY <3>1, <3>2
    <3> QED BY <3>3
  <2> HIDE DEF A, B
  <2> QED BY <2>1, <2>2, <2>3
<1>1. CASE \E t \in Single : m \in [mtype : {t}, recs : [1 .. 1 -> Record(t)]]
  <2>1. PICK t \in Single : m \in [mtype : {t}, recs : [1 .. 1 -> Record(t)]]
    BY <1>1
  <2>2. m.mtype = t /\ m.recs \in [1 .. 1 -> Record(t)]
    BY <2>1
  <2>3. Len(m.recs) = 1 /\ DOMAIN m.recs = 1 .. 1
    BY <2>2
  <2>4. m.recs[1] \in Record(t)
    BY <2>2
  <2>5. t \notin Bare
    BY <2>1 DEF Single, Bare
  <2> QED BY <2>2, <2>3, <2>4, <2>5 DEF Record
<1>2. CASE \E t \in Bulk, n \in 0 .. MaxRecords : m \in [mtype : {t}, recs : [1 .. n -> Record(t)]]
  <2>1. PICK t \in Bulk, n \in 0 .. MaxRecords : m \in [mtype : {t}, recs : [1 .. n -> Record(t)]]
    BY <1>2
  <2>2. m.mtype = t /\ m.recs \in [1 .. n -> Record(t)] /\ n \in Nat
    BY <2>1, MessagesAssumption
  <2>3. Len(m.recs) = n /\ DOMAIN m.recs = 1 .. n
    BY <2>2
  <2>4. \A i \in 1 .. n : m.recs[i] \in Record(t)
    BY <2>2
  <2>5. t \notin Bare /\ t \notin Single
    BY <2>1 DEF Single, Bare, Bulk
  <2> QED BY <2>2, <2>3, <2>4, <2>5 DEF Record
<1>3. CASE m \in [mtype : Bare, recs : {<<>>}]
  <2>1. m.mtype \in Bare /\ m.recs = <<>>
    BY <1>3
  <2>2. m.mtype \notin Single
    BY <2>1 DEF Single, Bare
  <2> QED BY <2>1, <2>2
<1> QED
  BY <1>0, <1>1, <1>2, <1>3

(* The bytes of record i, and of the first r records. *)
RecCells(m, i) ==
  CASE m.mtype \in {"put", "getrm"} -> Key(m, i) \o Value(m, i)
    [] m.mtype \in {"get", "del"} -> Key(m, i)
    [] m.mtype \in {"bput", "bgetrm"} -> ((KeyLen(m, i) \o Key(m, i)) \o ValueLen(m, i)) \o Value(m, i)
    [] m.mtype \in {"bget", "bdel"} -> KeyLen(m, i) \o Key(m, i)

Body(m, r) == FlattenSeq([i \in 1 .. r |-> RecCells(m, i)])

Header(m) == Field("header", 0, HdrLen, Pack(m).size)

LEMMA FieldTypes ==
  ASSUME NEW m \in Message, NEW i \in 1 .. Len(m.recs)
  PROVE  /\ m.recs[i].key_len \in Nat /\ m.recs[i].key_len <= MaxMsg
         /\ m.recs[i].value_len \in Nat /\ m.recs[i].value_len <= MaxMsg
         /\ Key(m, i) \in Seq(Cell) /\ Len(Key(m, i)) = m.recs[i].key_len
         /\ Value(m, i) \in Seq(Cell) /\ Len(Value(m, i)) = m.recs[i].value_len
         /\ KeyLen(m, i) \in Seq(Cell) /\ Len(KeyLen(m, i)) = IntLen
         /\ ValueLen(m, i) \in Seq(Cell) /\ Len(ValueLen(m, i)) = IntLen
<1>1. /\ m.recs[i].key_len \in Nat /\ m.recs[i].key_len <= MaxMsg
      /\ m.recs[i].value_len \in Nat /\ m.recs[i].value_len <= MaxMsg
  <2>1. m.recs[i].key_len \in Lens /\ (m.recs[i].value_len \in Lens \/ m.recs[i].value_len = 0)
    BY MessageFacts
  <2> DEFINE k == m.recs[i].key_len
             v == m.recs[i].value_len
  <2>2. k \in Lens /\ (v \in Lens \/ v = 0)
    BY <2>1
  <2> HIDE DEF k, v
  <2>3. k \in Nat /\ k <= MaxMsg /\ v \in Nat /\ v <= MaxMsg
    <3>1. k \in Nat /\ k <= MaxMsg /\ 0 <= MaxMsg
      BY <2>2, Constants
    <3>2. v \in Lens => v \in Nat /\ v <= MaxMsg
      BY Constants
    <3> QED BY <2>2, <3>1, <3>2
  <2> QED BY <2>3 DEF k, v
<1>2. i \in Nat /\ IntLen \in Nat
  BY MessageFacts, Constants
<1> DEFINE kl == m.recs[i].key_len
           vl == m.recs[i].value_len
<1>3. kl \in Nat /\ vl \in Nat /\ kl \in Int /\ vl \in Int /\ 0 \in Int
  BY <1>1
<1>4. /\ Key(m, i) = Field("key", i, kl, 0) /\ Value(m, i) = Field("value", i, vl, 0)
      /\ KeyLen(m, i) = Field("key_len", i, IntLen, kl) /\ ValueLen(m, i) = Field("value_len", i, IntLen, vl)
  BY DEF Key, Value, KeyLen, ValueLen
<1>5. "key" \in Names /\ "value" \in Names /\ "key_len" \in Names /\ "value_len" \in Names
  BY DEF Names
<1> HIDE DEF kl, vl
<1>6. Key(m, i) \in Seq(Cell) /\ Len(Key(m, i)) = kl
  BY <1>2, <1>3, <1>4, <1>5, FieldType
<1>7. Value(m, i) \in Seq(Cell) /\ Len(Value(m, i)) = vl
  BY <1>2, <1>3, <1>4, <1>5, FieldType
<1>8. KeyLen(m, i) \in Seq(Cell) /\ Len(KeyLen(m, i)) = IntLen
  BY <1>2, <1>3, <1>4, <1>5, FieldType
<1>9. ValueLen(m, i) \in Seq(Cell) /\ Len(ValueLen(m, i)) = IntLen
  BY <1>2, <1>3, <1>4, <1>5, FieldType
<1> QED
  BY <1>1, <1>6, <1>7, <1>8, <1>9 DEF kl, vl

Kinds == {"put", "getrm", "get", "del", "bput", "bgetrm", "bget", "bdel"}

LEMMA WithRecords ==
  ASSUME NEW m \in Message, Len(m.recs) # 0
  PROVE  m.mtype \in Kinds
BY MessageFacts DEF Single, Bulk, Bare, Kinds

RecLen(m, i) ==
  LET k == m.recs[i].key_len
      v == m.recs[i].value_len
  IN CASE m.mtype \in {"put", "getrm"} -> k + v
       [] m.mtype \in {"get", "del"} -> k
       [] m.mtype \in {"bput", "bgetrm"} -> 2 * IntLen + k + v
       [] m.mtype \in {"bget", "bdel"} -> IntLen + k

LEMMA RecCellsType ==
  ASSUME NEW m \in Message, NEW i \in 1 .. Len(m.recs)
  PROVE  RecCells(m, i) \in Seq(Cell) /\ Len(RecCells(m, i)) = RecLen(m, i) /\ RecLen(m, i) \in Nat
<1> DEFINE a == KeyLen(m, i)
           b == Key(m, i)
           c == ValueLen(m, i)
           d == Value(m, i)
           k == m.recs[i].key_len
           v == m.recs[i].value_len
<1>1. /\ a \in Seq(Cell) /\ Len(a) = IntLen /\ b \in Seq(Cell) /\ Len(b) = k
      /\ c \in Seq(Cell) /\ Len(c) = IntLen /\ d \in Seq(Cell) /\ Len(d) = v
      /\ k \in Nat /\ v \in Nat
  BY FieldTypes
<1>2. m.mtype \in Kinds
  <2>1. Len(m.recs) # 0
    BY MessageFacts
  <2> QED BY <2>1, WithRecords
<1>3. CASE m.mtype \in {"put", "getrm"}
  <2>1. RecCells(m, i) = b \o d /\ RecLen(m, i) = k + v
    BY <1>3 DEF RecCells, RecLen
  <2> HIDE DEF b, d, k, v, Cell
  <2>2. b \o d \in Seq(Cell) /\ Len(b \o d) = Len(b) + Len(d)
    BY <1>1, ConcatProperties
  <2> QED BY <1>1, <2>1, <2>2
<1>4. CASE m.mtype \in {"get", "del"}
  <2>1. RecCells(m, i) = b /\ RecLen(m, i) = k
    BY <1>4 DEF RecCells, RecLen
  <2> HIDE DEF b, k, Cell
  <2> QED BY <1>1, <2>1
<1>5. CASE m.mtype \in {"bput", "bgetrm"}
  <2>1. RecCells(m, i) = ((a \o b) \o c) \o d /\ RecLen(m, i) = 2 * IntLen + k + v
    BY <1>5 DEF RecCells, RecLen
  <2> HIDE DEF a, b, c, d, k, v, Cell
  <2>2. a \o b \in Seq(Cell) /\ Len(a \o b) = Len(a) + Len(b)
    BY <1>1, ConcatProperties
  <2>3. (a \o b) \o c \in Seq(Cell) /\ Len((a \o b) \o c) = Len(a \o b) + Len(c)
    BY <1>1, <2>2, ConcatProperties
  <2>4. ((a \o b) \o c) \o d \in Seq(Cell) /\ Len(((a \o b) \o c) \o d) = Len((a \o b) \o c) + Len(d)
    BY <1>1, <2>3, ConcatProperties
  <2> DEFINE whole == ((a \o b) \o c) \o d
  <2>5. Len(whole) = IntLen + k + IntLen + v
    BY <1>1, <2>2, <2>3, <2>4, Constants
  <2>6. whole \in Seq(Cell) /\ RecCells(m, i) = whole
    BY <2>1, <2>4
  <2> HIDE DEF whole
  <2> QED BY <1>1, <2>1, <2>5, <2>6, Constants
<1>6. CASE m.mtype \in {"bget", "bdel"}
  <2>1. RecCells(m, i) = a \o b /\ RecLen(m, i) = IntLen + k
    BY <1>6 DEF RecCells, RecLen
  <2> HIDE DEF a, b, k, Cell
  <2>2. a \o b \in Seq(Cell) /\ Len(a \o b) = Len(a) + Len(b)
    BY <1>1, ConcatProperties
  <2> QED BY <1>1, <2>1, <2>2, Constants
<1> QED
  BY <1>2, <1>3, <1>4, <1>5, <1>6 DEF Kinds

LEMMA BodySeq ==
  ASSUME NEW m \in Message, NEW r \in 0 .. Len(m.recs)
  PROVE  /\ [i \in 1 .. r |-> RecCells(m, i)] \in Seq(Seq(Cell))
         /\ Body(m, r) \in Seq(Cell)
<1> DEFINE Y == Seq(Cell)
           R == [i \in 1 .. r |-> RecCells(m, i)]
<1>1. r \in Nat /\ \A i \in 1 .. r : i \in 1 .. Len(m.recs)
  BY MessageFacts
<1>2. \A i \in 1 .. r : RecCells(m, i) \in Y
  BY <1>1, RecCellsType
<1> HIDE DEF Y
<1>3. R \in Seq(Y)
  BY <1>1, <1>2
<1> HIDE DEF R
<1>4. FlattenSeq(R) \in Seq(Cell)
  BY <1>3, FlattenType DEF Y
<1> QED
  BY <1>3, <1>4 DEF Body, R, Y

LEMMA BodyNone == ASSUME NEW m PROVE Body(m, 0) = <<>>
<1>1. [i \in 1 .. 0 |-> RecCells(m, i)] = <<>>
  OBVIOUS
<1> QED
  BY <1>1, FlattenNone DEF Body

LEMMA BodyNext ==
  ASSUME NEW m \in Message, NEW r \in 1 .. Len(m.recs)
  PROVE  /\ Body(m, r) = Body(m, r - 1) \o RecCells(m, r)
         /\ Len(Body(m, r)) = Len(Body(m, r - 1)) + RecLen(m, r)
<1> DEFINE Y == Seq(Cell)
           P == [i \in 1 .. r - 1 |-> RecCells(m, i)]
           R == [i \in 1 .. r |-> RecCells(m, i)]
           e == RecCells(m, r)
<1>1. r \in Nat /\ r - 1 \in 0 .. Len(m.recs) /\ r \in 0 .. Len(m.recs)
  BY MessageFacts
<1>2. P \in Seq(Y) /\ R \in Seq(Y) /\ Body(m, r - 1) \in Y
  BY <1>1, BodySeq
<1>3. e \in Y /\ Len(e) = RecLen(m, r)
  BY RecCellsType
<1>4. Len(P) = r - 1 /\ Len(R) = r /\ \A i \in 1 .. r : R[i] = IF i <= r - 1 THEN P[i] ELSE e
  BY <1>1
<1>5. R = Append(P, e)
  <2> HIDE DEF P, R, e, Y
  <2>1. Append(P, e) \in Seq(Y) /\ Len(Append(P, e)) = r
        /\ \A i \in 1 .. r : Append(P, e)[i] = IF i <= r - 1 THEN P[i] ELSE e
    BY <1>1, <1>2, <1>3, <1>4
  <2> QED BY <1>2, <1>4, <2>1, SeqEqual
<1>6. FlattenSeq(Append(P, e)) = FlattenSeq(P) \o e
  <2> HIDE DEF P, e
  <2> QED BY <1>2, <1>3, FlattenAppend
<1>7. Body(m, r) = FlattenSeq(R) /\ Body(m, r - 1) = FlattenSeq(P)
  BY DEF Body
<1> DEFINE b == Body(m, r - 1)
<1> HIDE DEF P, R, e
<1>8. Body(m, r) = b \o e
  BY <1>5, <1>6, <1>7
<1> HIDE DEF b
<1>9. Len(b \o e) = Len(b) + Len(e)
  <2>1. b \in Seq(Cell) /\ e \in Seq(Cell)
    BY <1>2, <1>3 DEF b
  <2> QED BY <2>1
<1>10. Len(Body(m, r)) = Len(b) + RecLen(m, r)
  BY <1>3, <1>8, <1>9
<1> QED
  BY <1>8, <1>10 DEF b, e

(* What was packed of the first records is where it was when all are packed. *)
LEMMA BodyPrefix ==
  ASSUME NEW m \in Message, NEW r \in 0 .. Len(m.recs)
  PROVE  /\ Len(Body(m, r)) <= Len(Body(m, Len(m.recs)))
         /\ \A j \in 1 .. Len(Body(m, r)) : Body(m, Len(m.recs))[j] = Body(m, r)[j]
<1> DEFINE n == Len(m.recs)
           Pre(x, y) == Len(x) <= Len(y) /\ \A j \in 1 .. Len(x) : y[j] = x[j]
           T == {d \in 0 .. n - r : Pre(Body(m, r), Body(m, r + d))}
<1>1. n \in Nat /\ r \in Nat /\ n - r \in Nat /\ r + (n - r) = n
  BY MessageFacts
<1>2. 0 \in T
  <2>1. Body(m, r) \in Seq(Cell) /\ r + 0 = r
    BY <1>1, BodySeq
  <2> QED BY <1>1, <2>1
<1>3. \A d \in 0 .. (n - r) - 1 : d \in T => d + 1 \in T
  <2> SUFFICES ASSUME NEW d \in 0 .. (n - r) - 1, Pre(Body(m, r), Body(m, r + d))
               PROVE  Pre(Body(m, r), Body(m, r + (d + 1)))
    BY <1>1
  <2> DEFINE x == Body(m, r)
             y == Body(m, r + d)
             e == RecCells(m, r + (d + 1))
  <2>1. r + (d + 1) \in 1 .. n /\ (r + (d + 1)) - 1 = r + d /\ r + d \in 0 .. n
    BY <1>1
  <2>2. Body(m, r + (d + 1)) = y \o e
    BY <2>1, BodyNext
  <2>3. x \in Seq(Cell) /\ y \in Seq(Cell) /\ e \in Seq(Cell)
    BY <2>1, BodySeq, RecCellsType
  <2>4. Pre(x, y)
    OBVIOUS
  <2> HIDE DEF x, y, e
  <2>5. Pre(x, y \o e)
    BY <2>3, <2>4
  <2> QED BY <2>2, <2>5 DEF x
<1>4. n - r \in T
  <2>1. n - r \in 0 .. n - r
    BY <1>1
  <2> HIDE DEF T, n
  <2> QED BY <1>1, <1>2, <1>3, <2>1, UpTo
<1>5. Pre(Body(m, r), Body(m, n))
  BY <1>1, <1>4
<1> QED
  BY <1>5

-----------------------------------------------------------------------------
(* What the pack functions pack. *)

RecFields(m, i) ==
  CASE m.mtype = "put" -> <<Key(m, i), Value(m, i)>>
    [] m.mtype = "getrm" -> IfAny(Key(m, i)) \o IfAny(Value(m, i))
    [] m.mtype \in {"get", "del"} -> <<Key(m, i)>>
    [] m.mtype = "bput" -> <<KeyLen(m, i), Key(m, i), ValueLen(m, i), Value(m, i)>>
    [] m.mtype = "bgetrm" -> <<KeyLen(m, i)>> \o IfAny(Key(m, i)) \o <<ValueLen(m, i)>> \o IfAny(Value(m, i))
    [] m.mtype \in {"bget", "bdel"} -> <<KeyLen(m, i), Key(m, i)>>

LEMMA RecFieldsFlat ==
  ASSUME NEW m \in Message, NEW i \in 1 .. Len(m.recs)
  PROVE  RecFields(m, i) \in Seq(Seq(Cell)) /\ FlattenSeq(RecFields(m, i)) = RecCells(m, i)
<1> DEFINE a == KeyLen(m, i)
           b == Key(m, i)
           c == ValueLen(m, i)
           d == Value(m, i)
           Y == Seq(Cell)
<1>1. a \in Y /\ b \in Y /\ c \in Y /\ d \in Y
  BY FieldTypes
<1>2. m.mtype \in Kinds
  <2>1. Len(m.recs) # 0
    BY MessageFacts
  <2> QED BY <2>1, WithRecords
<1>t. /\ FlattenSeq(<<b>>) = b /\ FlattenSeq(<<b, d>>) = b \o d /\ FlattenSeq(<<a, b>>) = a \o b
      /\ FlattenSeq(<<a>>) = a /\ FlattenSeq(<<c>>) = c
      /\ FlattenSeq(<<a, b, c, d>>) = ((a \o b) \o c) \o d
  <2> HIDE DEF a, b, c, d
  <2>1. FlattenSeq(<<a>>) = a /\ FlattenSeq(<<b>>) = b /\ FlattenSeq(<<c>>) = c
    BY <1>1, FlattenOne
  <2>2. FlattenSeq(<<b, d>>) = b \o d
    BY <1>1, FlattenTwo
  <2>3. FlattenSeq(<<a, b>>) = a \o b
    BY <1>1, FlattenTwo
  <2>4. FlattenSeq(<<a, b, c, d>>) = ((a \o b) \o c) \o d
    <3> DEFINE q == <<a, b, c>>
               r == <<a, b, c, d>>
               p == <<a, b>>
    <3>1. p \in Seq(Y) /\ q \in Seq(Y) /\ q = Append(p, c) /\ r = Append(q, d)
      <4> HIDE DEF Y
      <4> QED BY <1>1
    <3>2. FlattenSeq(p) = a \o b
      BY <2>3
    <3> HIDE DEF p, q, r
    <3>3. FlattenSeq(q) = FlattenSeq(p) \o c
      BY <1>1, <3>1, FlattenAppend
    <3>4. FlattenSeq(r) = FlattenSeq(q) \o d
      BY <1>1, <3>1, FlattenAppend
    <3>5. FlattenSeq(r) = ((a \o b) \o c) \o d
      BY <3>2, <3>3, <3>4
    <3> QED BY <3>5 DEF r
  <2> QED BY <2>1, <2>2, <2>3, <2>4
<1>a. /\ IfAny(b) \in Seq(Y) /\ IfAny(d) \in Seq(Y) /\ FlattenSeq(IfAny(b)) = b /\ FlattenSeq(IfAny(d)) = d
  <2> HIDE DEF b, d
  <2> QED BY <1>1, FlattenAny
<1>s. /\ <<b>> \in Seq(Y) /\ <<b, d>> \in Seq(Y) /\ <<a, b>> \in Seq(Y) /\ <<a>> \in Seq(Y)
      /\ <<c>> \in Seq(Y) /\ <<a, b, c, d>> \in Seq(Y)
  <2> HIDE DEF a, b, c, d, Y
  <2> QED BY <1>1
<1>3. CASE m.mtype = "put"
  <2>1. RecFields(m, i) = <<b, d>> /\ RecCells(m, i) = b \o d
    BY <1>3 DEF RecFields, RecCells
  <2> HIDE DEF b, d, Y
  <2> QED BY <2>1, <1>t, <1>s, Zenon DEF Y
<1>4. CASE m.mtype = "getrm"
  <2>1. RecFields(m, i) = IfAny(b) \o IfAny(d) /\ RecCells(m, i) = b \o d
    BY <1>4 DEF RecFields, RecCells
  <2> DEFINE x == IfAny(b)
             y == IfAny(d)
  <2>2. x \in Seq(Y) /\ y \in Seq(Y) /\ FlattenSeq(x) = b /\ FlattenSeq(y) = d
    BY <1>a
  <2> HIDE DEF b, d, x, y
  <2>3. FlattenSeq(x \o y) = FlattenSeq(x) \o FlattenSeq(y)
    BY <2>2, FlattenConcat
  <2>4. x \o y \in Seq(Y)
    BY <2>2, ConcatProperties
  <2>5. FlattenSeq(x \o y) = b \o d
    BY <2>2, <2>3
  <2> QED BY <2>1, <2>4, <2>5 DEF x, y
<1>5. CASE m.mtype \in {"get", "del"}
  <2>1. RecFields(m, i) = <<b>> /\ RecCells(m, i) = b
    BY <1>5 DEF RecFields, RecCells
  <2> HIDE DEF b, Y
  <2> QED BY <2>1, <1>t, <1>s, Zenon DEF Y
<1>6. CASE m.mtype = "bput"
  <2>1. RecFields(m, i) = <<a, b, c, d>> /\ RecCells(m, i) = ((a \o b) \o c) \o d
    BY <1>6 DEF RecFields, RecCells
  <2> DEFINE x == <<a, b, c, d>>
             y == ((a \o b) \o c) \o d
  <2>2. RecFields(m, i) = x /\ RecCells(m, i) = y /\ x \in Seq(Y) /\ FlattenSeq(x) = y
    BY <2>1, <1>t, <1>s
  <2> HIDE DEF x, y
  <2> QED BY <2>2
<1>7. CASE m.mtype = "bgetrm"
  <2> DEFINE x == IfAny(b)
             y == IfAny(d)
             p == <<a>>
             q == <<c>>
  <2>1. RecFields(m, i) = ((p \o x) \o q) \o y /\ RecCells(m, i) = ((a \o b) \o c) \o d
    BY <1>7 DEF RecFields, RecCells
  <2>2. /\ x \in Seq(Y) /\ y \in Seq(Y) /\ FlattenSeq(x) = b /\ FlattenSeq(y) = d
        /\ p \in Seq(Y) /\ q \in Seq(Y) /\ FlattenSeq(p) = a /\ FlattenSeq(q) = c
    BY <1>a, <1>s, <1>t
  <2> HIDE DEF a, b, c, d, x, y, p, q
  <2> DEFINE px == p \o x
             pxq == px \o q
             pxqy == pxq \o y
  <2>3. px \in Seq(Y) /\ FlattenSeq(px) = a \o b
    <3>1. FlattenSeq(p \o x) = FlattenSeq(p) \o FlattenSeq(x)
      BY <2>2, FlattenConcat
    <3>2. p \o x \in Seq(Y)
      BY <2>2, ConcatProperties
    <3> QED BY <2>2, <3>1, <3>2
  <2> HIDE DEF px
  <2>4. pxq \in Seq(Y) /\ FlattenSeq(pxq) = (a \o b) \o c
    <3>1. FlattenSeq(px \o q) = FlattenSeq(px) \o FlattenSeq(q)
      BY <2>2, <2>3, FlattenConcat
    <3>2. px \o q \in Seq(Y)
      BY <2>2, <2>3, ConcatProperties
    <3> QED BY <2>2, <2>3, <3>1, <3>2
  <2> HIDE DEF pxq
  <2>5. pxqy \in Seq(Y) /\ FlattenSeq(pxqy) = ((a \o b) \o c) \o d
    <3>1. FlattenSeq(pxq \o y) = FlattenSeq(pxq) \o FlattenSeq(y)
      BY <2>2, <2>4, FlattenConcat
    <3>2. pxq \o y \in Seq(Y)
      BY <2>2, <2>4, ConcatProperties
    <3> QED BY <2>2, <2>4, <3>1, <3>2
  <2>6. RecFields(m, i) = pxqy
    BY <2>1 DEF px, pxq
  <2> HIDE DEF pxqy
  <2> DEFINE z == ((a \o b) \o c) \o d
  <2>7. RecCells(m, i) = z /\ FlattenSeq(pxqy) = z
    BY <2>1, <2>5
  <2> HIDE DEF z
  <2> QED BY <2>5, <2>6, <2>7
<1>8. CASE m.mtype \in {"bget", "bdel"}
  <2>1. RecFields(m, i) = <<a, b>> /\ RecCells(m, i) = a \o b
    BY <1>8 DEF RecFields, RecCells
  <2> HIDE DEF a, b, Y
  <2> QED BY <2>1, <1>t, <1>s, Zenon DEF Y
<1> QED
  BY <1>2, <1>3, <1>4, <1>5, <1>6, <1>7, <1>8 DEF Kinds

RecordFields(m) == [i \in 1 .. Len(m.recs) |-> RecFields(m, i)]

LEMMA RecordFieldsType ==
  ASSUME NEW m \in Message
  PROVE  /\ RecordFields(m) \in Seq(Seq(Seq(Cell))) /\ Len(RecordFields(m)) = Len(m.recs)
         /\ FlattenSeq(RecordFields(m)) \in Seq(Seq(Cell))
         /\ FlattenSeq(FlattenSeq(RecordFields(m))) = Body(m, Len(m.recs))
<1> DEFINE Y == Seq(Seq(Cell))
           n == Len(m.recs)
           F == RecordFields(m)
<1>1. n \in Nat /\ \A i \in 1 .. n : RecFields(m, i) \in Y /\ FlattenSeq(RecFields(m, i)) = RecCells(m, i)
  BY MessageFacts, RecFieldsFlat
<1> HIDE DEF Y
<1>2. F \in Seq(Y) /\ Len(F) = n /\ \A i \in 1 .. n : F[i] = RecFields(m, i)
  BY <1>1 DEF RecordFields
<1> HIDE DEF F, n
<1>3. F \in Seq(Seq(Seq(Cell)))
  BY <1>2 DEF Y
<1>4. FlattenSeq(F) \in Seq(Seq(Cell))
  BY <1>3, FlattenType
<1>5. FlattenSeq(FlattenSeq(F)) = FlattenSeq([j \in 1 .. Len(F) |-> FlattenSeq(F[j])])
  BY <1>3, FlattenFlatten
<1>6. [j \in 1 .. Len(F) |-> FlattenSeq(F[j])] = [i \in 1 .. n |-> RecCells(m, i)]
  BY <1>1, <1>2
<1>7. FlattenSeq(FlattenSeq(F)) = Body(m, n)
  BY <1>5, <1>6 DEF Body
<1> QED
  BY <1>2, <1>3, <1>4, <1>7 DEF F, n

LEMMA OneRecord ==
  ASSUME NEW m \in Message, Len(m.recs) = 1
  PROVE  FlattenSeq(RecordFields(m)) = RecFields(m, 1)
<1> DEFINE x == RecFields(m, 1)
<1>1. x \in Seq(Seq(Cell))
  <2>1. 1 \in 1 .. Len(m.recs)
    OBVIOUS
  <2> QED BY <2>1, RecFieldsFlat
<1>2. RecordFields(m) = [i \in 1 .. 1 |-> RecFields(m, i)]
  BY DEF RecordFields
<1>3. [i \in 1 .. 1 |-> RecFields(m, i)] = <<x>>
  OBVIOUS
<1> HIDE DEF x
<1>4. FlattenSeq(<<x>>) = x
  BY <1>1, FlattenOne
<1> QED
  BY <1>2, <1>3, <1>4 DEF x

LEMMA PackingIs ==
  ASSUME NEW n, NEW fs, NEW p, p = Packing(n, fs)
  PROVE  p.size = n /\ p.fields = <<Field("header", 0, HdrLen, p.size)>> \o fs
BY DEF Packing

LEMMA PackShape ==
  ASSUME NEW m \in Message
  PROVE  Pack(m).fields = <<Header(m)>> \o FlattenSeq(RecordFields(m))
<1>1. m.mtype \in {"put", "get", "del", "getrm", "bput", "bget", "bdel", "bgetrm", "base", "return"}
  BY MessageFacts DEF Single, Bulk, Bare
<1>2. CASE m.mtype = "put"
  <2>1. Pack(m) = pack_put_message(m) /\ Len(m.recs) = 1
    BY <1>2, MessageFacts DEF Pack, Single
  <2>2. RecFields(m, 1) = <<Key(m, 1), Value(m, 1)>>
    BY <1>2 DEF RecFields
  <2>3. Pack(m).fields = <<Field("header", 0, HdrLen, Pack(m).size)>> \o RecFields(m, 1)
    <3> DEFINE n == HdrLen + KeyAndValue(m, 1)
    <3>1. Pack(m) = Packing(n, RecFields(m, 1))
      BY <2>1, <2>2 DEF pack_put_message
    <3> HIDE DEF n
    <3> QED BY <3>1, PackingIs
  <2> QED BY <2>1, <2>3, OneRecord DEF Header
<1>3. CASE m.mtype = "get"
  <2>1. Pack(m) = pack_get_message(m) /\ Len(m.recs) = 1
    BY <1>3, MessageFacts DEF Pack, Single
  <2>2. RecFields(m, 1) = <<Key(m, 1)>>
    BY <1>3 DEF RecFields
  <2>3. Pack(m).fields = <<Field("header", 0, HdrLen, Pack(m).size)>> \o RecFields(m, 1)
    <3> DEFINE n == HdrLen + m.recs[1].key_len
    <3>1. Pack(m) = Packing(n, RecFields(m, 1))
      BY <2>1, <2>2 DEF pack_get_message
    <3> HIDE DEF n
    <3> QED BY <3>1, PackingIs
  <2> QED BY <2>1, <2>3, OneRecord DEF Header
<1>4. CASE m.mtype = "del"
  <2>1. Pack(m) = pack_del_message(m) /\ Len(m.recs) = 1
    BY <1>4, MessageFacts DEF Pack, Single
  <2>2. RecFields(m, 1) = <<Key(m, 1)>>
    BY <1>4 DEF RecFields
  <2>3. Pack(m).fields = <<Field("header", 0, HdrLen, Pack(m).size)>> \o RecFields(m, 1)
    <3> DEFINE n == HdrLen + m.recs[1].key_len
    <3>1. Pack(m) = Packing(n, RecFields(m, 1))
      BY <2>1, <2>2 DEF pack_del_message
    <3> HIDE DEF n
    <3> QED BY <3>1, PackingIs
  <2> QED BY <2>1, <2>3, OneRecord DEF Header
<1>5. CASE m.mtype = "getrm"
  <2>1. Pack(m) = pack_getrm_message(m) /\ Len(m.recs) = 1
    BY <1>5, MessageFacts DEF Pack, Single
  <2>2. RecFields(m, 1) = IfAny(Key(m, 1)) \o IfAny(Value(m, 1))
    BY <1>5 DEF RecFields
  <2>3. Pack(m).fields = <<Field("header", 0, HdrLen, Pack(m).size)>> \o RecFields(m, 1)
    <3> DEFINE n == HdrLen + KeyAndValue(m, 1)
    <3>1. Pack(m) = Packing(n, RecFields(m, 1))
      BY <2>1, <2>2 DEF pack_getrm_message
    <3> HIDE DEF n
    <3> QED BY <3>1, PackingIs
  <2> QED BY <2>1, <2>3, OneRecord DEF Header
<1>6. CASE m.mtype = "bput"
  <2> DEFINE F == [i \in 1 .. Len(m.recs) |-> <<KeyLen(m, i), Key(m, i), ValueLen(m, i), Value(m, i)>>]
  <2>1. Pack(m) = pack_bput_message(m)
    BY <1>6 DEF Pack
  <2>2. \A i \in 1 .. Len(m.recs) : RecFields(m, i) = <<KeyLen(m, i), Key(m, i), ValueLen(m, i), Value(m, i)>>
    BY <1>6 DEF RecFields
  <2>3. RecordFields(m) = F
    BY <2>2, Zenon DEF RecordFields
  <2>4. Pack(m).fields = <<Field("header", 0, HdrLen, Pack(m).size)>> \o FlattenSeq(F)
    <3> DEFINE n == HdrLen + 2 * Len(m.recs) * IntLen + SumLens(m, LAMBDA i : KeyAndValue(m, i))
    <3>1. Pack(m) = Packing(n, FlattenSeq(F))
      BY <2>1 DEF pack_bput_message, PerRecord
    <3> HIDE DEF n, F
    <3> QED BY <3>1, PackingIs
  <2> HIDE DEF F
  <2> QED BY <2>3, <2>4 DEF Header
<1>7. CASE m.mtype = "bget"
  <2> DEFINE F == [i \in 1 .. Len(m.recs) |-> <<KeyLen(m, i), Key(m, i)>>]
  <2>1. Pack(m) = pack_bget_message(m)
    BY <1>7 DEF Pack
  <2>2. \A i \in 1 .. Len(m.recs) : RecFields(m, i) = <<KeyLen(m, i), Key(m, i)>>
    BY <1>7 DEF RecFields
  <2>3. RecordFields(m) = F
    BY <2>2, Zenon DEF RecordFields
  <2>4. Pack(m).fields = <<Field("header", 0, HdrLen, Pack(m).size)>> \o FlattenSeq(F)
    <3> DEFINE n == HdrLen + Len(m.recs) * IntLen * 2 + SumLens(m, LAMBDA i : m.recs[i].key_len)
    <3>1. Pack(m) = Packing(n, FlattenSeq(F))
      BY <2>1 DEF pack_bget_message, PerRecord
    <3> HIDE DEF n, F
    <3> QED BY <3>1, PackingIs
  <2> HIDE DEF F
  <2> QED BY <2>3, <2>4 DEF Header
<1>8. CASE m.mtype = "bdel"
  <2> DEFINE F == [i \in 1 .. Len(m.recs) |-> <<KeyLen(m, i), Key(m, i)>>]
  <2>1. Pack(m) = pack_bdel_message(m)
    BY <1>8 DEF Pack
  <2>2. \A i \in 1 .. Len(m.recs) : RecFields(m, i) = <<KeyLen(m, i), Key(m, i)>>
    BY <1>8 DEF RecFields
  <2>3. RecordFields(m) = F
    BY <2>2, Zenon DEF RecordFields
  <2>4. Pack(m).fields = <<Field("header", 0, HdrLen, Pack(m).size)>> \o FlattenSeq(F)
    <3> DEFINE n == HdrLen + Len(m.recs) * IntLen + SumLens(m, LAMBDA i : m.recs[i].key_len)
    <3>1. Pack(m) = Packing(n, FlattenSeq(F))
      BY <2>1 DEF pack_bdel_message, PerRecord
    <3> HIDE DEF n, F
    <3> QED BY <3>1, PackingIs
  <2> HIDE DEF F
  <2> QED BY <2>3, <2>4 DEF Header
<1>9. CASE m.mtype = "bgetrm"
  <2> DEFINE F == [i \in 1 .. Len(m.recs) |-> <<KeyLen(m, i)>> \o IfAny(Key(m, i)) \o <<ValueLen(m, i)>> \o IfAny(Value(m, i))]
  <2>1. Pack(m) = pack_bgetrm_message(m)
    BY <1>9 DEF Pack
  <2>2. \A i \in 1 .. Len(m.recs) : RecFields(m, i) = <<KeyLen(m, i)>> \o IfAny(Key(m, i)) \o <<ValueLen(m, i)>> \o IfAny(Value(m, i))
    BY <1>9 DEF RecFields
  <2>3. RecordFields(m) = F
    BY <2>2, Zenon DEF RecordFields
  <2>4. Pack(m).fields = <<Field("header", 0, HdrLen, Pack(m).size)>> \o FlattenSeq(F)
    <3> DEFINE n == HdrLen + 2 * Len(m.recs) * IntLen + SumLens(m, LAMBDA i : KeyAndValue(m, i))
    <3>1. Pack(m) = Packing(n, FlattenSeq(F))
      BY <2>1 DEF pack_bgetrm_message, PerRecord
    <3> HIDE DEF n, F
    <3> QED BY <3>1, PackingIs
  <2> HIDE DEF F
  <2> QED BY <2>3, <2>4 DEF Header
<1>10. CASE m.mtype = "base"
  <2>1. Pack(m) = pack_base_message(m) /\ Len(m.recs) = 0
    BY <1>10, MessageFacts DEF Pack, Bare
  <2>2. RecordFields(m) = <<>>
    BY <2>1 DEF RecordFields
  <2>3. Pack(m).fields = <<Field("header", 0, HdrLen, Pack(m).size)>> \o <<>>
    BY <2>1 DEF pack_base_message, Packing
  <2> QED BY <2>2, <2>3, FlattenNone DEF Header
<1>11. CASE m.mtype = "return"
  <2>1. Pack(m) = pack_return_message(m) /\ Len(m.recs) = 0
    BY <1>11, MessageFacts DEF Pack, Bare
  <2>2. RecordFields(m) = <<>>
    BY <2>1 DEF RecordFields
  <2>3. Pack(m).fields = <<Field("header", 0, HdrLen, Pack(m).size)>> \o <<>>
    BY <2>1 DEF pack_return_message, Packing
  <2> QED BY <2>2, <2>3, FlattenNone DEF Header
<1> QED
  BY <1>1, <1>2, <1>3, <1>4, <1>5, <1>6, <1>7, <1>8, <1>9, <1>10, <1>11

-----------------------------------------------------------------------------
(* The sizes the pack functions compute. *)

SumOf(f, n, L) == f \in [0 .. n -> Int] /\ f[0] = 0 /\ \A i \in 1 .. n : f[i] = f[i - 1] + L[i]

LEMMA SumExists ==
  ASSUME NEW n \in Nat, NEW L \in [1 .. n -> Int]
  PROVE  \E f : SumOf(f, n, L)
<1> DEFINE F == [i \in 1 .. n |-> [x \in Int |-> x + L[i]]]
<1>1. F \in [1 .. n -> [Int -> Int]]
  OBVIOUS
<1>2. PICK f : Iteration(f, n, Int, 0, F)
  <2>1. 0 \in Int
    OBVIOUS
  <2> HIDE DEF F
  <2> QED BY <1>1, <2>1, Iterate, Zenon
<1>3. \A i \in 1 .. n : f[i] = f[i - 1] + L[i]
  <2> SUFFICES ASSUME NEW i \in 1 .. n PROVE f[i] = f[i - 1] + L[i]
    OBVIOUS
  <2>1. i - 1 \in 0 .. n
    OBVIOUS
  <2>2. f[i] = F[i][f[i - 1]] /\ f[i - 1] \in Int
    <3> HIDE DEF F
    <3> QED BY <1>2, <2>1 DEF Iteration
  <2> QED BY <2>2
<1> QED
  BY <1>2, <1>3 DEF Iteration, SumOf

SumKeyAndValue(m) == SumLens(m, LAMBDA i : KeyAndValue(m, i))

SumKey(m) == SumLens(m, LAMBDA i : m.recs[i].key_len)

LEMMA SumKeyAndValueIs ==
  ASSUME NEW m \in Message
  PROVE  \E h : /\ h[0] = 0 /\ h \in [0 .. Len(m.recs) -> Int]
                /\ \A i \in 1 .. Len(m.recs) : h[i] = h[i - 1] + KeyAndValue(m, i)
                /\ h[Len(m.recs)] = SumKeyAndValue(m)
<1> DEFINE n == Len(m.recs)
           L == [i \in 1 .. n |-> KeyAndValue(m, i)]
           Is(x) == x = [i \in 0 .. n |-> IF i = 0 THEN 0 ELSE x[i - 1] + KeyAndValue(m, i)]
           h == CHOOSE x : Is(x)
<1>1. n \in Nat /\ \A i \in 1 .. n : KeyAndValue(m, i) \in Int
  <2>1. n \in Nat
    BY MessageFacts
  <2>2. \A i \in 1 .. n : m.recs[i].key_len \in Nat /\ m.recs[i].value_len \in Nat
    BY FieldTypes
  <2> QED BY <2>1, <2>2, Constants DEF KeyAndValue, AddInt
<1>2. \E f : Is(f)
  <2>1. L \in [1 .. n -> Int] /\ \A i \in 1 .. n : L[i] = KeyAndValue(m, i)
    BY <1>1
  <2> HIDE DEF L, n
  <2>2. PICK f : SumOf(f, n, L)
    BY <1>1, <2>1, SumExists
  <2>3. \A i \in 0 .. n : f[i] = IF i = 0 THEN 0 ELSE f[i - 1] + KeyAndValue(m, i)
    BY <1>1, <2>1, <2>2 DEF SumOf
  <2>4. f = [i \in 0 .. n |-> f[i]]
    BY <2>2 DEF SumOf
  <2>5. Is(f)
    BY <2>3, <2>4
  <2> QED BY <2>5
<1>3. Is(h)
  <2> HIDE DEF Is
  <2> QED BY <1>2
<1>4. SumKeyAndValue(m) = h[n]
  BY DEF SumKeyAndValue, SumLens
<1> HIDE DEF h, n
<1>5. h[0] = 0 /\ \A i \in 1 .. n : h[i] = h[i - 1] + KeyAndValue(m, i)
  BY <1>1, <1>3
<1>6. h \in [0 .. n -> Int]
  <2> DEFINE T == {i \in 0 .. n : h[i] \in Int}
  <2>1. 0 \in T
    BY <1>1, <1>5
  <2>2. \A i \in 0 .. n - 1 : i \in T => i + 1 \in T
    <3> SUFFICES ASSUME NEW i \in 0 .. n - 1, h[i] \in Int PROVE h[i + 1] \in Int
      BY <1>1
    <3> DEFINE e == KeyAndValue(m, i + 1)
    <3>1. i + 1 \in 1 .. n /\ (i + 1) - 1 = i
      BY <1>1
    <3>2. h[i + 1] = h[(i + 1) - 1] + e /\ e \in Int
      BY <1>1, <1>5, <3>1
    <3> HIDE DEF e
    <3> QED BY <3>1, <3>2
  <2>3. \A i \in 0 .. n : i \in T
    <3> HIDE DEF T
    <3> QED BY <1>1, <2>1, <2>2, UpTo
  <2>4. h = [i \in 0 .. n |-> h[i]]
    BY <1>3
  <2> QED BY <2>3, <2>4
<1> QED
  BY <1>4, <1>5, <1>6 DEF n

LEMMA SumKeyIs ==
  ASSUME NEW m \in Message
  PROVE  \E h : /\ h[0] = 0 /\ h \in [0 .. Len(m.recs) -> Int]
                /\ \A i \in 1 .. Len(m.recs) : h[i] = h[i - 1] + m.recs[i].key_len
                /\ h[Len(m.recs)] = SumKey(m)
<1> DEFINE n == Len(m.recs)
           L == [i \in 1 .. n |-> m.recs[i].key_len]
           Is(x) == x = [i \in 0 .. n |-> IF i = 0 THEN 0 ELSE x[i - 1] + m.recs[i].key_len]
           h == CHOOSE x : Is(x)
<1>1. n \in Nat /\ \A i \in 1 .. n : m.recs[i].key_len \in Int
  BY MessageFacts, FieldTypes
<1>2. \E f : Is(f)
  <2>1. L \in [1 .. n -> Int] /\ \A i \in 1 .. n : L[i] = m.recs[i].key_len
    BY <1>1
  <2> HIDE DEF L, n
  <2>2. PICK f : SumOf(f, n, L)
    BY <1>1, <2>1, SumExists
  <2>3. \A i \in 0 .. n : f[i] = IF i = 0 THEN 0 ELSE f[i - 1] + m.recs[i].key_len
    BY <1>1, <2>1, <2>2 DEF SumOf
  <2>4. f = [i \in 0 .. n |-> f[i]]
    BY <2>2 DEF SumOf
  <2>5. Is(f)
    BY <2>3, <2>4
  <2> QED BY <2>5
<1>3. Is(h)
  <2> HIDE DEF Is
  <2> QED BY <1>2
<1>4. SumKey(m) = h[n]
  BY DEF SumKey, SumLens
<1> HIDE DEF h, n
<1>5. h[0] = 0 /\ \A i \in 1 .. n : h[i] = h[i - 1] + m.recs[i].key_len
  BY <1>1, <1>3
<1>6. h \in [0 .. n -> Int]
  <2> DEFINE T == {i \in 0 .. n : h[i] \in Int}
  <2>1. 0 \in T
    BY <1>1, <1>5
  <2>2. \A i \in 0 .. n - 1 : i \in T => i + 1 \in T
    <3> SUFFICES ASSUME NEW i \in 0 .. n - 1, h[i] \in Int PROVE h[i + 1] \in Int
      BY <1>1
    <3> DEFINE e == m.recs[i + 1].key_len
    <3>1. i + 1 \in 1 .. n /\ (i + 1) - 1 = i
      BY <1>1
    <3>2. h[i + 1] = h[(i + 1) - 1] + e /\ e \in Int
      BY <1>1, <1>5, <3>1
    <3> HIDE DEF e
    <3> QED BY <3>1, <3>2
  <2>3. \A i \in 0 .. n : i \in T
    <3> HIDE DEF T
    <3> QED BY <1>1, <2>1, <2>2, UpTo
  <2>4. h = [i \in 0 .. n |-> h[i]]
    BY <1>3
  <2> QED BY <2>3, <2>4
<1> QED
  BY <1>4, <1>5, <1>6 DEF n

LEMMA BodyLen ==
  ASSUME NEW m \in Message, NEW c \in Nat, NEW h, h[0] = 0,
         \A i \in 1 .. Len(m.recs) : h[i] = h[i - 1] + (RecLen(m, i) - c)
  PROVE  Len(Body(m, Len(m.recs))) = Len(m.recs) * c + h[Len(m.recs)]
<1> DEFINE n == Len(m.recs)
           T == {i \in 0 .. n : Len(Body(m, i)) \in Nat /\ h[i] = Len(Body(m, i)) - i * c}
<1>1. n \in Nat
  BY MessageFacts
<1>2. 0 \in T
  BY <1>1, BodyNone
<1>3. \A i \in 0 .. n - 1 : i \in T => i + 1 \in T
  <2> SUFFICES ASSUME NEW i \in 0 .. n - 1, Len(Body(m, i)) \in Nat, h[i] = Len(Body(m, i)) - i * c
               PROVE  Len(Body(m, i + 1)) \in Nat /\ h[i + 1] = Len(Body(m, i + 1)) - (i + 1) * c
    BY <1>1
  <2> DEFINE x == Len(Body(m, i))
             y == Len(Body(m, i + 1))
             l == RecLen(m, i + 1)
             p == i * c
             q == (i + 1) * c
  <2>1. i + 1 \in 1 .. n /\ (i + 1) - 1 = i
    BY <1>1
  <2>2. y = x + l /\ l \in Nat
    BY <2>1, BodyNext, RecCellsType
  <2>3. h[i + 1] = h[(i + 1) - 1] + (l - c)
    BY <2>1
  <2>4. p \in Int /\ q = p + c
    OBVIOUS
  <2>5. x \in Nat /\ h[i] = x - p
    OBVIOUS
  <2> HIDE DEF x, y, l, p, q
  <2>6. y \in Nat /\ h[i + 1] = y - q
    BY <2>1, <2>2, <2>3, <2>4, <2>5
  <2> QED BY <2>6 DEF y, q
<1>4. n \in T
  <2>1. n \in 0 .. n
    BY <1>1
  <2> HIDE DEF T, n
  <2> QED BY <1>1, <1>2, <1>3, <2>1, UpTo
<1> DEFINE x == Len(Body(m, n))
           p == n * c
<1>5. x \in Nat /\ h[n] = x - p /\ p \in Int
  <2>1. x \in Nat /\ h[n] = x - p
    BY <1>4
  <2>2. p \in Int
    BY <1>1
  <2> QED BY <2>1, <2>2
<1> HIDE DEF x, p
<1>6. x = p + h[n]
  BY <1>5
<1> QED
  BY <1>6 DEF x, p

(* No length of a record wraps around. *)
NoWrap(m) ==
  \A i \in 1 .. Len(m.recs) :
    m.mtype \in WithValue => m.recs[i].key_len + m.recs[i].value_len <= MaxMsg

(* The bytes a message reserves and does not use. *)
Spare(m) == IF m.mtype = "bget" THEN Len(m.recs) * IntLen ELSE 0

LEMMA OneBody ==
  ASSUME NEW m \in Message, Len(m.recs) = 1
  PROVE  Len(Body(m, Len(m.recs))) = RecLen(m, 1)
<1>1. 1 \in 1 .. Len(m.recs) /\ 1 - 1 = 0
  OBVIOUS
<1>2. Len(Body(m, 1)) = Len(Body(m, 1 - 1)) + RecLen(m, 1)
  BY <1>1, BodyNext
<1>3. Len(Body(m, 0)) = 0 /\ RecLen(m, 1) \in Nat
  <2>1. Body(m, 0) = <<>>
    BY BodyNone
  <2>2. RecLen(m, 1) \in Nat
    BY <1>1, RecCellsType
  <2> QED BY <2>1, <2>2
<1> QED
  BY <1>1, <1>2, <1>3

LEMMA Products ==
  ASSUME NEW a \in Nat, NEW b \in Nat
  PROVE  /\ a * b \in Int /\ 2 * a * b \in Int /\ a * b * 2 \in Int /\ a * (2 * b) \in Int
         /\ 2 * a * b = a * (2 * b) /\ a * b * 2 = a * b + a * b
OBVIOUS

LEMMA SizeIs ==
  ASSUME NEW m \in Message
  PROVE  /\ Pack(m).size \in Int
         /\ NoWrap(m) => Pack(m).size = HdrLen + Len(Body(m, Len(m.recs))) + Spare(m)
<1>1. m.mtype \in {"put", "get", "del", "getrm", "bput", "bget", "bdel", "bgetrm", "base", "return"}
  BY MessageFacts DEF Single, Bulk, Bare
<1>l. Len(m.recs) \in Nat
  BY MessageFacts
<1>2. CASE m.mtype = "put"
  <2> DEFINE fs == <<Key(m, 1), Value(m, 1)>>
             z == HdrLen + KeyAndValue(m, 1)
  <2>1. Pack(m) = pack_put_message(m) /\ Len(m.recs) = 1
    BY <1>2, MessageFacts DEF Pack, Single
  <2>2. Pack(m) = Packing(z, fs)
    BY <2>1 DEF pack_put_message
  <2>3. Pack(m).size = z
    <3> HIDE DEF z, fs
    <3> QED BY <2>2, PackingIs
  <2>4. RecLen(m, 1) = m.recs[1].key_len + m.recs[1].value_len /\ Spare(m) = 0
    BY <1>2 DEF RecLen, Spare
  <2>5. m.mtype \in WithValue
    BY <1>2 DEF WithValue
  <2>6. 1 \in 1 .. Len(m.recs)
    BY <2>1
  <2>7. m.recs[1].key_len \in Nat /\ m.recs[1].value_len \in Nat
    BY <2>6, FieldTypes
  <2>8. Len(Body(m, Len(m.recs))) = RecLen(m, 1)
    BY <2>1, OneBody
  <2> DEFINE k == m.recs[1].key_len
             v == m.recs[1].value_len
  <2>9. KeyAndValue(m, 1) \in Int /\ (k + v <= MaxMsg => KeyAndValue(m, 1) = k + v)
    BY <2>7, Constants DEF KeyAndValue, AddInt
  <2>10. NoWrap(m) => k + v <= MaxMsg
    BY <2>5, <2>6 DEF NoWrap
  <2> HIDE DEF k, v
  <2> QED BY <2>3, <2>4, <2>8, <2>9, <2>10, Constants DEF k, v
<1>3. CASE m.mtype = "get"
  <2> DEFINE fs == <<Key(m, 1)>>
             z == HdrLen + m.recs[1].key_len
  <2>1. Pack(m) = pack_get_message(m) /\ Len(m.recs) = 1
    BY <1>3, MessageFacts DEF Pack, Single
  <2>2. Pack(m) = Packing(z, fs)
    BY <2>1 DEF pack_get_message
  <2>3. Pack(m).size = z
    <3> HIDE DEF z, fs
    <3> QED BY <2>2, PackingIs
  <2>4. RecLen(m, 1) = m.recs[1].key_len /\ Spare(m) = 0
    BY <1>3 DEF RecLen, Spare
  <2>5. m.mtype \notin WithValue
    BY <1>3 DEF WithValue
  <2>6. 1 \in 1 .. Len(m.recs)
    BY <2>1
  <2>7. m.recs[1].key_len \in Nat /\ m.recs[1].value_len \in Nat
    BY <2>6, FieldTypes
  <2>8. Len(Body(m, Len(m.recs))) = RecLen(m, 1)
    BY <2>1, OneBody
  <2> QED BY <2>3, <2>4, <2>7, <2>8, Constants
<1>4. CASE m.mtype = "del"
  <2> DEFINE fs == <<Key(m, 1)>>
             z == HdrLen + m.recs[1].key_len
  <2>1. Pack(m) = pack_del_message(m) /\ Len(m.recs) = 1
    BY <1>4, MessageFacts DEF Pack, Single
  <2>2. Pack(m) = Packing(z, fs)
    BY <2>1 DEF pack_del_message
  <2>3. Pack(m).size = z
    <3> HIDE DEF z, fs
    <3> QED BY <2>2, PackingIs
  <2>4. RecLen(m, 1) = m.recs[1].key_len /\ Spare(m) = 0
    BY <1>4 DEF RecLen, Spare
  <2>5. m.mtype \notin WithValue
    BY <1>4 DEF WithValue
  <2>6. 1 \in 1 .. Len(m.recs)
    BY <2>1
  <2>7. m.recs[1].key_len \in Nat /\ m.recs[1].value_len \in Nat
    BY <2>6, FieldTypes
  <2>8. Len(Body(m, Len(m.recs))) = RecLen(m, 1)
    BY <2>1, OneBody
  <2> QED BY <2>3, <2>4, <2>7, <2>8, Constants
<1>5. CASE m.mtype = "getrm"
  <2> DEFINE fs == IfAny(Key(m, 1)) \o IfAny(Value(m, 1))
             z == HdrLen + KeyAndValue(m, 1)
  <2>1. Pack(m) = pack_getrm_message(m) /\ Len(m.recs) = 1
    BY <1>5, MessageFacts DEF Pack, Single
  <2>2. Pack(m) = Packing(z, fs)
    BY <2>1 DEF pack_getrm_message
  <2>3. Pack(m).size = z
    <3> HIDE DEF z, fs
    <3> QED BY <2>2, PackingIs
  <2>4. RecLen(m, 1) = m.recs[1].key_len + m.recs[1].value_len /\ Spare(m) = 0
    BY <1>5 DEF RecLen, Spare
  <2>5. m.mtype \in WithValue
    BY <1>5 DEF WithValue
  <2>6. 1 \in 1 .. Len(m.recs)
    BY <2>1
  <2>7. m.recs[1].key_len \in Nat /\ m.recs[1].value_len \in Nat
    BY <2>6, FieldTypes
  <2>8. Len(Body(m, Len(m.recs))) = RecLen(m, 1)
    BY <2>1, OneBody
  <2> DEFINE k == m.recs[1].key_len
             v == m.recs[1].value_len
  <2>9. KeyAndValue(m, 1) \in Int /\ (k + v <= MaxMsg => KeyAndValue(m, 1) = k + v)
    BY <2>7, Constants DEF KeyAndValue, AddInt
  <2>10. NoWrap(m) => k + v <= MaxMsg
    BY <2>5, <2>6 DEF NoWrap
  <2> HIDE DEF k, v
  <2> QED BY <2>3, <2>4, <2>8, <2>9, <2>10, Constants DEF k, v
<1>6. CASE m.mtype = "bput"
  <2> DEFINE fs == PerRecord(m, LAMBDA i : <<KeyLen(m, i), Key(m, i), ValueLen(m, i), Value(m, i)>>)
             c == 2 * IntLen
             z == HdrLen + 2 * Len(m.recs) * IntLen + SumKeyAndValue(m)
  <2>1. Pack(m) = pack_bput_message(m)
    BY <1>6 DEF Pack
  <2>2. Pack(m) = Packing(z, fs)
    BY <2>1 DEF pack_bput_message, SumKeyAndValue
  <2>3. Pack(m).size = z
    <3> HIDE DEF z, fs
    <3> QED BY <2>2, PackingIs
  <2>4. PICK h : /\ h[0] = 0 /\ h \in [0 .. Len(m.recs) -> Int]
                 /\ \A i \in 1 .. Len(m.recs) : h[i] = h[i - 1] + KeyAndValue(m, i)
                 /\ h[Len(m.recs)] = SumKeyAndValue(m)
    BY SumKeyAndValueIs
  <2>5. SumKeyAndValue(m) \in Int
    <3>1. Len(m.recs) \in 0 .. Len(m.recs)
      BY <1>l
    <3> QED BY <2>4, <3>1
  <2>6. 2 * Len(m.recs) * IntLen \in Int /\ 2 * Len(m.recs) * IntLen = Len(m.recs) * c /\ Spare(m) \in Int /\ c \in Nat
    <3>1. Len(m.recs) \in Nat /\ IntLen \in Nat
      BY <1>l, Constants
    <3>2. 2 * Len(m.recs) * IntLen \in Int /\ 2 * Len(m.recs) * IntLen = Len(m.recs) * (2 * IntLen)
      BY <3>1, Products
    <3>3. Spare(m) \in Int
      BY <1>6 DEF Spare
    <3>4. c \in Nat
      BY <3>1
    <3>5. 2 * Len(m.recs) * IntLen = Len(m.recs) * c
      BY <3>2, Zenon
    <3> HIDE DEF c
    <3> QED BY <3>2, <3>3, <3>4, <3>5, Zenon
  <2>7. ASSUME NoWrap(m) PROVE Len(Body(m, Len(m.recs))) = Len(m.recs) * c + SumKeyAndValue(m)
    <3>1. \A i \in 1 .. Len(m.recs) : KeyAndValue(m, i) = RecLen(m, i) - c
      <4> SUFFICES ASSUME NEW i \in 1 .. Len(m.recs) PROVE KeyAndValue(m, i) = RecLen(m, i) - c
        OBVIOUS
      <4>1. m.recs[i].key_len \in Nat /\ m.recs[i].value_len \in Nat
        BY FieldTypes
      <4>2. RecLen(m, i) = 2 * IntLen + m.recs[i].key_len + m.recs[i].value_len
        BY <1>6 DEF RecLen
      <4>3. m.mtype \in WithValue
        BY <1>6 DEF WithValue
      <4> QED BY <2>7, <4>1, <4>2, <4>3, Constants DEF KeyAndValue, AddInt, NoWrap
    <3>2. \A i \in 1 .. Len(m.recs) : h[i] = h[i - 1] + (RecLen(m, i) - c)
      BY <2>4, <3>1
    <3>3. h[0] = 0 /\ h[Len(m.recs)] = SumKeyAndValue(m)
      BY <2>4
    <3> HIDE DEF c
    <3>4. Len(Body(m, Len(m.recs))) = Len(m.recs) * c + h[Len(m.recs)]
      BY <2>6, <3>2, <3>3, BodyLen
    <3> QED BY <3>3, <3>4
  <2>8. z \in Int
    BY <2>5, <2>6, Constants
  <2>9. ASSUME NoWrap(m) PROVE z = HdrLen + Len(Body(m, Len(m.recs))) + Spare(m)
    <3> DEFINE x == Len(m.recs) * c
    <3>1. Len(Body(m, Len(m.recs))) = x + SumKeyAndValue(m) /\ x \in Int
      BY <2>6, <2>7, <2>9, <1>l
    <3>2. z = HdrLen + (2 * Len(m.recs) * IntLen) + SumKeyAndValue(m)
      OBVIOUS
    <3>3. 2 * Len(m.recs) * IntLen = x /\ Spare(m) = 0
      BY <1>6, <2>6 DEF Spare
    <3> HIDE DEF x, z
    <3> QED BY <2>5, <2>6, <3>1, <3>2, <3>3, Constants
  <2> HIDE DEF z
  <2> QED BY <2>3, <2>8, <2>9
<1>7. CASE m.mtype = "bget"
  <2> DEFINE fs == PerRecord(m, LAMBDA i : <<KeyLen(m, i), Key(m, i)>>)
             c == IntLen
             z == HdrLen + Len(m.recs) * IntLen * 2 + SumKey(m)
  <2>1. Pack(m) = pack_bget_message(m)
    BY <1>7 DEF Pack
  <2>2. Pack(m) = Packing(z, fs)
    BY <2>1 DEF pack_bget_message, SumKey
  <2>3. Pack(m).size = z
    <3> HIDE DEF z, fs
    <3> QED BY <2>2, PackingIs
  <2>4. PICK h : /\ h[0] = 0 /\ h \in [0 .. Len(m.recs) -> Int]
                 /\ \A i \in 1 .. Len(m.recs) : h[i] = h[i - 1] + m.recs[i].key_len
                 /\ h[Len(m.recs)] = SumKey(m)
    BY SumKeyIs
  <2>5. SumKey(m) \in Int
    <3>1. Len(m.recs) \in 0 .. Len(m.recs)
      BY <1>l
    <3> QED BY <2>4, <3>1
  <2>6. Len(m.recs) * IntLen * 2 \in Int /\ Len(m.recs) * IntLen * 2 = Len(m.recs) * c + Spare(m) /\ Spare(m) \in Int /\ c \in Nat
    <3>1. Len(m.recs) \in Nat /\ IntLen \in Nat
      BY <1>l, Constants
    <3> QED BY <1>7, <3>1, Products DEF Spare
  <2>7. ASSUME NoWrap(m) PROVE Len(Body(m, Len(m.recs))) = Len(m.recs) * c + SumKey(m)
    <3>1. \A i \in 1 .. Len(m.recs) : m.recs[i].key_len = RecLen(m, i) - c
      <4> SUFFICES ASSUME NEW i \in 1 .. Len(m.recs) PROVE m.recs[i].key_len = RecLen(m, i) - c
        OBVIOUS
      <4>1. m.recs[i].key_len \in Nat /\ m.recs[i].value_len \in Nat
        BY FieldTypes
      <4>2. RecLen(m, i) = IntLen + m.recs[i].key_len
        BY <1>7 DEF RecLen
      <4>3. m.mtype \notin WithValue
        BY <1>7 DEF WithValue
      <4> QED BY <2>7, <4>1, <4>2, <4>3, Constants DEF KeyAndValue, AddInt, NoWrap
    <3>2. \A i \in 1 .. Len(m.recs) : h[i] = h[i - 1] + (RecLen(m, i) - c)
      BY <2>4, <3>1
    <3>3. h[0] = 0 /\ h[Len(m.recs)] = SumKey(m)
      BY <2>4
    <3> HIDE DEF c
    <3>4. Len(Body(m, Len(m.recs))) = Len(m.recs) * c + h[Len(m.recs)]
      BY <2>6, <3>2, <3>3, BodyLen
    <3> QED BY <3>3, <3>4
  <2>8. z \in Int
    BY <2>5, <2>6, Constants
  <2>9. ASSUME NoWrap(m) PROVE z = HdrLen + Len(Body(m, Len(m.recs))) + Spare(m)
    <3> DEFINE x == Len(m.recs) * c
               y == Len(m.recs) * IntLen * 2
    <3>1. Len(Body(m, Len(m.recs))) = x + SumKey(m) /\ x \in Int
      BY <2>6, <2>7, <2>9, <1>l
    <3>2. z = HdrLen + y + SumKey(m)
      OBVIOUS
    <3>3. y = x + Spare(m)
      BY <1>7, <2>6 DEF Spare
    <3> HIDE DEF x, y, z
    <3> QED BY <2>5, <2>6, <3>1, <3>2, <3>3, Constants
  <2> HIDE DEF z
  <2> QED BY <2>3, <2>8, <2>9
<1>8. CASE m.mtype = "bdel"
  <2> DEFINE fs == PerRecord(m, LAMBDA i : <<KeyLen(m, i), Key(m, i)>>)
             c == IntLen
             z == HdrLen + Len(m.recs) * IntLen + SumKey(m)
  <2>1. Pack(m) = pack_bdel_message(m)
    BY <1>8 DEF Pack
  <2>2. Pack(m) = Packing(z, fs)
    BY <2>1 DEF pack_bdel_message, SumKey
  <2>3. Pack(m).size = z
    <3> HIDE DEF z, fs
    <3> QED BY <2>2, PackingIs
  <2>4. PICK h : /\ h[0] = 0 /\ h \in [0 .. Len(m.recs) -> Int]
                 /\ \A i \in 1 .. Len(m.recs) : h[i] = h[i - 1] + m.recs[i].key_len
                 /\ h[Len(m.recs)] = SumKey(m)
    BY SumKeyIs
  <2>5. SumKey(m) \in Int
    <3>1. Len(m.recs) \in 0 .. Len(m.recs)
      BY <1>l
    <3> QED BY <2>4, <3>1
  <2>6. Len(m.recs) * IntLen \in Int /\ Len(m.recs) * IntLen = Len(m.recs) * c /\ Spare(m) \in Int /\ c \in Nat
    <3>1. Len(m.recs) \in Nat /\ IntLen \in Nat
      BY <1>l, Constants
    <3> QED BY <1>8, <3>1, Products DEF Spare
  <2>7. ASSUME NoWrap(m) PROVE Len(Body(m, Len(m.recs))) = Len(m.recs) * c + SumKey(m)
    <3>1. \A i \in 1 .. Len(m.recs) : m.recs[i].key_len = RecLen(m, i) - c
      <4> SUFFICES ASSUME NEW i \in 1 .. Len(m.recs) PROVE m.recs[i].key_len = RecLen(m, i) - c
        OBVIOUS
      <4>1. m.recs[i].key_len \in Nat /\ m.recs[i].value_len \in Nat
        BY FieldTypes
      <4>2. RecLen(m, i) = IntLen + m.recs[i].key_len
        BY <1>8 DEF RecLen
      <4>3. m.mtype \notin WithValue
        BY <1>8 DEF WithValue
      <4> QED BY <2>7, <4>1, <4>2, <4>3, Constants DEF KeyAndValue, AddInt, NoWrap
    <3>2. \A i \in 1 .. Len(m.recs) : h[i] = h[i - 1] + (RecLen(m, i) - c)
      BY <2>4, <3>1
    <3>3. h[0] = 0 /\ h[Len(m.recs)] = SumKey(m)
      BY <2>4
    <3> HIDE DEF c
    <3>4. Len(Body(m, Len(m.recs))) = Len(m.recs) * c + h[Len(m.recs)]
      BY <2>6, <3>2, <3>3, BodyLen
    <3> QED BY <3>3, <3>4
  <2>8. z \in Int
    BY <2>5, <2>6, Constants
  <2>9. ASSUME NoWrap(m) PROVE z = HdrLen + Len(Body(m, Len(m.recs))) + Spare(m)
    <3> DEFINE x == Len(m.recs) * c
    <3>1. Len(Body(m, Len(m.recs))) = x + SumKey(m) /\ x \in Int
      BY <2>6, <2>7, <2>9, <1>l
    <3>2. z = HdrLen + (Len(m.recs) * IntLen) + SumKey(m)
      OBVIOUS
    <3>3. Len(m.recs) * IntLen = x /\ Spare(m) = 0
      BY <1>8, <2>6 DEF Spare
    <3> HIDE DEF x, z
    <3> QED BY <2>5, <2>6, <3>1, <3>2, <3>3, Constants
  <2> HIDE DEF z
  <2> QED BY <2>3, <2>8, <2>9
<1>9. CASE m.mtype = "bgetrm"
  <2> DEFINE fs == PerRecord(m, LAMBDA i : <<KeyLen(m, i)>> \o IfAny(Key(m, i)) \o <<ValueLen(m, i)>> \o IfAny(Value(m, i)))
             c == 2 * IntLen
             z == HdrLen + 2 * Len(m.recs) * IntLen + SumKeyAndValue(m)
  <2>1. Pack(m) = pack_bgetrm_message(m)
    BY <1>9 DEF Pack
  <2>2. Pack(m) = Packing(z, fs)
    BY <2>1 DEF pack_bgetrm_message, SumKeyAndValue
  <2>3. Pack(m).size = z
    <3> HIDE DEF z, fs
    <3> QED BY <2>2, PackingIs
  <2>4. PICK h : /\ h[0] = 0 /\ h \in [0 .. Len(m.recs) -> Int]
                 /\ \A i \in 1 .. Len(m.recs) : h[i] = h[i - 1] + KeyAndValue(m, i)
                 /\ h[Len(m.recs)] = SumKeyAndValue(m)
    BY SumKeyAndValueIs
  <2>5. SumKeyAndValue(m) \in Int
    <3>1. Len(m.recs) \in 0 .. Len(m.recs)
      BY <1>l
    <3> QED BY <2>4, <3>1
  <2>6. 2 * Len(m.recs) * IntLen \in Int /\ 2 * Len(m.recs) * IntLen = Len(m.recs) * c /\ Spare(m) \in Int /\ c \in Nat
    <3>1. Len(m.recs) \in Nat /\ IntLen \in Nat
      BY <1>l, Constants
    <3>2. 2 * Len(m.recs) * IntLen \in Int /\ 2 * Len(m.recs) * IntLen = Len(m.recs) * (2 * IntLen)
      BY <3>1, Products
    <3>3. Spare(m) \in Int
      BY <1>9 DEF Spare
    <3>4. c \in Nat
      BY <3>1
    <3>5. 2 * Len(m.recs) * IntLen = Len(m.recs) * c
      BY <3>2, Zenon
    <3> HIDE DEF c
    <3> QED BY <3>2, <3>3, <3>4, <3>5, Zenon
  <2>7. ASSUME NoWrap(m) PROVE Len(Body(m, Len(m.recs))) = Len(m.recs) * c + SumKeyAndValue(m)
    <3>1. \A i \in 1 .. Len(m.recs) : KeyAndValue(m, i) = RecLen(m, i) - c
      <4> SUFFICES ASSUME NEW i \in 1 .. Len(m.recs) PROVE KeyAndValue(m, i) = RecLen(m, i) - c
        OBVIOUS
      <4>1. m.recs[i].key_len \in Nat /\ m.recs[i].value_len \in Nat
        BY FieldTypes
      <4>2. RecLen(m, i) = 2 * IntLen + m.recs[i].key_len + m.recs[i].value_len
        BY <1>9 DEF RecLen
      <4>3. m.mtype \in WithValue
        BY <1>9 DEF WithValue
      <4> QED BY <2>7, <4>1, <4>2, <4>3, Constants DEF KeyAndValue, AddInt, NoWrap
    <3>2. \A i \in 1 .. Len(m.recs) : h[i] = h[i - 1] + (RecLen(m, i) - c)
      BY <2>4, <3>1
    <3>3. h[0] = 0 /\ h[Len(m.recs)] = SumKeyAndValue(m)
      BY <2>4
    <3> HIDE DEF c
    <3>4. Len(Body(m, Len(m.recs))) = Len(m.recs) * c + h[Len(m.recs)]
      BY <2>6, <3>2, <3>3, BodyLen
    <3> QED BY <3>3, <3>4
  <2>8. z \in Int
    BY <2>5, <2>6, Constants
  <2>9. ASSUME NoWrap(m) PROVE z = HdrLen + Len(Body(m, Len(m.recs))) + Spare(m)
    <3> DEFINE x == Len(m.recs) * c
    <3>1. Len(Body(m, Len(m.recs))) = x + SumKeyAndValue(m) /\ x \in Int
      BY <2>6, <2>7, <2>9, <1>l
    <3>2. z = HdrLen + (2 * Len(m.recs) * IntLen) + SumKeyAndValue(m)
      OBVIOUS
    <3>3. 2 * Len(m.recs) * IntLen = x /\ Spare(m) = 0
      BY <1>9, <2>6 DEF Spare
    <3> HIDE DEF x, z
    <3> QED BY <2>5, <2>6, <3>1, <3>2, <3>3, Constants
  <2> HIDE DEF z
  <2> QED BY <2>3, <2>8, <2>9
<1>10. CASE m.mtype = "base"
  <2>1. Pack(m) = pack_base_message(m) /\ Len(m.recs) = 0
    BY <1>10, MessageFacts DEF Pack, Bare
  <2>2. Pack(m).size = HdrLen /\ Spare(m) = 0
    BY <1>10, <2>1 DEF pack_base_message, Packing, Spare
  <2> QED BY <2>1, <2>2, BodyNone, Constants
<1>11. CASE m.mtype = "return"
  <2>1. Pack(m) = pack_return_message(m) /\ Len(m.recs) = 0
    BY <1>11, MessageFacts DEF Pack, Bare
  <2>2. Pack(m).size = HdrLen /\ Spare(m) = 0
    BY <1>11, <2>1 DEF pack_return_message, Packing, Spare
  <2> QED BY <2>1, <2>2, BodyNone, Constants
<1> QED
  BY <1>1, <1>2, <1>3, <1>4, <1>5, <1>6, <1>7, <1>8, <1>9, <1>10, <1>11

-----------------------------------------------------------------------------
(* The inductive invariant: the sender. *)

(* The bytes a message needs, the ones it reserves and does not use included. *)
Need(m) == HdrLen + Len(Body(m, Len(m.recs))) + Spare(m)

Bytes(m) == Header(m) \o Body(m, Len(m.recs))

LEMMA NeedType ==
  ASSUME NEW m \in Message
  PROVE  /\ Body(m, Len(m.recs)) \in Seq(Cell) /\ Len(Body(m, Len(m.recs))) \in Nat
         /\ Spare(m) \in Nat /\ Need(m) \in Nat
         /\ Need(m) = HdrLen + Len(Body(m, Len(m.recs))) + Spare(m)
<1>1. Len(m.recs) \in Nat /\ Len(m.recs) \in 0 .. Len(m.recs)
  BY MessageFacts
<1>2. Body(m, Len(m.recs)) \in Seq(Cell)
  BY <1>1, BodySeq
<1>3. Len(Body(m, Len(m.recs))) \in Nat
  BY <1>2
<1>4. Spare(m) \in Nat
  <2>1. Len(m.recs) * IntLen \in Nat
    BY <1>1, Constants
  <2> QED BY <2>1 DEF Spare
<1> QED
  BY <1>2, <1>3, <1>4, Constants DEF Need

(* A message that does not need too much has the size it needs. *)
LEMMA SizeExact ==
  ASSUME NEW m \in Message, Need(m) <= MaxMsg
  PROVE  Pack(m).size = Need(m)
<1> DEFINE n == Len(m.recs)
<1>1. n \in Nat
  BY MessageFacts
<1>2. NoWrap(m)
  <2> SUFFICES ASSUME NEW i \in 1 .. n, m.mtype \in WithValue
               PROVE  m.recs[i].key_len + m.recs[i].value_len <= MaxMsg
    BY DEF NoWrap
  <2> DEFINE k == m.recs[i].key_len
             v == m.recs[i].value_len
             b == Len(Body(m, n))
             c == Len(Body(m, i))
             d == Len(Body(m, i - 1))
  <2>1. k \in Nat /\ v \in Nat
    BY FieldTypes
  <2>2. i \in 0 .. n /\ i - 1 \in 0 .. n
    BY <1>1
  <2>3. d \in Nat /\ c = d + RecLen(m, i)
    <3>1. Body(m, i - 1) \in Seq(Cell)
      BY <2>2, BodySeq
    <3> QED BY <3>1, BodyNext
  <2>4. c <= b
    BY <2>2, BodyPrefix
  <2>5. RecLen(m, i) = k + v \/ RecLen(m, i) = 2 * IntLen + k + v
    BY DEF WithValue, RecLen
  <2>6. b \in Nat /\ Spare(m) \in Nat /\ HdrLen + b + Spare(m) <= MaxMsg
    BY NeedType
  <2> HIDE DEF k, v, b, c, d
  <2>7. k + v <= MaxMsg
    BY <2>1, <2>3, <2>4, <2>5, <2>6, Constants
  <2> QED BY <2>7 DEF k, v
<1> QED
  BY <1>2, SizeIs DEF Need

(* The bytes that are packed. *)
LEMMA BytesIs ==
  ASSUME NEW m \in Message
  PROVE  /\ Pack(m).fields \in Seq(Seq(Cell)) /\ FlattenSeq(Pack(m).fields) = Bytes(m)
         /\ Bytes(m) \in Seq(Cell) /\ Len(Bytes(m)) = HdrLen + Len(Body(m, Len(m.recs)))
         /\ Bytes(m)[1] = <<"header", 0, 1, Pack(m).size>>
         /\ \A j \in 1 .. Len(Body(m, Len(m.recs))) : Bytes(m)[HdrLen + j] = Body(m, Len(m.recs))[j]
<1> DEFINE h == Header(m)
           t == FlattenSeq(RecordFields(m))
           b == Body(m, Len(m.recs))
           Y == Seq(Cell)
           s == Pack(m).size
<1>1. h \in Y /\ Len(h) = HdrLen /\ h[1] = <<"header", 0, 1, s>>
  <2>1. s \in Int
    BY SizeIs
  <2>2. "header" \in Names /\ 0 \in Nat /\ HdrLen \in Nat /\ 1 \in 1 .. HdrLen
    BY Constants DEF Names
  <2>3. h = Field("header", 0, HdrLen, s)
    BY DEF Header
  <2> HIDE DEF h, s, Names
  <2> QED BY <2>1, <2>2, <2>3, FieldType
<1>2. t \in Seq(Y) /\ FlattenSeq(t) = b
  BY RecordFieldsType
<1>3. Pack(m).fields = <<h>> \o t
  BY PackShape
<1>4. b \in Y
  BY NeedType
<1>5. Bytes(m) = h \o b
  BY DEF Bytes
<1> HIDE DEF h, t, b, s
<1>6. <<h>> \in Seq(Y)
  BY <1>1
<1>7. FlattenSeq(<<h>>) = h
  BY <1>1, FlattenOne
<1>8. FlattenSeq(<<h>> \o t) = FlattenSeq(<<h>>) \o FlattenSeq(t)
  <2> DEFINE x == <<h>>
  <2> HIDE DEF x
  <2>1. FlattenSeq(x \o t) = FlattenSeq(x) \o FlattenSeq(t)
    BY <1>2, <1>6, FlattenConcat DEF x
  <2> QED BY <2>1 DEF x
<1>9. <<h>> \o t \in Seq(Y)
  <2> HIDE DEF Y
  <2> QED BY <1>2, <1>6, ConcatProperties
<1>10. FlattenSeq(Pack(m).fields) = h \o b
  BY <1>2, <1>3, <1>7, <1>8
<1>11. h \o b \in Y /\ Len(h \o b) = Len(h) + Len(b)
  BY <1>1, <1>4, ConcatProperties
<1>12. (h \o b)[1] = h[1] /\ \A j \in 1 .. Len(b) : (h \o b)[HdrLen + j] = b[j]
  <2> HIDE DEF Cell
  <2>1. h \in Seq(Cell) /\ b \in Seq(Cell)
    BY <1>1, <1>4
  <2> QED BY <1>1, <2>1, Constants
<1> QED
  BY <1>1, <1>3, <1>5, <1>9, <1>10, <1>11, <1>12 DEF h, b, s

Packed == {"packed", "unpacking", "unpacked", "released", "partly released"}

Sending ==
  /\ msg \in Message
  /\ phase \in {"send", "packing", "refused", "nomem"} \cup Packed
  /\ phase = "packing" =>
       /\ plan \in Seq(Seq(Cell)) /\ buf \in Seq(Cell) /\ return_code \in Nat
       /\ size = Pack(msg).size /\ size <= MaxMsg /\ Len(buf) <= size
       /\ return_code = 0 => buf \o FlattenSeq(plan) = Bytes(msg)
       /\ return_code # 0 => Need(msg) > MaxMsg
  /\ phase = "refused" => Need(msg) > MaxMsg
  /\ phase \in Packed => buf = Bytes(msg) /\ Len(buf) <= Pack(msg).size /\ Pack(msg).size <= MaxMsg

LEMMA PackStartSends == Sending /\ PackStart => Sending'
<1> SUFFICES ASSUME Sending, PackStart PROVE Sending'
  OBVIOUS
<1> DEFINE p == Pack(msg)
<1>1. msg \in Message /\ msg' = msg /\ phase = "send"
  BY DEF Sending, PackStart
<1>2. p.size \in Int /\ MaxMsg \in Nat /\ Need(msg) \in Nat /\ (Need(msg) <= MaxMsg => p.size = Need(msg))
  BY <1>1, SizeIs, NeedType, SizeExact, Constants
<1>3. CASE p.size > MaxMsg \/ p.size < 0
  <2>1. phase' = "refused"
    BY <1>3 DEF PackStart
  <2>2. Need(msg) > MaxMsg
    <3> HIDE DEF p
    <3> QED BY <1>2, <1>3
  <2> QED BY <1>1, <2>1, <2>2 DEF Sending, Packed
<1>4. CASE ~ (p.size > MaxMsg \/ p.size < 0)
  <2>1. CASE phase' = "nomem"
    BY <1>1, <2>1 DEF Sending, Packed
  <2>2. CASE phase' = "packing" /\ plan' = p.fields /\ size' = p.size /\ buf' = <<>>
    <3>1. p.fields \in Seq(Seq(Cell)) /\ FlattenSeq(p.fields) = Bytes(msg) /\ Bytes(msg) \in Seq(Cell)
      BY <1>1, BytesIs
    <3>2. p.size <= MaxMsg /\ 0 <= p.size
      <4> HIDE DEF p
      <4> QED BY <1>2, <1>4
    <3>3. <<>> \in Seq(Cell) /\ Len(<<>>) = 0
      OBVIOUS
    <3>4. <<>> \o Bytes(msg) = Bytes(msg)
      BY <3>1
    <3>5. return_code' = 0
      BY DEF PackStart
    <3> HIDE DEF p
    <3>6. plan' \in Seq(Seq(Cell)) /\ buf' \in Seq(Cell) /\ size' <= MaxMsg /\ Len(buf') <= size'
      BY <2>2, <3>1, <3>2, <3>3
    <3>7. buf' \o FlattenSeq(plan') = Bytes(msg)
      BY <2>2, <3>1, <3>4
    <3>8. size' = Pack(msg).size
      BY <2>2 DEF p
    <3> QED BY <1>1, <2>2, <3>5, <3>6, <3>7, <3>8 DEF Sending, Packed
  <2> QED BY <1>4, <2>1, <2>2 DEF PackStart
<1> QED
  BY <1>3, <1>4

LEMMA PackFieldSends == Sending /\ PackField => Sending'
<1> SUFFICES ASSUME Sending, PackField PROVE Sending'
  OBVIOUS
<1> DEFINE h == Head(plan)
           t == FlattenSeq(Tail(plan))
           fits == Len(buf) + Len(h) <= size
<1>1. /\ msg \in Message /\ msg' = msg /\ phase = "packing" /\ phase' = "packing" /\ size' = size
      /\ plan \in Seq(Seq(Cell)) /\ plan # <<>> /\ buf \in Seq(Cell) /\ return_code \in Nat
      /\ size = Pack(msg).size /\ size <= MaxMsg /\ Len(buf) <= size
      /\ plan' = Tail(plan)
      /\ buf' = (IF fits THEN buf \o h ELSE buf)
      /\ return_code' = (IF fits THEN return_code ELSE return_code + 1)
  BY DEF Sending, PackField
<1>2. h \in Seq(Cell) /\ Tail(plan) \in Seq(Seq(Cell)) /\ FlattenSeq(plan) = h \o t
  BY <1>1, FlattenHead
<1>3. t \in Seq(Cell)
  BY <1>2, FlattenType
<1>4. return_code = 0 => buf \o (h \o t) = Bytes(msg)
  BY <1>1, <1>2 DEF Sending
<1>5. return_code # 0 => Need(msg) > MaxMsg
  BY <1>1 DEF Sending
<1>6. size \in Int /\ MaxMsg \in Nat
  BY <1>1, SizeIs, Constants
<1> HIDE DEF h, t
<1>7. Len(h) \in Nat /\ Len(buf) \in Nat /\ Len(t) \in Nat
  BY <1>1, <1>2, <1>3
<1>8. CASE fits
  <2>1. buf \o h \in Seq(Cell) /\ Len(buf \o h) = Len(buf) + Len(h)
    BY <1>1, <1>2, ConcatProperties
  <2>2. (buf \o h) \o t = buf \o (h \o t)
    <3>1. buf \in Seq(Cell) /\ h \in Seq(Cell) /\ t \in Seq(Cell)
      BY <1>1, <1>2, <1>3
    <3> DEFINE a == buf
               X == Seq(Cell)
    <3>2. a \in X /\ h \in X /\ t \in X
      BY <3>1
    <3>3. \A p, q, r \in X : (p \o q) \o r = p \o (q \o r)
      BY Associative
    <3> HIDE DEF a, X
    <3>4. (a \o h) \o t = a \o (h \o t)
      BY <3>2, <3>3, Zenon
    <3> QED BY <3>4 DEF a
  <2>3. buf' = buf \o h /\ return_code' = return_code
    BY <1>1, <1>8
  <2>4. buf' \in Seq(Cell) /\ Len(buf') <= size'
    BY <1>1, <1>8, <2>1, <2>3
  <2>5. return_code' = 0 => buf' \o FlattenSeq(plan') = Bytes(msg')
    <3>1. return_code = 0 => (buf \o h) \o t = Bytes(msg)
      BY <1>4, <2>2
    <3> QED BY <1>1, <2>3, <3>1, Zenon DEF t
  <2>6. return_code' # 0 => Need(msg') > MaxMsg
    BY <1>1, <1>5, <2>3
  <2> QED BY <1>1, <1>2, <2>3, <2>4, <2>5, <2>6 DEF Sending, Packed
<1>9. CASE ~ fits
  <2>1. Need(msg) > MaxMsg
    <3> SUFFICES ASSUME return_code = 0, Need(msg) <= MaxMsg PROVE FALSE
      <4>1. Need(msg) \in Nat
        BY <1>1, NeedType
      <4> QED BY <1>5, <1>6, <4>1
    <3>1. size = Need(msg)
      BY <1>1, SizeExact
    <3>2. Len(Bytes(msg)) <= Need(msg) /\ Len(Bytes(msg)) \in Nat /\ Need(msg) \in Nat
      BY <1>1, BytesIs, NeedType, Constants
    <3>3. Len(buf \o (h \o t)) = Len(buf) + (Len(h) + Len(t))
      <4>1. h \o t \in Seq(Cell) /\ Len(h \o t) = Len(h) + Len(t)
        BY <1>2, <1>3, ConcatProperties
      <4> DEFINE u == h \o t
      <4> HIDE DEF u
      <4>2. Len(buf \o u) = Len(buf) + Len(u)
        BY <1>1, <4>1, ConcatProperties DEF u
      <4> QED BY <4>1, <4>2 DEF u
    <3>4. Len(Bytes(msg)) = Len(buf) + (Len(h) + Len(t))
      BY <1>4, <3>3
    <3> QED BY <1>7, <1>9, <3>1, <3>2, <3>4
  <2>2. buf' = buf /\ return_code' = return_code + 1
    BY <1>1, <1>9
  <2>3. return_code' \in Nat /\ return_code' # 0
    BY <1>1, <2>2
  <2> QED BY <1>1, <1>2, <2>1, <2>2, <2>3 DEF Sending, Packed
<1> QED
  BY <1>8, <1>9

LEMMA PackReturnSends == Sending /\ PackReturn => Sending'
<1> SUFFICES ASSUME Sending, PackReturn PROVE Sending'
  OBVIOUS
<1>1. /\ msg \in Message /\ msg' = msg /\ phase = "packing" /\ plan = <<>> /\ buf \in Seq(Cell) /\ buf' = buf
      /\ return_code # 0 => Need(msg) > MaxMsg
      /\ size = Pack(msg).size /\ size <= MaxMsg /\ Len(buf) <= size
      /\ return_code = 0 => buf \o FlattenSeq(<<>>) = Bytes(msg)
      /\ phase' = (IF return_code = 0 THEN "packed" ELSE "refused")
  BY DEF Sending, PackReturn
<1>2. return_code = 0 => buf = Bytes(msg)
  <2>1. buf \o <<>> = buf
    BY <1>1
  <2> QED BY <1>1, <2>1, FlattenNone
<1> QED
  BY <1>1, <1>2 DEF Sending, Packed

-----------------------------------------------------------------------------
(* The inductive invariant: the receiver. *)

Data == {"key_len", "key", "value_len", "value"}

Expected(m, i) ==
  [key_len |-> m.recs[i].key_len, key |-> Key(m, i),
   value_len |-> m.recs[i].value_len, value |-> Value(m, i)]

Cells(m, i, f) ==
  CASE f = "key_len" -> KeyLen(m, i)
    [] f = "key" -> Key(m, i)
    [] f = "value_len" -> ValueLen(m, i)
    [] f = "value" -> Value(m, i)

(* Where a field begins: the record, and the field in it. *)
At(m, i) == HdrLen + Len(Body(m, i - 1))
Off(m, i, f) ==
  LET k == m.recs[i].key_len
      l == IF m.mtype \in Bulk THEN IntLen ELSE 0
  IN  CASE f = "key_len" -> 0
        [] f = "key" -> l
        [] f = "value_len" -> l + k
        [] f = "value" -> l + k + l

Fields(m) == Unpack(m.mtype).fields

LEMMA FieldsAre ==
  ASSUME NEW m, m.mtype \in Kinds
  PROVE  /\ m.mtype \in {"put", "getrm"} => Fields(m) = <<"key", "value">>
         /\ m.mtype \in {"get", "del"} => Fields(m) = <<"key">>
         /\ m.mtype \in {"bput", "bgetrm"} => Fields(m) = <<"key_len", "key", "value_len", "value">>
         /\ m.mtype \in {"bget", "bdel"} => Fields(m) = <<"key_len", "key">>
BY DEF Fields, Unpack, Unpacking, unpack_put_message, unpack_getrm_message, unpack_get_message,
       unpack_del_message, unpack_bput_message, unpack_bgetrm_message, unpack_bget_message, unpack_bdel_message

LEMMA CellsAre ==
  ASSUME NEW m \in Message, NEW i \in 1 .. Len(m.recs)
  PROVE  /\ Cells(m, i, "key_len") = KeyLen(m, i) /\ Cells(m, i, "key") = Key(m, i)
         /\ Cells(m, i, "value_len") = ValueLen(m, i) /\ Cells(m, i, "value") = Value(m, i)
         /\ Len(Cells(m, i, "key_len")) = IntLen /\ Len(Cells(m, i, "key")) = m.recs[i].key_len
         /\ Len(Cells(m, i, "value_len")) = IntLen /\ Len(Cells(m, i, "value")) = m.recs[i].value_len
         /\ \A f \in Data : Cells(m, i, f) \in Seq(Cell) /\ Len(Cells(m, i, f)) \in Nat
<1>1. /\ Cells(m, i, "key_len") = KeyLen(m, i) /\ Cells(m, i, "key") = Key(m, i)
      /\ Cells(m, i, "value_len") = ValueLen(m, i) /\ Cells(m, i, "value") = Value(m, i)
  BY DEF Cells
<1>2. \A f \in Data : f = "key_len" \/ f = "key" \/ f = "value_len" \/ f = "value"
  BY DEF Data
<1>3. \A f \in Data : Cells(m, i, f) \in Seq(Cell) /\ Len(Cells(m, i, f)) \in Nat
  BY <1>1, <1>2, FieldTypes, Constants
<1> QED
  BY <1>1, <1>3, FieldTypes

LEMMA OffsAre ==
  ASSUME NEW m \in Message, NEW i \in 1 .. Len(m.recs)
  PROVE  LET k == m.recs[i].key_len
         IN  /\ m.mtype \in {"put", "getrm", "get", "del"} =>
                  Off(m, i, "key") = 0 /\ Off(m, i, "value") = k
             /\ m.mtype \in {"bput", "bgetrm", "bget", "bdel"} =>
                  /\ Off(m, i, "key_len") = 0 /\ Off(m, i, "key") = IntLen
                  /\ Off(m, i, "value_len") = IntLen + k /\ Off(m, i, "value") = IntLen + k + IntLen
<1>1. m.recs[i].key_len \in Nat
  BY FieldTypes
<1> QED
  BY <1>1, Constants DEF Off, Bulk

(* The fields of a record follow one another, in the order in which they    *)
(* are unpacked.                                                            *)
LEMMA FieldOrder ==
  ASSUME NEW m \in Message, NEW i \in 1 .. Len(m.recs), NEW p \in 1 .. Len(Fields(m))
  PROVE  LET F == Fields(m)
             end == Off(m, i, F[p]) + Len(Cells(m, i, F[p]))
         IN  /\ Len(F) \in Nat /\ F[p] \in Data /\ 1 \in 1 .. Len(F)
             /\ Off(m, i, F[1]) = 0 /\ Off(m, i, F[p]) \in Nat
             /\ p < Len(F) => Off(m, i, F[p + 1]) = end
             /\ p = Len(F) => RecLen(m, i) = end
             /\ end <= RecLen(m, i)
             /\ \A q \in 1 .. Len(F) : F[q] = F[p] => q = p
             /\ F[p] = "key" => m.mtype \in Single \/ \E q \in 1 .. p - 1 : F[q] = "key_len"
             /\ F[p] = "value" => m.mtype \in Single \/ \E q \in 1 .. p - 1 : F[q] = "value_len"
<1> DEFINE F == Fields(m)
           k == m.recs[i].key_len
           v == m.recs[i].value_len
           O(f) == Off(m, i, f)
           L(f) == Len(Cells(m, i, f))
<1>1. k \in Nat /\ v \in Nat /\ IntLen \in Nat
  BY FieldTypes, Constants
<1>2. m.mtype \in Kinds
  <2>1. Len(m.recs) # 0
    BY MessageFacts
  <2> QED BY <2>1, WithRecords
<1>3. L("key_len") = IntLen /\ L("key") = k /\ L("value_len") = IntLen /\ L("value") = v
  BY CellsAre
<1>4. CASE m.mtype \in {"put", "getrm"}
  <2>1. F = <<"key", "value">>
    BY <1>2, <1>4, FieldsAre
  <2>2. Len(F) = 2 /\ F[1] = "key" /\ F[2] = "value" /\ p \in 1 .. 2
    BY <2>1
  <2>3. O("key") = 0 /\ O("value") = k
    BY <1>4, OffsAre
  <2>4. RecLen(m, i) = k + v
    BY <1>4 DEF RecLen
  <2>5. m.mtype \in Single
    BY <1>4 DEF Single
  <2>6. \A f \in {"key_len", "key", "value_len", "value"} : f \in Data
    BY DEF Data
  <2> HIDE DEF k, v, O, L, F
  <2>7. CASE p = 1
    BY <1>1, <1>3, <2>2, <2>3, <2>4, <2>5, <2>6, <2>7 DEF k, v, O, L, F
  <2>8. CASE p = 2
    BY <1>1, <1>3, <2>2, <2>3, <2>4, <2>5, <2>6, <2>8 DEF k, v, O, L, F
  <2> QED BY <2>2, <2>7, <2>8
<1>5. CASE m.mtype \in {"get", "del"}
  <2>1. F = <<"key">>
    BY <1>2, <1>5, FieldsAre
  <2>2. Len(F) = 1 /\ F[1] = "key" /\ p \in 1 .. 1
    BY <2>1
  <2>3. O("key") = 0
    BY <1>5, OffsAre
  <2>4. RecLen(m, i) = k
    BY <1>5 DEF RecLen
  <2>5. m.mtype \in Single
    BY <1>5 DEF Single
  <2>6. \A f \in {"key_len", "key", "value_len", "value"} : f \in Data
    BY DEF Data
  <2> HIDE DEF k, v, O, L, F
  <2>7. CASE p = 1
    BY <1>1, <1>3, <2>2, <2>3, <2>4, <2>5, <2>6, <2>7 DEF k, v, O, L, F
  <2> QED BY <2>2, <2>7
<1>6. CASE m.mtype \in {"bput", "bgetrm"}
  <2>1. F = <<"key_len", "key", "value_len", "value">>
    BY <1>2, <1>6, FieldsAre
  <2>2. Len(F) = 4 /\ F[1] = "key_len" /\ F[2] = "key" /\ F[3] = "value_len" /\ F[4] = "value" /\ p \in 1 .. 4
    BY <2>1
  <2>3. O("key_len") = 0 /\ O("key") = IntLen /\ O("value_len") = IntLen + k /\ O("value") = IntLen + k + IntLen
    BY <1>6, OffsAre
  <2>4. RecLen(m, i) = 2 * IntLen + k + v
    BY <1>6 DEF RecLen
  <2>5. m.mtype \notin Single
    BY <1>6 DEF Single
  <2>6. \A f \in {"key_len", "key", "value_len", "value"} : f \in Data
    BY DEF Data
  <2> HIDE DEF k, v, O, L, F
  <2>7. CASE p = 1
    BY <1>1, <1>3, <2>2, <2>3, <2>4, <2>5, <2>6, <2>7 DEF k, v, O, L, F
  <2>8. CASE p = 2
    <3>1. F[p] = "key" /\ F[p] \in Data /\ Len(F) \in Nat /\ 1 \in 1 .. Len(F)
      BY <2>2, <2>6, <2>8
    <3>2. \A q \in 1 .. Len(F) : F[q] = F[p] => q = p
      <4> SUFFICES ASSUME NEW q \in 1 .. 4, F[q] = F[p] PROVE q = p
        BY <2>2
      <4>1. q = 1 \/ q = 2 \/ q = 3 \/ q = 4
        OBVIOUS
      <4> QED BY <2>2, <2>8, <4>1
    <3>3. O(F[1]) = 0 /\ O(F[p]) \in Nat /\ O(F[p]) + L(F[p]) <= RecLen(m, i)
      BY <1>1, <1>3, <2>2, <2>3, <2>4, <2>8
    <3>4. (p < Len(F) => O(F[p + 1]) = O(F[p]) + L(F[p])) /\ (p = Len(F) => RecLen(m, i) = O(F[p]) + L(F[p]))
      BY <1>1, <1>3, <2>2, <2>3, <2>4, <2>8
    <3>5. (F[p] = "key" => 1 \in 1 .. p - 1 /\ F[1] = "key_len") /\ (F[p] = "value" => 3 \in 1 .. p - 1 /\ F[3] = "value_len")
      BY <2>2, <2>8
    <3> QED BY <3>1, <3>2, <3>3, <3>4, <3>5, Zenon DEF O, L, F
  <2>9. CASE p = 3
    <3>1. F[p] = "value_len" /\ F[p] \in Data /\ Len(F) \in Nat /\ 1 \in 1 .. Len(F)
      BY <2>2, <2>6, <2>9
    <3>2. \A q \in 1 .. Len(F) : F[q] = F[p] => q = p
      <4> SUFFICES ASSUME NEW q \in 1 .. 4, F[q] = F[p] PROVE q = p
        BY <2>2
      <4>1. q = 1 \/ q = 2 \/ q = 3 \/ q = 4
        OBVIOUS
      <4> QED BY <2>2, <2>9, <4>1
    <3>3. O(F[1]) = 0 /\ O(F[p]) \in Nat /\ O(F[p]) + L(F[p]) <= RecLen(m, i)
      BY <1>1, <1>3, <2>2, <2>3, <2>4, <2>9
    <3>4. (p < Len(F) => O(F[p + 1]) = O(F[p]) + L(F[p])) /\ (p = Len(F) => RecLen(m, i) = O(F[p]) + L(F[p]))
      BY <1>1, <1>3, <2>2, <2>3, <2>4, <2>9
    <3>5. (F[p] = "key" => 1 \in 1 .. p - 1 /\ F[1] = "key_len") /\ (F[p] = "value" => 3 \in 1 .. p - 1 /\ F[3] = "value_len")
      BY <2>2, <2>9
    <3> QED BY <3>1, <3>2, <3>3, <3>4, <3>5, Zenon DEF O, L, F
  <2>10. CASE p = 4
    <3>1. F[p] = "value" /\ F[p] \in Data /\ Len(F) \in Nat /\ 1 \in 1 .. Len(F)
      BY <2>2, <2>6, <2>10
    <3>2. \A q \in 1 .. Len(F) : F[q] = F[p] => q = p
      <4> SUFFICES ASSUME NEW q \in 1 .. 4, F[q] = F[p] PROVE q = p
        BY <2>2
      <4>1. q = 1 \/ q = 2 \/ q = 3 \/ q = 4
        OBVIOUS
      <4> QED BY <2>2, <2>10, <4>1
    <3>3. O(F[1]) = 0 /\ O(F[p]) \in Nat /\ O(F[p]) + L(F[p]) <= RecLen(m, i)
      BY <1>1, <1>3, <2>2, <2>3, <2>4, <2>10
    <3>4. (p < Len(F) => O(F[p + 1]) = O(F[p]) + L(F[p])) /\ (p = Len(F) => RecLen(m, i) = O(F[p]) + L(F[p]))
      BY <1>1, <1>3, <2>2, <2>3, <2>4, <2>10
    <3>5. (F[p] = "key" => 1 \in 1 .. p - 1 /\ F[1] = "key_len") /\ (F[p] = "value" => 3 \in 1 .. p - 1 /\ F[3] = "value_len")
      BY <2>2, <2>10
    <3> QED BY <3>1, <3>2, <3>3, <3>4, <3>5, Zenon DEF O, L, F
  <2> QED BY <2>2, <2>7, <2>8, <2>9, <2>10
<1>7. CASE m.mtype \in {"bget", "bdel"}
  <2>1. F = <<"key_len", "key">>
    BY <1>2, <1>7, FieldsAre
  <2>2. Len(F) = 2 /\ F[1] = "key_len" /\ F[2] = "key" /\ p \in 1 .. 2
    BY <2>1
  <2>3. O("key_len") = 0 /\ O("key") = IntLen
    BY <1>7, OffsAre
  <2>4. RecLen(m, i) = IntLen + k
    BY <1>7 DEF RecLen
  <2>5. m.mtype \notin Single
    BY <1>7 DEF Single
  <2>6. \A f \in {"key_len", "key", "value_len", "value"} : f \in Data
    BY DEF Data
  <2> HIDE DEF k, v, O, L, F
  <2>7. CASE p = 1
    BY <1>1, <1>3, <2>2, <2>3, <2>4, <2>5, <2>6, <2>7 DEF k, v, O, L, F
  <2>8. CASE p = 2
    BY <1>1, <1>3, <2>2, <2>3, <2>4, <2>5, <2>6, <2>8 DEF k, v, O, L, F
  <2> QED BY <2>2, <2>7, <2>8
<1> QED
  BY <1>2, <1>4, <1>5, <1>6, <1>7 DEF Kinds

Two(w, s, t) ==
  /\ Len(w) = Len(s) + Len(t) /\ Len(s) \in Nat /\ Len(t) \in Nat
  /\ \A j \in 1 .. Len(s) : w[j] = s[j]
  /\ \A j \in 1 .. Len(t) : w[Len(s) + j] = t[j]

LEMMA InTwo ==
  ASSUME NEW X, NEW s \in Seq(X), NEW t \in Seq(X)
  PROVE  s \o t \in Seq(X) /\ Two(s \o t, s, t)
BY DEF Two

Four(w, a, b, c, d) ==
  /\ \A j \in 1 .. Len(a) : w[j] = a[j]
  /\ \A j \in 1 .. Len(b) : w[Len(a) + j] = b[j]
  /\ \A j \in 1 .. Len(c) : w[Len(a) + Len(b) + j] = c[j]
  /\ \A j \in 1 .. Len(d) : w[Len(a) + Len(b) + Len(c) + j] = d[j]

LEMMA InFour ==
  ASSUME NEW X, NEW a \in Seq(X), NEW b \in Seq(X), NEW c \in Seq(X), NEW d \in Seq(X)
  PROVE  Four(((a \o b) \o c) \o d, a, b, c, d)
<1> DEFINE x == a \o b
           y == x \o c
           w == y \o d
<1>x. x \in Seq(X) /\ Two(x, a, b)
  BY InTwo
<1> HIDE DEF x
<1>y. y \in Seq(X) /\ Two(y, x, c)
  BY <1>x, InTwo, Zenon
<1> HIDE DEF y
<1>w. Two(w, y, d)
  BY <1>y, InTwo, Zenon
<1> HIDE DEF w
<1>1. /\ Len(x) = Len(a) + Len(b) /\ Len(a) \in Nat /\ Len(b) \in Nat
      /\ \A j \in 1 .. Len(a) : x[j] = a[j]
      /\ \A j \in 1 .. Len(b) : x[Len(a) + j] = b[j]
  BY <1>x DEF Two
<1>2. /\ Len(y) = Len(x) + Len(c) /\ Len(c) \in Nat
      /\ \A j \in 1 .. Len(x) : y[j] = x[j]
      /\ \A j \in 1 .. Len(c) : y[Len(x) + j] = c[j]
  BY <1>y DEF Two
<1>3. /\ \A j \in 1 .. Len(y) : w[j] = y[j]
      /\ \A j \in 1 .. Len(d) : w[Len(y) + j] = d[j]
  BY <1>w DEF Two
<1> DEFINE la == Len(a)
           lb == Len(b)
           lc == Len(c)
<1>4. la \in Nat /\ lb \in Nat /\ lc \in Nat /\ Len(x) = la + lb /\ Len(y) = la + lb + lc
  BY <1>1, <1>2
<1> HIDE DEF la, lb, lc
<1>5. \A j \in 1 .. la : w[j] = a[j]
  <2> SUFFICES ASSUME NEW j \in 1 .. la PROVE w[j] = a[j]
    OBVIOUS
  <2>1. j \in 1 .. Len(x) /\ j \in 1 .. Len(y) /\ j \in 1 .. Len(a)
    BY <1>4 DEF la
  <2> QED BY <1>1, <1>2, <1>3, <2>1
<1>6. \A j \in 1 .. lb : w[la + j] = b[j]
  <2> SUFFICES ASSUME NEW j \in 1 .. lb PROVE w[la + j] = b[j]
    OBVIOUS
  <2>1. la + j \in 1 .. Len(x) /\ la + j \in 1 .. Len(y)
    BY <1>4
  <2>2. x[la + j] = b[j]
    BY <1>1 DEF la, lb
  <2> QED BY <1>2, <1>3, <2>1, <2>2
<1>7. \A j \in 1 .. lc : w[la + lb + j] = c[j]
  <2> SUFFICES ASSUME NEW j \in 1 .. lc PROVE w[la + lb + j] = c[j]
    OBVIOUS
  <2>1. la + lb + j \in 1 .. Len(y)
    BY <1>4
  <2>2. y[la + lb + j] = c[j]
    BY <1>2, <1>4 DEF lc
  <2> QED BY <1>3, <2>1, <2>2
<1>8. \A j \in 1 .. Len(d) : w[la + lb + lc + j] = d[j]
  BY <1>3, <1>4
<1> QED
  BY <1>5, <1>6, <1>7, <1>8 DEF la, lb, lc, w, y, x, Four

(* A field of a record is where its offset says. *)
LEMMA InRecord ==
  ASSUME NEW m \in Message, NEW i \in 1 .. Len(m.recs), NEW p \in 1 .. Len(Fields(m)),
         NEW j \in 1 .. Len(Cells(m, i, Fields(m)[p]))
  PROVE  RecCells(m, i)[Off(m, i, Fields(m)[p]) + j] = Cells(m, i, Fields(m)[p])[j]
<1> DEFINE F == Fields(m)
           a == KeyLen(m, i)
           b == Key(m, i)
           c == ValueLen(m, i)
           d == Value(m, i)
           k == m.recs[i].key_len
<1>1. /\ a \in Seq(Cell) /\ b \in Seq(Cell) /\ c \in Seq(Cell) /\ d \in Seq(Cell)
      /\ Len(a) = IntLen /\ Len(b) = k /\ Len(c) = IntLen /\ k \in Nat /\ IntLen \in Nat
  BY FieldTypes, Constants
<1>2. m.mtype \in Kinds
  <2>1. Len(m.recs) # 0
    BY MessageFacts
  <2> QED BY <2>1, WithRecords
<1>3. /\ Cells(m, i, "key_len") = a /\ Cells(m, i, "key") = b
      /\ Cells(m, i, "value_len") = c /\ Cells(m, i, "value") = d
  BY CellsAre
<1>j. j \in Nat /\ 0 + j = j
  <2>1. F[p] \in Data
    BY FieldOrder
  <2>2. Len(Cells(m, i, F[p])) \in Nat
    BY <2>1, CellsAre
  <2> QED BY <2>2
<1>4. CASE m.mtype \in {"put", "getrm"}
  <2>1. F = <<"key", "value">>
    BY <1>2, <1>4, FieldsAre
  <2>2. F[1] = "key" /\ F[2] = "value" /\ p \in 1 .. 2
    BY <2>1
  <2>3. Off(m, i, "key") = 0 /\ Off(m, i, "value") = k
    BY <1>4, OffsAre
  <2> DEFINE w == RecCells(m, i)
  <2>4. w = b \o d
    BY <1>4 DEF RecCells
  <2> HIDE DEF a, b, c, d, k, F, w
  <2>p. Two(w, b, d)
    BY <1>1, <2>4, InTwo, Zenon
  <2>5. (\A x \in 1 .. Len(b) : w[x] = b[x])
        /\ (\A x \in 1 .. Len(d) : w[Len(b) + x] = d[x])
    BY <2>p DEF Two
  <2>6. CASE p = 1
    <3>1. F[p] = "key" /\ Cells(m, i, F[p]) = b
      BY <1>3, <2>2, <2>6
    <3>2. j \in 1 .. Len(b)
      BY <3>1 DEF F
    <3>3. w[Off(m, i, "key") + j] = b[j]
      BY <1>1, <1>j, <2>3, <2>5, <3>2
    <3> QED BY <3>1, <3>3 DEF F, w
  <2>7. CASE p = 2
    <3>1. F[p] = "value" /\ Cells(m, i, F[p]) = d
      BY <1>3, <2>2, <2>7
    <3>2. j \in 1 .. Len(d)
      BY <3>1 DEF F
    <3>3. w[Off(m, i, "value") + j] = d[j]
      BY <1>1, <1>j, <2>3, <2>5, <3>2
    <3> QED BY <3>1, <3>3 DEF F, w
  <2> QED BY <2>2, <2>6, <2>7
<1>5. CASE m.mtype \in {"get", "del"}
  <2>1. F = <<"key">>
    BY <1>2, <1>5, FieldsAre
  <2>2. F[1] = "key" /\ p \in 1 .. 1
    BY <2>1
  <2>3. Off(m, i, "key") = 0
    BY <1>5, OffsAre
  <2> DEFINE w == RecCells(m, i)
  <2>4. w = b
    BY <1>5 DEF RecCells
  <2> HIDE DEF a, b, c, d, k, F, w
  <2>5. (\A x \in 1 .. Len(b) : w[x] = b[x])
    BY <1>1, <2>4
  <2>6. CASE p = 1
    <3>1. F[p] = "key" /\ Cells(m, i, F[p]) = b
      BY <1>3, <2>2, <2>6
    <3>2. j \in 1 .. Len(b)
      BY <3>1 DEF F
    <3>3. w[Off(m, i, "key") + j] = b[j]
      BY <1>1, <1>j, <2>3, <2>5, <3>2
    <3> QED BY <3>1, <3>3 DEF F, w
  <2> QED BY <2>2, <2>6
<1>6. CASE m.mtype \in {"bput", "bgetrm"}
  <2>1. F = <<"key_len", "key", "value_len", "value">>
    BY <1>2, <1>6, FieldsAre
  <2>2. F[1] = "key_len" /\ F[2] = "key" /\ F[3] = "value_len" /\ F[4] = "value" /\ p \in 1 .. 4
    BY <2>1
  <2>3. Off(m, i, "key_len") = 0 /\ Off(m, i, "key") = IntLen /\ Off(m, i, "value_len") = IntLen + k /\ Off(m, i, "value") = IntLen + k + IntLen
    BY <1>6, OffsAre
  <2> DEFINE w == RecCells(m, i)
  <2>4. w = ((a \o b) \o c) \o d
    BY <1>6 DEF RecCells
  <2> HIDE DEF a, b, c, d, k, F, w
  <2>p. Four(w, a, b, c, d)
    BY <1>1, <2>4, InFour, Zenon
  <2>5. /\ (\A x \in 1 .. Len(a) : w[x] = a[x])
        /\ (\A x \in 1 .. Len(b) : w[Len(a) + x] = b[x])
        /\ (\A x \in 1 .. Len(c) : w[Len(a) + Len(b) + x] = c[x])
        /\ (\A x \in 1 .. Len(d) : w[Len(a) + Len(b) + Len(c) + x] = d[x])
    BY <2>p DEF Four
  <2>6. CASE p = 1
    <3>1. F[p] = "key_len" /\ Cells(m, i, F[p]) = a
      BY <1>3, <2>2, <2>6
    <3>2. j \in 1 .. Len(a)
      BY <3>1 DEF F
    <3>3. w[Off(m, i, "key_len") + j] = a[j]
      BY <1>1, <1>j, <2>3, <2>5, <3>2
    <3> QED BY <3>1, <3>3 DEF F, w
  <2>7. CASE p = 2
    <3>1. F[p] = "key" /\ Cells(m, i, F[p]) = b
      BY <1>3, <2>2, <2>7
    <3>2. j \in 1 .. Len(b)
      BY <3>1 DEF F
    <3>3. w[Off(m, i, "key") + j] = b[j]
      BY <1>1, <1>j, <2>3, <2>5, <3>2
    <3> QED BY <3>1, <3>3 DEF F, w
  <2>8. CASE p = 3
    <3>1. F[p] = "value_len" /\ Cells(m, i, F[p]) = c
      BY <1>3, <2>2, <2>8
    <3>2. j \in 1 .. Len(c)
      BY <3>1 DEF F
    <3>3. w[Off(m, i, "value_len") + j] = c[j]
      BY <1>1, <1>j, <2>3, <2>5, <3>2
    <3> QED BY <3>1, <3>3 DEF F, w
  <2>9. CASE p = 4
    <3>1. F[p] = "value" /\ Cells(m, i, F[p]) = d
      BY <1>3, <2>2, <2>9
    <3>2. j \in 1 .. Len(d)
      BY <3>1 DEF F
    <3>3. w[Off(m, i, "value") + j] = d[j]
      BY <1>1, <1>j, <2>3, <2>5, <3>2
    <3> QED BY <3>1, <3>3 DEF F, w
  <2> QED BY <2>2, <2>6, <2>7, <2>8, <2>9
<1>7. CASE m.mtype \in {"bget", "bdel"}
  <2>1. F = <<"key_len", "key">>
    BY <1>2, <1>7, FieldsAre
  <2>2. F[1] = "key_len" /\ F[2] = "key" /\ p \in 1 .. 2
    BY <2>1
  <2>3. Off(m, i, "key_len") = 0 /\ Off(m, i, "key") = IntLen
    BY <1>7, OffsAre
  <2> DEFINE w == RecCells(m, i)
  <2>4. w = a \o b
    BY <1>7 DEF RecCells
  <2> HIDE DEF a, b, c, d, k, F, w
  <2>p. Two(w, a, b)
    BY <1>1, <2>4, InTwo, Zenon
  <2>5. (\A x \in 1 .. Len(a) : w[x] = a[x])
        /\ (\A x \in 1 .. Len(b) : w[Len(a) + x] = b[x])
    BY <2>p DEF Two
  <2>6. CASE p = 1
    <3>1. F[p] = "key_len" /\ Cells(m, i, F[p]) = a
      BY <1>3, <2>2, <2>6
    <3>2. j \in 1 .. Len(a)
      BY <3>1 DEF F
    <3>3. w[Off(m, i, "key_len") + j] = a[j]
      BY <1>1, <1>j, <2>3, <2>5, <3>2
    <3> QED BY <3>1, <3>3 DEF F, w
  <2>7. CASE p = 2
    <3>1. F[p] = "key" /\ Cells(m, i, F[p]) = b
      BY <1>3, <2>2, <2>7
    <3>2. j \in 1 .. Len(b)
      BY <3>1 DEF F
    <3>3. w[Off(m, i, "key") + j] = b[j]
      BY <1>1, <1>j, <2>3, <2>5, <3>2
    <3> QED BY <3>1, <3>3 DEF F, w
  <2> QED BY <2>2, <2>6, <2>7
<1> QED
  BY <1>2, <1>4, <1>5, <1>6, <1>7 DEF Kinds

(* A field is found in the bytes of the message. *)
LEMMA InBytes ==
  ASSUME NEW m \in Message, NEW i \in 1 .. Len(m.recs), NEW p \in 1 .. Len(Fields(m))
  PROVE  LET x == Cells(m, i, Fields(m)[p])
             o == At(m, i) + Off(m, i, Fields(m)[p])
         IN  /\ x \in Seq(Cell) /\ Len(x) \in Nat /\ o \in Nat /\ o + Len(x) <= Len(Bytes(m))
             /\ \A j \in 1 .. Len(x) : Bytes(m)[o + j] = x[j]
<1> DEFINE f == Fields(m)[p]
           x == Cells(m, i, f)
           o == Off(m, i, f)
           n == Len(m.recs)
           b == Body(m, n)
           c == Body(m, i)
           d == Body(m, i - 1)
           e == RecCells(m, i)
<1>1. f \in Data /\ o \in Nat /\ o + Len(x) <= RecLen(m, i)
  BY FieldOrder
<1>2. x \in Seq(Cell) /\ Len(x) \in Nat
  BY <1>1, CellsAre
<1>3. i \in 0 .. n /\ i - 1 \in 0 .. n
  BY MessageFacts
<1>4. d \in Seq(Cell) /\ e \in Seq(Cell) /\ Len(e) = RecLen(m, i) /\ RecLen(m, i) \in Nat
  BY <1>3, BodySeq, RecCellsType
<1>5. c = d \o e
  BY BodyNext
<1>6. Len(c) <= Len(b) /\ \A y \in 1 .. Len(c) : b[y] = c[y]
  BY <1>3, BodyPrefix
<1>7. Len(Bytes(m)) = HdrLen + Len(b) /\ \A y \in 1 .. Len(b) : Bytes(m)[HdrLen + y] = b[y]
  BY BytesIs
<1>8. \A j \in 1 .. Len(x) : e[o + j] = x[j]
  BY InRecord
<1>b. Len(b) \in Nat
  BY NeedType
<1>9. At(m, i) = HdrLen + Len(d)
  BY DEF At
<1> HIDE DEF f, x, o, b, c, d, e
<1>p. Two(c, d, e)
  BY <1>4, <1>5, InTwo, Zenon
<1>10. /\ Len(c) = Len(d) + Len(e) /\ Len(d) \in Nat /\ Len(e) \in Nat
       /\ \A y \in 1 .. Len(e) : c[Len(d) + y] = e[y]
  BY <1>p DEF Two
<1>11. At(m, i) + o \in Nat /\ (At(m, i) + o) + Len(x) <= Len(Bytes(m))
  <2> DEFINE lx == Len(x)
             lb == Len(b)
             lc == Len(c)
             ld == Len(d)
             le == Len(e)
             lB == Len(Bytes(m))
             a == At(m, i)
  <2>1. /\ o \in Nat /\ lx \in Nat /\ lb \in Nat /\ ld \in Nat /\ le \in Nat /\ HdrLen \in Nat
        /\ lc = ld + le /\ o + lx <= le /\ lc <= lb /\ lB = HdrLen + lb /\ a = HdrLen + ld
    BY <1>1, <1>2, <1>4, <1>6, <1>7, <1>9, <1>10, <1>b, Constants
  <2> HIDE DEF lx, lb, lc, ld, le, lB, a
  <2>2. a + o \in Nat /\ (a + o) + lx <= lB
    BY <2>1
  <2> QED BY <2>2 DEF lx, lB, a
<1>12. \A j \in 1 .. Len(x) : Bytes(m)[(At(m, i) + o) + j] = x[j]
  <2> SUFFICES ASSUME NEW j \in 1 .. Len(x) PROVE Bytes(m)[(At(m, i) + o) + j] = x[j]
    OBVIOUS
  <2>1. o + j \in 1 .. Len(e)
    BY <1>1, <1>2, <1>4
  <2>2. c[Len(d) + (o + j)] = x[j]
    BY <1>8, <1>10, <2>1
  <2>3. Len(d) + (o + j) \in 1 .. Len(c) /\ Len(d) + (o + j) \in 1 .. Len(b)
    BY <1>6, <1>10, <1>b, <2>1
  <2>4. Bytes(m)[HdrLen + (Len(d) + (o + j))] = x[j]
    BY <1>6, <1>7, <2>2, <2>3
  <2>5. HdrLen + (Len(d) + (o + j)) = (At(m, i) + o) + j
    BY <1>1, <1>2, <1>9, <1>10, Constants
  <2> QED BY <2>4, <2>5
<1> QED
  BY <1>2, <1>11, <1>12 DEF f, x, o

(* Field f of record i of m is still to be unpacked when field p of record r *)
(* is next.                                                                 *)
Left(m, r, p, i, f) ==
  \E q \in 1 .. Len(Fields(m)) : Fields(m)[q] = f /\ (i > r \/ (i = r /\ q >= p))

Unread(i, f) == Left(msg, rec, field, i, f)

OutRecord == [key_len : Nat, key : Seq(Cell), value_len : Nat, value : Seq(Cell)]

Receiving ==
  /\ phase = "unpacking" =>
       /\ msg.mtype # "base"
       /\ rec \in 1 .. Len(msg.recs) + 1 /\ field \in Nat /\ return_code = 0
       /\ rec <= Len(msg.recs) =>
            /\ field \in 1 .. Len(Fields(msg))
            /\ mesg_idx = At(msg, rec) + Off(msg, rec, Fields(msg)[field])
       /\ out \in [1 .. Len(msg.recs) -> OutRecord]
       /\ \A i \in 1 .. Len(msg.recs), f \in Data : Unread(i, f) \/ out[i][f] = Expected(msg, i)[f]
  /\ phase \in {"unpacked", "released", "partly released"} =>
       \A i \in 1 .. Len(msg.recs) : out[i] = Expected(msg, i)

LEMMA FirstField ==
  ASSUME NEW m \in Message, Len(m.recs) # 0
  PROVE  1 \in 1 .. Len(Fields(m)) /\ Len(Fields(m)) \in Nat
<1>1. m.mtype \in Kinds
  BY WithRecords
<1> QED
  BY <1>1, FieldsAre DEF Kinds

(* What a message of its type does not carry is as UnpackStart sets it. *)
LEMMA Absent ==
  ASSUME NEW m \in Message, NEW i \in 1 .. Len(m.recs), NEW f \in Data,
         ~ \E q \in 1 .. Len(Fields(m)) : Fields(m)[q] = f
  PROVE  /\ f = "key_len" => m.mtype \in Single
         /\ f = "value_len" => m.mtype \in Single \/ m.recs[i].value_len = 0
         /\ f # "key"
         /\ f = "value" => Value(m, i) = <<>>
<1>1. m.mtype \in Kinds
  <2>1. Len(m.recs) # 0
    BY MessageFacts
  <2> QED BY <2>1, WithRecords
<1>2. m.mtype \notin WithValue => m.recs[i].value_len = 0 /\ Value(m, i) = <<>>
  <2> SUFFICES ASSUME m.mtype \notin WithValue PROVE m.recs[i].value_len = 0 /\ Value(m, i) = <<>>
    OBVIOUS
  <2>1. m.recs[i].value_len = 0
    BY MessageFacts
  <2>2. Value(m, i) = [j \in 1 .. 0 |-> <<"value", i, j, 0>>]
    BY <2>1 DEF Value, Field
  <2> QED BY <2>1, <2>2
<1>3. CASE m.mtype \in {"put", "getrm"}
  <2>1. Fields(m) = <<"key", "value">> /\ m.mtype \in Single
    BY <1>1, <1>3, FieldsAre DEF Single
  <2>2. 1 \in 1 .. Len(Fields(m)) /\ 2 \in 1 .. Len(Fields(m)) /\ Fields(m)[1] = "key" /\ Fields(m)[2] = "value"
    BY <2>1
  <2> QED BY <2>1, <2>2
<1>4. CASE m.mtype \in {"get", "del"}
  <2>1. Fields(m) = <<"key">> /\ m.mtype \in Single /\ m.mtype \notin WithValue
    BY <1>1, <1>4, FieldsAre DEF Single, WithValue
  <2>2. 1 \in 1 .. Len(Fields(m)) /\ Fields(m)[1] = "key"
    BY <2>1
  <2> QED BY <1>2, <2>1, <2>2
<1>5. CASE m.mtype \in {"bput", "bgetrm"}
  <2>1. Fields(m) = <<"key_len", "key", "value_len", "value">>
    BY <1>1, <1>5, FieldsAre
  <2>2. /\ 1 \in 1 .. Len(Fields(m)) /\ Fields(m)[1] = "key_len"
        /\ 2 \in 1 .. Len(Fields(m)) /\ Fields(m)[2] = "key"
        /\ 3 \in 1 .. Len(Fields(m)) /\ Fields(m)[3] = "value_len"
        /\ 4 \in 1 .. Len(Fields(m)) /\ Fields(m)[4] = "value"
    BY <2>1
  <2> QED BY <2>2
<1>6. CASE m.mtype \in {"bget", "bdel"}
  <2>1. Fields(m) = <<"key_len", "key">> /\ m.mtype \notin WithValue
    BY <1>1, <1>6, FieldsAre DEF WithValue
  <2>2. /\ 1 \in 1 .. Len(Fields(m)) /\ Fields(m)[1] = "key_len"
        /\ 2 \in 1 .. Len(Fields(m)) /\ Fields(m)[2] = "key"
    BY <2>1
  <2> QED BY <1>2, <2>1, <2>2
<1> QED
  BY <1>1, <1>3, <1>4, <1>5, <1>6 DEF Kinds

LEMMA ExpectedIs ==
  ASSUME NEW m \in Message, NEW i \in 1 .. Len(m.recs)
  PROVE  /\ Expected(m, i)["key_len"] = m.recs[i].key_len /\ Expected(m, i)["key"] = Key(m, i)
         /\ Expected(m, i)["value_len"] = m.recs[i].value_len /\ Expected(m, i)["value"] = Value(m, i)
         /\ Expected(m, i) \in OutRecord
<1>1. /\ m.recs[i].key_len \in Nat /\ m.recs[i].value_len \in Nat
      /\ Key(m, i) \in Seq(Cell) /\ Value(m, i) \in Seq(Cell)
  BY FieldTypes
<1> QED
  BY <1>1 DEF Expected, OutRecord

(* The size the receiver believes is the one that was computed. *)
LEMMA HdrSizeIs ==
  ASSUME Sending, phase \in Packed
  PROVE  HdrSize = Pack(msg).size /\ HdrSize \in Nat /\ Len(Bytes(msg)) \in Nat
         /\ HdrLen <= Len(Bytes(msg)) /\ Len(Bytes(msg)) <= HdrSize
<1>1. msg \in Message /\ buf = Bytes(msg) /\ Len(buf) <= Pack(msg).size
  BY DEF Sending
<1> DEFINE s == Pack(msg).size
<1>2. s \in Int /\ Bytes(msg)[1] = <<"header", 0, 1, s>>
  BY <1>1, SizeIs, BytesIs
<1>3. Len(Bytes(msg)) \in Nat /\ HdrLen <= Len(Bytes(msg))
  BY <1>1, BytesIs, NeedType, Constants
<1> HIDE DEF s
<1>4. HdrSize = s
  BY <1>1, <1>2 DEF HdrSize
<1>5. Len(Bytes(msg)) <= s
  BY <1>1 DEF s
<1> QED
  BY <1>2, <1>3, <1>4, <1>5 DEF s

LEMMA StartReceives == Sending /\ UnpackStart => Receiving'
<1> SUFFICES ASSUME Sending, UnpackStart PROVE Receiving'
  OBVIOUS
<1> DEFINE n == Len(msg.recs)
<1>1. msg \in Message /\ msg' = msg /\ phase = "packed"
  BY DEF Sending, UnpackStart
<1>2. n \in Nat /\ DOMAIN msg.recs = 1 .. n
  BY <1>1, MessageFacts
<1>3. CASE phase' = "unpacked" /\ msg.mtype = "base"
  <2>1. n = 0
    BY <1>1, <1>3, MessageFacts DEF Bare
  <2> QED BY <1>1, <1>3, <2>1 DEF Receiving
<1>4. CASE phase' = "nomem"
  BY <1>4 DEF Receiving
<1>5. CASE phase' = "unpacking"
  <2> DEFINE S(i) == [key_len |-> IF msg.mtype \in Single THEN msg.recs[i].key_len ELSE 0,
                      value_len |-> IF msg.mtype \in Single THEN msg.recs[i].value_len ELSE 0,
                      key |-> <<>>, value |-> <<>>]
  <2>1. /\ msg.mtype # "base" /\ mesg_idx' = HdrLen /\ rec' = 1 /\ field' = 1
        /\ return_code' = (IF HdrLen > HdrSize THEN 1 ELSE 0)
        /\ out' = [i \in DOMAIN msg.recs |-> S(i)]
    BY <1>5 DEF UnpackStart
  <2>2. return_code' = 0
    <3>1. HdrLen <= HdrSize
      BY <1>1, HdrSizeIs, Constants DEF Packed
    <3>2. HdrSize \in Nat
      BY <1>1, HdrSizeIs DEF Packed
    <3> QED BY <2>1, <3>1, <3>2, Constants
  <2>3. \A i \in 1 .. n : S(i) \in OutRecord
    <3> SUFFICES ASSUME NEW i \in 1 .. n PROVE S(i) \in OutRecord
      OBVIOUS
    <3>1. msg.recs[i].key_len \in Nat /\ msg.recs[i].value_len \in Nat /\ <<>> \in Seq(Cell)
      BY <1>1, FieldTypes
    <3> QED BY <3>1 DEF OutRecord
  <2>4. out' \in [1 .. n -> OutRecord]
    <3> HIDE DEF S
    <3> QED BY <1>2, <2>1, <2>3
  <2>5. \A i \in 1 .. n, f \in Data : Left(msg, 1, 1, i, f) \/ out'[i][f] = Expected(msg, i)[f]
    <3> SUFFICES ASSUME NEW i \in 1 .. n, NEW f \in Data, ~ Left(msg, 1, 1, i, f)
                 PROVE  out'[i][f] = Expected(msg, i)[f]
      OBVIOUS
    <3>1. ~ \E q \in 1 .. Len(Fields(msg)) : Fields(msg)[q] = f
      <4>1. i > 1 \/ i = 1
        BY <1>2
      <4>2. Len(Fields(msg)) \in Nat
        BY <1>1, <1>2, FirstField
      <4>3. \A q \in 1 .. Len(Fields(msg)) : q >= 1
        BY <4>2
      <4> QED BY <4>1, <4>3 DEF Left
    <3>2. out'[i] = S(i)
      <4> HIDE DEF S
      <4> QED BY <1>2, <2>1
    <3>3. f \in {"key_len", "key", "value_len", "value"}
      BY DEF Data
    <3>4. /\ f = "key_len" => msg.mtype \in Single
          /\ f = "value_len" => msg.mtype \in Single \/ msg.recs[i].value_len = 0
          /\ f # "key"
          /\ f = "value" => Value(msg, i) = <<>>
      BY <1>1, <3>1, Absent
    <3>5. /\ Expected(msg, i)["key_len"] = msg.recs[i].key_len
          /\ Expected(msg, i)["value_len"] = msg.recs[i].value_len /\ Expected(msg, i)["value"] = Value(msg, i)
      BY <1>1, ExpectedIs
    <3>6. CASE f = "key_len"
      BY <3>2, <3>4, <3>5, <3>6
    <3>7. CASE f = "value_len"
      BY <3>2, <3>4, <3>5, <3>7
    <3>8. CASE f = "value"
      BY <3>2, <3>4, <3>5, <3>8
    <3> QED BY <3>3, <3>4, <3>6, <3>7, <3>8
  <2>6. 1 <= n => 1 \in 1 .. Len(Fields(msg)) /\ HdrLen = At(msg, 1) + Off(msg, 1, Fields(msg)[1])
    <3> SUFFICES ASSUME 1 <= n PROVE 1 \in 1 .. Len(Fields(msg)) /\ HdrLen = At(msg, 1) + Off(msg, 1, Fields(msg)[1])
      OBVIOUS
    <3>1. 1 \in 1 .. n /\ n # 0
      BY <1>2
    <3>2. 1 \in 1 .. Len(Fields(msg))
      BY <1>1, <3>1, FirstField
    <3>3. Off(msg, 1, Fields(msg)[1]) = 0
      BY <1>1, <3>1, <3>2, FieldOrder
    <3>4. At(msg, 1) = HdrLen
      <4>1. Len(Body(msg, 0)) = 0
        <5>1. Body(msg, 0) = <<>>
          BY BodyNone
        <5> QED BY <5>1
      <4> QED BY <4>1, Constants DEF At
    <3> QED BY <3>2, <3>3, <3>4, Constants
  <2>7. 1 \in 1 .. n + 1 /\ 1 \in Nat
    BY <1>2
  <2> HIDE DEF S
  <2> QED BY <1>1, <1>5, <2>1, <2>2, <2>4, <2>5, <2>6, <2>7 DEF Receiving, Unread
<1> QED
  BY <1>3, <1>4, <1>5 DEF UnpackStart

(* Going on to the next field leaves all that was left but the field read. *)
LEMMA LeftNext ==
  ASSUME NEW m \in Message, NEW r \in 1 .. Len(m.recs), NEW p \in 1 .. Len(Fields(m)),
         NEW r2, NEW p2,
         IF p < Len(Fields(m)) THEN r2 = r /\ p2 = p + 1 ELSE r2 = r + 1 /\ p2 = 1,
         NEW i \in 1 .. Len(m.recs), NEW f, Left(m, r, p, i, f), ~ Left(m, r2, p2, i, f)
  PROVE  i = r /\ f = Fields(m)[p]
<1>1. PICK q \in 1 .. Len(Fields(m)) : Fields(m)[q] = f /\ (i > r \/ (i = r /\ q >= p))
  BY DEF Left
<1>2. ~ (i > r2 \/ (i = r2 /\ q >= p2))
  BY <1>1 DEF Left
<1>3. Len(m.recs) \in Nat /\ Len(Fields(m)) \in Nat
  <2>1. Len(m.recs) \in Nat
    BY MessageFacts
  <2>2. Len(m.recs) # 0
    BY <2>1
  <2> QED BY <2>1, <2>2, FirstField
<1>4. i = r /\ q = p
  <2> DEFINE l == Len(Fields(m))
             n == Len(m.recs)
  <2>1. l \in Nat /\ n \in Nat /\ q \in 1 .. l /\ p \in 1 .. l /\ i \in 1 .. n /\ r \in 1 .. n
    BY <1>3
  <2>2. CASE p < l
    <3>1. r2 = r /\ p2 = p + 1
      BY <2>2
    <3> HIDE DEF l, n
    <3> QED BY <1>1, <1>2, <2>1, <3>1
  <2>3. CASE ~ (p < l)
    <3>1. r2 = r + 1 /\ p2 = 1
      BY <2>3
    <3> HIDE DEF l, n
    <3> QED BY <1>1, <1>2, <2>1, <2>3, <3>1
  <2> QED BY <2>2, <2>3
<1> QED
  BY <1>1, <1>4

LEMMA SetField ==
  ASSUME NEW o \in OutRecord, NEW e \in OutRecord, NEW f \in Data
  PROVE  /\ [o EXCEPT ![f] = e[f]] \in OutRecord
         /\ [o EXCEPT ![f] = e[f]][f] = e[f]
         /\ \A g \in Data : g # f => [o EXCEPT ![f] = e[f]][g] = o[g]
<1> DEFINE C == Seq(Cell)
<1> HIDE DEF C
<1>1. o \in [key_len : Nat, key : C, value_len : Nat, value : C] /\ e \in [key_len : Nat, key : C, value_len : Nat, value : C]
  BY DEF OutRecord, C
<1>2. CASE f = "key_len"
  BY <1>1, <1>2 DEF OutRecord, C, Data
<1>3. CASE f = "key"
  BY <1>1, <1>3 DEF OutRecord, C, Data
<1>4. CASE f = "value_len"
  BY <1>1, <1>4 DEF OutRecord, C, Data
<1>5. CASE f = "value"
  BY <1>1, <1>5 DEF OutRecord, C, Data
<1> QED
  BY <1>2, <1>3, <1>4, <1>5 DEF Data

(* A field that is unpacked right. *)
LEMMA Advance ==
  ASSUME Sending, Receiving, phase = "unpacking", rec <= Len(msg.recs),
         msg' = msg, phase' = "unpacking", return_code' = 0, NextField,
         mesg_idx' = mesg_idx + Len(Cells(msg, rec, CurrentField)),
         out' = [out EXCEPT ![rec][CurrentField] = Expected(msg, rec)[CurrentField]]
  PROVE  Receiving'
<1> DEFINE n == Len(msg.recs)
           F == Fields(msg)
           f == F[field]
<1>1. /\ msg \in Message /\ msg.mtype # "base" /\ rec \in 1 .. n + 1 /\ field \in 1 .. Len(F)
      /\ mesg_idx = At(msg, rec) + Off(msg, rec, f)
      /\ out \in [1 .. n -> OutRecord]
      /\ \A i \in 1 .. n, g \in Data : Left(msg, rec, field, i, g) \/ out[i][g] = Expected(msg, i)[g]
  BY DEF Sending, Receiving, Unread
<1>2. n \in Nat /\ rec \in 1 .. n /\ n # 0
  <2>1. n \in Nat
    BY <1>1, MessageFacts
  <2> QED BY <1>1, <2>1
<1>3. CurrentField = f
  BY DEF CurrentField, Fields
<1>4. Len(F) \in Nat /\ 1 \in 1 .. Len(F)
  BY <1>1, <1>2, FirstField
<1>5. /\ f \in Data /\ Off(msg, rec, f) \in Nat
      /\ field < Len(F) => Off(msg, rec, F[field + 1]) = Off(msg, rec, f) + Len(Cells(msg, rec, f))
      /\ field = Len(F) => RecLen(msg, rec) = Off(msg, rec, f) + Len(Cells(msg, rec, f))
  BY <1>1, <1>2, FieldOrder
<1>6. IF field < Len(F) THEN rec' = rec /\ field' = field + 1 ELSE rec' = rec + 1 /\ field' = 1
  BY DEF NextField, Fields
<1>7. rec' \in 1 .. n + 1 /\ field' \in 1 .. Len(F) /\ field' \in Nat
  <2> HIDE DEF n, F
  <2>1. CASE field < Len(F)
    BY <1>1, <1>2, <1>4, <1>6, <2>1
  <2>2. CASE ~ (field < Len(F))
    BY <1>1, <1>2, <1>4, <1>6, <2>2
  <2> QED BY <2>1, <2>2
<1>8. rec' <= n => mesg_idx' = At(msg, rec') + Off(msg, rec', F[field'])
  <2>1. At(msg, rec) \in Nat /\ Len(Cells(msg, rec, f)) \in Nat
    <3>1. rec - 1 \in 0 .. n
      BY <1>2
    <3>2. Body(msg, rec - 1) \in Seq(Cell)
      BY <1>1, <3>1, BodySeq
    <3>3. Len(Body(msg, rec - 1)) \in Nat
      BY <3>2
    <3>4. At(msg, rec) \in Nat
      BY <3>3, Constants DEF At
    <3> QED BY <1>1, <1>2, <1>5, <3>4, CellsAre
  <2>2. mesg_idx' = At(msg, rec) + Off(msg, rec, f) + Len(Cells(msg, rec, f))
    BY <1>1, <1>3
  <2>3. CASE field < Len(F)
    <3>1. rec' = rec /\ field' = field + 1
      BY <1>6, <2>3
    <3>2. Off(msg, rec, F[field + 1]) = Off(msg, rec, f) + Len(Cells(msg, rec, f))
      BY <1>5, <2>3
    <3> HIDE DEF f, F
    <3> QED BY <1>5, <2>1, <2>2, <3>1, <3>2
  <2>4. CASE ~ (field < Len(F))
    <3>1. rec' = rec + 1 /\ field' = 1 /\ field = Len(F)
      BY <1>1, <1>4, <1>6, <2>4
    <3>2. RecLen(msg, rec) = Off(msg, rec, f) + Len(Cells(msg, rec, f))
      BY <1>5, <3>1
    <3> SUFFICES ASSUME rec + 1 <= n PROVE mesg_idx' = At(msg, rec + 1) + Off(msg, rec + 1, F[1])
      BY <3>1
    <3>3. rec + 1 \in 1 .. n /\ (rec + 1) - 1 = rec
      BY <1>2
    <3>4. Off(msg, rec + 1, F[1]) = 0
      BY <1>1, <1>4, <3>3, FieldOrder
    <3>5. Len(Body(msg, rec)) = Len(Body(msg, rec - 1)) + RecLen(msg, rec)
      BY <1>1, <1>2, BodyNext
    <3>6. Len(Body(msg, rec - 1)) \in Nat /\ RecLen(msg, rec) \in Nat
      <4>1. rec - 1 \in 0 .. n
        BY <1>2
      <4>2. Body(msg, rec - 1) \in Seq(Cell)
        BY <1>1, <4>1, BodySeq
      <4> QED BY <1>1, <1>2, <4>2, RecCellsType
    <3>7. At(msg, rec + 1) = At(msg, rec) + RecLen(msg, rec)
      BY <3>3, <3>5, <3>6, Constants DEF At
    <3> HIDE DEF f, F
    <3> QED BY <1>5, <2>1, <2>2, <3>2, <3>4, <3>6, <3>7
  <2> QED BY <2>3, <2>4
<1> DEFINE e == Expected(msg, rec)
<1>10. out' = [out EXCEPT ![rec] = [out[rec] EXCEPT ![f] = e[f]]]
  BY <1>3
<1>11. out[rec] \in OutRecord
  BY <1>1, <1>2
<1>12. /\ [out[rec] EXCEPT ![f] = e[f]] \in OutRecord
       /\ [out[rec] EXCEPT ![f] = e[f]][f] = e[f]
       /\ \A g \in Data : g # f => [out[rec] EXCEPT ![f] = e[f]][g] = out[rec][g]
  <2> DEFINE o == out[rec]
  <2>1. o \in OutRecord /\ e \in OutRecord /\ f \in Data
    BY <1>1, <1>2, <1>5, <1>11, ExpectedIs
  <2> HIDE DEF o, e, f
  <2>2. /\ [o EXCEPT ![f] = e[f]] \in OutRecord
        /\ [o EXCEPT ![f] = e[f]][f] = e[f]
        /\ \A g \in Data : g # f => [o EXCEPT ![f] = e[f]][g] = o[g]
    BY <2>1, SetField
  <2> QED BY <2>2 DEF o
<1> DEFINE u == [out[rec] EXCEPT ![f] = e[f]]
<1>13. out' = [out EXCEPT ![rec] = u] /\ u \in OutRecord /\ u[f] = e[f] /\ \A g \in Data : g # f => u[g] = out[rec][g]
  BY <1>10, <1>12
<1> HIDE DEF u
<1>14. /\ out' \in [1 .. n -> OutRecord] /\ out'[rec] = u
       /\ \A i \in 1 .. n : i # rec => out'[i] = out[i]
  <2> HIDE DEF n
  <2> QED BY <1>1, <1>2, <1>13
<1>15. \A i \in 1 .. n, g \in Data : Left(msg, rec', field', i, g) \/ out'[i][g] = Expected(msg, i)[g]
  <2> SUFFICES ASSUME NEW i \in 1 .. n, NEW g \in Data, ~ Left(msg, rec', field', i, g)
               PROVE  out'[i][g] = Expected(msg, i)[g]
    OBVIOUS
  <2>1. ~ Left(msg, rec, field, i, g) \/ (i = rec /\ g = f)
    <3> DEFINE r2 == rec'
               p2 == field'
    <3>1. IF field < Len(F) THEN r2 = rec /\ p2 = field + 1 ELSE r2 = rec + 1 /\ p2 = 1
      BY <1>6
    <3>2. ~ Left(msg, r2, p2, i, g)
      OBVIOUS
    <3> HIDE DEF r2, p2
    <3> QED BY <1>1, <1>2, <3>1, <3>2, LeftNext
  <2>2. CASE i = rec /\ g = f
    BY <1>13, <1>14, <2>2
  <2>3. CASE i = rec /\ g # f
    <3>1. out[i][g] = Expected(msg, i)[g]
      BY <1>1, <2>1, <2>3
    <3> QED BY <1>13, <1>14, <2>3, <3>1
  <2>4. CASE i # rec
    BY <1>1, <1>14, <2>1, <2>4
  <2> QED BY <2>2, <2>3, <2>4
<1> HIDE DEF f, e
<1> QED
  BY <1>1, <1>7, <1>8, <1>14, <1>15 DEF Receiving, Unread

(* The lengths that precede a key or a value have been unpacked. *)
LEMMA LengthsFirst ==
  ASSUME NEW m \in Message, NEW i \in 1 .. Len(m.recs), NEW p \in 1 .. Len(Fields(m))
  PROVE  /\ Fields(m)[p] = "key" => ~ Left(m, i, p, i, "key_len")
         /\ Fields(m)[p] = "value" => ~ Left(m, i, p, i, "value_len")
<1> DEFINE F == Fields(m)
<1>1. Len(m.recs) \in Nat /\ i \in Nat /\ ~ (i > i) /\ Len(F) \in Nat
  <2>1. Len(m.recs) \in Nat /\ Len(m.recs) # 0
    BY MessageFacts
  <2> QED BY <2>1, FirstField
<1>2. ASSUME m.mtype \in Single PROVE \A q \in 1 .. Len(F) : F[q] # "key_len" /\ F[q] # "value_len"
  <2>1. m.mtype \in {"put", "getrm"} \/ m.mtype \in {"get", "del"}
    BY <1>2 DEF Single
  <2>2. F = <<"key", "value">> \/ F = <<"key">>
    BY <2>1, FieldsAre DEF Kinds
  <2> QED BY <2>2
<1>3. ASSUME NEW g, NEW q \in 1 .. p - 1, F[q] = g PROVE ~ Left(m, i, p, i, g)
  <2>1. q \in 1 .. Len(F) /\ q < p
    BY <1>1
  <2>2. \A r \in 1 .. Len(F) : F[r] = F[q] => r = q
    BY <2>1, FieldOrder
  <2> SUFFICES ASSUME NEW r \in 1 .. Len(F), F[r] = g, r >= p PROVE FALSE
    BY <1>1 DEF Left
  <2>3. r = q
    BY <1>3, <2>2
  <2> QED BY <1>1, <2>1, <2>3
<1>4. /\ F[p] = "key" => m.mtype \in Single \/ \E q \in 1 .. p - 1 : F[q] = "key_len"
      /\ F[p] = "value" => m.mtype \in Single \/ \E q \in 1 .. p - 1 : F[q] = "value_len"
  BY FieldOrder
<1>5. m.mtype \in Single => ~ Left(m, i, p, i, "key_len") /\ ~ Left(m, i, p, i, "value_len")
  BY <1>2 DEF Left
<1> QED
  BY <1>3, <1>4, <1>5

(* A length that was packed is read as what it is. *)
LEMMA LengthsAre ==
  ASSUME NEW m \in Message, NEW i \in 1 .. Len(m.recs), NEW p \in 1 .. Len(Fields(m)),
         NEW f, f = Fields(m)[p], f \in {"key_len", "value_len"}
  PROVE  LET n == Expected(m, i)[f]
         IN  n \in Lens /\ Cells(m, i, f) = Field(f, i, IntLen, n) /\ Cells(m, i, f)[1][4] = n
<1> DEFINE n == Expected(m, i)[f]
           x == Cells(m, i, f)
<1>1. m.mtype \in Kinds
  <2>1. Len(m.recs) # 0
    BY MessageFacts
  <2> QED BY <2>1, WithRecords
<1>2. f = "value_len" => m.mtype \in WithValue
  <2>1. CASE m.mtype \in {"put", "getrm"} \/ m.mtype \in {"get", "del"} \/ m.mtype \in {"bget", "bdel"}
    <3>1. Fields(m) = <<"key", "value">> \/ Fields(m) = <<"key">> \/ Fields(m) = <<"key_len", "key">>
      BY <1>1, <2>1, FieldsAre
    <3>2. f # "value_len"
      BY <3>1
    <3> QED BY <3>2
  <2>2. CASE m.mtype \in {"bput", "bgetrm"}
    BY <2>2 DEF WithValue
  <2> QED BY <1>1, <2>1, <2>2 DEF Kinds
<1>3. m.recs[i].key_len \in Lens /\ (m.mtype \in WithValue => m.recs[i].value_len \in Lens)
  BY MessageFacts
<1>4. Expected(m, i)["key_len"] = m.recs[i].key_len /\ Expected(m, i)["value_len"] = m.recs[i].value_len
  BY ExpectedIs
<1>5. Cells(m, i, "key_len") = KeyLen(m, i) /\ Cells(m, i, "value_len") = ValueLen(m, i)
  BY CellsAre
<1>6. n \in Lens
  BY <1>2, <1>3, <1>4
<1>7. x = Field(f, i, IntLen, n)
  <2>1. CASE f = "key_len"
    BY <1>4, <1>5, <2>1 DEF KeyLen
  <2>2. CASE f = "value_len"
    BY <1>4, <1>5, <2>2 DEF ValueLen
  <2> QED BY <2>1, <2>2
<1>8. Field(f, i, IntLen, n)[1] = <<f, i, 1, n>>
  <2>1. 1 \in 1 .. IntLen
    BY Constants
  <2> QED BY <2>1 DEF Field
<1> HIDE DEF n, x
<1>9. x[1][4] = n
  BY <1>7, <1>8
<1> QED
  BY <1>6, <1>7, <1>9 DEF n, x

(* The next field lies behind mesg_idx. *)
LEMMA Reading ==
  ASSUME Sending, Receiving, phase = "unpacking", rec <= Len(msg.recs)
  PROVE  LET x == Cells(msg, rec, CurrentField)
         IN  /\ msg \in Message /\ rec \in 1 .. Len(msg.recs) /\ return_code = 0
             /\ field \in 1 .. Len(Fields(msg)) /\ CurrentField = Fields(msg)[field] /\ CurrentField \in Data
             /\ Fits(Len(x)) /\ Read(Len(x)) = x
<1> DEFINE f == CurrentField
           x == Cells(msg, rec, f)
           B == Bytes(msg)
<1>1. /\ msg \in Message /\ rec \in 1 .. Len(msg.recs) + 1 /\ field \in 1 .. Len(Fields(msg)) /\ return_code = 0
      /\ mesg_idx = At(msg, rec) + Off(msg, rec, Fields(msg)[field]) /\ buf = B
  BY DEF Sending, Receiving, Packed
<1>2. rec \in 1 .. Len(msg.recs)
  <2>1. Len(msg.recs) \in Nat
    BY <1>1, MessageFacts
  <2> QED BY <1>1, <2>1
<1>3. f = Fields(msg)[field]
  BY DEF CurrentField, Fields
<1>4. f \in Data
  BY <1>1, <1>2, <1>3, FieldOrder
<1>5. /\ x \in Seq(Cell) /\ Len(x) \in Nat /\ mesg_idx \in Nat /\ mesg_idx + Len(x) <= Len(B)
      /\ \A j \in 1 .. Len(x) : B[mesg_idx + j] = x[j]
  BY <1>1, <1>2, <1>3, InBytes
<1>6. HdrSize \in Nat /\ Len(B) \in Nat /\ Len(B) <= HdrSize
  BY HdrSizeIs DEF Packed
<1> HIDE DEF f, x, B
<1>7. Fits(Len(x))
  BY <1>5, <1>6 DEF Fits
<1>8. Read(Len(x)) = [j \in 1 .. Len(x) |-> x[j]]
  <2>1. Read(Len(x)) = [j \in 1 .. Len(x) |-> IF mesg_idx + j <= Len(buf) THEN buf[mesg_idx + j] ELSE <<"none", 0, 0, 0>>]
    BY DEF Read
  <2>2. \A j \in 1 .. Len(x) : mesg_idx + j <= Len(buf) /\ buf[mesg_idx + j] = x[j]
    BY <1>1, <1>5, <1>6
  <2> QED BY <2>1, <2>2
<1>9. x = [j \in 1 .. Len(x) |-> x[j]]
  BY <1>5
<1> QED
  BY <1>1, <1>2, <1>3, <1>4, <1>7, <1>8, <1>9 DEF f, x

LEMMA LengthReceives == Sending /\ Receiving /\ UnpackLength => Receiving'
<1> SUFFICES ASSUME Sending, Receiving, UnpackLength PROVE Receiving'
  OBVIOUS
<1> DEFINE f == CurrentField
           x == Cells(msg, rec, f)
<1>1. phase = "unpacking" /\ rec <= Len(msg.recs) /\ f \in {"key_len", "value_len"}
      /\ msg' = msg /\ phase' = "unpacking" /\ NextField
  BY DEF UnpackLength
<1>2. /\ msg \in Message /\ rec \in 1 .. Len(msg.recs) /\ return_code = 0
      /\ field \in 1 .. Len(Fields(msg)) /\ f = Fields(msg)[field] /\ f \in Data
      /\ Fits(Len(x)) /\ Read(Len(x)) = x
  BY <1>1, Reading
<1>3. Len(x) = IntLen
  BY <1>1, <1>2, CellsAre
<1> DEFINE e == Expected(msg, rec)[f]
<1>4. e \in Lens /\ x = Field(f, rec, IntLen, e) /\ x[1][4] = e
  BY <1>1, <1>2, LengthsAre
<1>5. AsInt(f, x) = {e}
  <2>1. rec \in DOMAIN msg.recs
    BY <1>2, MessageFacts
  <2> HIDE DEF x, e, f
  <2> QED BY <1>4, <2>1 DEF AsInt
<1>6. Fits(IntLen) /\ Read(IntLen) = x
  BY <1>2, <1>3
<1> HIDE DEF x, e
<1>7. return_code' = 0 /\ mesg_idx' = mesg_idx + Len(x)
  BY <1>2, <1>3, <1>6 DEF UnpackLength
<1>8. out' = [out EXCEPT ![rec][f] = e]
  <2>1. \E n \in AsInt(f, Read(IntLen)) : out' = [out EXCEPT ![rec][f] = n]
    BY <1>6 DEF UnpackLength
  <2> QED BY <1>5, <1>6, <2>1
<1> QED
  BY <1>1, <1>7, <1>8, Advance DEF x, e

(* What UnpackBytes does when there is memory. *)
LEMMA BytesRead ==
  ASSUME Sending, Receiving, UnpackBytes, phase' # "nomem"
  PROVE  LET f == CurrentField
             x == Cells(msg, rec, f)
         IN  /\ msg \in Message /\ rec \in 1 .. Len(msg.recs) /\ field \in 1 .. Len(Fields(msg))
             /\ f = Fields(msg)[field] /\ f \in {"key", "value"} /\ LenOf(f) = Len(x)
             /\ phase = "unpacking" /\ rec <= Len(msg.recs) /\ msg' = msg /\ phase' = "unpacking"
             /\ NextField /\ return_code' = 0 /\ mesg_idx' = mesg_idx + Len(x)
             /\ out' = [out EXCEPT ![rec][f] = Expected(msg, rec)[f]]
             /\ heap' = IF Len(x) # 0 \/ Unpack(msg.mtype).empty THEN heap \cup {Block(f, rec)} ELSE heap
<1> DEFINE f == CurrentField
           x == Cells(msg, rec, f)
           n == LenOf(f)
<1>1. phase = "unpacking" /\ rec <= Len(msg.recs) /\ f \in {"key", "value"} /\ msg' = msg
  BY DEF UnpackBytes
<1>2. /\ msg \in Message /\ rec \in 1 .. Len(msg.recs) /\ return_code = 0
      /\ field \in 1 .. Len(Fields(msg)) /\ f = Fields(msg)[field] /\ f \in Data
      /\ Fits(Len(x)) /\ Read(Len(x)) = x
  BY <1>1, Reading
<1>3. \A i \in 1 .. Len(msg.recs), g \in Data : Left(msg, rec, field, i, g) \/ out[i][g] = Expected(msg, i)[g]
  BY <1>1 DEF Receiving, Unread
<1>4. n = Len(x) /\ x = Expected(msg, rec)[f]
  <2>1. /\ Expected(msg, rec)["key_len"] = msg.recs[rec].key_len /\ Expected(msg, rec)["key"] = Key(msg, rec)
        /\ Expected(msg, rec)["value_len"] = msg.recs[rec].value_len /\ Expected(msg, rec)["value"] = Value(msg, rec)
    BY <1>2, ExpectedIs
  <2>2. /\ Cells(msg, rec, "key") = Key(msg, rec) /\ Cells(msg, rec, "value") = Value(msg, rec)
        /\ Len(Cells(msg, rec, "key")) = msg.recs[rec].key_len
        /\ Len(Cells(msg, rec, "value")) = msg.recs[rec].value_len
    BY <1>2, CellsAre
  <2>3. CASE f = "key"
    <3>1. ~ Left(msg, rec, field, rec, "key_len")
      BY <1>2, <2>3, LengthsFirst
    <3>2. "key_len" \in Data
      BY DEF Data
    <3>3. out[rec]["key_len"] = msg.recs[rec].key_len
      BY <1>2, <1>3, <2>1, <3>1, <3>2
    <3>4. n = out[rec]["key_len"]
      BY <2>3 DEF LenOf
    <3> QED BY <2>1, <2>2, <2>3, <3>3, <3>4
  <2>4. CASE f = "value"
    <3>1. ~ Left(msg, rec, field, rec, "value_len")
      BY <1>2, <2>4, LengthsFirst
    <3>2. "value_len" \in Data
      BY DEF Data
    <3>3. out[rec]["value_len"] = msg.recs[rec].value_len
      BY <1>2, <1>3, <2>1, <3>1, <3>2
    <3>4. n = out[rec]["value_len"]
      BY <2>4 DEF LenOf
    <3> QED BY <2>1, <2>2, <2>4, <3>3, <3>4
  <2> QED BY <1>1, <2>3, <2>4
<1>5. /\ heap' = IF n # 0 \/ Unpack(msg.mtype).empty THEN heap \cup {Block(f, rec)} ELSE heap
      /\ out' = IF Fits(n) THEN [out EXCEPT ![rec][f] = Read(n)] ELSE out
      /\ mesg_idx' = IF Fits(n) THEN mesg_idx + n ELSE mesg_idx
      /\ return_code' = IF Fits(n) THEN return_code ELSE return_code + 1
      /\ NextField /\ phase' = phase
  BY DEF UnpackBytes
<1> HIDE DEF n, x
<1>6. Fits(n) /\ Read(n) = Expected(msg, rec)[f]
  BY <1>2, <1>4
<1> HIDE DEF f
<1>7. out' = [out EXCEPT ![rec][f] = Expected(msg, rec)[f]]
  BY <1>5, <1>6
<1>8. return_code' = 0 /\ mesg_idx' = mesg_idx + Len(x) /\ phase' = "unpacking" /\ NextField
  BY <1>1, <1>2, <1>4, <1>5, <1>6
<1>9. heap' = IF Len(x) # 0 \/ Unpack(msg.mtype).empty THEN heap \cup {Block(f, rec)} ELSE heap
  BY <1>4, <1>5
<1> QED
  BY <1>1, <1>2, <1>4, <1>7, <1>8, <1>9 DEF f, x, n

LEMMA BytesReceives == Sending /\ Receiving /\ UnpackBytes => Receiving'
<1> SUFFICES ASSUME Sending, Receiving, UnpackBytes PROVE Receiving'
  OBVIOUS
<1>1. CASE phase' = "nomem"
  BY <1>1 DEF Receiving
<1>2. CASE phase' # "nomem"
  BY <1>2, BytesRead, Advance
<1> QED
  BY <1>1, <1>2

LEMMA ReturnReceives == Sending /\ Receiving /\ UnpackReturn => Receiving' /\ phase' = "unpacked"
<1> SUFFICES ASSUME Sending, Receiving, UnpackReturn PROVE Receiving' /\ phase' = "unpacked"
  OBVIOUS
<1> DEFINE n == Len(msg.recs)
<1>1. /\ msg \in Message /\ msg' = msg /\ out' = out /\ rec > n /\ rec \in 1 .. n + 1 /\ return_code = 0
      /\ out \in [1 .. n -> OutRecord]
      /\ \A i \in 1 .. n, g \in Data : Left(msg, rec, field, i, g) \/ out[i][g] = Expected(msg, i)[g]
      /\ phase' = (IF return_code = 0 THEN "unpacked" ELSE "failed")
  BY DEF Sending, Receiving, Unread, UnpackReturn, receiverVars
<1>2. phase' = "unpacked"
  BY <1>1
<1>3. n \in Nat
  BY <1>1, MessageFacts
<1>4. \A i \in 1 .. n : out[i] = Expected(msg, i)
  <2> SUFFICES ASSUME NEW i \in 1 .. n PROVE out[i] = Expected(msg, i)
    OBVIOUS
  <2>1. ~ (i > rec) /\ i # rec
    BY <1>1, <1>3
  <2>2. \A g \in Data : out[i][g] = Expected(msg, i)[g]
    BY <1>1, <2>1 DEF Left
  <2> DEFINE o == out[i]
             e == Expected(msg, i)
  <2>3. o \in OutRecord /\ e \in OutRecord
    BY <1>1, ExpectedIs
  <2>4. /\ o["key_len"] = e["key_len"] /\ o["key"] = e["key"]
        /\ o["value_len"] = e["value_len"] /\ o["value"] = e["value"]
    BY <2>2 DEF Data
  <2> HIDE DEF o, e
  <2>5. o = e
    BY <2>3, <2>4 DEF OutRecord
  <2> QED BY <2>5 DEF o, e
<1> QED
  BY <1>1, <1>2, <1>4 DEF Receiving

-----------------------------------------------------------------------------
(* The inductive invariant: the memory of the receiver. *)

Kept ==
  \A i \in 1 .. Len(msg.recs) :
    /\ msg.recs[i].key_len # 0 => Unread(i, "key") \/ Block("key", i) \in heap
    /\ msg.recs[i].value_len # 0 => Unread(i, "value") \/ Block("value", i) \in heap

Allocated ==
  /\ phase \in {"unpacking", "unpacked"} /\ msg.mtype # "base" =>
       heap \subseteq Whole({"message"} \cup Unpack(msg.mtype).arrays) \cup Blocks("key") \cup Blocks("value")
  /\ phase = "unpacking" => Kept
  /\ phase = "unpacked" =>
       \A i \in 1 .. Len(msg.recs) :
         /\ msg.recs[i].key_len # 0 => Block("key", i) \in heap
         /\ msg.recs[i].value_len # 0 => Block("value", i) \in heap

LEMMA StartAllocates == Sending /\ UnpackStart => Allocated'
<1> SUFFICES ASSUME Sending, UnpackStart PROVE Allocated'
  OBVIOUS
<1> DEFINE n == Len(msg.recs)
<1>1. msg \in Message /\ msg' = msg /\ phase = "packed"
  BY DEF Sending, UnpackStart
<1>2. n \in Nat
  BY <1>1, MessageFacts
<1>3. CASE phase' = "unpacked" /\ msg.mtype = "base"
  <2>1. n = 0
    BY <1>1, <1>3, MessageFacts DEF Bare
  <2> QED BY <1>1, <1>3, <2>1 DEF Allocated
<1>4. CASE phase' = "nomem"
  BY <1>4 DEF Allocated
<1>5. CASE phase' = "unpacking"
  <2>1. rec' = 1 /\ field' = 1 /\ heap' = Whole({"message"} \cup Unpack(msg.mtype).arrays)
    BY <1>5 DEF UnpackStart
  <2>2. heap' \subseteq Whole({"message"} \cup Unpack(msg.mtype).arrays) \cup Blocks("key")' \cup Blocks("value")'
    <3> DEFINE A == Whole({"message"} \cup Unpack(msg.mtype).arrays)
               K == Blocks("key")'
               V == Blocks("value")'
    <3>1. heap' = A
      BY <2>1
    <3> HIDE DEF A, K, V
    <3>2. heap' \subseteq A \cup K \cup V
      BY <3>1
    <3> QED BY <3>2 DEF A, K, V
  <2>3. \A i \in 1 .. n :
          /\ msg.recs[i].key_len # 0 => Left(msg, 1, 1, i, "key")
          /\ msg.recs[i].value_len # 0 => Left(msg, 1, 1, i, "value")
    <3> SUFFICES ASSUME NEW i \in 1 .. n
                 PROVE  /\ msg.recs[i].key_len # 0 => Left(msg, 1, 1, i, "key")
                        /\ msg.recs[i].value_len # 0 => Left(msg, 1, 1, i, "value")
      OBVIOUS
    <3>1. i > 1 \/ i = 1
      BY <1>2
    <3>2. Len(Fields(msg)) \in Nat /\ \A q \in 1 .. Len(Fields(msg)) : q >= 1
      <4>1. Len(Fields(msg)) \in Nat
        BY <1>1, <1>2, FirstField
      <4> QED BY <4>1
    <3>3. \A f : (\E q \in 1 .. Len(Fields(msg)) : Fields(msg)[q] = f) => Left(msg, 1, 1, i, f)
      BY <3>1, <3>2 DEF Left
    <3>4. "key" \in Data /\ "value" \in Data
      BY DEF Data
    <3>5. \E q \in 1 .. Len(Fields(msg)) : Fields(msg)[q] = "key"
      BY <1>1, <3>4, Absent
    <3>6. (\E q \in 1 .. Len(Fields(msg)) : Fields(msg)[q] = "value") \/ msg.recs[i].value_len = 0
      <4> SUFFICES ASSUME ~ \E q \in 1 .. Len(Fields(msg)) : Fields(msg)[q] = "value"
                   PROVE  msg.recs[i].value_len = 0
        OBVIOUS
      <4>1. Value(msg, i) = <<>>
        BY <1>1, <3>4, Absent
      <4>2. Len(Value(msg, i)) = msg.recs[i].value_len
        BY <1>1, FieldTypes
      <4> QED BY <4>1, <4>2
    <3> QED BY <3>3, <3>5, <3>6
  <2> QED BY <1>1, <1>5, <2>1, <2>2, <2>3 DEF Allocated, Kept, Unread
<1> QED
  BY <1>3, <1>4, <1>5 DEF UnpackStart

(* Going on to the next field loses no block. *)
LEMMA Keep ==
  ASSUME Sending, Receiving, Allocated, phase = "unpacking", rec <= Len(msg.recs), msg' = msg, NextField,
         heap \subseteq heap',
         CurrentField = "key" /\ msg.recs[rec].key_len # 0 => Block("key", rec) \in heap',
         CurrentField = "value" /\ msg.recs[rec].value_len # 0 => Block("value", rec) \in heap'
  PROVE  Kept'
<1> DEFINE n == Len(msg.recs)
           F == Fields(msg)
<1>1. msg \in Message /\ rec \in 1 .. n /\ field \in 1 .. Len(F) /\ CurrentField = F[field]
  BY Reading
<1>2. IF field < Len(F) THEN rec' = rec /\ field' = field + 1 ELSE rec' = rec + 1 /\ field' = 1
  BY DEF NextField, Fields
<1>3. ASSUME NEW i \in 1 .. n, NEW f, Left(msg, rec, field, i, f), ~ Left(msg, rec', field', i, f)
      PROVE  i = rec /\ f = CurrentField
  <2> DEFINE r2 == rec'
             p2 == field'
  <2>1. IF field < Len(F) THEN r2 = rec /\ p2 = field + 1 ELSE r2 = rec + 1 /\ p2 = 1
    BY <1>2
  <2>2. ~ Left(msg, r2, p2, i, f)
    BY <1>3
  <2> HIDE DEF r2, p2
  <2>3. i = rec /\ f = F[field]
    BY <1>1, <1>3, <2>1, <2>2, LeftNext
  <2> QED BY <1>1, <2>3
<1>4. ASSUME NEW i \in 1 .. n, msg.recs[i].key_len # 0
      PROVE  Left(msg, rec', field', i, "key") \/ Block("key", i) \in heap'
  <2>1. Left(msg, rec, field, i, "key") \/ Block("key", i) \in heap
    BY <1>4 DEF Allocated, Kept, Unread
  <2>2. CASE Left(msg, rec, field, i, "key") /\ ~ Left(msg, rec', field', i, "key")
    <3>1. i = rec /\ CurrentField = "key"
      BY <1>3, <2>2
    <3> QED BY <1>4, <3>1
  <2> QED BY <2>1, <2>2
<1>5. ASSUME NEW i \in 1 .. n, msg.recs[i].value_len # 0
      PROVE  Left(msg, rec', field', i, "value") \/ Block("value", i) \in heap'
  <2>1. Left(msg, rec, field, i, "value") \/ Block("value", i) \in heap
    BY <1>5 DEF Allocated, Kept, Unread
  <2>2. CASE Left(msg, rec, field, i, "value") /\ ~ Left(msg, rec', field', i, "value")
    <3>1. i = rec /\ CurrentField = "value"
      BY <1>3, <2>2
    <3> QED BY <1>5, <3>1
  <2> QED BY <2>1, <2>2
<1> QED
  BY <1>4, <1>5 DEF Kept, Unread

LEMMA LengthAllocates == Sending /\ Receiving /\ Allocated /\ UnpackLength => Allocated'
<1> SUFFICES ASSUME Sending, Receiving, Allocated, UnpackLength PROVE Allocated'
  OBVIOUS
<1>1. /\ phase = "unpacking" /\ rec <= Len(msg.recs) /\ CurrentField \in {"key_len", "value_len"}
      /\ msg' = msg /\ phase' = phase /\ heap' = heap /\ NextField
  BY DEF UnpackLength
<1>2. Kept'
  BY <1>1, Keep
<1>3. Blocks("key")' = Blocks("key") /\ Blocks("value")' = Blocks("value")
  BY <1>1 DEF Blocks
<1> QED
  BY <1>1, <1>2, <1>3 DEF Allocated

LEMMA BytesAllocates == Sending /\ Receiving /\ Allocated /\ UnpackBytes => Allocated'
<1> SUFFICES ASSUME Sending, Receiving, Allocated, UnpackBytes PROVE Allocated'
  OBVIOUS
<1>1. CASE phase' = "nomem"
  BY <1>1 DEF Allocated
<1>2. CASE phase' # "nomem"
  <2> DEFINE f == CurrentField
             x == Cells(msg, rec, f)
             A == Whole({"message"} \cup Unpack(msg.mtype).arrays)
  <2>1. /\ msg \in Message /\ rec \in 1 .. Len(msg.recs) /\ f \in {"key", "value"}
        /\ phase = "unpacking" /\ rec <= Len(msg.recs) /\ msg' = msg /\ phase' = "unpacking" /\ NextField
        /\ heap' = IF Len(x) # 0 \/ Unpack(msg.mtype).empty THEN heap \cup {Block(f, rec)} ELSE heap
    BY <1>2, BytesRead
  <2>2. f = "key" => Len(x) = msg.recs[rec].key_len
    BY <2>1, CellsAre
  <2>3. f = "value" => Len(x) = msg.recs[rec].value_len
    BY <2>1, CellsAre
  <2>4. Kept'
    <3>1. heap \subseteq heap' /\ (Len(x) # 0 => Block(f, rec) \in heap')
      <4> HIDE DEF f, x
      <4> QED BY <2>1
    <3> HIDE DEF x
    <3> QED BY <2>1, <2>2, <2>3, <3>1, Keep
  <2>5. Blocks("key")' = Blocks("key") /\ Blocks("value")' = Blocks("value")
    BY <2>1 DEF Blocks
  <2>6. rec \in DOMAIN msg.recs
    BY <2>1, MessageFacts
  <2>7. Block(f, rec) \in Blocks("key") \cup Blocks("value")
    BY <2>1, <2>6 DEF Blocks
  <2>8. msg.mtype # "base"
    BY <2>1 DEF Receiving
  <2>9. heap \subseteq A \cup Blocks("key") \cup Blocks("value")
    BY <2>1, <2>8 DEF Allocated
  <2>10. heap' \subseteq A \cup Blocks("key") \cup Blocks("value")
    <3> HIDE DEF f, x, A
    <3> QED BY <2>1, <2>7, <2>9
  <2> HIDE DEF f, x
  <2> QED BY <2>1, <2>4, <2>5, <2>10 DEF Allocated
<1> QED
  BY <1>1, <1>2

LEMMA ReturnAllocates == Sending /\ Receiving /\ Allocated /\ UnpackReturn => Allocated'
<1> SUFFICES ASSUME Sending, Receiving, Allocated, UnpackReturn PROVE Allocated'
  OBVIOUS
<1> DEFINE n == Len(msg.recs)
<1>1. /\ msg \in Message /\ msg' = msg /\ heap' = heap /\ rec > n /\ rec \in 1 .. n + 1
      /\ phase = "unpacking" /\ msg.mtype # "base"
  BY DEF Sending, Receiving, UnpackReturn, receiverVars
<1>2. phase' = "unpacked"
  BY ReturnReceives
<1>3. n \in Nat
  BY <1>1, MessageFacts
<1>4. \A i \in 1 .. n : \A f : ~ Left(msg, rec, field, i, f)
  <2> SUFFICES ASSUME NEW i \in 1 .. n, NEW f PROVE ~ Left(msg, rec, field, i, f)
    OBVIOUS
  <2>1. ~ (i > rec) /\ i # rec
    BY <1>1, <1>3
  <2> QED BY <2>1 DEF Left
<1>5. Blocks("key")' = Blocks("key") /\ Blocks("value")' = Blocks("value")
  BY <1>1 DEF Blocks
<1> QED
  BY <1>1, <1>2, <1>4, <1>5 DEF Allocated, Kept, Unread


LEMMA ReleaseReleases == Sending /\ Receiving /\ Allocated /\ Release => ReleaseComplete'
<1> SUFFICES ASSUME Sending, Receiving, Allocated, Release PROVE ReleaseComplete'
  OBVIOUS
<1> DEFINE n == Len(msg.recs)
           W == Whole({"message"} \cup Unpack(msg.mtype).arrays)
           K == Blocks("key")
           V == Blocks("value")
           k == BlocksWith("key", "key_len")
           v == BlocksWith("value", "value_len")
           full == mdhim_full_release_msg(msg.mtype)
           partial == mdhim_partial_release_msg(msg.mtype)
<1>1. /\ msg \in Message /\ msg' = msg /\ out' = out /\ phase = "unpacked" /\ msg.mtype \in Released
      /\ \/ phase' = "released" /\ heap' = heap \ full
         \/ phase' = "partly released" /\ heap' = heap \ partial
  BY DEF Sending, Release
<1>2. n \in Nat /\ DOMAIN msg.recs = 1 .. n
  BY <1>1, MessageFacts
<1>3. \A i \in 1 .. n : out[i]["key_len"] = msg.recs[i].key_len /\ out[i]["value_len"] = msg.recs[i].value_len
  <2>1. \A i \in 1 .. n : out[i] = Expected(msg, i)
    BY <1>1 DEF Receiving
  <2> QED BY <1>1, <2>1, ExpectedIs
<1>4. heap \subseteq W \cup K \cup V
  <2>1. msg.mtype # "base"
    BY <1>1 DEF Released
  <2> QED BY <1>1, <2>1 DEF Allocated
<1>5. k \subseteq K /\ v \subseteq V
  BY DEF BlocksWith, Blocks
<1>6. k \subseteq heap /\ v \subseteq heap
  BY <1>1, <1>2, <1>3 DEF Allocated, BlocksWith
<1>7. W \cap (K \cup V) = {}
  BY <1>2 DEF Whole, Blocks, Block
<1>8. /\ msg.mtype \in {"return", "getrm", "get"} => W = Whole({"message"})
      /\ msg.mtype \in {"bgetrm", "bput"} => W = Whole({"message", "key_lens", "keys", "value_lens", "values"})
  <2>1. msg.mtype \in {"return", "getrm", "get"} => Unpack(msg.mtype).arrays = {}
    BY DEF Unpack, Unpacking, unpack_return_message, unpack_getrm_message, unpack_get_message
  <2>2. msg.mtype \in {"bgetrm", "bput"} => Unpack(msg.mtype).arrays = {"keys", "key_lens", "values", "value_lens"}
    BY DEF Unpack, Unpacking, unpack_bgetrm_message, unpack_bput_message
  <2>3. {"message"} \cup {} = {"message"}
    OBVIOUS
  <2>4. {"message"} \cup {"keys", "key_lens", "values", "value_lens"} = {"message", "key_lens", "keys", "value_lens", "values"}
    OBVIOUS
  <2> QED BY <2>1, <2>2, <2>3, <2>4
<1>9. partial = W
  BY <1>1, <1>8 DEF Released, mdhim_partial_release_msg
<1>10. W \subseteq full /\ k \subseteq full /\ v \subseteq full
  <2>1. CASE msg.mtype = "return"
    <3>1. full = W
      BY <1>8, <2>1 DEF mdhim_full_release_msg
    <3>2. n = 0
      BY <1>1, <2>1, MessageFacts DEF Bare
    <3>3. k = {} /\ v = {}
      BY <1>2, <3>2 DEF BlocksWith
    <3> HIDE DEF full, W, k, v
    <3> QED BY <3>1, <3>3
  <2>2. CASE msg.mtype = "getrm" \/ msg.mtype \in {"bgetrm", "bput"}
    <3>1. full = W \cup k \cup v
      BY <1>8, <2>2 DEF mdhim_full_release_msg
    <3> HIDE DEF full, W, k, v
    <3> QED BY <3>1
  <2>3. CASE msg.mtype = "get"
    <3>1. full = W \cup K
      BY <1>8, <2>3 DEF mdhim_full_release_msg
    <3>2. \A i \in 1 .. n : msg.recs[i].value_len = 0
      BY <1>1, <2>3, MessageFacts DEF WithValue
    <3>3. v = {}
      BY <1>2, <1>3, <3>2 DEF BlocksWith
    <3> HIDE DEF full, W, k, v, K
    <3> QED BY <1>5, <3>1, <3>3
  <2> QED BY <1>1, <2>1, <2>2, <2>3 DEF Released
<1>11. /\ Blocks("key")' = K /\ Blocks("value")' = V
       /\ BlocksWith("key", "key_len")' = k /\ BlocksWith("value", "value_len")' = v
  BY <1>1 DEF Blocks, BlocksWith
<1> HIDE DEF W, K, V, k, v, full, partial
<1>12. CASE phase' = "released" /\ heap' = heap \ full
  <2>1. heap' \subseteq (K \cup V) \ (k \cup v)
    BY <1>4, <1>10, <1>12
  <2> QED BY <1>11, <1>12, <2>1 DEF ReleaseComplete
<1>13. CASE phase' = "partly released" /\ heap' = heap \ partial
  <2>1. heap' \subseteq K \cup V
    BY <1>4, <1>9, <1>13
  <2>2. k \cup v \subseteq heap'
    BY <1>5, <1>6, <1>7, <1>9, <1>13
  <2> QED BY <1>11, <1>13, <2>1, <2>2 DEF ReleaseComplete
<1> QED
  BY <1>1, <1>12, <1>13

-----------------------------------------------------------------------------
(* The theorems. *)

Inv == Sending /\ Receiving /\ Allocated /\ ReleaseComplete

LEMMA InvInit == Init => Inv
BY DEF Init, Inv, Sending, Receiving, Allocated, ReleaseComplete, Packed

LEMMA InvNext == Inv /\ [Next]_vars => Inv'
<1> SUFFICES ASSUME Inv, [Next]_vars PROVE Inv'
  OBVIOUS
<1>s. Sending /\ Receiving /\ Allocated /\ ReleaseComplete
  BY DEF Inv
<1>1. CASE PackStart
  <2>1. phase' \in {"refused", "packing", "nomem"}
    BY <1>1 DEF PackStart
  <2>2. Sending'
    BY <1>1, <1>s, PackStartSends
  <2> QED BY <2>1, <2>2 DEF Inv, Receiving, Allocated, ReleaseComplete
<1>2. CASE PackField
  <2>1. phase' = "packing"
    BY <1>2 DEF PackField
  <2>2. Sending'
    BY <1>2, <1>s, PackFieldSends
  <2> QED BY <2>1, <2>2 DEF Inv, Receiving, Allocated, ReleaseComplete
<1>3. CASE PackReturn
  <2>1. phase' \in {"packed", "refused"}
    BY <1>3 DEF PackReturn
  <2>2. Sending'
    BY <1>3, <1>s, PackReturnSends
  <2> QED BY <2>1, <2>2 DEF Inv, Receiving, Allocated, ReleaseComplete
<1>4. CASE UnpackStart
  <2>1. phase = "packed" /\ phase' \in {"unpacked", "unpacking", "nomem"} /\ msg' = msg /\ buf' = buf
    BY <1>4 DEF UnpackStart
  <2>2. Sending'
    BY <1>s, <2>1 DEF Sending, Packed
  <2>3. Receiving' /\ Allocated'
    BY <1>4, <1>s, StartReceives, StartAllocates
  <2> QED BY <2>1, <2>2, <2>3 DEF Inv, ReleaseComplete
<1>5. CASE UnpackLength
  <2>1. phase = "unpacking" /\ phase' = "unpacking" /\ msg' = msg /\ buf' = buf
    BY <1>5 DEF UnpackLength
  <2>2. Sending'
    BY <1>s, <2>1 DEF Sending, Packed
  <2>3. Receiving' /\ Allocated'
    BY <1>5, <1>s, LengthReceives, LengthAllocates
  <2> QED BY <2>1, <2>2, <2>3 DEF Inv, ReleaseComplete
<1>6. CASE UnpackBytes
  <2>1. phase = "unpacking" /\ phase' \in {"unpacking", "nomem"} /\ msg' = msg /\ buf' = buf
    BY <1>6 DEF UnpackBytes
  <2>2. Sending'
    BY <1>s, <2>1 DEF Sending, Packed
  <2>3. Receiving' /\ Allocated'
    BY <1>6, <1>s, BytesReceives, BytesAllocates
  <2> QED BY <2>1, <2>2, <2>3 DEF Inv, ReleaseComplete
<1>7. CASE UnpackReturn
  <2>1. phase = "unpacking" /\ msg' = msg /\ buf' = buf
    BY <1>7 DEF UnpackReturn
  <2>2. Receiving' /\ Allocated' /\ phase' = "unpacked"
    BY <1>7, <1>s, ReturnReceives, ReturnAllocates
  <2>3. Sending'
    BY <1>s, <2>1, <2>2 DEF Sending, Packed
  <2> QED BY <2>2, <2>3 DEF Inv, ReleaseComplete
<1>8. CASE Release
  <2>1. phase = "unpacked" /\ phase' \in {"released", "partly released"} /\ msg' = msg /\ buf' = buf /\ out' = out
    BY <1>8 DEF Release
  <2>2. Sending'
    BY <1>s, <2>1 DEF Sending, Packed
  <2>3. Receiving' /\ Allocated'
    BY <1>s, <2>1 DEF Receiving, Allocated
  <2>4. ReleaseComplete'
    BY <1>8, <1>s, ReleaseReleases
  <2> QED BY <2>2, <2>3, <2>4 DEF Inv
<1>9. CASE UNCHANGED vars
  <2>1. /\ msg' = msg /\ phase' = phase /\ plan' = plan /\ size' = size /\ buf' = buf
        /\ return_code' = return_code /\ mesg_idx' = mesg_idx /\ rec' = rec /\ field' = field
        /\ out' = out /\ heap' = heap
    BY <1>9 DEF vars
  <2>2. Sending'
    BY <1>s, <2>1 DEF Sending
  <2>3. Receiving'
    BY <1>s, <2>1 DEF Receiving, Unread
  <2>4. Blocks("key")' = Blocks("key") /\ Blocks("value")' = Blocks("value")
        /\ BlocksWith("key", "key_len")' = BlocksWith("key", "key_len")
        /\ BlocksWith("value", "value_len")' = BlocksWith("value", "value_len")
    BY <2>1 DEF Blocks, BlocksWith
  <2>5. Allocated'
    BY <1>s, <2>1, <2>4 DEF Allocated, Kept, Unread
  <2>6. ReleaseComplete'
    BY <1>s, <2>1, <2>4 DEF ReleaseComplete
  <2> QED BY <2>2, <2>3, <2>5, <2>6 DEF Inv
<1> QED
  BY <1>1, <1>2, <1>3, <1>4, <1>5, <1>6, <1>7, <1>8, <1>9 DEF Next, Ended

(* The invariant holds in every state of every behaviour. *)
THEOREM MessagesInvariant == Spec => []Inv
BY InvInit, InvNext, PTL DEF Spec

(* A message is packed whole, or it needs more than MDHIM_MAX_MSG_SIZE bytes *)
(* and is refused: for every type of message, every number of records, every *)
(* length of the keys and the values, also when the sum of a key's and a     *)
(* value's length wraps around as an int.                                    *)
THEOREM PackedWholeOrRefused == Spec => []PackExact
<1>1. Inv => PackExact
  <2> SUFFICES ASSUME Inv PROVE PackExact
    OBVIOUS
  <2>1. Sending /\ msg \in Message
    BY DEF Inv, Sending
  <2>2. FlattenSeq(Pack(msg).fields) = Bytes(msg) /\ Len(Bytes(msg)) = HdrLen + Len(Body(msg, Len(msg.recs)))
    BY <2>1, BytesIs
  <2>3. Reserved = Spare(msg)
    BY DEF Reserved, Spare
  <2>4. Len(AllFields) + Reserved = Need(msg)
    BY <2>2, <2>3 DEF AllFields, Need
  <2>5. phase = "refused" => Len(AllFields) + Reserved > MaxMsg
    BY <2>1, <2>4 DEF Sending
  <2>6. phase = "packed" => buf = Bytes(msg) /\ Len(buf) <= Pack(msg).size /\ Pack(msg).size <= MaxMsg
    BY <2>1 DEF Sending, Packed
  <2>7. Pack(msg).size \in Int /\ Len(Bytes(msg)) \in Nat
    <3>1. Len(Bytes(msg)) \in Nat
      BY <2>1, <2>2, NeedType, Constants
    <3> QED BY <2>1, <3>1, SizeIs
  <2>8. phase = "packed" => buf = AllFields /\ Len(buf) <= MaxMsg
    BY <2>2, <2>6, <2>7, Constants DEF AllFields
  <2> QED BY <2>5, <2>8 DEF PackExact
<1> QED
  BY <1>1, MessagesInvariant, PTL

(* The receiver unpacks the records that were packed: the pack and the unpack *)
(* function of every type of message agree on the order and the lengths of    *)
(* the fields, and no MPI_Unpack of a packed message fails.                   *)
THEOREM UnpackedAsPacked == Spec => []RoundTrip
<1>1. Inv => RoundTrip
  <2> SUFFICES ASSUME Inv PROVE RoundTrip
    OBVIOUS
  <2>1. phase # "failed" /\ msg \in Message
    BY DEF Inv, Sending, Packed
  <2>2. DOMAIN msg.recs = 1 .. Len(msg.recs)
    BY <2>1, MessageFacts
  <2>3. phase \in {"unpacked", "released", "partly released"} => \A i \in 1 .. Len(msg.recs) : out[i] = Expected(msg, i)
    BY DEF Inv, Receiving
  <2> QED BY <2>1, <2>2, <2>3 DEF RoundTrip, Expected
<1> QED
  BY <1>1, MessagesInvariant, PTL

(* After mdhim_full_release_msg nothing of an unpacked message is left but    *)
(* blocks of length 0; mdhim_partial_release_msg leaves its keys and values.  *)
THEOREM ReleasedWhole == Spec => []ReleaseComplete
<1>1. Inv => ReleaseComplete
  BY DEF Inv
<1> QED
  BY <1>1, MessagesInvariant, PTL

=============================================================================
