------------------------- MODULE Partitioner_proofs -------------------------
(***************************************************************************)
(* Facts about numbers and finite sets, and proofs about                   *)
(* KeyTypes and Partitioner: every valid key has a slice and a server, for *)
(* every key type, size of the job and range_server_factor.                *)
(***************************************************************************)
EXTENDS Partitioner, Induction

-----------------------------------------------------------------------------
(* Numbers. *)

LEMMA PowerOfTwo ==
  ASSUME NEW n \in Nat
  PROVE  2^n \in Nat \ {0}
<1> DEFINE S == SUBSET (1..n)
<1>1. IsFiniteSet(1..n) /\ Cardinality(1..n) = n
  BY FS_Interval
<1>2. IsFiniteSet(S) /\ Cardinality(S) = 2^n
  BY <1>1, FS_SUBSET
<1>3. S # {}
  OBVIOUS
<1> QED
  BY <1>2, <1>3, FS_CardinalityType, FS_EmptySet

-----------------------------------------------------------------------------
(* The least and the greatest element of a finite set of integers. *)

LEMMA MinExists ==
  ASSUME NEW S, S \subseteq Int, IsFiniteSet(S), S # {}
  PROVE  \E x \in S : \A y \in S : x <= y
<1> DEFINE n == Cardinality(S)
<1>1. n \in Nat /\ \E f \in [1..n -> S] : \A y \in S : \E i \in 1..n : f[i] = y
  BY FS_CardinalityType DEF ExistsBijection, Bijection, Injection, Surjection, IsInjective
<1> HIDE DEF n
<1>2. PICK f \in [1..n -> S] : \A y \in S : \E i \in 1..n : f[i] = y
  BY <1>1
<1>n. n \in Nat /\ n # 0
  <2>1. PICK y : y \in S
    OBVIOUS
  <2>2. \E i \in 1..n : f[i] = y
    BY <1>2, <2>1
  <2> QED BY <1>1, <2>2
<1>f. f \in [1..n -> Int]
  BY <1>2
<1> DEFINE T == {k \in 0..n : k = 0 \/ \E i \in 1..k : \A j \in 1..k : f[i] <= f[j]}
<1>3. 0 \in T
  BY <1>n
<1>4. \A k \in 0..n - 1 : k \in T => k + 1 \in T
  <2> SUFFICES ASSUME NEW k \in 0..n - 1, k \in T
               PROVE  k + 1 \in T
    OBVIOUS
  <2>0. k + 1 \in 0..n /\ k \in Nat
    BY <1>n
  <2> SUFFICES \E i \in 1..k+1 : \A j \in 1..k+1 : f[i] <= f[j]
    BY <2>0
  <2>1. CASE k = 0
    <3>1. \A j \in 1..k+1 : f[1] <= f[j]
      BY <2>1, <1>n, <1>f
    <3> QED BY <2>1, <3>1
  <2>2. CASE k # 0
    <3>1. PICK i \in 1..k : \A j \in 1..k : f[i] <= f[j]
      BY <2>2
    <3>2. f[i] \in Int /\ f[k+1] \in Int /\ \A j \in 1..k : f[j] \in Int
      BY <1>n, <1>f
    <3>3. CASE f[i] <= f[k+1]
      <4>1. \A j \in 1..k+1 : f[i] <= f[j]
        BY <1>n, <3>1, <3>3
      <4> QED BY <1>n, <4>1
    <3>4. CASE f[k+1] <= f[i]
      <4>1. \A j \in 1..k+1 : f[k+1] <= f[j]
        BY <1>n, <3>1, <3>2, <3>4
      <4>2. k + 1 \in 1..k+1
        BY <1>n
      <4> QED BY <4>1, <4>2
    <3>5. f[i] <= f[k+1] \/ f[k+1] <= f[i]
      BY <3>2
    <3> QED BY <3>3, <3>4, <3>5, Zenon
  <2> QED BY <2>1, <2>2
<1>5. n \in T
  <2>1. n \in 0..n
    BY <1>n
  <2> HIDE DEF T
  <2> QED BY <1>n, <1>3, <1>4, <2>1, UpTo
<1>6. PICK i \in 1..n : \A j \in 1..n : f[i] <= f[j]
  BY <1>n, <1>5
<1>7. f[i] \in S /\ \A y \in S : f[i] <= y
  BY <1>2, <1>6
<1> QED
  BY <1>7

LEMMA MaxExists ==
  ASSUME NEW S, S \subseteq Int, IsFiniteSet(S), S # {}
  PROVE  \E x \in S : \A y \in S : x >= y
<1> DEFINE f == [x \in S |-> 0 - x]
           T == {0 - x : x \in S}
<1>1. T \subseteq Int /\ T # {}
  <2>1. \A x \in S : 0 - x \in Int
    OBVIOUS
  <2>2. PICK x : x \in S
    OBVIOUS
  <2>3. 0 - x \in T
    BY <2>2
  <2> QED BY <2>1, <2>3
<1>2. f \in Surjection(S, T)
  BY DEF Surjection
<1>3. IsFiniteSet(T)
  <2> HIDE DEF f, T
  <2> QED BY <1>2, FS_Surjection
<1>4. PICK m \in T : \A y \in T : m <= y
  <2> HIDE DEF f, T
  <2> QED BY <1>1, <1>3, MinExists
<1>5. PICK x \in S : m = 0 - x
  OBVIOUS
<1>6. ASSUME NEW y \in S PROVE x >= y
  <2>1. 0 - y \in T /\ x \in Int /\ y \in Int
    OBVIOUS
  <2>2. m <= 0 - y
    BY <1>4, <2>1
  <2> QED BY <1>5, <2>1, <2>2
<1> QED
  BY <1>6

LEMMA MinOf ==
  ASSUME NEW S, S \subseteq Int, IsFiniteSet(S), S # {}
  PROVE  Min(S) \in S /\ Min(S) \in Int /\ \A y \in S : Min(S) <= y
BY MinExists DEF Min

LEMMA MaxOf ==
  ASSUME NEW S, S \subseteq Int, IsFiniteSet(S), S # {}
  PROVE  Max(S) \in S /\ Max(S) \in Int /\ \A y \in S : Max(S) >= y
BY MaxExists DEF Max

(* The element that is the least is Min. *)
LEMMA MinIs ==
  ASSUME NEW S, S \subseteq Int, NEW m \in S, \A y \in S : m <= y
  PROVE  Min(S) = m
<1>1. Min(S) \in S /\ \A y \in S : Min(S) <= y
  BY DEF Min
<1>2. Min(S) \in Int /\ m \in Int /\ Min(S) <= m /\ m <= Min(S)
  BY <1>1
<1> QED
  BY <1>2

LEMMA MaxIs ==
  ASSUME NEW S, S \subseteq Int, NEW m \in S, \A y \in S : m >= y
  PROVE  Max(S) = m
<1>1. Max(S) \in S /\ \A y \in S : Max(S) >= y
  BY DEF Max
<1>2. Max(S) \in Int /\ m \in Int /\ Max(S) >= m /\ m >= Max(S)
  BY <1>1
<1> QED
  BY <1>2

-----------------------------------------------------------------------------
(* Division. *)

LEMMA Division ==
  ASSUME NEW a \in Int, NEW b \in Nat, b # 0
  PROVE  /\ a \div b \in Int /\ a % b \in 0 .. b - 1
         /\ a = b * (a \div b) + (a % b)
OBVIOUS

LEMMA NatDivision ==
  ASSUME NEW a \in Nat, NEW b \in Nat, b # 0
  PROVE  a \div b \in Nat
<1>1. a \div b \in Int /\ a % b \in 0 .. b - 1 /\ a = b * (a \div b) + (a % b)
  BY Division
<1>2. ASSUME a \div b < 0 PROVE FALSE
  <2>1. b * (a \div b) <= 0 - b
    BY <1>1, <1>2
  <2> QED BY <1>1, <2>1
<1> QED
  BY <1>1, <1>2

LEMMA DivisionIs ==
  ASSUME NEW q \in Int, NEW r \in Int, NEW b \in Nat, b # 0, 0 <= r, r < b
  PROVE  (b * q + r) \div b = q /\ (b * q + r) % b = r
OBVIOUS

LEMMA DivisionMonotone ==
  ASSUME NEW x \in Int, NEW y \in Int, NEW b \in Nat, b # 0, x <= y
  PROVE  x \div b <= y \div b
OBVIOUS

LEMMA TimesMonotone ==
  ASSUME NEW x \in Int, NEW y \in Int, NEW b \in Nat, x <= y
  PROVE  x * b <= y * b
OBVIOUS

(* 2^(a+b) counts the pairs of subsets of two disjoint sets. *)
LEMMA PowerOfSum ==
  ASSUME NEW a \in Nat, NEW b \in Nat
  PROVE  2^(a + b) = 2^a * 2^b
<1> DEFINE A == 1..a  B == a+1 .. a+b  C == 1 .. a+b
           f == [T \in SUBSET C |-> <<T \cap A, T \cap B>>]
<1>1. /\ IsFiniteSet(A) /\ Cardinality(A) = a
      /\ IsFiniteSet(B) /\ Cardinality(B) = b
      /\ IsFiniteSet(C) /\ Cardinality(C) = a + b
  <2>1. IsFiniteSet(A) /\ Cardinality(A) = a
    BY FS_Interval
  <2>2. IsFiniteSet(B) /\ Cardinality(B) = b
    <3>1. a + 1 \in Int /\ a + b \in Int
      OBVIOUS
    <3> QED BY <3>1, FS_Interval
  <2>3. IsFiniteSet(C) /\ Cardinality(C) = a + b
    <3> DEFINE n == a + b
    <3>1. n \in Nat
      OBVIOUS
    <3> HIDE DEF n
    <3>2. IsFiniteSet(1..n) /\ Cardinality(1..n) = n
      BY <3>1, FS_Interval
    <3> QED BY <3>2 DEF n
  <2> QED BY <2>1, <2>2, <2>3
<1>2. C = A \cup B /\ A \cap B = {}
  OBVIOUS
<1> HIDE DEF A, B, C
<1>3. f \in Bijection(SUBSET C, (SUBSET A) \X (SUBSET B))
  <2>1. f \in [SUBSET C -> (SUBSET A) \X (SUBSET B)]
    OBVIOUS
  <2>2. ASSUME NEW T \in SUBSET C, NEW U \in SUBSET C, f[T] = f[U] PROVE T = U
    <3>1. T \cap A = U \cap A /\ T \cap B = U \cap B
      BY <2>2
    <3> QED BY <1>2, <3>1
  <2>3. ASSUME NEW p \in (SUBSET A) \X (SUBSET B) PROVE \E T \in SUBSET C : f[T] = p
    <3> PICK V \in SUBSET A, W \in SUBSET B : p = <<V, W>>
      OBVIOUS
    <3>1. V \cup W \in SUBSET C /\ (V \cup W) \cap A = V /\ (V \cup W) \cap B = W
      BY <1>2
    <3>2. f[V \cup W] = p
      BY <3>1
    <3> QED BY <3>1, <3>2
  <2> QED BY <2>1, <2>2, <2>3 DEF Bijection, Injection, Surjection, IsInjective
<1>4. /\ IsFiniteSet(SUBSET A) /\ Cardinality(SUBSET A) = 2^a
      /\ IsFiniteSet(SUBSET B) /\ Cardinality(SUBSET B) = 2^b
      /\ IsFiniteSet(SUBSET C) /\ Cardinality(SUBSET C) = 2^(a + b)
  BY <1>1, FS_SUBSET
<1>5. Cardinality((SUBSET A) \X (SUBSET B)) = 2^a * 2^b
  <2> DEFINE P == SUBSET A  Q == SUBSET B
  <2>1. IsFiniteSet(P) /\ IsFiniteSet(Q) /\ Cardinality(P) = 2^a /\ Cardinality(Q) = 2^b
    BY <1>4
  <2> HIDE DEF P, Q
  <2>2. Cardinality(P \X Q) = Cardinality(P) * Cardinality(Q)
    BY <2>1, FS_Product, Zenon
  <2> QED BY <2>1, <2>2 DEF P, Q
<1>6. Cardinality((SUBSET A) \X (SUBSET B)) = 2^(a + b)
  BY <1>3, <1>4, FS_Bijection DEF ExistsBijection
<1> QED
  BY <1>5, <1>6

-----------------------------------------------------------------------------
(* The fractions of strings and bytes. *)

(* The running sums g that Fraction ends with. *)
IsSum(g, d, w) ==
  /\ g \in [0 .. Len(d) -> Nat]
  /\ g[0] = 0
  /\ \A i \in 1 .. Len(d) : g[i] = g[i - 1] + d[i] * 2^(w * (MaxKeyLen - i))

LEMMA WeightType ==
  ASSUME NEW w \in Nat, NEW i \in Nat, i <= MaxKeyLen
  PROVE  w * (MaxKeyLen - i) \in Nat /\ 2^(w * (MaxKeyLen - i)) \in Nat \ {0}
<1>1. MaxKeyLen - i \in Nat
  BY KeyTypesAssumption
<1>2. w * (MaxKeyLen - i) \in Nat
  BY <1>1
<1> QED
  BY <1>2, PowerOfTwo

LEMMA FractionSum ==
  ASSUME NEW d \in Seq(Nat), Len(d) <= MaxKeyLen, NEW w \in Nat
  PROVE  \E g : IsSum(g, d, w) /\ Fraction(d, w) = g[Len(d)]
<1> DEFINE n == Len(d)
           W(i) == 2^(w * (MaxKeyLen - i))
           F == [i \in 1..n |-> [x \in Nat |-> x + d[i] * W(i)]]
           Def(g) == g = [i \in 0..n |-> IF i = 0 THEN 0 ELSE g[i - 1] + d[i] * W(i)]
           sum == CHOOSE g : Def(g)
<1>1. n \in Nat /\ d \in [1..n -> Nat]
  OBVIOUS
<1>2. ASSUME NEW i \in 1..n PROVE W(i) \in Nat
  <2>1. i \in Nat /\ i <= MaxKeyLen
    BY <1>1, KeyTypesAssumption
  <2> QED BY <2>1, WeightType
<1> HIDE DEF n, W
<1>3. F \in [1..n -> [Nat -> Nat]]
  <2>1. ASSUME NEW i \in 1..n PROVE d[i] * W(i) \in Nat
    <3>1. d[i] \in Nat /\ W(i) \in Nat
      BY <1>1, <1>2
    <3> QED BY <3>1
  <2>2. ASSUME NEW i \in 1..n, NEW x \in Nat PROVE x + d[i] * W(i) \in Nat
    BY <2>1
  <2> QED BY <2>2
<1>4. \E f : Iteration(f, n, Nat, 0, F)
  <2>1. n \in Nat /\ 0 \in Nat /\ F \in [1..n -> [Nat -> Nat]]
    BY <1>1, <1>3
  <2> HIDE DEF F
  <2> QED BY <2>1, Iterate
<1>f. PICK f : f \in [0..n -> Nat] /\ f[0] = 0 /\ \A i \in 1..n : f[i] = F[i][f[i-1]]
  BY <1>4 DEF Iteration
<1>5. Def(f)
  <2>1. ASSUME NEW i \in 0..n, i # 0 PROVE f[i] = f[i - 1] + d[i] * W(i)
    <3>1. i \in 1..n /\ f[i-1] \in Nat
      BY <1>1, <1>f, <2>1
    <3>2. F[i][f[i-1]] = f[i - 1] + d[i] * W(i)
      BY <3>1
    <3> QED BY <1>f, <3>1, <3>2
  <2> QED BY <1>f, <2>1
<1>6. Def(sum)
  <2> HIDE DEF Def
  <2> QED BY <1>5
<1> HIDE DEF F
<1>7. /\ sum = [i \in 0..n |-> sum[i]] /\ sum[0] = 0
      /\ \A i \in 1..n : sum[i] = sum[i - 1] + d[i] * W(i)
  <2> HIDE DEF sum
  <2>1. ASSUME NEW i \in 0..n PROVE sum[i] = IF i = 0 THEN 0 ELSE sum[i - 1] + d[i] * W(i)
    BY <1>6
  <2>2. DOMAIN sum = 0..n
    BY <1>6
  <2>3. sum = [i \in 0..n |-> sum[i]]
    BY <1>6, <2>1
  <2>4. sum[0] = 0
    BY <1>1, <2>1
  <2>5. ASSUME NEW i \in 1..n PROVE sum[i] = sum[i - 1] + d[i] * W(i)
    BY <1>1, <2>1
  <2> QED BY <2>3, <2>4, <2>5
<1>8. \A i \in 0..n : sum[i] \in Nat
  <2> HIDE DEF sum, Def
  <2> DEFINE T == {i \in 0..n : sum[i] \in Nat}
  <2>1. 0 \in T
    BY <1>1, <1>7
  <2>2. ASSUME NEW i \in 0..n - 1, i \in T PROVE i + 1 \in T
    <3>1. i + 1 \in 1..n /\ (i + 1) - 1 = i
      BY <1>1
    <3>2. sum[i + 1] = sum[i] + d[i + 1] * W(i + 1)
      BY <1>7, <3>1
    <3>3. d[i + 1] \in Nat /\ W(i + 1) \in Nat
      BY <1>1, <1>2, <3>1
    <3>4. d[i + 1] * W(i + 1) \in Nat
      BY <3>3
    <3> QED BY <1>1, <2>2, <3>1, <3>2, <3>4
  <2> HIDE DEF T
  <2>3. \A i \in 0..n : i \in T
    BY <1>1, <2>1, <2>2, UpTo
  <2> QED BY <2>3 DEF T
<1>9. IsSum(sum, d, w)
  <2> HIDE DEF sum, Def
  <2> QED BY <1>7, <1>8 DEF IsSum, n, W
<1>10. Fraction(d, w) = sum[Len(d)]
  BY DEF Fraction, n, W
<1> HIDE DEF sum
<1> QED
  BY <1>9, <1>10

LEMMA FractionType ==
  ASSUME NEW d \in Seq(Nat), Len(d) <= MaxKeyLen, NEW w \in Nat
  PROVE  Fraction(d, w) \in Nat
BY FractionSum DEF IsSum

LEMMA PosType ==
  ASSUME NEW c
  PROVE  pos(c) \in Nat
<1>1. {x \in Alphabet : x < c} \in SUBSET Alphabet
  OBVIOUS
<1>2. IsFiniteSet({x \in Alphabet : x < c})
  BY <1>1, KeyTypesAssumption, FS_Subset
<1> QED
  BY <1>2, FS_CardinalityType DEF pos

(* add_char numbers the characters from 0 on, in their order. *)
LEMMA PosOrder ==
  ASSUME NEW c \in Alphabet
  PROVE  /\ pos(c) <= 2^MDHIM_ALPHABET_EXPONENT - 1
         /\ \A x \in Nat : c < x => pos(c) + 1 <= pos(x)
<1> DEFINE B(x) == {y \in Alphabet : y < x}
<1>1. IsFiniteSet(Alphabet) /\ Alphabet \subseteq Nat /\ Cardinality(Alphabet) \in Nat
  BY KeyTypesAssumption, FS_CardinalityType
<1>2. ASSUME NEW x PROVE IsFiniteSet(B(x)) /\ pos(x) = Cardinality(B(x)) /\ pos(x) \in Nat
  <2>1. B(x) \in SUBSET Alphabet
    OBVIOUS
  <2> QED BY <1>1, <2>1, FS_Subset, PosType DEF pos
<1>3. Cardinality(B(c) \cup {c}) = pos(c) + 1
  <2>1. c \notin B(c)
    BY <1>1
  <2> HIDE DEF B
  <2> QED BY <1>2, <2>1, FS_AddElement
<1>4. pos(c) + 1 <= Cardinality(Alphabet)
  <2>1. B(c) \cup {c} \in SUBSET Alphabet
    OBVIOUS
  <2> HIDE DEF B
  <2> QED BY <1>1, <1>3, <2>1, FS_Subset
<1>5. 2^MDHIM_ALPHABET_EXPONENT \in Nat
  BY KeyTypesAssumption, PowerOfTwo
<1>6. pos(c) <= 2^MDHIM_ALPHABET_EXPONENT - 1
  <2>1. pos(c) \in Nat /\ Cardinality(Alphabet) <= 2^MDHIM_ALPHABET_EXPONENT
    BY <1>2, KeyTypesAssumption
  <2> QED BY <1>1, <1>4, <1>5, <2>1
<1>7. ASSUME NEW x \in Nat, c < x PROVE pos(c) + 1 <= pos(x)
  <2>1. B(c) \cup {c} \in SUBSET B(x)
    <3>1. c \in B(x)
      BY <1>7
    <3>2. ASSUME NEW y \in B(c) PROVE y \in B(x)
      <4>1. y \in Nat /\ c \in Nat /\ y < c
        BY <1>1
      <4> QED BY <1>7, <4>1
    <3> QED BY <3>1, <3>2
  <2> HIDE DEF B
  <2>2. Cardinality(B(c) \cup {c}) <= Cardinality(B(x))
    BY <1>2, <2>1, FS_Subset
  <2> QED BY <1>2, <1>3, <2>2
<1> QED
  BY <1>6, <1>7

(* Digits from place i on add less than one unit of place i. *)
LEMMA FractionTail ==
  ASSUME NEW d \in Seq(Nat), Len(d) <= MaxKeyLen, NEW w \in Nat,
         \A j \in 1 .. Len(d) : d[j] <= 2^w - 1,
         NEW g, IsSum(g, d, w), NEW i \in 0 .. Len(d)
  PROVE  g[i] <= g[Len(d)] /\ g[Len(d)] <= g[i] + 2^(w * (MaxKeyLen - i))
<1> DEFINE n == Len(d)
           W(j) == 2^(w * (MaxKeyLen - j))
           T == {m \in 0 .. n : i + m <= n =>
                   /\ g[i] <= g[i + m]
                   /\ g[i + m] + W(i + m) <= g[i] + W(i)}
<1>1. n \in Nat /\ d \in [1..n -> Nat] /\ MaxKeyLen \in Nat /\ n <= MaxKeyLen /\ i \in 0..n
  BY KeyTypesAssumption
<1>2. ASSUME NEW j \in 0..n PROVE W(j) \in Nat \ {0} /\ g[j] \in Nat
  <2>1. j \in Nat /\ j <= MaxKeyLen
    BY <1>1
  <2> QED BY <2>1, WeightType DEF IsSum
<1>3. ASSUME NEW j \in 1..n PROVE W(j - 1) = 2^w * W(j)
  <2>1. w * (MaxKeyLen - j) \in Nat
    BY <1>1, WeightType
  <2>2. w * (MaxKeyLen - (j - 1)) = w + w * (MaxKeyLen - j)
    BY <1>1
  <2> QED BY <2>1, <2>2, PowerOfSum
<1>4. ASSUME NEW j \in 1..n PROVE g[j] = g[j - 1] + d[j] * W(j)
  BY DEF IsSum
<1>5. \A j \in 1..n : d[j] <= 2^w - 1
  OBVIOUS
<1>6. 2^w \in Nat
  BY PowerOfTwo
<1> HIDE DEF n, W
<1>7. 0 \in T
  BY <1>1, <1>2
<1>8. ASSUME NEW m \in 0 .. n - 1, m \in T PROVE m + 1 \in T
  <2> SUFFICES ASSUME i + m + 1 <= n
               PROVE  g[i] <= g[i + m + 1] /\ g[i + m + 1] + W(i + m + 1) <= g[i] + W(i)
    BY <1>1
  <2> DEFINE j == i + m + 1
  <2>1. j \in 1..n /\ j - 1 = i + m /\ j - 1 \in 0..n
    BY <1>1
  <2>2. g[i] <= g[j - 1] /\ g[j - 1] + W(j - 1) <= g[i] + W(i)
    BY <1>1, <1>8, <2>1
  <2> HIDE DEF j
  <2>3. g[j] = g[j - 1] + d[j] * W(j) /\ W(j - 1) = 2^w * W(j)
    BY <1>3, <1>4, <2>1
  <2>4. /\ W(j) \in Nat /\ W(j - 1) \in Nat /\ d[j] \in Nat /\ d[j] <= 2^w - 1
        /\ g[j] \in Nat /\ g[j - 1] \in Nat /\ g[i] \in Nat /\ W(i) \in Nat
    BY <1>1, <1>2, <1>5, <2>1
  <2> DEFINE p == 2^w  x == d[j]  y == W(j)
  <2>5. x * y \in Nat /\ x * y + y <= p * y
    <3>0. p \in Nat /\ x \in Nat /\ y \in Nat /\ x <= p - 1
      BY <1>6, <2>4, Zenon
    <3> HIDE DEF p, x, y
    <3>1. p \in Nat /\ x \in Nat /\ y \in Nat /\ x + 1 <= p
      BY <3>0
    <3>2. (x + 1) * y <= p * y
      BY <3>1, TimesMonotone
    <3>3. x * y \in Nat /\ (x + 1) * y = x * y + y
      BY <3>1
    <3> QED BY <3>2, <3>3
  <2>6. g[i] <= g[j] /\ g[j] + W(j) <= g[i] + W(i)
    <3> DEFINE u == x * y  v == W(j - 1)  a == g[i]  b == g[j - 1]  c == W(i)
    <3>1. u \in Nat /\ u + y <= v /\ g[j] = b + u
      BY <2>3, <2>5
    <3>2. /\ v \in Nat /\ a \in Nat /\ b \in Nat /\ c \in Nat /\ y \in Nat
          /\ a <= b /\ b + v <= a + c
      BY <2>2, <2>4
    <3> HIDE DEF u, v, a, b, c, y
    <3>3. a <= b + u /\ b + u + y <= a + c
      BY <3>1, <3>2
    <3> QED BY <3>1, <3>3 DEF a, c, y
  <2> QED BY <2>6 DEF j
<1>9. n - i \in T /\ n - i \in Nat
  <2>1. n - i \in 0..n /\ n - i \in Nat
    BY <1>1
  <2> HIDE DEF T
  <2>2. \A m \in 0..n : m \in T
    BY <1>1, <1>7, <1>8, UpTo
  <2> QED BY <2>1, <2>2
<1>10. g[i] <= g[n] /\ g[n] + W(n) <= g[i] + W(i)
  BY <1>1, <1>9
<1>11. n \in 0..n
  BY <1>1
<1>12. g[i] <= g[n] /\ g[n] <= g[i] + W(i)
  BY <1>1, <1>2, <1>10, <1>11
<1> QED
  BY <1>12 DEF n, W

(* Fractions keep the order of digit strings. *)
LEMMA FractionOrder ==
  ASSUME NEW a \in Seq(Nat), Len(a) <= MaxKeyLen,
         NEW b \in Seq(Nat), Len(b) <= MaxKeyLen, NEW w \in Nat,
         \A j \in 1 .. Len(a) : a[j] <= 2^w - 1,
         \A j \in 1 .. Len(b) : b[j] <= 2^w - 1,
         Lexicographic(a, b)
  PROVE  Fraction(a, w) <= Fraction(b, w)
<1>1. PICK g : IsSum(g, a, w) /\ Fraction(a, w) = g[Len(a)]
  BY FractionSum
<1>2. PICK h : IsSum(h, b, w) /\ Fraction(b, w) = h[Len(b)]
  BY FractionSum
<1>3. PICK i \in DOMAIN b : /\ i \in DOMAIN a => a[i] < b[i]
                           /\ \A j \in 1 .. i - 1 : j \in DOMAIN a /\ a[j] = b[j]
  BY DEF Lexicographic
<1> DEFINE la == Len(a)  lb == Len(b)
           W(j) == 2^(w * (MaxKeyLen - j))
<1>4. /\ la \in Nat /\ lb \in Nat /\ DOMAIN a = 1..la /\ DOMAIN b = 1..lb /\ i \in 1..lb
      /\ la <= MaxKeyLen /\ lb <= MaxKeyLen /\ MaxKeyLen \in Nat
  BY KeyTypesAssumption
<1>5. i - 1 <= la
  <2>1. CASE i = 1
    BY <1>4, <2>1
  <2>2. CASE i # 1
    <3>1. i - 1 \in 1 .. i - 1
      BY <1>4, <2>2
    <3> QED BY <1>3, <1>4, <3>1
  <2> QED BY <2>1, <2>2
<1>6. /\ g \in [0..la -> Nat] /\ h \in [0..lb -> Nat] /\ g[0] = 0 /\ h[0] = 0
      /\ \A j \in 1..la : g[j] = g[j - 1] + a[j] * W(j)
      /\ \A j \in 1..lb : h[j] = h[j - 1] + b[j] * W(j)
  BY <1>1, <1>2 DEF IsSum
<1>7. /\ h[i] <= h[lb]
      /\ i - 1 = la \/ (i \in 1..la /\ g[la] <= g[i] + W(i))
  <2>1. h[i] <= h[lb]
    <3>1. i \in 0..lb
      BY <1>4
    <3> QED BY <1>2, <3>1, FractionTail
  <2>2. ASSUME i - 1 # la PROVE i \in 1..la /\ g[la] <= g[i] + W(i)
    <3>1. i \in 1..la /\ i \in 0..la
      BY <1>4, <1>5, <2>2
    <3> QED BY <1>1, <3>1, FractionTail
  <2> QED BY <2>1, <2>2
<1>8. W(i) \in Nat
  <2>1. i \in Nat /\ i <= MaxKeyLen
    BY <1>4
  <2> QED BY <2>1, WeightType
<1>9. a \in [1..la -> Nat] /\ b \in [1..lb -> Nat]
  OBVIOUS
<1> HIDE DEF la, lb, W
<1>10. g[i - 1] = h[i - 1]
  <2> DEFINE T == {m \in 0 .. i - 1 : g[m] = h[m]}
  <2>1. 0 \in T
    BY <1>4, <1>6
  <2>2. ASSUME NEW m \in 0 .. (i - 1) - 1, m \in T PROVE m + 1 \in T
    <3>1. m + 1 \in 1..la /\ m + 1 \in 1..lb /\ m + 1 \in 1 .. i - 1 /\ (m + 1) - 1 = m
      BY <1>4, <1>5
    <3>2. g[m + 1] = g[m] + a[m + 1] * W(m + 1) /\ h[m + 1] = h[m] + b[m + 1] * W(m + 1)
      BY <1>6, <3>1
    <3>3. a[m + 1] = b[m + 1]
      BY <1>3, <3>1
    <3> QED BY <2>2, <3>1, <3>2, <3>3
  <2>3. i - 1 \in Nat /\ i - 1 \in 0 .. i - 1
    BY <1>4
  <2> HIDE DEF T
  <2>4. i - 1 \in T
    BY <2>1, <2>2, <2>3, UpTo
  <2> QED BY <2>4 DEF T
<1> DEFINE x == a[i]  y == b[i]  v == W(i)  s == h[i - 1]  t == h[lb]
<1>11. s \in Nat /\ t \in Nat /\ y \in Nat /\ v \in Nat /\ h[i] = s + y * v /\ s + y * v <= t
  <2>1. i - 1 \in 0..lb /\ lb \in 0..lb
    BY <1>4
  <2>2. h[i] = s + y * v
    BY <1>4, <1>6
  <2> QED BY <1>4, <1>6, <1>7, <1>8, <1>9, <2>1, <2>2
<1>12. CASE i - 1 = la
  <2>1. g[la] = s
    BY <1>10, <1>12
  <2> HIDE DEF x, y, v, s, t
  <2>2. y * v \in Nat
    BY <1>11
  <2> DEFINE q == y * v
  <2>q. s \in Nat /\ t \in Nat /\ q \in Nat /\ s + q <= t
    BY <1>11, <2>2
  <2> HIDE DEF q
  <2>3. s <= t
    BY <2>q
  <2> QED BY <1>1, <1>2, <2>1, <2>3 DEF t, la, lb
<1>13. CASE i \in 1..la /\ g[la] <= g[i] + W(i)
  <2>1. g[i] = s + x * v
    BY <1>6, <1>10, <1>13
  <2>2. x \in Nat /\ x < y /\ g[la] \in Nat /\ g[la] <= s + x * v + v
    <3>1. la \in 0..la
      BY <1>4
    <3>2. x \in Nat /\ x < y /\ g[la] \in Nat
      BY <1>3, <1>4, <1>6, <1>9, <1>13, <3>1
    <3>3. g[la] <= s + x * v + v
      BY <1>13, <2>1
    <3> QED BY <3>2, <3>3
  <2> HIDE DEF x, y, v, s, t
  <2>3. (x + 1) * v <= y * v /\ (x + 1) * v = x * v + v /\ x * v \in Nat /\ y * v \in Nat
    BY <1>11, <2>2, TimesMonotone
  <2> DEFINE q == y * v  r == x * v  f == g[la]
  <2>q. /\ s \in Nat /\ t \in Nat /\ v \in Nat /\ q \in Nat /\ r \in Nat /\ f \in Nat
        /\ s + q <= t /\ r + v <= q /\ f <= s + r + v
    BY <1>11, <2>2, <2>3
  <2> HIDE DEF q, r, f
  <2>f. f <= t
    BY <2>q
  <2>4. g[la] <= t
    BY <2>f DEF f
  <2> QED BY <1>1, <1>2, <2>4 DEF t, la, lb
<1> QED
  BY <1>7, <1>12, <1>13

-----------------------------------------------------------------------------
(* Keys, their numbers and their slices. *)

LEMMA KeyContents ==
  ASSUME NEW k \in Keyed
  PROVE  /\ k \in Nat
         /\ KeyType \in {"int", "float", "string", "byte"}
         /\ KeyType = "int" => Val[k] \in Nat
         /\ KeyType = "float" => Val[k] \in Int
         /\ KeyType = "string" => Val[k] \in Seq(Nat) /\ Len(Val[k]) <= MaxKeyLen
         /\ KeyType = "byte" => /\ Val[k] \in Seq(0 .. 2^ByteBits - 1)
                                /\ Len(Val[k]) <= MaxKeyLen
<1>1. CASE KeyType = "int"
  BY <1>1, KeyTypesAssumption
<1>2. CASE KeyType = "float"
  BY <1>2, KeyTypesAssumption
<1>3. CASE KeyType = "string"
  BY <1>3, KeyTypesAssumption
<1>4. CASE KeyType = "byte"
  BY <1>4, KeyTypesAssumption
<1> QED
  BY <1>1, <1>2, <1>3, <1>4, KeyTypesAssumption

LEMMA SeqMonotone ==
  ASSUME NEW A, NEW B, A \subseteq B, NEW s \in Seq(A)
  PROVE  s \in Seq(B)
<1>1. s \in [1 .. Len(s) -> A] /\ Len(s) \in Nat
  OBVIOUS
<1>2. s \in [1 .. Len(s) -> B]
  BY <1>1
<1> QED
  BY <1>1, <1>2

(* The digits of a string key. *)
Digits(s) == [i \in DOMAIN s |-> pos(s[i])]

LEMMA DigitsType ==
  ASSUME NEW s \in Seq(Nat)
  PROVE  Digits(s) \in Seq(Nat) /\ Len(Digits(s)) = Len(s) /\ DOMAIN Digits(s) = 1 .. Len(s)
<1>1. DOMAIN s = 1 .. Len(s) /\ Len(s) \in Nat
  OBVIOUS
<1>2. ASSUME NEW i \in DOMAIN s PROVE pos(s[i]) \in Nat
  BY PosType
<1> QED
  BY <1>1, <1>2 DEF Digits

LEMMA StatNumType ==
  ASSUME NEW k \in Keyed
  PROVE  /\ StatNum[k] \in Int
         /\ KeyType # "float" => StatNum[k] \in Nat
<1>1. CASE KeyType \in {"int", "float"}
  <2>1. StatNum[k] = Val[k]
    BY <1>1 DEF StatNum
  <2> QED BY <1>1, <2>1, KeyContents
<1>2. CASE KeyType = "string"
  <2>1. StatNum[k] = Fraction(Digits(Val[k]), MDHIM_ALPHABET_EXPONENT)
    BY <1>2 DEF StatNum, get_str_num, Digits
  <2>2. Val[k] \in Seq(Nat) /\ Len(Val[k]) <= MaxKeyLen
    BY <1>2, KeyContents
  <2>3. Digits(Val[k]) \in Seq(Nat) /\ Len(Digits(Val[k])) <= MaxKeyLen
    BY <2>2, DigitsType
  <2>4. MDHIM_ALPHABET_EXPONENT \in Nat
    BY KeyTypesAssumption
  <2>5. StatNum[k] \in Nat
    BY <2>1, <2>3, <2>4, FractionType
  <2> QED BY <2>5
<1>3. CASE KeyType = "byte"
  <2>1. StatNum[k] = Fraction(Val[k], ByteBits)
    BY <1>3 DEF StatNum, get_byte_num
  <2>2. Val[k] \in Seq(0 .. 2^ByteBits - 1) /\ Len(Val[k]) <= MaxKeyLen
    BY <1>3, KeyContents
  <2>3. Val[k] \in Seq(Nat)
    <3> DEFINE B == 0 .. 2^ByteBits - 1
    <3>1. B \subseteq Nat
      BY PowerOfTwo, KeyTypesAssumption
    <3>2. Val[k] \in Seq(B)
      BY <2>2
    <3> HIDE DEF B
    <3> QED BY <3>1, <3>2, SeqMonotone
  <2>4. ByteBits \in Nat
    BY KeyTypesAssumption
  <2>5. StatNum[k] \in Nat
    BY <2>1, <2>2, <2>3, <2>4, FractionType
  <2> QED BY <2>5
<1> QED
  BY <1>1, <1>2, <1>3, KeyContents

(* The numbers of int, float and string keys follow the order of the store;  *)
(* those of byte keys do not, because cmp_byte_compare compares the lengths  *)
(* first.                                                                    *)
LEMMA StatNumOrder ==
  ASSUME KeyType # "byte", NEW j \in Keyed, NEW k \in Keyed, verify_key(j), verify_key(k), j < k
  PROVE  StatNum[j] <= StatNum[k]
<1>0. Before(Val[j], Val[k])
  BY KeyTypesAssumption
<1>1. CASE KeyType \in {"int", "float"}
  <2>1. StatNum[j] = Val[j] /\ StatNum[k] = Val[k] /\ Val[j] \in Int /\ Val[k] \in Int
    BY <1>1, KeyContents DEF StatNum
  <2>2. Val[j] < Val[k]
    BY <1>0, <1>1 DEF Before, cmp_int_compare, cmp_float_compare
  <2> QED BY <2>1, <2>2
<1>2. CASE KeyType = "string"
  <2> DEFINE a == Digits(Val[j])  b == Digits(Val[k])  w == MDHIM_ALPHABET_EXPONENT
  <2>1. StatNum[j] = Fraction(a, w) /\ StatNum[k] = Fraction(b, w)
    BY <1>2 DEF StatNum, get_str_num, Digits
  <2>2. /\ Val[j] \in Seq(Nat) /\ Len(Val[j]) <= MaxKeyLen
        /\ Val[k] \in Seq(Nat) /\ Len(Val[k]) <= MaxKeyLen
    BY <1>2, KeyContents
  <2>3. /\ a \in Seq(Nat) /\ Len(a) = Len(Val[j]) /\ Len(a) <= MaxKeyLen
        /\ b \in Seq(Nat) /\ Len(b) = Len(Val[k]) /\ Len(b) <= MaxKeyLen
        /\ DOMAIN a = 1 .. Len(Val[j]) /\ DOMAIN b = 1 .. Len(Val[k])
        /\ DOMAIN a = DOMAIN Val[j] /\ DOMAIN b = DOMAIN Val[k]
    BY <2>2, DigitsType
  <2>4. /\ \A i \in DOMAIN a : Val[j][i] \in Alphabet /\ a[i] = pos(Val[j][i])
        /\ \A i \in DOMAIN b : Val[k][i] \in Alphabet /\ b[i] = pos(Val[k][i])
    BY <1>2, <2>3 DEF verify_key, InRange, Digits
  <2>5. /\ \A i \in 1 .. Len(a) : a[i] <= 2^w - 1
        /\ \A i \in 1 .. Len(b) : b[i] <= 2^w - 1
    BY <2>3, <2>4, PosOrder
  <2>6. Lexicographic(a, b)
    <3>1. PICK i \in DOMAIN Val[k] :
            /\ i \in DOMAIN Val[j] => Val[j][i] < Val[k][i]
            /\ \A n \in 1 .. i - 1 : n \in DOMAIN Val[j] /\ Val[j][n] = Val[k][n]
      BY <1>0, <1>2 DEF Before, cmp_string_compare, Lexicographic
    <3>2. ASSUME i \in DOMAIN a PROVE a[i] < b[i]
      <4>0. i \in DOMAIN b /\ i \in DOMAIN Val[j]
        BY <2>3, <3>1, <3>2
      <4>1. Val[j][i] \in Alphabet /\ Val[k][i] \in Nat /\ Val[j][i] < Val[k][i]
        BY <2>4, <3>1, <3>2, <4>0, KeyTypesAssumption
      <4>2. pos(Val[j][i]) + 1 <= pos(Val[k][i])
        BY <4>1, PosOrder
      <4>3. a[i] = pos(Val[j][i]) /\ b[i] = pos(Val[k][i])
        BY <2>3, <2>4, <3>1, <3>2
      <4>4. pos(Val[j][i]) \in Nat /\ pos(Val[k][i]) \in Nat
        BY PosType
      <4> QED BY <4>2, <4>3, <4>4
    <3>3. ASSUME NEW n \in 1 .. i - 1 PROVE n \in DOMAIN a /\ a[n] = b[n]
      <4>1. i \in 1 .. Len(Val[k]) /\ n \in 1 .. Len(Val[k])
        <5> HIDE DEF a, b
        <5>1. Len(Val[k]) \in Nat
          BY <2>2
        <5>2. i \in 1 .. Len(Val[k])
          BY <2>3, Zenon
        <5> QED BY <5>1, <5>2
      <4> QED BY <2>3, <2>4, <3>1, <4>1
    <3> HIDE DEF a, b
    <3> QED BY <2>3, <3>1, <3>2, <3>3 DEF Lexicographic
  <2>7. w \in Nat
    BY KeyTypesAssumption
  <2> HIDE DEF a, b, w
  <2> QED BY <2>1, <2>3, <2>5, <2>6, <2>7, FractionOrder
<1> QED
  BY <1>1, <1>2, KeyContents

LEMMA TotalType == total_keys \in Nat \ {0}
BY PartitionerAssumption DEF total_keys

LEMMA ScaleType == 2^Scale \in Nat \ {0}
<1>1. Scale \in Nat
  BY KeyTypesAssumption DEF Scale
<1> QED
  BY <1>1, PowerOfTwo

LEMMA KeyNumType ==
  ASSUME NEW k \in Keyed
  PROVE  key_num(k, total_keys) \in Nat
<1>1. CASE KeyType = "int"
  BY <1>1, KeyContents DEF key_num
<1>2. CASE KeyType = "float"
  <2>1. Val[k] \in Int
    BY <1>2, KeyContents
  <2>2. Abs(Val[k]) \in Nat
    BY <2>1 DEF Abs
  <2> QED BY <1>2, <2>2, NatDivision DEF key_num
<1>3. CASE KeyType \in {"string", "byte"}
  <2> DEFINE x == StatNum[k] * total_keys
  <2>1. StatNum[k] \in Nat
    BY <1>3, StatNumType
  <2>2. x \in Nat
    BY <2>1, TotalType
  <2>3. key_num(k, total_keys) = x \div 2^Scale
    BY <1>3 DEF key_num
  <2> HIDE DEF x
  <2> QED BY <2>2, <2>3, ScaleType, NatDivision
<1> QED
  BY <1>1, <1>2, <1>3, KeyContents

LEMMA SliceType ==
  ASSUME NEW k \in Keyed
  PROVE  /\ verify_key(k) => get_slice_num(k) \in Nat
         /\ get_slice_num(k) # NoSlice <=> verify_key(k)
         /\ get_slice_num(k) \in Int
<1>1. ASSUME verify_key(k) PROVE get_slice_num(k) \in Nat
  <2> DEFINE x == key_num(k, total_keys)
  <2>1. x \in Nat /\ get_slice_num(k) = x \div mdhim_max_recs_per_slice
    BY <1>1, KeyNumType DEF get_slice_num
  <2> HIDE DEF x
  <2> QED BY <2>1, PartitionerAssumption, NatDivision
<1>2. ~verify_key(k) => get_slice_num(k) = NoSlice
  BY DEF get_slice_num
<1> QED
  BY <1>1, <1>2 DEF NoSlice

(* Do slices follow the order of the keys?  Byte keys of different lengths   *)
(* and negative floats, whose sign get_slice_num drops, do not.              *)
SlicesFollowKeys ==
  \/ KeyType \in {"int", "string"}
  \/ KeyType = "float" /\ \A k \in Keyed : Val[k] >= 0

LEMMA SliceOrder ==
  ASSUME SlicesFollowKeys,
         NEW j \in Keyed, NEW k \in Keyed, verify_key(j), verify_key(k), j < k
  PROVE  get_slice_num(j) <= get_slice_num(k)
<1> DEFINE x == key_num(j, total_keys)  y == key_num(k, total_keys)
<1>1. /\ x \in Nat /\ y \in Nat
      /\ get_slice_num(j) = x \div mdhim_max_recs_per_slice
      /\ get_slice_num(k) = y \div mdhim_max_recs_per_slice
  BY KeyNumType DEF get_slice_num
<1>2. StatNum[j] <= StatNum[k]
  BY StatNumOrder DEF SlicesFollowKeys
<1>3. x <= y
  <2>1. CASE KeyType = "int"
    BY <1>2, <2>1, KeyContents DEF key_num, StatNum
  <2>2. CASE KeyType = "float"
    <3>1. Val[j] \in Int /\ Val[k] \in Int /\ Val[j] >= 0 /\ Val[k] >= 0 /\ Val[j] <= Val[k]
      BY <1>2, <2>2, KeyContents DEF StatNum, SlicesFollowKeys
    <3>2. x = Val[j] \div 2 /\ y = Val[k] \div 2
      BY <2>2, <3>1 DEF key_num, Abs
    <3> QED BY <3>1, <3>2
  <2>3. CASE KeyType = "string"
    <3> DEFINE u == StatNum[j] * total_keys  v == StatNum[k] * total_keys
    <3>1. StatNum[j] \in Int /\ StatNum[k] \in Int
      BY StatNumType
    <3>2. u <= v /\ u \in Int /\ v \in Int
      BY <1>2, <3>1, TotalType, TimesMonotone
    <3>3. x = u \div 2^Scale /\ y = v \div 2^Scale
      BY <2>3 DEF key_num
    <3> HIDE DEF u, v, x, y
    <3> QED BY <3>2, <3>3, ScaleType, DivisionMonotone
  <2> QED BY <2>1, <2>2, <2>3 DEF SlicesFollowKeys
<1> HIDE DEF x, y
<1> QED
  BY <1>1, <1>3, PartitionerAssumption, DivisionMonotone

-----------------------------------------------------------------------------
(* The range servers. *)

(* The ranks get_num_range_servers counts are numbered 1, 2, ... by rank. *)
LEMMA Multiples ==
  ASSUME NEW c \in Nat, NEW f \in Nat, f # 0
  PROVE  LET M == {i \in 0..c : i % f = 0}
         IN /\ [r \in M |-> (r \div f) + 1] \in Bijection(M, 1 .. (c \div f) + 1)
            /\ IsFiniteSet(M) /\ Cardinality(M) = (c \div f) + 1
<1> DEFINE M == {i \in 0..c : i % f = 0}
           q == c \div f
           N == 1 .. q + 1
           h == [r \in M |-> (r \div f) + 1]
<1>1. q \in Nat /\ f * q <= c
  <2>1. q \in Nat
    BY NatDivision
  <2>2. c = f * q + (c % f) /\ c % f \in 0 .. f - 1
    BY Division
  <2> DEFINE p == f * q
  <2>3. p \in Int
    BY <2>1
  <2> QED BY <2>1, <2>2, <2>3
<1>2. ASSUME NEW r \in M PROVE r \in Nat /\ r \div f \in Nat /\ r = f * (r \div f) /\ r \div f <= q
  <2>1. r \in Nat /\ r <= c /\ r % f = 0
    OBVIOUS
  <2>2. r \div f \in Nat
    BY <2>1, NatDivision
  <2>3. r = f * (r \div f)
    BY <2>1, <2>2, Division
  <2>4. r \div f <= q
    BY <2>1, DivisionMonotone
  <2> QED BY <2>1, <2>2, <2>3, <2>4
<1>3. h \in [M -> N]
  <2>1. ASSUME NEW r \in M PROVE (r \div f) + 1 \in N
    <3>1. r \div f \in Nat /\ r \div f <= q /\ q \in Nat
      BY <1>1, <1>2
    <3> HIDE DEF q
    <3> QED BY <3>1
  <2> HIDE DEF M, N
  <2> QED BY <2>1
<1>4. ASSUME NEW r \in M, NEW s \in M, h[r] = h[s] PROVE r = s
  <2>1. (r \div f) + 1 = (s \div f) + 1
    BY <1>4
  <2>2. r \div f \in Nat /\ s \div f \in Nat
    BY <1>2
  <2>3. r \div f = s \div f
    BY <2>1, <2>2
  <2>4. r = f * (r \div f) /\ s = f * (s \div f)
    BY <1>2
  <2> QED BY <2>3, <2>4
<1>5. ASSUME NEW n \in N PROVE \E r \in M : h[r] = n
  <2> DEFINE r == f * (n - 1)
  <2>1. n - 1 \in Nat /\ n - 1 <= q
    BY <1>1
  <2>2. r \in Nat /\ r <= f * q
    BY <1>1, <2>1
  <2>3. (f * (n - 1) + 0) \div f = n - 1 /\ (f * (n - 1) + 0) % f = 0
    BY <2>1, DivisionIs
  <2>4. f * (n - 1) + 0 = r
    BY <2>1
  <2>5. r \div f = n - 1 /\ r % f = 0
    BY <2>3, <2>4
  <2>6. r <= c
    <3> DEFINE p == f * q
    <3>1. p \in Int /\ r <= p /\ p <= c
      BY <1>1, <2>2
    <3> HIDE DEF p, r
    <3> QED BY <2>2, <3>1
  <2> HIDE DEF r
  <2>7. r \in M
    BY <2>2, <2>5, <2>6
  <2>8. h[r] = n
    BY <2>1, <2>5, <2>7
  <2> QED BY <2>7, <2>8
<1>6. h \in Bijection(M, N)
  <2> HIDE DEF h, M, N
  <2> QED BY <1>3, <1>4, <1>5 DEF Bijection, Injection, Surjection, IsInjective
<1>7. IsFiniteSet(M) /\ Cardinality(M) = q + 1
  <2>1. IsFiniteSet(N) /\ Cardinality(N) = q + 1
    <3> HIDE DEF q
    <3> QED BY <1>1, FS_Interval
  <2>2. M \in SUBSET (0..c) /\ IsFiniteSet(0..c)
    BY FS_Interval
  <2>3. IsFiniteSet(M)
    BY <2>2, FS_Subset
  <2> HIDE DEF h, M, N
  <2> QED BY <1>6, <2>1, <2>3, FS_Bijection DEF ExistsBijection
<1> QED
  BY <1>6, <1>7

LEMMA OnlyServer ==
  ASSUME CommSize - 1 < range_server_factor
  PROVE  /\ get_num_range_servers = 1
         /\ get_rangesrvs = {CommSize - 1}
         /\ \A r \in AllRanks : is_range_server(r) = IF r = CommSize - 1 THEN 1 ELSE 0
<1>1. get_num_range_servers = 1
  BY DEF get_num_range_servers
<1>2. \A r \in AllRanks : is_range_server(r) = IF r = CommSize - 1 THEN 1 ELSE 0
  BY <1>1 DEF is_range_server
<1>3. CommSize - 1 \in AllRanks
  BY PartitionerAssumption DEF AllRanks
<1> QED
  BY <1>1, <1>2, <1>3 DEF get_rangesrvs

LEMMA ManyServers ==
  ASSUME ~(CommSize - 1 < range_server_factor)
  PROVE  LET M == {i \in AllRanks : i % range_server_factor = 0}
         IN /\ get_num_range_servers = ((CommSize - 1) \div range_server_factor) + 1
            /\ get_rangesrvs = M
            /\ \A r \in M : is_range_server(r) = (r \div range_server_factor) + 1
<1> DEFINE M == {i \in AllRanks : i % range_server_factor = 0}
           f == range_server_factor
           c == CommSize - 1
           h == [r \in M |-> (r \div f) + 1]
           n == (c \div f) + 1
<1>1. c \in Nat /\ f \in Nat /\ f # 0 /\ M = {i \in 0..c : i % f = 0}
  BY PartitionerAssumption DEF AllRanks
<1>2. h \in Bijection(M, 1..n) /\ Cardinality(M) = n
  BY <1>1, Multiples
<1>3. get_num_range_servers = n
  BY <1>2 DEF get_num_range_servers
<1>4. n \in Nat
  BY <1>1, NatDivision
<1>5. ASSUME NEW r \in M PROVE (r \div f) + 1 \in 1..n
  <2>1. h[r] \in 1..n
    <3> HIDE DEF h, n, M
    <3> QED BY <1>2 DEF Bijection, Injection
  <2> QED BY <2>1
<1>6. ASSUME NEW r \in M PROVE is_range_server(r) = (r \div f) + 1 /\ is_range_server(r) # 0
  <2> DEFINE v == (r \div f) + 1
  <2>1. v \in 1..n
    BY <1>5
  <2>2. is_range_server(r) = IF v > n THEN 0 ELSE v
    BY <1>3 DEF is_range_server
  <2> HIDE DEF v, n
  <2>3. is_range_server(r) = v /\ v # 0
    BY <1>4, <2>1, <2>2
  <2> QED BY <2>3 DEF v
<1>7. ASSUME NEW r \in AllRanks, r \notin M PROVE is_range_server(r) = 0
  BY <1>3, <1>7 DEF is_range_server
<1>8. get_rangesrvs = M
  <2>1. M \subseteq AllRanks
    OBVIOUS
  <2> HIDE DEF M
  <2> QED BY <1>6, <1>7, <2>1 DEF get_rangesrvs
<1> QED
  BY <1>3, <1>6, <1>8

(* Each range server number belongs to exactly one rank. *)
LEMMA ServersNumbered ==
  /\ get_num_range_servers \in Nat \ {0}
  /\ Cardinality(get_rangesrvs) = get_num_range_servers
  /\ {is_range_server(r) : r \in get_rangesrvs} = 1 .. get_num_range_servers
  /\ \A n \in 1 .. get_num_range_servers : \E r \in get_rangesrvs : is_range_server(r) = n
<1>1. CASE CommSize - 1 < range_server_factor
  <2>1. get_num_range_servers = 1 /\ get_rangesrvs = {CommSize - 1}
    BY <1>1, OnlyServer
  <2>2. is_range_server(CommSize - 1) = 1
    <3>1. CommSize - 1 \in AllRanks
      BY PartitionerAssumption DEF AllRanks
    <3> QED BY <1>1, <3>1, OnlyServer
  <2>3. {is_range_server(r) : r \in get_rangesrvs} = {1} /\ 1..1 = {1}
    BY <2>1, <2>2
  <2> QED BY <2>1, <2>2, <2>3, FS_Singleton
<1>2. CASE ~(CommSize - 1 < range_server_factor)
  <2> DEFINE M == {i \in AllRanks : i % range_server_factor = 0}
             f == range_server_factor
             c == CommSize - 1
             h == [r \in M |-> (r \div f) + 1]
             n == (c \div f) + 1
  <2>1. c \in Nat /\ f \in Nat /\ f # 0 /\ M = {i \in 0..c : i % f = 0}
    BY PartitionerAssumption DEF AllRanks
  <2>2. h \in Bijection(M, 1..n) /\ Cardinality(M) = n
    BY <2>1, Multiples
  <2>3. get_num_range_servers = n /\ get_rangesrvs = M
    BY <1>2, ManyServers
  <2>4. n \in Nat \ {0}
    BY <2>1, NatDivision
  <2>5. ASSUME NEW r \in M PROVE is_range_server(r) = h[r]
    BY <1>2, ManyServers
  <2> HIDE DEF h, n, M
  <2>6. {is_range_server(r) : r \in M} = 1..n
    <3>1. \A r \in M : h[r] \in 1..n
      BY <2>2 DEF Bijection, Injection
    <3>2. \A x \in 1..n : \E r \in M : h[r] = x
      BY <2>2 DEF Bijection, Surjection
    <3> QED BY <2>5, <3>1, <3>2
  <2> QED BY <2>2, <2>3, <2>4, <2>6
<1> QED
  BY <1>1, <1>2

LEMMA ServerOfSlice ==
  ASSUME NEW q \in Nat
  PROVE  get_range_server_by_slice(q) \in get_rangesrvs
<1> DEFINE N == get_num_range_servers
           num == IF N = 1 THEN 1 ELSE (q % N) + 1
           S == {r \in get_rangesrvs : is_range_server(r) = num}
<1>1. N \in Nat \ {0}
  BY ServersNumbered
<1>2. num \in 1..N
  <2> HIDE DEF N
  <2>1. q % N \in 0 .. N - 1
    BY <1>1, Division
  <2> QED BY <1>1, <2>1
<1>3. PICK r \in get_rangesrvs : is_range_server(r) = num
  <2> HIDE DEF num
  <2> QED BY <1>2, ServersNumbered
<1>4. S # {}
  BY <1>3
<1>5. get_range_server_by_slice(q) = CHOOSE s \in S : TRUE
  BY <1>4 DEF get_range_server_by_slice
<1>6. S \subseteq get_rangesrvs
  OBVIOUS
<1> HIDE DEF S
<1> QED
  BY <1>4, <1>5, <1>6

LEMMA ServerIsRank == get_rangesrvs \subseteq Nat /\ NoServer \notin get_rangesrvs
<1>1. AllRanks \subseteq Nat
  BY PartitionerAssumption DEF AllRanks
<1>2. get_rangesrvs \subseteq Nat
  BY <1>1 DEF get_rangesrvs
<1>3. -1 \notin Nat
  OBVIOUS
<1> QED
  BY <1>2, <1>3 DEF NoServer

(* Every valid key has a server, and no other key has one. *)
LEMMA ServerOfKey ==
  ASSUME NEW k \in Keyed
  PROVE  /\ verify_key(k) => get_range_server(k) \in get_rangesrvs
         /\ verify_key(k) => get_range_server(k) = get_range_server_by_slice(get_slice_num(k))
         /\ get_range_server(k) \in get_rangesrvs => verify_key(k)
<1>1. ASSUME verify_key(k)
      PROVE  /\ get_range_server(k) = get_range_server_by_slice(get_slice_num(k))
             /\ get_slice_num(k) \in Nat
  BY <1>1, SliceType DEF get_range_server
<1>2. ASSUME ~verify_key(k) PROVE get_range_server(k) = NoServer
  BY <1>2, SliceType DEF get_range_server
<1> QED
  BY <1>1, <1>2, ServerOfSlice, ServerIsRank

=============================================================================
