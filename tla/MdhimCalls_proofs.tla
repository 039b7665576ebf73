------------------------- MODULE MdhimCalls_proofs -------------------------
(***************************************************************************)
(* The calls of MDHIM that are more than one message, for every size of    *)
(* the job and every key type.  Bulk calls, for every list of records:     *)
(* splitting a list by server and carrying the parts out in any order      *)
(* leaves what the list in its order would have left.  mdhimStatFlush, for *)
(* every number of ranks and servers: it is for every rank the single step *)
(* mdhimStatFlush of RangeStore.                                           *)
(***************************************************************************)
EXTENDS MdhimCalls, Partitioner_proofs, SequenceTheorems

Record == [key : Keys, val : Seq(Nat)]

(* The lemmas of RangeStore, for the Writer and lists of any records. *)
W == INSTANCE RangeStore_proofs
       WITH stats <- mdstats[Writer], Batches <- Seq(Record), DelLists <- Seq(Keys)

-----------------------------------------------------------------------------
(* The assumptions of these lemmas hold here. *)

LEMMA KeyTypesHere == W!KeyTypesAssumption
<1>1. ASSUME NEW a, NEW b PROVE W!Lexicographic(a, b) = Lexicographic(a, b)
  BY DEF W!Lexicographic, Lexicographic
<1>2. ASSUME NEW a, NEW b PROVE W!Before(a, b) = Before(a, b)
  BY <1>1, Zenon
     DEF W!Before, Before, W!cmp_int_compare, W!cmp_float_compare, W!cmp_string_compare,
         W!cmp_byte_compare, cmp_int_compare, cmp_float_compare, cmp_string_compare, cmp_byte_compare
<1>3. \A j, k \in DOMAIN Val : j < k => W!Before(Val[j], Val[k])
  <2>1. \A j, k \in DOMAIN Val : j < k => Before(Val[j], Val[k])
    BY KeyTypesAssumption, Zenon DEF Keyed
  <2> QED BY <1>2, <2>1, Zenon
<1>4. W!IsFiniteSet(Alphabet) = IsFiniteSet(Alphabet) /\ W!Cardinality(Alphabet) = Cardinality(Alphabet)
  BY DEF W!IsFiniteSet, IsFiniteSet, W!Cardinality, Cardinality
<1> QED
  BY <1>3, <1>4, KeyTypesAssumption, Zenon DEF W!KeyTypesAssumption, W!Keyed, Keyed

LEMMA PartitionerHere == W!PartitionerAssumption
BY PartitionerAssumption DEF W!PartitionerAssumption

LEMMA StoreHere == W!StoreAssumption
<1>1. W!Keyed = Keyed
  BY DEF W!Keyed, Keyed
<1> QED
  BY <1>1, CallsAssumption DEF W!StoreAssumption, Record

(* The words of RangeStore mean the same for W and for the Writer. *)
LEMMA SameWords ==
  /\ \A m, k : View(Writer)!Value(m, k) = W!Value(m, k)
  /\ \A m, list : View(Writer)!Meaning(m, list) = W!Meaning(m, list)
<1>1. ASSUME NEW m, NEW k PROVE View(Writer)!Value(m, k) = W!Value(m, k)
  BY DEF View!Value, W!Value
<1>2. ASSUME NEW m, NEW list PROVE View(Writer)!Meaning(m, list) = W!Meaning(m, list)
  BY DEF View!Meaning, W!Meaning, View!Merge, W!Merge, View!Value, W!Value
<1> QED
  BY <1>1, <1>2

LEMMA WriteWords ==
  ASSUME NEW list, View(Writer)!Write(list, {})
  PROVE  db' = W!Written(list, {})
BY DEF View!Write, View!Merge, View!NewValue, View!Max, W!Written, W!Merge, W!NewValue, W!Max

LEMMA MeansMap ==
  ASSUME NEW m, W!IsMap(m, Keys, Seq(Nat)), NEW list \in Seq(Record)
  PROVE  W!IsMap(W!Meaning(m, list), Keys, Seq(Nat))
BY W!MeaningType, KeyTypesHere, PartitionerHere, StoreHere

LEMMA MeansAfter ==
  ASSUME NEW m, W!IsMap(m, Keys, Seq(Nat)), NEW list \in Seq(Record), ~Append_ \/ W!DistinctKeys(list)
  PROVE  W!AfterFirst(W!Meaning(m, list), m, list, Len(list))
BY W!MeaningIs, KeyTypesHere, PartitionerHere, StoreHere

LEMMA WriteMeansList ==
  ASSUME W!IsMap(db, Keys, Seq(Nat)), NEW list \in Seq(Record), ~Append_ \/ W!DistinctKeys(list)
  PROVE  W!Written(list, {}) = W!Meaning(db, list)
BY W!WrittenMeans, KeyTypesHere, PartitionerHere, StoreHere

-----------------------------------------------------------------------------
(* Splitting a list. *)

GoesTo(list, op, A, j) == get_range_server(KeyOf(list[j], op)) \in A

(* r has those of the first n items of the list that go to A, in order. *)
Places(r, list, op, A, n, h) ==
  /\ h \in [1..Len(r) -> 1..n]
  /\ \A i, j \in 1..Len(r) : i < j => h[i] < h[j]
  /\ \A i \in 1..Len(r) : r[i] = list[h[i]] /\ GoesTo(list, op, A, h[i])
  /\ \A j \in 1..n : GoesTo(list, op, A, j) => \E i \in 1..Len(r) : h[i] = j

Selects(r, list, op, A, n) == \E h : Places(r, list, op, A, n, h)

(* The steps of the loop over the list. *)
Loop(list, op, A, msg) ==
  /\ msg[0] = <<>>
  /\ \A i \in 1..Len(list) :
       msg[i] = IF GoesTo(list, op, A, i) THEN Append(msg[i-1], list[i]) ELSE msg[i-1]

LEMMA RoutedSteps ==
  ASSUME NEW R, NEW list \in Seq(R), NEW op, NEW A
  PROVE  \E msg : Loop(list, op, A, msg) /\ Routed(list, op, A) = msg[Len(list)]
<1> DEFINE n == Len(list)
           S == Seq(R)
           Put(r, i) == IF get_range_server(KeyOf(list[i], op)) \in A THEN Append(r, list[i]) ELSE r
           F == [i \in 1..n |-> [r \in S |-> Put(r, i)]]
           Def(g) == g = [i \in 0..n |-> IF i = 0 THEN <<>>
                            ELSE IF get_range_server(KeyOf(list[i], op)) \in A
                                 THEN Append(g[i-1], list[i]) ELSE g[i-1]]
           msg == CHOOSE g : Def(g)
<1>1. n \in Nat /\ <<>> \in S /\ DOMAIN list = 1..n
  OBVIOUS
<1>2. ASSUME NEW r \in S, NEW i \in 1..n PROVE Put(r, i) \in S
  <2>1. list[i] \in R
    BY <1>1
  <2>2. Append(r, list[i]) \in S
    BY <2>1
  <2> QED BY <2>2
<1>3. F \in [1..n -> [S -> S]]
  <2> HIDE DEF Put, S, n
  <2> QED BY <1>2
<1>4. \E f : Iteration(f, n, S, <<>>, F)
  <2> HIDE DEF F, n, S
  <2> QED BY <1>1, <1>3, Iterate
<1>5. PICK f : f \in [0..n -> S] /\ f[0] = <<>> /\ \A i \in 1..n : f[i] = F[i][f[i-1]]
  <2> HIDE DEF F, n, S
  <2> QED BY <1>4 DEF Iteration
<1>6. Def(f)
  <2>1. ASSUME NEW i \in 0..n, i # 0 PROVE f[i] = Put(f[i-1], i)
    <3> HIDE DEF Put, S, n
    <3>1. i \in 1..n /\ f[i-1] \in S
      BY <1>1, <1>5, <2>1
    <3>2. F[i][f[i-1]] = Put(f[i-1], i)
      BY <3>1
    <3> QED BY <1>5, <3>1, <3>2
  <2> HIDE DEF F, n
  <2> QED BY <1>5, <2>1
<1>7. Def(msg)
  <2> HIDE DEF Def
  <2> QED BY <1>6
<1>8. msg[0] = <<>> /\ \A i \in 1..n : msg[i] = Put(msg[i-1], i)
  <2> HIDE DEF msg, n
  <2>1. ASSUME NEW i \in 0..n PROVE msg[i] = IF i = 0 THEN <<>> ELSE Put(msg[i-1], i)
    BY <1>7
  <2> HIDE DEF Def, Put
  <2> QED BY <1>1, <2>1
<1>9. Loop(list, op, A, msg)
  <2> HIDE DEF msg
  <2> QED BY <1>8 DEF Loop, GoesTo
<1>10. Routed(list, op, A) = msg[Len(list)]
  BY DEF Routed
<1> HIDE DEF msg
<1> QED
  BY <1>9, <1>10

LEMMA RoutedIs ==
  ASSUME NEW R, NEW list \in Seq(R), NEW op, NEW A
  PROVE  /\ Routed(list, op, A) \in Seq(R)
         /\ Selects(Routed(list, op, A), list, op, A, Len(list))
<1> DEFINE n == Len(list)
<1>1. n \in Nat /\ DOMAIN list = 1..n /\ \A i \in 1..n : list[i] \in R
  OBVIOUS
<1>2. PICK msg : Loop(list, op, A, msg) /\ Routed(list, op, A) = msg[n]
  BY RoutedSteps
<1> HIDE DEF n
<1> DEFINE T == {i \in 0..n : msg[i] \in Seq(R) /\ Selects(msg[i], list, op, A, i)}
<1>3. 0 \in T
  <2>1. msg[0] = <<>>
    BY <1>2 DEF Loop
  <2>2. Len(<<>>) = 0 /\ 1..0 = {} /\ <<>> \in Seq(R)
    OBVIOUS
  <2>3. \E h : h \in [{} -> {}]
    <3> DEFINE h == [i \in {} |-> i]
    <3>1. h \in [{} -> {}]
      OBVIOUS
    <3> QED BY <3>1
  <2>4. Selects(<<>>, list, op, A, 0)
    BY <2>2, <2>3 DEF Selects, Places
  <2>5. msg[0] \in Seq(R) /\ Selects(msg[0], list, op, A, 0)
    BY <2>1, <2>2, <2>4, Zenon
  <2>6. 0 \in 0..n
    BY <1>1
  <2> QED BY <2>5, <2>6, Zenon
<1>4. ASSUME NEW i \in 0..n - 1, i \in T PROVE i + 1 \in T
  <2> DEFINE r == msg[i]
             m == i + 1
  <2>1. m \in 1..n /\ m - 1 = i /\ i \in Nat /\ m \in Nat /\ list[m] \in R /\ m \in 0..n
    BY <1>1
  <2>2. msg[m] = IF GoesTo(list, op, A, m) THEN Append(r, list[m]) ELSE r
    BY <1>2, <2>1 DEF Loop, n
  <2>3. r \in Seq(R) /\ Len(r) \in Nat
    BY <1>4
  <2>4. PICK h : Places(r, list, op, A, i, h)
    BY <1>4 DEF Selects
  <2>5. 1..m = (1..i) \cup {m} /\ 1..i \subseteq 1..m
    BY <2>1
  <2> HIDE DEF r, m
  <2>6. CASE ~GoesTo(list, op, A, m)
    <3>1. Places(r, list, op, A, m, h)
      BY <2>4, <2>5, <2>6 DEF Places
    <3>2. msg[m] = r
      BY <2>2, <2>6
    <3>3. Selects(msg[m], list, op, A, m)
      BY <3>1, <3>2 DEF Selects
    <3> QED BY <2>1, <2>3, <3>2, <3>3 DEF m
  <2>7. CASE GoesTo(list, op, A, m)
    <3> DEFINE s == Append(r, list[m])
               l == Len(r) + 1
               g == [j \in 1..l |-> IF j \in 1..Len(r) THEN h[j] ELSE m]
    <3>1. s \in Seq(R) /\ Len(s) = l /\ s[l] = list[m] /\ \A j \in 1..Len(r) : s[j] = r[j]
      BY <2>1, <2>3
    <3>2. l \in Nat /\ 1..l = (1..Len(r)) \cup {l} /\ l \notin 1..Len(r) /\ l \in 1..l
      BY <2>3
    <3>3. DOMAIN g = 1..l /\ g[l] = m /\ \A j \in 1..Len(r) : g[j] = h[j]
      BY <3>2
    <3>4. \A j \in 1..Len(r) : h[j] \in 1..i /\ h[j] < m
      <4>1. \A j \in 1..Len(r) : h[j] \in 1..i
        BY <2>4 DEF Places
      <4> QED BY <2>1, <4>1
    <3> HIDE DEF s
    <3>5. g \in [1..l -> 1..m]
      <4>1. \A j \in 1..l : g[j] \in 1..m
        BY <2>5, <3>2, <3>3, <3>4
      <4> QED BY <4>1
    <3> HIDE DEF g
    <3>6. \A a, b \in 1..l : a < b => g[a] < g[b]
      <4> SUFFICES ASSUME NEW a \in 1..l, NEW b \in 1..l, a < b PROVE g[a] < g[b]
        OBVIOUS
      <4>1. a \in 1..Len(r)
        BY <2>3
      <4>2. CASE b \in 1..Len(r)
        BY <2>4, <3>3, <4>1, <4>2 DEF Places
      <4>3. CASE b = l
        BY <3>3, <3>4, <4>1, <4>3
      <4> QED BY <3>2, <4>2, <4>3
    <3>7. \A j \in 1..l : s[j] = list[g[j]] /\ GoesTo(list, op, A, g[j])
      <4>1. \A j \in 1..Len(r) : r[j] = list[h[j]] /\ GoesTo(list, op, A, h[j])
        BY <2>4 DEF Places
      <4> QED BY <2>7, <3>1, <3>2, <3>3, <4>1
    <3>8. \A j \in 1..m : GoesTo(list, op, A, j) => \E a \in 1..l : g[a] = j
      <4> SUFFICES ASSUME NEW j \in 1..m, GoesTo(list, op, A, j) PROVE \E a \in 1..l : g[a] = j
        OBVIOUS
      <4>1. CASE j = m
        BY <3>2, <3>3, <4>1
      <4>2. CASE j \in 1..i
        <5>1. PICK a \in 1..Len(r) : h[a] = j
          BY <2>4, <4>2 DEF Places
        <5> QED BY <3>2, <3>3, <5>1
      <4> QED BY <2>5, <4>1, <4>2
    <3> HIDE DEF l
    <3>9. Places(s, list, op, A, m, g)
      BY <3>1, <3>5, <3>6, <3>7, <3>8 DEF Places
    <3>10. msg[m] = s
      BY <2>2, <2>7 DEF s
    <3> QED BY <2>1, <3>1, <3>9, <3>10 DEF Selects, m
  <2> QED BY <2>6, <2>7
<1> HIDE DEF T
<1>5. n \in 0..n
  BY <1>1
<1>6. n \in T
  BY <1>1, <1>3, <1>4, <1>5, UpTo
<1> QED
  BY <1>2, <1>6 DEF T, n

(* Record i is the last one of key k. *)
IsLast(list, k, i) ==
  /\ i \in DOMAIN list /\ list[i].key = k
  /\ \A j \in DOMAIN list : j > i => list[j].key # k

(* The order of a list stays the order of its part; items of a server of A   *)
(* keep their place in the part.                                             *)
LEMMA RoutedLast ==
  ASSUME NEW R, NEW list \in Seq(R), NEW A, NEW k, get_range_server(k) \in A
  PROVE  LET r == Routed(list, "put", A) IN
         /\ (\A i \in DOMAIN r : r[i].key # k) <=> (\A j \in DOMAIN list : list[j].key # k)
         /\ \A i \in DOMAIN r : IsLast(r, k, i) =>
              \E j \in DOMAIN list : IsLast(list, k, j) /\ list[j] = r[i]
         /\ \A j \in DOMAIN list : IsLast(list, k, j) =>
              \E i \in DOMAIN r : IsLast(r, k, i) /\ list[j] = r[i]
<1> DEFINE r == Routed(list, "put", A)
           n == Len(list)
<1>1. r \in Seq(R) /\ Selects(r, list, "put", A, n)
  BY RoutedIs
<1>2. /\ n \in Nat /\ Len(r) \in Nat /\ DOMAIN list = 1..n /\ DOMAIN r = 1..Len(r)
      /\ 1..n \subseteq Nat /\ 1..Len(r) \subseteq Nat
  BY <1>1
<1> HIDE DEF r, n
<1>3. PICK h : Places(r, list, "put", A, n, h)
  BY <1>1 DEF Selects
<1>4. \A i \in DOMAIN r : h[i] \in DOMAIN list /\ r[i] = list[h[i]] /\ h[i] \in Nat
  BY <1>2, <1>3 DEF Places
<1>5. ASSUME NEW j \in DOMAIN list, list[j].key = k PROVE \E i \in DOMAIN r : h[i] = j
  BY <1>2, <1>3, <1>5 DEF Places, GoesTo, KeyOf
<1>6. ASSUME NEW i \in DOMAIN r, NEW j \in DOMAIN r, h[i] < h[j] PROVE i < j
  <2>1. i \in Nat /\ j \in Nat /\ h[i] \in Nat /\ h[j] \in Nat
    BY <1>2, <1>4
  <2>2. j < i => h[j] < h[i]
    BY <1>2, <1>3 DEF Places
  <2> QED BY <1>6, <2>1, <2>2
<1>7. ASSUME NEW i \in DOMAIN r, NEW j \in DOMAIN r, i < j PROVE h[i] < h[j]
  BY <1>2, <1>3, <1>7 DEF Places
<1>8. (\A i \in DOMAIN r : r[i].key # k) <=> (\A j \in DOMAIN list : list[j].key # k)
  BY <1>4, <1>5
<1>9. ASSUME NEW i \in DOMAIN r, IsLast(r, k, i)
      PROVE  IsLast(list, k, h[i])
  <2>1. ASSUME NEW j \in DOMAIN list, j > h[i], list[j].key = k PROVE FALSE
    <3>1. PICK a \in DOMAIN r : h[a] = j
      BY <1>5, <2>1
    <3>2. i < a
      BY <1>2, <1>4, <1>6, <2>1, <3>1
    <3> QED BY <1>2, <1>4, <1>9, <2>1, <3>1, <3>2 DEF IsLast
  <2> QED BY <1>4, <1>9, <2>1 DEF IsLast
<1>10. ASSUME NEW i \in DOMAIN r, IsLast(list, k, h[i])
       PROVE  IsLast(r, k, i)
  <2>1. ASSUME NEW j \in DOMAIN r, j > i, r[j].key = k PROVE FALSE
    <3>1. h[j] > h[i]
      BY <1>2, <1>4, <1>7, <2>1
    <3> QED BY <1>4, <1>10, <2>1, <3>1 DEF IsLast
  <2> QED BY <1>4, <1>10, <2>1 DEF IsLast
<1>11. \A i \in DOMAIN r : IsLast(r, k, i) =>
         \E j \in DOMAIN list : IsLast(list, k, j) /\ list[j] = r[i]
  BY <1>4, <1>9
<1>12. ASSUME NEW j \in DOMAIN list, IsLast(list, k, j)
       PROVE  \E i \in DOMAIN r : IsLast(r, k, i) /\ list[j] = r[i]
  <2>1. PICK i \in DOMAIN r : h[i] = j
    BY <1>5, <1>12 DEF IsLast
  <2> QED BY <1>4, <1>10, <1>12, <2>1
<1> QED
  BY <1>8, <1>11, <1>12 DEF r

(* An item of a part goes to a server of the part. *)
LEMMA RoutedItem ==
  ASSUME NEW R, NEW list \in Seq(R), NEW op, NEW A
  PROVE  LET r == Routed(list, op, A) IN
         /\ \A i \in DOMAIN r : get_range_server(KeyOf(r[i], op)) \in A
         /\ \A i \in DOMAIN r : \E j \in DOMAIN list : r[i] = list[j]
         /\ \A j \in DOMAIN list : get_range_server(KeyOf(list[j], op)) \in A =>
              \E i \in DOMAIN r : r[i] = list[j]
         /\ (\A i, j \in DOMAIN list : KeyOf(list[i], op) = KeyOf(list[j], op) => i = j) =>
              \A i, j \in DOMAIN r : KeyOf(r[i], op) = KeyOf(r[j], op) => i = j
<1> DEFINE r == Routed(list, op, A)
           n == Len(list)
<1>1. r \in Seq(R) /\ Selects(r, list, op, A, n)
  BY RoutedIs
<1>2. /\ n \in Nat /\ Len(r) \in Nat /\ DOMAIN list = 1..n /\ DOMAIN r = 1..Len(r)
      /\ 1..n \subseteq Nat /\ 1..Len(r) \subseteq Nat
  BY <1>1
<1> HIDE DEF r, n
<1>3. PICK h : Places(r, list, op, A, n, h)
  BY <1>1 DEF Selects
<1>4. \A i \in DOMAIN r : h[i] \in DOMAIN list /\ r[i] = list[h[i]] /\ h[i] \in Nat
  BY <1>2, <1>3 DEF Places
<1>5. \A i \in DOMAIN r : get_range_server(KeyOf(r[i], op)) \in A
  BY <1>2, <1>3, <1>4 DEF Places, GoesTo
<1>6. \A j \in DOMAIN list : get_range_server(KeyOf(list[j], op)) \in A =>
        \E i \in DOMAIN r : r[i] = list[j]
  BY <1>2, <1>3 DEF Places, GoesTo
<1>7. ASSUME \A i, j \in DOMAIN list : KeyOf(list[i], op) = KeyOf(list[j], op) => i = j,
             NEW i \in DOMAIN r, NEW j \in DOMAIN r, KeyOf(r[i], op) = KeyOf(r[j], op)
      PROVE  i = j
  <2>1. h[i] = h[j]
    BY <1>4, <1>7
  <2>2. i \in Nat /\ j \in Nat /\ h[i] \in Nat
    BY <1>2, <1>4
  <2>3. (i < j => h[i] < h[j]) /\ (j < i => h[j] < h[i])
    BY <1>2, <1>3 DEF Places
  <2> QED BY <2>1, <2>2, <2>3
<1> QED
  BY <1>4, <1>5, <1>6, <1>7 DEF r

-----------------------------------------------------------------------------
(* What a list does to the value of one key. *)

(* A put of the list turns the value v of key k into x. *)
Puts(v, list, k, x) ==
  \/ (\A i \in DOMAIN list : list[i].key # k) /\ x = v
  \/ \E i \in DOMAIN list :
       IsLast(list, k, i) /\ x = (IF Append_ THEN v \o list[i].val ELSE list[i].val)

(* A delete of the list does. *)
Deletes(v, list, k, x) == x = IF \E i \in DOMAIN list : list[i] = k THEN <<>> ELSE v

LEMMA RecordFields ==
  ASSUME NEW list \in Seq(Record)
  PROVE  /\ Len(list) \in Nat /\ DOMAIN list = 1..Len(list)
         /\ \A i \in DOMAIN list : list[i].key \in Keys /\ list[i].val \in Seq(Nat)
<1>1. \A i \in DOMAIN list : list[i] \in Record
  OBVIOUS
<1> QED
  BY <1>1 DEF Record

LEMMA HasLast ==
  ASSUME NEW list \in Seq(Record), NEW i \in DOMAIN list
  PROVE  \E j \in DOMAIN list : IsLast(list, list[i].key, j)
<1> DEFINE L == W!Max({j \in DOMAIN list : list[j].key = list[i].key})
<1>1. /\ L \in DOMAIN list /\ list[L].key = list[i].key
      /\ \A j \in DOMAIN list : list[j].key = list[i].key => j <= L
  BY W!LastType, KeyTypesHere, PartitionerHere, StoreHere
<1> HIDE DEF L
<1>2. \A j \in DOMAIN list : j \in Nat
  BY RecordFields
<1>3. IsLast(list, list[i].key, L)
  BY <1>1, <1>2 DEF IsLast
<1> QED
  BY <1>1, <1>3

LEMMA MeaningPuts ==
  ASSUME NEW m, W!IsMap(m, Keys, Seq(Nat)), NEW list \in Seq(Record), NEW k,
         ~Append_ \/ W!DistinctKeys(list)
  PROVE  Puts(W!Value(m, k), list, k, W!Value(W!Meaning(m, list), k))
<1> DEFINE f == W!Meaning(m, list)
           n == Len(list)
<1>1. W!AfterFirst(f, m, list, n)
  BY MeansAfter
<1>2. n \in Nat /\ DOMAIN list = 1..n
  BY RecordFields
<1> HIDE DEF f, n
<1>3. DOMAIN f = DOMAIN m \cup {list[j].key : j \in DOMAIN list}
  BY <1>1, <1>2 DEF W!AfterFirst
<1>4. CASE \A i \in DOMAIN list : list[i].key # k
  <2>1. k \in DOMAIN f <=> k \in DOMAIN m
    BY <1>3, <1>4
  <2>2. k \in DOMAIN m => f[k] = m[k]
    BY <1>1, <1>2, <1>4 DEF W!AfterFirst
  <2>3. W!Value(f, k) = W!Value(m, k)
    BY <2>1, <2>2 DEF W!Value
  <2> QED BY <1>4, <2>3 DEF Puts, f
<1>5. CASE \E i \in DOMAIN list : list[i].key = k
  <2>1. PICK j \in DOMAIN list : IsLast(list, k, j)
    BY <1>5, HasLast
  <2>2. list[j].key = k /\ \A l \in 1..n : l > j => list[l].key # list[j].key
    BY <1>2, <2>1 DEF IsLast
  <2>3. f[k] = W!Left(m, list, j)
    BY <1>1, <1>2, <2>2 DEF W!AfterFirst
  <2>4. k \in DOMAIN f
    BY <1>3, <2>2
  <2>5. W!Value(f, k) = IF Append_ THEN W!Value(m, k) \o list[j].val ELSE list[j].val
    BY <2>2, <2>3, <2>4 DEF W!Value, W!Left
  <2> QED BY <2>1, <2>5 DEF Puts, f
<1> QED
  BY <1>4, <1>5

LEMMA PutsOnce ==
  ASSUME NEW list \in Seq(Record), NEW v, NEW k, NEW x, NEW y, Puts(v, list, k, x), Puts(v, list, k, y)
  PROVE  x = y
<1>1. \A i \in DOMAIN list : i \in Nat
  BY RecordFields
<1>2. \A i, j \in DOMAIN list : IsLast(list, k, i) /\ IsLast(list, k, j) => i = j
  BY <1>1 DEF IsLast
<1>3. CASE \A i \in DOMAIN list : list[i].key # k
  BY <1>3 DEF Puts, IsLast
<1>4. CASE \E i \in DOMAIN list : list[i].key = k
  <2>1. PICK i \in DOMAIN list : IsLast(list, k, i) /\ x = (IF Append_ THEN v \o list[i].val ELSE list[i].val)
    BY <1>4 DEF Puts
  <2>2. PICK j \in DOMAIN list : IsLast(list, k, j) /\ y = (IF Append_ THEN v \o list[j].val ELSE list[j].val)
    BY <1>4 DEF Puts
  <2>3. i = j
    BY <1>2, <2>1, <2>2
  <2> QED BY <2>1, <2>2, <2>3
<1> QED
  BY <1>3, <1>4

(* For the keys of its servers a part does what the whole list does. *)
LEMMA PutsRouted ==
  ASSUME NEW list \in Seq(Record), NEW A, NEW k, get_range_server(k) \in A, NEW v, NEW x
  PROVE  Puts(v, Routed(list, "put", A), k, x) <=> Puts(v, list, k, x)
<1> DEFINE r == Routed(list, "put", A)
<1>1. (\A i \in DOMAIN r : r[i].key # k) <=> (\A j \in DOMAIN list : list[j].key # k)
  BY RoutedLast
<1>2. \A i \in DOMAIN r : IsLast(r, k, i) =>
        \E j \in DOMAIN list : IsLast(list, k, j) /\ list[j] = r[i]
  BY RoutedLast
<1>3. \A j \in DOMAIN list : IsLast(list, k, j) =>
        \E i \in DOMAIN r : IsLast(r, k, i) /\ list[j] = r[i]
  BY RoutedLast
<1> HIDE DEF r
<1>4. ASSUME Puts(v, r, k, x) PROVE Puts(v, list, k, x)
  BY <1>1, <1>2, <1>4 DEF Puts
<1>5. ASSUME Puts(v, list, k, x) PROVE Puts(v, r, k, x)
  BY <1>1, <1>3, <1>5 DEF Puts
<1> QED
  BY <1>4, <1>5 DEF r

LEMMA DeletesRouted ==
  ASSUME NEW list \in Seq(Keys), NEW A, NEW k, get_range_server(k) \in A, NEW v, NEW x
  PROVE  Deletes(v, Routed(list, "del", A), k, x) <=> Deletes(v, list, k, x)
<1> DEFINE r == Routed(list, "del", A)
<1>1. \A i \in DOMAIN r : \E j \in DOMAIN list : r[i] = list[j]
  BY RoutedItem
<1>2. \A j \in DOMAIN list : get_range_server(list[j]) \in A => \E i \in DOMAIN r : r[i] = list[j]
  <2>1. \A j \in DOMAIN list : get_range_server(KeyOf(list[j], "del")) \in A =>
          \E i \in DOMAIN r : r[i] = list[j]
    BY RoutedItem
  <2> QED BY <2>1 DEF KeyOf
<1> HIDE DEF r
<1>3. (\E i \in DOMAIN r : r[i] = k) <=> (\E j \in DOMAIN list : list[j] = k)
  BY <1>1, <1>2
<1> QED
  BY <1>3 DEF Deletes, r

-----------------------------------------------------------------------------
(* The invariant: for every key, the part on its way to the key's server, if *)
(* there is one, turns the value stored into the value wanted.               *)

(***************************************************************************)
(* Writes succeed; in append mode no list names a key twice, because all   *)
(* lookups of a message come before all its writes.                        *)
(***************************************************************************)
BulkFaithful ==
  /\ "write" \notin Faults
  /\ Append_ => \A l \in PutLists : Len(l) <= MAX_BULK_OPS => W!DistinctKeys(l)

Leaves(m, v, k, x) == IF m.op = "put" THEN Puts(v, m.list, k, x) ELSE Deletes(v, m.list, k, x)

(* A part of a list the client has accepted. *)
PutPart(m) ==
  m.op = "put" /\ \E l \in PutLists : Len(l) <= MAX_BULK_OPS /\ m.list = PartOf(l, "put", m.server)
DelPart(m) ==
  m.op = "del" /\ \E l \in KeyLists : m.list = PartOf(l, "del", m.server)

PartsFit ==
  /\ \A m \in parts : m.server \in get_rangesrvs /\ (PutPart(m) \/ DelPart(m))
  /\ \A m, n \in parts : m.server = n.server => m = n
  /\ up \/ parts = {}

StoresFit ==
  /\ W!IsMap(db, Keys, Seq(Nat)) /\ W!IsMap(want, Keys, Seq(Nat)) /\ db = ideal
  /\ \A k \in DOMAIN db : get_range_server(k) \in get_rangesrvs

WantFollows ==
  \A k \in Keys :
    /\ \A m \in parts : m.server = get_range_server(k) =>
         Leaves(m, W!Value(db, k), k, W!Value(want, k))
    /\ (\A m \in parts : m.server # get_range_server(k)) => W!Value(want, k) = W!Value(db, k)

BulkInv == PartsFit /\ StoresFit /\ WantFollows

LEMMA ListTypes ==
  /\ \A l \in PutLists : l \in Seq(Record)
  /\ \A l \in KeyLists : l \in Seq(Keys)
BY CallsAssumption DEF Record

LEMMA BulkInit == Init => BulkInv
<1> SUFFICES ASSUME Init PROVE BulkInv
  OBVIOUS
<1>1. parts = {} /\ up = TRUE /\ db = Nothing /\ ideal = Nothing /\ want = Nothing
  BY DEF Init
<1>2. PartsFit
  BY <1>1 DEF PartsFit
<1>3. DOMAIN Nothing = {}
  BY DEF Nothing
<1>4. W!IsMap(Nothing, Keys, Seq(Nat))
  BY DEF Nothing, W!IsMap
<1>5. StoresFit
  BY <1>1, <1>3, <1>4 DEF StoresFit
<1>6. WantFollows
  BY <1>1 DEF WantFollows
<1> QED
  BY <1>2, <1>5, <1>6 DEF BulkInv

(* The items of a part belong to its server. *)
LEMMA PutPartFacts ==
  ASSUME BulkFaithful, PartsFit, NEW m \in parts, PutPart(m)
  PROVE  /\ m.list \in Seq(Record) /\ (~Append_ \/ W!DistinctKeys(m.list))
         /\ \A i \in DOMAIN m.list : get_range_server(m.list[i].key) = m.server
<1>1. PICK l \in PutLists : Len(l) <= MAX_BULK_OPS /\ m.list = PartOf(l, "put", m.server)
  BY DEF PutPart
<1>2. l \in Seq(Record)
  BY ListTypes
<1>3. m.list = Routed(l, "put", {m.server})
  BY <1>1 DEF PartOf
<1>4. m.list \in Seq(Record)
  BY <1>2, <1>3, RoutedIs
<1>5. \A i \in DOMAIN m.list : get_range_server(KeyOf(m.list[i], "put")) \in {m.server}
  BY <1>2, <1>3, RoutedItem
<1>6. ASSUME Append_ PROVE W!DistinctKeys(m.list)
  <2>1. \A i, j \in DOMAIN l : KeyOf(l[i], "put") = KeyOf(l[j], "put") => i = j
    BY <1>1, <1>6 DEF BulkFaithful, W!DistinctKeys, KeyOf
  <2>2. \A i, j \in DOMAIN m.list : KeyOf(m.list[i], "put") = KeyOf(m.list[j], "put") => i = j
    BY <1>2, <1>3, <2>1, RoutedItem
  <2> QED BY <2>2 DEF W!DistinctKeys, KeyOf
<1> QED
  BY <1>4, <1>5, <1>6 DEF KeyOf

LEMMA DelPartFacts ==
  ASSUME PartsFit, NEW m \in parts, DelPart(m)
  PROVE  \A i \in DOMAIN m.list : get_range_server(m.list[i]) = m.server
<1>1. PICK l \in KeyLists : m.list = PartOf(l, "del", m.server)
  BY DEF DelPart
<1>2. l \in Seq(Keys) /\ m.list = Routed(l, "del", {m.server})
  BY <1>1, ListTypes DEF PartOf
<1>3. \A i \in DOMAIN m.list : get_range_server(KeyOf(m.list[i], "del")) \in {m.server}
  BY <1>2, RoutedItem
<1> QED
  BY <1>3 DEF KeyOf

-----------------------------------------------------------------------------
(* The call. *)

LEMMA PartsAre ==
  ASSUME NEW list, NEW op, NEW m \in Parts(list, op)
  PROVE  m.server \in get_rangesrvs /\ m.op = op /\ m.list = Routed(list, op, {m.server})
<1>1. m.server \in get_rangesrvs /\ m.op = op /\ m.list = PartOf(list, op, m.server)
  BY DEF Parts
<1> QED
  BY <1>1 DEF PartOf

(* The parts of a list are as the invariant says. *)
LEMMA NewParts ==
  ASSUME NEW list, NEW op \in {"put", "del"}, parts' = Parts(list, op), up' = TRUE,
         op = "put" => list \in PutLists /\ Len(list) <= MAX_BULK_OPS,
         op = "del" => list \in KeyLists
  PROVE  PartsFit'
<1>1. \A m \in parts' : /\ m.server \in get_rangesrvs /\ m.op = op /\ m.list = PartOf(list, op, m.server)
                        /\ m = [server |-> m.server, op |-> op, list |-> PartOf(list, op, m.server)]
  BY DEF Parts
<1>2. \A m \in parts' : PutPart(m) \/ DelPart(m)
  <2>1. CASE op = "put"
    BY <1>1, <2>1 DEF PutPart
  <2>2. CASE op = "del"
    BY <1>1, <2>2 DEF DelPart
  <2> QED BY <2>1, <2>2
<1>3. \A m, n \in parts' : m.server = n.server => m = n
  BY <1>1
<1> QED
  BY <1>1, <1>2, <1>3 DEF PartsFit

(* A key whose server gets no message is not in the list. *)
LEMMA PartIfKey ==
  ASSUME NEW R, NEW list \in Seq(R), NEW op, NEW k, parts' = Parts(list, op),
         get_range_server(k) \in get_rangesrvs,
         \A m \in parts' : m.server # get_range_server(k)
  PROVE  \A i \in DOMAIN list : KeyOf(list[i], op) # k
<1> DEFINE s == get_range_server(k)
           m == [server |-> s, op |-> op, list |-> PartOf(list, op, s)]
<1>1. m.server = s
  OBVIOUS
<1>2. PartOf(list, op, s) # <<>> => m \in parts'
  BY DEF Parts
<1>3. PartOf(list, op, s) = <<>>
  <2> HIDE DEF m
  <2> QED BY <1>1, <1>2
<1>4. DOMAIN PartOf(list, op, s) = {}
  BY <1>3
<1>5. \A j \in DOMAIN list : get_range_server(KeyOf(list[j], op)) \in {s} =>
        \E i \in DOMAIN Routed(list, op, {s}) : Routed(list, op, {s})[i] = list[j]
  BY RoutedItem
<1> QED
  BY <1>4, <1>5 DEF PartOf

LEMMA BulkPut ==
  ASSUME BulkFaithful, BulkInv, NEW list \in PutLists, mdhimBPut(list)
  PROVE  BulkInv'
<1>1. /\ parts = {} /\ up /\ Len(list) <= MAX_BULK_OPS /\ parts' = Parts(list, "put")
      /\ UNCHANGED <<up, db, ideal>>
      /\ want' = W!Meaning(want, Known(list))
  BY SameWords DEF mdhimBPut, Callable, storeVars
<1>2. list \in Seq(Record) /\ Known(list) = Routed(list, "put", get_rangesrvs)
  BY ListTypes DEF Known
<1>3. Known(list) \in Seq(Record)
  BY <1>2, RoutedIs
<1>4. ~Append_ \/ W!DistinctKeys(Known(list))
  <2> SUFFICES ASSUME Append_ PROVE W!DistinctKeys(Known(list))
    OBVIOUS
  <2>1. \A i, j \in DOMAIN list : KeyOf(list[i], "put") = KeyOf(list[j], "put") => i = j
    BY <1>1 DEF BulkFaithful, W!DistinctKeys, KeyOf
  <2>2. \A i, j \in DOMAIN Known(list) :
          KeyOf(Known(list)[i], "put") = KeyOf(Known(list)[j], "put") => i = j
    BY <1>2, <2>1, RoutedItem
  <2> QED BY <2>2 DEF W!DistinctKeys, KeyOf
<1>5. W!IsMap(want, Keys, Seq(Nat))
  BY DEF BulkInv, StoresFit
<1>6. PartsFit'
  BY <1>1, NewParts
<1>7. W!IsMap(want', Keys, Seq(Nat))
  BY <1>1, <1>3, <1>5, MeansMap
<1>8. StoresFit'
  BY <1>1, <1>7 DEF BulkInv, StoresFit, W!IsMap
<1>9. ASSUME NEW k \in Keys
      PROVE  /\ \A m \in parts' : m.server = get_range_server(k) =>
                  Leaves(m, W!Value(db, k), k, W!Value(want', k))
             /\ (\A m \in parts' : m.server # get_range_server(k)) => W!Value(want', k) = W!Value(db, k)
  <2> DEFINE s == get_range_server(k)
             v == W!Value(db, k)
             x == W!Value(want', k)
  <2>1. W!Value(want, k) = v
    BY <1>1 DEF BulkInv, WantFollows
  <2>2. Puts(v, Known(list), k, x)
    BY <1>1, <1>3, <1>4, <1>5, <2>1, MeaningPuts
  <2>3. ASSUME s \in get_rangesrvs PROVE Puts(v, list, k, x)
    BY <1>2, <2>2, <2>3, PutsRouted
  <2>4. ASSUME NEW m \in parts', m.server = s PROVE Leaves(m, v, k, x)
    <3>1. m.op = "put" /\ m.list = Routed(list, "put", {s}) /\ s \in get_rangesrvs
      BY <1>1, <2>4, PartsAre
    <3>2. Puts(v, Routed(list, "put", {s}), k, x)
      <4>1. Puts(v, list, k, x) /\ get_range_server(k) \in {s}
        BY <2>3, <3>1
      <4>2. \A A : s \in A => (Puts(v, Routed(list, "put", A), k, x) <=> Puts(v, list, k, x))
        BY <1>2, PutsRouted
      <4> HIDE DEF v, x, s
      <4> QED BY <4>1, <4>2
    <3> QED BY <3>1, <3>2 DEF Leaves
  <2>5. ASSUME \A m \in parts' : m.server # s PROVE x = v
    <3>1. CASE s \in get_rangesrvs
      <4>1. \A i \in DOMAIN list : list[i].key # k
        BY <1>1, <1>2, <2>5, <3>1, PartIfKey DEF KeyOf
      <4> QED BY <2>3, <3>1, <4>1 DEF Puts, IsLast
    <3>2. CASE s \notin get_rangesrvs
      <4>1. \A i \in DOMAIN Known(list) : get_range_server(KeyOf(Known(list)[i], "put")) \in get_rangesrvs
        BY <1>2, RoutedItem
      <4>2. \A i \in DOMAIN Known(list) : Known(list)[i].key # k
        BY <3>2, <4>1 DEF KeyOf
      <4> QED BY <2>2, <4>2 DEF Puts, IsLast
    <3> QED BY <3>1, <3>2
  <2> QED BY <2>4, <2>5
<1>10. WantFollows'
  <2>1. W!Value(db, 0)' = W!Value(db', 0) /\ db' = db
    BY <1>1 DEF W!Value
  <2> QED BY <1>1, <1>9 DEF WantFollows, W!Value, Leaves
<1> QED
  BY <1>6, <1>8, <1>10 DEF BulkInv

LEMMA BulkDelete ==
  ASSUME BulkInv, NEW list \in KeyLists, mdhimBDelete(list)
  PROVE  BulkInv'
<1>1. /\ parts = {} /\ up /\ parts' = Parts(list, "del")
      /\ UNCHANGED <<up, db, ideal>>
      /\ want' = [k \in DOMAIN want \ {list[i] : i \in DOMAIN list} |-> want[k]]
  BY DEF mdhimBDelete, Callable, storeVars
<1>2. list \in Seq(Keys)
  BY ListTypes
<1>3. W!IsMap(want, Keys, Seq(Nat)) /\ \A k \in DOMAIN db : get_range_server(k) \in get_rangesrvs
  BY DEF BulkInv, StoresFit
<1>4. PartsFit'
  BY <1>1, NewParts
<1>5. W!IsMap(want', Keys, Seq(Nat))
  BY <1>1, <1>3 DEF W!IsMap
<1>6. StoresFit'
  BY <1>1, <1>5 DEF BulkInv, StoresFit, W!IsMap
<1>7. ASSUME NEW k \in Keys
      PROVE  /\ \A m \in parts' : m.server = get_range_server(k) =>
                  Leaves(m, W!Value(db, k), k, W!Value(want', k))
             /\ (\A m \in parts' : m.server # get_range_server(k)) => W!Value(want', k) = W!Value(db, k)
  <2> DEFINE s == get_range_server(k)
             v == W!Value(db, k)
             x == W!Value(want', k)
  <2>1. W!Value(want, k) = v
    BY <1>1 DEF BulkInv, WantFollows
  <2>2. Deletes(v, list, k, x)
    BY <1>1, <2>1 DEF Deletes, W!Value
  <2>3. ASSUME NEW m \in parts', m.server = s PROVE Leaves(m, v, k, x)
    <3>1. m.op = "del" /\ m.list = Routed(list, "del", {s})
      BY <1>1, <2>3, PartsAre
    <3>2. Deletes(v, Routed(list, "del", {s}), k, x)
      <4>1. Deletes(v, list, k, x) /\ get_range_server(k) \in {s}
        BY <2>2
      <4>2. \A A : s \in A => (Deletes(v, Routed(list, "del", A), k, x) <=> Deletes(v, list, k, x))
        BY <1>2, DeletesRouted
      <4> HIDE DEF v, x, s
      <4> QED BY <4>1, <4>2
    <3> QED BY <3>1, <3>2 DEF Leaves
  <2>4. ASSUME \A m \in parts' : m.server # s PROVE x = v
    <3>1. CASE s \in get_rangesrvs
      <4>1. \A i \in DOMAIN list : list[i] # k
        BY <1>1, <1>2, <2>4, <3>1, PartIfKey DEF KeyOf
      <4> QED BY <2>2, <4>1 DEF Deletes
    <3>2. CASE s \notin get_rangesrvs
      <4>1. v = <<>>
        BY <1>3, <3>2 DEF W!Value
      <4> QED BY <2>2, <4>1 DEF Deletes
    <3> QED BY <3>1, <3>2
  <2> QED BY <2>3, <2>4
<1>8. WantFollows'
  BY <1>1, <1>7 DEF WantFollows, W!Value, Leaves
<1> QED
  BY <1>4, <1>6, <1>8 DEF BulkInv

-----------------------------------------------------------------------------
(* The servers. *)

(* A server changes only its own keys, and those as its part says. *)
Serves(m) ==
  /\ W!IsMap(db', Keys, Seq(Nat)) /\ db' = ideal'
  /\ \A k \in DOMAIN db' : get_range_server(k) \in get_rangesrvs
  /\ \A k \in Keys : get_range_server(k) # m.server => W!Value(db', k) = W!Value(db, k)
  /\ \A k \in Keys : Leaves(m, W!Value(db, k), k, W!Value(db', k))

LEMMA PutServes ==
  ASSUME BulkFaithful, BulkInv, NEW m \in parts, PutPart(m),
         View(Writer)!range_server_bput(m.list, {})
  PROVE  Serves(m)
<1>1. /\ m.list \in Seq(Record) /\ (~Append_ \/ W!DistinctKeys(m.list)) /\ m.op = "put"
      /\ \A i \in DOMAIN m.list : get_range_server(m.list[i].key) = m.server
      /\ m.server \in get_rangesrvs
  BY PutPartFacts DEF BulkInv, PartsFit, PutPart
<1>2. W!IsMap(db, Keys, Seq(Nat)) /\ db = ideal /\ \A k \in DOMAIN db : get_range_server(k) \in get_rangesrvs
  BY DEF BulkInv, StoresFit
<1>3. View(Writer)!Write(m.list, {}) /\ ideal' = W!Meaning(ideal, m.list)
  BY SameWords DEF View!range_server_bput, BulkFaithful
<1>4. db' = W!Meaning(db, m.list)
  BY <1>1, <1>2, <1>3, WriteWords, WriteMeansList
<1>5. db' = ideal'
  BY <1>2, <1>3, <1>4
<1>6. W!IsMap(db', Keys, Seq(Nat))
  BY <1>1, <1>2, <1>4, MeansMap
<1>7. ASSUME NEW k \in Keys PROVE Puts(W!Value(db, k), m.list, k, W!Value(db', k))
  BY <1>1, <1>2, <1>4, MeaningPuts
<1>8. DOMAIN db' = DOMAIN db \cup {m.list[j].key : j \in DOMAIN m.list}
  <2>1. W!AfterFirst(db', db, m.list, Len(m.list))
    BY <1>1, <1>2, <1>4, MeansAfter
  <2>2. DOMAIN m.list = 1..Len(m.list)
    BY <1>1
  <2> QED BY <2>1, <2>2 DEF W!AfterFirst
<1>9. \A k \in DOMAIN db' : get_range_server(k) \in get_rangesrvs
  BY <1>1, <1>2, <1>8
<1>10. \A k \in Keys : get_range_server(k) # m.server => W!Value(db', k) = W!Value(db, k)
  BY <1>1, <1>7 DEF Puts, IsLast
<1>11. \A k \in Keys : Leaves(m, W!Value(db, k), k, W!Value(db', k))
  BY <1>1, <1>7 DEF Leaves
<1> QED
  BY <1>5, <1>6, <1>9, <1>10, <1>11 DEF Serves

LEMMA DelServes ==
  ASSUME BulkInv, NEW m \in parts, DelPart(m),
         View(Writer)!range_server_bdel(m.list, {})
  PROVE  Serves(m)
<1>1. m.op = "del" /\ \A i \in DOMAIN m.list : get_range_server(m.list[i]) = m.server
  BY DelPartFacts DEF BulkInv, DelPart
<1>2. W!IsMap(db, Keys, Seq(Nat)) /\ db = ideal /\ \A k \in DOMAIN db : get_range_server(k) \in get_rangesrvs
  BY DEF BulkInv, StoresFit
<1>3. /\ db' = [k \in DOMAIN db \ {m.list[i] : i \in DOMAIN m.list} |-> db[k]]
      /\ ideal' = [k \in DOMAIN ideal \ {m.list[i] : i \in DOMAIN m.list} |-> ideal[k]]
  BY DEF View!range_server_bdel
<1>4. W!IsMap(db', Keys, Seq(Nat)) /\ db' = ideal'
  BY <1>2, <1>3 DEF W!IsMap
<1>5. \A k \in DOMAIN db' : get_range_server(k) \in get_rangesrvs
  BY <1>2, <1>3
<1>6. ASSUME NEW k \in Keys PROVE Deletes(W!Value(db, k), m.list, k, W!Value(db', k))
  BY <1>3 DEF Deletes, W!Value
<1>7. \A k \in Keys : get_range_server(k) # m.server => W!Value(db', k) = W!Value(db, k)
  BY <1>1, <1>6 DEF Deletes
<1>8. \A k \in Keys : Leaves(m, W!Value(db, k), k, W!Value(db', k))
  BY <1>1, <1>6 DEF Leaves
<1> QED
  BY <1>4, <1>5, <1>7, <1>8 DEF Serves

LEMMA BulkHandle ==
  ASSUME BulkFaithful, BulkInv, NEW m \in parts, Handle(m)
  PROVE  BulkInv'
<1>1. up /\ parts' = parts \ {m} /\ want' = want
  BY DEF Handle
<1>2. PutPart(m) \/ DelPart(m)
  BY DEF BulkInv, PartsFit
<1>3. \/ PutPart(m) /\ View(Writer)!range_server_bput(m.list, {})
      \/ DelPart(m) /\ View(Writer)!range_server_bdel(m.list, {})
  BY <1>2 DEF Handle, PutPart, DelPart
<1>4. Serves(m)
  BY <1>3, PutServes, DelServes
<1>5. up' = up
  BY <1>3 DEF View!range_server_bput, View!range_server_bdel
<1>6. PartsFit'
  BY <1>1, <1>5 DEF BulkInv, PartsFit, PutPart, DelPart
<1>7. StoresFit'
  BY <1>1, <1>4 DEF BulkInv, StoresFit, Serves, W!IsMap
<1>8. ASSUME NEW k \in Keys
      PROVE  /\ \A n \in parts' : n.server = get_range_server(k) =>
                  Leaves(n, W!Value(db', k), k, W!Value(want, k))
             /\ (\A n \in parts' : n.server # get_range_server(k)) => W!Value(want, k) = W!Value(db', k)
  <2>1. CASE m.server = get_range_server(k)
    <3>1. \A n \in parts' : n.server # get_range_server(k)
      BY <1>1, <2>1 DEF BulkInv, PartsFit
    <3>2. Leaves(m, W!Value(db, k), k, W!Value(want, k))
      BY <2>1 DEF BulkInv, WantFollows
    <3>3. Leaves(m, W!Value(db, k), k, W!Value(db', k))
      BY <1>4 DEF Serves
    <3>4. W!Value(want, k) = W!Value(db', k)
      <4>1. CASE PutPart(m)
        <5>1. m.op = "put" /\ m.list \in Seq(Record)
          BY <4>1, PutPartFacts DEF PutPart, BulkInv
        <5> QED BY <3>2, <3>3, <5>1, PutsOnce DEF Leaves
      <4>2. CASE DelPart(m)
        <5>1. m.op # "put"
          BY <4>2 DEF DelPart
        <5> QED BY <3>2, <3>3, <5>1 DEF Leaves, Deletes
      <4> QED BY <1>2, <4>1, <4>2
    <3> QED BY <3>1, <3>4
  <2>2. CASE m.server # get_range_server(k)
    <3>1. W!Value(db', k) = W!Value(db, k)
      BY <1>4, <2>2 DEF Serves
    <3>2. \A n \in parts' : n.server = get_range_server(k) =>
                  Leaves(n, W!Value(db, k), k, W!Value(want, k))
      BY <1>1 DEF BulkInv, WantFollows
    <3>3. (\A n \in parts' : n.server # get_range_server(k)) => W!Value(want, k) = W!Value(db, k)
      BY <1>1, <2>2 DEF BulkInv, WantFollows
    <3> QED BY <3>1, <3>2, <3>3
  <2> QED BY <2>1, <2>2
<1>9. WantFollows'
  BY <1>1, <1>8 DEF WantFollows, W!Value, Leaves
<1> QED
  BY <1>6, <1>7, <1>9 DEF BulkInv

-----------------------------------------------------------------------------
(* The other steps. *)

LEMMA BulkSame ==
  ASSUME BulkInv, UNCHANGED <<db, ideal, want, parts>>, up' = up \/ parts = {}
  PROVE  BulkInv'
<1>1. PartsFit'
  BY DEF BulkInv, PartsFit, PutPart, DelPart
<1>2. StoresFit'
  BY DEF BulkInv, StoresFit, W!IsMap
<1>3. WantFollows'
  BY DEF BulkInv, WantFollows, W!Value, Leaves
<1> QED
  BY <1>1, <1>2, <1>3 DEF BulkInv

LEMMA BulkCrash ==
  ASSUME BulkInv, Crash
  PROVE  BulkInv'
<1>1. parts' = {} /\ want' = ideal /\ db' = db /\ ideal' = ideal
  BY DEF Crash, Reset, View!Crash
<1>2. PartsFit'
  BY <1>1 DEF PartsFit
<1>3. StoresFit'
  BY <1>1 DEF BulkInv, StoresFit, W!IsMap
<1>4. want' = db'
  BY <1>1 DEF BulkInv, StoresFit
<1>5. WantFollows'
  BY <1>1, <1>4 DEF WantFollows, W!Value
<1> QED
  BY <1>2, <1>3, <1>5 DEF BulkInv

LEMMA FlushSame ==
  ASSUME FlushBarrier \/ FlushStep \/ \E r \in AllRanks : MpiError(r)
  PROVE  UNCHANGED <<up, db, ideal, want, parts>>
<1>1. OnlyFlush => UNCHANGED <<up, db, ideal, want, parts>>
  BY DEF OnlyFlush, storeVars
<1>2. OnlyFlush
  BY DEF FlushBarrier, FlushStep, RsBarrier, ClientBarrier, Start, Gather, Pack, Gatherv,
         Bcast1, Bcast2, MpiError, Fail
<1> QED
  BY <1>1, <1>2

LEMMA BulkNext ==
  ASSUME BulkFaithful, BulkInv, [Next]_vars
  PROVE  BulkInv'
<1>1. CASE UNCHANGED vars
  BY <1>1, BulkSame DEF vars, storeVars
<1>2. CASE \E list \in PutLists : mdhimBPut(list)
  BY <1>2, BulkPut
<1>3. CASE \E list \in KeyLists : mdhimBDelete(list)
  BY <1>3, BulkDelete
<1>4. CASE \E m \in parts : Handle(m)
  BY <1>4, BulkHandle
<1>5. CASE FlushBarrier \/ FlushStep \/ \E r \in AllRanks : MpiError(r)
  BY <1>5, FlushSame, BulkSame
<1>6. CASE mdhimClose
  <2>1. parts = {} /\ parts' = {} /\ UNCHANGED <<db, ideal, want>>
    BY <1>6 DEF mdhimClose, Reset, View!range_server_stop
  <2> QED BY <2>1, BulkSame
<1>7. CASE mdhimInit
  <2>1. ~up /\ parts' = {} /\ UNCHANGED <<db, ideal, want>>
    BY <1>7 DEF mdhimInit, Reset, View!range_server_init
  <2>2. parts = {}
    BY <2>1 DEF BulkInv, PartsFit
  <2> QED BY <2>1, <2>2, BulkSame
<1>8. CASE Crash
  BY <1>8, BulkCrash
<1> QED
  BY <1>1, <1>2, <1>3, <1>4, <1>5, <1>6, <1>7, <1>8 DEF Next

(***************************************************************************)
(* mdhimBPut and mdhimBDelete split a list over any number of servers,     *)
(* which carry their parts out in any order, interleaved with stat flushes *)
(* and cut off by crashes; once all have answered, the stores hold what    *)
(* the records of the list, one after the other, would have left.          *)
(***************************************************************************)
THEOREM BulkCorrect == BulkFaithful /\ Spec => []BulkIsSequential
<1> SUFFICES ASSUME BulkFaithful PROVE Spec => []BulkIsSequential
  OBVIOUS
<1>1. BulkInv => BulkIsSequential
  <2>1. \A m, k : View(Writer)!Value(m, k) = W!Value(m, k)
    BY SameWords
  <2> QED BY <2>1 DEF BulkInv, WantFollows, BulkIsSequential
<1>2. BulkInv /\ [Next]_vars => BulkInv'
  BY BulkNext
<1> QED
  BY <1>1, <1>2, BulkInit, PTL DEF Spec

-----------------------------------------------------------------------------
(***************************************************************************)
(* mdhimStatFlush.  First what the servers gather and the root puts        *)
(* together, then which steps of MdhimCalls are steps of RangeStore, then  *)
(* the invariant of a flush, with one lemma per action.                    *)
(***************************************************************************)

(* The list of the range servers. *)

(* l has the servers of the ranks below n, in order. *)
Lists(l, n) ==
  /\ l \in Seq(get_rangesrvs)
  /\ \A i \in 1..Len(l) : l[i] < n
  /\ \A i, j \in 1..Len(l) : i < j => l[i] < l[j]
  /\ \A s \in get_rangesrvs : s < n => \E i \in 1..Len(l) : l[i] = s

LEMMA ListedFirst == Lists(<<>>, 0)
<1>1. get_rangesrvs \subseteq Nat
  BY ServerIsRank
<1> QED
  BY <1>1 DEF Lists

LEMMA ListedNext ==
  ASSUME NEW l, NEW n \in Nat, Lists(l, n)
  PROVE  Lists(IF n \in get_rangesrvs THEN Append(l, n) ELSE l, n + 1)
<1>1. get_rangesrvs \subseteq Nat
  BY ServerIsRank
<1>2. l \in Seq(get_rangesrvs) /\ Len(l) \in Nat /\ \A i \in 1..Len(l) : l[i] \in get_rangesrvs
  BY DEF Lists
<1>3. CASE n \in get_rangesrvs
  <2> DEFINE k == Append(l, n)
  <2>1. /\ k \in Seq(get_rangesrvs) /\ Len(k) = Len(l) + 1 /\ k[Len(l) + 1] = n
        /\ \A i \in 1..Len(l) : k[i] = l[i]
    BY <1>2, <1>3
  <2> HIDE DEF k
  <2>2. \A i \in 1..Len(k) : i \in 1..Len(l) \/ i = Len(l) + 1
    BY <1>2, <2>1
  <2>3. ASSUME NEW i \in 1..Len(k) PROVE k[i] < n + 1
    <3>1. CASE i \in 1..Len(l)
      <4>1. k[i] \in Nat /\ k[i] < n
        BY <1>1, <1>2, <2>1, <3>1 DEF Lists
      <4> QED BY <4>1
    <3> QED BY <2>1, <2>2, <3>1
  <2>4. ASSUME NEW i \in 1..Len(k), NEW j \in 1..Len(k), i < j PROVE k[i] < k[j]
    <3>1. i \in 1..Len(l)
      BY <1>2, <2>1, <2>4
    <3> QED BY <1>2, <2>1, <2>2, <2>4, <3>1 DEF Lists
  <2>5. ASSUME NEW s \in get_rangesrvs, s < n + 1 PROVE \E i \in 1..Len(k) : k[i] = s
    <3>1. CASE s = n
      <4>1. Len(l) + 1 \in 1..Len(k)
        BY <1>2, <2>1
      <4> QED BY <2>1, <3>1, <4>1
    <3>2. CASE s # n
      <4>1. s < n
        BY <1>1, <2>5, <3>2
      <4>2. PICK i \in 1..Len(l) : l[i] = s
        BY <4>1 DEF Lists
      <4>3. i \in 1..Len(k) /\ k[i] = s
        BY <1>2, <2>1, <4>2
      <4> QED BY <4>3
    <3> QED BY <3>1, <3>2
  <2>6. Lists(k, n + 1)
    BY <2>1, <2>3, <2>4, <2>5 DEF Lists
  <2> QED BY <1>3, <2>6 DEF k
<1>4. CASE n \notin get_rangesrvs
  <2>1. \A s \in get_rangesrvs : s < n + 1 => s < n
    BY <1>1, <1>4
  <2>2. ASSUME NEW i \in 1..Len(l) PROVE l[i] < n + 1
    <3>1. l[i] \in Nat /\ l[i] < n
      BY <1>1, <1>2 DEF Lists
    <3> QED BY <3>1
  <2> QED BY <1>4, <2>1, <2>2 DEF Lists
<1> QED
  BY <1>3, <1>4

LEMMA ServersListed == Lists(rangesrvs, CommSize)
<1> DEFINE c == CommSize
           S == Seq(get_rangesrvs)
           Put(r, i) == IF i - 1 \in get_rangesrvs THEN Append(r, i - 1) ELSE r
           F == [i \in 1..c |-> [r \in S |-> Put(r, i)]]
           Def(g) == g = [n \in 0..c |-> IF n = 0 THEN <<>>
                            ELSE IF n - 1 \in get_rangesrvs THEN Append(g[n-1], n - 1) ELSE g[n-1]]
           list == CHOOSE g : Def(g)
<1>1. c \in Nat /\ <<>> \in S
  BY PartitionerAssumption
<1>2. ASSUME NEW r \in S, NEW i \in 1..c PROVE Put(r, i) \in S
  OBVIOUS
<1>3. F \in [1..c -> [S -> S]]
  <2> HIDE DEF Put, S, c
  <2> QED BY <1>2
<1>4. \E f : Iteration(f, c, S, <<>>, F)
  <2> HIDE DEF F, c, S
  <2> QED BY <1>1, <1>3, Iterate
<1>5. PICK f : f \in [0..c -> S] /\ f[0] = <<>> /\ \A i \in 1..c : f[i] = F[i][f[i-1]]
  <2> HIDE DEF F, c, S
  <2> QED BY <1>4 DEF Iteration
<1>6. Def(f)
  <2>1. ASSUME NEW i \in 0..c, i # 0 PROVE f[i] = Put(f[i-1], i)
    <3> HIDE DEF Put, S, c
    <3>1. i \in 1..c /\ f[i-1] \in S
      BY <1>1, <1>5, <2>1
    <3>2. F[i][f[i-1]] = Put(f[i-1], i)
      BY <3>1
    <3> QED BY <1>5, <3>1, <3>2
  <2> HIDE DEF F, c
  <2> QED BY <1>5, <2>1
<1>7. Def(list)
  <2> HIDE DEF Def
  <2> QED BY <1>6
<1>8. list[0] = <<>> /\ \A i \in 1..c : list[i] = Put(list[i-1], i)
  <2> HIDE DEF list, c
  <2>1. ASSUME NEW i \in 0..c PROVE list[i] = IF i = 0 THEN <<>> ELSE Put(list[i-1], i)
    BY <1>7
  <2> HIDE DEF Def, Put
  <2> QED BY <1>1, <2>1
<1>9. rangesrvs = list[c]
  BY DEF rangesrvs
<1> DEFINE Good == {n \in 0..c : Lists(list[n], n)}
<1> HIDE DEF list, Def, F, S
<1>10. 0 \in Good
  BY <1>1, <1>8, ListedFirst
<1>11. ASSUME NEW n \in 0..c - 1, n \in Good PROVE n + 1 \in Good
  <2>1. n + 1 \in 1..c /\ n + 1 - 1 = n /\ n \in Nat /\ n + 1 \in 0..c
    BY <1>1
  <2>2. list[n + 1] = IF n \in get_rangesrvs THEN Append(list[n], n) ELSE list[n]
    BY <1>8, <2>1
  <2>3. Lists(list[n + 1], n + 1)
    BY <1>11, <2>1, <2>2, ListedNext
  <2> QED BY <2>1, <2>3
<1>12. c \in Good
  <2>1. c \in 0..c
    BY <1>1
  <2> HIDE DEF Good, c
  <2> QED BY <1>1, <1>10, <1>11, <2>1, UpTo
<1> QED
  BY <1>9, <1>12

(* The list is in the order of the ranks; its last server is the master. *)
LEMMA ServerList ==
  /\ Len(rangesrvs) \in Nat \ {0} /\ DOMAIN rangesrvs = 1..Len(rangesrvs)
  /\ \A i \in 1..Len(rangesrvs) : rangesrvs[i] \in get_rangesrvs
  /\ \A i, j \in 1..Len(rangesrvs) : i # j => rangesrvs[i] # rangesrvs[j]
  /\ \A s \in get_rangesrvs : \E i \in 1..Len(rangesrvs) : rangesrvs[i] = s
  /\ RsRoot \in get_rangesrvs /\ RsRoot = rangesrv_master
<1> DEFINE n == Len(rangesrvs)
<1>1. Lists(rangesrvs, CommSize) /\ get_rangesrvs \subseteq Nat
  BY ServersListed, ServerIsRank
<1>2. /\ n \in Nat /\ DOMAIN rangesrvs = 1..n
      /\ \A i \in 1..n : rangesrvs[i] \in get_rangesrvs
  BY <1>1 DEF Lists
<1>3. \A s \in get_rangesrvs : s < CommSize
  BY PartitionerAssumption DEF get_rangesrvs, AllRanks
<1>4. \A s \in get_rangesrvs : \E i \in 1..n : rangesrvs[i] = s
  BY <1>1, <1>3 DEF Lists
<1>5. get_rangesrvs # {}
  BY ServersNumbered
<1>6. n # 0
  BY <1>4, <1>5
<1>7. \A i, j \in 1..n : i # j => rangesrvs[i] # rangesrvs[j]
  <2> SUFFICES ASSUME NEW i \in 1..n, NEW j \in 1..n, i # j PROVE rangesrvs[i] # rangesrvs[j]
    OBVIOUS
  <2>1. i < j \/ j < i
    BY <1>2
  <2>2. rangesrvs[i] < rangesrvs[j] \/ rangesrvs[j] < rangesrvs[i]
    BY <1>1, <2>1 DEF Lists
  <2>3. rangesrvs[i] \in Nat /\ rangesrvs[j] \in Nat
    BY <1>1, <1>2
  <2> QED BY <2>2, <2>3
<1>8. RsRoot \in get_rangesrvs /\ \A s \in get_rangesrvs : RsRoot >= s
  <2>1. n \in 1..n /\ RsRoot = rangesrvs[n]
    BY <1>2, <1>6 DEF RsRoot
  <2>2. ASSUME NEW s \in get_rangesrvs PROVE rangesrvs[n] >= s
    <3>1. PICK i \in 1..n : rangesrvs[i] = s
      BY <1>4
    <3>2. i = n \/ rangesrvs[i] < rangesrvs[n]
      <4>1. i = n \/ i < n
        <5> HIDE DEF n
        <5> QED BY <1>2
      <4> QED BY <1>1, <2>1, <4>1 DEF Lists
    <3>3. rangesrvs[n] \in Nat /\ s \in Nat
      BY <1>1, <1>2, <2>1
    <3> QED BY <3>1, <3>2, <3>3
  <2> QED BY <1>2, <2>1, <2>2
<1>9. RsRoot = rangesrv_master
  <2> DEFINE T == get_rangesrvs \cup {0}
  <2>1. T \subseteq Int /\ RsRoot \in T /\ \A s \in T : RsRoot >= s
    BY <1>1, <1>8
  <2> HIDE DEF T
  <2>2. Max(T) = RsRoot
    BY <2>1, MaxIs
  <2> QED BY <2>2 DEF rangesrv_master, T
<1> QED
  BY <1>2, <1>4, <1>6, <1>7, <1>8, <1>9

-----------------------------------------------------------------------------
(* What the servers send, and where the root puts it. *)

Count(s) == Cardinality(Hash(s))
ItemsOf(s) == {[slice |-> q, stat |-> stat[q]] : q \in Hash(s)}
StatsOf(s) == SetToSeq(ItemsOf(s))
Total == Cardinality(DOMAIN stat)

AllItems == {[slice |-> q, stat |-> stat[q]] : q \in DOMAIN stat}

(* A buffer with all statistics. *)
Whole(buf) == buf \in Seq(AllItems) /\ Len(buf) = Total /\ Unpacked(buf) = stat

StatFits ==
  /\ DOMAIN stat \subseteq Nat /\ IsFiniteSet(DOMAIN stat)
  /\ stat = [q \in DOMAIN stat |-> stat[q]]

LEMMA SetToSeqIs ==
  ASSUME NEW S, IsFiniteSet(S)
  PROVE  /\ Cardinality(S) \in Nat
         /\ SetToSeq(S) \in [1..Cardinality(S) -> S]
         /\ \A x \in S : \E i \in 1..Cardinality(S) : SetToSeq(S)[i] = x
<1> DEFINE n == Cardinality(S)
<1>1. n \in Nat /\ ExistsBijection(1..n, S)
  BY FS_CardinalityType
<1>2. \E f \in [1..n -> S] : IsInjective(f)
  BY <1>1 DEF ExistsBijection, Bijection, Injection, IsInjective
<1>3. SetToSeq(S) \in [1..n -> S] /\ IsInjective(SetToSeq(S))
  BY <1>2 DEF SetToSeq
<1> DEFINE f == SetToSeq(S)
<1>4. f \in Injection(1..n, S)
  BY <1>3 DEF Injection, IsInjective
<1>5. IsFiniteSet(1..n) /\ Cardinality(1..n) = n
  BY <1>1, FS_Interval
<1> HIDE DEF f
<1>6. f \in Surjection(1..n, S)
  BY <1>4, <1>5, FS_Injection
<1>7. \A x \in S : \E i \in 1..n : f[i] = x
  BY <1>6 DEF Surjection
<1> QED
  BY <1>1, <1>3, <1>7 DEF f

LEMMA HashFinite ==
  ASSUME StatFits, NEW s
  PROVE  IsFiniteSet(Hash(s)) /\ Count(s) \in Nat
<1>1. Hash(s) \in SUBSET DOMAIN stat
  BY DEF Hash
<1> QED
  BY <1>1, FS_Subset, FS_CardinalityType DEF StatFits, Count

(* A server packs each of its statistics once. *)
LEMMA StatsOfIs ==
  ASSUME StatFits, NEW s
  PROVE  /\ StatsOf(s) \in Seq(ItemsOf(s)) /\ Len(StatsOf(s)) = Count(s)
         /\ DOMAIN StatsOf(s) = 1..Count(s)
         /\ \A i \in 1..Count(s) : \E q \in Hash(s) : StatsOf(s)[i] = [slice |-> q, stat |-> stat[q]]
         /\ \A q \in Hash(s) : \E i \in 1..Count(s) : StatsOf(s)[i] = [slice |-> q, stat |-> stat[q]]
<1> DEFINE f == [q \in Hash(s) |-> [slice |-> q, stat |-> stat[q]]]
           T == ItemsOf(s)
<1>1. f \in Bijection(Hash(s), T)
  <2>1. f \in [Hash(s) -> T]
    BY DEF ItemsOf
  <2>2. ASSUME NEW p \in Hash(s), NEW q \in Hash(s), f[p] = f[q] PROVE p = q
    <3>1. f[p].slice = p /\ f[q].slice = q
      OBVIOUS
    <3> QED BY <2>2, <3>1
  <2>3. \A x \in T : \E q \in Hash(s) : f[q] = x
    BY DEF ItemsOf
  <2> HIDE DEF f, T
  <2> QED BY <2>1, <2>2, <2>3 DEF Bijection, Injection, Surjection, IsInjective
<1>2. IsFiniteSet(T) /\ Cardinality(T) = Count(s)
  <2>1. IsFiniteSet(Hash(s))
    BY HashFinite
  <2> HIDE DEF f, T
  <2>2. ExistsBijection(Hash(s), T)
    BY <1>1 DEF ExistsBijection
  <2> QED BY <2>1, <2>2, FS_Bijection DEF Count
<1>3. /\ StatsOf(s) \in [1..Count(s) -> T] /\ Count(s) \in Nat
      /\ \A x \in T : \E i \in 1..Count(s) : StatsOf(s)[i] = x
  BY <1>2, SetToSeqIs DEF StatsOf
<1>4. \A q \in Hash(s) : [slice |-> q, stat |-> stat[q]] \in T
  BY DEF ItemsOf
<1>5. \A x \in T : \E q \in Hash(s) : x = [slice |-> q, stat |-> stat[q]]
  BY DEF ItemsOf
<1>6. StatsOf(s) \in Seq(T) /\ Len(StatsOf(s)) = Count(s) /\ DOMAIN StatsOf(s) = 1..Count(s)
  <2> HIDE DEF T
  <2> QED BY <1>3
<1>7. \A i \in 1..Count(s) : StatsOf(s)[i] \in T
  <2> HIDE DEF T
  <2> QED BY <1>3
<1> HIDE DEF T
<1>8. StatsOf(s) \in Seq(ItemsOf(s))
  BY <1>6 DEF T
<1> QED
  BY <1>3, <1>4, <1>5, <1>6, <1>7, <1>8

(* Where the statistics of each server start. *)
IsOffsets(d) ==
  /\ d \in [1..Len(rangesrvs) + 1 -> Nat] /\ d[1] = 0
  /\ \A i \in 1..Len(rangesrvs) : d[i + 1] = d[i] + Count(rangesrvs[i])

LEMMA DisplsIs ==
  ASSUME StatFits, \A i \in 1..Len(rangesrvs) : CountOf(rangesrvs[i]) = Count(rangesrvs[i])
  PROVE  IsOffsets(Displs)
<1> DEFINE n == Len(rangesrvs)
           Def(g) == g = [i \in 0..n |-> IF i = 0 THEN 0 ELSE g[i - 1] + CountOf(rangesrvs[i])]
           sum == CHOOSE g : Def(g)
           C(i) == CountOf(rangesrvs[i])
           F == [i \in 1..n |-> [x \in Nat |-> x + C(i)]]
<1>1. n \in Nat
  BY ServerList
<1>2. \A i \in 1..n : C(i) \in Nat /\ C(i) = Count(rangesrvs[i])
  BY HashFinite
<1> HIDE DEF n, C
<1>3. F \in [1..n -> [Nat -> Nat]]
  <2>1. ASSUME NEW i \in 1..n, NEW x \in Nat PROVE x + C(i) \in Nat
    BY <1>2
  <2> QED BY <2>1
<1>4. PICK f : f \in [0..n -> Nat] /\ f[0] = 0 /\ \A i \in 1..n : f[i] = F[i][f[i-1]]
  <2> HIDE DEF F
  <2>1. \E f : Iteration(f, n, Nat, 0, F)
    <3>1. 0 \in Nat
      OBVIOUS
    <3> QED BY <1>1, <1>3, <3>1, Iterate
  <2> QED BY <2>1 DEF Iteration
<1>5. Def(f)
  <2>1. ASSUME NEW i \in 0..n, i # 0 PROVE f[i] = f[i - 1] + C(i)
    <3>1. i \in 1..n /\ f[i - 1] \in Nat
      BY <1>1, <1>4, <2>1
    <3>2. F[i][f[i - 1]] = f[i - 1] + C(i)
      BY <3>1
    <3> HIDE DEF F
    <3> QED BY <1>4, <3>1, <3>2
  <2> HIDE DEF F
  <2> QED BY <1>4, <2>1 DEF C
<1>6. Def(sum)
  <2> HIDE DEF Def
  <2> QED BY <1>5
<1>7. Displs = [i \in 1..n + 1 |-> sum[i - 1]]
  BY DEF Displs, n
<1> HIDE DEF sum
<1>8. sum[0] = 0 /\ \A i \in 1..n : sum[i] = sum[i - 1] + C(i)
  <2>1. ASSUME NEW i \in 0..n PROVE sum[i] = IF i = 0 THEN 0 ELSE sum[i - 1] + C(i)
    BY <1>6 DEF C
  <2> HIDE DEF Def
  <2>2. 0 \in 0..n /\ \A i \in 1..n : i \in 0..n /\ i # 0
    BY <1>1
  <2> QED BY <2>1, <2>2
<1> HIDE DEF Def, F
<1>9. \A i \in 0..n : sum[i] \in Nat
  <2> DEFINE S == {i \in 0..n : sum[i] \in Nat}
  <2>1. 0 \in S
    BY <1>1, <1>8
  <2>2. ASSUME NEW i \in 0..n - 1, i \in S PROVE i + 1 \in S
    <3>1. i + 1 \in 1..n /\ i + 1 - 1 = i /\ i + 1 \in 0..n
      BY <1>1
    <3>2. sum[i + 1] = sum[i] + C(i + 1)
      BY <1>8, <3>1
    <3>3. C(i + 1) \in Nat /\ sum[i] \in Nat
      BY <1>2, <2>2, <3>1
    <3>4. sum[i + 1] \in Nat
      BY <3>2, <3>3
    <3> QED BY <3>1, <3>4
  <2> HIDE DEF S
  <2>3. \A i \in 0..n : i \in S
    BY <1>1, <2>1, <2>2, UpTo
  <2> QED BY <2>3 DEF S
<1>10. Displs \in [1..n + 1 -> Nat] /\ Displs[1] = 0
  <2>1. ASSUME NEW i \in 1..n + 1 PROVE i - 1 \in 0..n
    BY <1>1
  <2>2. \A i \in 1..n + 1 : sum[i - 1] \in Nat
    BY <1>9, <2>1
  <2>3. 1 \in 1..n + 1 /\ 1 - 1 = 0
    BY <1>1
  <2> QED BY <1>7, <1>8, <2>2, <2>3
<1>11. ASSUME NEW i \in 1..n PROVE Displs[i + 1] = Displs[i] + Count(rangesrvs[i])
  <2>1. i \in 1..n + 1 /\ i + 1 \in 1..n + 1 /\ i + 1 - 1 = i
    BY <1>1
  <2>2. Displs[i + 1] = sum[i] /\ Displs[i] = sum[i - 1]
    BY <1>7, <2>1
  <2> QED BY <1>2, <1>8, <2>2
<1> QED
  BY <1>10, <1>11 DEF IsOffsets, n

LEMMA OffsetsGrow ==
  ASSUME StatFits, NEW d, IsOffsets(d), NEW i \in 1..Len(rangesrvs), NEW j \in 1..Len(rangesrvs), i < j
  PROVE  d[i + 1] <= d[j]
<1> DEFINE n == Len(rangesrvs)
           S == {m \in 0..n : i + 1 <= m => d[i + 1] <= d[m]}
<1>1. n \in Nat /\ i \in 1..n /\ j \in 1..n
  BY ServerList
<1>2. /\ d \in [1..n + 1 -> Nat]
      /\ \A k \in 1..n : d[k + 1] = d[k] + Count(rangesrvs[k]) /\ Count(rangesrvs[k]) \in Nat
  BY HashFinite DEF IsOffsets
<1> HIDE DEF n
<1>3. 0 \in S
  BY <1>1
<1>4. ASSUME NEW m \in 0..n - 1, m \in S PROVE m + 1 \in S
  <2>1. m + 1 \in 0..n /\ m \in Nat
    BY <1>1
  <2>2. CASE i + 1 <= m
    <3>1. m \in 1..n /\ m + 1 \in 1..n + 1 /\ i + 1 \in 1..n + 1
      BY <1>1, <2>1, <2>2
    <3>2. d[m] \in Nat /\ d[m + 1] = d[m] + Count(rangesrvs[m]) /\ Count(rangesrvs[m]) \in Nat
      BY <1>1, <1>2, <3>1
    <3>3. d[i + 1] <= d[m] /\ d[i + 1] \in Nat
      BY <1>1, <1>2, <1>4, <2>2, <3>1
    <3>4. d[i + 1] <= d[m + 1]
      BY <3>2, <3>3
    <3> QED BY <2>1, <3>4
  <2>3. CASE i + 1 = m + 1
    <3>1. i + 1 \in 1..n + 1
      BY <1>1
    <3>2. d[i + 1] \in Nat
      BY <1>2, <3>1
    <3> QED BY <2>1, <2>3, <3>2
  <2>4. CASE ~(i + 1 <= m) /\ i + 1 # m + 1
    <3>1. ~(i + 1 <= m + 1)
      BY <1>1, <2>1, <2>4
    <3> QED BY <2>1, <3>1
  <2> QED BY <2>2, <2>3, <2>4
<1>5. j \in S
  <2>1. j \in 0..n
    BY <1>1
  <2> HIDE DEF S
  <2> QED BY <1>1, <1>3, <1>4, <2>1, UpTo
<1> QED
  BY <1>1, <1>5

(* The statistics of all servers together are those of the hash. *)
LEMMA OffsetsTotal ==
  ASSUME StatFits, NEW d, IsOffsets(d)
  PROVE  d[Len(rangesrvs) + 1] = Total
<1> DEFINE n == Len(rangesrvs)
           Of(q) == get_range_server_by_slice(q)
           T(i) == {q \in DOMAIN stat : \E j \in 1..i : Of(q) = rangesrvs[j]}
           S == {i \in 0..n : d[i + 1] = Cardinality(T(i))}
<1>1. /\ n \in Nat
      /\ \A i, j \in 1..n : i # j => rangesrvs[i] # rangesrvs[j]
      /\ \A s \in get_rangesrvs : \E i \in 1..n : rangesrvs[i] = s
  BY ServerList
<1>2. /\ d \in [1..n + 1 -> Nat] /\ d[1] = 0
      /\ \A k \in 1..n : d[k + 1] = d[k] + Count(rangesrvs[k])
  BY DEF IsOffsets
<1> HIDE DEF n
<1>3. ASSUME NEW i PROVE IsFiniteSet(T(i)) /\ Cardinality(T(i)) \in Nat
  <2>1. T(i) \in SUBSET DOMAIN stat
    OBVIOUS
  <2> HIDE DEF T
  <2> QED BY <2>1, FS_Subset, FS_CardinalityType DEF StatFits
<1>4. 0 \in S
  <2>1. T(0) = {} /\ 0 \in 0..n /\ 0 + 1 = 1
    BY <1>1
  <2> HIDE DEF T
  <2> QED BY <1>2, <2>1, FS_EmptySet
<1>5. ASSUME NEW i \in 0..n - 1, i \in S PROVE i + 1 \in S
  <2> DEFINE H == Hash(rangesrvs[i + 1])
  <2>1. i + 1 \in 1..n /\ i + 1 \in 0..n /\ i \in Nat
    BY <1>1
  <2>2. \A j \in 1..i : j \in 1..n /\ j # i + 1
    BY <1>1, <2>1
  <2>3. H = {q \in DOMAIN stat : Of(q) = rangesrvs[i + 1]}
    BY DEF Hash
  <2>4. T(i + 1) = T(i) \cup H
    <3>1. 1..i + 1 = (1..i) \cup {i + 1}
      BY <2>1
    <3> HIDE DEF Of, H
    <3> QED BY <2>3, <3>1
  <2>5. T(i) \cap H = {}
    <3> HIDE DEF Of, H
    <3> QED BY <1>1, <2>1, <2>2, <2>3
  <2>6. IsFiniteSet(H) /\ Cardinality(H) = Count(rangesrvs[i + 1]) /\ Count(rangesrvs[i + 1]) \in Nat
    BY HashFinite DEF Count
  <2> HIDE DEF T, H, Of
  <2>7. Cardinality(T(i + 1)) = Cardinality(T(i)) + Cardinality(H) - Cardinality({})
    BY <1>3, <2>4, <2>5, <2>6, FS_Union
  <2>8. Cardinality({}) = 0
    BY FS_EmptySet
  <2>9. d[i + 1 + 1] = Cardinality(T(i)) + Count(rangesrvs[i + 1])
    BY <1>2, <1>5, <2>1
  <2>10. d[i + 1 + 1] = Cardinality(T(i + 1))
    BY <1>3, <2>6, <2>7, <2>8, <2>9
  <2> QED BY <2>1, <2>10
<1>6. n \in S
  <2>1. n \in 0..n
    BY <1>1
  <2> HIDE DEF S
  <2> QED BY <1>1, <1>4, <1>5, <2>1, UpTo
<1>7. T(n) = DOMAIN stat
  <2> SUFFICES ASSUME NEW q \in DOMAIN stat PROVE q \in T(n)
    OBVIOUS
  <2>1. Of(q) \in get_rangesrvs
    BY ServerOfSlice DEF StatFits
  <2> HIDE DEF Of
  <2> QED BY <1>1, <2>1
<1> QED
  BY <1>6, <1>7 DEF Total, n

(* Every place of the buffer belongs to a server. *)
LEMMA OffsetsCover ==
  ASSUME StatFits, NEW d, IsOffsets(d), NEW k \in 1..Total
  PROVE  \E i \in 1..Len(rangesrvs) : k - d[i] \in 1..Count(rangesrvs[i])
<1> DEFINE n == Len(rangesrvs)
           S == {i \in 1..n : d[i] < k}
<1>1. n \in Nat \ {0}
  BY ServerList
<1>2. /\ d \in [1..n + 1 -> Nat] /\ d[1] = 0
      /\ \A i \in 1..n : d[i + 1] = d[i] + Count(rangesrvs[i])
      /\ d[n + 1] = Total
  BY OffsetsTotal DEF IsOffsets
<1> HIDE DEF n
<1>3. Total \in Nat /\ k \in Nat /\ 1 <= k /\ k <= Total
  BY FS_CardinalityType DEF StatFits, Total
<1>4. S \subseteq Int /\ S # {} /\ IsFiniteSet(S)
  <2>1. 1 \in 1..n /\ d[1] < k
    BY <1>1, <1>2, <1>3
  <2>2. S \in SUBSET (1..n) /\ IsFiniteSet(1..n)
    BY <1>1, FS_Interval
  <2>3. IsFiniteSet(S)
    <3> HIDE DEF S
    <3> QED BY <2>2, FS_Subset
  <2> QED BY <2>1, <2>3
<1>5. PICK i \in S : \A j \in S : i >= j
  <2> HIDE DEF S
  <2> QED BY <1>4, MaxExists
<1>6. i \in 1..n /\ d[i] < k /\ d[i] \in Nat /\ i + 1 \in 1..n + 1
  BY <1>1, <1>2, <1>5
<1>7. k <= d[i + 1]
  <2>1. CASE i = n
    BY <1>2, <1>3, <2>1
  <2>2. CASE i # n
    <3>1. i + 1 \in 1..n /\ ~(i >= i + 1)
      BY <1>1, <1>6, <2>2
    <3>2. i + 1 \notin S
      BY <1>5, <3>1
    <3>3. ~(d[i + 1] < k) /\ d[i + 1] \in Nat
      BY <1>2, <1>6, <3>1, <3>2
    <3> QED BY <1>3, <3>3
  <2> QED BY <2>1, <2>2
<1>8. Count(rangesrvs[i]) \in Nat
  BY HashFinite
<1>9. k - d[i] \in 1..Count(rangesrvs[i])
  BY <1>2, <1>3, <1>6, <1>7, <1>8
<1> QED
  BY <1>6, <1>9 DEF n

(* It belongs to one only. *)
LEMMA OffsetsApart ==
  ASSUME StatFits, NEW d, IsOffsets(d), NEW k \in Int,
         NEW i \in 1..Len(rangesrvs), NEW j \in 1..Len(rangesrvs),
         k - d[i] \in 1..Count(rangesrvs[i]), k - d[j] \in 1..Count(rangesrvs[j])
  PROVE  i = j
<1>0. Len(rangesrvs) \in Nat
  BY ServerList
<1>1. ASSUME NEW m \in 1..Len(rangesrvs), k - d[m] \in 1..Count(rangesrvs[m])
      PROVE  d[m] \in Nat /\ d[m + 1] \in Nat /\ d[m] < k /\ k <= d[m + 1]
  <2>1. m \in 1..Len(rangesrvs) + 1 /\ m \in Nat
    BY <1>0
  <2>2. d[m] \in Nat /\ d[m + 1] = d[m] + Count(rangesrvs[m]) /\ Count(rangesrvs[m]) \in Nat
    BY <2>1, HashFinite DEF IsOffsets
  <2> QED BY <1>1, <2>2
<1>2. /\ d[i] < k /\ k <= d[i + 1] /\ d[j] < k /\ k <= d[j + 1]
      /\ d[i] \in Nat /\ d[j] \in Nat /\ d[i + 1] \in Nat /\ d[j + 1] \in Nat
  BY <1>1
<1>3. CASE i < j
  <2>1. d[i + 1] <= d[j]
    BY <1>3, OffsetsGrow
  <2> QED BY <1>2, <2>1
<1>4. CASE j < i
  <2>1. d[j + 1] <= d[i]
    BY <1>4, OffsetsGrow
  <2> QED BY <1>2, <2>1
<1>5. i \in Nat /\ j \in Nat
  BY <1>0
<1> QED
  BY <1>3, <1>4, <1>5

Buffer(buf) == buf = [k \in 1..Total |-> buf[k]]

(* A buffer filled from all servers is whole. *)
LEMMA FilledWhole ==
  ASSUME StatFits, NEW d, IsOffsets(d), NEW buf, Buffer(buf),
         \A k \in 1..Total : \A i \in 1..Len(rangesrvs) :
           k - d[i] \in 1..Count(rangesrvs[i]) => buf[k] = StatsOf(rangesrvs[i])[k - d[i]]
  PROVE  Whole(buf)
<1> DEFINE n == Len(rangesrvs)
<1>0. DOMAIN buf = 1..Total
  BY DEF Buffer
<1>1. ASSUME NEW k \in 1..Total
      PROVE  \E q \in DOMAIN stat : buf[k] = [slice |-> q, stat |-> stat[q]]
  <2>1. PICK i \in 1..n : k - d[i] \in 1..Count(rangesrvs[i])
    BY OffsetsCover
  <2>2. buf[k] = StatsOf(rangesrvs[i])[k - d[i]]
    BY <2>1
  <2>3. PICK q \in Hash(rangesrvs[i]) :
          StatsOf(rangesrvs[i])[k - d[i]] = [slice |-> q, stat |-> stat[q]]
    BY <2>1, StatsOfIs
  <2>4. q \in DOMAIN stat
    BY DEF Hash
  <2> QED BY <2>2, <2>3, <2>4
<1>2. ASSUME NEW q \in DOMAIN stat PROVE \E k \in 1..Total : buf[k].slice = q
  <2>1. get_range_server_by_slice(q) \in get_rangesrvs
    BY ServerOfSlice DEF StatFits
  <2>2. PICK i \in 1..n : rangesrvs[i] = get_range_server_by_slice(q)
    BY <2>1, ServerList
  <2>3. q \in Hash(rangesrvs[i])
    BY <2>2 DEF Hash
  <2>4. PICK j \in 1..Count(rangesrvs[i]) :
          StatsOf(rangesrvs[i])[j] = [slice |-> q, stat |-> stat[q]]
    BY <2>3, StatsOfIs
  <2>5. /\ d[i] \in Nat /\ d[i + 1] = d[i] + Count(rangesrvs[i]) /\ Count(rangesrvs[i]) \in Nat
        /\ d[n + 1] = Total /\ n \in Nat /\ i + 1 \in 1..n + 1 /\ d[n + 1] \in Nat /\ d[i + 1] \in Nat
    <3>1. n \in Nat /\ d \in [1..n + 1 -> Nat] /\ d[i + 1] = d[i] + Count(rangesrvs[i])
      BY ServerList DEF IsOffsets
    <3> HIDE DEF n
    <3>2. i \in 1..n + 1 /\ i + 1 \in 1..n + 1 /\ n + 1 \in 1..n + 1
      BY <3>1
    <3> QED BY <3>1, <3>2, HashFinite, OffsetsTotal DEF n
  <2>6. d[i + 1] <= d[n + 1]
    <3>1. CASE i = n
      BY <2>5, <3>1
    <3>2. CASE i # n
      <4>1. n \in 1..n /\ i < n
        <5> HIDE DEF n
        <5> QED BY <2>5, <3>2
      <4>2. d[i + 1] <= d[n]
        BY <4>1, OffsetsGrow
      <4>3. d[n] \in Nat /\ d[n + 1] = d[n] + Count(rangesrvs[n]) /\ Count(rangesrvs[n]) \in Nat
        <5>1. n \in 1..n + 1
          <6> HIDE DEF n
          <6> QED BY <4>1, <2>5
        <5> QED BY <4>1, <5>1, HashFinite DEF IsOffsets
      <4> QED BY <2>5, <4>2, <4>3
    <3> QED BY <3>1, <3>2
  <2>7. d[i] + j \in 1..Total /\ d[i] + j - d[i] = j
    <3> HIDE DEF n
    <3> QED BY <2>5, <2>6
  <2>8. buf[d[i] + j] = [slice |-> q, stat |-> stat[q]]
    <3>1. PICK k \in 1..Total : k = d[i] + j /\ k - d[i] = j
      <4> HIDE DEF n
      <4> QED BY <2>5, <2>7
    <3>2. buf[k] = StatsOf(rangesrvs[i])[k - d[i]]
      BY <2>4, <3>1
    <3> QED BY <2>4, <3>1, <3>2
  <2> QED BY <2>7, <2>8
<1>3. {buf[k].slice : k \in DOMAIN buf} = DOMAIN stat
  <2>1. ASSUME NEW k \in 1..Total PROVE buf[k].slice \in DOMAIN stat
    <3>1. PICK q \in DOMAIN stat : buf[k] = [slice |-> q, stat |-> stat[q]]
      BY <1>1
    <3> QED BY <3>1
  <2>2. \A q \in DOMAIN stat : \E k \in 1..Total : buf[k].slice = q
    BY <1>2
  <2> DEFINE A == {buf[k].slice : k \in 1..Total}
  <2>3. ASSUME NEW x \in A PROVE x \in DOMAIN stat
    BY <2>1
  <2>4. ASSUME NEW x \in DOMAIN stat PROVE x \in A
    BY <2>2
  <2>5. {buf[k].slice : k \in DOMAIN buf} = A
    BY <1>0
  <2> HIDE DEF A
  <2>6. A = DOMAIN stat
    BY <2>3, <2>4
  <2> QED BY <2>5, <2>6
<1>4. ASSUME NEW q \in DOMAIN stat
      PROVE  buf[Max({k \in DOMAIN buf : buf[k].slice = q})].stat = stat[q]
  <2> DEFINE S == {k \in 1..Total : buf[k].slice = q}
  <2>1. Total \in Nat
    BY FS_CardinalityType DEF StatFits, Total
  <2>2. S \subseteq Int /\ S # {} /\ IsFiniteSet(S)
    <3>1. S \in SUBSET (1..Total) /\ IsFiniteSet(1..Total) /\ 1..Total \subseteq Int
      BY <2>1, FS_Interval
    <3>2. S # {}
      BY <1>2
    <3> HIDE DEF S
    <3> QED BY <3>1, <3>2, FS_Subset
  <2>3. Max(S) \in S
    <3> HIDE DEF S
    <3> QED BY <2>2, MaxOf
  <2>4. PICK p \in DOMAIN stat : buf[Max(S)] = [slice |-> p, stat |-> stat[p]]
    <3>1. Max(S) \in 1..Total
      BY <2>3
    <3> QED BY <1>1, <3>1
  <2>5. p = q
    BY <2>3, <2>4
  <2>6. {k \in DOMAIN buf : buf[k].slice = q} = S
    BY <1>0
  <2>7. buf[Max(S)].stat = stat[q]
    BY <2>4, <2>5
  <2> HIDE DEF S
  <2> QED BY <2>6, <2>7
<1>5. Unpacked(buf) = [q \in DOMAIN stat |-> stat[q]]
  BY <1>3, <1>4 DEF Unpacked
<1>6. buf \in Seq(AllItems) /\ Len(buf) = Total
  <2>1. Total \in Nat
    BY FS_CardinalityType DEF StatFits, Total
  <2>2. \A k \in 1..Total : buf[k] \in AllItems
    BY <1>1 DEF AllItems
  <2> QED BY <2>1, <2>2 DEF Buffer
<1> QED
  BY <1>5, <1>6 DEF Whole, StatFits

(* What the root of MPI_Gatherv receives. *)
LEMMA GatheredWhole ==
  ASSUME StatFits, IsOffsets(Displs), fl[RsRoot].out = StatsOf(RsRoot),
         \A s \in get_rangesrvs \ {RsRoot} : mpi.packed[s] = <<StatsOf(s)>>
  PROVE  Whole(Gathered(Total))
<1> DEFINE Sent(i) == IF rangesrvs[i] = RsRoot THEN fl[RsRoot].out ELSE mpi.packed[rangesrvs[i]][1]
           zero == [slice |-> 0, stat |-> [min |-> 0, max |-> 0, num |-> 0]]
           From(k) == {i \in DOMAIN rangesrvs : k - Displs[i] \in DOMAIN Sent(i)}
           Item(k) == IF From(k) = {} THEN zero
                      ELSE Sent(Max(From(k)))[k - Displs[Max(From(k))]]
           buf == [k \in 1..Total |-> Item(k)]
<1>1. Gathered(Total) = buf
  BY DEF Gathered
<1>2. \A i \in DOMAIN rangesrvs : Sent(i) = StatsOf(rangesrvs[i]) /\ DOMAIN Sent(i) = 1..Count(rangesrvs[i])
  BY ServerList, StatsOfIs
<1>3. DOMAIN rangesrvs = 1..Len(rangesrvs)
  BY ServerList
<1> HIDE DEF Sent, zero
<1>4. ASSUME NEW k \in 1..Total, NEW i \in 1..Len(rangesrvs), k - Displs[i] \in 1..Count(rangesrvs[i])
      PROVE  buf[k] = StatsOf(rangesrvs[i])[k - Displs[i]]
  <2>1. i \in From(k)
    BY <1>2, <1>3, <1>4
  <2>2. \A j \in From(k) : j = i
    <3>1. ASSUME NEW j \in From(k) PROVE j = i
      <4>1. j \in 1..Len(rangesrvs) /\ k - Displs[j] \in 1..Count(rangesrvs[j])
        BY <1>2, <1>3
      <4>2. k \in Int
        BY FS_CardinalityType DEF StatFits, Total
      <4> QED BY <1>4, <4>1, <4>2, OffsetsApart
    <3> QED BY <3>1
  <2> HIDE DEF From
  <2>3. From(k) = {i}
    BY <2>1, <2>2
  <2>4. Max({i}) = i
    <3>1. i \in Int
      BY ServerList
    <3>2. {i} \subseteq Int /\ i \in {i} /\ \A y \in {i} : i >= y
      BY <3>1
    <3> QED BY <3>2, MaxIs
  <2>5. Item(k) = Sent(i)[k - Displs[i]]
    BY <2>3, <2>4
  <2> QED BY <1>2, <1>3, <2>5
<1>5. Buffer(buf)
  <2> HIDE DEF Item
  <2> QED BY DEF Buffer
<1> HIDE DEF buf
<1> QED
  BY <1>1, <1>4, <1>5, FilledWhole

-----------------------------------------------------------------------------
(* RangeStore as the ranks see it uses the same partitioner. *)

(* The functions of the partitioner are the same for every rank. *)
LEMMA SameNumbers ==
  ASSUME NEW r
  PROVE  View(r)!StatNum = StatNum
BY DEF View!StatNum, StatNum, View!get_str_num, get_str_num, View!get_byte_num, get_byte_num,
       View!Fraction, Fraction, View!pos, pos, View!Cardinality, Cardinality, View!Keyed, Keyed

LEMMA SameSlices ==
  ASSUME NEW r, NEW k
  PROVE  View(r)!get_slice_num(k) = get_slice_num(k)
<1>1. View(r)!total_keys = total_keys
  BY DEF View!total_keys, total_keys
<1>2. View(r)!verify_key(k) = verify_key(k)
  BY <1>1 DEF View!verify_key, verify_key, View!InRange, InRange
<1>3. View(r)!key_num(k, total_keys) = key_num(k, total_keys)
  BY SameNumbers DEF View!key_num, key_num, View!Abs, Abs, View!Scale, Scale
<1> QED
  BY <1>1, <1>2, <1>3 DEF View!get_slice_num, get_slice_num, View!NoSlice, NoSlice

LEMMA SameServers ==
  ASSUME NEW r
  PROVE  View(r)!get_rangesrvs = get_rangesrvs
<1>1. View(r)!get_num_range_servers = get_num_range_servers
  BY DEF View!get_num_range_servers, get_num_range_servers, View!AllRanks, AllRanks, View!Cardinality, Cardinality
<1>2. ASSUME NEW t PROVE View(r)!is_range_server(t) = is_range_server(t)
  BY <1>1 DEF View!is_range_server, is_range_server
<1>3. View(r)!AllRanks = AllRanks
  BY DEF View!AllRanks, AllRanks
<1> QED
  BY <1>2, <1>3 DEF View!get_rangesrvs, get_rangesrvs

LEMMA SameServer ==
  ASSUME NEW r, NEW k
  PROVE  View(r)!get_range_server(k) = get_range_server(k)
<1>1. View(r)!get_num_range_servers = get_num_range_servers
  BY DEF View!get_num_range_servers, get_num_range_servers, View!AllRanks, AllRanks, View!Cardinality, Cardinality
<1>2. ASSUME NEW t PROVE View(r)!is_range_server(t) = is_range_server(t)
  BY <1>1 DEF View!is_range_server, is_range_server
<1>3. View(r)!get_rangesrvs = get_rangesrvs
  BY SameServers
<1>4. ASSUME NEW q PROVE View(r)!get_range_server_by_slice(q) = get_range_server_by_slice(q)
  <2> DEFINE num == IF get_num_range_servers = 1 THEN 1 ELSE (q % get_num_range_servers) + 1
             S == {t \in get_rangesrvs : is_range_server(t) = num}
             V == {t \in View(r)!get_rangesrvs : View(r)!is_range_server(t) = num}
  <2>1. V = S
    BY <1>2, <1>3
  <2>2. get_range_server_by_slice(q) = IF S = {} THEN -1 ELSE CHOOSE t \in S : TRUE
    BY DEF get_range_server_by_slice, NoServer
  <2>3. View(r)!get_range_server_by_slice(q) = IF V = {} THEN -1 ELSE CHOOSE t \in V : TRUE
    BY <1>1 DEF View!get_range_server_by_slice, View!NoServer
  <2> HIDE DEF S, V
  <2> QED BY <2>1, <2>2, <2>3
<1> QED
  BY <1>4, SameSlices DEF View!get_range_server, get_range_server, View!NoServer, NoServer, View!NoSlice, NoSlice

LEMMA SameOneServer ==
  ASSUME NEW r, NEW ks
  PROVE  View(r)!OneServer(ks) <=> \E s \in get_rangesrvs : \A k \in ks : get_range_server(k) = s
BY SameServer, SameServers DEF View!OneServer

(* update_all_stats with the functions of the partitioner. *)
Updates(st, keys) ==
  LET slices == {get_slice_num(keys[i]) : i \in DOMAIN keys}
      In(q)  == {i \in DOMAIN keys : get_slice_num(keys[i]) = q}
      New(q) == {StatNum[keys[i]] : i \in In(q)}
      old(q) == IF q \in DOMAIN st THEN {st[q]} ELSE {}
  IN [q \in DOMAIN st \cup slices |->
        IF q \notin slices THEN st[q]
        ELSE [min |-> Min(New(q) \cup {o.min : o \in old(q)}),
              max |-> Max(New(q) \cup {o.max : o \in old(q)}),
              num |-> Cardinality(In(q)) + IF old(q) = {} THEN 0 ELSE st[q].num]]

LEMMA SameUpdate ==
  ASSUME NEW r, NEW st, NEW keys
  PROVE  View(r)!update_all_stats(st, keys) = Updates(st, keys)
<1> DEFINE slices == {get_slice_num(keys[i]) : i \in DOMAIN keys}
           In(q)  == {i \in DOMAIN keys : get_slice_num(keys[i]) = q}
           New(q) == {StatNum[keys[i]] : i \in In(q)}
           old(q) == IF q \in DOMAIN st THEN {st[q]} ELSE {}
           Stat(q) == IF q \notin slices THEN st[q]
                      ELSE [min |-> Min(New(q) \cup {o.min : o \in old(q)}),
                            max |-> Max(New(q) \cup {o.max : o \in old(q)}),
                            num |-> Cardinality(In(q)) + IF old(q) = {} THEN 0 ELSE st[q].num]
           slices2 == {View(r)!get_slice_num(keys[i]) : i \in DOMAIN keys}
           In2(q)  == {i \in DOMAIN keys : View(r)!get_slice_num(keys[i]) = q}
           New2(q) == {View(r)!StatNum[keys[i]] : i \in In2(q)}
           Stat2(q) == IF q \notin slices2 THEN st[q]
                       ELSE [min |-> Min(New2(q) \cup {o.min : o \in old(q)}),
                             max |-> Max(New2(q) \cup {o.max : o \in old(q)}),
                             num |-> Cardinality(In2(q)) + IF old(q) = {} THEN 0 ELSE st[q].num]
<1>1. Updates(st, keys) = [q \in DOMAIN st \cup slices |-> Stat(q)]
  BY DEF Updates
<1>2. View(r)!update_all_stats(st, keys) = [q \in DOMAIN st \cup slices2 |-> Stat2(q)]
  BY DEF View!update_all_stats, View!Min, Min, View!Max, Max, View!Cardinality, Cardinality
<1>3. slices2 = slices
  BY SameSlices
<1>4. ASSUME NEW q PROVE In2(q) = In(q)
  BY SameSlices
<1>5. ASSUME NEW q PROVE New2(q) = New(q)
  <2> HIDE DEF In, In2
  <2> QED BY <1>4, SameNumbers
<1> HIDE DEF slices, slices2, In, In2, New, New2
<1>6. ASSUME NEW q PROVE Stat2(q) = Stat(q)
  BY <1>3, <1>4, <1>5
<1> HIDE DEF Stat, Stat2
<1> QED
  BY <1>1, <1>2, <1>3, <1>6

-----------------------------------------------------------------------------
(* Steps that are steps of RangeStore for every rank at once. *)

(* A step as the ranks see it. *)
StoreStep == \A r \in AllRanks : UNCHANGED View(r)!vars \/ View(r)!Next

PartsListed ==
  \A m \in parts : \/ m.op = "put" /\ m.list \in PutParts
                   \/ m.op = "del" /\ m.list \in DelParts

LEMMA StoreStays ==
  ASSUME UNCHANGED <<up, db, stat, sdb, ideal, mdstats>>
  PROVE  StoreStep
BY DEF StoreStep, View!vars

LEMMA StoreHandle ==
  ASSUME PartsListed, NEW m \in parts, Handle(m)
  PROVE  StoreStep
<1> SUFFICES ASSUME NEW r \in AllRanks PROVE View(r)!Next
  BY DEF StoreStep
<1>1. mdstats' = mdstats
  BY DEF Handle
<1>2. CASE m.op = "put"
  <2>1. View(Writer)!range_server_bput(m.list, {}) /\ View(Writer)!WithinBounds
    BY <1>2 DEF Handle
  <2>2. View(r)!range_server_bput(m.list, {})
    <3>1. View(r)!OneServer({m.list[i].key : i \in DOMAIN m.list})
      BY <2>1, SameOneServer DEF View!range_server_bput
    <3>2. View(Writer)!Write(m.list, {}) => View(r)!Write(m.list, {})
      BY SameUpdate DEF View!Write, View!Merge, View!NewValue, View!Max
    <3>3. View(r)!Meaning(ideal, m.list) = View(Writer)!Meaning(ideal, m.list)
      BY DEF View!Meaning, View!Merge, View!Value
    <3> QED BY <1>1, <2>1, <3>1, <3>2, <3>3 DEF View!range_server_bput
  <2>3. View(r)!WithinBounds
    BY <2>1 DEF View!WithinBounds
  <2>4. m.list \in PutParts
    BY <1>2 DEF PartsListed
  <2> QED BY <2>2, <2>3, <2>4 DEF View!Next
<1>3. CASE m.op = "del"
  <2>1. View(Writer)!range_server_bdel(m.list, {})
    BY <1>3 DEF Handle
  <2>2. View(r)!range_server_bdel(m.list, {})
    BY <1>1, <2>1, SameOneServer DEF View!range_server_bdel
  <2>3. m.list \in DelParts
    BY <1>3 DEF PartsListed
  <2> QED BY <2>2, <2>3 DEF View!Next
<1> QED
  BY <1>2, <1>3 DEF Handle

LEMMA StoreJob ==
  ASSUME ~up => mdstats = [r \in AllRanks |-> Nothing], mdhimClose \/ Crash \/ mdhimInit
  PROVE  StoreStep
<1> SUFFICES ASSUME NEW r \in AllRanks PROVE View(r)!Next
  BY DEF StoreStep
<1>1. mdstats'[r] = Nothing
  BY DEF mdhimClose, Crash, mdhimInit, Reset
<1>2. CASE mdhimClose
  <2>1. View(r)!range_server_stop
    BY <1>1, <1>2 DEF mdhimClose, View!range_server_stop, View!Merge, View!Nothing, Nothing
  <2> QED BY <2>1 DEF View!Next
<1>3. CASE Crash
  <2>1. View(r)!Crash
    BY <1>1, <1>3 DEF Crash, View!Crash, View!Nothing, Nothing
  <2> QED BY <2>1 DEF View!Next
<1>4. CASE mdhimInit
  <2>1. View(r)!range_server_init
    BY <1>1, <1>4 DEF mdhimInit, View!range_server_init
  <2> QED BY <2>1 DEF View!Next
<1> QED
  BY <1>2, <1>3, <1>4

(* The last step of a flush on one rank. *)
LEMMA StoreFlush ==
  ASSUME up, UNCHANGED <<up, db, stat, sdb, ideal>>, NEW r \in AllRanks,
         \A t \in AllRanks \ {r} : mdstats'[t] = mdstats[t],
         mdstats'[r] = View(r)!Merge(stat, mdstats[r])
  PROVE  StoreStep
<1>1. View(r)!Next
  <2>1. View(r)!mdhimStatFlush
    BY DEF View!mdhimStatFlush
  <2> QED BY <2>1 DEF View!Next
<1>2. ASSUME NEW t \in AllRanks \ {r} PROVE UNCHANGED View(t)!vars
  BY DEF View!vars
<1> QED
  BY <1>1, <1>2 DEF StoreStep

-----------------------------------------------------------------------------
(* The invariant: outside a flush all ranks are; inside one the servers hold *)
(* still, all ranks are between the same barriers but those that failed, and *)
(* what a rank has counted, packed, gathered or given to MPI is what the     *)
(* statistics are.                                                           *)

Pre  == {"start", "rs1", "gather", "pack", "rs2", "gatherv", "cl1"}
Mid  == {"bcast1", "cl2"}
Post == {"bcast2", "end"}
ServerPlaces == {"rs1", "gather", "pack", "rs2", "gatherv"}

SamePart ==
  /\ up /\ parts = {}
  /\ \A r \in AllRanks : r \in failed => fl[r].at \in {"end", "lost"}
  /\ \E P \in {Pre, Mid, Post} : \A r \in AllRanks : r \in failed \/ fl[r].at \in P

(* What rank r has at its place, x being its locals. *)
Has(r, x) ==
  /\ x.at \in ServerPlaces => r \in get_rangesrvs /\ x.size = Count(r)
  /\ x.at \in {"rs1", "gather"} => x.num = Count(r)
  /\ x.at \in {"rs2", "gatherv"} => x.out = StatsOf(r)
  /\ x.at \in {"cl2", "bcast2"} => x.num = Total
  /\ r = RsRoot /\ x.at \in {"pack", "rs2", "gatherv", "cl1", "bcast1"} => x.num = Total
  /\ r = RsRoot /\ x.at \in {"cl1", "bcast1", "cl2", "bcast2"} => Whole(x.buf)

RanksHave == \A r \in AllRanks : Has(r, fl[r])

GivenRight ==
  /\ \A s \in get_rangesrvs : mpi.counts[s] # None => mpi.counts[s] = <<Count(s)>>
  /\ \A s \in get_rangesrvs : mpi.packed[s] # None => mpi.packed[s] = <<StatsOf(s)>>
  /\ mpi.num # None => mpi.num = <<Total>>
  /\ mpi.buf # None => Whole(mpi.buf[1])

RootCounted ==
  fl[RsRoot].at \in {"pack", "rs2", "gatherv"} =>
    \A s \in get_rangesrvs \ {RsRoot} : mpi.counts[s] # None

Inside == SamePart /\ RanksHave /\ GivenRight /\ RootCounted

Outer == AllOut /\ failed = {}

Rec(x) == x = [at |-> x.at, num |-> x.num, size |-> x.size, out |-> x.out, buf |-> x.buf]

FlType == fl = [r \in AllRanks |-> fl[r]] /\ \A r \in AllRanks : Rec(fl[r])

MpiType ==
  /\ mpi = [counts |-> mpi.counts, packed |-> mpi.packed, num |-> mpi.num, buf |-> mpi.buf]
  /\ mpi.counts = [s \in get_rangesrvs |-> mpi.counts[s]]
  /\ mpi.packed = [s \in get_rangesrvs |-> mpi.packed[s]]

MapFits(m) == DOMAIN m \subseteq Nat /\ IsFiniteSet(DOMAIN m) /\ m = [q \in DOMAIN m |-> m[q]]

FlushInv ==
  /\ FlType /\ MpiType /\ mdstats = [r \in AllRanks |-> mdstats[r]]
  /\ StatFits /\ MapFits(sdb)
  /\ ~up => mdstats = [r \in AllRanks |-> Nothing]
  /\ PartsListed
  /\ Outer \/ Inside

LEMMA NothingFits == MapFits(Nothing)
<1>1. DOMAIN Nothing = {} /\ Nothing = [q \in DOMAIN Nothing |-> Nothing[q]]
  BY DEF Nothing
<1> QED
  BY <1>1, FS_EmptySet DEF MapFits

LEMMA ResetFits ==
  ASSUME Reset
  PROVE  FlType' /\ MpiType' /\ Outer' /\ PartsListed' /\ mdstats' = [r \in AllRanks |-> Nothing]
<1>1. Rec(Outside) /\ Outside.at = "out"
  BY DEF Rec, Outside
<1>2. FlType' /\ Outer'
  <2>1. fl' = [r \in AllRanks |-> Outside] /\ failed' = {}
    BY DEF Reset
  <2> QED BY <1>1, <2>1 DEF FlType, Rec, Outer, AllOut, At
<1>3. MpiType'
  <2>1. mpi' = NoGiven
    BY DEF Reset
  <2> QED BY <2>1 DEF MpiType, NoGiven
<1> QED
  BY <1>2, <1>3 DEF Reset, PartsListed

LEMMA FlushInit == Init => FlushInv
<1> SUFFICES ASSUME Init PROVE FlushInv
  OBVIOUS
<1>1. Rec(Outside) /\ Outside.at = "out"
  BY DEF Rec, Outside
<1>2. FlType /\ Outer
  <2>1. fl = [r \in AllRanks |-> Outside] /\ failed = {}
    BY DEF Init
  <2> QED BY <1>1, <2>1 DEF FlType, Rec, Outer, AllOut, At
<1>3. MpiType
  <2>1. mpi = NoGiven
    BY DEF Init
  <2> QED BY <2>1 DEF MpiType, NoGiven
<1>4. StatFits /\ MapFits(sdb)
  <2>1. stat = Nothing /\ sdb = Nothing
    BY DEF Init
  <2> QED BY <2>1, NothingFits DEF StatFits, MapFits
<1> QED
  BY <1>2, <1>3, <1>4 DEF Init, FlushInv, PartsListed

(* Bulk calls and the servers' work on them. *)

LEMMA PartListed ==
  ASSUME NEW list, NEW op \in {"put", "del"}, parts' = Parts(list, op),
         op = "put" => list \in PutLists, op = "del" => list \in KeyLists
  PROVE  PartsListed'
<1> SUFFICES ASSUME NEW m \in parts'
             PROVE  (m.op = "put" /\ m.list \in PutParts) \/ (m.op = "del" /\ m.list \in DelParts)
  BY DEF PartsListed
<1>1. m.server \in get_rangesrvs /\ m.op = op /\ m.list = PartOf(list, op, m.server)
  BY DEF Parts
<1> QED
  BY <1>1 DEF PutParts, DelParts

LEMMA FlushCall ==
  ASSUME FlushInv,
         \/ \E list \in PutLists : mdhimBPut(list)
         \/ \E list \in KeyLists : mdhimBDelete(list)
  PROVE  FlushInv' /\ StoreStep
<1>1. UNCHANGED <<up, db, stat, sdb, ideal, mdstats, fl, mpi, failed>> /\ Callable
  BY DEF mdhimBPut, mdhimBDelete, storeVars
<1>2. PartsListed'
  BY PartListed DEF mdhimBPut, mdhimBDelete
<1>3. ~Inside
  <2>1. Writer \in AllRanks
    BY CallsAssumption
  <2>2. fl[Writer].at = "out"
    BY <1>1 DEF Callable, At
  <2> QED BY <2>1, <2>2 DEF Inside, SamePart, Pre, Mid, Post
<1>4. FlushInv'
  BY <1>1, <1>2, <1>3
     DEF FlushInv, FlType, Rec, MpiType, StatFits, MapFits, Outer, AllOut, At
<1> QED
  BY <1>1, <1>4, StoreStays

LEMMA StatPut ==
  ASSUME StatFits, NEW list \in PutParts, View(Writer)!range_server_bput(list, {})
  PROVE  StatFits'
<1>1. PICK l \in PutLists, s \in get_rangesrvs : list = PartOf(l, "put", s)
  BY DEF PutParts
<1>2. list \in Seq(Record) /\ \A i \in DOMAIN list : get_range_server(list[i].key) = s
  <2>1. l \in Seq(Record) /\ list = Routed(l, "put", {s})
    BY <1>1, ListTypes DEF PartOf
  <2>2. list \in Seq(Record)
    BY <2>1, RoutedIs
  <2>3. \A i \in DOMAIN list : get_range_server(KeyOf(list[i], "put")) \in {s}
    BY <2>1, RoutedItem
  <2> QED BY <2>2, <2>3 DEF KeyOf
<1>3. CASE UNCHANGED stat
  BY <1>3 DEF StatFits
<1>4. CASE View(Writer)!Write(list, {})
  <2>1. \A i \in DOMAIN list : get_slice_num(list[i].key) \in Nat
    <3> SUFFICES ASSUME NEW i \in DOMAIN list PROVE get_slice_num(list[i].key) \in Nat
      OBVIOUS
    <3>1. list[i].key \in Keyed
      BY <1>2, RecordFields, CallsAssumption
    <3>2. verify_key(list[i].key)
      BY <1>1, <1>2, <3>1, ServerOfKey
    <3> QED BY <3>1, <3>2, SliceType
  <2>2. PICK new \in SUBSET DOMAIN list :
          stat' = View(Writer)!update_all_stats(stat, [i \in new |-> list[i].key])
    BY <1>4 DEF View!Write
  <2> DEFINE keys == [i \in new |-> list[i].key]
             slices == {get_slice_num(keys[i]) : i \in DOMAIN keys}
  <2>3. stat' = Updates(stat, keys)
    BY <2>2, SameUpdate
  <2>4. DOMAIN stat' = DOMAIN stat \cup slices /\ stat' = [q \in DOMAIN stat' |-> stat'[q]]
    <3> HIDE DEF keys
    <3> QED BY <2>3 DEF Updates
  <2>5. slices \subseteq Nat
    BY <2>1
  <2>6. IsFiniteSet(slices)
    <3> DEFINE f == [i \in new |-> get_slice_num(list[i].key)]
    <3>1. IsFiniteSet(new)
      <4>1. IsFiniteSet(DOMAIN list)
        BY <1>2, RecordFields, FS_Interval
      <4> QED BY <4>1, FS_Subset
    <3>2. slices = {f[i] : i \in new} /\ f = [i \in new |-> f[i]]
      OBVIOUS
    <3> HIDE DEF f, slices
    <3>3. f \in Surjection(new, {f[i] : i \in new})
      BY <3>2 DEF Surjection
    <3> QED BY <3>1, <3>2, <3>3, FS_Surjection
  <2> HIDE DEF slices
  <2>7. DOMAIN stat \subseteq Nat /\ IsFiniteSet(DOMAIN stat)
    BY DEF StatFits
  <2>8. IsFiniteSet(DOMAIN stat \cup slices)
    BY <2>6, <2>7, FS_Union
  <2> QED BY <2>4, <2>5, <2>7, <2>8 DEF StatFits
<1> QED
  BY <1>3, <1>4 DEF View!range_server_bput

LEMMA FlushHandle ==
  ASSUME FlushInv, NEW m \in parts, Handle(m)
  PROVE  FlushInv' /\ StoreStep
<1>1. UNCHANGED <<mdstats, fl, mpi, failed>> /\ up /\ parts' = parts \ {m}
  BY DEF Handle
<1>2. UNCHANGED <<up, sdb>> /\ StatFits'
  <2>1. CASE m.op = "put"
    <3>1. View(Writer)!range_server_bput(m.list, {}) /\ m.list \in PutParts
      BY <2>1 DEF Handle, FlushInv, PartsListed
    <3> QED BY <3>1, StatPut DEF FlushInv, View!range_server_bput
  <2>2. CASE m.op = "del"
    <3>1. View(Writer)!range_server_bdel(m.list, {})
      BY <2>2 DEF Handle
    <3>2. UNCHANGED <<up, stat, sdb>>
      BY <3>1 DEF View!range_server_bdel
    <3> QED BY <3>2 DEF FlushInv, StatFits
  <2> QED BY <2>1, <2>2 DEF Handle
<1>3. ~Inside
  BY DEF Inside, SamePart
<1>4. PartsListed'
  BY <1>1 DEF FlushInv, PartsListed
<1>5. FlushInv'
  BY <1>1, <1>2, <1>3, <1>4
     DEF FlushInv, FlType, Rec, MpiType, MapFits, Outer, AllOut, At
<1> QED
  BY <1>5, StoreHandle DEF FlushInv

LEMMA FlushJob ==
  ASSUME FlushInv, mdhimClose \/ Crash \/ mdhimInit
  PROVE  FlushInv' /\ StoreStep
<1>1. Reset
  BY DEF mdhimClose, Crash, mdhimInit
<1>2. StatFits' /\ MapFits(sdb)'
  <2>1. CASE mdhimClose
    <3>1. stat' = Nothing /\ sdb' = View(Writer)!Merge(stat, sdb)
      BY <2>1 DEF mdhimClose, View!range_server_stop, View!Nothing, Nothing
    <3>2. DOMAIN sdb' = DOMAIN stat \cup DOMAIN sdb /\ sdb' = [q \in DOMAIN sdb' |-> sdb'[q]]
      BY <3>1 DEF View!Merge
    <3>3. /\ DOMAIN stat \subseteq Nat /\ IsFiniteSet(DOMAIN stat)
          /\ DOMAIN sdb \subseteq Nat /\ IsFiniteSet(DOMAIN sdb)
      BY DEF FlushInv, StatFits, MapFits
    <3>4. IsFiniteSet(DOMAIN stat \cup DOMAIN sdb)
      BY <3>3, FS_Union
    <3>5. MapFits(sdb')
      BY <3>2, <3>3, <3>4 DEF MapFits
    <3> QED BY <3>1, <3>5, NothingFits DEF StatFits, MapFits
  <2>2. CASE Crash
    <3>1. stat' = Nothing /\ sdb' = sdb
      BY <2>2 DEF Crash, View!Crash, View!Nothing, Nothing
    <3> QED BY <3>1, NothingFits DEF FlushInv, StatFits, MapFits
  <2>3. CASE mdhimInit
    <3>1. stat' = sdb /\ sdb' = sdb
      BY <2>3 DEF mdhimInit, View!range_server_init
    <3> QED BY <3>1 DEF FlushInv, StatFits, MapFits
  <2> QED BY <2>1, <2>2, <2>3
<1>3. mdstats' = [r \in AllRanks |-> mdstats'[r]]
  BY <1>1, ResetFits
<1> QED
  BY <1>1, <1>2, <1>3, ResetFits, StoreJob DEF FlushInv

-----------------------------------------------------------------------------
(* The steps inside a flush. *)

LEMMA StatKept ==
  ASSUME stat' = stat
  PROVE  /\ \A s : Count(s)' = Count(s) /\ StatsOf(s)' = StatsOf(s)
         /\ Total' = Total
         /\ \A b : Whole(b)' <=> Whole(b)
<1>1. ASSUME NEW s PROVE Hash(s)' = Hash(s)
  BY DEF Hash
<1>2. ASSUME NEW s PROVE ItemsOf(s)' = ItemsOf(s)
  BY <1>1 DEF ItemsOf
<1>3. AllItems' = AllItems
  BY DEF AllItems
<1> QED
  BY <1>1, <1>2, <1>3 DEF Count, StatsOf, Total, Whole, Unpacked

LEMMA HasKept ==
  ASSUME stat' = stat, NEW r, NEW x
  PROVE  Has(r, x)' <=> Has(r, x)
BY StatKept DEF Has, RsRoot, rangesrvs

LEMMA GivenKept ==
  ASSUME stat' = stat, mpi' = mpi, GivenRight
  PROVE  GivenRight'
BY StatKept DEF GivenRight, None

Goes(r, x) == fl' = [t \in AllRanks |-> IF t = r THEN x ELSE fl[t]]

(* One rank goes on between two barriers. *)
LEMMA RankGoes ==
  ASSUME FlType, Inside, NEW r \in AllRanks \ failed, NEW x, Goes(r, x), Rec(x), Has(r, x),
         NEW P \in {Pre, Mid, Post}, fl[r].at \in P, x.at \in P,
         UNCHANGED <<up, stat, parts, failed>>, GivenRight', RootCounted'
  PROVE  FlType' /\ Inside'
<1>1. /\ fl'[r] = x /\ \A t \in AllRanks \ {r} : fl'[t] = fl[t]
      /\ fl' = [t \in AllRanks |-> fl'[t]]
  BY DEF Goes
<1>2. FlType'
  BY <1>1 DEF FlType, Rec
<1>3. RanksHave'
  BY <1>1, HasKept DEF RanksHave, Inside
<1>4. SamePart'
  <2>1. PICK Q \in {Pre, Mid, Post} : \A t \in AllRanks : t \in failed \/ fl[t].at \in Q
    BY DEF Inside, SamePart
  <2>2. P = Q
    <3>1. fl[r].at \in Q
      BY <2>1
    <3> QED BY <3>1 DEF Pre, Mid, Post
  <2>3. \A t \in AllRanks : t \in failed' \/ fl'[t].at \in Q
    BY <1>1, <2>1, <2>2
  <2>4. \A t \in AllRanks : t \in failed' => fl'[t].at \in {"end", "lost"}
    BY <1>1 DEF Inside, SamePart
  <2> QED BY <2>3, <2>4 DEF SamePart, Inside, Pre, Mid, Post
<1> QED
  BY <1>2, <1>3, <1>4 DEF Inside

(* A rank that is on its way has not failed, and the flush is inside. *)
LEMMA OnItsWay ==
  ASSUME Outer \/ Inside, NEW r \in AllRanks,
         fl[r].at \in {"start", "gather", "pack", "gatherv", "bcast1", "bcast2"}
  PROVE  Inside /\ r \notin failed
BY DEF Outer, AllOut, At, Inside, SamePart

Frame == UNCHANGED <<up, db, stat, sdb, ideal, parts, want>>

LEMMA FrameStore ==
  ASSUME FlushInv, Frame, mdstats' = mdstats, FlType', MpiType', Outer' \/ Inside'
  PROVE  FlushInv' /\ StoreStep
<1>1. StatFits' /\ MapFits(sdb)' /\ PartsListed'
  BY DEF Frame, FlushInv, StatFits, MapFits, PartsListed
<1> QED
  BY <1>1, StoreStays DEF FlushInv, Frame

LEMMA MpiKept ==
  ASSUME MpiType, mpi' = mpi
  PROVE  MpiType'
BY DEF MpiType

LEMMA FlushStarts ==
  ASSUME FlushInv, FlushBarrier
  PROVE  FlushInv' /\ StoreStep
<1>1. Frame /\ mdstats' = mdstats /\ failed' = failed /\ mpi' = NoGiven /\ up /\ AllOut /\ parts = {}
  BY DEF FlushBarrier, OnlyFlush, storeVars, Frame
<1>2. \A r \in AllRanks : fl'[r].at = "start" /\ Rec(fl'[r])
  BY DEF FlushBarrier, Outside, Rec
<1>3. FlType' /\ MpiType'
  <2>1. fl' = [r \in AllRanks |-> fl'[r]]
    BY DEF FlushBarrier
  <2> QED BY <1>1, <1>2, <2>1 DEF FlType, Rec, MpiType, NoGiven
<1>4. Outer
  <2>1. Writer \in AllRanks
    BY CallsAssumption
  <2>2. fl[Writer].at = "out"
    BY <1>1, <2>1 DEF AllOut, At
  <2> QED BY <2>1, <2>2 DEF FlushInv, Inside, SamePart, Pre, Mid, Post
<1>5. SamePart'
  <2>1. \A r \in AllRanks : fl'[r].at \in Pre
    BY <1>2 DEF Pre
  <2>2. failed' = {} /\ up' /\ parts' = {}
    BY <1>1, <1>4 DEF Outer, Frame
  <2> QED BY <2>1, <2>2 DEF SamePart
<1>6. RanksHave'
  <2> SUFFICES ASSUME NEW r \in AllRanks PROVE Has(r, fl[r])'
    BY DEF RanksHave
  <2> QED BY <1>2 DEF Has, ServerPlaces
<1>7. GivenRight'
  BY <1>1 DEF GivenRight, NoGiven, None
<1>8. RootCounted'
  <2>1. RsRoot \in AllRanks
    BY ServerList DEF get_rangesrvs
  <2>2. RsRoot' = RsRoot
    BY DEF RsRoot, rangesrvs
  <2> QED BY <1>2, <2>1, <2>2 DEF RootCounted
<1> QED
  BY <1>1, <1>3, <1>5, <1>6, <1>7, <1>8, FrameStore DEF Inside

LEMMA FlushStart ==
  ASSUME FlushInv, NEW r \in AllRanks, Start(r)
  PROVE  FlushInv' /\ StoreStep
<1>1. Frame /\ mdstats' = mdstats /\ failed' = failed /\ mpi' = mpi /\ fl[r].at = "start"
  BY DEF Start, At, OnlyFlush, storeVars, Frame
<1>2. FlType /\ MpiType /\ Inside /\ r \notin failed
  BY <1>1, OnItsWay DEF FlushInv
<1>3. MpiType' /\ GivenRight' /\ UNCHANGED <<up, stat, parts>>
  BY <1>1, <1>2, MpiKept, GivenKept DEF Frame, Inside
<1> DEFINE x == IF r \in get_rangesrvs
                  THEN [fl[r] EXCEPT !.num = Cardinality(Hash(r)), !.size = Cardinality(Hash(r)), !.at = "rs1"]
                  ELSE [fl[r] EXCEPT !.at = "cl1"]
<1>4. Goes(r, x)
  BY <1>2 DEF Start, Goes, FlType
<1>5. Rec(x)
  BY <1>2 DEF FlType, Rec
<1>6. /\ x.at \in {"rs1", "cl1"} /\ (x.at = "rs1" => r \in get_rangesrvs)
      /\ (x.at = "cl1" => r \notin get_rangesrvs)
      /\ x.at = "rs1" => x.num = Count(r) /\ x.size = Count(r)
  BY <1>2 DEF FlType, Rec, Count
<1> HIDE DEF x
<1>7. Has(r, x)
  BY <1>6, ServerList DEF Has, ServerPlaces
<1>8. RootCounted'
  <2>1. RsRoot' = RsRoot /\ RsRoot \in AllRanks
    BY ServerList DEF RsRoot, rangesrvs, get_rangesrvs
  <2>2. fl'[RsRoot] = IF RsRoot = r THEN x ELSE fl[RsRoot]
    BY <1>4, <2>1 DEF Goes
  <2>3. RootCounted /\ mpi' = mpi
    BY <1>1, <1>2 DEF Inside
  <2> QED BY <1>6, <2>1, <2>2, <2>3 DEF RootCounted, None
<1>9. FlType' /\ Inside'
  <2>1. fl[r].at \in Pre /\ x.at \in Pre
    BY <1>1, <1>6 DEF Pre
  <2> QED BY <1>1, <1>2, <1>3, <1>4, <1>5, <1>7, <1>8, <2>1, RankGoes
<1> QED
  BY <1>1, <1>3, <1>9, FrameStore

LEMMA FlushRsBarrier ==
  ASSUME FlushInv, RsBarrier
  PROVE  FlushInv' /\ StoreStep
<1> DEFINE next == [rs1 |-> "gather", rs2 |-> "gatherv"]
<1>1. /\ Frame /\ mdstats' = mdstats /\ failed' = failed /\ mpi' = mpi
      /\ \A s \in get_rangesrvs : fl[s].at \in {"rs1", "rs2"}
      /\ fl' = [t \in AllRanks |-> IF t \in get_rangesrvs THEN [fl[t] EXCEPT !.at = next[fl[t].at]] ELSE fl[t]]
  BY DEF RsBarrier, OnlyFlush, storeVars, Frame
<1>2. RsRoot \in get_rangesrvs /\ get_rangesrvs \subseteq AllRanks /\ RsRoot' = RsRoot
  BY ServerList DEF get_rangesrvs, RsRoot, rangesrvs
<1>3. FlType /\ MpiType /\ Inside
  BY <1>1, <1>2 DEF FlushInv, Outer, AllOut, At
<1>4. MpiType' /\ GivenRight' /\ UNCHANGED <<up, stat, parts>>
  BY <1>1, <1>3, MpiKept, GivenKept DEF Frame, Inside
<1>5. ASSUME NEW s \in get_rangesrvs
      PROVE  /\ s \notin failed
             /\ fl'[s] = [fl[s] EXCEPT !.at = next[fl[s].at]]
             /\ Rec(fl'[s]) /\ fl'[s].num = fl[s].num /\ fl'[s].size = fl[s].size /\ fl'[s].out = fl[s].out
             /\ \/ fl[s].at = "rs1" /\ fl'[s].at = "gather"
                \/ fl[s].at = "rs2" /\ fl'[s].at = "gatherv"
  <2>1. fl[s].at \in {"rs1", "rs2"} /\ Rec(fl[s]) /\ s \in AllRanks
    BY <1>1, <1>2, <1>3 DEF FlType
  <2>2. fl'[s] = [fl[s] EXCEPT !.at = next[fl[s].at]]
    BY <1>1, <2>1
  <2>3. next["rs1"] = "gather" /\ next["rs2"] = "gatherv"
    OBVIOUS
  <2> HIDE DEF next
  <2>4. s \notin failed
    BY <1>3, <2>1 DEF Inside, SamePart
  <2> QED BY <2>1, <2>2, <2>3, <2>4 DEF Rec
<1>6. \A t \in AllRanks \ get_rangesrvs : fl'[t] = fl[t]
  BY <1>1
<1>7. FlType'
  <2>1. fl' = [t \in AllRanks |-> fl'[t]]
    BY <1>1
  <2>2. \A t \in AllRanks : Rec(fl'[t])
    BY <1>3, <1>5, <1>6 DEF FlType
  <2> QED BY <2>1, <2>2 DEF FlType, Rec
<1> HIDE DEF next
<1>8. SamePart'
  <2>1. PICK Q \in {Pre, Mid, Post} : \A t \in AllRanks : t \in failed \/ fl[t].at \in Q
    BY <1>3 DEF Inside, SamePart
  <2>2. Q = Pre
    BY <1>1, <1>2, <1>5, <2>1 DEF Pre, Mid, Post
  <2>3. \A t \in AllRanks : t \in failed \/ fl'[t].at \in Pre
    <3> SUFFICES ASSUME NEW t \in AllRanks PROVE t \in failed \/ fl'[t].at \in Pre
      OBVIOUS
    <3>1. CASE t \in get_rangesrvs
      BY <1>5, <3>1 DEF Pre
    <3>2. CASE t \notin get_rangesrvs
      BY <1>6, <2>1, <2>2, <3>2
    <3> QED BY <3>1, <3>2
  <2>4. \A t \in AllRanks : t \in failed => fl'[t].at \in {"end", "lost"}
    BY <1>3, <1>5, <1>6 DEF Inside, SamePart
  <2> QED BY <1>1, <1>3, <1>4, <2>3, <2>4 DEF SamePart, Inside
<1>9. RanksHave'
  <2> SUFFICES ASSUME NEW t \in AllRanks PROVE Has(t, fl'[t])
    BY <1>4, HasKept DEF RanksHave
  <2>1. Has(t, fl[t])
    BY <1>3 DEF Inside, RanksHave
  <2>2. CASE t \in get_rangesrvs
    BY <1>5, <2>1, <2>2 DEF Has, ServerPlaces
  <2>3. CASE t \notin get_rangesrvs
    BY <1>6, <2>1, <2>3
  <2> QED BY <2>2, <2>3
<1>10. RootCounted'
  BY <1>1, <1>2, <1>3, <1>5 DEF RootCounted, Inside, None
<1> QED
  BY <1>1, <1>4, <1>7, <1>8, <1>9, <1>10, FrameStore DEF Inside

LEMMA RecSet ==
  ASSUME NEW f, Rec(f), NEW p, NEW a, NEW x,
         \/ x = [f EXCEPT !.at = p] \/ x = [f EXCEPT !.num = a, !.at = p]
         \/ x = [f EXCEPT !.out = a, !.at = p] \/ x = [f EXCEPT !.buf = a, !.at = p]
  PROVE  Rec(x)
BY DEF Rec

LEMMA FlushClientBarrier ==
  ASSUME FlushInv, ClientBarrier
  PROVE  FlushInv' /\ StoreStep
<1> DEFINE next == [cl1 |-> "bcast1", cl2 |-> "bcast2", end |-> "out"]
           allEnd == \A r \in AllRanks : At(r, "end")
<1>1. /\ Frame /\ mdstats' = mdstats
      /\ \A r \in AllRanks : fl[r].at \in {"cl1", "cl2", "end"}
      /\ mpi' = IF allEnd THEN NoGiven ELSE mpi
      /\ failed' = IF allEnd THEN {} ELSE failed
      /\ fl' = [r \in AllRanks |->
                 IF next[fl[r].at] # "out" THEN [fl[r] EXCEPT !.at = next[fl[r].at]]
                 ELSE [Outside EXCEPT !.at = IF r \in failed /\ ~allEnd THEN "lost" ELSE "out"]]
  BY DEF ClientBarrier, OnlyFlush, storeVars, Frame
<1>2. RsRoot \in AllRanks /\ RsRoot' = RsRoot /\ Writer \in AllRanks
  BY ServerList, CallsAssumption DEF get_rangesrvs, RsRoot, rangesrvs
<1>3. FlType /\ MpiType /\ Inside
  BY <1>1, <1>2 DEF FlushInv, Outer, AllOut, At
<1>4. next["cl1"] = "bcast1" /\ next["cl2"] = "bcast2" /\ next["end"] = "out"
  OBVIOUS
<1> HIDE DEF next, allEnd
<1>5. ASSUME NEW r \in AllRanks, fl[r].at \in {"cl1", "cl2"}
      PROVE  /\ Rec(fl'[r]) /\ fl'[r].num = fl[r].num /\ fl'[r].buf = fl[r].buf
             /\ \/ fl[r].at = "cl1" /\ fl'[r].at = "bcast1"
                \/ fl[r].at = "cl2" /\ fl'[r].at = "bcast2"
  <2>1. fl'[r] = [fl[r] EXCEPT !.at = next[fl[r].at]]
    BY <1>1, <1>4, <1>5
  <2>2. Rec(fl[r])
    BY <1>3 DEF FlType
  <2> QED BY <1>4, <1>5, <2>1, <2>2 DEF Rec
<1>6. ASSUME NEW r \in AllRanks, fl[r].at = "end"
      PROVE  Rec(fl'[r]) /\ fl'[r].at = IF r \in failed /\ ~allEnd THEN "lost" ELSE "out"
  <2>1. fl'[r] = [Outside EXCEPT !.at = IF r \in failed /\ ~allEnd THEN "lost" ELSE "out"]
    BY <1>1, <1>4, <1>6
  <2> QED BY <2>1 DEF Rec, Outside
<1>7. FlType'
  <2>1. fl' = [r \in AllRanks |-> fl'[r]]
    BY <1>1
  <2>2. \A r \in AllRanks : Rec(fl'[r])
    BY <1>1, <1>5, <1>6
  <2> QED BY <2>1, <2>2 DEF FlType, Rec
<1>8. CASE allEnd
  <2>1. \A r \in AllRanks : fl'[r].at = "out"
    BY <1>6, <1>8 DEF allEnd, At
  <2>2. Outer' /\ MpiType'
    BY <1>1, <1>8, <2>1 DEF Outer, AllOut, At, MpiType, NoGiven
  <2> QED BY <1>1, <1>7, <2>2, FrameStore
<1>9. CASE ~allEnd
  <2>1. mpi' = mpi /\ failed' = failed /\ UNCHANGED <<up, stat, parts>>
    BY <1>1, <1>9 DEF Frame
  <2>2. MpiType' /\ GivenRight'
    BY <1>3, <2>1, MpiKept, GivenKept DEF Inside
  <2>3. PICK Q \in {Pre, Mid, Post} : \A t \in AllRanks : t \in failed \/ fl[t].at \in Q
    BY <1>3 DEF Inside, SamePart
  <2>4. \A t \in AllRanks : t \in failed => fl[t].at = "end"
    BY <1>1, <1>3 DEF Inside, SamePart
  <2>5. Q = Pre \/ Q = Mid
    <3> SUFFICES ASSUME Q = Post PROVE FALSE
      BY <2>3
    <3>1. \A t \in AllRanks : fl[t].at = "end"
      BY <1>1, <2>3, <2>4 DEF Post
    <3> QED BY <1>9, <3>1 DEF allEnd, At
  <2>6. \A t \in AllRanks : t \in failed => fl'[t].at \in {"end", "lost"}
    BY <1>6, <1>9, <2>4
  <2>7. SamePart'
    <3>1. CASE Q = Pre
      <4>1. \A t \in AllRanks : t \in failed \/ fl'[t].at \in Mid
        BY <1>1, <1>5, <2>3, <3>1 DEF Pre, Mid
      <4> QED BY <1>3, <2>1, <2>6, <4>1 DEF SamePart, Inside
    <3>2. CASE Q = Mid
      <4>1. \A t \in AllRanks : t \in failed \/ fl'[t].at \in Post
        BY <1>1, <1>5, <2>3, <3>2 DEF Mid, Post
      <4> QED BY <1>3, <2>1, <2>6, <4>1 DEF SamePart, Inside
    <3> QED BY <2>5, <3>1, <3>2
  <2>8. RanksHave'
    <3> SUFFICES ASSUME NEW t \in AllRanks PROVE Has(t, fl'[t])
      BY <2>1, HasKept DEF RanksHave
    <3>1. Has(t, fl[t])
      BY <1>3 DEF Inside, RanksHave
    <3>2. CASE fl[t].at \in {"cl1", "cl2"}
      <4>1. CASE fl[t].at = "cl1"
        BY <1>5, <3>1, <4>1 DEF Has, ServerPlaces
      <4>2. CASE fl[t].at = "cl2"
        BY <1>5, <3>1, <4>2 DEF Has, ServerPlaces
      <4> QED BY <3>2, <4>1, <4>2
    <3>3. CASE fl[t].at = "end"
      BY <1>6, <3>3 DEF Has, ServerPlaces
    <3> QED BY <1>1, <3>2, <3>3
  <2>9. RootCounted'
    <3>1. fl'[RsRoot].at \notin {"pack", "rs2", "gatherv"}
      <4>1. CASE fl[RsRoot].at \in {"cl1", "cl2"}
        BY <1>2, <1>5, <4>1
      <4>2. CASE fl[RsRoot].at = "end"
        BY <1>2, <1>6, <4>2
      <4> QED BY <1>1, <1>2, <4>1, <4>2
    <3> QED BY <1>2, <3>1 DEF RootCounted
  <2> QED BY <1>1, <1>7, <2>2, <2>7, <2>8, <2>9, FrameStore DEF Inside
<1> QED
  BY <1>8, <1>9

LEMMA FlushGather ==
  ASSUME FlushInv, NEW s \in AllRanks, Gather(s)
  PROVE  FlushInv' /\ StoreStep
<1>1. Frame /\ mdstats' = mdstats /\ failed' = failed /\ fl[s].at = "gather"
  BY DEF Gather, At, OnlyFlush, storeVars, Frame
<1>2. FlType /\ MpiType /\ Inside /\ s \notin failed /\ StatFits
  BY <1>1, OnItsWay DEF FlushInv
<1>3. UNCHANGED <<up, stat, parts>> /\ RsRoot' = RsRoot /\ RsRoot \in AllRanks /\ RsRoot \in get_rangesrvs
  BY <1>1, ServerList DEF Frame, RsRoot, rangesrvs, get_rangesrvs
<1>4. s \in get_rangesrvs /\ fl[s].size = Count(s) /\ fl[s].num = Count(s)
  BY <1>1, <1>2 DEF Inside, RanksHave, Has, ServerPlaces
<1>5. fl[s].at \in Pre /\ "pack" \in Pre
  BY <1>1 DEF Pre
<1>6. Rec(fl[s])
  BY <1>2 DEF FlType
<1>7. CASE s = RsRoot
  <2>1. \A t \in get_rangesrvs \ {s} : mpi.counts[t] # None
    BY <1>7 DEF Gather
  <2>2. \A t \in get_rangesrvs : CountOf(t) = Count(t)
    <3> SUFFICES ASSUME NEW t \in get_rangesrvs PROVE CountOf(t) = Count(t)
      OBVIOUS
    <3>1. CASE t = RsRoot
      BY <1>4, <1>7, <3>1 DEF CountOf
    <3>2. CASE t # RsRoot
      <4>1. mpi.counts[t] = <<Count(t)>>
        BY <1>2, <1>7, <2>1, <3>2 DEF Inside, GivenRight
      <4> QED BY <3>2, <4>1 DEF CountOf
    <3> QED BY <3>1, <3>2
  <2>3. IsOffsets(Displs)
    BY <1>2, <2>2, ServerList, DisplsIs
  <2>4. Displs[Len(rangesrvs) + 1] = Total
    BY <1>2, <2>3, OffsetsTotal
  <2> DEFINE x == [fl[s] EXCEPT !.num = Displs[Len(rangesrvs) + 1], !.at = "pack"]
  <2>5. Goes(s, x)
    BY <1>2, <1>7 DEF Gather, Goes, FlType
  <2>6. Rec(x) /\ x.at = "pack" /\ x.num = Total /\ x.size = Count(s)
    <3>1. Rec(x)
      BY <1>6, RecSet
    <3>2. x.at = "pack" /\ x.num = Total /\ x.size = Count(s)
      BY <1>4, <1>6, <2>4 DEF Rec
    <3> QED BY <3>1, <3>2
  <2> HIDE DEF x
  <2>7. Has(s, x)
    BY <1>4, <2>6 DEF Has, ServerPlaces
  <2>8. mpi' = mpi
    BY <1>7 DEF Gather
  <2>9. MpiType' /\ GivenRight'
    BY <1>2, <1>3, <2>8, MpiKept, GivenKept DEF Inside
  <2>10. RootCounted'
    BY <1>3, <1>7, <2>1, <2>8 DEF RootCounted, None
  <2>11. FlType' /\ Inside'
    BY <1>1, <1>2, <1>3, <1>5, <2>5, <2>6, <2>7, <2>9, <2>10, RankGoes
  <2> QED BY <1>1, <2>9, <2>11, FrameStore
<1>8. CASE s # RsRoot
  <2> DEFINE x == [fl[s] EXCEPT !.num = 0, !.at = "pack"]
  <2>1. Goes(s, x)
    BY <1>2, <1>8 DEF Gather, Goes, FlType
  <2>2. Rec(x) /\ x.at = "pack" /\ x.size = Count(s)
    <3>1. Rec(x)
      BY <1>6, RecSet
    <3>2. x.at = "pack" /\ x.size = Count(s)
      BY <1>4, <1>6 DEF Rec
    <3> QED BY <3>1, <3>2
  <2> HIDE DEF x
  <2>3. Has(s, x)
    BY <1>4, <1>8, <2>2 DEF Has, ServerPlaces
  <2>4. mpi' = [mpi EXCEPT !.counts[s] = <<fl[s].num>>]
    BY <1>8 DEF Gather
  <2>5. /\ MpiType' /\ mpi'.packed = mpi.packed /\ mpi'.num = mpi.num /\ mpi'.buf = mpi.buf
        /\ mpi'.counts = [t \in get_rangesrvs |-> IF t = s THEN <<Count(s)>> ELSE mpi.counts[t]]
    BY <1>2, <1>4, <2>4 DEF MpiType
  <2>6. GivenRight'
    <3>1. \A t \in get_rangesrvs : mpi'.counts[t] # None => mpi'.counts[t] = <<Count(t)>>
      BY <1>2, <2>5 DEF Inside, GivenRight
    <3> QED BY <1>2, <1>3, <2>5, <3>1, StatKept DEF Inside, GivenRight, None
  <2>7. RootCounted'
    <3>1. fl'[RsRoot] = fl[RsRoot]
      BY <1>3, <1>8, <2>1 DEF Goes
    <3>2. <<Count(s)>> # None
      BY DEF None
    <3>3. \A t \in get_rangesrvs : mpi.counts[t] # None => mpi'.counts[t] # None
      BY <2>5, <3>2
    <3> QED BY <1>2, <1>3, <3>1, <3>3 DEF RootCounted, Inside, None
  <2>8. FlType' /\ Inside'
    BY <1>1, <1>2, <1>3, <1>5, <2>1, <2>2, <2>3, <2>6, <2>7, RankGoes
  <2> QED BY <1>1, <2>5, <2>8, FrameStore
<1> QED
  BY <1>7, <1>8

LEMMA FlushPack ==
  ASSUME FlushInv, NEW s \in AllRanks, Pack(s)
  PROVE  FlushInv' /\ StoreStep
<1>1. fl[s].at = "pack"
  BY DEF Pack, At
<1>2. FlType /\ MpiType /\ Inside /\ s \notin failed /\ StatFits
  BY <1>1, OnItsWay DEF FlushInv
<1>3. s \in get_rangesrvs /\ fl[s].size = Count(s) /\ Has(s, fl[s])
  BY <1>1, <1>2 DEF Inside, RanksHave, Has, ServerPlaces
<1>4. ~(Cardinality(Hash(s)) > fl[s].size)
  BY <1>2, <1>3, HashFinite DEF Count
<1> DEFINE out == SetToSeq({[slice |-> q, stat |-> stat[q]] : q \in Hash(s)})
           x == [fl[s] EXCEPT !.out = out, !.at = "rs2"]
<1>5. /\ fl' = [fl EXCEPT ![s].out = out, ![s].at = "rs2"]
      /\ UNCHANGED <<mdstats, mpi, failed>> /\ Frame
  BY <1>4 DEF Pack, OnlyFlush, storeVars, Frame
<1>6. out = StatsOf(s)
  BY DEF StatsOf, ItemsOf
<1> HIDE DEF out
<1>7. Goes(s, x)
  BY <1>2, <1>5 DEF Goes, FlType
<1>8. Rec(x) /\ x.at = "rs2" /\ x.size = Count(s) /\ x.out = StatsOf(s) /\ x.num = fl[s].num
  <2>1. Rec(fl[s])
    BY <1>2 DEF FlType
  <2>2. Rec(x)
    BY <2>1, RecSet
  <2>3. x.at = "rs2" /\ x.size = Count(s) /\ x.out = StatsOf(s) /\ x.num = fl[s].num
    BY <1>3, <1>6, <2>1 DEF Rec
  <2> QED BY <2>2, <2>3
<1> HIDE DEF x
<1>9. Has(s, x)
  BY <1>1, <1>3, <1>8 DEF Has, ServerPlaces
<1>10. UNCHANGED <<up, stat, parts>> /\ MpiType' /\ GivenRight'
  BY <1>2, <1>5, MpiKept, GivenKept DEF Frame, Inside
<1>11. RootCounted'
  <2>1. RsRoot' = RsRoot /\ RsRoot \in AllRanks
    BY ServerList DEF RsRoot, rangesrvs, get_rangesrvs
  <2>2. fl'[RsRoot] = IF RsRoot = s THEN x ELSE fl[RsRoot]
    BY <1>7, <2>1 DEF Goes
  <2> QED BY <1>1, <1>2, <1>5, <1>8, <2>1, <2>2 DEF RootCounted, Inside, None
<1>12. FlType' /\ Inside'
  <2>1. fl[s].at \in Pre /\ x.at \in Pre
    BY <1>1, <1>8 DEF Pre
  <2> QED BY <1>2, <1>5, <1>7, <1>8, <1>9, <1>10, <1>11, <2>1, RankGoes
<1> QED
  BY <1>5, <1>10, <1>12, FrameStore

LEMMA MasterRank ==
  /\ RsRoot' = RsRoot /\ RsRoot \in AllRanks /\ RsRoot \in get_rangesrvs
  /\ RsRoot = rangesrv_master
BY ServerList DEF RsRoot, rangesrvs, get_rangesrvs

LEMMA FlushGatherv ==
  ASSUME FlushInv, NEW s \in AllRanks, Gatherv(s)
  PROVE  FlushInv' /\ StoreStep
<1>1. Frame /\ mdstats' = mdstats /\ failed' = failed /\ fl[s].at = "gatherv"
  BY DEF Gatherv, At, OnlyFlush, storeVars, Frame
<1>2. FlType /\ MpiType /\ Inside /\ s \notin failed /\ StatFits /\ UNCHANGED <<up, stat, parts>>
  BY <1>1, OnItsWay DEF FlushInv, Frame
<1>3. /\ s \in get_rangesrvs /\ fl[s].size = Count(s) /\ fl[s].out = StatsOf(s)
      /\ s = RsRoot => fl[s].num = Total
  BY <1>1, <1>2 DEF Inside, RanksHave, Has, ServerPlaces
<1>4. fl[s].at \in Pre /\ "cl1" \in Pre /\ Rec(fl[s])
  BY <1>1, <1>2 DEF Pre, FlType
<1>5. ASSUME NEW x, Goes(s, x), x.at = "cl1", mpi'.counts = mpi.counts PROVE RootCounted'
  <2>1. fl'[RsRoot] = IF RsRoot = s THEN x ELSE fl[RsRoot]
    BY <1>5, MasterRank DEF Goes
  <2> QED BY <1>2, <1>5, <2>1, MasterRank DEF RootCounted, Inside, None
<1>6. CASE s = RsRoot
  <2>1. \A t \in get_rangesrvs \ {s} : mpi.packed[t] # None /\ mpi.counts[t] # None
    BY <1>1, <1>2, <1>6 DEF Gatherv, Inside, RootCounted
  <2>2. \A t \in get_rangesrvs : CountOf(t) = Count(t)
    <3> SUFFICES ASSUME NEW t \in get_rangesrvs PROVE CountOf(t) = Count(t)
      OBVIOUS
    <3>1. CASE t = RsRoot
      BY <1>3, <1>6, <3>1 DEF CountOf
    <3>2. CASE t # RsRoot
      <4>1. mpi.counts[t] = <<Count(t)>>
        BY <1>2, <1>6, <2>1, <3>2 DEF Inside, GivenRight
      <4> QED BY <3>2, <4>1 DEF CountOf
    <3> QED BY <3>1, <3>2
  <2>3. IsOffsets(Displs)
    BY <1>2, <2>2, ServerList, DisplsIs
  <2>4. \A t \in get_rangesrvs \ {RsRoot} : mpi.packed[t] = <<StatsOf(t)>>
    BY <1>2, <1>6, <2>1 DEF Inside, GivenRight
  <2>5. Whole(Gathered(Total))
    BY <1>2, <1>3, <1>6, <2>3, <2>4, GatheredWhole
  <2> DEFINE b == IF s = rangesrv_master THEN Gathered(fl[s].num) ELSE <<>>
             x == [fl[s] EXCEPT !.buf = b, !.at = "cl1"]
  <2>6. fl' = [fl EXCEPT ![s].buf = b, ![s].at = "cl1"] /\ mpi' = mpi
    BY <1>6 DEF Gatherv
  <2>7. Whole(b)
    BY <1>3, <1>6, <2>5, MasterRank
  <2> HIDE DEF b
  <2>8. Goes(s, x)
    BY <1>2, <2>6 DEF Goes, FlType
  <2>9. Rec(x)
    BY <1>4, RecSet
  <2>10. x.at = "cl1" /\ x.num = Total /\ x.buf = b
    BY <1>3, <1>4, <1>6 DEF Rec
  <2> HIDE DEF x
  <2>11. Has(s, x)
    BY <2>7, <2>10 DEF Has, ServerPlaces
  <2>12. MpiType' /\ GivenRight' /\ RootCounted'
    BY <1>2, <1>5, <2>6, <2>8, <2>10, MpiKept, GivenKept DEF Inside
  <2>13. FlType' /\ Inside'
    BY <1>1, <1>2, <1>4, <2>8, <2>9, <2>10, <2>11, <2>12, RankGoes
  <2> QED BY <1>1, <2>12, <2>13, FrameStore
<1>7. CASE s # RsRoot
  <2> DEFINE x == [fl[s] EXCEPT !.at = "cl1"]
  <2>1. Goes(s, x)
    BY <1>2, <1>7 DEF Gatherv, Move, Goes, FlType
  <2>2. Rec(x)
    BY <1>4, RecSet
  <2>3. x.at = "cl1"
    BY <1>4 DEF Rec
  <2> HIDE DEF x
  <2>4. Has(s, x)
    BY <1>7, <2>3 DEF Has, ServerPlaces
  <2>5. mpi' = [mpi EXCEPT !.packed[s] = <<fl[s].out>>]
    BY <1>7 DEF Gatherv
  <2>6. /\ MpiType' /\ mpi'.counts = mpi.counts /\ mpi'.num = mpi.num /\ mpi'.buf = mpi.buf
        /\ mpi'.packed = [t \in get_rangesrvs |-> IF t = s THEN <<StatsOf(s)>> ELSE mpi.packed[t]]
    BY <1>2, <1>3, <2>5 DEF MpiType
  <2>7. GivenRight'
    <3>1. \A t \in get_rangesrvs : mpi'.packed[t] # None => mpi'.packed[t] = <<StatsOf(t)>>
      BY <1>2, <2>6 DEF Inside, GivenRight
    <3> QED BY <1>2, <2>6, <3>1, StatKept DEF Inside, GivenRight, None
  <2>8. RootCounted'
    BY <1>5, <2>1, <2>3, <2>6
  <2>9. FlType' /\ Inside'
    BY <1>1, <1>2, <1>4, <2>1, <2>2, <2>3, <2>4, <2>7, <2>8, RankGoes
  <2> QED BY <1>1, <2>6, <2>9, FrameStore
<1> QED
  BY <1>6, <1>7

LEMMA FlushBcast1 ==
  ASSUME FlushInv, NEW r \in AllRanks, Bcast1(r)
  PROVE  FlushInv' /\ StoreStep
<1>1. Frame /\ mdstats' = mdstats /\ failed' = failed /\ fl[r].at = "bcast1"
  BY DEF Bcast1, At, OnlyFlush, storeVars, Frame
<1>2. FlType /\ MpiType /\ Inside /\ r \notin failed /\ UNCHANGED <<up, stat, parts>>
  BY <1>1, OnItsWay DEF FlushInv, Frame
<1>3. r = RsRoot => fl[r].num = Total /\ Whole(fl[r].buf)
  BY <1>1, <1>2 DEF Inside, RanksHave, Has
<1>4. fl[r].at \in Mid /\ "cl2" \in Mid /\ Rec(fl[r])
  BY <1>1, <1>2 DEF Mid, FlType
<1>5. ASSUME NEW x, Goes(r, x), x.at = "cl2", mpi'.counts = mpi.counts PROVE RootCounted'
  <2>1. fl'[RsRoot] = IF RsRoot = r THEN x ELSE fl[RsRoot]
    BY <1>5, MasterRank DEF Goes
  <2> QED BY <1>2, <1>5, <2>1, MasterRank DEF RootCounted, Inside, None
<1>6. CASE r = rangesrv_master
  <2> DEFINE x == [fl[r] EXCEPT !.at = "cl2"]
  <2>1. Goes(r, x)
    BY <1>2, <1>6 DEF Bcast1, Move, Goes, FlType
  <2>2. Rec(x)
    BY <1>4, RecSet
  <2>3. x.at = "cl2" /\ x.num = fl[r].num /\ x.buf = fl[r].buf
    BY <1>4 DEF Rec
  <2> HIDE DEF x
  <2>4. Has(r, x)
    BY <1>3, <1>6, <2>3, MasterRank DEF Has, ServerPlaces
  <2>5. mpi' = [mpi EXCEPT !.num = <<fl[r].num>>]
    BY <1>6 DEF Bcast1
  <2>6. /\ MpiType' /\ mpi'.counts = mpi.counts /\ mpi'.packed = mpi.packed /\ mpi'.buf = mpi.buf
        /\ mpi'.num = <<Total>>
    BY <1>2, <1>3, <1>6, <2>5, MasterRank DEF MpiType
  <2>7. GivenRight'
    BY <1>2, <2>6, StatKept DEF Inside, GivenRight, None
  <2>8. FlType' /\ Inside'
    BY <1>1, <1>2, <1>4, <1>5, <2>1, <2>2, <2>3, <2>4, <2>6, <2>7, RankGoes
  <2> QED BY <1>1, <2>6, <2>8, FrameStore
<1>7. CASE r # rangesrv_master
  <2> DEFINE n == mpi.num[1]
             x == [fl[r] EXCEPT !.num = n, !.at = "cl2"]
  <2>1. fl' = [fl EXCEPT ![r].num = n, ![r].at = "cl2"] /\ mpi' = mpi /\ mpi.num # None
    BY <1>7 DEF Bcast1
  <2>2. n = Total
    BY <1>2, <2>1 DEF Inside, GivenRight
  <2> HIDE DEF n
  <2>3. Goes(r, x)
    BY <1>2, <2>1 DEF Goes, FlType
  <2>4. Rec(x)
    BY <1>4, RecSet
  <2>5. x.at = "cl2" /\ x.num = Total
    BY <1>4, <2>2 DEF Rec
  <2> HIDE DEF x
  <2>6. Has(r, x)
    BY <1>7, <2>5, MasterRank DEF Has, ServerPlaces
  <2>7. MpiType' /\ GivenRight' /\ RootCounted'
    BY <1>2, <1>5, <2>1, <2>3, <2>5, MpiKept, GivenKept DEF Inside
  <2>8. FlType' /\ Inside'
    BY <1>1, <1>2, <1>4, <2>3, <2>4, <2>5, <2>6, <2>7, RankGoes
  <2> QED BY <1>1, <2>7, <2>8, FrameStore
<1> QED
  BY <1>6, <1>7

(* With the whole buffer every rank merges all statistics into its own. *)
LEMMA FlushBcast2 ==
  ASSUME FlushInv, NEW r \in AllRanks, Bcast2(r)
  PROVE  FlushInv' /\ StoreStep
<1> DEFINE root == r = rangesrv_master
           b == IF root THEN fl[r].buf ELSE SubSeq(mpi.buf[1], 1, fl[r].num)
           x == [fl[r] EXCEPT !.at = "end"]
<1>1. /\ Frame /\ failed' = failed /\ fl[r].at = "bcast2" /\ (root \/ mpi.buf # None)
      /\ mpi' = IF root THEN [mpi EXCEPT !.buf = <<fl[r].buf>>] ELSE mpi
      /\ mdstats' = [mdstats EXCEPT ![r] = View(r)!Merge(Unpacked(b), mdstats[r])]
      /\ fl' = [fl EXCEPT ![r].at = "end"]
  BY DEF Bcast2, Move, At, OnlyFlush, storeVars, Frame
<1>2. FlType /\ MpiType /\ Inside /\ r \notin failed /\ UNCHANGED <<up, stat, parts>>
  BY <1>1, OnItsWay DEF FlushInv, Frame
<1>3. fl[r].num = Total /\ (r = RsRoot => Whole(fl[r].buf))
  BY <1>1, <1>2 DEF Inside, RanksHave, Has
<1>4. fl[r].at \in Post /\ "end" \in Post /\ Rec(fl[r])
  BY <1>1, <1>2 DEF Post, FlType
<1>5. Unpacked(b) = stat
  <2>1. CASE root
    BY <1>3, <2>1, MasterRank DEF Whole
  <2>2. CASE ~root
    <3>1. Whole(mpi.buf[1])
      BY <1>1, <1>2, <2>2 DEF Inside, GivenRight
    <3>2. SubSeq(mpi.buf[1], 1, Total) = mpi.buf[1]
      BY <3>1, SubSeqFull DEF Whole
    <3> QED BY <1>3, <2>2, <3>1, <3>2 DEF Whole
  <2> QED BY <2>1, <2>2
<1> HIDE DEF b
<1>6. Goes(r, x)
  BY <1>1, <1>2 DEF Goes, FlType
<1>7. Rec(x)
  BY <1>4, RecSet
<1>8. x.at = "end"
  BY <1>4 DEF Rec
<1> HIDE DEF x
<1>9. Has(r, x)
  BY <1>8 DEF Has, ServerPlaces
<1>10. MpiType' /\ GivenRight' /\ mpi'.counts = mpi.counts
  <2>1. CASE root
    <3>1. mpi' = [mpi EXCEPT !.buf = <<fl[r].buf>>] /\ Whole(fl[r].buf)
      BY <1>1, <1>3, <2>1, MasterRank
    <3>2. /\ MpiType' /\ mpi'.counts = mpi.counts /\ mpi'.packed = mpi.packed /\ mpi'.num = mpi.num
          /\ mpi'.buf = <<fl[r].buf>>
      BY <1>2, <3>1 DEF MpiType
    <3>3. mpi'.buf[1] = fl[r].buf
      BY <3>2
    <3>4. \A q : Whole(q)' <=> Whole(q)
      BY <1>2, StatKept
    <3>5. GivenRight'
      BY <1>2, <3>1, <3>2, <3>3, <3>4, StatKept DEF Inside, GivenRight, None
    <3> QED BY <3>2, <3>5
  <2>2. CASE ~root
    BY <1>1, <1>2, <2>2, MpiKept, GivenKept DEF Inside
  <2> QED BY <2>1, <2>2
<1>11. RootCounted'
  <2>1. fl'[RsRoot] = IF RsRoot = r THEN x ELSE fl[RsRoot]
    BY <1>6, MasterRank DEF Goes
  <2> QED BY <1>2, <1>8, <1>10, <2>1, MasterRank DEF RootCounted, Inside, None
<1>12. FlType' /\ Inside'
  BY <1>1, <1>2, <1>4, <1>6, <1>7, <1>8, <1>9, <1>10, <1>11, RankGoes
<1>13. /\ mdstats' = [t \in AllRanks |-> mdstats'[t]]
       /\ mdstats'[r] = View(r)!Merge(stat, mdstats[r])
       /\ \A t \in AllRanks \ {r} : mdstats'[t] = mdstats[t]
  <2>1. mdstats = [t \in AllRanks |-> mdstats[t]]
    BY DEF FlushInv
  <2>2. mdstats' = [mdstats EXCEPT ![r] = View(r)!Merge(stat, mdstats[r])]
    BY <1>1, <1>5
  <2> QED BY <2>1, <2>2
<1>14. up
  BY <1>2 DEF Inside, SamePart
<1>15. StoreStep
  BY <1>1, <1>13, <1>14, StoreFlush DEF Frame
<1>16. StatFits' /\ MapFits(sdb)' /\ PartsListed'
  BY <1>1 DEF Frame, FlushInv, StatFits, MapFits, PartsListed
<1> QED
  BY <1>1, <1>2, <1>10, <1>12, <1>13, <1>14, <1>15, <1>16 DEF FlushInv

(* A rank whose MPI call fails leaves with what the others have untouched. *)
LEMMA FlushError ==
  ASSUME FlushInv, NEW r \in AllRanks, MpiError(r)
  PROVE  FlushInv' /\ StoreStep
<1> DEFINE x == [fl[r] EXCEPT !.at = "end"]
<1>1. /\ Frame /\ mdstats' = mdstats /\ mpi' = mpi /\ failed' = failed \cup {r}
      /\ fl' = [fl EXCEPT ![r].at = "end"]
      /\ fl[r].at \in {"gather", "pack", "gatherv", "bcast1", "bcast2"}
  BY DEF MpiError, Fail, Move, OnlyFlush, storeVars, Frame
<1>2. FlType /\ MpiType /\ Inside /\ r \notin failed /\ UNCHANGED <<up, stat, parts>>
  BY <1>1, OnItsWay DEF FlushInv, Frame
<1>3. Rec(fl[r])
  BY <1>2 DEF FlType
<1>4. Goes(r, x)
  BY <1>1, <1>2 DEF Goes, FlType
<1>5. Rec(x) /\ x.at = "end"
  <2>1. Rec(x)
    BY <1>3, RecSet
  <2>2. x.at = "end"
    BY <1>3 DEF Rec
  <2> QED BY <2>1, <2>2
<1> HIDE DEF x
<1>6. /\ fl'[r] = x /\ \A t \in AllRanks \ {r} : fl'[t] = fl[t]
      /\ fl' = [t \in AllRanks |-> fl'[t]]
  BY <1>4 DEF Goes
<1>7. FlType'
  BY <1>2, <1>5, <1>6 DEF FlType, Rec
<1>8. MpiType' /\ GivenRight'
  BY <1>1, <1>2, MpiKept, GivenKept DEF Inside
<1>9. RanksHave'
  <2>1. Has(r, x)
    BY <1>5 DEF Has, ServerPlaces
  <2> QED BY <1>2, <1>6, <2>1, HasKept DEF RanksHave, Inside
<1>10. RootCounted'
  BY <1>1, <1>2, <1>5, <1>6, MasterRank DEF RootCounted, Inside, None
<1>11. SamePart'
  <2>1. PICK Q \in {Pre, Mid, Post} : \A t \in AllRanks : t \in failed \/ fl[t].at \in Q
    BY <1>2 DEF Inside, SamePart
  <2>2. \A t \in AllRanks : t \in failed' \/ fl'[t].at \in Q
    BY <1>1, <1>6, <2>1
  <2>3. \A t \in AllRanks : t \in failed' => fl'[t].at \in {"end", "lost"}
    BY <1>1, <1>2, <1>5, <1>6 DEF Inside, SamePart
  <2> QED BY <1>2, <2>2, <2>3 DEF SamePart, Inside, Pre, Mid, Post
<1> QED
  BY <1>1, <1>7, <1>8, <1>9, <1>10, <1>11, FrameStore DEF Inside

LEMMA FlushNext ==
  ASSUME FlushInv, [Next]_vars
  PROVE  FlushInv' /\ StoreStep
<1>1. CASE \/ \E list \in PutLists : mdhimBPut(list)
           \/ \E list \in KeyLists : mdhimBDelete(list)
  BY <1>1, FlushCall
<1>2. CASE \E m \in parts : Handle(m)
  BY <1>2, FlushHandle
<1>3. CASE FlushBarrier
  BY <1>3, FlushStarts
<1>4. CASE FlushStep
  <2>1. CASE RsBarrier
    BY <2>1, FlushRsBarrier
  <2>2. CASE ClientBarrier
    BY <2>2, FlushClientBarrier
  <2>3. CASE \E r \in AllRanks : Start(r)
    BY <2>3, FlushStart
  <2>4. CASE \E r \in AllRanks : Gather(r)
    BY <2>4, FlushGather
  <2>5. CASE \E r \in AllRanks : Pack(r)
    BY <2>5, FlushPack
  <2>6. CASE \E r \in AllRanks : Gatherv(r)
    BY <2>6, FlushGatherv
  <2>7. CASE \E r \in AllRanks : Bcast1(r)
    BY <2>7, FlushBcast1
  <2>8. CASE \E r \in AllRanks : Bcast2(r)
    BY <2>8, FlushBcast2
  <2> QED BY <1>4, <2>1, <2>2, <2>3, <2>4, <2>5, <2>6, <2>7, <2>8 DEF FlushStep
<1>5. CASE \E r \in AllRanks : MpiError(r)
  BY <1>5, FlushError
<1>6. CASE mdhimClose \/ Crash \/ mdhimInit
  BY <1>6, FlushJob
<1>7. CASE UNCHANGED vars
  <2>1. Frame /\ UNCHANGED <<mdstats, fl, mpi, failed>>
    BY <1>7 DEF vars, storeVars, Frame
  <2>2. FlType' /\ MpiType'
    BY <2>1, MpiKept DEF FlushInv, FlType, Rec
  <2>3. Outer => Outer'
    BY <2>1 DEF Outer, AllOut, At
  <2>4. Inside => Inside'
    <3> SUFFICES ASSUME Inside PROVE Inside'
      OBVIOUS
    <3>1. SamePart' /\ RootCounted'
      BY <2>1, MasterRank DEF Inside, SamePart, RootCounted, Frame, None
    <3>2. RanksHave'
      BY <2>1, HasKept DEF Inside, RanksHave, Frame
    <3>3. GivenRight'
      BY <2>1, GivenKept DEF Inside, Frame
    <3> QED BY <3>1, <3>2, <3>3 DEF Inside
  <2> QED BY <2>1, <2>2, <2>3, <2>4, FrameStore DEF FlushInv
<1> QED
  BY <1>1, <1>2, <1>3, <1>4, <1>5, <1>6, <1>7 DEF Next

(* mdhimStatFlush is, for every rank, the one step of RangeStore: between    *)
(* the barriers and collectives no statistic is lost, moved or taken from    *)
(* before a later put, for any number of ranks and servers, whatever the     *)
(* bulk calls, and also when MPI calls fail or the job crashes or ends.      *)
THEOREM FlushAtomic == Spec => FlushIsAtomic
<1>1. Init => \A r \in AllRanks : View(r)!Init
  BY DEF Init, View!Init, View!Nothing, Nothing
<1>2. FlushInv /\ [Next]_vars => FlushInv' /\ StoreStep
  BY FlushNext
<1>3. StoreStep => [\A r \in AllRanks : UNCHANGED View(r)!vars \/ View(r)!Next]_vars
  BY DEF StoreStep
<1> QED
  BY <1>1, <1>2, <1>3, FlushInit, PTL DEF Spec, FlushIsAtomic
=============================================================================
