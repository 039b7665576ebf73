------------------------- MODULE RangeStore_proofs -------------------------
(***************************************************************************)
(* Proofs about RangeStore, for every key type, every set of keys, every   *)
(* list of records and every size of the job.                              *)
(***************************************************************************)
EXTENDS RangeStore, Partitioner_proofs

-----------------------------------------------------------------------------
(* Maps. *)

MapsTo(A, B) == UNION {[D -> B] : D \in SUBSET A}

LEMMA MapSet ==
  ASSUME NEW A, NEW B, NEW f
  PROVE  IsMap(f, A, B) <=> f \in MapsTo(A, B)
<1>1. ASSUME IsMap(f, A, B) PROVE f \in MapsTo(A, B)
  BY <1>1 DEF IsMap, MapsTo
<1>2. ASSUME f \in MapsTo(A, B) PROVE IsMap(f, A, B)
  <2>1. PICK D \in SUBSET A : f \in [D -> B]
    BY <1>2 DEF MapsTo
  <2> QED BY <2>1 DEF IsMap
<1> QED
  BY <1>1, <1>2

LEMMA MergeMap ==
  ASSUME NEW A, NEW B, NEW f, NEW g, IsMap(f, A, B), IsMap(g, A, B)
  PROVE  IsMap(Merge(f, g), A, B)
BY DEF IsMap, Merge

LEMMA NothingMap ==
  ASSUME NEW A, NEW B
  PROVE  IsMap(Nothing, A, B)
BY DEF IsMap, Nothing

(* A part of a map. *)
LEMMA PartMap ==
  ASSUME NEW A, NEW B, NEW f, IsMap(f, A, B), NEW D, D \subseteq DOMAIN f
  PROVE  IsMap([x \in D |-> f[x]], A, B)
BY DEF IsMap

-----------------------------------------------------------------------------
(* Batches. *)

LEMMA BatchType ==
  ASSUME NEW batch \in Batches
  PROVE  /\ Len(batch) \in Nat /\ DOMAIN batch = 1 .. Len(batch)
         /\ IsFiniteSet(DOMAIN batch) /\ DOMAIN batch \subseteq Nat
         /\ \A i \in DOMAIN batch : /\ batch[i].key \in Keys /\ batch[i].key \in Keyed
                                    /\ batch[i].val \in Seq(Nat)
<1>1. batch \in Seq([key : Keys, val : Seq(Nat)])
  BY StoreAssumption
<1>2. Len(batch) \in Nat /\ DOMAIN batch = 1 .. Len(batch)
  BY <1>1
<1>3. \A i \in DOMAIN batch : batch[i] \in [key : Keys, val : Seq(Nat)]
  <2> DEFINE R == [key : Keys, val : Seq(Nat)]
  <2> HIDE DEF R
  <2>1. batch \in Seq(R)
    BY <1>1 DEF R
  <2>2. \A i \in DOMAIN batch : batch[i] \in R
    BY <2>1
  <2> QED BY <2>2 DEF R
<1>4. IsFiniteSet(DOMAIN batch)
  BY <1>2, FS_Interval
<1> QED
  BY <1>2, <1>3, <1>4, StoreAssumption

(* The records of a batch that are written have a valid key. *)
LEMMA OneServerValid ==
  ASSUME NEW ks, ks \subseteq Keyed, OneServer(ks)
  PROVE  \A k \in ks : verify_key(k)
BY ServerOfKey DEF OneServer

LEMMA LastType ==
  ASSUME NEW batch \in Batches, NEW i \in DOMAIN batch
  PROVE  LET m == Max({j \in DOMAIN batch : batch[j].key = batch[i].key})
         IN /\ m \in DOMAIN batch /\ batch[m].key = batch[i].key
            /\ \A j \in DOMAIN batch : batch[j].key = batch[i].key => j <= m
<1> DEFINE S == {j \in DOMAIN batch : batch[j].key = batch[i].key}
<1>1. S \subseteq Int /\ S # {} /\ S \in SUBSET DOMAIN batch
  BY BatchType
<1>2. IsFiniteSet(S)
  BY <1>1, BatchType, FS_Subset
<1>3. Max(S) \in S /\ Max(S) \in Int /\ \A y \in S : Max(S) >= y
  <2> HIDE DEF S
  <2> QED BY <1>1, <1>2, MaxOf
<1>4. \A y \in S : y \in Int
  BY <1>1
<1> QED
  BY <1>3, <1>4

(* The steps of Meaning, one record after the other. *)
After(m, batch, g) ==
  /\ g \in [0 .. Len(batch) -> MapsTo(Keys, Seq(Nat))]
  /\ g[0] = m
  /\ \A n \in 1 .. Len(batch) :
       g[n] = Merge([x \in {batch[n].key} |->
                       IF Append_ THEN Value(g[n-1], batch[n].key) \o batch[n].val
                       ELSE batch[n].val], g[n-1])

LEMMA MeaningSteps ==
  ASSUME NEW m, IsMap(m, Keys, Seq(Nat)), NEW batch \in Batches
  PROVE  \E g : After(m, batch, g) /\ Meaning(m, batch) = g[Len(batch)]
<1> DEFINE n == Len(batch)
           A == MapsTo(Keys, Seq(Nat))
           Put(f, i) == Merge([x \in {batch[i].key} |->
                                IF Append_ THEN Value(f, batch[i].key) \o batch[i].val
                                ELSE batch[i].val], f)
           F == [i \in 1..n |-> [f \in A |-> Put(f, i)]]
           Def(g) == g = [i \in 0..n |-> IF i = 0 THEN m ELSE Put(g[i - 1], i)]
           after == CHOOSE g : Def(g)
<1>1. n \in Nat /\ m \in A /\ DOMAIN batch = 1..n
  BY BatchType, MapSet
<1>2. ASSUME NEW f \in A, NEW i \in 1..n PROVE Put(f, i) \in A
  <2>1. IsMap(f, Keys, Seq(Nat))
    BY MapSet
  <2>2. batch[i].key \in Keys /\ batch[i].val \in Seq(Nat)
    BY BatchType
  <2>3. Value(f, batch[i].key) \in Seq(Nat)
    BY <2>1 DEF Value, IsMap
  <2>4. (IF Append_ THEN Value(f, batch[i].key) \o batch[i].val ELSE batch[i].val) \in Seq(Nat)
    BY <2>2, <2>3
  <2>5. IsMap([x \in {batch[i].key} |->
                 IF Append_ THEN Value(f, batch[i].key) \o batch[i].val
                 ELSE batch[i].val], Keys, Seq(Nat))
    BY <2>2, <2>4 DEF IsMap
  <2>6. IsMap(Put(f, i), Keys, Seq(Nat))
    BY <2>1, <2>5, MergeMap
  <2> QED BY <2>6, MapSet
<1> HIDE DEF n, A, Put
<1>3. F \in [1..n -> [A -> A]]
  BY <1>2
<1>4. \E f : Iteration(f, n, A, m, F)
  <2> HIDE DEF F
  <2> QED BY <1>1, <1>3, Iterate
<1>5. PICK f : f \in [0..n -> A] /\ f[0] = m /\ \A i \in 1..n : f[i] = F[i][f[i-1]]
  BY <1>4 DEF Iteration
<1>6. Def(f)
  <2>1. ASSUME NEW i \in 0..n, i # 0 PROVE f[i] = Put(f[i - 1], i)
    <3>1. i \in 1..n /\ f[i-1] \in A
      BY <1>1, <1>5, <2>1
    <3>2. F[i][f[i-1]] = Put(f[i - 1], i)
      BY <3>1
    <3> QED BY <1>5, <3>1, <3>2
  <2> QED BY <1>5, <2>1
<1>7. Def(after)
  <2> HIDE DEF Def
  <2> QED BY <1>6
<1>8. DOMAIN after = 0..n /\ after[0] = m /\ \A i \in 1..n : after[i] = Put(after[i - 1], i)
  <2> HIDE DEF after
  <2>1. ASSUME NEW i \in 0..n PROVE after[i] = IF i = 0 THEN m ELSE Put(after[i - 1], i)
    BY <1>7
  <2>2. DOMAIN after = 0..n
    BY <1>7
  <2>3. after[0] = m
    BY <1>1, <2>1
  <2>4. ASSUME NEW i \in 1..n PROVE after[i] = Put(after[i - 1], i)
    BY <1>1, <2>1
  <2> QED BY <2>2, <2>3, <2>4
<1>9. \A i \in 0..n : after[i] \in A
  <2> HIDE DEF after, Def
  <2> DEFINE T == {i \in 0..n : after[i] \in A}
  <2>1. 0 \in T
    BY <1>1, <1>8
  <2>2. ASSUME NEW i \in 0..n - 1, i \in T PROVE i + 1 \in T
    <3>1. i + 1 \in 1..n /\ (i + 1) - 1 = i
      BY <1>1
    <3>2. after[i + 1] = Put(after[i], i + 1)
      BY <1>8, <3>1
    <3> QED BY <1>1, <1>2, <2>2, <3>1, <3>2
  <2> HIDE DEF T
  <2>3. \A i \in 0..n : i \in T
    BY <1>1, <2>1, <2>2, UpTo
  <2> QED BY <2>3 DEF T
<1>10. after = [i \in 0..n |-> after[i]]
  <2> HIDE DEF after
  <2> QED BY <1>7
<1>11. After(m, batch, after)
  <2> HIDE DEF after, Def
  <2> QED BY <1>8, <1>9, <1>10 DEF After, n, A, Put
<1>12. Meaning(m, batch) = after[Len(batch)]
  BY DEF Meaning, n, Put
<1> HIDE DEF after
<1> QED
  BY <1>11, <1>12
-----------------------------------------------------------------------------
(* Statistics. *)

(* The image of a finite set. *)
LEMMA ImageFinite ==
  ASSUME NEW S, IsFiniteSet(S), NEW f, DOMAIN f = S
  PROVE  IsFiniteSet({f[x] : x \in S}) /\ Cardinality({f[x] : x \in S}) <= Cardinality(S)
<1> DEFINE T == {f[x] : x \in S}
           g == [x \in S |-> f[x]]
<1>1. g \in Surjection(S, T)
  BY DEF Surjection
<1> HIDE DEF T, g
<1>2. IsFiniteSet(T) /\ Cardinality(T) <= Cardinality(S)
  BY <1>1, FS_Surjection
<1> QED
  BY <1>2 DEF T

(* r is st after the keys were added to the statistics of their slices. *)
Updated(r, st, D, keys) ==
  LET In(q) == {i \in D : get_slice_num(keys[i]) = q}
  IN /\ IsMap(r, Nat, Stat)
     /\ DOMAIN r = DOMAIN st \cup {get_slice_num(keys[i]) : i \in D}
     /\ \A i \in D : /\ r[get_slice_num(keys[i])].min <= StatNum[keys[i]]
                    /\ StatNum[keys[i]] <= r[get_slice_num(keys[i])].max
     /\ \A q \in DOMAIN st : r[q].min <= st[q].min /\ st[q].max <= r[q].max
     /\ \A q \in DOMAIN r :
          /\ IsFiniteSet(In(q)) /\ Cardinality(In(q)) \in Nat
          /\ r[q].num = Cardinality(In(q)) + IF q \in DOMAIN st THEN st[q].num ELSE 0

LEMMA UpdateStats ==
  ASSUME NEW st, IsMap(st, Nat, Stat), NEW D, IsFiniteSet(D), NEW keys \in [D -> Keyed],
         \A i \in D : verify_key(keys[i])
  PROVE  Updated(update_all_stats(st, keys), st, D, keys)
<1> DEFINE r == update_all_stats(st, keys)
           In(q) == {i \in D : get_slice_num(keys[i]) = q}
           slices == {get_slice_num(keys[i]) : i \in D}
           New(q) == {StatNum[keys[i]] : i \in In(q)}
           Lo(q) == New(q) \cup {o.min : o \in IF q \in DOMAIN st THEN {st[q]} ELSE {}}
           Hi(q) == New(q) \cup {o.max : o \in IF q \in DOMAIN st THEN {st[q]} ELSE {}}
<1>1. ASSUME NEW q PROVE IsFiniteSet(In(q)) /\ Cardinality(In(q)) \in Nat
  <2>1. In(q) \in SUBSET D
    OBVIOUS
  <2>2. IsFiniteSet(In(q))
    BY <2>1, FS_Subset
  <2> QED BY <2>2, FS_CardinalityType
<1>2. ASSUME NEW i \in D PROVE StatNum[keys[i]] \in Int /\ get_slice_num(keys[i]) \in Nat
  BY StatNumType, SliceType
<1>3. ASSUME NEW q PROVE New(q) \subseteq Int /\ IsFiniteSet(New(q))
  <2>1. New(q) \subseteq Int
    BY <1>2
  <2> DEFINE f == [i \in In(q) |-> StatNum[keys[i]]]
  <2>2. New(q) = {f[i] : i \in In(q)} /\ DOMAIN f = In(q)
    OBVIOUS
  <2>3. IsFiniteSet(New(q))
    <3> HIDE DEF In, f, New
    <3> QED BY <1>1, <2>2, ImageFinite
  <2> QED BY <2>1, <2>3
<1>4. ASSUME NEW q \in DOMAIN st
      PROVE  st[q] \in Stat /\ st[q].min \in Int /\ st[q].max \in Int /\ st[q].num \in Nat
  BY DEF IsMap, Stat
<1>5. ASSUME NEW q \in slices
      PROVE  /\ Lo(q) \subseteq Int /\ IsFiniteSet(Lo(q)) /\ Lo(q) # {}
             /\ Hi(q) \subseteq Int /\ IsFiniteSet(Hi(q)) /\ Hi(q) # {}
  <2>0. New(q) # {}
    OBVIOUS
  <2>1. CASE q \in DOMAIN st
    <3>1. Lo(q) = New(q) \cup {st[q].min} /\ Hi(q) = New(q) \cup {st[q].max}
      BY <2>1
    <3> HIDE DEF New, Lo, Hi
    <3>2. IsFiniteSet(Lo(q)) /\ IsFiniteSet(Hi(q))
      <4>1. IsFiniteSet(New(q))
        BY <1>3
      <4>2. IsFiniteSet(New(q) \cup {st[q].min})
        BY <4>1, FS_AddElement
      <4>3. IsFiniteSet(New(q) \cup {st[q].max})
        BY <4>1, FS_AddElement
      <4> QED BY <3>1, <4>2, <4>3
    <3> QED BY <1>3, <1>4, <2>0, <2>1, <3>1, <3>2
  <2>2. CASE q \notin DOMAIN st
    <3>1. Lo(q) = New(q) /\ Hi(q) = New(q)
      BY <2>2
    <3> HIDE DEF New, Lo, Hi
    <3> QED BY <1>3, <2>0, <3>1
  <2> QED BY <2>1, <2>2
<1>6. ASSUME NEW q \in slices
      PROVE  /\ Min(Lo(q)) \in Int /\ \A y \in Lo(q) : Min(Lo(q)) <= y
             /\ Max(Hi(q)) \in Int /\ \A y \in Hi(q) : y <= Max(Hi(q))
  <2>1. /\ Lo(q) \subseteq Int /\ IsFiniteSet(Lo(q)) /\ Lo(q) # {}
        /\ Hi(q) \subseteq Int /\ IsFiniteSet(Hi(q)) /\ Hi(q) # {}
    BY <1>5
  <2> HIDE DEF Lo, Hi
  <2>2. Min(Lo(q)) \in Int /\ \A y \in Lo(q) : Min(Lo(q)) <= y
    BY <2>1, MinOf
  <2>3. Max(Hi(q)) \in Int /\ \A y \in Hi(q) : Max(Hi(q)) >= y
    BY <2>1, MaxOf
  <2>4. \A y \in Hi(q) : y \in Int
    BY <2>1
  <2> QED BY <2>2, <2>3, <2>4
<1>7. /\ DOMAIN r = DOMAIN st \cup slices
      /\ \A q \in DOMAIN st \cup slices :
           r[q] = IF q \notin slices THEN st[q]
                  ELSE [min |-> Min(Lo(q)), max |-> Max(Hi(q)),
                        num |-> Cardinality(In(q)) + IF q \in DOMAIN st THEN st[q].num ELSE 0]
  BY DEF update_all_stats
<1> HIDE DEF r
<1>8. ASSUME NEW q \in slices
      PROVE  /\ r[q] \in Stat
             /\ r[q].min = Min(Lo(q)) /\ r[q].max = Max(Hi(q))
             /\ r[q].num = Cardinality(In(q)) + IF q \in DOMAIN st THEN st[q].num ELSE 0
  <2> DEFINE lo == Min(Lo(q))
             hi == Max(Hi(q))
             nn == Cardinality(In(q)) + (IF q \in DOMAIN st THEN st[q].num ELSE 0)
  <2>1. nn \in Nat
    BY <1>1, <1>4
  <2>2. lo \in Int /\ hi \in Int
    BY <1>6
  <2>3. r[q] = [min |-> lo, max |-> hi, num |-> nn]
    BY <1>7
  <2> HIDE DEF nn, lo, hi
  <2>4. r[q] \in Stat /\ r[q].min = lo /\ r[q].max = hi /\ r[q].num = nn
    BY <2>1, <2>2, <2>3 DEF Stat
  <2> QED BY <2>4 DEF nn, lo, hi

<1>9. IsMap(r, Nat, Stat)
  <2>1. DOMAIN r \subseteq Nat
    <3>1. DOMAIN st \subseteq Nat
      BY DEF IsMap
    <3>2. slices \subseteq Nat
      BY <1>2
    <3> HIDE DEF slices
    <3> QED BY <1>7, <3>1, <3>2
  <2>2. ASSUME NEW q \in DOMAIN r PROVE r[q] \in Stat
    <3>1. CASE q \in slices
      BY <1>8, <3>1
    <3>2. CASE q \notin slices
      <4>1. q \in DOMAIN st /\ r[q] = st[q]
        BY <1>7, <3>2
      <4> QED BY <1>4, <4>1
    <3> QED BY <3>1, <3>2
  <2>3. r = [q \in DOMAIN r |-> r[q]]
    BY DEF r, update_all_stats
  <2> QED BY <2>1, <2>2, <2>3 DEF IsMap
<1>10. ASSUME NEW i \in D
       PROVE  /\ r[get_slice_num(keys[i])].min <= StatNum[keys[i]]
              /\ StatNum[keys[i]] <= r[get_slice_num(keys[i])].max
  <2> DEFINE q == get_slice_num(keys[i])
  <2>1. q \in slices /\ StatNum[keys[i]] \in Lo(q) /\ StatNum[keys[i]] \in Hi(q)
    OBVIOUS
  <2> HIDE DEF q, slices, Lo, Hi
  <2>2. r[q].min <= StatNum[keys[i]] /\ StatNum[keys[i]] <= r[q].max
    BY <1>6, <1>8, <2>1
  <2> QED BY <2>2 DEF q
<1>11. ASSUME NEW q \in DOMAIN st PROVE r[q].min <= st[q].min /\ st[q].max <= r[q].max
  <2>1. CASE q \in slices
    <3>1. st[q].min \in Lo(q) /\ st[q].max \in Hi(q)
      OBVIOUS
    <3> HIDE DEF slices, Lo, Hi
    <3> QED BY <1>6, <1>8, <2>1, <3>1
  <2>2. CASE q \notin slices
    <3>1. r[q] = st[q]
      BY <1>7, <2>2
    <3> QED BY <1>4, <3>1
  <2> QED BY <2>1, <2>2
<1>12. ASSUME NEW q \in DOMAIN r
       PROVE  r[q].num = Cardinality(In(q)) + IF q \in DOMAIN st THEN st[q].num ELSE 0
  <2>1. CASE q \in slices
    BY <1>8, <2>1
  <2>2. CASE q \notin slices
    <3>1. q \in DOMAIN st /\ r[q] = st[q]
      BY <1>7, <2>2
    <3>2. In(q) = {}
      BY <2>2
    <3>3. Cardinality(In(q)) = 0
      BY <3>2, FS_EmptySet
    <3> QED BY <1>4, <3>1, <3>3
  <2> QED BY <2>1, <2>2
<1> HIDE DEF In
<1>13. \A q : IsFiniteSet(In(q)) /\ Cardinality(In(q)) \in Nat
  BY <1>1
<1> QED
  BY <1>7, <1>9, <1>10, <1>11, <1>12, <1>13 DEF r, In, Updated

-----------------------------------------------------------------------------
(* Writing. *)

(* The records whose key is new are among those the write counts. *)
LEMMA WriteEffect ==
  ASSUME IsMap(db, Keys, Seq(Nat)), NEW batch \in Batches, NEW unread \in SUBSET DOMAIN batch,
         Write(batch, unread)
  PROVE  LET keys == {batch[i].key : i \in DOMAIN batch}
         IN /\ IsMap(db', Keys, Seq(Nat))
            /\ DOMAIN db' = DOMAIN db \cup keys
            /\ \E new \in SUBSET DOMAIN batch :
                 /\ stat' = update_all_stats(stat, [i \in new |-> batch[i].key])
                 /\ \A i \in DOMAIN batch : batch[i].key \notin DOMAIN db => i \in new
<1> DEFINE keys == {batch[i].key : i \in DOMAIN batch}
           Exists(i) == /\ i \notin unread /\ batch[i].key \in DOMAIN db
                        /\ db[batch[i].key] # <<>>
           LastOf(k) == Max({i \in DOMAIN batch : batch[i].key = k})
           new == {i \in DOMAIN batch : ~Exists(i)}
           vals == [k \in keys |-> NewValue(batch, LastOf(k), Exists(LastOf(k)))]
<1>1. db' = Merge(vals, db) /\ stat' = update_all_stats(stat, [i \in new |-> batch[i].key])
  BY DEF Write
<1>2. ASSUME NEW k \in keys
      PROVE  NewValue(batch, LastOf(k), Exists(LastOf(k))) \in Seq(Nat)
  <2>1. LastOf(k) \in DOMAIN batch
    <3>1. PICK i \in DOMAIN batch : batch[i].key = k
      OBVIOUS
    <3> QED BY <3>1, LastType
  <2> DEFINE m == LastOf(k)
  <2> HIDE DEF LastOf
  <2>2. batch[m].val \in Seq(Nat)
    BY <2>1, BatchType
  <2>3. ASSUME Exists(m) PROVE db[batch[m].key] \in Seq(Nat)
    BY <2>3 DEF IsMap
  <2>4. CASE Exists(m) /\ Append_
    BY <2>2, <2>3, <2>4 DEF NewValue
  <2>5. CASE ~(Exists(m) /\ Append_)
    BY <2>2, <2>5 DEF NewValue
  <2> QED BY <2>4, <2>5
<1>3. keys \subseteq Keys
  BY BatchType
<1>4. IsMap(vals, Keys, Seq(Nat)) /\ DOMAIN vals = keys
  <2>1. DOMAIN vals = keys
    OBVIOUS
  <2>2. ASSUME NEW k \in keys PROVE vals[k] \in Seq(Nat)
    BY <1>2
  <2>3. vals \in [keys -> Seq(Nat)]
    BY <2>2
  <2> HIDE DEF keys, vals
  <2> QED BY <1>3, <2>1, <2>3 DEF IsMap
<1>5. \A i \in DOMAIN batch : batch[i].key \notin DOMAIN db => i \in new
  OBVIOUS
<1>6. new \in SUBSET DOMAIN batch
  OBVIOUS
<1> HIDE DEF vals, keys, new
<1>7. IsMap(db', Keys, Seq(Nat))
  BY <1>1, <1>4, MergeMap
<1>8. DOMAIN db' = DOMAIN db \cup keys
  BY <1>1, <1>4 DEF Merge
<1> QED
  BY <1>1, <1>5, <1>6, <1>7, <1>8 DEF keys

-----------------------------------------------------------------------------
(* Type correctness: the stores hold finitely many records, all with a slice. *)

StoreInv ==
  /\ TypeOK
  /\ IsFiniteSet(DOMAIN db)
  /\ \A k \in DOMAIN db : verify_key(k)

LEMMA StoreInit == Init => StoreInv
<1> SUFFICES ASSUME Init PROVE StoreInv
  OBVIOUS
<1>1. TypeOK
  BY NothingMap DEF Init, TypeOK
<1>2. DOMAIN db = {}
  BY DEF Init, Nothing
<1> QED
  BY <1>1, <1>2, FS_EmptySet DEF StoreInv

LEMMA KeysOfBatch ==
  ASSUME NEW batch \in Batches
  PROVE  LET keys == {batch[i].key : i \in DOMAIN batch}
         IN keys \subseteq Keys /\ keys \subseteq Keyed /\ IsFiniteSet(keys)
<1> DEFINE f == [i \in DOMAIN batch |-> batch[i].key]
<1>1. {batch[i].key : i \in DOMAIN batch} = {f[i] : i \in DOMAIN batch} /\ DOMAIN f = DOMAIN batch
  OBVIOUS
<1> HIDE DEF f
<1>2. IsFiniteSet({f[i] : i \in DOMAIN batch})
  BY <1>1, BatchType, ImageFinite
<1> QED
  BY <1>1, <1>2, BatchType

(* The statistics a write updates are those of valid keys. *)
LEMMA NewKeys ==
  ASSUME NEW batch \in Batches, OneServer({batch[i].key : i \in DOMAIN batch}),
         NEW new \in SUBSET DOMAIN batch
  PROVE  LET nk == [i \in new |-> batch[i].key]
         IN /\ IsFiniteSet(new) /\ nk \in [new -> Keyed]
            /\ \A i \in new : verify_key(nk[i])
<1>1. IsFiniteSet(new)
  BY BatchType, FS_Subset
<1>2. \A i \in DOMAIN batch : batch[i].key \in Keyed
  BY BatchType
<1>3. {batch[i].key : i \in DOMAIN batch} \subseteq Keyed
  BY <1>2
<1>4. \A k \in {batch[i].key : i \in DOMAIN batch} : verify_key(k)
  BY <1>3, OneServerValid
<1>5. \A i \in DOMAIN batch : verify_key(batch[i].key)
  BY <1>4
<1> QED
  BY <1>1, <1>2, <1>5

LEMMA MeaningType ==
  ASSUME NEW m, IsMap(m, Keys, Seq(Nat)), NEW batch \in Batches
  PROVE  IsMap(Meaning(m, batch), Keys, Seq(Nat))
<1>1. PICK g : After(m, batch, g) /\ Meaning(m, batch) = g[Len(batch)]
  BY MeaningSteps
<1>2. Len(batch) \in 0 .. Len(batch)
  BY BatchType
<1>3. Meaning(m, batch) \in MapsTo(Keys, Seq(Nat))
  BY <1>1, <1>2 DEF After
<1> QED
  BY <1>3, MapSet

LEMMA StorePut ==
  ASSUME StoreInv, NEW batch \in Batches, NEW unread \in SUBSET DOMAIN batch,
         range_server_bput(batch, unread)
  PROVE  StoreInv'
<1> DEFINE keys == {batch[i].key : i \in DOMAIN batch}
<1>1. CASE Write(batch, unread) /\ ideal' = Meaning(ideal, batch)
  <2>0. IsMap(db, Keys, Seq(Nat)) /\ IsMap(ideal, Keys, Seq(Nat)) /\ IsMap(stat, Nat, Stat)
    BY DEF StoreInv, TypeOK
  <2>1. OneServer(keys) /\ UNCHANGED <<up, sdb, stats>>
    BY DEF range_server_bput
  <2>2. IsMap(db', Keys, Seq(Nat)) /\ DOMAIN db' = DOMAIN db \cup keys
    BY <1>1, <2>0, WriteEffect
  <2>3. PICK new \in SUBSET DOMAIN batch : stat' = update_all_stats(stat, [i \in new |-> batch[i].key])
    BY <1>1, <2>0, WriteEffect
  <2>4. IsMap(stat', Nat, Stat)
    <3> DEFINE nk == [i \in new |-> batch[i].key]
    <3>1. IsFiniteSet(new) /\ nk \in [new -> Keyed] /\ \A i \in new : verify_key(nk[i])
      BY <2>1, NewKeys
    <3> HIDE DEF nk
    <3>2. IsMap(update_all_stats(stat, nk), Nat, Stat)
      BY <2>0, <3>1, UpdateStats DEF Updated
    <3> QED BY <2>3, <3>2 DEF nk
  <2>5. IsMap(ideal', Keys, Seq(Nat))
    BY <1>1, <2>0, MeaningType
  <2>6. TypeOK'
    BY <2>1, <2>2, <2>4, <2>5 DEF TypeOK, StoreInv
  <2>7. keys \subseteq Keyed /\ IsFiniteSet(keys)
    BY KeysOfBatch
  <2> HIDE DEF keys
  <2>8. IsFiniteSet(DOMAIN db')
    BY <2>2, <2>7, FS_Union DEF StoreInv
  <2>9. \A k \in keys : verify_key(k)
    BY <2>1, <2>7, OneServerValid
  <2> QED BY <2>2, <2>6, <2>8, <2>9 DEF StoreInv
<1>2. CASE UNCHANGED <<db, stat, ideal>>
  BY <1>2 DEF StoreInv, TypeOK, range_server_bput
<1> QED
  BY <1>1, <1>2 DEF range_server_bput

LEMMA StoreDel ==
  ASSUME StoreInv, NEW keys \in DelLists, NEW failed \in SUBSET DOMAIN keys,
         range_server_bdel(keys, failed)
  PROVE  StoreInv'
<1> DEFINE gone == {keys[i] : i \in DOMAIN keys \ failed}
<1>1. /\ db' = [k \in DOMAIN db \ gone |-> db[k]]
      /\ ideal' = [k \in DOMAIN ideal \ gone |-> ideal[k]]
      /\ UNCHANGED <<up, stat, sdb, stats>>
  BY DEF range_server_bdel
<1> HIDE DEF gone
<1>2. IsMap(db', Keys, Seq(Nat)) /\ IsMap(ideal', Keys, Seq(Nat))
  BY <1>1, PartMap DEF StoreInv, TypeOK
<1>3. DOMAIN db' = DOMAIN db \ gone
  BY <1>1
<1>4. IsFiniteSet(DOMAIN db')
  BY <1>3, FS_Difference DEF StoreInv
<1> QED
  BY <1>1, <1>2, <1>3, <1>4 DEF StoreInv, TypeOK

LEMMA StoreStep == StoreInv /\ [Next]_vars => StoreInv'
<1> SUFFICES ASSUME StoreInv, [Next]_vars PROVE StoreInv'
  OBVIOUS
<1>1. CASE \E batch \in Batches : \E unread \in SUBSET DOMAIN batch : range_server_bput(batch, unread)
  BY <1>1, StorePut
<1>2. CASE \E keys \in DelLists : \E failed \in SUBSET DOMAIN keys : range_server_bdel(keys, failed)
  BY <1>2, StoreDel
<1>3. CASE mdhimStatFlush
  BY <1>3, MergeMap DEF mdhimStatFlush, StoreInv, TypeOK
<1>4. CASE range_server_stop
  BY <1>4, MergeMap, NothingMap DEF range_server_stop, StoreInv, TypeOK
<1>5. CASE Crash
  BY <1>5, NothingMap DEF Crash, StoreInv, TypeOK
<1>6. CASE range_server_init
  BY <1>6 DEF range_server_init, StoreInv, TypeOK
<1>7. CASE UNCHANGED vars
  BY <1>7 DEF vars, StoreInv, TypeOK
<1> QED
  BY <1>1, <1>2, <1>3, <1>4, <1>5, <1>6, <1>7 DEF Next

LEMMA StoreInvariant == Spec => []StoreInv
  BY StoreInit, StoreStep, PTL DEF Spec

(* The stores map keys to values and the statistics map slices to bounds and *)
(* counts, whatever is put, deleted, stopped or crashed.                     *)
THEOREM StoreTypeCorrect == Spec => []TypeOK
<1>1. StoreInv => TypeOK
  BY DEF StoreInv
<1> QED
  BY <1>1, StoreInvariant, PTL

-----------------------------------------------------------------------------
(* The statistics, as long as no job crashes: what the stopped servers wrote *)
(* last is what the next job starts from.                                    *)

NoCrash == "crash" \notin Faults

StatsInv ==
  /\ StoreInv
  /\ StatsCoverKeys
  /\ NumBoundsKeys
  /\ up => DOMAIN sdb \subseteq DOMAIN stat

LEMMA KeysInFinite ==
  ASSUME StoreInv, NEW q
  PROVE  IsFiniteSet(KeysIn(q)) /\ Cardinality(KeysIn(q)) \in Nat
<1>1. KeysIn(q) \in SUBSET DOMAIN db
  BY DEF KeysIn
<1>2. IsFiniteSet(KeysIn(q))
  BY <1>1, FS_Subset DEF StoreInv
<1> QED
  BY <1>2, FS_CardinalityType

LEMMA StatsInit == Init => StatsInv
<1> SUFFICES ASSUME Init PROVE StatsInv
  OBVIOUS
<1>1. DOMAIN db = {} /\ DOMAIN stat = {} /\ DOMAIN sdb = {} /\ up
  BY DEF Init, Nothing
<1> QED
  BY <1>1, StoreInit DEF StatsInv, StatsCoverKeys, NumBoundsKeys, Known

(* A step that leaves the records and the known statistics alone. *)
LEMMA StatsSame ==
  ASSUME StatsInv, StoreInv', db' = db, Known' = Known, (up => DOMAIN sdb \subseteq DOMAIN stat)'
  PROVE  StatsInv'
<1>1. StatsCoverKeys'
  BY DEF StatsInv, StatsCoverKeys
<1>2. \A q : KeysIn(q)' = KeysIn(q)
  BY DEF KeysIn
<1>3. NumBoundsKeys'
  BY <1>2 DEF StatsInv, NumBoundsKeys
<1> QED
  BY <1>1, <1>3 DEF StatsInv

LEMMA StatsPut ==
  ASSUME StatsInv, StoreInv', NEW batch \in Batches, NEW unread \in SUBSET DOMAIN batch,
         range_server_bput(batch, unread)
  PROVE  StatsInv'
<1> DEFINE keys == {batch[i].key : i \in DOMAIN batch}
<1>0. /\ IsMap(db, Keys, Seq(Nat)) /\ IsMap(stat, Nat, Stat) /\ up /\ up' /\ OneServer(keys)
      /\ Known = stat /\ Known' = stat' /\ sdb' = sdb
  BY DEF StatsInv, StoreInv, TypeOK, range_server_bput, Known
<1>1. CASE Write(batch, unread)
  <2>1. DOMAIN db' = DOMAIN db \cup keys
    BY <1>0, <1>1, WriteEffect
  <2>2. PICK new \in SUBSET DOMAIN batch :
          /\ stat' = update_all_stats(stat, [i \in new |-> batch[i].key])
          /\ \A i \in DOMAIN batch : batch[i].key \notin DOMAIN db => i \in new
    BY <1>0, <1>1, WriteEffect
  <2> DEFINE nk == [i \in new |-> batch[i].key]
             In(q) == {i \in new : get_slice_num(nk[i]) = q}
  <2>3. IsFiniteSet(new) /\ nk \in [new -> Keyed] /\ \A i \in new : verify_key(nk[i])
    BY <1>0, NewKeys
  <2>4. /\ IsMap(stat', Nat, Stat)
        /\ DOMAIN stat' = DOMAIN stat \cup {get_slice_num(nk[i]) : i \in new}
        /\ \A i \in new : /\ stat'[get_slice_num(nk[i])].min <= StatNum[nk[i]]
                          /\ StatNum[nk[i]] <= stat'[get_slice_num(nk[i])].max
        /\ \A q \in DOMAIN stat : stat'[q].min <= stat[q].min /\ stat[q].max <= stat'[q].max
        /\ \A q \in DOMAIN stat' :
             /\ IsFiniteSet(In(q)) /\ Cardinality(In(q)) \in Nat
             /\ stat'[q].num = Cardinality(In(q)) + IF q \in DOMAIN stat THEN stat[q].num ELSE 0
    <3>1. stat' = update_all_stats(stat, nk)
      BY <2>2
    <3> HIDE DEF nk
    <3>2. Updated(stat', stat, new, nk)
      BY <1>0, <2>3, <3>1, UpdateStats
    <3> QED BY <3>2 DEF Updated
  <2>5. \A k \in DOMAIN db' : k \notin DOMAIN db => \E i \in new : nk[i] = k
    BY <2>1, <2>2
  <2> HIDE DEF nk
  <2>6. \A q \in DOMAIN stat : stat[q].min \in Int /\ stat[q].max \in Int /\ stat[q].num \in Nat
    BY <1>0 DEF IsMap, Stat
  <2>7. \A q \in DOMAIN stat' : stat'[q].min \in Int /\ stat'[q].max \in Int
    BY <2>4 DEF IsMap, Stat
  <2>8. StatsCoverKeys'
    <3> SUFFICES ASSUME NEW k \in DOMAIN db'
                 PROVE  /\ SliceOf(k) \in DOMAIN stat'
                        /\ stat'[SliceOf(k)].min <= StatNum[k]
                        /\ StatNum[k] <= stat'[SliceOf(k)].max
      BY <1>0 DEF StatsCoverKeys, SliceOf
    <3>1. CASE k \in DOMAIN db
      <4> DEFINE q == SliceOf(k)
      <4>1. q \in DOMAIN stat /\ stat[q].min <= StatNum[k] /\ StatNum[k] <= stat[q].max
        BY <1>0, <3>1 DEF StatsInv, StatsCoverKeys
      <4>2. StatNum[k] \in Int
        BY <1>0, <3>1, StatNumType, StoreAssumption DEF IsMap
      <4>3. q \in DOMAIN stat' /\ stat'[q].min <= stat[q].min /\ stat[q].max <= stat'[q].max
        BY <2>4, <4>1
      <4>4. /\ stat[q].min \in Int /\ stat[q].max \in Int
            /\ stat'[q].min \in Int /\ stat'[q].max \in Int
        BY <2>6, <2>7, <4>1, <4>3
      <4> HIDE DEF q
      <4>5. stat'[q].min <= StatNum[k] /\ StatNum[k] <= stat'[q].max
        BY <4>1, <4>2, <4>3, <4>4
      <4> QED BY <4>3, <4>5 DEF q
    <3>2. CASE k \notin DOMAIN db
      <4>1. PICK i \in new : nk[i] = k
        BY <2>5, <3>2
      <4> QED BY <2>4, <4>1 DEF SliceOf
    <3> QED BY <3>1, <3>2
  <2>9. NumBoundsKeys'
    <3> SUFFICES ASSUME NEW q \in DOMAIN stat'
                 PROVE  Cardinality(KeysIn(q)') <= stat'[q].num
      BY <1>0 DEF NumBoundsKeys
    <3> DEFINE I == In(q)
               f == [i \in I |-> nk[i]]
               K == {f[i] : i \in I}
               n == IF q \in DOMAIN stat THEN stat[q].num ELSE 0
    <3>1. IsFiniteSet(I) /\ Cardinality(I) \in Nat /\ stat'[q].num = Cardinality(I) + n
      BY <2>4
    <3>2. DOMAIN f = I
      OBVIOUS
    <3>3. IsFiniteSet(K) /\ Cardinality(K) <= Cardinality(I) /\ Cardinality(K) \in Nat
      <4> HIDE DEF f, I
      <4>1. IsFiniteSet(K) /\ Cardinality(K) <= Cardinality(I)
        BY <3>1, <3>2, ImageFinite
      <4> QED BY <4>1, FS_CardinalityType
    <3>4. KeysIn(q)' \subseteq KeysIn(q) \cup K
      BY <2>5 DEF KeysIn, SliceOf
    <3>5. n \in Nat
      BY <2>6
    <3>6. IsFiniteSet(KeysIn(q)) /\ Cardinality(KeysIn(q)) \in Nat
      BY KeysInFinite DEF StatsInv
    <3>7. Cardinality(KeysIn(q)) <= n
      <4>1. CASE q \in DOMAIN stat
        BY <1>0, <4>1 DEF StatsInv, NumBoundsKeys
      <4>2. CASE q \notin DOMAIN stat
        <5>1. KeysIn(q) = {}
          BY <1>0, <4>2 DEF StatsInv, StatsCoverKeys, KeysIn
        <5> QED BY <4>2, <5>1, FS_EmptySet
      <4> QED BY <4>1, <4>2
    <3> HIDE DEF K, I, n, In
    <3>8. /\ IsFiniteSet(KeysIn(q) \cup K)
          /\ Cardinality(KeysIn(q) \cup K) <= Cardinality(KeysIn(q)) + Cardinality(K)
          /\ Cardinality(KeysIn(q) \cup K) \in Nat
      <4>1. IsFiniteSet(KeysIn(q) \cap K) /\ Cardinality(KeysIn(q) \cap K) \in Nat
        BY <3>6, FS_Intersection, FS_CardinalityType
      <4>2. /\ IsFiniteSet(KeysIn(q) \cup K)
            /\ Cardinality(KeysIn(q) \cup K) =
                 Cardinality(KeysIn(q)) + Cardinality(K) - Cardinality(KeysIn(q) \cap K)
        BY <3>3, <3>6, FS_Union
      <4>3. Cardinality(KeysIn(q) \cup K) \in Nat
        BY <4>2, FS_CardinalityType
      <4> QED BY <3>3, <3>6, <4>1, <4>2, <4>3
    <3>9. Cardinality(KeysIn(q)') <= Cardinality(KeysIn(q) \cup K) /\ Cardinality(KeysIn(q)') \in Nat
      <4>1. IsFiniteSet(KeysIn(q)') /\ Cardinality(KeysIn(q)') <= Cardinality(KeysIn(q) \cup K)
        BY <3>4, <3>8, FS_Subset
      <4> QED BY <4>1, FS_CardinalityType
    <3> QED BY <3>1, <3>3, <3>5, <3>6, <3>7, <3>8, <3>9
  <2>10. DOMAIN sdb' \subseteq DOMAIN stat'
    BY <1>0, <2>4 DEF StatsInv
  <2> QED BY <2>8, <2>9, <2>10 DEF StatsInv
<1>2. CASE UNCHANGED <<db, stat, ideal>>
  BY <1>0, <1>2, StatsSame DEF StatsInv
<1> QED
  BY <1>1, <1>2 DEF range_server_bput

LEMMA StatsDel ==
  ASSUME StatsInv, StoreInv', NEW keys \in DelLists, NEW failed \in SUBSET DOMAIN keys,
         range_server_bdel(keys, failed)
  PROVE  StatsInv'
<1>1. DOMAIN db' \subseteq DOMAIN db /\ UNCHANGED <<up, stat, sdb>>
  BY DEF range_server_bdel
<1>2. Known' = Known
  BY <1>1 DEF Known
<1>3. StatsCoverKeys'
  BY <1>1, <1>2 DEF StatsInv, StatsCoverKeys
<1>4. NumBoundsKeys'
  <2> SUFFICES ASSUME NEW q \in DOMAIN Known PROVE Cardinality(KeysIn(q)') <= Known[q].num
    BY <1>2 DEF NumBoundsKeys
  <2>1. KeysIn(q)' \in SUBSET KeysIn(q)
    BY <1>1 DEF KeysIn
  <2>2. IsFiniteSet(KeysIn(q)) /\ Cardinality(KeysIn(q)) \in Nat
    BY KeysInFinite DEF StatsInv
  <2>3. IsFiniteSet(KeysIn(q)') /\ Cardinality(KeysIn(q)') <= Cardinality(KeysIn(q))
    BY <2>1, <2>2, FS_Subset
  <2>4. Cardinality(KeysIn(q)') \in Nat
    BY <2>3, FS_CardinalityType
  <2>5. Cardinality(KeysIn(q)) <= Known[q].num
    BY DEF StatsInv, NumBoundsKeys
  <2>6. Known[q].num \in Nat
    BY DEF StatsInv, StoreInv, TypeOK, Known, IsMap, Stat
  <2> QED BY <2>2, <2>3, <2>4, <2>5, <2>6
<1> QED
  BY <1>1, <1>3, <1>4 DEF StatsInv

(* What range_server_stop writes over the old statistics is all of them. *)
LEMMA StatsStop ==
  ASSUME StatsInv, StoreInv', range_server_stop
  PROVE  StatsInv'
<1>1. up /\ up' = FALSE /\ db' = db /\ sdb' = Merge(stat, sdb)
  BY DEF range_server_stop
<1>2. DOMAIN sdb \subseteq DOMAIN stat
  BY <1>1 DEF StatsInv
<1>3. sdb' = stat
  <2>1. stat = [q \in DOMAIN stat |-> stat[q]]
    BY DEF StatsInv, StoreInv, TypeOK, IsMap
  <2>2. Merge(stat, sdb) = [q \in DOMAIN stat |-> stat[q]]
    BY <1>2 DEF Merge
  <2> QED BY <1>1, <2>1, <2>2
<1>4. Known' = Known
  BY <1>1, <1>3 DEF Known
<1> QED
  BY <1>1, <1>4, StatsSame DEF StatsInv

LEMMA StatsStep == NoCrash /\ StatsInv /\ [Next]_vars => StatsInv'
<1> SUFFICES ASSUME NoCrash, StatsInv, [Next]_vars PROVE StatsInv'
  OBVIOUS
<1>0. StoreInv'
  BY StoreStep DEF StatsInv
<1>1. CASE \E batch \in Batches : \E unread \in SUBSET DOMAIN batch : range_server_bput(batch, unread)
  BY <1>0, <1>1, StatsPut
<1>2. CASE \E keys \in DelLists : \E failed \in SUBSET DOMAIN keys : range_server_bdel(keys, failed)
  BY <1>0, <1>2, StatsDel
<1>3. CASE mdhimStatFlush
  <2>1. UNCHANGED <<up, db, stat, sdb>>
    BY <1>3 DEF mdhimStatFlush
  <2>2. Known' = Known
    BY <2>1 DEF Known
  <2> QED BY <1>0, <2>1, <2>2, StatsSame DEF StatsInv
<1>4. CASE range_server_stop
  BY <1>0, <1>4, StatsStop
<1>5. CASE Crash
  BY <1>5 DEF Crash, NoCrash
<1>6. CASE range_server_init
  <2>1. up' = TRUE /\ ~up /\ stat' = sdb /\ UNCHANGED <<db, sdb>>
    BY <1>6 DEF range_server_init
  <2>2. Known' = Known
    BY <2>1 DEF Known
  <2> QED BY <1>0, <2>1, <2>2, StatsSame DEF StatsInv
<1>7. CASE UNCHANGED vars
  <2>1. UNCHANGED <<up, db, stat, sdb>>
    BY <1>7 DEF vars
  <2>2. Known' = Known
    BY <2>1 DEF Known
  <2> QED BY <1>0, <2>1, <2>2, StatsSame DEF StatsInv
<1> QED
  BY <1>1, <1>2, <1>3, <1>4, <1>5, <1>6, <1>7 DEF Next

LEMMA StatsInvariant == NoCrash /\ Spec => []StatsInv
<1> SUFFICES ASSUME NoCrash PROVE Spec => []StatsInv
  OBVIOUS
<1>1. StatsInv /\ [Next]_vars => StatsInv'
  BY StatsStep
<1> QED
  BY <1>1, StatsInit, PTL DEF Spec

(* Without crashes the slice of every stored record has a statistic whose    *)
(* bounds contain the key, whatever is put, overwritten or deleted, whichever*)
(* lookups and writes fail, and across any number of jobs.                   *)
THEOREM StatsCover == NoCrash /\ Spec => []StatsCoverKeys
<1>1. StatsInv => StatsCoverKeys
  BY DEF StatsInv
<1> QED
  BY <1>1, StatsInvariant, PTL

(* Under the same condition num is never less than the records of a slice. *)
THEOREM NumBounds == NoCrash /\ Spec => []NumBoundsKeys
<1>1. StatsInv => NumBoundsKeys
  BY DEF StatsInv
<1> QED
  BY <1>1, StatsInvariant, PTL

-----------------------------------------------------------------------------
(* What the stores hold. *)

DistinctKeys(batch) == \A i, j \in DOMAIN batch : batch[i].key = batch[j].key => i = j

(* Puts mean what they say: in append mode only if lookups do not fail and   *)
(* no list names a key twice, because all lookups come before all writes.    *)
PutsFaithful ==
  \/ ~Append_
  \/ "read" \notin Faults /\ \A batch \in Batches : DistinctKeys(batch)

(* The value record j leaves when it is the last one of its key. *)
Left(m, batch, j) ==
  IF Append_ THEN Value(m, batch[j].key) \o batch[j].val ELSE batch[j].val

(* f is m after the first n records of the batch. *)
AfterFirst(f, m, batch, n) ==
  /\ DOMAIN f = DOMAIN m \cup {batch[j].key : j \in 1..n}
  /\ \A k \in DOMAIN m : (\A j \in 1..n : batch[j].key # k) => f[k] = m[k]
  /\ \A j \in 1..n : (\A l \in 1..n : l > j => batch[l].key # batch[j].key)
                       => f[batch[j].key] = Left(m, batch, j)

LEMMA MeaningIs ==
  ASSUME NEW m, IsMap(m, Keys, Seq(Nat)), NEW batch \in Batches, ~Append_ \/ DistinctKeys(batch)
  PROVE  AfterFirst(Meaning(m, batch), m, batch, Len(batch))
<1> DEFINE n == Len(batch)
<1>1. n \in Nat /\ DOMAIN batch = 1..n
  BY BatchType
<1>2. PICK g : After(m, batch, g) /\ Meaning(m, batch) = g[n]
  BY MeaningSteps
<1>3. g[0] = m
  BY <1>2 DEF After
<1> HIDE DEF n
<1> DEFINE T == {i \in 0..n : AfterFirst(g[i], m, batch, i)}
<1>4. 0 \in T
  <2>0. 1..0 = {}
    OBVIOUS
  <2>e. {batch[j].key : j \in 1..0} = {}
    BY <2>0
  <2>1. AfterFirst(m, m, batch, 0)
    BY <2>0, <2>e, Zenon DEF AfterFirst
  <2> QED BY <1>1, <1>3, <2>1
<1>5. ASSUME NEW i \in 0..n - 1, i \in T PROVE i + 1 \in T
  <2> DEFINE h == i + 1
             k0 == batch[h].key
             v == IF Append_ THEN Value(g[i], k0) \o batch[h].val ELSE batch[h].val
  <2>1. h \in 1..n /\ h - 1 = i /\ i \in Nat /\ h \in DOMAIN batch
    BY <1>1
  <2>2. g[h] = Merge([x \in {k0} |-> v], g[i])
    BY <1>2, <2>1 DEF After, n
  <2>3. AfterFirst(g[i], m, batch, i)
    BY <1>5
  <2>4. v = Left(m, batch, h)
    <3>1. CASE ~Append_
      BY <3>1 DEF Left
    <3>2. CASE Append_
      <4>1. \A j \in 1..i : j \in DOMAIN batch /\ j # h
        BY <1>1, <2>1
      <4>2. \A j \in 1..i : batch[j].key # k0
        BY <2>1, <3>2, <4>1 DEF DistinctKeys
      <4>3. k0 \in DOMAIN g[i] <=> k0 \in DOMAIN m
        BY <2>3, <4>2 DEF AfterFirst
      <4>4. k0 \in DOMAIN m => g[i][k0] = m[k0]
        BY <2>3, <4>2 DEF AfterFirst
      <4>5. Value(g[i], k0) = Value(m, k0)
        BY <4>3, <4>4 DEF Value
      <4> QED BY <3>2, <4>5 DEF Left
    <3> QED BY <3>1, <3>2
  <2>5. 1..h = (1..i) \cup {h}
    BY <2>1
  <2> HIDE DEF h, v, k0
  <2>6. DOMAIN g[h] = DOMAIN g[i] \cup {k0} /\ g[h][k0] = v /\ \A k \in DOMAIN g[i] \ {k0} : g[h][k] = g[i][k]
    BY <2>2 DEF Merge
  <2>7. DOMAIN g[h] = DOMAIN m \cup {batch[j].key : j \in 1..h}
    BY <2>3, <2>5, <2>6 DEF AfterFirst, k0
  <2>8. ASSUME NEW k \in DOMAIN m, \A j \in 1..h : batch[j].key # k PROVE g[h][k] = m[k]
    <3>1. k # k0 /\ \A j \in 1..i : batch[j].key # k
      BY <2>5, <2>8 DEF k0
    <3>2. k \in DOMAIN g[i] /\ g[i][k] = m[k]
      BY <2>3, <3>1 DEF AfterFirst
    <3> QED BY <2>6, <3>1, <3>2
  <2>9. ASSUME NEW j \in 1..h, \A l \in 1..h : l > j => batch[l].key # batch[j].key
        PROVE  g[h][batch[j].key] = Left(m, batch, j)
    <3>1. CASE j = h
      BY <2>4, <2>6, <3>1 DEF k0
    <3>2. CASE j # h
      <4>1. j \in 1..i /\ h > j /\ h \in 1..h
        BY <2>1, <2>5, <3>2
      <4>2. batch[j].key # k0
        BY <2>9, <4>1 DEF k0
      <4>3. \A l \in 1..i : l > j => batch[l].key # batch[j].key
        BY <2>5, <2>9
      <4>4. batch[j].key \in DOMAIN g[i] /\ g[i][batch[j].key] = Left(m, batch, j)
        BY <2>3, <4>1, <4>3 DEF AfterFirst
      <4> QED BY <2>6, <4>2, <4>4
    <3> QED BY <3>1, <3>2
  <2>10. AfterFirst(g[h], m, batch, h)
    BY <2>7, <2>8, <2>9 DEF AfterFirst
  <2>11. h \in 0..n
    BY <1>1, <2>1
  <2> QED BY <2>10, <2>11 DEF h
<1>6. n \in 0..n
  BY <1>1
<1> HIDE DEF T
<1>7. n \in T
  BY <1>1, <1>4, <1>5, <1>6, UpTo
<1> QED
  BY <1>2, <1>7 DEF T, n

(* The stores after a write. *)
Written(batch, unread) ==
  LET keys == {batch[i].key : i \in DOMAIN batch}
      Exists(i) == /\ i \notin unread /\ batch[i].key \in DOMAIN db
                   /\ db[batch[i].key] # <<>>
      LastOf(k) == Max({i \in DOMAIN batch : batch[i].key = k})
  IN Merge([k \in keys |-> NewValue(batch, LastOf(k), Exists(LastOf(k)))], db)

(* A write leaves in the stores what its records mean. *)
LEMMA WrittenMeans ==
  ASSUME IsMap(db, Keys, Seq(Nat)), NEW batch \in Batches, NEW unread \in SUBSET DOMAIN batch,
         ~Append_ \/ (unread = {} /\ DistinctKeys(batch))
  PROVE  Written(batch, unread) = Meaning(db, batch)
<1> DEFINE keys == {batch[i].key : i \in DOMAIN batch}
           Exists(i) == /\ i \notin unread /\ batch[i].key \in DOMAIN db
                        /\ db[batch[i].key] # <<>>
           LastOf(k) == Max({i \in DOMAIN batch : batch[i].key = k})
           vals == [k \in keys |-> NewValue(batch, LastOf(k), Exists(LastOf(k)))]
           n == Len(batch)
           M == Meaning(db, batch)
<1>1. Written(batch, unread) = Merge(vals, db)
  BY DEF Written
<1>2. n \in Nat /\ DOMAIN batch = 1..n
  BY BatchType
<1>3. ~Append_ \/ DistinctKeys(batch)
  OBVIOUS
<1>4. AfterFirst(M, db, batch, n)
  BY <1>3, MeaningIs
<1>5. DOMAIN M = DOMAIN db \cup keys
  BY <1>2, <1>4 DEF AfterFirst
<1>6. ASSUME NEW k \in keys PROVE vals[k] = M[k]
  <2> DEFINE L == LastOf(k)
  <2>1. PICK i \in DOMAIN batch : batch[i].key = k
    OBVIOUS
  <2>2. L \in DOMAIN batch /\ batch[L].key = k /\ \A j \in DOMAIN batch : batch[j].key = k => j <= L
    BY <2>1, LastType
  <2>3. vals[k] = NewValue(batch, L, Exists(L))
    OBVIOUS
  <2> HIDE DEF LastOf, L, vals, M, n, keys
  <2>4. \A l \in 1..n : l > L => batch[l].key # batch[L].key
    BY <1>2, <2>2
  <2>5. M[k] = Left(db, batch, L)
    BY <1>2, <1>4, <2>2, <2>4 DEF AfterFirst
  <2>6. CASE ~Append_
    BY <2>3, <2>5, <2>6 DEF NewValue, Left
  <2>7. CASE Append_
    <3>1. unread = {}
      BY <2>7
    <3>2. Left(db, batch, L) = Value(db, k) \o batch[L].val
      BY <2>2, <2>7 DEF Left
    <3>3. CASE Exists(L)
      BY <2>2, <2>3, <2>5, <2>7, <3>2, <3>3 DEF NewValue, Value
    <3>4. CASE ~Exists(L)
      <4>1. Value(db, k) = <<>>
        BY <2>2, <3>1, <3>4 DEF Value
      <4>2. batch[L].val \in Seq(Nat)
        BY <2>2, BatchType
      <4>3. <<>> \o batch[L].val = batch[L].val
        BY <4>2
      <4>4. vals[k] = batch[L].val
        BY <2>3, <3>4 DEF NewValue
      <4> QED BY <2>5, <3>2, <4>1, <4>3, <4>4
    <3> QED BY <3>3, <3>4
  <2> QED BY <2>6, <2>7
<1>7. ASSUME NEW k \in DOMAIN db, k \notin keys PROVE M[k] = db[k]
  <2>1. \A j \in 1..n : batch[j].key # k
    BY <1>2, <1>7
  <2> QED BY <1>4, <2>1 DEF AfterFirst
<1>8. M = [k \in DOMAIN M |-> M[k]]
  <2>1. IsMap(M, Keys, Seq(Nat))
    BY MeaningType
  <2> HIDE DEF M
  <2> QED BY <2>1 DEF IsMap
<1>9. DOMAIN vals = keys
  OBVIOUS
<1> HIDE DEF vals, M, keys, n
<1>10. Merge(vals, db) = [k \in DOMAIN M |-> M[k]]
  BY <1>5, <1>6, <1>7, <1>9 DEF Merge
<1> QED
  BY <1>1, <1>8, <1>10 DEF M

LEMMA WriteMeans ==
  ASSUME PutsFaithful, IsMap(db, Keys, Seq(Nat)), NEW batch \in Batches,
         NEW unread \in SUBSET DOMAIN batch, unread # {} => "read" \in Faults,
         Write(batch, unread)
  PROVE  db' = Meaning(db, batch)
<1>1. ~Append_ \/ (unread = {} /\ DistinctKeys(batch))
  BY DEF PutsFaithful
<1>2. db' = Written(batch, unread)
  BY DEF Write, Written
<1> QED
  BY <1>1, <1>2, WrittenMeans

IdealInv == StoreInv /\ db = ideal

LEMMA IdealStep == PutsFaithful /\ IdealInv /\ [Next]_vars => IdealInv'
<1> SUFFICES ASSUME PutsFaithful, IdealInv, [Next]_vars PROVE db' = ideal'
  BY StoreStep DEF IdealInv
<1>0. IsMap(db, Keys, Seq(Nat)) /\ db = ideal
  BY DEF IdealInv, StoreInv, TypeOK
<1>1. ASSUME NEW batch \in Batches, NEW unread \in SUBSET DOMAIN batch, range_server_bput(batch, unread)
      PROVE  db' = ideal'
  <2>1. CASE Write(batch, unread) /\ ideal' = Meaning(ideal, batch)
    BY <1>0, <1>1, <2>1, WriteMeans DEF range_server_bput
  <2>2. CASE UNCHANGED <<db, stat, ideal>>
    BY <1>0, <2>2
  <2> QED BY <1>1, <2>1, <2>2 DEF range_server_bput
<1>2. ASSUME NEW keys \in DelLists, NEW failed \in SUBSET DOMAIN keys, range_server_bdel(keys, failed)
      PROVE  db' = ideal'
  BY <1>0, <1>2 DEF range_server_bdel
<1>3. CASE mdhimStatFlush \/ range_server_stop \/ Crash \/ range_server_init \/ UNCHANGED vars
  BY <1>0, <1>3 DEF mdhimStatFlush, range_server_stop, Crash, range_server_init, vars
<1> QED
  BY <1>1, <1>2, <1>3 DEF Next

LEMMA IdealReads == IdealInv => ReadsIdeal
<1> SUFFICES ASSUME IdealInv, NEW k \in Keys, verify_key(k)
             PROVE  (mdhimGet(k, "eq") = k) <=> (Value(db, k) # <<>>)
  BY DEF ReadsIdeal, IdealInv
<1> DEFINE s == get_range_server(k)
<1>1. k \in Keyed /\ k \in Nat
  BY StoreAssumption, KeyTypesAssumption
<1>2. s # NoServer
  BY <1>1, ServerOfKey, ServerIsRank
<1>3. mdhimGet(k, "eq") = IF Found(Local(s), k) THEN k ELSE NoKey
  BY <1>2 DEF mdhimGet, range_server_get
<1>4. Found(Local(s), k) <=> k \in DOMAIN db /\ db[k] # <<>>
  BY DEF Found, Local
<1>5. k # NoKey
  BY <1>1 DEF NoKey
<1> QED
  BY <1>3, <1>4, <1>5 DEF Value

(* A get returns what the puts and deletes left, in append mode too as long  *)
(* as puts are faithful, whichever writes fail and whatever job crashes.     *)
THEOREM ReadsCorrect == PutsFaithful /\ Spec => []ReadsIdeal
<1> SUFFICES ASSUME PutsFaithful PROVE Spec => []ReadsIdeal
  OBVIOUS
<1>1. Init => IdealInv
  BY StoreInit DEF Init, IdealInv
<1>2. IdealInv /\ [Next]_vars => IdealInv'
  BY IdealStep
<1> QED
  BY <1>1, <1>2, IdealReads, PTL DEF Spec

-----------------------------------------------------------------------------
(* Servers and cursors. *)

(* The records of a slice are on one server. *)
LEMMA LocalOfSlice ==
  ASSUME StoreInv, NEW k \in DOMAIN db
  PROVE  /\ k \in Keyed /\ k \in Nat /\ verify_key(k) /\ SliceOf(k) \in Nat
         /\ get_range_server(k) = get_range_server_by_slice(SliceOf(k))
         /\ get_range_server(k) \in get_rangesrvs
         /\ k \in Local(get_range_server(k))
<1>1. k \in Keyed /\ k \in Nat /\ verify_key(k)
  BY StoreAssumption, KeyTypesAssumption DEF StoreInv, TypeOK, IsMap
<1> QED
  BY <1>1, ServerOfKey, SliceType DEF SliceOf, Local

LEMMA SlicesServed == StoreInv => EverySliceServed
<1> SUFFICES ASSUME StoreInv PROVE EverySliceServed
  OBVIOUS
<1>1. \A k \in Keys : verify_key(k) => get_range_server(k) \in get_rangesrvs
  BY ServerOfKey, StoreAssumption
<1>2. ASSUME NEW q \in DOMAIN Known PROVE \E s \in get_rangesrvs : KeysIn(q) \subseteq Local(s)
  <2>1. q \in Nat
    BY DEF Known, StoreInv, TypeOK, IsMap
  <2> DEFINE s == get_range_server_by_slice(q)
  <2>2. s \in get_rangesrvs
    BY <2>1, ServerOfSlice
  <2>3. KeysIn(q) \subseteq Local(s)
    BY LocalOfSlice DEF KeysIn
  <2> QED BY <2>2, <2>3
<1> QED
  BY <1>1, <1>2, ServersNumbered DEF EverySliceServed

(* Every valid key has exactly one range server and every slice lies on one, *)
(* for any size of the job and any range_server_factor.                      *)
THEOREM PartitionTotal == Spec => []EverySliceServed
  BY StoreInvariant, SlicesServed, PTL

(* The least and the greatest element, or none. *)
LEMMA LeastIs ==
  ASSUME NEW S, S \subseteq Int, NEW m \in S, \A y \in S : m <= y
  PROVE  Least(S) = m
BY MinIs DEF Least

LEMMA GreatestIs ==
  ASSUME NEW S, S \subseteq Int, NEW m \in S, \A y \in S : m >= y
  PROVE  Greatest(S) = m
BY MaxIs DEF Greatest

LEMMA LeastOf ==
  ASSUME NEW S, S \subseteq Nat, IsFiniteSet(S)
  PROVE  IF S = {} THEN Least(S) = NoKey
         ELSE Least(S) \in S /\ Least(S) # NoKey /\ \A y \in S : Least(S) <= y
<1>1. CASE S = {}
  BY <1>1 DEF Least
<1>2. CASE S # {}
  <2>1. S \subseteq Int
    OBVIOUS
  <2>2. Min(S) \in S /\ \A y \in S : Min(S) <= y
    BY <1>2, <2>1, MinOf
  <2>3. Least(S) = Min(S)
    BY <1>2 DEF Least
  <2>4. Least(S) \in Nat
    BY <2>2, <2>3
  <2> QED BY <1>2, <2>2, <2>3, <2>4 DEF NoKey
<1> QED
  BY <1>1, <1>2

LEMMA GreatestOf ==
  ASSUME NEW S, S \subseteq Nat, IsFiniteSet(S)
  PROVE  IF S = {} THEN Greatest(S) = NoKey
         ELSE Greatest(S) \in S /\ Greatest(S) # NoKey /\ \A y \in S : y <= Greatest(S)
<1>1. CASE S = {}
  BY <1>1 DEF Greatest
<1>2. CASE S # {}
  <2>1. S \subseteq Int /\ \A y \in S : y \in Int
    OBVIOUS
  <2>2. Max(S) \in S /\ \A y \in S : Max(S) >= y
    BY <1>2, <2>1, MaxOf
  <2>3. Greatest(S) = Max(S)
    BY <1>2 DEF Greatest
  <2>4. Greatest(S) \in Nat
    BY <2>2, <2>3
  <2>5. \A y \in S : y <= Max(S)
    BY <2>1, <2>2
  <2> QED BY <1>2, <2>2, <2>3, <2>4, <2>5 DEF NoKey
<1> QED
  BY <1>1, <1>2

LEMMA DbFinite ==
  ASSUME StoreInv
  PROVE  DOMAIN db \subseteq Nat /\ \A D \in SUBSET DOMAIN db : IsFiniteSet(D) /\ D \subseteq Nat
<1>1. DOMAIN db \subseteq Nat
  BY LocalOfSlice
<1> QED
  BY <1>1, FS_Subset DEF StoreInv

(* From a key of the store LevelDB steps to the neighbour of that key. *)
LEMMA NextFromKey ==
  ASSUME NEW D, D \subseteq Nat, NEW k \in D
  PROVE  /\ mdhim_leveldb_get_next(D, k) = Least({x \in D : x > k})
         /\ mdhim_leveldb_get_prev(D, k) = Greatest({x \in D : x < k})
<1> DEFINE S == {x \in D : x >= k}
<1>1. S \subseteq Int /\ k \in S /\ \A y \in S : k <= y
  <2>1. k \in Int /\ \A x \in D : x \in Int
    OBVIOUS
  <2>2. \A y \in S : y \in Int /\ k <= y
    BY <2>1
  <2>3. k \in S
    BY <2>1
  <2> HIDE DEF S
  <2> QED BY <2>2, <2>3
<1>2. Least(S) = k
  <2> HIDE DEF S
  <2> QED BY <1>1, LeastIs
<1>3. Seek(D, k) = k /\ k # NoKey
  BY <1>2 DEF Seek, NoKey
<1> QED
  BY <1>3 DEF mdhim_leveldb_get_next, mdhim_leveldb_get_prev

(* A cursor operation whose statistics reach beyond the key stays in the     *)
(* slice of the key.                                                         *)
LEMMA CursorServer ==
  ASSUME StoreInv, NEW k \in DOMAIN db, SliceOf(k) \in DOMAIN stats, NEW op \in {"next", "prev"},
         op = "next" => StatNum[k] < stats[SliceOf(k)].max,
         op = "prev" => stats[SliceOf(k)].min < StatNum[k]
  PROVE  get_range_server_from_stats(stats, k, op) = get_range_server(k)
<1> DEFINE q == SliceOf(k)
<1>1. k # NoKey /\ q # NoSlice /\ DOMAIN stats # {} /\ q = get_slice_num(k)
  BY LocalOfSlice DEF NoKey, NoSlice, SliceOf
<1>2. StatNum[k] \in Int /\ stats[q].max \in Int /\ stats[q].min \in Int
  BY LocalOfSlice, StatNumType DEF StoreInv, TypeOK, IsMap, Stat
<1>3. get_slice_from_fstat(stats, q, StatNum[k], op) = q
  <2>1. CASE op = "next"
    BY <1>1, <1>2, <2>1 DEF get_slice_from_fstat
  <2>2. CASE op = "prev"
    BY <1>1, <1>2, <2>2 DEF get_slice_from_fstat
  <2> QED BY <2>1, <2>2
<1>4. get_range_server_from_stats(stats, k, op) = get_range_server_by_slice(q)
  BY <1>1, <1>3 DEF get_range_server_from_stats, get_slice_from_istat
<1> QED
  BY <1>4, LocalOfSlice

LEMMA SliceCursors == KeyType # "byte" /\ StoreInv => CursorInSlice
<1> SUFFICES ASSUME KeyType # "byte", StoreInv, NEW k \in DOMAIN db, SliceOf(k) \in DOMAIN stats
             PROVE  LET q == SliceOf(k)
                        n == Succ(DOMAIN db, k)
                        p == Pred(DOMAIN db, k)
                        Beside(x) == x # NoKey /\ SliceOf(x) = q /\ StatNum[x] # StatNum[k]
                    IN /\ Beside(n) /\ StatNum[n] <= stats[q].max => mdhimGet(k, "next") = n
                       /\ Beside(p) /\ StatNum[p] >= stats[q].min => mdhimGet(k, "prev") = p
  BY DEF CursorInSlice
<1> DEFINE q == SliceOf(k)
           n == Succ(DOMAIN db, k)
           p == Pred(DOMAIN db, k)
           s == get_range_server(k)
<1>0. /\ k \in Keyed /\ k \in Nat /\ verify_key(k) /\ k \in Local(s) /\ s # NoServer
      /\ s = get_range_server_by_slice(q) /\ Local(s) \subseteq DOMAIN db
  BY LocalOfSlice, ServerIsRank DEF Local
<1>1. DOMAIN db \subseteq Nat
  BY DbFinite
<1>2. stats[q].max \in Int /\ stats[q].min \in Int
  BY DEF StoreInv, TypeOK, IsMap, Stat
<1>3. ASSUME n # NoKey, SliceOf(n) = q, StatNum[n] # StatNum[k], StatNum[n] <= stats[q].max
      PROVE  mdhimGet(k, "next") = n
  <2> DEFINE S == {x \in DOMAIN db : x > k}
             L == {x \in Local(s) : x > k}
  <2>1. n \in S /\ \A y \in S : n <= y
    <3>1. S \in SUBSET DOMAIN db
      OBVIOUS
    <3>2. IsFiniteSet(S) /\ S \subseteq Nat /\ n = Least(S)
      BY <3>1, DbFinite DEF Succ
    <3> HIDE DEF S, n
    <3> QED BY <1>3, <3>2, LeastOf
  <2>2. n \in DOMAIN db /\ n > k
    BY <2>1
  <2> HIDE DEF n
  <2>3. n \in Keyed /\ verify_key(n) /\ n \in Local(s)
    BY <1>0, <1>3, <2>2, LocalOfSlice
  <2>4. StatNum[k] <= StatNum[n] /\ StatNum[k] \in Int /\ StatNum[n] \in Int
    BY <1>0, <2>2, <2>3, StatNumOrder, StatNumType
  <2>5. StatNum[k] < stats[q].max
    BY <1>2, <1>3, <2>4
  <2>6. get_range_server_from_stats(stats, k, "next") = s
    BY <2>5, CursorServer
  <2>7. mdhimGet(k, "next") = mdhim_leveldb_get_next(Local(s), k)
    BY <1>0, <2>6 DEF mdhimGet, range_server_get
  <2>8. L \subseteq Int /\ n \in L /\ \A y \in L : n <= y
    BY <1>0, <1>1, <2>1, <2>2, <2>3
  <2>9. Least(L) = n
    <3> HIDE DEF L
    <3> QED BY <2>8, LeastIs
  <2>10. Local(s) \subseteq Nat
    BY <1>0, <1>1
  <2> QED BY <1>0, <2>7, <2>9, <2>10, NextFromKey
<1>4. ASSUME p # NoKey, SliceOf(p) = q, StatNum[p] # StatNum[k], StatNum[p] >= stats[q].min
      PROVE  mdhimGet(k, "prev") = p
  <2> DEFINE S == {x \in DOMAIN db : x < k}
             L == {x \in Local(s) : x < k}
  <2>1. p \in S /\ \A y \in S : y <= p
    <3>1. S \in SUBSET DOMAIN db
      OBVIOUS
    <3>2. IsFiniteSet(S) /\ S \subseteq Nat /\ p = Greatest(S)
      BY <3>1, DbFinite DEF Pred
    <3> HIDE DEF S, p
    <3> QED BY <1>4, <3>2, GreatestOf
  <2>2. p \in DOMAIN db /\ p < k
    BY <2>1
  <2> HIDE DEF p
  <2>3. p \in Keyed /\ verify_key(p) /\ p \in Local(s)
    BY <1>0, <1>4, <2>2, LocalOfSlice
  <2>4. StatNum[p] <= StatNum[k] /\ StatNum[k] \in Int /\ StatNum[p] \in Int
    BY <1>0, <2>2, <2>3, StatNumOrder, StatNumType
  <2>5. stats[q].min < StatNum[k]
    BY <1>2, <1>4, <2>4
  <2>6. get_range_server_from_stats(stats, k, "prev") = s
    BY <2>5, CursorServer
  <2>7. mdhimGet(k, "prev") = mdhim_leveldb_get_prev(Local(s), k)
    BY <1>0, <2>6 DEF mdhimGet, range_server_get
  <2>8. L \subseteq Int /\ p \in L /\ \A y \in L : p >= y
    BY <1>0, <1>1, <2>1, <2>2, <2>3
  <2>9. Greatest(L) = p
    <3> HIDE DEF L
    <3> QED BY <2>8, GreatestIs
  <2>10. Local(s) \subseteq Nat
    BY <1>0, <1>1
  <2> QED BY <1>0, <2>7, <2>9, <2>10, NextFromKey
<1> QED
  BY <1>3, <1>4

(* Cursor steps inside a slice are exact with statistics of any age, for     *)
(* int, float and string keys.  For byte keys this is not so: their numbers  *)
(* do not follow their order.                                                *)
THEOREM CursorSteps == KeyType # "byte" /\ Spec => []CursorInSlice
<1> SUFFICES ASSUME KeyType # "byte" PROVE Spec => []CursorInSlice
  OBVIOUS
<1>1. StoreInv => CursorInSlice
  BY SliceCursors
<1> QED
  BY <1>1, StoreInvariant, PTL

LEMMA EndCursors == SlicesFollowKeys /\ StoreInv => CursorEnds
<1> SUFFICES ASSUME SlicesFollowKeys, StoreInv, DOMAIN db # {},
                    DOMAIN stats = {SliceOf(k) : k \in DOMAIN db}
             PROVE  /\ mdhimGet(NoKey, "first") = Min(DOMAIN db)
                    /\ mdhimGet(NoKey, "last") = Max(DOMAIN db)
  BY DEF CursorEnds
<1>1. /\ DOMAIN db \subseteq Int /\ IsFiniteSet(DOMAIN db) /\ DOMAIN stats # {}
      /\ DOMAIN stats \subseteq Int
  BY DbFinite DEF StoreInv, TypeOK, IsMap
<1>2. ASSUME NEW j \in DOMAIN db, NEW k \in DOMAIN db, j <= k PROVE SliceOf(j) <= SliceOf(k)
  <2>1. /\ j \in Keyed /\ k \in Keyed /\ verify_key(j) /\ verify_key(k) /\ j \in Nat /\ k \in Nat
        /\ SliceOf(j) \in Nat /\ SliceOf(k) \in Nat
    BY LocalOfSlice
  <2>2. CASE j < k
    BY <2>1, <2>2, SliceOrder DEF SliceOf
  <2>3. CASE j = k
    BY <2>1, <2>3
  <2> QED BY <1>2, <2>1, <2>2, <2>3
<1>3. mdhimGet(NoKey, "first") = Min(DOMAIN db)
  <2> DEFINE k == Min(DOMAIN db)  q == SliceOf(k)  s == get_range_server(k)
  <2>1. k \in DOMAIN db /\ \A y \in DOMAIN db : k <= y
    BY <1>1, MinOf
  <2> HIDE DEF k
  <2>2. q \in DOMAIN stats /\ \A y \in DOMAIN stats : q <= y
    BY <1>2, <2>1
  <2>3. get_first_slice_stat(stats) = q
    BY <1>1, <2>2, LeastIs DEF get_first_slice_stat
  <2>4. q # NoSlice /\ s # NoServer /\ s = get_range_server_by_slice(q) /\ k \in Local(s)
    BY <2>1, LocalOfSlice, ServerIsRank DEF NoSlice
  <2>5. get_slice_from_fstat(stats, 0, 0, "first") = q
    BY <2>3, <2>4 DEF get_slice_from_fstat
  <2>6. get_range_server_from_stats(stats, NoKey, "first") = s
    BY <1>1, <2>4, <2>5 DEF get_range_server_from_stats, get_slice_from_istat, NoSlice
  <2>7. mdhimGet(NoKey, "first") = Least(Local(s))
    BY <2>4, <2>6 DEF mdhimGet, range_server_get, mdhim_leveldb_get_next
  <2>8. Local(s) \subseteq DOMAIN db
    BY DEF Local
  <2>9. Least(Local(s)) = k
    BY <1>1, <2>1, <2>4, <2>8, LeastIs
  <2> QED BY <2>7, <2>9 DEF k
<1>4. mdhimGet(NoKey, "last") = Max(DOMAIN db)
  <2> DEFINE k == Max(DOMAIN db)  q == SliceOf(k)  s == get_range_server(k)
  <2>1. k \in DOMAIN db /\ \A y \in DOMAIN db : k >= y
    BY <1>1, MaxOf
  <2>a. \A y \in DOMAIN db : y <= k
    BY <1>1, <2>1
  <2> HIDE DEF k
  <2>b. \A y \in DOMAIN db : SliceOf(y) \in Int
    BY LocalOfSlice
  <2>2. q \in DOMAIN stats /\ \A y \in DOMAIN stats : q >= y
    BY <1>2, <2>1, <2>a, <2>b
  <2>3. get_last_slice_stat(stats) = q
    BY <1>1, <2>2, GreatestIs DEF get_last_slice_stat
  <2>4. q # NoSlice /\ s # NoServer /\ s = get_range_server_by_slice(q) /\ k \in Local(s)
    BY <2>1, LocalOfSlice, ServerIsRank DEF NoSlice
  <2>5. get_slice_from_fstat(stats, 0, 0, "last") = q
    BY <2>3, <2>4 DEF get_slice_from_fstat
  <2>6. get_range_server_from_stats(stats, NoKey, "last") = s
    BY <1>1, <2>4, <2>5 DEF get_range_server_from_stats, get_slice_from_istat, NoSlice
  <2>7. mdhimGet(NoKey, "last") = Greatest(Local(s))
    BY <2>4, <2>6 DEF mdhimGet, range_server_get, mdhim_leveldb_get_prev
  <2>8. Local(s) \subseteq DOMAIN db
    BY DEF Local
  <2>9. Greatest(Local(s)) = k
    BY <1>1, <2>1, <2>4, <2>8, GreatestIs
  <2> QED BY <2>7, <2>9 DEF k
<1> QED
  BY <1>3, <1>4

(* The first and the last record are found as soon as the flushed statistics *)
(* name exactly the slices with records, when slices follow the keys.        *)
THEOREM CursorFindsEnds == SlicesFollowKeys /\ Spec => []CursorEnds
<1> SUFFICES ASSUME SlicesFollowKeys PROVE Spec => []CursorEnds
  OBVIOUS
<1>1. StoreInv => CursorEnds
  BY EndCursors
<1> QED
  BY <1>1, StoreInvariant, PTL

-----------------------------------------------------------------------------
(* Scans. *)

(* Does a scan meet y after x? *)
Ahead(x, y, forward) == IF forward THEN x < y ELSE y < x

(* y is the element of S a scan meets next after x, or NoKey. *)
Neighbour(S, x, y, forward) ==
  \/ y = NoKey /\ \A z \in S : ~Ahead(x, z, forward)
  \/ /\ y \in S /\ Ahead(x, y, forward)
     /\ \A z \in S : Ahead(x, z, forward) => z = y \/ Ahead(y, z, forward)

LEMMA AheadOrder ==
  ASSUME NEW x \in Nat, NEW y \in Nat, NEW z \in Nat, NEW f \in BOOLEAN
  PROVE  /\ ~Ahead(x, x, f)
         /\ Ahead(x, y, f) /\ Ahead(y, z, f) => Ahead(x, z, f)
BY DEF Ahead

(* cur starts with k and goes from neighbour to neighbour. *)
IsWalk(cur, N, S, k, forward) ==
  /\ cur[0] = k
  /\ \A i \in 1..N : /\ cur[i-1] = NoKey => cur[i] = NoKey
                     /\ cur[i-1] \in S => Neighbour(S, cur[i-1], cur[i], forward)

(* The first i steps of the walk lie in S, in order and without gap. *)
Walked(cur, i, S, forward) ==
  /\ \A j \in 0..i : cur[j] \in S
  /\ \A j, l \in 0..i : j < l => Ahead(cur[j], cur[l], forward)
  /\ \A x \in S : (\E j \in 0..i : cur[j] = x) \/ Ahead(cur[i], x, forward)

LEMMA WalkInduction ==
  ASSUME NEW S, S \subseteq Nat, NEW N \in Nat, NEW k \in S, NEW f \in BOOLEAN,
         \A x \in S : x = k \/ Ahead(k, x, f),
         NEW cur, IsWalk(cur, N, S, k, f)
  PROVE  \A i \in 0..N : cur[i] = NoKey \/ Walked(cur, i, S, f)
<1> DEFINE T == {i \in 0..N : cur[i] = NoKey \/ Walked(cur, i, S, f)}
<1>1. 0 \in T
  <2>1. cur[0] = k /\ 0..0 = {0} /\ 0 \in 0..N
    BY DEF IsWalk
  <2>2. Walked(cur, 0, S, f)
    BY <2>1 DEF Walked
  <2> QED BY <2>1, <2>2
<1>2. ASSUME NEW i \in 0..N - 1, i \in T PROVE i + 1 \in T
  <2> DEFINE h == i + 1
  <2>1. h \in 1..N /\ h \in 0..N /\ h - 1 = i /\ i \in Nat /\ 0..h = (0..i) \cup {h} /\ i \in 0..i
    OBVIOUS
  <2>2. \A j \in 0..i : j < h
    BY <2>1
  <2> HIDE DEF h
  <2>3. CASE cur[i] = NoKey
    BY <2>1, <2>3 DEF IsWalk, h
  <2>4. CASE Walked(cur, i, S, f) /\ cur[h] # NoKey
    <3>1. cur[i] \in S
      BY <2>1, <2>4 DEF Walked
    <3>2. /\ cur[h] \in S /\ Ahead(cur[i], cur[h], f)
          /\ \A z \in S : Ahead(cur[i], z, f) => z = cur[h] \/ Ahead(cur[h], z, f)
      BY <2>1, <2>4, <3>1 DEF IsWalk, Neighbour
    <3>3. \A j \in 0..h : cur[j] \in S
      BY <2>1, <2>4, <3>2 DEF Walked
    <3>4. ASSUME NEW j \in 0..i PROVE Ahead(cur[j], cur[h], f)
      <4>1. j = i \/ Ahead(cur[j], cur[i], f)
        BY <2>1, <2>4 DEF Walked
      <4>2. cur[j] \in Nat /\ cur[i] \in Nat /\ cur[h] \in Nat
        BY <2>1, <3>3
      <4> QED BY <3>2, <4>1, <4>2, AheadOrder
    <3>5. ASSUME NEW j \in 0..h, NEW l \in 0..h, j < l PROVE Ahead(cur[j], cur[l], f)
      <4>1. j \in 0..i
        BY <2>1, <3>5
      <4>2. CASE l = h
        BY <3>4, <4>1, <4>2
      <4>3. CASE l \in 0..i
        BY <2>4, <3>5, <4>1, <4>3 DEF Walked
      <4> QED BY <2>1, <4>2, <4>3
    <3>6. ASSUME NEW x \in S PROVE (\E j \in 0..h : cur[j] = x) \/ Ahead(cur[h], x, f)
      <4>1. CASE \E j \in 0..i : cur[j] = x
        BY <2>1, <4>1
      <4>2. CASE Ahead(cur[i], x, f)
        BY <2>1, <3>2, <4>2
      <4> QED BY <2>4, <4>1, <4>2 DEF Walked
    <3> QED BY <2>1, <3>3, <3>5, <3>6 DEF Walked, h
  <2>5. CASE cur[h] = NoKey
    BY <2>1, <2>5 DEF h
  <2> QED BY <1>2, <2>3, <2>4, <2>5
<1> HIDE DEF T
<1>3. \A i \in 0..N : i \in T
  BY <1>1, <1>2, UpTo
<1> QED
  BY <1>3 DEF T

(* The walk consists of its first m + 1 steps and stops there, or before the *)
(* bound because S has no more elements.                                     *)
Extent(cur, m, N, S, forward) ==
  /\ Walked(cur, m, S, forward)
  /\ {i \in 0..N : cur[i] # NoKey} = 0..m
  /\ m < N => S = {cur[i] : i \in 0..m}

(* A walk visits S up to its end or up to N + 1 elements. *)
LEMMA WalkExtent ==
  ASSUME NEW S, S \subseteq Nat, NEW N \in Nat, NEW k \in S, NEW f \in BOOLEAN,
         \A x \in S : x = k \/ Ahead(k, x, f),
         NEW cur, IsWalk(cur, N, S, k, f)
  PROVE  \E m \in 0..N : Extent(cur, m, N, S, f)
<1>1. \A i \in 0..N : cur[i] = NoKey \/ Walked(cur, i, S, f)
  BY WalkInduction
<1>2. NoKey \notin S
  <2>1. -1 \notin Nat
    OBVIOUS
  <2> QED BY <2>1 DEF NoKey
<1>3. cur[0] # NoKey
  BY <1>2 DEF IsWalk
<1>4. CASE \A i \in 0..N : cur[i] # NoKey
  <2>1. N \in 0..N /\ {i \in 0..N : cur[i] # NoKey} = 0..N
    BY <1>4
  <2> QED BY <1>1, <1>4, <2>1 DEF Extent
<1>5. CASE \E i \in 0..N : cur[i] = NoKey
  <2> DEFINE E == {i \in 0..N : cur[i] = NoKey}
  <2>1. PICK e \in E : \A y \in E : e <= y
    <3>1. E \in SUBSET Nat /\ E # {}
      BY <1>5
    <3> HIDE DEF E
    <3> QED BY <3>1, LeastNat
  <2> DEFINE m == e - 1
  <2>2. e \in 1..N /\ m \in 0..N /\ m < N /\ m \in Nat /\ m + 1 = e /\ cur[e] = NoKey
    BY <1>3, <2>1
  <2>3. ASSUME NEW i \in 0..m PROVE i \in 0..N /\ cur[i] # NoKey
    BY <2>1, <2>2
  <2>4. ASSUME NEW i \in 0..N, i > m PROVE cur[i] = NoKey
    <3> DEFINE T == {j \in 0..N - e : cur[e + j] = NoKey}
    <3>1. 0 \in T /\ N - e \in Nat
      BY <2>2
    <3>2. ASSUME NEW j \in 0 .. (N - e) - 1, j \in T PROVE j + 1 \in T
      <4>1. e + (j + 1) \in 1..N /\ (e + (j + 1)) - 1 = e + j /\ j + 1 \in 0..N - e
        BY <2>2
      <4> QED BY <3>2, <4>1 DEF IsWalk
    <3> HIDE DEF T
    <3>3. \A j \in 0..N - e : j \in T
      BY <3>1, <3>2, UpTo
    <3>4. i - e \in 0..N - e /\ e + (i - e) = i
      BY <2>2, <2>4
    <3> QED BY <3>3, <3>4 DEF T
  <2> HIDE DEF m
  <2>5. {i \in 0..N : cur[i] # NoKey} = 0..m
    BY <2>2, <2>3, <2>4
  <2>6. Walked(cur, m, S, f)
    BY <1>1, <2>2, <2>3
  <2>7. cur[m] \in S
    BY <2>2, <2>6 DEF Walked
  <2>8. \A z \in S : ~Ahead(cur[m], z, f)
    <3>1. Neighbour(S, cur[m], cur[e], f)
      <4>1. e - 1 = m
        BY <2>2
      <4> QED BY <2>2, <2>7, <4>1 DEF IsWalk
    <3> QED BY <1>2, <2>2, <3>1 DEF Neighbour
  <2>9. S = {cur[i] : i \in 0..m}
    BY <2>6, <2>8 DEF Walked
  <2> QED BY <2>2, <2>5, <2>6, <2>9 DEF Extent
<1> QED
  BY <1>4, <1>5

(* The steps of a walk are a scan of S. *)
LEMMA WalkScan ==
  ASSUME NEW S, S \subseteq Nat, IsFiniteSet(S), NEW N \in Nat, NEW k \in S, NEW f \in BOOLEAN,
         \A x \in S : x = k \/ Ahead(k, x, f),
         NEW cur, IsWalk(cur, N, S, k, f)
  PROVE  IsScan([i \in 1 .. Cardinality({i \in 0..N : cur[i] # NoKey}) |-> cur[i-1]], S, N + 1, f)
<1>0. PICK m \in 0..N : Extent(cur, m, N, S, f)
  BY WalkExtent
<1> DEFINE C == {i \in 0..N : cur[i] # NoKey}
<1>1. /\ Walked(cur, m, S, f)
      /\ C = 0..m
      /\ m < N => S = {cur[i] : i \in 0..m}
  BY <1>0 DEF Extent
<1> DEFINE c == m + 1
           r == [i \in 1..c |-> cur[i-1]]
<1>2. m \in Nat /\ c \in Nat /\ Cardinality(C) = c
  <2>1. m \in Int /\ 0 \in Int /\ m \in Nat /\ c \in Nat /\ 0 <= m
    OBVIOUS
  <2>2. Cardinality(0..m) = IF 0 > m THEN 0 ELSE m - 0 + 1
    BY <2>1, FS_Interval
  <2>3. Cardinality(0..m) = c
    BY <2>1, <2>2
  <2> QED BY <1>1, <2>1, <2>3
<1>3. /\ \A j \in 0..m : cur[j] \in S /\ cur[j] \in Nat
      /\ \A j, l \in 0..m : j < l => Ahead(cur[j], cur[l], f)
      /\ \A x \in S : (\E j \in 0..m : cur[j] = x) \/ Ahead(cur[m], x, f)
  BY <1>1 DEF Walked
<1>4. Len(r) = c /\ DOMAIN r = 1..c /\ \A i \in 1..c : r[i] = cur[i-1] /\ i - 1 \in 0..m
  BY <1>2
<1>5. Cardinality(S) \in Nat
  BY FS_CardinalityType
<1>6. c <= Cardinality(S) /\ (S = {cur[i] : i \in 0..m} => Cardinality(S) = c)
  <2> DEFINE V == {cur[i] : i \in 0..m}
             g == [i \in 0..m |-> cur[i]]
  <2>1. \A i, j \in 0..m : cur[i] = cur[j] => i = j
    <3> SUFFICES ASSUME NEW i \in 0..m, NEW j \in 0..m, i < j PROVE cur[i] # cur[j]
      BY <1>2
    <3>1. Ahead(cur[i], cur[j], f) /\ cur[i] \in Nat /\ cur[j] \in Nat
      BY <1>3
    <3> QED BY <3>1, AheadOrder
  <2>2. g \in Bijection(0..m, V)
    BY <2>1 DEF Bijection, Injection, Surjection, IsInjective
  <2>3. IsFiniteSet(0..m) /\ Cardinality(0..m) = c
    BY <1>1, <1>2, FS_Interval
  <2>4. V \in SUBSET S
    BY <1>3
  <2> HIDE DEF V, g
  <2>5. IsFiniteSet(V) /\ Cardinality(V) = c
    <3>1. ExistsBijection(0..m, V)
      BY <2>2 DEF ExistsBijection
    <3> QED BY <2>3, <3>1, FS_Bijection
  <2>6. Cardinality(V) <= Cardinality(S)
    BY <2>4, FS_Subset
  <2> QED BY <2>5, <2>6 DEF V
<1>7. Min({N + 1, Cardinality(S)}) = c
  <2>1. CASE m < N
    <3>1. Cardinality(S) = c /\ c < N + 1 /\ c \in Int
      BY <1>1, <1>2, <1>6, <2>1
    <3> DEFINE Q == {N + 1, Cardinality(S)}
    <3>2. Q \subseteq Int /\ c \in Q /\ \A y \in Q : c <= y
      BY <3>1
    <3> HIDE DEF Q, c
    <3> QED BY <3>2, MinIs DEF Q
  <2>2. CASE m = N
    <3>1. N + 1 = c /\ c <= Cardinality(S) /\ c \in Int
      BY <1>2, <1>6, <2>2
    <3> DEFINE Q == {N + 1, Cardinality(S)}
    <3>2. Q \subseteq Int /\ c \in Q /\ \A y \in Q : c <= y
      BY <1>5, <3>1
    <3> HIDE DEF Q, c
    <3> QED BY <3>2, MinIs DEF Q
  <2> QED BY <1>2, <2>1, <2>2
<1>8. \A i \in DOMAIN r : r[i] \in S
  BY <1>3, <1>4
<1>9. ASSUME NEW i \in DOMAIN r, NEW j \in DOMAIN r, i < j
      PROVE  IF f THEN r[i] < r[j] ELSE r[i] > r[j]
  <2>1. /\ i - 1 \in 0..m /\ j - 1 \in 0..m /\ i - 1 < j - 1
        /\ r[i] = cur[i - 1] /\ r[j] = cur[j - 1]
    BY <1>2, <1>4, <1>9
  <2>2. Ahead(r[i], r[j], f) /\ r[i] \in Nat /\ r[j] \in Nat
    BY <1>3, <2>1
  <2> HIDE DEF r
  <2> QED BY <2>2 DEF Ahead
<1>10. ASSUME NEW x \in S, \A i \in DOMAIN r : r[i] # x, NEW i \in DOMAIN r
       PROVE  IF f THEN x > r[i] ELSE x < r[i]
  <2>1. ASSUME NEW j \in 0..m PROVE cur[j] # x
    <3>1. j + 1 \in 1..c /\ (j + 1) - 1 = j
      BY <1>2
    <3>2. r[j + 1] = cur[j] /\ j + 1 \in DOMAIN r
      BY <1>4, <3>1
    <3> QED BY <1>10, <3>2
  <2>2. Ahead(cur[m], x, f)
    BY <1>3, <2>1
  <2>3. i - 1 \in 0..m /\ r[i] = cur[i - 1] /\ m \in 0..m
    BY <1>2, <1>4
  <2>4. i - 1 = m \/ Ahead(cur[i - 1], cur[m], f)
    BY <1>2, <1>3, <2>3
  <2>5. cur[i - 1] \in Nat /\ cur[m] \in Nat /\ x \in Nat
    BY <1>3, <2>3
  <2>6. Ahead(r[i], x, f)
    BY <2>2, <2>3, <2>4, <2>5, AheadOrder
  <2> HIDE DEF r
  <2> QED BY <2>3, <2>5, <2>6 DEF Ahead
<1>11. \A x \in S \ {r[i] : i \in DOMAIN r} : \A i \in DOMAIN r : IF f THEN x > r[i] ELSE x < r[i]
  <2> HIDE DEF r
  <2> QED BY <1>10
<1>12. IsScan(r, S, N + 1, f)
  <2> HIDE DEF r, c
  <2> QED BY <1>4, <1>7, <1>8, <1>9, <1>11 DEF IsScan
<1> QED
  BY <1>2, <1>12

(* From a key of D the next key of D is the neighbour a forward walk of the *)
(* keys from k on makes, and the same backwards.                             *)
LEMMA StepIsNeighbour ==
  ASSUME NEW D, D \subseteq Nat, IsFiniteSet(D), NEW k \in D
  PROVE  /\ \A x \in {y \in D : y >= k} :
              Neighbour({y \in D : y >= k}, x, mdhim_leveldb_get_next(D, x), TRUE)
         /\ \A x \in {y \in D : y <= k} :
              Neighbour({y \in D : y <= k}, x, mdhim_leveldb_get_prev(D, x), FALSE)
<1>1. ASSUME NEW x \in D, x >= k
      PROVE  Neighbour({y \in D : y >= k}, x, mdhim_leveldb_get_next(D, x), TRUE)
  <2> DEFINE R == {y \in D : y > x}
             v == Least(R)
  <2>1. mdhim_leveldb_get_next(D, x) = v
    BY NextFromKey
  <2>2. R \subseteq D /\ R \subseteq Nat /\ IsFiniteSet(R)
    BY FS_Subset
  <2>3. CASE R = {}
    <3>1. v = NoKey
      BY <2>2, <2>3, LeastOf
    <3>2. \A z \in D : ~(x < z)
      BY <2>3
    <3> QED BY <2>1, <3>1, <3>2 DEF Neighbour, Ahead
  <2>4. CASE R # {}
    <3>1. v \in R /\ \A y \in R : v <= y
      BY <2>2, <2>4, LeastOf
    <3> HIDE DEF v
    <3>2. v \in D /\ v > x /\ v \in Nat /\ x \in Nat /\ k \in Nat
      BY <3>1
    <3>3. v >= k
      BY <1>1, <3>2
    <3>4. ASSUME NEW z \in D, x < z PROVE z = v \/ v < z
      BY <3>1, <3>2, <3>4
    <3> QED BY <2>1, <3>2, <3>3, <3>4 DEF Neighbour, Ahead
  <2> QED BY <2>3, <2>4
<1>2. ASSUME NEW x \in D, x <= k
      PROVE  Neighbour({y \in D : y <= k}, x, mdhim_leveldb_get_prev(D, x), FALSE)
  <2> DEFINE R == {y \in D : y < x}
             v == Greatest(R)
  <2>1. mdhim_leveldb_get_prev(D, x) = v
    BY NextFromKey
  <2>2. R \subseteq D /\ R \subseteq Nat /\ IsFiniteSet(R)
    BY FS_Subset
  <2>3. CASE R = {}
    <3>1. v = NoKey
      BY <2>2, <2>3, GreatestOf
    <3>2. \A z \in D : ~(z < x)
      BY <2>3
    <3> QED BY <2>1, <3>1, <3>2 DEF Neighbour, Ahead
  <2>4. CASE R # {}
    <3>1. v \in R /\ \A y \in R : y <= v
      BY <2>2, <2>4, GreatestOf
    <3> HIDE DEF v
    <3>2. v \in D /\ v < x /\ v \in Nat /\ x \in Nat /\ k \in Nat
      BY <3>1
    <3>3. v <= k
      BY <1>2, <3>2
    <3>4. ASSUME NEW z \in D, z < x PROVE z = v \/ z < v
      BY <3>1, <3>2, <3>4
    <3> QED BY <2>1, <3>2, <3>3, <3>4 DEF Neighbour, Ahead
  <2> QED BY <2>3, <2>4
<1> QED
  BY <1>1, <1>2

(* The key a scan reads after x. *)
ScanStep(D, x, forward) ==
  IF x = NoKey THEN NoKey
  ELSE IF forward THEN mdhim_leveldb_get_next(D, x) ELSE mdhim_leveldb_get_prev(D, x)

(* cur lists the keys a scan of n records of D from key reads, and r is the  *)
(* response made of them.                                                    *)
ScanRun(cur, D, key, n, forward, r) ==
  /\ cur[0] = key
  /\ \A i \in 1..(n-1) : cur[i] = ScanStep(D, cur[i-1], forward)
  /\ r = [i \in 1 .. Cardinality({i \in 0..(n-1) : cur[i] # NoKey}) |-> cur[i-1]]

(* The recursive function of range_server_bget_op exists and runs the scan.  *)
LEMMA ScanSteps ==
  ASSUME NEW s, NEW n \in Nat, n >= 1, NEW op \in {"next", "prev"},
         NEW k \in Local(s), Found(Local(s), k), Local(s) \subseteq Nat, IsFiniteSet(Local(s))
  PROVE  \E cur : ScanRun(cur, Local(s), k, n, op = "next", range_server_bget_op(s, k, n, op))
<1> DEFINE D == Local(s)
           fw == op \in {"first", "next"}
           A == D \cup {NoKey}
           N == n - 1
           F == [i \in 1..N |-> [x \in A |-> ScanStep(D, x, fw)]]
           Def(g) == g = [i \in 0..(n-1) |->
                            IF i = 0 THEN IF Found(D, k) THEN k ELSE NoKey
                            ELSE IF g[i-1] = NoKey THEN NoKey
                            ELSE IF fw THEN mdhim_leveldb_get_next(D, g[i-1])
                                       ELSE mdhim_leveldb_get_prev(D, g[i-1])]
           cur == CHOOSE g : Def(g)
<1>1. N \in Nat /\ k \in A /\ fw \in BOOLEAN /\ fw = (op = "next") /\ N = n - 1
  OBVIOUS
<1>2. ASSUME NEW x \in A PROVE ScanStep(D, x, fw) \in A
  <2>1. CASE x = NoKey
    BY <2>1 DEF ScanStep
  <2>2. CASE x # NoKey
    <3>1. /\ Neighbour({y \in D : y >= x}, x, mdhim_leveldb_get_next(D, x), TRUE)
          /\ Neighbour({y \in D : y <= x}, x, mdhim_leveldb_get_prev(D, x), FALSE)
      <4>1. x \in D /\ D \subseteq Nat /\ IsFiniteSet(D)
        BY <2>2
      <4>2. x >= x /\ x <= x
        BY <4>1
      <4> HIDE DEF D
      <4> QED BY <4>1, <4>2, StepIsNeighbour
    <3>2. mdhim_leveldb_get_next(D, x) \in A /\ mdhim_leveldb_get_prev(D, x) \in A
      BY <3>1 DEF Neighbour
    <3> QED BY <2>2, <3>2 DEF ScanStep
  <2> QED BY <2>1, <2>2
<1> HIDE DEF A, N, D, fw
<1>3. F \in [1..N -> [A -> A]]
  BY <1>2
<1>4. \E f : Iteration(f, N, A, k, F)
  <2> HIDE DEF F
  <2> QED BY <1>1, <1>3, Iterate
<1>5. PICK f : f \in [0..N -> A] /\ f[0] = k /\ \A i \in 1..N : f[i] = F[i][f[i-1]]
  BY <1>4 DEF Iteration
<1>6. Def(f)
  <2>1. ASSUME NEW i \in 0..N, i # 0 PROVE f[i] = ScanStep(D, f[i - 1], fw)
    <3>1. i \in 1..N /\ f[i-1] \in A
      BY <1>1, <1>5, <2>1
    <3>2. F[i][f[i-1]] = ScanStep(D, f[i - 1], fw)
      BY <3>1
    <3> QED BY <1>5, <3>1, <3>2
  <2>2. Found(D, k)
    BY DEF D
  <2> QED BY <1>1, <1>5, <2>1, <2>2 DEF ScanStep
<1>7. Def(cur)
  <2> HIDE DEF Def
  <2> QED BY <1>6
<1>8. range_server_bget_op(s, k, n, op)
        = [i \in 1 .. Cardinality({i \in 0..(n-1) : cur[i] # NoKey}) |-> cur[i-1]]
  BY Zenon DEF range_server_bget_op, D, fw
<1> HIDE DEF cur
<1>9. cur[0] = k
  <2>1. 0 \in 0..(n-1) /\ Found(D, k)
    BY <1>1 DEF D
  <2> QED BY <1>7, <2>1
<1>10. ASSUME NEW i \in 1..(n-1) PROVE cur[i] = ScanStep(D, cur[i-1], op = "next")
  <2>1. i \in 0..(n-1) /\ i # 0
    OBVIOUS
  <2>2. cur[i] = IF cur[i-1] = NoKey THEN NoKey
                 ELSE IF fw THEN mdhim_leveldb_get_next(D, cur[i-1])
                            ELSE mdhim_leveldb_get_prev(D, cur[i-1])
    BY <1>7, <2>1
  <2> QED BY <1>1, <2>2 DEF ScanStep
<1>11. ScanRun(cur, D, k, n, op = "next", range_server_bget_op(s, k, n, op))
  BY <1>8, <1>9, <1>10, Zenon DEF ScanRun
<1> QED
  BY <1>11 DEF D

(* A run of a scan from k over the records of a server is a scan of the     *)
(* server's keys from k on, in its direction.                                *)
LEMMA RunIsScan ==
  ASSUME NEW D, D \subseteq Nat, IsFiniteSet(D), NEW k \in D, NEW n \in Nat, n >= 1,
         NEW cur, NEW r, NEW S, NEW f \in BOOLEAN, ScanRun(cur, D, k, n, f, r),
         S = IF f THEN {x \in D : x >= k} ELSE {x \in D : x <= k}
  PROVE  IsScan(r, S, n, f)
<1> DEFINE N == n - 1
<1>1. N \in Nat /\ N + 1 = n
  OBVIOUS
<1>2. S \subseteq D /\ S \subseteq Nat /\ IsFiniteSet(S) /\ k \in S
  <2>1. S \subseteq D /\ k \in Nat
    OBVIOUS
  <2>2. k \in S
    BY <2>1
  <2> QED BY <2>1, <2>2, FS_Subset
<1>3. \A x \in S : x = k \/ Ahead(k, x, f)
  BY DEF Ahead
<1>4. \A x \in S : Neighbour(S, x, ScanStep(D, x, f), f)
  <2>1. CASE f
    <3>1. \A x \in S : ScanStep(D, x, f) = mdhim_leveldb_get_next(D, x)
      BY <1>2, <2>1 DEF ScanStep, NoKey
    <3> QED BY <2>1, <3>1, StepIsNeighbour
  <2>2. CASE ~f
    <3>1. \A x \in S : ScanStep(D, x, f) = mdhim_leveldb_get_prev(D, x)
      BY <1>2, <2>2 DEF ScanStep, NoKey
    <3> QED BY <2>2, <3>1, StepIsNeighbour
  <2> QED BY <2>1, <2>2
<1>5. IsWalk(cur, N, S, k, f)
  <2>1. ASSUME NEW i \in 1..N
        PROVE  /\ cur[i-1] = NoKey => cur[i] = NoKey
               /\ cur[i-1] \in S => Neighbour(S, cur[i-1], cur[i], f)
    <3>1. cur[i] = ScanStep(D, cur[i-1], f)
      BY DEF ScanRun
    <3> QED BY <1>4, <3>1 DEF ScanStep
  <2> QED BY <2>1 DEF IsWalk, ScanRun
<1>6. r = [i \in 1 .. Cardinality({i \in 0..N : cur[i] # NoKey}) |-> cur[i-1]]
  BY DEF ScanRun
<1> HIDE DEF N
<1>7. IsScan([i \in 1 .. Cardinality({i \in 0..N : cur[i] # NoKey}) |-> cur[i-1]], S, N + 1, f)
  BY <1>1, <1>2, <1>3, <1>5, WalkScan
<1> QED
  BY <1>1, <1>6, <1>7

(* Scans of any length from any stored key are exact, in every state of the  *)
(* store: after overwrites, deletes, failed writes and restarts.             *)
THEOREM ScanCorrect == IsFiniteSet(Keys) /\ Spec => []ScanExact
<1> SUFFICES ASSUME IsFiniteSet(Keys) PROVE Spec => []ScanExact
  OBVIOUS
<1>1. Cardinality(Keys) \in Nat
  BY FS_CardinalityType
<1>2. StoreInv => ScanExact
  <2> SUFFICES ASSUME StoreInv, NEW k \in DOMAIN db, NEW n \in 2..(Cardinality(Keys) + 1),
                      db[k] # <<>>
               PROVE  LET s == get_range_server(k)
                      IN /\ IsScan(range_server_bget_op(s, k, n, "next"),
                                   {x \in Local(s) : x >= k}, n, TRUE)
                         /\ IsScan(range_server_bget_op(s, k, n, "prev"),
                                   {x \in Local(s) : x <= k}, n, FALSE)
    BY DEF ScanExact
  <2> DEFINE s == get_range_server(k)
             D == Local(s)
  <2>1. n \in Nat /\ n >= 1
    BY <1>1
  <2>2. k \in D
    BY LocalOfSlice
  <2>3. D \subseteq Nat /\ IsFiniteSet(D)
    <3>1. D \in SUBSET DOMAIN db
      BY DEF Local
    <3> QED BY <3>1, DbFinite
  <2>4. Found(D, k)
    BY <2>2 DEF Found
  <2> HIDE DEF s
  <2>5. ASSUME NEW op \in {"next", "prev"}
        PROVE  \E cur : ScanRun(cur, D, k, n, op = "next", range_server_bget_op(s, k, n, op))
    BY <2>1, <2>2, <2>3, <2>4, ScanSteps
  <2>6. IsScan(range_server_bget_op(s, k, n, "next"), {x \in D : x >= k}, n, TRUE)
    <3>1. PICK cur : ScanRun(cur, D, k, n, TRUE, range_server_bget_op(s, k, n, "next"))
      BY <2>5
    <3> HIDE DEF D
    <3> QED BY <2>1, <2>2, <2>3, <3>1, RunIsScan
  <2>7. IsScan(range_server_bget_op(s, k, n, "prev"), {x \in D : x <= k}, n, FALSE)
    <3>1. PICK cur : ScanRun(cur, D, k, n, FALSE, range_server_bget_op(s, k, n, "prev"))
      BY <2>5
    <3> HIDE DEF D
    <3> QED BY <2>1, <2>2, <2>3, <3>1, RunIsScan
  <2> QED BY <2>6, <2>7 DEF s
<1> QED
  BY <1>2, StoreInvariant, PTL

=============================================================================
