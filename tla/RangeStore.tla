----------------------------- MODULE RangeStore -----------------------------
(***************************************************************************)
(* What the range servers do to their data: the range_server_* handlers of *)
(* range_server.c over the LevelDB store of ds_leveldb.c, the statistics   *)
(* they keep per slice, mdhimStatFlush, and the end and the restart of the *)
(* job.  A handler is one action: module RangeServers shows that a request *)
(* is carried out once, by one worker, between its call and its return.    *)
(*                                                                         *)
(* A key lives on the server get_range_server names, so the stores of all  *)
(* servers are one function db, and the store of one server is its part of *)
(* that function.  LevelDB is external: a sorted map with atomic batches.  *)
(***************************************************************************)
EXTENDS Partitioner

CONSTANTS
  Keys,      \* the keys the application uses
  Batches,   \* the record lists a server may be asked to write
  DelLists,  \* the key lists a server may be asked to delete
  Append_,   \* is db_value_append MDHIM_DB_APPEND
  Faults,    \* failures that may happen: "read", "write", "crash"
  MaxLen,    \* bound: length of a value
  MaxNum     \* bound: num of a slice

ASSUME StoreAssumption ==
  /\ Keys \subseteq Keyed
  /\ \A b \in Batches : b \in Seq([key : Keys, val : Seq(Nat)])
  /\ \A d \in DelLists : d \in Seq(Keys)
  /\ Append_ \in BOOLEAN
  /\ Faults \subseteq {"read", "write", "crash"}
  /\ MaxLen \in Nat /\ MaxNum \in Nat

VARIABLES
  up,      \* is the job running
  db,      \* the records of all servers: key to value, a sequence of bytes
  stat,    \* mdhim_store_stats of all servers: slice to min, max and num
  sdb,     \* the statistics database (db_stats) of all servers
  stats,   \* md->stats, what the last stat flush told every rank
  ideal    \* history: what the requests carried out should have left in db

vars == <<up, db, stat, sdb, stats, ideal>>

Stat     == [min : Int, max : Int, num : Nat]
Nothing  == [x \in {} |-> x]
IsMap(f, A, B) == DOMAIN f \subseteq A /\ f \in [DOMAIN f -> B]

(* The type invariant: the stores map keys to byte strings, the statistics   *)
(* map slices to their bounds and count.                                     *)
TypeOK ==
  /\ up \in BOOLEAN
  /\ IsMap(db, Keys, Seq(Nat)) /\ IsMap(ideal, Keys, Seq(Nat))
  /\ IsMap(stat, Nat, Stat) /\ IsMap(sdb, Nat, Stat) /\ IsMap(stats, Nat, Stat)

Init ==
  /\ up = TRUE
  /\ db = Nothing /\ ideal = Nothing
  /\ stat = Nothing /\ sdb = Nothing /\ stats = Nothing

-----------------------------------------------------------------------------
(* Statistics. *)

(* Mutant: num is set to 1 although the slice has a statistic. *)
UpdateStatsResetsNum(st, keys) ==
  LET slices == {get_slice_num(keys[i]) : i \in DOMAIN keys}
      New(q) == {StatNum[keys[i]] : i \in {j \in DOMAIN keys : get_slice_num(keys[j]) = q}}
      old(q) == IF q \in DOMAIN st THEN {st[q]} ELSE {}
  IN [q \in DOMAIN st \cup slices |->
        IF q \notin slices THEN st[q]
        ELSE [min |-> Min(New(q) \cup {o.min : o \in old(q)}),
              max |-> Max(New(q) \cup {o.max : o \in old(q)}),
              num |-> 1]]

(* update_all_stats, called for each key of the function keys. *)
update_all_stats(st, keys) ==
  LET slices == {get_slice_num(keys[i]) : i \in DOMAIN keys}
      In(q)  == {i \in DOMAIN keys : get_slice_num(keys[i]) = q}
      New(q) == {StatNum[keys[i]] : i \in In(q)}
      old(q) == IF q \in DOMAIN st THEN {st[q]} ELSE {}
  IN [q \in DOMAIN st \cup slices |->
        IF q \notin slices THEN st[q]
        ELSE [min |-> Min(New(q) \cup {o.min : o \in old(q)}),
              max |-> Max(New(q) \cup {o.max : o \in old(q)}),
              num |-> Cardinality(In(q)) + IF old(q) = {} THEN 0 ELSE st[q].num]]

(* The entries of new put over those of old, one by one. *)
Merge(new, old) ==
  [q \in DOMAIN new \cup DOMAIN old |-> IF q \in DOMAIN new THEN new[q] ELSE old[q]]

-----------------------------------------------------------------------------
(* Writing. *)

(* The value written for record i: appended to the old one in append mode. *)
NewValue(batch, i, exists) ==
  IF exists /\ Append_ THEN db[batch[i].key] \o batch[i].val ELSE batch[i].val

(* Mutant: a record whose key was found is not overwritten. *)
WriteNewOnly(batch, unread) ==
  LET Exists(i) == /\ i \notin unread /\ batch[i].key \in DOMAIN db
                   /\ db[batch[i].key] # <<>>
      new  == {i \in DOMAIN batch : ~Exists(i)}
      keys == {batch[i].key : i \in new}
      LastOf(k) == Max({i \in new : batch[i].key = k})
  IN /\ db' = Merge([k \in keys |-> NewValue(batch, LastOf(k), FALSE)], db)
     /\ stat' = update_all_stats(stat, [i \in new |-> batch[i].key])

(***************************************************************************)
(* The records of a batch are looked up first (the lookups of unread fail, *)
(* which counts as not found, as does an empty value), then written in one *)
(* atomic batch, where the last record of a key wins, then counted.        *)
(***************************************************************************)
Write(batch, unread) ==
  LET keys == {batch[i].key : i \in DOMAIN batch}
      Exists(i) == /\ i \notin unread /\ batch[i].key \in DOMAIN db
                   /\ db[batch[i].key] # <<>>
      LastOf(k) == Max({i \in DOMAIN batch : batch[i].key = k})
      new  == {i \in DOMAIN batch : ~Exists(i)}
  IN /\ db' = Merge([k \in keys |-> NewValue(batch, LastOf(k), Exists(LastOf(k)))], db)
     /\ stat' = update_all_stats(stat, [i \in new |-> batch[i].key])

(* What a batch is meant to do: its records one after the other. *)
Value(m, k) == IF k \in DOMAIN m THEN m[k] ELSE <<>>
Meaning(m, batch) ==
  LET after[n \in 0..Len(batch)] ==
        IF n = 0 THEN m
        ELSE LET k == batch[n].key
             IN Merge([x \in {k} |-> IF Append_ THEN Value(after[n-1], k) \o batch[n].val
                                     ELSE batch[n].val], after[n-1])
  IN after[Len(batch)]

(* Every record of the batch has a server, and it is the same one. *)
OneServer(ks) == \E s \in get_rangesrvs : \A k \in ks : get_range_server(k) = s

(* range_server_put for a batch of one record, range_server_bput for others. *)
range_server_bput(batch, unread) ==
  /\ up
  /\ OneServer({batch[i].key : i \in DOMAIN batch})
  /\ unread # {} => "read" \in Faults
  /\ \/ /\ Write(batch, unread)
        /\ ideal' = Meaning(ideal, batch)
     \/ /\ "write" \in Faults /\ UNCHANGED <<db, stat, ideal>>
  /\ UNCHANGED <<up, sdb, stats>>

(* Mutant: a delete counts num down, whether or not the record exists. *)
DelCountsDown(keys, failed) ==
  /\ up
  /\ OneServer({keys[i] : i \in DOMAIN keys})
  /\ db' = [k \in DOMAIN db \ {keys[i] : i \in DOMAIN keys \ failed} |-> db[k]]
  /\ ideal' = [k \in DOMAIN ideal \ {keys[i] : i \in DOMAIN keys \ failed} |-> ideal[k]]
  /\ failed # {} => "write" \in Faults
  /\ stat' = [q \in DOMAIN stat |->
       [stat[q] EXCEPT !.num = @ - Cardinality({i \in DOMAIN keys \ failed :
                                                  get_slice_num(keys[i]) = q})]]
  /\ UNCHANGED <<up, sdb, stats>>

(* range_server_del and range_server_bdel: one LevelDB delete per key, those *)
(* of failed fail, and the statistics are left alone.                        *)
range_server_bdel(keys, failed) ==
  /\ up
  /\ OneServer({keys[i] : i \in DOMAIN keys})
  /\ db' = [k \in DOMAIN db \ {keys[i] : i \in DOMAIN keys \ failed} |-> db[k]]
  /\ ideal' = [k \in DOMAIN ideal \ {keys[i] : i \in DOMAIN keys \ failed} |-> ideal[k]]
  /\ failed # {} => "write" \in Faults
  /\ UNCHANGED <<up, stat, sdb, stats>>

(* get_stat_flush: every rank gets the statistics of every server. *)
mdhimStatFlush ==
  /\ up
  /\ stats' = Merge(stat, stats)
  /\ UNCHANGED <<up, db, stat, sdb, ideal>>

-----------------------------------------------------------------------------
(* The end of the job and the next one on the same files. *)

(* Mutant: range_server_stop does not write the statistics. *)
StopNoWriteStats ==
  /\ up
  /\ up' = FALSE
  /\ stat' = Nothing /\ stats' = Nothing
  /\ UNCHANGED <<db, sdb, ideal>>

(* range_server_stop on every server: write_stats, which empties the hash. *)
range_server_stop ==
  /\ up
  /\ up' = FALSE
  /\ sdb' = Merge(stat, sdb)
  /\ stat' = Nothing /\ stats' = Nothing
  /\ UNCHANGED <<db, ideal>>

(* The job dies: LevelDB keeps what was written, the hash is lost. *)
Crash ==
  /\ "crash" \in Faults
  /\ up
  /\ up' = FALSE
  /\ stat' = Nothing /\ stats' = Nothing
  /\ UNCHANGED <<db, sdb, ideal>>

(* range_server_init on every server: open the databases and load_stats. *)
range_server_init ==
  /\ ~up
  /\ up' = TRUE
  /\ stat' = sdb
  /\ UNCHANGED <<db, sdb, stats, ideal>>

-----------------------------------------------------------------------------
(* Reading: functions of the state. *)

(* The keys in the store of server s. *)
Local(s) == {k \in DOMAIN db : get_range_server(k) = s}

(* leveldb_iter_seek: the first key that is not smaller. *)
Seek(D, key) == Least({k \in D : k >= key})

(* Mutant: the iterator is not moved on after the seek. *)
NextNoStep(D, key) ==
  IF key = NoKey THEN Least(D) ELSE Seek(D, key)

mdhim_leveldb_get_next(D, key) ==
  IF key = NoKey THEN Least(D)
  ELSE IF Seek(D, key) = NoKey THEN NoKey
  ELSE Least({k \in D : k > Seek(D, key)})

mdhim_leveldb_get_prev(D, key) ==
  IF key = NoKey THEN Greatest(D)
  ELSE IF Seek(D, key) = NoKey THEN NoKey
  ELSE Greatest({k \in D : k < Seek(D, key)})

(* mdhim_leveldb_get finds a record; an empty value counts as none. *)
Found(D, key) == key \in D /\ db[key] # <<>>

(* range_server_get: the key found at server s. *)
range_server_get(s, key, op) ==
  CASE op = "eq"    -> IF Found(Local(s), key) THEN key ELSE NoKey
    [] op = "next"  -> mdhim_leveldb_get_next(Local(s), key)
    [] op = "prev"  -> mdhim_leveldb_get_prev(Local(s), key)
    [] op = "first" -> mdhim_leveldb_get_next(Local(s), NoKey)
    [] op = "last"  -> mdhim_leveldb_get_prev(Local(s), NoKey)

(* mdhimGet: the key of the record the application gets. *)
mdhimGet(key, op) ==
  LET s == IF op = "eq" THEN get_range_server(key)
           ELSE get_range_server_from_stats(stats, key, op)
  IN IF s = NoServer THEN NoKey ELSE range_server_get(s, key, op)

(* Mutant: the scan starts after the key. *)
ScanSkipsFirst(s, key, n, op) ==
  LET D == Local(s)
      forward == op \in {"first", "next"}
      cur[i \in 0..n] ==
        IF i = 0 THEN IF Found(D, key) THEN key ELSE NoKey
        ELSE IF cur[i-1] = NoKey THEN NoKey
        ELSE IF forward THEN mdhim_leveldb_get_next(D, cur[i-1])
                        ELSE mdhim_leveldb_get_prev(D, cur[i-1])
      count == Cardinality({i \in 1..n : cur[i] # NoKey})
  IN [i \in 1..count |-> cur[i]]

(* range_server_bget_op: the keys of the response.  The first record is the  *)
(* one of the key itself, for "first" and "last" too.                        *)
range_server_bget_op(s, key, n, op) ==
  LET D == Local(s)
      forward == op \in {"first", "next"}
      cur[i \in 0..(n-1)] ==
        IF i = 0 THEN IF Found(D, key) THEN key ELSE NoKey
        ELSE IF cur[i-1] = NoKey THEN NoKey
        ELSE IF forward THEN mdhim_leveldb_get_next(D, cur[i-1])
                        ELSE mdhim_leveldb_get_prev(D, cur[i-1])
      count == Cardinality({i \in 0..(n-1) : cur[i] # NoKey})
  IN [i \in 1..count |-> cur[i-1]]

-----------------------------------------------------------------------------
(* The bounds of the model. *)
WithinBounds ==
  /\ \A k \in DOMAIN db' : Len(db'[k]) <= MaxLen
  /\ \A k \in DOMAIN ideal' : Len(ideal'[k]) <= MaxLen
  /\ \A q \in DOMAIN stat' : stat'[q].num <= MaxNum

Next ==
  \/ \E batch \in Batches : \E unread \in SUBSET DOMAIN batch :
       range_server_bput(batch, unread) /\ WithinBounds
  \/ \E keys \in DelLists : \E failed \in SUBSET DOMAIN keys :
       range_server_bdel(keys, failed)
  \/ mdhimStatFlush
  \/ range_server_stop
  \/ Crash
  \/ range_server_init

Spec == Init /\ [][Next]_vars

-----------------------------------------------------------------------------
(* Properties. *)

SliceOf(k) == get_slice_num(k)

(* The statistics of the servers, or what the next job will load. *)
Known == IF up THEN stat ELSE sdb

(* The slice of every stored record has a statistic whose bounds contain the *)
(* key, while the servers run and between a stop and a restart: cursor       *)
(* operations, which choose a server by these bounds, can find every record. *)
StatsCoverKeys ==
  \A k \in DOMAIN db :
    /\ SliceOf(k) \in DOMAIN Known
    /\ Known[SliceOf(k)].min <= StatNum[k] /\ StatNum[k] <= Known[SliceOf(k)].max

KeysIn(q) == {k \in DOMAIN db : SliceOf(k) = q}

(* The num of a statistic is never less than the keys its slice holds, also  *)
(* after overwrites, empty values, failed lookups and restarts.              *)
NumBoundsKeys == \A q \in DOMAIN Known : Cardinality(KeysIn(q)) <= Known[q].num

(* A get returns what the puts and deletes carried out for its key left:     *)
(* the last value, or in append mode all values since the last delete.       *)
ReadsIdeal ==
  \A k \in Keys : verify_key(k) =>
    /\ (mdhimGet(k, "eq") = k) <=> (Value(ideal, k) # <<>>)
    /\ Value(db, k) = Value(ideal, k)

Succ(D, k) == Least({x \in D : x > k})
Pred(D, k) == Greatest({x \in D : x < k})

(* Cursor steps inside a slice are exact at any time, however old md->stats  *)
(* is, as long as its bounds already include the neighbour and the two keys  *)
(* have different numbers: the chosen server is the one of the slice and     *)
(* returns the adjacent record.                                              *)
CursorInSlice ==
  \A k \in DOMAIN db :
    LET q == SliceOf(k)
        n == Succ(DOMAIN db, k)
        p == Pred(DOMAIN db, k)
        Beside(x) == x # NoKey /\ SliceOf(x) = q /\ StatNum[x] # StatNum[k]
    IN q \in DOMAIN stats =>
         /\ Beside(n) /\ StatNum[n] <= stats[q].max => mdhimGet(k, "next") = n
         /\ Beside(p) /\ StatNum[p] >= stats[q].min => mdhimGet(k, "prev") = p

(* The first and the last record of all servers are found when the flushed   *)
(* statistics name exactly the slices that hold records.                     *)
CursorEnds ==
  DOMAIN db # {} /\ DOMAIN stats = {SliceOf(k) : k \in DOMAIN db} =>
    /\ mdhimGet(NoKey, "first") = Min(DOMAIN db)
    /\ mdhimGet(NoKey, "last") = Max(DOMAIN db)

(* With fresh statistics mdhimGet returns the next key in order after a      *)
(* stored key.                                                               *)
NextIsSuccessor ==
  up /\ stats = stat => \A k \in DOMAIN db : mdhimGet(k, "next") = Succ(DOMAIN db, k)

(* The keys of S in the given direction, at most n, as a scan should return  *)
(* them.                                                                     *)
IsScan(r, S, n, forward) ==
  /\ Len(r) = Min({n, Cardinality(S)})
  /\ \A i \in DOMAIN r : r[i] \in S
  /\ \A i, j \in DOMAIN r : i < j => IF forward THEN r[i] < r[j] ELSE r[i] > r[j]
  /\ \A x \in S \ {r[i] : i \in DOMAIN r} : \A i \in DOMAIN r :
       IF forward THEN x > r[i] ELSE x < r[i]

(* A scan of n records (range_server_bget_op) from a stored key returns that *)
(* key and the records that follow it on its server, without gap or repeat.  *)
ScanExact ==
  \A k \in DOMAIN db, n \in 2..(Cardinality(Keys) + 1) :
    LET s == get_range_server(k)
    IN db[k] # <<>> =>
         /\ IsScan(range_server_bget_op(s, k, n, "next"), {x \in Local(s) : x >= k}, n, TRUE)
         /\ IsScan(range_server_bget_op(s, k, n, "prev"), {x \in Local(s) : x <= k}, n, FALSE)

(* The partition is total and by slices: the range server numbers are 1 to   *)
(* the number of servers, each on one rank, every valid key has a server,    *)
(* and the records of a slice are in the store of one server, which is what  *)
(* choosing a server by its slice relies on.                                 *)
EverySliceServed ==
  /\ Cardinality(get_rangesrvs) = get_num_range_servers
  /\ {is_range_server(r) : r \in get_rangesrvs} = 1..get_num_range_servers
  /\ \A k \in Keys : verify_key(k) => get_range_server(k) \in get_rangesrvs
  /\ \A q \in DOMAIN Known : \E s \in get_rangesrvs : KeysIn(q) \subseteq Local(s)

=============================================================================
