----------------------------- MODULE Partitioner -----------------------------
(***************************************************************************)
(* partitioner.c: which ranks run a range server, which slice a key        *)
(* belongs to, which server has a slice, and which server a cursor         *)
(* operation goes to, given the statistics of the last stat flush.         *)
(***************************************************************************)
EXTENDS KeyTypes, FiniteSetsExt

CONSTANTS
  CommSize,                  \* size of md->mdhim_comm
  range_server_factor,
  mdhim_max_recs_per_slice,
  MDHIM_MAX_SLICES           \* bound of the code: 2147483647

ASSUME PartitionerAssumption ==
  /\ CommSize \in Nat \ {0}
  /\ range_server_factor \in Nat \ {0}
  /\ mdhim_max_recs_per_slice \in Nat \ {0}
  /\ MDHIM_MAX_SLICES \in Nat \ {0}

AllRanks == 0..(CommSize - 1)

(* The NULL key, slice and server of the code (MDHIM_ERROR is -1 too). *)
NoKey    == -1
NoSlice  == -1
NoServer == -1

get_num_range_servers ==
  IF CommSize - 1 < range_server_factor
  THEN 1
  ELSE Cardinality({i \in AllRanks : i % range_server_factor = 0})

(* Mutant: the range server numbers start at 0. *)
ServerNumFromZero(rank) ==
  LET num == IF CommSize - 1 < range_server_factor
             THEN IF rank = CommSize - 1 THEN 1 ELSE 0
             ELSE IF rank % range_server_factor = 0
                  THEN rank \div range_server_factor ELSE 0
  IN IF num > get_num_range_servers THEN 0 ELSE num

(* The number of the range server on a rank, 0 if it runs none. *)
is_range_server(rank) ==
  LET num == IF CommSize - 1 < range_server_factor
             THEN IF rank = CommSize - 1 THEN 1 ELSE 0
             ELSE IF rank % range_server_factor = 0
                  THEN (rank \div range_server_factor) + 1 ELSE 0
  IN IF num > get_num_range_servers THEN 0 ELSE num

(* md->rangesrvs: the ranks get_rangesrvs finds to be range servers. *)
get_rangesrvs == {r \in AllRanks : is_range_server(r) # 0}

(* The number of keys the slices have room for. *)
total_keys == MDHIM_MAX_SLICES * mdhim_max_recs_per_slice

verify_key(key) == InRange(key, total_keys)

get_slice_num(key) ==
  IF verify_key(key) THEN key_num(key, total_keys) \div mdhim_max_recs_per_slice ELSE NoSlice

(* The rank in md->rangesrvs that has the range server number of the slice. *)
get_range_server_by_slice(slice) ==
  LET num == IF get_num_range_servers = 1 THEN 1 ELSE (slice % get_num_range_servers) + 1
      S   == {r \in get_rangesrvs : is_range_server(r) = num}
  IN IF S = {} THEN NoServer ELSE CHOOSE r \in S : TRUE

get_range_server(key) ==
  IF get_slice_num(key) = NoSlice THEN NoServer
  ELSE get_range_server_by_slice(get_slice_num(key))

-----------------------------------------------------------------------------
(* Cursor operations: stats is md->stats, a function from slices.            *)

Least(S)    == IF S = {} THEN NoKey ELSE Min(S)
Greatest(S) == IF S = {} THEN NoKey ELSE Max(S)

get_next_slice_stat(stats, slice) == Least({q \in DOMAIN stats : q > slice})
get_prev_slice_stat(stats, slice) == Greatest({q \in DOMAIN stats : q < slice})
get_first_slice_stat(stats)       == Least(DOMAIN stats)
get_last_slice_stat(stats)        == Greatest(DOMAIN stats)

(* Mutant: the first and the last slice are swapped. *)
SliceEndsSwapped(stats, cur, num, op) ==
  LET found == CASE op = "next" ->
                      IF cur \in DOMAIN stats /\ stats[cur].max > num
                      THEN cur ELSE get_next_slice_stat(stats, cur)
                 [] op = "prev" ->
                      IF cur \in DOMAIN stats /\ stats[cur].min < num
                      THEN cur ELSE get_prev_slice_stat(stats, cur)
                 [] op = "first" -> get_last_slice_stat(stats)
                 [] op = "last"  -> get_first_slice_stat(stats)
  IN IF found = NoSlice THEN 0 ELSE found

(* Without a slice in the direction of the operation the answer is slice 0. *)
get_slice_from_fstat(stats, cur, num, op) ==
  LET found == CASE op = "next" ->
                      IF cur \in DOMAIN stats /\ stats[cur].max > num
                      THEN cur ELSE get_next_slice_stat(stats, cur)
                 [] op = "prev" ->
                      IF cur \in DOMAIN stats /\ stats[cur].min < num
                      THEN cur ELSE get_prev_slice_stat(stats, cur)
                 [] op = "first" -> get_first_slice_stat(stats)
                 [] op = "last"  -> get_last_slice_stat(stats)
  IN IF found = NoSlice THEN 0 ELSE found

(* The same on uint64_t. *)
get_slice_from_istat(stats, cur, num, op) == get_slice_from_fstat(stats, cur, num, op)

get_range_server_from_stats(stats, key, op) ==
  LET cur == IF key = NoKey THEN 0 ELSE get_slice_num(key)
      num == IF key = NoKey THEN 0 ELSE StatNum[key]
  IN IF \/ DOMAIN stats = {}
        \/ cur = NoSlice
        \/ key = NoKey /\ op \notin {"first", "last"}
     THEN NoServer
     ELSE get_range_server_by_slice(IF is_float_key THEN get_slice_from_fstat(stats, cur, num, op)
                                                    ELSE get_slice_from_istat(stats, cur, num, op))

=============================================================================
