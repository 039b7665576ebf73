----------------------------- MODULE MdhimCalls -----------------------------
(***************************************************************************)
(* The calls of mdhim.c that take several range servers or all ranks: bulk *)
(* puts and deletes, which the client splits by server, and the collective *)
(* mdhimStatFlush with the steps of get_stat_flush.  What a server does    *)
(* with its part is module RangeStore, seen by rank r with the md->stats   *)
(* that rank has: View(r).                                                 *)
(*                                                                         *)
(* MPI is external: a rank enters MPI_Gather, MPI_Gatherv and MPI_Bcast by *)
(* itself, the root of a gather waits for all, the others of a broadcast   *)
(* wait for the root, and a barrier for its communicator.                  *)
(***************************************************************************)
EXTENDS Partitioner, SequencesExt

CONSTANTS
  Keys, Append_, Faults, MaxLen, MaxNum,  \* of RangeStore
  Writer,      \* the rank whose application makes the bulk calls
  PutLists,    \* the records it puts in one call
  KeyLists,    \* the keys it deletes in one call
  MAX_BULK_OPS,
  MaxErrors    \* bound: MPI calls of one flush that return an error

VARIABLES
  up, db, stat, sdb, ideal,  \* of RangeStore
  mdstats,     \* mdstats[r]: md->stats of rank r
  parts,       \* the parts of the Writer's bulk call not yet answered
  want,        \* history: what the bulk calls made should leave in the stores
  fl,          \* fl[r]: where rank r is in mdhimStatFlush, and its locals
  mpi,         \* what the ranks have given to the flush's collectives
  failed       \* the ranks on which an MPI call of the flush failed

storeVars == <<up, db, stat, sdb, ideal>>
vars == <<storeVars, mdstats, parts, want, fl, mpi, failed>>

KeyOf(x, op) == IF op = "put" THEN x.key ELSE x

(* The records of a list that go to the servers of A, in the order of the  *)
(* list: each is added to the message of its server, and one whose key has *)
(* no server is passed over.                                               *)
Routed(list, op, A) ==
  LET msg[i \in 0..Len(list)] ==
        IF i = 0 THEN <<>>
        ELSE IF get_range_server(KeyOf(list[i], op)) \in A THEN Append(msg[i-1], list[i])
        ELSE msg[i-1]
  IN msg[Len(list)]

PartOf(list, op, s) == Routed(list, op, {s})

PutParts == {PartOf(l, "put", s) : l \in PutLists, s \in get_rangesrvs}
DelParts == {PartOf(l, "del", s) : l \in KeyLists, s \in get_rangesrvs}

View(r) == INSTANCE RangeStore WITH stats <- mdstats[r], Batches <- PutParts, DelLists <- DelParts

Nothing == [x \in {} |-> x]

(* md->rangesrvs: get_rangesrvs goes through the ranks and adds each server  *)
(* at the end of the list.  This is also the order of rs_comm; the master is *)
(* the server of the largest rank.                                           *)
rangesrvs ==
  LET list[n \in 0..CommSize] ==
        IF n = 0 THEN <<>>
        ELSE IF n - 1 \in get_rangesrvs THEN Append(list[n-1], n - 1)
        ELSE list[n-1]
  IN list[CommSize]
rangesrv_master == Max(get_rangesrvs \cup {0})
RsRoot == rangesrvs[Len(rangesrvs)]

ASSUME CallsAssumption ==
  /\ Writer \in AllRanks /\ MAX_BULK_OPS \in Nat /\ MaxErrors \in Nat
  /\ Keys \subseteq Keyed
  /\ \A l \in PutLists : l \in Seq([key : Keys, val : Seq(Nat)])
  /\ \A l \in KeyLists : l \in Seq(Keys)
  /\ Append_ \in BOOLEAN /\ Faults \subseteq {"read", "write", "crash"}
  /\ MaxLen \in Nat /\ MaxNum \in Nat

None == <<>>
NoGiven == [counts |-> [s \in get_rangesrvs |-> None], packed |-> [s \in get_rangesrvs |-> None],
            num |-> None, buf |-> None]

Outside == [at |-> "out", num |-> 0, size |-> 0, out |-> <<>>, buf |-> <<>>]

Init ==
  /\ up = TRUE
  /\ db = Nothing /\ ideal = Nothing /\ want = Nothing
  /\ stat = Nothing /\ sdb = Nothing
  /\ mdstats = [r \in AllRanks |-> Nothing]
  /\ parts = {}
  /\ fl = [r \in AllRanks |-> Outside]
  /\ mpi = NoGiven /\ failed = {}

At(r, place) == fl[r].at = place
AllOut == \A r \in AllRanks : At(r, "out")

-----------------------------------------------------------------------------
(* Bulk calls.  A record whose key has no slice is passed over; the message  *)
(* to the Writer's own server is handled after the answers of the others.    *)

(* Mutant: records for the Writer's own server get no message. *)
RemoteParts(list, op) ==
  {[server |-> s, op |-> op, list |-> PartOf(list, op, s)] :
     s \in {t \in get_rangesrvs \ {Writer} : PartOf(list, op, t) # <<>>}}

Parts(list, op) ==
  {[server |-> s, op |-> op, list |-> PartOf(list, op, s)] :
     s \in {t \in get_rangesrvs : PartOf(list, op, t) # <<>>}}

Callable == up /\ At(Writer, "out") /\ parts = {}

Known(list) == Routed(list, "put", get_rangesrvs)

mdhimBPut(list) ==
  /\ Callable /\ Len(list) <= MAX_BULK_OPS
  /\ parts' = Parts(list, "put")
  /\ want' = View(Writer)!Meaning(want, Known(list))
  /\ \A k \in DOMAIN want' : Len(want'[k]) <= MaxLen
  /\ UNCHANGED <<storeVars, mdstats, fl, mpi, failed>>

mdhimBDelete(list) ==
  /\ Callable /\ Len(list) <= MAX_BULK_OPS
  /\ parts' = Parts(list, "del")
  /\ want' = [k \in DOMAIN want \ {list[i] : i \in DOMAIN list} |-> want[k]]
  /\ UNCHANGED <<storeVars, mdstats, fl, mpi, failed>>

(* A server carries out its part and answers. *)
Handle(m) ==
  /\ up /\ (m.server = Writer => parts = {m})
  /\ parts' = parts \ {m}
  /\ UNCHANGED <<mdstats, want, fl, mpi, failed>>
  /\ \/ m.op = "put" /\ View(Writer)!range_server_bput(m.list, {}) /\ View(Writer)!WithinBounds
     \/ m.op = "del" /\ View(Writer)!range_server_bdel(m.list, {})

-----------------------------------------------------------------------------
(* mdhimStatFlush. *)

Move(r, place) == fl' = [fl EXCEPT ![r].at = place]
OnlyFlush == UNCHANGED <<storeVars, parts, want>>

(* Its first barrier: no rank is inside another call.  A rank that comes     *)
(* early only stops making calls, so all come at once here.                  *)
FlushBarrier ==
  /\ up /\ AllOut /\ parts = {}
  /\ fl' = [r \in AllRanks |-> [Outside EXCEPT !.at = "start"]]
  /\ mpi' = NoGiven
  /\ UNCHANGED <<mdstats, failed>> /\ OnlyFlush

(* The slices in the statistics hash of server s. *)
Hash(s) == {q \in DOMAIN stat : get_range_server_by_slice(q) = s}

(* Mutant: clients leave out the barrier before the first broadcast. *)
StartNoBarrier(r) ==
  /\ At(r, "start")
  /\ fl' = IF r \in get_rangesrvs
             THEN [fl EXCEPT ![r].num = Cardinality(Hash(r)), ![r].size = Cardinality(Hash(r)),
                             ![r].at = "rs1"]
             ELSE [fl EXCEPT ![r].at = "bcast1"]
  /\ UNCHANGED <<mdstats, mpi, failed>> /\ OnlyFlush

(* The number of statistics is taken before, their contents after a gather. *)
Start(r) ==
  /\ At(r, "start")
  /\ fl' = IF r \in get_rangesrvs
             THEN [fl EXCEPT ![r].num = Cardinality(Hash(r)), ![r].size = Cardinality(Hash(r)),
                             ![r].at = "rs1"]
             ELSE [fl EXCEPT ![r].at = "cl1"]
  /\ UNCHANGED <<mdstats, mpi, failed>> /\ OnlyFlush

(* A barrier pairs whatever its ranks call next on that communicator. *)
RsBarrier ==
  LET next == [rs1 |-> "gather", rs2 |-> "gatherv"]
  IN /\ \A s \in get_rangesrvs : fl[s].at \in DOMAIN next
     /\ fl' = [r \in AllRanks |-> IF r \in get_rangesrvs THEN [fl[r] EXCEPT !.at = next[@]] ELSE fl[r]]
     /\ UNCHANGED <<mdstats, mpi, failed>> /\ OnlyFlush

(* The last barrier of a rank that failed pairs with an earlier one of the   *)
(* others: it returns an error while they are inside, and is "lost", for its *)
(* application makes no further call.                                        *)
ClientBarrier ==
  LET next == [cl1 |-> "bcast1", cl2 |-> "bcast2", end |-> "out"]
      allEnd == \A r \in AllRanks : At(r, "end")
  IN /\ \A r \in AllRanks : fl[r].at \in DOMAIN next
     /\ fl' = [r \in AllRanks |->
                 IF next[fl[r].at] # "out" THEN [fl[r] EXCEPT !.at = next[@]]
                 ELSE [Outside EXCEPT !.at = IF r \in failed /\ ~allEnd THEN "lost" ELSE "out"]]
     /\ mpi' = IF allEnd THEN NoGiven ELSE mpi
     /\ failed' = IF allEnd THEN {} ELSE failed
     /\ UNCHANGED mdstats /\ OnlyFlush

CountOf(s) == IF s = RsRoot THEN fl[s].size ELSE mpi.counts[s][1]

(* displs and recvcounts: where the statistics of the i-th server go. *)
Displs ==
  LET sum[i \in 0 .. Len(rangesrvs)] ==
        IF i = 0 THEN 0 ELSE sum[i - 1] + CountOf(rangesrvs[i])
  IN  [i \in 1 .. Len(rangesrvs) + 1 |-> sum[i - 1]]

(* The recvbuf of the other servers stays zero, and so their num_items. *)
Gather(s) ==
  /\ At(s, "gather")
  /\ IF s = RsRoot
       THEN /\ \A t \in get_rangesrvs \ {s} : mpi.counts[t] # None
            /\ fl' = [fl EXCEPT ![s].num = Displs[Len(rangesrvs) + 1], ![s].at = "pack"]
            /\ UNCHANGED mpi
       ELSE /\ mpi' = [mpi EXCEPT !.counts[s] = <<fl[s].num>>]
            /\ fl' = [fl EXCEPT ![s].num = 0, ![s].at = "pack"]
  /\ UNCHANGED <<mdstats, failed>> /\ OnlyFlush

Fail(r) ==
  /\ failed' = failed \cup {r}
  /\ Move(r, "end")
  /\ UNCHANGED <<mdstats, mpi>> /\ OnlyFlush

(* One MPI_Pack per statistic into a buffer of the size computed before: it  *)
(* fails when the worker has added one since.                                *)
Pack(s) ==
  /\ At(s, "pack")
  /\ IF Cardinality(Hash(s)) > fl[s].size THEN Fail(s)
     ELSE /\ fl' = [fl EXCEPT
               ![s].out = SetToSeq({[slice |-> q, stat |-> stat[q]] : q \in Hash(s)}),
               ![s].at = "rs2"]
          /\ UNCHANGED <<mdstats, mpi, failed>> /\ OnlyFlush

(* Mutant: a displacement counts the statistics of its own server too. *)
GatheredOneLate(num) ==
  LET Sent(i) == IF rangesrvs[i] = RsRoot THEN fl[RsRoot].out ELSE mpi.packed[rangesrvs[i]][1]
      zero == [slice |-> 0, stat |-> [min |-> 0, max |-> 0, num |-> 0]]
      From(n) == {i \in DOMAIN rangesrvs : n - Displs[i + 1] \in DOMAIN Sent(i)}
  IN  [n \in 1 .. num |-> IF From(n) = {} THEN zero
                          ELSE LET i == Max(From(n)) IN Sent(i)[n - Displs[i + 1]]]

(* recvbuf of the root, zero where nothing is received. *)
Gathered(num) ==
  LET Sent(i) == IF rangesrvs[i] = RsRoot THEN fl[RsRoot].out ELSE mpi.packed[rangesrvs[i]][1]
      zero == [slice |-> 0, stat |-> [min |-> 0, max |-> 0, num |-> 0]]
      From(n) == {i \in DOMAIN rangesrvs : n - Displs[i] \in DOMAIN Sent(i)}
  IN  [n \in 1 .. num |-> IF From(n) = {} THEN zero
                          ELSE LET i == Max(From(n)) IN Sent(i)[n - Displs[i]]]

(* Only the rank of rangesrv_master has a buffer to receive into. *)
Gatherv(s) ==
  /\ At(s, "gatherv")
  /\ IF s = RsRoot
       THEN /\ \A t \in get_rangesrvs \ {s} : mpi.packed[t] # None
            /\ fl' = [fl EXCEPT ![s].buf = IF s = rangesrv_master THEN Gathered(fl[s].num) ELSE <<>>,
                                ![s].at = "cl1"]
            /\ UNCHANGED mpi
       ELSE /\ mpi' = [mpi EXCEPT !.packed[s] = <<fl[s].out>>]
            /\ Move(s, "cl1")
  /\ UNCHANGED <<mdstats, failed>> /\ OnlyFlush

Bcast1(r) ==
  /\ At(r, "bcast1")
  /\ IF r = rangesrv_master
       THEN mpi' = [mpi EXCEPT !.num = <<fl[r].num>>] /\ Move(r, "cl2")
       ELSE /\ mpi.num # None
            /\ fl' = [fl EXCEPT ![r].num = mpi.num[1], ![r].at = "cl2"]
            /\ UNCHANGED mpi
  /\ UNCHANGED <<mdstats, failed>> /\ OnlyFlush

(* The statistics in a buffer: a later one of a slice replaces an earlier. *)
Unpacked(buf) ==
  [q \in {buf[i].slice : i \in DOMAIN buf} |->
     buf[Max({i \in DOMAIN buf : buf[i].slice = q})].stat]

(* The second broadcast, and the statistics into the rank's own hash. *)
Bcast2(r) ==
  LET root == r = rangesrv_master
      buf == IF root THEN fl[r].buf ELSE SubSeq(mpi.buf[1], 1, fl[r].num)
  IN /\ At(r, "bcast2") /\ (root \/ mpi.buf # None)
     /\ mpi' = IF root THEN [mpi EXCEPT !.buf = <<fl[r].buf>>] ELSE mpi
     /\ mdstats' = [mdstats EXCEPT ![r] = View(r)!Merge(Unpacked(buf), @)]
     /\ Move(r, "end")
     /\ UNCHANGED failed /\ OnlyFlush

(* An MPI call of rank r returns an error: get_stat_flush is left, and the   *)
(* rank goes to the last barrier of mdhimStatFlush.                          *)
MpiError(r) ==
  /\ Cardinality(failed) < MaxErrors /\ fl[r].at \in {"gather", "pack", "gatherv", "bcast1", "bcast2"}
  /\ Fail(r)

-----------------------------------------------------------------------------
(* The end of the job, or its crash, and the next one. *)
Reset ==
  /\ mdstats' = [r \in AllRanks |-> Nothing]
  /\ parts' = {} /\ fl' = [r \in AllRanks |-> Outside] /\ mpi' = NoGiven /\ failed' = {}

mdhimClose == AllOut /\ parts = {} /\ Reset /\ View(Writer)!range_server_stop /\ UNCHANGED want

Crash == Reset /\ View(Writer)!Crash /\ want' = ideal

mdhimInit == Reset /\ View(Writer)!range_server_init /\ UNCHANGED want

FlushStep ==
  \/ RsBarrier \/ ClientBarrier
  \/ \E r \in AllRanks : \/ Start(r) \/ Gather(r) \/ Pack(r)
                         \/ Gatherv(r) \/ Bcast1(r) \/ Bcast2(r)

Next ==
  \/ \E list \in PutLists : mdhimBPut(list)
  \/ \E list \in KeyLists : mdhimBDelete(list)
  \/ \E m \in parts : Handle(m)
  \/ FlushBarrier \/ FlushStep \/ (\E r \in AllRanks : MpiError(r))
  \/ mdhimClose \/ Crash \/ mdhimInit

Spec == Init /\ [][Next]_vars

(* Every rank that is inside the flush runs on. *)
FairSpec == Spec /\ WF_vars(FlushStep)

-----------------------------------------------------------------------------
(* Properties. *)

(* A bulk call that has been answered left what its records, one after the   *)
(* other, would have left, although they are split over the servers, which   *)
(* carry their parts out in any order; what a crash cut off is not counted.  *)
BulkIsSequential ==
  parts = {} => \A k \in Keys : View(Writer)!Value(db, k) = View(Writer)!Value(want, k)

(* For every rank the flush is the one step RangeStore has for it: the rank  *)
(* takes over exactly the statistics all servers have at that moment, none   *)
(* lost, moved or from before a later put, also when MPI calls fail, the job *)
(* crashes, or the flush follows bulk calls at once.                         *)
FlushIsAtomic ==
  /\ \A r \in AllRanks : View(r)!Init
  /\ [][\A r \in AllRanks : UNCHANGED View(r)!vars \/ View(r)!Next]_vars

(* A flush ends on all ranks, unless an MPI call failed or the job crashed:  *)
(* the barriers and collectives of servers and clients match.                *)
FlushReturns == (\E r \in AllRanks : At(r, "start")) ~> (AllOut \/ failed # {})
=============================================================================
