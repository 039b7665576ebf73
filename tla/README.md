# Verification of MDHIM, MPI over OpenSHMEM and pftool

The repository holds three programs that share a purpose: MDHIM, a key/value
store distributed over the ranks of an MPI job (`mdhimMods/`), a library that
offers the MPI calls MDHIM needs on top of OpenSHMEM (`src/`), and pftool, a
parallel work tool that was ported to that library (`pftool-new-test/`).  This
directory models the three in TLA+, checks them with TLC and proves most of their
safety properties with TLAPS.  MDHIM and pftool are
modelled on MPI as it is documented, the library on OpenSHMEM: nothing here
claims that the library offers all that the other two expect of MPI (see
"Limits of the code").

## Inventory

| Component | State | Operations | Interacts through |
|---|---|---|---|
| Client (`mdhim.c`, `client.c`) | `md->rangesrvs`, `md->stats` | mdhimInit, Put, BPut, Get, BGet, BGetOp, Delete, BDelete, Commit, StatFlush, Close | messages to range servers, barriers |
| Local client (`local_client.c`) | the slot `md->receive_msg`, a mutex and a condition variable | the same operations on the rank's own server | work queue, slot |
| Range server (`range_server.c`) | work queue, mutex, condition variable, listener and worker threads | add_work, get_work, the `range_server_*` handlers, init, stop | queue, messages, slot, store |
| Transport (`messages.c`) | MPI channels | send and receive of a size and a body; pack and unpack; get_rangesrvs; get_stat_flush | MPI |
| Partitioner (`partitioner.c`) | none (functions of the key, the job size and `md->stats`) | is_range_server, get_slice_num, get_range_server, get_range_server_from_stats | called by client and server |
| Store (`ds_leveldb.c`, `data_store.c`) | a LevelDB of records and one of statistics per server | put, batch_put, get, get_next, get_prev, del, commit (empty), open, close | called by the worker |
| Statistics (`range_server.c`, `messages.c`) | `mdhim_store_stats` per server, `md->stats` per rank, the statistics database | update_all_stats, load_stats, write_stats, get_stat_flush | worker writes, main thread reads |
| MPI over OpenSHMEM (`src/mpi_to_openshmem.c`) | one symmetric buffer for all calls, `sendInfo`, `position`, communicators and groups | Barrier, Bcast, Allgather, Gather, Gatherv, Send, Recv, Isend, Irecv, Test, Iprobe, Pack, Unpack, Comm_create, Comm_dup, Comm_free, Group_incl | puts that arrive on their own, fences, barriers of all PEs |
| pftool work tool (`pwt/`) | the manager's work queues and table of busy ranks, a worker's request | manager, scheduler and worker loops; ask, accept or refuse, hand over, done, exit | MPI messages |
| pftool applications (`apps/`), counters (`perfstat.c`) | path buffers, file pairs and chunks, the manager's chunk table, four counters | treewalk_statpath, treewalk_readdir, cmp_process_file, cmp_compare, cmp_addchunkfile, cmp_workdone | work items |
| Mlog, uthash, `hashUtils.c`, tests | | | |

What is hard in this code: three threads per range server share a queue and a
one-message slot; a bulk operation talks to several servers at once; responses
are a size message and a body message that MPI may or may not buffer; the worker
is cancelled asynchronously at shutdown; one of several messages may fail to be
packed or unpacked; cursor operations choose a server from statistics that may
be old; records and statistics are written at different times; servers and
clients take different paths through the barriers of a flush; the sizes of
messages are computed apart from the calls that fill them.  In the library every
call uses the same buffer and returns without the others having copied their
result, and a put arrives when it likes.  In pftool the manager decides from an
old probe that the job is over, waits for one worker while all wait for it, and
the chunks of a file come back in any order.  The `hazards` list of `PROJECT.json` has each of these at its line.

What makes the components correct:

* request path: every operation gets the answers to its own request and only
  after each addressed server has carried it out exactly once; no signal is
  lost; a commit covers all earlier writes; a stop loses nothing; operations
  and the close end;
* store: a get returns what the earlier puts and deletes left; the statistics
  cover the stored keys; cursor steps and scans neither skip nor repeat;
* partitioner: every valid key has exactly one server;
* calls: a bulk call split over servers is the sequence of its records; a flush
  gives every rank the statistics of all servers at one moment, and ends;
* messages: what is packed is unpacked the same, what does not fit is refused,
  a release frees what unpacking allocated;
* library: collectives and messages deliver what MPI promises, PEs meet in the
  same barriers, communicators agree;
* pftool: the job ends, and only when all is done; every path is taken once;
  every file gets one right verdict.

## Modules

`RangeServers` is the request path.  Its state is the place of the main thread
of each rank (`cpc`), of the listener (`lpc`) and of the worker (`wpc`) of each
server, the current request of a rank (`op`, `asked`, `wait`, `sized`, `got`),
the MPI channels (`req`, `rsz`, `rbd`) and the shared data of a server
(`queue`, `held`, `rmsg`, `cancel`).  An action is the code between two points
where another thread can take part: taking or releasing the mutex, an MPI call,
a wait.  A request is a number; the data it carries is left to `RangeStore`.
`Issue` is any of the data calls of `mdhim.c`: the set of servers stands for
the grouping of the records, `F` for the messages that cannot be packed.  The
collective calls are one action per barrier.  The listener receives the size of a
request from any rank (`ReceiveWorkSize`) and its body from that rank
(`receive_rangesrv_work`) in two steps; a sender makes its two non-blocking sends
in one.  `applied` is a history variable:
the requests each worker has carried out.

`AtomicCalls` is the abstract specification: a call addresses a set of servers,
each carries it out once, then the call returns.  `RangeServers` implements it
with `busy` (inside an operation) and `todo` (addressed servers that have not
carried out the current request) as refinement mapping.

`RangeServersInvariant` and `PwtInvariant` hold the inductive invariants of the
request path and of pftool.  `RangeServers_proofs`, `Partitioner_proofs`,
`RangeStore_proofs`, `MdhimCalls_proofs`, `Messages_proofs`, `MpiToShmem_proofs`
and `Pwt_proofs` hold the theorems, `Induction` the forms of induction they use;
see Proofs.

`KeyTypes` has what depends on the type of the keys: the comparators of
`ds_leveldb.c`, the numbers `partitioner.c` makes of ints, floats, strings and
bytes, and their validity.  A key of the models is its place in the order of the
store, and `Val` says what it is; an assumption, evaluated on every run, ties
that order to the comparator.  `Partitioner` has the other functions of
`partitioner.c`: servers, slices, and the choice of a slice by statistics.

`RangeStore` is what the handlers do to the data.  A key lives on the server
`get_range_server` names, so all stores are one function `db` and the store of a
server is a part of it; `stat` is the statistics hash of all servers, `sdb`
their databases, `stats` what the last flush gave the ranks.  Each handler is
one action, which the refinement of `AtomicCalls` justifies: a request is
carried out by one worker between its call and its return.  Gets do not change
the state and are operators (`mdhimGet`, `range_server_bget_op`), evaluated in
every reachable state.  `ideal` is a history variable: what the carried-out
requests should have left if the records of a batch were written one after the
other.  A crash of the job is possible between any two actions; inside a
handler it has the effect of a crash after it, because the statistics are lost
in both cases.

`MdhimCalls` composes the client side of `mdhim.c` with `RangeStore`.  A bulk
put or delete becomes one part per server (`Parts`), the parts are carried out by
the handlers of `RangeStore` in any order, the rank's own part last, and `want`
is a history variable: what the records, one after the other, should leave.
`mdhimStatFlush` is followed step by step: `fl[r]` is where rank `r` is in
`get_stat_flush` and what it has computed there, `mpi` what the ranks have given
to MPI_Gather, MPI_Gatherv and the two MPI_Bcast.  `RsBarrier` is a barrier of
`rs_comm`, `ClientBarrier` one of the client communicator; either pairs whatever
barriers its ranks are in, so a rank that left early with an error takes part in
the wrong one.  `View(r)` is `RangeStore` as rank `r` sees it, with
`mdstats[r]` for `stats`.

`Messages` is the layer between a message structure and its bytes: the size each
`pack_*` function computes, one MPI_Pack after the other, the receiver's
`unpack_*` with a `malloc` that may fail, and the two release functions.  A byte
is a cell that says which field, record and position it belongs to; sizes are
ints that wrap around at `MaxMsg`.

`Shmem` is OpenSHMEM: symmetric memory in cells of four bytes, puts on the
`wire` that arrive in any order except across a `shmem_fence` to the same PE, a
barrier that completes all.  `MpiToShmem` is the library.  Every PE runs the same
program, a sequence of calls; `pc` says in which call and at which step of it a
PE is, a step being the code between two points where others can take part
(barrier, spin loop, put).  `sendInfo`, `request`, `pos`, `group` and `comms` are
the library's variables, `got` what the last call gave the application.
`MpiPrograms` has the conditions on the programs under which the theorems about
the library hold.

`PwtData` has the data of pftool: work items, queues, requests, counters, path
buffers, the windows of a chunked file and the chunk table.  `Pwt` has its
processes: the manager's loop (probe, process or assign, leave), `scheduler_*`,
the worker's loop, and the work functions of the tree walk and of the compare,
one action per turn of their loops that ends in a request to the manager.

`MCRangeServers`, `MCRangeStore`, `MCMdhimCalls`, `MCMpiToShmem` and `MCPwt` give
the constants their values; `Messages` needs no such module.

External and taken as its documentation has it: MPI delivers in order per
source, destination and tag and may or may not buffer a message body (`Eager`);
its collectives and barriers in MDHIM pair by communicator; a
`pthread_cond_wait` may return without a signal; LevelDB is a sorted map with
atomic batches; `free` takes a lock; a put of OpenSHMEM is complete at a barrier
and ordered by a fence only.

## Runs

| Run | Instance | Shows |
|---|---|---|
| `threads` | 1 server, 1 remote client, 2 operations each, a commit, unbuffered bodies, spurious wakeups of the worker, fairness | type, answers, slot, commit, quiescent stop, order, refinement of `AtomicCalls`; operations and the close end |
| `bulk` | 2 servers, one of them a client too, and a remote client, bulk operations, a commit, buffered bodies, fairness; a listener receives a size and a body while two ranks send to it | the inductive invariant of the proofs and the refinement with several answers per operation; bulk operations end |
| `faults` | 2 servers, one of them using itself, a remote client with bulk operations on both, any of whose messages may not be packed; unpacking and heap faults, all spurious wakeups | no lost wakeup, order kept |
| `stats` | byte keys of different lengths, 2 servers, bulk puts with repeated keys and empty values, failed lookups and writes, restarts | statistics cover and bound the keys; a get returns the last value |
| `cursor` | string keys, one invalid, in 3 slices on 2 servers, an empty value, flushes and crashes at any time | every key has a server; cursor steps, ends and scans |
| `calls` | 3 ranks, 2 of them servers, append mode, float keys, one of them negative, bulk calls over both servers, one record without a slice, one call too long, flushes with one failing MPI call, crashes, restarts, fairness | a bulk call is the sequence of its records; for every rank the flush is the one step `RangeStore` has; it ends |
| `messages` | all ten message types, up to 2 records, lengths 0, 1, 2 and at the limit, failing `malloc` | sizes and packing agree, round trip, release |
| `shmem` | 3 PEs, every two of the calls that share the buffer, one after the other; packing and communicators followed by a broadcast; symmetric and other buffers; failing `shmalloc`; fairness | what MPI promises of collectives, messages, requests and packing; barriers match; communicators agree; every program ends |
| `pwt` | a manager and 2 workers, a tree of two directories and four files, walks and compares with files that cannot be opened or read, full queues and workers that leave, fairness | the job ends, and only when complete; paths once; right verdicts |

Three runs end in a violation on purpose; each is a disagreement of the code with
what a comment says of it, listed under `findings` in `PROJECT.json`:

* `rendezvous_bulk`: two bulk operations block each other when MPI does not
  buffer bodies (sizes of all servers are awaited before any body is received);
* `spurious_client`: `get_msg_self` tests its condition with `if`;
* `cursor_servers`: the first record of the next slice is skipped when another
  server has it.

### Bounds

Two operations per rank are needed for an answer to be taken by the
wrong one, two servers and two clients for the answers of a bulk operation to
cross, one commit for the barriers to interact with data operations.  Requests of
a rank never overlap, so more operations repeat the same states with larger
numbers; the proofs remove the bound.  In `RangeStore` three or four keys in two
or three slices on two servers give each case of the slice search (same slice,
next slice on the same or another server, no next slice); `MaxLen` and `MaxNum`
bound the growth of values and counts and are checked in the guards only.
Characters and bytes of two bits and strings of up to three give each case of the
fractions: a prefix, an equal first character, a character of position 0.
`calls` has a server with two slices and one with one, so that the
displacements of the gather differ, and a client without a server; `MaxErrors`
is one failed MPI call per flush.  In `Messages` a header of 3, an int of 2 and
the limit 15 let two records fit exactly, miss by one, or wrap around; bytes of
records are independent, so two records show every offset.  In `shmem` two calls
are enough because every call ends behind a barrier or leaves its PE at most one
call ahead of the others: what a call can destroy belongs to the one before.
Three PEs give a root, and two others of which one is a call ahead.  In `pwt`
two workers and buffers of two paths give concurrent requests, full and rest
buffers; a file is cut into two chunks, the last with a trailing byte.

### Fairness

`MainThread`, `Listener` and `Worker` of `RangeServers` are weakly fair: the
operating system runs every thread that can run, and the polling loops of
`messages.c` find a message that is there.  `WorkerCancelled` is fair on its own:
the worker enables asynchronous cancellation, so it happens whatever else the
worker could do.  The barriers are fair as MPI collectives.  In `MdhimCalls` the
ranks inside a flush run on.  In `MpiToShmem` some PE runs or some put arrives as
long as one can, which is enough because programs are finite.  In `Pwt` the
manager and each worker run: they block on messages only.  The application,
spurious wakeups and faults are never fair.

### Limits of the code

What the runs above leave out on purpose, because the code does not give it; the
model has these behaviours and a property or an instance excludes them.

* A request that cannot be packed leaves the responses of the other servers to
  the next operation of the rank.
* A cancellation of the worker inside `free` blocks the close (the `"heap"`
  fault).
* Statistics are written at a clean stop only; after a crash they do not cover
  the records.  Deletes leave `num` alone, so it is only an upper bound.
* In append mode the first of two records of one key in a bulk put is lost.
* Strings that differ only in trailing characters `0` have the same number (so
  have long strings beyond the precision of a `long double`): a cursor step
  between them may go to another slice.  Byte keys are ordered by length first,
  their slices by value, and slices of negative floats by absolute value, so
  cursor steps do not follow the order of the keys from slice to slice; whether a
  negative float is valid at all is undefined (`NegativeFloat`).
* A scan from the first record without a key returns nothing.
* When an MPI call of the flush fails on one rank, the others may wait for ever.
* Library: MPI_Recv never waits and ignores source and tag, so a barrier must lie
  between MPI_Send and MPI_Recv; a send right after a broadcast may destroy its
  result on a PE that has not copied it; MPI_Allgather is right for 8-byte types
  only; MPI_Gatherv compares sums, not the counts of each PE; MPI_Send finds out
  that a `long` has arrived by its value as an int and does not return when it
  does not fit one; MPI_Pack and MPI_Unpack take a communicator's rank for a PE;
  communicator calls are barriers of all PEs, also for a group of some; a NULL
  buffer is refused before the barriers.  MPI_Pack leaves what it packs for a
  buffer that is not symmetric in the library's buffer and copies only the first
  bytes of that back, so `PackRoundTrip` holds for such a buffer because no other
  call comes between the MPI_Pack and the MPI_Unpack of its session; sent to
  another PE such a buffer does not have the fields, as `mpi_packs.c:27` notes
  ("Doesn't work: char buffer[BUF_SIZE]").  MPI_Test answers 1 for an int left by
  an earlier message; `TestCompletes` asks only that what is complete is reported.
* pftool: a start path below another is taken twice (`StartsApart`); with bounded
  queues refusals can go on for ever (`JobEnds` is about the default, unlimited
  ones); a worker leaves after 100 probes without a
  message in all; a failed `opendir` loses the buffered paths of its item; a
  failed read counts as a match and a failed open as a difference, so the
  missing or printed verdict of such a file means nothing; the counter of matches counts chunks.

## Proofs

The theorems about the request path hold for every set of ranks and servers, any
number of operations and either behaviour of MPI, from `ConstantsAssumption`
alone (`RangeServers_proofs`).

* `TypeCorrect` (`[]TypeOK`) and `WakeupsKept`
  (`[]NoLostWakeup`), with all faults allowed.  The second is proved from the
  type invariant: a push and its signal are one step under the mutex, and a
  thread goes to sleep in the step that finds nothing.
* `RequestPath`, that `Reliable /\ Spec` implies `[]RequestPathInv`, and from it
  `AnswersCorrect`, `SlotSafe`, `StopIsQuiescent` and `CommitComplete`.  None of these is inductive: that an
  answer matches depends on what is in the queue, the channels and the slot.
  The invariant says that a request is in exactly one of the channel, the
  listener, the queue, the worker, the slot or the response channels, that it is
  the current request of its rank and that the rank waits for it; the rest ties
  the mutex, the collective calls and the history `applied` to these places.
* `CallsAreAtomic`, the refinement of `AtomicCalls` step by step, and
  `OrderKept`.

`Reliable` says that every request can be packed and that `get_msg_self` is not
woken without a signal.  Both are necessary: the run `spurious_client` is a
counterexample without the second, and a request that cannot be packed leaves
old answers to the next operation.  Dropped requests
(`"unpack"`), cancellation inside `free` and spurious wakeups of the worker are
allowed.

The theorems about the data hold for every number of ranks, server factor, slice
size, set of keys and set of batches, from `KeyTypesAssumption`,
`PartitionerAssumption` and `StoreAssumption`.  `Partitioner_proofs` has only
lemmas: what the functions of `partitioner.c` and the comparators give, and the
order of numbers, slices and keys.  `Induction` has the induction these proofs
and those about messages use: a nonempty set of naturals has a least element, so
a set that contains 0 and with i also i + 1 contains all (`LeastNat`, `UpTo`).  A
statement about a recursive function (`Iterate`, `Meaning`, the loop of
`range_server_bget_op`, `FlattenSeq`) is proved by naming the set of the i for
which it holds.

* `StoreTypeCorrect`: `[]TypeOK`, all faults allowed.  The invariant `StoreInv`
  adds that the stores are finite and hold only keys the partitioner accepts.
* `StatsCover`, `NumBounds` (`[]StatsCoverKeys`, `[]NumBoundsKeys`), under
  `NoCrash`.  Neither is inductive without the other half of `StatsInv`: a stop
  writes the statistics of this job over those of the last, so a slice of the
  last job must still be in the hash when the servers run.  A crash loses the
  statistics of the job, so `NoCrash` is necessary.
* `ReadsCorrect` (`[]ReadsIdeal`), under `PutsFaithful`: without append mode
  always; with it when lookups do not fail and no list names a key twice,
  because `range_server_bput` looks all keys up before it writes.  The invariant
  is `db = ideal`.
* `PartitionTotal` (`[]EverySliceServed`): all faults, all key types.
* `CursorSteps` (`[]CursorInSlice`) for every key type but bytes, whose numbers
  do not follow the comparator when lengths differ.
* `CursorFindsEnds` (`[]CursorEnds`), under `SlicesFollowKeys`: ints, strings,
  or floats that are not negative; the slice number of a negative float drops
  the sign.
* `ScanCorrect` (`[]ScanExact`) when `Keys` is finite, which the bound of the
  property needs to be a number.  A scan is a walk in which each key is the
  neighbour of the one before (`IsWalk`), and a walk from a key covers a part of
  the store without a gap (`Extent`).

The theorem about bulk calls (`MdhimCalls_proofs`) holds from the same
assumptions and `CallsAssumption`, for lists of any length and records.

* `BulkCorrect` (`[]BulkIsSequential`), under `BulkFaithful`: writes succeed,
  and in append mode no list that is short enough to be accepted names a key
  twice.  Crashes, restarts and stat flushes between the parts are allowed.  The
  invariant `BulkInv` says that no two parts go to the same server, and that for
  every key the part on its way to the key's server, or nothing if there is
  none, turns the value stored into the value wanted (`WantFollows`).  That a
  part does to its keys what the whole list does is `PutsRouted` and
  `DeletesRouted`, from what the loop that fills the messages leaves of a list
  (`RoutedIs`, `RoutedLast`).  What a server does with its part is taken from
  `RangeStore_proofs`, of which this module is an instance.

The same module has the refinement of `RangeStore` by the stat flush, from the
same assumptions and nothing else.

* `FlushAtomic` (`FlushIsAtomic`): what a server does with its part of a bulk call
  and the end, crash and start of a job are steps of `RangeStore` for all ranks at
  once; of the steps of a flush only the second broadcast of a rank is one, its
  `mdhimStatFlush`, and the others change nothing of `RangeStore`.  The invariant `FlushInv` says that either
  all ranks are outside, or nothing else runs and all ranks but those whose MPI
  call failed are between the same two barriers (`SamePart`); that what each rank
  has counted, packed and received is what the statistics are at that moment
  (`Has`), and so is what the collectives hold (`GivenRight`); and that the root
  goes on only after all counts are in (`RootCounted`).  It was checked on the run
  `calls` before it was proved.  The rest is about the buffer: the displacements
  are the sums of the counts (`DisplsIs`), together they come to the number of
  slices with statistics (`OffsetsTotal`), each place of the buffer belongs to one
  server (`OffsetsCover`, `OffsetsApart`), so that the gathered buffer, unpacked,
  is the statistics (`GatheredWhole`).

The theorems about the messages (`Messages_proofs`) hold for every size of the
structure and of an int, every `MaxMsg`, every set of lengths and any number of
records, with or without failing allocations, from `MessagesAssumption` alone.

* `PackedWholeOrRefused` (`[]PackExact`).  A pack function computes its size in
  one loop and packs in another; `SizeIs` and `BytesIs` say what each comes to
  for the ten types of message.  Below `MaxMsg` no sum of a key's and a value's
  length wraps around, so the size is what the fields need (`SizeExact`).  A size
  that wrapped around and still looks valid is found out by an MPI_Pack that
  does not fit, which `Sending` records as `return_code`.
* `UnpackedAsPacked` (`[]RoundTrip`).  `Receiving` says where `mesg_idx` is: at
  the offset of the next field in the bytes of the message (`At`, `Off`), which
  are there because `InBytes` holds; all fields before it are unpacked as they
  were packed.  A length is read before the bytes it counts (`LengthsFirst`).
* `ReleasedWhole` (`[]ReleaseComplete`).  `Allocated` says that a key or value
  that is not empty and no longer ahead has its block, and that there are no
  blocks but those of the message, its arrays, keys and values.

The theorems about the library over OpenSHMEM (`MpiToShmem_proofs`) hold for any
number of PEs, any sizes of the buffers and heap faults, from `ShmemAssumption`
and `MpiAssumption`.

* `BarriersMeet` (`[]BarriersMatch`), under `UniformPrograms`.  The invariant
  `BarrierInv` says that all PEs have the same set of barriers ahead of them
  (`Ahead`); a PE in a barrier has it ahead, one that left it has only later
  ones, so two PEs in barriers are in the same.
* `CommunicatorsAgree` (`[]CommsAgree`), under `UniformPrograms`.  The lists of
  groups and communicators differ between PEs while some have left the last
  barrier of a call and some have not; `AgreeInv` compares what each will have
  after the step that follows the barrier.
* `MpiTypeCorrect` (`[]TypeOK`), under `FittingPrograms` and `GroupsFit`.

The other four are about values: what a call returns is what MPI says.  A put may
arrive at any time until its PE passes a barrier, and goes into a buffer that all
calls share, so each holds for programs that keep their calls apart
(`CarriedPrograms`).

* `CollectivesReturnData` (`[]CollectivesDeliver`).
* `ReceivesReturnMessage` (`[]RecvGetsMessage`), with `PairedPrograms`.
* `TestsReturnCompleted` (`[]TestCompletes`), with `RequestPrograms`.
* `UnpacksReturnFields` (`[]PackRoundTrip`), with `PackedPrograms`: an MPI_Unpack
  returns the data of its field if that fits behind the fields accepted before it
  (`Session` computes their positions from the sizes), and an error if and only if
  it does not.

None of the four is inductive.  They share the invariant `Carrying`: besides
`BarrierInv` and `TypeInv` it says that a PE is at a point of the call it is in
(`PointInv`); that a put on its way carries the data of its call to the place
where they belong, and that every PE still has the same barriers ahead as the PE
that made it had then (`WireInv`); and that a PE's own data are where its call
will read them (`SourceInv`).  `Window` draws the consequence all steps use: the
call of a put under way and the call a PE is in have no barrier between them, so
by `SeparatedPrograms` the put does not hit anything that call counts on.

Each theorem adds what it is about.  A block is `Safe` when each of its cells is
there or on its way.  `MovedInv`: what a PE has put in a collective is safe until
the receiver has left the call; at the copy no put of the call is on its way
(`CopyQuiet`), so the block is there.  `SentInv`: the same from MPI_Send to the
MPI_Recv it is for.  `RequestInv`: the value a request expects is the one the
next PE's buffer holds or will hold, until MPI_Test looks at it.  `SessionInv`:
between the calls of a packing session the position is that of the next field,
and every field that was accepted is in the buffer, and in the library's copy if
the caller's memory is not symmetric (`SessionOwn` is the step, `FieldsApart`
the fact that fields do not overlap).

The conditions, all in `MpiPrograms`:

* `UniformPrograms`: in a MPI_Gatherv all PEs or none send less than the root
  expects, MPI_Comm_create takes MPI_COMM_WORLD, a group is made of ranks.  The
  code lets a short sender, or a PE outside the old communicator, return before
  a barrier the others enter.
* `FittingPrograms`, `GroupsFit`: what a call reads and writes is inside the
  buffers; the code compares no length with `LibLen`.
* `BlockPrograms`: the code moves 64-bit words in MPI_Bcast and MPI_Allgather
  whatever the datatype, so MPI_Allgather is right for datatypes of that width
  only; the blocks of a MPI_Gatherv do not overlap.
* `SeparatedPrograms`: a barrier, or a call with one, lies between a call whose
  puts may outlive it (MPI_Send, MPI_Isend) and a call that counts on the memory
  they go to, and between MPI_Test and a call that overwrites what it looks at.
  The code enforces none of these barriers.  Of the repository's tests
  `sendRcvSimple.c` has one between its send and its receive (line 72: "This has
  to be here for this to work"); `testSendRcv.c` (50-52), `sendRcvChar.c` (53-55),
  `mpi_packs.c` (80-83) and `mpi_test_int.c` (54-56) have none, so the theorems say
  nothing about them.
* `PairedPrograms`, `RequestPrograms`: an MPI_Recv has its MPI_Send, behind a
  barrier, and an MPI_Test its MPI_Isend or MPI_Irecv; between the two nothing
  else is stored into the library's buffer.
* `PackedPrograms`: an MPI_Unpack belongs to a session: fields packed one after
  the other and unpacked in the same order, into one buffer, with no other call
  between; a field that is refused is not longer than one that was accepted.

All programs of the run `shmem` satisfy all of them (`MCConditions`, which TLC
evaluates), and the invariants were checked on that run before they were proved.

The theorems about pftool (`Pwt_proofs`) hold for any number of workers, any tree
and contents of the files, any buffer size, any limit of the queues, and all
faults, from `PwtAssumption` and `JobAssumption`.

* `TalkSafe` (`[]TalkInv`).  A worker is in one of six phases, each of which says
  what the table of busy ranks has for it, where it is in its work function and
  which messages are under way in both directions: idle, given an item, at work,
  asking to hand over an item, answered, finished (`Free` to `Finished`).  That
  the manager's probe may be stale does no harm because a busy worker is never
  given a second item, and an idle one has sent nothing.
* `PathsOnceSafe` (`[]PathsOnce`), under `StartsApart`.  What is left to do is
  counted in tokens: one for each path to stat, each directory to read, each
  directory and part to be counted, each part of a file to be compared, each
  announcement of chunks.  `All(t)` is how often token `t` is held, by a worker
  (the rest of its item, its open directory, its buffer, its offer, the parts of
  a file not yet offered, its counters), by a message or by a queue.  One lemma
  per action (those named `...Flow`) says what the action does to `All(t)` for
  every `t` at once: most only move tokens.  `WalkInv` then needs a few cases
  (`WalkStep`): a path has at most one token or was stat-ed once, never both; the
  entries of a directory get theirs when the read token of the directory is
  spent; and as nothing is held at the end (`AllNone`), no path is missed.  A
  failing `opendir` may lose tokens, which is why the second half of `PathsOnce`
  is about jobs without one.
* `EndIsCompleteSafe` (`[]EndIsComplete`), under `StartsApart`: what the manager
  has counted and what is still to be counted are together what was stat-ed
  (`CountInv`).
* `VerdictsRightSafe` (`[]VerdictsRight`), under `StartsApart`.  For one file every
  step is nothing, its stat, the news of its chunks at the manager or the outcome
  of one part (`FileStep`).  `CompareInv` says that the chunk table counts the
  parts of a file the manager has no outcome of; that a file is announced before
  its first part is handed over (`AddsFirst`), so its entry is there before any
  outcome; that outcomes under way are right (`OutcomesRight`); and why a file has
  no verdict yet (`Awaited`).  That a file whose parts are all the same is the same
  is `PartsCover`: the windows of the chunks cover the file.

`StartsApart` says that no start path lies below another or is given twice: the
code has no table of visited paths and takes such paths again.  The jobs of the
run `pwt` satisfy it, which its module assumes and TLC evaluates.  The parts of
the invariant were checked on that run before they were proved.

Only model-checked is liveness (`OpsComplete`, `CloseCompletes`, `FlushReturns`,
`Terminates`, `JobEnds`), which depends on fairness and is beyond the proof
system's reach.

## Not modelled

* Allocation failures outside `Messages`, `MpiToShmem` and the chunk table of
  pftool; error returns of MPI and pthread calls other than packing, unpacking
  and those inside the stat flush; timings and logging.
* `range_server_bget`, which is a get per key; the casts a caller makes of the
  message it gets; the ownership of buffers inside the handlers of the server, with
  the second `free` of a remote record's value in append mode (`range_server.c:693`
  and `732`), which is a normal write here.
* Rounding of the fractions of strings longer than ten characters and of byte
  keys longer than eight bytes.
* Opening of files and path selection; the job size changing between two runs on
  the same files; machine failures that lose unsynced writes.
* Of messages: an `m_size` below -2^31 that the cast to int (`messages.c:723` and
  `795`) makes positive, which the MPI_Pack that follows refuses in the code and
  the comparison with the limit in the model.
* Of the library: collectives on a communicator other than MPI_COMM_WORLD, whose
  `offset` and `sendInfo` MPI_Comm_create (724-730) and MPI_Comm_dup (838-842) never
  set; the uninitialised value MPI_Send and MPI_Recv return (1727, 1849); a NULL
  from `shmalloc` in MPI_Isend and MPI_Irecv (2148, 2278), which they use unchecked;
  MPI_Abort, environment variables, and the mutexes of its
  multi-threaded mode, one per function, which do not protect the shared buffer.
* Of pftool: option parsing, path strings, layout of the output, `pftool.c`,
  errors that abort the job, `fchunktbl_resize`, which nothing calls.
* Mlog and uthash are third-party, `hashUtils.c` is not called.

## Plan

Done: the modules above, and the proofs of the request path, of the record
store, of bulk calls and the stat flush, of the messages, of the library over
OpenSHMEM, and of pftool.  Left: `Durability`, writes that are not synced when the
machine fails.
