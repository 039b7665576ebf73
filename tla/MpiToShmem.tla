----------------------------- MODULE MpiToShmem -----------------------------
(* The MPI library of src/src/mpi_to_openshmem.c.  Every PE runs the same    *)
(* program, a sequence of MPI calls; a call is the sequence of steps between *)
(* which other PEs run and puts arrive.  All calls share one symmetric       *)
(* buffer (comm->bufferPtr), so that one call can destroy what another PE    *)
(* has not yet copied out of it.                                             *)
EXTENDS Shmem

CONSTANTS Width,       \* cells of one element of each MPI datatype
          ByValue,     \* datatypes MPI_Send recognises by the last element
          Programs,    \* the programs: sequences of calls
          HeapFaults   \* whether shmalloc may return NULL

ASSUME MpiAssumption == /\ \A t \in DOMAIN Width : Width[t] \in Nat \ {0}
                        /\ ByValue \subseteq DOMAIN Width
                        /\ \A pr \in Programs : Len(pr) \in Nat /\ DOMAIN pr = 1 .. Len(pr)
                        /\ HeapFaults \in BOOLEAN

VARIABLES prog,        \* the program this job runs
          pc,          \* pc[p]: the call PE p is in and where it is in it
          sendInfo,    \* comm->sendInfo[0]
          request,     \* the MPI_Request of the last MPI_Isend or MPI_Irecv
          pos,         \* *position of MPI_Pack and MPI_Unpack
          group,       \* the group the last MPI_Group_incl made
          comms,       \* the communicators of PE p, MPI_COMM_WORLD first
          got          \* what the last call with a result returned to PE p

callVars == <<prog, sendInfo, request, pos, group, comms, got>>
vars == <<shmemVars, pc, callVars>>

Quad == 2              \* cells of the 64-bit words broadcast64 and fcollect64 move
Flag == -1             \* the flag MPI_Send writes behind its data
NoResult == [k |-> 0, res |-> <<>>]

\* The call PE p is in.
Call(p) == prog[pc[p].k]
In(p, op, at) == pc[p].at = at /\ Call(p).op = op

\* Control inside a call: to the next step, through n barriers, to the next call.
Goto(p, at) == pc' = [pc EXCEPT ![p].at = at]
Barrier(p, n, then) ==
  pc' = [pc EXCEPT ![p] = [@ EXCEPT !.at = "barrier", !.left = n, !.then = then]]
Return(p) ==
  pc' = [pc EXCEPT ![p] = [k |-> @.k + 1, at |-> "call", left |-> 0, then |-> "call"]]

GetNumBytes(count, type) == count * Width[type]
Cells(c) == GetNumBytes(c.count, c.type)

\* GetBufferOffset: the cell behind `count' elements; comm->offset stays 0.
GetBufferOffset(c) == Cells(c)

\* The application's data of call k on PE p: every cell is different, but the
\* high halves of longs that fit into an int are 0.
Datum(k, p, i) ==
  IF prog[k].type = "long" /\ ~ prog[k].big /\ i % 2 = 1 THEN 0
  ELSE 100 * k + 10 * p + i + 1
Data(k, p) == [i \in 0 .. Cells(prog[k]) - 1 |-> Datum(k, p, i)]

\* CopyMyData: count elements from one buffer to another.
CopyMyData(p, area, at, cells) == [mem EXCEPT ![p][area] = Store(@, at, cells)]

\* n cells from the buffer the puts of a collective read: the user's own when
\* it is symmetric, the library's otherwise.  A symmetric buffer shorter than n
\* is followed by memory of which nothing is known (0).
SendCells(c, k, p, n) ==
  IF c.symS THEN [i \in 0 .. n - 1 |-> IF i < Cells(c) THEN Datum(k, p, i) ELSE 0]
  ELSE Slice(mem[p].lib, 0, n)

\* Where the gathering calls put their blocks: the user's buffer when it is
\* symmetric, the library's behind the data to send otherwise.
RecvArea(c) == IF c.symR THEN "usr" ELSE "lib"

(* Mutant: the blocks are received over the data that are still to be sent. *)
RecvAtStart(c) == 0

RecvAt(c) == IF c.symR \/ c.symS THEN 0 ELSE GetBufferOffset(c)

Result(p, res) == got' = [got EXCEPT ![p] = [k |-> pc[p].k, res |-> res]]

-----------------------------------------------------------------------------
(* MPI_Init, MPI_Init_thread: the buffers and MPI_COMM_WORLD. *)
World(p) == [rank |-> p, size |-> NumPes, pes |-> [i \in 1 .. NumPes |-> i - 1], live |-> TRUE]

Unsent == [tag |-> 0, type |-> "none", count |-> 0]

Init ==
  /\ ShmemInit
  /\ prog \in Programs
  /\ pc = [p \in PE |-> [k |-> 1, at |-> "call", left |-> 0, then |-> "call"]]
  /\ sendInfo = [p \in PE |-> Unsent]
  /\ request = [p \in PE |-> [rank |-> p, last |-> 0, expected |-> 0]]
  /\ pos = [p \in PE |-> 0]
  /\ group = [p \in PE |-> World(p)]
  /\ comms = [p \in PE |-> <<World(p)>>]
  /\ got = [p \in PE |-> NoResult]

\* shmem_barrier_all returns on every PE at once.
BarrierAll ==
  /\ \A p \in PE : pc[p].at = "barrier"
  /\ Quiet
  /\ pc' = [p \in PE |-> IF pc[p].left > 1 THEN [pc[p] EXCEPT !.left = @ - 1]
                         ELSE [pc[p] EXCEPT !.at = pc[p].then, !.left = 0]]
  /\ UNCHANGED callVars

(* Mutant: MPI_Barrier does not wait. *)
BarrierSkipped(p) ==
  /\ In(p, "barrier", "call")
  /\ Goto(p, "return")
  /\ UNCHANGED <<shmemVars, callVars>>

\* MPI_Barrier, MPI_Abort, MPI_Finalize: a barrier of all PEs, whatever the
\* communicator.
MPI_Barrier(p) ==
  /\ In(p, "barrier", "call")
  /\ Barrier(p, 1, "return")
  /\ UNCHANGED <<shmemVars, callVars>>

\* MPI_Iprobe: a fence and a barrier of all PEs; the flag is always set.
MPI_Iprobe(p) ==
  /\ In(p, "iprobe", "call")
  /\ Fence(p)
  /\ Barrier(p, 1, "return")
  /\ Result(p, [i \in {0} |-> 1])
  /\ UNCHANGED <<mem, wire, prog, sendInfo, request, pos, group, comms>>

BarrierReturn(p) ==
  /\ Call(p).op \in {"barrier", "iprobe"} /\ pc[p].at = "return"
  /\ Return(p)
  /\ UNCHANGED <<shmemVars, callVars>>

-----------------------------------------------------------------------------
(* MPI_Bcast.  The application's buffer is `usr', filled on the root. *)
BcastEnter(p) ==
  LET c == Call(p)
      usr == IF p = c.root THEN Store(mem[p].usr, 0, Data(pc[p].k, p)) ELSE mem[p].usr
  IN  /\ In(p, "bcast", "call")
      /\ mem' = [mem EXCEPT ![p] =
                  [usr |-> usr,
                   lib |-> IF c.symS THEN @.lib ELSE Store(@.lib, 0, Slice(usr, 0, Cells(c)))]]
      /\ Barrier(p, 1, "move")
      /\ UNCHANGED <<wire, fence, callVars>>

\* shmem_broadcast64 moves count 64-bit words to all PEs but the root.
BcastDest(c) == IF c.symS THEN 0 ELSE GetBufferOffset(c)
BcastMove(p) ==
  LET c == Call(p)
      words == Slice(IF c.symS THEN mem[p].usr ELSE mem[p].lib, 0, c.count * Quad)
  IN  /\ In(p, "bcast", "move")
      /\ Puts(p, {PutTo(p, q, "lib", BcastDest(c), words, pc[p].k) :
                    q \in IF p = c.root THEN PE \ {p} ELSE {}})
      /\ Barrier(p, 1, "copy")
      /\ UNCHANGED <<fence, callVars>>

BcastCopy(p) ==
  LET c == Call(p)
      usr == IF p = c.root THEN mem[p].usr
             ELSE Store(mem[p].usr, 0, Slice(mem[p].lib, BcastDest(c), Cells(c)))
  IN  /\ In(p, "bcast", "copy")
      /\ mem' = [mem EXCEPT ![p].usr = usr]
      /\ Result(p, Slice(usr, 0, Cells(c)))
      /\ Return(p)
      /\ UNCHANGED <<wire, fence, prog, sendInfo, request, pos, group, comms>>

-----------------------------------------------------------------------------
(* MPI_Allgather and MPI_Gather: the data into the library's buffer, a       *)
(* barrier, one put per block, a barrier, the blocks out of the buffer.      *)
\* A NULL buffer is refused before any barrier.
GatherNull(p) ==
  /\ Call(p).op \in {"allgather", "gather", "gatherv"} /\ pc[p].at = "call"
  /\ Call(p).null
  /\ Result(p, <<>>)
  /\ Return(p)
  /\ UNCHANGED <<shmemVars, prog, sendInfo, request, pos, group, comms>>

GatherEnter(p) ==
  LET c == Call(p)
  IN  /\ c.op \in {"allgather", "gather"} /\ pc[p].at = "call" /\ ~ c.null
      /\ mem' = IF c.symS THEN mem ELSE CopyMyData(p, "lib", 0, Data(pc[p].k, p))
      /\ Barrier(p, 1, "move")
      /\ UNCHANGED <<wire, fence, callVars>>

\* shmem_fcollect64: the block of PE p, counted in 64-bit words, to every PE.
AllgatherMove(p) ==
  LET c == Call(p)
      words == SendCells(c, pc[p].k, p, c.count * Quad)
  IN  /\ In(p, "allgather", "move")
      /\ Puts(p, {PutTo(p, q, RecvArea(c), RecvAt(c) + p * c.count * Quad, words, pc[p].k) : q \in PE})
      /\ Barrier(p, 1, "copy")
      /\ UNCHANGED <<fence, callVars>>

\* A put of the datatype's width: the block of PE p to the root.
GatherMove(p) ==
  LET c == Call(p)
  IN  /\ In(p, "gather", "move")
      /\ Puts(p, {PutTo(p, c.root, RecvArea(c), RecvAt(c) + p * Cells(c),
                        SendCells(c, pc[p].k, p, Cells(c)), pc[p].k)})
      /\ Barrier(p, 1, "copy")
      /\ UNCHANGED <<fence, callVars>>

GatherCopy(p) ==
  LET c == Call(p)
      gets == c.op = "allgather" \/ p = c.root
      usr == IF c.symR \/ ~ gets THEN mem[p].usr
             ELSE Store(mem[p].usr, 0, Slice(mem[p].lib, RecvAt(c), NumPes * Cells(c)))
  IN  /\ c.op \in {"allgather", "gather"} /\ pc[p].at = "copy"
      /\ mem' = [mem EXCEPT ![p].usr = usr]
      /\ Result(p, IF gets THEN Slice(usr, 0, NumPes * Cells(c)) ELSE <<>>)
      /\ Return(p)
      /\ UNCHANGED <<wire, fence, prog, sendInfo, request, pos, group, comms>>

-----------------------------------------------------------------------------
(* MPI_Gatherv, for buffers that are not symmetric: for symmetric ones the   *)
(* code decides on variables it never set.                                   *)
Displs(c) == [i \in PE |-> c.displs[i + 1]]
\* totalNumSent adds up the displacements.
TotalNumSent(c) ==
  LET sum[i \in 0 .. NumPes] == IF i = 0 THEN 0 ELSE sum[i - 1] + c.displs[i]
  IN  sum[NumPes]

GathervEnter(p) ==
  /\ In(p, "gatherv", "call") /\ ~ Call(p).null
  /\ mem' = CopyMyData(p, "lib", 0, Data(pc[p].k, p))
  /\ Barrier(p, 1, "recvbuf")
  /\ UNCHANGED <<wire, fence, callVars>>

GathervRecvBuf(p) ==
  LET c == Call(p)
  IN  /\ In(p, "gatherv", "recvbuf")
      /\ mem' = CopyMyData(p, "lib", GetBufferOffset(c),
                  Slice(mem[p].usr, 0, GetNumBytes(TotalNumSent(c), c.type)))
      /\ Barrier(p, 1, "check")
      /\ UNCHANGED <<wire, fence, callVars>>

(* Mutant: only the root compares the counts. *)
SizeErrorAtRoot(p) == p = Call(p).root /\ Call(p).count < Call(p).recvcount[p + 1]

SizeError(p) == Call(p).count < Call(p).recvcount[p + 1]

\* A PE that sends less than the root expects returns MPI_ERR_SIZE, and skips
\* the two barriers the others still enter.
GathervCheck(p) ==
  /\ In(p, "gatherv", "check")
  /\ IF SizeError(p) THEN Result(p, <<>>) /\ Return(p)
                     ELSE Barrier(p, 1, "move") /\ UNCHANGED got
  /\ UNCHANGED <<shmemVars, prog, sendInfo, request, pos, group, comms>>

GathervMove(p) ==
  LET c == Call(p)
      n == GetNumBytes(c.recvcount[p + 1], c.type)
      at == GetBufferOffset(c) + GetNumBytes(Displs(c)[p], c.type)
  IN  /\ In(p, "gatherv", "move")
      /\ Puts(p, {PutTo(p, c.root, "lib", at, Slice(mem[p].lib, 0, n), pc[p].k)})
      /\ Fence(p)
      /\ Barrier(p, 1, "copy")
      /\ UNCHANGED callVars

\* The root copies totalNumSent elements back, as MPI_INT whatever the type.
GathervCopy(p) ==
  LET c == Call(p)
      n == GetNumBytes(TotalNumSent(c), "int")
      usr == IF p # c.root THEN mem[p].usr
             ELSE Store(mem[p].usr, 0, Slice(mem[p].lib, GetBufferOffset(c), n))
  IN  /\ In(p, "gatherv", "copy")
      /\ mem' = [mem EXCEPT ![p].usr = usr]
      /\ Result(p, IF p = c.root THEN usr ELSE <<>>)
      /\ Return(p)
      /\ UNCHANGED <<wire, fence, prog, sendInfo, request, pos, group, comms>>

-----------------------------------------------------------------------------
(* MPI_Send and MPI_Recv.  Both use the start of the library's buffer.       *)
\* A PE that is neither source nor destination goes on to its next call.
NotMine(p) ==
  /\ \/ Call(p).op = "send" /\ p # Call(p).from
     \/ Call(p).op = "recv" /\ p # Call(p).to
  /\ pc[p].at = "call"
  /\ Return(p)
  /\ UNCHANGED <<shmemVars, callVars>>

\* One put per element: the elements of a put arrive in any order.
ElementPuts(p, q, c, cells) ==
  {PutTo(p, q, "lib", i * Width[c.type],
         Slice(cells, i * Width[c.type], Width[c.type]), pc[p].k) : i \in 0 .. c.count - 1}

MPI_SendByValue(p) ==
  LET c == Call(p)
  IN  /\ In(p, "send", "call") /\ p = c.from /\ c.type \in ByValue
      /\ sendInfo' = [sendInfo EXCEPT ![p] = [tag |-> c.tag, type |-> c.type, count |-> c.count]]
      /\ Puts(p, ElementPuts(p, c.to, c, Data(pc[p].k, p)))
      /\ Goto(p, "spin")
      /\ UNCHANGED <<fence, prog, request, pos, group, comms, got>>

\* The other types are followed by a flag, and the fence by nothing that it
\* would order: the flag may arrive before the data.
MPI_SendFlagged(p) ==
  LET c == Call(p)
  IN  /\ In(p, "send", "call") /\ p = c.from /\ c.type \notin ByValue
      /\ sendInfo' = [sendInfo EXCEPT ![p] = [tag |-> c.tag, type |-> c.type, count |-> c.count]]
      /\ Puts(p, ElementPuts(p, c.to, c, Data(pc[p].k, p)) \cup
                 {PutTo(p, c.to, "lib", GetBufferOffset(c), [i \in {0} |-> Flag], pc[p].k)})
      /\ Fence(p)
      /\ Goto(p, "spin")
      /\ UNCHANGED <<prog, request, pos, group, comms, got>>

(* Mutant: the element behind the last one is looked at. *)
ElementBehindThere(c, k) ==
  mem[c.to].lib[GetBufferOffset(c)] = Datum(k, c.from, (c.count - 1) * Width[c.type])

\* The last element, compared through an int: the high half must be 0.
LastElementThere(c, k) ==
  LET w == Width[c.type]
      last == [j \in 0 .. w - 1 |-> Datum(k, c.from, (c.count - 1) * w + j)]
  IN  /\ Slice(mem[c.to].lib, (c.count - 1) * w, w) = last
      /\ \A j \in 1 .. w - 1 : last[j] = 0
FlagThere(c) == mem[c.to].lib[GetBufferOffset(c)] = Flag

\* The loop over shmem_..._cswap ends; until then MPI_Send keeps looking.
SendReturn(p) ==
  LET c == Call(p)
  IN  /\ In(p, "send", "spin")
      /\ IF c.type \in ByValue THEN LastElementThere(c, pc[p].k) ELSE FlagThere(c)
      /\ Return(p)
      /\ UNCHANGED <<shmemVars, callVars>>

\* MPI_Recv copies what the buffer holds, whether or not a message came.
MPI_Recv(p) ==
  LET c == Call(p)
      cells == Slice(mem[p].lib, 0, Cells(c))
  IN  /\ In(p, "recv", "call") /\ p = c.to
      /\ mem' = CopyMyData(p, "usr", 0, cells)
      /\ Fence(p)
      /\ sendInfo' = [sendInfo EXCEPT ![p] = Unsent]
      /\ Result(p, cells)
      /\ Return(p)
      /\ UNCHANGED <<wire, prog, request, pos, group, comms>>

-----------------------------------------------------------------------------
(* MPI_Isend, MPI_Irecv, MPI_Test; every PE talks to the next one. *)
NextPe(p) == (p + 1) % NumPes

(* Mutant: the int behind the last one is tested. *)
LastIntBehind(c) == c.count

\* lastBufPtr: the int of the receive buffer that MPI_Test looks at.
LastInt(c) == c.count - 1

\* The request's shmalloc is a barrier of all PEs.
IsendEnter(p) ==
  LET c == Call(p)
  IN  /\ In(p, "isend", "call")
      /\ mem' = IF c.symS THEN mem
                ELSE CopyMyData(p, "lib", GetBufferOffset(c), Data(pc[p].k, p))
      /\ Barrier(p, 1, "move")
      /\ UNCHANGED <<wire, fence, callVars>>

IsendMove(p) ==
  LET c == Call(p)
      cells == IF c.symS THEN Data(pc[p].k, p)
               ELSE Slice(mem[p].lib, GetBufferOffset(c), Cells(c))
  IN  /\ In(p, "isend", "move")
      /\ Puts(p, ElementPuts(p, NextPe(p), c, cells))
      /\ request' = [request EXCEPT ![p] =
           [rank |-> NextPe(p), last |-> LastInt(c), expected |-> Datum(pc[p].k, p, c.count - 1)]]
      /\ Return(p)
      /\ UNCHANGED <<fence, prog, sendInfo, pos, group, comms, got>>

IrecvEnter(p) ==
  /\ In(p, "irecv", "call")
  /\ Barrier(p, 1, "move")
  /\ UNCHANGED <<shmemVars, callVars>>

\* MPI_Irecv reads the buffer of the source, where the messages TO it lie.
IrecvMove(p) ==
  LET c == Call(p)
      cells == Slice(mem[NextPe(p)].lib, 0, Cells(c))
  IN  /\ In(p, "irecv", "move")
      /\ mem' = CopyMyData(p, "usr", 0, cells)
      /\ request' = [request EXCEPT ![p] =
           [rank |-> NextPe(p), last |-> LastInt(c), expected |-> mem[NextPe(p)].lib[c.count - 1]]]
      /\ Result(p, cells)
      /\ Return(p)
      /\ UNCHANGED <<wire, fence, prog, sendInfo, pos, group, comms>>

\* MPI_Test: an int of the other PE's buffer is compared with the expected one.
MPI_Test(p) ==
  LET r == request[p]
  IN  /\ In(p, "test", "call")
      /\ Result(p, [i \in {0} |-> IF mem[r.rank].lib[r.last] = r.expected THEN 1 ELSE 0])
      /\ Return(p)
      /\ UNCHANGED <<shmemVars, prog, sendInfo, request, pos, group, comms>>

-----------------------------------------------------------------------------
(* Groups and communicators.  Every shmalloc and shfree is a barrier of all  *)
(* PEs, members of the communicator or not.                                  *)
\* An application without the communicator it asked for goes on with
\* MPI_COMM_WORLD.
CommOf(p) == IF Call(p).comm \in DOMAIN comms[p] THEN Call(p).comm ELSE 1

MembersOf(comm) == {comm.pes[i] : i \in DOMAIN comm.pes}

GroupEnter(p) ==
  /\ In(p, "group_incl", "call")
  /\ Barrier(p, 1, "group")
  /\ UNCHANGED <<shmemVars, callVars>>

(* Mutant: new_rank counts from 1. *)
NewRankFromOne(p, ranks) == {i \in DOMAIN ranks : ranks[i] = p}

NewRank(p, ranks) == {i - 1 : i \in {j \in DOMAIN ranks : ranks[j] = p}}

\* new_rank is the position of my_pe in the list, unset when it is not there.
MPI_Group_incl(p) ==
  LET ranks == Call(p).ranks
      mine == NewRank(p, ranks)
  IN  /\ In(p, "group_incl", "group")
      /\ \E r \in IF mine = {} THEN {-1} \cup PE ELSE mine :
           group' = [group EXCEPT ![p] =
             [rank |-> r, size |-> Len(ranks), pes |-> ranks, live |-> TRUE]]
      /\ Return(p)
      /\ UNCHANGED <<shmemVars, prog, sendInfo, request, pos, comms, got>>

(* Mutant: one shmalloc too many. *)
FiveAllocations == 5

\* The buffer, the communicator, its group and the list of its PEs.
CommAllocations == 4

\* The PEs that are in the group of the old communicator allocate a new
\* one; the others do nothing.
CommEnter(p) ==
  LET c == Call(p)
      old == comms[p][CommOf(p)]
      creates == c.op = "comm_dup" \/ p \in MembersOf(old)
  IN  /\ c.op \in {"comm_create", "comm_dup"} /\ pc[p].at = "call"
      /\ IF creates THEN Barrier(p, CommAllocations, "comm") ELSE Return(p)
      /\ UNCHANGED <<shmemVars, callVars>>

\* The symmetric heap is full: shmalloc returns NULL on every PE, each returns
\* MPI_ERR_NO_MEM and keeps what it had allocated.
HeapFull ==
  /\ HeapFaults
  /\ \A p \in PE : pc[p].at = "barrier" /\ pc[p].then \in {"comm", "group"}
  /\ Quiet
  /\ pc' = [p \in PE |-> [pc[p] EXCEPT !.at = "failed", !.left = 0]]
  /\ UNCHANGED callVars
HeapReturn(p) ==
  /\ pc[p].at = "failed"
  /\ Return(p)
  /\ UNCHANGED <<shmemVars, callVars>>

MPI_Comm_create(p) ==
  /\ In(p, "comm_create", "comm")
  /\ comms' = [comms EXCEPT ![p] = Append(@, group[p])]
  /\ Return(p)
  /\ UNCHANGED <<shmemVars, prog, sendInfo, request, pos, group, got>>

MPI_Comm_dup(p) ==
  /\ In(p, "comm_dup", "comm")
  /\ comms' = [comms EXCEPT ![p] = Append(@, @[CommOf(p)])]
  /\ Return(p)
  /\ UNCHANGED <<shmemVars, prog, sendInfo, request, pos, group, got>>

\* Three shfree calls, of the list, the group and the buffer.
CommFreeEnter(p) ==
  /\ In(p, "comm_free", "call")
  /\ Barrier(p, 3, "freed")
  /\ UNCHANGED <<shmemVars, callVars>>
MPI_Comm_free(p) ==
  /\ In(p, "comm_free", "freed")
  /\ comms' = [comms EXCEPT ![p][CommOf(p)].live = FALSE]
  /\ Return(p)
  /\ UNCHANGED <<shmemVars, prog, sendInfo, request, pos, group, got>>

\* MPI_Comm_rank and MPI_Comm_size read the group of the communicator;
\* MPI_Comm_group assigns its own parameter and changes nothing.
MPI_Comm_rank(p) ==
  LET comm == comms[p][CommOf(p)]
  IN  /\ In(p, "comm_rank", "call")
      /\ Result(p, <<comm.rank, comm.size>>)
      /\ Return(p)
      /\ UNCHANGED <<shmemVars, prog, sendInfo, request, pos, group, comms>>

-----------------------------------------------------------------------------
(* MPI_Pack and MPI_Unpack.  The rank in the communicator is used as the     *)
(* number of the PE whose memory is written and read.                        *)
Position(p) == IF Call(p).first THEN 0 ELSE pos[p]

(* Mutant: a field that fills the buffer to its end is refused. *)
NoSpaceAtEnd(p) == Position(p) + Cells(Call(p)) >= Call(p).size

NoSpace(p) == Position(p) + Cells(Call(p)) > Call(p).size

PackNoSpace(p) ==
  /\ In(p, "pack", "call") /\ NoSpace(p)
  /\ Result(p, <<>>)
  /\ Return(p)
  /\ UNCHANGED <<shmemVars, prog, sendInfo, request, pos, group, comms>>

\* A buffer that is not symmetric is packed in the library's, of which the
\* first numBytes, and not the bytes just packed, are copied back.
MPI_Pack(p) ==
  LET c == Call(p)
      q == comms[p][CommOf(p)].rank
      area == IF c.symS THEN "usr" ELSE "lib"
      put == PutTo(p, q, area, Position(p), Data(pc[p].k, p), pc[p].k)
      lib == IF q = p /\ ~ c.symS THEN Store(mem[p].lib, put.at, put.cells) ELSE mem[p].lib
  IN  /\ In(p, "pack", "call") /\ ~ NoSpace(p)
      /\ IF c.symS THEN Puts(p, {put})
         ELSE /\ mem' = [mem EXCEPT ![p] =
                    [lib |-> lib, usr |-> Store(@.usr, 0, Slice(lib, 0, Cells(c)))]]
              /\ wire' = IF q = p THEN wire ELSE wire \cup {put}
      /\ Fence(p)
      /\ pos' = [pos EXCEPT ![p] = Position(p) + Cells(c)]
      /\ Return(p)
      /\ UNCHANGED <<prog, sendInfo, request, group, comms, got>>

\* A buffer that is not symmetric is first copied, numBytes from its start.
MPI_Unpack(p) ==
  LET c == Call(p)
      q == comms[p][CommOf(p)].rank
      m == IF c.symS THEN mem
           ELSE CopyMyData(p, "lib", 0, Slice(mem[p].usr, 0, Cells(c)))
      from == IF c.symS THEN m[q].usr ELSE m[q].lib
  IN  /\ In(p, "unpack", "call")
      /\ mem' = m
      /\ IF NoSpace(p)
           THEN Result(p, <<>>) /\ UNCHANGED pos
           ELSE /\ Result(p, Slice(from, Position(p), Cells(c)))
                /\ pos' = [pos EXCEPT ![p] = Position(p) + Cells(c)]
      /\ Return(p)
      /\ UNCHANGED <<wire, fence, prog, sendInfo, request, group, comms>>

-----------------------------------------------------------------------------
Collective(p) ==
  \/ MPI_Barrier(p) \/ MPI_Iprobe(p) \/ BarrierReturn(p)
  \/ BcastEnter(p) \/ BcastMove(p) \/ BcastCopy(p)
  \/ GatherNull(p) \/ GatherEnter(p) \/ AllgatherMove(p) \/ GatherMove(p) \/ GatherCopy(p)
  \/ GathervEnter(p) \/ GathervRecvBuf(p) \/ GathervCheck(p) \/ GathervMove(p) \/ GathervCopy(p)

PointToPoint(p) ==
  \/ NotMine(p) \/ MPI_SendByValue(p) \/ MPI_SendFlagged(p) \/ SendReturn(p) \/ MPI_Recv(p)
  \/ IsendEnter(p) \/ IsendMove(p) \/ IrecvEnter(p) \/ IrecvMove(p) \/ MPI_Test(p)

Management(p) ==
  \/ GroupEnter(p) \/ MPI_Group_incl(p) \/ CommEnter(p) \/ HeapReturn(p)
  \/ MPI_Comm_create(p) \/ MPI_Comm_dup(p) \/ CommFreeEnter(p) \/ MPI_Comm_free(p)
  \/ MPI_Comm_rank(p)

Packing(p) == PackNoSpace(p) \/ MPI_Pack(p) \/ MPI_Unpack(p)

Done(p) == pc[p].k > Len(prog)

Step(p) == ~ Done(p) /\ (Collective(p) \/ PointToPoint(p) \/ Management(p) \/ Packing(p))

Arrival == \E m \in wire : Deliver(m) /\ UNCHANGED <<pc, callVars>>

Next == (\E p \in PE : Step(p)) \/ BarrierAll \/ HeapFull \/ Arrival

Spec == Init /\ [][Next]_vars

\* The job goes on as long as some PE can take a step, a put can arrive or a
\* barrier can be left.
FairSpec == Spec /\ WF_vars(Next)

-----------------------------------------------------------------------------
TypeOK ==
  /\ mem \in [PE -> Areas]
  /\ \A m \in wire : m.src \in PE /\ m.to \in PE /\ m.area \in {"lib", "usr"}
  /\ fence \in [PE -> Nat]
  /\ prog \in Programs
  /\ \A p \in PE : pc[p].k \in 1 .. Len(prog) + 1 /\ pc[p].left \in 0 .. 4
  /\ pos \in [PE -> Nat]

\* What MPI says call k leaves in the receive buffer of PE p: the data of the
\* root of a broadcast; the blocks of all PEs, in their order, of a gather.
Blocks(k) ==
  LET n == Cells(prog[k]) IN [i \in 0 .. NumPes * n - 1 |-> Datum(k, i \div n, i % n)]

Delivered(p, k, res) ==
  LET c == prog[k]
  IN  res # <<>> =>                    \* unless an error code was returned
        /\ c.op = "bcast" => res = Data(k, c.root)
        /\ c.op \in {"allgather", "gather"} => res = Blocks(k)
        /\ c.op = "gatherv" =>
             \A q \in PE : LET n == GetNumBytes(c.recvcount[q + 1], c.type)
                          IN  Slice(res, GetNumBytes(Displs(c)[q], c.type), n) = Slice(Data(k, q), 0, n)

\* Every PE that leaves MPI_Bcast, MPI_Allgather, MPI_Gather or MPI_Gatherv has
\* the data MPI promises, although all calls share one buffer and a PE may be
\* a call ahead of another: nothing is put into the buffer of a PE between the
\* second barrier of a call and its copy out of the buffer.
CollectivesDeliver ==
  \A p \in PE : got[p].k # 0 => Delivered(p, got[p].k, got[p].res)

\* MPI_Recv returns the message sent to this PE when a barrier lies between
\* MPI_Send and MPI_Recv and after MPI_Recv, as in the test sendRcvSimple.c.
RecvGetsMessage ==
  \A p \in PE : LET k == got[p].k IN
    (k # 0 /\ prog[k].op = "recv") => got[p].res = Data(k - prog[k].back, prog[k].from)

\* An MPI_Isend that a barrier separates from MPI_Test is reported complete.
TestCompletes ==
  \A p \in PE : LET k == got[p].k IN
    (k # 0 /\ prog[k].op = "test") => got[p].res[0] = 1

\* A packing session of a program: from call s on, n fields are packed from
\* and then unpacked to the memory of the caller; off[i] is the position of
\* field i, which only fields that fit advance.
Field(c, pr, s, i) ==
  c.comm = 1 /\ (c.first <=> i = 0) /\ c.size = pr[s].size /\ c.symS = pr[s].symS

Twins(c, u, n) ==
  c.op = "pack" /\ u.op = "unpack" /\ u.back = n /\ u.type = c.type /\ u.count = c.count

Accepted(pr, s, off, i) == off[i] + Cells(pr[s + i]) <= pr[s].size

Session(pr, s, n, off) ==
  /\ s >= 1 /\ s + n + n <= Len(pr) + 1
  /\ pr[s].size \in Nat /\ pr[s].size <= IF pr[s].symS THEN UsrLen ELSE LibLen
  /\ off[0] = 0 /\ Accepted(pr, s, off, 0)
  /\ \A i \in 0 .. n - 1 :
       /\ Twins(pr[s + i], pr[s + n + i], n)
       /\ Field(pr[s + i], pr, s, i) /\ Field(pr[s + n + i], pr, s, i)
       /\ off[i + 1] = IF Accepted(pr, s, off, i) THEN off[i] + Cells(pr[s + i]) ELSE off[i]
       \* a field that is refused is not longer than one that was accepted
       /\ \E h \in 0 .. n - 1 : Accepted(pr, s, off, h) /\ Cells(pr[s + i]) <= Cells(pr[s + h])

\* What the MPI_Unpack of call k must return to PE p: its field of the session
\* when that fits, and an error when it does not.
Unpacked(k, p, res) ==
  \E s, n \in 1 .. Len(prog) :
    /\ prog[s].op = "pack" /\ prog[k].back = n /\ k \in s + n .. s + n + n - 1
    /\ \E off \in [0 .. n -> 0 .. prog[s].size] :
         /\ Session(prog, s, n, off)
         /\ res = IF Accepted(prog, s, off, k - s - n) THEN Data(k - n, p) ELSE <<>>

\* MPI_Unpack returns the data of the MPI_Pack it belongs to exactly when the
\* field fits behind the fields of its session that fit before it, and an error
\* exactly when it does not, also from a buffer that is not symmetric and that
\* the library stages in its own.
PackRoundTrip ==
  \A p \in PE : LET k == got[p].k IN
    (k # 0 /\ prog[k].op = "unpack") => Unpacked(k, p, got[p].res)

\* PEs that meet in a barrier meet in the same barrier of the same call: no PE
\* has skipped one or entered one more.
BarriersMatch ==
  (\A p \in PE : pc[p].at = "barrier") => \A p, q \in PE : pc[p] = pc[q]

\* A communicator made by MPI_Comm_create or MPI_Comm_dup has the same members
\* on all PEs, and the rank of a member is its place in the list.
CommsAgree ==
  \A p, q \in PE : \A i \in DOMAIN comms[p] \cap DOMAIN comms[q] :
    LET comm == comms[p][i] IN
      /\ comm.pes = comms[q][i].pes /\ comm.size = Len(comm.pes)
      /\ p \in MembersOf(comm) =>
           comm.rank + 1 \in DOMAIN comm.pes /\ comm.pes[comm.rank + 1] = p

\* Every PE gets through the program: MPI_Send finds its data at the
\* destination and no PE waits in a barrier for ever.
Terminates == <>(\A p \in PE : Done(p))
=============================================================================
