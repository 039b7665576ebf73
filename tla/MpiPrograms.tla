---------------------------- MODULE MpiPrograms ----------------------------
(***************************************************************************)
(* The programs the library works for.  The code of                        *)
(* src/src/mpi_to_openshmem.c checks neither lengths nor whether another   *)
(* call still uses the one buffer all calls share, so that the properties  *)
(* of MpiToShmem hold of programs that meet the conditions below: what     *)
(* MPI asks of a program, and barriers between calls as in the test        *)
(* sendRcvSimple.c, which other tests of the library do not have.          *)
(***************************************************************************)
EXTENDS MpiToShmem

-----------------------------------------------------------------------------
(* PEs agree on their barriers: no PE of a MPI_Gatherv sends less than the   *)
(* root expects unless all do (the code lets only the short ones skip        *)
(* barriers), and communicators are made from MPI_COMM_WORLD (the code lets  *)
(* PEs outside the old one skip barriers).                                   *)
Short(c, p) == c.count < c.recvcount[p + 1]

UniformCall(c) ==
  /\ c.op = "gatherv" => \A p, q \in PE : Short(c, p) = Short(c, q)
  /\ c.op = "comm_create" => c.comm = 1
  /\ c.op = "group_incl" => c.ranks \in Seq(PE)

UniformPrograms == \A pr \in Programs : \A k \in DOMAIN pr : UniformCall(pr[k])

(* A group is made of PEs. *)
GroupsFit == \A pr \in Programs : \A k \in DOMAIN pr :
  pr[k].op = "group_incl" => pr[k].ranks \in Seq(PE)

-----------------------------------------------------------------------------
(* The calls fit into the buffers, each by what it reads: the code checks no *)
(* length, and the library's buffer has a fixed size.                        *)
FitsCollective(c) ==
  /\ c.op = "bcast" =>
       /\ Cells(c) <= UsrLen /\ BcastDest(c) + Cells(c) <= LibLen
       /\ c.count * Quad <= IF c.symS THEN UsrLen ELSE LibLen
  /\ c.op \in {"allgather", "gather"} =>
       /\ ~c.symS => c.count * Quad <= LibLen /\ Cells(c) <= LibLen
       /\ ~c.symR => RecvAt(c) + NumPes * Cells(c) <= LibLen
  /\ c.op \in {"gather", "gatherv"} => c.root \in PE
  /\ c.op = "gatherv" =>
       /\ TotalNumSent(c) \in Nat /\ "int" \in DOMAIN Width
       /\ GetNumBytes(TotalNumSent(c), c.type) <= UsrLen
       /\ GetBufferOffset(c) + GetNumBytes(TotalNumSent(c), "int") <= LibLen
       /\ \A p \in PE : /\ c.recvcount[p + 1] \in Nat
                        /\ GetNumBytes(c.recvcount[p + 1], c.type) <= LibLen

FitsOther(c) ==
  /\ c.op = "send" => c.to \in PE
  /\ c.op \in {"recv", "irecv"} => Cells(c) <= LibLen
  /\ c.op = "isend" => GetBufferOffset(c) + Cells(c) <= LibLen
  /\ c.op = "pack" => c.comm = 1 /\ Cells(c) <= LibLen
  /\ c.op = "unpack" => Cells(c) <= UsrLen

FittingCall(c) ==
  /\ c.type \in DOMAIN Width /\ c.count \in Nat
  /\ FitsCollective(c) /\ FitsOther(c)

FittingPrograms == \A pr \in Programs : \A k \in DOMAIN pr : FittingCall(pr[k])

-----------------------------------------------------------------------------
(* A collective moves whole blocks that do not overlap.  shmem_broadcast64   *)
(* and shmem_fcollect64 count 64-bit words whatever the datatype: a          *)
(* broadcast must not move less than its data, and the blocks of             *)
(* MPI_Allgather lie side by side only for the datatypes of that width.      *)
MovesBlocks(c) ==
  /\ c.op = "bcast" => c.root \in PE /\ Width[c.type] <= Quad
  /\ c.op = "allgather" => Width[c.type] = Quad
  /\ c.op \in {"allgather", "gather"} => NumPes * Cells(c) <= UsrLen
  /\ c.op = "gatherv" /\ ~Short(c, 0) =>
       \A p \in PE :
         LET at(q)  == GetNumBytes(Displs(c)[q], c.type)
             end(q) == at(q) + GetNumBytes(c.recvcount[q + 1], c.type)
         IN  /\ at(p) \in Nat
             /\ end(p) <= UsrLen /\ end(p) <= GetNumBytes(TotalNumSent(c), "int")
             /\ \A q \in PE \ {p} : end(p) <= at(q) \/ end(q) <= at(p)

BlockPrograms == \A pr \in Programs : \A k \in DOMAIN pr : MovesBlocks(pr[k])

-----------------------------------------------------------------------------
(* The calls of a program are kept apart by barriers.                        *)
\* A call in which every PE waits for all others.
Meets(c) ==
  \/ c.op \in {"barrier", "iprobe", "bcast", "isend", "irecv",
               "group_incl", "comm_create", "comm_dup", "comm_free"}
  \/ c.op \in {"allgather", "gather", "gatherv"} /\ ~c.null

\* No barrier lies between calls j and k.
Adjacent(pr, j, k) == j < k /\ \A i \in j + 1 .. k - 1 : ~Meets(pr[i])

\* A put of the call may still be on its way to q when the call has returned.
Travels(c, q) == c.op = "isend" \/ (c.op = "send" /\ c.to = q)

\* The call counts on what PE q has in the symmetric buffers.
Needs(c, q) ==
  \/ c.op \in {"bcast", "allgather", "gather", "gatherv", "isend", "test", "pack", "unpack"}
  \/ c.op \in {"send", "recv"} /\ c.to = q

\* The call stores the caller's data in the caller's own library buffer.
Fills(c) == c.op \in {"bcast", "allgather", "gather", "gatherv", "isend", "pack", "unpack"}

\* A barrier lies between a call that leaves puts on their way and one that
\* counts on the memory they go to, and between MPI_Test and a call that
\* overwrites what it looks at.
Separated(pr) ==
  \A j, k \in DOMAIN pr : Adjacent(pr, j, k) =>
    /\ \A q \in PE : ~(Travels(pr[j], q) /\ Needs(pr[k], q))
    /\ pr[k].op = "send" => ~Needs(pr[j], pr[k].to)
    /\ pr[j].op = "test" => ~Fills(pr[k])

SeparatedPrograms == \A pr \in Programs : Separated(pr)

-----------------------------------------------------------------------------
(* What every theorem about the data of calls asks of the programs.          *)
GoodCalls == UniformPrograms /\ FittingPrograms /\ BlockPrograms
CarriedPrograms == GoodCalls /\ GroupsFit /\ SeparatedPrograms

-----------------------------------------------------------------------------
(* Messages and requests.                                                    *)
\* The call leaves the library's buffer of PE q and all requests alone.
Still(c, q) ==
  \/ c.op \in {"barrier", "iprobe", "group_incl", "comm_create", "comm_dup", "comm_free",
               "comm_rank", "recv", "test"}
  \/ c.op = "send" /\ c.to # q

\* The message that call j sends is for the MPI_Recv of call r.
Sent(pr, j, r) ==
  LET s == pr[j] c == pr[r]
  IN  /\ j \in 1 .. r - 1 /\ s.op = "send" /\ c.op = "recv"
      /\ c.from = s.from /\ c.to = s.to /\ c.type = s.type /\ c.count = s.count
      /\ s.from \in PE /\ s.to \in PE \ {s.from} /\ Cells(s) <= LibLen
      /\ ~Adjacent(pr, j, r)
      /\ \A i \in j + 1 .. r - 1 : Still(pr[i], s.to)

PairedPrograms == \A pr \in Programs : \A r \in DOMAIN pr :
  pr[r].op = "recv" => Sent(pr, r - pr[r].back, r)

\* Call j made the request that the MPI_Test of call t looks at: an MPI_Isend
\* that a barrier separates from it, or an MPI_Irecv.
Requested(pr, j, t) ==
  /\ j \in 1 .. t - 1 /\ pr[t].op = "test" /\ pr[j].count > 0
  /\ pr[j].op = "irecv" \/ (pr[j].op = "isend" /\ ~Adjacent(pr, j, t) /\ NumPes > 1)
  /\ \A i \in j + 1 .. t - 1 : \A q \in PE : Still(pr[i], q)

RequestPrograms == \A pr \in Programs : \A t \in DOMAIN pr :
  pr[t].op = "test" => \E j \in DOMAIN pr : Requested(pr, j, t)

-----------------------------------------------------------------------------
(* Every MPI_Unpack of a program belongs to a packing session (MpiToShmem).  *)
PackedPrograms == \A pr \in Programs : \A u \in DOMAIN pr :
  pr[u].op = "unpack" =>
    \E s, n \in 1 .. Len(pr) :
      /\ pr[s].op = "pack" /\ u \in s + n .. s + n + n - 1
      /\ \E off \in [0 .. n -> 0 .. pr[s].size] : Session(pr, s, n, off)
=============================================================================
