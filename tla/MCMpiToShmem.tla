---------------------------- MODULE MCMpiToShmem ----------------------------
(* Programs for the model checker: two of the phases below, one after the    *)
(* other.  A phase with MPI_Send and MPI_Recv has a barrier before, between  *)
(* and after the two, one with MPI_Test a barrier before and after it.       *)
EXTENDS MpiPrograms, TLC

MCWidth == [int |-> 1, float |-> 1, long |-> 2]
MCByValue == {"int", "long"}

C(op) == [op |-> op, type |-> "int", count |-> 1, big |-> TRUE, back |-> 0]
At(type, count) == [type |-> type, count |-> count]
Sym(s, r) == [symS |-> s, symR |-> r]
Bar == <<C("barrier")>>

Bcasts == {<<At(t, 3 - MCWidth[t]) @@ Sym(s, FALSE) @@ [root |-> 1] @@ C("bcast")>> :
             t \in {"int", "long"}, s \in BOOLEAN}
Allgathers == {<<At("long", 1) @@ Sym(s, r) @@ [null |-> FALSE] @@ C("allgather")>> : s, r \in BOOLEAN}
Gathers == {<<At(t, 1) @@ Sym(t = "int", FALSE) @@ [root |-> 0, null |-> FALSE] @@ C("gather")>> : t \in {"int", "long"}}
           \cup {<<Sym(FALSE, TRUE) @@ [root |-> 0, null |-> n] @@ C("gather")>> : n \in BOOLEAN}
Gathervs == {<<[root |-> 2, null |-> FALSE, recvcount |-> <<n, n, n>>, displs |-> <<0, 1, 2>>] @@ C("gatherv")>> :
               n \in {1, 2}}
Messages == {Bar \o <<[from |-> 2, to |-> 1, tag |-> 7, big |-> FALSE] @@ At(t, 3 - MCWidth[t]) @@ C("send")>> \o Bar
             \o <<[from |-> 2, to |-> 1, tag |-> 7, back |-> 2] @@ At(t, 3 - MCWidth[t]) @@ C("recv")>> \o Bar :
               t \in {"int", "float", "long"}}
Requests == {<<At("int", 2) @@ Sym(s, FALSE) @@ C("isend")>> \o Bar \o <<C("test")>> \o Bar : s \in BOOLEAN}
            \cup {<<At("int", 1) @@ Sym(FALSE, FALSE) @@ C("isend"), C("irecv")>> \o Bar}
Comms == {<<[ranks |-> <<2, 0>>] @@ C("group_incl"), [comm |-> 1] @@ C("comm_create"), [comm |-> 2] @@ C("comm_dup"),
            [comm |-> 2] @@ C("comm_rank"), [comm |-> 3] @@ C("comm_free")>>}
Packs == {<<[first |-> TRUE, comm |-> 1, size |-> n] @@ Sym(s, FALSE) @@ At(t, 1) @@ C("pack"),
            [first |-> FALSE, comm |-> 1, size |-> n] @@ Sym(s, FALSE) @@ C("pack"),
            [first |-> TRUE, comm |-> 1, size |-> n, back |-> 2] @@ Sym(s, FALSE) @@ At(t, 1) @@ C("unpack"),
            [first |-> FALSE, comm |-> 1, size |-> n, back |-> 2] @@ Sym(s, FALSE) @@ C("unpack")>> \o Bar :
            s \in BOOLEAN, t \in {"int", "long"}, n \in {2, 3}}

Shared == Bcasts \cup Allgathers \cup Gathers \cup Gathervs \cup Messages \cup Requests \cup {<<C("iprobe")>>}
Local == Comms \cup Packs
MCPrograms == {a \o b \o Bar : a, b \in Shared} \cup {a \o b \o Bar : a \in Local, b \in Bcasts}

(* The programs meet the conditions of the theorems. *)
ASSUME MCConditions ==
  /\ UniformPrograms /\ GroupsFit /\ FittingPrograms /\ BlockPrograms /\ SeparatedPrograms
  /\ PairedPrograms /\ RequestPrograms /\ PackedPrograms
=============================================================================
