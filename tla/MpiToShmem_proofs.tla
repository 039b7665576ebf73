-------------------------- MODULE MpiToShmem_proofs --------------------------
(***************************************************************************)
(* Theorems about the MPI library over OpenSHMEM, for every number of PEs, *)
(* every size of the buffers and every program of the stated form.         *)
(*                                                                         *)
(* The barriers: all PEs have the same barriers ahead of them, so that PEs *)
(* that wait in a barrier wait in the same one.  No PE is ever at another  *)
(* place of the program than the barriers allow; what the PEs know of      *)
(* groups and communicators follows from that.                             *)
(*                                                                         *)
(* The data: a put may arrive at any time until its PE passes a barrier,   *)
(* into a buffer that all calls share.  What is known of it is which       *)
(* barriers are ahead of the PEs while it is on its way; what the calls    *)
(* return follows from that and from where each call keeps its data.       *)
(***************************************************************************)
EXTENDS MpiPrograms, Induction

-----------------------------------------------------------------------------
(* The barriers ahead. *)

(* Where a PE is in its call. *)
Points == {"call", "barrier", "return", "move", "copy", "recvbuf", "check", "spin",
           "comm", "group", "freed", "failed"}

Place(pr) == [k : 1 .. Len(pr) + 1, at : Points, left : 0 .. 4, then : Points]

At(k, n, then) == [k |-> k, at |-> "barrier", left |-> n, then |-> then]

(* The barrier call k enters first, if it enters one. *)
Entry(pr, k) ==
  LET op == pr[k].op IN
  CASE op \in {"barrier", "iprobe"} -> {At(k, 1, "return")}
    [] op \in {"bcast", "isend", "irecv"} -> {At(k, 1, "move")}
    [] op \in {"allgather", "gather"} -> IF pr[k].null THEN {} ELSE {At(k, 1, "move")}
    [] op = "gatherv" -> IF pr[k].null THEN {} ELSE {At(k, 1, "recvbuf")}
    [] op = "group_incl" -> {At(k, 1, "group")}
    [] op \in {"comm_create", "comm_dup"} -> {At(k, CommAllocations, "comm")}
    [] op = "comm_free" -> {At(k, 3, "freed")}
    [] OTHER -> {}

(* The next barrier of a call a PE is in the middle of, if there is one. *)
Middle(pr, k, at) ==
  LET op == pr[k].op IN
  CASE op \in {"bcast", "allgather", "gather", "gatherv"} /\ at = "move" -> {At(k, 1, "copy")}
    [] op = "gatherv" /\ at = "recvbuf" -> {At(k, 1, "check")}
    [] op = "gatherv" /\ at = "check" -> IF Short(pr[k], 0) THEN {} ELSE {At(k, 1, "move")}
    [] OTHER -> {}

(* The next barrier in the call itself. *)
Here(pr, place) ==
  IF place.at = "barrier" THEN {place}
  ELSE IF place.k > Len(pr) THEN {}
  ELSE IF place.at = "call" THEN Entry(pr, place.k)
  ELSE Middle(pr, place.k, place.at)

(* The barriers calls k and on start with. *)
Later(pr, k) == UNION {Entry(pr, j) : j \in k .. Len(pr)}

Ahead(pr, place) == Here(pr, place) \cup Later(pr, place.k + 1)

(* The invariant: PEs have the same barriers ahead. *)
SameAhead == \A p, q \in PE : Ahead(prog, pc[p]) = Ahead(prog, pc[q])

Comm == [rank : Int, size : Nat, pes : Seq(PE), live : BOOLEAN]

(* MPI_COMM_WORLD stays the first communicator, with all PEs. *)
WorldFirst ==
  /\ group \in [PE -> Comm]
  /\ comms \in [PE -> Seq(Comm)]
  /\ \A p \in PE : 1 \in DOMAIN comms[p] /\ comms[p][1].pes = World(p).pes /\ comms[p][1].rank = p

PlaceInv ==
  /\ prog \in Programs
  /\ pc \in [PE -> Place(prog)]
  /\ WorldFirst

BarrierInv == PlaceInv /\ SameAhead

LEMMA SamePlace ==
  ASSUME NEW pr, NEW x \in Place(pr), NEW y \in Place(pr),
         x.k = y.k, x.at = y.at, x.left = y.left, x.then = y.then
  PROVE  x = y
BY DEF Place

LEMMA PeFacts == PE \subseteq Nat /\ 0 \in PE /\ NumPes \in Nat /\ \A p \in PE : p + 1 \in 1 .. NumPes
BY ShmemAssumption DEF PE

LEMMA ProgFacts ==
  ASSUME NEW pr \in Programs
  PROVE  Len(pr) \in Nat /\ DOMAIN pr = 1 .. Len(pr)
BY MpiAssumption

LEMMA WorldIsComm ==
  ASSUME NEW p \in PE
  PROVE  World(p) \in Comm /\ World(p).pes = [i \in 1 .. NumPes |-> i - 1] /\ p \in MembersOf(World(p))
<1>1. \A i \in 1 .. NumPes : i - 1 \in PE
  BY PeFacts DEF PE
<1>2. [i \in 1 .. NumPes |-> i - 1] \in Seq(PE)
  BY <1>1, PeFacts
<1>3. p + 1 \in 1 .. NumPes /\ (p + 1) - 1 = p /\ p \in Int
  BY PeFacts
<1> QED
  BY <1>2, <1>3, PeFacts DEF World, Comm, MembersOf

(* The barriers of a call lie in that call. *)
LEMMA EntryPlace ==
  ASSUME NEW pr, NEW k
  PROVE  \A b \in Entry(pr, k) : b.k = k
BY DEF Entry, At

LEMMA LaterPlace ==
  ASSUME NEW pr \in Programs, NEW k \in Nat
  PROVE  /\ \A b \in Later(pr, k) : b.k \in Nat /\ b.k >= k
         /\ k <= Len(pr) => Later(pr, k) = Entry(pr, k) \cup Later(pr, k + 1)
         /\ k > Len(pr) => Later(pr, k) = {}
<1>1. Len(pr) \in Nat
  BY ProgFacts
<1>2. ASSUME NEW b \in Later(pr, k) PROVE b.k \in Nat /\ b.k >= k
  <2>1. PICK j \in k .. Len(pr) : b \in Entry(pr, j)
    BY DEF Later
  <2>2. b.k = j
    BY <2>1, EntryPlace
  <2> QED BY <1>1, <2>2
<1>3. ASSUME k <= Len(pr) PROVE Later(pr, k) = Entry(pr, k) \cup Later(pr, k + 1)
  <2>1. k .. Len(pr) = {k} \cup (k + 1 .. Len(pr))
    BY <1>1, <1>3
  <2> QED BY <2>1 DEF Later
<1>4. ASSUME k > Len(pr) PROVE Later(pr, k) = {}
  <2>1. k .. Len(pr) = {}
    BY <1>1, <1>4
  <2> QED BY <2>1 DEF Later
<1> QED
  BY <1>2, <1>3, <1>4

(* Two PEs that wait in a barrier and have the same barriers ahead wait in   *)
(* the same one.                                                             *)
LEMMA SameBarrier ==
  ASSUME BarrierInv, NEW p \in PE, NEW q \in PE, pc[p].at = "barrier", pc[q].at = "barrier"
  PROVE  pc[p] = pc[q]
<1>1. /\ prog \in Programs /\ pc[p] \in Place(prog) /\ pc[q] \in Place(prog)
      /\ Ahead(prog, pc[p]) = Ahead(prog, pc[q])
  BY DEF BarrierInv, PlaceInv, SameAhead
<1>2. pc[p].k \in Nat /\ pc[q].k \in Nat
  BY <1>1, ProgFacts DEF Place
<1>3. /\ Ahead(prog, pc[p]) = {pc[p]} \cup Later(prog, pc[p].k + 1)
      /\ Ahead(prog, pc[q]) = {pc[q]} \cup Later(prog, pc[q].k + 1)
  BY DEF Ahead, Here
<1>4. pc[p] = pc[q] \/ pc[p].k >= pc[q].k + 1
  <2>1. pc[p] = pc[q] \/ pc[p] \in Later(prog, pc[q].k + 1)
    BY <1>1, <1>3
  <2>2. pc[q].k + 1 \in Nat
    BY <1>2
  <2> QED BY <1>1, <2>1, <2>2, LaterPlace
<1>5. pc[p] = pc[q] \/ pc[q].k >= pc[p].k + 1
  <2>1. pc[p] = pc[q] \/ pc[q] \in Later(prog, pc[p].k + 1)
    BY <1>1, <1>3
  <2>2. pc[p].k + 1 \in Nat
    BY <1>2
  <2> QED BY <1>1, <2>1, <2>2, LaterPlace
<1> QED
  BY <1>2, <1>4, <1>5

-----------------------------------------------------------------------------
(* One PE goes on. *)

(* PE p goes on to another place with the same barriers ahead. *)
GoesOn(p) ==
  \E x \in Place(prog) : /\ pc' = [pc EXCEPT ![p] = x]
                         /\ Ahead(prog, x) = Ahead(prog, pc[p])
                         /\ x.at \in {"barrier", "call", "spin"}

LEMMA PlaceIn ==
  ASSUME PlaceInv, NEW p \in PE, ~Done(p)
  PROVE  /\ pc[p] \in Place(prog) /\ pc[p].k \in 1 .. Len(prog) /\ pc[p].k \in Nat
         /\ Len(prog) \in Nat /\ prog \in Programs /\ pc[p].k \in DOMAIN prog
<1>1. prog \in Programs /\ Len(prog) \in Nat /\ DOMAIN prog = 1 .. Len(prog)
  BY ProgFacts DEF PlaceInv
<1>2. pc[p] \in Place(prog)
  BY DEF PlaceInv
<1> QED
  BY <1>1, <1>2 DEF Place, Done

LEMMA PlaceOf ==
  ASSUME BarrierInv, NEW p \in PE, ~Done(p)
  PROVE  /\ pc[p] \in Place(prog) /\ pc[p].k \in 1 .. Len(prog) /\ pc[p].k \in Nat
         /\ Len(prog) \in Nat /\ prog \in Programs /\ pc[p].k \in DOMAIN prog
<1>1. PlaceInv
  BY DEF BarrierInv
<1> QED
  BY <1>1, PlaceIn

(* A call that returns has no more barriers. *)
LEMMA ReturnGoesOn ==
  ASSUME BarrierInv, NEW p \in PE, ~Done(p), Return(p), Here(prog, pc[p]) = {}
  PROVE  GoesOn(p)
<1> DEFINE k == pc[p].k
           x == [k |-> k + 1, at |-> "call", left |-> 0, then |-> "call"]
<1>1. /\ k \in 1 .. Len(prog) /\ k \in Nat /\ Len(prog) \in Nat /\ prog \in Programs
      /\ pc \in [PE -> Place(prog)]
  BY PlaceOf DEF BarrierInv, PlaceInv
<1>2. x \in Place(prog) /\ x.k = k + 1 /\ x.at = "call"
  BY <1>1 DEF Place, Points
<1>3. pc' = [pc EXCEPT ![p] = x]
  BY <1>1 DEF Return
<1>4. Ahead(prog, x) = Later(prog, k + 1)
  <2>1. CASE k + 1 > Len(prog)
    <3>1. Here(prog, x) = {}
      BY <1>2, <2>1 DEF Here
    <3>2. Later(prog, k + 1) = {} /\ Later(prog, (k + 1) + 1) = {}
      BY <1>1, <2>1, LaterPlace
    <3> QED BY <1>2, <3>1, <3>2 DEF Ahead
  <2>2. CASE k + 1 <= Len(prog)
    <3>1. Here(prog, x) = Entry(prog, k + 1)
      BY <1>1, <1>2, <2>2 DEF Here
    <3>2. Later(prog, k + 1) = Entry(prog, k + 1) \cup Later(prog, (k + 1) + 1)
      BY <1>1, <2>2, LaterPlace
    <3> QED BY <1>2, <3>1, <3>2 DEF Ahead
  <2> QED BY <1>1, <2>1, <2>2
<1>5. Ahead(prog, pc[p]) = Later(prog, k + 1)
  BY DEF Ahead
<1> HIDE DEF x
<1> QED
  BY <1>2, <1>3, <1>4, <1>5 DEF GoesOn

(* A PE enters the barrier it has ahead. *)
LEMMA BarrierGoesOn ==
  ASSUME BarrierInv, NEW p \in PE, ~Done(p), NEW n \in 0 .. 4, NEW then \in Points,
         Barrier(p, n, then), Here(prog, pc[p]) = {At(pc[p].k, n, then)}
  PROVE  GoesOn(p)
<1> DEFINE x == At(pc[p].k, n, then)
<1>1. pc \in [PE -> Place(prog)] /\ pc[p].k \in 1 .. Len(prog) + 1
  BY DEF BarrierInv, PlaceInv, Place
<1>2. x \in Place(prog) /\ x.k = pc[p].k /\ x.at = "barrier"
  BY <1>1 DEF Place, At, Points
<1>3. pc' = [pc EXCEPT ![p] = x]
  <2>1. [pc[p] EXCEPT !.at = "barrier", !.left = n, !.then = then] = x
    <3> DEFINE y == [pc[p] EXCEPT !.at = "barrier", !.left = n, !.then = then]
    <3>1. y \in Place(prog) /\ y.k = pc[p].k /\ y.at = "barrier" /\ y.left = n /\ y.then = then
      BY <1>1 DEF Place, Points
    <3>2. x.left = n /\ x.then = then
      BY DEF At
    <3> HIDE DEF x, y
    <3>3. y = x
      BY <1>2, <3>1, <3>2, SamePlace
    <3> QED BY <3>3 DEF y
  <2> QED BY <1>1, <2>1 DEF Barrier
<1> HIDE DEF x
<1>4. Here(prog, x) = {x} /\ Here(prog, pc[p]) = {x}
  BY <1>2 DEF Here, x
<1>5. Ahead(prog, x) = Ahead(prog, pc[p])
  BY <1>2, <1>4 DEF Ahead
<1> QED
  BY <1>2, <1>3, <1>5 DEF GoesOn

(* MPI_Send has no barrier. *)
LEMMA SpinGoesOn ==
  ASSUME BarrierInv, NEW p \in PE, ~Done(p), Call(p).op = "send", pc[p].at = "call", Goto(p, "spin")
  PROVE  GoesOn(p)
<1> DEFINE x == [pc[p] EXCEPT !.at = "spin"]
<1>1. pc \in [PE -> Place(prog)] /\ pc[p] \in Place(prog) /\ pc[p].k \in 1 .. Len(prog) /\ Len(prog) \in Nat
  BY PlaceOf DEF BarrierInv, PlaceInv
<1>2. x \in Place(prog) /\ x.k = pc[p].k /\ x.at = "spin"
  BY <1>1 DEF Place, Points
<1>3. pc' = [pc EXCEPT ![p] = x]
  BY <1>1 DEF Goto
<1> HIDE DEF x
<1>4. Here(prog, x) = {}
  BY <1>1, <1>2 DEF Here, Middle, Call
<1>5. Here(prog, pc[p]) = {}
  BY <1>1 DEF Here, Entry, Call
<1>6. Ahead(prog, x) = Ahead(prog, pc[p])
  BY <1>2, <1>4, <1>5 DEF Ahead
<1> QED
  BY <1>2, <1>3, <1>6 DEF GoesOn

(* What is ahead at each place a step can be taken from. *)
LEMMA HereAtCall ==
  ASSUME BarrierInv, NEW p \in PE, ~Done(p), pc[p].at = "call"
  PROVE  Here(prog, pc[p]) = Entry(prog, pc[p].k)
BY PlaceOf DEF Here

LEMMA HereInCall ==
  ASSUME BarrierInv, NEW p \in PE, ~Done(p), pc[p].at \notin {"call", "barrier"}
  PROVE  Here(prog, pc[p]) = Middle(prog, pc[p].k, pc[p].at)
BY PlaceOf DEF Here

LEMMA CollectiveGoesOn ==
  ASSUME UniformPrograms, BarrierInv, NEW p \in PE, ~Done(p), Collective(p)
  PROVE  GoesOn(p) /\ prog' = prog
<1> DEFINE k == pc[p].k
<1>0. 1 \in 0 .. 4 /\ {"return", "move", "copy", "recvbuf", "check"} \subseteq Points
  BY DEF Points
<1>1. CASE MPI_Barrier(p) \/ MPI_Iprobe(p)
  <2>1. Barrier(p, 1, "return") /\ prog' = prog
    BY <1>1 DEF MPI_Barrier, MPI_Iprobe, callVars
  <2>2. Here(prog, pc[p]) = {At(k, 1, "return")}
    BY <1>1, HereAtCall DEF MPI_Barrier, MPI_Iprobe, In, Call, Entry
  <2> QED BY <1>0, <2>1, <2>2, BarrierGoesOn
<1>2. CASE BarrierReturn(p)
  <2>1. Return(p) /\ prog' = prog
    BY <1>2 DEF BarrierReturn, callVars
  <2>2. Here(prog, pc[p]) = {}
    BY <1>2, HereInCall DEF BarrierReturn, Call, Middle
  <2> QED BY <2>1, <2>2, ReturnGoesOn
<1>3. CASE BcastEnter(p)
  <2>1. Barrier(p, 1, "move") /\ prog' = prog
    BY <1>3 DEF BcastEnter, callVars
  <2>2. Here(prog, pc[p]) = {At(k, 1, "move")}
    BY <1>3, HereAtCall DEF BcastEnter, In, Call, Entry
  <2> QED BY <1>0, <2>1, <2>2, BarrierGoesOn
<1>4. CASE BcastMove(p) \/ AllgatherMove(p) \/ GatherMove(p) \/ GathervMove(p)
  <2>1. Barrier(p, 1, "copy") /\ prog' = prog
    BY <1>4 DEF BcastMove, AllgatherMove, GatherMove, GathervMove, callVars
  <2>2. Here(prog, pc[p]) = {At(k, 1, "copy")}
    BY <1>4, HereInCall DEF BcastMove, AllgatherMove, GatherMove, GathervMove, In, Call, Middle
  <2> QED BY <1>0, <2>1, <2>2, BarrierGoesOn
<1>5. CASE BcastCopy(p) \/ GatherCopy(p) \/ GathervCopy(p)
  <2>1. Return(p) /\ prog' = prog
    BY <1>5 DEF BcastCopy, GatherCopy, GathervCopy
  <2>2. Here(prog, pc[p]) = {}
    BY <1>5, HereInCall DEF BcastCopy, GatherCopy, GathervCopy, In, Call, Middle
  <2> QED BY <2>1, <2>2, ReturnGoesOn
<1>6. CASE GatherNull(p)
  <2>1. Return(p) /\ prog' = prog
    BY <1>6 DEF GatherNull
  <2>2. Here(prog, pc[p]) = {}
    BY <1>6, HereAtCall DEF GatherNull, Call, Entry
  <2> QED BY <2>1, <2>2, ReturnGoesOn
<1>7. CASE GatherEnter(p)
  <2>1. Barrier(p, 1, "move") /\ prog' = prog
    BY <1>7 DEF GatherEnter, callVars
  <2>2. Here(prog, pc[p]) = {At(k, 1, "move")}
    BY <1>7, HereAtCall DEF GatherEnter, Call, Entry
  <2> QED BY <1>0, <2>1, <2>2, BarrierGoesOn
<1>8. CASE GathervEnter(p)
  <2>1. Barrier(p, 1, "recvbuf") /\ prog' = prog
    BY <1>8 DEF GathervEnter, callVars
  <2>2. Here(prog, pc[p]) = {At(k, 1, "recvbuf")}
    BY <1>8, HereAtCall DEF GathervEnter, In, Call, Entry
  <2> QED BY <1>0, <2>1, <2>2, BarrierGoesOn
<1>9. CASE GathervRecvBuf(p)
  <2>1. Barrier(p, 1, "check") /\ prog' = prog
    BY <1>9 DEF GathervRecvBuf, callVars
  <2>2. Here(prog, pc[p]) = {At(k, 1, "check")}
    BY <1>9, HereInCall DEF GathervRecvBuf, In, Call, Middle
  <2> QED BY <1>0, <2>1, <2>2, BarrierGoesOn
<1>10. CASE GathervCheck(p)
  <2>1. prog' = prog /\ pc[p].at = "check" /\ prog[k].op = "gatherv"
    BY <1>10 DEF GathervCheck, In, Call
  <2>2. SizeError(p) = Short(prog[k], 0)
    <3>1. SizeError(p) = Short(prog[k], p)
      BY DEF SizeError, Short, Call
    <3>2. UniformCall(prog[k])
      BY PlaceOf DEF UniformPrograms
    <3> QED BY <2>1, <3>1, <3>2, PeFacts DEF UniformCall
  <2>3. CASE SizeError(p)
    <3>1. Return(p)
      BY <1>10, <2>3 DEF GathervCheck
    <3>2. Here(prog, pc[p]) = {}
      BY <2>1, <2>2, <2>3, HereInCall DEF Middle
    <3> QED BY <2>1, <3>1, <3>2, ReturnGoesOn
  <2>4. CASE ~SizeError(p)
    <3>1. Barrier(p, 1, "move")
      BY <1>10, <2>4 DEF GathervCheck
    <3>2. Here(prog, pc[p]) = {At(k, 1, "move")}
      BY <2>1, <2>2, <2>4, HereInCall DEF Middle
    <3> QED BY <1>0, <2>1, <3>1, <3>2, BarrierGoesOn
  <2> QED BY <2>3, <2>4
<1> QED
  BY <1>1, <1>2, <1>3, <1>4, <1>5, <1>6, <1>7, <1>8, <1>9, <1>10 DEF Collective

LEMMA PointToPointGoesOn ==
  ASSUME BarrierInv, NEW p \in PE, ~Done(p), PointToPoint(p)
  PROVE  GoesOn(p) /\ prog' = prog
<1> DEFINE k == pc[p].k
<1>0. 1 \in 0 .. 4 /\ "move" \in Points
  BY DEF Points
<1>1. CASE NotMine(p) \/ MPI_Recv(p) \/ MPI_Test(p)
  <2>1. Return(p) /\ prog' = prog
    BY <1>1 DEF NotMine, MPI_Recv, MPI_Test, callVars
  <2>2. Here(prog, pc[p]) = {}
    BY <1>1, HereAtCall DEF NotMine, MPI_Recv, MPI_Test, In, Call, Entry
  <2> QED BY <2>1, <2>2, ReturnGoesOn
<1>2. CASE MPI_SendByValue(p) \/ MPI_SendFlagged(p)
  <2>1. prog' = prog /\ Goto(p, "spin") /\ pc[p].at = "call" /\ Call(p).op = "send"
    BY <1>2 DEF MPI_SendByValue, MPI_SendFlagged, In
  <2> QED BY <2>1, SpinGoesOn
<1>3. CASE SendReturn(p) \/ IsendMove(p) \/ IrecvMove(p)
  <2>1. Return(p) /\ prog' = prog
    BY <1>3 DEF SendReturn, IsendMove, IrecvMove, callVars
  <2>2. Here(prog, pc[p]) = {}
    BY <1>3, HereInCall DEF SendReturn, IsendMove, IrecvMove, In, Call, Middle
  <2> QED BY <2>1, <2>2, ReturnGoesOn
<1>4. CASE IsendEnter(p) \/ IrecvEnter(p)
  <2>1. Barrier(p, 1, "move") /\ prog' = prog
    BY <1>4 DEF IsendEnter, IrecvEnter, callVars
  <2>2. Here(prog, pc[p]) = {At(k, 1, "move")}
    BY <1>4, HereAtCall DEF IsendEnter, IrecvEnter, In, Call, Entry
  <2> QED BY <1>0, <2>1, <2>2, BarrierGoesOn
<1> QED
  BY <1>1, <1>2, <1>3, <1>4 DEF PointToPoint

LEMMA CommOfType ==
  ASSUME PlaceInv, NEW p \in PE
  PROVE  CommOf(p) \in DOMAIN comms[p] /\ comms[p][CommOf(p)] \in Comm
<1>1. CommOf(p) \in DOMAIN comms[p]
  BY DEF CommOf, PlaceInv, WorldFirst
<1>2. comms[p] \in Seq(Comm)
  BY DEF PlaceInv, WorldFirst
<1> HIDE DEF Comm
<1> QED
  BY <1>1, <1>2

LEMMA ManagementGoesOn ==
  ASSUME UniformPrograms, BarrierInv, NEW p \in PE, ~Done(p), Management(p)
  PROVE  GoesOn(p) /\ prog' = prog
<1> DEFINE k == pc[p].k
<1>0. {1, 3, CommAllocations} \subseteq 0 .. 4 /\ {"group", "comm", "freed"} \subseteq Points
  BY DEF CommAllocations, Points
<1>1. CASE GroupEnter(p)
  <2>1. Barrier(p, 1, "group") /\ prog' = prog
    BY <1>1 DEF GroupEnter, callVars
  <2>2. Here(prog, pc[p]) = {At(k, 1, "group")}
    BY <1>1, HereAtCall DEF GroupEnter, In, Call, Entry
  <2> QED BY <1>0, <2>1, <2>2, BarrierGoesOn
<1>2. CASE MPI_Group_incl(p) \/ MPI_Comm_create(p) \/ MPI_Comm_dup(p) \/ MPI_Comm_free(p) \/ HeapReturn(p)
  <2>1. Return(p) /\ prog' = prog
    BY <1>2 DEF MPI_Group_incl, MPI_Comm_create, MPI_Comm_dup, MPI_Comm_free, HeapReturn, callVars
  <2>2. pc[p].at \in {"group", "comm", "freed", "failed"}
    BY <1>2 DEF MPI_Group_incl, MPI_Comm_create, MPI_Comm_dup, MPI_Comm_free, HeapReturn, In
  <2>3. Here(prog, pc[p]) = {}
    BY <2>2, HereInCall DEF Middle
  <2> QED BY <2>1, <2>3, ReturnGoesOn
<1>3. CASE CommEnter(p)
  <2>1. prog' = prog /\ pc[p].at = "call" /\ prog[k].op \in {"comm_create", "comm_dup"}
    BY <1>3 DEF CommEnter, Call, callVars
  <2>2. Barrier(p, CommAllocations, "comm")
    <3>1. CASE prog[k].op = "comm_dup"
      BY <1>3, <3>1 DEF CommEnter, Call
    <3>2. CASE prog[k].op = "comm_create"
      <4>1. UniformCall(prog[k])
        BY PlaceOf DEF UniformPrograms
      <4>2. CommOf(p) = 1
        BY <3>2, <4>1 DEF UniformCall, CommOf, Call
      <4>3. comms[p][1].pes = World(p).pes
        BY DEF BarrierInv, PlaceInv, WorldFirst
      <4>4. p \in MembersOf(comms[p][CommOf(p)])
        BY <4>2, <4>3, WorldIsComm DEF MembersOf
      <4> QED BY <1>3, <4>4 DEF CommEnter
    <3> QED BY <2>1, <3>1, <3>2
  <2>3. Here(prog, pc[p]) = {At(k, CommAllocations, "comm")}
    BY <2>1, HereAtCall DEF Entry
  <2> QED BY <1>0, <2>1, <2>2, <2>3, BarrierGoesOn
<1>4. CASE CommFreeEnter(p)
  <2>1. Barrier(p, 3, "freed") /\ prog' = prog
    BY <1>4 DEF CommFreeEnter, callVars
  <2>2. Here(prog, pc[p]) = {At(k, 3, "freed")}
    BY <1>4, HereAtCall DEF CommFreeEnter, In, Call, Entry
  <2> QED BY <1>0, <2>1, <2>2, BarrierGoesOn
<1>5. CASE MPI_Comm_rank(p)
  <2>1. Return(p) /\ prog' = prog
    BY <1>5 DEF MPI_Comm_rank
  <2>2. Here(prog, pc[p]) = {}
    BY <1>5, HereAtCall DEF MPI_Comm_rank, In, Call, Entry
  <2> QED BY <2>1, <2>2, ReturnGoesOn
<1> QED
  BY <1>1, <1>2, <1>3, <1>4, <1>5 DEF Management

LEMMA PackingGoesOn ==
  ASSUME BarrierInv, NEW p \in PE, ~Done(p), Packing(p)
  PROVE  GoesOn(p) /\ prog' = prog
<1>1. Return(p) /\ prog' = prog
  BY DEF Packing, PackNoSpace, MPI_Pack, MPI_Unpack
<1>2. Here(prog, pc[p]) = {}
  BY HereAtCall DEF Packing, PackNoSpace, MPI_Pack, MPI_Unpack, In, Call, Entry
<1> QED
  BY <1>1, <1>2, ReturnGoesOn

(* Whatever a PE does, the barriers it has ahead stay the same. *)
LEMMA StepGoesOn ==
  ASSUME UniformPrograms, BarrierInv, NEW p \in PE, Step(p)
  PROVE  GoesOn(p) /\ prog' = prog /\ ~Done(p)
BY CollectiveGoesOn, PointToPointGoesOn, ManagementGoesOn, PackingGoesOn DEF Step

-----------------------------------------------------------------------------
(* The communicators. *)

(* The steps that leave groups and communicators alone. *)
LEMMA StepKeepsComms ==
  ASSUME NEW p \in PE, Step(p),
         ~(MPI_Group_incl(p) \/ MPI_Comm_create(p) \/ MPI_Comm_dup(p) \/ MPI_Comm_free(p))
  PROVE  group' = group /\ comms' = comms /\ pc[p].at \notin {"group", "comm"}
<1>1. CASE Collective(p)
  BY <1>1 DEF Collective, MPI_Barrier, MPI_Iprobe, BarrierReturn, BcastEnter, BcastMove, BcastCopy,
              GatherNull, GatherEnter, AllgatherMove, GatherMove, GatherCopy, GathervEnter,
              GathervRecvBuf, GathervCheck, GathervMove, GathervCopy, callVars, In
<1>2. CASE PointToPoint(p)
  BY <1>2 DEF PointToPoint, NotMine, MPI_SendByValue, MPI_SendFlagged, SendReturn, MPI_Recv,
              IsendEnter, IsendMove, IrecvEnter, IrecvMove, MPI_Test, callVars, In
<1>3. CASE Management(p)
  BY <1>3 DEF Management, GroupEnter, CommEnter, HeapReturn, CommFreeEnter, MPI_Comm_rank, callVars, In
<1>4. CASE Packing(p)
  BY <1>4 DEF Packing, PackNoSpace, MPI_Pack, MPI_Unpack, In
<1> QED
  BY <1>1, <1>2, <1>3, <1>4 DEF Step

(* What a step of one PE does to its groups and communicators. *)
LEMMA StepKeepsWorld ==
  ASSUME GroupsFit, PlaceInv, NEW p \in PE, Step(p)
  PROVE  WorldFirst'
<1> USE DEF PlaceInv
<1>1. CASE MPI_Group_incl(p)
  <2> DEFINE ranks == Call(p).ranks
  <2>1. ranks \in Seq(PE)
    <3>1. pc[p].k \in DOMAIN prog /\ prog \in Programs
      BY PlaceIn DEF Step
    <3> QED BY <1>1, <3>1 DEF MPI_Group_incl, In, Call, GroupsFit
  <2>2. PICK r \in IF NewRank(p, ranks) = {} THEN {-1} \cup PE ELSE NewRank(p, ranks) :
          group' = [group EXCEPT ![p] = [rank |-> r, size |-> Len(ranks), pes |-> ranks, live |-> TRUE]]
    BY <1>1 DEF MPI_Group_incl
  <2>3. r \in Int
    <3>1. NewRank(p, ranks) \subseteq Int
      BY <2>1 DEF NewRank
    <3>2. {-1} \cup PE \subseteq Int
      BY PeFacts
    <3> QED BY <2>2, <3>1, <3>2
  <2>4. [rank |-> r, size |-> Len(ranks), pes |-> ranks, live |-> TRUE] \in Comm
    BY <2>1, <2>3 DEF Comm
  <2>5. comms' = comms
    BY <1>1 DEF MPI_Group_incl
  <2> HIDE DEF ranks
  <2>6. group' \in [PE -> Comm]
    BY <2>2, <2>4 DEF WorldFirst
  <2> QED BY <2>5, <2>6 DEF WorldFirst, World
<1>2. CASE MPI_Comm_create(p) \/ MPI_Comm_dup(p)
  <2>1. PICK c \in Comm : comms' = [comms EXCEPT ![p] = Append(@, c)]
    <3>1. CASE MPI_Comm_create(p)
      BY <3>1 DEF MPI_Comm_create, WorldFirst
    <3>2. CASE MPI_Comm_dup(p)
      <4>1. comms' = [comms EXCEPT ![p] = Append(comms[p], comms[p][CommOf(p)])]
        BY <3>2 DEF MPI_Comm_dup, WorldFirst
      <4> QED BY <4>1, CommOfType
    <3> QED BY <1>2, <3>1, <3>2
  <2>2. group' = group
    BY <1>2 DEF MPI_Comm_create, MPI_Comm_dup
  <2> HIDE DEF Comm
  <2>3. comms[p] \in Seq(Comm) /\ Append(comms[p], c) \in Seq(Comm)
    BY DEF WorldFirst
  <2>4. comms' \in [PE -> Seq(Comm)]
    BY <2>1, <2>3 DEF WorldFirst
  <2>5. ASSUME NEW q \in PE PROVE 1 \in DOMAIN comms'[q] /\ comms'[q][1].pes = World(q).pes /\ comms'[q][1].rank = q
    <3>1. 1 \in DOMAIN comms[q] /\ comms[q][1].pes = World(q).pes /\ comms[q][1].rank = q
      BY DEF WorldFirst
    <3>2. CASE q = p
      <4>1. comms'[q] = Append(comms[p], c)
        BY <2>1, <3>2 DEF WorldFirst
      <4>2. 1 \in DOMAIN Append(comms[p], c) /\ Append(comms[p], c)[1] = comms[p][1]
        BY <2>3, <3>1, <3>2
      <4> QED BY <3>1, <3>2, <4>1, <4>2
    <3>3. CASE q # p
      BY <2>1, <3>1, <3>3 DEF WorldFirst
    <3> QED BY <3>2, <3>3
  <2> QED BY <2>2, <2>4, <2>5 DEF WorldFirst, World
<1>3. CASE MPI_Comm_free(p)
  <2> DEFINE i == CommOf(p)
             c == [comms[p][i] EXCEPT !.live = FALSE]
             cs == [comms[p] EXCEPT ![i] = c]
  <2>1. comms' = [comms EXCEPT ![p] = cs] /\ group' = group
    BY <1>3 DEF MPI_Comm_free, WorldFirst
  <2>2. i \in DOMAIN comms[p] /\ comms[p][i] \in Comm
    BY CommOfType
  <2>3. c \in Comm /\ c.pes = comms[p][i].pes /\ c.rank = comms[p][i].rank
    BY <2>2 DEF Comm
  <2> HIDE DEF c, i, Comm
  <2>4. /\ cs \in Seq(Comm) /\ DOMAIN cs = DOMAIN comms[p]
        /\ \A j \in DOMAIN cs : cs[j].pes = comms[p][j].pes /\ cs[j].rank = comms[p][j].rank
    BY <2>2, <2>3 DEF WorldFirst
  <2> HIDE DEF cs
  <2>5. comms' \in [PE -> Seq(Comm)]
    BY <2>1, <2>4 DEF WorldFirst
  <2>6. ASSUME NEW q \in PE PROVE 1 \in DOMAIN comms'[q] /\ comms'[q][1].pes = World(q).pes /\ comms'[q][1].rank = q
    BY <2>1, <2>4 DEF WorldFirst
  <2> QED BY <2>1, <2>5, <2>6 DEF WorldFirst, World
<1>4. CASE ~(MPI_Group_incl(p) \/ MPI_Comm_create(p) \/ MPI_Comm_dup(p) \/ MPI_Comm_free(p))
  <2>1. group' = group /\ comms' = comms
    BY <1>4, StepKeepsComms
  <2> QED BY <2>1 DEF WorldFirst, World
<1> QED
  BY <1>1, <1>2, <1>3, <1>4

-----------------------------------------------------------------------------
(* All PEs. *)

(* The PEs leave a barrier together, or all fail in it. *)
Leave(b) == IF b.left > 1 THEN [b EXCEPT !.left = @ - 1] ELSE [b EXCEPT !.at = b.then, !.left = 0]
GiveUp(b) == [b EXCEPT !.at = "failed", !.left = 0]

LEMMA LeavePlace ==
  ASSUME NEW pr, NEW b \in Place(pr)
  PROVE  Leave(b) \in Place(pr) /\ GiveUp(b) \in Place(pr)
<1>1. b.left \in 0 .. 4 /\ 0 \in 0 .. 4 /\ b.then \in Points /\ "failed" \in Points
  BY DEF Place, Points
<1>2. b.left > 1 => b.left - 1 \in 0 .. 4
  BY <1>1
<1>3. GiveUp(b) \in Place(pr)
  <2>1. [b EXCEPT !.at = "failed"] \in Place(pr)
    BY <1>1 DEF Place
  <2>2. GiveUp(b) = [[b EXCEPT !.at = "failed"] EXCEPT !.left = 0]
    BY DEF GiveUp
  <2> QED BY <1>1, <2>1, <2>2 DEF Place
<1>4. CASE b.left > 1
  <2>1. [b EXCEPT !.left = @ - 1] \in Place(pr)
    BY <1>2, <1>4 DEF Place
  <2> QED BY <1>3, <1>4, <2>1 DEF Leave
<1>5. CASE ~(b.left > 1)
  <2>1. [b EXCEPT !.at = b.then, !.left = 0] \in Place(pr)
    <3>1. [b EXCEPT !.at = b.then] \in Place(pr)
      BY <1>1 DEF Place
    <3>2. [b EXCEPT !.at = b.then, !.left = 0] = [[b EXCEPT !.at = b.then] EXCEPT !.left = 0]
      OBVIOUS
    <3> QED BY <1>1, <3>1, <3>2 DEF Place
  <2> QED BY <1>3, <1>5, <2>1 DEF Leave
<1> QED
  BY <1>4, <1>5

LEMMA BarrierAllPlaces ==
  ASSUME BarrierInv, BarrierAll \/ HeapFull
  PROVE  /\ \A p, q \in PE : pc[p] = pc[q] /\ pc'[p] = pc'[q]
         /\ \A p \in PE : pc[p].at = "barrier" /\ pc'[p].k = pc[p].k
         /\ pc' \in [PE -> Place(prog)] /\ prog' = prog
         /\ UNCHANGED <<group, comms>>
<1>1. prog' = prog /\ UNCHANGED <<group, comms>> /\ \A p \in PE : pc[p].at = "barrier"
  BY DEF BarrierAll, HeapFull, callVars
<1>2. \A p, q \in PE : pc[p] = pc[q]
  BY <1>1, SameBarrier
<1>3. pc' = [p \in PE |-> Leave(pc[p])] \/ pc' = [p \in PE |-> GiveUp(pc[p])]
  BY DEF BarrierAll, HeapFull, Leave, GiveUp
<1>4. \A p \in PE : Leave(pc[p]) \in Place(prog) /\ GiveUp(pc[p]) \in Place(prog)
  BY LeavePlace DEF BarrierInv, PlaceInv
<1>5. \A p \in PE : Leave(pc[p]).k = pc[p].k /\ GiveUp(pc[p]).k = pc[p].k
  <2> SUFFICES ASSUME NEW p \in PE PROVE Leave(pc[p]).k = pc[p].k /\ GiveUp(pc[p]).k = pc[p].k
    OBVIOUS
  <2>1. pc[p] \in Place(prog)
    BY DEF BarrierInv, PlaceInv
  <2> QED BY <2>1 DEF Place, Leave, GiveUp
<1>6. \A p, q \in PE : pc'[p] = pc'[q]
  BY <1>2, <1>3
<1>7. pc' \in [PE -> Place(prog)] /\ \A p \in PE : pc'[p].k = pc[p].k
  BY <1>3, <1>4, <1>5
<1> QED
  BY <1>1, <1>2, <1>6, <1>7

LEMMA BarrierInvInit == Init => BarrierInv
<1> SUFFICES ASSUME Init PROVE BarrierInv
  OBVIOUS
<1>1. prog \in Programs /\ Len(prog) \in Nat
  BY ProgFacts DEF Init
<1>2. pc \in [PE -> Place(prog)] /\ \A p, q \in PE : pc[p] = pc[q]
  BY <1>1 DEF Init, Place, Points
<1>3. SameAhead
  BY <1>2 DEF SameAhead
<1>4. WorldFirst
  <2>1. ASSUME NEW p \in PE PROVE /\ <<World(p)>> \in Seq(Comm) /\ World(p) \in Comm
                                  /\ 1 \in DOMAIN <<World(p)>> /\ <<World(p)>>[1] = World(p)
                                  /\ World(p).rank = p
    <3>1. World(p) \in Comm /\ World(p).rank = p
      BY WorldIsComm DEF World
    <3> HIDE DEF Comm, World
    <3> QED BY <3>1
  <2> HIDE DEF Comm, World
  <2> QED BY <2>1 DEF Init, WorldFirst
<1> QED
  BY <1>1, <1>2, <1>3, <1>4 DEF BarrierInv, PlaceInv

LEMMA BarrierInvNext ==
  ASSUME UniformPrograms, BarrierInv, [Next]_vars
  PROVE  BarrierInv'
<1>1. CASE \E p \in PE : Step(p)
  <2>1. PICK p \in PE : Step(p)
    BY <1>1
  <2>2. PICK x \in Place(prog) : /\ pc' = [pc EXCEPT ![p] = x]
                                 /\ Ahead(prog, x) = Ahead(prog, pc[p])
    BY <2>1, StepGoesOn DEF GoesOn
  <2>3. prog' = prog
    BY <2>1, StepGoesOn
  <2>4. pc' \in [PE -> Place(prog')]
    BY <2>2, <2>3 DEF BarrierInv, PlaceInv
  <2>5. \A q \in PE : Ahead(prog, pc'[q]) = Ahead(prog, pc[q])
    BY <2>2 DEF BarrierInv, PlaceInv
  <2>6. SameAhead'
    BY <2>3, <2>5 DEF SameAhead, BarrierInv, PlaceInv
  <2>7. WorldFirst'
    <3>1. GroupsFit
      BY DEF UniformPrograms, UniformCall, GroupsFit
    <3> QED BY <2>1, <3>1, StepKeepsWorld DEF BarrierInv
  <2>8. prog' \in Programs
    BY <2>3 DEF BarrierInv, PlaceInv
  <2> QED BY <2>4, <2>6, <2>7, <2>8 DEF BarrierInv, PlaceInv
<1>2. CASE BarrierAll \/ HeapFull
  <2>1. /\ \A p, q \in PE : pc'[p] = pc'[q]
        /\ pc' \in [PE -> Place(prog)] /\ prog' = prog
        /\ UNCHANGED <<group, comms>>
    BY <1>2, BarrierAllPlaces
  <2>2. SameAhead'
    BY <2>1 DEF SameAhead
  <2>3. WorldFirst'
    BY <2>1 DEF BarrierInv, PlaceInv, WorldFirst, World
  <2> QED BY <2>1, <2>2, <2>3 DEF BarrierInv, PlaceInv
<1>3. CASE Arrival \/ UNCHANGED vars
  <2>1. UNCHANGED <<pc, prog, group, comms>>
    BY <1>3 DEF Arrival, vars, callVars
  <2> QED BY <2>1 DEF BarrierInv, PlaceInv, SameAhead, WorldFirst, World
<1> QED
  BY <1>1, <1>2, <1>3 DEF Next

LEMMA BarrierInvariant == ASSUME UniformPrograms PROVE Spec => []BarrierInv
<1>1. Init => BarrierInv
  BY BarrierInvInit
<1>2. BarrierInv /\ [Next]_vars => BarrierInv'
  BY BarrierInvNext
<1> QED
  BY <1>1, <1>2, PTL DEF Spec

(* PEs that wait in shmem_barrier_all wait in the same call of it, whatever  *)
(* the order in which they and the puts run, and also after an allocation    *)
(* has failed on all of them.                                                *)
THEOREM BarriersMeet == UniformPrograms /\ Spec => []BarriersMatch
<1> SUFFICES ASSUME UniformPrograms PROVE Spec => []BarriersMatch
  OBVIOUS
<1>1. BarrierInv => BarriersMatch
  BY SameBarrier DEF BarriersMatch
<1> QED
  BY <1>1, BarrierInvariant, PTL

-----------------------------------------------------------------------------
(* The communicators of the PEs agree. *)

(* The lists of PEs of a list of communicators. *)
PesOf(cs) == [i \in DOMAIN cs |-> cs[i].pes]

(* What PE p's group and communicators are once it has done what the last    *)
(* barrier has left it to do.                                                *)
GroupAfter(p) == IF In(p, "group_incl", "group") THEN Call(p).ranks ELSE group[p].pes
CommsAfter(p) ==
  IF In(p, "comm_create", "comm") THEN Append(PesOf(comms[p]), group[p].pes)
  ELSE IF In(p, "comm_dup", "comm") THEN Append(PesOf(comms[p]), comms[p][CommOf(p)].pes)
  ELSE PesOf(comms[p])

(* A member's rank is its place in the list. *)
Placed(p, comm) ==
  /\ comm.size = Len(comm.pes)
  /\ p \in MembersOf(comm) =>
       comm.rank + 1 \in DOMAIN comm.pes /\ comm.pes[comm.rank + 1] = p

AgreeInv ==
  /\ BarrierInv
  /\ \A p \in PE : Placed(p, group[p]) /\ \A i \in DOMAIN comms[p] : Placed(p, comms[p][i])
  /\ \A p, q \in PE : GroupAfter(p) = GroupAfter(q) /\ CommsAfter(p) = CommsAfter(q)

LEMMA PesAppend ==
  ASSUME NEW cs \in Seq(Comm), NEW c \in Comm
  PROVE  PesOf(cs) \in Seq(Seq(PE)) /\ PesOf(Append(cs, c)) = Append(PesOf(cs), c.pes)
<1>1. \A x \in Comm : x.pes \in Seq(PE)
  BY DEF Comm
<1> HIDE DEF Comm
<1>2. PesOf(cs) \in Seq(Seq(PE)) /\ Len(PesOf(cs)) = Len(cs)
  <2>1. \A i \in 1 .. Len(cs) : cs[i].pes \in Seq(PE)
    BY <1>1
  <2> QED BY <2>1 DEF PesOf
<1>3. PesOf(Append(cs, c)) = Append(PesOf(cs), c.pes)
  <2> DEFINE a == PesOf(Append(cs, c))
             b == Append(PesOf(cs), c.pes)
  <2>1. Append(cs, c) \in Seq(Comm) /\ Len(Append(cs, c)) = Len(cs) + 1 /\ Len(cs) \in Nat
    OBVIOUS
  <2>2. DOMAIN a = 1 .. Len(cs) + 1
    BY <2>1 DEF PesOf
  <2>3. b \in Seq(Seq(PE)) /\ DOMAIN b = 1 .. Len(cs) + 1
    BY <1>1, <1>2
  <2>4. ASSUME NEW i \in 1 .. Len(cs) + 1 PROVE a[i] = b[i]
    <3>1. a[i] = Append(cs, c)[i].pes
      BY <2>1 DEF PesOf
    <3>2. CASE i = Len(cs) + 1
      <4>1. Append(cs, c)[i] = c
        BY <3>2
      <4>2. b[i] = c.pes
        <5> DEFINE d == PesOf(cs)
        <5>1. d \in Seq(Seq(PE)) /\ i = Len(d) + 1
          BY <1>2, <3>2
        <5> HIDE DEF d
        <5> QED BY <5>1 DEF d
      <4> QED BY <3>1, <4>1, <4>2
    <3>3. CASE i \in 1 .. Len(cs)
      <4>1. Append(cs, c)[i] = cs[i]
        BY <3>3
      <4>2. b[i] = PesOf(cs)[i]
        BY <1>2, <3>3
      <4>3. PesOf(cs)[i] = cs[i].pes
        BY <3>3 DEF PesOf
      <4> QED BY <3>1, <4>1, <4>2, <4>3
    <3>4. i = Len(cs) + 1 \/ i \in 1 .. Len(cs)
      BY <2>1
    <3> HIDE DEF a, b
    <3> QED BY <3>2, <3>3, <3>4
  <2> QED BY <2>2, <2>3, <2>4 DEF PesOf
<1> QED
  BY <1>2, <1>3

(* What a step of PE p does to its group and communicators, seen by the      *)
(* lists of PEs: what it has been left to do.                                *)
Settles(p, g, cs) ==
  /\ group' = [group EXCEPT ![p] = g] /\ comms' = [comms EXCEPT ![p] = cs]
  /\ g.pes = GroupAfter(p) /\ PesOf(cs) = CommsAfter(p)
  /\ Placed(p, g) /\ \A i \in DOMAIN cs : Placed(p, cs[i])

LEMMA StepSettles ==
  ASSUME UniformPrograms, AgreeInv, NEW p \in PE, Step(p)
  PROVE  \E g, cs : Settles(p, g, cs)
<1> USE DEF AgreeInv
<1>0. /\ group \in [PE -> Comm] /\ comms \in [PE -> Seq(Comm)] /\ comms[p] \in Seq(Comm)
      /\ group[p] \in Comm
      /\ Placed(p, group[p]) /\ \A i \in DOMAIN comms[p] : Placed(p, comms[p][i])
  BY DEF BarrierInv, PlaceInv, WorldFirst
<1>1. CASE MPI_Group_incl(p)
  <2> DEFINE ranks == Call(p).ranks
  <2>1. ranks \in Seq(PE)
    <3>1. UniformCall(prog[pc[p].k])
      BY PlaceOf DEF UniformPrograms, Step
    <3> QED BY <1>1, <3>1 DEF MPI_Group_incl, In, Call, UniformCall
  <2>2. PICK r \in IF NewRank(p, ranks) = {} THEN {-1} \cup PE ELSE NewRank(p, ranks) :
          group' = [group EXCEPT ![p] = [rank |-> r, size |-> Len(ranks), pes |-> ranks, live |-> TRUE]]
    BY <1>1 DEF MPI_Group_incl
  <2> DEFINE g == [rank |-> r, size |-> Len(ranks), pes |-> ranks, live |-> TRUE]
  <2>3. Placed(p, g)
    <3> SUFFICES ASSUME p \in MembersOf(g) PROVE r + 1 \in DOMAIN ranks /\ ranks[r + 1] = p
      BY DEF Placed
    <3>1. NewRank(p, ranks) # {}
      BY DEF MembersOf, NewRank
    <3>2. PICK i \in DOMAIN ranks : ranks[i] = p /\ r = i - 1
      BY <2>2, <3>1 DEF NewRank
    <3>3. r + 1 = i
      BY <2>1, <3>2
    <3> QED BY <3>2, <3>3
  <2>4. comms' = [comms EXCEPT ![p] = comms[p]]
    BY <1>0, <1>1 DEF MPI_Group_incl
  <2>5. g.pes = GroupAfter(p) /\ PesOf(comms[p]) = CommsAfter(p)
    BY <1>1 DEF MPI_Group_incl, In, GroupAfter, CommsAfter
  <2> HIDE DEF g
  <2>6. Settles(p, g, comms[p])
    BY <1>0, <2>2, <2>3, <2>4, <2>5 DEF Settles, g
  <2> QED BY <2>6
<1>2. CASE MPI_Comm_create(p)
  <2>1. /\ comms' = [comms EXCEPT ![p] = Append(comms[p], group[p])] /\ group' = [group EXCEPT ![p] = group[p]]
        /\ In(p, "comm_create", "comm")
    BY <1>0, <1>2 DEF MPI_Comm_create
  <2>2. group[p].pes = GroupAfter(p) /\ PesOf(Append(comms[p], group[p])) = CommsAfter(p)
    BY <1>0, <2>1, PesAppend DEF GroupAfter, CommsAfter, In
  <2>3. \A i \in DOMAIN Append(comms[p], group[p]) : Placed(p, Append(comms[p], group[p])[i])
    <3> HIDE DEF Comm
    <3> QED BY <1>0
  <2>4. Settles(p, group[p], Append(comms[p], group[p]))
    BY <1>0, <2>1, <2>2, <2>3 DEF Settles
  <2> QED BY <2>4
<1>3. CASE MPI_Comm_dup(p)
  <2> DEFINE c == comms[p][CommOf(p)]
  <2>1. /\ comms' = [comms EXCEPT ![p] = Append(comms[p], c)] /\ group' = [group EXCEPT ![p] = group[p]]
        /\ In(p, "comm_dup", "comm")
    BY <1>0, <1>3 DEF MPI_Comm_dup
  <2>2. c \in Comm /\ Placed(p, c)
    BY <1>0, CommOfType DEF BarrierInv
  <2>3. group[p].pes = GroupAfter(p) /\ PesOf(Append(comms[p], c)) = CommsAfter(p)
    BY <1>0, <2>1, <2>2, PesAppend DEF GroupAfter, CommsAfter, In
  <2> HIDE DEF c
  <2>4. \A i \in DOMAIN Append(comms[p], c) : Placed(p, Append(comms[p], c)[i])
    <3> HIDE DEF Comm
    <3> QED BY <1>0, <2>2
  <2>5. Settles(p, group[p], Append(comms[p], c))
    BY <1>0, <2>1, <2>3, <2>4 DEF Settles
  <2> QED BY <2>5
<1>4. CASE MPI_Comm_free(p)
  <2> DEFINE i == CommOf(p)
             c == [comms[p][i] EXCEPT !.live = FALSE]
             cs == [comms[p] EXCEPT ![i] = c]
  <2>1. comms' = [comms EXCEPT ![p] = cs] /\ group' = [group EXCEPT ![p] = group[p]]
    BY <1>0, <1>4 DEF MPI_Comm_free
  <2>2. i \in DOMAIN comms[p] /\ comms[p][i] \in Comm /\ Placed(p, comms[p][i])
    BY <1>0, CommOfType DEF BarrierInv
  <2>3. c.pes = comms[p][i].pes /\ Placed(p, c)
    BY <2>2 DEF Comm, Placed, MembersOf
  <2> HIDE DEF c, i
  <2>4. /\ DOMAIN cs = DOMAIN comms[p] /\ \A j \in DOMAIN cs : cs[j].pes = comms[p][j].pes
        /\ \A j \in DOMAIN cs : Placed(p, cs[j])
    BY <1>0, <2>2, <2>3
  <2> HIDE DEF cs
  <2>5. PesOf(cs) = PesOf(comms[p])
    BY <2>4 DEF PesOf
  <2>6. group[p].pes = GroupAfter(p) /\ PesOf(comms[p]) = CommsAfter(p)
    BY <1>4 DEF MPI_Comm_free, In, GroupAfter, CommsAfter
  <2>7. Settles(p, group[p], cs)
    BY <1>0, <2>1, <2>4, <2>5, <2>6 DEF Settles
  <2> QED BY <2>7
<1>5. CASE ~(MPI_Group_incl(p) \/ MPI_Comm_create(p) \/ MPI_Comm_dup(p) \/ MPI_Comm_free(p))
  <2>1. /\ group' = [group EXCEPT ![p] = group[p]] /\ comms' = [comms EXCEPT ![p] = comms[p]]
        /\ pc[p].at \notin {"group", "comm"}
    BY <1>0, <1>5, StepKeepsComms
  <2>2. group[p].pes = GroupAfter(p) /\ PesOf(comms[p]) = CommsAfter(p)
    BY <2>1 DEF In, GroupAfter, CommsAfter
  <2>3. Settles(p, group[p], comms[p])
    BY <1>0, <2>1, <2>2 DEF Settles
  <2> QED BY <2>3
<1> QED
  BY <1>1, <1>2, <1>3, <1>4, <1>5

LEMMA AgreeInvInit == Init => AgreeInv
<1> SUFFICES ASSUME Init PROVE AgreeInv
  OBVIOUS
<1>1. BarrierInv
  BY BarrierInvInit
<1>2. \A p \in PE : group[p] = World(p) /\ comms[p] = <<World(p)>> /\ pc[p].at = "call"
  BY DEF Init
<1>3. \A p \in PE : Placed(p, World(p))
  <2> SUFFICES ASSUME NEW p \in PE PROVE Placed(p, World(p))
    OBVIOUS
  <2>1. p + 1 \in 1 .. NumPes /\ (p + 1) - 1 = p /\ NumPes \in Nat
    BY PeFacts
  <2>2. World(p).pes = [i \in 1 .. NumPes |-> i - 1] /\ World(p).size = NumPes /\ World(p).rank = p
    BY DEF World
  <2>3. Len(World(p).pes) = NumPes
    BY <2>1, <2>2
  <2> QED BY <2>1, <2>2, <2>3 DEF Placed
<1>4. \A p, q \in PE : World(p).pes = World(q).pes
  BY DEF World
<1>5. \A p \in PE : GroupAfter(p) = World(p).pes /\ CommsAfter(p) = PesOf(<<World(p)>>)
  BY <1>2 DEF GroupAfter, CommsAfter, In
<1> HIDE DEF World
<1>6. \A p, q \in PE : PesOf(<<World(p)>>) = PesOf(<<World(q)>>)
  <2> SUFFICES ASSUME NEW p \in PE, NEW q \in PE PROVE PesOf(<<World(p)>>) = PesOf(<<World(q)>>)
    OBVIOUS
  <2>1. World(p).pes = World(q).pes
    BY <1>4
  <2> QED BY <2>1 DEF PesOf
<1>7. \A p \in PE : Placed(p, group[p]) /\ \A i \in DOMAIN comms[p] : Placed(p, comms[p][i])
  BY <1>2, <1>3
<1> QED
  BY <1>1, <1>4, <1>5, <1>6, <1>7 DEF AgreeInv

LEMMA AgreeInvNext ==
  ASSUME UniformPrograms, AgreeInv, [Next]_vars
  PROVE  AgreeInv'
<1>0. BarrierInv /\ BarrierInv' /\ group \in [PE -> Comm] /\ comms \in [PE -> Seq(Comm)]
  BY BarrierInvNext DEF AgreeInv, BarrierInv, PlaceInv, WorldFirst
<1>1. CASE \E p \in PE : Step(p)
  <2>1. PICK p \in PE : Step(p)
    BY <1>1
  <2>2. PICK g, cs : Settles(p, g, cs)
    BY <2>1, StepSettles
  <2>3. PICK x \in Place(prog) : pc' = [pc EXCEPT ![p] = x] /\ x.at \in {"barrier", "call", "spin"}
    BY <1>0, <2>1, StepGoesOn DEF GoesOn
  <2>4. prog' = prog
    BY <1>0, <2>1, StepGoesOn
  <2>5. pc'[p].at \notin {"group", "comm"} /\ group'[p] = g /\ comms'[p] = cs
    BY <1>0, <2>2, <2>3 DEF BarrierInv, PlaceInv, Settles
  <2>6. GroupAfter(p)' = GroupAfter(p) /\ CommsAfter(p)' = CommsAfter(p)
    <3>1. GroupAfter(p)' = g.pes /\ CommsAfter(p)' = PesOf(cs)
      BY <2>5 DEF GroupAfter, CommsAfter, In, PesOf
    <3> QED BY <2>2, <3>1 DEF Settles
  <2>7. ASSUME NEW q \in PE, q # p
        PROVE  /\ pc'[q] = pc[q] /\ group'[q] = group[q] /\ comms'[q] = comms[q]
               /\ GroupAfter(q)' = GroupAfter(q) /\ CommsAfter(q)' = CommsAfter(q)
    <3>1. pc'[q] = pc[q] /\ group'[q] = group[q] /\ comms'[q] = comms[q]
      BY <1>0, <2>2, <2>3, <2>7 DEF BarrierInv, PlaceInv, Settles
    <3> QED BY <2>4, <3>1 DEF GroupAfter, CommsAfter, In, Call, CommOf
  <2>8. ASSUME NEW q \in PE
        PROVE  Placed(q, group'[q]) /\ \A i \in DOMAIN comms'[q] : Placed(q, comms'[q][i])
    <3>1. CASE q = p
      BY <2>2, <2>5, <3>1 DEF Settles
    <3>2. CASE q # p
      BY <2>7, <3>2 DEF AgreeInv
    <3> QED BY <3>1, <3>2
  <2>9. \A q \in PE : GroupAfter(q)' = GroupAfter(q) /\ CommsAfter(q)' = CommsAfter(q)
    BY <2>6, <2>7
  <2> QED BY <1>0, <2>8, <2>9 DEF AgreeInv
<1>2. CASE BarrierAll \/ HeapFull
  <2>1. /\ \A p, q \in PE : pc[p] = pc[q] /\ pc'[p] = pc'[q]
        /\ \A p \in PE : pc[p].at = "barrier"
        /\ prog' = prog /\ group' = group /\ comms' = comms
    BY <1>0, <1>2, BarrierAllPlaces
  <2>2. \A p, q \in PE : group[p].pes = group[q].pes /\ PesOf(comms[p]) = PesOf(comms[q])
    <3>1. \A p \in PE : GroupAfter(p) = group[p].pes /\ CommsAfter(p) = PesOf(comms[p])
      BY <2>1 DEF GroupAfter, CommsAfter, In
    <3> QED BY <3>1 DEF AgreeInv
  <2>3. ASSUME NEW p \in PE, NEW q \in PE
        PROVE  GroupAfter(p)' = GroupAfter(q)' /\ CommsAfter(p)' = CommsAfter(q)'
    <3>1. /\ group[p].pes = group[q].pes /\ PesOf(comms[p]) = PesOf(comms[q])
          /\ pc'[p] = pc'[q] /\ DOMAIN comms[p] = DOMAIN comms[q]
      BY <2>1, <2>2 DEF PesOf
    <3>2. CommOf(p)' = CommOf(q)' /\ CommOf(p)' \in DOMAIN comms[p]
      <4>1. 1 \in DOMAIN comms[p]
        BY <1>0 DEF BarrierInv, PlaceInv, WorldFirst
      <4> QED BY <2>1, <3>1, <4>1 DEF CommOf, Call
    <3>3. comms[p][CommOf(p)'].pes = comms[q][CommOf(q)'].pes
      <4>1. \A i \in DOMAIN comms[p] : PesOf(comms[p])[i] = comms[p][i].pes /\ PesOf(comms[q])[i] = comms[q][i].pes
        BY <3>1 DEF PesOf
      <4> QED BY <3>1, <3>2, <4>1
    <3>4. GroupAfter(p)' = GroupAfter(q)'
      BY <2>1, <3>1 DEF GroupAfter, In, Call
    <3>5. /\ In(p, "comm_create", "comm")' = In(q, "comm_create", "comm")'
          /\ In(p, "comm_dup", "comm")' = In(q, "comm_dup", "comm")'
      BY <2>1, <3>1 DEF In, Call
    <3>6. CommsAfter(p)' = CommsAfter(q)'
      <4> HIDE DEF PesOf, CommOf, In
      <4> QED BY <2>1, <3>1, <3>3, <3>5 DEF CommsAfter
    <3> QED BY <3>4, <3>6
  <2>4. \A q \in PE : Placed(q, group'[q]) /\ \A i \in DOMAIN comms'[q] : Placed(q, comms'[q][i])
    BY <2>1 DEF AgreeInv
  <2> QED BY <1>0, <2>3, <2>4 DEF AgreeInv
<1>3. CASE Arrival \/ UNCHANGED vars
  <2>1. UNCHANGED <<pc, prog, group, comms>>
    BY <1>3 DEF Arrival, vars, callVars
  <2> QED BY <1>0, <2>1, SMTT(30) DEF AgreeInv, GroupAfter, CommsAfter, In, Call, CommOf
<1> QED
  BY <1>1, <1>2, <1>3 DEF Next

(* PEs agree on the members of every communicator they share and each member *)
(* has its place in the list as rank, after any groups, creations,           *)
(* duplications and failed allocations, wherever each PE is in the program.  *)
THEOREM CommunicatorsAgree == UniformPrograms /\ Spec => []CommsAgree
<1> SUFFICES ASSUME UniformPrograms PROVE Spec => []CommsAgree
  OBVIOUS
<1>1. AgreeInv => CommsAgree
  <2> SUFFICES ASSUME AgreeInv, NEW p \in PE, NEW q \in PE, NEW i \in DOMAIN comms[p] \cap DOMAIN comms[q]
               PROVE  /\ comms[p][i].pes = comms[q][i].pes
                      /\ Placed(p, comms[p][i])
    BY DEF CommsAgree, Placed
  <2>1. Placed(p, comms[p][i])
    BY DEF AgreeInv
  <2>2. ASSUME NEW r \in PE, i \in DOMAIN comms[r] PROVE CommsAfter(r)[i] = comms[r][i].pes
    <3> DEFINE cs == comms[r]
    <3>1. cs \in Seq(Comm) /\ group[r] \in Comm /\ cs[CommOf(r)] \in Comm
      BY CommOfType DEF AgreeInv, BarrierInv, PlaceInv, WorldFirst
    <3>2. PesOf(cs)[i] = cs[i].pes
      BY <2>2 DEF PesOf
    <3>3. ASSUME NEW c \in Comm PROVE Append(PesOf(cs), c.pes)[i] = PesOf(cs)[i]
      <4>1. PesOf(cs) \in Seq(Seq(PE))
        BY <3>1, PesAppend
      <4>2. i \in 1 .. Len(PesOf(cs))
        BY <2>2, <4>1 DEF PesOf
      <4> HIDE DEF cs
      <4> QED BY <4>1, <4>2
    <3> HIDE DEF Comm
    <3> QED BY <3>1, <3>2, <3>3 DEF CommsAfter
  <2>3. CommsAfter(p) = CommsAfter(q)
    BY DEF AgreeInv
  <2> QED BY <2>1, <2>2, <2>3
<1>2. Init => AgreeInv
  BY AgreeInvInit
<1>3. AgreeInv /\ [Next]_vars => AgreeInv'
  BY AgreeInvNext
<1> QED
  BY <1>1, <1>2, <1>3, PTL DEF Spec

-----------------------------------------------------------------------------
(* Types: no call reads beyond the end of a buffer.                          *)

IntCells(cells) == \A i \in DOMAIN cells : cells[i] \in Int

(* A put that is on its way. *)
Sound(m) == m.src \in PE /\ m.to \in PE /\ m.area \in {"lib", "usr"} /\ IntCells(m.cells)

Memory == mem \in [PE -> Areas] /\ \A m \in wire : Sound(m)

TypeInv ==
  /\ PlaceInv
  /\ Memory
  /\ fence \in [PE -> Nat]
  /\ pos \in [PE -> Nat]

LEMMA Sizes == LibLen \in Nat /\ UsrLen \in Nat
BY ShmemAssumption

LEMMA StoreInt ==
  ASSUME NEW L \in Nat, NEW area \in [0 .. L - 1 -> Int], NEW at, NEW cells, IntCells(cells)
  PROVE  Store(area, at, cells) \in [0 .. L - 1 -> Int]
BY DEF Store, IntCells

LEMMA SliceInt ==
  ASSUME NEW L \in Nat, NEW area \in [0 .. L - 1 -> Int], NEW from \in Nat, NEW n \in Nat, from + n <= L
  PROVE  DOMAIN Slice(area, from, n) = 0 .. n - 1 /\ IntCells(Slice(area, from, n))
BY DEF Slice, IntCells

LEMMA PrefixInt ==
  ASSUME NEW L \in Nat, NEW area \in [0 .. L - 1 -> Int], NEW n \in Nat, n <= L
  PROVE  IntCells(Slice(area, 0, n))
<1>1. 0 + n <= L /\ 0 \in Nat
  OBVIOUS
<1> QED
  BY <1>1, SliceInt

LEMMA AreaTypes ==
  ASSUME mem \in [PE -> Areas], NEW p \in PE
  PROVE  mem[p].lib \in [0 .. LibLen - 1 -> Int] /\ mem[p].usr \in [0 .. UsrLen - 1 -> Int]
BY DEF Areas

LEMMA AreasOf ==
  ASSUME NEW a \in [0 .. LibLen - 1 -> Int], NEW b \in [0 .. UsrLen - 1 -> Int],
         mem \in [PE -> Areas], NEW p \in PE
  PROVE  [mem EXCEPT ![p] = [lib |-> a, usr |-> b]] \in [PE -> Areas]
BY DEF Areas

LEMMA MemStore ==
  ASSUME mem \in [PE -> Areas], NEW p \in PE, NEW area \in {"lib", "usr"}, NEW at, NEW cells, IntCells(cells)
  PROVE  [mem EXCEPT ![p][area] = Store(@, at, cells)] \in [PE -> Areas]
<1>1. Store(mem[p].lib, at, cells) \in [0 .. LibLen - 1 -> Int]
  BY AreaTypes, StoreInt, Sizes
<1>2. Store(mem[p].usr, at, cells) \in [0 .. UsrLen - 1 -> Int]
  BY AreaTypes, StoreInt, Sizes
<1>3. CASE area = "lib"
  BY <1>1, <1>3 DEF Areas
<1>4. CASE area = "usr"
  BY <1>2, <1>4 DEF Areas
<1> QED
  BY <1>3, <1>4

LEMMA PutsType ==
  ASSUME Memory, NEW p \in PE, NEW puts, Puts(p, puts), \A m \in puts : Sound(m)
  PROVE  Memory'
<1> DEFINE own == {m \in puts : m.to = p}
           m0 == CHOOSE m \in own : TRUE
<1>1. \A m \in wire' : Sound(m)
  BY DEF Puts, Memory
<1>2. CASE own = {}
  BY <1>1, <1>2 DEF Puts, Memory
<1>3. CASE own # {}
  <2>1. m0 \in own
    BY <1>3
  <2>2. mem' = [mem EXCEPT ![p][m0.area] = Store(@, m0.at, m0.cells)]
    BY <1>3 DEF Puts
  <2> HIDE DEF m0
  <2>3. m0.area \in {"lib", "usr"} /\ IntCells(m0.cells)
    BY <2>1 DEF Sound
  <2>4. mem' \in [PE -> Areas]
    BY <2>2, <2>3, MemStore DEF Memory
  <2> QED BY <1>1, <2>4 DEF Memory
<1> QED
  BY <1>2, <1>3

LEMMA PutSound ==
  ASSUME NEW p \in PE, NEW q \in PE, NEW area \in {"lib", "usr"}, NEW at, NEW cells, IntCells(cells), NEW id
  PROVE  Sound(PutTo(p, q, area, at, cells, id))
BY DEF Sound, PutTo

LEMMA CellsType ==
  ASSUME NEW c, FittingCall(c)
  PROVE  /\ Cells(c) \in Nat /\ GetBufferOffset(c) = Cells(c) /\ c.count \in Nat
         /\ Width[c.type] \in Nat /\ Width[c.type] >= 1
         /\ c.count * Quad \in Nat /\ Cells(c) = c.count * Width[c.type]
<1>1. Width[c.type] \in Nat \ {0} /\ c.count \in Nat
  BY MpiAssumption DEF FittingCall
<1>2. \A a, b \in Nat : a * b \in Nat
  OBVIOUS
<1> QED
  BY <1>1, <1>2 DEF Cells, GetNumBytes, GetBufferOffset, Quad

LEMMA DataInt ==
  ASSUME NEW k \in Nat, NEW p \in PE, FittingCall(prog[k])
  PROVE  /\ DOMAIN Data(k, p) = 0 .. Cells(prog[k]) - 1 /\ IntCells(Data(k, p))
         /\ \A i \in Int : Datum(k, p, i) \in Int
<1>1. p \in Nat /\ Cells(prog[k]) \in Nat
  BY PeFacts, CellsType
<1>2. \A i \in Int : Datum(k, p, i) \in Int
  BY <1>1 DEF Datum
<1>3. DOMAIN Data(k, p) = 0 .. Cells(prog[k]) - 1
  BY DEF Data
<1>4. \A i \in 0 .. Cells(prog[k]) - 1 : Data(k, p)[i] \in Int
  BY <1>1, <1>2 DEF Data
<1> QED
  BY <1>2, <1>3, <1>4 DEF IntCells

(* The i-th of n elements of w cells ends within n * w cells. *)
LEMMA ElementFits ==
  ASSUME NEW i \in Nat, NEW n \in Nat, NEW w \in Nat, i < n
  PROVE  i * w \in Nat /\ n * w \in Nat /\ i * w + w <= n * w
<1>1. PICK d \in Nat : n = i + 1 + d
  <2>1. n - (i + 1) \in Nat /\ n = i + 1 + (n - (i + 1))
    OBVIOUS
  <2> QED BY <2>1
<1>2. n * w = i * w + w + d * w
  BY <1>1
<1>3. d * w \in Nat /\ i * w \in Nat /\ n * w \in Nat
  OBVIOUS
<1> QED
  BY <1>2, <1>3

LEMMA ElementPutsSound ==
  ASSUME NEW p \in PE, NEW q \in PE, NEW c, FittingCall(c), NEW cells,
         DOMAIN cells = 0 .. Cells(c) - 1, IntCells(cells)
  PROVE  \A m \in ElementPuts(p, q, c, cells) : Sound(m)
<1> SUFFICES ASSUME NEW i \in 0 .. c.count - 1
             PROVE  Sound(PutTo(p, q, "lib", i * Width[c.type],
                                Slice(cells, i * Width[c.type], Width[c.type]), pc[p].k))
  BY DEF ElementPuts
<1> DEFINE w == Width[c.type]
           b == i * w
<1>1. c.count \in Nat /\ w \in Nat /\ Cells(c) = c.count * w
  BY CellsType
<1>2. i \in Nat /\ i < c.count
  BY <1>1
<1>3. b \in Nat /\ b + w <= Cells(c) /\ Cells(c) \in Nat
  <2> HIDE DEF w
  <2>1. i * w \in Nat /\ c.count * w \in Nat /\ i * w + w <= c.count * w
    BY <1>1, <1>2, ElementFits, ZenonT(30)
  <2> QED BY <1>1, <2>1
<1> HIDE DEF b, w
<1>4. ASSUME NEW j \in 0 .. w - 1 PROVE cells[b + j] \in Int
  <2>1. b + j \in 0 .. Cells(c) - 1
    BY <1>1, <1>3
  <2> QED BY <2>1 DEF IntCells
<1>5. IntCells(Slice(cells, b, w))
  BY <1>4 DEF IntCells, Slice
<1>6. Sound(PutTo(p, q, "lib", b, Slice(cells, b, w), pc[p].k))
  BY <1>5, PutSound
<1> QED
  BY <1>6 DEF b, w

(* What is known of the call PE p is in. *)
LEMMA CallFits ==
  ASSUME FittingPrograms, TypeInv, NEW p \in PE, ~Done(p)
  PROVE  /\ Call(p) = prog[pc[p].k] /\ pc[p].k \in Nat /\ FittingCall(Call(p))
         /\ Cells(Call(p)) \in Nat /\ GetBufferOffset(Call(p)) = Cells(Call(p))
         /\ Call(p).count * Quad \in Nat
         /\ DOMAIN Data(pc[p].k, p) = 0 .. Cells(Call(p)) - 1 /\ IntCells(Data(pc[p].k, p))
         /\ mem \in [PE -> Areas]
         /\ mem[p].lib \in [0 .. LibLen - 1 -> Int] /\ mem[p].usr \in [0 .. UsrLen - 1 -> Int]
<1>1. pc[p].k \in Nat /\ pc[p].k \in DOMAIN prog /\ prog \in Programs
  BY PlaceIn DEF TypeInv
<1>2. FittingCall(prog[pc[p].k])
  BY <1>1 DEF FittingPrograms
<1>3. mem \in [PE -> Areas]
  BY DEF TypeInv, Memory
<1> QED
  BY <1>1, <1>2, <1>3, CellsType, DataInt, AreaTypes DEF Call

(* What a collective sends lies in the buffer it reads. *)
LEMMA SendCellsInt ==
  ASSUME FittingPrograms, TypeInv, NEW p \in PE, ~Done(p), NEW n \in Nat, ~Call(p).symS => n <= LibLen
  PROVE  IntCells(SendCells(Call(p), pc[p].k, p, n))
<1>1. CASE Call(p).symS
  <2>1. \A i \in Int : Datum(pc[p].k, p, i) \in Int
    BY CallFits, DataInt
  <2>2. \A i \in 0 .. n - 1 : (IF i < Cells(Call(p)) THEN Datum(pc[p].k, p, i) ELSE 0) \in Int
    BY <2>1
  <2> QED BY <1>1, <2>2 DEF SendCells, IntCells
<1>2. CASE ~Call(p).symS
  <2>1. IntCells(Slice(mem[p].lib, 0, n))
    BY <1>2, CallFits, PrefixInt, Sizes
  <2> QED BY <1>2, <2>1 DEF SendCells
<1> QED
  BY <1>1, <1>2

(* PE p changes its own memory. *)
LEMMA OwnMemory ==
  ASSUME TypeInv, NEW p \in PE, NEW a \in [0 .. LibLen - 1 -> Int], NEW b \in [0 .. UsrLen - 1 -> Int],
         mem' = [mem EXCEPT ![p] = [lib |-> a, usr |-> b]], wire' = wire
  PROVE  Memory'
BY AreasOf DEF TypeInv, Memory

LEMMA UsrMemory ==
  ASSUME TypeInv, NEW p \in PE, NEW b \in [0 .. UsrLen - 1 -> Int],
         mem' = [mem EXCEPT ![p].usr = b], wire' = wire
  PROVE  Memory'
<1>1. mem' \in [PE -> Areas]
  BY DEF TypeInv, Memory, Areas
<1> QED
  BY <1>1 DEF TypeInv, Memory

LEMMA CopyMemory ==
  ASSUME TypeInv, NEW p \in PE, NEW area \in {"lib", "usr"}, NEW at, NEW cells, IntCells(cells),
         mem' = CopyMyData(p, area, at, cells), wire' = wire
  PROVE  Memory'
<1>1. mem' \in [PE -> Areas]
  BY MemStore DEF TypeInv, Memory, CopyMyData
<1> QED
  BY <1>1 DEF TypeInv, Memory

LEMMA FenceType ==
  ASSUME TypeInv, NEW p \in PE, Fence(p) \/ fence' = fence
  PROVE  fence' \in [PE -> Nat]
BY DEF TypeInv, Fence

LEMMA BcastTypes ==
  ASSUME FittingPrograms, TypeInv, NEW p \in PE, ~Done(p), BcastEnter(p) \/ BcastMove(p) \/ BcastCopy(p)
  PROVE  Memory' /\ fence' = fence /\ pos' = pos
<1> DEFINE c == Call(p)
           k == pc[p].k
<1>1. /\ c.op = "bcast" /\ fence' = fence /\ pos' = pos
  BY DEF BcastEnter, BcastMove, BcastCopy, In, callVars
<1>2. /\ Cells(c) \in Nat /\ Cells(c) <= UsrLen /\ BcastDest(c) + Cells(c) <= LibLen
      /\ c.count * Quad \in Nat /\ c.count * Quad <= IF c.symS THEN UsrLen ELSE LibLen
      /\ mem[p].lib \in [0 .. LibLen - 1 -> Int] /\ mem[p].usr \in [0 .. UsrLen - 1 -> Int]
      /\ mem \in [PE -> Areas] /\ IntCells(Data(k, p)) /\ BcastDest(c) \in Nat
  BY <1>1, CallFits DEF FittingCall, FitsCollective, BcastDest
<1> HIDE DEF c
<1>3. CASE BcastEnter(p)
  <2> DEFINE usr == IF p = c.root THEN Store(mem[p].usr, 0, Data(k, p)) ELSE mem[p].usr
             lib == IF c.symS THEN mem[p].lib ELSE Store(mem[p].lib, 0, Slice(usr, 0, Cells(c)))
  <2>1. usr \in [0 .. UsrLen - 1 -> Int]
    BY <1>2, StoreInt, Sizes
  <2>2. mem' = [mem EXCEPT ![p] = [usr |-> usr, lib |-> lib]] /\ wire' = wire
    BY <1>2, <1>3 DEF BcastEnter, c
  <2> HIDE DEF usr
  <2>3. IntCells(Slice(usr, 0, Cells(c)))
    BY <1>2, <2>1, PrefixInt, Sizes
  <2>4. lib \in [0 .. LibLen - 1 -> Int]
    BY <1>2, <2>3, StoreInt, Sizes
  <2> HIDE DEF lib
  <2>5. Memory'
    BY <2>1, <2>2, <2>4, OwnMemory
  <2> QED BY <1>1, <2>5
<1>4. CASE BcastMove(p)
  <2> DEFINE area == IF c.symS THEN mem[p].usr ELSE mem[p].lib
             words == Slice(area, 0, c.count * Quad)
             to == IF p = c.root THEN PE \ {p} ELSE {}
  <2>1. IntCells(words)
    <3>1. CASE c.symS
      BY <1>2, <3>1, PrefixInt, Sizes
    <3>2. CASE ~c.symS
      BY <1>2, <3>2, PrefixInt, Sizes
    <3> QED BY <3>1, <3>2
  <2>2. Puts(p, {PutTo(p, q, "lib", BcastDest(c), words, k) : q \in to})
    BY <1>4 DEF BcastMove, c
  <2> HIDE DEF words
  <2>3. \A m \in {PutTo(p, q, "lib", BcastDest(c), words, k) : q \in to} : Sound(m)
    BY <2>1, PutSound
  <2>4. Memory'
    BY <2>2, <2>3, PutsType DEF TypeInv
  <2> QED BY <1>1, <2>4
<1>5. CASE BcastCopy(p)
  <2> DEFINE usr == IF p = c.root THEN mem[p].usr
                    ELSE Store(mem[p].usr, 0, Slice(mem[p].lib, BcastDest(c), Cells(c)))
  <2>1. IntCells(Slice(mem[p].lib, BcastDest(c), Cells(c)))
    BY <1>2, SliceInt, Sizes
  <2>2. usr \in [0 .. UsrLen - 1 -> Int]
    BY <1>2, <2>1, StoreInt, Sizes
  <2>3. mem' = [mem EXCEPT ![p].usr = usr] /\ wire' = wire
    BY <1>5 DEF BcastCopy, c
  <2> HIDE DEF usr
  <2>4. Memory'
    BY <2>2, <2>3, UsrMemory
  <2> QED BY <1>1, <2>4
<1> QED
  BY <1>3, <1>4, <1>5

LEMMA GatherTypes ==
  ASSUME FittingPrograms, TypeInv, NEW p \in PE, ~Done(p),
         GatherEnter(p) \/ AllgatherMove(p) \/ GatherMove(p) \/ GatherCopy(p)
  PROVE  Memory' /\ fence' = fence /\ pos' = pos
<1> DEFINE c == Call(p)
           k == pc[p].k
<1>1. c.op \in {"allgather", "gather"} /\ fence' = fence /\ pos' = pos
  BY DEF GatherEnter, AllgatherMove, GatherMove, GatherCopy, In, callVars
<1>2. /\ Cells(c) \in Nat /\ c.count * Quad \in Nat
      /\ ~c.symS => c.count * Quad <= LibLen /\ Cells(c) <= LibLen
      /\ ~c.symR => RecvAt(c) + NumPes * Cells(c) <= LibLen
      /\ mem[p].lib \in [0 .. LibLen - 1 -> Int] /\ mem[p].usr \in [0 .. UsrLen - 1 -> Int]
      /\ mem \in [PE -> Areas] /\ IntCells(Data(k, p)) /\ RecvAt(c) \in Nat
      /\ c.op = "gather" => c.root \in PE
  BY <1>1, CallFits DEF FittingCall, FitsCollective, RecvAt
<1>3. RecvArea(c) \in {"lib", "usr"}
  BY DEF RecvArea
<1>4. CASE GatherEnter(p)
  <2>1. CASE c.symS
    BY <1>1, <1>4, <2>1 DEF GatherEnter, TypeInv, Memory
  <2>2. CASE ~c.symS
    <3>1. mem' = CopyMyData(p, "lib", 0, Data(k, p)) /\ wire' = wire
      BY <1>4, <2>2 DEF GatherEnter
    <3> QED BY <1>1, <1>2, <3>1, CopyMemory
  <2> QED BY <2>1, <2>2
<1>5. CASE AllgatherMove(p)
  <2> DEFINE words == SendCells(c, k, p, c.count * Quad)
             at == RecvAt(c) + p * c.count * Quad
  <2>1. IntCells(words)
    BY <1>2, SendCellsInt
  <2>2. Puts(p, {PutTo(p, q, RecvArea(c), at, words, k) : q \in PE})
    BY <1>5 DEF AllgatherMove
  <2> HIDE DEF words, at
  <2>3. \A m \in {PutTo(p, q, RecvArea(c), at, words, k) : q \in PE} : Sound(m)
    BY <1>3, <2>1, PutSound
  <2>4. Memory'
    BY <2>2, <2>3, PutsType DEF TypeInv
  <2> QED BY <1>1, <2>4
<1>6. CASE GatherMove(p)
  <2> DEFINE words == SendCells(c, k, p, Cells(c))
             at == RecvAt(c) + p * Cells(c)
  <2>1. IntCells(words)
    BY <1>2, SendCellsInt
  <2>2. Puts(p, {PutTo(p, c.root, RecvArea(c), at, words, k)}) /\ c.root \in PE
    BY <1>2, <1>6 DEF GatherMove, In
  <2> HIDE DEF words, at, c
  <2>3. \A m \in {PutTo(p, c.root, RecvArea(c), at, words, k)} : Sound(m)
    BY <1>3, <2>1, <2>2, PutSound
  <2>4. Memory'
    BY <2>2, <2>3, PutsType DEF TypeInv
  <2> QED BY <1>1, <2>4
<1>7. CASE GatherCopy(p)
  <2> DEFINE stays == c.symR \/ ~(c.op = "allgather" \/ p = c.root)
             n == NumPes * Cells(c)
             usr == IF stays THEN mem[p].usr ELSE Store(mem[p].usr, 0, Slice(mem[p].lib, RecvAt(c), n))
  <2>1. ASSUME ~c.symR PROVE IntCells(Slice(mem[p].lib, RecvAt(c), n))
    <3>1. n \in Nat /\ RecvAt(c) + n <= LibLen
      BY <1>2, <2>1, PeFacts
    <3> HIDE DEF n
    <3> QED BY <1>2, <3>1, SliceInt, Sizes
  <2> HIDE DEF n
  <2>2. usr \in [0 .. UsrLen - 1 -> Int]
    BY <1>2, <2>1, StoreInt, Sizes
  <2>3. mem' = [mem EXCEPT ![p].usr = usr] /\ wire' = wire
    BY <1>7 DEF GatherCopy, n
  <2> HIDE DEF usr
  <2>4. Memory'
    BY <2>2, <2>3, UsrMemory
  <2> QED BY <1>1, <2>4
<1> QED
  BY <1>4, <1>5, <1>6, <1>7

LEMMA GathervTypes ==
  ASSUME FittingPrograms, TypeInv, NEW p \in PE, ~Done(p),
         GathervEnter(p) \/ GathervRecvBuf(p) \/ GathervMove(p) \/ GathervCopy(p)
  PROVE  Memory' /\ fence' \in [PE -> Nat] /\ pos' = pos
<1> DEFINE c == Call(p)
           k == pc[p].k
           g == GetNumBytes(TotalNumSent(c), c.type)
           h == GetNumBytes(TotalNumSent(c), "int")
           n == GetNumBytes(c.recvcount[p + 1], c.type)
<1>1. c.op = "gatherv" /\ pos' = pos /\ fence' \in [PE -> Nat]
  BY FenceType DEF GathervEnter, GathervRecvBuf, GathervMove, GathervCopy, In, callVars
<1>2. /\ Cells(c) \in Nat /\ GetBufferOffset(c) = Cells(c)
      /\ mem[p].lib \in [0 .. LibLen - 1 -> Int] /\ mem[p].usr \in [0 .. UsrLen - 1 -> Int]
      /\ mem \in [PE -> Areas] /\ IntCells(Data(k, p)) /\ FittingCall(c)
  BY CallFits
<1>3. g \in Nat /\ g <= UsrLen /\ h \in Nat /\ Cells(c) + h <= LibLen /\ n \in Nat /\ n <= LibLen /\ c.root \in PE
  <2>1. /\ TotalNumSent(c) \in Nat /\ "int" \in DOMAIN Width /\ g <= UsrLen /\ Cells(c) + h <= LibLen
        /\ c.recvcount[p + 1] \in Nat /\ n <= LibLen /\ c.root \in PE /\ c.type \in DOMAIN Width
    BY <1>1, <1>2 DEF FittingCall, FitsCollective
  <2>2. Width["int"] \in Nat /\ Width[c.type] \in Nat /\ \A a, b \in Nat : a * b \in Nat
    BY <2>1, MpiAssumption
  <2> HIDE DEF c
  <2>3. g \in Nat /\ h \in Nat /\ n \in Nat
    BY <2>1, <2>2 DEF GetNumBytes
  <2> QED BY <2>1, <2>3
<1> HIDE DEF g, h, n
<1>4. CASE GathervEnter(p)
  BY <1>1, <1>2, <1>4, CopyMemory DEF GathervEnter
<1>5. CASE GathervRecvBuf(p)
  <2>1. IntCells(Slice(mem[p].usr, 0, g))
    BY <1>2, <1>3, PrefixInt, Sizes
  <2>2. mem' = CopyMyData(p, "lib", GetBufferOffset(c), Slice(mem[p].usr, 0, g)) /\ wire' = wire
    BY <1>5 DEF GathervRecvBuf, g
  <2> QED BY <1>1, <2>1, <2>2, CopyMemory
<1>6. CASE GathervMove(p)
  <2> DEFINE at == GetBufferOffset(c) + GetNumBytes(Displs(c)[p], c.type)
             cells == Slice(mem[p].lib, 0, n)
  <2>1. IntCells(cells)
    BY <1>2, <1>3, PrefixInt, Sizes
  <2>2. Puts(p, {PutTo(p, c.root, "lib", at, cells, k)})
    BY <1>6 DEF GathervMove, n
  <2> HIDE DEF cells, at, c
  <2>3. \A m \in {PutTo(p, c.root, "lib", at, cells, k)} : Sound(m)
    BY <1>3, <2>1, PutSound
  <2>4. Memory'
    BY <2>2, <2>3, PutsType DEF TypeInv
  <2> QED BY <1>1, <2>4
<1>7. CASE GathervCopy(p)
  <2> DEFINE usr == IF p # c.root THEN mem[p].usr
                    ELSE Store(mem[p].usr, 0, Slice(mem[p].lib, GetBufferOffset(c), h))
  <2>1. IntCells(Slice(mem[p].lib, GetBufferOffset(c), h))
    BY <1>2, <1>3, SliceInt, Sizes
  <2>2. usr \in [0 .. UsrLen - 1 -> Int]
    BY <1>2, <2>1, StoreInt, Sizes
  <2>3. mem' = [mem EXCEPT ![p].usr = usr] /\ wire' = wire
    BY <1>7 DEF GathervCopy, h
  <2> HIDE DEF usr
  <2>4. Memory'
    BY <2>2, <2>3, UsrMemory
  <2> QED BY <1>1, <2>4
<1> QED
  BY <1>4, <1>5, <1>6, <1>7

LEMMA SendTypes ==
  ASSUME FittingPrograms, TypeInv, NEW p \in PE, ~Done(p),
         MPI_SendByValue(p) \/ MPI_SendFlagged(p) \/ MPI_Recv(p)
  PROVE  Memory' /\ fence' \in [PE -> Nat] /\ pos' = pos
<1> DEFINE c == Call(p)
           k == pc[p].k
<1>1. pos' = pos /\ fence' \in [PE -> Nat]
  BY FenceType DEF MPI_SendByValue, MPI_SendFlagged, MPI_Recv
<1>2. /\ Cells(c) \in Nat /\ FittingCall(c) /\ DOMAIN Data(k, p) = 0 .. Cells(c) - 1 /\ IntCells(Data(k, p))
      /\ mem[p].lib \in [0 .. LibLen - 1 -> Int]
      /\ c.op = "send" => c.to \in PE
      /\ c.op = "recv" => Cells(c) <= LibLen
  BY CallFits DEF FittingCall, FitsOther
<1>3. CASE MPI_SendByValue(p) \/ MPI_SendFlagged(p)
  <2>1. c.to \in PE
    BY <1>2, <1>3 DEF MPI_SendByValue, MPI_SendFlagged, In
  <2> DEFINE data == ElementPuts(p, c.to, c, Data(k, p))
             flag == PutTo(p, c.to, "lib", GetBufferOffset(c), [i \in {0} |-> Flag], k)
  <2>2. \A m \in data : Sound(m)
    BY <1>2, <2>1, ElementPutsSound
  <2>3. Sound(flag)
    <3>1. IntCells([i \in {0} |-> Flag])
      BY DEF IntCells, Flag
    <3> QED BY <2>1, <3>1, PutSound
  <2>4. Puts(p, data) \/ Puts(p, data \cup {flag})
    BY <1>3 DEF MPI_SendByValue, MPI_SendFlagged
  <2> HIDE DEF data, flag
  <2>5. Memory'
    BY <2>2, <2>3, <2>4, PutsType DEF TypeInv
  <2> QED BY <1>1, <2>5
<1>4. CASE MPI_Recv(p)
  <2>1. mem' = CopyMyData(p, "usr", 0, Slice(mem[p].lib, 0, Cells(c))) /\ wire' = wire /\ Cells(c) <= LibLen
    BY <1>2, <1>4 DEF MPI_Recv, In
  <2>2. IntCells(Slice(mem[p].lib, 0, Cells(c)))
    BY <1>2, <2>1, PrefixInt, Sizes
  <2> QED BY <1>1, <2>1, <2>2, CopyMemory
<1> QED
  BY <1>3, <1>4

LEMMA NextPeType == ASSUME NEW p \in PE PROVE NextPe(p) \in PE
<1>1. NumPes \in Nat \ {0} /\ p \in Nat
  BY ShmemAssumption, PeFacts
<1>2. (p + 1) % NumPes \in 0 .. NumPes - 1
  BY <1>1
<1> QED
  BY <1>2 DEF NextPe, PE

LEMMA RequestTypes ==
  ASSUME FittingPrograms, TypeInv, NEW p \in PE, ~Done(p), IsendEnter(p) \/ IsendMove(p) \/ IrecvMove(p)
  PROVE  Memory' /\ fence' = fence /\ pos' = pos
<1> DEFINE c == Call(p)
           k == pc[p].k
<1>1. pos' = pos /\ fence' = fence
  BY DEF IsendEnter, IsendMove, IrecvMove, callVars
<1>2. /\ Cells(c) \in Nat /\ FittingCall(c) /\ DOMAIN Data(k, p) = 0 .. Cells(c) - 1 /\ IntCells(Data(k, p))
      /\ GetBufferOffset(c) = Cells(c)
      /\ mem \in [PE -> Areas] /\ mem[p].lib \in [0 .. LibLen - 1 -> Int]
      /\ c.op = "isend" => Cells(c) + Cells(c) <= LibLen
      /\ c.op = "irecv" => Cells(c) <= LibLen
  BY CallFits DEF FittingCall, FitsOther
<1>3. CASE IsendEnter(p)
  <2>1. CASE c.symS
    BY <1>1, <1>3, <2>1 DEF IsendEnter, TypeInv, Memory
  <2>2. CASE ~c.symS
    <3>1. mem' = CopyMyData(p, "lib", GetBufferOffset(c), Data(k, p)) /\ wire' = wire
      BY <1>3, <2>2 DEF IsendEnter
    <3> QED BY <1>1, <1>2, <3>1, CopyMemory
  <2> QED BY <2>1, <2>2
<1>4. CASE IsendMove(p)
  <2> DEFINE cells == IF c.symS THEN Data(k, p) ELSE Slice(mem[p].lib, GetBufferOffset(c), Cells(c))
  <2>1. DOMAIN cells = 0 .. Cells(c) - 1 /\ IntCells(cells)
    <3>1. Cells(c) + Cells(c) <= LibLen
      BY <1>2, <1>4 DEF IsendMove, In
    <3>2. LET t == Slice(mem[p].lib, Cells(c), Cells(c)) IN DOMAIN t = 0 .. Cells(c) - 1 /\ IntCells(t)
      BY <1>2, <3>1, SliceInt, Sizes
    <3> QED BY <1>2, <3>2
  <2>2. Puts(p, ElementPuts(p, NextPe(p), c, cells))
    BY <1>4 DEF IsendMove
  <2> HIDE DEF cells
  <2>3. \A m \in ElementPuts(p, NextPe(p), c, cells) : Sound(m)
    BY <1>2, <2>1, NextPeType, ElementPutsSound
  <2>4. Memory'
    BY <2>2, <2>3, PutsType DEF TypeInv
  <2> QED BY <1>1, <2>4
<1>5. CASE IrecvMove(p)
  <2> DEFINE cells == Slice(mem[NextPe(p)].lib, 0, Cells(c))
  <2>1. mem[NextPe(p)].lib \in [0 .. LibLen - 1 -> Int]
    BY <1>2, NextPeType, AreaTypes
  <2>2. mem' = CopyMyData(p, "usr", 0, cells) /\ wire' = wire /\ Cells(c) <= LibLen
    BY <1>2, <1>5 DEF IrecvMove, In
  <2>3. IntCells(cells)
    BY <1>2, <2>1, <2>2, PrefixInt, Sizes
  <2> HIDE DEF cells
  <2> QED BY <1>1, <2>2, <2>3, CopyMemory
<1> QED
  BY <1>3, <1>4, <1>5

LEMMA PackTypes ==
  ASSUME FittingPrograms, TypeInv, NEW p \in PE, ~Done(p), MPI_Pack(p) \/ MPI_Unpack(p)
  PROVE  Memory' /\ fence' \in [PE -> Nat] /\ pos' \in [PE -> Nat]
<1> DEFINE c == Call(p)
           k == pc[p].k
<1>1. fence' \in [PE -> Nat]
  BY FenceType DEF MPI_Pack, MPI_Unpack
<1>2. /\ Cells(c) \in Nat /\ IntCells(Data(k, p))
      /\ mem \in [PE -> Areas]
      /\ mem[p].lib \in [0 .. LibLen - 1 -> Int] /\ mem[p].usr \in [0 .. UsrLen - 1 -> Int]
      /\ c.op = "pack" => c.comm = 1 /\ Cells(c) <= LibLen
      /\ c.op = "unpack" => Cells(c) <= UsrLen
  BY CallFits DEF FittingCall, FitsOther
<1>3. Position(p) \in Nat
  BY DEF Position, TypeInv
<1>4. pos' = pos \/ pos' = [pos EXCEPT ![p] = Position(p) + Cells(c)]
  BY DEF MPI_Pack, MPI_Unpack
<1>5. pos' \in [PE -> Nat]
  <2>1. Position(p) + Cells(c) \in Nat
    BY <1>2, <1>3
  <2> QED BY <1>4, <2>1 DEF TypeInv
<1>6. CASE MPI_Pack(p)
  <2> DEFINE q == comms[p][CommOf(p)].rank
             area == IF c.symS THEN "usr" ELSE "lib"
             put == PutTo(p, q, area, Position(p), Data(k, p), k)
             lib == IF q = p /\ ~c.symS THEN Store(mem[p].lib, put.at, put.cells) ELSE mem[p].lib
  <2>1. c.comm = 1 /\ Cells(c) <= LibLen
    BY <1>2, <1>6 DEF MPI_Pack, In
  <2>2. q \in PE
    <3>1. CommOf(p) = 1
      BY <2>1 DEF CommOf
    <3> QED BY <3>1 DEF TypeInv, PlaceInv, WorldFirst
  <2>3. Sound(put) /\ IntCells(put.cells)
    BY <1>2, <2>2, PutSound DEF PutTo
  <2>4. CASE c.symS
    <3>1. Puts(p, {put})
      BY <1>6, <2>4 DEF MPI_Pack
    <3> HIDE DEF put
    <3>2. Memory'
      BY <2>3, <3>1, PutsType DEF TypeInv
    <3> QED BY <1>1, <1>5, <3>2
  <2>5. CASE ~c.symS
    <3> DEFINE usr == Store(mem[p].usr, 0, Slice(lib, 0, Cells(c)))
    <3>1. /\ mem' = [mem EXCEPT ![p] = [lib |-> lib, usr |-> usr]]
          /\ wire' = IF q = p THEN wire ELSE wire \cup {put}
      BY <1>2, <1>6, <2>5 DEF MPI_Pack
    <3> HIDE DEF put
    <3>2. lib \in [0 .. LibLen - 1 -> Int]
      BY <1>2, <2>3, StoreInt, Sizes
    <3> HIDE DEF lib
    <3>3. IntCells(Slice(lib, 0, Cells(c)))
      BY <1>2, <2>1, <3>2, PrefixInt, Sizes
    <3>4. usr \in [0 .. UsrLen - 1 -> Int]
      BY <1>2, <3>3, StoreInt, Sizes
    <3> HIDE DEF usr, q
    <3>5. mem' \in [PE -> Areas]
      BY <1>2, <3>1, <3>2, <3>4, AreasOf
    <3>6. \A m \in wire' : Sound(m)
      BY <2>3, <3>1 DEF TypeInv, Memory
    <3> QED BY <1>1, <1>5, <3>5, <3>6 DEF Memory
  <2> QED BY <2>4, <2>5
<1>7. CASE MPI_Unpack(p)
  <2>1. wire' = wire /\ Cells(c) <= UsrLen
    BY <1>2, <1>7 DEF MPI_Unpack, In
  <2>2. CASE c.symS
    <3>1. mem' = mem
      BY <1>7, <2>2 DEF MPI_Unpack
    <3> QED BY <1>1, <1>5, <2>1, <3>1 DEF TypeInv, Memory
  <2>3. CASE ~c.symS
    <3>1. mem' = CopyMyData(p, "lib", 0, Slice(mem[p].usr, 0, Cells(c)))
      BY <1>7, <2>3 DEF MPI_Unpack
    <3>2. IntCells(Slice(mem[p].usr, 0, Cells(c)))
      BY <1>2, <2>1, PrefixInt, Sizes
    <3> QED BY <1>1, <1>5, <2>1, <3>1, <3>2, CopyMemory
  <2> QED BY <2>2, <2>3
<1> QED
  BY <1>6, <1>7

(* The steps that leave memory, puts, fences and position alone, or only     *)
(* fence.                                                                    *)
LEMMA QuietTypes ==
  ASSUME TypeInv, NEW p \in PE,
         \/ MPI_Barrier(p) \/ MPI_Iprobe(p) \/ BarrierReturn(p) \/ GatherNull(p) \/ GathervCheck(p)
         \/ NotMine(p) \/ SendReturn(p) \/ IrecvEnter(p) \/ MPI_Test(p) \/ Management(p) \/ PackNoSpace(p)
  PROVE  Memory' /\ fence' \in [PE -> Nat] /\ pos' = pos
<1>1. UNCHANGED <<mem, wire, pos>> /\ (Fence(p) \/ fence' = fence)
  BY DEF MPI_Barrier, MPI_Iprobe, BarrierReturn, GatherNull, GathervCheck, NotMine, SendReturn,
         IrecvEnter, MPI_Test, PackNoSpace, Management, GroupEnter, MPI_Group_incl, CommEnter,
         HeapReturn, MPI_Comm_create, MPI_Comm_dup, CommFreeEnter, MPI_Comm_free, MPI_Comm_rank,
         callVars, shmemVars
<1> QED
  BY <1>1, FenceType DEF TypeInv, Memory

LEMMA StepTypes ==
  ASSUME FittingPrograms, TypeInv, NEW p \in PE, Step(p)
  PROVE  Memory' /\ fence' \in [PE -> Nat] /\ pos' \in [PE -> Nat]
<1>1. ~Done(p) /\ fence \in [PE -> Nat] /\ pos \in [PE -> Nat]
  BY DEF Step, TypeInv
<1>2. CASE Collective(p)
  BY <1>1, <1>2, BcastTypes, GatherTypes, GathervTypes, QuietTypes DEF Collective
<1>3. CASE PointToPoint(p)
  BY <1>1, <1>3, SendTypes, RequestTypes, QuietTypes DEF PointToPoint
<1>4. CASE Management(p)
  BY <1>1, <1>4, QuietTypes
<1>5. CASE Packing(p)
  BY <1>1, <1>5, PackTypes, QuietTypes DEF Packing
<1> QED
  BY <1>2, <1>3, <1>4, <1>5 DEF Step

(* A PE goes to the next call, into a barrier, or waits for its message. *)
LEMMA StepMoves ==
  ASSUME NEW p \in PE, Step(p)
  PROVE  /\ prog' = prog
         /\ \/ Return(p) \/ Goto(p, "spin")
            \/ \E n \in 0 .. 4, then \in Points : Barrier(p, n, then)
<1>0. /\ {1, 3, CommAllocations} \subseteq 0 .. 4
      /\ {"return", "move", "copy", "recvbuf", "check", "group", "comm", "freed"} \subseteq Points
  BY DEF CommAllocations, Points
<1>1. CASE Collective(p)
  <2>1. /\ prog' = prog
        /\ Return(p) \/ \E then \in {"return", "move", "copy", "recvbuf", "check"} : Barrier(p, 1, then)
    BY <1>1 DEF Collective, MPI_Barrier, MPI_Iprobe, BarrierReturn, BcastEnter, BcastMove, BcastCopy,
                GatherNull, GatherEnter, AllgatherMove, GatherMove, GatherCopy, GathervEnter,
                GathervRecvBuf, GathervCheck, GathervMove, GathervCopy, callVars
  <2> QED BY <1>0, <2>1
<1>2. CASE PointToPoint(p)
  <2>1. prog' = prog /\ (Return(p) \/ Goto(p, "spin") \/ Barrier(p, 1, "move"))
    BY <1>2 DEF PointToPoint, NotMine, MPI_SendByValue, MPI_SendFlagged, SendReturn, MPI_Recv,
                IsendEnter, IsendMove, IrecvEnter, IrecvMove, MPI_Test, callVars
  <2> QED BY <1>0, <2>1
<1>3. CASE Management(p)
  <2>1. /\ prog' = prog
        /\ \/ Return(p) \/ Barrier(p, 1, "group") \/ Barrier(p, 3, "freed")
           \/ Barrier(p, CommAllocations, "comm")
    BY <1>3 DEF Management, GroupEnter, MPI_Group_incl, CommEnter, HeapReturn, MPI_Comm_create,
                MPI_Comm_dup, CommFreeEnter, MPI_Comm_free, MPI_Comm_rank, callVars
  <2> QED BY <1>0, <2>1
<1>4. CASE Packing(p)
  BY <1>4 DEF Packing, PackNoSpace, MPI_Pack, MPI_Unpack
<1> QED
  BY <1>1, <1>2, <1>3, <1>4 DEF Step

LEMMA StepKeepsPlace ==
  ASSUME GroupsFit, PlaceInv, NEW p \in PE, Step(p)
  PROVE  PlaceInv'
<1>1. /\ pc[p] \in Place(prog) /\ pc[p].k \in 1 .. Len(prog) /\ Len(prog) \in Nat
      /\ pc \in [PE -> Place(prog)] /\ prog \in Programs
  BY PlaceIn DEF Step, PlaceInv
<1>2. prog' = prog
  BY StepMoves
<1>3. PICK x \in Place(prog) : pc' = [pc EXCEPT ![p] = x]
  <2>1. CASE Return(p)
    <3>1. [k |-> pc[p].k + 1, at |-> "call", left |-> 0, then |-> "call"] \in Place(prog)
      BY <1>1 DEF Place, Points
    <3> QED BY <1>1, <2>1, <3>1 DEF Return
  <2>2. CASE Goto(p, "spin")
    <3>1. [pc[p] EXCEPT !.at = "spin"] \in Place(prog)
      BY <1>1 DEF Place, Points
    <3> QED BY <1>1, <2>2, <3>1 DEF Goto
  <2>3. ASSUME NEW n \in 0 .. 4, NEW then \in Points, Barrier(p, n, then)
        PROVE  \E x \in Place(prog) : pc' = [pc EXCEPT ![p] = x]
    <3>1. [pc[p] EXCEPT !.at = "barrier", !.left = n, !.then = then] \in Place(prog)
      BY <1>1 DEF Place, Points
    <3> QED BY <1>1, <2>3, <3>1 DEF Barrier
  <2> QED BY <2>1, <2>2, <2>3, StepMoves
<1>4. pc' \in [PE -> Place(prog')]
  BY <1>1, <1>2, <1>3
<1>5. WorldFirst'
  BY StepKeepsWorld
<1> QED
  BY <1>1, <1>2, <1>4, <1>5 DEF PlaceInv

LEMMA TypeInvInit == Init => TypeInv
<1> SUFFICES ASSUME Init PROVE TypeInv
  OBVIOUS
<1>1. PlaceInv
  BY BarrierInvInit DEF BarrierInv
<1>2. mem \in [PE -> Areas]
  BY DEF Init, ShmemInit, Areas
<1>3. wire = {} /\ fence \in [PE -> Nat] /\ pos \in [PE -> Nat]
  BY DEF Init, ShmemInit
<1> QED
  BY <1>1, <1>2, <1>3 DEF TypeInv, Memory

LEMMA TypeInvNext ==
  ASSUME FittingPrograms, GroupsFit, TypeInv, [Next]_vars
  PROVE  TypeInv'
<1>1. CASE \E p \in PE : Step(p)
  BY <1>1, StepTypes, StepKeepsPlace DEF TypeInv
<1>2. CASE BarrierAll \/ HeapFull
  <2>1. /\ UNCHANGED <<mem, wire, pos, prog, group, comms>> /\ fence' = [p \in PE |-> 0]
    BY <1>2 DEF BarrierAll, HeapFull, Quiet, callVars
  <2>2. \A p \in PE : pc[p] \in Place(prog)
    BY DEF TypeInv, PlaceInv
  <2>3. \A p \in PE : Leave(pc[p]) \in Place(prog) /\ GiveUp(pc[p]) \in Place(prog)
    BY <2>2, LeavePlace
  <2>4. pc' = [p \in PE |-> Leave(pc[p])] \/ pc' = [p \in PE |-> GiveUp(pc[p])]
    BY <1>2 DEF BarrierAll, HeapFull, Leave, GiveUp
  <2>5. pc' \in [PE -> Place(prog')]
    BY <2>1, <2>3, <2>4
  <2>6. PlaceInv'
    BY <2>1, <2>5 DEF TypeInv, PlaceInv, WorldFirst, World
  <2> QED BY <2>1, <2>6 DEF TypeInv, Memory
<1>3. CASE Arrival
  <2>1. PICK m \in wire : Deliver(m) /\ UNCHANGED <<pc, callVars>>
    BY <1>3 DEF Arrival
  <2>2. Sound(m) /\ mem \in [PE -> Areas]
    BY DEF TypeInv, Memory
  <2>3. mem' = [mem EXCEPT ![m.to][m.area] = Store(@, m.at, m.cells)] /\ wire' = wire \ {m} /\ fence' = fence
    BY <2>1 DEF Deliver
  <2>4. mem' \in [PE -> Areas]
    BY <2>2, <2>3, MemStore DEF Sound
  <2>5. PlaceInv' /\ pos' = pos
    BY <2>1 DEF TypeInv, PlaceInv, WorldFirst, World, callVars
  <2> QED BY <2>3, <2>4, <2>5 DEF TypeInv, Memory
<1>4. CASE UNCHANGED vars
  BY <1>4 DEF vars, callVars, shmemVars, TypeInv, Memory, PlaceInv, WorldFirst, World
<1> QED
  BY <1>1, <1>2, <1>3, <1>4 DEF Next

(* With calls that fit the buffers every cell of both buffers of every PE    *)
(* always holds a value: nothing is read beyond the end of a buffer, no put  *)
(* goes to a PE that does not exist, and the program counters stay in range. *)
THEOREM MpiTypeCorrect == FittingPrograms /\ GroupsFit /\ Spec => []TypeOK
<1> SUFFICES ASSUME FittingPrograms, GroupsFit PROVE Spec => []TypeOK
  OBVIOUS
<1>1. TypeInv => TypeOK
  <2> SUFFICES ASSUME TypeInv PROVE TypeOK
    OBVIOUS
  <2>1. \A p \in PE : pc[p] \in Place(prog)
    BY DEF TypeInv, PlaceInv
  <2>2. \A p \in PE : pc[p].k \in 1 .. Len(prog) + 1 /\ pc[p].left \in 0 .. 4
    BY <2>1 DEF Place
  <2> QED BY <2>2 DEF TypeInv, PlaceInv, Memory, Sound, TypeOK
<1>2. Init => TypeInv
  BY TypeInvInit
<1>3. TypeInv /\ [Next]_vars => TypeInv'
  BY TypeInvNext
<1> QED
  BY <1>1, <1>2, <1>3, PTL DEF Spec

-----------------------------------------------------------------------------
(* The data on their way: the strengthening of the invariant.                *)
(*                                                                           *)
(* The library knows of a put only that it has been started; whether it has  *)
(* arrived depends on the barriers.  The invariants below say of every put   *)
(* that is on its way which call made it, what it carries and which barriers *)
(* its PE had ahead, so that it cannot be on its way when a PE has passed    *)
(* one of these; and of every block of data where it is kept until then.     *)

(* The points of a call: what a PE has left to do after a barrier of it.     *)
PointsOf(c) ==
  CASE c.op \in {"barrier", "iprobe"} -> {"return"}
    [] c.op = "bcast" -> {"move", "copy"}
    [] c.op \in {"allgather", "gather"} -> IF c.null THEN {} ELSE {"move", "copy"}
    [] c.op = "gatherv" -> IF c.null THEN {} ELSE IF Short(c, 0) THEN {"recvbuf", "check"}
                           ELSE {"recvbuf", "check", "move", "copy"}
    [] c.op \in {"isend", "irecv"} -> {"move"}
    [] c.op = "group_incl" -> {"group"}
    [] c.op \in {"comm_create", "comm_dup"} -> {"comm"}
    [] c.op = "comm_free" -> {"freed"}
    [] OTHER -> {}

Inside(c, x) ==
  /\ \/ x.at \in {"call", "barrier"} \cup PointsOf(c)
     \/ x.at = "spin" /\ c.op = "send"
     \/ x.at = "failed" /\ c.op \in {"group_incl", "comm_create", "comm_dup"}
  /\ x.at = "barrier" => x.then \in PointsOf(c)

(* A PE is at a point of the call it is in.                                  *)
PointInv == \A p \in PE : IF Done(p) THEN pc[p].at = "call" ELSE Inside(Call(p), pc[p])

-----------------------------------------------------------------------------
(* The call is a collective whose PEs put blocks between two barriers.       *)
Moving(c) ==
  \/ c.op = "bcast"
  \/ c.op \in {"allgather", "gather"} /\ ~c.null
  \/ c.op = "gatherv" /\ ~c.null /\ ~Short(c, 0)

(* The barriers ahead of a PE that has made the puts of call k.              *)
PutEpoch(pr, k) == (IF Moving(pr[k]) THEN {At(k, 1, "copy")} ELSE {}) \cup Later(pr, k + 1)

(* In the call PE p puts into the memory of PE q, into which area, where its *)
(* block starts, and how long it is.                                         *)
SendsTo(c, p, q) ==
  CASE c.op = "bcast" -> p = c.root /\ q # c.root
    [] c.op = "allgather" -> TRUE
    [] c.op \in {"gather", "gatherv"} -> q = c.root
    [] c.op = "send" -> p = c.from /\ q = c.to
    [] c.op = "isend" -> q = NextPe(p)
    [] OTHER -> FALSE

AreaOf(c) == IF c.op \in {"allgather", "gather"} THEN RecvArea(c) ELSE "lib"

Base(c, p) ==
  CASE c.op = "bcast" -> BcastDest(c)
    [] c.op \in {"allgather", "gather"} -> RecvAt(c) + p * Cells(c)
    [] c.op = "gatherv" -> Cells(c) + GetNumBytes(Displs(c)[p], c.type)
    [] OTHER -> 0

Block(c, p) == IF c.op = "gatherv" THEN GetNumBytes(c.recvcount[p + 1], c.type) ELSE Cells(c)

(* The put is of a call of the program and carries data of the call to the   *)
(* place where they belong.  A broadcast of 64-bit words and the elements of *)
(* MPI_Send may carry more, beyond the block.                                *)
Carries(m) ==
  LET c == prog[m.id]
  IN  /\ m.id \in DOMAIN prog /\ (Moving(c) \/ c.op \in {"send", "isend"})
      /\ m.src \in PE /\ m.to \in PE /\ SendsTo(c, m.src, m.to)
      /\ m.area = AreaOf(c) /\ m.at \in Int
      /\ \A i \in DOMAIN m.cells :
           LET x == m.at + i - Base(c, m.src)
           IN  /\ i \in Nat /\ x >= 0
               /\ x < Block(c, m.src) => m.cells[i] = Datum(m.id, m.src, x)
               /\ c.op \notin {"bcast", "send"} => x < Block(c, m.src)

(* No PE has passed a barrier since a put that is still on its way.          *)
WireInv == \A m \in wire :
  Carries(m) /\ \A p \in PE : Ahead(prog, pc[p]) = PutEpoch(prog, m.id)

(* Of the block that PE p puts into the memory of PE q in call k, every cell *)
(* is there or on its way.                                                   *)
There(k, p, q, x, z) == mem[q][AreaOf(prog[k])][z] = Datum(k, p, x)
OnTheWay(k, p, q, z) == \E m \in wire : m.id = k /\ m.src = p /\ m.to = q /\ z - m.at \in DOMAIN m.cells
Safe(k, p, q) == \A x \in 0 .. Block(prog[k], p) - 1 : \A z \in Int :
  z = Base(prog[k], p) + x => There(k, p, q, x, z) \/ OnTheWay(k, p, q, z)

(* PE p has made its puts of the collective call k.                          *)
HasMoved(p, k) ==
  \/ pc[p].k > k
  \/ pc[p].k = k /\ (pc[p].at = "copy" \/ (pc[p].at = "barrier" /\ pc[p].then = "copy"))

Holds(k, p, area, at) == \A x \in 0 .. Cells(prog[k]) - 1 : mem[p][area][at + x] = Datum(k, p, x)

(* While a PE is in call k, its data are where the call will read them: it   *)
(* has copied the caller's data into the buffer that all PEs put into.       *)
SourceAt(p, k, area, at) ==
  LET c == prog[k]
  IN  \/ c.op = "bcast" /\ p = c.root /\ area = "usr" /\ at = 0
      \/ c.op = "bcast" /\ p = c.root /\ ~c.symS /\ ~HasMoved(p, k) /\ area = "lib" /\ at = 0
      \/ c.op \in {"allgather", "gather"} /\ ~c.symS /\ ~HasMoved(p, k) /\ area = "lib" /\ at = 0
      \/ c.op = "gatherv" /\ ~HasMoved(p, k) /\ area = "lib" /\ at = 0
      \/ c.op = "isend" /\ ~c.symS /\ area = "lib" /\ at = Cells(c)

SourceInv == \A p \in PE : \A k \in DOMAIN prog :
  pc[p].k = k /\ pc[p].at # "call" =>
    \A area \in {"lib", "usr"}, at \in Int : SourceAt(p, k, area, at) => Holds(k, p, area, at)

(* What has been put in a collective is safe until the PE it belongs to has  *)
(* left the call.                                                            *)
MovedInv == \A k \in DOMAIN prog : \A p, q \in PE :
  Moving(prog[k]) /\ SendsTo(prog[k], p, q) /\ HasMoved(p, k) /\ pc[q].k = k => Safe(k, p, q)

(* A message is safe from MPI_Send to the MPI_Recv it is for.                *)
SentInv == \A j, r \in DOMAIN prog : Sent(prog, j, r) =>
  LET p == prog[j].from q == prog[j].to
  IN  (pc[p].k > j \/ (pc[p].k = j /\ pc[p].at = "spin")) /\ pc[q].k <= r => Safe(j, p, q)

(* The request of call j expects what the next PE's buffer holds, or will.   *)
Asked(j, p) ==
  LET c == prog[j]
  IN  /\ request[p].rank = NextPe(p) /\ request[p].last = c.count - 1
      /\ c.op = "isend" => Safe(j, p, NextPe(p)) /\ request[p].expected = Datum(j, p, c.count - 1)
      /\ c.op = "irecv" => request[p].expected = mem[NextPe(p)].lib[c.count - 1]

(* A request stays as it is from the call that makes it to its MPI_Test.     *)
RequestInv == \A j, t \in DOMAIN prog : Requested(prog, j, t) =>
  \A p \in PE : j < pc[p].k /\ pc[p].k <= t => Asked(j, p)

(* The area that is packed into; the field of call k is in it, and if it is  *)
(* the library's buffer the caller's has a copy, which MPI_Unpack stores     *)
(* into the library's buffer again.                                          *)
PackArea(c) == IF c.symS THEN "usr" ELSE "lib"

Kept(k, p, area, at) ==
  /\ Holds(k, p, area, at)
  /\ area = "lib" => \A x \in 0 .. Cells(prog[k]) - 1 : mem[p].usr[x] = mem[p].lib[x]

\* The position of field i of a session.
Offset(off, i) == off[i]

(* Before the call after the first i of a session the position is that of    *)
(* the next field, and all fields accepted so far are in the buffer.         *)
SessionAt(s, n, off, p, i) ==
  /\ pos[p] = Offset(off, IF i <= n THEN i ELSE i - n)
  /\ \A h \in 0 .. n - 1 :
       h < i /\ Accepted(prog, s, off, h) => Kept(s + h, p, PackArea(prog[s]), Offset(off, h))

SessionInv == \A s \in DOMAIN prog, n \in 1 .. Len(prog) : \A off \in [0 .. n -> Nat] :
  Session(prog, s, n, off) => \A p \in PE : \A i \in 1 .. n + n - 1 :
    pc[p].k = s + i => SessionAt(s, n, off, p, i)

-----------------------------------------------------------------------------
(* The barriers that puts have ahead.                                        *)

(* A call's first barrier is among those the calls from an earlier one on    *)
(* start with.                                                               *)
LEMMA EntryLater ==
  ASSUME NEW pr \in Programs, NEW k \in Nat, NEW a \in DOMAIN pr, k <= a
  PROVE  Entry(pr, a) \subseteq Later(pr, k)
<1>1. a \in k .. Len(pr)
  BY ProgFacts
<1> QED
  BY <1>1 DEF Later

(* The barriers ahead of a later call are those of the calls from it on.     *)
LEMMA LaterPart ==
  ASSUME NEW pr \in Programs, NEW a \in Nat, NEW b \in Nat, a <= b
  PROVE  Later(pr, b) = {x \in Later(pr, a) : x.k >= b}
<1>1. Len(pr) \in Nat
  BY ProgFacts
<1>2. ASSUME NEW x \in Later(pr, b) PROVE x \in Later(pr, a) /\ x.k >= b
  <2>1. b .. Len(pr) \subseteq a .. Len(pr)
    BY <1>1
  <2>2. x \in Later(pr, a)
    BY <2>1 DEF Later
  <2> QED BY <2>2, LaterPlace
<1>3. ASSUME NEW x \in Later(pr, a), x.k >= b PROVE x \in Later(pr, b)
  <2>1. PICK j \in a .. Len(pr) : x \in Entry(pr, j)
    BY DEF Later
  <2>2. x.k = j
    BY <2>1, EntryPlace
  <2>3. j \in b .. Len(pr)
    BY <1>1, <1>3, <2>1, <2>2
  <2> QED BY <2>1, <2>3 DEF Later
<1> QED
  BY <1>2, <1>3

(* A call in which all PEs meet starts with a barrier.                       *)
LEMMA EntryMeets ==
  ASSUME NEW pr, NEW k, Meets(pr[k])
  PROVE  Entry(pr, k) # {}
BY DEF Meets, Entry

(* A call in which the PEs do not meet has no barrier.                       *)
LEMMA NoEntry ==
  ASSUME NEW pr, NEW k, ~Meets(pr[k])
  PROVE  Entry(pr, k) = {}
BY DEF Meets, Entry

(* Two calls between which nothing is ahead that is not ahead after them are *)
(* not separated by a barrier.                                               *)
LEMMA AdjacentEpochs ==
  ASSUME NEW pr \in Programs, NEW j \in DOMAIN pr, NEW k \in DOMAIN pr, j < k
  PROVE  Adjacent(pr, j, k) <=> Later(pr, j + 1) = Later(pr, k)
<1>1. /\ Len(pr) \in Nat /\ DOMAIN pr = 1 .. Len(pr) /\ j \in Nat /\ k \in Nat /\ j + 1 \in Nat
      /\ j + 1 <= k
  BY ProgFacts
<1>2. ASSUME Later(pr, j + 1) = Later(pr, k), NEW i \in j + 1 .. k - 1 PROVE ~Meets(pr[i])
  <2> SUFFICES ASSUME Meets(pr[i]) PROVE FALSE
    OBVIOUS
  <2>1. PICK e : e \in Entry(pr, i)
    BY EntryMeets
  <2>2. i \in DOMAIN pr /\ j + 1 <= i /\ i < k /\ i \in Nat
    BY <1>1
  <2>3. e \in Later(pr, k)
    BY <1>1, <1>2, <2>1, <2>2, EntryLater
  <2>4. e.k >= k /\ e.k = i
    BY <1>1, <2>1, <2>3, LaterPlace, EntryPlace
  <2> QED BY <1>1, <2>2, <2>4
<1>3. ASSUME Adjacent(pr, j, k) PROVE Later(pr, j + 1) \subseteq Later(pr, k)
  <2> SUFFICES ASSUME NEW e \in Later(pr, j + 1) PROVE e \in Later(pr, k)
    OBVIOUS
  <2>1. PICK i \in j + 1 .. Len(pr) : e \in Entry(pr, i)
    BY DEF Later
  <2>2. Meets(pr[i])
    BY <2>1, NoEntry
  <2>3. i \in k .. Len(pr)
    BY <1>1, <1>3, <2>1, <2>2 DEF Adjacent
  <2> QED BY <2>1, <2>3 DEF Later
<1>4. Later(pr, k) \subseteq Later(pr, j + 1)
  BY <1>1, LaterPart
<1> QED
  BY <1>2, <1>3, <1>4 DEF Adjacent

(* What is ahead of a place in call k, and what is ahead when the puts of    *)
(* call k have left.                                                         *)
LEMMA AheadParts ==
  ASSUME NEW pr \in Programs, NEW x \in Place(pr)
  PROVE  /\ x.k \in Nat /\ Ahead(pr, x) = Here(pr, x) \cup Later(pr, x.k + 1)
         /\ \A b \in Here(pr, x) : b.k = x.k
         /\ \A b \in Ahead(pr, x) : b.k \in Nat /\ b.k >= x.k
         /\ \A b \in Later(pr, x.k + 1) : b.k > x.k
<1>1. x.k \in Nat
  BY ProgFacts DEF Place
<1>2. \A b \in Here(pr, x) : b.k = x.k
  <2>1. \A b \in Middle(pr, x.k, x.at) : b.k = x.k
    BY DEF Middle, At
  <2>2. \A b \in Entry(pr, x.k) : b.k = x.k
    BY EntryPlace
  <2> QED BY <2>1, <2>2 DEF Here
<1>3. \A b \in Later(pr, x.k + 1) : b.k \in Nat /\ b.k >= x.k + 1
  BY <1>1, LaterPlace
<1> QED
  BY <1>1, <1>2, <1>3 DEF Ahead

(* The barriers ahead of a PE that has made the puts of a call.              *)
LEMMA PutEpochParts ==
  ASSUME NEW pr \in Programs, NEW a \in DOMAIN pr
  PROVE  /\ a \in Nat
         /\ \A b \in PutEpoch(pr, a) : b.k \in Nat /\ b.k >= a
         /\ \A b \in PutEpoch(pr, a) : b.k = a => b = At(a, 1, "copy") /\ Moving(pr[a])
         /\ \A b \in PutEpoch(pr, a) : b.k > a => b \in Later(pr, a + 1)
         /\ Later(pr, a + 1) \subseteq PutEpoch(pr, a)
         /\ Moving(pr[a]) => At(a, 1, "copy") \in PutEpoch(pr, a)
<1>1. a \in Nat
  BY ProgFacts
<1>2. \A b \in Later(pr, a + 1) : b.k \in Nat /\ b.k >= a + 1
  BY <1>1, LaterPlace
<1>3. At(a, 1, "copy").k = a
  BY DEF At
<1> QED
  BY <1>1, <1>2, <1>3 DEF PutEpoch

(* No call starts with the barrier that ends its puts.                       *)
LEMMA EntryNotCopy ==
  ASSUME NEW pr, NEW k
  PROVE  At(k, 1, "copy") \notin Entry(pr, k)
<1>1. \A n, then : then # "copy" => At(k, 1, "copy") # At(k, n, then)
  BY DEF At
<1>2. /\ At(k, 1, "copy") # At(k, 1, "return") /\ At(k, 1, "copy") # At(k, 1, "move")
      /\ At(k, 1, "copy") # At(k, 1, "recvbuf") /\ At(k, 1, "copy") # At(k, 1, "group")
      /\ At(k, 1, "copy") # At(k, CommAllocations, "comm") /\ At(k, 1, "copy") # At(k, 3, "freed")
  BY <1>1
<1> QED
  BY <1>2, Zenon DEF Entry

(* A call whose puts are on their way later than call k has no barrier of    *)
(* its own ahead of call k.                                                  *)
LEMMA LaterPuts ==
  ASSUME NEW pr \in Programs, NEW k \in Nat, NEW a \in DOMAIN pr, k <= a,
         PutEpoch(pr, a) = Later(pr, k)
  PROVE  ~Meets(pr[a]) /\ ~Moving(pr[a]) /\ Later(pr, k) = Later(pr, a + 1)
<1>1. Entry(pr, a) \subseteq PutEpoch(pr, a)
  BY EntryLater
<1>2. \A e \in Entry(pr, a) : e.k = a
  BY EntryPlace
<1>3. \A e \in Entry(pr, a) : e = At(a, 1, "copy")
  BY <1>1, <1>2, PutEpochParts
<1>4. Entry(pr, a) = {}
  BY <1>3, EntryNotCopy
<1>5. ~Meets(pr[a])
  BY <1>4, EntryMeets
<1>6. ~Moving(pr[a])
  BY <1>5 DEF Moving, Meets
<1> QED
  BY <1>5, <1>6 DEF PutEpoch

(* The put of call a can still be on its way to q. *)
Reaches(c, q) == Moving(c) \/ Travels(c, q)

(* A PE is in call k and a put of an earlier call is on its way: then no     *)
(* barrier lies between the two.                                             *)
LEMMA EarlierPuts ==
  ASSUME NEW pr \in Programs, NEW x \in Place(pr), NEW a \in DOMAIN pr, a < x.k,
         Ahead(pr, x) = PutEpoch(pr, a)
  PROVE  /\ ~Moving(pr[a])
         /\ Later(pr, a + 1) = Later(pr, x.k)
         /\ Ahead(pr, x) = Later(pr, x.k)
<1>1. x.k \in Nat /\ a \in Nat /\ a + 1 <= x.k /\ a + 1 \in Nat
  BY AheadParts, ProgFacts
<1>2. ~Moving(pr[a])
  <2> SUFFICES ASSUME Moving(pr[a]) PROVE FALSE
    OBVIOUS
  <2>1. At(a, 1, "copy") \in Ahead(pr, x) /\ At(a, 1, "copy").k = a
    BY PutEpochParts DEF At
  <2> QED BY <1>1, <2>1, AheadParts
<1>3. Ahead(pr, x) = Later(pr, a + 1)
  BY <1>2 DEF PutEpoch
<1>4. Later(pr, x.k) = {b \in Later(pr, a + 1) : b.k >= x.k}
  BY <1>1, LaterPart
<1>5. Later(pr, x.k) = Ahead(pr, x)
  BY <1>3, <1>4, AheadParts
<1> QED
  BY <1>2, <1>3, <1>5

(* Puts of a later call are on their way only if no barrier is in between.   *)
LEMMA LaterSends ==
  ASSUME NEW pr \in Programs, NEW x \in Place(pr), NEW a \in DOMAIN pr, x.k < a,
         Ahead(pr, x) = PutEpoch(pr, a)
  PROVE  ~Meets(pr[a]) /\ ~Moving(pr[a]) /\ Later(pr, x.k + 1) = Later(pr, a)
<1>1. x.k \in Nat /\ a \in Nat /\ x.k + 1 <= a /\ x.k + 1 \in Nat
  BY AheadParts, ProgFacts
<1>2. Here(pr, x) = {}
  BY <1>1, AheadParts, PutEpochParts
<1>3. PutEpoch(pr, a) = Later(pr, x.k + 1)
  BY <1>2, AheadParts
<1>4. ~Meets(pr[a]) /\ ~Moving(pr[a]) /\ Later(pr, x.k + 1) = Later(pr, a + 1)
  BY <1>1, <1>3, LaterPuts
<1>5. a <= Len(pr) /\ Later(pr, a) = Entry(pr, a) \cup Later(pr, a + 1)
  BY <1>1, ProgFacts, LaterPlace
<1>6. Entry(pr, a) = {}
  BY <1>4, NoEntry
<1> QED
  BY <1>4, <1>5, <1>6

(* The one call without a barrier that puts is MPI_Send.                     *)
LEMMA TravelsCalls ==
  ASSUME NEW c, NEW q, Reaches(c, q), ~Meets(c)
  PROVE  c.op = "send" /\ c.to = q /\ Travels(c, q)
BY DEF Reaches, Moving, Travels, Meets

(* While a PE is in call k, the only puts on their way to memory that the    *)
(* call needs are its own.                                                   *)
LEMMA Undisturbed ==
  ASSUME NEW pr \in Programs, Separated(pr), NEW x \in Place(pr), x.k \in DOMAIN pr,
         NEW a \in DOMAIN pr, NEW q \in PE, Needs(pr[x.k], q), Reaches(pr[a], q),
         Ahead(pr, x) = PutEpoch(pr, a)
  PROVE  a = x.k
<1>1. x.k \in Nat /\ a \in Nat
  BY AheadParts, ProgFacts
<1>2. CASE a < x.k
  <2>1. Adjacent(pr, a, x.k) /\ ~Moving(pr[a])
    BY <1>2, EarlierPuts, AdjacentEpochs
  <2> QED BY <2>1 DEF Separated, Reaches
<1>3. CASE x.k < a
  <2>1. ~Meets(pr[a]) /\ Adjacent(pr, x.k, a)
    BY <1>3, LaterSends, AdjacentEpochs
  <2> QED BY <2>1, TravelsCalls DEF Separated
<1> QED
  BY <1>1, <1>2, <1>3

(* The same while a message that call j sent to q waits for call r. *)
LEMMA Window ==
  ASSUME NEW pr \in Programs, Separated(pr), NEW x \in Place(pr), NEW j \in DOMAIN pr, NEW r \in DOMAIN pr,
         j <= x.k, x.k <= r, NEW a \in DOMAIN pr, NEW q \in PE,
         Needs(pr[j], q), Needs(pr[r], q), \A i \in j + 1 .. r - 1 : Still(pr[i], q),
         Reaches(pr[a], q), Ahead(pr, x) = PutEpoch(pr, a)
  PROVE  a = j \/ a = r
<1>1. x.k \in Nat /\ a \in Nat /\ j \in Nat /\ r \in Nat /\ DOMAIN pr = 1 .. Len(pr) /\ Len(pr) \in Nat
  BY AheadParts, ProgFacts
<1>2. CASE x.k = j \/ x.k = r
  BY <1>2, Undisturbed
<1>3. CASE j < x.k /\ x.k < r
  <2>1. ASSUME a < j PROVE FALSE
    <3>1. Later(pr, a + 1) = Later(pr, x.k) /\ ~Moving(pr[a])
      BY <1>1, <1>3, <2>1, EarlierPuts
    <3>2. /\ Later(pr, j) = {b \in Later(pr, a + 1) : b.k >= j}
          /\ \A b \in Later(pr, x.k) : b.k \in Nat /\ b.k >= x.k
      BY <1>1, <2>1, LaterPart, LaterPlace
    <3>3. Later(pr, j) = Later(pr, a + 1)
      BY <1>1, <1>3, <3>1, <3>2
    <3>4. Adjacent(pr, a, j)
      BY <2>1, <3>3, AdjacentEpochs
    <3> QED BY <3>1, <3>4 DEF Separated, Reaches
  <2>2. ASSUME j < a, a < r PROVE FALSE
    <3>1. Still(pr[a], q)
      BY <1>1, <2>2
    <3> QED BY <3>1 DEF Still, Reaches, Moving, Travels
  <2>3. ASSUME r < a PROVE FALSE
    <3>1. ~Meets(pr[a]) /\ Later(pr, x.k + 1) = Later(pr, a)
      BY <1>1, <1>3, <2>3, LaterSends
    <3>2. /\ Later(pr, r + 1) = {b \in Later(pr, x.k + 1) : b.k >= r + 1}
          /\ \A b \in Later(pr, a) : b.k \in Nat /\ b.k >= a
      BY <1>1, <1>3, LaterPart, LaterPlace
    <3>3. Later(pr, r + 1) = Later(pr, a)
      <4>1. \A b \in Later(pr, a) : b.k >= r + 1
        BY <1>1, <2>3, <3>2
      <4> QED BY <3>1, <3>2, <4>1
    <3>4. Adjacent(pr, r, a)
      BY <2>3, <3>3, AdjacentEpochs
    <3> QED BY <3>1, <3>4, TravelsCalls DEF Separated
  <2> QED BY <1>1, <2>1, <2>2, <2>3
<1> QED
  BY <1>1, <1>2, <1>3

(* A step returns from the call, waits for a message, or enters a barrier of *)
(* the call.                                                                 *)
LEMMA StepPoints ==
  ASSUME UniformPrograms, BarrierInv, PointInv, NEW p \in PE, Step(p)
  PROVE  \/ Return(p)
         \/ Goto(p, "spin") /\ Call(p).op = "send"
         \/ \E n \in 0 .. 4 : \E then \in PointsOf(Call(p)) : Barrier(p, n, then)
<1>0. {1, 3, CommAllocations} \subseteq 0 .. 4 /\ Inside(Call(p), pc[p])
  BY DEF CommAllocations, PointInv, Step
<1>1. CASE Collective(p)
  <2>1. \/ Return(p)
        \/ \E then \in PointsOf(Call(p)) : Barrier(p, 1, then)
    <3>1. CASE MPI_Barrier(p) \/ MPI_Iprobe(p)
      BY <3>1 DEF MPI_Barrier, MPI_Iprobe, In, PointsOf
    <3>2. CASE BarrierReturn(p) \/ GatherNull(p) \/ BcastCopy(p) \/ GatherCopy(p) \/ GathervCopy(p)
      BY <3>2 DEF BarrierReturn, GatherNull, BcastCopy, GatherCopy, GathervCopy
    <3>3. CASE BcastEnter(p) \/ BcastMove(p)
      BY <3>3 DEF BcastEnter, BcastMove, In, PointsOf
    <3>4. CASE GatherEnter(p)
      BY <3>4 DEF GatherEnter, PointsOf
    <3>5. CASE AllgatherMove(p) \/ GatherMove(p)
      <4>1. Call(p).op \in {"allgather", "gather"} /\ pc[p].at = "move" /\ Barrier(p, 1, "copy")
        BY <3>5 DEF AllgatherMove, GatherMove, In
      <4>2. "move" \in PointsOf(Call(p))
        BY <1>0, <4>1 DEF Inside
      <4> QED BY <4>1, <4>2 DEF PointsOf
    <3>6. CASE GathervEnter(p)
      BY <3>6 DEF GathervEnter, In, PointsOf
    <3>7. CASE GathervRecvBuf(p) \/ GathervMove(p)
      <4>1. /\ Call(p).op = "gatherv" /\ pc[p].at \in {"recvbuf", "move"}
            /\ Barrier(p, 1, IF pc[p].at = "move" THEN "copy" ELSE "check")
        BY <3>7 DEF GathervRecvBuf, GathervMove, In
      <4>2. pc[p].at \in PointsOf(Call(p))
        BY <1>0, <4>1 DEF Inside
      <4> QED BY <4>1, <4>2 DEF PointsOf
    <3>8. CASE GathervCheck(p)
      <4>1. Call(p).op = "gatherv" /\ pc[p].at = "check" /\ (Return(p) \/ (~SizeError(p) /\ Barrier(p, 1, "move")))
        BY <3>8 DEF GathervCheck, In
      <4>2. pc[p].at \in PointsOf(Call(p))
        BY <1>0, <4>1 DEF Inside
      <4>3. SizeError(p) <=> Short(Call(p), 0)
        <5>1. prog \in Programs /\ pc[p].k \in DOMAIN prog
          BY PlaceOf DEF Step
        <5>2. UniformCall(Call(p))
          BY <5>1 DEF UniformPrograms, Call
        <5> QED BY <4>1, <5>2, PeFacts DEF UniformCall, SizeError, Short
      <4> QED BY <4>1, <4>2, <4>3 DEF PointsOf
    <3> QED BY <1>1, <3>1, <3>2, <3>3, <3>4, <3>5, <3>6, <3>7, <3>8 DEF Collective
  <2> QED BY <1>0, <2>1
<1>2. CASE PointToPoint(p)
  <2>1. Return(p) \/ (Goto(p, "spin") /\ Call(p).op = "send")
        \/ (Barrier(p, 1, "move") /\ Call(p).op \in {"isend", "irecv"})
    BY <1>2 DEF PointToPoint, NotMine, MPI_SendByValue, MPI_SendFlagged, SendReturn, MPI_Recv,
                IsendEnter, IsendMove, IrecvEnter, IrecvMove, MPI_Test, In
  <2> QED BY <1>0, <2>1 DEF PointsOf
<1>3. CASE Management(p)
  <2>1. \/ Return(p) \/ (Barrier(p, 1, "group") /\ Call(p).op = "group_incl")
        \/ (Barrier(p, 3, "freed") /\ Call(p).op = "comm_free")
        \/ (Barrier(p, CommAllocations, "comm") /\ Call(p).op \in {"comm_create", "comm_dup"})
    BY <1>3 DEF Management, GroupEnter, MPI_Group_incl, CommEnter, HeapReturn, MPI_Comm_create,
                MPI_Comm_dup, CommFreeEnter, MPI_Comm_free, MPI_Comm_rank, In
  <2> QED BY <1>0, <2>1 DEF PointsOf
<1>4. CASE Packing(p)
  BY <1>4 DEF Packing, PackNoSpace, MPI_Pack, MPI_Unpack
<1> QED
  BY <1>1, <1>2, <1>3, <1>4 DEF Step

(* The same as the place the PE goes to. *)
LEMMA StepTo ==
  ASSUME UniformPrograms, BarrierInv, PointInv, NEW p \in PE, Step(p)
  PROVE  /\ prog' = prog
         /\ \A q \in PE \ {p} : pc'[q] = pc[q]
         /\ \/ pc'[p].k = pc[p].k + 1 /\ pc'[p].at = "call"
            \/ pc'[p].k = pc[p].k /\ pc'[p].at = "spin" /\ Call(p).op = "send"
            \/ pc'[p].k = pc[p].k /\ pc'[p].at = "barrier" /\ pc'[p].then \in PointsOf(Call(p))
<1>1. /\ pc \in [PE -> Place(prog)] /\ \A q \in PE : pc[q] \in Place(prog)
  BY DEF BarrierInv, PlaceInv
<1>2. prog' = prog
  BY StepMoves
<1>3. CASE Return(p)
  BY <1>1, <1>2, <1>3 DEF Return
<1>4. CASE Goto(p, "spin") /\ Call(p).op = "send"
  <2>1. pc[p] \in Place(prog)
    BY <1>1
  <2>2. [pc[p] EXCEPT !.at = "spin"].k = pc[p].k /\ [pc[p] EXCEPT !.at = "spin"].at = "spin"
    BY <2>1 DEF Place
  <2>3. pc' = [pc EXCEPT ![p] = [pc[p] EXCEPT !.at = "spin"]]
    BY <1>1, <1>4 DEF Goto
  <2> QED BY <1>1, <1>2, <1>4, <2>2, <2>3
<1>5. ASSUME NEW n, NEW then \in PointsOf(Call(p)), Barrier(p, n, then)
      PROVE  /\ \A q \in PE \ {p} : pc'[q] = pc[q]
             /\ pc'[p].k = pc[p].k /\ pc'[p].at = "barrier" /\ pc'[p].then = then
  <2> DEFINE x == [pc[p] EXCEPT !.at = "barrier", !.left = n, !.then = then]
  <2>1. pc[p] \in Place(prog)
    BY <1>1
  <2>2. x.k = pc[p].k /\ x.at = "barrier" /\ x.then = then
    BY <2>1 DEF Place
  <2>3. pc' = [pc EXCEPT ![p] = x]
    BY <1>1, <1>5 DEF Barrier
  <2> HIDE DEF x
  <2> QED BY <1>1, <2>2, <2>3
<1> QED
  BY <1>2, <1>3, <1>4, <1>5, StepPoints

(* Where the PEs go to when a barrier opens or an allocation fails. *)
LEMMA BarrierTo ==
  ASSUME BarrierInv, PointInv, BarrierAll \/ HeapFull, NEW p \in PE
  PROVE  /\ prog' = prog /\ pc'[p].k = pc[p].k /\ pc[p].at = "barrier" /\ ~Done(p)
         /\ wire = {} /\ wire' = {} /\ mem' = mem
         /\ UNCHANGED <<sendInfo, request, pos, group, comms, got>>
         /\ \/ pc'[p].at = "barrier" /\ pc'[p].then = pc[p].then
            \/ pc'[p].at = pc[p].then
            \/ pc'[p].at = "failed" /\ pc[p].then \in {"comm", "group"}
<1>1. /\ prog' = prog /\ pc'[p].k = pc[p].k /\ pc[p].at = "barrier"
  BY BarrierAllPlaces
<1>2. ~Done(p)
  BY <1>1 DEF PointInv
<1>3. /\ wire = {} /\ wire' = {} /\ mem' = mem /\ UNCHANGED <<sendInfo, request, pos, group, comms, got>>
  BY DEF BarrierAll, HeapFull, Quiet, callVars
<1>4. /\ \/ pc'[p].at = "barrier" /\ pc'[p].then = pc[p].then
         \/ pc'[p].at = pc[p].then
         \/ pc'[p].at = "failed" /\ pc[p].then \in {"comm", "group"}
  <2>1. pc[p] \in Place(prog)
    BY DEF BarrierInv, PlaceInv
  <2>2. pc[p].left > 1 => [pc[p] EXCEPT !.left = @ - 1].at = pc[p].at /\ [pc[p] EXCEPT !.left = @ - 1].then = pc[p].then
    BY <2>1 DEF Place
  <2>3. [pc[p] EXCEPT !.at = pc[p].then, !.left = 0].at = pc[p].then
    BY <2>1 DEF Place
  <2>4. [pc[p] EXCEPT !.at = "failed", !.left = 0].at = "failed"
    BY <2>1 DEF Place
  <2>5. CASE BarrierAll
    <3>1. pc'[p] = IF pc[p].left > 1 THEN [pc[p] EXCEPT !.left = @ - 1]
                   ELSE [pc[p] EXCEPT !.at = pc[p].then, !.left = 0]
      BY <2>5 DEF BarrierAll
    <3> QED BY <1>1, <2>2, <2>3, <3>1
  <2>6. CASE HeapFull
    <3>1. pc'[p] = [pc[p] EXCEPT !.at = "failed", !.left = 0] /\ pc[p].then \in {"comm", "group"}
      BY <2>6 DEF HeapFull
    <3> QED BY <2>4, <3>1
  <2> QED BY <2>5, <2>6
<1> QED
  BY <1>1, <1>2, <1>3, <1>4

LEMMA PointInvInit == Init => PointInv
BY DEF Init, PointInv, Inside

(* Every step leaves a PE at a point of its call.                            *)
LEMMA PointInvNext ==
  ASSUME UniformPrograms, BarrierInv, PointInv, [Next]_vars
  PROVE  PointInv'
<1>0. \A p \in PE : IF Done(p) THEN pc[p].at = "call" ELSE Inside(Call(p), pc[p])
  BY DEF PointInv
<1>1. CASE \E p \in PE : Step(p)
  <2>1. PICK p \in PE : Step(p)
    BY <1>1
  <2>2. prog' = prog /\ ~Done(p) /\ \A q \in PE \ {p} : pc'[q] = pc[q]
    BY <2>1, StepTo DEF Step
  <2>3. ASSUME NEW q \in PE \ {p}
        PROVE  IF Done(q)' THEN pc'[q].at = "call" ELSE Inside(Call(q), pc[q])'
    <3>1. pc'[q] = pc[q]
      BY <2>2
    <3> QED BY <1>0, <2>2, <3>1 DEF Done, Call
  <2>4. IF Done(p)' THEN pc'[p].at = "call" ELSE Inside(Call(p), pc[p])'
    <3>1. CASE pc'[p].k = pc[p].k + 1 /\ pc'[p].at = "call"
      BY <3>1 DEF Inside
    <3>2. CASE pc'[p].k = pc[p].k
      <4>1. ~Done(p)' /\ Call(p)' = Call(p)
        BY <2>2, <3>2 DEF Done, Call
      <4>2. Inside(Call(p), pc'[p])
        BY <2>1, <3>2, StepTo DEF Inside
      <4> QED BY <4>1, <4>2 DEF Inside, PointsOf, Short
    <3> QED BY <2>1, <3>1, <3>2, StepTo
  <2> QED BY <2>3, <2>4 DEF PointInv
<1>2. CASE BarrierAll \/ HeapFull
  <2> SUFFICES ASSUME NEW p \in PE
               PROVE  IF Done(p)' THEN pc'[p].at = "call" ELSE Inside(Call(p), pc[p])'
    BY DEF PointInv
  <2>1. /\ prog' = prog /\ pc'[p].k = pc[p].k /\ pc[p].at = "barrier" /\ ~Done(p)
        /\ \/ pc'[p].at = "barrier" /\ pc'[p].then = pc[p].then
           \/ pc'[p].at = pc[p].then
           \/ pc'[p].at = "failed" /\ pc[p].then \in {"comm", "group"}
    BY <1>2, BarrierTo
  <2>2. ~Done(p)' /\ Call(p)' = Call(p)
    BY <2>1 DEF Done, Call
  <2>3. Inside(Call(p), pc[p]) /\ pc[p].then \in PointsOf(Call(p))
    BY <1>0, <2>1 DEF Inside
  <2>4. pc[p].then \notin {"barrier", "call"}
    BY <2>3 DEF PointsOf
  <2>5. pc[p].then \in {"comm", "group"} => Call(p).op \in {"group_incl", "comm_create", "comm_dup"}
    BY <2>3 DEF PointsOf
  <2>6. Inside(Call(p), pc'[p])
    BY <2>1, <2>3, <2>4, <2>5 DEF Inside
  <2> QED BY <2>2, <2>6 DEF Inside, PointsOf, Short
<1>3. CASE Arrival \/ UNCHANGED vars
  <2>1. UNCHANGED <<pc, prog>>
    BY <1>3 DEF Arrival, vars, callVars
  <2> QED BY <1>0, <2>1, ZenonT(30) DEF PointInv, Done, Call, Inside, PointsOf, Short
<1> QED
  BY <1>1, <1>2, <1>3 DEF Next

-----------------------------------------------------------------------------
(* The blocks of a collective. *)

(* What is known of the call PE p is in. *)
LEMMA InCall ==
  ASSUME BarrierInv, NEW p \in PE, ~Done(p)
  PROVE  /\ pc[p].k \in DOMAIN prog /\ pc[p].k \in Nat /\ Call(p) = prog[pc[p].k] /\ prog \in Programs
         /\ pc[p] \in Place(prog)
BY PlaceOf DEF Call

(* A PE that is at the puts of a collective, or past them, moves data in it. *)
LEMMA MovingAt ==
  ASSUME PointInv, NEW p \in PE, ~Done(p), pc[p].at \in {"move", "copy"},
         Call(p).op \in {"bcast", "allgather", "gather", "gatherv"}
  PROVE  Moving(Call(p))
<1>1. Inside(Call(p), pc[p])
  BY DEF PointInv
<1>2. pc[p].at \in PointsOf(Call(p))
  BY <1>1 DEF Inside
<1> QED
  BY <1>2 DEF PointsOf, Moving

(* Arithmetic of block sizes.                                                *)
LEMMA TimesNat == \A a, b \in Nat : a * b \in Nat
OBVIOUS

LEMMA TimesOrder ==
  ASSUME NEW a \in Nat, NEW b \in Nat, NEW w \in Nat, a <= b
  PROVE  a * w <= b * w
<1>1. PICK d \in Nat : b = a + d
  <2>1. b - a \in Nat /\ b = a + (b - a)
    OBVIOUS
  <2> QED BY <2>1
<1>2. b * w = a * w + d * w /\ d * w \in Nat /\ a * w \in Nat
  BY <1>1
<1> QED
  BY <1>2

(* The place of a PE's block is within the buffer it is put into.            *)
LEMMA BlockPlace ==
  ASSUME NEW c, UniformCall(c), FittingCall(c), MovesBlocks(c), Moving(c) \/ c.op \in {"send", "isend"}, NEW p \in PE
  PROVE  /\ Base(c, p) \in Nat /\ Block(c, p) \in Nat
         /\ c.op = "gatherv" => Base(c, p) >= Cells(c) /\ Block(c, p) <= Cells(c)
         /\ c.op \in {"allgather", "gather"} => Base(c, p) = RecvAt(c) + p * Cells(c) /\ p * Cells(c) \in Nat
         /\ c.op # "gatherv" => Block(c, p) = Cells(c)
<1>1. /\ Cells(c) \in Nat /\ GetBufferOffset(c) = Cells(c) /\ c.count \in Nat /\ p \in Nat
      /\ Cells(c) = c.count * Width[c.type] /\ Width[c.type] \in Nat
  BY CellsType, PeFacts
<1>2. CASE c.op = "gatherv"
  <2>1. ~Short(c, 0)
    BY <1>2 DEF Moving
  <2>2. /\ c.recvcount[p + 1] \in Nat /\ GetNumBytes(Displs(c)[p], c.type) \in Nat
    BY <1>2, <2>1 DEF FittingCall, FitsCollective, MovesBlocks
  <2>3. GetNumBytes(c.recvcount[p + 1], c.type) \in Nat
    BY <1>1, <2>2, TimesNat DEF GetNumBytes
  <2>4. c.recvcount[p + 1] <= c.count
    <3>1. ~Short(c, p)
      BY <1>2, <2>1, PeFacts DEF UniformCall
    <3> QED BY <1>1, <2>2, <3>1 DEF Short
  <2>5. GetNumBytes(c.recvcount[p + 1], c.type) <= Cells(c)
    BY <1>1, <2>2, <2>4, TimesOrder DEF GetNumBytes
  <2> QED BY <1>1, <1>2, <2>2, <2>3, <2>5 DEF Base, Block
<1>3. CASE c.op \in {"allgather", "gather"}
  <2>1. p * Cells(c) \in Nat
    BY <1>1, TimesNat
  <2>2. RecvAt(c) \in Nat
    BY <1>1 DEF RecvAt
  <2> QED BY <1>1, <1>3, <2>1, <2>2 DEF Base, Block
<1>4. CASE c.op \in {"bcast", "send", "isend"}
  BY <1>1, <1>4 DEF Base, Block, BcastDest
<1> QED
  BY <1>2, <1>3, <1>4 DEF Moving

(* A block of the right data carries the data of the call. *)
LEMMA CarriesPut ==
  ASSUME NEW k \in DOMAIN prog, NEW p \in PE, NEW q \in PE, SendsTo(prog[k], p, q),
         Moving(prog[k]) \/ prog[k].op \in {"send", "isend"},
         NEW at \in Int, NEW n, NEW cells, DOMAIN cells = 0 .. n - 1,
         \A i \in 0 .. n - 1 :
           LET x == at + i - Base(prog[k], p)
           IN  /\ x >= 0
               /\ x < Block(prog[k], p) => cells[i] = Datum(k, p, x)
               /\ prog[k].op \notin {"bcast", "send"} => x < Block(prog[k], p),
         NEW area, area = AreaOf(prog[k])
  PROVE  Carries(PutTo(p, q, area, at, cells, k))
<1> DEFINE m == PutTo(p, q, area, at, cells, k)
<1>1. /\ m.id = k /\ m.src = p /\ m.to = q /\ m.area = area /\ m.at = at /\ m.cells = cells
  BY DEF PutTo
<1>2. \A i \in 0 .. n - 1 : i \in Nat
  OBVIOUS
<1> HIDE DEF m
<1> QED
  BY <1>1, <1>2 DEF Carries, m

(* What GoodCalls says of one call.                                          *)
Sane(c) == UniformCall(c) /\ FittingCall(c) /\ MovesBlocks(c)

(* The conditions hold of every call.                                        *)
LEMMA SaneCall ==
  ASSUME GoodCalls, NEW pr \in Programs, NEW k \in DOMAIN pr
  PROVE  Sane(pr[k])
BY DEF GoodCalls, Sane, UniformPrograms, FittingPrograms, BlockPrograms

(* The cells of a slice.                                                     *)
LEMMA SliceCell ==
  ASSUME NEW area, NEW from, NEW n, NEW i \in 0 .. n - 1
  PROVE  DOMAIN Slice(area, from, n) = 0 .. n - 1 /\ Slice(area, from, n)[i] = area[from + i]
BY DEF Slice

LEMMA SliceDomain ==
  ASSUME NEW area, NEW from, NEW n
  PROVE  DOMAIN Slice(area, from, n) = 0 .. n - 1
BY DEF Slice

(* PE p holds its data at the start of an area: what it sends is right. *)
LEMMA HoldsPrefix ==
  ASSUME NEW k, NEW p, NEW area, Holds(k, p, area, 0), NEW n, NEW i \in 0 .. n - 1, i < Cells(prog[k]),
         Cells(prog[k]) \in Nat
  PROVE  Slice(mem[p][area], 0, n)[i] = Datum(k, p, i)
<1>1. i \in 0 .. Cells(prog[k]) - 1 /\ 0 + i = i
  OBVIOUS
<1>2. Slice(mem[p][area], 0, n)[i] = mem[p][area][0 + i]
  BY SliceCell
<1> QED
  BY <1>1, <1>2 DEF Holds

(* The put of MPI_Bcast carries the root's data.                             *)
LEMMA BcastCarries ==
  ASSUME GoodCalls, BarrierInv, TypeInv, PointInv, SourceInv, NEW p \in PE, ~Done(p), BcastMove(p)
  PROVE  \E words :
           /\ Puts(p, {PutTo(p, q, "lib", BcastDest(Call(p)), words, pc[p].k) :
                         q \in IF p = Call(p).root THEN PE \ {p} ELSE {}})
           /\ DOMAIN words = 0 .. Call(p).count * Quad - 1
           /\ \A q \in IF p = Call(p).root THEN PE \ {p} ELSE {} :
                Carries(PutTo(p, q, "lib", BcastDest(Call(p)), words, pc[p].k))
<1> DEFINE k == pc[p].k
           c == Call(p)
           area == IF c.symS THEN "usr" ELSE "lib"
           words == Slice(mem[p][area], 0, c.count * Quad)
<1>1. /\ k \in DOMAIN prog /\ c = prog[k] /\ Sane(c) /\ k \in Nat
  BY InCall, SaneCall
<1>2. c.op = "bcast" /\ pc[p].at = "move"
  BY DEF BcastMove, In
<1>3. Moving(c)
  BY <1>2, MovingAt
<1>4. /\ Base(c, p) = BcastDest(c) /\ Base(c, p) \in Nat /\ Block(c, p) = Cells(c) /\ Cells(c) \in Nat
  BY <1>1, <1>2, <1>3, BlockPlace, CellsType DEF Sane, Base
<1>5. ~HasMoved(p, k)
  BY <1>1, <1>2 DEF HasMoved
<1>6. p = c.root => Holds(k, p, area, 0)
  <2>1. p = c.root => SourceAt(p, k, area, 0)
    BY <1>1, <1>2, <1>5 DEF SourceAt
  <2>2. area \in {"lib", "usr"}
    OBVIOUS
  <2>3. \A ar \in {"lib", "usr"} : SourceAt(p, k, ar, 0) => Holds(k, p, ar, 0)
    BY <1>1, <1>2 DEF SourceInv
  <2> HIDE DEF area, c, k
  <2> QED BY <2>1, <2>2, <2>3
<1>7. Puts(p, {PutTo(p, q, "lib", BcastDest(c), words, k) : q \in IF p = c.root THEN PE \ {p} ELSE {}})
  BY DEF BcastMove
<1>8. ASSUME p = c.root, NEW q \in PE \ {p}
      PROVE  Carries(PutTo(p, q, "lib", BcastDest(c), words, k))
  <2>1. DOMAIN words = 0 .. c.count * Quad - 1
    BY SliceDomain
  <2>2. ASSUME NEW i \in 0 .. c.count * Quad - 1, i < Cells(c) PROVE words[i] = Datum(k, p, i)
    BY <1>1, <1>4, <1>6, <1>8, <2>2, HoldsPrefix
  <2> HIDE DEF words, c, k
  <2>3. SendsTo(c, p, q) /\ AreaOf(c) = "lib"
    BY <1>2, <1>8 DEF SendsTo, AreaOf
  <2>4. \A i \in 0 .. c.count * Quad - 1 : BcastDest(c) + i - Base(c, p) = i /\ i >= 0
    BY <1>4
  <2>5. BcastDest(c) \in Int
    BY <1>4
  <2>6. \A i \in 0 .. c.count * Quad - 1 :
          LET x == BcastDest(c) + i - Base(c, p)
          IN  /\ x >= 0
              /\ x < Block(c, p) => words[i] = Datum(k, p, x)
              /\ c.op \notin {"bcast", "send"} => x < Block(c, p)
    BY <1>2, <1>4, <2>2, <2>4
  <2> QED BY <1>1, <1>3, <2>1, <2>3, <2>5, <2>6, CarriesPut
<1>9. DOMAIN words = 0 .. c.count * Quad - 1
  BY SliceDomain
<1> HIDE DEF words
<1> QED
  BY <1>7, <1>8, <1>9

(* What MPI_Allgather and MPI_Gather put starts with the PE's own data.      *)
LEMMA GatherSource ==
  ASSUME GoodCalls, BarrierInv, PointInv, SourceInv, NEW p \in PE, ~Done(p), pc[p].at = "move",
         Call(p).op \in {"allgather", "gather"}, NEW n, NEW i \in 0 .. n - 1, i < Cells(Call(p))
  PROVE  SendCells(Call(p), pc[p].k, p, n)[i] = Datum(pc[p].k, p, i)
<1> DEFINE k == pc[p].k
           c == Call(p)
<1>1. k \in DOMAIN prog /\ c = prog[k] /\ Sane(c) /\ Cells(c) \in Nat
  BY InCall, SaneCall, CellsType DEF Sane
<1>2. Moving(c) /\ ~HasMoved(p, k)
  BY MovingAt, InCall DEF HasMoved
<1>3. CASE c.symS
  BY <1>3 DEF SendCells
<1>4. CASE ~c.symS
  <2>1. Holds(k, p, "lib", 0)
    <3>1. SourceAt(p, k, "lib", 0)
      BY <1>1, <1>2, <1>4 DEF SourceAt
    <3> QED BY <1>1, <3>1 DEF SourceInv
  <2>2. Slice(mem[p].lib, 0, n)[i] = Datum(k, p, i)
    BY <1>1, <2>1, HoldsPrefix
  <2> QED BY <1>4, <2>2 DEF SendCells
<1> QED
  BY <1>3, <1>4

(* The puts of MPI_Allgather and MPI_Gather carry the PE's block.            *)
LEMMA GatherCarries ==
  ASSUME GoodCalls, BarrierInv, TypeInv, PointInv, SourceInv, NEW p \in PE, ~Done(p),
         AllgatherMove(p) \/ GatherMove(p)
  PROVE  LET c == Call(p) k == pc[p].k
             to == IF c.op = "allgather" THEN PE ELSE {c.root}
         IN  \E words :
               /\ Puts(p, {PutTo(p, q, AreaOf(c), Base(c, p), words, k) : q \in to})
               /\ DOMAIN words = 0 .. Cells(c) - 1 /\ to \subseteq PE
               /\ \A q \in to : Carries(PutTo(p, q, AreaOf(c), Base(c, p), words, k))
<1> DEFINE k == pc[p].k
           c == Call(p)
           to == IF c.op = "allgather" THEN PE ELSE {c.root}
           words == SendCells(c, k, p, Cells(c))
<1>1. /\ k \in DOMAIN prog /\ c = prog[k] /\ Sane(c) /\ k \in Nat
  BY InCall, SaneCall
<1>2. c.op \in {"allgather", "gather"} /\ pc[p].at = "move"
  BY DEF AllgatherMove, GatherMove, In
<1>3. Moving(c)
  BY <1>2, MovingAt
<1>4. /\ Base(c, p) = RecvAt(c) + p * Cells(c) /\ Base(c, p) \in Nat /\ Block(c, p) = Cells(c) /\ Cells(c) \in Nat
      /\ Cells(c) = c.count * Width[c.type] /\ c.count \in Nat /\ p \in Nat
  BY <1>1, <1>2, <1>3, BlockPlace, CellsType, PeFacts DEF Sane
<1>5. AreaOf(c) = RecvArea(c)
  BY <1>2 DEF AreaOf
<1>6. Puts(p, {PutTo(p, q, AreaOf(c), Base(c, p), words, k) : q \in to})
  <2>1. CASE AllgatherMove(p)
    <3>1. c.op = "allgather"
      BY <2>1 DEF AllgatherMove, In
    <3>2. c.count * Quad = Cells(c) /\ p * c.count * Quad = p * Cells(c)
      <4>1. Cells(c) = c.count * 2
        BY <1>1, <1>4, <3>1 DEF Sane, MovesBlocks, Quad
      <4> HIDE DEF c
      <4>2. p * c.count * 2 = p * Cells(c)
        BY <1>4, <4>1
      <4> QED BY <4>1, <4>2 DEF Quad
    <3>3. to = PE
      BY <3>1
    <3>4. Puts(p, {PutTo(p, q, RecvArea(c), RecvAt(c) + p * c.count * Quad,
                         SendCells(c, k, p, c.count * Quad), k) : q \in PE})
      BY <2>1 DEF AllgatherMove
    <3> HIDE DEF c, k, to
    <3> QED BY <1>4, <1>5, <3>2, <3>3, <3>4
  <2>2. CASE GatherMove(p)
    <3>1. c.op = "gather" /\ Puts(p, {PutTo(p, c.root, RecvArea(c), RecvAt(c) + p * Cells(c),
                                            SendCells(c, k, p, Cells(c)), k)})
      BY <2>2 DEF GatherMove, In
    <3>2. to = {c.root}
      BY <3>1
    <3> HIDE DEF c, k, to
    <3> QED BY <1>4, <1>5, <3>1, <3>2
  <2> QED BY <2>1, <2>2
<1>7. to \subseteq PE
  BY <1>1, <1>2 DEF Sane, FittingCall, FitsCollective
<1>8. DOMAIN words = 0 .. Cells(c) - 1
  BY DEF SendCells, Slice
<1>9. ASSUME NEW i \in 0 .. Cells(c) - 1 PROVE words[i] = Datum(k, p, i)
  <2>1. i < Cells(c)
    BY <1>4
  <2> QED BY <1>2, <2>1, GatherSource
<1>10. ASSUME NEW q \in to PROVE Carries(PutTo(p, q, AreaOf(c), Base(c, p), words, k))
  <2>1. SendsTo(c, p, q) /\ q \in PE
    BY <1>2, <1>7 DEF SendsTo
  <2> HIDE DEF words, c, k
  <2>2. \A i \in 0 .. Cells(c) - 1 : Base(c, p) + i - Base(c, p) = i /\ i >= 0 /\ i < Cells(c)
    BY <1>4
  <2>3. Base(c, p) \in Int
    BY <1>4
  <2>4. \A i \in 0 .. Cells(c) - 1 :
           LET x == Base(c, p) + i - Base(c, p)
           IN  /\ x >= 0
               /\ x < Block(c, p) => words[i] = Datum(k, p, x)
               /\ c.op \notin {"bcast", "send"} => x < Block(c, p)
    BY <1>4, <1>9, <2>2
  <2> QED BY <1>1, <1>3, <1>8, <2>1, <2>3, <2>4, CarriesPut
<1> HIDE DEF words
<1> QED
  BY <1>6, <1>7, <1>8, <1>10

(* The put of MPI_Gatherv carries the part of the data the root expects.     *)
LEMMA GathervCarries ==
  ASSUME GoodCalls, BarrierInv, TypeInv, PointInv, SourceInv, NEW p \in PE, ~Done(p), GathervMove(p)
  PROVE  LET c == Call(p) k == pc[p].k
         IN  \E words :
               /\ Puts(p, {PutTo(p, q, AreaOf(c), Base(c, p), words, k) : q \in {c.root}})
               /\ DOMAIN words = 0 .. Block(c, p) - 1 /\ {c.root} \subseteq PE
               /\ \A q \in {c.root} : Carries(PutTo(p, q, AreaOf(c), Base(c, p), words, k))
<1> DEFINE k == pc[p].k
           c == Call(p)
           n == Block(c, p)
           words == Slice(mem[p].lib, 0, n)
<1>1. /\ k \in DOMAIN prog /\ c = prog[k] /\ Sane(c) /\ k \in Nat
  BY InCall, SaneCall
<1>2. c.op = "gatherv" /\ pc[p].at = "move"
  BY DEF GathervMove, In
<1>3. Moving(c) /\ ~HasMoved(p, k)
  BY <1>1, <1>2, MovingAt DEF HasMoved
<1>4. /\ Base(c, p) \in Nat /\ n \in Nat /\ n <= Cells(c) /\ Cells(c) \in Nat
  BY <1>1, <1>2, <1>3, BlockPlace, CellsType DEF Sane
<1>5. Holds(k, p, "lib", 0)
  <2>1. SourceAt(p, k, "lib", 0)
    BY <1>1, <1>2, <1>3 DEF SourceAt
  <2> QED BY <1>1, <1>2, <2>1 DEF SourceInv
<1>6. AreaOf(c) = "lib" /\ Base(c, p) = GetBufferOffset(c) + GetNumBytes(Displs(c)[p], c.type)
  BY <1>1, <1>2, CellsType DEF AreaOf, Base, Sane
<1>7. n = GetNumBytes(c.recvcount[p + 1], c.type) /\ c.root \in PE
  BY <1>1, <1>2 DEF Block, Sane, FittingCall, FitsCollective
<1>8. Puts(p, {PutTo(p, c.root, "lib", Base(c, p), words, k)})
  BY <1>6, <1>7 DEF GathervMove
<1>9. DOMAIN words = 0 .. n - 1
  BY SliceDomain
<1>10. ASSUME NEW i \in 0 .. n - 1 PROVE words[i] = Datum(k, p, i)
  <2>1. i < Cells(c)
    BY <1>4
  <2> QED BY <1>1, <1>4, <1>5, <2>1, HoldsPrefix
<1> HIDE DEF words, n, c, k
<1>11. SendsTo(c, p, c.root) /\ Base(c, p) \in Int
  BY <1>2, <1>4 DEF SendsTo
<1>12. \A i \in 0 .. n - 1 : LET x == Base(c, p) + i - Base(c, p)
                            IN  x >= 0 /\ (x < n => words[i] = Datum(k, p, x)) /\ x < n
  <2>1. \A i \in 0 .. n - 1 : Base(c, p) + i - Base(c, p) = i /\ i >= 0 /\ i < n
    BY <1>4
  <2> QED BY <1>10, <2>1
<1>13. Carries(PutTo(p, c.root, "lib", Base(c, p), words, k))
  BY <1>1, <1>3, <1>6, <1>7, <1>9, <1>11, <1>12, CarriesPut DEF n
<1>14. \A q \in {c.root} : Carries(PutTo(p, q, AreaOf(c), Base(c, p), words, k))
  BY <1>6, <1>13
<1>15. Puts(p, {PutTo(p, q, AreaOf(c), Base(c, p), words, k) : q \in {c.root}})
  <2>1. {PutTo(p, q, AreaOf(c), Base(c, p), words, k) : q \in {c.root}} = {PutTo(p, c.root, "lib", Base(c, p), words, k)}
    BY <1>6
  <2> QED BY <1>8, <2>1
<1> QED
  BY <1>7, <1>9, <1>14, <1>15 DEF n, c, k

(* Every cell of n elements of width w lies in one of them. *)
LEMMA Elements ==
  ASSUME NEW n \in Nat, NEW w \in Nat, w >= 1, NEW x \in 0 .. n * w - 1
  PROVE  \E i \in 0 .. n - 1 : x - i * w \in 0 .. w - 1
<1>1. x \in Nat /\ x < n * w
  <2>1. n * w \in Nat
    BY TimesNat
  <2> QED BY <2>1
<1> DEFINE i == x \div w
           r == x % w
<1>2. x = i * w + r /\ i \in Nat /\ r \in 0 .. w - 1
  BY <1>1
<1> HIDE DEF i, r
<1>3. i < n
  <2> SUFFICES ASSUME n <= i PROVE FALSE
    BY <1>2
  <2>1. n * w <= i * w
    BY <1>2, TimesOrder
  <2>2. n * w \in Nat /\ i * w \in Nat
    BY <1>2, TimesNat
  <2> QED BY <1>1, <1>2, <2>1, <2>2
<1>4. x - i * w = r
  <2>1. i * w \in Nat
    BY <1>2, TimesNat
  <2> QED BY <1>2, <2>1
<1> QED
  BY <1>2, <1>3, <1>4

(* The elements of a message carry it, and all of it. *)
LEMMA ElementCarries ==
  ASSUME NEW p \in PE, NEW q \in PE, NEW k, k = pc[p].k, k \in DOMAIN prog, Sane(prog[k]),
         prog[k].op \in {"send", "isend"}, SendsTo(prog[k], p, q), NEW cells,
         \A x \in 0 .. Cells(prog[k]) - 1 : cells[x] = Datum(k, p, x)
  PROVE  /\ \A m \in ElementPuts(p, q, prog[k], cells) :
              Carries(m) /\ m.id = k /\ m.src = p /\ m.to = q
         /\ \A x \in 0 .. Cells(prog[k]) - 1 :
              \E m \in ElementPuts(p, q, prog[k], cells) : x - m.at \in DOMAIN m.cells
<1> DEFINE c == prog[k]
           w == Width[c.type]
<1>1. c.count \in Nat /\ w \in Nat /\ w >= 1 /\ Cells(c) = c.count * w /\ Cells(c) \in Nat
  BY CellsType DEF Sane
<1>2. AreaOf(c) = "lib" /\ Base(c, p) = 0 /\ Block(c, p) = Cells(c)
  BY DEF AreaOf, Base, Block
<1>3. ASSUME NEW i \in 0 .. c.count - 1
      PROVE  LET m == PutTo(p, q, "lib", i * w, Slice(cells, i * w, w), k)
             IN  Carries(m) /\ m.id = k /\ m.src = p /\ m.to = q
  <2> DEFINE b == i * w
             words == Slice(cells, b, w)
  <2>1. i \in Nat /\ i < c.count
    BY <1>1
  <2>2. b \in Nat /\ b + w <= Cells(c)
    BY <1>1, <2>1, ElementFits
  <2>3. DOMAIN words = 0 .. w - 1
    BY SliceDomain
  <2>4. \A j \in 0 .. w - 1 : words[j] = cells[b + j]
    BY SliceCell
  <2> HIDE DEF b, words
  <2>5. \A j \in 0 .. w - 1 : b + j \in 0 .. Cells(c) - 1 /\ b + j - 0 = b + j
    BY <1>1, <2>2
  <2> HIDE DEF c, w
  <2>6. \A j \in 0 .. w - 1 :
          LET x == b + j - Base(c, p)
          IN  x >= 0 /\ (x < Block(c, p) => words[j] = Datum(k, p, x))
              /\ (c.op \notin {"bcast", "send"} => x < Block(c, p))
    <3> SUFFICES ASSUME NEW j \in 0 .. w - 1
                 PROVE  b + j >= 0 /\ b + j < Cells(c) /\ words[j] = Datum(k, p, b + j)
      BY <1>2, <2>5
    <3> QED BY <1>1, <2>4, <2>5 DEF c
  <2>7. Carries(PutTo(p, q, "lib", b, words, k))
    <3>1. b \in Int
      BY <2>2
    <3> QED BY <1>2, <2>3, <2>6, <3>1, CarriesPut, ZenonT(30) DEF c
  <2>8. LET m == PutTo(p, q, "lib", b, words, k) IN m.id = k /\ m.src = p /\ m.to = q
    BY DEF PutTo
  <2> QED BY <2>7, <2>8 DEF b, words
<1>4. ASSUME NEW m \in ElementPuts(p, q, c, cells) PROVE Carries(m) /\ m.id = k /\ m.src = p /\ m.to = q
  <2>1. PICK i \in 0 .. c.count - 1 : m = PutTo(p, q, "lib", i * w, Slice(cells, i * w, w), k)
    BY DEF ElementPuts
  <2> QED BY <1>3, <2>1
<1>5. ASSUME NEW x \in 0 .. Cells(c) - 1
      PROVE  \E m \in ElementPuts(p, q, c, cells) : x - m.at \in DOMAIN m.cells
  <2>1. PICK i \in 0 .. c.count - 1 : x - i * w \in 0 .. w - 1
    BY <1>1, Elements
  <2> DEFINE m == PutTo(p, q, "lib", i * w, Slice(cells, i * w, w), k)
  <2>2. m \in ElementPuts(p, q, c, cells)
    BY DEF ElementPuts
  <2>3. m.at = i * w /\ m.cells = Slice(cells, i * w, w)
    BY DEF PutTo
  <2>4. DOMAIN m.cells = 0 .. w - 1
    BY <2>3, SliceDomain
  <2> HIDE DEF m, w
  <2> QED BY <2>1, <2>2, <2>3, <2>4
<1> QED
  BY <1>4, <1>5

-----------------------------------------------------------------------------
(* What a step changes. *)

(* A PE that puts changes only its own memory at once.                       *)
LEMMA PutsFrame ==
  ASSUME mem \in [PE -> Areas], NEW p \in PE, NEW puts, Puts(p, puts), \A m \in puts : m.area \in {"lib", "usr"}
  PROVE  /\ \A q \in PE \ {p} : mem'[q] = mem[q]
         /\ wire \subseteq wire' /\ \A m \in puts : m.to # p => m \in wire'
         /\ \A m \in wire' : m \in wire \/ (m \in puts /\ m.to # p)
         /\ (\A m \in puts : m.to # p) => mem' = mem
         /\ (\E m \in puts : m.to = p) =>
              \E m \in puts : m.to = p /\ mem' = [mem EXCEPT ![p][m.area] = Store(@, m.at, m.cells)]
<1> DEFINE own == {m \in puts : m.to = p}
           m0 == CHOOSE m \in own : TRUE
<1>1. wire' = wire \cup (puts \ own)
  BY DEF Puts
<1>2. own = {} => mem' = mem
  BY DEF Puts
<1>3. own # {} => m0 \in own /\ mem' = [mem EXCEPT ![p][m0.area] = Store(@, m0.at, m0.cells)]
  BY DEF Puts
<1> HIDE DEF m0
<1>4. \A q \in PE \ {p} : mem'[q] = mem[q]
  BY <1>2, <1>3
<1> QED
  BY <1>1, <1>2, <1>3, <1>4

(* Whether a put carries a call's data depends on the program alone.         *)
LEMMA CarriesPrime ==
  ASSUME prog' = prog, NEW m
  PROVE  Carries(m)' <=> Carries(m)
BY DEF Carries, Moving, Short, SendsTo, AreaOf, Base, Block, Datum, RecvArea, RecvAt, BcastDest, GetBufferOffset,
       Cells, GetNumBytes, Displs, NextPe

(* MPI_Pack writes to the memory of the caller, whose rank in MPI_COMM_WORLD *)
(* is its number.                                                            *)
LEMMA PackOwn ==
  ASSUME FittingPrograms, TypeInv, NEW p \in PE, ~Done(p), MPI_Pack(p)
  PROVE  LET c == Call(p)
             lib == Store(mem[p].lib, Position(p), Data(pc[p].k, p))
         IN  /\ wire' = wire
             /\ c.symS => mem' = [mem EXCEPT ![p].usr = Store(@, Position(p), Data(pc[p].k, p))]
             /\ ~c.symS => mem' = [mem EXCEPT ![p] = [lib |-> lib, usr |-> Store(@.usr, 0, Slice(lib, 0, Cells(c)))]]
<1> DEFINE c == Call(p)
           q == comms[p][CommOf(p)].rank
           area == IF c.symS THEN "usr" ELSE "lib"
           put == PutTo(p, q, area, Position(p), Data(pc[p].k, p), pc[p].k)
           lib == Store(mem[p].lib, Position(p), Data(pc[p].k, p))
<1>1. c.op = "pack"
  BY DEF MPI_Pack, In
<1>2. c.comm = 1 /\ FittingCall(c)
  BY <1>1, CallFits DEF FittingCall, FitsOther
<1>3. q = p
  BY <1>2 DEF CommOf, TypeInv, PlaceInv, WorldFirst
<1>4. put.to = p /\ put.area = area /\ put.at = Position(p) /\ put.cells = Data(pc[p].k, p)
  BY <1>3 DEF PutTo
<1>5. mem \in [PE -> Areas]
  BY DEF TypeInv, Memory
<1>6. CASE c.symS
  <2>1. Puts(p, {put})
    BY <1>6 DEF MPI_Pack
  <2>2. area = "usr"
    BY <1>6
  <2> HIDE DEF put, area, c
  <2>3. \A m \in {put} : m.area \in {"lib", "usr"} /\ m.to = p
    BY <1>4, <2>2
  <2>4. \E m \in {put} : m.to = p /\ mem' = [mem EXCEPT ![p][m.area] = Store(@, m.at, m.cells)]
    BY <1>5, <2>1, <2>3, PutsFrame
  <2>5. wire' = wire
    <3>1. wire \subseteq wire' /\ \A m \in wire' : m \in wire \/ (m \in {put} /\ m.to # p)
      BY <1>5, <2>1, <2>3, PutsFrame
    <3> QED BY <2>3, <3>1
  <2>6. mem' = [mem EXCEPT ![p]["usr"] = Store(@, Position(p), Data(pc[p].k, p))]
    BY <1>4, <2>2, <2>4
  <2> QED BY <1>6, <2>5, <2>6 DEF c
<1>7. CASE ~c.symS
  <2>1. area = "lib"
    BY <1>7
  <2>2. /\ mem' = [mem EXCEPT ![p] = [lib |-> Store(mem[p].lib, put.at, put.cells),
                                     usr |-> Store(@.usr, 0, Slice(Store(mem[p].lib, put.at, put.cells), 0, Cells(c)))]]
        /\ wire' = wire
    BY <1>3, <1>7 DEF MPI_Pack
  <2> HIDE DEF put, area
  <2> QED BY <1>4, <1>7, <2>2
<1> QED
  BY <1>6, <1>7

(* The new puts of a step carry the data of the call, to other PEs, and leave *)
(* when the barriers ahead are those of the puts of the call.                *)
NewPuts(p) == \A m \in wire' \ wire :
  m.id = pc[p].k /\ m.src = p /\ m.to # p /\ Carries(m)

Frame(p) == wire \subseteq wire' /\ \A q \in PE \ {p} : mem'[q] = mem[q]

Carrying == BarrierInv /\ TypeInv /\ PointInv /\ WireInv /\ SourceInv

(* A step that stores into the PE's own memory leaves that of the others     *)
(* alone.                                                                    *)
LEMMA OwnStep ==
  ASSUME NEW p, mem \in [PE -> Areas], wire' = wire,
         mem' = mem \/ (\E a, b : mem' = [mem EXCEPT ![p][a] = b]) \/ (\E a : mem' = [mem EXCEPT ![p] = a])
  PROVE  Frame(p) /\ NewPuts(p)
BY DEF Frame, NewPuts

(* A PE that is about to put has the barriers of that call ahead.            *)
LEMMA MoveEpoch ==
  ASSUME BarrierInv, PointInv, NEW p \in PE, ~Done(p),
         \/ pc[p].at = "move" /\ Call(p).op \in {"bcast", "allgather", "gather", "gatherv", "isend"}
         \/ pc[p].at = "call" /\ Call(p).op = "send"
  PROVE  Ahead(prog, pc[p]) = PutEpoch(prog, pc[p].k)
<1>1. pc[p].k \in DOMAIN prog /\ Call(p) = prog[pc[p].k] /\ pc[p].k <= Len(prog) /\ ~(pc[p].k > Len(prog))
  BY PlaceOf, InCall
<1>2. CASE pc[p].at = "move" /\ Call(p).op \in {"bcast", "allgather", "gather", "gatherv"}
  <2>1. Moving(prog[pc[p].k])
    BY <1>1, <1>2, MovingAt
  <2>2. Here(prog, pc[p]) = {At(pc[p].k, 1, "copy")}
    BY <1>1, <1>2, HereInCall DEF Middle
  <2> QED BY <2>1, <2>2 DEF Ahead, PutEpoch
<1>3. CASE pc[p].at = "move" /\ Call(p).op = "isend"
  <2>1. ~Moving(prog[pc[p].k])
    BY <1>1, <1>3 DEF Moving
  <2>2. Here(prog, pc[p]) = {}
    BY <1>1, <1>3, HereInCall DEF Middle
  <2> QED BY <2>1, <2>2 DEF Ahead, PutEpoch
<1>4. CASE pc[p].at = "call" /\ Call(p).op = "send"
  <2>1. ~Moving(prog[pc[p].k])
    BY <1>1, <1>4 DEF Moving
  <2>2. Here(prog, pc[p]) = {}
    BY <1>1, <1>4, HereAtCall DEF Entry
  <2> QED BY <2>1, <2>2 DEF Ahead, PutEpoch
<1> QED
  BY <1>2, <1>3, <1>4

(* Calls put into one of the two buffers.                                    *)
LEMMA PutArea ==
  ASSUME NEW c
  PROVE  AreaOf(c) \in {"lib", "usr"}
BY DEF AreaOf, RecvArea

(* A collective moves a block: the same words to every PE they are for. *)
BlockPuts(p, words) ==
  {PutTo(p, q, AreaOf(Call(p)), Base(Call(p), p), words, pc[p].k) : q \in {r \in PE : SendsTo(Call(p), p, r)}}

MovesBlock(p, words) ==
  /\ Puts(p, BlockPuts(p, words))
  /\ \E n \in Int : DOMAIN words = 0 .. n - 1 /\ n >= Block(Call(p), p)
  /\ \A m \in BlockPuts(p, words) : Carries(m)

(* Puts that start at the place of the PE's block move the block.            *)
LEMMA MovesTo ==
  ASSUME NEW p, NEW to, to = {q \in PE : SendsTo(Call(p), p, q)}, NEW words, NEW n \in Int,
         NEW area, area = AreaOf(Call(p)), NEW at, at = Base(Call(p), p),
         Puts(p, {PutTo(p, q, area, at, words, pc[p].k) : q \in to}),
         DOMAIN words = 0 .. n - 1, n >= Block(Call(p), p),
         \A q \in to : Carries(PutTo(p, q, area, at, words, pc[p].k))
  PROVE  MovesBlock(p, words)
<1>1. BlockPuts(p, words) = {PutTo(p, q, area, at, words, pc[p].k) : q \in to}
  BY DEF BlockPuts
<1>2. \A m \in {PutTo(p, q, area, at, words, pc[p].k) : q \in to} : Carries(m)
  OBVIOUS
<1> QED
  BY <1>1, <1>2 DEF MovesBlock

(* The move of a collective puts the PE's whole block.                       *)
LEMMA MoveStep ==
  ASSUME GoodCalls, Carrying, NEW p \in PE, ~Done(p),
         BcastMove(p) \/ AllgatherMove(p) \/ GatherMove(p) \/ GathervMove(p)
  PROVE  \E words : MovesBlock(p, words)
<1> DEFINE k == pc[p].k
           c == Call(p)
<1>0. BarrierInv /\ TypeInv /\ PointInv /\ SourceInv
  BY DEF Carrying
<1>1. /\ k \in DOMAIN prog /\ c = prog[k] /\ Sane(c)
  BY <1>0, InCall, SaneCall
<1>2. CASE BcastMove(p)
  <2> DEFINE to == IF p = c.root THEN PE \ {p} ELSE {}
  <2>1. c.op = "bcast" /\ pc[p].at = "move"
    BY <1>2 DEF BcastMove, In
  <2>2. PICK words : /\ Puts(p, {PutTo(p, q, "lib", BcastDest(c), words, k) : q \in to})
                     /\ DOMAIN words = 0 .. c.count * Quad - 1
                     /\ \A q \in to : Carries(PutTo(p, q, "lib", BcastDest(c), words, k))
    BY <1>0, <1>2, BcastCarries
  <2>3. to = {q \in PE : SendsTo(c, p, q)} /\ "lib" = AreaOf(c) /\ BcastDest(c) = Base(c, p)
    BY <2>1 DEF SendsTo, AreaOf, Base
  <2>4. c.count * Quad \in Int /\ c.count * Quad >= Block(c, p)
    <3>1. Block(c, p) = c.count * Width[c.type] /\ c.count \in Nat /\ Width[c.type] \in Nat /\ Width[c.type] <= 2
      BY <1>1, <2>1, CellsType DEF Block, Sane, MovesBlocks, Quad
    <3> HIDE DEF c
    <3>2. Width[c.type] * c.count <= 2 * c.count
      BY <3>1, TimesOrder
    <3> QED BY <3>1, <3>2 DEF Quad
  <2> HIDE DEF to
  <2>5. MovesBlock(p, words)
    BY <2>2, <2>3, <2>4, MovesTo
  <2> QED BY <2>5
<1>4. CASE AllgatherMove(p) \/ GatherMove(p)
  <2> DEFINE to == IF c.op = "allgather" THEN PE ELSE {c.root}
  <2>1. c.op \in {"allgather", "gather"} /\ pc[p].at = "move"
    BY <1>4 DEF AllgatherMove, GatherMove, In
  <2>2. PICK words : /\ Puts(p, {PutTo(p, q, AreaOf(c), Base(c, p), words, k) : q \in to})
                     /\ DOMAIN words = 0 .. Cells(c) - 1 /\ to \subseteq PE
                     /\ \A q \in to : Carries(PutTo(p, q, AreaOf(c), Base(c, p), words, k))
    BY <1>0, <1>4, GatherCarries
  <2>3. to = {q \in PE : SendsTo(c, p, q)} /\ Block(c, p) = Cells(c)
    BY <2>1, <2>2 DEF SendsTo, Block
  <2>4. Cells(c) \in Int /\ Cells(c) >= Block(c, p)
    BY <1>1, <2>3, CellsType DEF Sane
  <2> HIDE DEF to
  <2>5. MovesBlock(p, words)
    BY <2>2, <2>3, <2>4, MovesTo
  <2> QED BY <2>5
<1>5. CASE GathervMove(p)
  <2> DEFINE to == {c.root}
  <2>1. c.op = "gatherv" /\ pc[p].at = "move"
    BY <1>5 DEF GathervMove, In
  <2>2. PICK words : /\ Puts(p, {PutTo(p, q, AreaOf(c), Base(c, p), words, k) : q \in to})
                     /\ DOMAIN words = 0 .. Block(c, p) - 1 /\ to \subseteq PE
                     /\ \A q \in to : Carries(PutTo(p, q, AreaOf(c), Base(c, p), words, k))
    BY <1>0, <1>5, GathervCarries
  <2>3. to = {q \in PE : SendsTo(c, p, q)}
    BY <2>1, <2>2 DEF SendsTo
  <2>4. Block(c, p) \in Int /\ Block(c, p) >= Block(c, p)
    <3>1. Block(c, p) \in Nat
      BY <1>0, <1>1, <2>1, MovingAt, BlockPlace DEF Sane
    <3> QED BY <3>1
  <2> HIDE DEF to
  <2>5. MovesBlock(p, words)
    BY <2>2, <2>3, <2>4, MovesTo
  <2> QED BY <2>5
<1> QED
  BY <1>2, <1>4, <1>5

(* A message leaves in elements. *)
LEMMA SendStep ==
  ASSUME GoodCalls, Carrying, NEW p \in PE, ~Done(p),
         MPI_SendByValue(p) \/ MPI_SendFlagged(p) \/ IsendMove(p)
  PROVE  \E puts, q :
           LET c == Call(p) k == pc[p].k
           IN  /\ Puts(p, puts) /\ q \in PE /\ SendsTo(c, p, q)
               /\ \A m \in puts : Carries(m) /\ m.id = k /\ m.src = p /\ m.to = q
               /\ \A x \in 0 .. Cells(c) - 1 : \E m \in puts : x - m.at \in DOMAIN m.cells
<1> DEFINE k == pc[p].k
           c == Call(p)
<1>0. BarrierInv /\ TypeInv /\ PointInv /\ SourceInv
  BY DEF Carrying
<1>1. /\ k \in DOMAIN prog /\ c = prog[k] /\ Sane(c) /\ k \in Nat
  BY <1>0, InCall, SaneCall
<1>2. Cells(c) \in Nat /\ FittingCall(c) /\ GetBufferOffset(c) = Cells(c)
  BY <1>1, CellsType DEF Sane
<1>3. \A x \in 0 .. Cells(c) - 1 : Data(k, p)[x] = Datum(k, p, x)
  BY <1>1 DEF Data
<1>4. CASE MPI_SendByValue(p) \/ MPI_SendFlagged(p)
  <2> DEFINE puts == ElementPuts(p, c.to, c, Data(k, p))
             flag == PutTo(p, c.to, "lib", GetBufferOffset(c), [i \in {0} |-> Flag], k)
  <2>1. c.op = "send" /\ p = c.from /\ (Puts(p, puts) \/ Puts(p, puts \cup {flag}))
    BY <1>4 DEF MPI_SendByValue, MPI_SendFlagged, In
  <2>2. c.to \in PE /\ SendsTo(c, p, c.to) /\ AreaOf(c) = "lib" /\ Base(c, p) = 0 /\ Block(c, p) = Cells(c)
    BY <1>2, <2>1 DEF FittingCall, FitsOther, SendsTo, AreaOf, Base, Block
  <2>3. /\ \A m \in puts : Carries(m) /\ m.id = k /\ m.src = p /\ m.to = c.to
        /\ \A x \in 0 .. Cells(c) - 1 : \E m \in puts : x - m.at \in DOMAIN m.cells
    BY <1>1, <1>3, <2>1, <2>2, ElementCarries
  <2>4. flag.id = k /\ flag.src = p /\ flag.to = c.to
    BY DEF PutTo
  <2>5. Carries(flag)
    <3> DEFINE word == [i \in {0} |-> Flag]
               n == 1
    <3>1. DOMAIN word = 0 .. n - 1
      OBVIOUS
    <3>2. \A i \in 0 .. n - 1 : i = 0
      OBVIOUS
    <3> HIDE DEF word, n, c, k
    <3>3. \A i \in 0 .. n - 1 : LET x == Cells(c) + i - Base(c, p)
                               IN  x >= 0 /\ ~(x < Block(c, p))
      BY <1>2, <2>2, <3>2
    <3>4. \A i \in 0 .. n - 1 : LET x == Cells(c) + i - Base(c, p)
                               IN  /\ x >= 0
                                   /\ x < Block(c, p) => word[i] = Datum(k, p, x)
                                   /\ c.op \notin {"bcast", "send"} => x < Block(c, p)
      BY <2>1, <3>3
    <3>5. Cells(c) \in Int
      BY <1>2
    <3>6. Carries(PutTo(p, c.to, "lib", Cells(c), word, k))
      BY <1>1, <2>1, <2>2, <3>1, <3>4, <3>5, CarriesPut
    <3> QED BY <1>2, <3>6 DEF word, c, k
  <2> HIDE DEF puts, flag, c, k
  <2>6. \A m \in puts \cup {flag} : Carries(m) /\ m.id = k /\ m.src = p /\ m.to = c.to
    BY <2>3, <2>4, <2>5
  <2>7. \A x \in 0 .. Cells(c) - 1 : \E m \in puts \cup {flag} : x - m.at \in DOMAIN m.cells
    BY <2>3
  <2> QED BY <2>1, <2>2, <2>3, <2>6, <2>7 DEF c, k
<1>5. CASE IsendMove(p)
  <2> DEFINE cells == IF c.symS THEN Data(k, p) ELSE Slice(mem[p].lib, GetBufferOffset(c), Cells(c))
             puts == ElementPuts(p, NextPe(p), c, cells)
  <2>1. c.op = "isend" /\ pc[p].at = "move" /\ Puts(p, puts)
    BY <1>5 DEF IsendMove, In
  <2>2. NextPe(p) \in PE /\ SendsTo(c, p, NextPe(p))
    BY <2>1, NextPeType DEF SendsTo
  <2>3. \A x \in 0 .. Cells(c) - 1 : cells[x] = Datum(k, p, x)
    <3>1. CASE c.symS
      BY <1>3, <3>1
    <3>2. CASE ~c.symS
      <4>1. Holds(k, p, "lib", Cells(c))
        <5>1. SourceAt(p, k, "lib", Cells(c)) /\ Cells(c) \in Int
          BY <1>1, <1>2, <2>1, <3>2 DEF SourceAt
        <5> HIDE DEF c
        <5> QED BY <1>0, <1>1, <2>1, <5>1 DEF SourceInv
      <4>2. \A x \in 0 .. Cells(c) - 1 : Slice(mem[p].lib, Cells(c), Cells(c))[x] = mem[p].lib[Cells(c) + x]
        BY SliceCell
      <4> QED BY <1>1, <1>2, <3>2, <4>1, <4>2 DEF Holds
    <3> QED BY <3>1, <3>2
  <2> HIDE DEF cells
  <2>4. /\ \A m \in puts : Carries(m) /\ m.id = k /\ m.src = p /\ m.to = NextPe(p)
        /\ \A x \in 0 .. Cells(c) - 1 : \E m \in puts : x - m.at \in DOMAIN m.cells
    BY <1>1, <2>1, <2>2, <2>3, ElementCarries
  <2> HIDE DEF puts, c, k
  <2> QED BY <2>1, <2>2, <2>4 DEF c, k
<1> QED
  BY <1>4, <1>5

MoveOrSend(p) ==
  \/ BcastMove(p) \/ AllgatherMove(p) \/ GatherMove(p) \/ GathervMove(p)
  \/ MPI_SendByValue(p) \/ MPI_SendFlagged(p) \/ IsendMove(p)

(* A step that puts leaves the memory of other PEs alone until the puts      *)
(* arrive.                                                                   *)
LEMMA MoveOrSendFrame ==
  ASSUME GoodCalls, Carrying, NEW p \in PE, ~Done(p), MoveOrSend(p)
  PROVE  Frame(p) /\ NewPuts(p) /\ Ahead(prog, pc[p]) = PutEpoch(prog, pc[p].k)
<1>0. mem \in [PE -> Areas] /\ BarrierInv /\ PointInv
  BY DEF Carrying, TypeInv, Memory
<1>1. ASSUME NEW puts, Puts(p, puts), \A m \in puts : Carries(m) /\ m.id = pc[p].k /\ m.src = p
      PROVE  Frame(p) /\ NewPuts(p)
  <2>1. \A m \in puts : m.area \in {"lib", "usr"}
    BY <1>1, PutArea DEF Carries
  <2>2. /\ \A q \in PE \ {p} : mem'[q] = mem[q]
        /\ wire \subseteq wire'
        /\ \A m \in wire' : m \in wire \/ (m \in puts /\ m.to # p)
    BY <1>0, <1>1, <2>1, PutsFrame
  <2> QED BY <1>1, <2>2 DEF Frame, NewPuts
<1>2. Frame(p) /\ NewPuts(p)
  <2>1. CASE BcastMove(p) \/ AllgatherMove(p) \/ GatherMove(p) \/ GathervMove(p)
    <3>1. PICK words : MovesBlock(p, words)
      BY <2>1, MoveStep
    <3>2. \A m \in BlockPuts(p, words) : m.id = pc[p].k /\ m.src = p
      BY DEF BlockPuts, PutTo
    <3> QED BY <1>1, <3>1, <3>2 DEF MovesBlock
  <2>2. CASE MPI_SendByValue(p) \/ MPI_SendFlagged(p) \/ IsendMove(p)
    BY <1>1, <2>2, SendStep
  <2> QED BY <2>1, <2>2 DEF MoveOrSend
<1>3. \/ pc[p].at = "move" /\ Call(p).op \in {"bcast", "allgather", "gather", "gatherv", "isend"}
      \/ pc[p].at = "call" /\ Call(p).op = "send"
  BY DEF MoveOrSend, BcastMove, AllgatherMove, GatherMove, GathervMove, MPI_SendByValue, MPI_SendFlagged,
         IsendMove, In
<1> QED
  BY <1>0, <1>2, <1>3, MoveEpoch

(* The steps that only store into memory of their own. *)
LEMMA OwnFrame ==
  ASSUME GoodCalls, Carrying, NEW p \in PE, Step(p), ~MoveOrSend(p)
  PROVE  wire' = wire /\ Frame(p)
<1>0. mem \in [PE -> Areas] /\ TypeInv /\ FittingPrograms /\ ~Done(p)
  BY DEF Carrying, TypeInv, Memory, GoodCalls, Step
<1>1. ASSUME wire' = wire, mem' = mem \/ (\E a, b : mem' = [mem EXCEPT ![p][a] = b]) \/ (\E a : mem' = [mem EXCEPT ![p] = a])
      PROVE  Frame(p)
  BY <1>0, <1>1 DEF Frame
<1>2. wire' = wire /\ (mem' = mem \/ (\E a, b : mem' = [mem EXCEPT ![p][a] = b]) \/ (\E a : mem' = [mem EXCEPT ![p] = a]))
  <2>1. CASE MPI_Barrier(p) \/ MPI_Iprobe(p) \/ BarrierReturn(p) \/ GatherNull(p) \/ GathervCheck(p)
    BY <2>1 DEF MPI_Barrier, MPI_Iprobe, BarrierReturn, GatherNull, GathervCheck, shmemVars
  <2>2. CASE BcastEnter(p) \/ BcastCopy(p) \/ GatherCopy(p) \/ GathervCopy(p)
    BY <2>2 DEF BcastEnter, BcastCopy, GatherCopy, GathervCopy
  <2>3. CASE GatherEnter(p) \/ GathervEnter(p) \/ GathervRecvBuf(p)
    BY <2>3 DEF GatherEnter, GathervEnter, GathervRecvBuf, CopyMyData
  <2>4. CASE NotMine(p) \/ SendReturn(p) \/ IrecvEnter(p) \/ MPI_Test(p) \/ PackNoSpace(p)
    BY <2>4 DEF NotMine, SendReturn, IrecvEnter, MPI_Test, PackNoSpace, shmemVars
  <2>5. CASE MPI_Recv(p) \/ IsendEnter(p) \/ IrecvMove(p)
    BY <2>5 DEF MPI_Recv, IsendEnter, IrecvMove, CopyMyData
  <2>6. CASE Management(p)
    BY <2>6 DEF Management, GroupEnter, MPI_Group_incl, CommEnter, HeapReturn, MPI_Comm_create,
                MPI_Comm_dup, CommFreeEnter, MPI_Comm_free, MPI_Comm_rank, shmemVars
  <2>7. CASE MPI_Pack(p)
    BY <1>0, <2>7, PackOwn
  <2>8. CASE MPI_Unpack(p)
    BY <2>8 DEF MPI_Unpack, CopyMyData
  <2> QED BY <2>1, <2>2, <2>3, <2>4, <2>5, <2>6, <2>7, <2>8
          DEF Step, Collective, PointToPoint, Packing, MoveOrSend
<1> QED
  BY <1>1, <1>2

(* No step of a PE changes the memory of another one at once, and what it    *)
(* puts is of a call with the same barriers ahead.                           *)
LEMMA StepFrame ==
  ASSUME GoodCalls, Carrying, NEW p \in PE, Step(p)
  PROVE  /\ Frame(p) /\ NewPuts(p)
         /\ \A m \in wire' \ wire : Ahead(prog, pc[p]) = PutEpoch(prog, m.id)
<1>1. CASE MoveOrSend(p)
  BY <1>1, MoveOrSendFrame DEF NewPuts, Step
<1>2. CASE ~MoveOrSend(p)
  BY <1>2, OwnFrame DEF NewPuts
<1> QED
  BY <1>1, <1>2

LEMMA WireInvInit == Init => WireInv
BY DEF Init, ShmemInit, WireInv

(* What is on its way carries the data of a call that no barrier has ended.  *)
LEMMA WireInvNext ==
  ASSUME GoodCalls, Carrying, [Next]_vars
  PROVE  WireInv'
<1>0. BarrierInv /\ TypeInv /\ PointInv /\ WireInv /\ UniformPrograms
  BY DEF Carrying, GoodCalls
<1>1. CASE \E p \in PE : Step(p)
  <2>1. PICK p \in PE : Step(p)
    BY <1>1
  <2>2. GoesOn(p) /\ prog' = prog
    BY <1>0, <2>1, StepGoesOn
  <2>3. PICK x \in Place(prog) : pc' = [pc EXCEPT ![p] = x] /\ Ahead(prog, x) = Ahead(prog, pc[p])
    BY <2>2 DEF GoesOn
  <2>4. ASSUME NEW q \in PE PROVE Ahead(prog, pc'[q]) = Ahead(prog, pc[q])
    <3>1. pc'[q] = IF q = p THEN x ELSE pc[q]
      BY <1>0, <2>3 DEF BarrierInv, PlaceInv
    <3> QED BY <2>3, <3>1
  <2>5. ASSUME NEW m \in wire' PROVE Carries(m) /\ \A q \in PE : Ahead(prog, pc[q]) = PutEpoch(prog, m.id)
    <3>1. CASE m \in wire
      BY <1>0, <3>1 DEF WireInv
    <3>2. CASE m \in wire' \ wire
      <4>1. Carries(m) /\ Ahead(prog, pc[p]) = PutEpoch(prog, m.id)
        BY <2>1, <3>2, StepFrame DEF NewPuts
      <4> QED BY <1>0, <4>1 DEF BarrierInv, SameAhead
    <3> QED BY <3>1, <3>2
  <2>6. ASSUME NEW m \in wire', NEW q \in PE PROVE (Ahead(prog, pc[q]) = PutEpoch(prog, m.id))'
    <3>1. Ahead(prog, pc'[q]) = PutEpoch(prog, m.id)
      BY <2>4, <2>5
    <3> QED BY <2>2, <3>1
  <2> QED BY <2>2, <2>5, <2>6, CarriesPrime DEF WireInv
<1>2. CASE BarrierAll \/ HeapFull
  BY <1>2 DEF BarrierAll, HeapFull, Quiet, WireInv
<1>3. CASE Arrival \/ UNCHANGED vars
  <2>1. wire' \subseteq wire /\ pc' = pc /\ prog' = prog
    BY <1>3 DEF Arrival, Deliver, vars, callVars, shmemVars
  <2>2. \A m \in wire' : Carries(m) /\ \A q \in PE : Ahead(prog, pc[q]) = PutEpoch(prog, m.id)
    BY <1>0, <2>1 DEF WireInv
  <2>3. ASSUME NEW m \in wire', NEW q \in PE PROVE (Ahead(prog, pc[q]) = PutEpoch(prog, m.id))'
    BY <2>1, <2>2
  <2> QED BY <2>1, <2>2, <2>3, CarriesPrime DEF WireInv
<1> QED
  BY <1>1, <1>2, <1>3 DEF Next

-----------------------------------------------------------------------------
(* The data a call sends stay where it reads them. *)

(* A cell after a store.                                                     *)
LEMMA StoreCell ==
  ASSUME NEW area, NEW at, NEW cells, NEW x \in DOMAIN area
  PROVE  /\ DOMAIN Store(area, at, cells) = DOMAIN area
         /\ x - at \in DOMAIN cells => Store(area, at, cells)[x] = cells[x - at]
         /\ x - at \notin DOMAIN cells => Store(area, at, cells)[x] = area[x]
BY DEF Store

(* What PE p sends in call k lies in its memory. *)
LEMMA SourceFits ==
  ASSUME mem \in [PE -> Areas], NEW k, Sane(prog[k]), NEW p \in PE, NEW area, NEW at, SourceAt(p, k, area, at)
  PROVE  /\ at \in Nat /\ area \in {"lib", "usr"} /\ Cells(prog[k]) \in Nat
         /\ \A x \in 0 .. Cells(prog[k]) - 1 : at + x \in DOMAIN mem[p][area] /\ at + x \in Nat
<1> DEFINE c == prog[k]
<1>1. Cells(c) \in Nat /\ GetBufferOffset(c) = Cells(c) /\ FittingCall(c) /\ LibLen \in Nat /\ UsrLen \in Nat
  BY CellsType, Sizes DEF Sane
<1>2. mem[p].lib \in [0 .. LibLen - 1 -> Int] /\ mem[p].usr \in [0 .. UsrLen - 1 -> Int]
  BY AreaTypes
<1>3. at \in Nat /\ area \in {"lib", "usr"} /\ at + Cells(c) <= IF area = "lib" THEN LibLen ELSE UsrLen
  <2>1. CASE c.op = "bcast"
    <3>1. Cells(c) <= UsrLen /\ BcastDest(c) + Cells(c) <= LibLen /\ BcastDest(c) \in Nat
      BY <1>1, <2>1 DEF FittingCall, FitsCollective, BcastDest
    <3>2. at = 0 /\ area \in {"lib", "usr"}
      BY <2>1 DEF SourceAt
    <3> HIDE DEF c
    <3> QED BY <1>1, <3>1, <3>2
  <2>2. CASE c.op \in {"allgather", "gather"}
    BY <1>1, <2>2 DEF FittingCall, FitsCollective, SourceAt
  <2>3. CASE c.op = "gatherv"
    <3>1. at = 0 /\ area = "lib"
      BY <2>3 DEF SourceAt
    <3>2. /\ TotalNumSent(c) \in Nat /\ "int" \in DOMAIN Width
          /\ Cells(c) + GetNumBytes(TotalNumSent(c), "int") <= LibLen
      BY <1>1, <2>3 DEF FittingCall, FitsCollective
    <3>3. GetNumBytes(TotalNumSent(c), "int") \in Nat
      <4>1. Width["int"] \in Nat
        BY <3>2, MpiAssumption
      <4> QED BY <3>2, <4>1, TimesNat DEF GetNumBytes
    <3> HIDE DEF c
    <3> QED BY <1>1, <3>1, <3>2, <3>3
  <2>4. CASE c.op = "isend"
    BY <1>1, <2>4 DEF FittingCall, FitsOther, SourceAt
  <2> QED BY <2>1, <2>2, <2>3, <2>4 DEF SourceAt
<1> HIDE DEF c
<1>4. ASSUME NEW x \in 0 .. Cells(c) - 1 PROVE at + x \in DOMAIN mem[p][area] /\ at + x \in Nat
  <2>1. CASE area = "lib"
    BY <1>1, <1>2, <1>3, <2>1
  <2>2. CASE area = "usr"
    BY <1>1, <1>2, <1>3, <2>2
  <2> QED BY <1>3, <2>1, <2>2
<1> QED
  BY <1>1, <1>3, <1>4 DEF c

(* A put of the same call does not reach them. *)
LEMMA SourceClear ==
  ASSUME NEW k \in DOMAIN prog, Sane(prog[k]), NEW p \in PE, NEW area, NEW at, SourceAt(p, k, area, at),
         NEW m, Carries(m), m.id = k, m.to = p, m.area = area, NEW x \in 0 .. Cells(prog[k]) - 1,
         NEW z, z = at + x
  PROVE  z - m.at \notin DOMAIN m.cells
<1> DEFINE c == prog[k]
           i == z - m.at
<1>1. /\ Moving(c) \/ c.op \in {"send", "isend"}
      /\ m.src \in PE /\ SendsTo(c, m.src, p) /\ area = AreaOf(c) /\ m.at \in Int
  BY DEF Carries
<1>2. Cells(c) \in Nat /\ GetBufferOffset(c) = Cells(c) /\ Base(c, m.src) \in Nat
  BY <1>1, CellsType, BlockPlace DEF Sane
<1> SUFFICES ASSUME i \in DOMAIN m.cells PROVE FALSE
  OBVIOUS
<1>3. /\ m.at + i - Base(c, m.src) >= 0 /\ i \in Nat
      /\ c.op \notin {"bcast", "send"} => m.at + i - Base(c, m.src) < Block(c, m.src)
  BY DEF Carries
<1>4. CASE c.op = "bcast"
  BY <1>1, <1>4 DEF SourceAt, SendsTo
<1>5. CASE c.op \in {"allgather", "gather"}
  <2>1. at = 0 /\ area = "lib" /\ ~c.symS
    BY <1>5 DEF SourceAt
  <2>2. RecvArea(c) = "lib"
    BY <1>1, <1>5, <2>1 DEF AreaOf
  <2>3. RecvAt(c) = Cells(c)
    BY <1>2, <2>1, <2>2 DEF RecvArea, RecvAt
  <2>4. Base(c, m.src) = Cells(c) + m.src * Cells(c) /\ m.src * Cells(c) \in Nat
    BY <1>1, <1>5, <2>3, BlockPlace DEF Sane
  <2> HIDE DEF c
  <2>5. m.at + i = x
    BY <1>1, <1>2, <2>1
  <2> HIDE DEF i
  <2> QED BY <1>1, <1>2, <1>3, <2>4, <2>5 DEF c
<1>6. CASE c.op = "gatherv"
  <2>1. at = 0
    BY <1>6 DEF SourceAt
  <2>2. Base(c, m.src) >= Cells(c)
    BY <1>1, <1>6, BlockPlace DEF Sane
  <2> HIDE DEF c
  <2>3. m.at + i = x
    BY <1>1, <1>2, <2>1
  <2> HIDE DEF i
  <2> QED BY <1>1, <1>2, <1>3, <2>2, <2>3 DEF c
<1>7. CASE c.op = "isend"
  <2>1. at = Cells(c) /\ Base(c, m.src) = 0 /\ Block(c, m.src) = Cells(c)
    BY <1>7 DEF SourceAt, Base, Block
  <2>2. m.at + i < Cells(c)
    BY <1>1, <1>2, <1>3, <1>7, <2>1
  <2> HIDE DEF c
  <2>3. m.at + i = Cells(c) + x
    BY <1>1, <1>2, <2>1
  <2> HIDE DEF i
  <2> QED BY <1>2, <2>2, <2>3 DEF c
<1> QED
  BY <1>4, <1>5, <1>6, <1>7 DEF SourceAt

(* The data of a call does not change.                                       *)
LEMMA DatumPrime ==
  ASSUME prog' = prog, NEW k, NEW p, NEW x
  PROVE  Datum(k, p, x)' = Datum(k, p, x)
BY DEF Datum

(* A buffer holds the data of a call when it does so cell by cell.           *)
LEMMA HoldsAfter ==
  ASSUME prog' = prog, NEW k, NEW p, NEW area, NEW at,
         \A x \in 0 .. Cells(prog[k]) - 1 : mem'[p][area][at + x] = Datum(k, p, x)
  PROVE  Holds(k, p, area, at)'
BY DatumPrime DEF Holds, Cells, GetNumBytes

(* Memory in which the caller's data have been stored. *)
LEMMA StoreData ==
  ASSUME NEW k, NEW p, NEW area, NEW at \in Int, NEW x \in 0 .. Cells(prog[k]) - 1, at + x \in DOMAIN area
  PROVE  Store(area, at, Data(k, p))[at + x] = Datum(k, p, x)
<1>1. at + x - at = x /\ x \in DOMAIN Data(k, p) /\ Data(k, p)[x] = Datum(k, p, x)
  BY DEF Data
<1>2. Store(area, at, Data(k, p))[at + x] = Data(k, p)[at + x - at]
  BY <1>1, StoreCell
<1> QED
  BY <1>1, <1>2

(* A source after a step that does not pass the puts was a source before it. *)
LEMMA SourceBack ==
  ASSUME prog' = prog, NEW p, NEW k \in Int, pc[p].k = k, pc[p].at \notin {"copy", "barrier"}, NEW area, NEW at,
         SourceAt(p, k, area, at)'
  PROVE  SourceAt(p, k, area, at)
<1>1. ~HasMoved(p, k)
  BY DEF HasMoved
<1> QED
  BY <1>1 DEF SourceAt, Cells, GetNumBytes

(* The steps at the entry of a call put its data where the call reads them. *)
LEMMA EnterSource ==
  ASSUME GoodCalls, Carrying, NEW p \in PE, ~Done(p), prog' = prog,
         BcastEnter(p) \/ GatherEnter(p) \/ GathervEnter(p) \/ IsendEnter(p),
         NEW k, k = pc[p].k, NEW area, NEW at, SourceAt(p, k, area, at)
  PROVE  Holds(k, p, area, at)'
<1> DEFINE c == Call(p)
<1>1. /\ k \in DOMAIN prog /\ c = prog[k] /\ Sane(c) /\ mem \in [PE -> Areas]
  BY InCall, SaneCall DEF Carrying, TypeInv, Memory
<1>2. /\ at \in Nat /\ area \in {"lib", "usr"} /\ Cells(c) \in Nat
      /\ \A x \in 0 .. Cells(c) - 1 : at + x \in DOMAIN mem[p][area] /\ at + x \in Nat
  BY <1>1, SourceFits
<1> SUFFICES ASSUME NEW x \in 0 .. Cells(c) - 1 PROVE mem'[p][area][at + x] = Datum(k, p, x)
  BY <1>1, HoldsAfter
<1>3. at + x \in DOMAIN mem[p][area]
  BY <1>2
<1>4. Store(mem[p][area], at, Data(k, p))[at + x] = Datum(k, p, x)
  <2>1. at \in Int
    BY <1>2
  <2> QED BY <1>1, <1>3, <2>1, StoreData
<1>5. CASE BcastEnter(p)
  <2>1. c.op = "bcast" /\ p = c.root /\ at = 0 /\ (area = "usr" \/ (area = "lib" /\ ~c.symS))
    BY <1>1, <1>5 DEF SourceAt, BcastEnter, In
  <2> DEFINE usr == Store(mem[p].usr, 0, Data(k, p))
  <2>2. mem'[p] = [usr |-> usr, lib |-> IF c.symS THEN mem[p].lib ELSE Store(mem[p].lib, 0, Slice(usr, 0, Cells(c)))]
    BY <1>1, <1>5, <2>1 DEF BcastEnter
  <2>3. CASE area = "usr"
    <3>1. mem'[p].usr = usr
      BY <2>2
    <3> QED BY <1>4, <2>1, <2>3, <3>1
  <2>4. CASE area = "lib"
    <3>1. mem'[p].lib = Store(mem[p].lib, 0, Slice(usr, 0, Cells(c)))
      BY <2>1, <2>2, <2>4
    <3>2. SourceAt(p, k, "usr", 0)
      BY <1>1, <2>1 DEF SourceAt
    <3>3. 0 + x \in DOMAIN mem[p].usr
      BY <1>1, <3>2, SourceFits
    <3>4. usr[0 + x] = Datum(k, p, x)
      BY <1>1, <3>3, StoreData
    <3> HIDE DEF usr, c
    <3>5. Slice(usr, 0, Cells(c))[x] = usr[0 + x] /\ x \in DOMAIN Slice(usr, 0, Cells(c))
      BY DEF Slice
    <3>6. x - 0 = x /\ 0 + x = x /\ at + x = x
      BY <1>2, <2>1
    <3>7. x \in DOMAIN mem[p].lib
      BY <1>3, <2>4, <3>6
    <3>8. Store(mem[p].lib, 0, Slice(usr, 0, Cells(c)))[x] = Slice(usr, 0, Cells(c))[x - 0]
      BY <3>5, <3>6, <3>7, StoreCell
    <3> QED BY <2>4, <3>1, <3>4, <3>5, <3>6, <3>8
  <2> QED BY <2>1, <2>3, <2>4
<1>6. CASE GatherEnter(p) \/ GathervEnter(p)
  <2>1. at = 0 /\ area = "lib" /\ mem' = CopyMyData(p, "lib", 0, Data(k, p))
    BY <1>1, <1>6 DEF GatherEnter, GathervEnter, In, SourceAt
  <2>2. mem'[p].lib = Store(mem[p].lib, 0, Data(k, p))
    BY <1>1, <2>1 DEF CopyMyData, Areas
  <2> QED BY <1>4, <2>1, <2>2
<1>7. CASE IsendEnter(p)
  <2>1. at = Cells(c) /\ area = "lib" /\ mem' = CopyMyData(p, "lib", GetBufferOffset(c), Data(k, p))
    BY <1>1, <1>7 DEF IsendEnter, In, SourceAt
  <2>2. GetBufferOffset(c) = at
    BY <1>1, <2>1, CellsType DEF Sane
  <2>3. mem'[p].lib = Store(mem[p].lib, at, Data(k, p))
    BY <1>1, <2>1, <2>2 DEF CopyMyData, Areas
  <2> QED BY <1>4, <2>1, <2>3
<1> QED
  BY <1>5, <1>6, <1>7

(* The steps in the middle of a call keep them. *)
LEMMA MiddleSource ==
  ASSUME GoodCalls, Carrying, NEW p \in PE, ~Done(p), prog' = prog,
         GathervRecvBuf(p) \/ GathervCheck(p) \/ BcastMove(p),
         NEW k, k = pc[p].k, NEW area, NEW at, SourceAt(p, k, area, at)
  PROVE  Holds(k, p, area, at)'
<1> DEFINE c == Call(p)
<1>0. BarrierInv /\ TypeInv /\ PointInv /\ SourceInv
  BY DEF Carrying
<1>1. /\ k \in DOMAIN prog /\ c = prog[k] /\ Sane(c) /\ mem \in [PE -> Areas]
  BY <1>0, InCall, SaneCall DEF TypeInv, Memory
<1>2. /\ at \in Nat /\ area \in {"lib", "usr"} /\ Cells(c) \in Nat
      /\ \A x \in 0 .. Cells(c) - 1 : at + x \in DOMAIN mem[p][area] /\ at + x \in Nat
  BY <1>1, SourceFits
<1>3. Holds(k, p, area, at)
  <2>1. pc[p].at # "call"
    BY DEF GathervRecvBuf, GathervCheck, BcastMove, In
  <2>2. at \in Int
    BY <1>2
  <2> QED BY <1>0, <1>1, <1>2, <2>1, <2>2 DEF SourceInv
<1>4. ASSUME mem' = mem PROVE Holds(k, p, area, at)'
  <2>1. \A x \in 0 .. Cells(prog[k]) - 1 : mem'[p][area][at + x] = Datum(k, p, x)
    BY <1>3, <1>4 DEF Holds
  <2> QED BY <2>1, HoldsAfter
<1>5. CASE GathervCheck(p)
  BY <1>4, <1>5 DEF GathervCheck, shmemVars
<1>6. CASE BcastMove(p)
  <2> DEFINE words == Slice(IF c.symS THEN mem[p].usr ELSE mem[p].lib, 0, c.count * Quad)
             puts == {PutTo(p, q, "lib", BcastDest(c), words, k) : q \in IF p = c.root THEN PE \ {p} ELSE {}}
  <2>1. Puts(p, puts)
    BY <1>6 DEF BcastMove
  <2>2. \A m \in puts : m.to # p /\ m.area = "lib"
    BY DEF PutTo
  <2> HIDE DEF puts
  <2>3. mem' = mem
    BY <1>1, <2>1, <2>2, PutsFrame
  <2> QED BY <1>4, <2>3
<1>7. CASE GathervRecvBuf(p)
  <2> DEFINE cells == Slice(mem[p].usr, 0, GetNumBytes(TotalNumSent(c), c.type))
  <2>1. /\ c.op = "gatherv" /\ at = 0 /\ area = "lib"
        /\ mem' = CopyMyData(p, "lib", GetBufferOffset(c), cells)
    BY <1>1, <1>7 DEF GathervRecvBuf, In, SourceAt
  <2>2. mem'[p].lib = Store(mem[p].lib, Cells(c), cells) /\ DOMAIN cells = 0 .. GetNumBytes(TotalNumSent(c), c.type) - 1
    BY <1>1, <2>1, CellsType, SliceDomain DEF CopyMyData, Areas, Sane
  <2> HIDE DEF cells, c
  <2>3. ASSUME NEW x \in 0 .. Cells(c) - 1 PROVE mem'[p].lib[0 + x] = Datum(k, p, x)
    <3>0. 0 + x = x
      BY <1>2
    <3>1. x - Cells(c) \notin DOMAIN cells
      BY <1>2, <2>2
    <3>2. x \in DOMAIN mem[p].lib
      BY <1>2, <2>1, <3>0
    <3>3. Store(mem[p].lib, Cells(c), cells)[x] = mem[p].lib[x]
      BY <3>1, <3>2, StoreCell
    <3>4. mem[p].lib[0 + x] = Datum(k, p, x)
      BY <1>1, <1>3, <2>1 DEF Holds
    <3> QED BY <2>2, <3>0, <3>3, <3>4
  <2> QED BY <1>1, <2>1, <2>3, HoldsAfter
<1> QED
  BY <1>5, <1>6, <1>7

(* Only a move goes to the barrier behind the puts. *)
LEMMA ToCopy ==
  ASSUME BarrierInv, NEW p \in PE, Step(p), pc'[p].at = "barrier", pc'[p].then = "copy"
  PROVE  BcastMove(p) \/ AllgatherMove(p) \/ GatherMove(p) \/ GathervMove(p)
<1>1. pc \in [PE -> Place(prog)] /\ pc[p] \in Place(prog)
  BY DEF BarrierInv, PlaceInv
<1>2. ~Return(p)
  BY <1>1 DEF Return
<1>3. ASSUME NEW n, NEW then, then # "copy", Barrier(p, n, then) PROVE FALSE
  <2> DEFINE x == [pc[p] EXCEPT !.at = "barrier", !.left = n, !.then = then]
  <2>1. x.then = then
    BY <1>1 DEF Place
  <2>2. pc' = [pc EXCEPT ![p] = x]
    BY <1>1, <1>3 DEF Barrier
  <2> HIDE DEF x
  <2> QED BY <1>1, <1>3, <2>1, <2>2
<1>4. ~Goto(p, "spin")
  <2> SUFFICES ASSUME Goto(p, "spin") PROVE FALSE
    OBVIOUS
  <2>1. [pc[p] EXCEPT !.at = "spin"].at = "spin"
    BY <1>1 DEF Place
  <2> QED BY <1>1, <2>1 DEF Goto
<1>5. ~Barrier(p, 1, "return") /\ ~Barrier(p, 1, "move") /\ ~Barrier(p, 1, "recvbuf") /\ ~Barrier(p, 1, "check")
      /\ ~Barrier(p, 1, "group") /\ ~Barrier(p, CommAllocations, "comm") /\ ~Barrier(p, 3, "freed")
  BY <1>3
<1>6. CASE Collective(p)
  BY <1>2, <1>5, <1>6 DEF Collective, MPI_Barrier, MPI_Iprobe, BarrierReturn, BcastEnter, BcastCopy,
     GatherNull, GatherEnter, GatherCopy, GathervEnter, GathervRecvBuf, GathervCheck, GathervCopy
<1>7. CASE PointToPoint(p)
  BY <1>2, <1>4, <1>5, <1>7 DEF PointToPoint, NotMine, MPI_SendByValue, MPI_SendFlagged, SendReturn, MPI_Recv,
     IsendEnter, IsendMove, IrecvEnter, IrecvMove, MPI_Test
<1>8. CASE Management(p)
  BY <1>2, <1>5, <1>8 DEF Management, GroupEnter, MPI_Group_incl, CommEnter, HeapReturn, MPI_Comm_create,
     MPI_Comm_dup, CommFreeEnter, MPI_Comm_free, MPI_Comm_rank
<1>9. CASE Packing(p)
  BY <1>2, <1>9 DEF Packing, PackNoSpace, MPI_Pack, MPI_Unpack
<1> QED
  BY <1>6, <1>7, <1>8, <1>9 DEF Step

(* What a put that arrives, or that a PE makes to itself, changes. *)
Stores(m) == mem' = [mem EXCEPT ![m.to][m.area] = Store(@, m.at, m.cells)]

(* A cell after a put has arrived.                                           *)
LEMMA StoredCell ==
  ASSUME mem \in [PE -> Areas], NEW m, Stores(m), Carries(m),
         NEW q \in PE, NEW area \in {"lib", "usr"}, NEW x \in DOMAIN mem[q][area]
  PROVE  /\ m.to = q /\ m.area = area /\ x - m.at \in DOMAIN m.cells =>
              mem'[q][area][x] = m.cells[x - m.at]
         /\ ~(m.to = q /\ m.area = area /\ x - m.at \in DOMAIN m.cells) =>
              mem'[q][area][x] = mem[q][area][x]
<1>1. m.to \in PE /\ m.area \in {"lib", "usr"}
  BY PutArea DEF Carries
<1>2. mem' = [mem EXCEPT ![m.to][m.area] = Store(@, m.at, m.cells)]
  BY DEF Stores
<1>3. ~(m.to = q /\ m.area = area) => mem'[q][area] = mem[q][area]
  <2>1. m.to # q => mem'[q] = mem[q]
    BY <1>1, <1>2
  <2>2. ASSUME m.to = q, m.area # area PROVE mem'[q][area] = mem[q][area]
    BY <1>1, <1>2, <2>2 DEF Areas
  <2> QED BY <2>1, <2>2
<1>4. m.to = q /\ m.area = area => mem'[q][area] = Store(mem[q][area], m.at, m.cells)
  BY <1>1, <1>2 DEF Areas
<1>5. /\ x - m.at \in DOMAIN m.cells => Store(mem[q][area], m.at, m.cells)[x] = m.cells[x - m.at]
      /\ x - m.at \notin DOMAIN m.cells => Store(mem[q][area], m.at, m.cells)[x] = mem[q][area][x]
  BY StoreCell
<1> QED
  BY <1>3, <1>4, <1>5

(* The step that makes a buffer a source has stored the data in it.          *)
LEMMA OwnSource ==
  ASSUME GoodCalls, Carrying, NEW p \in PE, Step(p), pc'[p].at # "call",
         NEW k \in DOMAIN prog, k = pc'[p].k, NEW area, NEW at, SourceAt(p, k, area, at)'
  PROVE  Holds(k, p, area, at)'
<1>0. BarrierInv /\ TypeInv /\ PointInv /\ SourceInv /\ UniformPrograms /\ ~Done(p)
  BY DEF Carrying, GoodCalls, Step
<1>1. /\ prog' = prog /\ k = pc[p].k
      /\ (pc'[p].at = "spin" /\ Call(p).op = "send") \/ pc'[p].at = "barrier"
  BY <1>0, StepTo
<1>2. Call(p) = prog[k] /\ k \in Int
  BY <1>0, <1>1, InCall
<1>3. Call(p).op \in {"bcast", "allgather", "gather", "gatherv", "isend"}
  BY <1>1, <1>2 DEF SourceAt
<1>4. ~Return(p)
  <2>1. pc[p] \in Place(prog) /\ pc \in [PE -> Place(prog)]
    BY <1>0 DEF BarrierInv, PlaceInv
  <2> QED BY <2>1 DEF Return
<1>5. \/ BcastEnter(p) \/ GatherEnter(p) \/ GathervEnter(p) \/ IsendEnter(p)
      \/ GathervRecvBuf(p) \/ GathervCheck(p) \/ BcastMove(p)
      \/ AllgatherMove(p) \/ GatherMove(p) \/ GathervMove(p)
  <2>1. CASE Collective(p)
    BY <1>3, <1>4, <2>1 DEF Collective, MPI_Barrier, MPI_Iprobe, BarrierReturn, BcastCopy,
       GatherNull, GatherCopy, GathervCopy, In
  <2>2. CASE PointToPoint(p)
    BY <1>3, <1>4, <2>2 DEF PointToPoint, NotMine, MPI_SendByValue, MPI_SendFlagged, SendReturn, MPI_Recv,
       IsendMove, IrecvEnter, IrecvMove, MPI_Test, In
  <2>3. CASE Management(p)
    BY <1>3, <1>4, <2>3 DEF Management, GroupEnter, MPI_Group_incl, CommEnter, HeapReturn, MPI_Comm_create,
       MPI_Comm_dup, CommFreeEnter, MPI_Comm_free, MPI_Comm_rank, In
  <2>4. CASE Packing(p)
    BY <1>4, <2>4 DEF Packing, PackNoSpace, MPI_Pack, MPI_Unpack
  <2> QED BY <2>1, <2>2, <2>3, <2>4 DEF Step
<1>6. pc[p].at \notin {"copy", "barrier"}
  BY <1>5 DEF BcastEnter, GatherEnter, GathervEnter, IsendEnter, GathervRecvBuf, GathervCheck, BcastMove,
     AllgatherMove, GatherMove, GathervMove, In
<1>7. SourceAt(p, k, area, at)
  BY <1>1, <1>2, <1>6, SourceBack
<1>8. CASE BcastEnter(p) \/ GatherEnter(p) \/ GathervEnter(p) \/ IsendEnter(p)
  BY <1>0, <1>1, <1>7, <1>8, EnterSource
<1>9. CASE GathervRecvBuf(p) \/ GathervCheck(p) \/ BcastMove(p)
  BY <1>0, <1>1, <1>7, <1>9, MiddleSource
<1>10. CASE AllgatherMove(p) \/ GatherMove(p) \/ GathervMove(p)
  <2>1. Call(p).op \in {"allgather", "gather", "gatherv"} /\ Barrier(p, 1, "copy")
    BY <1>10 DEF AllgatherMove, GatherMove, GathervMove, In
  <2>2. pc'[p].then = "copy" /\ pc'[p].at = "barrier"
    <3>1. pc[p] \in Place(prog) /\ pc \in [PE -> Place(prog)]
      BY <1>0 DEF BarrierInv, PlaceInv
    <3> DEFINE x == [pc[p] EXCEPT !.at = "barrier", !.left = 1, !.then = "copy"]
    <3>2. x.then = "copy" /\ x.at = "barrier"
      BY <3>1 DEF Place
    <3>3. pc' = [pc EXCEPT ![p] = x]
      BY <2>1, <3>1 DEF Barrier
    <3> HIDE DEF x
    <3> QED BY <3>1, <3>2, <3>3
  <2>3. HasMoved(p, k)'
    BY <2>2 DEF HasMoved
  <2> QED BY <1>1, <1>2, <2>1, <2>3 DEF SourceAt
<1> QED
  BY <1>5, <1>8, <1>9, <1>10

(* A buffer that is left alone holds what it held.                           *)
LEMMA HoldsFrame ==
  ASSUME prog' = prog, NEW p, mem'[p] = mem[p], NEW k, NEW area, NEW at, Holds(k, p, area, at)
  PROVE  Holds(k, p, area, at)'
<1>1. \A x \in 0 .. Cells(prog[k]) - 1 : mem'[p][area][at + x] = Datum(k, p, x)
  BY DEF Holds
<1> QED
  BY <1>1, HoldsAfter

(* A PE that stays where it is has the sources it had.                       *)
LEMMA SourceSame ==
  ASSUME prog' = prog, NEW p, NEW k, HasMoved(p, k) => HasMoved(p, k)', NEW area, NEW at, SourceAt(p, k, area, at)'
  PROVE  SourceAt(p, k, area, at)
BY DEF SourceAt, Cells, GetNumBytes

(* A put that arrives at a PE in a call that needs its memory is a put of    *)
(* that call.                                                                *)
LEMMA ArrivesInCall ==
  ASSUME SeparatedPrograms, Carrying, NEW m \in wire, NEW p \in PE, m.to = p,
         NEW k \in DOMAIN prog, pc[p].k = k, Needs(prog[k], p)
  PROVE  m.id = k /\ Carries(m)
<1>1. Carries(m) /\ Ahead(prog, pc[p]) = PutEpoch(prog, m.id)
  BY DEF Carrying, WireInv
<1>2. m.id \in DOMAIN prog /\ Reaches(prog[m.id], p)
  BY <1>1 DEF Carries, Reaches, Travels, SendsTo
<1>3. prog \in Programs /\ pc[p] \in Place(prog) /\ Separated(prog)
  BY DEF Carrying, BarrierInv, PlaceInv, SeparatedPrograms
<1> QED
  BY <1>1, <1>2, <1>3, Undisturbed

LEMMA SourceInvInit == Init => SourceInv
BY DEF Init, SourceInv

(* A PE's data stays in its buffers until it has been put: puts of other     *)
(* calls that would overwrite it are separated from it by a barrier.         *)
LEMMA SourceInvNext ==
  ASSUME GoodCalls, SeparatedPrograms, Carrying, [Next]_vars
  PROVE  SourceInv'
<1>0. BarrierInv /\ TypeInv /\ PointInv /\ WireInv /\ SourceInv /\ mem \in [PE -> Areas] /\ prog \in Programs
  BY DEF Carrying, TypeInv, Memory, PlaceInv
<1>1. prog' = prog
  <2>1. (\E r \in PE : Step(r)) => prog' = prog
    BY StepMoves
  <2> QED BY <2>1 DEF Next, Arrival, BarrierAll, HeapFull, vars, callVars
<1> SUFFICES ASSUME NEW p \in PE, NEW k \in DOMAIN prog, pc'[p].k = k, pc'[p].at # "call",
                    NEW area \in {"lib", "usr"}, NEW at \in Int, SourceAt(p, k, area, at)'
             PROVE  Holds(k, p, area, at)'
  BY <1>1 DEF SourceInv
<1>2. ASSUME SourceAt(p, k, area, at), pc[p].k = k, pc[p].at # "call" PROVE Holds(k, p, area, at)
  BY <1>0, <1>2 DEF SourceInv
<1>3. ASSUME pc'[p] = pc[p] PROVE SourceAt(p, k, area, at) /\ Holds(k, p, area, at)
  <2>1. HasMoved(p, k) => HasMoved(p, k)'
    BY <1>3 DEF HasMoved
  <2>2. SourceAt(p, k, area, at)
    BY <1>1, <2>1, SourceSame
  <2> QED BY <1>2, <1>3, <2>2
<1>4. CASE \E r \in PE : Step(r)
  <2>1. PICK r \in PE : Step(r)
    BY <1>4
  <2>2. CASE r = p
    BY <2>1, <2>2, OwnSource
  <2>3. CASE r # p
    <3>1. pc'[p] = pc[p] /\ mem'[p] = mem[p]
      BY <1>0, <2>1, <2>3, StepTo, StepFrame DEF GoodCalls, Frame
    <3> QED BY <1>1, <1>3, <3>1, HoldsFrame
  <2> QED BY <2>2, <2>3
<1>5. CASE BarrierAll \/ HeapFull
  <2>1. /\ pc'[p].k = pc[p].k /\ pc[p].at = "barrier" /\ mem' = mem
        /\ \/ pc'[p].at = "barrier" /\ pc'[p].then = pc[p].then
           \/ pc'[p].at = pc[p].then
           \/ pc'[p].at = "failed" /\ pc[p].then \in {"comm", "group"}
    BY <1>0, <1>5, BarrierTo
  <2>2. HasMoved(p, k) => HasMoved(p, k)'
    BY <2>1 DEF HasMoved
  <2>3. SourceAt(p, k, area, at)
    BY <1>1, <2>2, SourceSame
  <2>4. Holds(k, p, area, at)
    BY <1>2, <2>1, <2>3
  <2> QED BY <1>1, <2>1, <2>4, HoldsFrame
<1>6. CASE Arrival
  <2>1. PICK m \in wire : Deliver(m) /\ UNCHANGED <<pc, callVars>>
    BY <1>6 DEF Arrival
  <2>2. SourceAt(p, k, area, at) /\ Holds(k, p, area, at) /\ pc[p].k = k
    BY <1>3, <2>1
  <2>3. Carries(m)
    BY <1>0 DEF WireInv
  <2>4. Sane(prog[k])
    BY <1>0, SaneCall
  <2> SUFFICES ASSUME NEW x \in 0 .. Cells(prog[k]) - 1 PROVE mem'[p][area][at + x] = Datum(k, p, x)
    BY <1>1, HoldsAfter
  <2>5. mem[p][area][at + x] = Datum(k, p, x) /\ at + x \in DOMAIN mem[p][area]
    BY <1>0, <2>2, <2>4, SourceFits DEF Holds
  <2>6. m.to = p => m.id = k
    <3>1. Needs(prog[k], p)
      BY <2>2 DEF SourceAt, Needs
    <3> QED BY <2>2, <3>1, ArrivesInCall
  <2>7. PICK z : z = at + x
    OBVIOUS
  <2>8. ~(m.to = p /\ m.area = area /\ z - m.at \in DOMAIN m.cells)
    BY <2>2, <2>3, <2>4, <2>6, <2>7, SourceClear
  <2>9. z \in DOMAIN mem[p][area]
    BY <2>5, <2>7
  <2>10. Stores(m)
    BY <2>1 DEF Deliver, Stores
  <2>11. mem'[p][area][z] = mem[p][area][z]
    BY <1>0, <2>3, <2>8, <2>9, <2>10, StoredCell
  <2> QED BY <2>5, <2>7, <2>11
<1>7. CASE UNCHANGED vars
  <2>1. pc' = pc /\ mem' = mem
    BY <1>7 DEF vars, shmemVars
  <2> QED BY <1>1, <1>3, <2>1, HoldsFrame
<1> QED
  BY <1>4, <1>5, <1>6, <1>7 DEF Next

-----------------------------------------------------------------------------
(* The data a call has sent are where they belong, or on their way.          *)

(* A block is safe when each cell is there or on its way.                    *)
LEMMA SafeAfter ==
  ASSUME prog' = prog, NEW k, NEW p, NEW q,
         \A x \in 0 .. Block(prog[k], p) - 1 : \A z \in Int :
           z = Base(prog[k], p) + x =>
             mem'[q][AreaOf(prog[k])][z] = Datum(k, p, x) \/ OnTheWay(k, p, q, z)'
  PROVE  Safe(k, p, q)'
<1>1. /\ Block(prog[k], p)' = Block(prog[k], p) /\ AreaOf(prog[k])' = AreaOf(prog[k])
      /\ Base(prog[k], p)' = Base(prog[k], p)
  BY DEF Block, AreaOf, Base, RecvArea, RecvAt, BcastDest, GetBufferOffset, Cells, GetNumBytes, Displs
<1>2. \A x : Datum(k, p, x)' = Datum(k, p, x)
  BY DatumPrime
<1> QED
  BY <1>1, <1>2 DEF Safe, There

(* Cells stay on their way while no put arrives.                             *)
LEMMA OnTheWayFrame ==
  ASSUME NEW k, NEW p, NEW q, NEW z, wire \subseteq wire', OnTheWay(k, p, q, z)
  PROVE  OnTheWay(k, p, q, z)'
BY DEF OnTheWay

(* A block stays safe while its place is left alone.                         *)
LEMMA SafeFrame ==
  ASSUME prog' = prog, NEW k, NEW p, NEW q, mem'[q] = mem[q], wire \subseteq wire', Safe(k, p, q)
  PROVE  Safe(k, p, q)'
<1>1. ASSUME NEW x \in 0 .. Block(prog[k], p) - 1, NEW z \in Int, z = Base(prog[k], p) + x
      PROVE  mem'[q][AreaOf(prog[k])][z] = Datum(k, p, x) \/ OnTheWay(k, p, q, z)'
  <2>1. There(k, p, q, x, z) \/ OnTheWay(k, p, q, z)
    BY <1>1 DEF Safe
  <2> QED BY <2>1, OnTheWayFrame DEF There
<1> QED
  BY <1>1, SafeAfter

(* What a cell of a put carries, by the place it is for. *)
LEMMA CarriedCell ==
  ASSUME NEW m, Carries(m), NEW z \in Int, z - m.at \in DOMAIN m.cells,
         Base(prog[m.id], m.src) \in Int, NEW x \in Int, z = Base(prog[m.id], m.src) + x
  PROVE  /\ x >= 0
         /\ x < Block(prog[m.id], m.src) => m.cells[z - m.at] = Datum(m.id, m.src, x)
         /\ prog[m.id].op \notin {"bcast", "send"} => x < Block(prog[m.id], m.src)
<1>1. PICK b \in Int : b = Base(prog[m.id], m.src)
  OBVIOUS
<1>2. PICK a \in Int : a = m.at
  BY DEF Carries
<1>3. PICK i \in Int : i = z - m.at
  BY <1>2
<1>4. a + i - b = x
  BY <1>1, <1>2, <1>3
<1>5. PICK y : y = m.at + i - Base(prog[m.id], m.src)
  OBVIOUS
<1>6. /\ y >= 0
      /\ y < Block(prog[m.id], m.src) => m.cells[i] = Datum(m.id, m.src, y)
      /\ prog[m.id].op \notin {"bcast", "send"} => y < Block(prog[m.id], m.src)
  BY <1>3, <1>5 DEF Carries
<1>7. y = x
  BY <1>1, <1>2, <1>4, <1>5
<1> QED BY <1>3, <1>6, <1>7

(* A call that sends blocks. *)
Blocked(c) ==
  /\ Sane(c)
  /\ Moving(c) \/ c.op = "isend" \/ (c.op = "send" /\ Cells(c) <= LibLen)

(* A block lies within the buffer.                                           *)
LEMMA BlockFits ==
  ASSUME mem \in [PE -> Areas], NEW c, Blocked(c), NEW p \in PE, NEW q \in PE
  PROVE  /\ AreaOf(c) \in {"lib", "usr"} /\ Base(c, p) \in Nat /\ Block(c, p) \in Nat
         /\ \A x \in 0 .. Block(c, p) - 1 : \A z : z = Base(c, p) + x => z \in DOMAIN mem[q][AreaOf(c)] /\ z \in Nat
<1>1. /\ Cells(c) \in Nat /\ GetBufferOffset(c) = Cells(c) /\ FittingCall(c) /\ LibLen \in Nat /\ UsrLen \in Nat
      /\ Sane(c) /\ MovesBlocks(c) /\ p \in Nat /\ NumPes \in Nat /\ p < NumPes
  <2>1. p < NumPes
    BY PeFacts DEF PE
  <2> QED BY <2>1, CellsType, Sizes, PeFacts DEF Sane, Blocked
<1>2. mem[q].lib \in [0 .. LibLen - 1 -> Int] /\ mem[q].usr \in [0 .. UsrLen - 1 -> Int]
  BY AreaTypes
<1>3. Base(c, p) \in Nat /\ Block(c, p) \in Nat /\ AreaOf(c) \in {"lib", "usr"}
  BY BlockPlace, PutArea DEF Blocked, Sane
<1>4. Base(c, p) + Block(c, p) <= IF AreaOf(c) = "lib" THEN LibLen ELSE UsrLen
  <2>1. CASE c.op = "bcast"
    BY <1>1, <2>1 DEF FittingCall, FitsCollective, Base, Block, AreaOf
  <2>2. CASE c.op \in {"allgather", "gather"}
    <3>1. Base(c, p) = RecvAt(c) + p * Cells(c) /\ p * Cells(c) \in Nat /\ Block(c, p) = Cells(c)
      BY <2>2, BlockPlace DEF Blocked, Sane
    <3>2. p * Cells(c) + Cells(c) <= NumPes * Cells(c) /\ NumPes * Cells(c) \in Nat
      BY <1>1, ElementFits
    <3>3. NumPes * Cells(c) <= UsrLen
      BY <1>1, <2>2 DEF MovesBlocks
    <3>4. CASE c.symR
      <4>1. AreaOf(c) = "usr" /\ RecvAt(c) = 0
        BY <2>2, <3>4 DEF AreaOf, RecvArea, RecvAt
      <4> QED BY <1>1, <3>1, <3>2, <3>3, <4>1
    <3>5. CASE ~c.symR
      <4>1. AreaOf(c) = "lib" /\ RecvAt(c) \in Nat /\ RecvAt(c) + NumPes * Cells(c) <= LibLen
        BY <1>1, <2>2, <3>5 DEF AreaOf, RecvArea, RecvAt, FittingCall, FitsCollective
      <4> QED BY <1>1, <3>1, <3>2, <4>1
    <3> QED BY <3>4, <3>5
  <2>3. CASE c.op = "gatherv"
    <3> DEFINE at == GetNumBytes(Displs(c)[p], c.type)
               total == GetNumBytes(TotalNumSent(c), "int")
    <3>1. Cells(c) + total <= LibLen
      BY <1>1, <2>3 DEF FittingCall, FitsCollective
    <3>2. at \in Nat /\ at + Block(c, p) <= total
      <4>1. ~Short(c, 0)
        BY <2>3 DEF Blocked, Moving
      <4> QED BY <1>1, <2>3, <4>1 DEF MovesBlocks, Block
    <3>3. total \in Nat
      <4>1. TotalNumSent(c) \in Nat /\ Width["int"] \in Nat
        BY <1>1, <2>3, MpiAssumption DEF FittingCall, FitsCollective
      <4> QED BY <4>1, TimesNat DEF GetNumBytes
    <3>4. Base(c, p) = Cells(c) + at /\ AreaOf(c) = "lib"
      BY <2>3 DEF Base, AreaOf
    <3> HIDE DEF at, total
    <3> QED BY <1>1, <1>3, <3>1, <3>2, <3>3, <3>4
  <2>4. CASE c.op = "isend"
    BY <1>1, <2>4 DEF FittingCall, FitsOther, Base, Block, AreaOf
  <2>5. CASE c.op = "send"
    <3>1. Cells(c) <= LibLen
      BY <2>5 DEF Blocked, Moving
    <3> QED BY <1>1, <2>5, <3>1 DEF Base, Block, AreaOf
  <2> QED BY <2>1, <2>2, <2>3, <2>4, <2>5 DEF Blocked, Moving
<1>5. ASSUME NEW x \in 0 .. Block(c, p) - 1, NEW z, z = Base(c, p) + x
      PROVE  z \in DOMAIN mem[q][AreaOf(c)] /\ z \in Nat
  <2>1. PICK b \in Nat : b = Base(c, p)
    BY <1>3
  <2>2. PICK n \in Nat : n = Block(c, p)
    BY <1>3
  <2>3. z = b + x /\ x \in Nat /\ x < n
    BY <1>5, <2>1, <2>2
  <2>4. z \in Nat /\ z < b + n
    BY <2>3
  <2>5. CASE AreaOf(c) = "lib"
    <3>1. b + n <= LibLen
      BY <1>4, <2>1, <2>2, <2>5
    <3>2. z \in 0 .. LibLen - 1
      BY <1>1, <2>4, <3>1
    <3> QED BY <1>2, <2>4, <2>5, <3>2
  <2>6. CASE AreaOf(c) = "usr"
    <3>1. b + n <= UsrLen
      BY <1>4, <2>1, <2>2, <2>6
    <3>2. z \in 0 .. UsrLen - 1
      BY <1>1, <2>4, <3>1
    <3> QED BY <1>2, <2>4, <2>6, <3>2
  <2> QED BY <1>3, <2>5, <2>6
<1> QED
  BY <1>3, <1>5

(* Every PE is the next one of one PE only. *)
LEMMA NextPeApart ==
  ASSUME NEW p \in PE, NEW r \in PE, NextPe(p) = NextPe(r)
  PROVE  p = r
<1>1. NumPes \in Nat \ {0} /\ p \in 0 .. NumPes - 1 /\ r \in 0 .. NumPes - 1
  BY ShmemAssumption DEF PE
<1>2. \A s \in 0 .. NumPes - 1 : (s + 1) % NumPes = IF s + 1 = NumPes THEN 0 ELSE s + 1
  BY <1>1
<1>3. /\ NextPe(p) = IF p + 1 = NumPes THEN 0 ELSE p + 1
      /\ NextPe(r) = IF r + 1 = NumPes THEN 0 ELSE r + 1
  BY <1>1, <1>2 DEF NextPe
<1>4. (IF p + 1 = NumPes THEN 0 ELSE p + 1) = (IF r + 1 = NumPes THEN 0 ELSE r + 1)
  BY <1>3
<1> QED
  BY <1>1, <1>4

(* The blocks of different PEs do not overlap. *)
LEMMA BlocksApart ==
  ASSUME NEW c, Blocked(c), NEW p \in PE, NEW r \in PE, p # r, NEW q, SendsTo(c, p, q), SendsTo(c, r, q),
         NEW x \in 0 .. Block(c, p) - 1, NEW y \in 0 .. Block(c, r) - 1
  PROVE  Base(c, p) + x # Base(c, r) + y
<1>1. Cells(c) \in Nat /\ Sane(c) /\ MovesBlocks(c) /\ p \in Nat /\ r \in Nat
  BY CellsType, PeFacts DEF Sane, Blocked
<1>2. /\ Base(c, p) \in Nat /\ Block(c, p) \in Nat /\ Base(c, r) \in Nat /\ Block(c, r) \in Nat
  BY BlockPlace DEF Blocked, Sane
<1>3. CASE c.op \in {"allgather", "gather"}
  <2>1. /\ Base(c, p) = RecvAt(c) + p * Cells(c) /\ Block(c, p) = Cells(c) /\ p * Cells(c) \in Nat
        /\ Base(c, r) = RecvAt(c) + r * Cells(c) /\ Block(c, r) = Cells(c) /\ r * Cells(c) \in Nat
    BY <1>3, BlockPlace DEF Blocked, Sane
  <2>2. RecvAt(c) \in Nat
    BY <1>1, CellsType DEF RecvAt, Sane
  <2>3. p < r => p * Cells(c) + Cells(c) <= r * Cells(c)
    BY <1>1, ElementFits
  <2>4. r < p => r * Cells(c) + Cells(c) <= p * Cells(c)
    BY <1>1, ElementFits
  <2>5. p < r \/ r < p
    BY <1>1
  <2> DEFINE a == p * Cells(c)
             b == r * Cells(c)
  <2> HIDE DEF a, b
  <2>6. a \in Nat /\ b \in Nat /\ (a + Cells(c) <= b \/ b + Cells(c) <= a)
    BY <2>1, <2>3, <2>4, <2>5 DEF a, b
  <2>7. Base(c, p) = RecvAt(c) + a /\ Base(c, r) = RecvAt(c) + b
    BY <2>1 DEF a, b
  <2>8. x \in Nat /\ x < Cells(c) /\ y \in Nat /\ y < Cells(c)
    BY <1>1, <2>1
  <2> QED BY <1>1, <2>2, <2>6, <2>7, <2>8
<1>4. CASE c.op = "gatherv"
  <2> DEFINE a == GetNumBytes(Displs(c)[p], c.type)
             b == GetNumBytes(Displs(c)[r], c.type)
  <2>1. ~Short(c, 0)
    BY <1>4 DEF Blocked, Moving
  <2>2. /\ a \in Nat /\ b \in Nat /\ (a + Block(c, p) <= b \/ b + Block(c, r) <= a)
    BY <1>1, <1>4, <2>1 DEF MovesBlocks, Block
  <2>3. Base(c, p) = Cells(c) + a /\ Base(c, r) = Cells(c) + b
    BY <1>4 DEF Base
  <2> HIDE DEF a, b
  <2>4. x \in Nat /\ x < Block(c, p) /\ y \in Nat /\ y < Block(c, r)
    BY <1>2
  <2> QED BY <1>1, <1>2, <2>2, <2>3, <2>4
<1>5. CASE c.op \in {"bcast", "send"}
  BY <1>5 DEF SendsTo
<1>6. CASE c.op = "isend"
  BY <1>6, NextPeApart DEF SendsTo
<1> QED
  BY <1>3, <1>4, <1>5, <1>6 DEF Blocked, Moving

(* The barriers of a call that moves blocks, from every point of it. *)
LEMMA MovingHere ==
  ASSUME BarrierInv, PointInv, NEW q \in PE, NEW k \in DOMAIN prog, pc[q].k = k, Moving(prog[k])
  PROVE  /\ ~Done(q) /\ pc[q].at \in {"call", "barrier", "move", "copy", "recvbuf", "check"}
         /\ pc[q].at = "barrier" => Here(prog, pc[q]) = {pc[q]}
         /\ pc[q].at = "copy" => Here(prog, pc[q]) = {}
         /\ pc[q].at = "move" => Here(prog, pc[q]) = {At(k, 1, "copy")}
         /\ pc[q].at \in {"call", "recvbuf", "check"} =>
              \E then \in {"move", "recvbuf", "check"} : Here(prog, pc[q]) = {At(k, 1, then)}
<1>1. ~Done(q) /\ prog \in Programs
  <2>1. prog \in Programs
    BY DEF BarrierInv, PlaceInv
  <2>2. k <= Len(prog) /\ k \in Nat /\ Len(prog) \in Nat
    BY <2>1, ProgFacts
  <2> QED BY <2>1, <2>2 DEF Done
<1>2. Inside(prog[k], pc[q])
  BY <1>1 DEF PointInv, Call
<1>3. pc[q].at \in {"call", "barrier", "move", "copy", "recvbuf", "check"}
  BY <1>2 DEF Inside, PointsOf, Moving
<1>4. pc[q].at = "barrier" => Here(prog, pc[q]) = {pc[q]}
  BY DEF Here
<1>5. ASSUME pc[q].at \in {"move", "copy", "recvbuf", "check"}
      PROVE  Here(prog, pc[q]) = Middle(prog, k, pc[q].at) /\ pc[q].at \in PointsOf(prog[k])
  <2>1. Here(prog, pc[q]) = Middle(prog, k, pc[q].at)
    BY <1>1, <1>5, HereInCall
  <2> QED BY <1>2, <1>5, <2>1 DEF Inside
<1>6. pc[q].at = "copy" => Here(prog, pc[q]) = {}
  BY <1>5 DEF Middle
<1>7. pc[q].at = "move" => Here(prog, pc[q]) = {At(k, 1, "copy")}
  BY <1>5 DEF Middle, Moving
<1>8. pc[q].at = "call" => \E then \in {"move", "recvbuf", "check"} : Here(prog, pc[q]) = {At(k, 1, then)}
  <2> SUFFICES ASSUME pc[q].at = "call" PROVE \E then \in {"move", "recvbuf", "check"} : Here(prog, pc[q]) = {At(k, 1, then)}
    OBVIOUS
  <2>1. Here(prog, pc[q]) = Entry(prog, k)
    BY <1>1, HereAtCall
  <2> QED BY <2>1 DEF Entry, Moving
<1>9. pc[q].at \in {"recvbuf", "check"} => \E then \in {"move", "recvbuf", "check"} : Here(prog, pc[q]) = {At(k, 1, then)}
  <2> SUFFICES ASSUME pc[q].at \in {"recvbuf", "check"}
               PROVE \E then \in {"move", "recvbuf", "check"} : Here(prog, pc[q]) = {At(k, 1, then)}
    OBVIOUS
  <2>1. Here(prog, pc[q]) = Middle(prog, k, pc[q].at) /\ pc[q].at \in PointsOf(prog[k])
    BY <1>5
  <2>2. prog[k].op = "gatherv" /\ ~Short(prog[k], 0)
    BY <2>1 DEF PointsOf, Moving
  <2> QED BY <2>1, <2>2 DEF Middle
<1> QED
  BY <1>1, <1>3, <1>4, <1>6, <1>7, <1>8, <1>9

(* The parts of a place in a barrier.                                        *)
LEMMA AtParts ==
  \A k, n, then : At(k, n, then).k = k /\ At(k, n, then).then = then
BY DEF At

(* Once a PE has moved its block, every PE in the call is at or behind its   *)
(* own move.                                                                 *)
LEMMA MovedPlace ==
  ASSUME BarrierInv, PointInv, NEW p \in PE, NEW q \in PE, NEW k \in DOMAIN prog, Moving(prog[k]),
         HasMoved(p, k), pc[q].k = k
  PROVE  pc[q].at \in {"move", "copy"} \/ (pc[q].at = "barrier" /\ pc[q].then = "copy")
<1>1. /\ prog \in Programs /\ pc[p] \in Place(prog) /\ pc[q] \in Place(prog) /\ k \in Nat
      /\ Ahead(prog, pc[p]) = Ahead(prog, pc[q])
  BY ProgFacts DEF BarrierInv, PlaceInv, SameAhead
<1>2. \A b \in Ahead(prog, pc[p]) : b.k = k => b.then = "copy"
  <2>1. /\ pc[p].k \in Nat
        /\ Ahead(prog, pc[p]) = Here(prog, pc[p]) \cup Later(prog, pc[p].k + 1)
        /\ \A b \in Ahead(prog, pc[p]) : b.k \in Nat /\ b.k >= pc[p].k
        /\ \A b \in Later(prog, pc[p].k + 1) : b.k > pc[p].k
    BY <1>1, AheadParts
  <2>2. CASE pc[p].k > k
    BY <1>1, <2>1, <2>2
  <2>3. CASE pc[p].k = k
    <3>1. pc[p].at = "copy" \/ (pc[p].at = "barrier" /\ pc[p].then = "copy")
      BY <1>1, <2>3 DEF HasMoved
    <3>2. \A b \in Here(prog, pc[p]) : b.then = "copy"
      BY <2>3, <3>1, MovingHere
    <3>3. \A b \in Later(prog, pc[p].k + 1) : b.k # k
      BY <1>1, <2>1, <2>3
    <3> QED BY <2>1, <3>2, <3>3
  <2> QED BY <2>2, <2>3 DEF HasMoved
<1>3. /\ Ahead(prog, pc[q]) = Here(prog, pc[q]) \cup Later(prog, pc[q].k + 1)
      /\ \A b \in Here(prog, pc[q]) : b.k = k
  BY <1>1, AheadParts
<1>4. \A b \in Here(prog, pc[q]) : b.then = "copy"
  BY <1>1, <1>2, <1>3
<1>5. CASE pc[q].at \in {"call", "recvbuf", "check"}
  <2>1. PICK then \in {"move", "recvbuf", "check"} : Here(prog, pc[q]) = {At(k, 1, then)}
    BY <1>5, MovingHere
  <2>2. At(k, 1, then).then = "copy"
    BY <1>4, <2>1
  <2> QED BY <2>1, <2>2, AtParts
<1>6. CASE pc[q].at = "barrier"
  <2>1. Here(prog, pc[q]) = {pc[q]}
    BY <1>6, MovingHere
  <2> QED BY <1>4, <1>6, <2>1
<1> QED
  BY <1>5, <1>6, MovingHere

(* A PE that copies out of the buffer does so when all PEs have moved their  *)
(* blocks.                                                                   *)
LEMMA AllMoved ==
  ASSUME BarrierInv, PointInv, NEW p \in PE, NEW q \in PE, NEW k \in DOMAIN prog, Moving(prog[k]),
         pc[q].k = k, pc[q].at = "copy"
  PROVE  HasMoved(p, k)
<1>1. /\ prog \in Programs /\ pc[p] \in Place(prog) /\ pc[q] \in Place(prog) /\ k \in Nat
      /\ Ahead(prog, pc[p]) = Ahead(prog, pc[q])
  BY ProgFacts DEF BarrierInv, PlaceInv, SameAhead
<1>2. \A b \in Ahead(prog, pc[p]) : b.k # k
  <2>1. /\ Ahead(prog, pc[q]) = Here(prog, pc[q]) \cup Later(prog, pc[q].k + 1)
        /\ \A b \in Later(prog, pc[q].k + 1) : b.k > pc[q].k
    BY <1>1, AheadParts
  <2>2. Here(prog, pc[q]) = {}
    BY MovingHere
  <2>3. \A b \in Later(prog, pc[q].k + 1) : b.k # k
    BY <1>1, <2>1
  <2> QED BY <1>1, <2>1, <2>2, <2>3
<1>3. pc[p].k \in Nat /\ Ahead(prog, pc[p]) = Here(prog, pc[p]) \cup Later(prog, pc[p].k + 1)
  BY <1>1, AheadParts
<1>4. ~(pc[p].k < k)
  <2> SUFFICES ASSUME pc[p].k < k PROVE FALSE
    OBVIOUS
  <2>1. Entry(prog, k) \subseteq Later(prog, pc[p].k + 1)
    BY <1>1, <1>3, EntryLater
  <2>2. Meets(prog[k])
    BY DEF Moving, Meets
  <2>3. PICK e : e \in Entry(prog, k)
    BY <2>2, EntryMeets
  <2>4. e.k = k
    BY <2>3, EntryPlace
  <2> QED BY <1>2, <1>3, <2>1, <2>3, <2>4
<1>5. CASE pc[p].k = k
  <2>1. \A b \in Here(prog, pc[p]) : b.k # k
    BY <1>2, <1>3
  <2>2. pc[p].at # "barrier"
    <3> SUFFICES ASSUME pc[p].at = "barrier" PROVE FALSE
      OBVIOUS
    <3>1. Here(prog, pc[p]) = {pc[p]}
      BY <1>5, MovingHere
    <3> QED BY <1>5, <2>1, <3>1
  <2>3. pc[p].at # "move"
    <3> SUFFICES ASSUME pc[p].at = "move" PROVE FALSE
      OBVIOUS
    <3>1. Here(prog, pc[p]) = {At(k, 1, "copy")}
      BY <1>5, MovingHere
    <3> QED BY <2>1, <3>1, AtParts
  <2>4. pc[p].at \notin {"call", "recvbuf", "check"}
    <3> SUFFICES ASSUME pc[p].at \in {"call", "recvbuf", "check"} PROVE FALSE
      OBVIOUS
    <3>1. PICK then \in {"move", "recvbuf", "check"} : Here(prog, pc[p]) = {At(k, 1, then)}
      BY <1>5, MovingHere
    <3> QED BY <2>1, <3>1, AtParts
  <2>5. pc[p].at = "copy"
    BY <1>5, <2>2, <2>3, <2>4, MovingHere
  <2> QED BY <1>5, <2>5 DEF HasMoved
<1> QED
  BY <1>1, <1>3, <1>4, <1>5 DEF HasMoved

(* Nothing of a call is on its way when a PE copies out of the buffer.       *)
LEMMA CopyQuiet ==
  ASSUME Carrying, NEW q \in PE, NEW k \in DOMAIN prog, Moving(prog[k]),
         pc[q].k = k, pc[q].at = "copy", NEW m \in wire
  PROVE  m.id # k
<1> SUFFICES ASSUME m.id = k PROVE FALSE
  OBVIOUS
<1>1. /\ prog \in Programs /\ pc[q] \in Place(prog) /\ Ahead(prog, pc[q]) = PutEpoch(prog, k)
  BY DEF Carrying, BarrierInv, PlaceInv, WireInv
<1>2. At(k, 1, "copy") \in Ahead(prog, pc[q])
  BY <1>1, PutEpochParts
<1>3. /\ Ahead(prog, pc[q]) = Here(prog, pc[q]) \cup Later(prog, pc[q].k + 1)
      /\ \A b \in Later(prog, pc[q].k + 1) : b.k > pc[q].k
      /\ pc[q].k \in Nat
  BY <1>1, AheadParts
<1>4. Here(prog, pc[q]) = {}
  BY MovingHere DEF Carrying
<1> QED
  BY <1>2, <1>3, <1>4, AtParts

(* A put of the call leaves the blocks of the other PEs alone, and brings    *)
(* the block of its own.                                                     *)
LEMMA SafeStore ==
  ASSUME prog' = prog, mem \in [PE -> Areas], NEW k \in DOMAIN prog, Blocked(prog[k]),
         NEW p \in PE, NEW q \in PE, SendsTo(prog[k], p, q), Safe(k, p, q),
         NEW m, Stores(m), Carries(m), wire \ {m} \subseteq wire', m.to = q => m.id = k
  PROVE  Safe(k, p, q)'
<1> DEFINE c == prog[k]
<1> SUFFICES ASSUME NEW x \in 0 .. Block(c, p) - 1, NEW z \in Int, z = Base(c, p) + x
             PROVE  mem'[q][AreaOf(c)][z] = Datum(k, p, x) \/ OnTheWay(k, p, q, z)'
  BY SafeAfter
<1>1. /\ AreaOf(c) \in {"lib", "usr"} /\ Base(c, p) \in Nat /\ Block(c, p) \in Nat
      /\ z \in DOMAIN mem[q][AreaOf(c)]
  BY BlockFits
<1>2. /\ x \in Int /\ x >= 0 /\ x < Block(c, p)
      /\ m.at \in Int /\ m.src \in PE /\ (m.to = q => SendsTo(c, m.src, q) /\ m.area = AreaOf(c))
  BY <1>1 DEF Carries
<1>3. There(k, p, q, x, z) \/ OnTheWay(k, p, q, z)
  BY DEF Safe
<1>4. CASE m.to = q /\ m.area = AreaOf(c) /\ z - m.at \in DOMAIN m.cells
  <2>1. mem'[q][AreaOf(c)][z] = m.cells[z - m.at]
    BY <1>1, <1>4, StoredCell
  <2>2. CASE m.src = p
    <3>1. m.cells[z - m.at] = Datum(k, p, x)
      BY <1>1, <1>2, <1>4, <2>2, CarriedCell
    <3> QED BY <2>1, <3>1
  <2>3. CASE m.src # p
    <3>1. c.op \notin {"bcast", "send"}
      BY <1>2, <1>4, <2>3 DEF SendsTo
    <3>2. Base(c, m.src) \in Nat /\ Block(c, m.src) \in Nat
      BY <1>2, BlockFits
    <3>3. PICK b \in Nat : b = Base(c, m.src)
      BY <3>2
    <3>4. PICK y \in Int : y = z - b
      BY <3>3
    <3>5. z = Base(c, m.src) + y
      BY <3>3, <3>4
    <3>6. y >= 0 /\ y < Block(c, m.src)
      BY <1>4, <3>1, <3>2, <3>5, CarriedCell
    <3>7. y \in 0 .. Block(c, m.src) - 1
      BY <3>2, <3>6
    <3> QED BY <1>2, <1>4, <2>3, <3>5, <3>7, BlocksApart
  <2> QED BY <2>2, <2>3
<1>5. CASE ~(m.to = q /\ m.area = AreaOf(c) /\ z - m.at \in DOMAIN m.cells)
  <2>1. mem'[q][AreaOf(c)][z] = mem[q][AreaOf(c)][z]
    BY <1>1, <1>5, StoredCell
  <2>2. CASE There(k, p, q, x, z)
    BY <2>1, <2>2 DEF There
  <2>3. CASE OnTheWay(k, p, q, z)
    <3>1. PICK n \in wire : n.id = k /\ n.src = p /\ n.to = q /\ z - n.at \in DOMAIN n.cells
      BY <2>3 DEF OnTheWay
    <3>2. n # m
      <4> SUFFICES ASSUME n = m PROVE FALSE
        OBVIOUS
      <4>1. m.to = q /\ z - m.at \in DOMAIN m.cells
        BY <3>1
      <4> QED BY <1>2, <1>5, <4>1
    <3> QED BY <3>1, <3>2 DEF OnTheWay
  <2> QED BY <1>3, <2>2, <2>3
<1> QED
  BY <1>4, <1>5

(* The move of a PE makes its own block safe.                                *)
LEMMA MoveSafe ==
  ASSUME GoodCalls, Carrying, prog' = prog, NEW p \in PE, ~Done(p),
         BcastMove(p) \/ AllgatherMove(p) \/ GatherMove(p) \/ GathervMove(p),
         NEW k, k = pc[p].k, Blocked(prog[k]), NEW q \in PE, SendsTo(prog[k], p, q)
  PROVE  Safe(k, p, q)'
<1> DEFINE c == prog[k]
<1>1. /\ k \in DOMAIN prog /\ Call(p) = c /\ mem \in [PE -> Areas]
  BY InCall DEF Carrying, TypeInv, Memory
<1>2. PICK words : MovesBlock(p, words)
  BY MoveStep
<1>3. PICK n \in Int : DOMAIN words = 0 .. n - 1 /\ n >= Block(c, p)
  BY <1>1, <1>2 DEF MovesBlock
<1> DEFINE puts == BlockPuts(p, words)
           own(r) == PutTo(p, r, AreaOf(c), Base(c, p), words, k)
<1>4. /\ Puts(p, puts) /\ \A m \in puts : Carries(m)
      /\ puts = {own(r) : r \in {r \in PE : SendsTo(c, p, r)}}
  BY <1>1, <1>2 DEF MovesBlock, BlockPuts
<1>5. \A r : own(r).id = k /\ own(r).src = p /\ own(r).to = r /\ own(r).area = AreaOf(c)
             /\ own(r).at = Base(c, p) /\ own(r).cells = words
  BY DEF PutTo
<1>6. own(q) \in puts
  BY <1>4
<1> HIDE DEF own, puts
<1>7. \A m \in puts : m.area \in {"lib", "usr"}
  BY <1>4, PutArea DEF Carries
<1> SUFFICES ASSUME NEW x \in 0 .. Block(c, p) - 1, NEW z \in Int, z = Base(c, p) + x
             PROVE  mem'[q][AreaOf(c)][z] = Datum(k, p, x) \/ OnTheWay(k, p, q, z)'
  BY SafeAfter
<1>8. /\ AreaOf(c) \in {"lib", "usr"} /\ Base(c, p) \in Nat /\ Block(c, p) \in Nat
      /\ z \in DOMAIN mem[q][AreaOf(c)]
  BY <1>1, BlockFits
<1>9. PICK b \in Nat : b = Base(c, p)
  BY <1>8
<1>10. x \in Int /\ z - b = x /\ x \in DOMAIN words /\ x < Block(c, p)
  BY <1>3, <1>8, <1>9
<1> HIDE DEF c
<1>11. CASE q # p
  <2>1. own(q) \in wire'
    BY <1>1, <1>4, <1>5, <1>6, <1>7, <1>11, PutsFrame
  <2>2. z - own(q).at \in DOMAIN own(q).cells
    BY <1>5, <1>9, <1>10
  <2> QED BY <1>5, <2>1, <2>2 DEF OnTheWay
<1>12. CASE q = p
  <2>1. PICK m \in puts : m.to = p /\ mem' = [mem EXCEPT ![p][m.area] = Store(@, m.at, m.cells)]
    BY <1>1, <1>4, <1>5, <1>6, <1>7, <1>12, PutsFrame
  <2>2. m = own(p)
    BY <1>4, <1>5, <2>1
  <2>3. Stores(m) /\ Carries(m) /\ m.at = b /\ m.cells = words /\ m.area = AreaOf(c) /\ m.src = p /\ m.id = k
    BY <1>4, <1>5, <1>9, <2>1, <2>2 DEF Stores
  <2>4. z - m.at \in DOMAIN m.cells
    BY <1>10, <2>3
  <2>5. mem'[p][AreaOf(c)][z] = m.cells[z - m.at]
    BY <1>1, <1>8, <1>12, <2>1, <2>3, <2>4, StoredCell
  <2>6. m.cells[z - m.at] = Datum(k, p, x)
    BY <1>8, <1>10, <2>3, <2>4, CarriedCell DEF c
  <2> QED BY <1>12, <2>5, <2>6
<1> QED
  BY <1>11, <1>12

(* What a PE puts to itself when it moves or sends. *)
LEMMA MoveOwn ==
  ASSUME GoodCalls, Carrying, NEW p \in PE, ~Done(p), MoveOrSend(p)
  PROVE  /\ wire \subseteq wire'
         /\ mem' = mem \/ \E m : Stores(m) /\ Carries(m) /\ m.id = pc[p].k /\ m.src = p /\ m.to = p
<1>0. mem \in [PE -> Areas]
  BY DEF Carrying, TypeInv, Memory
<1>1. ASSUME NEW puts, Puts(p, puts), \A m \in puts : Carries(m) /\ m.id = pc[p].k /\ m.src = p
      PROVE  /\ wire \subseteq wire'
             /\ mem' = mem \/ \E m : Stores(m) /\ Carries(m) /\ m.id = pc[p].k /\ m.src = p /\ m.to = p
  <2>1. \A m \in puts : m.area \in {"lib", "usr"}
    BY <1>1, PutArea DEF Carries
  <2>2. /\ wire \subseteq wire'
        /\ (\A m \in puts : m.to # p) => mem' = mem
        /\ (\E m \in puts : m.to = p) =>
              \E m \in puts : m.to = p /\ mem' = [mem EXCEPT ![p][m.area] = Store(@, m.at, m.cells)]
    BY <1>0, <1>1, <2>1, PutsFrame
  <2>3. ASSUME NEW m \in puts, m.to = p, mem' = [mem EXCEPT ![p][m.area] = Store(@, m.at, m.cells)]
        PROVE  Stores(m) /\ Carries(m) /\ m.id = pc[p].k /\ m.src = p /\ m.to = p
    BY <1>1, <2>3 DEF Stores
  <2> QED BY <2>2, <2>3
<1>2. CASE BcastMove(p) \/ AllgatherMove(p) \/ GatherMove(p) \/ GathervMove(p)
  <2>1. PICK words : MovesBlock(p, words)
    BY <1>2, MoveStep
  <2>2. \A m \in BlockPuts(p, words) : Carries(m) /\ m.id = pc[p].k /\ m.src = p
    BY <2>1 DEF MovesBlock, BlockPuts, PutTo
  <2> QED BY <1>1, <2>1, <2>2 DEF MovesBlock
<1>3. CASE MPI_SendByValue(p) \/ MPI_SendFlagged(p) \/ IsendMove(p)
  BY <1>1, <1>3, SendStep
<1> QED
  BY <1>2, <1>3 DEF MoveOrSend

(* No PE returns from the call before it has moved its block. *)
LEMMA ReturnMoved ==
  ASSUME UniformPrograms, BarrierInv, PointInv, NEW p \in PE, Step(p), NEW k \in DOMAIN prog, pc[p].k = k,
         Moving(prog[k]), pc'[p].k = k + 1
  PROVE  HasMoved(p, k)
<1> SUFFICES ASSUME ~HasMoved(p, k) PROVE FALSE
  OBVIOUS
<1>1. /\ prog \in Programs /\ pc[p] \in Place(prog) /\ k \in Nat /\ pc \in [PE -> Place(prog)]
  BY ProgFacts DEF BarrierInv, PlaceInv
<1>2. PICK x \in Place(prog) : pc' = [pc EXCEPT ![p] = x] /\ Ahead(prog, x) = Ahead(prog, pc[p])
  BY StepGoesOn DEF GoesOn, BarrierInv
<1>3. x.k = k + 1
  BY <1>1, <1>2
<1>4. \E b \in Here(prog, pc[p]) : b.k = k
  <2>1. ~(pc[p].at = "copy" \/ (pc[p].at = "barrier" /\ pc[p].then = "copy"))
    BY DEF HasMoved
  <2>2. CASE pc[p].at = "barrier"
    <3>1. Here(prog, pc[p]) = {pc[p]}
      BY <2>2, MovingHere
    <3> QED BY <3>1
  <2>3. CASE pc[p].at = "move"
    <3>1. Here(prog, pc[p]) = {At(k, 1, "copy")}
      BY <2>3, MovingHere
    <3> QED BY <3>1, AtParts
  <2>4. CASE pc[p].at \in {"call", "recvbuf", "check"}
    <3>1. PICK then \in {"move", "recvbuf", "check"} : Here(prog, pc[p]) = {At(k, 1, then)}
      BY <2>4, MovingHere
    <3> QED BY <3>1, AtParts
  <2> QED BY <2>1, <2>2, <2>3, <2>4, MovingHere
<1>5. \A b \in Ahead(prog, x) : b.k \in Nat /\ b.k >= x.k
  BY <1>1, AheadParts
<1>6. Here(prog, pc[p]) \subseteq Ahead(prog, pc[p])
  BY DEF Ahead
<1> QED
  BY <1>1, <1>2, <1>3, <1>4, <1>5, <1>6

LEMMA MovedInvInit == Init => MovedInv
<1> SUFFICES ASSUME Init, NEW k \in DOMAIN prog, NEW p \in PE, HasMoved(p, k) PROVE FALSE
  BY DEF MovedInv
<1>1. prog \in Programs /\ pc[p] = [k |-> 1, at |-> "call", left |-> 0, then |-> "call"]
  BY DEF Init
<1>2. k \in Nat /\ k >= 1
  BY <1>1, ProgFacts
<1>3. pc[p].k = 1 /\ pc[p].at = "call"
  BY <1>1
<1> QED
  BY <1>2, <1>3 DEF HasMoved

(* While a PE is past the puts of a collective, all others are past its      *)
(* first barrier.                                                            *)
LEMMA MovedPlaceNext == (BarrierInv /\ PointInv)' =>
  (\A p, q \in PE : \A k \in DOMAIN prog : Moving(prog[k]) /\ HasMoved(p, k) /\ pc[q].k = k =>
     pc[q].at \in {"move", "copy"} \/ (pc[q].at = "barrier" /\ pc[q].then = "copy"))'
<1>1. BarrierInv /\ PointInv =>
  (\A p, q \in PE : \A k \in DOMAIN prog : Moving(prog[k]) /\ HasMoved(p, k) /\ pc[q].k = k =>
     pc[q].at \in {"move", "copy"} \/ (pc[q].at = "barrier" /\ pc[q].then = "copy"))
  BY MovedPlace
<1> QED BY <1>1, PTL

(* What a collective has put is at its place or on its way until the PE      *)
(* there has left the call.                                                  *)
LEMMA MovedInvNext ==
  ASSUME GoodCalls, SeparatedPrograms, Carrying, MovedInv, [Next]_vars, (BarrierInv /\ PointInv)'
  PROVE  MovedInv'
<1>0. /\ BarrierInv /\ TypeInv /\ PointInv /\ WireInv /\ UniformPrograms
      /\ mem \in [PE -> Areas] /\ prog \in Programs /\ \A p \in PE : pc[p] \in Place(prog)
  BY DEF Carrying, GoodCalls, TypeInv, Memory, PlaceInv
<1>1. prog' = prog
  <2>1. (\E r \in PE : Step(r)) => prog' = prog
    BY StepMoves
  <2> QED BY <2>1 DEF Next, Arrival, BarrierAll, HeapFull, vars, callVars
<1> SUFFICES ASSUME NEW k \in DOMAIN prog, NEW p \in PE, NEW q \in PE, Moving(prog[k]), SendsTo(prog[k], p, q),
                    HasMoved(p, k)', pc'[q].k = k
             PROVE  Safe(k, p, q)'
  BY <1>1 DEF MovedInv, Moving, Short, SendsTo, NextPe
<1>2. Blocked(prog[k])
  BY <1>0, SaneCall DEF Blocked
<1>3. k \in Nat /\ pc[p].k \in Int /\ pc[q].k \in Int
  BY <1>0, ProgFacts, AheadParts
<1>4. ASSUME HasMoved(p, k), pc[q].k = k PROVE Safe(k, p, q)
  BY <1>4 DEF MovedInv
<1>5. ASSUME NEW r \in PE, Step(r) PROVE Safe(k, p, q)'
  <2>1. /\ wire \subseteq wire' /\ \A s \in PE \ {r} : mem'[s] = mem[s] /\ pc'[s] = pc[s]
    BY <1>0, <1>5, StepFrame, StepTo DEF Frame
  <2>2. ~Done(r)
    BY <1>5 DEF Step
  <2>3. CASE r = q
    <3>1. pc'[q].at \in {"move", "copy"} \/ (pc'[q].at = "barrier" /\ pc'[q].then = "copy")
      <4>1. (Moving(prog[k]) /\ HasMoved(p, k) /\ pc[q].k = k)'
        BY <1>1 DEF Moving, Short
      <4>2. (k \in DOMAIN prog)'
        BY <1>1
      <4> QED BY <4>1, <4>2, MovedPlaceNext
    <3>2. pc'[q].at = "barrier" /\ pc'[q].then = "copy" /\ pc[q].k = k
      BY <1>0, <1>5, <2>3, <3>1, StepTo
    <3>3. BcastMove(q) \/ AllgatherMove(q) \/ GatherMove(q) \/ GathervMove(q)
      BY <1>0, <1>5, <2>3, <3>2, ToCopy
    <3>4. CASE p = q
      BY <1>1, <1>2, <2>2, <2>3, <3>2, <3>3, <3>4, MoveSafe
    <3>5. CASE p # q
      <4>1. pc'[p] = pc[p]
        BY <2>1, <2>3, <3>5
      <4>2. HasMoved(p, k)
        BY <4>1 DEF HasMoved
      <4>3. Safe(k, p, q)
        BY <1>4, <3>2, <4>2
      <4>4. CASE mem' = mem
        BY <1>1, <2>1, <4>3, <4>4, SafeFrame
      <4>5. CASE mem' # mem
        <5>1. MoveOrSend(q)
          BY <3>3 DEF MoveOrSend
        <5>2. PICK m : Stores(m) /\ Carries(m) /\ m.id = k
          BY <2>2, <2>3, <3>2, <4>5, <5>1, MoveOwn
        <5>3. wire \ {m} \subseteq wire'
          BY <2>1
        <5> QED BY <1>0, <1>1, <1>2, <4>3, <5>2, <5>3, SafeStore
      <4> QED BY <4>4, <4>5
    <3> QED BY <3>4, <3>5
  <2>4. CASE r # q
    <3>1. mem'[q] = mem[q] /\ pc[q].k = k
      BY <2>1, <2>4
    <3>2. CASE HasMoved(p, k)
      BY <1>1, <1>4, <2>1, <3>1, <3>2, SafeFrame
    <3>3. CASE ~HasMoved(p, k)
      <4>1. r = p
        <5> SUFFICES ASSUME r # p PROVE FALSE
          OBVIOUS
        <5>1. pc'[p] = pc[p]
          BY <2>1
        <5> QED BY <3>3, <5>1 DEF HasMoved
      <4>2. ~(pc'[p].k = pc[p].k + 1)
        <5> SUFFICES ASSUME pc'[p].k = pc[p].k + 1 PROVE FALSE
          OBVIOUS
        <5>0. pc'[p].at = "call"
          <6>1. pc[p].k # pc[p].k + 1
            BY <1>3
          <6> QED BY <1>0, <1>5, <4>1, <6>1, StepTo
        <5>1. pc[p].k = k
          BY <1>3, <3>3, <5>0 DEF HasMoved
        <5> QED BY <1>0, <1>5, <3>3, <4>1, <5>1, ReturnMoved
      <4>3. pc'[p].at = "barrier" /\ pc'[p].then = "copy" /\ pc'[p].k = pc[p].k /\ pc[p].k = k
        BY <1>0, <1>3, <1>5, <3>3, <4>1, <4>2, StepTo DEF HasMoved
      <4>4. BcastMove(p) \/ AllgatherMove(p) \/ GatherMove(p) \/ GathervMove(p)
        BY <1>0, <1>5, <4>1, <4>3, ToCopy
      <4> QED BY <1>1, <1>2, <2>2, <4>1, <4>3, <4>4, MoveSafe
    <3> QED BY <3>2, <3>3
  <2> QED BY <2>3, <2>4
<1>6. CASE BarrierAll \/ HeapFull
  <2>1. /\ pc'[p].k = pc[p].k /\ pc'[q].k = pc[q].k /\ pc[p].at = "barrier" /\ mem' = mem
        /\ wire \subseteq wire'
        /\ \/ pc'[p].at = "barrier" /\ pc'[p].then = pc[p].then
           \/ pc'[p].at = pc[p].then
           \/ pc'[p].at = "failed" /\ pc[p].then \in {"comm", "group"}
    BY <1>0, <1>6, BarrierTo
  <2>2. HasMoved(p, k)
    <3>0. pc[p].then # "barrier"
      <4>1. ~Done(p)
        BY <1>0, <1>6, BarrierTo
      <4>2. pc[p].then \in PointsOf(Call(p))
        BY <1>0, <2>1, <4>1 DEF PointInv, Inside
      <4> QED BY <4>2 DEF PointsOf
    <3>1. CASE pc'[p].at \in {"barrier", "failed"} /\ pc'[p].at # pc[p].then
      BY <2>1, <3>1 DEF HasMoved
    <3>2. CASE pc'[p].at = pc[p].then
      BY <2>1, <3>0, <3>2 DEF HasMoved
    <3> QED BY <2>1, <3>1, <3>2
  <2> QED BY <1>1, <1>4, <2>1, <2>2, SafeFrame
<1>7. CASE Arrival
  <2>1. PICK m \in wire : Deliver(m) /\ UNCHANGED <<pc, callVars>>
    BY <1>7 DEF Arrival
  <2>2. pc' = pc /\ wire \ {m} \subseteq wire' /\ Stores(m) /\ Carries(m)
    BY <1>0, <2>1 DEF Deliver, Stores, WireInv
  <2>3. HasMoved(p, k) /\ pc[q].k = k
    BY <2>2 DEF HasMoved
  <2>4. m.to = q => m.id = k
    <3>1. Needs(prog[k], q)
      BY DEF Needs, Moving
    <3> QED BY <2>3, <3>1, ArrivesInCall
  <2> QED BY <1>0, <1>1, <1>2, <1>4, <2>2, <2>3, <2>4, SafeStore
<1>8. CASE UNCHANGED vars
  <2>1. pc' = pc /\ mem' = mem /\ wire' = wire
    BY <1>8 DEF vars, shmemVars
  <2>2. HasMoved(p, k) /\ pc[q].k = k
    BY <2>1 DEF HasMoved
  <2> QED BY <1>1, <1>4, <2>1, <2>2, SafeFrame
<1> QED
  BY <1>5, <1>6, <1>7, <1>8 DEF Next

-----------------------------------------------------------------------------
(* What the collective calls return.                                         *)

(* When a PE copies the blocks out of the buffer, they are all there. *)
LEMMA AllThere ==
  ASSUME GoodCalls, Carrying, MovedInv, NEW q \in PE, ~Done(q), pc[q].at = "copy",
         Call(q).op \in {"bcast", "allgather", "gather", "gatherv"}, NEW p \in PE, SendsTo(Call(q), p, q),
         NEW x \in 0 .. Block(Call(q), p) - 1, NEW z \in Int, z = Base(Call(q), p) + x
  PROVE  mem[q][AreaOf(Call(q))][z] = Datum(pc[q].k, p, x)
<1> DEFINE k == pc[q].k
<1>1. /\ BarrierInv /\ PointInv /\ k \in DOMAIN prog /\ Call(q) = prog[k]
  BY InCall DEF Carrying
<1>2. Moving(prog[k])
  BY <1>1, MovingAt
<1>3. HasMoved(p, k)
  BY <1>1, <1>2, AllMoved
<1>4. Safe(k, p, q)
  BY <1>1, <1>2, <1>3 DEF MovedInv
<1>5. There(k, p, q, x, z) \/ OnTheWay(k, p, q, z)
  BY <1>1, <1>4 DEF Safe
<1>6. ~OnTheWay(k, p, q, z)
  BY <1>1, <1>2, CopyQuiet DEF OnTheWay
<1> QED
  BY <1>1, <1>5, <1>6 DEF There

(* A slice is given by its cells.                                            *)
LEMMA SliceSame ==
  ASSUME NEW area, NEW from, NEW n, NEW f, f = [i \in 0 .. n - 1 |-> f[i]],
         \A i \in 0 .. n - 1 : area[from + i] = f[i]
  PROVE  Slice(area, from, n) = f
BY DEF Slice

(* The data of a call as a function of the index.                            *)
LEMMA DataFunction ==
  ASSUME NEW k, NEW p
  PROVE  /\ Data(k, p) = [i \in 0 .. Cells(prog[k]) - 1 |-> Data(k, p)[i]]
         /\ \A i \in 0 .. Cells(prog[k]) - 1 : Data(k, p)[i] = Datum(k, p, i)
BY DEF Data

(* What is copied out of the library's buffer to the start of the user's. *)
LEMMA CopiedCell ==
  ASSUME NEW usr, NEW L \in Nat, DOMAIN usr = 0 .. L - 1, NEW lib, NEW from, NEW n, NEW i \in 0 .. n - 1, i < L, i \in Nat
  PROVE  Store(usr, 0, Slice(lib, from, n))[i] = lib[from + i]
<1>1. i - 0 = i /\ i \in DOMAIN usr
  OBVIOUS
<1>2. i - 0 \in DOMAIN Slice(lib, from, n)
  BY <1>1, SliceDomain
<1>3. Store(usr, 0, Slice(lib, from, n))[i] = Slice(lib, from, n)[i - 0]
  BY <1>1, <1>2, StoreCell
<1> QED
  BY <1>1, <1>3, SliceCell

(* The copy of MPI_Bcast returns the root's data.                            *)
LEMMA BcastDelivers ==
  ASSUME GoodCalls, Carrying, MovedInv, NEW p \in PE, ~Done(p), BcastCopy(p)
  PROVE  \E res : Result(p, res) /\ Delivered(p, pc[p].k, res)
<1> DEFINE k == pc[p].k
           c == Call(p)
           usr == IF p = c.root THEN mem[p].usr
                  ELSE Store(mem[p].usr, 0, Slice(mem[p].lib, BcastDest(c), Cells(c)))
<1>1. /\ BarrierInv /\ PointInv /\ SourceInv /\ k \in DOMAIN prog /\ c = prog[k] /\ Sane(c) /\ mem \in [PE -> Areas]
  BY InCall, SaneCall DEF Carrying, TypeInv, Memory
<1>2. c.op = "bcast" /\ pc[p].at = "copy" /\ Result(p, Slice(usr, 0, Cells(c)))
  BY DEF BcastCopy, In
<1>3. /\ Cells(c) \in Nat /\ UsrLen \in Nat /\ Cells(c) <= UsrLen /\ c.root \in PE /\ DOMAIN mem[p].usr = 0 .. UsrLen - 1
      /\ BcastDest(c) \in Nat
  BY <1>1, <1>2, CellsType, Sizes, AreaTypes DEF Sane, FittingCall, FitsCollective, MovesBlocks, BcastDest
<1>4. ASSUME NEW i \in 0 .. Cells(c) - 1 PROVE usr[0 + i] = Data(k, c.root)[i]
  <2>1. Data(k, c.root)[i] = Datum(k, c.root, i) /\ 0 + i = i /\ i \in Nat /\ i < UsrLen
    BY <1>1, <1>3, DataFunction
  <2>2. CASE p = c.root
    <3>1. SourceAt(p, k, "usr", 0)
      BY <1>1, <1>2, <2>2 DEF SourceAt
    <3>2. Holds(k, p, "usr", 0)
      BY <1>1, <1>2, <3>1 DEF SourceInv
    <3>3. mem[p].usr[0 + i] = Datum(k, p, i)
      BY <1>1, <3>2 DEF Holds
    <3> QED BY <2>1, <2>2, <3>3
  <2>3. CASE p # c.root
    <3>1. SendsTo(c, c.root, p) /\ AreaOf(c) = "lib" /\ Base(c, c.root) = BcastDest(c) /\ Block(c, c.root) = Cells(c)
      BY <1>2, <2>3 DEF SendsTo, AreaOf, Base, Block
    <3>2. PICK z \in Int : z = BcastDest(c) + i
      BY <1>3
    <3>3. mem[p].lib[z] = Datum(k, c.root, i)
      BY <1>2, <1>3, <3>1, <3>2, AllThere
    <3>4. usr[i] = mem[p].lib[BcastDest(c) + i]
      BY <1>3, <2>1, <2>3, CopiedCell
    <3> QED BY <2>1, <3>2, <3>3, <3>4
  <2> QED BY <2>2, <2>3
<1> HIDE DEF usr
<1>5. Slice(usr, 0, Cells(c)) = Data(k, c.root)
  BY <1>1, <1>4, DataFunction, SliceSame
<1> QED
  BY <1>1, <1>2, <1>5 DEF Delivered

(* Cell i of the gathered blocks is a cell of the block of one PE. *)
LEMMA BlockCell ==
  ASSUME NEW n \in Nat, NEW i \in 0 .. NumPes * n - 1
  PROVE  /\ i \in Nat /\ i < NumPes * n /\ i \div n \in PE /\ i % n \in 0 .. n - 1
         /\ (i \div n) * n \in Nat /\ ((i \div n) * n) + (i % n) = i
<1>1. NumPes \in Nat /\ NumPes * n \in Nat
  BY PeFacts, TimesNat
<1>2. i \in Nat /\ i < NumPes * n
  BY <1>1
<1>3. n >= 1
  <2> SUFFICES ASSUME n = 0 PROVE FALSE
    OBVIOUS
  <2>1. NumPes * 0 = 0
    BY <1>1
  <2> QED BY <1>2, <2>1
<1>4. PICK a, r : a = i \div n /\ r = i % n
  OBVIOUS
<1>5. i = a * n + r /\ a \in Nat /\ r \in 0 .. n - 1
  BY <1>2, <1>3, <1>4
<1>6. a < NumPes
  <2> SUFFICES ASSUME NumPes <= a PROVE FALSE
    BY <1>1, <1>5
  <2>1. NumPes * n <= a * n
    BY <1>1, <1>5, TimesOrder
  <2>2. a * n \in Nat
    BY <1>5, TimesNat
  <2> QED BY <1>1, <1>2, <1>5, <2>1, <2>2
<1>7. a \in PE /\ a * n \in Nat
  BY <1>1, <1>5, <1>6, TimesNat DEF PE
<1> QED
  BY <1>2, <1>4, <1>5, <1>7

(* The copy of MPI_Allgather and MPI_Gather returns the blocks in the order  *)
(* of the ranks.                                                             *)
LEMMA GatherDelivers ==
  ASSUME GoodCalls, Carrying, MovedInv, NEW p \in PE, ~Done(p), GatherCopy(p)
  PROVE  \E res : Result(p, res) /\ Delivered(p, pc[p].k, res)
<1> DEFINE k == pc[p].k
           c == Call(p)
           n == Cells(c)
           gets == c.op = "allgather" \/ p = c.root
           usr == IF c.symR \/ ~gets THEN mem[p].usr
                  ELSE Store(mem[p].usr, 0, Slice(mem[p].lib, RecvAt(c), NumPes * n))
<1>1. /\ BarrierInv /\ PointInv /\ k \in DOMAIN prog /\ c = prog[k] /\ Sane(c) /\ mem \in [PE -> Areas]
  BY InCall, SaneCall DEF Carrying, TypeInv, Memory
<1>2. /\ c.op \in {"allgather", "gather"} /\ pc[p].at = "copy"
      /\ Result(p, IF gets THEN Slice(usr, 0, NumPes * n) ELSE <<>>)
  BY DEF GatherCopy
<1>3. CASE ~gets
  BY <1>2, <1>3 DEF Delivered
<1>4. CASE gets
  <2>1. /\ n \in Nat /\ UsrLen \in Nat /\ NumPes * n <= UsrLen /\ DOMAIN mem[p].usr = 0 .. UsrLen - 1
        /\ RecvAt(c) \in Nat /\ NumPes * n \in Nat
    <3>1. n \in Nat /\ UsrLen \in Nat /\ NumPes * n <= UsrLen /\ DOMAIN mem[p].usr = 0 .. UsrLen - 1
      BY <1>1, <1>2, CellsType, Sizes, AreaTypes DEF Sane, MovesBlocks
    <3>2. RecvAt(c) \in Nat
      BY <1>1, <3>1, CellsType DEF RecvAt, Sane
    <3> QED BY <3>1, <3>2, PeFacts, TimesNat
  <2>2. Moving(c)
    BY <1>1, <1>2, MovingAt
  <2>3. ASSUME NEW i \in 0 .. NumPes * n - 1 PROVE usr[0 + i] = Blocks(k)[i]
    <3>1. PICK src, x : src = i \div n /\ x = i % n
      OBVIOUS
    <3>2. /\ i \in Nat /\ i < NumPes * n /\ src \in PE /\ x \in 0 .. n - 1
          /\ src * n \in Nat /\ (src * n) + x = i
      BY <2>1, <3>1, BlockCell
    <3>3. Blocks(k)[i] = Datum(k, src, x)
      BY <1>1, <3>1 DEF Blocks
    <3>4. Base(c, src) = RecvAt(c) + src * n /\ Block(c, src) = n /\ SendsTo(c, src, p)
      <4>1. Base(c, src) = RecvAt(c) + src * n /\ Block(c, src) = n
        BY <1>1, <1>2, <2>2, <3>2, BlockPlace DEF Sane
      <4> QED BY <1>2, <1>4, <4>1 DEF SendsTo
    <3>5. PICK z \in Int : z = RecvAt(c) + i
      BY <2>1, <3>2
    <3>6. PICK a \in Nat : a = src * n
      BY <3>2
    <3>7. z = Base(c, src) + x
      <4>1. a + x = i
        BY <3>2, <3>6
      <4>2. Base(c, src) = RecvAt(c) + a
        BY <3>4, <3>6
      <4>3. x \in Int
        BY <2>1, <3>2
      <4> QED BY <2>1, <3>5, <4>1, <4>2, <4>3, SMTT(20)
    <3>8. mem[p][AreaOf(c)][z] = Datum(k, src, x)
      BY <1>2, <3>2, <3>4, <3>7, AllThere
    <3>9. 0 + i = i /\ i < UsrLen
      BY <2>1, <3>2
    <3>10. CASE c.symR
      <4>1. AreaOf(c) = "usr" /\ RecvAt(c) = 0
        BY <1>2, <3>10 DEF AreaOf, RecvArea, RecvAt
      <4>2. z = i
        BY <3>2, <3>5, <4>1
      <4> QED BY <3>3, <3>8, <3>9, <3>10, <4>1, <4>2
    <3>11. CASE ~c.symR
      <4>1. AreaOf(c) = "lib"
        BY <1>2, <3>11 DEF AreaOf, RecvArea
      <4>2. Store(mem[p].usr, 0, Slice(mem[p].lib, RecvAt(c), NumPes * n))[i] = mem[p].lib[RecvAt(c) + i]
        BY <2>1, <3>2, <3>9, CopiedCell, SMTT(20)
      <4>3. usr = Store(mem[p].usr, 0, Slice(mem[p].lib, RecvAt(c), NumPes * n))
        BY <1>4, <3>11
      <4> HIDE DEF usr
      <4> QED BY <3>3, <3>5, <3>8, <3>9, <4>1, <4>2, <4>3
    <3> QED BY <3>10, <3>11
  <2> HIDE DEF usr
  <2>4. Blocks(k) = [i \in 0 .. NumPes * n - 1 |-> Blocks(k)[i]]
    BY <1>1 DEF Blocks
  <2>5. Slice(usr, 0, NumPes * n) = Blocks(k)
    BY <2>3, <2>4, SliceSame
  <2>6. Result(p, Blocks(k))
    BY <1>2, <1>4, <2>5
  <2> QED BY <1>1, <1>2, <2>6 DEF Delivered
<1> QED
  BY <1>3, <1>4

(* The copy of MPI_Gatherv returns what each PE has sent at its              *)
(* displacement.                                                             *)
LEMMA GathervDelivers ==
  ASSUME GoodCalls, Carrying, MovedInv, NEW p \in PE, ~Done(p), GathervCopy(p)
  PROVE  \E res : Result(p, res) /\ Delivered(p, pc[p].k, res)
<1> DEFINE k == pc[p].k
           c == Call(p)
           total == GetNumBytes(TotalNumSent(c), "int")
           usr == IF p # c.root THEN mem[p].usr
                  ELSE Store(mem[p].usr, 0, Slice(mem[p].lib, GetBufferOffset(c), total))
<1>1. /\ BarrierInv /\ PointInv /\ k \in DOMAIN prog /\ c = prog[k] /\ Sane(c) /\ mem \in [PE -> Areas]
  BY InCall, SaneCall DEF Carrying, TypeInv, Memory
<1>2. /\ c.op = "gatherv" /\ pc[p].at = "copy"
      /\ Result(p, IF p = c.root THEN usr ELSE <<>>)
  BY DEF GathervCopy, In
<1>3. CASE p # c.root
  BY <1>2, <1>3 DEF Delivered
<1>4. CASE p = c.root
  <2>1. Moving(c) /\ ~Short(c, 0)
    BY <1>1, <1>2, MovingAt DEF Moving
  <2>2. /\ Cells(c) \in Nat /\ GetBufferOffset(c) = Cells(c) /\ UsrLen \in Nat /\ DOMAIN mem[p].usr = 0 .. UsrLen - 1
    BY <1>1, CellsType, Sizes, AreaTypes DEF Sane
  <2>3. total \in Nat
    <3>1. TotalNumSent(c) \in Nat /\ Width["int"] \in Nat
      BY <1>1, <1>2, MpiAssumption DEF Sane, FittingCall, FitsCollective
    <3> QED BY <3>1, TimesNat DEF GetNumBytes
  <2>4. ASSUME NEW q \in PE
        PROVE  Slice(usr, GetNumBytes(Displs(c)[q], c.type), GetNumBytes(c.recvcount[q + 1], c.type))
               = Slice(Data(k, q), 0, GetNumBytes(c.recvcount[q + 1], c.type))
    <3> DEFINE at == GetNumBytes(Displs(c)[q], c.type)
               n == GetNumBytes(c.recvcount[q + 1], c.type)
    <3>1. at \in Nat /\ at + n <= UsrLen /\ at + n <= total
      BY <1>1, <1>2, <2>1 DEF Sane, MovesBlocks
    <3>2. Block(c, q) = n /\ n \in Nat /\ n <= Cells(c) /\ Base(c, q) = Cells(c) + at
      <4>1. Block(c, q) = n /\ Base(c, q) = Cells(c) + at
        BY <1>2 DEF Block, Base
      <4> QED BY <1>1, <1>2, <2>1, <4>1, BlockPlace DEF Sane
    <3>3. SendsTo(c, q, p) /\ AreaOf(c) = "lib"
      BY <1>2, <1>4 DEF SendsTo, AreaOf
    <3> HIDE DEF at, n, total
    <3>4. ASSUME NEW i \in 0 .. n - 1 PROVE usr[at + i] = Data(k, q)[0 + i]
      <4>1. PICK y \in Nat : y = at + i
        BY <3>1, <3>2
      <4>2. i \in Int /\ i \in 0 .. Cells(c) - 1 /\ 0 + i = i /\ y \in 0 .. total - 1 /\ y < UsrLen
        BY <2>2, <2>3, <3>1, <3>2, <4>1
      <4>3. PICK z \in Int : z = Cells(c) + y
        BY <2>2
      <4>4. z = Base(c, q) + i
        BY <2>2, <3>1, <3>2, <4>1, <4>2, <4>3
      <4>5. mem[p].lib[z] = Datum(k, q, i)
        BY <1>2, <3>2, <3>3, <4>4, AllThere
      <4>6. Store(mem[p].usr, 0, Slice(mem[p].lib, Cells(c), total))[y] = mem[p].lib[Cells(c) + y]
        BY <2>2, <4>2, CopiedCell
      <4>7. usr = Store(mem[p].usr, 0, Slice(mem[p].lib, Cells(c), total))
        BY <1>4, <2>2 DEF total
      <4>8. Data(k, q)[i] = Datum(k, q, i)
        BY <1>1, <4>2, DataFunction
      <4> HIDE DEF usr
      <4> QED BY <4>1, <4>2, <4>3, <4>5, <4>6, <4>7, <4>8
    <3> HIDE DEF usr
    <3>5. Slice(usr, at, n) = Slice(Data(k, q), 0, n)
      BY <3>4 DEF Slice
    <3> QED BY <3>5 DEF at, n
  <2>5. Result(p, usr)
    BY <1>2, <1>4
  <2> HIDE DEF usr
  <2>6. Delivered(p, k, usr)
    BY <1>1, <1>2, <2>4 DEF Delivered
  <2> QED BY <2>5, <2>6
<1> QED
  BY <1>3, <1>4

(* The steps that return a result. *)
LEMMA GotStep ==
  ASSUME NEW p \in PE, Step(p)
  PROVE  \/ got' = got
         \/ BcastCopy(p) \/ GatherCopy(p) \/ GathervCopy(p)
         \/ Call(p).op \in {"allgather", "gather", "gatherv"} /\ Result(p, <<>>)
         \/ MPI_Recv(p) \/ MPI_Test(p) \/ MPI_Unpack(p)
         \/ Call(p).op \in {"iprobe", "irecv", "comm_rank", "pack"} /\ \E res : Result(p, res)
<1>1. CASE Collective(p)
  BY <1>1 DEF Collective, MPI_Barrier, MPI_Iprobe, BarrierReturn, BcastEnter, BcastMove,
     GatherNull, GatherEnter, AllgatherMove, GatherMove, GathervEnter, GathervRecvBuf, GathervCheck, GathervMove,
     callVars, In
<1>2. CASE PointToPoint(p)
  BY <1>2 DEF PointToPoint, NotMine, MPI_SendByValue, MPI_SendFlagged, SendReturn,
     IsendEnter, IsendMove, IrecvEnter, IrecvMove, callVars, In
<1>3. CASE Management(p)
  BY <1>3 DEF Management, GroupEnter, MPI_Group_incl, CommEnter, HeapReturn, MPI_Comm_create,
     MPI_Comm_dup, CommFreeEnter, MPI_Comm_free, MPI_Comm_rank, callVars, In
<1>4. CASE Packing(p)
  BY <1>4 DEF Packing, PackNoSpace, MPI_Pack, In
<1> QED
  BY <1>1, <1>2, <1>3, <1>4 DEF Step

GotFunction == got = [p \in PE |-> got[p]]

(* A result is that of the PE's current call.                                *)
LEMMA ResultGot ==
  ASSUME GotFunction, NEW p \in PE, NEW res, Result(p, res)
  PROVE  /\ GotFunction' /\ got'[p].k = pc[p].k /\ got'[p].res = res
         /\ \A q \in PE \ {p} : got'[q] = got[q]
BY DEF GotFunction, Result

(* Every PE has one latest result.                                           *)
LEMMA GotFunctionNext ==
  ASSUME GotFunction, [Next]_vars
  PROVE  GotFunction'
<1>1. ASSUME NEW p \in PE, Step(p) PROVE GotFunction'
  <2>1. got' = got \/ \E res : Result(p, res)
    BY <1>1, GotStep DEF BcastCopy, GatherCopy, GathervCopy, MPI_Recv, MPI_Test, MPI_Unpack
  <2> QED BY <2>1, ResultGot DEF GotFunction
<1>2. ASSUME got' = got PROVE GotFunction'
  BY <1>2 DEF GotFunction
<1> QED
  BY <1>1, <1>2 DEF Next, BarrierAll, HeapFull, Arrival, vars, callVars

LEMMA GotFunctionInit == Init => GotFunction
BY DEF Init, GotFunction

(* What a call has to deliver depends on the program alone.                  *)
LEMMA DeliveredPrime ==
  ASSUME prog' = prog, NEW p, NEW k, NEW res
  PROVE  Delivered(p, k, res)' <=> Delivered(p, k, res)
BY DEF Delivered, Data, Datum, Blocks, Cells, GetNumBytes, Displs, Slice

LEMMA CollectivesDeliverInit == Init => CollectivesDeliver
BY DEF Init, CollectivesDeliver, NoResult

(* Every collective returns what MPI promises: no put of it is on its way    *)
(* after the barrier that ends it.                                           *)
LEMMA CollectivesDeliverNext ==
  ASSUME GoodCalls, Carrying, MovedInv, GotFunction, CollectivesDeliver, [Next]_vars
  PROVE  CollectivesDeliver'
<1>1. prog' = prog
  <2>1. (\E r \in PE : Step(r)) => prog' = prog
    BY StepMoves
  <2> QED BY <2>1 DEF Next, Arrival, BarrierAll, HeapFull, vars, callVars
<1> SUFFICES ASSUME NEW q \in PE, got'[q].k # 0 PROVE Delivered(q, got'[q].k, got'[q].res)
  BY <1>1, DeliveredPrime DEF CollectivesDeliver
<1>2. ASSUME got'[q] = got[q] PROVE Delivered(q, got'[q].k, got'[q].res)
  BY <1>2 DEF CollectivesDeliver
<1>3. ASSUME NEW p \in PE, Step(p) PROVE Delivered(q, got'[q].k, got'[q].res)
  <2>1. ~Done(p)
    BY <1>3 DEF Step
  <2>2. got' = got \/ \E res : Result(p, res) /\ Delivered(p, pc[p].k, res)
    <3>1. CASE BcastCopy(p) \/ GatherCopy(p) \/ GathervCopy(p)
      BY <2>1, <3>1, BcastDelivers, GatherDelivers, GathervDelivers
    <3>2. CASE Call(p).op \in {"allgather", "gather", "gatherv"} /\ Result(p, <<>>)
      BY <3>2 DEF Delivered
    <3>3. CASE Call(p).op \notin {"bcast", "allgather", "gather", "gatherv"} /\ \E res : Result(p, res)
      BY <3>3 DEF Delivered, Call
    <3>4. MPI_Recv(p) \/ MPI_Test(p) \/ MPI_Unpack(p) =>
            Call(p).op \in {"recv", "test", "unpack"} /\ \E res : Result(p, res)
      BY DEF MPI_Recv, MPI_Test, MPI_Unpack, In
    <3> QED BY <1>3, <3>1, <3>2, <3>3, <3>4, GotStep
  <2>3. CASE \E res : Result(p, res) /\ Delivered(p, pc[p].k, res)
    <3>1. PICK res : Result(p, res) /\ Delivered(p, pc[p].k, res)
      BY <2>3
    <3>2. CASE q = p
      BY <3>1, <3>2, ResultGot
    <3>3. CASE q # p
      BY <1>2, <3>1, <3>3, ResultGot
    <3> QED BY <3>2, <3>3
  <2> QED BY <1>2, <2>2, <2>3
<1> QED
  BY <1>2, <1>3 DEF Next, BarrierAll, HeapFull, Arrival, vars, callVars

-----------------------------------------------------------------------------
(* Messages wait in the library's buffer for MPI_Recv.                       *)

(* No barrier lies between two PEs. *)
LEMMA MeetsBetween ==
  ASSUME NEW pr \in Programs, NEW x \in Place(pr), NEW y \in Place(pr), Ahead(pr, x) = Ahead(pr, y),
         NEW i \in DOMAIN pr, x.k < i, i < y.k
  PROVE  ~Meets(pr[i])
<1> SUFFICES ASSUME Meets(pr[i]) PROVE FALSE
  OBVIOUS
<1>1. x.k \in Nat /\ y.k \in Nat /\ i \in Nat /\ x.k + 1 <= i /\ x.k + 1 \in Nat
  BY AheadParts, ProgFacts
<1>2. PICK e : e \in Entry(pr, i)
  BY EntryMeets
<1>3. e \in Ahead(pr, x)
  <2>1. Entry(pr, i) \subseteq Later(pr, x.k + 1)
    BY <1>1, EntryLater
  <2> QED BY <1>2, <2>1 DEF Ahead
<1>4. e.k = i
  BY <1>2, EntryPlace
<1>5. e.k >= y.k
  BY <1>3, AheadParts
<1> QED
  BY <1>1, <1>4, <1>5

(* A PE is behind another one by less than a barrier.                        *)
LEMMA BehindAdjacent ==
  ASSUME NEW pr \in Programs, NEW x \in Place(pr), NEW y \in Place(pr), Ahead(pr, x) = Ahead(pr, y),
         NEW j \in DOMAIN pr, x.k < j, j <= y.k
  PROVE  Adjacent(pr, x.k, j)
<1>1. x.k \in Nat /\ y.k \in Nat /\ j \in Nat /\ Len(pr) \in Nat /\ DOMAIN pr = 1 .. Len(pr)
  BY AheadParts, ProgFacts
<1>2. ASSUME NEW i \in x.k + 1 .. j - 1 PROVE ~Meets(pr[i])
  <2>1. i \in DOMAIN pr /\ x.k < i /\ i < y.k
    BY <1>1
  <2> QED BY <2>1, MeetsBetween
<1> QED
  BY <1>2 DEF Adjacent

(* A call that leaves the library's buffer of PE q alone when PE q makes it. *)
Spares(c, q) == ~Fills(c) /\ ~(c.op = "send" /\ c.to = q)

(* A call that spares a library buffer leaves it alone.                      *)
LEMMA SparesLib ==
  ASSUME GoodCalls, Carrying, NEW q \in PE, Step(q), Spares(Call(q), q)
  PROVE  mem'[q].lib = mem[q].lib
<1> DEFINE c == Call(q)
<1>1. mem \in [PE -> Areas] /\ ~Done(q)
  BY DEF Carrying, TypeInv, Memory, Step
<1>2. c.op \notin {"bcast", "allgather", "gather", "gatherv", "isend", "pack", "unpack"} /\ ~(c.op = "send" /\ c.to = q)
  BY DEF Spares, Fills
<1>3. CASE MPI_SendByValue(q) \/ MPI_SendFlagged(q)
  <2>1. c.op = "send"
    BY <1>3 DEF MPI_SendByValue, MPI_SendFlagged, In
  <2>2. \E puts : Puts(q, puts) /\ \A m \in puts : m.to = c.to /\ m.area = "lib"
    BY <1>3 DEF MPI_SendByValue, MPI_SendFlagged, ElementPuts, PutTo
  <2>3. PICK puts : Puts(q, puts) /\ \A m \in puts : m.to = c.to /\ m.area = "lib"
    BY <2>2
  <2>4. \A m \in puts : m.to # q /\ m.area \in {"lib", "usr"}
    BY <1>2, <2>1, <2>3
  <2>5. mem' = mem
    BY <1>1, <2>3, <2>4, PutsFrame
  <2> QED BY <2>5
<1>4. CASE MPI_Recv(q) \/ IrecvMove(q)
  <2>1. PICK cells : mem' = [mem EXCEPT ![q]["usr"] = Store(@, 0, cells)]
    BY <1>4 DEF MPI_Recv, IrecvMove, CopyMyData
  <2> QED BY <1>1, <2>1 DEF Areas
<1>5. CASE mem' = mem
  BY <1>5
<1>6. CASE Collective(q)
  BY <1>2, <1>5, <1>6 DEF Collective, MPI_Barrier, MPI_Iprobe, BarrierReturn, BcastEnter, BcastMove, BcastCopy,
     GatherNull, GatherEnter, AllgatherMove, GatherMove, GatherCopy, GathervEnter, GathervRecvBuf, GathervCheck,
     GathervMove, GathervCopy, In, shmemVars
<1>7. CASE PointToPoint(q)
  BY <1>2, <1>3, <1>4, <1>5, <1>7 DEF PointToPoint, NotMine, SendReturn, IsendEnter, IsendMove, IrecvEnter,
     MPI_Test, In, shmemVars
<1>8. CASE Management(q)
  BY <1>5, <1>8 DEF Management, GroupEnter, MPI_Group_incl, CommEnter, HeapReturn, MPI_Comm_create,
     MPI_Comm_dup, CommFreeEnter, MPI_Comm_free, MPI_Comm_rank, shmemVars
<1>9. CASE Packing(q)
  BY <1>2, <1>9 DEF Packing, PackNoSpace, MPI_Pack, MPI_Unpack, In
<1> QED
  BY <1>6, <1>7, <1>8, <1>9 DEF Step

(* A block in the library's buffer stays safe while that buffer is left      *)
(* alone.                                                                    *)
LEMMA SafeLib ==
  ASSUME prog' = prog, NEW k, NEW p, NEW q, AreaOf(prog[k]) = "lib", mem'[q].lib = mem[q].lib,
         wire \subseteq wire', Safe(k, p, q)
  PROVE  Safe(k, p, q)'
<1>1. ASSUME NEW x \in 0 .. Block(prog[k], p) - 1, NEW z \in Int, z = Base(prog[k], p) + x
      PROVE  mem'[q][AreaOf(prog[k])][z] = Datum(k, p, x) \/ OnTheWay(k, p, q, z)'
  <2>1. There(k, p, q, x, z) \/ OnTheWay(k, p, q, z)
    BY <1>1 DEF Safe
  <2> QED BY <2>1, OnTheWayFrame DEF There
<1> QED
  BY <1>1, SafeAfter

(* What MPI_Send puts on the wire is safe. *)
LEMMA SendSafe ==
  ASSUME GoodCalls, Carrying, prog' = prog, NEW p \in PE, ~Done(p),
         MPI_SendByValue(p) \/ MPI_SendFlagged(p) \/ IsendMove(p),
         NEW k, k = pc[p].k, NEW q \in PE, q # p, SendsTo(prog[k], p, q)
  PROVE  Safe(k, p, q)'
<1> DEFINE c == prog[k]
<1>1. mem \in [PE -> Areas] /\ Call(p) = c /\ k \in DOMAIN prog /\ Sane(c) /\ c.op \in {"send", "isend"}
  <2>1. BarrierInv
    BY DEF Carrying
  <2>2. Call(p) = c /\ k \in DOMAIN prog /\ Sane(c)
    BY <2>1, InCall, SaneCall
  <2> QED BY <2>2 DEF Carrying, TypeInv, Memory, MPI_SendByValue, MPI_SendFlagged, IsendMove, In
<1>2. \E puts, r : /\ Puts(p, puts) /\ r \in PE /\ SendsTo(Call(p), p, r)
                   /\ \A m \in puts : Carries(m) /\ m.id = pc[p].k /\ m.src = p /\ m.to = r
                   /\ \A x \in 0 .. Cells(Call(p)) - 1 : \E m \in puts : x - m.at \in DOMAIN m.cells
  BY SendStep
<1>3. PICK puts, r : /\ Puts(p, puts) /\ r \in PE /\ SendsTo(Call(p), p, r)
                     /\ \A m \in puts : Carries(m) /\ m.id = pc[p].k /\ m.src = p /\ m.to = r
                     /\ \A x \in 0 .. Cells(Call(p)) - 1 : \E m \in puts : x - m.at \in DOMAIN m.cells
  BY <1>2
<1>4. r = q
  BY <1>1, <1>3 DEF SendsTo
<1>5. \A m \in puts : m.area \in {"lib", "usr"}
  BY <1>3, PutArea DEF Carries
<1>6. \A m \in puts : m \in wire'
  BY <1>1, <1>3, <1>4, <1>5, PutsFrame
<1>7. Base(c, p) = 0 /\ Block(c, p) = Cells(c) /\ Cells(c) \in Nat
  BY <1>1, CellsType DEF Base, Block, Sane
<1> SUFFICES ASSUME NEW x \in 0 .. Block(c, p) - 1, NEW z \in Int, z = Base(c, p) + x
             PROVE  OnTheWay(k, p, q, z)'
  BY SafeAfter
<1>8. z = x /\ x \in 0 .. Cells(c) - 1
  BY <1>7
<1>9. PICK m \in puts : x - m.at \in DOMAIN m.cells
  BY <1>1, <1>3, <1>8
<1> QED
  BY <1>3, <1>4, <1>6, <1>8, <1>9 DEF OnTheWay

(* A PE that has not come to call r is in a call that leaves the message     *)
(* alone: the calls before the one that sends it, up to a barrier, count on  *)
(* nothing in that buffer, and the calls after it are still.                 *)
LEMMA WaitingSpares ==
  ASSUME NEW pr \in Programs, Separated(pr), NEW j \in DOMAIN pr, NEW r \in DOMAIN pr, Sent(pr, j, r),
         NEW q, q = pr[j].to, NEW x \in Place(pr), NEW y \in Place(pr), Ahead(pr, x) = Ahead(pr, y),
         x.k \in DOMAIN pr, x.k # j, x.k <= r, j <= y.k
  PROVE  Spares(pr[x.k], q)
<1>1. x.k \in Nat /\ j \in Nat /\ r \in Nat /\ DOMAIN pr = 1 .. Len(pr) /\ q \in PE
  BY AheadParts, ProgFacts DEF Sent
<1>2. CASE x.k < j
  <2>1. Adjacent(pr, x.k, j)
    BY <1>2, BehindAdjacent
  <2>2. ~Needs(pr[x.k], q)
    BY <2>1 DEF Separated, Sent
  <2> QED BY <2>2 DEF Spares, Needs, Fills
<1>3. CASE j < x.k /\ x.k < r
  <2>1. Still(pr[x.k], q)
    BY <1>1, <1>3 DEF Sent
  <2> QED BY <2>1 DEF Still, Spares, Fills
<1>4. CASE x.k = r
  BY <1>4 DEF Sent, Spares, Fills
<1> QED
  BY <1>1, <1>2, <1>3, <1>4

(* A put that arrives where a message waits is part of the message. *)
LEMMA ArrivesWaiting ==
  ASSUME NEW pr \in Programs, Separated(pr), NEW j \in DOMAIN pr, NEW r \in DOMAIN pr, Sent(pr, j, r),
         NEW q, q = pr[j].to, NEW x \in Place(pr), NEW y \in Place(pr), Ahead(pr, x) = Ahead(pr, y),
         x.k <= r, j <= y.k, NEW a \in DOMAIN pr, Reaches(pr[a], q), Ahead(pr, x) = PutEpoch(pr, a)
  PROVE  a = j
<1>1. x.k \in Nat /\ y.k \in Nat /\ j \in Nat /\ r \in Nat /\ DOMAIN pr = 1 .. Len(pr) /\ q \in PE
  BY AheadParts, ProgFacts DEF Sent
<1>2. Needs(pr[j], q) /\ Needs(pr[r], q) /\ \A i \in j + 1 .. r - 1 : Still(pr[i], q)
  BY DEF Sent, Needs
<1>3. a # r
  BY DEF Sent, Reaches, Moving, Travels
<1>4. CASE j <= x.k
  BY <1>1, <1>2, <1>3, <1>4, Window
<1>5. CASE y.k <= r
  <2>1. Ahead(pr, y) = PutEpoch(pr, a)
    OBVIOUS
  <2> QED BY <1>1, <1>2, <1>3, <1>5, <2>1, Window
<1>6. CASE x.k < j /\ r < y.k
  <2>1. PICK i \in j + 1 .. r - 1 : Meets(pr[i])
    BY <1>1 DEF Sent, Adjacent
  <2>2. i \in DOMAIN pr /\ x.k < i /\ i < y.k
    BY <1>1, <1>6, <2>1
  <2> QED BY <2>1, <2>2, MeetsBetween
<1> QED
  BY <1>1, <1>4, <1>5, <1>6

HasSent(p, j) == pc[p].k > j \/ (pc[p].k = j /\ pc[p].at = "spin")

(* A PE sends its message when it comes to the call or behind it. *)
LEMMA ToSent ==
  ASSUME UniformPrograms, BarrierInv, PointInv, NEW p \in PE, Step(p), NEW j \in DOMAIN prog,
         prog[j].op = "send", prog[j].from = p, ~HasSent(p, j), HasSent(p, j)'
  PROVE  pc[p].k = j /\ (MPI_SendByValue(p) \/ MPI_SendFlagged(p))
<1>1. ~Done(p)
  BY DEF Step
<1>2. /\ pc[p].k \in Nat /\ j \in Nat /\ Call(p) = prog[pc[p].k] /\ pc[p].k <= j
      /\ pc[p] \in Place(prog) /\ pc \in [PE -> Place(prog)]
  <2>1. prog \in Programs /\ pc[p].k \in Nat /\ Call(p) = prog[pc[p].k]
    BY <1>1, InCall
  <2>2. j \in Nat
    BY <2>1, ProgFacts
  <2> QED BY <2>1, <2>2 DEF HasSent, BarrierInv, PlaceInv
<1>3. pc[p].k = j
  BY <1>2, StepTo DEF HasSent
<1>4. Inside(prog[j], pc[p])
  BY <1>1, <1>2, <1>3 DEF PointInv
<1>5. pc[p].at = "call"
  BY <1>3, <1>4 DEF Inside, PointsOf, HasSent
<1>6. Call(p).op = "send" /\ Call(p).from = p
  BY <1>2, <1>3
<1> QED
  BY <1>3, <1>5, <1>6 DEF Step, Collective, PointToPoint, Management, Packing, MPI_Barrier, MPI_Iprobe,
     BarrierReturn, BcastEnter, BcastMove, BcastCopy, GatherNull, GatherEnter, AllgatherMove, GatherMove, GatherCopy,
     GathervEnter, GathervRecvBuf, GathervCheck, GathervMove, GathervCopy, NotMine, SendReturn, MPI_Recv,
     IsendEnter, IsendMove, IrecvEnter, IrecvMove, MPI_Test, GroupEnter, MPI_Group_incl, CommEnter, HeapReturn,
     MPI_Comm_create, MPI_Comm_dup, CommFreeEnter, MPI_Comm_free, MPI_Comm_rank, PackNoSpace, MPI_Pack, MPI_Unpack, In

(* The PEs that do not send go on. *)
LEMMA SendElse ==
  ASSUME PointInv, NEW q \in PE, Step(q), Call(q).op = "send", Call(q).from # q
  PROVE  mem' = mem
<1>1. Inside(Call(q), pc[q])
  BY DEF PointInv, Step
<1> QED
  BY DEF Step, Collective, PointToPoint, Management, Packing, MPI_Barrier, MPI_Iprobe,
     BarrierReturn, BcastEnter, BcastMove, BcastCopy, GatherNull, GatherEnter, AllgatherMove, GatherMove, GatherCopy,
     GathervEnter, GathervRecvBuf, GathervCheck, GathervMove, GathervCopy, NotMine, SendReturn, MPI_Recv,
     MPI_SendByValue, MPI_SendFlagged, shmemVars, HeapReturn,
     IsendEnter, IsendMove, IrecvEnter, IrecvMove, MPI_Test, GroupEnter, MPI_Group_incl, CommEnter,
     MPI_Comm_create, MPI_Comm_dup, CommFreeEnter, MPI_Comm_free, MPI_Comm_rank, PackNoSpace, MPI_Pack, MPI_Unpack, In

LEMMA SentInvInit == Init => SentInv
<1> SUFFICES ASSUME Init, NEW j \in DOMAIN prog, NEW r \in DOMAIN prog, Sent(prog, j, r),
                    HasSent(prog[j].from, j)
             PROVE FALSE
  BY DEF SentInv, HasSent
<1>1. prog \in Programs /\ prog[j].from \in PE /\ pc[prog[j].from] = [k |-> 1, at |-> "call", left |-> 0, then |-> "call"]
  BY DEF Init, Sent
<1>2. j \in Nat /\ j >= 1
  BY <1>1, ProgFacts
<1> QED
  BY <1>1, <1>2 DEF HasSent

(* A message is at its destination or on its way until the receiver is past  *)
(* the MPI_Recv.                                                             *)
LEMMA SentInvNext ==
  ASSUME GoodCalls, SeparatedPrograms, Carrying, SentInv, [Next]_vars
  PROVE  SentInv'
<1>0. /\ BarrierInv /\ TypeInv /\ PointInv /\ WireInv /\ UniformPrograms
      /\ mem \in [PE -> Areas] /\ prog \in Programs /\ Separated(prog)
      /\ \A p \in PE : pc[p] \in Place(prog) /\ pc[p].k \in Nat
      /\ \A p, q \in PE : Ahead(prog, pc[p]) = Ahead(prog, pc[q])
  <2>1. prog \in Programs /\ \A p \in PE : pc[p] \in Place(prog)
    BY DEF Carrying, BarrierInv, PlaceInv
  <2>2. \A p \in PE : pc[p].k \in Nat
    BY <2>1, AheadParts
  <2> QED BY <2>1, <2>2 DEF Carrying, GoodCalls, TypeInv, Memory, SeparatedPrograms, BarrierInv, SameAhead
<1>1. prog' = prog
  <2>1. (\E r \in PE : Step(r)) => prog' = prog
    BY StepMoves
  <2> QED BY <2>1 DEF Next, Arrival, BarrierAll, HeapFull, vars, callVars
<1> SUFFICES ASSUME NEW j \in DOMAIN prog, NEW r \in DOMAIN prog, Sent(prog, j, r),
                    NEW p, p = prog[j].from, NEW q, q = prog[j].to, HasSent(p, j)', pc'[q].k <= r
             PROVE  Safe(j, p, q)'
  <2>1. ASSUME NEW j \in DOMAIN prog, NEW r \in DOMAIN prog
        PROVE  Sent(prog, j, r)' <=> Sent(prog, j, r)
    BY <1>1 DEF Sent, Adjacent, Meets, Still, Cells, GetNumBytes
  <2> QED BY <1>1, <2>1 DEF SentInv, HasSent
<1>2. /\ j \in Nat /\ r \in Nat /\ j < r /\ p \in PE /\ q \in PE /\ p # q
      /\ prog[j].op = "send" /\ prog[r].op = "recv" /\ DOMAIN prog = 1 .. Len(prog)
      /\ SendsTo(prog[j], p, q) /\ AreaOf(prog[j]) = "lib" /\ Blocked(prog[j])
  <2>1. Sane(prog[j])
    BY <1>0, SaneCall
  <2> QED BY <1>0, <2>1, ProgFacts DEF Sent, SendsTo, AreaOf, Blocked
<1>3. ASSUME HasSent(p, j), pc[q].k <= r PROVE Safe(j, p, q)
  BY <1>3 DEF SentInv, HasSent
<1>4. HasSent(p, j)' /\ pc'[q].k <= r /\ (HasSent(p, j) => j <= pc[p].k)
  BY <1>0, <1>2 DEF HasSent
<1>5. ASSUME NEW s \in PE, Step(s) PROVE Safe(j, p, q)'
  <2>1. /\ wire \subseteq wire' /\ \A t \in PE \ {s} : mem'[t] = mem[t] /\ pc'[t] = pc[t]
        /\ pc'[s].k = pc[s].k \/ pc'[s].k = pc[s].k + 1
    BY <1>0, <1>5, StepFrame, StepTo DEF Frame
  <2>2. ~Done(s)
    BY <1>5 DEF Step
  <2>3. pc[q].k <= r
    BY <1>0, <1>2, <1>4, <2>1
  <2>4. CASE ~HasSent(p, j)
    <3>1. s = p
      BY <1>2, <1>4, <2>1, <2>4 DEF HasSent
    <3>2. pc[p].k = j /\ (MPI_SendByValue(p) \/ MPI_SendFlagged(p))
      BY <1>0, <1>2, <1>4, <1>5, <2>4, <3>1, ToSent
    <3> QED BY <1>1, <1>2, <2>2, <3>1, <3>2, SendSafe
  <2>5. CASE HasSent(p, j)
    <3>1. Safe(j, p, q)
      BY <1>3, <2>3, <2>5
    <3>2. CASE s # q
      <4>1. mem'[q] = mem[q]
        BY <1>2, <2>1, <3>2
      <4> QED BY <1>1, <2>1, <3>1, <4>1, SafeFrame
    <3>3. CASE s = q
      <4>1. pc[q].k \in DOMAIN prog /\ Call(q) = prog[pc[q].k]
        BY <1>0, <2>2, <3>3, InCall
      <4>2. mem'[q].lib = mem[q].lib
        <5>1. CASE pc[q].k = j
          <6>1. Call(q).op = "send" /\ Call(q).from # q
            BY <1>2, <4>1, <5>1
          <6>2. mem' = mem
            BY <1>0, <1>5, <2>2, <3>3, <6>1, SendElse
          <6> QED BY <6>2
        <5>2. CASE pc[q].k # j
          <6>1. Spares(Call(q), q)
            BY <1>0, <1>2, <1>4, <2>3, <2>5, <4>1, <5>2, WaitingSpares
          <6> QED BY <1>2, <1>5, <3>3, <6>1, SparesLib
        <5> QED BY <5>1, <5>2
      <4> QED BY <1>1, <1>2, <2>1, <3>1, <4>2, SafeLib
    <3> QED BY <3>2, <3>3
  <2> QED BY <2>4, <2>5
<1>6. ASSUME pc'[q].k = pc[q].k, HasSent(p, j), mem' = mem, wire \subseteq wire' PROVE Safe(j, p, q)'
  BY <1>1, <1>3, <1>4, <1>6, SafeFrame
<1>7. CASE BarrierAll \/ HeapFull
  <2>1. /\ pc'[p].k = pc[p].k /\ pc'[q].k = pc[q].k /\ pc[p].at = "barrier" /\ mem' = mem
        /\ wire \subseteq wire' /\ ~Done(p)
    BY <1>0, <1>2, <1>7, BarrierTo
  <2>2. HasSent(p, j)
    <3> SUFFICES ASSUME pc[p].k = j PROVE FALSE
      BY <1>4, <2>1 DEF HasSent
    <3>1. Inside(prog[j], pc[p])
      BY <1>0, <1>2, <2>1 DEF PointInv, Call
    <3> QED BY <1>2, <2>1, <3>1 DEF Inside, PointsOf
  <2> QED BY <1>6, <2>1, <2>2
<1>8. CASE Arrival
  <2>1. PICK m \in wire : Deliver(m) /\ UNCHANGED <<pc, callVars>>
    BY <1>8 DEF Arrival
  <2>2. pc' = pc /\ wire \ {m} \subseteq wire' /\ Stores(m) /\ Carries(m) /\ Ahead(prog, pc[q]) = PutEpoch(prog, m.id)
    BY <1>0, <1>2, <2>1 DEF Deliver, Stores, WireInv
  <2>3. HasSent(p, j) /\ pc[q].k <= r
    BY <1>4, <2>2 DEF HasSent
  <2>4. m.to = q => m.id = j
    <3> SUFFICES ASSUME m.to = q PROVE m.id = j
      OBVIOUS
    <3>1. m.id \in DOMAIN prog /\ Reaches(prog[m.id], q)
      BY <2>2 DEF Carries, Reaches, Travels, SendsTo
    <3> QED BY <1>0, <1>2, <1>4, <2>2, <2>3, <3>1, ArrivesWaiting
  <2> QED BY <1>0, <1>1, <1>2, <1>3, <2>2, <2>3, <2>4, SafeStore
<1>9. CASE UNCHANGED vars
  <2>1. pc' = pc /\ mem' = mem /\ wire' = wire
    BY <1>9 DEF vars, shmemVars
  <2>2. HasSent(p, j)
    BY <1>4, <2>1 DEF HasSent
  <2> QED BY <1>6, <2>1, <2>2
<1> QED
  BY <1>5, <1>7, <1>8, <1>9 DEF Next

(* The cells of a message are its data.                                      *)
LEMMA SliceData ==
  ASSUME NEW lib, NEW n \in Nat, NEW k, NEW p, n = Cells(prog[k]),
         \A x \in 0 .. n - 1 : lib[x] = Datum(k, p, x)
  PROVE  Slice(lib, 0, n) = Data(k, p)
<1>1. \A x \in 0 .. n - 1 : 0 + x = x
  OBVIOUS
<1>2. \A x \in 0 .. n - 1 : lib[0 + x] = Datum(k, p, x)
  BY <1>1
<1>3. \A i \in 0 .. n - 1 : lib[0 + i] = Data(k, p)[i]
  BY <1>2, DataFunction
<1> QED
  BY <1>3, DataFunction, SliceSame

(* MPI_Recv finds the message in the buffer. *)
LEMMA RecvFinds ==
  ASSUME GoodCalls, SeparatedPrograms, PairedPrograms, Carrying, SentInv, NEW q \in PE, ~Done(q), MPI_Recv(q)
  PROVE  Result(q, Data(pc[q].k - Call(q).back, Call(q).from))
<1> DEFINE r == pc[q].k
           c == Call(q)
           j == r - c.back
<1>1. /\ BarrierInv /\ PointInv /\ r \in DOMAIN prog /\ r \in Nat /\ c = prog[r] /\ Sane(c) /\ prog \in Programs
      /\ pc[q] \in Place(prog) /\ DOMAIN prog = 1 .. Len(prog) /\ Len(prog) \in Nat
  BY InCall, SaneCall, ProgFacts DEF Carrying
<1>2. /\ c.op = "recv" /\ pc[q].at = "call" /\ q = c.to /\ Result(q, Slice(mem[q].lib, 0, Cells(c)))
  BY DEF MPI_Recv, In
<1>3. Sent(prog, j, r)
  BY <1>1, <1>2 DEF PairedPrograms
<1> HIDE DEF j
<1>4. /\ j \in Nat /\ j < r /\ j \in DOMAIN prog /\ prog[j].op = "send" /\ c.from = prog[j].from /\ c.to = prog[j].to
      /\ Cells(c) = Cells(prog[j]) /\ Cells(c) \in Nat /\ prog[j].from \in PE /\ ~Adjacent(prog, j, r)
      /\ Base(prog[j], c.from) = 0 /\ Block(prog[j], c.from) = Cells(c) /\ AreaOf(prog[j]) = "lib"
  <2>1. /\ j \in 1 .. r - 1 /\ prog[j].op = "send" /\ c.from = prog[j].from /\ c.to = prog[j].to
        /\ c.type = prog[j].type /\ c.count = prog[j].count /\ prog[j].from \in PE /\ ~Adjacent(prog, j, r)
    BY <1>1, <1>3 DEF Sent
  <2>2. Cells(c) = Cells(prog[j])
    BY <2>1 DEF Cells
  <2> QED BY <1>1, <2>1, <2>2, CellsType DEF Sane, Base, Block, AreaOf
<1>5. PICK i \in j + 1 .. r - 1 : Meets(prog[i])
  BY <1>4 DEF Adjacent
<1>6. i \in DOMAIN prog /\ i \in Nat /\ j < i /\ i < r /\ j + 1 \in Nat
  BY <1>1, <1>4, <1>5
<1>7. pc[c.from].k > j
  <2>1. pc[c.from] \in Place(prog) /\ Ahead(prog, pc[c.from]) = Ahead(prog, pc[q])
    BY <1>1, <1>4 DEF BarrierInv, PlaceInv, SameAhead
  <2>2. ~(pc[c.from].k < i)
    BY <1>1, <1>5, <1>6, <2>1, MeetsBetween
  <2>3. pc[c.from].k \in Nat
    BY <1>1, <2>1, AheadParts
  <2> QED BY <1>4, <1>6, <2>2, <2>3
<1>8. Safe(j, c.from, q)
  BY <1>1, <1>2, <1>3, <1>4, <1>7 DEF SentInv
<1>9. ASSUME NEW m \in wire PROVE m.id # j
  <2> SUFFICES ASSUME m.id = j PROVE FALSE
    OBVIOUS
  <2>1. Ahead(prog, pc[q]) = PutEpoch(prog, j)
    BY DEF Carrying, WireInv
  <2>2. Entry(prog, i) \subseteq Later(prog, j + 1)
    BY <1>1, <1>6, EntryLater
  <2>3. PICK e : e \in Entry(prog, i)
    BY <1>5, EntryMeets
  <2>4. e \in Ahead(prog, pc[q]) /\ e.k = i
    BY <2>1, <2>2, <2>3, EntryPlace DEF PutEpoch
  <2>5. e.k >= r
    BY <1>1, <2>4, AheadParts
  <2> QED BY <1>1, <1>6, <2>4, <2>5
<1>10. ASSUME NEW x \in 0 .. Cells(c) - 1 PROVE mem[q].lib[x] = Datum(j, c.from, x)
  <2>1. PICK z \in Int : z = Base(prog[j], c.from) + x
    BY <1>4
  <2>2. There(j, c.from, q, x, z) \/ OnTheWay(j, c.from, q, z)
    BY <1>4, <1>8, <2>1 DEF Safe
  <2>3. z = x
    BY <1>4, <2>1
  <2> QED BY <1>4, <1>9, <2>2, <2>3 DEF There, OnTheWay
<1>11. Slice(mem[q].lib, 0, Cells(c)) = Data(j, c.from)
  BY <1>4, <1>10, SliceData
<1> QED
  BY <1>2, <1>11 DEF j

LEMMA RecvGetsMessageInit == Init => RecvGetsMessage
BY DEF Init, RecvGetsMessage, NoResult

(* MPI_Recv returns the message: no put of it is on its way after a barrier. *)
LEMMA RecvGetsMessageNext ==
  ASSUME GoodCalls, SeparatedPrograms, PairedPrograms, Carrying, SentInv, GotFunction, RecvGetsMessage, [Next]_vars
  PROVE  RecvGetsMessage'
<1>1. prog' = prog
  <2>1. (\E r \in PE : Step(r)) => prog' = prog
    BY StepMoves
  <2> QED BY <2>1 DEF Next, Arrival, BarrierAll, HeapFull, vars, callVars
<1> SUFFICES ASSUME NEW q \in PE, NEW k, k = got'[q].k, k # 0, prog[k].op = "recv"
             PROVE  got'[q].res = Data(k - prog[k].back, prog[k].from)
  <2>1. \A k, p : Data(k, p)' = Data(k, p)
    BY <1>1 DEF Data, Cells, GetNumBytes, Datum
  <2> QED BY <1>1, <2>1 DEF RecvGetsMessage
<1>2. ASSUME got'[q] = got[q] PROVE got'[q].res = Data(k - prog[k].back, prog[k].from)
  BY <1>2 DEF RecvGetsMessage
<1>3. ASSUME NEW p \in PE, Step(p) PROVE got'[q].res = Data(k - prog[k].back, prog[k].from)
  <2>1. ~Done(p)
    BY <1>3 DEF Step
  <2>2. \/ got' = got \/ MPI_Recv(p)
        \/ Call(p).op # "recv" /\ \E res : Result(p, res)
    <3>1. MPI_Test(p) \/ MPI_Unpack(p) \/ BcastCopy(p) \/ GatherCopy(p) \/ GathervCopy(p) =>
            Call(p).op # "recv" /\ \E res : Result(p, res)
      BY DEF MPI_Test, MPI_Unpack, BcastCopy, GatherCopy, GathervCopy, In
    <3> QED BY <1>3, <3>1, GotStep
  <2>3. ASSUME NEW res, Result(p, res), Call(p).op = "recv" => res = Data(pc[p].k - Call(p).back, Call(p).from)
        PROVE  got'[q].res = Data(k - prog[k].back, prog[k].from)
    <3>1. CASE q = p
      <4>1. k = pc[p].k /\ got'[q].res = res
        BY <2>3, <3>1, ResultGot
      <4> QED BY <2>3, <4>1 DEF Call
    <3>2. CASE q # p
      BY <1>2, <2>3, <3>2, ResultGot
    <3> QED BY <3>1, <3>2
  <2>4. CASE MPI_Recv(p)
    BY <2>1, <2>3, <2>4, RecvFinds
  <2> QED BY <1>2, <2>2, <2>3, <2>4
<1> QED
  BY <1>2, <1>3 DEF Next, BarrierAll, HeapFull, Arrival, vars, callVars

-----------------------------------------------------------------------------
(* Requests.                                                                 *)

(* Behind a barrier that follows a call, no put of the call is on its way. *)
LEMMA PassedPuts ==
  ASSUME NEW pr \in Programs, NEW x \in Place(pr), NEW j \in DOMAIN pr, NEW i \in DOMAIN pr, j < i, i < x.k, Meets(pr[i])
  PROVE  Ahead(pr, x) # PutEpoch(pr, j)
<1> SUFFICES ASSUME Ahead(pr, x) = PutEpoch(pr, j) PROVE FALSE
  OBVIOUS
<1>1. i \in Nat /\ j \in Nat /\ j + 1 \in Nat /\ j + 1 <= i /\ x.k \in Nat
  BY ProgFacts, AheadParts
<1>2. Entry(pr, i) \subseteq Later(pr, j + 1)
  BY <1>1, EntryLater
<1>3. PICK e : e \in Entry(pr, i)
  BY EntryMeets
<1>4. e \in Ahead(pr, x) /\ e.k = i
  BY <1>2, <1>3, EntryPlace DEF PutEpoch
<1>5. e.k >= x.k
  BY <1>4, AheadParts
<1> QED
  BY <1>1, <1>4, <1>5

(* While a request waits for MPI_Test, the only puts on their way to the     *)
(* memory MPI_Test looks at are those of the request.                        *)
LEMMA RequestWindow ==
  ASSUME NEW pr \in Programs, Separated(pr), NEW j \in DOMAIN pr, NEW t \in DOMAIN pr, NEW q \in PE,
         Meets(pr[j]), pr[t].op = "test", \A i \in j + 1 .. t - 1 : Still(pr[i], q),
         NEW x \in Place(pr), j < x.k, x.k <= t, NEW a \in DOMAIN pr, Reaches(pr[a], q), Ahead(pr, x) = PutEpoch(pr, a)
  PROVE  a = j
<1>1. x.k \in Nat /\ a \in Nat /\ j \in Nat /\ t \in Nat /\ DOMAIN pr = 1 .. Len(pr) /\ Len(pr) \in Nat
  BY AheadParts, ProgFacts
<1>2. ~(a < j)
  BY PassedPuts
<1>3. ASSUME j < a, a < t PROVE FALSE
  <2>1. Still(pr[a], q)
    BY <1>1, <1>3
  <2> QED BY <2>1 DEF Still, Reaches, Moving, Travels
<1>4. a # t
  BY DEF Reaches, Moving, Travels
<1>5. ASSUME t < a PROVE FALSE
  <2>1. ~Meets(pr[a]) /\ Later(pr, x.k + 1) = Later(pr, a)
    BY <1>1, <1>5, LaterSends
  <2>2. /\ Later(pr, t + 1) = {b \in Later(pr, x.k + 1) : b.k >= t + 1}
        /\ \A b \in Later(pr, a) : b.k \in Nat /\ b.k >= a
    BY <1>1, LaterPart, LaterPlace
  <2>3. \A b \in Later(pr, a) : b.k >= t + 1
    BY <1>1, <1>5, <2>2
  <2>4. Later(pr, t + 1) = Later(pr, a)
    BY <2>1, <2>2, <2>3
  <2>5. Adjacent(pr, t, a)
    BY <1>5, <2>4, AdjacentEpochs
  <2>6. Travels(pr[a], q) /\ pr[a].op = "send" /\ pr[a].to = q
    BY <2>1, TravelsCalls
  <2>7. Needs(pr[t], q)
    BY DEF Needs
  <2> QED BY <2>5, <2>6, <2>7 DEF Separated
<1> QED
  BY <1>1, <1>2, <1>3, <1>4, <1>5

(* A PE that is in another call than the one that made the request leaves    *)
(* the memory alone that MPI_Test looks at.                                  *)
LEMMA RequestSpares ==
  ASSUME NEW pr \in Programs, Separated(pr), NEW j \in DOMAIN pr, NEW t \in DOMAIN pr, NEW q \in PE,
         Meets(pr[j]), pr[t].op = "test", \A i \in j + 1 .. t - 1 : Still(pr[i], q),
         NEW x \in Place(pr), j < x.k, x.k <= t, NEW y \in Place(pr), Ahead(pr, x) = Ahead(pr, y),
         y.k \in DOMAIN pr, y.k # j
  PROVE  Spares(pr[y.k], q)
<1>1. x.k \in Nat /\ y.k \in Nat /\ j \in Nat /\ t \in Nat /\ DOMAIN pr = 1 .. Len(pr) /\ Len(pr) \in Nat
  BY AheadParts, ProgFacts
<1>2. ~(y.k < j)
  BY MeetsBetween
<1>3. CASE j < y.k /\ y.k < t
  <2>1. Still(pr[y.k], q)
    BY <1>1, <1>3
  <2> QED BY <2>1 DEF Still, Spares, Fills
<1>4. CASE y.k = t
  BY <1>4 DEF Spares, Fills
<1>5. CASE t < y.k
  <2>1. Adjacent(pr, x.k, y.k)
    <3>1. x.k < y.k /\ y.k <= y.k
      BY <1>1, <1>5
    <3> QED BY <3>1, BehindAdjacent
  <2>2. Adjacent(pr, t, y.k)
    BY <1>1, <1>5, <2>1 DEF Adjacent
  <2>3. ~Fills(pr[y.k]) /\ (pr[y.k].op = "send" => ~Needs(pr[t], pr[y.k].to))
    BY <2>2 DEF Separated
  <2> QED BY <2>3 DEF Spares, Needs
<1> QED
  BY <1>1, <1>2, <1>3, <1>4, <1>5

(* With more than one PE the next one is another one.                        *)
LEMMA NextPeOther ==
  ASSUME NEW p \in PE, NumPes > 1
  PROVE  NextPe(p) # p
<1>1. NumPes \in Nat /\ p \in 0 .. NumPes - 1
  BY PeFacts DEF PE
<1>2. \A s \in 0 .. NumPes - 1 : (s + 1) % NumPes = IF s + 1 = NumPes THEN 0 ELSE s + 1
  BY <1>1
<1> QED
  BY <1>1, <1>2 DEF NextPe

(* The requests of the PEs. *)
RequestFunction == request = [p \in PE |-> request[p]]

(* Requests are made by MPI_Isend and MPI_Irecv.                             *)
LEMMA RequestStep ==
  ASSUME NEW p \in PE, Step(p)
  PROVE  request' = request \/ IsendMove(p) \/ IrecvMove(p)
<1>1. CASE Collective(p)
  BY <1>1 DEF Collective, MPI_Barrier, MPI_Iprobe, BarrierReturn, BcastEnter, BcastMove, BcastCopy,
     GatherNull, GatherEnter, AllgatherMove, GatherMove, GatherCopy, GathervEnter, GathervRecvBuf, GathervCheck,
     GathervMove, GathervCopy, callVars
<1>2. CASE PointToPoint(p)
  BY <1>2 DEF PointToPoint, NotMine, MPI_SendByValue, MPI_SendFlagged, SendReturn, MPI_Recv,
     IsendEnter, IrecvEnter, MPI_Test, callVars
<1>3. CASE Management(p)
  BY <1>3 DEF Management, GroupEnter, MPI_Group_incl, CommEnter, HeapReturn, MPI_Comm_create,
     MPI_Comm_dup, CommFreeEnter, MPI_Comm_free, MPI_Comm_rank, callVars
<1>4. CASE Packing(p)
  BY <1>4 DEF Packing, PackNoSpace, MPI_Pack, MPI_Unpack
<1> QED
  BY <1>1, <1>2, <1>3, <1>4 DEF Step

(* A request of one PE leaves those of the others alone.                     *)
LEMMA RequestSet ==
  ASSUME RequestFunction, NEW p \in PE, IsendMove(p) \/ IrecvMove(p)
  PROVE  /\ RequestFunction' /\ \A q \in PE \ {p} : request'[q] = request[q]
         /\ request'[p].rank = NextPe(p) /\ request'[p].last = Call(p).count - 1
         /\ IsendMove(p) => request'[p].expected = Datum(pc[p].k, p, Call(p).count - 1)
         /\ IrecvMove(p) => request'[p].expected = mem[NextPe(p)].lib[Call(p).count - 1]
<1>1. \A x : request' = [request EXCEPT ![p] = x] =>
              RequestFunction' /\ request'[p] = x /\ \A q \in PE \ {p} : request'[q] = request[q]
  BY DEF RequestFunction
<1>2. CASE IsendMove(p)
  <2>1. request' = [request EXCEPT ![p] =
           [rank |-> NextPe(p), last |-> LastInt(Call(p)), expected |-> Datum(pc[p].k, p, Call(p).count - 1)]]
    BY <1>2 DEF IsendMove
  <2>2. IrecvMove(p) => FALSE
    BY <1>2 DEF IsendMove, IrecvMove, In
  <2> QED BY <1>1, <2>1, <2>2 DEF LastInt
<1>3. CASE IrecvMove(p)
  <2>1. request' = [request EXCEPT ![p] =
           [rank |-> NextPe(p), last |-> LastInt(Call(p)), expected |-> mem[NextPe(p)].lib[Call(p).count - 1]]]
    BY <1>3 DEF IrecvMove
  <2>2. IsendMove(p) => FALSE
    BY <1>3 DEF IsendMove, IrecvMove, In
  <2> QED BY <1>1, <2>1, <2>2 DEF LastInt
<1> QED
  BY <1>2, <1>3

(* A request stays good while what it expects is left alone.                 *)
LEMMA AskedAfter ==
  ASSUME prog' = prog, NEW j, NEW p, NEW q, q = NextPe(p), request'[p] = request[p], Asked(j, p),
         prog[j].op = "isend" => Safe(j, p, q)',
         prog[j].op = "irecv" => mem'[q].lib = mem[q].lib
  PROVE  Asked(j, p)'
<1>1. NextPe(p)' = q /\ Datum(j, p, prog[j].count - 1)' = Datum(j, p, prog[j].count - 1)
  BY DatumPrime DEF NextPe, Datum
<1>2. /\ request'[p].rank = q /\ request'[p].last = prog[j].count - 1
      /\ prog[j].op = "isend" => request'[p].expected = Datum(j, p, prog[j].count - 1)
      /\ prog[j].op = "irecv" => request'[p].expected = mem'[q].lib[prog[j].count - 1]
  BY DEF Asked
<1> QED
  BY <1>1, <1>2 DEF Asked, NextPe

(* A request stays good while the next PE's buffer is left alone.            *)
LEMMA AskedFrame ==
  ASSUME prog' = prog, NEW j, NEW p, NEW q, q = NextPe(p), request'[p] = request[p],
         mem'[q].lib = mem[q].lib, wire \subseteq wire', Asked(j, p)
  PROVE  Asked(j, p)'
<1>1. prog[j].op = "isend" => Safe(j, p, q)'
  <2>1. prog[j].op = "isend" => AreaOf(prog[j]) = "lib" /\ Safe(j, p, q)
    BY DEF AreaOf, Asked
  <2> QED BY <2>1, SafeLib
<1> QED
  BY <1>1, AskedAfter

(* The steps in the call that makes the request. *)
LEMMA ReturnAsked ==
  ASSUME UniformPrograms, BarrierInv, PointInv, NEW p \in PE, Step(p), Call(p).op \in {"isend", "irecv"},
         pc'[p].k = pc[p].k + 1
  PROVE  IsendMove(p) \/ IrecvMove(p)
<1>1. Inside(Call(p), pc[p])
  BY DEF PointInv, Step
<1>2. pc[p].at \notin {"failed", "return", "spin", "copy"}
  BY <1>1 DEF Inside, PointsOf
<1>3. ~IsendEnter(p) /\ ~IrecvEnter(p)
  <2>1. pc[p] \in Place(prog) /\ pc \in [PE -> Place(prog)] /\ pc[p].k \in Nat
    BY AheadParts DEF BarrierInv, PlaceInv
  <2> SUFFICES ASSUME Barrier(p, 1, "move") PROVE FALSE
    BY DEF IsendEnter, IrecvEnter
  <2> DEFINE x == [pc[p] EXCEPT !.at = "barrier", !.left = 1, !.then = "move"]
  <2>2. x.k = pc[p].k
    BY <2>1 DEF Place
  <2>3. pc' = [pc EXCEPT ![p] = x]
    BY <2>1 DEF Barrier
  <2> HIDE DEF x
  <2> QED BY <2>1, <2>2, <2>3
<1> QED
  BY <1>2, <1>3 DEF Step, Collective, PointToPoint, Management, Packing, MPI_Barrier, MPI_Iprobe,
     BarrierReturn, BcastEnter, BcastMove, BcastCopy, GatherNull, GatherEnter, AllgatherMove, GatherMove, GatherCopy,
     GathervEnter, GathervRecvBuf, GathervCheck, GathervMove, GathervCopy, NotMine, SendReturn, MPI_Recv,
     MPI_SendByValue, MPI_SendFlagged, HeapReturn, MPI_Test, GroupEnter, MPI_Group_incl, CommEnter,
     MPI_Comm_create, MPI_Comm_dup, CommFreeEnter, MPI_Comm_free, MPI_Comm_rank, PackNoSpace, MPI_Pack, MPI_Unpack, In

(* The calls of a request.                                                   *)
LEMMA RequestedFacts ==
  ASSUME GoodCalls, NEW pr \in Programs, NEW j \in DOMAIN pr, NEW t \in DOMAIN pr, Requested(pr, j, t)
  PROVE  /\ j \in Nat /\ t \in Nat /\ j < t /\ DOMAIN pr = 1 .. Len(pr) /\ Len(pr) \in Nat
         /\ Meets(pr[j]) /\ pr[j].op \in {"isend", "irecv"} /\ pr[t].op = "test"
         /\ pr[j].op = "isend" => Blocked(pr[j]) /\ NumPes > 1
         /\ \A q \in PE : \A i \in j + 1 .. t - 1 : Still(pr[i], q)
BY SaneCall, ProgFacts DEF Requested, Meets, Blocked

(* A step of the PE that made the request. *)
LEMMA AskedOwn ==
  ASSUME GoodCalls, SeparatedPrograms, Carrying, RequestFunction, prog' = prog,
         NEW j \in DOMAIN prog, NEW t \in DOMAIN prog, Requested(prog, j, t), NEW p \in PE, Step(p),
         j < pc'[p].k, pc'[p].k <= t, j < pc[p].k => Asked(j, p)
  PROVE  Asked(j, p)'
<1> PICK q \in PE : q = NextPe(p)
  BY NextPeType
<1>0. /\ BarrierInv /\ TypeInv /\ PointInv /\ UniformPrograms /\ ~Done(p) /\ prog \in Programs /\ Separated(prog)
      /\ mem \in [PE -> Areas] /\ pc[p] \in Place(prog) /\ pc[p].k \in Nat /\ Call(p) = prog[pc[p].k]
      /\ pc[p].k \in DOMAIN prog
  BY InCall DEF Carrying, GoodCalls, Step, SeparatedPrograms, TypeInv, Memory
<1>1. /\ j \in Nat /\ t \in Nat /\ j < t /\ DOMAIN prog = 1 .. Len(prog) /\ Len(prog) \in Nat
      /\ Meets(prog[j]) /\ prog[j].op \in {"isend", "irecv"} /\ prog[t].op = "test"
      /\ prog[j].op = "isend" => Blocked(prog[j]) /\ NumPes > 1
      /\ \A i \in j + 1 .. t - 1 : Still(prog[i], q)
  BY <1>0, RequestedFacts
<1>2. /\ wire \subseteq wire' /\ \A s \in PE \ {p} : mem'[s] = mem[s]
      /\ pc'[p].k = pc[p].k \/ pc'[p].k = pc[p].k + 1
  BY <1>0, StepFrame, StepTo DEF Frame
<1>3. CASE pc[p].k = j
  <2>1. pc'[p].k = pc[p].k + 1
    BY <1>1, <1>2, <1>3
  <2>2. IsendMove(p) \/ IrecvMove(p)
    BY <1>0, <1>1, <1>3, <2>1, ReturnAsked
  <2>3. /\ request'[p].rank = q /\ request'[p].last = prog[j].count - 1
        /\ IsendMove(p) => request'[p].expected = Datum(j, p, prog[j].count - 1)
        /\ IrecvMove(p) => request'[p].expected = mem[q].lib[prog[j].count - 1]
    BY <1>0, <1>3, <2>2, RequestSet
  <2>4. NextPe(p)' = q /\ Datum(j, p, prog[j].count - 1)' = Datum(j, p, prog[j].count - 1)
    BY DEF NextPe, Datum
  <2>5. CASE IsendMove(p)
    <3>1. prog[j].op = "isend" /\ SendsTo(prog[j], p, q)
      BY <1>0, <1>3, <2>5 DEF IsendMove, In, SendsTo
    <3>2. q # p
      BY <1>1, <3>1, NextPeOther
    <3>3. Safe(j, p, q)'
      BY <1>0, <1>3, <2>5, <3>1, <3>2, SendSafe
    <3> QED BY <2>3, <2>4, <2>5, <3>1, <3>3 DEF Asked, NextPe
  <2>6. CASE IrecvMove(p)
    <3>1. prog[j].op = "irecv"
      BY <1>0, <1>3, <2>6 DEF IrecvMove, In
    <3>2. mem'[q].lib = mem[q].lib
      <4>1. PICK cells : mem' = [mem EXCEPT ![p]["usr"] = Store(@, 0, cells)]
        BY <2>6 DEF IrecvMove, CopyMyData
      <4> QED BY <1>0, <4>1 DEF Areas
    <3> QED BY <2>3, <2>4, <2>6, <3>1, <3>2 DEF Asked, NextPe
  <2> QED BY <2>2, <2>5, <2>6
<1>4. CASE pc[p].k # j
  <2>1. j < pc[p].k /\ pc[p].k <= t
    BY <1>0, <1>1, <1>2, <1>4
  <2>2. request' = request
    <3>1. Call(p).op \notin {"isend", "irecv"}
      <4>1. pc[p].k = t \/ Still(prog[pc[p].k], q)
        BY <1>0, <1>1, <2>1
      <4> QED BY <1>0, <1>1, <4>1 DEF Still
    <3> QED BY <3>1, RequestStep DEF IsendMove, IrecvMove, In
  <2>3. mem'[q].lib = mem[q].lib
    <3>1. CASE q # p
      BY <1>2, <3>1
    <3>2. CASE q = p
      <4>1. Spares(prog[pc[p].k], q)
        <5>1. Ahead(prog, pc[p]) = Ahead(prog, pc[p])
          OBVIOUS
        <5> QED BY <1>0, <1>1, <2>1, <1>4, <5>1, RequestSpares
      <4>2. Spares(Call(p), p)
        BY <1>0, <3>2, <4>1
      <4> QED BY <3>2, <4>2, SparesLib
    <3> QED BY <3>1, <3>2
  <2> QED BY <1>2, <2>1, <2>2, <2>3, AskedFrame
<1> QED
  BY <1>3, <1>4

(* A step of another PE. *)
LEMMA AskedOther ==
  ASSUME GoodCalls, SeparatedPrograms, Carrying, RequestFunction, prog' = prog,
         NEW j \in DOMAIN prog, NEW t \in DOMAIN prog, Requested(prog, j, t), NEW p \in PE,
         NEW s \in PE, s # p, Step(s), j < pc[p].k, pc[p].k <= t, Asked(j, p)
  PROVE  Asked(j, p)'
<1> PICK q \in PE : q = NextPe(p)
  BY NextPeType
<1>0. /\ BarrierInv /\ TypeInv /\ PointInv /\ UniformPrograms /\ ~Done(s) /\ prog \in Programs /\ Separated(prog)
      /\ mem \in [PE -> Areas] /\ pc[s] \in Place(prog) /\ pc[s].k \in Nat /\ Call(s) = prog[pc[s].k]
      /\ pc[s].k \in DOMAIN prog
  BY InCall DEF Carrying, GoodCalls, Step, SeparatedPrograms, TypeInv, Memory
<1>1. /\ j \in Nat /\ t \in Nat /\ j < t /\ DOMAIN prog = 1 .. Len(prog) /\ Len(prog) \in Nat
      /\ Meets(prog[j]) /\ prog[j].op \in {"isend", "irecv"} /\ prog[t].op = "test"
      /\ prog[j].op = "isend" => Blocked(prog[j]) /\ NumPes > 1
      /\ \A i \in j + 1 .. t - 1 : Still(prog[i], q)
  BY <1>0, RequestedFacts
<1>2. /\ wire \subseteq wire' /\ \A r \in PE \ {s} : mem'[r] = mem[r]
  BY <1>0, StepFrame DEF Frame
<1>3. request'[p] = request[p]
  BY RequestStep, RequestSet
<1>4. /\ pc[p] \in Place(prog) /\ Ahead(prog, pc[p]) = Ahead(prog, pc[s])
  BY <1>0 DEF BarrierInv, PlaceInv, SameAhead
<1>5. mem'[q].lib = mem[q].lib
  <2>1. CASE q # s
    BY <1>2, <2>1
  <2>2. CASE q = s /\ (pc[s].k # j \/ prog[j].op = "irecv")
    <3>1. Spares(Call(s), s)
      <4>1. CASE pc[s].k # j
        <5>1. Spares(prog[pc[s].k], q)
          <6>1. ASSUME NEW x \in Place(prog), NEW y \in Place(prog), x = pc[p], y = pc[s]
                PROVE  Spares(prog[y.k], q)
            <7>1. /\ Ahead(prog, x) = Ahead(prog, y) /\ y.k \in DOMAIN prog /\ y.k # j /\ j < x.k /\ x.k <= t
                  /\ prog \in Programs /\ Separated(prog) /\ Meets(prog[j]) /\ prog[t].op = "test"
              BY <1>0, <1>1, <1>4, <4>1, <6>1
            <7> QED BY <1>1, <7>1, RequestSpares
          <6> QED BY <1>0, <1>4, <6>1
        <5> QED BY <1>0, <2>2, <5>1
      <4>2. CASE pc[s].k = j /\ prog[j].op = "irecv"
        BY <1>0, <4>2 DEF Spares, Fills
      <4> QED BY <2>2, <4>1, <4>2
    <3> QED BY <2>2, <3>1, SparesLib
  <2>3. CASE q = s /\ pc[s].k = j /\ prog[j].op = "isend"
    <3>1. CASE IsendMove(s)
      <4>1. ASSUME NEW m, Carries(m), m.id = j, m.src = s, m.to = s PROVE FALSE
        <5>1. NextPe(s) = s
          BY <2>3, <4>1 DEF Carries, SendsTo
        <5> QED BY <1>1, <2>3, <5>1, NextPeOther
      <4>2. MoveOrSend(s)
        BY <3>1 DEF MoveOrSend
      <4>3. mem' = mem
        BY <1>0, <2>3, <4>1, <4>2, MoveOwn
      <4> QED BY <4>3
    <3>2. CASE ~IsendMove(s)
      <4>1. IsendEnter(s)
        <5>1. Inside(Call(s), pc[s])
          BY <1>0 DEF PointInv
        <5>2. Call(s).op = "isend" /\ pc[s].at \notin {"failed", "return", "spin", "copy"}
          BY <1>0, <2>3, <5>1 DEF Inside, PointsOf
        <5> QED BY <3>2, <5>2 DEF Step, Collective, PointToPoint, Management, Packing, MPI_Barrier, MPI_Iprobe,
          BarrierReturn, BcastEnter, BcastMove, BcastCopy, GatherNull, GatherEnter, AllgatherMove, GatherMove, GatherCopy,
          GathervEnter, GathervRecvBuf, GathervCheck, GathervMove, GathervCopy, NotMine, SendReturn, MPI_Recv,
          MPI_SendByValue, MPI_SendFlagged, HeapReturn, MPI_Test, GroupEnter, MPI_Group_incl, CommEnter,
          IrecvEnter, IrecvMove,
          MPI_Comm_create, MPI_Comm_dup, CommFreeEnter, MPI_Comm_free, MPI_Comm_rank, PackNoSpace, MPI_Pack, MPI_Unpack, In
      <4>2. Here(prog, pc[s]) = Entry(prog, j)
        BY <1>0, <2>3, <4>1, HereAtCall DEF IsendEnter, In
      <4>3. PICK e : e \in Entry(prog, j)
        BY <1>1, EntryMeets
      <4>4. e \in Ahead(prog, pc[p]) /\ e.k = j
        BY <1>4, <4>2, <4>3, EntryPlace DEF Ahead
      <4>5. e.k >= pc[p].k /\ pc[p].k \in Nat
        BY <1>0, <1>4, <4>4, AheadParts
      <4> QED BY <1>1, <4>4, <4>5
    <3> QED BY <3>1, <3>2
  <2> QED BY <1>1, <2>1, <2>2, <2>3
<1> QED
  BY <1>2, <1>3, <1>5, AskedFrame

(* The requests are those of the PEs. *)
LEMMA RequestFunctionInit == Init => RequestFunction
BY DEF Init, RequestFunction

LEMMA RequestFunctionNext ==
  ASSUME RequestFunction, [Next]_vars
  PROVE  RequestFunction'
<1>1. request' = request => RequestFunction'
  BY DEF RequestFunction
<1>2. ASSUME NEW s \in PE, Step(s) PROVE RequestFunction'
  BY <1>1, <1>2, RequestStep, RequestSet
<1> QED
  BY <1>1, <1>2 DEF Next, BarrierAll, HeapFull, Arrival, vars, callVars

LEMMA RequestInvInit == Init => RequestInv
<1> SUFFICES ASSUME Init, NEW j \in DOMAIN prog, NEW t \in DOMAIN prog, NEW p \in PE, j < pc[p].k
             PROVE FALSE
  BY DEF RequestInv
<1>1. prog \in Programs /\ pc[p] = [k |-> 1, at |-> "call", left |-> 0, then |-> "call"]
  BY DEF Init
<1>2. j \in Nat /\ j >= 1
  BY <1>1, ProgFacts
<1> QED
  BY <1>1, <1>2

(* What was asked for stays what it is until MPI_Test looks at it. *)
LEMMA RequestInvNext ==
  ASSUME GoodCalls, SeparatedPrograms, Carrying, RequestFunction, RequestInv, [Next]_vars
  PROVE  RequestInv'
<1>0. /\ BarrierInv /\ TypeInv /\ PointInv /\ WireInv /\ UniformPrograms
      /\ mem \in [PE -> Areas] /\ prog \in Programs /\ Separated(prog)
      /\ \A p \in PE : pc[p] \in Place(prog) /\ pc[p].k \in Nat
      /\ \A p, q \in PE : Ahead(prog, pc[p]) = Ahead(prog, pc[q])
  <2>1. prog \in Programs /\ \A p \in PE : pc[p] \in Place(prog)
    BY DEF Carrying, BarrierInv, PlaceInv
  <2>2. \A p \in PE : pc[p].k \in Nat
    BY <2>1, AheadParts
  <2> QED BY <2>1, <2>2 DEF Carrying, GoodCalls, TypeInv, Memory, SeparatedPrograms, BarrierInv, SameAhead
<1>1. prog' = prog
  <2>1. (\E r \in PE : Step(r)) => prog' = prog
    BY StepMoves
  <2> QED BY <2>1 DEF Next, Arrival, BarrierAll, HeapFull, vars, callVars
<1> SUFFICES ASSUME NEW j \in DOMAIN prog, NEW t \in DOMAIN prog, Requested(prog, j, t),
                    NEW p \in PE, j < pc'[p].k, pc'[p].k <= t
             PROVE  Asked(j, p)'
  <2>1. ASSUME NEW j \in DOMAIN prog, NEW t \in DOMAIN prog
        PROVE  Requested(prog, j, t)' <=> Requested(prog, j, t)
    BY <1>1 DEF Requested, Adjacent, Meets, Still
  <2> QED BY <1>1, <2>1 DEF RequestInv
<1> PICK q \in PE : q = NextPe(p)
  BY NextPeType
<1>2. /\ j \in Nat /\ t \in Nat /\ j < t
      /\ Meets(prog[j]) /\ prog[j].op \in {"isend", "irecv"} /\ prog[t].op = "test"
      /\ prog[j].op = "isend" => Blocked(prog[j]) /\ NumPes > 1
      /\ \A i \in j + 1 .. t - 1 : Still(prog[i], q)
  BY <1>0, RequestedFacts DEF Carrying
<1>3. ASSUME j < pc[p].k, pc[p].k <= t PROVE Asked(j, p)
  BY <1>3 DEF RequestInv
<1>4. ASSUME NEW s \in PE, Step(s) PROVE Asked(j, p)'
  <2>1. CASE s = p
    <3>1. pc'[p].k = pc[p].k \/ pc'[p].k = pc[p].k + 1
      BY <1>0, <1>4, <2>1, StepTo
    <3>2. j < pc[p].k => Asked(j, p)
      BY <1>0, <1>2, <1>3, <3>1
    <3> QED BY <1>1, <1>4, <2>1, <3>2, AskedOwn
  <2>2. CASE s # p
    <3>1. pc'[p] = pc[p]
      BY <1>0, <1>4, <2>2, StepFrame, StepTo DEF Frame
    <3>2. j < pc[p].k /\ pc[p].k <= t
      BY <3>1
    <3> QED BY <1>1, <1>3, <1>4, <2>2, <3>2, AskedOther
  <2> QED BY <2>1, <2>2
<1>5. ASSUME pc'[p].k = pc[p].k, mem' = mem, wire \subseteq wire', request' = request PROVE Asked(j, p)'
  <2>1. Asked(j, p)
    BY <1>3, <1>5
  <2> QED BY <1>1, <1>5, <2>1, AskedFrame
<1>6. CASE BarrierAll \/ HeapFull
  <2>1. pc'[p].k = pc[p].k /\ mem' = mem /\ wire \subseteq wire'
    BY <1>0, <1>6, BarrierTo
  <2>2. request' = request
    BY <1>6 DEF BarrierAll, HeapFull, callVars
  <2> QED BY <1>5, <2>1, <2>2
<1>7. CASE Arrival
  <2>1. PICK m \in wire : Deliver(m) /\ UNCHANGED <<pc, callVars>>
    BY <1>7 DEF Arrival
  <2>2. /\ pc' = pc /\ request' = request /\ wire \ {m} \subseteq wire' /\ Stores(m) /\ Carries(m)
        /\ Ahead(prog, pc[p]) = PutEpoch(prog, m.id)
    BY <1>0, <2>1 DEF Deliver, Stores, WireInv, callVars
  <2>3. j < pc[p].k /\ pc[p].k <= t /\ Asked(j, p)
    BY <1>3, <2>2
  <2>4. m.to = q => m.id = j
    <3> SUFFICES ASSUME m.to = q PROVE m.id = j
      OBVIOUS
    <3>1. m.id \in DOMAIN prog /\ Reaches(prog[m.id], q)
      BY <2>2 DEF Carries, Reaches, Travels, SendsTo
    <3> QED BY <1>0, <1>2, <2>2, <2>3, <3>1, RequestWindow
  <2>5. CASE prog[j].op = "isend"
    <3>1. Safe(j, p, q) /\ SendsTo(prog[j], p, q)
      BY <2>3, <2>5 DEF Asked, SendsTo
    <3>2. Safe(j, p, q)'
      BY <1>0, <1>1, <1>2, <2>2, <2>4, <2>5, <3>1, SafeStore
    <3> QED BY <1>1, <2>2, <2>3, <2>5, <3>2, AskedAfter
  <2>6. CASE prog[j].op = "irecv"
    <3>1. m.to # q
      BY <2>2, <2>4, <2>6 DEF Carries, Moving
    <3>2. mem'[q] = mem[q]
      BY <1>0, <2>2, <3>1 DEF Stores
    <3> QED BY <1>1, <2>2, <2>3, <2>6, <3>2, AskedAfter
  <2> QED BY <1>2, <2>5, <2>6
<1>8. CASE UNCHANGED vars
  BY <1>5, <1>8 DEF vars, shmemVars, callVars
<1> QED
  BY <1>4, <1>6, <1>7, <1>8 DEF Next

(* MPI_Test finds the int it expects. *)
LEMMA TestFinds ==
  ASSUME GoodCalls, RequestPrograms, Carrying, RequestInv, NEW p \in PE, ~Done(p), MPI_Test(p)
  PROVE  Result(p, [i \in {0} |-> 1])
<1> DEFINE t == pc[p].k
<1>1. /\ BarrierInv /\ PointInv /\ t \in DOMAIN prog /\ t \in Nat /\ Call(p) = prog[t] /\ prog \in Programs
      /\ pc[p] \in Place(prog) /\ DOMAIN prog = 1 .. Len(prog) /\ Len(prog) \in Nat /\ WireInv
  BY InCall, ProgFacts DEF Carrying
<1>2. /\ prog[t].op = "test"
      /\ Result(p, [i \in {0} |-> IF mem[request[p].rank].lib[request[p].last] = request[p].expected THEN 1 ELSE 0])
  BY <1>1 DEF MPI_Test, In
<1> HIDE DEF t
<1>3. PICK j \in DOMAIN prog : Requested(prog, j, t)
  BY <1>1, <1>2 DEF RequestPrograms
<1>4. j \in Nat /\ j < t /\ prog[j].op \in {"isend", "irecv"} /\ prog[j].count > 0 /\ Sane(prog[j])
  BY <1>1, <1>3, SaneCall DEF Requested
<1>5. Asked(j, p)
  BY <1>1, <1>3, <1>4 DEF RequestInv, t
<1> PICK q \in PE : q = NextPe(p)
  BY NextPeType
<1>6. request[p].rank = q /\ request[p].last = prog[j].count - 1
  BY <1>5 DEF Asked
<1>7. mem[q].lib[prog[j].count - 1] = request[p].expected
  <2>1. CASE prog[j].op = "irecv"
    BY <1>5, <2>1 DEF Asked
  <2>2. CASE prog[j].op = "isend"
    <3>1. /\ Safe(j, p, q) /\ request[p].expected = Datum(j, p, prog[j].count - 1)
          /\ ~Adjacent(prog, j, t)
      BY <1>3, <1>5, <2>2 DEF Asked, Requested
    <3>2. PICK i \in j + 1 .. t - 1 : Meets(prog[i])
      BY <1>4, <3>1 DEF Adjacent
    <3>3. i \in DOMAIN prog /\ j < i /\ i < t
      BY <1>1, <1>4, <3>2
    <3>4. Ahead(prog, pc[p]) # PutEpoch(prog, j)
      BY <1>1, <3>2, <3>3, PassedPuts DEF t
    <3>5. \A m \in wire : m.id # j
      BY <1>1, <3>4 DEF WireInv
    <3>6. PICK z \in Int : z = prog[j].count - 1
      BY <1>4 DEF Sane, FittingCall
    <3>7. Base(prog[j], p) = 0 /\ AreaOf(prog[j]) = "lib" /\ z \in 0 .. Block(prog[j], p) - 1
      <4>1. prog[j].count \in Nat /\ prog[j].type \in DOMAIN Width
        BY <1>4 DEF Sane, FittingCall
      <4>2. PICK w \in Nat \ {0} : w = Width[prog[j].type]
        BY <4>1, MpiAssumption
      <4>3. PICK n \in Nat : n = prog[j].count
        BY <4>1
      <4>4. n * w >= n
        BY <4>2, <4>3
      <4>5. Block(prog[j], p) = n * w
        BY <2>2, <4>2, <4>3 DEF Block, Cells, GetNumBytes
      <4> QED BY <1>4, <2>2, <3>6, <4>3, <4>4, <4>5 DEF Base, AreaOf
    <3>8. z = Base(prog[j], p) + z
      BY <3>7
    <3>9. There(j, p, q, z, z)
      BY <3>1, <3>5, <3>7, <3>8 DEF Safe, OnTheWay
    <3> QED BY <3>1, <3>6, <3>7, <3>9 DEF There
  <2> QED BY <1>4, <2>1, <2>2
<1>8. mem[request[p].rank].lib[request[p].last] = request[p].expected
  BY <1>6, <1>7
<1> QED
  BY <1>2, <1>8

LEMMA TestCompletesInit == Init => TestCompletes
BY DEF Init, TestCompletes, NoResult

(* MPI_Test finds the request complete.                                      *)
LEMMA TestCompletesNext ==
  ASSUME GoodCalls, RequestPrograms, Carrying, RequestInv, GotFunction, TestCompletes, [Next]_vars
  PROVE  TestCompletes'
<1>1. prog' = prog
  <2>1. (\E r \in PE : Step(r)) => prog' = prog
    BY StepMoves
  <2> QED BY <2>1 DEF Next, Arrival, BarrierAll, HeapFull, vars, callVars
<1> SUFFICES ASSUME NEW q \in PE, NEW k, k = got'[q].k, k # 0, prog[k].op = "test"
             PROVE  got'[q].res[0] = 1
  BY <1>1 DEF TestCompletes
<1>2. ASSUME got'[q] = got[q] PROVE got'[q].res[0] = 1
  BY <1>2 DEF TestCompletes
<1>3. ASSUME NEW p \in PE, Step(p) PROVE got'[q].res[0] = 1
  <2>1. ~Done(p)
    BY <1>3 DEF Step
  <2>2. \/ got' = got \/ MPI_Test(p)
        \/ Call(p).op # "test" /\ \E res : Result(p, res)
    <3>1. MPI_Recv(p) \/ MPI_Unpack(p) \/ BcastCopy(p) \/ GatherCopy(p) \/ GathervCopy(p) =>
            Call(p).op # "test" /\ \E res : Result(p, res)
      BY DEF MPI_Recv, MPI_Unpack, BcastCopy, GatherCopy, GathervCopy, In
    <3> QED BY <1>3, <3>1, GotStep
  <2>3. ASSUME NEW res, Result(p, res), Call(p).op = "test" => res[0] = 1
        PROVE  got'[q].res[0] = 1
    <3>1. CASE q = p
      <4>1. k = pc[p].k /\ got'[q].res = res
        BY <2>3, <3>1, ResultGot
      <4> QED BY <2>3, <4>1 DEF Call
    <3>2. CASE q # p
      BY <1>2, <2>3, <3>2, ResultGot
    <3> QED BY <3>1, <3>2
  <2>4. CASE MPI_Test(p)
    <3>1. Result(p, [i \in {0} |-> 1]) /\ [i \in {0} |-> 1][0] = 1
      BY <2>1, <2>4, TestFinds
    <3> QED BY <2>3, <3>1
  <2> QED BY <1>2, <2>2, <2>3, <2>4
<1> QED
  BY <1>2, <1>3 DEF Next, BarrierAll, HeapFull, Arrival, vars, callVars

-----------------------------------------------------------------------------
(* Packing.                                                                  *)

(* Field i of a session is packed by call a and unpacked by call b. *)
FieldAt(s, n, i, next, a, b) == i \in 0 .. n - 1 /\ next = i + 1 /\ a = s + i /\ b = s + n + i

(* The two calls of a field of a session.                                    *)
LEMMA SessionField ==
  ASSUME NEW pr, NEW s, NEW n, NEW off, Session(pr, s, n, off), NEW i, NEW next, NEW a, NEW b, FieldAt(s, n, i, next, a, b)
  PROVE  /\ Twins(pr[a], pr[b], n) /\ Field(pr[a], pr, s, i) /\ Field(pr[b], pr, s, i)
         /\ Accepted(pr, s, off, i) <=> Offset(off, i) + Cells(pr[a]) <= pr[s].size
         /\ Accepted(pr, s, off, i) => Offset(off, next) = Offset(off, i) + Cells(pr[a])
         /\ ~Accepted(pr, s, off, i) => Offset(off, next) = Offset(off, i)
         /\ \E h \in 0 .. n - 1 : Accepted(pr, s, off, h) /\ Cells(pr[a]) <= Cells(pr[s + h])
<1>1. i \in 0 .. n - 1 /\ next = i + 1 /\ a = s + i /\ b = s + n + i
  BY DEF FieldAt
<1>2. /\ Twins(pr[s + i], pr[s + n + i], n)
      /\ Field(pr[s + i], pr, s, i) /\ Field(pr[s + n + i], pr, s, i)
      /\ off[i + 1] = IF Accepted(pr, s, off, i) THEN off[i] + Cells(pr[s + i]) ELSE off[i]
      /\ \E h \in 0 .. n - 1 : Accepted(pr, s, off, h) /\ Cells(pr[s + i]) <= Cells(pr[s + h])
  BY <1>1 DEF Session
<1>3. Accepted(pr, s, off, i) <=> off[i] + Cells(pr[s + i]) <= pr[s].size
  BY DEF Accepted
<1> QED
  BY <1>1, <1>2, <1>3 DEF Offset

(* The calls of a session are calls of the program, with types and sizes.    *)
LEMMA SessionCalls ==
  ASSUME GoodCalls, NEW pr \in Programs, NEW s \in DOMAIN pr, NEW n \in 1 .. Len(pr), NEW off \in [0 .. n -> Nat],
         Session(pr, s, n, off), NEW i, NEW next, NEW a, NEW b, FieldAt(s, n, i, next, a, b)
  PROVE  /\ a \in DOMAIN pr /\ b \in DOMAIN pr
         /\ Cells(pr[a]) \in Nat /\ Cells(pr[b]) = Cells(pr[a]) /\ Cells(pr[a]) <= UsrLen
         /\ Offset(off, i) \in Nat /\ Offset(off, next) \in Nat
<1>0. i \in 0 .. n - 1 /\ next = i + 1 /\ a = s + i /\ b = s + n + i
  BY DEF FieldAt
<1>1. s \in Nat /\ n \in Nat /\ Len(pr) \in Nat /\ DOMAIN pr = 1 .. Len(pr) /\ s >= 1 /\ s + n + n <= Len(pr) + 1
  <2>1. s >= 1 /\ s + n + n <= Len(pr) + 1
    BY DEF Session
  <2> QED BY <2>1, ProgFacts
<1>2. a \in DOMAIN pr /\ b \in DOMAIN pr /\ a \in Nat /\ b \in Nat
  BY <1>0, <1>1, SMTT(20)
<1>3. Offset(off, i) \in Nat /\ Offset(off, next) \in Nat
  <2>1. i \in 0 .. n /\ next \in 0 .. n
    BY <1>0, <1>1
  <2> QED BY <2>1 DEF Offset
<1>4. pr[b].op = "unpack" /\ pr[b].type = pr[a].type /\ pr[b].count = pr[a].count
  <2>1. Twins(pr[a], pr[b], n)
    BY SessionField
  <2> QED BY <2>1 DEF Twins
<1>5. Cells(pr[b]) = Cells(pr[a])
  BY <1>4 DEF Cells
<1>6. Cells(pr[a]) \in Nat /\ Cells(pr[b]) <= UsrLen
  <2>1. Sane(pr[a]) /\ Sane(pr[b])
    BY <1>2, SaneCall
  <2> QED BY <1>4, <2>1, CellsType DEF Sane, FittingCall, FitsOther
<1> QED
  BY <1>2, <1>3, <1>5, <1>6

(* Arithmetic of positions and places.                                       *)
LEMMA AtMost ==
  ASSUME NEW a \in Nat, NEW b \in Nat, NEW c \in Nat, a <= b, b <= c
  PROVE  a <= c
OBVIOUS

LEMMA AtMostPlus ==
  ASSUME NEW a \in Nat, NEW b \in Nat, NEW c \in Nat, NEW d, a <= b, d = b \/ d = b + c
  PROVE  a <= d
OBVIOUS

Follows(z, s, i, j) == z \in Nat /\ s \in Nat /\ i \in Nat /\ j \in Nat /\ z + 1 = s + i /\ i = j + 1

LEMMA PlaceBefore ==
  ASSUME NEW z, NEW s, NEW i, NEW j, Follows(z, s, i, j)
  PROVE  z = s + j
BY DEF Follows

(* The fields that are accepted lie behind each other. *)
LEMMA FieldsApart ==
  ASSUME GoodCalls, NEW pr \in Programs, NEW s \in DOMAIN pr, NEW n \in 1 .. Len(pr), NEW off \in [0 .. n -> Nat],
         Session(pr, s, n, off), NEW h \in 0 .. n - 1, Accepted(pr, s, off, h), NEW i \in 0 .. n, h < i,
         NEW a, a = s + h
  PROVE  Offset(off, h) + Cells(pr[a]) <= Offset(off, i)
<1>0. ASSUME NEW j \in 0 .. n - 1, NEW next, next = j + 1, NEW b, b = s + j
      PROVE  /\ Offset(off, j) \in Nat /\ Offset(off, next) \in Nat /\ Cells(pr[b]) \in Nat
             /\ Accepted(pr, s, off, j) => Offset(off, next) = Offset(off, j) + Cells(pr[b])
             /\ ~Accepted(pr, s, off, j) => Offset(off, next) = Offset(off, j)
  <2> PICK d : d = s + n + j
    OBVIOUS
  <2>1. FieldAt(s, n, j, next, b, d)
    BY <1>0 DEF FieldAt
  <2>2. Offset(off, j) \in Nat /\ Offset(off, next) \in Nat /\ Cells(pr[b]) \in Nat
    BY <2>1, SessionCalls
  <2>3. /\ Accepted(pr, s, off, j) => Offset(off, next) = Offset(off, j) + Cells(pr[b])
        /\ ~Accepted(pr, s, off, j) => Offset(off, next) = Offset(off, j)
    BY <2>1, SessionField
  <2> QED BY <2>2, <2>3
<1>1. PICK e \in Nat : e = Offset(off, h) + Cells(pr[a])
  <2> PICK next : next = h + 1
    OBVIOUS
  <2>1. Offset(off, h) \in Nat /\ Cells(pr[a]) \in Nat
    BY <1>0
  <2>2. Offset(off, h) + Cells(pr[a]) \in Nat
    BY <2>1
  <2> QED BY <2>2
<1> DEFINE S == {j \in 0 .. n : h < j => e <= Offset(off, j)}
<1>2. 0 \in S
  OBVIOUS
<1>3. ASSUME NEW j \in 0 .. n - 1, j \in S PROVE j + 1 \in S
  <2>1. PICK next \in 0 .. n : next = j + 1
    OBVIOUS
  <2>2. PICK b : b = s + j
    OBVIOUS
  <2>3. /\ Offset(off, j) \in Nat /\ Offset(off, next) \in Nat /\ Cells(pr[b]) \in Nat
        /\ Accepted(pr, s, off, j) => Offset(off, next) = Offset(off, j) + Cells(pr[b])
        /\ ~Accepted(pr, s, off, j) => Offset(off, next) = Offset(off, j)
    BY <1>0, <2>1, <2>2
  <2>4. CASE h < j
    <3>1. e <= Offset(off, j)
      BY <1>3, <2>4
    <3>2. Offset(off, next) = Offset(off, j) \/ Offset(off, next) = Offset(off, j) + Cells(pr[b])
      BY <2>3
    <3>3. e <= Offset(off, next)
      BY <2>3, <3>1, <3>2, AtMostPlus
    <3> QED BY <2>1, <3>3
  <2>5. CASE h = j
    <3>1. b = a
      BY <2>2, <2>5
    <3> QED BY <1>1, <2>1, <2>3, <2>5, <3>1
  <2> QED BY <2>1, <2>4, <2>5
<1>4. n \in Nat
  BY ProgFacts
<1> HIDE DEF S
<1>5. i \in S
  BY <1>2, <1>3, <1>4, UpTo
<1> QED
  BY <1>1, <1>5 DEF S

(* The position is set by the calls of MPI_Pack and MPI_Unpack only. *)
LEMMA PosStep ==
  ASSUME NEW p \in PE, Step(p)
  PROVE  pos' = pos \/ MPI_Pack(p) \/ MPI_Unpack(p)
<1>1. CASE Collective(p)
  BY <1>1 DEF Collective, MPI_Barrier, MPI_Iprobe, BarrierReturn, BcastEnter, BcastMove, BcastCopy,
     GatherNull, GatherEnter, AllgatherMove, GatherMove, GatherCopy, GathervEnter, GathervRecvBuf, GathervCheck,
     GathervMove, GathervCopy, callVars
<1>2. CASE PointToPoint(p)
  BY <1>2 DEF PointToPoint, NotMine, MPI_SendByValue, MPI_SendFlagged, SendReturn, MPI_Recv,
     IsendEnter, IsendMove, IrecvEnter, IrecvMove, MPI_Test, callVars
<1>3. CASE Management(p)
  BY <1>3 DEF Management, GroupEnter, MPI_Group_incl, CommEnter, HeapReturn, MPI_Comm_create,
     MPI_Comm_dup, CommFreeEnter, MPI_Comm_free, MPI_Comm_rank, callVars
<1>4. CASE Packing(p)
  BY <1>4 DEF Packing, PackNoSpace
<1> QED
  BY <1>1, <1>2, <1>3, <1>4 DEF Step

(* The steps of the calls of a session. *)
LEMMA SessionStep ==
  ASSUME PointInv, NEW p \in PE, Step(p), Call(p).op \in {"pack", "unpack"}
  PROVE  \/ Call(p).op = "pack" /\ (PackNoSpace(p) \/ MPI_Pack(p))
         \/ Call(p).op = "unpack" /\ MPI_Unpack(p)
<1>1. Inside(Call(p), pc[p])
  BY DEF PointInv, Step
<1>2. pc[p].at \notin {"failed", "return", "spin", "copy"}
  BY <1>1 DEF Inside, PointsOf
<1> QED
  BY <1>2 DEF Step, Collective, PointToPoint, Management, Packing, MPI_Barrier, MPI_Iprobe,
     BarrierReturn, BcastEnter, BcastMove, BcastCopy, GatherNull, GatherEnter, AllgatherMove, GatherMove, GatherCopy,
     GathervEnter, GathervRecvBuf, GathervCheck, GathervMove, GathervCopy, NotMine, SendReturn, MPI_Recv,
     IsendEnter, IsendMove, IrecvEnter, IrecvMove,
     MPI_SendByValue, MPI_SendFlagged, HeapReturn, MPI_Test, GroupEnter, MPI_Group_incl, CommEnter,
     MPI_Comm_create, MPI_Comm_dup, CommFreeEnter, MPI_Comm_free, MPI_Comm_rank, PackNoSpace, MPI_Pack, MPI_Unpack, In

(* A field is kept when it is so cell by cell.                               *)
LEMMA KeptAfter ==
  ASSUME prog' = prog, NEW k, NEW p, NEW area, NEW at,
         \A x \in 0 .. Cells(prog[k]) - 1 : mem'[p][area][at + x] = Datum(k, p, x),
         area = "lib" => \A x \in 0 .. Cells(prog[k]) - 1 : mem'[p].usr[x] = mem'[p].lib[x]
  PROVE  Kept(k, p, area, at)'
<1>1. Holds(k, p, area, at)'
  BY HoldsAfter
<1>2. Cells(prog[k])' = Cells(prog[k])
  BY DEF Cells, GetNumBytes
<1> QED
  BY <1>1, <1>2 DEF Kept

(* A field is kept while the PE's memory is left alone.                      *)
LEMMA KeptFrame ==
  ASSUME prog' = prog, NEW p, mem'[p] = mem[p], NEW k, NEW area, NEW at, Kept(k, p, area, at)
  PROVE  Kept(k, p, area, at)'
<1>1. \A x \in 0 .. Cells(prog[k]) - 1 : mem'[p][area][at + x] = Datum(k, p, x)
  BY DEF Kept, Holds
<1>2. area = "lib" => \A x \in 0 .. Cells(prog[k]) - 1 : mem'[p].usr[x] = mem'[p].lib[x]
  BY DEF Kept
<1> QED
  BY <1>1, <1>2, KeptAfter

(* MPI_Pack stores a field behind those that are packed. *)
LEMMA PackKeeps ==
  ASSUME GoodCalls, Carrying, prog' = prog, NEW p \in PE, ~Done(p), MPI_Pack(p), NEW k, k = pc[p].k,
         NEW area, area = PackArea(prog[k]), NEW at \in Nat, at = Position(p), NEW n \in Nat, n = Cells(prog[k]),
         n <= UsrLen, at + n <= IF prog[k].symS THEN UsrLen ELSE LibLen
  PROVE  /\ Kept(k, p, area, at)'
         /\ \A a : \A b \in Nat : /\ Cells(prog[a]) \in Nat /\ Cells(prog[a]) <= UsrLen /\ b + Cells(prog[a]) <= at
                                  /\ Kept(a, p, area, b)
                                  => Kept(a, p, area, b)'
<1>0. /\ FittingPrograms /\ TypeInv /\ mem \in [PE -> Areas] /\ Call(p) = prog[k]
      /\ UsrLen \in Nat /\ LibLen \in Nat
  BY InCall, Sizes DEF Carrying, GoodCalls, TypeInv, Memory
<1>1. DOMAIN mem[p].lib = 0 .. LibLen - 1 /\ DOMAIN mem[p].usr = 0 .. UsrLen - 1
  BY <1>0, AreaTypes
<1> DEFINE lib == Store(mem[p].lib, at, Data(k, p))
           usr == Store(mem[p].usr, 0, Slice(lib, 0, n))
<1>2. /\ prog[k].symS => mem' = [mem EXCEPT ![p].usr = Store(@, at, Data(k, p))]
      /\ ~prog[k].symS => mem' = [mem EXCEPT ![p] = [lib |-> lib, usr |-> usr]]
  BY <1>0, PackOwn
<1>3. CASE prog[k].symS
  <2>1. area = "usr" /\ at + n <= UsrLen
    BY <1>3 DEF PackArea
  <2>2. mem'[p].usr = Store(mem[p].usr, at, Data(k, p))
    <3>1. mem' = [mem EXCEPT ![p].usr = Store(@, at, Data(k, p))]
      BY <1>2, <1>3
    <3> QED BY <1>0, <3>1 DEF Areas
  <2>3. Kept(k, p, area, at)'
    <3>1. ASSUME NEW x \in 0 .. Cells(prog[k]) - 1 PROVE mem'[p][area][at + x] = Datum(k, p, x)
      <4>1. at + x \in DOMAIN mem[p].usr
        BY <1>0, <1>1, <2>1
      <4> QED BY <2>1, <2>2, <4>1, StoreData
    <3> QED BY <2>1, <3>1, KeptAfter
  <2>4. ASSUME NEW a, NEW b \in Nat, Cells(prog[a]) \in Nat, b + Cells(prog[a]) <= at, Kept(a, p, area, b)
        PROVE  Kept(a, p, area, b)'
    <3>1. ASSUME NEW x \in 0 .. Cells(prog[a]) - 1 PROVE mem'[p][area][b + x] = Datum(a, p, x)
      <4>1. PICK z : z = b + x
        OBVIOUS
      <4>2. z \in DOMAIN mem[p].usr /\ z - at \notin 0 .. n - 1
        BY <1>0, <1>1, <2>1, <2>4, <4>1, SMTT(20)
      <4>3. DOMAIN Data(k, p) = 0 .. n - 1
        BY DEF Data
      <4>4. mem'[p].usr[z] = mem[p].usr[z]
        BY <2>2, <4>2, <4>3, StoreCell
      <4>5. mem[p].usr[z] = Datum(a, p, x)
        BY <2>1, <2>4, <4>1 DEF Kept, Holds
      <4> QED BY <2>1, <4>1, <4>4, <4>5
    <3> QED BY <2>1, <3>1, KeptAfter
  <2> QED BY <2>3, <2>4
<1>4. CASE ~prog[k].symS
  <2>1. area = "lib" /\ at + n <= LibLen
    BY <1>4 DEF PackArea
  <2>2. mem'[p].lib = lib /\ mem'[p].usr = usr
    BY <1>0, <1>2, <1>4
  <2>3. DOMAIN lib = 0 .. LibLen - 1 /\ DOMAIN Data(k, p) = 0 .. n - 1 /\ DOMAIN Slice(lib, 0, n) = 0 .. n - 1
    BY <1>1 DEF Store, Data, Slice
  <2>4. ASSUME NEW z \in 0 .. UsrLen - 1 PROVE usr[z] = IF z < n THEN lib[z] ELSE mem[p].usr[z]
    <3>1. z \in DOMAIN mem[p].usr /\ z - 0 = z
      BY <1>0, <1>1
    <3>2. CASE z < n
      <4>1. z \in 0 .. n - 1 /\ 0 + z = z
        BY <1>0, <3>2
      <4>2. Slice(lib, 0, n)[z] = lib[z]
        BY <4>1 DEF Slice
      <4> QED BY <2>3, <3>1, <3>2, <4>1, <4>2, StoreCell
    <3>3. CASE ~(z < n)
      <4>1. z \notin 0 .. n - 1
        BY <1>0, <3>3
      <4> QED BY <2>3, <3>1, <3>3, <4>1, StoreCell
    <3> QED BY <3>2, <3>3
  <2>5. ASSUME NEW x \in 0 .. n - 1 PROVE lib[at + x] = Datum(k, p, x)
    <3>1. at + x \in DOMAIN mem[p].lib
      BY <1>0, <1>1, <2>1
    <3> QED BY <3>1, StoreData
  <2>6. ASSUME NEW z \in Nat, z < at PROVE lib[z] = mem[p].lib[z]
    <3>1. z \in DOMAIN mem[p].lib /\ z - at \notin 0 .. n - 1
      BY <1>0, <1>1, <2>1, <2>6
    <3> QED BY <2>3, <3>1, StoreCell
  <2> HIDE DEF lib, usr
  <2>7. Kept(k, p, area, at)'
    <3>1. \A x \in 0 .. Cells(prog[k]) - 1 : mem'[p][area][at + x] = Datum(k, p, x)
      BY <2>1, <2>2, <2>5
    <3>2. \A x \in 0 .. Cells(prog[k]) - 1 : mem'[p].usr[x] = mem'[p].lib[x]
      <4>1. \A x \in 0 .. n - 1 : x \in 0 .. UsrLen - 1 /\ x < n
        BY <1>0
      <4> QED BY <2>2, <2>4, <4>1
    <3> QED BY <3>1, <3>2, KeptAfter
  <2>8. ASSUME NEW a, NEW b \in Nat, Cells(prog[a]) \in Nat, Cells(prog[a]) <= UsrLen, b + Cells(prog[a]) <= at,
               Kept(a, p, area, b)
        PROVE  Kept(a, p, area, b)'
    <3> PICK w \in Nat : w = Cells(prog[a])
      BY <2>8
    <3>1. ASSUME NEW x \in 0 .. w - 1 PROVE mem'[p][area][b + x] = Datum(a, p, x)
      <4>1. PICK z : z = b + x
        OBVIOUS
      <4>2. z \in Nat /\ z < at
        BY <2>8, <4>1
      <4>3. mem'[p].lib[z] = mem[p].lib[z]
        BY <2>2, <2>6, <4>2
      <4>4. mem[p].lib[z] = Datum(a, p, x)
        BY <2>1, <2>8, <4>1 DEF Kept, Holds
      <4> QED BY <2>1, <4>1, <4>3, <4>4
    <3>2. ASSUME NEW x \in 0 .. w - 1 PROVE mem'[p].usr[x] = mem'[p].lib[x]
      <4>1. x \in Nat /\ x < at /\ x \in 0 .. UsrLen - 1
        BY <1>0, <2>8
      <4>2. mem[p].usr[x] = mem[p].lib[x]
        BY <2>1, <2>8 DEF Kept
      <4> QED BY <2>2, <2>4, <2>6, <4>1, <4>2
    <3> QED BY <3>1, <3>2, KeptAfter
  <2> QED BY <2>7, <2>8
<1> QED
  BY <1>3, <1>4

(* MPI_Unpack leaves the memory as it is. *)
LEMMA UnpackKeeps ==
  ASSUME mem \in [PE -> Areas], NEW p \in PE, MPI_Unpack(p), NEW a, NEW b, Kept(a, p, PackArea(Call(p)), b),
         Cells(Call(p)) \in Nat, Cells(prog[a]) \in Nat, Cells(Call(p)) <= Cells(prog[a])
  PROVE  mem' = mem
<1> DEFINE c == Call(p)
           n == Cells(c)
<1>1. CASE c.symS
  BY <1>1 DEF MPI_Unpack
<1>2. CASE ~c.symS
  <2> DEFINE new == Store(mem[p].lib, 0, Slice(mem[p].usr, 0, n))
  <2>1. mem' = [mem EXCEPT ![p]["lib"] = new]
    BY <1>2 DEF MPI_Unpack, CopyMyData
  <2>2. mem[p].lib \in [0 .. LibLen - 1 -> Int]
    BY AreaTypes
  <2>3. ASSUME NEW z \in 0 .. LibLen - 1 PROVE new[z] = mem[p].lib[z]
    <3>1. z \in DOMAIN mem[p].lib /\ z - 0 = z /\ 0 + z = z /\ DOMAIN Slice(mem[p].usr, 0, n) = 0 .. n - 1
      BY <2>2, Sizes DEF Slice
    <3>2. CASE z \in 0 .. n - 1
      <4>1. Slice(mem[p].usr, 0, n)[z] = mem[p].usr[z]
        BY <3>1, <3>2 DEF Slice
      <4>2. z \in 0 .. Cells(prog[a]) - 1
        BY <3>2
      <4>3. mem[p].usr[z] = mem[p].lib[z]
        BY <1>2, <4>2 DEF Kept, PackArea
      <4> QED BY <3>1, <3>2, <4>1, <4>3, StoreCell
    <3>3. CASE z \notin 0 .. n - 1
      BY <3>1, <3>3, StoreCell
    <3> QED BY <3>2, <3>3
  <2>4. new = mem[p].lib
    <3>1. new = [z \in 0 .. LibLen - 1 |-> new[z]]
      BY <2>2 DEF Store
    <3> HIDE DEF new
    <3> QED BY <2>2, <2>3, <3>1
  <2> HIDE DEF new
  <2> QED BY <2>1, <2>4 DEF Areas
<1> QED
  BY <1>1, <1>2

(* The first field is at the start of the buffer, and fits.                  *)
LEMMA SessionFirst ==
  ASSUME NEW pr, NEW s, NEW n, NEW off, Session(pr, s, n, off)
  PROVE  /\ Offset(off, 0) = 0 /\ Accepted(pr, s, off, 0)
         /\ pr[s].size \in Nat
         /\ pr[s].symS => pr[s].size <= UsrLen
         /\ ~pr[s].symS => pr[s].size <= LibLen
BY DEF Session, Offset

\* The field that call i of a session packs or unpacks.
FieldOf(n, i, h) == h = IF i < n THEN i ELSE i - n

\* What holds of PE p when call i of a session is its next.
InField(p, s, n, off, i, h, next, a, b) ==
  /\ pc[p].k = (IF i < n THEN a ELSE b)
  /\ Call(p).op = (IF i < n THEN "pack" ELSE "unpack")
  /\ Cells(Call(p)) = Cells(prog[a]) /\ Cells(prog[a]) \in Nat /\ Cells(prog[a]) <= UsrLen
  /\ Offset(off, h) \in Nat /\ Offset(off, next) \in Nat
  /\ Call(p).comm = 1 /\ PackArea(Call(p)) = PackArea(prog[s])
  /\ Call(p).symS = prog[s].symS /\ Call(p).size = prog[s].size
  /\ Position(p) = Offset(off, h) /\ (NoSpace(p) <=> ~Accepted(prog, s, off, h))
  /\ h # 0 => pos[p] = Offset(off, h)
  /\ \A g \in 0 .. n - 1 :
       g < i /\ Accepted(prog, s, off, g) => Kept(s + g, p, PackArea(prog[s]), Offset(off, g))

(* A PE in a session: the position and what has been packed. *)
LEMMA SessionPlace ==
  ASSUME GoodCalls, BarrierInv, SessionInv, NEW p \in PE, ~Done(p), NEW s \in DOMAIN prog, NEW n \in 1 .. Len(prog),
         NEW off \in [0 .. n -> Nat], Session(prog, s, n, off), NEW i \in 0 .. n + n - 1, pc[p].k = s + i,
         NEW h, FieldOf(n, i, h), NEW next, NEW a, NEW b, FieldAt(s, n, h, next, a, b)
  PROVE  InField(p, s, n, off, i, h, next, a, b)
<1>1. prog \in Programs /\ n \in Nat /\ s \in Nat /\ Call(p) = prog[pc[p].k]
  BY InCall, ProgFacts
<1>2. pc[p].k = (IF i < n THEN a ELSE b)
  BY <1>1 DEF FieldAt, FieldOf
<1>3. /\ Twins(prog[a], prog[b], n) /\ Field(prog[a], prog, s, h) /\ Field(prog[b], prog, s, h)
      /\ Accepted(prog, s, off, h) <=> Offset(off, h) + Cells(prog[a]) <= prog[s].size
  BY <1>1, SessionField
<1>4. /\ Cells(prog[a]) \in Nat /\ Cells(prog[b]) = Cells(prog[a]) /\ Cells(prog[a]) <= UsrLen
      /\ Offset(off, h) \in Nat /\ Offset(off, next) \in Nat
  <2>1. ASSUME NEW pr \in Programs, pr = prog
        PROVE  /\ Cells(pr[a]) \in Nat /\ Cells(pr[b]) = Cells(pr[a]) /\ Cells(pr[a]) <= UsrLen
               /\ Offset(off, h) \in Nat /\ Offset(off, next) \in Nat
    <3>1. /\ s \in DOMAIN pr /\ n \in 1 .. Len(pr) /\ off \in [0 .. n -> Nat] /\ Session(pr, s, n, off)
          /\ FieldAt(s, n, h, next, a, b)
      BY <2>1
    <3> QED BY <3>1, SessionCalls
  <2> QED BY <1>1, <2>1
<1>5. i # 0 => SessionAt(s, n, off, p, i)
  <2>1. i # 0 => i \in 1 .. n + n - 1
    BY <1>1
  <2> QED BY <2>1 DEF SessionInv
<1>6. Call(p) = prog[IF i < n THEN a ELSE b]
  BY <1>1, <1>2
<1>7. Field(Call(p), prog, s, h) /\ Cells(Call(p)) = Cells(prog[a])
  BY <1>3, <1>4, <1>6
<1>8. Call(p).op = (IF i < n THEN "pack" ELSE "unpack")
  BY <1>3, <1>6 DEF Twins
<1>9. h # 0 => pos[p] = Offset(off, h)
  <2> SUFFICES ASSUME h # 0 PROVE pos[p] = Offset(off, h)
    OBVIOUS
  <2>1. i # 0 /\ h = IF i <= n THEN i ELSE i - n
    BY <1>1 DEF FieldOf
  <2> QED BY <1>5, <2>1 DEF SessionAt
<1>10. Position(p) = Offset(off, h)
  <2>1. Call(p).first <=> h = 0
    BY <1>7 DEF Field
  <2>2. Offset(off, 0) = 0
    BY SessionFirst
  <2> QED BY <1>9, <2>1, <2>2 DEF Position
<1>11. Call(p).size = prog[s].size /\ Call(p).symS = prog[s].symS /\ Call(p).comm = 1
  BY <1>7 DEF Field
<1>12. PackArea(Call(p)) = PackArea(prog[s])
  BY <1>11 DEF PackArea
<1>13. NoSpace(p) <=> ~Accepted(prog, s, off, h)
  <2>1. prog[s].size \in Nat
    BY SessionFirst
  <2>2. PICK x \in Nat : x = Offset(off, h)
    BY <1>4
  <2>3. PICK y \in Nat : y = Cells(prog[a])
    BY <1>4
  <2>4. NoSpace(p) <=> x + y > prog[s].size
    BY <1>7, <1>10, <1>11, <2>2, <2>3 DEF NoSpace
  <2>5. Accepted(prog, s, off, h) <=> x + y <= prog[s].size
    BY <1>3, <2>2, <2>3
  <2> QED BY <2>1, <2>4, <2>5
<1>14. ASSUME NEW g \in 0 .. n - 1, g < i, Accepted(prog, s, off, g)
       PROVE  Kept(s + g, p, PackArea(prog[s]), Offset(off, g))
  <2>1. i # 0
    BY <1>14
  <2> QED BY <1>5, <1>14, <2>1 DEF SessionAt
<1> QED
  BY <1>2, <1>4, <1>7, <1>8, <1>9, <1>10, <1>11, <1>12, <1>13, <1>14 DEF InField

(* A session goes on when the position is that of the next field and the     *)
(* fields packed so far are kept.                                            *)
LEMMA SessionAfter ==
  ASSUME prog' = prog, NEW s, NEW n, NEW off, NEW p, NEW i, NEW area, area = PackArea(prog[s]),
         pos'[p] = Offset(off, IF i <= n THEN i ELSE i - n),
         \A g \in 0 .. n - 1 : \A a : a = s + g /\ g < i /\ Accepted(prog, s, off, g) => Kept(a, p, area, Offset(off, g))'
  PROVE  SessionAt(s, n, off, p, i)'
<1>1. (Accepted(prog, s, off, 0) => Accepted(prog, s, off, 0)) /\ PackArea(prog[s])' = area
  BY DEF PackArea
<1>2. \A g : Accepted(prog, s, off, g)' <=> Accepted(prog, s, off, g)
  BY DEF Accepted, Cells, GetNumBytes
<1> SUFFICES ASSUME NEW g \in 0 .. n - 1, g < i, Accepted(prog, s, off, g)
             PROVE  Kept(s + g, p, area, Offset(off, g))'
  BY <1>1, <1>2 DEF SessionAt
<1>3. PICK a : a = s + g
  OBVIOUS
<1>4. Kept(a, p, area, Offset(off, g))'
  BY <1>3
<1> QED
  BY <1>3, <1>4

(* The number of field i and of its calls. *)
LEMMA FieldHere ==
  ASSUME NEW s \in Nat, NEW n \in Nat, NEW i \in 0 .. n + n - 1
  PROVE  \E h \in 0 .. n - 1 : \E next, a, b : FieldOf(n, i, h) /\ FieldAt(s, n, h, next, a, b)
<1>1. PICK h \in 0 .. n - 1 : h = IF i < n THEN i ELSE i - n
  <2>1. CASE i < n
    BY <2>1
  <2>2. CASE ~(i < n)
    <3>1. i - n \in 0 .. n - 1
      BY <2>2
    <3> QED BY <2>2, <3>1
  <2> QED BY <2>1, <2>2
<1>2. FieldAt(s, n, h, h + 1, s + h, s + n + h)
  BY DEF FieldAt
<1> QED
  BY <1>1, <1>2 DEF FieldOf

(* A PE in a session leaves its call with every step. *)
LEMMA SessionLeaves ==
  ASSUME PointInv, BarrierInv, NEW p \in PE, Step(p), Call(p).op \in {"pack", "unpack"}
  PROVE  pc'[p].k = pc[p].k + 1
<1>1. Return(p)
  BY SessionStep DEF PackNoSpace, MPI_Pack, MPI_Unpack
<1>2. pc \in [PE -> Place(prog)]
  BY DEF BarrierInv, PlaceInv
<1> QED
  BY <1>1, <1>2 DEF Return

(* The next field, after a step of the PE. *)
LEMMA SessionOwn ==
  ASSUME GoodCalls, Carrying, SessionInv, prog' = prog, NEW p \in PE, Step(p),
         NEW s \in DOMAIN prog, NEW n \in 1 .. Len(prog), NEW off \in [0 .. n -> Nat], Session(prog, s, n, off),
         NEW i \in 0 .. n + n - 1, pc[p].k = s + i, NEW j, j = i + 1
  PROVE  SessionAt(s, n, off, p, j)'
<1>0. /\ BarrierInv /\ PointInv /\ TypeInv /\ ~Done(p)
      /\ mem \in [PE -> Areas] /\ pos \in [PE -> Nat]
  BY DEF Carrying, Step, TypeInv, Memory
<1>f. prog \in Programs /\ Call(p) = prog[pc[p].k] /\ DOMAIN prog = 1 .. Len(prog) /\ Len(prog) \in Nat
  BY <1>0, InCall, ProgFacts
<1>1. /\ BarrierInv /\ PointInv /\ TypeInv /\ ~Done(p) /\ prog \in Programs /\ n \in Nat /\ n >= 1 /\ s \in Nat
      /\ mem \in [PE -> Areas] /\ pos \in [PE -> Nat] /\ Call(p) = prog[pc[p].k] /\ i \in Nat
  <2>1. n \in Nat /\ n >= 1 /\ s \in Nat /\ i \in Nat
    BY <1>f
  <2> QED BY <1>0, <1>f, <2>1
<1>h. PICK h \in 0 .. n - 1 : \E next, a, b : FieldOf(n, i, h) /\ FieldAt(s, n, h, next, a, b)
  BY <1>1, FieldHere
<1>2. PICK next, a, b : FieldOf(n, i, h) /\ FieldAt(s, n, h, next, a, b)
  BY <1>h
<1> PICK area : area = PackArea(prog[s])
  OBVIOUS
<1>3. /\ pc[p].k = (IF i < n THEN a ELSE b)
      /\ Call(p).op = (IF i < n THEN "pack" ELSE "unpack")
      /\ Cells(Call(p)) = Cells(prog[a]) /\ Cells(prog[a]) \in Nat /\ Cells(prog[a]) <= UsrLen
      /\ Offset(off, h) \in Nat /\ Offset(off, next) \in Nat
      /\ Call(p).comm = 1 /\ PackArea(Call(p)) = area
      /\ Call(p).symS = prog[s].symS /\ Call(p).size = prog[s].size
      /\ Position(p) = Offset(off, h) /\ (NoSpace(p) <=> ~Accepted(prog, s, off, h))
      /\ h # 0 => pos[p] = Offset(off, h)
      /\ \A g \in 0 .. n - 1 : g < i /\ Accepted(prog, s, off, g) => Kept(s + g, p, area, Offset(off, g))
  <2>1. InField(p, s, n, off, i, h, next, a, b)
    BY <1>1, <1>2, SessionPlace
  <2> QED BY <2>1 DEF InField
<1>4. /\ Accepted(prog, s, off, h) => Offset(off, next) = Offset(off, h) + Cells(prog[a])
      /\ ~Accepted(prog, s, off, h) => Offset(off, next) = Offset(off, h)
      /\ Accepted(prog, s, off, h) <=> Offset(off, h) + Cells(prog[a]) <= prog[s].size
      /\ \E g \in 0 .. n - 1 : Accepted(prog, s, off, g) /\ Cells(prog[a]) <= Cells(prog[s + g])
  <2> ASSUME NEW pr, Session(pr, s, n, off)
      PROVE  /\ Accepted(pr, s, off, h) => Offset(off, next) = Offset(off, h) + Cells(pr[a])
             /\ ~Accepted(pr, s, off, h) => Offset(off, next) = Offset(off, h)
             /\ Accepted(pr, s, off, h) <=> Offset(off, h) + Cells(pr[a]) <= pr[s].size
             /\ \E g \in 0 .. n - 1 : Accepted(pr, s, off, g) /\ Cells(pr[a]) <= Cells(pr[s + g])
    BY <1>2, SessionField
  <2> QED OBVIOUS
<1>5. /\ Accepted(prog, s, off, 0) /\ prog[s].size \in Nat
      /\ prog[s].symS => prog[s].size <= UsrLen
      /\ ~prog[s].symS => prog[s].size <= LibLen
  <2> ASSUME NEW pr, Session(pr, s, n, off)
      PROVE  /\ Accepted(pr, s, off, 0) /\ pr[s].size \in Nat
             /\ pr[s].symS => pr[s].size <= UsrLen
             /\ ~pr[s].symS => pr[s].size <= LibLen
    BY SessionFirst
  <2> QED OBVIOUS
<1>6. next = (IF j <= n THEN j ELSE j - n) /\ a = s + h /\ (i < n => h = i) /\ j = i + 1
  BY <1>1, <1>2, SMTT(20) DEF FieldOf, FieldAt
<1>7. pos'[p] = Offset(off, next)
  <2>1. CASE Accepted(prog, s, off, h)
    <3>1. MPI_Pack(p) \/ MPI_Unpack(p)
      BY <1>1, <1>3, <2>1, SessionStep DEF PackNoSpace
    <3>2. pos' = [pos EXCEPT ![p] = Position(p) + Cells(Call(p))]
      BY <1>3, <2>1, <3>1 DEF MPI_Pack, MPI_Unpack
    <3> QED BY <1>1, <1>3, <1>4, <2>1, <3>2
  <2>2. CASE ~Accepted(prog, s, off, h)
    <3>1. h # 0
      BY <1>5, <2>2
    <3>2. pos' = pos
      <4>1. PackNoSpace(p) \/ MPI_Unpack(p)
        BY <1>1, <1>3, <2>2, SessionStep DEF MPI_Pack
      <4> QED BY <1>3, <2>2, <4>1 DEF PackNoSpace, MPI_Unpack
    <3> QED BY <1>3, <1>4, <2>2, <3>1, <3>2
  <2> QED BY <2>1, <2>2
<1>8. ASSUME NEW g \in 0 .. n - 1, NEW d, d = s + g, g < i, Accepted(prog, s, off, g), mem'[p] = mem[p]
      PROVE  Kept(d, p, area, Offset(off, g))'
  <2>1. Kept(d, p, area, Offset(off, g))
    BY <1>3, <1>8
  <2> QED BY <1>8, <2>1, KeptFrame
<1>9. ASSUME NEW g \in 0 .. n - 1, NEW d, d = s + g, g < j, Accepted(prog, s, off, g)
      PROVE  Kept(d, p, area, Offset(off, g))'
  <2>1. CASE i < n /\ Accepted(prog, s, off, h)
    <3>1. MPI_Pack(p) /\ pc[p].k = a
      BY <1>1, <1>3, <2>1, SessionStep DEF PackNoSpace
    <3> PICK at \in Nat : at = Offset(off, h)
      BY <1>3
    <3> PICK m \in Nat : m = Cells(prog[a])
      BY <1>3
    <3>2. at = Position(p) /\ m <= UsrLen /\ area = PackArea(prog[a]) /\ Call(p) = prog[a]
      BY <1>1, <1>3, <3>1
    <3>3. at + m <= IF prog[a].symS THEN UsrLen ELSE LibLen
      <4> PICK end \in Nat : end = at + m
        OBVIOUS
      <4>1. end <= prog[s].size
        BY <1>4, <2>1
      <4>2. CASE prog[a].symS
        <5>1. prog[s].symS
          BY <1>3, <3>2, <4>2
        <5>2. prog[s].size <= UsrLen
          BY <1>5, <5>1
        <5>3. end <= UsrLen
          BY <1>5, <4>1, <5>2, Sizes, AtMost
        <5> QED BY <4>2, <5>3
      <4>3. CASE ~prog[a].symS
        <5>1. ~prog[s].symS
          BY <1>3, <3>2, <4>3
        <5>2. prog[s].size <= LibLen
          BY <1>5, <5>1
        <5>3. end <= LibLen
          BY <1>5, <4>1, <5>2, Sizes, AtMost
        <5> QED BY <4>3, <5>3
      <4> QED BY <4>2, <4>3
    <3>4. /\ Kept(a, p, area, at)'
          /\ \A x : \A y \in Nat : /\ Cells(prog[x]) \in Nat /\ Cells(prog[x]) <= UsrLen /\ y + Cells(prog[x]) <= at
                                   /\ Kept(x, p, area, y)
                                   => Kept(x, p, area, y)'
      BY <1>1, <3>1, <3>2, <3>3, PackKeeps
    <3>5. CASE g = h
      <4>1. d = a
        BY <1>6, <1>9, <3>5
      <4> QED BY <3>4, <3>5, <4>1
    <3>6. CASE g # h
      <4>1. g < i /\ g < h
        BY <1>1, <1>6, <1>9, <2>1, <3>6
      <4>2. Kept(d, p, area, Offset(off, g))
        BY <1>3, <1>9, <4>1
      <4>3. Offset(off, g) + Cells(prog[d]) <= Offset(off, h)
        <5>1. h \in 0 .. n
          BY <1>1
        <5>2. ASSUME NEW pr \in Programs, pr = prog PROVE Offset(off, g) + Cells(pr[d]) <= Offset(off, h)
          <6>1. /\ s \in DOMAIN pr /\ n \in 1 .. Len(pr) /\ off \in [0 .. n -> Nat] /\ Session(pr, s, n, off)
                /\ Accepted(pr, s, off, g)
            BY <1>9, <5>2
          <6> QED BY <1>9, <4>1, <5>1, <6>1, FieldsApart
        <5> QED BY <1>1, <5>2
      <4>4. Offset(off, g) \in Nat /\ Cells(prog[d]) \in Nat /\ Cells(prog[d]) <= UsrLen
        <5>1. PICK gnext, e : FieldAt(s, n, g, gnext, d, e)
          BY <1>9 DEF FieldAt
        <5>2. ASSUME NEW pr \in Programs, pr = prog
              PROVE  Offset(off, g) \in Nat /\ Cells(pr[d]) \in Nat /\ Cells(pr[d]) <= UsrLen
          <6>1. /\ s \in DOMAIN pr /\ n \in 1 .. Len(pr) /\ off \in [0 .. n -> Nat] /\ Session(pr, s, n, off)
            BY <5>2
          <6> QED BY <5>1, <6>1, SessionCalls
        <5> QED BY <1>1, <5>2
      <4> QED BY <3>4, <4>2, <4>3, <4>4
    <3> QED BY <3>5, <3>6
  <2>2. CASE i < n /\ ~Accepted(prog, s, off, h)
    <3>1. PackNoSpace(p)
      BY <1>1, <1>3, <2>2, SessionStep DEF MPI_Pack
    <3>2. mem' = mem
      BY <3>1 DEF PackNoSpace, shmemVars
    <3>3. g < i
      BY <1>1, <1>6, <1>9, <2>2
    <3> QED BY <1>8, <1>9, <3>2, <3>3
  <2>3. CASE ~(i < n)
    <3>1. MPI_Unpack(p)
      BY <1>1, <1>3, <2>3, SessionStep
    <3>2. mem' = mem
      <4>1. PICK f \in 0 .. n - 1 : Accepted(prog, s, off, f) /\ Cells(prog[a]) <= Cells(prog[s + f])
        BY <1>4
      <4>2. PICK e : e = s + f
        OBVIOUS
      <4>3. Kept(e, p, area, Offset(off, f))
        <5>1. f < i
          BY <1>1, <2>3
        <5> QED BY <1>3, <4>1, <4>2, <5>1
      <4>4. Cells(prog[e]) \in Nat
        <5>1. PICK fnext, u : FieldAt(s, n, f, fnext, e, u)
          BY <4>2 DEF FieldAt
        <5>2. ASSUME NEW pr \in Programs, pr = prog PROVE Cells(pr[e]) \in Nat
          <6>1. /\ s \in DOMAIN pr /\ n \in 1 .. Len(pr) /\ off \in [0 .. n -> Nat] /\ Session(pr, s, n, off)
            BY <5>2
          <6> QED BY <5>1, <6>1, SessionCalls
        <5> QED BY <1>1, <5>2
      <4> QED BY <1>1, <1>3, <3>1, <4>1, <4>2, <4>3, <4>4, UnpackKeeps
    <3>3. g < i
      BY <1>1, <2>3
    <3> QED BY <1>8, <1>9, <3>2, <3>3
  <2> QED BY <2>1, <2>2, <2>3
<1> QED
  BY <1>6, <1>7, <1>9, SessionAfter

(* A session is at the same place while the PE does nothing.                 *)
LEMMA SessionKeep ==
  ASSUME prog' = prog, NEW p, mem'[p] = mem[p], pos'[p] = pos[p], NEW s, NEW n, NEW off, NEW i,
         SessionAt(s, n, off, p, i)
  PROVE  SessionAt(s, n, off, p, i)'
<1> PICK area : area = PackArea(prog[s])
  OBVIOUS
<1>1. ASSUME NEW g \in 0 .. n - 1, NEW a, a = s + g, g < i, Accepted(prog, s, off, g)
      PROVE  Kept(a, p, area, Offset(off, g))'
  <2>1. Kept(a, p, area, Offset(off, g))
    BY <1>1 DEF SessionAt
  <2> QED BY <2>1, KeptFrame
<1>2. pos'[p] = Offset(off, IF i <= n THEN i ELSE i - n)
  BY DEF SessionAt
<1> QED
  BY <1>1, <1>2, SessionAfter

LEMMA SessionInvInit == Init => SessionInv
<1> SUFFICES ASSUME Init, NEW s \in DOMAIN prog, NEW n \in 1 .. Len(prog), NEW p \in PE, NEW i \in 1 .. n + n - 1,
                    pc[p].k = s + i
             PROVE FALSE
  BY DEF SessionInv
<1>1. prog \in Programs /\ pc[p] = [k |-> 1, at |-> "call", left |-> 0, then |-> "call"]
  BY DEF Init
<1>2. s \in Nat /\ s >= 1 /\ n \in Nat
  BY <1>1, ProgFacts
<1> QED
  BY <1>1, <1>2

(* Between MPI_Pack and MPI_Unpack nothing else writes to the buffers. *)
LEMMA SessionInvNext ==
  ASSUME GoodCalls, SeparatedPrograms, Carrying, SessionInv, [Next]_vars
  PROVE  SessionInv'
<1>0. /\ BarrierInv /\ TypeInv /\ PointInv /\ WireInv /\ UniformPrograms
      /\ mem \in [PE -> Areas] /\ pos \in [PE -> Nat] /\ prog \in Programs
      /\ \A p \in PE : pc[p] \in Place(prog) /\ pc[p].k \in Nat
  <2>1. prog \in Programs /\ \A p \in PE : pc[p] \in Place(prog)
    BY DEF Carrying, BarrierInv, PlaceInv
  <2>2. \A p \in PE : pc[p].k \in Nat
    BY <2>1, AheadParts
  <2> QED BY <2>1, <2>2 DEF Carrying, GoodCalls, TypeInv, Memory
<1>1. prog' = prog
  <2>1. (\E r \in PE : Step(r)) => prog' = prog
    BY StepMoves
  <2> QED BY <2>1 DEF Next, Arrival, BarrierAll, HeapFull, vars, callVars
<1> SUFFICES ASSUME NEW s \in DOMAIN prog, NEW n \in 1 .. Len(prog), NEW off \in [0 .. n -> Nat],
                    Session(prog, s, n, off), NEW p \in PE, NEW i \in 1 .. n + n - 1, pc'[p].k = s + i
             PROVE  SessionAt(s, n, off, p, i)'
  <2>1. ASSUME NEW s, NEW n, NEW off PROVE Session(prog, s, n, off)' <=> Session(prog, s, n, off)
    BY <1>1 DEF Session, Twins, Field, Accepted, Cells, GetNumBytes
  <2> QED BY <1>1, <2>1 DEF SessionInv
<1>2. s \in Nat /\ n \in Nat /\ n >= 1 /\ i \in Nat /\ i \in 0 .. n + n - 1
  BY <1>0, ProgFacts
<1>3. ASSUME pc'[p].k = pc[p].k, mem'[p] = mem[p], pos'[p] = pos[p] PROVE SessionAt(s, n, off, p, i)'
  <2>1. SessionAt(s, n, off, p, i)
    BY <1>3 DEF SessionInv
  <2> QED BY <1>1, <1>3, <2>1, SessionKeep
<1>4. ASSUME pc[p].k = s + i PROVE ~Done(p) /\ pc[p].k \in DOMAIN prog /\ prog[pc[p].k].op \in {"pack", "unpack"}
  <2>h. PICK h \in 0 .. n - 1 : \E next, a, b : FieldOf(n, i, h) /\ FieldAt(s, n, h, next, a, b)
    BY <1>2, FieldHere
  <2>1. PICK next, a, b : FieldOf(n, i, h) /\ FieldAt(s, n, h, next, a, b)
    BY <2>h
  <2>2. pc[p].k = IF i < n THEN a ELSE b
    BY <1>2, <1>4, <2>1 DEF FieldOf, FieldAt
  <2>3. a \in DOMAIN prog /\ b \in DOMAIN prog /\ prog[a].op = "pack" /\ prog[b].op = "unpack"
    <3>1. Twins(prog[a], prog[b], n)
      BY <2>1, SessionField
    <3>2. ASSUME NEW pr \in Programs, pr = prog PROVE a \in DOMAIN pr /\ b \in DOMAIN pr
      <4>1. /\ s \in DOMAIN pr /\ n \in 1 .. Len(pr) /\ off \in [0 .. n -> Nat] /\ Session(pr, s, n, off)
        BY <3>2
      <4> QED BY <2>1, <4>1, SessionCalls
    <3> QED BY <1>0, <3>1, <3>2 DEF Twins
  <2>4. pc[p].k \in DOMAIN prog
    BY <2>2, <2>3
  <2>5. ~Done(p)
    BY <1>0, <2>4, ProgFacts DEF Done
  <2> QED BY <2>2, <2>3, <2>4, <2>5
<1>5. ASSUME NEW q \in PE, Step(q) PROVE SessionAt(s, n, off, p, i)'
  <2>1. CASE q = p
    <3>1. pc'[p].k = pc[p].k \/ pc'[p].k = pc[p].k + 1
      BY <1>0, <1>5, <2>1, StepTo
    <3>2. pc[p].k # s + i
      <4> SUFFICES ASSUME pc[p].k = s + i PROVE FALSE
        OBVIOUS
      <4>1. Call(p).op \in {"pack", "unpack"}
        BY <1>4 DEF Call
      <4>2. pc'[p].k = pc[p].k + 1
        BY <1>0, <1>5, <2>1, <4>1, SessionLeaves
      <4> QED BY <1>2, <4>2
    <3>3. PICK z \in Nat : z = pc[p].k
      BY <1>0
    <3>4. z + 1 = s + i
      BY <3>1, <3>2, <3>3
    <3>5. PICK j \in 0 .. n + n - 1 : j = i - 1
      BY <1>2
    <3>6. j \in Nat /\ i = j + 1
      BY <1>2, <3>5
    <3>7. pc[p].k = s + j
      <4>1. s \in Nat /\ i \in Nat
        BY <1>2
      <4>2. Follows(z, s, i, j)
        BY <3>4, <3>6, <4>1, Zenon DEF Follows
      <4>3. z = s + j
        BY <4>2, PlaceBefore, Zenon
      <4> QED BY <3>3, <4>3, Zenon
    <3> QED BY <1>1, <1>5, <2>1, <3>6, <3>7, SessionOwn
  <2>2. CASE q # p
    <3>1. mem'[p] = mem[p] /\ pc'[p] = pc[p]
      BY <1>0, <1>5, <2>2, StepFrame, StepTo DEF Frame
    <3>2. pos'[p] = pos[p]
      <4>1. pos' = pos \/ \E x : pos' = [pos EXCEPT ![q] = x]
        <5>1. MPI_Pack(q) => \E x : pos' = [pos EXCEPT ![q] = x]
          BY DEF MPI_Pack
        <5>2. MPI_Unpack(q) => pos' = pos \/ \E x : pos' = [pos EXCEPT ![q] = x]
          BY DEF MPI_Unpack
        <5> QED BY <1>5, <5>1, <5>2, PosStep
      <4> QED BY <1>0, <2>2, <4>1
    <3> QED BY <1>3, <3>1, <3>2
  <2> QED BY <2>1, <2>2
<1>6. CASE BarrierAll \/ HeapFull
  <2>1. pc'[p].k = pc[p].k /\ mem' = mem
    BY <1>0, <1>6, BarrierTo
  <2>2. pos' = pos
    BY <1>6 DEF BarrierAll, HeapFull, callVars
  <2> QED BY <1>3, <2>1, <2>2
<1>7. CASE Arrival
  <2>1. PICK m \in wire : Deliver(m) /\ UNCHANGED <<pc, callVars>>
    BY <1>7 DEF Arrival
  <2>2. pc' = pc /\ pos' = pos /\ Stores(m)
    BY <2>1 DEF Deliver, Stores, callVars
  <2>3. PICK k : k = pc[p].k
    OBVIOUS
  <2>4. k \in DOMAIN prog /\ prog[k].op \in {"pack", "unpack"}
    BY <1>4, <2>2, <2>3
  <2>5. m.to # p
    <3> SUFFICES ASSUME m.to = p PROVE FALSE
      OBVIOUS
    <3>1. Needs(prog[k], p)
      BY <2>4 DEF Needs
    <3>2. m.id = k /\ Carries(m)
      BY <2>3, <2>4, <3>1, ArrivesInCall
    <3> QED BY <2>4, <3>2 DEF Carries, Moving
  <2>6. mem'[p] = mem[p]
    BY <1>0, <2>2, <2>5 DEF Stores
  <2> QED BY <1>3, <2>2, <2>6
<1>8. CASE UNCHANGED vars
  BY <1>3, <1>8 DEF vars, shmemVars, callVars
<1> QED
  BY <1>5, <1>6, <1>7, <1>8 DEF Next

(* MPI_Unpack finds the field in the buffer. *)
LEMMA UnpackFinds ==
  ASSUME GoodCalls, PackedPrograms, Carrying, SessionInv, NEW p \in PE, ~Done(p), MPI_Unpack(p)
  PROVE  \E res : Result(p, res) /\ Unpacked(pc[p].k, p, res)
<1>1. /\ BarrierInv /\ TypeInv /\ mem \in [PE -> Areas] /\ prog \in Programs /\ pc[p].k \in DOMAIN prog
      /\ DOMAIN prog = 1 .. Len(prog) /\ Len(prog) \in Nat /\ Call(p) = prog[pc[p].k] /\ Call(p).op = "unpack"
      /\ 1 \in DOMAIN comms[p] /\ comms[p][1].rank = p
  <2>1. BarrierInv /\ TypeInv
    BY DEF Carrying
  <2> QED BY <2>1, InCall, ProgFacts DEF TypeInv, Memory, PlaceInv, WorldFirst, MPI_Unpack, In
<1>2. PICK s \in 1 .. Len(prog), n \in 1 .. Len(prog) :
        /\ prog[s].op = "pack" /\ pc[p].k \in s + n .. s + n + n - 1
        /\ \E off \in [0 .. n -> 0 .. prog[s].size] : Session(prog, s, n, off)
  BY <1>1 DEF PackedPrograms
<1>3. PICK off \in [0 .. n -> 0 .. prog[s].size] : Session(prog, s, n, off)
  BY <1>2
<1>4. s \in DOMAIN prog /\ off \in [0 .. n -> Nat] /\ s \in Nat /\ n \in Nat
  <2>1. 0 .. prog[s].size \subseteq Nat
    OBVIOUS
  <2> QED BY <1>1, <2>1
<1>5. PICK i \in 0 .. n + n - 1 : pc[p].k = s + i /\ i >= n
  <2>1. PICK z : z = pc[p].k
    OBVIOUS
  <2>2. z \in s + n .. s + n + n - 1
    BY <1>2, <2>1
  <2>3. z - s \in 0 .. n + n - 1 /\ z = s + (z - s) /\ z - s >= n
    BY <1>4, <2>2
  <2>4. PICK i : i = z - s
    OBVIOUS
  <2>5. i \in 0 .. n + n - 1 /\ z = s + i /\ i >= n
    BY <2>3, <2>4
  <2> QED BY <2>1, <2>5
<1>h. PICK h \in 0 .. n - 1 : \E next, a, b : FieldOf(n, i, h) /\ FieldAt(s, n, h, next, a, b)
  BY <1>4, FieldHere
<1>6. PICK next, a, b : FieldOf(n, i, h) /\ FieldAt(s, n, h, next, a, b)
  BY <1>h
<1>7. InField(p, s, n, off, i, h, next, a, b)
  BY <1>1, <1>3, <1>4, <1>5, <1>6, SessionPlace
<1> PICK area : area = PackArea(prog[s])
  OBVIOUS
<1>8. /\ pc[p].k = b /\ Cells(Call(p)) = Cells(prog[a]) /\ Cells(prog[a]) \in Nat
      /\ Call(p).comm = 1 /\ PackArea(Call(p)) = area
      /\ Position(p) = Offset(off, h) /\ (NoSpace(p) <=> ~Accepted(prog, s, off, h))
      /\ \A g \in 0 .. n - 1 : g < i /\ Accepted(prog, s, off, g) => Kept(s + g, p, area, Offset(off, g))
  BY <1>4, <1>5, <1>7 DEF InField
<1>9. /\ Twins(prog[a], prog[b], n)
      /\ \E g \in 0 .. n - 1 : Accepted(prog, s, off, g) /\ Cells(prog[a]) <= Cells(prog[s + g])
  BY <1>3, <1>6, SessionField
<1>10. Call(p).back = n /\ pc[p].k - n = a /\ pc[p].k - s - n = h
  <2>1. Call(p).back = n
    BY <1>1, <1>8, <1>9 DEF Twins
  <2>2. b = s + n + h /\ a = s + h
    BY <1>6 DEF FieldAt
  <2>3. pc[p].k = s + n + h
    BY <1>8, <2>2
  <2>4. ASSUME NEW k, k = s + n + h PROVE k - n = s + h /\ k - s - n = h
    BY <1>4, <2>4
  <2> QED BY <2>1, <2>2, <2>3, <2>4
<1>11. mem' = mem
  <2>1. PICK f \in 0 .. n - 1 : Accepted(prog, s, off, f) /\ Cells(prog[a]) <= Cells(prog[s + f])
    BY <1>9
  <2>2. PICK e : e = s + f
    OBVIOUS
  <2>3. Kept(e, p, area, Offset(off, f))
    <3>1. f < i
      BY <1>4, <1>5
    <3> QED BY <1>8, <2>1, <2>2, <3>1
  <2>4. Cells(prog[e]) \in Nat
    <3>1. PICK fnext, u : FieldAt(s, n, f, fnext, e, u)
      BY <2>2 DEF FieldAt
    <3>2. ASSUME NEW pr \in Programs, pr = prog PROVE Cells(pr[e]) \in Nat
      <4>1. /\ s \in DOMAIN pr /\ n \in 1 .. Len(pr) /\ off \in [0 .. n -> Nat] /\ Session(pr, s, n, off)
        BY <1>3, <1>4, <3>2
      <4> QED BY <3>1, <4>1, SessionCalls
    <3> QED BY <1>1, <3>2
  <2> QED BY <1>1, <1>8, <2>1, <2>2, <2>3, <2>4, UnpackKeeps
<1>u. ASSUME NEW res, res = IF Accepted(prog, s, off, h) THEN Data(a, p) ELSE <<>>
      PROVE  Unpacked(pc[p].k, p, res)
  <2>1. prog[pc[p].k].back = n
    BY <1>1, <1>10
  <2> QED BY <1>2, <1>3, <1>10, <1>u, <2>1 DEF Unpacked
<1>12. CASE NoSpace(p)
  <2>1. Result(p, <<>>)
    BY <1>12 DEF MPI_Unpack
  <2> QED BY <1>8, <1>12, <1>u, <2>1
<1>13. CASE ~NoSpace(p)
  <2>1. CommOf(p) = 1
    BY <1>8 DEF CommOf
  <2>2. Result(p, Slice(mem[p][area], Position(p), Cells(Call(p))))
    <3> DEFINE m == IF Call(p).symS THEN mem
                    ELSE CopyMyData(p, "lib", 0, Slice(mem[p].usr, 0, Cells(Call(p))))
               from == IF Call(p).symS THEN m[p].usr ELSE m[p].lib
    <3>1. mem' = m /\ Result(p, Slice(from, Position(p), Cells(Call(p))))
      BY <1>1, <1>13, <2>1 DEF MPI_Unpack
    <3> HIDE DEF m
    <3>2. from = mem[p][area]
      BY <1>8, <1>11, <3>1 DEF PackArea
    <3> QED BY <3>1, <3>2
  <2>3. Kept(a, p, area, Offset(off, h))
    <3>1. h < i /\ a = s + h
      BY <1>4, <1>5, <1>6 DEF FieldAt
    <3> QED BY <1>8, <1>13, <3>1
  <2>4. Slice(mem[p][area], Position(p), Cells(Call(p))) = Data(a, p)
    <3>1. \A x \in 0 .. Cells(prog[a]) - 1 : mem[p][area][Position(p) + x] = Datum(a, p, x)
      BY <1>8, <2>3 DEF Kept, Holds
    <3>2. Slice(mem[p][area], Position(p), Cells(Call(p))) = [x \in 0 .. Cells(prog[a]) - 1 |-> mem[p][area][Position(p) + x]]
      BY <1>8 DEF Slice
    <3>3. Data(a, p) = [x \in 0 .. Cells(prog[a]) - 1 |-> Datum(a, p, x)]
      BY DEF Data
    <3> QED BY <3>1, <3>2, <3>3
  <2> QED BY <1>8, <1>13, <1>u, <2>2, <2>4
<1> QED
  BY <1>12, <1>13

LEMMA PackRoundTripInit == Init => PackRoundTrip
BY DEF Init, PackRoundTrip, NoResult

(* MPI_Unpack returns the field if it fits, and an error if it does not.     *)
LEMMA PackRoundTripNext ==
  ASSUME GoodCalls, PackedPrograms, Carrying, SessionInv, GotFunction, PackRoundTrip, [Next]_vars
  PROVE  PackRoundTrip'
<1>1. prog' = prog
  <2>1. (\E r \in PE : Step(r)) => prog' = prog
    BY StepMoves
  <2> QED BY <2>1 DEF Next, Arrival, BarrierAll, HeapFull, vars, callVars
<1> SUFFICES ASSUME NEW q \in PE, NEW k, k = got'[q].k, k # 0, prog[k].op = "unpack"
             PROVE  Unpacked(k, q, got'[q].res)
  <2>1. \A j, p, res : Unpacked(j, p, res)' = Unpacked(j, p, res)
    BY <1>1 DEF Unpacked, Session, Twins, Field, Accepted, Data, Cells, GetNumBytes, Datum
  <2> QED BY <1>1, <2>1 DEF PackRoundTrip
<1>2. ASSUME got'[q] = got[q] PROVE Unpacked(k, q, got'[q].res)
  BY <1>2 DEF PackRoundTrip
<1>3. ASSUME NEW p \in PE, Step(p) PROVE Unpacked(k, q, got'[q].res)
  <2>1. ~Done(p)
    BY <1>3 DEF Step
  <2>2. \/ got' = got \/ MPI_Unpack(p)
        \/ Call(p).op # "unpack" /\ \E res : Result(p, res)
    <3>1. MPI_Recv(p) \/ MPI_Test(p) \/ BcastCopy(p) \/ GatherCopy(p) \/ GathervCopy(p) =>
            Call(p).op # "unpack" /\ \E res : Result(p, res)
      BY DEF MPI_Recv, MPI_Test, BcastCopy, GatherCopy, GathervCopy, In
    <3> QED BY <1>3, <3>1, GotStep
  <2>3. ASSUME NEW res, Result(p, res), Call(p).op = "unpack" => Unpacked(pc[p].k, p, res)
        PROVE  Unpacked(k, q, got'[q].res)
    <3>1. CASE q = p
      <4>1. k = pc[p].k /\ got'[q].res = res
        BY <2>3, <3>1, ResultGot
      <4> QED BY <2>3, <3>1, <4>1 DEF Call
    <3>2. CASE q # p
      BY <1>2, <2>3, <3>2, ResultGot
    <3> QED BY <3>1, <3>2
  <2>4. CASE MPI_Unpack(p)
    BY <2>1, <2>3, <2>4, UnpackFinds
  <2> QED BY <1>2, <2>2, <2>3, <2>4
<1> QED
  BY <1>2, <1>3 DEF Next, BarrierAll, HeapFull, Arrival, vars, callVars

-----------------------------------------------------------------------------
(* What the calls return.                                                    *)

LEMMA CarryingInit == Init => Carrying
BY BarrierInvInit, TypeInvInit, PointInvInit, WireInvInit, SourceInvInit DEF Carrying

LEMMA CarryingNext ==
  ASSUME CarriedPrograms, Carrying, [Next]_vars
  PROVE  Carrying'
<1>1. GoodCalls /\ GroupsFit /\ SeparatedPrograms /\ UniformPrograms /\ FittingPrograms
  BY DEF CarriedPrograms, GoodCalls
<1>2. BarrierInv /\ TypeInv /\ PointInv
  BY DEF Carrying
<1>3. BarrierInv'
  BY <1>1, <1>2, BarrierInvNext
<1>4. TypeInv'
  BY <1>1, <1>2, TypeInvNext
<1>5. PointInv'
  BY <1>1, <1>2, PointInvNext
<1>6. WireInv'
  BY <1>1, WireInvNext
<1>7. SourceInv'
  BY <1>1, SourceInvNext
<1> QED
  BY <1>3, <1>4, <1>5, <1>6, <1>7 DEF Carrying

(* The buffers and the network, and with them what the calls have returned   *)
(* so far: every property below follows from this invariant and from the one *)
(* about the puts, the requests or the positions that it names.              *)
ReturnInv == Carrying /\ GotFunction

LEMMA ReturnInvInit == Init => ReturnInv
BY CarryingInit, GotFunctionInit DEF ReturnInv

LEMMA ReturnInvNext ==
  ASSUME CarriedPrograms, ReturnInv, [Next]_vars
  PROVE  ReturnInv'
<1>1. Carrying /\ GotFunction
  BY DEF ReturnInv
<1> QED
  BY <1>1, CarryingNext, GotFunctionNext DEF ReturnInv

(* Whatever the order in which the puts arrive, a broadcast returns the data *)
(* of its root on every PE, and a gather the blocks of all PEs in the order  *)
(* of their ranks, although the copy out of the buffer that all calls share  *)
(* runs on every PE after the one barrier that ends the puts.                *)
THEOREM CollectivesReturnData == CarriedPrograms /\ Spec => []CollectivesDeliver
<1> SUFFICES ASSUME CarriedPrograms PROVE Spec => []CollectivesDeliver
  OBVIOUS
<1> DEFINE IInv == ReturnInv /\ MovedInv /\ CollectivesDeliver
<1>1. Init => IInv
  BY ReturnInvInit, MovedInvInit, CollectivesDeliverInit
<1>2. IInv /\ [Next]_vars => IInv'
  <2> SUFFICES ASSUME IInv, [Next]_vars PROVE IInv'
    OBVIOUS
  <2>1. GoodCalls /\ SeparatedPrograms /\ Carrying /\ GotFunction
    BY DEF CarriedPrograms, ReturnInv
  <2>2. ReturnInv'
    BY ReturnInvNext
  <2>3. (BarrierInv /\ PointInv)'
    BY <2>2 DEF ReturnInv, Carrying
  <2>4. MovedInv'
    BY <2>1, <2>3, MovedInvNext
  <2>5. CollectivesDeliver'
    BY <2>1, CollectivesDeliverNext
  <2> QED BY <2>2, <2>4, <2>5
<1>3. IInv => CollectivesDeliver
  OBVIOUS
<1> QED
  BY <1>1, <1>2, <1>3, PTL DEF Spec

(* MPI_Recv looks at nothing that tells it whether the message has arrived:  *)
(* when a barrier lies between the two calls and nothing else is stored in   *)
(* between, it still returns the message of the MPI_Send it is paired with.  *)
THEOREM ReceivesReturnMessage == CarriedPrograms /\ PairedPrograms /\ Spec => []RecvGetsMessage
<1> SUFFICES ASSUME CarriedPrograms, PairedPrograms PROVE Spec => []RecvGetsMessage
  OBVIOUS
<1> DEFINE IInv == ReturnInv /\ SentInv /\ RecvGetsMessage
<1>1. Init => IInv
  BY ReturnInvInit, SentInvInit, RecvGetsMessageInit
<1>2. IInv /\ [Next]_vars => IInv'
  <2> SUFFICES ASSUME IInv, [Next]_vars PROVE IInv'
    OBVIOUS
  <2>1. GoodCalls /\ SeparatedPrograms /\ Carrying /\ GotFunction
    BY DEF CarriedPrograms, ReturnInv
  <2>2. ReturnInv'
    BY ReturnInvNext
  <2>3. SentInv'
    BY <2>1, SentInvNext
  <2>4. RecvGetsMessage'
    BY <2>1, RecvGetsMessageNext
  <2> QED BY <2>2, <2>3, <2>4
<1>3. IInv => RecvGetsMessage
  OBVIOUS
<1> QED
  BY <1>1, <1>2, <1>3, PTL DEF Spec

(* MPI_Test compares the last element of the next PE's buffer with the one   *)
(* it expects: it says that the MPI_Isend, which a barrier follows, or the   *)
(* MPI_Irecv has completed.                                                  *)
THEOREM TestsReturnCompleted == CarriedPrograms /\ RequestPrograms /\ Spec => []TestCompletes
<1> SUFFICES ASSUME CarriedPrograms, RequestPrograms PROVE Spec => []TestCompletes
  OBVIOUS
<1> DEFINE IInv == ReturnInv /\ RequestFunction /\ RequestInv /\ TestCompletes
<1>1. Init => IInv
  BY ReturnInvInit, RequestFunctionInit, RequestInvInit, TestCompletesInit
<1>2. IInv /\ [Next]_vars => IInv'
  <2> SUFFICES ASSUME IInv, [Next]_vars PROVE IInv'
    OBVIOUS
  <2>1. GoodCalls /\ SeparatedPrograms /\ Carrying /\ GotFunction
    BY DEF CarriedPrograms, ReturnInv
  <2>2. ReturnInv'
    BY ReturnInvNext
  <2>3. RequestFunction' /\ RequestInv'
    BY <2>1, RequestFunctionNext, RequestInvNext
  <2>4. TestCompletes'
    BY <2>1, TestCompletesNext
  <2> QED BY <2>2, <2>3, <2>4
<1>3. IInv => TestCompletes
  OBVIOUS
<1> QED
  BY <1>1, <1>2, <1>3, PTL DEF Spec

(* MPI_Unpack returns every field that fits behind those packed before it,   *)
(* and an error for every field that does not fit and for no other, although *)
(* both share one position and copy through the library's buffer.            *)
THEOREM UnpacksReturnFields == CarriedPrograms /\ PackedPrograms /\ Spec => []PackRoundTrip
<1> SUFFICES ASSUME CarriedPrograms, PackedPrograms PROVE Spec => []PackRoundTrip
  OBVIOUS
<1> DEFINE IInv == ReturnInv /\ SessionInv /\ PackRoundTrip
<1>1. Init => IInv
  BY ReturnInvInit, SessionInvInit, PackRoundTripInit
<1>2. IInv /\ [Next]_vars => IInv'
  <2> SUFFICES ASSUME IInv, [Next]_vars PROVE IInv'
    OBVIOUS
  <2>1. GoodCalls /\ SeparatedPrograms /\ Carrying /\ GotFunction
    BY DEF CarriedPrograms, ReturnInv
  <2>2. ReturnInv'
    BY ReturnInvNext
  <2>3. SessionInv'
    BY <2>1, SessionInvNext
  <2>4. PackRoundTrip'
    BY <2>1, PackRoundTripNext
  <2> QED BY <2>2, <2>3, <2>4
<1>3. IInv => PackRoundTrip
  OBVIOUS
<1> QED
  BY <1>1, <1>2, <1>3, PTL DEF Spec

=============================================================================
