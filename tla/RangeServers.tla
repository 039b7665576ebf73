---------------------------- MODULE RangeServers ----------------------------
(***************************************************************************)
(* The MDHIM request path: the main thread of every rank (mdhim.c,         *)
(* client.c, local_client.c), the listener and the worker thread of every  *)
(* range server (range_server.c), the messages between them (messages.c)   *)
(* and the collective mdhimCommit and mdhimClose.                          *)
(*                                                                         *)
(* A request is the number its client gave it; what a request does to the  *)
(* data store is the subject of module RangeStore.  MPI and pthreads are   *)
(* external: a channel is FIFO per (source, destination, tag), which is    *)
(* what MPI guarantees, and MPI may or may not buffer a message body.      *)
(***************************************************************************)
EXTENDS Integers, Sequences, FiniteSets

CONSTANTS
  Ranks,      \* the ranks of md->mdhim_comm
  Servers,    \* the ranks that run a range server (md->rangesrvs)
  Root,       \* rank 0, which sends the close messages
  Targets,    \* Targets[r]: the sets of servers an operation of rank r may address
  MaxOps,     \* bound: data operations per rank
  Commits,    \* bound: how many times the application calls mdhimCommit
  Eager,      \* does MPI buffer message bodies (TRUE) or wait for the receiver
  Spurious,   \* condition variables that may wake spuriously: "worker", "client"
  Faults      \* failures that may happen: "pack", "unpack", "heap"

ASSUME ConstantsAssumption ==
  /\ Servers \subseteq Ranks
  /\ Root \in Ranks
  /\ Targets \in [Ranks -> SUBSET ((SUBSET Servers) \ {{}})]
  /\ MaxOps \in Nat /\ Commits \in Nat
  /\ Eager \in BOOLEAN
  /\ Spurious \subseteq {"worker", "client"}
  /\ Faults \subseteq {"pack", "unpack", "heap"}

VARIABLES
  \* main thread of a rank
  cpc,      \* where the main thread is
  op,       \* number of the current (or last) request
  ncommit,  \* calls of mdhimCommit so far
  commit,   \* is the current request the one of mdhimCommit
  asked,    \* the servers the current request addresses
  loc,      \* does the operation still have its local part to do
  pend,     \* servers whose MPI_Isend/MPI_Send has not completed
  wait,     \* servers whose response is still to be received
  sized,    \* servers whose response size has been received
  got,      \* what the operation received: request numbers, 0 for NULL
  \* network
  req,      \* req[r][s]: requests sent by r and not yet received by s
  rsz,      \* rsz[s][r]: response sizes (tag CLIENT_RESPONSE_SIZE_MSG)
  rbd,      \* rbd[s][r]: response bodies (tag CLIENT_RESPONSE_MSG)
  \* range server process
  lpc,      \* where the listener thread is
  lmsg,     \* the item the listener is about to queue
  queue,    \* md->mdhim_rs->work_queue, oldest item first
  held,     \* work_queue_mutex is held across steps
  wpc,      \* where the worker thread is
  witem,    \* the item the worker processes
  rmsg,     \* md->receive_msg, 0 for NULL
  cancel,   \* pthread_cancel(worker) was called
  heap,     \* the worker was cancelled inside free()
  applied   \* requests the worker has carried out, in order

opVars     == <<op, ncommit, commit, asked, loc, pend, wait, sized, got>>
mainVars   == <<cpc, opVars>>
netVars    == <<req, rsz, rbd>>
serverVars == <<lpc, lmsg, queue, held, wpc, witem, rmsg, cancel, heap, applied>>
vars       == <<mainVars, netVars, serverVars>>

CloseMsg == 0
NULL     == 0
Item     == [src : Ranks, id : Nat]
NoItem   == [src |-> Root, id |-> 0]

(* Main thread: inside an operation, and past the first barrier of mdhimClose. *)
OpPcs    == {"send", "rsize", "rbody", "addself", "self", "selfwait", "selfwoken"}
StopPcs  == {"closing", "cancel", "joinL", "joinW", "stop", "bar2", "done"}
MainPcs  == OpPcs \cup StopPcs \cup {"app", "cbar1", "cbar2", "bar1"}
(* The worker holds work_queue_mutex in these places. *)
BusyPcs  == {"handle", "respond", "body", "sync", "free"}
WorkPcs  == BusyPcs \cup {"lock", "asleep", "woken", "dead"}

MainType ==
  /\ cpc \in [Ranks -> MainPcs]
  /\ op \in [Ranks -> Nat] /\ ncommit \in [Ranks -> Nat]
  /\ commit \in [Ranks -> BOOLEAN] /\ loc \in [Ranks -> BOOLEAN]
  /\ asked \in [Ranks -> SUBSET Servers]
  /\ pend \in [Ranks -> SUBSET Servers]
  /\ wait \in [Ranks -> SUBSET Servers]
  /\ sized \in [Ranks -> SUBSET Servers]
  /\ got \in [Ranks -> SUBSET Nat]

NetType ==
  /\ req \in [Ranks -> [Servers -> Seq(Nat)]]
  /\ rsz \in [Servers -> [Ranks -> Seq(Nat)]]
  /\ rbd \in [Servers -> [Ranks -> Seq(Nat)]]

ServerType ==
  /\ lpc \in [Servers -> {"recv", "body", "add", "done"}]
  /\ lmsg \in [Servers -> Item]
  /\ queue \in [Servers -> Seq(Item)]
  /\ held \in [Servers -> BOOLEAN]
  /\ wpc \in [Servers -> WorkPcs]
  /\ witem \in [Servers -> Item]
  /\ rmsg \in [Servers -> Nat]
  /\ cancel \in [Servers -> BOOLEAN] /\ heap \in [Servers -> BOOLEAN]
  /\ applied \in [Servers -> [Ranks -> Seq(Nat)]]

(* The type invariant: every variable of the threads and of the network has  *)
(* a value of the kind the code gives it; a rank asks only range servers.    *)
TypeOK == MainType /\ NetType /\ ServerType

Init ==
  /\ cpc = [r \in Ranks |-> "app"]
  /\ op = [r \in Ranks |-> 0] /\ ncommit = [r \in Ranks |-> 0]
  /\ commit = [r \in Ranks |-> FALSE] /\ loc = [r \in Ranks |-> FALSE]
  /\ asked = [r \in Ranks |-> {}]
  /\ pend = [r \in Ranks |-> {}] /\ wait = [r \in Ranks |-> {}]
  /\ sized = [r \in Ranks |-> {}] /\ got = [r \in Ranks |-> {}]
  /\ req = [r \in Ranks |-> [s \in Servers |-> <<>>]]
  /\ rsz = [s \in Servers |-> [r \in Ranks |-> <<>>]]
  /\ rbd = [s \in Servers |-> [r \in Ranks |-> <<>>]]
  /\ lpc = [s \in Servers |-> "recv"] /\ lmsg = [s \in Servers |-> NoItem]
  /\ queue = [s \in Servers |-> <<>>] /\ held = [s \in Servers |-> FALSE]
  /\ wpc = [s \in Servers |-> "lock"] /\ witem = [s \in Servers |-> NoItem]
  /\ rmsg = [s \in Servers |-> NULL]
  /\ cancel = [s \in Servers |-> FALSE] /\ heap = [s \in Servers |-> FALSE]
  /\ applied = [s \in Servers |-> [r \in Ranks |-> <<>>]]

-----------------------------------------------------------------------------
(* Helpers shared by several threads. *)

(* Mutant: range_server_add_work does not signal work_ready_cv. *)
AddWorkNoSignal(s, item) ==
  /\ ~held[s]
  /\ queue' = [queue EXCEPT ![s] = Append(@, item)]
  /\ UNCHANGED wpc

(* range_server_add_work: push under the mutex and signal work_ready_cv. *)
range_server_add_work(s, item) ==
  /\ ~held[s]
  /\ queue' = [queue EXCEPT ![s] = Append(@, item)]
  /\ wpc' = [wpc EXCEPT ![s] = IF @ = "asleep" THEN "woken" ELSE @]

(* Mutant: get_work leaves the item on the work queue. *)
GetWorkKeepsItem(s) ==
  /\ queue[s] # <<>> /\ Len(applied[s][Head(queue[s]).src]) < MaxOps + Commits + 1
  /\ witem' = [witem EXCEPT ![s] = Head(queue[s])]
  /\ wpc' = [wpc EXCEPT ![s] = "handle"]
  /\ held' = [held EXCEPT ![s] = TRUE]
  /\ UNCHANGED queue

(* get_work when there is an item: the worker goes on with the oldest one. *)
get_work(s) ==
  /\ queue[s] # <<>>
  /\ witem' = [witem EXCEPT ![s] = Head(queue[s])]
  /\ queue' = [queue EXCEPT ![s] = Tail(@)]
  /\ wpc' = [wpc EXCEPT ![s] = "handle"]
  /\ held' = [held EXCEPT ![s] = TRUE]

(* Where the main thread goes when the remote part of its operation is over. *)
AfterRemote(r) == IF loc[r] THEN "addself" ELSE "app"

-----------------------------------------------------------------------------
(* The main thread: data operations. *)

(***************************************************************************)
(* mdhimPut, mdhimGet, mdhimDelete (one server) and mdhimBPut, mdhimBGet,  *)
(* mdhimBDelete (a message per server): the requests for the servers S are *)
(* packed and sent; those for F cannot be packed.  When F is not empty     *)
(* client_bput and the others return without receiving any response; the   *)
(* part for the rank's own server is always done last.                     *)
(***************************************************************************)
Issue(r, S, F) ==
  LET sent == (S \ {r}) \ F
  IN /\ cpc[r] = "app"
     /\ op[r] - ncommit[r] < MaxOps
     /\ F # {} => "pack" \in Faults
     /\ op' = [op EXCEPT ![r] = @ + 1]
     /\ commit' = [commit EXCEPT ![r] = FALSE]
     /\ asked' = [asked EXCEPT ![r] = S]
     /\ loc' = [loc EXCEPT ![r] = r \in S]
     /\ req' = [req EXCEPT ![r] =
          [s \in Servers |-> IF s \in sent THEN Append(@[s], op[r] + 1) ELSE @[s]]]
     /\ pend' = [pend EXCEPT ![r] = IF Eager THEN {} ELSE sent]
     /\ wait' = [wait EXCEPT ![r] = IF F = {} THEN sent ELSE {}]
     /\ sized' = [sized EXCEPT ![r] = {}]
     /\ got' = [got EXCEPT ![r] = {}]
     /\ cpc' = [cpc EXCEPT ![r] = "send"]
     /\ UNCHANGED <<ncommit, rsz, rbd, serverVars>>

(* Mutant: the client does not wait for the responses. *)
SendDoneNoWait(r) ==
  /\ cpc[r] = "send"
  /\ pend[r] = {}
  /\ cpc' = [cpc EXCEPT ![r] = AfterRemote(r)]
  /\ UNCHANGED <<opVars, netVars, serverVars>>

(* The wait for every send to complete in send_all_rangesrv_work. *)
SendDone(r) ==
  /\ cpc[r] = "send"
  /\ pend[r] = {}
  /\ cpc' = [cpc EXCEPT ![r] = IF wait[r] # {} THEN "rsize" ELSE AfterRemote(r)]
  /\ UNCHANGED <<opVars, netVars, serverVars>>

(* Mutant: the client waits only for the server that answers first. *)
ReceiveFirstSize(r, s) ==
  /\ cpc[r] = "rsize"
  /\ s \in wait[r]
  /\ rsz[s][r] # <<>>
  /\ rsz' = [rsz EXCEPT ![s][r] = Tail(@)]
  /\ sized' = [sized EXCEPT ![r] = {s}]
  /\ wait' = [wait EXCEPT ![r] = {s}]
  /\ cpc' = [cpc EXCEPT ![r] = "rbody"]
  /\ UNCHANGED <<op, ncommit, commit, asked, loc, pend, got, req, rbd, serverVars>>

(* receive_all_client_responses, first loop: the sizes from every server. *)
ReceiveSize(r, s) ==
  /\ cpc[r] = "rsize"
  /\ s \in wait[r] \ sized[r]
  /\ rsz[s][r] # <<>>
  /\ rsz' = [rsz EXCEPT ![s][r] = Tail(@)]
  /\ sized' = [sized EXCEPT ![r] = @ \cup {s}]
  /\ cpc' = [cpc EXCEPT ![r] = IF wait[r] = sized[r] \cup {s} THEN "rbody" ELSE @]
  /\ UNCHANGED <<op, ncommit, commit, asked, loc, pend, wait, got, req, rbd, serverVars>>

(* receive_all_client_responses, second loop: the bodies. *)
ReceiveBody(r, s) ==
  /\ cpc[r] = "rbody"
  /\ s \in wait[r]
  /\ rbd[s][r] # <<>>
  /\ rbd' = [rbd EXCEPT ![s][r] = Tail(@)]
  /\ got' = [got EXCEPT ![r] = @ \cup {Head(rbd[s][r])}]
  /\ wait' = [wait EXCEPT ![r] = @ \ {s}]
  /\ cpc' = [cpc EXCEPT ![r] = IF wait[r] = {s} THEN AfterRemote(r) ELSE @]
  /\ UNCHANGED <<op, ncommit, commit, asked, loc, pend, sized, req, rsz, serverVars>>

(* local_client_put and the others: queue the request on the own server. *)
LocalAddWork(r) ==
  /\ cpc[r] = "addself"
  /\ range_server_add_work(r, [src |-> r, id |-> op[r]])
  /\ loc' = [loc EXCEPT ![r] = FALSE]
  /\ cpc' = [cpc EXCEPT ![r] = "self"]
  /\ UNCHANGED <<op, ncommit, commit, asked, pend, wait, sized, got, netVars>>
  /\ UNCHANGED <<lpc, lmsg, held, witem, rmsg, cancel, heap, applied>>

(* Where get_msg_self returns to: the application or the end of mdhimCommit. *)
AfterLocal(r) == IF commit[r] THEN "cbar2" ELSE "app"

(* Mutant: get_msg_self does not reset md->receive_msg. *)
TakeMsgNoReset(r) ==
  /\ got' = [got EXCEPT ![r] = @ \cup {rmsg[r]}]
  /\ cpc' = [cpc EXCEPT ![r] = AfterLocal(r)]
  /\ UNCHANGED <<op, ncommit, commit, asked, loc, pend, wait, sized, netVars, serverVars>>

(* get_msg_self takes md->receive_msg, whatever it is, and clears it. *)
TakeMsg(r) ==
  /\ got' = [got EXCEPT ![r] = @ \cup {rmsg[r]}]
  /\ rmsg' = [rmsg EXCEPT ![r] = NULL]
  /\ cpc' = [cpc EXCEPT ![r] = AfterLocal(r)]
  /\ UNCHANGED <<op, ncommit, commit, asked, loc, pend, wait, sized, netVars>>
  /\ UNCHANGED <<lpc, lmsg, queue, held, wpc, witem, cancel, heap, applied>>

get_msg_self(r) ==
  \/ /\ cpc[r] = "self" /\ rmsg[r] # NULL
     /\ TakeMsg(r)
  \/ /\ cpc[r] = "self" /\ rmsg[r] = NULL     \* pthread_cond_wait
     /\ cpc' = [cpc EXCEPT ![r] = "selfwait"]
     /\ UNCHANGED <<opVars, netVars, serverVars>>
  \/ /\ cpc[r] = "selfwoken"                  \* an if, not a while: no second test
     /\ TakeMsg(r)

SpuriousClientWakeup(r) ==
  /\ "client" \in Spurious
  /\ cpc[r] = "selfwait"
  /\ cpc' = [cpc EXCEPT ![r] = "selfwoken"]
  /\ UNCHANGED <<opVars, netVars, serverVars>>

-----------------------------------------------------------------------------
(* The main thread: mdhimCommit and mdhimClose. *)

EnterCommit(r) ==
  /\ cpc[r] = "app" /\ ncommit[r] < Commits
  /\ cpc' = [cpc EXCEPT ![r] = "cbar1"]
  /\ UNCHANGED <<opVars, netVars, serverVars>>

(* Mutant: mdhimCommit queues a commit on ranks that run no server. *)
CommitEverywhere ==
  /\ \A r \in Ranks : cpc[r] = "cbar1"
  /\ cpc' = [r \in Ranks |-> IF r \in Servers THEN "addself" ELSE "cbar2"]
  /\ op' = [r \in Ranks |-> op[r] + 1]
  /\ ncommit' = [r \in Ranks |-> ncommit[r] + 1]
  /\ commit' = [r \in Ranks |-> TRUE]
  /\ asked' = [r \in Ranks |-> {r}]
  /\ got' = [r \in Ranks |-> {}]
  /\ UNCHANGED <<loc, pend, wait, sized, netVars, serverVars>>

(* Mutant: mdhimCommit without its first barrier. *)
CommitNoBarrier ==
  \E r \in Servers :
    /\ cpc[r] = "cbar1"
    /\ cpc' = [cpc EXCEPT ![r] = "addself"]
    /\ op' = [op EXCEPT ![r] = @ + 1]
    /\ ncommit' = [ncommit EXCEPT ![r] = @ + 1]
    /\ commit' = [commit EXCEPT ![r] = TRUE]
    /\ asked' = [asked EXCEPT ![r] = {r}]
    /\ got' = [got EXCEPT ![r] = {}]
    /\ UNCHANGED <<loc, pend, wait, sized, netVars, serverVars>>

(* First barrier of mdhimCommit; a range server then sends itself a commit. *)
CommitBarrier1 ==
  /\ \A r \in Ranks : cpc[r] = "cbar1"
  /\ cpc' = [r \in Ranks |-> IF r \in Servers THEN "addself" ELSE "cbar2"]
  /\ op' = [r \in Ranks |-> op[r] + 1]
  /\ ncommit' = [r \in Ranks |-> ncommit[r] + 1]
  /\ commit' = [r \in Ranks |-> TRUE]
  /\ asked' = [r \in Ranks |-> {r} \cap Servers]
  /\ got' = [r \in Ranks |-> {}]
  /\ UNCHANGED <<loc, pend, wait, sized, netVars, serverVars>>

CommitBarrier2 ==
  /\ \A r \in Ranks : cpc[r] = "cbar2"
  /\ cpc' = [r \in Ranks |-> "app"]
  /\ commit' = [r \in Ranks |-> FALSE]
  /\ UNCHANGED <<op, ncommit, asked, loc, pend, wait, sized, got, netVars, serverVars>>

EnterClose(r) ==
  /\ cpc[r] = "app" /\ ncommit[r] = Commits
  /\ cpc' = [cpc EXCEPT ![r] = "bar1"]
  /\ UNCHANGED <<opVars, netVars, serverVars>>

(* After the first barrier of mdhimClose a rank that runs a server stops it. *)
Stopping(r) == IF r \in Servers THEN "cancel" ELSE "bar2"

(* Mutant: mdhimClose without its first barrier. *)
CloseNoBarrier ==
  \E r \in Ranks :
    /\ cpc[r] = "bar1"
    /\ cpc' = [cpc EXCEPT ![r] = IF r = Root THEN "closing" ELSE Stopping(r)]
    /\ UNCHANGED <<opVars, netVars, serverVars>>

CloseBarrier1 ==
  /\ \A r \in Ranks : cpc[r] = "bar1"
  /\ cpc' = [r \in Ranks |-> IF r = Root THEN "closing" ELSE Stopping(r)]
  /\ UNCHANGED <<opVars, netVars, serverVars>>

(* client_close: rank 0 sends MDHIM_CLOSE to every range server, itself too.  *)
(* The sends are one after the other; the listeners do not wait for rank 0.   *)
client_close ==
  /\ cpc[Root] = "closing"
  /\ req' = [req EXCEPT ![Root] = [s \in Servers |-> Append(@[s], CloseMsg)]]
  /\ cpc' = [cpc EXCEPT ![Root] = Stopping(Root)]
  /\ UNCHANGED <<opVars, rsz, rbd, serverVars>>

(* Mutant: range_server_stop joins the threads without cancelling the worker. *)
StopNoCancel(r) ==
  \/ /\ cpc[r] = "cancel"
     /\ cpc' = [cpc EXCEPT ![r] = "joinL"]
     /\ UNCHANGED <<opVars, netVars, serverVars>>
  \/ /\ cpc[r] = "joinL" /\ lpc[r] = "done"
     /\ cpc' = [cpc EXCEPT ![r] = "joinW"]
     /\ UNCHANGED <<opVars, netVars, serverVars>>
  \/ /\ cpc[r] = "joinW" /\ wpc[r] = "dead"
     /\ cpc' = [cpc EXCEPT ![r] = "bar2"]
     /\ UNCHANGED <<opVars, netVars, serverVars>>

(***************************************************************************)
(* range_server_stop: cancel the worker, join the listener, join the       *)
(* worker, then free the queue, write the statistics and close the store.  *)
(* The last part calls malloc and free and stops for ever if the worker    *)
(* died inside them.                                                       *)
(***************************************************************************)
range_server_stop(r) ==
  \/ /\ cpc[r] = "cancel"
     /\ cancel' = [cancel EXCEPT ![r] = TRUE]
     /\ cpc' = [cpc EXCEPT ![r] = "joinL"]
     /\ UNCHANGED <<opVars, netVars>>
     /\ UNCHANGED <<lpc, lmsg, queue, held, wpc, witem, rmsg, heap, applied>>
  \/ /\ cpc[r] = "joinL" /\ lpc[r] = "done"
     /\ cpc' = [cpc EXCEPT ![r] = "joinW"]
     /\ UNCHANGED <<opVars, netVars, serverVars>>
  \/ /\ cpc[r] = "joinW" /\ wpc[r] = "dead"
     /\ cpc' = [cpc EXCEPT ![r] = "stop"]
     /\ UNCHANGED <<opVars, netVars, serverVars>>
  \/ /\ cpc[r] = "stop" /\ ~heap[r]
     /\ queue' = [queue EXCEPT ![r] = <<>>]
     /\ cpc' = [cpc EXCEPT ![r] = "bar2"]
     /\ UNCHANGED <<opVars, netVars>>
     /\ UNCHANGED <<lpc, lmsg, held, wpc, witem, rmsg, cancel, heap, applied>>

CloseBarrier2 ==
  /\ \A r \in Ranks : cpc[r] = "bar2"
  /\ cpc' = [r \in Ranks |-> "done"]
  /\ UNCHANGED <<opVars, netVars, serverVars>>

-----------------------------------------------------------------------------
(* The listener thread. *)

(* receive_rangesrv_work: the size, from any source. *)
ReceiveWorkSize(s, r) ==
  /\ lpc[s] = "recv"
  /\ req[r][s] # <<>>
  /\ lpc' = [lpc EXCEPT ![s] = "body"]
  /\ lmsg' = [lmsg EXCEPT ![s] = [src |-> r, id |-> NULL]]
  /\ UNCHANGED <<mainVars, netVars, queue, held, wpc, witem, rmsg, cancel, heap, applied>>

(* Mutant: the body is received from any source. *)
BodyFromAnySource(s, r) ==
  /\ lpc[s] = "body"
  /\ req[r][s] # <<>>
  /\ req' = [req EXCEPT ![r][s] = Tail(@)]
  /\ pend' = [pend EXCEPT ![r] = @ \ {s}]
  /\ lpc' = [lpc EXCEPT ![s] = IF Head(req[r][s]) = CloseMsg THEN "done" ELSE "add"]
  /\ lmsg' = [lmsg EXCEPT ![s].id = Head(req[r][s])]
  /\ UNCHANGED <<cpc, op, ncommit, commit, asked, loc, wait, sized, got, rsz, rbd>>
  /\ UNCHANGED <<queue, held, wpc, witem, rmsg, cancel, heap, applied>>

(***************************************************************************)
(* receive_rangesrv_work: the body, from the source of the size.  A        *)
(* message that cannot be unpacked is dropped and the thread receives the  *)
(* next one; MDHIM_CLOSE ends the thread.                                  *)
(***************************************************************************)
receive_rangesrv_work(s, r) ==
  LET id == Head(req[r][s])
  IN /\ lpc[s] = "body" /\ lmsg[s].src = r
     /\ req[r][s] # <<>>
     /\ req' = [req EXCEPT ![r][s] = Tail(@)]
     /\ pend' = [pend EXCEPT ![r] = @ \ {s}]
     /\ \/ /\ id = CloseMsg
           /\ lpc' = [lpc EXCEPT ![s] = "done"]
           /\ lmsg' = [lmsg EXCEPT ![s] = NoItem]
        \/ /\ id # CloseMsg
           /\ lpc' = [lpc EXCEPT ![s] = "add"]
           /\ lmsg' = [lmsg EXCEPT ![s].id = id]
        \/ /\ id # CloseMsg /\ "unpack" \in Faults
           /\ lpc' = [lpc EXCEPT ![s] = "recv"]
           /\ lmsg' = [lmsg EXCEPT ![s] = NoItem]
     /\ UNCHANGED <<cpc, op, ncommit, commit, asked, loc, wait, sized, got, rsz, rbd>>
     /\ UNCHANGED <<queue, held, wpc, witem, rmsg, cancel, heap, applied>>

ListenerAddWork(s) ==
  /\ lpc[s] = "add"
  /\ range_server_add_work(s, lmsg[s])
  /\ lpc' = [lpc EXCEPT ![s] = "recv"]
  /\ lmsg' = [lmsg EXCEPT ![s] = NoItem]
  /\ UNCHANGED <<mainVars, netVars, held, witem, rmsg, cancel, heap, applied>>

-----------------------------------------------------------------------------
(* The worker thread. *)

(* The outer loop takes the mutex; with no work it waits on work_ready_cv. *)
WorkerLock(s) ==
  /\ wpc[s] = "lock" /\ ~held[s]
  /\ \/ get_work(s)
     \/ /\ queue[s] = <<>>
        /\ wpc' = [wpc EXCEPT ![s] = "asleep"]
        /\ UNCHANGED <<queue, held, witem>>
  /\ UNCHANGED <<mainVars, netVars, lpc, lmsg, rmsg, cancel, heap, applied>>

(* Back from pthread_cond_wait: with still no work it unlocks and starts over. *)
WorkerWoken(s) ==
  /\ wpc[s] = "woken" /\ ~held[s]
  /\ \/ get_work(s)
     \/ /\ queue[s] = <<>>
        /\ wpc' = [wpc EXCEPT ![s] = "lock"]
        /\ UNCHANGED <<queue, held, witem>>
  /\ UNCHANGED <<mainVars, netVars, lpc, lmsg, rmsg, cancel, heap, applied>>

SpuriousWorkerWakeup(s) ==
  /\ "worker" \in Spurious
  /\ wpc[s] = "asleep"
  /\ wpc' = [wpc EXCEPT ![s] = "woken"]
  /\ UNCHANGED <<mainVars, netVars>>
  /\ UNCHANGED <<lpc, lmsg, queue, held, witem, rmsg, cancel, heap, applied>>

(* The range_server_* function of the request, up to its response. *)
HandleItem(s) ==
  /\ wpc[s] = "handle"
  /\ applied' = [applied EXCEPT ![s][witem[s].src] = Append(@, witem[s].id)]
  /\ wpc' = [wpc EXCEPT ![s] = "respond"]
  /\ UNCHANGED <<mainVars, netVars>>
  /\ UNCHANGED <<lpc, lmsg, queue, held, witem, rmsg, cancel, heap>>

(* Mutant: send_locally_or_remote does not signal receive_msg_ready_cv. *)
RespondNoSignal(s) ==
  /\ wpc[s] = "respond" /\ witem[s].src = s
  /\ rmsg' = [rmsg EXCEPT ![s] = witem[s].id]
  /\ wpc' = [wpc EXCEPT ![s] = "free"]
  /\ UNCHANGED <<mainVars, netVars>>
  /\ UNCHANGED <<lpc, lmsg, queue, held, witem, cancel, heap, applied>>

(* send_locally_or_remote to the own rank: fill md->receive_msg and signal. *)
RespondLocal(s) ==
  /\ wpc[s] = "respond" /\ witem[s].src = s
  /\ rmsg' = [rmsg EXCEPT ![s] = witem[s].id]
  /\ cpc' = [cpc EXCEPT ![s] = IF @ = "selfwait" THEN "selfwoken" ELSE @]
  /\ wpc' = [wpc EXCEPT ![s] = "free"]
  /\ UNCHANGED <<opVars, netVars>>
  /\ UNCHANGED <<lpc, lmsg, queue, held, witem, cancel, heap, applied>>

(* send_client_response, first MPI_Send: an int, which MPI always buffers. *)
SendSize(s) ==
  /\ wpc[s] = "respond" /\ witem[s].src # s
  /\ rsz' = [rsz EXCEPT ![s][witem[s].src] = Append(@, witem[s].id)]
  /\ wpc' = [wpc EXCEPT ![s] = "body"]
  /\ UNCHANGED <<mainVars, req, rbd>>
  /\ UNCHANGED <<lpc, lmsg, queue, held, witem, rmsg, cancel, heap, applied>>

(* Mutant: the response is sent under the rank of the server. *)
SendBodyToSelf(s) ==
  /\ wpc[s] = "body"
  /\ rbd' = [rbd EXCEPT ![s][s] = Append(@, witem[s].id)]
  /\ wpc' = [wpc EXCEPT ![s] = "free"]
  /\ UNCHANGED <<mainVars, req, rsz>>
  /\ UNCHANGED <<lpc, lmsg, queue, held, witem, rmsg, cancel, heap, applied>>

(* send_client_response, second MPI_Send: the packed response. *)
SendBody(s) ==
  /\ wpc[s] = "body"
  /\ rbd' = [rbd EXCEPT ![s][witem[s].src] = Append(@, witem[s].id)]
  /\ wpc' = [wpc EXCEPT ![s] = IF Eager THEN "free" ELSE "sync"]
  /\ UNCHANGED <<mainVars, req, rsz>>
  /\ UNCHANGED <<lpc, lmsg, queue, held, witem, rmsg, cancel, heap, applied>>

(* An unbuffered MPI_Send returns when the client has received the body. *)
BodyReceived(s) ==
  /\ wpc[s] = "sync" /\ rbd[s][witem[s].src] = <<>>
  /\ wpc' = [wpc EXCEPT ![s] = "free"]
  /\ UNCHANGED <<mainVars, netVars>>
  /\ UNCHANGED <<lpc, lmsg, queue, held, witem, rmsg, cancel, heap, applied>>

(* free(item), then the next item; with none left the mutex is released. *)
FreeItem(s) ==
  /\ wpc[s] = "free"
  /\ \/ get_work(s)
     \/ /\ queue[s] = <<>>
        /\ wpc' = [wpc EXCEPT ![s] = "lock"]
        /\ held' = [held EXCEPT ![s] = FALSE]
        /\ witem' = [witem EXCEPT ![s] = NoItem]
        /\ UNCHANGED queue
  /\ UNCHANGED <<mainVars, netVars, lpc, lmsg, rmsg, cancel, heap, applied>>

(***************************************************************************)
(* The asynchronous cancellation takes effect.  The cleanup handler that   *)
(* unlocks the mutex covers pthread_cond_wait only, so a worker that is    *)
(* processing items dies with the mutex held.                              *)
(***************************************************************************)
WorkerCancelled(s) ==
  /\ cancel[s] /\ wpc[s] # "dead"
  /\ wpc' = [wpc EXCEPT ![s] = "dead"]
  /\ heap' = [heap EXCEPT ![s] = wpc[s] = "free" /\ "heap" \in Faults]
  /\ UNCHANGED <<mainVars, netVars>>
  /\ UNCHANGED <<lpc, lmsg, queue, held, witem, rmsg, cancel, applied>>

-----------------------------------------------------------------------------
MainThread(r) ==
  \/ SendDone(r)
  \/ \E s \in Servers : ReceiveSize(r, s) \/ ReceiveBody(r, s)
  \/ r \in Servers /\ (LocalAddWork(r) \/ get_msg_self(r) \/ range_server_stop(r))

Listener(s) ==
  \/ \E r \in Ranks : ReceiveWorkSize(s, r) \/ receive_rangesrv_work(s, r)
  \/ ListenerAddWork(s)

Worker(s) ==
  \/ WorkerLock(s) \/ WorkerWoken(s) \/ HandleItem(s) \/ RespondLocal(s)
  \/ SendSize(s) \/ SendBody(s) \/ BodyReceived(s) \/ FreeItem(s)
  \/ WorkerCancelled(s)

Collective ==
  \/ CommitBarrier1 \/ CommitBarrier2
  \/ CloseBarrier1 \/ client_close \/ CloseBarrier2

(* What the application and the operating system may do but need not. *)
Environment ==
  \/ \E r \in Ranks : \E S \in Targets[r] : \E F \in SUBSET (S \ {r}) : Issue(r, S, F)
  \/ \E r \in Ranks : EnterCommit(r) \/ EnterClose(r) \/ SpuriousClientWakeup(r)
  \/ \E s \in Servers : SpuriousWorkerWakeup(s)

(* Every rank has returned from mdhimClose. *)
Finished == (\A r \in Ranks : cpc[r] = "done") /\ UNCHANGED vars

Next ==
  \/ \E r \in Ranks : MainThread(r)
  \/ \E s \in Servers : Listener(s) \/ Worker(s)
  \/ Collective
  \/ Environment
  \/ Finished

(* The operating system runs every thread that can run and delivers a         *)
(* cancellation, whatever else the thread could do.                           *)
Fairness ==
  /\ \A r \in Ranks : WF_vars(MainThread(r))
  /\ \A s \in Servers :
       WF_vars(Listener(s)) /\ WF_vars(Worker(s)) /\ WF_vars(WorkerCancelled(s))
  /\ WF_vars(Collective)

Spec == Init /\ [][Next]_vars
FairSpec == Spec /\ Fairness

-----------------------------------------------------------------------------
(* Properties. *)

(* Servers that have not yet carried out the current request of rank r. *)
Outstanding(r) ==
  {s \in asked[r] : \A i \in DOMAIN applied[s][r] : applied[s][r][i] # op[r]}

(* Every response an operation takes, by receive_all_client_responses or by  *)
(* get_msg_self, answers the request of that operation: none is NULL and     *)
(* none is left over from an earlier operation.                              *)
AnswersMatch == \A r \in Ranks : got[r] \subseteq {op[r]}

(* No wakeup is lost: the worker sleeps on work_ready_cv only while the work *)
(* queue is empty, a client sleeps on receive_msg_ready_cv only while        *)
(* md->receive_msg is NULL.                                                  *)
NoLostWakeup ==
  \A s \in Servers :
    /\ wpc[s] = "asleep" => queue[s] = <<>>
    /\ cpc[s] = "selfwait" => rmsg[s] = NULL

(* md->receive_msg holds one response: send_locally_or_remote never stores a *)
(* response over one that get_msg_self has not taken.                        *)
SlotNotOverwritten ==
  \A s \in Servers : wpc[s] = "respond" /\ witem[s].src = s => rmsg[s] = NULL

(* When range_server_stop cancels the worker, no request is unapplied and no *)
(* response untaken, at any server: nothing range_server_stop frees is work, *)
(* the worker is not cancelled before it has answered, and the listener      *)
(* never needs the mutex a cancelled worker may have left locked.            *)
QuiescentStop ==
  \A s \in Servers : cancel[s] =>
    /\ \A r \in Ranks : Outstanding(r) = {}
    /\ wpc[s] \notin {"handle", "respond", "body"}
    /\ lpc[s] # "add"
    /\ rmsg[s] = NULL
    /\ \A r \in Ranks : rsz[s][r] = <<>> /\ rbd[s][r] = <<>>

(* mdhimCommit commits everything: while any range server is carrying out    *)
(* its commit, no data request of any rank is unapplied at any server.       *)
CommitSeesAllWrites ==
  (\E s \in Servers : commit[s] /\ cpc[s] \in OpPcs) =>
     \A r \in Ranks : commit[r] /\ Outstanding(r) \subseteq {r}

(* A worker carries out the requests of one rank in the order in which the   *)
(* rank made them and none twice.                                            *)
AppliedInOrder ==
  \A s \in Servers, r \in Ranks :
    \A i, j \in DOMAIN applied[s][r] : i < j => applied[s][r][i] < applied[s][r][j]

(* Every data operation returns to the application. *)
OpsComplete ==
  \A r \in Ranks : (cpc[r] \in OpPcs /\ ~commit[r]) ~> cpc[r] = "app"

(* Once every rank has called mdhimClose, every rank returns from it. *)
CloseCompletes ==
  (\A r \in Ranks : cpc[r] = "bar1") ~> (\A r \in Ranks : cpc[r] = "done")

(* The request path implements atomic calls (module AtomicCalls): a request  *)
(* is carried out once at every server it addresses, and the operation       *)
(* returns only after that.                                                  *)
Calls == INSTANCE AtomicCalls WITH
  busy <- [r \in Ranks |-> cpc[r] \in OpPcs],
  todo <- [r \in Ranks |-> Outstanding(r)]
ImplementsAtomicCalls == Calls!Spec

=============================================================================
