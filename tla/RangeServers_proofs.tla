------------------------ MODULE RangeServers_proofs ------------------------
(***************************************************************************)
(* Proofs about RangeServers, for every set of ranks and servers, every    *)
(* choice of targets and every bound: its types and wakeups, that          *)
(* RequestPathInv is an inductive invariant, with one lemma per action for *)
(* the parts of it the action can disturb, what follows from it, and that  *)
(* RangeServers implements AtomicCalls and keeps the order of each rank's  *)
(* requests.                                                               *)
(***************************************************************************)
EXTENDS RangeServersInvariant, SequenceTheorems, TLAPS

-----------------------------------------------------------------------------
(* Type correctness. *)

(* Updating one cell of a table keeps the type of the table. *)
LEMMA TableUpdate ==
  ASSUME NEW A, NEW B, NEW C, NEW f \in [A -> [B -> C]], NEW a \in A, NEW b \in B, NEW c \in C
  PROVE  [f EXCEPT ![a][b] = c] \in [A -> [B -> C]]
<1>1. [f[a] EXCEPT ![b] = c] \in [B -> C]
  OBVIOUS
<1> QED
  BY <1>1

LEMMA NoItemType == NoItem \in Item
  BY ConstantsAssumption DEF NoItem, Item

(* The parts of what the worker and the listener hold. *)
LEMMA ItemParts ==
  ASSUME NEW i \in Item
  PROVE  i.src \in Ranks /\ i.id \in Nat
BY DEF Item

LEMMA TypeInit == Init => TypeOK
<1> SUFFICES ASSUME Init PROVE TypeOK
  OBVIOUS
<1>1. MainType
  BY DEF Init, MainType, MainPcs, OpPcs
<1>2. NetType
  BY DEF Init, NetType
<1>3. ServerType
  BY NoItemType DEF Init, ServerType, WorkPcs, BusyPcs, NULL
<1> QED
  BY <1>1, <1>2, <1>3 DEF TypeOK

LEMMA MainUnchanged ==
  ASSUME MainType, UNCHANGED mainVars
  PROVE  MainType'
BY DEF MainType, mainVars, opVars

LEMMA NetUnchanged ==
  ASSUME NetType, UNCHANGED netVars
  PROVE  NetType'
BY DEF NetType, netVars

LEMMA ServerUnchanged ==
  ASSUME ServerType, UNCHANGED serverVars
  PROVE  ServerType'
BY DEF ServerType, serverVars

(* A step of the main thread that only moves it. *)
LEMMA MoveType ==
  ASSUME MainType, NEW r \in Ranks, NEW pc \in MainPcs,
         cpc' = [cpc EXCEPT ![r] = pc], UNCHANGED opVars
  PROVE  MainType'
BY DEF MainType, opVars

(* The queue operations keep the types of what they change. *)
LEMMA AddWorkType ==
  ASSUME ServerType, NEW s \in Servers, NEW item \in Item, range_server_add_work(s, item)
  PROVE  queue' \in [Servers -> Seq(Item)] /\ wpc' \in [Servers -> WorkPcs]
<1>1. queue \in [Servers -> Seq(Item)] /\ wpc \in [Servers -> WorkPcs]
  BY DEF ServerType
<1>2. Append(queue[s], item) \in Seq(Item)
  BY <1>1
<1>3. "woken" \in WorkPcs
  BY DEF WorkPcs
<1> QED
  BY <1>1, <1>2, <1>3 DEF range_server_add_work

LEMMA GetWorkType ==
  ASSUME ServerType, NEW s \in Servers, get_work(s)
  PROVE  /\ queue' \in [Servers -> Seq(Item)] /\ wpc' \in [Servers -> WorkPcs]
         /\ witem' \in [Servers -> Item] /\ held' \in [Servers -> BOOLEAN]
<1>1. /\ queue \in [Servers -> Seq(Item)] /\ wpc \in [Servers -> WorkPcs]
      /\ witem \in [Servers -> Item] /\ held \in [Servers -> BOOLEAN]
  BY DEF ServerType
<1>2. Head(queue[s]) \in Item /\ Tail(queue[s]) \in Seq(Item)
  BY <1>1, HeadTailProperties DEF get_work
<1> QED
  BY <1>1, <1>2 DEF get_work, WorkPcs, BusyPcs

LEMMA TypeMain ==
  ASSUME TypeOK, NEW r \in Ranks, MainThread(r)
  PROVE  TypeOK'
<1> USE ConstantsAssumption
<1> MainType /\ NetType /\ ServerType
  BY DEF TypeOK
<1>1. CASE SendDone(r)
  <2>1. (IF wait[r] # {} THEN "rsize" ELSE AfterRemote(r)) \in MainPcs
    BY DEF AfterRemote, MainPcs, OpPcs
  <2> QED
    BY <1>1, <2>1, MoveType, NetUnchanged, ServerUnchanged DEF SendDone, TypeOK
<1>2. ASSUME NEW s \in Servers, ReceiveSize(r, s) PROVE TypeOK'
  <2>1. Tail(rsz[s][r]) \in Seq(Nat)
    BY <1>2, HeadTailProperties DEF NetType, ReceiveSize
  <2>2. NetType'
    BY <1>2, <2>1, TableUpdate DEF NetType, ReceiveSize
  <2>3. MainType'
    BY <1>2 DEF MainType, ReceiveSize, MainPcs, OpPcs
  <2>4. ServerType'
    BY <1>2, ServerUnchanged DEF ReceiveSize
  <2> QED
    BY <2>2, <2>3, <2>4 DEF TypeOK
<1>3. ASSUME NEW s \in Servers, ReceiveBody(r, s) PROVE TypeOK'
  <2>1. rbd[s][r] \in Seq(Nat) /\ rbd[s][r] # <<>>
    BY <1>3 DEF NetType, ReceiveBody
  <2>2. Tail(rbd[s][r]) \in Seq(Nat) /\ Head(rbd[s][r]) \in Nat
    BY <2>1, HeadTailProperties
  <2>3. NetType'
    BY <1>3, <2>2, TableUpdate DEF NetType, ReceiveBody
  <2>4. AfterRemote(r) \in MainPcs
    BY DEF AfterRemote, MainPcs, OpPcs
  <2>5. MainType'
    BY <1>3, <2>2, <2>4 DEF MainType, ReceiveBody
  <2>6. ServerType'
    BY <1>3, ServerUnchanged DEF ReceiveBody
  <2> QED
    BY <2>3, <2>5, <2>6 DEF TypeOK
<1>4. ASSUME r \in Servers, LocalAddWork(r) PROVE TypeOK'
  <2>1. [src |-> r, id |-> op[r]] \in Item
    BY DEF MainType, Item
  <2>2. queue' \in [Servers -> Seq(Item)] /\ wpc' \in [Servers -> WorkPcs]
    BY <1>4, <2>1, AddWorkType DEF LocalAddWork
  <2>3. ServerType'
    BY <1>4, <2>2 DEF LocalAddWork, ServerType
  <2>4. MainType'
    BY <1>4 DEF MainType, LocalAddWork, MainPcs, OpPcs
  <2> QED
    BY <1>4, <2>3, <2>4, NetUnchanged DEF TypeOK, LocalAddWork
<1>5. ASSUME r \in Servers, get_msg_self(r) PROVE TypeOK'
  <2>1. CASE TakeMsg(r)
    <3>1. rmsg[r] \in Nat
      BY <1>5 DEF ServerType
    <3>2. AfterLocal(r) \in MainPcs
      BY DEF AfterLocal, MainPcs
    <3>3. MainType'
      BY <2>1, <3>1, <3>2 DEF MainType, TakeMsg
    <3>4. ServerType'
      BY <1>5, <2>1 DEF ServerType, TakeMsg, NULL
    <3> QED
      BY <2>1, <3>3, <3>4, NetUnchanged DEF TypeOK, TakeMsg
  <2>2. CASE ~TakeMsg(r)
    <3>1. "selfwait" \in MainPcs
      BY DEF MainPcs, OpPcs
    <3> QED
      BY <1>5, <2>2, <3>1, MoveType, NetUnchanged, ServerUnchanged DEF get_msg_self, TypeOK
  <2> QED
    BY <2>1, <2>2
<1>6. ASSUME r \in Servers, range_server_stop(r) PROVE TypeOK'
  <2>1. \E pc \in MainPcs : cpc' = [cpc EXCEPT ![r] = pc]
    BY <1>6 DEF range_server_stop, MainPcs, StopPcs
  <2>2. UNCHANGED <<opVars, netVars>>
    BY <1>6 DEF range_server_stop
  <2>3. UNCHANGED <<lpc, lmsg, held, wpc, witem, rmsg, heap, applied>>
    BY <1>6 DEF range_server_stop, serverVars
  <2>4. queue' \in [Servers -> Seq(Item)] /\ cancel' \in [Servers -> BOOLEAN]
    <3>1. queue \in [Servers -> Seq(Item)] /\ cancel \in [Servers -> BOOLEAN]
      BY DEF ServerType
    <3>2. UNCHANGED queue \/ queue' = [queue EXCEPT ![r] = <<>>]
      BY <1>6, Zenon DEF range_server_stop, serverVars
    <3>3. UNCHANGED cancel \/ cancel' = [cancel EXCEPT ![r] = TRUE]
      BY <1>6 DEF range_server_stop, serverVars
    <3> QED
      <4>1. [queue EXCEPT ![r] = <<>>] \in [Servers -> Seq(Item)]
        BY <3>1, <1>6, EmptySeq
      <4>2. [cancel EXCEPT ![r] = TRUE] \in [Servers -> BOOLEAN]
        BY <3>1
      <4> QED
        BY <3>1, <3>2, <3>3, <4>1, <4>2
  <2>5. ServerType'
    BY <2>3, <2>4 DEF ServerType
  <2> QED
    BY <2>1, <2>2, <2>5, MoveType, NetUnchanged DEF TypeOK
<1> QED
  BY <1>1, <1>2, <1>3, <1>4, <1>5, <1>6 DEF MainThread

LEMMA TypeListener ==
  ASSUME TypeOK, NEW s \in Servers, Listener(s)
  PROVE  TypeOK'
<1> MainType /\ NetType /\ ServerType
  BY DEF TypeOK
<1>1. ASSUME NEW r \in Ranks, receive_rangesrv_work(s, r) PROVE TypeOK'
  <2>1. req[r][s] \in Seq(Nat) /\ req[r][s] # <<>>
    BY <1>1 DEF NetType, receive_rangesrv_work
  <2>2. Head(req[r][s]) \in Nat /\ Tail(req[r][s]) \in Seq(Nat)
    BY <2>1, HeadTailProperties
  <2>4. NetType'
    BY <1>1, <2>2, TableUpdate DEF NetType, receive_rangesrv_work
  <2>5. lmsg' \in [Servers -> Item] /\ lpc' \in [Servers -> {"recv", "body", "add", "done"}]
    <3>1. lpc' \in [Servers -> {"recv", "body", "add", "done"}]
      BY <1>1 DEF ServerType, receive_rangesrv_work
    <3>2. [lmsg[s] EXCEPT !.id = Head(req[r][s])] \in Item
      <4>1. lmsg \in [Servers -> Item]
        BY DEF ServerType
      <4>2. lmsg[s] \in Item
        BY <4>1
      <4> QED BY <2>2, <4>2 DEF Item
    <3>3. \E item \in Item : lmsg' = [lmsg EXCEPT ![s] = item]
      BY <1>1, <3>2, NoItemType DEF receive_rangesrv_work
    <3> QED BY <3>1, <3>3 DEF ServerType
  <2>6. ServerType'
    BY <1>1, <2>5 DEF ServerType, receive_rangesrv_work
  <2>7. MainType'
    BY <1>1 DEF MainType, receive_rangesrv_work
  <2> QED
    BY <2>4, <2>6, <2>7 DEF TypeOK
<1>3. ASSUME NEW r \in Ranks, ReceiveWorkSize(s, r) PROVE TypeOK'
  <2>1. [src |-> r, id |-> NULL] \in Item
    BY DEF Item, NULL
  <2>2. ServerType'
    BY <1>3, <2>1 DEF ServerType, ReceiveWorkSize
  <2> QED
    BY <1>3, <2>2, MainUnchanged, NetUnchanged DEF TypeOK, ReceiveWorkSize
<1>2. CASE ListenerAddWork(s)
  <2>1. lmsg[s] \in Item
    BY DEF ServerType
  <2>2. queue' \in [Servers -> Seq(Item)] /\ wpc' \in [Servers -> WorkPcs]
    BY <1>2, <2>1, AddWorkType DEF ListenerAddWork
  <2>3. ServerType'
    BY <1>2, <2>2, NoItemType DEF ServerType, ListenerAddWork
  <2> QED
    BY <1>2, <2>3, MainUnchanged, NetUnchanged DEF TypeOK, ListenerAddWork
<1> QED
  BY <1>1, <1>2, <1>3 DEF Listener

LEMMA TypeWorker ==
  ASSUME TypeOK, NEW s \in Servers, Worker(s)
  PROVE  TypeOK'
<1> MainType /\ NetType /\ ServerType
  BY DEF TypeOK
<1> witem[s] \in Item /\ witem[s].src \in Ranks /\ witem[s].id \in Nat
  BY ItemParts DEF ServerType
<1> DEFINE QueueTypes ==
      /\ queue' \in [Servers -> Seq(Item)] /\ wpc' \in [Servers -> WorkPcs]
      /\ witem' \in [Servers -> Item] /\ held' \in [Servers -> BOOLEAN]
<1> "lock" \in WorkPcs /\ "asleep" \in WorkPcs
  BY DEF WorkPcs
<1>1. CASE WorkerLock(s)
  <2>1. QueueTypes
    <3>1. CASE ~get_work(s)
      BY <1>1, <3>1 DEF WorkerLock, ServerType
    <3> QED
      BY <3>1, GetWorkType
  <2>2. ServerType'
    BY <1>1, <2>1 DEF ServerType, WorkerLock
  <2> QED
    BY <1>1, <2>2, MainUnchanged, NetUnchanged DEF TypeOK, WorkerLock
<1>2. CASE WorkerWoken(s)
  <2>1. QueueTypes
    <3>1. CASE ~get_work(s)
      BY <1>2, <3>1 DEF WorkerWoken, ServerType
    <3> QED
      BY <3>1, GetWorkType
  <2>2. ServerType'
    BY <1>2, <2>1 DEF ServerType, WorkerWoken
  <2> QED
    BY <1>2, <2>2, MainUnchanged, NetUnchanged DEF TypeOK, WorkerWoken
<1>3. CASE FreeItem(s)
  <2>1. QueueTypes
    <3>1. CASE ~get_work(s)
      <4>1. /\ queue \in [Servers -> Seq(Item)] /\ wpc \in [Servers -> WorkPcs]
            /\ witem \in [Servers -> Item] /\ held \in [Servers -> BOOLEAN]
        BY DEF ServerType
      <4>2. /\ wpc' = [wpc EXCEPT ![s] = "lock"] /\ held' = [held EXCEPT ![s] = FALSE]
            /\ witem' = [witem EXCEPT ![s] = NoItem] /\ UNCHANGED queue
        BY <1>3, <3>1 DEF FreeItem
      <4>3. [held EXCEPT ![s] = FALSE] \in [Servers -> BOOLEAN]
        BY <4>1
      <4> QED
        BY <4>1, <4>2, <4>3, NoItemType
    <3> QED
      BY <3>1, GetWorkType
  <2>2. ServerType'
    BY <1>3, <2>1 DEF ServerType, FreeItem
  <2> QED
    BY <1>3, <2>2, MainUnchanged, NetUnchanged DEF TypeOK, FreeItem
<1>4. CASE HandleItem(s)
  <2>1. applied \in [Servers -> [Ranks -> Seq(Nat)]]
    BY DEF ServerType
  <2>2. Append(applied[s][witem[s].src], witem[s].id) \in Seq(Nat)
    BY <2>1
  <2>3. applied' \in [Servers -> [Ranks -> Seq(Nat)]]
    BY <1>4, <2>1, <2>2, TableUpdate DEF HandleItem
  <2>4. ServerType'
    BY <1>4, <2>3 DEF ServerType, HandleItem, WorkPcs, BusyPcs
  <2> QED
    BY <1>4, <2>4, MainUnchanged, NetUnchanged DEF TypeOK, HandleItem
<1>5. CASE RespondLocal(s)
  <2>1. s \in Ranks
    BY ConstantsAssumption
  <2>2. MainType'
    BY <1>5, <2>1 DEF RespondLocal, MainType, opVars, MainPcs, OpPcs
  <2>3. ServerType'
    BY <1>5 DEF RespondLocal, ServerType, WorkPcs, BusyPcs
  <2> QED
    BY <1>5, <2>2, <2>3, NetUnchanged DEF TypeOK, RespondLocal
<1>6. CASE SendSize(s)
  <2>1. rsz \in [Servers -> [Ranks -> Seq(Nat)]]
    BY DEF NetType
  <2>2. Append(rsz[s][witem[s].src], witem[s].id) \in Seq(Nat)
    BY <2>1
  <2>3. NetType'
    BY <1>6, <2>1, <2>2, TableUpdate DEF SendSize, NetType
  <2>4. ServerType'
    BY <1>6 DEF SendSize, ServerType, WorkPcs, BusyPcs
  <2> QED
    BY <1>6, <2>3, <2>4, MainUnchanged DEF TypeOK, SendSize
<1>7. CASE SendBody(s)
  <2>1. rbd \in [Servers -> [Ranks -> Seq(Nat)]]
    BY DEF NetType
  <2>2. Append(rbd[s][witem[s].src], witem[s].id) \in Seq(Nat)
    BY <2>1
  <2>3. NetType'
    BY <1>7, <2>1, <2>2, TableUpdate DEF SendBody, NetType
  <2>4. ServerType'
    BY <1>7 DEF SendBody, ServerType, WorkPcs, BusyPcs
  <2> QED
    BY <1>7, <2>3, <2>4, MainUnchanged DEF TypeOK, SendBody
<1>8. CASE BodyReceived(s)
  <2>1. ServerType'
    BY <1>8 DEF BodyReceived, ServerType, WorkPcs, BusyPcs
  <2> QED
    BY <1>8, <2>1, MainUnchanged, NetUnchanged DEF TypeOK, BodyReceived
<1>9. CASE WorkerCancelled(s)
  <2>1. (wpc[s] = "free" /\ "heap" \in Faults) \in BOOLEAN
    OBVIOUS
  <2>2. heap' \in [Servers -> BOOLEAN]
    BY <1>9, <2>1 DEF WorkerCancelled, ServerType
  <2>3. ServerType'
    BY <1>9, <2>2 DEF WorkerCancelled, ServerType, WorkPcs
  <2> QED
    BY <1>9, <2>3, MainUnchanged, NetUnchanged DEF TypeOK, WorkerCancelled
<1> QED
  BY <1>1, <1>2, <1>3, <1>4, <1>5, <1>6, <1>7, <1>8, <1>9 DEF Worker

LEMMA TypeCollective ==
  ASSUME TypeOK, Collective
  PROVE  TypeOK'
<1> MainType /\ NetType /\ ServerType
  BY DEF TypeOK
<1>1. CASE CommitBarrier1
  <2>1. MainType'
    BY <1>1 DEF MainType, CommitBarrier1, MainPcs, OpPcs
  <2> QED
    BY <1>1, <2>1, NetUnchanged, ServerUnchanged DEF TypeOK, CommitBarrier1
<1>2. CASE CommitBarrier2
  <2>1. MainType'
    BY <1>2 DEF MainType, CommitBarrier2, MainPcs
  <2> QED
    BY <1>2, <2>1, NetUnchanged, ServerUnchanged DEF TypeOK, CommitBarrier2
<1>3. CASE CloseBarrier1
  <2>1. MainType'
    BY <1>3 DEF MainType, CloseBarrier1, Stopping, opVars, MainPcs, StopPcs
  <2> QED
    BY <1>3, <2>1, NetUnchanged, ServerUnchanged DEF TypeOK, CloseBarrier1
<1>4. CASE client_close
  <2>1. Root \in Ranks /\ Stopping(Root) \in MainPcs
    BY ConstantsAssumption DEF Stopping, MainPcs, StopPcs
  <2>2. [s \in Servers |-> Append(req[Root][s], CloseMsg)] \in [Servers -> Seq(Nat)]
    BY <2>1 DEF NetType, CloseMsg
  <2>3. NetType'
    BY <1>4, <2>1, <2>2 DEF NetType, client_close
  <2>4. MainType'
    BY <1>4, <2>1, MoveType DEF client_close
  <2> QED
    BY <1>4, <2>3, <2>4, ServerUnchanged DEF TypeOK, client_close
<1>5. CASE CloseBarrier2
  <2>1. MainType'
    BY <1>5 DEF MainType, CloseBarrier2, opVars, MainPcs, StopPcs
  <2> QED
    BY <1>5, <2>1, NetUnchanged, ServerUnchanged DEF TypeOK, CloseBarrier2
<1> QED
  BY <1>1, <1>2, <1>3, <1>4, <1>5 DEF Collective

LEMMA TypeEnvironment ==
  ASSUME TypeOK, Environment
  PROVE  TypeOK'
<1> MainType /\ NetType /\ ServerType
  BY DEF TypeOK
<1>1. ASSUME NEW r \in Ranks, NEW S \in Targets[r], NEW F \in SUBSET (S \ {r}), Issue(r, S, F)
      PROVE  TypeOK'
  <2>1. S \subseteq Servers
    BY ConstantsAssumption
  <2> DEFINE sent == (S \ {r}) \ F
  <2>2. op[r] + 1 \in Nat
    BY DEF MainType
  <2>3. [s \in Servers |-> IF s \in sent THEN Append(req[r][s], op[r] + 1) ELSE req[r][s]]
          \in [Servers -> Seq(Nat)]
    BY <2>2 DEF NetType
  <2>4. NetType'
    BY <1>1, <2>3 DEF NetType, Issue
  <2>5. (r \in S) \in BOOLEAN
    OBVIOUS
  <2>6. loc' \in [Ranks -> BOOLEAN] /\ commit' \in [Ranks -> BOOLEAN]
    BY <1>1, <2>5 DEF Issue, MainType
  <2>7. MainType'
    BY <1>1, <2>1, <2>2, <2>6 DEF MainType, Issue, MainPcs, OpPcs
  <2> QED
    BY <1>1, <2>4, <2>7, ServerUnchanged DEF TypeOK, Issue
<1>2. ASSUME NEW r \in Ranks, EnterCommit(r) \/ EnterClose(r) \/ SpuriousClientWakeup(r)
      PROVE  TypeOK'
  <2>1. "cbar1" \in MainPcs /\ "bar1" \in MainPcs /\ "selfwoken" \in MainPcs
    BY DEF MainPcs, OpPcs
  <2> QED
    BY <1>2, <2>1, MoveType, NetUnchanged, ServerUnchanged
    DEF TypeOK, EnterCommit, EnterClose, SpuriousClientWakeup
<1>3. ASSUME NEW s \in Servers, SpuriousWorkerWakeup(s) PROVE TypeOK'
  <2>1. ServerType'
    BY <1>3 DEF SpuriousWorkerWakeup, ServerType, WorkPcs
  <2> QED
    BY <1>3, <2>1, MainUnchanged, NetUnchanged DEF TypeOK, SpuriousWorkerWakeup
<1> QED
  BY <1>1, <1>2, <1>3 DEF Environment

LEMMA TypeStutter ==
  ASSUME TypeOK, UNCHANGED vars
  PROVE  TypeOK'
BY MainUnchanged, NetUnchanged, ServerUnchanged DEF TypeOK, vars

LEMMA TypeNext == TypeOK /\ [Next]_vars => TypeOK'
BY TypeMain, TypeListener, TypeWorker, TypeCollective, TypeEnvironment, TypeStutter
DEF Next, Finished

(* The variables of the threads, the network and the servers keep their      *)
(* types in every behaviour of the request path.                             *)
THEOREM TypeCorrect == Spec => []TypeOK
<1>1. Init => TypeOK
  BY TypeInit
<1>2. TypeOK /\ [Next]_vars => TypeOK'
  BY TypeNext
<1> QED
  BY <1>1, <1>2, PTL DEF Spec

-----------------------------------------------------------------------------
(* The condition variables. *)

(* The two halves of NoLostWakeup: the worker's and the client's. *)
WorkerAwake(s) == wpc[s] = "asleep" => queue[s] = <<>>
ClientAwake(s) == cpc[s] = "selfwait" => rmsg[s] = NULL

LEMMA AwakeUnchanged ==
  ASSUME NEW s \in Servers
  PROVE  /\ WorkerAwake(s) /\ UNCHANGED <<wpc, queue>> => WorkerAwake(s)'
         /\ ClientAwake(s) /\ UNCHANGED <<cpc, rmsg>> => ClientAwake(s)'
BY DEF WorkerAwake, ClientAwake

(* Moving one rank anywhere but to the wait keeps the client half. *)
LEMMA ClientMoves ==
  ASSUME TypeOK, NEW s \in Servers, ClientAwake(s), NEW r \in Ranks, NEW pc,
         pc # "selfwait", cpc' = [cpc EXCEPT ![r] = pc], UNCHANGED rmsg
  PROVE  ClientAwake(s)'
BY ConstantsAssumption DEF ClientAwake, TypeOK, MainType

LEMMA AddWorkAwake ==
  ASSUME TypeOK, NEW s \in Servers, WorkerAwake(s), NEW t \in Servers, NEW item,
         range_server_add_work(t, item)
  PROVE  WorkerAwake(s)'
BY DEF range_server_add_work, WorkerAwake, TypeOK, ServerType

LEMMA GetWorkAwake ==
  ASSUME TypeOK, NEW s \in Servers, WorkerAwake(s), NEW t \in Servers, get_work(t)
  PROVE  WorkerAwake(s)'
BY DEF get_work, WorkerAwake, TypeOK, ServerType

LEMMA WorkerAwakeNext ==
  ASSUME TypeOK, Next, NEW s \in Servers, WorkerAwake(s)
  PROVE  WorkerAwake(s)'
<1> wpc \in [Servers -> WorkPcs] /\ queue \in [Servers -> Seq(Item)]
  BY DEF TypeOK, ServerType
<1>1. ASSUME NEW r \in Ranks, MainThread(r) PROVE WorkerAwake(s)'
  <2>1. ASSUME r \in Servers, LocalAddWork(r) PROVE WorkerAwake(s)'
    BY <2>1, AddWorkAwake DEF LocalAddWork
  <2>2. ASSUME r \in Servers, range_server_stop(r) PROVE WorkerAwake(s)'
    BY <2>2 DEF range_server_stop, serverVars, WorkerAwake
  <2>3. CASE UNCHANGED <<wpc, queue>>
    BY <2>3, AwakeUnchanged
  <2> QED
    BY <1>1, <2>1, <2>2, <2>3
    DEF MainThread, SendDone, ReceiveSize, ReceiveBody, get_msg_self, TakeMsg, serverVars
<1>2. ASSUME NEW t \in Servers, Listener(t) PROVE WorkerAwake(s)'
  BY <1>2, AddWorkAwake, AwakeUnchanged
  DEF Listener, ReceiveWorkSize, receive_rangesrv_work, ListenerAddWork
<1>3. ASSUME NEW t \in Servers, Worker(t) PROVE WorkerAwake(s)'
  <2>1. CASE get_work(t)
    BY <2>1, GetWorkAwake
  <2>2. CASE ~get_work(t) /\ (WorkerLock(t) \/ WorkerWoken(t) \/ FreeItem(t))
    BY <2>2 DEF WorkerLock, WorkerWoken, FreeItem, WorkerAwake
  <2>3. CASE /\ UNCHANGED queue
             /\ \E pc : pc # "asleep" /\ wpc' = [wpc EXCEPT ![t] = pc]
    BY <2>3 DEF WorkerAwake
  <2> QED
    BY <1>3, <2>1, <2>2, <2>3
    DEF Worker, HandleItem, RespondLocal, SendSize, SendBody, BodyReceived, WorkerCancelled
<1>4. CASE Collective
  BY <1>4, AwakeUnchanged
  DEF Collective, CommitBarrier1, CommitBarrier2, CloseBarrier1, client_close, CloseBarrier2,
      serverVars
<1>5. CASE Environment
  <2>1. ASSUME NEW t \in Servers, SpuriousWorkerWakeup(t) PROVE WorkerAwake(s)'
    BY <2>1 DEF SpuriousWorkerWakeup, WorkerAwake
  <2> QED
    BY <1>5, <2>1, AwakeUnchanged
    DEF Environment, Issue, EnterCommit, EnterClose, SpuriousClientWakeup, serverVars
<1>6. CASE Finished
  BY <1>6, AwakeUnchanged DEF Finished, vars, serverVars
<1> QED
  BY <1>1, <1>2, <1>3, <1>4, <1>5, <1>6 DEF Next

LEMMA ClientAwakeNext ==
  ASSUME TypeOK, Next, NEW s \in Servers, ClientAwake(s)
  PROVE  ClientAwake(s)'
<1> /\ s \in Ranks /\ Servers \subseteq Ranks /\ Root \in Ranks
    /\ cpc \in [Ranks -> MainPcs] /\ rmsg \in [Servers -> Nat]
  BY ConstantsAssumption DEF TypeOK, MainType, ServerType
<1>1. ASSUME NEW r \in Ranks, MainThread(r) PROVE ClientAwake(s)'
  <2>1. ASSUME r \in Servers, get_msg_self(r) PROVE ClientAwake(s)'
    <3>1. CASE TakeMsg(r)
      BY <2>1, <3>1 DEF TakeMsg, ClientAwake, AfterLocal
    <3>2. CASE ~TakeMsg(r)
      BY <2>1, <3>2 DEF get_msg_self, ClientAwake, serverVars
    <3> QED
      BY <3>1, <3>2
  <2>2. ASSUME r \in Servers, LocalAddWork(r) \/ range_server_stop(r) PROVE ClientAwake(s)'
    <3>1. UNCHANGED rmsg /\ \E pc : pc # "selfwait" /\ cpc' = [cpc EXCEPT ![r] = pc]
      BY <2>2 DEF LocalAddWork, range_server_stop, serverVars
    <3> QED
      BY <3>1, ClientMoves
  <2>3. CASE SendDone(r)
    BY <2>3, ClientMoves DEF SendDone, AfterRemote, serverVars
  <2>4. ASSUME NEW t \in Servers, ReceiveSize(r, t) \/ ReceiveBody(r, t) PROVE ClientAwake(s)'
    <3>1. UNCHANGED rmsg /\ \E pc : pc # "selfwait" /\ cpc' = [cpc EXCEPT ![r] = pc]
      BY <2>4 DEF ReceiveSize, ReceiveBody, AfterRemote, serverVars
    <3> QED
      BY <3>1, ClientMoves
  <2> QED
    BY <1>1, <2>1, <2>2, <2>3, <2>4 DEF MainThread
<1>2. ASSUME NEW t \in Servers, Listener(t) PROVE ClientAwake(s)'
  BY <1>2, AwakeUnchanged
  DEF Listener, ReceiveWorkSize, receive_rangesrv_work, ListenerAddWork, mainVars
<1>3. ASSUME NEW t \in Servers, Worker(t) PROVE ClientAwake(s)'
  <2>1. CASE RespondLocal(t)
    BY <2>1 DEF RespondLocal, ClientAwake
  <2>2. CASE UNCHANGED <<cpc, rmsg>>
    BY <2>2, AwakeUnchanged
  <2> QED
    BY <1>3, <2>1, <2>2
    DEF Worker, WorkerLock, WorkerWoken, FreeItem, HandleItem, SendSize, SendBody,
        BodyReceived, WorkerCancelled, mainVars
<1>4. CASE Collective
  BY <1>4 DEF Collective, CommitBarrier1, CommitBarrier2, CloseBarrier1, client_close,
              CloseBarrier2, Stopping, serverVars, ClientAwake
<1>5. CASE Environment
  <2>1. ASSUME NEW r \in Ranks, UNCHANGED rmsg,
               \E pc : pc # "selfwait" /\ cpc' = [cpc EXCEPT ![r] = pc]
        PROVE  ClientAwake(s)'
    BY <2>1, ClientMoves
  <2> QED
    BY <1>5, <2>1, AwakeUnchanged
    DEF Environment, Issue, EnterCommit, EnterClose, SpuriousClientWakeup,
        SpuriousWorkerWakeup, serverVars, mainVars
<1>6. CASE Finished
  BY <1>6, AwakeUnchanged DEF Finished, vars, serverVars, mainVars
<1> QED
  BY <1>1, <1>2, <1>3, <1>4, <1>5, <1>6 DEF Next

(* No wakeup is lost, whatever fails: the worker sleeps on work_ready_cv     *)
(* only while the work queue is empty, a client sleeps on                    *)
(* receive_msg_ready_cv only while md->receive_msg is NULL.                  *)
THEOREM WakeupsKept == Spec => []NoLostWakeup
<1>1. NoLostWakeup <=> \A s \in Servers : WorkerAwake(s) /\ ClientAwake(s)
  BY DEF NoLostWakeup, WorkerAwake, ClientAwake
<1>2. Init => NoLostWakeup
  BY DEF Init, NoLostWakeup
<1>3. TypeOK /\ NoLostWakeup /\ [Next]_vars => NoLostWakeup'
  <2> SUFFICES ASSUME TypeOK, NoLostWakeup, [Next]_vars, NEW s \in Servers
               PROVE  WorkerAwake(s)' /\ ClientAwake(s)'
    BY DEF NoLostWakeup, WorkerAwake, ClientAwake
  <2>1. WorkerAwake(s) /\ ClientAwake(s)
    BY <1>1
  <2>2. CASE Next
    BY <2>1, <2>2, WorkerAwakeNext, ClientAwakeNext
  <2>3. CASE UNCHANGED vars
    BY <2>1, <2>3, AwakeUnchanged DEF vars, mainVars, serverVars
  <2> QED
    BY <2>2, <2>3
<1> QED
  BY <1>2, <1>3, TypeCorrect, PTL DEF Spec

-----------------------------------------------------------------------------
(* Sequences of one message, and the work queue. *)

LEMMA OneMessage ==
  ASSUME NEW x
  PROVE  /\ <<x>> # <<>> /\ Head(<<x>>) = x
         /\ Tail(<<x>>) = <<>> /\ Append(<<>>, x) = <<x>>
OBVIOUS

LEMMA AppendLast ==
  ASSUME NEW a \in Seq(Nat), NEW x \in Nat, \A i \in DOMAIN a : a[i] <= x
  PROVE  /\ \E i \in DOMAIN Append(a, x) : Append(a, x)[i] = x
         /\ \A i \in DOMAIN Append(a, x) : Append(a, x)[i] <= x
<1>1. Len(a) \in Nat /\ DOMAIN a = 1..Len(a) /\ DOMAIN Append(a, x) = 1..Len(a) + 1
  OBVIOUS
<1>2. Append(a, x)[Len(a) + 1] = x /\ \A i \in 1..Len(a) : Append(a, x)[i] = a[i]
  OBVIOUS
<1> QED
  BY <1>1, <1>2

LEMMA HasNone == \A r : ~HasItem(<<>>, r)
BY DEF HasItem

LEMMA HasAppend ==
  ASSUME NEW q \in Seq(Item), NEW it \in Item, NEW r
  PROVE  HasItem(Append(q, it), r) <=> HasItem(q, r) \/ it.src = r
<1>1. Len(q) \in Nat /\ Len(Append(q, it)) = Len(q) + 1
  OBVIOUS
<1>2. \A i \in 1..Len(q) : Append(q, it)[i] = q[i]
  OBVIOUS
<1>3. Append(q, it)[Len(q) + 1] = it
  OBVIOUS
<1>4. ASSUME HasItem(Append(q, it), r), it.src # r PROVE HasItem(q, r)
  <2>1. PICK i \in 1..Len(q) + 1 : Append(q, it)[i].src = r
    BY <1>1, <1>4 DEF HasItem
  <2>2. i \in 1..Len(q)
    BY <1>1, <1>3, <1>4, <2>1
  <2> QED
    BY <1>2, <2>1, <2>2 DEF HasItem
<1>5. ASSUME HasItem(q, r) PROVE HasItem(Append(q, it), r)
  <2>1. PICK i \in 1..Len(q) : q[i].src = r
    BY <1>5 DEF HasItem
  <2>2. i \in 1..Len(Append(q, it)) /\ Append(q, it)[i].src = r
    BY <1>1, <1>2, <2>1
  <2> QED
    BY <2>2 DEF HasItem
<1>6. ASSUME it.src = r PROVE HasItem(Append(q, it), r)
  <2>1. Len(q) + 1 \in 1..Len(Append(q, it))
    BY <1>1
  <2> QED
    BY <1>3, <1>6, <2>1 DEF HasItem
<1> QED
  BY <1>4, <1>5, <1>6

LEMMA HasTail ==
  ASSUME NEW q \in Seq(Item), q # <<>>, NEW r
  PROVE  /\ HasItem(q, Head(q).src)
         /\ HasItem(q, r) /\ Head(q).src # r => HasItem(Tail(q), r)
         /\ HasItem(Tail(q), r) => \E i \in 2..Len(q) : q[i].src = r
<1>1. /\ Len(q) \in Nat /\ Len(q) >= 1 /\ Len(Tail(q)) = Len(q) - 1
      /\ Head(q) = q[1] /\ \A i \in 1..Len(q) - 1 : Tail(q)[i] = q[i + 1]
  BY HeadTailProperties, EmptySeq
<1>2. HasItem(q, Head(q).src)
  BY <1>1 DEF HasItem
<1>3. ASSUME HasItem(q, r), Head(q).src # r PROVE HasItem(Tail(q), r)
  <2>1. PICK i \in 1..Len(q) : q[i].src = r
    BY <1>3 DEF HasItem
  <2>2. i # 1 /\ i - 1 \in 1..Len(Tail(q)) /\ Tail(q)[i - 1] = q[i]
    BY <1>1, <1>3, <2>1
  <2> QED
    BY <2>1, <2>2 DEF HasItem
<1>4. ASSUME HasItem(Tail(q), r) PROVE \E i \in 2..Len(q) : q[i].src = r
  <2>1. PICK i \in 1..Len(q) - 1 : Tail(q)[i].src = r
    BY <1>1, <1>4 DEF HasItem
  <2>2. i + 1 \in 2..Len(q) /\ q[i + 1].src = r
    BY <1>1, <2>1
  <2> QED
    BY <2>2
<1> QED
  BY <1>2, <1>3, <1>4

-----------------------------------------------------------------------------
(* Using and keeping the invariant. *)

LEMMA InvParts ==
  ASSUME RequestPathInv, NEW r \in Ranks, NEW s \in Servers
  PROVE  RequestInv(r, s) /\ AppliedInv(r, s) /\ QueueInv(s)
BY DEF RequestPathInv

LEMMA InvTypes ==
  ASSUME RequestPathInv
  PROVE  /\ Reliable /\ MainType /\ NetType /\ ServerType
         /\ MutexInv /\ MainInv /\ CollectiveInv
BY DEF RequestPathInv, TypeOK

LEMMA ReliableKept == Reliable <=> Reliable'
BY DEF Reliable

(* A rank that is neither waiting for a response nor sending has no request *)
(* anywhere, but perhaps the close messages.                                *)
LEMMA Idle ==
  ASSUME RequestPathInv, NEW r \in Ranks, NEW s \in Servers,
         cpc[r] \notin RemotePcs \cup LocalPcs
  PROVE  /\ wait[r] = {}
         /\ ~InListener(r, s) /\ ~InQueue(r, s) /\ ~InWorker(r, s) /\ ~InSlot(r, s)
         /\ rsz[s][r] = <<>> /\ rbd[s][r] = <<>>
         /\ InReq(r, s) => /\ req[r][s] = <<CloseMsg>> /\ r = Root
                           /\ cpc[r] \in StopPcs \ {"closing"}
<1>1. wait[r] = {}
  BY InvTypes DEF MainInv
<1>2. RequestInv(r, s) /\ ~Expecting(r, s)
  BY <1>1, InvParts DEF Expecting
<1> QED
  BY <1>1, <1>2 DEF RequestInv

(* Where the main thread is while it waits for a response. *)
LEMMA WaitPlace ==
  ASSUME RequestPathInv, NEW r \in Ranks
  PROVE  /\ wait[r] # {} => cpc[r] \notin StopPcs /\ cpc[r] \notin LocalPcs /\ cpc[r] # "addself"
         /\ loc[r] => cpc[r] \notin LocalPcs /\ cpc[r] \notin StopPcs
         /\ cpc[r] \in LocalPcs => cpc[r] \notin StopPcs /\ cpc[r] # "addself"
         /\ cpc[r] \in RemotePcs \cup LocalPcs => op[r] > 0
<1>1. /\ wait[r] # {} => cpc[r] \in RemotePcs
      /\ loc[r] => cpc[r] \in RemotePcs \cup {"addself"}
      /\ cpc[r] \in OpPcs => op[r] > 0
  BY InvTypes DEF MainInv
<1> QED
  BY <1>1 DEF RemotePcs, LocalPcs, StopPcs, OpPcs

(* What a step does not touch stays as it was. *)
SameCell(q, t) ==
  /\ req'[q][t] = req[q][t] /\ rsz'[t][q] = rsz[t][q] /\ rbd'[t][q] = rbd[t][q]
  /\ cpc'[q] = cpc[q] /\ op'[q] = op[q] /\ wait'[q] = wait[q] /\ sized'[q] = sized[q]
  /\ asked'[q] = asked[q] /\ loc'[q] = loc[q]
  /\ lpc'[t] = lpc[t] /\ lmsg'[t] = lmsg[t] /\ queue'[t] = queue[t]
  /\ wpc'[t] = wpc[t] /\ witem'[t] = witem[t] /\ rmsg'[t] = rmsg[t]
  /\ applied'[t][q] = applied[t][q]

LEMMA CellKept ==
  ASSUME RequestPathInv, NEW q \in Ranks, NEW t \in Servers, SameCell(q, t)
  PROVE  RequestInv(q, t)' /\ AppliedInv(q, t)'
<1>1. RequestInv(q, t)'
  BY InvParts DEF SameCell, RequestInv, InReq, InListener, InQueue, InWorker, InSlot, NoResp, Expecting
<1>2. AppliedInv(q, t)'
  BY InvParts DEF SameCell, AppliedInv, InReq, InListener, InQueue, InWorker, InSlot, Done
<1> QED
  BY <1>1, <1>2

LEMMA QueueKept ==
  ASSUME RequestPathInv, UNCHANGED <<op, queue>>
  PROVE  \A t \in Servers : QueueInv(t)'
BY DEF RequestPathInv, QueueInv

LEMMA MutexKept ==
  ASSUME RequestPathInv, UNCHANGED <<wpc, held>>
  PROVE  MutexInv'
BY DEF RequestPathInv, MutexInv

LEMMA MainKept ==
  ASSUME RequestPathInv, UNCHANGED <<cpc, op, commit, loc, wait, sized, got, cancel>>
  PROVE  MainInv' /\ CollectiveInv'
BY DEF RequestPathInv, MainInv, CollectiveInv

(* The main threads move, but not into or out of a collective call. *)
LEMMA CollectiveKept ==
  ASSUME RequestPathInv, UNCHANGED <<commit, cancel>>,
         \A r \in Ranks : /\ cpc'[r] \in StopPcs <=> cpc[r] \in StopPcs
                          /\ cpc'[r] = "cbar2" <=> cpc[r] = "cbar2"
                          /\ commit[r] /\ cpc[r] \in LocalPcs \cup {"addself", "cbar2"}
                                => cpc'[r] \in LocalPcs \cup {"addself", "cbar2"}
  PROVE  CollectiveInv'
<1>1. CollectiveInv /\ Servers \subseteq Ranks
  BY InvTypes, ConstantsAssumption
<1>2. \A r \in Ranks : commit'[r] => cpc'[r] \in LocalPcs \cup {"addself", "cbar2"}
  BY <1>1 DEF CollectiveInv
<1>3. \A r \in Ranks : cpc'[r] = "cbar2" => commit'[r]
  BY <1>1 DEF CollectiveInv
<1>4. \A r, q \in Ranks : commit'[r] => commit'[q]
  BY <1>1 DEF CollectiveInv
<1>5. \A r, q \in Ranks : cpc'[r] \in StopPcs => cpc'[q] \in StopPcs
  BY <1>1 DEF CollectiveInv
<1>6. \A s \in Servers : cancel'[s] => cpc'[s] \in StopPcs
  BY <1>1 DEF CollectiveInv
<1> QED
  BY <1>2, <1>3, <1>4, <1>5, <1>6 DEF CollectiveInv

-----------------------------------------------------------------------------
(* The worker. *)

LEMMA SendSizeInv ==
  ASSUME RequestPathInv, TypeOK', NEW s \in Servers, SendSize(s)
  PROVE  RequestPathInv'
<1> DEFINE c == witem[s].src
<1>1. c \in Ranks /\ witem[s].id \in Nat
  BY ItemParts, InvTypes DEF ServerType
<1>2. /\ UNCHANGED <<cpc, op, commit, asked, loc, wait, sized, got, req, rbd>>
      /\ UNCHANGED <<lpc, lmsg, queue, held, witem, rmsg, cancel, applied>>
      /\ wpc' = [wpc EXCEPT ![s] = "body"]
      /\ rsz' = [rsz EXCEPT ![s][c] = Append(@, witem[s].id)]
      /\ wpc[s] = "respond" /\ c # s
  BY DEF SendSize, mainVars, opVars
<1>3. wpc'[s] = "body" /\ \A t \in Servers : t # s => wpc'[t] = wpc[t]
  BY <1>2, InvTypes DEF ServerType
<1>4. RequestInv(c, s) /\ AppliedInv(c, s) /\ InWorker(c, s)
  BY <1>1, <1>2, InvParts DEF InWorker
<1>5. rsz'[s][c] = <<op[c]>>
  <2>1. rsz[s][c] = <<>> /\ witem[s].id = op[c]
    BY <1>2, <1>4 DEF RequestInv
  <2> QED
    BY <1>1, <1>2, <2>1, InvTypes DEF NetType
<1>6. \A q \in Ranks, t \in Servers : q # c \/ t # s => rsz'[t][q] = rsz[t][q]
  BY <1>1, <1>2, InvTypes DEF NetType
<1>7. ASSUME NEW q \in Ranks, NEW t \in Servers PROVE RequestInv(q, t)'
  BY <1>2, <1>3, <1>4, <1>5, <1>6, InvParts, SMTT(20)
  DEF RequestInv, InReq, InListener, InQueue, InWorker, InSlot, NoResp, Expecting
<1>8. ASSUME NEW q \in Ranks, NEW t \in Servers PROVE AppliedInv(q, t)'
  BY <1>2, <1>3, <1>4, <1>5, <1>6, InvParts, SMTT(20)
  DEF AppliedInv, InReq, InListener, InQueue, InWorker, InSlot, Done
<1>9. MutexInv'
  BY <1>2, <1>3, InvTypes DEF MutexInv, BusyPcs
<1> QED
  BY <1>2, <1>7, <1>8, <1>9, QueueKept, MainKept, InvTypes, ReliableKept DEF RequestPathInv

LEMMA SendBodyInv ==
  ASSUME RequestPathInv, TypeOK', NEW s \in Servers, SendBody(s)
  PROVE  RequestPathInv'
<1> DEFINE c == witem[s].src
<1>1. c \in Ranks /\ witem[s].id \in Nat
  BY ItemParts, InvTypes DEF ServerType
<1>2. /\ UNCHANGED <<cpc, op, commit, asked, loc, wait, sized, got, req, rsz>>
      /\ UNCHANGED <<lpc, lmsg, queue, held, witem, rmsg, cancel, applied>>
      /\ wpc' = [wpc EXCEPT ![s] = IF Eager THEN "free" ELSE "sync"]
      /\ rbd' = [rbd EXCEPT ![s][c] = Append(@, witem[s].id)]
      /\ wpc[s] = "body"
  BY DEF SendBody, mainVars, opVars
<1>3. wpc'[s] \in {"free", "sync"} /\ \A t \in Servers : t # s => wpc'[t] = wpc[t]
  BY <1>2, InvTypes DEF ServerType
<1>4. RequestInv(c, s) /\ AppliedInv(c, s) /\ InWorker(c, s)
  BY <1>1, <1>2, InvParts DEF InWorker
<1>5. rbd'[s][c] = <<op[c]>>
  <2>1. rbd[s][c] = <<>> /\ witem[s].id = op[c]
    BY <1>2, <1>4 DEF RequestInv
  <2> QED
    BY <1>1, <1>2, <2>1, InvTypes DEF NetType
<1>6. \A q \in Ranks, t \in Servers : q # c \/ t # s => rbd'[t][q] = rbd[t][q]
  BY <1>1, <1>2, InvTypes DEF NetType
<1>7. ASSUME NEW q \in Ranks, NEW t \in Servers PROVE RequestInv(q, t)'
  BY <1>2, <1>3, <1>4, <1>5, <1>6, InvParts, SMTT(20)
  DEF RequestInv, InReq, InListener, InQueue, InWorker, InSlot, NoResp, Expecting
<1>8. ASSUME NEW q \in Ranks, NEW t \in Servers PROVE AppliedInv(q, t)'
  BY <1>2, <1>3, <1>4, <1>5, <1>6, InvParts, SMTT(20)
  DEF AppliedInv, InReq, InListener, InQueue, InWorker, InSlot, Done
<1>9. MutexInv'
  BY <1>2, <1>3, InvTypes DEF MutexInv, BusyPcs
<1> QED
  BY <1>2, <1>7, <1>8, <1>9, QueueKept, MainKept, InvTypes, ReliableKept DEF RequestPathInv

(* The worker moves to a place where it holds no request. *)
LEMMA WorkerRestsInv ==
  ASSUME RequestPathInv, TypeOK', NEW s \in Servers,
         BodyReceived(s) \/ WorkerCancelled(s) \/ SpuriousWorkerWakeup(s)
  PROVE  RequestPathInv'
<1>1. /\ UNCHANGED <<cpc, op, commit, asked, loc, wait, sized, got, req, rsz, rbd>>
      /\ UNCHANGED <<lpc, lmsg, queue, held, witem, rmsg, cancel, applied>>
  BY DEF BodyReceived, WorkerCancelled, SpuriousWorkerWakeup, mainVars, opVars, netVars
<1>2. /\ wpc'[s] \in {"free", "dead", "woken"} /\ \A t \in Servers : t # s => wpc'[t] = wpc[t]
      /\ wpc'[s] = "free" => wpc[s] = "sync"
      /\ wpc'[s] = "woken" => wpc[s] = "asleep"
  BY InvTypes DEF BodyReceived, WorkerCancelled, SpuriousWorkerWakeup, ServerType
<1>3. ASSUME NEW q \in Ranks, NEW t \in Servers PROVE RequestInv(q, t)'
  BY <1>1, <1>2, InvParts
  DEF RequestInv, InReq, InListener, InQueue, InWorker, InSlot, NoResp, Expecting
<1>4. ASSUME NEW q \in Ranks, NEW t \in Servers PROVE AppliedInv(q, t)'
  BY <1>1, <1>2, InvParts
  DEF AppliedInv, InReq, InListener, InQueue, InWorker, InSlot, Done
<1>5. MutexInv'
  BY <1>1, <1>2, InvTypes DEF MutexInv, BusyPcs
<1> QED
  BY <1>1, <1>3, <1>4, <1>5, QueueKept, MainKept, InvTypes, ReliableKept DEF RequestPathInv

LEMMA HandleItemInv ==
  ASSUME RequestPathInv, TypeOK', NEW s \in Servers, HandleItem(s)
  PROVE  RequestPathInv'
<1> DEFINE c == witem[s].src
<1>1. c \in Ranks /\ witem[s].id \in Nat
  BY ItemParts, InvTypes DEF ServerType
<1>2. /\ UNCHANGED <<cpc, op, commit, asked, loc, wait, sized, got, req, rsz, rbd>>
      /\ UNCHANGED <<lpc, lmsg, queue, held, witem, rmsg, cancel>>
      /\ wpc' = [wpc EXCEPT ![s] = "respond"]
      /\ applied' = [applied EXCEPT ![s][c] = Append(@, witem[s].id)]
      /\ wpc[s] = "handle"
  BY DEF HandleItem, mainVars, opVars, netVars
<1>3. wpc'[s] = "respond" /\ \A t \in Servers : t # s => wpc'[t] = wpc[t]
  BY <1>2, InvTypes DEF ServerType
<1>4. RequestInv(c, s) /\ AppliedInv(c, s) /\ InWorker(c, s)
  BY <1>1, <1>2, InvParts DEF InWorker
<1>5. witem[s].id = op[c] /\ Expecting(c, s)
  BY <1>4 DEF RequestInv
<1>6. \A q \in Ranks, t \in Servers : q # c \/ t # s => applied'[t][q] = applied[t][q]
  BY <1>1, <1>2, InvTypes DEF ServerType
<1>7. applied'[s][c] = Append(applied[s][c], op[c]) /\ applied[s][c] \in Seq(Nat) /\ op[c] \in Nat
  BY <1>1, <1>2, <1>5, InvTypes DEF ServerType, MainType
<1>8. Done(c, s)' /\ \A i \in DOMAIN applied'[s][c] : applied'[s][c][i] <= op[c]
  <2>1. \A i \in DOMAIN applied[s][c] : applied[s][c][i] <= op[c]
    BY <1>4 DEF AppliedInv
  <2>2. c' = c /\ op' = op
    BY <1>2
  <2> HIDE DEF c
  <2>3. /\ \E i \in DOMAIN Append(applied[s][c], op[c]) : Append(applied[s][c], op[c])[i] = op[c]
        /\ \A i \in DOMAIN Append(applied[s][c], op[c]) : Append(applied[s][c], op[c])[i] <= op[c]
    BY <1>7, <2>1, AppendLast, Zenon
  <2> QED
    BY <1>7, <2>2, <2>3, Zenon DEF Done
<1>9. ASSUME NEW q \in Ranks, NEW t \in Servers PROVE RequestInv(q, t)'
  BY <1>2, <1>3, <1>4, InvParts
  DEF RequestInv, InReq, InListener, InQueue, InWorker, InSlot, NoResp, Expecting
<1>10. AppliedInv(c, s)'
  <2>1. InReq(c, s) => s \notin wait[c]
    BY <1>1, <1>4, WaitPlace DEF RequestInv
  <2>2. ~InListener(c, s) /\ ~InQueue(c, s)
    BY <1>4 DEF RequestInv
  <2>3. s = c => ~loc[c] /\ cpc[c] # "addself"
    BY <1>1, <1>5, WaitPlace DEF Expecting
  <2> QED
    BY <1>2, <1>3, <1>8, <2>1, <2>2, <2>3
    DEF AppliedInv, InReq, InListener, InQueue, InWorker, InSlot
<1>11. ASSUME NEW q \in Ranks, NEW t \in Servers, q # c \/ t # s PROVE AppliedInv(q, t)'
  BY <1>2, <1>3, <1>6, <1>11, InvParts, SMTT(20)
  DEF AppliedInv, InReq, InListener, InQueue, InWorker, InSlot, Done
<1>12. MutexInv'
  BY <1>2, <1>3, InvTypes DEF MutexInv, BusyPcs
<1> QED
  BY <1>2, <1>9, <1>10, <1>11, <1>12, QueueKept, MainKept, InvTypes, ReliableKept DEF RequestPathInv

LEMMA RespondLocalInv ==
  ASSUME RequestPathInv, TypeOK', NEW s \in Servers, RespondLocal(s)
  PROVE  RequestPathInv'
<1>1. s \in Ranks
  BY ConstantsAssumption
<1>2. /\ UNCHANGED <<op, commit, asked, loc, wait, sized, got, req, rsz, rbd>>
      /\ UNCHANGED <<lpc, lmsg, queue, held, witem, cancel, applied>>
      /\ wpc[s] = "respond" /\ witem[s].src = s
  BY DEF RespondLocal, opVars, netVars
<1>3. /\ wpc'[s] = "free" /\ \A t \in Servers : t # s => wpc'[t] = wpc[t]
      /\ rmsg'[s] = witem[s].id /\ \A t \in Servers : t # s => rmsg'[t] = rmsg[t]
  BY InvTypes DEF RespondLocal, ServerType
<1>4. /\ cpc'[s] = IF cpc[s] = "selfwait" THEN "selfwoken" ELSE cpc[s]
      /\ \A r \in Ranks : r # s => cpc'[r] = cpc[r]
  BY <1>1, InvTypes DEF RespondLocal, MainType
<1>5. RequestInv(s, s) /\ AppliedInv(s, s) /\ InWorker(s, s)
  BY <1>1, <1>2, InvParts DEF InWorker
<1>6. witem[s].id = op[s] /\ cpc[s] \in LocalPcs /\ cpc[s] \notin StopPcs
  BY <1>1, <1>5, WaitPlace DEF RequestInv, Expecting
<1>7. op[s] # NULL /\ wait[s] = {} /\ ~loc[s] /\ cpc[s] # "addself"
  BY <1>1, <1>6, WaitPlace DEF NULL
<1>8. cpc'[s] \in LocalPcs \ {"selfwait"} /\ cpc'[s] \notin StopPcs /\ cpc'[s] # "addself"
  BY <1>4, <1>6 DEF LocalPcs, StopPcs
<1>9. RequestInv(s, s)'
  BY <1>2, <1>3, <1>5, <1>6, <1>7, <1>8
  DEF RequestInv, InReq, InListener, InQueue, InWorker, InSlot, NoResp, Expecting
<1>10. AppliedInv(s, s)'
  BY <1>2, <1>3, <1>5, <1>6, <1>7, <1>8
  DEF AppliedInv, InReq, InListener, InQueue, InWorker, InSlot, Done
<1>11. ASSUME NEW q \in Ranks, NEW t \in Servers, q # s \/ t # s PROVE RequestInv(q, t)'
  BY <1>2, <1>3, <1>4, <1>6, <1>7, <1>8, <1>11, InvParts
  DEF RequestInv, InReq, InListener, InQueue, InWorker, InSlot, NoResp, Expecting
<1>12. ASSUME NEW q \in Ranks, NEW t \in Servers, q # s \/ t # s PROVE AppliedInv(q, t)'
  BY <1>2, <1>3, <1>4, <1>6, <1>7, <1>8, <1>11, <1>12, InvParts
  DEF AppliedInv, InReq, InListener, InQueue, InWorker, InSlot, Done
<1>13. MutexInv'
  BY <1>2, <1>3, InvTypes DEF MutexInv, BusyPcs
<1>14. MainInv'
  <2>1. cpc[s] \in OpPcs /\ cpc'[s] \in OpPcs /\ cpc'[s] # "rbody"
    BY <1>6, <1>8 DEF OpPcs, LocalPcs
  <2> QED
    BY <1>1, <1>2, <1>4, <1>7, <1>8, <2>1, InvTypes DEF MainInv
<1>15. CollectiveInv'
  <2>1. cpc'[s] # "cbar2" /\ cpc[s] # "cbar2"
    BY <1>6, <1>8 DEF LocalPcs
  <2>2. \A r \in Ranks : /\ cpc'[r] \in StopPcs <=> cpc[r] \in StopPcs
                         /\ cpc'[r] = "cbar2" <=> cpc[r] = "cbar2"
                         /\ cpc'[r] \in LocalPcs \cup {"addself", "cbar2"}
                              <=> cpc[r] \in LocalPcs \cup {"addself", "cbar2"}
    BY <1>4, <1>6, <1>8, <2>1
  <2> QED
    BY <1>2, <2>2, CollectiveKept
<1> QED
  BY <1>2, <1>9, <1>10, <1>11, <1>12, <1>13, <1>14, <1>15, QueueKept, InvTypes, ReliableKept
  DEF RequestPathInv

(* The worker takes the oldest item: it is in no other place. *)
LEMMA GetWorkInv ==
  ASSUME RequestPathInv, TypeOK', NEW s \in Servers, get_work(s),
         wpc[s] \in {"lock", "woken", "free"},
         UNCHANGED <<mainVars, netVars, lpc, lmsg, rmsg, cancel, heap, applied>>
  PROVE  RequestPathInv'
<1> DEFINE Q == queue[s]
           h == Head(queue[s])
<1>1. Q \in Seq(Item) /\ Q # <<>> /\ h \in Item /\ h.src \in Ranks
  BY InvTypes, HeadTailProperties, ItemParts DEF ServerType, get_work
<1>2. UNCHANGED <<cpc, op, commit, asked, loc, wait, sized, got, req, rsz, rbd>>
  BY DEF mainVars, opVars, netVars
<1>3. /\ wpc'[s] = "handle" /\ \A t \in Servers : t # s => wpc'[t] = wpc[t]
      /\ witem'[s] = h /\ \A t \in Servers : t # s => witem'[t] = witem[t]
      /\ queue'[s] = Tail(Q) /\ \A t \in Servers : t # s => queue'[t] = queue[t]
      /\ held'[s] /\ \A t \in Servers : t # s => held'[t] = held[t]
  BY InvTypes DEF get_work, ServerType
<1>4. /\ Len(Q) \in Nat /\ Len(Q) >= 1 /\ h = Q[1] /\ Len(Tail(Q)) = Len(Q) - 1
      /\ \A i \in 1..Len(Q) - 1 : Tail(Q)[i] = Q[i + 1]
  BY <1>1, HeadTailProperties, EmptySeq
<1>5. QueueInv(s) /\ InQueue(h.src, s) /\ RequestInv(h.src, s) /\ AppliedInv(h.src, s)
  BY <1>1, HasTail, InvParts DEF InQueue
<1>6. h.id = op[h.src] /\ \A i \in 2..Len(Q) : Q[i].src # h.src
  BY <1>4, <1>5 DEF QueueInv
<1>7. ~HasItem(Tail(Q), h.src)
  BY <1>1, <1>6, HasTail
<1>8. \A r : r # h.src => (HasItem(Tail(Q), r) <=> HasItem(Q, r))
  BY <1>1, <1>4, HasTail DEF HasItem
<1>9. QueueInv(s)'
  <2>1. \A i \in 1..Len(Tail(Q)) : i + 1 \in 1..Len(Q) /\ Tail(Q)[i] = Q[i + 1]
    BY <1>4
  <2> QED
    BY <1>2, <1>3, <1>4, <1>5, <2>1 DEF QueueInv
<1>10. ASSUME NEW t \in Servers, t # s PROVE QueueInv(t)'
  BY <1>2, <1>3, <1>10, InvTypes DEF RequestPathInv, QueueInv
<1> HIDE DEF Q, h
<1>11. ASSUME NEW q \in Ranks, NEW t \in Servers, t # s PROVE RequestInv(q, t)' /\ AppliedInv(q, t)'
  BY <1>2, <1>3, <1>11, CellKept DEF SameCell
<1>12. ASSUME NEW q \in Ranks PROVE RequestInv(q, s)'
  <2>1. InQueue(q, s)' => InQueue(q, s) /\ q # h.src
    BY <1>3, <1>7, <1>8 DEF InQueue, Q
  <2>2. InWorker(q, s)' <=> q = h.src
    BY <1>3 DEF InWorker
  <2>3. RequestInv(q, s)
    BY InvParts
  <2> QED
    BY <1>2, <1>3, <1>5, <1>6, <2>1, <2>2, <2>3
    DEF RequestInv, InReq, InListener, InSlot, NoResp, Expecting
<1>13. ASSUME NEW q \in Ranks PROVE AppliedInv(q, s)'
  <2>1. InQueue(q, s)' => InQueue(q, s)
    BY <1>3, <1>7, <1>8 DEF InQueue, Q
  <2>2. AppliedInv(q, s)
    BY InvParts
  <2> QED
    BY <1>2, <1>3, <1>5, <2>1, <2>2 DEF AppliedInv, InReq, InListener, InWorker, InSlot, Done
<1>14. MutexInv'
  BY <1>3, InvTypes DEF MutexInv, BusyPcs
<1> QED
  BY <1>2, <1>9, <1>10, <1>11, <1>12, <1>13, <1>14, MainKept, InvTypes, ReliableKept
  DEF RequestPathInv

(* The worker finds no work. *)
LEMMA NoWorkInv ==
  ASSUME RequestPathInv, TypeOK', NEW s \in Servers, ~get_work(s),
         WorkerLock(s) \/ WorkerWoken(s) \/ FreeItem(s)
  PROVE  RequestPathInv'
<1>1. /\ UNCHANGED <<cpc, op, commit, asked, loc, wait, sized, got, req, rsz, rbd>>
      /\ UNCHANGED <<lpc, lmsg, rmsg, cancel, applied, queue>>
  BY DEF WorkerLock, WorkerWoken, FreeItem, mainVars, opVars, netVars
<1>2. /\ wpc[s] \in {"lock", "woken", "free"} /\ wpc'[s] \in {"asleep", "lock"}
      /\ \A t \in Servers : t # s => wpc'[t] = wpc[t] /\ held'[t] = held[t] /\ witem'[t] = witem[t]
  BY InvTypes DEF WorkerLock, WorkerWoken, FreeItem, ServerType
<1>3. ~held'[s]
  BY InvTypes DEF WorkerLock, WorkerWoken, FreeItem, ServerType
<1>4. ASSUME NEW q \in Ranks, NEW t \in Servers PROVE RequestInv(q, t)'
  BY <1>1, <1>2, InvParts
  DEF RequestInv, InReq, InListener, InQueue, InWorker, InSlot, NoResp, Expecting
<1>5. ASSUME NEW q \in Ranks, NEW t \in Servers PROVE AppliedInv(q, t)'
  BY <1>1, <1>2, InvParts
  DEF AppliedInv, InReq, InListener, InQueue, InWorker, InSlot, Done
<1>6. MutexInv'
  BY <1>1, <1>2, <1>3, InvTypes DEF MutexInv, BusyPcs
<1> QED
  BY <1>1, <1>4, <1>5, <1>6, QueueKept, MainKept, InvTypes, ReliableKept DEF RequestPathInv

LEMMA WorkerInv ==
  ASSUME RequestPathInv, TypeOK', NEW s \in Servers, Worker(s)
  PROVE  RequestPathInv'
<1>1. CASE WorkerLock(s) \/ WorkerWoken(s) \/ FreeItem(s)
  <2>1. CASE get_work(s)
    BY <1>1, <2>1, GetWorkInv DEF WorkerLock, WorkerWoken, FreeItem
  <2> QED
    BY <1>1, <2>1, NoWorkInv
<1> QED
  BY <1>1, HandleItemInv, RespondLocalInv, SendSizeInv, SendBodyInv, WorkerRestsInv DEF Worker

-----------------------------------------------------------------------------
(* The listener, and putting work on the queue. *)

LEMMA AddWorkFacts ==
  ASSUME RequestPathInv, NEW s \in Servers, NEW it \in Item, range_server_add_work(s, it),
         ~InQueue(it.src, s), it.id = op[it.src], UNCHANGED <<op, held>>
  PROVE  /\ \A r : HasItem(queue'[s], r) <=> HasItem(queue[s], r) \/ it.src = r
         /\ \A t \in Servers : t # s => queue'[t] = queue[t] /\ wpc'[t] = wpc[t]
         /\ wpc'[s] = wpc[s] \/ (wpc[s] = "asleep" /\ wpc'[s] = "woken")
         /\ \A t \in Servers : QueueInv(t)'
         /\ MutexInv'
<1> DEFINE Q == queue[s]
<1>1. Q \in Seq(Item) /\ queue'[s] = Append(Q, it) /\ \A t \in Servers : t # s => queue'[t] = queue[t]
  BY InvTypes DEF range_server_add_work, ServerType
<1>2. /\ \A t \in Servers : t # s => wpc'[t] = wpc[t]
      /\ wpc'[s] = wpc[s] \/ (wpc[s] = "asleep" /\ wpc'[s] = "woken")
  BY InvTypes DEF range_server_add_work, ServerType
<1>3. \A r : HasItem(queue'[s], r) <=> HasItem(Q, r) \/ it.src = r
  BY <1>1, HasAppend
<1>4. QueueInv(s)'
  <2>1. /\ Len(Q) \in Nat /\ Len(Append(Q, it)) = Len(Q) + 1
        /\ Append(Q, it)[Len(Q) + 1] = it
        /\ \A i \in 1..Len(Q) : Append(Q, it)[i] = Q[i]
    BY <1>1
  <2>2. \A i \in 1..Len(Q) : Q[i].src # it.src
    BY DEF InQueue, HasItem
  <2>3. \A i \in 1..Len(Q) + 1 : i = Len(Q) + 1 \/ i \in 1..Len(Q)
    BY <2>1
  <2>4. QueueInv(s)
    BY DEF RequestPathInv
  <2> QED
    BY <1>1, <2>1, <2>2, <2>3, <2>4 DEF QueueInv
<1>5. \A t \in Servers : t # s => QueueInv(t)'
  BY <1>1 DEF RequestPathInv, QueueInv
<1>6. MutexInv'
  BY <1>2, InvTypes DEF MutexInv, BusyPcs
<1> QED
  BY <1>1, <1>2, <1>3, <1>4, <1>5, <1>6

LEMMA ListenerAddWorkInv ==
  ASSUME RequestPathInv, TypeOK', NEW s \in Servers, ListenerAddWork(s)
  PROVE  RequestPathInv'
<1> DEFINE c == lmsg[s].src
<1>1. c \in Ranks /\ lmsg[s] \in Item
  BY ItemParts, InvTypes DEF ServerType
<1>2. /\ UNCHANGED <<cpc, op, commit, asked, loc, wait, sized, got, req, rsz, rbd>>
      /\ UNCHANGED <<held, witem, rmsg, cancel, applied>>
      /\ lpc[s] = "add" /\ range_server_add_work(s, lmsg[s])
  BY DEF ListenerAddWork, mainVars, opVars, netVars
<1>3. /\ lpc'[s] = "recv"
      /\ \A t \in Servers : t # s => lpc'[t] = lpc[t] /\ lmsg'[t] = lmsg[t]
  BY InvTypes DEF ListenerAddWork, ServerType
<1>4. RequestInv(c, s) /\ AppliedInv(c, s) /\ InListener(c, s)
  BY <1>1, <1>2, InvParts DEF InListener
<1>5. lmsg[s].id = op[c] /\ ~InQueue(c, s) /\ s \in wait[c] \ sized[c] /\ c # s
  <2>1. c \notin wait[c]
    BY <1>1, InvTypes DEF MainInv
  <2> QED
    BY <1>4, <2>1 DEF RequestInv
<1>6. /\ \A r : HasItem(queue'[s], r) <=> HasItem(queue[s], r) \/ c = r
      /\ \A t \in Servers : t # s => queue'[t] = queue[t] /\ wpc'[t] = wpc[t]
      /\ wpc'[s] = wpc[s] \/ (wpc[s] = "asleep" /\ wpc'[s] = "woken")
      /\ \A t \in Servers : QueueInv(t)'
      /\ MutexInv'
  BY <1>1, <1>2, <1>5, AddWorkFacts
<1>7. ASSUME NEW q \in Ranks, NEW t \in Servers, t # s PROVE RequestInv(q, t)' /\ AppliedInv(q, t)'
  BY <1>2, <1>3, <1>6, <1>7, CellKept DEF SameCell
<1>8. ASSUME NEW q \in Ranks PROVE RequestInv(q, s)'
  <2>1. InQueue(q, s)' <=> InQueue(q, s) \/ q = c
    BY <1>6 DEF InQueue
  <2>2. ~InListener(q, s)' /\ (InWorker(q, s)' <=> InWorker(q, s))
    BY <1>2, <1>3, <1>6 DEF InListener, InWorker
  <2>3. RequestInv(q, s)
    BY InvParts
  <2> QED
    BY <1>2, <1>3, <1>4, <1>5, <1>6, <2>1, <2>2, <2>3 DEF RequestInv, InReq, InSlot, NoResp, Expecting
<1>9. ASSUME NEW q \in Ranks PROVE AppliedInv(q, s)'
  <2>1. InQueue(q, s)' <=> InQueue(q, s) \/ q = c
    BY <1>6 DEF InQueue
  <2>2. AppliedInv(q, s) /\ ~Done(c, s)
    BY <1>4, InvParts DEF AppliedInv
  <2> QED
    BY <1>2, <1>3, <1>4, <1>6, <2>1, <2>2 DEF AppliedInv, InReq, InListener, InSlot, Done
<1> QED
  BY <1>2, <1>6, <1>7, <1>8, <1>9, MainKept, InvTypes, ReliableKept DEF RequestPathInv

(* A size on its own changes no place of a request. *)
LEMMA ReceiveWorkSizeInv ==
  ASSUME RequestPathInv, TypeOK', NEW s \in Servers, NEW r \in Ranks, ReceiveWorkSize(s, r)
  PROVE  RequestPathInv'
<1>1. /\ UNCHANGED <<cpc, op, commit, asked, loc, wait, sized, got, req, rsz, rbd>>
      /\ UNCHANGED <<queue, held, wpc, witem, rmsg, cancel, applied>>
      /\ lpc[s] = "recv"
  BY DEF ReceiveWorkSize, mainVars, opVars, netVars
<1>2. /\ \A t \in Servers : t # s => lpc'[t] = lpc[t] /\ lmsg'[t] = lmsg[t]
      /\ lpc'[s] = "body"
  BY InvTypes DEF ReceiveWorkSize, ServerType
<1>3. \A q, t : t \in Servers => (InListener(q, t)' <=> InListener(q, t))
  BY <1>1, <1>2 DEF InListener
<1>4. ASSUME NEW q \in Ranks, NEW t \in Servers PROVE RequestInv(q, t)' /\ AppliedInv(q, t)'
  <2>1. CASE t # s
    BY <1>1, <1>2, <2>1, CellKept DEF SameCell
  <2>2. CASE t = s
    <3>1. RequestInv(q, s)'
      BY <1>1, <1>2, <1>3, InvParts
      DEF RequestInv, InReq, InListener, InQueue, InWorker, InSlot, NoResp, Expecting
    <3>2. AppliedInv(q, s)'
      BY <1>1, <1>2, <1>3, InvParts
      DEF AppliedInv, InReq, InListener, InQueue, InWorker, InSlot, Done
    <3> QED BY <2>2, <3>1, <3>2
  <2> QED BY <2>1, <2>2
<1> QED
  BY <1>1, <1>4, QueueKept, MutexKept, MainKept, InvTypes, ReliableKept DEF RequestPathInv

LEMMA ReceiveWorkInv ==
  ASSUME RequestPathInv, TypeOK', NEW s \in Servers, NEW r \in Ranks, receive_rangesrv_work(s, r)
  PROVE  RequestPathInv'
<1>1. /\ UNCHANGED <<cpc, op, commit, asked, loc, wait, sized, got, rsz, rbd>>
      /\ UNCHANGED <<queue, held, wpc, witem, rmsg, cancel, applied>>
      /\ lpc[s] = "body" /\ lmsg[s].src = r /\ InReq(r, s)
  BY DEF receive_rangesrv_work, InReq
<1>2. /\ req'[r][s] = Tail(req[r][s])
      /\ \A q \in Ranks, t \in Servers : q # r \/ t # s => req'[q][t] = req[q][t]
  BY InvTypes DEF receive_rangesrv_work, NetType
<1>3. /\ \A t \in Servers : t # s => lpc'[t] = lpc[t] /\ lmsg'[t] = lmsg[t]
      /\ \/ lpc'[s] \in {"recv", "done"}
         \/ /\ lpc'[s] = "add" /\ lmsg'[s] = [src |-> r, id |-> Head(req[r][s])]
            /\ Head(req[r][s]) # CloseMsg
  <2>1. [lmsg[s] EXCEPT !.id = Head(req[r][s])] = [src |-> r, id |-> Head(req[r][s])]
    BY <1>1, InvTypes DEF ServerType, Item
  <2> QED BY <2>1, InvTypes DEF receive_rangesrv_work, ServerType
<1>4. RequestInv(r, s) /\ AppliedInv(r, s)
  BY InvParts
<1>5. req'[r][s] = <<>>
  BY <1>1, <1>2, <1>4, OneMessage DEF RequestInv
<1>6. lpc'[s] = "add" =>
        /\ lmsg'[s].src = r /\ lmsg'[s].id = op[r] /\ s \in wait[r] \ sized[r]
        /\ ~InQueue(r, s) /\ ~InWorker(r, s) /\ NoResp(r, s) /\ ~Done(r, s)
  <2> SUFFICES ASSUME lpc'[s] = "add"
               PROVE  /\ lmsg'[s].src = r /\ lmsg'[s].id = op[r] /\ s \in wait[r] \ sized[r]
                      /\ ~InQueue(r, s) /\ ~InWorker(r, s) /\ NoResp(r, s) /\ ~Done(r, s)
    OBVIOUS
  <2>1. Head(req[r][s]) # CloseMsg /\ lmsg'[s].src = r /\ lmsg'[s].id = Head(req[r][s])
    BY <1>3
  <2>2. req[r][s] # <<CloseMsg>>
    BY <2>1, OneMessage
  <2>3. /\ req[r][s] = <<op[r]>> /\ s \in wait[r] \ sized[r]
        /\ ~InQueue(r, s) /\ ~InWorker(r, s) /\ NoResp(r, s)
    BY <1>1, <1>4, <2>2 DEF RequestInv
  <2>4. ~Done(r, s)
    BY <1>1, <1>4, <2>3 DEF AppliedInv
  <2> QED
    BY <2>1, <2>3, <2>4, OneMessage
<1>7. ASSUME NEW q \in Ranks, NEW t \in Servers PROVE RequestInv(q, t)'
  <2>1. t # s => InListener(q, t)' = InListener(q, t)
    BY <1>3 DEF InListener
  <2>2. InListener(q, s)' => q = r /\ lpc'[s] = "add"
    BY <1>6 DEF InListener
  <2> QED
    BY <1>1, <1>2, <1>3, <1>5, <1>6, <2>1, <2>2, InvParts
    DEF RequestInv, InReq, InQueue, InWorker, InSlot, NoResp, Expecting
<1>8. ASSUME NEW q \in Ranks, NEW t \in Servers PROVE AppliedInv(q, t)'
  <2>1. t # s => InListener(q, t)' = InListener(q, t)
    BY <1>3 DEF InListener
  <2>2. InListener(q, s)' => q = r /\ lpc'[s] = "add"
    BY <1>6 DEF InListener
  <2> QED
    BY <1>1, <1>2, <1>3, <1>5, <1>6, <2>1, <2>2, InvParts
    DEF AppliedInv, InReq, InQueue, InWorker, InSlot, Done
<1> QED
  BY <1>1, <1>7, <1>8, QueueKept, MutexKept, MainKept, InvTypes, ReliableKept DEF RequestPathInv

LEMMA ListenerInv ==
  ASSUME RequestPathInv, TypeOK', NEW s \in Servers, Listener(s)
  PROVE  RequestPathInv'
BY ListenerAddWorkInv, ReceiveWorkSizeInv, ReceiveWorkInv DEF Listener

-----------------------------------------------------------------------------
(* The main thread. *)

(* The cells of the other ranks stay as they were. *)
LEMMA OtherRanks ==
  ASSUME RequestPathInv, NEW r \in Ranks, UNCHANGED serverVars,
         \A q \in Ranks : q # r =>
           /\ cpc'[q] = cpc[q] /\ op'[q] = op[q] /\ wait'[q] = wait[q] /\ sized'[q] = sized[q]
           /\ asked'[q] = asked[q] /\ loc'[q] = loc[q]
           /\ \A t \in Servers : /\ req'[q][t] = req[q][t]
                                 /\ rsz'[t][q] = rsz[t][q] /\ rbd'[t][q] = rbd[t][q]
  PROVE  \A q \in Ranks, t \in Servers : q # r => RequestInv(q, t)' /\ AppliedInv(q, t)'
<1> SUFFICES ASSUME NEW q \in Ranks, NEW t \in Servers, q # r
             PROVE  RequestInv(q, t)' /\ AppliedInv(q, t)'
  OBVIOUS
<1>1. SameCell(q, t)
  BY DEF SameCell, serverVars
<1> QED
  BY <1>1, CellKept

LEMMA SendDoneInv ==
  ASSUME RequestPathInv, TypeOK', NEW r \in Ranks, SendDone(r)
  PROVE  RequestPathInv'
<1>1. UNCHANGED <<op, commit, asked, loc, wait, sized, got, req, rsz, rbd, serverVars>>
  BY DEF SendDone, opVars, netVars
<1>2. /\ cpc[r] = "send" /\ \A q \in Ranks : q # r => cpc'[q] = cpc[q]
      /\ cpc'[r] = IF wait[r] # {} THEN "rsize" ELSE IF loc[r] THEN "addself" ELSE "app"
  BY InvTypes DEF SendDone, AfterRemote, MainType
<1>3. cpc'[r] \in {"rsize", "addself", "app"}
  BY <1>2
<1>4. \A q \in Ranks, t \in Servers : q # r => RequestInv(q, t)' /\ AppliedInv(q, t)'
  BY <1>1, <1>2, OtherRanks
<1>5. ASSUME NEW t \in Servers PROVE RequestInv(r, t)'
  BY <1>1, <1>2, <1>3, InvParts
  DEF RequestInv, InReq, InListener, InQueue, InWorker, InSlot, NoResp, Expecting, LocalPcs,
      StopPcs, serverVars
<1>6. ASSUME NEW t \in Servers PROVE AppliedInv(r, t)'
  BY <1>1, <1>2, <1>3, InvParts
  DEF AppliedInv, InReq, InListener, InQueue, InWorker, InSlot, Done, LocalPcs, serverVars
<1>7. MainInv'
  BY <1>1, <1>2, InvTypes DEF MainInv, RemotePcs, LocalPcs, OpPcs
<1>8. CollectiveInv'
  BY <1>1, <1>2, <1>3, CollectiveKept, InvTypes DEF CollectiveInv, StopPcs, LocalPcs, serverVars
<1> QED
  BY <1>1, <1>4, <1>5, <1>6, <1>7, <1>8, QueueKept, MutexKept, InvTypes, ReliableKept
  DEF RequestPathInv, serverVars

LEMMA ReceiveSizeInv ==
  ASSUME RequestPathInv, TypeOK', NEW r \in Ranks, NEW s \in Servers, ReceiveSize(r, s)
  PROVE  RequestPathInv'
<1>1. /\ UNCHANGED <<op, commit, asked, loc, wait, got, req, rbd, serverVars>>
      /\ cpc[r] = "rsize" /\ s \in wait[r] \ sized[r] /\ rsz[s][r] # <<>>
  BY DEF ReceiveSize
<1>2. /\ \A q \in Ranks : q # r => cpc'[q] = cpc[q] /\ sized'[q] = sized[q]
      /\ sized'[r] = sized[r] \cup {s}
      /\ cpc'[r] = IF wait[r] = sized[r] \cup {s} THEN "rbody" ELSE "rsize"
  BY <1>1, InvTypes DEF ReceiveSize, MainType
<1>3. \A q \in Ranks, t \in Servers : q # r \/ t # s => rsz'[t][q] = rsz[t][q]
  BY InvTypes DEF ReceiveSize, NetType
<1>4. RequestInv(r, s) /\ AppliedInv(r, s)
  BY InvParts
<1>5. rsz'[s][r] = <<>>
  <2>1. rsz'[s][r] = Tail(rsz[s][r])
    BY InvTypes DEF ReceiveSize, NetType
  <2>2. rsz[s][r] = <<op[r]>>
    BY <1>1, <1>4 DEF RequestInv
  <2> QED
    BY <2>1, <2>2, OneMessage
<1>6. cpc'[r] \in {"rsize", "rbody"}
  BY <1>2
<1>7. \A q \in Ranks, t \in Servers : q # r => RequestInv(q, t)' /\ AppliedInv(q, t)'
  BY <1>1, <1>2, <1>3, OtherRanks
<1>8. ASSUME NEW t \in Servers PROVE RequestInv(r, t)'
  BY <1>1, <1>2, <1>3, <1>4, <1>5, <1>6, InvParts
  DEF RequestInv, InReq, InListener, InQueue, InWorker, InSlot, NoResp, Expecting, LocalPcs,
      StopPcs, serverVars
<1>9. ASSUME NEW t \in Servers PROVE AppliedInv(r, t)'
  BY <1>1, <1>2, <1>3, <1>5, <1>6, InvParts
  DEF AppliedInv, InReq, InListener, InQueue, InWorker, InSlot, Done, LocalPcs, serverVars
<1>10. MainInv'
  <2>1. r \notin wait[r] /\ s # r
    BY <1>1, InvTypes DEF MainInv
  <2> QED
    BY <1>1, <1>2, <2>1, InvTypes DEF MainInv, RemotePcs, LocalPcs, OpPcs
<1>11. CollectiveInv'
  BY <1>1, <1>2, <1>6, CollectiveKept, InvTypes DEF CollectiveInv, StopPcs, LocalPcs, serverVars
<1> QED
  BY <1>1, <1>7, <1>8, <1>9, <1>10, <1>11, QueueKept, MutexKept, InvTypes, ReliableKept
  DEF RequestPathInv, serverVars

LEMMA ReceiveBodyInv ==
  ASSUME RequestPathInv, TypeOK', NEW r \in Ranks, NEW s \in Servers, ReceiveBody(r, s)
  PROVE  RequestPathInv'
<1>1. /\ UNCHANGED <<op, commit, asked, loc, sized, req, rsz, serverVars>>
      /\ cpc[r] = "rbody" /\ s \in wait[r] /\ rbd[s][r] # <<>>
  BY DEF ReceiveBody
<1>2. /\ \A q \in Ranks : q # r => cpc'[q] = cpc[q] /\ wait'[q] = wait[q] /\ got'[q] = got[q]
      /\ wait'[r] = wait[r] \ {s} /\ got'[r] = got[r] \cup {Head(rbd[s][r])}
      /\ cpc'[r] = IF wait[r] = {s} THEN (IF loc[r] THEN "addself" ELSE "app") ELSE "rbody"
  BY <1>1, InvTypes DEF ReceiveBody, MainType, AfterRemote
<1>3. \A q \in Ranks, t \in Servers : q # r \/ t # s => rbd'[t][q] = rbd[t][q]
  BY InvTypes DEF ReceiveBody, NetType
<1>4. RequestInv(r, s) /\ AppliedInv(r, s)
  BY InvParts
<1>5. rbd[s][r] = <<op[r]>> /\ Head(rbd[s][r]) = op[r] /\ rbd'[s][r] = <<>>
  <2>1. rbd'[s][r] = Tail(rbd[s][r])
    BY InvTypes DEF ReceiveBody, NetType
  <2>2. rbd[s][r] = <<op[r]>>
    BY <1>1, <1>4 DEF RequestInv
  <2> QED
    BY <2>1, <2>2, OneMessage
<1>6. cpc'[r] \in {"rbody", "addself", "app"}
  BY <1>2
<1>7. \A q \in Ranks, t \in Servers : q # r => RequestInv(q, t)' /\ AppliedInv(q, t)'
  BY <1>1, <1>2, <1>3, OtherRanks
<1>8. s # r /\ wait[r] \subseteq sized[r]
  BY <1>1, InvTypes DEF MainInv
<1>9. /\ ~InReq(r, s) /\ ~InListener(r, s) /\ ~InQueue(r, s) /\ ~InWorker(r, s)
      /\ rsz[s][r] = <<>> /\ Done(r, s)
  BY <1>1, <1>4, <1>8 DEF RequestInv, AppliedInv, NoResp, StopPcs
<1>10. ASSUME NEW t \in Servers PROVE RequestInv(r, t)'
  BY <1>1, <1>2, <1>3, <1>4, <1>5, <1>6, <1>8, <1>9, InvParts
  DEF RequestInv, InReq, InListener, InQueue, InWorker, InSlot, NoResp, Expecting, LocalPcs,
      StopPcs, serverVars
<1>11. ASSUME NEW t \in Servers PROVE AppliedInv(r, t)'
  BY <1>1, <1>2, <1>3, <1>5, <1>6, <1>8, <1>9, InvParts
  DEF AppliedInv, InReq, InListener, InQueue, InWorker, InSlot, Done, LocalPcs, serverVars
<1>12. MainInv'
  <2>1. wait[r] # {s} => wait'[r] # {} /\ cpc'[r] = "rbody"
    BY <1>1, <1>2
  <2>2. wait[r] = {s} => wait'[r] = {} /\ cpc'[r] # "rbody"
    BY <1>2
  <2> QED
    BY <1>1, <1>2, <1>5, <1>6, <1>8, <2>1, <2>2, InvTypes DEF MainInv, RemotePcs, LocalPcs, OpPcs
<1>13. CollectiveInv'
  BY <1>1, <1>2, <1>6, CollectiveKept, InvTypes DEF CollectiveInv, StopPcs, LocalPcs, serverVars
<1> QED
  BY <1>1, <1>7, <1>10, <1>11, <1>12, <1>13, QueueKept, MutexKept, InvTypes, ReliableKept
  DEF RequestPathInv, serverVars

LEMMA LocalAddWorkInv ==
  ASSUME RequestPathInv, TypeOK', NEW r \in Servers, LocalAddWork(r)
  PROVE  RequestPathInv'
<1> DEFINE it == [src |-> r, id |-> op[r]]
<1>1. r \in Ranks /\ it \in Item /\ it.src = r /\ it.id = op[r]
  BY ConstantsAssumption, InvTypes DEF MainType, Item
<1>2. /\ UNCHANGED <<op, commit, asked, wait, sized, got, req, rsz, rbd>>
      /\ UNCHANGED <<lpc, lmsg, held, witem, rmsg, cancel, applied>>
      /\ cpc[r] = "addself" /\ range_server_add_work(r, it)
  BY DEF LocalAddWork, netVars
<1>3. /\ cpc'[r] = "self" /\ \A q \in Ranks : q # r => cpc'[q] = cpc[q] /\ loc'[q] = loc[q]
      /\ ~loc'[r]
  BY <1>1, InvTypes DEF LocalAddWork, MainType
<1>4. \A t \in Servers :
        /\ wait[r] = {} /\ ~InListener(r, t) /\ ~InQueue(r, t) /\ ~InWorker(r, t) /\ ~InSlot(r, t)
        /\ rsz[t][r] = <<>> /\ rbd[t][r] = <<>> /\ ~InReq(r, t)
  BY <1>1, <1>2, Idle DEF RemotePcs, LocalPcs, StopPcs
<1>5. /\ \A q : HasItem(queue'[r], q) <=> HasItem(queue[r], q) \/ r = q
      /\ \A t \in Servers : t # r => queue'[t] = queue[t] /\ wpc'[t] = wpc[t]
      /\ wpc'[r] = wpc[r] \/ (wpc[r] = "asleep" /\ wpc'[r] = "woken")
      /\ \A t \in Servers : QueueInv(t)'
      /\ MutexInv'
  BY <1>1, <1>2, <1>4, AddWorkFacts
<1>6. \A q \in Ranks, t \in Servers :
        /\ InQueue(q, t)' <=> InQueue(q, t) \/ (q = r /\ t = r)
        /\ InWorker(q, t)' <=> InWorker(q, t)
        /\ InListener(q, t)' <=> InListener(q, t)
  BY <1>2, <1>5 DEF InQueue, InWorker, InListener
<1>7. ~Done(r, r) /\ r \notin sized[r]
  BY <1>1, <1>2, InvParts, InvTypes DEF AppliedInv, MainInv
<1>8. ASSUME NEW q \in Ranks, NEW t \in Servers PROVE RequestInv(q, t)'
  <2>1. RequestInv(q, t)
    BY InvParts
  <2>2. CASE q = r
    BY <1>1, <1>2, <1>3, <1>4, <1>5, <1>6, <1>7, <2>1, <2>2
    DEF RequestInv, InReq, InSlot, NoResp, Expecting, LocalPcs
  <2>3. CASE q # r
    BY <1>2, <1>3, <1>5, <1>6, <2>1, <2>3 DEF RequestInv, InReq, InSlot, NoResp, Expecting
  <2> QED
    BY <2>2, <2>3
<1>9. ASSUME NEW q \in Ranks, NEW t \in Servers PROVE AppliedInv(q, t)'
  <2>1. AppliedInv(q, t) /\ (Done(q, t)' <=> Done(q, t))
    BY <1>2, InvParts DEF Done
  <2>2. wpc'[t] \in {"handle", "respond", "body"} \/ wpc[t] \in {"handle", "respond", "body"}
           => wpc'[t] = wpc[t]
    BY <1>5
  <2>3. CASE q = r
    BY <1>1, <1>2, <1>3, <1>4, <1>6, <1>7, <2>1, <2>2, <2>3
    DEF AppliedInv, InReq, InSlot, LocalPcs
  <2>4. CASE q # r
    BY <1>2, <1>3, <1>6, <2>1, <2>2, <2>4 DEF AppliedInv, InReq, InSlot
  <2> QED
    BY <2>3, <2>4
<1>10. MainInv'
  BY <1>1, <1>2, <1>3, <1>4, InvTypes DEF MainInv, OpPcs, LocalPcs
<1>11. CollectiveInv'
  BY <1>1, <1>2, <1>3, CollectiveKept DEF StopPcs, LocalPcs
<1> QED
  BY <1>5, <1>8, <1>9, <1>10, <1>11, InvTypes, ReliableKept DEF RequestPathInv

LEMMA GetMsgSelfInv ==
  ASSUME RequestPathInv, TypeOK', NEW r \in Servers, get_msg_self(r)
  PROVE  RequestPathInv'
<1>1. r \in Ranks
  BY ConstantsAssumption
<1>2. RequestInv(r, r) /\ AppliedInv(r, r)
  BY <1>1, InvParts
<1>3. CASE TakeMsg(r)
  <2>1. cpc[r] \in {"self", "selfwoken"} /\ rmsg[r] # NULL
    BY <1>1, <1>2, <1>3, InvTypes DEF get_msg_self, RequestInv, TakeMsg, AfterLocal, MainType
  <2>2. /\ UNCHANGED <<op, commit, asked, loc, wait, sized, req, rsz, rbd>>
        /\ UNCHANGED <<lpc, lmsg, queue, held, wpc, witem, cancel, applied>>
    BY <1>3 DEF TakeMsg, netVars
  <2>3. /\ cpc'[r] = IF commit[r] THEN "cbar2" ELSE "app"
        /\ got'[r] = got[r] \cup {rmsg[r]} /\ rmsg'[r] = NULL
        /\ \A q \in Ranks : q # r => cpc'[q] = cpc[q] /\ got'[q] = got[q]
        /\ \A t \in Servers : t # r => rmsg'[t] = rmsg[t]
    BY <1>1, <1>3, InvTypes DEF TakeMsg, AfterLocal, MainType, ServerType
  <2>4. InSlot(r, r) /\ rmsg[r] = op[r] /\ Done(r, r)
    BY <1>2, <2>1 DEF InSlot, RequestInv, AppliedInv
  <2>5. /\ ~InQueue(r, r) /\ ~InWorker(r, r)
        /\ wait[r] = {} /\ ~loc[r] /\ cpc[r] \notin StopPcs
    <3>1. cpc[r] \in LocalPcs
      BY <2>1 DEF LocalPcs
    <3> QED
      BY <1>1, <1>2, <2>4, <3>1, WaitPlace DEF RequestInv
  <2>6. cpc'[r] \in {"cbar2", "app"}
    BY <2>3
  <2>7. \A t \in Servers : ~InReq(r, t) /\ (t # r => ~InQueue(r, t) /\ ~InWorker(r, t))
    BY <1>1, <2>5, InvParts DEF RequestInv, Expecting
  <2>8. ASSUME NEW q \in Ranks, NEW t \in Servers PROVE RequestInv(q, t)'
    <3>1. RequestInv(q, t)
      BY InvParts
    <3>2. CASE q = r
      BY <2>2, <2>3, <2>5, <2>6, <2>7, <3>1, <3>2
      DEF RequestInv, InReq, InListener, InQueue, InWorker, InSlot, NoResp, Expecting, LocalPcs
    <3>3. CASE q # r
      BY <2>2, <2>3, <3>1, <3>3
      DEF RequestInv, InReq, InListener, InQueue, InWorker, InSlot, NoResp, Expecting
    <3> QED
      BY <3>2, <3>3
  <2>9. ASSUME NEW q \in Ranks, NEW t \in Servers PROVE AppliedInv(q, t)'
    <3>1. AppliedInv(q, t)
      BY InvParts
    <3>2. CASE q = r
      BY <2>2, <2>3, <2>4, <2>5, <2>6, <3>1, <3>2
      DEF AppliedInv, InReq, InListener, InQueue, InWorker, InSlot, Done, LocalPcs
    <3>3. CASE q # r
      BY <2>2, <2>3, <3>1, <3>3
      DEF AppliedInv, InReq, InListener, InQueue, InWorker, InSlot, Done
    <3> QED
      BY <3>2, <3>3
  <2>10. MainInv'
    BY <1>1, <2>2, <2>3, <2>4, <2>5, <2>6, InvTypes DEF MainInv, OpPcs, LocalPcs
  <2>11. CollectiveInv'
    <3>1. CollectiveInv /\ Servers \subseteq Ranks
      BY InvTypes, ConstantsAssumption
    <3>2. \A q \in Ranks : cpc'[q] \in StopPcs <=> cpc[q] \in StopPcs
      BY <2>3, <2>5, <2>6 DEF StopPcs
    <3>3. \A q \in Ranks : commit'[q] => cpc'[q] \in LocalPcs \cup {"addself", "cbar2"}
      BY <2>2, <2>3, <3>1 DEF CollectiveInv
    <3>4. \A q \in Ranks : cpc'[q] = "cbar2" => commit'[q]
      BY <2>2, <2>3, <3>1 DEF CollectiveInv
    <3>5. \A q, p \in Ranks : commit'[q] => commit'[p]
      BY <2>2, <3>1 DEF CollectiveInv
    <3>6. \A q, p \in Ranks : cpc'[q] \in StopPcs => cpc'[p] \in StopPcs
      BY <3>1, <3>2 DEF CollectiveInv
    <3>7. \A t \in Servers : cancel'[t] => cpc'[t] \in StopPcs
      BY <2>2, <3>1, <3>2 DEF CollectiveInv
    <3> QED
      BY <3>3, <3>4, <3>5, <3>6, <3>7 DEF CollectiveInv
  <2> QED
    BY <2>2, <2>8, <2>9, <2>10, <2>11, QueueKept, MutexKept, InvTypes, ReliableKept DEF RequestPathInv
<1>4. CASE ~TakeMsg(r)
  <2>1. /\ UNCHANGED <<op, commit, asked, loc, wait, sized, got, req, rsz, rbd, serverVars>>
        /\ cpc[r] = "self" /\ rmsg[r] = NULL /\ cpc'[r] = "selfwait"
        /\ \A q \in Ranks : q # r => cpc'[q] = cpc[q]
    BY <1>1, <1>4, InvTypes DEF get_msg_self, opVars, netVars, MainType
  <2>2. \A q \in Ranks, t \in Servers : q # r => RequestInv(q, t)' /\ AppliedInv(q, t)'
    BY <1>1, <2>1, OtherRanks
  <2>3. ASSUME NEW t \in Servers PROVE RequestInv(r, t)'
    BY <1>1, <2>1, InvParts
    DEF RequestInv, InReq, InListener, InQueue, InWorker, InSlot, NoResp, Expecting, LocalPcs,
        StopPcs, serverVars
  <2>4. ASSUME NEW t \in Servers PROVE AppliedInv(r, t)'
    BY <1>1, <2>1, InvParts
    DEF AppliedInv, InReq, InListener, InQueue, InWorker, InSlot, Done, LocalPcs, serverVars
  <2>5. MainInv'
    BY <1>1, <2>1, InvTypes DEF MainInv, RemotePcs, LocalPcs, OpPcs
  <2>6. CollectiveInv'
    BY <1>1, <2>1, CollectiveKept DEF StopPcs, LocalPcs, serverVars
  <2> QED
    BY <2>1, <2>2, <2>3, <2>4, <2>5, <2>6, QueueKept, MutexKept, InvTypes, ReliableKept
    DEF RequestPathInv, serverVars
<1> QED
  BY <1>3, <1>4

LEMMA RangeServerStopInv ==
  ASSUME RequestPathInv, TypeOK', NEW r \in Servers, range_server_stop(r)
  PROVE  RequestPathInv'
<1>1. r \in Ranks
  BY ConstantsAssumption
<1>2. /\ UNCHANGED <<op, commit, asked, loc, wait, sized, got, req, rsz, rbd>>
      /\ UNCHANGED <<lpc, lmsg, held, wpc, witem, rmsg, applied>>
  BY DEF range_server_stop, opVars, netVars, serverVars
<1>3. /\ cpc[r] \in {"cancel", "joinL", "joinW", "stop"}
      /\ cpc'[r] \in {"joinL", "joinW", "stop", "bar2"}
      /\ \A q \in Ranks : q # r => cpc'[q] = cpc[q]
  BY <1>1, InvTypes DEF range_server_stop, MainType
<1>4. \A t \in Servers : /\ queue'[t] = queue[t] \/ queue'[t] = <<>>
                         /\ t # r => cancel'[t] = cancel[t]
  <2>1. UNCHANGED queue \/ queue' = [queue EXCEPT ![r] = <<>>]
    BY Zenon DEF range_server_stop, serverVars
  <2>2. UNCHANGED cancel \/ cancel' = [cancel EXCEPT ![r] = TRUE]
    BY DEF range_server_stop, serverVars
  <2>3. queue \in [Servers -> Seq(Item)] /\ cancel \in [Servers -> BOOLEAN]
    BY InvTypes DEF ServerType
  <2> QED
    BY <2>1, <2>2, <2>3
<1>5. \A q : \A t \in Servers : HasItem(queue'[t], q) => HasItem(queue[t], q)
  <2> SUFFICES ASSUME NEW q, NEW t \in Servers, HasItem(queue'[t], q)
               PROVE  HasItem(queue[t], q)
    OBVIOUS
  <2>1. CASE queue'[t] = queue[t]
    BY <2>1, Zenon
  <2>2. CASE queue'[t] = <<>>
    BY <2>2, HasNone, Zenon
  <2> QED
    BY <1>4, <2>1, <2>2
<1>6. cpc[r] \in StopPcs /\ cpc'[r] \in StopPcs \ {"closing"} /\ cpc[r] # "closing"
  BY <1>3 DEF StopPcs
<1>7. ASSUME NEW q \in Ranks, NEW t \in Servers PROVE RequestInv(q, t)'
  <2>1. /\ InQueue(q, t)' => InQueue(q, t)
        /\ cpc'[q] \in StopPcs \ {"closing"} <=> cpc[q] \in StopPcs \ {"closing"}
        /\ cpc'[q] \in LocalPcs <=> cpc[q] \in LocalPcs
        /\ cpc'[q] \in LocalPcs \ {"selfwait"} <=> cpc[q] \in LocalPcs \ {"selfwait"}
        /\ cpc'[q] = "selfwoken" <=> cpc[q] = "selfwoken"
    BY <1>3, <1>5, <1>6 DEF InQueue, LocalPcs
  <2> QED
    BY <1>2, <2>1, InvParts DEF RequestInv, InReq, InListener, InWorker, InSlot, NoResp, Expecting
<1>8. ASSUME NEW q \in Ranks, NEW t \in Servers PROVE AppliedInv(q, t)'
  <2>1. /\ InQueue(q, t)' => InQueue(q, t)
        /\ cpc'[q] \in LocalPcs \cup {"addself"} <=> cpc[q] \in LocalPcs \cup {"addself"}
        /\ cpc'[q] = "addself" <=> cpc[q] = "addself"
    BY <1>3, <1>5, <1>6 DEF InQueue, LocalPcs
  <2> QED
    BY <1>2, <2>1, InvParts DEF AppliedInv, InReq, InListener, InWorker, InSlot, Done
<1>9. \A t \in Servers : QueueInv(t)'
  <2>1. ASSUME NEW t \in Servers, queue'[t] = <<>> PROVE QueueInv(t)'
    BY <2>1 DEF QueueInv
  <2>2. ASSUME NEW t \in Servers, queue'[t] = queue[t] PROVE QueueInv(t)'
    BY <1>2, <2>2 DEF QueueInv, RequestPathInv
  <2> QED
    BY <1>4, <2>1, <2>2, Zenon
<1>10. MainInv'
  BY <1>1, <1>2, <1>3, InvTypes DEF MainInv, OpPcs, LocalPcs, RemotePcs
<1>11. CollectiveInv'
  <2>1. CollectiveInv /\ Servers \subseteq Ranks
    BY InvTypes, ConstantsAssumption
  <2>2. \A q \in Ranks : cpc'[q] \in StopPcs <=> cpc[q] \in StopPcs
    BY <1>3, <1>6
  <2>3. \A q \in Ranks : commit'[q] => cpc'[q] \in LocalPcs \cup {"addself", "cbar2"}
    BY <1>1, <1>2, <1>3, <2>1 DEF CollectiveInv, LocalPcs
  <2>4. \A q \in Ranks : cpc'[q] = "cbar2" => commit'[q]
    BY <1>2, <1>3, <2>1 DEF CollectiveInv
  <2>5. \A q, p \in Ranks : commit'[q] => commit'[p]
    BY <1>2, <2>1 DEF CollectiveInv
  <2>6. \A q, p \in Ranks : cpc'[q] \in StopPcs => cpc'[p] \in StopPcs
    BY <2>1, <2>2 DEF CollectiveInv
  <2>7. \A t \in Servers : cancel'[t] => cpc'[t] \in StopPcs
    BY <1>4, <1>6, <2>1, <2>2 DEF CollectiveInv
  <2> QED
    BY <2>3, <2>4, <2>5, <2>6, <2>7 DEF CollectiveInv
<1> QED
  BY <1>2, <1>7, <1>8, <1>9, <1>10, <1>11, MutexKept, InvTypes, ReliableKept DEF RequestPathInv

LEMMA MainThreadInv ==
  ASSUME RequestPathInv, TypeOK', NEW r \in Ranks, MainThread(r)
  PROVE  RequestPathInv'
BY SendDoneInv, ReceiveSizeInv, ReceiveBodyInv, LocalAddWorkInv, GetMsgSelfInv, RangeServerStopInv
DEF MainThread

-----------------------------------------------------------------------------
(* The collective calls. *)

(* A step that moves main threads, none of them into or out of an operation, *)
(* and changes nothing else but perhaps commit.                              *)
LEMMA IdleMoves ==
  ASSUME RequestPathInv, UNCHANGED <<op, asked, loc, wait, sized, got, netVars, serverVars>>,
         \A q \in Ranks :
           \/ cpc'[q] = cpc[q]
           \/ /\ cpc[q] \notin OpPcs /\ cpc'[q] \notin OpPcs
              /\ cpc[q] \in StopPcs \ {"closing"} => cpc'[q] \in StopPcs \ {"closing"}
              /\ cpc'[q] \in {"cancel", "joinL", "joinW", "stop"} => q \in Servers,
         CollectiveInv'
  PROVE  TypeOK' => RequestPathInv'
<1>1. UNCHANGED <<op, asked, loc, wait, sized, got, req, rsz, rbd, lpc, lmsg, queue, held, wpc, witem, rmsg, cancel, applied>>
  BY DEF netVars, serverVars
<1>2. \A q \in Ranks : cpc'[q] # cpc[q] =>
        /\ cpc[q] \notin RemotePcs \cup LocalPcs \cup {"addself"}
        /\ cpc'[q] \notin RemotePcs \cup LocalPcs \cup {"addself"}
        /\ cpc[q] \in StopPcs \ {"closing"} => cpc'[q] \in StopPcs \ {"closing"}
  BY DEF OpPcs, RemotePcs, LocalPcs
<1>3. ASSUME NEW q \in Ranks, NEW t \in Servers PROVE RequestInv(q, t)'
  <2>1. CASE cpc'[q] = cpc[q]
    BY <1>1, <2>1, CellKept DEF SameCell
  <2>2. CASE cpc'[q] # cpc[q]
    <3>1. /\ ~InListener(q, t) /\ ~InQueue(q, t) /\ ~InWorker(q, t) /\ ~InSlot(q, t)
          /\ rsz[t][q] = <<>> /\ rbd[t][q] = <<>>
          /\ InReq(q, t) => /\ req[q][t] = <<CloseMsg>> /\ q = Root
                            /\ cpc[q] \in StopPcs \ {"closing"}
      BY <1>2, <2>2, Idle
    <3>2. RequestInv(q, t) /\ cpc'[q] # "selfwoken"
      BY <1>2, <2>2, InvParts DEF LocalPcs
    <3> QED
      BY <1>1, <1>2, <2>2, <3>1, <3>2
      DEF RequestInv, InReq, InListener, InQueue, InWorker, InSlot, NoResp, Expecting
  <2> QED
    BY <2>1, <2>2
<1>4. ASSUME NEW q \in Ranks, NEW t \in Servers PROVE AppliedInv(q, t)'
  BY <1>1, <1>2, InvParts
  DEF AppliedInv, InReq, InListener, InQueue, InWorker, InSlot, Done
<1>5. MainInv'
  BY <1>1, <1>2, InvTypes DEF MainInv, RemotePcs, LocalPcs
<1> QED
  BY <1>1, <1>3, <1>4, <1>5, QueueKept, MutexKept, InvTypes, ReliableKept DEF RequestPathInv

LEMMA CommitBarrier1Inv ==
  ASSUME RequestPathInv, TypeOK', CommitBarrier1
  PROVE  RequestPathInv'
<1>1. UNCHANGED <<loc, pend, wait, sized, req, rsz, rbd, lpc, lmsg, queue, held, wpc, witem, rmsg, cancel, applied>>
  BY DEF CommitBarrier1, netVars, serverVars
<1>2. \A r \in Ranks : /\ cpc[r] = "cbar1" /\ op'[r] = op[r] + 1 /\ op[r] \in Nat
                       /\ asked'[r] = {r} \cap Servers /\ got'[r] = {} /\ commit'[r]
                       /\ r \in Servers => cpc'[r] = "addself"
                       /\ r \notin Servers => cpc'[r] = "cbar2"
  BY InvTypes DEF CommitBarrier1, MainType
<1>3. \A r \in Ranks : cpc[r] \notin RemotePcs \cup LocalPcs \cup StopPcs \cup {"addself"}
  BY <1>2 DEF RemotePcs, LocalPcs, StopPcs
<1>4. \A r \in Ranks : \A s \in Servers :
        /\ ~InListener(r, s) /\ ~InQueue(r, s) /\ ~InWorker(r, s) /\ ~InSlot(r, s)
        /\ rsz[s][r] = <<>> /\ rbd[s][r] = <<>> /\ ~InReq(r, s)
  BY <1>3, Idle
<1>5. \A r \in Ranks : wait[r] = {} /\ ~loc[r] /\ r \notin sized[r]
  BY <1>3, InvTypes DEF MainInv
<1>6. ASSUME NEW r \in Ranks, NEW s \in Servers PROVE RequestInv(r, s)'
  <2>1. RequestInv(r, s) /\ cpc'[r] # "selfwoken"
    BY <1>2, InvParts
  <2> QED
    BY <1>1, <1>4, <2>1
    DEF RequestInv, InReq, InListener, InQueue, InWorker, InSlot, NoResp, Expecting
<1>7. ASSUME NEW r \in Ranks, NEW s \in Servers PROVE AppliedInv(r, s)'
  <2>1. \A i \in DOMAIN applied[s][r] : applied[s][r][i] <= op[r] /\ applied[s][r][i] \in Nat
    BY InvParts, InvTypes DEF AppliedInv, ServerType
  <2>2. \A i \in DOMAIN applied[s][r] : applied[s][r][i] <= op[r] + 1 /\ applied[s][r][i] # op[r] + 1
    BY <1>2, <2>1
  <2>3. ~Done(r, s)' /\ \A i \in DOMAIN applied'[s][r] : applied'[s][r][i] <= op'[r]
    BY <1>1, <1>2, <2>2 DEF Done
  <2>4. s \in asked'[r] => s = r /\ cpc'[r] = "addself"
    BY <1>2
  <2> QED
    BY <1>1, <1>4, <2>3, <2>4 DEF AppliedInv, InReq, InListener, InQueue, InWorker, InSlot
<1>8. MainInv'
  BY <1>1, <1>2, <1>5 DEF MainInv, LocalPcs
<1>9. CollectiveInv'
  <2>1. \A s \in Servers : ~cancel'[s]
    BY <1>1, <1>3, InvTypes, ConstantsAssumption DEF CollectiveInv
  <2> QED
    BY <1>2, <2>1 DEF CollectiveInv, StopPcs
<1>10. \A s \in Servers : QueueInv(s)'
  <2> SUFFICES ASSUME NEW s \in Servers PROVE Len(queue'[s]) = 0
    BY DEF QueueInv
  <2>1. queue[s] \in Seq(Item)
    BY InvTypes DEF ServerType
  <2>2. ASSUME NEW i \in 1..Len(queue[s]) PROVE FALSE
    <3>1. queue[s][i] \in Item
      BY <2>1
    <3>2. queue[s][i].src \in Ranks /\ HasItem(queue[s], queue[s][i].src)
      BY <3>1, ItemParts DEF HasItem
    <3> QED
      BY <1>4, <3>2 DEF InQueue
  <2>3. Len(queue[s]) \in Nat /\ (Len(queue[s]) > 0 => 1 \in 1..Len(queue[s]))
    BY <2>1
  <2> QED
    BY <1>1, <2>2, <2>3
<1> QED
  BY <1>1, <1>6, <1>7, <1>8, <1>9, <1>10, MutexKept, InvTypes, ReliableKept DEF RequestPathInv

LEMMA CommitBarrier2Inv ==
  ASSUME RequestPathInv, TypeOK', CommitBarrier2
  PROVE  RequestPathInv'
<1>1. UNCHANGED <<op, asked, loc, wait, sized, got, netVars, serverVars>>
  BY DEF CommitBarrier2
<1>2. \A r \in Ranks : cpc[r] = "cbar2" /\ cpc'[r] = "app" /\ ~commit'[r]
  BY DEF CommitBarrier2
<1>3. CollectiveInv'
  <2>1. \A s \in Servers : ~cancel'[s]
    BY <1>1, <1>2, InvTypes, ConstantsAssumption DEF CollectiveInv, StopPcs, serverVars
  <2> QED
    BY <1>2, <2>1 DEF CollectiveInv, StopPcs
<1> QED
  BY <1>1, <1>2, <1>3, IdleMoves DEF OpPcs, StopPcs

LEMMA CloseBarriersInv ==
  ASSUME RequestPathInv, TypeOK', CloseBarrier1 \/ CloseBarrier2
  PROVE  RequestPathInv'
<1>1. UNCHANGED <<op, commit, asked, loc, wait, sized, got, netVars, serverVars>>
  BY DEF CloseBarrier1, CloseBarrier2, opVars
<1>2. \A r \in Ranks : /\ cpc[r] \in {"bar1", "bar2"}
                       /\ cpc'[r] \in {"closing", "cancel", "bar2", "done"}
                       /\ cpc'[r] = "cancel" => r \in Servers
                       /\ cpc[r] = "bar2" => cpc'[r] = "done"
  BY DEF CloseBarrier1, CloseBarrier2, Stopping
<1>3. CollectiveInv'
  <2>1. \A r \in Ranks : ~commit[r] /\ cpc'[r] \in StopPcs /\ cpc'[r] # "cbar2"
    BY <1>2, InvTypes DEF CollectiveInv, LocalPcs, StopPcs
  <2> QED
    BY <1>1, <2>1, ConstantsAssumption DEF CollectiveInv
<1> QED
  BY <1>1, <1>2, <1>3, IdleMoves DEF OpPcs, StopPcs

LEMMA ClientCloseInv ==
  ASSUME RequestPathInv, TypeOK', client_close
  PROVE  RequestPathInv'
<1>1. UNCHANGED <<op, commit, asked, loc, wait, sized, got, rsz, rbd, lpc, lmsg, queue, held, wpc, witem, rmsg, cancel, applied>>
  BY DEF client_close, opVars, serverVars
<1>2. /\ Root \in Ranks /\ cpc[Root] = "closing" /\ cpc'[Root] \in {"cancel", "bar2"}
      /\ cpc'[Root] = "cancel" => Root \in Servers
      /\ \A r \in Ranks : r # Root => cpc'[r] = cpc[r]
  BY ConstantsAssumption, InvTypes DEF client_close, Stopping, MainType
<1>3. \A t \in Servers : /\ req'[Root][t] = Append(req[Root][t], CloseMsg)
                         /\ \A r \in Ranks : r # Root => req'[r][t] = req[r][t]
  BY <1>2, InvTypes DEF client_close, NetType
<1>4. \A t \in Servers :
        /\ ~InListener(Root, t) /\ ~InQueue(Root, t) /\ ~InWorker(Root, t) /\ ~InSlot(Root, t)
        /\ rsz[t][Root] = <<>> /\ rbd[t][Root] = <<>> /\ ~InReq(Root, t) /\ wait[Root] = {}
  BY <1>2, Idle DEF RemotePcs, LocalPcs
<1>5. \A t \in Servers : req'[Root][t] = <<CloseMsg>>
  BY <1>3, <1>4, OneMessage DEF InReq
<1>6. /\ cpc'[Root] \in StopPcs \ {"closing"} /\ cpc[Root] \in StopPcs
      /\ cpc'[Root] \notin OpPcs /\ cpc[Root] \notin OpPcs
  BY <1>2 DEF StopPcs, OpPcs
<1>7. ASSUME NEW r \in Ranks, NEW t \in Servers PROVE RequestInv(r, t)'
  <2>1. CASE r # Root
    BY <1>1, <1>2, <1>3, <2>1, CellKept DEF SameCell
  <2>2. CASE r = Root
    <3>1. RequestInv(Root, t) /\ cpc'[Root] # "selfwoken"
      BY <1>2, InvParts
    <3> QED
      BY <1>1, <1>4, <1>5, <1>6, <2>2, <3>1
      DEF RequestInv, InReq, InListener, InQueue, InWorker, InSlot, NoResp, Expecting
  <2> QED
    BY <2>1, <2>2
<1>8. ASSUME NEW r \in Ranks, NEW t \in Servers PROVE AppliedInv(r, t)'
  <2>1. CASE r # Root
    BY <1>1, <1>2, <1>3, <2>1, CellKept DEF SameCell
  <2>2. CASE r = Root
    <3>1. AppliedInv(Root, t)
      BY <1>2, InvParts
    <3> QED
      BY <1>1, <1>2, <1>4, <2>2, <3>1
      DEF AppliedInv, InListener, InQueue, InWorker, InSlot, Done, LocalPcs
  <2> QED
    BY <2>1, <2>2
<1>9. MainInv'
  BY <1>1, <1>2, <1>4, <1>6, InvTypes DEF MainInv, RemotePcs, LocalPcs
<1>10. CollectiveInv'
  BY <1>1, <1>2, <1>6, CollectiveKept DEF LocalPcs
<1> QED
  BY <1>1, <1>7, <1>8, <1>9, <1>10, QueueKept, MutexKept, InvTypes, ReliableKept DEF RequestPathInv

LEMMA CollectiveStepInv ==
  ASSUME RequestPathInv, TypeOK', Collective
  PROVE  RequestPathInv'
BY CommitBarrier1Inv, CommitBarrier2Inv, CloseBarriersInv, ClientCloseInv DEF Collective

-----------------------------------------------------------------------------
(* What the application does. *)

LEMMA IssueInv ==
  ASSUME RequestPathInv, TypeOK', NEW r \in Ranks, NEW S \in Targets[r], NEW F \in SUBSET (S \ {r}),
         Issue(r, S, F)
  PROVE  RequestPathInv'
<1>1. F = {}
  BY InvTypes DEF Issue, Reliable
<1>2. S \subseteq Servers
  BY ConstantsAssumption
<1>3. UNCHANGED <<rsz, rbd, serverVars>> /\ cpc[r] = "app"
  BY DEF Issue
<1>4. /\ op'[r] = op[r] + 1 /\ op[r] \in Nat /\ asked'[r] = S /\ (loc'[r] <=> r \in S)
      /\ wait'[r] = S \ {r} /\ sized'[r] = {} /\ got'[r] = {} /\ cpc'[r] = "send" /\ ~commit'[r]
  BY <1>1, InvTypes DEF Issue, MainType
<1>5. \A q \in Ranks : q # r => /\ cpc'[q] = cpc[q] /\ op'[q] = op[q] /\ wait'[q] = wait[q]
                                /\ sized'[q] = sized[q] /\ asked'[q] = asked[q]
                                /\ loc'[q] = loc[q] /\ got'[q] = got[q] /\ commit'[q] = commit[q]
  BY InvTypes DEF Issue, MainType
<1>6. \A t \in Servers : ~InReq(r, t) /\ wait[r] = {}
  BY <1>3, Idle DEF RemotePcs, LocalPcs, StopPcs
<1>7. \A t \in Servers :
        /\ req'[r][t] = IF t \in S \ {r} THEN <<op[r] + 1>> ELSE <<>>
        /\ \A q \in Ranks : q # r => req'[q][t] = req[q][t]
  <2>1. \A t \in Servers : req[r][t] = <<>>
    BY <1>6 DEF InReq
  <2>2. \A t \in Servers :
          /\ req'[r][t] = IF t \in S \ {r} THEN Append(req[r][t], op[r] + 1) ELSE req[r][t]
          /\ \A q \in Ranks : q # r => req'[q][t] = req[q][t]
    BY <1>1, InvTypes DEF Issue, NetType
  <2> QED
    BY <2>1, <2>2, OneMessage
<1>8. \A q \in Ranks, t \in Servers : q # r => RequestInv(q, t)' /\ AppliedInv(q, t)'
  BY <1>3, <1>5, <1>7, OtherRanks
<1>9. \A t \in Servers :
        /\ ~InListener(r, t) /\ ~InQueue(r, t) /\ ~InWorker(r, t) /\ ~InSlot(r, t)
        /\ rsz[t][r] = <<>> /\ rbd[t][r] = <<>>
  BY <1>3, Idle DEF RemotePcs, LocalPcs
<1>10. UNCHANGED <<rsz, rbd, lpc, lmsg, queue, held, wpc, witem, rmsg, cancel, applied>>
  BY <1>3 DEF serverVars
<1>11. ASSUME NEW t \in Servers PROVE RequestInv(r, t)'
  <2>1. RequestInv(r, t)
    BY InvParts
  <2>2. InReq(r, t)' => req'[r][t] = <<op'[r]>> /\ t \in wait'[r] \ sized'[r]
    BY <1>4, <1>7 DEF InReq
  <2> QED
    BY <1>4, <1>9, <1>10, <2>1, <2>2
    DEF RequestInv, InListener, InQueue, InWorker, InSlot, NoResp, Expecting
<1>12. ASSUME NEW t \in Servers PROVE AppliedInv(r, t)'
  <2>1. \A i \in DOMAIN applied[t][r] : applied[t][r][i] <= op[r] /\ applied[t][r][i] \in Nat
    BY InvParts, InvTypes DEF AppliedInv, ServerType
  <2>2. \A i \in DOMAIN applied[t][r] : applied[t][r][i] <= op[r] + 1 /\ applied[t][r][i] # op[r] + 1
    BY <1>4, <2>1
  <2>3. ~Done(r, t)' /\ \A i \in DOMAIN applied'[t][r] : applied'[t][r][i] <= op'[r]
    BY <1>4, <1>10, <2>2 DEF Done
  <2>4. t \in asked'[r] => (t # r /\ t \in wait'[r]) \/ (t = r /\ loc'[r])
    BY <1>4
  <2> QED
    BY <1>9, <1>10, <2>3, <2>4 DEF AppliedInv, InListener, InQueue, InWorker, InSlot
<1>13. MainInv'
  <2>1. op'[r] > 0
    BY <1>4
  <2> QED
    BY <1>2, <1>4, <1>5, <2>1, InvTypes DEF MainInv, RemotePcs, LocalPcs
<1>14. CollectiveInv'
  <2>1. \A q \in Ranks : ~commit[q] /\ cpc[q] \notin StopPcs
    <3>1. ~commit[r] /\ cpc[r] \notin StopPcs
      BY <1>3, InvTypes DEF CollectiveInv, LocalPcs, StopPcs
    <3> QED
      BY <3>1, InvTypes DEF CollectiveInv
  <2>2. \A q \in Ranks : ~commit'[q] /\ cpc'[q] \notin StopPcs /\ cpc'[q] # "cbar2"
    <3>1. \A q \in Ranks : cpc[q] # "cbar2"
      BY <2>1, InvTypes DEF CollectiveInv
    <3> QED
      BY <1>4, <1>5, <2>1, <3>1 DEF StopPcs
  <2>3. \A s \in Servers : ~cancel'[s]
    BY <1>10, <2>1, InvTypes, ConstantsAssumption DEF CollectiveInv
  <2> QED
    BY <2>2, <2>3 DEF CollectiveInv
<1>15. \A t \in Servers : QueueInv(t)'
  <2> SUFFICES ASSUME NEW t \in Servers PROVE QueueInv(t)'
    OBVIOUS
  <2>1. queue[t] \in Seq(Item) /\ QueueInv(t) /\ queue'[t] = queue[t]
    BY <1>10, InvTypes DEF ServerType, RequestPathInv
  <2>2. \A i \in 1..Len(queue[t]) : queue[t][i].src \in Ranks /\ queue[t][i].src # r
    <3>1. \A i \in 1..Len(queue[t]) : queue[t][i] \in Item
      BY <2>1
    <3>2. \A i \in 1..Len(queue[t]) : queue[t][i].src # r
      BY <1>9 DEF InQueue, HasItem
    <3> QED
      BY <3>1, <3>2, ItemParts
  <2> QED
    BY <1>5, <2>1, <2>2 DEF QueueInv
<1> QED
  BY <1>8, <1>10, <1>11, <1>12, <1>13, <1>14, <1>15, MutexKept, InvTypes, ReliableKept
  DEF RequestPathInv

LEMMA EnvironmentInv ==
  ASSUME RequestPathInv, TypeOK', Environment
  PROVE  RequestPathInv'
<1>1. ASSUME NEW r \in Ranks, EnterCommit(r) \/ EnterClose(r) PROVE RequestPathInv'
  <2>1. UNCHANGED <<op, commit, asked, loc, wait, sized, got, netVars, serverVars>>
    BY <1>1 DEF EnterCommit, EnterClose, opVars
  <2>2. /\ cpc[r] = "app" /\ cpc'[r] \in {"cbar1", "bar1"}
        /\ \A q \in Ranks : q # r => cpc'[q] = cpc[q]
    BY <1>1, InvTypes DEF EnterCommit, EnterClose, MainType
  <2>3. CollectiveInv'
    BY <2>1, <2>2, CollectiveKept DEF StopPcs, LocalPcs, serverVars
  <2> QED
    BY <2>1, <2>2, <2>3, IdleMoves DEF OpPcs, StopPcs
<1>2. ASSUME NEW r \in Ranks, SpuriousClientWakeup(r) PROVE RequestPathInv'
  BY <1>2, InvTypes DEF SpuriousClientWakeup, Reliable
<1> QED
  BY <1>1, <1>2, IssueInv, WorkerRestsInv DEF Environment

LEMMA StutterInv ==
  ASSUME RequestPathInv, TypeOK', UNCHANGED vars
  PROVE  RequestPathInv'
<1>1. \A q \in Ranks, t \in Servers : SameCell(q, t)
  BY DEF SameCell, vars, mainVars, opVars, netVars, serverVars
<1> QED
  BY <1>1, CellKept, QueueKept, MutexKept, MainKept, InvTypes, ReliableKept
  DEF RequestPathInv, vars, mainVars, opVars, netVars, serverVars

-----------------------------------------------------------------------------
LEMMA PathInit == Reliable /\ Init => RequestPathInv
<1> SUFFICES ASSUME Reliable, Init PROVE RequestPathInv
  OBVIOUS
<1>1. TypeOK
  BY TypeInit
<1>2. MutexInv
  BY DEF Init, MutexInv, BusyPcs
<1>3. MainInv
  BY DEF Init, MainInv, RemotePcs, LocalPcs, OpPcs
<1>4. CollectiveInv
  BY ConstantsAssumption DEF Init, CollectiveInv, StopPcs
<1>5. ASSUME NEW r \in Ranks, NEW s \in Servers PROVE RequestInv(r, s) /\ AppliedInv(r, s)
  <2>1. /\ ~InReq(r, s) /\ ~InListener(r, s) /\ ~InWorker(r, s) /\ ~InSlot(r, s) /\ NoResp(r, s)
        /\ wpc[s] = "lock" /\ cpc[r] = "app" /\ asked[r] = {} /\ ~loc[r] /\ wait[r] = {}
    BY DEF Init, InReq, InListener, InWorker, InSlot, NoResp
  <2>2. ~InQueue(r, s)
    BY HasNone DEF Init, InQueue
  <2>3. applied[s][r] = <<>>
    BY DEF Init
  <2>4. \A i \in DOMAIN applied[s][r] : FALSE
    BY <2>3
  <2> QED
    BY <2>1, <2>2, <2>4 DEF RequestInv, AppliedInv, Done, NoResp
<1>6. \A s \in Servers : QueueInv(s)
  BY DEF Init, QueueInv
<1> QED
  BY <1>1, <1>2, <1>3, <1>4, <1>5, <1>6 DEF RequestPathInv

LEMMA PathNext == RequestPathInv /\ [Next]_vars => RequestPathInv'
<1> SUFFICES ASSUME RequestPathInv, [Next]_vars PROVE RequestPathInv'
  OBVIOUS
<1>1. TypeOK'
  BY TypeNext DEF RequestPathInv
<1> QED
  BY <1>1, MainThreadInv, ListenerInv, WorkerInv, CollectiveStepInv, EnvironmentInv, StutterInv
  DEF Next, Finished

(* Without pack failures and spurious client wakeups, at any time every      *)
(* request is in one place between the client that sent it and its response, *)
(* and the client is still waiting for it: RequestPathInv is inductive.      *)
THEOREM RequestPath == Reliable /\ Spec => []RequestPathInv
<1>1. Reliable /\ Init => RequestPathInv
  BY PathInit
<1>2. RequestPathInv /\ [Next]_vars => RequestPathInv'
  BY PathNext
<1> QED
  BY <1>1, <1>2, PTL DEF Spec

-----------------------------------------------------------------------------
(* What the invariant is for. *)

LEMMA PathAnswers == RequestPathInv => AnswersMatch
BY InvTypes DEF MainInv, AnswersMatch

LEMMA PathSlot == RequestPathInv => SlotNotOverwritten
<1> SUFFICES ASSUME RequestPathInv, NEW s \in Servers, wpc[s] = "respond", witem[s].src = s
             PROVE  rmsg[s] = NULL
  BY DEF SlotNotOverwritten
<1>1. RequestInv(s, s) /\ InWorker(s, s)
  BY InvParts, ConstantsAssumption DEF InWorker
<1> QED
  BY <1>1 DEF RequestInv, InSlot

(* The current request of a rank that is outside its operations was carried  *)
(* out by every server it addresses.                                         *)
LEMMA NothingOutstanding ==
  ASSUME RequestPathInv, NEW r \in Ranks, cpc[r] \notin OpPcs
  PROVE  Outstanding(r) = {}
<1>1. wait[r] = {} /\ ~loc[r] /\ cpc[r] \notin LocalPcs \cup {"addself"}
  BY InvTypes DEF MainInv, OpPcs, RemotePcs, LocalPcs
<1>2. asked[r] \subseteq Servers
  BY InvTypes DEF MainType
<1>3. \A s \in asked[r] : Done(r, s)
  BY <1>1, <1>2, InvParts DEF AppliedInv
<1> QED
  BY <1>3 DEF Outstanding, Done

LEMMA PathStop == RequestPathInv => QuiescentStop
<1> SUFFICES ASSUME RequestPathInv, NEW s \in Servers, cancel[s]
             PROVE  /\ \A r \in Ranks : Outstanding(r) = {}
                    /\ wpc[s] \notin {"handle", "respond", "body"}
                    /\ lpc[s] # "add"
                    /\ rmsg[s] = NULL
                    /\ \A r \in Ranks : rsz[s][r] = <<>> /\ rbd[s][r] = <<>>
  BY DEF QuiescentStop
<1>1. s \in Ranks /\ \A r \in Ranks : cpc[r] \in StopPcs
  BY InvTypes, ConstantsAssumption DEF CollectiveInv
<1>2. \A r \in Ranks : cpc[r] \notin OpPcs /\ cpc[r] \notin RemotePcs \cup LocalPcs
  BY <1>1 DEF StopPcs, OpPcs, RemotePcs, LocalPcs
<1>3. \A r \in Ranks : /\ ~InListener(r, s) /\ ~InWorker(r, s) /\ ~InSlot(r, s)
                       /\ rsz[s][r] = <<>> /\ rbd[s][r] = <<>>
  BY <1>2, Idle
<1>4. lmsg[s].src \in Ranks /\ witem[s].src \in Ranks
  BY ItemParts, InvTypes DEF ServerType
<1> QED
  BY <1>1, <1>2, <1>3, <1>4, NothingOutstanding DEF InListener, InWorker, InSlot

LEMMA PathCommit == RequestPathInv => CommitSeesAllWrites
<1> SUFFICES ASSUME RequestPathInv, NEW s \in Servers, commit[s], NEW r \in Ranks
             PROVE  commit[r] /\ Outstanding(r) \subseteq {r}
  BY DEF CommitSeesAllWrites
<1>1. commit[r] /\ cpc[r] \in LocalPcs \cup {"addself", "cbar2"}
  BY InvTypes, ConstantsAssumption DEF CollectiveInv
<1>2. wait[r] = {} /\ asked[r] \subseteq Servers
  BY <1>1, InvTypes DEF MainInv, MainType, RemotePcs, LocalPcs
<1>3. \A t \in asked[r] : t = r \/ Done(r, t)
  BY <1>2, InvParts DEF AppliedInv
<1> QED
  BY <1>1, <1>3 DEF Outstanding, Done

(* Every response an operation takes answers the request of that operation,  *)
(* as long as requests can be packed and the client is not woken spuriously. *)
THEOREM AnswersCorrect == Reliable /\ Spec => []AnswersMatch
BY RequestPath, PathAnswers, PTL

(* The one-place mailbox md->receive_msg is never overwritten. *)
THEOREM SlotSafe == Reliable /\ Spec => []SlotNotOverwritten
BY RequestPath, PathSlot, PTL

(* mdhimClose cancels a worker only when no request and no response is left  *)
(* anywhere: range_server_stop discards no work.                             *)
THEOREM StopIsQuiescent == Reliable /\ Spec => []QuiescentStop
BY RequestPath, PathStop, PTL

(* While a range server commits, no data request of any rank is unapplied. *)
THEOREM CommitComplete == Reliable /\ Spec => []CommitSeesAllWrites
BY RequestPath, PathCommit, PTL

-----------------------------------------------------------------------------
(* RangeServers implements AtomicCalls, and carries out the requests of a    *)
(* rank in order.                                                            *)

(* The refinement mapping. *)
Busy == [r \in Ranks |-> cpc[r] \in OpPcs]
Todo == [r \in Ranks |-> Outstanding(r)]

(* A rank outside its operations has no request left to carry out. *)
ReturnedDone == \A r \in Ranks : cpc[r] \notin OpPcs => Outstanding(r) = {}

-----------------------------------------------------------------------------
(* What a step does to the mapped state. *)

LEMMA PathReturned == RequestPathInv => ReturnedDone
BY NothingOutstanding DEF ReturnedDone

LEMMA PathReturnedNext == RequestPathInv' => ReturnedDone'
BY PathReturned, PTL

(* Changing one place of a function. *)
LEMMA OnePlace ==
  ASSUME NEW A, NEW B, NEW f \in [A -> B], NEW g \in [A -> B], NEW a \in A, NEW b \in B,
         g[a] = b, \A x \in A : x # a => g[x] = f[x]
  PROVE  g = [f EXCEPT ![a] = b]
OBVIOUS

LEMMA BusyType ==
  /\ Busy \in [Ranks -> BOOLEAN] /\ Busy' \in [Ranks -> BOOLEAN]
  /\ \A r \in Ranks : /\ Busy[r] = (cpc[r] \in OpPcs)
                      /\ Busy'[r] = (cpc'[r] \in OpPcs)
<1>1. \A r \in Ranks : (cpc[r] \in OpPcs) \in BOOLEAN /\ (cpc'[r] \in OpPcs) \in BOOLEAN
  OBVIOUS
<1>2. Busy \in [Ranks -> BOOLEAN]
  BY <1>1 DEF Busy
<1>3. Busy' \in [Ranks -> BOOLEAN]
  BY <1>1 DEF Busy
<1>4. \A r \in Ranks : Busy[r] = (cpc[r] \in OpPcs)
  BY DEF Busy
<1>5. \A r \in Ranks : Busy'[r] = (cpc'[r] \in OpPcs)
  BY DEF Busy
<1> QED
  BY <1>2, <1>3, <1>4, <1>5

LEMMA TodoFacts ==
  ASSUME MainType, MainType'
  PROVE  /\ Todo \in [Ranks -> SUBSET Servers] /\ Todo' \in [Ranks -> SUBSET Servers]
         /\ \A r \in Ranks : Todo[r] = Outstanding(r) /\ Todo'[r] = Outstanding(r)'
<1>1. \A r \in Ranks : Outstanding(r) \in SUBSET Servers /\ Outstanding(r)' \in SUBSET Servers
  BY DEF MainType, Outstanding
<1> QED
  BY <1>1 DEF Todo

LEMMA TodoKept ==
  ASSUME UNCHANGED <<asked, op, applied>>
  PROVE  \A r \in Ranks : Outstanding(r)' = Outstanding(r)
BY DEF Outstanding

(* No main thread enters or leaves an operation and no request is applied. *)
LEMMA QuietStep ==
  ASSUME UNCHANGED <<asked, op, applied>>,
         \A r \in Ranks : cpc'[r] \in OpPcs <=> cpc[r] \in OpPcs
  PROVE  UNCHANGED <<Busy, Todo>>
<1>1. Busy' = Busy
  BY DEF Busy
<1>2. Todo' = Todo
  BY TodoKept DEF Todo
<1> QED
  BY <1>1, <1>2

(* One main thread leaves its operation. *)
LEMMA ReturnStep ==
  ASSUME RequestPathInv', UNCHANGED <<asked, op, applied>>, NEW r \in Ranks,
         cpc[r] \in OpPcs, cpc'[r] \notin OpPcs,
         \A q \in Ranks : q # r => cpc'[q] = cpc[q]
  PROVE  Calls!Return(r)
<1>1. Outstanding(r)' = {} /\ Outstanding(r) = {}
  BY PathReturnedNext, TodoKept DEF ReturnedDone
<1>2. Todo' = Todo /\ Todo[r] = {}
  BY <1>1, TodoKept DEF Todo
<1>3. Busy[r] = TRUE /\ Busy'[r] = FALSE
  BY BusyType
<1>4. \A q \in Ranks : q # r => Busy'[q] = Busy[q]
  BY BusyType
<1>5. Busy' = [Busy EXCEPT ![r] = FALSE]
  BY <1>3, <1>4, BusyType, OnePlace
<1> QED
  BY <1>2, <1>3, <1>5 DEF Calls!Return, Busy, Todo

LEMMA CallStep ==
  ASSUME RequestPathInv, RequestPathInv', NEW r \in Ranks, NEW S \in Targets[r],
         NEW F \in SUBSET (S \ {r}), Issue(r, S, F)
  PROVE  Calls!Call(r, S) /\ S \in SUBSET Servers
<1>1. S \subseteq Servers
  BY ConstantsAssumption
<1>2. /\ cpc[r] = "app" /\ cpc'[r] = "send" /\ op'[r] = op[r] + 1 /\ asked'[r] = S
      /\ op[r] \in Nat /\ applied' = applied
  BY InvTypes DEF Issue, MainType, serverVars
<1>3. \A q \in Ranks : q # r => cpc'[q] = cpc[q] /\ op'[q] = op[q] /\ asked'[q] = asked[q]
  BY InvTypes DEF Issue, MainType
<1>4. Outstanding(r)' = S
  <2>1. \A s \in S : \A i \in DOMAIN applied[s][r] : applied[s][r][i] # op[r] + 1
    <3> SUFFICES ASSUME NEW s \in S, NEW i \in DOMAIN applied[s][r]
                 PROVE  applied[s][r][i] # op[r] + 1
      OBVIOUS
    <3>1. applied[s][r][i] <= op[r]
      BY <1>1, InvParts DEF AppliedInv
    <3>2. applied[s][r][i] \in Nat
      BY <1>1, InvTypes DEF ServerType
    <3> QED
      BY <1>2, <3>1, <3>2
  <2> QED
    BY <1>2, <2>1 DEF Outstanding
<1>5. \A q \in Ranks : q # r => Outstanding(q)' = Outstanding(q)
  BY <1>2, <1>3 DEF Outstanding
<1>6. MainType /\ MainType'
  BY DEF RequestPathInv, TypeOK
<1>7. Todo' = [Todo EXCEPT ![r] = S]
  BY <1>1, <1>4, <1>5, <1>6, TodoFacts, OnePlace
<1>8. Busy[r] = FALSE /\ Busy'[r] = TRUE /\ \A q \in Ranks : q # r => Busy'[q] = Busy[q]
  BY <1>2, <1>3, BusyType DEF OpPcs
<1>9. Busy' = [Busy EXCEPT ![r] = TRUE]
  BY <1>8, BusyType, OnePlace
<1> QED
  BY <1>1, <1>7, <1>8, <1>9 DEF Calls!Call, Busy, Todo

LEMMA CallAllStep ==
  ASSUME RequestPathInv, CommitBarrier1
  PROVE  Calls!CallAll
<1>1. \A r \in Ranks : /\ cpc[r] = "cbar1" /\ op'[r] = op[r] + 1 /\ op[r] \in Nat
                       /\ asked'[r] = {r} \cap Servers
                       /\ cpc'[r] = IF r \in Servers THEN "addself" ELSE "cbar2"
  BY InvTypes DEF CommitBarrier1, MainType
<1>2. applied' = applied
  BY DEF CommitBarrier1, serverVars
<1>3. \A r \in Ranks : Outstanding(r)' = {r} \cap Servers
  <2> SUFFICES ASSUME NEW r \in Ranks PROVE Outstanding(r)' = {r} \cap Servers
    OBVIOUS
  <2>1. \A s \in {r} \cap Servers : \A i \in DOMAIN applied[s][r] : applied[s][r][i] # op[r] + 1
    <3> SUFFICES ASSUME NEW s \in Servers, NEW i \in DOMAIN applied[s][r]
                 PROVE  applied[s][r][i] # op[r] + 1
      OBVIOUS
    <3>1. applied[s][r][i] <= op[r]
      BY InvParts DEF AppliedInv
    <3>2. applied[s][r][i] \in Nat
      BY InvTypes DEF ServerType
    <3> QED
      BY <1>1, <3>1, <3>2
  <2> QED
    BY <1>1, <1>2, <2>1 DEF Outstanding
<1>4. Todo' = [r \in Ranks |-> IF r \in Servers THEN {r} ELSE {}]
  <2>1. \A r \in Ranks : Outstanding(r)' = IF r \in Servers THEN {r} ELSE {}
    BY <1>3
  <2> QED
    BY <2>1 DEF Todo
<1>5. Busy' = [r \in Ranks |-> r \in Servers]
  <2>1. \A r \in Ranks : cpc'[r] \in OpPcs <=> r \in Servers
    BY <1>1 DEF OpPcs
  <2> QED
    BY <2>1 DEF Busy
<1>6. \A r \in Ranks : ~Busy[r]
  BY <1>1, BusyType DEF OpPcs
<1> QED
  BY <1>4, <1>5, <1>6 DEF Calls!CallAll, Busy, Todo

LEMMA ApplyStep ==
  ASSUME RequestPathInv, RequestPathInv', NEW s \in Servers, HandleItem(s)
  PROVE  Calls!Apply(witem[s].src, s) \/ UNCHANGED <<Busy, Todo>>
<1> DEFINE c == witem[s].src
<1>1. c \in Ranks
  BY ItemParts, InvTypes DEF ServerType
<1>2. UNCHANGED <<cpc, op, asked, witem>> /\ wpc[s] = "handle"
  BY DEF HandleItem, mainVars, opVars
<1>3. RequestInv(c, s) /\ AppliedInv(c, s) /\ InWorker(c, s)
  BY <1>1, <1>2, InvParts DEF InWorker
<1>4. ~Done(c, s) /\ Expecting(c, s)
  BY <1>2, <1>3 DEF AppliedInv, RequestInv
<1>5. cpc[c] \in OpPcs
  BY <1>1, <1>4, InvTypes DEF Expecting, MainInv, OpPcs, LocalPcs, RemotePcs
<1>6. \A q \in Ranks, t \in Servers : q # c \/ t # s => applied'[t][q] = applied[t][q]
  BY <1>1, InvTypes DEF HandleItem, ServerType
<1>7. Done(c, s)'
  <2>1. witem'[s].src = c /\ wpc'[s] = "respond"
    BY <1>2, InvTypes DEF HandleItem, ServerType
  <2>2. AppliedInv(c, s)'
    BY <1>1, <1>2 DEF RequestPathInv
  <2> QED
    BY <1>2, <2>1, <2>2 DEF AppliedInv
<1>8. \A q \in Ranks : q # c => Outstanding(q)' = Outstanding(q)
  BY <1>2, <1>6, InvTypes DEF Outstanding, MainType
<1>9. Outstanding(c)' = Outstanding(c) \ {s}
  BY <1>1, <1>2, <1>6, <1>7, InvTypes, SMTT(20) DEF Outstanding, MainType, Done
<1>10. Busy' = Busy
  BY <1>2 DEF Busy
<1>11. MainType /\ MainType' /\ c' = c
  BY <1>2 DEF RequestPathInv, TypeOK
<1> HIDE DEF c
<1>12. Todo' = [Todo EXCEPT ![c] = @ \ {s}]
  <2>1. Todo'[c] = Todo[c] \ {s} /\ \A q \in Ranks : q # c => Todo'[q] = Todo[q]
    BY <1>1, <1>8, <1>9, <1>11, TodoFacts
  <2>2. Todo[c] \ {s} \in SUBSET Servers
    BY <1>1, <1>11, TodoFacts
  <2> QED
    BY <1>1, <1>11, <2>1, <2>2, TodoFacts, OnePlace
<1>13. CASE s \in Outstanding(c)
  <2>1. Busy[c] /\ s \in Todo[c]
    BY <1>1, <1>5, <1>11, <1>13, BusyType, TodoFacts
  <2> QED
    BY <1>10, <1>12, <2>1 DEF Calls!Apply, Busy, Todo, c
<1>14. CASE s \notin Outstanding(c)
  <2>1. \A q \in Ranks : Todo'[q] = Todo[q]
    BY <1>1, <1>8, <1>9, <1>11, <1>14, TodoFacts
  <2>2. Todo' = Todo
    BY <1>11, <2>1, TodoFacts
  <2> QED
    BY <1>10, <2>2
<1> QED
  BY <1>13, <1>14

-----------------------------------------------------------------------------
(* Every step is a step of AtomicCalls or leaves the mapped state alone. *)

Refines == [Calls!Next]_(Calls!vars)

LEMMA QuietRefines ==
  ASSUME UNCHANGED <<Busy, Todo>>
  PROVE  Refines
BY DEF Refines, Calls!vars, Busy, Todo

(* A step of one main thread that starts no request. *)
LEMMA MainMoveRefines ==
  ASSUME RequestPathInv', UNCHANGED <<asked, op, applied>>, NEW r \in Ranks,
         cpc'[r] \in OpPcs => cpc[r] \in OpPcs,
         \A q \in Ranks : q # r => cpc'[q] = cpc[q]
  PROVE  Refines
<1>1. CASE cpc'[r] \in OpPcs \/ cpc[r] \notin OpPcs
  <2>1. \A q \in Ranks : cpc'[q] \in OpPcs <=> cpc[q] \in OpPcs
    BY <1>1
  <2> QED
    BY <2>1, QuietStep, QuietRefines
<1>2. CASE cpc'[r] \notin OpPcs /\ cpc[r] \in OpPcs
  <2>1. Calls!Return(r)
    BY <1>2, ReturnStep
  <2> QED
    BY <2>1 DEF Refines, Calls!Next
<1> QED
  BY <1>1, <1>2

LEMMA MainThreadRefines ==
  ASSUME RequestPathInv, RequestPathInv', NEW r \in Ranks, MainThread(r)
  PROVE  Refines
<1>1. CASE SendDone(r)
  <2>1. /\ UNCHANGED <<asked, op, applied>> /\ cpc[r] = "send"
        /\ \A q \in Ranks : q # r => cpc'[q] = cpc[q]
    BY <1>1, InvTypes DEF SendDone, opVars, serverVars, MainType
  <2> QED
    BY <2>1, MainMoveRefines DEF OpPcs
<1>2. ASSUME NEW s \in Servers, ReceiveSize(r, s) \/ ReceiveBody(r, s)
      PROVE  Refines
  <2>1. /\ UNCHANGED <<asked, op, applied>> /\ cpc[r] \in {"rsize", "rbody"}
        /\ \A q \in Ranks : q # r => cpc'[q] = cpc[q]
    BY <1>2, InvTypes DEF ReceiveSize, ReceiveBody, serverVars, MainType
  <2> QED
    BY <2>1, MainMoveRefines DEF OpPcs
<1>3. CASE LocalAddWork(r)
  <2>1. /\ UNCHANGED <<asked, op, applied>> /\ cpc[r] = "addself"
        /\ \A q \in Ranks : q # r => cpc'[q] = cpc[q]
    BY <1>3, InvTypes DEF LocalAddWork, MainType
  <2> QED
    BY <2>1, MainMoveRefines DEF OpPcs
<1>4. CASE get_msg_self(r)
  <2>1. /\ UNCHANGED <<asked, op, applied>> /\ cpc[r] \in {"self", "selfwoken"}
        /\ \A q \in Ranks : q # r => cpc'[q] = cpc[q]
    BY <1>4, InvTypes DEF get_msg_self, TakeMsg, opVars, serverVars, MainType
  <2> QED
    BY <2>1, MainMoveRefines DEF OpPcs
<1>5. CASE range_server_stop(r)
  <2>1. /\ UNCHANGED <<asked, op, applied>> /\ cpc'[r] \in {"joinL", "joinW", "stop", "bar2"}
        /\ \A q \in Ranks : q # r => cpc'[q] = cpc[q]
    BY <1>5, InvTypes DEF range_server_stop, opVars, serverVars, MainType
  <2> QED
    BY <2>1, MainMoveRefines DEF OpPcs
<1> QED
  BY <1>1, <1>2, <1>3, <1>4, <1>5 DEF MainThread

LEMMA ServerRefines ==
  ASSUME RequestPathInv, RequestPathInv', NEW s \in Servers, Listener(s) \/ Worker(s)
  PROVE  Refines
<1>1. CASE HandleItem(s)
  <2>1. witem[s].src \in Ranks
    BY ItemParts, InvTypes DEF ServerType
  <2>2. Calls!Apply(witem[s].src, s) \/ UNCHANGED <<Busy, Todo>>
    BY <1>1, ApplyStep
  <2> QED
    BY <2>1, <2>2, QuietRefines DEF Refines, Calls!Next
<1>2. CASE RespondLocal(s)
  <2>1. UNCHANGED <<asked, op, applied>>
    BY <1>2 DEF RespondLocal, opVars
  <2>2. \A q \in Ranks : cpc'[q] \in OpPcs <=> cpc[q] \in OpPcs
    BY <1>2, InvTypes DEF RespondLocal, MainType, OpPcs
  <2> QED
    BY <2>1, <2>2, QuietStep, QuietRefines
<1>3. CASE Listener(s)
  <2>1. UNCHANGED <<asked, op, applied, cpc>>
    BY <1>3 DEF Listener, ReceiveWorkSize, receive_rangesrv_work, ListenerAddWork, mainVars, opVars
  <2> QED
    BY <2>1, QuietStep, QuietRefines
<1>4. CASE \/ WorkerLock(s) \/ WorkerWoken(s) \/ SendSize(s) \/ SendBody(s)
           \/ BodyReceived(s) \/ FreeItem(s) \/ WorkerCancelled(s)
  <2>1. UNCHANGED <<asked, op, applied, cpc>>
    BY <1>4 DEF WorkerLock, WorkerWoken, SendSize, SendBody, BodyReceived, FreeItem,
                WorkerCancelled, mainVars, opVars
  <2> QED
    BY <2>1, QuietStep, QuietRefines
<1> QED
  BY <1>1, <1>2, <1>3, <1>4 DEF Worker

LEMMA CollectiveRefines ==
  ASSUME RequestPathInv, RequestPathInv', Collective
  PROVE  Refines
<1>1. CASE CommitBarrier1
  BY <1>1, CallAllStep DEF Refines, Calls!Next
<1>2. CASE CommitBarrier2 \/ CloseBarrier1 \/ client_close \/ CloseBarrier2
  <2>1. UNCHANGED <<asked, op, applied>>
    BY <1>2 DEF CommitBarrier2, CloseBarrier1, client_close, CloseBarrier2, opVars, serverVars
  <2>2. \A q \in Ranks : cpc'[q] \in OpPcs <=> cpc[q] \in OpPcs
    BY <1>2, InvTypes DEF CommitBarrier2, CloseBarrier1, client_close, CloseBarrier2,
                          Stopping, MainType, OpPcs
  <2> QED
    BY <2>1, <2>2, QuietStep, QuietRefines
<1> QED
  BY <1>1, <1>2 DEF Collective

LEMMA EnvironmentRefines ==
  ASSUME RequestPathInv, RequestPathInv', Environment
  PROVE  Refines
<1>1. ASSUME NEW r \in Ranks, NEW S \in Targets[r], NEW F \in SUBSET (S \ {r}), Issue(r, S, F)
      PROVE  Refines
  BY <1>1, CallStep DEF Refines, Calls!Next
<1>2. ASSUME NEW r \in Ranks, EnterCommit(r) \/ EnterClose(r)
      PROVE  Refines
  <2>1. /\ UNCHANGED <<asked, op, applied>> /\ cpc'[r] \in {"cbar1", "bar1"}
        /\ \A q \in Ranks : q # r => cpc'[q] = cpc[q]
    BY <1>2, InvTypes DEF EnterCommit, EnterClose, opVars, serverVars, MainType
  <2> QED
    BY <2>1, MainMoveRefines DEF OpPcs
<1>3. \A r \in Ranks : ~SpuriousClientWakeup(r)
  BY DEF SpuriousClientWakeup, RequestPathInv, Reliable
<1>4. ASSUME NEW s \in Servers, SpuriousWorkerWakeup(s)
      PROVE  Refines
  <2>1. UNCHANGED <<asked, op, applied, cpc>>
    BY <1>4 DEF SpuriousWorkerWakeup, mainVars, opVars
  <2> QED
    BY <2>1, QuietStep, QuietRefines
<1> QED
  BY <1>1, <1>2, <1>3, <1>4 DEF Environment

LEMMA StepRefines ==
  ASSUME RequestPathInv, RequestPathInv', [Next]_vars
  PROVE  Refines
<1>1. CASE UNCHANGED vars
  <2>1. UNCHANGED <<asked, op, applied, cpc>>
    BY <1>1 DEF vars, mainVars, opVars, serverVars
  <2> QED
    BY <2>1, QuietStep, QuietRefines
<1> QED
  BY <1>1, MainThreadRefines, ServerRefines, CollectiveRefines, EnvironmentRefines
     DEF Next, Finished

LEMMA InitRefines == Init => Calls!Init
<1> SUFFICES ASSUME Init PROVE Calls!Init
  OBVIOUS
<1>1. \A r \in Ranks : cpc[r] = "app" /\ Outstanding(r) = {}
  BY DEF Init, Outstanding
<1>2. Busy = [r \in Ranks |-> FALSE]
  <2>1. \A r \in Ranks : cpc[r] \notin OpPcs
    BY <1>1 DEF OpPcs
  <2>2. \A r \in Ranks : Busy[r] = FALSE
    BY <2>1, BusyType
  <2> QED
    BY <2>2, BusyType
<1>3. Todo = [r \in Ranks |-> {}]
  BY <1>1 DEF Todo
<1> QED
  BY <1>2, <1>3 DEF Calls!Init, Busy, Todo

(* The request path implements atomic calls: every server an operation       *)
(* addresses carries it out exactly once, between its call and its return.   *)
THEOREM CallsAreAtomic == Reliable /\ Spec => ImplementsAtomicCalls
<1>1. Init => Calls!Init
  BY InitRefines
<1>2. RequestPathInv /\ RequestPathInv' /\ [Next]_vars => [Calls!Next]_(Calls!vars)
  BY StepRefines DEF Refines
<1> QED
  BY <1>1, <1>2, RequestPath, PTL DEF Spec, ImplementsAtomicCalls, Calls!Spec

-----------------------------------------------------------------------------
(* The order of a rank's requests. *)

Increasing(q) == \A i, j \in DOMAIN q : i < j => q[i] < q[j]

LEMMA IncreasingAppend ==
  ASSUME NEW q \in Seq(Nat), NEW n \in Nat, Increasing(q), \A i \in DOMAIN q : q[i] < n
  PROVE  Increasing(Append(q, n))
BY DEF Increasing

(* Only HandleItem changes what was applied. *)
LEMMA AppliedKept ==
  ASSUME [Next]_vars, \A s \in Servers : ~HandleItem(s)
  PROVE  applied' = applied
<1>1. CASE UNCHANGED vars
  BY <1>1 DEF vars, serverVars
<1>2. ASSUME NEW r \in Ranks, MainThread(r)
      PROVE  applied' = applied
  BY <1>2 DEF MainThread, SendDone, ReceiveSize, ReceiveBody, LocalAddWork, get_msg_self,
              TakeMsg, range_server_stop, serverVars
<1>3. ASSUME NEW s \in Servers, Listener(s)
      PROVE  applied' = applied
  BY <1>3 DEF Listener, ReceiveWorkSize, receive_rangesrv_work, ListenerAddWork
<1>4. ASSUME NEW s \in Servers, Worker(s)
      PROVE  applied' = applied
  BY <1>4 DEF Worker, WorkerLock, WorkerWoken, RespondLocal, SendSize, SendBody,
              BodyReceived, FreeItem, WorkerCancelled
<1>5. CASE Collective
  BY <1>5 DEF Collective, CommitBarrier1, CommitBarrier2, CloseBarrier1, client_close,
              CloseBarrier2, serverVars
<1>6. CASE Environment
  BY <1>6 DEF Environment, Issue, EnterCommit, EnterClose, SpuriousClientWakeup,
              SpuriousWorkerWakeup, serverVars
<1> QED
  BY <1>1, <1>2, <1>3, <1>4, <1>5, <1>6 DEF Next, Finished

LEMMA OrderNext ==
  ASSUME RequestPathInv, AppliedInOrder, [Next]_vars
  PROVE  AppliedInOrder'
<1>1. CASE \A s \in Servers : ~HandleItem(s)
  BY <1>1, AppliedKept DEF AppliedInOrder
<1>2. ASSUME NEW s \in Servers, HandleItem(s)
      PROVE  AppliedInOrder'
  <2> DEFINE c == witem[s].src
  <2>1. c \in Ranks /\ op[c] \in Nat /\ witem[s].id \in Nat /\ applied[s][c] \in Seq(Nat)
    BY ItemParts, InvTypes DEF MainType, ServerType
  <2>2. wpc[s] = "handle" /\ InWorker(c, s)
    BY <1>2 DEF HandleItem, InWorker
  <2>3. witem[s].id = op[c] /\ ~Done(c, s)
    BY <2>1, <2>2, InvParts DEF RequestInv, AppliedInv
  <2>4. \A i \in DOMAIN applied[s][c] : applied[s][c][i] <= op[c]
    BY <2>1, InvParts DEF AppliedInv
  <2>5. \A i \in DOMAIN applied[s][c] : applied[s][c][i] < op[c]
    BY <2>1, <2>3, <2>4 DEF Done
  <2>6. \A t \in Servers, r \in Ranks : Increasing(applied[t][r])
    BY DEF AppliedInOrder, Increasing
  <2>7. /\ applied'[s][c] = Append(applied[s][c], op[c])
        /\ \A t \in Servers, r \in Ranks : t # s \/ r # c => applied'[t][r] = applied[t][r]
    BY <1>2, <2>1, <2>3, InvTypes DEF HandleItem, ServerType
  <2>8. \A t \in Servers, r \in Ranks : Increasing(applied'[t][r])
    <3> HIDE DEF c
    <3>1. Increasing(applied'[s][c])
      BY <2>1, <2>5, <2>6, <2>7, IncreasingAppend
    <3> QED
      BY <2>6, <2>7, <3>1
  <2> QED
    BY <2>8 DEF AppliedInOrder, Increasing
<1> QED
  BY <1>1, <1>2

(* A server carries out the requests of a rank in the order the rank made    *)
(* them, and none twice.                                                     *)
THEOREM OrderKept == Reliable /\ Spec => []AppliedInOrder
<1>1. Init => AppliedInOrder
  BY DEF Init, AppliedInOrder
<1>2. RequestPathInv /\ AppliedInOrder /\ [Next]_vars => AppliedInOrder'
  BY OrderNext
<1> QED
  BY <1>1, <1>2, RequestPath, PTL DEF Spec
============================================================================
