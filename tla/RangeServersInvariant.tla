----------------------- MODULE RangeServersInvariant -----------------------
(***************************************************************************)
(* The inductive invariant behind the safety properties of RangeServers:   *)
(* at any time a request is in at most one place between its client and    *)
(* its response, and its client is still waiting for it.                   *)
(***************************************************************************)
EXTENDS RangeServers

(* The conditions under which the request path keeps its promises: every     *)
(* request can be packed, and get_msg_self is not woken without a signal.    *)
Reliable == "pack" \notin Faults /\ "client" \notin Spurious

RemotePcs == {"send", "rsize", "rbody"}
LocalPcs  == {"self", "selfwait", "selfwoken"}

(* The sequence q of items holds an item of rank r. *)
HasItem(q, r) == \E i \in 1..Len(q) : q[i].src = r

(* The places a request of rank r to server s can be in. *)
InReq(r, s)      == req[r][s] # <<>>
InListener(r, s) == lpc[s] = "add" /\ lmsg[s].src = r
InQueue(r, s)    == HasItem(queue[s], r)
InWorker(r, s)   == wpc[s] \in {"handle", "respond", "body"} /\ witem[s].src = r
InSlot(r, s)     == r = s /\ rmsg[s] # NULL
NoResp(r, s)     == rsz[s][r] = <<>> /\ rbd[s][r] = <<>>

(* Server s has carried out the current request of rank r. *)
Done(r, s) == \E i \in DOMAIN applied[s][r] : applied[s][r][i] = op[r]

(* Rank r is waiting for the response of server s. *)
Expecting(r, s) == IF r = s THEN cpc[r] \in LocalPcs ELSE s \in wait[r]

(* The worker holds the mutex exactly while it processes items, unless it    *)
(* was cancelled then.                                                       *)
MutexInv ==
  \A s \in Servers : /\ wpc[s] \in BusyPcs => held[s]
                     /\ held[s] => wpc[s] \in BusyPcs \cup {"dead"}

(* What the place of the main thread says about the rest of its state. *)
MainInv ==
  \A r \in Ranks :
    /\ wait[r] # {} => cpc[r] \in RemotePcs
    /\ r \notin wait[r] /\ r \notin sized[r]
    /\ cpc[r] = "rbody" => wait[r] \subseteq sized[r]
    /\ loc[r] => r \in Servers /\ cpc[r] \in RemotePcs \cup {"addself"}
    /\ cpc[r] \in LocalPcs \cup {"addself", "cancel", "joinL", "joinW", "stop"} => r \in Servers
    /\ cpc[r] \in OpPcs => op[r] > 0
    /\ got[r] \subseteq {op[r]}

(* The collective calls keep the ranks together. *)
CollectiveInv ==
  /\ \A r \in Ranks : commit[r] => cpc[r] \in LocalPcs \cup {"addself", "cbar2"}
  /\ \A r \in Ranks : cpc[r] = "cbar2" => commit[r]
  /\ \A r, q \in Ranks : commit[r] => commit[q]
  /\ \A r, q \in Ranks : cpc[r] \in StopPcs => cpc[q] \in StopPcs
  /\ \A s \in Servers : cancel[s] => cpc[s] \in StopPcs

(* A request is in at most one place, and its client waits for it. *)
RequestInv(r, s) ==
  /\ InReq(r, s) =>
       \/ req[r][s] = <<CloseMsg>> /\ r = Root /\ cpc[r] \in StopPcs \ {"closing"}
       \/ /\ req[r][s] = <<op[r]>> /\ s \in wait[r] \ sized[r]
          /\ ~InListener(r, s) /\ ~InQueue(r, s) /\ ~InWorker(r, s) /\ NoResp(r, s)
  /\ InListener(r, s) =>
       /\ lmsg[s].id = op[r] /\ s \in wait[r] \ sized[r]
       /\ ~InQueue(r, s) /\ ~InWorker(r, s) /\ NoResp(r, s)
  /\ InQueue(r, s) =>
       /\ Expecting(r, s) /\ s \notin sized[r]
       /\ ~InWorker(r, s) /\ ~InSlot(r, s) /\ NoResp(r, s)
  /\ InWorker(r, s) =>
       /\ Expecting(r, s) /\ witem[s].id = op[r] /\ ~InSlot(r, s)
       /\ rbd[s][r] = <<>> 
       /\ wpc[s] # "body" => rsz[s][r] = <<>> /\ s \notin sized[r]
  /\ wpc[s] = "body" => witem[s].src # s
  /\ InSlot(r, s) => cpc[r] \in LocalPcs \ {"selfwait"} /\ rmsg[s] = op[r]
  /\ r = s /\ cpc[r] = "selfwoken" => rmsg[s] # NULL
  /\ rsz[s][r] # <<>> =>
       rsz[s][r] = <<op[r]>> /\ s \in wait[r] \ sized[r]
  /\ rbd[s][r] # <<>> => rbd[s][r] = <<op[r]>> /\ s \in wait[r]

(* A request that left the client's wait list was carried out, and so was    *)
(* one that has a response; what was carried out is no newer than op[r].     *)
AppliedInv(r, s) ==
  /\ \A i \in DOMAIN applied[s][r] : applied[s][r][i] <= op[r]
  /\ InReq(r, s) /\ s \in wait[r] => ~Done(r, s)
  /\ InListener(r, s) \/ InQueue(r, s) => ~Done(r, s)
  /\ wpc[s] = "handle" /\ witem[s].src = r => ~Done(r, s)
  /\ wpc[s] \in {"respond", "body"} /\ witem[s].src = r => Done(r, s)
  /\ InSlot(r, s) \/ rsz[s][r] # <<>> \/ rbd[s][r] # <<>> => Done(r, s)
  /\ s = r /\ (loc[r] \/ cpc[r] = "addself") => ~Done(r, s)
  /\ s \in asked[r] => \/ Done(r, s)
                       \/ s # r /\ s \in wait[r]
                       \/ s = r /\ (loc[r] \/ cpc[r] \in LocalPcs \cup {"addself"})

(* A queued item is the current request of its rank, once. *)
QueueInv(s) ==
  \A i \in 1..Len(queue[s]) :
    /\ queue[s][i].id = op[queue[s][i].src]
    /\ \A j \in 1..Len(queue[s]) : queue[s][i].src = queue[s][j].src => i = j

(* The inductive invariant. *)
RequestPathInv ==
  /\ Reliable
  /\ TypeOK
  /\ MutexInv
  /\ MainInv
  /\ CollectiveInv
  /\ \A r \in Ranks, s \in Servers : RequestInv(r, s)
  /\ \A r \in Ranks, s \in Servers : AppliedInv(r, s)
  /\ \A s \in Servers : QueueInv(s)

=============================================================================
