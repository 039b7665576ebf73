-------------------------------- MODULE Pwt --------------------------------
(***************************************************************************)
(* The manager and the workers of pftool's parallel work tool (pwt/), run  *)
(* by its two applications: the tree walk and the file compare (apps/).    *)
(* The manager keeps the queues, the table of busy ranks, the job's        *)
(* counters and the chunk table; a worker takes one item at a time, asks   *)
(* leave before it hands over new work, and says when it is done.          *)
(*                                                                         *)
(* MPI is external: between two ranks messages arrive once and in order,   *)
(* and a send does not wait.  send_workitem's two messages (the size, then *)
(* the item) are one here: both go to one rank, and get_workitem reads the *)
(* second from the source of the first.                                    *)
(***************************************************************************)
EXTENDS PwtData, FiniteSetsExt

CONSTANTS
  Options    \* the jobs: [app, roots, meta_only, verbose, max, faults], faults
             \* a subset of {"opendir", "open", "read", "heap", "quit"}

(* A job has a start path; its queues are unlimited when max < 0. *)
ASSUME JobAssumption ==
  Options \subseteq
    [app : {"treewalk", "cmp"}, roots : Seq(Path) \ {<<>>}, meta_only : BOOLEAN,
     verbose : BOOLEAN, max : Int, faults : SUBSET {"opendir", "open", "read", "heap", "quit"}]

VARIABLES
  o,         \* the job's options
  mgr,       \* the manager: pc, and the rank and queue ackwork waits for
  workq,     \* dispatch->workq
  active,    \* dispatch->processes
  chunktab,  \* cmp_chunktab
  jobstats,  \* the job's PerfStat
  toMgr,     \* toMgr[w]: the items sent by w and not received by the manager
  toWrk,     \* toWrk[w]: the other direction
  wk,        \* wk[w]: the worker's state, the locals of its work function
  printed,   \* printed[p]: what was printed of path p
  statted,   \* statted[p]: the lstat calls treewalk_statpath made for p
  failed     \* the faults that happened, and to which path or rank

manager == <<mgr, workq, active, chunktab, jobstats>>
vars == <<o, manager, toMgr, toWrk, wk, printed, statted, failed>>

Queues == 0..((IF o.app = "cmp" THEN 2 ELSE 1) - 1)

Waiting ==
  [pc |-> "wait", item |-> workitem_new(MANAGER_PROC), i |-> 1, dip |-> FALSE, ents |-> <<>>,
   out |-> <<>>, perf |-> perfstat_new, pair |-> NoData, offer |-> workitem_new(MANAGER_PROC)]

Init ==
  /\ o \in Options
  /\ mgr = [pc |-> "init", rank |-> MANAGER_PROC, idx |-> 0]
  /\ workq = [q \in Queues |-> <<>>]
  /\ active = [p \in {MANAGER_PROC} \cup Workers |-> p = MANAGER_PROC]
  /\ chunktab = fchunktbl_create
  /\ jobstats = perfstat_new
  /\ toMgr = [w \in Workers |-> <<>>] /\ toWrk = [w \in Workers |-> <<>>]
  /\ wk = [w \in Workers |-> Waiting]
  /\ printed = [p \in Path |-> <<>>] /\ statted = [p \in Path |-> 0]
  /\ failed = {}

(***************************************************************************)
(* Messages.                                                               *)
(***************************************************************************)
SendToWorker(item, w) ==
  toWrk' = [toWrk EXCEPT ![w] = Append(@, [item EXCEPT !.originator = MANAGER_PROC])]

SendToManager(items, w) ==
  toMgr' = [toMgr EXCEPT
              ![w] = @ \o [n \in 1..Len(items) |-> [items[n] EXCEPT !.originator = w]]]

message_ready == \E w \in Workers : toMgr[w] # <<>>

(***************************************************************************)
(* The scheduler.                                                          *)
(***************************************************************************)
Idle == {w \in Workers : ~active[w]}

processing_get_idle == CHOOSE w \in Idle : \A v \in Idle : w <= v

(* A mutant: the manager's own entry is taken for a second busy rank. *)
complete_with_two == Cardinality({p \in DOMAIN active : active[p]}) <= 2

processing_complete == \A v, w \in DOMAIN active : active[v] /\ active[w] => v = w

WorkQueued == {q \in Queues : workq[q] # <<>>}

scheduler_canAssignWork == WorkQueued # {} /\ Idle # {}

scheduler_workDone == WorkQueued = {} /\ processing_complete

HighestIdx(idx) == IF idx \in Queues THEN idx ELSE CHOOSE q \in Queues : q + 1 \notin Queues

(* scheduler_getwork: the head of the highest queue, to the lowest idle rank. *)
scheduler_getwork(queues) ==
  LET q == CHOOSE k \in Queues : queues[k] # <<>> /\ \A j \in Queues : j > k => queues[j] = <<>>
  IN /\ workq' = [queues EXCEPT ![q] = Tail(@)]
     /\ active' = [active EXCEPT ![processing_get_idle] = TRUE]
     /\ SendToWorker(Head(queues[q]), processing_get_idle)

(* scheduler_addwork of items that are no requests: the start paths; every *)
(* item of a worker is asked for first.                                    *)
scheduler_addwork(queues, items) ==
  [queues EXCEPT ![HighestIdx(0)] = @ \o items]

(***************************************************************************)
(* The manager.                                                            *)
(***************************************************************************)
(* treewalk_startwork and cmp_startwork: queue a stat of every start path  *)
(* (the compare has one) and assign the first.                             *)
StartItem(p) ==
  [workitem_new(MANAGER_PROC) EXCEPT !.do_work = "treewalk_statpath", !.path = <<p>>]

startwork ==
  /\ mgr.pc = "init"
  /\ scheduler_getwork(scheduler_addwork(workq, [n \in 1..Len(o.roots) |-> StartItem(o.roots[n])]))
  /\ mgr' = [mgr EXCEPT !.pc = "probe"]
  /\ UNCHANGED <<o, chunktab, jobstats, toMgr, wk, printed, statted, failed>>

(* The probe and what follows it are two steps: a message may come between. *)
ManagerProbe ==
  /\ mgr.pc = "probe"
  /\ mgr' = [mgr EXCEPT !.pc = IF message_ready THEN "receive" ELSE "poll"]
  /\ UNCHANGED <<o, workq, active, chunktab, jobstats, toMgr, toWrk, wk, printed, statted, failed>>

ManagerAssign ==
  /\ mgr.pc = "poll" /\ scheduler_canAssignWork
  /\ scheduler_getwork(workq)
  /\ mgr' = [mgr EXCEPT !.pc = "probe"]
  /\ UNCHANGED <<o, chunktab, jobstats, toMgr, wk, printed, statted, failed>>

(* Nothing to assign: leave the loop if the work is done (cmp_endwork      *)
(* destroys the chunk table), else sleep and probe again.                  *)
ManagerPoll ==
  /\ mgr.pc = "poll" /\ ~scheduler_canAssignWork
  /\ mgr' = [mgr EXCEPT !.pc = IF scheduler_workDone THEN "end" ELSE "probe"]
  /\ UNCHANGED <<o, workq, active, chunktab, jobstats, toMgr, toWrk, wk, printed, statted, failed>>

(* manager_fini: scheduler_stop_processes tells every worker to exit. *)
manager_fini ==
  /\ mgr.pc = "end"
  /\ toWrk' = [w \in Workers |->
                 Append(toWrk[w], [workitem_new(MANAGER_PROC) EXCEPT !.do_work = "worker_exit"])]
  /\ mgr' = [mgr EXCEPT !.pc = "done"]
  /\ UNCHANGED <<o, workq, active, chunktab, jobstats, toMgr, wk, printed, statted, failed>>

manager_workdone(m) ==
  /\ active' = [active EXCEPT ![m.originator] = FALSE]
  /\ jobstats' = perfstat_add(jobstats, m.workdata.perf)
  /\ UNCHANGED <<chunktab, printed, failed>>

(* The chunk table after the outcome of a compare, and what is printed. *)
ChunksAfter(pair) ==
  LET left == fchunktbl_get(chunktab, pair.src) IN
  IF pair.chunknum < 0 THEN 0
  ELSE IF ~pair.matched THEN IF left >= 0 THEN 0 ELSE -1
  ELSE IF left > 0 THEN left - 1 ELSE left

Verdict(pair) ==
  IF ~pair.matched
    THEN IF pair.chunknum >= 0 /\ fchunktbl_get(chunktab, pair.src) < 0 THEN <<>> ELSE <<"differs">>
    ELSE IF o.verbose /\ ChunksAfter(pair) = 0 THEN <<"MATCHES">> ELSE <<>>

cmp_workdone(m) ==
  LET pair == m.workdata.files IN
  /\ active' = [active EXCEPT ![m.originator] = FALSE]
  /\ printed' = [printed EXCEPT ![pair.src] = @ \o Verdict(pair)]
  /\ chunktab' = IF ChunksAfter(pair) = 0
                   THEN fchunktbl_remove(chunktab, pair.src)
                   ELSE fchunktbl_update(chunktab, pair.src, ChunksAfter(pair))
  /\ jobstats' = perfstat_add(jobstats, m.workdata.perf)
  /\ UNCHANGED failed

(* The entry is lost when the table cannot be allocated. *)
cmp_addchunkfile(m) ==
  /\ \/ /\ chunktab' = fchunktbl_insert(chunktab, m.workdata.src, m.workdata.chunknum)
        /\ UNCHANGED failed
     \/ /\ "heap" \in o.faults
        /\ failed' = failed \cup {<<"heap", m.workdata.src>>}
        /\ UNCHANGED chunktab
  /\ UNCHANGED <<active, jobstats, printed>>

(* work->do_work of an item the manager runs itself. *)
ManagerRun(w) ==
  LET m == Head(toMgr[w]) IN
  /\ mgr.pc = "receive" /\ toMgr[w] # <<>> /\ m.manager_run
  /\ \/ m.do_work = "manager_workdone" /\ manager_workdone(m)
     \/ m.do_work = "cmp_workdone" /\ cmp_workdone(m)
     \/ m.do_work = "cmp_addchunkfile" /\ cmp_addchunkfile(m)
  /\ toMgr' = [toMgr EXCEPT ![w] = Tail(@)]
  /\ mgr' = [mgr EXCEPT !.pc = "probe"]
  /\ UNCHANGED <<o, workq, toWrk, wk, statted>>

(* Every other item is a request: scheduler_ackwork denies it when the     *)
(* queue is full; else it accepts and waits for the work itself.           *)
scheduler_ackwork(w) ==
  LET m == Head(toMgr[w])
      idx == HighestIdx(m.qidx)
      full == workq_full(workq[idx], o.max)
      answer == IF full THEN workreq_deny(m.workdata) ELSE WorkRequest(0)
  IN /\ mgr.pc = "receive" /\ toMgr[w] # <<>> /\ ~m.manager_run
     /\ SendToWorker([m EXCEPT !.workdata = answer], m.originator)
     /\ toMgr' = [toMgr EXCEPT ![w] = Tail(@)]
     /\ mgr' = IF full THEN [mgr EXCEPT !.pc = "probe"]
                       ELSE [pc |-> "getwork", rank |-> m.originator, idx |-> idx]
     /\ UNCHANGED <<o, workq, active, chunktab, jobstats, wk, printed, statted, failed>>

(* The rest of scheduler_ackwork: get_workitem blocks on that one worker. *)
AckedWork ==
  /\ mgr.pc = "getwork" /\ toMgr[mgr.rank] # <<>>
  /\ workq' = [workq EXCEPT ![mgr.idx] = Append(@, Head(toMgr[mgr.rank]))]
  /\ toMgr' = [toMgr EXCEPT ![mgr.rank] = Tail(@)]
  /\ mgr' = [pc |-> "probe", rank |-> MANAGER_PROC, idx |-> 0]
  /\ UNCHANGED <<o, active, chunktab, jobstats, toWrk, wk, printed, statted, failed>>

Manager ==
  \/ startwork \/ ManagerProbe \/ ManagerAssign \/ ManagerPoll \/ AckedWork \/ manager_fini
  \/ \E w \in Workers : ManagerRun(w) \/ scheduler_ackwork(w)

(***************************************************************************)
(* A worker.  "wait" in worker_run; "work" in a work function; "ack" in    *)
(* worker_sendrequest; "gone" after worker_run has returned.               *)
(***************************************************************************)
Set(w, state) == wk' = [wk EXCEPT ![w] = state]

OnlyWorker == UNCHANGED <<o, manager, printed, statted, failed>>

worker_receive(w) ==
  LET m == Head(toWrk[w]) IN
  /\ wk[w].pc = "wait" /\ toWrk[w] # <<>>
  /\ toWrk' = [toWrk EXCEPT ![w] = Tail(@)]
  /\ Set(w, IF m.do_work = "worker_exit"
              THEN [Waiting EXCEPT !.pc = IF m.originator = MANAGER_PROC THEN "gone" ELSE "wait"]
              ELSE [Waiting EXCEPT !.pc = "work", !.item = m])
  /\ UNCHANGED toMgr /\ OnlyWorker

(* worker_run returns after its hundredth probe that found no message. *)
worker_quit(w) ==
  /\ "quit" \in o.faults
  /\ wk[w].pc = "wait" /\ toWrk[w] = <<>>
  /\ Set(w, [Waiting EXCEPT !.pc = "gone"])
  /\ failed' = failed \cup {<<"quit", w>>}
  /\ UNCHANGED <<o, manager, toMgr, toWrk, printed, statted>>

(* pathwork_clear, once the buffer has been sent. *)
AfterSend(sent, out) == IF sent.workdata.type = "paths" THEN <<>> ELSE out

(* worker_sendrequest, first half: ask for room in queue rque for offer. *)
Request(rque, secs) ==
  [workitem_new(MANAGER_PROC) EXCEPT !.qidx = rque, !.workdata = WorkRequest(secs)]

worker_sendrequest(w, state, rque, offer) ==
  /\ Set(w, [state EXCEPT !.pc = "ack", !.offer = offer])
  /\ SendToManager(<<Request(rque, 0)>>, w)

(* Second half: hand over the work once accepted, else sleep and ask again. *)
worker_answered(w) ==
  LET m == Head(toWrk[w])
      secs == m.workdata.sleep_seconds
      sent == wk[w].offer
  IN /\ wk[w].pc = "ack" /\ toWrk[w] # <<>>
     /\ toWrk' = [toWrk EXCEPT ![w] = Tail(@)]
     /\ IF secs = 0
          THEN /\ SendToManager(<<sent>>, w)
               /\ Set(w, [wk[w] EXCEPT !.pc = "work", !.offer = workitem_new(MANAGER_PROC),
                                        !.out = AfterSend(sent, @)])
          ELSE SendToManager(<<Request(m.qidx, secs)>>, w) /\ UNCHANGED wk
     /\ OnlyWorker

(***************************************************************************)
(* The tree walk's work functions.                                         *)
(***************************************************************************)
Working(w, fn) == wk[w].pc = "work" /\ wk[w].item.do_work = fn

Todo(w) == PathsOf(wk[w].item)

Buffer(fn, paths) ==
  [workitem_new(MANAGER_PROC) EXCEPT !.do_work = fn, !.workdata = PathWork(paths)]

tw_senddirs(w, state) == worker_sendrequest(w, state, 0, Buffer("treewalk_readdir", state.out))

tw_sendpaths(w, state) == worker_sendrequest(w, state, 0, Buffer("treewalk_statpath", state.out))

tw_senddone(w, perf) ==
  /\ SendToManager(<<[workitem_new(MANAGER_PROC) EXCEPT
                        !.do_work = "manager_workdone", !.manager_run = TRUE,
                        !.workdata = [type |-> "perf", perf |-> perf]]>>, w)
  /\ Set(w, Waiting)

(* treewalk_statpath, one turn of its loop for a directory. *)
StatDir(w) ==
  LET s == wk[w]
      p == Todo(w)[s.i]
      next == [s EXCEPT !.i = @ + 1, !.perf = perfstat_inc_counter(@, "stats"), !.out = Append(@, p)]
  IN /\ Working(w, "treewalk_statpath") /\ s.pair = NoData
     /\ s.i <= Len(Todo(w)) /\ p \in DOMAIN Entries
     /\ statted' = [statted EXCEPT ![p] = @ + 1]
     /\ IF pathwork_isFull(next.out) THEN tw_senddirs(w, next)
                                     ELSE Set(w, next) /\ UNCHANGED toMgr
     /\ UNCHANGED <<o, manager, toWrk, printed, failed>>

(* cmp_process_file up to its first request: lstat the destination, and    *)
(* announce the chunks of a large file.                                    *)
cmp_sendchunkfileadd(pair) ==
  [workitem_new(MANAGER_PROC) EXCEPT
     !.do_work = "cmp_addchunkfile", !.manager_run = TRUE,
     !.workdata = [pair EXCEPT !.chunknum = nproc]]

(* A file is compared in chunks, or whole. *)
Chunked(f) == fileinfo_isChunkable(f) /\ ~o.meta_only

cmp_process_file(w, f, state) ==
  LET pair == filepair_new(f)
      counted == [state EXCEPT !.perf = perfstat_inc_counter(@, "stats")]
  IN IF Dest[f].lstat = "error"
       THEN Set(w, state) /\ UNCHANGED toMgr
     ELSE IF Chunked(f)
       THEN /\ SendToManager(<<cmp_sendchunkfileadd(pair)>>, w)
            /\ Set(w, [counted EXCEPT !.pair = [pair EXCEPT !.chunknum = 0]])
       ELSE Set(w, [counted EXCEPT !.pair = pair]) /\ UNCHANGED toMgr

(* treewalk_statpath, one turn for a file: processfile. *)
StatFile(w) ==
  LET s == wk[w]
      p == Todo(w)[s.i]
      next == [s EXCEPT !.i = @ + 1, !.perf = perfstat_inc_counter(@, "stats")]
  IN /\ Working(w, "treewalk_statpath") /\ s.pair = NoData
     /\ s.i <= Len(Todo(w)) /\ p \in DOMAIN Src
     /\ statted' = [statted EXCEPT ![p] = @ + 1]
     /\ \/ /\ o.app = "treewalk"                           \* treewalk_process_file
           /\ printed' = [printed EXCEPT ![p] = Append(@, "path")]
           /\ Set(w, next) /\ UNCHANGED toMgr
        \/ /\ o.app = "cmp"
           /\ cmp_process_file(w, p, next)
           /\ UNCHANGED printed
     /\ UNCHANGED <<o, manager, toWrk, failed>>

(* cmp_sendpaths: offer the pair, or the next chunk of it, to queue 1. *)
cmp_sendpaths(w) ==
  LET pair == wk[w].pair
      more == pair.chunknum >= 0 /\ pair.chunknum + 1 < nproc
  IN /\ Working(w, "treewalk_statpath") /\ pair # NoData
     /\ worker_sendrequest(w,
          [wk[w] EXCEPT !.pair = IF more THEN [pair EXCEPT !.chunknum = @ + 1] ELSE NoData], 1,
          [workitem_new(MANAGER_PROC) EXCEPT !.do_work = "cmp_compare", !.qidx = 1, !.workdata = pair])
     /\ UNCHANGED toWrk /\ OnlyWorker

(* A mutant: the manager is not told when a directory cannot be opened. *)
opendir_failure_not_sent(w) ==
  /\ Working(w, "treewalk_readdir") /\ ~wk[w].dip /\ wk[w].i <= Len(Todo(w))
  /\ \/ /\ Set(w, [wk[w] EXCEPT !.dip = TRUE, !.ents = Entries[Todo(w)[wk[w].i]]])
        /\ UNCHANGED <<toMgr, failed>>
     \/ /\ "opendir" \in o.faults
        /\ Set(w, Waiting) /\ UNCHANGED toMgr
        /\ failed' = failed \cup {<<"opendir", Todo(w)[wk[w].i]>>}
  /\ UNCHANGED <<o, manager, toWrk, printed, statted>>

(* treewalk_readdir: opendir, readdir and closedir of the next directory.  *)
(* When opendir fails the item is given up, its buffered paths with it.    *)
OpenDir(w) ==
  /\ Working(w, "treewalk_readdir") /\ ~wk[w].dip /\ wk[w].i <= Len(Todo(w))
  /\ \/ /\ Set(w, [wk[w] EXCEPT !.dip = TRUE, !.ents = Entries[Todo(w)[wk[w].i]]])
        /\ UNCHANGED <<toMgr, failed>>
     \/ /\ "opendir" \in o.faults
        /\ tw_senddone(w, wk[w].perf)
        /\ failed' = failed \cup {<<"opendir", Todo(w)[wk[w].i]>>}
  /\ UNCHANGED <<o, manager, toWrk, printed, statted>>

ReadEntry(w) ==
  LET s == wk[w]
      next == [s EXCEPT !.ents = Tail(@), !.out = Append(@, Head(s.ents))]
  IN /\ Working(w, "treewalk_readdir") /\ s.dip /\ s.ents # <<>>
     /\ IF pathwork_isFull(next.out) THEN tw_sendpaths(w, next)
                                     ELSE Set(w, next) /\ UNCHANGED toMgr
     /\ UNCHANGED toWrk /\ OnlyWorker

CloseDir(w) ==
  /\ Working(w, "treewalk_readdir") /\ wk[w].dip /\ wk[w].ents = <<>>
  /\ Set(w, [wk[w] EXCEPT !.dip = FALSE, !.i = @ + 1, !.perf = perfstat_inc_counter(@, "dirs")])
  /\ UNCHANGED <<toMgr, toWrk>> /\ OnlyWorker

(* A mutant: the paths still in the buffer are dropped. *)
rest_not_sent(w) ==
  /\ ~wk[w].dip /\ wk[w].pair = NoData /\ wk[w].i > Len(Todo(w))
  /\ \/ Working(w, "treewalk_statpath") /\ wk[w].out # <<>> /\ tw_senddirs(w, wk[w])
     \/ Working(w, "treewalk_readdir") /\ tw_senddone(w, wk[w].perf)
     \/ Working(w, "treewalk_statpath") /\ wk[w].out = <<>> /\ tw_senddone(w, wk[w].perf)
  /\ UNCHANGED toWrk /\ OnlyWorker

(* The end of either function: send what is left in the buffer, then done. *)
WalkEnd(w) ==
  LET s == wk[w] IN
  /\ ~s.dip /\ s.pair = NoData /\ s.i > Len(Todo(w))
  /\ \/ Working(w, "treewalk_statpath") /\ s.out # <<>> /\ tw_senddirs(w, s)
     \/ Working(w, "treewalk_readdir") /\ s.out # <<>> /\ tw_sendpaths(w, s)
     \/ /\ Working(w, "treewalk_statpath") \/ Working(w, "treewalk_readdir")
        /\ s.out = <<>> /\ tw_senddone(w, s.perf)
  /\ UNCHANGED toWrk /\ OnlyWorker

(***************************************************************************)
(* cmp_compare.  A pair starts unmatched; files that cannot be opened stay *)
(* so, and a read that fails ends the loop with nothing found different.   *)
(***************************************************************************)
Outcomes(pair) ==
  LET src == Src[pair.src]
      dst == Dest[pair.src]
      sameSize == Len(src.bytes) = Len(dst.bytes)
  IN IF dst.lstat = "absent" THEN {<<"ok", FALSE>>}
     ELSE IF sameSize /\ ~o.meta_only
       THEN {<<"ok", SameContents(pair)>>} \cup ({"open"} \cap o.faults) \X {FALSE}
                                          \cup ({"read"} \cap o.faults) \X {TRUE}
     ELSE {<<"ok", sameSize /\ src.mtime = dst.mtime>>}

cmp_compare(w) ==
  /\ Working(w, "cmp_compare")
  /\ \E outcome \in Outcomes(wk[w].item.workdata) :
       LET pair == [wk[w].item.workdata EXCEPT !.matched = outcome[2]]
           compared == perfstat_inc_counter(perfstat_new, "compares")
           perf == IF pair.matched THEN perfstat_inc_counter(compared, "matched") ELSE compared
       IN /\ SendToManager(<<[workitem_new(MANAGER_PROC) EXCEPT
                                !.do_work = "cmp_workdone", !.manager_run = TRUE,
                                !.workdata = FileWorkStat(pair, perf)]>>, w)
          /\ Set(w, Waiting)
          /\ failed' = failed \cup ({<<outcome[1], pair.src>>} \ {<<"ok", pair.src>>})
          /\ UNCHANGED <<o, manager, toWrk, printed, statted>>

Worker(w) ==
  \/ worker_receive(w) \/ worker_answered(w)
  \/ StatDir(w) \/ StatFile(w) \/ cmp_sendpaths(w)
  \/ OpenDir(w) \/ ReadEntry(w) \/ CloseDir(w) \/ WalkEnd(w)
  \/ cmp_compare(w)

Next == Manager \/ \E w \in Workers : Worker(w) \/ worker_quit(w)

Spec == Init /\ [][Next]_vars

(* Every process runs: the manager's loop and each worker's never block on *)
(* anything but a message.                                                 *)
FairSpec == Spec /\ WF_vars(Manager) /\ \A w \in Workers : WF_vars(Worker(w))

(***************************************************************************)
(* Properties.                                                             *)
(***************************************************************************)
Ended == mgr.pc \in {"end", "done"}

Happened(kinds) == \E fault \in failed : fault[1] \in kinds

Statted == {p \in Path : statted[p] > 0}

(* What the compare has to find: the same contents, or with meta_only the  *)
(* same size and modification time.                                        *)
Same(f) ==
  /\ Dest[f].lstat = "ok"
  /\ IF o.meta_only
       THEN Len(Src[f].bytes) = Len(Dest[f].bytes) /\ Src[f].mtime = Dest[f].mtime
       ELSE Src[f].bytes = Dest[f].bytes

(* What of file f has to be compared. *)
Parts(f) ==
  {f} \X (IF Dest[f].lstat = "error" THEN {} ELSE IF Chunked(f) THEN 0..(nproc - 1) ELSE {-1})

(* No start path lies below another, and none is given twice: the paths    *)
(* below a job's start paths are a set with none of its start paths among  *)
(* the entries of its directories.                                         *)
StartsApart ==
  \A job \in Options :
    /\ \A i, j \in 1..Len(job.roots) : job.roots[i] = job.roots[j] => i = j
    /\ \E reach \in SUBSET Path :
         /\ Range(job.roots) \subseteq reach
         /\ \A d \in reach \cap DOMAIN Entries :
              Range(Entries[d]) \subseteq reach \ Range(job.roots)

(* A worker is done with everything it was given, and the manager knows.   *)
Quiet(w) == toMgr[w] = <<>> /\ wk[w].pc \in {"wait", "gone"}

(* The manager leaves manager_run only when the job is over, although it   *)
(* decides so from a probe that may be stale and from its own table of     *)
(* busy ranks: no message to it is under way, no queue holds work, every   *)
(* worker waits for its next item, no file still has chunks to come, and   *)
(* the counters it reports have every worker's share.                      *)
EndIsComplete ==
  Ended =>
    /\ \A w \in Workers : Quiet(w)
    /\ WorkQueued = {} /\ chunktab = fchunktbl_create
    /\ ~Happened({"opendir"}) =>
         /\ jobstats.dirs = Cardinality(Statted \cap DOMAIN Entries)
         /\ o.app = "cmp" => jobstats.compares = Cardinality(UNION {Parts(f) : f \in Statted \cap DOMAIN Src})

(* No path is stat-ed twice, however the walk is cut into buffers and      *)
(* spread over workers; and unless a directory could not be opened, when   *)
(* the job ends none is missed of the start paths and of the entries of    *)
(* the directories found.                                                  *)
PathsOnce ==
  /\ \A p \in Path : statted[p] <= 1
  /\ Ended /\ ~Happened({"opendir"}) =>
       Range(o.roots) \cup UNION {Range(Entries[d]) : d \in Statted \cap DOMAIN Entries} = Statted

(* One verdict per file, and the right one, in whatever order its chunks'  *)
(* outcomes come back from the workers.  A file whose read failed may be   *)
(* said to match and one that cannot be opened to differ, so that unless   *)
(* verbose the verdict of such a file may be missing or spurious; a file   *)
(* whose chunk table entry could not be allocated gets no verdict.         *)
VerdictsRight ==
  o.app = "cmp" =>
    \A f \in DOMAIN Src :
      /\ printed[f] \in {<<>>, <<"MATCHES">>, <<"differs">>}
      /\ printed[f] = <<"MATCHES">> => Same(f) \/ <<"read", f>> \in failed
      /\ printed[f] = <<"differs">> => ~Same(f) \/ <<"open", f>> \in failed
      /\ Ended /\ f \in Statted /\ <<"heap", f>> \notin failed =>
           \/ (printed[f] # <<>>) = (Dest[f].lstat # "error" /\ (o.verbose \/ ~Same(f)))
           \/ ~o.verbose /\ {<<"open", f>>, <<"read", f>>} \cap failed # {}

(* With unlimited queues every job ends, and every worker is told so: no   *)
(* request, acknowledgement or done message leaves manager and workers     *)
(* waiting for each other.  Not so once a worker has run out of probes.    *)
JobEnds ==
  o.max < 0 ~> \/ mgr.pc = "done" /\ \A w \in Workers : wk[w].pc = "gone"
               \/ Happened({"quit"})
=============================================================================
