---------------------------- MODULE PwtInvariant ----------------------------
(***************************************************************************)
(* The inductive invariant behind the properties of Pwt.  Three parts: the *)
(* types; the conversation of the manager with each worker, which is in    *)
(* one of six phases; and what is conserved: every path to stat, directory *)
(* to read and part of a file to compare is a token held in one place, by  *)
(* a worker, a message or a queue, until the manager or a worker has dealt *)
(* with it.                                                                *)
(***************************************************************************)
EXTENDS Pwt

(***************************************************************************)
(* Types.                                                                  *)
(***************************************************************************)
Perf == [dirs : Nat, stats : Nat, compares : Nat, matched : Nat]

PathData == [type : {"paths"}, paths : Seq(Path)]
RequestData == [type : {"request"}, sleep_seconds : Nat]
PerfData == [type : {"perf"}, perf : Perf]
PairData == [type : {"pair"}, src : DOMAIN Src, chunknum : -1..nproc, matched : BOOLEAN]
StatData == [type : {"filestat"}, files : PairData, perf : Perf]

ItemFns ==
  {"none", "treewalk_statpath", "treewalk_readdir", "cmp_compare", "cmp_addchunkfile",
   "manager_workdone", "cmp_workdone", "worker_exit"}

Item ==
  [do_work : ItemFns, manager_run : BOOLEAN, qidx : {0, 1}, originator : {MANAGER_PROC} \cup Workers,
   path : Seq(Path),
   workdata : {NoData} \cup PathData \cup RequestData \cup PerfData \cup PairData \cup StatData]

WalkFns == {"treewalk_statpath", "treewalk_readdir"}

(* A buffer of paths, or the one path a job starts with. *)
Walk ==
  {m \in Item : /\ m.do_work \in WalkFns /\ ~m.manager_run
                /\ m.workdata \in PathData \cup {NoData}
                /\ m.do_work = "treewalk_readdir" => PathsOf(m) \in Seq(DOMAIN Entries)}

Compare == {m \in Item : /\ m.do_work = "cmp_compare" /\ ~m.manager_run
                         /\ m.workdata \in PairData /\ m.path = <<>>}

Work == Walk \cup Compare

Ask == {m \in Item : /\ m.do_work = "none" /\ ~m.manager_run
                     /\ m.workdata \in RequestData /\ m.path = <<>>}

Announce == {m \in Item : /\ m.do_work = "cmp_addchunkfile" /\ m.manager_run
                          /\ m.workdata \in PairData /\ m.workdata.chunknum = nproc
                          /\ m.path = <<>>}

DoneWalk == {m \in Item : /\ m.do_work = "manager_workdone" /\ m.manager_run
                          /\ m.workdata \in PerfData /\ m.path = <<>>}

DoneCompare == {m \in Item : /\ m.do_work = "cmp_workdone" /\ m.manager_run
                             /\ m.workdata \in StatData /\ m.path = <<>>}

Done == DoneWalk \cup DoneCompare

Exit == [workitem_new(MANAGER_PROC) EXCEPT !.do_work = "worker_exit"]

(* What a worker sends, and what it is sent. *)
Outbox == Work \cup Ask \cup Announce \cup Done
Inbox == Work \cup Ask \cup {Exit}

Local ==
  [pc : {"wait", "work", "ack", "gone"}, item : Item, i : Nat \ {0}, dip : BOOLEAN, ents : Seq(Path),
   out : Seq(Path), perf : Perf, pair : {NoData} \cup PairData, offer : Item]

ManagerPcs == {"init", "probe", "receive", "poll", "getwork", "end", "done"}

TypeOK ==
  /\ o \in Options
  /\ mgr \in [pc : ManagerPcs, rank : {MANAGER_PROC} \cup Workers, idx : {0, 1}]
  /\ workq \in [Queues -> Seq(Work)]
  /\ active \in [{MANAGER_PROC} \cup Workers -> BOOLEAN]
  /\ chunktab = [f \in DOMAIN chunktab |-> chunktab[f]] /\ DOMAIN chunktab \subseteq DOMAIN Src
  /\ \A f \in DOMAIN chunktab : chunktab[f] \in Nat
  /\ jobstats \in Perf
  /\ toMgr \in [Workers -> Seq(Outbox)]
  /\ toWrk \in [Workers -> Seq(Inbox)]
  /\ wk \in [Workers -> Local]
  /\ printed \in [Path -> Seq({"path", "MATCHES", "differs"})]
  /\ statted \in [Path -> Nat]

(***************************************************************************)
(* The locals of a work function.                                          *)
(***************************************************************************)
Resting(s) == s.pc \in {"wait", "gone"} /\ s = [Waiting EXCEPT !.pc = s.pc]

OtherFn(fn) == IF fn = "treewalk_statpath" THEN "treewalk_readdir" ELSE "treewalk_statpath"

Statting(s) ==
  /\ s.item.do_work = "treewalk_statpath"
  /\ s.i <= Len(PathsOf(s.item)) + 1 /\ ~s.dip /\ s.ents = <<>>
  /\ s.out \in Seq(DOMAIN Entries)
  /\ s.pair # NoData => s.pair.chunknum \in -1..nproc - 1

Reading(s) ==
  /\ s.item.do_work = "treewalk_readdir"
  /\ s.i <= Len(PathsOf(s.item)) + 1
  /\ s.pair = NoData
  /\ s.dip => s.i <= Len(PathsOf(s.item))
  /\ ~s.dip => s.ents = <<>>

Comparing(s) == s.pc = "work" /\ s.item.do_work = "cmp_compare"

Busy(s) ==
  /\ s.item \in Work
  /\ Statting(s) \/ Reading(s) \/ Comparing(s)
  /\ s.pc = "work" => s.offer = workitem_new(MANAGER_PROC)
  /\ s.pc = "ack" =>
       /\ s.offer \in Work
       /\ s.offer \in Walk => s.offer = Buffer(OtherFn(s.item.do_work), s.out)

(***************************************************************************)
(* The phases of a worker.                                                 *)
(***************************************************************************)
(* The manager has accepted work of w and waits for it. *)
Handing(w) == mgr.pc = "getwork" /\ mgr.rank = w

(* The first n messages of w: the work handed over, then announcements. *)
Told(w, n) ==
  /\ Handing(w) => n > 0 /\ toMgr[w][1] \in Work
  /\ \A i \in 1..n : toMgr[w][i] \in Announce \/ (Handing(w) /\ i = 1)

Free(w) ==
  /\ ~active[w] /\ Resting(wk[w]) /\ toMgr[w] = <<>> /\ ~Handing(w)
  /\ toWrk[w] = <<>> \/ (mgr.pc = "done" /\ toWrk[w] = <<Exit>>)

Given(w) ==
  /\ active[w] /\ Resting(wk[w]) /\ toMgr[w] = <<>> /\ ~Handing(w)
  /\ Len(toWrk[w]) = 1 /\ toWrk[w][1] \in Work

AtWork(w) ==
  /\ active[w] /\ wk[w].pc = "work" /\ Busy(wk[w]) /\ toWrk[w] = <<>>
  /\ Told(w, Len(toMgr[w]))

Asking(w) ==
  /\ active[w] /\ wk[w].pc = "ack" /\ Busy(wk[w]) /\ toWrk[w] = <<>>
  /\ Len(toMgr[w]) > 0 /\ toMgr[w][Len(toMgr[w])] \in Ask
  /\ Told(w, Len(toMgr[w]) - 1)

Answered(w) ==
  /\ active[w] /\ wk[w].pc = "ack" /\ Busy(wk[w]) /\ toMgr[w] = <<>>
  /\ Len(toWrk[w]) = 1 /\ toWrk[w][1] \in Ask
  /\ toWrk[w][1].workdata.sleep_seconds = 0 <=> Handing(w)

Finished(w) ==
  /\ active[w] /\ Resting(wk[w]) /\ toWrk[w] = <<>>
  /\ Len(toMgr[w]) > 0 /\ toMgr[w][Len(toMgr[w])] \in Done
  /\ Told(w, Len(toMgr[w]) - 1)

InPhase(w) == Free(w) \/ Given(w) \/ AtWork(w) \/ Asking(w) \/ Answered(w) \/ Finished(w)

ManagerInv ==
  /\ active[MANAGER_PROC]
  /\ mgr.pc = "getwork" => mgr.rank \in Workers /\ mgr.idx \in Queues
  /\ mgr.pc \in {"init", "end", "done"} =>
       (\A w \in Workers : ~active[w]) /\ (\A q \in Queues : workq[q] = <<>>)

(* The sender of a message is its originator. *)
SendersInv == \A w \in Workers : \A n \in 1..Len(toMgr[w]) : toMgr[w][n].originator = w

TalkInv == TypeOK /\ ManagerInv /\ SendersInv /\ \A w \in Workers : InPhase(w)

(***************************************************************************)
(* Tokens.  What a job still has to do, and what its workers have counted: *)
(*   <<"stat", p>>      path p has to be stat-ed                           *)
(*   <<"read", d>>      directory d has to be opened                       *)
(*   <<"dirs">>         a directory has to be closed, or was counted       *)
(*   <<"compares">>     a part has to be compared, or was counted          *)
(*   <<"part", f, k>>   the manager needs the outcome of part k of file f  *)
(*   <<"pair", f>>      or of any part of f                                *)
(*   <<"add", f>>       the manager has to be told of the chunks of f      *)
(***************************************************************************)
Tokens ==
  ({"stat"} \X Path) \cup ({"read"} \X (DOMAIN Entries)) \cup {<<"dirs">>, <<"compares">>}
  \cup ({"pair", "add"} \X (DOMAIN Src)) \cup ({"part"} \X (DOMAIN Src) \X (-1..nproc))

(* The sum of the first n values of f. *)
Total(f, n) == LET sum[i \in 0..n] == IF i = 0 THEN 0 ELSE sum[i - 1] + f[i] IN sum[n]

Bit(b) == IF b THEN 1 ELSE 0

(* The tokens t in a path p of a buffer for work function fn. *)
PathWeight(t, fn, p) ==
  Bit(\/ t = <<"stat", p>> /\ fn = "treewalk_statpath"
      \/ t = <<"read", p>> /\ fn = "treewalk_readdir"
      \/ t = <<"dirs">> /\ fn = "treewalk_readdir")

PathsWeight(t, fn, s) == Total([i \in 1..Len(s) |-> PathWeight(t, fn, s[i])], Len(s))

PartWeight(t, pair) == Bit(t \in {<<"pair", pair.src>>, <<"part", pair.src, pair.chunknum>>})

PerfWeight(t, perf) ==
  IF t = <<"dirs">> THEN perf.dirs ELSE IF t = <<"compares">> THEN perf.compares ELSE 0

Weight(t, m) ==
  IF m.do_work \in WalkFns THEN PathsWeight(t, m.do_work, PathsOf(m))
  ELSE IF m.do_work = "cmp_compare" THEN PartWeight(t, m.workdata) + Bit(t = <<"compares">>)
  ELSE IF m.do_work = "cmp_workdone"
    THEN PartWeight(t, m.workdata.files) + PerfWeight(t, m.workdata.perf)
  ELSE IF m.do_work = "manager_workdone" THEN PerfWeight(t, m.workdata.perf)
  ELSE IF m.do_work = "cmp_addchunkfile" THEN Bit(t = <<"add", m.workdata.src>>)
  ELSE 0

ItemsWeight(t, s) == Total([n \in 1..Len(s) |-> Weight(t, s[n])], Len(s))

(* What a worker in a work function holds: the rest of its item, the       *)
(* entries it has read, its buffer unless that is on offer, the offer, the *)
(* parts of the file not yet offered, the counters.                        *)
Rest(s) == SubSeq(PathsOf(s.item), IF s.dip THEN s.i + 1 ELSE s.i, Len(PathsOf(s.item)))

PartsLeft(pair) == IF pair.chunknum < 0 THEN {pair.chunknum} ELSE pair.chunknum..nproc - 1

LeftWeight(t, pair) ==
  IF pair = NoData THEN 0
  ELSE IF t \in {<<"pair", pair.src>>, <<"compares">>}
    THEN (IF pair.chunknum < 0 THEN 1 ELSE nproc - pair.chunknum)
  ELSE Bit(t \in {<<"part", pair.src, k>> : k \in PartsLeft(pair)})

BufferHeld(t, s) ==
  IF s.offer.workdata.type = "paths" THEN 0 ELSE PathsWeight(t, OtherFn(s.item.do_work), s.out)

Held(t, s) ==
  IF s.item.do_work \in WalkFns
    THEN PathsWeight(t, s.item.do_work, Rest(s)) + PathsWeight(t, "treewalk_statpath", s.ents)
         + BufferHeld(t, s) + Weight(t, s.offer) + LeftWeight(t, s.pair) + PerfWeight(t, s.perf)
         + Bit(s.dip /\ t = <<"dirs">>)
  ELSE Weight(t, s.item)

(* The tokens of worker w and the messages between it and the manager, and *)
(* all tokens.                                                             *)
With(t, w) == Held(t, wk[w]) + ItemsWeight(t, toMgr[w]) + ItemsWeight(t, toWrk[w])

Queued(t, q) == IF q \in Queues THEN ItemsWeight(t, workq[q]) ELSE 0

All(t) == Total([w \in Workers |-> With(t, w)], nproc - 1) + Queued(t, 0) + Queued(t, 1)

(***************************************************************************)
(* Every path once.                                                        *)
(***************************************************************************)
Complete == ~Happened({"opendir"})

(* A start path is a token until it is stat-ed, an entry from when its     *)
(* directory is opened; a failing opendir may lose it.                     *)
Adds(a, b) == a <= b /\ (Complete => a = b)

ToStat(p) == All(<<"stat", p>>)
ToRead(d) == All(<<"read", d>>)

StatOf(p) == ToStat(p) + statted[p]

Started == mgr.pc # "init"

RootInv == Started => \A p \in Range(o.roots) : Adds(StatOf(p), 1)

EntryInv ==
  \A d \in DOMAIN Entries : \A p \in Range(Entries[d]) \ Range(o.roots) :
    Adds(StatOf(p) + ToRead(d), statted[d])

OthersInv ==
  \A p \in Path \ Range(o.roots) :
    (\A d \in DOMAIN Entries : p \notin Range(Entries[d])) => StatOf(p) = 0

ReachInv(reach) == \A p \in Path \ reach : StatOf(p) = 0

ReadInv == \A d \in DOMAIN Entries : ToRead(d) <= statted[d]

OnceInv == (\A p \in Path : statted[p] <= 1) /\ (~Started => \A p \in Path : statted[p] = 0)

DirsInv ==
  Complete => All(<<"dirs">>) + jobstats.dirs = Cardinality(Statted \cap DOMAIN Entries)

ComparesInv ==
  o.app = "cmp" =>
    All(<<"compares">>) + jobstats.compares
      = Cardinality(UNION {Parts(f) : f \in Statted \cap DOMAIN Src})

(***************************************************************************)
(* The verdicts.                                                           *)
(***************************************************************************)
(* A compare of files compares f; what it compares of it.                  *)
Compared(f) == o.app = "cmp" /\ Dest[f].lstat # "error"

PartsOf(f) == IF Compared(f) THEN Cardinality(Parts(f)) ELSE 0

ToPair(f) == All(<<"pair", f>>)
ToPart(f, k) == All(<<"part", f, k>>)
ToAdd(f) == All(<<"add", f>>)

(* A file is announced before its first part is handed over. *)
AddsFirst ==
  \A w \in Workers, f \in DOMAIN Src :
    ItemsWeight(<<"add", f>>, toMgr[w]) > 0 => Held(<<"pair", f>>, wk[w]) = nproc

(* Only the parts of a file that was stat-ed are compared, each once; its  *)
(* chunks are announced once.                                              *)
PartsInv(f) ==
  /\ statted[f] = 0 => ToPair(f) = 0 /\ ToAdd(f) = 0
  /\ ToPair(f) <= PartsOf(f)
  /\ \A k \in -1..nproc : ToPart(f, k) <= Bit(Compared(f) /\ <<f, k>> \in Parts(f))
  /\ ToAdd(f) <= Bit(Compared(f) /\ Chunked(f))

(* The chunk table counts the parts the manager has no outcome of. *)
TableInv(f) ==
  /\ f \in DOMAIN chunktab =>
       chunktab[f] > 0 /\ ToPair(f) = chunktab[f] /\ ToAdd(f) = 0 /\ Chunked(f)
  /\ ToAdd(f) > 0 => ToPair(f) = nproc

(* A part was found the same, or a read of the file failed. *)
PartSame(f, k) ==
  \/ <<"read", f>> \in failed
  \/ /\ Dest[f].lstat = "ok" /\ Len(Src[f].bytes) = Len(Dest[f].bytes)
     /\ o.meta_only => Src[f].mtime = Dest[f].mtime
     /\ ~o.meta_only => SameContents([filepair_new(f) EXCEPT !.chunknum = k])

Outcome(pair) ==
  /\ pair.matched => PartSame(pair.src, pair.chunknum)
  /\ ~pair.matched => ~Same(pair.src) \/ <<"open", pair.src>> \in failed

OutcomesRight ==
  \A w \in Workers : \A n \in 1..Len(toMgr[w]) :
    toMgr[w][n].do_work = "cmp_workdone" => Outcome(toMgr[w][n].workdata.files)

(* Every part of f the manager has the outcome of was the same. *)
SoFarSame(f) == \A k \in -1..nproc : <<f, k>> \in Parts(f) /\ ToPart(f, k) = 0 => PartSame(f, k)

(* Why there is no verdict yet. *)
Awaited(f) ==
  \/ Dest[f].lstat = "error"
  \/ f \in DOMAIN chunktab
  \/ ToAdd(f) > 0
  \/ <<"heap", f>> \in failed
  \/ ~Chunked(f) /\ ToPair(f) > 0
  \/ ~o.verbose /\ SoFarSame(f) /\ ToPair(f) = 0

VerdictInv(f) ==
  /\ printed[f] \in {<<>>, <<"MATCHES">>, <<"differs">>}
  /\ printed[f] = <<"MATCHES">> => o.verbose /\ SoFarSame(f) /\ ToPair(f) = 0
  /\ printed[f] = <<"differs">> => ~Same(f) \/ <<"open", f>> \in failed
  /\ printed[f] # <<>> =>
       /\ statted[f] > 0 /\ Dest[f].lstat # "error"
       /\ f \notin DOMAIN chunktab /\ ToAdd(f) = 0 /\ (~Chunked(f) => ToPair(f) = 0)
  /\ f \in DOMAIN chunktab \/ ToAdd(f) > 0 => SoFarSame(f)
  /\ statted[f] > 0 /\ printed[f] = <<>> => Awaited(f)

CompareInv ==
  /\ AddsFirst /\ OutcomesRight
  /\ \A f \in DOMAIN Src : PartsInv(f) /\ TableInv(f) /\ (o.app = "cmp" => VerdictInv(f))
=============================================================================
