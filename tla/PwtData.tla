------------------------------ MODULE PwtData ------------------------------
(***************************************************************************)
(* The data of pftool's parallel work tool: the WorkItem a message         *)
(* carries, the work queues, the request a worker makes before it hands    *)
(* over work, the path buffers, the performance counters, and the chunk    *)
(* table and file windows of the compare application.  A path is a value;  *)
(* a file's contents are a sequence of bytes.                              *)
(***************************************************************************)
EXTENDS Integers, Sequences, FiniteSets, Functions

CONSTANTS
  Workers,                \* the ranks of the worker processes; the manager is rank 0
  Path,                   \* every path below the start paths
  Entries,                \* Entries[d], for a directory d: its entries, in readdir's order
  Src,                    \* Src[f], for a file f: its bytes and modification time
  Dest,                   \* Dest[f]: those of its counterpart, how lstat answers for it
  PATH_BUFFER_MAX,        \* the paths a PathWork buffer holds
  start_chunking,         \* the size from which a file is compared in chunks
  WORKREQ_DEADLOCK_LIMIT  \* the sleep at which a request counts as deadlocked

MANAGER_PROC == 0

nproc == 1 + (CHOOSE n \in Workers : \A w \in Workers : w <= n)

(* Workers are ranks 1 up; a buffer holds a path; a directory is no file;  *)
(* the path of an entry is its directory's with a name that occurs once.   *)
ASSUME PwtAssumption ==
  /\ nproc \in Nat /\ nproc > 1 /\ Workers = 1..(nproc - 1)
  /\ PATH_BUFFER_MAX \in Nat \ {0}
  /\ start_chunking \in Nat /\ WORKREQ_DEADLOCK_LIMIT \in Nat
  /\ IsFiniteSet(Path)
  /\ DOMAIN Entries \cap DOMAIN Src = {} /\ DOMAIN Entries \cup DOMAIN Src = Path
  /\ Src \in [DOMAIN Src -> [bytes : Seq(0..255), mtime : Int]]
  /\ Dest \in [DOMAIN Src -> [bytes : Seq(0..255), mtime : Int, lstat : {"ok", "absent", "error"}]]
  /\ Entries \in [DOMAIN Entries -> Seq(Path)]
  /\ \A d, e \in DOMAIN Entries : \A i \in 1..Len(Entries[d]), j \in 1..Len(Entries[e]) :
       Entries[d][i] = Entries[e][j] => d = e /\ i = j

(***************************************************************************)
(* WorkItem: the function to run, whether the manager runs it itself, the  *)
(* queue it goes to, the rank it comes from, one path or a work buffer.    *)
(***************************************************************************)
NoData == [type |-> "none"]

workitem_new(rank) ==
  [do_work |-> "none", manager_run |-> FALSE, qidx |-> 0, originator |-> rank,
   path |-> <<>>, workdata |-> NoData]

PathWork(paths) == [type |-> "paths", paths |-> paths]

WorkRequest(secs) == [type |-> "request", sleep_seconds |-> secs]

(* The paths of a work item: its buffer when it has one, else its own path. *)
PathsOf(item) ==
  IF item.workdata.type = "paths" THEN item.workdata.paths ELSE item.path

pathwork_isFull(paths) == Len(paths) >= PATH_BUFFER_MAX

(* Work queues: max < 0 means unlimited. *)
workq_full(q, max) == max >= 0 /\ max <= Len(q)

(* What the manager writes into a denied request: 2 seconds, then doubled. *)
workreq_deny(request) ==
  LET secs == request.sleep_seconds IN
  WorkRequest(IF secs = 0 THEN 2
              ELSE IF secs < WORKREQ_DEADLOCK_LIMIT THEN 2 * secs ELSE secs)

(***************************************************************************)
(* PerfStat: the four counters a job reports.                              *)
(***************************************************************************)
perfstat_new == [dirs |-> 0, stats |-> 0, compares |-> 0, matched |-> 0]

perfstat_inc_counter(perf, idx) == [perf EXCEPT ![idx] = @ + 1]

perfstat_add(sum, inc) == [c \in DOMAIN sum |-> sum[c] + inc[c]]

(***************************************************************************)
(* FilePair and FileWorkStat of the compare.  chunknum < 0: not chunked.   *)
(***************************************************************************)
filepair_new(f) ==
  [type |-> "pair", src |-> f, chunknum |-> -1, matched |-> FALSE]

FileWorkStat(pair, perf) == [type |-> "filestat", files |-> pair, perf |-> perf]

fileinfo_isChunkable(f) == Len(Src[f].bytes) >= start_chunking

(* A mutant: the bytes left over go to no chunk. *)
transfer_length_whole(pair) ==
  Len(Src[pair.src].bytes) \div (IF pair.chunknum < 0 THEN 1 ELSE nproc)

compute_transfer_length(pair) ==
  LET size == Len(Src[pair.src].bytes) IN
  IF pair.chunknum < 0 THEN size
  ELSE (size \div nproc) + (IF pair.chunknum + 1 = nproc THEN size % nproc ELSE 0)

compute_transfer_offset(pair) ==
  IF pair.chunknum < 0 THEN 0
  ELSE (Len(Src[pair.src].bytes) \div nproc) * pair.chunknum

(* memcmp over the window of the pair, buffer by buffer. *)
SameContents(pair) ==
  LET first == compute_transfer_offset(pair) + 1 IN
  \A n \in first..(first + compute_transfer_length(pair) - 1) :
    Src[pair.src].bytes[n] = Dest[pair.src].bytes[n]

(***************************************************************************)
(* The chunk table: the chunks left of each file.                          *)
(***************************************************************************)
fchunktbl_create == <<>>

fchunktbl_get(tbl, f) == IF f \in DOMAIN tbl THEN tbl[f] ELSE -1

fchunktbl_insert(tbl, f, n) ==
  [g \in DOMAIN tbl \cup {f} |-> IF g = f THEN n ELSE tbl[g]]

fchunktbl_update(tbl, f, n) == IF f \in DOMAIN tbl THEN [tbl EXCEPT ![f] = n] ELSE tbl

fchunktbl_remove(tbl, f) == Restrict(tbl, DOMAIN tbl \ {f})
=============================================================================
