------------------------------- MODULE MCPwt -------------------------------
(***************************************************************************)
(* A directory of a large file, a directory and a small file; the inner    *)
(* directory holds a large file and an empty one.                          *)
(***************************************************************************)
EXTENDS Pwt

MCPath == {"r", "d", "a", "b", "c", "e"}

MCEntries == [r |-> <<"b", "d", "a">>, d |-> <<"c", "e">>]

MCSrc ==
  [a |-> [bytes |-> <<1>>, mtime |-> 1],
   b |-> [bytes |-> <<1, 2, 3, 4>>, mtime |-> 1],
   c |-> [bytes |-> <<1, 2, 3, 4, 5>>, mtime |-> 1],
   e |-> [bytes |-> <<>>, mtime |-> 1]]

(* The first large file differs in its last byte only, which falls to the  *)
(* last chunk as a trailing byte; the second is the same but newer.        *)
MCDest ==
  [a |-> [bytes |-> <<1, 2>>, mtime |-> 1, lstat |-> "ok"],
   b |-> [bytes |-> <<1, 2, 3, 5>>, mtime |-> 1, lstat |-> "ok"],
   c |-> [bytes |-> <<1, 2, 3, 4, 5>>, mtime |-> 2, lstat |-> "ok"],
   e |-> [bytes |-> <<>>, mtime |-> 0, lstat |-> "error"]]

Job(app, roots, meta, verbose, max, faults) ==
  [app |-> app, roots |-> roots, meta_only |-> meta, verbose |-> verbose, max |-> max,
   faults |-> faults]

(* A walk in which directories fail to open and workers leave, and one of  *)
(* two start paths; compares of the contents: those in which files cannot  *)
(* be opened or read, with and without verbose, one in which the chunk     *)
(* table cannot grow, one with queues of one item; and a compare of the    *)
(* metadata.                                                               *)
MCOptions ==
  {Job("cmp", <<"b">>, FALSE, FALSE, -1, {"open", "read"}),
   Job("treewalk", <<"r">>, FALSE, FALSE, -1, {"opendir", "quit"}),
   Job("treewalk", <<"d", "a">>, FALSE, FALSE, -1, {"opendir"}),
   Job("cmp", <<"r">>, FALSE, TRUE, -1, {"heap"}),
   Job("cmp", <<"d">>, FALSE, TRUE, -1, {"open", "quit"}),
   Job("cmp", <<"b">>, FALSE, TRUE, -1, {"open", "read", "heap"}),
   Job("cmp", <<"r">>, FALSE, FALSE, 1, {}),
   Job("cmp", <<"r">>, TRUE, TRUE, -1, {"opendir"})}

ASSUME ApartAssumption == StartsApart
=============================================================================
