--------------------------- MODULE MCRangeServers ---------------------------
(* Instances of RangeServers for TLC. *)
EXTENDS RangeServersInvariant

(* Single-record and bulk operations of every rank. *)
EveryTarget == [r \in Ranks |-> (SUBSET Servers) \ {{}}]
(* Rank 1, a server, only takes part in the collective calls, rank 0, the    *)
(* other server, makes bulk operations and rank 2 makes any operation.       *)
QuietOne ==
  [r \in Ranks |-> IF r = 1 THEN {} ELSE IF r = 0 THEN {Servers} ELSE (SUBSET Servers) \ {{}}]
(* The ranks that run no server make bulk operations on every server. *)
BulkClients == [r \in Ranks |-> IF r \in Servers THEN {} ELSE {Servers}]
(* Rank 2 makes bulk operations on both servers, each of whose messages may  *)
(* fail to be packed, while rank 0 uses its own server.                      *)
FailingBulk ==
  [r \in Ranks |-> IF r = 2 THEN {Servers} ELSE IF r = 0 THEN {{0}} ELSE {}]
=============================================================================
