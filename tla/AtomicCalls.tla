---------------------------- MODULE AtomicCalls ----------------------------
(***************************************************************************)
(* What the MDHIM request path promises the application: an operation      *)
(* addresses a set of range servers, each of them carries it out exactly   *)
(* once, and the operation returns after the last of them has.             *)
(***************************************************************************)
EXTENDS Integers

CONSTANTS Ranks, Servers

VARIABLES
  busy,   \* busy[r]: rank r is inside an operation
  todo    \* todo[r]: the servers that have yet to carry it out

vars == <<busy, todo>>

TypeOK ==
  /\ busy \in [Ranks -> BOOLEAN]
  /\ todo \in [Ranks -> SUBSET Servers]

Init ==
  /\ busy = [r \in Ranks |-> FALSE]
  /\ todo = [r \in Ranks |-> {}]

Call(r, S) ==
  /\ ~busy[r]
  /\ busy' = [busy EXCEPT ![r] = TRUE]
  /\ todo' = [todo EXCEPT ![r] = S]

(* A collective commit: every server starts a request to itself. *)
CallAll ==
  /\ \A r \in Ranks : ~busy[r]
  /\ busy' = [r \in Ranks |-> r \in Servers]
  /\ todo' = [r \in Ranks |-> IF r \in Servers THEN {r} ELSE {}]

Apply(r, s) ==
  /\ busy[r] /\ s \in todo[r]
  /\ todo' = [todo EXCEPT ![r] = @ \ {s}]
  /\ UNCHANGED busy

Return(r) ==
  /\ busy[r] /\ todo[r] = {}
  /\ busy' = [busy EXCEPT ![r] = FALSE]
  /\ UNCHANGED todo

Next ==
  \/ CallAll
  \/ \E r \in Ranks :
       \/ \E S \in SUBSET Servers : Call(r, S)
       \/ \E s \in Servers : Apply(r, s)
       \/ Return(r)

Spec == Init /\ [][Next]_vars

=============================================================================
