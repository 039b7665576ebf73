---------------------------- MODULE MCMdhimCalls ----------------------------
(* Instances of MdhimCalls for TLC: bulk calls that go to both servers, one  *)
(* with a key that has no slice, and one that is too long.                   *)
EXTENDS MdhimCalls

(* -2.5, 0.5, 4.5 and 6.5, in slices 1, 0, 2 and none. *)
MCFloats == <<-5, 1, 9, 13>>

Rec(k, v) == [key |-> k, val |-> v]

MCPutLists == {<<Rec(2, <<1>>), Rec(4, <<1>>), Rec(1, <<1>>), Rec(3, <<2>>)>>, <<Rec(3, <<1>>)>>,
               <<Rec(1, <<1>>), Rec(3, <<1>>), Rec(2, <<1>>), Rec(1, <<1>>), Rec(3, <<1>>)>>}
MCKeyLists == {<<2, 4, 1>>}
=============================================================================
