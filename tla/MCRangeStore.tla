---------------------------- MODULE MCRangeStore ----------------------------
(* Instances of RangeStore for TLC. *)
EXTENDS RangeStore

(* Keys for each type.  The strings have the characters 1, 2, 4 and 5 with   *)
(* the numbers 0 to 3, and one a character that is not in the alphabet;      *)
(* bytes have two bits.                                                      *)
MCInts == <<0, 1, 2, 3>>
MCStrings == <<<<1, 2>>, <<2>>, <<2, 2, 4>>, <<2, 3>>, <<5>>>>
MCBytes == <<<<1>>, <<2>>, <<0, 3>>>>

Rec(k, v) == [key |-> k, val |-> v]

(* Single puts of a value. *)
MCOnes == {<<Rec(k, <<1>>)>> : k \in Keys}
(* Single puts of a value, for one key of an empty value too. *)
MCOneEmpty == MCOnes \cup {<<Rec(1, <<>>)>>}
(* Puts of two records, of the same key too. *)
MCPairs ==
  {<<Rec(k, v)>> : k \in Keys, v \in {<<>>, <<1>>}} \cup
  {<<Rec(p[1], <<1>>), Rec(p[2], <<2>>)>> : p \in Keys \X Keys}
(* Deletes of one key and of two. *)
MCDels == {<<k>> : k \in Keys} \cup {<<p[1], p[2]>> : p \in {q \in Keys \X Keys : q[1] < q[2]}}
MCDelOne == {<<k>> : k \in Keys}
MCNoDels == {}

=============================================================================
