------------------------------ MODULE Messages ------------------------------
(* The message formats of mdhimMods/src/messages.c: the sender computes the  *)
(* size of a message and packs its fields with one MPI_Pack each, the        *)
(* receiver unpacks them, allocating memory for each, and releases the       *)
(* message.  Every pack function and every unpack function is an operator of *)
(* its own: nothing but the properties relates the two sides.                *)
(*                                                                           *)
(* A byte is a cell <<field, record, index, number>>; only the structure at  *)
(* the start of a message (its size) and the lengths carry a number.         *)
EXTENDS Integers, Sequences, FiniteSets, SequencesExt

CONSTANTS HdrLen,      \* sizeof(struct mdhim_..._t)
          IntLen,      \* sizeof(int)
          MaxMsg,      \* MDHIM_MAX_MSG_SIZE, the largest int
          Lens,        \* the lengths of keys and values
          MaxRecords,  \* records of a bulk message
          HeapFaults   \* whether malloc may fail

ASSUME MessagesAssumption ==
  /\ HdrLen \in Nat \ {0} /\ IntLen \in Nat \ {0} /\ MaxMsg \in Nat
  /\ HdrLen <= MaxMsg
  /\ Lens \subseteq 0 .. MaxMsg
  /\ MaxRecords \in Nat
  /\ HeapFaults \in BOOLEAN

VARIABLES msg,         \* the message to send: its type and its records
          phase,       \* what is being done with it
          plan,        \* the MPI_Pack calls still to be made
          size,        \* mesg_size
          buf,         \* sendbuf, as far as it is packed
          return_code, \* the failed MPI calls
          mesg_idx,    \* how far the receiver has unpacked
          rec, field,  \* the record, and the field in it, to be unpacked next
          out,         \* the records the receiver has unpacked
          heap         \* the blocks allocated for the unpacked message

vars == <<msg, phase, plan, size, buf, return_code, mesg_idx, rec, field, out, heap>>

Single == {"put", "get", "del", "getrm"}
Bulk == {"bput", "bget", "bdel", "bgetrm"}
Bare == {"base", "return"}

\* Only four types of message carry values.
WithValue == {"put", "bput", "getrm", "bgetrm"}
Record(mtype) == [key_len : Lens, value_len : IF mtype \in WithValue THEN Lens ELSE {0}]
Message ==
  (UNION {[mtype : {t}, recs : [1 .. 1 -> Record(t)]] : t \in Single})
    \cup (UNION {[mtype : {t}, recs : [1 .. n -> Record(t)]] : t \in Bulk, n \in 0 .. MaxRecords})
    \cup [mtype : Bare, recs : {<<>>}]

-----------------------------------------------------------------------------
(* Packing. *)
Field(f, i, n, v) == [j \in 1 .. n |-> <<f, i, j, v>>]

Key(m, i) == Field("key", i, m.recs[i].key_len, 0)
Value(m, i) == Field("value", i, m.recs[i].value_len, 0)
KeyLen(m, i) == Field("key_len", i, IntLen, m.recs[i].key_len)
ValueLen(m, i) == Field("value_len", i, IntLen, m.recs[i].value_len)

\* if (len) MPI_Pack(...)
IfAny(f) == IF f = <<>> THEN <<>> ELSE <<f>>

PerRecord(m, Fields(_)) == FlattenSeq([i \in 1 .. Len(m.recs) |-> Fields(i)])

SumLens(m, L(_)) ==
  LET sum[i \in 0 .. Len(m.recs)] == IF i = 0 THEN 0 ELSE sum[i - 1] + L(i) IN sum[Len(m.recs)]

\* The lengths of a key and its value are added as ints, the sum to an int64_t.
AddInt(a, b) == IF a + b > MaxMsg THEN a + b - 2 * (MaxMsg + 1) ELSE a + b
KeyAndValue(m, i) == AddInt(m.recs[i].key_len, m.recs[i].value_len)

\* The structure, its size field already set, comes first.
Packing(m_size, fields) ==
  [size |-> m_size, fields |-> <<Field("header", 0, HdrLen, m_size)>> \o fields]

pack_put_message(m) == Packing(HdrLen + KeyAndValue(m, 1), <<Key(m, 1), Value(m, 1)>>)

(* Mutant: room for one length per record only. *)
pack_bput_one_length(m) ==
  Packing(HdrLen + Len(m.recs) * IntLen + SumLens(m, LAMBDA i : KeyAndValue(m, i)),
          PerRecord(m, LAMBDA i : <<KeyLen(m, i), Key(m, i), ValueLen(m, i), Value(m, i)>>))

pack_bput_message(m) ==
  Packing(HdrLen + 2 * Len(m.recs) * IntLen + SumLens(m, LAMBDA i : KeyAndValue(m, i)),
          PerRecord(m, LAMBDA i : <<KeyLen(m, i), Key(m, i), ValueLen(m, i), Value(m, i)>>))

pack_get_message(m) == Packing(HdrLen + m.recs[1].key_len, <<Key(m, 1)>>)

\* Two lengths per record are reserved, one is packed.
pack_bget_message(m) ==
  Packing(HdrLen + Len(m.recs) * IntLen * 2 + SumLens(m, LAMBDA i : m.recs[i].key_len),
          PerRecord(m, LAMBDA i : <<KeyLen(m, i), Key(m, i)>>))

pack_getrm_message(m) ==
  Packing(HdrLen + KeyAndValue(m, 1), IfAny(Key(m, 1)) \o IfAny(Value(m, 1)))

pack_bgetrm_message(m) ==
  Packing(HdrLen + 2 * Len(m.recs) * IntLen + SumLens(m, LAMBDA i : KeyAndValue(m, i)),
          PerRecord(m, LAMBDA i : <<KeyLen(m, i)>> \o IfAny(Key(m, i))
                                    \o <<ValueLen(m, i)>> \o IfAny(Value(m, i))))

pack_base_message(m) == Packing(HdrLen, <<>>)

pack_del_message(m) == Packing(HdrLen + m.recs[1].key_len, <<Key(m, 1)>>)

pack_bdel_message(m) ==
  Packing(HdrLen + Len(m.recs) * IntLen + SumLens(m, LAMBDA i : m.recs[i].key_len),
          PerRecord(m, LAMBDA i : <<KeyLen(m, i), Key(m, i)>>))

pack_return_message(m) == Packing(HdrLen, <<>>)

\* The switch over the message type in send_rangesrv_work and send_client_response.
Pack(m) ==
  CASE m.mtype = "put" -> pack_put_message(m)
    [] m.mtype = "bput" -> pack_bput_message(m)
    [] m.mtype = "get" -> pack_get_message(m)
    [] m.mtype = "bget" -> pack_bget_message(m)
    [] m.mtype = "del" -> pack_del_message(m)
    [] m.mtype = "bdel" -> pack_bdel_message(m)
    [] m.mtype = "base" -> pack_base_message(m)
    [] m.mtype = "return" -> pack_return_message(m)
    [] m.mtype = "getrm" -> pack_getrm_message(m)
    [] m.mtype = "bgetrm" -> pack_bgetrm_message(m)

-----------------------------------------------------------------------------
(* Unpacking: the arrays allocated for a bulk message, the fields of a       *)
(* record, and whether memory is allocated for an empty field.               *)
Unpacking(arrays, fields, empty) == [arrays |-> arrays, fields |-> fields, empty |-> empty]

unpack_put_message == Unpacking({}, <<"key", "value">>, TRUE)
unpack_bput_message ==
  Unpacking({"keys", "key_lens", "values", "value_lens"}, <<"key_len", "key", "value_len", "value">>, TRUE)
unpack_get_message == Unpacking({}, <<"key">>, TRUE)
unpack_bget_message == Unpacking({"keys", "key_lens"}, <<"key_len", "key">>, TRUE)
unpack_getrm_message == Unpacking({}, <<"key", "value">>, FALSE)

(* Mutant: a record without a value ends behind its key. *)
unpack_bgetrm_no_value ==
  Unpacking({"keys", "key_lens", "values", "value_lens"}, <<"key_len", "key", "value">>, FALSE)

unpack_bgetrm_message ==
  Unpacking({"keys", "key_lens", "values", "value_lens"}, <<"key_len", "key", "value_len", "value">>, FALSE)
unpack_del_message == Unpacking({}, <<"key">>, TRUE)
unpack_bdel_message == Unpacking({"keys", "key_lens"}, <<"key_len", "key">>, TRUE)
unpack_return_message == Unpacking({}, <<>>, FALSE)

Unpack(mtype) ==
  CASE mtype = "put" -> unpack_put_message
    [] mtype = "bput" -> unpack_bput_message
    [] mtype = "get" -> unpack_get_message
    [] mtype = "bget" -> unpack_bget_message
    [] mtype = "del" -> unpack_del_message
    [] mtype = "bdel" -> unpack_bdel_message
    [] mtype = "return" -> unpack_return_message
    [] mtype = "getrm" -> unpack_getrm_message
    [] mtype = "bgetrm" -> unpack_bgetrm_message

\* What malloc returned for a field of record i.
Block(f, i) == <<f, i>>
Whole(names) == {Block(x, 0) : x \in names}
Blocks(f) == {Block(f, i) : i \in DOMAIN msg.recs}
BlocksWith(f, len) == {Block(f, i) : i \in {j \in DOMAIN msg.recs : out[j][len] # 0}}

(* Mutant: the array of value lengths is forgotten. *)
full_release_forgets(mtype) ==
  CASE mtype = "return" -> Whole({"message"})
    [] mtype = "getrm" -> Whole({"message"}) \cup BlocksWith("key", "key_len") \cup BlocksWith("value", "value_len")
    [] mtype \in {"bgetrm", "bput"} ->
         Whole({"message", "keys", "key_lens", "values"})
           \cup BlocksWith("key", "key_len") \cup BlocksWith("value", "value_len")
    [] mtype = "get" -> Whole({"message"}) \cup Blocks("key")
    [] OTHER -> {}

\* What mdhim_full_release_msg frees of an unpacked message.
mdhim_full_release_msg(mtype) ==
  CASE mtype = "return" -> Whole({"message"})
    [] mtype = "getrm" -> Whole({"message"}) \cup BlocksWith("key", "key_len") \cup BlocksWith("value", "value_len")
    [] mtype \in {"bgetrm", "bput"} ->
         Whole({"message", "key_lens", "keys", "value_lens", "values"})
           \cup BlocksWith("key", "key_len") \cup BlocksWith("value", "value_len")
    [] mtype = "get" -> Whole({"message"}) \cup Blocks("key")
    [] OTHER -> {}

\* mdhim_partial_release_msg leaves the keys and values to the caller.
mdhim_partial_release_msg(mtype) ==
  CASE mtype \in {"return", "getrm", "get"} -> Whole({"message"})
    [] mtype \in {"bgetrm", "bput"} -> Whole({"message", "key_lens", "keys", "value_lens", "values"})
    [] OTHER -> {}

-----------------------------------------------------------------------------
Init ==
  /\ msg \in Message
  /\ phase = "send"
  /\ plan = <<>> /\ size = 0 /\ buf = <<>> /\ return_code = 0
  /\ mesg_idx = 0 /\ rec = 0 /\ field = 0 /\ out = <<>> /\ heap = {}

receiverVars == <<mesg_idx, rec, field, out, heap>>

\* The size is computed and sendbuf allocated; a negative size is a huge
\* size_t, which malloc refuses.
PackStart ==
  LET p == Pack(msg)
  IN  /\ phase = "send"
      /\ IF p.size > MaxMsg \/ p.size < 0
           THEN phase' = "refused" /\ UNCHANGED <<plan, size, buf>>
           ELSE \/ phase' = "packing" /\ plan' = p.fields /\ size' = p.size /\ buf' = <<>>
                \/ HeapFaults /\ phase' = "nomem" /\ UNCHANGED <<plan, size, buf>>
      /\ return_code' = 0
      /\ UNCHANGED <<msg, receiverVars>>

\* One MPI_Pack: what does not fit is not packed and the next one is tried.
PackField ==
  LET f == Head(plan)
      fits == Len(buf) + Len(f) <= size
  IN  /\ phase = "packing" /\ plan # <<>>
      /\ plan' = Tail(plan)
      /\ buf' = IF fits THEN buf \o f ELSE buf
      /\ return_code' = IF fits THEN return_code ELSE return_code + 1
      /\ UNCHANGED <<msg, phase, size, receiverVars>>

PackReturn ==
  /\ phase = "packing" /\ plan = <<>>
  /\ phase' = IF return_code = 0 THEN "packed" ELSE "refused"
  /\ return_code' = 0
  /\ UNCHANGED <<msg, plan, size, buf, receiverVars>>

-----------------------------------------------------------------------------
\* The size the receiver believes is the one in the structure.
HdrSize == buf[1][4]

\* mtype tells the receiver what to unpack; a commit and a close are complete.
\* The structure and the arrays are allocated, the structure is unpacked.
UnpackStart ==
  /\ phase = "packed"
  /\ \/ /\ msg.mtype = "base" /\ phase' = "unpacked" /\ out' = <<>>
        /\ UNCHANGED <<mesg_idx, rec, field, heap, return_code>>
     \/ /\ msg.mtype # "base"
        /\ phase' = "unpacking"
        /\ heap' = Whole({"message"} \cup Unpack(msg.mtype).arrays)
        /\ mesg_idx' = HdrLen
        /\ return_code' = IF HdrLen > HdrSize THEN 1 ELSE 0
        /\ rec' = 1 /\ field' = 1
        /\ out' = [i \in DOMAIN msg.recs |->
             [key_len |-> IF msg.mtype \in Single THEN msg.recs[i].key_len ELSE 0,
              value_len |-> IF msg.mtype \in Single THEN msg.recs[i].value_len ELSE 0,
              key |-> <<>>, value |-> <<>>]]
     \/ /\ msg.mtype # "base" /\ HeapFaults
        /\ phase' = "nomem" /\ UNCHANGED <<receiverVars, return_code>>
  /\ UNCHANGED <<msg, plan, size, buf>>

NextField ==
  IF field < Len(Unpack(msg.mtype).fields)
    THEN rec' = rec /\ field' = field + 1
    ELSE rec' = rec + 1 /\ field' = 1

\* n bytes behind mesg_idx; the end of a bget message is not initialised.
Read(n) == [j \in 1 .. n |-> IF mesg_idx + j <= Len(buf) THEN buf[mesg_idx + j] ELSE <<"none", 0, 0, 0>>]

CurrentField == Unpack(msg.mtype).fields[field]
Fits(n) == mesg_idx + n <= HdrSize

\* A length read from bytes that were not packed as one can be anything.
AsInt(f, cells) ==
  IF \E i \in DOMAIN msg.recs, v \in Lens : cells = Field(f, i, IntLen, v)
    THEN {cells[1][4]} ELSE Lens

UnpackLength ==
  LET f == CurrentField
  IN  /\ phase = "unpacking" /\ rec <= Len(msg.recs)
      /\ f \in {"key_len", "value_len"}
      /\ \E n \in IF Fits(IntLen) THEN AsInt(f, Read(IntLen)) ELSE Lens :
           out' = [out EXCEPT ![rec][f] = n]
      /\ mesg_idx' = IF Fits(IntLen) THEN mesg_idx + IntLen ELSE mesg_idx
      /\ return_code' = IF Fits(IntLen) THEN return_code ELSE return_code + 1
      /\ NextField
      /\ UNCHANGED <<msg, phase, plan, size, buf, heap>>

LenOf(f) == IF f = "key" THEN out[rec].key_len ELSE out[rec].value_len

UnpackBytes ==
  LET f == CurrentField
      n == LenOf(f)
      takes == n # 0 \/ Unpack(msg.mtype).empty
  IN  /\ phase = "unpacking" /\ rec <= Len(msg.recs)
      /\ f \in {"key", "value"}
      /\ \/ /\ heap' = IF takes THEN heap \cup {Block(f, rec)} ELSE heap
            /\ out' = IF Fits(n) THEN [out EXCEPT ![rec][f] = Read(n)] ELSE out
            /\ mesg_idx' = IF Fits(n) THEN mesg_idx + n ELSE mesg_idx
            /\ return_code' = IF Fits(n) THEN return_code ELSE return_code + 1
            /\ NextField
            /\ UNCHANGED phase
         \/ /\ takes /\ HeapFaults
            /\ phase' = "nomem"
            /\ UNCHANGED <<receiverVars, return_code>>
      /\ UNCHANGED <<msg, plan, size, buf>>

UnpackReturn ==
  /\ phase = "unpacking"
  /\ rec > Len(msg.recs)
  /\ phase' = IF return_code = 0 THEN "unpacked" ELSE "failed"
  /\ UNCHANGED <<msg, plan, size, buf, return_code, receiverVars>>

-----------------------------------------------------------------------------
\* The types mdhim_full_release_msg and mdhim_partial_release_msg know.
Released == {"return", "getrm", "bgetrm", "bput", "get"}

Release ==
  /\ phase = "unpacked" /\ msg.mtype \in Released
  /\ \/ phase' = "released" /\ heap' = heap \ mdhim_full_release_msg(msg.mtype)
     \/ phase' = "partly released" /\ heap' = heap \ mdhim_partial_release_msg(msg.mtype)
  /\ UNCHANGED <<msg, plan, size, buf, return_code, mesg_idx, rec, field, out>>

\* Nothing more happens to the message.
Ended ==
  /\ \/ phase \in {"refused", "nomem", "failed", "released", "partly released"}
     \/ phase = "unpacked" /\ msg.mtype \notin Released
  /\ UNCHANGED vars

Next ==
  \/ PackStart \/ PackField \/ PackReturn
  \/ UnpackStart \/ UnpackLength \/ UnpackBytes \/ UnpackReturn
  \/ Release \/ Ended

Spec == Init /\ [][Next]_vars

-----------------------------------------------------------------------------
\* The fields of a message, and the bytes they need; bget reserves a length
\* per record that it does not use.
AllFields == FlattenSeq(Pack(msg).fields)
Reserved == IF msg.mtype = "bget" THEN Len(msg.recs) * IntLen ELSE 0

\* A message is packed whole, or refused because it needs more than
\* MDHIM_MAX_MSG_SIZE bytes: the size each pack function computes is enough for
\* every MPI_Pack that follows, and a size that wrapped around is never taken
\* for a size that fits.
PackExact ==
  /\ phase = "packed" => buf = AllFields /\ Len(buf) <= MaxMsg
  /\ phase = "refused" => Len(AllFields) + Reserved > MaxMsg

\* The receiver unpacks the records that were packed, and no message that was
\* packed fails to be unpacked for another reason than memory.
RoundTrip ==
  /\ phase # "failed"
  /\ phase \in {"unpacked", "released", "partly released"} =>
       \A i \in DOMAIN msg.recs :
         out[i] = [key_len |-> msg.recs[i].key_len, key |-> Key(msg, i),
                   value_len |-> msg.recs[i].value_len, value |-> Value(msg, i)]

\* After mdhim_full_release_msg nothing of an unpacked message is left but
\* blocks of length 0; after mdhim_partial_release_msg the keys and the values.
ReleaseComplete ==
  LET data == Blocks("key") \cup Blocks("value")
      used == BlocksWith("key", "key_len") \cup BlocksWith("value", "value_len")
  IN  /\ phase = "released" => heap \subseteq data \ used
      /\ phase = "partly released" => heap \subseteq data /\ used \subseteq heap
=============================================================================
