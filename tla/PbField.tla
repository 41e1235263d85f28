------------------------------- MODULE PbField -------------------------------
(***************************************************************************)
(* The protobuf of libpomelo2, as far as its fields are numbers, strings   *)
(* and packed arrays of numbers.  PomeloMsg has the fields that are        *)
(* messages again.                                                         *)
(*                                                                         *)
(* A stream to write to has its bytes, and room for max_size of them.      *)
(***************************************************************************)
EXTENDS MsgHead

Number(n) == [kind |-> "number", number |-> n]
Text(s) == [kind |-> "string", text |-> s]

Integral == {"uInt32", "int32", "sInt32"}
Numeric == Integral \cup {"float", "double"}
Scalars == Numeric \cup {"string"}

WireType(type) ==
    CASE type \in Integral -> 0 [] type = "double" -> 1 [] type = "float" -> 5 [] OTHER -> 2

\* The bytes of a float or a double are known by the first of them.
FixedSize(type) == IF type = "float" THEN 4 ELSE 8
Fixed(size, n) == [k \in 1 .. size |-> IF k = 1 THEN n ELSE 0]

-----------------------------------------------------------------------------
(* Encoding.                                                               *)

\* pb_write.
Put8(out, bytes) ==
    IF out.ok /\ Len(out.bytes) + Len(bytes) <= out.max_size
    THEN [out EXCEPT !.bytes = @ \o bytes] ELSE [out EXCEPT !.ok = FALSE]

\* pb_encode_tag_for_field.
PutTag(out, field) == Put8(out, Varint[WireType(field.type) + 8 * field.tag])

\* pb_encode_proto, for what is not a message.
PutScalar(out, type, value) ==
    CASE type = "uInt32" -> Put8(out, Varint[value.number % ULong])
      [] type \in {"int32", "sInt32"} -> Put8(out, Varint[ZigZag(value.number)])
      [] type \in {"float", "double"} -> Put8(out, Fixed(FixedSize(type), value.number))
      [] OTHER -> Put8(Put8(out, Varint[Len(value.text)]), value.text)

\* pb_encode_array, for what is packed: the items after their number.
PutPacked(out, field, items) ==
    LET head == Put8(PutTag(out, field), Varint[Len(items)])
        after[k \in 0 .. Len(items)] ==
            IF k = 0 THEN head ELSE PutScalar(after[k - 1], field.type, items[k])
    IN  after[Len(items)]

-----------------------------------------------------------------------------
(* Decoding.                                                               *)

Then(read, Next(_)) == IF read.ok THEN Next(read) ELSE NotRead

\* pb_decode_fixed32, pb_decode_fixed64.
ReadFixed(size, bytes) ==
    IF Len(bytes) < size THEN NotRead ELSE DoneRead(bytes[1], Drop(bytes, size))

\* pb_decode_proto, for what is not a message.
ReadScalar(type, bytes) ==
    CASE type = "uInt32" ->
           Then(ReadVarint(bytes), LAMBDA n : DoneRead(Number(n.value), n.rest))
      [] type \in {"int32", "sInt32"} ->
           Then(ReadVarint(bytes), LAMBDA n : DoneRead(Number(UnZigZag(n.value)), n.rest))
      [] type \in {"float", "double"} ->
           Then(ReadFixed(FixedSize(type), bytes), LAMBDA n :
                DoneRead(Number(n.value), n.rest))
      [] OTHER ->
           Then(ReadVarint32(bytes), LAMBDA n :
                IF Len(n.rest) < n.value THEN NotRead
                ELSE DoneRead(Text(SubSeq(n.rest, 1, n.value)), Drop(n.rest, n.value)))

\* pb_decode_array, for what is packed.
ReadPacked(type, bytes) ==
    LET size == ReadVarint32(bytes)
        after[k \in 0 .. size.value] ==
            IF k = 0 THEN DoneRead(<<>>, size.rest)
            ELSE LET r == after[k - 1]
                     v == ReadScalar(type, r.rest)
                 IN  IF r.ok /\ v.ok THEN DoneRead(Append(r.value, v.value), v.rest)
                     ELSE NotRead
    IN  IF size.ok THEN after[size.value] ELSE NotRead

=============================================================================
