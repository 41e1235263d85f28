------------------------------ MODULE PomeloMsg ------------------------------
(***************************************************************************)
(* The message codec of libpomelo2: the head of a message (its type, id    *)
(* and route) and its body, which is JSON or, if there is a definition for *)
(* its route, protobuf.  The client encodes requests and notifies and      *)
(* decodes responses and pushes; the other side does the same the other    *)
(* way round, and is taken to follow the same rules.                       *)
(*                                                                         *)
(* The text of JSON is left out: a JSON body is its tree.  Heads and       *)
(* numbers are in MsgHead, fields that are no messages in PbField.         *)
(***************************************************************************)
EXTENDS PbField

CONSTANTS
    Protos,         \* message definitions: for each name its set of fields
    ProtoOf,        \* the routes that have one, and its name
    Messages        \* what is sent

VARIABLES
    message,        \* the message, as its sender knows it
    char_is_signed, \* whether the receiver's char is
    stage,          \* "unsent", "sent", "received"
    buffer,         \* what it is encoded to
    received        \* what that is decoded to

msgVars == <<message, char_is_signed, stage, buffer, received>>

-----------------------------------------------------------------------------
(* Trees of JSON.                                                          *)

Array(items) == [kind |-> "array", items |-> items]
Object(members) == [kind |-> "object", members |-> members]
Member(key, value) == [key |-> key, value |-> value]

\* pc_JSON_GetObjectItem: the place of a key, or 0.
Place(members, key) == SelectInSeq(members, LAMBDA m : m.key = key)

RECURSIVE Digits(_)
Digits(n) == IF n < 0 THEN 1 + Digits(-n) ELSE IF n < 10 THEN 1 ELSE 1 + Digits(n \div 10)

\* The length of a tree that is printed.
RECURSIVE Printed(_)
Printed(value) ==
    CASE value.kind = "number" -> Digits(value.number)
      [] value.kind = "string" -> Len(value.text) + 2
      [] value.kind = "array" ->
           FoldLeft(LAMBDA n, v : n + Printed(v) + 1, IF value.items = <<>> THEN 2 ELSE 1,
                    value.items)
      [] OTHER ->
           FoldLeft(LAMBDA n, m : n + Len(m.key) + Printed(m.value) + 4,
                    IF value.members = <<>> THEN 2 ELSE 1, value.members)

-----------------------------------------------------------------------------
(* Protobuf: encoding.                                                     *)

Sizing == [ok |-> TRUE, bytes |-> <<>>, max_size |-> UInt]

FieldNamed(name, key) == {f \in Protos[name] : f.name = key}

RECURSIVE PutMessage(_, _, _)

\* pb_encode_proto.
PutValue(out, type, value) ==
    IF type \in Scalars THEN PutScalar(out, type, value)
    ELSE LET sub == PutMessage(Sizing, type, value)
         IN  IF sub.ok THEN Put8(Put8(out, Varint[Len(sub.bytes)]), sub.bytes)
             ELSE sub

\* pb_encode_array.
PutArray(out, field, items) ==
    IF field.type \in Numeric THEN PutPacked(out, field, items)
    ELSE FoldLeft(LAMBDA o, v : PutValue(PutTag(o, field), field.type, v), out, items)

PutMember(out, field, value) ==
    IF field.option # "repeated" THEN PutValue(PutTag(out, field), field.type, value)
    ELSE IF value.kind = "array" THEN PutArray(out, field, value.items)
    ELSE out

\* pb_encode.
PutMessage(out, name, object) ==
    FoldLeft(LAMBDA o, m :
                IF FieldNamed(name, m.key) = {} THEN [o EXCEPT !.ok = FALSE]
                ELSE PutMember(o, CHOOSE f \in FieldNamed(name, m.key) : TRUE, m.value),
             out, object.members)

\* pc_body_pb_encode: into a buffer of twice the length of the JSON.
PutBody(name, object) ==
    PutMessage([Sizing EXCEPT !.max_size = 2 * Printed(object)], name, object)

-----------------------------------------------------------------------------
(* Protobuf: decoding.                                                     *)

RECURSIVE ReadFields(_, _, _)

\* pb_decode_submessage.  A message may end early (see ReadFields): what follows it is then
\* read from there on, as many bytes as are left.
ReadMessage(name, bytes) ==
    Then(ReadVarint32(bytes), LAMBDA size :
        IF Len(size.rest) < size.value THEN NotRead
        ELSE Then(ReadFields(name, SubSeq(size.rest, 1, size.value), <<>>), LAMBDA sub :
                  DoneRead(Object(sub.value),
                           SubSeq(Drop(size.rest, size.value - Len(sub.rest)),
                                  1, Len(size.rest) - size.value))))

\* pb_decode_proto.
ReadValue(type, bytes) ==
    IF type \in Scalars THEN ReadScalar(type, bytes) ELSE ReadMessage(type, bytes)

\* pb_decode_array: a packed array has its length, of the others there is one item.
ReadItems(type, bytes) ==
    IF type \in Numeric THEN ReadPacked(type, bytes)
    ELSE Then(ReadValue(type, bytes), LAMBDA v : DoneRead(<<v.value>>, v.rest))

\* Mutant: each item begins an array of its own.
AddItemsAnew(members, key, items) == Append(members, Member(key, Array(items)))

\* They join those that the object has already.
AddItems(members, key, items) ==
    LET k == Place(members, key)
    IN  IF k = 0 THEN Append(members, Member(key, Array(items)))
        ELSE [members EXCEPT ![k].value.items = @ \o items]

\* The field whose tag was read.
ReadField(name, tag, members) ==
    LET fields == {f \in Protos[name] : f.tag = tag.value \div 8}
        field == CHOOSE f \in fields : TRUE
    IN  IF fields = {} THEN NotRead
        ELSE IF field.option = "repeated"
        THEN Then(ReadItems(field.type, tag.rest), LAMBDA v :
                  DoneRead(AddItems(members, field.name, v.value), v.rest))
        ELSE Then(ReadValue(field.type, tag.rest), LAMBDA v :
                  DoneRead(Append(members, Member(field.name, v.value)), v.rest))

\* pb_decode: the members of an object; a tag of 0 ends it, one that is cut, too.
ReadFields(name, bytes, members) ==
    LET tag == ReadVarint32(bytes) IN
    IF bytes = <<>> THEN DoneRead(members, <<>>)
    ELSE IF ~tag.ok /\ (VarintEnd(bytes) > 0 \/ Len(bytes) > VarintBytes) THEN NotRead
    ELSE IF ~tag.ok \/ tag.value = 0 THEN DoneRead(members, tag.rest)
    ELSE Then(ReadField(name, tag, members), LAMBDA field :
              ReadFields(name, field.rest, field.value))

-----------------------------------------------------------------------------
(* Messages.                                                               *)

UsesProto(type, route) == HasRoute(type) /\ route \in DOMAIN ProtoOf

\* pc_default_msg_encode.
EncodeMessage(m) ==
    LET pb == PutBody(ProtoOf[m.route], m.body) IN
    IF ~UsesProto(m.type, m.route)
    THEN [ok |-> TRUE, head |-> HeadBytesOf(m), json |-> m.body, pb |-> <<>>]
    ELSE [ok |-> pb.ok, head |-> HeadBytesOf(m), json |-> Object(<<>>), pb |-> pb.bytes]

NotReceived == [ok |-> FALSE, id |-> UInt - 1, route |-> <<>>, body |-> Object(<<>>)]

\* pc_default_msg_decode.  A body that does not begin where the head ends is garbled; one
\* without a byte is none, which tcp__on_data_recieved takes for an error.
DecodeMessage(b) ==
    LET head == ReadHead(b.head, char_is_signed)
        uses_proto == UsesProto(head.value.type, head.value.route)
        pb == ReadFields(ProtoOf[head.value.route], b.pb, <<>>)
        Got(body) == [ok |-> TRUE, id |-> head.value.id, route |-> head.value.route,
                      body |-> body]
    IN  IF ~head.ok \/ head.rest # <<>> THEN NotReceived
        ELSE IF ~uses_proto THEN Got(b.json)
        ELSE IF b.pb = <<>> \/ ~pb.ok THEN NotReceived
        ELSE Got(Object(pb.value))

NoBuffer == [ok |-> FALSE, head |-> <<>>, json |-> Object(<<>>), pb |-> <<>>]

MsgInit ==
    /\ message \in Messages /\ char_is_signed \in BOOLEAN /\ stage = "unsent"
    /\ buffer = NoBuffer /\ received = NotReceived

\* pr_default_msg_encoder; what cannot be encoded is not sent.
SendMessage ==
    /\ stage = "unsent" /\ stage' = "sent"
    /\ buffer' = EncodeMessage(message)
    /\ UNCHANGED <<message, char_is_signed, received>>

\* pr_default_msg_decoder.
ReceiveMessage ==
    /\ stage = "sent" /\ buffer.ok /\ stage' = "received"
    /\ received' = DecodeMessage(buffer)
    /\ UNCHANGED <<message, char_is_signed, buffer>>

MsgNext == SendMessage \/ ReceiveMessage

MsgSpec == MsgInit /\ [][MsgNext]_msgVars

-----------------------------------------------------------------------------
(* Properties.                                                             *)

\* Every variable has its type: bytes are bytes.
MsgTypeOK ==
    /\ message \in Messages /\ char_is_signed \in BOOLEAN
    /\ stage \in {"unsent", "sent", "received"}
    /\ buffer.ok \in BOOLEAN /\ ToSet(buffer.head \o buffer.pb) \subseteq 0 .. 255
    /\ received.ok \in BOOLEAN /\ received.id \in 0 .. UInt - 1

RECURSIVE KeysOf(_)
KeysOf(value) ==
    CASE value.kind = "object" ->
           UNION {{m.key} \cup KeysOf(m.value) : m \in ToSet(value.members)}
      [] value.kind = "array" -> UNION {KeysOf(v) : v \in ToSet(value.items)}
      [] OTHER -> {}

\* The object without the arrays that are empty and not packed: nothing is sent of them.
\* A uInt32 below 0 comes back as what it is in 64 bits.
RECURSIVE Transmitted(_, _)
Transmitted(name, object) ==
    LET FieldOf(m) == CHOOSE f \in FieldNamed(name, m.key) : TRUE
        Value(type, v) == CASE type \in DOMAIN Protos -> Transmitted(type, v)
                            [] type = "uInt32" -> Number(v.number % ULong)
                            [] OTHER -> v
        Sent(m) == IF FieldOf(m).option = "repeated"
                   THEN Array([k \in DOMAIN m.value.items |->
                                  Value(FieldOf(m).type, m.value.items[k])])
                   ELSE Value(FieldOf(m).type, m.value)
        members == SelectSeq(object.members, LAMBDA m :
                       FieldOf(m).option = "repeated" /\ m.value.items = <<>>
                           => FieldOf(m).type \in Numeric)
    IN  Object([k \in DOMAIN members |-> Member(members[k].key, Sent(members[k]))])

\* What is received is what was sent, if its route can be said and its body is not empty; and
\* everything can be encoded into twice the length of its JSON, as pr_msg_pb.c:41 has it,
\* but for an array of doubles.
MessageArrives ==
    LET m == message
        uses_proto == UsesProto(m.type, m.route)
        IsDoubles(f) == f.type = "double" /\ f.option = "repeated"
    IN  /\ stage = "sent" /\ ~buffer.ok =>
              \E name \in DOMAIN Protos : \E f \in Protos[name] :
                 IsDoubles(f) /\ f.name \in KeysOf(m.body)
        /\ /\ stage = "received"
           /\ HasRoute(m.type) => IsSayable(m, char_is_signed)
           /\ uses_proto => buffer.pb # <<>>
           => received =
                [ok |-> TRUE,
                 id |-> IF HasId(m.type) THEN m.id ELSE 0,
                 route |-> IF HasRoute(m.type) THEN m.route ELSE <<>>,
                 body |-> IF uses_proto THEN Transmitted(ProtoOf[m.route], m.body)
                          ELSE m.body]

=============================================================================
