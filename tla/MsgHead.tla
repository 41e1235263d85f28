------------------------------- MODULE MsgHead -------------------------------
(***************************************************************************)
(* The head of a message of libpomelo2, that is its type, id and route,    *)
(* and the numbers that heads and protobuf bodies are made of.             *)
(*                                                                         *)
(* A byte is a number.  Integers are ULong (2^64 in the code) and UInt     *)
(* (2^32) wide; a varint has at most VarintBytes (10) bytes.               *)
(***************************************************************************)
EXTENDS Integers, SequencesExt

CONSTANTS
    RouteToCode,    \* the dictionary: the routes in it, and their codes
    UInt, ULong, VarintBytes

ASSUME WidthAssumption ==
    /\ UInt \in Nat \ {0} /\ ULong \in Nat /\ VarintBytes \in Nat \ {0}
    /\ UInt < ULong /\ ULong <= 128 ^ VarintBytes
\* What the proofs use of powers of 128.
ASSUME SevensAssumption ==
    /\ 128 ^ 1 = 128 /\ 128 ^ VarintBytes \in Nat
    /\ \A k \in 1 .. VarintBytes - 1 : 128 ^ k \in Nat /\ 128 ^ (k + 1) = 128 * 128 ^ k
ASSUME DictionaryAssumption == \A r \in DOMAIN RouteToCode : RouteToCode[r] \in Int

-----------------------------------------------------------------------------
(* Numbers.                                                                *)

\* pb_encode_varint, pc__msg_encode_id: seven bits in a byte, the lowest ones first.
Varint[n \in Nat] ==
    IF n < 128 THEN <<n>> ELSE <<(n % 128) + 128>> \o Varint[n \div 128]

ZigZag(n) == IF n < 0 THEN -2 * n - 1 ELSE 2 * n
UnZigZag(n) == IF n % 2 = 1 THEN -((n + 1) \div 2) ELSE n \div 2

\* A read takes bytes from the front; what it returns is in value.
NotRead == [ok |-> FALSE, value |-> 0, rest |-> <<>>]
DoneRead(value, rest) == [ok |-> TRUE, value |-> value, rest |-> rest]
Drop(bytes, n) == SubSeq(bytes, n + 1, Len(bytes))

\* The last byte of a varint is the first below 128.
VarintEnd(bytes) == SelectInSeq(bytes, LAMBDA b : b < 128)

\* The number whose sevens the bytes are, from the k-th one on.
Sevens(bytes) ==
    LET from[k \in 1 .. Len(bytes) + 1] ==
            IF k > Len(bytes) THEN 0 ELSE (bytes[k] % 128) + 128 * from[k + 1]
    IN  from[1]

\* pb_decode_varint.
ReadVarint(bytes) ==
    LET last == VarintEnd(bytes)
    IN  IF last \in 1 .. VarintBytes
        THEN DoneRead(Sevens(SubSeq(bytes, 1, last)) % ULong, Drop(bytes, last))
        ELSE NotRead

\* pb_decode_varint32.
ReadVarint32(bytes) ==
    LET n == ReadVarint(bytes)
    IN  IF n.ok THEN DoneRead(n.value % UInt, n.rest) ELSE NotRead

-----------------------------------------------------------------------------
(* Heads.                                                                  *)

Types == <<"request", "notify", "response", "push">>
HasId(type) == type \in {"request", "response"}
HasRoute(type) == type # "response"
IsCompressed(type, route) ==
    HasRoute(type) /\ route \in DOMAIN RouteToCode /\ RouteToCode[route] > 0

\* A route is said by a code of two bytes, or by its name after one byte of length, which
\* is negative from 128 on where char is signed.
CodeIn(high, low) == 256 * high + low
CodeBytes(code) == <<(code \div 256) % 256, code % 256>>
CodeFits(code) == code < 65536

NameBytes(route) == <<Len(route) % 256>> \o route
NameFits(route, signed) == Len(route) < (IF signed THEN 128 ELSE 256)
IsWhole(bytes, signed) ==
    bytes # <<>> /\ bytes[1] <= Len(bytes) - 1 /\ ~(signed /\ bytes[1] >= 128)

\* pc_msg_encode_code, pc_msg_encode_route: what comes before the body.
HeadBytesOf(m) ==
    LET flag == 2 * (CHOOSE k \in 0 .. 3 : Types[k + 1] = m.type)
        id == IF HasId(m.type) THEN Varint[m.id] ELSE <<>>
    IN  IF IsCompressed(m.type, m.route)
        THEN <<flag + 1>> \o id \o CodeBytes(RouteToCode[m.route])
        ELSE <<flag>> \o id \o (IF HasRoute(m.type) THEN NameBytes(m.route) ELSE <<>>)

\* The route in a head, from where the id ends; signed says whether char is.
ReadRoute(flag, bytes, signed) ==
    IF ~HasRoute(Types[(flag \div 2) + 1]) THEN DoneRead(<<>>, bytes)
    ELSE IF flag % 2 = 1
    THEN LET routes == {r \in DOMAIN RouteToCode : RouteToCode[r] = CodeIn(bytes[1], bytes[2])}
         IN  IF Len(bytes) < 2 \/ routes = {} THEN NotRead
             ELSE DoneRead(CHOOSE r \in routes : TRUE, Drop(bytes, 2))
    ELSE IF ~IsWhole(bytes, signed) THEN NotRead
    ELSE DoneRead(SubSeq(bytes, 2, bytes[1] + 1), Drop(bytes, bytes[1] + 1))

\* pc_msg_decode_to_raw: type, id and route.
ReadHead(bytes, signed) ==
    LET type == Types[(bytes[1] \div 2) + 1]
        last == VarintEnd(Drop(bytes, 1))
        id == IF HasId(type) THEN Sevens(SubSeq(bytes, 2, last + 1)) % UInt ELSE 0
        route == ReadRoute(bytes[1], Drop(bytes, 1 + (IF HasId(type) THEN last ELSE 0)), signed)
    IN  IF bytes = <<>> \/ bytes[1] \div 2 > 3 \/ (HasId(type) /\ last = 0) \/ ~route.ok
        THEN NotRead
        ELSE DoneRead([type |-> type, id |-> id, route |-> route.value], route.rest)

\* What can be said of a route in a head.
IsSayable(m, signed) ==
    IF IsCompressed(m.type, m.route) THEN CodeFits(RouteToCode[m.route])
    ELSE NameFits(m.route, signed)

=============================================================================
