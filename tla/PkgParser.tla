------------------------------ MODULE PkgParser -------------------------------
(***************************************************************************)
(* The package parser of the pomelo transport: it cuts the byte stream of  *)
(* a connection into packages, however the reads fall, and hands each one  *)
(* to a handler that may reset the transport, and with it the parser, in   *)
(* the middle of a read.                                                   *)
(*                                                                         *)
(* A byte is known by the package that it belongs to and its place in it.  *)
(* Only the length that is decoded from a head matters of its value: it is *)
(* the package's when the head is a package's, and anything when the head  *)
(* is put together from the bytes of two.                                  *)
(***************************************************************************)
EXTENDS Integers, Sequences, SequencesExt

CONSTANTS
    HeadBytes,          \* PC_PKG_HEAD_BYTES
    Sizes,              \* lengths of a body
    MaxPackages,        \* how many the server sends on a connection
    MaxConns,           \* how many connections are made
    MaxRead             \* PC_TCP_READ_BUFFER_SIZE

ASSUME SizeAssumption ==
    /\ HeadBytes \in Nat \ {0} /\ Sizes \subseteq Nat
    /\ MaxPackages \in Nat /\ MaxConns \in Nat \ {0} /\ MaxRead \in Nat \ {0}

Packages == [conn : 1 .. MaxConns, nr : 1 .. MaxPackages, size : Sizes, resets : BOOLEAN]

VARIABLES
    conn, open,         \* the connection, and whether it is read from
    sent,               \* the packages that the server has sent on it
    pipe,               \* their bytes that are not read yet
    data,               \* what is left of a read: from offset to nread
    step,               \* of pc_pkg_parser_feed: "none", "head", "body"
    state, head_buf, pkg_buf, pkg_size,     \* the parser
    handled             \* what the handler got since the connection was made

parser == <<state, head_buf, pkg_buf, pkg_size>>
server == <<sent, pipe>>
vars == <<conn, open, server, data, step, parser, handled>>

-----------------------------------------------------------------------------
(* Bytes.                                                                  *)

Byte(p, place) == [pkg |-> p, place |-> place]
Bytes(p, first, last) == [k \in 1 .. last - first + 1 |-> Byte(p, first + k - 1)]

HeadOf(p) == Bytes(p, 1, HeadBytes)
BodyOf(p) == Bytes(p, HeadBytes + 1, HeadBytes + p.size)

\* pc_pkg_encode, as the server does it, too.
Encode(p) == HeadOf(p) \o BodyOf(p)

\* The lengths that a head may stand for.
Lengths(head) == IF head = HeadOf(head[1].pkg) THEN {head[1].pkg.size} ELSE Sizes

-----------------------------------------------------------------------------
(* The parser.                                                             *)

Fresh == state = "head" /\ head_buf = <<>> /\ pkg_buf = <<>> /\ pkg_size = 0

\* Mutant: the bytes of a head that is not complete are kept.
ResetKeepsHead ==
    state' = "head" /\ head_buf' = head_buf /\ pkg_buf' = <<>> /\ pkg_size' = 0

\* pc_pkg_parser_reset
Reset == state' = "head" /\ head_buf' = <<>> /\ pkg_buf' = <<>> /\ pkg_size' = 0

\* pc_pkg_parser_init, and a first connection.
Init ==
    /\ conn = 1 /\ open = TRUE
    /\ sent = <<>> /\ pipe = <<>> /\ data = <<>> /\ step = "none"
    /\ Fresh /\ handled = <<>>

\* tcp__on_tcp_read_cb: some of what is there.
Read ==
    /\ open /\ step = "none"
    /\ \E n \in 1 .. Len(pipe) :
          /\ n <= MaxRead
          /\ data' = SubSeq(pipe, 1, n) /\ pipe' = SubSeq(pipe, n + 1, Len(pipe))
    /\ step' = state
    /\ UNCHANGED <<conn, open, sent, parser, handled>>

Taken(need) == IF need < Len(data) THEN need ELSE Len(data)

\* Mutant: a body is looked for only when there are bytes left.
ParseHeadOfMore ==
    /\ step = "head"
    /\ LET n == Taken(HeadBytes - Len(head_buf))
           head == head_buf \o SubSeq(data, 1, n)
       IN  /\ head_buf' = head /\ data' = SubSeq(data, n + 1, Len(data))
           /\ IF Len(head) < HeadBytes
              THEN step' = "none" /\ UNCHANGED <<state, pkg_buf, pkg_size>>
              ELSE /\ state' = "body" /\ pkg_buf' = <<>>
                   /\ pkg_size' \in Lengths(head)
                   /\ step' = IF data' = <<>> THEN "none" ELSE "body"
    /\ UNCHANGED <<conn, open, server, handled>>

\* pc__parse_pkg_head: a head that is complete is followed up at once, even when no
\* byte is left, since a body may be empty.
ParseHead ==
    /\ step = "head"
    /\ LET n == Taken(HeadBytes - Len(head_buf))
           head == head_buf \o SubSeq(data, 1, n)
       IN  /\ head_buf' = head /\ data' = SubSeq(data, n + 1, Len(data))
           /\ IF Len(head) < HeadBytes
              THEN step' = "none" /\ UNCHANGED <<state, pkg_buf, pkg_size>>
              ELSE /\ state' = "body" /\ pkg_buf' = <<>>
                   /\ pkg_size' \in Lengths(head)
                   /\ step' = "body"
    /\ UNCHANGED <<conn, open, server, handled>>

\* The handler resets the transport: a kick, or a package that it cannot decode, which
\* one that the server did not send may be.
Resets(body) ==
    open' \in CASE head_buf[1].pkg.resets -> {FALSE}
                [] head_buf \o body = Encode(head_buf[1].pkg) -> {open}
                [] OTHER -> {open, FALSE}

\* pc__parse_pkg_body; whatever the handler did, the feeding goes on with what is left.
ParseBody ==
    /\ step = "body"
    /\ LET n == Taken(pkg_size - Len(pkg_buf))
           body == pkg_buf \o SubSeq(data, 1, n)
       IN  /\ data' = SubSeq(data, n + 1, Len(data))
           /\ IF Len(body) < pkg_size
              THEN pkg_buf' = body /\ UNCHANGED <<open, state, head_buf, pkg_size, handled>>
              ELSE /\ handled' = Append(handled, [head |-> head_buf, body |-> body])
                   /\ Resets(body) /\ Reset
    /\ step' = IF data' = <<>> THEN "none" ELSE "head"
    /\ UNCHANGED <<conn, server>>

-----------------------------------------------------------------------------
(* The connection.                                                         *)

\* The server sends a package.
Send ==
    /\ open /\ Len(sent) < MaxPackages
    /\ \E size \in Sizes, resets \in BOOLEAN :
          LET p == [conn |-> conn, nr |-> Len(sent) + 1, size |-> size, resets |-> resets]
          IN  sent' = Append(sent, p) /\ pipe' = pipe \o Encode(p)
    /\ UNCHANGED <<conn, open, data, step, parser, handled>>

\* tcp__reset from anywhere but the handler: a read error, a disconnect, a timeout.
Close ==
    /\ open /\ step = "none" /\ open' = FALSE
    /\ Reset
    /\ UNCHANGED <<conn, server, data, step, handled>>

\* tcp__conn_done_cb: what was not read is gone, and the parser is left as it is.
Connect ==
    /\ ~open /\ step = "none" /\ conn < MaxConns
    /\ conn' = conn + 1 /\ open' = TRUE
    /\ sent' = <<>> /\ pipe' = <<>> /\ handled' = <<>>
    /\ UNCHANGED <<data, step, parser>>

Next == Read \/ ParseHead \/ ParseBody \/ Send \/ Close \/ Connect

Spec == Init /\ [][Next]_vars

-----------------------------------------------------------------------------
(* Properties.                                                             *)

\* Every variable has its type, and what has been read of a package fits into it.
TypeOK ==
    /\ conn \in 1 .. MaxConns /\ open \in BOOLEAN
    /\ sent \in Seq(Packages) /\ Len(sent) <= MaxPackages
    /\ step \in {"none", "head", "body"} /\ state \in {"head", "body"}
    /\ Len(head_buf) <= HeadBytes /\ (state = "body" <=> Len(head_buf) = HeadBytes)
    /\ pkg_size \in Sizes \cup {0} /\ Len(pkg_buf) <= pkg_size
    /\ Len(data) <= MaxRead
    /\ step = "none" => data = <<>>

\* "collect the raw data from lower layer (such as tcp) and parse them into Pomleo
\* package": what the handler gets is what the server sent on this connection.
Framing ==
    /\ Len(handled) <= Len(sent)
    /\ \A k \in DOMAIN handled :
          handled[k] = [head |-> HeadOf(sent[k]), body |-> BodyOf(sent[k])]

\* Nothing is held back: when a read has been fed, every package that has been read to its
\* last byte has been handled, an empty one too.
NothingHeldBack ==
    step = "none" =>
        \A k \in DOMAIN sent : (\A b \in ToSet(pipe) : b.pkg # sent[k]) => k <= Len(handled)

===============================================================================
