------------------------------- MODULE TlsWrite -------------------------------
(***************************************************************************)
(* The TLS transport of libpomelo2: what it puts between the queues of the *)
(* TCP transport (PomeloReq) and the socket.  Messages go through SSL into *)
(* a buffer in memory, out, and from there to TCP, one uv_write at a time; *)
(* a message that SSL does not take yet is kept in should_retry, and its   *)
(* bytes in retry_wb.                                                      *)
(*                                                                         *)
(* A callback of the uv thread is one step.  It is the composition of the  *)
(* functions of the code, each a function on tls, the transport's record.  *)
(* Bytes are known by their message.                                       *)
(***************************************************************************)
EXTENDS Naturals, SequencesExt, Queues

CONSTANTS
    Requests, Notifies,
    NoItem

Items == Requests \cup Notifies

Internal == {"handshake", "ack", "heartbeat"}

ASSUME TlsItemsAssumption ==
    /\ Requests \cap Notifies = {} /\ NoItem \notin Items
    /\ (Items \cup {NoItem}) \cap (Internal \cup {"ssl"}) = {}

\* What a TCP read may bring: the server's part of the SSL handshake, what is not SSL,
\* an end, a request for another SSL handshake; or packages.
Inputs == {"flight", "bad", "close", "renegotiate", "kick", "response", "data"}

VARIABLES
    tls,        \* the transport, used by the uv thread, but for its queues
    main,       \* the application thread is "idle", or about to "lock" wq_mutex
    sending,    \* the item it is in the middle of sending
    called      \* the items it has sent

tlsVars == <<tls, main, sending, called>>

\* tr_uv_tls_init.
NewTransport ==
    [state |-> "NOT_CONN",
     conn_pending |-> <<>>, write_wait |-> <<>>, writing |-> <<>>, resp_pending |-> <<>>,
     when_tcp_is_writing |-> <<>>,
     should_retry |-> NoItem, retry_wb |-> NoItem,
     is_writing |-> FALSE, write_async |-> FALSE,
     is_handshake_completed |-> FALSE,
     ssl |-> "clear",           \* "handshake", "open"; "failed" within a callback
     in |-> "none", out |-> <<>>,
     sent |-> <<>>,             \* what TCP has got on this connection, see Counted
     answered |-> {},
     torn |-> FALSE,            \* write_wait is broken, see Overlapped
     lost |-> {}]

TlsInit ==
    tls = NewTransport /\ main = "idle" /\ sending = NoItem /\ called = {}

ItemsOf(queue) == ToSet(queue) \cap Items
AnswerAll(t, queue) == [t EXCEPT !.answered = @ \cup ItemsOf(queue)]
Some(item) == IF item = NoItem THEN <<>> ELSE <<item>>
\* Bytes that are told apart: not SSL's own, nor the heartbeats.
Counted(bytes) == Only(Items \cup (Internal \ {"heartbeat"}), bytes)

IsOpen(t) == t.state \in {"HANDSHAKEING", "DONE"}

-----------------------------------------------------------------------------
(* SSL, which is not part of the repository.                               *)

\* A call of SSL_write or SSL_read goes on with the handshake first.
Shake(t) ==
    IF t.ssl = "clear" THEN [t EXCEPT !.ssl = "handshake", !.out = Append(@, "ssl")]
    ELSE IF t.ssl = "open" THEN t
    ELSE IF t.in = "flight" THEN [t EXCEPT !.ssl = "open", !.in = "none",
                                           !.out = Append(@, "ssl")]
    ELSE IF t.in \in {"bad", "close"} THEN [t EXCEPT !.ssl = "failed", !.in = "none"]
    ELSE t

\* Nothing is said before a handshake is over.
Shutdown(t) == IF t.ssl = "open" THEN [t EXCEPT !.out = Append(@, "ssl")] ELSE t

-----------------------------------------------------------------------------
(* The functions of the uv thread.                                         *)

\* tls__write_to_tcp.  uv_write fails on a socket that is closed.
WriteToTcp(t) ==
    IF t.is_writing THEN t
    ELSE IF t.out = <<>> THEN [t EXCEPT !.write_async = TRUE]
    ELSE [t EXCEPT !.writing = @ \o t.when_tcp_is_writing, !.when_tcp_is_writing = <<>>,
                   !.out = <<>>,
                   !.is_writing = IsOpen(t),
                   !.sent = IF IsOpen(t) THEN @ \o Counted(t.out) ELSE @]

\* tcp__reset.
TcpReset(t) ==
    LET all == t.writing \o t.conn_pending \o t.write_wait \o t.resp_pending
    IN  [AnswerAll(t, all) EXCEPT
            !.state = "NOT_CONN",
            !.conn_pending = <<>>, !.write_wait = <<>>, !.writing = <<>>,
            !.resp_pending = <<>>]

\* Mutant: the item that waits for its retry is forgotten.
ResetForgetsRetry(t) ==
    LET u == WriteToTcp(Shutdown(t))
    IN  TcpReset([u EXCEPT
            !.is_handshake_completed = FALSE,
            !.ssl = "clear", !.in = "none", !.out = <<>>,
            !.writing = @ \o u.when_tcp_is_writing,
            !.should_retry = NoItem, !.retry_wb = NoItem, !.when_tcp_is_writing = <<>>])

\* tls__reset.
TlsReset(t) ==
    LET u == WriteToTcp(Shutdown(t))
    IN  TcpReset([u EXCEPT
            !.is_handshake_completed = FALSE,
            !.ssl = "clear", !.in = "none", !.out = <<>>,
            !.writing = @ \o Some(u.should_retry) \o u.when_tcp_is_writing,
            !.should_retry = NoItem, !.retry_wb = NoItem, !.when_tcp_is_writing = <<>>])

\* Once the handshake is done, what waited for it joins write_wait.  (Its end put write_wait
\* right, so it is not torn when there is something to join it.)
Unpend(t) ==
    IF t.state = "DONE"
    THEN [t EXCEPT !.write_wait = @ \o t.conn_pending, !.conn_pending = <<>>]
    ELSE t

\* Mutant: an item is counted to the write under way.
JoinAlways(t, items) == [t EXCEPT !.writing = @ \o items]

\* What SSL has taken is written now, or with the next uv_write.
Join(t, items) ==
    IF t.is_writing THEN [t EXCEPT !.when_tcp_is_writing = @ \o items]
    ELSE [t EXCEPT !.writing = @ \o items]

\* SSL takes what waits for a retry and then all of write_wait.
AllWritten(t) ==
    LET items == Some(t.should_retry) \o t.write_wait
    IN  WriteToTcp([Join(t, items) EXCEPT
            !.out = @ \o Some(t.retry_wb) \o t.write_wait,
            !.should_retry = NoItem, !.retry_wb = NoItem, !.write_wait = <<>>,
            !.is_handshake_completed = TRUE])

\* SSL takes nothing yet: the first item is the one to be tried again.
NextRetry(t) ==
    IF t.retry_wb # NoItem THEN t
    ELSE [t EXCEPT !.should_retry = Head(t.write_wait), !.retry_wb = Head(t.write_wait),
                   !.write_wait = Tail(@)]

\* tls__write_to_bio.
WriteToBio(t) ==
    LET u == Unpend(t)
        v == Shake(u)
    IN  IF t.state = "NOT_CONN" THEN t
        ELSE IF u.retry_wb = NoItem /\ u.write_wait = <<>> THEN u
        ELSE IF v.ssl = "open" THEN AllWritten(v)
        ELSE IF v.ssl = "handshake" THEN NextRetry(v)
        ELSE TlsReset(NextRetry(v))

\* tcp__send_handshake_ack and the rest of tcp__on_handshake_resp; the head of write_wait
\* is put right by whatever is put there.
HandshakeDone(t) ==
    [t EXCEPT !.write_wait = <<"ack">> \o @, !.torn = FALSE,
              !.state = "DONE", !.write_async = TRUE]

\* The handler of a package; a response belongs to a request that was sent.
Handlers(t) ==
    IF t.in = "kick" THEN {TlsReset(t)}
    ELSE IF t.in = "response"
         THEN {[AnswerAll(t, <<r>>) EXCEPT
                   !.resp_pending = Only(Requests \ {r}, @)] :
               r \in {r \in Requests : Contains(t.sent, r)}}
    ELSE IF t.state = "HANDSHAKEING" /\ Contains(t.sent, "handshake")
         THEN {HandshakeDone(t)}
    ELSE {t}

\* tls__read_from_bio: SSL_read until there is nothing more, which is an SSL_read, too.
ReadFromBio(t) ==
    LET u == Shake(t) IN
    IF u.ssl = "failed" \/ u.in \in {"bad", "close"} THEN {TlsReset(u)}
    ELSE IF u.ssl = "handshake" THEN {[u EXCEPT !.in = "none"]}
    ELSE IF u.in = "renegotiate"
         THEN {[u EXCEPT !.ssl = "handshake", !.in = "none", !.out = Append(@, "ssl")]}
    ELSE IF u.in = "none" THEN {u}
    ELSE {Shake([v EXCEPT !.in = "none"]) :
            v \in Handlers([u EXCEPT !.is_handshake_completed = TRUE])}

-----------------------------------------------------------------------------
(* The application thread.                                                 *)

\* tr_uv_tcp_send up to its lock.
SendItem(i) ==
    /\ main = "idle" /\ i \notin called /\ tls.state # "NOT_CONN"
    /\ main' = "lock" /\ sending' = i /\ called' = called \cup {i}
    /\ UNCHANGED tls

\* The rest, with wq_mutex.
Insert ==
    /\ main = "lock" /\ main' = "idle" /\ sending' = NoItem
    /\ tls' =
        IF tls.state # "DONE"
        THEN [tls EXCEPT !.conn_pending = Append(@, sending),
                         !.write_async = tls.state # "NOT_CONN"]
        ELSE IF tls.torn
        THEN [tls EXCEPT !.lost = @ \cup {sending}, !.write_async = TRUE]
        ELSE [tls EXCEPT !.write_wait = Append(@, sending), !.write_async = TRUE]
    /\ UNCHANGED called

-----------------------------------------------------------------------------
(* The callbacks of the uv thread.                                         *)

\* tls__write_to_bio takes its items from write_wait without wq_mutex.  An insertion that
\* overlaps the removal of the last one may be lost, and leave a queue that seems to be
\* empty whatever is put at its end.
Overlapped(u) ==
    /\ main = "lock" /\ tls.state = "DONE" /\ u.state = "DONE"
    /\ tls.write_wait \o tls.conn_pending # <<>> /\ u.write_wait = <<>>
    /\ main' = "idle" /\ sending' = NoItem
    /\ \E broken \in BOOLEAN :
          tls' = [u EXCEPT !.lost = @ \cup {sending}, !.torn = broken, !.write_async = TRUE]
    /\ UNCHANGED called

\* A callback that leaves the transport at u.
Becomes(u) == tls' = u /\ UNCHANGED <<main, sending, called>>

\* tls__write_async_cb.
WriteAsync ==
    /\ tls.write_async
    /\ LET u == WriteToBio([tls EXCEPT !.write_async = FALSE])
       IN  Becomes(u) \/ Overlapped(u)

\* tls__on_tcp_read_cb: BIO_write and tls__cycle.
TcpRead(input) ==
    /\ IsOpen(tls)
    /\ input \in {"flight", "renegotiate"} => ~Contains(tls.out, "ssl")
    /\ input = "flight" => tls.ssl = "handshake"
    /\ LET written == WriteToBio([tls EXCEPT !.in = input]) IN
       \E read \in ReadFromBio(written) :
          LET u == WriteToTcp(read) IN Becomes(u) \/ Overlapped(u)

\* The read fails.
TcpReadError == IsOpen(tls) /\ Becomes(TlsReset(tls))

\* tls__write_done_cb; after a reset the write was cancelled.
WriteDone ==
    /\ tls.is_writing
    /\ \E ok \in (IF IsOpen(tls) THEN BOOLEAN ELSE {FALSE}) :
          LET kept == IF ok THEN Only(Requests, tls.writing) ELSE <<>>
              done == IF ok THEN Only(Notifies, tls.writing) ELSE tls.writing
          IN  Becomes(WriteToTcp([AnswerAll(tls, done) EXCEPT
                  !.is_writing = FALSE, !.writing = <<>>,
                  !.resp_pending = @ \o kept]))

\* A connection is begun; by then libuv has cancelled the last write of the one before.
ConnAsync ==
    /\ tls.state = "NOT_CONN" /\ ~tls.is_writing
    /\ Becomes([tls EXCEPT !.state = "CONNECTING", !.sent = <<>>])

\* tls__conn_done_cb: tcp__conn_done_cb, and SSL's hello.
ConnDone ==
    /\ tls.state = "CONNECTING"
    /\ LET connected == [tls EXCEPT !.state = "HANDSHAKEING", !.torn = FALSE,
                             !.write_wait = <<"handshake">> \o @, !.write_async = TRUE,
                             !.ssl = "clear"]
       IN  \E read \in ReadFromBio(connected) : Becomes(WriteToTcp(read))

ConnFailed == tls.state = "CONNECTING" /\ Becomes(TlsReset(tls))

\* A disconnect, a timer of the connection, or tls__cleanup_async_cb.
ResetByTimer == Becomes(TlsReset(tls))

\* tcp__send_heartbeat; one waits at a time (a bound).
SendHeartbeat ==
    /\ tls.state = "DONE"
    /\ ~Contains(tls.write_wait \o tls.out \o Some(tls.retry_wb), "heartbeat")
    /\ Becomes([tls EXCEPT !.write_wait = IF tls.torn THEN @ ELSE Append(@, "heartbeat"),
                           !.write_async = TRUE])

\* tls__write_timeout_check_cb: any of the items in these places may have had its time.
TimeoutCheck ==
    LET checked == Some(tls.should_retry) \o tls.when_tcp_is_writing \o tls.conn_pending
                     \o tls.write_wait \o tls.resp_pending
        Left(queue, late) == Only((Items \cup Internal) \ late, queue)
    IN  \E late \in SUBSET ItemsOf(checked) \ {{}} :
            Becomes([tls EXCEPT
                !.answered = @ \cup late,
                !.should_retry = IF @ \in late THEN NoItem ELSE @,
                !.when_tcp_is_writing = Left(@, late), !.conn_pending = Left(@, late),
                !.write_wait = Left(@, late), !.resp_pending = Left(@, late)])

-----------------------------------------------------------------------------

TlsNext ==
    \/ \E i \in Items : SendItem(i)
    \/ Insert
    \/ WriteAsync \/ \E input \in Inputs : TcpRead(input)
    \/ TcpReadError \/ WriteDone
    \/ ConnAsync \/ ConnDone \/ ConnFailed \/ ResetByTimer
    \/ SendHeartbeat \/ TimeoutCheck

TlsSpec == TlsInit /\ [][TlsNext]_tlsVars

-----------------------------------------------------------------------------
(* Properties.                                                             *)

PlacesOf(t) == t.conn_pending \o t.write_wait \o t.writing \o t.resp_pending
                 \o t.when_tcp_is_writing \o Some(t.should_retry)
Places == Some(sending) \o PlacesOf(tls)

\* Every variable has its type.
TlsTypeOK ==
    /\ tls.state \in {"NOT_CONN", "CONNECTING", "HANDSHAKEING", "DONE"}
    /\ ToSet(Places \o Some(tls.retry_wb)) \subseteq Items \cup Internal
    /\ ToSet(tls.out) \subseteq Items \cup Internal \cup {"ssl"}
    /\ tls.ssl \in {"clear", "handshake", "open"} /\ tls.in = "none"
    /\ {tls.is_writing, tls.write_async, tls.is_handshake_completed, tls.torn}
         \subseteq BOOLEAN
    /\ tls.answered \cup tls.lost \subseteq called /\ called \subseteq Items
    /\ main \in {"idle", "lock"} /\ sending \in Items \cup {NoItem}

\* A call is answered, or it is in one place, from which it will be; but for those that
\* were lost with the queue.  (A request may be answered while its item is still written.)
CallsKept ==
    /\ called \subseteq tls.answered \cup tls.lost \cup ToSet(Places)
    /\ \A i \in Items : Once(i, Places)

\* What ends with the write under way has been given to it: a call whose bytes are still
\* in out or in retry_wb does not count as sent.  (tls__write_to_tcp asserts a part of it.)
SentIsSent ==
    /\ \A w \in ToSet(Counted(tls.writing \o tls.resp_pending)) : Contains(tls.sent, w)
    /\ \A w \in ToSet(tls.when_tcp_is_writing) : Contains(tls.out, w)
    /\ tls.when_tcp_is_writing # <<>> => tls.is_writing

\* The bytes of a connection, those under way included: first the handshake, then its ack,
\* then calls, and each of them once.
StreamOf(t) == Counted(t.sent \o t.out \o Some(t.retry_wb) \o t.write_wait)
InOrder ==
    LET bytes == StreamOf(tls)
    IN  /\ \A j, k \in DOMAIN bytes : bytes[j] = bytes[k] => j = k
        /\ Len(bytes) >= 1 => bytes[1] = "handshake"
        /\ Len(bytes) >= 2 => bytes[2] = "ack"

\* Nothing of an earlier connection goes out on a new one.
FreshConnection ==
    tls.state = "CONNECTING" => tls.out = <<>> /\ tls.retry_wb = NoItem

\* What a connection carries is what its transport says it has sent, in order.
Carried == SentIsSent /\ FreshConnection /\ (IsOpen(tls) => InOrder)

===============================================================================
