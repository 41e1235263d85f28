------------------------------ MODULE PomeloReq ------------------------------
(***************************************************************************)
(* Requests and notifies of a libpomelo2 client in polling mode: from the  *)
(* call over the four queues of the TCP transport to the callback.         *)
(*                                                                         *)
(* The application thread holds event_mutex for the whole of a poll, its   *)
(* callbacks included.  The uv thread takes event_mutex for each answer,   *)
(* and gives its answers while it holds wq_mutex, which a call needs too.  *)
(* A critical section that takes no second lock is one step.               *)
(*                                                                         *)
(* todo is what is left of the uv thread's callback; an item in it is still *)
(* to be answered.  The connection is cut down to the transport's state;   *)
(* PomeloConn has the rest.                                                *)
(***************************************************************************)
EXTENDS Integers, Sequences, SequencesExt, Queues

CONSTANTS
    Requests, Notifies,
    Timed,              \* those with a timeout
    NoItem,
    SendInCallback      \* the application also sends from callbacks

Items == Requests \cup Notifies

\* Write items the transport makes for itself, without a timeout.
Internal == {"handshake", "ack", "heartbeat"}

\* What else a callback of the uv thread has to do, but for the items it answers.
Points == {"drain", "reconn", "ack", "done", "connected", "exit"}

ASSUME ItemsAssumption ==
    /\ Requests \cap Notifies = {} /\ Timed \subseteq Items
    /\ NoItem \notin Items /\ Items \cap (Internal \cup Points) = {}
ASSUME CallbackAssumption == SendInCallback \in BOOLEAN

TransportStates == {"NOT_CONN", "CONNECTING", "HANDSHAKEING", "DONE"}

\* "lock": about to take wq_mutex; "wake": queued, about to wake the uv thread up;
\* "join": cleanup waits for the uv thread; "final": its last poll.
MainPoints == {"idle", "lock", "wake", "join", "final", "cleaned"}

VARIABLES
    outcome,            \* of each item; "held" is in req_queue or notify_queue
    pending_ev_queue,   \* of the items answered
    is_in_poll,
    main,               \* where the application thread is
    sending,            \* the item it is in the middle of sending
    tt_state,
    conn_pending_queue, write_wait_queue, writing_queue, resp_pending_queue,
    is_writing,
    check_timeout,      \* the timer is active
    write_async,        \* the wakeup was sent
    todo,
    expired,            \* the items that have had their time
    server,             \* the requests the server may still answer
    overlooked          \* the items whose write the timer's last round fell into

appVars == <<outcome, is_in_poll, main, sending>>
queueVars == <<conn_pending_queue, write_wait_queue, writing_queue, resp_pending_queue>>
uvVars == <<tt_state, is_writing, check_timeout, todo>>
envVars == <<expired, server, overlooked>>
vars == <<appVars, queueVars, uvVars, envVars, pending_ev_queue, write_async>>

Init ==
    /\ outcome = [i \in Items |-> "unused"]
    /\ pending_ev_queue = <<>>
    /\ is_in_poll = FALSE
    /\ main = "idle" /\ sending = NoItem
    /\ tt_state = "NOT_CONN"
    /\ conn_pending_queue = <<>> /\ write_wait_queue = <<>>
    /\ writing_queue = <<>> /\ resp_pending_queue = <<>>
    /\ is_writing = FALSE
    /\ check_timeout = FALSE
    /\ write_async = FALSE
    /\ todo = <<>>
    /\ expired = {}
    /\ server = {}
    /\ overlooked = {}

OnlyItems(queue) == Only(Items, queue)
InTransport == conn_pending_queue \o write_wait_queue \o writing_queue \o resp_pending_queue

\* The uv thread is in the middle of its answers, with wq_mutex locked.
WqHeld == todo # <<>> /\ Head(todo) \in Items

-----------------------------------------------------------------------------
(* The application thread.                                                 *)

\* pc_request_with_timeout or pc_notify_with_timeout up to tr_uv_tcp_send's look at
\* the transport's state; a call that is refused there leaves nothing behind.
Send(i) ==
    /\ main = "idle" /\ outcome[i] = "unused"
    /\ is_in_poll => SendInCallback
    /\ tt_state # "NOT_CONN"
    /\ outcome' = [outcome EXCEPT ![i] = "held"]
    /\ main' = "lock" /\ sending' = i
    /\ UNCHANGED <<queueVars, uvVars, envVars, pending_ev_queue, is_in_poll, write_async>>

\* Mutant: an item need not wait for the end of the handshake.
EnqueueAtOnce ==
    /\ main = "lock" /\ ~WqHeld
    /\ write_wait_queue' = Append(write_wait_queue, sending)
    /\ main' = "wake" /\ sending' = NoItem
    /\ UNCHANGED <<uvVars, envVars, conn_pending_queue, writing_queue, resp_pending_queue,
                   pending_ev_queue, outcome, is_in_poll, write_async>>

\* tr_uv_tcp_send under wq_mutex.
Enqueue ==
    /\ main = "lock" /\ ~WqHeld
    /\ IF tt_state = "DONE"
       THEN /\ write_wait_queue' = Append(write_wait_queue, sending)
            /\ UNCHANGED conn_pending_queue
       ELSE /\ conn_pending_queue' = Append(conn_pending_queue, sending)
            /\ UNCHANGED write_wait_queue
    /\ main' = "wake" /\ sending' = NoItem
    /\ UNCHANGED <<uvVars, envVars, writing_queue, resp_pending_queue,
                   pending_ev_queue, outcome, is_in_poll, write_async>>

\* The call is over; the uv thread is woken up while there is a connection.
Wake ==
    /\ main = "wake" /\ main' = "idle"
    /\ write_async' = (write_async \/ tt_state # "NOT_CONN")
    /\ UNCHANGED <<queueVars, uvVars, envVars, pending_ev_queue, outcome, is_in_poll,
                   sending>>

\* The poll handles the connection's events too, which are not in the model.
BeginPoll ==
    /\ main = "idle" /\ ~is_in_poll /\ is_in_poll' = TRUE
    /\ UNCHANGED <<queueVars, uvVars, envVars, pending_ev_queue, outcome, main, sending,
                   write_async>>

\* One round of pc_client_poll: an item that is not held any more has no callback.
HandleEvent ==
    /\ is_in_poll /\ main \in {"idle", "final"} /\ pending_ev_queue # <<>>
    /\ pending_ev_queue' = Tail(pending_ev_queue)
    /\ outcome' = [outcome EXCEPT ![Head(pending_ev_queue)] = "answered"]
    /\ expired' = expired \ {Head(pending_ev_queue)}
    /\ UNCHANGED <<queueVars, uvVars, server, overlooked, is_in_poll, main, sending,
                   write_async>>

EndPoll ==
    /\ is_in_poll /\ main \in {"idle", "final"} /\ pending_ev_queue = <<>>
    /\ is_in_poll' = FALSE
    /\ main' = IF main = "final" THEN "cleaned" ELSE main
    /\ UNCHANGED <<queueVars, uvVars, envVars, pending_ev_queue, outcome, sending,
                   write_async>>

\* pc_client_cleanup, which PomeloClient calls at exit: wake the uv thread up, wait
\* for its end and poll a last time.
Cleanup ==
    /\ main = "idle" /\ ~is_in_poll /\ main' = "join"
    /\ UNCHANGED <<queueVars, uvVars, envVars, pending_ev_queue, outcome, is_in_poll,
                   sending, write_async>>

Joined ==
    /\ main = "join" /\ todo = <<"exit">>
    /\ main' = "final" /\ is_in_poll' = TRUE
    /\ UNCHANGED <<queueVars, uvVars, envVars, pending_ev_queue, outcome, sending,
                   write_async>>

Application ==
    \/ \E i \in Items : Send(i)
    \/ Enqueue \/ Wake \/ BeginPoll \/ HandleEvent \/ EndPoll \/ Cleanup \/ Joined

-----------------------------------------------------------------------------
(* The uv thread: the parts of a callback.                                 *)

\* pc_trans_resp or pc_trans_sent for the next item.
Answer ==
    /\ WqHeld /\ ~is_in_poll
    /\ pending_ev_queue' = Append(pending_ev_queue, Head(todo))
    /\ todo' = Tail(todo)
    /\ UNCHANGED <<appVars, queueVars, envVars, tt_state, is_writing, check_timeout,
                   write_async>>

\* tcp__reset under wq_mutex: every item is taken out, in this order, and answered.
Drain ==
    /\ todo # <<>> /\ Head(todo) = "drain"
    /\ todo' = OnlyItems(writing_queue \o conn_pending_queue \o write_wait_queue
                           \o resp_pending_queue) \o Tail(todo)
    /\ conn_pending_queue' = <<>> /\ write_wait_queue' = <<>>
    /\ writing_queue' = <<>> /\ resp_pending_queue' = <<>>
    /\ UNCHANGED <<appVars, envVars, pending_ev_queue, tt_state, is_writing,
                   check_timeout, write_async>>

\* tcp__reconn after its reset.
Reconn ==
    /\ todo # <<>> /\ Head(todo) = "reconn"
    /\ todo' = Tail(todo)
    /\ tt_state' = "CONNECTING"
    /\ UNCHANGED <<appVars, queueVars, envVars, pending_ev_queue, is_writing,
                   check_timeout, write_async>>

\* tcp__send_handshake_ack.
Ack ==
    /\ todo # <<>> /\ Head(todo) = "ack"
    /\ todo' = Tail(todo)
    /\ write_wait_queue' = <<"ack">> \o write_wait_queue
    /\ write_async' = TRUE
    /\ UNCHANGED <<appVars, envVars, pending_ev_queue, conn_pending_queue, writing_queue,
                   resp_pending_queue, tt_state, is_writing, check_timeout>>

Done ==
    /\ todo # <<>> /\ Head(todo) = "done"
    /\ todo' = Tail(todo)
    /\ tt_state' = "DONE"
    /\ UNCHANGED <<appVars, queueVars, envVars, pending_ev_queue, is_writing,
                   check_timeout, write_async>>

\* The end of tcp__on_handshake_resp, once its event is queued.
Connected ==
    /\ todo # <<>> /\ Head(todo) = "connected" /\ ~is_in_poll
    /\ todo' = Tail(todo)
    /\ write_async' = TRUE
    /\ UNCHANGED <<appVars, queueVars, envVars, pending_ev_queue, tt_state, is_writing,
                   check_timeout>>

Callback == Answer \/ Drain \/ Reconn \/ Ack \/ Done \/ Connected

-----------------------------------------------------------------------------
(* The uv thread: the callbacks.                                           *)

\* tcp__reset up to its lock, by a disconnect, a kick or a lost connection; after
\* the latter the transport may connect again, after a cleanup its thread ends.
BeginReset(after) ==
    /\ todo = <<>> /\ todo' = <<"drain">> \o after
    /\ tt_state' = "NOT_CONN"
    /\ check_timeout' = FALSE
    /\ server' = {}
    /\ UNCHANGED <<appVars, queueVars, expired, overlooked, pending_ev_queue,
                   is_writing, write_async>>

Reset == BeginReset(<<>>) \/ BeginReset(<<"reconn">>)

\* Mutant: no reset.
CleanupAsyncAtOnce ==
    /\ main = "join" /\ todo = <<>> /\ todo' = <<"exit">>
    /\ UNCHANGED <<appVars, queueVars, envVars, pending_ev_queue, tt_state, is_writing,
                   check_timeout, write_async>>

CleanupAsync == main = "join" /\ BeginReset(<<"exit">>)

\* tcp__conn_async_cb.  It does not ask for the state: see AttemptsExpected (PomeloConn_proofs).
ConnAsync ==
    /\ todo = <<>> /\ tt_state = "NOT_CONN" /\ tt_state' = "CONNECTING"
    /\ UNCHANGED <<appVars, queueVars, envVars, pending_ev_queue, is_writing,
                   check_timeout,
                   todo, write_async>>

\* tcp__conn_done_cb with status 0, of an attempt that may have outlived a reset.
ConnDone ==
    /\ todo = <<>> /\ tt_state \in {"NOT_CONN", "CONNECTING"} /\ tt_state' = "HANDSHAKEING"
    /\ write_wait_queue' = <<"handshake">> \o write_wait_queue
    /\ write_async' = TRUE
    /\ UNCHANGED <<appVars, envVars, pending_ev_queue, conn_pending_queue, writing_queue,
                   resp_pending_queue, is_writing, check_timeout, todo>>

\* tcp__on_handshake_resp.
HandshakeResp ==
    /\ todo = <<>> /\ tt_state = "HANDSHAKEING" /\ todo' = <<"ack", "done", "connected">>
    /\ UNCHANGED <<appVars, queueVars, envVars, pending_ev_queue, tt_state, is_writing,
                   check_timeout, write_async>>

\* tcp__send_heartbeat; one heartbeat waits at a time (a bound).
Heartbeat ==
    /\ todo = <<>> /\ tt_state = "DONE" /\ ~Contains(write_wait_queue, "heartbeat")
    /\ write_wait_queue' = Append(write_wait_queue, "heartbeat")
    /\ write_async' = TRUE
    /\ UNCHANGED <<appVars, envVars, pending_ev_queue, conn_pending_queue, writing_queue,
                   resp_pending_queue, tt_state, is_writing, check_timeout, todo>>

\* What tcp__write_async_cb is about to write.
ToWrite ==
    IF tt_state = "DONE" THEN write_wait_queue \o conn_pending_queue ELSE write_wait_queue

NeedCheck ==
    \/ tt_state # "DONE" /\ conn_pending_queue # <<>>
    \/ \E i \in Timed : Contains(ToWrite, i)

\* A wakeup that finds nothing it may write.
WriteAsyncIdle ==
    /\ todo = <<>> /\ write_async /\ write_async' = FALSE
    /\ \/ (tt_state = "NOT_CONN" \/ is_writing) /\ UNCHANGED check_timeout
       \/ /\ tt_state # "NOT_CONN" /\ ~is_writing /\ ToWrite = <<>>
          /\ check_timeout' = (check_timeout \/ NeedCheck)
    /\ UNCHANGED <<appVars, queueVars, envVars, pending_ev_queue, tt_state, is_writing,
                   todo>>

TakeAll ==
    /\ todo = <<>> /\ write_async /\ write_async' = FALSE
    /\ tt_state # "NOT_CONN" /\ ~is_writing /\ ToWrite # <<>>
    /\ write_wait_queue' = <<>>
    /\ conn_pending_queue' = IF tt_state = "DONE" THEN <<>> ELSE conn_pending_queue

\* Mutant: nobody starts the timer.
WriteAsyncUnchecked ==
    /\ TakeAll
    /\ writing_queue' = writing_queue \o ToWrite
    /\ is_writing' = TRUE
    /\ server' = server \cup {r \in Requests : Contains(ToWrite, r)}
    /\ UNCHANGED <<appVars, expired, overlooked, pending_ev_queue, resp_pending_queue,
                   tt_state, todo,
                   check_timeout>>

\* tcp__write_async_cb, uv_write succeeds.
WriteAsync ==
    /\ TakeAll
    /\ writing_queue' = writing_queue \o ToWrite
    /\ is_writing' = TRUE
    /\ check_timeout' = (check_timeout \/ NeedCheck)
    /\ server' = server \cup {r \in Requests : Contains(ToWrite, r)}
    /\ UNCHANGED <<appVars, expired, overlooked, pending_ev_queue, resp_pending_queue,
                   tt_state, todo>>

\* uv_write fails.
WriteAsyncError ==
    /\ TakeAll
    /\ writing_queue' = <<>>
    /\ todo' = OnlyItems(writing_queue \o ToWrite)
    /\ UNCHANGED <<appVars, envVars, pending_ev_queue, resp_pending_queue, tt_state,
                   is_writing, check_timeout>>

\* Mutant: a written request is answered as well.
WriteDoneAnswersAll ==
    /\ todo = <<>> /\ is_writing /\ is_writing' = FALSE
    /\ write_async' = TRUE
    /\ resp_pending_queue' =
          resp_pending_queue \o Only(Requests, writing_queue)
    /\ todo' = OnlyItems(writing_queue)
    /\ writing_queue' = <<>>
    /\ UNCHANGED <<appVars, envVars, pending_ev_queue, conn_pending_queue,
                   write_wait_queue,
                   tt_state, check_timeout>>

\* Mutant: written notifies are kept, too.
WriteDoneKeepsAll ==
    /\ todo = <<>> /\ is_writing /\ is_writing' = FALSE
    /\ write_async' = TRUE
    /\ resp_pending_queue' = resp_pending_queue \o OnlyItems(writing_queue)
    /\ writing_queue' = <<>>
    /\ UNCHANGED <<appVars, envVars, pending_ev_queue, conn_pending_queue,
                   write_wait_queue,
                   tt_state, check_timeout, todo>>

\* tcp__write_done_cb: written requests wait for their response, all else is answered.
WriteDone ==
    /\ todo = <<>> /\ is_writing /\ is_writing' = FALSE
    /\ write_async' = TRUE
    /\ \/ /\ resp_pending_queue' =
               resp_pending_queue \o Only(Requests, writing_queue)
          /\ todo' = Only(Notifies, writing_queue)
       \/ /\ todo' = OnlyItems(writing_queue)
          /\ UNCHANGED resp_pending_queue
    /\ writing_queue' = <<>>
    /\ UNCHANGED <<appVars, envVars, pending_ev_queue, conn_pending_queue,
                   write_wait_queue,
                   tt_state, check_timeout>>

\* tcp__check_queue_timeout: what stays in a queue.
NotExpired(queue) == Only((Items \cup Internal) \ expired, queue)

\* tcp__write_check_timeout_cb; writing_queue is not looked at.
CheckTimeout ==
    LET checked == conn_pending_queue \o write_wait_queue \o resp_pending_queue IN
    /\ todo = <<>> /\ check_timeout
    /\ todo' = Only(expired, checked)
    /\ conn_pending_queue' = NotExpired(conn_pending_queue)
    /\ write_wait_queue' = NotExpired(write_wait_queue)
    /\ resp_pending_queue' = NotExpired(resp_pending_queue)
    /\ check_timeout' = \E i \in Timed \ expired : Contains(checked, i)
    /\ expired' = {i \in expired : ~Contains(checked, i)}
    /\ overlooked' = {i \in Timed : Contains(writing_queue, i)}
    /\ UNCHANGED <<appVars, server, pending_ev_queue, writing_queue, tt_state, is_writing,
                   write_async>>

\* tcp__on_data_recieved: the server answers a request it was sent, which may come
\* before tcp__write_done_cb.
Response(r) ==
    /\ todo = <<>> /\ tt_state = "DONE" /\ r \in server /\ ~is_in_poll
    /\ pending_ev_queue' = Append(pending_ev_queue, r)
    /\ resp_pending_queue' = Only(Requests \ {r}, resp_pending_queue)
    /\ server' = server \ {r}
    /\ UNCHANGED <<appVars, expired, overlooked, conn_pending_queue, write_wait_queue,
                   writing_queue, uvVars,
                   write_async>>

Transport ==
    \/ Callback \/ Reset \/ CleanupAsync
    \/ ConnAsync \/ ConnDone \/ HandshakeResp \/ Heartbeat
    \/ WriteAsyncIdle \/ WriteAsync \/ WriteAsyncError \/ WriteDone \/ CheckTimeout
    \/ \E r \in Requests : Response(r)

\* Time passes.
Expire(i) ==
    /\ i \in Timed \ expired /\ Contains(InTransport, i)
    /\ expired' = expired \cup {i}
    /\ UNCHANGED <<appVars, queueVars, uvVars, pending_ev_queue, write_async, server,
                   overlooked>>

Next == Application \/ Transport \/ \E i \in Timed : Expire(i)

Spec == Init /\ [][Next]_vars

\* The uv thread ends its callbacks and serves timers and wakeups however busy it is;
\* a write ends (the heartbeat ends a connection that takes no more data); a call goes
\* on as far as the locks let it; the application polls.
Fairness ==
    /\ SF_vars(Callback)
    /\ SF_vars(WriteAsyncIdle \/ WriteAsync \/ WriteAsyncError)
    /\ SF_vars(WriteDone) /\ SF_vars(CheckTimeout)
    /\ WF_vars(Enqueue \/ Wake) /\ WF_vars(BeginPoll \/ HandleEvent \/ EndPoll)
    /\ \A i \in Timed : WF_vars(Expire(i))

FairSpec == Spec /\ Fairness

-----------------------------------------------------------------------------
(* Properties.                                                             *)

\* Every variable has its type.
TypeOK ==
    /\ outcome \in [Items -> {"unused", "held", "answered"}]
    /\ pending_ev_queue \in Seq(Items)
    /\ is_in_poll \in BOOLEAN
    /\ main \in MainPoints
    /\ sending \in Items \cup {NoItem}
    /\ tt_state \in TransportStates
    /\ conn_pending_queue \in Seq(Items)
    /\ write_wait_queue \in Seq(Items \cup Internal)
    /\ writing_queue \in Seq(Items \cup Internal)
    /\ resp_pending_queue \in Seq(Requests)
    /\ is_writing \in BOOLEAN /\ check_timeout \in BOOLEAN /\ write_async \in BOOLEAN
    /\ todo \in Seq(Items \cup Points)
    /\ expired \subseteq Timed /\ server \subseteq Requests /\ overlooked \subseteq Timed

\* A write item is in one place at most, so that it is released once, also when its
\* response, its timeout, a reset and the end of its write cross each other; and one the
\* client holds is never lost: the call is still on its way, or the item is in a queue of the
\* transport, or its answer is under way.
OnePlace ==
    \A i \in Items :
        LET places == InTransport \o todo \o <<sending>>
        IN  /\ Once(i, places)
            /\ outcome[i] = "held" => Contains(places, i) \/ Contains(pending_ev_queue, i)

\* "insert to head, because handshake ack should be sent before any application data":
\* no item overtakes the acknowledgement, whenever it was sent.
AckFirst ==
    \A k \in DOMAIN write_wait_queue : write_wait_queue[k] = "ack" =>
        k = 1 /\ OnlyItems(writing_queue) = <<>>

\* "transport should ack all the request it holds from client": when a client is cleaned
\* up, none of its calls is left without an answer.
AllAcked == main = "cleaned" => \A i \in Items : outcome[i] # "held"

\* A poll's callback waits for wq_mutex, which the uv thread holds while it waits for
\* event_mutex, which the poll holds.
Deadlocked == is_in_poll /\ main = "lock" /\ WqHeld

\* "the callback invoked in tcp__reset_wi may send notify/request": a call returns,
\* wherever it is made, and however the uv thread is busy with answers.
SendReturns == main \in {"lock", "wake"} ~> main = "idle"

\* A call with a timeout is answered in the end; or it waits for a connection, which
\* may never come once it was reset behind the call's back; or its timer stopped
\* during its write; or the threads are deadlocked.
Stranded(i) ==
    \/ Contains(conn_pending_queue, i) /\ tt_state # "DONE"
    \/ Contains(resp_pending_queue, i) /\ i \in overlooked
TimedAnswered ==
    \A i \in Timed : outcome[i] = "held" ~> outcome[i] # "held" \/ Stranded(i) \/ Deadlocked
                                              \/ main = "join"

=============================================================================
