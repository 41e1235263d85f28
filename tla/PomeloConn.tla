------------------------------ MODULE PomeloConn ------------------------------
(***************************************************************************)
(* The connection of a libpomelo2 client in polling mode, as PomeloClient  *)
(* uses it: the client state that connect, disconnect and the polled       *)
(* events move, and the TCP transport that the uv thread moves, with its   *)
(* socket, timers and wakeups.                                             *)
(*                                                                         *)
(* A callback of the uv thread is interleaved with the application only    *)
(* where it reads client->state (a reset) and where it takes event_mutex   *)
(* (an event): todo holds what is left to do of the callback under way.    *)
(* Assertions are compiled out, so a step that breaks one goes on.         *)
(*                                                                         *)
(* libuv runs, in one iteration, the timers that are due, then wakeups and *)
(* I/O, then the callbacks of the handles that were closed.                *)
(***************************************************************************)
EXTENDS Integers, Sequences

CONSTANTS
    enable_reconn,      \* of the client's configuration
    reconn_max_retry,   \* of the client's configuration, or PC_ALWAYS_RETRY
    MaxPending          \* bound on pending_ev_queue

PC_ALWAYS_RETRY == -1

ASSUME ConfigAssumption ==
    enable_reconn \in BOOLEAN /\ reconn_max_retry \in Nat \cup {PC_ALWAYS_RETRY}
ASSUME PendingAssumption == MaxPending \in Nat \ {0}

States == {"INITED", "CONNECTING", "CONNECTED", "DISCONNECTING"}
TransportStates == {"NOT_CONN", "CONNECTING", "HANDSHAKEING", "DONE"}

Events == {"CONNECTED", "CONNECT_ERROR", "CONNECT_FAILED", "DISCONNECT",
           "KICKED_BY_SERVER", "UNEXPECTED_DISCONNECT", "PROTO_ERROR"}

\* What a callback of the uv thread is made of.
Tasks == Events \cup {"reset", "reconn"}

\* "open": initialised, neither connecting nor reading.  A connect request whose
\* socket was closed is still to be answered: at the end of this iteration
\* ("cancelled", by a timer) or at once ("closing", by a wakeup).
\* is_connecting holds in the last three.
IsConnecting == {"connecting", "cancelled", "closing"}
Sockets == {"closed", "open", "reading"} \cup IsConnecting

\* handshake_timer, and what it is when it was started with a delay that never ends.
HandshakeTimers == {"handshake", "handshake_never"}

\* is_waiting_hb holds while hb_timeout runs.
Timers == {"reconn_delay", "conn_timeout", "hb", "hb_timeout"} \cup HandshakeTimers

\* conn_async, as sent by connect ("conn") and by reconn_delay_timer ("reconnect"),
\* and disconnect_async.
Wakeups == {"conn", "reconnect", "disconnect"}

VARIABLES
    state,              \* client->state
    pending_ev_queue,
    is_in_poll,         \* event_mutex is held by pc_client_poll
    tt_state,
    socket,
    timers,             \* the active timers
    asyncs,             \* the wakeups that were sent
    todo,               \* the rest of the uv thread's callback
    reconn_times

clientVars == <<state, is_in_poll>>
uvVars == <<tt_state, socket, timers, reconn_times>>
vars == <<clientVars, uvVars, pending_ev_queue, asyncs, todo>>

Init ==
    /\ state = "INITED"
    /\ pending_ev_queue = <<>>
    /\ is_in_poll = FALSE
    /\ tt_state = "NOT_CONN"
    /\ socket = "closed"
    /\ timers = {}
    /\ asyncs = {}
    /\ todo = <<>>
    /\ reconn_times = 0

-----------------------------------------------------------------------------
(* The uv thread: the parts of a callback.                                 *)

\* pc_trans_fire_event queues the event; it waits while a poll is under way.
Fire ==
    /\ todo # <<>> /\ Head(todo) \in Events
    /\ ~is_in_poll /\ Len(pending_ev_queue) < MaxPending
    /\ pending_ev_queue' = Append(pending_ev_queue, Head(todo))
    /\ todo' = Tail(todo)
    /\ UNCHANGED <<clientVars, uvVars, asyncs>>

\* tcp__reset: the socket stops reading and, unless the client is INITED, is
\* closed; handshake_timer goes on.
StopAllButConn == timers \ {"hb", "hb_timeout", "reconn_delay"}             \* mutant
StoppedTimers == timers \ {"hb", "hb_timeout", "reconn_delay", "conn_timeout"}

Close(cancelled) ==
    CASE socket = "connecting" -> cancelled
      [] socket \in {"open", "reading"} -> "closed"
      [] OTHER -> socket

ResetSocket(cancelled) ==
    IF state # "INITED" THEN Close(cancelled)
    ELSE IF socket = "reading" THEN "open" ELSE socket

Reset ==
    /\ todo # <<>> /\ Head(todo) = "reset"
    /\ todo' = Tail(todo)
    /\ socket' = ResetSocket("closing")
    /\ timers' = StoppedTimers
    /\ tt_state' = "NOT_CONN"
    /\ UNCHANGED <<clientVars, pending_ev_queue, asyncs, reconn_times>>

\* Mutant: the limit is compared before the attempt is counted.
MayRetryOnceMore ==
    enable_reconn /\ (reconn_max_retry = PC_ALWAYS_RETRY
                        \/ reconn_times <= reconn_max_retry)

\* tcp__reconn: reset, then wait for reconn_delay or give up.  The count is of
\* use only where there is a limit.
MayRetry ==
    enable_reconn /\ (reconn_max_retry = PC_ALWAYS_RETRY
                        \/ reconn_times + 1 <= reconn_max_retry)

Reconn ==
    /\ todo # <<>> /\ Head(todo) = "reconn"
    /\ socket' = ResetSocket("cancelled")
    /\ \/ /\ MayRetry
          /\ todo' = Tail(todo)
          /\ timers' = StoppedTimers \cup {"reconn_delay"}
          /\ tt_state' = "CONNECTING"
          /\ reconn_times' = IF reconn_max_retry = PC_ALWAYS_RETRY THEN reconn_times
                             ELSE reconn_times + 1
       \/ /\ ~MayRetry
          /\ todo' = <<"CONNECT_FAILED">> \o Tail(todo)
          /\ timers' = StoppedTimers
          /\ tt_state' = "NOT_CONN"
          /\ reconn_times' = 0
    /\ UNCHANGED <<clientVars, pending_ev_queue, asyncs>>

-----------------------------------------------------------------------------
(* The uv thread: the callbacks.                                           *)

\* The wakeup of reconn_delay_timer is served in the iteration that sent it,
\* before I/O.
IOReady == "reconnect" \notin asyncs

\* A callback begins when the one before it has ended, and has this to do.
Callback(tasks) ==
    /\ todo = <<>> /\ todo' = tasks
    /\ UNCHANGED <<clientVars, pending_ev_queue>>

\* A timer is due.  Two timers due in the same iteration, the first of which
\* cancels a connect request, are left out.
Due(timer) == timer \in timers /\ socket \notin {"cancelled", "closing"}

ReconnDelayTimer ==
    /\ Due("reconn_delay") /\ Callback(<<>>)
    /\ timers' = timers \ {"reconn_delay"}
    /\ asyncs' = asyncs \cup {"reconnect"}
    /\ UNCHANGED <<tt_state, socket, reconn_times>>

\* Mutant: "a connect request is under way" is asked of the transport's state.
ConnAsyncByState ==
    /\ asyncs \cap {"conn", "reconnect"} # {}
    /\ asyncs' = asyncs \ {"conn", "reconnect"}
    /\ socket # "closing"
    /\ Callback(<<>>)
    /\ IF tt_state = "NOT_CONN"
       THEN /\ tt_state' = "CONNECTING"
            /\ socket' = "connecting"
            /\ timers' = timers \cup {"conn_timeout"}
       ELSE UNCHANGED <<tt_state, socket, timers>>
    /\ UNCHANGED reconn_times

\* tcp__conn_async_cb: the address cannot be resolved or connected to, or a
\* connect request is under way.
ConnAsync ==
    /\ asyncs \cap {"conn", "reconnect"} # {}
    /\ asyncs' = asyncs \ {"conn", "reconnect"}
    /\ socket # "closing"
    /\ \/ /\ socket \in IsConnecting
          /\ Callback(<<>>)
          /\ UNCHANGED <<tt_state, socket, timers>>
       \/ /\ socket \notin IsConnecting
          /\ tt_state' = "CONNECTING"
          /\ \/ /\ Callback(<<>>)
                /\ socket' = "connecting"
                /\ timers' = timers \cup {"conn_timeout"}
             \/ /\ Callback(<<"CONNECT_ERROR", "reconn">>)
                /\ socket' = "open"
                /\ UNCHANGED timers
    /\ UNCHANGED reconn_times

ConnTimeout ==
    /\ Due("conn_timeout") /\ Callback(<<>>)
    /\ timers' = timers \ {"conn_timeout"}
    /\ socket' = Close("cancelled")
    /\ UNCHANGED <<tt_state, asyncs, reconn_times>>

\* tcp__conn_done_cb with status 0: the handshake is sent, and handshake_timer
\* started with what is left of conn_timeout.
TcpConnected(started) ==
    /\ IOReady /\ socket = "connecting" /\ Callback(<<>>)
    /\ socket' = "reading"
    /\ tt_state' = "HANDSHAKEING"
    /\ timers' = (timers \ ({"conn_timeout"} \cup HandshakeTimers)) \cup started
    /\ UNCHANGED <<asyncs, reconn_times>>

ConnDone == TcpConnected({"handshake"})

\* conn_timeout was due already, though not yet served: what is left of it is
\* negative, and taken as an unsigned delay never ends.
ConnDoneLate == TcpConnected({"handshake_never"})

\* tcp__conn_done_cb with an error, or with UV_ECANCELED once the socket is closed.
ConnDoneError ==
    /\ IOReady /\ socket \in IsConnecting /\ Callback(<<"CONNECT_ERROR", "reconn">>)
    /\ socket' = IF socket = "connecting" THEN "open" ELSE "closed"
    /\ timers' = timers \ {"conn_timeout"}
    /\ UNCHANGED <<tt_state, asyncs, reconn_times>>

\* Mutant: the attempt is reported, not given up.
HandshakeTimerReports ==
    /\ Due("handshake") /\ Callback(<<"CONNECT_ERROR">>)
    /\ timers' = timers \ {"handshake"}
    /\ UNCHANGED <<tt_state, socket, asyncs, reconn_times>>

HandshakeTimer ==
    /\ Due("handshake") /\ Callback(<<"CONNECT_ERROR", "reconn">>)
    /\ timers' = timers \ {"handshake"}
    /\ UNCHANGED <<tt_state, socket, asyncs, reconn_times>>

HeartbeatTimer ==
    /\ Due("hb") /\ Callback(<<>>)
    /\ timers' = (timers \ {"hb"}) \cup {"hb_timeout"}
    /\ UNCHANGED <<tt_state, socket, asyncs, reconn_times>>

HeartbeatTimeout ==
    /\ Due("hb_timeout") /\ Callback(<<"UNEXPECTED_DISCONNECT", "reconn">>)
    /\ timers' = timers \ {"hb_timeout"}
    /\ UNCHANGED <<tt_state, socket, asyncs, reconn_times>>

\* Mutant: only a connection that was there is reported.
DisconnectAsyncIfOpen ==
    /\ asyncs = {"disconnect"}
    /\ socket # "closing"
    /\ Callback(IF socket = "reading" THEN <<"reset", "DISCONNECT">> ELSE <<"reset">>)
    /\ asyncs' = {}
    /\ reconn_times' = 0
    /\ UNCHANGED <<tt_state, socket, timers>>

\* tcp__disconnect_async_cb.  Wakeups are served in the order the handles were
\* made, conn_async first; one sent while they are being served is left out.
DisconnectAsync ==
    /\ asyncs = {"disconnect"}
    /\ socket # "closing" /\ Callback(<<"reset", "DISCONNECT">>)
    /\ asyncs' = {}
    /\ reconn_times' = 0
    /\ UNCHANGED <<tt_state, socket, timers>>

\* What the server sends: it answers the handshake, and sends heartbeats, data
\* and a kick once the handshake is done.
Read(tasks) ==
    /\ IOReady /\ socket = "reading" /\ Callback(tasks)
    /\ UNCHANGED <<socket, asyncs>>

ReadError ==
    /\ Read(<<"UNEXPECTED_DISCONNECT", "reconn">>)
    /\ UNCHANGED <<tt_state, timers, reconn_times>>

\* Mutant: handshake_timer is not stopped.
HandshakeOkTimed ==
    /\ tt_state = "HANDSHAKEING" /\ Read(<<"CONNECTED">>)
    /\ tt_state' = "DONE"
    /\ reconn_times' = 0
    /\ \E hb \in {{}, {"hb"}} : timers' = timers \cup hb

\* tcp__on_handshake_resp, with or without a heartbeat.
HandshakeOk ==
    /\ tt_state = "HANDSHAKEING" /\ Read(<<"CONNECTED">>)
    /\ tt_state' = "DONE"
    /\ reconn_times' = 0
    /\ \E hb \in {{}, {"hb"}} : timers' = (timers \ HandshakeTimers) \cup hb

\* The answer has another code than PC_HANDSHAKE_OK, or lacks a field.
HandshakeRefused ==
    /\ tt_state = "HANDSHAKEING" /\ Read(<<"CONNECT_FAILED", "reset">>)
    /\ reconn_times' = 0
    /\ timers' = timers \ HandshakeTimers
    /\ UNCHANGED tt_state

\* The answer is not valid JSON: the code goes on to look for its fields.
HandshakeInvalid ==
    /\ tt_state = "HANDSHAKEING"
    /\ Read(<<"CONNECT_FAILED", "reset", "CONNECT_FAILED", "reset">>)
    /\ reconn_times' = 0
    /\ timers' = timers \ HandshakeTimers
    /\ UNCHANGED tt_state

Heartbeat ==
    /\ tt_state = "DONE" /\ "hb_timeout" \in timers /\ Read(<<>>)
    /\ timers' = (timers \ {"hb_timeout"}) \cup {"hb"}
    /\ UNCHANGED <<tt_state, reconn_times>>

BadData ==
    /\ tt_state = "DONE" /\ Read(<<"PROTO_ERROR", "reconn">>)
    /\ UNCHANGED <<tt_state, timers, reconn_times>>

\* Mutant: no reset.
KickWithoutReset ==
    /\ tt_state = "DONE" /\ Read(<<"KICKED_BY_SERVER">>)
    /\ UNCHANGED <<tt_state, timers, reconn_times>>

Kick ==
    /\ tt_state = "DONE" /\ Read(<<"KICKED_BY_SERVER", "reset">>)
    /\ UNCHANGED <<tt_state, timers, reconn_times>>

-----------------------------------------------------------------------------
(* The application thread.  A call first polls what is pending, then acts;  *)
(* events that come between the two are still pending when it acts.        *)

Connect ==
    /\ state = "INITED"
    /\ state' = "CONNECTING"
    /\ asyncs' = asyncs \cup {"conn"}
    /\ UNCHANGED <<uvVars, pending_ev_queue, is_in_poll, todo>>

Disconnect ==
    /\ state \in {"CONNECTING", "CONNECTED"}
    /\ state' = "DISCONNECTING"
    /\ asyncs' = asyncs \cup {"disconnect"}
    /\ UNCHANGED <<uvVars, pending_ev_queue, is_in_poll, todo>>

\* pc__trans_fire_event: the state a client in st is in after an event.
AfterEvent(st, ev) ==
    CASE ev = "CONNECTED" -> "CONNECTED"
      [] ev = "CONNECT_ERROR" -> st
      [] ev \in {"CONNECT_FAILED", "DISCONNECT", "KICKED_BY_SERVER"} -> "INITED"
      [] OTHER -> "CONNECTING"

\* One round of the loop of pc_client_poll; the application may call connect or
\* disconnect in the callback, that is before the next round or EndPoll.
HandleEvent ==
    /\ pending_ev_queue # <<>>
    /\ is_in_poll' = TRUE
    /\ pending_ev_queue' = Tail(pending_ev_queue)
    /\ state' = AfterEvent(state, Head(pending_ev_queue))
    /\ UNCHANGED <<uvVars, asyncs, todo>>

EndPoll ==
    /\ is_in_poll /\ pending_ev_queue = <<>>
    /\ is_in_poll' = FALSE
    /\ UNCHANGED <<state, uvVars, pending_ev_queue, asyncs, todo>>

Expiry == ReconnDelayTimer \/ ConnTimeout \/ HandshakeTimer \/ HeartbeatTimer
            \/ HeartbeatTimeout

Server == ReadError \/ HandshakeOk \/ HandshakeRefused \/ HandshakeInvalid
            \/ Heartbeat \/ BadData \/ Kick

Next ==
    \/ Fire \/ Reset \/ Reconn
    \/ Expiry \/ ConnAsync \/ ConnDone \/ ConnDoneLate \/ ConnDoneError
    \/ DisconnectAsync \/ Server
    \/ Connect \/ Disconnect \/ HandleEvent \/ EndPoll

Spec == Init /\ [][Next]_vars

\* The uv thread finishes its callbacks and serves timers and wakeups however
\* busy it is; the kernel answers a connect request; the application polls.
Fairness ==
    /\ WF_vars(Fire) /\ WF_vars(Reset) /\ WF_vars(Reconn)
    /\ SF_vars(ReconnDelayTimer) /\ SF_vars(HandshakeTimer)
    /\ SF_vars(HeartbeatTimer) /\ SF_vars(HeartbeatTimeout)
    /\ SF_vars(ConnAsync) /\ SF_vars(DisconnectAsync)
    /\ SF_vars(ConnDone \/ ConnDoneLate \/ ConnDoneError)
    /\ WF_vars(HandleEvent) /\ WF_vars(EndPoll)

FairSpec == Spec /\ Fairness

-----------------------------------------------------------------------------
(* Properties.                                                             *)

\* Every variable has its type, and the retries stay below their limit.
TypeOK ==
    /\ state \in States
    /\ pending_ev_queue \in Seq(Events)
    /\ is_in_poll \in BOOLEAN
    /\ tt_state \in TransportStates
    /\ socket \in Sockets
    /\ timers \subseteq Timers
    /\ asyncs \subseteq Wakeups
    /\ todo \in Seq(Tasks)
    /\ reconn_times \in Nat
    /\ reconn_max_retry # PC_ALWAYS_RETRY => reconn_times <= reconn_max_retry

Drained == pending_ev_queue = <<>> /\ todo = <<>>

\* A client in CONNECTING is never abandoned, whatever disconnects, kicks and
\* late events crossed its way: when all events are handled and the uv
\* thread is at rest, a wakeup, a timer, a connect request or an open connection
\* is there to take the attempt further.
NotAbandoned ==
    Drained /\ state = "CONNECTING" =>
        \/ asyncs # {} \/ "reconn_delay" \in timers
        \/ socket \in IsConnecting \cup {"reading"}

\* While the transport waits for the answer to its handshake, handshake_timer is active,
\* whatever resets have stopped the other timers: no server can hold the client there,
\* unless that timer never ends.
HandshakeGuarded ==
    todo = <<>> /\ tt_state = "HANDSHAKEING" => timers \cap HandshakeTimers # {}

\* What conn_timeout left over is "used as the timeout value of handshake" (comment
\* in tcp__conn_done_cb): every handshake ends, whatever the server does.
HandshakeEnds == tt_state = "HANDSHAKEING" ~> tt_state # "HANDSHAKEING"

\* conn_timeout is never left running for a connect request that has ended: its
\* callback would close the established connection (and asserts that it is not
\* called then).
TimeoutMeansConnecting == "conn_timeout" \in timers => socket = "connecting"

\* Each disconnect brings the client back to INITED, even when the connection is
\* lost, refused or kicked at the same time.
DisconnectEnds == state = "DISCONNECTING" ~> state = "INITED"

\* A client that is connecting is told how that ended, and goes on being told, as long
\* as no connection is made too late to be timed.
Answers == {"CONNECTED", "CONNECT_ERROR", "CONNECT_FAILED", "DISCONNECT"}
ConnectAnswered ==
    state = "CONNECTING" ~>
        \/ pending_ev_queue # <<>> /\ Head(pending_ev_queue) \in Answers
        \/ "handshake_never" \in timers

\* The states in which pc__trans_fire_event asserts to handle an event.
Expected(ev) ==
    CASE ev = "CONNECTED" -> {"CONNECTING"}
      [] ev \in {"CONNECT_ERROR", "CONNECT_FAILED"} -> {"CONNECTING", "DISCONNECTING"}
      [] ev = "DISCONNECT" -> {"DISCONNECTING"}
      [] ev = "KICKED_BY_SERVER" -> {"CONNECTED", "DISCONNECTING"}
      [] OTHER -> {"CONNECTING", "CONNECTED", "DISCONNECTING"}

=============================================================================
