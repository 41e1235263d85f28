--------------------------- MODULE PomeloConn_proofs ---------------------------
(***************************************************************************)
(* Proofs about PomeloConn, for every configuration and every bound: each  *)
(* variable has its type and the retries stay below their limit;           *)
(* conn_timeout never outlives the connect request it was started for;     *)
(* handshake_timer is active during the wait for the handshake; a client   *)
(* that is connecting is never abandoned; and in a calm session each event *)
(* meets a state that it expects, and client and transport agree.          *)
(***************************************************************************)
EXTENDS MCPomeloConn, SequenceTheorems, TLAPS

USE DEF States, TransportStates, Events, Tasks, IsConnecting, Sockets, HandshakeTimers,
        Timers, Wakeups, PC_ALWAYS_RETRY

-----------------------------------------------------------------------------
(* Type correctness.                                                       *)

\* Every list of tasks that a callback starts with.
LEMMA TasksType ==
    /\ <<>> \in Seq(Tasks)
    /\ <<"CONNECTED">> \in Seq(Tasks)
    /\ \A ev \in Events : <<ev, "reset">> \in Seq(Tasks) /\ <<ev, "reconn">> \in Seq(Tasks)
    /\ <<"reset", "DISCONNECT">> \in Seq(Tasks)
    /\ <<"CONNECT_FAILED", "reset", "CONNECT_FAILED", "reset">> \in Seq(Tasks)
  OBVIOUS

\* The socket stays one of the sockets, whatever closes it.
LEMMA CloseType ==
    ASSUME socket \in Sockets, NEW cancelled \in {"cancelled", "closing"}
    PROVE  Close(cancelled) \in Sockets /\ ResetSocket(cancelled) \in Sockets
  BY DEF Close, ResetSocket

LEMMA FireType == ASSUME TypeOK, Fire PROVE TypeOK'
<1>1. todo' \in Seq(Tasks) /\ pending_ev_queue' \in Seq(Events)
  BY DEF Fire, TypeOK
<1> QED
  BY <1>1 DEF Fire, TypeOK, clientVars, uvVars

LEMMA ResetType == ASSUME TypeOK, Reset PROVE TypeOK'
<1>1. todo' \in Seq(Tasks)
  BY DEF Reset, TypeOK
<1>2. socket' \in Sockets
  BY CloseType DEF Reset, TypeOK
<1> QED
  BY <1>1, <1>2 DEF Reset, TypeOK, clientVars, StoppedTimers

LEMMA ReconnType == ASSUME TypeOK, Reconn PROVE TypeOK'
<1>1. Tail(todo) \in Seq(Tasks) /\ <<"CONNECT_FAILED">> \in Seq(Tasks)
  BY DEF Reconn, TypeOK
<1>2. todo' \in Seq(Tasks)
  BY <1>1, SMTT(30) DEF Reconn
<1>3. socket' \in Sockets
  BY CloseType DEF Reconn, TypeOK
<1>4. CASE MayRetry
  <2>1. /\ reconn_times' \in Nat
        /\ reconn_max_retry # PC_ALWAYS_RETRY => reconn_times' <= reconn_max_retry
    BY <1>4, ConfigAssumption DEF Reconn, MayRetry, TypeOK
  <2> QED
    BY <1>2, <1>3, <1>4, <2>1 DEF Reconn, TypeOK, clientVars, StoppedTimers
<1>5. CASE ~MayRetry
  <2>1. /\ reconn_times' \in Nat
        /\ reconn_max_retry # PC_ALWAYS_RETRY => reconn_times' <= reconn_max_retry
    BY <1>5, ConfigAssumption DEF Reconn
  <2> QED
    BY <1>2, <1>3, <1>5, <2>1 DEF Reconn, TypeOK, clientVars, StoppedTimers
<1> QED
  BY <1>4, <1>5

\* A callback that leaves the retries alone or forgets them.
LEMMA CallbackType ==
    ASSUME TypeOK, NEW tasks \in Seq(Tasks), Callback(tasks),
           tt_state' \in TransportStates, socket' \in Sockets,
           timers' \subseteq Timers, asyncs' \subseteq Wakeups,
           reconn_times' \in {reconn_times, 0}
    PROVE  TypeOK'
<1>1. /\ reconn_times' \in Nat
      /\ reconn_max_retry # PC_ALWAYS_RETRY => reconn_times' <= reconn_max_retry
  BY ConfigAssumption DEF TypeOK
<1> QED
  BY <1>1 DEF Callback, TypeOK, clientVars

LEMMA ExpiryType == ASSUME TypeOK, Expiry PROVE TypeOK'
<1> USE TasksType, CallbackType DEF TypeOK
<1>1. CASE ReconnDelayTimer
  BY <1>1 DEF ReconnDelayTimer
<1>2. CASE ConnTimeout
  BY <1>2, CloseType DEF ConnTimeout
<1>3. CASE HandshakeTimer
  BY <1>3 DEF HandshakeTimer
<1>4. CASE HeartbeatTimer
  BY <1>4 DEF HeartbeatTimer
<1>5. CASE HeartbeatTimeout
  BY <1>5 DEF HeartbeatTimeout
<1> QED
  BY <1>1, <1>2, <1>3, <1>4, <1>5 DEF Expiry

LEMMA WakeupType ==
    ASSUME TypeOK,
           ConnAsync \/ ConnDone \/ ConnDoneLate \/ ConnDoneError \/ DisconnectAsync
    PROVE  TypeOK'
<1> USE TasksType, CallbackType DEF TypeOK
<1>1. CASE ConnAsync
  BY <1>1 DEF ConnAsync
<1>2. CASE ConnDone \/ ConnDoneLate
  BY <1>2 DEF ConnDone, ConnDoneLate, TcpConnected
<1>3. CASE ConnDoneError
  BY <1>3 DEF ConnDoneError
<1>4. CASE DisconnectAsync
  BY <1>4 DEF DisconnectAsync
<1> QED
  BY <1>1, <1>2, <1>3, <1>4

LEMMA ServerType == ASSUME TypeOK, Server PROVE TypeOK'
<1> USE TasksType, CallbackType DEF TypeOK, Read
<1>1. CASE ReadError
  BY <1>1 DEF ReadError
<1>2. CASE HandshakeOk
  BY <1>2 DEF HandshakeOk
<1>3. CASE HandshakeRefused
  BY <1>3 DEF HandshakeRefused
<1>4. CASE HandshakeInvalid
  BY <1>4 DEF HandshakeInvalid
<1>5. CASE Heartbeat
  BY <1>5 DEF Heartbeat
<1>6. CASE BadData
  BY <1>6 DEF BadData
<1>7. CASE Kick
  BY <1>7 DEF Kick
<1> QED
  BY <1>1, <1>2, <1>3, <1>4, <1>5, <1>6, <1>7 DEF Server

LEMMA ClientType ==
    ASSUME TypeOK, Connect \/ Disconnect \/ HandleEvent \/ EndPoll
    PROVE  TypeOK'
<1>1. CASE Connect
  BY <1>1 DEF Connect, TypeOK, uvVars
<1>2. CASE Disconnect
  BY <1>2 DEF Disconnect, TypeOK, uvVars
<1>3. CASE HandleEvent
  <2>1. pending_ev_queue' \in Seq(Events)
    BY <1>3 DEF HandleEvent, TypeOK
  <2>2. state' = AfterEvent(state, Head(pending_ev_queue))
    BY <1>3 DEF HandleEvent
  <2>3. state' \in States
    BY <2>2 DEF AfterEvent, TypeOK
  <2> QED
    BY <1>3, <2>1, <2>3 DEF HandleEvent, TypeOK, uvVars
<1>4. CASE EndPoll
  BY <1>4 DEF EndPoll, TypeOK, uvVars
<1> QED
  BY <1>1, <1>2, <1>3, <1>4

LEMMA TypeStep == TypeOK /\ [Next]_vars => TypeOK'
<1>1. CASE UNCHANGED vars
  BY <1>1 DEF vars, clientVars, uvVars, TypeOK
<1>2. CASE Next
  BY <1>2, FireType, ResetType, ReconnType, ExpiryType, WakeupType, ServerType,
     ClientType DEF Next
<1> QED
  BY <1>1, <1>2

\* Every variable keeps its type, and with a limit on the retries the count of
\* them never passes it.
THEOREM TypeCorrect == Spec => []TypeOK
<1>1. Init => TypeOK
  <2>1. <<>> \in Seq(Events) /\ <<>> \in Seq(Tasks)
    BY EmptySeq
  <2>2. reconn_max_retry # PC_ALWAYS_RETRY => 0 <= reconn_max_retry
    BY ConfigAssumption
  <2> SUFFICES ASSUME Init PROVE TypeOK
    OBVIOUS
  <2>3. timers \subseteq Timers /\ asyncs \subseteq Wakeups
    BY DEF Init
  <2> QED
    BY <2>1, <2>2, <2>3 DEF Init, TypeOK
<1> QED
  BY <1>1, TypeStep, PTL DEF Spec

-----------------------------------------------------------------------------
(* conn_timeout.                                                           *)

\* conn_timeout runs only while its connect request is under way: it is
\* started with the request and stopped by every step that ends it.
THEOREM TimeoutConnecting == Spec => []TimeoutMeansConnecting
<1>1. Init => TimeoutMeansConnecting
  BY DEF Init, TimeoutMeansConnecting
<1>2. TimeoutMeansConnecting /\ [Next]_vars => TimeoutMeansConnecting'
  <2> SUFFICES ASSUME TimeoutMeansConnecting, [Next]_vars
               PROVE  TimeoutMeansConnecting'
    OBVIOUS
  <2> USE DEF TimeoutMeansConnecting, Callback
  <2>1. CASE UNCHANGED vars \/ Fire \/ Connect \/ Disconnect \/ HandleEvent \/ EndPoll
    BY <2>1 DEF vars, uvVars, Fire, Connect, Disconnect, HandleEvent, EndPoll
  <2>2. CASE Reset \/ Reconn
    BY <2>2 DEF Reset, Reconn, StoppedTimers
  <2>3. CASE Expiry
    BY <2>3 DEF Expiry, ReconnDelayTimer, ConnTimeout, HandshakeTimer, HeartbeatTimer,
                HeartbeatTimeout
  <2>4. CASE ConnAsync
    BY <2>4 DEF ConnAsync
  <2>5. CASE ConnDone \/ ConnDoneLate \/ ConnDoneError \/ DisconnectAsync
    BY <2>5 DEF ConnDone, ConnDoneLate, TcpConnected, ConnDoneError, DisconnectAsync
  <2>6. CASE Server
    BY <2>6 DEF Server, Read, ReadError, HandshakeOk, HandshakeRefused,
                HandshakeInvalid, Heartbeat, BadData, Kick
  <2> QED
    BY <2>1, <2>2, <2>3, <2>4, <2>5, <2>6 DEF Next
<1> QED
  BY <1>1, <1>2, PTL DEF Spec

-----------------------------------------------------------------------------
(* The wait for the handshake.                                             *)

\* The callback under way still has to reset the transport.
ResetsYet == \E i \in 1..Len(todo) : todo[i] \in {"reset", "reconn"}

\* HandshakeGuarded is not inductive, as handshake_timer is stopped or has
\* expired one event before the transport is reset.
GuardInv == tt_state = "HANDSHAKEING" => timers \cap HandshakeTimers # {} \/ ResetsYet

\* Queueing an event leaves the reset to be done.
LEMMA FireKeepsReset == ASSUME TypeOK, Fire, ResetsYet PROVE ResetsYet'
<1>1. PICK i \in 1..Len(todo) : todo[i] \in {"reset", "reconn"}
  BY DEF ResetsYet
<1>2. todo \in Seq(Tasks) /\ todo # <<>> /\ todo[1] \in Events /\ todo' = Tail(todo)
  BY DEF Fire, TypeOK
<1>3. i # 1
  BY <1>1, <1>2
<1>4. i - 1 \in 1..Len(todo') /\ todo'[i - 1] = todo[i]
  BY <1>1, <1>2, <1>3
<1> QED
  BY <1>1, <1>4 DEF ResetsYet

\* A callback that starts with all the timers of the handshake, or with a reset
\* to be done, or that leaves the handshake.
LEMMA CallbackGuard ==
    ASSUME GuardInv, NEW tasks, Callback(tasks),
           \/ tt_state' # "HANDSHAKEING"
           \/ tt_state' = tt_state /\ timers \cap HandshakeTimers \subseteq timers'
           \/ tt_state' = "HANDSHAKEING" /\ timers' \cap HandshakeTimers # {}
           \/ Len(tasks) >= 2 /\ tasks[2] \in {"reset", "reconn"} /\ Len(tasks) \in Nat
    PROVE  GuardInv'
<1>1. todo = <<>> /\ todo' = tasks
  BY DEF Callback
<1>2. ~ResetsYet
  BY <1>1 DEF ResetsYet
<1>3. Len(tasks) >= 2 /\ tasks[2] \in {"reset", "reconn"} /\ Len(tasks) \in Nat
        => ResetsYet'
  BY <1>1 DEF ResetsYet
<1> QED
  BY <1>2, <1>3 DEF GuardInv

LEMMA GuardStep == TypeOK /\ GuardInv /\ [Next]_vars => GuardInv'
<1> SUFFICES ASSUME TypeOK, GuardInv, [Next]_vars PROVE GuardInv'
  OBVIOUS
<1>1. CASE UNCHANGED vars \/ Connect \/ Disconnect \/ HandleEvent \/ EndPoll
  BY <1>1 DEF vars, uvVars, Connect, Disconnect, HandleEvent, EndPoll, GuardInv, ResetsYet
<1>2. CASE Fire
  BY <1>2, FireKeepsReset DEF Fire, uvVars, GuardInv
<1>3. CASE Reset \/ Reconn
  BY <1>3 DEF Reset, Reconn, GuardInv
<1>4. CASE Expiry
  BY <1>4, CallbackGuard DEF Expiry, ReconnDelayTimer, ConnTimeout, HandshakeTimer,
              HeartbeatTimer, HeartbeatTimeout
<1>5. CASE ConnAsync
  BY <1>5, CallbackGuard DEF ConnAsync
<1>6. CASE ConnDone \/ ConnDoneLate \/ ConnDoneError \/ DisconnectAsync
  BY <1>6, CallbackGuard DEF ConnDone, ConnDoneLate, TcpConnected, ConnDoneError, DisconnectAsync
<1>7. CASE Server
  BY <1>7, CallbackGuard DEF Server, Read, ReadError, HandshakeOk, HandshakeRefused,
              HandshakeInvalid, Heartbeat, BadData, Kick
<1> QED
  BY <1>1, <1>2, <1>3, <1>4, <1>5, <1>6, <1>7 DEF Next

\* Whenever the uv thread is between two callbacks and the transport waits for the
\* server's answer to the handshake, handshake_timer is active.
THEOREM HandshakeTimed == Spec => []HandshakeGuarded
<1>1. Init => GuardInv
  BY DEF Init, GuardInv
<1>2. GuardInv => HandshakeGuarded
  BY DEF GuardInv, ResetsYet, HandshakeGuarded
<1> QED
  BY <1>1, <1>2, GuardStep, TypeCorrect, PTL DEF Spec

-----------------------------------------------------------------------------
(* No client is abandoned.                                                 *)

\* What is left of a callback of the uv thread at any time.
TodoShapes ==
    {<<>>, <<"CONNECTED">>, <<"CONNECT_FAILED">>, <<"DISCONNECT">>, <<"reset">>, <<"reconn">>,
     <<"CONNECT_ERROR", "reconn">>, <<"UNEXPECTED_DISCONNECT", "reconn">>,
     <<"PROTO_ERROR", "reconn">>, <<"CONNECT_FAILED", "reset">>,
     <<"KICKED_BY_SERVER", "reset">>, <<"reset", "DISCONNECT">>,
     <<"reset", "CONNECT_FAILED", "reset">>,
     <<"CONNECT_FAILED", "reset", "CONNECT_FAILED", "reset">>}

\* The states the client goes through while it handles the events that are pending:
\* h[1] is the one it is in, and the last the one they will leave it in.
Histories == [1..Len(pending_ev_queue) + 1 -> States]

History(h) ==
    /\ h \in Histories
    /\ h[1] = state
    /\ \A i \in 1..Len(pending_ev_queue) : h[i + 1] = AfterEvent(h[i], pending_ev_queue[i])

Last(h) == h[Len(pending_ev_queue) + 1]

\* In state s, the attempt to connect is on its way: between two callbacks somebody
\* carries it, and where only a reset is left to do, that is a wakeup, as the
\* reset stops the rest.
OnItsWay(s) ==
    s = "CONNECTING" =>
        /\ todo = <<>> => \/ asyncs # {} \/ "reconn_delay" \in timers
                          \/ socket \in IsConnecting \cup {"reading"}
        /\ todo = <<"reset">> => asyncs # {}

\* NotAbandoned is not inductive, as it does not speak of a client with events to
\* handle: what counts is the state in which the events leave it.
AbandonInv ==
    /\ todo \in TodoShapes
    /\ \A h : History(h) => OnItsWay(Last(h))

LEMMA TailOfTuple ==
    /\ \A a : Tail(<<a>>) = <<>>
    /\ \A a, b : Tail(<<a, b>>) = <<b>>
    /\ \A a, b, c : Tail(<<a, b, c>>) = <<b, c>>
    /\ \A a, b, c, d : Tail(<<a, b, c, d>>) = <<b, c, d>>
  OBVIOUS

\* What is left of a callback after its first task: only events that settle the
\* attempt are followed by nothing, or by a reset only.
LEMMA ShapeTail ==
    ASSUME NEW t \in TodoShapes, t # <<>>
    PROVE  /\ Tail(t) \in TodoShapes
           /\ Head(t) \in Events /\ Tail(t) \in {<<>>, <<"reset">>} =>
                Head(t) \in {"CONNECTED", "CONNECT_FAILED", "DISCONNECT", "KICKED_BY_SERVER"}
           /\ Head(t) = "reset" /\ Tail(t) \in {<<>>, <<"reset">>} =>
                t = <<"reset">> /\ Tail(t) = <<>>
           /\ Head(t) = "reconn" => t = <<"reconn">> /\ Tail(t) = <<>>
<1> DEFINE Single == {"CONNECTED", "CONNECT_FAILED", "DISCONNECT", "reset", "reconn"}
           Double == {"CONNECT_ERROR", "UNEXPECTED_DISCONNECT", "PROTO_ERROR"}
<1>1. ASSUME NEW a \in Single, t = <<a>>
      PROVE  Tail(t) = <<>> /\ Head(t) = a
  BY <1>1, TailOfTuple
<1>2. ASSUME NEW a \in Double, t = <<a, "reconn">>
      PROVE  Tail(t) = <<"reconn">> /\ Head(t) = a
  BY <1>2, TailOfTuple
<1>5. ASSUME NEW a \in {"CONNECT_FAILED", "KICKED_BY_SERVER"}, t = <<a, "reset">>
      PROVE  Tail(t) = <<"reset">> /\ Head(t) = a
  BY <1>5, TailOfTuple
<1>6. CASE t = <<"reset", "DISCONNECT">>
  BY <1>6, TailOfTuple DEF TodoShapes
<1>3. CASE t = <<"reset", "CONNECT_FAILED", "reset">>
  BY <1>3, TailOfTuple DEF TodoShapes
<1>4. CASE t = <<"CONNECT_FAILED", "reset", "CONNECT_FAILED", "reset">>
  BY <1>4, TailOfTuple DEF TodoShapes
<1> QED
  <2>1. \/ \E a \in Single : t = <<a>>
        \/ \E a \in Double : t = <<a, "reconn">>
        \/ \E a \in {"CONNECT_FAILED", "KICKED_BY_SERVER"} : t = <<a, "reset">>
        \/ t = <<"reset", "DISCONNECT">>
        \/ t = <<"reset", "CONNECT_FAILED", "reset">>
        \/ t = <<"CONNECT_FAILED", "reset", "CONNECT_FAILED", "reset">>
    BY DEF TodoShapes
  <2>2. /\ <<"reconn">> # <<"reset">> /\ <<"reconn">> # <<>> /\ <<"reset">> # <<>>
        /\ {<<>>, <<"reconn">>, <<"reset">>} \subseteq TodoShapes
    BY DEF TodoShapes
  <2>3. CASE \E a \in Single : t = <<a>>
    BY <2>3, <2>2, <1>1
  <2>4. CASE \E a \in Double : t = <<a, "reconn">>
    BY <2>4, <2>2, <1>2
  <2>5. CASE \E a \in {"CONNECT_FAILED", "KICKED_BY_SERVER"} : t = <<a, "reset">>
    BY <2>5, <2>2, <1>5
  <2> QED
    BY <2>1, <2>3, <2>4, <2>5, <1>3, <1>4, <1>6

\* A step that leaves client->state and its events alone, and in no state of the
\* client gives up an attempt that was on its way.
LEMMA SameEvents ==
    ASSUME AbandonInv, todo' \in TodoShapes,
           UNCHANGED <<state, pending_ev_queue>>,
           \A s \in States : OnItsWay(s) => OnItsWay(s)'
    PROVE  AbandonInv'
<1> SUFFICES ASSUME NEW h, History(h)' PROVE OnItsWay(Last(h))'
  BY DEF AbandonInv
<1>1. History(h) /\ Last(h) = Last(h)'
  BY DEF History, Histories, Last
<1>2. Last(h) \in States
  BY <1>1 DEF History, Histories, Last
<1> QED
  BY <1>1, <1>2 DEF AbandonInv, OnItsWay

LEMMA FireAbandon == ASSUME TypeOK, AbandonInv, Fire PROVE AbandonInv'
<1>1. /\ todo \in TodoShapes /\ todo # <<>> /\ Head(todo) \in Events
      /\ todo' = Tail(todo)
      /\ pending_ev_queue' = Append(pending_ev_queue, Head(todo))
      /\ pending_ev_queue \in Seq(Events)
  BY DEF Fire, AbandonInv, TypeOK
<1> SUFFICES ASSUME NEW h, History(h)', todo' \in {<<>>, <<"reset">>}
             PROVE  Last(h)' # "CONNECTING"
  BY <1>1, ShapeTail DEF AbandonInv, OnItsWay
<1>2. Head(todo) \in {"CONNECTED", "CONNECT_FAILED", "DISCONNECT", "KICKED_BY_SERVER"}
  BY <1>1, ShapeTail
<1>3. /\ Len(pending_ev_queue') = Len(pending_ev_queue) + 1
      /\ pending_ev_queue'[Len(pending_ev_queue) + 1] = Head(todo)
      /\ Len(pending_ev_queue) \in Nat
  BY <1>1
<1>4. Last(h)' = AfterEvent(h[Len(pending_ev_queue) + 1], Head(todo))
  BY <1>3 DEF History, Last
<1> QED
  BY <1>2, <1>4 DEF AfterEvent

LEMMA HandleAbandon == ASSUME TypeOK, AbandonInv, HandleEvent PROVE AbandonInv'
<1> SUFFICES ASSUME NEW h, History(h)' PROVE OnItsWay(Last(h))'
  BY DEF AbandonInv, HandleEvent
<1> DEFINE n == Len(pending_ev_queue)
           g == [i \in 1..n + 1 |-> IF i = 1 THEN state ELSE h[i - 1]]
<1>1. /\ pending_ev_queue \in Seq(Events) /\ pending_ev_queue # <<>>
      /\ pending_ev_queue' = Tail(pending_ev_queue)
      /\ state' = AfterEvent(state, pending_ev_queue[1]) /\ state \in States
  BY DEF HandleEvent, TypeOK
<1>2. /\ n \in Nat \ {0} /\ Len(pending_ev_queue') = n - 1
      /\ \A i \in 1..n - 1 : pending_ev_queue'[i] = pending_ev_queue[i + 1]
  BY <1>1
<1>3. h \in [1..n -> States] /\ h[1] = state'
  BY <1>2 DEF History, Histories
<1>4. g \in Histories
  BY <1>1, <1>2, <1>3 DEF Histories
<1>5. ASSUME NEW i \in 1..n PROVE g[i + 1] = AfterEvent(g[i], pending_ev_queue[i])
  <2>1. CASE i = 1
    BY <2>1, <1>1, <1>2, <1>3
  <2>2. CASE i # 1
    <3>1. i - 1 \in 1..n - 1 /\ (i - 1) + 1 = i
      BY <2>2, <1>2
    <3>2. h[(i - 1) + 1] = AfterEvent(h[i - 1], pending_ev_queue'[i - 1])
      BY <3>1, <1>2 DEF History
    <3>3. pending_ev_queue'[i - 1] = pending_ev_queue[i]
      BY <3>1, <1>2
    <3> QED
      BY <2>2, <3>1, <3>2, <3>3, <1>2
  <2> QED
    BY <2>1, <2>2
<1>6. g[1] = state
  BY <1>2
<1>7. History(g)
  BY <1>4, <1>5, <1>6 DEF History
<1>8. Last(g) = Last(h)'
  BY <1>2 DEF Last
<1> QED
  BY <1>7, <1>8 DEF AbandonInv, OnItsWay, HandleEvent, uvVars

\* Connect and disconnect leave a wakeup that carries the client on.
LEMMA WakeupAbandon ==
    ASSUME AbandonInv, asyncs' # {}, UNCHANGED todo
    PROVE  AbandonInv'
  BY DEF AbandonInv, OnItsWay

LEMMA ResetAbandon == ASSUME AbandonInv, Reset \/ Reconn PROVE AbandonInv'
<1>1. CASE Reset
  <2>1. todo' = Tail(todo) /\ todo # <<>> /\ Head(todo) = "reset" /\ todo \in TodoShapes
    BY <1>1 DEF Reset, AbandonInv
  <2>2. todo' \in TodoShapes /\ (todo' \in {<<>>, <<"reset">>} => todo = <<"reset">> /\ todo' = <<>>)
    BY <2>1, ShapeTail
  <2>3. <<"reset">> # <<>>
    OBVIOUS
  <2> QED
    BY <1>1, <2>2, <2>3, SameEvents DEF Reset, clientVars, OnItsWay
<1>2. CASE Reconn
  <2>1. todo = <<"reconn">> /\ Tail(todo) = <<>>
    BY <1>2, ShapeTail DEF Reconn, AbandonInv
  <2>2. CASE MayRetry
    <3>1. todo' = <<>> /\ "reconn_delay" \in timers'
      BY <1>2, <2>1, <2>2 DEF Reconn
    <3>2. <<>> # <<"reset">> /\ <<>> \in TodoShapes
      BY DEF TodoShapes
    <3> QED
      BY <1>2, <3>1, <3>2, SameEvents DEF Reconn, clientVars, OnItsWay
  <2>3. CASE ~MayRetry
    <3>1. todo' = <<"CONNECT_FAILED">> \o <<>>
      BY <1>2, <2>1, <2>3 DEF Reconn
    <3>2. todo' = <<"CONNECT_FAILED">>
      BY <3>1
    <3>3. todo' # <<>> /\ todo' # <<"reset">> /\ todo' \in TodoShapes
      BY <3>2 DEF TodoShapes
    <3> QED
      BY <1>2, <3>3, SameEvents DEF Reconn, clientVars, OnItsWay
  <2> QED
    BY <2>2, <2>3
<1> QED
  BY <1>1, <1>2

\* A callback that has something to do or that leaves the transport its carrier.
LEMMA CallbackAbandon ==
    ASSUME AbandonInv, NEW tasks, Callback(tasks),
           tasks \in TodoShapes \ {<<"reset">>},
           tasks = <<>> =>
               \/ asyncs' # {} \/ "reconn_delay" \in timers'
               \/ socket' \in IsConnecting \cup {"reading"}
               \/ /\ UNCHANGED asyncs
                  /\ "reconn_delay" \in timers => "reconn_delay" \in timers'
                  /\ socket \notin IsConnecting \cup {"reading"}
    PROVE  AbandonInv'
  BY SameEvents DEF Callback, clientVars, OnItsWay

LEMMA UvAbandon ==
    ASSUME AbandonInv, TimeoutMeansConnecting,
           Expiry \/ ConnAsync \/ ConnDone \/ ConnDoneLate \/ ConnDoneError
             \/ DisconnectAsync \/ Server
    PROVE  AbandonInv'
<1>0. /\ \A tasks \in TodoShapes : tasks = <<>> \/ tasks # <<>>
      /\ <<"CONNECT_ERROR", "reconn">> \in TodoShapes \ {<<>>, <<"reset">>}
      /\ <<"UNEXPECTED_DISCONNECT", "reconn">> \in TodoShapes \ {<<>>, <<"reset">>}
      /\ <<"PROTO_ERROR", "reconn">> \in TodoShapes \ {<<>>, <<"reset">>}
      /\ <<"reset", "DISCONNECT">> \in TodoShapes \ {<<>>, <<"reset">>}
      /\ <<"CONNECTED">> \in TodoShapes \ {<<>>, <<"reset">>}
      /\ <<"CONNECT_FAILED", "reset">> \in TodoShapes \ {<<>>, <<"reset">>}
      /\ <<"KICKED_BY_SERVER", "reset">> \in TodoShapes \ {<<>>, <<"reset">>}
      /\ <<"CONNECT_FAILED", "reset", "CONNECT_FAILED", "reset">> \in TodoShapes \ {<<>>, <<"reset">>}
      /\ <<>> \in TodoShapes \ {<<"reset">>}
  BY DEF TodoShapes
<1> USE <1>0, CallbackAbandon
<1>1. CASE ReconnDelayTimer
  BY <1>1 DEF ReconnDelayTimer
<1>2. CASE ConnTimeout
  BY <1>2 DEF ConnTimeout, Due, Close, TimeoutMeansConnecting
<1>3. CASE HandshakeTimer
  BY <1>3 DEF HandshakeTimer
<1>4. CASE HeartbeatTimer
  <2>1. todo' = <<>> /\ todo = <<>> /\ UNCHANGED <<asyncs, socket>> /\ Callback(<<>>)
        /\ ("reconn_delay" \in timers => "reconn_delay" \in timers')
    BY <1>4 DEF HeartbeatTimer, Callback
  <2> QED
    BY <2>1
<1>5. CASE HeartbeatTimeout
  BY <1>5 DEF HeartbeatTimeout
<1>6. CASE ConnAsync
  BY <1>6 DEF ConnAsync
<1>7. CASE ConnDone \/ ConnDoneLate
  BY <1>7 DEF ConnDone, ConnDoneLate, TcpConnected
<1>8. CASE ConnDoneError
  BY <1>8 DEF ConnDoneError
<1>9. CASE DisconnectAsync
  BY <1>9 DEF DisconnectAsync
<1>10. CASE ReadError \/ BadData \/ Kick
  BY <1>10 DEF ReadError, BadData, Kick, Read
<1>11. CASE HandshakeOk
  BY <1>11 DEF HandshakeOk, Read
<1>12. CASE HandshakeRefused \/ HandshakeInvalid
  BY <1>12 DEF HandshakeRefused, HandshakeInvalid, Read
<1>13. CASE Heartbeat
  BY <1>13 DEF Heartbeat, Read
<1> QED
  BY <1>1, <1>2, <1>3, <1>4, <1>5, <1>6, <1>7, <1>8, <1>9, <1>10, <1>11, <1>12, <1>13
     DEF Expiry, Server

LEMMA AbandonStep ==
    TypeOK /\ TimeoutMeansConnecting /\ AbandonInv /\ [Next]_vars => AbandonInv'
<1> SUFFICES ASSUME TypeOK, TimeoutMeansConnecting, AbandonInv, [Next]_vars
             PROVE  AbandonInv'
  OBVIOUS
<1>1. CASE UNCHANGED vars \/ EndPoll
  <2>1. UNCHANGED <<state, pending_ev_queue, todo, socket, timers, asyncs>>
    BY <1>1 DEF vars, clientVars, uvVars, EndPoll
  <2> QED
    BY <2>1, SameEvents DEF AbandonInv, OnItsWay
<1>2. CASE Connect \/ Disconnect
  BY <1>2, WakeupAbandon DEF Connect, Disconnect
<1> QED
  BY <1>1, <1>2, FireAbandon, HandleAbandon, ResetAbandon, UvAbandon DEF Next

\* Once the client's events are handled and the uv thread is between two callbacks, a
\* client that is connecting has a wakeup, a timer, a request or an open
\* connection to go on with, whatever disconnects and late events crossed its way.
THEOREM NeverAbandoned == Spec => []NotAbandoned
<1>1. Init => AbandonInv
  <2> SUFFICES ASSUME Init PROVE AbandonInv
    OBVIOUS
  <2>1. /\ state # "CONNECTING" /\ todo \in TodoShapes
        /\ \A h : History(h) => Last(h) = state
    BY DEF Init, History, Last, TodoShapes
  <2> QED
    BY <2>1 DEF AbandonInv, OnItsWay
<1>2. TypeOK /\ AbandonInv => NotAbandoned
  <2> SUFFICES ASSUME TypeOK, AbandonInv, Drained, state = "CONNECTING"
               PROVE  \/ asyncs # {} \/ "reconn_delay" \in timers
                      \/ socket \in IsConnecting \cup {"reading"}
    BY DEF NotAbandoned
  <2> DEFINE h == [i \in 1..1 |-> state]
  <2>1. History(h) /\ Last(h) = state
    BY DEF History, Histories, Last, Drained, TypeOK
  <2> QED
    BY <2>1 DEF AbandonInv, OnItsWay, Drained
<1> QED
  BY <1>1, <1>2, AbandonStep, TypeCorrect, TimeoutConnecting, PTL DEF Spec

-----------------------------------------------------------------------------
(* Calm sessions.                                                          *)

\* Where a calm session is, when the pending events will leave the client in s.
NoTimers == timers = {}
HeartbeatOnly == timers \subseteq {"hb", "hb_timeout"}
OneHeartbeat == timers \in {{}, {"hb"}, {"hb_timeout"}}

\* The client may have called connect already.
Resting(s) == <<s, asyncs>> \in {<<"INITED", {}>>, <<"CONNECTING", {"conn"}>>}

Idle(s) ==
    /\ todo = <<>> /\ tt_state = "NOT_CONN" /\ socket \in {"closed", "open"} /\ NoTimers
    /\ Resting(s)

Underway(s) ==
    /\ todo = <<>> /\ tt_state = "CONNECTING" /\ s = "CONNECTING"
    /\ \/ socket = "closed" /\ timers = {"reconn_delay"} /\ asyncs = {}
       \/ socket = "closed" /\ NoTimers /\ asyncs = {"reconnect"}
       \/ socket = "connecting" /\ timers = {"conn_timeout"} /\ asyncs = {}
       \/ socket = "cancelled" /\ NoTimers /\ asyncs = {}

Greeting(s) ==
    /\ todo = <<>> /\ tt_state = "HANDSHAKEING" /\ s = "CONNECTING" /\ socket = "reading"
    /\ timers \in {{"handshake"}, {"handshake_never"}} /\ asyncs = {}

Established(s) ==
    /\ todo = <<>> /\ tt_state = "DONE" /\ socket = "reading" /\ OneHeartbeat
    /\ \/ s = "CONNECTED" /\ asyncs = {}
       \/ s = "DISCONNECTING" /\ asyncs = {"disconnect"}

JustConnected(s) ==
    /\ todo = <<"CONNECTED">> /\ tt_state = "DONE" /\ s = "CONNECTING" /\ socket = "reading"
    /\ OneHeartbeat /\ asyncs = {}

\* An attempt failed or a connection was lost, and the transport is to try again.
Retrying(s) ==
    /\ todo \in {<<"CONNECT_ERROR", "reconn">>, <<"reconn">>} /\ s = "CONNECTING"
    /\ socket \in {"open", "closed", "reading"} /\ HeartbeatOnly /\ asyncs = {}

Losing(s) ==
    /\ todo \in {<<"UNEXPECTED_DISCONNECT", "reconn">>, <<"PROTO_ERROR", "reconn">>,
                 <<"KICKED_BY_SERVER", "reset">>}
    /\ s = "CONNECTED" /\ socket = "reading" /\ HeartbeatOnly /\ asyncs = {}

Refused(s) ==
    /\ todo = <<"CONNECT_FAILED", "reset">> /\ s = "CONNECTING"
    /\ socket = "reading" /\ HeartbeatOnly /\ asyncs = {}

Resetting(s) ==
    /\ todo = <<"reset">> /\ socket = "reading" /\ HeartbeatOnly /\ Resting(s)

Disconnecting(s) ==
    /\ todo = <<"reset", "DISCONNECT">> /\ s = "DISCONNECTING"
    /\ socket = "reading" /\ HeartbeatOnly /\ asyncs = {}

\* The transport is closed and says so.
Ending(s) ==
    /\ \/ todo = <<"DISCONNECT">> /\ s = "DISCONNECTING"
       \/ todo = <<"CONNECT_FAILED">> /\ s = "CONNECTING"
    /\ tt_state = "NOT_CONN" /\ socket = "closed" /\ NoTimers /\ asyncs = {}

Phase(s) ==
    \/ Idle(s) \/ Underway(s) \/ Greeting(s) \/ Established(s) \/ JustConnected(s)
    \/ Retrying(s) \/ Losing(s) \/ Refused(s) \/ Resetting(s) \/ Disconnecting(s)
    \/ Ending(s)

\* Each pending event is expected in the state in which it will be handled.
ExpectedHistory(h) ==
    /\ History(h)
    /\ \A i \in 1..Len(pending_ev_queue) : h[i] \in Expected(pending_ev_queue[i])

CalmInv == calm => \E h : ExpectedHistory(h) /\ Phase(Last(h))

\* A client that is INITED has no events to handle.
LEMMA InitedDrained ==
    ASSUME TypeOK, NEW h, ExpectedHistory(h), state = "INITED"
    PROVE  pending_ev_queue = <<>> /\ Last(h) = state
<1>1. ASSUME pending_ev_queue # <<>> PROVE FALSE
  <2>1. 1 \in 1..Len(pending_ev_queue)
    BY <1>1 DEF TypeOK
  <2>2. h[1] = "INITED" /\ h[1] \in Expected(pending_ev_queue[1])
    BY <2>1 DEF ExpectedHistory, History
  <2> QED
    BY <2>2 DEF Expected
<1>2. Len(pending_ev_queue) = 0
  BY <1>1
<1> QED
  BY <1>1, <1>2 DEF ExpectedHistory, History, Last

\* The phase does not depend on client->state or on who holds event_mutex.
LEMMA PhaseUnchanged ==
    ASSUME NEW s, Phase(s), UNCHANGED <<tt_state, socket, timers, asyncs, todo>>
    PROVE  Phase(s)'
  BY DEF Phase, Idle, Underway, Greeting, Established, JustConnected, Retrying, Losing, Refused,
         Resetting, Disconnecting, Ending, Resting, NoTimers, HeartbeatOnly, OneHeartbeat

\* A step that leaves client->state and its events alone.
LEMMA CalmSame ==
    ASSUME NEW h, ExpectedHistory(h), UNCHANGED <<state, pending_ev_queue>>,
           NEW s, s = Last(h), Phase(s)'
    PROVE  CalmInv'
<1>1. ExpectedHistory(h)'
  BY DEF ExpectedHistory, History, Histories
<1>2. Last(h)' = s
  BY DEF Last
<1> QED
  BY <1>1, <1>2 DEF CalmInv

\* Queueing an event that is expected in the state the others will leave.
LEMMA FirePhase ==
    ASSUME NEW s \in States, Phase(s), Fire, NEW ev, ev = Head(todo)
    PROVE  s \in Expected(ev) /\ Phase(AfterEvent(s, ev))'
<1>1. /\ todo # <<>> /\ ev \in Events /\ todo' = Tail(todo)
      /\ UNCHANGED <<tt_state, socket, timers, asyncs>>
  BY DEF Fire, uvVars
<1> USE DEF Expected, AfterEvent, Phase, NoTimers, HeartbeatOnly, OneHeartbeat
<1>2. CASE JustConnected(s)
  <2>1. ev = "CONNECTED" /\ todo' = <<>>
    BY <1>1, <1>2, TailOfTuple DEF JustConnected
  <2>2. Established("CONNECTED")'
    BY <1>1, <1>2, <2>1 DEF JustConnected, Established
  <2> QED
    BY <1>2, <2>1, <2>2 DEF JustConnected
<1>3. CASE Retrying(s)
  <2>0. todo = <<"CONNECT_ERROR", "reconn">> /\ s = "CONNECTING"
    BY <1>1, <1>3 DEF Retrying
  <2>1. ev = "CONNECT_ERROR" /\ todo' = <<"reconn">> /\ s = "CONNECTING"
    BY <1>1, <2>0, TailOfTuple
  <2>2. Retrying("CONNECTING")'
    BY <1>1, <1>3, <2>1 DEF Retrying
  <2> QED
    BY <2>1, <2>2
<1>4. CASE Losing(s)
  <2>1. CASE todo = <<"KICKED_BY_SERVER", "reset">>
    <3>1. ev = "KICKED_BY_SERVER" /\ todo' = <<"reset">> /\ s = "CONNECTED"
      BY <1>1, <1>4, <2>1, TailOfTuple DEF Losing
    <3>2. Resetting("INITED")'
      BY <1>1, <1>4, <3>1 DEF Losing, Resetting, Resting
    <3> QED
      BY <3>1, <3>2
  <2>2. CASE todo # <<"KICKED_BY_SERVER", "reset">>
    <3>1. /\ ev \in {"UNEXPECTED_DISCONNECT", "PROTO_ERROR"} /\ todo' = <<"reconn">>
          /\ s = "CONNECTED"
      <4>1. ASSUME NEW e \in {"UNEXPECTED_DISCONNECT", "PROTO_ERROR"}, todo = <<e, "reconn">>
            PROVE  ev = e /\ todo' = <<"reconn">>
        BY <1>1, <4>1, TailOfTuple
      <4>2. s = "CONNECTED" /\ \E e \in {"UNEXPECTED_DISCONNECT", "PROTO_ERROR"} : todo = <<e, "reconn">>
        BY <1>4, <2>2 DEF Losing
      <4> QED
        BY <4>1, <4>2
    <3>2. Retrying("CONNECTING")'
      BY <1>1, <1>4, <3>1 DEF Losing, Retrying
    <3> QED
      BY <3>1, <3>2
  <2> QED
    BY <2>1, <2>2
<1>5. CASE Refused(s)
  <2>1. ev = "CONNECT_FAILED" /\ todo' = <<"reset">> /\ s = "CONNECTING"
    BY <1>1, <1>5, TailOfTuple DEF Refused
  <2>2. Resetting("INITED")'
    BY <1>1, <1>5, <2>1 DEF Refused, Resetting, Resting
  <2> QED
    BY <2>1, <2>2
<1>6. CASE Ending(s)
  <2>1. /\ todo' = <<>>
        /\ <<ev, s>> \in {<<"DISCONNECT", "DISCONNECTING">>, <<"CONNECT_FAILED", "CONNECTING">>}
    <3>1. ASSUME NEW e, todo = <<e>> PROVE ev = e /\ todo' = <<>>
      BY <1>1, <3>1, TailOfTuple
    <3>2. CASE todo = <<"DISCONNECT">> /\ s = "DISCONNECTING"
      BY <3>1, <3>2
    <3>3. CASE todo = <<"CONNECT_FAILED">> /\ s = "CONNECTING"
      BY <3>1, <3>3
    <3> QED
      BY <1>6, <3>2, <3>3 DEF Ending
  <2>2. Idle("INITED")'
    BY <1>1, <1>6, <2>1 DEF Ending, Idle, Resting
  <2> QED
    BY <2>1, <2>2
<1>7. ~(Resetting(s) \/ Disconnecting(s))
  BY <1>1 DEF Resetting, Disconnecting
<1>8. ~(Idle(s) \/ Underway(s) \/ Greeting(s) \/ Established(s))
  BY <1>1 DEF Idle, Underway, Greeting, Established
<1> QED
  BY <1>2, <1>3, <1>4, <1>5, <1>6, <1>7, <1>8

LEMMA FireCalm == ASSUME TypeOK, CalmInv, calm, Fire PROVE CalmInv'
<1>1. PICK h : ExpectedHistory(h) /\ Phase(Last(h))
  BY DEF CalmInv
<1> PICK n, ev, last : n = Len(pending_ev_queue) /\ ev = Head(todo) /\ last = h[n + 1]
  OBVIOUS
<1> DEFINE g == [i \in 1..n + 2 |-> IF i = n + 2 THEN AfterEvent(last, ev) ELSE h[i]]
<1>2. /\ n \in Nat /\ Len(pending_ev_queue') = n + 1 /\ ev \in Events
      /\ \A i \in 1..n : pending_ev_queue'[i] = pending_ev_queue[i]
      /\ pending_ev_queue'[n + 1] = ev
      /\ UNCHANGED state
  BY DEF Fire, TypeOK, clientVars
<1>3. h \in [1..n + 1 -> States] /\ h[1] = state
  BY <1>1 DEF ExpectedHistory, History, Histories
<1>4. Last(h) = last /\ h[n + 1] = last /\ last \in States
  BY <1>2, <1>3 DEF Last
<1>5. last \in Expected(ev) /\ Phase(AfterEvent(last, ev))'
  BY <1>1, <1>4, FirePhase
<1>6. AfterEvent(last, ev) \in States
  BY <1>4 DEF AfterEvent
<1>7. g \in Histories' /\ g[1] = state' /\ Last(g)' = AfterEvent(last, ev)
  BY <1>2, <1>3, <1>6 DEF Histories, Last
<1>8. ASSUME NEW i \in 1..n + 1
      PROVE  /\ g[i + 1] = AfterEvent(g[i], pending_ev_queue'[i])
             /\ g[i] \in Expected(pending_ev_queue'[i])
  <2>1. CASE i = n + 1
    BY <2>1, <1>2, <1>5
  <2>2. CASE i \in 1..n
    <3>1. /\ h[i + 1] = AfterEvent(h[i], pending_ev_queue[i])
          /\ h[i] \in Expected(pending_ev_queue[i])
      BY <2>2, <1>1 DEF ExpectedHistory, History
    <3> QED
      BY <2>2, <3>1, <1>2
  <2> QED
    BY <2>1, <2>2, <1>2
<1>9. ExpectedHistory(g)'
  BY <1>2, <1>7, <1>8 DEF ExpectedHistory, History
<1> QED
  BY <1>5, <1>7, <1>9 DEF CalmInv

LEMMA HandleCalm == ASSUME TypeOK, CalmInv, calm, HandleEvent PROVE CalmInv'
<1>1. PICK h : ExpectedHistory(h) /\ Phase(Last(h))
  BY DEF CalmInv
<1> PICK n, last : n = Len(pending_ev_queue) /\ last = Last(h)
  OBVIOUS
<1> DEFINE g == [i \in 1..n |-> h[i + 1]]
<1>2. /\ pending_ev_queue # <<>> /\ pending_ev_queue \in Seq(Events)
      /\ pending_ev_queue' = Tail(pending_ev_queue)
      /\ state' = AfterEvent(state, pending_ev_queue[1])
      /\ UNCHANGED <<todo, tt_state, socket, timers, asyncs>>
  BY DEF HandleEvent, TypeOK, uvVars
<1>3. /\ n \in Nat \ {0} /\ Len(pending_ev_queue') = n - 1
      /\ \A i \in 1..n - 1 : pending_ev_queue'[i] = pending_ev_queue[i + 1]
  BY <1>2
<1>4. /\ h \in [1..n + 1 -> States] /\ h[1] = state
      /\ \A i \in 1..n : /\ h[i + 1] = AfterEvent(h[i], pending_ev_queue[i])
                         /\ h[i] \in Expected(pending_ev_queue[i])
  BY <1>1 DEF ExpectedHistory, History, Histories
<1>5. g \in Histories' /\ g[1] = state' /\ Last(g)' = last
  BY <1>2, <1>3, <1>4 DEF Histories, Last
<1>6. ASSUME NEW i \in 1..n - 1
      PROVE  /\ g[i + 1] = AfterEvent(g[i], pending_ev_queue'[i])
             /\ g[i] \in Expected(pending_ev_queue'[i])
  BY <1>3, <1>4
<1>7. ExpectedHistory(g)'
  BY <1>3, <1>5, <1>6 DEF ExpectedHistory, History
<1>8. Phase(last)'
  BY <1>1, <1>2, PhaseUnchanged
<1> QED
  BY <1>5, <1>7, <1>8 DEF CalmInv

\* Between two callbacks.
LEMMA PhaseAtRest ==
    ASSUME NEW s, Phase(s), todo = <<>>
    PROVE  Idle(s) \/ Underway(s) \/ Greeting(s) \/ Established(s)
  BY DEF Phase, JustConnected, Retrying, Losing, Refused, Resetting, Disconnecting, Ending

LEMMA ResetPhase ==
    ASSUME NEW s \in States, Phase(s), s # "INITED" => state # "INITED", Reset \/ Reconn
    PROVE  Phase(s)'
<1> USE DEF NoTimers, HeartbeatOnly, OneHeartbeat, Resting
<1>1. todo # <<>> /\ Head(todo) \in {"reset", "reconn"}
  BY DEF Reset, Reconn
<1>2. (Retrying(s) /\ todo = <<"reconn">>) \/ Resetting(s) \/ Disconnecting(s)
  <2>1. ~(Idle(s) \/ Underway(s) \/ Greeting(s) \/ Established(s))
    BY <1>1 DEF Idle, Underway, Greeting, Established
  <2>2. ~(JustConnected(s) \/ Losing(s) \/ Refused(s) \/ Ending(s))
    BY <1>1 DEF JustConnected, Losing, Refused, Ending
  <2>3. Retrying(s) => todo = <<"reconn">>
    BY <1>1 DEF Retrying
  <2> QED
    BY <2>1, <2>2, <2>3 DEF Phase
<1>3. CASE Resetting(s)
  <2>1. Reset /\ todo' = <<>>
    BY <1>3, TailOfTuple DEF Reset, Reconn, Resetting
  <2>2. Idle(s)'
    BY <1>3, <2>1 DEF Reset, ResetSocket, Close, StoppedTimers, Resetting, Idle
  <2> QED
    BY <2>2 DEF Phase
<1>4. CASE Disconnecting(s)
  <2>1. Reset /\ todo' = <<"DISCONNECT">>
    BY <1>4, TailOfTuple DEF Reset, Reconn, Disconnecting
  <2>2. Ending(s)'
    BY <1>4, <2>1 DEF Reset, ResetSocket, Close, StoppedTimers, Disconnecting, Ending
  <2> QED
    BY <2>2 DEF Phase
<1>5. CASE Retrying(s) /\ todo = <<"reconn">>
  <2>1. Reconn /\ Tail(todo) = <<>>
    BY <1>5, TailOfTuple DEF Reset, Reconn
  <2>2. socket' = "closed" /\ StoppedTimers = {} /\ asyncs' = {} /\ s = "CONNECTING"
    BY <1>5, <2>1 DEF Reconn, ResetSocket, Close, StoppedTimers, Retrying
  <2>3. CASE MayRetry
    <3>1. todo' = <<>> /\ timers' = {"reconn_delay"} /\ tt_state' = "CONNECTING"
      BY <2>1, <2>2, <2>3 DEF Reconn
    <3>2. Underway(s)'
      BY <2>2, <3>1 DEF Underway
    <3> QED
      BY <3>2 DEF Phase
  <2>4. CASE ~MayRetry
    <3>1. todo' = <<"CONNECT_FAILED">> \o <<>> /\ timers' = {} /\ tt_state' = "NOT_CONN"
      BY <2>1, <2>2, <2>4 DEF Reconn
    <3>2. todo' = <<"CONNECT_FAILED">>
      BY <3>1
    <3>3. Ending(s)'
      BY <2>2, <3>1, <3>2 DEF Ending
    <3> QED
      BY <3>3 DEF Phase
  <2> QED
    BY <2>3, <2>4
<1> QED
  BY <1>2, <1>3, <1>4, <1>5

\* A callback of a calm session: a disconnect that is on its way is served first.
LEMMA CallbackPhase ==
    ASSUME NEW s \in States, Phase(s),
           Expiry \/ ConnAsync \/ ConnDone \/ ConnDoneLate \/ ConnDoneError
             \/ DisconnectAsync \/ Server,
           ~HandshakeInvalid, ~(ReadError /\ tt_state = "HANDSHAKEING"),
           "disconnect" \in asyncs /\ todo' # <<>> => DisconnectAsync
    PROVE  Phase(s)'
<1> USE DEF NoTimers, HeartbeatOnly, OneHeartbeat, Resting
<1>1. todo = <<>>
  BY DEF Expiry, ReconnDelayTimer, ConnTimeout, HandshakeTimer, HeartbeatTimer, HeartbeatTimeout,
         ConnAsync, ConnDone, ConnDoneLate, TcpConnected, ConnDoneError, DisconnectAsync,
         Server, Read, ReadError, HandshakeOk, HandshakeRefused, HandshakeInvalid, Heartbeat,
         BadData, Kick, Callback
<1>2. Idle(s) \/ Underway(s) \/ Greeting(s) \/ Established(s)
  BY <1>1, PhaseAtRest
<1> USE <1>2 DEF Idle, Underway, Greeting, Established, Callback
<1>3. CASE ReconnDelayTimer
  <2>1. Underway(s)'
    BY <1>3 DEF ReconnDelayTimer, Due
  <2> QED
    BY <2>1 DEF Phase
<1>4. CASE ConnTimeout
  <2>1. Underway(s)'
    BY <1>4 DEF ConnTimeout, Due, Close
  <2> QED
    BY <2>1 DEF Phase
<1>5. CASE HandshakeTimer
  <2>1. Retrying(s)'
    BY <1>5 DEF HandshakeTimer, Due, Retrying
  <2> QED
    BY <2>1 DEF Phase
<1>6. CASE HeartbeatTimer
  <2>1. Established(s)'
    BY <1>6 DEF HeartbeatTimer, Due
  <2> QED
    BY <2>1 DEF Phase
<1>7. CASE HeartbeatTimeout
  <2>1. todo' = <<"UNEXPECTED_DISCONNECT", "reconn">> /\ todo' # <<>> /\ ~DisconnectAsync
    BY <1>7 DEF HeartbeatTimeout, DisconnectAsync
  <2>2. Losing(s)'
    BY <1>7, <2>1 DEF HeartbeatTimeout, Due, Losing
  <2> QED
    BY <2>2 DEF Phase
<1>8. CASE ConnAsync
  <2>1. Underway(s)' \/ Retrying(s)'
    BY <1>8 DEF ConnAsync, Retrying
  <2> QED
    BY <2>1 DEF Phase
<1>9. CASE ConnDone \/ ConnDoneLate
  <2>1. Greeting(s)'
    BY <1>9 DEF ConnDone, ConnDoneLate, TcpConnected, IOReady
  <2> QED
    BY <2>1 DEF Phase
<1>10. CASE ConnDoneError
  <2>1. Retrying(s)'
    BY <1>10 DEF ConnDoneError, IOReady, Retrying
  <2> QED
    BY <2>1 DEF Phase
<1>11. CASE DisconnectAsync
  <2>1. Disconnecting(s)'
    BY <1>11 DEF DisconnectAsync, Disconnecting
  <2> QED
    BY <2>1 DEF Phase
<1>12. CASE ReadError \/ BadData \/ Kick
  <2>1. /\ todo' # <<>> /\ ~DisconnectAsync /\ socket = "reading"
        /\ todo' \in {<<"UNEXPECTED_DISCONNECT", "reconn">>, <<"PROTO_ERROR", "reconn">>,
                      <<"KICKED_BY_SERVER", "reset">>}
    BY <1>12 DEF ReadError, BadData, Kick, Read, DisconnectAsync
  <2>2. Losing(s)'
    BY <1>12, <2>1 DEF ReadError, BadData, Kick, Read, Losing
  <2> QED
    BY <2>2 DEF Phase
<1>13. CASE HandshakeOk
  <2>1. JustConnected(s)'
    BY <1>13 DEF HandshakeOk, Read, JustConnected
  <2> QED
    BY <2>1 DEF Phase
<1>14. CASE HandshakeRefused
  <2>1. Refused(s)'
    BY <1>14 DEF HandshakeRefused, Read, Refused
  <2> QED
    BY <2>1 DEF Phase
<1>15. CASE Heartbeat
  <2>1. Established(s)'
    BY <1>15 DEF Heartbeat, Read
  <2> QED
    BY <2>1 DEF Phase
<1> QED
  BY <1>3, <1>4, <1>5, <1>6, <1>7, <1>8, <1>9, <1>10, <1>11, <1>12, <1>13, <1>14, <1>15
     DEF Expiry, Server

\* The application's calls; it only disconnects when the connection is up.
LEMMA ClientPhase ==
    ASSUME NEW s \in States, NEW t, Phase(s), s = state, t = state', Connect \/ Disconnect,
           Disconnect => Drained /\ state = "CONNECTED"
    PROVE  Phase(t)'
<1> USE DEF NoTimers, HeartbeatOnly, OneHeartbeat, Resting
<1>1. CASE Connect
  <2>1. Idle(s) \/ Resetting(s)
    BY <1>1 DEF Connect, Phase, Idle, Underway, Greeting, Established, JustConnected, Retrying,
       Losing, Refused, Disconnecting, Ending
  <2>2. Idle("CONNECTING")' \/ Resetting("CONNECTING")'
    BY <1>1, <2>1 DEF Connect, uvVars, Idle, Resetting
  <2> QED
    BY <1>1, <2>2 DEF Connect, Phase
<1>2. CASE Disconnect
  <2>1. Established(s)
    BY <1>2, PhaseAtRest DEF Drained, Idle, Underway, Greeting
  <2>2. Established("DISCONNECTING")'
    BY <1>2, <2>1 DEF Disconnect, uvVars, Established
  <2> QED
    BY <1>2, <2>2 DEF Disconnect, Phase
<1> QED
  BY <1>1, <1>2

LEMMA ClientCalm ==
    ASSUME TypeOK, CalmInv, calm, Connect \/ Disconnect,
           Disconnect => Drained /\ state = "CONNECTED"
    PROVE  CalmInv'
<1>1. PICK h : ExpectedHistory(h) /\ Phase(Last(h))
  BY DEF CalmInv
<1>2. pending_ev_queue = <<>> /\ Last(h) = state
  <2>1. CASE Connect
    BY <1>1, <2>1, InitedDrained DEF Connect
  <2>2. CASE Disconnect
    BY <1>1, <2>2 DEF Drained, ExpectedHistory, History, Last
  <2> QED
    BY <2>1, <2>2
<1>3. PICK s, t : s = state /\ t = state'
  OBVIOUS
<1>4. s \in States /\ t \in States
  BY <1>3 DEF TypeOK, Connect, Disconnect
<1>5. Phase(t)'
  <2>1. Phase(s)
    BY <1>1, <1>2, <1>3
  <2> QED
    BY <1>3, <1>4, <2>1, ClientPhase
<1> DEFINE g == [i \in 1..1 |-> t]
<1>6. pending_ev_queue' = <<>>
  BY <1>2 DEF Connect, Disconnect
<1>7. ExpectedHistory(g)' /\ Last(g)' = t
  BY <1>3, <1>4, <1>6 DEF ExpectedHistory, History, Histories, Last
<1> QED
  BY <1>5, <1>7 DEF CalmInv

LEMMA CalmStep == TypeOK /\ CalmInv /\ [MCNext]_<<vars, calm>> => CalmInv'
<1> SUFFICES ASSUME TypeOK, CalmInv, [MCNext]_<<vars, calm>>, calm' PROVE CalmInv'
  BY DEF CalmInv
<1>1. CASE UNCHANGED <<vars, calm>>
  <2>1. UNCHANGED <<state, pending_ev_queue, tt_state, socket, timers, asyncs, todo, calm>>
    BY <1>1 DEF vars, clientVars, uvVars
  <2>2. PICK h : ExpectedHistory(h) /\ Phase(Last(h))
    BY <2>1 DEF CalmInv
  <2>3. PICK s : s = Last(h)
    OBVIOUS
  <2>4. Phase(s)'
    BY <2>1, <2>2, <2>3, PhaseUnchanged
  <2> QED
    BY <2>1, <2>2, <2>3, <2>4, CalmSame
<1>2. CASE MCNext
  <2>1. /\ Next /\ calm /\ ~HandshakeInvalid /\ ~(ReadError /\ tt_state = "HANDSHAKEING")
        /\ Disconnect => Drained /\ state = "CONNECTED"
        /\ "disconnect" \in asyncs /\ todo' # <<>> => DisconnectAsync
    BY <1>2 DEF MCNext
  <2>2. PICK h : ExpectedHistory(h) /\ Phase(Last(h))
    BY <2>1 DEF CalmInv
  <2>3. PICK s : s = Last(h)
    OBVIOUS
  <2>4. s \in States /\ Phase(s)
    BY <2>2, <2>3 DEF ExpectedHistory, History, Histories, Last, TypeOK
  <2>5. s # "INITED" => state # "INITED"
    BY <2>2, <2>3, InitedDrained
  <2>6. CASE Reset \/ Reconn
    <3>1. UNCHANGED <<state, pending_ev_queue>>
      BY <2>6 DEF Reset, Reconn, clientVars
    <3>2. Phase(s)'
      BY <2>4, <2>5, <2>6, ResetPhase
    <3> QED
      BY <2>2, <2>3, <3>1, <3>2, CalmSame
  <2>7. CASE Expiry \/ ConnAsync \/ ConnDone \/ ConnDoneLate \/ ConnDoneError
               \/ DisconnectAsync \/ Server
    <3>1. UNCHANGED <<state, pending_ev_queue>>
      BY <2>7 DEF Expiry, ReconnDelayTimer, ConnTimeout, HandshakeTimer, HeartbeatTimer,
         HeartbeatTimeout, ConnAsync, ConnDone, ConnDoneLate, TcpConnected, ConnDoneError,
         DisconnectAsync, Server, Read, ReadError, HandshakeOk, HandshakeRefused,
         HandshakeInvalid, Heartbeat, BadData, Kick, Callback, clientVars
    <3>2. Phase(s)'
      BY <2>1, <2>4, <2>7, CallbackPhase
    <3> QED
      BY <2>2, <2>3, <3>1, <3>2, CalmSame
  <2>8. CASE EndPoll
    <3>1. UNCHANGED <<state, pending_ev_queue, tt_state, socket, timers, asyncs, todo>>
      BY <2>8 DEF EndPoll, uvVars
    <3>2. Phase(s)'
      BY <2>4, <3>1, PhaseUnchanged
    <3> QED
      BY <2>2, <2>3, <3>1, <3>2, CalmSame
  <2> QED
    BY <2>1, <2>6, <2>7, <2>8, FireCalm, HandleCalm, ClientCalm DEF Next
<1> QED
  BY <1>1, <1>2

LEMMA CalmSessions == MCSpec => [](TypeOK /\ CalmInv)
<1>1. MCSpec => []TypeOK
  <2>1. [MCNext]_<<vars, calm>> => [Next]_vars
    BY DEF MCNext
  <2>2. MCSpec => Spec
    BY <2>1, PTL DEF MCSpec, MCInit, Spec
  <2> QED
    BY <2>2, TypeCorrect, PTL
<1>2. MCInit => CalmInv
  <2> SUFFICES ASSUME MCInit PROVE CalmInv
    OBVIOUS
  <2> DEFINE h == [i \in 1..1 |-> "INITED"]
  <2>1. ExpectedHistory(h) /\ Last(h) = "INITED"
    BY DEF MCInit, Init, ExpectedHistory, History, Histories, Last
  <2>2. Idle("INITED")
    BY DEF MCInit, Init, Idle, NoTimers, Resting
  <2> QED
    BY <2>1, <2>2 DEF CalmInv, Phase
<1> QED
  BY <1>1, <1>2, CalmStep, PTL DEF MCSpec

\* In a calm session each event is handled in a state in which the code's assertions
\* expect it, however many are pending.
THEOREM EventsAsExpected == MCSpec => EventsExpected
<1>1. TypeOK /\ CalmInv /\ [MCNext]_<<vars, calm>> =>
        [calm /\ HandleEvent => state \in Expected(Head(pending_ev_queue))]_vars
  <2> SUFFICES ASSUME TypeOK, CalmInv, calm, HandleEvent
               PROVE  state \in Expected(Head(pending_ev_queue))
    OBVIOUS
  <2>1. PICK h : ExpectedHistory(h)
    BY DEF CalmInv
  <2>2. 1 \in 1..Len(pending_ev_queue) /\ Head(pending_ev_queue) = pending_ev_queue[1]
    BY DEF HandleEvent, TypeOK
  <2> QED
    BY <2>1, <2>2 DEF ExpectedHistory, History
<1> QED
  BY <1>1, CalmSessions, PTL DEF MCSpec, EventsExpected

\* In a calm session the client and its transport agree on the connection once all events
\* are handled, but for a disconnect that is on its way, and the heartbeat's timers,
\* of which one runs at a time, belong to an established connection.
THEOREM ClientAndTransportAgree == MCSpec => []Agreement
<1>1. TypeOK /\ CalmInv => Agreement
  <2> SUFFICES ASSUME TypeOK, CalmInv, calm, todo = <<>>
               PROVE  /\ Drained => /\ state = "CONNECTED" => tt_state = "DONE"
                                    /\ tt_state = "DONE" => \/ state = "CONNECTED"
                                                            \/ "disconnect" \in asyncs
                      /\ timers \cap {"hb", "hb_timeout"} # {} =>
                            tt_state = "DONE" /\ ~({"hb", "hb_timeout"} \subseteq timers)
    BY DEF Agreement, Drained
  <2>1. PICK h : ExpectedHistory(h) /\ Phase(Last(h))
    BY DEF CalmInv
  <2>2. PICK s : s = Last(h)
    OBVIOUS
  <2>3. Idle(s) \/ Underway(s) \/ Greeting(s) \/ Established(s)
    BY <2>1, <2>2, PhaseAtRest
  <2>4. Drained => s = state
    BY <2>1, <2>2 DEF Drained, ExpectedHistory, History, Last
  <2> QED
    BY <2>3, <2>4 DEF Idle, Underway, Greeting, Established, NoTimers, OneHeartbeat, Resting
<1> QED
  BY <1>1, CalmSessions, PTL

-----------------------------------------------------------------------------
(* What PomeloReq takes for granted of the connection.                     *)

\* A connect request may outlive a reset, but not the next state of the transport.
LEMMA Attempted ==
    Spec => [](socket = "connecting" => tt_state \in {"NOT_CONN", "CONNECTING"})
<1> DEFINE Inv == socket = "connecting" => tt_state \in {"NOT_CONN", "CONNECTING"}
<1>1. Init => Inv
  BY DEF Init
<1>2. Inv /\ [Next]_vars => Inv'
  <2> SUFFICES ASSUME Inv, [Next]_vars PROVE Inv'
    OBVIOUS
  <2> USE DEF Callback
  <2>1. CASE UNCHANGED vars \/ Fire \/ Connect \/ Disconnect \/ HandleEvent \/ EndPoll
    BY <2>1 DEF vars, uvVars, Fire, Connect, Disconnect, HandleEvent, EndPoll
  <2>2. CASE Reset \/ Reconn
    BY <2>2 DEF Reset, Reconn
  <2>3. CASE Expiry
    BY <2>3 DEF Expiry, ReconnDelayTimer, ConnTimeout, Close, HandshakeTimer, HeartbeatTimer,
                HeartbeatTimeout
  <2>4. CASE ConnAsync
    BY <2>4 DEF ConnAsync, IsConnecting
  <2>5. CASE ConnDone \/ ConnDoneLate \/ ConnDoneError \/ DisconnectAsync
    BY <2>5 DEF ConnDone, ConnDoneLate, TcpConnected, ConnDoneError, DisconnectAsync
  <2>6. CASE Server
    BY <2>6 DEF Server, Read, ReadError, HandshakeOk, HandshakeRefused,
                HandshakeInvalid, Heartbeat, BadData, Kick
  <2> QED
    BY <2>1, <2>2, <2>3, <2>4, <2>5, <2>6 DEF Next
<1> QED
  BY <1>1, <1>2, PTL DEF Spec

\* PomeloReq's ConnDone and ConnAsync come in no other states of the transport than these:
\* no connect request is answered once there is a connection, and a wakeup of
\* tcp__conn_async_cb meets a connection that is being greeted or established only where
\* the session was not calm.
AttemptsExpected ==
    [][/\ ConnDone \/ ConnDoneLate => tt_state \in {"NOT_CONN", "CONNECTING"}
       /\ calm /\ ConnAsync => tt_state \in {"NOT_CONN", "CONNECTING"}]_vars

\* The transport begins an attempt, and ends it with a connection, in the states in which
\* PomeloReq has it do so (tcp__conn_async_cb, tcp__conn_done_cb): an attempt in every
\* session that is calm, its end in every session.
THEOREM AttemptsAsExpected == MCSpec => AttemptsExpected
<1> DEFINE Inv == socket = "connecting" => tt_state \in {"NOT_CONN", "CONNECTING"}
<1>1. MCSpec => []Inv
  <2>1. [MCNext]_<<vars, calm>> => [Next]_vars
    BY DEF MCNext
  <2>2. MCSpec => Spec
    BY <2>1, PTL DEF MCSpec, MCInit, Spec
  <2> QED
    BY <2>2, Attempted, PTL
<1>2. CalmInv /\ calm /\ ConnAsync => tt_state \in {"NOT_CONN", "CONNECTING"}
  <2> SUFFICES ASSUME CalmInv, calm, ConnAsync
               PROVE  tt_state \in {"NOT_CONN", "CONNECTING"}
    OBVIOUS
  <2>1. PICK s : Phase(s)
    BY DEF CalmInv
  <2>2. Idle(s) \/ Underway(s) \/ Greeting(s) \/ Established(s)
    BY <2>1, PhaseAtRest DEF ConnAsync, Callback
  <2>3. asyncs # {} /\ asyncs # {"disconnect"}
    BY DEF ConnAsync
  <2> QED
    BY <2>2, <2>3 DEF Idle, Underway, Greeting, Established
<1>3. Inv /\ CalmInv /\ [MCNext]_<<vars, calm>> =>
        [/\ ConnDone \/ ConnDoneLate => tt_state \in {"NOT_CONN", "CONNECTING"}
         /\ calm /\ ConnAsync => tt_state \in {"NOT_CONN", "CONNECTING"}]_vars
  BY <1>2 DEF ConnDone, ConnDoneLate, TcpConnected
<1> QED
  BY <1>1, <1>3, CalmSessions, PTL DEF MCSpec, AttemptsExpected

=============================================================================
