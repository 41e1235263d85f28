------------------------------- MODULE NetClient -------------------------------
(***************************************************************************)
(* The game's own TCP client: CNetClient (one socket, one network thread   *)
(* per connection attempt), CNetClientEx (event queue and send queue),     *)
(* OnlineComponent (Send, SendReconnect, main loop) and the login state of *)
(* CMainPlayer.  The main thread and the network threads share m_socket,   *)
(* m_isConnected and m_isRunning without a lock, so every access of a      *)
(* shared field is a step of its own.                                      *)
(*                                                                         *)
(* A socket is named by the thread that was created for it.  A network     *)
(* thread that has returned may be started again for a later attempt, so   *)
(* Threads bounds the threads alive at one time, not the attempts.         *)
(***************************************************************************)
EXTENDS Naturals, Sequences

CONSTANTS
    Threads,    \* network threads that may be alive at the same time
    Addrs,      \* server addresses
    Messages,   \* what the server sends, of the messages that change the login
    None,       \* INVALID_SOCKET
    MaxEvents,  \* bound on m_MsgQueue for messages received from the server
    MaxQueued   \* bound on m_SendMsgQueue

ASSUME ThreadsAssumption == None \notin Threads
ASSUME MessagesAssumption == Messages \subseteq {"login", "logout"}
ASSUME BoundsAssumption == MaxEvents \in Nat /\ MaxQueued \in Nat

\* What the main thread hands to the socket: game data, or the reconnect record
\* (uid and token) of the session.
Items == {"data", "rec"}

\* What a network thread posts with OnReceived: a message of the server, or NULL
\* with 0 ("connected"), 1 ("failed"), 2 or 3 ("lost", both OnDisconnected).
Events == {"connected", "failed", "lost"} \cup Messages

\* Program points of network_thread; "none" is a thread that does not exist.
Established == {"postConnected", "setConnected", "setRunning", "check", "poll"}
UsesSocket == {"connect", "invalidate"} \cup Established
Points == {"none", "post", "clearConnected", "clearRunning"} \cup UsesSocket

\* Where the main thread is: "idle", Lua or the frame loop has control; "sendUp"
\* and "sendDown", Send has read IsConnected(); "flush", in
\* SendAllMsgInSendQueue.
MainPoints == {"idle", "sendUp", "sendDown", "flush"}

VARIABLES
    m_socket,       \* None, or the thread whose socket it is
    m_addr,         \* address of the last attempt
    m_isConnected,
    m_isRunning,
    pc,             \* program point of each network thread
    verdict,        \* event the thread posts once its socket is invalid
    m_MsgQueue,     \* events from the network threads to the main thread
    m_SendMsgQueue, \* items waiting for OnConnected
    main,           \* program point of the main thread
    inLogout,       \* it is handling a LOGOUT message, before Logout()
    m_serverAddr,
    m_isLogin,      \* CMainPlayer is logged in and holds uid and token
    wire            \* kinds of item that went out on each socket

mainVars == <<m_SendMsgQueue, main, inLogout, m_serverAddr, m_isLogin, wire>>
netVars == <<m_socket, m_addr, m_isConnected, m_isRunning, pc, verdict>>
vars == <<netVars, m_MsgQueue, mainVars>>

Init ==
    /\ m_socket = None
    /\ m_addr \in Addrs
    /\ m_serverAddr = m_addr
    /\ m_isConnected = FALSE
    /\ m_isRunning = FALSE
    /\ pc = [t \in Threads |-> "none"]
    /\ verdict = [t \in Threads |-> "lost"]
    /\ m_MsgQueue = <<>>
    /\ m_SendMsgQueue = <<>>
    /\ main = "idle"
    /\ inLogout = FALSE
    /\ m_isLogin = FALSE
    /\ wire = [t \in Threads |-> {}]

-----------------------------------------------------------------------------
(* The network thread.                                                     *)

Step(t, from, to) ==
    /\ pc[t] = from
    /\ pc' = [pc EXCEPT ![t] = to]
    /\ UNCHANGED <<m_addr, mainVars>>

Post(ev) == m_MsgQueue' = Append(m_MsgQueue, ev)

ConnectOk(t) ==
    /\ Step(t, "connect", "postConnected")
    /\ UNCHANGED <<m_socket, m_isConnected, m_isRunning, verdict, m_MsgQueue>>

\* The three exits have one shape: close the socket, make m_socket invalid, post
\* the verdict, clear the flags.  The socket is closed in the step that decides.
ConnectFail(t) ==
    /\ Step(t, "connect", "invalidate")
    /\ verdict' = [verdict EXCEPT ![t] = "failed"]
    /\ UNCHANGED <<m_socket, m_isConnected, m_isRunning, m_MsgQueue>>

PostConnected(t) ==
    /\ Step(t, "postConnected", "setConnected")
    /\ Post("connected")
    /\ UNCHANGED <<m_socket, m_isConnected, m_isRunning, verdict>>

SetConnected(t) ==
    /\ Step(t, "setConnected", "setRunning")
    /\ m_isConnected' = TRUE
    /\ UNCHANGED <<m_socket, m_isRunning, verdict, m_MsgQueue>>

SetRunning(t) ==
    /\ Step(t, "setRunning", "check")
    /\ m_isRunning' = TRUE
    /\ UNCHANGED <<m_socket, m_isConnected, verdict, m_MsgQueue>>

\* while (m_isRunning): the flag is read once per iteration.
CheckRunning(t) ==
    /\ \/ m_isRunning /\ Step(t, "check", "poll") /\ UNCHANGED verdict
       \/ /\ ~m_isRunning
          /\ Step(t, "check", "invalidate")
          /\ verdict' = [verdict EXCEPT ![t] = "lost"]
    /\ UNCHANGED <<m_socket, m_isConnected, m_isRunning, m_MsgQueue>>

\* Mutant: after a timeout select() is called again without reading the flag.
PollAgainBlind(t) ==
    /\ Step(t, "poll", "poll")
    /\ UNCHANGED <<m_socket, m_isConnected, m_isRunning, verdict, m_MsgQueue>>

\* select() has timed out, or what was readable has been read.
PollAgain(t) ==
    /\ Step(t, "poll", "check")
    /\ UNCHANGED <<m_socket, m_isConnected, m_isRunning, verdict, m_MsgQueue>>

\* A complete message has been read; recv() may find another one behind it.
Receive(t) ==
    /\ Step(t, "poll", "poll")
    /\ Len(m_MsgQueue) < MaxEvents
    /\ \E msg \in Messages : Post(msg)
    /\ UNCHANGED <<m_socket, m_isConnected, m_isRunning, verdict>>

\* recv() fails, the server has closed, or the ping deadline has passed.
PeerLost(t) ==
    /\ Step(t, "poll", "invalidate")
    /\ verdict' = [verdict EXCEPT ![t] = "lost"]
    /\ UNCHANGED <<m_socket, m_isConnected, m_isRunning, m_MsgQueue>>

Invalidate(t) ==
    /\ Step(t, "invalidate", "post")
    /\ m_socket' = None
    /\ UNCHANGED <<m_isConnected, m_isRunning, verdict, m_MsgQueue>>

\* Mutant: a failed attempt is not reported.
PostVerdictOfLoss(t) ==
    /\ Step(t, "post", "clearConnected")
    /\ IF verdict[t] = "lost" THEN Post("lost") ELSE UNCHANGED m_MsgQueue
    /\ UNCHANGED <<m_socket, m_isConnected, m_isRunning, verdict>>

PostVerdict(t) ==
    /\ Step(t, "post", "clearConnected")
    /\ Post(verdict[t])
    /\ UNCHANGED <<m_socket, m_isConnected, m_isRunning, verdict>>

\* Mutant: the flag is only cleared by a thread that lost an established link.
ClearConnectedIfLost(t) ==
    /\ Step(t, "clearConnected", "clearRunning")
    /\ m_isConnected' = (m_isConnected /\ m_socket # None)
    /\ UNCHANGED <<m_socket, m_isRunning, verdict, m_MsgQueue>>

ClearConnected(t) ==
    /\ Step(t, "clearConnected", "clearRunning")
    /\ m_isConnected' = FALSE
    /\ UNCHANGED <<m_socket, m_isRunning, verdict, m_MsgQueue>>

ClearRunning(t) ==
    /\ Step(t, "clearRunning", "none")
    /\ m_isRunning' = FALSE
    /\ UNCHANGED <<m_socket, m_isConnected, verdict, m_MsgQueue>>

NetworkThread(t) ==
    \/ ConnectOk(t) \/ ConnectFail(t)
    \/ PostConnected(t) \/ SetConnected(t) \/ SetRunning(t)
    \/ CheckRunning(t) \/ PollAgain(t) \/ Receive(t) \/ PeerLost(t)
    \/ Invalidate(t) \/ PostVerdict(t)
    \/ ClearConnected(t) \/ ClearRunning(t)

-----------------------------------------------------------------------------
(* The main thread.                                                        *)

\* Mutant: "is there a socket" is asked of the connected flag.
ConnectAcceptsByFlag ==
    \/ /\ m_isConnected
       /\ m_addr = m_serverAddr
       /\ UNCHANGED <<netVars, wire>>
    \/ /\ ~m_isConnected
       /\ \E t \in Threads :
            /\ pc[t] = "none"
            /\ m_socket' = t
            /\ pc' = [pc EXCEPT ![t] = "connect"]
            /\ wire' = [wire EXCEPT ![t] = {}]
       /\ m_addr' = m_serverAddr
       /\ UNCHANGED <<m_isConnected, m_isRunning, verdict>>

\* Mutant: an attempt to any address counts as an attempt to this one.
ConnectAcceptsAnyAddr ==
    \/ /\ m_socket # None
       /\ UNCHANGED <<netVars, wire>>
    \/ /\ m_socket = None
       /\ \E t \in Threads :
            /\ pc[t] = "none"
            /\ m_socket' = t
            /\ pc' = [pc EXCEPT ![t] = "connect"]
            /\ wire' = [wire EXCEPT ![t] = {}]
       /\ m_addr' = m_serverAddr
       /\ UNCHANGED <<m_isConnected, m_isRunning, verdict>>

\* CNetClient::Connect returning true: an attempt or connection to this address
\* exists already, or a socket and its thread are created.
ConnectAccepts ==
    \/ /\ m_socket # None
       /\ m_addr = m_serverAddr
       /\ UNCHANGED <<netVars, wire>>
    \/ /\ m_socket = None
       /\ \E t \in Threads :
            /\ pc[t] = "none"
            /\ m_socket' = t
            /\ pc' = [pc EXCEPT ![t] = "connect"]
            /\ wire' = [wire EXCEPT ![t] = {}]
       /\ m_addr' = m_serverAddr
       /\ UNCHANGED <<m_isConnected, m_isRunning, verdict>>

ConnectRefuses == m_socket # None /\ m_addr # m_serverAddr

\* Mutant: the login message is queued again, not the record.
ReconnectByLogin == IF m_isLogin THEN <<"login">> ELSE <<>>

\* The reconnect record that Send and SendReconnect queue for a logged in player.
Reconnect == IF m_isLogin THEN <<"rec">> ELSE <<>>

Enqueue(items) == m_SendMsgQueue' = m_SendMsgQueue \o items

\* Bounds: Lua starts no operation that would queue beyond MaxQueued, and none
\* that may start a thread while more than MaxEvents events wait.
Room(items) ==
    /\ Len(m_SendMsgQueue \o items) <= MaxQueued
    /\ Len(m_MsgQueue) <= MaxEvents

\* Mutant: a socket that is still connecting takes the item.
SendItemEarly(item) ==
    \/ UNCHANGED wire
    \/ /\ m_socket # None
       /\ wire' = [wire EXCEPT ![m_socket] = @ \cup {item}]

\* CNetClient::Send of one item: it goes out on an open, connected socket, unless
\* send() fails; on an invalid, closed or unconnected socket it cannot go out.
SendItem(item) ==
    \/ UNCHANGED wire
    \/ /\ m_socket # None
       /\ pc[m_socket] \in Established
       /\ wire' = [wire EXCEPT ![m_socket] = @ \cup {item}]

\* Send reads IsConnected(), and acts on what it read in its next step.
SendBegin ==
    /\ main = "idle" /\ Room(Append(Reconnect, "data"))
    /\ main' = IF m_isConnected THEN "sendUp" ELSE "sendDown"
    /\ UNCHANGED <<netVars, m_MsgQueue, m_SendMsgQueue, inLogout, m_serverAddr,
                   m_isLogin, wire>>

SendDirect ==
    /\ main = "sendUp"
    /\ main' = "idle"
    /\ SendItem("data")
    /\ UNCHANGED <<netVars, m_MsgQueue, m_SendMsgQueue, inLogout, m_serverAddr,
                   m_isLogin>>

SendQueued ==
    /\ main = "sendDown"
    /\ main' = "idle"
    /\ \/ ConnectAccepts /\ Enqueue(Append(Reconnect, "data"))
       \/ ConnectRefuses /\ UNCHANGED <<netVars, m_SendMsgQueue, wire>>
    /\ UNCHANGED <<m_MsgQueue, inLogout, m_serverAddr, m_isLogin>>

SendReconnect ==
    /\ main = "idle" /\ Room(Reconnect)
    /\ \/ ConnectAccepts /\ Enqueue(Reconnect)
       \/ ConnectRefuses /\ UNCHANGED <<netVars, m_SendMsgQueue, wire>>
    /\ UNCHANGED <<m_MsgQueue, main, inLogout, m_serverAddr, m_isLogin>>

SetServerIp(a) ==
    /\ main = "idle"
    /\ m_serverAddr' = a
    /\ UNCHANGED <<netVars, m_MsgQueue, m_SendMsgQueue, main, inLogout, m_isLogin,
                   wire>>

\* CMainPlayer::Logout, called by Lua or at the end of a LOGOUT message;
\* Disconnect only clears m_isRunning.
Logout ==
    /\ main = "idle"
    /\ m_isRunning' = FALSE
    /\ m_isLogin' = FALSE
    /\ UNCHANGED <<m_socket, m_addr, m_isConnected, pc, verdict, m_MsgQueue,
                   m_SendMsgQueue, main, m_serverAddr, wire>>

LuaLogout == Logout /\ UNCHANGED inLogout
EndLogout == inLogout /\ Logout /\ inLogout' = FALSE

\* One round of the DispatchMsg loop.  What Lua does in a callback is what it
\* may do whenever the main thread is idle.
Dispatch ==
    /\ main = "idle" /\ ~inLogout
    /\ m_MsgQueue # <<>>
    /\ m_MsgQueue' = Tail(m_MsgQueue)
    /\ LET ev == Head(m_MsgQueue) IN
         /\ main' = IF ev = "connected" THEN "flush" ELSE "idle"
         /\ m_SendMsgQueue' = IF ev = "failed" THEN <<>> ELSE m_SendMsgQueue
         /\ m_isLogin' = CASE ev = "login"  -> TRUE
                           [] ev = "logout" -> FALSE
                           [] OTHER         -> m_isLogin
         /\ inLogout' = (ev = "logout")
    /\ UNCHANGED <<netVars, m_serverAddr, wire>>

\* SendAllMsgInSendQueue: an item leaves the queue whether or not Send succeeds.
Flush ==
    /\ main = "flush"
    /\ \/ /\ m_SendMsgQueue # <<>>
          /\ SendItem(Head(m_SendMsgQueue))
          /\ m_SendMsgQueue' = Tail(m_SendMsgQueue)
          /\ UNCHANGED main
       \/ /\ m_SendMsgQueue = <<>>
          /\ main' = "idle"
          /\ UNCHANGED <<m_SendMsgQueue, wire>>
    /\ UNCHANGED <<netVars, m_MsgQueue, inLogout, m_serverAddr, m_isLogin>>

Lua == SendBegin \/ SendReconnect \/ LuaLogout \/ \E a \in Addrs : SetServerIp(a)

Next ==
    \/ \E t \in Threads : NetworkThread(t)
    \/ Lua \/ SendDirect \/ SendQueued \/ EndLogout \/ Dispatch \/ Flush

Spec == Init /\ [][Next]_vars

\* What the scheduler grants: a thread that can take its next step takes it,
\* connect() returns, and a batch of readable data ends; mainLoop is called in
\* every frame (its caller's duty) and dispatches, however busy Lua is.
Fairness ==
    /\ \A t \in Threads :
         /\ WF_vars(ConnectOk(t) \/ ConnectFail(t))
         /\ WF_vars(PostConnected(t)) /\ WF_vars(SetConnected(t))
         /\ WF_vars(SetRunning(t)) /\ WF_vars(CheckRunning(t))
         /\ WF_vars(PollAgain(t)) /\ WF_vars(Invalidate(t)) /\ WF_vars(PostVerdict(t))
         /\ WF_vars(ClearConnected(t)) /\ WF_vars(ClearRunning(t))
    /\ WF_vars(SendDirect) /\ WF_vars(SendQueued) /\ WF_vars(Flush)
    /\ SF_vars(EndLogout) /\ SF_vars(Dispatch)

FairSpec == Spec /\ Fairness

-----------------------------------------------------------------------------
(* Properties.                                                             *)

\* Every variable has its type.
TypeOK ==
    /\ m_socket \in Threads \cup {None}
    /\ m_addr \in Addrs /\ m_serverAddr \in Addrs
    /\ m_isConnected \in BOOLEAN /\ m_isRunning \in BOOLEAN
    /\ pc \in [Threads -> Points]
    /\ verdict \in [Threads -> {"failed", "lost"}]
    /\ m_MsgQueue \in Seq(Events)
    /\ m_SendMsgQueue \in Seq(Items)
    /\ main \in MainPoints /\ inLogout \in BOOLEAN /\ m_isLogin \in BOOLEAN
    /\ wire \in [Threads -> SUBSET Items]

\* A network thread reads and writes the shared m_socket, never a copy of its
\* own.  That is only right because a thread that still uses the field finds its
\* own socket there, and a valid socket there has its thread: Connect refuses to
\* replace a valid socket, and a thread makes the field invalid in the last
\* access it makes.
SocketIsMine == \A t \in Threads : pc[t] \in UsesSocket <=> m_socket = t

\* IsConnected() is never left TRUE for good with nobody to clear it, whatever
\* threads overlap: while it is TRUE some thread has still to execute the
\* m_isConnected = false of its exit path.  Otherwise Send would write to an
\* invalid socket for ever and never reconnect.
OwesConnected == {"setRunning", "check", "poll", "invalidate", "post",
                  "clearConnected"}
ConnectedIsOwed == m_isConnected => \E t \in Threads : pc[t] \in OwesConnected

\* What Send and SendReconnect put in the queue is for the server that
\* SetServerIp named: while an attempt to another address is under way Connect
\* answers false and nothing is queued.
QueuedForServer ==
    [][Len(m_SendMsgQueue') > Len(m_SendMsgQueue) => m_addr' = m_serverAddr]_vars

\* A Disconnect that finds a connection in its receive loop ends that
\* connection: no other thread can set m_isRunning again before the loop has
\* read it.
DisconnectHonoured ==
    \A t \in Threads :
        (pc[t] \in {"check", "poll"} /\ ~m_isRunning) ~> m_socket # t

\* Every attempt is answered: OnConnected or OnConnectFailed is dispatched.
AttemptAnswered ==
    \A t \in Threads :
        pc[t] = "connect" ~>
            (m_MsgQueue # <<>> /\ Head(m_MsgQueue) \in {"connected", "failed"})

\* What the game sees through m_socket is one link at a time, to one address, that
\* is attempted, established and closed in order and carries items only while
\* it is established, although several threads are at work.
LinkState ==
    IF m_socket = None THEN "down"
    ELSE CASE pc[m_socket] = "connect" -> "attempt"
           [] pc[m_socket] \in Established -> "up"
           [] OTHER -> "closing"

L == INSTANCE Link WITH
        link <- LinkState, addr <- m_addr,
        sent <- IF m_socket = None THEN {} ELSE wire[m_socket]

IsLink == L!Spec

-----------------------------------------------------------------------------
(* What comments in the code promise and the code does not keep.           *)

\* "Here one can loop into reconnecting until the connection is up"
\* (NetClientEx.cpp, OnDisconnected): once OnDisconnected is being dispatched, a
\* game that keeps calling SendReconnect against a server that accepts gets to
\* a state in which IsConnected() is true.
ReconnectLoop ==
    /\ Spec /\ Fairness
    /\ SF_vars(SendReconnect)
    /\ \A t \in Threads : SF_vars(ConnectOk(t))

ReconnectLoopConnects ==
    (m_MsgQueue # <<>> /\ Head(m_MsgQueue) = "lost") ~> m_isConnected

=============================================================================
