---------------------------- MODULE NetClient_proofs ----------------------------
(***************************************************************************)
(* Proofs about NetClient, for any number of network threads, any set of   *)
(* addresses and any bounds: every variable has its type, a network thread *)
(* finds its own socket in the shared field, m_isConnected is never left   *)
(* set for good, what is queued is for the server the game named, and the  *)
(* game sees one link behind the field (module Link).                      *)
(***************************************************************************)
EXTENDS NetClient, SequenceTheorems, TLAPS

USE DEF Items, Events, Established, UsesSocket, Points, MainPoints, OwesConnected

-----------------------------------------------------------------------------
(* Type correctness.                                                       *)

\* What a step of a network thread does to pc and leaves alone.
LEMMA StepType ==
    ASSUME TypeOK, NEW t \in Threads, NEW from, NEW to \in Points, Step(t, from, to)
    PROVE  /\ pc' \in [Threads -> Points]
           /\ pc'[t] = to
           /\ \A u \in Threads \ {t} : pc'[u] = pc[u]
           /\ UNCHANGED <<m_addr, mainVars>>
  BY DEF TypeOK, Step

\* Appending an event keeps the event queue typed.
LEMMA PostType ==
    ASSUME TypeOK, NEW ev \in Events, Post(ev)
    PROVE  m_MsgQueue' \in Seq(Events)
  BY DEF TypeOK, Post

LEMMA ThreadType ==
    ASSUME TypeOK, NEW t \in Threads, NetworkThread(t)
    PROVE  TypeOK'
<1> USE DEF TypeOK, mainVars
<1>1. CASE ConnectOk(t)
  BY <1>1, StepType DEF ConnectOk
<1>2. CASE ConnectFail(t)
  BY <1>2, StepType DEF ConnectFail
<1>3. CASE PostConnected(t)
  BY <1>3, StepType, PostType DEF PostConnected
<1>4. CASE SetConnected(t)
  BY <1>4, StepType DEF SetConnected
<1>5. CASE SetRunning(t)
  BY <1>5, StepType DEF SetRunning
<1>6. CASE CheckRunning(t)
  BY <1>6, StepType DEF CheckRunning
<1>7. CASE PollAgain(t)
  BY <1>7, StepType DEF PollAgain
<1>8. CASE Receive(t)
  <2>1. PICK msg \in Messages : Post(msg)
    BY <1>8 DEF Receive
  <2>2. m_MsgQueue' \in Seq(Events)
    BY <2>1, PostType
  <2> QED
    BY <1>8, <2>2, StepType DEF Receive
<1>9. CASE PeerLost(t)
  BY <1>9, StepType DEF PeerLost
<1>10. CASE Invalidate(t)
  BY <1>10, StepType DEF Invalidate
<1>11. CASE PostVerdict(t)
  BY <1>11, StepType, PostType DEF PostVerdict
<1>12. CASE ClearConnected(t)
  BY <1>12, StepType DEF ClearConnected
<1>13. CASE ClearRunning(t)
  BY <1>13, StepType DEF ClearRunning
<1> QED
  BY <1>1, <1>2, <1>3, <1>4, <1>5, <1>6, <1>7, <1>8, <1>9, <1>10, <1>11, <1>12,
     <1>13 DEF NetworkThread

\* Connect keeps the connection's fields typed, whichever way it answers true.
LEMMA ConnectType ==
    ASSUME TypeOK, ConnectAccepts
    PROVE  /\ m_socket' \in Threads \cup {None}
           /\ m_addr' \in Addrs
           /\ m_isConnected' \in BOOLEAN /\ m_isRunning' \in BOOLEAN
           /\ pc' \in [Threads -> Points]
           /\ verdict' \in [Threads -> {"failed", "lost"}]
           /\ wire' \in [Threads -> SUBSET Items]
<1>1. CASE m_socket # None
  BY <1>1 DEF ConnectAccepts, TypeOK, netVars
<1>2. CASE m_socket = None
  <2>1. PICK t \in Threads : /\ m_socket' = t
                             /\ pc' = [pc EXCEPT ![t] = "connect"]
                             /\ wire' = [wire EXCEPT ![t] = {}]
    BY <1>2 DEF ConnectAccepts
  <2> QED
    BY <1>2, <2>1 DEF ConnectAccepts, TypeOK
<1> QED
  BY <1>1, <1>2

\* The reconnect record, alone or before a piece of data, is a sequence of items.
LEMMA ReconnectType ==
    /\ Reconnect \in Seq(Items)
    /\ Append(Reconnect, "data") \in Seq(Items)
<1>1. Reconnect \in Seq(Items)
  <2>1. CASE m_isLogin
    BY <2>1 DEF Reconnect
  <2>2. CASE ~m_isLogin
    BY <2>2 DEF Reconnect
  <2> QED
    BY <2>1, <2>2
<1>2. "data" \in Items
  OBVIOUS
<1> QED
  BY <1>1, <1>2

LEMMA EnqueueType ==
    ASSUME TypeOK, NEW items \in Seq(Items), Enqueue(items)
    PROVE  m_SendMsgQueue' \in Seq(Items)
  BY DEF TypeOK, Enqueue

\* An item goes out on an open socket, or nothing does.
LEMMA SendItemType ==
    ASSUME TypeOK, NEW item \in Items, SendItem(item)
    PROVE  wire' \in [Threads -> SUBSET Items]
<1>1. CASE UNCHANGED wire
  BY <1>1 DEF TypeOK
<1>2. CASE m_socket # None /\ wire' = [wire EXCEPT ![m_socket] = @ \cup {item}]
  BY <1>2 DEF TypeOK
<1> QED
  BY <1>1, <1>2 DEF SendItem

LEMMA MainType ==
    ASSUME TypeOK, Lua \/ SendDirect \/ SendQueued \/ EndLogout \/ Dispatch \/ Flush
    PROVE  TypeOK'
<1>1. CASE SendBegin
  BY <1>1 DEF SendBegin, TypeOK, netVars
<1>2. CASE SendReconnect
  <2>1. CASE ConnectAccepts /\ Enqueue(Reconnect)
    BY <1>2, <2>1, ConnectType, ReconnectType, EnqueueType DEF SendReconnect, TypeOK
  <2>2. CASE UNCHANGED <<netVars, m_SendMsgQueue, wire>>
    BY <1>2, <2>2 DEF SendReconnect, TypeOK, netVars
  <2> QED
    BY <1>2, <2>1, <2>2 DEF SendReconnect
<1>3. CASE LuaLogout
  BY <1>3 DEF LuaLogout, Logout, TypeOK
<1>4. ASSUME NEW a \in Addrs, SetServerIp(a)
      PROVE  TypeOK'
  BY <1>4 DEF SetServerIp, TypeOK, netVars
<1>5. CASE SendDirect
  BY <1>5, SendItemType DEF SendDirect, TypeOK, netVars
<1>6. CASE SendQueued
  <2>1. CASE ConnectAccepts /\ Enqueue(Append(Reconnect, "data"))
    BY <1>6, <2>1, ConnectType, ReconnectType, EnqueueType DEF SendQueued, TypeOK
  <2>2. CASE UNCHANGED <<netVars, m_SendMsgQueue, wire>>
    BY <1>6, <2>2 DEF SendQueued, TypeOK, netVars
  <2> QED
    BY <1>6, <2>1, <2>2 DEF SendQueued
<1>7. CASE EndLogout
  BY <1>7 DEF EndLogout, Logout, TypeOK
<1>8. CASE Dispatch
  <2>1. m_MsgQueue' = Tail(m_MsgQueue) /\ m_MsgQueue # <<>>
    BY <1>8 DEF Dispatch
  <2>2. m_MsgQueue' \in Seq(Events)
    BY <2>1 DEF TypeOK
  <2>3. m_SendMsgQueue' \in Seq(Items)
    <3>1. m_SendMsgQueue' = <<>> \/ m_SendMsgQueue' = m_SendMsgQueue
      BY <1>8 DEF Dispatch
    <3>2. <<>> \in Seq(Items)
      BY EmptySeq
    <3> QED
      BY <3>1, <3>2 DEF TypeOK
  <2>4. main' \in MainPoints /\ inLogout' \in BOOLEAN
    BY <1>8 DEF Dispatch
  <2>5. m_isLogin' \in BOOLEAN
    <3>1. \/ m_isLogin' = TRUE
          \/ m_isLogin' = FALSE
          \/ m_isLogin' = m_isLogin
      BY <1>8 DEF Dispatch
    <3> QED
      BY <3>1 DEF TypeOK
  <2> QED
    BY <1>8, <2>2, <2>3, <2>4, <2>5 DEF Dispatch, TypeOK, netVars
<1>9. CASE Flush
  <2>1. CASE main = "flush" /\ m_SendMsgQueue # <<>>
    <3>1. Head(m_SendMsgQueue) \in Items /\ Tail(m_SendMsgQueue) \in Seq(Items)
      BY <2>1 DEF TypeOK
    <3>2. SendItem(Head(m_SendMsgQueue)) /\ m_SendMsgQueue' = Tail(m_SendMsgQueue)
      BY <1>9, <2>1 DEF Flush
    <3> QED
      BY <1>9, <2>1, <3>1, <3>2, SendItemType DEF Flush, TypeOK, netVars
  <2>2. CASE m_SendMsgQueue = <<>>
    BY <1>9, <2>2 DEF Flush, TypeOK, netVars
  <2> QED
    BY <1>9, <2>1, <2>2 DEF Flush
<1>10. CASE Lua
  BY <1>1, <1>2, <1>3, <1>4, <1>10 DEF Lua
<1> QED
  BY <1>5, <1>6, <1>7, <1>8, <1>9, <1>10

LEMMA TypeInit == Init => TypeOK
<1>1. <<>> \in Seq(Items) /\ <<>> \in Seq(Events)
  BY EmptySeq
<1> QED
  BY <1>1 DEF Init, TypeOK

LEMMA TypeStep == TypeOK /\ [Next]_vars => TypeOK'
<1>1. CASE UNCHANGED vars
  BY <1>1 DEF vars, netVars, mainVars, TypeOK
<1>2. CASE Next
  BY <1>2, ThreadType, MainType DEF Next
<1> QED
  BY <1>1, <1>2

\* Every variable keeps its type, whatever threads overlap.
THEOREM TypeCorrect == Spec => []TypeOK
  BY TypeInit, TypeStep, PTL DEF Spec

-----------------------------------------------------------------------------
(* The shared socket field.  SocketIsMine is inductive with TypeOK.        *)

\* A step of t between two points that both use the socket, or both do not.
LEMMA SocketKept ==
    ASSUME TypeOK, SocketIsMine, NEW t \in Threads,
           NEW from, NEW to \in Points, Step(t, from, to), UNCHANGED m_socket,
           from \in UsesSocket <=> to \in UsesSocket
    PROVE  SocketIsMine'
<1>1. pc[t] = from
  BY DEF Step
<1> QED
  BY <1>1, StepType DEF SocketIsMine

LEMMA SocketThread ==
    ASSUME TypeOK, SocketIsMine, NEW t \in Threads, NetworkThread(t)
    PROVE  SocketIsMine'
<1>1. CASE ConnectOk(t)
  BY <1>1, SocketKept DEF ConnectOk
<1>2. CASE ConnectFail(t)
  BY <1>2, SocketKept DEF ConnectFail
<1>3. CASE PostConnected(t)
  BY <1>3, SocketKept DEF PostConnected
<1>4. CASE SetConnected(t)
  BY <1>4, SocketKept DEF SetConnected
<1>5. CASE SetRunning(t)
  BY <1>5, SocketKept DEF SetRunning
<1>6. CASE CheckRunning(t)
  BY <1>6, SocketKept DEF CheckRunning
<1>7. CASE PollAgain(t)
  BY <1>7, SocketKept DEF PollAgain
<1>8. CASE Receive(t)
  BY <1>8, SocketKept DEF Receive
<1>9. CASE PeerLost(t)
  BY <1>9, SocketKept DEF PeerLost
<1>10. CASE Invalidate(t)
  <2>1. m_socket = t
    BY <1>10 DEF Invalidate, Step, SocketIsMine
  <2>2. m_socket' = None /\ pc'[t] = "post"
    BY <1>10, StepType DEF Invalidate
  <2>3. \A u \in Threads \ {t} : pc'[u] \notin UsesSocket
    BY <1>10, <2>1, StepType DEF Invalidate, SocketIsMine
  <2> QED
    BY <2>2, <2>3, ThreadsAssumption DEF SocketIsMine
<1>11. CASE PostVerdict(t)
  BY <1>11, SocketKept DEF PostVerdict
<1>12. CASE ClearConnected(t)
  BY <1>12, SocketKept DEF ClearConnected
<1>13. CASE ClearRunning(t)
  BY <1>13, SocketKept DEF ClearRunning
<1> QED
  BY <1>1, <1>2, <1>3, <1>4, <1>5, <1>6, <1>7, <1>8, <1>9, <1>10, <1>11, <1>12,
     <1>13 DEF NetworkThread

\* What Connect can do to the threads: nothing, or start one at "connect" when
\* the field was invalid, with nothing sent yet on its socket.
LEMMA ConnectStarts ==
    ASSUME TypeOK, ConnectAccepts
    PROVE  \/ m_socket # None /\ UNCHANGED <<netVars, wire>>
           \/ /\ m_socket = None
              /\ m_addr' = m_serverAddr
              /\ UNCHANGED m_isConnected
              /\ \E t \in Threads :
                    /\ m_socket' = t
                    /\ pc[t] = "none"
                    /\ pc' = [pc EXCEPT ![t] = "connect"]
                    /\ wire'[t] = {}
<1>1. CASE m_socket # None
  BY <1>1 DEF ConnectAccepts
<1>2. CASE m_socket = None
  BY <1>2 DEF ConnectAccepts, TypeOK
<1> QED
  BY <1>1, <1>2

\* What a step of the main thread can do to them.
LEMMA MainStarts ==
    ASSUME TypeOK, Lua \/ SendDirect \/ SendQueued \/ EndLogout \/ Dispatch \/ Flush
    PROVE  \/ UNCHANGED <<m_socket, m_addr, m_isConnected, pc>>
           \/ ConnectAccepts
<1>1. CASE SendBegin
  BY <1>1 DEF SendBegin, netVars
<1>2. CASE SendReconnect
  BY <1>2 DEF SendReconnect, netVars
<1>3. CASE LuaLogout \/ EndLogout
  BY <1>3 DEF LuaLogout, EndLogout, Logout
<1>4. CASE \E a \in Addrs : SetServerIp(a)
  BY <1>4 DEF SetServerIp, netVars
<1>5. CASE SendDirect
  BY <1>5 DEF SendDirect, netVars
<1>6. CASE SendQueued
  BY <1>6 DEF SendQueued, netVars
<1>7. CASE Dispatch
  BY <1>7 DEF Dispatch, netVars
<1>8. CASE Flush
  BY <1>8 DEF Flush, netVars
<1> QED
  BY <1>1, <1>2, <1>3, <1>4, <1>5, <1>6, <1>7, <1>8 DEF Lua

LEMMA SocketStep == TypeOK /\ SocketIsMine /\ [Next]_vars => SocketIsMine'
<1> SUFFICES ASSUME TypeOK, SocketIsMine, [Next]_vars PROVE SocketIsMine'
  OBVIOUS
<1>1. CASE UNCHANGED vars
  BY <1>1 DEF vars, netVars, SocketIsMine
<1>2. CASE \E t \in Threads : NetworkThread(t)
  BY <1>2, SocketThread
<1>3. CASE Lua \/ SendDirect \/ SendQueued \/ EndLogout \/ Dispatch \/ Flush
  <2>1. CASE UNCHANGED <<m_socket, pc>>
    BY <2>1 DEF SocketIsMine
  <2>2. CASE ConnectAccepts /\ m_socket = None
    <3>1. PICK t \in Threads : m_socket' = t /\ pc' = [pc EXCEPT ![t] = "connect"]
      BY <2>2, ConnectStarts
    <3>2. \A u \in Threads : pc[u] \notin UsesSocket
      BY <2>2, ThreadsAssumption DEF SocketIsMine
    <3> QED
      BY <3>1, <3>2 DEF TypeOK, SocketIsMine
  <2> QED
    BY <1>3, <2>1, <2>2, MainStarts, ConnectStarts DEF netVars
<1> QED
  BY <1>1, <1>2, <1>3 DEF Next

\* A network thread that uses m_socket finds its own socket there, and a valid
\* m_socket has its thread, for any number of overlapping threads.
THEOREM SocketOwned == Spec => []SocketIsMine
<1>1. Init => SocketIsMine
  BY ThreadsAssumption DEF Init, SocketIsMine
<1> QED
  BY <1>1, SocketStep, TypeCorrect, PTL DEF Spec

-----------------------------------------------------------------------------
(* The connected flag.  ConnectedIsOwed is inductive with TypeOK.          *)

\* A step that leaves the flag alone and pays no debt.
LEMMA DebtKept ==
    ASSUME TypeOK, ConnectedIsOwed, NEW t \in Threads,
           NEW from, NEW to \in Points, Step(t, from, to), UNCHANGED m_isConnected,
           from \in OwesConnected => to \in OwesConnected
    PROVE  ConnectedIsOwed'
<1> SUFFICES ASSUME m_isConnected' PROVE \E u \in Threads : pc'[u] \in OwesConnected
  BY DEF ConnectedIsOwed
<1>1. PICK u \in Threads : pc[u] \in OwesConnected
  BY DEF ConnectedIsOwed
<1>2. pc[t] = from
  BY DEF Step
<1> QED
  BY <1>1, <1>2, StepType

LEMMA DebtThread ==
    ASSUME TypeOK, ConnectedIsOwed, NEW t \in Threads, NetworkThread(t)
    PROVE  ConnectedIsOwed'
<1>1. CASE ConnectOk(t)
  BY <1>1, DebtKept DEF ConnectOk
<1>2. CASE ConnectFail(t)
  BY <1>2, DebtKept DEF ConnectFail
<1>3. CASE PostConnected(t)
  BY <1>3, DebtKept DEF PostConnected
<1>4. CASE SetConnected(t)
  BY <1>4, StepType DEF SetConnected, ConnectedIsOwed
<1>5. CASE SetRunning(t)
  BY <1>5, DebtKept DEF SetRunning
<1>6. CASE CheckRunning(t)
  BY <1>6, DebtKept DEF CheckRunning
<1>7. CASE PollAgain(t)
  BY <1>7, DebtKept DEF PollAgain
<1>8. CASE Receive(t)
  BY <1>8, DebtKept DEF Receive
<1>9. CASE PeerLost(t)
  BY <1>9, DebtKept DEF PeerLost
<1>10. CASE Invalidate(t)
  BY <1>10, DebtKept DEF Invalidate
<1>11. CASE PostVerdict(t)
  BY <1>11, DebtKept DEF PostVerdict
<1>12. CASE ClearConnected(t)
  BY <1>12 DEF ClearConnected, ConnectedIsOwed
<1>13. CASE ClearRunning(t)
  BY <1>13, DebtKept DEF ClearRunning
<1> QED
  BY <1>1, <1>2, <1>3, <1>4, <1>5, <1>6, <1>7, <1>8, <1>9, <1>10, <1>11, <1>12,
     <1>13 DEF NetworkThread

LEMMA DebtStep == TypeOK /\ ConnectedIsOwed /\ [Next]_vars => ConnectedIsOwed'
<1> SUFFICES ASSUME TypeOK, ConnectedIsOwed, [Next]_vars PROVE ConnectedIsOwed'
  OBVIOUS
<1>1. CASE UNCHANGED vars
  BY <1>1 DEF vars, netVars, ConnectedIsOwed
<1>2. CASE \E t \in Threads : NetworkThread(t)
  BY <1>2, DebtThread
<1>3. CASE Lua \/ SendDirect \/ SendQueued \/ EndLogout \/ Dispatch \/ Flush
  <2>1. CASE UNCHANGED <<m_isConnected, pc>>
    BY <2>1 DEF ConnectedIsOwed
  <2>2. CASE ConnectAccepts /\ m_socket = None
    <3>1. PICK t \in Threads : pc[t] = "none" /\ pc' = [pc EXCEPT ![t] = "connect"]
      BY <2>2, ConnectStarts
    <3>2. \A u \in Threads : pc[u] \in OwesConnected => pc'[u] \in OwesConnected
      BY <3>1 DEF TypeOK
    <3> QED
      BY <2>2, <3>2, ConnectStarts DEF ConnectedIsOwed
  <2> QED
    BY <1>3, <2>1, <2>2, MainStarts, ConnectStarts DEF netVars
<1> QED
  BY <1>1, <1>2, <1>3 DEF Next

\* While IsConnected() answers true some thread has still to clear it.
THEOREM ConnectedOwed == Spec => []ConnectedIsOwed
<1>1. Init => ConnectedIsOwed
  BY DEF Init, ConnectedIsOwed
<1> QED
  BY <1>1, DebtStep, TypeCorrect, PTL DEF Spec

-----------------------------------------------------------------------------
(* What is queued.                                                         *)

LEMMA QueuedStep ==
    ASSUME TypeOK, [Next]_vars, m_SendMsgQueue' # m_SendMsgQueue
    PROVE  \/ m_addr' = m_serverAddr
           \/ m_SendMsgQueue' = <<>>
           \/ m_SendMsgQueue # <<>> /\ m_SendMsgQueue' = Tail(m_SendMsgQueue)
<1>1. CASE \E t \in Threads : NetworkThread(t)
  BY <1>1 DEF NetworkThread, ConnectOk, ConnectFail, PostConnected, SetConnected,
     SetRunning, CheckRunning, PollAgain, Receive, PeerLost, Invalidate, PostVerdict,
     ClearConnected, ClearRunning, Step, mainVars
<1>2. CASE SendReconnect
  BY <1>2 DEF SendReconnect, ConnectAccepts, netVars
<1>3. CASE SendQueued
  BY <1>3 DEF SendQueued, ConnectAccepts, netVars
<1>4. CASE Dispatch
  BY <1>4 DEF Dispatch
<1>5. CASE Flush
  BY <1>5 DEF Flush
<1>6. CASE SendBegin \/ SendDirect \/ LuaLogout \/ EndLogout
  BY <1>6 DEF SendBegin, SendDirect, LuaLogout, EndLogout, Logout
<1>7. CASE \E a \in Addrs : SetServerIp(a)
  BY <1>7 DEF SetServerIp
<1>8. CASE UNCHANGED vars
  BY <1>8 DEF vars, mainVars
<1> QED
  BY <1>1, <1>2, <1>3, <1>4, <1>5, <1>6, <1>7, <1>8 DEF Next, Lua

\* The send queue only grows in a step that ends with the attempt under way
\* being to the server SetServerIp named.
THEOREM QueuedRight == Spec => QueuedForServer
<1>1. TypeOK /\ [Next]_vars
        => [Len(m_SendMsgQueue') > Len(m_SendMsgQueue) => m_addr' = m_serverAddr]_vars
  <2> SUFFICES ASSUME TypeOK, [Next]_vars, m_addr' # m_serverAddr
               PROVE  ~(Len(m_SendMsgQueue') > Len(m_SendMsgQueue))
    OBVIOUS
  <2>1. CASE m_SendMsgQueue' = m_SendMsgQueue
    BY <2>1 DEF TypeOK
  <2>2. CASE m_SendMsgQueue' = <<>>
    BY <2>2 DEF TypeOK
  <2>3. CASE m_SendMsgQueue # <<>> /\ m_SendMsgQueue' = Tail(m_SendMsgQueue)
    BY <2>3 DEF TypeOK
  <2> QED
    BY <2>1, <2>2, <2>3, QueuedStep
<1> QED
  BY <1>1, TypeCorrect, PTL DEF Spec, QueuedForServer

-----------------------------------------------------------------------------
(* The link.  The state function LinkState, m_addr and what went out on    *)
(* the socket move as module Link says.                                    *)

Sent == IF m_socket = None THEN {} ELSE wire[m_socket]

\* A step of a thread that leaves m_socket alone moves the link only when the
\* thread is the one whose socket it is, and from one of its points to another.
LEMMA LinkKept ==
    ASSUME TypeOK, SocketIsMine, NEW t \in Threads,
           NEW from, NEW to \in Points, Step(t, from, to), UNCHANGED m_socket,
           \/ from \in Established /\ to \in Established
           \/ from \notin UsesSocket
    PROVE  UNCHANGED <<LinkState, m_addr, Sent>>
<1>1. pc[t] = from /\ UNCHANGED <<m_addr, wire>>
  BY DEF Step, mainVars
<1>2. CASE m_socket = None
  BY <1>1, <1>2 DEF LinkState, Sent
<1>3. CASE m_socket = t
  BY <1>1, <1>3, StepType, ThreadsAssumption DEF LinkState, Sent, SocketIsMine
<1>4. CASE m_socket # None /\ m_socket # t
  <2>1. pc'[m_socket] = pc[m_socket]
    BY <1>4, StepType DEF TypeOK
  <2> QED
    BY <1>1, <1>4, <2>1 DEF LinkState, Sent
<1> QED
  BY <1>2, <1>3, <1>4

\* The three ways in which a thread moves the link while its socket is valid.
LEMMA LinkMoved ==
    ASSUME TypeOK, SocketIsMine, NEW t \in Threads,
           NEW from \in UsesSocket, NEW to \in UsesSocket,
           Step(t, from, to), UNCHANGED m_socket
    PROVE  /\ LinkState = IF from = "connect" THEN "attempt"
                          ELSE IF from \in Established THEN "up" ELSE "closing"
           /\ LinkState' = IF to = "connect" THEN "attempt"
                           ELSE IF to \in Established THEN "up" ELSE "closing"
           /\ UNCHANGED <<m_addr, Sent>>
<1>1. pc[t] = from /\ UNCHANGED <<m_addr, wire>> /\ pc'[t] = to
  BY StepType DEF Step, mainVars
<1>2. m_socket = t /\ m_socket # None
  BY <1>1, ThreadsAssumption DEF SocketIsMine
<1> QED
  BY <1>1, <1>2 DEF LinkState, Sent

LEMMA LinkThread ==
    ASSUME TypeOK, SocketIsMine, NEW t \in Threads, NetworkThread(t)
    PROVE  L!Next \/ UNCHANGED <<LinkState, m_addr, Sent>>
<1> USE DEF L!Next, L!Move
<1>1. CASE ConnectOk(t)
  BY <1>1, LinkMoved DEF ConnectOk, L!Establish, Sent
<1>2. CASE ConnectFail(t)
  BY <1>2, LinkMoved DEF ConnectFail, L!Fail, Sent
<1>3. CASE PostConnected(t)
  BY <1>3, LinkKept DEF PostConnected
<1>4. CASE SetConnected(t)
  BY <1>4, LinkKept DEF SetConnected
<1>5. CASE SetRunning(t)
  BY <1>5, LinkKept DEF SetRunning
<1>6. CASE CheckRunning(t)
  BY <1>6, LinkKept, LinkMoved DEF CheckRunning, L!Lose, Sent
<1>7. CASE PollAgain(t)
  BY <1>7, LinkKept DEF PollAgain
<1>8. CASE Receive(t)
  BY <1>8, LinkKept DEF Receive
<1>9. CASE PeerLost(t)
  BY <1>9, LinkMoved DEF PeerLost, L!Lose, Sent
<1>10. CASE Invalidate(t)
  <2>1. pc[t] = "invalidate" /\ UNCHANGED m_addr
    BY <1>10 DEF Invalidate, Step
  <2>2. m_socket = t /\ m_socket # None /\ m_socket' = None
    BY <1>10, <2>1, ThreadsAssumption DEF SocketIsMine, Invalidate
  <2>3. LinkState = "closing" /\ LinkState' = "down" /\ Sent' = {}
    BY <2>1, <2>2 DEF LinkState, Sent
  <2> QED
    BY <2>1, <2>3 DEF L!Gone, Sent
<1>11. CASE PostVerdict(t)
  BY <1>11, LinkKept DEF PostVerdict
<1>12. CASE ClearConnected(t)
  BY <1>12, LinkKept DEF ClearConnected
<1>13. CASE ClearRunning(t)
  BY <1>13, LinkKept DEF ClearRunning
<1> QED
  BY <1>1, <1>2, <1>3, <1>4, <1>5, <1>6, <1>7, <1>8, <1>9, <1>10, <1>11, <1>12,
     <1>13 DEF NetworkThread

LEMMA LinkConnect ==
    ASSUME TypeOK, ConnectAccepts
    PROVE  L!Next \/ UNCHANGED <<LinkState, m_addr, Sent>>
<1>1. CASE UNCHANGED <<netVars, wire>>
  BY <1>1 DEF netVars, LinkState, Sent
<1>2. CASE m_socket = None /\ m_addr' = m_serverAddr
  <2>1. PICK t \in Threads : /\ m_socket' = t
                             /\ pc' = [pc EXCEPT ![t] = "connect"]
                             /\ wire'[t] = {}
    BY <1>2, ConnectStarts DEF netVars
  <2>2. LinkState = "down" /\ LinkState' = "attempt" /\ Sent = {} /\ Sent' = {}
    BY <1>2, <2>1, ThreadsAssumption DEF LinkState, Sent, TypeOK
  <2>3. m_addr' \in Addrs
    BY <1>2 DEF TypeOK
  <2> QED
    BY <2>2, <2>3 DEF L!Next, L!Attempt, Sent
<1> QED
  BY <1>1, <1>2, ConnectStarts

LEMMA LinkSend ==
    ASSUME TypeOK, NEW item \in Items, SendItem(item), UNCHANGED netVars
    PROVE  L!Next \/ UNCHANGED <<LinkState, m_addr, Sent>>
<1>1. UNCHANGED <<LinkState, m_addr>>
  BY DEF netVars, LinkState
<1>2. CASE UNCHANGED wire
  BY <1>1, <1>2 DEF Sent, netVars
<1>3. CASE /\ m_socket # None
           /\ pc[m_socket] \in Established
           /\ wire' = [wire EXCEPT ![m_socket] = @ \cup {item}]
  <2>1. LinkState = "up" /\ Sent' = Sent \cup {item}
    BY <1>3 DEF netVars, LinkState, Sent, TypeOK
  <2> QED
    BY <1>1, <2>1 DEF L!Next, L!SendOut, L!Move, Sent
<1> QED
  BY <1>2, <1>3 DEF SendItem

LEMMA LinkMain ==
    ASSUME TypeOK, Lua \/ SendDirect \/ SendQueued \/ EndLogout \/ Dispatch \/ Flush
    PROVE  L!Next \/ UNCHANGED <<LinkState, m_addr, Sent>>
<1>1. CASE UNCHANGED <<m_socket, m_addr, pc, wire>>
  BY <1>1 DEF LinkState, Sent
<1>2. CASE ConnectAccepts
  BY <1>2, LinkConnect
<1>3. CASE SendDirect
  BY <1>3, LinkSend DEF SendDirect
<1>4. CASE Flush
  <2>1. CASE m_SendMsgQueue # <<>> /\ SendItem(Head(m_SendMsgQueue))
    <3>1. Head(m_SendMsgQueue) \in Items
      BY <2>1 DEF TypeOK
    <3> QED
      BY <1>4, <2>1, <3>1, LinkSend DEF Flush
  <2>2. CASE UNCHANGED wire
    BY <1>1, <1>4, <2>2 DEF Flush, netVars
  <2> QED
    BY <1>4, <2>1, <2>2 DEF Flush
<1>5. CASE SendBegin \/ Dispatch \/ LuaLogout \/ EndLogout
  BY <1>1, <1>5 DEF SendBegin, Dispatch, LuaLogout, EndLogout, Logout, netVars
<1>6. CASE SendReconnect \/ SendQueued
  BY <1>1, <1>2, <1>6 DEF SendReconnect, SendQueued, netVars
<1>7. CASE \E a \in Addrs : SetServerIp(a)
  BY <1>1, <1>7 DEF SetServerIp, netVars
<1> QED
  BY <1>3, <1>4, <1>5, <1>6, <1>7 DEF Lua

\* Whatever the threads do, the game sees one link at a time through m_socket.
THEOREM Refinement == Spec => IsLink
<1>1. Init => L!Init
  BY DEF Init, L!Init, LinkState
<1>2. TypeOK /\ SocketIsMine /\ [Next]_vars => [L!Next]_L!lvars
  <2> SUFFICES ASSUME TypeOK, SocketIsMine, [Next]_vars
               PROVE  L!Next \/ UNCHANGED <<LinkState, m_addr, Sent>>
    BY DEF L!lvars, Sent
  <2>1. CASE UNCHANGED vars
    BY <2>1 DEF vars, netVars, mainVars, LinkState, Sent
  <2>2. CASE \E t \in Threads : NetworkThread(t)
    BY <2>2, LinkThread
  <2>3. CASE Lua \/ SendDirect \/ SendQueued \/ EndLogout \/ Dispatch \/ Flush
    BY <2>3, LinkMain
  <2> QED
    BY <2>1, <2>2, <2>3 DEF Next
<1> QED
  BY <1>1, <1>2, TypeCorrect, SocketOwned, PTL DEF Spec, IsLink, L!Spec

=============================================================================
