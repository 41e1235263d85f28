---------------------------- MODULE PomeloReq_proofs ---------------------------
(***************************************************************************)
(* Proofs about PomeloReq, for any requests and notifies: each variable    *)
(* has its type, an item is in one place and none is lost, no item         *)
(* overtakes the acknowledgement of the handshake, and a client that is    *)
(* cleaned up has answered all its calls.                                  *)
(***************************************************************************)
EXTENDS PomeloReq, Queues_proofs

USE DEF TransportStates, MainPoints

-----------------------------------------------------------------------------
(* Type correctness.                                                       *)

\* A queue of some items is one of more items.
LEMMA Wider ==
    ASSUME NEW A, NEW B, A \subseteq B, NEW queue \in Seq(A)
    PROVE  queue \in Seq(B)
  OBVIOUS

\* What is selected from a queue, with its type.
LEMMA OnlyType ==
    ASSUME NEW S, NEW Q, NEW queue \in Seq(Q)
    PROVE  Only(S, queue) \in Seq(S) /\ Only(S, queue) \in Seq(Q)
<1>1. Only(S, queue) \in Seq(S \cap Q)
  BY OnlySelects
<1> QED
  BY <1>1, Wider, S \cap Q \subseteq S, S \cap Q \subseteq Q

\* The types of the queues, and of what the uv thread puts together from them.
LEMMA QueueTypes ==
    ASSUME TypeOK
    PROVE  /\ conn_pending_queue \in Seq(Items \cup Internal)
           /\ resp_pending_queue \in Seq(Items \cup Internal)
           /\ ToWrite \in Seq(Items \cup Internal)
           /\ writing_queue \o ToWrite \in Seq(Items \cup Internal)
<1>1. /\ conn_pending_queue \in Seq(Items \cup Internal)
      /\ resp_pending_queue \in Seq(Items \cup Internal)
  BY Wider, Items \subseteq Items \cup Internal, Requests \subseteq Items \cup Internal
     DEF TypeOK, Items
<1>2. ToWrite \in Seq(Items \cup Internal)
  BY <1>1 DEF ToWrite, TypeOK
<1> QED
  BY <1>1, <1>2 DEF TypeOK

\* The application thread is about to queue an item, or has none.
Sending == main = "lock" <=> sending # NoItem

TypeInv == TypeOK /\ Sending

LEMMA AppType ==
    ASSUME TypeInv, Application
    PROVE  TypeInv'
<1> USE DEF TypeInv, TypeOK, Sending, queueVars, uvVars, envVars
<1>1. ASSUME NEW i \in Items, Send(i) PROVE TypeInv'
  BY <1>1, ItemsAssumption DEF Send
<1>2. CASE Enqueue
  <2>1. sending \in Items
    BY <1>2 DEF Enqueue
  <2>2. /\ Append(conn_pending_queue, sending) \in Seq(Items)
        /\ Append(write_wait_queue, sending) \in Seq(Items \cup Internal)
    BY <2>1
  <2> QED
    BY <1>2, <2>2 DEF Enqueue
<1>3. CASE HandleEvent
  <2>1. Head(pending_ev_queue) \in Items /\ Tail(pending_ev_queue) \in Seq(Items)
    BY <1>3, InTail DEF HandleEvent
  <2> QED
    BY <1>3, <2>1 DEF HandleEvent
<1>4. CASE Wake \/ BeginPoll \/ EndPoll \/ Cleanup \/ Joined
  BY <1>4 DEF Wake, BeginPoll, EndPoll, Cleanup, Joined
<1> QED
  BY <1>1, <1>2, <1>3, <1>4 DEF Application

LEMMA CallbackType ==
    ASSUME TypeInv, Callback
    PROVE  TypeInv'
<1> USE DEF TypeInv, TypeOK, Sending, appVars, queueVars, uvVars, envVars
<1>1. todo # <<>>
  BY DEF Callback, Answer, WqHeld, Drain, Reconn, Ack, Done, Connected
<1>2. Head(todo) \in Items \cup Points /\ Tail(todo) \in Seq(Items \cup Points)
  BY <1>1, InTail
<1>3. CASE Answer
  BY <1>2, <1>3 DEF Answer, WqHeld
<1>4. CASE Drain
  <2> DEFINE all == writing_queue \o conn_pending_queue \o write_wait_queue
                      \o resp_pending_queue
  <2>1. all \in Seq(Items \cup Internal)
    BY QueueTypes
  <2>2. OnlyItems(all) \in Seq(Items)
    BY <2>1, OnlyType DEF OnlyItems
  <2>3. OnlyItems(all) \in Seq(Items \cup Points)
    BY <2>2, Wider, Items \subseteq Items \cup Points
  <2>4. OnlyItems(all) \o Tail(todo) \in Seq(Items \cup Points)
    BY <1>2, <2>3
  <2> QED
    BY <1>4, <2>4 DEF Drain
<1>5. CASE Ack
  <2>1. <<"ack">> \o write_wait_queue \in Seq(Items \cup Internal)
    BY DEF Internal
  <2> QED
    BY <1>2, <1>5, <2>1 DEF Ack
<1>6. CASE Reconn \/ Done \/ Connected
  BY <1>2, <1>6 DEF Reconn, Done, Connected
<1> QED
  BY <1>3, <1>4, <1>5, <1>6 DEF Callback

LEMMA TransportType ==
    ASSUME TypeInv, Transport
    PROVE  TypeInv'
<1> USE DEF TypeInv, TypeOK, Sending, appVars, queueVars, uvVars, envVars
<1> DEFINE Wide == Items \cup Internal
<1>0. Only(Items, writing_queue) \in Seq(Items) /\ Only(Notifies, writing_queue) \in Seq(Items)
      /\ Only(Requests, writing_queue) \in Seq(Requests)
  BY OnlyType, Wider, Notifies \subseteq Items DEF Items
<1>00. \A queue \in Seq(Items) : queue \in Seq(Items \cup Points)
  BY Wider, Items \subseteq Items \cup Points
<1>1. ASSUME NEW after \in {<<>>, <<"reconn">>, <<"exit">>}, BeginReset(after) PROVE TypeInv'
  <2>1. after \in Seq(Points) /\ <<"drain">> \in Seq(Points)
    <3>1. "drain" \in Points /\ "reconn" \in Points /\ "exit" \in Points
      BY DEF Points
    <3>2. <<>> \in Seq(Points) /\ \A p \in Points : <<p>> \in Seq(Points)
      OBVIOUS
    <3> QED
      BY <3>1, <3>2
  <2>2. <<"drain">> \o after \in Seq(Items \cup Points)
    BY <2>1, Wider, Points \subseteq Items \cup Points
  <2> QED
    BY <1>1, <2>2 DEF BeginReset
<1>2. CASE ConnDone
  <2>1. <<"handshake">> \o write_wait_queue \in Seq(Wide)
    BY DEF Internal
  <2> QED
    BY <1>2, <2>1 DEF ConnDone
<1>3. CASE HandshakeResp
  <2>1. <<"ack", "done", "connected">> \in Seq(Items \cup Points)
    BY DEF Points
  <2> QED
    BY <1>3, <2>1 DEF HandshakeResp
<1>4. CASE Heartbeat
  <2>1. Append(write_wait_queue, "heartbeat") \in Seq(Wide)
    BY DEF Internal
  <2> QED
    BY <1>4, <2>1 DEF Heartbeat
<1>55. (check_timeout \/ NeedCheck) \in BOOLEAN
  BY DEF NeedCheck
<1>5. CASE WriteAsyncIdle \/ ConnAsync
  <2>1. check_timeout' \in BOOLEAN
    BY <1>5, <1>55 DEF WriteAsyncIdle, ConnAsync
  <2> QED
    BY <1>5, <2>1 DEF WriteAsyncIdle, ConnAsync
<1>6. CASE WriteAsync
  <2>1. check_timeout' \in BOOLEAN /\ server' \subseteq Requests
    BY <1>6, <1>55 DEF WriteAsync
  <2>2. write_wait_queue' \in Seq(Wide) /\ conn_pending_queue' \in Seq(Items)
    BY <1>6 DEF WriteAsync, TakeAll
  <2> QED
    BY <1>6, <2>1, <2>2, QueueTypes DEF WriteAsync, TakeAll
<1>7. CASE WriteAsyncError
  <2>1. OnlyItems(writing_queue \o ToWrite) \in Seq(Items)
    BY QueueTypes, OnlyType DEF OnlyItems
  <2> QED
    BY <1>00, <1>7, <2>1, <<>> \in Seq(Wide), <<>> \in Seq(Items) DEF WriteAsyncError, TakeAll
<1>8. CASE WriteDone
  <2>1. todo' \in Seq(Items)
    BY <1>0, <1>8 DEF WriteDone, OnlyItems
  <2>2. resp_pending_queue \o Only(Requests, writing_queue) \in Seq(Requests)
        /\ <<>> \in Seq(Wide)
    BY <1>0
  <2> QED
    BY <1>00, <1>8, <2>1, <2>2 DEF WriteDone
<1>9. CASE CheckTimeout
  <2> DEFINE checked == conn_pending_queue \o write_wait_queue \o resp_pending_queue
  <2>1. checked \in Seq(Wide)
    BY QueueTypes
  <2> HIDE DEF checked
  <2>2. Only(expired, checked) \in Seq(Items)
    <3>1. expired \subseteq Items
      BY ItemsAssumption
    <3>2. Only(expired, checked) \in Seq(expired)
      BY <2>1, OnlyType
    <3> QED
      BY <3>1, <3>2, Wider
  <2>3. /\ NotExpired(conn_pending_queue) \in Seq(Items)
        /\ NotExpired(write_wait_queue) \in Seq(Wide)
        /\ NotExpired(resp_pending_queue) \in Seq(Requests)
    BY OnlyType DEF NotExpired
  <2>4. (\E i \in Timed \ expired : Contains(checked, i)) \in BOOLEAN
    OBVIOUS
  <2>5. {i \in expired : ~Contains(checked, i)} \subseteq Timed
        /\ {i \in Timed : Contains(writing_queue, i)} \subseteq Timed
    OBVIOUS
  <2> QED
    BY <1>00, <1>9, <2>2, <2>3, <2>4, <2>5 DEF CheckTimeout, checked
<1>10. ASSUME NEW r \in Requests, Response(r) PROVE TypeInv'
  <2>1. Only(Requests \ {r}, resp_pending_queue) \in Seq(Requests)
    BY OnlyType
  <2>2. Append(pending_ev_queue, r) \in Seq(Items)
    BY DEF Items
  <2> QED
    BY <1>10, <2>1, <2>2 DEF Response
<1> QED
  BY <1>1, <1>2, <1>3, <1>4, <1>5, <1>6, <1>7, <1>8, <1>9, <1>10, CallbackType
     DEF Transport, Reset, CleanupAsync

LEMMA InitType == ASSUME Init PROVE TypeInv
<1>1. \A S : <<>> \in Seq(S)
  OBVIOUS
<1> QED
  BY <1>1 DEF Init, TypeInv, TypeOK, Sending

LEMMA NextType ==
    ASSUME TypeInv, [Next]_vars
    PROVE  TypeInv'
<1>1. ASSUME NEW i \in Timed, Expire(i) PROVE TypeInv'
  BY <1>1 DEF Expire, TypeInv, TypeOK, Sending, appVars, queueVars, uvVars
<1>2. CASE UNCHANGED vars
  BY <1>2 DEF TypeInv, TypeOK, Sending, vars, appVars, queueVars, uvVars, envVars
<1> QED
  BY <1>1, <1>2, AppType, TransportType DEF Next

\* Every variable has its type, whatever items there are.
THEOREM TypeCorrect == Spec => []TypeOK
<1>1. Spec => []TypeInv
  BY InitType, NextType, PTL DEF Spec
<1> QED
  BY <1>1, PTL DEF TypeInv

-----------------------------------------------------------------------------
(* An item is in one place.                                                *)

\* The item is in no queue, in no callback's answers, and in no call.
Nowhere(i) ==
    /\ ~Contains(conn_pending_queue, i) /\ ~Contains(write_wait_queue, i)
    /\ ~Contains(writing_queue, i) /\ ~Contains(resp_pending_queue, i)
    /\ ~Contains(todo, i) /\ sending # i

\* It is in one of them at most, and there once.
Alone(i) ==
    /\ Once(i, conn_pending_queue) /\ Once(i, write_wait_queue) /\ Once(i, writing_queue)
    /\ Once(i, resp_pending_queue) /\ Once(i, todo)
    /\ sending = i => ~(\/ Contains(conn_pending_queue, i) \/ Contains(write_wait_queue, i)
                        \/ Contains(writing_queue, i) \/ Contains(resp_pending_queue, i)
                        \/ Contains(todo, i))
    /\ Contains(conn_pending_queue, i) =>
          ~(\/ Contains(write_wait_queue, i) \/ Contains(writing_queue, i)
            \/ Contains(resp_pending_queue, i) \/ Contains(todo, i))
    /\ Contains(write_wait_queue, i) =>
          ~(\/ Contains(writing_queue, i) \/ Contains(resp_pending_queue, i)
            \/ Contains(todo, i))
    /\ Contains(writing_queue, i) => ~(Contains(resp_pending_queue, i) \/ Contains(todo, i))
    /\ Contains(resp_pending_queue, i) => ~Contains(todo, i)

\* An item that was not sent is nowhere, one that is held is somewhere or was answered.
Found(i) ==
    /\ outcome[i] = "unused" => Nowhere(i)
    /\ outcome[i] = "held" => ~Nowhere(i) \/ Contains(pending_ev_queue, i)

OneInv == \A i \in Items : Alone(i) /\ Found(i)

LEMMA AppOne ==
    ASSUME TypeInv, OneInv, Application
    PROVE  OneInv'
<1> SUFFICES ASSUME NEW i \in Items PROVE Alone(i)' /\ Found(i)'
  BY DEF OneInv
<1> USE DEF Alone, Found, Nowhere, queueVars, uvVars, envVars
<1>0. Alone(i) /\ Found(i)
  BY DEF OneInv
<1>1. i # NoItem /\ outcome \in [Items -> {"unused", "held", "answered"}]
  BY ItemsAssumption DEF TypeInv, TypeOK
<1>2. ASSUME NEW j \in Items, Send(j) PROVE Alone(i)' /\ Found(i)'
  <2>1. sending = NoItem
    BY <1>2 DEF Send, TypeInv, Sending
  <2>2. outcome'[i] = IF i = j THEN "held" ELSE outcome[i]
    BY <1>1, <1>2 DEF Send
  <2>3. outcome[j] = "unused"
    BY <1>2 DEF Send
  <2> QED
    BY <1>0, <1>1, <1>2, <2>1, <2>2, <2>3 DEF Send
<1>3. CASE Enqueue
  <2>1. sending \in Items /\ sending' = NoItem
    BY <1>3 DEF Enqueue, TypeInv, TypeOK, Sending
  <2>2. /\ Contains(Append(conn_pending_queue, sending), i)
             <=> Contains(conn_pending_queue, i) \/ i = sending
        /\ Once(i, Append(conn_pending_queue, sending))
             <=> Once(i, conn_pending_queue) /\ ~(Contains(conn_pending_queue, i) /\ i = sending)
    BY <2>1, InAppend DEF TypeInv, TypeOK
  <2>3. /\ Contains(Append(write_wait_queue, sending), i)
             <=> Contains(write_wait_queue, i) \/ i = sending
        /\ Once(i, Append(write_wait_queue, sending))
             <=> Once(i, write_wait_queue) /\ ~(Contains(write_wait_queue, i) /\ i = sending)
    <3>1. write_wait_queue \in Seq(Items \cup Internal) /\ sending \in Items \cup Internal
      BY <2>1 DEF TypeInv, TypeOK
    <3> QED
      BY <3>1, InAppend
  <2>4. CASE tt_state = "DONE"
    BY <1>0, <1>1, <1>3, <2>1, <2>3, <2>4 DEF Enqueue
  <2>5. CASE tt_state # "DONE"
    BY <1>0, <1>1, <1>3, <2>1, <2>2, <2>5 DEF Enqueue
  <2> QED
    BY <2>4, <2>5
<1>4. CASE HandleEvent
  <2>1. /\ Head(pending_ev_queue) \in Items
        /\ Contains(pending_ev_queue, i)
             => i = Head(pending_ev_queue) \/ Contains(Tail(pending_ev_queue), i)
    BY <1>4, InTail DEF HandleEvent, TypeInv, TypeOK
  <2>2. outcome'[i] = IF i = Head(pending_ev_queue) THEN "answered" ELSE outcome[i]
    BY <1>1, <1>4, <2>1 DEF HandleEvent
  <2> QED
    BY <1>0, <1>4, <2>1, <2>2 DEF HandleEvent
<1>5. CASE Wake \/ BeginPoll \/ EndPoll \/ Cleanup \/ Joined
  BY <1>0, <1>5 DEF Wake, BeginPoll, EndPoll, Cleanup, Joined
<1> QED
  BY <1>2, <1>3, <1>4, <1>5 DEF Application

LEMMA CallbackOne ==
    ASSUME TypeInv, OneInv, Callback
    PROVE  OneInv'
<1> SUFFICES ASSUME NEW i \in Items PROVE Alone(i)' /\ Found(i)'
  BY DEF OneInv
<1> USE DEF Alone, Found, Nowhere, appVars, queueVars, uvVars, envVars
<1>0. Alone(i) /\ Found(i)
  BY DEF OneInv
<1>1. todo # <<>> /\ todo \in Seq(Items \cup Points)
  BY DEF Callback, Answer, WqHeld, Drain, Reconn, Ack, Done, Connected, TypeInv, TypeOK
<1>2. /\ Contains(todo, i) <=> i = Head(todo) \/ Contains(Tail(todo), i)
      /\ Once(i, todo) <=> Once(i, Tail(todo)) /\ ~(i = Head(todo) /\ Contains(Tail(todo), i))
      /\ Tail(todo) \in Seq(Items \cup Points)
  BY <1>1, InTail
<1>3. i \notin Points /\ i \notin Internal
  BY ItemsAssumption
<1>4. CASE Answer
  <2>1. Contains(Append(pending_ev_queue, Head(todo)), i)
          <=> Contains(pending_ev_queue, i) \/ i = Head(todo)
    BY <1>4, InAppend DEF Answer, WqHeld, TypeInv, TypeOK
  <2> QED
    BY <1>0, <1>2, <1>4, <2>1 DEF Answer
<1>5. CASE Drain
  <2> DEFINE Wide == Items \cup Internal
             one == writing_queue \o conn_pending_queue
             two == one \o write_wait_queue
             all == two \o resp_pending_queue
  <2>1. /\ writing_queue \in Seq(Wide) /\ conn_pending_queue \in Seq(Wide)
        /\ write_wait_queue \in Seq(Wide) /\ resp_pending_queue \in Seq(Wide)
    BY QueueTypes DEF TypeInv, TypeOK
  <2>2. /\ one \in Seq(Wide)
        /\ Contains(one, i) <=> Contains(writing_queue, i) \/ Contains(conn_pending_queue, i)
        /\ Once(i, one) <=> /\ Once(i, writing_queue) /\ Once(i, conn_pending_queue)
                            /\ ~(Contains(writing_queue, i) /\ Contains(conn_pending_queue, i))
    BY <2>1, InConcat
  <2> HIDE DEF one
  <2>3. /\ two \in Seq(Wide)
        /\ Contains(two, i) <=> Contains(one, i) \/ Contains(write_wait_queue, i)
        /\ Once(i, two) <=> /\ Once(i, one) /\ Once(i, write_wait_queue)
                            /\ ~(Contains(one, i) /\ Contains(write_wait_queue, i))
    BY <2>1, <2>2, InConcat
  <2> HIDE DEF two
  <2>4. /\ all \in Seq(Wide)
        /\ Contains(all, i) <=> Contains(two, i) \/ Contains(resp_pending_queue, i)
        /\ Once(i, all) <=> /\ Once(i, two) /\ Once(i, resp_pending_queue)
                            /\ ~(Contains(two, i) /\ Contains(resp_pending_queue, i))
    BY <2>1, <2>3, InConcat
  <2> HIDE DEF all
  <2>5. /\ OnlyItems(all) \in Seq(Items)
        /\ Contains(OnlyItems(all), i) <=> Contains(all, i)
        /\ Once(i, all) => Once(i, OnlyItems(all))
    BY <2>4, OnlySelects, OnlyType DEF OnlyItems
  <2>6. OnlyItems(all) \in Seq(Items \cup Points)
    BY <2>5, Wider, Items \subseteq Items \cup Points
  <2>7. /\ Contains(OnlyItems(all) \o Tail(todo), i)
             <=> Contains(OnlyItems(all), i) \/ Contains(Tail(todo), i)
        /\ Once(i, OnlyItems(all) \o Tail(todo))
             <=> /\ Once(i, OnlyItems(all)) /\ Once(i, Tail(todo))
                 /\ ~(Contains(OnlyItems(all), i) /\ Contains(Tail(todo), i))
    BY <1>2, <2>6, InConcat
  <2>8. todo' = OnlyItems(all) \o Tail(todo)
    BY <1>5 DEF Drain, all, two, one
  <2>9. "drain" # i
    BY <1>3 DEF Points
  <2> QED
    BY <1>0, <1>2, <1>5, <2>2, <2>3, <2>4, <2>5, <2>7, <2>8, <2>9, InNone DEF Drain
<1>6. CASE Ack
  <2>1. "ack" # i
    BY <1>3 DEF Points
  <2>2. <<"ack">> \in Seq(Items \cup Internal) /\ write_wait_queue \in Seq(Items \cup Internal)
    BY DEF Internal, TypeInv, TypeOK
  <2>3. /\ Contains(<<"ack">> \o write_wait_queue, i) <=> Contains(write_wait_queue, i)
        /\ Once(i, <<"ack">> \o write_wait_queue) <=> Once(i, write_wait_queue)
    BY <2>1, <2>2, InConcat, InOne
  <2> QED
    BY <1>0, <1>2, <1>6, <2>1, <2>3 DEF Ack
<1>7. CASE Reconn \/ Done \/ Connected
  <2>1. Head(todo) \in Points
    BY <1>7 DEF Reconn, Done, Connected, Points
  <2> QED
    BY <1>0, <1>2, <1>3, <1>7, <2>1 DEF Reconn, Done, Connected
<1> QED
  BY <1>4, <1>5, <1>6, <1>7 DEF Callback

LEMMA Pairs ==
    ASSUME NEW a, NEW b
    PROVE  <<a>> \o <<b>> = <<a, b>>
<1> DEFINE s == <<a>> \o <<b>>
           t == <<a, b>>
<1>1. /\ s \in Seq({a, b}) /\ Len(s) = 2 /\ s[1] = a /\ s[2] = b
      /\ t \in Seq({a, b}) /\ Len(t) = 2 /\ t[1] = a /\ t[2] = b
  OBVIOUS
<1> HIDE DEF s, t
<1>2. \A k \in 1 .. Len(s) : s[k] = t[k]
  BY <1>1
<1>3. s = t
  BY <1>1, <1>2, SeqEqual
<1> QED
  BY <1>3 DEF s, t

\* What a reset leaves to do.
LEMMA ResetTodo ==
    ASSUME NEW after \in {<<>>, <<"reconn">>, <<"exit">>}
    PROVE  <<"drain">> \o after \in {<<"drain">>, <<"drain", "reconn">>, <<"drain", "exit">>}
<1>1. <<"drain">> \o <<>> = <<"drain">>
  OBVIOUS
<1> QED
  BY <1>1, Pairs

\* The uv thread answers items, and nothing else, after a write and when the timer fires.
LEMMA AnswersType ==
    ASSUME TypeInv, WriteAsyncError \/ WriteDone \/ CheckTimeout
    PROVE  todo' \in Seq(Items)
<1> DEFINE checked == conn_pending_queue \o write_wait_queue \o resp_pending_queue
<1>1. /\ writing_queue \in Seq(Items \cup Internal) /\ checked \in Seq(Items \cup Internal)
      /\ writing_queue \o ToWrite \in Seq(Items \cup Internal)
  BY QueueTypes DEF TypeInv, TypeOK
<1> HIDE DEF checked
<1>2. \A queue \in Seq(Items \cup Internal), S \in SUBSET Items : Only(S, queue) \in Seq(Items)
  BY OnlyType, Wider
<1>3. expired \subseteq Items /\ Notifies \subseteq Items /\ Items \subseteq Items
  BY ItemsAssumption DEF TypeInv, TypeOK, Items
<1>4. CASE WriteAsyncError
  BY <1>1, <1>2, <1>3, <1>4 DEF WriteAsyncError, OnlyItems
<1>5. CASE WriteDone
  BY <1>1, <1>2, <1>3, <1>5 DEF WriteDone, OnlyItems
<1>6. CASE CheckTimeout
  BY <1>1, <1>2, <1>3, <1>6 DEF CheckTimeout, checked
<1> QED
  BY <1>4, <1>5, <1>6

LEMMA TransportOne ==
    ASSUME TypeInv, OneInv, Transport
    PROVE  OneInv'
<1> SUFFICES ASSUME NEW i \in Items, ~Callback PROVE Alone(i)' /\ Found(i)'
  BY CallbackOne DEF OneInv
<1> USE DEF Alone, Found, Nowhere, appVars, queueVars, uvVars, envVars
<1> DEFINE Wide == Items \cup Internal
<1>0. Alone(i) /\ Found(i)
  BY DEF OneInv
<1>1. /\ i \notin Points /\ i \notin Internal /\ ~Contains(<<>>, i) /\ Once(i, <<>>)
      /\ i \in Requests <=> i \notin Notifies
  BY ItemsAssumption, InNone DEF Items
<1>2. /\ writing_queue \in Seq(Wide) /\ conn_pending_queue \in Seq(Wide)
      /\ write_wait_queue \in Seq(Wide) /\ resp_pending_queue \in Seq(Wide)
      /\ ToWrite \in Seq(Wide) /\ writing_queue \o ToWrite \in Seq(Wide)
  BY QueueTypes DEF TypeInv, TypeOK
<1>3. todo = <<>>
  BY DEF Transport, Reset, CleanupAsync, BeginReset, ConnAsync, ConnDone, HandshakeResp,
         Heartbeat, WriteAsyncIdle, WriteAsync, WriteAsyncError, TakeAll, WriteDone,
         CheckTimeout, Response
<1>4. ASSUME NEW after \in {<<>>, <<"reconn">>, <<"exit">>}, BeginReset(after)
      PROVE  Alone(i)' /\ Found(i)'
  <2>1. "drain" # i /\ "reconn" # i /\ "exit" # i
    BY <1>1 DEF Points
  <2>2. todo' \in {<<"drain">>, <<"drain", "reconn">>, <<"drain", "exit">>}
    BY <1>4, ResetTodo DEF BeginReset
  <2>3. ~Contains(todo', i)
    BY <2>1, <2>2 DEF Contains
  <2>4. Once(i, todo')
    BY <2>3 DEF Contains, Once
  <2> QED
    BY <1>0, <1>1, <1>3, <1>4, <2>3, <2>4 DEF BeginReset
<1>5. CASE ConnDone
  <2>1. <<"handshake">> \in Seq(Wide) /\ "handshake" # i
    BY <1>1 DEF Internal
  <2>2. /\ Contains(<<"handshake">> \o write_wait_queue, i) <=> Contains(write_wait_queue, i)
        /\ Once(i, <<"handshake">> \o write_wait_queue) <=> Once(i, write_wait_queue)
    BY <1>2, <2>1, InConcat, InOne
  <2> QED
    BY <1>0, <1>5, <2>2 DEF ConnDone
<1>6. CASE HandshakeResp
  <2>1. "ack" # i /\ "done" # i /\ "connected" # i
    BY <1>1 DEF Points
  <2>2. todo' = <<"ack", "done", "connected">>
    BY <1>6 DEF HandshakeResp
  <2>3. ~Contains(todo', i)
    BY <2>1, <2>2 DEF Contains
  <2>4. Once(i, todo')
    BY <2>3 DEF Contains, Once
  <2> QED
    BY <1>0, <1>1, <1>3, <1>6, <2>3, <2>4 DEF HandshakeResp
<1>7. CASE Heartbeat
  <2>1. "heartbeat" \in Wide /\ "heartbeat" # i
    BY <1>1 DEF Internal
  <2>2. /\ Contains(Append(write_wait_queue, "heartbeat"), i) <=> Contains(write_wait_queue, i)
        /\ Once(i, Append(write_wait_queue, "heartbeat")) <=> Once(i, write_wait_queue)
    BY <1>2, <2>1, InAppend
  <2> QED
    BY <1>0, <1>7, <2>2 DEF Heartbeat
<1>8. CASE WriteAsyncIdle \/ ConnAsync
  BY <1>0, <1>8 DEF WriteAsyncIdle, ConnAsync
\* The items about to be written are those of one queue, or of two.
<1>9. /\ Contains(ToWrite, i) <=>
           \/ Contains(write_wait_queue, i)
           \/ tt_state = "DONE" /\ Contains(conn_pending_queue, i)
      /\ Once(i, ToWrite)
  BY <1>0, <1>2, InConcat DEF ToWrite
<1>10. /\ Contains(writing_queue \o ToWrite, i) <=>
             Contains(writing_queue, i) \/ Contains(ToWrite, i)
       /\ Once(i, writing_queue \o ToWrite)
  BY <1>0, <1>2, <1>9, InConcat
<1>11. CASE WriteAsync
  BY <1>0, <1>1, <1>9, <1>10, <1>11 DEF WriteAsync, TakeAll
<1>12. CASE WriteAsyncError
  <2>1. /\ Contains(OnlyItems(writing_queue \o ToWrite), i)
             <=> Contains(writing_queue \o ToWrite, i)
        /\ Once(i, OnlyItems(writing_queue \o ToWrite))
    BY <1>2, <1>10, OnlySelects DEF OnlyItems
  <2> QED
    BY <1>0, <1>1, <1>3, <1>9, <1>10, <1>12, <2>1 DEF WriteAsyncError, TakeAll
<1>13. CASE WriteDone
  <2>1. \A S : /\ Contains(Only(S, writing_queue), i) <=> i \in S /\ Contains(writing_queue, i)
               /\ Once(i, Only(S, writing_queue))
    BY <1>0, <1>2, OnlySelects
  <2>2. Only(Requests, writing_queue) \in Seq(Wide)
    BY <1>2, OnlyType
  <2>3. /\ Contains(resp_pending_queue \o Only(Requests, writing_queue), i) <=>
             Contains(resp_pending_queue, i) \/ Contains(Only(Requests, writing_queue), i)
        /\ Once(i, resp_pending_queue \o Only(Requests, writing_queue))
    BY <1>0, <1>2, <2>1, <2>2, InConcat
  <2>4. CASE /\ resp_pending_queue' = resp_pending_queue \o Only(Requests, writing_queue)
             /\ todo' = Only(Notifies, writing_queue)
    BY <1>0, <1>1, <1>3, <1>13, <2>1, <2>3, <2>4 DEF WriteDone
  <2>5. CASE todo' = OnlyItems(writing_queue) /\ UNCHANGED resp_pending_queue
    BY <1>0, <1>1, <1>3, <1>13, <2>1, <2>5 DEF WriteDone, OnlyItems
  <2> QED
    BY <1>13, <2>4, <2>5 DEF WriteDone
<1>14. CASE CheckTimeout
  <2> DEFINE one == conn_pending_queue \o write_wait_queue
             checked == one \o resp_pending_queue
  <2>1. /\ one \in Seq(Wide)
        /\ Contains(one, i) <=> Contains(conn_pending_queue, i) \/ Contains(write_wait_queue, i)
        /\ Once(i, one)
    BY <1>0, <1>2, InConcat
  <2> HIDE DEF one
  <2>2. /\ checked \in Seq(Wide)
        /\ Contains(checked, i) <=> Contains(one, i) \/ Contains(resp_pending_queue, i)
        /\ Once(i, checked)
    BY <1>0, <1>2, <2>1, InConcat
  <2> HIDE DEF checked
  <2>3. /\ Contains(Only(expired, checked), i) <=> i \in expired /\ Contains(checked, i)
        /\ Once(i, Only(expired, checked))
    BY <2>2, OnlySelects
  <2>4. \A queue \in Seq(Wide) :
           /\ Contains(NotExpired(queue), i) <=> i \notin expired /\ Contains(queue, i)
           /\ Once(i, queue) => Once(i, NotExpired(queue))
    <3> SUFFICES ASSUME NEW queue \in Seq(Wide)
                 PROVE  /\ Contains(NotExpired(queue), i) <=>
                              i \notin expired /\ Contains(queue, i)
                        /\ Once(i, queue) => Once(i, NotExpired(queue))
      OBVIOUS
    <3> DEFINE S == Wide \ expired
    <3>1. i \in S <=> i \notin expired
      OBVIOUS
    <3>2. NotExpired(queue) = Only(S, queue)
      BY DEF NotExpired
    <3> HIDE DEF S, Wide
    <3>3. /\ Contains(Only(S, queue), i) <=> i \in S /\ Contains(queue, i)
          /\ Once(i, queue) => Once(i, Only(S, queue))
      BY OnlySelects
    <3> QED
      BY <3>1, <3>2, <3>3
  <2>5. todo' = Only(expired, checked)
    BY <1>14 DEF CheckTimeout, checked, one
  <2> QED
    BY <1>0, <1>1, <1>2, <1>3, <1>14, <2>1, <2>2, <2>3, <2>4, <2>5 DEF CheckTimeout
<1>15. ASSUME NEW r \in Requests, Response(r) PROVE Alone(i)' /\ Found(i)'
  <2>1. /\ Contains(Only(Requests \ {r}, resp_pending_queue), i)
             <=> i \in Requests \ {r} /\ Contains(resp_pending_queue, i)
        /\ Once(i, Only(Requests \ {r}, resp_pending_queue))
    BY <1>0, <1>2, OnlySelects
  <2>2. Contains(resp_pending_queue, i) => i \in Requests
    BY DEF Contains, TypeInv, TypeOK
  <2>3. Contains(Append(pending_ev_queue, r), i) <=> Contains(pending_ev_queue, i) \/ i = r
    <3>1. pending_ev_queue \in Seq(Items) /\ r \in Items
      BY DEF TypeInv, TypeOK, Items
    <3> QED
      BY <3>1, InAppend
  <2> QED
    BY <1>0, <1>15, <2>1, <2>2, <2>3 DEF Response
<1> QED
  BY <1>4, <1>5, <1>6, <1>7, <1>8, <1>11, <1>12, <1>13, <1>14, <1>15
     DEF Transport, Reset, CleanupAsync

LEMMA InitOne == ASSUME Init PROVE OneInv
  BY InNone, ItemsAssumption DEF Init, OneInv, Alone, Found, Nowhere

LEMMA NextOne ==
    ASSUME TypeInv, OneInv, [Next]_vars
    PROVE  OneInv'
<1>1. ASSUME NEW i \in Timed, Expire(i) PROVE OneInv'
  BY <1>1 DEF Expire, OneInv, Alone, Found, Nowhere, appVars, queueVars, uvVars
<1>2. CASE UNCHANGED vars
  BY <1>2 DEF OneInv, Alone, Found, Nowhere, vars, appVars, queueVars, uvVars
<1> QED
  BY <1>1, <1>2, AppOne, TransportOne DEF Next

\* The places of the property are those of the invariant.
LEMMA OnePlaceFollows ==
    ASSUME TypeInv, OneInv
    PROVE  OnePlace
<1> SUFFICES ASSUME NEW i \in Items
             PROVE  LET places == InTransport \o todo \o <<sending>>
                    IN  /\ Once(i, places)
                        /\ outcome[i] = "held" =>
                              Contains(places, i) \/ Contains(pending_ev_queue, i)
  BY DEF OnePlace
<1> DEFINE Wide == Items \cup Internal
           All == Wide \cup Points \cup {NoItem}
           one == conn_pending_queue \o write_wait_queue
           two == one \o writing_queue
           three == two \o resp_pending_queue
           four == three \o todo
           five == four \o <<sending>>
<1>0. Alone(i) /\ Found(i)
  BY DEF OneInv
<1>1. /\ writing_queue \in Seq(Wide) /\ conn_pending_queue \in Seq(Wide)
      /\ write_wait_queue \in Seq(Wide) /\ resp_pending_queue \in Seq(Wide)
      /\ todo \in Seq(Items \cup Points) /\ sending \in Items \cup {NoItem}
  BY QueueTypes DEF TypeInv, TypeOK
<1>2. /\ writing_queue \in Seq(All) /\ conn_pending_queue \in Seq(All)
      /\ write_wait_queue \in Seq(All) /\ resp_pending_queue \in Seq(All)
      /\ todo \in Seq(All)
  BY <1>1, Wider, Wide \subseteq All, Items \cup Points \subseteq All
<1>3. <<sending>> \in Seq(All) /\ (Contains(<<sending>>, i) <=> i = sending)
      /\ Once(i, <<sending>>)
  BY <1>1, InOne
<1> HIDE DEF All
<1>4. /\ one \in Seq(All) /\ Once(i, one)
      /\ Contains(one, i) <=> Contains(conn_pending_queue, i) \/ Contains(write_wait_queue, i)
  BY <1>0, <1>2, InConcat DEF Alone
<1> HIDE DEF one
<1>5. /\ two \in Seq(All) /\ Once(i, two)
      /\ Contains(two, i) <=> Contains(one, i) \/ Contains(writing_queue, i)
  BY <1>0, <1>2, <1>4, InConcat DEF Alone
<1> HIDE DEF two
<1>6. /\ three \in Seq(All) /\ Once(i, three)
      /\ Contains(three, i) <=> Contains(two, i) \/ Contains(resp_pending_queue, i)
  BY <1>0, <1>2, <1>4, <1>5, InConcat DEF Alone
<1> HIDE DEF three
<1>7. /\ four \in Seq(All) /\ Once(i, four)
      /\ Contains(four, i) <=> Contains(three, i) \/ Contains(todo, i)
  BY <1>0, <1>2, <1>4, <1>5, <1>6, InConcat DEF Alone
<1> HIDE DEF four
<1>8. /\ Once(i, five)
      /\ Contains(five, i) <=> Contains(four, i) \/ i = sending
  <2>1. ~(Contains(four, i) /\ i = sending)
    BY <1>0, <1>4, <1>5, <1>6, <1>7 DEF Alone
  <2> QED
    BY <1>3, <1>7, <2>1, InConcat
<1>9. five = InTransport \o todo \o <<sending>>
  BY DEF InTransport, five, four, three, two, one
<1> QED
  BY <1>0, <1>4, <1>5, <1>6, <1>7, <1>8, <1>9 DEF Found, Nowhere

\* A write item is in one place at most, and one that is held is somewhere or answered.
THEOREM InOnePlace == Spec => []OnePlace
<1>1. Spec => [](TypeInv /\ OneInv)
  BY InitType, NextType, InitOne, NextOne, PTL DEF Spec
<1> QED
  BY <1>1, OnePlaceFollows, PTL

-----------------------------------------------------------------------------
(* The acknowledgement of the handshake is written first.                  *)

\* What the uv thread has to do before the items it answers: a reset, the two steps at
\* the end of the handshake, or none of these.
TodoShape ==
    \/ /\ todo \in {<<"drain">>, <<"drain", "reconn">>, <<"drain", "exit">>}
       /\ tt_state = "NOT_CONN"
    \/ /\ todo \in {<<"ack", "done", "connected">>, <<"done", "connected">>}
       /\ tt_state = "HANDSHAKEING"
    \/ /\ ~Contains(todo, "drain") /\ ~Contains(todo, "ack") /\ ~Contains(todo, "done")
       /\ Contains(todo, "reconn") => tt_state # "DONE"

Draining == todo # <<>> /\ Head(todo) = "drain"
Greeted == todo # <<>> /\ Head(todo) = "done"

\* Without a connection nothing is written but what the transport makes for itself, and
\* there is no acknowledgement before its time.
AckInv ==
    /\ TodoShape
    /\ \A k \in 1 .. Len(write_wait_queue) : write_wait_queue[k] = "ack" =>
          k = 1 /\ \A i \in Items : ~Contains(writing_queue, i)
    /\ tt_state # "DONE" /\ ~Draining =>
          /\ \A i \in Items : ~Contains(write_wait_queue, i) /\ ~Contains(writing_queue, i)
          /\ ~Greeted => ~Contains(write_wait_queue, "ack")

LEMMA AppAck ==
    ASSUME TypeInv, AckInv, Application
    PROVE  AckInv'
<1> USE DEF AckInv, TodoShape, Draining, Greeted, queueVars, uvVars, envVars
<1>1. CASE Enqueue /\ tt_state = "DONE"
  <2>1. sending \in Items /\ sending # "ack"
    BY <1>1, ItemsAssumption DEF Enqueue, TypeInv, TypeOK, Sending, Internal
  <2>2. write_wait_queue' = Append(write_wait_queue, sending)
    BY <1>1 DEF Enqueue
  <2>3. write_wait_queue \in Seq(Items \cup Internal)
    BY DEF TypeInv, TypeOK
  <2>4. \A k \in 1 .. Len(write_wait_queue') : write_wait_queue'[k] = "ack" =>
           k \in 1 .. Len(write_wait_queue) /\ write_wait_queue[k] = "ack"
    BY <2>1, <2>2, <2>3
  <2> QED
    BY <1>1, <2>4 DEF Enqueue
<1>2. CASE Enqueue /\ tt_state # "DONE"
  BY <1>2 DEF Enqueue
<1>3. CASE ~Enqueue
  <2>1. UNCHANGED <<write_wait_queue, writing_queue, todo, tt_state>>
    BY <1>3 DEF Application, Send, Wake, BeginPoll, HandleEvent, EndPoll, Cleanup, Joined
  <2> QED
    BY <2>1
<1> QED
  BY <1>1, <1>2, <1>3

\* The lists of what there is to do, taken apart.
LEMMA Lists ==
    /\ Tail(<<"drain">>) = <<>> /\ Tail(<<"drain", "reconn">>) = <<"reconn">>
    /\ Tail(<<"drain", "exit">>) = <<"exit">>
    /\ Tail(<<"ack", "done", "connected">>) = <<"done", "connected">>
    /\ Tail(<<"done", "connected">>) = <<"connected">>
    /\ Head(<<"drain">>) = "drain" /\ Head(<<"drain", "reconn">>) = "drain"
    /\ Head(<<"drain", "exit">>) = "drain"
    /\ Head(<<"ack", "done", "connected">>) = "ack"
    /\ Head(<<"done", "connected">>) = "done"
  OBVIOUS

\* What comes first decides which of the shapes it is.
LEMMA Shapes ==
    ASSUME TypeInv, AckInv, todo # <<>>
    PROVE  /\ Head(todo) = "drain" => /\ Tail(todo) \in {<<>>, <<"reconn">>, <<"exit">>}
                                      /\ tt_state = "NOT_CONN"
           /\ Head(todo) = "ack" => /\ Tail(todo) = <<"done", "connected">>
                                    /\ tt_state = "HANDSHAKEING"
           /\ Head(todo) = "done" => /\ Tail(todo) = <<"connected">>
                                     /\ tt_state = "HANDSHAKEING"
           /\ Head(todo) \notin {"drain", "ack", "done"} =>
                /\ ~Contains(Tail(todo), "drain") /\ ~Contains(Tail(todo), "ack")
                /\ ~Contains(Tail(todo), "done")
                /\ Contains(Tail(todo), "reconn") => tt_state # "DONE"
                /\ Head(todo) = "reconn" => tt_state # "DONE"
<1>1. \A p : Contains(todo, p) <=> p = Head(todo) \/ Contains(Tail(todo), p)
  BY InTail DEF TypeInv, TypeOK
<1>2. TodoShape
  BY DEF AckInv
<1>3. CASE todo \in {<<"drain">>, <<"drain", "reconn">>, <<"drain", "exit">>}
           /\ tt_state = "NOT_CONN"
  BY <1>3, Lists
<1>4. CASE todo \in {<<"ack", "done", "connected">>, <<"done", "connected">>}
           /\ tt_state = "HANDSHAKEING"
  BY <1>4, Lists
<1>5. CASE /\ ~Contains(todo, "drain") /\ ~Contains(todo, "ack") /\ ~Contains(todo, "done")
           /\ Contains(todo, "reconn") => tt_state # "DONE"
  BY <1>1, <1>5
<1> QED
  BY <1>2, <1>3, <1>4, <1>5 DEF TodoShape

LEMMA CallbackAck ==
    ASSUME TypeInv, AckInv, Callback
    PROVE  AckInv'
<1> USE DEF appVars, queueVars, uvVars, envVars
<1>1. todo # <<>>
  BY DEF Callback, Answer, WqHeld, Drain, Reconn, Ack, Done, Connected
<1>2. \A i \in Items : i \notin Points /\ i \notin Internal
  BY ItemsAssumption
<1>3. CASE Answer \/ Reconn \/ Connected
  <2>1. Head(todo) \notin {"drain", "ack", "done"}
    BY <1>2, <1>3 DEF Answer, WqHeld, Reconn, Connected, Points
  <2>2. /\ todo' = Tail(todo) /\ UNCHANGED <<write_wait_queue, writing_queue>>
        /\ tt_state' = tt_state \/ (tt_state' = "CONNECTING" /\ tt_state # "DONE")
    BY <1>1, <1>3, Shapes DEF Answer, Reconn, Connected
  <2>3. /\ ~Contains(todo', "drain") /\ ~Contains(todo', "ack") /\ ~Contains(todo', "done")
        /\ Contains(todo', "reconn") => tt_state' # "DONE"
    BY <1>1, <2>1, <2>2, Shapes
  <2>4. tt_state' # "DONE" => tt_state # "DONE"
    BY <2>2
  <2> QED
    BY <2>1, <2>2, <2>3, <2>4 DEF AckInv, TodoShape, Draining, Greeted
<1>4. CASE Drain
  <2> DEFINE all == writing_queue \o conn_pending_queue \o write_wait_queue
                      \o resp_pending_queue
  <2>0. all \in Seq(Items \cup Internal)
    BY QueueTypes DEF TypeInv, TypeOK
  <2> HIDE DEF all
  <2>1. OnlyItems(all) \in Seq(Items)
    BY <2>0, OnlyType DEF OnlyItems
  <2>2. OnlyItems(all) \in Seq(Items \cup Points) /\ Tail(todo) \in Seq(Items \cup Points)
    BY <1>1, <2>1, Wider, InTail, Items \subseteq Items \cup Points DEF TypeInv, TypeOK
  <2>3. \A p \in Points : ~Contains(OnlyItems(all), p)
    <3>1. \A p : Contains(OnlyItems(all), p) => p \in Items
      BY <2>1 DEF Contains
    <3> QED
      BY <1>2, <3>1
  <2>4. \A p \in Points : Contains(todo', p) => Contains(Tail(todo), p)
    <3>1. todo' = OnlyItems(all) \o Tail(todo)
      BY <1>4 DEF Drain, all
    <3>2. \A p : Contains(OnlyItems(all) \o Tail(todo), p)
                   <=> Contains(OnlyItems(all), p) \/ Contains(Tail(todo), p)
      BY <2>2, InConcat
    <3> QED
      BY <2>3, <3>1, <3>2
  <2>5. /\ ~Contains(Tail(todo), "drain") /\ ~Contains(Tail(todo), "ack")
        /\ ~Contains(Tail(todo), "done") /\ tt_state = "NOT_CONN"
    <3>1. Tail(todo) \in {<<>>, <<"reconn">>, <<"exit">>} /\ tt_state = "NOT_CONN"
      BY <1>1, <1>4, Shapes DEF Drain
    <3>2. \A p \in {"drain", "ack", "done"} :
             ~Contains(<<>>, p) /\ ~Contains(<<"reconn">>, p) /\ ~Contains(<<"exit">>, p)
      BY DEF Contains
    <3> QED
      BY <3>1, <3>2
  <2>6. ~Contains(todo', "drain") /\ ~Contains(todo', "ack") /\ ~Contains(todo', "done")
    BY <2>4, <2>5 DEF Points
  <2>7. tt_state' = "NOT_CONN" /\ write_wait_queue' = <<>> /\ writing_queue' = <<>>
    BY <1>4, <2>5 DEF Drain
  <2> QED
    BY <2>6, <2>7, InNone DEF AckInv, TodoShape
<1>5. CASE Ack
  <2>1. /\ todo' = <<"done", "connected">> /\ tt_state = "HANDSHAKEING"
        /\ Head(todo) = "ack"
    BY <1>1, <1>5, Shapes DEF Ack
  <2>2. /\ \A i \in Items : ~Contains(write_wait_queue, i) /\ ~Contains(writing_queue, i)
        /\ ~Contains(write_wait_queue, "ack")
    BY <2>1 DEF AckInv, Draining, Greeted
  <2>3. /\ write_wait_queue' = <<"ack">> \o write_wait_queue
        /\ write_wait_queue \in Seq(Items \cup Internal)
        /\ <<"ack">> \in Seq(Items \cup Internal)
    BY <1>5 DEF Ack, Internal, TypeInv, TypeOK
  <2>4. \A i \in Items : ~Contains(write_wait_queue', i)
    <3>1. \A i : Contains(<<"ack">> \o write_wait_queue, i)
                   <=> Contains(<<"ack">>, i) \/ Contains(write_wait_queue, i)
      BY <2>3, InConcat
    <3>2. \A i \in Items : ~Contains(<<"ack">>, i)
      BY <1>2, InOne DEF Internal
    <3> QED
      BY <2>2, <2>3, <3>1, <3>2
  <2>5. \A k \in 1 .. Len(write_wait_queue') : write_wait_queue'[k] = "ack" => k = 1
    <3> SUFFICES ASSUME NEW k \in 1 .. Len(write_wait_queue'), k # 1,
                        write_wait_queue'[k] = "ack"
                 PROVE  FALSE
      OBVIOUS
    <3>1. k - 1 \in 1 .. Len(write_wait_queue) /\ write_wait_queue[k - 1] = "ack"
      BY <2>3
    <3> QED
      BY <2>2, <3>1 DEF Contains
  <2>6. Greeted' /\ UNCHANGED <<writing_queue, tt_state>>
    BY <1>5, <2>1 DEF Ack, Greeted
  <2> QED
    BY <2>1, <2>2, <2>4, <2>5, <2>6 DEF AckInv, TodoShape
<1>6. CASE Done
  <2>1. todo' = <<"connected">> /\ tt_state' = "DONE"
    BY <1>1, <1>6, Shapes DEF Done
  <2>2. /\ ~Contains(todo', "drain") /\ ~Contains(todo', "ack") /\ ~Contains(todo', "done")
        /\ ~Contains(todo', "reconn")
    BY <2>1, InOne
  <2> QED
    BY <1>6, <2>1, <2>2 DEF Done, AckInv, TodoShape
<1> QED
  BY <1>3, <1>4, <1>5, <1>6 DEF Callback

LEMMA TransportAck ==
    ASSUME TypeInv, AckInv, Transport
    PROVE  AckInv'
<1> SUFFICES ASSUME ~Callback PROVE AckInv'
  BY CallbackAck
<1> USE DEF appVars, queueVars, uvVars, envVars
<1> DEFINE Wide == Items \cup Internal
           AtHead == \A k \in 1 .. Len(write_wait_queue) :
                        write_wait_queue[k] = "ack" => k = 1
           NoItems(queue) == \A i \in Items : ~Contains(queue, i)
<1>1. todo = <<>>
  BY DEF Transport, Reset, CleanupAsync, BeginReset, ConnAsync, ConnDone, HandshakeResp,
         Heartbeat, WriteAsyncIdle, WriteAsync, WriteAsyncError, TakeAll, WriteDone,
         CheckTimeout, Response
<1>2. /\ AtHead
      /\ Contains(write_wait_queue, "ack") => NoItems(writing_queue)
      /\ tt_state # "DONE" => /\ NoItems(write_wait_queue) /\ NoItems(writing_queue)
                              /\ ~Contains(write_wait_queue, "ack")
  BY <1>1 DEF AckInv, Draining, Greeted, Contains
\* It is enough to look at these.
<1>3. ASSUME TodoShape', AtHead',
             (Contains(write_wait_queue, "ack") => NoItems(writing_queue))',
             (tt_state # "DONE" /\ ~Draining =>
                /\ NoItems(write_wait_queue) /\ NoItems(writing_queue)
                /\ ~Contains(write_wait_queue, "ack"))'
      PROVE  AckInv'
  BY <1>3 DEF AckInv, Contains
<1>4. \A i \in Items : i \notin Points /\ i \notin Internal
  BY ItemsAssumption
<1>5. /\ writing_queue \in Seq(Wide) /\ conn_pending_queue \in Seq(Wide)
      /\ write_wait_queue \in Seq(Wide) /\ resp_pending_queue \in Seq(Wide)
      /\ ToWrite \in Seq(Wide) /\ writing_queue \o ToWrite \in Seq(Wide)
  BY QueueTypes DEF TypeInv, TypeOK
\* Answers alone are of the last shape.
<1>6. ASSUME todo' \in Seq(Items) PROVE TodoShape'
  <2>1. \A p : Contains(todo', p) => p \in Items
    BY <1>6 DEF Contains
  <2> QED
    BY <1>4, <2>1 DEF TodoShape, Points
<1>7. \A p : ~Contains(<<>>, p)
  BY InNone
<1>8. ASSUME NEW after \in {<<>>, <<"reconn">>, <<"exit">>}, BeginReset(after) PROVE AckInv'
  <2>1. todo' \in {<<"drain">>, <<"drain", "reconn">>, <<"drain", "exit">>}
    BY <1>8, ResetTodo DEF BeginReset
  <2>2. Draining' /\ TodoShape'
    BY <1>8, <2>1, Lists DEF BeginReset, Draining, TodoShape
  <2>3. UNCHANGED <<write_wait_queue, writing_queue>>
    BY <1>8 DEF BeginReset
  <2> QED
    BY <1>2, <1>3, <2>2, <2>3
<1>9. CASE ConnDone
  <2>1. /\ write_wait_queue' = <<"handshake">> \o write_wait_queue
        /\ tt_state # "DONE" /\ UNCHANGED <<todo, writing_queue>>
    BY <1>9 DEF ConnDone
  <2>2. \A i : Contains(write_wait_queue', i)
                  <=> Contains(<<"handshake">>, i) \/ Contains(write_wait_queue, i)
    <3>1. <<"handshake">> \in Seq(Wide)
      BY DEF Internal
    <3> QED
      BY <1>5, <2>1, <3>1, InConcat
  <2>3. NoItems(write_wait_queue)' /\ ~Contains(write_wait_queue', "ack")
    <3>1. \A i \in Items : i # "handshake"
      BY <1>4 DEF Internal
    <3> QED
      BY <1>2, <2>1, <2>2, <3>1, InOne
  <2>4. AtHead'
    BY <2>3 DEF Contains
  <2>5. TodoShape'
    BY <1>1, <1>6, <2>1
  <2> QED
    BY <1>2, <1>3, <2>1, <2>3, <2>4, <2>5
<1>10. CASE HandshakeResp
  <2>1. /\ todo' = <<"ack", "done", "connected">> /\ tt_state = "HANDSHAKEING"
        /\ UNCHANGED <<write_wait_queue, writing_queue, tt_state>>
    BY <1>10 DEF HandshakeResp
  <2>2. TodoShape'
    BY <2>1 DEF TodoShape
  <2> QED
    BY <1>2, <1>3, <2>1, <2>2
<1>11. CASE Heartbeat
  <2>1. /\ write_wait_queue' = Append(write_wait_queue, "heartbeat")
        /\ tt_state' = "DONE" /\ UNCHANGED <<todo, writing_queue>>
    BY <1>11 DEF Heartbeat
  <2>2. \A k \in 1 .. Len(write_wait_queue') : write_wait_queue'[k] = "ack" =>
           k \in 1 .. Len(write_wait_queue) /\ write_wait_queue[k] = "ack"
    BY <1>5, <2>1
  <2>3. AtHead' /\ (Contains(write_wait_queue', "ack") => Contains(write_wait_queue, "ack"))
    BY <1>2, <2>2 DEF Contains
  <2>4. TodoShape'
    BY <1>1, <1>6, <2>1
  <2> QED
    BY <1>2, <1>3, <2>1, <2>3, <2>4
<1>12. CASE WriteAsyncIdle \/ ConnAsync \/ \E r \in Requests : Response(r)
  <2>1. /\ UNCHANGED <<todo, write_wait_queue, writing_queue>>
        /\ tt_state' # "DONE" => tt_state # "DONE"
    BY <1>12 DEF WriteAsyncIdle, ConnAsync, Response
  <2>2. TodoShape'
    BY <1>1, <1>6, <2>1
  <2> QED
    BY <1>2, <1>3, <2>1, <2>2
<1>13. CASE WriteAsync
  <2>1. /\ write_wait_queue' = <<>> /\ writing_queue' = writing_queue \o ToWrite
        /\ UNCHANGED <<todo, tt_state>>
    BY <1>13 DEF WriteAsync, TakeAll
  <2>2. tt_state # "DONE" => NoItems(writing_queue)'
    BY <1>2, <1>5, <2>1, InConcat DEF ToWrite
  <2>3. TodoShape'
    BY <1>1, <1>6, <2>1
  <2> QED
    BY <1>3, <1>7, <2>1, <2>2, <2>3
<1>14. CASE WriteAsyncError
  <2>1. /\ write_wait_queue' = <<>> /\ writing_queue' = <<>>
        /\ todo' = OnlyItems(writing_queue \o ToWrite)
    BY <1>14 DEF WriteAsyncError, TakeAll
  <2>2. TodoShape'
    BY <1>5, <1>6, <2>1, OnlyType DEF OnlyItems
  <2> QED
    BY <1>3, <1>7, <2>1, <2>2
<1>15. CASE WriteDone
  <2>1. writing_queue' = <<>> /\ UNCHANGED <<write_wait_queue, tt_state>>
    BY <1>15 DEF WriteDone
  <2>2. todo' \in Seq(Items)
    <3>1. /\ Only(Items, writing_queue) \in Seq(Items)
          /\ Only(Notifies, writing_queue) \in Seq(Items)
      BY <1>5, OnlyType, Wider, Notifies \subseteq Items DEF Items
    <3> QED
      BY <1>15, <3>1 DEF WriteDone, OnlyItems
  <2>3. TodoShape'
    BY <1>6, <2>2
  <2> QED
    BY <1>2, <1>3, <1>7, <2>1, <2>3
<1>16. CASE CheckTimeout
  <2> DEFINE checked == conn_pending_queue \o write_wait_queue \o resp_pending_queue
             S == Wide \ expired
  <2>1. /\ write_wait_queue' = Only(S, write_wait_queue) /\ todo' = Only(expired, checked)
        /\ UNCHANGED <<writing_queue, tt_state>>
    BY <1>16 DEF CheckTimeout, NotExpired
  <2>2. checked \in Seq(Wide) /\ expired \subseteq Items
    BY <1>5, ItemsAssumption DEF TypeInv, TypeOK
  <2> HIDE DEF checked, S
  <2>3. todo' \in Seq(Items)
    BY <2>1, <2>2, OnlyType, Wider
  <2>4. AtHead'
    <3>1. \A k \in 1 .. Len(Only(S, write_wait_queue)) :
             Only(S, write_wait_queue)[k] = "ack" => k = 1
      BY <1>2, <1>5, OnlyKeepsHead
    <3> QED
      BY <2>1, <3>1
  <2>5. \A i : Contains(write_wait_queue', i) => Contains(write_wait_queue, i)
    BY <1>5, <2>1, OnlySelects
  <2>6. TodoShape'
    BY <1>6, <2>3
  <2> QED
    BY <1>2, <1>3, <2>1, <2>4, <2>5, <2>6
<1> QED
  BY <1>8, <1>9, <1>10, <1>11, <1>12, <1>13, <1>14, <1>15, <1>16
     DEF Transport, Reset, CleanupAsync

LEMMA InitAck == ASSUME Init PROVE AckInv
  BY InNone DEF Init, AckInv, TodoShape

LEMMA NextAck ==
    ASSUME TypeInv, AckInv, [Next]_vars
    PROVE  AckInv'
<1>1. CASE (\E i \in Timed : Expire(i)) \/ UNCHANGED vars
  <2>1. UNCHANGED <<write_wait_queue, writing_queue, todo, tt_state>>
    BY <1>1 DEF Expire, vars, queueVars, uvVars
  <2> QED
    BY <2>1 DEF AckInv, TodoShape, Draining, Greeted
<1> QED
  BY <1>1, AppAck, TransportAck DEF Next

\* Nothing of a queue is selected that has no item.
LEMMA AckFirstFollows ==
    ASSUME TypeInv, AckInv
    PROVE  AckFirst
<1> SUFFICES ASSUME \A i \in Items : ~Contains(writing_queue, i)
             PROVE  OnlyItems(writing_queue) = <<>>
  BY DEF AckFirst, AckInv, TypeInv, TypeOK
<1>1. /\ Only(Items, writing_queue) \in Seq(Items)
      /\ \A i : ~Contains(Only(Items, writing_queue), i)
  BY OnlySelects, OnlyType DEF TypeInv, TypeOK
<1>2. ASSUME NEW queue \in Seq(Items), queue # <<>> PROVE Contains(queue, queue[1])
  <2>1. 1 \in 1 .. Len(queue)
    BY <1>2
  <2> QED
    BY <2>1 DEF Contains
<1> QED
  BY <1>1, <1>2 DEF OnlyItems

\* No item overtakes the acknowledgement of the handshake, whenever it was sent.
THEOREM AcknowledgedFirst == Spec => []AckFirst
<1>1. Spec => [](TypeInv /\ AckInv)
  BY InitType, NextType, InitAck, NextAck, PTL DEF Spec
<1> QED
  BY <1>1, AckFirstFollows, PTL

-----------------------------------------------------------------------------
(* A cleanup answers everything.                                           *)

\* From the reset of a cleanup on, the transport has no item but those it answers.
EndInv ==
    /\ Contains(todo, "exit") =>
          /\ main \in {"join", "final", "cleaned"}
          /\ ~Draining => /\ conn_pending_queue = <<>> /\ write_wait_queue = <<>>
                          /\ writing_queue = <<>> /\ resp_pending_queue = <<>>
    /\ main \in {"final", "cleaned"} => todo = <<"exit">>
    /\ main = "cleaned" => pending_ev_queue = <<>>

LEMMA AppEnd ==
    ASSUME TypeInv, AckInv, EndInv, Application
    PROVE  EndInv'
<1> USE DEF EndInv, Draining, queueVars, uvVars, envVars
<1>1. CASE Joined
  <2>1. todo' = <<"exit">> /\ main' = "final" /\ main = "join" /\ todo' = todo
    BY <1>1 DEF Joined
  <2> QED
    BY <1>1, <2>1 DEF Joined
<1>2. CASE HandleEvent
  <2>1. main # "cleaned" /\ main' = main
    BY <1>2 DEF HandleEvent
  <2> QED
    BY <1>2, <2>1 DEF HandleEvent
<1>3. CASE Enqueue
  <2>1. ~Contains(todo, "exit") /\ UNCHANGED todo /\ main' = "wake"
    BY <1>3 DEF Enqueue
  <2> QED
    BY <2>1
<1>4. ASSUME NEW i \in Items, Send(i) PROVE EndInv'
  BY <1>4 DEF Send
<1>5. CASE Wake \/ BeginPoll \/ EndPoll \/ Cleanup
  BY <1>5 DEF Wake, BeginPoll, EndPoll, Cleanup
<1> QED
  BY <1>1, <1>2, <1>3, <1>4, <1>5 DEF Application

LEMMA CallbackEnd ==
    ASSUME TypeInv, AckInv, EndInv, Callback
    PROVE  EndInv'
<1> USE DEF appVars, queueVars, uvVars, envVars
<1>1. todo # <<>>
  BY DEF Callback, Answer, WqHeld, Drain, Reconn, Ack, Done, Connected
<1>2. \A p : Contains(Tail(todo), p) => Contains(todo, p)
  BY <1>1, InTail DEF TypeInv, TypeOK
<1>3. \A i \in Items : i \notin Points
  BY ItemsAssumption
\* The thread that has ended does nothing more.
<1>4. main \notin {"final", "cleaned"}
  <2>1. todo # <<"exit">>
    BY <1>3 DEF Callback, Answer, WqHeld, Drain, Reconn, Ack, Done, Connected, Points
  <2> QED
    BY <2>1 DEF EndInv
<1>5. UNCHANGED main
  BY DEF Callback, Answer, Drain, Reconn, Ack, Done, Connected
<1>6. CASE Drain
  <2> DEFINE all == writing_queue \o conn_pending_queue \o write_wait_queue
                      \o resp_pending_queue
  <2>1. all \in Seq(Items \cup Internal)
    BY QueueTypes DEF TypeInv, TypeOK
  <2> HIDE DEF all
  <2>2. OnlyItems(all) \in Seq(Items)
    BY <2>1, OnlyType DEF OnlyItems
  <2>3. OnlyItems(all) \in Seq(Items \cup Points) /\ Tail(todo) \in Seq(Items \cup Points)
    BY <1>1, <2>2, Wider, InTail, Items \subseteq Items \cup Points DEF TypeInv, TypeOK
  <2>4. todo' = OnlyItems(all) \o Tail(todo)
    BY <1>6 DEF Drain, all
  <2>5. Contains(todo', "exit") <=> Contains(OnlyItems(all), "exit") \/ Contains(Tail(todo), "exit")
    BY <2>3, <2>4, InConcat
  <2>6. ~Contains(OnlyItems(all), "exit")
    BY <1>3, <2>2 DEF Contains, Points
  <2>7. Contains(todo', "exit") => Contains(todo, "exit")
    BY <1>2, <2>5, <2>6
  <2> QED
    BY <1>4, <1>5, <1>6, <2>7 DEF Drain, EndInv
<1>7. CASE Ack
  <2>1. todo' = <<"done", "connected">>
    BY <1>1, <1>7, Shapes DEF Ack
  <2>2. ~Contains(todo', "exit")
    BY <2>1 DEF Contains
  <2> QED
    BY <1>4, <1>5, <2>2 DEF EndInv
<1>8. CASE Answer \/ Reconn \/ Done \/ Connected
  <2>1. /\ todo' = Tail(todo) /\ Head(todo) # "drain"
        /\ UNCHANGED <<conn_pending_queue, write_wait_queue, writing_queue,
                       resp_pending_queue>>
    BY <1>3, <1>8 DEF Answer, WqHeld, Reconn, Done, Connected, Points
  <2> QED
    BY <1>2, <1>4, <1>5, <2>1 DEF EndInv, Draining
<1> QED
  BY <1>6, <1>7, <1>8 DEF Callback

LEMMA TransportEnd ==
    ASSUME TypeInv, AckInv, EndInv, Transport
    PROVE  EndInv'
<1> SUFFICES ASSUME ~Callback PROVE EndInv'
  BY CallbackEnd
<1> USE DEF appVars, queueVars, uvVars, envVars
<1> DEFINE Wide == Items \cup Internal
<1>1. todo = <<>>
  BY DEF Transport, Reset, CleanupAsync, BeginReset, ConnAsync, ConnDone, HandshakeResp,
         Heartbeat, WriteAsyncIdle, WriteAsync, WriteAsyncError, TakeAll, WriteDone,
         CheckTimeout, Response
<1>2. main \notin {"final", "cleaned"}
  BY <1>1 DEF EndInv
<1>3. UNCHANGED main
  BY DEF Transport, Reset, CleanupAsync, BeginReset, ConnAsync, ConnDone, HandshakeResp,
         Heartbeat, WriteAsyncIdle, WriteAsync, WriteAsyncError, TakeAll, WriteDone,
         CheckTimeout, Response
<1>4. CASE CleanupAsync
  <2>1. main = "join" /\ todo' \in {<<"drain">>, <<"drain", "reconn">>, <<"drain", "exit">>}
    BY <1>4, ResetTodo DEF CleanupAsync, BeginReset
  <2>2. Draining'
    BY <2>1, Lists DEF Draining
  <2> QED
    BY <1>3, <2>1, <2>2 DEF EndInv
<1>5. CASE ~CleanupAsync
  <2> SUFFICES ~Contains(todo', "exit")
    BY <1>2, <1>3 DEF EndInv
  <2>1. CASE Reset
    <3>1. todo' = <<"drain">> \/ todo' = <<"drain", "reconn">>
      <4>1. <<"drain">> \o <<>> = <<"drain">>
        OBVIOUS
      <4>2. <<"drain">> \o <<"reconn">> = <<"drain", "reconn">>
        BY Pairs
      <4> QED
        BY <2>1, <4>1, <4>2 DEF Reset, BeginReset
    <3> QED
      BY <3>1 DEF Contains
  <2>2. CASE HandshakeResp
    <3>1. todo' = <<"ack", "done", "connected">>
      BY <2>2 DEF HandshakeResp
    <3> QED
      BY <3>1 DEF Contains
  <2>3. CASE todo' \in Seq(Items)
    BY <2>3, ItemsAssumption DEF Contains, Points
  <2>4. CASE WriteAsyncError \/ WriteDone \/ CheckTimeout
    BY <2>3, <2>4, AnswersType
  <2>5. CASE UNCHANGED todo
    BY <1>1, <2>5, InNone
  <2> QED
    BY <1>5, <2>1, <2>2, <2>4, <2>5
       DEF Transport, ConnAsync, ConnDone, Heartbeat, WriteAsyncIdle, WriteAsync, Response
<1> QED
  BY <1>4, <1>5

LEMMA InitEnd == ASSUME Init PROVE EndInv
  BY InNone DEF Init, EndInv

LEMMA NextEnd ==
    ASSUME TypeInv, AckInv, EndInv, [Next]_vars
    PROVE  EndInv'
<1>1. CASE (\E i \in Timed : Expire(i)) \/ UNCHANGED vars
  <2>1. UNCHANGED <<queueVars, todo, main, pending_ev_queue>>
    BY <1>1 DEF Expire, vars, appVars, uvVars
  <2> QED
    BY <2>1 DEF EndInv, Draining, queueVars
<1> QED
  BY <1>1, AppEnd, TransportEnd DEF Next

\* When a client is cleaned up, none of its calls is left without an answer: there is no
\* place left in which it could be.
THEOREM CleanupAnswersAll == Spec => []AllAcked
<1>1. Spec => [](TypeInv /\ OneInv /\ AckInv /\ EndInv)
  BY InitType, NextType, InitOne, NextOne, InitAck, NextAck, InitEnd, NextEnd, PTL DEF Spec
<1>2. ASSUME TypeInv, OneInv, EndInv PROVE AllAcked
  <2> SUFFICES ASSUME main = "cleaned", NEW i \in Items PROVE outcome[i] # "held"
    BY DEF AllAcked
  <2>1. Contains(<<"exit">>, "exit") /\ todo = <<"exit">> /\ ~Draining /\ pending_ev_queue = <<>>
    BY <1>2, InOne DEF EndInv, Draining
  <2>2. /\ conn_pending_queue = <<>> /\ write_wait_queue = <<>>
        /\ writing_queue = <<>> /\ resp_pending_queue = <<>>
    BY <1>2, <2>1 DEF EndInv
  <2>3. sending # i /\ i # "exit"
    BY <1>2, ItemsAssumption DEF TypeInv, Sending, Points
  <2>4. Nowhere(i) /\ ~Contains(pending_ev_queue, i)
    BY <2>1, <2>2, <2>3, InOne, InNone DEF Nowhere
  <2> QED
    BY <1>2, <2>4 DEF OneInv, Found
<1> QED
  BY <1>1, <1>2, PTL

=============================================================================
