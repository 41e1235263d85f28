----------------------------- MODULE MCPomeloConn -----------------------------
(***************************************************************************)
(* PomeloConn for TLC; a .cfg cannot write the negative PC_ALWAYS_RETRY.   *)
(* calm tells the sessions apart in which the code's own assertions hold.  *)
(***************************************************************************)
EXTENDS PomeloConn

MCAlwaysRetry == PC_ALWAYS_RETRY

\* The application has only disconnected when it was connected and nothing crossed its
\* disconnect, the server has sent valid JSON, and no connection was lost during its
\* handshake.  Each of the others leads to an event that pc__trans_fire_event does not
\* expect: the answer of a cancelled connect, of a handshake_timer that outlives its
\* connection, or two answers for one.
VARIABLE calm

MCInit == Init /\ calm = TRUE

MCNext ==
    /\ Next
    /\ calm' = /\ calm /\ ~HandshakeInvalid
               /\ Disconnect => Drained /\ state = "CONNECTED"
               /\ "disconnect" \in asyncs /\ todo' # <<>> => DisconnectAsync
               /\ ~(ReadError /\ tt_state = "HANDSHAKEING")

MCSpec == MCInit /\ [][MCNext]_<<vars, calm>> /\ Fairness

\* The client and the transport agree once all events are handled, but for a disconnect
\* that is on its way; and the heartbeat belongs to an established connection, with only
\* one of its two timers running (heartbeat_timer_cb and on_heartbeat assert both).
Agreement ==
    calm =>
        /\ Drained => /\ state = "CONNECTED" => tt_state = "DONE"
                      /\ tt_state = "DONE" => \/ state = "CONNECTED"
                                              \/ "disconnect" \in asyncs
        /\ todo = <<>> /\ timers \cap {"hb", "hb_timeout"} # {} =>
              tt_state = "DONE" /\ ~({"hb", "hb_timeout"} \subseteq timers)

\* Each event is handled in a state in which the code expects it.
EventsExpected ==
    [][calm /\ HandleEvent => state \in Expected(Head(pending_ev_queue))]_vars

=============================================================================
