----------------------------- MODULE MCResUpdate ------------------------------
(***************************************************************************)
(* ResUpdate for TLC, with what the update under way has unpacked.         *)
(***************************************************************************)
EXTENDS ResUpdate

\* One of the versions has no files, one more than one, and one asks for a restart.
MCFiles == [v \in Versions |-> IF v.mid = 0 THEN v.min ELSE VersionCount - v.min]
MCRestarts == {v \in Versions : v.mid = 0 /\ v.min = VersionCount}

VARIABLE passed         \* the versions that this update has gone through

MCInit == Init /\ passed = {}
MCNext ==
    /\ Next
    /\ passed' = CASE pc = "none" -> {}
                   [] pc = "end" -> passed \cup {Local}
                   [] OTHER -> passed
MCSpec == MCInit /\ [][MCNext]_<<vars, passed>> /\ WF_<<vars, passed>>(Thread /\ MCNext)

\* The game is told to restart when one of the versions that an update has gone through
\* asks for it.
RestartAsked ==
    [][AllLoaded => (passed \cap Restarts # {} => m_ResLoadState' = "RESTART_CLIENT")]_vars

===============================================================================
