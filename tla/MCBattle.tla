------------------------------- MODULE MCBattle -------------------------------
(***************************************************************************)
(* Battle for TLC.  MCSpec is Spec with WF_vars(Update) written out, which *)
(* spares TLC the ENABLED in it: a frame may begin unless the battle has   *)
(* finished, and one that has begun goes on.                               *)
(***************************************************************************)
EXTENDS Battle

CONSTANTS f1, f2, e1

MCSpec ==
    /\ Init /\ [][Next]_vars
    /\ []<><<Update>>_vars \/ []<>(finished /\ ~updating)

=============================================================================
