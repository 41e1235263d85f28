----------------------------- MODULE MCPkgParser ------------------------------
(***************************************************************************)
(* PkgParser for TLC.  A parser that is not in its first state when a      *)
(* connection is made garbles it (Framing is violated); begun_fresh says   *)
(* that it was, and then nothing that happens on the connection can.       *)
(***************************************************************************)
EXTENDS PkgParser

VARIABLE begun_fresh

MCInit == Init /\ begun_fresh = TRUE
MCNext == Next /\ begun_fresh' = IF conn' = conn THEN begun_fresh ELSE Fresh
MCSpec == MCInit /\ [][MCNext]_<<vars, begun_fresh>>

\* The handler gets what the server sent on the connection, and gets it as soon as it has
\* been read, if the connection began with a fresh parser.
PackagesFromFresh == begun_fresh => Framing /\ NothingHeldBack

===============================================================================
