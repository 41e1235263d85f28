----------------------------- MODULE MCNetClient ------------------------------
(***************************************************************************)
(* The client's connection as NetClient models it, for TLC; the link the   *)
(* game sees is the one behind m_socket.                                   *)
(***************************************************************************)
EXTENDS NetClient, TLC

CONSTANTS t1, t2, a1, a2

MCThreads == {t1, t2}
MCAddrs == {a1, a2}

\* Used by the runs that check safety only.
Symmetry == Permutations(MCThreads) \cup Permutations(MCAddrs)

=============================================================================
