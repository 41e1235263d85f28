----------------------------- MODULE MCHttpClient -----------------------------
(***************************************************************************)
(* HttpClient for TLC.                                                     *)
(***************************************************************************)
EXTENDS HttpClient

CONSTANTS r1, r2

===============================================================================
