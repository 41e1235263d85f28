------------------------------ MODULE MCPomeloReq ------------------------------
(***************************************************************************)
(* PomeloReq for TLC.                                                      *)
(***************************************************************************)
EXTENDS PomeloReq

CONSTANTS r1, r2, n1, n2

=============================================================================
