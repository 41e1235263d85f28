-------------------------------- MODULE MCWire --------------------------------
(***************************************************************************)
(* What is between calls and bytes, for TLC: the messages of pomelo        *)
(* (PomeloMsg), its packages (PkgParser), its TLS transport (TlsWrite),    *)
(* and the compression of the game's own protocol (Lzw).  They share no    *)
(* state: layer says which one a behaviour is about, the others rest.      *)
(***************************************************************************)
EXTENDS MCPomeloMsg, MCPkgParser, TlsWrite, Lzw

CONSTANTS r1, r2, n1

VARIABLE layer

\* The requests of TlsWrite are alike.
Symmetry == Permutations({r1, r2})

pkgVars == <<vars, begun_fresh>>

MsgRests ==
    /\ message = (CHOOSE m \in Messages : TRUE) /\ char_is_signed = FALSE
    /\ stage = "unsent" /\ buffer = NoBuffer /\ received = NotReceived

WireInit ==
    /\ layer \in {"messages", "packages", "tls", "compression"}
    /\ IF layer = "messages" THEN MsgInit ELSE MsgRests
    /\ MCInit /\ TlsInit /\ LzwInit

WireNext ==
    /\ \/ layer = "messages" /\ MsgNext /\ UNCHANGED <<pkgVars, tlsVars, lzwVars>>
       \/ layer = "packages" /\ MCNext /\ UNCHANGED <<msgVars, tlsVars, lzwVars>>
       \/ layer = "tls" /\ TlsNext /\ UNCHANGED <<msgVars, pkgVars, lzwVars>>
       \/ layer = "compression" /\ LzwNext /\ UNCHANGED <<msgVars, pkgVars, tlsVars>>
    /\ UNCHANGED layer

WireSpec == WireInit /\ [][WireNext]_<<msgVars, pkgVars, tlsVars, lzwVars, layer>>

\* Every variable of the four has its type.
WireTypeOK == MsgTypeOK /\ TypeOK /\ TlsTypeOK /\ LzwTypeOK

===============================================================================
