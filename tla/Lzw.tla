--------------------------------- MODULE Lzw ---------------------------------
(***************************************************************************)
(* The compression of the game's own messages: LzwEncode on one side and   *)
(* LzwDecode on the other, code by code.  (The decoder is run when the     *)
(* message has arrived; it sees nothing but the codes, so it may as well   *)
(* take each as soon as it is put.)                                        *)
(*                                                                         *)
(* A code above CODE_EOF stands for a string of bytes, by which it is      *)
(* known: an entry of hashTab for a prefix and a byte is the string of     *)
(* both, and so is one of prefixTab and surffixTab.  The words of 32 bits  *)
(* that codes are packed into are left out, but not their widths: a code   *)
(* that is read at another width than it was put may be any.               *)
(***************************************************************************)
EXTENDS Naturals, Sequences

CONSTANTS
    CODE_CLEAR,         \* one more than the largest byte
    FIRST_BITS, MAX_BITS,
    Symbols,            \* the bytes that occur
    MaxLength           \* of a message

CODE_EOF == CODE_CLEAR + 1
CODE_BEGIN == CODE_EOF + 1

MaxCode(bits) == 2 ^ bits - 1
CODE_MAX == MaxCode(MAX_BITS)

ASSUME CodeAssumption ==
    /\ CODE_CLEAR \in Nat /\ Symbols \subseteq 0 .. CODE_CLEAR - 1
    /\ FIRST_BITS \in Nat /\ MAX_BITS \in Nat /\ FIRST_BITS <= MAX_BITS
    /\ CODE_BEGIN <= MaxCode(FIRST_BITS)
\* What the proofs use of powers of two.
ASSUME PowerAssumption ==
    \A a, b \in FIRST_BITS .. MAX_BITS :
        MaxCode(a) \in Nat /\ (a < b => MaxCode(a) + 1 < MaxCode(b))

VARIABLES
    src,                \* what the encoder has read
    enc,                \* "run", "ended", or "cleared": it cleared its table at the end
    word,               \* what its prefix stands for
    hashTab, curCodeBits,
    wire,               \* the codes that are not read yet
    dec,                \* "first", "next", "done", "failed"
    prefix,             \* what the decoder's prefix stands for
    tab, curBits,       \* its tables, its curCodeBits
    dst

encoder == <<src, enc, word, hashTab, curCodeBits>>
decoder == <<dec, prefix, tab, curBits, dst>>
lzwVars == <<encoder, wire, decoder>>

LzwInit ==
    /\ \E b \in Symbols : src = <<b>> /\ word = <<b>>
    /\ enc = "run" /\ hashTab = <<>> /\ curCodeBits = FIRST_BITS
    /\ wire = <<>>
    /\ dec = "first" /\ prefix = <<>> /\ tab = <<>> /\ curBits = FIRST_BITS
    /\ dst = <<>>

NextCode(table) == CODE_BEGIN + Len(table)

\* Mutant: a code of the new width is put one step too early.
WidenEarly(bits, code) == IF code >= MaxCode(bits) THEN bits + 1 ELSE bits

Widened(bits, code) == IF code > MaxCode(bits) THEN bits + 1 ELSE bits

-----------------------------------------------------------------------------
(* The encoder.                                                            *)

Put(code, bits) == [code |-> code, bits |-> bits]

IsCoded(s) == Len(s) = 1 \/ \E k \in DOMAIN hashTab : hashTab[k] = s

Code(s) ==
    IF Len(s) = 1 THEN s[1]
    ELSE CODE_BEGIN + (CHOOSE k \in DOMAIN hashTab : hashTab[k] = s) - 1

IsFull == NextCode(hashTab) >= CODE_MAX

\* A byte with which the prefix is a string of the table.
Found ==
    /\ enc = "run" /\ wire = <<>> /\ Len(src) < MaxLength
    /\ \E b \in Symbols :
          /\ IsCoded(Append(word, b))
          /\ src' = Append(src, b) /\ word' = Append(word, b)
    /\ UNCHANGED <<enc, hashTab, curCodeBits, wire, decoder>>

\* One with which it is not: the prefix is put, and the table is added to or, if it is
\* full, cleared.
FindFailed ==
    /\ enc = "run" /\ wire = <<>> /\ Len(src) < MaxLength
    /\ \E b \in Symbols :
          /\ ~IsCoded(Append(word, b))
          /\ src' = Append(src, b) /\ word' = <<b>>
          /\ IF IsFull
             THEN /\ wire' = <<Put(Code(word), curCodeBits), Put(CODE_CLEAR, curCodeBits)>>
                  /\ hashTab' = <<>> /\ curCodeBits' = FIRST_BITS
             ELSE /\ wire' = <<Put(Code(word), curCodeBits)>>
                  /\ hashTab' = Append(hashTab, Append(word, b))
                  /\ curCodeBits' = Widened(curCodeBits, NextCode(hashTab))
    /\ UNCHANGED <<enc, decoder>>

\* The end of the message.
End ==
    /\ enc = "run" /\ wire = <<>>
    /\ IF IsFull
       THEN /\ enc' = "cleared"
            /\ wire' = <<Put(Code(word), curCodeBits), Put(CODE_CLEAR, curCodeBits),
                         Put(CODE_EOF, FIRST_BITS)>>
       ELSE /\ enc' = "ended"
            /\ wire' = <<Put(Code(word), curCodeBits),
                         Put(CODE_EOF, Widened(curCodeBits, NextCode(hashTab)))>>
    /\ UNCHANGED <<src, word, hashTab, curCodeBits, decoder>>

-----------------------------------------------------------------------------
(* The decoder.                                                            *)

\* GET: what may be read.
Codes == IF Head(wire).bits = curBits THEN {Head(wire).code} ELSE 0 .. MaxCode(curBits)

\* The first code, and the first one after CODE_CLEAR, is taken for a byte whatever it is.
First ==
    /\ dec = "first" /\ wire # <<>> /\ wire' = Tail(wire)
    /\ \E inCode \in Codes :
          /\ prefix' = <<inCode>> /\ dst' = Append(dst, inCode % CODE_CLEAR)
    /\ dec' = "next"
    /\ UNCHANGED <<encoder, tab, curBits>>

Clear ==
    /\ dec = "next" /\ wire # <<>> /\ wire' = Tail(wire)
    /\ CODE_CLEAR \in Codes
    /\ tab' = <<>> /\ curBits' = FIRST_BITS /\ dec' = "first"
    /\ UNCHANGED <<encoder, prefix, dst>>

Eof ==
    /\ dec = "next" /\ wire # <<>> /\ wire' = Tail(wire)
    /\ CODE_EOF \in Codes
    /\ dec' = "done"
    /\ UNCHANGED <<encoder, prefix, tab, curBits, dst>>

\* The string of a code, which may be the one that is just being made: it ends like the
\* last one began.
StringOf(inCode) ==
    IF inCode < CODE_CLEAR THEN <<inCode>>
    ELSE IF inCode = NextCode(tab) THEN Append(prefix, prefix[1])
    ELSE tab[inCode - CODE_BEGIN + 1]

Decode ==
    /\ dec = "next" /\ wire # <<>> /\ wire' = Tail(wire)
    /\ \E inCode \in Codes \ {CODE_CLEAR, CODE_EOF} :
          IF inCode > NextCode(tab)
          THEN dec' = "failed" /\ UNCHANGED <<prefix, tab, curBits, dst>>
          ELSE /\ prefix' = StringOf(inCode) /\ dst' = dst \o StringOf(inCode)
               /\ tab' = Append(tab, Append(prefix, StringOf(inCode)[1]))
               /\ curBits' = Widened(curBits, NextCode(tab'))
               /\ UNCHANGED dec
    /\ UNCHANGED encoder

\* No code is left.  (The bits that fill up the last word may be taken for codes of the
\* byte 0 before; it comes to the same.)
RunOut ==
    /\ dec \in {"first", "next"} /\ wire = <<>> /\ enc # "run"
    /\ dec' = "failed"
    /\ UNCHANGED <<encoder, wire, prefix, tab, curBits, dst>>

-----------------------------------------------------------------------------

LzwNext == Found \/ FindFailed \/ End \/ First \/ Clear \/ Eof \/ Decode \/ RunOut

LzwSpec == LzwInit /\ [][LzwNext]_lzwVars

-----------------------------------------------------------------------------
(* Properties.                                                             *)

\* Every variable has its type, and no code is too wide.
LzwTypeOK ==
    /\ src \in Seq(Symbols) /\ enc \in {"run", "ended", "cleared"}
    /\ word \in Seq(Symbols) \ {<<>>}
    /\ hashTab \in Seq(Seq(Symbols)) /\ curCodeBits \in FIRST_BITS .. MAX_BITS
    /\ wire \in Seq([code : Nat, bits : FIRST_BITS .. MAX_BITS])
    /\ dec \in {"first", "next", "done", "failed"}
    /\ prefix \in Seq(Nat) /\ tab \in Seq(Seq(Nat)) /\ curBits \in FIRST_BITS .. MAX_BITS
    /\ dst \in Seq(Nat)

\* What was encoded is decoded; but a message with which the table is full at its very end
\* is lost, as the decoder takes CODE_EOF after CODE_CLEAR for a byte.
RoundTrip ==
    /\ dec = "done" => dst = src /\ enc = "ended"
    /\ dec = "failed" => enc = "cleared"

=============================================================================
