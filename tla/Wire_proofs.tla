------------------------------ MODULE Wire_proofs ------------------------------
(***************************************************************************)
(* Proofs about what is between calls and bytes: the compression (Lzw),    *)
(* the parser of packages (PkgParser), the TLS transport (TlsWrite) for    *)
(* any numbers of requests and notifies, the heads of messages (MsgHead)   *)
(* for every id and every route, and the fields of protobuf (PbField).     *)
(***************************************************************************)
EXTENDS Lzw, MCPkgParser, TlsWrite, PbField, Queues_proofs

-----------------------------------------------------------------------------
(* The compression: what was encoded is decoded, for every message, every  *)
(* size of the table and every width.  The proof follows a code from the   *)
(* encoder to the decoder: when the decoder has taken it, its table is the *)
(* one that the encoder put the code with, which is behind the encoder's   *)
(* by one entry.                                                           *)

Bits == FIRST_BITS .. MAX_BITS
Strings == Seq(Symbols) \ {<<>>}

\* c is the code of string w with table t.
IsCode(t, w, c) ==
    \/ c \in Symbols /\ w = <<c>>
    \/ c \in Nat /\ c >= CODE_BEGIN /\ c - CODE_BEGIN + 1 \in 1 .. Len(t)
       /\ w = t[c - CODE_BEGIN + 1]

\* The decoder can take a code of width b and of a string that begins like w, when it is
\* put with table t: the string of its own last code and the first byte of w make up the
\* entry that it lacks.
Ready(t, w, b) ==
    /\ curBits = b
    /\ \/ dec = "first" /\ t = <<>> /\ tab = <<>>
       \/ /\ dec = "next" /\ prefix \in Strings /\ tab \in Seq(Strings)
          /\ t = Append(tab, Append(prefix, w[1]))

\* A table and the width of the next code that is put with it.
Table(t, b) ==
    /\ t \in Seq(Strings) /\ b \in Bits
    /\ NextCode(t) <= MaxCode(b) + 1 /\ NextCode(t) <= CODE_MAX

\* Code c of string w is about to be taken.
Pending(t, w, b, c) ==
    /\ wire # <<>> /\ Head(wire) = Put(c, b)
    /\ Table(t, b) /\ IsCode(t, w, c) /\ Ready(t, w, b)

\* The states of a message, by what is on the wire.
Reading ==
    /\ enc = "run" /\ wire = <<>>
    /\ Ready(hashTab, word, curCodeBits) /\ dst \o word = src

Coded == \E t \in Seq(Strings), w \in Strings, b \in Bits, c \in Nat :
    /\ enc = "run" /\ wire = <<Put(c, b)>> /\ Pending(t, w, b, c)
    /\ (dst \o w) \o word = src
    /\ hashTab = Append(t, Append(w, word[1])) /\ curCodeBits = Widened(b, NextCode(t))

CodedFull == \E t \in Seq(Strings), w \in Strings, b \in Bits, c \in Nat :
    /\ enc = "run" /\ wire = <<Put(c, b), Put(CODE_CLEAR, b)>> /\ Pending(t, w, b, c)
    /\ NextCode(t) >= CODE_MAX
    /\ (dst \o w) \o word = src
    /\ hashTab = <<>> /\ curCodeBits = FIRST_BITS

Clearing ==
    /\ enc = "run" /\ dec = "next" /\ wire = <<Put(CODE_CLEAR, curBits)>>
    /\ dst \o word = src
    /\ hashTab = <<>> /\ curCodeBits = FIRST_BITS

Ended == \E c \in Nat :
    /\ enc = "ended" /\ Pending(hashTab, word, curCodeBits, c)
    /\ wire = <<Put(c, curCodeBits),
                Put(CODE_EOF, Widened(curCodeBits, NextCode(hashTab)))>>
    /\ dst \o word = src

Ending == enc = "ended" /\ dec = "next" /\ wire = <<Put(CODE_EOF, curBits)>> /\ dst = src

Done == enc = "ended" /\ dec = "done" /\ wire = <<>> /\ dst = src

Cleared == \E c \in Nat :
    /\ enc = "cleared" /\ Pending(hashTab, word, curCodeBits, c)
    /\ wire = <<Put(c, curCodeBits), Put(CODE_CLEAR, curCodeBits), Put(CODE_EOF, FIRST_BITS)>>
    /\ NextCode(hashTab) >= CODE_MAX

ClearingLast ==
    /\ enc = "cleared" /\ dec = "next"
    /\ wire = <<Put(CODE_CLEAR, curBits), Put(CODE_EOF, FIRST_BITS)>>

Lost ==
    /\ enc = "cleared"
    /\ \/ dec = "first" /\ wire = <<Put(CODE_EOF, curBits)>>
       \/ dec \in {"next", "failed"} /\ wire = <<>>

Phase == \/ Reading \/ Coded \/ CodedFull \/ Clearing
         \/ Ended \/ Ending \/ Done
         \/ Cleared \/ ClearingLast \/ Lost

EncoderOK ==
    /\ src \in Seq(Symbols) /\ word \in Strings
    /\ Table(hashTab, curCodeBits)
    /\ IsCoded(word)
    /\ dst \in Seq(Nat)

LzwInv == EncoderOK /\ Phase

-----------------------------------------------------------------------------
(* Tables and widths.                                                      *)

USE CodeAssumption

LEMMA NextCodeNat ==
    ASSUME NEW t, t \in Seq(Strings)
    PROVE  NextCode(t) \in Nat /\ NextCode(t) >= CODE_BEGIN /\ NextCode(t) = CODE_BEGIN + Len(t)
BY DEF NextCode, CODE_BEGIN, CODE_EOF, Strings

LEMMA MaxCodes ==
    /\ \A b \in Bits : MaxCode(b) \in Nat
    /\ \A a, b \in Bits : a < b => MaxCode(a) + 1 < MaxCode(b)
    /\ CODE_MAX \in Nat /\ FIRST_BITS \in Bits /\ MAX_BITS \in Bits
    /\ CODE_BEGIN <= CODE_MAX
<1>1. \A b \in Bits : MaxCode(b) \in Nat
    BY PowerAssumption DEF Bits
<1>2. \A a, b \in Bits : a < b => MaxCode(a) + 1 < MaxCode(b)
    BY PowerAssumption DEF Bits
<1>3. FIRST_BITS \in Bits /\ MAX_BITS \in Bits
    BY DEF Bits
<1>4. CODE_MAX \in Nat
    BY <1>1, <1>3 DEF CODE_MAX
<1>5. CODE_BEGIN <= CODE_MAX
  <2>1. CASE FIRST_BITS = MAX_BITS
      BY <2>1 DEF CODE_MAX
  <2>2. CASE FIRST_BITS < MAX_BITS
      BY <2>2, <1>1, <1>2, <1>3 DEF CODE_MAX, CODE_BEGIN, CODE_EOF
  <2> QED
      BY <2>1, <2>2
<1> QED
    BY <1>1, <1>2, <1>3, <1>4, <1>5

\* The width grows in time, and never too far.
LEMMA WidenedFits ==
    ASSUME NEW t, NEW b, Table(t, b)
    PROVE  /\ Widened(b, NextCode(t)) \in Bits
           /\ NextCode(t) <= MaxCode(Widened(b, NextCode(t)))
           /\ NextCode(t) >= CODE_MAX => Widened(b, NextCode(t)) = b /\ NextCode(t) = CODE_MAX
<1> DEFINE n == NextCode(t)
<1>1. n \in Nat /\ n <= MaxCode(b) + 1 /\ n <= CODE_MAX /\ b \in Bits /\ MaxCode(b) \in Nat
    BY NextCodeNat, MaxCodes DEF Table
<1>2. CASE n <= MaxCode(b)
    BY <1>1, <1>2, MaxCodes DEF Widened
<1>3. CASE ~(n <= MaxCode(b))
  <2>1. b # MAX_BITS
      BY <1>1, <1>3 DEF CODE_MAX
  <2>2. b + 1 \in Bits /\ b < b + 1 /\ b < MAX_BITS
      BY <2>1, <1>1 DEF Bits
  <2>3. MaxCode(b) + 1 < MaxCode(b + 1) /\ MaxCode(b + 1) \in Nat
      BY <2>2, <1>1, MaxCodes
  <2>4. MaxCode(b) + 1 < CODE_MAX
      BY <2>2, <1>1, MaxCodes DEF CODE_MAX
  <2>5. Widened(b, n) = b + 1
      BY <1>1, <1>3 DEF Widened
  <2> QED
      BY <1>1, <1>3, <2>2, <2>3, <2>4, <2>5, MaxCodes
<1> QED
    BY <1>2, <1>3

\* The code that the encoder puts.
LEMMA CodeOfWord ==
    ASSUME EncoderOK
    PROVE  IsCode(hashTab, word, Code(word)) /\ Code(word) \in Nat
<1>1. CASE Len(word) = 1
    BY <1>1 DEF EncoderOK, IsCode, Code, Strings
<1>2. CASE Len(word) # 1
  <2>1. PICK n \in DOMAIN hashTab : hashTab[n] = word
      BY <1>2 DEF EncoderOK, IsCoded
  <2> DEFINE j == CHOOSE k \in DOMAIN hashTab : hashTab[k] = word
  <2>2. j \in DOMAIN hashTab /\ hashTab[j] = word
      BY <2>1
  <2>3. Code(word) = CODE_BEGIN + j - 1
      BY <1>2 DEF Code
  <2>4. j \in 1 .. Len(hashTab)
      BY <2>2 DEF EncoderOK, Table
  <2> HIDE DEF j
  <2> QED
      BY <2>2, <2>3, <2>4 DEF IsCode, CODE_BEGIN, CODE_EOF
<1> QED
    BY <1>1, <1>2

-----------------------------------------------------------------------------
(* The decoder takes what the encoder put.                                 *)

DecoderStep == First \/ Clear \/ Eof \/ Decode \/ RunOut

\* Whatever the decoder does with a code of width b, it reads that code.
LEMMA CodesRead ==
    ASSUME NEW c, NEW b, wire # <<>>, Head(wire) = Put(c, b), curBits = b
    PROVE  Codes = {c}
BY DEF Codes, Put

LEMMA Taking ==
    ASSUME EncoderOK,
           NEW t \in Seq(Strings), NEW w \in Strings, NEW b \in Bits, NEW c \in Nat,
           Pending(t, w, b, c), DecoderStep
    PROVE  /\ dec' = "next" /\ prefix' = w /\ tab' = t
           /\ curBits' = Widened(b, NextCode(t))
           /\ wire' = Tail(wire) /\ dst' = dst \o w /\ UNCHANGED encoder
<1>1. wire # <<>> /\ Codes = {c}
    BY CodesRead DEF Pending, Ready
<1>2. c # CODE_CLEAR /\ c # CODE_EOF
    BY DEF Pending, IsCode, CODE_BEGIN, CODE_EOF
<1>3. ~Clear /\ ~Eof /\ ~RunOut
    BY <1>1, <1>2 DEF Clear, Eof, RunOut
<1>4. CASE dec = "first"
  <2>1. t = <<>> /\ tab = <<>> /\ curBits = b /\ First
      BY <1>3, <1>4 DEF Pending, Ready, DecoderStep, Decode
  <2>2. c \in Symbols /\ w = <<c>>
      BY <2>1 DEF Pending, IsCode
  <2>3. c % CODE_CLEAR = c
      BY <2>2
  <2>4. dst' = dst \o w
    <3>1. dst' = Append(dst, c)
        BY <1>1, <2>1, <2>3 DEF First
    <3>2. dst \in Seq(Nat)
        BY DEF EncoderOK
    <3> QED
        BY <3>1, <3>2, <2>2, AppendIsConcat
  <2>5. Widened(b, NextCode(t)) = b
    <3>1. NextCode(t) = CODE_BEGIN /\ CODE_BEGIN \in Nat
        BY <2>1 DEF NextCode, CODE_BEGIN, CODE_EOF
    <3>2. MaxCode(FIRST_BITS) <= MaxCode(b)
        BY MaxCodes DEF Bits
    <3>3. CODE_BEGIN <= MaxCode(b)
        BY <3>1, <3>2, MaxCodes
    <3> QED
        BY <3>1, <3>3, MaxCodes DEF Widened
  <2> QED
      BY <1>1, <2>1, <2>2, <2>4, <2>5 DEF First
<1>5. CASE dec = "next"
  <2>1. /\ curBits = b /\ prefix \in Strings /\ tab \in Seq(Strings)
        /\ t = Append(tab, Append(prefix, w[1])) /\ Decode
      BY <1>3, <1>5 DEF Pending, Ready, DecoderStep, First
  <2>2. /\ Len(t) = Len(tab) + 1 /\ t[Len(tab) + 1] = Append(prefix, w[1])
        /\ \A k \in 1 .. Len(tab) : t[k] = tab[k]
      BY <2>1
  <2>3. NextCode(tab) = CODE_BEGIN + Len(tab) /\ NextCode(tab) \in Nat
      BY <2>1, NextCodeNat
  <2>4. c <= NextCode(tab) /\ StringOf(c) = w
    <3>1. CASE c \in Symbols /\ w = <<c>>
        BY <3>1, <2>3 DEF StringOf, CODE_BEGIN, CODE_EOF
    <3>2. CASE /\ c >= CODE_BEGIN /\ c - CODE_BEGIN + 1 \in 1 .. Len(t)
               /\ w = t[c - CODE_BEGIN + 1]
      <4>1. ~(c < CODE_CLEAR) /\ c <= NextCode(tab)
          BY <3>2, <2>2, <2>3 DEF CODE_BEGIN, CODE_EOF
      <4>2. CASE c = NextCode(tab)
        <5>1. w = Append(prefix, w[1])
            BY <3>2, <4>2, <2>2, <2>3 DEF CODE_BEGIN, CODE_EOF
        <5>2. w[1] = prefix[1]
            BY <5>1, <2>1, SMTT(60) DEF Strings
        <5> QED
            BY <4>1, <4>2, <5>1, <5>2 DEF StringOf
      <4>3. CASE c # NextCode(tab)
        <5>1. c - CODE_BEGIN + 1 \in 1 .. Len(tab)
            BY <3>2, <4>1, <4>3, <2>2, <2>3, SMTT(30) DEF CODE_BEGIN, CODE_EOF
        <5> QED
            BY <3>2, <4>1, <4>3, <5>1, <2>2 DEF StringOf
      <4> QED
          BY <4>1, <4>2, <4>3
    <3> QED
        BY <3>1, <3>2 DEF Pending, IsCode
  <2>5. /\ prefix' = w /\ dst' = dst \o w /\ tab' = t
        /\ curBits' = Widened(b, NextCode(t)) /\ dec' = "next"
    <3>1. ~(c > NextCode(tab))
        BY <2>3, <2>4
    <3> QED
        BY <1>1, <1>2, <1>5, <2>1, <2>4, <3>1 DEF Decode
  <2> QED
      BY <2>1, <2>5 DEF Decode
<1> QED
    BY <1>4, <1>5 DEF Pending, Ready

-----------------------------------------------------------------------------
(* The encoder's steps begin and end with what is on the wire.             *)

LEMMA EncoderTypes ==
    ASSUME EncoderOK
    PROVE  /\ hashTab \in Seq(Strings) /\ curCodeBits \in Bits
           /\ Len(word) >= 1 /\ word[1] \in Symbols /\ dst \in Seq(Nat)
           /\ \A s \in Strings : s \in Seq(Nat)
           /\ \A b \in Symbols : b \in Nat /\ <<b>> \in Strings /\ Append(word, b) \in Strings
           /\ CODE_CLEAR # 0
<1>1. /\ hashTab \in Seq(Strings) /\ curCodeBits \in Bits /\ dst \in Seq(Nat)
      /\ word \in Seq(Symbols) /\ word # <<>>
    BY DEF EncoderOK, Table, Strings
<1>2. Len(word) >= 1 /\ word[1] \in Symbols
    BY <1>1
<1>3. Symbols \subseteq Nat /\ CODE_CLEAR # 0
  <2>1. Symbols \subseteq Nat
      OBVIOUS
  <2>2. word[1] \in 0 .. CODE_CLEAR - 1
      BY <1>2
  <2> QED
      BY <2>1, <2>2
<1>4. \A s \in Strings : s \in Seq(Nat)
    BY <1>3, SeqMonotonic DEF Strings
<1>5. \A b \in Symbols : b \in Nat /\ <<b>> \in Strings /\ Append(word, b) \in Strings
  <2> TAKE b \in Symbols
  <2>1. <<b>> \in Seq(Symbols) /\ <<b>> # <<>>
      OBVIOUS
  <2>2. Append(word, b) \in Seq(Symbols) /\ Append(word, b) # <<>>
      BY <1>1, AppendProperties
  <2> QED
      BY <1>3, <2>1, <2>2 DEF Strings
<1> QED
    BY <1>1, <1>2, <1>3, <1>4, <1>5

LEMMA FoundStep ==
    ASSUME EncoderOK, Reading, Found
    PROVE  EncoderOK' /\ Reading'
<1>1. PICK b \in Symbols : /\ IsCoded(Append(word, b))
                           /\ src' = Append(src, b) /\ word' = Append(word, b)
    BY DEF Found
<1>2. UNCHANGED <<enc, hashTab, curCodeBits, wire, decoder>>
    BY DEF Found
<1>3. word' \in Strings /\ src' \in Seq(Symbols)
  <2>1. src \in Seq(Symbols)
      BY DEF EncoderOK
  <2>2. Append(src, b) \in Seq(Symbols) /\ Append(word, b) \in Strings
      BY <2>1, EncoderTypes, AppendProperties
  <2> QED
      BY <1>1, <2>2
<1>4. IsCoded(word)'
    BY <1>1, <1>2 DEF IsCoded
<1>5. word'[1] = word[1]
    BY <1>1, EncoderTypes DEF EncoderOK, Strings
<1>6. dst' \o word' = src'
  <2>1. dst \in Seq(Nat) /\ word \in Seq(Nat) /\ b \in Nat /\ src \in Seq(Nat)
    <3>1. Symbols \subseteq Nat /\ src \in Seq(Symbols) /\ word \in Strings
        BY EncoderTypes DEF EncoderOK
    <3> QED
        BY <3>1, EncoderTypes, SeqMonotonic
  <2>2. /\ Append(word, b) = word \o <<b>> /\ Append(src, b) = src \o <<b>>
      BY <2>1, AppendIsConcat
  <2>3. <<b>> \in Seq(Nat)
      BY <2>1
  <2>4. dst \o (word \o <<b>>) = (dst \o word) \o <<b>>
      BY <2>1, <2>3, ConcatAssociative
  <2> QED
      BY <1>1, <1>2, <2>2, <2>4 DEF Reading, decoder
<1> QED
    BY <1>2, <1>3, <1>4, <1>5, <1>6 DEF EncoderOK, Reading, Ready, decoder, Table, NextCode

LEMMA EmptyTable == Table(<<>>, FIRST_BITS)
<1>1. NextCode(<<>>) = CODE_BEGIN /\ CODE_BEGIN \in Nat
    BY DEF NextCode, CODE_BEGIN, CODE_EOF
<1> QED
    BY <1>1, MaxCodes DEF Table

LEMMA LongerTable ==
    ASSUME NEW t, NEW b, Table(t, b), NextCode(t) < CODE_MAX, NEW s \in Strings
    PROVE  Table(Append(t, s), Widened(b, NextCode(t)))
<1>1. Append(t, s) \in Seq(Strings) /\ Len(Append(t, s)) = Len(t) + 1 /\ Len(t) \in Nat
    BY DEF Table
<1>2. NextCode(Append(t, s)) = NextCode(t) + 1 /\ NextCode(t) \in Nat
    BY <1>1 DEF NextCode, CODE_BEGIN, CODE_EOF
<1>3. /\ Widened(b, NextCode(t)) \in Bits /\ MaxCode(Widened(b, NextCode(t))) \in Nat
      /\ NextCode(t) <= MaxCode(Widened(b, NextCode(t)))
    BY WidenedFits, MaxCodes
<1>4. CODE_MAX \in Nat
    BY MaxCodes
<1> HIDE DEF CODE_MAX
<1> QED
    BY <1>1, <1>2, <1>3, <1>4 DEF Table

\* The encoder puts the code of its word.
LEMMA Puts ==
    ASSUME EncoderOK, NEW t, NEW w, NEW b, NEW c,
           t = hashTab, w = word, b = curCodeBits, c = Code(word),
           Reading, UNCHANGED decoder, wire' # <<>>, Head(wire') = Put(c, b)
    PROVE  Pending(t, w, b, c)'
<1>1. Table(t, b) /\ IsCode(t, w, c) /\ Ready(t, w, b)
    BY CodeOfWord DEF EncoderOK, Reading
<1>2. (Table(t, b) /\ IsCode(t, w, c) /\ Ready(t, w, b))'
    BY <1>1 DEF Table, NextCode, IsCode, Ready, decoder
<1> QED
    BY <1>2 DEF Pending, Put

LEMMA FindFailedStep ==
    ASSUME EncoderOK, Reading, FindFailed
    PROVE  EncoderOK' /\ (Coded' \/ CodedFull')
<1>1. PICK b \in Symbols :
          /\ src' = Append(src, b) /\ word' = <<b>>
          /\ IF IsFull
             THEN /\ wire' = <<Put(Code(word), curCodeBits), Put(CODE_CLEAR, curCodeBits)>>
                  /\ hashTab' = <<>> /\ curCodeBits' = FIRST_BITS
             ELSE /\ wire' = <<Put(Code(word), curCodeBits)>>
                  /\ hashTab' = Append(hashTab, Append(word, b))
                  /\ curCodeBits' = Widened(curCodeBits, NextCode(hashTab))
    BY DEF FindFailed
<1>2. UNCHANGED <<enc, decoder>> /\ enc' = "run"
    BY DEF FindFailed
<1>3. PICK t \in Seq(Strings), w \in Strings, n \in Bits, c \in Nat :
          t = hashTab /\ w = word /\ n = curCodeBits /\ c = Code(word)
    BY CodeOfWord, EncoderTypes DEF EncoderOK
<1>4. src' \in Seq(Symbols) /\ word' \in Strings /\ dst' \in Seq(Nat) /\ word'[1] = b
    BY <1>1, <1>2, EncoderTypes DEF EncoderOK, decoder
<1>5. (dst' \o w) \o word' = src'
  <2>1. src \in Seq(Nat) /\ b \in Nat
    <3>1. Symbols \subseteq Nat /\ src \in Seq(Symbols)
        BY EncoderTypes DEF EncoderOK
    <3> QED
        BY <3>1, SeqMonotonic
  <2>2. Append(src, b) = src \o <<b>>
      BY <2>1, AppendIsConcat
  <2> QED
      BY <1>1, <1>2, <1>3, <2>2 DEF Reading, decoder
<1>6. IsCoded(word)'
    BY <1>1 DEF IsCoded
<1>7. Table(t, n) /\ NextCode(t) \in Nat
    BY <1>3, NextCodeNat DEF EncoderOK
<1>8. CASE IsFull
  <2>1. wire' = <<Put(c, n), Put(CODE_CLEAR, n)>> /\ hashTab' = <<>> /\ curCodeBits' = FIRST_BITS
      BY <1>1, <1>3, <1>8
  <2>2. Pending(t, w, n, c)'
      BY <1>2, <1>3, <2>1, Puts
  <2>3. (NextCode(t) >= CODE_MAX)'
      BY <1>3, <1>8 DEF IsFull, NextCode
  <2>4. CodedFull'
      BY <1>2, <1>5, <2>1, <2>2, <2>3 DEF CodedFull, Put
  <2>5. Table(hashTab, curCodeBits)'
      BY <2>1, EmptyTable DEF Table, NextCode
  <2> QED
      BY <1>4, <1>6, <2>4, <2>5 DEF EncoderOK
<1>9. CASE ~IsFull
  <2>1. /\ wire' = <<Put(c, n)>> /\ hashTab' = Append(t, Append(w, b))
        /\ curCodeBits' = Widened(n, NextCode(t))
      BY <1>1, <1>3, <1>9
  <2>2. Pending(t, w, n, c)'
      BY <1>2, <1>3, <2>1, Puts
  <2>3. hashTab' = Append(t, Append(w, word'[1]))
      BY <1>4, <2>1
  <2>4. Coded'
      BY <1>2, <1>5, <2>1, <2>2, <2>3 DEF Coded, Put, Widened, NextCode
  <2>5. NextCode(t) < CODE_MAX
      BY <1>3, <1>7, <1>9, MaxCodes DEF IsFull
  <2>6. Append(w, b) \in Strings
      BY <1>3, EncoderTypes
  <2>7. Table(hashTab, curCodeBits)'
      BY <1>7, <2>1, <2>5, <2>6, LongerTable DEF Table, NextCode, Widened
  <2> QED
      BY <1>4, <1>6, <2>4, <2>7 DEF EncoderOK
<1> QED
    BY <1>8, <1>9

LEMMA EndStep ==
    ASSUME EncoderOK, Reading, End
    PROVE  EncoderOK' /\ (Ended' \/ Cleared')
<1>1. UNCHANGED <<src, word, hashTab, curCodeBits, decoder>>
    BY DEF End
<1>2. EncoderOK'
    BY <1>1 DEF EncoderOK, Table, NextCode, IsCoded, decoder
<1>3. PICK t \in Seq(Strings), w \in Strings, n \in Bits, c \in Nat :
          t = hashTab /\ w = word /\ n = curCodeBits /\ c = Code(word)
    BY CodeOfWord, EncoderTypes DEF EncoderOK
<1>4. CASE IsFull
  <2>1. enc' = "cleared" /\ wire' = <<Put(c, n), Put(CODE_CLEAR, n), Put(CODE_EOF, FIRST_BITS)>>
      BY <1>3, <1>4 DEF End
  <2>2. Pending(t, w, n, c)'
      BY <1>1, <1>3, <2>1, Puts
  <2>3. NextCode(hashTab') >= CODE_MAX
      BY <1>1, <1>4 DEF IsFull
  <2>4. t = hashTab' /\ w = word' /\ n = curCodeBits'
      BY <1>1, <1>3
  <2>5. Pending(hashTab, word, curCodeBits, c)'
      BY <2>2, <2>4
  <2> QED
      BY <1>2, <2>1, <2>3, <2>4, <2>5 DEF Cleared, NextCode, Put
<1>5. CASE ~IsFull
  <2>1. enc' = "ended" /\ wire' = <<Put(c, n), Put(CODE_EOF, Widened(n, NextCode(t)))>>
      BY <1>3, <1>5 DEF End
  <2>2. Pending(t, w, n, c)'
      BY <1>1, <1>3, <2>1, Puts
  <2>3. dst' \o word' = src'
      BY <1>1 DEF Reading, decoder
  <2>4. t = hashTab' /\ w = word' /\ n = curCodeBits'
      BY <1>1, <1>3
  <2>5. Pending(hashTab, word, curCodeBits, c)'
      BY <2>2, <2>4
  <2> QED
      BY <1>2, <2>1, <2>3, <2>4, <2>5 DEF Ended, NextCode, Put, Widened
<1> QED
    BY <1>4, <1>5

-----------------------------------------------------------------------------
(* So do the decoder's.                                                    *)

\* The decoder leaves the encoder alone.
LEMMA EncoderKept ==
    ASSUME EncoderOK, UNCHANGED encoder, dst' \in Seq(Nat)
    PROVE  EncoderOK'
BY DEF EncoderOK, Table, NextCode, IsCoded, encoder

\* A string that is decoded consists of bytes.
LEMMA Decoded ==
    ASSUME EncoderOK, NEW w \in Strings
    PROVE  dst \o w \in Seq(Nat)
BY EncoderTypes, ConcatProperties

LEMMA CodedStep ==
    ASSUME EncoderOK, Coded, DecoderStep
    PROVE  EncoderOK' /\ Reading'
<1>1. PICK t \in Seq(Strings), w \in Strings, b \in Bits, c \in Nat :
          /\ enc = "run" /\ wire = <<Put(c, b)>> /\ Pending(t, w, b, c)
          /\ (dst \o w) \o word = src
          /\ hashTab = Append(t, Append(w, word[1])) /\ curCodeBits = Widened(b, NextCode(t))
    BY DEF Coded
<1>2. /\ dec' = "next" /\ prefix' = w /\ tab' = t /\ curBits' = Widened(b, NextCode(t))
      /\ wire' = Tail(wire) /\ dst' = dst \o w /\ UNCHANGED encoder
    BY <1>1, Taking
<1>3. wire' = <<>>
    BY <1>1, <1>2
<1>4. Ready(hashTab, word, curCodeBits)'
    BY <1>1, <1>2 DEF Ready, encoder
<1>5. enc' = "run" /\ dst' \o word' = src'
    BY <1>1, <1>2 DEF encoder
<1> QED
    BY <1>2, <1>3, <1>4, <1>5, EncoderKept, Decoded DEF Reading

LEMMA CodedFullStep ==
    ASSUME EncoderOK, CodedFull, DecoderStep
    PROVE  EncoderOK' /\ Clearing'
<1>1. PICK t \in Seq(Strings), w \in Strings, b \in Bits, c \in Nat :
          /\ enc = "run" /\ wire = <<Put(c, b), Put(CODE_CLEAR, b)>> /\ Pending(t, w, b, c)
          /\ NextCode(t) >= CODE_MAX
          /\ (dst \o w) \o word = src
          /\ hashTab = <<>> /\ curCodeBits = FIRST_BITS
    BY DEF CodedFull
<1>2. /\ dec' = "next" /\ curBits' = Widened(b, NextCode(t))
      /\ wire' = Tail(wire) /\ dst' = dst \o w /\ UNCHANGED encoder
    BY <1>1, Taking
<1>3. curBits' = b
    BY <1>1, <1>2, WidenedFits DEF Pending
<1>4. wire' = <<Put(CODE_CLEAR, curBits')>>
    BY <1>1, <1>2, <1>3
<1> QED
    BY <1>1, <1>2, <1>4, EncoderKept, Decoded DEF Clearing, Put, encoder

LEMMA ClearingStep ==
    ASSUME EncoderOK, Clearing, DecoderStep
    PROVE  EncoderOK' /\ Reading'
<1>1. wire # <<>> /\ Codes = {CODE_CLEAR}
    BY CodesRead DEF Clearing
<1>2. CODE_CLEAR # CODE_EOF
    BY DEF CODE_EOF
<1>3. Clear
    BY <1>1, <1>2 DEF Clearing, DecoderStep, First, Eof, Decode, RunOut
<1>4. /\ wire' = <<>> /\ tab' = <<>> /\ curBits' = FIRST_BITS /\ dec' = "first"
      /\ UNCHANGED <<encoder, dst>>
    BY <1>3 DEF Clear, Clearing
<1>5. dst' \in Seq(Nat)
    BY <1>4 DEF EncoderOK
<1> QED
    BY <1>4, <1>5, EncoderKept DEF Clearing, Reading, Ready, encoder

LEMMA EndedStep ==
    ASSUME EncoderOK, Ended, DecoderStep
    PROVE  EncoderOK' /\ Ending'
<1>1. PICK c \in Nat : /\ Pending(hashTab, word, curCodeBits, c)
                       /\ wire = <<Put(c, curCodeBits),
                                   Put(CODE_EOF, Widened(curCodeBits, NextCode(hashTab)))>>
    BY DEF Ended
<1>2. /\ dec' = "next" /\ curBits' = Widened(curCodeBits, NextCode(hashTab))
      /\ wire' = Tail(wire) /\ dst' = dst \o word /\ UNCHANGED encoder
    BY <1>1, Taking, EncoderTypes DEF EncoderOK
<1>3. wire' = <<Put(CODE_EOF, curBits')>>
    BY <1>1, <1>2
<1>4. dst' \in Seq(Nat)
    BY <1>2, Decoded DEF EncoderOK
<1> QED
    BY <1>2, <1>3, <1>4, EncoderKept DEF Ended, Ending, Put, encoder

LEMMA EndingStep ==
    ASSUME EncoderOK, Ending, DecoderStep
    PROVE  EncoderOK' /\ Done'
<1>1. wire # <<>> /\ Codes = {CODE_EOF}
    BY CodesRead DEF Ending
<1>2. CODE_CLEAR # CODE_EOF
    BY DEF CODE_EOF
<1>3. Eof
    BY <1>1, <1>2 DEF Ending, DecoderStep, First, Clear, Decode, RunOut
<1>4. wire' = <<>> /\ dec' = "done" /\ UNCHANGED <<encoder, dst>>
    BY <1>3 DEF Eof, Ending
<1>5. dst' \in Seq(Nat)
    BY <1>4 DEF EncoderOK
<1> QED
    BY <1>4, <1>5, EncoderKept DEF Ending, Done, encoder

LEMMA ClearedStep ==
    ASSUME EncoderOK, Cleared, DecoderStep
    PROVE  EncoderOK' /\ ClearingLast'
<1>1. PICK c \in Nat : /\ Pending(hashTab, word, curCodeBits, c)
                       /\ wire = <<Put(c, curCodeBits), Put(CODE_CLEAR, curCodeBits),
                                   Put(CODE_EOF, FIRST_BITS)>>
    BY DEF Cleared
<1>2. /\ dec' = "next" /\ curBits' = Widened(curCodeBits, NextCode(hashTab))
      /\ wire' = Tail(wire) /\ dst' = dst \o word /\ UNCHANGED encoder
    BY <1>1, Taking, EncoderTypes DEF EncoderOK
<1>3. curBits' = curCodeBits
    BY <1>2, WidenedFits DEF Cleared, EncoderOK
<1>4. wire' = <<Put(CODE_CLEAR, curBits'), Put(CODE_EOF, FIRST_BITS)>>
    BY <1>1, <1>2, <1>3
<1>5. dst' \in Seq(Nat)
    BY <1>2, Decoded DEF EncoderOK
<1> QED
    BY <1>2, <1>4, <1>5, EncoderKept DEF Cleared, ClearingLast, Put, encoder

LEMMA ClearingLastStep ==
    ASSUME EncoderOK, ClearingLast, DecoderStep
    PROVE  EncoderOK' /\ Lost'
<1>1. wire # <<>> /\ Codes = {CODE_CLEAR}
    BY CodesRead DEF ClearingLast
<1>2. CODE_CLEAR # CODE_EOF
    BY DEF CODE_EOF
<1>3. Clear
    BY <1>1, <1>2 DEF ClearingLast, DecoderStep, First, Eof, Decode, RunOut
<1>4. /\ wire' = <<Put(CODE_EOF, FIRST_BITS)>> /\ curBits' = FIRST_BITS /\ dec' = "first"
      /\ UNCHANGED <<encoder, dst>>
    BY <1>3 DEF Clear, ClearingLast
<1>5. dst' \in Seq(Nat)
    BY <1>4 DEF EncoderOK
<1> QED
    BY <1>4, <1>5, EncoderKept DEF ClearingLast, Lost, Put, encoder

LEMMA LostStep ==
    ASSUME EncoderOK, Lost, DecoderStep
    PROVE  EncoderOK' /\ Lost'
<1>1. CASE dec = "first" /\ wire = <<Put(CODE_EOF, curBits)>>
  <2>1. wire # <<>> /\ Codes = {CODE_EOF}
      BY <1>1, CodesRead
  <2>2. First
      BY <1>1, <2>1 DEF DecoderStep, Clear, Eof, Decode, RunOut
  <2>3. /\ wire' = <<>> /\ dec' = "next" /\ UNCHANGED encoder
        /\ dst' = Append(dst, CODE_EOF % CODE_CLEAR)
      BY <1>1, <2>1, <2>2 DEF First
  <2>4. CODE_EOF % CODE_CLEAR \in Nat
      BY EncoderTypes DEF CODE_EOF
  <2>5. dst' \in Seq(Nat)
      BY <2>3, <2>4, EncoderTypes, AppendProperties
  <2> QED
      BY <2>3, <2>5, EncoderKept DEF Lost, encoder
<1>2. CASE dec \in {"next", "failed"} /\ wire = <<>>
  <2>1. RunOut
      BY <1>2 DEF DecoderStep, First, Clear, Eof, Decode
  <2>2. wire' = <<>> /\ dec' = "failed" /\ UNCHANGED <<encoder, dst>>
      BY <1>2, <2>1 DEF RunOut
  <2>3. dst' \in Seq(Nat)
      BY <2>2 DEF EncoderOK
  <2> QED
      BY <2>2, <2>3, EncoderKept DEF Lost, encoder
<1> QED
    BY <1>1, <1>2 DEF Lost

-----------------------------------------------------------------------------
(* The invariant.                                                          *)

LEMMA InitLzw == LzwInit => LzwInv
<1> SUFFICES ASSUME LzwInit PROVE LzwInv
    OBVIOUS
<1>1. PICK b \in Symbols : src = <<b>> /\ word = <<b>>
    BY DEF LzwInit
<1>2. src \in Seq(Symbols) /\ word \in Strings /\ Len(word) = 1
    BY <1>1 DEF Strings
<1>3. <<>> \o word = src /\ <<>> \in Seq(Nat)
    BY <1>1, <1>2, ConcatEmptySeq
<1>4. EncoderOK
    BY <1>2, <1>3, EmptyTable DEF EncoderOK, IsCoded, LzwInit
<1>5. Reading
    BY <1>3 DEF Reading, Ready, LzwInit
<1> QED
    BY <1>4, <1>5 DEF LzwInv, Phase

LEMMA NextLzw == LzwInv /\ [LzwNext]_lzwVars => LzwInv'
<1> SUFFICES ASSUME LzwInv, [LzwNext]_lzwVars PROVE LzwInv'
    OBVIOUS
<1> USE DEF LzwInv, Phase
<1>1. CASE Found
  <2>1. Reading
      BY <1>1 DEF Found, Coded, CodedFull, Clearing, Ended, Ending, Done, Cleared,
                  ClearingLast, Lost
  <2> QED
      BY <1>1, <2>1, FoundStep
<1>2. CASE FindFailed
  <2>1. Reading
      BY <1>2 DEF FindFailed, Coded, CodedFull, Clearing, Ended, Ending, Done, Cleared,
                  ClearingLast, Lost
  <2> QED
      BY <1>2, <2>1, FindFailedStep
<1>3. CASE End
  <2>1. Reading
      BY <1>3 DEF End, Coded, CodedFull, Clearing, Ended, Ending, Done, Cleared,
                  ClearingLast, Lost
  <2> QED
      BY <1>3, <2>1, EndStep
<1>4. CASE DecoderStep
  <2>1. ~Reading /\ ~Done
      BY <1>4 DEF Reading, Done, DecoderStep, First, Clear, Eof, Decode, RunOut
  <2> QED
      BY <1>4, <2>1, CodedStep, CodedFullStep, ClearingStep, EndedStep, EndingStep,
         ClearedStep, ClearingLastStep, LostStep
<1>5. CASE UNCHANGED lzwVars
  <2>1. EncoderOK'
      BY <1>5 DEF lzwVars, encoder, decoder, EncoderOK, Table, NextCode, IsCoded
  <2>2. \A t, w, b, c : Pending(t, w, b, c) => Pending(t, w, b, c)'
      BY <1>5 DEF lzwVars, decoder, Pending, Table, NextCode, IsCode, Ready
  <2>3. \A c : Pending(hashTab, word, curCodeBits, c) => Pending(hashTab, word, curCodeBits, c)'
      BY <1>5 DEF lzwVars, encoder, decoder, Pending, Table, NextCode, IsCode, Ready
  <2>4. Coded => Coded'
      BY <1>5, <2>2 DEF lzwVars, encoder, decoder, Coded, NextCode, Widened
  <2>5. CodedFull => CodedFull'
      BY <1>5, <2>2 DEF lzwVars, encoder, decoder, CodedFull, NextCode
  <2>6. Ended => Ended'
      BY <1>5, <2>3 DEF lzwVars, encoder, decoder, Ended, NextCode, Widened
  <2>7. Cleared => Cleared'
      BY <1>5, <2>3 DEF lzwVars, encoder, decoder, Cleared, NextCode
  <2>8. (Reading => Reading') /\ (Clearing => Clearing')
      BY <1>5 DEF lzwVars, encoder, decoder, Reading, Ready, Clearing, Put
  <2>9. /\ Ending => Ending'
        /\ Done => Done'
        /\ ClearingLast => ClearingLast'
        /\ Lost => Lost'
      BY <1>5 DEF lzwVars, encoder, decoder, Ending, Done, ClearingLast, Lost, Put
  <2> QED
      BY <2>1, <2>4, <2>5, <2>6, <2>7, <2>8, <2>9
<1> QED
    BY <1>1, <1>2, <1>3, <1>4, <1>5 DEF LzwNext, DecoderStep

\* Whatever the message and the sizes, LzwDecode returns what LzwEncode was given, or
\* nothing, and nothing only if the table was full at the message's end.
THEOREM DecodesWhatWasEncoded == LzwSpec => []RoundTrip
<1>1. LzwInv => RoundTrip
    BY DEF LzwInv, Phase, RoundTrip, Reading, Coded, CodedFull, Clearing, Ended, Ending, Done,
           Cleared, ClearingLast, Lost, Pending, Ready
<1> QED
    BY <1>1, InitLzw, NextLzw, PTL DEF LzwSpec


HIDE CodeAssumption

-----------------------------------------------------------------------------
(* The parser hands over what the server sent, as soon as it has been      *)
(* read, if the connection began with a fresh parser; for packages of any  *)
(* sizes and reads of any lengths.  First the types.                       *)

AByte == [pkg : Packages, place : Nat \ {0}]

\* The types of the bytes on their way, and the fixed relations of the parser's variables.
PkgTypeInv ==
    /\ TypeOK
    /\ head_buf \in Seq(AByte) /\ pkg_buf \in Seq(AByte)
    /\ data \in Seq(AByte) /\ pipe \in Seq(AByte)
    /\ handled \in Seq([head : Seq(AByte), body : Seq(AByte)])
    /\ step \in {"none", state}
    /\ state = "head" => pkg_buf = <<>> /\ pkg_size = 0
    /\ \A k \in 1 .. Len(sent) : sent[k].nr = k

LEMMA Joint ==
    ASSUME NEW Q, NEW a \in Seq(Q), NEW b \in Seq(Q)
    PROVE  /\ a \o b \in Seq(Q) /\ Len(a \o b) = Len(a) + Len(b)
           /\ \A k \in 1 .. Len(a) : (a \o b)[k] = a[k]
           /\ \A k \in Len(a) + 1 .. Len(a) + Len(b) : (a \o b)[k] = b[k - Len(a)]
  OBVIOUS

LEMMA Glue ==
    ASSUME NEW Q, NEW a \in Seq(Q), NEW b \in Seq(Q), NEW n \in Nat, NEW queue \in Seq(Q),
           n \in 0 .. Len(queue), Len(a) = n, Len(b) = Len(queue) - n,
           \A k \in 1 .. n : a[k] = queue[k],
           \A k \in 1 .. Len(queue) - n : b[k] = queue[n + k]
    PROVE  a \o b = queue
<1>1. Len(a \o b) = Len(queue) /\ a \o b \in Seq(Q)
  OBVIOUS
<1>2. ASSUME NEW k \in 1 .. Len(queue) PROVE (a \o b)[k] = queue[k]
  <2>1. CASE k \in 1 .. n
    BY <2>1
  <2>2. CASE k \notin 1 .. n
    <3>1. k - n \in 1 .. Len(queue) - n /\ n + (k - n) = k
      BY <2>2
    <3>2. (a \o b)[k] = b[k - n]
      BY <2>2
    <3> QED
      BY <3>1, <3>2
  <2> QED
    BY <2>1, <2>2
<1> QED
  BY <1>1, <1>2, SeqEqual

\* A sequence, cut in two.
LEMMA Cut ==
    ASSUME NEW Q, NEW queue \in Seq(Q), NEW n \in 0 .. Len(queue)
    PROVE  /\ SubSeq(queue, 1, n) \in Seq(Q) /\ SubSeq(queue, n + 1, Len(queue)) \in Seq(Q)
           /\ Len(SubSeq(queue, 1, n)) = n
           /\ Len(SubSeq(queue, n + 1, Len(queue))) = Len(queue) - n
           /\ SubSeq(queue, 1, n) \o SubSeq(queue, n + 1, Len(queue)) = queue
<1> DEFINE a == SubSeq(queue, 1, n)
           b == SubSeq(queue, n + 1, Len(queue))
<1>1. a \in Seq(Q) /\ Len(a) = n /\ \A k \in 1 .. n : a[k] = queue[k]
  OBVIOUS
<1>2. /\ b \in Seq(Q) /\ Len(b) = Len(queue) - n
      /\ \A k \in 1 .. Len(queue) - n : b[k] = queue[n + k]
  OBVIOUS
<1>3. n \in Nat
  OBVIOUS
<1> HIDE DEF a, b
<1>4. a \o b = queue
  BY <1>1, <1>2, <1>3, Glue
<1> QED
  BY <1>1, <1>2, <1>4 DEF a, b

LEMMA Listed ==
    ASSUME NEW Q, NEW n \in Nat, NEW list \in [1 .. n -> Q]
    PROVE  list \in Seq(Q) /\ Len(list) = n
  OBVIOUS

\* How much of what there is can be taken.
LEMMA TakenSome ==
    ASSUME data \in Seq(AByte), NEW need \in Nat
    PROVE  /\ Taken(need) \in 0 .. Len(data) /\ Taken(need) <= need
           /\ Taken(need) < need => Taken(need) = Len(data)
  BY DEF Taken

\* The bytes of a package.
LEMMA BytesOf ==
    ASSUME NEW p \in Packages
    PROVE  /\ HeadOf(p) \in Seq(AByte) /\ Len(HeadOf(p)) = HeadBytes
           /\ \A k \in 1 .. HeadBytes : HeadOf(p)[k] = Byte(p, k)
           /\ BodyOf(p) \in Seq(AByte) /\ Len(BodyOf(p)) = p.size
           /\ \A k \in 1 .. p.size : BodyOf(p)[k] = Byte(p, HeadBytes + k)
           /\ Encode(p) \in Seq(AByte) /\ Len(Encode(p)) = HeadBytes + p.size
           /\ \A k \in 1 .. HeadBytes + p.size : Encode(p)[k] = Byte(p, k)
           /\ p.size \in Nat /\ p.size \in Sizes /\ HeadBytes \in Nat \ {0}
<1>1. p.size \in Nat /\ p.size \in Sizes /\ HeadBytes \in Nat \ {0}
  BY SizeAssumption DEF Packages
<1>2. ASSUME NEW first \in Nat \ {0}, NEW n \in Nat
      PROVE  /\ Bytes(p, first, first + n - 1) \in Seq(AByte)
             /\ Len(Bytes(p, first, first + n - 1)) = n
             /\ \A k \in 1 .. n : Bytes(p, first, first + n - 1)[k] = Byte(p, first + k - 1)
  <2>1. Bytes(p, first, first + n - 1) = [k \in 1 .. n |-> Byte(p, first + k - 1)]
    BY DEF Bytes
  <2>2. \A k \in 1 .. n : Byte(p, first + k - 1) \in AByte
    BY DEF Byte, AByte
  <2>3. Bytes(p, first, first + n - 1) \in [1 .. n -> AByte]
    BY <2>1, <2>2
  <2> QED
    BY <2>1, <2>3, Listed
<1>3. /\ HeadOf(p) \in Seq(AByte) /\ Len(HeadOf(p)) = HeadBytes
      /\ \A k \in 1 .. HeadBytes : HeadOf(p)[k] = Byte(p, k)
  <2>1. HeadOf(p) = Bytes(p, 1, 1 + HeadBytes - 1)
    BY <1>1 DEF HeadOf
  <2>2. \A k \in 1 .. HeadBytes : 1 + k - 1 = k
    BY <1>1
  <2>3. 1 \in Nat \ {0} /\ HeadBytes \in Nat
    BY <1>1
  <2> HIDE DEF Bytes
  <2>4. /\ HeadOf(p) \in Seq(AByte) /\ Len(HeadOf(p)) = HeadBytes
        /\ \A k \in 1 .. HeadBytes : HeadOf(p)[k] = Byte(p, 1 + k - 1)
    BY <1>2, <2>1, <2>3, ZenonT(60)
  <2> QED
    BY <2>2, <2>4
<1>4. /\ BodyOf(p) \in Seq(AByte) /\ Len(BodyOf(p)) = p.size
      /\ \A k \in 1 .. p.size : BodyOf(p)[k] = Byte(p, HeadBytes + k)
  <2>1. BodyOf(p) = Bytes(p, HeadBytes + 1, (HeadBytes + 1) + p.size - 1)
        /\ HeadBytes + 1 \in Nat \ {0}
    BY <1>1 DEF BodyOf
  <2>2. \A k \in 1 .. p.size : HeadBytes + 1 + k - 1 = HeadBytes + k
    BY <1>1
  <2>3. /\ BodyOf(p) \in Seq(AByte) /\ Len(BodyOf(p)) = p.size
        /\ \A k \in 1 .. p.size : BodyOf(p)[k] = Byte(p, HeadBytes + 1 + k - 1)
    BY <1>1, <1>2, <2>1
  <2> QED
    BY <2>2, <2>3
<1>5. /\ Encode(p) \in Seq(AByte) /\ Len(Encode(p)) = HeadBytes + p.size
      /\ \A k \in 1 .. HeadBytes + p.size :
            Encode(p)[k] = IF k <= HeadBytes THEN HeadOf(p)[k] ELSE BodyOf(p)[k - HeadBytes]
  <2> DEFINE h == HeadOf(p)
             b == BodyOf(p)
  <2>1. h \in Seq(AByte) /\ b \in Seq(AByte) /\ Len(h) = HeadBytes /\ Len(b) = p.size
    BY <1>3, <1>4
  <2> HIDE DEF h, b
  <2>2. /\ h \o b \in Seq(AByte) /\ Len(h \o b) = HeadBytes + p.size
        /\ \A k \in 1 .. HeadBytes + p.size :
              (h \o b)[k] = IF k <= HeadBytes THEN h[k] ELSE b[k - HeadBytes]
    <3>1. /\ h \o b \in Seq(AByte) /\ Len(h \o b) = Len(h) + Len(b)
          /\ \A k \in 1 .. Len(h) : (h \o b)[k] = h[k]
          /\ \A k \in Len(h) + 1 .. Len(h) + Len(b) : (h \o b)[k] = b[k - Len(h)]
      BY <2>1, Joint
    <3> HIDE DEF AByte
    <3> QED
      BY <1>1, <2>1, <3>1
  <2> QED
    BY <2>2 DEF Encode, h, b
<1>6. ASSUME NEW k \in 1 .. HeadBytes + p.size PROVE Encode(p)[k] = Byte(p, k)
  <2>1. CASE k <= HeadBytes
    BY <1>1, <1>3, <1>5, <2>1
  <2>2. CASE k > HeadBytes
    <3>1. k - HeadBytes \in 1 .. p.size /\ HeadBytes + (k - HeadBytes) = k
      BY <1>1, <2>2
    <3>2. BodyOf(p)[k - HeadBytes] = Byte(p, k)
      BY <1>4, <3>1
    <3> QED
      BY <1>1, <1>5, <2>2, <3>2
  <2> QED
    BY <1>1, <2>1, <2>2
<1> QED
  BY <1>1, <1>3, <1>4, <1>5, <1>6

LEMMA InitPkgType == ASSUME Init PROVE PkgTypeInv
<1>1. \A S : <<>> \in Seq(S)
  OBVIOUS
<1>2. 1 \in 1 .. MaxConns /\ 0 \in Sizes \cup {0} /\ 0 <= MaxRead /\ 0 <= MaxPackages
      /\ 0 <= HeadBytes /\ HeadBytes # 0
  BY SizeAssumption
<1> QED
  BY <1>1, <1>2 DEF Init, Fresh, PkgTypeInv, TypeOK

\* What is moved from the front of one sequence to the end of another.
LEMMA Moved ==
    ASSUME NEW Q, NEW buf \in Seq(Q), NEW first \in Seq(Q), NEW left \in Seq(Q),
           NEW rest \in Seq(Q), NEW all, all = first \o left
    PROVE  (buf \o first) \o (left \o rest) = buf \o (all \o rest)
<1>1. (buf \o first) \o (left \o rest) = buf \o (first \o (left \o rest))
  BY SMTT(30)
<1>2. (first \o left) \o rest = first \o (left \o rest)
  BY ConcatAssociative, SMTT(30)
<1> QED
  BY <1>1, <1>2

LEMMA Appended ==
    ASSUME NEW Q, NEW queue \in Seq(Q), NEW e \in Q
    PROVE  /\ Append(queue, e) \in Seq(Q) /\ Len(Append(queue, e)) = Len(queue) + 1
           /\ Len(queue) \in Nat
           /\ \A k \in 1 .. Len(queue) : Append(queue, e)[k] = queue[k]
           /\ Append(queue, e)[Len(queue) + 1] = e
  OBVIOUS

\* What a parsing step takes from the data, and what it leaves.
LEMMA Parsed ==
    ASSUME NEW buf \in Seq(AByte), NEW want \in Nat, Len(buf) <= want, data \in Seq(AByte)
    PROVE  LET n == Taken(want - Len(buf))
               got == buf \o SubSeq(data, 1, n)
               left == SubSeq(data, n + 1, Len(data))
           IN  /\ got \in Seq(AByte) /\ left \in Seq(AByte)
               /\ Len(got) <= want /\ Len(got) >= Len(buf) /\ Len(left) <= Len(data)
               /\ Len(got) < want => left = <<>>
               /\ \A rest \in Seq(AByte) : got \o (left \o rest) = buf \o (data \o rest)
<1> DEFINE n == Taken(want - Len(buf))
           first == SubSeq(data, 1, n)
           got == buf \o first
           left == SubSeq(data, n + 1, Len(data))
<1>1. /\ n \in 0 .. Len(data) /\ n <= want - Len(buf)
      /\ n < want - Len(buf) => n = Len(data)
  <2>1. want - Len(buf) \in Nat
    OBVIOUS
  <2> QED
    BY <2>1, TakenSome
<1> HIDE DEF n
<1>2. /\ first \in Seq(AByte) /\ left \in Seq(AByte) /\ Len(first) = n
      /\ Len(left) = Len(data) - n /\ first \o left = data
  BY <1>1, Cut
<1> HIDE DEF first, left
<1>3. got \in Seq(AByte) /\ Len(got) = Len(buf) + n
  BY <1>2, Joint
<1>4. Len(got) < want => left = <<>>
  <2>1. ASSUME Len(got) < want PROVE Len(left) = 0
    BY <1>1, <1>2, <1>3, <2>1
  <2> QED
    BY <1>2, <2>1
<1>5. ASSUME NEW rest \in Seq(AByte) PROVE got \o (left \o rest) = buf \o (data \o rest)
  <2>1. data = first \o left /\ first \in Seq(AByte) /\ left \in Seq(AByte)
    BY <1>2
  <2>2. (buf \o first) \o (left \o rest) = buf \o (data \o rest)
    <3> HIDE DEF got
    <3> QED
      BY <2>1, Moved, SMTT(30)
  <2> QED
    BY <2>2
<1>6. Len(got) <= want /\ Len(got) >= Len(buf) /\ Len(left) <= Len(data)
  BY <1>1, <1>2, <1>3
<1> QED
  BY <1>2, <1>3, <1>4, <1>5, <1>6 DEF n, first, got, left

\* What the length in a head may be.
LEMMA LengthsOf ==
    ASSUME NEW head \in Seq(AByte), head # <<>>
    PROVE  Lengths(head) \subseteq Sizes
<1>1. head[1] \in AByte
  OBVIOUS
<1> QED
  BY <1>1 DEF Lengths, AByte, Packages

LEMMA NextPkgType ==
    ASSUME PkgTypeInv, [Next]_vars
    PROVE  PkgTypeInv'
<1> USE DEF PkgTypeInv, TypeOK, server, parser
<1>1. CASE Read
  <2>1. PICK n \in 1 .. Len(pipe) : /\ n <= MaxRead /\ data' = SubSeq(pipe, 1, n)
                                    /\ pipe' = SubSeq(pipe, n + 1, Len(pipe))
    BY <1>1 DEF Read
  <2>2. /\ data' \in Seq(AByte) /\ pipe' \in Seq(AByte) /\ Len(data') = n
    <3>1. pipe \in Seq(AByte) /\ n \in 0 .. Len(pipe)
      OBVIOUS
    <3>2. SubSeq(pipe, 1, n) \in Seq(AByte) /\ SubSeq(pipe, n + 1, Len(pipe)) \in Seq(AByte)
          /\ Len(SubSeq(pipe, 1, n)) = n
      BY <3>1, Cut
    <3> QED
      BY <2>1, <3>2
  <2> QED
    BY <1>1, <2>1, <2>2 DEF Read
<1>2. CASE ParseHead
  <2> DEFINE n == Taken(HeadBytes - Len(head_buf))
             head == head_buf \o SubSeq(data, 1, n)
  <2>1. state = "head" /\ pkg_buf = <<>> /\ HeadBytes \in Nat /\ HeadBytes # 0
    BY <1>2, SizeAssumption DEF ParseHead
  <2>2. /\ head \in Seq(AByte) /\ Len(head) <= HeadBytes /\ data' \in Seq(AByte)
        /\ Len(data') <= MaxRead
        /\ Len(head) < HeadBytes => data' = <<>>
    <3>1. data' = SubSeq(data, n + 1, Len(data))
      BY <1>2 DEF ParseHead
    <3>2. /\ head \in Seq(AByte) /\ Len(head) <= HeadBytes /\ data' \in Seq(AByte)
          /\ Len(data') <= Len(data)
          /\ Len(head) < HeadBytes => data' = <<>>
      BY <2>1, <3>1, Parsed
    <3>3. MaxRead \in Nat
      BY SizeAssumption
    <3> HIDE DEF head
    <3> QED
      BY <3>2, <3>3
  <2>3. head_buf' = head /\ UNCHANGED <<conn, open, sent, pipe, handled>>
    BY <1>2 DEF ParseHead
  <2>4. CASE Len(head) < HeadBytes
    <3>1. step' = "none" /\ UNCHANGED <<state, pkg_buf, pkg_size>>
      BY <1>2, <2>4 DEF ParseHead
    <3> HIDE DEF head
    <3> QED
      BY <2>1, <2>2, <2>3, <2>4, <3>1
  <2>5. CASE ~(Len(head) < HeadBytes)
    <3>1. state' = "body" /\ pkg_buf' = <<>> /\ pkg_size' \in Lengths(head) /\ step' = "body"
      BY <1>2, <2>5 DEF ParseHead
    <3> HIDE DEF head
    <3>2. Len(head) = HeadBytes /\ head # <<>>
      BY <2>1, <2>2, <2>5
    <3>3. pkg_size' \in Sizes /\ pkg_size' \in Nat
      BY <2>2, <3>1, <3>2, LengthsOf, SizeAssumption
    <3> QED
      BY <2>2, <2>3, <3>1, <3>2, <3>3
  <2> QED
    BY <2>4, <2>5
<1>3. CASE ParseBody
  <2> DEFINE n == Taken(pkg_size - Len(pkg_buf))
             body == pkg_buf \o SubSeq(data, 1, n)
  <2>1. state = "body" /\ pkg_size \in Nat /\ HeadBytes \in Nat \ {0}
    <3>1. step = "body" /\ pkg_size \in Sizes \cup {0}
      BY <1>3 DEF ParseBody
    <3>2. state = "body"
      BY <3>1
    <3> QED
      BY <3>1, <3>2, SizeAssumption
  <2>2. /\ body \in Seq(AByte) /\ Len(body) <= pkg_size /\ data' \in Seq(AByte)
        /\ Len(data') <= MaxRead
        /\ Len(body) < pkg_size => data' = <<>>
    <3>1. data' = SubSeq(data, n + 1, Len(data))
      BY <1>3 DEF ParseBody
    <3>2. /\ body \in Seq(AByte) /\ Len(body) <= pkg_size /\ data' \in Seq(AByte)
          /\ Len(data') <= Len(data)
          /\ Len(body) < pkg_size => data' = <<>>
      BY <2>1, <3>1, Parsed
    <3>3. MaxRead \in Nat
      BY SizeAssumption
    <3> HIDE DEF body
    <3> QED
      BY <3>2, <3>3
  <2>3. /\ UNCHANGED <<conn, sent, pipe>>
        /\ step' = IF data' = <<>> THEN "none" ELSE "head"
    BY <1>3 DEF ParseBody
  <2>4. CASE Len(body) < pkg_size
    <3>1. pkg_buf' = body /\ UNCHANGED <<open, state, head_buf, pkg_size, handled>>
      BY <1>3, <2>4 DEF ParseBody
    <3> HIDE DEF body
    <3> QED
      BY <2>1, <2>2, <2>3, <2>4, <3>1
  <2>5. CASE ~(Len(body) < pkg_size)
    <3>1. /\ handled' = Append(handled, [head |-> head_buf, body |-> body])
          /\ open' \in BOOLEAN
          /\ state' = "head" /\ head_buf' = <<>> /\ pkg_buf' = <<>> /\ pkg_size' = 0
      BY <1>3, <2>5 DEF ParseBody, Resets, Reset
    <3> HIDE DEF body
    <3>2. handled' \in Seq([head : Seq(AByte), body : Seq(AByte)])
      BY <2>2, <3>1
    <3>3. <<>> \in Seq(AByte) /\ Len(<<>>) = 0
      OBVIOUS
    <3> QED
      BY <2>1, <2>2, <2>3, <3>1, <3>2, <3>3
  <2> QED
    BY <2>4, <2>5
<1>4. CASE Send
  <2>1. PICK size \in Sizes, resets \in BOOLEAN :
           LET p == [conn |-> conn, nr |-> Len(sent) + 1, size |-> size, resets |-> resets]
           IN  sent' = Append(sent, p) /\ pipe' = pipe \o Encode(p)
    BY <1>4 DEF Send
  <2> DEFINE p == [conn |-> conn, nr |-> Len(sent) + 1, size |-> size, resets |-> resets]
  <2>2. Len(sent) + 1 \in 1 .. MaxPackages /\ Len(sent) + 1 <= MaxPackages
    BY <1>4, SizeAssumption DEF Send
  <2>3. p \in Packages /\ p.nr = Len(sent) + 1
    BY <2>2 DEF Packages
  <2> HIDE DEF p
  <2>4. sent' = Append(sent, p) /\ pipe' = pipe \o Encode(p)
    BY <2>1 DEF p
  <2>5. pipe' \in Seq(AByte)
    BY <2>3, <2>4, BytesOf, Joint
  <2>6. sent' \in Seq(Packages) /\ Len(sent') = Len(sent) + 1
        /\ \A k \in 1 .. Len(sent') : sent'[k].nr = k
    <3>1. /\ sent' \in Seq(Packages) /\ Len(sent') = Len(sent) + 1 /\ Len(sent) \in Nat
          /\ \A k \in 1 .. Len(sent) : sent'[k] = sent[k]
          /\ sent'[Len(sent) + 1] = p
      <4>1. sent \in Seq(Packages)
        OBVIOUS
      <4> HIDE DEF PkgTypeInv, TypeOK
      <4> QED
        BY <2>3, <2>4, <4>1, Appended
    <3>2. ASSUME NEW k \in 1 .. Len(sent') PROVE sent'[k].nr = k
      <4>1. CASE k \in 1 .. Len(sent)
        BY <3>1, <4>1
      <4>2. CASE k = Len(sent) + 1
        BY <2>3, <3>1, <4>2
      <4> QED
        BY <3>1, <4>1, <4>2
    <3> QED
      BY <3>1, <3>2
  <2> QED
    BY <1>4, <2>2, <2>5, <2>6 DEF Send
<1>5. CASE Close
  <2>1. <<>> \in Seq(AByte) /\ Len(<<>>) = 0 /\ 0 <= HeadBytes /\ HeadBytes # 0
    BY SizeAssumption
  <2>2. /\ state' = "head" /\ head_buf' = <<>> /\ pkg_buf' = <<>> /\ pkg_size' = 0
        /\ open' = FALSE /\ step' = step /\ data' = data /\ step = "none"
        /\ UNCHANGED <<conn, sent, pipe, handled>>
    BY <1>5 DEF Close, Reset
  <2>3. /\ Len(head_buf') = 0 /\ Len(pkg_buf') = 0 /\ Len(head_buf') <= HeadBytes
        /\ Len(pkg_buf') <= pkg_size' /\ pkg_size' \in Sizes \cup {0}
        /\ Len(head_buf') # HeadBytes
    BY <2>1, <2>2
  <2> QED
    BY <2>1, <2>2, <2>3
<1>6. CASE Connect
  <2>1. /\ <<>> \in Seq(AByte) /\ <<>> \in Seq(Packages) /\ Len(<<>>) = 0
        /\ <<>> \in Seq([head : Seq(AByte), body : Seq(AByte)])
    OBVIOUS
  <2>2. conn + 1 \in 1 .. MaxConns /\ 0 <= MaxPackages
    BY <1>6, SizeAssumption DEF Connect
  <2> QED
    BY <1>6, <2>1, <2>2 DEF Connect
<1>7. CASE UNCHANGED vars
  BY <1>7 DEF vars
<1> QED
  BY <1>1, <1>2, <1>3, <1>4, <1>5, <1>6, <1>7 DEF Next

\* Every variable of the package parser has its type, for packages of any sizes.
THEOREM PackagesTyped == Spec => []TypeOK
<1>1. Spec => []PkgTypeInv
  BY InitPkgType, NextPkgType, PTL DEF Spec
<1> QED
  BY <1>1, PTL DEF PkgTypeInv

-----------------------------------------------------------------------------
(* The package parser: the bytes that are not handled yet.                 *)

Whole(p) == HeadBytes + p.size

\* c is the byte after b, when the packages are pkgs.
Follows(pkgs, b, c) ==
    \/ b.place < Whole(b.pkg) /\ c = Byte(b.pkg, b.place + 1)
    \/ b.place = Whole(b.pkg) /\ b.pkg.nr < Len(pkgs) /\ c = Byte(pkgs[b.pkg.nr + 1], 1)

\* stream is the bytes of pkgs from the first that is not done to the last.
Chain(pkgs, stream, done) ==
    /\ stream = <<>> <=> done = Len(pkgs)
    /\ stream # <<>> =>
          /\ stream[1] = Byte(pkgs[done + 1], 1)
          /\ stream[Len(stream)] = Byte(pkgs[Len(pkgs)], Whole(pkgs[Len(pkgs)]))
    /\ \A j \in 1 .. Len(stream) - 1 : Follows(pkgs, stream[j], stream[j + 1])

\* The packages are known by their numbers.
Numbered(pkgs) == pkgs \in Seq(Packages) /\ \A k \in 1 .. Len(pkgs) : pkgs[k].nr = k

LEMMA Parts ==
    /\ \A p, place : Byte(p, place).pkg = p /\ Byte(p, place).place = place
    /\ \A p \in Packages : Whole(p) \in Nat /\ Whole(p) >= 1 /\ Whole(p) = Len(Encode(p))
<1>1. \A p, place : Byte(p, place).pkg = p /\ Byte(p, place).place = place
  BY DEF Byte
<1>2. ASSUME NEW p \in Packages
      PROVE  Whole(p) \in Nat /\ Whole(p) >= 1 /\ Whole(p) = Len(Encode(p))
  BY BytesOf DEF Whole
<1> QED
  BY <1>1, <1>2

\* A package that has begun in the stream is there to its end.
LEMMA Run ==
    ASSUME NEW pkgs, Numbered(pkgs), NEW s \in Seq(AByte), NEW done \in Nat,
           Chain(pkgs, s, done), NEW k \in 1 .. Len(pkgs), NEW j \in 1 .. Len(s),
           s[j] = Byte(pkgs[k], 1)
    PROVE  \A m \in 1 .. Whole(pkgs[k]) : j + m - 1 \in 1 .. Len(s)
                                          /\ s[j + m - 1] = Byte(pkgs[k], m)
<1> DEFINE p == pkgs[k]
           Good(m) == j + m - 1 \in 1 .. Len(s) /\ s[j + m - 1] = Byte(p, m)
           T == {m \in 1 .. Whole(p) : ~Good(m)}
<1>1. /\ p \in Packages /\ Len(pkgs) \in Nat /\ Len(s) \in Nat /\ j \in Nat
      /\ Whole(p) \in Nat /\ Whole(p) >= 1
      /\ s[Len(s)] = Byte(pkgs[Len(pkgs)], Whole(pkgs[Len(pkgs)]))
      /\ \A i \in 1 .. Len(s) - 1 : Follows(pkgs, s[i], s[i + 1])
  BY Parts, SMTT(30) DEF Numbered, Chain
<1> HIDE DEF p
<1>2. Good(1)
  BY DEF p
<1>3. ASSUME NEW m \in 1 .. Whole(p), m + 1 <= Whole(p), Good(m) PROVE Good(m + 1)
  <2> DEFINE i == j + m - 1
  <2>1. i \in 1 .. Len(s) /\ s[i] = Byte(p, m) /\ j + (m + 1) - 1 = i + 1
    BY <1>1, <1>3
  <2> HIDE DEF i
  <2>2. i # Len(s)
    <3> SUFFICES ASSUME i = Len(s) PROVE FALSE
      OBVIOUS
    <3>1. Byte(p, m) = Byte(pkgs[Len(pkgs)], Whole(pkgs[Len(pkgs)]))
      BY <1>1, <2>1
    <3>2. p = pkgs[Len(pkgs)] /\ m = Whole(pkgs[Len(pkgs)])
      BY <3>1, Parts
    <3> QED
      BY <1>1, <1>3, <3>2
  <2>3. i \in 1 .. Len(s) - 1 /\ i + 1 \in 1 .. Len(s)
    <3>1. Len(s) \in Nat
      OBVIOUS
    <3> QED
      BY <2>1, <2>2, <3>1
  <2>4. s[i + 1] = Byte(p, m + 1)
    <3>1. Byte(p, m).pkg = p /\ Byte(p, m).place = m
      BY Parts
    <3>2. m # Whole(p)
      BY <1>1, <1>3
    <3>3. Follows(pkgs, Byte(p, m), s[i + 1])
      BY <1>1, <2>1, <2>3
    <3> QED
      BY <3>1, <3>2, <3>3 DEF Follows
  <2> QED
    BY <2>1, <2>3, <2>4
<1>4. T = {}
  <2> SUFFICES ASSUME T # {} PROVE FALSE
    OBVIOUS
  <2>1. T \subseteq Nat /\ \A m \in T : m \in 1 .. Whole(p) /\ ~Good(m)
    OBVIOUS
  <2>2. \A m \in 1 .. Whole(p) : m \notin T => Good(m)
    OBVIOUS
  <2> HIDE DEF T, Good
  <2>3. PICK m \in T : \A n \in T : m <= n
    BY <2>1, LeastOf
  <2>4. m # 1
    BY <1>2, <2>1
  <2>5. m - 1 \in 1 .. Whole(p) /\ m - 1 \notin T /\ (m - 1) + 1 = m /\ m <= Whole(p)
    BY <1>1, <2>1, <2>3, <2>4
  <2>6. Good((m - 1) + 1)
    BY <1>3, <2>2, <2>5
  <2> QED
    BY <2>1, <2>5, <2>6
<1> QED
  BY <1>4 DEF p

\* Every package that is not done is in the stream, to its end, and not before the first.
LEMMA Ends ==
    ASSUME NEW pkgs, Numbered(pkgs), NEW s \in Seq(AByte), NEW done \in Nat,
           Chain(pkgs, s, done), NEW last \in done + 1 .. Len(pkgs)
    PROVE  \E j \in Whole(pkgs[done + 1]) .. Len(s) :
              s[j] = Byte(pkgs[last], Whole(pkgs[last]))
<1> DEFINE first == Whole(pkgs[done + 1])
           Good(k) == \E j \in first .. Len(s) : s[j] = Byte(pkgs[k], Whole(pkgs[k]))
           T == {k \in done + 1 .. Len(pkgs) : ~Good(k)}
<1>1. /\ Len(pkgs) \in Nat /\ Len(s) \in Nat /\ done + 1 \in 1 .. Len(pkgs)
      /\ \A k \in 1 .. Len(pkgs) : /\ pkgs[k] \in Packages /\ pkgs[k].nr = k
                                   /\ Whole(pkgs[k]) \in Nat /\ Whole(pkgs[k]) >= 1
      /\ done # Len(pkgs)
  BY Parts DEF Numbered
<1>2. /\ s # <<>> /\ Len(s) >= 1 /\ s[1] = Byte(pkgs[done + 1], 1)
      /\ s[Len(s)] = Byte(pkgs[Len(pkgs)], Whole(pkgs[Len(pkgs)]))
      /\ \A j \in 1 .. Len(s) - 1 : Follows(pkgs, s[j], s[j + 1])
  BY <1>1 DEF Chain
<1>3. first \in Nat /\ first >= 1
  BY <1>1
<1>4. Good(done + 1)
  <2>1. \A m \in 1 .. first : 1 + m - 1 \in 1 .. Len(s) /\ s[1 + m - 1] = Byte(pkgs[done + 1], m)
    BY <1>1, <1>2, Run
  <2>2. first \in 1 .. Len(s) /\ s[first] = Byte(pkgs[done + 1], first)
    BY <1>3, <2>1
  <2> QED
    BY <1>1, <2>2
<1> HIDE DEF first
<1>5. ASSUME NEW k \in done + 1 .. Len(pkgs), k + 1 <= Len(pkgs), Good(k) PROVE Good(k + 1)
  <2>1. PICK j \in first .. Len(s) : s[j] = Byte(pkgs[k], Whole(pkgs[k]))
    BY <1>5
  <2>2. k \in 1 .. Len(pkgs) /\ k + 1 \in 1 .. Len(pkgs) /\ j \in 1 .. Len(s)
    BY <1>1, <1>3, <1>5
  <2>3. j # Len(s)
    <3> SUFFICES ASSUME j = Len(s) PROVE FALSE
      OBVIOUS
    <3>1. Byte(pkgs[k], Whole(pkgs[k])) = Byte(pkgs[Len(pkgs)], Whole(pkgs[Len(pkgs)]))
      BY <1>2, <2>1
    <3>2. pkgs[k] = pkgs[Len(pkgs)]
      BY <3>1, Parts
    <3>3. Len(pkgs) \in 1 .. Len(pkgs)
      BY <1>1
    <3>4. k = Len(pkgs)
      BY <1>1, <2>2, <3>2, <3>3
    <3> QED
      BY <1>1, <1>5, <3>4
  <2>4. Follows(pkgs, Byte(pkgs[k], Whole(pkgs[k])), s[j + 1]) /\ j + 1 \in 1 .. Len(s)
    BY <1>1, <1>2, <2>1, <2>2, <2>3
  <2>5. s[j + 1] = Byte(pkgs[k + 1], 1)
    BY <1>1, <2>2, <2>4, Parts DEF Follows
  <2>6. \A m \in 1 .. Whole(pkgs[k + 1]) : /\ (j + 1) + m - 1 \in 1 .. Len(s)
                                           /\ s[(j + 1) + m - 1] = Byte(pkgs[k + 1], m)
    BY <2>2, <2>4, <2>5, Run
  <2> DEFINE m == Whole(pkgs[k + 1])
  <2>7. m \in Nat /\ m >= 1
    BY <1>1, <2>2
  <2>8. (j + 1) + m - 1 \in 1 .. Len(s) /\ s[(j + 1) + m - 1] = Byte(pkgs[k + 1], m)
    BY <2>6, <2>7, SMTT(30)
  <2> HIDE DEF m
  <2>9. (j + 1) + m - 1 \in first .. Len(s)
    BY <1>1, <1>3, <2>1, <2>7, <2>8
  <2> QED
    BY <2>8, <2>9 DEF m
<1>6. T = {}
  <2> SUFFICES ASSUME T # {} PROVE FALSE
    OBVIOUS
  <2>1. T \subseteq Nat /\ \A k \in T : k \in done + 1 .. Len(pkgs) /\ ~Good(k)
    BY <1>1
  <2>2. \A k \in done + 1 .. Len(pkgs) : k \notin T => Good(k)
    OBVIOUS
  <2> HIDE DEF T, Good
  <2>3. PICK k \in T : \A n \in T : k <= n
    BY <2>1, LeastOf
  <2>4. k # done + 1
    BY <1>4, <2>1
  <2>5. /\ k - 1 \in done + 1 .. Len(pkgs) /\ k - 1 \notin T /\ (k - 1) + 1 = k
        /\ k <= Len(pkgs)
    BY <1>1, <2>1, <2>3, <2>4
  <2>6. Good((k - 1) + 1)
    BY <1>5, <2>2, <2>5
  <2> QED
    BY <2>1, <2>5, <2>6
<1> QED
  BY <1>6 DEF first

\* When the first package is taken from the stream, it is what the server has sent.
LEMMA Dropped ==
    ASSUME NEW pkgs, Numbered(pkgs), NEW a \in Seq(AByte), NEW s \in Seq(AByte),
           NEW done \in Nat, done + 1 \in 1 .. Len(pkgs), Chain(pkgs, a \o s, done),
           Len(a) = Whole(pkgs[done + 1])
    PROVE  a = Encode(pkgs[done + 1]) /\ Chain(pkgs, s, done + 1)
<1> DEFINE p == pkgs[done + 1]
           w == Whole(p)
           q == a \o s
<1>1. /\ Len(pkgs) \in Nat /\ p \in Packages /\ p.nr = done + 1 /\ w \in Nat /\ w >= 1
      /\ Len(s) \in Nat /\ Len(a) = w
      /\ Len(pkgs) \in 1 .. Len(pkgs) /\ pkgs[Len(pkgs)].nr = Len(pkgs)
  BY Parts DEF Numbered
<1>2. /\ q \in Seq(AByte) /\ Len(q) = w + Len(s)
      /\ \A k \in 1 .. w : q[k] = a[k]
      /\ \A k \in w + 1 .. w + Len(s) : q[k] = s[k - w]
  <2>1. /\ q \in Seq(AByte) /\ Len(q) = Len(a) + Len(s)
        /\ \A k \in 1 .. Len(a) : q[k] = a[k]
        /\ \A k \in Len(a) + 1 .. Len(a) + Len(s) : q[k] = s[k - Len(a)]
    BY Joint
  <2> QED
    BY <1>1, <2>1
<1>3. Chain(pkgs, q, done)
  OBVIOUS
<1> HIDE DEF q
<1>4. /\ q # <<>> /\ 1 \in 1 .. Len(q) /\ q[1] = Byte(p, 1)
      /\ q[Len(q)] = Byte(pkgs[Len(pkgs)], Whole(pkgs[Len(pkgs)]))
      /\ \A j \in 1 .. Len(q) - 1 : Follows(pkgs, q[j], q[j + 1])
  BY <1>1, <1>2, <1>3 DEF Chain
<1>5. \A m \in 1 .. w : q[m] = Byte(p, m)
  <2>1. \A m \in 1 .. w : 1 + m - 1 \in 1 .. Len(q) /\ q[1 + m - 1] = Byte(p, m)
    <3>1. /\ Numbered(pkgs) /\ q \in Seq(AByte) /\ Chain(pkgs, q, done) /\ done \in Nat
          /\ done + 1 \in 1 .. Len(pkgs) /\ 1 \in 1 .. Len(q)
          /\ q[1] = Byte(pkgs[done + 1], 1)
      BY <1>2, <1>3, <1>4
    <3> HIDE DEF p, w
    <3> DEFINE k == done + 1
    <3> HIDE DEF k
    <3>2. Numbered(pkgs) /\ k \in 1 .. Len(pkgs) /\ q[1] = Byte(pkgs[k], 1)
      BY <3>1 DEF k
    <3>3. \A m \in 1 .. Whole(pkgs[k]) : 1 + m - 1 \in 1 .. Len(q)
                                          /\ q[1 + m - 1] = Byte(pkgs[k], m)
      BY <3>1, <3>2, Run
    <3> QED
      BY <3>3 DEF k, p, w
  <2>2. \A m \in 1 .. w : 1 + m - 1 = m
    BY <1>1
  <2> HIDE DEF p, w
  <2> QED
    BY <2>1, <2>2
<1> HIDE DEF p, w
<1>6. a = Encode(p)
  <2>1. Encode(p) \in Seq(AByte) /\ Len(Encode(p)) = w /\ \A k \in 1 .. w : Encode(p)[k] = Byte(p, k)
    BY <1>1, BytesOf DEF w, Whole
  <2>2. \A k \in 1 .. Len(a) : a[k] = Encode(p)[k]
    BY <1>1, <1>2, <1>5, <2>1
  <2>3. Len(a) = Len(Encode(p))
    BY <1>1, <2>1
  <2> QED
    BY <2>1, <2>2, <2>3, SeqEqual
<1>7. q[w] = Byte(p, w) /\ Byte(p, w).pkg = p /\ Byte(p, w).place = w
  BY <1>1, <1>5, Parts
\* What comes after it.
<1>8. ASSUME s # <<>>
      PROVE  done + 1 < Len(pkgs) /\ s[1] = Byte(pkgs[(done + 1) + 1], 1)
             /\ s[Len(s)] = Byte(pkgs[Len(pkgs)], Whole(pkgs[Len(pkgs)]))
  <2>1. Len(s) >= 1 /\ w \in 1 .. Len(q) - 1
    BY <1>1, <1>2, <1>8
  <2>2. Follows(pkgs, Byte(p, w), q[w + 1])
    BY <1>4, <1>7, <2>1
  <2>3. q[w + 1] = s[1] /\ q[Len(q)] = s[Len(s)]
    <3>1. w + 1 \in w + 1 .. w + Len(s) /\ (w + 1) - w = 1 /\ Len(q) \in w + 1 .. w + Len(s)
          /\ Len(q) - w = Len(s)
      BY <1>1, <1>2, <2>1
    <3> QED
      BY <1>2, <3>1
  <2>4. w = Whole(p) /\ ~(w < w)
    BY <1>1 DEF w
  <2>5. p.nr < Len(pkgs) /\ q[w + 1] = Byte(pkgs[p.nr + 1], 1)
    BY <1>7, <2>2, <2>4 DEF Follows
  <2>6. s[Len(s)] = Byte(pkgs[Len(pkgs)], Whole(pkgs[Len(pkgs)]))
    BY <1>4, <2>3
  <2> QED
    BY <1>1, <2>3, <2>5, <2>6
<1>9. ASSUME s = <<>> PROVE done + 1 = Len(pkgs)
  <2>1. Len(q) = w
    BY <1>1, <1>2, <1>9
  <2>2. Byte(p, w) = Byte(pkgs[Len(pkgs)], Whole(pkgs[Len(pkgs)]))
    BY <1>4, <1>7, <2>1
  <2>3. p = pkgs[Len(pkgs)]
    BY <2>2, Parts
  <2> QED
    BY <1>1, <2>3
<1>10. \A j \in 1 .. Len(s) - 1 : Follows(pkgs, s[j], s[j + 1])
  <2> SUFFICES ASSUME NEW j \in 1 .. Len(s) - 1 PROVE Follows(pkgs, s[j], s[j + 1])
    OBVIOUS
  <2>1. /\ w + j \in 1 .. Len(q) - 1 /\ w + j \in w + 1 .. w + Len(s) /\ (w + j) - w = j
        /\ (w + j) + 1 \in w + 1 .. w + Len(s) /\ ((w + j) + 1) - w = j + 1
    BY <1>1, <1>2
  <2>2. q[w + j] = s[j] /\ q[(w + j) + 1] = s[j + 1]
    BY <1>2, <2>1
  <2> QED
    BY <1>4, <2>1, <2>2
<1>11. Chain(pkgs, s, done + 1)
  BY <1>1, <1>8, <1>9, <1>10 DEF Chain
<1> QED
  BY <1>6, <1>11 DEF p

\* A package that the server sends joins the stream at its end.
LEMMA Grown ==
    ASSUME NEW pkgs, Numbered(pkgs), NEW s \in Seq(AByte), NEW done \in Nat,
           done <= Len(pkgs), Chain(pkgs, s, done), NEW p \in Packages,
           p.nr = Len(pkgs) + 1
    PROVE  Chain(Append(pkgs, p), s \o Encode(p), done)
<1> DEFINE more == Append(pkgs, p)
           n == Len(s)
           w == Whole(p)
           q == s \o Encode(p)
<1>1. /\ Len(pkgs) \in Nat /\ n \in Nat /\ w \in Nat /\ w >= 1 /\ Len(more) = Len(pkgs) + 1
      /\ \A k \in 1 .. Len(pkgs) : more[k] = pkgs[k] /\ pkgs[k].nr = k
      /\ more[Len(pkgs) + 1] = p
  BY Parts, Appended DEF Numbered
<1> HIDE DEF more
<1>2. /\ Encode(p) \in Seq(AByte) /\ Len(Encode(p)) = w
      /\ \A k \in 1 .. w : Encode(p)[k] = Byte(p, k)
  BY BytesOf DEF Whole
<1>3. /\ Len(q) = n + w
      /\ \A k \in 1 .. n : q[k] = s[k]
      /\ \A k \in 1 .. w : q[n + k] = Byte(p, k)
  <2>1. /\ Len(q) = n + Len(Encode(p))
        /\ \A k \in 1 .. n : q[k] = s[k]
        /\ \A k \in n + 1 .. n + Len(Encode(p)) : q[k] = Encode(p)[k - n]
    BY <1>2, Joint
  <2> HIDE DEF q, n, w
  <2>2. \A k \in 1 .. w : n + k \in n + 1 .. n + w /\ (n + k) - n = k
    BY <1>1
  <2> QED
    BY <1>1, <1>2, <2>1, <2>2
<1> HIDE DEF q
<1>4. Len(q) # 0 /\ Len(q) \in Nat
  BY <1>1, <1>3
<1>5. q # <<>> /\ done # Len(more)
  BY <1>1, <1>4
<1>6. q[Len(q)] = Byte(more[Len(more)], Whole(more[Len(more)]))
  BY <1>1, <1>3
<1>7. q[1] = Byte(more[done + 1], 1)
  <2>1. CASE s = <<>>
    <3>1. done = Len(pkgs) /\ n + 1 = 1
      BY <2>1 DEF Chain
    <3>2. q[n + 1] = Byte(p, 1)
      BY <1>1, <1>3
    <3> QED
      BY <1>1, <3>1, <3>2
  <2>2. CASE s # <<>>
    <3>1. done # Len(pkgs) /\ s[1] = Byte(pkgs[done + 1], 1)
      BY <2>2 DEF Chain
    <3>2. done + 1 \in 1 .. Len(pkgs) /\ 1 \in 1 .. n
      BY <1>1, <2>2, <3>1
    <3> QED
      BY <1>1, <1>3, <3>1, <3>2
  <2> QED
    BY <2>1, <2>2
<1>8. ASSUME NEW j \in 1 .. Len(q) - 1 PROVE Follows(more, q[j], q[j + 1])
  <2>1. CASE j < n
    <3>1. /\ j \in 1 .. n - 1 /\ j \in 1 .. n /\ j + 1 \in 1 .. n
      BY <1>1, <2>1
    <3>2. Follows(pkgs, s[j], s[j + 1]) /\ q[j] = s[j] /\ q[j + 1] = s[j + 1]
      BY <1>3, <3>1 DEF Chain
    <3>3. s[j] \in AByte
      BY <3>1
    <3>4. s[j].pkg.nr \in Nat \ {0}
      BY <3>3, SMTT(30) DEF AByte, Packages
    <3>5. ASSUME s[j].pkg.nr < Len(pkgs)
          PROVE  /\ s[j].pkg.nr < Len(more)
                 /\ more[s[j].pkg.nr + 1] = pkgs[s[j].pkg.nr + 1]
      <4> DEFINE r == s[j].pkg.nr
      <4> HIDE DEF r
      <4>1. r \in Nat \ {0} /\ r < Len(pkgs)
        BY <3>4, <3>5 DEF r
      <4>2. r + 1 \in 1 .. Len(pkgs) /\ r < Len(more)
        BY <1>1, <4>1
      <4> QED
        BY <1>1, <4>2 DEF r
    <3> QED
      BY <3>2, <3>5 DEF Follows
  <2>2. CASE j = n
    <3>1. s # <<>> /\ n \in 1 .. n /\ 1 \in 1 .. w
      BY <1>1, <2>2
    <3>2. /\ s[n] = Byte(pkgs[Len(pkgs)], Whole(pkgs[Len(pkgs)])) /\ q[n] = s[n]
          /\ q[n + 1] = Byte(p, 1)
          /\ done # Len(pkgs)
      BY <1>3, <3>1 DEF Chain
    <3>3. Len(pkgs) \in 1 .. Len(pkgs) /\ Len(pkgs) < Len(more)
      BY <1>1, <3>2
    <3>4. q[n].pkg = pkgs[Len(pkgs)] /\ q[n].place = Whole(pkgs[Len(pkgs)])
      BY <3>2, Parts
    <3>5. /\ pkgs[Len(pkgs)].nr = Len(pkgs) /\ more[Len(pkgs) + 1] = p
          /\ ~(Whole(pkgs[Len(pkgs)]) < Whole(pkgs[Len(pkgs)]))
      <4>1. pkgs[Len(pkgs)] \in Packages
        BY <3>3 DEF Numbered
      <4>2. Whole(pkgs[Len(pkgs)]) \in Nat
        BY <4>1, Parts
      <4> QED
        BY <1>1, <3>3, <4>2
    <3>6. q[n].pkg.nr < Len(more) /\ q[n + 1] = Byte(more[q[n].pkg.nr + 1], 1)
      BY <3>2, <3>3, <3>4, <3>5
    <3> QED
      BY <2>2, <3>4, <3>6 DEF Follows
  <2>3. CASE j > n
    <3>1. j - n \in 1 .. w /\ (j - n) + 1 \in 1 .. w /\ n + (j - n) = j
          /\ n + ((j - n) + 1) = j + 1 /\ j - n < w
      BY <1>1, <1>3, <2>3
    <3>2. q[j] = Byte(p, j - n) /\ q[j + 1] = Byte(p, (j - n) + 1)
      BY <1>3, <3>1
    <3>3. q[j].pkg = p /\ q[j].place = j - n
      BY <3>2, Parts
    <3> QED
      BY <3>1, <3>2, <3>3 DEF Follows
  <2> QED
    BY <1>1, <1>3, <2>1, <2>2, <2>3
<1>9. Chain(more, q, done)
  BY <1>5, <1>6, <1>7, <1>8 DEF Chain
<1> QED
  BY <1>9 DEF more, q

\* A package of which no byte is left unread is done, when what has been taken of the
\* stream is less than a package.
LEMMA Unfinished ==
    ASSUME NEW pkgs, Numbered(pkgs), NEW taken \in Seq(AByte), NEW rest \in Seq(AByte),
           NEW done \in Nat, Chain(pkgs, taken \o rest, done),
           done < Len(pkgs) => Len(taken) < Whole(pkgs[done + 1]),
           NEW k \in 1 .. Len(pkgs), \A b \in ToSet(rest) : b.pkg # pkgs[k]
    PROVE  k <= done
<1> SUFFICES ASSUME ~(k <= done) PROVE FALSE
  OBVIOUS
<1> DEFINE q == taken \o rest
<1>1. Len(pkgs) \in Nat
  BY DEF Numbered
<1>2. k \in done + 1 .. Len(pkgs) /\ done < Len(pkgs)
  BY <1>1
<1>3. /\ q \in Seq(AByte) /\ Len(q) = Len(taken) + Len(rest)
      /\ \A j \in Len(taken) + 1 .. Len(taken) + Len(rest) : q[j] = rest[j - Len(taken)]
  BY Joint
<1>4. Chain(pkgs, q, done)
  OBVIOUS
<1> HIDE DEF q
<1>5. PICK j \in Whole(pkgs[done + 1]) .. Len(q) : q[j] = Byte(pkgs[k], Whole(pkgs[k]))
  BY <1>2, <1>3, <1>4, Ends
<1>6. pkgs[done + 1] \in Packages
  BY <1>1, <1>2 DEF Numbered
<1>7. Whole(pkgs[done + 1]) \in Nat /\ Len(taken) \in Nat /\ Len(rest) \in Nat
  BY <1>6, Parts
<1>8. j \in Len(taken) + 1 .. Len(taken) + Len(rest) /\ j - Len(taken) \in 1 .. Len(rest)
  BY <1>2, <1>3, <1>5, <1>7
<1>9. rest[j - Len(taken)] = Byte(pkgs[k], Whole(pkgs[k]))
  BY <1>3, <1>5, <1>8
<1>10. rest[j - Len(taken)] \in ToSet(rest)
  BY <1>8 DEF ToSet
<1> QED
  BY <1>9, <1>10, Parts

\* The first bytes of the stream are the head of the first package that is not done.
LEMMA Begins ==
    ASSUME NEW pkgs, Numbered(pkgs), NEW head \in Seq(AByte), NEW rest \in Seq(AByte),
           NEW done \in Nat, done <= Len(pkgs), Chain(pkgs, head \o rest, done),
           Len(head) = HeadBytes
    PROVE  /\ done + 1 \in 1 .. Len(pkgs) /\ head = HeadOf(pkgs[done + 1])
           /\ Lengths(head) = {pkgs[done + 1].size}
<1> DEFINE q == head \o rest
           p == pkgs[done + 1]
<1>1. /\ q \in Seq(AByte) /\ Len(q) = Len(head) + Len(rest)
      /\ \A j \in 1 .. Len(head) : q[j] = head[j]
  BY Joint
<1>2. Chain(pkgs, q, done) /\ Len(pkgs) \in Nat /\ HeadBytes \in Nat \ {0}
  BY SizeAssumption DEF Numbered
<1> HIDE DEF q
<1>3. Len(q) # 0 /\ q # <<>> /\ 1 \in 1 .. Len(q)
  BY <1>1, <1>2
<1>4. done # Len(pkgs) /\ q[1] = Byte(p, 1)
  BY <1>2, <1>3 DEF Chain
<1>5. done + 1 \in 1 .. Len(pkgs)
  BY <1>2, <1>4
<1>6. p \in Packages /\ Whole(p) = HeadBytes + p.size /\ p.size \in Nat
  <2>1. p \in Packages
    BY <1>5 DEF Numbered
  <2> HIDE DEF p
  <2> QED
    BY <2>1, BytesOf DEF Whole
<1> DEFINE k == done + 1
<1> HIDE DEF p, k
<1>7. Numbered(pkgs) /\ k \in 1 .. Len(pkgs) /\ q[1] = Byte(pkgs[k], 1) /\ pkgs[k] = p
  BY <1>4, <1>5 DEF k, p
<1>8. \A m \in 1 .. Whole(pkgs[k]) : 1 + m - 1 \in 1 .. Len(q)
                                      /\ q[1 + m - 1] = Byte(pkgs[k], m)
  BY <1>1, <1>2, <1>3, <1>7, Run, SMTT(30)
<1>9. ASSUME NEW m \in 1 .. HeadBytes PROVE head[m] = Byte(p, m)
  <2>1. m \in 1 .. Whole(pkgs[k]) /\ 1 + m - 1 = m /\ m \in 1 .. Len(head)
    BY <1>2, <1>6, <1>7
  <2>2. q[m] = Byte(p, m)
    BY <1>7, <1>8, <2>1
  <2> QED
    BY <1>1, <2>1, <2>2
<1>10. head = HeadOf(p)
  <2>1. /\ HeadOf(p) \in Seq(AByte) /\ Len(HeadOf(p)) = HeadBytes
        /\ \A j \in 1 .. HeadBytes : HeadOf(p)[j] = Byte(p, j)
    BY <1>6, BytesOf
  <2>2. \A j \in 1 .. Len(head) : head[j] = HeadOf(p)[j]
    BY <1>9, <2>1
  <2> QED
    BY <2>1, <2>2, SeqEqual
<1>11. Lengths(head) = {p.size}
  <2>1. head[1].pkg = p
    BY <1>2, <1>9, Parts
  <2> QED
    BY <1>10, <2>1 DEF Lengths
<1> QED
  BY <1>5, <1>10, <1>11 DEF p

\* Two joints of the same sequence at the same place.
LEMMA Apart ==
    ASSUME NEW Q, NEW a \in Seq(Q), NEW b \in Seq(Q), NEW c \in Seq(Q), NEW d \in Seq(Q),
           a \o b = c \o d, Len(a) = Len(c)
    PROVE  a = c /\ b = d
<1> DEFINE q == a \o b
<1>1. /\ Len(q) = Len(a) + Len(b)
      /\ \A k \in 1 .. Len(a) : q[k] = a[k]
      /\ \A k \in Len(a) + 1 .. Len(a) + Len(b) : q[k] = b[k - Len(a)]
  BY Joint
<1>2. /\ Len(q) = Len(c) + Len(d)
      /\ \A k \in 1 .. Len(c) : q[k] = c[k]
      /\ \A k \in Len(c) + 1 .. Len(c) + Len(d) : q[k] = d[k - Len(c)]
  BY Joint
<1> HIDE DEF q
<1>3. Len(b) = Len(d) /\ Len(a) \in Nat /\ Len(b) \in Nat
  BY <1>1, <1>2
<1>4. a = c
  <2>1. \A k \in 1 .. Len(a) : a[k] = c[k]
    BY <1>1, <1>2
  <2> QED
    BY <2>1, SeqEqual
<1>5. ASSUME NEW k \in 1 .. Len(b) PROVE b[k] = d[k]
  <2>1. Len(a) + k \in Len(a) + 1 .. Len(a) + Len(b) /\ (Len(a) + k) - Len(a) = k
    BY <1>3
  <2>2. q[Len(a) + k] = b[k]
    BY <1>1, <2>1
  <2>3. q[Len(a) + k] = d[k]
    BY <1>2, <1>3, <2>1
  <2> QED
    BY <2>2, <2>3
<1>6. b = d
  BY <1>3, <1>5, SeqEqual
<1> QED
  BY <1>4, <1>6

-----------------------------------------------------------------------------
(* The package parser: what the handler gets.                              *)

\* What is not handled yet: what the parser keeps, what is left of a read, and what has
\* not been read.
Stream == head_buf \o (pkg_buf \o (data \o pipe))

\* Where the parser stands in the stream.
InStep ==
    /\ Chain(sent, Stream, Len(handled))
    /\ state = "body" => pkg_size = sent[Len(handled) + 1].size

FreshInv ==
    begun_fresh => Framing /\ NothingHeldBack /\ (open \/ step # "none" => InStep)

LEMMA Nothing ==
    ASSUME NEW Q, NEW a \in Seq(Q), NEW b \in Seq(Q), NEW c \in Seq(Q)
    PROVE  /\ <<>> \in Seq(Q) /\ <<>> \o a = a /\ Len(a) \in Nat
           /\ a \o (b \o (<<>> \o c)) = (a \o b) \o c
<1>1. <<>> \in Seq(Q) /\ <<>> \o a = a /\ <<>> \o c = c /\ Len(a) \in Nat
  OBVIOUS
<1>2. a \o (b \o c) = (a \o b) \o c
  BY ConcatAssociative
<1> QED
  BY <1>1, <1>2

\* What the type invariant says that the proofs of the steps need.
LEMMA Known ==
    ASSUME PkgTypeInv
    PROVE  /\ Numbered(sent) /\ head_buf \in Seq(AByte) /\ pkg_buf \in Seq(AByte)
           /\ data \in Seq(AByte) /\ pipe \in Seq(AByte) /\ Len(handled) \in Nat
           /\ state = "head" => pkg_buf = <<>> /\ pkg_size = 0
           /\ step = "none" => data = <<>>
           /\ step \in {"none", state} /\ state \in {"head", "body"}
           /\ (state = "body" <=> Len(head_buf) = HeadBytes) /\ Len(head_buf) <= HeadBytes
           /\ pkg_size \in Nat /\ Len(pkg_buf) <= pkg_size
<1>1. /\ handled \in Seq([head : Seq(AByte), body : Seq(AByte)])
      /\ pkg_size \in Sizes \cup {0}
  BY DEF PkgTypeInv, TypeOK
<1>2. Len(handled) \in Nat /\ pkg_size \in Nat
  BY <1>1, SizeAssumption
<1> QED
  BY <1>2 DEF PkgTypeInv, TypeOK, Numbered

LEMMA FreshRead ==
    ASSUME PkgTypeInv, FreshInv, Read, begun_fresh' = begun_fresh
    PROVE  FreshInv'
<1> SUFFICES ASSUME begun_fresh PROVE Framing' /\ NothingHeldBack' /\ InStep'
  BY DEF FreshInv
<1>1. /\ open /\ step = "none" /\ step' = state
      /\ UNCHANGED <<conn, open, sent, state, head_buf, pkg_buf, pkg_size, handled>>
  BY DEF Read, parser
<1>2. PICK n \in 1 .. Len(pipe) :
         data' = SubSeq(pipe, 1, n) /\ pipe' = SubSeq(pipe, n + 1, Len(pipe))
  BY DEF Read
<1>3. data' \o pipe' = pipe
  BY <1>2, Known, Cut, n \in 0 .. Len(pipe)
<1>4. data \o pipe = pipe
  BY <1>1, Known, Nothing
<1>5. Stream' = Stream
  BY <1>1, <1>3, <1>4 DEF Stream
<1>6. Framing /\ InStep
  BY <1>1 DEF FreshInv
<1>7. InStep'
  BY <1>1, <1>5, <1>6 DEF InStep
<1>8. step' # "none"
  BY <1>1, Known
<1> QED
  BY <1>1, <1>6, <1>7, <1>8 DEF Framing, NothingHeldBack

LEMMA FreshParseHead ==
    ASSUME PkgTypeInv, PkgTypeInv', FreshInv, ParseHead, begun_fresh' = begun_fresh
    PROVE  FreshInv'
<1> SUFFICES ASSUME begun_fresh PROVE Framing' /\ NothingHeldBack' /\ InStep'
  BY DEF FreshInv
<1> DEFINE n == Taken(HeadBytes - Len(head_buf))
           head == head_buf \o SubSeq(data, 1, n)
           done == Len(handled)
<1>1. /\ step = "head" /\ state = "head" /\ pkg_buf = <<>>
      /\ head_buf' = head /\ data' = SubSeq(data, n + 1, Len(data))
      /\ UNCHANGED <<conn, open, sent, pipe, handled>>
  BY Known DEF ParseHead, server
<1>2. Framing /\ InStep
  BY <1>1 DEF FreshInv
<1>3. head \o (data' \o pipe) = head_buf \o (data \o pipe)
  <2>1. Len(head_buf) <= HeadBytes /\ HeadBytes \in Nat
    BY Known, SizeAssumption
  <2>2. head_buf \in Seq(AByte) /\ data \in Seq(AByte) /\ pipe \in Seq(AByte)
    BY Known
  <2>3. data' = SubSeq(data, n + 1, Len(data))
    BY <1>1
  <2>4. \A rest \in Seq(AByte) : head \o (data' \o rest) = head_buf \o (data \o rest)
    BY <2>1, <2>2, <2>3, Parsed
  <2> QED
    BY <2>2, <2>4
<1>4. /\ head \in Seq(AByte) /\ data' \in Seq(AByte) /\ pipe \in Seq(AByte)
      /\ data' \o pipe \in Seq(AByte) /\ data \o pipe \in Seq(AByte)
  <2>1. head_buf' \in Seq(AByte) /\ data' \in Seq(AByte)
    BY DEF PkgTypeInv
  <2> HIDE DEF head
  <2>2. data' \o pipe \in Seq(AByte) /\ data \o pipe \in Seq(AByte)
    BY <2>1, Known, Joint
  <2> QED
    BY <1>1, <2>1, <2>2, Known
<1> HIDE DEF head
<1>5. Stream = head \o (data' \o pipe)
  BY <1>1, <1>3, <1>4, Nothing DEF Stream
<1>6. pkg_buf' = <<>>
  BY <1>1 DEF ParseHead
<1>7. Stream' = Stream
  BY <1>1, <1>4, <1>5, <1>6, Nothing DEF Stream
<1>8. Chain(sent, Stream, done) /\ done <= Len(sent) /\ done \in Nat /\ Numbered(sent)
  BY <1>2, Known DEF InStep, Framing
<1>9. Framing' /\ Chain(sent', Stream', Len(handled'))
  BY <1>1, <1>2, <1>7, <1>8 DEF Framing
<1>10. CASE Len(head) < HeadBytes
  <2>1. step' = "none" /\ state' = "head"
    BY <1>1, <1>10 DEF ParseHead, head
  <2>2. data' = <<>>
    BY <2>1 DEF PkgTypeInv, TypeOK
  <2>3. Chain(sent, head \o pipe, done)
    BY <1>4, <1>5, <1>8, <2>2, Nothing
  <2>4. done < Len(sent) => Len(head) < Whole(sent[done + 1])
    <3> SUFFICES ASSUME done < Len(sent) PROVE Len(head) < Whole(sent[done + 1])
      OBVIOUS
    <3>1. done + 1 \in 1 .. Len(sent)
      BY <1>8 DEF Numbered
    <3>2. sent[done + 1] \in Packages
      BY <1>8, <3>1 DEF Numbered
    <3>3. Whole(sent[done + 1]) = HeadBytes + sent[done + 1].size /\ sent[done + 1].size \in Nat
      BY <3>2, BytesOf DEF Whole
    <3>4. Len(head) \in Nat /\ HeadBytes \in Nat
      BY <1>4, SizeAssumption
    <3> QED
      BY <1>10, <3>3, <3>4
  <2>5. ASSUME NEW k \in 1 .. Len(sent), \A b \in ToSet(pipe) : b.pkg # sent[k]
        PROVE  k <= done
    BY <1>4, <1>8, <2>3, <2>4, <2>5, Unfinished
  <2>6. NothingHeldBack'
    <3>1. DOMAIN sent = 1 .. Len(sent)
      BY <1>8 DEF Numbered
    <3> QED
      BY <1>1, <2>5, <3>1 DEF NothingHeldBack
  <2> QED
    BY <1>9, <2>1, <2>6 DEF InStep
<1>11. CASE ~(Len(head) < HeadBytes)
  <2>1. step' = "body" /\ state' = "body" /\ pkg_size' \in Lengths(head)
    BY <1>11 DEF ParseHead, head
  <2>2. Len(head) = HeadBytes
    BY <1>1, <2>1 DEF PkgTypeInv, TypeOK
  <2>3. Lengths(head) = {sent[done + 1].size}
    BY <1>4, <1>5, <1>8, <2>2, Begins
  <2>4. pkg_size' = sent[done + 1].size
    BY <2>1, <2>3
  <2> QED
    BY <1>1, <1>9, <2>1, <2>4 DEF InStep, NothingHeldBack
<1> QED
  BY <1>10, <1>11

\* A body that is whole: what was handed over is the package, and the stream goes on.
LEMMA BodyWhole ==
    ASSUME NEW pkgs, Numbered(pkgs), NEW head \in Seq(AByte), NEW body \in Seq(AByte),
           NEW rest \in Seq(AByte), NEW done \in Nat, done <= Len(pkgs),
           Chain(pkgs, head \o (body \o rest), done), Len(head) = HeadBytes,
           Len(body) = pkgs[done + 1].size
    PROVE  /\ done + 1 \in 1 .. Len(pkgs)
           /\ head = HeadOf(pkgs[done + 1]) /\ body = BodyOf(pkgs[done + 1])
           /\ Chain(pkgs, rest, done + 1)
<1> DEFINE p == pkgs[done + 1]
<1>1. body \o rest \in Seq(AByte) /\ head \o body \in Seq(AByte)
      /\ Len(head \o body) = Len(head) + Len(body)
  BY Joint
<1>2. done + 1 \in 1 .. Len(pkgs) /\ head = HeadOf(p)
  BY <1>1, Begins
<1>3. p \in Packages /\ Len(body) = p.size
  BY <1>2 DEF Numbered
<1> HIDE DEF p
<1>4. Len(head \o body) = Whole(p)
  BY <1>1, <1>3 DEF Whole
<1>5. (head \o body) \o rest = head \o (body \o rest)
  BY ConcatAssociative, SMTT(30)
<1>6. head \o body = Encode(p) /\ Chain(pkgs, rest, done + 1)
  <2> DEFINE a == head \o body
  <2>1. a \in Seq(AByte) /\ Len(a) = Whole(pkgs[done + 1])
    BY <1>1, <1>4 DEF p
  <2>2. Chain(pkgs, a \o rest, done)
    BY <1>5
  <2> HIDE DEF a
  <2>3. a = Encode(pkgs[done + 1]) /\ Chain(pkgs, rest, done + 1)
    BY <1>2, <2>1, <2>2, Dropped
  <2> QED
    BY <2>3 DEF a, p
<1>7. body = BodyOf(p)
  <2>1. /\ HeadOf(p) \in Seq(AByte) /\ BodyOf(p) \in Seq(AByte)
        /\ head \o body = HeadOf(p) \o BodyOf(p) /\ Len(head) = Len(HeadOf(p))
    BY <1>2, <1>3, <1>6, BytesOf DEF Encode
  <2> QED
    BY <2>1, Apart
<1> QED
  BY <1>2, <1>6, <1>7 DEF p

LEMMA FreshParseBody ==
    ASSUME PkgTypeInv, PkgTypeInv', FreshInv, ParseBody, begun_fresh' = begun_fresh
    PROVE  FreshInv'
<1> SUFFICES ASSUME begun_fresh PROVE Framing' /\ NothingHeldBack' /\ InStep'
  BY DEF FreshInv
<1> DEFINE n == Taken(pkg_size - Len(pkg_buf))
           body == pkg_buf \o SubSeq(data, 1, n)
           done == Len(handled)
<1>1. /\ step = "body" /\ state = "body" /\ data' = SubSeq(data, n + 1, Len(data))
      /\ step' = IF data' = <<>> THEN "none" ELSE "head"
      /\ UNCHANGED <<conn, sent, pipe>>
  BY Known DEF ParseBody, server
<1>2. Framing /\ InStep
  BY <1>1 DEF FreshInv
<1>3. /\ body \in Seq(AByte) /\ Len(body) <= pkg_size
      /\ Len(body) < pkg_size => data' = <<>>
      /\ body \o (data' \o pipe) = pkg_buf \o (data \o pipe)
  <2>1. Len(pkg_buf) <= pkg_size /\ pkg_size \in Nat /\ pkg_buf \in Seq(AByte)
        /\ data \in Seq(AByte) /\ pipe \in Seq(AByte)
    BY Known
  <2>2. data' = SubSeq(data, n + 1, Len(data))
    BY <1>1
  <2>3. /\ body \in Seq(AByte) /\ Len(body) <= pkg_size
        /\ Len(body) < pkg_size => data' = <<>>
        /\ \A rest \in Seq(AByte) : body \o (data' \o rest) = pkg_buf \o (data \o rest)
    BY <2>1, <2>2, Parsed
  <2> QED
    BY <2>1, <2>3
<1>4. /\ head_buf \in Seq(AByte) /\ data' \in Seq(AByte) /\ pipe \in Seq(AByte)
      /\ data' \o pipe \in Seq(AByte) /\ Len(head_buf) = HeadBytes
  <2>1. data' \in Seq(AByte) /\ pipe \in Seq(AByte)
    BY Known DEF PkgTypeInv
  <2> QED
    BY <1>1, <2>1, Known, Joint
<1> HIDE DEF body
<1>5. Stream = head_buf \o (body \o (data' \o pipe))
  BY <1>3 DEF Stream
<1>6. /\ Chain(sent, Stream, done) /\ done <= Len(sent) /\ done \in Nat /\ Numbered(sent)
      /\ pkg_size = sent[done + 1].size
  BY <1>1, <1>2, Known DEF InStep, Framing
<1>7. CASE Len(body) < pkg_size
  <2>1. pkg_buf' = body /\ UNCHANGED <<open, state, head_buf, pkg_size, handled>>
    BY <1>7 DEF ParseBody, body
  <2>2. data' = <<>> /\ step' = "none"
    BY <1>1, <1>3, <1>7
  <2>3. Stream' = Stream
    BY <1>1, <1>5, <2>1 DEF Stream
  <2>4. Framing' /\ InStep'
    BY <1>1, <1>2, <2>1, <2>3 DEF Framing, InStep
  <2>5. /\ head_buf \o body \in Seq(AByte) /\ Len(head_buf \o body) = HeadBytes + Len(body)
        /\ Chain(sent, (head_buf \o body) \o pipe, done)
    <3>1. head_buf \o body \in Seq(AByte) /\ Len(head_buf \o body) = HeadBytes + Len(body)
      <4>1. head_buf \o body \in Seq(AByte)
            /\ Len(head_buf \o body) = Len(head_buf) + Len(body)
        BY <1>3, <1>4, Joint
      <4> QED
        BY <1>4, <4>1
    <3>2. head_buf \o (body \o (<<>> \o pipe)) = (head_buf \o body) \o pipe
      BY <1>3, <1>4, Nothing, SMTT(30)
    <3> QED
      BY <1>5, <1>6, <2>2, <3>1, <3>2
  <2>6. done < Len(sent) => Len(head_buf \o body) < Whole(sent[done + 1])
    <3>1. Len(body) \in Nat /\ pkg_size \in Nat /\ HeadBytes \in Nat
      BY <1>3, Known, SizeAssumption
    <3> QED
      BY <1>6, <1>7, <2>5, <3>1 DEF Whole
  <2>7. ASSUME NEW k \in 1 .. Len(sent), \A b \in ToSet(pipe) : b.pkg # sent[k]
        PROVE  k <= done
    BY <1>4, <1>6, <2>5, <2>6, <2>7, Unfinished
  <2>8. NothingHeldBack'
    <3>1. DOMAIN sent = 1 .. Len(sent)
      BY <1>6 DEF Numbered
    <3> QED
      BY <1>1, <2>1, <2>7, <3>1 DEF NothingHeldBack
  <2> QED
    BY <2>4, <2>8
<1>8. CASE ~(Len(body) < pkg_size)
  <2>1. /\ handled' = Append(handled, [head |-> head_buf, body |-> body])
        /\ state' = "head" /\ head_buf' = <<>> /\ pkg_buf' = <<>> /\ pkg_size' = 0
    BY <1>8 DEF ParseBody, Reset, body
  <2>2. Len(body) = sent[done + 1].size
    <3>1. Len(body) \in Nat /\ pkg_size \in Nat
      BY <1>3, Known
    <3> QED
      BY <1>3, <1>6, <1>8, <3>1
  <2>3. Chain(sent, head_buf \o (body \o (data' \o pipe)), done)
    BY <1>5, <1>6
  <2>4. /\ done + 1 \in 1 .. Len(sent)
        /\ head_buf = HeadOf(sent[done + 1]) /\ body = BodyOf(sent[done + 1])
        /\ Chain(sent, data' \o pipe, done + 1)
    BY <1>3, <1>4, <1>6, <2>2, <2>3, BodyWhole
  <2>5. /\ Len(handled') = done + 1 /\ DOMAIN handled' = 1 .. done + 1
        /\ \A k \in 1 .. done : handled'[k] = handled[k] /\ k \in DOMAIN handled
        /\ handled'[done + 1] = [head |-> head_buf, body |-> body]
    <3>1. handled \in Seq([head : Seq(AByte), body : Seq(AByte)])
      BY DEF PkgTypeInv
    <3> HIDE DEF AByte
    <3> QED
      BY <1>3, <1>4, <2>1, <3>1
  <2>6. Framing'
    <3>1. Len(handled') <= Len(sent')
      BY <1>1, <1>6, <2>4, <2>5
    <3>2. ASSUME NEW k \in 1 .. done + 1
          PROVE  handled'[k] = [head |-> HeadOf(sent[k]), body |-> BodyOf(sent[k])]
      <4>1. CASE k = done + 1
        BY <2>4, <2>5, <4>1
      <4>2. CASE k # done + 1
        <5>1. k \in 1 .. done
          BY <1>6, <4>2
        <5> QED
          BY <1>2, <2>5, <5>1 DEF Framing
      <4> QED
        BY <4>1, <4>2
    <3> QED
      BY <1>1, <2>5, <3>1, <3>2 DEF Framing
  <2>7. Stream' = data' \o pipe
    BY <1>1, <1>4, <2>1, Nothing DEF Stream
  <2>8. InStep'
    BY <1>1, <2>1, <2>4, <2>5, <2>7 DEF InStep
  <2>9. NothingHeldBack'
    <3> SUFFICES ASSUME step' = "none", NEW k \in 1 .. Len(sent),
                        \A b \in ToSet(pipe) : b.pkg # sent[k]
                 PROVE  k <= done + 1
      <4>1. DOMAIN sent = 1 .. Len(sent)
        BY <1>6 DEF Numbered
      <4> QED
        BY <1>1, <2>5, <4>1 DEF NothingHeldBack
    <3>1. data' = <<>>
      BY <1>1
    <3>2. Chain(sent, <<>> \o pipe, done + 1)
      BY <2>4, <3>1
    <3>3. <<>> \in Seq(AByte) /\ Len(<<>>) = 0
      OBVIOUS
    <3>4. done + 1 \in Nat
      BY <1>6
    <3>5. done + 1 < Len(sent) => Len(<<>>) < Whole(sent[(done + 1) + 1])
      <4> SUFFICES ASSUME done + 1 < Len(sent) PROVE 0 < Whole(sent[(done + 1) + 1])
        BY <3>3
      <4>1. Len(sent) \in Nat
        BY <1>6 DEF Numbered
      <4>2. (done + 1) + 1 \in 1 .. Len(sent)
        BY <3>4, <4>1
      <4>3. sent[(done + 1) + 1] \in Packages
        BY <1>6, <4>2 DEF Numbered
      <4>4. Whole(sent[(done + 1) + 1]) \in Nat /\ Whole(sent[(done + 1) + 1]) >= 1
        BY <4>3, Parts
      <4> QED
        BY <4>4
    <3> QED
      BY <1>4, <1>6, <3>2, <3>3, <3>4, <3>5, Unfinished
  <2> QED
    BY <2>6, <2>8, <2>9
<1> QED
  BY <1>7, <1>8

LEMMA Regroup ==
    ASSUME NEW Q, NEW a \in Seq(Q), NEW b \in Seq(Q), NEW c \in Seq(Q)
    PROVE  a \o (b \o c) = (a \o b) \o c /\ a \o b \in Seq(Q)
<1>1. a \o b \in Seq(Q)
  OBVIOUS
<1>2. a \o (b \o c) = (a \o b) \o c
  BY ConcatAssociative
<1> QED
  BY <1>1, <1>2

LEMMA Longer ==
    ASSUME NEW Q, NEW a \in Seq(Q), NEW b \in Seq(Q), NEW c \in Seq(Q), NEW d \in Seq(Q),
           NEW e \in Seq(Q)
    PROVE  /\ a \o (b \o (c \o (d \o e))) = (a \o (b \o (c \o d))) \o e
           /\ a \o (b \o (c \o d)) \in Seq(Q)
<1>1. c \o (d \o e) = (c \o d) \o e /\ c \o d \in Seq(Q)
  BY Regroup
<1>2. b \o ((c \o d) \o e) = (b \o (c \o d)) \o e /\ b \o (c \o d) \in Seq(Q)
  <2> DEFINE x == c \o d
  <2>1. x \in Seq(Q)
    BY <1>1
  <2> HIDE DEF x
  <2>2. b \o (x \o e) = (b \o x) \o e /\ b \o x \in Seq(Q)
    BY <2>1, Regroup, SMTT(30)
  <2> QED
    BY <2>2 DEF x
<1>3. a \o ((b \o (c \o d)) \o e) = (a \o (b \o (c \o d))) \o e
      /\ a \o (b \o (c \o d)) \in Seq(Q)
  <2> DEFINE x == b \o (c \o d)
  <2>1. x \in Seq(Q)
    BY <1>2
  <2> HIDE DEF x
  <2>2. a \o (x \o e) = (a \o x) \o e /\ a \o x \in Seq(Q)
    BY <2>1, Regroup, SMTT(30)
  <2> QED
    BY <2>2 DEF x
<1> QED
  BY <1>1, <1>2, <1>3

LEMMA FreshSend ==
    ASSUME PkgTypeInv, PkgTypeInv', FreshInv, Send, begun_fresh' = begun_fresh
    PROVE  FreshInv'
<1> SUFFICES ASSUME begun_fresh PROVE Framing' /\ NothingHeldBack' /\ InStep'
  BY DEF FreshInv
<1>1. open /\ UNCHANGED <<conn, open, data, step, state, head_buf, pkg_buf, pkg_size, handled>>
  BY DEF Send, parser
<1>2. Framing /\ NothingHeldBack /\ InStep
  BY <1>1 DEF FreshInv
<1>3. PICK size \in Sizes, resets \in BOOLEAN :
         LET p == [conn |-> conn, nr |-> Len(sent) + 1, size |-> size, resets |-> resets]
         IN  sent' = Append(sent, p) /\ pipe' = pipe \o Encode(p)
  BY DEF Send
<1> DEFINE p == [conn |-> conn, nr |-> Len(sent) + 1, size |-> size, resets |-> resets]
           done == Len(handled)
<1>4. p.nr = Len(sent) + 1
  OBVIOUS
<1> HIDE DEF p
<1>5. sent' = Append(sent, p) /\ pipe' = pipe \o Encode(p)
  BY <1>3 DEF p
<1>6. /\ Numbered(sent) /\ done \in Nat /\ done <= Len(sent) /\ Len(sent) \in Nat
      /\ sent \in Seq(Packages) /\ sent' \in Seq(Packages)
      /\ head_buf \in Seq(AByte) /\ pkg_buf \in Seq(AByte) /\ data \in Seq(AByte)
      /\ pipe \in Seq(AByte)
  <2>1. sent \in Seq(Packages) /\ sent' \in Seq(Packages)
    BY DEF PkgTypeInv, TypeOK
  <2>2. Len(sent) \in Nat
    BY <2>1
  <2> QED
    BY <1>2, <2>1, <2>2, Known DEF Framing
<1>7. p \in Packages
  <2>1. conn \in 1 .. MaxConns /\ Len(sent) + 1 \in 1 .. MaxPackages
    BY <1>6, SizeAssumption DEF Send, PkgTypeInv, TypeOK
  <2> QED
    BY <2>1 DEF p, Packages
<1>8. /\ Len(sent') = Len(sent) + 1 /\ sent'[Len(sent) + 1] = p
      /\ \A k \in 1 .. Len(sent) : sent'[k] = sent[k]
      /\ DOMAIN sent = 1 .. Len(sent) /\ DOMAIN sent' = 1 .. Len(sent) + 1
  BY <1>5, <1>6, <1>7, Appended
<1>9. Encode(p) \in Seq(AByte) /\ Len(Encode(p)) >= 1 /\ Encode(p)[1] = Byte(p, 1)
  <2>1. /\ Encode(p) \in Seq(AByte) /\ Len(Encode(p)) = HeadBytes + p.size
        /\ \A k \in 1 .. HeadBytes + p.size : Encode(p)[k] = Byte(p, k)
        /\ p.size \in Nat /\ HeadBytes \in Nat \ {0}
    BY <1>7, BytesOf
  <2>2. 1 \in 1 .. HeadBytes + p.size /\ HeadBytes + p.size >= 1
    BY <2>1
  <2> QED
    BY <2>1, <2>2
<1>10. Stream' = Stream \o Encode(p) /\ Stream \in Seq(AByte)
  <2> DEFINE e == Encode(p)
  <2>1. e \in Seq(AByte)
    BY <1>9
  <2>2. pipe' = pipe \o e
    BY <1>5
  <2> HIDE DEF e
  <2>3. /\ head_buf \o (pkg_buf \o (data \o (pipe \o e)))
              = (head_buf \o (pkg_buf \o (data \o pipe))) \o e
        /\ head_buf \o (pkg_buf \o (data \o pipe)) \in Seq(AByte)
    BY <1>6, <2>1, Longer
  <2>4. Stream' = head_buf \o (pkg_buf \o (data \o (pipe \o e)))
    BY <1>1, <2>2 DEF Stream
  <2> QED
    BY <2>3, <2>4 DEF Stream, e
<1>11. Chain(sent', Stream', Len(handled'))
  <2>1. Chain(sent, Stream, done)
    BY <1>2 DEF InStep
  <2> HIDE DEF Stream
  <2>2. Chain(Append(sent, p), Stream \o Encode(p), done)
    BY <1>4, <1>6, <1>7, <1>10, <2>1, Grown
  <2> QED
    BY <1>1, <1>5, <1>10, <2>2
<1>12. state = "body" => done + 1 \in 1 .. Len(sent)
  <2> SUFFICES ASSUME state = "body" PROVE done + 1 \in 1 .. Len(sent)
    OBVIOUS
  <2> DEFINE rest == pkg_buf \o (data \o pipe)
  <2>1. rest \in Seq(AByte)
    <3> DEFINE x == data \o pipe
    <3>1. x \in Seq(AByte)
      BY <1>6, Joint
    <3> HIDE DEF x
    <3>2. pkg_buf \o x \in Seq(AByte)
      BY <1>6, <3>1, Joint
    <3> QED
      BY <3>2 DEF x
  <2>2. Chain(sent, head_buf \o rest, done) /\ Len(head_buf) = HeadBytes
    BY <1>2, Known DEF InStep, Stream
  <2> HIDE DEF rest
  <2> QED
    BY <1>6, <2>1, <2>2, Begins
<1>13. InStep'
  BY <1>1, <1>2, <1>8, <1>11, <1>12 DEF InStep
<1>14. Framing'
  <2>1. Len(handled') <= Len(sent')
    BY <1>1, <1>6, <1>8
  <2>2. ASSUME NEW k \in DOMAIN handled
        PROVE  handled[k] = [head |-> HeadOf(sent'[k]), body |-> BodyOf(sent'[k])]
    <3>1. DOMAIN handled = 1 .. done
      <4>1. handled \in Seq([head : Seq(AByte), body : Seq(AByte)])
        BY DEF PkgTypeInv
      <4> QED
        BY <4>1
    <3>2. k \in 1 .. Len(sent)
      BY <1>6, <3>1
    <3> QED
      BY <1>2, <1>8, <3>2 DEF Framing
  <2> QED
    BY <1>1, <2>1, <2>2 DEF Framing
<1>15. NothingHeldBack'
  <2> SUFFICES ASSUME step = "none", NEW k \in 1 .. Len(sent) + 1,
                      \A b \in ToSet(pipe') : b.pkg # sent'[k]
               PROVE  k <= done
    BY <1>1, <1>8 DEF NothingHeldBack
  <2>1. /\ Len(pipe') = Len(pipe) + Len(Encode(p)) /\ Len(pipe) \in Nat
        /\ Len(Encode(p)) \in Nat
        /\ DOMAIN pipe = 1 .. Len(pipe) /\ DOMAIN pipe' = 1 .. Len(pipe')
        /\ \A i \in 1 .. Len(pipe) : pipe'[i] = pipe[i]
        /\ \A i \in Len(pipe) + 1 .. Len(pipe) + Len(Encode(p)) :
              pipe'[i] = Encode(p)[i - Len(pipe)]
    <3>1. pipe' \in Seq(AByte)
      BY <1>5, <1>6, <1>9, Joint
    <3> QED
      BY <1>5, <1>6, <1>9, <3>1, Joint
  <2>2. k # Len(sent) + 1
    <3>1. /\ Len(pipe) + 1 \in Len(pipe) + 1 .. Len(pipe) + Len(Encode(p))
          /\ Len(pipe) + 1 \in DOMAIN pipe' /\ (Len(pipe) + 1) - Len(pipe) = 1
      BY <1>9, <2>1
    <3>2. pipe'[Len(pipe) + 1] = Byte(p, 1)
      BY <1>9, <2>1, <3>1
    <3>3. Byte(p, 1) \in ToSet(pipe') /\ Byte(p, 1).pkg = p
      BY <3>1, <3>2, Parts DEF ToSet
    <3> QED
      BY <1>8, <3>3
  <2>3. k \in 1 .. Len(sent)
    BY <1>6, <2>2
  <2>4. \A b \in ToSet(pipe) : b.pkg # sent[k]
    <3>1. \A i \in DOMAIN pipe : i \in DOMAIN pipe' /\ pipe'[i] = pipe[i]
      BY <2>1
    <3>2. \A b \in ToSet(pipe) : b \in ToSet(pipe')
      BY <3>1 DEF ToSet
    <3> QED
      BY <1>8, <2>3, <3>2
  <2> QED
    BY <1>2, <1>8, <2>3, <2>4 DEF NothingHeldBack
<1> QED
  BY <1>13, <1>14, <1>15

\* A connection is made by a parser in whatever state the last one left it.
LEMMA FreshConnect ==
    ASSUME PkgTypeInv, Connect, begun_fresh' = Fresh
    PROVE  FreshInv'
<1> SUFFICES ASSUME Fresh PROVE Framing' /\ NothingHeldBack' /\ InStep'
  BY DEF FreshInv
<1>1. /\ sent' = <<>> /\ pipe' = <<>> /\ handled' = <<>> /\ data' = <<>>
      /\ state' = "head" /\ head_buf' = <<>> /\ pkg_buf' = <<>>
  BY Known DEF Connect, Fresh, parser
<1>2. Len(<<>>) = 0 /\ DOMAIN <<>> = {} /\ \A Q : <<>> \in Seq(Q)
  OBVIOUS
<1>3. Stream' = <<>>
  BY <1>1, <1>2, Nothing DEF Stream
<1>4. Chain(<<>>, <<>>, 0)
  BY <1>2 DEF Chain
<1>5. InStep'
  BY <1>1, <1>2, <1>3, <1>4 DEF InStep
<1> QED
  BY <1>1, <1>2, <1>5 DEF Framing, NothingHeldBack

LEMMA InitFresh == ASSUME MCInit PROVE FreshInv
<1>1. /\ sent = <<>> /\ pipe = <<>> /\ handled = <<>> /\ data = <<>>
      /\ state = "head" /\ head_buf = <<>> /\ pkg_buf = <<>>
  BY DEF MCInit, Init, Fresh
<1>2. Len(<<>>) = 0 /\ DOMAIN <<>> = {} /\ \A Q : <<>> \in Seq(Q)
  OBVIOUS
<1>3. Stream = <<>>
  BY <1>1, <1>2, Nothing DEF Stream
<1>4. Chain(<<>>, <<>>, 0)
  BY <1>2 DEF Chain
<1>5. InStep
  BY <1>1, <1>2, <1>3, <1>4 DEF InStep
<1> QED
  BY <1>1, <1>2, <1>5 DEF FreshInv, Framing, NothingHeldBack

LEMMA NextFresh ==
    ASSUME PkgTypeInv, PkgTypeInv', FreshInv, [MCNext]_<<vars, begun_fresh>>
    PROVE  FreshInv'
<1>1. CASE Next /\ begun_fresh' = IF conn' = conn THEN begun_fresh ELSE Fresh
  <2>1. CASE Read
    BY <1>1, <2>1, FreshRead DEF Read
  <2>2. CASE ParseHead
    BY <1>1, <2>2, FreshParseHead DEF ParseHead
  <2>3. CASE ParseBody
    BY <1>1, <2>3, FreshParseBody DEF ParseBody
  <2>4. CASE Send
    BY <1>1, <2>4, FreshSend DEF Send
  <2>5. CASE Close
    <3>1. /\ begun_fresh' = begun_fresh /\ ~open' /\ step' = "none" /\ step = "none"
          /\ UNCHANGED <<sent, pipe, handled>>
      BY <1>1, <2>5 DEF Close, server
    <3> QED
      BY <3>1 DEF FreshInv, Framing, NothingHeldBack
  <2>6. CASE Connect
    <3>1. conn' # conn
      BY <2>6 DEF Connect, PkgTypeInv, TypeOK
    <3> QED
      BY <1>1, <2>6, <3>1, FreshConnect
  <2> QED
    BY <1>1, <2>1, <2>2, <2>3, <2>4, <2>5, <2>6 DEF Next
<1>2. CASE UNCHANGED <<vars, begun_fresh>>
  BY <1>2 DEF vars, server, parser, FreshInv, Framing, NothingHeldBack, InStep, Stream
<1> QED
  BY <1>1, <1>2 DEF MCNext

\* However the reads cut the bytes of a connection, the handler gets the packages that the
\* server has sent on it, in order and whole, and gets each as soon as its last byte has
\* been read, if the parser was in its first state when the connection was made.
THEOREM PackagesArrive == MCSpec => []PackagesFromFresh
<1>1. MCInit => PkgTypeInv
  BY InitPkgType DEF MCInit
<1>2. PkgTypeInv /\ [MCNext]_<<vars, begun_fresh>> => PkgTypeInv'
  BY NextPkgType DEF MCNext
<1>3. MCSpec => []PkgTypeInv
  BY <1>1, <1>2, PTL DEF MCSpec
<1>4. MCSpec => []FreshInv
  BY <1>3, InitFresh, NextFresh, PTL DEF MCSpec
<1>5. FreshInv => PackagesFromFresh
  BY DEF FreshInv, PackagesFromFresh
<1> QED
  BY <1>4, <1>5, PTL

-----------------------------------------------------------------------------
(* The TLS transport: types.  A callback composes functions on the         *)
(* transport's record, so that what holds is said of each function (Sound, *)
(* Moves, Carrying), and put together for each callback.  The types come   *)
(* first; then where every item is, which proves that no call is lost;     *)
(* then the order of the bytes, which proves what a connection carries.    *)

Stuff == Items \cup Internal
OnWire == Stuff \cup {"ssl"}

Transports ==
    [state : {"NOT_CONN", "CONNECTING", "HANDSHAKEING", "DONE"},
     conn_pending : Seq(Stuff), write_wait : Seq(Stuff), writing : Seq(Stuff),
     resp_pending : Seq(Requests), when_tcp_is_writing : Seq(Stuff),
     should_retry : Stuff \cup {NoItem}, retry_wb : Stuff \cup {NoItem},
     is_writing : BOOLEAN, write_async : BOOLEAN, is_handshake_completed : BOOLEAN,
     ssl : {"clear", "handshake", "open", "failed"}, in : Inputs \cup {"none"},
     out : Seq(OnWire), sent : Seq(OnWire), answered : SUBSET Items,
     torn : BOOLEAN, lost : SUBSET Items]

\* What is tried again is the item whose bytes are kept for it, unless its time was over.
Sound(t) == t \in Transports /\ t.should_retry \in {NoItem, t.retry_wb}

LEMMA Pieces ==
    /\ \A Q : <<>> \in Seq(Q)
    /\ \A Q : \A a, b \in Seq(Q) : a \o b \in Seq(Q)
    /\ \A Q : \A a \in Seq(Q) : \A e \in Q : Append(a, e) \in Seq(Q) /\ <<e>> \in Seq(Q)
    /\ \A Q : \A a \in Seq(Q) : a # <<>> => Head(a) \in Q /\ Tail(a) \in Seq(Q)
  OBVIOUS

LEMMA SomeType ==
    ASSUME NEW x \in Stuff \cup {NoItem}
    PROVE  /\ Some(x) \in Seq(Stuff) /\ Some(x) \in Seq(OnWire)
           /\ \A i \in Items : Contains(Some(x), i) <=> x = i
           /\ \A i \in Items : Once(i, Some(x))
<1>1. CASE x = NoItem
  BY <1>1, InNone, Pieces, TlsItemsAssumption DEF Some
<1>2. CASE x # NoItem
  <2>1. Some(x) = <<x>> /\ x \in Stuff /\ x \in OnWire
    BY <1>2 DEF Some, OnWire
  <2>2. <<x>> \in Seq(Stuff) /\ <<x>> \in Seq(OnWire)
    BY <2>1, Pieces
  <2> QED
    BY <2>1, <2>2, InOne
<1> QED
  BY <1>1, <1>2

LEMMA CountedType ==
    ASSUME NEW bytes \in Seq(OnWire)
    PROVE  /\ Counted(bytes) \in Seq(OnWire)
           /\ \A i \in Items : Contains(Counted(bytes), i) <=> Contains(bytes, i)
<1> DEFINE S == Items \cup (Internal \ {"heartbeat"})
<1>1. /\ Only(S, bytes) \in Seq(S \cap OnWire)
      /\ \A i : Contains(Only(S, bytes), i) <=> i \in S /\ Contains(bytes, i)
  BY OnlySelects
<1>2. S \cap OnWire = S /\ S \subseteq OnWire
  BY DEF OnWire, Stuff
<1>3. Only(S, bytes) \in Seq(OnWire)
  <2> HIDE DEF S
  <2> QED
    BY <1>1, <1>2
<1> QED
  BY <1>1, <1>3 DEF Counted

\* Stuff may be put on the wire.
LEMMA Sendable == \A a \in Seq(Stuff) : a \in Seq(OnWire)
<1>1. Stuff \subseteq OnWire
  BY DEF OnWire
<1> QED
  BY <1>1

LEMMA RequestsAreStuff == \A a \in Seq(Requests) : a \in Seq(Stuff)
<1>1. Requests \subseteq Stuff
  BY DEF Stuff, Items
<1> QED
  BY <1>1

LEMMA SoundShake == ASSUME NEW t, Sound(t) PROVE Sound(Shake(t))
<1>1. Append(t.out, "ssl") \in Seq(OnWire)
  BY Pieces DEF Sound, Transports, OnWire
<1>2. /\ Sound([t EXCEPT !.ssl = "handshake", !.out = Append(@, "ssl")])
      /\ Sound([t EXCEPT !.ssl = "open", !.in = "none", !.out = Append(@, "ssl")])
      /\ Sound([t EXCEPT !.ssl = "failed", !.in = "none"])
  BY <1>1 DEF Sound, Transports
<1> QED
  BY <1>2 DEF Shake

LEMMA SoundShutdown == ASSUME NEW t, Sound(t) PROVE Sound(Shutdown(t))
<1>1. Append(t.out, "ssl") \in Seq(OnWire)
  BY Pieces DEF Sound, Transports, OnWire
<1>2. Sound([t EXCEPT !.out = Append(@, "ssl")])
  BY <1>1 DEF Sound, Transports
<1> QED
  BY <1>2 DEF Shutdown

LEMMA SoundWriteToTcp == ASSUME NEW t, Sound(t) PROVE Sound(WriteToTcp(t))
<1>1. /\ t.writing \o t.when_tcp_is_writing \in Seq(Stuff)
      /\ <<>> \in Seq(Stuff) /\ <<>> \in Seq(OnWire)
      /\ t.sent \o Counted(t.out) \in Seq(OnWire)
      /\ IsOpen(t) \in BOOLEAN
  <2>1. /\ t.writing \in Seq(Stuff) /\ t.when_tcp_is_writing \in Seq(Stuff)
        /\ t.sent \in Seq(OnWire) /\ t.out \in Seq(OnWire) /\ IsOpen(t) \in BOOLEAN
    BY DEF Sound, Transports, IsOpen
  <2>2. Counted(t.out) \in Seq(OnWire)
    BY <2>1, CountedType
  <2> QED
    BY <2>1, <2>2, Pieces
<1>2. Sound([t EXCEPT !.write_async = TRUE])
  BY DEF Sound, Transports
<1>3. /\ Sound([t EXCEPT !.writing = @ \o t.when_tcp_is_writing, !.when_tcp_is_writing = <<>>,
                !.out = <<>>, !.is_writing = IsOpen(t), !.sent = @ \o Counted(t.out)])
      /\ Sound([t EXCEPT !.writing = @ \o t.when_tcp_is_writing, !.when_tcp_is_writing = <<>>,
                !.out = <<>>, !.is_writing = IsOpen(t), !.sent = @])
  BY <1>1 DEF Sound, Transports
<1> QED
  BY <1>2, <1>3 DEF WriteToTcp

LEMMA SoundTcpReset == ASSUME NEW t, Sound(t) PROVE Sound(TcpReset(t))
<1>1. <<>> \in Seq(Stuff) /\ <<>> \in Seq(Requests) /\ \A q : ItemsOf(q) \subseteq Items
  BY Pieces DEF ItemsOf
<1> QED
  BY <1>1 DEF Sound, Transports, TcpReset, AnswerAll

LEMMA SoundTlsReset == ASSUME NEW t, Sound(t) PROVE Sound(TlsReset(t))
<1> DEFINE u == WriteToTcp(Shutdown(t))
           v == [u EXCEPT
            !.is_handshake_completed = FALSE,
            !.ssl = "clear", !.in = "none", !.out = <<>>,
            !.writing = @ \o Some(u.should_retry) \o u.when_tcp_is_writing,
            !.should_retry = NoItem, !.retry_wb = NoItem, !.when_tcp_is_writing = <<>>]
<1>1. Sound(u)
  BY SoundShutdown, SoundWriteToTcp
<1> HIDE DEF u
<1>2. /\ u.writing \o Some(u.should_retry) \in Seq(Stuff)
      /\ <<>> \in Seq(Stuff) /\ <<>> \in Seq(OnWire)
  BY <1>1, SomeType, Pieces DEF Sound, Transports
<1>3. u.writing \o Some(u.should_retry) \o u.when_tcp_is_writing \in Seq(Stuff)
  BY <1>1, <1>2, Pieces DEF Sound, Transports
<1>4. Sound(v)
  BY <1>1, <1>2, <1>3, ZenonT(60) DEF Sound, Transports
<1>5. TlsReset(t) = TcpReset(v)
  BY DEF TlsReset, u
<1> QED
  BY <1>4, <1>5, SoundTcpReset

LEMMA SoundUnpend == ASSUME NEW t, Sound(t) PROVE Sound(Unpend(t))
<1>1. t.write_wait \o t.conn_pending \in Seq(Stuff) /\ <<>> \in Seq(Stuff)
  BY Pieces DEF Sound, Transports
<1>2. Sound([t EXCEPT !.write_wait = @ \o t.conn_pending, !.conn_pending = <<>>])
  BY <1>1 DEF Sound, Transports
<1> QED
  BY <1>2 DEF Unpend

LEMMA SoundJoin ==
    ASSUME NEW t, Sound(t), NEW items \in Seq(Stuff) PROVE Sound(Join(t, items))
<1>1. t.writing \o items \in Seq(Stuff) /\ t.when_tcp_is_writing \o items \in Seq(Stuff)
  BY Pieces DEF Sound, Transports
<1> QED
  BY <1>1 DEF Sound, Transports, Join

LEMMA SoundAllWritten == ASSUME NEW t, Sound(t) PROVE Sound(AllWritten(t))
<1> DEFINE items == Some(t.should_retry) \o t.write_wait
           j == Join(t, items)
           u == [j EXCEPT
            !.out = @ \o Some(t.retry_wb) \o t.write_wait,
            !.should_retry = NoItem, !.retry_wb = NoItem, !.write_wait = <<>>,
            !.is_handshake_completed = TRUE]
<1>1. /\ Some(t.should_retry) \in Seq(Stuff) /\ Some(t.retry_wb) \in Seq(OnWire)
      /\ t.write_wait \in Seq(Stuff) /\ t.write_wait \in Seq(OnWire)
  BY SomeType, Sendable DEF Sound, Transports
<1>2. items \in Seq(Stuff)
  BY <1>1, Pieces
<1> HIDE DEF items
<1>3. Sound(j)
  BY <1>2, SoundJoin
<1> HIDE DEF j
<1>4. j.out \o Some(t.retry_wb) \in Seq(OnWire)
  BY <1>1, <1>3, Pieces DEF Sound, Transports
<1>5. j.out \o Some(t.retry_wb) \o t.write_wait \in Seq(OnWire) /\ <<>> \in Seq(Stuff)
  BY <1>1, <1>4, Pieces
<1>6. Sound(u)
  BY <1>3, <1>5 DEF Sound, Transports
<1>7. AllWritten(t) = WriteToTcp(u)
  BY DEF AllWritten, u, j, items
<1> QED
  BY <1>6, <1>7, SoundWriteToTcp

LEMMA SoundNextRetry ==
    ASSUME NEW t, Sound(t), t.retry_wb = NoItem => t.write_wait # <<>>
    PROVE  Sound(NextRetry(t))
<1>1. t.retry_wb = NoItem => Head(t.write_wait) \in Stuff /\ Tail(t.write_wait) \in Seq(Stuff)
  BY Pieces DEF Sound, Transports
<1>2. t.retry_wb = NoItem =>
          Sound([t EXCEPT !.should_retry = Head(t.write_wait),
                          !.retry_wb = Head(t.write_wait), !.write_wait = Tail(@)])
  BY <1>1 DEF Sound, Transports
<1> QED
  BY <1>2 DEF NextRetry

\* SSL's part changes neither the queues nor what is tried again.
LEMMA ShakeLeaves ==
    ASSUME NEW t, Sound(t)
    PROVE  /\ Shake(t).retry_wb = t.retry_wb /\ Shake(t).should_retry = t.should_retry
           /\ Shake(t).write_wait = t.write_wait /\ Shake(t).state = t.state
           /\ Shake(t).conn_pending = t.conn_pending /\ Shake(t).writing = t.writing
           /\ Shake(t).resp_pending = t.resp_pending
           /\ Shake(t).when_tcp_is_writing = t.when_tcp_is_writing
           /\ Shake(t).is_writing = t.is_writing /\ Shake(t).sent = t.sent
           /\ Shake(t).answered = t.answered /\ Shake(t).lost = t.lost
           /\ Shake(t).torn = t.torn /\ Shake(t).out \in {t.out, Append(t.out, "ssl")}
  BY DEF Shake, Sound, Transports

LEMMA SoundWriteToBio == ASSUME NEW t, Sound(t) PROVE Sound(WriteToBio(t))
<1> DEFINE u == Unpend(t)
           v == Shake(u)
<1>1. Sound(u) /\ Sound(v)
  BY SoundUnpend, SoundShake
<1>2. v.retry_wb = u.retry_wb /\ v.write_wait = u.write_wait
  BY <1>1, ShakeLeaves
<1> HIDE DEF u, v
<1>3. \/ u.retry_wb = NoItem /\ u.write_wait = <<>>
      \/ Sound(NextRetry(v))
  BY <1>1, <1>2, SoundNextRetry
<1>4. WriteToBio(t) \in {t, u, AllWritten(v), NextRetry(v), TlsReset(NextRetry(v))}
      /\ (u.retry_wb = NoItem /\ u.write_wait = <<>> => WriteToBio(t) \in {t, u})
  BY DEF WriteToBio, u, v
<1> QED
  BY <1>1, <1>3, <1>4, SoundAllWritten, SoundTlsReset

LEMMA SoundHandlers == ASSUME NEW t, Sound(t), NEW u \in Handlers(t) PROVE Sound(u)
<1>1. ASSUME NEW r \in Requests
      PROVE  Sound([AnswerAll(t, <<r>>) EXCEPT !.resp_pending = Only(Requests \ {r}, @)])
  <2>1. Only(Requests \ {r}, t.resp_pending) \in Seq(Requests)
    <3>1. Only(Requests \ {r}, t.resp_pending) \in Seq((Requests \ {r}) \cap Requests)
      BY OnlySelects DEF Sound, Transports
    <3>2. (Requests \ {r}) \cap Requests \subseteq Requests
      OBVIOUS
    <3> QED
      BY <3>1, <3>2
  <2>2. ItemsOf(<<r>>) \subseteq Items
    BY DEF ItemsOf
  <2> QED
    BY <2>1, <2>2 DEF Sound, Transports, AnswerAll
<1>2. Sound(HandshakeDone(t))
  <2>1. <<"ack">> \o t.write_wait \in Seq(Stuff)
    <3>1. <<"ack">> \in Seq(Stuff)
      BY Pieces DEF Stuff, Internal
    <3> QED
      BY <3>1, Pieces DEF Sound, Transports
  <2> QED
    BY <2>1 DEF Sound, Transports, HandshakeDone
<1> QED
  BY <1>1, <1>2, SoundTlsReset DEF Handlers

LEMMA SoundReadFromBio == ASSUME NEW t, Sound(t), NEW u \in ReadFromBio(t) PROVE Sound(u)
<1> DEFINE s == Shake(t)
           h == [s EXCEPT !.is_handshake_completed = TRUE]
<1>1. Sound(s)
  BY SoundShake
<1> HIDE DEF s
<1>2. Sound([s EXCEPT !.in = "none"])
  BY <1>1 DEF Sound, Transports
<1>3. Sound([s EXCEPT !.ssl = "handshake", !.in = "none", !.out = Append(@, "ssl")])
  <2>1. Append(s.out, "ssl") \in Seq(OnWire)
    BY <1>1, Pieces DEF Sound, Transports, OnWire
  <2> QED
    BY <1>1, <2>1 DEF Sound, Transports
<1>4. Sound(h)
  BY <1>1 DEF Sound, Transports
<1> HIDE DEF h
<1>5. ASSUME NEW v \in Handlers(h) PROVE Sound(Shake([v EXCEPT !.in = "none"]))
  <2>1. Sound(v)
    BY <1>4, SoundHandlers
  <2>2. Sound([v EXCEPT !.in = "none"])
    BY <2>1 DEF Sound, Transports
  <2> QED
    BY <2>2, SoundShake
<1>6. \/ u \in {TlsReset(s), s, [s EXCEPT !.in = "none"],
                [s EXCEPT !.ssl = "handshake", !.in = "none", !.out = Append(@, "ssl")]}
      \/ \E v \in Handlers(h) : u = Shake([v EXCEPT !.in = "none"])
  BY DEF ReadFromBio, s, h
<1> QED
  BY <1>1, <1>2, <1>3, <1>5, <1>6, SoundTlsReset

-----------------------------------------------------------------------------
(* The TLS transport: where the items are.                                 *)

Waits(t, i) == Contains(t.conn_pending, i)
Queued(t, i) == Contains(t.write_wait, i)
Writing(t, i) == Contains(t.writing, i)
Resp(t, i) == Contains(t.resp_pending, i)
Joins(t, i) == Contains(t.when_tcp_is_writing, i)
Again(t, i) == t.should_retry = i

Holds(t, i) ==
    Waits(t, i) \/ Queued(t, i) \/ Writing(t, i) \/ Resp(t, i) \/ Joins(t, i) \/ Again(t, i)

Alone(t, i) ==
    /\ Once(i, t.conn_pending) /\ Once(i, t.write_wait) /\ Once(i, t.writing)
    /\ Once(i, t.resp_pending) /\ Once(i, t.when_tcp_is_writing)
    /\ Waits(t, i) => ~(Queued(t, i) \/ Writing(t, i) \/ Resp(t, i) \/ Joins(t, i) \/ Again(t, i))
    /\ Queued(t, i) => ~(Writing(t, i) \/ Resp(t, i) \/ Joins(t, i) \/ Again(t, i))
    /\ Writing(t, i) => ~(Resp(t, i) \/ Joins(t, i) \/ Again(t, i))
    /\ Resp(t, i) => ~(Joins(t, i) \/ Again(t, i))
    /\ Joins(t, i) => ~Again(t, i)

\* Its bytes have been made for the present connection, or for an earlier one.
Encoded(t, i) == Contains(t.out, i) \/ Contains(t.sent, i) \/ t.retry_wb = i

\* From t to u items are only moved, answered or forgotten by SSL.
MovesOf(t, u, i) ==
    /\ Alone(t, i) => Alone(u, i)
    /\ Holds(u, i) => Holds(t, i)
    /\ Holds(t, i) => Holds(u, i) \/ i \in u.answered
    /\ i \in t.answered => i \in u.answered
    /\ i \in u.answered => i \in t.answered \/ Holds(t, i) \/ Encoded(t, i)
    /\ Encoded(u, i) => Encoded(t, i) \/ Holds(t, i)
Moves(t, u) == u.lost = t.lost /\ \A i \in Items : MovesOf(t, u, i)

LEMMA MovesOn ==
    ASSUME NEW t, NEW u, NEW v, Moves(t, u), Moves(u, v) PROVE Moves(t, v)
  BY DEF Moves, MovesOf

LEMMA MovesNot == \A t : Moves(t, t)
  BY DEF Moves, MovesOf

\* A step that leaves the items where they are.
LEMMA MovesNothing ==
    ASSUME NEW t, NEW u,
           u.lost = t.lost, u.answered = t.answered,
           u.conn_pending = t.conn_pending, u.write_wait = t.write_wait,
           u.writing = t.writing, u.resp_pending = t.resp_pending,
           u.when_tcp_is_writing = t.when_tcp_is_writing, u.should_retry = t.should_retry,
           \A i \in Items : Encoded(u, i) => Encoded(t, i)
    PROVE  Moves(t, u)
  BY DEF Moves, MovesOf, Alone, Holds, Waits, Queued, Writing, Resp, Joins, Again

LEMMA WithSsl ==
    ASSUME NEW t, Sound(t)
    PROVE  \A i \in Items : Contains(Append(t.out, "ssl"), i) <=> Contains(t.out, i)
<1>1. t.out \in Seq(OnWire) /\ "ssl" \in OnWire
  BY DEF Sound, Transports, OnWire
<1>2. \A i \in Items : i # "ssl"
  BY TlsItemsAssumption
<1> QED
  BY <1>1, <1>2, InAppend

LEMMA MovesShake == ASSUME NEW t, Sound(t) PROVE Moves(t, Shake(t))
<1>1. \A i \in Items : Encoded(Shake(t), i) => Encoded(t, i)
  BY ShakeLeaves, WithSsl DEF Encoded
<1> QED
  BY <1>1, ShakeLeaves, MovesNothing

LEMMA MovesShutdown == ASSUME NEW t, Sound(t) PROVE Moves(t, Shutdown(t))
<1> DEFINE u == [t EXCEPT !.out = Append(@, "ssl")]
<1>1. /\ u.lost = t.lost /\ u.answered = t.answered
      /\ u.conn_pending = t.conn_pending /\ u.write_wait = t.write_wait
      /\ u.writing = t.writing /\ u.resp_pending = t.resp_pending
      /\ u.when_tcp_is_writing = t.when_tcp_is_writing /\ u.should_retry = t.should_retry
      /\ u.out = Append(t.out, "ssl") /\ u.sent = t.sent /\ u.retry_wb = t.retry_wb
  BY DEF Sound, Transports
<1> HIDE DEF u
<1>2. \A i \in Items : Encoded(u, i) => Encoded(t, i)
  BY <1>1, WithSsl DEF Encoded
<1>3. Moves(t, u)
  BY <1>1, <1>2, MovesNothing
<1> QED
  BY <1>3, MovesNot DEF Shutdown, u

LEMMA MovesWriteToTcp == ASSUME NEW t, Sound(t) PROVE Moves(t, WriteToTcp(t))
<1>1. Moves(t, [t EXCEPT !.write_async = TRUE])
  <2> DEFINE u == [t EXCEPT !.write_async = TRUE]
  <2>1. /\ u.lost = t.lost /\ u.answered = t.answered
        /\ u.conn_pending = t.conn_pending /\ u.write_wait = t.write_wait
        /\ u.writing = t.writing /\ u.resp_pending = t.resp_pending
        /\ u.when_tcp_is_writing = t.when_tcp_is_writing /\ u.should_retry = t.should_retry
        /\ u.out = t.out /\ u.sent = t.sent /\ u.retry_wb = t.retry_wb
    BY DEF Sound, Transports
  <2> HIDE DEF u
  <2>2. \A i \in Items : Encoded(u, i) => Encoded(t, i)
    BY <2>1 DEF Encoded
  <2> QED
    BY <2>1, <2>2, MovesNothing DEF u
<1>2. ASSUME NEW passed, passed \in {t.sent, t.sent \o Counted(t.out)}
      PROVE  Moves(t, [t EXCEPT !.writing = @ \o t.when_tcp_is_writing,
                !.when_tcp_is_writing = <<>>, !.out = <<>>, !.is_writing = IsOpen(t),
                !.sent = passed])
  <2> DEFINE u == [t EXCEPT !.writing = @ \o t.when_tcp_is_writing,
                !.when_tcp_is_writing = <<>>, !.out = <<>>, !.is_writing = IsOpen(t),
                !.sent = passed]
  <2>1. /\ u.lost = t.lost /\ u.answered = t.answered
        /\ u.conn_pending = t.conn_pending /\ u.write_wait = t.write_wait
        /\ u.writing = t.writing \o t.when_tcp_is_writing /\ u.resp_pending = t.resp_pending
        /\ u.when_tcp_is_writing = <<>> /\ u.should_retry = t.should_retry
        /\ u.out = <<>> /\ u.sent = passed /\ u.retry_wb = t.retry_wb
        /\ t.writing \in Seq(Stuff) /\ t.when_tcp_is_writing \in Seq(Stuff)
        /\ t.out \in Seq(OnWire) /\ t.sent \in Seq(OnWire)
    BY DEF Sound, Transports
  <2> HIDE DEF u
  <2> SUFFICES ASSUME NEW i \in Items PROVE MovesOf(t, u, i)
    BY <2>1 DEF Moves, u
  <2>2. /\ Contains(u.writing, i) <=> Contains(t.writing, i) \/ Contains(t.when_tcp_is_writing, i)
        /\ Once(i, u.writing) <=>
              /\ Once(i, t.writing) /\ Once(i, t.when_tcp_is_writing)
              /\ ~(Contains(t.writing, i) /\ Contains(t.when_tcp_is_writing, i))
    BY <2>1, InConcat
  <2>3. ~Contains(u.when_tcp_is_writing, i) /\ Once(i, u.when_tcp_is_writing)
        /\ ~Contains(u.out, i)
    BY <2>1, InNone
  <2>4. Contains(u.sent, i) => Contains(t.sent, i) \/ Contains(t.out, i)
    <3>1. CASE passed = t.sent
      BY <2>1, <3>1
    <3>2. CASE passed = t.sent \o Counted(t.out)
      <4>1. /\ Counted(t.out) \in Seq(OnWire)
            /\ Contains(Counted(t.out), i) <=> Contains(t.out, i)
        BY <2>1, CountedType
      <4> QED
        BY <2>1, <3>2, <4>1, InConcat
    <3> QED
      BY <1>2, <3>1, <3>2
  <2> QED
    BY <2>1, <2>2, <2>3, <2>4
       DEF MovesOf, Encoded, Alone, Holds, Waits, Queued, Writing, Resp, Joins, Again
<1>3. \/ WriteToTcp(t) \in {t, [t EXCEPT !.write_async = TRUE]}
      \/ \E passed \in {t.sent, t.sent \o Counted(t.out)} :
            WriteToTcp(t) = [t EXCEPT !.writing = @ \o t.when_tcp_is_writing,
                !.when_tcp_is_writing = <<>>, !.out = <<>>, !.is_writing = IsOpen(t),
                !.sent = passed]
  BY DEF WriteToTcp, Sound, Transports
<1> QED
  BY <1>1, <1>2, <1>3, MovesNot

LEMMA MovesTcpReset == ASSUME NEW t, Sound(t) PROVE Moves(t, TcpReset(t))
<1> DEFINE all == t.writing \o t.conn_pending \o t.write_wait \o t.resp_pending
           u == TcpReset(t)
<1>1. /\ u.lost = t.lost /\ u.answered = t.answered \cup ItemsOf(all)
      /\ u.conn_pending = <<>> /\ u.write_wait = <<>> /\ u.writing = <<>>
      /\ u.resp_pending = <<>>
      /\ u.when_tcp_is_writing = t.when_tcp_is_writing /\ u.should_retry = t.should_retry
      /\ u.out = t.out /\ u.sent = t.sent /\ u.retry_wb = t.retry_wb
      /\ t.writing \in Seq(Stuff) /\ t.conn_pending \in Seq(Stuff)
      /\ t.write_wait \in Seq(Stuff) /\ t.resp_pending \in Seq(Stuff)
  BY RequestsAreStuff DEF Sound, Transports, TcpReset, AnswerAll
<1> HIDE DEF u
<1> SUFFICES ASSUME NEW i \in Items PROVE MovesOf(t, u, i)
  BY <1>1 DEF Moves, u
<1>2. Contains(all, i) <=> Writing(t, i) \/ Waits(t, i) \/ Queued(t, i) \/ Resp(t, i)
  <2> DEFINE a == t.writing \o t.conn_pending
             b == a \o t.write_wait
  <2>1. a \in Seq(Stuff) /\ b \in Seq(Stuff)
    BY <1>1, Pieces
  <2>2. Contains(a, i) <=> Contains(t.writing, i) \/ Contains(t.conn_pending, i)
    BY <1>1, InConcat
  <2> HIDE DEF a
  <2>3. Contains(b, i) <=> Contains(a, i) \/ Contains(t.write_wait, i)
    BY <1>1, <2>1, InConcat
  <2> HIDE DEF b
  <2>4. Contains(b \o t.resp_pending, i) <=> Contains(b, i) \/ Contains(t.resp_pending, i)
    BY <1>1, <2>1, InConcat
  <2> QED
    BY <2>2, <2>3, <2>4 DEF a, b, Writing, Waits, Queued, Resp
<1>3. i \in ItemsOf(all) <=> Contains(all, i)
  <2>1. all \in Seq(Stuff)
    BY <1>1, Pieces
  <2> HIDE DEF all
  <2> QED
    BY <2>1 DEF ItemsOf, ToSet, Contains
<1>4. ~Contains(<<>>, i) /\ Once(i, <<>>)
  BY InNone
<1> HIDE DEF all
<1> QED
  BY <1>1, <1>2, <1>3, <1>4
     DEF MovesOf, Encoded, Alone, Holds, Waits, Queued, Writing, Resp, Joins, Again

LEMMA MovesTlsReset == ASSUME NEW t, Sound(t) PROVE Moves(t, TlsReset(t))
<1> DEFINE u == WriteToTcp(Shutdown(t))
           v == [u EXCEPT
            !.is_handshake_completed = FALSE,
            !.ssl = "clear", !.in = "none", !.out = <<>>,
            !.writing = @ \o Some(u.should_retry) \o u.when_tcp_is_writing,
            !.should_retry = NoItem, !.retry_wb = NoItem, !.when_tcp_is_writing = <<>>]
<1>1. Sound(u) /\ Moves(t, u)
  BY SoundShutdown, SoundWriteToTcp, MovesShutdown, MovesWriteToTcp, MovesOn
<1> HIDE DEF u
<1> DEFINE again == Some(u.should_retry)
           joined == u.writing \o again
<1>2. /\ u.writing \in Seq(Stuff) /\ again \in Seq(Stuff)
      /\ u.when_tcp_is_writing \in Seq(Stuff)
  BY <1>1, SomeType DEF Sound, Transports
<1>3. joined \in Seq(Stuff) /\ joined \o u.when_tcp_is_writing \in Seq(Stuff)
  BY <1>2, Pieces
<1>4. Sound(v)
  <2>1. <<>> \in Seq(Stuff) /\ <<>> \in Seq(OnWire)
    BY Pieces
  <2> QED
    BY <1>1, <1>3, <2>1, ZenonT(60) DEF Sound, Transports
<1>5. Moves(u, v)
  <2>1. /\ v.lost = u.lost /\ v.answered = u.answered
        /\ v.conn_pending = u.conn_pending /\ v.write_wait = u.write_wait
        /\ v.writing = joined \o u.when_tcp_is_writing /\ v.resp_pending = u.resp_pending
        /\ v.when_tcp_is_writing = <<>> /\ v.should_retry = NoItem
        /\ v.out = <<>> /\ v.sent = u.sent /\ v.retry_wb = NoItem
    BY <1>1 DEF Sound, Transports
  <2> HIDE DEF v
  <2> SUFFICES ASSUME NEW i \in Items PROVE MovesOf(u, v, i)
    BY <2>1 DEF Moves
  <2>2. /\ Contains(again, i) <=> u.should_retry = i
        /\ Once(i, again)
    BY <1>1, SomeType DEF Sound, Transports
  <2> HIDE DEF again
  <2>3. /\ Contains(joined, i) <=> Contains(u.writing, i) \/ Contains(again, i)
        /\ Once(i, joined) <=> /\ Once(i, u.writing) /\ Once(i, again)
                              /\ ~(Contains(u.writing, i) /\ Contains(again, i))
    BY <1>2, InConcat
  <2> HIDE DEF joined
  <2>4. /\ Contains(v.writing, i) <=>
              Contains(joined, i) \/ Contains(u.when_tcp_is_writing, i)
        /\ Once(i, v.writing) <=>
              /\ Once(i, joined) /\ Once(i, u.when_tcp_is_writing)
              /\ ~(Contains(joined, i) /\ Contains(u.when_tcp_is_writing, i))
    BY <1>2, <1>3, <2>1, InConcat
  <2>5. /\ ~Contains(v.when_tcp_is_writing, i) /\ Once(i, v.when_tcp_is_writing)
        /\ ~Contains(v.out, i) /\ NoItem # i
    BY <2>1, InNone, TlsItemsAssumption
  <2> QED
    BY <2>1, <2>2, <2>3, <2>4, <2>5
       DEF MovesOf, Encoded, Alone, Holds, Waits, Queued, Writing, Resp, Joins, Again
<1>6. TlsReset(t) = TcpReset(v)
  BY DEF TlsReset, u
<1> QED
  BY <1>1, <1>4, <1>5, <1>6, MovesTcpReset, MovesOn

LEMMA MovesUnpend == ASSUME NEW t, Sound(t) PROVE Moves(t, Unpend(t))
<1> DEFINE u == [t EXCEPT !.write_wait = @ \o t.conn_pending, !.conn_pending = <<>>]
<1>1. /\ u.lost = t.lost /\ u.answered = t.answered
      /\ u.conn_pending = <<>> /\ u.write_wait = t.write_wait \o t.conn_pending
      /\ u.writing = t.writing /\ u.resp_pending = t.resp_pending
      /\ u.when_tcp_is_writing = t.when_tcp_is_writing /\ u.should_retry = t.should_retry
      /\ u.out = t.out /\ u.sent = t.sent /\ u.retry_wb = t.retry_wb
      /\ t.write_wait \in Seq(Stuff) /\ t.conn_pending \in Seq(Stuff)
  BY DEF Sound, Transports
<1> HIDE DEF u
<1>2. ASSUME NEW i \in Items PROVE MovesOf(t, u, i)
  <2>1. /\ Contains(u.write_wait, i) <=> Contains(t.write_wait, i) \/ Contains(t.conn_pending, i)
        /\ Once(i, u.write_wait) <=>
              /\ Once(i, t.write_wait) /\ Once(i, t.conn_pending)
              /\ ~(Contains(t.write_wait, i) /\ Contains(t.conn_pending, i))
    BY <1>1, InConcat
  <2>2. ~Contains(u.conn_pending, i) /\ Once(i, u.conn_pending)
    BY <1>1, InNone
  <2> QED
    BY <1>1, <2>1, <2>2
       DEF MovesOf, Encoded, Alone, Holds, Waits, Queued, Writing, Resp, Joins, Again
<1>3. Moves(t, u)
  BY <1>1, <1>2 DEF Moves
<1> QED
  BY <1>3, MovesNot DEF Unpend, u

LEMMA MovesAllWritten == ASSUME NEW t, Sound(t) PROVE Moves(t, AllWritten(t))
<1> DEFINE again == Some(t.should_retry)
           items == again \o t.write_wait
           kept == Some(t.retry_wb)
           j == Join(t, items)
           u == [j EXCEPT
            !.out = @ \o kept \o t.write_wait,
            !.should_retry = NoItem, !.retry_wb = NoItem, !.write_wait = <<>>,
            !.is_handshake_completed = TRUE]
<1>1. /\ again \in Seq(Stuff) /\ kept \in Seq(OnWire)
      /\ t.write_wait \in Seq(Stuff) /\ t.write_wait \in Seq(OnWire)
      /\ t.writing \in Seq(Stuff) /\ t.when_tcp_is_writing \in Seq(Stuff)
      /\ t.out \in Seq(OnWire)
  BY SomeType, Sendable DEF Sound, Transports
<1>2. items \in Seq(Stuff)
  BY <1>1, Pieces
<1>3. \A i \in Items : /\ Contains(again, i) <=> t.should_retry = i
                       /\ Contains(kept, i) <=> t.retry_wb = i
                       /\ Once(i, again)
  BY SomeType DEF Sound, Transports
<1> HIDE DEF again, kept
<1>4. ASSUME NEW i \in Items
      PROVE  /\ Contains(items, i) <=> Contains(again, i) \/ Contains(t.write_wait, i)
             /\ Once(i, items) <=> /\ Once(i, again) /\ Once(i, t.write_wait)
                                  /\ ~(Contains(again, i) /\ Contains(t.write_wait, i))
  BY <1>1, InConcat
<1> HIDE DEF items
<1>5. /\ Sound(j)
      /\ \/ j = [t EXCEPT !.when_tcp_is_writing = @ \o items]
         \/ j = [t EXCEPT !.writing = @ \o items]
  BY <1>2, SoundJoin DEF Join
<1>6. /\ j.lost = t.lost /\ j.answered = t.answered
      /\ j.conn_pending = t.conn_pending /\ j.resp_pending = t.resp_pending
      /\ j.out = t.out /\ j.sent = t.sent
      /\ \/ j.when_tcp_is_writing = t.when_tcp_is_writing \o items /\ j.writing = t.writing
         \/ j.writing = t.writing \o items /\ j.when_tcp_is_writing = t.when_tcp_is_writing
  BY <1>5 DEF Sound, Transports
<1> HIDE DEF j
<1> DEFINE o == t.out \o kept
<1>7. o \in Seq(OnWire) /\ o \o t.write_wait \in Seq(OnWire)
  BY <1>1, Pieces
<1>8. /\ u.lost = t.lost /\ u.answered = t.answered
      /\ u.conn_pending = t.conn_pending /\ u.resp_pending = t.resp_pending
      /\ u.sent = t.sent /\ u.write_wait = <<>> /\ u.should_retry = NoItem
      /\ u.retry_wb = NoItem /\ u.out = o \o t.write_wait
      /\ u.writing = j.writing /\ u.when_tcp_is_writing = j.when_tcp_is_writing
  BY <1>5, <1>6 DEF Sound, Transports
<1>9. Sound(u)
  BY <1>5, <1>6, <1>7, Pieces DEF Sound, Transports
<1>10. AllWritten(t) = WriteToTcp(u)
  BY <1>6 DEF AllWritten, u, j, items, again, kept
<1> HIDE DEF u
<1>11. ASSUME NEW i \in Items PROVE MovesOf(t, u, i)
  <2>1. /\ Contains(t.when_tcp_is_writing \o items, i) <=>
              Contains(t.when_tcp_is_writing, i) \/ Contains(items, i)
        /\ Once(i, t.when_tcp_is_writing \o items) <=>
              /\ Once(i, t.when_tcp_is_writing) /\ Once(i, items)
              /\ ~(Contains(t.when_tcp_is_writing, i) /\ Contains(items, i))
    BY <1>1, <1>2, InConcat
  <2>2. /\ Contains(t.writing \o items, i) <=> Contains(t.writing, i) \/ Contains(items, i)
        /\ Once(i, t.writing \o items) <=>
              /\ Once(i, t.writing) /\ Once(i, items)
              /\ ~(Contains(t.writing, i) /\ Contains(items, i))
    BY <1>1, <1>2, InConcat
  <2>3. ~Contains(u.write_wait, i) /\ Once(i, u.write_wait) /\ NoItem # i
    BY <1>8, InNone, TlsItemsAssumption
  <2>4. Contains(o, i) <=> Contains(t.out, i) \/ t.retry_wb = i
    BY <1>1, <1>3, InConcat
  <2> HIDE DEF o
  <2>5. Contains(u.out, i) <=> Contains(t.out, i) \/ t.retry_wb = i \/ Contains(t.write_wait, i)
    BY <1>1, <1>7, <1>8, <2>4, InConcat
  <2> DEFINE held == Contains(items, i)
             heldOnce == Once(i, items)
  <2>6. /\ held <=> t.should_retry = i \/ Contains(t.write_wait, i)
        /\ heldOnce <=> /\ Once(i, t.write_wait)
                        /\ ~(t.should_retry = i /\ Contains(t.write_wait, i))
    BY <1>3, <1>4
  <2> QED
    BY <1>6, <1>8, <2>1, <2>2, <2>3, <2>5, <2>6
       DEF MovesOf, Encoded, Alone, Holds, Waits, Queued, Writing, Resp, Joins, Again
<1> QED
  BY <1>8, <1>9, <1>10, <1>11, MovesWriteToTcp, MovesOn DEF Moves

LEMMA MovesNextRetry ==
    ASSUME NEW t, Sound(t), t.retry_wb = NoItem => t.write_wait # <<>>
    PROVE  Moves(t, NextRetry(t))
<1> DEFINE u == [t EXCEPT !.should_retry = Head(t.write_wait),
                          !.retry_wb = Head(t.write_wait), !.write_wait = Tail(@)]
<1>1. CASE t.retry_wb = NoItem
  <2>1. /\ u.lost = t.lost /\ u.answered = t.answered
        /\ u.conn_pending = t.conn_pending /\ u.write_wait = Tail(t.write_wait)
        /\ u.writing = t.writing /\ u.resp_pending = t.resp_pending
        /\ u.when_tcp_is_writing = t.when_tcp_is_writing
        /\ u.should_retry = Head(t.write_wait) /\ u.retry_wb = Head(t.write_wait)
        /\ u.out = t.out /\ u.sent = t.sent
        /\ t.should_retry = NoItem /\ t.write_wait \in Seq(Stuff)
    BY <1>1 DEF Sound, Transports
  <2>2. NextRetry(t) = u
    BY <1>1 DEF NextRetry
  <2> HIDE DEF u
  <2>3. ASSUME NEW i \in Items PROVE MovesOf(t, u, i)
    <3>1. /\ Contains(t.write_wait, i) <=>
                i = Head(t.write_wait) \/ Contains(Tail(t.write_wait), i)
          /\ Once(i, t.write_wait) <=>
                /\ Once(i, Tail(t.write_wait))
                /\ ~(i = Head(t.write_wait) /\ Contains(Tail(t.write_wait), i))
      BY <1>1, <2>1, InTail
    <3>2. NoItem # i
      BY TlsItemsAssumption
    <3> QED
      BY <2>1, <3>1, <3>2
         DEF MovesOf, Encoded, Alone, Holds, Waits, Queued, Writing, Resp, Joins, Again
  <2> QED
    BY <2>1, <2>2, <2>3 DEF Moves
<1>2. CASE t.retry_wb # NoItem
  BY <1>2, MovesNot DEF NextRetry
<1> QED
  BY <1>1, <1>2

LEMMA MovesWriteToBio == ASSUME NEW t, Sound(t) PROVE Moves(t, WriteToBio(t))
<1> DEFINE u == Unpend(t)
           v == Shake(u)
<1>1. Sound(u) /\ Sound(v) /\ Moves(t, u) /\ Moves(t, v)
  BY SoundUnpend, SoundShake, MovesUnpend, MovesShake, MovesOn
<1>2. v.retry_wb = u.retry_wb /\ v.write_wait = u.write_wait
  BY <1>1, ShakeLeaves
<1> HIDE DEF u, v
<1>3. \/ u.retry_wb = NoItem /\ u.write_wait = <<>>
      \/ Sound(NextRetry(v)) /\ Moves(t, NextRetry(v))
  BY <1>1, <1>2, SoundNextRetry, MovesNextRetry, MovesOn
<1>4. WriteToBio(t) \in {t, u, AllWritten(v), NextRetry(v), TlsReset(NextRetry(v))}
      /\ (u.retry_wb = NoItem /\ u.write_wait = <<>> => WriteToBio(t) \in {t, u})
  BY DEF WriteToBio, u, v
<1>5. Moves(t, AllWritten(v))
  BY <1>1, MovesAllWritten, MovesOn
<1>6. Sound(NextRetry(v)) /\ Moves(t, NextRetry(v)) => Moves(t, TlsReset(NextRetry(v)))
  BY MovesTlsReset, MovesOn
<1> QED
  BY <1>1, <1>3, <1>4, <1>5, <1>6, MovesNot

LEMMA MovesHandlers ==
    ASSUME NEW t, Sound(t), NEW u \in Handlers(t) PROVE Moves(t, u)
<1>1. ASSUME NEW r \in Requests, Contains(t.sent, r)
      PROVE  Moves(t, [AnswerAll(t, <<r>>) EXCEPT !.resp_pending = Only(Requests \ {r}, @)])
  <2> DEFINE v == [AnswerAll(t, <<r>>) EXCEPT !.resp_pending = Only(Requests \ {r}, @)]
  <2>1. ItemsOf(<<r>>) = {r}
    BY DEF ItemsOf, ToSet, Items
  <2>2. /\ v.lost = t.lost /\ v.answered = t.answered \cup {r}
        /\ v.conn_pending = t.conn_pending /\ v.write_wait = t.write_wait
        /\ v.writing = t.writing /\ v.resp_pending = Only(Requests \ {r}, t.resp_pending)
        /\ v.when_tcp_is_writing = t.when_tcp_is_writing /\ v.should_retry = t.should_retry
        /\ v.out = t.out /\ v.sent = t.sent /\ v.retry_wb = t.retry_wb
        /\ t.resp_pending \in Seq(Requests)
    BY <2>1 DEF Sound, Transports, AnswerAll
  <2> HIDE DEF v
  <2>3. ASSUME NEW i \in Items PROVE MovesOf(t, v, i)
    <3>1. /\ Contains(v.resp_pending, i) <=> i \in Requests \ {r} /\ Contains(t.resp_pending, i)
          /\ Once(i, t.resp_pending) => Once(i, v.resp_pending)
      <4>1. t.resp_pending \in Seq(Requests)
        BY <2>2
      <4>2. /\ \A k : Contains(Only(Requests \ {r}, t.resp_pending), k)
                      <=> k \in Requests \ {r} /\ Contains(t.resp_pending, k)
            /\ \A k : Once(k, t.resp_pending) => Once(k, Only(Requests \ {r}, t.resp_pending))
        BY <4>1, OnlySelects
      <4> QED
        BY <2>2, <4>2
    <3>2. Contains(t.resp_pending, i) => i \in Requests
      BY <2>2 DEF Contains
    <3>3. i = r => Encoded(t, i)
      BY <1>1 DEF Encoded
    <3> QED
      BY <2>2, <3>1, <3>2, <3>3
         DEF MovesOf, Encoded, Alone, Holds, Waits, Queued, Writing, Resp, Joins, Again
  <2> QED
    BY <2>2, <2>3 DEF Moves, v
<1>2. Moves(t, HandshakeDone(t))
  <2> DEFINE v == HandshakeDone(t)
  <2>1. /\ v.lost = t.lost /\ v.answered = t.answered
        /\ v.conn_pending = t.conn_pending /\ v.write_wait = <<"ack">> \o t.write_wait
        /\ v.writing = t.writing /\ v.resp_pending = t.resp_pending
        /\ v.when_tcp_is_writing = t.when_tcp_is_writing /\ v.should_retry = t.should_retry
        /\ v.out = t.out /\ v.sent = t.sent /\ v.retry_wb = t.retry_wb
        /\ t.write_wait \in Seq(Stuff) /\ <<"ack">> \in Seq(Stuff)
    BY Pieces DEF HandshakeDone, Sound, Transports, Stuff, Internal
  <2> HIDE DEF v
  <2>2. ASSUME NEW i \in Items PROVE MovesOf(t, v, i)
    <3>1. /\ ~Contains(<<"ack">>, i) /\ Once(i, <<"ack">>)
      BY InOne, TlsItemsAssumption DEF Internal
    <3>2. /\ Contains(v.write_wait, i) <=> Contains(t.write_wait, i)
          /\ Once(i, v.write_wait) <=> Once(i, t.write_wait)
      <4> DEFINE ack == <<"ack">>
      <4>1. /\ v.write_wait = ack \o t.write_wait
            /\ ack \in Seq(Stuff) /\ t.write_wait \in Seq(Stuff)
            /\ ~Contains(ack, i) /\ Once(i, ack)
        BY <2>1, <3>1
      <4> HIDE DEF ack
      <4> QED
        BY <4>1, InConcat
    <3> QED
      BY <2>1, <3>2
         DEF MovesOf, Encoded, Alone, Holds, Waits, Queued, Writing, Resp, Joins, Again
  <2> QED
    BY <2>1, <2>2 DEF Moves, v
<1> QED
  BY <1>1, <1>2, MovesTlsReset, MovesNot DEF Handlers

LEMMA MovesInput ==
    ASSUME NEW t, Sound(t), NEW input
    PROVE  /\ Moves(t, [t EXCEPT !.in = input])
           /\ Moves(t, [t EXCEPT !.is_handshake_completed = TRUE])
           /\ Moves(t, [t EXCEPT !.ssl = "handshake", !.in = "none", !.out = Append(@, "ssl")])
<1>1. ASSUME NEW u, u = [t EXCEPT !.in = input]
                    \/ u = [t EXCEPT !.is_handshake_completed = TRUE]
                    \/ u = [t EXCEPT !.ssl = "handshake", !.in = "none", !.out = Append(@, "ssl")]
      PROVE  Moves(t, u)
  <2>1. /\ u.lost = t.lost /\ u.answered = t.answered
        /\ u.conn_pending = t.conn_pending /\ u.write_wait = t.write_wait
        /\ u.writing = t.writing /\ u.resp_pending = t.resp_pending
        /\ u.when_tcp_is_writing = t.when_tcp_is_writing /\ u.should_retry = t.should_retry
        /\ u.out \in {t.out, Append(t.out, "ssl")} /\ u.sent = t.sent
        /\ u.retry_wb = t.retry_wb
    BY <1>1, ZenonT(60) DEF Sound, Transports
  <2>2. \A i \in Items : Encoded(u, i) => Encoded(t, i)
    BY <2>1, WithSsl DEF Encoded
  <2> QED
    BY <2>1, <2>2, MovesNothing
<1> QED
  BY <1>1

LEMMA MovesReadFromBio ==
    ASSUME NEW t, Sound(t), NEW u \in ReadFromBio(t) PROVE Moves(t, u)
<1> DEFINE s == Shake(t)
           h == [s EXCEPT !.is_handshake_completed = TRUE]
           again == [s EXCEPT !.ssl = "handshake", !.in = "none", !.out = Append(@, "ssl")]
           read == [s EXCEPT !.in = "none"]
<1>1. Sound(s) /\ Moves(t, s)
  BY SoundShake, MovesShake
<1> HIDE DEF s
<1>2. Sound(h) /\ Moves(t, h)
  <2>1. Sound(h)
    BY <1>1 DEF Sound, Transports
  <2> QED
    BY <1>1, <2>1, MovesInput, MovesOn
<1>3. Moves(t, again) /\ Moves(t, read) /\ Moves(t, TlsReset(s))
  BY <1>1, MovesInput, MovesTlsReset, MovesOn
<1>4. u \in {TlsReset(s), s, read, again}
        \/ \E v \in Handlers(h) : u = Shake([v EXCEPT !.in = "none"])
  BY DEF ReadFromBio, s, h, read, again
<1> HIDE DEF h, again, read
<1>5. ASSUME NEW v \in Handlers(h) PROVE Moves(t, Shake([v EXCEPT !.in = "none"]))
  <2>1. Sound(v) /\ Moves(t, v)
    BY <1>2, SoundHandlers, MovesHandlers, MovesOn
  <2>2. Sound([v EXCEPT !.in = "none"]) /\ Moves(v, [v EXCEPT !.in = "none"])
    BY <2>1, MovesInput DEF Sound, Transports
  <2> QED
    BY <2>1, <2>2, MovesShake, MovesOn
<1> QED
  BY <1>1, <1>3, <1>4, <1>5

-----------------------------------------------------------------------------
(* The TLS transport: no call is forgotten.                                *)

\* Between two callbacks SSL has read its input, and has not failed.
Calm(t) == t.in = "none" /\ t.ssl # "failed"

\* Where the calls are, for every state of a transport.
Accounted(t, i) ==
    /\ Alone(t, i)
    /\ sending = i => ~Holds(t, i) /\ ~Encoded(t, i)
    /\ Holds(t, i) \/ Encoded(t, i) \/ sending = i \/ i \in t.answered \cup t.lost => i \in called
    /\ i \in called => Holds(t, i) \/ sending = i \/ i \in t.answered \cup t.lost

KeptInv ==
    /\ Sound(tls) /\ Calm(tls)
    /\ main \in {"idle", "lock"} /\ sending \in Items \cup {NoItem}
    /\ main = "lock" <=> sending # NoItem
    /\ called \subseteq Items
    /\ \A i \in Items : Accounted(tls, i)

LEMMA CalmReset == ASSUME NEW t, Sound(t) PROVE Calm(TlsReset(t))
<1> DEFINE u == WriteToTcp(Shutdown(t))
           v == [u EXCEPT
            !.is_handshake_completed = FALSE,
            !.ssl = "clear", !.in = "none", !.out = <<>>,
            !.writing = @ \o Some(u.should_retry) \o u.when_tcp_is_writing,
            !.should_retry = NoItem, !.retry_wb = NoItem, !.when_tcp_is_writing = <<>>]
<1>1. Sound(u)
  BY SoundShutdown, SoundWriteToTcp
<1> HIDE DEF u
<1>2. v.ssl = "clear" /\ v.in = "none" /\ DOMAIN v = DOMAIN u
  BY <1>1 DEF Sound, Transports
<1>3. TlsReset(t) = TcpReset(v)
  BY DEF TlsReset, u
<1>4. "ssl" \in DOMAIN v /\ "in" \in DOMAIN v
  BY <1>1, <1>2 DEF Sound, Transports
<1> HIDE DEF v
<1>5. TcpReset(v).ssl = v.ssl /\ TcpReset(v).in = v.in
  BY <1>4 DEF TcpReset, AnswerAll
<1> QED
  BY <1>2, <1>3, <1>5 DEF Calm

\* TCP's part leaves SSL alone.
LEMMA SslOfWriteToTcp ==
    ASSUME NEW t, Sound(t)
    PROVE  WriteToTcp(t).ssl = t.ssl /\ WriteToTcp(t).in = t.in
  BY DEF WriteToTcp, Sound, Transports

LEMMA SslOfShake ==
    ASSUME NEW t, Sound(t)
    PROVE  /\ Shake(t).in \in {t.in, "none"} /\ Shake(t).ssl # "clear"
           /\ Calm(t) => Calm(Shake(t))
           /\ t.ssl = "clear" => Shake(t).ssl = "handshake"
           /\ t.ssl = "open" => Shake(t).ssl = "open"
           /\ t.ssl \notin {"failed"} /\ t.in \in {"none", "flight"} => Shake(t).ssl # "failed"
  BY DEF Shake, Sound, Transports, Calm

LEMMA SslOfAllWritten ==
    ASSUME NEW t, Sound(t)
    PROVE  AllWritten(t).ssl = t.ssl /\ AllWritten(t).in = t.in
<1> DEFINE items == Some(t.should_retry) \o t.write_wait
           j == Join(t, items)
           u == [j EXCEPT
            !.out = @ \o Some(t.retry_wb) \o t.write_wait,
            !.should_retry = NoItem, !.retry_wb = NoItem, !.write_wait = <<>>,
            !.is_handshake_completed = TRUE]
<1>1. Some(t.should_retry) \in Seq(Stuff) /\ t.write_wait \in Seq(Stuff)
  BY SomeType DEF Sound, Transports
<1>2. items \in Seq(Stuff)
  BY <1>1, Pieces
<1> HIDE DEF items
<1>3. Sound(j)
  BY <1>2, SoundJoin
<1>4. j.ssl = t.ssl /\ j.in = t.in
  BY DEF Join, Sound, Transports
<1> HIDE DEF j
<1>5. u.ssl = j.ssl /\ u.in = j.in
  BY <1>3 DEF Sound, Transports
<1>6. u.write_async = j.write_async /\ DOMAIN u = DOMAIN j
  BY <1>3 DEF Sound, Transports
<1>7. {"ssl", "in", "write_async", "writing", "when_tcp_is_writing", "out", "is_writing", "sent"}
        \subseteq DOMAIN u
  BY <1>3, <1>6 DEF Sound, Transports
<1>8. AllWritten(t) = WriteToTcp(u)
  BY DEF AllWritten, u, j, items
<1> HIDE DEF u
<1>9. WriteToTcp(u).ssl = u.ssl /\ WriteToTcp(u).in = u.in
  BY <1>7 DEF WriteToTcp
<1> QED
  BY <1>4, <1>5, <1>8, <1>9

\* Writing, SSL may have failed on what was read before; then all is reset.
LEMMA SslOfWriteToBio ==
    ASSUME NEW t, Sound(t), t.ssl # "failed"
    PROVE  /\ WriteToBio(t).ssl # "failed" /\ WriteToBio(t).in \in {t.in, "none"}
           /\ Calm(t) => Calm(WriteToBio(t))
<1> DEFINE u == Unpend(t)
           v == Shake(u)
<1>1. Sound(u) /\ Sound(v)
  BY SoundUnpend, SoundShake
<1>2. u.ssl = t.ssl /\ u.in = t.in
  BY DEF Unpend, Sound, Transports
<1>3. v.retry_wb = u.retry_wb /\ v.write_wait = u.write_wait /\ v.in \in {u.in, "none"}
  BY <1>1, ShakeLeaves, SslOfShake
<1>4. v.ssl \in {"clear", "handshake", "open", "failed"}
  BY <1>1 DEF Sound, Transports
<1> HIDE DEF u, v
<1>5. ASSUME ~(u.retry_wb = NoItem /\ u.write_wait = <<>>)
      PROVE  /\ Sound(NextRetry(v)) /\ NextRetry(v).ssl = v.ssl /\ NextRetry(v).in = v.in
  <2>1. Sound(NextRetry(v))
    BY <1>1, <1>3, <1>5, SoundNextRetry
  <2>2. NextRetry(v).ssl = v.ssl /\ NextRetry(v).in = v.in
    BY <1>1 DEF NextRetry, Sound, Transports
  <2> QED
    BY <2>1, <2>2
<1>6. AllWritten(v).ssl = v.ssl /\ AllWritten(v).in = v.in
  BY <1>1, SslOfAllWritten
<1>7. \/ WriteToBio(t) \in {t, u}
      \/ /\ ~(u.retry_wb = NoItem /\ u.write_wait = <<>>)
         /\ \/ WriteToBio(t) = AllWritten(v) /\ v.ssl = "open"
            \/ WriteToBio(t) = NextRetry(v) /\ v.ssl = "handshake"
            \/ WriteToBio(t) = TlsReset(NextRetry(v))
  BY DEF WriteToBio, u, v
<1> QED
  BY <1>1, <1>2, <1>3, <1>5, <1>6, <1>7, CalmReset DEF Calm

LEMMA CalmReadFromBio ==
    ASSUME NEW t, Sound(t), t.ssl # "failed", NEW u \in ReadFromBio(t)
    PROVE  Calm(u)
<1> DEFINE s == Shake(t)
           h == [s EXCEPT !.is_handshake_completed = TRUE]
           again == [s EXCEPT !.ssl = "handshake", !.in = "none", !.out = Append(@, "ssl")]
           read == [s EXCEPT !.in = "none"]
<1>1. Sound(s) /\ s.ssl # "clear" /\ s.ssl \in {"clear", "handshake", "open", "failed"}
  BY SoundShake, SslOfShake DEF Sound, Transports
<1>2. \/ u = TlsReset(s)
      \/ s.ssl = "handshake" /\ u = read
      \/ u = again
      \/ s.in = "none" /\ s.ssl # "failed" /\ u = s
      \/ /\ s.ssl \notin {"failed", "handshake"}
         /\ \E v \in Handlers(h) : u = Shake([v EXCEPT !.in = "none"])
  BY DEF ReadFromBio, s, h, read, again
<1> HIDE DEF s
<1>3. Calm(again)
  BY <1>1 DEF Calm, Sound, Transports
<1>4. s.ssl = "handshake" => Calm(read)
  BY <1>1 DEF Calm, Sound, Transports
<1>5. Sound(h) /\ h.ssl = s.ssl
  BY <1>1 DEF Sound, Transports
<1> HIDE DEF h
<1>6. ASSUME NEW v \in Handlers(h), s.ssl \notin {"failed", "handshake"}
      PROVE  Calm(Shake([v EXCEPT !.in = "none"]))
  <2>1. Sound(v)
    BY <1>5, SoundHandlers
  <2>2. v.ssl # "failed"
    <3>1. TlsReset(h).ssl # "failed"
      BY <1>5, CalmReset DEF Calm
    <3>2. HandshakeDone(h).ssl = h.ssl
      BY <1>5 DEF HandshakeDone, Sound, Transports
    <3>3. ASSUME NEW r
          PROVE  [AnswerAll(h, <<r>>) EXCEPT !.resp_pending = Only(Requests \ {r}, @)].ssl = h.ssl
      BY <1>5 DEF AnswerAll, Sound, Transports
    <3> QED
      BY <1>5, <1>6, <3>1, <3>2, <3>3 DEF Handlers
  <2>3. Sound([v EXCEPT !.in = "none"]) /\ Calm([v EXCEPT !.in = "none"])
    BY <2>1, <2>2, ZenonT(60) DEF Sound, Transports, Calm
  <2> QED
    BY <2>3, SslOfShake
<1> QED
  BY <1>1, <1>2, <1>3, <1>4, <1>6, CalmReset DEF Calm

\* A callback that only moves items leaves every call accounted for.
LEMMA KeptBecomes ==
    ASSUME KeptInv, NEW u, Sound(u), Calm(u), Moves(tls, u), Becomes(u)
    PROVE  KeptInv'
<1>1. tls' = u /\ main' = main /\ sending' = sending /\ called' = called
  BY DEF Becomes
<1>2. ASSUME NEW i \in Items PROVE Accounted(tls, i)'
  <2>1. Accounted(tls, i) /\ MovesOf(tls, u, i) /\ u.lost = tls.lost
    BY DEF KeptInv, Moves
  <2>2. /\ Alone(u, i) /\ (sending = i => ~Holds(u, i) /\ ~Encoded(u, i))
        /\ Holds(u, i) \/ Encoded(u, i) \/ sending = i \/ i \in u.answered \cup u.lost
             => i \in called
        /\ i \in called => Holds(u, i) \/ sending = i \/ i \in u.answered \cup u.lost
    BY <2>1 DEF Accounted, MovesOf
  <2> QED
    BY <1>1, <2>2 DEF Accounted, Alone, Holds, Encoded, Waits, Queued, Writing, Resp, Joins, Again
<1> QED
  BY <1>1, <1>2 DEF KeptInv, Sound, Calm

\* Nor does one that overlaps an insertion: the item inserted counts as lost.
LEMMA KeptOverlapped ==
    ASSUME KeptInv, NEW u, Sound(u), Calm(u), Moves(tls, u), Overlapped(u)
    PROVE  KeptInv'
<1>1. PICK broken \in BOOLEAN :
         tls' = [u EXCEPT !.lost = @ \cup {sending}, !.torn = broken, !.write_async = TRUE]
  BY DEF Overlapped
<1>2. main = "lock" /\ main' = "idle" /\ sending' = NoItem /\ called' = called
  BY DEF Overlapped
<1> DEFINE v == [u EXCEPT !.lost = @ \cup {sending}, !.torn = broken, !.write_async = TRUE]
<1>3. sending \in Items
  BY <1>2 DEF KeptInv
<1>4. Sound(v) /\ Calm(v)
  BY <1>3 DEF Sound, Transports, Calm
<1>5. /\ v.lost = u.lost \cup {sending} /\ v.answered = u.answered
      /\ v.conn_pending = u.conn_pending /\ v.write_wait = u.write_wait
      /\ v.writing = u.writing /\ v.resp_pending = u.resp_pending
      /\ v.when_tcp_is_writing = u.when_tcp_is_writing /\ v.should_retry = u.should_retry
      /\ v.out = u.out /\ v.sent = u.sent /\ v.retry_wb = u.retry_wb
  BY DEF Sound, Transports
<1>6. tls' = v
  BY <1>1
<1> HIDE DEF v
<1>7. ASSUME NEW i \in Items PROVE Accounted(tls, i)'
  <2>1. Accounted(tls, i) /\ MovesOf(tls, u, i) /\ u.lost = tls.lost /\ i # NoItem
    BY TlsItemsAssumption DEF KeptInv, Moves
  <2>2. /\ Alone(u, i)
        /\ Holds(u, i) \/ Encoded(u, i) \/ sending = i \/ i \in u.answered \cup u.lost
             => i \in called
        /\ i \in called => Holds(u, i) \/ sending = i \/ i \in u.answered \cup u.lost
    BY <2>1 DEF Accounted, MovesOf
  <2>3. /\ Alone(v, i)
        /\ Holds(v, i) \/ Encoded(v, i) \/ i \in v.answered \cup v.lost => i \in called
        /\ i \in called => Holds(v, i) \/ i \in v.answered \cup v.lost
    BY <1>5, <2>2 DEF Alone, Holds, Encoded, Waits, Queued, Writing, Resp, Joins, Again
  <2> QED
    BY <1>2, <1>6, <2>1, <2>3
       DEF Accounted, Alone, Holds, Encoded, Waits, Queued, Writing, Resp, Joins, Again
<1> QED
  BY <1>2, <1>4, <1>6, <1>7 DEF KeptInv, Sound, Calm

LEMMA KeptSendItem == ASSUME KeptInv, NEW i \in Items, SendItem(i) PROVE KeptInv'
<1>1. /\ main = "idle" /\ i \notin called /\ main' = "lock" /\ sending' = i
      /\ called' = called \cup {i} /\ tls' = tls /\ sending = NoItem /\ i # NoItem
  BY TlsItemsAssumption DEF SendItem, KeptInv
<1>2. ASSUME NEW k \in Items PROVE Accounted(tls, k)'
  <2>1. Accounted(tls, k) /\ k # NoItem
    BY TlsItemsAssumption DEF KeptInv
  <2> QED
    BY <1>1, <2>1
       DEF Accounted, Alone, Holds, Encoded, Waits, Queued, Writing, Resp, Joins, Again
<1> QED
  BY <1>1, <1>2 DEF KeptInv, Sound, Calm

LEMMA KeptInsert == ASSUME KeptInv, Insert PROVE KeptInv'
<1>1. /\ sending \in Items /\ main' = "idle" /\ sending' = NoItem /\ called' = called
      /\ Sound(tls) /\ Calm(tls)
  BY DEF Insert, KeptInv
<1>2. ~Holds(tls, sending) /\ sending \in Stuff /\ sending \in called
  BY <1>1 DEF KeptInv, Accounted, Stuff
<1> DEFINE a == [tls EXCEPT !.conn_pending = Append(@, sending),
                         !.write_async = tls.state # "NOT_CONN"]
           b == [tls EXCEPT !.lost = @ \cup {sending}, !.write_async = TRUE]
           c == [tls EXCEPT !.write_wait = Append(@, sending), !.write_async = TRUE]
<1>3. tls' \in {a, b, c}
  BY DEF Insert
<1>4. /\ tls.conn_pending \in Seq(Stuff) /\ Append(tls.conn_pending, sending) \in Seq(Stuff)
      /\ tls.write_wait \in Seq(Stuff) /\ Append(tls.write_wait, sending) \in Seq(Stuff)
  BY <1>1, <1>2, Pieces DEF Sound, Transports
<1>5. Sound(a) /\ Calm(a) /\ Sound(b) /\ Calm(b) /\ Sound(c) /\ Calm(c)
  BY <1>1, <1>4, ZenonT(60) DEF Sound, Transports, Calm
<1>6. \A u \in {a, b, c} :
         /\ u.answered = tls.answered /\ u.writing = tls.writing
         /\ u.resp_pending = tls.resp_pending
         /\ u.when_tcp_is_writing = tls.when_tcp_is_writing
         /\ u.should_retry = tls.should_retry
         /\ u.out = tls.out /\ u.sent = tls.sent /\ u.retry_wb = tls.retry_wb
  BY <1>1 DEF Sound, Transports
<1>7. /\ a.conn_pending = Append(tls.conn_pending, sending) /\ a.write_wait = tls.write_wait
      /\ a.lost = tls.lost
      /\ b.conn_pending = tls.conn_pending /\ b.write_wait = tls.write_wait
      /\ b.lost = tls.lost \cup {sending}
      /\ c.conn_pending = tls.conn_pending /\ c.write_wait = Append(tls.write_wait, sending)
      /\ c.lost = tls.lost
  BY <1>1 DEF Sound, Transports
<1> HIDE DEF a, b, c
<1>8. ASSUME NEW i \in Items PROVE Accounted(tls, i)'
  <2>1. Accounted(tls, i) /\ i # NoItem
    BY TlsItemsAssumption DEF KeptInv
  <2>2. /\ Contains(Append(tls.conn_pending, sending), i)
             <=> Contains(tls.conn_pending, i) \/ i = sending
        /\ Once(i, Append(tls.conn_pending, sending))
             <=> Once(i, tls.conn_pending) /\ ~(Contains(tls.conn_pending, i) /\ i = sending)
        /\ Contains(Append(tls.write_wait, sending), i)
             <=> Contains(tls.write_wait, i) \/ i = sending
        /\ Once(i, Append(tls.write_wait, sending))
             <=> Once(i, tls.write_wait) /\ ~(Contains(tls.write_wait, i) /\ i = sending)
    BY <1>2, <1>4, InAppend
  <2>3. i = sending => ~Holds(tls, i)
    BY <1>2
  <2>4. ASSUME NEW u \in {a, b, c}
        PROVE  /\ Alone(u, i)
               /\ Holds(u, i) \/ Encoded(u, i) \/ i \in u.answered \cup u.lost => i \in called
               /\ i \in called => Holds(u, i) \/ i \in u.answered \cup u.lost
    <3>1. /\ u.answered = tls.answered /\ u.writing = tls.writing
          /\ u.resp_pending = tls.resp_pending
          /\ u.when_tcp_is_writing = tls.when_tcp_is_writing
          /\ u.should_retry = tls.should_retry
          /\ u.out = tls.out /\ u.sent = tls.sent /\ u.retry_wb = tls.retry_wb
      BY <1>6
    <3>2. CASE u = a
      BY <1>2, <1>7, <2>1, <2>2, <2>3, <3>1, <3>2
         DEF Accounted, Alone, Holds, Encoded, Waits, Queued, Writing, Resp, Joins, Again
    <3>3. CASE u = b
      BY <1>2, <1>7, <2>1, <2>2, <2>3, <3>1, <3>3
         DEF Accounted, Alone, Holds, Encoded, Waits, Queued, Writing, Resp, Joins, Again
    <3>4. CASE u = c
      BY <1>2, <1>7, <2>1, <2>2, <2>3, <3>1, <3>4
         DEF Accounted, Alone, Holds, Encoded, Waits, Queued, Writing, Resp, Joins, Again
    <3> QED
      BY <3>2, <3>3, <3>4
  <2> QED
    BY <1>1, <1>3, <2>1, <2>4
       DEF Accounted, Alone, Holds, Encoded, Waits, Queued, Writing, Resp, Joins, Again
<1>9. Sound(tls') /\ Calm(tls')
  BY <1>3, <1>5
<1> QED
  BY <1>1, <1>8, <1>9 DEF KeptInv, Sound, Calm

LEMMA KeptWriteAsync == ASSUME KeptInv, WriteAsync PROVE KeptInv'
<1> DEFINE t == [tls EXCEPT !.write_async = FALSE]
           u == WriteToBio(t)
<1>1. Sound(tls) /\ Calm(tls)
  BY DEF KeptInv
<1>2. Sound(t) /\ Calm(t)
  BY <1>1 DEF Sound, Transports, Calm
<1>3. Moves(tls, t)
  <2>1. /\ t.lost = tls.lost /\ t.answered = tls.answered
        /\ t.conn_pending = tls.conn_pending /\ t.write_wait = tls.write_wait
        /\ t.writing = tls.writing /\ t.resp_pending = tls.resp_pending
        /\ t.when_tcp_is_writing = tls.when_tcp_is_writing
        /\ t.should_retry = tls.should_retry
        /\ t.out = tls.out /\ t.sent = tls.sent /\ t.retry_wb = tls.retry_wb
    BY <1>1 DEF Sound, Transports
  <2>2. \A i \in Items : Encoded(t, i) => Encoded(tls, i)
    BY <2>1 DEF Encoded
  <2> HIDE DEF t
  <2> QED
    BY <2>1, <2>2, MovesNothing
<1>4. Becomes(u) \/ Overlapped(u)
  BY DEF WriteAsync
<1> HIDE DEF t
<1>5. Sound(u) /\ Calm(u) /\ Moves(tls, u)
  BY <1>2, <1>3, SoundWriteToBio, SslOfWriteToBio, MovesWriteToBio, MovesOn DEF Calm
<1> QED
  BY <1>4, <1>5, KeptBecomes, KeptOverlapped

LEMMA KeptTcpRead == ASSUME KeptInv, NEW input \in Inputs, TcpRead(input) PROVE KeptInv'
<1> DEFINE t == [tls EXCEPT !.in = input]
           written == WriteToBio(t)
<1>1. Sound(tls) /\ Calm(tls)
  BY DEF KeptInv
<1>2. Sound(t) /\ t.ssl # "failed" /\ Moves(tls, t)
  <2>1. Sound(t) /\ t.ssl = tls.ssl
    BY <1>1 DEF Sound, Transports
  <2> QED
    BY <1>1, <2>1, MovesInput DEF Calm
<1>3. PICK read \in ReadFromBio(written) :
         Becomes(WriteToTcp(read)) \/ Overlapped(WriteToTcp(read))
  BY DEF TcpRead
<1> HIDE DEF t
<1>4. Sound(written) /\ written.ssl # "failed" /\ Moves(tls, written)
  BY <1>2, SoundWriteToBio, SslOfWriteToBio, MovesWriteToBio, MovesOn
<1> HIDE DEF written
<1>5. Sound(read) /\ Calm(read) /\ Moves(tls, read)
  BY <1>3, <1>4, SoundReadFromBio, CalmReadFromBio, MovesReadFromBio, MovesOn
<1>6. /\ Sound(WriteToTcp(read)) /\ Calm(WriteToTcp(read))
      /\ Moves(tls, WriteToTcp(read))
  BY <1>5, SoundWriteToTcp, SslOfWriteToTcp, MovesWriteToTcp, MovesOn DEF Calm
<1> QED
  BY <1>3, <1>6, KeptBecomes, KeptOverlapped

LEMMA KeptReset ==
    ASSUME KeptInv, TcpReadError \/ ConnFailed \/ ResetByTimer PROVE KeptInv'
<1>1. Sound(tls) /\ Becomes(TlsReset(tls))
  BY DEF KeptInv, TcpReadError, ConnFailed, ResetByTimer
<1> QED
  BY <1>1, SoundTlsReset, CalmReset, MovesTlsReset, KeptBecomes

\* What is put into write_wait for the transport itself is no call.
LEMMA MovesAside ==
    ASSUME NEW t, NEW u,
           u.lost = t.lost, u.answered = t.answered,
           u.conn_pending = t.conn_pending,
           u.writing = t.writing, u.resp_pending = t.resp_pending,
           u.when_tcp_is_writing = t.when_tcp_is_writing, u.should_retry = t.should_retry,
           \A i \in Items : /\ Contains(u.write_wait, i) <=> Contains(t.write_wait, i)
                            /\ Once(i, u.write_wait) <=> Once(i, t.write_wait)
                            /\ Encoded(u, i) => Encoded(t, i)
    PROVE  Moves(t, u)
  BY DEF Moves, MovesOf, Alone, Holds, Waits, Queued, Writing, Resp, Joins, Again

LEMMA InSet ==
    ASSUME NEW Q, NEW queue \in Seq(Q)
    PROVE  ItemsOf(queue) = {i \in Items : Contains(queue, i)}
  BY DEF ItemsOf, ToSet, Contains

LEMMA KeptWriteDone == ASSUME KeptInv, WriteDone PROVE KeptInv'
<1>1. Sound(tls) /\ Calm(tls)
  BY DEF KeptInv
<1>2. PICK ok \in BOOLEAN :
         LET kept == IF ok THEN Only(Requests, tls.writing) ELSE <<>>
             done == IF ok THEN Only(Notifies, tls.writing) ELSE tls.writing
         IN  Becomes(WriteToTcp([AnswerAll(tls, done) EXCEPT
                 !.is_writing = FALSE, !.writing = <<>>, !.resp_pending = @ \o kept]))
  BY DEF WriteDone
<1> DEFINE kept == IF ok THEN Only(Requests, tls.writing) ELSE <<>>
           done == IF ok THEN Only(Notifies, tls.writing) ELSE tls.writing
           u == [AnswerAll(tls, done) EXCEPT
                    !.is_writing = FALSE, !.writing = <<>>, !.resp_pending = @ \o kept]
<1>3. tls.writing \in Seq(Stuff) /\ tls.resp_pending \in Seq(Requests)
  BY <1>1 DEF Sound, Transports
<1>4. /\ kept \in Seq(Requests)
      /\ \A i \in Items : /\ Contains(kept, i) <=> ok /\ i \in Requests /\ Contains(tls.writing, i)
                          /\ Once(i, tls.writing) => Once(i, kept)
  <2>1. CASE ok
    <3>1. /\ Only(Requests, tls.writing) \in Seq(Requests \cap Stuff)
          /\ \A i : Contains(Only(Requests, tls.writing), i)
                       <=> i \in Requests /\ Contains(tls.writing, i)
          /\ \A i : Once(i, tls.writing) => Once(i, Only(Requests, tls.writing))
      BY <1>3, OnlySelects
    <3>2. Requests \cap Stuff \subseteq Requests
      OBVIOUS
    <3> QED
      BY <2>1, <3>1, <3>2
  <2>2. CASE ~ok
    BY <2>2, InNone, Pieces
  <2> QED
    BY <2>1, <2>2
<1>5. ItemsOf(done) = {i \in Items : Contains(tls.writing, i) /\ (ok => i \in Notifies)}
  <2>1. CASE ok
    <3>1. /\ Only(Notifies, tls.writing) \in Seq(Notifies \cap Stuff)
          /\ \A i : Contains(Only(Notifies, tls.writing), i)
                       <=> i \in Notifies /\ Contains(tls.writing, i)
      BY <1>3, OnlySelects
    <3>2. ItemsOf(Only(Notifies, tls.writing))
            = {i \in Items : Contains(Only(Notifies, tls.writing), i)}
      BY <3>1, InSet
    <3> QED
      BY <2>1, <3>1, <3>2
  <2>2. CASE ~ok
    BY <1>3, <2>2, InSet
  <2> QED
    BY <2>1, <2>2
<1> HIDE DEF kept, done
<1>6. tls.resp_pending \o kept \in Seq(Requests) /\ <<>> \in Seq(Stuff)
  BY <1>3, <1>4, Pieces
<1>7. ItemsOf(done) \subseteq Items
  BY <1>5
<1>8. Sound(u) /\ Calm(u)
  BY <1>1, <1>6, <1>7 DEF Sound, Transports, Calm, AnswerAll
<1>9. /\ u.lost = tls.lost /\ u.answered = tls.answered \cup ItemsOf(done)
      /\ u.conn_pending = tls.conn_pending /\ u.write_wait = tls.write_wait
      /\ u.writing = <<>> /\ u.resp_pending = tls.resp_pending \o kept
      /\ u.when_tcp_is_writing = tls.when_tcp_is_writing
      /\ u.should_retry = tls.should_retry
      /\ u.out = tls.out /\ u.sent = tls.sent /\ u.retry_wb = tls.retry_wb
  BY <1>1 DEF Sound, Transports, AnswerAll
<1>10. Becomes(WriteToTcp(u))
  BY <1>2 DEF kept, done
<1> HIDE DEF u
<1>11. ASSUME NEW i \in Items PROVE MovesOf(tls, u, i)
  <2>1. /\ Contains(u.resp_pending, i) <=> Contains(tls.resp_pending, i) \/ Contains(kept, i)
        /\ Once(i, u.resp_pending)
             <=> /\ Once(i, tls.resp_pending) /\ Once(i, kept)
                 /\ ~(Contains(tls.resp_pending, i) /\ Contains(kept, i))
    BY <1>3, <1>4, <1>9, InConcat
  <2>2. ~Contains(u.writing, i) /\ Once(i, u.writing)
    BY <1>9, InNone
  <2>3. /\ Contains(kept, i) <=> ok /\ i \in Requests /\ Contains(tls.writing, i)
        /\ Once(i, tls.writing) => Once(i, kept)
        /\ i \in ItemsOf(done) <=> Contains(tls.writing, i) /\ (ok => i \in Notifies)
        /\ i \in Requests \/ i \in Notifies
    BY <1>4, <1>5 DEF Items
  <2> QED
    BY <1>9, <2>1, <2>2, <2>3
       DEF MovesOf, Encoded, Alone, Holds, Waits, Queued, Writing, Resp, Joins, Again
<1>12. Moves(tls, u)
  BY <1>9, <1>11 DEF Moves
<1>13. /\ Sound(WriteToTcp(u)) /\ Calm(WriteToTcp(u)) /\ Moves(tls, WriteToTcp(u))
  BY <1>8, <1>12, SoundWriteToTcp, SslOfWriteToTcp, MovesWriteToTcp, MovesOn DEF Calm
<1> QED
  BY <1>10, <1>13, KeptBecomes

LEMMA KeptConnAsync == ASSUME KeptInv, ConnAsync PROVE KeptInv'
<1> DEFINE u == [tls EXCEPT !.state = "CONNECTING", !.sent = <<>>]
<1>1. Sound(tls) /\ Calm(tls) /\ Becomes(u)
  BY DEF KeptInv, ConnAsync
<1>2. Sound(u) /\ Calm(u)
  <2>1. <<>> \in Seq(OnWire)
    BY Pieces
  <2> QED
    BY <1>1, <2>1 DEF Sound, Transports, Calm
<1>3. /\ u.lost = tls.lost /\ u.answered = tls.answered
      /\ u.conn_pending = tls.conn_pending /\ u.write_wait = tls.write_wait
      /\ u.writing = tls.writing /\ u.resp_pending = tls.resp_pending
      /\ u.when_tcp_is_writing = tls.when_tcp_is_writing
      /\ u.should_retry = tls.should_retry
      /\ u.out = tls.out /\ u.sent = <<>> /\ u.retry_wb = tls.retry_wb
  BY <1>1 DEF Sound, Transports
<1> HIDE DEF u
<1>4. \A i \in Items : Encoded(u, i) => Encoded(tls, i)
  BY <1>3, InNone DEF Encoded
<1>5. Moves(tls, u)
  BY <1>3, <1>4, MovesNothing
<1> QED
  BY <1>1, <1>2, <1>5, KeptBecomes

LEMMA KeptConnDone == ASSUME KeptInv, ConnDone PROVE KeptInv'
<1> DEFINE hello == <<"handshake">>
           c == [tls EXCEPT !.state = "HANDSHAKEING", !.torn = FALSE,
                            !.write_wait = hello \o @, !.write_async = TRUE, !.ssl = "clear"]
<1>1. Sound(tls) /\ Calm(tls)
  BY DEF KeptInv
<1>2. PICK read \in ReadFromBio(c) : Becomes(WriteToTcp(read))
  BY DEF ConnDone
<1>3. /\ hello \in Seq(Stuff) /\ tls.write_wait \in Seq(Stuff)
      /\ \A i \in Items : ~Contains(hello, i) /\ Once(i, hello)
  <2>1. hello \in Seq(Stuff)
    BY Pieces DEF Stuff, Internal
  <2>2. \A i \in Items : i # "handshake"
    BY TlsItemsAssumption DEF Internal
  <2> QED
    BY <1>1, <2>1, <2>2, InOne DEF Sound, Transports
<1> HIDE DEF hello
<1>4. Sound(c) /\ c.ssl # "failed"
  <2>1. hello \o tls.write_wait \in Seq(Stuff)
    BY <1>3, Pieces
  <2> QED
    BY <1>1, <2>1 DEF Sound, Transports
<1>5. Moves(tls, c)
  <2>1. /\ c.lost = tls.lost /\ c.answered = tls.answered
        /\ c.conn_pending = tls.conn_pending /\ c.write_wait = hello \o tls.write_wait
        /\ c.writing = tls.writing /\ c.resp_pending = tls.resp_pending
        /\ c.when_tcp_is_writing = tls.when_tcp_is_writing
        /\ c.should_retry = tls.should_retry
        /\ c.out = tls.out /\ c.sent = tls.sent /\ c.retry_wb = tls.retry_wb
    BY <1>1 DEF Sound, Transports
  <2> HIDE DEF c
  <2>2. ASSUME NEW i \in Items
        PROVE  /\ Contains(c.write_wait, i) <=> Contains(tls.write_wait, i)
               /\ Once(i, c.write_wait) <=> Once(i, tls.write_wait)
               /\ Encoded(c, i) => Encoded(tls, i)
    <3>1. /\ Contains(c.write_wait, i) <=> Contains(hello, i) \/ Contains(tls.write_wait, i)
          /\ Once(i, c.write_wait)
               <=> /\ Once(i, hello) /\ Once(i, tls.write_wait)
                   /\ ~(Contains(hello, i) /\ Contains(tls.write_wait, i))
      BY <1>3, <2>1, InConcat
    <3> QED
      BY <1>3, <2>1, <3>1 DEF Encoded
  <2> QED
    BY <2>1, <2>2, MovesAside
<1> HIDE DEF c
<1>6. Sound(read) /\ Calm(read) /\ Moves(tls, read)
  BY <1>4, <1>5, SoundReadFromBio, CalmReadFromBio, MovesReadFromBio, MovesOn
<1>7. /\ Sound(WriteToTcp(read)) /\ Calm(WriteToTcp(read))
      /\ Moves(tls, WriteToTcp(read))
  BY <1>6, SoundWriteToTcp, SslOfWriteToTcp, MovesWriteToTcp, MovesOn DEF Calm
<1> QED
  BY <1>2, <1>7, KeptBecomes

LEMMA KeptSendHeartbeat == ASSUME KeptInv, SendHeartbeat PROVE KeptInv'
<1> DEFINE longer == IF tls.torn THEN tls.write_wait ELSE Append(tls.write_wait, "heartbeat")
           u == [tls EXCEPT !.write_wait = longer, !.write_async = TRUE]
<1>1. Sound(tls) /\ Calm(tls) /\ Becomes(u)
  BY DEF KeptInv, SendHeartbeat
<1>2. /\ longer \in Seq(Stuff)
      /\ \A i \in Items : /\ Contains(longer, i) <=> Contains(tls.write_wait, i)
                          /\ Once(i, longer) <=> Once(i, tls.write_wait)
  <2>1. /\ tls.write_wait \in Seq(Stuff) /\ "heartbeat" \in Stuff
        /\ \A i \in Items : i # "heartbeat"
    BY <1>1, TlsItemsAssumption DEF Sound, Transports, Stuff, Internal
  <2>2. Append(tls.write_wait, "heartbeat") \in Seq(Stuff)
    BY <2>1, Pieces
  <2>3. \A i \in Items :
           /\ Contains(Append(tls.write_wait, "heartbeat"), i) <=> Contains(tls.write_wait, i)
           /\ Once(i, Append(tls.write_wait, "heartbeat")) <=> Once(i, tls.write_wait)
    BY <2>1, InAppend
  <2> QED
    BY <2>1, <2>2, <2>3
<1> HIDE DEF longer
<1>3. Sound(u) /\ Calm(u)
  BY <1>1, <1>2 DEF Sound, Transports, Calm
<1>4. /\ u.lost = tls.lost /\ u.answered = tls.answered
      /\ u.conn_pending = tls.conn_pending /\ u.write_wait = longer
      /\ u.writing = tls.writing /\ u.resp_pending = tls.resp_pending
      /\ u.when_tcp_is_writing = tls.when_tcp_is_writing
      /\ u.should_retry = tls.should_retry
      /\ u.out = tls.out /\ u.sent = tls.sent /\ u.retry_wb = tls.retry_wb
  BY <1>1 DEF Sound, Transports
<1> HIDE DEF u
<1>5. \A i \in Items : Encoded(u, i) => Encoded(tls, i)
  BY <1>4 DEF Encoded
<1>6. Moves(tls, u)
  BY <1>2, <1>4, <1>5, MovesAside
<1> QED
  BY <1>1, <1>3, <1>6, KeptBecomes

LEMMA KeptTimeoutCheck == ASSUME KeptInv, TimeoutCheck PROVE KeptInv'
<1> DEFINE S(late) == (Items \cup Internal) \ late
           again == Some(tls.should_retry)
           a == again \o tls.when_tcp_is_writing
           b == a \o tls.conn_pending
           c == b \o tls.write_wait
           checked == c \o tls.resp_pending
<1>1. Sound(tls) /\ Calm(tls)
  BY DEF KeptInv
<1>2. PICK late \in SUBSET ItemsOf(checked) :
         Becomes([tls EXCEPT
             !.answered = @ \cup late,
             !.should_retry = IF @ \in late THEN NoItem ELSE @,
             !.when_tcp_is_writing = Only(S(late), @), !.conn_pending = Only(S(late), @),
             !.write_wait = Only(S(late), @), !.resp_pending = Only(S(late), @)])
  BY DEF TimeoutCheck
<1> DEFINE R == S(late)
           retried == IF tls.should_retry \in late THEN NoItem ELSE tls.should_retry
           u == [tls EXCEPT
             !.answered = @ \cup late, !.should_retry = retried,
             !.when_tcp_is_writing = Only(R, @), !.conn_pending = Only(R, @),
             !.write_wait = Only(R, @), !.resp_pending = Only(R, @)]
<1>3. /\ again \in Seq(Stuff) /\ tls.when_tcp_is_writing \in Seq(Stuff)
      /\ tls.conn_pending \in Seq(Stuff) /\ tls.write_wait \in Seq(Stuff)
      /\ tls.resp_pending \in Seq(Stuff) /\ tls.resp_pending \in Seq(Requests)
  BY <1>1, SomeType, RequestsAreStuff DEF Sound, Transports
<1>4. \A i \in Items : Contains(again, i) <=> tls.should_retry = i
  BY <1>1, SomeType DEF Sound, Transports
<1>5. \A i \in late : i \in Items /\ (Waits(tls, i) \/ Queued(tls, i) \/ Resp(tls, i)
                                        \/ Joins(tls, i) \/ Again(tls, i))
  <2> HIDE DEF again
  <2>1. a \in Seq(Stuff) /\ b \in Seq(Stuff) /\ c \in Seq(Stuff) /\ checked \in Seq(Stuff)
    BY <1>3, Pieces
  <2>2. \A i : Contains(a, i) <=> Contains(again, i) \/ Contains(tls.when_tcp_is_writing, i)
    BY <1>3, InConcat
  <2> HIDE DEF a
  <2>3. \A i : Contains(b, i) <=> Contains(a, i) \/ Contains(tls.conn_pending, i)
    BY <1>3, <2>1, InConcat
  <2> HIDE DEF b
  <2>4. \A i : Contains(c, i) <=> Contains(b, i) \/ Contains(tls.write_wait, i)
    BY <1>3, <2>1, InConcat
  <2> HIDE DEF c
  <2>5. \A i : Contains(checked, i) <=> Contains(c, i) \/ Contains(tls.resp_pending, i)
    BY <1>3, <2>1, InConcat
  <2> HIDE DEF checked
  <2>6. \A i \in late : i \in Items /\ Contains(checked, i)
    BY <1>2, <2>1, InSet
  <2> QED
    BY <1>4, <2>2, <2>3, <2>4, <2>5, <2>6 DEF Waits, Queued, Resp, Joins, Again
<1>6. late \subseteq Items /\ \A i \in Items : i \in R <=> i \notin late
  BY <1>5
<1> HIDE DEF R
<1>7. ASSUME NEW Q, NEW queue \in Seq(Q)
      PROVE  /\ Only(R, queue) \in Seq(Q)
             /\ \A i \in Items : Contains(Only(R, queue), i) <=> i \notin late /\ Contains(queue, i)
             /\ \A i : Once(i, queue) => Once(i, Only(R, queue))
  <2>1. /\ Only(R, queue) \in Seq(R \cap Q)
        /\ \A i : Contains(Only(R, queue), i) <=> i \in R /\ Contains(queue, i)
        /\ \A i : Once(i, queue) => Once(i, Only(R, queue))
    BY OnlySelects
  <2>2. R \cap Q \subseteq Q
    OBVIOUS
  <2>3. Only(R, queue) \in Seq(Q)
    BY <2>1, <2>2
  <2> QED
    BY <1>6, <2>1, <2>3
<1>8. /\ Only(R, tls.when_tcp_is_writing) \in Seq(Stuff) /\ Only(R, tls.conn_pending) \in Seq(Stuff)
      /\ Only(R, tls.write_wait) \in Seq(Stuff) /\ Only(R, tls.resp_pending) \in Seq(Requests)
  BY <1>3, <1>7
<1>9. retried \in {NoItem, tls.should_retry} /\ \A i \in Items :
         retried = i <=> i \notin late /\ tls.should_retry = i
  BY <1>6, TlsItemsAssumption
<1> HIDE DEF retried
<1>10. Sound(u) /\ Calm(u)
  BY <1>1, <1>6, <1>8, <1>9 DEF Sound, Transports, Calm
<1>11. /\ u.lost = tls.lost /\ u.answered = tls.answered \cup late
       /\ u.conn_pending = Only(R, tls.conn_pending) /\ u.write_wait = Only(R, tls.write_wait)
       /\ u.writing = tls.writing /\ u.resp_pending = Only(R, tls.resp_pending)
       /\ u.when_tcp_is_writing = Only(R, tls.when_tcp_is_writing)
       /\ u.should_retry = retried
       /\ u.out = tls.out /\ u.sent = tls.sent /\ u.retry_wb = tls.retry_wb
  BY <1>1 DEF Sound, Transports
<1>12. Becomes(u)
  BY <1>2 DEF R, retried
<1> HIDE DEF u
<1>13. ASSUME NEW i \in Items PROVE MovesOf(tls, u, i)
  <2>1. /\ Contains(u.conn_pending, i) <=> i \notin late /\ Contains(tls.conn_pending, i)
        /\ Contains(u.write_wait, i) <=> i \notin late /\ Contains(tls.write_wait, i)
        /\ Contains(u.resp_pending, i) <=> i \notin late /\ Contains(tls.resp_pending, i)
        /\ Contains(u.when_tcp_is_writing, i)
             <=> i \notin late /\ Contains(tls.when_tcp_is_writing, i)
    BY <1>3, <1>7, <1>11
  <2>2. /\ Once(i, tls.conn_pending) => Once(i, u.conn_pending)
        /\ Once(i, tls.write_wait) => Once(i, u.write_wait)
        /\ Once(i, tls.resp_pending) => Once(i, u.resp_pending)
        /\ Once(i, tls.when_tcp_is_writing) => Once(i, u.when_tcp_is_writing)
    BY <1>3, <1>7, <1>11
  <2>3. u.should_retry = i <=> i \notin late /\ tls.should_retry = i
    BY <1>9, <1>11
  <2>4. i \in late => Holds(tls, i)
    BY <1>5 DEF Holds
  <2> QED
    BY <1>11, <2>1, <2>2, <2>3, <2>4
       DEF MovesOf, Encoded, Alone, Holds, Waits, Queued, Writing, Resp, Joins, Again
<1>14. Moves(tls, u)
  BY <1>11, <1>13 DEF Moves
<1> QED
  BY <1>10, <1>12, <1>14, KeptBecomes

LEMMA InitKept == ASSUME TlsInit PROVE KeptInv
<1>1. /\ tls = NewTransport /\ main = "idle" /\ sending = NoItem /\ called = {}
  BY DEF TlsInit
<1>2. Sound(tls) /\ Calm(tls)
  <2>1. <<>> \in Seq(Stuff) /\ <<>> \in Seq(OnWire) /\ <<>> \in Seq(Requests)
    BY Pieces
  <2> QED
    BY <1>1, <2>1 DEF NewTransport, Sound, Transports, Calm
<1>3. ASSUME NEW i \in Items PROVE Accounted(tls, i)
  <2>1. i # NoItem /\ ~Contains(<<>>, i) /\ Once(i, <<>>)
    BY TlsItemsAssumption, InNone
  <2> QED
    BY <1>1, <2>1 DEF NewTransport, Accounted, Alone, Holds, Encoded, Waits, Queued,
                      Writing, Resp, Joins, Again
<1> QED
  BY <1>1, <1>2, <1>3 DEF KeptInv

LEMMA NextKept == KeptInv /\ [TlsNext]_tlsVars => KeptInv'
<1> SUFFICES ASSUME KeptInv, [TlsNext]_tlsVars PROVE KeptInv'
  OBVIOUS
<1>1. ASSUME NEW i \in Items, SendItem(i) PROVE KeptInv'
  BY <1>1, KeptSendItem
<1>2. CASE Insert
  BY <1>2, KeptInsert
<1>3. CASE WriteAsync
  BY <1>3, KeptWriteAsync
<1>4. ASSUME NEW input \in Inputs, TcpRead(input) PROVE KeptInv'
  BY <1>4, KeptTcpRead
<1>5. CASE TcpReadError \/ ConnFailed \/ ResetByTimer
  BY <1>5, KeptReset
<1>6. CASE WriteDone
  BY <1>6, KeptWriteDone
<1>7. CASE ConnAsync
  BY <1>7, KeptConnAsync
<1>8. CASE ConnDone
  BY <1>8, KeptConnDone
<1>9. CASE SendHeartbeat
  BY <1>9, KeptSendHeartbeat
<1>10. CASE TimeoutCheck
  BY <1>10, KeptTimeoutCheck
<1>11. CASE UNCHANGED tlsVars
  <2>1. tls' = tls /\ main' = main /\ sending' = sending /\ called' = called
    BY <1>11 DEF tlsVars
  <2>2. Becomes(tls)
    BY <2>1 DEF Becomes
  <2> QED
    BY <2>2, MovesNot, KeptBecomes DEF KeptInv
<1> QED
  BY <1>1, <1>2, <1>3, <1>4, <1>5, <1>6, <1>7, <1>8, <1>9, <1>10, <1>11 DEF TlsNext

\* The queues as one.
LEMMA PlacesAre ==
    ASSUME NEW t, Sound(t)
    PROVE  /\ PlacesOf(t) \in Seq(Stuff)
           /\ \A i \in Items : /\ Contains(PlacesOf(t), i) <=> Holds(t, i)
                               /\ Alone(t, i) => Once(i, PlacesOf(t))
<1> DEFINE again == Some(t.should_retry)
           a == t.conn_pending \o t.write_wait
           b == a \o t.writing
           c == b \o t.resp_pending
           d == c \o t.when_tcp_is_writing
<1>1. /\ again \in Seq(Stuff) /\ t.when_tcp_is_writing \in Seq(Stuff)
      /\ t.conn_pending \in Seq(Stuff) /\ t.write_wait \in Seq(Stuff)
      /\ t.resp_pending \in Seq(Stuff) /\ t.writing \in Seq(Stuff)
  BY SomeType, RequestsAreStuff DEF Sound, Transports
<1>2. a \in Seq(Stuff) /\ b \in Seq(Stuff) /\ c \in Seq(Stuff) /\ d \in Seq(Stuff)
        /\ PlacesOf(t) \in Seq(Stuff)
  <2> HIDE DEF again
  <2> QED
    BY <1>1, Pieces DEF PlacesOf, again
<1> SUFFICES ASSUME NEW i \in Items
             PROVE  /\ Contains(PlacesOf(t), i) <=> Holds(t, i)
                    /\ Alone(t, i) => Once(i, PlacesOf(t))
  BY <1>2
<1>3. PlacesOf(t) = d \o again
  BY DEF PlacesOf
<1>4. (Contains(again, i) <=> t.should_retry = i) /\ Once(i, again)
  BY SomeType DEF Sound, Transports
<1> HIDE DEF again
<1>5. /\ Contains(a, i) <=> Contains(t.conn_pending, i) \/ Contains(t.write_wait, i)
      /\ Once(i, a) <=> /\ Once(i, t.conn_pending) /\ Once(i, t.write_wait)
                        /\ ~(Contains(t.conn_pending, i) /\ Contains(t.write_wait, i))
  BY <1>1, InConcat
<1> HIDE DEF a
<1>6. /\ Contains(b, i) <=> Contains(a, i) \/ Contains(t.writing, i)
      /\ Once(i, b) <=> /\ Once(i, a) /\ Once(i, t.writing)
                        /\ ~(Contains(a, i) /\ Contains(t.writing, i))
  BY <1>1, <1>2, InConcat
<1> HIDE DEF b
<1>7. /\ Contains(c, i) <=> Contains(b, i) \/ Contains(t.resp_pending, i)
      /\ Once(i, c) <=> /\ Once(i, b) /\ Once(i, t.resp_pending)
                        /\ ~(Contains(b, i) /\ Contains(t.resp_pending, i))
  BY <1>1, <1>2, InConcat
<1> HIDE DEF c
<1>8. /\ Contains(d, i) <=> Contains(c, i) \/ Contains(t.when_tcp_is_writing, i)
      /\ Once(i, d) <=> /\ Once(i, c) /\ Once(i, t.when_tcp_is_writing)
                        /\ ~(Contains(c, i) /\ Contains(t.when_tcp_is_writing, i))
  BY <1>1, <1>2, InConcat
<1> HIDE DEF d
<1>9. /\ Contains(PlacesOf(t), i) <=> Contains(d, i) \/ Contains(again, i)
      /\ Once(i, PlacesOf(t)) <=> /\ Once(i, d) /\ Once(i, again)
                                  /\ ~(Contains(d, i) /\ Contains(again, i))
  BY <1>1, <1>2, <1>3, InConcat
<1> QED
  BY <1>4, <1>5, <1>6, <1>7, <1>8, <1>9
     DEF Alone, Holds, Waits, Queued, Writing, Resp, Joins, Again

\* What KeptInv says of the queues as one.
LEMMA AllPlaces ==
    ASSUME KeptInv
    PROVE  /\ Places \in Seq(Stuff)
           /\ \A i \in Items : /\ Contains(Places, i) <=> Holds(tls, i) \/ sending = i
                               /\ Once(i, Places)
<1>1. Sound(tls) /\ sending \in Stuff \cup {NoItem}
  BY DEF KeptInv, Stuff
<1> DEFINE mine == Some(sending)
           others == PlacesOf(tls)
<1>2. /\ mine \in Seq(Stuff) /\ others \in Seq(Stuff)
      /\ \A i \in Items : /\ Contains(mine, i) <=> sending = i
                          /\ Once(i, mine)
                          /\ Contains(others, i) <=> Holds(tls, i)
                          /\ Alone(tls, i) => Once(i, others)
  BY <1>1, SomeType, PlacesAre
<1>3. Places = mine \o others
  BY DEF Places
<1> HIDE DEF mine, others
<1>4. Places \in Seq(Stuff)
  BY <1>2, <1>3, Pieces
<1>5. ASSUME NEW i \in Items
      PROVE  (Contains(Places, i) <=> Holds(tls, i) \/ sending = i) /\ Once(i, Places)
  <2>1. /\ Contains(Places, i) <=> Contains(mine, i) \/ Contains(others, i)
        /\ Once(i, Places) <=> /\ Once(i, mine) /\ Once(i, others)
                               /\ ~(Contains(mine, i) /\ Contains(others, i))
    BY <1>2, <1>3, InConcat
  <2>2. Alone(tls, i) /\ (sending = i => ~Holds(tls, i))
    BY DEF KeptInv, Accounted
  <2> QED
    BY <1>2, <2>1, <2>2
<1> QED
  BY <1>4, <1>5

\* A call on the TLS transport (tr_uv_tls_aux.c) is in one of its queues, or being sent, and
\* in one place, until it is answered, or it was lost with the queue; whatever interleaving
\* of the application, SSL's retries, resets, connections and timeouts.
THEOREM TlsCallsKept == TlsSpec => []CallsKept
<1>1. TlsInit => KeptInv
  BY InitKept
<1>2. KeptInv /\ [TlsNext]_tlsVars => KeptInv'
  BY NextKept
<1>3. KeptInv => CallsKept
  <2> SUFFICES ASSUME KeptInv PROVE CallsKept
    OBVIOUS
  <2>1. ASSUME NEW i \in called PROVE i \in tls.answered \cup tls.lost \cup ToSet(Places)
    <3>1. i \in Items /\ (Contains(Places, i) \/ i \in tls.answered \cup tls.lost)
      BY AllPlaces DEF KeptInv, Accounted
    <3>2. Contains(Places, i) => i \in ToSet(Places)
      BY AllPlaces DEF Contains, ToSet
    <3> QED
      BY <3>1, <3>2
  <2> QED
    BY <2>1, AllPlaces DEF CallsKept
<1> QED
  BY <1>1, <1>2, <1>3, PTL DEF TlsSpec

\* Every variable of the TLS transport has its type.
THEOREM TlsTyped == TlsSpec => []TlsTypeOK
<1>1. TlsInit => KeptInv
  BY InitKept
<1>2. KeptInv /\ [TlsNext]_tlsVars => KeptInv'
  BY NextKept
<1>3. KeptInv => TlsTypeOK
  <2> SUFFICES ASSUME KeptInv PROVE TlsTypeOK
    OBVIOUS
  <2>1. Sound(tls) /\ Calm(tls)
    BY DEF KeptInv
  <2>2. ToSet(Places \o Some(tls.retry_wb)) \subseteq Items \cup Internal
    <3>1. Places \in Seq(Stuff) /\ Some(tls.retry_wb) \in Seq(Stuff)
      BY <2>1, AllPlaces, SomeType DEF Sound, Transports
    <3>2. Places \o Some(tls.retry_wb) \in Seq(Stuff)
      BY <3>1, Pieces
    <3> QED
      BY <3>2 DEF ToSet, Stuff
  <2>3. ToSet(tls.out) \subseteq Items \cup Internal \cup {"ssl"}
    <3>1. tls.out \in Seq(OnWire)
      BY <2>1 DEF Sound, Transports
    <3> QED
      BY <3>1 DEF ToSet, OnWire, Stuff
  <2>4. tls.answered \cup tls.lost \subseteq called
    <3>1. tls.answered \subseteq Items /\ tls.lost \subseteq Items
      BY <2>1 DEF Sound, Transports
    <3> QED
      BY <3>1 DEF KeptInv, Accounted
  <2> QED
    BY <2>1, <2>2, <2>3, <2>4 DEF KeptInv, Sound, Calm, Transports, TlsTypeOK
<1> QED
  BY <1>1, <1>2, <1>3, PTL DEF TlsSpec

-----------------------------------------------------------------------------
(* The TLS transport: the order of the bytes.                              *)

TlsBytes == Items \cup (Internal \ {"heartbeat"})

\* What ends with a write has been given to it, or will be with the next one.
Given(t) ==
    /\ \A w \in TlsBytes : Contains(t.writing, w) \/ Contains(t.resp_pending, w)
                          => Contains(t.sent, w) \/ (~t.is_writing /\ Contains(t.out, w))
    /\ \A w : Contains(t.when_tcp_is_writing, w) => Contains(t.out, w)
Written(t) ==
    /\ \A w \in TlsBytes : Contains(t.writing, w) \/ Contains(t.resp_pending, w)
                          => Contains(t.sent, w)
    /\ t.when_tcp_is_writing # <<>> => t.is_writing

\* Without a connection there is nothing to write but what SSL says for itself.
Closed(t) ==
    /\ ~IsOpen(t) =>
          /\ t.write_wait = <<>> /\ t.writing = <<>> /\ t.resp_pending = <<>>
          /\ t.when_tcp_is_writing = <<>> /\ t.retry_wb = NoItem /\ Counted(t.out) = <<>>
    /\ t.state = "CONNECTING" => t.sent = <<>> /\ t.out = <<>> /\ ~t.is_writing

\* What a connection carries.
Ordered(t) ==
    /\ t.state = "HANDSHAKEING" => StreamOf(t) = <<"handshake">>
    /\ t.state = "DONE" =>
          \E rest \in Seq(Items) : StreamOf(t) = <<"handshake", "ack">> \o rest
    /\ IsOpen(t) => \A i \in Items : Once(i, StreamOf(t))

\* Nothing has been done yet with what waits for the connection.
Untouched(t) ==
    /\ t.conn_pending \in Seq(Items)
    /\ \A i \in Items : /\ Once(i, t.conn_pending)
                        /\ Waits(t, i) => ~Encoded(t, i) /\ ~Queued(t, i)

\* The first holds in the middle of a callback, too.
Loose(t) == Sound(t) /\ Given(t) /\ Closed(t) /\ Ordered(t) /\ Untouched(t)
Carrying(t) == Loose(t) /\ Written(t)

LEMMA OneOfFour ==
    \A a, b, c, d \in Nat : a + b + c + d = 1 /\ a >= 1 => a = 1 /\ b = 0 /\ c = 0 /\ d = 0
OBVIOUS

LEMMA PairOf == <<"handshake">> \o <<"ack">> = <<"handshake", "ack">>
<1> DEFINE a == <<"handshake">> \o <<"ack">>
           b == <<"handshake", "ack">>
           S == {"handshake", "ack"}
<1>1. a \in Seq(S) /\ b \in Seq(S) /\ Len(a) = Len(b)
  OBVIOUS
<1>2. \A i \in 1 .. Len(a) : a[i] = b[i]
  OBVIOUS
<1> HIDE DEF a, b, S
<1>3. a = b
  BY <1>1, <1>2, SeqEqual
<1> QED
  BY <1>3 DEF a, b

\* The parts of the stream.
LEMMA CountedOf ==
    /\ \A bytes \in Seq(OnWire) :
          /\ Counted(bytes) \in Seq(TlsBytes) /\ Counted(bytes) \in Seq(OnWire)
          /\ Counted(Counted(bytes)) = Counted(bytes)
          /\ \A w : Contains(Counted(bytes), w) <=> w \in TlsBytes /\ Contains(bytes, w)
    /\ \A a, b \in Seq(OnWire) : Counted(a \o b) = Counted(a) \o Counted(b)
    /\ Counted(<<>>) = <<>> /\ Counted(<<"ssl">>) = <<>> /\ Counted(<<"heartbeat">>) = <<>>
    /\ Counted(<<"handshake">>) = <<"handshake">> /\ Counted(<<"ack">>) = <<"ack">>
<1>1. \A bytes : Counted(bytes) = Only(TlsBytes, bytes)
  BY DEF Counted, TlsBytes
<1>2. TlsBytes \subseteq OnWire
  BY DEF TlsBytes, OnWire, Stuff
<1>3. ASSUME NEW bytes \in Seq(OnWire)
      PROVE  /\ Only(TlsBytes, bytes) \in Seq(TlsBytes) /\ Only(TlsBytes, bytes) \in Seq(OnWire)
             /\ Only(TlsBytes, Only(TlsBytes, bytes)) = Only(TlsBytes, bytes)
             /\ \A w : Contains(Only(TlsBytes, bytes), w) <=> w \in TlsBytes /\ Contains(bytes, w)
  <2>1. /\ Only(TlsBytes, bytes) \in Seq(TlsBytes \cap OnWire)
        /\ \A w : Contains(Only(TlsBytes, bytes), w) <=> w \in TlsBytes /\ Contains(bytes, w)
    BY OnlySelects
  <2>2. TlsBytes \cap OnWire = TlsBytes
    BY <1>2
  <2>3. Only(TlsBytes, bytes) \in Seq(TlsBytes)
    BY <2>1, <2>2
  <2>4. Only(TlsBytes, bytes) \in Seq(OnWire)
    BY <1>2, <2>3
  <2>5. Only(TlsBytes, Only(TlsBytes, bytes)) = Only(TlsBytes, bytes)
    BY <2>3, OnlyAll
  <2> QED
    BY <2>1, <2>3, <2>4, <2>5
<1>4. \A a, b \in Seq(OnWire) : Only(TlsBytes, a \o b) = Only(TlsBytes, a) \o Only(TlsBytes, b)
  BY OnlyConcat
<1>5. /\ "ssl" \notin TlsBytes /\ "heartbeat" \notin TlsBytes
      /\ "handshake" \in TlsBytes /\ "ack" \in TlsBytes
  BY TlsItemsAssumption DEF TlsBytes, Internal
<1> QED
  BY <1>1, <1>3, <1>4, <1>5, OnlyNone, OnlyOne

LEMMA StreamParts ==
    ASSUME NEW t, Sound(t)
    PROVE  /\ StreamOf(t) = ((Counted(t.sent) \o Counted(t.out)) \o Counted(Some(t.retry_wb)))
                               \o Counted(t.write_wait)
           /\ Counted(t.sent) \in Seq(TlsBytes) /\ Counted(t.out) \in Seq(TlsBytes)
           /\ Counted(Some(t.retry_wb)) \in Seq(TlsBytes) /\ Counted(t.write_wait) \in Seq(TlsBytes)
           /\ StreamOf(t) \in Seq(TlsBytes)
<1>1. /\ t.sent \in Seq(OnWire) /\ t.out \in Seq(OnWire)
      /\ Some(t.retry_wb) \in Seq(OnWire) /\ t.write_wait \in Seq(OnWire)
  BY SomeType, Sendable DEF Sound, Transports
<1> DEFINE retry == Some(t.retry_wb)
           a == t.sent \o t.out
           b == a \o retry
<1>2. StreamOf(t) = Counted(b \o t.write_wait)
  BY DEF StreamOf
<1> HIDE DEF retry
<1>3. a \in Seq(OnWire) /\ b \in Seq(OnWire) /\ b \o t.write_wait \in Seq(OnWire)
  BY <1>1, Pieces DEF retry
<1>4. Counted(a) = Counted(t.sent) \o Counted(t.out)
  BY <1>1, CountedOf
<1> HIDE DEF a
<1>5. Counted(b) = Counted(a) \o Counted(retry)
  BY <1>1, <1>3, CountedOf DEF retry
<1> HIDE DEF b
<1>6. Counted(b \o t.write_wait) = Counted(b) \o Counted(t.write_wait)
  BY <1>1, <1>3, CountedOf
<1>7. /\ Counted(t.sent) \in Seq(TlsBytes) /\ Counted(t.out) \in Seq(TlsBytes)
      /\ Counted(retry) \in Seq(TlsBytes) /\ Counted(t.write_wait) \in Seq(TlsBytes)
      /\ Counted(b \o t.write_wait) \in Seq(TlsBytes)
  BY <1>1, <1>3, CountedOf DEF retry
<1> QED
  BY <1>2, <1>4, <1>5, <1>6, <1>7 DEF retry

\* What is in the stream.
LEMMA InStream ==
    ASSUME NEW t, Sound(t), NEW i \in Items
    PROVE  Contains(StreamOf(t), i) <=> Encoded(t, i) \/ Queued(t, i)
<1> DEFINE a == Counted(t.sent)
           b == Counted(t.out)
           c == Counted(Some(t.retry_wb))
           d == Counted(t.write_wait)
<1>1. StreamOf(t) = ((a \o b) \o c) \o d
      /\ a \in Seq(TlsBytes) /\ b \in Seq(TlsBytes) /\ c \in Seq(TlsBytes) /\ d \in Seq(TlsBytes)
  BY StreamParts
<1>2. /\ t.sent \in Seq(OnWire) /\ t.out \in Seq(OnWire)
      /\ Some(t.retry_wb) \in Seq(OnWire) /\ t.write_wait \in Seq(OnWire)
  BY SomeType, Sendable DEF Sound, Transports
<1>3. i \in TlsBytes /\ (Contains(Some(t.retry_wb), i) <=> t.retry_wb = i)
  BY SomeType DEF TlsBytes, Sound, Transports
<1>4. /\ Contains(a, i) <=> Contains(t.sent, i)
      /\ Contains(b, i) <=> Contains(t.out, i)
      /\ Contains(c, i) <=> t.retry_wb = i
      /\ Contains(d, i) <=> Contains(t.write_wait, i)
  BY <1>2, <1>3, CountedOf
<1> HIDE DEF a, b, c, d
<1> DEFINE ab == a \o b
           abc == ab \o c
<1>5. ab \in Seq(TlsBytes) /\ abc \in Seq(TlsBytes)
  BY <1>1, Pieces
<1>6. Contains(ab, i) <=> Contains(a, i) \/ Contains(b, i)
  BY <1>1, InConcat
<1>7. StreamOf(t) = abc \o d
  BY <1>1
<1> HIDE DEF ab
<1>8. Contains(abc, i) <=> Contains(ab, i) \/ Contains(c, i)
  BY <1>1, <1>5, InConcat
<1> HIDE DEF abc
<1>9. Contains(StreamOf(t), i) <=> Contains(abc, i) \/ Contains(d, i)
  BY <1>1, <1>5, <1>7, InConcat
<1> QED
  BY <1>4, <1>6, <1>8, <1>9 DEF Encoded, Queued

\* What SSL says for itself is not in the stream.
LEMMA OutWithSsl ==
    ASSUME NEW out \in Seq(OnWire)
    PROVE  /\ Counted(Append(out, "ssl")) = Counted(out)
           /\ Append(out, "ssl") \in Seq(OnWire)
           /\ \A w : Contains(out, w) => Contains(Append(out, "ssl"), w)
           /\ \A i \in Items : Contains(Append(out, "ssl"), i) => Contains(out, i)
<1>1. "ssl" \in OnWire /\ \A i \in Items : i # "ssl"
  BY TlsItemsAssumption DEF OnWire
<1>2. Append(out, "ssl") = out \o <<"ssl">> /\ <<"ssl">> \in Seq(OnWire)
  BY <1>1
<1>3. Counted(out) \o <<>> = Counted(out)
  <2>1. Counted(out) \in Seq(TlsBytes)
    BY CountedOf
  <2> QED
    BY <2>1
<1>4. Counted(Append(out, "ssl")) = Counted(out)
  BY <1>2, <1>3, CountedOf
<1>5. \A w : Contains(Append(out, "ssl"), w) <=> Contains(out, w) \/ w = "ssl"
  BY <1>1, InAppend
<1>6. Append(out, "ssl") \in Seq(OnWire)
  BY <1>1, Pieces
<1> QED
  BY <1>1, <1>4, <1>5, <1>6

\* A step that leaves the queues and what was sent, but for what SSL says for itself.
LEMMA CarriesAlike ==
    ASSUME NEW t, NEW u, Loose(t), Sound(u),
           u.state = t.state, u.conn_pending = t.conn_pending, u.write_wait = t.write_wait,
           u.writing = t.writing, u.resp_pending = t.resp_pending,
           u.when_tcp_is_writing = t.when_tcp_is_writing, u.retry_wb = t.retry_wb,
           u.sent = t.sent, u.is_writing = t.is_writing,
           u.out \in {t.out, Append(t.out, "ssl")},
           t.state = "CONNECTING" => u.out = t.out
    PROVE  Loose(u) /\ (Written(t) => Written(u))
<1>1. Sound(t) /\ t.out \in Seq(OnWire)
  BY DEF Loose, Sound, Transports
<1>2. /\ Counted(u.out) = Counted(t.out)
      /\ \A w : Contains(t.out, w) => Contains(u.out, w)
      /\ \A i \in Items : Contains(u.out, i) => Contains(t.out, i)
  BY <1>1, OutWithSsl
<1>3. StreamOf(u) = StreamOf(t)
  BY <1>1, <1>2, StreamParts
<1>4. IsOpen(u) <=> IsOpen(t)
  BY DEF IsOpen
<1>5. Given(u)
  BY <1>2 DEF Loose, Given
<1>6. Closed(u)
  BY <1>2, <1>4 DEF Loose, Closed
<1>7. Ordered(u)
  BY <1>3, <1>4 DEF Loose, Ordered
<1>8. Untouched(u)
  BY <1>2 DEF Loose, Untouched, Encoded, Waits, Queued
<1> QED
  BY <1>5, <1>6, <1>7, <1>8 DEF Loose, Written

LEMMA CarriesShake ==
    ASSUME NEW t, Carrying(t), t.state # "CONNECTING" PROVE Carrying(Shake(t))
<1>1. Loose(t) /\ Written(t) /\ Sound(t) /\ Sound(Shake(t))
  BY SoundShake DEF Carrying, Loose
<1> QED
  BY <1>1, ShakeLeaves, CarriesAlike DEF Carrying

LEMMA CarriesReset ==
    ASSUME NEW t, Sound(t)
    PROVE  Carrying(TlsReset(t)) /\ TlsReset(t).out = <<>> /\ TlsReset(t).state = "NOT_CONN"
<1> DEFINE u == WriteToTcp(Shutdown(t))
           v == [u EXCEPT
            !.is_handshake_completed = FALSE,
            !.ssl = "clear", !.in = "none", !.out = <<>>,
            !.writing = @ \o Some(u.should_retry) \o u.when_tcp_is_writing,
            !.should_retry = NoItem, !.retry_wb = NoItem, !.when_tcp_is_writing = <<>>]
           r == TlsReset(t)
<1>1. Sound(u) /\ Sound(r)
  BY SoundShutdown, SoundWriteToTcp, SoundTlsReset
<1>2. r = TcpReset(v)
  BY DEF TlsReset, u
<1> HIDE DEF u
<1>3. /\ v.out = <<>> /\ v.retry_wb = NoItem /\ v.when_tcp_is_writing = <<>>
      /\ {"out", "retry_wb", "when_tcp_is_writing", "state", "conn_pending", "write_wait",
          "writing", "resp_pending"} \subseteq DOMAIN v
  BY <1>1 DEF Sound, Transports
<1> HIDE DEF v
<1>4. /\ r.state = "NOT_CONN" /\ r.conn_pending = <<>> /\ r.write_wait = <<>>
      /\ r.writing = <<>> /\ r.resp_pending = <<>>
      /\ r.when_tcp_is_writing = <<>> /\ r.retry_wb = NoItem /\ r.out = <<>>
  BY <1>2, <1>3 DEF TcpReset, AnswerAll
<1> HIDE DEF r
<1>5. (\A w : ~Contains(<<>>, w) /\ Once(w, <<>>)) /\ Counted(<<>>) = <<>> /\ <<>> \in Seq(Items)
  BY InNone, CountedOf, Pieces
<1>6. Given(r) /\ Written(r)
  BY <1>4, <1>5 DEF Given, Written
<1>7. Closed(r) /\ Ordered(r)
  BY <1>4, <1>5 DEF Closed, Ordered, IsOpen
<1>8. Untouched(r)
  BY <1>4, <1>5 DEF Untouched, Waits
<1> QED
  BY <1>1, <1>4, <1>6, <1>7, <1>8 DEF Carrying, Loose, r

LEMMA CarriesUnpend == ASSUME NEW t, Carrying(t) PROVE Carrying(Unpend(t))
<1> DEFINE u == [t EXCEPT !.write_wait = @ \o t.conn_pending, !.conn_pending = <<>>]
<1> SUFFICES ASSUME t.state = "DONE" PROVE Carrying(u)
  BY DEF Unpend
<1>1. Sound(t) /\ t.conn_pending \in Seq(Items) /\ t.write_wait \in Seq(Stuff)
  BY DEF Carrying, Loose, Untouched, Sound, Transports
<1>2. Sound(u)
  BY <1>1, SoundUnpend DEF Unpend
<1>3. /\ u.state = t.state /\ u.conn_pending = <<>>
      /\ u.write_wait = t.write_wait \o t.conn_pending
      /\ u.writing = t.writing /\ u.resp_pending = t.resp_pending
      /\ u.when_tcp_is_writing = t.when_tcp_is_writing /\ u.retry_wb = t.retry_wb
      /\ u.sent = t.sent /\ u.is_writing = t.is_writing /\ u.out = t.out
  BY <1>1 DEF Sound, Transports
<1> HIDE DEF u
<1>4. /\ t.conn_pending \in Seq(TlsBytes) /\ t.conn_pending \in Seq(OnWire)
      /\ t.write_wait \in Seq(OnWire) /\ t.conn_pending \in Seq(Stuff)
  <2>1. Items \subseteq TlsBytes /\ Items \subseteq OnWire /\ Items \subseteq Stuff
    BY DEF TlsBytes, OnWire, Stuff
  <2>2. \A a \in Seq(Items) : a \in Seq(TlsBytes) /\ a \in Seq(OnWire) /\ a \in Seq(Stuff)
    BY <2>1
  <2> QED
    BY <1>1, <2>2, Sendable
<1>5. StreamOf(u) = StreamOf(t) \o t.conn_pending
  <2>1. Counted(u.write_wait) = Counted(t.write_wait) \o t.conn_pending
    <3>1. Counted(t.conn_pending) = t.conn_pending
      BY <1>4, OnlyAll DEF Counted, TlsBytes
    <3> QED
      BY <1>3, <1>4, <3>1, CountedOf
  <2> DEFINE a == Counted(t.sent) \o Counted(t.out)
             b == a \o Counted(Some(t.retry_wb))
             c == Counted(t.write_wait)
  <2>2. a \in Seq(TlsBytes) /\ b \in Seq(TlsBytes) /\ c \in Seq(TlsBytes)
    BY <1>1, StreamParts, Pieces
  <2>3. StreamOf(t) = b \o c /\ StreamOf(u) = b \o (c \o t.conn_pending)
    BY <1>1, <1>2, <1>3, <2>1, StreamParts
  <2> HIDE DEF b, c
  <2>4. \A x, y, z \in Seq(TlsBytes) : (x \o y) \o z = x \o (y \o z)
    OBVIOUS
  <2>5. (b \o c) \o t.conn_pending = b \o (c \o t.conn_pending)
    BY <1>4, <2>2, <2>4
  <2> QED
    BY <2>3, <2>5
<1>6. Ordered(u)
  <2>1. PICK rest \in Seq(Items) : StreamOf(t) = <<"handshake", "ack">> \o rest
    BY DEF Carrying, Loose, Ordered
  <2>2. StreamOf(u) = <<"handshake", "ack">> \o (rest \o t.conn_pending)
    <3> DEFINE p == <<"handshake", "ack">>
    <3>1. p \in Seq(TlsBytes) /\ rest \in Seq(TlsBytes)
      <4>1. Items \subseteq TlsBytes /\ "handshake" \in TlsBytes /\ "ack" \in TlsBytes
        BY DEF TlsBytes, Internal
      <4> QED
        BY <4>1
    <3>2. StreamOf(t) = p \o rest
      BY <2>1
    <3> HIDE DEF p
    <3>3. \A x, y, z \in Seq(TlsBytes) : (x \o y) \o z = x \o (y \o z)
      OBVIOUS
    <3>4. (p \o rest) \o t.conn_pending = p \o (rest \o t.conn_pending)
      BY <1>4, <3>1, <3>3
    <3> QED
      BY <1>5, <3>2, <3>4 DEF p
  <2>3. rest \o t.conn_pending \in Seq(Items)
    BY <1>1, Pieces
  <2>4. ASSUME NEW i \in Items PROVE Once(i, StreamOf(u))
    <3>1. Once(i, StreamOf(t))
      BY DEF Carrying, Loose, Ordered, IsOpen
    <3>2. Once(i, t.conn_pending) /\ ~(Contains(t.conn_pending, i) /\ Contains(StreamOf(t), i))
      BY <1>1, InStream DEF Carrying, Loose, Untouched, Waits
    <3>3. StreamOf(t) \in Seq(TlsBytes)
      BY <1>1, StreamParts
    <3> QED
      BY <1>4, <1>5, <3>1, <3>2, <3>3, InConcat
  <2> QED
    BY <1>3, <2>2, <2>3, <2>4 DEF Ordered
<1>7. Given(u) /\ Written(u)
  BY <1>3 DEF Carrying, Loose, Given, Written
<1>8. Closed(u)
  BY <1>3 DEF Closed, IsOpen
<1>9. Untouched(u)
  <2>1. <<>> \in Seq(Items) /\ \A i : ~Contains(<<>>, i) /\ Once(i, <<>>)
    BY Pieces, InNone
  <2> QED
    BY <1>3, <2>1 DEF Untouched, Waits
<1> QED
  BY <1>2, <1>6, <1>7, <1>8, <1>9 DEF Carrying, Loose

\* tls__write_to_tcp gives to TCP what it counts to the write.
LEMMA CarriesWriteToTcp ==
    ASSUME NEW t, Loose(t)
    PROVE  /\ Carrying(WriteToTcp(t))
           /\ ~IsOpen(t) /\ ~WriteToTcp(t).is_writing => WriteToTcp(t).out = <<>>
           /\ WriteToTcp(t).state = t.state
<1> DEFINE r == WriteToTcp(t)
<1>1. Sound(t) /\ Sound(r)
  BY SoundWriteToTcp DEF Loose
<1>2. CASE t.is_writing
  BY <1>2 DEF WriteToTcp, Carrying, Loose, Given, Written
<1>3. CASE ~t.is_writing /\ t.out = <<>>
  <2>1. r = [t EXCEPT !.write_async = TRUE]
    BY <1>3 DEF WriteToTcp
  <2>2. /\ r.state = t.state /\ r.conn_pending = t.conn_pending /\ r.write_wait = t.write_wait
        /\ r.writing = t.writing /\ r.resp_pending = t.resp_pending
        /\ r.when_tcp_is_writing = t.when_tcp_is_writing /\ r.retry_wb = t.retry_wb
        /\ r.sent = t.sent /\ r.is_writing = t.is_writing /\ r.out = t.out
    BY <1>1, <2>1 DEF Sound, Transports
  <2> HIDE DEF r
  <2>3. Loose(r)
    BY <1>1, <2>2, CarriesAlike
  <2>4. Written(r)
    <3>1. \A w : ~Contains(t.out, w)
      BY <1>3, InNone
    <3>2. t.when_tcp_is_writing = <<>>
      <4>1. t.when_tcp_is_writing \in Seq(Stuff)
        BY <1>1 DEF Sound, Transports
      <4>2. \A w : ~Contains(t.when_tcp_is_writing, w)
        BY <3>1 DEF Loose, Given
      <4>3. ASSUME t.when_tcp_is_writing # <<>> PROVE FALSE
        BY <4>1, <4>2, <4>3, InTail
      <4> QED
        BY <4>3
    <3> QED
      BY <2>2, <3>1, <3>2 DEF Written, Loose, Given
  <2> QED
    BY <1>3, <2>2, <2>3, <2>4 DEF Carrying, r
<1>4. CASE ~t.is_writing /\ t.out # <<>>
  <2> DEFINE passed == IF IsOpen(t) THEN t.sent \o Counted(t.out) ELSE t.sent
  <2>1. r = [t EXCEPT !.writing = @ \o t.when_tcp_is_writing, !.when_tcp_is_writing = <<>>,
                   !.out = <<>>,
                   !.is_writing = IsOpen(t),
                   !.sent = IF IsOpen(t) THEN @ \o Counted(t.out) ELSE @]
    BY <1>4 DEF WriteToTcp
  <2>2. /\ r.state = t.state /\ r.conn_pending = t.conn_pending /\ r.write_wait = t.write_wait
        /\ r.writing = t.writing \o t.when_tcp_is_writing /\ r.resp_pending = t.resp_pending
        /\ r.when_tcp_is_writing = <<>> /\ r.retry_wb = t.retry_wb
        /\ r.sent = passed /\ r.is_writing = IsOpen(t) /\ r.out = <<>>
    BY <1>1, <2>1 DEF Sound, Transports
  <2> HIDE DEF r
  <2>3. /\ t.writing \in Seq(Stuff) /\ t.when_tcp_is_writing \in Seq(Stuff)
        /\ t.sent \in Seq(OnWire) /\ t.out \in Seq(OnWire) /\ Counted(t.out) \in Seq(OnWire)
        /\ Counted(t.sent) \in Seq(TlsBytes) /\ Counted(t.out) \in Seq(TlsBytes)
    BY <1>1, CountedOf DEF Sound, Transports
  <2>4. \A w : /\ Contains(r.writing, w)
                    <=> Contains(t.writing, w) \/ Contains(t.when_tcp_is_writing, w)
               /\ ~Contains(<<>>, w)
    BY <2>2, <2>3, InConcat, InNone
  <2>5. \A w : /\ Contains(passed, w)
                    <=> Contains(t.sent, w) \/ (IsOpen(t) /\ w \in TlsBytes /\ Contains(t.out, w))
    <3>1. \A w : Contains(t.sent \o Counted(t.out), w)
                   <=> Contains(t.sent, w) \/ Contains(Counted(t.out), w)
      BY <2>3, InConcat
    <3>2. \A w : Contains(Counted(t.out), w) <=> w \in TlsBytes /\ Contains(t.out, w)
      BY <2>3, CountedOf
    <3> QED
      BY <3>1, <3>2
  <2>6. IsOpen(r) <=> IsOpen(t)
    BY <2>2 DEF IsOpen
  <2>7. IsOpen(t) => StreamOf(r) = StreamOf(t)
    <3> SUFFICES ASSUME IsOpen(t) PROVE StreamOf(r) = StreamOf(t)
      OBVIOUS
    <3> DEFINE a == Counted(t.sent) \o Counted(t.out)
    <3>1. Counted(passed) = a
      BY <2>3, CountedOf, ZenonT(60)
    <3>2. a \in Seq(TlsBytes) /\ a \o <<>> = a
      <4>1. a \in Seq(TlsBytes)
        BY <2>3, Pieces
      <4> HIDE DEF a
      <4> QED
        BY <4>1
    <3>3. StreamOf(r) = ((Counted(passed) \o Counted(<<>>)) \o Counted(Some(t.retry_wb)))
                           \o Counted(t.write_wait)
      BY <1>1, <2>2, StreamParts DEF r
    <3>4. Counted(<<>>) = <<>>
      BY CountedOf
    <3> HIDE DEF passed
    <3> QED
      BY <1>1, <3>1, <3>2, <3>3, <3>4, StreamParts
  <2> HIDE DEF passed
  <2>8. Given(r) /\ Written(r)
    <3>1. ASSUME NEW w \in TlsBytes, Contains(r.writing, w) \/ Contains(r.resp_pending, w)
          PROVE  Contains(r.sent, w)
      <4>1. Contains(t.sent, w) \/ Contains(t.out, w)
        BY <2>2, <2>4, <3>1 DEF Loose, Given
      <4>2. IsOpen(t)
        BY <2>2, <2>4, <3>1 DEF Loose, Closed
      <4> QED
        BY <2>2, <2>5, <4>1, <4>2
    <3> QED
      BY <2>2, <2>4, <3>1 DEF Given, Written
  <2>9. Closed(r)
    <3>1. t.state # "CONNECTING"
      BY <1>4 DEF Loose, Closed
    <3>2. ~IsOpen(t) => r.writing = <<>> /\ t.resp_pending = <<>> /\ t.write_wait = <<>>
                          /\ t.retry_wb = NoItem
      <4>1. <<>> \o <<>> = <<>>
        OBVIOUS
      <4> QED
        BY <2>2, <4>1 DEF Loose, Closed
    <3>3. Counted(<<>>) = <<>>
      BY CountedOf
    <3> QED
      BY <2>2, <2>6, <3>1, <3>2, <3>3 DEF Closed
  <2>10. Ordered(r)
    BY <2>2, <2>6, <2>7 DEF Loose, Ordered, IsOpen
  <2>11. Untouched(r)
    BY <2>2, <2>4, <2>5 DEF Loose, Untouched, Waits, Queued, Encoded
  <2> QED
    BY <1>1, <1>4, <2>2, <2>8, <2>9, <2>10, <2>11 DEF Carrying, Loose, r
<1> QED
  BY <1>2, <1>3, <1>4

LEMMA CarriesAllWritten ==
    ASSUME NEW t, Carrying(t), IsOpen(t)
    PROVE  Carrying(AllWritten(t)) /\ AllWritten(t).state = t.state
<1> DEFINE again == Some(t.should_retry)
           items == again \o t.write_wait
           retry == Some(t.retry_wb)
           j == Join(t, items)
           u == [j EXCEPT
            !.out = @ \o retry \o t.write_wait,
            !.should_retry = NoItem, !.retry_wb = NoItem, !.write_wait = <<>>,
            !.is_handshake_completed = TRUE]
           o == t.out \o retry
<1>1. /\ Sound(t) /\ again \in Seq(Stuff) /\ retry \in Seq(OnWire)
      /\ t.write_wait \in Seq(Stuff) /\ t.write_wait \in Seq(OnWire)
      /\ t.writing \in Seq(Stuff) /\ t.when_tcp_is_writing \in Seq(Stuff)
      /\ t.out \in Seq(OnWire) /\ t.sent \in Seq(OnWire)
  BY SomeType, Sendable DEF Carrying, Loose, Sound, Transports
<1>2. \A w : Contains(again, w) => Contains(retry, w)
  BY <1>1, InNone DEF Sound, Some
<1> HIDE DEF again, retry
<1>3. /\ items \in Seq(Stuff)
      /\ \A w : Contains(items, w) <=> Contains(again, w) \/ Contains(t.write_wait, w)
  BY <1>1, Pieces, InConcat
<1> HIDE DEF items
<1>4. Sound(j) /\ j = IF t.is_writing THEN [t EXCEPT !.when_tcp_is_writing = @ \o items]
                      ELSE [t EXCEPT !.writing = @ \o items]
  BY <1>1, <1>3, SoundJoin DEF Join
<1>5. /\ j.state = t.state /\ j.conn_pending = t.conn_pending /\ j.resp_pending = t.resp_pending
      /\ j.out = t.out /\ j.sent = t.sent /\ j.is_writing = t.is_writing
      /\ j.when_tcp_is_writing =
           IF t.is_writing THEN t.when_tcp_is_writing \o items ELSE t.when_tcp_is_writing
      /\ j.writing = IF t.is_writing THEN t.writing ELSE t.writing \o items
  BY <1>1, <1>4 DEF Sound, Transports
<1> HIDE DEF j
<1>6. o \in Seq(OnWire) /\ o \o t.write_wait \in Seq(OnWire)
  BY <1>1, Pieces
<1>7. /\ u.state = t.state /\ u.conn_pending = t.conn_pending /\ u.resp_pending = t.resp_pending
      /\ u.out = o \o t.write_wait /\ u.sent = t.sent /\ u.is_writing = t.is_writing
      /\ u.when_tcp_is_writing = j.when_tcp_is_writing /\ u.writing = j.writing
      /\ u.retry_wb = NoItem /\ u.write_wait = <<>>
  BY <1>4, <1>5, ZenonT(60) DEF Sound, Transports
<1>8. Sound(u)
  <2>1. <<>> \in Seq(Stuff)
    BY Pieces
  <2>2. j.out \o retry \o t.write_wait \in Seq(OnWire)
    BY <1>5, <1>6
  <2>3. Sound(j)
    BY <1>4
  <2> HIDE DEF o
  <2> QED
    BY <2>1, <2>2, <2>3 DEF Sound, Transports
<1>9. AllWritten(t) = WriteToTcp(u)
  BY <1>5 DEF AllWritten, u, j, items, again, retry
<1> HIDE DEF u
<1>10. /\ \A w : Contains(o, w) <=> Contains(t.out, w) \/ Contains(retry, w)
       /\ Counted(o) = Counted(t.out) \o Counted(retry)
  <2>1. \A w : Contains(o, w) <=> Contains(t.out, w) \/ Contains(retry, w)
    BY <1>1, InConcat
  <2>2. Counted(o) = Counted(t.out) \o Counted(retry)
    BY <1>1, CountedOf
  <2> QED
    BY <2>1, <2>2
<1> HIDE DEF o
<1>11. /\ \A w : Contains(u.out, w) <=> Contains(o, w) \/ Contains(t.write_wait, w)
       /\ Counted(u.out) = Counted(o) \o Counted(t.write_wait)
  <2>1. \A w : Contains(u.out, w) <=> Contains(o, w) \/ Contains(t.write_wait, w)
    BY <1>1, <1>6, <1>7, InConcat
  <2>2. Counted(u.out) = Counted(o) \o Counted(t.write_wait)
    BY <1>1, <1>6, <1>7, CountedOf, ZenonT(60)
  <2> QED
    BY <2>1, <2>2
<1>12. \A w : Contains(items, w) => Contains(u.out, w)
  BY <1>2, <1>3, <1>10, <1>11
<1>13. /\ \A w : Contains(u.writing, w) =>
               Contains(t.writing, w) \/ (~t.is_writing /\ Contains(items, w))
       /\ \A w : Contains(u.when_tcp_is_writing, w) =>
               Contains(t.when_tcp_is_writing, w) \/ Contains(items, w)
  <2>1. /\ \A w : Contains(t.writing \o items, w) <=> Contains(t.writing, w) \/ Contains(items, w)
        /\ \A w : Contains(t.when_tcp_is_writing \o items, w)
                     <=> Contains(t.when_tcp_is_writing, w) \/ Contains(items, w)
    BY <1>1, <1>3, InConcat
  <2> QED
    BY <1>5, <1>7, <2>1
<1>14. StreamOf(u) = StreamOf(t)
  <2> DEFINE a == Counted(t.sent)
             b == Counted(t.out)
             c == Counted(retry)
             d == Counted(t.write_wait)
  <2>1. /\ a \in Seq(TlsBytes) /\ b \in Seq(TlsBytes) /\ c \in Seq(TlsBytes) /\ d \in Seq(TlsBytes)
        /\ StreamOf(t) = ((a \o b) \o c) \o d
    BY <1>1, StreamParts DEF retry
  <2>2. Counted(u.out) = (b \o c) \o d
    BY <1>10, <1>11
  <2>3. StreamOf(u) = ((Counted(u.sent) \o Counted(u.out)) \o Counted(Some(u.retry_wb)))
                         \o Counted(u.write_wait)
    BY <1>8, StreamParts
  <2>4. Counted(u.sent) = a /\ Counted(Some(u.retry_wb)) = <<>> /\ Counted(u.write_wait) = <<>>
    BY <1>7, CountedOf DEF Some
  <2> HIDE DEF a, b, c, d
  <2>5. \A w, x, y, z \in Seq(TlsBytes) :
           ((w \o ((x \o y) \o z)) \o <<>>) \o <<>> = ((w \o x) \o y) \o z
    OBVIOUS
  <2>6. ((a \o ((b \o c) \o d)) \o <<>>) \o <<>> = ((a \o b) \o c) \o d
    BY <2>1, <2>5, SMTT(30)
  <2> QED
    BY <2>1, <2>2, <2>3, <2>4, <2>6
<1>15. Loose(u)
  <2>1. Given(u)
    <3>1. ASSUME NEW w \in TlsBytes, Contains(u.writing, w) \/ Contains(u.resp_pending, w)
          PROVE  Contains(u.sent, w) \/ (~u.is_writing /\ Contains(u.out, w))
      BY <1>7, <1>12, <1>13, <3>1 DEF Carrying, Written
    <3>2. \A w : Contains(u.when_tcp_is_writing, w) => Contains(u.out, w)
      BY <1>10, <1>11, <1>12, <1>13 DEF Carrying, Loose, Given
    <3> QED
      BY <3>1, <3>2 DEF Given
  <2>2. Closed(u)
    BY <1>7 DEF Closed, IsOpen
  <2>3. Ordered(u)
    BY <1>7, <1>14 DEF Carrying, Loose, Ordered, IsOpen
  <2>4. Untouched(u)
    <3>1. ASSUME NEW i \in Items, Waits(u, i)
          PROVE  ~Encoded(u, i) /\ ~Queued(u, i) /\ Once(i, u.conn_pending)
      <4>1. Waits(t, i)
        BY <1>7, <3>1 DEF Waits
      <4>2. ~Encoded(t, i) /\ ~Queued(t, i) /\ Once(i, t.conn_pending)
        BY <4>1 DEF Carrying, Loose, Untouched
      <4>3. ~Contains(retry, i)
        BY <1>1, <4>2, SomeType DEF Encoded, retry, Sound, Transports
      <4>4. ~Contains(<<>>, i) /\ i # NoItem
        BY InNone, TlsItemsAssumption
      <4> QED
        BY <1>7, <1>10, <1>11, <4>2, <4>3, <4>4 DEF Encoded, Queued
    <3> QED
      BY <1>7, <3>1 DEF Carrying, Loose, Untouched
  <2> QED
    BY <1>8, <2>1, <2>2, <2>3, <2>4 DEF Loose
<1> QED
  BY <1>7, <1>9, <1>15, CarriesWriteToTcp

LEMMA CarriesNextRetry ==
    ASSUME NEW t, Carrying(t), t.retry_wb = NoItem => t.write_wait # <<>>
    PROVE  Carrying(NextRetry(t)) /\ NextRetry(t).state = t.state
<1>1. CASE t.retry_wb # NoItem
  BY <1>1 DEF NextRetry
<1>2. CASE t.retry_wb = NoItem
  <2> DEFINE h == Head(t.write_wait)
             u == [t EXCEPT !.should_retry = Head(t.write_wait),
                            !.retry_wb = Head(t.write_wait), !.write_wait = Tail(@)]
  <2>1. Sound(t) /\ Sound(u) /\ NextRetry(t) = u
    BY <1>2, SoundNextRetry DEF NextRetry, Carrying, Loose
  <2>2. /\ u.state = t.state /\ u.conn_pending = t.conn_pending /\ u.write_wait = Tail(t.write_wait)
        /\ u.writing = t.writing /\ u.resp_pending = t.resp_pending
        /\ u.when_tcp_is_writing = t.when_tcp_is_writing /\ u.retry_wb = h
        /\ u.sent = t.sent /\ u.is_writing = t.is_writing /\ u.out = t.out
    BY <2>1 DEF Sound, Transports
  <2>3. /\ t.write_wait \in Seq(Stuff) /\ t.write_wait \in Seq(OnWire)
        /\ h \in OnWire /\ h \in Stuff /\ Tail(t.write_wait) \in Seq(OnWire)
        /\ t.write_wait = <<h>> \o Tail(t.write_wait) /\ <<h>> \in Seq(OnWire)
        /\ \A w : Contains(t.write_wait, w) <=> w = h \/ Contains(Tail(t.write_wait), w)
    <3>1. t.write_wait \in Seq(Stuff) /\ t.write_wait \in Seq(OnWire)
      BY <2>1, Sendable DEF Sound, Transports
    <3>2. \A a \in Seq(OnWire) : a # <<>> => a = <<Head(a)>> \o Tail(a)
      OBVIOUS
    <3>3. h \in Stuff /\ h \in OnWire /\ <<h>> \in Seq(OnWire) /\ Tail(t.write_wait) \in Seq(OnWire)
            /\ \A w : Contains(t.write_wait, w) <=> w = h \/ Contains(Tail(t.write_wait), w)
      BY <1>2, <3>1, InTail, Pieces DEF OnWire
    <3> QED
      BY <1>2, <3>1, <3>2, <3>3
  <2> HIDE DEF h, u
  <2>4. h # NoItem
    BY <2>3, TlsItemsAssumption DEF Stuff
  <2>5. StreamOf(u) = StreamOf(t)
    <3> DEFINE a == Counted(t.sent) \o Counted(t.out)
               b == Counted(<<h>>)
               c == Counted(Tail(t.write_wait))
    <3>1. a \in Seq(TlsBytes) /\ b \in Seq(TlsBytes) /\ c \in Seq(TlsBytes)
      <4>1. Counted(t.sent) \in Seq(TlsBytes) /\ Counted(t.out) \in Seq(TlsBytes)
        BY <2>1, StreamParts
      <4>2. a \in Seq(TlsBytes)
        BY <4>1, Pieces
      <4>3. b \in Seq(TlsBytes) /\ c \in Seq(TlsBytes)
        BY <2>3, CountedOf
      <4> QED
        BY <4>2, <4>3
    <3>2. Counted(t.write_wait) = b \o c
      <4>1. \A x, y \in Seq(OnWire) : Counted(x \o y) = Counted(x) \o Counted(y)
        BY CountedOf
      <4>2. PICK one, rest : one = <<h>> /\ rest = Tail(t.write_wait)
        OBVIOUS
      <4>3. one \in Seq(OnWire) /\ rest \in Seq(OnWire) /\ t.write_wait = one \o rest
        BY <2>3, <4>2
      <4>4. Counted(one \o rest) = Counted(one) \o Counted(rest)
        BY <4>1, <4>3
      <4> QED
        BY <4>2, <4>3, <4>4
    <3>3. Counted(Some(t.retry_wb)) = <<>> /\ Some(u.retry_wb) = <<h>>
      BY <1>2, <2>2, <2>4, CountedOf DEF Some
    <3>4. StreamOf(u) = (a \o b) \o c
      BY <2>1, <2>2, <3>3, StreamParts
    <3>5. StreamOf(t) = (a \o <<>>) \o (b \o c)
      BY <2>1, <3>2, <3>3, StreamParts
    <3> HIDE DEF a, b, c
    <3>6. \A x, y, z \in Seq(TlsBytes) : (x \o y) \o z = (x \o <<>>) \o (y \o z)
      OBVIOUS
    <3>7. (a \o b) \o c = (a \o <<>>) \o (b \o c)
      BY <3>1, <3>6
    <3> QED
      BY <3>4, <3>5, <3>7
  <2>6. Given(u) /\ Written(u)
    BY <2>2 DEF Carrying, Loose, Given, Written
  <2>7. Closed(u)
    BY <1>2, <2>2 DEF Carrying, Loose, Closed, IsOpen
  <2>8. Ordered(u)
    BY <2>2, <2>5 DEF Carrying, Loose, Ordered, IsOpen
  <2>9. Untouched(u)
    BY <2>2, <2>3 DEF Carrying, Loose, Untouched, Waits, Queued, Encoded
  <2> QED
    BY <2>1, <2>2, <2>6, <2>7, <2>8, <2>9 DEF Carrying, Loose
<1> QED
  BY <1>1, <1>2

LEMMA CarriesWriteToBio ==
    ASSUME NEW t, Carrying(t)
    PROVE  /\ Carrying(WriteToBio(t))
           /\ WriteToBio(t).state \in {t.state, "NOT_CONN"}
           /\ ~IsOpen(t) => WriteToBio(t) = t
           /\ IsOpen(t) /\ ~IsOpen(WriteToBio(t)) => WriteToBio(t).out = <<>>
<1> DEFINE u == Unpend(t)
           v == Shake(u)
           r == WriteToBio(t)
<1>1. Sound(t) /\ Carrying(u) /\ Sound(u)
  BY CarriesUnpend DEF Carrying, Loose
<1>2. u.state = t.state /\ (~IsOpen(t) => u = t)
  BY <1>1 DEF Unpend, IsOpen, Sound, Transports
<1>3. ~IsOpen(t) => r = t
  <2>1. ~IsOpen(t) => t.retry_wb = NoItem /\ t.write_wait = <<>>
    BY DEF Carrying, Loose, Closed
  <2> QED
    BY <1>2, <2>1 DEF WriteToBio
<1>4. CASE IsOpen(t)
  <2>1. Carrying(v) /\ Sound(v) /\ v.state = t.state
    BY <1>1, <1>2, <1>4, CarriesShake, ShakeLeaves DEF IsOpen, Carrying, Loose
  <2>2. v.retry_wb = u.retry_wb /\ v.write_wait = u.write_wait
    BY <1>1, ShakeLeaves
  <2>3. \/ r = t \/ r = u
        \/ r = AllWritten(v)
        \/ /\ ~(v.retry_wb = NoItem /\ v.write_wait = <<>>)
           /\ r = NextRetry(v) \/ r = TlsReset(NextRetry(v))
    BY <2>2 DEF WriteToBio
  <2> HIDE DEF u, v, r
  <2>4. /\ Carrying(AllWritten(v)) /\ AllWritten(v).state = t.state
    BY <1>4, <2>1, CarriesAllWritten DEF IsOpen
  <2>5. ASSUME ~(v.retry_wb = NoItem /\ v.write_wait = <<>>)
        PROVE  /\ Carrying(NextRetry(v)) /\ NextRetry(v).state = t.state
               /\ Carrying(TlsReset(NextRetry(v))) /\ TlsReset(NextRetry(v)).out = <<>>
               /\ TlsReset(NextRetry(v)).state = "NOT_CONN"
    <3>1. Carrying(NextRetry(v)) /\ NextRetry(v).state = t.state
      BY <2>1, <2>5, CarriesNextRetry
    <3>2. Sound(NextRetry(v))
      BY <3>1 DEF Carrying, Loose
    <3> QED
      BY <3>1, <3>2, CarriesReset
  <2> QED
    BY <1>1, <1>2, <1>4, <2>3, <2>4, <2>5 DEF IsOpen, r
<1>5. CASE ~IsOpen(t)
  BY <1>3, <1>5 DEF IsOpen
<1> QED
  BY <1>3, <1>4, <1>5

LEMMA CarriesHandshakeDone ==
    ASSUME NEW t, Carrying(t), t.state = "HANDSHAKEING", Contains(t.sent, "handshake")
    PROVE  Carrying(HandshakeDone(t)) /\ HandshakeDone(t).state = "DONE"
<1> DEFINE u == HandshakeDone(t)
           ack == <<"ack">>
<1>1. Sound(t) /\ Sound(u)
  <2>1. ack \o t.write_wait \in Seq(Stuff)
    <3>1. ack \in Seq(Stuff)
      BY Pieces DEF Stuff, Internal
    <3> HIDE DEF ack
    <3> QED
      BY <3>1, Pieces DEF Carrying, Loose, Sound, Transports
  <2> QED
    BY <2>1 DEF Carrying, Loose, Sound, Transports, HandshakeDone
<1>2. /\ u.state = "DONE" /\ u.conn_pending = t.conn_pending
      /\ u.write_wait = ack \o t.write_wait
      /\ u.writing = t.writing /\ u.resp_pending = t.resp_pending
      /\ u.when_tcp_is_writing = t.when_tcp_is_writing /\ u.retry_wb = t.retry_wb
      /\ u.sent = t.sent /\ u.is_writing = t.is_writing /\ u.out = t.out
  BY <1>1 DEF Sound, Transports, HandshakeDone
<1> HIDE DEF u
<1>3. /\ ack \in Seq(OnWire) /\ t.write_wait \in Seq(OnWire) /\ t.sent \in Seq(OnWire)
      /\ "handshake" \in TlsBytes /\ Counted(ack) = ack /\ ack \in Seq(TlsBytes)
      /\ \A i \in Items : ~Contains(ack, i)
  <2>1. "ack" \in Stuff /\ "handshake" \in TlsBytes /\ "ack" \in TlsBytes
          /\ \A i \in Items : i # "ack"
    BY TlsItemsAssumption DEF Stuff, Internal, TlsBytes
  <2>2. t.write_wait \in Seq(OnWire) /\ t.sent \in Seq(OnWire)
    BY <1>1, Sendable DEF Sound, Transports
  <2>3. ack \in Seq(OnWire) /\ ack \in Seq(TlsBytes)
    BY <2>1, Pieces DEF OnWire
  <2>4. Counted(ack) = ack
    BY CountedOf
  <2>5. \A i \in Items : ~Contains(ack, i)
    BY <2>1, InOne
  <2> QED
    BY <2>1, <2>2, <2>3, <2>4, <2>5
<1>4. StreamOf(t) = <<"handshake">>
  BY DEF Carrying, Loose, Ordered
<1>5. StreamOf(u) = <<"handshake", "ack">>
  <2> DEFINE a == Counted(t.sent)
             b == Counted(t.out)
             c == Counted(Some(t.retry_wb))
             d == Counted(t.write_wait)
  <2>1. /\ a \in Seq(TlsBytes) /\ b \in Seq(TlsBytes) /\ c \in Seq(TlsBytes) /\ d \in Seq(TlsBytes)
        /\ ((a \o b) \o c) \o d = <<"handshake">>
    BY <1>1, <1>4, StreamParts
  <2>2. Contains(a, "handshake")
    BY <1>3, CountedOf
  <2>3. Counted(u.write_wait) = ack \o d
    <3> HIDE DEF ack
    <3>1. Counted(ack \o t.write_wait) = Counted(ack) \o Counted(t.write_wait)
      BY <1>3, CountedOf
    <3> QED
      BY <1>2, <1>3, <3>1
  <2>4. StreamOf(u) = ((a \o b) \o c) \o (ack \o d)
    BY <1>1, <1>2, <2>3, StreamParts
  <2> HIDE DEF a, b, c, d
  <2>5. Len(a) \in Nat /\ Len(a) >= 1
    BY <2>1, <2>2 DEF Contains
  <2>6. /\ Len(a) \in Nat /\ Len(b) \in Nat /\ Len(c) \in Nat /\ Len(d) \in Nat
        /\ Len(a) + Len(b) + Len(c) + Len(d) = Len(((a \o b) \o c) \o d)
    BY <2>1
  <2>7. Len(((a \o b) \o c) \o d) = 1
    BY <2>1
  <2>8. Len(a) = 1 /\ Len(b) = 0 /\ Len(c) = 0 /\ Len(d) = 0
    <3>1. Len(a) + Len(b) + Len(c) + Len(d) = 1
      BY <2>6, <2>7, Zenon
    <3> QED
      BY <2>5, <2>6, <3>1, OneOfFour
  <2>9. b = <<>> /\ c = <<>> /\ d = <<>>
    BY <2>1, <2>8
  <2>10. ((a \o <<>>) \o <<>>) \o <<>> = a /\ ((a \o <<>>) \o <<>>) \o (ack \o <<>>) = a \o ack
    BY <1>3, <2>1
  <2>11. <<"handshake">> \o ack = <<"handshake", "ack">>
    BY PairOf
  <2> QED
    BY <2>1, <2>4, <2>9, <2>10, <2>11
<1>6. Ordered(u)
  <2>1. <<>> \in Seq(Items) /\ <<"handshake", "ack">> \o <<>> = <<"handshake", "ack">>
    OBVIOUS
  <2>2. ASSUME NEW i \in Items PROVE Once(i, <<"handshake", "ack">>)
    <3>1. i # "handshake" /\ i # "ack"
      BY TlsItemsAssumption DEF Internal
    <3> QED
      BY <3>1 DEF Once
  <2> QED
    BY <1>2, <1>5, <2>1, <2>2 DEF Ordered
<1>7. Given(u) /\ Written(u)
  BY <1>2 DEF Carrying, Loose, Given, Written
<1>8. Closed(u)
  BY <1>2 DEF Closed, IsOpen
<1>9. Untouched(u)
  <2>1. \A i \in Items : Contains(u.write_wait, i) <=> Contains(t.write_wait, i)
    <3> HIDE DEF ack
    <3> QED
      BY <1>2, <1>3, InConcat
  <2> QED
    BY <1>2, <2>1 DEF Carrying, Loose, Untouched, Waits, Queued, Encoded
<1> QED
  BY <1>1, <1>2, <1>6, <1>7, <1>8, <1>9 DEF Carrying, Loose, u

LEMMA CarriesHandlers ==
    ASSUME NEW t, Carrying(t), t.state # "CONNECTING", NEW u \in Handlers(t)
    PROVE  Carrying(u) /\ u.state # "CONNECTING"
<1>1. Sound(t)
  BY DEF Carrying, Loose
<1>2. ASSUME NEW r \in Requests
      PROVE  LET v == [AnswerAll(t, <<r>>) EXCEPT !.resp_pending = Only(Requests \ {r}, @)]
             IN  Carrying(v) /\ v.state = t.state
  <2> DEFINE v == [AnswerAll(t, <<r>>) EXCEPT !.resp_pending = Only(Requests \ {r}, @)]
  <2>1. /\ Only(Requests \ {r}, t.resp_pending) \in Seq(Requests)
        /\ \A w : Contains(Only(Requests \ {r}, t.resp_pending), w) => Contains(t.resp_pending, w)
        /\ Only(Requests \ {r}, <<>>) = <<>>
    <3>1. t.resp_pending \in Seq(Requests)
      BY <1>1 DEF Sound, Transports
    <3>2. /\ Only(Requests \ {r}, t.resp_pending) \in Seq((Requests \ {r}) \cap Requests)
          /\ \A w : Contains(Only(Requests \ {r}, t.resp_pending), w)
                       <=> w \in Requests \ {r} /\ Contains(t.resp_pending, w)
      BY <3>1, OnlySelects
    <3>3. (Requests \ {r}) \cap Requests \subseteq Requests
      OBVIOUS
    <3>4. Only(Requests \ {r}, t.resp_pending) \in Seq(Requests)
      BY <3>2, <3>3
    <3>5. Only(Requests \ {r}, <<>>) = <<>>
      BY OnlyNone
    <3> QED
      BY <3>2, <3>4, <3>5
  <2>2. /\ v.state = t.state /\ v.conn_pending = t.conn_pending /\ v.write_wait = t.write_wait
        /\ v.writing = t.writing /\ v.resp_pending = Only(Requests \ {r}, t.resp_pending)
        /\ v.when_tcp_is_writing = t.when_tcp_is_writing /\ v.retry_wb = t.retry_wb
        /\ v.sent = t.sent /\ v.is_writing = t.is_writing /\ v.out = t.out
    BY <1>1 DEF Sound, Transports, AnswerAll
  <2>3. Sound(v)
    <3>1. ItemsOf(<<r>>) \subseteq Items
      BY DEF ItemsOf
    <3> QED
      BY <1>1, <2>1, <3>1 DEF Sound, Transports, AnswerAll
  <2> HIDE DEF v
  <2>4. StreamOf(v) = StreamOf(t)
    BY <2>2 DEF StreamOf
  <2>5. Given(v) /\ Written(v)
    BY <2>1, <2>2 DEF Carrying, Loose, Given, Written
  <2>6. Closed(v)
    BY <2>1, <2>2 DEF Carrying, Loose, Closed, IsOpen
  <2>7. Ordered(v)
    BY <2>2, <2>4 DEF Carrying, Loose, Ordered, IsOpen
  <2>8. Untouched(v)
    BY <2>2 DEF Carrying, Loose, Untouched, Waits, Queued, Encoded
  <2> QED
    BY <2>2, <2>3, <2>5, <2>6, <2>7, <2>8 DEF Carrying, Loose, v
<1>3. Carrying(TlsReset(t)) /\ TlsReset(t).state = "NOT_CONN"
  BY <1>1, CarriesReset
<1> QED
  BY <1>2, <1>3, CarriesHandshakeDone DEF Handlers

LEMMA CarriesReadFromBio ==
    ASSUME NEW t, Carrying(t), t.state # "CONNECTING", NEW u \in ReadFromBio(t)
    PROVE  Carrying(u)
<1> DEFINE s == Shake(t)
           h == [s EXCEPT !.is_handshake_completed = TRUE]
           again == [s EXCEPT !.ssl = "handshake", !.in = "none", !.out = Append(@, "ssl")]
           read == [s EXCEPT !.in = "none"]
<1>1. Carrying(s) /\ Sound(s) /\ Loose(s) /\ s.state # "CONNECTING"
  <2>1. Sound(t)
    BY DEF Carrying, Loose
  <2> QED
    BY <2>1, CarriesShake, ShakeLeaves DEF Carrying, Loose
<1>2. \/ u \in {TlsReset(s), s, read, again}
      \/ \E v \in Handlers(h) : u = Shake([v EXCEPT !.in = "none"])
  BY DEF ReadFromBio, s, h, read, again
<1> HIDE DEF s
<1>3. \A v \in {h, read, again} :
         /\ v.state = s.state /\ v.conn_pending = s.conn_pending /\ v.write_wait = s.write_wait
         /\ v.writing = s.writing /\ v.resp_pending = s.resp_pending
         /\ v.when_tcp_is_writing = s.when_tcp_is_writing /\ v.retry_wb = s.retry_wb
         /\ v.sent = s.sent /\ v.is_writing = s.is_writing
         /\ v.out \in {s.out, Append(s.out, "ssl")}
  BY <1>1, ZenonT(60) DEF Sound, Transports
<1>4. Sound(h) /\ Sound(read) /\ Sound(again)
  <2>1. Append(s.out, "ssl") \in Seq(OnWire)
    BY <1>1, OutWithSsl DEF Sound, Transports
  <2> QED
    BY <1>1, <2>1 DEF Sound, Transports
<1> HIDE DEF h, read, again
<1>5. Carrying(h) /\ Carrying(read) /\ Carrying(again)
  BY <1>1, <1>3, <1>4, CarriesAlike DEF Carrying
<1>6. ASSUME NEW v \in Handlers(h) PROVE Carrying(Shake([v EXCEPT !.in = "none"]))
  <2> DEFINE w == [v EXCEPT !.in = "none"]
  <2>1. Carrying(v) /\ v.state # "CONNECTING" /\ Sound(v) /\ Loose(v) /\ Written(v)
    BY <1>1, <1>3, <1>5, CarriesHandlers DEF Carrying, Loose
  <2>2. /\ w.state = v.state /\ w.conn_pending = v.conn_pending /\ w.write_wait = v.write_wait
        /\ w.writing = v.writing /\ w.resp_pending = v.resp_pending
        /\ w.when_tcp_is_writing = v.when_tcp_is_writing /\ w.retry_wb = v.retry_wb
        /\ w.sent = v.sent /\ w.is_writing = v.is_writing /\ w.out = v.out
        /\ Sound(w)
    BY <2>1 DEF Sound, Transports
  <2> HIDE DEF w
  <2>3. Carrying(w)
    BY <2>1, <2>2, CarriesAlike DEF Carrying
  <2>4. Carrying(Shake(w))
    BY <2>1, <2>2, <2>3, CarriesShake
  <2> QED
    BY <2>4 DEF w
<1>7. Carrying(TlsReset(s))
  BY <1>1, CarriesReset
<1> QED
  BY <1>1, <1>2, <1>5, <1>6, <1>7

\* At rest, what SSL says for itself is not kept for a connection to come.
Rest(t) == ~IsOpen(t) /\ ~t.is_writing => t.out = <<>>

CarriedInv == KeptInv /\ Carrying(tls) /\ Rest(tls)

\* What a callback leaves is what its functions leave; an insertion that it overlaps is lost.
LEMMA CarriesBecomes ==
    ASSUME CarriedInv, NEW u, Carrying(u), Rest(u), Becomes(u) \/ Overlapped(u)
    PROVE  Carrying(tls') /\ Rest(tls')
<1>1. CASE Becomes(u)
  BY <1>1 DEF Becomes
<1>2. CASE Overlapped(u)
  <2>1. PICK broken \in BOOLEAN :
           tls' = [u EXCEPT !.lost = @ \cup {sending}, !.torn = broken, !.write_async = TRUE]
    BY <1>2 DEF Overlapped
  <2> DEFINE v == [u EXCEPT !.lost = @ \cup {sending}, !.torn = broken, !.write_async = TRUE]
  <2>2. sending \in Items /\ Sound(u) /\ Loose(u) /\ Written(u)
    BY <1>2 DEF CarriedInv, KeptInv, Overlapped, Carrying, Loose
  <2>3. /\ v.state = u.state /\ v.conn_pending = u.conn_pending /\ v.write_wait = u.write_wait
        /\ v.writing = u.writing /\ v.resp_pending = u.resp_pending
        /\ v.when_tcp_is_writing = u.when_tcp_is_writing /\ v.retry_wb = u.retry_wb
        /\ v.sent = u.sent /\ v.is_writing = u.is_writing /\ v.out = u.out
        /\ Sound(v)
    BY <2>2 DEF Sound, Transports
  <2>4. tls' = v
    BY <2>1
  <2> HIDE DEF v
  <2>5. Carrying(v)
    BY <2>2, <2>3, CarriesAlike DEF Carrying
  <2>6. Rest(v)
    BY <2>3 DEF Rest, IsOpen
  <2> QED
    BY <2>4, <2>5, <2>6
<1> QED
  BY <1>1, <1>2

LEMMA CarriesWriteAsync ==
    ASSUME CarriedInv, WriteAsync PROVE Carrying(tls') /\ Rest(tls')
<1> DEFINE t == [tls EXCEPT !.write_async = FALSE]
           u == WriteToBio(t)
<1>1. Sound(tls) /\ Loose(tls) /\ Written(tls) /\ Rest(tls)
  BY DEF CarriedInv, KeptInv, Carrying
<1>2. /\ t.state = tls.state /\ t.conn_pending = tls.conn_pending /\ t.write_wait = tls.write_wait
      /\ t.writing = tls.writing /\ t.resp_pending = tls.resp_pending
      /\ t.when_tcp_is_writing = tls.when_tcp_is_writing /\ t.retry_wb = tls.retry_wb
      /\ t.sent = tls.sent /\ t.is_writing = tls.is_writing /\ t.out = tls.out
      /\ Sound(t)
  BY <1>1 DEF Sound, Transports
<1>3. Becomes(u) \/ Overlapped(u)
  BY DEF WriteAsync
<1> HIDE DEF t
<1>4. Carrying(t) /\ Rest(t)
  BY <1>1, <1>2, CarriesAlike DEF Carrying, Rest, IsOpen
<1>5. Carrying(u) /\ Rest(u)
  BY <1>4, CarriesWriteToBio DEF Rest
<1> QED
  BY <1>3, <1>5, CarriesBecomes

LEMMA CarriesTcpRead ==
    ASSUME CarriedInv, NEW input \in Inputs, TcpRead(input) PROVE Carrying(tls') /\ Rest(tls')
<1> DEFINE t == [tls EXCEPT !.in = input]
           written == WriteToBio(t)
<1>1. Sound(tls) /\ Loose(tls) /\ Written(tls) /\ IsOpen(tls)
  BY DEF CarriedInv, KeptInv, Carrying, TcpRead
<1>2. /\ t.state = tls.state /\ t.conn_pending = tls.conn_pending /\ t.write_wait = tls.write_wait
      /\ t.writing = tls.writing /\ t.resp_pending = tls.resp_pending
      /\ t.when_tcp_is_writing = tls.when_tcp_is_writing /\ t.retry_wb = tls.retry_wb
      /\ t.sent = tls.sent /\ t.is_writing = tls.is_writing /\ t.out = tls.out
      /\ Sound(t)
  BY <1>1 DEF Sound, Transports
<1>3. PICK read \in ReadFromBio(written) :
         Becomes(WriteToTcp(read)) \/ Overlapped(WriteToTcp(read))
  BY DEF TcpRead
<1> HIDE DEF t
<1>4. Carrying(t) /\ t.state # "CONNECTING"
  BY <1>1, <1>2, CarriesAlike DEF Carrying, IsOpen
<1>5. Carrying(written) /\ written.state # "CONNECTING"
  BY <1>4, CarriesWriteToBio
<1> HIDE DEF written
<1>6. Carrying(read)
  BY <1>3, <1>5, CarriesReadFromBio
<1>7. Carrying(WriteToTcp(read)) /\ Rest(WriteToTcp(read))
  BY <1>6, CarriesWriteToTcp DEF Carrying, Rest, IsOpen
<1> QED
  BY <1>3, <1>7, CarriesBecomes

LEMMA CarriesResets ==
    ASSUME CarriedInv, TcpReadError \/ ConnFailed \/ ResetByTimer
    PROVE  Carrying(tls') /\ Rest(tls')
<1>1. Sound(tls) /\ Becomes(TlsReset(tls))
  BY DEF CarriedInv, KeptInv, TcpReadError, ConnFailed, ResetByTimer
<1> QED
  BY <1>1, CarriesReset, CarriesBecomes DEF Rest

LEMMA CarriesInsert ==
    ASSUME CarriedInv, Insert PROVE Carrying(tls') /\ Rest(tls')
<1> DEFINE a == [tls EXCEPT !.conn_pending = Append(@, sending),
                         !.write_async = tls.state # "NOT_CONN"]
           b == [tls EXCEPT !.lost = @ \cup {sending}, !.write_async = TRUE]
           c == [tls EXCEPT !.write_wait = Append(@, sending), !.write_async = TRUE]
<1>1. /\ Sound(tls) /\ Loose(tls) /\ Written(tls) /\ Carrying(tls) /\ Rest(tls)
      /\ sending \in Items /\ sending \in Stuff /\ sending \in TlsBytes
      /\ ~Holds(tls, sending) /\ ~Encoded(tls, sending)
  BY DEF CarriedInv, KeptInv, Carrying, Insert, Accounted, Stuff, TlsBytes
<1>2. /\ tls' \in {a, b, c}
      /\ tls' = a \/ (tls.state = "DONE" /\ tls' = b) \/ (tls.state = "DONE" /\ tls' = c)
  BY DEF Insert
<1>3. /\ tls.conn_pending \in Seq(Items) /\ Append(tls.conn_pending, sending) \in Seq(Items)
      /\ tls.conn_pending \in Seq(Stuff) /\ Append(tls.conn_pending, sending) \in Seq(Stuff)
      /\ tls.write_wait \in Seq(Stuff) /\ Append(tls.write_wait, sending) \in Seq(Stuff)
  <2>1. tls.conn_pending \in Seq(Items)
    BY <1>1 DEF Loose, Untouched
  <2> QED
    BY <1>1, <2>1, Pieces DEF Sound, Transports
<1>4. Sound(a) /\ Sound(b) /\ Sound(c)
  BY <1>1, <1>3, ZenonT(60) DEF Sound, Transports
<1>5. \A u \in {a, b, c} :
         /\ u.state = tls.state /\ u.writing = tls.writing /\ u.resp_pending = tls.resp_pending
         /\ u.when_tcp_is_writing = tls.when_tcp_is_writing /\ u.retry_wb = tls.retry_wb
         /\ u.sent = tls.sent /\ u.is_writing = tls.is_writing /\ u.out = tls.out
  BY <1>1, ZenonT(60) DEF Sound, Transports
<1>6. /\ a.conn_pending = Append(tls.conn_pending, sending) /\ a.write_wait = tls.write_wait
      /\ b.conn_pending = tls.conn_pending /\ b.write_wait = tls.write_wait
      /\ c.conn_pending = tls.conn_pending /\ c.write_wait = Append(tls.write_wait, sending)
  BY <1>1, ZenonT(60) DEF Sound, Transports
<1> HIDE DEF a, b, c
<1>7. \A u \in {a, b, c} : /\ Rest(u) /\ Given(u) /\ Written(u)
                           /\ IsOpen(u) <=> IsOpen(tls)
  BY <1>1, <1>5 DEF Rest, IsOpen, Given, Written, Loose
<1>8. Carrying(b)
  BY <1>1, <1>4, <1>5, <1>6, CarriesAlike DEF Carrying
<1>9. Carrying(a)
  <2>1. StreamOf(a) = StreamOf(tls)
    BY <1>5, <1>6 DEF StreamOf
  <2>2. Closed(a)
    BY <1>1, <1>5, <1>6, <1>7 DEF Loose, Closed
  <2>3. Ordered(a)
    BY <1>1, <1>5, <1>7, <2>1 DEF Loose, Ordered
  <2>4. Untouched(a)
    <3>1. ASSUME NEW i \in Items
          PROVE  /\ Contains(a.conn_pending, i) <=> Contains(tls.conn_pending, i) \/ i = sending
                 /\ Once(i, a.conn_pending)
                      <=> /\ Once(i, tls.conn_pending)
                          /\ ~(Contains(tls.conn_pending, i) /\ i = sending)
      BY <1>1, <1>3, <1>6, InAppend
    <3> QED
      BY <1>1, <1>3, <1>5, <1>6, <3>1 DEF Loose, Untouched, Waits, Queued, Encoded, Holds
  <2> QED
    BY <1>4, <1>7, <2>2, <2>3, <2>4 DEF Carrying, Loose
<1>10. ASSUME tls.state = "DONE" PROVE Carrying(c)
  <2>1. StreamOf(c) = StreamOf(tls) \o <<sending>>
    <3> DEFINE p == (Counted(tls.sent) \o Counted(tls.out)) \o Counted(Some(tls.retry_wb))
               q == Counted(tls.write_wait)
               one == <<sending>>
    <3>1. p \in Seq(TlsBytes) /\ q \in Seq(TlsBytes) /\ one \in Seq(TlsBytes)
      BY <1>1, StreamParts, Pieces
    <3>2. Counted(c.write_wait) = q \o one
      <4>1. tls.write_wait \in Seq(OnWire) /\ one \in Seq(OnWire)
              /\ Append(tls.write_wait, sending) = tls.write_wait \o one
        BY <1>1, <1>3, Sendable, Pieces DEF OnWire
      <4>2. Counted(one) = one
        BY <1>1, OnlyOne DEF Counted, TlsBytes
      <4> HIDE DEF one
      <4> QED
        <5>1. Counted(tls.write_wait \o one) = Counted(tls.write_wait) \o Counted(one)
          BY <4>1, CountedOf
        <5> QED
          BY <1>6, <4>1, <4>2, <5>1
    <3>3. StreamOf(tls) = p \o q /\ StreamOf(c) = p \o (q \o one)
      BY <1>1, <1>4, <1>5, <3>2, StreamParts
    <3> HIDE DEF p, q, one
    <3>4. \A x, y, z \in Seq(TlsBytes) : (x \o y) \o z = x \o (y \o z)
      OBVIOUS
    <3>5. (p \o q) \o one = p \o (q \o one)
      BY <3>1, <3>4
    <3> QED
      BY <3>3, <3>5 DEF one
  <2>2. Closed(c)
    BY <1>5, <2>1, <1>10 DEF Closed, IsOpen
  <2>3. Ordered(c)
    <3>1. PICK rest \in Seq(Items) : StreamOf(tls) = <<"handshake", "ack">> \o rest
      BY <1>1, <1>10 DEF Loose, Ordered
    <3>2. StreamOf(c) = <<"handshake", "ack">> \o Append(rest, sending)
            /\ Append(rest, sending) \in Seq(Items)
      <4> DEFINE p == <<"handshake", "ack">>
                 one == <<sending>>
      <4>1. p \in Seq(TlsBytes) /\ rest \in Seq(TlsBytes) /\ one \in Seq(TlsBytes)
              /\ Append(rest, sending) = rest \o one /\ Append(rest, sending) \in Seq(Items)
        <5>1. Items \subseteq TlsBytes /\ "handshake" \in TlsBytes /\ "ack" \in TlsBytes
          BY DEF TlsBytes, Internal
        <5> QED
          BY <1>1, <5>1
      <4>2. StreamOf(c) = (p \o rest) \o one
        BY <2>1, <3>1
      <4> HIDE DEF p, one
      <4>3. \A x, y, z \in Seq(TlsBytes) : (x \o y) \o z = x \o (y \o z)
        OBVIOUS
      <4>4. (p \o rest) \o one = p \o (rest \o one)
        BY <4>1, <4>3
      <4> QED
        BY <4>1, <4>2, <4>4 DEF p
    <3>3. ASSUME NEW i \in Items PROVE Once(i, StreamOf(c))
      <4>1. StreamOf(tls) \in Seq(TlsBytes) /\ StreamOf(c) = Append(StreamOf(tls), sending)
        BY <1>1, <2>1, StreamParts
      <4>2. Once(i, StreamOf(tls))
        BY <1>1, <1>10 DEF Loose, Ordered, IsOpen
      <4>3. ~Contains(StreamOf(tls), sending)
        BY <1>1, InStream DEF Holds
      <4> QED
        BY <1>1, <4>1, <4>2, <4>3, InAppend
    <3> QED
      BY <1>5, <1>10, <3>2, <3>3 DEF Ordered
  <2>4. Untouched(c)
    <3>1. ASSUME NEW i \in Items
          PROVE  Contains(c.write_wait, i) <=> Contains(tls.write_wait, i) \/ i = sending
      BY <1>1, <1>3, <1>6, InAppend
    <3> QED
      BY <1>1, <1>5, <1>6, <3>1 DEF Loose, Untouched, Waits, Queued, Encoded, Holds
  <2> QED
    BY <1>4, <1>7, <2>2, <2>3, <2>4 DEF Carrying, Loose
<1> QED
  BY <1>2, <1>7, <1>8, <1>9, <1>10

LEMMA CarriesWriteDone ==
    ASSUME CarriedInv, WriteDone PROVE Carrying(tls') /\ Rest(tls')
<1>1. PICK ok \in (IF IsOpen(tls) THEN BOOLEAN ELSE {FALSE}) :
         LET kept == IF ok THEN Only(Requests, tls.writing) ELSE <<>>
             done == IF ok THEN Only(Notifies, tls.writing) ELSE tls.writing
         IN  Becomes(WriteToTcp([AnswerAll(tls, done) EXCEPT
                 !.is_writing = FALSE, !.writing = <<>>, !.resp_pending = @ \o kept]))
  BY DEF WriteDone
<1> DEFINE kept == IF ok THEN Only(Requests, tls.writing) ELSE <<>>
           done == IF ok THEN Only(Notifies, tls.writing) ELSE tls.writing
           u == [AnswerAll(tls, done) EXCEPT
                    !.is_writing = FALSE, !.writing = <<>>, !.resp_pending = @ \o kept]
<1>2. /\ Sound(tls) /\ Loose(tls) /\ Written(tls) /\ tls.is_writing
      /\ tls.writing \in Seq(Stuff) /\ tls.resp_pending \in Seq(Requests)
      /\ IsOpen(tls) \/ ~ok
  BY DEF CarriedInv, KeptInv, Carrying, Sound, Transports, WriteDone, IsOpen
<1>3. kept \in Seq(Requests) /\ \A w : Contains(kept, w) => Contains(tls.writing, w)
  <2>1. /\ Only(Requests, tls.writing) \in Seq(Requests \cap Stuff)
        /\ \A w : Contains(Only(Requests, tls.writing), w)
                     <=> w \in Requests /\ Contains(tls.writing, w)
    BY <1>2, OnlySelects
  <2>2. Requests \cap Stuff \subseteq Requests
    OBVIOUS
  <2>3. Only(Requests, tls.writing) \in Seq(Requests)
    BY <2>1, <2>2
  <2> QED
    BY <2>1, <2>3, InNone, Pieces
<1>4. ItemsOf(done) \subseteq Items
  BY DEF ItemsOf
<1>5. ~ok => kept = <<>>
  OBVIOUS
<1>6. Becomes(WriteToTcp(u))
  BY <1>1
<1> HIDE DEF kept, done
<1>7. tls.resp_pending \o kept \in Seq(Requests) /\ <<>> \in Seq(Stuff)
  BY <1>2, <1>3, Pieces
<1>8. Sound(u)
  BY <1>2, <1>4, <1>7 DEF Sound, Transports, AnswerAll
<1>9. /\ u.state = tls.state /\ u.conn_pending = tls.conn_pending /\ u.write_wait = tls.write_wait
      /\ u.writing = <<>> /\ u.resp_pending = tls.resp_pending \o kept
      /\ u.when_tcp_is_writing = tls.when_tcp_is_writing /\ u.retry_wb = tls.retry_wb
      /\ u.sent = tls.sent /\ u.is_writing = FALSE /\ u.out = tls.out
  BY <1>2 DEF Sound, Transports, AnswerAll
<1> HIDE DEF u
<1>10. \A w : Contains(u.resp_pending, w) <=> Contains(tls.resp_pending, w) \/ Contains(kept, w)
  BY <1>2, <1>3, <1>9, InConcat
<1>11. Given(u)
  BY <1>2, <1>3, <1>9, <1>10, InNone DEF Loose, Given, Written
<1>12. Closed(u)
  <2>1. ~IsOpen(tls) => u.resp_pending = <<>>
    <3>1. <<>> \o <<>> = <<>>
      OBVIOUS
    <3> QED
      BY <1>2, <1>5, <1>9, <3>1 DEF Loose, Closed
  <2> QED
    BY <1>2, <1>9, <2>1 DEF Loose, Closed, IsOpen
<1>13. Ordered(u)
  <2>1. StreamOf(u) = StreamOf(tls)
    BY <1>9 DEF StreamOf
  <2> QED
    BY <1>2, <1>9, <2>1 DEF Loose, Ordered, IsOpen
<1>14. Untouched(u)
  BY <1>2, <1>9 DEF Loose, Untouched, Waits, Queued, Encoded
<1>15. Loose(u)
  BY <1>8, <1>11, <1>12, <1>13, <1>14 DEF Loose
<1>16. Carrying(WriteToTcp(u)) /\ Rest(WriteToTcp(u))
  BY <1>15, CarriesWriteToTcp DEF Rest, IsOpen
<1> QED
  BY <1>6, <1>16, CarriesBecomes

LEMMA CarriesConnAsync ==
    ASSUME CarriedInv, ConnAsync PROVE Carrying(tls') /\ Rest(tls')
<1> DEFINE u == [tls EXCEPT !.state = "CONNECTING", !.sent = <<>>]
<1>1. /\ Sound(tls) /\ Loose(tls) /\ Written(tls) /\ Rest(tls) /\ Becomes(u)
      /\ tls.state = "NOT_CONN" /\ ~tls.is_writing /\ ~IsOpen(tls)
  BY DEF CarriedInv, KeptInv, Carrying, ConnAsync, IsOpen
<1>2. Sound(u)
  <2>1. <<>> \in Seq(OnWire)
    BY Pieces
  <2> QED
    BY <1>1, <2>1 DEF Sound, Transports
<1>3. /\ u.state = "CONNECTING" /\ u.conn_pending = tls.conn_pending
      /\ u.write_wait = tls.write_wait
      /\ u.writing = tls.writing /\ u.resp_pending = tls.resp_pending
      /\ u.when_tcp_is_writing = tls.when_tcp_is_writing /\ u.retry_wb = tls.retry_wb
      /\ u.sent = <<>> /\ u.is_writing = tls.is_writing /\ u.out = tls.out
  BY <1>1 DEF Sound, Transports
<1> HIDE DEF u
<1>4. tls.out = <<>> /\ ~IsOpen(u)
  BY <1>1, <1>3 DEF Rest, IsOpen
<1>5. Closed(u) /\ Ordered(u) /\ Rest(u)
  BY <1>1, <1>3, <1>4 DEF Loose, Closed, Ordered, IsOpen, Rest
<1>6. Given(u) /\ Written(u)
  BY <1>1, <1>3, InNone DEF Loose, Closed, Given, Written
<1>7. Untouched(u)
  BY <1>1, <1>3, InNone DEF Loose, Untouched, Waits, Queued, Encoded
<1> QED
  BY <1>1, <1>2, <1>5, <1>6, <1>7, CarriesBecomes DEF Carrying, Loose

LEMMA CarriesConnDone ==
    ASSUME CarriedInv, ConnDone PROVE Carrying(tls') /\ Rest(tls')
<1> DEFINE hello == <<"handshake">>
           c == [tls EXCEPT !.state = "HANDSHAKEING", !.torn = FALSE,
                            !.write_wait = hello \o @, !.write_async = TRUE, !.ssl = "clear"]
<1>1. /\ Sound(tls) /\ Loose(tls) /\ Written(tls) /\ tls.state = "CONNECTING" /\ ~IsOpen(tls)
  BY DEF CarriedInv, KeptInv, Carrying, ConnDone, IsOpen
<1>2. PICK read \in ReadFromBio(c) : Becomes(WriteToTcp(read))
  BY DEF ConnDone
<1>3. /\ tls.write_wait = <<>> /\ tls.writing = <<>> /\ tls.resp_pending = <<>>
      /\ tls.when_tcp_is_writing = <<>> /\ tls.retry_wb = NoItem /\ tls.sent = <<>>
      /\ tls.out = <<>>
  BY <1>1 DEF Loose, Closed
<1>4. /\ hello \in Seq(Stuff) /\ hello \o <<>> = hello /\ \A i \in Items : ~Contains(hello, i)
  <2>1. \A i \in Items : i # "handshake"
    BY TlsItemsAssumption DEF Internal
  <2>2. hello \in Seq(Stuff)
    BY Pieces DEF Stuff, Internal
  <2> QED
    BY <2>1, <2>2, InOne
<1>5. Sound(c)
  BY <1>1, <1>3, <1>4, ZenonT(60) DEF Sound, Transports
<1>6. /\ c.state = "HANDSHAKEING" /\ c.conn_pending = tls.conn_pending /\ c.write_wait = hello
      /\ c.writing = <<>> /\ c.resp_pending = <<>> /\ c.when_tcp_is_writing = <<>>
      /\ c.retry_wb = NoItem /\ c.sent = <<>> /\ c.out = <<>>
  BY <1>1, <1>3, <1>4 DEF Sound, Transports
<1> HIDE DEF c
<1>7. StreamOf(c) = <<"handshake">>
  <2>1. Counted(hello) = hello /\ Counted(<<>>) = <<>> /\ Some(NoItem) = <<>>
    BY CountedOf DEF Some
  <2>2. StreamOf(c) = ((<<>> \o <<>>) \o <<>>) \o hello
    <3> HIDE DEF hello
    <3> QED
      BY <1>5, <1>6, <2>1, StreamParts
  <2> QED
    BY <2>2
<1>8. Ordered(c)
  <2>1. \A i \in Items : Once(i, <<"handshake">>)
    BY InOne
  <2> QED
    BY <1>6, <1>7, <2>1 DEF Ordered
<1> HIDE DEF hello
<1>9. Given(c) /\ Written(c)
  BY <1>6, InNone DEF Given, Written
<1>10. Closed(c) /\ c.state # "CONNECTING"
  BY <1>6 DEF Closed, IsOpen
<1>11. Untouched(c)
  <2>1. \A i \in Items : ~Contains(<<>>, i) /\ i # NoItem
    BY InNone, TlsItemsAssumption
  <2> QED
    BY <1>1, <1>4, <1>6, <2>1 DEF Loose, Untouched, Waits, Queued, Encoded
<1>12. Carrying(c)
  BY <1>5, <1>8, <1>9, <1>10, <1>11 DEF Carrying, Loose
<1>13. Carrying(read)
  BY <1>2, <1>10, <1>12, CarriesReadFromBio
<1>14. Carrying(WriteToTcp(read)) /\ Rest(WriteToTcp(read))
  BY <1>13, CarriesWriteToTcp DEF Carrying, Rest, IsOpen
<1> QED
  BY <1>2, <1>14, CarriesBecomes

LEMMA CarriesSendHeartbeat ==
    ASSUME CarriedInv, SendHeartbeat PROVE Carrying(tls') /\ Rest(tls')
<1> DEFINE longer == IF tls.torn THEN tls.write_wait ELSE Append(tls.write_wait, "heartbeat")
           u == [tls EXCEPT !.write_wait = longer, !.write_async = TRUE]
<1>1. /\ Sound(tls) /\ Loose(tls) /\ Written(tls) /\ Rest(tls) /\ Becomes(u) /\ IsOpen(tls)
      /\ tls.write_wait \in Seq(Stuff) /\ tls.write_wait \in Seq(OnWire)
  BY Sendable DEF CarriedInv, KeptInv, Carrying, SendHeartbeat, IsOpen, Sound, Transports
<1>2. /\ longer \in Seq(Stuff) /\ Counted(longer) = Counted(tls.write_wait)
      /\ \A i \in Items : Contains(longer, i) <=> Contains(tls.write_wait, i)
  <2>1. /\ "heartbeat" \in Stuff /\ "heartbeat" \in OnWire /\ "heartbeat" \notin TlsBytes
        /\ \A i \in Items : i # "heartbeat"
    BY TlsItemsAssumption DEF Stuff, Internal, OnWire, TlsBytes
  <2>2. Append(tls.write_wait, "heartbeat") \in Seq(Stuff)
    BY <1>1, <2>1, Pieces
  <2>3. Counted(Append(tls.write_wait, "heartbeat")) = Counted(tls.write_wait)
    BY <1>1, <2>1, OnlyAppend DEF Counted, TlsBytes
  <2>4. \A i \in Items :
           Contains(Append(tls.write_wait, "heartbeat"), i) <=> Contains(tls.write_wait, i)
    BY <1>1, <2>1, InAppend
  <2> QED
    BY <1>1, <2>2, <2>3, <2>4
<1> HIDE DEF longer
<1>3. Sound(u)
  BY <1>1, <1>2 DEF Sound, Transports
<1>4. /\ u.state = tls.state /\ u.conn_pending = tls.conn_pending /\ u.write_wait = longer
      /\ u.writing = tls.writing /\ u.resp_pending = tls.resp_pending
      /\ u.when_tcp_is_writing = tls.when_tcp_is_writing /\ u.retry_wb = tls.retry_wb
      /\ u.sent = tls.sent /\ u.is_writing = tls.is_writing /\ u.out = tls.out
  BY <1>1 DEF Sound, Transports
<1> HIDE DEF u
<1>5. StreamOf(u) = StreamOf(tls)
  BY <1>1, <1>2, <1>3, <1>4, StreamParts
<1>6. Given(u) /\ Written(u) /\ Rest(u) /\ IsOpen(u)
  BY <1>1, <1>4 DEF Loose, Given, Written, Rest, IsOpen
<1>7. Closed(u) /\ Ordered(u)
  BY <1>1, <1>4, <1>5, <1>6 DEF Loose, Closed, Ordered, IsOpen
<1>8. Untouched(u)
  BY <1>1, <1>2, <1>4 DEF Loose, Untouched, Waits, Queued, Encoded
<1> QED
  BY <1>1, <1>3, <1>6, <1>7, <1>8, CarriesBecomes DEF Carrying, Loose

\* What has had its time leaves the stream from write_wait only.
LEMMA CarriesTimeoutCheck ==
    ASSUME CarriedInv, TimeoutCheck PROVE Carrying(tls') /\ Rest(tls')
<1> DEFINE S(late) == (Items \cup Internal) \ late
           checked == Some(tls.should_retry) \o tls.when_tcp_is_writing \o tls.conn_pending
                     \o tls.write_wait \o tls.resp_pending
<1>1. PICK late \in SUBSET ItemsOf(checked) :
         Becomes([tls EXCEPT
             !.answered = @ \cup late,
             !.should_retry = IF @ \in late THEN NoItem ELSE @,
             !.when_tcp_is_writing = Only(S(late), @), !.conn_pending = Only(S(late), @),
             !.write_wait = Only(S(late), @), !.resp_pending = Only(S(late), @)])
  BY DEF TimeoutCheck
<1> DEFINE R == S(late)
           retried == IF tls.should_retry \in late THEN NoItem ELSE tls.should_retry
           u == [tls EXCEPT
             !.answered = @ \cup late, !.should_retry = retried,
             !.when_tcp_is_writing = Only(R, @), !.conn_pending = Only(R, @),
             !.write_wait = Only(R, @), !.resp_pending = Only(R, @)]
<1>2. /\ Sound(tls) /\ Loose(tls) /\ Written(tls) /\ Rest(tls)
      /\ tls.when_tcp_is_writing \in Seq(Stuff) /\ tls.conn_pending \in Seq(Items)
      /\ tls.conn_pending \in Seq(Stuff) /\ tls.write_wait \in Seq(Stuff)
      /\ tls.write_wait \in Seq(OnWire) /\ tls.resp_pending \in Seq(Requests)
  BY Sendable DEF CarriedInv, KeptInv, Carrying, Loose, Untouched, Sound, Transports
<1>3. late \subseteq Items
  BY <1>1 DEF ItemsOf
<1>4. Becomes(u)
  BY <1>1 DEF R, retried
<1>5. retried \in {NoItem, tls.should_retry}
  OBVIOUS
<1>6. \A i \in late : i \notin R
  BY <1>3
<1>7. \A x \in Stuff : x \in R <=> x \notin late
  BY DEF Stuff
<1> HIDE DEF R, retried
<1>8. ASSUME NEW Q, NEW queue \in Seq(Q)
      PROVE  /\ Only(R, queue) \in Seq(Q)
             /\ \A w : Contains(Only(R, queue), w) <=> w \in R /\ Contains(queue, w)
             /\ \A i : Once(i, queue) => Once(i, Only(R, queue))
  <2>1. /\ Only(R, queue) \in Seq(R \cap Q)
        /\ \A w : Contains(Only(R, queue), w) <=> w \in R /\ Contains(queue, w)
        /\ \A i : Once(i, queue) => Once(i, Only(R, queue))
    BY OnlySelects
  <2>2. R \cap Q \subseteq Q
    OBVIOUS
  <2>3. Only(R, queue) \in Seq(Q)
    BY <2>1, <2>2
  <2> QED
    BY <2>1, <2>3
<1>9. /\ Only(R, tls.when_tcp_is_writing) \in Seq(Stuff) /\ Only(R, tls.conn_pending) \in Seq(Items)
      /\ Only(R, tls.conn_pending) \in Seq(Stuff) /\ Only(R, tls.write_wait) \in Seq(Stuff)
      /\ Only(R, tls.resp_pending) \in Seq(Requests)
  BY <1>2, <1>8
<1>10. Sound(u)
  BY <1>2, <1>3, <1>5, <1>9 DEF Sound, Transports
<1>11. /\ u.state = tls.state /\ u.conn_pending = Only(R, tls.conn_pending)
       /\ u.write_wait = Only(R, tls.write_wait)
       /\ u.writing = tls.writing /\ u.resp_pending = Only(R, tls.resp_pending)
       /\ u.when_tcp_is_writing = Only(R, tls.when_tcp_is_writing) /\ u.retry_wb = tls.retry_wb
       /\ u.sent = tls.sent /\ u.is_writing = tls.is_writing /\ u.out = tls.out
  BY <1>2 DEF Sound, Transports
<1> HIDE DEF u
<1>12. /\ \A w : Contains(u.resp_pending, w) => Contains(tls.resp_pending, w)
       /\ \A w : Contains(u.when_tcp_is_writing, w) => Contains(tls.when_tcp_is_writing, w)
       /\ \A w : Contains(u.conn_pending, w) => Contains(tls.conn_pending, w)
       /\ \A w : Contains(u.write_wait, w) => Contains(tls.write_wait, w)
       /\ \A i : Once(i, tls.conn_pending) => Once(i, u.conn_pending)
       /\ Only(R, <<>>) = <<>>
  BY <1>2, <1>8, <1>11, OnlyNone
<1>13. Given(u) /\ Written(u) /\ Rest(u) /\ (IsOpen(u) <=> IsOpen(tls))
  BY <1>2, <1>11, <1>12 DEF Loose, Given, Written, Rest, IsOpen
<1>14. Closed(u)
  BY <1>2, <1>11, <1>12, <1>13 DEF Loose, Closed
<1>15. Untouched(u)
  BY <1>2, <1>9, <1>11, <1>12 DEF Loose, Untouched, Waits, Queued, Encoded
<1>16. Ordered(u)
  <2> SUFFICES ASSUME IsOpen(tls) PROVE Ordered(u)
    BY <1>11, <1>13 DEF Ordered, IsOpen
  <2> DEFINE gone == {i \in late : Queued(tls, i)}
             D == TlsBytes \ gone
             p == (Counted(tls.sent) \o Counted(tls.out)) \o Counted(Some(tls.retry_wb))
             q == Counted(tls.write_wait)
  <2>1. p \in Seq(TlsBytes) /\ q \in Seq(TlsBytes) /\ StreamOf(tls) = p \o q
    BY <1>2, StreamParts, Pieces
  <2>2. \A i \in Items : Once(i, StreamOf(tls))
    BY <1>2 DEF Loose, Ordered
  <2>3. \A i \in gone : Contains(q, i) /\ i \in Items
    BY <1>2, <1>3, CountedOf DEF Queued, TlsBytes
  <2>4. \A i \in gone : ~Contains(p, i)
    <3>1. \A i \in Items : Once(i, p \o q)
      BY <2>1, <2>2
    <3> HIDE DEF p, q
    <3>2. \A i : Once(i, p \o q) => ~(Contains(p, i) /\ Contains(q, i))
      BY <2>1, InConcat
    <3> QED
      BY <2>3, <3>1, <3>2
  <2>5. Only(D, p) = p
    <3> HIDE DEF p, gone
    <3>1. \A k \in 1 .. Len(p) : p[k] \in D <=> p[k] \in TlsBytes
      BY <2>1, <2>4 DEF Contains
    <3>2. Only(D, p) = Only(TlsBytes, p)
      <4> HIDE DEF D
      <4> QED
        BY <2>1, <3>1, OnlyAlike
    <3> QED
      BY <2>1, <3>2, OnlyAll
  <2>6. Only(D, q) = Counted(u.write_wait)
    <3>1. /\ q = Only(TlsBytes, tls.write_wait)
          /\ Counted(u.write_wait) = Only(TlsBytes, Only(R, tls.write_wait))
      BY <1>11 DEF Counted, TlsBytes
    <3>2. Only(D, q) = Only(D \cap TlsBytes, tls.write_wait)
      BY <1>2, <3>1, OnlyTwice
    <3>3. Counted(u.write_wait) = Only(TlsBytes \cap R, tls.write_wait)
      BY <1>2, <3>1, OnlyTwice
    <3>4. \A k \in 1 .. Len(tls.write_wait) :
             tls.write_wait[k] \in D \cap TlsBytes <=> tls.write_wait[k] \in TlsBytes \cap R
      BY <1>2, <1>3, <1>7 DEF Queued, Contains
    <3>5. Only(D \cap TlsBytes, tls.write_wait) = Only(TlsBytes \cap R, tls.write_wait)
      <4> DEFINE d == D \cap TlsBytes
                 r == TlsBytes \cap R
      <4>1. \A k \in 1 .. Len(tls.write_wait) : tls.write_wait[k] \in d <=> tls.write_wait[k] \in r
        BY <3>4
      <4> HIDE DEF d, r
      <4>2. Only(d, tls.write_wait) = Only(r, tls.write_wait)
        BY <1>2, <4>1, OnlyAlike, SMTT(30)
      <4> QED
        BY <4>2 DEF d, r
    <3> QED
      BY <3>2, <3>3, <3>5
  <2>7. StreamOf(u) = p \o Counted(u.write_wait)
    BY <1>10, <1>11, StreamParts
  <2>8. "handshake" \in D /\ "ack" \in D
    BY <1>3, TlsItemsAssumption DEF TlsBytes, Internal
  <2> HIDE DEF D, p, q
  <2>9. StreamOf(u) = Only(D, StreamOf(tls)) /\ StreamOf(tls) \in Seq(TlsBytes)
    <3>1. Only(D, p \o q) = Only(D, p) \o Only(D, q)
      BY <2>1, OnlyConcat
    <3> QED
      BY <1>2, <2>1, <2>5, <2>6, <2>7, <3>1, StreamParts
  <2>10. \A i \in Items : Once(i, StreamOf(u))
    <3> DEFINE bytes == StreamOf(tls)
    <3>1. bytes \in Seq(TlsBytes) /\ (\A i \in Items : Once(i, bytes)) /\ StreamOf(u) = Only(D, bytes)
      BY <2>2, <2>9
    <3> HIDE DEF bytes
    <3>2. \A i : Once(i, bytes) => Once(i, Only(D, bytes))
      BY <3>1, OnlySelects
    <3> QED
      BY <3>1, <3>2
  <2>11. tls.state = "HANDSHAKEING" => StreamOf(u) = <<"handshake">>
    BY <1>2, <2>8, <2>9, OnlyOne DEF Loose, Ordered
  <2>12. ASSUME tls.state = "DONE"
         PROVE  \E rest \in Seq(Items) : StreamOf(u) = <<"handshake", "ack">> \o rest
    <3>1. PICK rest \in Seq(Items) : StreamOf(tls) = <<"handshake", "ack">> \o rest
      BY <1>2, <2>12 DEF Loose, Ordered
    <3> DEFINE h == <<"handshake", "ack">>
    <3>2. h \in Seq(TlsBytes) /\ rest \in Seq(TlsBytes) /\ h \in Seq(D)
      <4>1. Items \subseteq TlsBytes /\ "handshake" \in TlsBytes /\ "ack" \in TlsBytes
        BY DEF TlsBytes, Internal
      <4> QED
        BY <2>8, <4>1
    <3> HIDE DEF h
    <3>3. Only(D, h \o rest) = Only(D, h) \o Only(D, rest)
      BY <3>2, OnlyConcat
    <3>4. Only(D, h) = h
      BY <3>2, OnlyAll
    <3>5. Only(D, rest) \in Seq(Items)
      <4>1. Only(D, rest) \in Seq(D \cap Items)
        BY OnlySelects
      <4>2. D \cap Items \subseteq Items
        OBVIOUS
      <4> QED
        BY <4>1, <4>2
    <3>6. StreamOf(u) = h \o Only(D, rest)
      BY <2>9, <3>1, <3>3, <3>4 DEF h
    <3> QED
      BY <3>5, <3>6 DEF h
  <2> QED
    BY <1>11, <2>10, <2>11, <2>12 DEF Ordered
<1> QED
  BY <1>4, <1>10, <1>13, <1>14, <1>15, <1>16, CarriesBecomes DEF Carrying, Loose

LEMMA InitCarries == ASSUME TlsInit PROVE CarriedInv
<1>1. KeptInv /\ Sound(tls) /\ tls = NewTransport
  BY InitKept DEF TlsInit, KeptInv
<1>2. /\ (\A w : ~Contains(<<>>, w) /\ Once(w, <<>>)) /\ Counted(<<>>) = <<>>
      /\ <<>> \in Seq(Items)
  BY InNone, CountedOf, Pieces
<1>3. /\ tls.state = "NOT_CONN" /\ tls.conn_pending = <<>> /\ tls.write_wait = <<>>
      /\ tls.writing = <<>> /\ tls.resp_pending = <<>>
      /\ tls.when_tcp_is_writing = <<>> /\ tls.retry_wb = NoItem /\ tls.out = <<>>
  BY <1>1 DEF NewTransport
<1>4. Given(tls) /\ Written(tls) /\ Closed(tls) /\ Ordered(tls) /\ Rest(tls)
  BY <1>2, <1>3 DEF Given, Written, Closed, Ordered, Rest, IsOpen
<1>5. Untouched(tls)
  BY <1>2, <1>3 DEF Untouched, Waits
<1> QED
  BY <1>1, <1>4, <1>5 DEF CarriedInv, Carrying, Loose

LEMMA NextCarries == CarriedInv /\ [TlsNext]_tlsVars => CarriedInv'
<1> SUFFICES ASSUME CarriedInv, [TlsNext]_tlsVars PROVE CarriedInv'
  OBVIOUS
<1>1. KeptInv'
  BY NextKept DEF CarriedInv
<1>2. Carrying(tls') /\ Rest(tls')
  <2>1. ASSUME NEW i \in Items, SendItem(i) PROVE tls' = tls
    BY <2>1 DEF SendItem
  <2>2. ASSUME NEW input \in Inputs, TcpRead(input) PROVE Carrying(tls') /\ Rest(tls')
    BY <2>2, CarriesTcpRead
  <2>3. CASE tls' = tls
    BY <2>3 DEF CarriedInv
  <2> QED
    BY <2>1, <2>2, <2>3, CarriesInsert, CarriesWriteAsync, CarriesResets, CarriesWriteDone,
       CarriesConnAsync, CarriesConnDone, CarriesSendHeartbeat, CarriesTimeoutCheck
       DEF TlsNext, tlsVars
<1> QED
  BY <1>1, <1>2 DEF CarriedInv

\* On the wire of a TLS connection (tr_uv_tls_aux.c): what ends with a write has been given to
\* it, nothing of an earlier connection is on a new one, and first goes the handshake, then its
\* ack, then the calls, each once; whatever SSL retries, and whoever resets or times out.
THEOREM TlsCarries == TlsSpec => []Carried
<1>1. TlsInit => CarriedInv
  BY InitCarries
<1>2. CarriedInv /\ [TlsNext]_tlsVars => CarriedInv'
  BY NextCarries
<1>3. CarriedInv => Carried
  <2> SUFFICES ASSUME CarriedInv PROVE Carried
    OBVIOUS
  <2>1. /\ Sound(tls) /\ Loose(tls) /\ Written(tls)
        /\ tls.writing \in Seq(Stuff) /\ tls.resp_pending \in Seq(Stuff)
        /\ tls.when_tcp_is_writing \in Seq(Stuff)
    BY RequestsAreStuff DEF CarriedInv, KeptInv, Carrying, Sound, Transports
  <2>2. SentIsSent
    <3>1. tls.writing \o tls.resp_pending \in Seq(OnWire)
      BY <2>1, Pieces, Sendable
    <3>2. ASSUME NEW w \in ToSet(Counted(tls.writing \o tls.resp_pending))
          PROVE  Contains(tls.sent, w)
      <4>1. /\ Counted(tls.writing \o tls.resp_pending) \in Seq(TlsBytes)
            /\ Contains(Counted(tls.writing \o tls.resp_pending), w)
                 <=> w \in TlsBytes /\ Contains(tls.writing \o tls.resp_pending, w)
        BY <3>1, CountedOf
      <4>2. Contains(Counted(tls.writing \o tls.resp_pending), w)
        BY <3>2, <4>1 DEF ToSet, Contains
      <4>3. Contains(tls.writing \o tls.resp_pending, w)
              <=> Contains(tls.writing, w) \/ Contains(tls.resp_pending, w)
        BY <2>1, InConcat
      <4> QED
        BY <2>1, <4>1, <4>2, <4>3 DEF Written
    <3>3. ASSUME NEW w \in ToSet(tls.when_tcp_is_writing) PROVE Contains(tls.out, w)
      <4>1. Contains(tls.when_tcp_is_writing, w)
        BY <2>1, <3>3 DEF ToSet, Contains
      <4> QED
        BY <2>1, <4>1 DEF Loose, Given
    <3> QED
      BY <2>1, <3>2, <3>3 DEF SentIsSent, Written
  <2>3. FreshConnection
    BY <2>1 DEF Loose, Closed, IsOpen, FreshConnection
  <2>4. ASSUME IsOpen(tls) PROVE InOrder
    <3> DEFINE bytes == StreamOf(tls)
    <3>1. CASE tls.state = "HANDSHAKEING"
      <4>1. bytes = <<"handshake">>
        BY <2>1, <3>1 DEF Loose, Ordered
      <4>2. DOMAIN bytes = {1} /\ bytes[1] = "handshake" /\ Len(bytes) = 1
        BY <4>1
      <4> HIDE DEF bytes
      <4>3. /\ \A j, k \in DOMAIN bytes : bytes[j] = bytes[k] => j = k
            /\ Len(bytes) >= 1 => bytes[1] = "handshake"
            /\ Len(bytes) >= 2 => bytes[2] = "ack"
        BY <4>2
      <4> QED
        BY <4>3 DEF InOrder, bytes
    <3>2. CASE tls.state = "DONE"
      <4>1. PICK rest \in Seq(Items) : bytes = <<"handshake", "ack">> \o rest
        BY <2>1, <3>2 DEF Loose, Ordered
      <4>2. /\ Len(bytes) = 2 + Len(rest) /\ Len(rest) \in Nat
            /\ bytes[1] = "handshake" /\ bytes[2] = "ack"
            /\ \A k \in 3 .. Len(bytes) : bytes[k] \in Items
            /\ DOMAIN bytes = 1 .. Len(bytes)
        BY <4>1
      <4>3. "handshake" \notin Items /\ "ack" \notin Items /\ "handshake" # "ack"
        BY TlsItemsAssumption DEF Internal
      <4>4. \A i \in Items : Once(i, bytes)
        BY <2>1, <2>4 DEF Loose, Ordered
      <4> HIDE DEF bytes
      <4>5. ASSUME NEW j \in DOMAIN bytes, NEW k \in DOMAIN bytes, bytes[j] = bytes[k]
            PROVE  j = k
        <5>1. j \in 1 .. Len(bytes) /\ k \in 1 .. Len(bytes)
          BY <4>2
        <5>2. CASE bytes[j] \in Items
          BY <4>4, <4>5, <5>1, <5>2 DEF Once
        <5>3. CASE bytes[j] \notin Items
          <6>1. j \in {1, 2} /\ k \in {1, 2}
            BY <4>2, <4>5, <5>1, <5>3
          <6> QED
            BY <4>2, <4>3, <4>5, <6>1
        <5> QED
          BY <5>2, <5>3
      <4> QED
        BY <4>2, <4>5 DEF InOrder, bytes
    <3> QED
      BY <2>4, <3>1, <3>2 DEF IsOpen
  <2> QED
    BY <2>2, <2>3, <2>4 DEF Carried
<1> QED
  BY <1>1, <1>2, <1>3, PTL DEF TlsSpec

-----------------------------------------------------------------------------
(* Numbers: what a varint is, and that it is read back.                    *)

Octet == 0 .. 255

\* Division by 128 makes smaller.
LEMMA Div128 ==
    ASSUME NEW n \in Nat
    PROVE  /\ n \div 128 \in Nat /\ n % 128 \in 0 .. 127
           /\ n = (128 * (n \div 128)) + (n % 128)
           /\ n >= 128 => n \div 128 \in 1 .. n - 1
  OBVIOUS

\* The function that Varint chooses is the one that it describes.
LEMMA VarintEquation ==
    Varint = [n \in Nat |-> IF n < 128 THEN <<n>>
                            ELSE <<(n % 128) + 128>> \o Varint[n \div 128]]
<1> DEFINE Step(f, n) == IF n < 128 THEN <<n>> ELSE <<(n % 128) + 128>> \o f[n \div 128]
           Is(f, m) == f = [n \in 0 .. m |-> Step(f, n)]
           UpTo(m) == \E f : Is(f, m)
<1>1. \A m \in Nat : UpTo(m)
  <2> DEFINE T == {m \in Nat : ~UpTo(m)}
  <2> SUFFICES ASSUME T # {} PROVE FALSE
    <3> HIDE DEF UpTo
    <3> QED
      OBVIOUS
  <2>1. PICK m \in T : \A n \in T : m <= n
    <3>1. T \subseteq Nat
      OBVIOUS
    <3> HIDE DEF T
    <3> QED
      BY <3>1, LeastOf
  <2>2. CASE m = 0
    <3> DEFINE g == [n \in 0 .. 0 |-> <<n>>]
    <3>1. Is(g, 0)
      OBVIOUS
    <3> HIDE DEF g, Is
    <3> QED
      BY <2>1, <2>2, <3>1
  <2>3. CASE m # 0
    <3>1. m \in Nat /\ m - 1 \in Nat /\ ~UpTo(m) /\ UpTo(m - 1)
      <4> HIDE DEF UpTo
      <4>1. m - 1 \in Nat /\ m - 1 \notin T
        BY <2>1, <2>3
      <4> QED
        BY <2>1, <4>1
    <3>2. PICK f : Is(f, m - 1)
      BY <3>1
    <3> DEFINE g == [n \in 0 .. m |-> IF n = m THEN Step(f, m) ELSE f[n]]
    <3>3. \A n \in 0 .. m : g[n] = Step(f, n)
      <4> TAKE n \in 0 .. m
      <4>1. CASE n = m
        BY <4>1
      <4>2. CASE n # m
        <5>1. n \in 0 .. m - 1
          BY <3>1, <4>2
        <5> QED
          BY <5>1, <3>2, ZenonT(60)
      <4> QED
        BY <4>1, <4>2
    <3>4. \A n \in 0 .. m : Step(g, n) = Step(f, n)
      <4> TAKE n \in 0 .. m
      <4>1. CASE n < 128
        BY <4>1
      <4>2. CASE ~(n < 128)
        <5>1. n \div 128 \in 0 .. m /\ n \div 128 # m
          BY <3>1, <4>2, Div128
        <5>2. g[n \div 128] = f[n \div 128]
          BY <5>1
        <5> QED
          BY <5>2
      <4> QED
        BY <4>1, <4>2
    <3>5. g = [n \in 0 .. m |-> g[n]]
      OBVIOUS
    <3> HIDE DEF g, Step
    <3>6. Is(g, m)
      BY <3>3, <3>4, <3>5
    <3> QED
      BY <3>1, <3>6
  <2> QED
    BY <2>2, <2>3
<1>2. ASSUME NEW m \in Nat, NEW k \in Nat, NEW f, NEW g, Is(f, m), Is(g, k)
      PROVE  \A n \in 0 .. m : n <= k => f[n] = g[n]
  <2> DEFINE T == {n \in 0 .. m : n <= k /\ f[n] # g[n]}
  <2> SUFFICES ASSUME T # {} PROVE FALSE
    OBVIOUS
  <2>1. PICK n \in T : \A j \in T : n <= j
    <3>1. T \subseteq Nat
      OBVIOUS
    <3> HIDE DEF T
    <3> QED
      BY <3>1, LeastOf
  <2>2. n \in 0 .. m /\ n \in 0 .. k /\ n \in Nat
    OBVIOUS
  <2>3. f[n] = Step(f, n) /\ g[n] = Step(g, n)
    BY <1>2, <2>2, ZenonT(60)
  <2>4. CASE n < 128
    BY <2>3, <2>4
  <2>5. CASE ~(n < 128)
    <3>1. n \div 128 \in 0 .. m /\ n \div 128 <= k /\ n \div 128 < n
      BY <2>2, <2>5, Div128
    <3>2. f[n \div 128] = g[n \div 128]
      BY <2>1, <2>2, <3>1
    <3> QED
      BY <2>3, <3>2
  <2> QED
    BY <2>4, <2>5
<1> DEFINE Part(m) == CHOOSE f : Is(f, m)
           v == [n \in Nat |-> Part(n)[n]]
<1>3. \A m \in Nat : Is(Part(m), m)
  <2> HIDE DEF Is
  <2> QED
    BY <1>1
<1>4. \A n \in Nat : v[n] = Step(v, n)
  <2> TAKE n \in Nat
  <2> HIDE DEF Part
  <2>1. Part(n)[n] = Step(Part(n), n)
    <3> HIDE DEF Is, Step
    <3>1. n \in 0 .. n /\ Is(Part(n), n)
      BY <1>3
    <3> QED
      BY <3>1 DEF Is
  <2>2. CASE n < 128
    BY <2>1, <2>2
  <2>3. CASE ~(n < 128)
    <3>1. n \div 128 \in Nat /\ n \div 128 \in 0 .. n
      BY <2>3, Div128
    <3>2. Is(Part(n), n) /\ Is(Part(n \div 128), n \div 128)
      BY <3>1, <1>3
    <3> HIDE DEF Is, Step
    <3>3. \A j \in 0 .. n : j <= n \div 128 => Part(n)[j] = Part(n \div 128)[j]
      BY <1>2, <3>1, <3>2
    <3>4. Part(n)[n \div 128] = v[n \div 128]
      BY <3>1, <3>3
    <3> QED
      BY <2>1, <2>3, <3>4 DEF Step
  <2> QED
    BY <2>2, <2>3
<1>5. v = [n \in Nat |-> Step(v, n)]
  <2>1. v = [n \in Nat |-> v[n]]
    OBVIOUS
  <2> HIDE DEF v, Step
  <2> QED
    BY <2>1, <1>4
<1> HIDE DEF v
<1> QED
  BY <1>5, ZenonT(60) DEF Varint

LEMMA VarintSteps ==
    ASSUME NEW n \in Nat
    PROVE  /\ n < 128 => Varint[n] = <<n>>
           /\ n >= 128 => Varint[n] = <<(n % 128) + 128>> \o Varint[n \div 128]
<1> DEFINE v == Varint
<1>1. v = [k \in Nat |-> IF k < 128 THEN <<k>> ELSE <<(k % 128) + 128>> \o v[k \div 128]]
  BY VarintEquation
<1> HIDE DEF v
<1>2. v[n] = IF n < 128 THEN <<n>> ELSE <<(n % 128) + 128>> \o v[n \div 128]
  BY <1>1
<1> QED
  BY <1>2 DEF v

\* v holds the sevens of n.
IsSevens(v, n) ==
    /\ v \in Seq(Octet) /\ v # <<>>
    /\ v[Len(v)] < 128 /\ \A k \in 1 .. Len(v) - 1 : v[k] >= 128
    /\ \E from \in [1 .. Len(v) + 1 -> Nat] :
          /\ from[1] = n /\ from[Len(v) + 1] = 0
          /\ \A k \in 1 .. Len(v) : from[k] = (v[k] % 128) + 128 * from[k + 1]

LEMMA OneMoreSeven ==
    ASSUME NEW v, NEW n \in Nat, n >= 128, IsSevens(v, n \div 128)
    PROVE  IsSevens(<<(n % 128) + 128>> \o v, n)
<1> PICK b : b = (n % 128) + 128
  OBVIOUS
<1>1. b \in Octet /\ b >= 128 /\ b % 128 = n % 128 /\ n \div 128 \in Nat
      /\ n = (n % 128) + 128 * (n \div 128)
  BY DEF Octet
<1>2. v \in Seq(Octet) /\ Len(v) \in Nat \ {0} /\ Len(v) >= 1
  BY DEF IsSevens
<1> DEFINE w == <<b>> \o v
<1>3. /\ w \in Seq(Octet) /\ w # <<>> /\ Len(w) = Len(v) + 1 /\ w[1] = b
      /\ \A k \in 1 .. Len(v) : w[k + 1] = v[k]
      /\ \A k \in 2 .. Len(v) + 1 : w[k] = v[k - 1]
  <2>1. <<b>> \in Seq(Octet) /\ Len(<<b>>) = 1 /\ <<b>>[1] = b
    BY <1>1
  <2>2. /\ w \in Seq(Octet) /\ Len(w) = 1 + Len(v)
        /\ \A k \in 1 .. 1 + Len(v) : w[k] = IF k <= 1 THEN <<b>>[k] ELSE v[k - 1]
    BY <1>2, <2>1, ConcatProperties
  <2> HIDE DEF w
  <2> QED
    BY <1>2, <2>1, <2>2
<1> HIDE DEF w
<1>4. w[Len(w)] < 128
  <2>1. w[Len(v) + 1] = v[Len(v)]
    BY <1>2, <1>3
  <2> QED
    BY <1>3, <2>1 DEF IsSevens
<1>5. ASSUME NEW k \in 1 .. Len(w) - 1 PROVE w[k] >= 128
  <2>1. CASE k = 1
    BY <1>1, <1>3, <2>1
  <2>2. CASE k # 1
    <3>1. k - 1 \in 1 .. Len(v) - 1 /\ k \in 2 .. Len(v) + 1
      BY <1>2, <1>3, <2>2
    <3>2. w[k] = v[k - 1]
      BY <1>3, <3>1
    <3> QED
      BY <3>1, <3>2 DEF IsSevens
  <2> QED
    BY <2>1, <2>2
<1>6. PICK from \in [1 .. Len(v) + 1 -> Nat] :
          /\ from[1] = n \div 128 /\ from[Len(v) + 1] = 0
          /\ \A k \in 1 .. Len(v) : from[k] = (v[k] % 128) + 128 * from[k + 1]
  BY DEF IsSevens
<1> DEFINE all == [k \in 1 .. Len(w) + 1 |-> IF k = 1 THEN n ELSE from[k - 1]]
<1>7. all \in [1 .. Len(w) + 1 -> Nat] /\ all[1] = n
  BY <1>2, <1>3, <1>6
<1>8. \A k \in 1 .. Len(v) + 1 : all[k + 1] = from[k]
  BY <1>2, <1>3
<1> HIDE DEF all
<1>9. all[Len(w) + 1] = 0
  BY <1>2, <1>3, <1>6, <1>8
<1>10. ASSUME NEW k \in 1 .. Len(w)
       PROVE  all[k] = (w[k] % 128) + 128 * all[k + 1]
  <2>1. CASE k = 1
    <3>1. all[k + 1] = n \div 128 /\ w[k] % 128 = n % 128 /\ all[k] = n
      BY <1>1, <1>2, <1>3, <1>6, <1>7, <1>8, <2>1, ZenonT(60)
    <3> QED
      BY <1>1, <3>1
  <2>2. CASE k # 1
    <3> PICK j : j = k - 1
      OBVIOUS
    <3>1. j \in 1 .. Len(v) /\ j + 1 \in 1 .. Len(v) + 1 /\ k = j + 1 /\ j \in 1 .. Len(v) + 1
      BY <1>2, <1>3, <2>2
    <3>2. all[k] = from[j] /\ all[k + 1] = from[j + 1] /\ w[k] = v[j]
      BY <1>3, <1>8, <3>1
    <3> QED
      BY <1>6, <3>1, <3>2
  <2> QED
    BY <2>1, <2>2
<1>11. IsSevens(w, n)
  BY <1>3, <1>4, <1>5, <1>7, <1>9, <1>10, ZenonT(60) DEF IsSevens
<1> QED
  BY <1>11 DEF w

\* A varint holds the sevens of its number.
LEMMA VarintSevens ==
    ASSUME NEW n \in Nat
    PROVE  IsSevens(Varint[n], n)
<1> DEFINE T == {k \in Nat : ~IsSevens(Varint[k], k)}
<1> SUFFICES ASSUME T # {} PROVE FALSE
  <2> HIDE DEF IsSevens
  <2> QED
    OBVIOUS
<1>1. PICK m \in T : \A k \in T : m <= k
  <2>1. T \subseteq Nat
    OBVIOUS
  <2> HIDE DEF T
  <2> QED
    BY <2>1, LeastOf
<1> HIDE DEF IsSevens
<1> m \in Nat /\ ~IsSevens(Varint[m], m)
  OBVIOUS
<1>2. CASE m < 128
  <2> HIDE DEF T
  <2>1. Varint[m] = <<m>> /\ m \in 0 .. 127
    <3>1. m < 128 => Varint[m] = <<m>>
      BY VarintSteps, Zenon
    <3> QED
      BY <1>2, <3>1
  <2> DEFINE v == <<m>>
             from == [k \in 1 .. 2 |-> IF k = 1 THEN m ELSE 0]
  <2>2. v \in Seq(Octet) /\ v # <<>> /\ Len(v) = 1 /\ v[1] = m
    BY <2>1 DEF Octet
  <2>3. from \in [1 .. 2 -> Nat] /\ from[1] = m /\ from[2] = 0
    BY <2>1
  <2>4. \A k \in 1 .. 1 : from[k] = (v[k] % 128) + 128 * from[k + 1]
    BY <2>1, <2>2, <2>3
  <2> HIDE DEF v, from
  <2>5. IsSevens(v, m)
    <3> PICK len : len = Len(v)
      OBVIOUS
    <3>1. /\ len = 1 /\ from \in [1 .. len + 1 -> Nat] /\ from[len + 1] = 0 /\ v[len] < 128
          /\ \A k \in 1 .. len : from[k] = (v[k] % 128) + 128 * from[k + 1]
          /\ \A k \in 1 .. len - 1 : v[k] >= 128
      BY <2>1, <2>2, <2>3, <2>4
    <3>2. \E f \in [1 .. len + 1 -> Nat] :
             /\ f[1] = m /\ f[len + 1] = 0
             /\ \A k \in 1 .. len : f[k] = (v[k] % 128) + 128 * f[k + 1]
      BY <2>3, <3>1
    <3>3. /\ v[Len(v)] < 128 /\ \A k \in 1 .. Len(v) - 1 : v[k] >= 128
          /\ \E f \in [1 .. Len(v) + 1 -> Nat] :
                /\ f[1] = m /\ f[Len(v) + 1] = 0
                /\ \A k \in 1 .. Len(v) : f[k] = (v[k] % 128) + 128 * f[k + 1]
      BY <3>1, <3>2
    <3> QED
      BY <2>2, <3>3, Zenon DEF IsSevens
  <2> QED
    BY <2>1, <2>5 DEF v
<1>3. CASE m >= 128
  <2>1. m \div 128 \in Nat /\ m \div 128 < m
    BY <1>3, Div128
  <2>2. IsSevens(Varint[m \div 128], m \div 128)
    BY <1>1, <2>1
  <2> QED
    BY <1>3, <2>2, OneMoreSeven, VarintSteps, ZenonT(60)
<1> QED
  BY <1>2, <1>3

\* Bytes that hold the sevens of n are read as n.
LEMMA SevensRead ==
    ASSUME NEW v, NEW n \in Nat, IsSevens(v, n)
    PROVE  Sevens(v) = n
<1> PICK len : len = Len(v)
  OBVIOUS
<1>1. v \in Seq(Octet) /\ len \in Nat \ {0}
  BY DEF IsSevens
<1>2. PICK from \in [1 .. len + 1 -> Nat] :
          /\ from[1] = n /\ from[len + 1] = 0
          /\ \A k \in 1 .. len : from[k] = (v[k] % 128) + 128 * from[k + 1]
  BY ZenonT(60) DEF IsSevens
<1> DEFINE Step(f, k) == IF k > len THEN 0 ELSE (v[k] % 128) + 128 * f[k + 1]
           Is(f) == f = [k \in 1 .. len + 1 |-> Step(f, k)]
           f == CHOOSE g : Is(g)
<1>3. Is(from)
  <2>1. \A k \in 1 .. len + 1 : from[k] = Step(from, k)
    BY <1>1, <1>2
  <2>2. from = [k \in 1 .. len + 1 |-> from[k]]
    OBVIOUS
  <2> HIDE DEF Step
  <2> QED
    BY <2>1, <2>2
<1>4. Is(f)
  <2> HIDE DEF Is
  <2> QED
    BY <1>3
<1>5. Sevens(v) = f[1]
  BY DEF Sevens
<1> HIDE DEF f
<1>6. \A k \in 1 .. len + 1 : f[k] = Step(f, k)
  <2> HIDE DEF Step
  <2> QED
    BY <1>4
<1> DEFINE T == {k \in 0 .. len : f[len + 1 - k] # from[len + 1 - k]}
<1>7. 0 \notin T
  <2>1. f[len + 1] = 0 /\ len + 1 - 0 = len + 1
    BY <1>1, <1>6
  <2> QED
    BY <1>2, <2>1
<1>8. ASSUME NEW k \in 1 .. len, k - 1 \notin T PROVE k \notin T
  <2> PICK j : j = len + 1 - k
    OBVIOUS
  <2>1. /\ j \in 1 .. len /\ j + 1 \in 1 .. len + 1 /\ k - 1 \in 0 .. len
        /\ len + 1 - (k - 1) = j + 1 /\ len + 1 - k = j /\ ~(j > len)
    BY <1>1
  <2>2. f[j + 1] = from[j + 1]
    BY <1>8, <2>1
  <2>3. f[j] = (v[j] % 128) + 128 * f[j + 1]
    BY <1>6, <2>1
  <2> QED
    BY <1>2, <2>1, <2>2, <2>3
<1>9. T = {}
  <2>1. T \subseteq 0 .. len /\ len \in Nat
    BY <1>1
  <2> HIDE DEF T
  <2> QED
    BY <1>7, <1>8, <2>1, NoneFails
<1>10. f[1] = from[1]
  <2>1. len \in 0 .. len /\ len + 1 - len = 1
    BY <1>1
  <2> QED
    BY <1>9, <2>1
<1> QED
  BY <1>2, <1>5, <1>10

\* The first byte below 128 is the last one of a varint, whatever follows it.
LEMMA VarintEndOf ==
    ASSUME NEW v \in Seq(Octet), v # <<>>, NEW rest \in Seq(Octet),
           v[Len(v)] < 128, \A k \in 1 .. Len(v) - 1 : v[k] >= 128
    PROVE  VarintEnd(v \o rest) = Len(v)
<1> DEFINE w == v \o rest
           I == {k \in 1 .. Len(w) : w[k] < 128}
<1>1. Len(v) \in Nat \ {0} /\ Len(rest) \in Nat
  OBVIOUS
<1>2. /\ Len(w) = Len(v) + Len(rest)
      /\ \A k \in 1 .. Len(v) : w[k] = v[k]
  <2>1. /\ Len(w) = Len(v) + Len(rest)
        /\ \A k \in 1 .. Len(v) + Len(rest) : w[k] = IF k <= Len(v) THEN v[k] ELSE rest[k - Len(v)]
    BY ConcatProperties
  <2> HIDE DEF w
  <2> QED
    BY <1>1, <2>1
<1>3. VarintEnd(w) = IF I # {} THEN Min(I) ELSE 0
  BY DEF VarintEnd, SelectInSeq
<1> HIDE DEF w
<1>4. Len(v) \in I /\ \A k \in I : Len(v) <= k
  <2>1. Len(v) \in 1 .. Len(w) /\ w[Len(v)] = v[Len(v)]
    BY <1>1, <1>2
  <2>2. ASSUME NEW k \in I, k < Len(v) PROVE FALSE
    <3>1. k \in 1 .. Len(v) - 1 /\ k \in 1 .. Len(v)
      BY <1>1, <2>2
    <3>2. w[k] = v[k]
      BY <1>2, <3>1
    <3>3. v[k] >= 128
      BY <3>1
    <3>4. v[k] \in Octet /\ w[k] < 128
      BY <3>1, ElementOfSeq
    <3> PICK b : b = v[k]
      OBVIOUS
    <3>5. b \in Octet /\ b >= 128 /\ b < 128
      BY <3>2, <3>3, <3>4, Zenon
    <3> QED
      BY <3>5 DEF Octet
  <2> QED
    BY <1>1, <2>1, <2>2
<1>5. Min(I) = Len(v)
  <2>1. I \subseteq Int
    OBVIOUS
  <2> HIDE DEF I
  <2>2. ASSUME NEW x \in I, \A y \in I : x <= y PROVE x = Len(v)
    BY <1>1, <1>4, <2>1, <2>2
  <2>3. Min(I) \in I /\ \A y \in I : Min(I) <= y
    BY <1>4, Zenon DEF Min
  <2> QED
    BY <2>2, <2>3
<1> QED
  BY <1>3, <1>4, <1>5 DEF w

\* A concatenation falls into its two parts.
LEMMA Halves ==
    ASSUME NEW S, NEW v \in Seq(S), NEW rest \in Seq(S)
    PROVE  SubSeq(v \o rest, 1, Len(v)) = v /\ Drop(v \o rest, Len(v)) = rest
<1> DEFINE w == v \o rest
           a == SubSeq(w, 1, Len(v))
           b == SubSeq(w, Len(v) + 1, Len(w))
<1>1. /\ Len(v) \in Nat /\ Len(rest) \in Nat
      /\ w \in Seq(S) /\ Len(w) = Len(v) + Len(rest)
      /\ \A k \in 1 .. Len(v) + Len(rest) : w[k] = IF k <= Len(v) THEN v[k] ELSE rest[k - Len(v)]
  BY ConcatProperties
<1> HIDE DEF w
<1>2. \A k \in 1 .. Len(w) : w[k] \in S
  BY <1>1, ElementOfSeq
<1>3. a = v
  <2>1. /\ a \in Seq(S) /\ Len(a) = Len(v)
        /\ \A k \in 1 .. Len(v) : a[k] = w[1 + k - 1]
    <3>1. \A k \in 1 .. Len(v) : w[k] \in S
      BY <1>1, <1>2
    <3>2. /\ a \in Seq(S) /\ Len(a) = (IF 1 <= Len(v) THEN Len(v) - 1 + 1 ELSE 0)
          /\ \A k \in 1 .. Len(v) - 1 + 1 : a[k] = w[1 + k - 1]
      BY <1>1, <3>1, SubSeqProperties
    <3> HIDE DEF a
    <3> QED
      BY <1>1, <3>2
  <2> HIDE DEF a
  <2>2. \A k \in 1 .. Len(v) : a[k] = v[k]
    BY <1>1, <2>1
  <2> QED
    BY <2>1, <2>2, SeqEqual
<1>4. b = rest
  <2>1. /\ b \in Seq(S) /\ Len(b) = Len(rest)
        /\ \A k \in 1 .. Len(rest) : b[k] = w[Len(v) + k]
    <3>1. \A k \in Len(v) + 1 .. Len(w) : w[k] \in S
      BY <1>1, <1>2
    <3>2. /\ b \in Seq(S)
          /\ Len(b) = (IF Len(v) + 1 <= Len(w) THEN Len(w) - (Len(v) + 1) + 1 ELSE 0)
          /\ \A k \in 1 .. Len(w) - (Len(v) + 1) + 1 : b[k] = w[Len(v) + 1 + k - 1]
      <4>1. Len(v) + 1 \in Int /\ Len(w) \in Int
        BY <1>1
      <4> QED
        BY <3>1, <4>1, SubSeqProperties
    <3> HIDE DEF b
    <3>3. Len(w) - (Len(v) + 1) + 1 = Len(rest) /\ (Len(v) + 1 <= Len(w) \/ Len(rest) = 0)
      BY <1>1
    <3>4. Len(b) = Len(rest)
      BY <1>1, <3>2, <3>3
    <3>5. ASSUME NEW k \in 1 .. Len(rest) PROVE b[k] = w[Len(v) + k]
      <4>1. Len(v) + 1 + k - 1 = Len(v) + k
        BY <1>1
      <4>2. b[k] = w[Len(v) + 1 + k - 1]
        BY <3>2, <3>3
      <4> QED
        BY <4>1, <4>2
    <3> QED
      BY <3>2, <3>4, <3>5
  <2> HIDE DEF b
  <2>2. \A k \in 1 .. Len(rest) : b[k] = rest[k]
    <3> TAKE k \in 1 .. Len(rest)
    <3>1. Len(v) + k \in 1 .. Len(v) + Len(rest) /\ ~(Len(v) + k <= Len(v)) /\ Len(v) + k - Len(v) = k
      BY <1>1
    <3>2. w[Len(v) + k] = rest[Len(v) + k - Len(v)]
      BY <1>1, <3>1
    <3> QED
      BY <2>1, <3>1, <3>2
  <2> QED
    BY <2>1, <2>2, SeqEqual
<1> QED
  BY <1>3, <1>4 DEF w, Drop

\* k bytes are enough for the numbers below 128 ^ k.
LEMMA VarintFits ==
    ASSUME NEW k \in 1 .. VarintBytes
    PROVE  \A n \in Nat : n < 128 ^ k => Len(Varint[n]) <= k
<1> DEFINE Fits(j) == \A n \in Nat : n < 128 ^ j => Len(Varint[n]) <= j
           T == {j \in 0 .. VarintBytes : j > 0 /\ ~Fits(j)}
<1>1. ASSUME NEW j \in 1 .. VarintBytes, j - 1 \notin T PROVE j \notin T
  <2> SUFFICES ASSUME NEW n \in Nat, n < 128 ^ j PROVE Len(Varint[n]) <= j
    <3> HIDE DEF T
    <3>1. Fits(j)
      OBVIOUS
    <3> HIDE DEF Fits
    <3> QED
      BY <3>1 DEF T
  <2>1. j \in Nat /\ VarintBytes \in Nat
    BY WidthAssumption
  <2>2. CASE n < 128
    <3>1. Varint[n] = <<n>>
      BY <2>2, VarintSteps, Zenon
    <3>2. Len(<<n>>) = 1
      OBVIOUS
    <3> QED
      BY <2>1, <3>1, <3>2
  <2>3. CASE n >= 128
    <3>1. j # 1
      <4> SUFFICES ASSUME j = 1 PROVE FALSE
        OBVIOUS
      <4>1. 128 ^ j = 128
        BY SevensAssumption, Zenon
      <4>2. n < 128
        BY <4>1
      <4> QED
        BY <2>3, <4>2
    <3> PICK i : i = j - 1
      OBVIOUS
    <3>2. i \in 1 .. VarintBytes - 1 /\ j = i + 1 /\ i \in 0 .. VarintBytes /\ i \notin T /\ i > 0
      BY <1>1, <2>1, <3>1
    <3>3. Fits(i)
      <4> HIDE DEF Fits
      <4> QED
        BY <3>2
    <3>4. 128 ^ i \in Nat /\ 128 ^ j = 128 * 128 ^ i
      BY <3>2, SevensAssumption
    <3>5. n \div 128 \in Nat /\ n \div 128 < 128 ^ i
      <4> PICK p : p = 128 ^ i
        OBVIOUS
      <4>1. p \in Nat /\ n < 128 * p
        BY <3>4
      <4> QED
        BY <4>1
    <3>6. Len(Varint[n \div 128]) <= i
      BY <3>3, <3>5
    <3> PICK v : v = Varint[n \div 128]
      OBVIOUS
    <3>7. v \in Seq(Octet)
      BY <3>5, VarintSevens DEF IsSevens
    <3> PICK b : b = (n % 128) + 128
      OBVIOUS
    <3>8. b \in Octet /\ <<b>> \in Seq(Octet) /\ Len(<<b>>) = 1
      BY DEF Octet
    <3>9. Len(<<b>> \o v) = 1 + Len(v)
      BY <3>7, <3>8, ConcatProperties
    <3>10. Varint[n] = <<b>> \o v
      BY <2>3, VarintSteps
    <3>11. Len(v) \in Nat
      BY <3>7
    <3> QED
      BY <2>1, <3>2, <3>6, <3>9, <3>10, <3>11
  <2> QED
    BY <2>2, <2>3
<1>2. T = {}
  <2>1. T \subseteq 0 .. VarintBytes /\ 0 \notin T /\ VarintBytes \in Nat
    BY WidthAssumption
  <2> HIDE DEF T
  <2> QED
    BY <1>1, <2>1, NoneFails
<1>3. k \in 0 .. VarintBytes /\ k > 0 /\ k \notin T
  BY <1>2
<1>4. Fits(k)
  <2> HIDE DEF Fits
  <2> QED
    BY <1>3
<1> QED
  BY <1>4

LEMMA BytesOfVarint ==
    ASSUME NEW n \in Nat
    PROVE  Varint[n] \in Seq(Octet) /\ Varint[n] # <<>> /\ Len(Varint[n]) \in Nat \ {0}
<1>1. Varint[n] \in Seq(Octet) /\ Varint[n] # <<>>
  BY VarintSevens DEF IsSevens
<1> QED
  BY <1>1, EmptySeq

\* What a varint is read as, whatever follows it: its number, from its own bytes.
LEMMA VarintInFront ==
    ASSUME NEW n \in Nat, NEW rest \in Seq(Octet)
    PROVE  /\ VarintEnd(Varint[n] \o rest) = Len(Varint[n])
           /\ SubSeq(Varint[n] \o rest, 1, Len(Varint[n])) = Varint[n]
           /\ Drop(Varint[n] \o rest, Len(Varint[n])) = rest
           /\ Sevens(Varint[n]) = n
<1> PICK v : v = Varint[n]
  OBVIOUS
<1>1. IsSevens(v, n)
  BY VarintSevens
<1>2. /\ v \in Seq(Octet) /\ v # <<>> /\ v[Len(v)] < 128
      /\ \A k \in 1 .. Len(v) - 1 : v[k] >= 128
  BY <1>1, Zenon DEF IsSevens
<1>3. VarintEnd(v \o rest) = Len(v)
  BY <1>2, VarintEndOf
<1>4. SubSeq(v \o rest, 1, Len(v)) = v /\ Drop(v \o rest, Len(v)) = rest
  BY <1>2, Halves
<1>5. Sevens(v) = n
  BY <1>1, SevensRead
<1> QED
  BY <1>3, <1>4, <1>5

\* A number that is encoded as a varint is decoded as that number, and what follows it is
\* left: for all the numbers that are ULong wide, and those that are UInt wide where one of
\* these is expected (pb_encode_varint, pb_decode_varint, pb_decode_varint32).
THEOREM NumbersArrive ==
    \A n \in 0 .. ULong - 1, rest \in Seq(Octet) :
        /\ ReadVarint(Varint[n] \o rest) = DoneRead(n, rest)
        /\ n < UInt => ReadVarint32(Varint[n] \o rest) = DoneRead(n, rest)
<1> SUFFICES ASSUME NEW n \in 0 .. ULong - 1, NEW rest \in Seq(Octet)
             PROVE  /\ ReadVarint(Varint[n] \o rest) = DoneRead(n, rest)
                    /\ n < UInt => ReadVarint32(Varint[n] \o rest) = DoneRead(n, rest)
  OBVIOUS
<1>1. n \in Nat /\ n < ULong /\ ULong \in Nat /\ UInt \in Nat /\ n % ULong = n
      /\ n < 128 ^ VarintBytes /\ VarintBytes \in 1 .. VarintBytes /\ VarintBytes \in Nat
  <2>1. n \in Nat /\ n < ULong /\ ULong \in Nat /\ UInt \in Nat /\ n % ULong = n
    BY WidthAssumption
  <2> PICK p : p = 128 ^ VarintBytes
    OBVIOUS
  <2>2. p \in Nat /\ ULong <= p
    BY WidthAssumption, SevensAssumption
  <2>3. VarintBytes \in 1 .. VarintBytes /\ VarintBytes \in Nat
    BY WidthAssumption
  <2> QED
    BY <2>1, <2>2, <2>3
<1> PICK v : v = Varint[n]
  OBVIOUS
<1>2. Len(v) \in 1 .. VarintBytes
  <2>1. Len(v) <= VarintBytes
    BY <1>1, VarintFits
  <2>2. Len(v) \in Nat \ {0}
    BY <1>1, BytesOfVarint
  <2> QED
    BY <1>1, <2>1, <2>2
<1>3. /\ VarintEnd(v \o rest) = Len(v) /\ SubSeq(v \o rest, 1, Len(v)) = v
      /\ Drop(v \o rest, Len(v)) = rest /\ Sevens(v) = n
  BY <1>1, VarintInFront
<1>4. ReadVarint(v \o rest) = DoneRead(n, rest)
  BY <1>1, <1>2, <1>3 DEF ReadVarint
<1>5. ASSUME n < UInt PROVE ReadVarint32(v \o rest) = DoneRead(n, rest)
  <2>1. n % UInt = n
    BY <1>1, <1>5
  <2> PICK r : r = DoneRead(n, rest)
    OBVIOUS
  <2>2. r.ok /\ r.value = n /\ r.rest = rest
    BY DEF DoneRead
  <2> QED
    BY <1>4, <2>1, <2>2 DEF ReadVarint32
<1> QED
  BY <1>4, <1>5

\* A number that may be below 0 comes back from its varint: those of half of what is ULong
\* wide (pb_encode_svarint, pb_decode_svarint).
THEOREM SignsArrive ==
    \A n \in Int, rest \in Seq(Octet) :
        ZigZag(n) < ULong =>
            /\ ReadVarint(Varint[ZigZag(n)] \o rest) = DoneRead(ZigZag(n), rest)
            /\ UnZigZag(ZigZag(n)) = n
<1> SUFFICES ASSUME NEW n \in Int, NEW rest \in Seq(Octet), ZigZag(n) < ULong
             PROVE  /\ ReadVarint(Varint[ZigZag(n)] \o rest) = DoneRead(ZigZag(n), rest)
                    /\ UnZigZag(ZigZag(n)) = n
  OBVIOUS
<1>1. ZigZag(n) \in Nat /\ UnZigZag(ZigZag(n)) = n
  BY DEF ZigZag, UnZigZag
<1>2. ZigZag(n) \in 0 .. ULong - 1
  BY <1>1, WidthAssumption
<1> QED
  BY <1>1, <1>2, NumbersArrive

\* A varint that is cut has no last byte.
LEMMA CutVarint ==
    ASSUME NEW n \in Nat, NEW k \in 0 .. Len(Varint[n]) - 1
    PROVE  VarintEnd(SubSeq(Varint[n], 1, k)) = 0
<1> PICK v : v = Varint[n]
  OBVIOUS
<1>1. /\ v \in Seq(Octet) /\ Len(v) \in Nat \ {0} /\ k \in Nat /\ k <= Len(v) - 1
      /\ \A j \in 1 .. Len(v) - 1 : v[j] >= 128
  BY BytesOfVarint, VarintSevens DEF IsSevens
<1> DEFINE c == SubSeq(v, 1, k)
<1>2. /\ Len(c) = k /\ \A j \in 1 .. k : c[j] = v[j]
  <2>1. \A j \in 1 .. k : v[j] \in Octet
    BY <1>1, ElementOfSeq
  <2>2. /\ Len(c) = (IF 1 <= k THEN k - 1 + 1 ELSE 0)
        /\ \A j \in 1 .. k - 1 + 1 : c[j] = v[1 + j - 1]
    BY <1>1, <2>1, SubSeqProperties
  <2> HIDE DEF c
  <2> QED
    BY <1>1, <2>2
<1>3. VarintEnd(c) = IF {j \in 1 .. Len(c) : c[j] < 128} # {}
                     THEN Min({j \in 1 .. Len(c) : c[j] < 128}) ELSE 0
  BY DEF VarintEnd, SelectInSeq
<1> HIDE DEF c
<1>4. ASSUME NEW j \in 1 .. Len(c) PROVE ~(c[j] < 128)
  <2>1. j \in 1 .. Len(v) - 1 /\ j \in 1 .. Len(v) /\ c[j] = v[j]
    BY <1>1, <1>2
  <2>2. v[j] \in Octet /\ v[j] >= 128
    BY <1>1, <2>1, ElementOfSeq
  <2> PICK b : b = v[j]
    OBVIOUS
  <2>3. b \in Octet /\ b >= 128 /\ c[j] = b
    BY <2>1, <2>2, Zenon
  <2> QED
    BY <2>3 DEF Octet
<1>5. {j \in 1 .. Len(c) : c[j] < 128} = {}
  BY <1>4
<1> QED
  BY <1>3, <1>5 DEF c

-----------------------------------------------------------------------------
(* Heads.                                                                  *)

\* A code that fits is in its two bytes.
LEMMA CodeParts ==
    ASSUME NEW c \in Int
    PROVE  \E high, low \in Octet :
              /\ CodeBytes(c) = <<high, low>>
              /\ c > 0 /\ CodeFits(c) => CodeIn(high, low) = c
<1> PICK high, low : high = (c \div 256) % 256 /\ low = c % 256
  OBVIOUS
<1>1. high \in Octet /\ low \in Octet
  BY DEF Octet
<1>2. ASSUME c > 0, c < 65536 PROVE 256 * high + low = c
  BY <1>2
<1> QED
  BY <1>1, <1>2 DEF CodeBytes, CodeFits, CodeIn

LEMMA LowByte ==
    ASSUME NEW k \in Nat
    PROVE  k % 256 \in Octet /\ (k < 256 => k % 256 = k)
  BY DEF Octet

\* A name that fits is behind its length.
LEMMA NameParts ==
    ASSUME NEW r \in Seq(Octet)
    PROVE  \E n \in Octet :
              /\ NameBytes(r) = <<n>> \o r
              /\ \A signed \in BOOLEAN : NameFits(r, signed) => n = Len(r) /\ ~(signed /\ n >= 128)
<1> PICK k : k = Len(r)
  OBVIOUS
<1>1. k \in Nat
  OBVIOUS
<1> PICK n : n = k % 256
  OBVIOUS
<1>2. n \in Octet
  BY <1>1, LowByte
<1>3. k < 256 => n = k
  BY <1>1, LowByte
<1>4. NameBytes(r) = <<n>> \o r
  BY DEF NameBytes
<1>5. ASSUME NEW signed \in BOOLEAN, NameFits(r, signed) PROVE n = k /\ ~(signed /\ n >= 128)
  <2>1. k < (IF signed THEN 128 ELSE 256)
    BY <1>5 DEF NameFits
  <2>2. k < 256 /\ ~(signed /\ k >= 128)
    BY <1>1, <2>1
  <2> QED
    BY <1>3, <2>2
<1> QED
  BY <1>2, <1>4, <1>5, SMTT(60)

\* Every route in the dictionary that has a code above 0 has one of its own.
OwnCodes ==
    \A r, s \in DOMAIN RouteToCode :
        RouteToCode[r] = RouteToCode[s] /\ RouteToCode[r] > 0 => r = s

\* The messages that have a head, as far as their heads tell: calls and their answers have
\* ids that are UInt wide.
IsMessage(m) ==
    /\ m.type \in {"request", "notify", "response", "push"}
    /\ m.id \in 0 .. UInt - 1 /\ m.route \in Seq(Octet)

IdBytes(m) == IF HasId(m.type) THEN Varint[m.id] ELSE <<>>
RouteBytes(m) ==
    IF IsCompressed(m.type, m.route)
    THEN CodeBytes(RouteToCode[m.route])
    ELSE IF HasRoute(m.type) THEN NameBytes(m.route) ELSE <<>>
RouteIn(m) == IF HasRoute(m.type) THEN m.route ELSE <<>>
IdIn(m) == IF HasId(m.type) THEN m.id ELSE 0

\* The first byte of a head, and the other bytes.
LEMMA FlagOf ==
    ASSUME NEW type \in {"request", "notify", "response", "push"}
    PROVE  \E k \in 0 .. 3 : /\ k = (CHOOSE j \in 0 .. 3 : Types[j + 1] = type)
                             /\ Types[k + 1] = type
<1> DEFINE k == CHOOSE j \in 0 .. 3 : Types[j + 1] = type
<1>1. \E j \in 0 .. 3 : Types[j + 1] = type
  <2>1. CASE type = "request"
    <3>1. Types[0 + 1] = type
      BY <2>1 DEF Types
    <3> QED
      BY <3>1
  <2>2. CASE type = "notify"
    <3>1. Types[1 + 1] = type
      BY <2>2 DEF Types
    <3> QED
      BY <3>1
  <2>3. CASE type = "response"
    <3>1. Types[2 + 1] = type
      BY <2>3 DEF Types
    <3> QED
      BY <3>1
  <2>4. CASE type = "push"
    <3>1. Types[3 + 1] = type
      BY <2>4 DEF Types
    <3> QED
      BY <3>1
  <2> QED
    BY <2>1, <2>2, <2>3, <2>4
<1>2. k \in 0 .. 3 /\ Types[k + 1] = type
  BY <1>1, Zenon
<1> HIDE DEF k
<1>3. \E j \in 0 .. 3 : j = k /\ Types[j + 1] = type
  BY <1>2
<1> QED
  BY <1>3 DEF k

LEMMA PartsOf ==
    ASSUME NEW m, IsMessage(m)
    PROVE  /\ IdBytes(m) \in Seq(Octet) /\ RouteBytes(m) \in Seq(Octet)
           /\ \E f \in Octet :
                 /\ f \div 2 \in 0 .. 3 /\ Types[(f \div 2) + 1] = m.type
                 /\ f % 2 = 1 <=> IsCompressed(m.type, m.route)
                 /\ HeadBytesOf(m) = (<<f>> \o IdBytes(m)) \o RouteBytes(m)
<1>1. IdBytes(m) \in Seq(Octet)
  <2>1. CASE HasId(m.type)
    <3>1. m.id \in Nat
      BY DEF IsMessage
    <3> QED
      BY <2>1, <3>1, BytesOfVarint DEF IdBytes
  <2>2. CASE ~HasId(m.type)
    BY <2>2 DEF IdBytes
  <2> QED
    BY <2>1, <2>2
<1>2. RouteBytes(m) \in Seq(Octet)
  <2>1. CASE IsCompressed(m.type, m.route)
    <3> PICK c : c = RouteToCode[m.route]
      OBVIOUS
    <3>1. c \in Int /\ RouteBytes(m) = CodeBytes(c)
      BY <2>1, DictionaryAssumption, Zenon DEF IsCompressed, RouteBytes
    <3> PICK high \in Octet, low \in Octet : CodeBytes(c) = <<high, low>>
      BY <3>1, CodeParts, Zenon
    <3>2. <<high, low>> \in Seq(Octet)
      OBVIOUS
    <3> QED
      BY <3>1, <3>2, Zenon
  <2>2. CASE ~IsCompressed(m.type, m.route) /\ HasRoute(m.type)
    <3>1. m.route \in Seq(Octet)
      BY DEF IsMessage
    <3>2. RouteBytes(m) = NameBytes(m.route)
      BY <2>2, Zenon DEF RouteBytes
    <3> PICK n \in Octet : NameBytes(m.route) = <<n>> \o m.route
      BY <3>1, NameParts, Zenon
    <3>3. <<n>> \in Seq(Octet)
      OBVIOUS
    <3>4. <<n>> \o m.route \in Seq(Octet)
      BY <3>1, <3>3, ConcatProperties, Zenon
    <3> QED
      BY <3>2, <3>4, Zenon
  <2>3. CASE ~IsCompressed(m.type, m.route) /\ ~HasRoute(m.type)
    BY <2>3 DEF RouteBytes
  <2> QED
    BY <2>1, <2>2, <2>3
<1>3. PICK k \in 0 .. 3 : /\ k = (CHOOSE j \in 0 .. 3 : Types[j + 1] = m.type)
                         /\ Types[k + 1] = m.type
  BY FlagOf DEF IsMessage
<1> DEFINE flag == 2 * (CHOOSE j \in 0 .. 3 : Types[j + 1] = m.type)
           f == IF IsCompressed(m.type, m.route) THEN flag + 1 ELSE flag
<1>4. flag = 2 * k
  BY <1>3
<1>5. HeadBytesOf(m) = (<<f>> \o IdBytes(m)) \o RouteBytes(m)
  <2> HIDE DEF flag
  <2>1. CASE IsCompressed(m.type, m.route)
    <3>1. f = flag + 1
      BY <2>1
    <3>2. RouteBytes(m) = CodeBytes(RouteToCode[m.route])
      BY <2>1 DEF RouteBytes
    <3>3. HeadBytesOf(m) = <<flag + 1>> \o IdBytes(m) \o CodeBytes(RouteToCode[m.route])
      BY <2>1, Zenon DEF HeadBytesOf, IdBytes, flag
    <3> QED
      BY <3>1, <3>2, <3>3, Zenon
  <2>2. CASE ~IsCompressed(m.type, m.route)
    <3>1. f = flag
      BY <2>2
    <3>2. RouteBytes(m) = IF HasRoute(m.type) THEN NameBytes(m.route) ELSE <<>>
      BY <2>2 DEF RouteBytes
    <3>3. HeadBytesOf(m) = <<flag>> \o IdBytes(m)
              \o (IF HasRoute(m.type) THEN NameBytes(m.route) ELSE <<>>)
      BY <2>2, Zenon DEF HeadBytesOf, IdBytes, flag
    <3> QED
      BY <3>1, <3>2, <3>3, Zenon
  <2> QED
    BY <2>1, <2>2
<1> HIDE DEF flag
<1>6. f \in Octet /\ f \div 2 = k /\ (f % 2 = 1 <=> IsCompressed(m.type, m.route))
  BY <1>4 DEF Octet
<1> HIDE DEF f
<1>7. f \div 2 \in 0 .. 3 /\ Types[(f \div 2) + 1] = m.type
  BY <1>3, <1>6
<1> QED
  BY <1>1, <1>2, <1>5, <1>6, <1>7

\* The middle of three.
LEMMA Middle ==
    ASSUME NEW S, NEW a \in Seq(S), NEW b \in Seq(S), NEW c \in Seq(S)
    PROVE  SubSeq((a \o b) \o c, Len(a) + 1, Len(a) + Len(b)) = b
<1> DEFINE w == (a \o b) \o c
           x == SubSeq(w, Len(a) + 1, Len(a) + Len(b))
<1>1. Len(a) \in Nat /\ Len(b) \in Nat /\ Len(c) \in Nat
  OBVIOUS
<1>2. ASSUME NEW k \in 1 .. Len(b) PROVE w[Len(a) + k] = b[k]
  <2> PICK ab : ab = a \o b
    OBVIOUS
  <2>1. /\ ab \in Seq(S) /\ Len(ab) = Len(a) + Len(b)
        /\ \A i \in 1 .. Len(a) + Len(b) : ab[i] = IF i <= Len(a) THEN a[i] ELSE b[i - Len(a)]
    BY ConcatProperties
  <2>2. \A i \in 1 .. Len(ab) + Len(c) : (ab \o c)[i] = IF i <= Len(ab) THEN ab[i] ELSE c[i - Len(ab)]
    BY <2>1, ConcatProperties
  <2> PICK i : i = Len(a) + k
    OBVIOUS
  <2>3. /\ i \in 1 .. Len(ab) + Len(c) /\ i <= Len(ab) /\ i \in 1 .. Len(a) + Len(b)
        /\ ~(i <= Len(a)) /\ i - Len(a) = k
    BY <1>1, <2>1
  <2>4. (ab \o c)[i] = ab[i] /\ ab[i] = b[i - Len(a)]
    BY <2>1, <2>2, <2>3
  <2> QED
    BY <2>3, <2>4
<1> HIDE DEF w
<1>3. \A k \in Len(a) + 1 .. Len(a) + Len(b) : w[k] \in S
  <2> TAKE k \in Len(a) + 1 .. Len(a) + Len(b)
  <2> PICK j : j = k - Len(a)
    OBVIOUS
  <2>1. j \in 1 .. Len(b) /\ k = Len(a) + j
    BY <1>1
  <2>2. w[k] = b[j] /\ b[j] \in S
    BY <1>2, <2>1, ElementOfSeq
  <2> QED
    BY <2>2
<1>4. /\ x \in Seq(S) /\ Len(x) = Len(b)
      /\ \A k \in 1 .. Len(b) : x[k] = w[Len(a) + k]
  <2>1. /\ x \in Seq(S)
        /\ Len(x) = (IF Len(a) + 1 <= Len(a) + Len(b)
                     THEN Len(a) + Len(b) - (Len(a) + 1) + 1 ELSE 0)
        /\ \A k \in 1 .. Len(a) + Len(b) - (Len(a) + 1) + 1 : x[k] = w[Len(a) + 1 + k - 1]
    <3>1. Len(a) + 1 \in Int /\ Len(a) + Len(b) \in Int
      BY <1>1
    <3> QED
      BY <1>3, <3>1, SubSeqProperties
  <2> HIDE DEF x
  <2>2. Len(a) + Len(b) - (Len(a) + 1) + 1 = Len(b)
        /\ (Len(a) + 1 <= Len(a) + Len(b) \/ Len(b) = 0)
    BY <1>1
  <2>3. Len(x) = Len(b)
    BY <1>1, <2>1, <2>2
  <2>4. ASSUME NEW k \in 1 .. Len(b) PROVE x[k] = w[Len(a) + k]
    <3>1. Len(a) + 1 + k - 1 = Len(a) + k
      BY <1>1
    <3>2. x[k] = w[Len(a) + 1 + k - 1]
      BY <2>1, <2>2
    <3> QED
      BY <3>1, <3>2
  <2> QED
    BY <2>1, <2>3, <2>4
<1> HIDE DEF x
<1>5. \A k \in 1 .. Len(b) : x[k] = b[k]
  BY <1>2, <1>4
<1>6. x = b
  BY <1>4, <1>5, SeqEqual
<1> QED
  BY <1>6 DEF x, w

LEMMA CodeRead ==
    ASSUME NEW hi \in Octet, NEW lo \in Octet, NEW body \in Seq(Octet)
    PROVE  /\ ~(Len(<<hi, lo>> \o body) < 2)
           /\ (<<hi, lo>> \o body)[1] = hi /\ (<<hi, lo>> \o body)[2] = lo
           /\ Drop(<<hi, lo>> \o body, 2) = body
<1> PICK bytes : bytes = <<hi, lo>> \o body
  OBVIOUS
<1> PICK v : v = <<hi, lo>>
  OBVIOUS
<1>3. Len(v) = 2 /\ v \in Seq(Octet) /\ v[1] = hi /\ v[2] = lo
  OBVIOUS
<1>4. bytes = v \o body
  OBVIOUS
<1>5. /\ Len(bytes) = 2 + Len(body) /\ Len(body) \in Nat
      /\ \A i \in 1 .. 2 + Len(body) : bytes[i] = IF i <= 2 THEN v[i] ELSE body[i - 2]
  BY <1>3, <1>4, ConcatProperties
<1>6. bytes[1] = hi /\ bytes[2] = lo
  <2>1. 1 \in 1 .. 2 + Len(body) /\ 2 \in 1 .. 2 + Len(body)
    BY <1>5
  <2> QED
    BY <1>3, <1>5, <2>1
<1>7. Drop(bytes, 2) = body
  BY <1>3, <1>4, Halves
<1>8. ~(Len(bytes) < 2)
  BY <1>5
<1> QED
  BY <1>6, <1>7, <1>8

LEMMA NameRead ==
    ASSUME NEW r \in Seq(Octet), NEW n \in Octet, n = Len(r), NEW body \in Seq(Octet)
    PROVE  \E bytes :
              /\ bytes = (<<n>> \o r) \o body
              /\ bytes # <<>> /\ bytes[1] = Len(r) /\ Len(r) <= Len(bytes) - 1
              /\ SubSeq(bytes, 2, Len(r) + 1) = r /\ Drop(bytes, Len(r) + 1) = body
<1> PICK bytes : bytes = (<<n>> \o r) \o body
  OBVIOUS
<1>1. n \in Nat
  OBVIOUS
<1> PICK one : one = <<n>>
  OBVIOUS
<1>3. one \in Seq(Octet) /\ Len(one) = 1 /\ one[1] = n
  OBVIOUS
<1> PICK v : v = one \o r
  OBVIOUS
<1>4. v \in Seq(Octet) /\ Len(v) = n + 1 /\ v[1] = n
  <2>1. /\ v \in Seq(Octet) /\ Len(v) = 1 + n
        /\ \A i \in 1 .. 1 + n : v[i] = IF i <= 1 THEN one[i] ELSE r[i - 1]
    BY <1>3, ConcatProperties
  <2>2. 1 \in 1 .. 1 + n /\ 1 + n = n + 1
    BY <1>1
  <2> QED
    BY <1>3, <2>1, <2>2
<1>5. bytes = v \o body
  OBVIOUS
<1>6. /\ Len(bytes) = n + 1 + Len(body) /\ Len(body) \in Nat /\ bytes \in Seq(Octet)
      /\ \A i \in 1 .. n + 1 + Len(body) : bytes[i] = IF i <= n + 1 THEN v[i] ELSE body[i - (n + 1)]
  BY <1>4, <1>5, ConcatProperties
<1>7. bytes[1] = n
  <2>1. 1 \in 1 .. n + 1 + Len(body) /\ 1 <= n + 1
    BY <1>1, <1>6
  <2> QED
    BY <1>4, <1>6, <2>1
<1>8. bytes # <<>> /\ n <= Len(bytes) - 1
  <2>1. Len(bytes) # 0 /\ n <= Len(bytes) - 1
    BY <1>1, <1>6
  <2> QED
    BY <1>6, <2>1, EmptySeq
<1>9. Drop(bytes, n + 1) = body
  BY <1>4, <1>5, Halves, ZenonT(60)
<1>10. SubSeq(bytes, 2, n + 1) = r
  <2>1. SubSeq((one \o r) \o body, 1 + 1, 1 + n) = r
    BY <1>3, Middle
  <2>2. 1 + 1 = 2 /\ 1 + n = n + 1
    BY <1>1
  <2> QED
    BY <1>5, <2>1, <2>2
<1>11. /\ bytes # <<>> /\ bytes[1] = Len(r) /\ Len(r) <= Len(bytes) - 1
       /\ SubSeq(bytes, 2, Len(r) + 1) = r /\ Drop(bytes, Len(r) + 1) = body
  BY <1>7, <1>8, <1>9, <1>10
<1> QED
  BY <1>11, Zenon

\* The bytes of a route that can be said are read as that route, whatever follows them.
LEMMA RouteRead ==
    ASSUME NEW m, IsMessage(m), NEW f \in Octet, Types[(f \div 2) + 1] = m.type,
           f % 2 = 1 <=> IsCompressed(m.type, m.route),
           NEW signed \in BOOLEAN, HasRoute(m.type) => IsSayable(m, signed),
           OwnCodes, NEW body \in Seq(Octet)
    PROVE  ReadRoute(f, RouteBytes(m) \o body, signed) = DoneRead(RouteIn(m), body)
<1> PICK bytes : bytes = RouteBytes(m) \o body
  OBVIOUS
<1>1. CASE ~HasRoute(m.type)
  <2>1. bytes = body
    <3>1. RouteBytes(m) = <<>>
      BY <1>1 DEF RouteBytes, IsCompressed
    <3>2. <<>> \o body = body
      BY ConcatEmptySeq
    <3> QED
      BY <3>1, <3>2, Zenon
  <2>2. RouteIn(m) = <<>>
    BY <1>1, Zenon DEF RouteIn
  <2>3. ReadRoute(f, bytes, signed) = DoneRead(<<>>, bytes)
    BY <1>1, Zenon DEF ReadRoute
  <2> QED
    BY <2>1, <2>2, <2>3, Zenon
<1>2. CASE IsCompressed(m.type, m.route)
  <2> PICK c : c = RouteToCode[m.route]
    OBVIOUS
  <2>1. c \in Int /\ c > 0 /\ m.route \in DOMAIN RouteToCode /\ HasRoute(m.type)
    BY <1>2, DictionaryAssumption, Zenon DEF IsCompressed
  <2>2. CodeFits(c)
    BY <1>2, <2>1, Zenon DEF IsSayable
  <2> PICK hi \in Octet, lo \in Octet : CodeBytes(c) = <<hi, lo>> /\ CodeIn(hi, lo) = c
    BY <2>1, <2>2, CodeParts, Zenon
  <2>3. bytes = <<hi, lo>> \o body
    BY <1>2, Zenon DEF RouteBytes
  <2>4. ~(Len(bytes) < 2) /\ CodeIn(bytes[1], bytes[2]) = c /\ Drop(bytes, 2) = body
    <3>1. ~(Len(bytes) < 2) /\ bytes[1] = hi /\ bytes[2] = lo /\ Drop(bytes, 2) = body
      <4>1. /\ ~(Len(<<hi, lo>> \o body) < 2)
            /\ (<<hi, lo>> \o body)[1] = hi /\ (<<hi, lo>> \o body)[2] = lo
            /\ Drop(<<hi, lo>> \o body, 2) = body
        BY CodeRead
      <4> QED
        BY <2>3, <4>1
    <3> QED
      BY <3>1, Zenon
  <2> DEFINE routes == {r \in DOMAIN RouteToCode : RouteToCode[r] = CodeIn(bytes[1], bytes[2])}
  <2>5. routes = {m.route}
    <3>1. \A r \in DOMAIN RouteToCode : RouteToCode[r] = c => r = m.route
      BY <2>1, Zenon DEF OwnCodes
    <3>2. routes = {r \in DOMAIN RouteToCode : RouteToCode[r] = c}
      BY <2>4, Zenon
    <3>3. {r \in DOMAIN RouteToCode : RouteToCode[r] = c} = {m.route}
      BY <2>1, <3>1, Zenon
    <3> HIDE DEF routes
    <3> QED
      BY <3>2, <3>3, Zenon
  <2>6. ReadRoute(f, bytes, signed) = DoneRead(CHOOSE r \in routes : TRUE, Drop(bytes, 2))
    <3> HIDE DEF routes
    <3>1. routes # {}
      BY <2>5, Zenon
    <3>2. f % 2 = 1 /\ HasRoute(Types[(f \div 2) + 1])
      BY <1>2, <2>1, Zenon
    <3> QED
      BY <2>4, <3>1, <3>2, Zenon DEF ReadRoute, routes
  <2>7. (CHOOSE r \in routes : TRUE) = m.route
    <3> HIDE DEF routes
    <3> QED
      BY <2>5
  <2>8. RouteIn(m) = m.route
    BY <2>1, Zenon DEF RouteIn
  <2> HIDE DEF routes
  <2> QED
    BY <2>4, <2>6, <2>7, <2>8, Zenon
<1>3. CASE HasRoute(m.type) /\ ~IsCompressed(m.type, m.route)
  <2> PICK r : r = m.route
    OBVIOUS
  <2>1. r \in Seq(Octet) /\ Len(r) \in Nat
    BY DEF IsMessage
  <2>2. NameFits(r, signed)
    BY <1>3, Zenon DEF IsSayable
  <2> PICK n \in Octet : /\ NameBytes(r) = <<n>> \o r
                        /\ n = Len(r) /\ ~(signed /\ n >= 128)
    BY <2>1, <2>2, NameParts, Zenon
  <2>3. bytes = (<<n>> \o r) \o body
    BY <1>3, Zenon DEF RouteBytes
  <2>4. /\ bytes # <<>> /\ bytes[1] = Len(r) /\ Len(r) <= Len(bytes) - 1
        /\ SubSeq(bytes, 2, Len(r) + 1) = r /\ Drop(bytes, Len(r) + 1) = body
    <3>1. \E b :
              /\ b = (<<n>> \o r) \o body
              /\ b # <<>> /\ b[1] = Len(r) /\ Len(r) <= Len(b) - 1
              /\ SubSeq(b, 2, Len(r) + 1) = r /\ Drop(b, Len(r) + 1) = body
      BY <2>1, NameRead, ZenonT(60)
    <3> QED
      BY <2>3, <3>1
  <2>5. ReadRoute(f, bytes, signed) =
           DoneRead(SubSeq(bytes, 2, bytes[1] + 1), Drop(bytes, bytes[1] + 1))
    <3>1. IsWhole(bytes, signed)
      BY <2>4, Zenon DEF IsWhole
    <3>2. HasRoute(Types[(f \div 2) + 1]) /\ ~(f % 2 = 1)
      BY <1>3, Zenon
    <3> QED
      BY <3>1, <3>2, Zenon DEF ReadRoute
  <2>6. RouteIn(m) = r
    BY <1>3, Zenon DEF RouteIn
  <2> QED
    BY <2>4, <2>5, <2>6, Zenon
<1> QED
  BY <1>1, <1>2, <1>3, Zenon

HeadSays(m) == [type |-> m.type, id |-> IdIn(m), route |-> RouteIn(m)]

\* What ReadHead makes of bytes, by whether there is an id in them.
LEMMA HeadWithId ==
    ASSUME NEW bytes, NEW signed, bytes # <<>>, bytes[1] \div 2 \in 0 .. 3,
           HasId(Types[(bytes[1] \div 2) + 1])
    PROVE  ReadHead(bytes, signed) =
             LET last == VarintEnd(Drop(bytes, 1))
                 route == ReadRoute(bytes[1], Drop(bytes, 1 + last), signed)
             IN  IF last = 0 \/ ~route.ok THEN NotRead
                 ELSE DoneRead([type |-> Types[(bytes[1] \div 2) + 1],
                                id |-> Sevens(SubSeq(bytes, 2, last + 1)) % UInt,
                                route |-> route.value], route.rest)
<1>1. ~(bytes[1] \div 2 > 3)
  OBVIOUS
<1> QED
  BY <1>1, Zenon DEF ReadHead

LEMMA HeadWithoutId ==
    ASSUME NEW bytes, NEW signed, bytes # <<>>, bytes[1] \div 2 \in 0 .. 3,
           ~HasId(Types[(bytes[1] \div 2) + 1])
    PROVE  ReadHead(bytes, signed) =
             LET route == ReadRoute(bytes[1], Drop(bytes, 1 + 0), signed)
             IN  IF ~route.ok THEN NotRead
                 ELSE DoneRead([type |-> Types[(bytes[1] \div 2) + 1], id |-> 0,
                                route |-> route.value], route.rest)
<1>1. ~(bytes[1] \div 2 > 3)
  OBVIOUS
<1> QED
  BY <1>1, Zenon DEF ReadHead

LEMMA AssocOfBytes ==
    \A a, b, c \in Seq(Octet) : (a \o b) \o c = a \o (b \o c)
  BY ConcatAssociative

LEMMA SmallId ==
    ASSUME NEW n \in 0 .. UInt - 1
    PROVE  n \in Nat /\ n % UInt = n
  BY WidthAssumption

\* The bytes of an id, with what is before and after them.
LEMMA IdRead ==
    ASSUME NEW n \in 0 .. UInt - 1, NEW f \in Octet, NEW rest \in Seq(Octet)
    PROVE  \E bytes, last :
              /\ bytes = (<<f>> \o Varint[n]) \o rest
              /\ last = VarintEnd(Drop(bytes, 1)) /\ last # 0
              /\ Sevens(SubSeq(bytes, 2, last + 1)) % UInt = n
              /\ Drop(bytes, 1 + last) = rest
<1> PICK bytes : bytes = (<<f>> \o Varint[n]) \o rest
  OBVIOUS
<1> PICK id : id = Varint[n]
  OBVIOUS
<1> PICK one : one = <<f>>
  OBVIOUS
<1>1. n \in Nat /\ n % UInt = n
  BY SmallId
<1>2. id \in Seq(Octet) /\ Len(id) \in Nat \ {0}
  BY <1>1, BytesOfVarint
<1>3. one \in Seq(Octet) /\ Len(one) = 1
  OBVIOUS
<1>4. bytes = one \o (id \o rest)
  <2>1. (one \o id) \o rest = one \o (id \o rest)
    <3>1. one \in Seq(Octet) /\ id \in Seq(Octet) /\ rest \in Seq(Octet)
      BY <1>2, <1>3
    <3> QED
      BY <3>1, AssocOfBytes, Zenon
  <2> QED
    BY <2>1
<1>5. Drop(bytes, 1) = id \o rest
  <2>1. id \o rest \in Seq(Octet)
    BY <1>2, ConcatProperties
  <2> QED
    BY <1>3, <1>4, <2>1, Halves, ZenonT(60)
<1>6. VarintEnd(id \o rest) = Len(id) /\ Sevens(id) = n
  BY <1>1, VarintInFront
<1>7. SubSeq(bytes, 2, Len(id) + 1) = id
  <2>1. SubSeq((one \o id) \o rest, 1 + 1, 1 + Len(id)) = id
    BY <1>2, <1>3, Middle
  <2>2. 1 + 1 = 2 /\ 1 + Len(id) = Len(id) + 1
    BY <1>2
  <2> QED
    BY <2>1, <2>2
<1>8. Drop(bytes, 1 + Len(id)) = rest
  <2> PICK v : v = one \o id
    OBVIOUS
  <2>1. v \in Seq(Octet) /\ Len(v) = 1 + Len(id)
    BY <1>2, <1>3, ConcatProperties
  <2>2. Drop(v \o rest, Len(v)) = rest
    BY <2>1, Halves
  <2> QED
    BY <2>1, <2>2
<1>9. Sevens(SubSeq(bytes, 2, Len(id) + 1)) % UInt = n
  BY <1>1, <1>6, <1>7
<1> PICK last : last = Len(id)
  OBVIOUS
<1>10. /\ last = VarintEnd(Drop(bytes, 1)) /\ last # 0
       /\ Sevens(SubSeq(bytes, 2, last + 1)) % UInt = n
       /\ Drop(bytes, 1 + last) = rest
  BY <1>2, <1>5, <1>6, <1>8, <1>9
<1> QED
  BY <1>10, Zenon

LEMMA NoIdRead ==
    ASSUME NEW f \in Octet, NEW rest \in Seq(Octet), NEW bytes, bytes = (<<f>> \o <<>>) \o rest
    PROVE  Drop(bytes, 1 + 0) = rest
<1> PICK one : one = <<f>>
  OBVIOUS
<1>1. one \in Seq(Octet) /\ Len(one) = 1 /\ one \o <<>> = one
  OBVIOUS
<1>2. Drop(one \o rest, 1) = rest
  BY <1>1, Halves
<1> QED
  BY <1>1, <1>2

\* The first byte of a head is its flag.
LEMMA FirstByte ==
    ASSUME NEW f \in Octet, NEW id \in Seq(Octet), NEW rest \in Seq(Octet),
           NEW bytes, bytes = (<<f>> \o id) \o rest
    PROVE  bytes # <<>> /\ bytes[1] = f
<1> PICK one, v : one = <<f>> /\ v = one \o id
  OBVIOUS
<1>1. one \in Seq(Octet) /\ Len(one) = 1 /\ one[1] = f
  OBVIOUS
<1>2. /\ v \in Seq(Octet) /\ Len(v) = 1 + Len(id) /\ Len(id) \in Nat
      /\ \A i \in 1 .. 1 + Len(id) : v[i] = IF i <= 1 THEN one[i] ELSE id[i - 1]
  BY <1>1, ConcatProperties
<1>3. /\ bytes \in Seq(Octet) /\ Len(bytes) = Len(v) + Len(rest) /\ Len(rest) \in Nat
      /\ \A i \in 1 .. Len(v) + Len(rest) : bytes[i] = IF i <= Len(v) THEN v[i] ELSE rest[i - Len(v)]
  BY <1>2, ConcatProperties
<1>4. bytes[1] = v[1] /\ v[1] = f
  <2>1. 1 \in 1 .. Len(v) + Len(rest) /\ 1 <= Len(v) /\ 1 \in 1 .. 1 + Len(id)
    BY <1>2, <1>3
  <2> QED
    BY <1>1, <1>2, <1>3, <2>1
<1>5. Len(bytes) # 0
  BY <1>2, <1>3
<1> QED
  BY <1>3, <1>4, <1>5, EmptySeq

\* What is read of a head that is followed by bytes: the message's type, its id if it has one,
\* and its route if it has one that can be said; the body begins where the head ends
\* (pc_msg_encode_code, pc_msg_encode_route, pc_msg_decode_to_raw).
THEOREM HeadArrives ==
    ASSUME OwnCodes,
           NEW m, IsMessage(m), NEW signed \in BOOLEAN,
           HasRoute(m.type) => IsSayable(m, signed),
           NEW body \in Seq(Octet)
    PROVE  ReadHead(HeadBytesOf(m) \o body, signed) = DoneRead(HeadSays(m), body)
<1> PICK id, tail : id = IdBytes(m) /\ tail = RouteBytes(m)
  OBVIOUS
<1>1. id \in Seq(Octet) /\ tail \in Seq(Octet)
  BY PartsOf
<1>2. PICK f \in Octet :
          /\ f \div 2 \in 0 .. 3 /\ Types[(f \div 2) + 1] = m.type
          /\ f % 2 = 1 <=> IsCompressed(m.type, m.route)
          /\ HeadBytesOf(m) = (<<f>> \o id) \o tail
  BY PartsOf, Zenon
<1> PICK rest : rest = tail \o body
  OBVIOUS
<1> PICK bytes : bytes = HeadBytesOf(m) \o body
  OBVIOUS
<1>3. rest \in Seq(Octet)
  BY <1>1, ConcatProperties
<1>4. bytes = (<<f>> \o id) \o rest
  <2> PICK v : v = <<f>> \o id
    OBVIOUS
  <2>1. v \in Seq(Octet)
    <3>1. <<f>> \in Seq(Octet)
      OBVIOUS
    <3> QED
      BY <1>1, <3>1, ConcatProperties
  <2>2. (v \o tail) \o body = v \o (tail \o body)
    BY <1>1, <2>1, ConcatAssociative, SMTT(60)
  <2>3. HeadBytesOf(m) = v \o tail
    BY <1>2, Zenon
  <2> QED
    BY <2>2, <2>3, Zenon
<1>5. bytes # <<>> /\ bytes[1] = f
  BY <1>1, <1>3, <1>4, FirstByte
<1>6. ReadRoute(f, rest, signed) = DoneRead(RouteIn(m), body)
  BY <1>2, RouteRead, Zenon
<1>7. /\ DoneRead(RouteIn(m), body).ok /\ DoneRead(RouteIn(m), body).value = RouteIn(m)
      /\ DoneRead(RouteIn(m), body).rest = body
  BY DEF DoneRead
<1>8. bytes[1] \div 2 \in 0 .. 3 /\ Types[(bytes[1] \div 2) + 1] = m.type
  BY <1>2, <1>5, Zenon
<1>9. CASE HasId(m.type)
  <2>1. m.id \in 0 .. UInt - 1 /\ id = Varint[m.id] /\ IdIn(m) = m.id
    BY <1>9, Zenon DEF IsMessage, IdBytes, IdIn
  <2> PICK last : last = VarintEnd(Drop(bytes, 1))
    OBVIOUS
  <2>2. /\ last # 0 /\ Sevens(SubSeq(bytes, 2, last + 1)) % UInt = m.id
        /\ Drop(bytes, 1 + last) = rest
    <3>1. \E b, l :
              /\ b = (<<f>> \o Varint[m.id]) \o rest
              /\ l = VarintEnd(Drop(b, 1)) /\ l # 0
              /\ Sevens(SubSeq(b, 2, l + 1)) % UInt = m.id
              /\ Drop(b, 1 + l) = rest
      BY <1>3, <2>1, IdRead
    <3>2. bytes = (<<f>> \o Varint[m.id]) \o rest
      BY <1>4, <2>1, Zenon
    <3> QED
      BY <3>1, <3>2, Zenon
  <2>3. ReadHead(bytes, signed) =
           LET end == VarintEnd(Drop(bytes, 1))
               route == ReadRoute(bytes[1], Drop(bytes, 1 + end), signed)
           IN  IF end = 0 \/ ~route.ok THEN NotRead
               ELSE DoneRead([type |-> Types[(bytes[1] \div 2) + 1],
                              id |-> Sevens(SubSeq(bytes, 2, end + 1)) % UInt,
                              route |-> route.value], route.rest)
    BY <1>5, <1>8, <1>9, HeadWithId, Zenon
  <2> QED
    BY <1>5, <1>6, <1>7, <1>8, <2>1, <2>2, <2>3, Zenon DEF HeadSays
<1>10. CASE ~HasId(m.type)
  <2>1. id = <<>> /\ IdIn(m) = 0
    BY <1>10, Zenon DEF IdBytes, IdIn
  <2>2. Drop(bytes, 1 + 0) = rest
    BY <1>3, <1>4, <2>1, NoIdRead, ZenonT(60)
  <2>3. ReadHead(bytes, signed) =
           LET route == ReadRoute(bytes[1], Drop(bytes, 1 + 0), signed)
           IN  IF ~route.ok THEN NotRead
               ELSE DoneRead([type |-> Types[(bytes[1] \div 2) + 1], id |-> 0,
                              route |-> route.value], route.rest)
    BY <1>5, <1>8, <1>10, HeadWithoutId, Zenon
  <2> QED
    BY <1>5, <1>6, <1>7, <1>8, <2>1, <2>2, <2>3, Zenon DEF HeadSays
<1> QED
  BY <1>9, <1>10

LEMMA Prefix ==
    ASSUME NEW S, NEW s \in Seq(S), NEW k \in 0 .. Len(s)
    PROVE  /\ SubSeq(s, 1, k) \in Seq(S) /\ Len(SubSeq(s, 1, k)) = k
           /\ \A i \in 1 .. k : SubSeq(s, 1, k)[i] = s[i]
<1> DEFINE p == SubSeq(s, 1, k)
<1>1. \A i \in 1 .. k : s[i] \in S
  BY ElementOfSeq
<1>2. /\ p \in Seq(S) /\ Len(p) = (IF 1 <= k THEN k - 1 + 1 ELSE 0)
      /\ \A i \in 1 .. k - 1 + 1 : p[i] = s[1 + i - 1]
  BY <1>1, SubSeqProperties
<1> HIDE DEF p
<1>3. Len(p) = k /\ \A i \in 1 .. k : p[i] = s[i]
  BY <1>2
<1> QED
  BY <1>2, <1>3 DEF p

\* What is cut of a concatenation, in its second part.
LEMMA PrefixOfConcat ==
    ASSUME NEW S, NEW a \in Seq(S), NEW b \in Seq(S), NEW k \in 0 .. Len(b)
    PROVE  SubSeq(a \o b, 1, Len(a) + k) = a \o SubSeq(b, 1, k)
<1> DEFINE w == a \o b
           p == SubSeq(w, 1, Len(a) + k)
           c == SubSeq(b, 1, k)
           q == a \o c
<1>1. Len(a) \in Nat /\ Len(b) \in Nat /\ k \in Nat /\ k <= Len(b)
  OBVIOUS
<1>2. /\ w \in Seq(S) /\ Len(w) = Len(a) + Len(b)
      /\ \A i \in 1 .. Len(a) + Len(b) : w[i] = IF i <= Len(a) THEN a[i] ELSE b[i - Len(a)]
  BY ConcatProperties
<1> HIDE DEF w
<1>3. /\ p \in Seq(S) /\ Len(p) = Len(a) + k /\ \A i \in 1 .. Len(a) + k : p[i] = w[i]
  <2>1. Len(a) + k \in 0 .. Len(w)
    BY <1>1, <1>2
  <2> QED
    BY <1>2, <2>1, Prefix
<1>4. c \in Seq(S) /\ Len(c) = k /\ \A i \in 1 .. k : c[i] = b[i]
  BY Prefix
<1> HIDE DEF p, c
<1>5. /\ q \in Seq(S) /\ Len(q) = Len(a) + k
      /\ \A i \in 1 .. Len(a) + k : q[i] = IF i <= Len(a) THEN a[i] ELSE c[i - Len(a)]
  <2>1. /\ q \in Seq(S) /\ Len(q) = Len(a) + Len(c)
        /\ \A i \in 1 .. Len(a) + Len(c) : q[i] = IF i <= Len(a) THEN a[i] ELSE c[i - Len(a)]
    BY <1>4, ConcatProperties
  <2> HIDE DEF q
  <2> QED
    BY <1>4, <2>1
<1> HIDE DEF q
<1>6. ASSUME NEW i \in 1 .. Len(a) + k PROVE p[i] = q[i]
  <2>1. i \in 1 .. Len(a) + Len(b)
    BY <1>1
  <2>2. CASE i <= Len(a)
    BY <1>2, <1>3, <1>5, <2>1, <2>2
  <2>3. CASE ~(i <= Len(a))
    <3> PICK j : j = i - Len(a)
      OBVIOUS
    <3>1. j \in 1 .. k
      BY <1>1, <2>3
    <3>2. p[i] = b[j] /\ q[i] = c[j]
      BY <1>2, <1>3, <1>5, <2>1, <2>3
    <3> QED
      BY <1>4, <3>1, <3>2
  <2> QED
    BY <2>2, <2>3
<1>7. p = q
  BY <1>3, <1>5, <1>6, SeqEqual
<1> QED
  BY <1>7 DEF p, q, w, c

\* And in its first part.
LEMMA PrefixOfFirst ==
    ASSUME NEW S, NEW a \in Seq(S), NEW b \in Seq(S), NEW k \in 0 .. Len(a)
    PROVE  SubSeq(a \o b, 1, k) = SubSeq(a, 1, k)
<1> DEFINE w == a \o b
           p == SubSeq(w, 1, k)
           c == SubSeq(a, 1, k)
<1>1. Len(a) \in Nat /\ Len(b) \in Nat /\ k \in Nat /\ k <= Len(a)
  OBVIOUS
<1>2. /\ w \in Seq(S) /\ Len(w) = Len(a) + Len(b)
      /\ \A i \in 1 .. Len(a) + Len(b) : w[i] = IF i <= Len(a) THEN a[i] ELSE b[i - Len(a)]
  BY ConcatProperties
<1> HIDE DEF w
<1>3. p \in Seq(S) /\ Len(p) = k /\ \A i \in 1 .. k : p[i] = w[i]
  <2>1. k \in 0 .. Len(w)
    BY <1>1, <1>2
  <2> QED
    BY <1>2, <2>1, Prefix
<1>4. c \in Seq(S) /\ Len(c) = k /\ \A i \in 1 .. k : c[i] = a[i]
  BY Prefix
<1> HIDE DEF p, c
<1>5. \A i \in 1 .. k : p[i] = c[i]
  BY <1>1, <1>2, <1>3, <1>4
<1>6. p = c
  BY <1>3, <1>4, <1>5, SeqEqual
<1> QED
  BY <1>6 DEF p, w, c

\* A route whose bytes are cut is not read.
LEMMA CutRoute ==
    ASSUME NEW m, IsMessage(m), NEW f \in Octet, Types[(f \div 2) + 1] = m.type,
           f % 2 = 1 <=> IsCompressed(m.type, m.route),
           NEW signed \in BOOLEAN, HasRoute(m.type) => IsSayable(m, signed),
           NEW k \in 0 .. Len(RouteBytes(m)) - 1
    PROVE  ReadRoute(f, SubSeq(RouteBytes(m), 1, k), signed) = NotRead
<1> PICK tail, t : tail = RouteBytes(m) /\ t = SubSeq(RouteBytes(m), 1, k)
  OBVIOUS
<1>1. tail \in Seq(Octet) /\ Len(tail) \in Nat /\ k \in 0 .. Len(tail) - 1 /\ k \in 0 .. Len(tail)
  BY PartsOf
<1>2. t \in Seq(Octet) /\ Len(t) = k /\ \A i \in 1 .. k : t[i] = tail[i]
  BY <1>1, Prefix
<1>3. HasRoute(m.type)
  <2> SUFFICES ASSUME ~HasRoute(m.type) PROVE FALSE
    OBVIOUS
  <2>1. tail = <<>>
    BY Zenon DEF RouteBytes, IsCompressed
  <2> QED
    BY <1>1, <2>1
<1>4. CASE IsCompressed(m.type, m.route)
  <2>1. RouteToCode[m.route] \in Int
    BY <1>4, DictionaryAssumption, Zenon DEF IsCompressed
  <2> PICK hi \in Octet, lo \in Octet : CodeBytes(RouteToCode[m.route]) = <<hi, lo>>
    BY <2>1, CodeParts, Zenon
  <2>2. tail = <<hi, lo>>
    BY <1>4, Zenon DEF RouteBytes
  <2>3. Len(tail) = 2
    BY <2>2
  <2>4. Len(t) < 2
    BY <1>1, <1>2, <2>3
  <2>5. f % 2 = 1 /\ HasRoute(Types[(f \div 2) + 1])
    BY <1>3, <1>4, Zenon
  <2> QED
    BY <2>4, <2>5, Zenon DEF ReadRoute
<1>5. CASE ~IsCompressed(m.type, m.route)
  <2> PICK r : r = m.route
    OBVIOUS
  <2>1. r \in Seq(Octet) /\ Len(r) \in Nat
    BY DEF IsMessage
  <2>2. NameFits(r, signed)
    BY <1>3, <1>5, Zenon DEF IsSayable
  <2> PICK n \in Octet : NameBytes(r) = <<n>> \o r /\ n = Len(r)
    BY <2>1, <2>2, NameParts, Zenon
  <2>3. tail = <<n>> \o r
    BY <1>3, <1>5, Zenon DEF RouteBytes
  <2> PICK one : one = <<n>>
    OBVIOUS
  <2>4. one \in Seq(Octet) /\ Len(one) = 1 /\ one[1] = n
    OBVIOUS
  <2>5. /\ Len(tail) = 1 + Len(r)
        /\ \A i \in 1 .. 1 + Len(r) : tail[i] = IF i <= 1 THEN one[i] ELSE r[i - 1]
    BY <2>1, <2>3, <2>4, ConcatProperties
  <2>6. tail[1] = n
    <3>1. 1 \in 1 .. 1 + Len(r)
      BY <2>1
    <3> QED
      BY <2>4, <2>5, <3>1
  <2>7. ~IsWhole(t, signed)
    <3>1. CASE k = 0
      <4>1. t = <<>>
        BY <1>2, <3>1, EmptySeq
      <4> QED
        BY <4>1, Zenon DEF IsWhole
    <3>2. CASE k # 0
      <4>1. 1 \in 1 .. k
        BY <1>1, <3>2
      <4>2. t[1] = n
        BY <1>2, <2>6, <4>1
      <4>3. ~(n <= Len(t) - 1)
        BY <1>1, <1>2, <2>1, <2>5
      <4> QED
        BY <4>2, <4>3, Zenon DEF IsWhole
    <3> QED
      BY <3>1, <3>2
  <2>8. HasRoute(Types[(f \div 2) + 1]) /\ ~(f % 2 = 1)
    BY <1>3, <1>5, Zenon
  <2> QED
    BY <2>7, <2>8, Zenon DEF ReadRoute
<1> QED
  BY <1>4, <1>5

\* A head that is cut is refused, wherever it is cut: no head is the beginning of another one,
\* and what arrives of it is never taken for another message (pc_msg_decode_to_raw).
THEOREM CutHeadRefused ==
    ASSUME NEW m, IsMessage(m), NEW signed \in BOOLEAN,
           HasRoute(m.type) => IsSayable(m, signed),
           NEW k \in 0 .. Len(HeadBytesOf(m)) - 1
    PROVE  ReadHead(SubSeq(HeadBytesOf(m), 1, k), signed) = NotRead
<1> PICK id, tail, cut : /\ id = IdBytes(m) /\ tail = RouteBytes(m)
                         /\ cut = SubSeq(HeadBytesOf(m), 1, k)
  OBVIOUS
<1>1. id \in Seq(Octet) /\ tail \in Seq(Octet) /\ Len(id) \in Nat /\ Len(tail) \in Nat
  BY PartsOf
<1>2. PICK f \in Octet :
          /\ f \div 2 \in 0 .. 3 /\ Types[(f \div 2) + 1] = m.type
          /\ f % 2 = 1 <=> IsCompressed(m.type, m.route)
          /\ HeadBytesOf(m) = (<<f>> \o id) \o tail
  BY PartsOf, Zenon
<1> PICK one, v : one = <<f>> /\ v = one \o id
  OBVIOUS
<1>3. one \in Seq(Octet) /\ Len(one) = 1
  OBVIOUS
<1>4. v \in Seq(Octet) /\ Len(v) = 1 + Len(id)
  BY <1>1, <1>3, ConcatProperties
<1>5. HeadBytesOf(m) = v \o tail /\ cut = SubSeq(v \o tail, 1, k)
  BY <1>2, Zenon
<1>6. k \in Nat /\ k < 1 + Len(id) + Len(tail)
  <2>1. Len(v \o tail) = 1 + Len(id) + Len(tail)
    BY <1>1, <1>4, ConcatProperties
  <2>2. k \in 0 .. 1 + Len(id) + Len(tail) - 1
    BY <1>5, <2>1
  <2> QED
    BY <1>1, <2>2
\* Before its first byte.
<1>7. CASE k = 0
  <2>1. cut = <<>>
    BY <1>7, SubSeqEmpty
  <2> QED
    BY <2>1, Zenon DEF ReadHead
\* In its id.
<1>8. CASE k # 0 /\ k <= Len(id)
  <2> PICK j : j = k - 1
    OBVIOUS
  <2>1. j \in 0 .. Len(id) - 1 /\ j \in 0 .. Len(id) /\ k = Len(one) + j
    BY <1>1, <1>3, <1>6, <1>8
  <2> PICK c : c = SubSeq(id, 1, j)
    OBVIOUS
  <2>2. c \in Seq(Octet)
    BY <1>1, <2>1, Prefix
  <2>3. cut = one \o c
    <3>1. one \o (id \o tail) = v \o tail
      BY <1>1, <1>3, AssocOfBytes, Zenon
    <3>2. id \o tail \in Seq(Octet) /\ Len(id \o tail) = Len(id) + Len(tail)
      BY <1>1, ConcatProperties
    <3> PICK w : w = id \o tail
      OBVIOUS
    <3>3. w \in Seq(Octet) /\ j \in 0 .. Len(w)
      BY <1>1, <2>1, <3>2
    <3>4. SubSeq(one \o w, 1, Len(one) + j) = one \o SubSeq(w, 1, j)
      BY <1>3, <3>3, PrefixOfConcat, SMTT(60)
    <3>5. SubSeq(w, 1, j) = c
      BY <1>1, <2>1, PrefixOfFirst
    <3> QED
      BY <1>5, <2>1, <3>1, <3>4, <3>5
  <2>4. cut # <<>> /\ cut[1] = f /\ Drop(cut, 1) = c
    <3>1. cut = (<<f>> \o c) \o <<>>
      BY <2>2, <2>3
    <3>2. <<>> \in Seq(Octet)
      OBVIOUS
    <3>3. cut # <<>> /\ cut[1] = f
      BY <2>2, <3>1, <3>2, FirstByte
    <3>4. Drop(cut, 1) = c
      <4>1. Drop(one \o c, Len(one)) = c
        BY <1>3, <2>2, Halves, ZenonT(60)
      <4> QED
        BY <1>3, <2>3, <4>1, Zenon
    <3> QED
      BY <3>3, <3>4
  <2>5. HasId(m.type) /\ m.id \in Nat /\ id = Varint[m.id]
    <3>1. HasId(m.type)
      <4> SUFFICES ASSUME ~HasId(m.type) PROVE FALSE
        OBVIOUS
      <4>1. id = <<>>
        BY Zenon DEF IdBytes
      <4> QED
        BY <1>6, <1>8, <4>1
    <3>2. m.id \in Nat
      BY DEF IsMessage
    <3> QED
      BY <3>1, <3>2, Zenon DEF IdBytes
  <2>6. VarintEnd(c) = 0
    BY <2>1, <2>5, CutVarint
  <2>7. cut[1] \div 2 \in 0 .. 3 /\ HasId(Types[(cut[1] \div 2) + 1])
    BY <1>2, <2>4, <2>5, Zenon
  <2>8. VarintEnd(Drop(cut, 1)) = 0
    BY <2>4, <2>6
  <2>9. ReadHead(cut, signed) =
           LET last == VarintEnd(Drop(cut, 1))
               route == ReadRoute(cut[1], Drop(cut, 1 + last), signed)
           IN  IF last = 0 \/ ~route.ok THEN NotRead
               ELSE DoneRead([type |-> Types[(cut[1] \div 2) + 1],
                              id |-> Sevens(SubSeq(cut, 2, last + 1)) % UInt,
                              route |-> route.value], route.rest)
    BY <2>4, <2>7, HeadWithId, Zenon
  <2> QED
    BY <2>8, <2>9, Zenon
\* In its route.
<1>9. CASE k # 0 /\ ~(k <= Len(id))
  <2> PICK j : j = k - (1 + Len(id))
    OBVIOUS
  <2>1. j \in 0 .. Len(tail) - 1 /\ j \in 0 .. Len(tail) /\ k = Len(v) + j
    BY <1>1, <1>4, <1>6, <1>9
  <2> PICK t : t = SubSeq(tail, 1, j)
    OBVIOUS
  <2>2. t \in Seq(Octet)
    BY <1>1, <2>1, Prefix
  <2>3. cut = v \o t
    <3>1. v \in Seq(Octet) /\ tail \in Seq(Octet)
      BY <1>1, <1>4
    <3>2. SubSeq(v \o tail, 1, Len(v) + j) = v \o SubSeq(tail, 1, j)
      BY <2>1, <3>1, PrefixOfConcat, ZenonT(60)
    <3> QED
      BY <1>5, <2>1, <3>2, Zenon
  <2>4. cut = (<<f>> \o id) \o t
    BY <2>3
  <2>5. cut # <<>> /\ cut[1] = f
    BY <1>1, <2>2, <2>4, FirstByte
  <2>6. ReadRoute(f, t, signed) = NotRead /\ ~NotRead.ok
    <3>1. ReadRoute(f, t, signed) = NotRead
      BY <1>2, <2>1, CutRoute, Zenon
    <3>2. ~NotRead.ok
      BY DEF NotRead
    <3> QED
      BY <3>1, <3>2
  <2>7. cut[1] \div 2 \in 0 .. 3 /\ Types[(cut[1] \div 2) + 1] = m.type
    BY <1>2, <2>5, Zenon
  <2>8. CASE HasId(m.type)
    <3>1. m.id \in 0 .. UInt - 1 /\ id = Varint[m.id]
      BY <2>8, Zenon DEF IsMessage, IdBytes
    <3> PICK last : last = VarintEnd(Drop(cut, 1))
      OBVIOUS
    <3>2. Drop(cut, 1 + last) = t
      <4>1. \E b, l :
                /\ b = (<<f>> \o Varint[m.id]) \o t
                /\ l = VarintEnd(Drop(b, 1)) /\ l # 0
                /\ Sevens(SubSeq(b, 2, l + 1)) % UInt = m.id
                /\ Drop(b, 1 + l) = t
        BY <2>2, <3>1, IdRead
      <4>2. cut = (<<f>> \o Varint[m.id]) \o t
        BY <2>4, <3>1, Zenon
      <4> QED
        BY <4>1, <4>2, Zenon
    <3>3. ReadHead(cut, signed) =
             LET end == VarintEnd(Drop(cut, 1))
                 route == ReadRoute(cut[1], Drop(cut, 1 + end), signed)
             IN  IF end = 0 \/ ~route.ok THEN NotRead
                 ELSE DoneRead([type |-> Types[(cut[1] \div 2) + 1],
                                id |-> Sevens(SubSeq(cut, 2, end + 1)) % UInt,
                                route |-> route.value], route.rest)
      BY <2>5, <2>7, <2>8, HeadWithId, Zenon
    <3> QED
      BY <2>5, <2>6, <3>2, <3>3, Zenon
  <2>9. CASE ~HasId(m.type)
    <3>1. id = <<>>
      BY <2>9, Zenon DEF IdBytes
    <3>2. Drop(cut, 1 + 0) = t
      BY <2>2, <2>4, <3>1, NoIdRead
    <3>3. ReadHead(cut, signed) =
             LET route == ReadRoute(cut[1], Drop(cut, 1 + 0), signed)
             IN  IF ~route.ok THEN NotRead
                 ELSE DoneRead([type |-> Types[(cut[1] \div 2) + 1], id |-> 0,
                                route |-> route.value], route.rest)
      BY <2>5, <2>7, <2>9, HeadWithoutId, Zenon
    <3> QED
      BY <2>5, <2>6, <3>2, <3>3, Zenon
  <2> QED
    BY <2>8, <2>9
<1> QED
  BY <1>7, <1>8, <1>9

-----------------------------------------------------------------------------
(* Fields of protobuf.                                                     *)

Streams == [ok : BOOLEAN, bytes : Seq(Octet), max_size : Int]

\* What a field of this type may have as its value; a uInt32 is taken modulo ULong, and
\* what is below 0 comes back as it is there.
IsScalar(type, value) ==
    \/ type = "uInt32" /\ \E n \in Int : value = Number(n)
    \/ type \in {"int32", "sInt32"} /\ \E n \in Int : value = Number(n) /\ ZigZag(n) < ULong
    \/ type \in {"float", "double"} /\ \E n \in Octet : value = Number(n)
    \/ type = "string" /\ \E s \in Seq(Octet) : value = Text(s) /\ Len(s) < UInt
Got(type, value) == IF type = "uInt32" THEN Number(value.number % ULong) ELSE value

ScalarBytes(type, value) ==
    CASE type = "uInt32" -> Varint[value.number % ULong]
      [] type \in {"int32", "sInt32"} -> Varint[ZigZag(value.number)]
      [] type \in {"float", "double"} -> Fixed(FixedSize(type), value.number)
      [] OTHER -> Varint[Len(value.text)] \o value.text

\* A stream that has room takes the bytes.
LEMMA Written8 ==
    ASSUME NEW out \in Streams, NEW b \in Seq(Octet)
    PROVE  /\ Put8(out, b) \in Streams
           /\ Put8(out, b).ok => out.ok /\ Put8(out, b).bytes = out.bytes \o b
<1>1. out.bytes \in Seq(Octet) /\ out.ok \in BOOLEAN
  BY DEF Streams
<1>2. out.bytes \o b \in Seq(Octet)
  BY <1>1, ConcatProperties
<1>3. CASE out.ok /\ Len(out.bytes) + Len(b) <= out.max_size
  <2>1. Put8(out, b) = [out EXCEPT !.bytes = out.bytes \o b]
    BY <1>3 DEF Put8
  <2> QED
    BY <1>2, <1>3, <2>1 DEF Streams
<1>4. CASE ~(out.ok /\ Len(out.bytes) + Len(b) <= out.max_size)
  <2>1. Put8(out, b) = [out EXCEPT !.ok = FALSE]
    BY <1>4 DEF Put8
  <2> QED
    BY <2>1 DEF Streams
<1> QED
  BY <1>3, <1>4

\* The bytes of a float or a double.
LEMMA FixedBytes ==
    ASSUME NEW n \in Octet, NEW size \in {4, 8}
    PROVE  Fixed(size, n) \in Seq(Octet) /\ Len(Fixed(size, n)) = size /\ Fixed(size, n)[1] = n
  BY DEF Fixed, Octet

\* What a value is encoded to.
LEMMA BytesOfScalar ==
    ASSUME NEW type \in Scalars, NEW value, IsScalar(type, value)
    PROVE  ScalarBytes(type, value) \in Seq(Octet)
<1>1. CASE type = "uInt32"
  <2>1. PICK n \in Int : value = Number(n)
    BY <1>1 DEF IsScalar
  <2>2. value.number % ULong \in Nat
    BY <2>1, WidthAssumption DEF Number
  <2> QED
    BY <1>1, <2>2, BytesOfVarint DEF ScalarBytes
<1>2. CASE type \in {"int32", "sInt32"}
  <2>1. PICK n \in Int : value = Number(n)
    BY <1>2 DEF IsScalar
  <2>2. ZigZag(value.number) \in Nat
    BY <2>1 DEF Number, ZigZag
  <2> QED
    BY <1>2, <2>2, BytesOfVarint DEF ScalarBytes
<1>3. CASE type \in {"float", "double"}
  <2>1. PICK n \in Octet : value = Number(n)
    BY <1>3 DEF IsScalar
  <2>2. value.number \in Octet
    BY <2>1 DEF Number
  <2> QED
    <3>1. FixedSize(type) \in {4, 8}
      BY DEF FixedSize
    <3> QED
      BY <1>3, <2>2, <3>1, FixedBytes DEF ScalarBytes
<1>4. CASE type = "string"
  <2>1. PICK s \in Seq(Octet) : value = Text(s)
    BY <1>4 DEF IsScalar
  <2>2. value.text \in Seq(Octet) /\ Len(value.text) \in Nat
    BY <2>1 DEF Text
  <2>3. Varint[Len(value.text)] \in Seq(Octet)
    BY <2>2, BytesOfVarint
  <2>4. Varint[Len(value.text)] \o value.text \in Seq(Octet)
    BY <2>2, <2>3, ConcatProperties
  <2> QED
    BY <1>4, <2>4 DEF ScalarBytes
<1> QED
  BY <1>1, <1>2, <1>3, <1>4 DEF Scalars, Numeric, Integral

LEMMA WrittenScalar ==
    ASSUME NEW type \in Scalars, NEW value, IsScalar(type, value), NEW out \in Streams
    PROVE  LET new == PutScalar(out, type, value)
           IN  /\ new \in Streams
               /\ new.ok => out.ok /\ new.bytes = out.bytes \o ScalarBytes(type, value)
<1> PICK b : b = ScalarBytes(type, value)
  OBVIOUS
<1>1. b \in Seq(Octet)
  BY BytesOfScalar
<1>2. CASE type # "string"
  <2>1. PutScalar(out, type, value) = Put8(out, b)
    BY <1>2, Zenon DEF PutScalar, ScalarBytes, Scalars, Numeric, Integral
  <2> QED
    BY <1>1, <2>1, Written8
<1>3. CASE type = "string"
  <2>1. PICK s \in Seq(Octet) : value = Text(s)
    BY <1>3 DEF IsScalar
  <2>2. value.text = s /\ Len(s) \in Nat
    BY <2>1 DEF Text
  <2> PICK v, mid : v = Varint[Len(s)] /\ mid = Put8(out, v)
    OBVIOUS
  <2>3. b = v \o s
    BY <1>3, <2>2 DEF ScalarBytes
  <2>4. PutScalar(out, type, value) = Put8(mid, s)
    BY <1>3, <2>2 DEF PutScalar
  <2>5. v \in Seq(Octet)
    BY <2>2, BytesOfVarint
  <2>6. mid \in Streams /\ (mid.ok => out.ok /\ mid.bytes = out.bytes \o v)
    BY <2>5, Written8
  <2>7. /\ Put8(mid, s) \in Streams
        /\ Put8(mid, s).ok => mid.ok /\ Put8(mid, s).bytes = mid.bytes \o s
    BY <2>6, Written8
  <2>8. out.bytes \in Seq(Octet)
    BY DEF Streams
  <2>9. (out.bytes \o v) \o s = out.bytes \o (v \o s)
    BY <2>5, <2>8, AssocOfBytes
  <2> QED
    BY <2>3, <2>4, <2>6, <2>7, <2>9
<1> QED
  BY <1>2, <1>3

\* Each case of a read, by itself.
LEMMA ReadNumber ==
    ASSUME NEW bytes, NEW n, NEW rest, ReadVarint(bytes) = DoneRead(n, rest)
    PROVE  ReadScalar("uInt32", bytes) = DoneRead(Number(n), rest)
  BY DEF ReadScalar, Then, DoneRead

LEMMA ReadSigned ==
    ASSUME NEW type \in {"int32", "sInt32"}, NEW bytes, NEW n, NEW rest,
           ReadVarint(bytes) = DoneRead(n, rest)
    PROVE  ReadScalar(type, bytes) = DoneRead(Number(UnZigZag(n)), rest)
  BY DEF ReadScalar, Then, DoneRead

LEMMA ReadReal ==
    ASSUME NEW type \in {"float", "double"}, NEW bytes, NEW n, NEW rest,
           ReadFixed(FixedSize(type), bytes) = DoneRead(n, rest)
    PROVE  ReadScalar(type, bytes) = DoneRead(Number(n), rest)
  BY DEF ReadScalar, Then, DoneRead

LEMMA ReadString ==
    ASSUME NEW bytes, NEW n, NEW more, ReadVarint32(bytes) = DoneRead(n, more),
           ~(Len(more) < n)
    PROVE  ReadScalar("string", bytes) = DoneRead(Text(SubSeq(more, 1, n)), Drop(more, n))
  BY DEF ReadScalar, Then, DoneRead

LEMMA ReadShort ==
    ASSUME NEW bytes, NEW n, NEW more, ReadVarint32(bytes) = DoneRead(n, more), Len(more) < n
    PROVE  ReadScalar("string", bytes) = NotRead
  BY DEF ReadScalar, Then, DoneRead

\* A number or a string that is encoded is decoded, and what follows it is left
\* (pb_encode_proto, pb_decode_proto).
THEOREM ScalarsArrive ==
    ASSUME NEW type \in Scalars, NEW value, IsScalar(type, value), NEW rest \in Seq(Octet)
    PROVE  ReadScalar(type, ScalarBytes(type, value) \o rest) = DoneRead(Got(type, value), rest)
<1> PICK bytes : bytes = ScalarBytes(type, value) \o rest
  OBVIOUS
<1>1. CASE type = "uInt32"
  <2>1. PICK n \in Int : value = Number(n)
    BY <1>1 DEF IsScalar
  <2>2. value.number % ULong \in 0 .. ULong - 1
    BY <2>1, WidthAssumption DEF Number
  <2>3. ReadVarint(bytes) = DoneRead(value.number % ULong, rest)
    BY <1>1, <2>2, NumbersArrive DEF ScalarBytes
  <2>4. ReadScalar(type, bytes) = DoneRead(Number(value.number % ULong), rest)
    BY <1>1, <2>3, ReadNumber
  <2> QED
    BY <1>1, <2>4 DEF Got
<1>2. CASE type \in {"int32", "sInt32"}
  <2>1. PICK n \in Int : value = Number(n) /\ ZigZag(n) < ULong
    BY <1>2 DEF IsScalar
  <2>2. value.number = n
    BY <2>1 DEF Number
  <2>3. ReadVarint(bytes) = DoneRead(ZigZag(n), rest) /\ UnZigZag(ZigZag(n)) = n
    BY <1>2, <2>1, <2>2, SignsArrive DEF ScalarBytes
  <2>4. ReadScalar(type, bytes) = DoneRead(Number(n), rest)
    BY <1>2, <2>3, ReadSigned
  <2> QED
    BY <1>2, <2>1, <2>4 DEF Got
<1>3. CASE type \in {"float", "double"}
  <2>1. PICK n \in Octet : value = Number(n)
    BY <1>3 DEF IsScalar
  <2>2. PICK size \in {4, 8} : size = FixedSize(type)
    BY DEF FixedSize
  <2> PICK b : b = Fixed(size, n)
    OBVIOUS
  <2>3. ScalarBytes(type, value) = b
    BY <1>3, <2>1, <2>2 DEF ScalarBytes, Number
  <2>4. b \in Seq(Octet) /\ Len(b) = size /\ b[1] = n
    BY <2>2, FixedBytes
  <2>5. Len(bytes) >= size /\ bytes[1] = n
    BY <2>2, <2>3, <2>4, ConcatProperties
  <2>6. Drop(bytes, size) = rest
    <3>1. Drop(b \o rest, Len(b)) = rest
      BY <2>4, Halves
    <3> QED
      BY <2>3, <2>4, <3>1
  <2>7. ReadFixed(size, bytes) = DoneRead(n, rest)
    BY <2>2, <2>5, <2>6, ConcatProperties DEF ReadFixed
  <2>8. ReadScalar(type, bytes) = DoneRead(Number(n), rest)
    BY <1>3, <2>2, <2>7, ReadReal
  <2> QED
    BY <1>3, <2>1, <2>8 DEF Got
<1>4. CASE type = "string"
  <2>1. PICK s \in Seq(Octet) : value = Text(s) /\ Len(s) < UInt
    BY <1>4 DEF IsScalar
  <2>2. Len(s) \in 0 .. ULong - 1 /\ value.text = s
    BY <2>1, WidthAssumption DEF Text
  <2> PICK v, more : v = Varint[Len(s)] /\ more = s \o rest
    OBVIOUS
  <2>3. v \in Seq(Octet) /\ more \in Seq(Octet) /\ Len(more) = Len(s) + Len(rest)
    BY <2>2, BytesOfVarint, ConcatProperties
  <2>4. bytes = v \o more
    <3>1. ScalarBytes(type, value) = v \o s
      BY <1>4, <2>2 DEF ScalarBytes
    <3>2. (v \o s) \o rest = v \o (s \o rest)
      BY <2>3, AssocOfBytes, ZenonT(60)
    <3> QED
      BY <3>1, <3>2
  <2>5. ReadVarint32(bytes) = DoneRead(Len(s), more)
    BY <2>1, <2>2, <2>3, <2>4, NumbersArrive
  <2>6. SubSeq(more, 1, Len(s)) = s /\ Drop(more, Len(s)) = rest
    BY Halves
  <2>7. ~(Len(more) < Len(s))
    BY <2>3
  <2>8. ReadScalar(type, bytes) = DoneRead(Text(s), rest)
    BY <1>4, <2>5, <2>6, <2>7, ReadString
  <2> QED
    BY <1>4, <2>1, <2>8 DEF Got
<1> QED
  BY <1>1, <1>2, <1>3, <1>4 DEF Scalars, Numeric, Integral

\* A sequence of steps, each from what the one before it left.
LEMMA Recursion ==
    ASSUME NEW X, NEW x0 \in X, NEW n \in Nat, NEW move \in [1 .. n -> [X -> X]]
    PROVE  \E f \in [0 .. n -> X] : f[0] = x0 /\ \A k \in 1 .. n : f[k] = move[k][f[k - 1]]
<1> DEFINE Is(f, m) == f[0] = x0 /\ \A k \in 1 .. m : f[k] = move[k][f[k - 1]]
           T == {m \in 0 .. n : ~\E f \in [0 .. m -> X] : Is(f, m)}
<1>1. 0 \notin T
  <2>1. [k \in 0 .. 0 |-> x0] \in [0 .. 0 -> X] /\ Is([k \in 0 .. 0 |-> x0], 0)
    OBVIOUS
  <2> HIDE DEF Is
  <2> QED
    BY <2>1
<1>2. ASSUME NEW m \in 1 .. n, m - 1 \notin T PROVE m \notin T
  <2>1. PICK f \in [0 .. m - 1 -> X] : Is(f, m - 1)
    <3> HIDE DEF Is
    <3>1. m - 1 \in 0 .. n
      OBVIOUS
    <3> QED
      BY <1>2, <3>1
  <2> DEFINE g == [k \in 0 .. m |-> IF k = m THEN move[m][f[m - 1]] ELSE f[k]]
  <2>2. m \in Nat /\ m - 1 \in 0 .. m - 1 /\ m \in 1 .. n
    OBVIOUS
  <2>3. g \in [0 .. m -> X]
    <3>1. move[m][f[m - 1]] \in X
      BY <2>2
    <3>2. \A k \in 0 .. m : k # m => f[k] \in X
      BY <2>2
    <3> QED
      BY <3>1, <3>2
  <2>4. g[m] = move[m][f[m - 1]] /\ \A k \in 0 .. m - 1 : g[k] = f[k]
    BY <2>2
  <2> HIDE DEF g
  <2>5. ASSUME NEW k \in 1 .. m PROVE g[k] = move[k][g[k - 1]]
    <3>1. k - 1 \in 0 .. m - 1 /\ g[k - 1] = f[k - 1]
      BY <2>2, <2>4
    <3>2. CASE k = m
      BY <2>4, <3>1, <3>2
    <3>3. CASE k # m
      <4>1. k \in 0 .. m - 1 /\ k \in 1 .. m - 1
        BY <2>2, <3>3
      <4> QED
        BY <2>1, <2>4, <3>1, <4>1
    <3> QED
      BY <3>2, <3>3
  <2>6. g[0] = x0
    BY <2>1, <2>2, <2>4
  <2>7. Is(g, m)
    BY <2>5, <2>6
  <2> HIDE DEF Is
  <2> QED
    BY <2>3, <2>7
<1>3. T = {}
  <2> HIDE DEF Is
  <2>1. T \subseteq 0 .. n
    OBVIOUS
  <2> HIDE DEF T
  <2> QED
    BY <1>1, <1>2, <2>1, NoneFails
<1>4. n \notin T /\ n \in 0 .. n
  <2> HIDE DEF T
  <2> QED
    BY <1>3
<1> HIDE DEF Is
<1>5. \E f \in [0 .. n -> X] : Is(f, n)
  BY <1>4
<1> QED
  BY <1>5 DEF Is

TagBytes(field) == Varint[WireType(field.type) + 8 * field.tag]

LEMMA TagIsBytes ==
    ASSUME NEW field, field.tag \in Nat
    PROVE  /\ TagBytes(field) \in Seq(Octet)
           /\ WireType(field.type) \in 0 .. 7
           /\ WireType(field.type) + 8 * field.tag \in Nat
<1>1. WireType(field.type) \in 0 .. 7
  BY DEF WireType
<1>2. WireType(field.type) + 8 * field.tag \in Nat
  BY <1>1
<1> QED
  BY <1>1, <1>2, BytesOfVarint DEF TagBytes

\* What the items after the k-th are encoded to.
AreSuffixes(Q, type, items, n) ==
    /\ Q \in [0 .. n -> Seq(Octet)] /\ Q[n] = <<>>
    /\ \A k \in 1 .. n : Q[k - 1] = ScalarBytes(type, items[k]) \o Q[k]

AreScalars(type, items, n) ==
    n \in Nat /\ Len(items) = n /\ \A k \in 1 .. n : IsScalar(type, items[k])

\* What was written before and after each item.
AreStages(h, out, field, items, n) ==
    /\ h \in [0 .. n -> Streams]
    /\ h[n] = PutPacked(out, field, items)
    /\ h[0] = Put8(PutTag(out, field), Varint[n])
    /\ \A k \in 1 .. n : h[k] = PutScalar(h[k - 1], field.type, items[k])

LEMMA StagesOfPacked ==
    ASSUME NEW field, field.type \in Scalars, field.tag \in Nat,
           NEW items, NEW n, AreScalars(field.type, items, n), NEW out \in Streams
    PROVE  \E h : AreStages(h, out, field, items, n)
<1> PICK head : head = Put8(PutTag(out, field), Varint[n])
  OBVIOUS
<1> PICK type \in Scalars : type = field.type
  OBVIOUS
<1>0. n \in Nat /\ Len(items) = n /\ \A k \in 1 .. n : IsScalar(type, items[k])
  BY DEF AreScalars
<1>1. head \in Streams
  <2>1. PutTag(out, field) \in Streams
    BY TagIsBytes, Written8 DEF PutTag, TagBytes
  <2> QED
    BY <1>0, <2>1, BytesOfVarint, Written8
<1>2. \A k \in 1 .. n : \A o \in Streams : PutScalar(o, type, items[k]) \in Streams
  BY <1>0, WrittenScalar
<1> DEFINE move == [k \in 1 .. n |-> [o \in Streams |-> PutScalar(o, type, items[k])]]
<1>3. move \in [1 .. n -> [Streams -> Streams]]
  BY <1>2
<1>4. \A k \in 1 .. n : \A o \in Streams : move[k][o] = PutScalar(o, type, items[k])
  OBVIOUS
<1> HIDE DEF move
<1>5. PICK f \in [0 .. n -> Streams] : f[0] = head /\ \A k \in 1 .. n : f[k] = move[k][f[k - 1]]
  BY <1>0, <1>1, <1>3, Recursion, SMTT(60)
<1>6. \A k \in 1 .. n : f[k] = PutScalar(f[k - 1], type, items[k])
  <2> TAKE k \in 1 .. n
  <2>1. f[k - 1] \in Streams
    <3>1. k - 1 \in 0 .. n
      BY <1>0
    <3> QED
      BY <1>5, <3>1
  <2> QED
    BY <1>4, <1>5, <2>1
<1> DEFINE Step(g, k) == IF k = 0 THEN head ELSE PutScalar(g[k - 1], type, items[k])
           Is(g) == g = [k \in 0 .. n |-> Step(g, k)]
           h == CHOOSE g : Is(g)
<1>7. Is(f)
  <2>1. \A k \in 0 .. n : f[k] = Step(f, k)
    <3> TAKE k \in 0 .. n
    <3>1. CASE k = 0
      BY <1>5, <3>1
    <3>2. CASE k # 0
      <4>1. k \in 1 .. n
        BY <1>0, <3>2
      <4> QED
        BY <1>6, <3>2, <4>1
    <3> QED
      BY <3>1, <3>2
  <2>2. f = [k \in 0 .. n |-> f[k]]
    OBVIOUS
  <2> HIDE DEF Step
  <2> QED
    BY <2>1, <2>2
<1>8. Is(h)
  <2> HIDE DEF Is
  <2> QED
    BY <1>7
<1>9. PutPacked(out, field, items) = h[n]
  <2>1. Len(items) = n
    BY <1>0
  <2> QED
    BY <2>1 DEF PutPacked
<1> HIDE DEF h
<1>10. \A k \in 0 .. n : h[k] = Step(h, k)
  <2> HIDE DEF Step
  <2> QED
    BY <1>8
<1>11. h[0] = head /\ \A k \in 1 .. n : h[k] = PutScalar(h[k - 1], type, items[k])
  <2>1. 0 \in 0 .. n /\ \A k \in 1 .. n : k \in 0 .. n /\ k # 0
    BY <1>0
  <2> QED
    BY <1>10, <2>1
<1>12. \A k \in 0 .. n : h[k] \in Streams
  <2> DEFINE T == {k \in 0 .. n : h[k] \notin Streams}
  <2>1. 0 \notin T
    BY <1>1, <1>11
  <2>2. \A k \in 1 .. n : k - 1 \notin T => k \notin T
    <3> TAKE k \in 1 .. n
    <3>1. k - 1 \in 0 .. n
      BY <1>0
    <3> QED
      BY <1>2, <1>11, <3>1
  <2>3. T \subseteq 0 .. n
    OBVIOUS
  <2>4. T = {}
    <3> HIDE DEF T
    <3> QED
      BY <1>0, <2>1, <2>2, <2>3, NoneFails
  <2> QED
    BY <2>4
<1>13. h \in [0 .. n -> Streams]
  <2>1. h = [k \in 0 .. n |-> Step(h, k)]
    BY <1>8
  <2> HIDE DEF Step
  <2>2. h = [k \in 0 .. n |-> h[k]]
    BY <1>10, <2>1
  <2> QED
    BY <1>12, <2>2
<1> QED
  BY <1>9, <1>11, <1>13 DEF AreStages

LEMMA BytesJoined ==
    \A a, b \in Seq(Octet) : a \o b \in Seq(Octet) /\ Drop(a \o b, Len(a)) = b
  BY ConcatProperties, Halves

\* y is x with s behind it; q is what is left of all behind x.
IsMore(x, s, y) == x \in Seq(Octet) /\ s \in Seq(Octet) /\ y = x \o s
IsRest(all, x, q) == x \in Seq(Octet) /\ q \in Seq(Octet) /\ all = x \o q

LEMMA RestOfMore ==
    ASSUME NEW x, NEW s, NEW y, IsMore(x, s, y), NEW all, NEW q, IsRest(all, y, q)
    PROVE  IsRest(all, x, s \o q)
<1>1. x \in Seq(Octet) /\ s \in Seq(Octet) /\ q \in Seq(Octet) /\ all = (x \o s) \o q
  BY DEF IsMore, IsRest
<1>2. s \o q \in Seq(Octet)
  BY <1>1, BytesJoined
<1>3. (x \o s) \o q = x \o (s \o q)
  BY <1>1, AssocOfBytes
<1> QED
  BY <1>1, <1>2, <1>3 DEF IsRest

LEMMA RestIsDropped ==
    ASSUME NEW all, NEW x, NEW q, IsRest(all, x, q)
    PROVE  q = Drop(all, Len(x))
<1>1. x \in Seq(Octet) /\ q \in Seq(Octet) /\ all = x \o q
  BY DEF IsRest
<1> QED
  BY <1>1, BytesJoined

\* Q are the items behind the tag and the number of items.
WritesItems(Q, out, field, items, n) ==
    /\ AreSuffixes(Q, field.type, items, n)
    /\ PutPacked(out, field, items).bytes =
         out.bytes \o (TagBytes(field) \o (Varint[n] \o Q[0]))

\* What an array is encoded to: its tag, the number of its items, and the items.
LEMMA PackedWritten ==
    ASSUME NEW field, field.type \in Scalars, field.tag \in Nat,
           NEW items, NEW n, AreScalars(field.type, items, n), NEW out \in Streams,
           PutPacked(out, field, items).ok
    PROVE  \E Q : WritesItems(Q, out, field, items, n)
<1> PICK type \in Scalars : type = field.type
  OBVIOUS
<1> n \in Nat /\ Len(items) = n /\ \A k \in 1 .. n : IsScalar(type, items[k])
  BY DEF AreScalars
<1>0. PICK h : AreStages(h, out, field, items, n)
  BY StagesOfPacked, Zenon
<1> /\ h \in [0 .. n -> Streams]
    /\ h[n] = PutPacked(out, field, items)
    /\ h[0] = Put8(PutTag(out, field), Varint[n])
    /\ \A k \in 1 .. n : h[k] = PutScalar(h[k - 1], type, items[k])
  BY <1>0 DEF AreStages
<1> DEFINE s(k) == ScalarBytes(type, items[k])
<1>1. \A k \in 0 .. n : h[k] \in Streams /\ h[k].bytes \in Seq(Octet)
  <2> TAKE k \in 0 .. n
  <2>1. h[k] \in Streams
    OBVIOUS
  <2> QED
    BY <2>1 DEF Streams
<1>2. \A k \in 1 .. n : s(k) \in Seq(Octet)
  BY BytesOfScalar
<1>3. \A k \in 1 .. n : h[k].ok => h[k - 1].ok /\ h[k].bytes = h[k - 1].bytes \o s(k)
  <2> TAKE k \in 1 .. n
  <2>0. PICK o, v : o = h[k - 1] /\ v = items[k]
    OBVIOUS
  <2>1. o \in Streams /\ IsScalar(type, v) /\ h[k] = PutScalar(o, type, v)
        /\ s(k) = ScalarBytes(type, v)
    BY <1>1, <2>0
  <2> HIDE DEF s
  <2>2. /\ PutScalar(o, type, v) \in Streams
        /\ PutScalar(o, type, v).ok =>
             o.ok /\ PutScalar(o, type, v).bytes = o.bytes \o ScalarBytes(type, v)
    BY <2>1, WrittenScalar
  <2> QED
    BY <2>1, <2>2, <2>0, Zenon
<1> HIDE DEF s
<1>4. \A k \in 0 .. n : h[k].ok
  <2> DEFINE T == {k \in 0 .. n : ~h[n - k].ok}
  <2>1. 0 \notin T
    OBVIOUS
  <2>2. \A k \in 1 .. n : k - 1 \notin T => k \notin T
    <3> SUFFICES ASSUME NEW k \in 1 .. n, k - 1 \notin T PROVE k \notin T
      OBVIOUS
    <3> PICK j : j = n - (k - 1)
      OBVIOUS
    <3>1. k - 1 \in 0 .. n /\ j \in 1 .. n /\ j - 1 = n - k
      OBVIOUS
    <3>2. h[j].ok
      BY <3>1
    <3>3. h[j - 1].ok
      BY <1>3, <3>1, <3>2
    <3> QED
      BY <3>1, <3>3
  <2>3. T \subseteq 0 .. n
    OBVIOUS
  <2>4. T = {}
    <3> HIDE DEF T
    <3> QED
      BY <2>1, <2>2, <2>3, NoneFails
  <2>5. \A k \in 0 .. n : n - k \in 0 .. n /\ n - (n - k) = k
    OBVIOUS
  <2> QED
    BY <2>4, <2>5
<1>5. \A k \in 1 .. n : IsMore(h[k - 1].bytes, s(k), h[k].bytes)
  <2> TAKE k \in 1 .. n
  <2>1. k - 1 \in 0 .. n /\ k \in 0 .. n
    OBVIOUS
  <2> QED
    BY <1>1, <1>2, <1>3, <1>4, <2>1, Zenon DEF IsMore
<1> PICK all : all = h[n].bytes
  OBVIOUS
<1>6. IsRest(all, h[n].bytes, <<>>)
  <2>1. h[n].bytes \in Seq(Octet)
    BY <1>1
  <2> QED
    BY <2>1, ConcatEmptySeq DEF IsRest
<1> DEFINE T == {k \in 0 .. n : ~\E q : IsRest(all, h[n - k].bytes, q)}
<1>7. T = {}
  <2>1. 0 \notin T
    <3>1. n - 0 = n
      OBVIOUS
    <3> QED
      BY <1>6, <3>1
  <2>2. \A k \in 1 .. n : k - 1 \notin T => k \notin T
    <3> SUFFICES ASSUME NEW k \in 1 .. n, k - 1 \notin T PROVE k \notin T
      OBVIOUS
    <3> PICK j : j = n - (k - 1)
      OBVIOUS
    <3>1. k - 1 \in 0 .. n /\ j \in 1 .. n /\ j - 1 = n - k
      OBVIOUS
    <3>2. PICK q : IsRest(all, h[j].bytes, q)
      BY <3>1
    <3>3. IsRest(all, h[j - 1].bytes, s(j) \o q)
      BY <1>5, <3>1, <3>2, RestOfMore, Zenon
    <3> QED
      BY <3>1, <3>3
  <2>3. T \subseteq 0 .. n
    OBVIOUS
  <2> HIDE DEF T
  <2> QED
    BY <2>1, <2>2, <2>3, NoneFails
<1> DEFINE Q == [k \in 0 .. n |-> Drop(all, Len(h[k].bytes))]
<1>8. \A k \in 0 .. n : IsRest(all, h[k].bytes, Q[k])
  <2> TAKE k \in 0 .. n
  <2>1. n - k \in 0 .. n /\ n - (n - k) = k
    OBVIOUS
  <2>2. PICK q : IsRest(all, h[k].bytes, q)
    <3>1. n - k \notin T
      BY <1>7
    <3> QED
      BY <2>1, <3>1
  <2>3. Q[k] = q
    BY <2>2, RestIsDropped
  <2> HIDE DEF Q
  <2> QED
    BY <2>2, <2>3
<1>9. Q[n] = <<>>
  <2>1. n \in 0 .. n /\ Q[n] = Drop(all, Len(h[n].bytes))
    OBVIOUS
  <2> QED
    BY <1>6, <2>1, RestIsDropped, Zenon
<1>10. \A k \in 1 .. n : Q[k - 1] = s(k) \o Q[k]
  <2> TAKE k \in 1 .. n
  <2>1. k - 1 \in 0 .. n /\ k \in 0 .. n /\ Q[k - 1] = Drop(all, Len(h[k - 1].bytes))
    OBVIOUS
  <2> HIDE DEF Q
  <2>2. IsRest(all, h[k - 1].bytes, s(k) \o Q[k])
    BY <1>5, <1>8, <2>1, RestOfMore, Zenon
  <2> QED
    BY <2>1, <2>2, RestIsDropped, Zenon
<1>11. Q \in [0 .. n -> Seq(Octet)]
  <2>1. \A k \in 0 .. n : Q[k] \in Seq(Octet)
    BY <1>8, Zenon DEF IsRest
  <2> QED
    BY <2>1
<1> HIDE DEF Q
<1>12. IsRest(all, h[0].bytes, Q[0])
  <2>1. 0 \in 0 .. n
    OBVIOUS
  <2> QED
    BY <1>8, <2>1, Zenon
<1>13. AreSuffixes(Q, type, items, n)
  BY <1>9, <1>10, <1>11 DEF AreSuffixes, s
<1> PICK mid : mid = PutTag(out, field)
  OBVIOUS
<1>14. IsMore(out.bytes, TagBytes(field), mid.bytes) /\ IsMore(mid.bytes, Varint[n], h[0].bytes)
  <2>1. mid = Put8(out, TagBytes(field)) /\ TagBytes(field) \in Seq(Octet)
    BY TagIsBytes DEF PutTag, TagBytes
  <2>2. mid \in Streams /\ (mid.ok => mid.bytes = out.bytes \o TagBytes(field))
    BY <2>1, Written8
  <2>3. h[0].ok /\ h[0] = Put8(mid, Varint[n]) /\ Varint[n] \in Seq(Octet)
    BY <1>4, BytesOfVarint
  <2>4. Put8(mid, Varint[n]).ok =>
           mid.ok /\ Put8(mid, Varint[n]).bytes = mid.bytes \o Varint[n]
    BY <2>2, <2>3, Written8
  <2>5. out.bytes \in Seq(Octet) /\ mid.bytes \in Seq(Octet)
    BY <2>2 DEF Streams
  <2> QED
    BY <2>1, <2>2, <2>3, <2>4, <2>5, Zenon DEF IsMore
<1>15. all = out.bytes \o (TagBytes(field) \o (Varint[n] \o Q[0]))
  <2>1. IsRest(all, mid.bytes, Varint[n] \o Q[0])
    BY <1>12, <1>14, RestOfMore, Zenon
  <2>2. IsRest(all, out.bytes, TagBytes(field) \o (Varint[n] \o Q[0]))
    BY <1>14, <2>1, RestOfMore, Zenon
  <2> QED
    BY <2>2, Zenon DEF IsRest
<1> QED
  BY <1>13, <1>15 DEF WritesItems

\* The items are read one by one.
LEMMA PackedRead ==
    ASSUME NEW type \in Scalars, NEW items, NEW n, AreScalars(type, items, n), n < UInt,
           NEW Q, AreSuffixes(Q, type, items, n), NEW rest \in Seq(Octet)
    PROVE  ReadPacked(type, Varint[n] \o (Q[0] \o rest)) =
             DoneRead([k \in 1 .. n |-> Got(type, items[k])], rest)
<1> DEFINE V(k) == [j \in 1 .. k |-> Got(type, items[j])]
           r(k) == DoneRead(V(k), Q[k] \o rest)
           bytes == Varint[n] \o (Q[0] \o rest)
<1> n \in Nat /\ \A k \in 1 .. n : IsScalar(type, items[k])
  BY DEF AreScalars
<1>1. Q[0] \in Seq(Octet) /\ Q[0] \o rest \in Seq(Octet)
  BY BytesJoined DEF AreSuffixes
<1>2. n \in 0 .. ULong - 1
  BY WidthAssumption
<1>3. ReadVarint32(bytes) = DoneRead(n, Q[0] \o rest)
  BY <1>1, <1>2, NumbersArrive
<1> HIDE DEF bytes
<1>4. \A k \in 1 .. n :
         ReadScalar(type, Q[k - 1] \o rest) = DoneRead(Got(type, items[k]), Q[k] \o rest)
  <2> TAKE k \in 1 .. n
  <2> PICK s \in Seq(Octet), q \in Seq(Octet) : s = ScalarBytes(type, items[k]) /\ q = Q[k]
    BY BytesOfScalar DEF AreSuffixes
  <2>1. Q[k - 1] = s \o q
    BY DEF AreSuffixes
  <2>2. (s \o q) \o rest = s \o (q \o rest) /\ q \o rest \in Seq(Octet)
    <3>1. q \o rest \in Seq(Octet)
      BY BytesJoined
    <3>2. (s \o q) \o rest = s \o (q \o rest)
      BY AssocOfBytes
    <3> QED
      BY <3>1, <3>2
  <2>3. ReadScalar(type, s \o (q \o rest)) = DoneRead(Got(type, items[k]), q \o rest)
    BY <2>2, ScalarsArrive
  <2> QED
    BY <2>1, <2>2, <2>3
<1>5. \A k \in 1 .. n : Append(V(k - 1), Got(type, items[k])) = V(k)
  <2> TAKE k \in 1 .. n
  <2> DEFINE all == {Got(type, items[j]) : j \in 1 .. n}
             a == Append(V(k - 1), Got(type, items[k]))
  <2>1. V(k - 1) \in Seq(all) /\ Len(V(k - 1)) = k - 1 /\ Got(type, items[k]) \in all
    OBVIOUS
  <2>2. V(k) \in Seq(all) /\ Len(V(k)) = k
    OBVIOUS
  <2>3. a \in Seq(all) /\ Len(a) = k
    BY <2>1
  <2>4. \A j \in 1 .. k : a[j] = V(k)[j]
    BY <2>1
  <2> HIDE DEF a, V, all
  <2>5. a = V(k)
    BY <2>2, <2>3, <2>4, SeqEqual
  <2> QED
    BY <2>5 DEF a
<1> DEFINE Step(g, k) ==
             IF k = 0 THEN DoneRead(<<>>, Q[0] \o rest)
             ELSE LET x == g[k - 1]
                      v == ReadScalar(type, x.rest)
                  IN  IF x.ok /\ v.ok THEN DoneRead(Append(x.value, v.value), v.rest)
                      ELSE NotRead
           Is(g) == g = [k \in 0 .. n |-> Step(g, k)]
           f == [k \in 0 .. n |-> r(k)]
           h == CHOOSE g : Is(g)
<1>6. V(0) = <<>>
  OBVIOUS
<1>7. ASSUME NEW g, NEW k \in 1 .. n, g[k - 1] = r(k - 1) PROVE Step(g, k) = r(k)
  <2> HIDE DEF V
  <2>1. g[k - 1].ok /\ g[k - 1].value = V(k - 1) /\ g[k - 1].rest = Q[k - 1] \o rest
    BY <1>7 DEF DoneRead
  <2> HIDE DEF r
  <2> PICK v : v = ReadScalar(type, g[k - 1].rest)
    OBVIOUS
  <2>2. v.ok /\ v.value = Got(type, items[k]) /\ v.rest = Q[k] \o rest
    <3>1. v = DoneRead(Got(type, items[k]), Q[k] \o rest)
      BY <1>4, <2>1, Zenon
    <3> QED
      BY <3>1 DEF DoneRead
  <2> PICK x : x = g[k - 1]
    OBVIOUS
  <2>3. k # 0
    OBVIOUS
  <2>4. Step(g, k) = DoneRead(Append(x.value, v.value), v.rest)
    BY <2>1, <2>2, <2>3
  <2>5. Step(g, k) = DoneRead(Append(V(k - 1), Got(type, items[k])), Q[k] \o rest)
    BY <2>1, <2>2, <2>4, Zenon
  <2> QED
    BY <1>5, <2>5 DEF r
<1> HIDE DEF V
<1>8. r(0) = DoneRead(<<>>, Q[0] \o rest)
  BY <1>6
<1> HIDE DEF r
<1>9. Is(f)
  <2>1. \A k \in 0 .. n : f[k] = Step(f, k)
    <3> SUFFICES ASSUME NEW k \in 0 .. n PROVE r(k) = Step(f, k)
      OBVIOUS
    <3>1. CASE k = 0
      BY <1>8, <3>1
    <3>2. CASE k # 0
      <4>1. k \in 1 .. n /\ k - 1 \in 0 .. n
        BY <3>2
      <4>2. f[k - 1] = r(k - 1)
        BY <4>1
      <4> HIDE DEF f, Step
      <4> QED
        BY <1>7, <4>1, <4>2
    <3> QED
      BY <3>1, <3>2
  <2>2. f = [k \in 0 .. n |-> f[k]]
    OBVIOUS
  <2> HIDE DEF Step, f
  <2> QED
    BY <2>1, <2>2
<1>10. Is(h)
  <2> HIDE DEF Is, f
  <2> QED
    BY <1>9
<1>11. ReadPacked(type, bytes) = h[n]
  <2> PICK size : size = ReadVarint32(bytes)
    OBVIOUS
  <2>1. size.ok /\ size.value = n /\ size.rest = Q[0] \o rest
    BY <1>3 DEF DoneRead
  <2> QED
    BY <2>1 DEF ReadPacked
<1> HIDE DEF h, f
<1>12. \A k \in 0 .. n : h[k] = Step(h, k)
  <2> HIDE DEF Step
  <2> QED
    BY <1>10
<1> DEFINE T == {k \in 0 .. n : h[k] # r(k)}
<1>13. T = {}
  <2>1. 0 \notin T
    <3>1. 0 \in 0 .. n
      OBVIOUS
    <3> QED
      BY <1>8, <1>12, <3>1
  <2>2. \A k \in 1 .. n : k - 1 \notin T => k \notin T
    <3> HIDE DEF Step
    <3> TAKE k \in 1 .. n
    <3>1. k - 1 \in 0 .. n /\ k \in 0 .. n
      OBVIOUS
    <3> QED
      BY <1>7, <1>12, <3>1
  <2>3. T \subseteq 0 .. n
    OBVIOUS
  <2> HIDE DEF T
  <2> QED
    BY <2>1, <2>2, <2>3, NoneFails
<1>14. h[n] = r(n) /\ Q[n] \o rest = rest
  <2>1. n \in 0 .. n
    OBVIOUS
  <2>2. Q[n] = <<>> /\ <<>> \o rest = rest
    BY ConcatEmptySeq DEF AreSuffixes
  <2> QED
    BY <1>13, <2>1, <2>2
<1> QED
  BY <1>11, <1>14 DEF r, V, bytes

\* A field whose tag is a number of UInt.
IsField(field) ==
    /\ field.type \in Scalars /\ field.tag \in Nat \ {0}
    /\ 8 * field.tag + 7 < UInt

\* bytes begin with the tag of this field, and rest comes after it.
SaysField(bytes, field, rest) ==
    LET tag == ReadVarint32(bytes)
    IN  tag.ok /\ tag.value # 0 /\ tag.value \div 8 = field.tag /\ tag.rest = rest

LEMMA TagArrives ==
    ASSUME NEW field, IsField(field), NEW rest \in Seq(Octet)
    PROVE  SaysField(TagBytes(field) \o rest, field, rest)
<1> PICK t : t = WireType(field.type) + 8 * field.tag
  OBVIOUS
<1> PICK g : g = field.tag
  OBVIOUS
<1> PICK w : w = WireType(field.type)
  OBVIOUS
<1>1. g \in Nat \ {0} /\ 8 * g + 7 < UInt /\ w \in 0 .. 7 /\ t = w + 8 * g
  BY TagIsBytes DEF IsField
<1>2. t \in 0 .. ULong - 1 /\ t < UInt /\ t # 0
  BY <1>1, WidthAssumption, SMTT(60)
<1>3. t \div 8 = g
  BY <1>1, SMTT(60)
<1>4. ReadVarint32(TagBytes(field) \o rest) = DoneRead(t, rest)
  BY <1>2, NumbersArrive DEF TagBytes
<1> QED
  BY <1>2, <1>3, <1>4 DEF SaysField, DoneRead

\* A field that is written is found again by its tag, with its value, and what follows it is
\* left (pb_encode_tag_for_field and pb_encode_proto; pb_decode).
THEOREM FieldArrives ==
    ASSUME NEW field, IsField(field), NEW value, IsScalar(field.type, value),
           NEW out \in Streams, NEW rest \in Seq(Octet)
    PROVE  LET new == PutScalar(PutTag(out, field), field.type, value)
           IN  new.ok =>
                 \E bytes, more :
                    /\ new.bytes = out.bytes \o bytes
                    /\ SaysField(bytes \o rest, field, more)
                    /\ ReadScalar(field.type, more) = DoneRead(Got(field.type, value), rest)
<1> PICK mid, b, t : mid = PutTag(out, field) /\ b = ScalarBytes(field.type, value)
                     /\ t = TagBytes(field)
  OBVIOUS
<1> PICK new : new = PutScalar(mid, field.type, value)
  OBVIOUS
<1> SUFFICES ASSUME new.ok
             PROVE  \E bytes, more :
                      /\ new.bytes = out.bytes \o bytes
                      /\ SaysField(bytes \o rest, field, more)
                      /\ ReadScalar(field.type, more) = DoneRead(Got(field.type, value), rest)
  OBVIOUS
<1>1. field.type \in Scalars /\ field.tag \in Nat
  BY DEF IsField
<1>2. t \in Seq(Octet) /\ b \in Seq(Octet)
  BY <1>1, TagIsBytes, BytesOfScalar
<1>3. mid = Put8(out, t)
  BY DEF PutTag, TagBytes
<1>4. mid \in Streams /\ (mid.ok => mid.bytes = out.bytes \o t)
  BY <1>2, <1>3, Written8, ZenonT(60)
<1>5. mid.ok /\ new.bytes = mid.bytes \o b
  BY <1>1, <1>4, WrittenScalar
<1>6. IsMore(out.bytes, t, mid.bytes) /\ IsRest(new.bytes, mid.bytes, b)
  <2>1. out.bytes \in Seq(Octet) /\ mid.bytes \in Seq(Octet)
    BY <1>4 DEF Streams
  <2> QED
    BY <1>2, <1>4, <1>5, <2>1, Zenon DEF IsMore, IsRest
<1>7. IsRest(new.bytes, out.bytes, t \o b)
  BY <1>6, RestOfMore, Zenon
<1>8. b \o rest \in Seq(Octet)
  BY <1>2, BytesJoined
<1>9. (t \o b) \o rest = t \o (b \o rest)
  BY <1>2, AssocOfBytes
<1>10. SaysField((t \o b) \o rest, field, b \o rest)
  BY <1>8, <1>9, TagArrives
<1>11. ReadScalar(field.type, b \o rest) = DoneRead(Got(field.type, value), rest)
  BY <1>1, ScalarsArrive
<1>12. new.bytes = out.bytes \o (t \o b)
  BY <1>7 DEF IsRest
<1> QED
  BY <1>10, <1>11, <1>12

\* So is a packed array of at most UInt items (pb_encode_array, pb_decode_array).
THEOREM PackedArrives ==
    ASSUME NEW field, IsField(field), NEW items, NEW n, AreScalars(field.type, items, n),
           n < UInt, NEW out \in Streams, NEW rest \in Seq(Octet)
    PROVE  LET new == PutPacked(out, field, items)
           IN  new.ok =>
                 \E bytes, more :
                    /\ new.bytes = out.bytes \o bytes
                    /\ SaysField(bytes \o rest, field, more)
                    /\ ReadPacked(field.type, more) =
                         DoneRead([k \in 1 .. n |-> Got(field.type, items[k])], rest)
<1> PICK new : new = PutPacked(out, field, items)
  OBVIOUS
<1> SUFFICES ASSUME new.ok
             PROVE  \E bytes, more :
                      /\ new.bytes = out.bytes \o bytes
                      /\ SaysField(bytes \o rest, field, more)
                      /\ ReadPacked(field.type, more) =
                           DoneRead([k \in 1 .. n |-> Got(field.type, items[k])], rest)
  OBVIOUS
<1>1. field.type \in Scalars /\ field.tag \in Nat /\ n \in Nat
  BY DEF IsField, AreScalars
<1>2. PICK Q : /\ AreSuffixes(Q, field.type, items, n)
               /\ new.bytes = out.bytes \o (TagBytes(field) \o (Varint[n] \o Q[0]))
  <2>1. PutPacked(out, field, items).ok
    OBVIOUS
  <2>2. \E Q : WritesItems(Q, out, field, items, n)
    BY <1>1, <2>1, PackedWritten, Zenon
  <2> QED
    BY <2>2, Zenon DEF WritesItems
<1> PICK t, v, q : t = TagBytes(field) /\ v = Varint[n] /\ q = Q[0]
  OBVIOUS
<1>3. t \in Seq(Octet) /\ v \in Seq(Octet) /\ q \in Seq(Octet)
  <2>1. Q[0] \in Seq(Octet)
    BY <1>1, <1>2 DEF AreSuffixes
  <2> QED
    BY <1>1, <2>1, TagIsBytes, BytesOfVarint
<1>4. v \o q \in Seq(Octet) /\ q \o rest \in Seq(Octet)
  BY <1>3, BytesJoined
<1>5. v \o (q \o rest) \in Seq(Octet)
  BY <1>3, <1>4, BytesJoined
<1>6. (t \o (v \o q)) \o rest = t \o (v \o (q \o rest))
  <2>1. (v \o q) \o rest = v \o (q \o rest)
    BY <1>3, AssocOfBytes, ZenonT(60)
  <2>2. (t \o (v \o q)) \o rest = t \o ((v \o q) \o rest)
    <3>1. PICK w \in Seq(Octet) : w = v \o q
      BY <1>4
    <3>2. (t \o w) \o rest = t \o (w \o rest)
      BY <1>3, AssocOfBytes, SMTT(60)
    <3> QED
      BY <3>1, <3>2, Zenon
  <2> QED
    BY <2>1, <2>2
<1>7. SaysField((t \o (v \o q)) \o rest, field, v \o (q \o rest))
  BY <1>5, <1>6, TagArrives
<1>8. ReadPacked(field.type, v \o (q \o rest)) =
        DoneRead([k \in 1 .. n |-> Got(field.type, items[k])], rest)
  BY <1>1, <1>2, PackedRead
<1> QED
  BY <1>2, <1>7, <1>8

\* A value that is cut is refused (pb_decode_varint, pb_decode_fixed32, pb_read).
THEOREM CutScalarRefused ==
    ASSUME NEW type \in Scalars, NEW value, IsScalar(type, value),
           NEW k \in 0 .. Len(ScalarBytes(type, value)) - 1
    PROVE  ~ReadScalar(type, SubSeq(ScalarBytes(type, value), 1, k)).ok
<1> PICK b : b = ScalarBytes(type, value)
  OBVIOUS
<1> PICK cut : cut = SubSeq(b, 1, k)
  OBVIOUS
<1>1. b \in Seq(Octet) /\ k \in 0 .. Len(b) /\ k < Len(b) /\ Len(b) \in Nat
  <2>1. b \in Seq(Octet)
    BY BytesOfScalar
  <2> QED
    BY <2>1
<1>2. cut \in Seq(Octet) /\ Len(cut) = k
  BY <1>1, Prefix
<1>3. ASSUME NEW n \in Nat, NEW j \in 0 .. Len(Varint[n]) - 1
      PROVE  /\ ReadVarint(SubSeq(Varint[n], 1, j)) = NotRead
             /\ ReadVarint32(SubSeq(Varint[n], 1, j)) = NotRead
  <2> PICK c : c = SubSeq(Varint[n], 1, j)
    OBVIOUS
  <2>1. VarintEnd(c) = 0
    BY CutVarint
  <2>2. ReadVarint(c) = NotRead
    BY <2>1 DEF ReadVarint
  <2> QED
    BY <2>2 DEF ReadVarint32, NotRead
<1>4. CASE type \in Integral
  <2>1. PICK n \in Nat : b = Varint[n]
    <3>1. CASE type = "uInt32"
      <4>1. PICK m \in Int : value = Number(m)
        BY <3>1 DEF IsScalar
      <4>2. value.number % ULong \in Nat
        BY <4>1, WidthAssumption DEF Number
      <4> QED
        BY <3>1, <4>2 DEF ScalarBytes
    <3>2. CASE type \in {"int32", "sInt32"}
      <4>1. PICK m \in Int : value = Number(m)
        BY <3>2 DEF IsScalar
      <4>2. ZigZag(value.number) \in Nat
        BY <4>1 DEF Number, ZigZag
      <4> QED
        BY <3>2, <4>2 DEF ScalarBytes
    <3> QED
      BY <1>4, <3>1, <3>2 DEF Integral
  <2>2. ReadVarint(cut) = NotRead
    <3>1. k \in 0 .. Len(Varint[n]) - 1
      BY <2>1
    <3> QED
      BY <1>3, <2>1, <3>1
  <2>3. ReadScalar(type, cut) = NotRead
    BY <1>4, <2>2 DEF ReadScalar, Then, NotRead, Integral
  <2> QED
    BY <2>3 DEF NotRead
<1>5. CASE type \in {"float", "double"}
  <2>1. PICK m \in Octet : value = Number(m)
    BY <1>5 DEF IsScalar
  <2>2. FixedSize(type) \in {4, 8}
    BY DEF FixedSize
  <2> PICK size \in {4, 8} : size = FixedSize(type)
    BY <2>2
  <2>3. b = Fixed(size, m)
    BY <1>5, <2>1 DEF ScalarBytes, Number
  <2>4. Len(b) = FixedSize(type)
    <3>1. Len(Fixed(size, m)) = size
      BY FixedBytes
    <3> QED
      BY <2>3, <3>1, Zenon
  <2>5. ReadFixed(FixedSize(type), cut) = NotRead
    BY <1>1, <1>2, <2>4 DEF ReadFixed
  <2>6. ReadScalar(type, cut) = NotRead
    BY <1>5, <2>5 DEF ReadScalar, Then, NotRead
  <2> QED
    BY <2>6 DEF NotRead
<1>6. CASE type = "string"
  <2>1. PICK s \in Seq(Octet) : value = Text(s) /\ Len(s) < UInt
    BY <1>6 DEF IsScalar
  <2> PICK v : v = Varint[Len(s)]
    OBVIOUS
  <2>2. b = v \o s /\ v \in Seq(Octet) /\ Len(s) \in Nat /\ Len(v) \in Nat
        /\ Len(b) = Len(v) + Len(s)
    <3>1. value.text = s /\ Len(s) \in Nat
      BY <2>1 DEF Text
    <3>2. v \in Seq(Octet)
      BY <3>1, BytesOfVarint
    <3>3. b = v \o s
      BY <1>6, <3>1 DEF ScalarBytes
    <3> QED
      BY <3>1, <3>2, <3>3, ConcatProperties
  <2>3. CASE k < Len(v)
    <3>1. k \in 0 .. Len(v) /\ k \in 0 .. Len(v) - 1
      BY <2>2, <2>3
    <3>2. cut = SubSeq(v, 1, k)
      BY <2>2, <3>1, PrefixOfFirst
    <3>3. ReadVarint32(cut) = NotRead
      BY <1>3, <2>2, <3>1, <3>2
    <3>4. ReadScalar(type, cut) = NotRead
      BY <1>6, <3>3 DEF ReadScalar, Then, NotRead
    <3> QED
      BY <3>4 DEF NotRead
  <2>4. CASE ~(k < Len(v))
    <3> PICK j : j = k - Len(v)
      OBVIOUS
    <3>1. j \in 0 .. Len(s) /\ j < Len(s) /\ k = Len(v) + j
      BY <1>1, <2>2, <2>4
    <3> PICK c : c = SubSeq(s, 1, j)
      OBVIOUS
    <3>2. cut = v \o c
      BY <2>2, <3>1, PrefixOfConcat, ZenonT(60)
    <3>3. c \in Seq(Octet) /\ Len(c) = j
      BY <3>1, Prefix
    <3>4. Len(s) \in 0 .. ULong - 1
      BY <2>1, <2>2, WidthAssumption
    <3>5. ReadVarint32(cut) = DoneRead(Len(s), c)
      BY <2>1, <3>2, <3>3, <3>4, NumbersArrive
    <3>6. Len(c) < Len(s)
      BY <3>1, <3>3
    <3>7. ReadScalar(type, cut) = NotRead
      BY <1>6, <3>5, <3>6, ReadShort
    <3> QED
      BY <3>7 DEF NotRead
  <2> QED
    BY <2>3, <2>4
<1> QED
  BY <1>4, <1>5, <1>6 DEF Scalars, Numeric

===============================================================================
