---------------------------- MODULE Battle_proofs -----------------------------
(***************************************************************************)
(* Proofs about Battle, for any two armies of finitely many creatures:     *)
(* who wins, that a defeat is noticed, and how a creature may come to a    *)
(* stop.                                                                   *)
(***************************************************************************)
EXTENDS Battle, Queues_proofs, FiniteSetTheorems

-----------------------------------------------------------------------------
(* The invariant.                                                          *)

\* Whom a message is for and how it is sent, by its type.
Shaped(m) ==
    /\ m.type = "clear" => m.map = "delayed" /\ m.tar \in {"move", "charge"} /\ m.to = <<>>
    /\ m.type # "clear" => m.tar \in Creatures \cup {NoCreature}
    /\ m.type \in Chain \cup {"spellEnd"} => m.to = <<m.from>>
    /\ m.type \in {"hurt", "spellHurt", "freeze", "thaw"} => \E c \in Creatures : m.to = <<c>>
    /\ m.type \in Verdicts => m.map # "new"

\* Nothing is due between two frames.
Timely(m) == m.delay = 0 => m.map = "active" /\ updating

TypeInv == TypeOK /\ \A k \in DOMAIN msgs : Shaped(msgs[k]) /\ Timely(msgs[k])

IsVerdict(m) == m.type \in Verdicts
Verdict1(m) == IsVerdict(m) /\ m.map = "active"

\* Why there is a verdict, and who hears of it: all who are left, unless one has already.
Justified(m) ==
    /\ m.type = "allDie" => HeroesAlive(Side(m.from)) = {}
    /\ m.type = "timeOut" => frame > TimeLimit
    /\ IsVerdict(m) /\ (m.map = "delayed" \/ ~finished) =>
          \A c \in Creatures : IsAlive(c) => c \in ToSet(m.to)
    /\ Verdict1(m) => Winners \cap Side(m.from) = {}

VerdictInv ==
    /\ \A k \in DOMAIN msgs : Justified(msgs[k])
    /\ \A j, k \in DOMAIN msgs : Verdict1(msgs[j]) /\ Verdict1(msgs[k]) => j = k
    /\ Winners # {} => finished
    /\ FairVerdict

NobodyLeft == \A c \in Creatures : ~IsAlive(c)
VerdictOut == \E k \in DOMAIN msgs : IsVerdict(msgs[k])

NoticedInv ==
    (\E side \in {Friends, Enemies} : HeroesAlive(side) = {}) =>
        finished \/ NobodyLeft \/ VerdictOut

IsClearOf(m, c) == m.type = "clear" /\ m.from = c
Clearing(c) == \E k \in DOMAIN msgs : IsClearOf(msgs[k], c)

\* The messages that the rest of the frame has for a creature.
Hears(c) == {k \in Due : c \in ToSet(msgs[k].to)}

\* No frame has more messages for a creature than it remembers positions (30).
FewAtOnce == \A c \in Creatures : Cardinality(Hears(c)) <= HistoryPosCheck

\* Who has its orders cleared at the end of the frame is not at rest, and will not hear
\* often enough before that to take a rest.
KeepsMoving ==
    \A c \in Creatures : Clearing(c) /\ gstate[c] = "Alive" /\ ~finished =>
        state[c] # "Idle" /\ recent_pos[c] + Cardinality(Hears(c)) < HistoryPosCheck

\* What keeps a creature in a state going.
Wanted(st) == IF st = "Freezing" THEN {"thaw"} ELSE Awaits(st)

\* After all that clears a creature's orders comes a new one.
Redirected ==
    \A c \in Creatures : Clearing(c) =>
        \E k \in DOMAIN msgs :
            /\ msgs[k].type = "move" /\ msgs[k].map = "delayed" /\ msgs[k].to = <<c>>
            /\ \A j \in DOMAIN msgs : IsClearOf(msgs[j], c) => j < k

\* Until there is a verdict, each who has somebody to fight will go on.
Served ==
    ~finished /\ ~VerdictOut =>
        \A c \in Creatures : gstate[c] = "Alive" /\ Opponents(c) # {} =>
            \E k \in DOMAIN msgs : msgs[k].to = <<c>> /\ msgs[k].type \in Wanted(state[c])

-----------------------------------------------------------------------------
(* Sequences of receivers and of messages.                                 *)

\* A sequence of a set's members has them all.
LEMMA AllMembers ==
    ASSUME NEW S, IsFiniteSet(S)
    PROVE  SetToSeq(S) \in Seq(S) /\ \A x \in S : x \in ToSet(SetToSeq(S))
<1> DEFINE n == Cardinality(S)
           q == SetToSeq(S)
<1>1. n \in Nat /\ ExistsBijection(1 .. n, S)
  BY FS_CardinalityType
<1>2. PICK f \in Bijection(1 .. n, S) : TRUE
  BY <1>1 DEF ExistsBijection
<1>3. f \in [1 .. n -> S] /\ IsInjective(f)
  BY <1>2 DEF Bijection, Injection, IsInjective
<1>4. q \in [1 .. n -> S] /\ IsInjective(q)
  BY <1>3 DEF SetToSeq
<1> HIDE DEF q
<1>5. q \in Injection(1 .. n, S)
  BY <1>4 DEF Injection, IsInjective
<1>6. Cardinality(1 .. n) = n /\ IsFiniteSet(1 .. n)
  BY <1>1, FS_Interval
<1>7. q \in Surjection(1 .. n, S)
  BY <1>5, <1>6, FS_Injection
<1>8. q \in Seq(S)
  BY <1>1, <1>4
<1>9. \A x \in S : \E k \in 1 .. n : q[k] = x
  BY <1>7 DEF Surjection
<1> QED
  BY <1>4, <1>8, <1>9 DEF ToSet, q

LEMMA Removed ==
    ASSUME NEW Q, NEW queue \in Seq(Q), NEW i \in 1 .. Len(queue)
    PROVE  /\ RemoveAt(queue, i) \in Seq(Q) /\ Len(RemoveAt(queue, i)) = Len(queue) - 1
           /\ \A k \in 1 .. Len(queue) - 1 :
                 RemoveAt(queue, i)[k] = IF k < i THEN queue[k] ELSE queue[k + 1]
<1> DEFINE a == SubSeq(queue, 1, i - 1)
           b == SubSeq(queue, i + 1, Len(queue))
<1>1. Len(queue) \in Nat /\ i \in Nat /\ i >= 1 /\ i <= Len(queue)
  OBVIOUS
<1>2. a \in Seq(Q) /\ Len(a) = i - 1 /\ \A k \in 1 .. i - 1 : a[k] = queue[k]
  BY <1>1
<1>3. b \in Seq(Q) /\ Len(b) = Len(queue) - i
      /\ \A k \in 1 .. Len(queue) - i : b[k] = queue[i + k]
  BY <1>1
<1> HIDE DEF a, b
<1>4. /\ a \o b \in Seq(Q) /\ Len(a \o b) = Len(queue) - 1
      /\ \A k \in 1 .. Len(queue) - 1 : (a \o b)[k] = IF k <= i - 1 THEN a[k] ELSE b[k - (i - 1)]
  <2>1. /\ a \o b \in Seq(Q) /\ Len(a \o b) = Len(a) + Len(b)
        /\ \A k \in 1 .. Len(a) : (a \o b)[k] = a[k]
        /\ \A k \in 1 .. Len(b) : (a \o b)[Len(a) + k] = b[k]
    <3>1. a \in Seq(Q) /\ b \in Seq(Q)
      BY <1>2, <1>3
    <3> QED
      BY <3>1
  <2>2. Len(a) + Len(b) = Len(queue) - 1
    BY <1>1, <1>2, <1>3
  <2>3. ASSUME NEW k \in 1 .. Len(queue) - 1
        PROVE  (a \o b)[k] = IF k <= i - 1 THEN a[k] ELSE b[k - (i - 1)]
    <3>1. CASE k <= i - 1
      BY <1>1, <1>2, <2>1, <3>1
    <3>2. CASE ~(k <= i - 1)
      <4>1. k - (i - 1) \in 1 .. Len(b) /\ Len(a) + (k - (i - 1)) = k
        BY <1>1, <1>2, <1>3, <3>2
      <4> QED
        BY <2>1, <3>2, <4>1
    <3> QED
      BY <3>1, <3>2
  <2> QED
    BY <2>1, <2>2, <2>3
<1>5. ASSUME NEW k \in 1 .. Len(queue) - 1
      PROVE  (a \o b)[k] = IF k < i THEN queue[k] ELSE queue[k + 1]
  <2>1. CASE k < i
    <3>1. k \in 1 .. i - 1
      BY <1>1, <2>1
    <3> QED
      BY <1>2, <1>4, <2>1, <3>1
  <2>2. CASE ~(k < i)
    <3>1. k - (i - 1) \in 1 .. Len(queue) - i /\ i + (k - (i - 1)) = k + 1 /\ ~(k <= i - 1)
      BY <1>1, <2>2
    <3> QED
      BY <1>3, <1>4, <2>2, <3>1
  <2> QED
    BY <2>1, <2>2
<1> QED
  BY <1>4, <1>5 DEF RemoveAt, a, b

-----------------------------------------------------------------------------
(* What is left when a message is delivered.                               *)

Leftover ==
    IF Len(Msg.to) > 1 THEN [Msg EXCEPT !.to = Tail(@)]
    ELSE [Msg EXCEPT !.type = "thaw", !.delay = FreezeTime]

IsLeft == Len(Msg.to) > 1 \/ Msg.type = "freeze"

\* where[k] is where the k-th of the messages that are left has been.
Places(where) ==
    /\ where \in [1 .. Len(Rest) -> 1 .. Len(msgs)]
    /\ \A j, k \in 1 .. Len(Rest) : j < k => where[j] < where[k]
    /\ \A k \in 1 .. Len(Rest) :
          Rest[k] = IF where[k] = DueFirst THEN Leftover ELSE msgs[where[k]]
    /\ \A j \in 1 .. Len(msgs) : (j # DueFirst \/ IsLeft) <=> \E k \in 1 .. Len(Rest) : where[k] = j

LEMMA DueIsFirst ==
    ASSUME TypeInv, Due # {}
    PROVE  /\ DueFirst \in 1 .. Len(msgs) /\ Msg.map = "active" /\ Msg.delay = 0
           /\ Msg \in Messages /\ Shaped(Msg)
<1>1. msgs \in Seq(Messages) /\ DOMAIN msgs = 1 .. Len(msgs)
  BY DEF TypeInv, TypeOK
<1>2. Due \subseteq Nat
  BY <1>1 DEF Due
<1>3. \E i \in Due : \A j \in Due : i <= j
  BY <1>2, LeastOf
<1>4. DueFirst \in Due
  BY <1>3 DEF DueFirst
<1> QED
  BY <1>1, <1>4 DEF Due, Msg, TypeInv

LEMMA RestPlaces ==
    ASSUME TypeInv, Due # {}
    PROVE  Rest \in Seq(Messages) /\ \E where : Places(where)
<1>1. /\ msgs \in Seq(Messages) /\ DOMAIN msgs = 1 .. Len(msgs) /\ Len(msgs) \in Nat
      /\ DueFirst \in 1 .. Len(msgs) /\ Msg \in Messages /\ msgs[DueFirst] = Msg
  BY DueIsFirst DEF TypeInv, TypeOK, Msg
<1>2. CASE IsLeft
  <2>1. Leftover \in Messages
    <3>1. Len(Msg.to) > 1 => Tail(Msg.to) \in Seq(Creatures)
      BY <1>1 DEF Messages
    <3>2. FreezeTime \in Nat /\ "thaw" \in MessageTypes
      BY NumberAssumption DEF MessageTypes
    <3>3. \A m \in Messages : \A to \in Seq(Creatures) : [m EXCEPT !.to = to] \in Messages
      BY DEF Messages
    <3>4. \A m \in Messages : [m EXCEPT !.type = "thaw", !.delay = FreezeTime] \in Messages
      BY <3>2 DEF Messages
    <3> QED
      BY <1>1, <3>1, <3>3, <3>4 DEF Leftover
  <2>2. Rest = [msgs EXCEPT ![DueFirst] = Leftover]
    <3>1. CASE Len(Msg.to) > 1
      <4>1. ASSUME Msg.type = "freeze" PROVE FALSE
        <5>1. \E c \in Creatures : Msg.to = <<c>>
          BY <4>1, DueIsFirst DEF Shaped
        <5>2. \A c : Len(<<c>>) = 1
          OBVIOUS
        <5> QED
          BY <3>1, <5>1, <5>2
      <4> QED
        BY <3>1, <4>1 DEF Rest, Leftover
    <3>2. CASE ~(Len(Msg.to) > 1)
      <4>1. Msg.type = "freeze"
        BY <1>2, <3>2 DEF IsLeft
      <4> QED
        BY <3>2, <4>1 DEF Rest, Leftover
    <3> QED
      BY <3>1, <3>2
  <2>3. /\ Rest \in Seq(Messages) /\ Len(Rest) = Len(msgs)
        /\ \A k \in 1 .. Len(msgs) : Rest[k] = IF k = DueFirst THEN Leftover ELSE msgs[k]
    BY <1>1, <2>1, <2>2
  <2> DEFINE where == [k \in 1 .. Len(msgs) |-> k]
  <2>4. Places(where)
    BY <1>1, <1>2, <2>3 DEF Places
  <2> QED
    BY <2>3, <2>4
<1>3. CASE ~IsLeft
  <2>1. Rest = RemoveAt(msgs, DueFirst)
    BY <1>3 DEF Rest, IsLeft
  <2>2. /\ Rest \in Seq(Messages) /\ Len(Rest) = Len(msgs) - 1
        /\ \A k \in 1 .. Len(msgs) - 1 : Rest[k] = IF k < DueFirst THEN msgs[k] ELSE msgs[k + 1]
    BY <1>1, <2>1, Removed
  <2> DEFINE where == [k \in 1 .. Len(msgs) - 1 |-> IF k < DueFirst THEN k ELSE k + 1]
  <2>3. where \in [1 .. Len(Rest) -> 1 .. Len(msgs)]
    BY <1>1, <2>2
  <2>4. \A j, k \in 1 .. Len(Rest) : j < k => where[j] < where[k]
    BY <1>1, <2>2
  <2>5. \A k \in 1 .. Len(Rest) : where[k] # DueFirst /\ Rest[k] = msgs[where[k]]
    BY <1>1, <2>2
  <2>6. ASSUME NEW j \in 1 .. Len(msgs), j # DueFirst
        PROVE  \E k \in 1 .. Len(Rest) : where[k] = j
    <3>1. CASE j < DueFirst
      <4>1. j \in 1 .. Len(Rest) /\ where[j] = j
        BY <1>1, <2>2, <3>1
      <4> QED
        BY <4>1
    <3>2. CASE ~(j < DueFirst)
      <4>1. j - 1 \in 1 .. Len(Rest) /\ where[j - 1] = j
        BY <1>1, <2>2, <2>6, <3>2
      <4> QED
        BY <4>1
    <3> QED
      BY <3>1, <3>2
  <2> HIDE DEF where
  <2>7. Places(where)
    BY <1>3, <2>3, <2>4, <2>5, <2>6 DEF Places
  <2> QED
    BY <2>2, <2>7
<1> QED
  BY <1>2, <1>3

-----------------------------------------------------------------------------
(* The answers to a message.                                               *)

\* A message as it is sent.
Fresh(m) == m \in Messages /\ Shaped(m) /\ m.delay >= 1 /\ m.map # "active"

\* One that tells somebody to go on.
Plain(m) == Fresh(m) /\ m.type \notin Verdicts \cup {"clear"}

Sends(sent) ==
    /\ sent \in Seq(Messages) /\ \A k \in 1 .. Len(sent) : Fresh(sent[k])
    /\ msgs' = Rest \o sent

Typed ==
    /\ hp \in [Creatures -> 0 .. MaxHp] /\ state \in [Creatures -> States]
    /\ gstate \in [Creatures -> GlobalStates] /\ tar \in [Creatures -> Creatures \cup {NoCreature}]
    /\ recent_pos \in [Creatures -> 0 .. HistoryPosCheck] /\ finished \in BOOLEAN

\* Nobody dies and nobody wins.
Quiet(sent) ==
    /\ gstate' = gstate /\ finished' = finished
    /\ \A k \in 1 .. Len(sent) : ~IsVerdict(sent[k])

\* The receiver dies, and if need be all others are told.
IsLastHero == Me \in Heroes /\ HeroesAlive(Side(Me)) \subseteq {Me}

Death(sent) ==
    /\ gstate' = [gstate EXCEPT ![Me] = "Dying"] /\ finished' = finished
    /\ Msg.type \in {"hurt", "spellHurt"}
    /\ \A k \in 1 .. Len(sent) : IsVerdict(sent[k]) =>
          /\ IsLastHero /\ sent[k].type = "allDie" /\ sent[k].from = Me /\ sent[k].map = "delayed"
          /\ \A c \in Creatures \ {Me} : IsAlive(c) => c \in ToSet(sent[k].to)
    /\ IsLastHero => \E k \in 1 .. Len(sent) : IsVerdict(sent[k])

\* What keeps the receiver going is left alone or replaced.
Serves(sent) ==
    \/ state'[Me] = state[Me] /\ Msg.type \notin Wanted(state[Me])
    \/ \E k \in 1 .. Len(sent) : sent[k].to = <<Me>> /\ sent[k].type \in Wanted(state'[Me])
    \/ state'[Me] = "Freezing" /\ Msg.type = "freeze"
    \/ Opponents(Me) = {} \/ gstate'[Me] # "Alive" \/ finished'

\* An order follows the clearing of the receiver's orders.
Redirects(sent) ==
    \A j \in 1 .. Len(sent) : sent[j].type = "clear" =>
        /\ sent[j].from = Me
        /\ \E k \in 1 .. Len(sent) :
              /\ sent[k].type = "move" /\ sent[k].map = "delayed" /\ sent[k].to = <<Me>>
              /\ \A i \in 1 .. Len(sent) : sent[i].type = "clear" => i < k

\* Each message counts as one position, and a rest is taken only by who remembers them
\* all; a creature whose orders are to be cleared has just begun to move.
Counts(sent) ==
    /\ \A c \in Creatures \ {Me} : recent_pos'[c] = recent_pos[c]
    /\ recent_pos'[Me] \in {0, Remembers}
    /\ state'[Me] = "Idle" => state[Me] = "Idle" \/ Remembers = HistoryPosCheck \/ finished'
    /\ (\E k \in 1 .. Len(sent) : sent[k].type = "clear") =>
          (state'[Me] = "Move" /\ recent_pos'[Me] = 0) \/ gstate'[Me] # "Alive"

Answer(sent) ==
    /\ Me \in Creatures /\ Msg.to # <<>> /\ gstate[Me] = "Alive"
    /\ Sends(sent) /\ Typed' /\ UNCHANGED <<isReady, updating, frame>>
    /\ Quiet(sent) \/ Death(sent) \/ (End /\ sent = <<>>)
    /\ \A c \in Creatures \ {Me} : state'[c] = state[c]
    /\ Serves(sent) /\ Redirects(sent) /\ Counts(sent)

\* Nobody is killed.
Unharmed == hp' \in [Creatures -> 0 .. MaxHp] /\ UNCHANGED <<gstate, finished>>

LEMMA MeIsCreature ==
    ASSUME TypeInv, Due # {}, Msg.to # <<>>
    PROVE  Me \in Creatures
  BY DueIsFirst DEF Me, Messages

LEMMA OwnIsPlain ==
    ASSUME NEW type \in Chain \cup {"spellEnd"}, NEW c \in Creatures,
           NEW t \in Creatures \cup {NoCreature}
    PROVE  /\ Plain(Own(type, c, t)) /\ Own(type, c, t).to = <<c>> /\ Own(type, c, t).type = type
           /\ \A n \in Nat : n >= 1 =>
                 /\ Plain([Own(type, c, t) EXCEPT !.delay = n])
                 /\ [Own(type, c, t) EXCEPT !.delay = n].to = <<c>>
                 /\ [Own(type, c, t) EXCEPT !.delay = n].type = type
<1>1. type \in MessageTypes \ (Verdicts \cup {"clear", "hurt", "spellHurt", "freeze", "thaw"})
  BY DEF Chain, MessageTypes, Verdicts
<1>2. <<c>> \in Seq(Creatures) /\ "new" \in Maps
  BY DEF Maps
<1> DEFINE m == Own(type, c, t)
<1>3. m \in Messages /\ \A n \in Nat : [m EXCEPT !.delay = n] \in Messages
  BY <1>1, <1>2 DEF Own, Message, Messages
<1>4. /\ m.type = type /\ m.from = c /\ m.to = <<c>> /\ m.tar = t /\ m.delay = 1 /\ m.map = "new"
      /\ \A n : /\ [m EXCEPT !.delay = n].type = type /\ [m EXCEPT !.delay = n].from = c
               /\ [m EXCEPT !.delay = n].to = <<c>> /\ [m EXCEPT !.delay = n].tar = t
               /\ [m EXCEPT !.delay = n].delay = n /\ [m EXCEPT !.delay = n].map = "new"
  BY DEF Own, Message
<1> HIDE DEF m
<1>5. Plain(m)
  BY <1>1, <1>3, <1>4 DEF Plain, Fresh, Shaped, IsVerdict
<1>6. ASSUME NEW n \in Nat, n >= 1 PROVE Plain([m EXCEPT !.delay = n])
  BY <1>6, <1>1, <1>3, <1>4 DEF Plain, Fresh, Shaped, IsVerdict
<1> QED
  BY <1>4, <1>5, <1>6 DEF m

\* The receiver stays in its state, or enters another.
LEMMA StayTyped ==
    ASSUME TypeInv, Me \in Creatures, NEW t \in Creatures \cup {NoCreature}, NEW sent, Stay(t, sent)
    PROVE  /\ tar' \in [Creatures -> Creatures \cup {NoCreature}]
           /\ recent_pos' \in [Creatures -> 0 .. HistoryPosCheck]
           /\ state' \in [Creatures -> States] /\ state' = state
           /\ msgs' = Rest \o sent /\ UNCHANGED <<isReady, updating, frame>>
           /\ recent_pos'[Me] = Remembers
           /\ \A c \in Creatures \ {Me} : recent_pos'[c] = recent_pos[c]
<1>1. Remembers \in 0 .. HistoryPosCheck
  BY NumberAssumption DEF Remembers, TypeInv, TypeOK
<1> QED
  BY <1>1 DEF Stay, Reply, TypeInv, TypeOK

LEMMA EnterTyped ==
    ASSUME TypeInv, Me \in Creatures, NEW t \in Creatures \cup {NoCreature}, NEW sent,
           NEW st \in States, Enter(st, t, sent)
    PROVE  /\ tar' \in [Creatures -> Creatures \cup {NoCreature}]
           /\ recent_pos' \in [Creatures -> 0 .. HistoryPosCheck]
           /\ state' \in [Creatures -> States] /\ state'[Me] = st
           /\ \A c \in Creatures \ {Me} : state'[c] = state[c]
           /\ msgs' = Rest \o sent /\ UNCHANGED <<isReady, updating, frame>>
           /\ recent_pos'[Me] = IF st = "Move" THEN 0 ELSE Remembers
           /\ \A c \in Creatures \ {Me} : recent_pos'[c] = recent_pos[c]
<1>1. Remembers \in 0 .. HistoryPosCheck /\ 0 \in 0 .. HistoryPosCheck
  BY NumberAssumption DEF Remembers, TypeInv, TypeOK
<1>2. recent_pos' \in [Creatures -> 0 .. HistoryPosCheck]
  BY <1>1 DEF Enter, TypeInv, TypeOK
<1> QED
  BY <1>2 DEF Enter, Reply, TypeInv, TypeOK

\* An answer without harm to anybody.
LEMMA StayAnswer ==
    ASSUME TypeInv, Me \in Creatures, Msg.to # <<>>, gstate[Me] = "Alive",
           NEW t \in Creatures \cup {NoCreature}, NEW sent \in Seq(Messages), Stay(t, sent), Unharmed,
           \A k \in 1 .. Len(sent) : Plain(sent[k]),
           \/ Msg.type \notin Wanted(state[Me])
           \/ \E k \in 1 .. Len(sent) : sent[k].to = <<Me>> /\ sent[k].type \in Wanted(state[Me])
           \/ Opponents(Me) = {}
    PROVE  Answer(sent)
<1>1. /\ tar' \in [Creatures -> Creatures \cup {NoCreature}]
      /\ recent_pos' \in [Creatures -> 0 .. HistoryPosCheck]
      /\ state' \in [Creatures -> States] /\ state' = state
      /\ msgs' = Rest \o sent /\ UNCHANGED <<isReady, updating, frame>>
      /\ recent_pos'[Me] = Remembers
      /\ \A c \in Creatures \ {Me} : recent_pos'[c] = recent_pos[c]
  BY StayTyped
<1>2. Sends(sent) /\ Quiet(sent) /\ Redirects(sent) /\ Counts(sent)
  BY <1>1 DEF Sends, Quiet, Redirects, Unharmed, Plain, IsVerdict, Counts
<1>3. Typed'
  BY <1>1 DEF Typed, Unharmed, TypeInv, TypeOK
<1>4. Serves(sent)
  BY <1>1 DEF Serves
<1> QED
  BY <1>1, <1>2, <1>3, <1>4 DEF Answer

LEMMA EnterAnswer ==
    ASSUME TypeInv, Me \in Creatures, Msg.to # <<>>, gstate[Me] = "Alive",
           NEW t \in Creatures \cup {NoCreature}, NEW sent \in Seq(Messages), NEW st \in States,
           Enter(st, t, sent), Unharmed, \A k \in 1 .. Len(sent) : Plain(sent[k]),
           \/ \E k \in 1 .. Len(sent) : sent[k].to = <<Me>> /\ sent[k].type \in Wanted(st)
           \/ st = "Freezing" /\ Msg.type = "freeze",
           st = "Idle" => Remembers = HistoryPosCheck
    PROVE  Answer(sent)
<1>1. /\ tar' \in [Creatures -> Creatures \cup {NoCreature}]
      /\ recent_pos' \in [Creatures -> 0 .. HistoryPosCheck]
      /\ state' \in [Creatures -> States] /\ state'[Me] = st
      /\ \A c \in Creatures \ {Me} : state'[c] = state[c]
      /\ msgs' = Rest \o sent /\ UNCHANGED <<isReady, updating, frame>>
      /\ recent_pos'[Me] = IF st = "Move" THEN 0 ELSE Remembers
      /\ \A c \in Creatures \ {Me} : recent_pos'[c] = recent_pos[c]
  BY EnterTyped
<1>2. Sends(sent) /\ Quiet(sent) /\ Redirects(sent) /\ Counts(sent)
  BY <1>1 DEF Sends, Quiet, Redirects, Unharmed, Plain, IsVerdict, Counts
<1>3. Typed'
  BY <1>1 DEF Typed, Unharmed, TypeInv, TypeOK
<1>4. Serves(sent)
  BY <1>1 DEF Serves
<1> QED
  BY <1>1, <1>2, <1>3, <1>4 DEF Answer

\* An answer with one order.
LEMMA OneOrder ==
    ASSUME NEW m, Plain(m)
    PROVE  /\ <<m>> \in Seq(Messages) /\ \A k \in 1 .. Len(<<m>>) : Plain(<<m>>[k])
           /\ \A to, types : m.to = to /\ m.type \in types =>
                 \E k \in 1 .. Len(<<m>>) : <<m>>[k].to = to /\ <<m>>[k].type \in types
<1>1. m \in Messages /\ Len(<<m>>) = 1 /\ <<m>>[1] = m
  BY DEF Plain, Fresh
<1> QED
  BY <1>1

LEMMA Nothing ==
    /\ <<>> \in Seq(Messages) /\ Len(<<>>) = 0
    /\ \A k \in 1 .. Len(<<>>) : Plain(<<>>[k])
<1>1. <<>> \in Seq(Messages) /\ Len(<<>>) = 0
  OBVIOUS
<1> QED
  BY <1>1

\* Who receives a message, and whom it may be about.
LEMMA Received ==
    ASSUME TypeInv, NEW types, NEW states, Receive(types, states)
    PROVE  /\ Due # {} /\ Msg.to # <<>> /\ gstate[Me] = "Alive" /\ Me \in Creatures
           /\ Msg.type \in types /\ state[Me] \in states
           /\ tar[Me] \in Creatures \cup {NoCreature} /\ Msg.from \in Creatures
           /\ Msg.type # "clear" => Msg.tar \in Creatures \cup {NoCreature}
           /\ ~Lost(Msg.tar) => Msg.tar # NoCreature
           /\ Msg.val \in Nat /\ Msg.type \in MessageTypes
<1>1. Due # {} /\ Msg.to # <<>> /\ gstate[Me] = "Alive" /\ Msg.type \in types /\ state[Me] \in states
  BY DEF Receive, Delivering
<1>2. Me \in Creatures /\ Msg \in Messages /\ Shaped(Msg)
  BY <1>1, MeIsCreature, DueIsFirst
<1> QED
  BY <1>1, <1>2 DEF Messages, Shaped, Lost, TypeInv, TypeOK

LEMMA TargetsTyped ==
    ASSUME TypeInv, NEW c \in Creatures
    PROVE  Targets(c) \subseteq Creatures
  BY DEF Targets, Opponents, TypeInv, TypeOK

LEMMA Delays ==
    /\ IdleToMoveTime \in Nat /\ IdleToMoveTime >= 1 /\ AttackDelay \in Nat /\ AttackDelay >= 1
    /\ CastTime \in Nat /\ CastTime >= 1 /\ FreezeTime \in Nat /\ FreezeTime >= 1
  BY NumberAssumption

LEMMA WhatIsWanted ==
    /\ Wanted("Idle") = {"charge"} /\ Wanted("Move") = {"charge", "move"}
    /\ Wanted("Attack") = {"attack", "attackEnd"} /\ Wanted("Spelling") = {"spellEnd"}
    /\ Wanted("Freezing") = {"thaw"}
  BY DEF Wanted, Awaits

\* Each of the harmless answers.
LEMMA GoesOn ==
    ASSUME TypeInv, Me \in Creatures, Msg.to # <<>>, gstate[Me] = "Alive", Unharmed,
           NEW t \in Creatures \cup {NoCreature}, NEW m, Plain(m), m.to = <<Me>>,
           NEW st \in States, m.type \in Wanted(st),
           \/ Stay(t, <<m>>) /\ state[Me] = st
           \/ Enter(st, t, <<m>>) /\ (st = "Idle" => Remembers = HistoryPosCheck)
    PROVE  Answer(<<m>>)
<1>1. /\ <<m>> \in Seq(Messages) /\ \A k \in 1 .. Len(<<m>>) : Plain(<<m>>[k])
      /\ \E k \in 1 .. Len(<<m>>) : <<m>>[k].to = <<Me>> /\ <<m>>[k].type \in Wanted(st)
  BY OneOrder
<1> DEFINE sent == <<m>>
<1> HIDE DEF sent
<1>2. sent \in Seq(Messages) /\ (\A k \in 1 .. Len(sent) : Plain(sent[k]))
      /\ \E k \in 1 .. Len(sent) : sent[k].to = <<Me>> /\ sent[k].type \in Wanted(st)
  BY <1>1 DEF sent
<1>3. CASE Stay(t, <<m>>) /\ state[Me] = st
  BY <1>2, <1>3, StayAnswer DEF sent
<1>4. CASE Enter(st, t, <<m>>) /\ (st = "Idle" => Remembers = HistoryPosCheck)
  BY <1>2, <1>4, EnterAnswer DEF sent
<1> QED
  BY <1>3, <1>4

LEMMA AnswerIgnored ==
    ASSUME TypeInv, Ignored
    PROVE  \E sent : Answer(sent)
<1>1. Receive(Chain \cup {"spellEnd"}, States) /\ Msg.type \notin Awaits(state[Me])
      /\ Stay(tar[Me], <<>>) /\ Unharmed
  BY DEF Ignored, Unhurt, Unharmed, TypeInv, TypeOK
<1>2. Msg.type \in Chain \cup {"spellEnd"} /\ Me \in Creatures /\ Msg.to # <<>>
      /\ gstate[Me] = "Alive" /\ tar[Me] \in Creatures \cup {NoCreature}
  BY <1>1, Received
<1>3. Msg.type \notin Wanted(state[Me])
  BY <1>1, <1>2 DEF Wanted, Chain
<1>4. Answer(<<>>)
  BY <1>1, <1>2, <1>3, Nothing, StayAnswer
<1> QED
  BY <1>4

LEMMA AnswerRest ==
    ASSUME TypeInv, TrafficJam
    PROVE  \E sent : Answer(sent)
<1> DEFINE m == [Charge(Me) EXCEPT !.delay = IdleToMoveTime]
<1>1. Receive(Chain \cup {"spellEnd"}, {"Move"}) /\ Enter("Idle", tar[Me], <<m>>) /\ Unharmed
      /\ Remembers = HistoryPosCheck
  BY DEF TrafficJam, MayBeJammed, TakeRest, Unhurt, Unharmed, TypeInv, TypeOK
<1>2. /\ Me \in Creatures /\ Msg.to # <<>>
      /\ gstate[Me] = "Alive" /\ tar[Me] \in Creatures \cup {NoCreature}
  BY <1>1, Received
<1>3. Plain(m) /\ m.to = <<Me>> /\ m.type = "charge"
  BY <1>2, Delays, OwnIsPlain DEF Charge, Chain
<1> HIDE DEF m
<1>4. Answer(<<m>>)
  BY <1>1, <1>2, <1>3, WhatIsWanted, GoesOn DEF States
<1> QED
  BY <1>4

\* A creature sets out anew.
LEMMA SetsOut ==
    ASSUME TypeInv, Me \in Creatures, Msg.to # <<>>, gstate[Me] = "Alive", Unharmed,
           NEW t \in Creatures \cup {NoCreature}, Enter("Move", t, <<Charge(Me)>>)
    PROVE  \E sent : Answer(sent)
<1> DEFINE m == Charge(Me)
<1>1. Plain(m) /\ m.to = <<Me>> /\ m.type = "charge"
  BY OwnIsPlain DEF Charge, Chain
<1>2. Enter("Move", t, <<m>>)
  OBVIOUS
<1> HIDE DEF m
<1>3. Answer(<<m>>)
  BY <1>1, <1>2, WhatIsWanted, GoesOn DEF States
<1> QED
  BY <1>3

LEMMA AnswerSetsOut ==
    ASSUME TypeInv, IdleCharge \/ SpellEnd \/ Thaw
    PROVE  \E sent : Answer(sent)
<1>1. CASE IdleCharge
  <2>1. Receive({"charge"}, {"Idle"}) /\ Enter("Move", tar[Me], <<Charge(Me)>>) /\ Unharmed
    BY <1>1 DEF IdleCharge, Unhurt, Unharmed, TypeInv, TypeOK
  <2>2. /\ Me \in Creatures /\ Msg.to # <<>>
        /\ gstate[Me] = "Alive" /\ tar[Me] \in Creatures \cup {NoCreature}
    BY <2>1, Received
  <2> QED
    BY <2>1, <2>2, SetsOut
<1>2. CASE SpellEnd \/ Thaw
  <2>1. (Receive({"spellEnd"}, {"Spelling"}) \/ Receive({"thaw"}, States))
        /\ Enter("Move", NoCreature, <<Charge(Me)>>) /\ Unharmed
    BY <1>2 DEF SpellEnd, Thaw, Unhurt, Unharmed, TypeInv, TypeOK
  <2>2. Me \in Creatures /\ Msg.to # <<>> /\ gstate[Me] = "Alive"
    BY <2>1, Received
  <2> QED
    BY <2>1, <2>2, SetsOut
<1> QED
  BY <1>1, <1>2

LEMMA AnswerFreeze ==
    ASSUME TypeInv, Freeze
    PROVE  \E sent : Answer(sent)
<1>1. Receive({"freeze"}, States) /\ Enter("Freezing", tar[Me], <<>>) /\ Unharmed
  BY DEF Freeze, Unhurt, Unharmed, TypeInv, TypeOK
<1>2. /\ Me \in Creatures /\ Msg.to # <<>> /\ Msg.type = "freeze"
      /\ gstate[Me] = "Alive" /\ tar[Me] \in Creatures \cup {NoCreature}
  BY <1>1, Received
<1>3. "Freezing" \in States
  BY DEF States
<1>4. Answer(<<>>)
  BY <1>1, <1>2, <1>3, Nothing, EnterAnswer
<1> QED
  BY <1>4

LEMMA AnswerMoveCharge ==
    ASSUME TypeInv, MoveCharge
    PROVE  \E sent : Answer(sent)
<1>1. Receive({"charge"}, {"Move"}) /\ Unharmed
  BY DEF MoveCharge, Unhurt, Unharmed, TypeInv, TypeOK
<1>2. /\ Me \in Creatures /\ Msg.to # <<>> /\ state[Me] = "Move"
      /\ gstate[Me] = "Alive" /\ tar[Me] \in Creatures \cup {NoCreature}
  BY <1>1, Received
<1>3. ASSUME NEW t \in Creatures \cup {NoCreature}, NEW u \in Creatures \cup {NoCreature},
             Stay(t, <<Own("move", Me, u)>>)
      PROVE  \E sent : Answer(sent)
  <2> DEFINE m == Own("move", Me, u)
  <2>1. Plain(m) /\ m.to = <<Me>> /\ m.type = "move" /\ Stay(t, <<m>>)
    BY <1>2, <1>3, OwnIsPlain DEF Chain
  <2> HIDE DEF m
  <2>2. Answer(<<m>>)
    BY <1>1, <1>2, <2>1, WhatIsWanted, GoesOn DEF States
  <2> QED
    BY <2>2
<1>4. CASE \E t \in Targets(Me) : Stay(t, <<Own("move", Me, t)>>)
  BY <1>2, <1>3, <1>4, TargetsTyped
<1>5. CASE Stay(tar[Me], <<Charge(Me)>>)
  <2> DEFINE m == Charge(Me)
  <2>1. Plain(m) /\ m.to = <<Me>> /\ m.type = "charge" /\ Stay(tar[Me], <<m>>)
    BY <1>2, <1>5, OwnIsPlain DEF Charge, Chain
  <2> HIDE DEF m
  <2>2. Answer(<<m>>)
    BY <1>1, <1>2, <2>1, WhatIsWanted, GoesOn DEF States
  <2> QED
    BY <2>2
<1>6. CASE Opponents(Me) = {} /\ Stay(NoCreature, <<Own("move", Me, NoCreature)>>)
  BY <1>3, <1>6
<1>7. CASE Opponents(Me) = {} /\ Stay(tar[Me], <<>>)
  <2>1. Answer(<<>>)
    BY <1>1, <1>2, <1>7, Nothing, StayAnswer
  <2> QED
    BY <2>1
<1> QED
  BY <1>4, <1>5, <1>6, <1>7 DEF MoveCharge

\* The target of an order that is not lost is a creature.
LEMMA NotLost ==
    ASSUME TypeInv, NEW types, NEW states, Receive(types, states), "clear" \notin types, ~Lost(Msg.tar)
    PROVE  Msg.tar \in Creatures
  BY Received

LEMMA AnswerMoveTarget ==
    ASSUME TypeInv, MoveTarget
    PROVE  \E sent : Answer(sent)
<1>1. Receive({"move"}, {"Move"}) /\ Unharmed
  BY DEF MoveTarget, Unhurt, Unharmed, TypeInv, TypeOK
<1>2. /\ Me \in Creatures /\ Msg.to # <<>> /\ state[Me] = "Move"
      /\ gstate[Me] = "Alive" /\ tar[Me] \in Creatures \cup {NoCreature}
  BY <1>1, Received
<1>3. CASE Stay(NoCreature, <<Charge(Me)>>)
  <2> DEFINE m == Charge(Me)
  <2>1. Plain(m) /\ m.to = <<Me>> /\ m.type = "charge" /\ Stay(NoCreature, <<m>>)
    BY <1>2, <1>3, OwnIsPlain DEF Charge, Chain
  <2> HIDE DEF m
  <2>2. Answer(<<m>>)
    BY <1>1, <1>2, <2>1, WhatIsWanted, GoesOn DEF States
  <2> QED
    BY <2>2
<1>4. CASE ~Lost(Msg.tar) /\ Enter("Attack", Msg.tar, <<Own("attack", Me, Msg.tar)>>)
  <2> DEFINE m == Own("attack", Me, Msg.tar)
  <2>1. Msg.tar \in Creatures
    BY <1>1, <1>4, NotLost
  <2>2. Plain(m) /\ m.to = <<Me>> /\ m.type = "attack" /\ Enter("Attack", Msg.tar, <<m>>)
    BY <1>2, <1>4, <2>1, OwnIsPlain DEF Chain
  <2> HIDE DEF m
  <2>3. Answer(<<m>>)
    BY <1>1, <1>2, <2>1, <2>2, WhatIsWanted, GoesOn DEF States
  <2> QED
    BY <2>3
<1>5. ASSUME ~Lost(Msg.tar), NEW t \in Targets(Me) \cup {Msg.tar}, Stay(tar[Me], <<Own("move", Me, t)>>)
      PROVE  \E sent : Answer(sent)
  <2> DEFINE m == Own("move", Me, t)
  <2>1. t \in Creatures
    BY <1>1, <1>2, <1>5, NotLost, TargetsTyped
  <2>2. Plain(m) /\ m.to = <<Me>> /\ m.type = "move" /\ Stay(tar[Me], <<m>>)
    BY <1>2, <1>5, <2>1, OwnIsPlain DEF Chain
  <2> HIDE DEF m
  <2>3. Answer(<<m>>)
    BY <1>1, <1>2, <2>2, WhatIsWanted, GoesOn DEF States
  <2> QED
    BY <2>3
<1> QED
  BY <1>3, <1>4, <1>5 DEF MoveTarget

LEMMA AnswerAttack ==
    ASSUME TypeInv, Attack
    PROVE  \E sent : Answer(sent)
<1>1. Receive({"attack"}, {"Attack"}) /\ Unharmed
  BY DEF Attack, Unhurt, Unharmed, TypeInv, TypeOK
<1>2. /\ Me \in Creatures /\ Msg.to # <<>> /\ state[Me] = "Attack"
      /\ gstate[Me] = "Alive" /\ tar[Me] \in Creatures \cup {NoCreature}
  BY <1>1, Received
<1>3. CASE GiveUp
  BY <1>1, <1>2, <1>3, SetsOut DEF GiveUp
<1>4. CASE ~Lost(Msg.tar) /\ Enter("Move", tar[Me], <<Own("move", Me, Msg.tar)>>)
  <2> DEFINE m == Own("move", Me, Msg.tar)
  <2>1. Msg.tar \in Creatures
    BY <1>1, <1>4, NotLost
  <2>2. Plain(m) /\ m.to = <<Me>> /\ m.type = "move" /\ Enter("Move", tar[Me], <<m>>)
    BY <1>2, <1>4, <2>1, OwnIsPlain DEF Chain
  <2> HIDE DEF m
  <2>3. Answer(<<m>>)
    BY <1>1, <1>2, <2>2, WhatIsWanted, GoesOn DEF States
  <2> QED
    BY <2>3
<1>5. CASE /\ ~Lost(Msg.tar)
           /\ Stay(tar[Me], <<[Own("attackEnd", Me, Msg.tar) EXCEPT !.delay = AttackDelay]>>)
  <2> DEFINE m == [Own("attackEnd", Me, Msg.tar) EXCEPT !.delay = AttackDelay]
  <2>1. Msg.tar \in Creatures
    BY <1>1, <1>5, NotLost
  <2>2. Plain(m) /\ m.to = <<Me>> /\ m.type = "attackEnd" /\ Stay(tar[Me], <<m>>)
    BY <1>2, <1>5, <2>1, Delays, OwnIsPlain DEF Chain
  <2> HIDE DEF m
  <2>3. Answer(<<m>>)
    BY <1>1, <1>2, <2>2, WhatIsWanted, GoesOn DEF States
  <2> QED
    BY <2>3
<1> QED
  BY <1>3, <1>4, <1>5 DEF Attack

\* What strikes or freezes somebody.
LEMMA BlowIsPlain ==
    ASSUME NEW type \in {"hurt", "spellHurt", "freeze"}, NEW c \in Creatures, NEW d \in Creatures,
           NEW n \in Damages
    PROVE  Plain([Message(type, c, <<d>>, NoCreature, 1, "new") EXCEPT !.val = n])
<1> DEFINE m == [Message(type, c, <<d>>, NoCreature, 1, "new") EXCEPT !.val = n]
<1>1. type \in MessageTypes \ (Verdicts \cup Chain \cup {"clear", "spellEnd"})
  BY DEF Chain, MessageTypes, Verdicts
<1>2. <<d>> \in Seq(Creatures) /\ "new" \in Maps /\ n \in Nat
  BY NumberAssumption DEF Maps
<1>3. m \in Messages
  BY <1>1, <1>2 DEF Message, Messages
<1>4. /\ m.type = type /\ m.from = c /\ m.to = <<d>> /\ m.tar = NoCreature /\ m.delay = 1
      /\ m.map = "new"
  BY DEF Message
<1> HIDE DEF m
<1>5. Plain(m)
  BY <1>1, <1>3, <1>4 DEF Plain, Fresh, Shaped, IsVerdict
<1> QED
  BY <1>5 DEF m

LEMMA TwoOrders ==
    ASSUME NEW a, NEW b, Plain(a), Plain(b)
    PROVE  /\ <<a, b>> \in Seq(Messages) /\ \A k \in 1 .. Len(<<a, b>>) : Plain(<<a, b>>[k])
           /\ 2 \in 1 .. Len(<<a, b>>) /\ <<a, b>>[2] = b
<1>1. a \in Messages /\ b \in Messages
  BY DEF Plain, Fresh
<1>2. Len(<<a, b>>) = 2 /\ <<a, b>>[1] = a /\ <<a, b>>[2] = b
  OBVIOUS
<1>3. \A k \in 1 .. 2 : k = 1 \/ k = 2
  OBVIOUS
<1> QED
  BY <1>1, <1>2, <1>3

LEMMA AnswerAttackEnd ==
    ASSUME TypeInv, AttackEnd
    PROVE  \E sent : Answer(sent)
<1>1. Receive({"attackEnd"}, {"Attack"}) /\ Unharmed
  BY DEF AttackEnd, Unhurt, Unharmed, TypeInv, TypeOK
<1>2. /\ Me \in Creatures /\ Msg.to # <<>> /\ state[Me] = "Attack"
      /\ gstate[Me] = "Alive" /\ tar[Me] \in Creatures \cup {NoCreature}
  BY <1>1, Received
<1>3. CASE GiveUp
  BY <1>1, <1>2, <1>3, SetsOut DEF GiveUp
<1>4. ASSUME ~Lost(Msg.tar), NEW d \in Damages,
             Stay(tar[Me],
                  <<[Message("hurt", Me, <<Msg.tar>>, NoCreature, 1, "new") EXCEPT !.val = d],
                    Own("attack", Me, Msg.tar)>>)
      PROVE  \E sent : Answer(sent)
  <2> DEFINE a == [Message("hurt", Me, <<Msg.tar>>, NoCreature, 1, "new") EXCEPT !.val = d]
             b == Own("attack", Me, Msg.tar)
             sent == <<a, b>>
  <2>1. Msg.tar \in Creatures
    BY <1>1, <1>4, NotLost
  <2>2. Plain(a)
    BY <1>2, <2>1, BlowIsPlain
  <2>3. Plain(b) /\ b.to = <<Me>> /\ b.type = "attack"
    BY <1>2, <2>1, OwnIsPlain DEF Chain
  <2>4. Stay(tar[Me], sent)
    BY <1>4
  <2> HIDE DEF a, b
  <2>5. sent \in Seq(Messages) /\ (\A k \in 1 .. Len(sent) : Plain(sent[k]))
        /\ 2 \in 1 .. Len(sent) /\ sent[2] = b
    BY <2>2, <2>3, TwoOrders
  <2> HIDE DEF sent
  <2>6. sent[2].to = <<Me>> /\ sent[2].type \in Wanted(state[Me])
    BY <1>2, <2>3, <2>5, WhatIsWanted
  <2>7. Answer(sent)
    BY <1>1, <1>2, <2>4, <2>5, <2>6, StayAnswer
  <2> QED
    BY <2>7
<1> QED
  BY <1>3, <1>4 DEF AttackEnd

-----------------------------------------------------------------------------
(* Answers that kill or end the battle.                                    *)

LEMMA VerdictIsFresh ==
    ASSUME NEW type \in Verdicts, NEW c \in Creatures, NEW S, S \subseteq Creatures
    PROVE  /\ Fresh(Verdict(type, c, S)) /\ Verdict(type, c, S).type = type
           /\ Verdict(type, c, S).from = c /\ Verdict(type, c, S).map = "delayed"
           /\ \A x \in S : x \in ToSet(Verdict(type, c, S).to)
<1> DEFINE q == SetToSeq(S)
           m == Verdict(type, c, S)
<1>1. IsFiniteSet(S)
  BY CreatureAssumption, FS_Subset
<1>2. q \in Seq(S) /\ \A x \in S : x \in ToSet(q)
  BY <1>1, AllMembers
<1> HIDE DEF q
<1>3. q \in Seq(Creatures)
  BY <1>2
<1>4. type \in MessageTypes \ (Chain \cup {"clear", "spellEnd", "hurt", "spellHurt", "freeze", "thaw"})
  BY DEF Chain, MessageTypes, Verdicts
<1>5. m = [type |-> type, from |-> c, to |-> q, tar |-> NoCreature, val |-> 0,
           delay |-> 1, map |-> "delayed"]
  BY DEF Verdict, Message, q
<1> HIDE DEF m
<1>6. m \in Messages
  BY <1>3, <1>4, <1>5 DEF Messages, Maps
<1>7. Fresh(m)
  BY <1>4, <1>5, <1>6 DEF Fresh, Shaped, IsVerdict
<1> QED
  BY <1>2, <1>5, <1>7 DEF m

LEMMA RetargetIsFresh ==
    ASSUME NEW c \in Creatures, NEW enemy \in Creatures
    PROVE  /\ Retarget(c, enemy) \in Seq(Messages) /\ Len(Retarget(c, enemy)) = 3
           /\ \A k \in 1 .. 3 : Fresh(Retarget(c, enemy)[k]) /\ ~IsVerdict(Retarget(c, enemy)[k])
           /\ \A k \in 1 .. 2 : IsClearOf(Retarget(c, enemy)[k], c)
           /\ Retarget(c, enemy)[3].type = "move" /\ Retarget(c, enemy)[3].map = "delayed"
           /\ Retarget(c, enemy)[3].to = <<c>>
<1> DEFINE x == Message("clear", c, <<>>, "move", 1, "delayed")
           y == Message("clear", c, <<>>, "charge", 1, "delayed")
           z == [Own("move", c, enemy) EXCEPT !.map = "delayed"]
<1>1. /\ {"clear", "move"} \subseteq MessageTypes \ Verdicts /\ {"move", "charge"} \subseteq Chain
      /\ "move" \notin {"hurt", "spellHurt", "freeze", "thaw"} /\ "delayed" \in Maps
      /\ "clear" \notin Chain \cup {"spellEnd", "hurt", "spellHurt", "freeze", "thaw"}
  BY DEF MessageTypes, Verdicts, Chain, Maps
<1>2. <<>> \in Seq(Creatures) /\ <<c>> \in Seq(Creatures)
  OBVIOUS
<1>3. ASSUME NEW what \in {"move", "charge"}, NEW m, m = Message("clear", c, <<>>, what, 1, "delayed")
      PROVE  Fresh(m) /\ ~IsVerdict(m) /\ IsClearOf(m, c)
  <2>1. m = [type |-> "clear", from |-> c, to |-> <<>>, tar |-> what, val |-> 0,
             delay |-> 1, map |-> "delayed"]
    BY <1>3 DEF Message
  <2>2. m \in Messages
    BY <1>1, <1>2, <2>1 DEF Messages
  <2> QED
    BY <1>1, <2>1, <2>2 DEF Fresh, Shaped, IsVerdict, IsClearOf
<1>4. z = [type |-> "move", from |-> c, to |-> <<c>>, tar |-> enemy, val |-> 0,
           delay |-> 1, map |-> "delayed"]
  BY DEF Own, Message
<1> DEFINE r == <<x, y, z>>
<1>5. Retarget(c, enemy) = r
  BY DEF Retarget
<1>6. Fresh(x) /\ ~IsVerdict(x) /\ IsClearOf(x, c) /\ Fresh(y) /\ ~IsVerdict(y) /\ IsClearOf(y, c)
  BY <1>3
<1> HIDE DEF x, y, z
<1>7. Fresh(z) /\ ~IsVerdict(z)
  <2>1. z \in Messages
    BY <1>1, <1>2, <1>4 DEF Messages
  <2> QED
    BY <1>1, <1>4, <2>1 DEF Fresh, Shaped, IsVerdict
<1>8. x \in Messages /\ y \in Messages /\ z \in Messages
  BY <1>6, <1>7 DEF Fresh
<1>9. r \in Seq(Messages) /\ Len(r) = 3 /\ r[1] = x /\ r[2] = y /\ r[3] = z
  BY <1>8
<1> HIDE DEF r
<1>a. (\A k \in 1 .. 3 : k = 1 \/ k = 2 \/ k = 3) /\ (\A k \in 1 .. 2 : k = 1 \/ k = 2)
  OBVIOUS
<1>b. (\A k \in 1 .. 3 : Fresh(r[k]) /\ ~IsVerdict(r[k])) /\ (\A k \in 1 .. 2 : IsClearOf(r[k], c))
  BY <1>6, <1>7, <1>9, <1>a
<1> QED
  BY <1>4, <1>5, <1>9, <1>b

\* The orders that an answer may give before its receiver dies.
LEMMA RetargetRedirects ==
    ASSUME TypeInv, Me \in Creatures, NEW enemy \in Creatures
    PROVE  LET sent == Retarget(Me, enemy) IN
           /\ sent \in Seq(Messages) /\ Redirects(sent)
           /\ \A k \in 1 .. Len(sent) : Fresh(sent[k]) /\ ~IsVerdict(sent[k])
           /\ \E k \in 1 .. Len(sent) : sent[k].to = <<Me>> /\ sent[k].type = "move"
<1> DEFINE sent == Retarget(Me, enemy)
<1>1. /\ sent \in Seq(Messages) /\ Len(sent) = 3
      /\ \A k \in 1 .. 3 : Fresh(sent[k]) /\ ~IsVerdict(sent[k])
      /\ \A k \in 1 .. 2 : IsClearOf(sent[k], Me)
      /\ sent[3].type = "move" /\ sent[3].map = "delayed" /\ sent[3].to = <<Me>>
  BY RetargetIsFresh
<1> HIDE DEF sent
<1>2. 3 \in 1 .. 3 /\ \A k \in 1 .. 3 : (k \in 1 .. 2 /\ k < 3) \/ k = 3
  OBVIOUS
<1>3. Redirects(sent)
  BY <1>1, <1>2 DEF Redirects, IsClearOf
<1> QED
  BY <1>1, <1>2, <1>3 DEF sent

\* What is sent when somebody dies.
LEMMA VerdictOfDeathSent ==
    ASSUME TypeInv, Me \in Creatures
    PROVE  LET v == VerdictOfDeath(Me) IN
           /\ v \in Seq(Messages)
           /\ \A k \in 1 .. Len(v) : /\ Fresh(v[k]) /\ IsVerdict(v[k])
                 /\ IsLastHero /\ v[k].type = "allDie" /\ v[k].from = Me /\ v[k].map = "delayed"
                 /\ \A c \in Creatures \ {Me} : IsAlive(c) => c \in ToSet(v[k].to)
           /\ IsLastHero => 1 \in 1 .. Len(v)
<1> DEFINE S == {d \in Creatures : IsAlive(d)} \ {Me}
           m == Verdict("allDie", Me, S)
<1>1. CASE IsLastHero
  <2>1. "allDie" \in Verdicts /\ S \subseteq Creatures
    BY DEF Verdicts
  <2>2. /\ Fresh(m) /\ m.type = "allDie" /\ m.from = Me /\ m.map = "delayed"
        /\ \A x \in S : x \in ToSet(m.to)
    BY <2>1, VerdictIsFresh
  <2>3. VerdictOfDeath(Me) = <<m>>
    BY <1>1 DEF VerdictOfDeath, IsLastHero
  <2> HIDE DEF m
  <2>4. m \in Messages /\ <<m>> \in Seq(Messages) /\ Len(<<m>>) = 1 /\ <<m>>[1] = m
    BY <2>2 DEF Fresh
  <2>5. 1 \in 1 .. 1 /\ \A k \in 1 .. 1 : k = 1
    OBVIOUS
  <2> QED
    BY <1>1, <2>1, <2>2, <2>3, <2>4, <2>5 DEF IsVerdict
<1>2. CASE ~IsLastHero
  <2>1. VerdictOfDeath(Me) = <<>>
    BY <1>2 DEF VerdictOfDeath, IsLastHero
  <2> QED
    BY <1>2, <2>1, Nothing
<1> QED
  BY <1>1, <1>2

\* The messages of two sequences in a row.
LEMMA Joined ==
    ASSUME NEW Q, NEW a \in Seq(Q), NEW b \in Seq(Q)
    PROVE  /\ a \o b \in Seq(Q) /\ Len(a \o b) = Len(a) + Len(b)
           /\ \A k \in 1 .. Len(a) : k \in 1 .. Len(a \o b) /\ (a \o b)[k] = a[k]
           /\ \A k \in 1 .. Len(b) : /\ Len(a) + k \in 1 .. Len(a \o b) /\ Len(a) + k > Len(a)
                                     /\ (a \o b)[Len(a) + k] = b[k]
           /\ \A k \in 1 .. Len(a \o b) :
                 \/ k \in 1 .. Len(a) /\ (a \o b)[k] = a[k]
                 \/ /\ k - Len(a) \in 1 .. Len(b) /\ Len(a) + (k - Len(a)) = k
                    /\ (a \o b)[k] = b[k - Len(a)]
<1>1. /\ a \o b \in Seq(Q) /\ Len(a \o b) = Len(a) + Len(b)
      /\ \A k \in 1 .. Len(a) : (a \o b)[k] = a[k]
      /\ \A k \in 1 .. Len(b) : (a \o b)[Len(a) + k] = b[k]
  OBVIOUS
<1> DEFINE q == a \o b
<1>2. Len(a) \in Nat /\ Len(b) \in Nat
  OBVIOUS
<1> HIDE DEF q
<1>3. \A k \in 1 .. Len(q) :
        k \in 1 .. Len(a) \/ (k - Len(a) \in 1 .. Len(b) /\ Len(a) + (k - Len(a)) = k)
  BY <1>1, <1>2 DEF q
<1>4. /\ \A k \in 1 .. Len(a) : k \in 1 .. Len(q)
      /\ \A k \in 1 .. Len(b) : Len(a) + k \in 1 .. Len(q) /\ Len(a) + k > Len(a)
  BY <1>1, <1>2 DEF q
<1>5. \A k \in 1 .. Len(q) :
        \/ k \in 1 .. Len(a) /\ q[k] = a[k]
        \/ k - Len(a) \in 1 .. Len(b) /\ Len(a) + (k - Len(a)) = k /\ q[k] = b[k - Len(a)]
  <2> SUFFICES ASSUME NEW k \in 1 .. Len(q)
               PROVE  \/ k \in 1 .. Len(a) /\ q[k] = a[k]
                      \/ /\ k - Len(a) \in 1 .. Len(b) /\ Len(a) + (k - Len(a)) = k
                         /\ q[k] = b[k - Len(a)]
    OBVIOUS
  <2>1. CASE k \in 1 .. Len(a)
    BY <1>1, <2>1 DEF q
  <2>2. CASE k - Len(a) \in 1 .. Len(b) /\ Len(a) + (k - Len(a)) = k
    <3>1. q[Len(a) + (k - Len(a))] = b[k - Len(a)]
      BY <1>1, <2>2 DEF q
    <3> QED
      BY <2>2, <3>1
  <2> QED
    BY <1>3, <2>1, <2>2
<1> QED
  BY <1>1, <1>4, <1>5 DEF q

LEMMA DiesAnswer ==
    ASSUME TypeInv, Me \in Creatures, Msg.to # <<>>, gstate[Me] = "Alive",
           Msg.type \in {"hurt", "spellHurt"}, NEW sent \in Seq(Messages), Redirects(sent),
           \A k \in 1 .. Len(sent) : Fresh(sent[k]) /\ ~IsVerdict(sent[k]),
           Dies(sent), finished' = finished
    PROVE  Answer(sent \o VerdictOfDeath(Me))
<1> DEFINE v == VerdictOfDeath(Me)
           all == sent \o v
<1>1. /\ v \in Seq(Messages)
      /\ \A k \in 1 .. Len(v) : /\ Fresh(v[k]) /\ IsVerdict(v[k])
            /\ IsLastHero /\ v[k].type = "allDie" /\ v[k].from = Me /\ v[k].map = "delayed"
            /\ \A c \in Creatures \ {Me} : IsAlive(c) => c \in ToSet(v[k].to)
      /\ IsLastHero => 1 \in 1 .. Len(v)
  BY VerdictOfDeathSent
<1>2. tar[Me] \in Creatures \cup {NoCreature} /\ "Dying" \in States /\ "Dying" \in GlobalStates
  BY DEF States, GlobalStates, TypeInv, TypeOK
<1>3. Enter("Dying", tar[Me], all)
  BY DEF Dies
<1> HIDE DEF v
<1>4. /\ all \in Seq(Messages) /\ Len(all) = Len(sent) + Len(v)
      /\ \A k \in 1 .. Len(sent) : k \in 1 .. Len(all) /\ all[k] = sent[k]
      /\ \A k \in 1 .. Len(v) : /\ Len(sent) + k \in 1 .. Len(all) /\ Len(sent) + k > Len(sent)
                                /\ all[Len(sent) + k] = v[k]
      /\ \A k \in 1 .. Len(all) :
            \/ k \in 1 .. Len(sent) /\ all[k] = sent[k]
            \/ /\ k - Len(sent) \in 1 .. Len(v) /\ Len(sent) + (k - Len(sent)) = k
               /\ all[k] = v[k - Len(sent)]
  BY <1>1, Joined
<1> HIDE DEF all
<1>5. /\ tar' \in [Creatures -> Creatures \cup {NoCreature}]
      /\ recent_pos' \in [Creatures -> 0 .. HistoryPosCheck]
      /\ state' \in [Creatures -> States]
      /\ \A c \in Creatures \ {Me} : state'[c] = state[c]
      /\ msgs' = Rest \o all /\ UNCHANGED <<isReady, updating, frame>>
      /\ state'[Me] = "Dying" /\ recent_pos'[Me] = Remembers
      /\ \A c \in Creatures \ {Me} : recent_pos'[c] = recent_pos[c]
  BY <1>2, <1>3, EnterTyped
<1>6. Sends(all)
  <2>1. \A k \in 1 .. Len(all) : Fresh(all[k])
    BY <1>1, <1>4
  <2> QED
    BY <1>4, <1>5, <2>1 DEF Sends
<1>7. Typed' /\ gstate'[Me] # "Alive" /\ gstate' = [gstate EXCEPT ![Me] = "Dying"]
  <2>1. hp' \in [Creatures -> 0 .. MaxHp]
    BY NumberAssumption DEF Dies, TypeInv, TypeOK
  <2>2. gstate' \in [Creatures -> GlobalStates] /\ gstate'[Me] = "Dying"
        /\ gstate' = [gstate EXCEPT ![Me] = "Dying"]
    BY <1>2 DEF Dies, TypeInv, TypeOK
  <2> QED
    BY <1>5, <2>1, <2>2 DEF Typed, TypeInv, TypeOK
<1>8. Death(all)
  <2>1. ASSUME NEW k \in 1 .. Len(all), IsVerdict(all[k])
        PROVE  /\ IsLastHero /\ all[k].type = "allDie" /\ all[k].from = Me /\ all[k].map = "delayed"
               /\ \A c \in Creatures \ {Me} : IsAlive(c) => c \in ToSet(all[k].to)
    <3>1. ~(k \in 1 .. Len(sent) /\ all[k] = sent[k])
      BY <2>1
    <3>2. k - Len(sent) \in 1 .. Len(v) /\ all[k] = v[k - Len(sent)]
      BY <1>4, <3>1
    <3> QED
      BY <1>1, <3>2
  <2>2. IsLastHero => \E k \in 1 .. Len(all) : IsVerdict(all[k])
    BY <1>1, <1>4
  <2> QED
    BY <1>7, <2>1, <2>2 DEF Death
<1>9. Redirects(all)
  <2>1. \A i \in 1 .. Len(all) : all[i].type = "clear" => i \in 1 .. Len(sent) /\ all[i] = sent[i]
    BY <1>1, <1>4 DEF IsVerdict, Verdicts
  <2>2. ASSUME NEW j \in 1 .. Len(all), all[j].type = "clear"
        PROVE  /\ all[j].from = Me
               /\ \E k \in 1 .. Len(all) :
                     /\ all[k].type = "move" /\ all[k].map = "delayed" /\ all[k].to = <<Me>>
                     /\ \A i \in 1 .. Len(all) : all[i].type = "clear" => i < k
    <3>1. j \in 1 .. Len(sent) /\ all[j] = sent[j]
      BY <2>1, <2>2
    <3>2. sent[j].type = "clear"
      BY <2>2, <3>1
    <3>3. PICK k \in 1 .. Len(sent) :
             /\ sent[k].type = "move" /\ sent[k].map = "delayed" /\ sent[k].to = <<Me>>
             /\ \A i \in 1 .. Len(sent) : sent[i].type = "clear" => i < k
      BY <3>1, <3>2 DEF Redirects
    <3>4. k \in 1 .. Len(all) /\ all[k] = sent[k]
      BY <1>4
    <3>5. \A i \in 1 .. Len(all) : all[i].type = "clear" => i < k
      BY <2>1, <3>3
    <3>6. all[j].from = Me
      BY <3>1, <3>2 DEF Redirects
    <3> QED
      BY <3>3, <3>4, <3>5, <3>6
  <2> QED
    BY <2>2 DEF Redirects
<1>a. Serves(all) /\ Counts(all)
  BY <1>5, <1>7 DEF Serves, Counts
<1>b. Answer(all)
  BY <1>5, <1>6, <1>7, <1>8, <1>9, <1>a DEF Answer
<1> QED
  BY <1>b DEF all, v

LEMMA SurvivesUnharmed ==
    ASSUME TypeInv, Me \in Creatures, Msg.val \in Nat, Survives, finished' = finished
    PROVE  Unharmed
<1>1. hp[Me] \in 0 .. MaxHp /\ MaxHp \in Nat /\ hp[Me] >= Msg.val
  BY NumberAssumption DEF Survives, TypeInv, TypeOK
<1>2. hp[Me] - Msg.val \in 0 .. MaxHp
  BY <1>1
<1> QED
  BY <1>2 DEF Survives, Unharmed, TypeInv, TypeOK

LEMMA AnswerHurtAndTurn ==
    ASSUME TypeInv, HurtAndTurn
    PROVE  \E sent : Answer(sent)
<1>1. /\ Receive({"hurt"}, States) /\ finished' = finished
      /\ \/ Dies(Retarget(Me, Msg.from))
         \/ Survives /\ Enter("Move", Msg.from, Retarget(Me, Msg.from))
  BY DEF HurtAndTurn
<1>2. /\ Me \in Creatures /\ Msg.to # <<>> /\ Msg.type = "hurt" /\ Msg.from \in Creatures
      /\ gstate[Me] = "Alive" /\ Msg.val \in Nat
  BY <1>1, Received
<1> DEFINE sent == Retarget(Me, Msg.from)
<1>3. /\ sent \in Seq(Messages) /\ Redirects(sent)
      /\ \A k \in 1 .. Len(sent) : Fresh(sent[k]) /\ ~IsVerdict(sent[k])
      /\ \E k \in 1 .. Len(sent) : sent[k].to = <<Me>> /\ sent[k].type = "move"
  BY <1>2, RetargetRedirects
<1> HIDE DEF sent
<1>4. CASE Dies(sent)
  BY <1>1, <1>2, <1>3, <1>4, DiesAnswer
<1>5. CASE Survives /\ Enter("Move", Msg.from, sent)
  <2>1. /\ tar' \in [Creatures -> Creatures \cup {NoCreature}]
        /\ recent_pos' \in [Creatures -> 0 .. HistoryPosCheck]
        /\ state' \in [Creatures -> States] /\ state'[Me] = "Move"
        /\ \A c \in Creatures \ {Me} : state'[c] = state[c]
        /\ msgs' = Rest \o sent /\ UNCHANGED <<isReady, updating, frame>>
        /\ recent_pos'[Me] = 0
        /\ \A c \in Creatures \ {Me} : recent_pos'[c] = recent_pos[c]
    BY <1>2, <1>5, EnterTyped DEF States
  <2>2. Unharmed
    BY <1>1, <1>2, <1>5, SurvivesUnharmed
  <2>3. Sends(sent) /\ Quiet(sent)
    BY <1>3, <2>1, <2>2 DEF Sends, Quiet, Unharmed
  <2>4. Typed'
    BY <2>1, <2>2 DEF Typed, Unharmed, TypeInv, TypeOK
  <2>5. Serves(sent) /\ Counts(sent)
    BY <1>3, <2>1, WhatIsWanted DEF Serves, Counts
  <2>6. Answer(sent)
    BY <1>2, <1>3, <2>1, <2>3, <2>4, <2>5 DEF Answer
  <2> QED
    BY <2>6
<1> QED
  BY <1>1, <1>4, <1>5 DEF sent

LEMMA AnswerHurt ==
    ASSUME TypeInv, Hurt
    PROVE  \E sent : Answer(sent)
<1>1. /\ Receive({"hurt", "spellHurt"}, States) /\ finished' = finished
      /\ \/ Dies(<<>>)
         \/ Survives /\ Stay(tar[Me], <<>>)
         \/ Survives /\ TakeRest /\ Remembers = HistoryPosCheck
  BY DEF Hurt, MayBeJammed
<1>2. /\ Me \in Creatures /\ Msg.to # <<>> /\ Msg.type \in {"hurt", "spellHurt"}
      /\ gstate[Me] = "Alive" /\ Msg.val \in Nat /\ tar[Me] \in Creatures \cup {NoCreature}
  BY <1>1, Received
<1>3. CASE Dies(<<>>)
  <2> DEFINE sent == <<>>
  <2>1. /\ sent \in Seq(Messages) /\ Redirects(sent)
        /\ \A k \in 1 .. Len(sent) : Fresh(sent[k]) /\ ~IsVerdict(sent[k])
    BY Nothing DEF Redirects
  <2> HIDE DEF sent
  <2>2. Dies(sent)
    BY <1>3 DEF sent
  <2> QED
    BY <1>1, <1>2, <2>1, <2>2, DiesAnswer
<1>4. CASE Survives /\ Stay(tar[Me], <<>>)
  <2>1. Unharmed
    BY <1>1, <1>2, <1>4, SurvivesUnharmed
  <2>2. Msg.type \notin Wanted(state[Me])
    BY <1>2 DEF Wanted, Awaits
  <2>3. Answer(<<>>)
    BY <1>2, <1>4, <2>1, <2>2, Nothing, StayAnswer
  <2> QED
    BY <2>3
<1>5. CASE Survives /\ TakeRest /\ Remembers = HistoryPosCheck
  <2> DEFINE m == [Charge(Me) EXCEPT !.delay = IdleToMoveTime]
  <2>1. Unharmed
    BY <1>1, <1>2, <1>5, SurvivesUnharmed
  <2>2. Plain(m) /\ m.to = <<Me>> /\ m.type = "charge" /\ Enter("Idle", tar[Me], <<m>>)
    BY <1>2, <1>5, Delays, OwnIsPlain DEF Charge, Chain, TakeRest
  <2> HIDE DEF m
  <2>3. Answer(<<m>>)
    BY <1>2, <1>5, <2>1, <2>2, WhatIsWanted, GoesOn DEF States
  <2> QED
    BY <2>3
<1> QED
  BY <1>1, <1>3, <1>4, <1>5

LEMMA AnswerEnd ==
    ASSUME TypeInv, End
    PROVE  \E sent : Answer(sent)
<1>1. /\ Receive(Verdicts, States) /\ finished' = TRUE /\ hp' = hp
      /\ gstate' = gstate \/ gstate' = [gstate EXCEPT ![Me] = "Victory"]
      /\ \E st \in {"Idle", "Victory"} : Enter(st, tar[Me], <<>>)
  BY DEF End
<1>2. /\ Me \in Creatures /\ Msg.to # <<>> /\ gstate[Me] = "Alive"
      /\ tar[Me] \in Creatures \cup {NoCreature}
  BY <1>1, Received
<1>3. /\ tar' \in [Creatures -> Creatures \cup {NoCreature}]
      /\ recent_pos' \in [Creatures -> 0 .. HistoryPosCheck]
      /\ state' \in [Creatures -> States]
      /\ \A c \in Creatures \ {Me} : state'[c] = state[c]
      /\ msgs' = Rest \o <<>> /\ UNCHANGED <<isReady, updating, frame>>
      /\ recent_pos'[Me] = Remembers
      /\ \A c \in Creatures \ {Me} : recent_pos'[c] = recent_pos[c]
  BY <1>1, <1>2, EnterTyped DEF States
<1>4. Typed'
  <2>1. "Victory" \in GlobalStates /\ gstate \in [Creatures -> GlobalStates]
    BY DEF GlobalStates, TypeInv, TypeOK
  <2>2. gstate' \in [Creatures -> GlobalStates]
    BY <1>1, <2>1
  <2> QED
    BY <1>1, <1>3, <2>2 DEF Typed, TypeInv, TypeOK
<1>5. Sends(<<>>) /\ Redirects(<<>>)
  BY <1>3, Nothing DEF Sends, Redirects
<1>6. Serves(<<>>) /\ Counts(<<>>)
  BY <1>1, <1>3, Nothing DEF Serves, Counts
<1>7. Answer(<<>>)
  BY <1>2, <1>3, <1>4, <1>5, <1>6 DEF Answer
<1> QED
  BY <1>7

\* Whoever receives a message answers it.
LEMMA DeliverAnswers ==
    ASSUME TypeInv, Deliver
    PROVE  Undelivered \/ \E sent : Answer(sent)
  BY AnswerIgnored, AnswerRest, AnswerSetsOut, AnswerMoveCharge, AnswerMoveTarget, AnswerAttack,
     AnswerAttackEnd, AnswerFreeze, AnswerHurtAndTurn, AnswerHurt, AnswerEnd DEF Deliver

-----------------------------------------------------------------------------
(* The messages after a delivery.                                          *)

\* All but verdicts and clearings are for one creature.
LEMMA ForOne ==
    ASSUME NEW m \in Messages, Shaped(m), ~IsVerdict(m), m.type # "clear"
    PROVE  \E c \in Creatures : m.to = <<c>>
  BY DEF Messages, MessageTypes, Shaped, IsVerdict

LEMMA Singles ==
    /\ \A c : Len(<<c>>) = 1 /\ Head(<<c>>) = c /\ <<c>> # <<>> /\ ToSet(<<c>>) = {c}
    /\ \A c, d : <<c>> = <<d>> => c = d
<1>1. \A c : Len(<<c>>) = 1 /\ Head(<<c>>) = c /\ <<c>> # <<>>
  OBVIOUS
<1>2. ASSUME NEW c PROVE ToSet(<<c>>) = {c}
  BY DEF ToSet
<1> QED
  BY <1>1, <1>2

LEMMA WhoIsUndelivered ==
    ASSUME TypeInv, Undelivered
    PROVE  /\ Due # {} /\ updating /\ Sends(<<>>) /\ Typed' /\ UNCHANGED <<isReady, updating, frame>>
           /\ UNCHANGED <<state, gstate, finished>>
           /\ Msg.to = <<>> => IsVerdict(Msg)
           /\ Msg.to # <<>> => Me \in Creatures /\ gstate[Me] # "Alive"
<1>1. Due # {} /\ updating /\ UNCHANGED <<hp, state, gstate, tar, recent_pos, isReady, updating, frame, finished>>
  BY DEF Undelivered, Delivering
<1>2. Msg \in Messages /\ Shaped(Msg) /\ Msg.map = "active"
  BY <1>1, DueIsFirst
<1>3. Msg.to = <<>> => IsVerdict(Msg)
  BY <1>2, ForOne, Singles DEF Shaped
<1>4. msgs' = Rest
  <2>1. CASE Msg.to = <<>>
    <3>1. Len(Msg.to) = 0 /\ Msg.type # "freeze"
      BY <1>3, <2>1 DEF IsVerdict, Verdicts
    <3> QED
      BY <2>1, <3>1 DEF Undelivered, Rest
  <2>2. CASE Msg.to # <<>>
    BY <2>2 DEF Undelivered
  <2> QED
    BY <2>1, <2>2
<1>5. Sends(<<>>)
  <2>1. Rest \in Seq(Messages)
    BY <1>1, RestPlaces
  <2>2. msgs' = Rest \o <<>>
    BY <1>4, <2>1
  <2> QED
    BY <2>2, Nothing DEF Sends
<1>6. Msg.to # <<>> => Me \in Creatures /\ gstate[Me] # "Alive"
  BY <1>1, MeIsCreature DEF Undelivered
<1>7. Typed'
  BY <1>1 DEF Typed, TypeInv, TypeOK
<1> QED
  BY <1>1, <1>3, <1>5, <1>6, <1>7

LEMMA LeftIsTyped ==
    ASSUME TypeInv, Due # {}, updating, IsLeft
    PROVE  /\ Leftover \in Messages /\ Shaped(Leftover) /\ Timely(Leftover)
           /\ Leftover.map = "active" /\ Leftover.from = Msg.from
           /\ \/ IsVerdict(Msg) /\ Leftover.type = Msg.type /\ Leftover.to = Tail(Msg.to)
                 /\ Msg.to # <<>>
              \/ Msg.type = "freeze" /\ Leftover.type = "thaw" /\ Leftover.to = Msg.to
<1>1. Msg \in Messages /\ Shaped(Msg) /\ Msg.map = "active" /\ Msg.delay = 0
  BY DueIsFirst
<1>2. CASE Len(Msg.to) > 1
  <2>1. IsVerdict(Msg)
    <3>1. Msg.type # "clear"
      BY <1>1 DEF Shaped
    <3>2. ASSUME ~IsVerdict(Msg) PROVE FALSE
      <4>1. PICK c \in Creatures : Msg.to = <<c>>
        BY <1>1, <3>1, <3>2, ForOne
      <4>2. Len(Msg.to) = 1
        BY <4>1, Singles
      <4> QED
        BY <1>2, <4>2
    <3> QED
      BY <3>2
  <2>2. Tail(Msg.to) \in Seq(Creatures) /\ Msg.to # <<>>
    BY <1>1, <1>2 DEF Messages
  <2> DEFINE to == Tail(Msg.to)
  <2> HIDE DEF to
  <2>3. Leftover = [Msg EXCEPT !.to = to]
    BY <1>2 DEF Leftover, to
  <2>4. /\ Leftover \in Messages /\ Leftover.type = Msg.type /\ Leftover.to = to
        /\ Leftover.map = "active" /\ Leftover.from = Msg.from /\ Leftover.delay = 0
        /\ Leftover.tar = Msg.tar
    BY <1>1, <2>2, <2>3 DEF Messages, to
  <2>5. Msg.type \notin Chain \cup {"spellEnd", "hurt", "spellHurt", "freeze", "thaw", "clear"}
    BY <2>1 DEF IsVerdict, Verdicts, Chain
  <2>6. Shaped(Leftover) /\ Timely(Leftover)
    BY <1>1, <2>4, <2>5 DEF Shaped, Timely
  <2> QED
    BY <2>1, <2>2, <2>4, <2>6 DEF to
<1>3. CASE ~(Len(Msg.to) > 1)
  <2>1. Msg.type = "freeze"
    BY <1>3 DEF IsLeft
  <2>2. Leftover = [Msg EXCEPT !.type = "thaw", !.delay = FreezeTime]
    BY <1>3 DEF Leftover
  <2>3. "thaw" \in MessageTypes \ (Chain \cup Verdicts \cup {"spellEnd", "clear"})
    BY DEF MessageTypes, Chain, Verdicts
  <2>4. /\ Leftover \in Messages /\ Leftover.type = "thaw" /\ Leftover.to = Msg.to
        /\ Leftover.map = "active" /\ Leftover.from = Msg.from /\ Leftover.delay # 0
        /\ Leftover.tar = Msg.tar
    <3>1. ASSUME NEW m \in Messages, NEW n \in Nat
          PROVE  LET l == [m EXCEPT !.type = "thaw", !.delay = n] IN
                 /\ l \in Messages /\ l.type = "thaw" /\ l.to = m.to /\ l.map = m.map
                 /\ l.from = m.from /\ l.delay = n /\ l.tar = m.tar
      BY <2>3 DEF Messages
    <3>2. FreezeTime \in Nat /\ FreezeTime # 0
      BY Delays
    <3> QED
      BY <1>1, <2>2, <3>1, <3>2
  <2>5. Shaped(Leftover) /\ Timely(Leftover)
    BY <1>1, <2>1, <2>3, <2>4 DEF Shaped, Timely
  <2> QED
    BY <2>1, <2>4, <2>5
<1> QED
  BY <1>2, <1>3

\* Each message is one that was there, what is left of the one delivered, or sent.
LEMMA AfterDelivery ==
    ASSUME TypeInv, Due # {}, NEW sent, Sends(sent)
    PROVE  /\ msgs' \in Seq(Messages)
           /\ \A k \in 1 .. Len(msgs') :
                 \/ \E j \in 1 .. Len(msgs) : j # DueFirst /\ msgs'[k] = msgs[j]
                 \/ IsLeft /\ msgs'[k] = Leftover
                 \/ \E j \in 1 .. Len(sent) : msgs'[k] = sent[j]
           /\ \A j \in 1 .. Len(msgs) : j # DueFirst =>
                 \E k \in 1 .. Len(msgs') : msgs'[k] = msgs[j]
           /\ IsLeft => \E k \in 1 .. Len(msgs') : msgs'[k] = Leftover
           /\ \A j \in 1 .. Len(sent) : \E k \in 1 .. Len(msgs') : msgs'[k] = sent[j]
<1>1. sent \in Seq(Messages) /\ msgs' = Rest \o sent
  BY DEF Sends
<1>2. Rest \in Seq(Messages)
  BY RestPlaces
<1>3. PICK where : Places(where)
  BY RestPlaces
<1>4. /\ where \in [1 .. Len(Rest) -> 1 .. Len(msgs)]
      /\ \A k \in 1 .. Len(Rest) :
            Rest[k] = IF where[k] = DueFirst THEN Leftover ELSE msgs[where[k]]
      /\ \A j \in 1 .. Len(msgs) :
            (j # DueFirst \/ IsLeft) <=> \E k \in 1 .. Len(Rest) : where[k] = j
  BY <1>3 DEF Places
<1>5. DueFirst \in 1 .. Len(msgs)
  BY DueIsFirst
<1> DEFINE r == Rest
           q == r \o sent
<1> HIDE DEF r
<1>6. /\ q \in Seq(Messages)
      /\ \A k \in 1 .. Len(r) : k \in 1 .. Len(q) /\ q[k] = r[k]
      /\ \A k \in 1 .. Len(sent) : Len(r) + k \in 1 .. Len(q) /\ q[Len(r) + k] = sent[k]
      /\ \A k \in 1 .. Len(q) :
            \/ k \in 1 .. Len(r) /\ q[k] = r[k]
            \/ k - Len(r) \in 1 .. Len(sent) /\ q[k] = sent[k - Len(r)]
  BY <1>1, <1>2, Joined DEF r
<1> HIDE DEF q
<1>7. ASSUME NEW k \in 1 .. Len(q)
      PROVE  \/ \E j \in 1 .. Len(msgs) : j # DueFirst /\ q[k] = msgs[j]
             \/ IsLeft /\ q[k] = Leftover
             \/ \E j \in 1 .. Len(sent) : q[k] = sent[j]
  <2>1. CASE k \in 1 .. Len(r) /\ q[k] = r[k]
    <3>1. where[k] \in 1 .. Len(msgs) /\ (where[k] # DueFirst \/ IsLeft)
      BY <1>4, <2>1 DEF r
    <3> QED
      BY <1>4, <2>1, <3>1 DEF r
  <2>2. CASE k - Len(r) \in 1 .. Len(sent) /\ q[k] = sent[k - Len(r)]
    BY <2>2
  <2> QED
    BY <1>6, <2>1, <2>2
<1>8. \A j \in 1 .. Len(msgs) : j # DueFirst => \E k \in 1 .. Len(q) : q[k] = msgs[j]
  BY <1>4, <1>6 DEF r
<1>9. IsLeft => \E k \in 1 .. Len(q) : q[k] = Leftover
  BY <1>4, <1>5, <1>6, SMTT(30) DEF r
<1>a. \A j \in 1 .. Len(sent) : \E k \in 1 .. Len(q) : q[k] = sent[j]
  BY <1>6
<1>b. msgs' = q
  BY <1>1 DEF q, r
<1> QED
  BY <1>6, <1>7, <1>8, <1>9, <1>a, <1>b

LEMMA DeliveryTyped ==
    ASSUME TypeInv, Due # {}, updating, NEW sent, Sends(sent), Typed',
           UNCHANGED <<isReady, updating, frame>>
    PROVE  TypeInv'
<1>1. /\ msgs' \in Seq(Messages)
      /\ \A k \in 1 .. Len(msgs') :
            \/ \E j \in 1 .. Len(msgs) : j # DueFirst /\ msgs'[k] = msgs[j]
            \/ IsLeft /\ msgs'[k] = Leftover
            \/ \E j \in 1 .. Len(sent) : msgs'[k] = sent[j]
  BY AfterDelivery
<1>2. TypeOK'
  BY <1>1 DEF Typed, TypeInv, TypeOK
<1>3. DOMAIN msgs' = 1 .. Len(msgs') /\ DOMAIN msgs = 1 .. Len(msgs)
  BY <1>1 DEF TypeInv, TypeOK
<1>4. \A m : Shaped(m)' <=> Shaped(m)
  BY DEF Shaped
<1>5. \A m : Timely(m) => Timely(m)'
  BY DEF Timely
<1>6. ASSUME NEW k \in 1 .. Len(msgs') PROVE Shaped(msgs'[k]) /\ Timely(msgs'[k])
  <2>1. CASE \E j \in 1 .. Len(msgs) : msgs'[k] = msgs[j]
    BY <1>3, <2>1 DEF TypeInv
  <2>2. CASE IsLeft /\ msgs'[k] = Leftover
    BY <2>2, LeftIsTyped
  <2>3. CASE \E j \in 1 .. Len(sent) : msgs'[k] = sent[j]
    <3>1. Fresh(msgs'[k])
      BY <2>3 DEF Sends
    <3> QED
      BY <3>1 DEF Fresh, Timely, Messages
  <2> QED
    BY <1>1, <2>1, <2>2, <2>3
<1> QED
  BY <1>2, <1>3, <1>4, <1>5, <1>6 DEF TypeInv

-----------------------------------------------------------------------------
(* Verdicts.                                                               *)

\* Each message after a step is justified if the value that it has is.
LEMMA Renamed ==
    ASSUME \A m : (\E k \in DOMAIN msgs' : m = msgs'[k]) => Justified(m)'
    PROVE  \A k \in DOMAIN msgs' : Justified(msgs[k])'
<1> SUFFICES ASSUME NEW k \in DOMAIN msgs' PROVE Justified(msgs[k])'
  OBVIOUS
<1>1. PICK m : m = msgs'[k]
  OBVIOUS
<1>2. Justified(m)'
  BY <1>1
<1> QED
  BY <1>1, <1>2 DEF Justified, Verdict1, IsVerdict

\* Nobody rises from the dead, and time passes.
Onward ==
    /\ \A c \in Creatures : IsAlive(c)' => IsAlive(c)
    /\ frame \in Nat /\ frame' \in Nat /\ frame' >= frame /\ (finished => finished')

LEMMA StillJustified ==
    ASSUME NEW m, Justified(m), Onward, TimeLimit \in Nat,
           Verdict1(m) => Winners' \cap Side(m.from) = {}
    PROVE  Justified(m)'
<1>1. \A S : HeroesAlive(S)' \subseteq HeroesAlive(S)
  BY CreatureAssumption DEF Onward, HeroesAlive
<1>2. m.type = "allDie" => HeroesAlive(Side(m.from))' = {}
  BY <1>1 DEF Justified
<1>3. m.type = "timeOut" => frame' > TimeLimit
  BY DEF Justified, Onward
<1>4. IsVerdict(m) /\ (m.map = "delayed" \/ ~finished') =>
          \A c \in Creatures : IsAlive(c)' => c \in ToSet(m.to)
  BY DEF Justified, Onward
<1>5. (Verdict1(m) <=> Verdict1(m)') /\ (IsVerdict(m) <=> IsVerdict(m)')
  BY DEF Verdict1, IsVerdict
<1> QED
  BY <1>2, <1>3, <1>4, <1>5 DEF Justified

LEMMA HeadOrTail ==
    ASSUME NEW Q, NEW q \in Seq(Q), q # <<>>
    PROVE  \A x \in ToSet(q) : x = Head(q) \/ x \in ToSet(Tail(q))
<1> SUFFICES ASSUME NEW k \in 1 .. Len(q), k # 1 PROVE q[k] \in ToSet(Tail(q))
  BY DEF ToSet
<1>1. k - 1 \in 1 .. Len(Tail(q)) /\ Tail(q)[k - 1] = q[k] /\ DOMAIN Tail(q) = 1 .. Len(Tail(q))
  OBVIOUS
<1> QED
  BY <1>1 DEF ToSet

LEMMA DeliveryJustified ==
    ASSUME TypeInv, VerdictInv, Due # {}, updating, NEW sent, Sends(sent), Onward,
           \A j \in 1 .. Len(msgs) : Verdict1(msgs[j]) => Winners' \cap Side(msgs[j].from) = {},
           \A k \in 1 .. Len(sent) : IsVerdict(sent[k]) =>
              /\ sent[k].type = "allDie" /\ sent[k].map = "delayed"
              /\ HeroesAlive(Side(sent[k].from))' = {}
              /\ \A c \in Creatures : IsAlive(c)' => c \in ToSet(sent[k].to),
           IsVerdict(Msg) /\ IsLeft /\ ~finished' => gstate'[Me] = "Dying"
    PROVE  \A k \in DOMAIN msgs' : Justified(msgs[k])'
<1>1. /\ msgs' \in Seq(Messages)
      /\ \A k \in 1 .. Len(msgs') :
            \/ \E j \in 1 .. Len(msgs) : j # DueFirst /\ msgs'[k] = msgs[j]
            \/ IsLeft /\ msgs'[k] = Leftover
            \/ \E j \in 1 .. Len(sent) : msgs'[k] = sent[j]
  BY AfterDelivery
<1>2. DOMAIN msgs' = 1 .. Len(msgs') /\ DOMAIN msgs = 1 .. Len(msgs) /\ DueFirst \in 1 .. Len(msgs)
      /\ Msg.map = "active" /\ Msg \in Messages
  BY <1>1, DueIsFirst DEF TypeInv, TypeOK
<1>3. \A j \in 1 .. Len(msgs) : Justified(msgs[j])
  BY <1>2 DEF VerdictInv
<1>4. ASSUME NEW m, NEW j \in 1 .. Len(msgs), m = msgs[j] PROVE Justified(m)'
  BY <1>3, <1>4, StillJustified, NumberAssumption
<1>5. ASSUME NEW m, IsLeft, m = Leftover PROVE Justified(m)'
  <2>1. /\ m.map = "active" /\ m.from = Msg.from
        /\ \/ IsVerdict(Msg) /\ m.type = Msg.type /\ m.to = Tail(Msg.to) /\ Msg.to # <<>>
           \/ Msg.type = "freeze" /\ m.type = "thaw" /\ m.to = Msg.to
    BY <1>5, LeftIsTyped
  <2>2. CASE m.type = "thaw"
    BY <2>1, <2>2 DEF Justified, Verdict1, IsVerdict, Verdicts
  <2>3. CASE IsVerdict(Msg) /\ m.type = Msg.type /\ m.to = Tail(Msg.to) /\ Msg.to # <<>>
    <3>1. PICK n : n = Msg
      OBVIOUS
    <3>2. Justified(n)'
      BY <1>2, <1>4, <3>1 DEF Msg
    <3>3. ~finished' => \A c \in Creatures : IsAlive(c)' => c \in ToSet(m.to)
      <4> SUFFICES ASSUME ~finished', NEW c \in Creatures, IsAlive(c)' PROVE c \in ToSet(m.to)
        OBVIOUS
      <4>1. c \in ToSet(n.to)
        BY <2>3, <3>1, <3>2 DEF Justified, IsVerdict
      <4>2. gstate'[Me] = "Dying" /\ c # Me
        BY <1>5, <2>3 DEF IsAlive
      <4>3. Msg.to \in Seq(Creatures)
        BY <1>2 DEF Messages
      <4>4. c = Head(Msg.to) \/ c \in ToSet(Tail(Msg.to))
        BY <2>3, <3>1, <4>1, <4>3, HeadOrTail
      <4> QED
        BY <2>3, <4>2, <4>4 DEF Me
    <3>4. m.type = n.type /\ m.from = n.from /\ m.map = "active" /\ n.map = "active"
      BY <1>2, <2>1, <2>3, <3>1
    <3>5. /\ m.type = "allDie" => HeroesAlive(Side(m.from))' = {}
          /\ m.type = "timeOut" => frame' > TimeLimit
          /\ Verdict1(m) => Winners' \cap Side(m.from) = {}
      BY <3>2, <3>4 DEF Justified, Verdict1, IsVerdict
    <3> QED
      BY <3>3, <3>4, <3>5 DEF Justified, Verdict1, IsVerdict
  <2> QED
    BY <2>1, <2>2, <2>3
<1>6. ASSUME NEW m, NEW j \in 1 .. Len(sent), m = sent[j] PROVE Justified(m)'
  <2>1. Fresh(m)
    BY <1>6 DEF Sends
  <2>2. CASE ~IsVerdict(m)
    BY <2>2 DEF Justified, Verdict1, IsVerdict, Verdicts
  <2>3. CASE IsVerdict(m)
    BY <1>6, <2>3 DEF Justified, Verdict1, IsVerdict
  <2> QED
    BY <2>2, <2>3
<1>7. \A m : (\E k \in DOMAIN msgs' : m = msgs'[k]) => Justified(m)'
  BY <1>1, <1>2, <1>4, <1>5, <1>6
<1> QED
  BY <1>7, Renamed

\* No second verdict comes into force.
LEMMA DeliveryAlone ==
    ASSUME TypeInv, Due # {}, updating, NEW sent, Sends(sent),
           \A j, k \in DOMAIN msgs : Verdict1(msgs[j]) /\ Verdict1(msgs[k]) => j = k
    PROVE  \A j, k \in DOMAIN msgs' : Verdict1(msgs'[j]) /\ Verdict1(msgs'[k]) => j = k
<1>1. sent \in Seq(Messages) /\ msgs' = Rest \o sent /\ Rest \in Seq(Messages)
      /\ \A k \in 1 .. Len(sent) : Fresh(sent[k])
  BY RestPlaces DEF Sends
<1>2. PICK where : Places(where)
  BY RestPlaces
<1>3. /\ where \in [1 .. Len(Rest) -> 1 .. Len(msgs)]
      /\ \A j, k \in 1 .. Len(Rest) : j < k => where[j] < where[k]
      /\ \A k \in 1 .. Len(Rest) :
            Rest[k] = IF where[k] = DueFirst THEN Leftover ELSE msgs[where[k]]
      /\ \A j \in 1 .. Len(msgs) :
            (j # DueFirst \/ IsLeft) <=> \E k \in 1 .. Len(Rest) : where[k] = j
  BY <1>2 DEF Places
<1>4. DOMAIN msgs = 1 .. Len(msgs) /\ Msg.map = "active" /\ msgs[DueFirst] = Msg
  BY DueIsFirst DEF TypeInv, TypeOK, Msg
<1> DEFINE r == Rest
           q == r \o sent
<1> HIDE DEF r
<1>5. /\ q \in Seq(Messages)
      /\ \A k \in 1 .. Len(q) :
            \/ k \in 1 .. Len(r) /\ q[k] = r[k]
            \/ k - Len(r) \in 1 .. Len(sent) /\ q[k] = sent[k - Len(r)]
  BY <1>1, Joined DEF r
<1> HIDE DEF q
<1>6. DOMAIN q = 1 .. Len(q) /\ msgs' = q
  BY <1>1, <1>5 DEF q, r
<1>7. ASSUME NEW k \in 1 .. Len(q), Verdict1(q[k])
      PROVE  k \in 1 .. Len(r) /\ where[k] \in 1 .. Len(msgs) /\ Verdict1(msgs[where[k]])
  <2>1. ~(k - Len(r) \in 1 .. Len(sent) /\ q[k] = sent[k - Len(r)])
    BY <1>1, <1>7 DEF Fresh, Verdict1
  <2>2. k \in 1 .. Len(r) /\ q[k] = r[k] /\ where[k] \in 1 .. Len(msgs)
    BY <1>3, <1>5, <2>1 DEF r
  <2>3. CASE where[k] # DueFirst
    BY <1>3, <1>7, <2>2, <2>3 DEF r
  <2>4. CASE where[k] = DueFirst
    <3>1. IsLeft /\ q[k] = Leftover
      BY <1>3, <2>2, <2>4 DEF r
    <3>2. IsVerdict(Msg)
      BY <1>7, <3>1, LeftIsTyped DEF Verdict1, IsVerdict, Verdicts
    <3> QED
      BY <1>4, <2>2, <2>4, <3>2 DEF Verdict1
  <2> QED
    BY <2>2, <2>3, <2>4
<1>8. ASSUME NEW j \in 1 .. Len(q), NEW k \in 1 .. Len(q), Verdict1(q[j]), Verdict1(q[k])
      PROVE  j = k
  <2>1. j \in 1 .. Len(r) /\ k \in 1 .. Len(r) /\ where[j] = where[k] /\ where[j] \in Nat
    BY <1>4, <1>7, <1>8
  <2>2. ~(j < k) /\ ~(k < j)
    BY <1>3, <2>1 DEF r
  <2> QED
    BY <2>1, <2>2
<1> QED
  BY <1>6, <1>8

LEMMA Sides ==
    \A c, d \in Creatures :
        /\ c \in Side(c) /\ Side(c) \in {Friends, Enemies} /\ Side(c) \subseteq Creatures
        /\ d \notin Side(c) => Creatures \ Side(d) = Side(c) /\ Creatures \ Side(c) = Side(d)
        /\ Side(c) # Side(d) => d \notin Side(c)
  BY CreatureAssumption DEF Side, Creatures

\* Whatever is no verdict makes nobody win.
LEMMA OnlyVerdictsEnd ==
    ASSUME Deliver, ~Undelivered, ~End
    PROVE  ~IsVerdict(Msg)
<1> \A types, states : Receive(types, states) => Msg.type \in types
  BY DEF Receive
<1> QED
  BY DEF Deliver, Ignored, TrafficJam, IdleCharge, MoveCharge, MoveTarget, Attack, AttackEnd,
         SpellEnd, Freeze, Thaw, HurtAndTurn, Hurt, IsVerdict, Verdicts, Chain

LEMMA FrameMoves ==
    ASSUME TypeInv, frame' = frame
    PROVE  frame \in Nat /\ frame' \in Nat /\ frame' >= frame
  BY NumberAssumption DEF TypeInv, TypeOK

\* A fair verdict stays fair.
LEMMA StillFair ==
    ASSUME VerdictInv, Onward, Winners' = Winners, TimeLimit \in Nat
    PROVE  FairVerdict' /\ (Winners' # {} => finished')
<1>1. \A S : HeroesAlive(S)' \subseteq HeroesAlive(S)
  BY CreatureAssumption DEF Onward, HeroesAlive
<1>2. FairVerdict /\ (Winners # {} => finished)
  BY DEF VerdictInv
<1>3. frame' <= TimeLimit => frame <= TimeLimit
  BY DEF Onward
<1>4. frame' <= TimeLimit => \A c \in Winners' : HeroesAlive(Creatures \ Side(c))' = {}
  BY <1>1, <1>2, <1>3 DEF FairVerdict
<1> QED
  BY <1>2, <1>4 DEF FairVerdict, Onward

LEMMA UndeliveredVerdict ==
    ASSUME TypeInv, VerdictInv, Undelivered
    PROVE  VerdictInv'
<1>1. /\ Due # {} /\ updating /\ Sends(<<>>) /\ frame' = frame /\ gstate' = gstate
      /\ finished' = finished /\ (Msg.to # <<>> => Me \in Creatures /\ gstate[Me] # "Alive")
  BY WhoIsUndelivered
<1>2. Onward
  BY <1>1, FrameMoves DEF Onward, IsAlive
<1>3. Winners' = Winners
  BY <1>1 DEF Winners
<1>4. DOMAIN msgs = 1 .. Len(msgs)
  BY DEF TypeInv, TypeOK
<1>5. \A j \in 1 .. Len(msgs) : Verdict1(msgs[j]) => Winners' \cap Side(msgs[j].from) = {}
  BY <1>3, <1>4 DEF VerdictInv, Justified
<1>6. ASSUME IsVerdict(Msg), IsLeft, ~finished' PROVE gstate'[Me] = "Dying"
  <2>1. Msg.to # <<>>
    BY <1>1, <1>6, LeftIsTyped DEF IsVerdict, Verdicts
  <2>2. Me \in Creatures /\ gstate[Me] \in {"Dying", "Victory"}
    BY <1>1, <2>1 DEF GlobalStates, TypeInv, TypeOK
  <2>3. Winners = {}
    BY <1>1, <1>6 DEF VerdictInv
  <2> QED
    BY <1>1, <2>2, <2>3 DEF Winners
<1>7. \A k \in DOMAIN msgs' : Justified(msgs[k])'
  <2>1. \A k \in 1 .. Len(<<>>) : FALSE
    BY Nothing
  <2> QED
    BY <1>1, <1>2, <1>5, <1>6, <2>1, DeliveryJustified
<1>8. \A j, k \in DOMAIN msgs' : Verdict1(msgs'[j]) /\ Verdict1(msgs'[k]) => j = k
  BY <1>1, DeliveryAlone DEF VerdictInv
<1>9. FairVerdict' /\ (Winners' # {} => finished')
  BY <1>2, <1>3, StillFair, NumberAssumption
<1> QED
  BY <1>7, <1>8, <1>9 DEF VerdictInv, Verdict1, IsVerdict

LEMMA EndVerdict ==
    ASSUME TypeInv, VerdictInv, End
    PROVE  VerdictInv'
<1>1. /\ Receive(Verdicts, States) /\ finished' = TRUE
      /\ \/ Side(Me) = Side(Msg.from) /\ gstate' = gstate
         \/ Side(Me) # Side(Msg.from) /\ gstate' = [gstate EXCEPT ![Me] = "Victory"]
  BY DEF End
<1>2. /\ Due # {} /\ Me \in Creatures /\ Msg.to # <<>> /\ gstate[Me] = "Alive"
      /\ Msg.from \in Creatures /\ IsVerdict(Msg)
  BY <1>1, Received DEF IsVerdict
<1>3. Sends(<<>>) /\ frame' = frame /\ updating
  <2>1. msgs' = Rest \o <<>> /\ frame' = frame /\ updating
    BY <1>1 DEF End, Enter, Reply, Receive, Delivering
  <2> QED
    BY <2>1, Nothing DEF Sends
<1>4. DOMAIN msgs = 1 .. Len(msgs) /\ DueFirst \in 1 .. Len(msgs) /\ msgs[DueFirst] = Msg
      /\ Verdict1(Msg) /\ gstate \in [Creatures -> GlobalStates]
  BY <1>2, DueIsFirst DEF TypeInv, TypeOK, Msg, Verdict1
<1>5. Justified(Msg)
  BY <1>4 DEF VerdictInv
<1>6. \A c \in Creatures : IsAlive(c)' <=> IsAlive(c)
  BY <1>1, <1>2, <1>4 DEF IsAlive
<1>7. Onward
  BY <1>1, <1>3, <1>6, FrameMoves DEF Onward
<1>8. Winners' \cap Side(Msg.from) = {} /\ Winners' \subseteq Creatures
  <2>1. Winners \cap Side(Msg.from) = {}
    BY <1>4, <1>5 DEF Justified
  <2>2. CASE gstate' = gstate
    BY <2>1, <2>2 DEF Winners
  <2>3. CASE Side(Me) # Side(Msg.from) /\ gstate' = [gstate EXCEPT ![Me] = "Victory"]
    <3>1. Me \notin Side(Msg.from)
      BY <1>2, <2>3, Sides
    <3>2. Winners' \subseteq Winners \cup {Me}
      BY <1>4, <2>3 DEF Winners
    <3>3. Winners' \subseteq Creatures
      BY DEF Winners
    <3> QED
      BY <2>1, <3>1, <3>2, <3>3
  <2> QED
    BY <1>1, <2>2, <2>3
<1>9. \A k \in DOMAIN msgs' : Justified(msgs[k])'
  <2>1. \A j \in 1 .. Len(msgs) : Verdict1(msgs[j]) => Winners' \cap Side(msgs[j].from) = {}
    <3> SUFFICES ASSUME NEW j \in 1 .. Len(msgs), Verdict1(msgs[j])
                 PROVE  Winners' \cap Side(msgs[j].from) = {}
      OBVIOUS
    <3>1. j = DueFirst
      BY <1>4 DEF VerdictInv
    <3> QED
      BY <1>4, <1>8, <3>1
  <2>2. \A k \in 1 .. Len(<<>>) : FALSE
    BY Nothing
  <2> QED
    BY <1>1, <1>2, <1>3, <1>7, <2>1, <2>2, DeliveryJustified
<1>a. \A j, k \in DOMAIN msgs' : Verdict1(msgs'[j]) /\ Verdict1(msgs'[k]) => j = k
  BY <1>2, <1>3, DeliveryAlone DEF VerdictInv
<1>b. FairVerdict'
  <2>1. Winners' \subseteq Friends \/ Winners' \subseteq Enemies
    BY <1>2, <1>8 DEF Side, Creatures
  <2>2. ASSUME frame' <= TimeLimit, NEW c \in Winners' PROVE HeroesAlive(Creatures \ Side(c))' = {}
    <3>1. Msg.type = "allDie"
      BY <1>2, <1>3, <1>5, <2>2, FrameMoves, NumberAssumption DEF Justified, IsVerdict, Verdicts
    <3>2. HeroesAlive(Creatures \ Side(c)) = {}
      <4>1. Creatures \ Side(c) = Side(Msg.from)
        BY <1>2, <1>8, <2>2, Sides
      <4> QED
        BY <1>5, <3>1, <4>1 DEF Justified
    <3> QED
      BY <1>6, <3>2, CreatureAssumption DEF HeroesAlive
  <2> QED
    BY <2>1, <2>2 DEF FairVerdict
<1> QED
  BY <1>1, <1>9, <1>a, <1>b DEF VerdictInv, Verdict1, IsVerdict

LEMMA AnswerVerdict ==
    ASSUME TypeInv, VerdictInv, updating, Due # {}, ~IsVerdict(Msg),
           NEW sent, Answer(sent), Quiet(sent) \/ Death(sent)
    PROVE  VerdictInv'
<1>1. Sends(sent) /\ frame' = frame /\ Me \in Creatures /\ gstate[Me] = "Alive"
  BY DEF Answer
<1>2. gstate' = gstate \/ gstate' = [gstate EXCEPT ![Me] = "Dying"]
  BY DEF Quiet, Death
<1>3. gstate \in [Creatures -> GlobalStates] /\ DOMAIN msgs = 1 .. Len(msgs)
  BY DEF TypeInv, TypeOK
<1>4. finished' = finished
  BY DEF Quiet, Death
<1>5. Onward
  <2>1. \A c \in Creatures : IsAlive(c)' => IsAlive(c)
    BY <1>1, <1>2, <1>3 DEF IsAlive
  <2> QED
    BY <1>1, <1>4, <2>1, FrameMoves DEF Onward
<1>6. Winners' = Winners
  BY <1>1, <1>2, <1>3 DEF Winners
<1>7. \A j \in 1 .. Len(msgs) : Verdict1(msgs[j]) => Winners' \cap Side(msgs[j].from) = {}
  BY <1>3, <1>6 DEF VerdictInv, Justified
<1>8. ASSUME NEW k \in 1 .. Len(sent), IsVerdict(sent[k])
      PROVE  /\ sent[k].type = "allDie" /\ sent[k].map = "delayed"
             /\ HeroesAlive(Side(sent[k].from))' = {}
             /\ \A c \in Creatures : IsAlive(c)' => c \in ToSet(sent[k].to)
  <2>1. Death(sent)
    BY <1>8 DEF Quiet
  <2>2. /\ IsLastHero /\ sent[k].type = "allDie" /\ sent[k].from = Me /\ sent[k].map = "delayed"
        /\ \A c \in Creatures \ {Me} : IsAlive(c) => c \in ToSet(sent[k].to)
    BY <1>8, <2>1 DEF Death
  <2>3. gstate' = [gstate EXCEPT ![Me] = "Dying"]
    BY <2>1 DEF Death
  <2>4. \A c \in Creatures : IsAlive(c)' => IsAlive(c) /\ c # Me
    BY <1>1, <1>3, <1>5, <2>3 DEF IsAlive, Onward
  <2>5. PICK f : f = sent[k].from
    OBVIOUS
  <2>6. HeroesAlive(Side(f))' = {}
    BY <2>2, <2>4, <2>5, CreatureAssumption DEF IsLastHero, HeroesAlive
  <2>7. HeroesAlive(Side(sent[k].from))' = {}
    BY <2>5, <2>6
  <2> QED
    BY <2>2, <2>4, <2>7
<1>9. \A k \in DOMAIN msgs' : Justified(msgs[k])'
  BY <1>1, <1>5, <1>7, <1>8, DeliveryJustified
<1>a. \A j, k \in DOMAIN msgs' : Verdict1(msgs'[j]) /\ Verdict1(msgs'[k]) => j = k
  BY <1>1, DeliveryAlone DEF VerdictInv
<1>b. FairVerdict' /\ (Winners' # {} => finished')
  BY <1>5, <1>6, StillFair, NumberAssumption
<1> QED
  BY <1>9, <1>a, <1>b DEF VerdictInv, Verdict1, IsVerdict

LEMMA DeliverVerdict ==
    ASSUME TypeInv, VerdictInv, Deliver
    PROVE  VerdictInv'
<1>1. CASE Undelivered
  BY <1>1, UndeliveredVerdict
<1>2. CASE End
  BY <1>2, EndVerdict
<1>3. CASE ~Undelivered /\ ~End
  <2>1. PICK sent : Answer(sent)
    BY <1>3, DeliverAnswers
  <2>2. ~IsVerdict(Msg) /\ (Quiet(sent) \/ Death(sent))
    BY <1>3, <2>1, OnlyVerdictsEnd DEF Answer
  <2>3. Due # {} /\ updating
    BY DEF Deliver, Undelivered, Ignored, TrafficJam, IdleCharge, MoveCharge, MoveTarget, Attack,
           AttackEnd, SpellEnd, Freeze, Thaw, HurtAndTurn, Hurt, End, Receive, Delivering
  <2> QED
    BY <2>1, <2>2, <2>3, AnswerVerdict
<1> QED
  BY <1>1, <1>2, <1>3

-----------------------------------------------------------------------------
(* A frame begins.                                                         *)

Aged(m) == [m EXCEPT !.map = "active", !.delay = @ - 1]

\* where[k] is where the k-th of the messages that are kept has been.
LEMMA Aging ==
    ASSUME TypeInv, BeginUpdate
    PROVE  /\ DOMAIN msgs' = 1 .. Len(msgs') /\ Len(msgs') \in Nat
           /\ \E where \in [1 .. Len(msgs') -> 1 .. Len(msgs)] :
                 /\ \A j, k \in 1 .. Len(msgs') : j < k => where[j] < where[k]
                 /\ \A k \in 1 .. Len(msgs') :
                       Outlasts(where[k]) /\ msgs'[k] = Aged(msgs[where[k]])
                 /\ \A j \in 1 .. Len(msgs) : Outlasts(j) => \E k \in 1 .. Len(msgs') : where[k] = j
           /\ \A f : f = [k \in 1 .. Len(msgs') |-> msgs'[k]] => f = msgs'
<1> DEFINE S == {i \in DOMAIN msgs : Outlasts(i)}
           idx == [i \in DOMAIN msgs |-> i]
           kept == Only(S, idx)
           new == [k \in DOMAIN kept |-> [msgs[kept[k]] EXCEPT !.map = "active", !.delay = @ - 1]]
<1>1. DOMAIN msgs = 1 .. Len(msgs) /\ Len(msgs) \in Nat
  BY DEF TypeInv, TypeOK
<1>2. idx \in Seq(1 .. Len(msgs)) /\ Len(idx) = Len(msgs) /\ \A i \in 1 .. Len(msgs) : idx[i] = i
  BY <1>1
<1>3. msgs' = new
  BY DEF BeginUpdate
<1> HIDE DEF idx, S
<1>4. kept \in Seq(S \cap 1 .. Len(msgs))
  BY <1>2, OnlySelects
<1>5. PICK where \in [1 .. Len(kept) -> 1 .. Len(idx)] :
        /\ \A j, k \in 1 .. Len(kept) : j < k => where[j] < where[k]
        /\ \A k \in 1 .. Len(kept) : kept[k] = idx[where[k]]
        /\ \A j \in 1 .. Len(idx) : idx[j] \in S <=> \E k \in 1 .. Len(kept) : where[k] = j
  BY <1>2, OnlyInOrder
<1> HIDE DEF kept
<1>6. DOMAIN kept = 1 .. Len(kept) /\ Len(kept) \in Nat
  BY <1>4
<1>7. new = [k \in 1 .. Len(kept) |-> Aged(msgs[kept[k]])]
  BY <1>6 DEF Aged
<1> HIDE DEF new
<1>8. Len(new) = Len(kept) /\ DOMAIN new = 1 .. Len(new)
  BY <1>6, <1>7
<1>9. \A k \in 1 .. Len(kept) : where[k] \in 1 .. Len(msgs) /\ kept[k] = where[k]
  BY <1>2, <1>5
<1>a. \A k \in 1 .. Len(kept) : where[k] \in S
  BY <1>4, <1>6, <1>9
<1>b. \A k \in 1 .. Len(new) : Outlasts(where[k]) /\ new[k] = Aged(msgs[where[k]])
  BY <1>7, <1>8, <1>9, <1>a DEF S
<1>c. \A j \in 1 .. Len(msgs) : Outlasts(j) => \E k \in 1 .. Len(new) : where[k] = j
  BY <1>1, <1>2, <1>5, <1>8 DEF S
<1>d. where \in [1 .. Len(new) -> 1 .. Len(msgs)]
      /\ \A j, k \in 1 .. Len(new) : j < k => where[j] < where[k]
  BY <1>2, <1>5, <1>8
<1> QED
  BY <1>3, <1>6, <1>7, <1>8, <1>b, <1>c, <1>d

LEMMA AgedFields ==
    ASSUME NEW m \in Messages, m.delay # 0
    PROVE  /\ Aged(m) \in Messages /\ Aged(m).type = m.type /\ Aged(m).from = m.from
           /\ Aged(m).to = m.to /\ Aged(m).tar = m.tar /\ Aged(m).map = "active"
<1>1. m.delay - 1 \in Nat /\ "active" \in Maps
  BY DEF Messages, Maps
<1>2. Aged(m) = [m EXCEPT !.map = "active", !.delay = m.delay - 1]
  BY DEF Aged, Messages
<1> DEFINE n == m.delay - 1
<1> HIDE DEF n
<1>3. Aged(m) = [m EXCEPT !.map = "active", !.delay = n] /\ n \in Nat
  BY <1>1, <1>2 DEF n
<1> QED
  BY <1>1, <1>3 DEF Messages

\* What is in msgs between two frames, as it comes into force.
LEMMA AgedTyped ==
    ASSUME TypeInv, ~updating, NEW j \in 1 .. Len(msgs)
    PROVE  /\ msgs[j] \in Messages /\ Shaped(msgs[j]) /\ msgs[j].delay # 0
           /\ Aged(msgs[j]) \in Messages /\ Aged(msgs[j]).type = msgs[j].type
           /\ Aged(msgs[j]).from = msgs[j].from /\ Aged(msgs[j]).to = msgs[j].to
           /\ Aged(msgs[j]).tar = msgs[j].tar /\ Aged(msgs[j]).map = "active"
<1>1. msgs[j] \in Messages /\ Shaped(msgs[j]) /\ Timely(msgs[j])
  BY DEF TypeInv, TypeOK
<1>2. msgs[j].delay # 0
  BY <1>1 DEF Timely
<1> QED
  BY <1>1, <1>2, AgedFields

LEMMA BeginTyped ==
    ASSUME TypeInv, BeginUpdate
    PROVE  TypeInv'
<1>1. ~updating /\ updating' = TRUE
      /\ UNCHANGED <<hp, state, gstate, tar, recent_pos, isReady, frame, finished>>
  BY DEF BeginUpdate
<1>2. PICK where \in [1 .. Len(msgs') -> 1 .. Len(msgs)] :
        \A k \in 1 .. Len(msgs') : Outlasts(where[k]) /\ msgs'[k] = Aged(msgs[where[k]])
  BY Aging
<1>3. DOMAIN msgs' = 1 .. Len(msgs') /\ Len(msgs') \in Nat
      /\ \A f : f = [k \in 1 .. Len(msgs') |-> msgs'[k]] => f = msgs'
  BY Aging
<1>4. ASSUME NEW k \in 1 .. Len(msgs')
      PROVE  msgs'[k] \in Messages /\ Shaped(msgs'[k]) /\ Timely(msgs[k])'
  <2> DEFINE m == msgs[where[k]]
  <2>1. /\ m \in Messages /\ Shaped(m) /\ Aged(m) \in Messages /\ Aged(m).type = m.type
        /\ Aged(m).from = m.from /\ Aged(m).to = m.to /\ Aged(m).tar = m.tar
        /\ Aged(m).map = "active"
    BY <1>1, AgedTyped
  <2>2. m.type # "clear" /\ msgs'[k] = Aged(m)
    BY <1>2 DEF Outlasts
  <2> DEFINE a == Aged(m)
  <2> HIDE DEF m, a
  <2>3. Shaped(a)
    BY <2>1, <2>2 DEF Shaped, a
  <2> QED
    BY <1>1, <2>1, <2>2, <2>3 DEF Timely, a
<1>5. msgs' \in Seq(Messages)
  <2> DEFINE n == Len(msgs')
             f == [k \in 1 .. n |-> msgs'[k]]
  <2>1. f = msgs'
    BY <1>3
  <2> HIDE DEF n
  <2>2. n \in Nat /\ \A k \in 1 .. n : msgs'[k] \in Messages
    BY <1>3, <1>4 DEF n
  <2>3. f \in [1 .. n -> Messages]
    BY <2>2
  <2>4. f \in Seq(Messages)
    BY <2>2, <2>3
  <2> QED
    BY <2>1, <2>4
<1>6. TypeOK'
  BY <1>1, <1>5 DEF TypeInv, TypeOK
<1>7. \A k \in DOMAIN msgs' : Shaped(msgs[k])' /\ Timely(msgs[k])'
  BY <1>3, <1>4 DEF Shaped
<1> QED
  BY <1>6, <1>7 DEF TypeInv

\* Of the verdicts that are out between two frames one stays, and no other.
LEMMA OneVerdictLasts ==
    ASSUME TypeInv, VerdictOut
    PROVE  \E k \in 1 .. Len(msgs) : Outlasts(k) /\ IsVerdict(msgs[k])
<1>1. DOMAIN msgs = 1 .. Len(msgs) /\ Len(msgs) \in Nat
      /\ \A k \in 1 .. Len(msgs) : msgs[k] \in Messages /\ Shaped(msgs[k])
  BY DEF TypeInv, TypeOK
<1> DEFINE Late(i) == IsVerdict(msgs[i]) /\ msgs[i].map = "delayed"
<1>2. \A j, k \in 1 .. Len(msgs) : IsVerdict(msgs[k]) => ~Clears(msgs[j], msgs[k])
  BY <1>1 DEF Clears, Shaped, IsVerdict, Verdicts
<1>3. CASE \E i \in 1 .. Len(msgs) : Late(i)
  <2> DEFINE T == {n \in Nat : \E i \in 1 .. Len(msgs) : Late(i) /\ n = Len(msgs) - i}
  <2>1. T # {} /\ T \subseteq Nat
    <3>1. PICK i \in 1 .. Len(msgs) : Late(i)
      BY <1>3
    <3>2. Len(msgs) - i \in Nat
      BY <1>1
    <3>3. Len(msgs) - i \in T
      BY <3>1, <3>2
    <3> QED
      BY <3>3
  <2>2. PICK n \in T : \A o \in T : n <= o
    BY <2>1, LeastOf
  <2>3. PICK i \in 1 .. Len(msgs) : Late(i) /\ n = Len(msgs) - i
    BY <2>2
  <2>4. ASSUME NEW j \in 1 .. Len(msgs), Late(j), j > i PROVE FALSE
    <3>1. Len(msgs) - j \in T
      <4>1. Len(msgs) - j \in Nat
        <5>1. Len(msgs) \in Nat
          BY <1>1
        <5> HIDE DEF T, Late
        <5> QED
          BY <2>4, <5>1
      <4> DEFINE o == Len(msgs) - j
      <4>2. \E k \in 1 .. Len(msgs) : Late(k) /\ o = Len(msgs) - k
        BY <2>4
      <4> HIDE DEF o, Late
      <4>3. o \in Nat /\ \E k \in 1 .. Len(msgs) : Late(k) /\ o = Len(msgs) - k
        BY <4>1, <4>2 DEF o
      <4> QED
        BY <4>3 DEF o
    <3>2. n <= Len(msgs) - j
      BY <2>2, <3>1
    <3> QED
      BY <1>1, <2>3, <2>4, <3>2
  <2>5. msgs[i].type # "clear"
    BY <2>3 DEF IsVerdict, Verdicts
  <2>6. Outlasts(i)
    BY <1>1, <1>2, <2>3, <2>4, <2>5 DEF Outlasts, IsVerdict
  <2> QED
    BY <2>3, <2>6
<1>4. CASE ~\E i \in 1 .. Len(msgs) : Late(i)
  <2>1. PICK i \in 1 .. Len(msgs) : IsVerdict(msgs[i])
    BY <1>1 DEF VerdictOut
  <2>2. msgs[i].type # "clear"
    BY <2>1 DEF IsVerdict, Verdicts
  <2>3. Outlasts(i)
    BY <1>1, <1>2, <1>4, <2>1, <2>2 DEF Outlasts, IsVerdict
  <2> QED
    BY <2>1, <2>3
<1> QED
  BY <1>3, <1>4

LEMMA BeginVerdict ==
    ASSUME TypeInv, VerdictInv, BeginUpdate
    PROVE  VerdictInv'
<1>1. ~updating /\ ~finished
      /\ UNCHANGED <<hp, state, gstate, tar, recent_pos, isReady, frame, finished>>
  BY DEF BeginUpdate
<1>2. PICK where \in [1 .. Len(msgs') -> 1 .. Len(msgs)] :
        /\ \A j, k \in 1 .. Len(msgs') : j < k => where[j] < where[k]
        /\ \A k \in 1 .. Len(msgs') : Outlasts(where[k]) /\ msgs'[k] = Aged(msgs[where[k]])
  BY Aging
<1>3. DOMAIN msgs' = 1 .. Len(msgs') /\ DOMAIN msgs = 1 .. Len(msgs)
  BY Aging DEF TypeInv, TypeOK
<1>4. Onward /\ Winners' = Winners /\ Winners = {}
  BY <1>1, FrameMoves DEF Onward, IsAlive, Winners, VerdictInv
<1>5. \A k \in DOMAIN msgs' : Justified(msgs[k])'
  <2>1. ASSUME NEW m, NEW k \in DOMAIN msgs', m = msgs'[k] PROVE Justified(m)'
    <3>1. PICK n : n = msgs[where[k]]
      OBVIOUS
    <3>2. /\ m.type = n.type /\ m.from = n.from /\ m.to = n.to /\ m.map = "active"
          /\ Justified(n)
      <4>1. where[k] \in 1 .. Len(msgs) /\ m = Aged(n)
        BY <1>2, <1>3, <2>1, <3>1
      <4>2. m.type = n.type /\ m.from = n.from /\ m.to = n.to /\ m.map = "active"
        BY <1>1, <3>1, <4>1, AgedTyped
      <4> QED
        BY <1>3, <3>1, <4>1, <4>2 DEF VerdictInv
    <3>3. Justified(n)'
      BY <1>4, <3>2, StillJustified, NumberAssumption
    <3>4. /\ m.type = "allDie" => HeroesAlive(Side(m.from))' = {}
          /\ m.type = "timeOut" => frame' > TimeLimit
      BY <3>2, <3>3 DEF Justified
    <3>5. IsVerdict(m) => \A c \in Creatures : IsAlive(c)' => c \in ToSet(m.to)
      BY <1>1, <3>2, <3>3 DEF Justified, IsVerdict
    <3> QED
      BY <1>4, <3>4, <3>5 DEF Justified, Verdict1, IsVerdict
  <2> QED
    BY <2>1, Renamed
<1>6. ASSUME NEW j \in DOMAIN msgs', NEW k \in DOMAIN msgs', Verdict1(msgs'[j]), Verdict1(msgs'[k]),
             j < k
      PROVE  FALSE
  <2> DEFINE x == where[j]
             y == where[k]
  <2>1. x \in 1 .. Len(msgs) /\ y \in 1 .. Len(msgs) /\ x < y /\ Outlasts(x) /\ Outlasts(y)
    BY <1>2, <1>3, <1>6
  <2>2. IsVerdict(msgs[x]) /\ IsVerdict(msgs[y])
    BY <1>1, <1>2, <1>3, <1>6, AgedTyped DEF Verdict1, IsVerdict
  <2> HIDE DEF x, y
  <2>3. msgs[x].map \in {"active", "delayed"} /\ msgs[y].map \in {"active", "delayed"}
    BY <1>1, <2>1, <2>2, AgedTyped DEF Messages, Maps, Shaped, IsVerdict
  <2>4. CASE msgs[y].map = "delayed"
    BY <1>3, <2>1, <2>2, <2>4 DEF Outlasts, IsVerdict
  <2>5. CASE msgs[y].map = "active" /\ msgs[x].map = "delayed"
    BY <1>3, <2>1, <2>2, <2>5 DEF Outlasts, IsVerdict
  <2>6. CASE msgs[y].map = "active" /\ msgs[x].map = "active"
    BY <1>3, <2>1, <2>2, <2>6 DEF VerdictInv, Verdict1
  <2> QED
    BY <2>3, <2>4, <2>5, <2>6
<1>7. \A j, k \in DOMAIN msgs' : Verdict1(msgs'[j]) /\ Verdict1(msgs'[k]) => j = k
  <2>1. DOMAIN msgs' \subseteq Nat
    BY <1>3
  <2> QED
    BY <1>6, <2>1
<1>8. FairVerdict' /\ (Winners' # {} => finished')
  BY <1>4, StillFair, NumberAssumption
<1> QED
  BY <1>5, <1>7, <1>8 DEF VerdictInv, Verdict1, IsVerdict

-----------------------------------------------------------------------------
(* A frame ends, or a spell is cast.                                       *)

\* What an end of a frame adds.
TimeIsUp(v) ==
    /\ Fresh(v) /\ v.type = "timeOut" /\ v.map = "delayed" /\ frame = TimeLimit
    /\ \A c \in Creatures : IsAlive(c) => c \in ToSet(v.to)

LEMMA EndOfFrame ==
    ASSUME TypeInv, EndUpdate
    PROVE  /\ updating /\ updating' = FALSE /\ Due = {}
           /\ UNCHANGED <<hp, state, gstate, tar, recent_pos, isReady, finished>>
           /\ frame \in Nat /\ frame' \in 0 .. TimeLimit + 1 /\ frame' >= frame
           /\ frame = TimeLimit => frame' > TimeLimit
           /\ msgs' = msgs \/ \E v : TimeIsUp(v) /\ msgs' = Append(msgs, v)
<1>1. /\ updating /\ updating' = FALSE /\ Due = {}
      /\ UNCHANGED <<hp, state, gstate, tar, recent_pos, isReady, finished>>
  BY DEF EndUpdate
<1>2. /\ frame \in Nat /\ frame' \in 0 .. TimeLimit + 1 /\ frame' >= frame
      /\ frame = TimeLimit => frame' > TimeLimit
  BY NumberAssumption DEF EndUpdate, TypeInv, TypeOK
<1> DEFINE alive == HeroesAlive(Creatures)
           first == CHOOSE h \in alive : h \in Friends \/ alive \cap Friends = {}
           left == {c \in Creatures : IsAlive(c)}
           v == Verdict("timeOut", first, left)
<1>3. msgs' = IF frame = TimeLimit /\ alive # {} THEN Append(msgs, v) ELSE msgs
  BY DEF EndUpdate
<1>4. ASSUME frame = TimeLimit, alive # {} PROVE TimeIsUp(v)
  <2>1. \E h \in alive : h \in Friends \/ alive \cap Friends = {}
    BY <1>4
  <2>2. first \in alive
    BY <2>1
  <2>3. first \in Creatures /\ left \subseteq Creatures /\ "timeOut" \in Verdicts
    BY <2>2, CreatureAssumption DEF HeroesAlive, Verdicts
  <2> HIDE DEF first, left
  <2>4. /\ Fresh(v) /\ v.type = "timeOut" /\ v.map = "delayed" /\ \A x \in left : x \in ToSet(v.to)
    BY <2>3, VerdictIsFresh
  <2> HIDE DEF v
  <2> QED
    BY <1>4, <2>4 DEF TimeIsUp, left
<1> QED
  BY <1>1, <1>2, <1>3, <1>4

LEMMA Appended ==
    ASSUME NEW Q, NEW q \in Seq(Q), NEW e \in Q
    PROVE  /\ Append(q, e) \in Seq(Q) /\ Len(Append(q, e)) = Len(q) + 1
           /\ DOMAIN Append(q, e) = 1 .. Len(q) + 1
           /\ \A k \in 1 .. Len(q) : Append(q, e)[k] = q[k]
           /\ Append(q, e)[Len(q) + 1] = e /\ Len(q) + 1 \in 1 .. Len(q) + 1
           /\ \A k \in 1 .. Len(q) + 1 : k \in 1 .. Len(q) \/ k = Len(q) + 1
           /\ \A k \in 1 .. Len(q) : k \in 1 .. Len(q) + 1 /\ k < Len(q) + 1
  OBVIOUS

LEMMA EndTyped ==
    ASSUME TypeInv, EndUpdate
    PROVE  TypeInv'
<1>1. /\ updating /\ updating' = FALSE /\ Due = {}
      /\ UNCHANGED <<hp, state, gstate, tar, recent_pos, isReady, finished>>
      /\ frame' \in 0 .. TimeLimit + 1
      /\ msgs' = msgs \/ \E v : TimeIsUp(v) /\ msgs' = Append(msgs, v)
  BY EndOfFrame
<1>2. msgs \in Seq(Messages) /\ DOMAIN msgs = 1 .. Len(msgs)
      /\ \A k \in 1 .. Len(msgs) : Shaped(msgs[k]) /\ Timely(msgs[k])
  BY DEF TypeInv, TypeOK
<1>3. \A k \in 1 .. Len(msgs) : msgs[k].delay # 0
  BY <1>1, <1>2 DEF Timely, Due
<1>4. msgs' \in Seq(Messages)
      /\ \A k \in 1 .. Len(msgs') : Shaped(msgs'[k]) /\ msgs'[k].delay # 0
  <2>1. CASE msgs' = msgs
    BY <1>2, <1>3, <2>1
  <2>2. ASSUME NEW v, TimeIsUp(v), msgs' = Append(msgs, v)
        PROVE  msgs' \in Seq(Messages)
               /\ \A k \in 1 .. Len(msgs') : Shaped(msgs'[k]) /\ msgs'[k].delay # 0
    <3>1. v \in Messages /\ Shaped(v) /\ v.delay # 0
      BY <2>2 DEF TimeIsUp, Fresh, Messages
    <3>2. /\ Append(msgs, v) \in Seq(Messages) /\ Len(Append(msgs, v)) = Len(msgs) + 1
          /\ \A k \in 1 .. Len(msgs) : Append(msgs, v)[k] = msgs[k]
          /\ Append(msgs, v)[Len(msgs) + 1] = v
          /\ \A k \in 1 .. Len(msgs) + 1 : k \in 1 .. Len(msgs) \/ k = Len(msgs) + 1
      BY <1>2, <3>1, Appended
    <3> QED
      BY <1>2, <1>3, <2>2, <3>1, <3>2
  <2> QED
    BY <1>1, <2>1, <2>2
<1>5. TypeOK'
  BY <1>1, <1>4 DEF TypeInv, TypeOK
<1>6. DOMAIN msgs' = 1 .. Len(msgs')
  BY <1>4
<1>7. \A k \in DOMAIN msgs' : Shaped(msgs[k])' /\ Timely(msgs[k])'
  BY <1>4, <1>6 DEF Shaped, Timely
<1> QED
  BY <1>5, <1>7 DEF TypeInv

LEMMA EndOfFrameVerdict ==
    ASSUME TypeInv, VerdictInv, EndUpdate
    PROVE  VerdictInv'
<1>1. /\ UNCHANGED <<gstate, finished>>
      /\ frame \in Nat /\ frame' \in 0 .. TimeLimit + 1 /\ frame' >= frame
      /\ frame = TimeLimit => frame' > TimeLimit
      /\ msgs' = msgs \/ \E v : TimeIsUp(v) /\ msgs' = Append(msgs, v)
  BY EndOfFrame
<1>2. msgs \in Seq(Messages) /\ DOMAIN msgs = 1 .. Len(msgs) /\ TimeLimit \in Nat
  BY NumberAssumption DEF TypeInv, TypeOK
<1>3. Onward /\ Winners' = Winners
  BY <1>1, <1>2 DEF Onward, IsAlive, Winners
<1>4. ASSUME NEW m, NEW k \in 1 .. Len(msgs), m = msgs[k] PROVE Justified(m)'
  <2>1. Justified(m)
    BY <1>2, <1>4 DEF VerdictInv
  <2> QED
    BY <1>2, <1>3, <2>1, StillJustified DEF Justified
<1>5. ASSUME NEW v, TimeIsUp(v) PROVE Justified(v)' /\ ~Verdict1(v)
  BY <1>1, <1>3, <1>5 DEF TimeIsUp, Justified, Verdict1, IsVerdict, Verdicts, IsAlive
<1>6. (\A k \in DOMAIN msgs' : Justified(msgs[k])')
      /\ \A j, k \in DOMAIN msgs' : Verdict1(msgs'[j]) /\ Verdict1(msgs'[k]) => j = k
  <2>1. CASE msgs' = msgs
    <3>1. \A k \in DOMAIN msgs' : Justified(msgs[k])'
      BY <1>2, <1>4, <2>1, Renamed
    <3>2. \A j, k \in DOMAIN msgs' : Verdict1(msgs'[j]) /\ Verdict1(msgs'[k]) => j = k
      BY <2>1 DEF VerdictInv
    <3> QED
      BY <3>1, <3>2
  <2>2. ASSUME NEW v, TimeIsUp(v), msgs' = Append(msgs, v)
        PROVE  (\A k \in DOMAIN msgs' : Justified(msgs[k])')
               /\ \A j, k \in DOMAIN msgs' : Verdict1(msgs'[j]) /\ Verdict1(msgs'[k]) => j = k
    <3>1. v \in Messages
      BY <2>2 DEF TimeIsUp, Fresh
    <3>2. /\ DOMAIN msgs' = 1 .. Len(msgs) + 1
          /\ \A k \in 1 .. Len(msgs) : msgs'[k] = msgs[k]
          /\ msgs'[Len(msgs) + 1] = v
          /\ \A k \in 1 .. Len(msgs) + 1 : k \in 1 .. Len(msgs) \/ k = Len(msgs) + 1
      BY <1>2, <2>2, <3>1, Appended
    <3>3. \A k \in DOMAIN msgs' : Justified(msgs[k])'
      <4>1. \A m : (\E k \in DOMAIN msgs' : m = msgs'[k]) => Justified(m)'
        BY <1>4, <1>5, <2>2, <3>2
      <4> QED
        BY <4>1, Renamed
    <3>4. \A j, k \in DOMAIN msgs' : Verdict1(msgs'[j]) /\ Verdict1(msgs'[k]) => j = k
      <4>1. \A k \in DOMAIN msgs' : Verdict1(msgs'[k]) =>
               k \in 1 .. Len(msgs) /\ msgs'[k] = msgs[k]
        BY <1>5, <2>2, <3>2
      <4> QED
        BY <1>2, <4>1 DEF VerdictInv
    <3> QED
      BY <3>3, <3>4
  <2> QED
    BY <1>1, <2>1, <2>2
<1>7. FairVerdict' /\ (Winners' # {} => finished')
  BY <1>2, <1>3, StillFair
<1> QED
  BY <1>6, <1>7 DEF VerdictInv, Verdict1, IsVerdict

\* Which of the messages a spell of c leaves, and what it sends.
Spared(c) == {m \in ToSet(msgs) : m.from = c /\ m.type \in Chain => m.map = "delayed"}

LEMMA SpellSends ==
    ASSUME TypeInv, NEW c \in Casters, NEW target \in Opponents(c), Spell(c, target)
    PROVE  /\ c \in Creatures /\ isReady' = [isReady EXCEPT ![c] = FALSE]
           /\ state' = [state EXCEPT ![c] = "Spelling"] /\ ~finished
           /\ UNCHANGED <<hp, gstate, tar, recent_pos, updating, frame, finished>>
           /\ \E a, b : /\ Plain(a) /\ Plain(b) /\ b.to = <<c>> /\ b.type = "spellEnd"
                        /\ msgs' = Only(Spared(c), msgs) \o <<a, b>>
<1>1. c \in Creatures /\ target \in Creatures
  BY CreatureAssumption DEF Opponents
<1>2. PICK effect \in {"freeze", "spellHurt"}, d \in Damages :
        msgs' = Only(Spared(c), msgs) \o CastSpell(c, target, effect, d)
  BY DEF Spell, Spared
<1> DEFINE a == [Message(effect, c, <<target>>, NoCreature, 1, "new") EXCEPT !.val = d]
           b == [Own("spellEnd", c, NoCreature) EXCEPT !.delay = CastTime]
<1>3. Plain(a)
  BY <1>1, BlowIsPlain
<1>4. Plain(b) /\ b.to = <<c>> /\ b.type = "spellEnd"
  BY <1>1, Delays, OwnIsPlain
<1>5. CastSpell(c, target, effect, d) = <<a, b>>
  BY DEF CastSpell
<1> HIDE DEF a, b
<1>6. \E x, y : /\ Plain(x) /\ Plain(y) /\ y.to = <<c>> /\ y.type = "spellEnd"
                /\ msgs' = Only(Spared(c), msgs) \o <<x, y>>
  BY <1>2, <1>3, <1>4, <1>5
<1> QED
  BY <1>1, <1>6 DEF Spell

\* What is there after a spell: where[k] is where the k-th of the messages has been.
SpellLeaves(c, kept, where, a, b) ==
    /\ Plain(a) /\ Plain(b) /\ b.to = <<c>> /\ b.type = "spellEnd"
    /\ kept \in Seq(Messages) /\ where \in [1 .. Len(kept) -> 1 .. Len(msgs)]
    /\ \A j, k \in 1 .. Len(kept) : j < k => where[j] < where[k]
    /\ \A k \in 1 .. Len(kept) : kept[k] = msgs[where[k]]
    /\ \A j \in 1 .. Len(msgs) :
          (msgs[j].from = c /\ msgs[j].type \in Chain => msgs[j].map = "delayed") =>
             \E k \in 1 .. Len(kept) : where[k] = j
    /\ msgs' \in Seq(Messages)
    /\ \A k \in 1 .. Len(kept) : k \in 1 .. Len(msgs') /\ msgs'[k] = kept[k]
    /\ \E k \in 1 .. Len(msgs') : msgs'[k] = b
    /\ \A k \in 1 .. Len(msgs') :
          \/ k \in 1 .. Len(kept) /\ msgs'[k] = kept[k]
          \/ msgs'[k] \in {a, b} /\ k > Len(kept)

LEMMA AfterSpell ==
    ASSUME TypeInv, NEW c \in Casters, NEW target \in Opponents(c), Spell(c, target)
    PROVE  \E kept, where, a, b : SpellLeaves(c, kept, where, a, b)
<1>1. PICK a, b : /\ Plain(a) /\ Plain(b) /\ b.to = <<c>> /\ b.type = "spellEnd"
                  /\ msgs' = Only(Spared(c), msgs) \o <<a, b>>
  BY SpellSends
<1>2. msgs \in Seq(Messages) /\ DOMAIN msgs = 1 .. Len(msgs)
  BY DEF TypeInv, TypeOK
<1> DEFINE kept == Only(Spared(c), msgs)
           two == <<a, b>>
           q == kept \o two
<1>3. kept \in Seq(Messages)
  <2>1. kept \in Seq(Spared(c) \cap Messages)
    BY <1>2, OnlySelects
  <2> QED
    BY <2>1
<1>4. PICK where \in [1 .. Len(kept) -> 1 .. Len(msgs)] :
        /\ \A j, k \in 1 .. Len(kept) : j < k => where[j] < where[k]
        /\ \A k \in 1 .. Len(kept) : kept[k] = msgs[where[k]]
        /\ \A j \in 1 .. Len(msgs) : msgs[j] \in Spared(c) <=> \E k \in 1 .. Len(kept) : where[k] = j
  BY <1>2, OnlyInOrder
<1>5. \A j \in 1 .. Len(msgs) :
        (msgs[j].from = c /\ msgs[j].type \in Chain => msgs[j].map = "delayed") =>
            \E k \in 1 .. Len(kept) : where[k] = j
  BY <1>2, <1>4 DEF Spared, ToSet
<1>6. two \in Seq(Messages) /\ Len(two) = 2 /\ two[1] = a /\ two[2] = b
  BY <1>1 DEF Plain, Fresh
<1> HIDE DEF kept, two
<1>7. /\ q \in Seq(Messages) /\ Len(q) = Len(kept) + Len(two)
      /\ \A k \in 1 .. Len(kept) : k \in 1 .. Len(q) /\ q[k] = kept[k]
      /\ \A k \in 1 .. Len(two) : /\ Len(kept) + k \in 1 .. Len(q) /\ Len(kept) + k > Len(kept)
                                   /\ q[Len(kept) + k] = two[k]
      /\ \A k \in 1 .. Len(q) :
            \/ k \in 1 .. Len(kept) /\ q[k] = kept[k]
            \/ /\ k - Len(kept) \in 1 .. Len(two) /\ Len(kept) + (k - Len(kept)) = k
               /\ q[k] = two[k - Len(kept)]
  <2>1. two \in Seq(Messages)
    BY <1>6
  <2> QED
    BY <1>3, <2>1, Joined, ZenonT(60)
<1> HIDE DEF q
<1>8. \E k \in 1 .. Len(q) : q[k] = b
  <2>1. 2 \in 1 .. Len(two)
    BY <1>6
  <2> QED
    BY <1>6, <1>7, <2>1
<1>9. \A k \in 1 .. Len(q) :
        \/ k \in 1 .. Len(kept) /\ q[k] = kept[k]
        \/ q[k] \in {a, b} /\ k > Len(kept)
  <2> SUFFICES ASSUME NEW k \in 1 .. Len(q), ~(k \in 1 .. Len(kept) /\ q[k] = kept[k])
               PROVE  q[k] \in {a, b} /\ k > Len(kept)
    OBVIOUS
  <2>1. k - Len(kept) \in 1 .. 2 /\ q[k] = two[k - Len(kept)]
    BY <1>6, <1>7
  <2>2. \A n \in 1 .. 2 : two[n] \in {a, b}
    <3>1. \A n \in 1 .. 2 : n = 1 \/ n = 2
      OBVIOUS
    <3> QED
      BY <1>6, <3>1
  <2> QED
    BY <1>7, <2>1, <2>2
<1>a. msgs' = q
  BY <1>1 DEF q, kept, two
<1>b. SpellLeaves(c, kept, where, a, b)
  BY <1>1, <1>3, <1>4, <1>5, <1>7, <1>8, <1>9, <1>a DEF SpellLeaves
<1> QED
  BY <1>b

LEMMA SpellTyped ==
    ASSUME TypeInv, NEW c \in Casters, NEW target \in Opponents(c), Spell(c, target)
    PROVE  TypeInv'
<1>1. /\ c \in Creatures /\ isReady' = [isReady EXCEPT ![c] = FALSE]
      /\ state' = [state EXCEPT ![c] = "Spelling"]
      /\ UNCHANGED <<hp, gstate, tar, recent_pos, updating, frame, finished>>
  BY SpellSends
<1>2. PICK kept, where, a, b : SpellLeaves(c, kept, where, a, b)
  BY AfterSpell
<1>3. msgs' \in Seq(Messages)
  BY <1>2 DEF SpellLeaves
<1>4. TypeOK'
  <2>1. "Spelling" \in States
    BY DEF States
  <2> QED
    BY <1>1, <1>3, <2>1 DEF TypeInv, TypeOK
<1>5. ASSUME NEW k \in 1 .. Len(msgs') PROVE Shaped(msgs'[k]) /\ Timely(msgs[k])'
  <2>1. CASE msgs'[k] \in {a, b}
    <3>1. Fresh(msgs'[k])
      BY <1>2, <2>1 DEF SpellLeaves, Plain
    <3> QED
      BY <3>1 DEF Fresh, Timely, Messages
  <2>2. CASE k \in 1 .. Len(kept) /\ msgs'[k] = kept[k]
    <3>1. where[k] \in 1 .. Len(msgs) /\ msgs'[k] = msgs[where[k]]
      BY <1>2, <2>2 DEF SpellLeaves
    <3>2. Shaped(msgs[where[k]]) /\ Timely(msgs[where[k]])
      BY <3>1 DEF TypeInv, TypeOK
    <3> QED
      BY <1>1, <3>1, <3>2 DEF Timely
  <2> QED
    BY <1>2, <2>1, <2>2 DEF SpellLeaves
<1>6. \A k \in DOMAIN msgs' : Shaped(msgs[k])' /\ Timely(msgs[k])'
  <2>1. DOMAIN msgs' = 1 .. Len(msgs')
    BY <1>3
  <2> QED
    BY <1>5, <2>1 DEF Shaped
<1> QED
  BY <1>4, <1>6 DEF TypeInv

LEMMA SpellVerdict ==
    ASSUME TypeInv, VerdictInv, NEW c \in Casters, NEW target \in Opponents(c), Spell(c, target)
    PROVE  VerdictInv'
<1>1. UNCHANGED <<gstate, frame, finished>>
  BY SpellSends
<1>2. PICK kept, where, a, b : SpellLeaves(c, kept, where, a, b)
  BY AfterSpell
<1>3. Onward /\ Winners' = Winners
  BY <1>1, FrameMoves DEF Onward, IsAlive, Winners
<1>4. msgs' \in Seq(Messages) /\ DOMAIN msgs' = 1 .. Len(msgs') /\ DOMAIN msgs = 1 .. Len(msgs)
  BY <1>2 DEF SpellLeaves, TypeInv, TypeOK
<1>5. \A m \in {a, b} : ~IsVerdict(m)
  BY <1>2 DEF SpellLeaves, Plain, IsVerdict
<1>6. ASSUME NEW k \in 1 .. Len(msgs'), IsVerdict(msgs'[k])
      PROVE  k \in 1 .. Len(kept) /\ where[k] \in 1 .. Len(msgs) /\ msgs'[k] = msgs[where[k]]
  BY <1>2, <1>5, <1>6 DEF SpellLeaves
<1>7. ASSUME NEW m, NEW k \in DOMAIN msgs', m = msgs'[k] PROVE Justified(m)'
  <2>1. CASE IsVerdict(m)
    <3>1. Justified(m)
      BY <1>4, <1>6, <1>7, <2>1 DEF VerdictInv
    <3> QED
      BY <1>3, <3>1, StillJustified, NumberAssumption DEF Justified
  <2>2. CASE ~IsVerdict(m)
    BY <2>2 DEF Justified, Verdict1, IsVerdict, Verdicts
  <2> QED
    BY <2>1, <2>2
<1>8. \A k \in DOMAIN msgs' : Justified(msgs[k])'
  BY <1>7, Renamed
<1>9. ASSUME NEW j \in DOMAIN msgs', NEW k \in DOMAIN msgs', Verdict1(msgs'[j]), Verdict1(msgs'[k])
      PROVE  j = k
  <2>1. /\ j \in 1 .. Len(kept) /\ k \in 1 .. Len(kept)
        /\ where[j] \in 1 .. Len(msgs) /\ where[k] \in 1 .. Len(msgs)
        /\ Verdict1(msgs[where[j]]) /\ Verdict1(msgs[where[k]])
    BY <1>4, <1>6, <1>9 DEF Verdict1
  <2>2. where[j] = where[k] /\ where[j] \in Nat
    BY <1>4, <2>1 DEF VerdictInv
  <2>3. ~(j < k) /\ ~(k < j)
    BY <1>2, <2>1, <2>2 DEF SpellLeaves
  <2> QED
    BY <2>1, <2>3
<1>a. FairVerdict' /\ (Winners' # {} => finished')
  BY <1>3, StillFair, NumberAssumption
<1> QED
  BY <1>8, <1>9, <1>a DEF VerdictInv, Verdict1, IsVerdict

LEMMA ShutDownVerdict ==
    ASSUME TypeInv, VerdictInv, ForceShutDown \/ UNCHANGED vars
    PROVE  VerdictInv'
<1>1. UNCHANGED <<gstate, frame, msgs>> /\ (finished => finished')
  BY DEF ForceShutDown, vars
<1>2. Onward /\ Winners' = Winners
  BY <1>1, FrameMoves DEF Onward, IsAlive, Winners
<1>3. ASSUME NEW m, NEW k \in DOMAIN msgs', m = msgs'[k] PROVE Justified(m)'
  <2>1. Justified(m)
    BY <1>1, <1>3 DEF VerdictInv
  <2> QED
    BY <1>2, <2>1, StillJustified, NumberAssumption DEF Justified
<1>4. \A k \in DOMAIN msgs' : Justified(msgs[k])'
  BY <1>3, Renamed
<1>5. FairVerdict' /\ (Winners' # {} => finished')
  BY <1>2, StillFair, NumberAssumption
<1> QED
  BY <1>1, <1>4, <1>5 DEF VerdictInv, Verdict1, IsVerdict

LEMMA ShutDownTyped ==
    ASSUME TypeInv, ForceShutDown \/ UNCHANGED vars
    PROVE  TypeInv'
<1>1. UNCHANGED <<hp, state, gstate, tar, recent_pos, isReady, msgs, updating, frame>>
      /\ finished' \in BOOLEAN
  BY DEF ForceShutDown, vars, TypeInv, TypeOK
<1> QED
  BY <1>1 DEF TypeInv, TypeOK, Shaped, Timely

LEMMA DeliverTyped ==
    ASSUME TypeInv, Deliver
    PROVE  TypeInv'
<1>1. CASE Undelivered
  <2>1. Due # {} /\ updating /\ Sends(<<>>) /\ Typed' /\ UNCHANGED <<isReady, updating, frame>>
    BY <1>1, WhoIsUndelivered
  <2> QED
    BY <2>1, DeliveryTyped
<1>2. ASSUME NEW sent, Answer(sent) PROVE TypeInv'
  <2>1. Due # {} /\ updating
    BY DEF Deliver, Undelivered, Ignored, TrafficJam, IdleCharge, MoveCharge, MoveTarget, Attack,
           AttackEnd, SpellEnd, Freeze, Thaw, HurtAndTurn, Hurt, End, Receive, Delivering
  <2> QED
    BY <1>2, <2>1, DeliveryTyped DEF Answer
<1> QED
  BY <1>1, <1>2, DeliverAnswers

\* The battle begins: each creature is told to charge.
LEMMA FirstMessages ==
    ASSUME Init
    PROVE  /\ msgs \in Seq(Messages) /\ DOMAIN msgs = 1 .. Len(msgs)
           /\ \A k \in 1 .. Len(msgs) : \E c \in Creatures : msgs[k] = Charge(c)
           /\ \A c \in Creatures : \E k \in 1 .. Len(msgs) : msgs[k] = Charge(c)
<1> DEFINE all == SetToSeq(Creatures)
           first == [k \in DOMAIN all |-> Charge(all[k])]
<1>1. all \in Seq(Creatures) /\ \A c \in Creatures : c \in ToSet(all)
  BY CreatureAssumption, AllMembers
<1>2. msgs = first
  BY DEF Init
<1> HIDE DEF all
<1>3. DOMAIN all = 1 .. Len(all) /\ Len(all) \in Nat /\ \A k \in 1 .. Len(all) : all[k] \in Creatures
  BY <1>1
<1>4. \A c \in Creatures : Charge(c) \in Messages
  BY OwnIsPlain DEF Charge, Chain, Plain, Fresh
<1>5. first \in Seq(Messages) /\ Len(first) = Len(all)
      /\ \A k \in 1 .. Len(all) : first[k] = Charge(all[k])
  BY <1>3, <1>4
<1> HIDE DEF first
<1>6. \A c \in Creatures : \E k \in 1 .. Len(first) : first[k] = Charge(c)
  BY <1>1, <1>3, <1>5 DEF ToSet
<1> QED
  BY <1>2, <1>3, <1>5, <1>6

LEMMA InitTyped == Init => TypeInv
<1> SUFFICES ASSUME Init PROVE TypeInv
  OBVIOUS
<1>1. TypeOK
  <2>1. msgs \in Seq(Messages)
    BY FirstMessages
  <2>2. /\ hp = [c \in Creatures |-> MaxHp] /\ MaxHp \in 0 .. MaxHp
        /\ state = [c \in Creatures |-> "Move"] /\ "Move" \in States
        /\ gstate = [c \in Creatures |-> "Alive"] /\ "Alive" \in GlobalStates
        /\ recent_pos = [c \in Creatures |-> 0] /\ 0 \in 0 .. HistoryPosCheck
        /\ tar = [c \in Creatures |-> NoCreature]
        /\ isReady = [c \in Creatures |-> c \in Casters]
        /\ updating = FALSE /\ frame = 0 /\ 0 \in 0 .. TimeLimit + 1 /\ finished = FALSE
    BY NumberAssumption DEF Init, States, GlobalStates
  <2>3. isReady \in [Creatures -> BOOLEAN]
    BY <2>2
  <2> QED
    BY <2>1, <2>2, <2>3 DEF TypeOK
<1>2. ASSUME NEW k \in 1 .. Len(msgs) PROVE Shaped(msgs[k]) /\ Timely(msgs[k])
  <2>1. PICK c \in Creatures : msgs[k] = Charge(c)
    BY FirstMessages
  <2>2. Fresh(Charge(c))
    BY OwnIsPlain DEF Charge, Chain, Plain
  <2> QED
    BY <2>1, <2>2 DEF Fresh, Timely, Messages
<1> QED
  BY <1>1, <1>2, FirstMessages DEF TypeInv

LEMMA InitVerdict == Init => VerdictInv
<1> SUFFICES ASSUME Init PROVE VerdictInv
  OBVIOUS
<1>1. ASSUME NEW k \in DOMAIN msgs PROVE ~IsVerdict(msgs[k])
  <2>1. PICK c \in Creatures : msgs[k] = Charge(c)
    BY <1>1, FirstMessages
  <2> QED
    BY <2>1, OwnIsPlain DEF Charge, Chain, Plain, IsVerdict
<1>2. \A k \in DOMAIN msgs : Justified(msgs[k])
  BY <1>1 DEF Justified, Verdict1, IsVerdict, Verdicts
<1>3. Winners = {}
  BY DEF Init, Winners
<1>4. FairVerdict
  BY <1>3 DEF FairVerdict
<1> QED
  BY <1>1, <1>2, <1>3, <1>4 DEF VerdictInv, Verdict1

\* Types and verdicts together.
LEMMA Invariant == Spec => [](TypeInv /\ VerdictInv)
<1>1. Init => TypeInv /\ VerdictInv
  BY InitTyped, InitVerdict
<1>2. ASSUME TypeInv, VerdictInv, [Next]_vars PROVE TypeInv' /\ VerdictInv'
  <2>1. CASE BeginUpdate
    BY <1>2, <2>1, BeginTyped, BeginVerdict
  <2>2. CASE Deliver
    BY <1>2, <2>2, DeliverTyped, DeliverVerdict
  <2>3. CASE EndUpdate
    BY <1>2, <2>3, EndTyped, EndOfFrameVerdict
  <2>4. CASE ForceShutDown \/ UNCHANGED vars
    BY <1>2, <2>4, ShutDownTyped, ShutDownVerdict
  <2>5. CASE \E c \in Casters : \E target \in Opponents(c) : Spell(c, target)
    BY <1>2, <2>5, SpellTyped, SpellVerdict
  <2> QED
    BY <1>2, <2>1, <2>2, <2>3, <2>4, <2>5 DEF Next, Update
<1> QED
  BY <1>1, <1>2, PTL DEF Spec

\* Every variable has its type, whatever the armies and the numbers of the battle.
THEOREM TypeCorrect == Spec => []TypeOK
<1>1. TypeInv => TypeOK
  BY DEF TypeInv
<1> QED
  BY <1>1, Invariant, PTL

\* There is one winning side at most, and before time is up nobody loses who has a hero
\* left, in whatever order heroes die and verdicts arrive.
THEOREM VerdictsAreFair == Spec => []FairVerdict
<1>1. VerdictInv => FairVerdict
  BY DEF VerdictInv
<1> QED
  BY <1>1, Invariant, PTL

-----------------------------------------------------------------------------
(* A defeat is noticed.                                                    *)

LEMMA OneAtMost ==
    ASSUME NEW Q, NEW q \in Seq(Q), ~(Len(q) > 1)
    PROVE  \A x \in ToSet(q) : q # <<>> /\ x = Head(q)
<1>1. ASSUME NEW k \in 1 .. Len(q) PROVE q # <<>> /\ q[k] = Head(q)
  <2>0. Len(q) \in Nat
    OBVIOUS
  <2>1. k = 1 /\ Len(q) = 1
    <3> DEFINE n == Len(q)
    <3>1. n \in Nat /\ k \in 1 .. n /\ ~(n > 1)
      BY <2>0
    <3> HIDE DEF n
    <3>2. k = 1 /\ n = 1
      BY <3>1
    <3> QED
      BY <3>2 DEF n
  <2>2. q # <<>>
    <3>1. ASSUME q = <<>> PROVE FALSE
      <4>1. Len(q) = 0
        BY <3>1, Nothing, Zenon
      <4> QED
        BY <2>1, <4>1
    <3> QED
      BY <3>1
  <2>3. Head(q) = q[1]
    BY <2>2
  <2> QED
    BY <2>1, <2>2
<1>2. DOMAIN q = 1 .. Len(q)
  OBVIOUS
<1> QED
  BY <1>1, <1>2 DEF ToSet

\* A verdict is out until somebody has obeyed it or nobody is left to.
LEMMA UndeliveredOut ==
    ASSUME TypeInv, VerdictInv, Undelivered, VerdictOut
    PROVE  VerdictOut' \/ finished \/ NobodyLeft
<1>1. /\ Due # {} /\ updating /\ Sends(<<>>) /\ gstate' = gstate /\ finished' = finished
      /\ Msg.to # <<>> => Me \in Creatures /\ gstate[Me] # "Alive"
  BY WhoIsUndelivered
<1>2. /\ msgs' \in Seq(Messages)
      /\ \A j \in 1 .. Len(msgs) : j # DueFirst => \E k \in 1 .. Len(msgs') : msgs'[k] = msgs[j]
      /\ IsLeft => \E k \in 1 .. Len(msgs') : msgs'[k] = Leftover
  BY <1>1, AfterDelivery
<1>3. DOMAIN msgs' = 1 .. Len(msgs') /\ DOMAIN msgs = 1 .. Len(msgs)
  BY <1>2 DEF TypeInv, TypeOK
<1>4. PICK j \in 1 .. Len(msgs) : IsVerdict(msgs[j])
  BY <1>3 DEF VerdictOut
<1>5. CASE j # DueFirst
  BY <1>2, <1>3, <1>4, <1>5 DEF VerdictOut, IsVerdict
<1>6. CASE j = DueFirst
  <2>1. IsVerdict(Msg) /\ Msg \in Messages /\ Msg.map = "active" /\ Justified(Msg)
    BY <1>1, <1>3, <1>4, <1>6, DueIsFirst DEF Msg, VerdictInv
  <2>2. CASE IsLeft
    <3>1. IsVerdict(Leftover)
      BY <1>1, <2>1, <2>2, LeftIsTyped DEF IsVerdict, Verdicts
    <3> QED
      BY <1>2, <1>3, <2>2, <3>1 DEF VerdictOut, IsVerdict
  <2>3. ASSUME ~IsLeft, ~finished, NEW c \in Creatures, IsAlive(c) PROVE FALSE
    <3>1. c \in ToSet(Msg.to)
      BY <2>1, <2>3 DEF Justified
    <3>2. Msg.to \in Seq(Creatures) /\ ~(Len(Msg.to) > 1)
      BY <2>1, <2>3 DEF Messages, IsLeft
    <3>3. Msg.to # <<>> /\ c = Me
      BY <3>1, <3>2, OneAtMost DEF Me
    <3>4. gstate[c] = "Victory"
      BY <1>1, <2>3, <3>3 DEF IsAlive, GlobalStates, TypeInv, TypeOK
    <3> QED
      BY <2>3, <3>4 DEF VerdictInv, Winners
  <2> QED
    BY <2>2, <2>3 DEF NobodyLeft
<1> QED
  BY <1>5, <1>6

\* Another message than a verdict leaves all verdicts out.
LEMMA AnswerOut ==
    ASSUME TypeInv, Due # {}, ~IsVerdict(Msg), NEW sent, Sends(sent)
    PROVE  /\ VerdictOut => VerdictOut'
           /\ (\E k \in 1 .. Len(sent) : IsVerdict(sent[k])) => VerdictOut'
<1>1. /\ msgs' \in Seq(Messages)
      /\ \A j \in 1 .. Len(msgs) : j # DueFirst => \E k \in 1 .. Len(msgs') : msgs'[k] = msgs[j]
      /\ \A j \in 1 .. Len(sent) : \E k \in 1 .. Len(msgs') : msgs'[k] = sent[j]
  BY AfterDelivery
<1>2. DOMAIN msgs' = 1 .. Len(msgs') /\ DOMAIN msgs = 1 .. Len(msgs)
  BY <1>1 DEF TypeInv, TypeOK
<1>3. VerdictOut => VerdictOut'
  <2> SUFFICES ASSUME NEW j \in 1 .. Len(msgs), IsVerdict(msgs[j]) PROVE VerdictOut'
    BY <1>2 DEF VerdictOut
  <2>1. j # DueFirst
    BY DEF Msg
  <2> QED
    BY <1>1, <1>2, <2>1 DEF VerdictOut, IsVerdict
<1>4. ASSUME NEW j \in 1 .. Len(sent), IsVerdict(sent[j]) PROVE VerdictOut'
  BY <1>1, <1>2, <1>4 DEF VerdictOut, IsVerdict
<1> QED
  BY <1>3, <1>4

LEMMA BeginOut ==
    ASSUME TypeInv, BeginUpdate, VerdictOut
    PROVE  VerdictOut'
<1>1. PICK j \in 1 .. Len(msgs) : Outlasts(j) /\ IsVerdict(msgs[j])
  BY OneVerdictLasts
<1>2. PICK where \in [1 .. Len(msgs') -> 1 .. Len(msgs)] :
        /\ \A k \in 1 .. Len(msgs') : Outlasts(where[k]) /\ msgs'[k] = Aged(msgs[where[k]])
        /\ \A i \in 1 .. Len(msgs) : Outlasts(i) => \E k \in 1 .. Len(msgs') : where[k] = i
  BY Aging
<1>3. DOMAIN msgs' = 1 .. Len(msgs')
  BY Aging
<1>4. PICK k \in 1 .. Len(msgs') : where[k] = j
  BY <1>1, <1>2
<1>5. msgs'[k].type = msgs[j].type
  <2>1. ~updating
    BY DEF BeginUpdate
  <2>2. Aged(msgs[j]).type = msgs[j].type
    BY <2>1, AgedTyped
  <2> QED
    BY <1>2, <1>4, <2>2
<1> QED
  BY <1>1, <1>3, <1>5 DEF VerdictOut, IsVerdict

LEMMA EndOut ==
    ASSUME TypeInv, EndUpdate, VerdictOut
    PROVE  VerdictOut'
<1>1. msgs' = msgs \/ \E v : TimeIsUp(v) /\ msgs' = Append(msgs, v)
  BY EndOfFrame
<1>2. msgs \in Seq(Messages) /\ DOMAIN msgs = 1 .. Len(msgs)
  BY DEF TypeInv, TypeOK
<1>3. PICK j \in 1 .. Len(msgs) : IsVerdict(msgs[j])
  BY <1>2 DEF VerdictOut
<1>4. CASE msgs' = msgs
  BY <1>2, <1>3, <1>4 DEF VerdictOut, IsVerdict
<1>5. ASSUME NEW v, TimeIsUp(v), msgs' = Append(msgs, v) PROVE VerdictOut'
  <2>1. v \in Messages
    BY <1>5 DEF TimeIsUp, Fresh
  <2>2. j \in DOMAIN msgs' /\ msgs'[j] = msgs[j]
    BY <1>2, <1>5, <2>1, Appended
  <2> QED
    BY <1>3, <2>2 DEF VerdictOut, IsVerdict
<1> QED
  BY <1>1, <1>4, <1>5

LEMMA SpellOut ==
    ASSUME TypeInv, NEW c \in Casters, NEW target \in Opponents(c), Spell(c, target), VerdictOut
    PROVE  VerdictOut'
<1>1. PICK kept, where, a, b : SpellLeaves(c, kept, where, a, b)
  BY AfterSpell
<1>2. msgs' \in Seq(Messages) /\ DOMAIN msgs' = 1 .. Len(msgs') /\ DOMAIN msgs = 1 .. Len(msgs)
  BY <1>1 DEF SpellLeaves, TypeInv, TypeOK
<1>3. PICK j \in 1 .. Len(msgs) : IsVerdict(msgs[j])
  BY <1>2 DEF VerdictOut
<1>4. msgs[j].type \notin Chain
  BY <1>3 DEF IsVerdict, Verdicts, Chain
<1>5. PICK k \in 1 .. Len(kept) : where[k] = j
  BY <1>1, <1>4 DEF SpellLeaves
<1>6. k \in 1 .. Len(msgs') /\ msgs'[k] = msgs[j]
  BY <1>1, <1>5 DEF SpellLeaves
<1> QED
  BY <1>2, <1>3, <1>6 DEF VerdictOut, IsVerdict

LEMMA NextNoticed ==
    ASSUME TypeInv, VerdictInv, NoticedInv, [Next]_vars
    PROVE  NoticedInv'
<1>1. ASSUME gstate' = gstate, finished => finished',
             VerdictOut => VerdictOut' \/ finished \/ NobodyLeft
      PROVE  NoticedInv'
  BY <1>1 DEF NoticedInv, HeroesAlive, IsAlive, NobodyLeft
<1>2. CASE BeginUpdate
  <2>1. gstate' = gstate /\ finished' = finished
    BY <1>2 DEF BeginUpdate
  <2> QED
    BY <1>1, <1>2, <2>1, BeginOut
<1>3. CASE EndUpdate
  <2>1. gstate' = gstate /\ finished' = finished
    BY <1>3 DEF EndUpdate
  <2> QED
    BY <1>1, <1>3, <2>1, EndOut
<1>4. CASE ForceShutDown \/ UNCHANGED vars
  <2>1. gstate' = gstate /\ (finished => finished') /\ msgs' = msgs
    BY <1>4 DEF ForceShutDown, vars
  <2> QED
    BY <1>1, <2>1 DEF VerdictOut, IsVerdict
<1>5. ASSUME NEW c \in Casters, NEW target \in Opponents(c), Spell(c, target) PROVE NoticedInv'
  <2>1. gstate' = gstate /\ finished' = finished
    BY <1>5 DEF Spell
  <2> QED
    BY <1>1, <1>5, <2>1, SpellOut
<1>6. CASE Undelivered
  <2>1. gstate' = gstate /\ finished' = finished
    BY <1>6, WhoIsUndelivered
  <2> QED
    BY <1>1, <1>6, <2>1, UndeliveredOut
<1>7. CASE End
  BY <1>7 DEF End, NoticedInv
<1>8. ASSUME Deliver, ~Undelivered, ~End PROVE NoticedInv'
  <2>1. PICK sent : Answer(sent)
    BY <1>8, DeliverAnswers
  <2>2. ~IsVerdict(Msg) /\ (Quiet(sent) \/ Death(sent)) /\ Sends(sent)
    BY <1>8, <2>1, OnlyVerdictsEnd DEF Answer
  <2>3. Due # {}
    BY <1>8 DEF Deliver, Undelivered, Ignored, TrafficJam, IdleCharge, MoveCharge, MoveTarget,
           Attack, AttackEnd, SpellEnd, Freeze, Thaw, HurtAndTurn, Hurt, End, Receive, Delivering
  <2>4. /\ VerdictOut => VerdictOut'
        /\ (\E k \in 1 .. Len(sent) : IsVerdict(sent[k])) => VerdictOut'
    BY <2>2, <2>3, AnswerOut
  <2>5. CASE Quiet(sent)
    BY <1>1, <2>4, <2>5 DEF Quiet
  <2>6. CASE Death(sent)
    <3> SUFFICES ASSUME NEW side \in {Friends, Enemies}, HeroesAlive(side)' = {}
                 PROVE  finished' \/ NobodyLeft' \/ VerdictOut'
      BY DEF NoticedInv
    <3>1. gstate' = [gstate EXCEPT ![Me] = "Dying"] /\ finished' = finished /\ Me \in Creatures
          /\ gstate \in [Creatures -> GlobalStates]
      BY <2>1, <2>6 DEF Death, Answer, TypeInv, TypeOK
    <3>2. CASE HeroesAlive(side) = {}
      <4>1. NobodyLeft => NobodyLeft'
        BY <3>1 DEF NobodyLeft, IsAlive
      <4> QED
        BY <2>4, <3>1, <3>2, <4>1 DEF NoticedInv
    <3>3. CASE HeroesAlive(side) # {}
      <4>1. \A h \in HeroesAlive(side) : h = Me
        BY <3>1, CreatureAssumption DEF HeroesAlive, IsAlive
      <4>2. Me \in Heroes /\ Me \in side
        BY <3>3, <4>1 DEF HeroesAlive
      <4>3. side = Side(Me)
        BY <4>2, CreatureAssumption DEF Side
      <4>4. IsLastHero
        BY <4>1, <4>2, <4>3 DEF IsLastHero
      <4> QED
        BY <2>4, <2>6, <4>4 DEF Death
    <3> QED
      BY <3>2, <3>3
  <2> QED
    BY <2>2, <2>5, <2>6
<1> QED
  BY <1>2, <1>3, <1>4, <1>5, <1>6, <1>7, <1>8 DEF Next, Update

\* The verdict that stays is for all who are left.
LEMMA AllWillHear ==
    ASSUME TypeInv, VerdictInv, VerdictOut, ~finished, NEW c \in Creatures, IsAlive(c)
    PROVE  IsPending(c, Verdicts)
<1>1. PICK k \in 1 .. Len(msgs) : Outlasts(k) /\ IsVerdict(msgs[k])
  BY OneVerdictLasts
<1>2. DOMAIN msgs = 1 .. Len(msgs)
  BY DEF TypeInv, TypeOK
<1>3. c \in ToSet(msgs[k].to)
  BY <1>1, <1>2 DEF VerdictInv, Justified
<1> QED
  BY <1>1, <1>2, <1>3 DEF IsPending, IsVerdict

\* When each side has begun with a hero: a side that has none left has lost, and either the
\* battle is over or a verdict is on its way to all who are left.
THEOREM DefeatIsNoticed ==
    ASSUME \A side \in {Friends, Enemies} : Heroes \cap side # {}
    PROVE  Spec => []DefeatNoticed
<1>1. Init => NoticedInv
  <2> SUFFICES ASSUME Init, NEW side \in {Friends, Enemies}, HeroesAlive(side) = {} PROVE FALSE
    BY DEF NoticedInv
  <2>1. PICK h : h \in Heroes \cap side
    OBVIOUS
  <2>2. IsAlive(h)
    BY <2>1, CreatureAssumption DEF Init, IsAlive
  <2> QED
    BY <2>1, <2>2 DEF HeroesAlive
<1>2. TypeInv /\ VerdictInv /\ NoticedInv /\ [Next]_vars => NoticedInv'
  BY NextNoticed
<1>3. TypeInv /\ VerdictInv /\ NoticedInv => DefeatNoticed
  BY AllWillHear DEF NoticedInv, DefeatNoticed, NobodyLeft
<1> QED
  BY <1>1, <1>2, <1>3, Invariant, PTL DEF Spec

-----------------------------------------------------------------------------
(* Who is told to go on.                                                   *)

LEMMA DeliveryRedirected ==
    ASSUME TypeInv, Redirected, Due # {}, updating, NEW sent, Sends(sent), Redirects(sent)
    PROVE  Redirected'
<1>1. sent \in Seq(Messages) /\ msgs' = Rest \o sent /\ Rest \in Seq(Messages)
  BY RestPlaces DEF Sends
<1>2. PICK where : Places(where)
  BY RestPlaces
<1>3. /\ where \in [1 .. Len(Rest) -> 1 .. Len(msgs)]
      /\ \A j, k \in 1 .. Len(Rest) : j < k => where[j] < where[k]
      /\ \A k \in 1 .. Len(Rest) :
            Rest[k] = IF where[k] = DueFirst THEN Leftover ELSE msgs[where[k]]
      /\ \A j \in 1 .. Len(msgs) :
            (j # DueFirst \/ IsLeft) <=> \E k \in 1 .. Len(Rest) : where[k] = j
  BY <1>2 DEF Places
<1>4. DOMAIN msgs = 1 .. Len(msgs) /\ Msg.map = "active" /\ msgs[DueFirst] = Msg
      /\ DueFirst \in 1 .. Len(msgs)
  BY DueIsFirst DEF TypeInv, TypeOK, Msg
<1> DEFINE r == Rest
           q == r \o sent
<1> HIDE DEF r
<1>5. /\ q \in Seq(Messages) /\ Len(q) = Len(r) + Len(sent)
      /\ \A k \in 1 .. Len(r) : k \in 1 .. Len(q) /\ q[k] = r[k]
      /\ \A k \in 1 .. Len(sent) : /\ Len(r) + k \in 1 .. Len(q) /\ Len(r) + k > Len(r)
                                   /\ q[Len(r) + k] = sent[k]
      /\ \A k \in 1 .. Len(q) :
            \/ k \in 1 .. Len(r) /\ q[k] = r[k]
            \/ /\ k - Len(r) \in 1 .. Len(sent) /\ Len(r) + (k - Len(r)) = k
               /\ q[k] = sent[k - Len(r)]
  BY <1>1, Joined DEF r
<1> HIDE DEF q
<1>6. DOMAIN q = 1 .. Len(q) /\ msgs' = q /\ Len(r) \in Nat /\ Len(q) \in Nat
  BY <1>1, <1>5 DEF q, r
<1>a. DOMAIN msgs' = 1 .. Len(msgs')
  BY <1>6
<1> SUFFICES ASSUME NEW c \in Creatures, NEW i \in 1 .. Len(msgs'), IsClearOf(msgs'[i], c)
             PROVE  \E k \in 1 .. Len(msgs') :
                       /\ msgs'[k].type = "move" /\ msgs'[k].map = "delayed" /\ msgs'[k].to = <<c>>
                       /\ \A j \in 1 .. Len(msgs') : IsClearOf(msgs'[j], c) => j < k
  BY <1>a, SMTT(30) DEF Redirected, Clearing, IsClearOf
<1> SUFFICES ASSUME i \in 1 .. Len(q), IsClearOf(q[i], c)
             PROVE  \E k \in 1 .. Len(q) :
                       /\ q[k].type = "move" /\ q[k].map = "delayed" /\ q[k].to = <<c>>
                       /\ \A j \in 1 .. Len(q) : IsClearOf(q[j], c) => j < k
  BY <1>6
<1>7. CASE \E j \in 1 .. Len(sent) : IsClearOf(sent[j], c)
  <2>1. c = Me
    BY <1>7 DEF Redirects, IsClearOf
  <2>2. PICK k \in 1 .. Len(sent) :
          /\ sent[k].type = "move" /\ sent[k].map = "delayed" /\ sent[k].to = <<Me>>
          /\ \A j \in 1 .. Len(sent) : sent[j].type = "clear" => j < k
    BY <1>7 DEF Redirects, IsClearOf
  <2>3. Len(r) + k \in 1 .. Len(q) /\ q[Len(r) + k] = sent[k] /\ Len(r) + k > Len(r)
    BY <1>5
  <2>4. ASSUME NEW j \in 1 .. Len(q), IsClearOf(q[j], c) PROVE j < Len(r) + k
    <3>1. CASE j \in 1 .. Len(r)
      BY <1>6, <3>1
    <3>2. CASE j - Len(r) \in 1 .. Len(sent) /\ q[j] = sent[j - Len(r)]
      <4>1. j - Len(r) < k
        BY <2>2, <2>4, <3>2 DEF IsClearOf
      <4>2. j \in Nat /\ k \in Nat
        BY <1>1, <1>6
      <4> QED
        BY <1>6, <4>1, <4>2
    <3> QED
      BY <1>5, <3>1, <3>2
  <2> QED
    BY <2>1, <2>2, <2>3, <2>4
<1>8. CASE ~\E j \in 1 .. Len(sent) : IsClearOf(sent[j], c)
  <2>1. ASSUME NEW j \in 1 .. Len(q), IsClearOf(q[j], c)
        PROVE  j \in 1 .. Len(r) /\ where[j] \in 1 .. Len(msgs) /\ IsClearOf(msgs[where[j]], c)
    <3>1. j \in 1 .. Len(r) /\ q[j] = r[j]
      BY <1>5, <1>8, <2>1
    <3>2. where[j] \in 1 .. Len(msgs)
      BY <1>3, <3>1 DEF r
    <3>3. where[j] # DueFirst
      <4> SUFFICES ASSUME where[j] = DueFirst PROVE FALSE
        OBVIOUS
      <4>1. IsLeft /\ q[j] = Leftover
        BY <1>3, <1>4, <3>1 DEF r
      <4>2. Leftover.type # "clear"
        BY <4>1, LeftIsTyped DEF IsVerdict, Verdicts
      <4> QED
        BY <2>1, <4>1, <4>2 DEF IsClearOf
    <3> QED
      BY <1>3, <2>1, <3>1, <3>2, <3>3 DEF r
  <2>2. Clearing(c)
    BY <1>4, <2>1 DEF Clearing
  <2>3. PICK k \in 1 .. Len(msgs) :
          /\ msgs[k].type = "move" /\ msgs[k].map = "delayed" /\ msgs[k].to = <<c>>
          /\ \A j \in 1 .. Len(msgs) : IsClearOf(msgs[j], c) => j < k
    BY <1>4, <2>2 DEF Redirected
  <2>4. k # DueFirst
    BY <1>4, <2>3
  <2>5. PICK n \in 1 .. Len(r) : where[n] = k
    BY <1>3, <2>4 DEF r
  <2>6. n \in 1 .. Len(q) /\ q[n] = msgs[k]
    BY <1>3, <1>5, <2>4, <2>5 DEF r
  <2>7. ASSUME NEW j \in 1 .. Len(q), IsClearOf(q[j], c) PROVE j < n
    <3>0. j \in 1 .. Len(r) /\ where[j] \in 1 .. Len(msgs) /\ IsClearOf(msgs[where[j]], c)
      BY <2>1, <2>7
    <3>1. j \in 1 .. Len(r) /\ where[j] < k /\ where[j] \in Nat /\ k \in Nat
      BY <2>3, <3>0
    <3>2. j # n
      BY <2>5, <3>1
    <3>3. ~(n < j)
      <4>1. n < j => where[n] < where[j]
        BY <1>3, <2>5, <3>0 DEF r
      <4> QED
        BY <2>5, <3>1, <4>1
    <3>4. j \in Nat /\ n \in Nat
      <4>1. n \in 1 .. Len(r) /\ j \in 1 .. Len(r)
        BY <2>5, <3>0
      <4> QED
        BY <4>1
    <3> QED
      BY <3>2, <3>3, <3>4
  <2> QED
    BY <2>3, <2>6, <2>7
<1> QED
  BY <1>7, <1>8

LEMMA NextRedirected ==
    ASSUME TypeInv, Redirected, [Next]_vars
    PROVE  Redirected'
<1>0. msgs \in Seq(Messages) /\ DOMAIN msgs = 1 .. Len(msgs)
  BY DEF TypeInv, TypeOK
<1>1. CASE BeginUpdate
  <2>1. ~updating
    BY <1>1 DEF BeginUpdate
  <2>2. PICK where \in [1 .. Len(msgs') -> 1 .. Len(msgs)] :
          \A k \in 1 .. Len(msgs') : Outlasts(where[k]) /\ msgs'[k] = Aged(msgs[where[k]])
    BY <1>1, Aging
  <2>3. DOMAIN msgs' = 1 .. Len(msgs')
    BY <1>1, Aging
  <2>4. \A k \in 1 .. Len(msgs') : msgs'[k].type # "clear"
    BY <2>1, <2>2, AgedTyped DEF Outlasts
  <2> QED
    BY <2>3, <2>4 DEF Redirected, Clearing, IsClearOf
<1>2. CASE EndUpdate
  <2>1. CASE msgs' = msgs
    BY <2>1 DEF Redirected, Clearing, IsClearOf
  <2>2. ASSUME NEW v, TimeIsUp(v), msgs' = Append(msgs, v) PROVE Redirected'
    <3>1. v \in Messages /\ v.type # "clear"
      BY <2>2 DEF TimeIsUp, Fresh
    <3>2. /\ DOMAIN msgs' = 1 .. Len(msgs) + 1
          /\ \A k \in 1 .. Len(msgs) : msgs'[k] = msgs[k] /\ k \in 1 .. Len(msgs) + 1
          /\ msgs'[Len(msgs) + 1] = v
          /\ \A k \in 1 .. Len(msgs) + 1 : k \in 1 .. Len(msgs) \/ k = Len(msgs) + 1
      BY <1>0, <2>2, <3>1, Appended
    <3>3. \A c : \A k \in DOMAIN msgs' : IsClearOf(msgs'[k], c) =>
             k \in DOMAIN msgs /\ IsClearOf(msgs[k], c)
      BY <1>0, <3>1, <3>2 DEF IsClearOf
    <3>4. \A k \in DOMAIN msgs : k \in DOMAIN msgs' /\ msgs'[k] = msgs[k]
      BY <1>0, <3>2
    <3> QED
      BY <3>3, <3>4 DEF Redirected, Clearing, IsClearOf
  <2> QED
    BY <1>2, <2>1, <2>2, EndOfFrame
<1>3. CASE ForceShutDown \/ UNCHANGED vars
  BY <1>3 DEF ForceShutDown, vars, Redirected, Clearing, IsClearOf
<1>4. ASSUME NEW d \in Casters, NEW target \in Opponents(d), Spell(d, target) PROVE Redirected'
  <2>1. PICK kept, where, a, b : SpellLeaves(d, kept, where, a, b)
    BY <1>4, AfterSpell
  <2>2. DOMAIN msgs' = 1 .. Len(msgs')
    BY <2>1 DEF SpellLeaves
  <2>3. \A m \in {a, b} : m.type # "clear"
    BY <2>1 DEF SpellLeaves, Plain
  <2>4. ASSUME NEW c, NEW k \in 1 .. Len(msgs'), IsClearOf(msgs'[k], c)
        PROVE  k \in 1 .. Len(kept) /\ where[k] \in 1 .. Len(msgs) /\ IsClearOf(msgs[where[k]], c)
    BY <2>1, <2>3, <2>4 DEF SpellLeaves, IsClearOf
  <2> SUFFICES ASSUME NEW c \in Creatures, NEW i \in 1 .. Len(msgs'), IsClearOf(msgs'[i], c)
               PROVE  \E k \in 1 .. Len(msgs') :
                       /\ msgs'[k].type = "move" /\ msgs'[k].map = "delayed" /\ msgs'[k].to = <<c>>
                       /\ \A j \in 1 .. Len(msgs') : IsClearOf(msgs'[j], c) => j < k
    BY <2>2 DEF Redirected, Clearing, IsClearOf
  <2>5. Clearing(c)
    BY <1>0, <2>4 DEF Clearing
  <2>6. PICK k \in 1 .. Len(msgs) :
          /\ msgs[k].type = "move" /\ msgs[k].map = "delayed" /\ msgs[k].to = <<c>>
          /\ \A j \in 1 .. Len(msgs) : IsClearOf(msgs[j], c) => j < k
    BY <1>0, <2>5 DEF Redirected
  <2>7. PICK n \in 1 .. Len(kept) : where[n] = k
    BY <2>1, <2>6 DEF SpellLeaves
  <2>8. n \in 1 .. Len(msgs') /\ msgs'[n] = msgs[k]
    BY <2>1, <2>7 DEF SpellLeaves
  <2>9. ASSUME NEW j \in 1 .. Len(msgs'), IsClearOf(msgs'[j], c) PROVE j < n
    <3>0. j \in 1 .. Len(kept) /\ where[j] \in 1 .. Len(msgs) /\ IsClearOf(msgs[where[j]], c)
      BY <2>4, <2>9
    <3>1. j \in 1 .. Len(kept) /\ where[j] < k /\ where[j] \in Nat /\ k \in Nat
      BY <2>6, <3>0
    <3>2. j # n
      BY <2>7, <3>1
    <3>3. ~(n < j)
      BY <2>1, <2>7, <3>1 DEF SpellLeaves
    <3>4. j \in Nat /\ n \in Nat
      BY <2>1, <3>1 DEF SpellLeaves
    <3> QED
      BY <3>2, <3>3, <3>4
  <2> QED
    BY <2>6, <2>8, <2>9
<1>5. CASE Deliver
  <2>1. Due # {} /\ updating
    BY <1>5 DEF Deliver, Undelivered, Ignored, TrafficJam, IdleCharge, MoveCharge, MoveTarget,
           Attack, AttackEnd, SpellEnd, Freeze, Thaw, HurtAndTurn, Hurt, End, Receive, Delivering
  <2>2. CASE Undelivered
    <3>1. Sends(<<>>) /\ Redirects(<<>>)
      BY <2>2, WhoIsUndelivered, Nothing DEF Redirects
    <3> QED
      BY <2>1, <3>1, DeliveryRedirected
  <2>3. ASSUME NEW sent, Answer(sent) PROVE Redirected'
    BY <2>1, <2>3, DeliveryRedirected DEF Answer
  <2> QED
    BY <1>5, <2>2, <2>3, DeliverAnswers
<1> QED
  BY <1>1, <1>2, <1>3, <1>4, <1>5 DEF Next, Update

-----------------------------------------------------------------------------
(* Who keeps moving.                                                       *)

LEMMA HearsFinite ==
    ASSUME TypeInv, NEW c
    PROVE  IsFiniteSet(Hears(c)) /\ Cardinality(Hears(c)) \in Nat
<1>1. Hears(c) \in SUBSET (1 .. Len(msgs)) /\ 1 \in Int /\ Len(msgs) \in Int
  BY DEF Hears, Due, TypeInv, TypeOK
<1>2. IsFiniteSet(1 .. Len(msgs))
  BY <1>1, FS_Interval
<1>3. IsFiniteSet(Hears(c))
  BY <1>1, <1>2, FS_Subset
<1> QED
  BY <1>3, FS_CardinalityType

LEMMA FewerBy ==
    ASSUME NEW S, NEW T, IsFiniteSet(T), NEW where, \A k \in S : where[k] \in T,
           \A j, k \in S : where[j] = where[k] => j = k
    PROVE  /\ IsFiniteSet(S) /\ Cardinality(S) \in Nat /\ Cardinality(T) \in Nat
           /\ Cardinality(S) <= Cardinality(T)
<1> DEFINE f == [k \in S |-> where[k]]
<1>1. f \in [S -> T] /\ \A j, k \in S : f[j] = f[k] => j = k
  OBVIOUS
<1>2. f \in Injection(S, T)
  BY <1>1 DEF Injection, IsInjective
<1>3. IsFiniteSet(S) /\ Cardinality(S) <= Cardinality(T)
  BY <1>2, FS_Injection
<1> QED
  BY <1>3, FS_CardinalityType

\* A delivery leaves a creature no more to hear of the frame, and its receiver less.
LEMMA HearsLess ==
    ASSUME TypeInv, Due # {}, updating, NEW sent, Sends(sent), NEW c
    PROVE  /\ Cardinality(Hears(c)') \in Nat /\ Cardinality(Hears(c)) \in Nat
           /\ Cardinality(Hears(c)') <= Cardinality(Hears(c))
           /\ Msg.to = <<c>> => Cardinality(Hears(c)') + 1 <= Cardinality(Hears(c))
<1>1. sent \in Seq(Messages) /\ msgs' = Rest \o sent /\ Rest \in Seq(Messages)
      /\ \A k \in 1 .. Len(sent) : sent[k].delay # 0
  BY RestPlaces DEF Sends, Fresh
<1>2. PICK where : Places(where)
  BY RestPlaces
<1>3. /\ where \in [1 .. Len(Rest) -> 1 .. Len(msgs)]
      /\ \A j, k \in 1 .. Len(Rest) : j < k => where[j] < where[k]
      /\ \A k \in 1 .. Len(Rest) :
            Rest[k] = IF where[k] = DueFirst THEN Leftover ELSE msgs[where[k]]
      /\ \A j \in 1 .. Len(msgs) :
            (j # DueFirst \/ IsLeft) <=> \E k \in 1 .. Len(Rest) : where[k] = j
  BY <1>2 DEF Places
<1>4. DOMAIN msgs = 1 .. Len(msgs) /\ Msg.map = "active" /\ Msg.delay = 0 /\ msgs[DueFirst] = Msg
      /\ DueFirst \in 1 .. Len(msgs)
  BY DueIsFirst DEF TypeInv, TypeOK, Msg
<1> DEFINE r == Rest
           q == r \o sent
<1> HIDE DEF r
<1>5. /\ q \in Seq(Messages) /\ Len(r) \in Nat
      /\ \A k \in 1 .. Len(q) :
            \/ k \in 1 .. Len(r) /\ q[k] = r[k]
            \/ /\ k - Len(r) \in 1 .. Len(sent) /\ Len(r) + (k - Len(r)) = k
               /\ q[k] = sent[k - Len(r)]
  BY <1>1, Joined DEF r
<1>6. msgs' = q /\ DOMAIN q = 1 .. Len(q)
  BY <1>1, <1>5 DEF r
<1> HIDE DEF q
<1> DEFINE S == {k \in 1 .. Len(q) : q[k].map = "active" /\ q[k].delay = 0 /\ c \in ToSet(q[k].to)}
<1>7. Hears(c)' = S
  BY <1>6 DEF Hears, Due
<1>8. ASSUME NEW k \in S
      PROVE  /\ k \in 1 .. Len(r) /\ where[k] \in Hears(c)
             /\ Msg.to = <<c>> => where[k] # DueFirst
  <2>1. k \in 1 .. Len(r) /\ q[k] = r[k]
    BY <1>1, <1>5
  <2>2. where[k] \in 1 .. Len(msgs) /\ q[k] = IF where[k] = DueFirst THEN Leftover ELSE msgs[where[k]]
    BY <1>3, <2>1 DEF r
  <2>3. CASE where[k] # DueFirst
    BY <1>4, <2>1, <2>2, <2>3 DEF Hears, Due
  <2>4. CASE where[k] = DueFirst
    <3>1. IsLeft
      BY <1>3, <1>4, <2>1, <2>4 DEF r
    <3>2. q[k] = Leftover
      BY <2>2, <2>4
    <3>3. Len(Msg.to) > 1
      <4> SUFFICES ASSUME ~(Len(Msg.to) > 1) PROVE FALSE
        OBVIOUS
      <4>1. Leftover = [Msg EXCEPT !.type = "thaw", !.delay = FreezeTime]
        BY DEF Leftover
      <4>2. Msg \in Messages
        BY DueIsFirst
      <4>3. Leftover.delay = FreezeTime
        BY <4>1, <4>2 DEF Messages
      <4> QED
        BY <3>2, <4>3, Delays
    <3>4. Leftover.to = Tail(Msg.to) /\ Msg.to \in Seq(Creatures)
      <4>1. Msg \in Messages
        BY DueIsFirst
      <4>2. Leftover = [Msg EXCEPT !.to = Tail(Msg.to)]
        BY <3>3 DEF Leftover
      <4> QED
        BY <4>1, <4>2 DEF Messages
    <3>5. c \in ToSet(Tail(Msg.to))
      BY <3>2, <3>4
    <3>6. c \in ToSet(Msg.to)
      <4> DEFINE to == Msg.to
      <4> HIDE DEF to
      <4>1. to \in Seq(Creatures) /\ Len(to) > 1 /\ c \in ToSet(Tail(to))
        BY <3>3, <3>4, <3>5 DEF to
      <4>2. PICK i \in DOMAIN Tail(to) : c = Tail(to)[i]
        BY <4>1 DEF ToSet
      <4>3. i + 1 \in DOMAIN to /\ c = to[i + 1]
        BY <4>1, <4>2
      <4> QED
        BY <4>3 DEF ToSet, to
    <3>7. DueFirst \in Hears(c)
      BY <1>4, <3>6 DEF Hears, Due
    <3>8. Msg.to # <<c>>
      <4> SUFFICES ASSUME Msg.to = <<c>> PROVE FALSE
        OBVIOUS
      <4>1. Len(Msg.to) = 1
        BY Singles
      <4> QED
        BY <3>3, <4>1
    <3> QED
      BY <2>1, <2>4, <3>7, <3>8
  <2> QED
    BY <2>3, <2>4
<1> HIDE DEF S
<1>9. \A j, k \in S : where[j] = where[k] => j = k
  <2> SUFFICES ASSUME NEW j \in S, NEW k \in S, where[j] = where[k] PROVE j = k
    OBVIOUS
  <2>1. j \in 1 .. Len(r) /\ k \in 1 .. Len(r)
    BY <1>8
  <2>2. where[j] \in 1 .. Len(msgs)
    BY <1>3, <2>1 DEF r
  <2>3. ~(j < k) /\ ~(k < j)
    BY <1>3, <2>1, <2>2 DEF r
  <2> QED
    BY <1>5, <2>1, <2>3
<1>a. IsFiniteSet(Hears(c)) /\ Cardinality(Hears(c)) \in Nat
  BY HearsFinite
<1>b. Cardinality(S) \in Nat /\ Cardinality(S) <= Cardinality(Hears(c))
  BY <1>8, <1>9, <1>a, FewerBy
<1>c. ASSUME Msg.to = <<c>> PROVE Cardinality(S) + 1 <= Cardinality(Hears(c))
  <2>1. DueFirst \in Hears(c)
    BY <1>4, <1>c, Singles DEF Hears, Due
  <2> DEFINE T == Hears(c) \ {DueFirst}
  <2>2. IsFiniteSet(T) /\ Cardinality(T) = Cardinality(Hears(c)) - 1
    BY <1>a, <2>1, FS_RemoveElement
  <2>3. \A k \in S : where[k] \in T
    BY <1>8, <1>c
  <2> HIDE DEF T
  <2>4. Cardinality(S) <= Cardinality(T)
    BY <1>9, <2>2, <2>3, FewerBy
  <2> QED
    BY <1>a, <1>b, <2>2, <2>4
<1> QED
  BY <1>7, <1>a, <1>b, <1>c

\* The clearings after a delivery.
LEMMA ClearingsSent ==
    ASSUME TypeInv, Due # {}, updating, NEW sent, Sends(sent), NEW c, Clearing(c)'
    PROVE  Clearing(c) \/ \E k \in 1 .. Len(sent) : IsClearOf(sent[k], c)
<1>1. /\ msgs' \in Seq(Messages)
      /\ \A k \in 1 .. Len(msgs') :
            \/ \E j \in 1 .. Len(msgs) : j # DueFirst /\ msgs'[k] = msgs[j]
            \/ IsLeft /\ msgs'[k] = Leftover
            \/ \E j \in 1 .. Len(sent) : msgs'[k] = sent[j]
  BY AfterDelivery
<1>0. DOMAIN msgs = 1 .. Len(msgs) /\ DOMAIN msgs' = 1 .. Len(msgs')
  BY <1>1 DEF TypeInv, TypeOK
<1>2. PICK k \in 1 .. Len(msgs') : IsClearOf(msgs'[k], c)
  BY <1>0 DEF Clearing, IsClearOf
<1>3. IsLeft => Leftover.type # "clear"
  BY LeftIsTyped DEF IsVerdict, Verdicts
<1> QED
  BY <1>0, <1>1, <1>2, <1>3 DEF Clearing, IsClearOf

LEMMA UndeliveredKeepsMoving ==
    ASSUME TypeInv, KeepsMoving, Undelivered
    PROVE  KeepsMoving'
<1>1. /\ Due # {} /\ updating /\ Sends(<<>>) /\ UNCHANGED <<state, gstate, finished>>
      /\ recent_pos' = recent_pos
  BY WhoIsUndelivered DEF Undelivered
<1> SUFFICES ASSUME NEW c \in Creatures, Clearing(c)', gstate'[c] = "Alive", ~finished'
             PROVE  state'[c] # "Idle" /\ recent_pos'[c] + Cardinality(Hears(c)') < HistoryPosCheck
  BY DEF KeepsMoving
<1>2. Clearing(c)
  BY <1>1, ClearingsSent, Nothing
<1>3. state[c] # "Idle" /\ recent_pos[c] + Cardinality(Hears(c)) < HistoryPosCheck
  BY <1>1, <1>2 DEF KeepsMoving
<1>4. /\ Cardinality(Hears(c)') \in Nat /\ Cardinality(Hears(c)) \in Nat
      /\ Cardinality(Hears(c)') <= Cardinality(Hears(c))
  BY <1>1, HearsLess
<1>5. recent_pos[c] \in Nat /\ HistoryPosCheck \in Nat
  BY NumberAssumption DEF TypeInv, TypeOK
<1> QED
  BY <1>1, <1>3, <1>4, <1>5

LEMMA AnswerKeepsMoving ==
    ASSUME TypeInv, KeepsMoving, FewAtOnce, Due # {}, updating, ~IsVerdict(Msg), NEW sent, Answer(sent),
           Quiet(sent) \/ Death(sent)
    PROVE  KeepsMoving'
<1>1. /\ Sends(sent) /\ Redirects(sent) /\ Counts(sent) /\ Me \in Creatures /\ Msg.to # <<>>
      /\ \A c \in Creatures \ {Me} : state'[c] = state[c]
  BY DEF Answer
<1>2. Msg.to = <<Me>>
  <2>1. Msg \in Messages /\ Shaped(Msg) /\ Msg.type # "clear"
    BY <1>1, DueIsFirst DEF Shaped
  <2>2. PICK d \in Creatures : Msg.to = <<d>>
    BY <2>1, ForOne
  <2> QED
    BY <2>2, Singles DEF Me
<1>3. finished' = finished /\ gstate \in [Creatures -> GlobalStates]
      /\ (gstate' = gstate \/ gstate' = [gstate EXCEPT ![Me] = "Dying"])
  BY DEF Quiet, Death, TypeInv, TypeOK
<1> SUFFICES ASSUME NEW c \in Creatures, Clearing(c)', gstate'[c] = "Alive", ~finished'
             PROVE  state'[c] # "Idle" /\ recent_pos'[c] + Cardinality(Hears(c)') < HistoryPosCheck
  BY DEF KeepsMoving
<1>4. gstate[c] = "Alive" /\ ~finished
  BY <1>1, <1>3
<1>5. /\ Cardinality(Hears(c)') \in Nat /\ Cardinality(Hears(c)) \in Nat
      /\ Cardinality(Hears(c)') <= Cardinality(Hears(c))
      /\ c = Me => Cardinality(Hears(c)') + 1 <= Cardinality(Hears(c))
  BY <1>1, <1>2, HearsLess
<1>6. recent_pos[c] \in Nat /\ recent_pos[Me] \in Nat /\ HistoryPosCheck \in Nat
  BY <1>1, NumberAssumption DEF TypeInv, TypeOK
<1>7. CASE \E k \in 1 .. Len(sent) : IsClearOf(sent[k], c)
  <2>1. c = Me
    BY <1>1, <1>7 DEF Redirects, IsClearOf
  <2>2. state'[Me] = "Move" /\ recent_pos'[Me] = 0
    BY <1>1, <1>7, <2>1 DEF Counts, IsClearOf
  <2>3. Cardinality(Hears(c)) <= HistoryPosCheck
    BY DEF FewAtOnce
  <2> QED
    BY <1>5, <1>6, <2>1, <2>2, <2>3
<1>8. CASE ~\E k \in 1 .. Len(sent) : IsClearOf(sent[k], c)
  <2>1. Clearing(c)
    BY <1>1, <1>8, ClearingsSent
  <2>2. state[c] # "Idle" /\ recent_pos[c] + Cardinality(Hears(c)) < HistoryPosCheck
    BY <1>4, <2>1 DEF KeepsMoving
  <2>3. CASE c # Me
    <3>1. state'[c] = state[c] /\ recent_pos'[c] = recent_pos[c]
      BY <1>1, <2>3 DEF Counts
    <3> QED
      BY <1>5, <1>6, <2>2, <3>1
  <2>4. CASE c = Me
    <3>1. recent_pos[Me] + 1 < HistoryPosCheck
      BY <1>5, <1>6, <2>2, <2>4
    <3>2. Remembers = recent_pos[Me] + 1
      BY <1>6, <3>1 DEF Remembers
    <3>3. state'[c] # "Idle"
      BY <1>1, <1>6, <2>2, <2>4, <3>1, <3>2 DEF Counts
    <3>4. recent_pos'[c] \in Nat /\ recent_pos'[c] <= recent_pos[c] + 1
      BY <1>1, <1>6, <2>4, <3>2 DEF Counts
    <3> QED
      BY <1>5, <1>6, <2>2, <2>4, <3>3, <3>4
  <2> QED
    BY <2>3, <2>4
<1> QED
  BY <1>7, <1>8

\* A step that delivers nothing, and sends nothing that is due or clears orders.
LEMMA LeavesMoving ==
    ASSUME TypeInv, KeepsMoving, UNCHANGED <<gstate, recent_pos>>, finished => finished',
           \A c \in Creatures : state'[c] # "Idle" \/ state'[c] = state[c],
           \A c \in Creatures : Clearing(c)' => Clearing(c),
           \A c \in Creatures : Hears(c)' = Hears(c) \/ Hears(c)' = {}
    PROVE  KeepsMoving'
<1> SUFFICES ASSUME NEW c \in Creatures, Clearing(c)', gstate'[c] = "Alive", ~finished'
             PROVE  state'[c] # "Idle" /\ recent_pos'[c] + Cardinality(Hears(c)') < HistoryPosCheck
  BY DEF KeepsMoving
<1>1. state[c] # "Idle" /\ recent_pos[c] + Cardinality(Hears(c)) < HistoryPosCheck
  BY DEF KeepsMoving
<1>2. recent_pos[c] \in Nat /\ HistoryPosCheck \in Nat /\ Cardinality(Hears(c)) \in Nat
  BY HearsFinite, NumberAssumption DEF TypeInv, TypeOK
<1>3. Cardinality(Hears(c)') = Cardinality(Hears(c)) \/ Cardinality(Hears(c)') = 0
  BY FS_EmptySet
<1> QED
  BY <1>1, <1>2, <1>3

LEMMA NextKeepsMoving ==
    ASSUME TypeInv, KeepsMoving, FewAtOnce, [Next]_vars
    PROVE  KeepsMoving'
<1>0. msgs \in Seq(Messages) /\ DOMAIN msgs = 1 .. Len(msgs)
  BY DEF TypeInv, TypeOK
<1>1. CASE BeginUpdate
  <2>1. ~updating
    BY <1>1 DEF BeginUpdate
  <2>2. PICK where \in [1 .. Len(msgs') -> 1 .. Len(msgs)] :
          \A k \in 1 .. Len(msgs') : Outlasts(where[k]) /\ msgs'[k] = Aged(msgs[where[k]])
    BY <1>1, Aging
  <2>3. DOMAIN msgs' = 1 .. Len(msgs')
    BY <1>1, Aging
  <2>4. \A k \in 1 .. Len(msgs') : msgs'[k].type # "clear"
    BY <2>1, <2>2, AgedTyped DEF Outlasts
  <2> QED
    BY <2>3, <2>4 DEF KeepsMoving, Clearing, IsClearOf
<1>2. CASE EndUpdate
  <2>1. UNCHANGED <<gstate, recent_pos, finished, state>> /\ Due = {}
    BY <1>2, EndOfFrame
  <2>2. CASE msgs' = msgs
    <3>1. \A c : (Clearing(c)' => Clearing(c)) /\ Hears(c)' = Hears(c)
      BY <2>2 DEF Clearing, IsClearOf, Hears, Due
    <3> QED
      BY <2>1, <3>1, LeavesMoving
  <2>3. ASSUME NEW v, TimeIsUp(v), msgs' = Append(msgs, v) PROVE KeepsMoving'
    <3>1. v \in Messages /\ v.type # "clear" /\ v.delay # 0
      BY <2>3 DEF TimeIsUp, Fresh
    <3>2. /\ DOMAIN msgs' = 1 .. Len(msgs) + 1
          /\ \A k \in 1 .. Len(msgs) : msgs'[k] = msgs[k] /\ k \in 1 .. Len(msgs) + 1
          /\ msgs'[Len(msgs) + 1] = v
          /\ \A k \in 1 .. Len(msgs) + 1 : k \in 1 .. Len(msgs) \/ k = Len(msgs) + 1
      BY <1>0, <2>3, <3>1, Appended
    <3>3. \A c : Clearing(c)' => Clearing(c)
      BY <1>0, <3>1, <3>2 DEF Clearing, IsClearOf
    <3>4. \A c : Hears(c)' = {}
      BY <1>0, <2>1, <3>1, <3>2 DEF Hears, Due
    <3> QED
      BY <2>1, <3>3, <3>4, LeavesMoving
  <2> QED
    BY <1>2, <2>2, <2>3, EndOfFrame
<1>3. CASE ForceShutDown \/ UNCHANGED vars
  <2>1. UNCHANGED <<gstate, recent_pos, state, msgs>> /\ (finished => finished')
    BY <1>3 DEF ForceShutDown, vars
  <2>2. \A c : (Clearing(c)' => Clearing(c)) /\ Hears(c)' = Hears(c)
    BY <2>1 DEF Clearing, IsClearOf, Hears, Due
  <2> QED
    BY <2>1, <2>2, LeavesMoving
<1>4. ASSUME NEW d \in Casters, NEW target \in Opponents(d), Spell(d, target) PROVE KeepsMoving'
  <2>1. UNCHANGED <<gstate, recent_pos, finished>> /\ state' = [state EXCEPT ![d] = "Spelling"]
        /\ Due = {} /\ state \in [Creatures -> States]
    BY <1>4 DEF Spell, TypeInv, TypeOK
  <2>2. PICK kept, where, a, b : SpellLeaves(d, kept, where, a, b)
    BY <1>4, AfterSpell
  <2>3. DOMAIN msgs' = 1 .. Len(msgs')
    BY <2>2 DEF SpellLeaves
  <2>4. \A m \in {a, b} : m.type # "clear" /\ m.delay # 0
    BY <2>2 DEF SpellLeaves, Plain, Fresh
  <2>5. ASSUME NEW k \in 1 .. Len(msgs')
        PROVE  \/ msgs'[k].type # "clear" /\ msgs'[k].delay # 0
               \/ where[k] \in 1 .. Len(msgs) /\ msgs'[k] = msgs[where[k]]
    BY <2>2, <2>4 DEF SpellLeaves
  <2>6. \A c : Clearing(c)' => Clearing(c)
    BY <1>0, <2>3, <2>5 DEF Clearing, IsClearOf
  <2>7. \A c : Hears(c)' = {}
    BY <1>0, <2>1, <2>3, <2>5 DEF Hears, Due
  <2>8. \A c \in Creatures : state'[c] # "Idle" \/ state'[c] = state[c]
    BY <2>1
  <2> QED
    BY <2>1, <2>6, <2>7, <2>8, LeavesMoving
<1>5. CASE Undelivered
  BY <1>5, UndeliveredKeepsMoving
<1>6. CASE End
  BY <1>6 DEF End, KeepsMoving
<1>7. ASSUME Deliver, ~Undelivered, ~End PROVE KeepsMoving'
  <2>1. PICK sent : Answer(sent)
    BY <1>7, DeliverAnswers
  <2>2. ~IsVerdict(Msg) /\ (Quiet(sent) \/ Death(sent))
    BY <1>7, <2>1, OnlyVerdictsEnd DEF Answer
  <2>3. Due # {} /\ updating
    BY <1>7 DEF Deliver, Undelivered, Ignored, TrafficJam, IdleCharge, MoveCharge, MoveTarget,
           Attack, AttackEnd, SpellEnd, Freeze, Thaw, HurtAndTurn, Hurt, End, Receive, Delivering
  <2> QED
    BY <2>1, <2>2, <2>3, AnswerKeepsMoving
<1> QED
  BY <1>1, <1>2, <1>3, <1>4, <1>5, <1>6, <1>7 DEF Next, Update

-----------------------------------------------------------------------------
(* Who is served.                                                          *)

\* Nobody has more opponents than before.
LEMMA OpponentsLeft ==
    ASSUME Onward
    PROVE  \A c : Opponents(c)' \subseteq Opponents(c)
  BY DEF Onward, Opponents

LEMMA UndeliveredServed ==
    ASSUME TypeInv, VerdictInv, Served, Undelivered
    PROVE  Served'
<1>1. /\ Due # {} /\ updating /\ Sends(<<>>) /\ UNCHANGED <<state, gstate, finished>>
      /\ Msg.to # <<>> => Me \in Creatures /\ gstate[Me] # "Alive"
  BY WhoIsUndelivered
<1>2. /\ msgs' \in Seq(Messages)
      /\ \A j \in 1 .. Len(msgs) : j # DueFirst => \E k \in 1 .. Len(msgs') : msgs'[k] = msgs[j]
  BY <1>1, AfterDelivery
<1>3. DOMAIN msgs' = 1 .. Len(msgs') /\ DOMAIN msgs = 1 .. Len(msgs)
  BY <1>2 DEF TypeInv, TypeOK
<1> SUFFICES ASSUME ~finished', ~VerdictOut', NEW c \in Creatures, gstate'[c] = "Alive",
                    Opponents(c)' # {}
             PROVE  \E k \in DOMAIN msgs' : msgs'[k].to = <<c>> /\ msgs'[k].type \in Wanted(state'[c])
  BY DEF Served, Wanted, Awaits
<1>4. gstate[c] = "Alive" /\ ~finished /\ state'[c] = state[c] /\ IsAlive(c)
  BY <1>1 DEF IsAlive
<1>5. Opponents(c) # {}
  BY <1>1 DEF Opponents, IsAlive
<1>6. ~VerdictOut
  BY <1>4, UndeliveredOut DEF NobodyLeft
<1>7. PICK k \in 1 .. Len(msgs) : msgs[k].to = <<c>> /\ msgs[k].type \in Wanted(state[c])
  BY <1>3, <1>4, <1>5, <1>6 DEF Served
<1>8. k # DueFirst
  <2> SUFFICES ASSUME k = DueFirst PROVE FALSE
    OBVIOUS
  <2>1. Msg.to = <<c>>
    BY <1>7 DEF Msg
  <2>2. Msg.to # <<>> /\ Me = c
    BY <2>1, Singles DEF Me
  <2> QED
    BY <1>1, <1>4, <2>2
<1> QED
  BY <1>2, <1>3, <1>4, <1>7, <1>8

LEMMA AnswerServed ==
    ASSUME TypeInv, Served, Due # {}, updating, ~IsVerdict(Msg), NEW sent, Answer(sent),
           Quiet(sent) \/ Death(sent)
    PROVE  Served'
<1>1. /\ Sends(sent) /\ Serves(sent) /\ Me \in Creatures /\ Msg.to # <<>> /\ frame' = frame
      /\ \A c \in Creatures \ {Me} : state'[c] = state[c]
  BY DEF Answer
<1>2. /\ msgs' \in Seq(Messages)
      /\ \A j \in 1 .. Len(msgs) : j # DueFirst => \E k \in 1 .. Len(msgs') : msgs'[k] = msgs[j]
      /\ IsLeft => \E k \in 1 .. Len(msgs') : msgs'[k] = Leftover
      /\ \A j \in 1 .. Len(sent) : \E k \in 1 .. Len(msgs') : msgs'[k] = sent[j]
  BY <1>1, AfterDelivery
<1>3. DOMAIN msgs' = 1 .. Len(msgs') /\ DOMAIN msgs = 1 .. Len(msgs)
  BY <1>2 DEF TypeInv, TypeOK
<1>4. Msg.to = <<Me>>
  <2>1. Msg \in Messages /\ Shaped(Msg) /\ Msg.type # "clear"
    BY DueIsFirst DEF Shaped
  <2>2. PICK d \in Creatures : Msg.to = <<d>>
    BY <2>1, ForOne
  <2> QED
    BY <2>2, Singles DEF Me
<1>5. gstate' = gstate \/ gstate' = [gstate EXCEPT ![Me] = "Dying"]
  BY DEF Quiet, Death
<1>6. finished' = finished /\ gstate \in [Creatures -> GlobalStates]
  BY DEF Quiet, Death, TypeInv, TypeOK
<1>7. Onward
  <2>1. \A c \in Creatures : IsAlive(c)' => IsAlive(c)
    BY <1>1, <1>5, <1>6 DEF IsAlive
  <2> QED
    BY <1>1, <1>6, <2>1, FrameMoves DEF Onward
<1> SUFFICES ASSUME ~finished', ~VerdictOut', NEW c \in Creatures, gstate'[c] = "Alive",
                    Opponents(c)' # {}
             PROVE  \E k \in DOMAIN msgs' : msgs'[k].to = <<c>> /\ msgs'[k].type \in Wanted(state'[c])
  BY DEF Served, Wanted, Awaits
<1>8. gstate[c] = "Alive" /\ ~finished
  BY <1>1, <1>5, <1>6
<1>9. Opponents(c) # {}
  BY <1>7, OpponentsLeft
<1>a. ~VerdictOut
  BY <1>1, AnswerOut
<1>b. PICK k \in 1 .. Len(msgs) : msgs[k].to = <<c>> /\ msgs[k].type \in Wanted(state[c])
  BY <1>3, <1>8, <1>9, <1>a DEF Served
<1>c. CASE c # Me
  <2>1. k # DueFirst
    BY <1>4, <1>b, <1>c, Singles DEF Msg
  <2> QED
    BY <1>1, <1>2, <1>3, <1>b, <1>c, <2>1
<1>d. CASE c = Me
  <2>1. CASE state'[Me] = state[Me] /\ Msg.type \notin Wanted(state[Me])
    <3>1. k # DueFirst
      BY <1>b, <1>d, <2>1 DEF Msg
    <3> QED
      BY <1>2, <1>3, <1>b, <1>d, <2>1, <3>1
  <2>2. ASSUME NEW j \in 1 .. Len(sent), sent[j].to = <<Me>>, sent[j].type \in Wanted(state'[Me])
        PROVE  \E i \in DOMAIN msgs' : msgs'[i].to = <<c>> /\ msgs'[i].type \in Wanted(state'[c])
    BY <1>2, <1>3, <1>d, <2>2
  <2>3. CASE state'[Me] = "Freezing" /\ Msg.type = "freeze"
    <3>1. IsLeft
      BY <2>3 DEF IsLeft
    <3>2. Leftover.to = <<Me>> /\ Leftover.type = "thaw"
      BY <1>4, <3>1, LeftIsTyped
    <3> QED
      BY <1>2, <1>3, <1>d, <2>3, <3>1, <3>2, WhatIsWanted
  <2>4. ~(Opponents(Me) = {} \/ gstate'[Me] # "Alive" \/ finished')
    BY <1>9, <1>d
  <2> QED
    BY <1>1, <2>1, <2>2, <2>3, <2>4 DEF Serves
<1> QED
  BY <1>c, <1>d

\* What the frame to come will leave of what keeps a creature going.
LEMMA ServedLasts ==
    ASSUME TypeInv, Redirected, Served, KeepsMoving, ~finished, ~VerdictOut,
           NEW c \in Creatures, gstate[c] = "Alive", Opponents(c) # {}
    PROVE  \E k \in 1 .. Len(msgs) :
              Outlasts(k) /\ msgs[k].to = <<c>> /\ msgs[k].type \in Wanted(state[c])
<1>1. DOMAIN msgs = 1 .. Len(msgs)
      /\ \A k \in 1 .. Len(msgs) : msgs[k] \in Messages /\ Shaped(msgs[k])
  BY DEF TypeInv, TypeOK
<1>2. \A k \in 1 .. Len(msgs) : msgs[k].type \notin Verdicts
  BY <1>1 DEF VerdictOut, IsVerdict
<1>3. PICK k \in 1 .. Len(msgs) : msgs[k].to = <<c>> /\ msgs[k].type \in Wanted(state[c])
  BY <1>1 DEF Served
<1>4. CASE Outlasts(k)
  BY <1>3, <1>4
<1>5. CASE ~Outlasts(k)
  <2>1. msgs[k].type # "clear"
    BY <1>3 DEF Wanted, Awaits
  <2>2. PICK j \in 1 .. Len(msgs) : Clears(msgs[j], msgs[k])
    BY <1>1, <1>2, <1>5, <2>1 DEF Outlasts
  <2>3. msgs[k].type \in {"move", "charge"} /\ msgs[j].type = "clear" /\ msgs[j].from = msgs[k].from
    BY <1>1, <2>2 DEF Clears, Shaped
  <2>4. msgs[k].to = <<msgs[k].from>>
    BY <1>1, <2>3 DEF Shaped, Chain
  <2>5. msgs[k].from = c
    BY <1>3, <2>4, Singles
  <2>6. Clearing(c)
    BY <1>1, <2>3, <2>5 DEF Clearing, IsClearOf
  <2>7. state[c] = "Move"
    <3>1. state[c] # "Idle"
      BY <2>6 DEF KeepsMoving
    <3> QED
      BY <1>3, <2>3, <3>1 DEF Wanted, Awaits
  <2>8. PICK n \in 1 .. Len(msgs) :
          /\ msgs[n].type = "move" /\ msgs[n].map = "delayed" /\ msgs[n].to = <<c>>
          /\ \A i \in 1 .. Len(msgs) : IsClearOf(msgs[i], c) => i < n
    BY <1>1, <2>6 DEF Redirected
  <2>9. msgs[n].from = c
    <3>1. msgs[n].to = <<msgs[n].from>>
      BY <1>1, <2>8 DEF Shaped, Chain
    <3> QED
      BY <2>8, <3>1, Singles
  <2>a. \A i \in 1 .. Len(msgs) : i > n => ~Clears(msgs[i], msgs[n])
    <3> SUFFICES ASSUME NEW i \in 1 .. Len(msgs), i > n, Clears(msgs[i], msgs[n]) PROVE FALSE
      OBVIOUS
    <3>1. IsClearOf(msgs[i], c)
      BY <2>9 DEF Clears, IsClearOf
    <3>2. i < n
      BY <2>8, <3>1
    <3> QED
      BY <3>2
  <2>b. Outlasts(n)
    BY <1>1, <1>2, <2>8, <2>a DEF Outlasts
  <2> QED
    BY <2>7, <2>8, <2>b, WhatIsWanted
<1> QED
  BY <1>4, <1>5

LEMMA NextServed ==
    ASSUME TypeInv, VerdictInv, Redirected, Served, KeepsMoving, [Next]_vars
    PROVE  Served'
<1>0. msgs \in Seq(Messages) /\ DOMAIN msgs = 1 .. Len(msgs)
  BY DEF TypeInv, TypeOK
<1> DEFINE Goal(c) == \E k \in DOMAIN msgs' :
                         msgs'[k].to = <<c>> /\ msgs'[k].type \in Wanted(state'[c])
<1>1. ASSUME \A c \in Creatures :
                ~finished' /\ ~VerdictOut' /\ gstate'[c] = "Alive" /\ Opponents(c)' # {} => Goal(c)
      PROVE  Served'
  BY <1>1 DEF Served, Wanted, Awaits
<1>2. CASE BeginUpdate
  <2>1. /\ ~updating /\ ~finished
        /\ UNCHANGED <<hp, state, gstate, tar, recent_pos, isReady, frame, finished>>
    BY <1>2 DEF BeginUpdate
  <2>2. PICK where \in [1 .. Len(msgs') -> 1 .. Len(msgs)] :
          /\ \A k \in 1 .. Len(msgs') : Outlasts(where[k]) /\ msgs'[k] = Aged(msgs[where[k]])
          /\ \A j \in 1 .. Len(msgs) : Outlasts(j) => \E k \in 1 .. Len(msgs') : where[k] = j
    BY <1>2, Aging
  <2>3. DOMAIN msgs' = 1 .. Len(msgs')
    BY <1>2, Aging
  <2>4. ASSUME NEW c \in Creatures, ~VerdictOut', gstate'[c] = "Alive", Opponents(c)' # {}
        PROVE  Goal(c)
    <3>1. ~VerdictOut /\ gstate[c] = "Alive" /\ state'[c] = state[c]
      BY <1>2, <2>1, <2>4, BeginOut
    <3>2. Opponents(c) # {}
      BY <2>1, <2>4 DEF Opponents, IsAlive
    <3>3. PICK j \in 1 .. Len(msgs) :
            Outlasts(j) /\ msgs[j].to = <<c>> /\ msgs[j].type \in Wanted(state[c])
      BY <2>1, <3>1, <3>2, ServedLasts
    <3>4. PICK k \in 1 .. Len(msgs') : where[k] = j
      BY <2>2, <3>3
    <3>5. msgs'[k].to = <<c>> /\ msgs'[k].type = msgs[j].type
      BY <2>1, <2>2, <3>3, <3>4, AgedTyped
    <3> QED
      BY <2>3, <3>1, <3>3, <3>5
  <2> QED
    BY <1>1, <2>4
<1>3. ASSUME UNCHANGED <<gstate, state>>, finished => finished', VerdictOut => VerdictOut',
             \A j \in DOMAIN msgs : \E k \in DOMAIN msgs' : msgs'[k] = msgs[j]
      PROVE  Served'
  <2> SUFFICES ASSUME NEW c \in Creatures, ~finished', ~VerdictOut', gstate'[c] = "Alive",
                      Opponents(c)' # {}
               PROVE  Goal(c)
    BY <1>1
  <2>1. ~finished /\ ~VerdictOut /\ gstate[c] = "Alive" /\ state'[c] = state[c]
    BY <1>3
  <2>2. Opponents(c) # {}
    BY <1>3 DEF Opponents, IsAlive
  <2>3. PICK j \in DOMAIN msgs : msgs[j].to = <<c>> /\ msgs[j].type \in Wanted(state[c])
    BY <2>1, <2>2 DEF Served
  <2> QED
    BY <1>3, <2>1, <2>3
<1>4. CASE EndUpdate
  <2>1. UNCHANGED <<gstate, state, finished>>
    BY <1>4 DEF EndUpdate
  <2>2. \A j \in DOMAIN msgs : \E k \in DOMAIN msgs' : msgs'[k] = msgs[j]
    <3>1. CASE msgs' = msgs
      BY <3>1
    <3>2. ASSUME NEW v, TimeIsUp(v), msgs' = Append(msgs, v), NEW j \in DOMAIN msgs
          PROVE  \E k \in DOMAIN msgs' : msgs'[k] = msgs[j]
      <4>1. v \in Messages
        BY <3>2 DEF TimeIsUp, Fresh
      <4>2. j \in DOMAIN msgs' /\ msgs'[j] = msgs[j]
        BY <1>0, <3>2, <4>1, Appended
      <4> QED
        BY <4>2
    <3> QED
      BY <1>4, <3>1, <3>2, EndOfFrame
  <2> QED
    BY <1>3, <1>4, <2>1, <2>2, EndOut
<1>5. CASE ForceShutDown \/ UNCHANGED vars
  <2>1. UNCHANGED <<gstate, state, msgs>> /\ (finished => finished')
    BY <1>5 DEF ForceShutDown, vars
  <2>2. VerdictOut => VerdictOut'
    BY <2>1 DEF VerdictOut, IsVerdict
  <2> QED
    BY <1>3, <2>1, <2>2
<1>6. ASSUME NEW d \in Casters, NEW target \in Opponents(d), Spell(d, target) PROVE Served'
  <2>1. /\ d \in Creatures /\ state' = [state EXCEPT ![d] = "Spelling"] /\ ~finished
        /\ UNCHANGED <<gstate, finished>> /\ state \in [Creatures -> States]
    BY <1>6, SpellSends DEF TypeInv, TypeOK
  <2>2. PICK kept, where, a, b : SpellLeaves(d, kept, where, a, b)
    BY <1>6, AfterSpell
  <2>3. DOMAIN msgs' = 1 .. Len(msgs')
    BY <2>2 DEF SpellLeaves
  <2> SUFFICES ASSUME NEW c \in Creatures, ~VerdictOut', gstate'[c] = "Alive", Opponents(c)' # {}
               PROVE  Goal(c)
    BY <1>1
  <2>4. CASE c = d
    <3>1. state'[c] = "Spelling"
      BY <2>1, <2>4
    <3>2. \E k \in 1 .. Len(msgs') : msgs'[k].to = <<c>> /\ msgs'[k].type = "spellEnd"
      BY <2>2, <2>4 DEF SpellLeaves
    <3> QED
      BY <2>3, <3>1, <3>2, WhatIsWanted
  <2>5. CASE c # d
    <3>1. ~VerdictOut /\ gstate[c] = "Alive" /\ state'[c] = state[c]
      BY <1>6, <2>1, <2>5, SpellOut
    <3>2. Opponents(c) # {}
      BY <2>1 DEF Opponents, IsAlive
    <3>3. PICK j \in 1 .. Len(msgs) : msgs[j].to = <<c>> /\ msgs[j].type \in Wanted(state[c])
      BY <1>0, <2>1, <3>1, <3>2 DEF Served
    <3>4. ~(msgs[j].from = d /\ msgs[j].type \in Chain)
      <4> SUFFICES ASSUME msgs[j].from = d, msgs[j].type \in Chain PROVE FALSE
        OBVIOUS
      <4>1. Shaped(msgs[j])
        BY <1>0 DEF TypeInv
      <4>2. msgs[j].to = <<d>>
        BY <4>1 DEF Shaped
      <4> QED
        BY <2>5, <3>3, <4>2, Singles
    <3>5. PICK k \in 1 .. Len(kept) : where[k] = j
      BY <2>2, <3>4 DEF SpellLeaves
    <3>6. k \in 1 .. Len(msgs') /\ msgs'[k] = msgs[j]
      BY <2>2, <3>5 DEF SpellLeaves
    <3> QED
      BY <2>3, <3>1, <3>3, <3>6
  <2> QED
    BY <2>4, <2>5
<1>7. CASE Undelivered
  BY <1>7, UndeliveredServed
<1>8. CASE End
  BY <1>8 DEF End, Served
<1>9. ASSUME Deliver, ~Undelivered, ~End PROVE Served'
  <2>1. PICK sent : Answer(sent)
    BY <1>9, DeliverAnswers
  <2>2. ~IsVerdict(Msg) /\ (Quiet(sent) \/ Death(sent))
    BY <1>9, <2>1, OnlyVerdictsEnd DEF Answer
  <2>3. Due # {} /\ updating
    BY <1>9 DEF Deliver, Undelivered, Ignored, TrafficJam, IdleCharge, MoveCharge, MoveTarget,
           Attack, AttackEnd, SpellEnd, Freeze, Thaw, HurtAndTurn, Hurt, End, Receive, Delivering
  <2> QED
    BY <2>1, <2>2, <2>3, AnswerServed
<1> QED
  BY <1>2, <1>4, <1>5, <1>6, <1>7, <1>8, <1>9 DEF Next, Update

\* As long as no frame has more messages for a creature than it remembers positions,
\* nobody comes to a stop: each who has somebody to fight between two frames is told to go
\* on by a message that the next frame keeps.
THEOREM NobodyStops == Spec /\ []FewAtOnce => []NotStuck
<1>1. Init => Redirected /\ Served /\ KeepsMoving
  <2> SUFFICES ASSUME Init PROVE Redirected /\ Served /\ KeepsMoving
    OBVIOUS
  <2>1. \A c \in Creatures : /\ Charge(c).to = <<c>> /\ Charge(c).type = "charge"
    BY OwnIsPlain DEF Charge, Chain
  <2>2. \A k \in DOMAIN msgs : msgs[k].type # "clear"
    BY <2>1, FirstMessages
  <2>3. \A c \in Creatures : state[c] = "Move"
    BY DEF Init
  <2> QED
    BY <2>1, <2>2, <2>3, FirstMessages, WhatIsWanted
       DEF Redirected, Clearing, IsClearOf, Served, KeepsMoving
<1>2. /\ TypeInv /\ VerdictInv /\ Redirected /\ Served /\ KeepsMoving /\ FewAtOnce /\ [Next]_vars
         => Redirected' /\ Served' /\ KeepsMoving'
  BY NextRedirected, NextServed, NextKeepsMoving
<1>3. TypeInv /\ VerdictInv /\ Redirected /\ Served /\ KeepsMoving => NotStuck
  <2> SUFFICES ASSUME TypeInv, VerdictInv, Redirected, Served, KeepsMoving,
                      ~finished, NEW c \in Creatures, gstate[c] = "Alive", Opponents(c) # {}
               PROVE  \/ IsPending(c, Awaits(state[c]) \cup Verdicts)
                      \/ state[c] = "Freezing" /\ IsPending(c, {"thaw"})
    BY DEF NotStuck
  <2>1. CASE VerdictOut
    <3>1. IsPending(c, Verdicts)
      BY <2>1, AllWillHear DEF IsAlive
    <3> QED
      BY <3>1 DEF IsPending
  <2>2. CASE ~VerdictOut
    <3>1. PICK k \in 1 .. Len(msgs) :
            Outlasts(k) /\ msgs[k].to = <<c>> /\ msgs[k].type \in Wanted(state[c])
      BY <2>2, ServedLasts
    <3>2. c \in ToSet(msgs[k].to) /\ k \in DOMAIN msgs
      BY <3>1, Singles DEF TypeInv, TypeOK
    <3> QED
      BY <3>1, <3>2 DEF IsPending, Wanted
  <2> QED
    BY <2>1, <2>2
<1> QED
  BY <1>1, <1>2, <1>3, Invariant, PTL DEF Spec

===============================================================================
