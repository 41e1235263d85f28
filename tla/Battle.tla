-------------------------------- MODULE Battle --------------------------------
(***************************************************************************)
(* The battle simulation: a frame of AIEngine::update, the messages that   *)
(* MessageDispatcher delivers in it, and the state machine by which each   *)
(* creature answers them.  A creature acts only in answer to a message,    *)
(* mostly one that it sent to itself when it acted last.                   *)
(*                                                                         *)
(* All of it runs on one thread; what is hard is the order of the messages *)
(* and what is left of them when a creature's state changes.  Messages are *)
(* kept in the order of their ids, which is the order they are made and    *)
(* delivered in.  Positions are left open: a target may be in range or     *)
(* not, and a creature may be stuck in the crowd or not, at any time.      *)
(***************************************************************************)
EXTENDS Integers, SequencesExt, Queues

CONSTANTS
    Friends, Enemies,
    Heroes,             \* the others are soldiers
    Casters,            \* the heroes with a spell
    NoCreature,
    MaxHp,
    Damages,            \* what a blow or a spell may cost
    AttackDelay,        \* atk_spd, in frames
    IdleToMoveTime,     \* in frames
    HistoryPosCheck,    \* how many positions a creature remembers
    CastTime,           \* of a spell, in frames
    FreezeTime,         \* of a spell, in frames
    TimeLimit           \* in frames

Creatures == Friends \cup Enemies

ASSUME CreatureAssumption ==
    /\ Friends \cap Enemies = {} /\ Heroes \subseteq Creatures /\ Casters \subseteq Heroes
    /\ NoCreature \notin Creatures /\ IsFiniteSet(Creatures)
ASSUME NumberAssumption ==
    /\ MaxHp \in Nat /\ Damages \subseteq Nat
    /\ {AttackDelay, IdleToMoveTime, CastTime, FreezeTime} \subseteq Nat \ {0}
    /\ TimeLimit \in Nat /\ HistoryPosCheck \in Nat

States == {"Idle", "Move", "Attack", "Spelling", "Freezing", "Dying", "Victory"}
GlobalStates == {"Alive", "Dying", "Victory"}

\* Those a creature sends to itself to go on.
Chain == {"charge", "move", "attack", "attackEnd"}
Verdicts == {"allDie", "timeOut"}
\* "freeze" and "thaw" are the two deliveries of one message.
MessageTypes == Chain \cup Verdicts
                  \cup {"spellEnd", "hurt", "spellHurt", "freeze", "thaw", "clear"}

\* Where a message is: _mmap, _tmmap, _dlymmap.
Maps == {"active", "new", "delayed"}

\* What a creature's orders may be about; of "clear", what is cleared.
Messages ==
    [type : MessageTypes, from : Creatures, to : Seq(Creatures),
     tar : Creatures \cup {NoCreature} \cup Chain, val : Nat, delay : Nat, map : Maps]

VARIABLES
    hp, state,
    gstate,             \* the state machine's global state
    tar,                \* whom a creature goes for
    recent_pos,         \* how many positions a creature remembers since it began to move
    isReady,            \* a spell is ready; each is cast once (a bound)
    msgs,
    updating,           \* in the middle of a frame
    frame,
    finished

vars == <<hp, state, gstate, tar, recent_pos, isReady, msgs, updating, frame, finished>>

-----------------------------------------------------------------------------
(* Creatures.                                                              *)

Side(c) == IF c \in Friends THEN Friends ELSE Enemies
IsAlive(c) == gstate[c] # "Dying"
Opponents(c) == {d \in Creatures \ Side(c) : IsAlive(d)}
HeroesAlive(side) == {h \in Heroes \cap side : IsAlive(h)}

\* getAttackableTarget and getNearestTarget: one in sight, or, for 30 calls, the last.
Targets(c) == Opponents(c) \cup ({tar[c]} \ {NoCreature})

-----------------------------------------------------------------------------
(* Messages.                                                               *)

Message(type, from, to, target, delay, map) ==
    [type |-> type, from |-> from, to |-> to, tar |-> target, val |-> 0,
     delay |-> delay, map |-> map]

\* A message a creature sends to itself.
Own(type, c, target) == Message(type, c, <<c>>, target, 1, "new")

Charge(c) == Own("charge", c, NoCreature)

\* Mutant: what is in the way is cleared after the new order.
RetargetSwapped(c, enemy) ==
    <<[Own("move", c, enemy) EXCEPT !.map = "delayed"],
      Message("clear", c, <<>>, "move", 1, "delayed"),
      Message("clear", c, <<>>, "charge", 1, "delayed")>>

\* Who is hit by somebody who does not fight goes for him; tar is the type to clear.
Retarget(c, enemy) ==
    <<Message("clear", c, <<>>, "move", 1, "delayed"),
      Message("clear", c, <<>>, "charge", 1, "delayed"),
      [Own("move", c, enemy) EXCEPT !.map = "delayed"]>>

Verdict(type, c, survivors) ==
    Message(type, c, SetToSeq(survivors), NoCreature, 1, "delayed")

Init ==
    /\ hp = [c \in Creatures |-> MaxHp]
    /\ state = [c \in Creatures |-> "Move"]
    /\ gstate = [c \in Creatures |-> "Alive"]
    /\ tar = [c \in Creatures |-> NoCreature]
    /\ recent_pos = [c \in Creatures |-> 0]
    /\ isReady = [c \in Creatures |-> c \in Casters]
    /\ LET all == SetToSeq(Creatures) IN msgs = [k \in DOMAIN all |-> Charge(all[k])]
    /\ updating = FALSE
    /\ frame = 0
    /\ finished = FALSE

-----------------------------------------------------------------------------
(* MessageDispatcher.                                                      *)

Clears(m, n) == m.type = "clear" /\ n.from = m.from /\ n.type = m.tar

\* Mutant: a verdict clears what is active, not another verdict.
OutlastsVerdicts(i) ==
    LET m == msgs[i]
        later == {j \in DOMAIN msgs : msgs[j].map = "delayed" /\ (m.map = "delayed" => j > i)}
    IN  /\ m.type # "clear"
        /\ \A j \in later :
              /\ msgs[j].type \in Verdicts => m.type \in Verdicts
              /\ ~Clears(msgs[j], m)

\* handleDelayMessage: what a delayed verdict or a delayed clear leaves, in turn.
Outlasts(i) ==
    LET m == msgs[i]
        later == {j \in DOMAIN msgs : msgs[j].map = "delayed" /\ (m.map = "delayed" => j > i)}
    IN  /\ m.type # "clear"
        /\ \A j \in later : msgs[j].type \notin Verdicts /\ ~Clears(msgs[j], m)

\* The frame begins: delayed messages are handled, and all count down.
BeginUpdate ==
    /\ ~updating /\ ~finished /\ updating' = TRUE
    /\ LET kept == Only({i \in DOMAIN msgs : Outlasts(i)}, [i \in DOMAIN msgs |-> i]) IN
       msgs' = [k \in DOMAIN kept |->
                  [msgs[kept[k]] EXCEPT !.map = "active", !.delay = @ - 1]]
    /\ UNCHANGED <<hp, state, gstate, tar, recent_pos, isReady, frame, finished>>

Due == {i \in DOMAIN msgs : msgs[i].map = "active" /\ msgs[i].delay = 0}
DueFirst == CHOOSE i \in Due : \A j \in Due : i <= j
Msg == msgs[DueFirst]
Me == Head(Msg.to)

\* What is left when the message is delivered to the first of its receivers.
Rest ==
    CASE Len(Msg.to) > 1 -> [msgs EXCEPT ![DueFirst] = [Msg EXCEPT !.to = Tail(@)]]
      [] Msg.type = "freeze" ->
            [msgs EXCEPT ![DueFirst] = [Msg EXCEPT !.type = "thaw", !.delay = FreezeTime]]
      [] OTHER -> RemoveAt(msgs, DueFirst)

Delivering == updating /\ Due # {}

\* No receiver, or one that is dying or has won.
Undelivered ==
    /\ Delivering
    /\ \/ Msg.to = <<>> /\ msgs' = RemoveAt(msgs, DueFirst)
       \/ Msg.to # <<>> /\ gstate[Me] # "Alive" /\ msgs' = Rest
    /\ UNCHANGED <<hp, state, gstate, tar, recent_pos, isReady, updating, frame, finished>>

\* A message of one of the types reaches a creature in one of the states.
Receive(types, states) ==
    /\ Delivering /\ Msg.to # <<>> /\ gstate[Me] = "Alive"
    /\ Msg.type \in types /\ state[Me] \in states

\* The answer: a target and messages, in the same state or in one that is entered.
Reply(target, sent) ==
    /\ tar' = [tar EXCEPT ![Me] = target]
    /\ msgs' = Rest \o sent
    /\ UNCHANGED <<isReady, updating, frame>>

Remembers == IF recent_pos[Me] < HistoryPosCheck THEN recent_pos[Me] + 1 ELSE recent_pos[Me]

Stay(target, sent) ==
    /\ Reply(target, sent) /\ UNCHANGED state
    /\ recent_pos' = [recent_pos EXCEPT ![Me] = Remembers]

Enter(newState, target, sent) ==
    /\ Reply(target, sent) /\ state' = [state EXCEPT ![Me] = newState]
    /\ recent_pos' = [recent_pos EXCEPT ![Me] = IF newState = "Move" THEN 0 ELSE Remembers]

Unhurt == UNCHANGED <<hp, gstate, finished>>

-----------------------------------------------------------------------------
(* The states.                                                             *)

\* The messages a state waits for.
Awaits(st) ==
    CASE st = "Idle" -> {"charge"}
      [] st = "Move" -> {"charge", "move"}
      [] st = "Attack" -> {"attack", "attackEnd"}
      [] st = "Spelling" -> {"spellEnd"}
      [] OTHER -> {}

Ignored ==
    /\ Receive(Chain \cup {"spellEnd"}, States)
    /\ Msg.type \notin Awaits(state[Me])
    /\ Stay(tar[Me], <<>>) /\ Unhurt

\* isTrafficJam, whatever the message: a creature that got nowhere takes a rest.
MayBeJammed == state[Me] = "Move" /\ tar[Me] # NoCreature /\ Remembers = HistoryPosCheck

TakeRest == Enter("Idle", tar[Me], <<[Charge(Me) EXCEPT !.delay = IdleToMoveTime]>>)

TrafficJam ==
    /\ Receive(Chain \cup {"spellEnd"}, {"Move"}) /\ MayBeJammed
    /\ TakeRest /\ Unhurt

IdleCharge ==
    /\ Receive({"charge"}, {"Idle"})
    /\ Enter("Move", tar[Me], <<Charge(Me)>>) /\ Unhurt

\* Somebody to go for, or a hero of the others ahead, or nobody left.
MoveCharge ==
    /\ Receive({"charge"}, {"Move"}) /\ Unhurt
    /\ \/ \E t \in Targets(Me) : Stay(t, <<Own("move", Me, t)>>)
       \/ Stay(tar[Me], <<Charge(Me)>>)
       \/ /\ Opponents(Me) = {}
          /\ \/ Stay(NoCreature, <<Own("move", Me, NoCreature)>>)
             \/ Stay(tar[Me], <<>>)

Lost(t) == t = NoCreature \/ ~IsAlive(t)

MoveTarget ==
    /\ Receive({"move"}, {"Move"}) /\ Unhurt
    /\ \/ Lost(Msg.tar) /\ Stay(NoCreature, <<Charge(Me)>>)
       \/ ~Lost(Msg.tar) /\ Enter("Attack", Msg.tar, <<Own("attack", Me, Msg.tar)>>)
       \/ /\ ~Lost(Msg.tar)
          /\ \E t \in Targets(Me) \cup {Msg.tar} : Stay(tar[Me], <<Own("move", Me, t)>>)

GiveUp == Lost(Msg.tar) /\ Enter("Move", NoCreature, <<Charge(Me)>>)

Attack ==
    /\ Receive({"attack"}, {"Attack"}) /\ Unhurt
    /\ \/ GiveUp
       \/ ~Lost(Msg.tar) /\ Enter("Move", tar[Me], <<Own("move", Me, Msg.tar)>>)
       \/ /\ ~Lost(Msg.tar)
          /\ Stay(tar[Me], <<[Own("attackEnd", Me, Msg.tar) EXCEPT !.delay = AttackDelay]>>)

AttackEnd ==
    /\ Receive({"attackEnd"}, {"Attack"}) /\ Unhurt
    /\ \/ GiveUp
       \/ /\ ~Lost(Msg.tar)
          /\ \E d \in Damages :
                Stay(tar[Me],
                     <<[Message("hurt", Me, <<Msg.tar>>, NoCreature, 1, "new") EXCEPT !.val = d],
                       Own("attack", Me, Msg.tar)>>)

SpellEnd ==
    /\ Receive({"spellEnd"}, {"Spelling"})
    /\ Enter("Move", NoCreature, <<Charge(Me)>>) /\ Unhurt

\* doStateFreezingTime, at the beginning and at the end.
Freeze ==
    /\ Receive({"freeze"}, States)
    /\ Enter("Freezing", tar[Me], <<>>) /\ Unhurt

Thaw ==
    /\ Receive({"thaw"}, States)
    /\ Enter("Move", NoCreature, <<Charge(Me)>>) /\ Unhurt

\* Mutant: a battle without heroes goes on.
NoVerdictOfDeath(c) == <<>>

\* checkHeroAllDead: c dies, perhaps the last of its side's heroes.
VerdictOfDeath(c) ==
    IF c \in Heroes /\ HeroesAlive(Side(c)) \subseteq {c}
    THEN <<Verdict("allDie", c, {d \in Creatures : IsAlive(d)} \ {c})>> ELSE <<>>

\* Mutant: the rest of a deadly wound is left in hp.
DiesOfWound(sent) ==
    /\ hp[Me] < Msg.val
    /\ hp' = [hp EXCEPT ![Me] = @ - Msg.val]
    /\ gstate' = [gstate EXCEPT ![Me] = "Dying"]
    /\ Enter("Dying", tar[Me], sent \o VerdictOfDeath(Me))

\* Only an hp below 0 is deadly.
Dies(sent) ==
    /\ hp[Me] < Msg.val
    /\ hp' = [hp EXCEPT ![Me] = 0]
    /\ gstate' = [gstate EXCEPT ![Me] = "Dying"]
    /\ Enter("Dying", tar[Me], sent \o VerdictOfDeath(Me))

Survives ==
    /\ hp[Me] >= Msg.val
    /\ hp' = [hp EXCEPT ![Me] = @ - Msg.val]
    /\ UNCHANGED gstate

\* MSG_HURT from somebody who is not fighting.
HurtAndTurn ==
    LET sender == Msg.from IN
    /\ Receive({"hurt"}, States) /\ UNCHANGED finished
    /\ IsAlive(sender) /\ state[sender] \notin {"Attack", "Freezing"}
    /\ \/ Dies(Retarget(Me, sender))
       \/ Survives /\ Enter("Move", sender, Retarget(Me, sender))

\* Any other MSG_HURT; doSpellHurt and addHp.
Hurt ==
    /\ Receive({"hurt", "spellHurt"}, States) /\ UNCHANGED finished
    /\ Msg.type = "hurt" => ~IsAlive(Msg.from) \/ state[Msg.from] \in {"Attack", "Freezing"}
    /\ \/ Dies(<<>>)
       \/ Survives /\ Stay(tar[Me], <<>>)
       \/ Survives /\ MayBeJammed /\ TakeRest

\* MSG_EVT_HERO_ALL_DIE and MSG_EVT_TIME_OUT: the others than the sender's win.
End ==
    /\ Receive(Verdicts, States)
    /\ finished' = TRUE
    /\ IF Side(Me) = Side(Msg.from)
       THEN UNCHANGED gstate /\ Enter("Idle", tar[Me], <<>>)
       ELSE gstate' = [gstate EXCEPT ![Me] = "Victory"] /\ Enter("Victory", tar[Me], <<>>)
    /\ UNCHANGED hp

Deliver ==
    \/ Undelivered \/ Ignored \/ TrafficJam
    \/ IdleCharge \/ MoveCharge \/ MoveTarget \/ Attack \/ AttackEnd \/ SpellEnd
    \/ Freeze \/ Thaw \/ HurtAndTurn \/ Hurt \/ End

-----------------------------------------------------------------------------
(* AIEngine.                                                               *)

\* Mutant: frames are not counted.
EndUpdateUntimed ==
    /\ updating /\ Due = {} /\ updating' = FALSE
    /\ UNCHANGED <<hp, state, gstate, tar, recent_pos, isReady, msgs, frame, finished>>

\* The rest of AIEngine::update.  When time is up the first hero's side has lost, and
\* friends come first.
EndUpdate ==
    /\ updating /\ Due = {} /\ updating' = FALSE
    /\ frame' = IF frame <= TimeLimit THEN frame + 1 ELSE frame
    /\ LET alive == HeroesAlive(Creatures)
           first == CHOOSE h \in alive : h \in Friends \/ alive \cap Friends = {}
       IN  msgs' = IF frame = TimeLimit /\ alive # {}
                   THEN Append(msgs, Verdict("timeOut", first, {c \in Creatures : IsAlive(c)}))
                   ELSE msgs
    /\ UNCHANGED <<hp, state, gstate, tar, recent_pos, isReady, finished>>

\* castSpell: a message for each effect, and the end of the casting.
CastSpell(c, target, effect, damage) ==
    <<[Message(effect, c, <<target>>, NoCreature, 1, "new") EXCEPT !.val = damage],
      [Own("spellEnd", c, NoCreature) EXCEPT !.delay = CastTime]>>

\* EVT_SPELL between two frames and EVT_AUTO_SPELL at the end of one (which spares the
\* frozen): a spell that freezes or hurts one of the others.
Spell(c, target) ==
    /\ Due = {} /\ ~finished
    /\ isReady[c] /\ IsAlive(c)
    /\ isReady' = [isReady EXCEPT ![c] = FALSE]
    /\ state' = [state EXCEPT ![c] = "Spelling"]
    /\ \E effect \in {"freeze", "spellHurt"}, d \in Damages :
          msgs' = Only({m \in ToSet(msgs) : m.from = c /\ m.type \in Chain => m.map = "delayed"},
                       msgs)
                    \o CastSpell(c, target, effect, d)
    /\ UNCHANGED <<hp, gstate, tar, recent_pos, updating, frame, finished>>

ForceShutDown ==
    /\ ~updating /\ ~finished /\ finished' = TRUE
    /\ UNCHANGED <<hp, state, gstate, tar, recent_pos, isReady, msgs, updating, frame>>

Update == BeginUpdate \/ Deliver \/ EndUpdate

Next ==
    \/ Update \/ ForceShutDown
    \/ \E c \in Casters : \E target \in Opponents(c) : Spell(c, target)

\* The game calls update in each frame.
Spec == Init /\ [][Next]_vars /\ WF_vars(Update)

-----------------------------------------------------------------------------
(* Properties.                                                             *)

\* Every variable has its type.
TypeOK ==
    /\ hp \in [Creatures -> 0 .. MaxHp]
    /\ state \in [Creatures -> States]
    /\ gstate \in [Creatures -> GlobalStates]
    /\ tar \in [Creatures -> Creatures \cup {NoCreature}]
    /\ recent_pos \in [Creatures -> 0 .. HistoryPosCheck]
    /\ isReady \in [Creatures -> BOOLEAN]
    /\ msgs \in Seq(Messages)
    /\ updating \in BOOLEAN /\ finished \in BOOLEAN
    /\ frame \in 0 .. TimeLimit + 1

\* A message that the next frame will keep and not take for stale.
IsPending(c, types) ==
    \E k \in DOMAIN msgs : Outlasts(k) /\ msgs[k].type \in types /\ c \in ToSet(msgs[k].to)

\* No creature comes to a stop in the middle of a battle: whatever blows, spells, freezes
\* and orders cross each other, between two frames a message is on its way to it that
\* its state waits for.
NotStuck ==
    ~updating /\ ~finished =>
        \A c \in Creatures : gstate[c] = "Alive" /\ Opponents(c) # {} =>
            \/ IsPending(c, Awaits(state[c]) \cup Verdicts)
            \/ state[c] = "Freezing" /\ IsPending(c, {"thaw"})

\* A side without heroes has lost for certain: the battle is over, or a verdict is on its
\* way to all who are left.
DefeatNoticed ==
    \A side \in {Friends, Enemies} : HeroesAlive(side) = {} =>
        finished \/ \A c \in Creatures : IsAlive(c) => IsPending(c, Verdicts)

Winners == {c \in Creatures : gstate[c] = "Victory"}

\* A fair verdict: there is one winning side, even when both lose their last hero in the
\* same frame, or in the last one, and before time is up nobody loses who has a hero left.
FairVerdict ==
    /\ Winners \subseteq Friends \/ Winners \subseteq Enemies
    /\ frame <= TimeLimit =>
          \A c \in Winners : HeroesAlive(Creatures \ Side(c)) = {}

\* Every battle is decided, unless all have killed each other.
BattleEnds == <>(finished \/ \A c \in Creatures : ~IsAlive(c))

=============================================================================
