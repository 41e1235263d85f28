CONSTANTS
    f1 = f1
    e1 = e1
    f2 = f2
    Friends = {f1, f2}
    Enemies = {e1}
    Heroes = {f1, e1}
    Casters = {e1}
    NoCreature = NoCreature
    MaxHp = 0
    Damages = {0, 1}
    AttackDelay = 1
    IdleToMoveTime = 1
    HistoryPosCheck = 3
    CastTime = 1
    FreezeTime = 1
    TimeLimit = 5
SPECIFICATION MCSpec
INVARIANTS TypeOK  DefeatNoticed FairVerdict
PROPERTIES BattleEnds
CHECK_DEADLOCK FALSE
