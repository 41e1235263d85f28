CONSTANTS
    r1 = r1
    n1 = n1
    r2 = r2
    n2 = n2
    Requests = {r1}
    Notifies = {n1}
    Timed = {r1}
    NoItem = NoItem
    SendInCallback = TRUE
SPECIFICATION FairSpec
INVARIANTS TypeOK OnePlace AckFirst AllAcked
PROPERTIES TimedAnswered
CHECK_DEADLOCK FALSE
