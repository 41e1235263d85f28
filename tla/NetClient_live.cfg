CONSTANTS
    t1 = t1
    t2 = t2
    a1 = a1
    a2 = a1
    None = None
    Threads <- MCThreads
    Addrs <- MCAddrs
    Messages = {}
    MaxEvents = 1
    MaxQueued = 2
SPECIFICATION FairSpec
PROPERTIES DisconnectHonoured AttemptAnswered
