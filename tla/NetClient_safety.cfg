CONSTANTS
    t1 = t1
    t2 = t2
    a1 = a1
    a2 = a2
    None = None
    Threads <- MCThreads
    Addrs <- MCAddrs
    Messages = {"login", "logout"}
    MaxEvents = 1
    MaxQueued = 2
SPECIFICATION Spec
INVARIANTS TypeOK SocketIsMine ConnectedIsOwed
PROPERTIES QueuedForServer IsLink
SYMMETRY Symmetry
