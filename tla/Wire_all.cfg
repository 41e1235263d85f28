CONSTANTS
    Protos <- MCProtos
    ProtoOf <- MCProtoOf
    RouteToCode <- MCRouteToCode
    Messages <- MCMessages
    UInt = 2097152
    ULong = 134217728
    VarintBytes = 4
    HeadBytes = 2
    Sizes = {0, 1, 2}
    MaxPackages = 2
    MaxConns = 2
    MaxRead = 5
    CODE_CLEAR = 5
    FIRST_BITS = 3
    MAX_BITS = 4
    Symbols = {0, 1}
    MaxLength = 16
    r1 = r1
    r2 = r2
    n1 = n1
    Requests = {r1, r2}
    Notifies = {n1}
    NoItem = NoItem
SPECIFICATION WireSpec
SYMMETRY Symmetry
INVARIANTS WireTypeOK PackagesFromFresh  RoundTrip CallsKept 
CHECK_DEADLOCK FALSE
