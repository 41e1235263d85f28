CONSTANTS
    HeadBytes = 2
    Sizes = {0, 1, 2}
    MaxPackages = 2
    MaxConns = 2
    MaxRead = 5
SPECIFICATION MCSpec
INVARIANTS Framing
CHECK_DEADLOCK FALSE
