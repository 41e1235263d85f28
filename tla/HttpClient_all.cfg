CONSTANTS
    r1 = r1
    r2 = r2
    Requests = {r1, r2}
    Empty = Empty
    Torn = Torn
SPECIFICATION Spec
INVARIANTS TypeOK OneAnswer 
PROPERTIES Answered
