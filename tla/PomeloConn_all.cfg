CONSTANTS
    enable_reconn = TRUE
    reconn_max_retry = 1
    MaxPending = 2
SPECIFICATION MCSpec
INVARIANTS TypeOK NotAbandoned TimeoutMeansConnecting HandshakeGuarded
INVARIANTS Agreement
PROPERTIES   EventsExpected
