CONSTANTS
    enable_reconn = TRUE
    reconn_max_retry <- MCAlwaysRetry
    MaxPending = 2
SPECIFICATION MCSpec
PROPERTIES HandshakeEnds
