CONSTANTS
    VersionCount = 2
    MaxMid = 1
    Files <- MCFiles
    Restarts <- MCRestarts
    None = None
SPECIFICATION MCSpec
INVARIANTS TypeOK StoredIsPresent
PROPERTIES CompletedIsPresent RestartAsked UpdateEnds
