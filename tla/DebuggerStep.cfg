SPECIFICATION FairSpec
CONSTANTS
    Workers = {w1, w2}
    Main = main
    MaxCalls = 2
    LaterCalls = 2
    MaxSessions = 1
    CanToggle = FALSE
    CanFail = FALSE
INVARIANTS
    TypeOK
    NoSpareToken
    PausedCallCanBeAdvanced
PROPERTIES
    StopEndsSession
    EveryCallIsResumed
