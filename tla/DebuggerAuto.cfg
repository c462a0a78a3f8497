SPECIFICATION Spec
CONSTANTS
    Workers = {w1, w2}
    Main = main
    MaxCalls = 2
    LaterCalls = 0
    MaxSessions = 2
    CanToggle = TRUE
    CanFail = TRUE
SYMMETRY Symmetry
INVARIANTS
    EveryWaitAccountedFor
    StopReleasesEveryCall
    AdvanceButtonFollowsCounter
