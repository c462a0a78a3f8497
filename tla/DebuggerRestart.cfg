SPECIFICATION Spec
CONSTANTS
    Workers = {w1, w2}
    Main = main
    MaxCalls = 2
    LaterCalls = 2
    MaxSessions = 2
    CanToggle = FALSE
    CanFail = FALSE
SYMMETRY Symmetry
INVARIANT PausedCallCanBeAdvanced
