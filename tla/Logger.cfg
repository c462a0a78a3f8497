SPECIFICATION FairSpec
CONSTANTS
    Workers = {w1, w2}
    Main = main
    MaxCalls = 2
    MaxKeys = 3
    QuitPosts = 3
INVARIANTS
    TypeOK
    SequencesAreRuns
PROPERTIES
    QuitLosesNothing
    QuitEndsBoth
    EveryCallIsResumed
