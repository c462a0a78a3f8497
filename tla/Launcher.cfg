SPECIFICATION FairSpec
CONSTANTS
    MaxStarts = 2
    Prompts = {{"pid", "child", "tool", "reader", "again"},
               {"pid", "child", "again"}}
    CanForkFail = TRUE
INVARIANTS
    TypeOK
    EventsReachReader
    NoFalseAlarm
    ExitStopsFileSystems
    StartMountsOneFileSystem
PROPERTIES
    CrashIsReported
    StartComesBack
