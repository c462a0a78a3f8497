SPECIFICATION Spec
CONSTANTS
    MaxFaults = 1
    FifoSize = 1
INVARIANTS
    TypeOK
    SkippedTestsDoNotFail
    UndefinedCallsWereSkipped
    VerdictIsShown
    RowsTellOfSkips
