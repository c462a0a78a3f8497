SPECIFICATION Spec
CONSTANTS
    Paths = {a, b}
    MaxCalls = 4
    LaterCalls = 2
    MaxOpens = 3
    MaxGroups = 1
    MaxSequences = 2
    MaxRuns = 2
SYMMETRY Sym
INVARIANTS
    HandleIsOfItsOpen
    TablesAgree
    ConformingPasses
    RowsAreUnderTheirSequence
    PassCoversItsRows
CHECK_DEADLOCK FALSE
