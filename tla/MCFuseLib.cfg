SPECIFICATION Spec
CONSTANTS
    Nil = Nil
    Names = {a, b}
    Threads = {t1, t2, t3}
    MaxId = 7
    MaxRequests = 3
    MaxInterrupts = 1
SYMMETRY Sym
INVARIANTS
    TypeOK
    ReferencesAreCounted
    NodesInUseStay
    LocksAreAccountedFor
    PathLeadsToItsObject
    WaitersWillBeWoken
    HiddenFilesGoUnlessCancelled
