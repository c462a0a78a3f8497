SPECIFICATION Spec
CONSTANTS
    Nil = Nil
    Names = {a, b}
    Threads = {t1, t2}
    MaxId = 7
    MaxRequests = 3
    MaxInterrupts = 1
SYMMETRY Sym
INVARIANTS
    HiddenFilesGo
