CONSTANTS
    FRAMES = 34
    BYTE = 8
    PAGE = 2
    FAN = 3
    Procs = {p1, p2}
    Requests <- SomeRequests
    BRK_MAX = 13
    LowWords <- JustAbsent
    DEBUG = FALSE
    ONE_STEP = TRUE
SPECIFICATION Spec
SYMMETRY Programs
INVARIANTS TypeOK NoAlias KernelIntact HeapExact PageAccounting
PROPERTY Isolation
