CONSTANTS
    FRAMES = 34
    BYTE = 8
    PAGE = 2
    FAN = 3
    Procs = {p1, p2}
    Requests <- SomeRequests
    BRK_MAX = 13
    LowWords <- JustAbsent
    DEBUG = TRUE
    ONE_STEP = FALSE
SPECIFICATION Spec
SYMMETRY Programs
INVARIANT AllocReturnsFree
