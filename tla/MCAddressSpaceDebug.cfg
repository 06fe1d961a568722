CONSTANTS
    FRAMES = 26
    BYTE = 8
    PAGE = 2
    FAN = 3
    Procs = {p1}
    Requests <- MoreRequests
    BRK_MAX = 216
    LowWords <- AnyLow
    DEBUG = TRUE
    ONE_STEP = FALSE
SPECIFICATION Spec
INVARIANTS HeapExact PageAccounting OnlyOutOfMemory
