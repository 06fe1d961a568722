CONSTANTS
    FRAMES = 26
    BYTE = 8
    PAGE = 2
    FAN = 3
    Procs = {p1}
    Requests <- WrappingRequests
    BRK_MAX = 216
    LowWords <- AnyLow
    DEBUG = FALSE
    ONE_STEP = TRUE
SPECIFICATION Spec
INVARIANT FreesOnlyMapped
