CONSTANTS
    FRAMES = 26
    BYTE = 8
    PAGE = 2
    FAN = 3
    Procs = {p1}
    Requests <- SomeRequests
    BRK_MAX = 216
    LowWords <- JustAbsent
    DEBUG = TRUE
    ONE_STEP = FALSE
SPECIFICATION Spec
INVARIANT SbrkFailureIsMFAIL
