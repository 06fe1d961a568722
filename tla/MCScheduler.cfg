CONSTANTS
    MAX = 4
    Users = {u1, u2}
    Kernels = {k1}
    Yielding = {u1}
    Reaper = reaper
    Idle = idle
    NULL = NULL
SPECIFICATION Spec
INVARIANTS TypeOK SingleOwner NoDangling ReapOnlyDead ExitNeverReturns ReaperNeverFull IdleNeverRuns
PROPERTY NoLostProcess
