CONSTANTS
    MAX = 3
    Users = {u1}
    Kernels = {}
    Yielding = {u1}
    Reaper = reaper
    Idle = idle
    NULL = NULL
SPECIFICATION Spec
INVARIANT YieldNeverReturns
