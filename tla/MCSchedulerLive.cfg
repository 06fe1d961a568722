CONSTANTS
    MAX = 3
    Users = {u1, u2}
    Kernels = {k1}
    Yielding = {}
    Reaper = reaper
    Idle = idle
    NULL = NULL
SPECIFICATION FairSpec
PROPERTIES NoStarvation LifecycleLive
