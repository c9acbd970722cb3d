CONSTANTS
    k = k
    p = p
    KernelThread = {k}
    Process = {p}
    Thread <- MCThread
    Frame = {0, 1, 2}
    KernelLock = KernelLock
    UserLock = UserLock
    Lock <- MCLock
    NULL = NULL
CHECK_DEADLOCK FALSE
SPECIFICATION RaceSpec
INVARIANTS
    FrameGivenOnce
