CONSTANTS
    KernelThread = {k, j}
    Process = {p}
    Thread <- MCThread
    Frame = {0, 1, 2}
    KernelLock = KernelLock
    UserLock = UserLock
    PidLock = PidLock
    Lock <- MCLock
    NULL = NULL
    MaxPid = 2
CHECK_DEADLOCK FALSE
SPECIFICATION CreationSpec
INVARIANTS
    GivenOnceUnlessCrossed
    PidsIncrease
