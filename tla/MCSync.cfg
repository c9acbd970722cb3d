CONSTANTS
    main = main
    s = s
    u = u
    a = a
    NULL = NULL
    Thread = {main, s, u}
    Main = main
    Process = {}
    Lock = {a}
    MaxRepeat = 2
    Created <- MCCreated
    Priority <- MCPriority
SPECIFICATION SyncFairSpec
INVARIANTS
    NoPanic
    HolderOK
    WaitingListOK
    NoLostWakeup
PROPERTIES
    IntStatusKept
    ImplementsLock
    WaiterWoken
