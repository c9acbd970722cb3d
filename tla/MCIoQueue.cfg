CONSTANTS
    main = main
    p = p
    q = q
    c = c
    l = l
    x = x
    y = y
    Thread = {main, p, q, c}
    Main = main
    Created <- MCCreated
    Process = {}
    Priority <- MCPriority
    Lock = {l}
    NULL = NULL
    MaxRepeat = 1
    BufSize = 3
    Byte = {x, y}
    QueueLock = l
    Producer = {p, q}
    Consumer = {c}
    Polling = {}
CHECK_DEADLOCK FALSE
SPECIFICATION IoFairSpec
INVARIANTS
    PanicsOnlyOnSleeper
    SleeperOK
    SleepsOnBytes
PROPERTIES
    ImplementsQueue
    ProducerServed
