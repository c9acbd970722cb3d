CONSTANTS
    main = main
    k = k
    w = w
    l = l
    console = console
    x = x
    y = y
    Thread = {main, k, w}
    Main = main
    Created <- MCCreated
    Process = {}
    Priority <- MCPriority
    Lock = {l, console}
    NULL = NULL
    MaxRepeat = 1
    BufSize = 3
    Byte = {x, y}
    QueueLock = l
    Producer = {}
    Consumer = {k}
    Polling = {k}
    Printer = k
    ConsoleLock = console
    Writer = {w}
SPECIFICATION KbSpec
INVARIANTS
    NoPanic
PROPERTIES
    TypedInOrder
