CONSTANTS
    main = main
    k = k
    p = p
    q = q
    Thread = {main, k, p, q}
    Main = main
    Process = {p, q}
    Created <- MCCreated
    Priority <- MCPriority
SPECIFICATION ThreadSpec
CHECK_DEADLOCK FALSE
INVARIANTS
    PanicsOnlyInWalk
    ReadyListOK
    AddressSpaceOK
PROPERTY NoStarvation
