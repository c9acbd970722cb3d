CONSTANTS
    ByteBits = 2
    kernel_free_pages = 5
    user_free_pages = 5
    UserBytes = 3
    TablePages = 3
    PallocLimit = 5
    Process = {"p"}
    Tracked = {2}
    NoFrame = NoFrame
SPECIFICATION PageSpec
CHECK_DEADLOCK FALSE
INVARIANTS
    FramesOwnedOnce
    BitmapsTrue
    PanicsOnlyWhenOut
    ScanIsFirstFit
