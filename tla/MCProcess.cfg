CONSTANTS
    Entries = 5
    KernelFirst = 3
    LowPages = 2
    Window = 1
    Region = 5
    HeapPages = 3
    UserStart = 8
    UserPages = 3
    kernel_free_pages = 6
    user_free_pages = 3
    Process = {"p", "q"}
    NoFrame = NoFrame
    Runner = {"m", "k", "p"}
    Program = {"p"}
    First = "m"
    Vector = {32, 39}
    Arity = {0, 3}
    PageSize = 8
    HeaderSize = 2
    MinBlock = 2
    ArenaSum = 2
    Pages = 3
    Sizes = {0, 2, 4, 5, 7}
SPECIFICATION ProcessSpec
INVARIANTS
    DescriptorsReach
    ContextKept
    LiveIsolated
    FreeListsOK
    NothingLeaks
PROPERTY
    ImplementsSpaces
