CONSTANTS
    Thread = {w, v}
    Lock = {console}
    ConsoleLock = console
    NULL = NULL
    Cols = 3
    Rows = 3
    LowRange = 8
    Word = 64
    Limit = 16
    Char = {a}
    Blank = Blank
    Key <- MCKeys
    MaxQueue = 1
CHECK_DEADLOCK FALSE
SPECIFICATION DevicesSpec
CONSTRAINT Followed
INVARIANTS
    KeepsToScreen
    CursorRecovers
    NotStuck
PROPERTIES
    ImplementsTerminal
    
