CONSTANTS
    ready = {r, w}
    all = a
    Tag = {x, y, z}
    AllTag = {t, u}
    Walked = {a, r}
    NoElem = NoElem
    Bytes = 4
    Size = 6
    IntHalf = 256
SPECIFICATION LibrarySpec
INVARIANTS
    PointersSpell
    FindStaysOnList
    StringsRight
    NumbersRight
