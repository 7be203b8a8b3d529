SPECIFICATION LoadSpec
CONSTANTS
    DefLists <- MCDefLists
    FnumMapLimit = 5
    Node <- MCNode
    Enum <- MCEnum
    LastSlot = 1
    InitSize = 1
    MaxDepth = 5
INVARIANTS
    InsideArrays
    OneOwner
    NothingLeaks
    LoadsAsDeclared
    JudgedRight
    TypeOK
    PathSimple
    InsideStack
PROPERTIES
    PresizedForAll
    WalkEnds
CHECK_DEADLOCK FALSE
