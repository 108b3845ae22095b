SPECIFICATION Spec
CONSTANTS
    PageSize = 64
    EntrySizes = {10, 13, 22, 26, 27, 53}
CHECK_DEADLOCK FALSE
INVARIANTS
    TypeOK
    SmallEntriesSplit
