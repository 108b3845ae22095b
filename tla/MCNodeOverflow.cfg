SPECIFICATION Spec
CONSTANTS
    PageSize = 64
    EntrySizes = {10, 43, 44}
CHECK_DEADLOCK FALSE
INVARIANTS
    OverflowIsSplit
