SPECIFICATION SpecFilled
CONSTANTS
    v = v
    Key = {1, 2, 3, 4}
    Value = {v, b, h}
    Large = {b}
    Huge = {h}
    Reader = {}
    None = None
    PageSize = 40
    KeyLength <- FiveByteKeys
    ValueLength <- ValueLengths
    MaxPuts = 3
    MaxCrashes = 1
CHECK_DEADLOCK FALSE
INVARIANTS
    TypeOK
    FileIsRecoverable
    SearchTree
PROPERTIES
    ImplementsPageVersions
    ImplementsKVStore
    LostByFailureOnly
