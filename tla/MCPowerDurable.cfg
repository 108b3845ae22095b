SPECIFICATION SpecWhole
CONSTANTS
    v = v
    Key = {1, 2, 3}
    Value = {v, w}
    Large = {}
    Huge = {}
    Reader = {r}
    None = None
    PageSize = 40
    KeyLength <- FiveByteKeys
    ValueLength <- ValueLengths
    MaxPuts = 2
    MaxCrashes = 1
CHECK_DEADLOCK FALSE
INVARIANTS
    DiskIsRecoverable
PROPERTIES
    DurableOnDisk
