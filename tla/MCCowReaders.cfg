SPECIFICATION SpecFilled
CONSTANTS
    v = v
    Key = {1, 2, 3, 4}
    Value = {v, w}
    Large = {}
    Huge = {}
    Reader = {r}
    None = None
    PageSize = 40
    KeyLength <- FiveByteKeys
    ValueLength <- ValueLengths
    MaxPuts = 2
    MaxCrashes = 0
SYMMETRY SymmetryFilled
CHECK_DEADLOCK FALSE
PROPERTIES
    ImplementsPageVersions
    ImplementsKVStore
