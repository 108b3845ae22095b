SPECIFICATION SpecEither
CONSTANTS
    v = v
    Key = {1, 2, 3}
    Value = {v}
    Large = {}
    Huge = {}
    Reader = {}
    None = None
    PageSize = 40
    KeyLength <- FiveByteKeys
    ValueLength <- ValueLengths
    MaxPuts = 2
    MaxCrashes = 1
CHECK_DEADLOCK FALSE
INVARIANTS
    HeaderIsKept
