SPECIFICATION Spec
CONSTANTS
    Key = {1}
    Value = {v}
    Large = {}
    Huge = {}
    Reader = {r, s}
    None = None
    PageSize = 40
    KeyLength <- FiveByteKeys
    ValueLength <- ValueLengths
    MaxPuts = 6
    MaxCrashes = 0
SYMMETRY Symmetry
CHECK_DEADLOCK FALSE
INVARIANTS
    NoPageReusedEarly
PROPERTIES
    ImplementsPageVersions
    LostByFailureOnly
