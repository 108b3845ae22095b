SPECIFICATION SpecDiverged
CONSTANTS
    n1 = n1
    n2 = n2
    n3 = n3
    a = a
    b = b
    Node = {n1, n2, n3}
    Command = {a, b}
    Follower = Follower
    Candidate = Candidate
    Leader = Leader
    None = None
    Outsider = {}
    MaxTerm = 4
    MaxElections = 4
    MaxLogLength = 2
    MaxLogRequests = 3
VIEW LiveView
CHECK_DEADLOCK FALSE
INVARIANTS
    TypeOK
    LogMatching
    AppliedIsCommitted
    AckedIsHeld
    LeaderCompleteness
    StateMachineSafety
    NoInvariantViolation
PROPERTIES
    CommittedNeverLost
