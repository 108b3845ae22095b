SPECIFICATION SpecDeposed
CONSTANTS
    n1 = n1
    n2 = n2
    n3 = n3
    c1 = c1
    c2 = c2
    c3 = c3
    Node = {n1, n2, n3}
    Command = {c1, c2, c3}
    Follower = Follower
    Candidate = Candidate
    Leader = Leader
    None = None
    Outsider = {}
    MaxTerm = 4
    MaxElections = 4
    MaxLogLength = 2
    MaxLogRequests = 100
    Beating = {n2}
    Hasty = {}
    MaxStops = 0
    MaxLate = 0
    Impatient = {}
    MaxCalls = 2
VIEW TaskView
CHECK_DEADLOCK FALSE
INVARIANTS
    SuccessIsFinal
    RestsInSync
PROPERTIES
    FollowersCatchUp
    ClientsReturn
    ImplementsMessageList
