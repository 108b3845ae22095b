SPECIFICATION RuntimeSpec
CONSTANTS
    n1 = n1
    n2 = n2
    n3 = n3
    c1 = c1
    c2 = c2
    c3 = c3
    Node = {n1, n2}
    Command = {c1}
    Follower = Follower
    Candidate = Candidate
    Leader = Leader
    None = None
    Outsider = {}
    MaxTerm = 3
    MaxElections = 3
    MaxLogLength = 1
    MaxLogRequests = 100
    MaxStops = 1
    MaxLate = 1
    Impatient = {n1, n2}
    Beating = {n1, n2}
    Hasty = {c1}
    MaxCalls = 2
SYMMETRY Symmetry
VIEW TaskView
CHECK_DEADLOCK FALSE
INVARIANTS
    NoLostWakeup
    RestsInSync
