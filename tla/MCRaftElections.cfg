SPECIFICATION Spec
CONSTANTS
    Node = {n1, n2, n3}
    Command = {a}
    Follower = Follower
    Candidate = Candidate
    Leader = Leader
    None = None
    Outsider = {x}
    MaxTerm = 3
    MaxElections = 4
    MaxLogLength = 0
    MaxLogRequests = 2
SYMMETRY Symmetry
VIEW LiveView
CHECK_DEADLOCK FALSE
INVARIANTS
    ElectionSafety
    LeaderHintIsElected
    TermsAreElected
PROPERTIES
    VotesAndTermsKept
