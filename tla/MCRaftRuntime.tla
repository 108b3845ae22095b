---------------------------- MODULE MCRaftRuntime ----------------------------
(***************************************************************************)
(* Instances of HttpApi.  One starts with two leaders: n1 was elected for  *)
(* term 1 and does not know yet that it is deposed, with a client waiting  *)
(* for its uncommitted entry.  n2 was elected for term 2, lost its         *)
(* leadership to the campaign of n3 in term 3 and was elected again for    *)
(* term 4, with an entry of term 2 and one of term 4 in its log.  Clients  *)
(* wait for both; that of the first has been woken and not looked yet.     *)
(***************************************************************************)
EXTENDS HttpApi, TLC

CONSTANTS n1, n2, n3, c1, c2, c3

Ballot(n, t, length, last, granted, refused) ==
    {[type |-> "VoteRequest", candidateId |-> n, term |-> t,
      logLength |-> length, lastLogTerm |-> last]}
    \cup {[type |-> "VoteResponse", voterId |-> p, to |-> n, term |-> t,
           granted |-> p \in granted] : p \in granted \cup refused}

Waiting(n, index, d, t, woken) ==
    [pc |-> "waiting", at |-> n, index |-> index,
     entry |-> [command |-> d, term |-> t], woken |-> woken]

InitDeposed ==
    LET voted(n, t) == [FreshState EXCEPT !.currentTerm = t, !.votedFor = n]
        first == BecomeLeader(n1, voted(n1, 1))
        again == BecomeLeader(n2, [voted(n2, 4) EXCEPT !.log = <<[command |-> c2, term |-> 2]>>])
    IN  /\ node = [n \in Node |-> CASE n = n1 -> AppendCommand(n1, first, c1)
                                   [] n = n2 -> AppendCommand(n2, again, c3)
                                   [] n = n3 -> voted(n2, 4)]
        /\ msgs = Ballot(n1, 1, 0, 0, {n2, n3}, {}) \cup Ballot(n2, 2, 0, 0, {n3}, {})
                  \cup Ballot(n3, 3, 0, 0, {}, {n2}) \cup Ballot(n2, 4, 1, 2, {n3}, {})
                  \cup {MakeLogRequest(n1, node[n1], p) : p \in {n2, n3}}
        /\ running = [n \in Node |-> TRUE]
        /\ timer = [n \in Node |-> "running"]
        /\ signal = [n \in Node |-> [p \in Node |-> n = n2 /\ p # n]]
        /\ worker = [n \in Node |-> [p \in Node |-> IF n = n1 /\ p # n1 THEN Failed ELSE Idle]]
        /\ ballots = {} /\ late = {}
        /\ client = [d \in Command |->
                       CASE d = c1 -> Waiting(n1, 1, c1, 1, FALSE)
                         [] d = c2 -> Waiting(n2, 1, c2, 2, TRUE)
                         [] d = c3 -> Waiting(n2, 2, c3, 4, FALSE)]

SpecDeposed == InitDeposed /\ [][RuntimeNext]_allVars /\ Fairness

\* The messages sent so far are read by no action except where they count
\* elections.
TaskView == <<node, runtimeVars, Cardinality(Elections)>>

\* The nodes of RuntimeSpec are interchangeable.
Symmetry == Permutations(Node)
=============================================================================
