--------------------------- MODULE MCRaftDiverged ---------------------------
(***************************************************************************)
(* Raft from a reachable state with diverged logs, in the scenario of      *)
(* Figure 8 of the Raft paper.  n2 and n3 elected n1 for term 1, which     *)
(* appended a; n3 elected n2 for term 2, which appended b; then n3 elected *)
(* n1 again for term 3, while n2 refused its vote and stepped down.  No    *)
(* replication request was sent so far.                                    *)
(***************************************************************************)
EXTENDS MCRaft

CONSTANTS n1, n2, n3, a, b

\* A follower in term 3 with its vote and its log.
InTermThree(vote, log) ==
    [FreshState EXCEPT !.currentTerm = 3, !.votedFor = vote, !.log = log]

\* The messages of an election of n for term t: its request, and the answers
\* of those who granted it their vote and of those who did not.
Ballot(n, t, length, last, granted, refused) ==
    {[type |-> "VoteRequest", candidateId |-> n, term |-> t,
      logLength |-> length, lastLogTerm |-> last]}
    \cup {[type |-> "VoteResponse", voterId |-> p, to |-> n, term |-> t,
           granted |-> p \in granted] : p \in granted \cup refused}

InitDiverged ==
    /\ node = [n \in Node |->
                 CASE n = n1 -> BecomeLeader(n1, InTermThree(n1, <<[command |-> a, term |-> 1]>>))
                   [] n = n2 -> InTermThree(None, <<[command |-> b, term |-> 2]>>)
                   [] n = n3 -> InTermThree(n1, <<>>)]
    /\ msgs = Ballot(n1, 1, 0, 0, {n2, n3}, {}) \cup Ballot(n2, 2, 0, 0, {n3}, {n1})
                 \cup Ballot(n1, 3, 1, 1, {n3}, {n2})

SpecDiverged == InitDiverged /\ [][Next]_vars
=============================================================================
