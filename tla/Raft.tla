-------------------------------- MODULE Raft --------------------------------
(***************************************************************************)
(* A static cluster of RaftCore engines, each driven by the RaftNode of    *)
(* raft-protocol/src/raft_node/runtime/node.py, over an asynchronous       *)
(* network.                                                                *)
(*                                                                         *)
(* No critical section of the runtime awaits while it holds the condition, *)
(* so every section is one atomic step: a handler of the core together     *)
(* with the _apply_committed_entries that follows it.                      *)
(*                                                                         *)
(* msgs holds every message that was ever sent.  A message in it may be    *)
(* handled at any later time, any number of times, or never: an RPC that   *)
(* times out at its caller may still be executed by its peer, the periodic *)
(* signal sends a request again with the same contents, and requests of    *)
(* different tasks overtake each other.                                    *)
(*                                                                         *)
(* Outsider holds ids outside the static membership, from nodes with       *)
(* another configuration: the handlers must ignore their requests.         *)
(***************************************************************************)
EXTENDS RaftCore

CONSTANTS MaxTerm,       \* bound: no election starts from this term
          MaxElections,  \* bound: elections started by all nodes together
          MaxLogLength,  \* bound: no command is appended to a longer log
          MaxLogRequests \* bound: different requests sent by replication workers

ASSUME BoundAssumption ==
    /\ MaxTerm \in Nat /\ MaxElections \in Nat
    /\ MaxLogLength \in Nat /\ MaxLogRequests \in Nat

VARIABLES node,  \* node[n]: the RaftState of n
          msgs   \* every message sent so far

vars == <<node, msgs>>

Sent(type) == {m \in msgs : m.type = type}

\* Every election leaves a request of its own candidate and term.
Elections == {m \in Sent("VoteRequest") : m.candidateId \in Node}

Replications == {m \in Sent("LogRequest") : m.leaderId \in Node}

-----------------------------------------------------------------------------
\* What nodes of other clusters send to this one: their requests are well
\* formed, and they may carry any term.
OutsiderRequests ==
    {[type |-> "VoteRequest", candidateId |-> o, term |-> t,
      logLength |-> MaxLogLength, lastLogTerm |-> t] : o \in Outsider, t \in 1 .. MaxTerm}
    \cup
    {[type |-> "LogRequest", leaderId |-> o, to |-> n, term |-> t,
      prefixLength |-> 0, prefixTerm |-> 0, leaderCommit |-> MaxLogLength,
      entries |-> <<>>] : o \in Outsider, n \in Node, t \in 1 .. MaxTerm}

\* Outsiders may address a member at any time: their requests are there from
\* the start.
Init == /\ node = [n \in Node |-> FreshState]
        /\ msgs = OutsiderRequests

\* _start_election_round, after the election timer of a node that is not a
\* leader ran out.
StartElectionRound(n) ==
    /\ node[n].role # Leader
    /\ node[n].currentTerm < MaxTerm
    /\ Cardinality(Elections) < MaxElections
    /\ LET r == StartElection(n, node[n])
       IN  /\ node' = [node EXCEPT ![n] = r.state]
           /\ msgs' = msgs \cup {r.request}

\* receive_vote_request: the request is broadcast to every other member.
ReceiveVoteRequest(n, m) ==
    /\ m.candidateId # n
    /\ LET r == HandleVoteRequest(n, node[n], m)
       IN  /\ node' = [node EXCEPT ![n] = r.state]
           /\ msgs' = msgs \cup {r.response}

\* The second half of _request_vote: a response came back.
VoteResponseArrives(n, m) ==
    /\ m.to = n
    /\ node' = [node EXCEPT ![n] = HandleVoteResponse(n, @, m)]
    /\ UNCHANGED msgs

\* submit_command at the leader, up to its wait for the commit.
SubmitCommand(n, c) ==
    /\ node[n].role = Leader
    /\ Len(node[n].log) < MaxLogLength
    /\ node' = [node EXCEPT ![n] = ApplyCommittedEntries(AppendCommand(n, @, c))]
    /\ UNCHANGED msgs

\* The first half of a round of _replication_worker(p).
SendLogRequest(n, p) ==
    /\ p # n
    /\ node[n].role = Leader
    /\ Cardinality(Replications) < MaxLogRequests
    /\ msgs' = msgs \cup {MakeLogRequest(n, node[n], p)}
    /\ UNCHANGED node

\* receive_log_request.
ReceiveLogRequest(n, m) ==
    /\ m.to = n
    /\ ~LogRequestRaises(node[n], m)
    /\ LET r == HandleLogRequest(n, node[n], m)
       IN  /\ node' = [node EXCEPT ![n] = ApplyCommittedEntries(r.state)]
           /\ msgs' = msgs \cup {r.response}

\* The second half of a round of _replication_worker.
LogResponseArrives(n, m) ==
    /\ m.to = n
    /\ ~LogResponseRaises(node[n], m)
    /\ node' = [node EXCEPT ![n] = ApplyCommittedEntries(HandleLogResponse(n, @, m))]
    /\ UNCHANGED msgs

Next ==
    \/ \E n \in Node : StartElectionRound(n)
    \/ \E n \in Node, m \in Sent("VoteRequest") : ReceiveVoteRequest(n, m)
    \/ \E n \in Node, m \in Sent("VoteResponse") : VoteResponseArrives(n, m)
    \/ \E n \in Node, c \in Command : SubmitCommand(n, c)
    \/ \E n, p \in Node : SendLogRequest(n, p)
    \/ \E n \in Node, m \in Sent("LogRequest") : ReceiveLogRequest(n, m)
    \/ \E n \in Node, m \in Sent("LogResponse") : LogResponseArrives(n, m)

Spec == Init /\ [][Next]_vars

-----------------------------------------------------------------------------
(* Properties.                                                             *)

\* Every node's state and every message has its type (RaftState, models.py).
TypeOK == node \in [Node -> RaftState] /\ msgs \subseteq Message

Prefix(log, length) == SubSeq(log, 1, length)

Committed(s) == Prefix(s.log, s.commitLength)

\* The nodes that act or acted as leader of term t, as far as the network
\* remembers: leaders now, and members with replication requests of term t.
LeadersOf(t) ==
    {n \in Node : node[n].role = Leader /\ node[n].currentTerm = t}
    \cup {m.leaderId : m \in {r \in Replications : r.term = t}}

\* At most one node ever acts as the leader of a term, counting leaders that
\* have stepped down while their requests are still under way.
ElectionSafety ==
    \A t \in 1 .. MaxTerm : \A n, p \in LeadersOf(t) : n = p

\* A node that names a leader names one that acted as leader of its term:
\* the hint of a NotLeaderError (HTTP 409) is never a losing candidate.
LeaderHintIsElected ==
    \A n \in Node :
        node[n].leaderId # None => node[n].leaderId \in LeadersOf(node[n].currentTerm)

\* A node is in a term only because a member started an election for it:
\* requests from outside the membership never move the cluster's terms.
TermsAreElected ==
    \A n \in Node :
        node[n].currentTerm # 0 => \E m \in Elections : m.term = node[n].currentTerm

\* Log Matching: two logs that hold an entry of the same term at the same
\* index agree up to there.
LogMatching ==
    \A n, p \in Node :
        \A k \in 1 .. Len(node[n].log) :
            /\ k <= Len(node[p].log)
            /\ node[n].log[k].term = node[p].log[k].term
            => Prefix(node[n].log, k) = Prefix(node[p].log, k)

\* Leader Completeness: a leader's log holds all that any node whose term is
\* not ahead of it has committed.
LeaderCompleteness ==
    \A n, p \in Node :
        node[n].role = Leader /\ node[p].currentTerm <= node[n].currentTerm
            => /\ node[p].commitLength <= Len(node[n].log)
               /\ Committed(node[p]) = Prefix(node[n].log, node[p].commitLength)

\* State Machine Safety: of any two nodes, one has applied a prefix of what
\* the other has applied.
StateMachineSafety ==
    \A n, p \in Node :
        Len(node[n].applied) <= Len(node[p].applied)
            => node[n].applied = Prefix(node[p].applied, Len(node[n].applied))

\* What a node has applied is what its committed prefix holds now: the log
\* below commit_length was not changed after it was applied.
AppliedIsCommitted ==
    \A n \in Node :
        /\ Len(node[n].applied) = node[n].commitLength
        /\ \A k \in 1 .. node[n].commitLength :
              node[n].applied[k] = node[n].log[k].command

\* No message in the network can make a handler raise InvariantViolation:
\* neither _reconcile_log, handle_log_response and make_log_request, nor
\* validate() of the state that a handler left.
NoInvariantViolation ==
    /\ \A n \in Node : ValidState(n, node[n])
    /\ \A m \in Sent("LogRequest") : ~LogRequestRaises(node[m.to], m)
    /\ \A m \in Sent("LogResponse") :
          m.to \in Node => ~LogResponseRaises(node[m.to], m)
    /\ \A n, p \in Node :
          node[n].role = Leader => node[n].sentLength[p] <= Len(node[n].log)

\* A leader never counts as acknowledged what the follower does not hold,
\* as long as the follower has not moved to a later term.
AckedIsHeld ==
    \A n, p \in Node :
        node[n].role = Leader /\ node[p].currentTerm = node[n].currentTerm
            => /\ node[n].ackedLength[p] <= Len(node[p].log)
               /\ Prefix(node[p].log, node[n].ackedLength[p])
                     = Prefix(node[n].log, node[n].ackedLength[p])

\* No step takes a committed entry back or lowers commit_length, whatever
\* requests of deposed leaders are still delivered.
CommittedNeverLost ==
    [][\A n \in Node :
          /\ node[n].commitLength <= node'[n].commitLength
          /\ Prefix(node'[n].log, node[n].commitLength) = Committed(node[n])]_vars

\* No step lowers a term, and within a term no step changes a vote that was
\* given: neither a step down nor a late request makes a node vote twice.
VotesAndTermsKept ==
    [][\A n \in Node :
          /\ node[n].currentTerm <= node'[n].currentTerm
          /\ node[n].currentTerm = node'[n].currentTerm /\ node[n].votedFor # None
                => node'[n].votedFor = node[n].votedFor]_vars
=============================================================================
