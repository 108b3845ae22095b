------------------------------ MODULE RaftCore ------------------------------
(***************************************************************************)
(* The pure protocol engine of one Raft node: class RaftCore of            *)
(* raft-protocol/src/raft_node/core/raft.py over the RaftState of          *)
(* core/state.py.  Every handler is an operator from the state of a node   *)
(* (and the message it handles) to its next state and its response, as the *)
(* methods of RaftCore return Result records; who calls them, and when,    *)
(* is the business of the module Raft.                                     *)
(*                                                                         *)
(* The node's own id is the parameter "self"; state.members is Node.       *)
(* TLA+ sequences count from 1 where Python counts from 0, so log[k] is    *)
(* the entry at index k - 1 and a "length" k is the index of the last      *)
(* entry of the prefix of that length.                                     *)
(***************************************************************************)
EXTENDS Naturals, Sequences, FiniteSets

CONSTANTS Node,                        \* the members of the static cluster
          Command,                     \* client commands
          Follower, Candidate, Leader, \* Role
          None,                        \* Python's None, for an absent id
          Outsider                     \* ids that are not members

ASSUME NodeAssumption == IsFiniteSet(Node) /\ Node # {} /\ None \notin Node
ASSUME OutsiderAssumption == Outsider \cap (Node \cup {None}) = {}
ASSUME RoleAssumption ==
    Follower # Candidate /\ Follower # Leader /\ Candidate # Leader

-----------------------------------------------------------------------------
(* Data.                                                                   *)

LogEntry == [command : Command, term : Nat]

\* A dictionary after .clear(): a map without keys.
NoLengths == [member \in {} |-> 0]

\* The fields of RaftState.  "applied" is applied_commands, and its length
\* is applied_length.
RaftState ==
    [currentTerm   : Nat,
     votedFor      : Node \cup {None},
     log           : Seq(LogEntry),
     commitLength  : Nat,
     role          : {Follower, Candidate, Leader},
     leaderId      : Node \cup {None},
     votesReceived : SUBSET Node,
     sentLength    : [Node -> Nat] \cup {NoLengths},
     ackedLength   : [Node -> Nat] \cup {NoLengths},
     applied       : Seq(Command)]

\* The payloads of models.py.  "to" is the node that an RPC or its response is
\* addressed to; a VoteRequest goes to every other member.
VoteRequest == [type : {"VoteRequest"}, candidateId : Node \cup Outsider,
                term : Nat, logLength : Nat, lastLogTerm : Nat]
VoteResponse == [type : {"VoteResponse"}, voterId : Node, to : Node \cup Outsider,
                 term : Nat, granted : BOOLEAN]
LogRequest == [type : {"LogRequest"}, leaderId : Node \cup Outsider, to : Node,
               term : Nat, prefixLength : Nat, prefixTerm : Nat,
               leaderCommit : Nat, entries : Seq(LogEntry)]
LogResponse == [type : {"LogResponse"}, followerId : Node, to : Node \cup Outsider,
                term : Nat, acknowledgedLength : Nat, success : BOOLEAN]

Message == VoteRequest \cup VoteResponse \cup LogRequest \cup LogResponse

\* RaftCore.fresh: an empty follower.
FreshState ==
    [currentTerm |-> 0, votedFor |-> None, log |-> <<>>, commitLength |-> 0,
     role |-> Follower, leaderId |-> None, votesReceived |-> {},
     sentLength |-> NoLengths, ackedLength |-> NoLengths, applied |-> <<>>]

QuorumSize == (Cardinality(Node) \div 2) + 1

TermAt(log, length) == IF length = 0 THEN 0 ELSE log[length].term

LastLogTerm(s) == TermAt(s.log, Len(s.log))

-----------------------------------------------------------------------------
(* Role changes.                                                           *)

\* Mutant: every step down forgets the vote, also within a term.
BecomeFollower_ForgetsVote(s, term, leader) ==
    [s EXCEPT !.currentTerm = term, !.votedFor = None, !.role = Follower,
              !.leaderId = leader, !.votesReceived = {},
              !.sentLength = NoLengths, !.ackedLength = NoLengths]

BecomeFollower(s, term, leader) ==
    [s EXCEPT !.currentTerm = term,
              !.votedFor = IF term > s.currentTerm THEN None ELSE @,
              !.role = Follower,
              !.leaderId = leader,
              !.votesReceived = {},
              !.sentLength = NoLengths,
              !.ackedLength = NoLengths]

\* Mutant: no lengths are kept for the leader itself.
BecomeLeader_PeersOnly(self, s) ==
    [s EXCEPT !.role = Leader, !.leaderId = self, !.votesReceived = {},
              !.sentLength = [p \in Node \ {self} |-> Len(s.log)],
              !.ackedLength = [p \in Node |-> IF p = self THEN Len(s.log) ELSE 0]]

\* Mutant: peers are taken to hold the leader's log.
BecomeLeader_AssumesAcks(self, s) ==
    [s EXCEPT !.role = Leader, !.leaderId = self, !.votesReceived = {},
              !.sentLength = [p \in Node |-> Len(s.log)],
              !.ackedLength = [p \in Node |-> Len(s.log)]]

BecomeLeader(self, s) ==
    [s EXCEPT !.role = Leader,
              !.leaderId = self,
              !.votesReceived = {},
              !.sentLength = [p \in Node |-> Len(s.log)],
              !.ackedLength = [p \in Node |-> IF p = self THEN Len(s.log) ELSE 0]]

-----------------------------------------------------------------------------
(* Elections.                                                              *)

BecomeCandidate(self, s) ==
    [s EXCEPT !.currentTerm = @ + 1,
              !.role = Candidate,
              !.leaderId = None,
              !.votedFor = self,
              !.votesReceived = {self},
              !.sentLength = NoLengths,
              !.ackedLength = NoLengths]

\* A cluster of one node is its own quorum and elects itself at once.
StartElection(self, s) ==
    LET c == BecomeCandidate(self, s)
        v == [type |-> "VoteRequest", candidateId |-> self,
              term |-> c.currentTerm, logLength |-> Len(c.log),
              lastLogTerm |-> LastLogTerm(c)]
    IN  [state |-> IF QuorumSize <= 1 THEN BecomeLeader(self, c) ELSE c,
         request |-> v]

LogIsCurrent(s, m) ==
    \/ m.lastLogTerm > LastLogTerm(s)
    \/ m.lastLogTerm = LastLogTerm(s) /\ m.logLength >= Len(s.log)

\* The node moves to the term of a message that is ahead of it.
StepUp(s, term, leader) ==
    IF term > s.currentTerm THEN BecomeFollower(s, term, leader) ELSE s

\* Mutant: the vote already given in this term is not looked at.
GrantsVote_Again(s, m) == m.term = s.currentTerm /\ LogIsCurrent(s, m)

\* Mutant: a candidate with a shorter or older log gets the vote.
GrantsVote_AnyLog(s, m) ==
    m.term = s.currentTerm /\ s.votedFor \in {None, m.candidateId}

GrantsVote(s, m) ==
    /\ m.term = s.currentTerm
    /\ LogIsCurrent(s, m)
    /\ s.votedFor \in {None, m.candidateId}

\* Mutant: the candidate is taken for the leader.
GiveVote_Follows(s, m) ==
    [BecomeFollower(s, s.currentTerm, m.candidateId) EXCEPT !.votedFor = m.candidateId]

GiveVote(s, m) ==
    [BecomeFollower(s, s.currentTerm, None) EXCEPT !.votedFor = m.candidateId]

HandleVoteRequest(self, s, m) ==
    LET u == IF m.candidateId \in Node THEN StepUp(s, m.term, None) ELSE s
        granted == m.candidateId \in Node /\ GrantsVote(u, m)
    IN  [state |-> IF granted THEN GiveVote(u, m) ELSE u,
         response |-> [type |-> "VoteResponse", voterId |-> self,
                       to |-> m.candidateId, term |-> u.currentTerm,
                       granted |-> granted]]

CountsVote(s, m) ==
    s.role = Candidate /\ m.term = s.currentTerm /\ m.granted

HandleVoteResponse(self, s, m) ==
    LET u == [s EXCEPT !.votesReceived = @ \cup {m.voterId}]
    IN  IF m.term > s.currentTerm THEN BecomeFollower(s, m.term, None)
        ELSE IF ~CountsVote(s, m) THEN s
        ELSE IF Cardinality(u.votesReceived) < QuorumSize THEN u
        ELSE BecomeLeader(self, u)

-----------------------------------------------------------------------------
(* Log replication.                                                        *)

\* Mutant: entries of earlier terms are committed by counting replicas.
Committable_AnyTerm(s) ==
    {k \in (s.commitLength + 1) .. Len(s.log) :
        Cardinality({p \in Node : s.ackedLength[p] >= k}) >= QuorumSize}

\* The lengths a leader may commit: an entry of its own term that a quorum
\* has acknowledged, past what is committed already.
Committable(s) ==
    {k \in (s.commitLength + 1) .. Len(s.log) :
        /\ s.log[k].term = s.currentTerm
        /\ Cardinality({p \in Node : s.ackedLength[p] >= k}) >= QuorumSize}

\* The scan in _advance_commit_length goes down from the end of the log: it
\* stops at the longest committable length.
AdvanceCommitLength(s) ==
    IF Committable(s) = {} THEN s
    ELSE [s EXCEPT !.commitLength =
             CHOOSE k \in Committable(s) : \A j \in Committable(s) : j <= k]

\* Mutant: one entry is applied where the code loops.
ApplyCommittedEntries_One(s) ==
    IF Len(s.applied) < s.commitLength
    THEN [s EXCEPT !.applied = Append(@, s.log[Len(@) + 1].command)]
    ELSE s

\* _apply_committed_entries: the runtime calls it in the critical section of
\* every handler that may move commit_length.
ApplyCommittedEntries(s) ==
    [s EXCEPT !.applied =
        @ \o [i \in 1 .. (s.commitLength - Len(@)) |-> s.log[Len(@) + i].command]]

AppendCommand(self, s, c) ==
    LET length == Len(s.log) + 1
    IN  AdvanceCommitLength(
            [s EXCEPT !.log = Append(@, [command |-> c, term |-> s.currentTerm]),
                      !.sentLength[self] = length,
                      !.ackedLength[self] = length])

MakeLogRequest(self, s, p) ==
    [type |-> "LogRequest", leaderId |-> self, to |-> p,
     term |-> s.currentTerm,
     prefixLength |-> s.sentLength[p],
     prefixTerm |-> TermAt(s.log, s.sentLength[p]),
     leaderCommit |-> s.commitLength,
     entries |-> SubSeq(s.log, s.sentLength[p] + 1, Len(s.log))]

\* Mutant: the term at the end of the prefix is not compared.
PrefixMatches_LengthOnly(log, m) == m.prefixLength <= Len(log)

PrefixMatches(log, m) ==
    /\ m.prefixLength <= Len(log)
    /\ m.prefixLength = 0 \/ TermAt(log, m.prefixLength) = m.prefixTerm

\* The positions of the log that the entries of m address.
Overlap(log, m) ==
    {k \in (m.prefixLength + 1) .. (m.prefixLength + Len(m.entries)) : k <= Len(log)}

Conflicts(log, m) ==
    {k \in Overlap(log, m) : log[k].term # m.entries[k - m.prefixLength].term}

\* Mutant: a conflicting suffix is not truncated.
ReconcileLog_KeepsConflicts(log, m) ==
    IF m.prefixLength + Len(m.entries) <= Len(log) THEN log
    ELSE log \o SubSeq(m.entries, Len(log) - m.prefixLength + 1, Len(m.entries))

\* _reconcile_log keeps a log that already holds the entries, and otherwise
\* truncates at the first conflict and appends the rest of the entries.
ReconcileLog(log, m) ==
    IF Conflicts(log, m) = {} /\ m.prefixLength + Len(m.entries) <= Len(log)
    THEN log
    ELSE SubSeq(log, 1, m.prefixLength) \o m.entries

\* The two InvariantViolations of _reconcile_log: a different command under
\* the same index and term, before any conflict of terms, and a first
\* conflict inside the committed prefix.
ReconcileRaises(s, m) ==
    \E k \in Overlap(s.log, m) :
        /\ \A j \in Conflicts(s.log, m) : k <= j
        /\ \/ /\ k \notin Conflicts(s.log, m)
              /\ s.log[k].command # m.entries[k - m.prefixLength].command
           \/ k \in Conflicts(s.log, m) /\ k <= s.commitLength

\* Mutant: the sender need not be a member.
AcceptsLeader_Anyone(s, m) == m.term >= s.currentTerm

AcceptsLeader(s, m) == m.leaderId \in Node /\ m.term >= s.currentTerm

FollowLeader(s, m) ==
    IF m.term > s.currentTerm \/ s.role # Follower
    THEN BecomeFollower(s, m.term, m.leaderId)
    ELSE [s EXCEPT !.leaderId = m.leaderId]

\* Mutant: a late request lowers the commit length.
AcceptEntries_Lowers(s, m) ==
    LET acknowledged == m.prefixLength + Len(m.entries)
    IN  [s EXCEPT !.log = ReconcileLog(@, m),
                  !.commitLength = IF m.leaderCommit < acknowledged
                                   THEN m.leaderCommit ELSE acknowledged]

\* The log after the reconciliation, and the leader's commit length as far
\* as this request has vouched for the log.
AcceptEntries(s, m) ==
    LET acknowledged == m.prefixLength + Len(m.entries)
        vouched == IF m.leaderCommit < acknowledged THEN m.leaderCommit ELSE acknowledged
    IN  [s EXCEPT !.log = ReconcileLog(@, m),
                  !.commitLength = IF vouched > @ THEN vouched ELSE @]

HandleLogRequest(self, s, m) ==
    LET u == IF AcceptsLeader(s, m) THEN FollowLeader(s, m) ELSE s
        success == AcceptsLeader(s, m) /\ PrefixMatches(s.log, m)
    IN  [state |-> IF success THEN AcceptEntries(u, m) ELSE u,
         response |-> [type |-> "LogResponse", followerId |-> self,
                       to |-> m.leaderId, term |-> u.currentTerm,
                       acknowledgedLength |->
                           IF success THEN m.prefixLength + Len(m.entries) ELSE 0,
                       success |-> success]]

LogRequestRaises(s, m) ==
    AcceptsLeader(s, m) /\ PrefixMatches(s.log, m) /\ ReconcileRaises(s, m)

\* A leader uses a response of its own term only.
TracksResponse(s, m) == s.role = Leader /\ m.term = s.currentTerm

LogResponseRaises(s, m) ==
    TracksResponse(s, m) /\ m.success /\ m.acknowledgedLength > Len(s.log)

RecordAck(s, m) ==
    AdvanceCommitLength(
        [s EXCEPT !.sentLength[m.followerId] = m.acknowledgedLength,
                  !.ackedLength[m.followerId] = m.acknowledgedLength])

\* Mutant: the prefix that did not match is sent again.
StepBack_Stays(s, m) == s

StepBack(s, m) ==
    IF s.sentLength[m.followerId] = 0 THEN s
    ELSE [s EXCEPT !.sentLength[m.followerId] = @ - 1]

\* A late success, below what the follower acknowledged already, is ignored.
HandleLogResponse(self, s, m) ==
    IF m.term > s.currentTerm THEN BecomeFollower(s, m.term, None)
    ELSE IF ~TracksResponse(s, m) THEN s
    ELSE IF ~m.success THEN StepBack(s, m)
    ELSE IF m.acknowledgedLength < s.ackedLength[m.followerId] THEN s
    ELSE RecordAck(s, m)

-----------------------------------------------------------------------------
(* RaftState.validate: what every handler checks of the state it leaves.    *)

ValidState(self, s) ==
    /\ s.commitLength <= Len(s.log)
    /\ Len(s.applied) <= s.commitLength
    /\ \A k \in 1 .. Len(s.log) : s.log[k].term <= s.currentTerm
    /\ \A k \in 2 .. Len(s.log) : s.log[k - 1].term <= s.log[k].term
    /\ s.role = Leader => s.leaderId = self
=============================================================================
