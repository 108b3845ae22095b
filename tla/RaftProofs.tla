----------------------------- MODULE RaftProofs -----------------------------
(***************************************************************************)
(* Types, elections and logs, for every membership, every set of commands  *)
(* and every value of the bounds.  First what every handler of RaftCore    *)
(* keeps, whatever its message: the state is well formed afterwards, and   *)
(* the response has its type.  Then the theorems of the cluster (module    *)
(* Raft): elections, and what becomes of the logs.                         *)
(***************************************************************************)
EXTENDS Raft, Integers, FiniteSetTheorems, SequenceTheorems, WellFoundedInduction, TLAPS

\* The part of validate() that types rest on: the lengths point into the log,
\* and a leader has a length for every member.
WellFormed(s) ==
    /\ s \in RaftState
    /\ Len(s.applied) <= s.commitLength
    /\ s.commitLength <= Len(s.log)
    /\ s.role = Leader => /\ s.sentLength \in [Node -> 0 .. Len(s.log)]
                          /\ s.ackedLength \in [Node -> 0 .. Len(s.log)]

-----------------------------------------------------------------------------
(* Quorums and bounded sets.                                               *)

\* The quorum of a cluster is a positive number.
LEMMA QuorumSizeType == QuorumSize \in Nat /\ QuorumSize > 0
  BY FS_CardinalityType, NodeAssumption DEF QuorumSize

\* Any two quorums share a member.
LEMMA QuorumsIntersect ==
    ASSUME NEW Q \in SUBSET Node, NEW R \in SUBSET Node,
           Cardinality(Q) >= QuorumSize, Cardinality(R) >= QuorumSize
    PROVE  Q \cap R # {}
<1>1. /\ Cardinality(Node) \in Nat /\ Cardinality(Q) \in Nat /\ Cardinality(R) \in Nat
  BY FS_CardinalityType, FS_Subset, NodeAssumption
<1>2. Cardinality(Q) + Cardinality(R) > Cardinality(Node)
  BY <1>1 DEF QuorumSize
<1> QED
  BY <1>2, FS_MajoritiesIntersect, NodeAssumption

\* A nonempty set of numbers has a least one: the first conflict that
\* _reconcile_log meets.
LEMMA NatSetHasMin ==
    ASSUME NEW S \in SUBSET Nat, S # {}
    PROVE  \E k \in S : \A j \in S : k <= j
<1>1. \E k \in S : \A j \in S : ~ (<<j, k>> \in OpToRel(<, Nat))
  BY NatLessThanWellFounded, WFMin
<1>2. \A x, y \in Nat : x < y => <<x, y>> \in OpToRel(<, Nat)
  BY DEF OpToRel
<1>3. PICK k \in S : \A j \in S : ~ (j < k)
  BY <1>1, <1>2
<1> QED
  BY <1>3

\* A nonempty set of bounded numbers has a largest one: the length at which
\* the scan of _advance_commit_length stops.
LEMMA BoundedSetHasMax ==
    ASSUME NEW n \in Nat, NEW S \in SUBSET (0 .. n), S # {}
    PROVE  \E k \in S : \A j \in S : j <= k
<1> DEFINE T == {n - k : k \in S}
<1>1. \A k \in S : k \in Nat /\ k <= n /\ n - k \in Nat
  OBVIOUS
<1>2. PICK x \in T : \A y \in T : x <= y
  <2>1. T \in SUBSET Nat /\ T # {}
    BY <1>1
  <2> HIDE DEF T
  <2> QED BY <2>1, NatSetHasMin
<1>3. PICK k \in S : x = n - k
  BY <1>2
<1>4. ASSUME NEW j \in S PROVE j <= k
  <2>1. n - j \in T
    OBVIOUS
  <2>2. n - k <= n - j
    BY <2>1, <1>2, <1>3
  <2> QED BY <2>2, <1>1, <1>3
<1> QED BY <1>4

-----------------------------------------------------------------------------
(* Role changes and elections.                                             *)

LEMMA BecomeFollowerWellFormed ==
    ASSUME NEW s, WellFormed(s), NEW t \in Nat, NEW l \in Node \cup {None}
    PROVE  WellFormed(BecomeFollower(s, t, l))
  BY RoleAssumption DEF WellFormed, RaftState, BecomeFollower

LEMMA BecomeLeaderWellFormed ==
    ASSUME NEW s, WellFormed(s), NEW self \in Node
    PROVE  WellFormed(BecomeLeader(self, s))
<1>1. Len(s.log) \in Nat
  BY LenProperties DEF WellFormed, RaftState
<1> DEFINE l == BecomeLeader(self, s)
<1>2. /\ l.sentLength \in [Node -> 0 .. Len(s.log)]
      /\ l.ackedLength \in [Node -> 0 .. Len(s.log)]
  BY <1>1 DEF BecomeLeader, WellFormed, RaftState
<1>3. /\ l.sentLength \in [Node -> Nat]
      /\ l.ackedLength \in [Node -> Nat]
  BY <1>1 DEF BecomeLeader, WellFormed, RaftState
<1>4. l.log = s.log /\ l.applied = s.applied /\ l.commitLength = s.commitLength
  BY DEF BecomeLeader, WellFormed, RaftState
<1>5. l \in RaftState
  BY <1>3 DEF BecomeLeader, WellFormed, RaftState
<1> QED
  BY <1>2, <1>4, <1>5 DEF WellFormed

LEMMA LastLogTermType ==
    ASSUME NEW s, WellFormed(s)
    PROVE  LastLogTerm(s) \in Nat
<1>1. s.log \in Seq(LogEntry) /\ Len(s.log) \in Nat
  BY LenProperties DEF WellFormed, RaftState
<1>2. ASSUME Len(s.log) # 0 PROVE s.log[Len(s.log)] \in LogEntry
  BY <1>1, <1>2, ElementOfSeq
<1> QED
  BY <1>1, <1>2 DEF LastLogTerm, TermAt, LogEntry

LEMMA StartElectionWellFormed ==
    ASSUME NEW s, WellFormed(s), NEW self \in Node
    PROVE  /\ WellFormed(StartElection(self, s).state)
           /\ StartElection(self, s).request \in VoteRequest
<1> DEFINE c == BecomeCandidate(self, s)
<1>1. WellFormed(c)
  <2>1. c \in RaftState
    <3>1. s.currentTerm + 1 \in Nat
      BY DEF WellFormed, RaftState
    <3> QED BY <3>1 DEF WellFormed, RaftState, BecomeCandidate
  <2>2. /\ c.role = Candidate /\ c.log = s.log /\ c.applied = s.applied
        /\ c.commitLength = s.commitLength
    BY DEF WellFormed, RaftState, BecomeCandidate
  <2> QED BY <2>1, <2>2, RoleAssumption DEF WellFormed
<1>2. Len(c.log) \in Nat /\ c.currentTerm \in Nat
  BY <1>1, LenProperties DEF WellFormed, RaftState
<1>3. StartElection(self, s).state \in {c, BecomeLeader(self, c)}
  BY DEF StartElection
<1>4. StartElection(self, s).request \in VoteRequest
  <2> HIDE DEF c
  <2>1. [type |-> "VoteRequest", candidateId |-> self, term |-> c.currentTerm,
         logLength |-> Len(c.log), lastLogTerm |-> LastLogTerm(c)] \in VoteRequest
    BY <1>1, <1>2, LastLogTermType DEF VoteRequest
  <2> QED BY <2>1 DEF StartElection, c
<1> QED
  BY <1>1, <1>3, <1>4, BecomeLeaderWellFormed

LEMMA StepUpWellFormed ==
    ASSUME NEW s, WellFormed(s), NEW t \in Nat, NEW l \in Node \cup {None}
    PROVE  WellFormed(StepUp(s, t, l))
  BY BecomeFollowerWellFormed DEF StepUp

LEMMA HandleVoteRequestWellFormed ==
    ASSUME NEW s, WellFormed(s), NEW self \in Node, NEW m \in VoteRequest
    PROVE  /\ WellFormed(HandleVoteRequest(self, s, m).state)
           /\ HandleVoteRequest(self, s, m).response \in VoteResponse
<1> DEFINE u == IF m.candidateId \in Node THEN StepUp(s, m.term, None) ELSE s
           granted == m.candidateId \in Node /\ GrantsVote(u, m)
<1>1. WellFormed(u)
  BY StepUpWellFormed DEF VoteRequest
<1>2. u.currentTerm \in Nat
  BY <1>1 DEF WellFormed, RaftState
<1>3. ASSUME granted PROVE WellFormed(GiveVote(u, m))
  <2> HIDE DEF u
  <2>1. WellFormed(BecomeFollower(u, u.currentTerm, None))
    BY <1>1, <1>2, BecomeFollowerWellFormed
  <2> QED
    BY <2>1, <1>3 DEF GiveVote, WellFormed, RaftState
<1>4. HandleVoteRequest(self, s, m).state = IF granted THEN GiveVote(u, m) ELSE u
  BY DEF HandleVoteRequest
<1>5. HandleVoteRequest(self, s, m).response
        = [type |-> "VoteResponse", voterId |-> self, to |-> m.candidateId,
           term |-> u.currentTerm, granted |-> granted]
  BY DEF HandleVoteRequest
<1>6. granted \in BOOLEAN
  BY DEF GrantsVote
<1>7. m.candidateId \in Node \cup Outsider
  BY DEF VoteRequest
<1> HIDE DEF u, granted
<1>8. HandleVoteRequest(self, s, m).response \in VoteResponse
  BY <1>2, <1>5, <1>6, <1>7 DEF VoteResponse
<1> QED
  BY <1>1, <1>3, <1>4, <1>8

LEMMA HandleVoteResponseWellFormed ==
    ASSUME NEW s, WellFormed(s), NEW self \in Node, NEW m \in VoteResponse
    PROVE  WellFormed(HandleVoteResponse(self, s, m))
<1> DEFINE u == [s EXCEPT !.votesReceived = @ \cup {m.voterId}]
<1>1. m.term \in Nat /\ m.voterId \in Node
  BY DEF VoteResponse
<1>2. WellFormed(u)
  BY <1>1 DEF WellFormed, RaftState
<1>3. WellFormed(BecomeLeader(self, u))
  BY <1>2, BecomeLeaderWellFormed
<1>4. WellFormed(BecomeFollower(s, m.term, None))
  BY <1>1, BecomeFollowerWellFormed
<1> QED
  BY <1>2, <1>3, <1>4 DEF HandleVoteResponse

-----------------------------------------------------------------------------
(* Log replication.                                                        *)

LEMMA AdvanceCommitLengthWellFormed ==
    ASSUME NEW s, WellFormed(s)
    PROVE  WellFormed(AdvanceCommitLength(s))
<1>1. s.commitLength \in Nat /\ Len(s.log) \in Nat /\ Len(s.applied) \in Nat
  BY LenProperties DEF WellFormed, RaftState
<1>2. CASE Committable(s) = {}
  BY <1>2 DEF AdvanceCommitLength
<1>3. CASE Committable(s) # {}
  <2> DEFINE k == CHOOSE k \in Committable(s) : \A j \in Committable(s) : j <= k
  <2>1. Committable(s) \in SUBSET (0 .. Len(s.log))
    BY <1>1 DEF Committable
  <2>2. k \in Committable(s)
    BY <2>1, <1>1, <1>3, BoundedSetHasMax
  <2>3. k \in Nat /\ s.commitLength < k /\ k <= Len(s.log)
    BY <2>2, <1>1 DEF Committable
  <2>4. AdvanceCommitLength(s) = [s EXCEPT !.commitLength = k]
    BY <1>3 DEF AdvanceCommitLength
  <2> HIDE DEF k
  <2>5. [s EXCEPT !.commitLength = k] \in RaftState
    BY <2>3 DEF WellFormed, RaftState
  <2>6. LET u == [s EXCEPT !.commitLength = k]
        IN  /\ u.commitLength = k /\ u.log = s.log /\ u.applied = s.applied
            /\ u.role = s.role /\ u.sentLength = s.sentLength
            /\ u.ackedLength = s.ackedLength
    BY DEF WellFormed, RaftState
  <2> QED
    BY <2>3, <2>4, <2>5, <2>6, <1>1 DEF WellFormed
<1> QED
  BY <1>2, <1>3

\* Applying catches up with commit_length, and changes nothing else.
LEMMA ApplyCommittedEntriesWellFormed ==
    ASSUME NEW s, WellFormed(s)
    PROVE  /\ WellFormed(ApplyCommittedEntries(s))
           /\ Len(ApplyCommittedEntries(s).applied) = s.commitLength
<1> DEFINE count == s.commitLength - Len(s.applied)
           news == [i \in 1 .. count |-> s.log[Len(s.applied) + i].command]
           a == ApplyCommittedEntries(s)
<1>1. /\ s.commitLength \in Nat /\ Len(s.log) \in Nat /\ Len(s.applied) \in Nat
      /\ s.log \in Seq(LogEntry) /\ s.applied \in Seq(Command)
  BY LenProperties DEF WellFormed, RaftState
<1>2. count \in Nat /\ Len(s.applied) + count = s.commitLength
  BY <1>1 DEF WellFormed
<1>3. \A i \in 1 .. count : s.log[Len(s.applied) + i] \in LogEntry
  <2> SUFFICES ASSUME NEW i \in 1 .. count
               PROVE  s.log[Len(s.applied) + i] \in LogEntry
    OBVIOUS
  <2>1. Len(s.applied) + i \in 1 .. Len(s.log)
    BY <1>1, <1>2 DEF WellFormed
  <2> QED BY <2>1, <1>1, ElementOfSeq
<1>4. news \in Seq(Command) /\ Len(news) = count
  <2>1. \A i \in 1 .. count : s.log[Len(s.applied) + i].command \in Command
    BY <1>3 DEF LogEntry
  <2> HIDE DEF count
  <2> QED BY <2>1, <1>2, IsASeq, LenProperties
<1>5. s.applied \o news \in Seq(Command) /\ Len(s.applied \o news) = s.commitLength
  <2> HIDE DEF news, count
  <2> QED BY <1>1, <1>2, <1>4, ConcatProperties
<1>6. a = [s EXCEPT !.applied = s.applied \o news]
  BY DEF ApplyCommittedEntries, WellFormed, RaftState
<1> HIDE DEF news, a
<1>7. a \in RaftState
  BY <1>5, <1>6 DEF WellFormed, RaftState
<1>8. /\ a.applied = s.applied \o news /\ a.log = s.log /\ a.role = s.role
      /\ a.commitLength = s.commitLength /\ a.sentLength = s.sentLength
      /\ a.ackedLength = s.ackedLength
  BY <1>6 DEF WellFormed, RaftState
<1>9. WellFormed(a) /\ Len(a.applied) = s.commitLength
  BY <1>1, <1>5, <1>7, <1>8 DEF WellFormed
<1> QED
  BY <1>9 DEF a

\* The entry that append_command adds, with the lengths of the leader.
LEMMA AppendedWellFormed ==
    ASSUME NEW s, WellFormed(s), s.role = Leader, NEW self \in Node, NEW c \in Command
    PROVE  WellFormed([s EXCEPT !.log = Append(s.log, [command |-> c, term |-> s.currentTerm]),
                                !.sentLength[self] = Len(s.log) + 1,
                                !.ackedLength[self] = Len(s.log) + 1])
<1> DEFINE e == [command |-> c, term |-> s.currentTerm]
           length == Len(s.log) + 1
           u == [s EXCEPT !.log = Append(s.log, e),
                          !.sentLength[self] = length,
                          !.ackedLength[self] = length]
<1>1. /\ s.commitLength \in Nat /\ Len(s.log) \in Nat /\ Len(s.applied) \in Nat
      /\ s.log \in Seq(LogEntry) /\ s.currentTerm \in Nat
  BY LenProperties DEF WellFormed, RaftState
<1>2. Append(s.log, e) \in Seq(LogEntry) /\ Len(Append(s.log, e)) = length
  BY <1>1, AppendProperties DEF LogEntry
<1>3. /\ [s.sentLength EXCEPT ![self] = length] \in [Node -> 0 .. length]
      /\ [s.ackedLength EXCEPT ![self] = length] \in [Node -> 0 .. length]
  BY <1>1 DEF WellFormed
<1>4. /\ [s.sentLength EXCEPT ![self] = length] \in [Node -> Nat]
      /\ [s.ackedLength EXCEPT ![self] = length] \in [Node -> Nat]
  BY <1>1, <1>3
<1>5. WellFormed(u)
  <2> DEFINE l == Append(s.log, e)
             sl == [s.sentLength EXCEPT ![self] = length]
             al == [s.ackedLength EXCEPT ![self] = length]
  <2>1. u = [s EXCEPT !.log = l, !.sentLength = sl, !.ackedLength = al]
    BY DEF WellFormed, RaftState
  <2> HIDE DEF l, sl, al, u
  <2>2. u \in RaftState
    BY <2>1, <1>2, <1>4 DEF WellFormed, RaftState, l, sl, al
  <2>3. /\ u.log = l /\ u.sentLength = sl /\ u.ackedLength = al
        /\ u.commitLength = s.commitLength /\ u.applied = s.applied
    BY <2>1 DEF WellFormed, RaftState
  <2> QED
    BY <2>2, <2>3, <1>1, <1>2, <1>3 DEF WellFormed, l, sl, al
<1> QED
  BY <1>5

LEMMA AppendCommandWellFormed ==
    ASSUME NEW s, WellFormed(s), s.role = Leader, NEW self \in Node, NEW c \in Command
    PROVE  WellFormed(AppendCommand(self, s, c))
<1> DEFINE u == [s EXCEPT !.log = Append(s.log, [command |-> c, term |-> s.currentTerm]),
                          !.sentLength[self] = Len(s.log) + 1,
                          !.ackedLength[self] = Len(s.log) + 1]
<1>1. WellFormed(u)
  BY AppendedWellFormed
<1>2. AppendCommand(self, s, c) = AdvanceCommitLength(u)
  BY DEF AppendCommand, WellFormed, RaftState
<1> QED
  BY <1>1, <1>2, AdvanceCommitLengthWellFormed

LEMMA MakeLogRequestType ==
    ASSUME NEW s, WellFormed(s), s.role = Leader, NEW self \in Node, NEW p \in Node
    PROVE  MakeLogRequest(self, s, p) \in LogRequest
<1> DEFINE k == s.sentLength[p]
<1>1. /\ s.commitLength \in Nat /\ Len(s.log) \in Nat /\ s.currentTerm \in Nat
      /\ s.log \in Seq(LogEntry) /\ k \in 0 .. Len(s.log)
  BY LenProperties DEF WellFormed, RaftState
<1> HIDE DEF k
<1>2. TermAt(s.log, k) \in Nat
  <2>1. ASSUME k # 0 PROVE s.log[k] \in LogEntry
    BY <1>1, <2>1, ElementOfSeq
  <2> QED BY <2>1 DEF TermAt, LogEntry
<1>3. SubSeq(s.log, k + 1, Len(s.log)) \in Seq(LogEntry)
  BY <1>1, SubSeqProperties
<1>4. MakeLogRequest(self, s, p)
        = [type |-> "LogRequest", leaderId |-> self, to |-> p, term |-> s.currentTerm,
           prefixLength |-> k, prefixTerm |-> TermAt(s.log, k),
           leaderCommit |-> s.commitLength,
           entries |-> SubSeq(s.log, k + 1, Len(s.log))]
  BY DEF MakeLogRequest, k
<1> QED
  BY <1>1, <1>2, <1>3, <1>4 DEF LogRequest

\* A log that matches the prefix holds the acknowledged length after the
\* reconciliation, and nothing that was committed is cut off.
LEMMA ReconcileLogKeepsCommitted ==
    ASSUME NEW s, WellFormed(s), NEW m \in LogRequest,
           PrefixMatches(s.log, m), ~ReconcileRaises(s, m)
    PROVE  LET log == ReconcileLog(s.log, m)
           IN  /\ log \in Seq(LogEntry)
               /\ s.commitLength <= Len(log)
               /\ m.prefixLength + Len(m.entries) <= Len(log)
<1> DEFINE acknowledged == m.prefixLength + Len(m.entries)
           kept == SubSeq(s.log, 1, m.prefixLength)
<1>1. /\ s.commitLength \in Nat /\ Len(s.log) \in Nat /\ s.log \in Seq(LogEntry)
      /\ m.prefixLength \in Nat /\ m.entries \in Seq(LogEntry) /\ Len(m.entries) \in Nat
      /\ s.commitLength <= Len(s.log) /\ m.prefixLength <= Len(s.log)
  BY LenProperties DEF WellFormed, RaftState, LogRequest, PrefixMatches
<1>2. CASE Conflicts(s.log, m) = {} /\ acknowledged <= Len(s.log)
  BY <1>1, <1>2 DEF ReconcileLog
<1>3. CASE ~(Conflicts(s.log, m) = {} /\ acknowledged <= Len(s.log))
  <2>1. ReconcileLog(s.log, m) = kept \o m.entries
    BY <1>3 DEF ReconcileLog
  <2>2. kept \in Seq(LogEntry) /\ Len(kept) = m.prefixLength
    BY <1>1, SubSeqProperties
  <2>3. /\ kept \o m.entries \in Seq(LogEntry)
        /\ Len(kept \o m.entries) = acknowledged
    <3> DEFINE es == m.entries
    <3>1. es \in Seq(LogEntry) /\ acknowledged = m.prefixLength + Len(es)
      BY <1>1
    <3> HIDE DEF kept, es, acknowledged
    <3>2. kept \o es \in Seq(LogEntry) /\ Len(kept \o es) = acknowledged
      BY <2>2, <3>1, ConcatProperties
    <3> QED BY <3>2 DEF es
  <2>4. s.commitLength <= acknowledged
    <3>1. CASE Conflicts(s.log, m) = {}
      BY <3>1, <1>1, <1>3
    <3>2. CASE Conflicts(s.log, m) # {}
      <4>1. Conflicts(s.log, m) \in SUBSET Nat
        BY <1>1 DEF Conflicts, Overlap
      <4>2. PICK k \in Conflicts(s.log, m) : \A j \in Conflicts(s.log, m) : k <= j
        BY <3>2, <4>1, NatSetHasMin
      <4>3. k \in Overlap(s.log, m) /\ k \in Nat /\ k <= acknowledged
        BY <1>1, <4>1 DEF Conflicts, Overlap
      <4>4. ~(k <= s.commitLength)
        BY <4>2, <4>3 DEF ReconcileRaises
      <4> QED BY <4>3, <4>4, <1>1
    <3> QED BY <3>1, <3>2
  <2> QED BY <2>1, <2>3, <2>4
<1> QED
  BY <1>2, <1>3

LEMMA AcceptEntriesWellFormed ==
    ASSUME NEW s, WellFormed(s), s.role = Follower, NEW m \in LogRequest,
           PrefixMatches(s.log, m), ~ReconcileRaises(s, m)
    PROVE  WellFormed(AcceptEntries(s, m))
<1> DEFINE acknowledged == m.prefixLength + Len(m.entries)
           vouched == IF m.leaderCommit < acknowledged THEN m.leaderCommit ELSE acknowledged
           log == ReconcileLog(s.log, m)
           commit == IF vouched > s.commitLength THEN vouched ELSE s.commitLength
           u == AcceptEntries(s, m)
<1>1. /\ s.commitLength \in Nat /\ Len(s.applied) \in Nat
      /\ m.prefixLength \in Nat /\ Len(m.entries) \in Nat /\ m.leaderCommit \in Nat
      /\ Len(s.applied) <= s.commitLength
  BY LenProperties DEF WellFormed, RaftState, LogRequest
<1>2. /\ log \in Seq(LogEntry) /\ Len(log) \in Nat
      /\ s.commitLength <= Len(log) /\ acknowledged <= Len(log)
  BY ReconcileLogKeepsCommitted, LenProperties
<1> HIDE DEF log
<1>3. commit \in Nat /\ commit <= Len(log) /\ s.commitLength <= commit
  BY <1>1, <1>2
<1>4. u = [s EXCEPT !.log = log, !.commitLength = commit]
  BY DEF AcceptEntries, WellFormed, RaftState, log
<1> HIDE DEF commit, u
<1>5. u \in RaftState
  BY <1>2, <1>3, <1>4 DEF WellFormed, RaftState
<1>6. /\ u.log = log /\ u.commitLength = commit /\ u.applied = s.applied
      /\ u.role = Follower
  BY <1>4 DEF WellFormed, RaftState
<1>7. WellFormed(u)
  BY <1>1, <1>2, <1>3, <1>5, <1>6, RoleAssumption DEF WellFormed
<1> QED
  BY <1>7 DEF u

LEMMA FollowLeaderWellFormed ==
    ASSUME NEW s, WellFormed(s), NEW m \in LogRequest, AcceptsLeader(s, m)
    PROVE  LET u == FollowLeader(s, m)
           IN  /\ WellFormed(u)
               /\ u.role = Follower /\ u.log = s.log
               /\ u.commitLength = s.commitLength /\ u.applied = s.applied
<1>1. m.term \in Nat /\ m.leaderId \in Node
  BY DEF AcceptsLeader, LogRequest
<1>2. WellFormed(BecomeFollower(s, m.term, m.leaderId))
  BY <1>1, BecomeFollowerWellFormed
<1>3. WellFormed([s EXCEPT !.leaderId = m.leaderId])
  BY <1>1 DEF WellFormed, RaftState
<1>4. LET u == BecomeFollower(s, m.term, m.leaderId)
      IN  /\ u.role = Follower /\ u.log = s.log
          /\ u.commitLength = s.commitLength /\ u.applied = s.applied
  BY DEF BecomeFollower, WellFormed, RaftState
<1>5. LET u == [s EXCEPT !.leaderId = m.leaderId]
      IN  /\ u.role = s.role /\ u.log = s.log
          /\ u.commitLength = s.commitLength /\ u.applied = s.applied
  BY DEF WellFormed, RaftState
<1> QED
  BY <1>2, <1>3, <1>4, <1>5 DEF FollowLeader

LEMMA HandleLogRequestWellFormed ==
    ASSUME NEW s, WellFormed(s), NEW self \in Node, NEW m \in LogRequest,
           ~LogRequestRaises(s, m)
    PROVE  /\ WellFormed(HandleLogRequest(self, s, m).state)
           /\ HandleLogRequest(self, s, m).response \in LogResponse
<1> DEFINE u == IF AcceptsLeader(s, m) THEN FollowLeader(s, m) ELSE s
           success == AcceptsLeader(s, m) /\ PrefixMatches(s.log, m)
<1>1. WellFormed(u)
  BY FollowLeaderWellFormed
<1>2. ASSUME success PROVE WellFormed(AcceptEntries(u, m))
  <2>1. u = FollowLeader(s, m) /\ AcceptsLeader(s, m)
    BY <1>2
  <2>2. u.role = Follower /\ u.log = s.log /\ u.commitLength = s.commitLength
    BY <2>1, FollowLeaderWellFormed
  <2>3. PrefixMatches(u.log, m) /\ ~ReconcileRaises(u, m)
    BY <1>2, <2>2 DEF LogRequestRaises, ReconcileRaises
  <2> HIDE DEF u
  <2> QED BY <1>1, <2>2, <2>3, AcceptEntriesWellFormed
<1>3. /\ HandleLogRequest(self, s, m).state = IF success THEN AcceptEntries(u, m) ELSE u
      /\ HandleLogRequest(self, s, m).response
           = [type |-> "LogResponse", followerId |-> self, to |-> m.leaderId,
              term |-> u.currentTerm,
              acknowledgedLength |-> IF success THEN m.prefixLength + Len(m.entries) ELSE 0,
              success |-> success]
  BY DEF HandleLogRequest
<1>4. success \in BOOLEAN
  BY DEF AcceptsLeader, PrefixMatches
<1> HIDE DEF u, success
<1>5. /\ u.currentTerm \in Nat /\ m.prefixLength + Len(m.entries) \in Nat
      /\ m.leaderId \in Node \cup Outsider
  <2>1. Len(m.entries) \in Nat /\ m.prefixLength \in Nat
    BY LenProperties DEF LogRequest
  <2> QED BY <1>1, <2>1 DEF WellFormed, RaftState, LogRequest
<1>6. HandleLogRequest(self, s, m).response \in LogResponse
  BY <1>3, <1>4, <1>5 DEF LogResponse
<1> QED
  BY <1>1, <1>2, <1>3, <1>6

LEMMA LeaderLengthsWellFormed ==
    ASSUME NEW s, WellFormed(s), s.role = Leader, NEW p \in Node,
           NEW k \in 0 .. Len(s.log), NEW j \in 0 .. Len(s.log)
    PROVE  WellFormed([s EXCEPT !.sentLength[p] = k, !.ackedLength[p] = j])
<1> DEFINE sl == [s.sentLength EXCEPT ![p] = k]
           al == [s.ackedLength EXCEPT ![p] = j]
           u == [s EXCEPT !.sentLength = sl, !.ackedLength = al]
<1>1. Len(s.log) \in Nat
  BY LenProperties DEF WellFormed, RaftState
<1>2. sl \in [Node -> 0 .. Len(s.log)] /\ al \in [Node -> 0 .. Len(s.log)]
  BY DEF WellFormed
<1>3. sl \in [Node -> Nat] /\ al \in [Node -> Nat]
  BY <1>1, <1>2
<1>4. [s EXCEPT !.sentLength[p] = k, !.ackedLength[p] = j] = u
  BY DEF WellFormed, RaftState
<1> HIDE DEF sl, al
<1>5. u \in RaftState
  BY <1>3 DEF WellFormed, RaftState
<1>6. /\ u.sentLength = sl /\ u.ackedLength = al /\ u.log = s.log
      /\ u.commitLength = s.commitLength /\ u.applied = s.applied
  BY DEF WellFormed, RaftState
<1>7. WellFormed(u)
  <2> HIDE DEF u
  <2> QED BY <1>2, <1>5, <1>6 DEF WellFormed
<1> QED
  BY <1>4, <1>7

LEMMA HandleLogResponseWellFormed ==
    ASSUME NEW s, WellFormed(s), NEW self \in Node, NEW m \in LogResponse,
           ~LogResponseRaises(s, m)
    PROVE  WellFormed(HandleLogResponse(self, s, m))
<1> DEFINE p == m.followerId
<1>1. m.term \in Nat /\ p \in Node /\ m.acknowledgedLength \in Nat
  BY DEF LogResponse
<1>2. WellFormed(BecomeFollower(s, m.term, None))
  BY <1>1, BecomeFollowerWellFormed
<1>3. ASSUME TracksResponse(s, m), m.success PROVE WellFormed(RecordAck(s, m))
  <2>1. s.role = Leader /\ m.acknowledgedLength \in 0 .. Len(s.log)
    BY <1>1, <1>3, LenProperties DEF TracksResponse, LogResponseRaises, WellFormed, RaftState
  <2>2. WellFormed([s EXCEPT !.sentLength[p] = m.acknowledgedLength,
                             !.ackedLength[p] = m.acknowledgedLength])
    BY <1>1, <2>1, LeaderLengthsWellFormed
  <2> QED BY <2>2, AdvanceCommitLengthWellFormed DEF RecordAck
<1>4. ASSUME TracksResponse(s, m) PROVE WellFormed(StepBack(s, m))
  <2>1. s.role = Leader /\ Len(s.log) \in Nat
    BY <1>4, LenProperties DEF TracksResponse, WellFormed, RaftState
  <2>2. s.sentLength[p] \in 0 .. Len(s.log) /\ s.ackedLength[p] \in 0 .. Len(s.log)
    BY <1>1, <2>1 DEF WellFormed
  <2>3. CASE s.sentLength[p] = 0
    BY <2>3 DEF StepBack
  <2>4. CASE s.sentLength[p] # 0
    <3>1. s.sentLength[p] - 1 \in 0 .. Len(s.log)
      BY <2>1, <2>2, <2>4
    <3>2. WellFormed([s EXCEPT !.sentLength[p] = s.sentLength[p] - 1,
                               !.ackedLength[p] = s.ackedLength[p]])
      BY <1>1, <2>1, <2>2, <3>1, LeaderLengthsWellFormed
    <3>3. [s EXCEPT !.sentLength[p] = s.sentLength[p] - 1, !.ackedLength[p] = s.ackedLength[p]]
            = [s EXCEPT !.sentLength[p] = @ - 1]
      BY <1>1, <2>1 DEF WellFormed, RaftState
    <3> QED BY <2>4, <3>2, <3>3 DEF StepBack
  <2> QED BY <2>3, <2>4
<1> QED
  BY <1>2, <1>3, <1>4 DEF HandleLogResponse

-----------------------------------------------------------------------------
(* What the handlers do to terms, votes and roles.                         *)

\* From s to u the term is not lowered and a vote of the term is not changed.
KeepsVotes(s, u) ==
    /\ u.currentTerm \in Nat /\ s.currentTerm <= u.currentTerm
    /\ u.currentTerm = s.currentTerm /\ s.votedFor # None => u.votedFor = s.votedFor

\* u differs from s in its log and its lengths only.
SameElection(s, u) ==
    /\ u.currentTerm = s.currentTerm /\ u.votedFor = s.votedFor /\ u.role = s.role
    /\ u.leaderId = s.leaderId /\ u.votesReceived = s.votesReceived

LEMMA SameElectionKeepsVotes ==
    ASSUME NEW s, WellFormed(s), NEW u, SameElection(s, u)
    PROVE  KeepsVotes(s, u)
  BY DEF SameElection, KeepsVotes, WellFormed, RaftState

LEMMA ApplyCommittedEntriesElection ==
    ASSUME NEW s, WellFormed(s) PROVE SameElection(s, ApplyCommittedEntries(s))
  BY DEF ApplyCommittedEntries, SameElection, WellFormed, RaftState

LEMMA AdvanceCommitLengthElection ==
    ASSUME NEW s, WellFormed(s) PROVE SameElection(s, AdvanceCommitLength(s))
<1> DEFINE k == CHOOSE k \in Committable(s) : \A j \in Committable(s) : j <= k
<1>1. AdvanceCommitLength(s) \in {s, [s EXCEPT !.commitLength = k]}
  BY DEF AdvanceCommitLength
<1> HIDE DEF k
<1> QED
  BY <1>1 DEF SameElection, WellFormed, RaftState

LEMMA SameElectionTransitive ==
    ASSUME NEW s, NEW u, NEW v, SameElection(s, u), SameElection(u, v)
    PROVE  SameElection(s, v)
  BY DEF SameElection

LEMMA BecomeFollowerElection ==
    ASSUME NEW s, WellFormed(s), NEW t \in Nat, s.currentTerm <= t, NEW l
    PROVE  LET u == BecomeFollower(s, t, l)
           IN  /\ KeepsVotes(s, u)
               /\ u.currentTerm = t /\ u.role = Follower /\ u.leaderId = l
               /\ s.currentTerm = t => u.votedFor = s.votedFor
  BY DEF BecomeFollower, KeepsVotes, WellFormed, RaftState

LEMMA StartElectionElection ==
    ASSUME NEW s, WellFormed(s), NEW self \in Node
    PROVE  LET u == StartElection(self, s).state
               r == StartElection(self, s).request
           IN  /\ KeepsVotes(s, u)
               /\ u.currentTerm = s.currentTerm + 1 /\ u.votedFor = self
               /\ \/ u.role = Candidate /\ u.votesReceived = {self} /\ u.leaderId = None
                  \/ u.role = Leader /\ QuorumSize <= 1 /\ u.leaderId = self
               /\ r.type = "VoteRequest" /\ r.candidateId = self /\ r.term = u.currentTerm
<1> DEFINE c == BecomeCandidate(self, s)
           l == BecomeLeader(self, c)
<1>1. /\ c.currentTerm = s.currentTerm + 1 /\ c.votedFor = self /\ c.role = Candidate
      /\ c.votesReceived = {self} /\ c.leaderId = None
  BY DEF BecomeCandidate, WellFormed, RaftState
<1>2. /\ l.currentTerm = s.currentTerm + 1 /\ l.votedFor = self /\ l.role = Leader
      /\ l.leaderId = self
  BY DEF BecomeCandidate, BecomeLeader, WellFormed, RaftState
<1>3. StartElection(self, s).state = IF QuorumSize <= 1 THEN l ELSE c
  BY DEF StartElection
<1>4. LET r == StartElection(self, s).request
      IN  r.type = "VoteRequest" /\ r.candidateId = self /\ r.term = c.currentTerm
  BY DEF StartElection
<1>5. s.currentTerm \in Nat
  BY DEF WellFormed, RaftState
<1> HIDE DEF c, l
<1> QED
  BY <1>1, <1>2, <1>3, <1>4, <1>5 DEF KeepsVotes

LEMMA HandleVoteRequestElection ==
    ASSUME NEW s, WellFormed(s), NEW self \in Node, NEW m \in VoteRequest
    PROVE  LET u == HandleVoteRequest(self, s, m).state
               r == HandleVoteRequest(self, s, m).response
           IN  /\ KeepsVotes(s, u)
               /\ SameElection(s, u) \/ (u.role = Follower /\ u.leaderId = None)
               /\ u.currentTerm \in {s.currentTerm, m.term}
               /\ m.candidateId \notin Node => SameElection(s, u) /\ ~r.granted
               /\ r.granted => u.votedFor = m.candidateId
               /\ r.type = "VoteResponse" /\ r.voterId = self /\ r.to = m.candidateId
               /\ r.term = u.currentTerm
<1> DEFINE u == IF m.candidateId \in Node THEN StepUp(s, m.term, None) ELSE s
           granted == m.candidateId \in Node /\ GrantsVote(u, m)
           g == GiveVote(u, m)
<1>1. m.term \in Nat /\ s.currentTerm \in Nat
  BY DEF VoteRequest, WellFormed, RaftState
<1>2. WellFormed(u)
  BY <1>1, StepUpWellFormed
<1>3. /\ KeepsVotes(s, u)
      /\ u = s \/ (u.role = Follower /\ u.leaderId = None)
      /\ u.currentTerm \in {s.currentTerm, m.term}
      /\ m.candidateId \notin Node => u = s
  BY <1>1, BecomeFollowerElection DEF StepUp, KeepsVotes
<1>4. ASSUME granted
      PROVE  /\ g.currentTerm = u.currentTerm /\ g.votedFor = m.candidateId
             /\ g.role = Follower /\ g.leaderId = None
             /\ u.votedFor \in {None, m.candidateId}
  <2> HIDE DEF u
  <2> QED BY <1>2, <1>4 DEF GrantsVote, GiveVote, BecomeFollower, WellFormed, RaftState
<1>5. /\ HandleVoteRequest(self, s, m).state = IF granted THEN g ELSE u
      /\ LET r == HandleVoteRequest(self, s, m).response
         IN  /\ r.type = "VoteResponse" /\ r.voterId = self /\ r.to = m.candidateId
             /\ r.term = u.currentTerm /\ r.granted = granted
  BY DEF HandleVoteRequest
<1>6. granted => m.candidateId \in Node
  OBVIOUS
<1>7. SameElection(s, s)
  BY DEF SameElection
<1> HIDE DEF u, g, granted
<1>8. CASE granted
  BY <1>3, <1>4, <1>5, <1>6, <1>8 DEF KeepsVotes
<1>9. CASE ~granted
  BY <1>3, <1>5, <1>7, <1>9
<1> QED
  BY <1>8, <1>9

LEMMA HandleVoteResponseElection ==
    ASSUME NEW s, WellFormed(s), NEW self \in Node, NEW m \in VoteResponse
    PROVE  LET u == HandleVoteResponse(self, s, m)
               votes == s.votesReceived \cup {m.voterId}
           IN  /\ KeepsVotes(s, u)
               /\ u.currentTerm \in {s.currentTerm, m.term}
               /\ \/ SameElection(s, u)
                  \/ u.role = Follower /\ u.leaderId = None
                  \/ /\ CountsVote(s, m)
                     /\ u.currentTerm = s.currentTerm /\ u.votedFor = s.votedFor
                     /\ \/ /\ u.role = Candidate /\ u.leaderId = s.leaderId
                           /\ u.votesReceived = votes
                        \/ /\ u.role = Leader /\ u.leaderId = self
                           /\ Cardinality(votes) >= QuorumSize
<1> DEFINE votes == s.votesReceived \cup {m.voterId}
           c == [s EXCEPT !.votesReceived = @ \cup {m.voterId}]
           l == BecomeLeader(self, c)
           f == BecomeFollower(s, m.term, None)
<1>1. m.term \in Nat /\ s.currentTerm \in Nat /\ m.voterId \in Node
  BY DEF VoteResponse, WellFormed, RaftState
<1>2. m.term > s.currentTerm
        => KeepsVotes(s, f) /\ f.currentTerm = m.term /\ f.role = Follower /\ f.leaderId = None
  BY <1>1, BecomeFollowerElection
<1>3. /\ c.currentTerm = s.currentTerm /\ c.votedFor = s.votedFor /\ c.role = s.role
      /\ c.leaderId = s.leaderId /\ c.votesReceived = votes
  BY DEF WellFormed, RaftState
<1>4. /\ l.currentTerm = s.currentTerm /\ l.votedFor = s.votedFor /\ l.role = Leader
      /\ l.leaderId = self
  BY DEF BecomeLeader, WellFormed, RaftState
<1>5. SameElection(s, s) /\ KeepsVotes(s, s)
  BY <1>1 DEF SameElection, KeepsVotes
<1>6. Cardinality(votes) \in Nat
  <2>1. votes \in SUBSET Node
    BY <1>1 DEF WellFormed, RaftState
  <2> QED BY <2>1, FS_Subset, FS_CardinalityType, NodeAssumption
<1>7. HandleVoteResponse(self, s, m)
        = IF m.term > s.currentTerm THEN f
          ELSE IF ~CountsVote(s, m) THEN s
          ELSE IF Cardinality(votes) < QuorumSize THEN c ELSE l
  BY <1>3 DEF HandleVoteResponse
<1>8. CountsVote(s, m) => s.role = Candidate
  BY DEF CountsVote
<1>9. KeepsVotes(s, c) /\ KeepsVotes(s, l)
  BY <1>1, <1>3, <1>4 DEF KeepsVotes
<1> HIDE DEF votes, c, l, f
<1>10. CASE m.term > s.currentTerm
  BY <1>2, <1>7, <1>10
<1>11. CASE ~(m.term > s.currentTerm) /\ ~CountsVote(s, m)
  BY <1>5, <1>7, <1>11
<1>12. CASE ~(m.term > s.currentTerm) /\ CountsVote(s, m) /\ Cardinality(votes) < QuorumSize
  BY <1>3, <1>7, <1>8, <1>9, <1>12 DEF votes
<1>13. CASE ~(m.term > s.currentTerm) /\ CountsVote(s, m) /\ ~(Cardinality(votes) < QuorumSize)
  BY <1>4, <1>6, <1>7, <1>9, <1>13, QuorumSizeType DEF votes
<1> QED
  BY <1>10, <1>11, <1>12, <1>13

LEMMA AppendCommandElection ==
    ASSUME NEW s, WellFormed(s), s.role = Leader, NEW self \in Node, NEW c \in Command
    PROVE  SameElection(s, AppendCommand(self, s, c))
<1> DEFINE u == [s EXCEPT !.log = Append(@, [command |-> c, term |-> s.currentTerm]),
                          !.sentLength[self] = Len(s.log) + 1,
                          !.ackedLength[self] = Len(s.log) + 1]
           k == CHOOSE k \in Committable(u) : \A j \in Committable(u) : j <= k
<1>1. SameElection(s, u)
  BY DEF SameElection, WellFormed, RaftState
<1>2. AppendCommand(self, s, c) \in {u, [u EXCEPT !.commitLength = k]}
  BY DEF AppendCommand, AdvanceCommitLength
<1>3. SameElection(u, [u EXCEPT !.commitLength = k]) /\ SameElection(u, u)
  <2> HIDE DEF k
  <2> QED BY DEF SameElection, WellFormed, RaftState
<1> QED
  BY <1>1, <1>2, <1>3, SameElectionTransitive

LEMMA HandleLogRequestElection ==
    ASSUME NEW s, WellFormed(s), NEW self \in Node, NEW m \in LogRequest
    PROVE  LET u == HandleLogRequest(self, s, m).state
               r == HandleLogRequest(self, s, m).response
           IN  /\ KeepsVotes(s, u)
               /\ \/ SameElection(s, u)
                  \/ /\ m.leaderId \in Node /\ u.currentTerm = m.term
                     /\ u.role = Follower /\ u.leaderId = m.leaderId
               /\ r.type = "LogResponse" /\ r.followerId = self /\ r.term = u.currentTerm
<1> DEFINE u == IF AcceptsLeader(s, m) THEN FollowLeader(s, m) ELSE s
           success == AcceptsLeader(s, m) /\ PrefixMatches(s.log, m)
           a == AcceptEntries(u, m)
<1>1. m.term \in Nat /\ s.currentTerm \in Nat
  BY DEF LogRequest, WellFormed, RaftState
<1>2. ASSUME AcceptsLeader(s, m)
      PROVE  LET f == FollowLeader(s, m)
             IN  /\ KeepsVotes(s, f) /\ f.currentTerm = m.term
                 /\ f.role = Follower /\ f.leaderId = m.leaderId /\ m.leaderId \in Node
  <2> DEFINE b == BecomeFollower(s, m.term, m.leaderId)
             e == [s EXCEPT !.leaderId = m.leaderId]
  <2>1. m.term >= s.currentTerm /\ m.leaderId \in Node
    BY <1>2 DEF AcceptsLeader
  <2>2. KeepsVotes(s, b) /\ b.currentTerm = m.term /\ b.role = Follower /\ b.leaderId = m.leaderId
    BY <1>1, <2>1, BecomeFollowerElection
  <2>3. /\ e.currentTerm = s.currentTerm /\ e.role = s.role /\ e.leaderId = m.leaderId
        /\ e.votedFor = s.votedFor
    BY DEF WellFormed, RaftState
  <2>4. FollowLeader(s, m) = IF m.term > s.currentTerm \/ s.role # Follower THEN b ELSE e
    BY DEF FollowLeader
  <2> HIDE DEF b, e
  <2> QED BY <1>1, <2>1, <2>2, <2>3, <2>4 DEF KeepsVotes
<1>3. /\ a.currentTerm = u.currentTerm /\ a.votedFor = u.votedFor
      /\ a.role = u.role /\ a.leaderId = u.leaderId /\ a.votesReceived = u.votesReceived
  <2>1. WellFormed(u)
    BY FollowLeaderWellFormed
  <2> HIDE DEF u
  <2> QED BY <2>1 DEF AcceptEntries, WellFormed, RaftState
<1>4. /\ HandleLogRequest(self, s, m).state = IF success THEN a ELSE u
      /\ LET r == HandleLogRequest(self, s, m).response
         IN  r.type = "LogResponse" /\ r.followerId = self /\ r.term = u.currentTerm
  BY DEF HandleLogRequest
<1>5. SameElection(s, s) /\ KeepsVotes(s, s)
  BY <1>1 DEF SameElection, KeepsVotes
<1>6. success => AcceptsLeader(s, m)
  OBVIOUS
<1>7. u = IF AcceptsLeader(s, m) THEN FollowLeader(s, m) ELSE s
  OBVIOUS
<1> HIDE DEF u, a, success
<1>8. CASE AcceptsLeader(s, m)
  BY <1>2, <1>3, <1>4, <1>7, <1>8 DEF KeepsVotes
<1>9. CASE ~AcceptsLeader(s, m)
  BY <1>4, <1>5, <1>6, <1>7, <1>9
<1> QED
  BY <1>8, <1>9

LEMMA HandleLogResponseElection ==
    ASSUME NEW s, WellFormed(s), NEW self \in Node, NEW m \in LogResponse,
           ~LogResponseRaises(s, m)
    PROVE  LET u == HandleLogResponse(self, s, m)
           IN  /\ KeepsVotes(s, u)
               /\ u.currentTerm \in {s.currentTerm, m.term}
               /\ SameElection(s, u) \/ (u.role = Follower /\ u.leaderId = None)
<1> DEFINE f == BecomeFollower(s, m.term, None)
           b == StepBack(s, m)
           a == RecordAck(s, m)
<1>1. m.term \in Nat /\ s.currentTerm \in Nat
  BY DEF LogResponse, WellFormed, RaftState
<1>2. m.term > s.currentTerm
        => KeepsVotes(s, f) /\ f.currentTerm = m.term /\ f.role = Follower /\ f.leaderId = None
  BY <1>1, BecomeFollowerElection
<1>3. SameElection(s, s)
  BY DEF SameElection
<1>4. SameElection(s, b)
  BY DEF StepBack, SameElection, WellFormed, RaftState
<1>5. SameElection(s, a)
  <2> DEFINE e == [s EXCEPT !.sentLength[m.followerId] = m.acknowledgedLength,
                            !.ackedLength[m.followerId] = m.acknowledgedLength]
             k == CHOOSE k \in Committable(e) : \A j \in Committable(e) : j <= k
  <2>1. SameElection(s, e)
    BY DEF SameElection, WellFormed, RaftState
  <2>2. a \in {e, [e EXCEPT !.commitLength = k]}
    BY DEF RecordAck, AdvanceCommitLength
  <2>3. SameElection(e, [e EXCEPT !.commitLength = k]) /\ SameElection(e, e)
    <3> HIDE DEF k
    <3> QED BY DEF SameElection, WellFormed, RaftState
  <2> QED BY <2>1, <2>2, <2>3, SameElectionTransitive
<1>6. HandleLogResponse(self, s, m) \in {s, a, b} \/ (m.term > s.currentTerm /\ HandleLogResponse(self, s, m) = f)
  BY DEF HandleLogResponse
<1> HIDE DEF f, a, b
<1>7. CASE m.term > s.currentTerm /\ HandleLogResponse(self, s, m) = f
  BY <1>2, <1>7
<1>8. CASE HandleLogResponse(self, s, m) \in {s, a, b}
  <2>1. SameElection(s, HandleLogResponse(self, s, m))
    BY <1>3, <1>4, <1>5, <1>8
  <2> QED BY <2>1, SameElectionKeepsVotes DEF SameElection
<1> QED
  BY <1>6, <1>7, <1>8

-----------------------------------------------------------------------------
(* Types of the cluster.                                                   *)

\* Types, strengthened so that they are inductive: a leader's lengths and
\* every commit_length and applied_length stay inside the logs.
TypeInv ==
    /\ TypeOK
    /\ \A n \in Node : WellFormed(node[n])

LEMMA SentType ==
    ASSUME TypeOK
    PROVE  /\ Sent("VoteRequest") \subseteq VoteRequest
           /\ Sent("VoteResponse") \subseteq VoteResponse
           /\ Sent("LogRequest") \subseteq LogRequest
           /\ Sent("LogResponse") \subseteq LogResponse
  BY DEF TypeOK, Sent, Message, VoteRequest, VoteResponse, LogRequest, LogResponse

LEMMA TypeInit == Init => TypeInv
<1> SUFFICES ASSUME Init PROVE TypeInv
  OBVIOUS
<1>1. WellFormed(FreshState)
  <2>1. FreshState \in RaftState
    BY DEF FreshState, RaftState
  <2>2. /\ FreshState.log = <<>> /\ FreshState.applied = <<>>
        /\ FreshState.commitLength = 0 /\ FreshState.role = Follower
    BY DEF FreshState
  <2> QED BY <2>1, <2>2, RoleAssumption DEF WellFormed
<1>2. OutsiderRequests \subseteq Message
  <2>1. \A t \in 1 .. MaxTerm : t \in Nat
    BY BoundAssumption
  <2>2. MaxLogLength \in Nat /\ <<>> \in Seq(LogEntry)
    BY BoundAssumption
  <2>3. ASSUME NEW o \in Outsider, NEW t \in 1 .. MaxTerm
        PROVE  [type |-> "VoteRequest", candidateId |-> o, term |-> t,
                logLength |-> MaxLogLength, lastLogTerm |-> t] \in VoteRequest
    BY <2>1, <2>2 DEF VoteRequest
  <2>4. ASSUME NEW o \in Outsider, NEW n \in Node, NEW t \in 1 .. MaxTerm
        PROVE  [type |-> "LogRequest", leaderId |-> o, to |-> n, term |-> t,
                prefixLength |-> 0, prefixTerm |-> 0, leaderCommit |-> MaxLogLength,
                entries |-> <<>>] \in LogRequest
    BY <2>1, <2>2 DEF LogRequest
  <2> QED BY <2>3, <2>4 DEF OutsiderRequests, Message
<1> QED
  BY <1>1, <1>2 DEF Init, TypeInv, TypeOK, WellFormed

\* A step that gives n a well-formed state and sends well-typed messages
\* keeps the types.
LEMMA TypeStep ==
    ASSUME TypeInv, NEW n \in Node, NEW u, WellFormed(u),
           node' = [node EXCEPT ![n] = u], msgs' \subseteq Message
    PROVE  TypeInv'
<1>1. u \in RaftState
  BY DEF WellFormed
<1>2. node' \in [Node -> RaftState]
  BY <1>1 DEF TypeInv, TypeOK
<1>3. \A p \in Node : node'[p] = IF p = n THEN u ELSE node[p]
  BY DEF TypeInv, TypeOK
<1>4. \A p \in Node : WellFormed(node'[p])
  BY <1>3 DEF TypeInv
<1> QED
  BY <1>2, <1>4 DEF TypeInv, TypeOK, WellFormed

LEMMA TypeNext == TypeInv /\ [Next]_vars => TypeInv'
<1> SUFFICES ASSUME TypeInv, [Next]_vars PROVE TypeInv'
  OBVIOUS
<1>0. /\ \A n \in Node : WellFormed(node[n])
      /\ node \in [Node -> RaftState] /\ msgs \subseteq Message
  BY DEF TypeInv, TypeOK
<1>1. ASSUME NEW n \in Node, StartElectionRound(n) PROVE TypeInv'
  <2> DEFINE r == StartElection(n, node[n])
  <2>1. node' = [node EXCEPT ![n] = r.state] /\ msgs' = msgs \cup {r.request}
    BY <1>1 DEF StartElectionRound
  <2>2. WellFormed(r.state) /\ r.request \in Message
    BY <1>0, StartElectionWellFormed DEF Message
  <2> HIDE DEF r
  <2> QED BY <1>0, <2>1, <2>2, TypeStep
<1>2. ASSUME NEW n \in Node, NEW m \in Sent("VoteRequest"), ReceiveVoteRequest(n, m)
      PROVE  TypeInv'
  <2> DEFINE r == HandleVoteRequest(n, node[n], m)
  <2>1. node' = [node EXCEPT ![n] = r.state] /\ msgs' = msgs \cup {r.response}
    BY <1>2 DEF ReceiveVoteRequest
  <2>2. WellFormed(r.state) /\ r.response \in Message
    BY <1>0, SentType, HandleVoteRequestWellFormed DEF Message, TypeInv
  <2> HIDE DEF r
  <2> QED BY <1>0, <2>1, <2>2, TypeStep
<1>3. ASSUME NEW n \in Node, NEW m \in Sent("VoteResponse"), VoteResponseArrives(n, m)
      PROVE  TypeInv'
  <2>1. node' = [node EXCEPT ![n] = HandleVoteResponse(n, node[n], m)] /\ msgs' = msgs
    BY <1>3, <1>0 DEF VoteResponseArrives
  <2>2. WellFormed(HandleVoteResponse(n, node[n], m))
    BY <1>0, SentType, HandleVoteResponseWellFormed DEF TypeInv
  <2> QED BY <1>0, <2>1, <2>2, TypeStep
<1>4. ASSUME NEW n \in Node, NEW c \in Command, SubmitCommand(n, c) PROVE TypeInv'
  <2> DEFINE a == AppendCommand(n, node[n], c)
  <2>1. node' = [node EXCEPT ![n] = ApplyCommittedEntries(a)] /\ msgs' = msgs
    BY <1>4, <1>0 DEF SubmitCommand
  <2>2. WellFormed(a)
    BY <1>0, <1>4, AppendCommandWellFormed DEF SubmitCommand
  <2> HIDE DEF a
  <2>3. WellFormed(ApplyCommittedEntries(a))
    BY <2>2, ApplyCommittedEntriesWellFormed
  <2> QED BY <1>0, <2>1, <2>3, TypeStep
<1>5. ASSUME NEW n \in Node, NEW p \in Node, SendLogRequest(n, p) PROVE TypeInv'
  <2>1. MakeLogRequest(n, node[n], p) \in Message
    BY <1>0, <1>5, MakeLogRequestType DEF SendLogRequest, Message
  <2> QED BY <1>0, <1>5, <2>1 DEF SendLogRequest, TypeInv, TypeOK
<1>6. ASSUME NEW n \in Node, NEW m \in Sent("LogRequest"), ReceiveLogRequest(n, m)
      PROVE  TypeInv'
  <2> DEFINE r == HandleLogRequest(n, node[n], m)
  <2>1. /\ node' = [node EXCEPT ![n] = ApplyCommittedEntries(r.state)]
        /\ msgs' = msgs \cup {r.response}
    BY <1>6 DEF ReceiveLogRequest
  <2>2. WellFormed(r.state) /\ r.response \in Message
    BY <1>0, <1>6, SentType, HandleLogRequestWellFormed DEF ReceiveLogRequest, Message, TypeInv
  <2> HIDE DEF r
  <2>3. WellFormed(ApplyCommittedEntries(r.state))
    BY <2>2, ApplyCommittedEntriesWellFormed
  <2> QED BY <1>0, <2>1, <2>2, <2>3, TypeStep
<1>7. ASSUME NEW n \in Node, NEW m \in Sent("LogResponse"), LogResponseArrives(n, m)
      PROVE  TypeInv'
  <2> DEFINE u == HandleLogResponse(n, node[n], m)
  <2>1. node' = [node EXCEPT ![n] = ApplyCommittedEntries(u)] /\ msgs' = msgs
    BY <1>7, <1>0 DEF LogResponseArrives
  <2>2. WellFormed(u)
    BY <1>0, <1>7, SentType, HandleLogResponseWellFormed DEF LogResponseArrives, TypeInv
  <2> HIDE DEF u
  <2>3. WellFormed(ApplyCommittedEntries(u))
    BY <2>2, ApplyCommittedEntriesWellFormed
  <2> QED BY <1>0, <2>1, <2>3, TypeStep
<1>8. CASE UNCHANGED vars
  BY <1>8 DEF vars, TypeInv, TypeOK
<1> QED
  BY <1>1, <1>2, <1>3, <1>4, <1>5, <1>6, <1>7, <1>8 DEF Next

\* Node states and messages keep their types, and the lengths of every node
\* stay inside its log (RaftState, validate(), models.py).
THEOREM TypeInvariance == Spec => []TypeInv
  BY TypeInit, TypeNext, PTL DEF Spec

\* Every reachable state has the types of RaftState and models.py.
THEOREM TypeCorrect == Spec => []TypeOK
<1>1. TypeInv => TypeOK
  BY DEF TypeInv
<1> QED
  BY <1>1, TypeInvariance, PTL

-----------------------------------------------------------------------------
(* Election safety.                                                        *)

\* v voted for c in term t: the vote of a candidate for itself shows in its
\* request, every other vote in a granted response.
Voted(v, t, c) ==
    \/ v = c /\ \E m \in Sent("VoteRequest") : m.candidateId = c /\ m.term = t
    \/ \E m \in Sent("VoteResponse") :
          m.granted /\ m.voterId = v /\ m.to = c /\ m.term = t

\* A quorum voted for c in term t.
Won(c, t) ==
    \E Q \in SUBSET Node : Cardinality(Q) >= QuorumSize /\ \A v \in Q : Voted(v, t, c)

\* A vote is of a term that its voter reached, and the voter remembers the
\* vote as long as it stays in the term.
VotesKept ==
    \A v, c \in Node, t \in Nat :
        Voted(v, t, c) => /\ t <= node[v].currentTerm
                          /\ t = node[v].currentTerm => node[v].votedFor = c

\* No member votes for two candidates in one term.
VotesUnique ==
    \A v, c, d \in Node, t \in Nat : Voted(v, t, c) /\ Voted(v, t, d) => c = d

\* The votes a candidate has counted were given to it in its term.
CandidateVotes ==
    \A n \in Node : node[n].role = Candidate
        => \A v \in node[n].votesReceived : Voted(v, node[n].currentTerm, n)

\* Who leads, or led when it sent a request, was elected by a quorum.
LeadersWon ==
    /\ \A n \in Node : node[n].role = Leader => Won(n, node[n].currentTerm)
    /\ \A m \in Replications : Won(m.leaderId, m.term)

ElectionInv == VotesKept /\ VotesUnique /\ CandidateVotes /\ LeadersWon

LEMMA ElectionInit == Init => ElectionInv
<1> SUFFICES ASSUME Init PROVE ElectionInv
  OBVIOUS
<1>1. \A n \in Node : node[n].role = Follower
  BY DEF Init, FreshState
<1>2. /\ \A m \in Sent("VoteRequest") : m.candidateId \in Outsider
      /\ Sent("VoteResponse") = {}
      /\ \A m \in Sent("LogRequest") : m.leaderId \in Outsider
  BY DEF Init, Sent, OutsiderRequests
<1> QED
  BY <1>1, <1>2, OutsiderAssumption, RoleAssumption
  DEF ElectionInv, VotesKept, VotesUnique, CandidateVotes, LeadersWon, Voted, Replications

\* Votes and elections stay in the network.
LEMMA VotesStay ==
    ASSUME msgs \subseteq msgs', NEW v, NEW c, NEW t
    PROVE  /\ Voted(v, t, c) => Voted(v, t, c)'
           /\ Won(c, t) => Won(c, t)'
<1>1. \A type : Sent(type) \subseteq Sent(type)'
  BY DEF Sent
<1>2. \A w : Voted(w, t, c) => Voted(w, t, c)'
  BY <1>1 DEF Voted
<1> QED
  BY <1>2 DEF Won

\* What a step of node n has to respect to keep the election invariant: n
\* keeps its votes, the votes that appear are its own, and it becomes
\* candidate or leader, and leaders' requests appear, only with votes.
LEMMA ElectionStep ==
    ASSUME TypeInv, ElectionInv, NEW n \in Node, NEW u, WellFormed(u),
           node' = [node EXCEPT ![n] = u], msgs \subseteq msgs',
           KeepsVotes(node[n], u),
           \A v, c \in Node, t \in Nat : Voted(v, t, c)' =>
               \/ Voted(v, t, c)
               \/ v = n /\ t = u.currentTerm /\ u.votedFor = c,
           u.role = Candidate => \A v \in u.votesReceived : Voted(v, u.currentTerm, n)',
           u.role = Leader => Won(n, u.currentTerm)',
           \A m \in Replications' : m \in Replications \/ Won(m.leaderId, m.term)'
    PROVE  ElectionInv'
<1>1. \A p \in Node : node'[p] = IF p = n THEN u ELSE node[p]
  BY DEF TypeInv, TypeOK
<1>2. \A p \in Node : node[p].currentTerm \in Nat /\ node[p].votedFor \in Node \cup {None}
  BY DEF TypeInv, TypeOK, RaftState
<1>3. VotesKept'
  <2> SUFFICES ASSUME NEW v \in Node, NEW c \in Node, NEW t \in Nat, Voted(v, t, c)'
               PROVE  /\ t <= node'[v].currentTerm
                      /\ t = node'[v].currentTerm => node'[v].votedFor = c
    BY DEF VotesKept
  <2>1. CASE Voted(v, t, c)
    <3>1. /\ t <= node[v].currentTerm
          /\ t = node[v].currentTerm => node[v].votedFor = c
      BY <2>1 DEF ElectionInv, VotesKept
    <3>2. CASE v = n
      <4>1. c # None
        BY NodeAssumption
      <4> QED BY <1>1, <1>2, <3>1, <3>2, <4>1 DEF KeepsVotes
    <3>3. CASE v # n
      BY <1>1, <3>1, <3>3
    <3> QED BY <3>2, <3>3
  <2>2. CASE v = n /\ t = u.currentTerm /\ u.votedFor = c
    BY <1>1, <2>2 DEF KeepsVotes
  <2> QED BY <2>1, <2>2
<1>4. VotesUnique'
  <2> SUFFICES ASSUME NEW v \in Node, NEW c \in Node, NEW d \in Node, NEW t \in Nat,
                      Voted(v, t, c)', Voted(v, t, d)'
               PROVE  c = d
    BY DEF VotesUnique
  <2>1. CASE Voted(v, t, c) /\ Voted(v, t, d)
    BY <2>1 DEF ElectionInv, VotesUnique
  <2>2. CASE v = n /\ t = u.currentTerm
    BY <1>1, <1>3, <2>2 DEF VotesKept
  <2> QED BY <2>1, <2>2
<1>5. \A v, c, t : Voted(v, t, c) => Voted(v, t, c)'
  BY VotesStay
<1>6. \A c, t : Won(c, t) => Won(c, t)'
  BY VotesStay
<1>7. CandidateVotes'
  <2> SUFFICES ASSUME NEW p \in Node, (node[p].role = Candidate)',
                      NEW v \in (node[p].votesReceived)'
               PROVE  Voted(v, node[p].currentTerm, p)'
    BY DEF CandidateVotes
  <2>1. CASE p = n
    BY <1>1, <2>1
  <2>2. CASE p # n
    BY <1>1, <1>5, <2>2 DEF ElectionInv, CandidateVotes
  <2> QED BY <2>1, <2>2
<1>8. LeadersWon'
  <2>1. ASSUME NEW p \in Node, (node[p].role = Leader)' PROVE Won(p, node[p].currentTerm)'
    <3>1. CASE p = n
      BY <1>1, <2>1, <3>1
    <3>2. CASE p # n
      BY <1>1, <1>6, <2>1, <3>2 DEF ElectionInv, LeadersWon
    <3> QED BY <3>1, <3>2
  <2>2. ASSUME NEW m \in Replications' PROVE Won(m.leaderId, m.term)'
    BY <1>6 DEF ElectionInv, LeadersWon
  <2> QED BY <2>1, <2>2 DEF LeadersWon
<1> QED
  BY <1>3, <1>4, <1>7, <1>8 DEF ElectionInv

LEMMA SentAdd ==
    ASSUME NEW r, msgs' = msgs \cup {r}
    PROVE  \A type : Sent(type)' = IF r.type = type THEN Sent(type) \cup {r} ELSE Sent(type)
  BY DEF Sent

\* A step that leaves the network, or answers with something else than a
\* vote, makes no vote appear.
LEMMA NoNewVotes ==
    ASSUME NEW v, NEW t, NEW c,
           Sent("VoteRequest")' = Sent("VoteRequest"),
           Sent("VoteResponse")' = Sent("VoteResponse"), Voted(v, t, c)'
    PROVE  Voted(v, t, c)
  BY DEF Voted

\* A step of n that changes its log only, or steps down, and sends nothing
\* that counts, keeps the election invariant.
LEMMA QuietStep ==
    ASSUME TypeInv, ElectionInv, NEW n \in Node, NEW u, WellFormed(u),
           node' = [node EXCEPT ![n] = u], msgs \subseteq msgs',
           KeepsVotes(node[n], u), SameElection(node[n], u) \/ u.role = Follower,
           Sent("VoteRequest")' = Sent("VoteRequest"),
           Sent("VoteResponse")' = Sent("VoteResponse"),
           \A m \in Replications' : m \in Replications \/ Won(m.leaderId, m.term)
    PROVE  ElectionInv'
<1>1. \A v, t, c : Voted(v, t, c) => Voted(v, t, c)'
  BY VotesStay
<1>2. \A t, c : Won(c, t) => Won(c, t)'
  BY VotesStay
<1>3. \A v, t, c : Voted(v, t, c)' => Voted(v, t, c)
  BY NoNewVotes
<1>4. u.role = Candidate => \A v \in u.votesReceived : Voted(v, u.currentTerm, n)'
  BY <1>1, RoleAssumption DEF ElectionInv, CandidateVotes, SameElection
<1>5. u.role = Leader => Won(n, u.currentTerm)'
  BY <1>2, RoleAssumption DEF ElectionInv, LeadersWon, SameElection
<1>6. \A m \in Replications' : m \in Replications \/ Won(m.leaderId, m.term)'
  BY <1>2
<1> QED
  BY <1>3, <1>4, <1>5, <1>6, ElectionStep

\* n starts an election: it votes for itself, and leads at once only where it
\* is a quorum of its own.
LEMMA CampaignStep ==
    ASSUME TypeInv, ElectionInv, NEW n \in Node, NEW u, NEW r, WellFormed(u),
           node' = [node EXCEPT ![n] = u], msgs' = msgs \cup {r},
           KeepsVotes(node[n], u), u.votedFor = n,
           \/ u.role = Candidate /\ u.votesReceived = {n}
           \/ u.role = Leader /\ QuorumSize <= 1,
           r.type = "VoteRequest", r.candidateId = n, r.term = u.currentTerm
    PROVE  ElectionInv'
<1>1. /\ Sent("VoteRequest")' = Sent("VoteRequest") \cup {r}
      /\ Sent("VoteResponse")' = Sent("VoteResponse")
      /\ Sent("LogRequest")' = Sent("LogRequest")
  BY SentAdd
<1>2. \A v, c \in Node, t \in Nat : Voted(v, t, c)' =>
          Voted(v, t, c) \/ (v = n /\ t = u.currentTerm /\ u.votedFor = c)
  BY <1>1 DEF Voted
<1>3. Voted(n, u.currentTerm, n)'
  BY <1>1 DEF Voted
<1>4. u.role = Leader => Won(n, u.currentTerm)'
  <2> SUFFICES ASSUME u.role = Leader PROVE Won(n, u.currentTerm)'
    OBVIOUS
  <2>1. Cardinality({n}) = 1 /\ {n} \in SUBSET Node
    BY FS_Singleton
  <2>2. Cardinality({n}) >= QuorumSize
    BY <2>1, RoleAssumption, QuorumSizeType
  <2> QED BY <1>3, <2>1, <2>2 DEF Won
<1>5. u.role = Candidate => \A v \in u.votesReceived : Voted(v, u.currentTerm, n)'
  BY <1>3, RoleAssumption
<1>6. Replications' = Replications
  BY <1>1 DEF Replications
<1> QED
  BY <1>2, <1>4, <1>5, <1>6, ElectionStep

\* n answers a request for its vote: a grant is recorded in votedFor, and n
\* stays what it was or becomes a follower.
LEMMA VoteStep ==
    ASSUME TypeInv, ElectionInv, NEW n \in Node, NEW u, NEW r, WellFormed(u),
           node' = [node EXCEPT ![n] = u], msgs' = msgs \cup {r},
           KeepsVotes(node[n], u), SameElection(node[n], u) \/ u.role = Follower,
           r.granted => u.votedFor = r.to,
           r.type = "VoteResponse", r.voterId = n, r.term = u.currentTerm
    PROVE  ElectionInv'
<1>1. /\ Sent("VoteRequest")' = Sent("VoteRequest")
      /\ Sent("VoteResponse")' = Sent("VoteResponse") \cup {r}
      /\ Sent("LogRequest")' = Sent("LogRequest")
  BY SentAdd
<1>2. \A v, c \in Node, t \in Nat : Voted(v, t, c)' =>
          Voted(v, t, c) \/ (v = n /\ t = u.currentTerm /\ u.votedFor = c)
  BY <1>1 DEF Voted
<1>3. \A v, t, c : Voted(v, t, c) => Voted(v, t, c)'
  BY VotesStay
<1>4. \A t, c : Won(c, t) => Won(c, t)'
  BY VotesStay
<1>5. u.role = Candidate => \A v \in u.votesReceived : Voted(v, u.currentTerm, n)'
  BY <1>3, RoleAssumption DEF ElectionInv, CandidateVotes, SameElection
<1>6. u.role = Leader => Won(n, u.currentTerm)'
  BY <1>4, RoleAssumption DEF ElectionInv, LeadersWon, SameElection
<1>7. Replications' = Replications
  BY <1>1 DEF Replications
<1> QED
  BY <1>2, <1>5, <1>6, <1>7, ElectionStep

\* n counts votes that were given to it, and leads once they are a quorum.
LEMMA CountStep ==
    ASSUME TypeInv, ElectionInv, NEW n \in Node, NEW u, NEW votes \in SUBSET Node,
           WellFormed(u),
           node' = [node EXCEPT ![n] = u], msgs' = msgs,
           KeepsVotes(node[n], u), u.currentTerm = node[n].currentTerm,
           \A v \in votes : Voted(v, u.currentTerm, n),
           \/ u.role = Candidate /\ u.votesReceived = votes
           \/ u.role = Leader /\ Cardinality(votes) >= QuorumSize
    PROVE  ElectionInv'
<1>1. /\ Sent("VoteRequest")' = Sent("VoteRequest")
      /\ Sent("VoteResponse")' = Sent("VoteResponse")
      /\ Replications' = Replications
  BY DEF Sent, Replications
<1>2. \A v, t, c : Voted(v, t, c)' => Voted(v, t, c)
  BY <1>1, NoNewVotes
<1>3. \A v, t, c : Voted(v, t, c) => Voted(v, t, c)'
  BY VotesStay
<1>4. \A t, c : Won(c, t) => Won(c, t)'
  BY VotesStay
<1>5. u.role = Candidate => \A v \in u.votesReceived : Voted(v, u.currentTerm, n)'
  BY <1>3, RoleAssumption
<1>6. u.role = Leader => Won(n, u.currentTerm)
  BY RoleAssumption DEF Won
<1>7. u.role = Leader => Won(n, u.currentTerm)'
  BY <1>4, <1>6
<1> QED
  BY <1>1, <1>2, <1>5, <1>7, ElectionStep

LEMMA ElectionNext == TypeInv /\ TypeInv' /\ ElectionInv /\ [Next]_vars => ElectionInv'
<1> SUFFICES ASSUME TypeInv, TypeInv', ElectionInv, [Next]_vars PROVE ElectionInv'
  OBVIOUS
<1>0. /\ \A n \in Node : WellFormed(node[n])
      /\ node \in [Node -> RaftState] /\ msgs \subseteq Message
  BY DEF TypeInv, TypeOK
<1>00. \A n \in Node : node[n].currentTerm \in Nat
  BY <1>0 DEF RaftState
<1>1. ASSUME NEW n \in Node, StartElectionRound(n) PROVE ElectionInv'
  <2> DEFINE r == StartElection(n, node[n]).request
             u == StartElection(n, node[n]).state
  <2>1. node' = [node EXCEPT ![n] = u] /\ msgs' = msgs \cup {r}
    BY <1>1 DEF StartElectionRound
  <2>2. /\ KeepsVotes(node[n], u) /\ u.votedFor = n /\ WellFormed(u)
        /\ \/ u.role = Candidate /\ u.votesReceived = {n}
           \/ u.role = Leader /\ QuorumSize <= 1
        /\ r.type = "VoteRequest" /\ r.candidateId = n /\ r.term = u.currentTerm
    BY <1>0, StartElectionElection, StartElectionWellFormed
  <2> HIDE DEF r, u
  <2> QED BY <2>1, <2>2, CampaignStep
<1>2. ASSUME NEW n \in Node, NEW m \in Sent("VoteRequest"), ReceiveVoteRequest(n, m)
      PROVE  ElectionInv'
  <2> DEFINE r == HandleVoteRequest(n, node[n], m).response
             u == HandleVoteRequest(n, node[n], m).state
  <2>1. node' = [node EXCEPT ![n] = u] /\ msgs' = msgs \cup {r}
    BY <1>2 DEF ReceiveVoteRequest
  <2>2. /\ KeepsVotes(node[n], u) /\ WellFormed(u)
        /\ SameElection(node[n], u) \/ u.role = Follower
        /\ r.granted => u.votedFor = r.to
        /\ r.type = "VoteResponse" /\ r.voterId = n /\ r.term = u.currentTerm
    BY <1>0, SentType, HandleVoteRequestElection, HandleVoteRequestWellFormed DEF TypeInv
  <2> HIDE DEF r, u
  <2> QED BY <2>1, <2>2, VoteStep
<1>3. ASSUME NEW n \in Node, NEW m \in Sent("VoteResponse"), VoteResponseArrives(n, m)
      PROVE  ElectionInv'
  <2> DEFINE s == node[n]
             u == HandleVoteResponse(n, s, m)
             votes == s.votesReceived \cup {m.voterId}
  <2>1. node' = [node EXCEPT ![n] = u] /\ msgs' = msgs /\ m.to = n
    BY <1>3, <1>0 DEF VoteResponseArrives
  <2>2. WellFormed(s) /\ m \in VoteResponse
    BY <1>0, SentType DEF TypeInv
  <2>3. /\ KeepsVotes(s, u) /\ WellFormed(u)
        /\ \/ SameElection(s, u)
           \/ u.role = Follower
           \/ /\ CountsVote(s, m) /\ u.currentTerm = s.currentTerm
              /\ \/ u.role = Candidate /\ u.votesReceived = votes
                 \/ u.role = Leader /\ Cardinality(votes) >= QuorumSize
    <3>1. WellFormed(u)
      BY <2>2, HandleVoteResponseWellFormed
    <3>2. /\ KeepsVotes(s, u)
          /\ \/ SameElection(s, u)
             \/ u.role = Follower /\ u.leaderId = None
             \/ /\ CountsVote(s, m)
                /\ u.currentTerm = s.currentTerm /\ u.votedFor = s.votedFor
                /\ \/ /\ u.role = Candidate /\ u.leaderId = s.leaderId
                      /\ u.votesReceived = votes
                   \/ /\ u.role = Leader /\ u.leaderId = n
                      /\ Cardinality(votes) >= QuorumSize
      <4> HIDE DEF s
      <4> QED BY <2>2, HandleVoteResponseElection
    <3> HIDE DEF u, votes, s
    <3> QED BY <3>1, <3>2
  <2>4. votes \in SUBSET Node
    BY <2>2 DEF WellFormed, RaftState, VoteResponse
  <2>5. CountsVote(s, m) => \A v \in votes : Voted(v, s.currentTerm, n)
    <3> SUFFICES ASSUME CountsVote(s, m), NEW v \in votes PROVE Voted(v, s.currentTerm, n)
      OBVIOUS
    <3>1. CASE v \in s.votesReceived
      BY <3>1 DEF CountsVote, ElectionInv, CandidateVotes
    <3>2. CASE v = m.voterId
      BY <2>1, <3>2 DEF CountsVote, Voted
    <3> QED BY <3>1, <3>2
  <2> HIDE DEF u, votes
  <2>6. CASE SameElection(s, u) \/ u.role = Follower
    <3>1. /\ Sent("VoteRequest")' = Sent("VoteRequest")
          /\ Sent("VoteResponse")' = Sent("VoteResponse")
          /\ Replications' = Replications
      BY <2>1 DEF Sent, Replications
    <3> QED BY <2>1, <2>3, <2>6, <3>1, QuietStep
  <2>7. CASE /\ CountsVote(s, m) /\ u.currentTerm = s.currentTerm
             /\ \/ u.role = Candidate /\ u.votesReceived = votes
                \/ u.role = Leader /\ Cardinality(votes) >= QuorumSize
    BY <2>1, <2>3, <2>4, <2>5, <2>7, CountStep
  <2> QED BY <2>3, <2>6, <2>7
<1>4. ASSUME NEW n \in Node, NEW c \in Command, SubmitCommand(n, c) PROVE ElectionInv'
  <2> DEFINE a == AppendCommand(n, node[n], c)
             u == ApplyCommittedEntries(a)
  <2>1. node' = [node EXCEPT ![n] = u] /\ msgs' = msgs /\ node[n].role = Leader
    BY <1>4, <1>0 DEF SubmitCommand
  <2>2. WellFormed(a) /\ SameElection(node[n], a)
    BY <1>0, <2>1, AppendCommandWellFormed, AppendCommandElection
  <2> HIDE DEF a
  <2>3. WellFormed(u) /\ SameElection(a, u)
    BY <2>2, ApplyCommittedEntriesWellFormed, ApplyCommittedEntriesElection
  <2>4. SameElection(node[n], u) /\ KeepsVotes(node[n], u)
    BY <1>0, <2>2, <2>3, SameElectionTransitive, SameElectionKeepsVotes
  <2>5. /\ Sent("VoteRequest")' = Sent("VoteRequest")
        /\ Sent("VoteResponse")' = Sent("VoteResponse")
        /\ Replications' = Replications
    BY <2>1 DEF Sent, Replications
  <2> HIDE DEF u
  <2> QED BY <2>1, <2>3, <2>4, <2>5, QuietStep
<1>5. ASSUME NEW n \in Node, NEW p \in Node, SendLogRequest(n, p) PROVE ElectionInv'
  <2> DEFINE r == MakeLogRequest(n, node[n], p)
             u == node[n]
  <2>1. node' = node /\ msgs' = msgs \cup {r} /\ u.role = Leader
    BY <1>5 DEF SendLogRequest
  <2>2. r.type = "LogRequest" /\ r.leaderId = n /\ r.term = u.currentTerm
    BY DEF MakeLogRequest
  <2> HIDE DEF r
  <2>3. /\ Sent("VoteRequest")' = Sent("VoteRequest")
        /\ Sent("VoteResponse")' = Sent("VoteResponse")
        /\ Sent("LogRequest")' = Sent("LogRequest") \cup {r}
    BY <2>1, <2>2, SentAdd
  <2>4. \A m \in Replications' : m \in Replications \/ Won(m.leaderId, m.term)
    BY <2>1, <2>2, <2>3 DEF Replications, ElectionInv, LeadersWon
  <2>5. SameElection(u, u) /\ KeepsVotes(u, u) /\ WellFormed(u)
    BY <1>0, <1>00 DEF SameElection, KeepsVotes
  <2>6. node' = [node EXCEPT ![n] = u]
    BY <1>0, <2>1
  <2> HIDE DEF u
  <2> QED BY <2>1, <2>3, <2>4, <2>5, <2>6, QuietStep DEF u
<1>6. ASSUME NEW n \in Node, NEW m \in Sent("LogRequest"), ReceiveLogRequest(n, m)
      PROVE  ElectionInv'
  <2> DEFINE r == HandleLogRequest(n, node[n], m).response
             h == HandleLogRequest(n, node[n], m).state
             u == ApplyCommittedEntries(h)
  <2>1. /\ node' = [node EXCEPT ![n] = u] /\ msgs' = msgs \cup {r}
        /\ ~LogRequestRaises(node[n], m) /\ m \in LogRequest
    BY <1>6, SentType DEF ReceiveLogRequest, TypeInv
  <2>2. /\ WellFormed(h) /\ KeepsVotes(node[n], h)
        /\ SameElection(node[n], h) \/ h.role = Follower
        /\ r.type = "LogResponse"
    BY <1>0, <2>1, HandleLogRequestWellFormed, HandleLogRequestElection
  <2> HIDE DEF h, r
  <2>3. WellFormed(u) /\ SameElection(h, u)
    BY <2>2, ApplyCommittedEntriesWellFormed, ApplyCommittedEntriesElection
  <2> HIDE DEF u
  <2>4. KeepsVotes(node[n], u) /\ (SameElection(node[n], u) \/ u.role = Follower)
    BY <2>2, <2>3 DEF SameElection, KeepsVotes
  <2>5. /\ Sent("VoteRequest")' = Sent("VoteRequest")
        /\ Sent("VoteResponse")' = Sent("VoteResponse")
        /\ Sent("LogRequest")' = Sent("LogRequest")
    BY <2>1, <2>2, SentAdd
  <2>6. Replications' = Replications
    BY <2>5 DEF Replications
  <2> QED BY <2>1, <2>3, <2>4, <2>5, <2>6, QuietStep
<1>7. ASSUME NEW n \in Node, NEW m \in Sent("LogResponse"), LogResponseArrives(n, m)
      PROVE  ElectionInv'
  <2> DEFINE h == HandleLogResponse(n, node[n], m)
             u == ApplyCommittedEntries(h)
  <2>1. /\ node' = [node EXCEPT ![n] = u] /\ msgs' = msgs
        /\ ~LogResponseRaises(node[n], m) /\ m \in LogResponse
    BY <1>7, <1>0, SentType DEF LogResponseArrives, TypeInv
  <2>2. /\ WellFormed(h) /\ KeepsVotes(node[n], h)
        /\ SameElection(node[n], h) \/ h.role = Follower
    BY <1>0, <2>1, HandleLogResponseWellFormed, HandleLogResponseElection
  <2> HIDE DEF h
  <2>3. WellFormed(u) /\ SameElection(h, u)
    BY <2>2, ApplyCommittedEntriesWellFormed, ApplyCommittedEntriesElection
  <2> HIDE DEF u
  <2>4. KeepsVotes(node[n], u) /\ (SameElection(node[n], u) \/ u.role = Follower)
    BY <2>2, <2>3 DEF SameElection, KeepsVotes
  <2>5. /\ Sent("VoteRequest")' = Sent("VoteRequest")
        /\ Sent("VoteResponse")' = Sent("VoteResponse")
        /\ Replications' = Replications
    BY <2>1 DEF Sent, Replications
  <2> QED BY <2>1, <2>3, <2>4, <2>5, QuietStep
<1>8. CASE UNCHANGED vars
  BY <1>8
  DEF vars, ElectionInv, VotesKept, VotesUnique, CandidateVotes, LeadersWon, Won, Voted,
      Replications, Sent
<1> QED
  BY <1>1, <1>2, <1>3, <1>4, <1>5, <1>6, <1>7, <1>8 DEF Next

\* Votes are kept and unique, and whoever leads was elected by a quorum.
THEOREM ElectionInvariance == Spec => []ElectionInv
<1>1. Init => ElectionInv
  BY ElectionInit
<1>2. TypeInv /\ TypeInv' /\ ElectionInv /\ [Next]_vars => ElectionInv'
  BY ElectionNext
<1> QED
  BY <1>1, <1>2, TypeInvariance, PTL DEF Spec

\* Two quorums of one term share a voter, who voted once: one leader a term.
LEMMA OneWinner ==
    ASSUME ElectionInv, NEW c \in Node, NEW d \in Node, NEW t \in Nat, Won(c, t), Won(d, t)
    PROVE  c = d
<1>1. PICK Q \in SUBSET Node :
          Cardinality(Q) >= QuorumSize /\ \A v \in Q : Voted(v, t, c)
  BY DEF Won
<1>2. PICK R \in SUBSET Node :
          Cardinality(R) >= QuorumSize /\ \A v \in R : Voted(v, t, d)
  BY DEF Won
<1>3. PICK v \in Node : v \in Q /\ v \in R
  BY <1>1, <1>2, QuorumsIntersect
<1> QED
  BY <1>1, <1>2, <1>3 DEF ElectionInv, VotesUnique

\* At most one node acts as leader of a term (start_election,
\* handle_vote_request, handle_vote_response), for every membership.
THEOREM ElectionSafetyHolds == Spec => []ElectionSafety
<1>1. TypeInv /\ ElectionInv => ElectionSafety
  <2> SUFFICES ASSUME TypeInv, ElectionInv, NEW t \in 1 .. MaxTerm,
                      NEW n \in LeadersOf(t), NEW p \in LeadersOf(t)
               PROVE  n = p
    BY DEF ElectionSafety
  <2>1. \A q \in LeadersOf(t) : q \in Node /\ Won(q, t)
    BY DEF LeadersOf, Replications, ElectionInv, LeadersWon
  <2>2. t \in Nat
    OBVIOUS
  <2> QED BY <2>1, <2>2, OneWinner
<1> QED
  BY <1>1, TypeInvariance, ElectionInvariance, PTL

-----------------------------------------------------------------------------
(* Terms and votes only move on.                                           *)

LEMMA KeepsVotesStep ==
    ASSUME TypeInv, NEW n \in Node, NEW u, node' = [node EXCEPT ![n] = u],
           KeepsVotes(node[n], u), NEW p \in Node
    PROVE  KeepsVotes(node[p], node'[p])
<1>1. node'[p] = IF p = n THEN u ELSE node[p]
  BY DEF TypeInv, TypeOK
<1>2. node[p].currentTerm \in Nat
  BY DEF TypeInv, TypeOK, RaftState
<1> QED
  BY <1>1, <1>2 DEF KeepsVotes

LEMMA KeepsVotesNext ==
    ASSUME TypeInv, [Next]_vars, NEW p \in Node
    PROVE  KeepsVotes(node[p], node'[p])
<1>0. /\ \A n \in Node : WellFormed(node[n])
      /\ node \in [Node -> RaftState] /\ msgs \subseteq Message
  BY DEF TypeInv, TypeOK
<1>1. ASSUME NEW n \in Node, StartElectionRound(n) PROVE KeepsVotes(node[p], node'[p])
  <2> DEFINE u == StartElection(n, node[n]).state
  <2>1. node' = [node EXCEPT ![n] = u] /\ KeepsVotes(node[n], u)
    BY <1>0, <1>1, StartElectionElection DEF StartElectionRound
  <2> HIDE DEF u
  <2> QED BY <2>1, KeepsVotesStep
<1>2. ASSUME NEW n \in Node, NEW m \in Sent("VoteRequest"), ReceiveVoteRequest(n, m)
      PROVE  KeepsVotes(node[p], node'[p])
  <2> DEFINE u == HandleVoteRequest(n, node[n], m).state
  <2>1. node' = [node EXCEPT ![n] = u]
    BY <1>2 DEF ReceiveVoteRequest
  <2>2. KeepsVotes(node[n], u)
    BY <1>0, SentType, HandleVoteRequestElection DEF TypeInv
  <2> HIDE DEF u
  <2> QED BY <2>1, <2>2, KeepsVotesStep
<1>3. ASSUME NEW n \in Node, NEW m \in Sent("VoteResponse"), VoteResponseArrives(n, m)
      PROVE  KeepsVotes(node[p], node'[p])
  <2> DEFINE u == HandleVoteResponse(n, node[n], m)
  <2>1. node' = [node EXCEPT ![n] = u]
    BY <1>0, <1>3 DEF VoteResponseArrives
  <2>2. KeepsVotes(node[n], u)
    BY <1>0, SentType, HandleVoteResponseElection DEF TypeInv
  <2> HIDE DEF u
  <2> QED BY <2>1, <2>2, KeepsVotesStep
<1>4. ASSUME NEW n \in Node, NEW c \in Command, SubmitCommand(n, c)
      PROVE  KeepsVotes(node[p], node'[p])
  <2> DEFINE a == AppendCommand(n, node[n], c)
             u == ApplyCommittedEntries(a)
  <2>1. node' = [node EXCEPT ![n] = u] /\ node[n].role = Leader
    BY <1>0, <1>4 DEF SubmitCommand
  <2>2. WellFormed(a) /\ SameElection(node[n], a)
    BY <1>0, <2>1, AppendCommandWellFormed, AppendCommandElection
  <2> HIDE DEF a
  <2>3. SameElection(a, u)
    BY <2>2, ApplyCommittedEntriesElection
  <2>4. KeepsVotes(node[n], u)
    BY <1>0, <2>2, <2>3, SameElectionTransitive, SameElectionKeepsVotes
  <2> HIDE DEF u
  <2> QED BY <2>1, <2>4, KeepsVotesStep
<1>5. ASSUME node' = node PROVE KeepsVotes(node[p], node'[p])
  BY <1>0, <1>5 DEF KeepsVotes, RaftState
<1>6. ASSUME NEW n \in Node, NEW m \in Sent("LogRequest"), ReceiveLogRequest(n, m)
      PROVE  KeepsVotes(node[p], node'[p])
  <2> DEFINE h == HandleLogRequest(n, node[n], m).state
             u == ApplyCommittedEntries(h)
  <2>1. node' = [node EXCEPT ![n] = u] /\ ~LogRequestRaises(node[n], m) /\ m \in LogRequest
    BY <1>6, SentType DEF ReceiveLogRequest, TypeInv
  <2>2. WellFormed(h) /\ KeepsVotes(node[n], h)
    BY <1>0, <2>1, HandleLogRequestWellFormed, HandleLogRequestElection
  <2> HIDE DEF h
  <2>3. SameElection(h, u)
    BY <2>2, ApplyCommittedEntriesElection
  <2> HIDE DEF u
  <2>4. KeepsVotes(node[n], u)
    BY <2>2, <2>3 DEF SameElection, KeepsVotes
  <2> QED BY <2>1, <2>4, KeepsVotesStep
<1>7. ASSUME NEW n \in Node, NEW m \in Sent("LogResponse"), LogResponseArrives(n, m)
      PROVE  KeepsVotes(node[p], node'[p])
  <2> DEFINE h == HandleLogResponse(n, node[n], m)
             u == ApplyCommittedEntries(h)
  <2>1. node' = [node EXCEPT ![n] = u] /\ ~LogResponseRaises(node[n], m) /\ m \in LogResponse
    BY <1>7, <1>0, SentType DEF LogResponseArrives, TypeInv
  <2>2. WellFormed(h) /\ KeepsVotes(node[n], h)
    BY <1>0, <2>1, HandleLogResponseWellFormed, HandleLogResponseElection
  <2> HIDE DEF h
  <2>3. SameElection(h, u)
    BY <2>2, ApplyCommittedEntriesElection
  <2> HIDE DEF u
  <2>4. KeepsVotes(node[n], u)
    BY <2>2, <2>3 DEF SameElection, KeepsVotes
  <2> QED BY <2>1, <2>4, KeepsVotesStep
<1> QED
  BY <1>1, <1>2, <1>3, <1>4, <1>5, <1>6, <1>7
  DEF Next, SendLogRequest, vars

\* No step of any handler lowers a term or changes a vote within its term
\* (_become_follower, start_election, handle_vote_request).
THEOREM VotesAndTermsAreKept == Spec => VotesAndTermsKept
<1>1. TypeInv /\ [Next]_vars =>
          [\A n \in Node :
             /\ node[n].currentTerm <= node'[n].currentTerm
             /\ node[n].currentTerm = node'[n].currentTerm /\ node[n].votedFor # None
                   => node'[n].votedFor = node[n].votedFor]_vars
  BY KeepsVotesNext DEF KeepsVotes
<1> QED
  BY <1>1, TypeInvariance, PTL DEF Spec, VotesAndTermsKept

-----------------------------------------------------------------------------
(* Where the terms and the leader hints of the nodes come from.            *)

\* What a step of the node n sends, and where the term and the hint of n come
\* from: its own campaign, or a message that it handles.
Origin(n, u) ==
    /\ \/ u.currentTerm = node[n].currentTerm
       \/ \E m \in Elections' : m.term = u.currentTerm
       \/ \E m \in Sent("VoteResponse") \cup Sent("LogResponse") \cup Replications :
             m.term = u.currentTerm
    /\ \/ u.leaderId = None
       \/ u.role = Leader /\ u.leaderId = n
       \/ \E m \in Replications : m.leaderId = u.leaderId /\ m.term = u.currentTerm
       \/ SameElection(node[n], u)
       \/ /\ node[n].role = Candidate /\ u.leaderId = node[n].leaderId
          /\ u.currentTerm = node[n].currentTerm
    /\ \A m \in msgs' \ msgs :
          m.type \in {"VoteRequest", "VoteResponse", "LogResponse"} => m.term = u.currentTerm
    /\ \A m \in msgs' \ msgs :
          m.type = "LogRequest" => m.term = u.currentTerm /\ u.currentTerm = node[n].currentTerm

\* Every step is one of a node whose term and hint have such an origin.
LEMMA StepOrigin ==
    ASSUME TypeInv, [Next]_vars, ~UNCHANGED vars
    PROVE  \E n \in Node : \E u :
              node' = [node EXCEPT ![n] = u] /\ msgs \subseteq msgs' /\ Origin(n, u)
<1>0. /\ \A n \in Node : WellFormed(node[n])
      /\ node \in [Node -> RaftState] /\ msgs \subseteq Message
  BY DEF TypeInv, TypeOK
<1>1. ASSUME NEW n \in Node, StartElectionRound(n)
      PROVE  \E u : node' = [node EXCEPT ![n] = u] /\ msgs \subseteq msgs' /\ Origin(n, u)
  <2> DEFINE r == StartElection(n, node[n]).request
             u == StartElection(n, node[n]).state
  <2>1. node' = [node EXCEPT ![n] = u] /\ msgs' = msgs \cup {r}
    BY <1>1 DEF StartElectionRound
  <2>2. /\ u.leaderId = None \/ (u.role = Leader /\ u.leaderId = n)
        /\ r.type = "VoteRequest" /\ r.candidateId = n /\ r.term = u.currentTerm
    BY <1>0, StartElectionElection
  <2> HIDE DEF r, u
  <2>3. r \in Elections'
    BY <2>1, <2>2 DEF Elections, Sent
  <2> QED BY <2>1, <2>2, <2>3 DEF Origin
<1>2. ASSUME NEW n \in Node, NEW m \in Sent("VoteRequest"), ReceiveVoteRequest(n, m)
      PROVE  \E u : node' = [node EXCEPT ![n] = u] /\ msgs \subseteq msgs' /\ Origin(n, u)
  <2> DEFINE r == HandleVoteRequest(n, node[n], m).response
             u == HandleVoteRequest(n, node[n], m).state
  <2>1. node' = [node EXCEPT ![n] = u] /\ msgs' = msgs \cup {r}
    BY <1>2 DEF ReceiveVoteRequest
  <2>2. /\ SameElection(node[n], u) \/ u.leaderId = None
        /\ u.currentTerm \in {node[n].currentTerm, m.term}
        /\ m.candidateId \notin Node => SameElection(node[n], u)
        /\ r.type = "VoteResponse" /\ r.term = u.currentTerm
    BY <1>0, SentType, HandleVoteRequestElection DEF TypeInv
  <2> HIDE DEF r, u
  <2>3. m.candidateId \in Node => m \in Elections'
    BY <2>1 DEF Elections, Sent
  <2>4. \/ u.currentTerm = node[n].currentTerm
        \/ \E e \in Elections' : e.term = u.currentTerm
    BY <2>2, <2>3 DEF SameElection
  <2> QED BY <2>1, <2>2, <2>4 DEF Origin
<1>3. ASSUME NEW n \in Node, NEW m \in Sent("VoteResponse"), VoteResponseArrives(n, m)
      PROVE  \E u : node' = [node EXCEPT ![n] = u] /\ msgs \subseteq msgs' /\ Origin(n, u)
  <2> DEFINE u == HandleVoteResponse(n, node[n], m)
  <2>1. node' = [node EXCEPT ![n] = u] /\ msgs' = msgs
    BY <1>0, <1>3 DEF VoteResponseArrives
  <2>2. WellFormed(node[n]) /\ m \in VoteResponse
    BY <1>0, SentType DEF TypeInv
  <2>3. /\ u.currentTerm \in {node[n].currentTerm, m.term}
        /\ \/ SameElection(node[n], u)
           \/ u.leaderId = None
           \/ /\ CountsVote(node[n], m) /\ u.leaderId = node[n].leaderId
              /\ u.currentTerm = node[n].currentTerm
           \/ u.role = Leader /\ u.leaderId = n
    <3> DEFINE s == node[n]
    <3> HIDE DEF s
    <3>1. WellFormed(s) => LET v == HandleVoteResponse(n, s, m)
                           IN  /\ v.currentTerm \in {s.currentTerm, m.term}
                               /\ \/ SameElection(s, v)
                                  \/ v.leaderId = None
                                  \/ /\ CountsVote(s, m) /\ v.leaderId = s.leaderId
                                     /\ v.currentTerm = s.currentTerm
                                  \/ v.role = Leader /\ v.leaderId = n
      BY <2>2, HandleVoteResponseElection
    <3> QED BY <2>2, <3>1 DEF s
  <2> HIDE DEF u
  <2> QED BY <2>1, <2>3 DEF Origin, CountsVote
<1>4. ASSUME NEW n \in Node, NEW c \in Command, SubmitCommand(n, c)
      PROVE  \E u : node' = [node EXCEPT ![n] = u] /\ msgs \subseteq msgs' /\ Origin(n, u)
  <2> DEFINE a == AppendCommand(n, node[n], c)
             u == ApplyCommittedEntries(a)
  <2>1. node' = [node EXCEPT ![n] = u] /\ msgs' = msgs /\ node[n].role = Leader
    BY <1>0, <1>4 DEF SubmitCommand
  <2>2. WellFormed(a) /\ SameElection(node[n], a)
    BY <1>0, <2>1, AppendCommandWellFormed, AppendCommandElection
  <2> HIDE DEF a
  <2>3. SameElection(node[n], u)
    BY <2>2, ApplyCommittedEntriesElection, SameElectionTransitive
  <2> HIDE DEF u
  <2> QED BY <2>1, <2>3 DEF Origin, SameElection
<1>5. ASSUME NEW n \in Node, NEW p \in Node, SendLogRequest(n, p)
      PROVE  \E u : node' = [node EXCEPT ![n] = u] /\ msgs \subseteq msgs' /\ Origin(n, u)
  <2> DEFINE r == MakeLogRequest(n, node[n], p)
             u == node[n]
  <2>1. node' = [node EXCEPT ![n] = u] /\ msgs' = msgs \cup {r}
    BY <1>0, <1>5 DEF SendLogRequest
  <2>2. r.type = "LogRequest" /\ r.term = u.currentTerm
    BY DEF MakeLogRequest
  <2>3. SameElection(node[n], u)
    BY DEF SameElection
  <2> HIDE DEF r
  <2> QED BY <2>1, <2>2, <2>3 DEF Origin
<1>6. ASSUME NEW n \in Node, NEW m \in Sent("LogRequest"), ReceiveLogRequest(n, m)
      PROVE  \E u : node' = [node EXCEPT ![n] = u] /\ msgs \subseteq msgs' /\ Origin(n, u)
  <2> DEFINE r == HandleLogRequest(n, node[n], m).response
             h == HandleLogRequest(n, node[n], m).state
             u == ApplyCommittedEntries(h)
  <2>1. /\ node' = [node EXCEPT ![n] = u] /\ msgs' = msgs \cup {r}
        /\ ~LogRequestRaises(node[n], m) /\ m \in LogRequest
    BY <1>6, SentType DEF ReceiveLogRequest, TypeInv
  <2>2. /\ WellFormed(h)
        /\ \/ SameElection(node[n], h)
           \/ m.leaderId \in Node /\ h.currentTerm = m.term /\ h.leaderId = m.leaderId
        /\ r.type = "LogResponse" /\ r.term = h.currentTerm
    BY <1>0, <2>1, HandleLogRequestWellFormed, HandleLogRequestElection
  <2> HIDE DEF h, r
  <2>3. SameElection(h, u)
    BY <2>2, ApplyCommittedEntriesElection
  <2> HIDE DEF u
  <2>4. m.leaderId \in Node => m \in Replications
    BY DEF Replications
  <2>5. \/ SameElection(node[n], u)
        \/ m \in Replications /\ u.currentTerm = m.term /\ u.leaderId = m.leaderId
    BY <2>2, <2>3, <2>4 DEF SameElection
  <2>6. r.term = u.currentTerm
    BY <2>2, <2>3 DEF SameElection
  <2> QED BY <2>1, <2>2, <2>5, <2>6 DEF Origin, SameElection
<1>7. ASSUME NEW n \in Node, NEW m \in Sent("LogResponse"), LogResponseArrives(n, m)
      PROVE  \E u : node' = [node EXCEPT ![n] = u] /\ msgs \subseteq msgs' /\ Origin(n, u)
  <2> DEFINE h == HandleLogResponse(n, node[n], m)
             u == ApplyCommittedEntries(h)
  <2>1. /\ node' = [node EXCEPT ![n] = u] /\ msgs' = msgs
        /\ ~LogResponseRaises(node[n], m) /\ m \in LogResponse
    BY <1>7, <1>0, SentType DEF LogResponseArrives, TypeInv
  <2>2. /\ WellFormed(h)
        /\ h.currentTerm \in {node[n].currentTerm, m.term}
        /\ SameElection(node[n], h) \/ h.leaderId = None
    BY <1>0, <2>1, HandleLogResponseWellFormed, HandleLogResponseElection
  <2> HIDE DEF h
  <2>3. SameElection(h, u)
    BY <2>2, ApplyCommittedEntriesElection
  <2> HIDE DEF u
  <2>4. /\ u.currentTerm \in {node[n].currentTerm, m.term}
        /\ SameElection(node[n], u) \/ u.leaderId = None
    BY <2>2, <2>3 DEF SameElection
  <2> QED BY <2>1, <2>4 DEF Origin
<1> QED
  BY <1>1, <1>2, <1>3, <1>4, <1>5, <1>6, <1>7 DEF Next

-----------------------------------------------------------------------------
(* Terms.                                                                  *)

Elected(t) == t = 0 \/ \E m \in Elections : m.term = t

\* Members move each other's terms with responses and requests, so their
\* terms belong to the invariant.
TermInv ==
    /\ \A n \in Node : Elected(node[n].currentTerm)
    /\ \A m \in Sent("VoteResponse") \cup Sent("LogResponse") \cup Replications :
          Elected(m.term)

LEMMA TermInit == Init => TermInv
<1> SUFFICES ASSUME Init PROVE TermInv
  OBVIOUS
<1>1. \A n \in Node : node[n].currentTerm = 0
  BY DEF Init, FreshState
<1>2. Sent("VoteResponse") \cup Sent("LogResponse") \cup Replications = {}
  BY OutsiderAssumption DEF Init, OutsiderRequests, Sent, Replications
<1> QED
  BY <1>1, <1>2 DEF TermInv, Elected

LEMMA TermNext == TypeInv /\ TermInv /\ [Next]_vars => TermInv'
<1> SUFFICES ASSUME TypeInv, TermInv, [Next]_vars PROVE TermInv'
  OBVIOUS
<1>1. CASE UNCHANGED vars
  BY <1>1 DEF vars, TermInv, Elected, Elections, Replications, Sent
<1>2. CASE ~UNCHANGED vars
  <2>0. PICK n \in Node : \E u :
            node' = [node EXCEPT ![n] = u] /\ msgs \subseteq msgs' /\ Origin(n, u)
    BY <1>2, StepOrigin
  <2>1. PICK u : node' = [node EXCEPT ![n] = u] /\ msgs \subseteq msgs' /\ Origin(n, u)
    BY <2>0
  <2>2. \A t : Elected(t) => Elected(t)'
    BY <2>1 DEF Elected, Elections, Sent
  <2>3. Elected(u.currentTerm)'
    <3>1. Elected(u.currentTerm) \/ \E m \in Elections' : m.term = u.currentTerm
      BY <2>1 DEF Origin, TermInv
    <3> QED BY <2>2, <3>1 DEF Elected
  <2>4. \A p \in Node : node'[p] = IF p = n THEN u ELSE node[p]
    BY <2>1 DEF TypeInv, TypeOK
  <2>5. \A p \in Node : Elected(node[p].currentTerm)'
    BY <2>2, <2>3, <2>4 DEF TermInv
  <2>6. ASSUME NEW m \in (Sent("VoteResponse") \cup Sent("LogResponse") \cup Replications)'
        PROVE  Elected(m.term)'
    <3>1. CASE m \in msgs
      BY <2>2, <3>1 DEF TermInv, Sent, Replications
    <3>2. CASE m \notin msgs
      BY <2>1, <2>3, <3>2 DEF Origin, Sent, Replications
    <3> QED BY <3>1, <3>2
  <2> QED BY <2>5, <2>6 DEF TermInv
<1> QED BY <1>1, <1>2

\* Every term that a node is in was started by the campaign of a member:
\* requests from outside the membership move no term (handle_vote_request,
\* handle_log_request).
THEOREM EveryTermIsElected == Spec => []TermsAreElected
<1>1. Init => TermInv
  BY TermInit
<1>2. TypeInv /\ TermInv /\ [Next]_vars => TermInv'
  BY TermNext
<1>3. TermInv => TermsAreElected
  BY DEF TermInv, TermsAreElected, Elected
<1> QED
  BY <1>1, <1>2, <1>3, TypeInvariance, PTL DEF Spec

-----------------------------------------------------------------------------
(* Leader hints.                                                           *)

\* A hint is the leader itself, or the sender of a request of the term: the
\* request stays when its sender steps down.
HintInv ==
    \A n \in Node : node[n].leaderId # None =>
        \/ node[n].role = Leader /\ node[n].leaderId = n
        \/ \E m \in Replications :
              m.leaderId = node[n].leaderId /\ m.term = node[n].currentTerm

LEMMA HintNext == TypeInv /\ HintInv /\ [Next]_vars => HintInv'
<1> SUFFICES ASSUME TypeInv, HintInv, [Next]_vars PROVE HintInv'
  OBVIOUS
<1>1. CASE UNCHANGED vars
  BY <1>1 DEF vars, HintInv, Replications, Sent
<1>2. CASE ~UNCHANGED vars
  <2>0. PICK n \in Node : \E u :
            node' = [node EXCEPT ![n] = u] /\ msgs \subseteq msgs' /\ Origin(n, u)
    BY <1>2, StepOrigin
  <2>1. PICK u : node' = [node EXCEPT ![n] = u] /\ msgs \subseteq msgs' /\ Origin(n, u)
    BY <2>0
  <2>2. Replications \subseteq Replications'
    BY <2>1 DEF Replications, Sent
  <2>3. \A p \in Node : node'[p] = IF p = n THEN u ELSE node[p]
    BY <2>1 DEF TypeInv, TypeOK
  <2>4. u.leaderId # None =>
            \/ u.role = Leader /\ u.leaderId = n
            \/ \E m \in Replications : m.leaderId = u.leaderId /\ m.term = u.currentTerm
    BY <2>1, RoleAssumption DEF Origin, HintInv, SameElection
  <2> QED BY <2>2, <2>3, <2>4 DEF HintInv
<1> QED BY <1>1, <1>2

\* The leader that a node names, to its clients too, was elected for its term
\* (_become_follower, handle_log_request).
THEOREM HintsAreElected == Spec => []LeaderHintIsElected
<1>1. Init => HintInv
  BY DEF Init, HintInv, FreshState
<1>2. TypeInv /\ HintInv /\ [Next]_vars => HintInv'
  BY HintNext
<1>3. TypeInv /\ HintInv => LeaderHintIsElected
  BY DEF HintInv, LeaderHintIsElected, LeadersOf
<1> QED
  BY <1>1, <1>2, <1>3, TypeInvariance, PTL DEF Spec

-----------------------------------------------------------------------------
(***************************************************************************)
(* The logs of the nodes, for every membership, every set of commands and  *)
(* every value of the bounds: what is committed and applied stays, logs    *)
(* that share an entry agree up to it (Log Matching), Leader Completeness, *)
(* State Machine Safety and the absence of InvariantViolation.             *)
(*                                                                         *)
(* Log Matching rests on an invariant that speaks of a history L: L[t] is  *)
(* the log that the leader of term t had when it was last its leader.      *)
(* Every log of a node is put together from these logs, and so is every    *)
(* request.                                                                *)
(***************************************************************************)

-----------------------------------------------------------------------------
(* What the handlers do to the log, and to what is committed and applied.  *)

SameLog(s, u) ==
    u.log = s.log /\ u.commitLength = s.commitLength /\ u.applied = s.applied

\* The log keeps its committed entries; applying comes afterwards.
KeepsCommitted(s, u) ==
    /\ u.applied = s.applied
    /\ s.commitLength <= u.commitLength
    /\ \A k \in 1 .. s.commitLength : u.log[k] = s.log[k]

LEMMA BecomeFollowerLog ==
    ASSUME NEW s, WellFormed(s), NEW t, NEW l
    PROVE  SameLog(s, BecomeFollower(s, t, l))
  BY DEF BecomeFollower, SameLog, WellFormed, RaftState

LEMMA BecomeLeaderLog ==
    ASSUME NEW s, WellFormed(s), NEW self
    PROVE  LET u == BecomeLeader(self, s)
           IN  /\ SameLog(s, u)
               /\ u.ackedLength = [p \in Node |-> IF p = self THEN Len(s.log) ELSE 0]
  BY DEF BecomeLeader, SameLog, WellFormed, RaftState

LEMMA SameLogKeepsCommitted ==
    ASSUME NEW s, WellFormed(s), NEW u, SameLog(s, u)
    PROVE  KeepsCommitted(s, u)
  BY DEF SameLog, KeepsCommitted, WellFormed, RaftState

LEMMA StartElectionLog ==
    ASSUME NEW s, WellFormed(s), NEW self \in Node
    PROVE  LET u == StartElection(self, s).state
               r == StartElection(self, s).request
           IN  /\ SameLog(s, u)
               /\ r.logLength = Len(s.log) /\ r.lastLogTerm = LastLogTerm(s)
               /\ u.role = Leader => u.ackedLength =
                     [p \in Node |-> IF p = self THEN Len(s.log) ELSE 0]
<1> DEFINE c == BecomeCandidate(self, s)
           l == BecomeLeader(self, c)
<1>1. SameLog(s, c) /\ c.role = Candidate
  BY DEF BecomeCandidate, SameLog, WellFormed, RaftState
<1>2. WellFormed(s) => /\ l.log = c.log /\ l.commitLength = c.commitLength
                       /\ l.applied = c.applied
                       /\ l.ackedLength = [p \in Node |-> IF p = self THEN Len(c.log) ELSE 0]
  BY DEF BecomeLeader, BecomeCandidate, WellFormed, RaftState
<1>3. LastLogTerm(c) = LastLogTerm(s)
  BY <1>1 DEF LastLogTerm, SameLog
<1>4. /\ StartElection(self, s).state = IF QuorumSize <= 1 THEN l ELSE c
      /\ StartElection(self, s).request.logLength = Len(c.log)
      /\ StartElection(self, s).request.lastLogTerm = LastLogTerm(c)
  BY DEF StartElection
<1> HIDE DEF c, l
<1> QED
  BY <1>1, <1>2, <1>3, <1>4, RoleAssumption DEF SameLog

LEMMA HandleVoteRequestLog ==
    ASSUME NEW s, WellFormed(s), NEW self \in Node, NEW m \in VoteRequest
    PROVE  LET r == HandleVoteRequest(self, s, m)
           IN  /\ SameLog(s, r.state)
               /\ r.state.role = Leader => r.state = s
               /\ r.response.granted =>
                     /\ m.candidateId \in Node /\ m.term = r.state.currentTerm
                     /\ LogIsCurrent(s, m)
<1> DEFINE u == IF m.candidateId \in Node THEN StepUp(s, m.term, None) ELSE s
           g == BecomeFollower(u, u.currentTerm, None)
           v == GiveVote(u, m)
           r == HandleVoteRequest(self, s, m)
<1>1. WellFormed(u) /\ SameLog(s, u) /\ (u = s \/ u.role = Follower)
  <2>1. \A t \in Nat : BecomeFollower(s, t, None).role = Follower
    BY DEF BecomeFollower, WellFormed, RaftState
  <2>2. m.term \in Nat
    BY DEF VoteRequest
  <2>3. WellFormed(StepUp(s, m.term, None))
    BY <2>2, StepUpWellFormed
  <2>4. SameLog(s, s) /\ SameLog(s, BecomeFollower(s, m.term, None))
    BY BecomeFollowerLog DEF SameLog
  <2> QED BY <2>1, <2>2, <2>3, <2>4 DEF StepUp
<1> HIDE DEF u
<1>2. SameLog(u, g) /\ g.currentTerm = u.currentTerm /\ g.role = Follower
  BY <1>1, BecomeFollowerLog DEF BecomeFollower, WellFormed, RaftState
<1>3. g \in RaftState
  BY <1>1, BecomeFollowerWellFormed DEF WellFormed, RaftState
<1>4. v = [g EXCEPT !.votedFor = m.candidateId]
  BY DEF GiveVote
<1> HIDE DEF g
<1>5. SameLog(g, v) /\ v.currentTerm = g.currentTerm /\ v.role = g.role
  BY <1>3, <1>4 DEF SameLog, RaftState
<1>6. /\ r.state \in {u, v}
      /\ r.response.granted => /\ m.candidateId \in Node /\ GrantsVote(u, m)
                               /\ r.state = v
  BY DEF HandleVoteRequest, u
<1> HIDE DEF v, r
<1>7. LogIsCurrent(u, m) => LogIsCurrent(s, m)
  BY <1>1 DEF LogIsCurrent, LastLogTerm, SameLog
<1>8. /\ SameLog(s, r.state)
      /\ r.state.role = Leader => r.state = s
      /\ r.response.granted => /\ m.candidateId \in Node /\ m.term = r.state.currentTerm
                               /\ LogIsCurrent(s, m)
  BY <1>1, <1>2, <1>5, <1>6, <1>7, RoleAssumption DEF SameLog, GrantsVote
<1> QED BY <1>8 DEF r

LEMMA HandleVoteResponseLog ==
    ASSUME NEW s, WellFormed(s), NEW self \in Node, NEW m \in VoteResponse
    PROVE  LET u == HandleVoteResponse(self, s, m)
           IN  /\ SameLog(s, u)
               /\ u.role = Leader => u = s \/
                     u.ackedLength = [p \in Node |-> IF p = self THEN Len(s.log) ELSE 0]
<1> DEFINE c == [s EXCEPT !.votesReceived = @ \cup {m.voterId}]
           l == BecomeLeader(self, c)
           f == BecomeFollower(s, m.term, None)
<1>1. WellFormed(c) /\ SameLog(s, c) /\ c.role = s.role
  BY DEF WellFormed, RaftState, VoteResponse, SameLog
<1>2. CountsVote(s, m) => c.role # Leader
  BY <1>1, RoleAssumption DEF CountsVote
<1>3. /\ SameLog(c, l)
      /\ l.ackedLength = [p \in Node |-> IF p = self THEN Len(c.log) ELSE 0]
  <2> HIDE DEF c
  <2> QED BY <1>1, BecomeLeaderLog
<1>4. SameLog(s, f) /\ f.role = Follower
  BY BecomeFollowerLog DEF BecomeFollower, WellFormed, RaftState
<1>5. \/ HandleVoteResponse(self, s, m) \in {s, l, f}
      \/ HandleVoteResponse(self, s, m) = c /\ CountsVote(s, m)
  BY DEF HandleVoteResponse
<1> HIDE DEF c, l, f
<1> QED
  BY <1>1, <1>2, <1>3, <1>4, <1>5, RoleAssumption DEF SameLog

\* A leader commits an entry of its own term that a quorum acknowledged.
CommitsOwn(s, u) ==
    /\ s.commitLength < u.commitLength
    /\ u.commitLength \in 1 .. Len(u.log)
    /\ u.log[u.commitLength].term = u.currentTerm
    /\ Cardinality({p \in Node : u.ackedLength[p] >= u.commitLength}) >= QuorumSize

LEMMA AdvanceCommitLengthLog ==
    ASSUME NEW s, WellFormed(s)
    PROVE  LET u == AdvanceCommitLength(s)
           IN  /\ u.log = s.log /\ u.applied = s.applied /\ u.ackedLength = s.ackedLength
               /\ u.commitLength = s.commitLength \/ CommitsOwn(s, u)
<1> DEFINE k == CHOOSE k \in Committable(s) : \A j \in Committable(s) : j <= k
           u == [s EXCEPT !.commitLength = k]
<1>1. s.commitLength \in Nat /\ Len(s.log) \in Nat
  BY LenProperties DEF WellFormed, RaftState
<1>2. CASE Committable(s) = {}
  BY <1>1, <1>2 DEF AdvanceCommitLength
<1>3. CASE Committable(s) # {}
  <2>1. Committable(s) \in SUBSET (0 .. Len(s.log))
    BY <1>1 DEF Committable
  <2>2. k \in Committable(s)
    BY <2>1, <1>1, <1>3, BoundedSetHasMax
  <2>3. AdvanceCommitLength(s) = u
    BY <1>3 DEF AdvanceCommitLength
  <2> HIDE DEF k
  <2>4. /\ u.log = s.log /\ u.applied = s.applied /\ u.ackedLength = s.ackedLength
        /\ u.commitLength = k /\ u.currentTerm = s.currentTerm
    BY DEF WellFormed, RaftState
  <2> HIDE DEF u
  <2>5. /\ k \in (s.commitLength + 1) .. Len(s.log)
        /\ s.log[k].term = s.currentTerm
        /\ Cardinality({p \in Node : s.ackedLength[p] >= k}) >= QuorumSize
    BY <2>2, Zenon DEF Committable
  <2>6. s.commitLength < k /\ k \in 1 .. Len(s.log)
    BY <1>1, <2>5
  <2>7. {p \in Node : s.ackedLength[p] >= k} = {p \in Node : u.ackedLength[p] >= u.commitLength}
    BY <2>4
  <2>8. CommitsOwn(s, u)
    BY <2>4, <2>5, <2>6, <2>7 DEF CommitsOwn
  <2> QED BY <2>3, <2>4, <2>8
<1> QED BY <1>2, <1>3

LEMMA AppendCommandLog ==
    ASSUME NEW s, WellFormed(s), s.role = Leader, NEW self \in Node, NEW c \in Command
    PROVE  LET u == AppendCommand(self, s, c)
           IN  /\ u.log = Append(s.log, [command |-> c, term |-> s.currentTerm])
               /\ u.applied = s.applied
               /\ u.ackedLength = [s.ackedLength EXCEPT ![self] = Len(s.log) + 1]
               /\ u.commitLength = s.commitLength \/ CommitsOwn(s, u)
<1> DEFINE e == [command |-> c, term |-> s.currentTerm]
           length == Len(s.log) + 1
           a == [s EXCEPT !.log = Append(s.log, e),
                          !.sentLength[self] = length,
                          !.ackedLength[self] = length]
           u == AppendCommand(self, s, c)
<1>1. u = AdvanceCommitLength(a)
  BY DEF AppendCommand, WellFormed, RaftState
<1>2. /\ a.log = Append(s.log, e) /\ a.applied = s.applied
      /\ a.ackedLength = [s.ackedLength EXCEPT ![self] = length]
      /\ a.commitLength = s.commitLength
  BY DEF WellFormed, RaftState
<1>3. WellFormed(a)
  BY AppendedWellFormed
<1> HIDE DEF a, u
<1>4. /\ u.log = a.log /\ u.applied = a.applied /\ u.ackedLength = a.ackedLength
      /\ u.commitLength = a.commitLength \/ CommitsOwn(a, u)
  BY <1>1, <1>3, AdvanceCommitLengthLog
<1>5. CommitsOwn(a, u) => CommitsOwn(s, u)
  BY <1>2 DEF CommitsOwn
<1> QED BY <1>2, <1>4, <1>5 DEF u

\* A response moves the leader's lengths of its follower, and may commit.
LEMMA HandleLogResponseLog ==
    ASSUME NEW s, WellFormed(s), NEW self \in Node, NEW m \in LogResponse,
           ~LogResponseRaises(s, m)
    PROVE  LET u == HandleLogResponse(self, s, m)
           IN  /\ u.log = s.log /\ u.applied = s.applied
               /\ \/ u.commitLength = s.commitLength
                  \/ s.role = Leader /\ SameElection(s, u) /\ CommitsOwn(s, u)
               /\ u.role = Leader =>
                     /\ s.role = Leader /\ u.currentTerm = s.currentTerm
                     /\ \A p \in Node :
                           \/ u.ackedLength[p] = s.ackedLength[p]
                           \/ /\ p = m.followerId /\ m.success /\ m.term = s.currentTerm
                              /\ u.ackedLength[p] = m.acknowledgedLength
<1> DEFINE f == BecomeFollower(s, m.term, None)
           b == StepBack(s, m)
           k == m.acknowledgedLength
           a == [s EXCEPT !.sentLength[m.followerId] = k, !.ackedLength[m.followerId] = k]
           u == HandleLogResponse(self, s, m)
<1>1. SameLog(s, f) /\ f.role = Follower
  BY BecomeFollowerLog DEF BecomeFollower, WellFormed, RaftState
<1>2. SameLog(s, b) /\ b.role = s.role /\ b.currentTerm = s.currentTerm
      /\ b.ackedLength = s.ackedLength
  BY DEF StepBack, SameLog, WellFormed, RaftState
<1>3. CASE u \in {s, f, b}
  BY <1>1, <1>2, <1>3, RoleAssumption DEF SameLog
<1>4. CASE /\ s.role = Leader /\ m.term = s.currentTerm /\ m.success
           /\ u = AdvanceCommitLength(a)
  <2>1. k \in 0 .. Len(s.log) /\ m.followerId \in Node
    BY <1>4, LenProperties
    DEF LogResponseRaises, TracksResponse, LogResponse, WellFormed, RaftState
  <2>2. WellFormed(a)
    BY <1>4, <2>1, LeaderLengthsWellFormed
  <2>3. /\ SameLog(s, a) /\ a.role = s.role /\ a.currentTerm = s.currentTerm
        /\ a.ackedLength = [s.ackedLength EXCEPT ![m.followerId] = k]
    BY DEF SameLog, WellFormed, RaftState
  <2> HIDE DEF a, u
  <2>4. /\ u.log = a.log /\ u.applied = a.applied /\ u.ackedLength = a.ackedLength
        /\ u.commitLength = a.commitLength \/ CommitsOwn(a, u)
    BY <1>4, <2>2, AdvanceCommitLengthLog
  <2>5. CommitsOwn(a, u) => CommitsOwn(s, u)
    BY <2>3 DEF CommitsOwn, SameLog
  <2>6. SameElection(s, u)
    <3>1. SameElection(s, a)
      BY DEF SameElection, WellFormed, RaftState, a
    <3>2. SameElection(a, u)
      BY <1>4, <2>2, AdvanceCommitLengthElection
    <3> QED BY <3>1, <3>2, SameElectionTransitive
  <2>7. \A p \in Node : \/ u.ackedLength[p] = s.ackedLength[p]
                        \/ p = m.followerId /\ u.ackedLength[p] = k
    BY <2>3, <2>4 DEF WellFormed, RaftState
  <2> QED BY <1>4, <2>3, <2>4, <2>5, <2>6, <2>7 DEF SameLog, SameElection, u
<1> QED
  BY <1>3, <1>4 DEF HandleLogResponse, RecordAck, TracksResponse

\* Two entries are the same when their terms and commands are.
LEMMA EntryEqual ==
    ASSUME NEW a \in LogEntry, NEW b \in LogEntry, a.term = b.term, a.command = b.command
    PROVE  a = b
  BY DEF LogEntry

\* What the reconciled log holds: the old log, or its prefix and the entries.
LEMMA ReconcileLogEntries ==
    ASSUME NEW log \in Seq(LogEntry), NEW m \in LogRequest, m.prefixLength <= Len(log)
    PROVE  LET new == ReconcileLog(log, m)
           IN  \/ /\ new = log /\ Conflicts(log, m) = {}
                  /\ m.prefixLength + Len(m.entries) <= Len(log)
               \/ /\ Conflicts(log, m) # {} \/ Len(log) < m.prefixLength + Len(m.entries)
                  /\ Len(new) = m.prefixLength + Len(m.entries)
                  /\ \A k \in 1 .. m.prefixLength : new[k] = log[k]
                  /\ \A k \in (m.prefixLength + 1) .. Len(new) :
                        new[k] = m.entries[k - m.prefixLength]
<1> DEFINE p == m.prefixLength
           es == m.entries
           kept == SubSeq(log, 1, p)
<1>1. /\ Len(log) \in Nat /\ p \in Nat /\ es \in Seq(LogEntry) /\ Len(es) \in Nat
      /\ p <= Len(log)
  BY LenProperties DEF LogRequest
<1>2. CASE Conflicts(log, m) = {} /\ p + Len(es) <= Len(log)
  BY <1>2 DEF ReconcileLog
<1>3. CASE ~(Conflicts(log, m) = {} /\ p + Len(es) <= Len(log))
  <2>1. ReconcileLog(log, m) = kept \o es
    BY <1>3 DEF ReconcileLog
  <2>2. /\ kept \in Seq(LogEntry) /\ Len(kept) = p
        /\ \A k \in 1 .. p : kept[k] = log[k]
    BY <1>1, SubSeqProperties
  <2>3. Len(kept \o es) = p + Len(es)
    <3> HIDE DEF kept, es, p
    <3> QED BY <1>1, <2>2, ConcatProperties
  <2>4. \A k \in 1 .. p : (kept \o es)[k] = log[k]
    <3> HIDE DEF kept, es, p
    <3> QED BY <1>1, <2>2, ConcatProperties
  <2>5. \A k \in (p + 1) .. (p + Len(es)) : (kept \o es)[k] = es[k - p]
    <3> HIDE DEF kept, es, p
    <3> QED BY <1>1, <2>2, ConcatProperties
  <2> HIDE DEF kept
  <2> QED BY <1>1, <1>3, <2>1, <2>3, <2>4, <2>5
<1> QED BY <1>2, <1>3

\* A reconciliation that does not raise keeps every committed entry.
LEMMA ReconcileLogKeepsEntries ==
    ASSUME NEW s, WellFormed(s), NEW m \in LogRequest,
           PrefixMatches(s.log, m), ~ReconcileRaises(s, m), NEW k \in 1 .. s.commitLength
    PROVE  ReconcileLog(s.log, m)[k] = s.log[k]
<1> DEFINE log == s.log
           new == ReconcileLog(log, m)
           p == m.prefixLength
           end == p + Len(m.entries)
<1>1. /\ log \in Seq(LogEntry) /\ Len(log) \in Nat /\ s.commitLength \in Nat
      /\ s.commitLength <= Len(log) /\ p \in Nat /\ p <= Len(log)
      /\ m.entries \in Seq(LogEntry) /\ Len(m.entries) \in Nat
  BY LenProperties DEF WellFormed, RaftState, LogRequest, PrefixMatches
<1>2. s.commitLength <= Len(new)
  BY ReconcileLogKeepsCommitted
<1>3. CASE new = log
  BY <1>3
<1>4. CASE k <= p /\ new # log
  BY <1>1, <1>4, ReconcileLogEntries
<1>5. CASE p < k /\ new # log
  <2>1. Len(new) = end /\ new[k] = m.entries[k - p]
    BY <1>1, <1>2, <1>5, ReconcileLogEntries
  <2>2. k \in Overlap(log, m) /\ k - p \in 1 .. Len(m.entries)
    BY <1>1, <1>2, <1>5, <2>1 DEF Overlap
  <2>3. \A j \in Conflicts(log, m) : k < j
    <3> SUFFICES ASSUME NEW j \in Conflicts(log, m), ~ (k < j) PROVE FALSE
      BY <1>1 DEF Conflicts, Overlap
    <3>1. Conflicts(log, m) \in SUBSET Nat
      BY <1>1 DEF Conflicts, Overlap
    <3>2. PICK i \in Conflicts(log, m) : \A l \in Conflicts(log, m) : i <= l
      BY <3>1, NatSetHasMin
    <3>3. i <= s.commitLength
      BY <1>1, <3>1, <3>2
    <3>4. i \in Overlap(log, m)
      BY DEF Conflicts
    <3> QED BY <3>2, <3>3, <3>4 DEF ReconcileRaises
  <2>4. k \notin Conflicts(log, m)
    BY <2>3
  <2>5. log[k].term = m.entries[k - p].term
    BY <2>2, <2>4 DEF Conflicts
  <2>6. log[k].command = m.entries[k - p].command
    <3>1. k \in Nat
      BY <1>1
    <3>2. \A j \in Conflicts(log, m) : k <= j
      BY <1>1, <3>1, <2>3 DEF Conflicts, Overlap
    <3> QED BY <2>2, <3>2, <2>4, Zenon DEF ReconcileRaises
  <2>7. log[k] \in LogEntry /\ m.entries[k - p] \in LogEntry
    BY <1>1, <2>2, ElementOfSeq
  <2> QED BY <2>1, <2>5, <2>6, <2>7, EntryEqual
<1> QED BY <1>1, <1>3, <1>4, <1>5

LEMMA FollowLeaderTerm ==
    ASSUME NEW s, WellFormed(s), NEW m \in LogRequest, AcceptsLeader(s, m)
    PROVE  FollowLeader(s, m).currentTerm = m.term
<1>1. m.term \in Nat /\ s.currentTerm \in Nat /\ s.currentTerm <= m.term
  BY DEF AcceptsLeader, LogRequest, WellFormed, RaftState
<1>2. BecomeFollower(s, m.term, m.leaderId).currentTerm = m.term
  BY DEF BecomeFollower, WellFormed, RaftState
<1>3. [s EXCEPT !.leaderId = m.leaderId].currentTerm = s.currentTerm
  BY DEF WellFormed, RaftState
<1> QED
  BY <1>1, <1>2, <1>3 DEF FollowLeader

LEMMA AcceptEntriesLog ==
    ASSUME NEW s, WellFormed(s), NEW m \in LogRequest
    PROVE  LET u == AcceptEntries(s, m)
           IN  /\ u.log = ReconcileLog(s.log, m) /\ u.applied = s.applied
               /\ u.role = s.role /\ u.currentTerm = s.currentTerm
               /\ u.commitLength \in Nat
               /\ \/ u.commitLength = s.commitLength
                  \/ /\ s.commitLength < u.commitLength
                     /\ u.commitLength <= m.leaderCommit
                     /\ u.commitLength <= m.prefixLength + Len(m.entries)
<1> DEFINE end == m.prefixLength + Len(m.entries)
           vouched == IF m.leaderCommit < end THEN m.leaderCommit ELSE end
           commit == IF vouched > s.commitLength THEN vouched ELSE s.commitLength
           log == ReconcileLog(s.log, m)
<1>1. /\ m.leaderCommit \in Nat /\ end \in Nat /\ s.commitLength \in Nat
  BY LenProperties DEF WellFormed, RaftState, LogRequest
<1>2. /\ commit \in Nat
      /\ \/ commit = s.commitLength
         \/ s.commitLength < commit /\ commit <= m.leaderCommit /\ commit <= end
  <2> HIDE DEF end
  <2> QED BY <1>1
<1>3. AcceptEntries(s, m) = [s EXCEPT !.log = log, !.commitLength = commit]
  BY DEF AcceptEntries, WellFormed, RaftState
<1> HIDE DEF commit, log
<1>4. LET u == AcceptEntries(s, m)
      IN  /\ u.log = log /\ u.applied = s.applied /\ u.commitLength = commit
          /\ u.role = s.role /\ u.currentTerm = s.currentTerm
  BY <1>3 DEF WellFormed, RaftState
<1> QED
  BY <1>2, <1>4 DEF log

\* handle_log_request refuses and leaves the log, or reconciles it and raises
\* commit_length as far as the leader has committed and the entries reach.
LEMMA HandleLogRequestLog ==
    ASSUME NEW s, WellFormed(s), NEW self \in Node, NEW m \in LogRequest,
           ~LogRequestRaises(s, m)
    PROVE  LET u == HandleLogRequest(self, s, m).state
               r == HandleLogRequest(self, s, m).response
           IN  /\ KeepsCommitted(s, u)
               /\ u.role = Leader => u = s
               /\ \/ r.success = FALSE /\ SameLog(s, u)
                  \/ /\ r.success = TRUE /\ AcceptsLeader(s, m) /\ PrefixMatches(s.log, m)
                     /\ u.currentTerm = m.term /\ u.role = Follower
                     /\ r.acknowledgedLength = m.prefixLength + Len(m.entries)
                     /\ u.log = ReconcileLog(s.log, m)
                     /\ \/ u.commitLength = s.commitLength
                        \/ /\ s.commitLength < u.commitLength
                           /\ u.commitLength <= m.leaderCommit
                           /\ u.commitLength <= m.prefixLength + Len(m.entries)
<1> DEFINE f == IF AcceptsLeader(s, m) THEN FollowLeader(s, m) ELSE s
           success == AcceptsLeader(s, m) /\ PrefixMatches(s.log, m)
           u == HandleLogRequest(self, s, m).state
           r == HandleLogRequest(self, s, m).response
           a == AcceptEntries(f, m)
<1>1. WellFormed(f) /\ SameLog(s, f) /\ (f.role = Follower \/ f = s)
  BY FollowLeaderWellFormed DEF SameLog
<1>2. /\ u = IF success THEN a ELSE f
      /\ r.success = success
      /\ r.acknowledgedLength = IF success THEN m.prefixLength + Len(m.entries) ELSE 0
  BY DEF HandleLogRequest
<1>3. s.commitLength \in Nat
  BY DEF WellFormed, RaftState
<1>4. CASE ~success
  <2>1. u = f /\ r.success = FALSE
    BY <1>2, <1>4
  <2> HIDE DEF u, r, f
  <2>2. KeepsCommitted(s, u) /\ SameLog(s, u) /\ (u.role = Leader => u = s)
    BY <1>1, <2>1, SameLogKeepsCommitted, RoleAssumption
  <2> QED BY <2>1, <2>2 DEF u, r
<1>5. CASE success
  <2>1. f = FollowLeader(s, m) /\ f.role = Follower /\ f.currentTerm = m.term
    BY <1>5, FollowLeaderWellFormed, FollowLeaderTerm
  <2>2. u = a /\ r.success = TRUE /\ r.acknowledgedLength = m.prefixLength + Len(m.entries)
    BY <1>2, <1>5
  <2> HIDE DEF f, u, r
  <2>3. /\ a.log = ReconcileLog(s.log, m) /\ a.applied = s.applied
        /\ a.role = Follower /\ a.currentTerm = m.term /\ a.commitLength \in Nat
        /\ \/ a.commitLength = s.commitLength
           \/ /\ s.commitLength < a.commitLength
              /\ a.commitLength <= m.leaderCommit
              /\ a.commitLength <= m.prefixLength + Len(m.entries)
    BY <1>1, <2>1, AcceptEntriesLog DEF SameLog
  <2> HIDE DEF a
  <2>4. ~ReconcileRaises(s, m)
    BY <1>5 DEF LogRequestRaises
  <2>5. \A k \in 1 .. s.commitLength : a.log[k] = s.log[k]
    BY <1>5, <2>3, <2>4, ReconcileLogKeepsEntries
  <2>6. s.commitLength <= a.commitLength
    BY <1>3, <2>3
  <2>7. KeepsCommitted(s, a)
    BY <2>3, <2>5, <2>6 DEF KeepsCommitted
  <2> QED BY <1>5, <2>2, <2>3, <2>7, RoleAssumption DEF u, r
<1> QED BY <1>4, <1>5

-----------------------------------------------------------------------------
(* What a node has applied.                                                *)

AppliedMatches(s) ==
    /\ Len(s.applied) = s.commitLength
    /\ \A k \in 1 .. s.commitLength : s.applied[k] = s.log[k].command

\* _apply_committed_entries catches up with the commands of the log.
LEMMA ApplyCommittedEntriesLog ==
    ASSUME NEW s, WellFormed(s)
    PROVE  LET u == ApplyCommittedEntries(s)
           IN  /\ u.log = s.log /\ u.commitLength = s.commitLength
               /\ u.ackedLength = s.ackedLength
               /\ (\A k \in 1 .. Len(s.applied) : s.applied[k] = s.log[k].command)
                     => AppliedMatches(u)
<1> DEFINE count == s.commitLength - Len(s.applied)
           news == [i \in 1 .. count |-> s.log[Len(s.applied) + i].command]
           u == ApplyCommittedEntries(s)
<1>1. /\ s.commitLength \in Nat /\ Len(s.applied) \in Nat /\ Len(s.log) \in Nat
      /\ Len(s.applied) <= s.commitLength /\ s.commitLength <= Len(s.log)
      /\ s.log \in Seq(LogEntry) /\ s.applied \in Seq(Command)
  BY LenProperties DEF WellFormed, RaftState
<1>2. /\ u.log = s.log /\ u.commitLength = s.commitLength /\ u.ackedLength = s.ackedLength
      /\ u.applied = s.applied \o news
  BY DEF ApplyCommittedEntries, WellFormed, RaftState
<1>3. count \in Nat
  BY <1>1
<1>4. news \in Seq(Command) /\ Len(news) = count
  <2> HIDE DEF count
  <2>1. \A i \in 1 .. count : s.log[Len(s.applied) + i] \in LogEntry
    BY <1>1, ElementOfSeq DEF count
  <2>2. \A i \in 1 .. count : s.log[Len(s.applied) + i].command \in Command
    BY <2>1 DEF LogEntry
  <2> QED BY <1>3, <2>2
<1>5. /\ Len(s.applied \o news) = Len(s.applied) + count
      /\ \A k \in 1 .. (Len(s.applied) + count) :
            (s.applied \o news)[k] = IF k <= Len(s.applied) THEN s.applied[k]
                                     ELSE news[k - Len(s.applied)]
  <2> HIDE DEF count, news
  <2> QED BY <1>1, <1>4, ConcatProperties
<1>6. Len(s.applied) + count = s.commitLength
  BY <1>1
<1>7. \A k \in 1 .. s.commitLength : ~(k <= Len(s.applied))
          => news[k - Len(s.applied)] = s.log[k].command
  <2> SUFFICES ASSUME NEW k \in 1 .. s.commitLength, ~(k <= Len(s.applied))
               PROVE  news[k - Len(s.applied)] = s.log[k].command
    OBVIOUS
  <2>1. k - Len(s.applied) \in 1 .. count /\ Len(s.applied) + (k - Len(s.applied)) = k
    BY <1>1
  <2> HIDE DEF count
  <2> QED BY <2>1
<1> HIDE DEF news, count, u
<1>8. ASSUME \A k \in 1 .. Len(s.applied) : s.applied[k] = s.log[k].command
      PROVE  AppliedMatches(u)
  <2> SUFFICES ASSUME NEW k \in 1 .. s.commitLength PROVE u.applied[k] = s.log[k].command
    BY <1>2, <1>5, <1>6 DEF AppliedMatches
  <2>1. CASE k <= Len(s.applied)
    <3>1. k \in 1 .. Len(s.applied)
      BY <1>1, <2>1
    <3> QED BY <1>2, <1>5, <1>6, <1>8, <2>1, <3>1
  <2>2. CASE ~(k <= Len(s.applied))
    BY <1>2, <1>5, <1>6, <1>7, <2>2
  <2> QED BY <2>1, <2>2
<1> QED BY <1>2, <1>8 DEF u

\* Together: applying after a handler that keeps what is committed.
LEMMA AppliedAfter ==
    ASSUME NEW s, WellFormed(s), NEW h, WellFormed(h), KeepsCommitted(s, h)
    PROVE  AppliedMatches(s) => AppliedMatches(ApplyCommittedEntries(h))
<1> SUFFICES ASSUME AppliedMatches(s) PROVE AppliedMatches(ApplyCommittedEntries(h))
  OBVIOUS
<1>1. \A k \in 1 .. Len(h.applied) : h.applied[k] = h.log[k].command
  BY DEF AppliedMatches, KeepsCommitted
<1> QED BY <1>1, ApplyCommittedEntriesLog

-----------------------------------------------------------------------------
(* A step of the cluster, as its logs see it: one node n goes from s to u. *)

\* u follows the request m, whose entries its log takes over.
Reconciles(s, u, m) ==
    /\ m \in LogRequest /\ s.currentTerm <= m.term /\ PrefixMatches(s.log, m)
    /\ u.log = ReconcileLog(s.log, m) /\ u.currentTerm = m.term /\ u.role = Follower

\* The log stays, gets a command at its leader, or is reconciled.
LogMoves(s, u) ==
    \/ u.log = s.log
    \/ /\ s.role = Leader /\ SameElection(s, u)
       /\ \E c \in Command : u.log = Append(s.log, [command |-> c, term |-> s.currentTerm])
    \/ \E m \in Replications : Reconciles(s, u, m)

\* commit_length stays, or a leader or a leader's request raises it.
CommitMoves(s, u) ==
    \/ u.commitLength = s.commitLength
    \/ s.role = Leader /\ SameElection(s, u) /\ CommitsOwn(s, u)
    \/ /\ s.commitLength < u.commitLength
       /\ \E m \in Replications :
             /\ Reconciles(s, u, m) /\ u.commitLength <= m.leaderCommit
             /\ u.commitLength <= m.prefixLength + Len(m.entries)

\* Only a node that was not candidate in the term becomes so, and only a
\* candidate becomes leader; neither changes the log.
RoleMoves(n, s, u) ==
    /\ u.role = Candidate =>
          u.log = s.log /\ (s.currentTerm < u.currentTerm \/ s.role = Candidate)
    /\ u.role = Leader =>
          \/ SameElection(s, u)
          \/ /\ u.log = s.log /\ u.leaderId = n
             /\ s.currentTerm < u.currentTerm \/ s.role = Candidate

\* What a leader counts as acknowledged.
AckMoves(n, s, u) ==
    u.role = Leader => \A p \in Node :
        \/ p = n \/ u.ackedLength[p] = 0
        \/ s.role = Leader /\ SameElection(s, u) /\ u.ackedLength[p] = s.ackedLength[p]
        \/ \E m \in Sent("LogResponse") :
              /\ m.success /\ m.followerId = p /\ m.term = u.currentTerm
              /\ u.ackedLength[p] = m.acknowledgedLength

\* What a new message says of its sender.
Says(n, s, u, m) ==
    /\ m.type = "VoteRequest" =>
          /\ m.candidateId = n /\ m.term = u.currentTerm /\ s.currentTerm < u.currentTerm
          /\ m.logLength = Len(s.log) /\ m.lastLogTerm = LastLogTerm(s)
    /\ m.type = "VoteResponse" /\ m.granted =>
          /\ m.voterId = n /\ m.term = u.currentTerm
          /\ \E r \in Elections :
                r.candidateId = m.to /\ r.term = m.term /\ LogIsCurrent(s, r)
    /\ m.type = "LogRequest" =>
          /\ s.role = Leader /\ u = s /\ m.leaderId = n
          /\ \E p \in Node : m = MakeLogRequest(n, s, p)
    /\ m.type = "LogResponse" /\ m.success =>
          /\ m.followerId = n /\ m.term = u.currentTerm
          /\ \E r \in Replications :
                Reconciles(s, u, r) /\ m.acknowledgedLength = r.prefixLength + Len(r.entries)

NodeStep(n, u) ==
    LET s == node[n]
    IN  /\ node' = [node EXCEPT ![n] = u] /\ WellFormed(u) /\ KeepsVotes(s, u)
        /\ \A k \in 1 .. s.commitLength : u.log[k] = s.log[k]
        /\ AppliedMatches(s) => AppliedMatches(u)
        /\ LogMoves(s, u) /\ CommitMoves(s, u)
        /\ RoleMoves(n, s, u) /\ AckMoves(n, s, u)
        /\ msgs \subseteq msgs' /\ \A m \in msgs' \ msgs : Says(n, s, u, m)

\* A step that leaves log and commit_length.
LEMMA SameLogStep ==
    ASSUME NEW s, WellFormed(s), NEW u, SameLog(s, u)
    PROVE  /\ \A k \in 1 .. s.commitLength : u.log[k] = s.log[k]
           /\ AppliedMatches(s) => AppliedMatches(u)
           /\ LogMoves(s, u) /\ CommitMoves(s, u)
  BY DEF SameLog, AppliedMatches, LogMoves, CommitMoves

LEMMA StepIsNodeStep ==
    ASSUME TypeInv, [Next]_vars, ~UNCHANGED vars
    PROVE  \E n \in Node : \E u : NodeStep(n, u)
<1>0. /\ \A n \in Node : WellFormed(node[n])
      /\ node \in [Node -> RaftState] /\ msgs \subseteq Message
  BY DEF TypeInv, TypeOK
<1>1. ASSUME NEW n \in Node, StartElectionRound(n) PROVE \E u : NodeStep(n, u)
  <2> DEFINE s == node[n]
             r == StartElection(n, node[n]).request
             u == StartElection(n, node[n]).state
  <2>1. node' = [node EXCEPT ![n] = u] /\ msgs' = msgs \cup {r}
    BY <1>1 DEF StartElectionRound
  <2>2. WellFormed(s) /\ WellFormed(u)
    BY <1>0, StartElectionWellFormed
  <2>3. /\ KeepsVotes(s, u)
        /\ u.currentTerm = s.currentTerm + 1
        /\ u.role # Leader \/ u.leaderId = n
        /\ r.type = "VoteRequest" /\ r.candidateId = n /\ r.term = u.currentTerm
    BY <2>2, StartElectionElection, RoleAssumption
  <2>4. /\ SameLog(s, u)
        /\ r.logLength = Len(s.log) /\ r.lastLogTerm = LastLogTerm(s)
        /\ u.role = Leader => u.ackedLength =
              [p \in Node |-> IF p = n THEN Len(s.log) ELSE 0]
    BY <2>2, StartElectionLog
  <2>5. s.currentTerm < u.currentTerm
    BY <2>2, <2>3 DEF WellFormed, RaftState
  <2> HIDE DEF r, u, s
  <2>6. RoleMoves(n, s, u) /\ AckMoves(n, s, u)
    BY <2>3, <2>4, <2>5 DEF RoleMoves, AckMoves, SameLog
  <2>7. Says(n, s, u, r)
    BY <2>3, <2>4, <2>5 DEF Says
  <2>8. NodeStep(n, u)
    BY <2>1, <2>2, <2>3, <2>4, <2>6, <2>7, SameLogStep DEF NodeStep, s
  <2> QED BY <2>8
<1>2. ASSUME NEW n \in Node, NEW m \in Sent("VoteRequest"), ReceiveVoteRequest(n, m)
      PROVE  \E u : NodeStep(n, u)
  <2> DEFINE s == node[n]
             r == HandleVoteRequest(n, node[n], m).response
             u == HandleVoteRequest(n, node[n], m).state
  <2>1. node' = [node EXCEPT ![n] = u] /\ msgs' = msgs \cup {r}
    BY <1>2 DEF ReceiveVoteRequest
  <2>2. WellFormed(s) /\ m \in VoteRequest /\ WellFormed(u)
    BY <1>0, SentType, HandleVoteRequestWellFormed DEF TypeInv
  <2>3. /\ KeepsVotes(s, u)
        /\ SameElection(s, u) \/ u.role = Follower
        /\ r.type = "VoteResponse" /\ r.voterId = n /\ r.term = u.currentTerm
        /\ r.to = m.candidateId
    BY <2>2, HandleVoteRequestElection
  <2>4. /\ SameLog(s, u)
        /\ u.role = Leader => u = s
        /\ r.granted => /\ m.candidateId \in Node /\ m.term = u.currentTerm
                        /\ LogIsCurrent(s, m)
    BY <2>2, HandleVoteRequestLog
  <2> HIDE DEF r, u, s
  <2>6. RoleMoves(n, s, u) /\ AckMoves(n, s, u)
    BY <2>3, <2>4, RoleAssumption DEF RoleMoves, AckMoves, SameLog, SameElection
  <2>7. Says(n, s, u, r)
    <3>1. m.candidateId \in Node => m \in Elections
      BY DEF Elections
    <3> QED BY <2>3, <2>4, <3>1 DEF Says
  <2>8. NodeStep(n, u)
    BY <2>1, <2>2, <2>3, <2>4, <2>6, <2>7, SameLogStep DEF NodeStep, s
  <2> QED BY <2>8
<1>3. ASSUME NEW n \in Node, NEW m \in Sent("VoteResponse"), VoteResponseArrives(n, m)
      PROVE  \E u : NodeStep(n, u)
  <2> DEFINE s == node[n]
             u == HandleVoteResponse(n, node[n], m)
  <2>1. node' = [node EXCEPT ![n] = u] /\ msgs' = msgs
    BY <1>0, <1>3 DEF VoteResponseArrives
  <2>2. WellFormed(s) /\ m \in VoteResponse /\ WellFormed(u)
    BY <1>0, SentType, HandleVoteResponseWellFormed DEF TypeInv
  <2>3. /\ KeepsVotes(s, u)
        /\ \/ SameElection(s, u)
           \/ u.role = Follower
           \/ s.role = Candidate /\ (u.role = Candidate \/ (u.role = Leader /\ u.leaderId = n))
    BY <2>2, HandleVoteResponseElection DEF CountsVote
  <2>4. /\ SameLog(s, u)
        /\ u.role = Leader => u = s \/
              u.ackedLength = [p \in Node |-> IF p = n THEN Len(s.log) ELSE 0]
    BY <2>2, HandleVoteResponseLog
  <2> HIDE DEF u, s
  <2>5. RoleMoves(n, s, u) /\ AckMoves(n, s, u)
    BY <2>3, <2>4, RoleAssumption DEF RoleMoves, AckMoves, SameLog, SameElection
  <2>6. NodeStep(n, u)
    BY <2>1, <2>2, <2>3, <2>4, <2>5, SameLogStep DEF NodeStep, s
  <2> QED BY <2>6
<1>4. ASSUME NEW n \in Node, NEW c \in Command, SubmitCommand(n, c) PROVE \E u : NodeStep(n, u)
  <2> DEFINE s == node[n]
             h == AppendCommand(n, s, c)
             u == ApplyCommittedEntries(h)
             e == [command |-> c, term |-> s.currentTerm]
  <2>1. node' = [node EXCEPT ![n] = u] /\ msgs' = msgs /\ s.role = Leader
    BY <1>0, <1>4 DEF SubmitCommand
  <2>2. WellFormed(s) /\ WellFormed(h) /\ SameElection(s, h)
    BY <1>0, <2>1, AppendCommandWellFormed, AppendCommandElection
  <2>3. /\ h.log = Append(s.log, e) /\ h.applied = s.applied
        /\ h.ackedLength = [s.ackedLength EXCEPT ![n] = Len(s.log) + 1]
        /\ h.commitLength = s.commitLength \/ CommitsOwn(s, h)
    <3> HIDE DEF s
    <3> QED BY <2>1, <2>2, AppendCommandLog
  <2>4. s.log \in Seq(LogEntry) /\ s.commitLength \in 0 .. Len(s.log) /\ Len(s.log) \in Nat
    BY <2>2, LenProperties DEF WellFormed, RaftState
  <2> HIDE DEF h, e
  <2>5. WellFormed(u) /\ SameElection(h, u)
    BY <2>2, ApplyCommittedEntriesWellFormed, ApplyCommittedEntriesElection
  <2>6. /\ u.log = h.log /\ u.commitLength = h.commitLength /\ u.ackedLength = h.ackedLength
    BY <2>2, ApplyCommittedEntriesLog
  <2>7. \A k \in 1 .. s.commitLength : h.log[k] = s.log[k]
    <3> HIDE DEF s
    <3> QED BY <2>3, <2>4
  <2>8. KeepsCommitted(s, h)
    BY <2>3, <2>4, <2>7 DEF KeepsCommitted, CommitsOwn
  <2>9. AppliedMatches(s) => AppliedMatches(u)
    BY <2>2, <2>8, AppliedAfter
  <2> HIDE DEF u
  <2>10. SameElection(s, u) /\ KeepsVotes(s, u)
    BY <2>2, <2>5, SameElectionTransitive, SameElectionKeepsVotes
  <2>11. LogMoves(s, u) /\ CommitMoves(s, u)
    <3>1. CommitsOwn(s, h) => CommitsOwn(s, u)
      BY <2>5, <2>6 DEF CommitsOwn, SameElection
    <3> QED BY <2>1, <2>3, <2>6, <2>10, <3>1 DEF LogMoves, CommitMoves, e
  <2>12. RoleMoves(n, s, u) /\ AckMoves(n, s, u)
    <3>1. \A p \in Node : p # n => u.ackedLength[p] = s.ackedLength[p]
      BY <2>2, <2>3, <2>6 DEF WellFormed, RaftState
    <3> QED BY <2>1, <2>10, <3>1, RoleAssumption DEF RoleMoves, AckMoves, SameElection
  <2>13. NodeStep(n, u)
    BY <2>1, <2>5, <2>6, <2>7, <2>9, <2>10, <2>11, <2>12 DEF NodeStep
  <2> QED BY <2>13
<1>5. ASSUME NEW n \in Node, NEW p \in Node, SendLogRequest(n, p) PROVE \E u : NodeStep(n, u)
  <2> DEFINE s == node[n]
             r == MakeLogRequest(n, node[n], p)
  <2>1. node' = [node EXCEPT ![n] = s] /\ msgs' = msgs \cup {r} /\ s.role = Leader
    BY <1>0, <1>5 DEF SendLogRequest
  <2>2. WellFormed(s) /\ SameElection(s, s) /\ SameLog(s, s)
    BY <1>0 DEF SameElection, SameLog
  <2>3. KeepsVotes(s, s)
    BY <2>2, SameElectionKeepsVotes
  <2>4. r.type = "LogRequest" /\ r.leaderId = n /\ r = MakeLogRequest(n, s, p)
    BY DEF MakeLogRequest
  <2> HIDE DEF s, r
  <2>5. RoleMoves(n, s, s) /\ AckMoves(n, s, s)
    BY <2>1, <2>2, RoleAssumption DEF RoleMoves, AckMoves
  <2>6. Says(n, s, s, r)
    BY <2>1, <2>4 DEF Says
  <2>7. NodeStep(n, s)
    BY <2>1, <2>2, <2>3, <2>5, <2>6, SameLogStep DEF NodeStep, s
  <2> QED BY <2>7
<1>6. ASSUME NEW n \in Node, NEW m \in Sent("LogRequest"), ReceiveLogRequest(n, m)
      PROVE  \E u : NodeStep(n, u)
  <2> DEFINE s == node[n]
             r == HandleLogRequest(n, node[n], m).response
             h == HandleLogRequest(n, node[n], m).state
             u == ApplyCommittedEntries(h)
  <2>1. /\ node' = [node EXCEPT ![n] = u] /\ msgs' = msgs \cup {r}
        /\ ~LogRequestRaises(s, m) /\ m \in LogRequest
    BY <1>6, SentType DEF ReceiveLogRequest, TypeInv
  <2>2. WellFormed(s) /\ WellFormed(h)
    BY <1>0, <2>1, HandleLogRequestWellFormed
  <2>3. /\ KeepsVotes(s, h)
        /\ SameElection(s, h) \/ h.role = Follower
        /\ r.type = "LogResponse" /\ r.followerId = n /\ r.term = h.currentTerm
    BY <2>2, <2>1, HandleLogRequestElection
  <2>4. /\ KeepsCommitted(s, h)
        /\ h.role = Leader => h = s
        /\ \/ r.success = FALSE /\ SameLog(s, h)
           \/ /\ r.success = TRUE /\ AcceptsLeader(s, m) /\ PrefixMatches(s.log, m)
              /\ h.currentTerm = m.term /\ h.role = Follower
              /\ r.acknowledgedLength = m.prefixLength + Len(m.entries)
              /\ h.log = ReconcileLog(s.log, m)
              /\ \/ h.commitLength = s.commitLength
                 \/ /\ s.commitLength < h.commitLength
                    /\ h.commitLength <= m.leaderCommit
                    /\ h.commitLength <= m.prefixLength + Len(m.entries)
    BY <2>2, <2>1, HandleLogRequestLog
  <2>5. h.role = Leader => h.ackedLength = s.ackedLength
    BY <2>4
  <2> HIDE DEF h, r
  <2>6. WellFormed(u) /\ SameElection(h, u)
    BY <2>2, ApplyCommittedEntriesWellFormed, ApplyCommittedEntriesElection
  <2>7. /\ u.log = h.log /\ u.commitLength = h.commitLength /\ u.ackedLength = h.ackedLength
    BY <2>2, ApplyCommittedEntriesLog
  <2>8. AppliedMatches(s) => AppliedMatches(u)
    BY <2>2, <2>4, AppliedAfter
  <2> HIDE DEF u, s
  <2>9. \A k \in 1 .. s.commitLength : u.log[k] = s.log[k]
    BY <2>4, <2>7 DEF KeepsCommitted
  <2>10. KeepsVotes(s, u) /\ (SameElection(s, u) \/ u.role = Follower)
    BY <2>3, <2>6 DEF SameElection, KeepsVotes
  <2>11. r.success => m \in Replications /\ Reconciles(s, u, m)
    <3>1. r.success => AcceptsLeader(s, m) /\ s.currentTerm <= m.term
      BY <2>1, <2>2, <2>4 DEF AcceptsLeader, LogRequest, WellFormed, RaftState
    <3> QED BY <2>1, <2>4, <2>6, <2>7, <3>1
      DEF Reconciles, SameElection, AcceptsLeader, Replications
  <2>12. LogMoves(s, u) /\ CommitMoves(s, u)
    BY <2>4, <2>7, <2>11 DEF LogMoves, CommitMoves, SameLog
  <2>13. RoleMoves(n, s, u)
    <3>1. u.role # Follower => ~r.success
      BY <2>11 DEF Reconciles
    <3> QED BY <2>4, <2>7, <2>10, <3>1, RoleAssumption
      DEF RoleMoves, SameElection, SameLog
  <2>14. AckMoves(n, s, u)
    BY <2>5, <2>6, <2>7, <2>10, RoleAssumption DEF AckMoves, SameElection
  <2>15. Says(n, s, u, r)
    BY <2>3, <2>4, <2>6, <2>11 DEF Says, SameElection
  <2>16. NodeStep(n, u)
    BY <2>1, <2>6, <2>8, <2>9, <2>10, <2>12, <2>13, <2>14, <2>15 DEF NodeStep, s
  <2> QED BY <2>16
<1>7. ASSUME NEW n \in Node, NEW m \in Sent("LogResponse"), LogResponseArrives(n, m)
      PROVE  \E u : NodeStep(n, u)
  <2> DEFINE s == node[n]
             h == HandleLogResponse(n, node[n], m)
             u == ApplyCommittedEntries(h)
  <2>1. /\ node' = [node EXCEPT ![n] = u] /\ msgs' = msgs
        /\ ~LogResponseRaises(s, m) /\ m \in LogResponse
    BY <1>0, <1>7, SentType DEF LogResponseArrives, TypeInv
  <2>2. WellFormed(s) /\ WellFormed(h)
    BY <1>0, <2>1, HandleLogResponseWellFormed
  <2>3. KeepsVotes(s, h) /\ (SameElection(s, h) \/ h.role = Follower)
    BY <2>2, <2>1, HandleLogResponseElection
  <2>4. /\ h.log = s.log /\ h.applied = s.applied
        /\ \/ h.commitLength = s.commitLength
           \/ s.role = Leader /\ SameElection(s, h) /\ CommitsOwn(s, h)
        /\ h.role = Leader =>
              /\ s.role = Leader /\ h.currentTerm = s.currentTerm
              /\ \A p \in Node :
                    \/ h.ackedLength[p] = s.ackedLength[p]
                    \/ /\ p = m.followerId /\ m.success /\ m.term = s.currentTerm
                       /\ h.ackedLength[p] = m.acknowledgedLength
    BY <2>2, <2>1, HandleLogResponseLog
  <2> HIDE DEF h
  <2>6. WellFormed(u) /\ SameElection(h, u)
    BY <2>2, ApplyCommittedEntriesWellFormed, ApplyCommittedEntriesElection
  <2>7. /\ u.log = h.log /\ u.commitLength = h.commitLength /\ u.ackedLength = h.ackedLength
    BY <2>2, ApplyCommittedEntriesLog
  <2>8. KeepsCommitted(s, h)
    BY <2>2, <2>4 DEF KeepsCommitted, CommitsOwn, WellFormed, RaftState
  <2>9. AppliedMatches(s) => AppliedMatches(u)
    BY <2>2, <2>8, AppliedAfter
  <2> HIDE DEF u, s
  <2>10. KeepsVotes(s, u) /\ (SameElection(s, u) \/ u.role = Follower)
    BY <2>3, <2>6 DEF SameElection, KeepsVotes
  <2>11. LogMoves(s, u) /\ CommitMoves(s, u)
    <3>1. CommitsOwn(s, h) /\ SameElection(s, h) => CommitsOwn(s, u) /\ SameElection(s, u)
      BY <2>6, <2>7 DEF CommitsOwn, SameElection
    <3> QED BY <2>4, <2>7, <3>1 DEF LogMoves, CommitMoves
  <2>12. RoleMoves(n, s, u)
    BY <2>4, <2>7, <2>10, RoleAssumption DEF RoleMoves, SameElection
  <2>13. AckMoves(n, s, u)
    BY <2>4, <2>6, <2>7, <2>10, RoleAssumption DEF AckMoves, SameElection
  <2>14. NodeStep(n, u)
    BY <2>1, <2>4, <2>6, <2>7, <2>9, <2>10, <2>11, <2>12, <2>13 DEF NodeStep, s
  <2> QED BY <2>14
<1> QED
  BY <1>1, <1>2, <1>3, <1>4, <1>5, <1>6, <1>7 DEF Next

\* What a node step says of every node.
LEMMA NodeStepNodes ==
    ASSUME TypeInv, NEW n \in Node, NEW u, NodeStep(n, u)
    PROVE  \A p \in Node : node'[p] = IF p = n THEN u ELSE node[p]
  BY DEF NodeStep, TypeInv, TypeOK

-----------------------------------------------------------------------------
(* Committed and applied entries stay.                                     *)

LEMMA PrefixEqual ==
    ASSUME NEW a \in Seq(LogEntry), NEW b \in Seq(LogEntry), NEW k \in Nat,
           k <= Len(a), k <= Len(b), \A j \in 1 .. k : a[j] = b[j]
    PROVE  Prefix(a, k) = Prefix(b, k)
<1>1. /\ Prefix(a, k) \in Seq(LogEntry) /\ Len(Prefix(a, k)) = k
      /\ \A j \in 1 .. k : Prefix(a, k)[j] = a[j]
  BY SubSeqProperties, LenProperties DEF Prefix
<1>2. /\ Prefix(b, k) \in Seq(LogEntry) /\ Len(Prefix(b, k)) = k
      /\ \A j \in 1 .. k : Prefix(b, k)[j] = b[j]
  BY SubSeqProperties, LenProperties DEF Prefix
<1> QED BY <1>1, <1>2, SeqEqual

LEMMA CommitMovesUp ==
    ASSUME NEW s, WellFormed(s), NEW u, WellFormed(u), CommitMoves(s, u)
    PROVE  s.commitLength <= u.commitLength
<1>1. s.commitLength \in Nat /\ u.commitLength \in Nat
  BY DEF WellFormed, RaftState
<1> QED BY <1>1 DEF CommitMoves, CommitsOwn

LEMMA CommittedKept ==
    ASSUME TypeInv, TypeInv', [Next]_vars, NEW p \in Node
    PROVE  /\ node[p].commitLength <= node'[p].commitLength
           /\ \A k \in 1 .. node[p].commitLength : node'[p].log[k] = node[p].log[k]
<1>0. WellFormed(node[p]) /\ WellFormed(node'[p])
  BY DEF TypeInv, WellFormed
<1>1. CASE node'[p] = node[p]
  BY <1>0, <1>1 DEF WellFormed, RaftState
<1>2. CASE node'[p] # node[p]
  <2>1. PICK n \in Node : \E u : NodeStep(n, u)
    BY <1>2, StepIsNodeStep DEF vars
  <2>2. PICK u : NodeStep(n, u)
    BY <2>1
  <2>3. p = n /\ node'[p] = u
    BY <1>2, <2>2, NodeStepNodes
  <2> QED BY <1>0, <2>2, <2>3, CommitMovesUp DEF NodeStep
<1> QED BY <1>1, <1>2

\* No step of any node takes a committed entry back: neither truncation nor a
\* request of a deposed leader (_reconcile_log, handle_log_request).
THEOREM CommittedStays == Spec => CommittedNeverLost
<1>1. ASSUME TypeInv, TypeInv', [Next]_vars, NEW p \in Node
      PROVE  /\ node[p].commitLength <= node'[p].commitLength
             /\ Prefix(node'[p].log, node[p].commitLength) = Committed(node[p])
  <2>1. /\ node[p].commitLength <= node'[p].commitLength
        /\ \A k \in 1 .. node[p].commitLength : node'[p].log[k] = node[p].log[k]
    BY <1>1, CommittedKept
  <2>2. /\ node[p].commitLength \in Nat /\ node[p].commitLength <= Len(node[p].log)
        /\ node'[p].commitLength <= Len(node'[p].log) /\ node'[p].commitLength \in Nat
        /\ node[p].log \in Seq(LogEntry) /\ node'[p].log \in Seq(LogEntry)
        /\ Len(node'[p].log) \in Nat
    BY <1>1, LenProperties DEF TypeInv, WellFormed, RaftState
  <2>3. node[p].commitLength <= Len(node'[p].log)
    BY <2>1, <2>2
  <2> QED BY <2>1, <2>2, <2>3, PrefixEqual DEF Committed
<1>2. TypeInv /\ TypeInv' /\ [Next]_vars =>
          [\A n \in Node :
             /\ node[n].commitLength <= node'[n].commitLength
             /\ Prefix(node'[n].log, node[n].commitLength) = Committed(node[n])]_vars
  BY <1>1
<1> QED
  BY <1>2, TypeInvariance, PTL DEF Spec, CommittedNeverLost

\* What a node has applied is what its log holds up to commit_length
\* (_apply_committed_entries after every handler).
THEOREM AppliedStays == Spec => []AppliedIsCommitted
<1>1. Init => AppliedIsCommitted
  BY DEF Init, FreshState, AppliedIsCommitted
<1>2. ASSUME TypeInv, AppliedIsCommitted, [Next]_vars, NEW p \in Node
      PROVE  AppliedMatches(node'[p])
  <2>1. CASE node'[p] = node[p]
    BY <1>2, <2>1 DEF AppliedIsCommitted, AppliedMatches
  <2>2. CASE node'[p] # node[p]
    <3>1. PICK n \in Node : \E u : NodeStep(n, u)
      BY <1>2, <2>2, StepIsNodeStep DEF vars
    <3>2. PICK u : NodeStep(n, u)
      BY <3>1
    <3>3. p = n /\ node'[p] = u
      BY <1>2, <2>2, <3>2, NodeStepNodes
    <3> QED BY <1>2, <3>2, <3>3 DEF NodeStep, AppliedIsCommitted, AppliedMatches
  <2> QED BY <2>1, <2>2
<1>3. TypeInv /\ AppliedIsCommitted /\ [Next]_vars => AppliedIsCommitted'
  BY <1>2 DEF AppliedIsCommitted, AppliedMatches
<1> QED
  BY <1>1, <1>3, TypeInvariance, PTL DEF Spec

-----------------------------------------------------------------------------
(* The history of the leaders' logs.                                       *)

\* The logs a and b are the same up to k.
Agree(a, b, k) ==
    k <= Len(a) /\ k <= Len(b) /\ \A j \in 1 .. k : a[j] = b[j]

\* Up to each of its entries, log is what the leader of the entry's term had.
Follows(log, L) ==
    \A k \in 1 .. Len(log) :
        log[k].term \in DOMAIN L /\ Agree(log, L[log[k].term], k)

Sorted(log, t) ==
    \A k \in 1 .. Len(log) :
        log[k].term <= t /\ \A j \in 1 .. k : log[j].term <= log[k].term

\* The request m was made from a log that began like this one.
Quotes(m, log) ==
    /\ m.prefixLength + Len(m.entries) <= Len(log)
    /\ m.prefixTerm = TermAt(log, m.prefixLength)
    /\ \A k \in 1 .. Len(m.entries) : m.entries[k] = log[m.prefixLength + k]

\* c led in term t, or leads.
HasLed(c, t) ==
    /\ Won(c, t) /\ t <= node[c].currentTerm
    /\ t = node[c].currentTerm => node[c].role # Candidate

-----------------------------------------------------------------------------
(* The history invariant.                                                  *)

LogsOf(L) == DOMAIN L \subseteq Nat /\ \A t \in DOMAIN L : L[t] \in Seq(LogEntry)

LeaderLogs(L) ==
    \A t \in DOMAIN L :
        Follows(L[t], L) /\ Sorted(L[t], t) /\ \E c \in Node : HasLed(c, t)

NodeLogs(L) ==
    \A n \in Node :
        LET s == node[n]
        IN  /\ Follows(s.log, L) /\ Sorted(s.log, s.currentTerm)
            /\ s.role = Leader => /\ s.currentTerm \in DOMAIN L /\ s.log = L[s.currentTerm]
                                  /\ s.leaderId = n

RequestLogs(L) ==
    \A m \in Replications : m.term \in DOMAIN L /\ Quotes(m, L[m.term])

ResponseLogs(L) ==
    \A m \in Sent("LogResponse") : m.success =>
        /\ m.term \in DOMAIN L /\ m.acknowledgedLength <= Len(L[m.term])
        /\ m.followerId \in Node /\ m.term <= node[m.followerId].currentTerm

\* A candidate still has the log that its request describes.
CandidateLogs ==
    \A m \in Elections :
        LET s == node[m.candidateId]
        IN  /\ m.term <= s.currentTerm
            /\ m.term = s.currentTerm /\ s.role = Candidate
                  => m.logLength = Len(s.log) /\ m.lastLogTerm = LastLogTerm(s)

History(L) ==
    /\ LogsOf(L) /\ LeaderLogs(L) /\ NodeLogs(L)
    /\ RequestLogs(L) /\ ResponseLogs(L) /\ CandidateLogs

\* The history after a step to u: the log of a leader is recorded.
NextHistory(L, u) ==
    IF u.role = Leader
    THEN [t \in DOMAIN L \cup {u.currentTerm} |-> IF t = u.currentTerm THEN u.log ELSE L[t]]
    ELSE L

\* M records all that L does, and more entries of a term only from its leader.
Extends(L, M) ==
    \A t \in DOMAIN L :
        /\ t \in DOMAIN M /\ Agree(L[t], M[t], Len(L[t]))
        /\ \A k \in 1 .. Len(M[t]) : k <= Len(L[t]) \/ M[t][k].term = t

-----------------------------------------------------------------------------
(* Agreement of logs.                                                      *)

LEMMA AgreeShorter ==
    ASSUME NEW a \in Seq(LogEntry), NEW b \in Seq(LogEntry), NEW k \in Nat, NEW j \in Nat,
           j <= k, Agree(a, b, k)
    PROVE  Agree(a, b, j)
<1>1. Len(a) \in Nat /\ Len(b) \in Nat
  BY LenProperties
<1> QED BY <1>1 DEF Agree

\* Logs with an entry of the same term at the same index agree up to there.
LEMMA FollowsAgree ==
    ASSUME NEW L, NEW a, NEW b, Follows(a, L), Follows(b, L), NEW k \in 1 .. Len(a),
           k \in 1 .. Len(b), a[k].term = b[k].term
    PROVE  Agree(a, b, k)
<1>1. Agree(a, L[a[k].term], k) /\ Agree(b, L[a[k].term], k)
  BY DEF Follows
<1> QED BY <1>1 DEF Agree

\* A log that is the beginning of another takes over its properties.
LEMMA BeginningFollows ==
    ASSUME NEW L, LogsOf(L), NEW a \in Seq(LogEntry), NEW b \in Seq(LogEntry), NEW t,
           Agree(a, b, Len(a)), Follows(b, L), Sorted(b, t)
    PROVE  Follows(a, L) /\ Sorted(a, t)
<1>1. Len(a) \in Nat /\ Len(b) \in Nat /\ Len(a) <= Len(b)
  BY LenProperties DEF Agree
<1>2. \A k \in 1 .. Len(a) : a[k] = b[k] /\ k \in 1 .. Len(b)
  BY <1>1 DEF Agree
<1>3. ASSUME NEW k \in 1 .. Len(a) PROVE a[k].term \in DOMAIN L /\ Agree(a, L[a[k].term], k)
  <2>1. b[k].term \in DOMAIN L /\ Agree(b, L[b[k].term], k)
    BY <1>2 DEF Follows
  <2>2. \A j \in 1 .. k : a[j] = b[j]
    BY <1>1, <1>2
  <2> QED BY <1>1, <1>2, <2>1, <2>2 DEF Agree
<1>4. ASSUME NEW k \in 1 .. Len(a)
      PROVE  a[k].term <= t /\ \A j \in 1 .. k : a[j].term <= a[k].term
  <2>1. \A j \in 1 .. k : a[j] = b[j]
    BY <1>1, <1>2
  <2> QED BY <1>2, <2>1 DEF Sorted
<1> QED BY <1>3, <1>4 DEF Follows, Sorted

\* A log reconciled with a request of a leader agrees with the leader's log
\* as far as the request reaches.
LEMMA ReconcileAgrees ==
    ASSUME NEW L, NEW log \in Seq(LogEntry), NEW lead \in Seq(LogEntry), NEW m \in LogRequest,
           Follows(log, L), Follows(lead, L), Quotes(m, lead), PrefixMatches(log, m)
    PROVE  LET new == ReconcileLog(log, m)
               end == m.prefixLength + Len(m.entries)
           IN  Agree(new, lead, end) /\ (new = log \/ Len(new) = end)
<1> DEFINE p == m.prefixLength
           es == m.entries
           end == p + Len(es)
           new == ReconcileLog(log, m)
<1>1. /\ Len(log) \in Nat /\ Len(lead) \in Nat /\ p \in Nat /\ Len(es) \in Nat
      /\ p <= Len(log) /\ end <= Len(lead)
      /\ \A k \in 1 .. Len(es) : es[k] = lead[p + k]
  BY LenProperties DEF LogRequest, PrefixMatches, Quotes
<1>2. Agree(log, lead, p)
  <2>1. CASE p = 0
    BY <1>1, <2>1 DEF Agree
  <2>2. CASE p # 0
    <3>1. p \in 1 .. Len(log) /\ p \in 1 .. Len(lead)
      BY <1>1, <2>2
    <3>2. log[p].term = lead[p].term
      BY <2>2 DEF PrefixMatches, Quotes, TermAt
    <3> QED BY <3>1, <3>2, FollowsAgree
  <2> QED BY <2>1, <2>2
<1>3. CASE new = log /\ Conflicts(log, m) = {} /\ end <= Len(log)
  <2>1. CASE Len(es) = 0
    BY <1>1, <1>2, <1>3, <2>1
  <2>2. CASE Len(es) # 0
    <3>1. /\ end \in 1 .. Len(log) /\ end \in 1 .. Len(lead)
          /\ end \in (p + 1) .. (p + Len(es)) /\ end - p = Len(es) /\ Len(es) \in 1 .. Len(es)
      BY <1>1, <1>3, <2>2
    <3>2. end \in Overlap(log, m)
      BY <1>3, <3>1 DEF Overlap
    <3>3. log[end].term = es[end - p].term
      BY <1>3, <3>2 DEF Conflicts
    <3>4. log[end].term = lead[end].term
      BY <1>1, <3>1, <3>3
    <3>5. Agree(log, lead, end)
      <4> HIDE DEF end
      <4> QED BY <3>1, <3>4, FollowsAgree
    <3> QED BY <1>3, <3>5
  <2> QED BY <2>1, <2>2
<1>4. CASE /\ Len(new) = end
           /\ \A k \in 1 .. p : new[k] = log[k]
           /\ \A k \in (p + 1) .. Len(new) : new[k] = es[k - p]
  <2> HIDE DEF new
  <2>1. ASSUME NEW k \in 1 .. end PROVE new[k] = lead[k]
    <3>1. CASE k <= p
      BY <1>1, <1>2, <1>4, <3>1 DEF Agree
    <3>2. CASE p < k
      <4>1. k \in (p + 1) .. Len(new) /\ k - p \in 1 .. Len(es) /\ p + (k - p) = k
        BY <1>1, <1>4, <3>2
      <4>2. new[k] = es[k - p] /\ es[k - p] = lead[p + (k - p)]
        BY <1>1, <1>4, <4>1
      <4> QED BY <4>1, <4>2
    <3> QED BY <1>1, <3>1, <3>2
  <2>2. end <= Len(new) /\ end <= Len(lead)
    BY <1>1, <1>4
  <2>3. Agree(new, lead, end)
    BY <2>1, <2>2 DEF Agree
  <2> QED BY <1>4, <2>3 DEF new
<1> QED BY <1>1, <1>3, <1>4, ReconcileLogEntries

-----------------------------------------------------------------------------
(* A longer history keeps what followed a shorter one.                     *)

LEMMA ExtendsAgree ==
    ASSUME NEW L, NEW M, LogsOf(L), LogsOf(M), Extends(L, M), NEW t \in DOMAIN L,
           NEW log, NEW k \in Nat, Agree(log, L[t], k)
    PROVE  Agree(log, M[t], k)
<1>1. /\ Len(L[t]) \in Nat /\ Len(M[t]) \in Nat /\ Len(L[t]) <= Len(M[t])
      /\ \A j \in 1 .. Len(L[t]) : L[t][j] = M[t][j]
  BY LenProperties DEF LogsOf, Extends, Agree
<1> QED BY <1>1 DEF Agree

LEMMA ExtendsFollows ==
    ASSUME NEW L, NEW M, LogsOf(L), LogsOf(M), Extends(L, M), NEW log, Follows(log, L)
    PROVE  Follows(log, M)
<1> SUFFICES ASSUME NEW k \in 1 .. Len(log)
             PROVE  log[k].term \in DOMAIN M /\ Agree(log, M[log[k].term], k)
  BY DEF Follows
<1>1. log[k].term \in DOMAIN L /\ Agree(log, L[log[k].term], k) /\ k \in Nat
  BY DEF Follows
<1>2. log[k].term \in DOMAIN M
  BY <1>1 DEF Extends
<1> QED BY <1>1, <1>2, ExtendsAgree

LEMMA ExtendsQuotes ==
    ASSUME NEW L, NEW M, LogsOf(L), LogsOf(M), Extends(L, M), NEW t \in DOMAIN L,
           NEW m \in LogRequest, Quotes(m, L[t])
    PROVE  Quotes(m, M[t])
<1>1. /\ Len(L[t]) \in Nat /\ Len(M[t]) \in Nat /\ Len(L[t]) <= Len(M[t])
      /\ \A j \in 1 .. Len(L[t]) : L[t][j] = M[t][j]
  BY LenProperties DEF LogsOf, Extends, Agree
<1>2. m.prefixLength \in Nat /\ Len(m.entries) \in Nat
  BY LenProperties DEF LogRequest
<1>3. /\ m.prefixLength + Len(m.entries) <= Len(L[t])
      /\ m.prefixTerm = TermAt(L[t], m.prefixLength)
      /\ \A k \in 1 .. Len(m.entries) : m.entries[k] = L[t][m.prefixLength + k]
  BY DEF Quotes
<1>4. m.prefixLength # 0 => m.prefixLength \in 1 .. Len(L[t])
  BY <1>1, <1>2, <1>3
<1>5. TermAt(L[t], m.prefixLength) = TermAt(M[t], m.prefixLength)
  BY <1>1, <1>4 DEF TermAt
<1>6. \A k \in 1 .. Len(m.entries) : m.prefixLength + k \in 1 .. Len(L[t])
  BY <1>1, <1>2, <1>3
<1>7. \A k \in 1 .. Len(m.entries) : L[t][m.prefixLength + k] = M[t][m.prefixLength + k]
  BY <1>1, <1>6
<1>8. m.prefixLength + Len(m.entries) <= Len(M[t])
  BY <1>1, <1>2, <1>3
<1> QED BY <1>3, <1>5, <1>7, <1>8 DEF Quotes

-----------------------------------------------------------------------------
(* The step.                                                               *)

\* A term has one winner: OneWinner, as a formula that holds in both states.
UniqueWinner == \A c, d \in Node, t \in Nat : Won(c, t) /\ Won(d, t) => c = d

\* The node n steps to u, and the history from L to M.
HistoryStep(n, u, L, M) ==
    /\ TypeInv /\ TypeInv' /\ ElectionInv /\ ElectionInv' /\ UniqueWinner'
    /\ History(L) /\ NodeStep(n, u) /\ M = NextHistory(L, u)

\* A leader led before the step, or its term had no leader.
LEMMA LeaderIsOldOrNew ==
    ASSUME NEW n \in Node, NEW u, NEW L, NEW M, HistoryStep(n, u, L, M), u.role = Leader
    PROVE  \/ SameElection(node[n], u) /\ node[n].role = Leader
           \/ /\ u.currentTerm \notin DOMAIN L
              /\ u.log = node[n].log /\ u.leaderId = n
<1> DEFINE s == node[n]
           t == u.currentTerm
<1>0. /\ KeepsVotes(s, u) /\ RoleMoves(n, s, u) /\ msgs \subseteq msgs'
      /\ s.currentTerm \in Nat /\ t \in Nat
  BY DEF HistoryStep, NodeStep, KeepsVotes, TypeInv, WellFormed, RaftState
<1>00. node'[n] = u
  BY NodeStepNodes DEF HistoryStep
<1>1. CASE SameElection(s, u)
  BY <1>1 DEF SameElection
<1>2. CASE ~SameElection(s, u)
  <2>1. /\ u.log = s.log /\ u.leaderId = n
        /\ s.currentTerm < t \/ s.role = Candidate
    BY <1>0, <1>2 DEF RoleMoves
  <2>2. ASSUME t \in DOMAIN L PROVE FALSE
    <3>1. PICK c \in Node : HasLed(c, t)
      BY <2>2 DEF HistoryStep, History, LeaderLogs
    <3>2. Won(c, t)'
      BY <1>0, <3>1, VotesStay DEF HasLed
    <3>3. Won(n, t)'
      BY <1>00 DEF HistoryStep, ElectionInv, LeadersWon
    <3>4. c = n
      BY <1>0, <3>2, <3>3 DEF HistoryStep, UniqueWinner
    <3>5. t <= s.currentTerm /\ (t = s.currentTerm => s.role # Candidate)
      BY <3>1, <3>4 DEF HasLed
    <3> QED BY <1>0, <2>1, <3>5 DEF KeepsVotes
  <2> QED BY <2>1, <2>2
<1> QED BY <1>1, <1>2

\* What the history gains in the step.
LEMMA HistoryExtends ==
    ASSUME NEW n \in Node, NEW u, NEW L, NEW M, HistoryStep(n, u, L, M)
    PROVE  /\ LogsOf(M) /\ Extends(L, M)
           /\ \A t \in DOMAIN M :
                 \/ t \in DOMAIN L /\ M[t] = L[t]
                 \/ u.role = Leader /\ t = u.currentTerm
           /\ u.role = Leader => u.currentTerm \in DOMAIN M /\ M[u.currentTerm] = u.log
<1> DEFINE s == node[n]
           t == u.currentTerm
<1>0. /\ LogsOf(L) /\ NodeLogs(L) /\ LogMoves(s, u)
      /\ s.currentTerm \in Nat /\ t \in Nat
      /\ s.log \in Seq(LogEntry) /\ u.log \in Seq(LogEntry) /\ Len(s.log) \in Nat
  BY LenProperties DEF HistoryStep, History, NodeStep, KeepsVotes, TypeInv, WellFormed, RaftState
<1>1. \A x \in DOMAIN L : Agree(L[x], L[x], Len(L[x])) /\ Len(L[x]) \in Nat
  BY <1>0, LenProperties DEF Agree, LogsOf
<1>2. CASE u.role # Leader
  <2>1. M = L
    BY <1>2 DEF HistoryStep, NextHistory
  <2> QED BY <1>0, <1>1, <1>2, <2>1 DEF Extends
<1>3. CASE u.role = Leader
  <2>1. M = [x \in DOMAIN L \cup {t} |-> IF x = t THEN u.log ELSE L[x]]
    BY <1>3 DEF HistoryStep, NextHistory
  <2>2. DOMAIN M = DOMAIN L \cup {t} /\ M[t] = u.log
        /\ \A x \in DOMAIN L : x # t => M[x] = L[x]
    BY <2>1
  <2>3. LogsOf(M)
    BY <1>0, <2>1, <2>2 DEF LogsOf
  <2>4. t \in DOMAIN L =>
            /\ Agree(L[t], M[t], Len(L[t]))
            /\ \A k \in 1 .. Len(M[t]) : k <= Len(L[t]) \/ M[t][k].term = t
    <3> SUFFICES ASSUME t \in DOMAIN L
                 PROVE  /\ Agree(L[t], M[t], Len(L[t]))
                        /\ \A k \in 1 .. Len(M[t]) : k <= Len(L[t]) \/ M[t][k].term = t
      OBVIOUS
    <3>1. SameElection(s, u) /\ s.role = Leader
      BY <1>3, LeaderIsOldOrNew
    <3>2. s.currentTerm = t /\ L[t] = s.log
      BY <1>0, <3>1 DEF SameElection, NodeLogs
    <3>3. CASE u.log = s.log
      BY <1>0, <1>1, <2>2, <3>2, <3>3
    <3>4. CASE \E c \in Command : u.log = Append(s.log, [command |-> c, term |-> s.currentTerm])
      <4>1. PICK c \in Command : u.log = Append(s.log, [command |-> c, term |-> s.currentTerm])
        BY <3>4
      <4> DEFINE e == [command |-> c, term |-> s.currentTerm]
      <4>2. e \in LogEntry /\ e.term = t
        BY <1>0, <3>2 DEF LogEntry
      <4> HIDE DEF e, s
      <4>3. /\ Len(u.log) = Len(s.log) + 1 /\ u.log[Len(s.log) + 1] = e
            /\ \A k \in 1 .. Len(s.log) : u.log[k] = s.log[k]
        BY <1>0, <4>1, <4>2, AppendProperties DEF e
      <4>4. Agree(s.log, u.log, Len(s.log))
        BY <1>0, <4>3 DEF Agree
      <4>5. \A k \in 1 .. Len(u.log) : k <= Len(s.log) \/ u.log[k].term = t
        BY <1>0, <4>2, <4>3
      <4> QED BY <2>2, <3>2, <4>4, <4>5
    <3>5. ~ \E m \in Replications : Reconciles(s, u, m)
      BY <1>3, RoleAssumption DEF Reconciles
    <3> QED BY <1>0, <3>3, <3>4, <3>5 DEF LogMoves
  <2>5. Extends(L, M)
    <3> SUFFICES ASSUME NEW x \in DOMAIN L
                 PROVE  /\ x \in DOMAIN M /\ Agree(L[x], M[x], Len(L[x]))
                        /\ \A k \in 1 .. Len(M[x]) : k <= Len(L[x]) \/ M[x][k].term = x
      BY DEF Extends
    <3>1. CASE x = t
      BY <2>2, <2>4, <3>1
    <3>2. CASE x # t
      <4>1. M[x] = L[x] /\ x \in DOMAIN M
        BY <2>2, <3>2
      <4> QED BY <1>1, <4>1
    <3> QED BY <3>1, <3>2
  <2> HIDE DEF t
  <2>6. \A x \in DOMAIN M : (x \in DOMAIN L /\ M[x] = L[x]) \/ x = t
    BY <2>2
  <2> QED BY <1>3, <2>2, <2>3, <2>5, <2>6 DEF t
<1> QED BY <1>2, <1>3

\* The log of the node that takes the step follows the new history.
LEMMA StepFollows ==
    ASSUME NEW n \in Node, NEW u, NEW L, NEW M, HistoryStep(n, u, L, M)
    PROVE  Follows(u.log, M) /\ Sorted(u.log, u.currentTerm)
<1> DEFINE s == node[n]
<1>0. /\ LogsOf(L) /\ NodeLogs(L) /\ LeaderLogs(L) /\ RequestLogs(L) /\ LogMoves(s, u)
      /\ s.currentTerm \in Nat /\ u.currentTerm \in Nat /\ s.currentTerm <= u.currentTerm
      /\ s.log \in Seq(LogEntry) /\ u.log \in Seq(LogEntry) /\ Len(s.log) \in Nat
  BY LenProperties DEF HistoryStep, History, NodeStep, KeepsVotes, TypeInv, WellFormed, RaftState
<1>1. /\ LogsOf(M) /\ Extends(L, M)
      /\ u.role = Leader => u.currentTerm \in DOMAIN M /\ M[u.currentTerm] = u.log
  BY HistoryExtends
<1>2. Follows(s.log, L) /\ Sorted(s.log, s.currentTerm)
  BY <1>0 DEF NodeLogs
<1>3. \A k \in 1 .. Len(s.log) : s.log[k].term \in Nat
  <2>1. \A k \in 1 .. Len(s.log) : s.log[k] \in LogEntry
    BY <1>0, ElementOfSeq
  <2> QED BY <2>1 DEF LogEntry
<1>4. Follows(s.log, M) /\ Sorted(s.log, u.currentTerm)
  <2>1. Follows(s.log, M)
    BY <1>0, <1>1, <1>2, ExtendsFollows
  <2>2. Sorted(s.log, u.currentTerm)
    BY <1>0, <1>2, <1>3 DEF Sorted
  <2> QED BY <2>1, <2>2
<1>5. CASE u.log = s.log
  BY <1>4, <1>5
<1>6. ASSUME NEW c \in Command, s.role = Leader, SameElection(s, u),
             u.log = Append(s.log, [command |-> c, term |-> s.currentTerm])
      PROVE  Follows(u.log, M) /\ Sorted(u.log, u.currentTerm)
  <2> DEFINE e == [command |-> c, term |-> s.currentTerm]
             t == u.currentTerm
  <2>1. e \in LogEntry /\ e.term = t /\ u.role = Leader
    BY <1>0, <1>6 DEF LogEntry, SameElection
  <2> HIDE DEF e, s
  <2>2. /\ Len(u.log) = Len(s.log) + 1 /\ u.log[Len(s.log) + 1] = e
        /\ \A k \in 1 .. Len(s.log) : u.log[k] = s.log[k]
    BY <1>0, <1>6, <2>1, AppendProperties DEF e
  <2>3. t \in DOMAIN M /\ M[t] = u.log
    BY <1>1, <2>1
  <2>4. Follows(u.log, M)
    <3> SUFFICES ASSUME NEW k \in 1 .. Len(u.log)
                 PROVE  u.log[k].term \in DOMAIN M /\ Agree(u.log, M[u.log[k].term], k)
      BY DEF Follows
    <3>1. CASE k = Len(s.log) + 1
      <4>1. Agree(u.log, u.log, k)
        BY <1>0, <2>2 DEF Agree
      <4> QED BY <2>1, <2>2, <2>3, <3>1, <4>1
    <3>2. CASE k # Len(s.log) + 1
      <4>1. k \in 1 .. Len(s.log) /\ k <= Len(u.log) /\ \A j \in 1 .. k : u.log[j] = s.log[j]
        BY <1>0, <2>2, <3>2
      <4>2. u.log[k] = s.log[k]
        BY <4>1
      <4>3. s.log[k].term \in DOMAIN M /\ Agree(s.log, M[s.log[k].term], k)
        BY <1>4, <4>1 DEF Follows
      <4> QED BY <4>1, <4>2, <4>3 DEF Agree
    <3> QED BY <3>1, <3>2
  <2>5. Sorted(u.log, t)
    <3> SUFFICES ASSUME NEW k \in 1 .. Len(u.log)
                 PROVE  u.log[k].term <= t /\ \A j \in 1 .. k : u.log[j].term <= u.log[k].term
      BY DEF Sorted
    <3>1. CASE k = Len(s.log) + 1
      <4>1. u.log[k].term = t /\ t <= t
        BY <1>0, <2>1, <2>2, <3>1
      <4>2. ASSUME NEW j \in 1 .. k PROVE u.log[j].term <= t
        <5>1. CASE j = k
          BY <4>1, <5>1
        <5>2. CASE j # k
          <6>1. j \in 1 .. Len(s.log)
            BY <1>0, <3>1, <5>2
          <6> QED BY <1>4, <2>2, <6>1 DEF Sorted
        <5> QED BY <5>1, <5>2
      <4> QED BY <4>1, <4>2
    <3>2. CASE k # Len(s.log) + 1
      <4>1. k \in 1 .. Len(s.log) /\ \A j \in 1 .. k : u.log[j] = s.log[j]
        BY <1>0, <2>2, <3>2
      <4>2. u.log[k] = s.log[k]
        BY <4>1
      <4> QED BY <1>4, <4>1, <4>2 DEF Sorted
    <3> QED BY <3>1, <3>2
  <2> QED BY <2>4, <2>5
<1>7. ASSUME NEW m \in Replications, Reconciles(s, u, m)
      PROVE  Follows(u.log, M) /\ Sorted(u.log, u.currentTerm)
  <2> DEFINE lead == L[m.term]
             end == m.prefixLength + Len(m.entries)
  <2>1. /\ m.term \in DOMAIN L /\ Quotes(m, lead) /\ m \in LogRequest
        /\ PrefixMatches(s.log, m) /\ u.log = ReconcileLog(s.log, m) /\ u.currentTerm = m.term
    BY <1>0, <1>7 DEF RequestLogs, Reconciles
  <2>2. lead \in Seq(LogEntry) /\ Follows(lead, L) /\ Sorted(lead, m.term)
    BY <1>0, <2>1 DEF LogsOf, LeaderLogs
  <2> HIDE DEF lead
  <2>3. Agree(u.log, lead, end) /\ (u.log = s.log \/ Len(u.log) = end)
    BY <1>0, <1>2, <2>1, <2>2, ReconcileAgrees
  <2>4. CASE Len(u.log) = end
    <3>1. Agree(u.log, lead, Len(u.log))
      BY <2>3, <2>4
    <3>2. Follows(u.log, L) /\ Sorted(u.log, m.term)
      BY <1>0, <2>2, <3>1, BeginningFollows
    <3> QED BY <1>0, <1>1, <2>1, <3>2, ExtendsFollows
  <2> QED BY <1>5, <2>3, <2>4
<1> QED BY <1>0, <1>5, <1>6, <1>7 DEF LogMoves

LEMMA HasLedStays ==
    ASSUME NEW n \in Node, NEW u, NEW L, NEW M, HistoryStep(n, u, L, M),
           NEW c \in Node, NEW t \in Nat, HasLed(c, t)
    PROVE  HasLed(c, t)'
<1>0. /\ KeepsVotes(node[n], u) /\ RoleMoves(n, node[n], u) /\ msgs \subseteq msgs'
      /\ node[n].currentTerm \in Nat /\ u.currentTerm \in Nat
  BY DEF HistoryStep, NodeStep, KeepsVotes, TypeInv, WellFormed, RaftState
<1>1. Won(c, t)'
  BY <1>0, VotesStay DEF HasLed
<1>2. node'[c] = IF c = n THEN u ELSE node[c]
  BY NodeStepNodes DEF HistoryStep
<1>3. /\ t <= node'[c].currentTerm
      /\ t = node'[c].currentTerm => node'[c].role # Candidate
  <2>1. CASE c = n
    BY <1>0, <1>2, <2>1 DEF HasLed, KeepsVotes, RoleMoves
  <2>2. CASE c # n
    BY <1>2, <2>2 DEF HasLed
  <2> QED BY <2>1, <2>2
<1> QED BY <1>1, <1>3 DEF HasLed

LEMMA LeaderLogsStep ==
    ASSUME NEW n \in Node, NEW u, NEW L, NEW M, HistoryStep(n, u, L, M)
    PROVE  LeaderLogs(M)'
<1>1. /\ LogsOf(L) /\ LogsOf(M) /\ Extends(L, M) /\ LeaderLogs(L)
      /\ u.role = Leader => M[u.currentTerm] = u.log
  BY HistoryExtends DEF HistoryStep, History
<1>2. Follows(u.log, M) /\ Sorted(u.log, u.currentTerm)
  BY StepFollows
<1>3. ASSUME NEW t \in DOMAIN M
      PROVE  Follows(M[t], M) /\ Sorted(M[t], t) /\ \E c \in Node : HasLed(c, t)'
  <2>1. CASE t \in DOMAIN L /\ M[t] = L[t]
    <3>1. Follows(L[t], L) /\ Sorted(L[t], t) /\ t \in Nat
      BY <1>1, <2>1 DEF LeaderLogs, LogsOf
    <3>2. PICK c \in Node : HasLed(c, t)
      BY <1>1, <2>1 DEF LeaderLogs
    <3>3. HasLed(c, t)'
      BY <3>1, <3>2, HasLedStays
    <3>4. Follows(L[t], M)
      BY <1>1, <3>1, ExtendsFollows
    <3> QED BY <2>1, <3>1, <3>3, <3>4
  <2>2. CASE u.role = Leader /\ t = u.currentTerm
    <3>1. node'[n] = u
      BY NodeStepNodes DEF HistoryStep
    <3>2. Won(n, t)'
      BY <2>2, <3>1 DEF HistoryStep, ElectionInv, LeadersWon
    <3>3. t \in Nat
      BY <1>1 DEF LogsOf
    <3>4. HasLed(n, t)'
      BY <2>2, <3>1, <3>2, <3>3, RoleAssumption DEF HasLed
    <3> QED BY <1>1, <1>2, <2>2, <3>4
  <2> QED BY <2>1, <2>2, HistoryExtends
<1> QED BY <1>3 DEF LeaderLogs

LEMMA NodeLogsStep ==
    ASSUME NEW n \in Node, NEW u, NEW L, NEW M, HistoryStep(n, u, L, M)
    PROVE  NodeLogs(M)'
<1>1. /\ LogsOf(L) /\ LogsOf(M) /\ Extends(L, M) /\ NodeLogs(L)
      /\ u.role = Leader => u.currentTerm \in DOMAIN M /\ M[u.currentTerm] = u.log
      /\ \A t \in DOMAIN L : M[t] = L[t] \/ (u.role = Leader /\ t = u.currentTerm)
  BY HistoryExtends DEF HistoryStep, History, Extends
<1>2. \A p \in Node : node'[p] = IF p = n THEN u ELSE node[p]
  BY NodeStepNodes DEF HistoryStep
<1>3. ASSUME NEW p \in Node
      PROVE  LET s == node'[p]
             IN  /\ Follows(s.log, M) /\ Sorted(s.log, s.currentTerm)
                 /\ s.role = Leader => /\ s.currentTerm \in DOMAIN M
                                       /\ s.log = M[s.currentTerm] /\ s.leaderId = p
  <2>1. CASE p = n
    <3>1. u.role = Leader => u.leaderId = n
      BY <1>1, LeaderIsOldOrNew DEF NodeLogs, SameElection
    <3> QED BY <1>1, <1>2, <2>1, <3>1, StepFollows
  <2>2. CASE p # n
    <3> DEFINE s == node[p]
    <3>1. /\ Follows(s.log, L) /\ Sorted(s.log, s.currentTerm)
          /\ s.role = Leader => s.currentTerm \in DOMAIN L /\ s.log = L[s.currentTerm]
                                /\ s.leaderId = p
      BY <1>1 DEF NodeLogs
    <3>2. Follows(s.log, M)
      BY <1>1, <3>1, ExtendsFollows
    <3>3. ASSUME s.role = Leader, u.role = Leader, s.currentTerm = u.currentTerm PROVE FALSE
      <4>1. Won(p, node[p].currentTerm)' /\ Won(n, node[n].currentTerm)'
        BY <1>2, <2>2, <3>3 DEF HistoryStep, ElectionInv, LeadersWon
      <4>2. Won(p, u.currentTerm)' /\ Won(n, u.currentTerm)'
        BY <1>2, <2>2, <3>3, <4>1
      <4>3. u.currentTerm \in Nat
        BY DEF HistoryStep, NodeStep, KeepsVotes
      <4> QED BY <2>2, <4>2, <4>3 DEF HistoryStep, UniqueWinner
    <3>4. s.role = Leader => s.currentTerm \in DOMAIN M /\ s.log = M[s.currentTerm]
      BY <1>1, <3>1, <3>3 DEF Extends
    <3> QED BY <1>2, <2>2, <3>1, <3>2, <3>4
  <2> QED BY <2>1, <2>2
<1> QED BY <1>3 DEF NodeLogs

\* make_log_request quotes the log that it is made from.
LEMMA MakeLogRequestQuotes ==
    ASSUME NEW s, WellFormed(s), s.role = Leader, NEW n \in Node, NEW p \in Node
    PROVE  LET m == MakeLogRequest(n, s, p)
           IN  Quotes(m, s.log) /\ m.term = s.currentTerm /\ m.leaderCommit = s.commitLength
<1> DEFINE k == s.sentLength[p]
           es == SubSeq(s.log, k + 1, Len(s.log))
           m == MakeLogRequest(n, s, p)
<1>1. s.log \in Seq(LogEntry) /\ Len(s.log) \in Nat /\ k \in 0 .. Len(s.log)
  BY LenProperties DEF WellFormed, RaftState
<1>2. /\ m.prefixLength = k /\ m.prefixTerm = TermAt(s.log, k) /\ m.entries = es
      /\ m.term = s.currentTerm /\ m.leaderCommit = s.commitLength
  BY DEF MakeLogRequest
<1> HIDE DEF m, k
<1>3. Len(es) = Len(s.log) - k /\ \A i \in 1 .. (Len(s.log) - k) : es[i] = s.log[k + i]
  BY <1>1
<1>4. k + Len(es) <= Len(s.log)
  BY <1>1, <1>3
<1> HIDE DEF es
<1>5. Quotes(m, s.log)
  BY <1>2, <1>3, <1>4 DEF Quotes
<1> QED BY <1>2, <1>5 DEF m

LEMMA RequestLogsStep ==
    ASSUME NEW n \in Node, NEW u, NEW L, NEW M, HistoryStep(n, u, L, M)
    PROVE  RequestLogs(M)'
<1>1. /\ LogsOf(L) /\ LogsOf(M) /\ Extends(L, M) /\ NodeLogs(L) /\ RequestLogs(L)
      /\ u.role = Leader => u.currentTerm \in DOMAIN M /\ M[u.currentTerm] = u.log
  BY HistoryExtends DEF HistoryStep, History
<1>2. ASSUME NEW m \in Replications' PROVE m.term \in DOMAIN M /\ Quotes(m, M[m.term])
  <2>1. CASE m \in Replications
    <3>1. m.term \in DOMAIN L /\ Quotes(m, L[m.term]) /\ m \in LogRequest
      BY <1>1, <2>1, SentType DEF RequestLogs, Replications, HistoryStep, TypeInv
    <3>2. m.term \in DOMAIN M
      BY <1>1, <3>1 DEF Extends
    <3> QED BY <1>1, <3>1, <3>2, ExtendsQuotes
  <2>2. CASE m \notin Replications
    <3>1. m \in msgs' \ msgs /\ m.type = "LogRequest"
      BY <2>2 DEF Replications, Sent
    <3>2. Says(n, node[n], u, m)
      BY <3>1 DEF HistoryStep, NodeStep
    <3>3. PICK p \in Node : m = MakeLogRequest(n, u, p)
      BY <3>1, <3>2 DEF Says
    <3>4. WellFormed(u) /\ u.role = Leader
      BY <3>1, <3>2 DEF Says, HistoryStep, NodeStep
    <3>5. Quotes(m, u.log) /\ m.term = u.currentTerm
      BY <3>3, <3>4, MakeLogRequestQuotes
    <3> QED BY <1>1, <3>4, <3>5
  <2> QED BY <2>1, <2>2
<1> QED BY <1>2 DEF RequestLogs

LEMMA ResponseLogsStep ==
    ASSUME NEW n \in Node, NEW u, NEW L, NEW M, HistoryStep(n, u, L, M)
    PROVE  ResponseLogs(M)'
<1>1. /\ LogsOf(L) /\ LogsOf(M) /\ Extends(L, M) /\ RequestLogs(L) /\ ResponseLogs(L)
  BY HistoryExtends DEF HistoryStep, History
<1>2. \A p \in Node : node'[p] = IF p = n THEN u ELSE node[p]
  BY NodeStepNodes DEF HistoryStep
<1>3. \A t \in DOMAIN L : /\ t \in DOMAIN M /\ Len(L[t]) <= Len(M[t]) /\ t \in Nat
                         /\ Len(L[t]) \in Nat /\ Len(M[t]) \in Nat
  BY <1>1, LenProperties DEF Extends, Agree, LogsOf
<1>4. /\ node[n].currentTerm \in Nat /\ u.currentTerm \in Nat
      /\ node[n].currentTerm <= u.currentTerm
  BY DEF HistoryStep, NodeStep, KeepsVotes, TypeInv, WellFormed, RaftState
<1>5. ASSUME NEW m \in Sent("LogResponse")', m.success
      PROVE  /\ m.term \in DOMAIN M /\ m.acknowledgedLength <= Len(M[m.term])
             /\ m.followerId \in Node /\ m.term <= node'[m.followerId].currentTerm
  <2>0. m.acknowledgedLength \in Nat
    <3>1. m \in LogResponse
      BY DEF HistoryStep, TypeInv, TypeOK, Sent, Message, VoteRequest, VoteResponse, LogRequest
    <3> QED BY <3>1 DEF LogResponse
  <2>1. CASE m \in Sent("LogResponse")
    <3>1. /\ m.term \in DOMAIN L /\ m.acknowledgedLength <= Len(L[m.term])
          /\ m.followerId \in Node /\ m.term <= node[m.followerId].currentTerm
      BY <1>1, <1>5, <2>1 DEF ResponseLogs
    <3> QED BY <1>2, <1>3, <1>4, <2>0, <3>1
  <2>2. CASE m \notin Sent("LogResponse")
    <3>1. m \in msgs' \ msgs /\ m.type = "LogResponse"
      BY <2>2 DEF Sent
    <3>2. Says(n, node[n], u, m)
      BY <3>1 DEF HistoryStep, NodeStep
    <3>3. m.followerId = n /\ m.term = u.currentTerm
      BY <1>5, <3>1, <3>2 DEF Says
    <3>4. PICK r \in Replications : /\ Reconciles(node[n], u, r)
                                   /\ m.acknowledgedLength = r.prefixLength + Len(r.entries)
      BY <1>5, <3>1, <3>2 DEF Says
    <3>5. r.term = m.term
      BY <3>3, <3>4 DEF Reconciles
    <3>6. m.term \in DOMAIN L /\ m.acknowledgedLength <= Len(L[m.term])
      BY <1>1, <3>4, <3>5 DEF RequestLogs, Quotes
    <3> QED BY <1>2, <1>3, <1>4, <2>0, <3>3, <3>6
  <2> QED BY <2>1, <2>2
<1> QED BY <1>5 DEF ResponseLogs

LEMMA CandidateLogsStep ==
    ASSUME NEW n \in Node, NEW u, NEW L, NEW M, HistoryStep(n, u, L, M)
    PROVE  CandidateLogs'
<1>1. /\ CandidateLogs /\ KeepsVotes(node[n], u) /\ RoleMoves(n, node[n], u)
      /\ node[n].currentTerm \in Nat /\ u.currentTerm \in Nat
      /\ node[n].currentTerm <= u.currentTerm
  BY DEF HistoryStep, History, NodeStep, KeepsVotes, TypeInv, WellFormed, RaftState
<1>2. \A p \in Node : node'[p] = IF p = n THEN u ELSE node[p]
  BY NodeStepNodes DEF HistoryStep
<1>3. ASSUME NEW m \in Elections'
      PROVE  LET s == node'[m.candidateId]
             IN  /\ m.term <= s.currentTerm
                 /\ m.term = s.currentTerm /\ s.role = Candidate
                       => m.logLength = Len(s.log) /\ m.lastLogTerm = LastLogTerm(s)
  <2>0. m.candidateId \in Node /\ m.term \in Nat
    <3>1. m \in VoteRequest
      BY DEF HistoryStep, TypeInv, TypeOK, Elections, Sent, Message,
             VoteRequest, VoteResponse, LogRequest, LogResponse
    <3> QED BY <3>1 DEF VoteRequest, Elections
  <2>1. CASE m \in Elections
    <3>1. LET s == node[m.candidateId]
          IN  /\ m.term <= s.currentTerm
              /\ m.term = s.currentTerm /\ s.role = Candidate
                    => m.logLength = Len(s.log) /\ m.lastLogTerm = LastLogTerm(s)
      BY <1>1, <2>1 DEF CandidateLogs
    <3>2. CASE m.candidateId # n
      BY <1>2, <2>0, <3>1, <3>2
    <3>3. CASE m.candidateId = n
      <4>1. m.term <= u.currentTerm
        BY <1>1, <2>0, <3>1, <3>3
      <4>2. m.term = u.currentTerm /\ u.role = Candidate =>
                /\ m.term = node[n].currentTerm /\ node[n].role = Candidate
                /\ u.log = node[n].log
        BY <1>1, <2>0, <3>1, <3>3 DEF RoleMoves
      <4> QED BY <1>2, <2>0, <3>1, <3>3, <4>1, <4>2 DEF LastLogTerm
    <3> QED BY <3>2, <3>3
  <2>2. CASE m \notin Elections
    <3>1. m \in msgs' \ msgs /\ m.type = "VoteRequest"
      BY <2>2 DEF Elections, Sent
    <3>2. Says(n, node[n], u, m)
      BY <3>1 DEF HistoryStep, NodeStep
    <3>3. /\ m.candidateId = n /\ m.term = u.currentTerm
          /\ m.logLength = Len(node[n].log) /\ m.lastLogTerm = LastLogTerm(node[n])
      BY <3>1, <3>2 DEF Says
    <3>4. u.role = Candidate => u.log = node[n].log
      BY <1>1 DEF RoleMoves
    <3> QED BY <1>1, <1>2, <3>3, <3>4 DEF LastLogTerm
  <2> QED BY <2>1, <2>2
<1> QED BY <1>3 DEF CandidateLogs

-----------------------------------------------------------------------------
(* The theorem.                                                            *)

HistoryInv == \E L : History(L)

LEMMA EmptyHistory ==
    ASSUME Init
    PROVE  History(<<>>)
<1>1. \A n \in Node : node[n].role = Follower /\ node[n].log = <<>>
  BY DEF Init, FreshState
<1>2. /\ \A m \in Sent("VoteRequest") : m.candidateId \in Outsider
      /\ Sent("LogResponse") = {}
      /\ \A m \in Sent("LogRequest") : m.leaderId \in Outsider
  BY DEF Init, Sent, OutsiderRequests
<1>3. Elections = {} /\ Replications = {}
  BY <1>2, OutsiderAssumption DEF Elections, Replications
<1>4. DOMAIN <<>> = {}
  OBVIOUS
<1>5. LogsOf(<<>>) /\ LeaderLogs(<<>>)
  BY <1>4 DEF LogsOf, LeaderLogs
<1>6. NodeLogs(<<>>)
  BY <1>1, RoleAssumption DEF NodeLogs, Follows, Sorted
<1> QED
  BY <1>2, <1>3, <1>5, <1>6 DEF History, RequestLogs, ResponseLogs, CandidateLogs

LEMMA HistoryInit == Init => HistoryInv
  BY EmptyHistory DEF HistoryInv

\* The stuttering steps of any invariant of the history.
LEMMA HistoryStutters ==
    ASSUME NEW L, History(L), UNCHANGED vars
    PROVE  History(L)'
  BY DEF vars, History, LeaderLogs, NodeLogs, RequestLogs, ResponseLogs, CandidateLogs,
         HasLed, Won, Voted, Replications, Elections, Sent

LEMMA HistoryNext ==
    ASSUME TypeInv, TypeInv', ElectionInv, ElectionInv', UniqueWinner',
           HistoryInv, [Next]_vars
    PROVE  HistoryInv'
<1>1. PICK L : History(L)
  BY DEF HistoryInv
<1>2. CASE UNCHANGED vars
  BY <1>1, <1>2, HistoryStutters DEF HistoryInv
<1>3. CASE ~UNCHANGED vars
  <2>1. PICK n \in Node : \E u : NodeStep(n, u)
    BY <1>3, StepIsNodeStep
  <2>2. PICK u : NodeStep(n, u)
    BY <2>1
  <2> DEFINE M == NextHistory(L, u)
  <2>3. HistoryStep(n, u, L, M)
    BY <1>1, <2>2 DEF HistoryStep
  <2> HIDE DEF M
  <2>4. History(M)'
    BY <2>3, HistoryExtends, LeaderLogsStep, NodeLogsStep, RequestLogsStep, ResponseLogsStep,
       CandidateLogsStep DEF History
  <2> QED BY <2>4 DEF HistoryInv
<1> QED BY <1>2, <1>3

LEMMA WinnersAreUnique == Spec => []UniqueWinner
<1>1. ElectionInv => UniqueWinner
  BY OneWinner DEF UniqueWinner
<1> QED BY <1>1, ElectionInvariance, PTL

\* All logs and requests are put together from the logs of the leaders.
THEOREM HistoryInvariance == Spec => []HistoryInv
<1>1. TypeInv /\ TypeInv' /\ ElectionInv /\ ElectionInv' /\ UniqueWinner' /\ HistoryInv
          /\ [Next]_vars => HistoryInv'
  BY HistoryNext
<1> QED
  BY <1>1, HistoryInit, TypeInvariance, ElectionInvariance, WinnersAreUnique, PTL DEF Spec

\* Logs that hold an entry of the same term at the same index are the same up
\* to there (handle_log_request, _reconcile_log, make_log_request).
THEOREM LogsMatch == Spec => []LogMatching
<1>1. ASSUME TypeInv, NEW L, History(L), NEW n \in Node, NEW p \in Node,
             NEW k \in 1 .. Len(node[n].log), k <= Len(node[p].log),
             node[n].log[k].term = node[p].log[k].term
      PROVE  Prefix(node[n].log, k) = Prefix(node[p].log, k)
  <2>1. /\ node[n].log \in Seq(LogEntry) /\ node[p].log \in Seq(LogEntry)
        /\ Len(node[n].log) \in Nat /\ Len(node[p].log) \in Nat
    BY <1>1, LenProperties DEF TypeInv, WellFormed, RaftState
  <2>2. Follows(node[n].log, L) /\ Follows(node[p].log, L)
    BY <1>1 DEF History, NodeLogs
  <2>3. k \in 1 .. Len(node[p].log) /\ k \in Nat
    BY <1>1, <2>1
  <2>4. Agree(node[n].log, node[p].log, k)
    BY <1>1, <2>2, <2>3, FollowsAgree
  <2> QED BY <2>1, <2>3, <2>4, PrefixEqual DEF Agree
<1>2. TypeInv /\ HistoryInv => LogMatching
  BY <1>1 DEF HistoryInv, LogMatching
<1> QED
  BY <1>2, TypeInvariance, HistoryInvariance, PTL

-----------------------------------------------------------------------------
(* Commitment.  The invariant extends the history of the leaders' logs by  *)
(* what the nodes have acknowledged: an entry of term t that a quorum has  *)
(* acknowledged is in the log of every leader of a later term, because a   *)
(* voter of that leader acknowledged it.                                   *)

Has(log, t, k) == k <= Len(log) /\ log[k].term = t

\* The leader of term t appended an entry of its own at k.
Entry(L, t, k) == t \in DOMAIN L /\ k \in 1 .. Len(L[t]) /\ L[t][k].term = t

\* v led term t, or acknowledged its leader's log up to k.
Acked(L, v, t, k) ==
    /\ t \in DOMAIN L /\ k \in 1 .. Len(L[t])
    /\ \/ HasLed(v, t)
       \/ \E m \in Sent("LogResponse") :
             m.success /\ m.followerId = v /\ m.term = t /\ k <= m.acknowledgedLength

\* A leader of a term after t, up to last, did not have the entry (t, k).
Dropped(L, t, k, last) ==
    \E x \in DOMAIN L : t < x /\ x <= last /\ ~Has(L[x], t, k)

\* c stood for term x with a log whose end is not behind (t, k).
UpToDate(c, x, t, k) ==
    \E m \in Elections :
        /\ m.candidateId = c /\ m.term = x
        /\ m.lastLogTerm > t \/ (m.lastLogTerm = t /\ m.logLength >= k)

-----------------------------------------------------------------------------
(* The invariant.                                                          *)

\* Who acknowledged an entry holds it, unless a later leader dropped it.
AckedHeld(L) ==
    \A v \in Node, t \in DOMAIN L : \A k \in 1 .. Len(L[t]) : Acked(L, v, t, k) =>
        /\ t <= node[v].currentTerm
        /\ t = node[v].currentTerm => Agree(node[v].log, L[t], k)
        /\ Entry(L, t, k) => Has(node[v].log, t, k) \/ Dropped(L, t, k, node[v].currentTerm)

\* Who acknowledged an entry votes for candidates only that are not behind it.
VotersHeld(L) ==
    \A v, c \in Node, x \in Nat, t \in DOMAIN L : \A k \in 1 .. Len(L[t]) :
        Voted(v, x, c) /\ t < x /\ Entry(L, t, k) /\ Acked(L, v, t, k)
            => UpToDate(c, x, t, k) \/ Dropped(L, t, k, x)

\* A quorum elected the leader of term x: what one of them had acknowledged
\* by then, the leader has.
LeadersHold(L) ==
    \A x \in DOMAIN L :
        \E Q \in SUBSET Node :
            /\ Cardinality(Q) >= QuorumSize
            /\ \A v \in Q :
                  /\ x <= node[v].currentTerm
                  /\ \A t \in DOMAIN L : \A k \in 1 .. Len(L[t]) :
                        t < x /\ Entry(L, t, k) /\ Acked(L, v, t, k)
                            => Has(L[x], t, k) \/ Dropped(L, t, k, x - 1)

\* A quorum acknowledged an entry of the leader's own term.
Chosen(L, t, k) ==
    /\ Entry(L, t, k)
    /\ \E Q \in SUBSET Node : Cardinality(Q) >= QuorumSize /\ \A v \in Q : Acked(L, v, t, k)

\* What is committed lies at or below a chosen entry.
Backed(L, k, last) ==
    k = 0 \/ \E t \in DOMAIN L : \E j \in 1 .. Len(L[t]) : t <= last /\ k <= j /\ Chosen(L, t, j)

CommitBacked(L, s) ==
    \/ s.commitLength = 0
    \/ \E t \in DOMAIN L : \E j \in 1 .. Len(L[t]) :
          /\ t <= s.currentTerm /\ s.commitLength <= j /\ Chosen(L, t, j)
          /\ Agree(s.log, L[t], s.commitLength)

AcksBacked(L, s) ==
    s.role = Leader => \A p \in Node :
        s.ackedLength[p] # 0 => Acked(L, p, s.currentTerm, s.ackedLength[p])

Commits(L) ==
    /\ \A n \in Node : CommitBacked(L, node[n]) /\ AcksBacked(L, node[n])
    /\ \A m \in Replications : Backed(L, m.leaderCommit, m.term)

Safety(L) == History(L) /\ AckedHeld(L) /\ VotersHeld(L) /\ LeadersHold(L) /\ Commits(L)

SafetyStep(n, u, L, M) == HistoryStep(n, u, L, M) /\ Safety(L)

-----------------------------------------------------------------------------
(* What a step keeps.                                                      *)

LEMMA StepFacts ==
    ASSUME NEW n \in Node, NEW u, NEW L, NEW M, HistoryStep(n, u, L, M)
    PROVE  /\ LogsOf(L) /\ LogsOf(M) /\ Extends(L, M)
           /\ node[n].currentTerm \in Nat /\ u.currentTerm \in Nat
           /\ node[n].currentTerm <= u.currentTerm
           /\ node[n].log \in Seq(LogEntry) /\ Len(node[n].log) \in Nat
           /\ u.log \in Seq(LogEntry) /\ Len(u.log) \in Nat
           /\ Follows(node[n].log, L) /\ LogMoves(node[n], u)
           /\ \A p \in Node : node'[p] = IF p = n THEN u ELSE node[p]
           /\ \A t \in DOMAIN L :
                 /\ t \in DOMAIN M /\ t \in Nat /\ Follows(L[t], L) /\ Sorted(L[t], t)
                 /\ L[t] \in Seq(LogEntry) /\ M[t] \in Seq(LogEntry)
                 /\ Len(L[t]) \in Nat /\ Len(M[t]) \in Nat /\ Len(L[t]) <= Len(M[t])
                 /\ \A k \in 1 .. Len(L[t]) : M[t][k] = L[t][k]
                 /\ \A k \in 1 .. Len(M[t]) : k <= Len(L[t]) \/ M[t][k].term = t
<1>1. LogsOf(L) /\ LogsOf(M) /\ Extends(L, M) /\ LeaderLogs(L)
  BY HistoryExtends DEF HistoryStep, History
<1>2. /\ node[n].currentTerm \in Nat /\ u.currentTerm \in Nat
      /\ node[n].currentTerm <= u.currentTerm
      /\ node[n].log \in Seq(LogEntry) /\ Len(node[n].log) \in Nat
      /\ u.log \in Seq(LogEntry) /\ Len(u.log) \in Nat /\ LogMoves(node[n], u)
  BY LenProperties DEF HistoryStep, NodeStep, KeepsVotes, TypeInv, WellFormed, RaftState
<1>3. Follows(node[n].log, L)
  BY DEF HistoryStep, History, NodeLogs
<1>4. \A p \in Node : node'[p] = IF p = n THEN u ELSE node[p]
  BY NodeStepNodes DEF HistoryStep
<1>5. ASSUME NEW t \in DOMAIN L
      PROVE  /\ t \in DOMAIN M /\ t \in Nat /\ Follows(L[t], L) /\ Sorted(L[t], t)
             /\ L[t] \in Seq(LogEntry) /\ M[t] \in Seq(LogEntry)
             /\ Len(L[t]) \in Nat /\ Len(M[t]) \in Nat /\ Len(L[t]) <= Len(M[t])
             /\ \A k \in 1 .. Len(L[t]) : M[t][k] = L[t][k]
             /\ \A k \in 1 .. Len(M[t]) : k <= Len(L[t]) \/ M[t][k].term = t
  BY <1>1, LenProperties DEF LogsOf, Extends, Agree, LeaderLogs
<1> QED BY <1>1, <1>2, <1>3, <1>4, <1>5

LEMMA EntryExtends ==
    ASSUME NEW n \in Node, NEW u, NEW L, NEW M, HistoryStep(n, u, L, M),
           NEW t \in DOMAIN L, NEW k \in 1 .. Len(L[t])
    PROVE  Entry(L, t, k) <=> Entry(M, t, k)
<1>1. /\ Len(L[t]) \in Nat /\ Len(M[t]) \in Nat /\ Len(L[t]) <= Len(M[t])
      /\ t \in DOMAIN M /\ M[t][k] = L[t][k]
  BY StepFacts
<1> QED BY <1>1 DEF Entry

LEMMA DroppedExtends ==
    ASSUME NEW n \in Node, NEW u, NEW L, NEW M, HistoryStep(n, u, L, M),
           NEW t \in Nat, NEW k \in Nat, k # 0, NEW i \in Nat, NEW j \in Nat, i <= j,
           Dropped(L, t, k, i)
    PROVE  Dropped(M, t, k, j)
<1>1. PICK x \in DOMAIN L : t < x /\ x <= i /\ ~Has(L[x], t, k)
  BY DEF Dropped
<1>2. /\ x \in DOMAIN M /\ x \in Nat
      /\ Len(L[x]) \in Nat /\ Len(M[x]) \in Nat /\ Len(L[x]) <= Len(M[x])
      /\ \A l \in 1 .. Len(L[x]) : M[x][l] = L[x][l]
      /\ \A l \in 1 .. Len(M[x]) : l <= Len(L[x]) \/ M[x][l].term = x
  BY <1>1, StepFacts
<1>3. ~Has(M[x], t, k)
  <2> SUFFICES ASSUME k <= Len(M[x]), M[x][k].term = t PROVE FALSE
    BY DEF Has
  <2>1. k \in 1 .. Len(M[x])
    BY <1>2
  <2>2. CASE k <= Len(L[x])
    <3>1. k \in 1 .. Len(L[x])
      BY <1>2, <2>2
    <3> QED BY <1>1, <1>2, <2>2, <3>1 DEF Has
  <2>3. CASE M[x][k].term = x
    BY <1>1, <1>2, <2>3
  <2> QED BY <1>2, <2>1, <2>2, <2>3
<1> QED BY <1>1, <1>2, <1>3 DEF Dropped

LEMMA AckedExtends ==
    ASSUME NEW n \in Node, NEW u, NEW L, NEW M, HistoryStep(n, u, L, M),
           NEW v \in Node, NEW t, NEW k, Acked(L, v, t, k)
    PROVE  Acked(M, v, t, k)'
<1>1. t \in DOMAIN L /\ k \in 1 .. Len(L[t])
  BY DEF Acked
<1>2. /\ t \in DOMAIN M /\ t \in Nat
      /\ Len(L[t]) \in Nat /\ Len(M[t]) \in Nat /\ Len(L[t]) <= Len(M[t])
  BY <1>1, StepFacts
<1>3. k \in 1 .. Len(M[t])
  BY <1>1, <1>2
<1>4. Sent("LogResponse") \subseteq Sent("LogResponse")'
  BY DEF HistoryStep, NodeStep, Sent
<1>5. HasLed(v, t) => HasLed(v, t)'
  BY <1>2, HasLedStays
<1> QED BY <1>2, <1>3, <1>4, <1>5 DEF Acked

\* A new acknowledgement is of the node that takes the step, in its term.
LEMMA NewAcks ==
    ASSUME NEW n \in Node, NEW u, NEW L, NEW M, HistoryStep(n, u, L, M),
           NEW v \in Node, NEW t, NEW k, Acked(M, v, t, k)'
    PROVE  Acked(L, v, t, k) \/ (v = n /\ t = u.currentTerm /\ Agree(u.log, M[t], k))
<1> DEFINE s == node[n]
<1>0. /\ History(L) /\ LogsOf(L) /\ LogsOf(M) /\ Extends(L, M) /\ u.currentTerm \in Nat
      /\ Len(u.log) \in Nat /\ u.log \in Seq(LogEntry) /\ s.log \in Seq(LogEntry)
      /\ Follows(s.log, L) /\ node'[n] = u
  BY StepFacts DEF HistoryStep
<1>1. t \in DOMAIN M /\ t \in Nat /\ k \in 1 .. Len(M[t]) /\ Len(M[t]) \in Nat /\ k \in Nat
  BY <1>0, LenProperties DEF Acked, LogsOf
<1>2. CASE HasLed(v, t)'
  <2>1. CASE t \in DOMAIN L /\ M[t] = L[t]
    <3>1. PICK c \in Node : HasLed(c, t)
      BY <1>0, <2>1 DEF History, LeaderLogs
    <3>2. HasLed(c, t)'
      BY <1>1, <3>1, HasLedStays
    <3>3. c = v
      BY <1>1, <1>2, <3>2 DEF HasLed, HistoryStep, UniqueWinner
    <3> QED BY <1>1, <2>1, <3>1, <3>3 DEF Acked
  <2>2. CASE u.role = Leader /\ t = u.currentTerm
    <3>1. Won(n, t)'
      BY <1>0, <2>2 DEF HistoryStep, ElectionInv, LeadersWon
    <3>2. v = n
      BY <1>1, <1>2, <3>1 DEF HasLed, HistoryStep, UniqueWinner
    <3>3. M[t] = u.log
      BY <2>2, HistoryExtends
    <3>4. Agree(u.log, M[t], k)
      BY <1>0, <1>1, <3>3 DEF Agree
    <3> QED BY <2>2, <3>2, <3>4
  <2> QED BY <1>1, <2>1, <2>2, HistoryExtends
<1>3. ASSUME NEW m \in Sent("LogResponse")', m.success, m.followerId = v, m.term = t,
             k <= m.acknowledgedLength
      PROVE  Acked(L, v, t, k) \/ (v = n /\ t = u.currentTerm /\ Agree(u.log, M[t], k))
  <2>1. CASE m \in Sent("LogResponse")
    <3>1. t \in DOMAIN L /\ m.acknowledgedLength <= Len(L[t])
      BY <1>0, <1>3, <2>1 DEF History, ResponseLogs
    <3>2. m.acknowledgedLength \in Nat /\ Len(L[t]) \in Nat
      <4>1. m \in LogResponse
        BY <2>1, SentType DEF HistoryStep, TypeInv
      <4> QED BY <1>0, <3>1, <4>1, LenProperties DEF LogResponse, LogsOf
    <3>3. k \in 1 .. Len(L[t])
      BY <1>1, <1>3, <3>1, <3>2
    <3> QED BY <1>3, <2>1, <3>1, <3>3 DEF Acked
  <2>2. CASE m \notin Sent("LogResponse")
    <3>1. m \in msgs' \ msgs /\ m.type = "LogResponse"
      BY <2>2 DEF Sent
    <3>2. Says(n, node[n], u, m)
      BY <3>1 DEF HistoryStep, NodeStep
    <3>3. v = n /\ t = u.currentTerm
      BY <1>3, <3>1, <3>2 DEF Says
    <3>4. PICK r \in Replications :
              Reconciles(s, u, r) /\ m.acknowledgedLength = r.prefixLength + Len(r.entries)
      BY <1>3, <3>1, <3>2 DEF Says
    <3>5. /\ r.term = t /\ r \in LogRequest /\ PrefixMatches(s.log, r)
          /\ u.log = ReconcileLog(s.log, r)
      BY <3>3, <3>4 DEF Reconciles
    <3>6. t \in DOMAIN L /\ Quotes(r, L[t])
      BY <1>0, <3>4, <3>5 DEF History, RequestLogs
    <3>7. L[t] \in Seq(LogEntry) /\ Follows(L[t], L)
      BY <3>6, StepFacts
    <3>8. Agree(u.log, L[t], m.acknowledgedLength)
      BY <1>0, <3>4, <3>5, <3>6, <3>7, ReconcileAgrees
    <3>9. m.acknowledgedLength \in Nat
      BY <3>4, <3>5, LenProperties DEF LogRequest
    <3>10. Agree(u.log, L[t], k)
      BY <1>0, <1>1, <1>3, <3>7, <3>8, <3>9, AgreeShorter
    <3>11. Agree(u.log, M[t], k)
      BY <1>0, <1>1, <3>6, <3>10, ExtendsAgree
    <3> QED BY <3>3, <3>11
  <2> QED BY <2>1, <2>2
<1> QED BY <1>2, <1>3 DEF Acked

\* A new vote is of the node that takes the step, for a candidate whose log
\* is not behind its own.
LEMMA NewVotesFor ==
    ASSUME NEW n \in Node, NEW u, NEW L, NEW M, HistoryStep(n, u, L, M),
           NEW v \in Node, NEW c \in Node, NEW x \in Nat, Voted(v, x, c)'
    PROVE  \/ Voted(v, x, c)
           \/ /\ v = n /\ x = u.currentTerm
              /\ \E m \in Elections' :
                    m.candidateId = c /\ m.term = x /\ LogIsCurrent(node[n], m)
<1> DEFINE s == node[n]
<1>0. Len(s.log) \in Nat
  BY StepFacts
<1>1. ASSUME NEW m \in Sent("VoteRequest")', m.candidateId = c, m.term = x, v = c
      PROVE  \/ Voted(v, x, c)
             \/ /\ v = n /\ x = u.currentTerm
                /\ \E r \in Elections' :
                      r.candidateId = c /\ r.term = x /\ LogIsCurrent(s, r)
  <2>1. CASE m \in Sent("VoteRequest")
    BY <1>1, <2>1 DEF Voted
  <2>2. CASE m \notin Sent("VoteRequest")
    <3>1. m \in msgs' \ msgs /\ m.type = "VoteRequest"
      BY <2>2 DEF Sent
    <3>2. Says(n, s, u, m)
      BY <3>1 DEF HistoryStep, NodeStep
    <3>3. /\ m.candidateId = n /\ m.term = u.currentTerm
          /\ m.logLength = Len(s.log) /\ m.lastLogTerm = LastLogTerm(s)
      BY <3>1, <3>2 DEF Says
    <3>4. LogIsCurrent(s, m)
      BY <1>0, <3>3 DEF LogIsCurrent
    <3>5. m \in Elections'
      BY <1>1 DEF Elections
    <3> QED BY <1>1, <3>3, <3>4, <3>5
  <2> QED BY <2>1, <2>2
<1>2. ASSUME NEW m \in Sent("VoteResponse")', m.granted, m.voterId = v, m.to = c, m.term = x
      PROVE  \/ Voted(v, x, c)
             \/ /\ v = n /\ x = u.currentTerm
                /\ \E r \in Elections' :
                      r.candidateId = c /\ r.term = x /\ LogIsCurrent(s, r)
  <2>1. CASE m \in Sent("VoteResponse")
    BY <1>2, <2>1 DEF Voted
  <2>2. CASE m \notin Sent("VoteResponse")
    <3>1. m \in msgs' \ msgs /\ m.type = "VoteResponse"
      BY <2>2 DEF Sent
    <3>2. Says(n, s, u, m)
      BY <3>1 DEF HistoryStep, NodeStep
    <3>3. m.voterId = n /\ m.term = u.currentTerm
      BY <1>2, <3>1, <3>2 DEF Says
    <3>4. PICK r \in Elections : r.candidateId = c /\ r.term = x /\ LogIsCurrent(s, r)
      BY <1>2, <3>1, <3>2 DEF Says
    <3>5. r \in Elections'
      BY <3>4 DEF Elections, Sent, HistoryStep, NodeStep
    <3> QED BY <1>2, <3>3, <3>4, <3>5
  <2> QED BY <2>1, <2>2
<1> QED BY <1>1, <1>2 DEF Voted

-----------------------------------------------------------------------------
(* What was acknowledged is held.                                          *)

\* A request of a leader never takes away what the log shares with the
\* leader's log.
LEMMA ReconcileKeepsAgreement ==
    ASSUME NEW L, NEW log \in Seq(LogEntry), NEW lead \in Seq(LogEntry), NEW m \in LogRequest,
           Follows(log, L), Follows(lead, L), Quotes(m, lead), PrefixMatches(log, m),
           ReconcileLog(log, m) \in Seq(LogEntry), NEW k \in Nat, Agree(log, lead, k)
    PROVE  Agree(ReconcileLog(log, m), lead, k)
<1> DEFINE new == ReconcileLog(log, m)
           p == m.prefixLength
           es == m.entries
           end == p + Len(es)
<1>1. /\ Len(log) \in Nat /\ p \in Nat /\ Len(es) \in Nat /\ end \in Nat
      /\ m.prefixLength <= Len(log) /\ k <= Len(log)
  BY LenProperties DEF LogRequest, PrefixMatches, Agree
<1>2. Agree(new, lead, end) /\ (new = log \/ Len(new) = end)
  BY ReconcileAgrees
<1>3. CASE new = log
  BY <1>3
<1>4. CASE k <= end
  <2> HIDE DEF new, end
  <2>1. Agree(new, lead, k)
    BY <1>1, <1>2, <1>4, AgreeShorter DEF new
  <2> QED BY <2>1 DEF new
<1>5. CASE new # log /\ end < k
  <2>1. Conflicts(log, m) # {}
    BY <1>1, <1>5, ReconcileLogEntries
  <2>2. PICK j : j \in Conflicts(log, m)
    BY <2>1
  <2>3. j \in Overlap(log, m) /\ log[j].term # es[j - p].term
    BY <2>2 DEF Conflicts
  <2>4. j \in (p + 1) .. (p + Len(es))
    BY <2>3 DEF Overlap
  <2>5. j - p \in 1 .. Len(es) /\ p + (j - p) = j /\ j \in 1 .. k
    BY <1>1, <1>5, <2>4
  <2>6. es[j - p] = lead[p + (j - p)]
    BY <2>5 DEF Quotes
  <2>7. log[j] = lead[j]
    BY <2>5 DEF Agree
  <2> QED BY <2>3, <2>5, <2>6, <2>7
<1> QED BY <1>1, <1>2, <1>3, <1>4, <1>5

\* The node keeps an agreement with a leader whose requests it takes over.
LEMMA StepKeepsAgreement ==
    ASSUME NEW n \in Node, NEW u, NEW L, NEW M, HistoryStep(n, u, L, M),
           NEW t \in DOMAIN L, NEW k \in Nat, Agree(node[n].log, L[t], k),
           \A m \in Replications : Reconciles(node[n], u, m) => Agree(node[n].log, L[m.term], k)
    PROVE  Agree(u.log, M[t], k)
<1> DEFINE s == node[n]
<1>0. /\ LogsOf(L) /\ LogsOf(M) /\ Extends(L, M) /\ LogMoves(s, u) /\ RequestLogs(L)
      /\ s.log \in Seq(LogEntry) /\ u.log \in Seq(LogEntry) /\ Follows(s.log, L)
      /\ Len(s.log) \in Nat /\ Len(u.log) \in Nat /\ s.currentTerm \in Nat
  BY StepFacts DEF HistoryStep, History
<1>1. k <= Len(s.log) /\ k <= Len(L[t]) /\ \A j \in 1 .. k : s.log[j] = L[t][j]
  BY DEF Agree
<1>2. k <= Len(u.log) /\ \A j \in 1 .. k : u.log[j] = s.log[j]
  <2>1. CASE u.log = s.log
    BY <1>1, <2>1
  <2>2. ASSUME NEW c \in Command,
               u.log = Append(s.log, [command |-> c, term |-> s.currentTerm])
        PROVE  k <= Len(u.log) /\ \A j \in 1 .. k : u.log[j] = s.log[j]
    <3>1. [command |-> c, term |-> s.currentTerm] \in LogEntry
      BY <1>0 DEF LogEntry
    <3> HIDE DEF s
    <3> QED BY <1>0, <1>1, <2>2, <3>1, AppendProperties
  <2>3. ASSUME NEW m \in Replications, Reconciles(s, u, m)
        PROVE  k <= Len(u.log) /\ \A j \in 1 .. k : u.log[j] = s.log[j]
    <3>1. /\ m \in LogRequest /\ PrefixMatches(s.log, m) /\ u.log = ReconcileLog(s.log, m)
          /\ m.term \in DOMAIN L /\ Quotes(m, L[m.term])
      BY <1>0, <2>3 DEF Reconciles, RequestLogs
    <3>2. L[m.term] \in Seq(LogEntry) /\ Follows(L[m.term], L)
      BY <3>1, StepFacts
    <3>3. Agree(s.log, L[m.term], k)
      BY <2>3
    <3>4. Agree(u.log, L[m.term], k)
      BY <1>0, <3>1, <3>2, <3>3, ReconcileKeepsAgreement
    <3> QED BY <3>3, <3>4 DEF Agree
  <2> QED BY <1>0, <2>1, <2>2, <2>3 DEF LogMoves
<1>3. Agree(u.log, L[t], k)
  BY <1>1, <1>2 DEF Agree
<1> QED BY <1>0, <1>3, ExtendsAgree

\* The node keeps an entry, or the leader whose request takes it dropped it.
LEMMA StepKeepsEntry ==
    ASSUME NEW n \in Node, NEW u, NEW L, NEW M, HistoryStep(n, u, L, M),
           NEW t \in DOMAIN L, NEW k \in 1 .. Len(L[t]), Entry(L, t, k),
           t <= node[n].currentTerm, Has(node[n].log, t, k)
    PROVE  Has(u.log, t, k) \/ Dropped(L, t, k, u.currentTerm)
<1> DEFINE s == node[n]
<1>0. /\ s.log \in Seq(LogEntry) /\ Len(s.log) \in Nat /\ Follows(s.log, L)
      /\ L[t] \in Seq(LogEntry) /\ Len(L[t]) \in Nat /\ Follows(L[t], L)
      /\ t \in DOMAIN M /\ M[t][k] = L[t][k] /\ RequestLogs(L)
      /\ t \in Nat /\ s.currentTerm \in Nat /\ u.currentTerm \in Nat
  BY StepFacts DEF HistoryStep, History
<1>1. k \in Nat /\ k \in 1 .. Len(s.log) /\ L[t][k].term = t /\ s.log[k].term = t
  BY <1>0 DEF Has, Entry
<1>2. Agree(s.log, L[t], k)
  BY <1>0, <1>1, FollowsAgree
<1>3. CASE \A m \in Replications : Reconciles(s, u, m) => Has(L[m.term], t, k)
  <2>1. ASSUME NEW m \in Replications, Reconciles(s, u, m) PROVE Agree(s.log, L[m.term], k)
    <3>1. m.term \in DOMAIN L /\ Has(L[m.term], t, k)
      BY <1>0, <1>3, <2>1 DEF RequestLogs
    <3>2. L[m.term] \in Seq(LogEntry) /\ Len(L[m.term]) \in Nat /\ Follows(L[m.term], L)
      BY <3>1, StepFacts
    <3>3. k \in 1 .. Len(L[m.term]) /\ L[m.term][k].term = t
      BY <1>1, <3>1, <3>2 DEF Has
    <3> QED BY <1>0, <1>1, <3>2, <3>3, FollowsAgree
  <2>2. Agree(u.log, M[t], k)
    BY <1>1, <1>2, <2>1, StepKeepsAgreement
  <2>3. k \in 1 .. k
    BY <1>1
  <2> QED BY <1>0, <1>1, <2>2, <2>3 DEF Agree, Has
<1>4. ASSUME NEW m \in Replications, Reconciles(s, u, m), ~Has(L[m.term], t, k)
      PROVE  Dropped(L, t, k, u.currentTerm)
  <2>1. m.term \in DOMAIN L /\ m.term = u.currentTerm /\ s.currentTerm <= m.term
    BY <1>0, <1>4 DEF RequestLogs, Reconciles
  <2>2. m.term # t
    BY <1>0, <1>1, <1>4 DEF Has
  <2>3. t < m.term /\ m.term <= u.currentTerm
    BY <1>0, <2>1, <2>2
  <2> QED BY <1>4, <2>1, <2>3 DEF Dropped
<1> QED BY <1>3, <1>4

LEMMA AckedHeldStep ==
    ASSUME NEW n \in Node, NEW u, NEW L, NEW M, SafetyStep(n, u, L, M)
    PROVE  AckedHeld(M)'
<1> DEFINE s == node[n]
<1>0. /\ HistoryStep(n, u, L, M) /\ AckedHeld(L) /\ LogsOf(M) /\ LogsOf(L) /\ Extends(L, M)
      /\ s.currentTerm \in Nat /\ u.currentTerm \in Nat /\ s.currentTerm <= u.currentTerm
      /\ Len(u.log) \in Nat
  BY StepFacts DEF SafetyStep, Safety
<1>1. \A p \in Node : node'[p] = IF p = n THEN u ELSE node[p]
  BY <1>0, StepFacts
<1>2. SUFFICES ASSUME NEW v \in Node, NEW t \in DOMAIN M, NEW k \in 1 .. Len(M[t]),
                      Acked(M, v, t, k)'
               PROVE  /\ t <= node'[v].currentTerm
                      /\ t = node'[v].currentTerm => Agree(node'[v].log, M[t], k)
                      /\ Entry(M, t, k) => \/ Has(node'[v].log, t, k)
                                          \/ Dropped(M, t, k, node'[v].currentTerm)
  BY DEF AckedHeld, Acked, Entry, Dropped
<1>3. t \in Nat /\ Len(M[t]) \in Nat /\ k \in Nat /\ k # 0
  BY <1>0, LenProperties DEF LogsOf
<1>4. CASE v = n /\ t = u.currentTerm /\ Agree(u.log, M[t], k)
  <2>1. Entry(M, t, k) => Has(u.log, t, k)
    BY <1>3, <1>4 DEF Agree, Entry, Has
  <2> QED BY <1>0, <1>1, <1>4, <2>1
<1>5. CASE Acked(L, v, t, k)
  <2>1. t \in DOMAIN L /\ k \in 1 .. Len(L[t])
    BY <1>5 DEF Acked
  <2>2. /\ t <= node[v].currentTerm
        /\ t = node[v].currentTerm => Agree(node[v].log, L[t], k)
        /\ Entry(L, t, k) => Has(node[v].log, t, k) \/ Dropped(L, t, k, node[v].currentTerm)
    BY <1>0, <1>5, <2>1 DEF AckedHeld
  <2>3. Entry(M, t, k) => Entry(L, t, k)
    BY <1>0, <2>1, EntryExtends
  <2>4. node[v].currentTerm \in Nat
    BY <1>0 DEF HistoryStep, TypeInv, WellFormed, RaftState
  <2>5. CASE v # n
    <3>1. node'[v] = node[v]
      BY <1>1, <2>5
    <3>2. Agree(node[v].log, L[t], k) => Agree(node[v].log, M[t], k)
      BY <1>0, <1>3, <2>1, ExtendsAgree
    <3>3. Dropped(L, t, k, node[v].currentTerm) => Dropped(M, t, k, node[v].currentTerm)
      BY <1>0, <1>3, <2>4, DroppedExtends
    <3> QED BY <2>2, <2>3, <3>1, <3>2, <3>3
  <2>6. CASE v = n
    <3>1. node'[v] = u /\ node[v] = s
      BY <1>1, <2>6
    <3>2. t <= u.currentTerm
      BY <1>0, <1>3, <2>2, <3>1
    <3>3. t = u.currentTerm => Agree(u.log, M[t], k)
      <4> SUFFICES ASSUME t = u.currentTerm PROVE Agree(u.log, M[t], k)
        OBVIOUS
      <4>1. Agree(s.log, L[t], k)
        BY <1>0, <1>3, <2>2, <3>1
      <4>2. \A m \in Replications : Reconciles(s, u, m) => Agree(s.log, L[m.term], k)
        BY <4>1 DEF Reconciles
      <4> QED BY <1>0, <1>3, <2>1, <4>1, <4>2, StepKeepsAgreement
    <3>4. Entry(M, t, k) => Has(u.log, t, k) \/ Dropped(M, t, k, u.currentTerm)
      <4>1. Dropped(L, t, k, s.currentTerm) => Dropped(M, t, k, u.currentTerm)
        BY <1>0, <1>3, DroppedExtends
      <4>2. Dropped(L, t, k, u.currentTerm) => Dropped(M, t, k, u.currentTerm)
        BY <1>0, <1>3, DroppedExtends
      <4>3. Entry(L, t, k) /\ Has(s.log, t, k) =>
                Has(u.log, t, k) \/ Dropped(L, t, k, u.currentTerm)
        BY <1>0, <2>1, <2>2, <3>1, StepKeepsEntry
      <4> QED BY <2>2, <2>3, <3>1, <4>1, <4>2, <4>3
    <3> QED BY <3>1, <3>2, <3>3, <3>4
  <2> QED BY <2>5, <2>6
<1> QED BY <1>0, <1>2, <1>4, <1>5, NewAcks

-----------------------------------------------------------------------------
(* Voters and leaders.                                                     *)

\* A log that is not behind one that has the entry (t, k).
LEMMA CurrentLog ==
    ASSUME NEW s, s.log \in Seq(LogEntry), Sorted(s.log, s.currentTerm),
           NEW m \in VoteRequest, LogIsCurrent(s, m), NEW t \in Nat, NEW k \in Nat, k # 0,
           Has(s.log, t, k)
    PROVE  m.lastLogTerm > t \/ (m.lastLogTerm = t /\ m.logLength >= k)
<1> DEFINE last == Len(s.log)
<1>1. last \in Nat /\ k \in 1 .. last /\ last \in 1 .. last /\ s.log[k].term = t
  BY LenProperties DEF Has
<1>2. s.log[last] \in LogEntry
  BY <1>1, ElementOfSeq
<1>3. LastLogTerm(s) = s.log[last].term /\ LastLogTerm(s) \in Nat
  BY <1>1, <1>2 DEF LastLogTerm, TermAt, LogEntry
<1>4. t <= LastLogTerm(s)
  BY <1>1, <1>3 DEF Sorted
<1>5. m.lastLogTerm \in Nat /\ m.logLength \in Nat
  BY DEF VoteRequest
<1> QED BY <1>1, <1>3, <1>4, <1>5 DEF LogIsCurrent

\* Votes of the step, for entries of the history before it.
LEMMA VotersHeldNow ==
    ASSUME NEW n \in Node, NEW u, NEW L, NEW M, SafetyStep(n, u, L, M),
           NEW v \in Node, NEW c \in Node, NEW x \in Nat, NEW t \in DOMAIN L,
           NEW k \in 1 .. Len(L[t]), Voted(v, x, c)', t < x, Entry(L, t, k), Acked(L, v, t, k)
    PROVE  UpToDate(c, x, t, k)' \/ Dropped(L, t, k, x)
<1> DEFINE s == node[n]
<1>0. /\ HistoryStep(n, u, L, M) /\ AckedHeld(L) /\ VotersHeld(L)
      /\ s.currentTerm \in Nat /\ u.currentTerm \in Nat /\ s.currentTerm <= u.currentTerm
      /\ s.log \in Seq(LogEntry) /\ t \in Nat /\ Len(L[t]) \in Nat
  BY StepFacts DEF SafetyStep, Safety
<1>1. Elections \subseteq Elections'
  BY <1>0 DEF Elections, Sent, HistoryStep, NodeStep
<1>2. CASE Voted(v, x, c)
  <2>1. UpToDate(c, x, t, k) \/ Dropped(L, t, k, x)
    BY <1>0, <1>2 DEF VotersHeld
  <2>2. UpToDate(c, x, t, k) => UpToDate(c, x, t, k)'
    BY <1>1 DEF UpToDate
  <2> QED BY <2>1, <2>2
<1>3. ASSUME v = n, x = u.currentTerm, NEW m \in Elections', m.candidateId = c, m.term = x,
             LogIsCurrent(s, m)
      PROVE  UpToDate(c, x, t, k)' \/ Dropped(L, t, k, x)
  <2>1. k \in Nat /\ k # 0
    BY <1>0
  <2>2. Has(s.log, t, k) \/ Dropped(L, t, k, s.currentTerm)
    BY <1>0, <1>3 DEF AckedHeld
  <2>3. Dropped(L, t, k, s.currentTerm) => Dropped(L, t, k, x)
    <3>1. \A y \in DOMAIN L : y \in Nat
      BY <1>0, StepFacts
    <3> QED BY <1>0, <1>3, <3>1 DEF Dropped
  <2>4. CASE Has(s.log, t, k)
    <3>1. Sorted(s.log, s.currentTerm)
      BY <1>0 DEF HistoryStep, History, NodeLogs
    <3>2. m \in VoteRequest
      BY <1>0 DEF HistoryStep, TypeInv, TypeOK, Elections, Sent, Message,
                  VoteRequest, VoteResponse, LogRequest, LogResponse
    <3>3. m.lastLogTerm > t \/ (m.lastLogTerm = t /\ m.logLength >= k)
      BY <1>0, <1>3, <2>1, <2>4, <3>1, <3>2, CurrentLog
    <3> QED BY <1>3, <3>3 DEF UpToDate
  <2> QED BY <2>2, <2>3, <2>4
<1> QED BY <1>0, <1>2, <1>3, NewVotesFor

LEMMA VotersHeldStep ==
    ASSUME NEW n \in Node, NEW u, NEW L, NEW M, SafetyStep(n, u, L, M)
    PROVE  VotersHeld(M)'
<1>0. HistoryStep(n, u, L, M) /\ LogsOf(M) /\ node'[n] = u
  BY StepFacts DEF SafetyStep
<1>1. SUFFICES ASSUME NEW v \in Node, NEW c \in Node, NEW x \in Nat, NEW t \in DOMAIN M,
                      NEW k \in 1 .. Len(M[t]), Voted(v, x, c)', t < x, Entry(M, t, k),
                      Acked(M, v, t, k)'
               PROVE  UpToDate(c, x, t, k)' \/ Dropped(M, t, k, x)
  BY DEF VotersHeld, Entry, Dropped
<1>2. t \in Nat /\ Len(M[t]) \in Nat /\ k \in Nat /\ k # 0
  BY <1>0, LenProperties DEF LogsOf
<1>3. CASE v = n /\ t = u.currentTerm
  <2>1. x <= u.currentTerm
    BY <1>0, <1>1, <1>3 DEF HistoryStep, ElectionInv, VotesKept
  <2> QED BY <1>1, <1>2, <1>3, <2>1
<1>4. CASE Acked(L, v, t, k)
  <2>1. t \in DOMAIN L /\ k \in 1 .. Len(L[t])
    BY <1>4 DEF Acked
  <2>2. Entry(L, t, k)
    BY <1>0, <1>1, <2>1, EntryExtends
  <2>3. UpToDate(c, x, t, k)' \/ Dropped(L, t, k, x)
    BY <1>1, <1>4, <2>1, <2>2, VotersHeldNow
  <2>4. Dropped(L, t, k, x) => Dropped(M, t, k, x)
    BY <1>0, <1>2, DroppedExtends
  <2> QED BY <2>3, <2>4
<1> QED BY <1>0, <1>1, <1>3, <1>4, NewAcks

\* n becomes the leader of term u.currentTerm: among the voters that elected
\* it, none had acknowledged what its log lacks.
LEMMA NewLeaderHolds ==
    ASSUME NEW n \in Node, NEW u, NEW L, NEW M, SafetyStep(n, u, L, M),
           u.role = Leader, u.currentTerm \notin DOMAIN L, u.log = node[n].log,
           NEW t \in DOMAIN L, NEW k \in 1 .. Len(L[t]), t < u.currentTerm, Entry(L, t, k),
           UpToDate(n, u.currentTerm, t, k)'
    PROVE  Has(u.log, t, k) \/ Dropped(L, t, k, u.currentTerm - 1)
<1> DEFINE s == node[n]
           x == u.currentTerm
           last == Len(s.log)
<1>0. /\ HistoryStep(n, u, L, M) /\ History(L)
      /\ s.currentTerm \in Nat /\ x \in Nat /\ s.currentTerm <= x
      /\ s.log \in Seq(LogEntry) /\ last \in Nat /\ Follows(s.log, L)
      /\ t \in Nat /\ Len(L[t]) \in Nat /\ LogsOf(L)
  BY StepFacts DEF SafetyStep, Safety
<1>1. k \in Nat /\ k # 0
  BY <1>0
<1>2. PICK m \in Elections' :
          /\ m.candidateId = n /\ m.term = x
          /\ m.lastLogTerm > t \/ (m.lastLogTerm = t /\ m.logLength >= k)
  BY DEF UpToDate
<1>3. m.logLength = last /\ m.lastLogTerm = LastLogTerm(s)
  <2>1. CASE m \in Elections
    <3>1. /\ x <= s.currentTerm
          /\ s.role = Candidate => m.logLength = last /\ m.lastLogTerm = LastLogTerm(s)
      BY <1>0, <1>2, <2>1 DEF History, CandidateLogs
    <3>2. s.currentTerm < x \/ s.role = Candidate \/ SameElection(s, u)
      BY <1>0 DEF HistoryStep, NodeStep, RoleMoves
    <3>3. ~SameElection(s, u)
      BY <1>0 DEF SameElection, History, NodeLogs
    <3> QED BY <1>0, <3>1, <3>2, <3>3
  <2>2. CASE m \notin Elections
    <3>1. m \in msgs' \ msgs /\ m.type = "VoteRequest"
      BY <2>2 DEF Elections, Sent
    <3>2. Says(n, s, u, m)
      BY <1>0, <3>1 DEF HistoryStep, NodeStep
    <3> QED BY <3>1, <3>2 DEF Says
  <2> QED BY <2>1, <2>2
<1>4. last # 0 /\ LastLogTerm(s) = s.log[last].term
  <2>1. CASE last = 0
    <3>1. LastLogTerm(s) = 0
      BY <2>1 DEF LastLogTerm, TermAt
    <3> QED BY <1>0, <1>1, <1>2, <1>3, <2>1, <3>1
  <2> QED BY <2>1 DEF LastLogTerm, TermAt
<1> DEFINE y == s.log[last].term
<1>5. /\ last \in 1 .. last /\ y \in DOMAIN L /\ Agree(s.log, L[y], last) /\ y \in Nat
      /\ L[y] \in Seq(LogEntry) /\ Len(L[y]) \in Nat /\ Sorted(L[y], y)
  <2>1. last \in 1 .. last
    BY <1>0, <1>4
  <2>2. y \in DOMAIN L /\ Agree(s.log, L[y], last)
    BY <1>0, <2>1 DEF Follows
  <2> HIDE DEF y
  <2> QED BY <1>0, <2>1, <2>2, StepFacts
<1>6. y <= x /\ y # x
  <2>1. y <= s.currentTerm
    BY <1>0, <1>5 DEF History, NodeLogs, Sorted
  <2> HIDE DEF y
  <2> QED BY <1>0, <1>5, <2>1
<1>7. CASE y = t /\ last >= k
  <2>1. k \in 1 .. last /\ s.log[k] = L[t][k]
    BY <1>0, <1>1, <1>5, <1>7 DEF Agree
  <2> QED BY <1>7, <2>1 DEF Has, Entry
<1>8. CASE t < y
  <2> HIDE DEF y
  <2>1. CASE ~Has(L[y], t, k)
    <3>1. y <= x - 1
      BY <1>0, <1>5, <1>6
    <3> QED BY <1>5, <1>8, <2>1, <3>1 DEF Dropped
  <2>2. CASE Has(L[y], t, k)
    <3>1. k \in 1 .. Len(L[y]) /\ L[y][k].term = t
      BY <1>1, <1>5, <2>2 DEF Has
    <3>2. k <= last
      <4> SUFFICES ASSUME last < k PROVE FALSE
        BY <1>0, <1>1
      <4>1. last \in 1 .. k
        BY <1>0, <1>1, <1>4
      <4>2. L[y][last].term <= L[y][k].term
        BY <1>5, <3>1, <4>1 DEF Sorted
      <4>3. L[y][last].term = y
        BY <1>5 DEF Agree, y
      <4> QED BY <1>0, <1>5, <1>8, <3>1, <4>2, <4>3
    <3>3. k \in 1 .. last
      BY <1>0, <1>1, <3>2
    <3>4. s.log[k] = L[y][k]
      BY <1>5, <3>3 DEF Agree
    <3> QED BY <3>1, <3>2, <3>4 DEF Has
  <2> QED BY <2>1, <2>2
<1> QED BY <1>0, <1>1, <1>2, <1>3, <1>4, <1>5, <1>7, <1>8

LEMMA LeadersHoldStep ==
    ASSUME NEW n \in Node, NEW u, NEW L, NEW M, SafetyStep(n, u, L, M)
    PROVE  LeadersHold(M)'
<1> DEFINE Backs(x, v) ==
               /\ x <= node'[v].currentTerm
               /\ \A t \in DOMAIN M : \A k \in 1 .. Len(M[t]) :
                     t < x /\ Entry(M, t, k) /\ Acked(M, v, t, k)'
                         => Has(M[x], t, k) \/ Dropped(M, t, k, x - 1)
<1>0. /\ HistoryStep(n, u, L, M) /\ LogsOf(M) /\ LogsOf(L) /\ LeadersHold(L)
      /\ u.currentTerm \in Nat /\ node[n].currentTerm <= u.currentTerm
      /\ node[n].currentTerm \in Nat
  BY StepFacts DEF SafetyStep, Safety
<1>1. \A p \in Node : node'[p] = IF p = n THEN u ELSE node[p]
  BY <1>0, StepFacts
<1>2. \A t \in DOMAIN M : t \in Nat /\ Len(M[t]) \in Nat
  BY <1>0, LenProperties DEF LogsOf
\* New acknowledgements are of the term that the node has reached.
<1>3. ASSUME NEW x \in Nat, NEW v \in Node, x <= node'[v].currentTerm,
             NEW t \in DOMAIN M, NEW k \in 1 .. Len(M[t]), t < x, Entry(M, t, k),
             Acked(M, v, t, k)'
      PROVE  t \in DOMAIN L /\ k \in 1 .. Len(L[t]) /\ Entry(L, t, k) /\ Acked(L, v, t, k)
  <2>1. ~(v = n /\ t = u.currentTerm)
    BY <1>0, <1>1, <1>2, <1>3
  <2>2. Acked(L, v, t, k)
    BY <1>0, <1>3, <2>1, NewAcks
  <2>3. t \in DOMAIN L /\ k \in 1 .. Len(L[t])
    BY <2>2 DEF Acked
  <2> QED BY <1>0, <1>3, <2>2, <2>3, EntryExtends
<1>4. ASSUME NEW x \in DOMAIN L
      PROVE  \E Q \in SUBSET Node : Cardinality(Q) >= QuorumSize /\ \A v \in Q : Backs(x, v)
  <2>1. PICK Q \in SUBSET Node :
            /\ Cardinality(Q) >= QuorumSize
            /\ \A v \in Q :
                  /\ x <= node[v].currentTerm
                  /\ \A t \in DOMAIN L : \A k \in 1 .. Len(L[t]) :
                        t < x /\ Entry(L, t, k) /\ Acked(L, v, t, k)
                            => Has(L[x], t, k) \/ Dropped(L, t, k, x - 1)
    BY <1>0 DEF LeadersHold
  <2>2. /\ x \in Nat /\ x \in DOMAIN M /\ Len(L[x]) \in Nat /\ Len(L[x]) <= Len(M[x])
        /\ Len(M[x]) \in Nat
        /\ \A k \in 1 .. Len(L[x]) : M[x][k] = L[x][k]
    BY <1>0, StepFacts
  <2>3. ASSUME NEW v \in Q PROVE Backs(x, v)
    <3>0. v \in Node /\ x <= node[v].currentTerm
      BY <2>1
    <3>1. x <= node'[v].currentTerm
      BY <1>0, <1>1, <2>2, <3>0
    <3>2. ASSUME NEW t \in DOMAIN M, NEW k \in 1 .. Len(M[t]), t < x, Entry(M, t, k),
                 Acked(M, v, t, k)'
          PROVE  Has(M[x], t, k) \/ Dropped(M, t, k, x - 1)
      <4>1. t \in DOMAIN L /\ k \in 1 .. Len(L[t]) /\ Entry(L, t, k) /\ Acked(L, v, t, k)
        BY <1>3, <2>2, <3>0, <3>1, <3>2
      <4>2. Has(L[x], t, k) \/ Dropped(L, t, k, x - 1)
        BY <2>1, <3>2, <4>1
      <4>3. t \in Nat /\ k \in Nat /\ k # 0 /\ x - 1 \in Nat
        BY <1>2, <2>2, <3>2
      <4>4. Has(L[x], t, k) => Has(M[x], t, k)
        BY <2>2, <4>3 DEF Has
      <4>5. Dropped(L, t, k, x - 1) => Dropped(M, t, k, x - 1)
        BY <1>0, <4>3, DroppedExtends
      <4> QED BY <4>2, <4>4, <4>5
    <3> QED BY <3>1, <3>2
  <2> HIDE DEF Backs
  <2> QED BY <2>1, <2>3
<1>5. ASSUME u.role = Leader, u.currentTerm \notin DOMAIN L
      PROVE  \E Q \in SUBSET Node :
                 Cardinality(Q) >= QuorumSize /\ \A v \in Q : Backs(u.currentTerm, v)
  <2> DEFINE x == u.currentTerm
  <2>0. /\ u.log = node[n].log /\ M[x] = u.log
    <3>1. ~(SameElection(node[n], u) /\ node[n].role = Leader)
      BY <1>0, <1>5 DEF SameElection, HistoryStep, History, NodeLogs
    <3> QED BY <1>0, <1>5, <3>1, LeaderIsOldOrNew, HistoryExtends
  <2>1. Won(n, x)'
    BY <1>0, <1>1, <1>5 DEF HistoryStep, ElectionInv, LeadersWon
  <2>2. PICK Q \in SUBSET Node : Cardinality(Q) >= QuorumSize /\ \A v \in Q : Voted(v, x, n)'
    BY <2>1 DEF Won
  <2>3. ASSUME NEW v \in Q PROVE Backs(x, v)
    <3>0. v \in Node /\ Voted(v, x, n)' /\ x \in Nat
      BY <1>0, <2>2
    <3>1. x <= node'[v].currentTerm
      BY <1>0, <3>0 DEF HistoryStep, ElectionInv, VotesKept
    <3> HIDE DEF x
    <3>2. ASSUME NEW t \in DOMAIN M, NEW k \in 1 .. Len(M[t]), t < x, Entry(M, t, k),
                 Acked(M, v, t, k)'
          PROVE  Has(M[x], t, k) \/ Dropped(M, t, k, x - 1)
      <4>1. t \in DOMAIN L /\ k \in 1 .. Len(L[t]) /\ Entry(L, t, k) /\ Acked(L, v, t, k)
        BY <1>3, <3>0, <3>1, <3>2
      <4>2. UpToDate(n, x, t, k)' \/ Dropped(L, t, k, x)
        BY <3>0, <3>2, <4>1, VotersHeldNow
      <4>3. t \in Nat /\ k \in Nat /\ k # 0 /\ x - 1 \in Nat
        BY <1>2, <3>0, <3>2
      <4>4. Dropped(L, t, k, x) => Dropped(L, t, k, x - 1)
        <5> SUFFICES ASSUME Dropped(L, t, k, x) PROVE Dropped(L, t, k, x - 1)
          OBVIOUS
        <5>1. PICK y \in DOMAIN L : t < y /\ y <= x /\ ~Has(L[y], t, k)
          BY DEF Dropped
        <5>2. y \in Nat /\ y # x
          BY <1>0, <1>5, StepFacts DEF x
        <5>3. y <= x - 1
          BY <3>0, <5>1, <5>2
        <5> QED BY <5>1, <5>3 DEF Dropped
      <4>5. Has(u.log, t, k) \/ Dropped(L, t, k, x - 1)
        BY <1>5, <2>0, <3>2, <4>1, <4>2, <4>4, NewLeaderHolds DEF x
      <4>6. Dropped(L, t, k, x - 1) => Dropped(M, t, k, x - 1)
        BY <1>0, <4>3, DroppedExtends
      <4> QED BY <2>0, <4>5, <4>6
    <3> QED BY <3>1, <3>2
  <2> HIDE DEF Backs
  <2> QED BY <2>2, <2>3
<1>6. \A x \in DOMAIN M : x \in DOMAIN L \/ (u.role = Leader /\ x = u.currentTerm)
  BY <1>0, HistoryExtends
<1>7. ASSUME NEW x \in DOMAIN M
      PROVE  \E Q \in SUBSET Node : Cardinality(Q) >= QuorumSize /\ \A v \in Q : Backs(x, v)
  <2> HIDE DEF Backs
  <2> QED BY <1>4, <1>5, <1>6
<1> QED BY <1>7 DEF LeadersHold, Entry, Dropped

-----------------------------------------------------------------------------
(* What is chosen stays in the logs of the leaders.                        *)

LEMMA ChosenHeld ==
    ASSUME NEW L, LogsOf(L), LeadersHold(L), NEW t \in Nat, NEW k, Chosen(L, t, k),
           NEW x \in DOMAIN L, t < x
    PROVE  Has(L[x], t, k)
<1> DEFINE Lacks == {y \in DOMAIN L : t < y /\ ~Has(L[y], t, k)}
<1>1. PICK A \in SUBSET Node : Cardinality(A) >= QuorumSize /\ \A v \in A : Acked(L, v, t, k)
  BY DEF Chosen
<1>2. Entry(L, t, k) /\ DOMAIN L \subseteq Nat
  BY DEF Chosen, LogsOf
<1>3. SUFFICES ASSUME Lacks # {} PROVE FALSE
  OBVIOUS
<1>4. Lacks \in SUBSET Nat
  BY <1>2
<1>5. PICK y \in Lacks : \A z \in Lacks : y <= z
  <2> HIDE DEF Lacks
  <2> QED BY <1>3, <1>4, NatSetHasMin
<1>6. PICK B \in SUBSET Node :
          /\ Cardinality(B) >= QuorumSize
          /\ \A v \in B : \A r \in DOMAIN L : \A j \in 1 .. Len(L[r]) :
                r < y /\ Entry(L, r, j) /\ Acked(L, v, r, j)
                    => Has(L[y], r, j) \/ Dropped(L, r, j, y - 1)
  BY <1>5 DEF LeadersHold
<1>7. PICK v \in Node : v \in A /\ v \in B
  BY <1>1, <1>6, QuorumsIntersect
<1>8. t \in DOMAIN L /\ k \in 1 .. Len(L[t])
  BY <1>2 DEF Entry
<1>9. Dropped(L, t, k, y - 1)
  BY <1>1, <1>2, <1>5, <1>6, <1>7, <1>8
<1>10. PICK z \in DOMAIN L : t < z /\ z <= y - 1 /\ ~Has(L[z], t, k)
  BY <1>9 DEF Dropped
<1>11. y \in Nat /\ z \in Nat
  BY <1>2, <1>5
<1>12. y <= z
  BY <1>5, <1>10
<1> QED BY <1>10, <1>11, <1>12

\* A leader of the term of a chosen entry, or of a later one, agrees up to it.
LEMMA ChosenAgree ==
    ASSUME NEW L, History(L), LeadersHold(L), NEW t \in DOMAIN L, NEW k, Chosen(L, t, k),
           NEW x \in DOMAIN L, t <= x
    PROVE  Agree(L[x], L[t], k)
<1>1. /\ LogsOf(L) /\ t \in Nat /\ x \in Nat
      /\ L[t] \in Seq(LogEntry) /\ L[x] \in Seq(LogEntry)
      /\ Len(L[t]) \in Nat /\ Len(L[x]) \in Nat
      /\ Follows(L[t], L) /\ Follows(L[x], L)
  BY LenProperties DEF History, LogsOf, LeaderLogs
<1>2. k \in 1 .. Len(L[t]) /\ L[t][k].term = t
  BY DEF Chosen, Entry
<1>3. CASE x = t
  BY <1>1, <1>2, <1>3 DEF Agree
<1>4. CASE t < x
  <2>1. Has(L[x], t, k)
    BY <1>1, <1>4, ChosenHeld
  <2>2. k \in 1 .. Len(L[x]) /\ L[x][k].term = t
    BY <1>1, <1>2, <2>1 DEF Has
  <2> QED BY <1>1, <1>2, <2>2, FollowsAgree
<1> QED BY <1>1, <1>3, <1>4

LEMMA AckedBelow ==
    ASSUME NEW L, LogsOf(L), TypeInv', NEW v, NEW t, NEW k, Acked(L, v, t, k)',
           NEW j \in 1 .. k
    PROVE  Acked(L, v, t, j)'
<1>1. t \in DOMAIN L /\ k \in 1 .. Len(L[t])
  BY DEF Acked
<1>2. Len(L[t]) \in Nat
  BY <1>1, LenProperties DEF LogsOf
<1>3. j \in 1 .. Len(L[t]) /\ j \in Nat /\ k \in Nat /\ j <= k
  BY <1>1, <1>2
<1>4. \A m \in Sent("LogResponse")' : m.acknowledgedLength \in Nat
  BY DEF TypeInv, TypeOK, Sent, Message, VoteRequest, VoteResponse, LogRequest, LogResponse
<1>5. \A m \in Sent("LogResponse")' : k <= m.acknowledgedLength => j <= m.acknowledgedLength
  BY <1>3, <1>4
<1> QED BY <1>1, <1>3, <1>5 DEF Acked

LEMMA ChosenExtends ==
    ASSUME NEW n \in Node, NEW u, NEW L, NEW M, HistoryStep(n, u, L, M),
           NEW t, NEW k, Chosen(L, t, k)
    PROVE  t \in DOMAIN M /\ k \in 1 .. Len(M[t]) /\ Chosen(M, t, k)'
<1>1. t \in DOMAIN L /\ k \in 1 .. Len(L[t]) /\ Entry(L, t, k)
  BY DEF Chosen, Entry
<1>2. Entry(M, t, k)
  BY <1>1, EntryExtends
<1>3. PICK Q \in SUBSET Node : Cardinality(Q) >= QuorumSize /\ \A v \in Q : Acked(L, v, t, k)
  BY DEF Chosen
<1>4. \A v \in Q : Acked(M, v, t, k)'
  BY <1>3, AckedExtends
<1> QED BY <1>2, <1>3, <1>4 DEF Chosen, Entry

-----------------------------------------------------------------------------
(* What is committed is chosen.                                            *)

LEMMA AcksBackedStep ==
    ASSUME NEW n \in Node, NEW u, NEW L, NEW M, SafetyStep(n, u, L, M), NEW p \in Node
    PROVE  AcksBacked(M, node[p])'
<1>0. /\ HistoryStep(n, u, L, M) /\ LogsOf(M) /\ \A q \in Node : AcksBacked(L, node[q])
      /\ \A q \in Node : node'[q] = IF q = n THEN u ELSE node[q]
  BY StepFacts DEF SafetyStep, Safety, Commits
<1>1. CASE p # n
  <2>1. node'[p] = node[p]
    BY <1>0, <1>1
  <2>2. AcksBacked(L, node[p])
    BY <1>0
  <2>3. \A q, t, k : q \in Node /\ Acked(L, q, t, k) => Acked(M, q, t, k)'
    BY <1>0, AckedExtends
  <2> QED BY <2>1, <2>2, <2>3 DEF AcksBacked
<1>2. CASE p = n
  <2> DEFINE s == node[n]
             x == u.currentTerm
  <2>1. node'[p] = u
    BY <1>0, <1>2
  <2>2. SUFFICES ASSUME u.role = Leader, NEW q \in Node, u.ackedLength[q] # 0
                 PROVE  Acked(M, q, x, u.ackedLength[q])'
    BY <2>1 DEF AcksBacked
  <2>3. x \in DOMAIN M /\ M[x] = u.log
    BY <1>0, <2>2, HistoryExtends
  <2>4. u.ackedLength[q] \in 1 .. Len(M[x])
    <3>1. u.ackedLength \in [Node -> 0 .. Len(u.log)] /\ Len(u.log) \in Nat
      BY <1>0, <2>2, LenProperties DEF HistoryStep, NodeStep, WellFormed, RaftState
    <3> HIDE DEF x
    <3> QED BY <2>2, <2>3, <3>1
  <2>5. \/ q = n
        \/ s.role = Leader /\ SameElection(s, u) /\ u.ackedLength[q] = s.ackedLength[q]
        \/ \E m \in Sent("LogResponse") :
              m.success /\ m.followerId = q /\ m.term = x /\ u.ackedLength[q] = m.acknowledgedLength
    BY <1>0, <2>2 DEF HistoryStep, NodeStep, AckMoves
  <2>6. CASE q = n
    <3>1. Won(n, x)' /\ node'[n] = u /\ x \in Nat
      BY <1>0, <2>1, <2>2, StepFacts DEF HistoryStep, ElectionInv, LeadersWon
    <3>2. HasLed(n, x)'
      BY <2>2, <3>1, RoleAssumption DEF HasLed
    <3> QED BY <2>3, <2>4, <2>6, <3>2 DEF Acked
  <2>7. CASE s.role = Leader /\ SameElection(s, u) /\ u.ackedLength[q] = s.ackedLength[q]
    <3>1. Acked(L, q, s.currentTerm, s.ackedLength[q])
      BY <1>0, <2>2, <2>7 DEF AcksBacked
    <3>2. s.currentTerm = x
      BY <2>7 DEF SameElection
    <3> QED BY <1>0, <2>7, <3>1, <3>2, AckedExtends
  <2>8. ASSUME NEW m \in Sent("LogResponse"), m.success, m.followerId = q, m.term = x,
               u.ackedLength[q] = m.acknowledgedLength
        PROVE  Acked(M, q, x, u.ackedLength[q])'
    <3>1. m \in Sent("LogResponse")'
      BY <1>0 DEF HistoryStep, NodeStep, Sent
    <3>2. u.ackedLength[q] <= m.acknowledgedLength
      BY <2>4, <2>8
    <3> QED BY <2>3, <2>4, <2>8, <3>1, <3>2 DEF Acked
  <2> QED BY <2>5, <2>6, <2>7, <2>8
<1> QED BY <1>1, <1>2

LEMMA CommitBackedStep ==
    ASSUME NEW n \in Node, NEW u, NEW L, NEW M, SafetyStep(n, u, L, M), NEW p \in Node
    PROVE  CommitBacked(M, node[p])'
<1> DEFINE s == node[n]
           k == u.commitLength
<1>0. /\ HistoryStep(n, u, L, M) /\ History(L) /\ LeadersHold(L)
      /\ LogsOf(L) /\ LogsOf(M) /\ Extends(L, M)
      /\ CommitBacked(L, node[p]) /\ CommitBacked(L, s) /\ CommitMoves(s, u)
      /\ s.log \in Seq(LogEntry) /\ u.log \in Seq(LogEntry)
      /\ Len(s.log) \in Nat /\ Len(u.log) \in Nat
      /\ s.currentTerm \in Nat /\ u.currentTerm \in Nat /\ s.currentTerm <= u.currentTerm
  <2>1. HistoryStep(n, u, L, M)
    BY DEF SafetyStep
  <2>2. /\ History(L) /\ LeadersHold(L)
        /\ CommitBacked(L, node[p]) /\ CommitBacked(L, s) /\ CommitMoves(s, u)
    BY DEF SafetyStep, Safety, Commits, HistoryStep, NodeStep
  <2> QED BY <2>1, <2>2, StepFacts
<1>1. \A q \in Node : node'[q] = IF q = n THEN u ELSE node[q]
  BY <1>0, StepFacts
<1>2. \A t \in DOMAIN L : t \in Nat /\ L[t] \in Seq(LogEntry) /\ Len(L[t]) \in Nat
  BY <1>0, StepFacts
<1>3. s.commitLength \in Nat /\ k \in Nat /\ k <= Len(u.log)
  BY <1>0 DEF HistoryStep, NodeStep, TypeInv, WellFormed, RaftState
\* A chosen entry of the history backs a commit length of the new state.
<1>4. ASSUME NEW t \in DOMAIN L, NEW j, Chosen(L, t, j)
      PROVE  t \in DOMAIN M /\ j \in 1 .. Len(M[t]) /\ Chosen(M, t, j)'
  BY <1>0, <1>4, ChosenExtends
<1>5. CASE p # n
  <2>1. node'[p] = node[p]
    BY <1>1, <1>5
  <2>2. node[p].commitLength \in Nat
    BY <1>0 DEF HistoryStep, TypeInv, WellFormed, RaftState
  <2>3. ASSUME NEW t \in DOMAIN L, NEW j \in 1 .. Len(L[t]),
               t <= node[p].currentTerm, node[p].commitLength <= j, Chosen(L, t, j),
               Agree(node[p].log, L[t], node[p].commitLength)
        PROVE  CommitBacked(M, node[p])'
    <3>1. Agree(node[p].log, M[t], node[p].commitLength)
      BY <1>0, <2>2, <2>3, ExtendsAgree
    <3> QED BY <1>4, <2>1, <2>3, <3>1 DEF CommitBacked
  <2>4. CASE node[p].commitLength = 0
    BY <2>1, <2>4 DEF CommitBacked
  <2> QED BY <1>0, <2>3, <2>4 DEF CommitBacked
<1>6. CASE p = n
  <2>1. node'[p] = u
    BY <1>1, <1>6
  <2>2. SUFFICES ASSUME k # 0
                 PROVE  \E t \in DOMAIN M : \E j \in 1 .. Len(M[t]) :
                            /\ t <= u.currentTerm /\ k <= j /\ Chosen(M, t, j)'
                            /\ Agree(u.log, M[t], k)
    <3> HIDE DEF k
    <3>1. k = u.commitLength
      BY DEF k
    <3> QED BY <2>1, <3>1 DEF CommitBacked, Chosen, Entry
  <2>3. ASSUME NEW t \in DOMAIN L, NEW j \in 1 .. Len(L[t]), t <= u.currentTerm, k <= j,
               Chosen(L, t, j), Agree(u.log, L[t], k)
        PROVE  \E r \in DOMAIN M : \E i \in 1 .. Len(M[r]) :
                   /\ r <= u.currentTerm /\ k <= i /\ Chosen(M, r, i)'
                   /\ Agree(u.log, M[r], k)
    <3>1. t \in DOMAIN M /\ j \in 1 .. Len(M[t]) /\ Chosen(M, t, j)'
      BY <1>4, <2>3
    <3>2. Agree(u.log, M[t], k)
      BY <1>0, <1>3, <2>3, ExtendsAgree
    <3> QED BY <2>3, <3>1, <3>2
  <2>4. CASE k = s.commitLength
    <3>1. PICK t \in DOMAIN L : \E j \in 1 .. Len(L[t]) :
              /\ t <= s.currentTerm /\ k <= j /\ Chosen(L, t, j) /\ Agree(s.log, L[t], k)
      BY <1>0, <2>2, <2>4 DEF CommitBacked
    <3>2. PICK j \in 1 .. Len(L[t]) :
              /\ t <= s.currentTerm /\ k <= j /\ Chosen(L, t, j) /\ Agree(s.log, L[t], k)
      BY <3>1
    <3>3. t <= u.currentTerm
      BY <1>0, <1>2, <3>2
    <3>4. \A i \in 1 .. k : u.log[i] = s.log[i]
      BY <1>0, <2>4 DEF HistoryStep, NodeStep
    <3>5. Agree(u.log, L[t], k)
      BY <1>0, <1>3, <3>2, <3>4 DEF Agree
    <3> QED BY <2>3, <3>2, <3>3, <3>5
  <2>5. CASE s.role = Leader /\ SameElection(s, u) /\ CommitsOwn(s, u)
    <3> DEFINE t == u.currentTerm
               Q == {q \in Node : u.ackedLength[q] >= k}
    <3>1. u.role = Leader
      BY <2>5 DEF SameElection
    <3>2. t \in DOMAIN M /\ M[t] = u.log
      BY <1>0, <3>1, HistoryExtends
    <3>3. /\ k \in 1 .. Len(u.log) /\ u.log[k].term = t /\ Cardinality(Q) >= QuorumSize
      BY <2>5 DEF CommitsOwn
    <3>4. \A q \in Node : u.ackedLength[q] # 0 => Acked(M, q, t, u.ackedLength[q])'
      <4>1. AcksBacked(M, node[n])' /\ node'[n] = u
        BY <1>1, AcksBackedStep
      <4> QED BY <3>1, <4>1 DEF AcksBacked
    <3>5. \A q \in Node : u.ackedLength[q] \in Nat
      BY <1>0, <3>1 DEF HistoryStep, NodeStep, WellFormed, RaftState
    <3>6. ASSUME NEW q \in Q PROVE Acked(M, q, t, k)'
      <4>1. q \in Node /\ k \in 1 .. u.ackedLength[q] /\ u.ackedLength[q] # 0
        BY <1>3, <3>3, <3>5
      <4>2. Acked(M, q, t, u.ackedLength[q])'
        BY <3>4, <4>1
      <4> HIDE DEF k, t
      <4> QED BY <1>0, <4>1, <4>2, AckedBelow DEF HistoryStep
    <3>7. Entry(M, t, k)
      BY <3>2, <3>3 DEF Entry
    <3>8. Q \in SUBSET Node
      OBVIOUS
    <3>9. Chosen(M, t, k)'
      <4> HIDE DEF Q, k, t
      <4> QED BY <3>3, <3>6, <3>7, <3>8 DEF Chosen, Entry
    <3>10. Agree(u.log, M[t], k)
      BY <1>0, <1>3, <3>2 DEF Agree
    <3>11. k \in 1 .. Len(M[t]) /\ k <= k /\ t <= u.currentTerm
      BY <1>0, <1>3, <3>2, <3>3
    <3> QED BY <3>2, <3>9, <3>10, <3>11
  <2>6. ASSUME NEW m \in Replications, Reconciles(s, u, m), k <= m.leaderCommit,
               k <= m.prefixLength + Len(m.entries)
        PROVE  \E t \in DOMAIN M : \E j \in 1 .. Len(M[t]) :
                   /\ t <= u.currentTerm /\ k <= j /\ Chosen(M, t, j)'
                   /\ Agree(u.log, M[t], k)
    <3> DEFINE x == m.term
               end == m.prefixLength + Len(m.entries)
    <3>1. /\ x \in DOMAIN L /\ Quotes(m, L[x]) /\ m \in LogRequest /\ PrefixMatches(s.log, m)
          /\ u.log = ReconcileLog(s.log, m) /\ u.currentTerm = x
      BY <1>0, <2>6 DEF History, RequestLogs, Reconciles
    <3>2. m.leaderCommit \in Nat /\ m.leaderCommit # 0 /\ end \in Nat
      <4>1. m.leaderCommit \in Nat /\ end \in Nat
        BY <3>1, LenProperties DEF LogRequest
      <4> QED BY <1>3, <2>2, <2>6, <4>1
    <3>3. PICK t \in DOMAIN L : \E j \in 1 .. Len(L[t]) :
              t <= x /\ m.leaderCommit <= j /\ Chosen(L, t, j)
      <4>1. Backed(L, m.leaderCommit, x)
        BY <2>6 DEF SafetyStep, Safety, Commits
      <4> QED BY <3>2, <4>1 DEF Backed
    <3>4. PICK j \in 1 .. Len(L[t]) : t <= x /\ m.leaderCommit <= j /\ Chosen(L, t, j)
      BY <3>3
    <3>5. Agree(L[x], L[t], j)
      BY <1>0, <3>1, <3>4, ChosenAgree
    <3>6. Agree(u.log, L[x], end)
      <4>1. Follows(s.log, L) /\ Follows(L[x], L) /\ L[x] \in Seq(LogEntry)
        BY <1>0, <3>1, StepFacts
      <4> QED BY <1>0, <3>1, <4>1, ReconcileAgrees
    <3>7. k <= j /\ j \in Nat /\ L[x] \in Seq(LogEntry) /\ L[t] \in Seq(LogEntry)
      BY <1>2, <1>3, <2>6, <3>1, <3>2, <3>4
    <3> HIDE DEF end
    <3>8. Agree(u.log, L[x], k)
      BY <1>0, <1>3, <2>6, <3>2, <3>6, <3>7, AgreeShorter DEF end
    <3>9. Agree(L[x], L[t], k)
      BY <1>3, <3>5, <3>7, AgreeShorter
    <3>10. Agree(u.log, L[t], k)
      BY <3>8, <3>9 DEF Agree
    <3> QED BY <2>3, <3>1, <3>4, <3>7, <3>10
  <2> QED BY <1>0, <2>4, <2>5, <2>6 DEF CommitMoves
<1> QED BY <1>5, <1>6

LEMMA RequestsBackedStep ==
    ASSUME NEW n \in Node, NEW u, NEW L, NEW M, SafetyStep(n, u, L, M),
           NEW m \in Replications'
    PROVE  Backed(M, m.leaderCommit, m.term)'
<1>0. HistoryStep(n, u, L, M)
  BY DEF SafetyStep
<1>1. CASE m \in Replications
  <2>1. Backed(L, m.leaderCommit, m.term)
    BY <1>1 DEF SafetyStep, Safety, Commits
  <2> QED BY <1>0, <2>1, ChosenExtends DEF Backed
<1>2. CASE m \notin Replications
  <2>1. m \in msgs' \ msgs /\ m.type = "LogRequest"
    BY <1>2 DEF Replications, Sent
  <2>2. Says(n, node[n], u, m)
    BY <1>0, <2>1 DEF HistoryStep, NodeStep
  <2>3. PICK p \in Node : m = MakeLogRequest(n, u, p)
    BY <2>1, <2>2 DEF Says
  <2>4. WellFormed(u) /\ u.role = Leader
    BY <1>0, <2>1, <2>2 DEF Says, HistoryStep, NodeStep
  <2>5. m.term = u.currentTerm /\ m.leaderCommit = u.commitLength
    BY <2>3, <2>4, MakeLogRequestQuotes
  <2>6. CommitBacked(M, node[n])' /\ node'[n] = u
    BY <1>0, CommitBackedStep, StepFacts
  <2> QED BY <2>5, <2>6 DEF CommitBacked, Backed
<1> QED BY <1>1, <1>2

-----------------------------------------------------------------------------
(* The invariant.                                                          *)

SafetyInv == \E L : Safety(L)

LEMMA SafetyInit == Init => SafetyInv
<1> SUFFICES ASSUME Init PROVE Safety(<<>>)
  BY DEF SafetyInv
<1>1. History(<<>>)
  BY EmptyHistory
<1>2. \A n \in Node : node[n].role = Follower /\ node[n].commitLength = 0
  BY DEF Init, FreshState
<1>3. Replications = {}
  <2>1. \A m \in Sent("LogRequest") : m.leaderId \in Outsider
    BY DEF Init, Sent, OutsiderRequests
  <2> QED BY <2>1, OutsiderAssumption DEF Replications
<1>4. DOMAIN <<>> = {}
  OBVIOUS
<1>5. AckedHeld(<<>>) /\ VotersHeld(<<>>) /\ LeadersHold(<<>>)
  BY <1>4 DEF AckedHeld, VotersHeld, LeadersHold
<1>6. Commits(<<>>)
  BY <1>2, <1>3, RoleAssumption DEF Commits, CommitBacked, AcksBacked
<1> QED BY <1>1, <1>5, <1>6 DEF Safety

LEMMA SafetyStutters ==
    ASSUME NEW L, Safety(L), UNCHANGED vars
    PROVE  Safety(L)'
<1>1. History(L)'
  BY HistoryStutters DEF Safety
<1>2. /\ \A v, t, k : Acked(L, v, t, k)' <=> Acked(L, v, t, k)
      /\ \A v, t, c : Voted(v, t, c)' <=> Voted(v, t, c)
      /\ \A c, x, t, k : UpToDate(c, x, t, k)' <=> UpToDate(c, x, t, k)
      /\ node' = node /\ Replications' = Replications
  BY DEF vars, Acked, HasLed, Won, Voted, UpToDate, Elections, Replications, Sent
<1>3. \A t, k : Chosen(L, t, k)' <=> Chosen(L, t, k)
  BY <1>2 DEF Chosen, Entry
<1>4. AckedHeld(L)'
  BY <1>2 DEF Safety, AckedHeld, Entry, Dropped
<1>5. VotersHeld(L)'
  BY <1>2 DEF Safety, VotersHeld, Entry, Dropped
<1>6. LeadersHold(L)'
  BY <1>2 DEF Safety, LeadersHold, Entry, Dropped
<1>7. Commits(L)'
  BY <1>2, <1>3 DEF Safety, Commits, CommitBacked, AcksBacked, Backed
<1> QED BY <1>1, <1>4, <1>5, <1>6, <1>7 DEF Safety

LEMMA SafetyNext ==
    ASSUME TypeInv, TypeInv', ElectionInv, ElectionInv', UniqueWinner',
           SafetyInv, [Next]_vars
    PROVE  SafetyInv'
<1>1. PICK L : Safety(L)
  BY DEF SafetyInv
<1>2. CASE UNCHANGED vars
  BY <1>1, <1>2, SafetyStutters DEF SafetyInv
<1>3. CASE ~UNCHANGED vars
  <2>1. PICK n \in Node : \E u : NodeStep(n, u)
    BY <1>3, StepIsNodeStep
  <2>2. PICK u : NodeStep(n, u)
    BY <2>1
  <2> DEFINE M == NextHistory(L, u)
  <2>3. SafetyStep(n, u, L, M)
    BY <1>1, <2>2 DEF SafetyStep, HistoryStep, Safety
  <2> HIDE DEF M
  <2>4. HistoryStep(n, u, L, M)
    BY <2>3 DEF SafetyStep
  <2>5. History(M)'
    BY <2>4, HistoryExtends, LeaderLogsStep, NodeLogsStep, RequestLogsStep, ResponseLogsStep,
       CandidateLogsStep DEF History
  <2>6. AckedHeld(M)' /\ VotersHeld(M)' /\ LeadersHold(M)'
    BY <2>3, AckedHeldStep, VotersHeldStep, LeadersHoldStep
  <2>7. Commits(M)'
    <3>1. \A p \in Node : CommitBacked(M, node[p])' /\ AcksBacked(M, node[p])'
      BY <2>3, CommitBackedStep, AcksBackedStep
    <3>2. \A m \in Replications' : Backed(M, m.leaderCommit, m.term)'
      BY <2>3, RequestsBackedStep
    <3> QED BY <3>1, <3>2 DEF Commits
  <2> QED BY <2>5, <2>6, <2>7 DEF SafetyInv, Safety
<1> QED BY <1>2, <1>3

\* What is acknowledged is held, and what is committed is in the log of every
\* leader from its term on.
THEOREM SafetyInvariance == Spec => []SafetyInv
<1>1. TypeInv /\ TypeInv' /\ ElectionInv /\ ElectionInv' /\ UniqueWinner' /\ SafetyInv
          /\ [Next]_vars => SafetyInv'
  BY SafetyNext
<1> QED
  BY <1>1, SafetyInit, TypeInvariance, ElectionInvariance, WinnersAreUnique, PTL DEF Spec

-----------------------------------------------------------------------------
(* What follows from the invariant.                                        *)

LEMMA NodeTypes ==
    ASSUME TypeInv, NEW n \in Node
    PROVE  LET s == node[n]
           IN  /\ s.log \in Seq(LogEntry) /\ Len(s.log) \in Nat /\ s.currentTerm \in Nat
               /\ s.commitLength \in Nat /\ s.commitLength <= Len(s.log)
               /\ Len(s.applied) <= s.commitLength /\ s.applied \in Seq(Command)
               /\ s.role = Leader => /\ \A p \in Node : s.ackedLength[p] \in 0 .. Len(s.log)
                                     /\ \A p \in Node : s.sentLength[p] \in 0 .. Len(s.log)
  BY LenProperties DEF TypeInv, WellFormed, RaftState

\* A leader of a term that the node has not passed has what it committed.
LEMMA CommittedIsHeld ==
    ASSUME TypeInv, NEW L, Safety(L), NEW n \in Node, NEW x \in DOMAIN L,
           node[n].currentTerm <= x
    PROVE  Agree(node[n].log, L[x], node[n].commitLength)
<1> DEFINE s == node[n]
           k == s.commitLength
<1>1. /\ History(L) /\ LeadersHold(L) /\ CommitBacked(L, s) /\ LogsOf(L)
      /\ s.currentTerm \in Nat /\ k \in Nat /\ k <= Len(s.log)
      /\ s.log \in Seq(LogEntry) /\ Len(s.log) \in Nat
  BY NodeTypes DEF Safety, Commits, History
<1>2. \A t \in DOMAIN L : t \in Nat /\ L[t] \in Seq(LogEntry) /\ Len(L[t]) \in Nat
  BY <1>1, LenProperties DEF LogsOf
<1>3. CASE k = 0
  BY <1>1, <1>2, <1>3 DEF Agree
<1>4. CASE k # 0
  <2>1. PICK t \in DOMAIN L : \E j \in 1 .. Len(L[t]) :
            t <= s.currentTerm /\ k <= j /\ Chosen(L, t, j) /\ Agree(s.log, L[t], k)
    BY <1>1, <1>4 DEF CommitBacked
  <2>2. PICK j \in 1 .. Len(L[t]) :
            t <= s.currentTerm /\ k <= j /\ Chosen(L, t, j) /\ Agree(s.log, L[t], k)
    BY <2>1
  <2>3. t <= x
    BY <1>1, <1>2, <2>2
  <2>4. Agree(L[x], L[t], j)
    BY <1>1, <2>2, <2>3, ChosenAgree
  <2>5. Agree(L[x], L[t], k)
    BY <1>1, <1>2, <2>2, <2>4, AgreeShorter
  <2> QED BY <2>2, <2>5 DEF Agree
<1> QED BY <1>3, <1>4

\* A leader has what any node committed in its term or an earlier one
\* (LogIsCurrent in handle_vote_request, _advance_commit_length).
THEOREM LeadersAreComplete == Spec => []LeaderCompleteness
<1>1. ASSUME TypeInv, NEW L, Safety(L), NEW n \in Node, NEW p \in Node,
             node[n].role = Leader, node[p].currentTerm <= node[n].currentTerm
      PROVE  /\ node[p].commitLength <= Len(node[n].log)
             /\ Committed(node[p]) = Prefix(node[n].log, node[p].commitLength)
  <2>1. node[n].currentTerm \in DOMAIN L /\ node[n].log = L[node[n].currentTerm]
    BY <1>1 DEF Safety, History, NodeLogs
  <2>2. Agree(node[p].log, node[n].log, node[p].commitLength)
    BY <1>1, <2>1, CommittedIsHeld
  <2>3. /\ node[n].log \in Seq(LogEntry) /\ node[p].log \in Seq(LogEntry)
        /\ node[p].commitLength \in Nat
    BY <1>1, NodeTypes
  <2> QED BY <2>2, <2>3, PrefixEqual DEF Agree, Committed
<1>2. TypeInv /\ SafetyInv => LeaderCompleteness
  BY <1>1 DEF SafetyInv, LeaderCompleteness
<1> QED
  BY <1>2, TypeInvariance, SafetyInvariance, PTL

\* What any two nodes committed, they committed alike.
LEMMA CommittedAgree ==
    ASSUME TypeInv, NEW L, Safety(L), NEW n \in Node, NEW p \in Node,
           NEW k \in 1 .. node[n].commitLength, k <= node[p].commitLength
    PROVE  node[n].log[k] = node[p].log[k]
<1>1. /\ \A q \in Node : CommitBacked(L, node[q])
      /\ History(L) /\ LeadersHold(L) /\ DOMAIN L \subseteq Nat
  BY DEF Safety, Commits, History, LogsOf
<1>2. node[n].commitLength \in Nat /\ node[p].commitLength \in Nat /\ k \in Nat /\ k # 0
  BY NodeTypes
<1>3. ASSUME NEW q \in Node, k <= node[q].commitLength
      PROVE  \E t \in DOMAIN L, j \in Nat :
                 Chosen(L, t, j) /\ k <= j /\ node[q].log[k] = L[t][k]
  <2>1. node[q].commitLength \in Nat /\ node[q].commitLength # 0
    BY <1>2, <1>3, NodeTypes
  <2>2. PICK t \in DOMAIN L : \E j \in 1 .. Len(L[t]) :
            /\ node[q].commitLength <= j /\ Chosen(L, t, j)
            /\ Agree(node[q].log, L[t], node[q].commitLength)
    BY <1>1, <2>1 DEF CommitBacked
  <2>3. PICK j \in 1 .. Len(L[t]) :
            /\ node[q].commitLength <= j /\ Chosen(L, t, j)
            /\ Agree(node[q].log, L[t], node[q].commitLength)
    BY <2>2
  <2>4. j \in Nat /\ k <= j /\ k \in 1 .. node[q].commitLength
    BY <1>2, <1>3, <2>1, <2>3
  <2> QED BY <2>3, <2>4 DEF Agree
<1>4. PICK t \in DOMAIN L, j \in Nat :
          Chosen(L, t, j) /\ k <= j /\ node[n].log[k] = L[t][k]
  BY <1>2, <1>3
<1>5. PICK r \in DOMAIN L, i \in Nat :
          Chosen(L, r, i) /\ k <= i /\ node[p].log[k] = L[r][k]
  BY <1>3
<1>6. t <= r => L[r][k] = L[t][k]
  BY <1>1, <1>2, <1>4, ChosenAgree DEF Agree
<1>7. r <= t => L[t][k] = L[r][k]
  BY <1>1, <1>2, <1>5, ChosenAgree DEF Agree
<1>8. t <= r \/ r <= t
  BY <1>1
<1> QED BY <1>4, <1>5, <1>6, <1>7, <1>8

\* Of any two nodes, one has applied the beginning of what the other has
\* applied (_apply_committed_entries).
THEOREM AppliedAgree == Spec => []StateMachineSafety
<1>1. ASSUME TypeInv, AppliedIsCommitted, NEW L, Safety(L), NEW n \in Node, NEW p \in Node,
             Len(node[n].applied) <= Len(node[p].applied)
      PROVE  node[n].applied = Prefix(node[p].applied, Len(node[n].applied))
  <2> DEFINE a == node[n].applied
             b == node[p].applied
  <2>1. /\ a \in Seq(Command) /\ b \in Seq(Command) /\ Len(a) \in Nat /\ Len(b) \in Nat
    BY <1>1, NodeTypes, LenProperties
  <2>2. /\ Len(a) = node[n].commitLength /\ Len(b) = node[p].commitLength
        /\ \A k \in 1 .. Len(a) : a[k] = node[n].log[k].command
        /\ \A k \in 1 .. Len(b) : b[k] = node[p].log[k].command
    BY <1>1 DEF AppliedIsCommitted
  <2>3. ASSUME NEW k \in 1 .. Len(a) PROVE a[k] = b[k]
    <3>1. k \in 1 .. node[n].commitLength /\ k <= node[p].commitLength /\ k \in 1 .. Len(b)
      BY <1>1, <2>1, <2>2
    <3>2. node[n].log[k] = node[p].log[k]
      BY <1>1, <3>1, CommittedAgree
    <3> QED BY <2>2, <3>1, <3>2
  <2>4. /\ Prefix(b, Len(a)) \in Seq(Command) /\ Len(Prefix(b, Len(a))) = Len(a)
        /\ \A k \in 1 .. Len(a) : Prefix(b, Len(a))[k] = b[k]
    <3> HIDE DEF a, b
    <3>1. Len(a) <= Len(b)
      BY <1>1 DEF a, b
    <3> QED BY <2>1, <3>1, SubSeqProperties DEF Prefix
  <2> HIDE DEF a, b
  <2>5. a = Prefix(b, Len(a))
    BY <2>1, <2>3, <2>4, SeqEqual
  <2> QED BY <2>5 DEF a, b
<1>2. TypeInv /\ AppliedIsCommitted /\ SafetyInv => StateMachineSafety
  BY <1>1 DEF SafetyInv, StateMachineSafety
<1> QED
  BY <1>2, TypeInvariance, AppliedStays, SafetyInvariance, PTL

\* A leader counts as acknowledged what its follower holds, in the same term
\* (handle_log_response).
THEOREM AcksAreHeld == Spec => []AckedIsHeld
<1>1. ASSUME TypeInv, NEW L, Safety(L), NEW n \in Node, NEW p \in Node,
             node[n].role = Leader, node[p].currentTerm = node[n].currentTerm
      PROVE  /\ node[n].ackedLength[p] <= Len(node[p].log)
             /\ Prefix(node[p].log, node[n].ackedLength[p])
                   = Prefix(node[n].log, node[n].ackedLength[p])
  <2> DEFINE k == node[n].ackedLength[p]
             t == node[n].currentTerm
  <2>1. /\ node[n].log \in Seq(LogEntry) /\ node[p].log \in Seq(LogEntry)
        /\ Len(node[n].log) \in Nat /\ Len(node[p].log) \in Nat /\ k \in 0 .. Len(node[n].log)
    BY <1>1, NodeTypes
  <2>2. t \in DOMAIN L /\ node[n].log = L[t]
    BY <1>1 DEF Safety, History, NodeLogs
  <2> HIDE DEF k
  <2>3. Agree(node[p].log, node[n].log, k)
    <3>1. CASE k = 0
      BY <2>1, <3>1 DEF Agree
    <3>2. CASE k # 0
      <4>1. Acked(L, p, t, k)
        BY <1>1, <3>2 DEF Safety, Commits, AcksBacked, k
      <4>2. k \in 1 .. Len(L[t])
        BY <2>1, <2>2, <3>2
      <4>3. Agree(node[p].log, L[t], k)
        BY <1>1, <2>2, <4>1, <4>2 DEF Safety, AckedHeld
      <4> QED BY <2>2, <4>3
    <3> QED BY <3>1, <3>2
  <2>4. Prefix(node[p].log, k) = Prefix(node[n].log, k) /\ k <= Len(node[p].log)
    BY <2>1, <2>3, PrefixEqual DEF Agree
  <2> QED BY <2>4 DEF k
<1>2. TypeInv /\ SafetyInv => AckedIsHeld
  BY <1>1 DEF SafetyInv, AckedIsHeld
<1> QED
  BY <1>2, TypeInvariance, SafetyInvariance, PTL

-----------------------------------------------------------------------------
(* No handler raises InvariantViolation.                                   *)

LEMMA NoReconcileRaises ==
    ASSUME TypeInv, NEW L, Safety(L), NEW m \in Sent("LogRequest")
    PROVE  ~LogRequestRaises(node[m.to], m)
<1> DEFINE s == node[m.to]
           x == m.term
           p == m.prefixLength
<1>1. SUFFICES ASSUME AcceptsLeader(s, m), ReconcileRaises(s, m) PROVE FALSE
  BY DEF LogRequestRaises
<1>2. /\ m \in LogRequest /\ m.to \in Node /\ p \in Nat
      /\ Len(m.entries) \in Nat /\ m \in Replications /\ s.currentTerm <= x
  BY <1>1, SentType, LenProperties DEF TypeInv, LogRequest, AcceptsLeader, Replications
<1>3. /\ s.log \in Seq(LogEntry) /\ Len(s.log) \in Nat /\ s.commitLength \in Nat
  BY <1>2, NodeTypes
<1>4. /\ x \in DOMAIN L /\ Quotes(m, L[x]) /\ Follows(s.log, L) /\ Follows(L[x], L)
      /\ Len(L[x]) \in Nat
  BY <1>2, LenProperties DEF Safety, History, RequestLogs, NodeLogs, LeaderLogs, LogsOf
<1>5. PICK k \in Overlap(s.log, m) :
          \/ /\ k \notin Conflicts(s.log, m)
             /\ s.log[k].command # m.entries[k - p].command
          \/ k \in Conflicts(s.log, m) /\ k <= s.commitLength
  BY <1>1 DEF ReconcileRaises
<1>6. /\ k \in 1 .. Len(s.log) /\ k \in 1 .. Len(L[x]) /\ m.entries[k - p] = L[x][k]
  <2>1. k \in (p + 1) .. (p + Len(m.entries)) /\ k <= Len(s.log)
    BY DEF Overlap
  <2>2. k - p \in 1 .. Len(m.entries) /\ p + (k - p) = k
    BY <1>2, <2>1
  <2>3. m.entries[k - p] = L[x][p + (k - p)] /\ p + Len(m.entries) <= Len(L[x])
    BY <1>4, <2>2 DEF Quotes
  <2> QED BY <1>2, <1>3, <1>4, <2>1, <2>2, <2>3
<1>7. CASE k \notin Conflicts(s.log, m) /\ s.log[k].command # m.entries[k - p].command
  <2>1. s.log[k].term = L[x][k].term
    BY <1>6, <1>7 DEF Conflicts
  <2>2. Agree(s.log, L[x], k)
    BY <1>4, <1>6, <2>1, FollowsAgree
  <2>3. k \in 1 .. k
    BY <1>6
  <2> QED BY <1>6, <1>7, <2>2, <2>3 DEF Agree
<1>8. CASE k \in Conflicts(s.log, m) /\ k <= s.commitLength
  <2>1. Agree(s.log, L[x], s.commitLength)
    BY <1>2, <1>4, CommittedIsHeld
  <2>2. k \in 1 .. s.commitLength
    BY <1>3, <1>6, <1>8
  <2>3. s.log[k] = m.entries[k - p]
    BY <1>6, <2>1, <2>2 DEF Agree
  <2> QED BY <1>8, <2>3 DEF Conflicts
<1> QED BY <1>5, <1>7, <1>8

\* No message that the network holds makes a handler raise InvariantViolation,
\* and every handler leaves a state that validate() accepts.
THEOREM NothingRaises == Spec => []NoInvariantViolation
<1>1. ASSUME TypeInv, NEW L, Safety(L) PROVE NoInvariantViolation
  <2>1. ASSUME NEW n \in Node PROVE ValidState(n, node[n])
    <3> DEFINE s == node[n]
    <3>1. /\ s.commitLength <= Len(s.log) /\ Len(s.applied) <= s.commitLength
          /\ Len(s.log) \in Nat
      BY <1>1, NodeTypes
    <3>2. Sorted(s.log, s.currentTerm) /\ (s.role = Leader => s.leaderId = n)
      BY <1>1 DEF Safety, History, NodeLogs
    <3>3. \A k \in 2 .. Len(s.log) : k \in 1 .. Len(s.log) /\ k - 1 \in 1 .. k
      BY <3>1
    <3> QED BY <3>1, <3>2, <3>3 DEF ValidState, Sorted
  <2>2. ASSUME NEW m \in Sent("LogResponse"), m.to \in Node
        PROVE  ~LogResponseRaises(node[m.to], m)
    <3> DEFINE s == node[m.to]
    <3>1. SUFFICES ASSUME s.role = Leader, m.term = s.currentTerm, m.success,
                          m.acknowledgedLength > Len(s.log)
                   PROVE  FALSE
      BY DEF LogResponseRaises, TracksResponse
    <3>2. m.acknowledgedLength <= Len(L[m.term])
      BY <1>1, <3>1 DEF Safety, History, ResponseLogs
    <3>3. s.log = L[m.term]
      BY <1>1, <2>2, <3>1 DEF Safety, History, NodeLogs
    <3>4. m.acknowledgedLength \in Nat /\ Len(s.log) \in Nat
      BY <1>1, <2>2, SentType, NodeTypes DEF TypeInv, LogResponse
    <3> QED BY <3>1, <3>2, <3>3, <3>4
  <2>3. ASSUME NEW n \in Node, NEW p \in Node, node[n].role = Leader
        PROVE  node[n].sentLength[p] <= Len(node[n].log)
    BY <1>1, <2>3, NodeTypes
  <2> QED BY <1>1, <2>1, <2>2, <2>3, NoReconcileRaises DEF NoInvariantViolation
<1>2. TypeInv /\ SafetyInv => NoInvariantViolation
  BY <1>1 DEF SafetyInv
<1> QED
  BY <1>2, TypeInvariance, SafetyInvariance, PTL
=============================================================================
