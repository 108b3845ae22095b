------------------------- MODULE RaftRuntimeProofs --------------------------
(***************************************************************************)
(* The tasks of RaftNode only do what Raft allows: RuntimeSpec implements  *)
(* Spec.  What is proved of the cluster therefore holds with its timers,   *)
(* workers, lost and late calls, clients and stops.  And no waiter of      *)
(* submit_command misses its notification, the success it is told is       *)
(* final, and no worker rests while its follower lacks entries, unless its *)
(* call failed.  The HTTP API, at last, keeps the promise of MessageList   *)
(* to its clients.                                                         *)
(***************************************************************************)
EXTENDS HttpApi, RaftProofs

-----------------------------------------------------------------------------
(* What the tasks hold was sent: the requests of calls under way and of    *)
(* calls that were given up, and the responses that have not come back.    *)

TasksType == worker \in [Node -> [Node ->
                [pc : {"idle", "failed", "ready"}]
                \cup [pc : {"calling"}, peer : Node, request : Sent("LogRequest"),
                      response : Sent("LogResponse") \cup {None}]]]

BallotsType == ballots \subseteq [caller : Node, peer : Node, request : Sent("VoteRequest"),
                                  response : Sent("VoteResponse") \cup {None}]

LateType == late \subseteq [peer : Node, request : Sent("VoteRequest") \cup Sent("LogRequest")]

CallsAreSent == TasksType /\ BallotsType /\ LateType

LEMMA CallsInit == RuntimeInit => CallsAreSent
  BY DEF RuntimeInit, CallsAreSent, TasksType, BallotsType, LateType, Idle

LEMMA TasksStay ==
  ASSUME TasksType, msgs \subseteq msgs', UNCHANGED worker
  PROVE  TasksType'
  BY DEF TasksType, Sent

LEMMA BallotsStay ==
  ASSUME BallotsType, msgs \subseteq msgs', ballots' \subseteq ballots
  PROVE  BallotsType'
<1>1. \A type : Sent(type) \subseteq Sent(type)'
  BY DEF Sent
<1> QED
  BY <1>1 DEF BallotsType

LEMMA LateStays ==
  ASSUME LateType, msgs \subseteq msgs', late' \subseteq late
  PROVE  LateType'
<1>1. \A type : Sent(type) \subseteq Sent(type)'
  BY DEF Sent
<1> QED
  BY <1>1 DEF LateType

\* A worker that is at rest, or about to call.
LEMMA WorkerMoves ==
  ASSUME TasksType, msgs \subseteq msgs', NEW n \in Node, NEW p \in Node,
         NEW t \in {Idle, Failed, Ready}, worker' = [worker EXCEPT ![n][p] = t]
  PROVE  TasksType'
<1>1. \A type : Sent(type) \subseteq Sent(type)'
  BY DEF Sent
<1>2. t \in [pc : {"idle", "failed", "ready"}]
  BY DEF Idle, Failed, Ready
<1> QED
  BY <1>1, <1>2 DEF TasksType

LEMMA WorkerIsCalling ==
  ASSUME TasksType, msgs \subseteq msgs', NEW n \in Node, NEW p \in Node,
         NEW q \in Sent("LogRequest")', NEW r \in Sent("LogResponse")' \cup {None},
         worker' = [worker EXCEPT ![n][p] =
                       [pc |-> "calling", peer |-> p, request |-> q, response |-> r]]
  PROVE  TasksType'
<1>1. \A type : Sent(type) \subseteq Sent(type)'
  BY DEF Sent
<1> QED
  BY <1>1 DEF TasksType

\* Calls that are given up leave requests that were sent.
LEMMA GivenUpStays ==
  ASSUME LateType, msgs \subseteq msgs',
         NEW calls, \A d \in calls : d.peer \in Node
                        /\ d.request \in Sent("VoteRequest") \cup Sent("LogRequest"),
         GivesUp(calls)
  PROVE  LateType'
<1>1. \A type : Sent(type) \subseteq Sent(type)'
  BY DEF Sent
<1>2. PICK S \in SUBSET {[peer |-> d.peer, request |-> d.request] :
                           d \in {e \in calls : e.response = None}} : late' = late \cup S
  BY DEF GivesUp
<1>3. S \subseteq [peer : Node, request : Sent("VoteRequest") \cup Sent("LogRequest")]
  BY <1>2
<1> QED
  BY <1>1, <1>2, <1>3 DEF LateType

-----------------------------------------------------------------------------
(* Every action of the runtime is one of Raft, or leaves cluster and        *)
(* network alone, and keeps what its calls hold.                           *)

ImplementsStep == [Next]_vars /\ CallsAreSent'

\* Timers, rounds, stops and clients.
LEMMA SectionStep ==
  ASSUME CallsAreSent, NEW n \in Node,
         TimerExpires(n) \/ ElectionRound(n) \/ DropRound(n) \/ Heartbeat(n) \/ Stop(n)
  PROVE  ImplementsStep
<1> USE DEF ImplementsStep, CallsAreSent
<1>1. CASE TimerExpires(n) \/ DropRound(n) \/ Heartbeat(n)
  BY <1>1, TasksStay, BallotsStay, LateStays DEF TimerExpires, DropRound, Heartbeat, vars
<1>2. CASE ElectionRound(n)
  <2> DEFINE q == StartElection(n, node[n]).request
  <2>1. msgs' = msgs \cup {q} /\ StartElectionRound(n) /\ UNCHANGED <<worker, late>>
    BY <1>2 DEF ElectionRound, StartElectionRound
  <2>2. q.type = "VoteRequest"
    BY DEF StartElection
  <2>3. q \in Sent("VoteRequest")'
    BY <2>1, <2>2 DEF Sent
  <2>4. ballots' = ballots \cup {[caller |-> n, peer |-> p, response |-> None, request |-> q] :
                                    p \in Node \ {n}}
    BY <1>2 DEF ElectionRound
  <2>5. BallotsType'
    <3>1. Sent("VoteRequest") \subseteq Sent("VoteRequest")'
          /\ Sent("VoteResponse") \subseteq Sent("VoteResponse")'
      BY <2>1 DEF Sent
    <3> HIDE DEF q
    <3> QED BY <2>3, <2>4, <3>1 DEF BallotsType
  <2>6. Next
    BY <2>1 DEF Next
  <2> QED BY <2>1, <2>5, <2>6, TasksStay, LateStays
<1>3. CASE Stop(n)
  <2> DEFINE calls == {b \in ballots : b.caller = n}
                         \cup {w \in {worker[n][p] : p \in Node} : w.pc = "calling"}
  <2>1. UNCHANGED <<node, msgs>> /\ ballots' \subseteq ballots /\ GivesUp(calls)
        /\ worker' = [worker EXCEPT ![n] = [p \in Node |-> Idle]]
    BY <1>3 DEF Stop
  <2>2. \A d \in calls : d.peer \in Node
                         /\ d.request \in Sent("VoteRequest") \cup Sent("LogRequest")
    BY DEF BallotsType, TasksType
  <2>3. LateType'
    BY <2>1, <2>2, GivenUpStays
  <2>4. TasksType'
    BY <2>1 DEF TasksType, Idle, Sent
  <2> QED BY <2>1, <2>3, <2>4, BallotsStay DEF vars
<1> QED
  BY <1>1, <1>2, <1>3

\* A peer that executes a vote request that was sent.
LEMMA VoteRequestStep ==
  ASSUME NEW p \in Node, NEW q \in Sent("VoteRequest"), ExecuteVoteRequest(p, q)
  PROVE  /\ Next
         /\ msgs' = msgs \cup {HandleVoteRequest(p, node[p], q).response}
         /\ HandleVoteRequest(p, node[p], q).response \in Sent("VoteResponse")'
<1>1. ReceiveVoteRequest(p, q)
  BY DEF ExecuteVoteRequest
<1>2. HandleVoteRequest(p, node[p], q).response.type = "VoteResponse"
  BY DEF HandleVoteRequest
<1> QED
  BY <1>1, <1>2 DEF Next, ReceiveVoteRequest, Sent

LEMMA BallotStep ==
  ASSUME CallsAreSent, NEW b \in ballots,
         BallotReaches(b) \/ BallotAnswered(b) \/ BallotFails(b)
  PROVE  ImplementsStep
<1> USE DEF ImplementsStep, CallsAreSent
<1>0. b \in [caller : Node, peer : Node, request : Sent("VoteRequest"),
             response : Sent("VoteResponse") \cup {None}]
  BY DEF BallotsType
<1>1. CASE BallotReaches(b)
  <2> DEFINE r == HandleVoteRequest(b.peer, node[b.peer], b.request).response
  <2>1. ExecuteVoteRequest(b.peer, b.request) /\ UNCHANGED <<worker, late>>
        /\ ballots' = (ballots \ {b}) \cup {[b EXCEPT !.response = r]}
    BY <1>1 DEF BallotReaches
  <2>2. Next /\ msgs' = msgs \cup {r} /\ r \in Sent("VoteResponse")'
    BY <1>0, <2>1, VoteRequestStep
  <2> HIDE DEF r
  <2>3. Sent("VoteRequest") \subseteq Sent("VoteRequest")'
        /\ Sent("VoteResponse") \subseteq Sent("VoteResponse")'
    BY <2>2 DEF Sent
  <2>4. BallotsType'
    BY <1>0, <2>1, <2>2, <2>3 DEF BallotsType
  <2> QED BY <2>1, <2>2, <2>4, TasksStay, LateStays
<1>2. CASE BallotAnswered(b)
  <2>1. VoteResponseArrives(b.caller, b.response) /\ b.response \in Sent("VoteResponse")
    BY <1>0, <1>2 DEF BallotAnswered
  <2>2. Next /\ UNCHANGED msgs
    BY <1>0, <2>1 DEF Next, VoteResponseArrives
  <2>3. UNCHANGED <<worker, late>> /\ ballots' \subseteq ballots
    BY <1>2 DEF BallotAnswered
  <2> QED BY <2>2, <2>3, TasksStay, BallotsStay, LateStays
<1>3. CASE BallotFails(b)
  <2>1. UNCHANGED <<node, msgs, worker>> /\ ballots' \subseteq ballots /\ GivesUp({b})
    BY <1>3 DEF BallotFails
  <2>2. LateType'
    BY <1>0, <2>1, GivenUpStays
  <2> QED BY <2>1, <2>2, TasksStay, BallotsStay DEF vars
<1> QED
  BY <1>1, <1>2, <1>3

\* A follower that executes a log request that was sent.
LEMMA LogRequestStep ==
  ASSUME NEW p \in Node, NEW q \in Sent("LogRequest"), ReceiveLogRequest(p, q)
  PROVE  /\ Next
         /\ msgs' = msgs \cup {HandleLogRequest(p, node[p], q).response}
         /\ HandleLogRequest(p, node[p], q).response \in Sent("LogResponse")'
<1>1. HandleLogRequest(p, node[p], q).response.type = "LogResponse"
  BY DEF HandleLogRequest
<1> QED
  BY <1>1 DEF Next, ReceiveLogRequest, Sent

LEMMA LateStep ==
  ASSUME CallsAreSent, NEW l \in late, ExecuteLate(l)
  PROVE  ImplementsStep
<1> USE DEF ImplementsStep, CallsAreSent
<1>0. l.peer \in Node /\ l.request \in Sent("VoteRequest") \cup Sent("LogRequest")
  BY DEF LateType
<1>1. late' \subseteq late /\ UNCHANGED <<worker, ballots>>
  BY DEF ExecuteLate
<1>2. Next /\ msgs \subseteq msgs'
  <2>1. CASE l.request.type = "VoteRequest" /\ ExecuteVoteRequest(l.peer, l.request)
    BY <1>0, <2>1, VoteRequestStep DEF Sent
  <2>2. CASE l.request.type = "LogRequest" /\ ReceiveLogRequest(l.peer, l.request)
    BY <1>0, <2>2, LogRequestStep DEF Sent
  <2> QED BY <2>1, <2>2 DEF ExecuteLate
<1> QED
  BY <1>1, <1>2, TasksStay, BallotsStay, LateStays

LEMMA WorkerStep ==
  ASSUME CallsAreSent, NEW n \in Node, NEW p \in Node,
         \/ WorkerWakes(n, p) \/ WorkerCalls(n, p) \/ WorkerRests(n, p)
         \/ CallReaches(n, p) \/ CallAnswered(n, p) \/ CallFails(n, p)
  PROVE  ImplementsStep
<1> USE DEF ImplementsStep, CallsAreSent
<1>1. CASE WorkerWakes(n, p) \/ WorkerRests(n, p)
  <2>1. /\ UNCHANGED <<node, msgs, ballots, late>>
        /\ \E t \in {Idle, Failed, Ready} : worker' = [worker EXCEPT ![n][p] = t]
    BY <1>1 DEF WorkerWakes, WorkerRests
  <2> QED BY <2>1, WorkerMoves, BallotsStay, LateStays DEF vars
<1>2. CASE WorkerCalls(n, p)
  <2> DEFINE q == MakeLogRequest(n, node[n], p)
  <2>1. SendLogRequest(n, p) /\ UNCHANGED <<ballots, late>> /\ msgs' = msgs \cup {q}
        /\ worker' = [worker EXCEPT ![n][p] = Calling(p, q)]
    BY <1>2 DEF WorkerCalls, SendLogRequest
  <2>2. q.type = "LogRequest"
    BY DEF MakeLogRequest
  <2>3. q \in Sent("LogRequest")'
    BY <2>1, <2>2 DEF Sent
  <2>4. Next
    BY <2>1 DEF Next
  <2> HIDE DEF q
  <2>5. TasksType'
    BY <2>1, <2>3, WorkerIsCalling DEF Calling
  <2> QED BY <2>1, <2>4, <2>5, BallotsStay, LateStays
<1>3. CASE CallReaches(n, p)
  <2> DEFINE w == worker[n][p]
             r == HandleLogRequest(p, node[p], w.request).response
  <2>1. w.pc = "calling" /\ ReceiveLogRequest(p, w.request) /\ UNCHANGED <<ballots, late>>
        /\ worker' = [worker EXCEPT ![n][p].response = r]
    BY <1>3 DEF CallReaches
  <2>2. w \in [pc : {"calling"}, peer : Node, request : Sent("LogRequest"),
               response : Sent("LogResponse") \cup {None}]
    BY <2>1 DEF TasksType
  <2>3. Next /\ msgs' = msgs \cup {r} /\ r \in Sent("LogResponse")'
    BY <2>1, <2>2, LogRequestStep
  <2> HIDE DEF r
  <2>4. TasksType'
    <3>1. Sent("LogRequest") \subseteq Sent("LogRequest")'
          /\ Sent("LogResponse") \subseteq Sent("LogResponse")'
      BY <2>3 DEF Sent
    <3>2. worker' = [worker EXCEPT ![n][p] = [w EXCEPT !.response = r]]
      BY <2>1
    <3>3. [w EXCEPT !.response = r] \in
             [pc : {"calling"}, peer : Node, request : Sent("LogRequest")',
              response : Sent("LogResponse")' \cup {None}]
      BY <2>2, <2>3, <3>1
    <3> HIDE DEF w
    <3> QED BY <3>1, <3>2, <3>3 DEF TasksType
  <2> QED BY <2>1, <2>3, <2>4, BallotsStay, LateStays
<1>4. CASE CallAnswered(n, p)
  <2> DEFINE m == worker[n][p].response
  <2>1. worker[n][p].pc = "calling" /\ m # None /\ LogResponseArrives(n, m)
        /\ UNCHANGED <<ballots, late>>
        /\ \E t \in {Idle, Failed, Ready} : worker' = [worker EXCEPT ![n][p] = t]
    BY <1>4 DEF CallAnswered
  <2>2. m \in Sent("LogResponse")
    BY <2>1 DEF TasksType
  <2>3. Next /\ UNCHANGED msgs
    BY <2>1, <2>2 DEF Next, LogResponseArrives
  <2> QED BY <2>1, <2>3, WorkerMoves, BallotsStay, LateStays
<1>5. CASE CallFails(n, p)
  <2>1. worker[n][p].pc = "calling" /\ UNCHANGED <<node, msgs, ballots>>
        /\ worker' = [worker EXCEPT ![n][p] = Failed] /\ GivesUp({worker[n][p]})
    BY <1>5 DEF CallFails
  <2>2. worker[n][p].peer \in Node /\ worker[n][p].request \in Sent("LogRequest")
    BY <2>1 DEF TasksType
  <2>3. LateType'
    BY <2>1, <2>2, GivenUpStays
  <2> QED BY <2>1, <2>3, WorkerMoves, BallotsStay DEF vars
<1> QED
  BY <1>1, <1>2, <1>3, <1>4, <1>5

LEMMA ClientStep ==
  ASSUME CallsAreSent, NEW c \in Command,
         \/ ClientLooks(c) \/ ClientTimesOut(c)
         \/ \E n \in Node : Submit(n, c) \/ SubmitRejected(n, c)
  PROVE  ImplementsStep
<1>1. [Next]_vars /\ UNCHANGED <<msgs, worker, ballots, late>>
  BY DEF ClientLooks, ClientTimesOut, Submit, SubmitRejected, SubmitCommand, Next, vars
<1> QED
  BY <1>1, TasksStay, BallotsStay, LateStays DEF ImplementsStep, CallsAreSent

LEMMA RuntimeStep == CallsAreSent /\ [RuntimeNext]_allVars => [Next]_vars /\ CallsAreSent'
<1> SUFFICES ASSUME CallsAreSent, [RuntimeNext]_allVars PROVE ImplementsStep
  BY DEF ImplementsStep
<1>1. CASE UNCHANGED allVars
  BY <1>1, TasksStay, BallotsStay, LateStays DEF allVars, vars, CallsAreSent, ImplementsStep
<1>2. CASE RuntimeNext
  BY <1>2, SectionStep, BallotStep, LateStep, WorkerStep, ClientStep DEF RuntimeNext
<1> QED
  BY <1>1, <1>2

\* The tasks of RaftNode, with single calls per worker, stale timers, lost and
\* late calls, clients and stop, do to cores and network what Raft allows.
THEOREM RuntimeImplementsRaft == RuntimeSpec => Spec
<1>1. RuntimeInit => Init /\ CallsAreSent
  BY CallsInit DEF RuntimeInit
<1> QED
  BY <1>1, RuntimeStep, PTL DEF RuntimeSpec, Spec

\* So one node at most acts as the leader of a term, whatever the tasks,
\* timers and clients of the runtime do.
THEOREM RuntimeElectsOne == RuntimeSpec => []ElectionSafety
  BY RuntimeImplementsRaft, ElectionSafetyHolds, PTL

-----------------------------------------------------------------------------
(* No waiter misses its notification.  The invariant is inductive beside   *)
(* the types of nodes and clients.                                         *)

Submitted == [pc : {"waiting", "applied", "notLeader", "stopped", "timeout"},
              at : Node, index : Nat, entry : LogEntry, woken : BOOLEAN]

\* No call yet, or refused at once.
NotSubmitted == [pc : {"none", "notLeader", "stopped"}]

ClientsType == client \in [Command -> NotSubmitted \cup Submitted]

RunningType == running \in [Node -> BOOLEAN]

WakeInv == ClientsType /\ NoLostWakeup

LEMMA NotifiedType ==
  ASSUME ClientsType, NEW n \in Node
  PROVE  Notified(n) \in [Command -> NotSubmitted \cup Submitted]
<1>1. ASSUME NEW c \in Command, client[c].pc = "waiting"
      PROVE  [client[c] EXCEPT !.woken = TRUE] \in Submitted
  <2>1. client[c] \in Submitted
    BY <1>1 DEF ClientsType, Submitted, NotSubmitted
  <2> QED BY <2>1 DEF Submitted, NotSubmitted
<1> QED
  BY <1>1 DEF ClientsType, Notified

\* A critical section of n that ends with notify_all.
LEMMA NotifyStep ==
  ASSUME WakeInv, NEW n \in Node, client' = Notified(n),
         \A m \in Node \ {n} : node'[m] = node[m] /\ running'[m] = running[m]
  PROVE  WakeInv'
<1> USE DEF WakeInv
<1>1. ClientsType'
  BY NotifiedType DEF ClientsType, Submitted, NotSubmitted
<1>2. ASSUME NEW c \in Command, client'[c].pc = "waiting", Outcome(client[c])' # "waiting"
      PROVE  client'[c].woken
  <2>1. client[c].pc = "waiting" /\ client[c].at \in Node /\ client'[c].at = client[c].at
    BY <1>2 DEF ClientsType, Submitted, NotSubmitted, Notified
  <2>2. CASE client[c].at = n
    BY <2>1, <2>2 DEF ClientsType, Submitted, NotSubmitted, Notified
  <2>3. CASE client[c].at # n
    <3>1. client'[c] = client[c]
      BY <2>3 DEF Notified
    <3>2. Outcome(client[c])' = Outcome(client[c])
      BY <2>1, <2>3, <3>1 DEF Outcome
    <3> QED BY <1>2, <2>1, <3>1, <3>2 DEF NoLostWakeup
  <2> QED BY <2>2, <2>3
<1> QED
  BY <1>1, <1>2 DEF NoLostWakeup

\* A step that changes no node and no client.
LEMMA SleepStep ==
  ASSUME WakeInv, UNCHANGED <<node, running, client>>
  PROVE  WakeInv'
  BY DEF WakeInv, ClientsType, Submitted, NotSubmitted, NoLostWakeup, Outcome

LEMMA SubmitStep ==
  ASSUME WakeInv, TypeInv, TypeInv', NEW n \in Node, NEW c \in Command, Submit(n, c)
  PROVE  WakeInv'
<1> DEFINE s == [node[n] EXCEPT !.log = Append(@, [command |-> c, term |-> node[n].currentTerm]),
                               !.sentLength[n] = Len(node[n].log) + 1,
                               !.ackedLength[n] = Len(node[n].log) + 1]
           index == Len(node'[n].log)
           w == [pc |-> "waiting", at |-> n, index |-> index,
                 entry |-> node'[n].log[index], woken |-> TRUE]
<1>1. node[n] \in RaftState /\ node'[n] \in RaftState
  BY DEF TypeInv, TypeOK
<1>2. node' = [node EXCEPT ![n] = ApplyCommittedEntries(AdvanceCommitLength(s))]
  BY DEF Submit, SubmitCommand, AppendCommand
<1>3. node'[n] = ApplyCommittedEntries(AdvanceCommitLength(s))
  BY <1>2 DEF TypeInv, TypeOK
<1>4. node'[n].log = Append(node[n].log, [command |-> c, term |-> node[n].currentTerm])
  <2>1. s.log = Append(node[n].log, [command |-> c, term |-> node[n].currentTerm])
    BY <1>1 DEF RaftState
  <2>2. AdvanceCommitLength(s).log = s.log
    <3> HIDE DEF s
    <3> QED BY DEF AdvanceCommitLength
  <2> HIDE DEF s
  <2> QED BY <1>3, <2>1, <2>2 DEF ApplyCommittedEntries
<1>5. index \in Nat /\ node'[n].log[index] \in LogEntry
  BY <1>1, <1>4 DEF RaftState, LogEntry
<1>6. \A m \in Node \ {n} : node'[m] = node[m]
  BY <1>2 DEF TypeInv, TypeOK
<1> HIDE DEF s, index
<1>7. client' = [Notified(n) EXCEPT ![c] =
                   IF Len(node'[n].applied) >= index THEN [w EXCEPT !.pc = "applied"] ELSE w]
      /\ UNCHANGED running
  BY DEF Submit, index
<1>8. ClientsType'
  <2>1. w \in Submitted /\ [w EXCEPT !.pc = "applied"] \in Submitted
    BY <1>5 DEF Submitted, NotSubmitted
  <2> HIDE DEF w
  <2>2. Notified(n) \in [Command -> NotSubmitted \cup Submitted]
    BY NotifiedType DEF WakeInv
  <2> QED BY <1>7, <2>1, <2>2 DEF ClientsType, Submitted, NotSubmitted
<1>9. ASSUME NEW d \in Command, client'[d].pc = "waiting", Outcome(client[d])' # "waiting"
      PROVE  client'[d].woken
  <2>1. CASE d = c
    BY <1>7, <1>9, <2>1 DEF Notified
  <2>2. CASE d # c /\ client[d].at = n
    BY <1>7, <1>9, <2>2 DEF WakeInv, ClientsType, Submitted, NotSubmitted, Notified
  <2>3. CASE d # c /\ client[d].at # n
    <3>1. client'[d] = client[d] /\ client[d].at \in Node
      BY <1>7, <1>9, <2>3 DEF WakeInv, ClientsType, Submitted, NotSubmitted, Notified
    <3>2. Outcome(client[d])' = Outcome(client[d])
      BY <1>6, <1>7, <2>3, <3>1 DEF Outcome
    <3> QED BY <1>9, <3>1, <3>2 DEF WakeInv, NoLostWakeup
  <2> QED BY <2>1, <2>2, <2>3
<1> QED
  BY <1>8, <1>9 DEF WakeInv, NoLostWakeup

LEMMA RejectStep ==
  ASSUME WakeInv, NEW n \in Node, NEW c \in Command, SubmitRejected(n, c)
  PROVE  WakeInv'
<1>1. /\ UNCHANGED <<node, running>>
      /\ \E pc \in {"notLeader", "stopped"} : client' = [client EXCEPT ![c] = [pc |-> pc]]
  BY DEF SubmitRejected
<1>2. ClientsType'
  BY <1>1 DEF WakeInv, ClientsType, NotSubmitted
<1>3. ASSUME NEW d \in Command, client'[d].pc = "waiting", Outcome(client[d])' # "waiting"
      PROVE  client'[d].woken
  <2>1. client'[d] = client[d]
    BY <1>1, <1>3 DEF WakeInv, ClientsType
  <2>2. Outcome(client[d])' = Outcome(client[d])
    BY <1>1, <2>1 DEF Outcome
  <2> QED BY <1>3, <2>1, <2>2 DEF WakeInv, NoLostWakeup
<1> QED
  BY <1>2, <1>3 DEF WakeInv, NoLostWakeup

LEMMA LookStep ==
  ASSUME WakeInv, NEW c \in Command, ClientLooks(c) \/ ClientTimesOut(c)
  PROVE  WakeInv'
<1>1. UNCHANGED <<node, running>> /\ client[c].pc = "waiting"
  BY DEF ClientLooks, ClientTimesOut
<1>2. PICK pc \in {"waiting", "applied", "notLeader", "stopped", "timeout"} :
          /\ client' = [client EXCEPT ![c].pc = pc, ![c].woken = FALSE]
          /\ pc = "waiting" => Outcome(client[c]) = "waiting"
  BY DEF ClientLooks, ClientTimesOut, Outcome
<1>3. ClientsType'
  BY <1>1, <1>2 DEF WakeInv, ClientsType, Submitted, NotSubmitted
<1>4. ASSUME NEW d \in Command, client'[d].pc = "waiting", Outcome(client[d])' # "waiting"
      PROVE  client'[d].woken
  <2>1. /\ client'[d].at = client[d].at /\ client'[d].index = client[d].index
        /\ client'[d].entry = client[d].entry
    BY <1>1, <1>2 DEF WakeInv, ClientsType, Submitted, NotSubmitted
  <2>2. Outcome(client[d])' = Outcome(client[d])
    BY <1>1, <2>1 DEF Outcome
  <2>3. d # c
    BY <1>1, <1>2, <1>4, <2>2 DEF WakeInv, ClientsType, Submitted, NotSubmitted
  <2> QED BY <1>2, <1>4, <2>2, <2>3 DEF WakeInv, ClientsType, Submitted, NotSubmitted, NoLostWakeup
<1> QED
  BY <1>3, <1>4 DEF WakeInv, NoLostWakeup

LEMMA RunningNext == RunningType /\ [RuntimeNext]_allVars => RunningType'
  BY DEF RunningType, RuntimeNext, allVars, TimerExpires, ElectionRound, DropRound,
         BallotReaches, BallotAnswered, BallotFails, ExecuteLate, Heartbeat, Stop,
         WorkerWakes, WorkerCalls, WorkerRests, CallReaches, CallAnswered, CallFails,
         Submit, SubmitRejected, ClientLooks, ClientTimesOut

LEMMA WakeNext ==
  ASSUME WakeInv, RunningType, CallsAreSent, TypeInv, TypeInv', [RuntimeNext]_allVars
  PROVE  WakeInv'
<1> USE DEF TypeInv, TypeOK
<1>1. ASSUME NEW n \in Node, ElectionRound(n) \/ Stop(n) PROVE WakeInv'
  <2>1. /\ client' = Notified(n)
        /\ \A m \in Node \ {n} : node'[m] = node[m] /\ running'[m] = running[m]
    BY <1>1 DEF ElectionRound, StartElectionRound, Stop, RunningType
  <2> QED BY <2>1, NotifyStep
<1>2. ASSUME NEW b \in ballots, BallotReaches(b) \/ BallotAnswered(b) PROVE WakeInv'
  <2>1. b.caller \in Node /\ b.peer \in Node
    BY DEF CallsAreSent, BallotsType
  <2>2. \E n \in Node : /\ client' = Notified(n)
                        /\ \A m \in Node \ {n} : node'[m] = node[m] /\ running'[m] = running[m]
    BY <1>2, <2>1 DEF BallotReaches, ExecuteVoteRequest, ReceiveVoteRequest,
                      BallotAnswered, VoteResponseArrives
  <2> QED BY <2>2, NotifyStep
<1>3. ASSUME NEW l \in late, ExecuteLate(l) PROVE WakeInv'
  <2>1. l.peer \in Node
    BY DEF CallsAreSent, LateType
  <2>2. \E n \in Node : /\ client' = Notified(n)
                        /\ \A m \in Node \ {n} : node'[m] = node[m] /\ running'[m] = running[m]
    BY <1>3, <2>1 DEF ExecuteLate, ExecuteVoteRequest, ReceiveVoteRequest, ReceiveLogRequest
  <2> QED BY <2>2, NotifyStep
<1>4. ASSUME NEW n \in Node, NEW p \in Node, CallReaches(n, p) \/ CallAnswered(n, p)
      PROVE  WakeInv'
  <2>1. \E k \in Node : /\ client' = Notified(k)
                        /\ \A m \in Node \ {k} : node'[m] = node[m] /\ running'[m] = running[m]
    BY <1>4 DEF CallReaches, ReceiveLogRequest, CallAnswered, LogResponseArrives
  <2> QED BY <2>1, NotifyStep
<1>5. ASSUME UNCHANGED <<node, running, client>> PROVE WakeInv'
  BY <1>5, SleepStep
<1>6. ASSUME NEW n \in Node, TimerExpires(n) \/ DropRound(n) \/ Heartbeat(n) PROVE WakeInv'
  BY <1>5, <1>6 DEF TimerExpires, DropRound, Heartbeat
<1>7. ASSUME NEW n \in Node, NEW p \in Node,
             WorkerWakes(n, p) \/ WorkerCalls(n, p) \/ WorkerRests(n, p) \/ CallFails(n, p)
      PROVE  WakeInv'
  BY <1>5, <1>7 DEF WorkerWakes, WorkerCalls, SendLogRequest, WorkerRests, CallFails
<1>8. ASSUME NEW b \in ballots, BallotFails(b) PROVE WakeInv'
  BY <1>5, <1>8 DEF BallotFails
<1> QED
  BY <1>1, <1>2, <1>3, <1>4, <1>5, <1>6, <1>7, <1>8, SubmitStep, RejectStep, LookStep
  DEF RuntimeNext, allVars

LEMMA WakeHolds == RuntimeSpec => [](WakeInv /\ RunningType /\ CallsAreSent)
<1>1. RuntimeInit => WakeInv /\ RunningType /\ CallsAreSent
  <2> SUFFICES ASSUME RuntimeInit PROVE WakeInv /\ RunningType /\ CallsAreSent
    OBVIOUS
  <2>1. client = [c \in Command |-> NoCall] /\ running = [n \in Node |-> TRUE]
    BY DEF RuntimeInit
  <2> QED BY <2>1, CallsInit DEF WakeInv, RunningType, ClientsType, NoLostWakeup, NoCall, NotSubmitted
<1>2. WakeInv /\ RunningType /\ CallsAreSent /\ TypeInv /\ TypeInv' /\ [RuntimeNext]_allVars => WakeInv'
  BY WakeNext
<1>3. Spec => []TypeInv
  BY TypeInvariance
<1> QED
  BY <1>1, <1>2, <1>3, RunningNext, RuntimeStep, RuntimeImplementsRaft, PTL DEF RuntimeSpec

\* No waiter of submit_command sleeps over the outcome of its command: every
\* critical section that decides it ends with notify_all.
THEOREM NoWakeupIsLost == RuntimeSpec => []NoLostWakeup
<1>1. WakeInv => NoLostWakeup
  BY DEF WakeInv
<1> QED
  BY <1>1, WakeHolds, PTL

-----------------------------------------------------------------------------
(* A success is final.                                                     *)

\* A client waits for its own command at an index, and when it was told success
\* the entry is committed at its node.
FinalInv ==
    \A c \in Command : client[c].pc \in {"waiting", "applied"} =>
        LET w == client[c]
        IN  /\ w.index # 0 /\ w.entry.command = c
            /\ w.pc = "applied" => /\ w.index <= node[w.at].commitLength
                                   /\ node[w.at].log[w.index] = w.entry

\* The call of c is over without success, still the same, told its success,
\* or new.
SameCall(c) ==
    /\ client[c].pc \in {"waiting", "applied"} /\ client'[c].pc = client[c].pc
    /\ client'[c].at = client[c].at /\ client'[c].index = client[c].index
    /\ client'[c].entry = client[c].entry

ToldSuccess(c) ==
    /\ client[c].pc = "waiting" /\ Outcome(client[c]) = "applied" /\ UNCHANGED node
    /\ client'[c].at = client[c].at /\ client'[c].index = client[c].index
    /\ client'[c].entry = client[c].entry

NewCall(c) ==
    LET w == client'[c]
    IN  /\ w.at \in Node /\ w.index = Len(node'[w.at].log) /\ w.index # 0
        /\ w.entry = node'[w.at].log[w.index] /\ w.entry.command = c
        /\ w.pc = "applied" => w.index <= Len(node'[w.at].applied)

CallMoves(c) ==
    \/ client'[c].pc \notin {"waiting", "applied"}
    \/ SameCall(c) \/ ToldSuccess(c) \/ NewCall(c)

LEMMA NotifiedMoves ==
  ASSUME ClientsType, NEW n, client' = Notified(n), NEW c \in Command
  PROVE  CallMoves(c)
<1>1. client[c] \in NotSubmitted \/ client[c] \in Submitted
  BY DEF ClientsType
<1>2. client'[c] \in {client[c], [client[c] EXCEPT !.woken = TRUE]}
  BY DEF Notified
<1>3. client'[c].pc = client[c].pc
      /\ (client[c] \in Submitted => /\ client'[c].at = client[c].at
                                     /\ client'[c].index = client[c].index
                                     /\ client'[c].entry = client[c].entry)
  BY <1>1, <1>2 DEF NotSubmitted, Submitted
<1>4. client[c].pc \in {"waiting", "applied"} => client[c] \in Submitted
  BY <1>1 DEF NotSubmitted
<1> QED
  BY <1>3, <1>4 DEF CallMoves, SameCall

LEMMA KeptMoves ==
  ASSUME UNCHANGED client, NEW c \in Command
  PROVE  CallMoves(c)
  BY DEF CallMoves, SameCall

\* submit_command appends the command at a leader.
LEMMA SubmitAppends ==
  ASSUME TypeInv, NEW n \in Node, NEW d \in Command, SubmitCommand(n, d)
  PROVE  /\ node[n].role = Leader /\ node[n].currentTerm \in Nat
         /\ node[n].log \in Seq(LogEntry) /\ Len(node[n].log) \in Nat
         /\ node'[n].log = Append(node[n].log, [command |-> d, term |-> node[n].currentTerm])
         /\ \A m \in Node \ {n} : node'[m] = node[m]
<1> DEFINE s == node[n]
           h == AppendCommand(n, s, d)
<1>1. node' = [node EXCEPT ![n] = ApplyCommittedEntries(h)] /\ s.role = Leader
  BY DEF SubmitCommand
<1>2. /\ WellFormed(s) /\ s.log \in Seq(LogEntry) /\ s.currentTerm \in Nat
      /\ Len(s.log) \in Nat /\ node \in [Node -> RaftState]
  BY LenProperties DEF TypeInv, TypeOK, WellFormed, RaftState
<1> HIDE DEF s
<1>3. WellFormed(h)
  BY <1>1, <1>2, AppendCommandWellFormed
<1>4. /\ h.log = Append(s.log, [command |-> d, term |-> s.currentTerm])
      /\ h.applied = s.applied
      /\ h.ackedLength = [s.ackedLength EXCEPT ![n] = Len(s.log) + 1]
      /\ h.commitLength = s.commitLength \/ CommitsOwn(s, h)
  BY <1>1, <1>2, AppendCommandLog
<1> HIDE DEF h
<1>5. ApplyCommittedEntries(h).log = h.log
  BY <1>3, ApplyCommittedEntriesLog
<1> QED BY <1>1, <1>2, <1>4, <1>5 DEF s

LEMMA SubmitMoves ==
  ASSUME ClientsType, TypeInv, TypeInv', NEW n \in Node, NEW d \in Command, Submit(n, d),
         NEW c \in Command
  PROVE  CallMoves(c)
<1> DEFINE index == Len(node'[n].log)
           w == [pc |-> "waiting", at |-> n, index |-> index,
                 entry |-> node'[n].log[index], woken |-> TRUE]
<1>1. client' = [Notified(n) EXCEPT ![d] =
                   IF Len(node'[n].applied) >= index THEN [w EXCEPT !.pc = "applied"] ELSE w]
      /\ d \in Command
  BY DEF Submit
<1>2. CASE c = d
  <2>1. /\ node'[n].log = Append(node[n].log, [command |-> d, term |-> node[n].currentTerm])
        /\ Len(node[n].log) \in Nat /\ node[n].log \in Seq(LogEntry)
        /\ [command |-> d, term |-> node[n].currentTerm] \in LogEntry
    BY SubmitAppends DEF Submit, LogEntry
  <2>9. index = Len(node[n].log) + 1
    BY <2>1, AppendProperties
  <2>8. index # 0 /\ node'[n].log[index].command = c
    BY <1>2, <2>1, <2>9, AppendProperties
  <2>2. client'[c] = IF Len(node'[n].applied) >= index THEN [w EXCEPT !.pc = "applied"] ELSE w
    BY <1>1, <1>2 DEF Notified
  <2>3. Len(node'[n].applied) \in Nat /\ index \in Nat
    BY LenProperties DEF TypeInv, WellFormed, RaftState
  <2> HIDE DEF index
  <2>4. /\ client'[c].at = n /\ client'[c].index = index
        /\ client'[c].entry = node'[n].log[index]
        /\ client'[c].pc = "applied" => Len(node'[n].applied) >= index
    <3>1. CASE Len(node'[n].applied) >= index
      BY <2>2, <3>1
    <3>2. CASE ~(Len(node'[n].applied) >= index)
      BY <2>2, <3>2
    <3> QED BY <3>1, <3>2
  <2>5. index = Len(node'[n].log)
    BY DEF index
  <2>6. client'[c].pc = "applied" => index <= Len(node'[n].applied)
    BY <2>3, <2>4
  <2> HIDE DEF w
  <2>7. NewCall(c)
    BY <2>8, <2>4, <2>5, <2>6 DEF NewCall
  <2> QED BY <2>7 DEF CallMoves
<1>3. CASE c # d
  <2>1. client'[c] = Notified(n)[c]
    BY <1>1, <1>3 DEF Notified
  <2>2. client[c] \in NotSubmitted \/ client[c] \in Submitted
    BY DEF ClientsType
  <2>3. client'[c] \in {client[c], [client[c] EXCEPT !.woken = TRUE]}
    BY <2>1 DEF Notified
  <2>4. client'[c].pc = client[c].pc
        /\ (client[c] \in Submitted => /\ client'[c].at = client[c].at
                                       /\ client'[c].index = client[c].index
                                       /\ client'[c].entry = client[c].entry)
    BY <2>2, <2>3 DEF NotSubmitted, Submitted
  <2>5. client[c].pc \in {"waiting", "applied"} => client[c] \in Submitted
    BY <2>2 DEF NotSubmitted
  <2> QED BY <2>4, <2>5 DEF CallMoves, SameCall
<1> QED
  BY <1>2, <1>3

LEMMA LookMoves ==
  ASSUME ClientsType, NEW c \in Command, NEW d \in Command,
         \/ ClientLooks(d) \/ ClientTimesOut(d)
         \/ \E n \in Node : SubmitRejected(n, d)
  PROVE  CallMoves(c)
<1>1. CASE \E n \in Node : SubmitRejected(n, d)
  <2>1. \E pc \in {"notLeader", "stopped"} : client' = [client EXCEPT ![d] = [pc |-> pc]]
    BY <1>1 DEF SubmitRejected
  <2>2. CASE c = d
    BY <2>1, <2>2 DEF CallMoves, ClientsType
  <2>3. CASE c # d
    BY <2>1, <2>3 DEF CallMoves, SameCall, ClientsType
  <2> QED BY <2>2, <2>3
<1>2. CASE ClientLooks(d) \/ ClientTimesOut(d)
  <2>1. UNCHANGED node /\ client[d].pc = "waiting"
    BY <1>2 DEF ClientLooks, ClientTimesOut
  <2>2. PICK pc \in {"waiting", "applied", "notLeader", "stopped", "timeout"} :
            /\ client' = [client EXCEPT ![d].pc = pc, ![d].woken = FALSE]
            /\ pc = "applied" => Outcome(client[d]) = "applied"
    BY <1>2 DEF ClientLooks, ClientTimesOut, Outcome
  <2>3. CASE c = d
    <3>1. client[c] \in Submitted
      BY <2>1, <2>3 DEF ClientsType, NotSubmitted
    <3>2. /\ client'[c].at = client[c].at /\ client'[c].index = client[c].index
          /\ client'[c].entry = client[c].entry /\ client'[c].pc = pc
      BY <2>2, <2>3, <3>1 DEF ClientsType, Submitted
    <3> QED BY <2>1, <2>2, <2>3, <3>2 DEF CallMoves, SameCall, ToldSuccess
  <2>4. CASE c # d
    BY <2>2, <2>4 DEF CallMoves, SameCall, ClientsType
  <2> QED BY <2>3, <2>4
<1> QED
  BY <1>1, <1>2

LEMMA CallsMove ==
  ASSUME ClientsType, TypeInv, TypeInv', [RuntimeNext]_allVars, NEW c \in Command
  PROVE  CallMoves(c)
<1>1. \/ UNCHANGED client
      \/ \E n : client' = Notified(n)
      \/ \E n \in Node, d \in Command : Submit(n, d)
      \/ \E d \in Command : \/ ClientLooks(d) \/ ClientTimesOut(d)
                            \/ \E n \in Node : SubmitRejected(n, d)
  BY DEF RuntimeNext, allVars, TimerExpires, ElectionRound, DropRound, BallotReaches,
         BallotAnswered, BallotFails, ExecuteVoteRequest, ExecuteLate, Heartbeat, Stop,
         WorkerWakes, WorkerCalls, WorkerRests, CallReaches, CallAnswered, CallFails
<1> QED
  BY <1>1, KeptMoves, NotifiedMoves, SubmitMoves, LookMoves

LEMMA FinalNext ==
  ASSUME FinalInv, ClientsType, TypeInv, TypeInv', [Next]_vars, [RuntimeNext]_allVars
  PROVE  FinalInv'
<1> SUFFICES ASSUME NEW c \in Command, client'[c].pc \in {"waiting", "applied"}
             PROVE  /\ client'[c].index # 0 /\ client'[c].entry.command = c
                    /\ client'[c].pc = "applied" =>
                          /\ client'[c].index <= node'[client'[c].at].commitLength
                          /\ node'[client'[c].at].log[client'[c].index] = client'[c].entry
  BY DEF FinalInv
<1> DEFINE w == client[c]
           v == client'[c]
<1>1. \A n \in Node :
          /\ node[n].commitLength \in Nat /\ node'[n].commitLength \in Nat
          /\ Len(node[n].applied) \in Nat /\ Len(node[n].applied) <= node[n].commitLength
          /\ Len(node'[n].applied) \in Nat /\ Len(node'[n].applied) <= node'[n].commitLength
          /\ Len(node'[n].log) \in Nat
  BY LenProperties DEF TypeInv, WellFormed, RaftState
<1>2. w.pc \in {"waiting", "applied"} =>
          w.at \in Node /\ w.index \in Nat /\ w.index # 0 /\ w.entry.command = c
  BY DEF FinalInv, ClientsType, Submitted, NotSubmitted
<1>3. CASE SameCall(c)
  <2>1. /\ w.at \in Node /\ w.index \in Nat /\ w.index # 0 /\ w.entry.command = c
        /\ v.at = w.at /\ v.index = w.index /\ v.entry = w.entry /\ v.pc = w.pc
    BY <1>2, <1>3 DEF SameCall
  <2>2. CASE v.pc = "applied"
    <3>1. w.index <= node[w.at].commitLength /\ node[w.at].log[w.index] = w.entry
      BY <1>3, <2>1, <2>2 DEF FinalInv
    <3>2. w.index \in 1 .. node[w.at].commitLength
      BY <1>1, <2>1, <3>1
    <3>3. /\ node[w.at].commitLength <= node'[w.at].commitLength
          /\ node'[w.at].log[w.index] = node[w.at].log[w.index]
      BY <2>1, <3>2, CommittedKept
    <3>4. w.index <= node'[w.at].commitLength
      BY <1>1, <2>1, <3>1, <3>3
    <3> QED BY <2>1, <3>1, <3>3, <3>4
  <2> QED BY <2>1, <2>2
<1>4. CASE ToldSuccess(c)
  <2>1. /\ w.at \in Node /\ w.index \in Nat /\ w.index # 0 /\ node' = node
        /\ w.entry.command = c
        /\ v.at = w.at /\ v.index = w.index /\ v.entry = w.entry
    BY <1>2, <1>4 DEF ToldSuccess
  <2>2. Len(node[w.at].applied) >= w.index /\ node[w.at].log[w.index] = w.entry
    BY <1>4 DEF ToldSuccess, Outcome
  <2>3. w.index <= node[w.at].commitLength
    BY <1>1, <2>1, <2>2
  <2> QED BY <2>1, <2>2, <2>3
<1>5. CASE NewCall(c)
  <2>1. /\ v.at \in Node /\ v.index # 0 /\ v.index = Len(node'[v.at].log)
        /\ v.entry = node'[v.at].log[v.index] /\ v.entry.command = c
        /\ v.pc = "applied" => v.index <= Len(node'[v.at].applied)
    BY <1>5 DEF NewCall
  <2>2. v.pc = "applied" => v.index <= node'[v.at].commitLength
    BY <1>1, <2>1
  <2> QED BY <2>1, <2>2
<1> QED
  BY <1>3, <1>4, <1>5, CallsMove DEF CallMoves

LEMMA FinalHolds == RuntimeSpec => []FinalInv
<1>1. RuntimeInit => FinalInv
  BY DEF RuntimeInit, FinalInv, NoCall
<1>2. FinalInv /\ ClientsType /\ TypeInv /\ TypeInv' /\ [Next]_vars /\ [RuntimeNext]_allVars
          => FinalInv'
  BY FinalNext
<1>3. RuntimeSpec => []ClientsType
  BY WakeHolds, PTL DEF WakeInv
<1>4. Spec => []TypeInv /\ [][Next]_vars
  BY TypeInvariance, PTL DEF Spec
<1> QED
  BY <1>1, <1>2, <1>3, <1>4, RuntimeImplementsRaft, PTL DEF RuntimeSpec

LEMMA PrefixElement ==
  ASSUME NEW log \in Seq(LogEntry), NEW k \in Nat, k <= Len(log), NEW i \in 1 .. k
  PROVE  Prefix(log, k)[i] = log[i]
<1>1. Len(log) \in Nat /\ k \in 0 .. Len(log)
  BY LenProperties
<1>2. SubSeq(log, 1, k)[i] = log[1 + i - 1]
  BY <1>1, SubSeqProperties
<1> QED
  BY <1>1, <1>2 DEF Prefix

LEMMA FinalSuccess ==
  ASSUME TypeInv, SafetyInv, LeaderCompleteness, FinalInv, ClientsType
  PROVE  SuccessIsFinal
<1> SUFFICES ASSUME NEW c \in Command, client[c].pc = "applied", NEW n \in Node,
                    \/ node[n].commitLength >= client[c].index
                    \/ /\ node[n].role = Leader
                       /\ node[n].currentTerm >= node[client[c].at].currentTerm
             PROVE  /\ client[c].index <= Len(node[n].log)
                    /\ node[n].log[client[c].index] = client[c].entry
  BY DEF SuccessIsFinal
<1> DEFINE w == client[c]
           s == node[n]
           a == node[w.at]
<1>1. w.at \in Node /\ w.index \in Nat /\ w.index # 0
  BY DEF FinalInv, ClientsType, Submitted, NotSubmitted
<1>2. w.index <= a.commitLength /\ a.log[w.index] = w.entry
  BY DEF FinalInv
<1>3. /\ s.commitLength \in Nat /\ s.commitLength <= Len(s.log) /\ Len(s.log) \in Nat
      /\ s.currentTerm \in Nat
      /\ a.commitLength \in Nat /\ a.currentTerm \in Nat /\ a.commitLength <= Len(a.log)
      /\ a.log \in Seq(LogEntry) /\ s.log \in Seq(LogEntry) /\ Len(a.log) \in Nat
  BY <1>1, NodeTypes
<1>4. w.index \in 1 .. a.commitLength
  BY <1>1, <1>2, <1>3
<1>5. CASE s.commitLength >= w.index
  <2>1. PICK L : Safety(L)
    BY DEF SafetyInv
  <2>2. w.index <= s.commitLength
    BY <1>1, <1>3, <1>5
  <2>3. a.log[w.index] = s.log[w.index]
    BY <1>1, <1>4, <2>1, <2>2, CommittedAgree
  <2> QED BY <1>1, <1>2, <1>3, <2>2, <2>3
<1>6. CASE s.role = Leader /\ s.currentTerm >= a.currentTerm
  <2>1. a.currentTerm <= s.currentTerm
    BY <1>3, <1>6
  <2>2. a.commitLength <= Len(s.log) /\ Prefix(a.log, a.commitLength) = Prefix(s.log, a.commitLength)
    BY <1>1, <1>6, <2>1 DEF LeaderCompleteness, Committed
  <2>3. Prefix(a.log, a.commitLength)[w.index] = a.log[w.index]
        /\ Prefix(s.log, a.commitLength)[w.index] = s.log[w.index]
    <3> HIDE DEF a, s, w
    <3> QED BY <1>3, <1>4, <2>2, PrefixElement
  <2>4. w.index <= Len(s.log)
    BY <1>1, <1>2, <1>3, <2>2
  <2> QED BY <1>2, <2>2, <2>3, <2>4
<1> QED
  BY <1>5, <1>6

\* What a client was told is applied stays: in every committed log and in
\* every leader's log that its node has not passed (_wait_for_commit).
THEOREM SuccessesAreFinal == RuntimeSpec => []SuccessIsFinal
<1>1. TypeInv /\ SafetyInv /\ LeaderCompleteness /\ FinalInv /\ ClientsType => SuccessIsFinal
  BY FinalSuccess
<1>2. RuntimeSpec => []ClientsType
  BY WakeHolds, PTL DEF WakeInv
<1>3. Spec => []TypeInv /\ []SafetyInv /\ []LeaderCompleteness
  BY TypeInvariance, SafetyInvariance, LeadersAreComplete, PTL
<1> QED
  BY <1>1, <1>2, <1>3, FinalHolds, RuntimeImplementsRaft, PTL

-----------------------------------------------------------------------------
(* A worker rests without a signal in sync, or behind a failed call.        *)

\* What a call under way and its response say of each other.
Answers(p, q, r) ==
    /\ r.followerId = p
    /\ r.term >= q.term
    /\ r.success => r.acknowledgedLength = q.prefixLength + Len(q.entries)
    /\ ~r.success /\ r.term = q.term => q.prefixLength # 0

CallSound(n, p) ==
    LET w == worker[n][p]
    IN  w.pc = "calling" => /\ w.request.leaderId = n
                            /\ w.response # None => Answers(p, w.request, w.response)

\* Without a signal, the request under way carries the whole log.
Covers(s, p, q) ==
    /\ q.term = s.currentTerm
    /\ q.prefixLength = s.sentLength[p]
    /\ q.prefixLength + Len(q.entries) = Len(s.log)

InSync(n, p) ==
    running[n] /\ node[n].role = Leader /\ p # n /\ ~signal[n][p] =>
        /\ worker[n][p] = Idle => node[n].ackedLength[p] = Len(node[n].log)
        /\ worker[n][p].pc = "calling" => Covers(node[n], p, worker[n][p].request)

SignalType == signal \in [Node -> [Node -> BOOLEAN]]

SyncInv ==
    /\ SignalType /\ RunningType
    /\ \A n, p \in Node : CallSound(n, p) /\ InSync(n, p)

\* The node leads after the step only if it did before, and what it tracks of
\* the peer is the same.
Keeps(s, u, p) ==
    u.role = Leader =>
        /\ s.role = Leader
        /\ u.currentTerm = s.currentTerm /\ u.log = s.log
        /\ u.sentLength[p] = s.sentLength[p] /\ u.ackedLength[p] = s.ackedLength[p]

LEMMA ApplyKeeps ==
  ASSUME NEW s, WellFormed(s)
  PROVE  LET u == ApplyCommittedEntries(s)
         IN  /\ u.role = s.role /\ u.currentTerm = s.currentTerm /\ u.log = s.log
             /\ u.sentLength = s.sentLength /\ u.ackedLength = s.ackedLength
  BY DEF ApplyCommittedEntries, WellFormed, RaftState

\* A leader that executes a call of a peer leads on with the same lengths, or
\* does not lead any more.
LEMMA VoteRequestKeeps ==
  ASSUME TypeInv, NEW i \in Node, NEW m \in VoteRequest, ReceiveVoteRequest(i, m),
         NEW n \in Node, NEW p \in Node
  PROVE  Keeps(node[n], node'[n], p)
<1>1. node' = [node EXCEPT ![i] = HandleVoteRequest(i, node[i], m).state]
  BY DEF ReceiveVoteRequest
<1>2. node \in [Node -> RaftState] /\ WellFormed(node[i])
  BY DEF TypeInv, TypeOK
<1>3. LET r == HandleVoteRequest(i, node[i], m)
      IN  /\ SameLog(node[i], r.state)
          /\ r.state.role = Leader => r.state = node[i]
          /\ r.response.granted =>
                /\ m.candidateId \in Node /\ m.term = r.state.currentTerm
                /\ LogIsCurrent(node[i], m)
  BY <1>2, HandleVoteRequestLog
<1> QED
  BY <1>1, <1>2, <1>3 DEF Keeps

LEMMA HandleLogRequestLeads ==
  ASSUME NEW s, WellFormed(s), NEW self \in Node, NEW m \in LogRequest, ~LogRequestRaises(s, m)
  PROVE  HandleLogRequest(self, s, m).state.role = Leader => HandleLogRequest(self, s, m).state = s
  BY HandleLogRequestLog

LEMMA LogRequestKeeps ==
  ASSUME TypeInv, NEW i \in Node, NEW m \in LogRequest, ReceiveLogRequest(i, m),
         NEW n \in Node, NEW p \in Node
  PROVE  Keeps(node[n], node'[n], p)
<1> DEFINE s == node[i]
           h == HandleLogRequest(i, s, m).state
           u == ApplyCommittedEntries(h)
<1>1. node' = [node EXCEPT ![i] = u] /\ ~LogRequestRaises(s, m)
  BY DEF ReceiveLogRequest
<1>2. node \in [Node -> RaftState] /\ WellFormed(s)
  BY DEF TypeInv, TypeOK
<1>3. WellFormed(h)
  BY <1>1, <1>2, HandleLogRequestWellFormed
<1>4. h.role = Leader => h = s
  BY <1>1, <1>2, HandleLogRequestLeads
<1> HIDE DEF h
<1>5. /\ u.role = h.role /\ u.currentTerm = h.currentTerm /\ u.log = h.log
      /\ u.sentLength = h.sentLength /\ u.ackedLength = h.ackedLength
  BY <1>3, ApplyKeeps
<1> HIDE DEF u
<1> QED
  BY <1>1, <1>2, <1>4, <1>5 DEF Keeps

\* A node that leads is not elected again.
LEMMA VoteResponseKeeps ==
  ASSUME TypeInv, NEW i \in Node, NEW m \in VoteResponse, VoteResponseArrives(i, m),
         NEW n \in Node, NEW p \in Node, n # i \/ node[i].role = Leader
  PROVE  Keeps(node[n], node'[n], p)
<1>1. node' = [node EXCEPT ![i] = HandleVoteResponse(i, node[i], m)]
  BY DEF VoteResponseArrives
<1>2. node \in [Node -> RaftState]
  BY DEF TypeInv, TypeOK
<1>3. node[i].role = Leader => ~CountsVote(node[i], m)
  BY RoleAssumption DEF CountsVote
<1>4. BecomeFollower(node[i], m.term, None).role # Leader
  BY <1>2, RoleAssumption DEF BecomeFollower, RaftState
<1>5. node[i].role = Leader /\ HandleVoteResponse(i, node[i], m).role = Leader
        => HandleVoteResponse(i, node[i], m) = node[i]
  BY <1>3, <1>4 DEF HandleVoteResponse
<1> QED
  BY <1>1, <1>2, <1>5 DEF Keeps

-----------------------------------------------------------------------------
(* Steps that leave the workers alone, or signal all of a node.            *)

\* A step that keeps, or signals, what the worker of n for p rests on.
LEMMA SyncStays ==
  ASSUME SyncInv, NEW n \in Node, NEW p \in Node,
         Keeps(node[n], node'[n], p) \/ p = n \/ signal'[n][p],
         running'[n] => running[n],
         signal[n][p] /\ ~signal'[n][p] => worker'[n][p].pc \in {"ready", "failed"},
         \/ worker'[n][p] = worker[n][p]
         \/ worker'[n][p].pc \in {"ready", "failed"}
         \/ /\ worker[n][p].pc = "calling" /\ worker'[n][p].pc = "calling"
            /\ worker'[n][p].request = worker[n][p].request
  PROVE  InSync(n, p)'
<1> DEFINE w == worker[n][p]
           v == worker'[n][p]
<1> SUFFICES ASSUME running'[n], node'[n].role = Leader, p # n, ~signal'[n][p]
             PROVE  /\ v = Idle => node'[n].ackedLength[p] = Len(node'[n].log)
                    /\ v.pc = "calling" => Covers(node'[n], p, v.request)
  BY DEF InSync
<1>1. Idle.pc = "idle"
  BY DEF Idle
<1>2. CASE v.pc \in {"ready", "failed"}
  BY <1>1, <1>2
<1>3. CASE v.pc \notin {"ready", "failed"}
  <2>1. /\ running[n] /\ node[n].role = Leader /\ ~signal[n][p]
        /\ node'[n].currentTerm = node[n].currentTerm /\ node'[n].log = node[n].log
        /\ node'[n].sentLength[p] = node[n].sentLength[p]
        /\ node'[n].ackedLength[p] = node[n].ackedLength[p]
    BY <1>3 DEF Keeps
  <2>2. /\ w = Idle => node[n].ackedLength[p] = Len(node[n].log)
        /\ w.pc = "calling" => Covers(node[n], p, w.request)
    BY <2>1 DEF SyncInv, InSync
  <2>3. CASE v = w
    BY <2>1, <2>2, <2>3 DEF Covers
  <2>4. CASE w.pc = "calling" /\ v.pc = "calling" /\ v.request = w.request
    BY <1>1, <2>1, <2>2, <2>4 DEF Covers
  <2> QED BY <1>3, <2>3, <2>4
<1> QED
  BY <1>2, <1>3

SyncStep == SignalType' /\ \A n, p \in Node : CallSound(n, p)' /\ InSync(n, p)'

\* Steps that leave the workers and their signals alone.
LEMMA SyncQuiet ==
  ASSUME SyncInv, UNCHANGED <<worker, signal>>,
         \A n \in Node : running'[n] => running[n],
         \A n, p \in Node : Keeps(node[n], node'[n], p)
  PROVE  SyncStep
<1>1. SignalType'
  BY DEF SyncInv, SignalType
<1>2. ASSUME NEW n \in Node, NEW p \in Node PROVE CallSound(n, p)'
  BY DEF SyncInv, CallSound
<1>3. ASSUME NEW n \in Node, NEW p \in Node PROVE InSync(n, p)'
  <2>1. running'[n] => running[n]
    OBVIOUS
  <2>2. Keeps(node[n], node'[n], p)
    OBVIOUS
  <2>3. worker'[n][p] = worker[n][p] /\ (signal[n][p] => signal'[n][p])
    OBVIOUS
  <2> QED BY <2>1, <2>2, <2>3, SyncStays
<1> QED BY <1>1, <1>2, <1>3 DEF SyncStep

\* Steps of one node that signal all its workers.
LEMMA SignalStep ==
  ASSUME SyncInv, NEW i \in Node, UNCHANGED <<worker, running>>,
         signal' = Signalled(i),
         \A n \in Node \ {i} : node'[n] = node[n]
  PROVE  SyncStep
<1>1. SignalType'
  BY DEF SignalType, SyncInv, Signalled
<1>2. ASSUME NEW n \in Node, NEW p \in Node PROVE CallSound(n, p)'
  BY DEF SyncInv, CallSound
<1>3. ASSUME NEW n \in Node, NEW p \in Node PROVE InSync(n, p)'
  <2>1. p # n => (signal[n][p] => signal'[n][p])
    BY DEF SyncInv, SignalType, Signalled
  <2>2. n = i /\ p # n => signal'[n][p]
    BY DEF SyncInv, SignalType, Signalled
  <2>3. n # i => Keeps(node[n], node'[n], p)
    BY DEF Keeps
  <2>4. (running'[n] => running[n]) /\ worker'[n][p] = worker[n][p]
    OBVIOUS
  <2>5. CASE p = n
    BY <2>5 DEF InSync
  <2>6. CASE p # n
    <3>1. Keeps(node[n], node'[n], p) \/ p = n \/ signal'[n][p]
      BY <2>2, <2>3, <2>6
    <3>2. signal[n][p] /\ ~signal'[n][p] => worker'[n][p].pc \in {"ready", "failed"}
      BY <2>1, <2>6
    <3> QED BY <2>4, <3>1, <3>2, SyncStays
  <2> QED BY <2>5, <2>6
<1> QED BY <1>1, <1>2, <1>3 DEF SyncStep

\* A node that becomes the leader signals its workers.
LEMMA ElectionRoundSync ==
  ASSUME SyncInv, TypeInv, NEW i \in Node, ElectionRound(i)
  PROVE  SyncStep
<1> DEFINE s == node[i]
           u == StartElection(i, s).state
<1>1. node' = [node EXCEPT ![i] = u] /\ UNCHANGED <<worker, running>>
      /\ SignalIf(i, node'[i].leaderId = i)
  BY DEF ElectionRound, StartElectionRound
<1>2. node \in [Node -> RaftState] /\ WellFormed(s)
  BY DEF TypeInv, TypeOK
<1>3. u.role = Candidate \/ (u.role = Leader /\ u.leaderId = i)
  <2> DEFINE r == StartElection(i, s).request
  <2>1. /\ KeepsVotes(s, u)
        /\ u.currentTerm = s.currentTerm + 1 /\ u.votedFor = i
        /\ \/ u.role = Candidate /\ u.votesReceived = {i} /\ u.leaderId = None
           \/ u.role = Leader /\ QuorumSize <= 1 /\ u.leaderId = i
        /\ r.type = "VoteRequest" /\ r.candidateId = i /\ r.term = u.currentTerm
    BY <1>2, StartElectionElection
  <2> QED BY <2>1
<1> HIDE DEF u
<1>4. CASE node'[i].leaderId = i
  BY <1>1, <1>2, <1>4, SignalStep DEF SignalIf
<1>5. CASE node'[i].leaderId # i
  <2>1. signal' = signal
    BY <1>1, <1>5 DEF SignalIf
  <2>2. node'[i].role # Leader
    BY <1>1, <1>2, <1>3, <1>5, RoleAssumption
  <2>3. \A n, p \in Node : Keeps(node[n], node'[n], p)
    BY <1>1, <1>2, <2>2 DEF Keeps
  <2> QED BY <1>1, <2>1, <2>3, SyncQuiet
<1> QED BY <1>4, <1>5

LEMMA BallotAnsweredSync ==
  ASSUME SyncInv, TypeInv, CallsAreSent, NEW b \in ballots, BallotAnswered(b)
  PROVE  SyncStep
<1> DEFINE i == b.caller
           m == b.response
<1>1. i \in Node /\ m \in VoteResponse
  BY SentType DEF BallotAnswered, CallsAreSent, BallotsType, TypeInv
<1>2. VoteResponseArrives(i, m) /\ UNCHANGED <<worker, running>>
      /\ SignalIf(i, node[i].role # Leader /\ node'[i].role = Leader)
  BY DEF BallotAnswered
<1>3. node \in [Node -> RaftState] /\ node' = [node EXCEPT ![i] = HandleVoteResponse(i, node[i], m)]
  BY <1>2 DEF TypeInv, TypeOK, VoteResponseArrives
<1> HIDE DEF i, m
<1>4. CASE node[i].role # Leader /\ node'[i].role = Leader
  BY <1>1, <1>2, <1>3, <1>4, SignalStep DEF SignalIf
<1>5. CASE ~(node[i].role # Leader /\ node'[i].role = Leader)
  <2>1. signal' = signal
    BY <1>2, <1>5 DEF SignalIf
  <2>2. ASSUME NEW n \in Node, NEW p \in Node PROVE Keeps(node[n], node'[n], p)
    <3>1. CASE n # i \/ node[i].role = Leader
      BY <1>1, <1>2, <3>1, VoteResponseKeeps
    <3>2. CASE n = i /\ node[i].role # Leader
      BY <1>5, <3>2 DEF Keeps
    <3> QED BY <3>1, <3>2
  <2> QED BY <1>2, <2>1, <2>2, SyncQuiet
<1> QED BY <1>4, <1>5

-----------------------------------------------------------------------------
(* Steps of one worker.                                                    *)

\* They leave the others alone: only its own call has to be looked at.
LEMMA OneWorkerStep ==
  ASSUME SyncInv, TasksType, NEW i \in Node, NEW j \in Node, NEW t, UNCHANGED running,
         worker' = [worker EXCEPT ![i][j] = t],
         signal' \in {signal, [signal EXCEPT ![i][j] = FALSE]},
         \A n, p \in Node : n # i \/ p # j => Keeps(node[n], node'[n], p),
         CallSound(i, j)', InSync(i, j)'
  PROVE  SyncStep
<1>1. SignalType'
  <2>1. CASE signal' = signal
    BY <2>1 DEF SyncInv, SignalType
  <2>2. CASE signal' = [signal EXCEPT ![i][j] = FALSE]
    BY <2>2 DEF SyncInv, SignalType
  <2> QED BY <2>1, <2>2
<1>2. ASSUME NEW n \in Node, NEW p \in Node, n # i \/ p # j
      PROVE  worker'[n][p] = worker[n][p] /\ signal'[n][p] = signal[n][p]
  <2>1. worker'[n][p] = worker[n][p]
    BY <1>2 DEF TasksType
  <2>2. signal'[n][p] = signal[n][p]
    BY <1>2 DEF SyncInv, SignalType
  <2> QED BY <2>1, <2>2
<1>3. ASSUME NEW n \in Node, NEW p \in Node, n # i \/ p # j PROVE CallSound(n, p)'
  BY <1>2, <1>3 DEF SyncInv, CallSound
<1>4. ASSUME NEW n \in Node, NEW p \in Node, n # i \/ p # j PROVE InSync(n, p)'
  <2>1. Keeps(node[n], node'[n], p) /\ (running'[n] => running[n])
    BY <1>4
  <2>2. worker'[n][p] = worker[n][p] /\ (signal[n][p] => signal'[n][p])
    BY <1>2, <1>4
  <2> QED BY <2>1, <2>2, SyncStays
<1>5. ASSUME NEW n \in Node, NEW p \in Node PROVE CallSound(n, p)' /\ InSync(n, p)'
  <2>1. CASE n # i \/ p # j
    BY <2>1, <1>3, <1>4
  <2>2. CASE n = i /\ p = j
    BY <2>2
  <2> QED BY <2>1, <2>2
<1> QED BY <1>1, <1>5 DEF SyncStep

\* A worker that is ready or has failed is bound to nothing.
LEMMA WorkerAwake ==
  ASSUME TasksType, NEW i \in Node, NEW j \in Node, NEW t \in {Ready, Failed},
         worker' = [worker EXCEPT ![i][j] = t]
  PROVE  CallSound(i, j)' /\ InSync(i, j)'
<1>1. worker'[i][j] = t
  BY DEF TasksType
<1>2. t.pc \in {"ready", "failed"} /\ Idle.pc = "idle"
  BY DEF Ready, Failed, Idle
<1> QED
  BY <1>1, <1>2 DEF CallSound, InSync

LEMMA WorkerCallsSync ==
  ASSUME SyncInv, TasksType, TypeInv, NEW i \in Node, NEW j \in Node, WorkerCalls(i, j)
  PROVE  SyncStep
<1> DEFINE s == node[i]
           q == MakeLogRequest(i, s, j)
           t == Calling(j, q)
<1>1. /\ s.role = Leader /\ UNCHANGED <<running, signal, node>>
      /\ worker' = [worker EXCEPT ![i][j] = t]
  BY DEF WorkerCalls, SendLogRequest
<1>2. /\ WellFormed(s) /\ s.log \in Seq(LogEntry) /\ Len(s.log) \in Nat
      /\ s.sentLength[j] \in 0 .. Len(s.log)
  BY <1>1, LenProperties DEF TypeInv, WellFormed, RaftState
<1>3. /\ q.leaderId = i /\ q.term = s.currentTerm /\ q.prefixLength = s.sentLength[j]
      /\ q.entries = SubSeq(s.log, s.sentLength[j] + 1, Len(s.log))
  BY DEF MakeLogRequest
<1>4. q.prefixLength + Len(q.entries) = Len(s.log)
  <2> DEFINE k == s.sentLength[j]
  <2>1. k \in Nat /\ k <= Len(s.log)
    BY <1>2
  <2> HIDE DEF k, s, q
  <2>2. Len(SubSeq(s.log, k + 1, Len(s.log))) = Len(s.log) - k
    BY <1>2, <2>1, SubSeqProperties
  <2> QED BY <1>2, <1>3, <2>1, <2>2 DEF k
<1> HIDE DEF q
<1>5. worker'[i][j] = t
  BY <1>1 DEF TasksType
<1>6. t.pc = "calling" /\ t.request = q /\ t.response = None /\ t # Idle
  <2>1. t.pc = "calling" /\ t.request = q /\ t.response = None
    BY DEF Calling
  <2> QED BY <2>1 DEF Idle
<1> HIDE DEF t
<1>7. CallSound(i, j)'
  BY <1>3, <1>5, <1>6 DEF CallSound
<1>8. InSync(i, j)'
  <2>1. Covers(s, j, q)
    BY <1>3, <1>4 DEF Covers
  <2> QED BY <1>1, <1>5, <1>6, <2>1 DEF InSync
<1>9. \A n, p \in Node : n # i \/ p # j => Keeps(node[n], node'[n], p)
  BY <1>1 DEF Keeps
<1> QED BY <1>1, <1>7, <1>8, <1>9, OneWorkerStep

\* Only a prefix that is not empty can fail to match.
LEMMA RequestAnswered ==
  ASSUME NEW s, WellFormed(s), NEW p \in Node, NEW q \in LogRequest,
         ~LogRequestRaises(s, q), q.leaderId \in Node
  PROVE  Answers(p, q, HandleLogRequest(p, s, q).response)
<1> DEFINE u == IF AcceptsLeader(s, q) THEN FollowLeader(s, q) ELSE s
           success == AcceptsLeader(s, q) /\ PrefixMatches(s.log, q)
           r == HandleLogRequest(p, s, q).response
<1>1. /\ r.followerId = p /\ r.term = u.currentTerm
      /\ (success => r.success = TRUE) /\ (~success => r.success = FALSE)
      /\ r.acknowledgedLength = IF success THEN q.prefixLength + Len(q.entries) ELSE 0
  BY DEF HandleLogRequest
<1>2. q.term \in Nat /\ s.currentTerm \in Nat /\ q.prefixLength \in Nat /\ Len(s.log) \in Nat
  BY LenProperties DEF LogRequest, WellFormed, RaftState
<1>3. AcceptsLeader(s, q) => u.currentTerm = q.term
  BY <1>2 DEF AcceptsLeader, FollowLeader, BecomeFollower, WellFormed, RaftState
<1>4. ~AcceptsLeader(s, q) => u.currentTerm = s.currentTerm /\ s.currentTerm > q.term
  BY <1>2 DEF AcceptsLeader
<1>5. q.prefixLength = 0 => PrefixMatches(s.log, q)
  BY <1>2 DEF PrefixMatches
<1> HIDE DEF u, r
<1>6. r.term >= q.term
  BY <1>1, <1>2, <1>3, <1>4
<1>7. ~r.success /\ r.term = q.term => q.prefixLength # 0
  BY <1>1, <1>2, <1>3, <1>4, <1>5
<1>8. r.success => r.acknowledgedLength = q.prefixLength + Len(q.entries)
  BY <1>1
<1>9. Answers(p, q, r)
  BY <1>1, <1>6, <1>7, <1>8 DEF Answers
<1> QED BY <1>9 DEF r

LEMMA CallReachesSync ==
  ASSUME SyncInv, TasksType, TypeInv, NEW i \in Node, NEW j \in Node, CallReaches(i, j)
  PROVE  SyncStep
<1> DEFINE w == worker[i][j]
           q == w.request
           r == HandleLogRequest(j, node[j], q).response
           t == [w EXCEPT !.response = r]
<1>1. /\ w.pc = "calling" /\ ReceiveLogRequest(j, q) /\ UNCHANGED <<running, signal>>
      /\ worker' = [worker EXCEPT ![i][j] = t]
  BY DEF CallReaches
<1>2. w \in [pc : {"calling"}, peer : Node, request : Sent("LogRequest"),
             response : Sent("LogResponse") \cup {None}]
  BY <1>1 DEF TasksType
<1>3. q \in LogRequest /\ q.leaderId = i
  BY <1>1, <1>2, SentType DEF TypeInv, SyncInv, CallSound
<1>4. Answers(j, q, r)
  BY <1>1, <1>3, RequestAnswered DEF TypeInv, ReceiveLogRequest
<1>5. \A n, p \in Node : Keeps(node[n], node'[n], p)
  BY <1>1, <1>3, LogRequestKeeps
<1> HIDE DEF r
<1>6. worker'[i][j] = t /\ t.pc = "calling" /\ t.request = q /\ t.response = r
  BY <1>1, <1>2 DEF TasksType
<1>7. CallSound(i, j)'
  BY <1>3, <1>4, <1>6 DEF CallSound
<1>8. InSync(i, j)'
  <2>1. Keeps(node[i], node'[i], j) /\ (running'[i] => running[i])
        /\ (signal[i][j] => signal'[i][j])
    BY <1>1, <1>5
  <2>2. /\ worker[i][j].pc = "calling" /\ worker'[i][j].pc = "calling"
        /\ worker'[i][j].request = worker[i][j].request
    BY <1>1, <1>6
  <2> QED BY <2>1, <2>2, SyncStays
<1> HIDE DEF t
<1> QED BY <1>1, <1>5, <1>7, <1>8, OneWorkerStep

\* What the state after a response says, if the node still leads, of the state
\* before: only the lengths of the follower may have changed.
Tracked(s, u, m) ==
    u.role = Leader =>
        /\ s.role = Leader /\ u.currentTerm = s.currentTerm /\ u.log = s.log
        /\ m.term <= s.currentTerm
        /\ \A r \in Node \ {m.followerId} : /\ u.sentLength[r] = s.sentLength[r]
                                            /\ u.ackedLength[r] = s.ackedLength[r]
        /\ TracksResponse(s, m) /\ m.success
              /\ m.acknowledgedLength >= s.ackedLength[m.followerId]
              => u.ackedLength[m.followerId] = m.acknowledgedLength

LEMMA LogResponseTracks ==
  ASSUME NEW s, WellFormed(s), NEW i, NEW m \in LogResponse
  PROVE  Tracked(s, HandleLogResponse(i, s, m), m)
<1> DEFINE u == HandleLogResponse(i, s, m)
           p == m.followerId
           k == m.acknowledgedLength
           a == [s EXCEPT !.sentLength[p] = k, !.ackedLength[p] = k]
           b == StepBack(s, m)
<1> SUFFICES Tracked(s, u, m)
  OBVIOUS
<1>1. m.term \in Nat /\ p \in Node /\ k \in Nat /\ s.currentTerm \in Nat /\ s \in RaftState
  BY DEF LogResponse, WellFormed, RaftState
<1>2. CASE m.term > s.currentTerm
  <2>1. u = BecomeFollower(s, m.term, None)
    BY <1>2 DEF HandleLogResponse
  <2>2. u.role # Leader
    BY <1>1, <2>1, RoleAssumption DEF BecomeFollower, RaftState
  <2> QED BY <2>2 DEF Tracked
<1>3. CASE ~(m.term > s.currentTerm) /\ u = s
         /\ ~(TracksResponse(s, m) /\ m.success /\ k >= s.ackedLength[p])
  <2> HIDE DEF u
  <2> QED BY <1>1, <1>3 DEF Tracked
<1>4. CASE ~(m.term > s.currentTerm) /\ TracksResponse(s, m) /\ ~m.success
  <2>1. u = b
    BY <1>4 DEF HandleLogResponse
  <2>2. s.role = Leader /\ s.sentLength \in [Node -> 0 .. Len(s.log)]
    BY <1>4 DEF TracksResponse, WellFormed
  <2>3. /\ b.currentTerm = s.currentTerm /\ b.log = s.log /\ b.ackedLength = s.ackedLength
        /\ \A r \in Node \ {p} : b.sentLength[r] = s.sentLength[r]
    BY <1>1, <2>2 DEF StepBack, RaftState
  <2> HIDE DEF u, b
  <2> QED BY <1>1, <1>4, <2>1, <2>2, <2>3 DEF Tracked
<1>5. CASE /\ ~(m.term > s.currentTerm) /\ TracksResponse(s, m) /\ m.success
           /\ ~(k < s.ackedLength[p])
  <2>1. u = AdvanceCommitLength(a)
    BY <1>5 DEF HandleLogResponse, RecordAck
  <2>2. /\ s.role = Leader /\ s.sentLength \in [Node -> 0 .. Len(s.log)]
        /\ s.ackedLength \in [Node -> 0 .. Len(s.log)]
    BY <1>5 DEF TracksResponse, WellFormed
  <2>3. /\ a.currentTerm = s.currentTerm /\ a.log = s.log
        /\ a.sentLength = [s.sentLength EXCEPT ![p] = k]
        /\ a.ackedLength = [s.ackedLength EXCEPT ![p] = k]
    BY <1>1, <2>2 DEF RaftState
  <2>4. /\ u.currentTerm = a.currentTerm /\ u.log = a.log
        /\ u.sentLength = a.sentLength /\ u.ackedLength = a.ackedLength
    <3> DEFINE x == CHOOSE x \in Committable(a) : \A y \in Committable(a) : y <= x
    <3>1. u \in {a, [a EXCEPT !.commitLength = x]}
      BY <2>1 DEF AdvanceCommitLength
    <3>2. DOMAIN a = DOMAIN s /\ DOMAIN s = {"currentTerm", "votedFor", "log", "commitLength",
            "role", "leaderId", "votesReceived", "sentLength", "ackedLength", "applied"}
      BY <1>1 DEF RaftState
    <3> HIDE DEF x, a, u
    <3> QED BY <3>1, <3>2
  <2> HIDE DEF u, a
  <2> QED BY <1>1, <1>5, <2>2, <2>3, <2>4 DEF Tracked
<1>6. \/ m.term > s.currentTerm
      \/ /\ ~(m.term > s.currentTerm) /\ u = s
         /\ ~(TracksResponse(s, m) /\ m.success /\ k >= s.ackedLength[p])
      \/ ~(m.term > s.currentTerm) /\ TracksResponse(s, m) /\ ~m.success
      \/ /\ ~(m.term > s.currentTerm) /\ TracksResponse(s, m) /\ m.success
         /\ ~(k < s.ackedLength[p])
  <2>1. TracksResponse(s, m) => s.ackedLength[p] \in Nat
    <3>1. ASSUME TracksResponse(s, m) PROVE s.ackedLength \in [Node -> 0 .. Len(s.log)]
      BY <3>1 DEF TracksResponse, WellFormed
    <3> QED BY <1>1, <3>1
  <2>2. CASE m.term > s.currentTerm
    BY <2>2
  <2>3. CASE ~(m.term > s.currentTerm) /\ ~TracksResponse(s, m)
    BY <2>3 DEF HandleLogResponse
  <2>4. CASE ~(m.term > s.currentTerm) /\ TracksResponse(s, m) /\ m.success /\ k < s.ackedLength[p]
    <3>1. u = s
      BY <2>4 DEF HandleLogResponse
    <3>2. ~(k >= s.ackedLength[p])
      BY <1>1, <2>1, <2>4
    <3> QED BY <2>4, <3>1, <3>2
  <2> QED BY <2>2, <2>3, <2>4
<1> QED
  BY <1>2, <1>3, <1>4, <1>5, <1>6

LEMMA CallAnsweredSync ==
  ASSUME SyncInv, TasksType, TypeInv, NEW i \in Node, NEW j \in Node, CallAnswered(i, j)
  PROVE  SyncStep
<1> DEFINE w == worker[i][j]
           q == w.request
           m == w.response
           s == node[i]
           h == HandleLogResponse(i, s, m)
           u == ApplyCommittedEntries(h)
           t == IF Retries(s, m) THEN Ready ELSE Idle
<1>1. /\ w.pc = "calling" /\ m # None /\ UNCHANGED <<running, signal>>
      /\ worker' = [worker EXCEPT ![i][j] = t]
      /\ node' = [node EXCEPT ![i] = u] /\ ~LogResponseRaises(s, m)
  BY DEF CallAnswered, LogResponseArrives
<1>2. m \in LogResponse /\ q \in LogRequest
  <2>1. w \in [pc : {"calling"}, peer : Node, request : Sent("LogRequest"),
               response : Sent("LogResponse") \cup {None}]
    BY <1>1 DEF TasksType
  <2> QED BY <1>1, <2>1, SentType DEF TypeInv
<1>3. node \in [Node -> RaftState] /\ WellFormed(s)
  BY DEF TypeInv, TypeOK
<1>4. Answers(j, q, m)
  BY <1>1 DEF SyncInv, CallSound
<1>5. WellFormed(h)
  BY <1>1, <1>2, <1>3, HandleLogResponseWellFormed
<1>6. Tracked(s, h, m) /\ m.followerId = j
  BY <1>2, <1>3, <1>4, LogResponseTracks DEF Answers
<1> HIDE DEF h
<1>7. /\ u.role = h.role /\ u.currentTerm = h.currentTerm /\ u.log = h.log
      /\ u.sentLength = h.sentLength /\ u.ackedLength = h.ackedLength
  BY <1>5, ApplyKeeps
<1> HIDE DEF u
<1>8. \A n, p \in Node : n # i \/ p # j => Keeps(node[n], node'[n], p)
  BY <1>1, <1>3, <1>6, <1>7 DEF Keeps, Tracked
<1>9. worker'[i][j] = t /\ (t = Idle \/ t = Ready)
  BY <1>1 DEF TasksType
<1>10. Idle.pc = "idle" /\ Ready.pc = "ready" /\ Ready # Idle
  <2>1. Idle.pc = "idle" /\ Ready.pc = "ready"
    BY DEF Idle, Ready
  <2> QED BY <2>1
<1>11. CallSound(i, j)'
  BY <1>9, <1>10 DEF CallSound
<1>12. InSync(i, j)'
  <2> SUFFICES ASSUME running'[i], node'[i].role = Leader, j # i, ~signal'[i][j],
                      worker'[i][j] = Idle
               PROVE  node'[i].ackedLength[j] = Len(node'[i].log)
    BY <1>9, <1>10 DEF InSync
  <2>1. node'[i] = u
    BY <1>1, <1>3
  <2>2. h.role = Leader /\ s.role = Leader /\ h.log = s.log /\ m.term <= s.currentTerm
    BY <1>6, <1>7, <2>1 DEF Tracked
  <2>3. Covers(s, j, q)
    BY <1>1, <2>2 DEF SyncInv, InSync
  <2>4. ~Retries(s, m)
    BY <1>9, <1>10
  <2>5. /\ m.term \in Nat /\ m.acknowledgedLength \in Nat /\ s.currentTerm \in Nat
        /\ s.sentLength[j] \in 0 .. Len(s.log) /\ s.ackedLength[j] \in 0 .. Len(s.log)
        /\ Len(s.log) \in Nat
    BY <1>2, <1>3, <2>2, LenProperties DEF LogResponse, WellFormed, RaftState
  <2>6. m.term = q.term /\ TracksResponse(s, m)
    BY <1>4, <2>2, <2>3, <2>5 DEF Answers, Covers, TracksResponse
  <2>7. m.success
    <3>1. ASSUME ~m.success PROVE FALSE
      <4>1. q.prefixLength # 0 /\ q.prefixLength = s.sentLength[j]
        BY <1>4, <2>3, <2>6, <3>1 DEF Answers, Covers
      <4>2. s.sentLength[j] > 0
        BY <2>5, <4>1
      <4>3. m.followerId = j
        BY <1>4 DEF Answers
      <4> QED BY <2>4, <2>6, <3>1, <4>2, <4>3 DEF Retries
    <3> QED BY <3>1
  <2>8. m.acknowledgedLength = Len(s.log)
    BY <1>4, <2>3, <2>7 DEF Answers, Covers
  <2>9. m.acknowledgedLength >= s.ackedLength[j]
    BY <2>5, <2>8
  <2> QED BY <1>6, <1>7, <2>1, <2>2, <2>6, <2>7, <2>8, <2>9 DEF Tracked
<1> HIDE DEF t
<1> QED BY <1>1, <1>8, <1>11, <1>12, OneWorkerStep

LEMMA WorkerSync ==
  ASSUME SyncInv, TasksType, TypeInv, NEW i \in Node, NEW j \in Node,
         \/ WorkerWakes(i, j) \/ WorkerCalls(i, j) \/ WorkerRests(i, j)
         \/ CallReaches(i, j) \/ CallAnswered(i, j) \/ CallFails(i, j)
  PROVE  SyncStep
<1>1. CASE WorkerWakes(i, j) \/ CallFails(i, j)
  <2>1. /\ UNCHANGED <<node, running>> /\ signal' \in {signal, [signal EXCEPT ![i][j] = FALSE]}
        /\ \E t \in {Ready, Failed} : worker' = [worker EXCEPT ![i][j] = t]
    BY <1>1 DEF WorkerWakes, CallFails
  <2>2. CallSound(i, j)' /\ InSync(i, j)'
    BY <2>1, WorkerAwake
  <2>3. \A n, p \in Node : n # i \/ p # j => Keeps(node[n], node'[n], p)
    BY <2>1 DEF Keeps
  <2> QED BY <2>1, <2>2, <2>3, OneWorkerStep
<1>2. CASE WorkerRests(i, j)
  <2>1. /\ UNCHANGED <<node, running, signal>> /\ node[i].role # Leader
        /\ worker' = [worker EXCEPT ![i][j] = Idle]
    BY <1>2 DEF WorkerRests
  <2>2. worker'[i][j] = Idle /\ Idle.pc = "idle"
    BY <2>1 DEF TasksType, Idle
  <2>3. CallSound(i, j)' /\ InSync(i, j)'
    BY <2>1, <2>2 DEF CallSound, InSync
  <2>4. \A n, p \in Node : n # i \/ p # j => Keeps(node[n], node'[n], p)
    BY <2>1 DEF Keeps
  <2> QED BY <2>1, <2>3, <2>4, OneWorkerStep
<1> QED
  BY <1>1, <1>2, WorkerCallsSync, CallReachesSync, CallAnsweredSync

\* The workers of a node that stops are gone.
LEMMA StopSync ==
  ASSUME SyncInv, TasksType, NEW i \in Node, Stop(i)
  PROVE  SyncStep
<1>1. /\ UNCHANGED <<node, signal>> /\ running' = [running EXCEPT ![i] = FALSE]
      /\ worker' = [worker EXCEPT ![i] = [p \in Node |-> Idle]]
  BY DEF Stop
<1>2. SignalType'
  BY <1>1 DEF SyncInv, SignalType
<1>3. ASSUME NEW n \in Node, NEW p \in Node PROVE CallSound(n, p)' /\ InSync(n, p)'
  <2>1. CASE n = i
    <3>1. worker'[n][p] = Idle /\ Idle.pc = "idle" /\ ~running'[n]
      BY <1>1, <2>1 DEF TasksType, SyncInv, RunningType, Idle
    <3> QED BY <3>1 DEF CallSound, InSync
  <2>2. CASE n # i
    <3>1. worker'[n] = worker[n] /\ running'[n] = running[n]
      BY <1>1, <2>2 DEF TasksType, SyncInv, RunningType
    <3> QED BY <1>1, <3>1 DEF SyncInv, CallSound, InSync
  <2> QED BY <2>1, <2>2
<1> QED BY <1>2, <1>3 DEF SyncStep

LEMMA LateSync ==
  ASSUME SyncInv, CallsAreSent, TypeInv, NEW l \in late, ExecuteLate(l)
  PROVE  SyncStep
<1>1. l.peer \in Node /\ l.request \in Sent("VoteRequest") \cup Sent("LogRequest")
  BY DEF CallsAreSent, LateType
<1>2. UNCHANGED <<worker, signal, running>>
  BY DEF ExecuteLate
<1>3. ASSUME NEW n \in Node, NEW p \in Node PROVE Keeps(node[n], node'[n], p)
  <2>1. CASE l.request.type = "VoteRequest" /\ ExecuteVoteRequest(l.peer, l.request)
    <3>1. l.request \in VoteRequest
      BY <1>1, <2>1, SentType DEF TypeInv, Sent
    <3> QED BY <1>1, <2>1, <3>1, VoteRequestKeeps DEF ExecuteVoteRequest
  <2>2. CASE l.request.type = "LogRequest" /\ ReceiveLogRequest(l.peer, l.request)
    <3>1. l.request \in LogRequest
      BY <1>1, <2>2, SentType DEF TypeInv, Sent
    <3> QED BY <1>1, <2>2, <3>1, LogRequestKeeps
  <2> QED BY <2>1, <2>2 DEF ExecuteLate
<1> QED BY <1>2, <1>3, SyncQuiet

LEMMA BallotReachesSync ==
  ASSUME SyncInv, CallsAreSent, TypeInv, NEW b \in ballots, BallotReaches(b)
  PROVE  SyncStep
<1>1. b.peer \in Node /\ b.request \in VoteRequest
  BY SentType DEF CallsAreSent, BallotsType, TypeInv
<1>2. UNCHANGED <<worker, signal, running>> /\ ReceiveVoteRequest(b.peer, b.request)
  BY DEF BallotReaches, ExecuteVoteRequest
<1>3. \A n, p \in Node : Keeps(node[n], node'[n], p)
  BY <1>1, <1>2, VoteRequestKeeps
<1> QED BY <1>2, <1>3, SyncQuiet

LEMMA SubmitSync ==
  ASSUME SyncInv, TypeInv, NEW i \in Node, NEW c \in Command, Submit(i, c)
  PROVE  SyncStep
<1>1. UNCHANGED <<worker, running>> /\ signal' = Signalled(i)
  BY DEF Submit
<1>2. \A n \in Node \ {i} : node'[n] = node[n]
  BY DEF Submit, SubmitCommand, TypeInv, TypeOK
<1> QED BY <1>1, <1>2, SignalStep

LEMMA SyncNext ==
  ASSUME SyncInv, CallsAreSent, TypeInv, [RuntimeNext]_allVars
  PROVE  SyncInv'
<1>1. RunningType'
  BY RunningNext DEF SyncInv
<1> SUFFICES SyncStep
  BY <1>1 DEF SyncStep, SyncInv
<1>2. TasksType
  BY DEF CallsAreSent
<1>3. ASSUME UNCHANGED <<node, running, signal, worker>> PROVE SyncStep
  <2>1. \A n, p \in Node : Keeps(node[n], node'[n], p)
    BY <1>3 DEF Keeps
  <2> QED BY <1>3, <2>1, SyncQuiet
<1>4. ASSUME NEW n \in Node, TimerExpires(n) \/ DropRound(n) PROVE SyncStep
  BY <1>3, <1>4 DEF TimerExpires, DropRound
<1>5. ASSUME NEW n \in Node, Heartbeat(n) PROVE SyncStep
  BY <1>5, SignalStep DEF Heartbeat
<1>6. ASSUME NEW b \in ballots, BallotFails(b) PROVE SyncStep
  BY <1>3, <1>6 DEF BallotFails
<1>7. ASSUME NEW c \in Command,
             ClientLooks(c) \/ ClientTimesOut(c) \/ \E n \in Node : SubmitRejected(n, c)
      PROVE  SyncStep
  BY <1>3, <1>7 DEF ClientLooks, ClientTimesOut, SubmitRejected
<1>8. CASE UNCHANGED allVars
  BY <1>3, <1>8 DEF allVars
<1> QED
  BY <1>2, <1>4, <1>5, <1>6, <1>7, <1>8, ElectionRoundSync, BallotReachesSync,
     BallotAnsweredSync, LateSync, WorkerSync, StopSync, SubmitSync DEF RuntimeNext

\* A worker of a leader rests without a signal only behind a failed call, or
\* when its follower has acknowledged the whole log (_replication_worker and
\* the signals of submit_command, of elections and of heartbeats).
THEOREM WorkersRestInSync == RuntimeSpec => []RestsInSync
<1>1. RuntimeInit => SyncInv
  <2> SUFFICES ASSUME RuntimeInit PROVE SyncInv
    OBVIOUS
  <2>1. /\ running = [n \in Node |-> TRUE]
        /\ signal = [n \in Node |-> [p \in Node |-> FALSE]]
        /\ worker = [n \in Node |-> [p \in Node |-> Idle]]
        /\ node = [n \in Node |-> FreshState]
    BY DEF RuntimeInit, Init
  <2>2. SignalType /\ RunningType
    BY <2>1 DEF SignalType, RunningType
  <2>3. ASSUME NEW n \in Node, NEW p \in Node PROVE CallSound(n, p) /\ InSync(n, p)
    <3>1. node[n].role # Leader /\ worker[n][p].pc # "calling"
      BY <2>1, RoleAssumption DEF FreshState, Idle
    <3> QED BY <3>1 DEF CallSound, InSync
  <2> QED BY <2>2, <2>3 DEF SyncInv
<1>2. SyncInv /\ CallsAreSent /\ TypeInv /\ [RuntimeNext]_allVars => SyncInv'
  BY SyncNext
<1>3. SyncInv => RestsInSync
  BY DEF SyncInv, InSync, RestsInSync
<1>4. RuntimeSpec => []CallsAreSent
  BY WakeHolds, PTL
<1>5. Spec => []TypeInv
  BY TypeInvariance
<1> QED
  BY <1>1, <1>2, <1>3, <1>4, <1>5, RuntimeImplementsRaft, PTL DEF RuntimeSpec

-----------------------------------------------------------------------------
(* The HTTP API keeps the promise of MessageList to its clients.           *)
(*                                                                         *)
(* What the safety of Raft leaves open is that a command is in the log     *)
(* once at most: it is appended by one leader, at one index, in one term.  *)
(* The invariant says so of the history of the leaders' logs (module       *)
(* RaftProofs).                                                         *)

\* The steps that append nothing to the log of a leader.
QuietNext == RuntimeNext /\ ~\E n \in Node, c \in Command : Submit(n, c)

LeadersKeepLogs ==
    \A n \in Node : node'[n].role = Leader => node'[n].log = node[n].log

LEMMA ElectionKeepsLogs ==
  ASSUME TypeInv, NEW n \in Node, StartElectionRound(n)
  PROVE  LeadersKeepLogs
<1>1. node' = [node EXCEPT ![n] = StartElection(n, node[n]).state]
  BY DEF StartElectionRound
<1>2. node \in [Node -> RaftState] /\ WellFormed(node[n])
  BY DEF TypeInv, TypeOK
<1>3. StartElection(n, node[n]).state.log = node[n].log
  BY <1>2, StartElectionLog DEF SameLog
<1> QED BY <1>1, <1>2, <1>3 DEF LeadersKeepLogs

LEMMA VoteRequestKeepsLogs ==
  ASSUME TypeInv, NEW n \in Node, NEW m \in VoteRequest, ReceiveVoteRequest(n, m)
  PROVE  LeadersKeepLogs
  BY VoteRequestKeeps DEF Keeps, LeadersKeepLogs

LEMMA VoteResponseKeepsLogs ==
  ASSUME TypeInv, NEW n \in Node, NEW m \in VoteResponse, VoteResponseArrives(n, m)
  PROVE  LeadersKeepLogs
<1>1. node' = [node EXCEPT ![n] = HandleVoteResponse(n, node[n], m)]
  BY DEF VoteResponseArrives
<1>2. node \in [Node -> RaftState] /\ WellFormed(node[n])
  BY DEF TypeInv, TypeOK
<1>3. HandleVoteResponse(n, node[n], m).log = node[n].log
  BY <1>2, HandleVoteResponseLog DEF SameLog
<1> QED BY <1>1, <1>2, <1>3 DEF LeadersKeepLogs

LEMMA LogRequestKeepsLogs ==
  ASSUME TypeInv, NEW n \in Node, NEW m \in LogRequest, ReceiveLogRequest(n, m)
  PROVE  LeadersKeepLogs
  BY LogRequestKeeps DEF Keeps, LeadersKeepLogs

LEMMA LogResponseKeepsLogs ==
  ASSUME TypeInv, NEW n \in Node, NEW m \in LogResponse, LogResponseArrives(n, m)
  PROVE  LeadersKeepLogs
<1> DEFINE h == HandleLogResponse(n, node[n], m)
<1>1. node' = [node EXCEPT ![n] = ApplyCommittedEntries(h)] /\ ~LogResponseRaises(node[n], m)
  BY DEF LogResponseArrives
<1>2. node \in [Node -> RaftState] /\ WellFormed(node[n])
  BY DEF TypeInv, TypeOK
<1>3. h.log = node[n].log
  BY <1>1, <1>2, HandleLogResponseLog
<1>4. WellFormed(h)
  BY <1>1, <1>2, HandleLogResponseWellFormed
<1> HIDE DEF h
<1>5. ApplyCommittedEntries(h).log = h.log
  BY <1>4, ApplyCommittedEntriesLog
<1> QED BY <1>1, <1>2, <1>3, <1>5 DEF LeadersKeepLogs
LEMMA QuietKeepsLogs ==
  ASSUME TypeInv, CallsAreSent, QuietNext
  PROVE  LeadersKeepLogs
<1> USE DEF QuietNext
<1>0. /\ Sent("VoteRequest") \subseteq VoteRequest /\ Sent("VoteResponse") \subseteq VoteResponse
      /\ Sent("LogRequest") \subseteq LogRequest /\ Sent("LogResponse") \subseteq LogResponse
  BY SentType DEF TypeInv
<1>1. CASE UNCHANGED node
  BY <1>1 DEF LeadersKeepLogs
<1>2. CASE \E n \in Node : ElectionRound(n)
  BY <1>2, ElectionKeepsLogs DEF ElectionRound
<1>3. CASE \E b \in ballots : BallotReaches(b) \/ BallotAnswered(b)
  <2>1. PICK b \in ballots : BallotReaches(b) \/ BallotAnswered(b)
    BY <1>3
  <2>2. /\ b.caller \in Node /\ b.peer \in Node /\ b.request \in VoteRequest
        /\ b.response \in VoteResponse \cup {None}
    BY <1>0, <2>1 DEF CallsAreSent, BallotsType
  <2>3. CASE BallotReaches(b)
    BY <2>2, <2>3, VoteRequestKeepsLogs DEF BallotReaches, ExecuteVoteRequest
  <2>4. CASE BallotAnswered(b)
    BY <2>2, <2>4, VoteResponseKeepsLogs DEF BallotAnswered
  <2> QED BY <2>1, <2>3, <2>4
<1>4. CASE \E l \in late : ExecuteLate(l)
  <2>1. PICK l \in late : ExecuteLate(l)
    BY <1>4
  <2>2. l.peer \in Node /\ l.request \in Sent("VoteRequest") \cup Sent("LogRequest")
    BY <2>1 DEF CallsAreSent, LateType
  <2>3. CASE l.request.type = "VoteRequest" /\ ExecuteVoteRequest(l.peer, l.request)
    <3>1. l.request \in VoteRequest
      BY <1>0, <2>2, <2>3 DEF Sent
    <3> QED BY <2>2, <2>3, <3>1, VoteRequestKeepsLogs DEF ExecuteVoteRequest
  <2>4. CASE l.request.type = "LogRequest" /\ ReceiveLogRequest(l.peer, l.request)
    <3>1. l.request \in LogRequest
      BY <1>0, <2>2, <2>4 DEF Sent
    <3> QED BY <2>2, <2>4, <3>1, LogRequestKeepsLogs
  <2> QED BY <2>1, <2>3, <2>4 DEF ExecuteLate
<1>5. CASE \E n, p \in Node : CallReaches(n, p) \/ CallAnswered(n, p)
  <2>1. PICK n, p \in Node : CallReaches(n, p) \/ CallAnswered(n, p)
    BY <1>5
  <2>2. worker[n][p].pc = "calling" =>
            worker[n][p].request \in LogRequest /\ worker[n][p].response \in LogResponse \cup {None}
    BY <1>0 DEF CallsAreSent, TasksType
  <2>3. CASE CallReaches(n, p)
    BY <2>2, <2>3, LogRequestKeepsLogs DEF CallReaches
  <2>4. CASE CallAnswered(n, p)
    BY <2>2, <2>4, LogResponseKeepsLogs DEF CallAnswered
  <2> QED BY <2>1, <2>3, <2>4
<1> QED
  BY <1>1, <1>2, <1>3, <1>4, <1>5
  DEF RuntimeNext, TimerExpires, DropRound, BallotFails, Heartbeat, Stop, WorkerWakes,
      WorkerCalls, SendLogRequest, WorkerRests, CallFails, SubmitRejected, ClientLooks, ClientTimesOut

-----------------------------------------------------------------------------
(* A command is in the log once at most.                                   *)

\* A POST that was made stays made.
LEMMA StaysPosted ==
  ASSUME ClientsType, [RuntimeNext]_allVars, NEW c \in Command, client[c] # NoCall
  PROVE  client'[c] # NoCall
<1>1. \/ UNCHANGED client
      \/ \E n : client' = Notified(n)
      \/ \E n \in Node, d \in Command : Submit(n, d)
      \/ \E d \in Command : \/ ClientLooks(d) \/ ClientTimesOut(d)
                            \/ \E n \in Node : SubmitRejected(n, d)
  BY DEF RuntimeNext, allVars, TimerExpires, ElectionRound, DropRound, BallotReaches,
         BallotAnswered, BallotFails, ExecuteVoteRequest, ExecuteLate, Heartbeat, Stop,
         WorkerWakes, WorkerCalls, WorkerRests, CallReaches, CallAnswered, CallFails
<1>2. client[c].pc # "none" /\ (client[c].pc = "waiting" => client[c] \in Submitted)
  BY DEF ClientsType, NotSubmitted, Submitted, NoCall
<1>3. CASE \E n : client' = Notified(n)
  <2>1. client'[c] = client[c] \/ (client[c].pc = "waiting" /\ client'[c] = [client[c] EXCEPT !.woken = TRUE])
    BY <1>3 DEF Notified
  <2>2. client'[c].pc = client[c].pc
    BY <1>2, <2>1 DEF Submitted
  <2> QED BY <1>2, <2>2 DEF NoCall
<1>4. CASE \E n \in Node, d \in Command : Submit(n, d)
  <2>1. PICK n \in Node, d \in Command : Submit(n, d)
    BY <1>4
  <2>2. c # d
    BY <2>1 DEF Submit
  <2>3. client'[c] = Notified(n)[c]
    BY <2>1, <2>2 DEF Submit, Notified
  <2>4. client'[c] = client[c] \/ (client[c].pc = "waiting" /\ client'[c] = [client[c] EXCEPT !.woken = TRUE])
    BY <2>3 DEF Notified
  <2>5. client'[c].pc = client[c].pc
    BY <1>2, <2>4 DEF Submitted
  <2> QED BY <1>2, <2>5 DEF NoCall
<1>5. CASE \E d \in Command, n \in Node : SubmitRejected(n, d)
  BY <1>5 DEF SubmitRejected, ClientsType
<1>6. CASE \E d \in Command : ClientLooks(d) \/ ClientTimesOut(d)
  <2>1. PICK d \in Command : ClientLooks(d) \/ ClientTimesOut(d)
    BY <1>6
  <2>2. PICK pc \in {"waiting", "applied", "notLeader", "stopped", "timeout"} :
            client' = [client EXCEPT ![d].pc = pc, ![d].woken = FALSE]
    BY <2>1 DEF ClientLooks, ClientTimesOut, Outcome
  <2>3. CASE c = d
    <3>1. client[c].pc = "waiting"
      BY <2>1, <2>3 DEF ClientLooks, ClientTimesOut
    <3>2. client'[c].pc = pc
      BY <1>2, <2>2, <2>3, <3>1 DEF ClientsType, Submitted
    <3> QED BY <3>2 DEF NoCall
  <2>4. CASE c # d
    BY <2>2, <2>4 DEF ClientsType
  <2> QED BY <2>3, <2>4
<1> QED BY <1>1, <1>3, <1>4, <1>5, <1>6

\* The leaders appended only commands that were posted, and each of them once.
OnceIn(L) ==
    /\ \A t \in DOMAIN L : \A k \in 1 .. Len(L[t]) : client[L[t][k].command] # NoCall
    /\ \A t, x \in DOMAIN L : \A k \in 1 .. Len(L[t]), j \in 1 .. Len(L[x]) :
          L[t][k].term = t /\ L[x][j].term = x /\ L[t][k].command = L[x][j].command
              => t = x /\ k = j

OnceInv == \E L : History(L) /\ OnceIn(L)

\* If the leader appends nothing, every entry was recorded before, those of
\* the leaders' own terms in the same place.
LEMMA NoNewEntries ==
  ASSUME NEW n \in Node, NEW u, NEW L, NEW M, HistoryStep(n, u, L, M),
         u.role = Leader => u.log = node[n].log,
         NEW x \in DOMAIN M, NEW k \in 1 .. Len(M[x])
  PROVE  /\ \E y \in DOMAIN L : k \in 1 .. Len(L[y]) /\ M[x][k] = L[y][k]
         /\ M[x][k].term = x => x \in DOMAIN L /\ k \in 1 .. Len(L[x]) /\ L[x][k] = M[x][k]
<1>1. CASE x \in DOMAIN L /\ M[x] = L[x]
  BY <1>1
<1>2. CASE ~(x \in DOMAIN L /\ M[x] = L[x])
  <2>1. M[x] = node[n].log
    BY <1>2 DEF HistoryStep, NextHistory
  <2>2. Follows(node[n].log, L) /\ LogsOf(L)
    BY DEF HistoryStep, History, NodeLogs
  <2> DEFINE y == M[x][k].term
  <2>3. y \in DOMAIN L /\ Agree(M[x], L[y], k)
    BY <2>1, <2>2 DEF Follows
  <2>4. k \in Nat /\ k # 0 /\ Len(L[y]) \in Nat
    BY <2>2, <2>3, LenProperties DEF LogsOf
  <2>5. k \in 1 .. Len(L[y]) /\ M[x][k] = L[y][k]
    BY <2>3, <2>4 DEF Agree
  <2> QED BY <2>3, <2>5
<1> QED BY <1>1, <1>2

\* If it appends a command, that is the only new entry.
LEMMA OneNewEntry ==
  ASSUME NEW n \in Node, NEW u, NEW L, NEW M, HistoryStep(n, u, L, M),
         NEW e \in LogEntry, u.log = Append(node[n].log, e),
         node[n].role = Leader, u.role = Leader, u.currentTerm = node[n].currentTerm,
         NEW x \in DOMAIN M, NEW k \in 1 .. Len(M[x])
  PROVE  /\ x \in DOMAIN L
         /\ \/ k \in 1 .. Len(L[x]) /\ M[x][k] = L[x][k]
            \/ x = u.currentTerm /\ k = Len(L[x]) + 1 /\ M[x][k] = e
<1> DEFINE t == u.currentTerm
<1>1. t \in DOMAIN L /\ node[n].log = L[t] /\ L[t] \in Seq(LogEntry)
  BY DEF HistoryStep, History, NodeLogs, LogsOf
<1>2. x \in DOMAIN L /\ M[x] = IF x = t THEN Append(L[t], e) ELSE L[x]
  BY <1>1 DEF HistoryStep, NextHistory
<1>3. CASE x # t
  BY <1>2, <1>3
<1>4. CASE x = t
  <2>1. /\ Len(Append(L[t], e)) = Len(L[t]) + 1 /\ Len(L[t]) \in Nat
        /\ Append(L[t], e)[Len(L[t]) + 1] = e
        /\ \A i \in 1 .. Len(L[t]) : Append(L[t], e)[i] = L[t][i]
    BY <1>1, AppendProperties, LenProperties
  <2>2. k \in 1 .. Len(L[t]) \/ k = Len(L[t]) + 1
    BY <1>2, <1>4, <2>1
  <2> QED BY <1>2, <1>4, <2>1, <2>2
<1> QED BY <1>3, <1>4

LEMMA RecordedCommand ==
  ASSUME NEW L, LogsOf(L), NEW t \in DOMAIN L, NEW k \in 1 .. Len(L[t])
  PROVE  L[t][k].command \in Command
<1>1. L[t] \in Seq(LogEntry)
  BY DEF LogsOf
<1>2. L[t][k] \in LogEntry
  BY <1>1, ElementOfSeq
<1> QED BY <1>2 DEF LogEntry

LEMMA OnceStep ==
  ASSUME ClientsType, CallsAreSent, [RuntimeNext]_allVars,
         NEW n \in Node, NEW u, NEW L, NEW M, HistoryStep(n, u, L, M), OnceIn(L)
  PROVE  OnceIn(M)'
<1>0. /\ \A p \in Node : node'[p] = IF p = n THEN u ELSE node[p]
      /\ LogsOf(L)
  BY StepFacts
<1>1. \A t \in DOMAIN L : \A k \in 1 .. Len(L[t]) :
          L[t][k].command \in Command /\ client'[L[t][k].command] # NoCall
  <2>1. \A t \in DOMAIN L : \A k \in 1 .. Len(L[t]) : L[t][k].command \in Command
    BY <1>0, RecordedCommand
  <2> QED BY <2>1, StaysPosted DEF OnceIn
<1>2. CASE u.role = Leader => u.log = node[n].log
  <2>1. ASSUME NEW x \in DOMAIN M, NEW k \in 1 .. Len(M[x])
        PROVE  client'[M[x][k].command] # NoCall
    <3>1. PICK y \in DOMAIN L : k \in 1 .. Len(L[y]) /\ M[x][k] = L[y][k]
      BY <1>2, NoNewEntries
    <3> QED BY <1>1, <3>1
  <2>2. ASSUME NEW x \in DOMAIN M, NEW k \in 1 .. Len(M[x]), M[x][k].term = x
        PROVE  x \in DOMAIN L /\ k \in 1 .. Len(L[x]) /\ L[x][k] = M[x][k]
    BY <1>2, <2>2, NoNewEntries
  <2>3. ASSUME NEW t \in DOMAIN M, NEW x \in DOMAIN M,
               NEW k \in 1 .. Len(M[t]), NEW j \in 1 .. Len(M[x]),
               M[t][k].term = t, M[x][j].term = x, M[t][k].command = M[x][j].command
        PROVE  t = x /\ k = j
    <3>1. t \in DOMAIN L /\ k \in 1 .. Len(L[t]) /\ L[t][k] = M[t][k]
      BY <2>2, <2>3
    <3>2. x \in DOMAIN L /\ j \in 1 .. Len(L[x]) /\ L[x][j] = M[x][j]
      BY <2>2, <2>3
    <3> QED BY <2>3, <3>1, <3>2 DEF OnceIn
  <2> QED BY <2>1, <2>3 DEF OnceIn
<1>3. CASE u.role = Leader /\ u.log # node[n].log
  <2>1. ~UNCHANGED node
    BY <1>0, <1>3
  <2>2. \E i \in Node, c \in Command : Submit(i, c)
    <3>1. SUFFICES ASSUME QuietNext PROVE FALSE
      BY <2>1 DEF QuietNext, allVars
    <3>2. LeadersKeepLogs
      BY <3>1, QuietKeepsLogs DEF HistoryStep
    <3> QED BY <1>0, <1>3, <3>2 DEF LeadersKeepLogs
  <2>3. PICK i \in Node, c \in Command : Submit(i, c)
    BY <2>2
  <2> DEFINE e == [command |-> c, term |-> node[n].currentTerm]
  <2>4. /\ i = n /\ node[n].role = Leader /\ u.log = Append(node[n].log, e)
        /\ e \in LogEntry
    <3>1. /\ node[i].role = Leader /\ node[i].currentTerm \in Nat
          /\ node'[i].log = Append(node[i].log, [command |-> c, term |-> node[i].currentTerm])
          /\ \A m \in Node \ {i} : node'[m] = node[m]
      BY <2>3, SubmitAppends DEF HistoryStep, Submit
    <3>2. i = n
      BY <1>0, <1>3, <3>1
    <3> QED BY <1>0, <3>1, <3>2 DEF LogEntry
  <2>5. u.currentTerm = node[n].currentTerm
    <3>1. node[n].role = Leader /\ RoleMoves(n, node[n], u) /\ LogMoves(node[n], u)
      BY <2>4 DEF HistoryStep, NodeStep
    <3> QED BY <1>3, <3>1, RoleAssumption DEF LogMoves, SameElection, Reconciles
  <2>6. client[c] = NoCall /\ client'[c] # NoCall
    <3>1. client[c] = NoCall /\ client'[c].pc \in {"waiting", "applied"}
      BY <2>3 DEF Submit, Notified
    <3> QED BY <3>1 DEF NoCall
  <2> HIDE DEF e
  <2>7. ASSUME NEW x \in DOMAIN M, NEW k \in 1 .. Len(M[x])
        PROVE  /\ x \in DOMAIN L
               /\ \/ k \in 1 .. Len(L[x]) /\ M[x][k] = L[x][k]
                  \/ x = u.currentTerm /\ k = Len(L[x]) + 1 /\ M[x][k] = e
    BY <1>3, <2>4, <2>5, OneNewEntry
  <2>8. e.command = c
    BY DEF e
  <2>9. ASSUME NEW x \in DOMAIN L, NEW k \in 1 .. Len(L[x]) PROVE L[x][k].command # c
    BY <2>6 DEF OnceIn
  <2>10. ASSUME NEW x \in DOMAIN M, NEW k \in 1 .. Len(M[x])
         PROVE  client'[M[x][k].command] # NoCall
    <3>1. CASE k \in 1 .. Len(L[x]) /\ M[x][k] = L[x][k] /\ x \in DOMAIN L
      BY <1>1, <3>1
    <3>2. CASE M[x][k] = e
      BY <2>6, <2>8, <3>2
    <3> QED BY <2>7, <3>1, <3>2
  <2>11. ASSUME NEW t \in DOMAIN M, NEW x \in DOMAIN M,
                NEW k \in 1 .. Len(M[t]), NEW j \in 1 .. Len(M[x]),
                M[t][k].term = t, M[x][j].term = x, M[t][k].command = M[x][j].command
         PROVE  t = x /\ k = j
    <3>1. /\ t \in DOMAIN L
          /\ \/ k \in 1 .. Len(L[t]) /\ M[t][k] = L[t][k]
             \/ t = u.currentTerm /\ k = Len(L[t]) + 1 /\ M[t][k] = e
      BY <2>7
    <3>2. /\ x \in DOMAIN L
          /\ \/ j \in 1 .. Len(L[x]) /\ M[x][j] = L[x][j]
             \/ x = u.currentTerm /\ j = Len(L[x]) + 1 /\ M[x][j] = e
      BY <2>7
    <3>3. CASE k \in 1 .. Len(L[t]) /\ M[t][k] = L[t][k] /\ j \in 1 .. Len(L[x]) /\ M[x][j] = L[x][j]
      BY <2>11, <3>1, <3>2, <3>3 DEF OnceIn
    <3>4. CASE M[t][k] = e /\ M[x][j] = e
      BY <2>9, <2>8, <3>1, <3>2, <3>4
    <3>5. CASE M[t][k] = e /\ j \in 1 .. Len(L[x]) /\ M[x][j] = L[x][j]
      BY <2>8, <2>9, <2>11, <3>2, <3>5
    <3>6. CASE M[x][j] = e /\ k \in 1 .. Len(L[t]) /\ M[t][k] = L[t][k]
      BY <2>8, <2>9, <2>11, <3>1, <3>6
    <3> QED BY <3>1, <3>2, <3>3, <3>4, <3>5, <3>6
  <2> QED BY <2>10, <2>11 DEF OnceIn
<1> QED BY <1>2, <1>3

LEMMA OnceNext ==
  ASSUME TypeInv, TypeInv', ElectionInv, ElectionInv', UniqueWinner', ClientsType, CallsAreSent,
         OnceInv, [Next]_vars, [RuntimeNext]_allVars
  PROVE  OnceInv'
<1>1. PICK L : History(L) /\ OnceIn(L)
  BY DEF OnceInv
<1>2. CASE UNCHANGED vars
  <2>1. \A t \in DOMAIN L : \A k \in 1 .. Len(L[t]) : L[t][k].command \in Command
    BY <1>1, RecordedCommand DEF History
  <2>2. OnceIn(L)'
    BY <1>1, <2>1, StaysPosted DEF OnceIn
  <2>3. History(L)'
    BY <1>1, <1>2, HistoryStutters
  <2> QED BY <2>2, <2>3 DEF OnceInv
<1>3. CASE ~UNCHANGED vars
  <2>1. PICK n \in Node : \E u : NodeStep(n, u)
    BY <1>3, StepIsNodeStep
  <2>2. PICK u : NodeStep(n, u)
    BY <2>1
  <2> DEFINE M == NextHistory(L, u)
  <2>3. HistoryStep(n, u, L, M)
    BY <1>1, <2>2 DEF HistoryStep
  <2> HIDE DEF M
  <2>4. History(M)'
    BY <2>3, HistoryExtends, LeaderLogsStep, NodeLogsStep, RequestLogsStep, ResponseLogsStep,
       CandidateLogsStep DEF History
  <2>5. OnceIn(M)'
    BY <1>1, <2>3, OnceStep
  <2> QED BY <2>4, <2>5 DEF OnceInv
<1> QED BY <1>2, <1>3

LEMMA OnceHolds == RuntimeSpec => []OnceInv
<1>1. RuntimeInit => OnceInv
  <2>1. OnceIn(<<>>)
    BY DEF OnceIn
  <2> QED BY <2>1, EmptyHistory DEF RuntimeInit, OnceInv
<1>2. TypeInv /\ TypeInv' /\ ElectionInv /\ ElectionInv' /\ UniqueWinner' /\ ClientsType
          /\ CallsAreSent /\ OnceInv /\ [Next]_vars /\ [RuntimeNext]_allVars => OnceInv'
  BY OnceNext
<1>3. RuntimeSpec => []ClientsType /\ []CallsAreSent
  BY WakeHolds, PTL DEF WakeInv
<1>4. Spec => []TypeInv /\ []ElectionInv /\ []UniqueWinner /\ [][Next]_vars
  BY TypeInvariance, ElectionInvariance, WinnersAreUnique, PTL DEF Spec
<1> QED
  BY <1>1, <1>2, <1>3, <1>4, RuntimeImplementsRaft, PTL DEF RuntimeSpec

-----------------------------------------------------------------------------
(* The list that clients see.                                              *)

\* A finite set of numbers has a largest one.
LEMMA FiniteSetHasMax ==
  ASSUME NEW S \in SUBSET Nat, IsFiniteSet(S), S # {}
  PROVE  \E m \in S : \A k \in S : k <= m
<1> DEFINE HasMax(T) == \E m \in T : \A k \in T : k <= m
           Bad == {n \in Nat : \E T \in SUBSET Nat :
                      IsFiniteSet(T) /\ T # {} /\ Cardinality(T) = n /\ ~HasMax(T)}
<1>1. SUFFICES ASSUME Bad # {} PROVE FALSE
  <2>1. Cardinality(S) \in Nat
    BY FS_CardinalityType
  <2> QED BY <1>1, <2>1
<1>2. PICK n \in Bad : \A j \in Bad : n <= j
  <2>1. Bad \in SUBSET Nat
    OBVIOUS
  <2> HIDE DEF Bad
  <2> QED BY <1>1, <2>1, NatSetHasMin
<1>3. PICK T \in SUBSET Nat : IsFiniteSet(T) /\ T # {} /\ Cardinality(T) = n /\ ~HasMax(T)
  BY <1>2
<1>4. PICK x \in T : TRUE
  BY <1>3
<1> DEFINE R == T \ {x}
<1>5. IsFiniteSet(R) /\ Cardinality(R) = n - 1 /\ R \in SUBSET Nat /\ n \in Nat
  BY <1>3, <1>4, FS_RemoveElement, FS_CardinalityType
<1>6. CASE R = {}
  <2>1. \A k \in T : k <= x
    BY <1>4, <1>6
  <2> QED BY <1>3, <1>4, <2>1
<1>7. CASE R # {}
  <2>1. HasMax(R)
    <3>1. n - 1 \in Nat
      BY <1>5, FS_CardinalityType
    <3>2. n - 1 \notin Bad
      <4> HIDE DEF Bad
      <4> QED BY <1>2, <1>5, <3>1
    <3> HIDE DEF HasMax, R
    <3> QED BY <1>5, <1>7, <3>1, <3>2
  <2>2. PICK m \in R : \A k \in R : k <= m
    BY <2>1
  <2>3. CASE x <= m
    <3>1. m \in T /\ \A k \in T : k <= m
      BY <2>2, <2>3
    <3> QED BY <1>3, <3>1
  <2>4. CASE m <= x
    <3>1. \A k \in T : k <= x
      <4>1. ASSUME NEW k \in T PROVE k <= x
        <5>1. k \in Nat /\ m \in Nat /\ x \in Nat
          BY <1>4, <2>2
        <5>2. k = x \/ k <= m
          BY <2>2
        <5> QED BY <2>4, <5>1, <5>2
      <4> QED BY <4>1
    <3> QED BY <1>3, <1>4, <3>1
  <2> QED BY <1>4, <2>2, <2>3, <2>4
<1> QED BY <1>6, <1>7

LEMMA LongestIsLongest ==
  ASSUME TypeInv
  PROVE  /\ \E n \in Node : LongestList = node[n].applied
         /\ \A n \in Node : Len(node[n].applied) <= Len(LongestList)
<1> DEFINE Lengths == {Len(node[n].applied) : n \in Node}
<1>1. Messages = {node[n].applied : n \in Node}
  BY DEF Messages, NodeStatusBody
<1>2. \A n \in Node : Len(node[n].applied) \in Nat
  BY LenProperties DEF TypeInv, WellFormed, RaftState
<1>3. IsFiniteSet(Lengths) /\ Lengths \in SUBSET Nat /\ Lengths # {}
  <2>1. [n \in Node |-> Len(node[n].applied)] \in Surjection(Node, Lengths)
    BY DEF Surjection
  <2>2. IsFiniteSet(Lengths)
    <3> HIDE DEF Lengths
    <3> QED BY <2>1, NodeAssumption, FS_Surjection
  <2> QED BY <1>2, <2>2, NodeAssumption
<1>4. PICK m \in Lengths : \A k \in Lengths : k <= m
  <2> HIDE DEF Lengths
  <2> QED BY <1>3, FiniteSetHasMax
<1>5. \E p \in Messages : \A q \in Messages : Len(q) <= Len(p)
  BY <1>1, <1>4
<1>6. LongestList \in Messages /\ \A q \in Messages : Len(q) <= Len(LongestList)
  BY <1>5 DEF LongestList
<1> QED BY <1>1, <1>6

\* The commands of a log were posted, and each is there once.
LEMMA LogOnce ==
  ASSUME TypeInv, OnceInv, NEW n \in Node
  PROVE  /\ \A k \in 1 .. Len(node[n].log) : client[node[n].log[k].command] # NoCall
         /\ \A k, j \in 1 .. Len(node[n].log) :
               node[n].log[k].command = node[n].log[j].command => k = j
<1> DEFINE log == node[n].log
<1>1. PICK L : History(L) /\ OnceIn(L)
  BY DEF OnceInv
<1>2. LogsOf(L) /\ Follows(log, L)
  BY <1>1 DEF History, NodeLogs
<1>3. ASSUME NEW k \in 1 .. Len(log)
      PROVE  /\ log[k].term \in DOMAIN L /\ k \in 1 .. Len(L[log[k].term])
             /\ log[k] = L[log[k].term][k]
  <2>1. log[k].term \in DOMAIN L /\ Agree(log, L[log[k].term], k) /\ k \in Nat /\ k # 0
    BY <1>2 DEF Follows
  <2>2. Len(L[log[k].term]) \in Nat
    BY <1>2, <2>1, LenProperties DEF LogsOf
  <2> QED BY <2>1, <2>2 DEF Agree
<1> HIDE DEF log
<1>4. \A k \in 1 .. Len(log) : client[log[k].command] # NoCall
  BY <1>1, <1>3 DEF OnceIn
<1>5. ASSUME NEW k \in 1 .. Len(log), NEW j \in 1 .. Len(log), log[k].command = log[j].command
      PROVE  k = j
  <2>1. /\ log[k].term \in DOMAIN L /\ k \in 1 .. Len(L[log[k].term])
        /\ log[k] = L[log[k].term][k]
    BY <1>3
  <2>2. /\ log[j].term \in DOMAIN L /\ j \in 1 .. Len(L[log[j].term])
        /\ log[j] = L[log[j].term][j]
    BY <1>3
  <2> QED BY <1>1, <1>5, <2>1, <2>2 DEF OnceIn
<1> QED BY <1>4, <1>5 DEF log

\* What GET / flags as committed is what the node has applied.
LEMMA RowsAreApplied ==
  ASSUME TypeInv, AppliedIsCommitted, NEW n \in Node
  PROVE  CommittedRows(n) = node[n].applied
<1> DEFINE s == node[n]
           log == NodeStatusBody(n).log
<1>1. /\ s.log \in Seq(LogEntry) /\ Len(s.log) \in Nat /\ s.commitLength \in Nat
      /\ s.commitLength <= Len(s.log) /\ s.applied \in Seq(Command)
  BY NodeTypes
<1>2. /\ Len(s.applied) = s.commitLength
      /\ \A k \in 1 .. s.commitLength : s.applied[k] = s.log[k].command
  BY DEF AppliedIsCommitted
<1>3. /\ DOMAIN log = 1 .. Len(s.log)
      /\ \A i \in 1 .. Len(s.log) :
            log[i].command = s.log[i].command /\ (log[i].committed <=> i - 1 < s.commitLength)
  <2>1. DOMAIN s.log = 1 .. Len(s.log)
    BY <1>1, LenProperties
  <2> QED BY <2>1 DEF NodeStatusBody
<1>4. {j \in DOMAIN log : log[j].committed} = 1 .. s.commitLength
  <2> HIDE DEF log, s
  <2> QED BY <1>1, <1>3
<1>5. CommittedRows(n) = [i \in 1 .. s.commitLength |-> log[i].command]
  <2>1. CommittedRows(n) = [i \in {j \in DOMAIN log : log[j].committed} |-> log[i].command]
    BY DEF CommittedRows
  <2> HIDE DEF log, s
  <2> QED BY <1>4, <2>1
<1>6. /\ DOMAIN s.applied = 1 .. s.commitLength
      /\ s.applied = [i \in DOMAIN s.applied |-> s.applied[i]]
  BY <1>1, <1>2, LenProperties
<1>7. \A i \in 1 .. s.commitLength : log[i].command = s.applied[i]
  <2> HIDE DEF log, s
  <2> QED BY <1>1, <1>2, <1>3
<1> HIDE DEF log, s
<1>8. CommittedRows(n) = s.applied
  BY <1>5, <1>6, <1>7
<1> QED BY <1>8 DEF s

\* The list is what some node has applied: posted messages, each once.  Every
\* view is a beginning of it, and the message of a success is at its index.
ListSound ==
    /\ LongestList \in Seq({c \in Command : client[c] # NoCall})
    /\ \A i, j \in DOMAIN LongestList : LongestList[i] = LongestList[j] => i = j
    /\ \E n \in Node : LongestList = node[n].applied
    /\ \A n \in Node : /\ CommittedRows(n) = node[n].applied
                       /\ List!Begins(node[n].applied, LongestList)
    /\ \A c \in Command : client[c].pc = "applied" =>
          client[c].index \in DOMAIN LongestList /\ LongestList[client[c].index] = c

LEMMA ListIsSound ==
  ASSUME TypeInv, AppliedIsCommitted, StateMachineSafety, OnceInv, FinalInv, ClientsType
  PROVE  ListSound
<1> DEFINE l == LongestList
<1>1. PICK n \in Node : l = node[n].applied
  BY LongestIsLongest
<1>2. /\ l \in Seq(Command) /\ Len(l) \in Nat /\ DOMAIN l = 1 .. Len(l)
      /\ Len(l) <= Len(node[n].log) /\ Len(node[n].log) \in Nat
      /\ \A k \in 1 .. Len(l) : l[k] = node[n].log[k].command
  BY <1>1, NodeTypes, LenProperties DEF AppliedIsCommitted
<1> HIDE DEF l
<1>3. \A k \in 1 .. Len(l) : client[l[k]] # NoCall /\ l[k] \in Command
  <2>1. \A k \in 1 .. Len(l) : k \in 1 .. Len(node[n].log)
    BY <1>2
  <2>2. \A k \in 1 .. Len(l) : l[k] \in Command
    BY <1>2, ElementOfSeq
  <2> QED BY <1>2, <2>1, <2>2, LogOnce
<1>4. \A i, j \in DOMAIN l : l[i] = l[j] => i = j
  <2>1. \A k \in 1 .. Len(l) : k \in 1 .. Len(node[n].log)
    BY <1>2
  <2> QED BY <1>2, <2>1, LogOnce
<1>5. l \in Seq({c \in Command : client[c] # NoCall})
  <2> DEFINE C == {c \in Command : client[c] # NoCall}
  <2>1. \A k \in 1 .. Len(l) : l[k] \in C
    BY <1>3
  <2>2. l = [k \in 1 .. Len(l) |-> l[k]]
    BY <1>2
  <2> HIDE DEF C
  <2>3. l \in Seq(C)
    BY <1>2, <2>1, <2>2, SeqDef
  <2> QED BY <2>3 DEF C
<1>6. ASSUME NEW p \in Node PROVE List!Begins(node[p].applied, l)
  <2>1. Len(node[p].applied) <= Len(l)
    BY LongestIsLongest DEF l
  <2>2. node[p].applied = SubSeq(l, 1, Len(node[p].applied))
    BY <1>1, <2>1 DEF StateMachineSafety, Prefix
  <2> QED BY <2>1, <2>2 DEF List!Begins
<1>7. ASSUME NEW c \in Command, client[c].pc = "applied"
      PROVE  client[c].index \in DOMAIN l /\ l[client[c].index] = c
  <2> DEFINE w == client[c]
             a == node[w.at].applied
  <2>1. /\ w.at \in Node /\ w.index \in Nat /\ w.index # 0 /\ w.entry.command = c
        /\ w.index <= node[w.at].commitLength /\ node[w.at].log[w.index] = w.entry
    BY <1>7 DEF FinalInv, ClientsType, Submitted, NotSubmitted
  <2>2. /\ Len(a) = node[w.at].commitLength /\ Len(a) \in Nat
        /\ \A k \in 1 .. Len(a) : a[k] = node[w.at].log[k].command
    BY <2>1, NodeTypes DEF AppliedIsCommitted
  <2>3. w.index \in 1 .. Len(a) /\ a[w.index] = c
    BY <2>1, <2>2
  <2>4. Len(a) <= Len(l) /\ a = SubSeq(l, 1, Len(a))
    BY <1>6, <2>1 DEF List!Begins
  <2> HIDE DEF a, w
  <2>5. l[w.index] = a[w.index]
    BY <1>2, <2>2, <2>3, <2>4, SubSeqProperties
  <2>6. w.index \in 1 .. Len(l)
    BY <1>2, <2>2, <2>3, <2>4
  <2> QED BY <1>2, <2>3, <2>5, <2>6 DEF w
<1> QED BY <1>1, <1>4, <1>5, <1>6, <1>7, RowsAreApplied DEF ListSound, l

LEMMA BeginsThrough ==
  ASSUME NEW a \in Seq(Command), NEW b \in Seq(Command), NEW d \in Seq(Command),
         List!Begins(a, b), List!Begins(b, d)
  PROVE  List!Begins(a, d)
<1>1. Len(a) \in Nat /\ Len(b) \in Nat /\ Len(d) \in Nat
      /\ Len(a) <= Len(b) /\ Len(b) <= Len(d)
  BY LenProperties DEF List!Begins
<1>2. \A k \in 1 .. Len(a) : a[k] = b[k]
  BY <1>1, SubSeqProperties DEF List!Begins
<1>3. \A k \in 1 .. Len(b) : b[k] = d[k]
  BY <1>1, SubSeqProperties DEF List!Begins
<1>4. /\ SubSeq(d, 1, Len(a)) \in Seq(Command) /\ Len(SubSeq(d, 1, Len(a))) = Len(a)
      /\ \A k \in 1 .. Len(a) : SubSeq(d, 1, Len(a))[k] = d[k]
  BY <1>1, SubSeqProperties
<1>5. a = SubSeq(d, 1, Len(a))
  BY <1>1, <1>2, <1>3, <1>4, SeqEqual
<1> QED BY <1>1, <1>5 DEF List!Begins

\* What a node has applied only grows.
LEMMA AppliedGrows ==
  ASSUME TypeInv, TypeInv', AppliedIsCommitted, AppliedIsCommitted', [Next]_vars, NEW n \in Node
  PROVE  List!Begins(node[n].applied, node'[n].applied)
<1> DEFINE a == node[n].applied
           b == node'[n].applied
<1>1. /\ a \in Seq(Command) /\ b \in Seq(Command) /\ Len(a) \in Nat /\ Len(b) \in Nat
  BY LenProperties DEF TypeInv, WellFormed, RaftState
<1>2. /\ Len(a) = node[n].commitLength /\ Len(b) = node'[n].commitLength
      /\ \A k \in 1 .. Len(a) : a[k] = node[n].log[k].command
      /\ \A k \in 1 .. Len(b) : b[k] = node'[n].log[k].command
  BY DEF AppliedIsCommitted
<1>3. /\ Len(a) <= Len(b)
      /\ \A k \in 1 .. Len(a) : node'[n].log[k] = node[n].log[k]
  BY <1>2, CommittedKept
<1> HIDE DEF a, b
<1>4. \A k \in 1 .. Len(a) : a[k] = b[k]
  BY <1>1, <1>2, <1>3
<1>5. /\ SubSeq(b, 1, Len(a)) \in Seq(Command) /\ Len(SubSeq(b, 1, Len(a))) = Len(a)
      /\ \A k \in 1 .. Len(a) : SubSeq(b, 1, Len(a))[k] = b[k]
  BY <1>1, <1>3, SubSeqProperties
<1>6. a = SubSeq(b, 1, Len(a))
  BY <1>1, <1>4, <1>5, SeqEqual
<1>7. List!Begins(a, b)
  BY <1>3, <1>6 DEF List!Begins
<1> QED BY <1>7 DEF a, b

\* What a client may conclude from the state of its call.
LEMMA PromisedIs ==
  ASSUME NEW w \in NotSubmitted \cup Submitted
  PROVE  /\ w.pc \in {"none", "waiting", "applied", "notLeader", "stopped", "timeout"}
         /\ w.pc = "none" => w = NoCall /\ Promised(w) = List!NotPosted
         /\ w.pc = "waiting" => w # NoCall /\ Promised(w) = List!Pending
         /\ w.pc = "applied" => w # NoCall /\ Promised(w) = List!Created(w.index)
         /\ w.pc \in {"notLeader", "stopped", "timeout"} =>
               w # NoCall /\ Promised(w) = List!Uncertain
         /\ w # NoCall <=> Promised(w) # List!NotPosted
<1> USE DEF List!NotPosted, List!Pending, List!Created, List!Uncertain
<1>1. w.pc \in {"none", "waiting", "applied", "notLeader", "stopped", "timeout"}
  BY DEF NotSubmitted, Submitted
<1>2. CASE w.pc = "none"
  <2>1. w = NoCall
    BY <1>2 DEF NotSubmitted, Submitted, NoCall
  <2>2. PostResponse(w).status = 0
    BY <1>2 DEF PostResponse
  <2> QED BY <1>2, <2>1, <2>2 DEF Promised
<1>3. CASE w.pc = "waiting"
  <2>1. PostResponse(w).status = 0 /\ w # NoCall
    BY <1>3 DEF PostResponse, NoCall
  <2> QED BY <1>3, <2>1 DEF Promised
<1>4. CASE w.pc = "applied"
  <2>1. w.index \in Nat
    BY <1>4 DEF NotSubmitted, Submitted
  <2>2. /\ w # NoCall /\ PostResponse(w).status = 201
        /\ PostResponse(w).body.index + 1 = w.index
    BY <1>4, <2>1 DEF PostResponse, CommandResponseBody, NoCall
  <2>3. Promised(w) = [status |-> "created", index |-> PostResponse(w).body.index + 1]
    BY <2>2 DEF Promised
  <2> QED BY <1>4, <2>2, <2>3
<1>5. CASE w.pc \in {"notLeader", "stopped", "timeout"}
  <2>1. w # NoCall /\ PostResponse(w).status \in {409, 503, 504}
    BY <1>5 DEF PostResponse, NoCall
  <2> QED BY <1>5, <2>1 DEF Promised
<1> QED BY <1>1, <1>2, <1>3, <1>4, <1>5

\* Whatever else a step does, the list only grows, with posted messages.
LEMMA ListGrows ==
  ASSUME TypeInv, TypeInv', AppliedIsCommitted, AppliedIsCommitted', ListSound, ListSound',
         ClientsType', [Next]_vars
  PROVE  List!Grows
<1>1. \A n \in Node : node[n].applied \in Seq(Command) /\ node'[n].applied \in Seq(Command)
  BY DEF TypeInv, WellFormed, RaftState
<1>2. {c \in Command : client'[c] # NoCall}
         = {c \in Command : [d \in Command |-> Promised(client[d])'][c] # List!NotPosted}
  BY PromisedIs DEF ClientsType
<1>3. LongestList' \in Seq({c \in Command : [d \in Command |-> Promised(client[d])'][c] # List!NotPosted})
  BY <1>2 DEF ListSound
<1>4. PICK n \in Node : LongestList = node[n].applied
  BY DEF ListSound
<1>5. LongestList' \in Seq(Command)
  BY <1>1 DEF ListSound
<1>6. List!Begins(LongestList, LongestList')
  BY <1>1, <1>4, <1>5, AppliedGrows, BeginsThrough DEF ListSound
<1>7. \A v \in Node :
          /\ List!Begins([m \in Node |-> CommittedRows(m)][v], [m \in Node |-> CommittedRows(m)'][v])
          /\ List!Begins([m \in Node |-> CommittedRows(m)'][v], LongestList')
  BY AppliedGrows DEF ListSound
<1>8. \A i, j \in DOMAIN LongestList' : LongestList'[i] = LongestList'[j] => i = j
  BY DEF ListSound
<1> QED BY <1>3, <1>6, <1>7, <1>8 DEF List!Grows

-----------------------------------------------------------------------------
(* The steps of the runtime are steps of MessageList.                      *)

SoundStep ==
    /\ TypeInv /\ TypeInv' /\ AppliedIsCommitted /\ AppliedIsCommitted'
    /\ ListSound /\ ListSound' /\ ClientsType /\ ClientsType'
    /\ [Next]_vars

\* The answer to c that clients get is r from now on, the others are the same.
Answer(c, r) ==
    [d \in Command |-> Promised(client[d])']
        = [[d \in Command |-> Promised(client[d])] EXCEPT ![c] = r]

LEMMA AnswerOne ==
  ASSUME NEW c \in Command, NEW r, Promised(client'[c]) = r,
         \A d \in Command \ {c} : Promised(client'[d]) = Promised(client[d])
  PROVE  Answer(c, r)
  BY DEF Answer

\* A client that is notified looks again: its answer is the same.
LEMMA NotifiedAnswers ==
  ASSUME ClientsType, NEW n, NEW d \in Command, client'[d] = Notified(n)[d]
  PROVE  Promised(client'[d]) = Promised(client[d])
<1>1. CASE client'[d] = client[d]
  BY <1>1
<1>2. CASE client[d].pc = "waiting" /\ client'[d] = [client[d] EXCEPT !.woken = TRUE]
  <2>1. client[d] \in Submitted /\ client'[d] \in Submitted /\ client'[d].pc = "waiting"
    BY <1>2 DEF ClientsType, NotSubmitted, Submitted
  <2> QED BY <1>2, <2>1, PromisedIs
<1> QED BY <1>1, <1>2 DEF Notified

LEMMA SameListIfNodesStay ==
  ASSUME UNCHANGED node
  PROVE  /\ LongestList' = LongestList
         /\ [n \in Node |-> CommittedRows(n)'] = [n \in Node |-> CommittedRows(n)]
  BY DEF LongestList, Messages, NodeStatusBody, CommittedRows

LEMMA SubmitAccepts ==
  ASSUME SoundStep, NEW n \in Node, NEW c \in Command, Submit(n, c)
  PROVE  List!Accept(c)
<1> USE DEF SoundStep
<1>1. List!Grows
  BY ListGrows
<1>2. client[c] = NoCall /\ client'[c].pc \in {"waiting", "applied"}
      /\ \A d \in Command \ {c} : client'[d] = Notified(n)[d]
  BY DEF Submit, Notified
<1>3. /\ client[c] \in NotSubmitted \cup Submitted
      /\ client'[c] \in NotSubmitted \cup Submitted
  BY DEF ClientsType
<1>4. Promised(client[c]) = List!NotPosted
  BY <1>2, <1>3, PromisedIs
<1>5. Answer(c, Promised(client'[c]))
  BY <1>2, NotifiedAnswers, AnswerOne
<1>6. Promised(client'[c]) \in {List!Pending} \cup
          {List!Created(i) : i \in {j \in DOMAIN LongestList' : LongestList'[j] = c}}
  <2>1. CASE client'[c].pc = "waiting"
    BY <1>3, <2>1, PromisedIs
  <2>2. CASE client'[c].pc = "applied"
    <3>1. Promised(client'[c]) = List!Created(client'[c].index)
      BY <1>3, <2>2, PromisedIs
    <3>2. client'[c].index \in DOMAIN LongestList' /\ LongestList'[client'[c].index] = c
      BY <2>2 DEF ListSound
    <3> QED BY <3>1, <3>2
  <2> QED BY <1>2, <2>1, <2>2
<1> QED BY <1>1, <1>4, <1>5, <1>6 DEF List!Accept, Answer

LEMMA RejectAnswers ==
  ASSUME SoundStep, NEW n \in Node, NEW c \in Command, SubmitRejected(n, c)
  PROVE  List!AnswerUncertain(c)
<1>1. UNCHANGED node /\ client[c] = NoCall /\ client'[c].pc \in {"stopped", "notLeader"}
      /\ \A d \in Command \ {c} : client'[d] = client[d]
  BY DEF SubmitRejected, SoundStep, ClientsType
<1>2. /\ client[c] \in NotSubmitted \cup Submitted
      /\ client'[c] \in NotSubmitted \cup Submitted
  BY DEF SoundStep, ClientsType
<1>3. Promised(client[c]) = List!NotPosted /\ Promised(client'[c]) = List!Uncertain
  BY <1>1, <1>2, PromisedIs
<1>4. Answer(c, List!Uncertain)
  BY <1>1, <1>3, AnswerOne
<1> QED BY <1>1, <1>3, <1>4, SameListIfNodesStay DEF List!AnswerUncertain, Answer

\* A client looks, or reaches its deadline.
LEMMA ClientAnswers ==
  ASSUME SoundStep, NEW c \in Command, ClientLooks(c) \/ ClientTimesOut(c)
  PROVE  List!AnswerUncertain(c) \/ List!AnswerCreated(c) \/ UNCHANGED List!vars
<1>1. /\ UNCHANGED node /\ client[c].pc = "waiting"
      /\ \A d \in Command \ {c} : client'[d] = client[d]
  BY DEF ClientLooks, ClientTimesOut, SoundStep, ClientsType
<1>2. /\ client[c] \in NotSubmitted \cup Submitted
      /\ client'[c] \in NotSubmitted \cup Submitted
  BY DEF SoundStep, ClientsType
<1>3. Promised(client[c]) = List!Pending
  BY <1>1, <1>2, PromisedIs
<1>4. client'[c].pc \in {"waiting", "applied", "notLeader", "stopped", "timeout"}
  <2>1. PICK pc \in {"waiting", "applied", "notLeader", "stopped", "timeout"} :
            client' = [client EXCEPT ![c].pc = pc, ![c].woken = FALSE]
    BY DEF ClientLooks, ClientTimesOut, Outcome
  <2>2. client[c] \in Submitted
    BY <1>1, <1>2 DEF NotSubmitted
  <2> QED BY <2>1, <2>2 DEF SoundStep, ClientsType, Submitted
<1>5. CASE client'[c].pc = "waiting"
  <2>1. \A d \in Command : Promised(client'[d]) = Promised(client[d])
    BY <1>1, <1>2, <1>3, <1>5, PromisedIs
  <2> QED BY <1>1, <2>1, SameListIfNodesStay DEF List!vars
<1>6. CASE client'[c].pc \in {"notLeader", "stopped", "timeout"}
  <2>1. Answer(c, List!Uncertain)
    BY <1>1, <1>2, <1>6, PromisedIs, AnswerOne
  <2> QED BY <1>1, <1>3, <2>1, SameListIfNodesStay DEF List!AnswerUncertain, Answer
<1>7. CASE client'[c].pc = "applied"
  <2>1. Answer(c, List!Created(client'[c].index))
    BY <1>1, <1>2, <1>7, PromisedIs, AnswerOne
  <2>2. client'[c].index \in DOMAIN LongestList /\ LongestList[client'[c].index] = c
    BY <1>1, <1>7, SameListIfNodesStay DEF SoundStep, ListSound
  <2> QED BY <1>1, <1>3, <2>1, <2>2, SameListIfNodesStay DEF List!AnswerCreated, Answer
<1> QED BY <1>4, <1>5, <1>6, <1>7

LEMMA ListStep ==
  ASSUME SoundStep, [RuntimeNext]_allVars
  PROVE  [List!Next]_(List!vars)
<1>1. \/ UNCHANGED client
      \/ \E n : client' = Notified(n)
      \/ \E n \in Node, d \in Command : Submit(n, d)
      \/ \E d \in Command : \/ ClientLooks(d) \/ ClientTimesOut(d)
                            \/ \E n \in Node : SubmitRejected(n, d)
  BY DEF RuntimeNext, allVars, TimerExpires, ElectionRound, DropRound, BallotReaches,
         BallotAnswered, BallotFails, ExecuteVoteRequest, ExecuteLate, Heartbeat, Stop,
         WorkerWakes, WorkerCalls, WorkerRests, CallReaches, CallAnswered, CallFails
<1>2. ASSUME \A d \in Command : Promised(client'[d]) = Promised(client[d])
      PROVE  List!Learn
  BY <1>2, ListGrows DEF SoundStep, List!Learn
<1>3. CASE UNCHANGED client
  BY <1>2, <1>3 DEF List!Next
<1>4. CASE \E n : client' = Notified(n)
  BY <1>2, <1>4, NotifiedAnswers DEF SoundStep, List!Next
<1>5. CASE \E n \in Node, d \in Command : Submit(n, d)
  BY <1>5, SubmitAccepts DEF List!Next
<1>6. CASE \E d \in Command : \/ ClientLooks(d) \/ ClientTimesOut(d)
                              \/ \E n \in Node : SubmitRejected(n, d)
  BY <1>6, ClientAnswers, RejectAnswers DEF List!Next
<1> QED BY <1>1, <1>3, <1>4, <1>5, <1>6

LEMMA ListInit ==
  ASSUME RuntimeInit, TypeInv, AppliedIsCommitted
  PROVE  List!Init
<1>1. \A n \in Node : node[n].applied = <<>> /\ node[n].log = <<>>
  BY DEF RuntimeInit, Init, FreshState
<1>2. LongestList = <<>>
  BY <1>1, LongestIsLongest
<1>3. \A n \in Node : CommittedRows(n) = <<>>
  BY <1>1, RowsAreApplied
<1>4. \A c \in Command : Promised(client[c]) = List!NotPosted
  <2>1. NoCall \in NotSubmitted
    BY DEF NoCall, NotSubmitted
  <2>2. NoCall.pc = "none"
    BY DEF NoCall
  <2> QED BY <2>1, <2>2, PromisedIs DEF RuntimeInit
<1> QED BY <1>2, <1>3, <1>4 DEF List!Init

\* Over whatever the cluster does, its clients see one list of messages that
\* only grows, with the message of a POST once at most, and a 201 names the
\* index where the message is and stays (routes.py, submit_command).
THEOREM ApiKeepsItsPromise == RuntimeSpec => ImplementsMessageList
<1>1. RuntimeInit /\ TypeInv /\ AppliedIsCommitted => List!Init
  BY ListInit
<1>2. TypeInv /\ AppliedIsCommitted /\ StateMachineSafety /\ OnceInv /\ FinalInv /\ ClientsType
          => ListSound
  BY ListIsSound
<1>3. SoundStep /\ [RuntimeNext]_allVars => [List!Next]_(List!vars)
  BY ListStep
<1>4. RuntimeSpec => []TypeInv /\ []AppliedIsCommitted /\ []StateMachineSafety /\ [][Next]_vars
  BY RuntimeImplementsRaft, TypeInvariance, AppliedStays, AppliedAgree, PTL DEF Spec
<1>5. RuntimeSpec => []OnceInv /\ []FinalInv /\ []ClientsType
  BY OnceHolds, FinalHolds, WakeHolds, PTL DEF WakeInv
<1> QED
  BY <1>1, <1>2, <1>3, <1>4, <1>5, PTL
  DEF RuntimeSpec, ImplementsMessageList, List!Spec, SoundStep
=============================================================================
