---------------------------- MODULE RaftRuntime -----------------------------
(***************************************************************************)
(* The tasks of RaftNode (raft-protocol/src/raft_node/runtime/node.py): the *)
(* election timer and its generation, a replication worker per peer with   *)
(* one call at a time, the calls for votes, the clients that wait in       *)
(* submit_command, and stop.  What a critical section does to the cores is *)
(* the action of the module Raft that each action here includes.           *)
(*                                                                         *)
(* A call is executed by its peer once at most.  Its caller may give up    *)
(* before the answer is there: the request may then be executed late, and  *)
(* its answer is dropped.                                                  *)
(***************************************************************************)
EXTENDS Raft

CONSTANTS Impatient,\* bound: the nodes whose timer may run out
          Beating,  \* bound: the nodes whose heartbeat period may end
          Hasty,    \* bound: the commands whose client may reach its deadline
          MaxStops, \* bound: calls of stop in the cluster
          MaxCalls, \* bound: calls under way in the cluster at a time
          MaxLate   \* bound: abandoned requests that wait to be executed late

ASSUME RuntimeBoundAssumption ==
    /\ Impatient \subseteq Node /\ Beating \subseteq Node /\ Hasty \subseteq Command
    /\ MaxStops \in Nat /\ MaxCalls \in Nat /\ MaxLate \in Nat

VARIABLES running, \* running[n]: is_running
          timer,   \* timer[n]: the wait in _election_loop
          signal,  \* signal[n][p]: the event in _replication_events
          worker,  \* worker[n][p]: the task _replication_worker(p)
          ballots, \* the tasks _request_vote
          late,    \* requests whose caller gave up before they were executed
          client   \* client[c]: the call submit_command(c)

runtimeVars == <<running, timer, signal, worker, ballots, late, client>>
allVars == <<node, msgs, running, timer, signal, worker, ballots, late, client>>

-----------------------------------------------------------------------------
(* Timers, events and waiters.                                             *)

\* _reset_election_timeout raises the generation and wakes the loop.  A wait
\* that times out at the same moment, or has timed out and is on its way to
\* the condition, is stale.
Resets(n) ==
    {t \in {timer, [timer EXCEPT ![n] = "stale"]} :
        IF n \in Impatient THEN t[n] # "expired" ELSE t[n] = "running"}

\* The timer after a handler that resets it in some cases.
TimerAfter(n, reset) == timer' \in IF reset THEN Resets(n) ELSE {timer}

\* _signal_replication.
Signalled(n) == [signal EXCEPT ![n] = [p \in Node |-> p # n]]

SignalIf(n, condition) == signal' = IF condition THEN Signalled(n) ELSE signal

\* notify_all: who waits on the condition of n looks at the state again.
Notified(n) ==
    [c \in Command |->
        IF client[c].pc = "waiting" /\ client[c].at = n
        THEN [client[c] EXCEPT !.woken = TRUE] ELSE client[c]]

\* At rest until the next signal, after a call that failed or not.
Idle == [pc |-> "idle"]
Failed == [pc |-> "failed"]
Ready == [pc |-> "ready"]
Calling(p, request) ==
    [pc |-> "calling", peer |-> p, request |-> request, response |-> None]

CallsUnderWay ==
    Cardinality(ballots) + Cardinality({c \in Node \X Node : worker[c[1]][c[2]].pc = "calling"})

NoCall == [pc |-> "none"]

\* What _wait_for_commit makes of the state of its node.
\* Mutant: the entry at the index is not compared.
Outcome_IndexOnly(w) ==
    LET s == node[w.at]
    IN  IF Len(s.applied) >= w.index THEN "applied"
        ELSE IF ~running[w.at] THEN "stopped"
        ELSE IF s.role # Leader \/ s.currentTerm # w.entry.term THEN "notLeader"
        ELSE "waiting"

Outcome(w) ==
    LET s == node[w.at]
        held == w.index <= Len(s.log) /\ s.log[w.index] = w.entry
    IN  IF Len(s.applied) >= w.index THEN (IF held THEN "applied" ELSE "notLeader")
        ELSE IF ~running[w.at] THEN "stopped"
        ELSE IF s.role # Leader \/ s.currentTerm # w.entry.term THEN "notLeader"
        ELSE "waiting"

-----------------------------------------------------------------------------
RuntimeInit ==
    /\ Init
    /\ running = [n \in Node |-> TRUE]
    /\ timer = [n \in Node |-> "running"]
    /\ signal = [n \in Node |-> [p \in Node |-> FALSE]]
    /\ worker = [n \in Node |-> [p \in Node |-> Idle]]
    /\ ballots = {} /\ late = {}
    /\ client = [c \in Command |-> NoCall]

\* wait_for in _election_loop ends with a TimeoutError.
TimerExpires(n) ==
    /\ n \in Impatient
    /\ running[n] /\ timer[n] = "running"
    /\ Cardinality(Elections) < MaxElections
    /\ timer' = [timer EXCEPT ![n] = "expired"]
    /\ UNCHANGED <<node, msgs, running, signal, worker, ballots, late, client>>

\* _start_election_round of the generation in which the wait began.
ElectionRound(n) ==
    /\ running[n] /\ timer[n] = "expired"
    /\ CallsUnderWay + Cardinality(Node \ {n}) <= MaxCalls
    /\ StartElectionRound(n)
    /\ timer' = [timer EXCEPT ![n] = "running"]
    /\ ballots' = ballots \cup
          {[caller |-> n, peer |-> p, response |-> None,
            request |-> StartElection(n, node[n]).request] : p \in Node \ {n}}
    /\ SignalIf(n, node'[n].leaderId = n)
    /\ client' = Notified(n)
    /\ UNCHANGED <<running, worker, late>>

\* _start_election_round returns: the node leads, or the generation is over.
DropRound(n) ==
    /\ running[n]
    /\ \/ timer[n] = "stale"
       \/ timer[n] = "expired" /\ node[n].role = Leader
    /\ timer' = [timer EXCEPT ![n] = "running"]
    /\ UNCHANGED <<node, msgs, running, signal, worker, ballots, late, client>>

\* A peer executes receive_vote_request.
ExecuteVoteRequest(p, request) ==
    /\ ReceiveVoteRequest(p, request)
    /\ TimerAfter(p, HandleVoteRequest(p, node[p], request).response.granted)
    /\ client' = Notified(p)

BallotReaches(b) ==
    /\ b.response = None
    /\ ExecuteVoteRequest(b.peer, b.request)
    /\ ballots' = (ballots \ {b}) \cup
          {[b EXCEPT !.response = HandleVoteRequest(b.peer, node[b.peer], b.request).response]}
    /\ UNCHANGED <<running, signal, worker, late>>

\* Mutant: a new leader does not signal its workers.
BallotAnswered_Unsignalled(b) ==
    /\ b.response # None
    /\ VoteResponseArrives(b.caller, b.response)
    /\ ballots' = ballots \ {b}
    /\ TimerAfter(b.caller, b.response.term > node[b.caller].currentTerm)
    /\ client' = Notified(b.caller)
    /\ UNCHANGED <<running, signal, worker, late>>

BallotAnswered(b) ==
    /\ b.response # None
    /\ VoteResponseArrives(b.caller, b.response)
    /\ ballots' = ballots \ {b}
    /\ SignalIf(b.caller, node[b.caller].role # Leader /\ node'[b.caller].role = Leader)
    /\ TimerAfter(b.caller, b.response.term > node[b.caller].currentTerm)
    /\ client' = Notified(b.caller)
    /\ UNCHANGED <<running, worker, late>>

\* The caller of these calls gives up: a request that was not executed yet is
\* lost, or is executed later.
GivesUp(calls) ==
    \E S \in SUBSET {[peer |-> c.peer, request |-> c.request] :
                       c \in {d \in calls : d.response = None}} :
        late' = late \cup S /\ Cardinality(late') <= MaxLate

BallotFails(b) ==
    /\ ballots' = ballots \ {b}
    /\ GivesUp({b})
    /\ UNCHANGED <<node, msgs, running, timer, signal, worker, client>>

ExecuteLate(l) ==
    /\ late' = late \ {l}
    /\ \/ /\ l.request.type = "VoteRequest"
          /\ ExecuteVoteRequest(l.peer, l.request)
       \/ /\ l.request.type = "LogRequest"
          /\ ReceiveLogRequest(l.peer, l.request)
          /\ TimerAfter(l.peer, AcceptsLeader(node[l.peer], l.request))
          /\ client' = Notified(l.peer)
    /\ UNCHANGED <<running, signal, worker, ballots>>

-----------------------------------------------------------------------------
(* Replication.                                                            *)

\* _heartbeat_loop.
Heartbeat(n) ==
    /\ n \in Beating
    /\ running[n] /\ node[n].role = Leader
    /\ signal' = Signalled(n)
    /\ UNCHANGED <<node, msgs, running, timer, worker, ballots, late, client>>

WorkerWakes(n, p) ==
    /\ running[n] /\ worker[n][p] \in {Idle, Failed} /\ signal[n][p]
    /\ signal' = [signal EXCEPT ![n][p] = FALSE]
    /\ worker' = [worker EXCEPT ![n][p] = Ready]
    /\ UNCHANGED <<node, msgs, running, timer, ballots, late, client>>

WorkerCalls(n, p) ==
    /\ running[n] /\ worker[n][p] = Ready
    /\ CallsUnderWay < MaxCalls
    /\ SendLogRequest(n, p)
    /\ worker' = [worker EXCEPT ![n][p] = Calling(p, MakeLogRequest(n, node[n], p))]
    /\ UNCHANGED <<running, timer, signal, ballots, late, client>>

\* The node does not lead any more.
WorkerRests(n, p) ==
    /\ running[n] /\ worker[n][p] = Ready /\ node[n].role # Leader
    /\ worker' = [worker EXCEPT ![n][p] = Idle]
    /\ UNCHANGED <<node, msgs, running, timer, signal, ballots, late, client>>

\* Mutant: a deposed leader does not notify who waits there.
CallReaches_Silent(n, p) ==
    /\ worker[n][p].pc = "calling" /\ worker[n][p].response = None
    /\ ReceiveLogRequest(p, worker[n][p].request)
    /\ worker' = [worker EXCEPT ![n][p].response =
                     HandleLogRequest(p, node[p], worker[n][p].request).response]
    /\ TimerAfter(p, AcceptsLeader(node[p], worker[n][p].request))
    /\ UNCHANGED <<running, signal, ballots, late, client>>

\* The peer executes receive_log_request.
CallReaches(n, p) ==
    /\ worker[n][p].pc = "calling" /\ worker[n][p].response = None
    /\ ReceiveLogRequest(p, worker[n][p].request)
    /\ worker' = [worker EXCEPT ![n][p].response =
                     HandleLogRequest(p, node[p], worker[n][p].request).response]
    /\ TimerAfter(p, AcceptsLeader(node[p], worker[n][p].request))
    /\ client' = Notified(p)
    /\ UNCHANGED <<running, signal, ballots, late>>

\* handle_log_response asks for another round at once after a prefix that
\* did not match, and when the log has grown in the meantime.
\* Mutant: no request at once after a step back.
Retries_NotStepBack(s, m) ==
    /\ TracksResponse(s, m) /\ m.success
    /\ m.acknowledgedLength >= s.ackedLength[m.followerId]
    /\ m.acknowledgedLength < Len(s.log)

Retries(s, m) ==
    /\ TracksResponse(s, m)
    /\ IF m.success
       THEN m.acknowledgedLength >= s.ackedLength[m.followerId] /\ m.acknowledgedLength < Len(s.log)
       ELSE s.sentLength[m.followerId] > 0

\* Mutant: who waits for the commit is not notified.
CallAnswered_Silent(n, p) ==
    /\ worker[n][p].pc = "calling" /\ worker[n][p].response # None
    /\ LET m == worker[n][p].response
       IN  /\ LogResponseArrives(n, m)
           /\ worker' = [worker EXCEPT ![n][p] = IF Retries(node[n], m) THEN Ready ELSE Idle]
           /\ TimerAfter(n, m.term > node[n].currentTerm)
    /\ UNCHANGED <<running, signal, ballots, late, client>>

CallAnswered(n, p) ==
    /\ worker[n][p].pc = "calling" /\ worker[n][p].response # None
    /\ LET m == worker[n][p].response
       IN  /\ LogResponseArrives(n, m)
           /\ worker' = [worker EXCEPT ![n][p] = IF Retries(node[n], m) THEN Ready ELSE Idle]
           /\ TimerAfter(n, m.term > node[n].currentTerm)
    /\ client' = Notified(n)
    /\ UNCHANGED <<running, signal, ballots, late>>

CallFails(n, p) ==
    /\ worker[n][p].pc = "calling"
    /\ worker' = [worker EXCEPT ![n][p] = Failed]
    /\ GivesUp({worker[n][p]})
    /\ UNCHANGED <<node, msgs, running, timer, signal, ballots, client>>

-----------------------------------------------------------------------------
(* Clients.                                                                *)

\* submit_command appends, and returns at once if that has committed.
Submit(n, c) ==
    /\ running[n] /\ client[c] = NoCall
    /\ SubmitCommand(n, c)
    /\ LET index == Len(node'[n].log)
           w == [pc |-> "waiting", at |-> n, index |-> index,
                 entry |-> node'[n].log[index], woken |-> TRUE]
       IN  client' = [Notified(n) EXCEPT ![c] =
              IF Len(node'[n].applied) >= index THEN [w EXCEPT !.pc = "applied"] ELSE w]
    /\ signal' = Signalled(n)
    /\ UNCHANGED <<running, timer, worker, ballots, late>>

\* submit_command raises NodeStoppedError or NotLeaderError at once: no entry.
SubmitRejected(n, c) ==
    /\ client[c] = NoCall
    /\ \/ ~running[n] /\ client' = [client EXCEPT ![c] = [pc |-> "stopped"]]
       \/ /\ running[n] /\ node[n].role # Leader
          /\ client' = [client EXCEPT ![c] = [pc |-> "notLeader"]]
    /\ UNCHANGED <<node, msgs, running, timer, signal, worker, ballots, late>>

\* A round of _wait_for_commit, which is over or waits for the next notify.
ClientLooks(c) ==
    /\ client[c].pc = "waiting" /\ client[c].woken
    /\ client' = [client EXCEPT ![c].pc = Outcome(client[c]), ![c].woken = FALSE]
    /\ UNCHANGED <<node, msgs, running, timer, signal, worker, ballots, late>>

\* CommitTimeoutError.
ClientTimesOut(c) ==
    /\ c \in Hasty
    /\ client[c].pc = "waiting"
    /\ client' = [client EXCEPT ![c].pc = "timeout", ![c].woken = FALSE]
    /\ UNCHANGED <<node, msgs, running, timer, signal, worker, ballots, late>>

\* Mutant: who waits for a commit is not notified.
Stop_Silent(n) ==
    /\ running[n]
    /\ Cardinality({p \in Node : ~running[p]}) < MaxStops
    /\ running' = [running EXCEPT ![n] = FALSE]
    /\ worker' = [worker EXCEPT ![n] = [p \in Node |-> Idle]]
    /\ ballots' = {b \in ballots : b.caller # n}
    /\ GivesUp({b \in ballots : b.caller = n}
                  \cup {w \in {worker[n][p] : p \in Node} : w.pc = "calling"})
    /\ UNCHANGED <<node, msgs, timer, signal, client>>

\* stop cancels the loops, the workers and their calls.
Stop(n) ==
    /\ running[n]
    /\ Cardinality({p \in Node : ~running[p]}) < MaxStops
    /\ running' = [running EXCEPT ![n] = FALSE]
    /\ client' = Notified(n)
    /\ worker' = [worker EXCEPT ![n] = [p \in Node |-> Idle]]
    /\ ballots' = {b \in ballots : b.caller # n}
    /\ GivesUp({b \in ballots : b.caller = n}
                  \cup {w \in {worker[n][p] : p \in Node} : w.pc = "calling"})
    /\ UNCHANGED <<node, msgs, timer, signal>>

RuntimeNext ==
    \/ \E n \in Node : TimerExpires(n) \/ ElectionRound(n) \/ DropRound(n)
    \/ \E b \in ballots : BallotReaches(b) \/ BallotAnswered(b) \/ BallotFails(b)
    \/ \E l \in late : ExecuteLate(l)
    \/ \E n \in Node : Heartbeat(n) \/ Stop(n)
    \/ \E n, p \in Node : WorkerWakes(n, p) \/ WorkerCalls(n, p) \/ WorkerRests(n, p)
    \/ \E n, p \in Node : CallReaches(n, p) \/ CallAnswered(n, p) \/ CallFails(n, p)
    \/ \E n \in Node, c \in Command : Submit(n, c) \/ SubmitRejected(n, c)
    \/ \E c \in Command : ClientLooks(c) \/ ClientTimesOut(c)

\* The event loop runs every task that can run, the heartbeat comes back, and
\* a call that is tried again and again is executed and answered in the end.
\* A worker is kept from calling only by the bound on calls.
Fairness ==
    /\ \A n \in Beating : WF_allVars(Heartbeat(n))
    /\ \A n \in Beating : \A p \in Node \ {n} :
          /\ WF_allVars(WorkerWakes(n, p))
          /\ WF_allVars(WorkerCalls(n, p) \/ WorkerRests(n, p))
          /\ SF_allVars(CallReaches(n, p))
          /\ SF_allVars(CallAnswered(n, p))
    /\ \A c \in Command : WF_allVars(ClientLooks(c))

RuntimeSpec == RuntimeInit /\ [][RuntimeNext]_allVars

FairSpec == RuntimeSpec /\ Fairness

-----------------------------------------------------------------------------
(* Properties.                                                             *)

\* A command that a client was told is applied (HTTP 201) is final: the exact
\* entry is at its index in every log that is committed so far, and in the
\* log of every leader whose term the client's node has not passed.  (A leader
\* that it has passed may lack the entry, although its term is not before
\* that of the entry.)
SuccessIsFinal ==
    \A c \in Command : client[c].pc = "applied" =>
        LET w == client[c]
        IN  \A n \in Node :
              \/ node[n].commitLength >= w.index
              \/ node[n].role = Leader /\ node[n].currentTerm >= node[w.at].currentTerm
              => w.index <= Len(node[n].log) /\ node[n].log[w.index] = w.entry

\* No waiter sleeps over the outcome of its command: whenever it is decided,
\* the waiter has been notified and not looked yet.
NoLostWakeup ==
    \A c \in Command :
        client[c].pc = "waiting" /\ Outcome(client[c]) # "waiting" => client[c].woken

\* The worker of a leader rests without a signal only behind a failed call,
\* or when its follower has acknowledged the whole log: no entry that was
\* appended while a call was under way, and no step back, waits for the
\* heartbeat.
RestsInSync ==
    \A n, p \in Node :
        running[n] /\ node[n].role = Leader /\ p # n /\ worker[n][p] = Idle /\ ~signal[n][p]
            => node[n].ackedLength[p] = Len(node[n].log)

\* The leader n stays, and everybody has its log, has committed what it has
\* committed, and an entry of its own term at the end of its log is committed.
CaughtUp(n) ==
    /\ \A p \in Node : node[p].log = node[n].log /\ node[p].applied = node[n].applied
    /\ LastLogTerm(node[n]) = node[n].currentTerm => node[n].commitLength = Len(node[n].log)

\* Followers catch up: if a node leads from some time on, in a network whose
\* calls get through now and then, all nodes end up with its log, also those
\* whose logs have diverged.
FollowersCatchUp ==
    \A n \in Node : <>[](running[n] /\ node[n].role = Leader) => <>[]CaughtUp(n)

\* A client that waits gets an answer without its deadline, as long as calls
\* get through now and then.
ClientsReturn ==
    \A c \in Command : client[c].pc = "waiting" ~> client[c].pc # "waiting"
=============================================================================
