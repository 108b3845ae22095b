--------------------------- MODULE ElectionTimer ----------------------------
(***************************************************************************)
(* The clocks of RaftNode (raft-protocol/src/raft_node/runtime/node.py):   *)
(* _election_loop of one node, and _heartbeat_loop and the replication     *)
(* worker of the leader that it follows.                                   *)
(*                                                                         *)
(* Time passes in ticks, and only when no task can run: the event loop is  *)
(* not late by as much as a tick.  What other nodes do to the role and to  *)
(* the timer of the node may happen at any time.                           *)
(*                                                                         *)
(* httpx applies the timeout of a request to each of its phases; one phase *)
(* of a call has to wait at most (to connect, or for the answer over a     *)
(* connection that is kept open), so that it bounds the whole call.        *)
(***************************************************************************)
EXTENDS Naturals

CONSTANTS HeartbeatInterval, ElectionMin, ElectionMax, RequestTimeout, \* in ticks
          Delay \* what a message of a call takes at most, if nothing is wrong

\* What the constructor of RaftNode and Settings insist on.
ASSUME TimingAssumption ==
    /\ HeartbeatInterval \in Nat \ {0} /\ RequestTimeout \in Nat \ {0}
    /\ ElectionMin \in Nat /\ HeartbeatInterval < ElectionMin
    /\ ElectionMax \in Nat /\ ElectionMin < ElectionMax
    /\ Delay \in Nat

VARIABLES role,    \* of the node
          follows, \* whether the node is in the term of the leader
          wait,    \* a round of _election_loop
          quiet,   \* ticks since the timer was reset
          asleep,  \* ticks since then, its last campaign or leadership
          leads,   \* whether the leader is one still
          beat,    \* ticks until _heartbeat_loop wakes
          signal,  \* the event in _replication_events
          call,    \* what the replication worker does
          failed   \* calls in a row that failed or were slow, up to two

nodeVars == <<role, follows, wait, quiet, asleep>>
leaderVars == <<leads, beat, signal, call, failed>>
vars == <<role, follows, wait, quiet, asleep, leads, beat, signal, call, failed>>

UpTo(bound, n) == IF n > bound THEN bound ELSE n

-----------------------------------------------------------------------------
(* The election loop.                                                      *)

\* The top of the loop, which the end of every round leads to at once: the
\* event is cleared, the generation read and a timeout drawn.
NewWait ==
    {[left |-> t, event |-> FALSE, stale |-> FALSE, expired |-> FALSE] :
        t \in ElectionMin .. ElectionMax}

\* _reset_election_timeout: the generation of the wait is over.
Reset(w) == [w EXCEPT !.event = TRUE, !.stale = TRUE]

\* Mutant: the generation was read before the loop began.
Wakes_OldGeneration ==
    /\ ~wait.expired /\ wait.event
    /\ \E w \in NewWait : wait' = [w EXCEPT !.stale = wait.stale]
    /\ UNCHANGED <<role, follows, quiet, asleep, leaderVars>>

\* The event ends the wait.
Wakes ==
    /\ ~wait.expired /\ wait.event
    /\ wait' \in NewWait
    /\ UNCHANGED <<role, follows, quiet, asleep, leaderVars>>

\* Mutant: the generation is read when the wait is over.
Expires_ReadsGeneration ==
    /\ ~wait.expired /\ wait.left = 0
    /\ wait' = [wait EXCEPT !.expired = TRUE, !.stale = FALSE]
    /\ UNCHANGED <<role, follows, quiet, asleep, leaderVars>>

\* The TimeoutError wins, even over an event that is set by now.
Expires ==
    /\ ~wait.expired /\ wait.left = 0
    /\ wait' = [wait EXCEPT !.expired = TRUE]
    /\ UNCHANGED <<role, follows, quiet, asleep, leaderVars>>

\* _start_election_round of a node that is one of several.
StartElection ==
    /\ wait.expired /\ ~wait.stale /\ role # "Leader"
    /\ role' = "Candidate" /\ follows' = FALSE
    /\ wait' \in NewWait
    /\ asleep' = 0
    /\ UNCHANGED <<quiet, leaderVars>>

DropRound ==
    /\ wait.expired /\ (wait.stale \/ role = "Leader")
    /\ wait' \in NewWait
    /\ UNCHANGED <<role, follows, quiet, asleep, leaderVars>>

\* A handler calls _reset_election_timeout.
Heard == wait' = Reset(wait) /\ quiet' = 0 /\ asleep' = 0

-----------------------------------------------------------------------------
(* What other nodes and late requests do to the node.                      *)

\* It grants its vote, accepts another leader or learns of a later term from
\* a response.
FollowsAnother ==
    /\ role' = "Follower" /\ follows' = FALSE
    /\ Heard
    /\ UNCHANGED leaderVars

\* A vote request of a later term that it refuses: no reset.
StepsUp ==
    /\ role' = "Follower" /\ follows' = FALSE
    /\ asleep' = IF role = "Leader" THEN 0 ELSE asleep
    /\ UNCHANGED <<wait, quiet, leaderVars>>

\* The last vote arrives: no reset.
Wins ==
    /\ role = "Candidate" /\ role' = "Leader"
    /\ UNCHANGED <<follows, wait, quiet, asleep, leaderVars>>

\* A request that its caller gave up is executed.
LateRequest ==
    /\ follows /\ failed > 0
    /\ Heard
    /\ UNCHANGED <<role, follows, leaderVars>>

-----------------------------------------------------------------------------
(* The leader.                                                             *)

Idle == [pc |-> "idle", age |-> 0, lag |-> 0, prompt |-> TRUE]
Calling == [Idle EXCEPT !.pc = "sent"]

\* _heartbeat_loop ends its sleep and signals the workers.
Beat ==
    /\ beat = 0
    /\ beat' = HeartbeatInterval
    /\ signal' = (signal \/ leads)
    /\ UNCHANGED <<leads, call, failed, nodeVars>>

\* submit_command signals them too.
Submit ==
    /\ leads /\ ~signal
    /\ signal' = TRUE
    /\ UNCHANGED <<leads, beat, call, failed, nodeVars>>

\* The worker takes the signal and calls, or rests as nobody leads.
WorkerWakes ==
    /\ call.pc = "idle" /\ signal
    /\ signal' = FALSE
    /\ call' = IF leads THEN Calling ELSE Idle
    /\ UNCHANGED <<leads, beat, failed, nodeVars>>

\* The request is executed; lag counts the ticks of one way.
CallReaches ==
    /\ call.pc = "sent"
    /\ call' = [call EXCEPT !.pc = "reached", !.lag = 0, !.prompt = call.lag <= Delay]
    /\ IF follows THEN Heard ELSE UNCHANGED <<wait, quiet, asleep>>
    /\ UNCHANGED <<role, follows, leads, beat, signal, failed>>

\* The answer deposes a leader whose term is over.  Otherwise the worker may
\* call again at once, as the log has grown.
CallAnswered ==
    /\ call.pc = "reached"
    /\ leads' = (leads /\ follows)
    /\ failed' = IF call.prompt /\ call.lag <= Delay THEN 0 ELSE UpTo(2, failed + 1)
    /\ call' \in IF leads' THEN {Idle, Calling} ELSE {Idle}
    /\ UNCHANGED <<beat, signal, nodeVars>>

\* A request or the answer of another node deposes the leader.
StepsDown ==
    /\ leads /\ leads' = FALSE
    /\ UNCHANGED <<beat, signal, call, failed, nodeVars>>

\* Mutant: the event is cleared when the call is over.
CallFails_Clears ==
    /\ call.pc # "idle"
    /\ call' = Idle /\ failed' = UpTo(2, failed + 1)
    /\ signal' = FALSE
    /\ UNCHANGED <<leads, beat, nodeVars>>

\* No answer, after RequestTimeout at the latest.
CallFails ==
    /\ call.pc # "idle"
    /\ call' = Idle /\ failed' = UpTo(2, failed + 1)
    /\ UNCHANGED <<leads, beat, signal, nodeVars>>

-----------------------------------------------------------------------------
\* Mutant: a call has no timeout.
Tick_Untimed ==
    /\ ~wait.expired /\ ~wait.event /\ wait.left > 0
    /\ beat > 0 /\ ~(call.pc = "idle" /\ signal)
    /\ wait' = [wait EXCEPT !.left = @ - 1]
    /\ beat' = beat - 1
    /\ call' = IF call.pc = "idle" THEN call ELSE [call EXCEPT !.age = @ + 1, !.lag = @ + 1]
    /\ quiet' = UpTo(ElectionMax, quiet + 1)
    /\ asleep' = UpTo(ElectionMax + 1, asleep + 1)
    /\ UNCHANGED <<role, follows, leads, signal, failed>>

\* A tick passes when no task can run.
Tick ==
    /\ ~wait.expired /\ ~wait.event /\ wait.left > 0
    /\ beat > 0 /\ ~(call.pc = "idle" /\ signal)
    /\ call.pc # "idle" => call.age < RequestTimeout
    /\ wait' = [wait EXCEPT !.left = @ - 1]
    /\ beat' = beat - 1
    /\ call' = IF call.pc = "idle" THEN call ELSE [call EXCEPT !.age = @ + 1, !.lag = @ + 1]
    /\ quiet' = UpTo(ElectionMax, quiet + 1)
    /\ asleep' = UpTo(ElectionMax + 1, asleep + 1)
    /\ UNCHANGED <<role, follows, leads, signal, failed>>

\* A follower that has just heard of the leader.
Init ==
    /\ role = "Follower" /\ follows = TRUE
    /\ wait \in NewWait /\ quiet = 0 /\ asleep = 0
    /\ leads = TRUE /\ beat = HeartbeatInterval /\ signal = FALSE
    /\ call = Idle /\ failed = 0

Next ==
    \/ Wakes \/ Expires \/ StartElection \/ DropRound
    \/ FollowsAnother \/ StepsUp \/ Wins \/ LateRequest
    \/ Beat \/ Submit \/ WorkerWakes \/ CallReaches \/ CallAnswered \/ CallFails
    \/ StepsDown
    \/ Tick

Spec == Init /\ [][Next]_vars

-----------------------------------------------------------------------------
(* Properties.                                                             *)

Wait == [left : 0 .. ElectionMax, event : BOOLEAN, stale : BOOLEAN, expired : BOOLEAN]
Call == [pc : {"idle", "sent", "reached"}, age : 0 .. RequestTimeout,
         lag : 0 .. RequestTimeout, prompt : BOOLEAN]

NodeTypeOK ==
    /\ role \in {"Follower", "Candidate", "Leader"} /\ follows \in BOOLEAN
    /\ wait \in Wait
    /\ quiet \in 0 .. ElectionMax /\ asleep \in 0 .. (ElectionMax + 1)

LeaderTypeOK ==
    /\ leads \in BOOLEAN /\ signal \in BOOLEAN
    /\ beat \in 0 .. HeartbeatInterval /\ failed \in 0 .. 2
    /\ call \in Call /\ call.lag <= call.age

\* Types: no wait and no call is longer than its timeout.
TypeOK == NodeTypeOK /\ LeaderTypeOK

\* A node campaigns only after it has heard nothing for the least timeout,
\* whatever timeouts, resets and critical sections meet in one moment.
CampaignsAfterQuiet == [][StartElection => quiet >= ElectionMin]_vars

\* A node that does not lead never sleeps for longer than the greatest
\* timeout: no dropped round and no reset leaves it without a running timer.
NeverOverslept == role # "Leader" => asleep <= ElectionMax

\* Calls that have failed in a row, or are late.
Trouble ==
    failed + IF call.pc # "idle" /\ ~(call.prompt /\ call.lag <= Delay) THEN 1 ELSE 0

\* A leader is not deposed by one call that fails.  If a message takes no
\* longer than a heartbeat period and that no longer than the timeout of a
\* call, and all three together are less than the least election timeout,
\* then whoever campaigns against the leader it follows has missed two calls
\* in a row.
SurvivesOneFailure ==
    [][/\ StartElection /\ follows /\ leads
       /\ Delay <= HeartbeatInterval /\ HeartbeatInterval <= RequestTimeout
       /\ HeartbeatInterval + RequestTimeout + Delay < ElectionMin
       => Trouble >= 2]_vars
=============================================================================
