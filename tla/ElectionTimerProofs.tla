------------------------- MODULE ElectionTimerProofs -------------------------
(***************************************************************************)
(* Theorems of the election timer, for all intervals and timeouts.         *)
(***************************************************************************)
EXTENDS ElectionTimer, TLAPS

LEMMA UpToBounds ==
    ASSUME NEW b \in Nat, NEW n \in Nat
    PROVE  UpTo(b, n) \in 0 .. b /\ UpTo(b, n) <= n /\ (n <= b => UpTo(b, n) = n)
  BY DEF UpTo

LEMMA NewWaitType ==
    ASSUME NEW w \in NewWait
    PROVE  w \in Wait /\ w.left >= ElectionMin /\ ~w.event /\ ~w.stale /\ ~w.expired
<1>1. PICK t \in ElectionMin .. ElectionMax :
        w = [left |-> t, event |-> FALSE, stale |-> FALSE, expired |-> FALSE]
  BY DEF NewWait
<1>2. t \in 0 .. ElectionMax /\ t >= ElectionMin
  BY TimingAssumption
<1>3. w \in Wait
  BY <1>1, <1>2, Zenon DEF Wait
<1> QED
  BY <1>1, <1>2, <1>3

LEMMA ResetType ==
    ASSUME NEW w \in Wait
    PROVE  /\ Reset(w) \in Wait /\ Reset(w).event /\ Reset(w).stale
           /\ Reset(w).left = w.left /\ Reset(w).expired = w.expired
  BY DEF Reset, Wait

LEMMA CallType ==
    /\ Idle \in Call /\ Idle.lag <= Idle.age
    /\ Calling \in Call /\ Calling.lag <= Calling.age
<1>1. 0 \in 0 .. RequestTimeout
  BY TimingAssumption
<1>2. Idle \in Call /\ Calling \in Call
  BY <1>1, Zenon DEF Idle, Calling, Call
<1>3. Idle.lag = 0 /\ Idle.age = 0 /\ Calling.lag = 0 /\ Calling.age = 0
  BY DEF Idle, Calling
<1> QED
  BY <1>2, <1>3

\* A call that reaches its peer, and a call that a tick passes.
LEMMA CallStep ==
    ASSUME NEW c \in Call, c.lag <= c.age, NEW b \in BOOLEAN, NEW d
    PROVE  /\ d = [c EXCEPT !.pc = "reached", !.lag = 0, !.prompt = b] =>
                 d \in Call /\ d.lag = 0 /\ d.age = c.age /\ d.pc = "reached"
           /\ c.age < RequestTimeout /\ d = [c EXCEPT !.age = @ + 1, !.lag = @ + 1] =>
                 /\ d \in Call /\ d.pc = c.pc /\ d.prompt = c.prompt
                 /\ d.lag = c.lag + 1 /\ d.age = c.age + 1
<1>1. ASSUME d = [c EXCEPT !.pc = "reached", !.lag = 0, !.prompt = b]
      PROVE  d \in Call /\ d.lag = 0 /\ d.age = c.age /\ d.pc = "reached"
  <2>1. 0 \in 0 .. RequestTimeout
    BY TimingAssumption
  <2>2. d \in Call
    BY <1>1, <2>1, Zenon DEF Call
  <2> QED BY <1>1, <2>2 DEF Call
<1>2. ASSUME c.age < RequestTimeout, d = [c EXCEPT !.age = @ + 1, !.lag = @ + 1]
      PROVE  /\ d \in Call /\ d.pc = c.pc /\ d.prompt = c.prompt
             /\ d.lag = c.lag + 1 /\ d.age = c.age + 1
  <2>1. c.age \in 0 .. RequestTimeout /\ c.lag \in 0 .. RequestTimeout
    BY DEF Call
  <2>2. c.age + 1 \in 0 .. RequestTimeout /\ c.lag + 1 \in 0 .. RequestTimeout
    BY <1>2, <2>1, TimingAssumption
  <2>3. d \in Call
    BY <1>2, <2>2, Zenon DEF Call
  <2> QED BY <1>2, <2>3 DEF Call
<1> QED
  BY <1>1, <1>2

-----------------------------------------------------------------------------
(* The types, and the wait: a wait that nobody has reset ends no sooner    *)
(* than ElectionMin after the last reset, and one that is running ends in  *)
(* time.  A stale wait has its event set, which holds back the time.       *)

WaitInv ==
    /\ ~wait.stale => quiet + (IF wait.expired THEN 0 ELSE wait.left) >= ElectionMin
    /\ wait.stale => wait.event

SleepInv ==
    role # "Leader" =>
        IF wait.event THEN asleep = 0
        ELSE asleep + (IF wait.expired THEN 0 ELSE wait.left) <= ElectionMax

TimerInv == TypeOK /\ WaitInv /\ SleepInv

LEMMA TimerInit == Init => TimerInv
<1> SUFFICES ASSUME Init PROVE TimerInv
  OBVIOUS
<1> USE TimingAssumption
<1>1. wait \in Wait /\ wait.left >= ElectionMin /\ ~wait.event /\ ~wait.stale /\ ~wait.expired
  BY NewWaitType DEF Init
<1>2. NodeTypeOK
  BY <1>1 DEF Init, NodeTypeOK
<1>4. LeaderTypeOK
  <2>1. beat \in 0 .. HeartbeatInterval /\ failed \in 0 .. 2
    BY DEF Init
  <2> QED BY <2>1, CallType, Zenon DEF Init, LeaderTypeOK
<1>5. wait.left \in 0 .. ElectionMax
  BY <1>1 DEF Wait
<1>6. WaitInv /\ SleepInv
  BY <1>1, <1>5 DEF Init, WaitInv, SleepInv
<1> QED
  BY <1>2, <1>4, <1>6 DEF TimerInv, TypeOK

LEMMA TimerNext == TimerInv /\ [Next]_vars => TimerInv'
<1> SUFFICES ASSUME TimerInv, [Next]_vars PROVE TimerInv'
  OBVIOUS
<1> USE TimingAssumption
<1>0. NodeTypeOK /\ LeaderTypeOK /\ WaitInv /\ SleepInv
  BY DEF TimerInv, TypeOK
<1>00. /\ wait.left \in 0 .. ElectionMax
       /\ wait.event \in BOOLEAN /\ wait.stale \in BOOLEAN /\ wait.expired \in BOOLEAN
  BY <1>0 DEF NodeTypeOK, Wait
<1>a. ASSUME UNCHANGED leaderVars PROVE LeaderTypeOK'
  BY <1>0, <1>a DEF leaderVars, LeaderTypeOK
<1>b. ASSUME UNCHANGED nodeVars PROVE NodeTypeOK' /\ WaitInv' /\ SleepInv'
  BY <1>0, <1>b DEF nodeVars, NodeTypeOK, WaitInv, SleepInv
<1>c. ASSUME wait' \in NewWait
      PROVE  /\ wait' \in Wait /\ wait'.left \in ElectionMin .. ElectionMax
             /\ ~wait'.event /\ ~wait'.stale /\ ~wait'.expired
  <2>1. wait' \in Wait /\ wait'.left >= ElectionMin
        /\ ~wait'.event /\ ~wait'.stale /\ ~wait'.expired
    BY <1>c, NewWaitType
  <2> QED BY <2>1 DEF Wait
<1>d. ASSUME Heard
      PROVE  /\ wait' \in Wait /\ wait'.event /\ wait'.stale
             /\ quiet' = 0 /\ asleep' = 0
  BY <1>0, <1>d, ResetType DEF Heard, NodeTypeOK
<1>e. 0 \in 0 .. ElectionMax /\ 0 \in 0 .. (ElectionMax + 1)
  OBVIOUS
<1>1. CASE Wakes \/ DropRound
  <2>1. /\ wait' \in NewWait /\ UNCHANGED <<role, follows, quiet, asleep, leaderVars>>
        /\ wait.event \/ wait.stale \/ role = "Leader"
    BY <1>1 DEF Wakes, DropRound
  <2>2. NodeTypeOK' /\ LeaderTypeOK'
    BY <1>0, <1>a, <1>c, <2>1 DEF NodeTypeOK
  <2>3. WaitInv'
    BY <1>0, <1>c, <2>1 DEF NodeTypeOK, WaitInv
  <2>4. SleepInv'
    BY <1>0, <1>c, <2>1 DEF NodeTypeOK, WaitInv, SleepInv
  <2> QED BY <2>2, <2>3, <2>4 DEF TimerInv, TypeOK
<1>2. CASE Expires
  <2>1. /\ wait' \in Wait /\ wait'.expired /\ ~wait.expired /\ wait.left = 0
        /\ wait'.event = wait.event /\ wait'.stale = wait.stale
    BY <1>0, <1>2 DEF Expires, NodeTypeOK, Wait
  <2>2. UNCHANGED <<role, follows, quiet, asleep, leaderVars>>
    BY <1>2 DEF Expires
  <2>3. NodeTypeOK' /\ LeaderTypeOK'
    BY <1>0, <1>a, <2>1, <2>2 DEF NodeTypeOK
  <2>4. WaitInv' /\ SleepInv'
    BY <1>0, <1>00, <2>1, <2>2 DEF NodeTypeOK, WaitInv, SleepInv
  <2> QED BY <2>3, <2>4 DEF TimerInv, TypeOK
<1>3. CASE StartElection
  <2>1. /\ wait.expired /\ ~wait.stale /\ role' = "Candidate" /\ follows' = FALSE
        /\ wait' \in NewWait /\ asleep' = 0 /\ quiet' = quiet
    BY <1>3 DEF StartElection
  <2>2. UNCHANGED leaderVars
    BY <1>3 DEF StartElection
  <2>3. NodeTypeOK' /\ LeaderTypeOK'
    BY <1>0, <1>a, <1>c, <1>e, <2>1, <2>2, Zenon DEF NodeTypeOK
  <2>4. WaitInv' /\ SleepInv'
    BY <1>0, <1>c, <2>1 DEF NodeTypeOK, WaitInv, SleepInv
  <2> QED BY <2>3, <2>4 DEF TimerInv, TypeOK
<1>4. CASE FollowsAnother \/ LateRequest
  <2>1. Heard /\ role' \in {"Follower", role} /\ follows' \in BOOLEAN
    BY <1>0, <1>4, Zenon DEF FollowsAnother, LateRequest, NodeTypeOK
  <2>2. UNCHANGED leaderVars
    BY <1>4 DEF FollowsAnother, LateRequest
  <2>3. NodeTypeOK' /\ LeaderTypeOK'
    BY <1>0, <1>a, <1>d, <1>e, <2>1, <2>2 DEF NodeTypeOK
  <2>4. WaitInv' /\ SleepInv'
    BY <1>d, <2>1 DEF WaitInv, SleepInv
  <2> QED BY <2>3, <2>4 DEF TimerInv, TypeOK
<1>5. CASE StepsUp \/ Wins
  <2>1. /\ UNCHANGED <<wait, quiet, leaderVars>>
        /\ role' \in {"Follower", "Leader"}
        /\ asleep' \in {0, asleep}
        /\ role = "Leader" => asleep' = 0
    BY <1>5 DEF StepsUp, Wins
  <2>2. follows' \in BOOLEAN
    BY <1>0, <1>5, Zenon DEF StepsUp, Wins, NodeTypeOK
  <2>3. NodeTypeOK' /\ LeaderTypeOK'
    BY <1>0, <1>a, <1>e, <2>1, <2>2 DEF NodeTypeOK
  <2>4. WaitInv'
    BY <1>0, <2>1 DEF WaitInv
  <2>5. SleepInv'
    <3>1. CASE asleep' = 0
      BY <1>00, <2>1, <3>1 DEF SleepInv
    <3>2. CASE asleep' = asleep /\ role # "Leader"
      BY <1>0, <2>1, <3>2 DEF SleepInv
    <3>3. CASE asleep' = asleep /\ role = "Leader"
      BY <2>1, <3>1, <3>3
    <3> QED BY <2>1, <3>1, <3>2, <3>3
  <2> QED BY <2>3, <2>4, <2>5 DEF TimerInv, TypeOK
<1>6. CASE Beat \/ Submit \/ WorkerWakes \/ CallAnswered \/ CallFails \/ StepsDown
  <2>1. UNCHANGED nodeVars
    BY <1>6 DEF Beat, Submit, WorkerWakes, CallAnswered, CallFails, StepsDown
  <2>2. /\ leads' \in BOOLEAN /\ signal' \in BOOLEAN
        /\ beat' \in {beat, HeartbeatInterval} /\ failed' \in {failed, 0, UpTo(2, failed + 1)}
        /\ call' \in {call, Idle, Calling}
    BY <1>0, <1>6
    DEF Beat, Submit, WorkerWakes, CallAnswered, CallFails, StepsDown, LeaderTypeOK,
        NodeTypeOK
  <2>3. failed' \in 0 .. 2
    BY <1>0, <2>2 DEF LeaderTypeOK, UpTo
  <2>4. LeaderTypeOK'
    BY <1>0, <2>2, <2>3, CallType DEF LeaderTypeOK
  <2> QED BY <1>b, <2>1, <2>4 DEF TimerInv, TypeOK
<1>7. CASE CallReaches
  <2>1. /\ Heard \/ UNCHANGED <<wait, quiet, asleep>>
        /\ UNCHANGED <<role, follows, leads, beat, signal, failed>>
        /\ call' = [call EXCEPT !.pc = "reached", !.lag = 0, !.prompt = (call.lag <= Delay)]
    BY <1>7 DEF CallReaches
  <2>2. (call.lag <= Delay) \in BOOLEAN
    OBVIOUS
  <2>3. call' \in Call /\ call'.lag = 0 /\ call'.age = call.age
    BY <1>0, <2>1, <2>2, CallStep DEF LeaderTypeOK
  <2>4. LeaderTypeOK'
    BY <1>0, <2>1, <2>3 DEF LeaderTypeOK, Call
  <2>6. NodeTypeOK'
    BY <1>0, <1>d, <1>e, <2>1 DEF NodeTypeOK
  <2>5. WaitInv' /\ SleepInv'
    BY <1>0, <1>d, <2>1 DEF WaitInv, SleepInv
  <2> QED BY <2>4, <2>5, <2>6 DEF TimerInv, TypeOK
<1>8. CASE Tick
  <2>1. /\ wait' \in Wait /\ wait'.left = wait.left - 1
        /\ ~wait.expired /\ ~wait.event /\ ~wait'.expired /\ ~wait'.event
        /\ wait'.stale = wait.stale
    BY <1>0, <1>8 DEF Tick, NodeTypeOK, Wait
  <2>2. quiet' = UpTo(ElectionMax, quiet + 1) /\ asleep' = UpTo(ElectionMax + 1, asleep + 1)
    BY <1>8 DEF Tick
  <2>3. /\ quiet' \in 0 .. ElectionMax /\ asleep' \in 0 .. (ElectionMax + 1)
        /\ asleep' <= asleep + 1 /\ (quiet' = quiet + 1 \/ quiet' = ElectionMax)
    BY <1>0, <2>2 DEF NodeTypeOK, UpTo
  <2>4. beat' \in 0 .. HeartbeatInterval
    BY <1>0, <1>8 DEF Tick, LeaderTypeOK
  <2>5. call' \in Call /\ call'.lag <= call'.age
    <3>1. CASE call.pc = "idle"
      BY <1>0, <1>8, <3>1 DEF Tick, LeaderTypeOK
    <3>2. CASE call.pc # "idle"
      <4>1. call.age < RequestTimeout /\ call' = [call EXCEPT !.age = @ + 1, !.lag = @ + 1]
        BY <1>8, <3>2 DEF Tick
      <4>2. call' \in Call /\ call'.lag = call.lag + 1 /\ call'.age = call.age + 1
        BY <1>0, <4>1, CallStep DEF LeaderTypeOK
      <4> QED BY <1>0, <4>2 DEF LeaderTypeOK, Call
    <3> QED BY <3>1, <3>2
  <2>6. UNCHANGED <<role, follows, leads, signal, failed>>
    BY <1>8 DEF Tick
  <2>7. NodeTypeOK' /\ LeaderTypeOK'
    BY <1>0, <2>1, <2>3, <2>4, <2>5, <2>6 DEF NodeTypeOK, LeaderTypeOK
  <2>8. WaitInv'
    BY <1>0, <1>00, <2>1, <2>3 DEF NodeTypeOK, WaitInv
  <2>9. SleepInv'
    BY <1>0, <1>00, <2>1, <2>3, <2>6 DEF NodeTypeOK, SleepInv
  <2> QED BY <2>7, <2>8, <2>9 DEF TimerInv, TypeOK
<1>9. CASE UNCHANGED vars
  BY <1>0, <1>a, <1>b, <1>9 DEF vars, nodeVars, leaderVars, TimerInv, TypeOK
<1> QED
  BY <1>1, <1>2, <1>3, <1>4, <1>5, <1>6, <1>7, <1>8, <1>9 DEF Next

LEMMA TimerInvariance == Spec => []TimerInv
  BY TimerInit, TimerNext, PTL DEF Spec

\* No wait of the loop and no call lasts longer than its timeout.
THEOREM TimerTypeCorrect == Spec => []TypeOK
<1>1. TimerInv => TypeOK
  BY DEF TimerInv
<1> QED
  BY <1>1, TimerInvariance, PTL

\* A node that does not lead sleeps for ElectionMax at most, however its
\* waits are reset and its rounds dropped (_election_loop).
THEOREM NeverOversleeps == Spec => []NeverOverslept
<1>1. TimerInv => NeverOverslept
  BY TimingAssumption DEF TimerInv, TypeOK, NodeTypeOK, Wait, SleepInv, NeverOverslept
<1> QED
  BY <1>1, TimerInvariance, PTL

\* A campaign starts ElectionMin after the last reset or later: the
\* generation check drops every stale timeout (_start_election_round).
THEOREM CampaignsOnlyAfterQuiet == Spec => CampaignsAfterQuiet
<1>1. TimerInv /\ [Next]_vars => [StartElection => quiet >= ElectionMin]_vars
  <2>1. TimerInv /\ StartElection => quiet >= ElectionMin
    BY TimingAssumption
    DEF TimerInv, TypeOK, NodeTypeOK, Wait, WaitInv, StartElection
  <2> QED BY <2>1
<1> QED
  BY <1>1, TimerInvariance, PTL DEF Spec, CampaignsAfterQuiet

-----------------------------------------------------------------------------
(* One failure.  How long ago a follower can have heard from its leader,   *)
(* as long as no two calls have failed in a row: a call that is answered   *)
(* in time is followed by the next one within a heartbeat period, and the  *)
(* heartbeat that falls into a call is not lost with it.                   *)

Missed == IF failed = 0 THEN 0 ELSE RequestTimeout

GapInv ==
    /\ call.pc # "idle" => signal \/ beat + call.age <= HeartbeatInterval
    /\ call.pc = "reached" => quiet <= call.lag
    /\ call.pc = "sent" => call.prompt /\ call.lag = call.age
    /\ failed <= 1 /\ call.pc = "sent" => quiet <= HeartbeatInterval + Missed + call.age
    /\ failed <= 1 /\ call.pc = "idle" =>
          quiet + (IF signal THEN 0 ELSE beat) <= HeartbeatInterval + Missed

Ordered == Delay <= HeartbeatInterval /\ HeartbeatInterval <= RequestTimeout

LeaderGap == Ordered /\ follows /\ leads => GapInv

LEMMA GapInit == Init => LeaderGap
  BY TimingAssumption DEF Init, LeaderGap, GapInv, Missed, Idle

LEMMA GapNext == TimerInv /\ LeaderGap /\ [Next]_vars => LeaderGap'
<1> SUFFICES ASSUME TimerInv, LeaderGap, [Next]_vars, Ordered, follows', leads' PROVE GapInv'
  BY DEF LeaderGap, Ordered
<1> USE TimingAssumption
<1>1. follows /\ leads
  BY DEF Next, Wakes, Expires, StartElection, DropRound, FollowsAnother, StepsUp, Wins,
         LateRequest, Beat, Submit, WorkerWakes, CallReaches, CallAnswered, CallFails,
         StepsDown, Tick, nodeVars, leaderVars, vars, TimerInv, TypeOK, NodeTypeOK, LeaderTypeOK
<1>2. GapInv
  BY <1>1 DEF LeaderGap
<1>3. /\ quiet \in Nat /\ beat \in 0 .. HeartbeatInterval /\ failed \in 0 .. 2
      /\ call.pc \in {"idle", "sent", "reached"}
      /\ call.age \in 0 .. RequestTimeout /\ call.lag \in 0 .. RequestTimeout
      /\ call.lag <= call.age
  BY DEF TimerInv, TypeOK, NodeTypeOK, LeaderTypeOK, Call
<1>4. ASSUME quiet' \in {0, quiet}, UNCHANGED leaderVars PROVE GapInv'
  <2>1. /\ call' = call /\ beat' = beat /\ signal' = signal /\ failed' = failed
        /\ Missed' = Missed /\ Missed >= 0
    BY <1>3, <1>4 DEF leaderVars, Missed
  <2>2. CASE quiet' = quiet
    BY <1>2, <2>1, <2>2 DEF GapInv
  <2>3. CASE quiet' = 0
    <3>1. Missed \in Nat /\ HeartbeatInterval \in Nat
      BY DEF Missed
    <3> QED BY <1>2, <1>3, <2>1, <2>3, <3>1 DEF GapInv
  <2> QED BY <1>4, <2>2, <2>3
<1>5. CASE Wakes \/ Expires \/ DropRound \/ Wins \/ LateRequest
  BY <1>4, <1>5 DEF Wakes, Expires, DropRound, Wins, LateRequest, Heard
<1>6. CASE StartElection \/ FollowsAnother \/ StepsUp \/ StepsDown
  BY <1>6 DEF StartElection, FollowsAnother, StepsUp, StepsDown
<1>7. CASE Beat
  <2>1. /\ beat = 0 /\ beat' = HeartbeatInterval /\ signal'
        /\ UNCHANGED <<call, failed, quiet>>
    BY <1>1, <1>7 DEF Beat, nodeVars
  <2> QED BY <1>2, <1>3, <2>1 DEF GapInv, Missed
<1>8. CASE Submit
  <2>1. signal' /\ UNCHANGED <<beat, call, failed, quiet>>
    BY <1>8 DEF Submit, nodeVars
  <2> QED BY <1>2, <1>3, <2>1 DEF GapInv, Missed
<1>9. CASE WorkerWakes
  <2>1. /\ call.pc = "idle" /\ signal /\ ~signal' /\ call' = Calling
        /\ UNCHANGED <<beat, failed, quiet>>
    BY <1>1, <1>9 DEF WorkerWakes, nodeVars
  <2>2. /\ call'.pc = "sent" /\ call'.age = 0 /\ call'.lag = 0 /\ call'.prompt
    BY <2>1 DEF Calling, Idle
  <2> QED BY <1>2, <1>3, <2>1, <2>2 DEF GapInv, Missed
<1>10. CASE CallReaches
  <2>1. /\ call.pc = "sent" /\ quiet' = 0 /\ UNCHANGED <<beat, signal, failed>>
        /\ call' = [call EXCEPT !.pc = "reached", !.lag = 0, !.prompt = (call.lag <= Delay)]
    BY <1>1, <1>10 DEF CallReaches, Heard
  <2>2. call'.pc = "reached" /\ call'.lag = 0 /\ call'.age = call.age
    <3>1. call \in Call /\ (call.lag <= Delay) \in BOOLEAN
      BY DEF TimerInv, TypeOK, LeaderTypeOK
    <3> QED BY <1>3, <2>1, <3>1, CallStep
  <2> QED BY <1>2, <1>3, <2>1, <2>2 DEF GapInv, Missed
<1>11. CASE CallAnswered
  <2>1. /\ call.pc = "reached" /\ call' \in {Idle, Calling}
        /\ UNCHANGED <<beat, signal, quiet>>
    BY <1>11 DEF CallAnswered, nodeVars
  <2>2. \/ failed' = 0 /\ call.lag <= Delay
        \/ failed' = UpTo(2, failed + 1)
    BY <1>11 DEF CallAnswered
  <2>3. \/ call'.pc = "idle"
        \/ call'.pc = "sent" /\ call'.age = 0 /\ call'.lag = 0 /\ call'.prompt
    BY <2>1 DEF Idle, Calling
  <2>4. (failed' = 0 /\ quiet <= HeartbeatInterval) \/ failed' \in {1, 2}
    BY <1>2, <1>3, <2>1, <2>2 DEF Ordered, GapInv, UpTo
  <2>5. quiet <= call.lag /\ (signal \/ beat + call.age <= HeartbeatInterval)
    BY <1>2, <2>1 DEF GapInv
  <2>6. call'.pc = "sent" => GapInv'
    BY <1>3, <2>1, <2>3, <2>4, <2>5 DEF GapInv, Missed
  <2>7. call'.pc = "idle" => GapInv'
    BY <1>3, <2>1, <2>4, <2>5 DEF GapInv, Missed
  <2> QED BY <2>3, <2>6, <2>7
<1>12. CASE CallFails
  <2>1. /\ call.pc # "idle" /\ call' = Idle /\ failed' = UpTo(2, failed + 1)
        /\ UNCHANGED <<beat, signal, quiet>>
    BY <1>12 DEF CallFails, nodeVars
  <2>2. call'.pc = "idle" /\ ((failed' = 1 /\ failed = 0) \/ failed' = 2)
    BY <1>3, <2>1 DEF Idle, UpTo
  <2>3. /\ quiet <= HeartbeatInterval + call.age \/ failed # 0
        /\ signal \/ beat + call.age <= HeartbeatInterval
        /\ call.pc = "reached" => quiet <= call.age
    BY <1>2, <1>3, <2>1 DEF GapInv, Missed
  <2> QED BY <1>2, <1>3, <2>1, <2>2, <2>3 DEF GapInv, Missed, Ordered
<1>13. CASE Tick
  <2>1. /\ beat > 0 /\ ~(call.pc = "idle" /\ signal) /\ beat' = beat - 1
        /\ UNCHANGED <<signal, failed>> /\ quiet' = UpTo(ElectionMax, quiet + 1)
    BY <1>13 DEF Tick
  <2>2. quiet' \in Nat /\ quiet' <= quiet + 1
    BY <1>3, <2>1, UpToBounds
  <2>3. CASE call.pc = "idle"
    <3>1. call' = call
      BY <1>13, <2>3 DEF Tick
    <3> QED BY <1>2, <1>3, <2>1, <2>2, <2>3, <3>1 DEF GapInv, Missed
  <2>4. CASE call.pc # "idle"
    <3>1. call.age < RequestTimeout /\ call' = [call EXCEPT !.age = @ + 1, !.lag = @ + 1]
      BY <1>13, <2>4 DEF Tick
    <3>2. /\ call'.pc = call.pc /\ call'.prompt = call.prompt
          /\ call'.lag = call.lag + 1 /\ call'.age = call.age + 1
      <4>1. call \in Call
        BY DEF TimerInv, TypeOK, LeaderTypeOK
      <4> QED BY <1>3, <3>1, <4>1, CallStep
    <3>3. /\ signal' \/ beat' + call'.age <= HeartbeatInterval
          /\ call'.pc = "reached" => quiet' <= call'.lag
          /\ call'.pc = "sent" => call'.prompt /\ call'.lag = call'.age
      BY <1>2, <1>3, <2>1, <2>2, <2>4, <3>2 DEF GapInv
    <3>4. failed' <= 1 /\ call'.pc = "sent"
            => quiet' <= HeartbeatInterval + Missed' + call'.age
      BY <1>2, <1>3, <2>1, <2>2, <3>2 DEF GapInv, Missed
    <3> QED BY <2>4, <3>2, <3>3, <3>4 DEF GapInv
  <2> QED BY <2>3, <2>4
<1>14. CASE UNCHANGED vars
  BY <1>4, <1>14 DEF vars, leaderVars
<1> QED
  BY <1>5, <1>6, <1>7, <1>8, <1>9, <1>10, <1>11, <1>12, <1>13, <1>14 DEF Next

\* One failed call does not depose a leader, for all intervals in the order
\* that the defaults of Settings have (_heartbeat_loop, _replication_worker).
THEOREM LeaderSurvivesOneFailure == Spec => SurvivesOneFailure
<1>1. ASSUME TimerInv, LeaderGap, StartElection, follows, leads, Ordered,
             HeartbeatInterval + RequestTimeout + Delay < ElectionMin
      PROVE  Trouble >= 2
  <2>1. quiet >= ElectionMin
    BY <1>1, TimingAssumption
    DEF TimerInv, TypeOK, NodeTypeOK, Wait, WaitInv, StartElection
  <2>2. GapInv
    BY <1>1 DEF LeaderGap
  <2>3. /\ quiet \in Nat /\ beat \in Nat /\ failed \in 0 .. 2
        /\ call.pc \in {"idle", "sent", "reached"}
        /\ call.age \in 0 .. RequestTimeout /\ call.lag \in 0 .. RequestTimeout
    BY <1>1, TimingAssumption DEF TimerInv, TypeOK, NodeTypeOK, LeaderTypeOK, Call
  <2>4. CASE call.pc = "idle"
    BY <1>1, <2>1, <2>2, <2>3, <2>4, TimingAssumption DEF GapInv, Missed, Trouble
  <2>5. CASE call.pc = "reached"
    BY <1>1, <2>1, <2>2, <2>3, <2>5, TimingAssumption DEF GapInv
  <2>6. CASE call.pc = "sent"
    BY <1>1, <2>1, <2>2, <2>3, <2>6, TimingAssumption DEF GapInv, Missed, Trouble
  <2> QED BY <2>3, <2>4, <2>5, <2>6
<1>2. TimerInv /\ LeaderGap /\ [Next]_vars =>
          [/\ StartElection /\ follows /\ leads
           /\ Delay <= HeartbeatInterval /\ HeartbeatInterval <= RequestTimeout
           /\ HeartbeatInterval + RequestTimeout + Delay < ElectionMin
           => Trouble >= 2]_vars
  BY <1>1 DEF Ordered
<1> QED
  BY <1>2, GapInit, GapNext, TimerInvariance, PTL DEF Spec, SurvivesOneFailure
=============================================================================
