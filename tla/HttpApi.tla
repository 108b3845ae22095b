------------------------------- MODULE HttpApi -------------------------------
(***************************************************************************)
(* The routes for clients of raft-protocol/src/raft_node/api/routes.py on  *)
(* top of RaftRuntime: the answer to POST / that the outcome of            *)
(* submit_command becomes, and the page that GET / builds from a snapshot. *)
(* They keep no state.  The routes for peers hand the body to the node and *)
(* its answer back: they are BallotReaches, CallReaches and ExecuteLate.   *)
(***************************************************************************)
EXTENDS RaftRuntime

\* Indices are zero-based outside, and start at 1 in the model's logs.
CommandResponseBody(w) ==
    [index |-> w.index - 1, term |-> w.entry.term, command |-> w.entry.command]

\* The answer to the POST whose submit_command is in this state; the status 0
\* stands for no answer yet.
PostResponse(w) ==
    CASE w.pc = "applied" -> [status |-> 201, body |-> CommandResponseBody(w)]
      [] w.pc = "notLeader" -> [status |-> 409]
      [] w.pc = "timeout" -> [status |-> 504]
      [] w.pc = "stopped" -> [status |-> 503]
      [] OTHER -> [status |-> 0]

\* What GET / shows of the log and of the messages.
NodeStatusBody(n) ==
    LET s == node[n]
    IN  [log |-> [i \in DOMAIN s.log |->
                    [index |-> i - 1, term |-> s.log[i].term, command |-> s.log[i].command,
                     committed |-> i - 1 < s.commitLength]],
         applied_commands |-> s.applied]

-----------------------------------------------------------------------------
(* The promise to clients.                                                 *)

\* The messages of the rows that a page flags as committed.
CommittedRows(n) ==
    LET log == NodeStatusBody(n).log
    IN  [i \in {j \in DOMAIN log : log[j].committed} |-> log[i].command]

Messages == {NodeStatusBody(n).applied_commands : n \in Node}

\* What a client may conclude from the answer, for the state of its call.
Promised(w) ==
    LET r == PostResponse(w)
    IN  CASE r.status = 201 -> [status |-> "created", index |-> r.body.index + 1]
          [] r.status \in {409, 503, 504} -> [status |-> "uncertain"]
          [] OTHER -> [status |-> IF w = NoCall THEN "none" ELSE "pending"]

\* The longest list of messages that a GET / shows.
LongestList == CHOOSE p \in Messages : \A q \in Messages : Len(q) <= Len(p)

List == INSTANCE MessageList WITH
    View <- Node,
    list <- LongestList,
    shown <- [n \in Node |-> CommittedRows(n)],
    post <- [c \in Command |-> Promised(client[c])]

\* The API keeps its promise over whatever the cluster does: one list of
\* messages that only grows, the longest that a GET / shows, of which the rows
\* that any GET / flags as committed are a beginning; the message of a POST once
\* at most in it; and a 201 only at the index where the message is and stays.
ImplementsMessageList == List!Spec
=============================================================================
