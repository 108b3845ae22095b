----------------------------- MODULE MessageList -----------------------------
(***************************************************************************)
(* What the HTTP API promises its clients (raft-protocol/README.md, HTTP   *)
(* API): the cluster keeps one list of messages that only grows, and every *)
(* view of it is a beginning of it.  A POST puts its message into the list *)
(* once at most.  Answered 201, the message is in the list, at the index   *)
(* that the answer names.  Any other answer leaves open whether it is      *)
(* there, or gets there later.                                             *)
(***************************************************************************)
EXTENDS Sequences, Naturals, FiniteSets

CONSTANTS View,     \* what the nodes show of the list
          Command   \* a command stands for one POST

VARIABLES list,  \* the messages, in order
          shown, \* shown[v]: the messages in the view v
          post   \* post[c]: the state of the POST of c

vars == <<list, shown, post>>

NotPosted == [status |-> "none"]
Pending == [status |-> "pending"]
Uncertain == [status |-> "uncertain"]
Created(i) == [status |-> "created", index |-> i]

Begins(p, s) == Len(p) <= Len(s) /\ p = SubSeq(s, 1, Len(p))

Init ==
    /\ list = <<>> /\ shown = [v \in View |-> <<>>]
    /\ post \in [Command -> {NotPosted, Pending}]

-----------------------------------------------------------------------------
\* Messages of POSTs get into the list, each of them once, or into views that
\* lag behind it.
Grows ==
    /\ list' \in Seq({c \in Command : post'[c] # NotPosted})
    /\ Begins(list, list')
    /\ \A i, j \in DOMAIN list' : list'[i] = list'[j] => i = j
    /\ shown' = [v \in View |-> shown'[v]]
    /\ \A v \in View : Begins(shown[v], shown'[v]) /\ Begins(shown'[v], list')

\* A POST comes in.  A cluster of one node may put its message into the list,
\* and answer, at once.
Accept(c) ==
    /\ post[c] = NotPosted
    /\ post' \in {[post EXCEPT ![c] = r] :
                    r \in {Pending} \cup {Created(i) : i \in {j \in DOMAIN list' : list'[j] = c}}}
    /\ Grows

Learn == UNCHANGED post /\ Grows

AnswerCreated(c) ==
    /\ post[c] = Pending
    /\ \E i \in DOMAIN list : list[i] = c /\ post' = [post EXCEPT ![c] = Created(i)]
    /\ UNCHANGED <<list, shown>>

AnswerUncertain(c) ==
    /\ post[c] \in {NotPosted, Pending}
    /\ post' = [post EXCEPT ![c] = Uncertain]
    /\ UNCHANGED <<list, shown>>

Next ==
    \/ \E c \in Command : Accept(c) \/ AnswerCreated(c) \/ AnswerUncertain(c)
    \/ Learn

Spec == Init /\ [][Next]_vars
=============================================================================
