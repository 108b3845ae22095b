------------------------------- MODULE MCRaft -------------------------------
(* Raft on small instances.                                                *)
EXTENDS Raft, TLC

\* Members and commands are interchangeable.
Symmetry == Permutations(Node) \cup Permutations(Command)

\* A response that its addressee ignores now and ever after, because its
\* term, its votes and its role in a term only move on.
Spent(m) ==
    \/ m.to \notin Node
    \/ m.term < node[m.to].currentTerm
    \/ /\ m.term = node[m.to].currentTerm
       /\ \/ m.type = "VoteResponse" /\ ~CountsVote(node[m.to], m)
          \/ m.type = "LogResponse" /\ ~TracksResponse(node[m.to], m)

\* States that differ only in spent responses have the same behaviours and
\* the same properties: TLC keeps one of them.
LiveView ==
    <<node, {m \in msgs : m.type \in {"VoteResponse", "LogResponse"} => ~Spent(m)}>>
=============================================================================
