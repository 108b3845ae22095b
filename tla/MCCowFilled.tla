---------------------------- MODULE MCCowFilled -----------------------------
(***************************************************************************)
(* CowBTree on a file that an earlier process has left: it has put the     *)
(* keys 1, 3 and 4 in this order, so that the leaf has been split and the  *)
(* tree has a super-root (4); the leaf of the first two puts (1) is free.  *)
(***************************************************************************)
EXTENDS MCCowBTree

CONSTANT v

FilledFile ==
    <<Leaf(<<1, 3>>, <<v, v>>), Leaf(<<1, 3>>, <<v, v>>), Leaf(<<4>>, <<v>>),
      Internal(<<4>>, <<2, 3>>), FreeList(5, 0, <<1>>)>>

InitFilled ==
    /\ file = [p \in 0 .. 5 |-> IF p = 0 THEN Header(4, 5) ELSE FilledFile[p]]
    /\ header = [root |-> 0, head |-> 0]
    /\ version = 0 /\ active = [r \in Reader |-> None] /\ pending = NonePending
    /\ writer = [pc |-> "closed"] /\ reader = [r \in Reader |-> NoThread]
    /\ puts = 0 /\ crashes = 0

SpecFilled == InitFilled /\ [][Next]_vars

\* Only the readers are interchangeable: the file holds one of the values.
SymmetryFilled == Permutations(Reader)
=============================================================================
