---------------------------- MODULE MCPowerLoss -----------------------------
(***************************************************************************)
(* PowerLoss on a new file, or on one that an earlier process has left: it *)
(* has put the keys 1 and 3, the root (1) is a full leaf, and the leaf of  *)
(* the first put (2) is free.                                              *)
(***************************************************************************)
EXTENDS PowerLoss, MCCowBTree

CONSTANT v

SyncedFile == <<Leaf(<<1, 3>>, <<v, v>>), Leaf(<<1>>, <<v>>), FreeList(3, 0, <<2>>)>>

DiskInitEither ==
    /\ \/ file = [p \in {0} |-> Blank]
       \/ file = [p \in 0 .. 3 |-> IF p = 0 THEN Header(1, 3) ELSE SyncedFile[p]]
    /\ disk = file
    /\ header = [root |-> 0, head |-> 0]
    /\ version = 0 /\ active = [r \in Reader |-> None] /\ pending = NonePending
    /\ writer = [pc |-> "closed"] /\ reader = [r \in Reader |-> NoThread]
    /\ puts = 0 /\ crashes = 0

SpecEither == DiskInitEither /\ [][DiskNext]_diskVars

\* The power fails only while the list on the disk is whole.
SpecWhole == DiskInitEither /\ [][WholeNext]_diskVars
=============================================================================
