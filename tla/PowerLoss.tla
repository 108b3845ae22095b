----------------------------- MODULE PowerLoss ------------------------------
(***************************************************************************)
(* CowBTree on a disk that loses what was not synced.  The memory map of   *)
(* MmapPager (pager.py) is written back by the kernel page by page, at any *)
(* time and in any order; only MmapPager.sync makes sure of it.  A power   *)
(* failure leaves the pages as they were last written back.                *)
(*                                                                         *)
(* A page is written back whole: the fields of the header lie in one       *)
(* sector.  The size of the file is written back at once, so that a page   *)
(* which was not written back reads as zeros.                              *)
(***************************************************************************)
EXTENDS CowBTree

VARIABLE disk  \* the pages as a power failure would leave them

diskVars == <<vars, disk>>

\* Mutant: sync flushes the pages of the map and not the header.
Synced_NoHeader == [p \in DOMAIN file |-> IF p = 0 THEN disk[p] ELSE file[p]]

\* MmapPager.sync: the pages on the disk behind it.
Synced == file

\* Pages by which the file has grown hold zeros until they are written back.
Unsynced == [p \in DOMAIN file' |-> IF p \in DOMAIN disk THEN disk[p] ELSE Blank]

-----------------------------------------------------------------------------
DiskInit == Init /\ disk = file

\* The steps of put that end a sync.
SyncStep == (SyncHead \/ CommitRoot \/ CommitWrite) /\ disk' = Synced

\* Of a get only that it pins a version for a while: what it reads is the map.
Pin(r) ==
    /\ IsOpen /\ reader[r] = NoThread
    /\ active' = [active EXCEPT ![r] = version]
    /\ reader' = [reader EXCEPT ![r] = [pc |-> "found", value |-> None]]
    /\ UNCHANGED <<file, header, version, pending, writer, puts, crashes>>

\* All the others only write to the map.
MapStep ==
    /\ \/ OpenTree \/ CreateRoot \/ CreateHeader
       \/ \E k \in Key, x \in Value : StartPut(k, x)
       \/ TakeFreeList \/ AddFreePage \/ WriteFreeList \/ PublishHead
       \/ Descend \/ AllocateNode \/ WriteNode \/ SplitNode \/ WriteLeft \/ WriteRight
       \/ WriteRoot \/ PublishRoot \/ ReclaimAtOnce
       \/ \E r \in Reader : Pin(r) \/ EndRead(r)
    /\ disk' = Unsynced

\* The kernel writes a page back.
WriteBack(p) ==
    /\ disk[p] # file[p]
    /\ disk' = [disk EXCEPT ![p] = file[p]]
    /\ UNCHANGED vars

\* The power fails: the process is gone, and the file is what the disk holds.
PowerFailure ==
    /\ writer.pc # "closed"
    /\ crashes < MaxCrashes
    /\ crashes' = crashes + 1
    /\ file' = disk
    /\ header' = [root |-> 0, head |-> 0]
    /\ version' = 0 /\ active' = [r \in Reader |-> None] /\ pending' = NonePending
    /\ writer' = [pc |-> "closed"] /\ reader' = [r \in Reader |-> NoThread]
    /\ UNCHANGED <<puts, disk>>

DiskNext == SyncStep \/ MapStep \/ (\E p \in DOMAIN disk : WriteBack(p)) \/ PowerFailure

DiskSpec == DiskInit /\ [][DiskNext]_diskVars

\* The list on the disk is not cut off at a page that was not written back.
ListIsWhole ==
    disk[0].kind = "header" =>
        \A p \in ListPages(disk, disk[0].head) : disk[p].kind = "freelist"

\* The power fails only while that list is whole.
WholeNext == DiskNext /\ (PowerFailure => ListIsWhole)

WholeSpec == DiskInit /\ [][WholeNext]_diskVars

-----------------------------------------------------------------------------
(* Properties.                                                             *)

RootOnDisk == IF disk[0].kind = "header" THEN disk[0].root ELSE 0

\* The header of a new file was written back, and its root was not.
RootIsMissing == disk[0].head = 0 /\ ReadPage(disk, disk[0].root) = Blank

\* Whenever the power fails, page 0 of the disk is still that of a header; the
\* disk has every page of the tree, or of a new file not even its root; and what
\* the list on the disk would hand out is apart from the tree.
DiskIsRecoverable ==
    /\ disk[0].kind \in {"blank", "header"}
    /\ disk[0].kind = "header" =>
          /\ \/ \A p \in TreePages(disk, disk[0].root) : ReadPage(disk, p).kind \in {"leaf", "internal"}
             \/ RootIsMissing
          /\ ListIsDisjoint(disk, disk[0].root, disk[0].head)

\* What the tree at root holds.  A tree of which a page cannot be read holds
\* nothing: it is that of a new file of which only the header is on the disk.
Holds(f, root) ==
    [k \in Key |->
        IF \A p \in TreePages(f, root) : ReadPage(f, p).kind \in {"leaf", "internal"}
        THEN Lookup(f, root, k) ELSE None]

OnDisk == IF disk[0].kind = "header" THEN Holds(disk, disk[0].root) ELSE [k \in Key |-> None]

StoreInMap == IF IsOpen THEN Holds(file, header.root) ELSE OnDisk

\* A put is persisted as soon as its root is on the disk, and at the latest
\* when the sync behind publish_root is over.
DurablePut ==
    IF writer.pc \in {"idle", "closed", "createHeader"} THEN [pc |-> "none"]
    ELSE IF \/ writer.pc = "publishRoot"
            \/ writer.pc = "commitWrite" /\ RootOnDisk # header.root
    THEN [pc |-> "effective"]
    ELSE IF writer.committed THEN [pc |-> "persisted"]
    ELSE [pc |-> "called", key |-> writer.key, value |-> writer.value]

Durable == INSTANCE KVStore WITH
    durable <- OnDisk, store <- StoreInMap, put <- DurablePut,
    get <- [r \in Reader |-> [pc |-> "none"]]

\* A power failure takes back nothing but the effect of a put that has not
\* returned, and never half of it: the pages of a tree are on the disk before
\* its root is, its root is before put returns, and no page of the tree on the
\* disk is written to until the disk holds the next root.
DurableOnDisk == Durable!Spec

\* "Existing files are safely reopened and recovered": whatever the disk keeps,
\* nobody who opens the file overwrites the header with a page of another kind.
HeaderIsKept == file[0].kind \in {"blank", "header"}
=============================================================================
