------------------------------ MODULE CowBTree ------------------------------
(***************************************************************************)
(* The copy-on-write B+-tree of copy-on-write-btree/src: BTree (btree.py), *)
(* TransactionTracker and FreeListManager (freelist.py) over a file of     *)
(* pages (pager.py, node.py).                                              *)
(*                                                                         *)
(* One put at a time holds the write lock; gets run beside it without a    *)
(* lock.  A step is one access to what a put shares with a get or with a   *)
(* process that opens the file after a crash: a page that is read or       *)
(* written, a field of the header, a section of the tracker.  The memory   *)
(* map keeps what a killed process has written to it.                      *)
(***************************************************************************)
EXTENDS NodeSplit

CONSTANTS Key, Value, Reader, None,
          KeyLength, ValueLength, \* bytes of a key and of a value
          MaxPuts,                \* bound: calls of put
          MaxCrashes              \* bound: crashes of the process

ASSUME KeyAssumption == Key \subseteq Nat /\ None \notin Nat \cup Value
ASSUME LengthAssumption == /\ KeyLength \in [Key -> Nat] /\ ValueLength \in [Value -> Nat]
                           /\ MaxPuts \in Nat /\ MaxCrashes \in Nat

VARIABLES file,    \* the pages by id; file[0] is the header page
          header,  \* the HeaderNode that BTree and FreeListManager share
          version, \* TransactionTracker.current_version
          active,  \* active_readers: the version a reader pins, or None
          pending, \* pending_frees: the pages retired by a version, in order
          writer,  \* the thread in put, or in __init__
          reader,  \* reader[r]: the thread r in get
          puts, crashes

vars == <<file, header, version, active, pending, writer, reader, puts, crashes>>

-----------------------------------------------------------------------------
(* Pages.                                                                  *)

Blank == [kind |-> "blank"]
Header(root, head) == [kind |-> "header", root |-> root, head |-> head]
Leaf(keys, values) == [kind |-> "leaf", keys |-> keys, values |-> values]
Internal(keys, children) == [kind |-> "internal", keys |-> keys, children |-> children]
FreeList(id, next, ids) == [kind |-> "freelist", id |-> id, next |-> next, ids |-> ids]

\* What a page of zeros is to the free list.
NoList == FreeList(0, 0, <<>>)

FileSize(f) == Cardinality(DOMAIN f)

\* A page behind the end of the file reads as nothing.
ReadPage(f, p) == IF p \in DOMAIN f THEN f[p] ELSE Blank

\* FreeListNode.deserialize: a page of zeros is an empty node with id 0.
ReadFreeList(f, p) ==
    IF ReadPage(f, p).kind = "freelist" THEN f[p] ELSE NoList

\* Pager.allocate_page: the file grows by a page of zeros.
GrowFile(f) == [p \in DOMAIN f \cup {FileSize(f)} |-> IF p \in DOMAIN f THEN f[p] ELSE Blank]

\* bisect_left and bisect_right: how many keys are below k, or not above it.
BisectLeft(keys, k) == Cardinality({i \in DOMAIN keys : keys[i] < k})
BisectRight(keys, k) == Cardinality({i \in DOMAIN keys : keys[i] <= k})

ChildFor(n, k) == n.children[BisectRight(n.keys, k) + 1]

ValueIn(n, k) ==
    IF \E i \in DOMAIN n.keys : n.keys[i] = k
    THEN n.values[BisectLeft(n.keys, k) + 1]
    ELSE None

Base(n) == IF n.kind = "leaf" THEN LeafBase ELSE InternalBase

EntrySizesOf(n) ==
    [i \in DOMAIN n.keys |->
        IF n.kind = "leaf" THEN LeafEntrySize(KeyLength[n.keys[i]], ValueLength[n.values[i]])
        ELSE InternalEntrySize(KeyLength[n.keys[i]])]

TooLarge(n) == Overflows(Base(n), EntrySizesOf(n))

\* Mutant: a key that is there already is inserted a second time.
UpsertLeaf_Duplicates(n, k, v) ==
    LET i == BisectLeft(n.keys, k) + 1
    IN  Leaf(InsertAt(n.keys, i, k), InsertAt(n.values, i, v))

UpsertLeaf(n, k, v) ==
    LET i == BisectLeft(n.keys, k) + 1
    IN  IF k \in ToSet(n.keys) THEN Leaf(n.keys, ReplaceAt(n.values, i, v))
        ELSE Leaf(InsertAt(n.keys, i, k), InsertAt(n.values, i, v))

\* The copy of an internal node after the child for k was copied to page
\* "id", and perhaps split off the page "right" from "key" on.
AdoptChild(n, k, child) ==
    LET i == BisectRight(n.keys, k) + 1
        children == ReplaceAt(n.children, i, child.id)
    IN  IF child.key = None THEN Internal(n.keys, children)
        ELSE Internal(InsertAt(n.keys, i, child.key), InsertAt(children, i + 1, child.right))

LeftNode(n) ==
    LET i == SplitIndex(Base(n), EntrySizesOf(n))
    IN  IF n.kind = "leaf" THEN Leaf(SubSeq(n.keys, 1, i), SubSeq(n.values, 1, i))
        ELSE Internal(SubSeq(n.keys, 1, i), SubSeq(n.children, 1, i + 1))

\* Mutant: the separator of a leaf is moved up as that of an internal node is.
RightNode_Drops(n) ==
    LET i == SplitIndex(Base(n), EntrySizesOf(n))
        m == Len(n.keys)
    IN  IF n.kind = "leaf" THEN Leaf(SubSeq(n.keys, i + 2, m), SubSeq(n.values, i + 2, m))
        ELSE Internal(SubSeq(n.keys, i + 2, m), SubSeq(n.children, i + 2, m + 1))

RightNode(n) ==
    LET i == SplitIndex(Base(n), EntrySizesOf(n))
        m == Len(n.keys)
    IN  IF n.kind = "leaf" THEN Leaf(SubSeq(n.keys, i + 1, m), SubSeq(n.values, i + 1, m))
        ELSE Internal(SubSeq(n.keys, i + 2, m), SubSeq(n.children, i + 2, m + 1))

SplitKey(n) == n.keys[SplitIndex(Base(n), EntrySizesOf(n)) + 1]

-----------------------------------------------------------------------------
(* The free list and the tracker.                                          *)

\* Mutant: an id is handed out and stays in the list.
AllocatePage_Peeks(f, h) ==
    LET list == ReadFreeList(f, h)
    IN  IF h = 0 THEN [file |-> GrowFile(f), head |-> 0, id |-> FileSize(f)]
        ELSE IF list.ids # <<>> THEN [file |-> f, head |-> h, id |-> Last(list.ids)]
        ELSE [file |-> [f EXCEPT ![0].head = list.next], head |-> list.next, id |-> list.id]

\* Mutant: an empty head page is unlinked and forgotten.
AllocatePage_Forgets(f, h) ==
    LET list == ReadFreeList(f, h)
    IN  IF h = 0 THEN [file |-> GrowFile(f), head |-> 0, id |-> FileSize(f)]
        ELSE IF list.ids # <<>>
        THEN [file |-> [f EXCEPT ![list.id] = FreeList(list.id, list.next, Front(list.ids))],
              head |-> h, id |-> Last(list.ids)]
        ELSE [file |-> GrowFile([f EXCEPT ![0].head = list.next]), head |-> list.next,
              id |-> FileSize(f)]

\* BTree._allocate_page over FreeListManager.allocate: an id from the head
\* page of the list, or the empty head page itself, which is unlinked and
\* published first, or a new page at the end of the file.
AllocatePage(f, h) ==
    LET list == ReadFreeList(f, h)
    IN  IF h = 0 THEN [file |-> GrowFile(f), head |-> 0, id |-> FileSize(f)]
        ELSE IF list.ids # <<>>
        THEN [file |-> [f EXCEPT ![list.id] = FreeList(list.id, list.next, Front(list.ids))],
              head |-> h, id |-> Last(list.ids)]
        ELSE [file |-> [f EXCEPT ![0].head = list.next], head |-> list.next, id |-> list.id]

\* Mutant: the pages that the oldest reader still sees are given back too.
Retired_Inclusive ==
    LET pinned == {active[r] : r \in Reader} \ {None}
        oldest == IF pinned = {} THEN version ELSE Min(pinned)
    IN  {v \in 0 .. version : v <= oldest}

\* Mutant: what the newest reader cannot reach is given back, not the oldest.
Retired_Newest ==
    LET pinned == {active[r] : r \in Reader} \ {None}
        oldest == IF pinned = {} THEN version ELSE Max(pinned)
    IN  {v \in 0 .. version : v < oldest}

\* The versions whose retired pages no active reader can still reach.
Retired ==
    LET pinned == {active[r] : r \in Reader} \ {None}
        oldest == IF pinned = {} THEN version ELSE Min(pinned)
    IN  {v \in 0 .. version : v < oldest}

\* get_reclaimable_pages removes the retired versions from pending_frees, a
\* dict in the order of the versions, and returns their pages.
Reclaimable ==
    LET retired == DOMAIN pending \cap Retired
    IN  FlattenSeq([i \in 1 .. version |-> IF i - 1 \in retired THEN pending[i - 1] ELSE <<>>])

StillPending == [v \in DOMAIN pending \ Retired |-> pending[v]]

NonePending == [v \in {} |-> <<>>]

-----------------------------------------------------------------------------
(* Opening the file.                                                       *)

NoThread == [pc |-> "idle"]

Init ==
    /\ file = [p \in {0} |-> Blank]
    /\ header = [root |-> 0, head |-> 0]
    /\ version = 0 /\ active = [r \in Reader |-> None] /\ pending = NonePending
    /\ writer = [pc |-> "closed"] /\ reader = [r \in Reader |-> NoThread]
    /\ puts = 0 /\ crashes = 0

\* BTree.__init__ on a file that has a header: the tracker starts afresh.
OpenTree ==
    /\ writer.pc = "closed"
    /\ file[0].kind = "header"
    /\ header' = [root |-> file[0].root, head |-> file[0].head]
    /\ writer' = NoThread
    /\ UNCHANGED <<file, version, active, pending, reader, puts, crashes>>

\* _init_empty_tree writes an empty leaf to a new page ...
CreateRoot ==
    /\ writer.pc = "closed"
    /\ file[0].kind = "blank"
    /\ file' = [GrowFile(file) EXCEPT ![FileSize(file)] = Leaf(<<>>, <<>>)]
    /\ header' = [root |-> FileSize(file), head |-> 0]
    /\ writer' = [pc |-> "createHeader"]
    /\ UNCHANGED <<version, active, pending, reader, puts, crashes>>

\* ... and then the header.
CreateHeader ==
    /\ writer.pc = "createHeader"
    /\ file' = [file EXCEPT ![0] = Header(header.root, header.head)]
    /\ writer' = NoThread
    /\ UNCHANGED <<header, version, active, pending, reader, puts, crashes>>

\* The process dies at any point: the file stays, memory and threads are gone.
Crash ==
    /\ writer.pc # "closed"
    /\ crashes < MaxCrashes
    /\ crashes' = crashes + 1
    /\ header' = [root |-> 0, head |-> 0]
    /\ version' = 0 /\ active' = [r \in Reader |-> None] /\ pending' = NonePending
    /\ writer' = [pc |-> "closed"] /\ reader' = [r \in Reader |-> NoThread]
    /\ UNCHANGED <<file, puts>>

-----------------------------------------------------------------------------
(* put.                                                                    *)

\* What put has in its frames: the ids that are left to add to the free list
\* and the FreeListNode they go to; the internal nodes above the page "next",
\* as they were read; the ids of all pages on the path; the node to write
\* next, its page, and the page of its right half; and what comes after a sync.
Work(k, v) ==
    [pc |-> "addFree", then |-> None, key |-> k, value |-> v, committed |-> FALSE,
     free |-> Reclaimable, list |-> NoList,
     next |-> header.root, above |-> <<>>, orphans |-> <<>>,
     node |-> Blank, new |-> 0, right |-> 0]

\* put takes the lock and collects what the last puts could not give back.
StartPut(k, v) ==
    /\ writer = NoThread
    /\ puts < MaxPuts
    /\ puts' = puts + 1
    /\ pending' = StillPending
    /\ writer' = [Work(k, v) EXCEPT !.pc = IF Reclaimable = <<>> THEN "descend" ELSE "addFree"]
    /\ UNCHANGED <<file, header, version, active, reader, crashes>>

\* Mutant: the head of a new list is published before its page is written.
TakeFreeList_Publishes ==
    /\ writer.pc = "addFree"
    /\ IF header.head = 0
       THEN /\ file' = [GrowFile(file) EXCEPT ![0].head = FileSize(file)]
            /\ header' = [header EXCEPT !.head = FileSize(file)]
            /\ writer' = [writer EXCEPT !.pc = "addPage",
                                        !.list = FreeList(FileSize(file), 0, <<>>)]
       ELSE /\ writer' = [writer EXCEPT !.pc = "addPage",
                                        !.list = ReadFreeList(file, header.head)]
            /\ UNCHANGED <<file, header>>
    /\ UNCHANGED <<version, active, pending, reader, puts, crashes>>

\* add_free_pages takes the head page of the list, or a new one.
TakeFreeList ==
    /\ writer.pc = "addFree"
    /\ IF header.head = 0
       THEN /\ file' = GrowFile(file)
            /\ header' = [header EXCEPT !.head = FileSize(file)]
            /\ writer' = [writer EXCEPT !.pc = "addPage",
                                        !.list = FreeList(FileSize(file), 0, <<>>)]
       ELSE /\ writer' = [writer EXCEPT !.pc = "addPage",
                                        !.list = ReadFreeList(file, header.head)]
            /\ UNCHANGED <<file, header>>
    /\ UNCHANGED <<version, active, pending, reader, puts, crashes>>

\* One round of its loop: a full node is written, and a new one put before it.
\* Growing the file is no access of its own: nothing names the page of zeros.
AddFreePage ==
    /\ writer.pc = "addPage" /\ writer.free # <<>>
    /\ IF Len(writer.list.ids) >= MaxIdsPerPage
       THEN LET new == FileSize(file)
            IN  /\ file' = [GrowFile(file) EXCEPT ![writer.list.id] = writer.list]
                /\ header' = [header EXCEPT !.head = new]
                /\ writer' = [writer EXCEPT !.free = Tail(@),
                                 !.list = FreeList(new, writer.list.id, <<Head(writer.free)>>)]
       ELSE /\ writer' = [writer EXCEPT !.free = Tail(@),
                                        !.list.ids = Append(@, Head(writer.free))]
            /\ UNCHANGED <<file, header>>
    /\ UNCHANGED <<version, active, pending, reader, puts, crashes>>

WriteFreeList ==
    /\ writer.pc = "addPage" /\ writer.free = <<>>
    /\ file' = [file EXCEPT ![writer.list.id] = writer.list]
    /\ writer' = [writer EXCEPT !.pc = "publishHead", !.list = NoList]
    /\ UNCHANGED <<header, version, active, pending, reader, puts, crashes>>

\* Mutant: the head of the list stays in memory.
PublishHead_Forgets ==
    /\ writer.pc = "publishHead"
    /\ writer' = IF writer.committed THEN [writer EXCEPT !.pc = "sync", !.then = "idle"]
                 ELSE [writer EXCEPT !.pc = "descend"]
    /\ UNCHANGED <<file, header, version, active, pending, reader, puts, crashes>>

\* Before the commit put goes on without a sync; after it that is the last step.
PublishHead ==
    /\ writer.pc = "publishHead"
    /\ file' = [file EXCEPT ![0].head = header.head]
    /\ writer' = IF writer.committed THEN [writer EXCEPT !.pc = "sync", !.then = "idle"]
                 ELSE [writer EXCEPT !.pc = "descend"]
    /\ UNCHANGED <<header, version, active, pending, reader, puts, crashes>>

\* sync, behind a head that was published (the syncs around publish_root are
\* part of CommitRoot and CommitWrite, which touch no page).
SyncHead ==
    /\ writer.pc = "sync"
    /\ writer' = IF writer.then = "idle" THEN NoThread
                 ELSE [writer EXCEPT !.pc = writer.then, !.then = None]
    /\ UNCHANGED <<file, header, version, active, pending, reader, puts, crashes>>

\* An exception leaves put: the lock is released, and the pages it has
\* allocated are in no list any more.
PutRaises == writer' = NoThread

\* _put_recursive on its way down.
Descend ==
    /\ writer.pc = "descend"
    /\ LET n == ReadPage(file, writer.next)
           w == [writer EXCEPT !.orphans = Append(@, writer.next)]
       IN  IF n.kind = "leaf"
           THEN writer' = [w EXCEPT !.pc = "allocate", !.node = UpsertLeaf(n, w.key, w.value)]
           ELSE IF n.kind = "internal"
           THEN writer' = [w EXCEPT !.next = ChildFor(n, w.key), !.above = Append(@, n)]
           ELSE PutRaises
    /\ UNCHANGED <<file, header, version, active, pending, reader, puts, crashes>>

\* _put_recursive on its way up: put goes on with the parent of what it has
\* copied, or with the new root.
GoUp(child) ==
    writer' =
        IF writer.above # <<>>
        THEN [writer EXCEPT !.pc = "allocate", !.above = Front(@),
                            !.node = AdoptChild(Last(writer.above), writer.key, child)]
        ELSE IF child.key # None
        THEN [writer EXCEPT !.pc = "allocateRoot",
                            !.node = Internal(<<child.key>>, <<child.id, child.right>>)]
        ELSE [writer EXCEPT !.pc = "commitRoot", !.node = Blank, !.new = child.id]

Whole(id) == [id |-> id, key |-> None, right |-> 0]

\* put holds the page that AllocatePage gave it and goes on; allocate syncs
\* first if it has published a new head.
GoOn(w, a, pc) ==
    writer' = IF a.head = header.head THEN [w EXCEPT !.pc = pc]
              ELSE [w EXCEPT !.pc = "sync", !.then = pc]

AllocateNode ==
    /\ writer.pc \in {"allocate", "allocateRoot"}
    /\ LET a == AllocatePage(file, header.head)
       IN  /\ file' = a.file
           /\ header' = [header EXCEPT !.head = a.head]
           /\ GoOn([writer EXCEPT !.new = a.id], a,
                   IF writer.pc = "allocate" THEN "write" ELSE "writeRoot")
    /\ UNCHANGED <<version, active, pending, reader, puts, crashes>>

WriteNode ==
    /\ writer.pc = "write" /\ ~TooLarge(writer.node)
    /\ file' = [file EXCEPT ![writer.new] = writer.node]
    /\ GoUp(Whole(writer.new))
    /\ UNCHANGED <<header, version, active, pending, reader, puts, crashes>>

\* _split_leaf and _split_internal raise an IndexError for a single entry, ...
SplitNode ==
    /\ writer.pc = "write" /\ TooLarge(writer.node)
    /\ IF SplitHasNoKey(Base(writer.node), EntrySizesOf(writer.node))
       THEN PutRaises /\ UNCHANGED <<file, header>>
       ELSE LET a == AllocatePage(file, header.head)
            IN  /\ file' = a.file
                /\ header' = [header EXCEPT !.head = a.head]
                /\ GoOn([writer EXCEPT !.right = a.id], a, "writeLeft")
    /\ UNCHANGED <<version, active, pending, reader, puts, crashes>>

\* ... and write_page raises a ValueError for a half that is too large.
WriteLeft ==
    /\ writer.pc = "writeLeft"
    /\ IF TooLarge(LeftNode(writer.node)) THEN PutRaises /\ UNCHANGED file
       ELSE /\ file' = [file EXCEPT ![writer.new] = LeftNode(writer.node)]
            /\ writer' = [writer EXCEPT !.pc = "writeRight"]
    /\ UNCHANGED <<header, version, active, pending, reader, puts, crashes>>

\* Mutant: the size of the right half is not checked.
WriteRight_Unchecked ==
    /\ writer.pc = "writeRight"
    /\ file' = [file EXCEPT ![writer.right] = RightNode(writer.node)]
    /\ GoUp([id |-> writer.new, key |-> SplitKey(writer.node), right |-> writer.right])
    /\ UNCHANGED <<header, version, active, pending, reader, puts, crashes>>

WriteRight ==
    /\ writer.pc = "writeRight"
    /\ IF TooLarge(RightNode(writer.node)) THEN PutRaises /\ UNCHANGED file
       ELSE /\ file' = [file EXCEPT ![writer.right] = RightNode(writer.node)]
            /\ GoUp([id |-> writer.new, key |-> SplitKey(writer.node), right |-> writer.right])
    /\ UNCHANGED <<header, version, active, pending, reader, puts, crashes>>

\* The super-root is written without a look at its size.
WriteRoot ==
    /\ writer.pc = "writeRoot"
    /\ IF TooLarge(writer.node) THEN PutRaises /\ UNCHANGED file
       ELSE /\ file' = [file EXCEPT ![writer.new] = writer.node]
            /\ writer' = [writer EXCEPT !.pc = "commitRoot", !.node = Blank]
    /\ UNCHANGED <<header, version, active, pending, reader, puts, crashes>>

\* Gets see the put from here on.
CommitRoot ==
    /\ writer.pc = "commitRoot"
    /\ header' = [header EXCEPT !.root = writer.new]
    /\ writer' = [writer EXCEPT !.pc = "publishRoot"]
    /\ UNCHANGED <<file, version, active, pending, reader, puts, crashes>>

PublishRoot ==
    /\ writer.pc = "publishRoot"
    /\ file' = [file EXCEPT ![0].root = header.root]
    /\ writer' = [writer EXCEPT !.pc = "commitWrite", !.committed = TRUE]
    /\ UNCHANGED <<header, version, active, pending, reader, puts, crashes>>

CommitWrite ==
    /\ writer.pc = "commitWrite"
    /\ pending' = [v \in DOMAIN pending \cup {version} |->
                      IF v = version THEN writer.orphans ELSE pending[v]]
    /\ version' = version + 1
    /\ writer' = [writer EXCEPT !.pc = "reclaim"]
    /\ UNCHANGED <<file, header, active, reader, puts, crashes>>

\* get_reclaimable_pages once more: put returns if there are none.
ReclaimAtOnce ==
    /\ writer.pc = "reclaim"
    /\ pending' = StillPending
    /\ writer' = IF Reclaimable = <<>> THEN NoThread
                 ELSE [writer EXCEPT !.pc = "addFree", !.free = Reclaimable]
    /\ UNCHANGED <<file, header, version, active, reader, puts, crashes>>

-----------------------------------------------------------------------------
(* get.                                                                    *)

IsOpen == writer.pc \notin {"closed", "createHeader"}

BeginRead(r, k) ==
    /\ IsOpen
    /\ reader[r] = NoThread
    /\ active' = [active EXCEPT ![r] = version]
    /\ reader' = [reader EXCEPT ![r] = [pc |-> "begun", key |-> k]]
    /\ UNCHANGED <<file, header, version, pending, writer, puts, crashes>>

\* The root is read after the version was pinned, so it may be a later one.
ReadRoot(r) ==
    /\ reader[r].pc = "begun"
    /\ reader' = [reader EXCEPT ![r] = [pc |-> "walking", key |-> @.key, page |-> header.root]]
    /\ UNCHANGED <<file, header, version, active, pending, writer, puts, crashes>>

\* _get_recursive: a page that is no node of a tree raises a ValueError.
Walk(r) ==
    /\ reader[r].pc = "walking"
    /\ LET n == ReadPage(file, reader[r].page)
           k == reader[r].key
       IN  reader' = [reader EXCEPT ![r] =
             IF n.kind = "internal" THEN [@ EXCEPT !.page = ChildFor(n, k)]
             ELSE [pc |-> "found",
                   value |-> IF n.kind = "leaf" THEN ValueIn(n, k) ELSE "corrupt"]]
    /\ UNCHANGED <<file, header, version, active, pending, writer, puts, crashes>>

EndRead(r) ==
    /\ reader[r].pc = "found"
    /\ active' = [active EXCEPT ![r] = None]
    /\ reader' = [reader EXCEPT ![r] = NoThread]
    /\ UNCHANGED <<file, header, version, pending, writer, puts, crashes>>

-----------------------------------------------------------------------------
PutStep ==
    \/ \E k \in Key, v \in Value : StartPut(k, v)
    \/ TakeFreeList \/ AddFreePage \/ WriteFreeList \/ PublishHead \/ SyncHead
    \/ Descend \/ AllocateNode \/ WriteNode \/ SplitNode \/ WriteLeft \/ WriteRight
    \/ WriteRoot \/ CommitRoot \/ PublishRoot \/ CommitWrite \/ ReclaimAtOnce

GetStep(r) == (\E k \in Key : BeginRead(r, k)) \/ ReadRoot(r) \/ Walk(r) \/ EndRead(r)

Next ==
    \/ OpenTree \/ CreateRoot \/ CreateHeader \/ Crash
    \/ PutStep
    \/ \E r \in Reader : GetStep(r)

Spec == Init /\ [][Next]_vars
-----------------------------------------------------------------------------
(* Properties.                                                             *)

Children(f, p) == IF ReadPage(f, p).kind = "internal" THEN f[p].children ELSE <<>>

\* The pages at depth d of the tree at root, from left to right.
Level(f, root) ==
    LET level[d \in Nat] ==
            IF d = 0 THEN <<root>>
            ELSE LET up == level[d - 1]
                 IN  FlattenSeq([i \in DOMAIN up |-> Children(f, up[i])])
    IN  level

\* What is reached from the pages in start: links[p] are the pages that p
\* names, and size is the number of pages that name any.
Reached(links, start, size) ==
    LET reached[n \in Nat] ==
            [todo \in SUBSET Nat |-> [seen \in SUBSET Nat |->
                IF n = 0 \/ todo = {} THEN seen
                ELSE LET next == UNION {links[p] : p \in todo}
                     IN  reached[n - 1][next \ (seen \cup todo)][seen \cup todo]]]
    IN  reached[1 + size][start][{}]

TreeLinks(f) == [p \in Nat |-> ToSet(Children(f, p))]

TreePages(f, root) == Reached(TreeLinks(f), {root}, FileSize(f))

\* The pages that hold the free list from head on.
ListLinks(f) == [p \in Nat |-> {ReadFreeList(f, p).next} \ {0}]

ListPages(f, head) == Reached(ListLinks(f), {head} \ {0}, FileSize(f))

FreeIds(f, head) == UNION {ToSet(ReadFreeList(f, p).ids) : p \in ListPages(f, head)}

\* The free list names every page once, and none of its own pages, of the
\* tree's or of the header.
ListIsDisjoint(f, root, head) ==
    LET list == ListPages(f, head)
        used == {0} \cup list \cup TreePages(f, root)
        ids(p) == ReadFreeList(f, p).ids
    IN  /\ FreeIds(f, head) \cap used = {}
        /\ list \cap TreePages(f, root) = {}
        /\ \A p, q \in list : \A i \in DOMAIN ids(p), j \in DOMAIN ids(q) :
              ids(p)[i] = ids(q)[j] => p = q /\ i = j

\* put is at pc, or syncs before it.
PutIsAt(pc) == writer.pc = pc \/ (writer.pc = "sync" /\ writer.then = pc)

PendingPages == UNION {ToSet(pending[v]) : v \in DOMAIN pending}

\* The value of k in the tree at page p, as a get that has p next will find it.
Lookup(f, page, k) ==
    LET found[d \in 0 .. FileSize(f)] ==
            [p \in 0 .. FileSize(f) |->
                LET n == ReadPage(f, p)
                IN  IF n.kind = "leaf" THEN ValueIn(n, k)
                    ELSE IF n.kind = "internal" /\ d > 0 THEN found[d - 1][ChildFor(n, k)]
                    ELSE "corrupt"]
    IN  found[FileSize(f)][page]

\* Types: whatever is stored is a node that its page can hold.
TypeOK ==
    /\ DOMAIN file = 0 .. (FileSize(file) - 1)
    /\ \A p \in DOMAIN file :
          CASE file[p].kind = "header" -> p = 0 /\ {file[p].root, file[p].head} \subseteq DOMAIN file
            [] file[p].kind \in {"leaf", "internal"} -> p # 0 /\ ~TooLarge(file[p])
            [] file[p].kind = "freelist" ->
                  /\ p # 0 /\ file[p].id = p /\ file[p].next \in DOMAIN file
                  /\ Len(file[p].ids) <= MaxIdsPerPage /\ ToSet(file[p].ids) \subseteq DOMAIN file
            [] file[p].kind = "blank" -> TRUE
    /\ header.root \in DOMAIN file \cup {0} /\ header.head \in DOMAIN file \cup {0}
    /\ version \in 0 .. MaxPuts
    /\ \A r \in Reader : active[r] \in 0 .. version \cup {None}
    /\ \A r \in Reader : (active[r] = None) = (reader[r] = NoThread)
    /\ PendingPages \subseteq DOMAIN file

\* The tree that gets see is a search tree: all leaves at one depth, every
\* internal node with a child more than keys, and the keys of the leaves
\* ascending from left to right, each once.
SearchTree ==
    IsOpen =>
        \E d \in 0 .. FileSize(file) :
            LET Nodes(e) == Level(file, header.root)[e]
                Page(e, i) == ReadPage(file, Nodes(e)[i])
                keys == FlattenSeq([i \in DOMAIN Nodes(d) |-> Page(d, i).keys])
            IN  /\ \A e \in 0 .. (d - 1) : \A i \in DOMAIN Nodes(e) :
                      /\ Page(e, i).kind = "internal"
                      /\ Len(Page(e, i).children) = Len(Page(e, i).keys) + 1
                /\ \A i \in DOMAIN Nodes(d) : Page(d, i).kind = "leaf"
                /\ \A i, j \in DOMAIN keys : i < j => keys[i] < keys[j]

\* No page that a get may still have to read, or that the tree or a retired
\* version holds, is in the free list or in the hands of put, whatever
\* versions the other gets pin.
NoPageReusedEarly ==
    IsOpen =>
        LET gets == UNION {TreePages(file, reader[r].page) :
                              r \in {q \in Reader : reader[q].pc = "walking"}}
            kept == TreePages(file, header.root) \cup gets
        IN  /\ ListIsDisjoint(file, header.root, header.head)
            /\ gets \cap (FreeIds(file, header.head) \cup ListPages(file, header.head)) = {}
            /\ PendingPages \cap FreeIds(file, header.head) = {}
            /\ (\E pc \in {"write", "writeLeft", "writeRight", "writeRoot"} : PutIsAt(pc)) =>
                  {writer.new, writer.right} \cap (kept \cup PendingPages) = {}

\* At every instant the file on its own holds a tree, all of whose pages are
\* nodes, and a free list, all of whose pages are pages of a list, apart from
\* it: a process that is killed there leaves nothing to repair.  There is no
\* header until a tree has been created, and from then on it is kept.
FileIsRecoverable ==
    IF file[0].kind = "header"
    THEN /\ \A p \in TreePages(file, file[0].root) : ReadPage(file, p).kind \in {"leaf", "internal"}
         /\ \A p \in ListPages(file, file[0].head) : ReadPage(file, p).kind = "freelist"
         /\ ListIsDisjoint(file, file[0].root, file[0].head)
    ELSE file[0] = Blank /\ ~IsOpen

-----------------------------------------------------------------------------
(* The store is one map for gets, and one for whoever opens the file.      *)

Contents(root) == [k \in Key |-> Lookup(file, root, k)]

InFile == IF file[0].kind = "header" THEN Contents(file[0].root) ELSE [k \in Key |-> None]

InMemory == IF IsOpen THEN Contents(header.root) ELSE InFile

PutCall ==
    IF writer.pc \in {"idle", "closed", "createHeader"} THEN [pc |-> "none"]
    ELSE IF writer.committed THEN [pc |-> "persisted"]
    ELSE IF writer.pc = "publishRoot" THEN [pc |-> "effective"]
    ELSE [pc |-> "called", key |-> writer.key, value |-> writer.value]

GetCall(r) ==
    CASE reader[r].pc = "begun" -> [pc |-> "called", key |-> reader[r].key]
      [] reader[r].pc = "walking" ->
            [pc |-> "effective", value |-> Lookup(file, reader[r].page, reader[r].key)]
      [] reader[r].pc = "found" -> [pc |-> "effective", value |-> reader[r].value]
      [] OTHER -> [pc |-> "none"]

GetCalls == [r \in Reader |-> GetCall(r)]

KV == INSTANCE KVStore WITH
    durable <- InFile, store <- InMemory, put <- PutCall, get <- GetCalls

\* Every get returns what its key had at one instant of the get, every put
\* takes effect at once or not at all and is in the file before it returns,
\* and a crash keeps what was in the file.
ImplementsKVStore == KV!Spec

-----------------------------------------------------------------------------
(* Pages go through the hands of put, versions and the list in turn.       *)

TreeInFile == IF file[0].kind = "header" THEN TreePages(file, file[0].root) ELSE {}

TreeInMemory == IF writer.pc = "closed" THEN TreeInFile ELSE TreePages(file, header.root)

\* The file with what put has added to the page of the list that it is still
\* to write.
WithAdded ==
    IF writer.pc = "addPage" THEN [file EXCEPT ![writer.list.id] = writer.list] ELSE file

\* The list that put goes on from, or whoever opens the file.
FreePages ==
    LET head == IF writer.pc # "closed" THEN header.head
                ELSE IF file[0].kind = "header" THEN file[0].head ELSE 0
    IN  FreeIds(WithAdded, head) \cup ListPages(WithAdded, head)

\* Until it commits, put holds the copies it has made; and it holds the ids
\* that are left to add to the list.
HandPages ==
    IF writer.pc \in {"idle", "closed", "createHeader"} THEN {}
    ELSE LET children == IF writer.node.kind = "internal" THEN ToSet(writer.node.children) ELSE {}
             copies == {writer.new, writer.right} \cup UNION {TreePages(file, p) : p \in children}
             root == IF PutIsAt("commitRoot") THEN TreePages(file, writer.new) ELSE {}
         IN  ToSet(writer.free) \cup ((copies \cup root) \ ({0} \cup TreeInMemory))

\* What the commit of the put has taken out of the tree and is still to retire.
CommittedOrphans ==
    IF writer.pc \in {"publishRoot", "commitWrite"} THEN ToSet(writer.orphans) ELSE {}

RetiredAs ==
    [p \in PendingPages |-> CHOOSE v \in DOMAIN pending : p \in ToSet(pending[v])]

ReadingPages ==
    [r \in Reader |-> IF reader[r].pc = "walking" THEN TreePages(file, reader[r].page) ELSE {}]

Pages == INSTANCE PageVersions WITH
    tree <- TreeInMemory, saved <- TreeInFile, free <- FreePages, hand <- HandPages,
    orphans <- CommittedOrphans, retired <- RetiredAs, reading <- ReadingPages

\* Every step of put, get and a crash moves pages as PageVersions allows.
ImplementsPageVersions == Pages!Spec

\* The pages that nothing in memory or in the file leads to any more.
Lost ==
    DOMAIN file \ ({0} \cup TreeInMemory \cup FreePages \cup HandPages
                      \cup CommittedOrphans \cup PendingPages)

\* What only memory knows: the retired versions, what put has in hand, a root
\* that is still to be published, and while put adds to the list, what the
\* list in the file does not have yet.
OnlyInMemory ==
    PendingPages \cup HandPages \cup CommittedOrphans
        \cup (IF writer.pc \in {"createHeader", "publishRoot"} THEN TreeInMemory ELSE {})
        \cup (IF writer.pc \in {"addPage", "publishHead"} THEN FreePages ELSE {})

\* Space is reused, the file does not leak: a page is lost only when a put
\* raises, and then only what that put had in hand, or when the process is
\* killed, and then only what the file need not have known.
LostByFailureOnly ==
    [][\/ Lost' \subseteq Lost
       \/ writer'.pc = "closed" /\ Lost' \subseteq Lost \cup OnlyInMemory
       \/ /\ writer' = NoThread /\ ~writer.committed
          /\ Lost' \subseteq Lost \cup HandPages]_vars

=============================================================================
