--------------------------- MODULE PowerLossProofs --------------------------
(***************************************************************************)
(* What the disk keeps when the power fails, for every size of pages, any  *)
(* keys and values, any number of gets, puts and power failures, and any   *)
(* order in which pages are written back: the list on the disk hands out   *)
(* no page of the tree on the disk, and PowerLoss implements KVStore.  The *)
(* power fails only while the list on the disk is whole (WholeSpec).       *)
(*                                                                         *)
(* A page of the list on the disk is as memory or an earlier write had it, *)
(* so that the list on the disk is none that put ever held.  DiskInv bounds*)
(* it by a set of pages, ListsOnDisk, that is closed under all versions of *)
(* their links at once, and says of the root on the disk that it is that   *)
(* of a new file, of the file, or the one before it (RootOK).  A file of   *)
(* which only the header has reached the disk is DeadFile: it is opened,   *)
(* and then every put raises.                                              *)
(***************************************************************************)
EXTENDS CowStoreProofs, PowerLoss

-----------------------------------------------------------------------------
(* What the disk has, if the power fails only while its list is whole.     *)

\* The pages of the tree on the disk, and the head of its list.
TreeOnDisk == IF disk[0].kind = "header" THEN TreePages(disk, disk[0].root) ELSE {}

HeadOnDisk == IF disk[0].kind = "header" THEN disk[0].head ELSE 0

\* The pages of trees and versions, and those that are to go to the list.
InUse == TreeInMemory \cup TreeInFile \cup CommittedOrphans \cup PendingPages

\* What put is still to add to the list.
FreedPages == IF writer \in NoWork THEN {} ELSE ToSet(writer.free)

\* What no list may name, whichever versions of its pages the disk has.
Barred == {0} \cup TreeOnDisk \cup InUse \cup FreedPages

\* A page of the list on the disk may be as any of these has it, and so may its head.
Versions == {disk, file, WithAdded}

Heads == {HeadOnDisk, SavedHead, MemHead}

\* The ids that one of the files F has on page q.
Listed(F, q) == UNION {ToSet(IdsOf(f, q)) : f \in F}

\* S has the pages of the lists with the heads H, in each of the files F: the
\* next page is in S, and an id is named by one of them, once, and none of
\* them is barred.
ListsApart(S, F, H, B) ==
    /\ H \subseteq S \cup {0} /\ S \cap B = {}
    /\ \A q \in S : \A f \in F : Nexts(f, q) \subseteq S /\ Distinct(IdsOf(f, q))
    /\ \A q \in S : Listed(F, q) \cap (S \cup B) = {}
    /\ \A q, r \in S : q # r => Listed(F, q) \cap Listed(F, r) = {}

\* The pages of the list since the last sync.
ListsOnDisk(S) == S \subseteq Ids(file) /\ ListsApart(S, Versions, Heads, Barred)

\* A page of the list is newer than those behind it.
Downhill(f) == \A q \in Ids(f) : \A n \in Nexts(f, q) : n < q

\* The file has no header yet, ...
NoRoot ==
    /\ file[0] = Blank /\ disk[0] = Blank
    /\ writer.pc \in {"closed", "createHeader"} /\ version = 0 /\ pending = NonePending
    /\ writer.pc = "createHeader" =>
          file[header.root] = Leaf(<<>>, <<>>) /\ disk[header.root] \in {Blank, file[header.root]}

\* ... or no put has committed, and the header or the root may be missing, ...
Young ==
    /\ file[0].kind = "header" /\ file[0].head = 0 /\ disk[0] \in {Blank, file[0]}
    /\ file[file[0].root] = Leaf(<<>>, <<>>) /\ disk[file[0].root] \in {Blank, file[file[0].root]}
    /\ version = 0 /\ pending = NonePending
    /\ writer \in NoWork \/ (~writer.committed /\ At(writer) \in {"descend", "commitRoot"} \cup Upward)

\* ... or the disk has the tree that the file has, ...
Settled ==
    /\ writer.pc \notin {"publishRoot", "commitWrite"} /\ file[0].kind = "header"
    /\ disk[0].kind = "header" /\ disk[0].root = file[0].root
    /\ IsTree(disk, disk[0].root) /\ Keeps(disk, file, TreeOnDisk)

\* ... or all pages have been synced, and the disk has this or the last root.
Published ==
    /\ writer.pc \in {"publishRoot", "commitWrite"}
    /\ disk[0].kind = "header" /\ IsTree(disk, disk[0].root)
    /\ \A p \in Ids(file) : disk[p] = file[p]

\* What the root on the disk is.
RootOK == NoRoot \/ Young \/ Settled \/ Published

\* The inductive invariant, beside that of CowBTree.
DiskInv ==
    /\ FileOK(disk) /\ DOMAIN disk = DOMAIN file
    /\ Downhill(disk) /\ Downhill(file) /\ Downhill(WithAdded)
    /\ RootOK
    /\ \E S : ListsOnDisk(S)

\* The header of a new file was written back before the power failed, and its
\* root was not: nobody can put or get anything any more.
DeadFile ==
    /\ FileOK(file) /\ FileOK(disk) /\ DOMAIN disk = DOMAIN file /\ \A p \in DOMAIN file : disk[p] = file[p]
    /\ file[0].kind = "header" /\ file[0].head = 0 /\ file[file[0].root] = Blank
    /\ version = 0 /\ pending = NonePending
    /\ writer.pc \in {"closed", "idle", "descend"}
    /\ writer.pc = "idle" => writer = NoThread
    /\ writer.pc = "descend" => writer.next = file[0].root /\ ~writer.committed
    /\ writer.pc # "closed" => header.root = file[0].root

\* A page of zeros names no page.
LEMMA NotAList ==
  ASSUME NEW f, NEW q, ReadPage(f, q).kind # "freelist"
  PROVE  IdsOf(f, q) = <<>> /\ ToSet(IdsOf(f, q)) = {} /\ Nexts(f, q) = {} /\ Distinct(IdsOf(f, q))
<1>1. ReadFreeList(f, q) = NoList
  BY DEF ReadFreeList
<1>2. IdsOf(f, q) = <<>> /\ Nexts(f, q) = {}
  BY <1>1 DEF IdsOf, Nexts, NoList, FreeList
<1> QED BY <1>2 DEF ToSet, Distinct

\* A list that leads to older pages only is one, if none of them is missing.
LEMMA DownhillList ==
  ASSUME NEW f, FileOK(f), Downhill(f), NEW S, S \subseteq Ids(f),
         \A q \in S : Nexts(f, q) \subseteq S, NEW h \in S \cup {0}
  PROVE  /\ ListPages(f, h) \subseteq S
         /\ (\A p \in ListPages(f, h) : f[p].kind = "freelist") => IsList(f, h)
<1> DEFINE Whole0(k) == \A p \in ListPages(f, k) : f[p].kind = "freelist"
<1>1. S \in SUBSET Nat /\ S \subseteq Nat
  BY FileSizeIs DEF Ids
<1>2. ASSUME NEW k \in S PROVE ListPages(f, k) \subseteq {q \in S : q <= k}
  <2>0. k \in Nat /\ k <= k
    BY <1>1
  <2> DEFINE R == {q \in S : q <= k}
  <2>1. R \in SUBSET Nat /\ k \in R
    BY <1>1, <2>0
  <2>2. \A q \in R : ListLinks(f)[q] \subseteq R
    <3>1. \A q \in R : ListLinks(f)[q] = Nexts(f, q) /\ Nexts(f, q) \subseteq S
      BY <1>1, ListLinksAre
    <3>2. \A q \in R : \A n \in Nexts(f, q) : n < q
      BY DEF Downhill
    <3>3. ASSUME NEW q \in R, NEW n \in Nexts(f, q) PROVE n \in R
      <4>1. n \in S /\ n < q /\ q <= k /\ n \in Nat /\ q \in Nat /\ k \in Nat
        BY <1>1, <3>1, <3>2, <3>3
      <4> QED BY <4>1
    <3> QED BY <3>1, <3>3
  <2>3. IsReach(ListLinks(f), {k}, ListPages(f, k))
    BY <1>2, ListIsReach
  <2> HIDE DEF R
  <2>4. ListPages(f, k) \subseteq R
    BY <2>1, <2>2, <2>3 DEF IsReach, Closed
  <2> QED BY <2>4 DEF R
<1>3. ListPages(f, h) \subseteq S
  BY <1>2, ListOfNone
<1>4. ASSUME Whole0(h) PROVE IsList(f, h)
  <2> DEFINE bad == {k \in S : Whole0(k) /\ ~IsList(f, k)}
  <2> SUFFICES ASSUME bad # {} PROVE FALSE
    BY <1>4 DEF IsList
  <2>1. bad \in SUBSET Nat
    BY <1>1
  <2>2. PICK k \in bad : \A n \in bad : k <= n
    <3> HIDE DEF bad
    <3> QED BY <2>1, NatSetHasMin
  <2>3. k \in S /\ k \in Ids(f) /\ k \in Nat /\ Whole0(k) /\ k \in ListPages(f, k)
    BY <1>1, ListBasics
  <2>4. f[k].kind = "freelist" /\ ReadFreeList(f, k) = f[k]
    BY <2>3, ReadIs DEF Ids
  <2> DEFINE n == f[k].next
  <2>5. n \in Ids(f) \cup {0} /\ ListPages(f, k) = {k} \cup ListPages(f, n)
    BY <2>3, <2>4, ReadIs, ListSplits
  <2>6. n # 0 => n \in Nexts(f, k) /\ n \in S /\ n < k
    BY <2>3, <2>4 DEF Nexts, Downhill
  <2>7. IsList(f, n) /\ k \notin ListPages(f, n)
    <3>1. CASE n = 0
      BY <3>1, ListOfNone DEF IsList
    <3>2. CASE n # 0
      <4>1. Whole0(n) /\ n \in S /\ n < k /\ n \in Nat
        BY <1>1, <2>3, <2>5, <2>6, <3>2
      <4>2. n \notin bad
        BY <2>2, <2>3, <4>1
      <4>3. k \notin ListPages(f, n)
        BY <1>2, <2>3, <4>1
      <4> QED BY <4>1, <4>2, <4>3
    <3> QED BY <3>1, <3>2
  <2>8. IsList(f, k)
    BY <2>3, <2>4, <2>7, ListAbove
  <2> QED BY <2>8
<1> QED BY <1>3, <1>4

\* One more page h may come to the list, and the ids X to it or to the head h.
Follows(S, F, T, G, h, X) ==
    /\ T = S \cup ({h} \ {0})
    /\ \A q \in T : \A g \in G : Nexts(g, q) \subseteq T /\ Distinct(IdsOf(g, q))
    /\ \A q \in T : Listed(G, q) \subseteq (IF q \in S THEN Listed(F, q) ELSE {})
                                              \cup (IF q = h THEN X ELSE {})

\* No other page of P gets barred, and none that goes to the list.
StillBarred(P, B, C, h, X) ==
    X \subseteq B \cap P /\ C \cap X = {} /\ C \cap P \subseteq B /\ (h = 0 \/ h \notin C)

\* A step adds to the set of pages the page h, with the ids X of pages that were barred
\* until then; C is barred afterwards, and nothing else changes for pages of P.
LEMMA ListsStep ==
  ASSUME NEW P, NEW S, NEW F, NEW H, NEW B, ListsApart(S, F, H, B),
         S \subseteq P, \A q : Listed(F, q) \subseteq P,
         NEW h, h \in S \cup {0} \/ h \notin P, NEW X, NEW T, NEW G, Follows(S, F, T, G, h, X),
         NEW C, StillBarred(P, B, C, h, X), NEW K, K \subseteq T \cup {0}
  PROVE  ListsApart(T, G, K, C)
<1> USE DEF Follows, StillBarred
<1>1. S \cap C = {} /\ T \cap C = {} /\ X \cap T = {}
  BY DEF ListsApart
<1>2. \A q \in S : Listed(F, q) \cap (T \cup C \cup X) = {}
  BY DEF ListsApart
<1>3. \A q \in T : Listed(G, q) \cap (T \cup C) = {}
  BY <1>1, <1>2
<1>4. ASSUME NEW q \in T, NEW r \in T, q # r PROVE Listed(G, q) \cap Listed(G, r) = {}
  <2>1. q \in S /\ r \in S => Listed(F, q) \cap Listed(F, r) = {}
    BY <1>4 DEF ListsApart
  <2> QED BY <1>2, <1>4, <2>1
<1> QED BY <1>1, <1>3, <1>4 DEF ListsApart

-----------------------------------------------------------------------------
(* A step that writes to the map only.                                     *)

\* Types of the three versions of the file.
LEMMA DiskTypes ==
  ASSUME BothInv, DiskInv
  PROVE  /\ FileOK(file) /\ FileOK(WithAdded) /\ FileOK(disk)
         /\ DOMAIN disk = DOMAIN file /\ DOMAIN WithAdded = DOMAIN file
         /\ \A q : Listed(Versions, q) \subseteq Ids(file)
         /\ disk[0].kind = "header" => disk[0] \in Headers(Ids(file))
<1>1. FileOK(file) /\ FileOK(WithAdded) /\ DOMAIN WithAdded = DOMAIN file
  BY AddedIs DEF BothInv, CowInv
<1>2. FileOK(disk) /\ DOMAIN disk = DOMAIN file
  BY DEF DiskInv
<1>3. \A f \in Versions : FileOK(f) /\ Ids(f) = Ids(file)
  BY <1>1, <1>2 DEF Versions, Ids
<1>4. ASSUME NEW q PROVE Listed(Versions, q) \subseteq Ids(file)
  <2> SUFFICES ASSUME NEW f \in Versions PROVE ToSet(IdsOf(f, q)) \subseteq Ids(file)
    BY DEF Listed
  <2>1. IdsOf(f, q) \in Seq(Ids(file))
    BY <1>3, ReadIs
  <2> QED BY <2>1 DEF ToSet
<1>5. disk[0].kind = "header" => disk[0] \in Headers(Ids(file))
  BY <1>2, FileSizeIs, KindOf DEF Ids
<1> QED BY <1>1, <1>2, <1>4, <1>5

\* What the file has on a page of the list, but for what it names last, it had
\* before the step, or the page is new or is none of the list's.
LikeBefore(f, q) ==
    ReadFreeList(f, q) \in {ReadFreeList(disk, q), ReadFreeList(file, q),
                            ReadFreeList(WithAdded, q), NoList}

\* Page h, the head, may lose an id or get the ids X.
FitsBefore(f, h, S, X) ==
    /\ Nexts(f, h) \subseteq S /\ \A n \in Nexts(f, h) : n < h
    /\ Distinct(IdsOf(f, h)) /\ ToSet(IdsOf(f, h)) \subseteq Listed(Versions, h) \cup X

\* Such a page names the same pages as one of the versions does, or none.
LEMMA LikeIs ==
  ASSUME NEW f, NEW q, LikeBefore(f, q)
  PROVE  \/ Nexts(f, q) = {} /\ IdsOf(f, q) = <<>>
         \/ \E g \in Versions : Nexts(f, q) = Nexts(g, q) /\ IdsOf(f, q) = IdsOf(g, q)
<1>1. NoList.next = 0 /\ NoList.ids = <<>>
  BY DEF NoList, FreeList
<1> QED BY <1>1 DEF LikeBefore, Versions, Nexts, IdsOf

\* A step on the map changes no page of the disk.
LEMMA DiskIsLike ==
  ASSUME BothInv, DiskInv, disk' = Unsynced, DOMAIN file \subseteq DOMAIN file'
  PROVE  /\ DOMAIN disk' = DOMAIN file' /\ \A q \in DOMAIN disk : disk'[q] = disk[q]
         /\ \A q : LikeBefore(disk', q)
<1>1. DOMAIN disk = DOMAIN file
  BY DEF DiskInv
<1>2. DOMAIN disk' = DOMAIN file' /\ \A q \in DOMAIN disk : disk'[q] = disk[q]
  BY <1>1 DEF Unsynced
<1>3. ASSUME NEW q PROVE LikeBefore(disk', q)
  <2>1. CASE q \in DOMAIN disk
    <3>1. q \in DOMAIN disk' /\ disk'[q] = disk[q]
      BY <1>1, <1>2, <2>1
    <3>2. ReadFreeList(disk', q) = ReadFreeList(disk, q)
      BY <2>1, <3>1, ReadSame
    <3> QED BY <3>2 DEF LikeBefore
  <2>2. CASE q \notin DOMAIN disk
    <3>1. q \in DOMAIN disk' => disk'[q] = Blank
      BY <2>2 DEF Unsynced
    <3>2. ReadPage(disk', q).kind # "freelist"
      BY <3>1 DEF ReadPage, Blank
    <3> QED BY <3>2 DEF LikeBefore, ReadFreeList
  <2> QED BY <2>1, <2>2
<1> QED BY <1>2, <1>3

\* ... and so it changes neither the tree nor the head on the disk.
LEMMA DiskFileOK ==
  ASSUME BothInv, DiskInv, disk' = Unsynced, DOMAIN file \subseteq DOMAIN file', FileOK(file')
  PROVE  FileOK(disk') /\ TreeOnDisk' = TreeOnDisk /\ HeadOnDisk' = HeadOnDisk
         /\ \A c \in Ids(disk) : TreePages(disk', c) \subseteq Ids(disk')
<1>1. /\ FileOK(disk) /\ DOMAIN disk = DOMAIN file /\ DOMAIN disk' = DOMAIN file'
      /\ \A q \in DOMAIN disk : disk'[q] = disk[q]
  BY DiskIsLike, DiskTypes
<1>2. FileOK(disk')
  <2>1. PICK n \in Nat : DOMAIN file' = 0 .. n
    BY DEF FileOK
  <2>2. 0 \in DOMAIN disk
    BY <1>1, FileSizeIs
  <2>3. ASSUME NEW p \in Ids(disk') PROVE (p \in Ids(disk) /\ disk'[p] = disk[p]) \/ PageOK(disk', p)
    <3>1. CASE p \in DOMAIN disk
      BY <1>1, <2>3, <3>1 DEF Ids
    <3>2. CASE p \notin DOMAIN disk
      <4>1. disk'[p] = Blank
        BY <1>1, <2>3, <3>2 DEF Unsynced, Ids
      <4> QED BY <4>1 DEF PageOK
    <3> QED BY <3>1, <3>2
  <2> DEFINE g == disk'
  <2>4. DOMAIN g = 0 .. n /\ DOMAIN disk \subseteq DOMAIN g /\ g[0] = disk[0]
    BY <1>1, <2>1, <2>2
  <2>5. \A p \in Ids(g) : (p \in Ids(disk) /\ g[p] = disk[p]) \/ PageOK(g, p)
    BY <2>3
  <2> HIDE DEF g
  <2>6. FileOK(g)
    BY <1>1, <2>4, <2>5, FileIs
  <2> QED BY <2>6 DEF g
<1>3. 0 \in DOMAIN disk /\ disk'[0] = disk[0]
  BY <1>1, FileSizeIs
<1>4. disk[0].kind = "header" => disk[0].root \in Ids(disk)
  BY <1>1, <1>3, KindOf DEF Headers, Ids
<1>5. ASSUME NEW c \in Ids(disk) PROVE TreePages(disk', c) = TreePages(disk, c)
  <2>1. \A p \in TreePages(disk, c) : p \in DOMAIN disk' /\ disk'[p] = disk[p]
    BY <1>1, TreeBasics DEF Ids
  <2> QED BY <1>1, <1>2, <2>1, TreeLocal
<1>6. TreeOnDisk' = TreeOnDisk /\ HeadOnDisk' = HeadOnDisk
  BY <1>3, <1>4, <1>5 DEF TreeOnDisk, HeadOnDisk
<1>7. \A c \in Ids(disk) : TreePages(disk', c) \subseteq Ids(disk')
  <2>1. Ids(disk) \subseteq Ids(disk')
    BY <1>1 DEF Ids
  <2> QED BY <1>2, <2>1, TreeBasics
<1> QED BY <1>2, <1>6, <1>7

\* A step writes at most the page h of the list.
LEMMA MapDownhill ==
  ASSUME BothInv, DiskInv, disk' = Unsynced, DOMAIN file \subseteq DOMAIN file',
         NEW h, NEW S, NEW X,
         \A f \in {file', WithAdded'} : \A q \in Ids(file') : LikeBefore(f, q) \/ (q = h /\ FitsBefore(f, h, S, X)),
         FileOK(file'), DOMAIN WithAdded' = DOMAIN file'
  PROVE  Downhill(disk)' /\ Downhill(file)' /\ Downhill(WithAdded)'
<1>1. \A g \in Versions : \A q : \A n \in Nexts(g, q) : n < q
  <2> SUFFICES ASSUME NEW g \in Versions, NEW q, NEW n \in Nexts(g, q) PROVE n < q
    OBVIOUS
  <2>1. Downhill(g) /\ DOMAIN g = DOMAIN file /\ FileOK(g)
    BY DiskTypes DEF DiskInv, Versions
  <2>2. q \in Ids(g)
    <3>1. ReadFreeList(g, q) # NoList
      BY DEF Nexts, NoList, FreeList
    <3>2. q \in DOMAIN g /\ g[q].kind = "freelist"
      BY <2>1, <3>1, ReadIs
    <3> QED BY <2>1, <3>2, ReadIs DEF Ids
  <2> QED BY <2>1, <2>2 DEF Downhill
<1>2. \A q : LikeBefore(disk', q)
  BY DiskIsLike
<1>3. \A f, q : LikeBefore(f, q) => \A n \in Nexts(f, q) : n < q
  BY <1>1, LikeIs
<1>4. \A f \in {file', WithAdded'} : \A q \in Ids(file') : \A n \in Nexts(f, q) : n < q
  BY <1>3 DEF FitsBefore
<1>5. Ids(disk') = Ids(file') /\ Ids(WithAdded') = Ids(file')
  BY DiskIsLike DEF Ids
<1> DEFINE d == disk'
           f == file'
           w == WithAdded'
<1>6. Downhill(d) /\ Downhill(f) /\ Downhill(w)
  <2>1. \A q : LikeBefore(d, q)
    BY <1>2
  <2>2. \A q \in Ids(f) : \A n \in Nexts(f, q) : n < q
    BY <1>4
  <2>3. \A q \in Ids(w) : \A n \in Nexts(w, q) : n < q
    BY <1>4, <1>5
  <2> HIDE DEF d, f, w
  <2>4. \A q \in Ids(d) : \A n \in Nexts(d, q) : n < q
    BY <1>3, <2>1
  <2> QED BY <2>2, <2>3, <2>4 DEF Downhill
<1> QED BY <1>6 DEF Downhill, Ids, Nexts, ReadFreeList, ReadPage

\* The same for the pages of the list: h comes to it, and X is freed.
LEMMA MapLists ==
  ASSUME BothInv, DiskInv, disk' = Unsynced, DOMAIN file \subseteq DOMAIN file',
         FileOK(file'), FileOK(WithAdded'),
         NEW S, ListsOnDisk(S), NEW h, h \in S \cup {0} \/ h \in Ids(file') \ Ids(file),
         NEW X, X \subseteq Barred \cap Ids(file),
         \A f \in {file', WithAdded'} : \A q \in Ids(file') :
            LikeBefore(f, q) \/ (q = h /\ FitsBefore(f, h, S, X)),
         {SavedHead', MemHead'} \subseteq S \cup {0, h},
         Barred' \cap X = {}, Barred' \cap Ids(file) \subseteq Barred,
         h \in Ids(file) \cup {0} \/ h \notin Barred'
  PROVE  \E T : ListsOnDisk(T)'
<1> DEFINE T == S \cup ({h} \ {0})
           G == {disk', file', WithAdded'}
           P == Ids(file)
           C == Barred'
           F == Versions
           K == {HeadOnDisk', SavedHead', MemHead'}
<1>1. /\ S \in SUBSET P /\ ListsApart(S, F, Heads, Barred) /\ \A q : Listed(F, q) \subseteq P
      /\ Ids(file) \subseteq Ids(file') /\ 0 \notin Ids(file)
  BY DiskTypes DEF ListsOnDisk, Ids
<1>2. h \in S \cup {0} \/ h \notin P
  OBVIOUS
<1>3. T \subseteq Ids(file')
  BY <1>1
<1>4. \A g \in G : \A q \in T : LikeBefore(g, q) \/ (q = h /\ FitsBefore(g, h, S, X))
  BY <1>3, DiskIsLike
<1>5. ASSUME NEW q, q \notin P PROVE Listed(F, q) = {} /\ \A g \in F : Nexts(g, q) = {}
  <2> SUFFICES ASSUME NEW g \in F PROVE ToSet(IdsOf(g, q)) = {} /\ Nexts(g, q) = {}
    BY DEF Listed
  <2>1. FileOK(g) /\ Ids(g) = P
    BY DiskTypes DEF Versions, Ids
  <2>2. ReadFreeList(g, q) = NoList
    BY <1>5, <2>1, ReadIs DEF Ids
  <2> QED BY <2>2 DEF IdsOf, Nexts, NoList, FreeList, ToSet
<1>6. ASSUME NEW g \in G, NEW q \in T
      PROVE  /\ Nexts(g, q) \subseteq T /\ Distinct(IdsOf(g, q))
             /\ ToSet(IdsOf(g, q)) \subseteq (IF q \in S THEN Listed(F, q) ELSE {})
                                                \cup (IF q = h THEN X ELSE {})
  <2>1. CASE LikeBefore(g, q)
    <3>1. CASE Nexts(g, q) = {} /\ IdsOf(g, q) = <<>>
      BY <3>1 DEF Distinct, ToSet
    <3>2. CASE \E f \in F : Nexts(g, q) = Nexts(f, q) /\ IdsOf(g, q) = IdsOf(f, q)
      <4>1. PICK f \in F : Nexts(g, q) = Nexts(f, q) /\ IdsOf(g, q) = IdsOf(f, q)
        BY <3>2
      <4>2. q \in S => Nexts(f, q) \subseteq S /\ Distinct(IdsOf(f, q))
        BY <1>1 DEF ListsApart
      <4>3. ToSet(IdsOf(f, q)) \subseteq Listed(F, q)
        BY DEF Listed
      <4>4. q \notin S => ToSet(IdsOf(f, q)) = {} /\ Nexts(f, q) = {}
        BY <1>2, <1>5, <4>3
      <4>5. q \notin S => Distinct(IdsOf(f, q))
        BY <4>4 DEF ToSet, Distinct
      <4> QED BY <4>1, <4>2, <4>3, <4>4, <4>5
    <3> HIDE DEF F, G, T
    <3> QED BY <2>1, <3>1, <3>2, LikeIs DEF F
  <2>2. CASE q = h /\ FitsBefore(g, h, S, X)
    <3>1. h \in S \/ Listed(F, h) = {}
      BY <1>2, <1>5, <1>6, <2>2
    <3> QED BY <2>2, <3>1 DEF FitsBefore
  <2> QED BY <1>4, <2>1, <2>2
<1>7. \A q \in T : Listed(G, q) \subseteq (IF q \in S THEN Listed(F, q) ELSE {})
                                             \cup (IF q = h THEN X ELSE {})
  <2> HIDE DEF F, G, T
  <2> QED BY <1>6 DEF Listed
<1>8. K \subseteq T \cup {0}
  <2>1. HeadOnDisk' = HeadOnDisk /\ HeadOnDisk \in S \cup {0}
    BY <1>1, DiskFileOK DEF ListsApart, Heads
  <2> QED BY <2>1
<1>9. h = 0 \/ h \notin C
  BY <1>1 DEF ListsApart
<1>10. X \subseteq Barred \cap P /\ C \cap X = {} /\ C \cap P \subseteq Barred
  OBVIOUS
<1>11. \A q \in T : \A g \in G : Nexts(g, q) \subseteq T /\ Distinct(IdsOf(g, q))
  BY <1>6
<1>12. ListsApart(T, G, K, C)
  <2>1. Follows(S, F, T, G, h, X) /\ StillBarred(P, Barred, C, h, X)
    BY <1>7, <1>9, <1>10, <1>11 DEF Follows, StillBarred
  <2>2. S \subseteq P
    BY <1>1
  <2> HIDE DEF T, G, P, C, F, K
  <2> QED BY <1>1, <1>2, <1>8, <2>1, <2>2, ListsStep
<1>13. ListsOnDisk(T)'
  <2>1. G = Versions' /\ K = Heads' /\ C = Barred' /\ T' = T
    BY DEF Versions, Heads
  <2>2. ListsApart(T, Versions', Heads', Barred')
    BY <1>12, <2>1
  <2> HIDE DEF T, G, K, C
  <2> QED BY <1>3, <2>2 DEF ListsOnDisk, ListsApart, Ids, Listed, Nexts, IdsOf, ReadFreeList, ReadPage
<1> QED BY <1>13

\* A step that commits nothing takes no new page into use, ...
LEMMA InUseKept ==
  ASSUME BothInv, [PV!Next]_PV!vars, TreeInMemory' \subseteq TreeInMemory \cup TreeInFile
  PROVE  InUse' \subseteq InUse
<1>1. DOMAIN RetiredAs = PendingPages /\ (DOMAIN RetiredAs = PendingPages)'
  BY DEF RetiredAs
<1> DEFINE Use == TreeInMemory \cup TreeInFile \cup CommittedOrphans \cup DOMAIN RetiredAs
<1>2. Use' \subseteq Use
  <2>1. CASE PV!Create
    <3>1. TreeInMemory' \subseteq PV!NewPages /\ PV!NewPages \cap DOMAIN file = {}
      BY <2>1 DEF PV!Create, PV!NewPages
    <3> QED BY <2>1 DEF PV!Create, PV!Kept
  <2>2. CASE PV!Allocate \/ PV!Write \/ PV!Release \/ PV!Raise
    BY <2>2 DEF PV!Allocate, PV!Write, PV!Release, PV!Raise
  <2>3. CASE PV!Commit
    BY <2>3 DEF PV!Commit
  <2>4. CASE PV!Publish
    BY <2>4 DEF PV!Publish
  <2>5. CASE PV!Retire
    BY <2>5 DEF PV!Retire
  <2>6. CASE PV!Reclaim
    BY <2>6 DEF PV!Reclaim
  <2>7. CASE PV!Crash
    BY <2>7 DEF PV!Crash
  <2>8. CASE \E r \in Reader : PV!Pin(r) \/ PV!ReadRoot(r) \/ PV!Walk(r) \/ PV!Unpin(r)
    BY <2>8 DEF PV!Pin, PV!ReadRoot, PV!Walk, PV!Unpin
  <2>9. CASE UNCHANGED PV!vars
    BY <2>9 DEF PV!vars
  <2> QED BY <2>1, <2>2, <2>3, <2>4, <2>5, <2>6, <2>7, <2>8, <2>9 DEF PV!Next
<1> QED BY <1>1, <1>2 DEF InUse

\* ... writes to no page of a tree, ...
LEMMA TreesKept ==
  ASSUME BothInv, [PV!Next]_PV!vars
  PROVE  DOMAIN file \subseteq DOMAIN file' /\ Keeps(file, file', TreeInMemory \cup TreeInFile)
<1>1. \/ UNCHANGED file
      \/ \E S \in SUBSET (FreePages \cup HandPages) : PV!WritesTo(S)
  BY DEF PV!vars, PV!Next, PV!Create, PV!Allocate, PV!Write, PV!Release, PV!Raise, PV!Commit,
         PV!Publish, PV!Retire, PV!Reclaim, PV!Pin, PV!ReadRoot, PV!Walk, PV!Unpin, PV!Crash
<1>2. DOMAIN file \subseteq DOMAIN file'
  BY <1>1 DEF PV!WritesTo
<1>3. (TreeInMemory \cup TreeInFile) \cap (FreePages \cup HandPages) = {}
  BY Apart DEF BothInv
<1>4. TreeInMemory \cup TreeInFile \subseteq DOMAIN file \ {0}
  BY DEF BothInv, PV!PageInv, PV!PageTypes
<1>5. \A p \in TreeInMemory \cup TreeInFile : file'[p] = file[p]
  BY <1>1, <1>3, <1>4 DEF PV!WritesTo
<1> QED BY <1>2, <1>4, <1>5 DEF Keeps

\* ... and leaves the tree of memory unless it moves the root.
LEMMA MemoryTreeKept ==
  ASSUME BothInv, BothInv', [PV!Next]_PV!vars, writer.pc # "closed", writer'.pc # "closed",
         header'.root = header.root
  PROVE  TreeInMemory' = TreeInMemory
<1>1. TreeInMemory = TreePages(file, header.root) /\ IsTree(file, header.root) /\ FileOK(file)
  BY DEF TreeInMemory, BothInv, CowInv, TreeInv
<1>2. Keeps(file, file', TreePages(file, header.root)) /\ FileOK(file')
  BY <1>1, TreesKept DEF Keeps, BothInv, CowInv, FileOK, PageOK, Ids
<1>3. TreePages(file', header.root) = TreePages(file, header.root)
  BY <1>1, <1>2, TreeKeeps
<1>4. TreeInMemory' = TreePages(file', header'.root)
  BY DEF TreeInMemory
<1> QED BY <1>1, <1>3, <1>4

\* What is needed of the invariant of CowBTree.
LEMMA CowTypes == BothInv => FileOK(file) /\ FileOK(WithAdded) /\ DOMAIN WithAdded = DOMAIN file
  BY AddedIs DEF BothInv, CowInv

LEMMA CowTypesNext == (BothInv => FileOK(file) /\ FileOK(WithAdded) /\ DOMAIN WithAdded = DOMAIN file)'
  BY CowTypes, PTL

LEMMA NextTypes ==
  ASSUME BothInv'
  PROVE  FileOK(file') /\ FileOK(WithAdded') /\ DOMAIN WithAdded' = DOMAIN file'
BY CowTypesNext DEF FileOK, PageOK, Ids

\* The pages in use, of the list and in the hands of put are apart.
LEMMA ApartAll == BothInv =>
    /\ FreePages \cap HandPages = {} /\ InUse \cap (FreePages \cup HandPages) = {}
    /\ FreedPages \subseteq HandPages /\ FreedPages \subseteq Ids(file) /\ InUse \subseteq Ids(file)
<1> SUFFICES ASSUME BothInv
             PROVE  /\ FreePages \cap HandPages = {} /\ InUse \cap (FreePages \cup HandPages) = {}
                    /\ FreedPages \subseteq HandPages /\ FreedPages \subseteq Ids(file)
                    /\ InUse \subseteq Ids(file)
  OBVIOUS
<1>1. FreePages \cap HandPages = {} /\ InUse \cap (FreePages \cup HandPages) = {}
  BY Apart DEF BothInv, InUse
<1>2. FreedPages \subseteq HandPages
  <2>1. CASE writer \in NoWork
    BY <2>1 DEF FreedPages
  <2>2. CASE writer \notin NoWork
    <3>1. writer.pc \notin {"idle", "closed", "createHeader"}
      BY <2>2, Situation DEF BothInv, CowInv, Places
    <3> QED BY <2>2, <3>1 DEF FreedPages, HandPages
  <2> QED BY <2>1, <2>2
<1>3. HandPages \subseteq Ids(file) /\ InUse \subseteq Ids(file)
  BY DEF BothInv, PV!PageInv, PV!PageTypes, InUse, RetiredAs, Ids
<1> QED BY <1>1, <1>2, <1>3

LEMMA ApartAllNext == (BothInv =>
    /\ FreePages \cap HandPages = {} /\ InUse \cap (FreePages \cup HandPages) = {}
    /\ FreedPages \subseteq HandPages /\ FreedPages \subseteq Ids(file) /\ InUse \subseteq Ids(file))'
  BY ApartAll, PTL

\* Nothing gets barred, but what put is to add to the list, and that was retired.
LEMMA BarredKept ==
  ASSUME BothInv, BothInv', DiskInv, [PV!Next]_PV!vars, disk' = Unsynced,
         TreeInMemory' \subseteq TreeInMemory \cup TreeInFile,
         FreedPages' \subseteq FreedPages \cup PendingPages
  PROVE  Barred' \subseteq Barred
<1>1. TreeOnDisk' = TreeOnDisk
  BY DiskFileOK, TreesKept, NextTypes
<1>2. InUse' \subseteq InUse
  BY InUseKept
<1> QED BY <1>1, <1>2 DEF Barred, InUse

\* A step that adds nothing to the list, and takes at most from its head.
LEMMA MapPlain ==
  ASSUME BothInv, BothInv', DiskInv, [PV!Next]_PV!vars, disk' = Unsynced,
         TreeInMemory' \subseteq TreeInMemory \cup TreeInFile,
         FreedPages' \subseteq FreedPages \cup PendingPages,
         NEW S, ListsOnDisk(S), NEW h \in S \cup {0},
         \A f \in {file', WithAdded'} : \A q \in Ids(file') :
            LikeBefore(f, q) \/ (q = h /\ FitsBefore(f, h, S, {})),
         {SavedHead', MemHead'} \subseteq S \cup {0}
  PROVE  (Downhill(disk) /\ Downhill(file) /\ Downhill(WithAdded))' /\ \E T : ListsOnDisk(T)'
<1>1. /\ FileOK(file') /\ FileOK(WithAdded') /\ DOMAIN WithAdded' = DOMAIN file'
      /\ DOMAIN file \subseteq DOMAIN file'
  BY NextTypes, TreesKept
<1>2. Barred' \subseteq Barred
  BY BarredKept
<1>3. (Downhill(disk) /\ Downhill(file) /\ Downhill(WithAdded))'
  BY <1>1, MapDownhill
<1>4. h \in Ids(file) \cup {0}
  BY DEF ListsOnDisk
<1>5. {} \subseteq Barred \cap Ids(file) /\ Barred' \cap {} = {} /\ Barred' \cap Ids(file) \subseteq Barred
  BY <1>2
<1>6. \E T : ListsOnDisk(T)'
  BY <1>1, <1>4, <1>5, MapLists
<1> QED BY <1>3, <1>6

-----------------------------------------------------------------------------
(* The steps of put, one by one.                                           *)

\* A step on the map, and what it keeps of the list.
OnMap == BothInv /\ BothInv' /\ DiskInv /\ [PV!Next]_PV!vars /\ disk' = Unsynced

ListsGo == Downhill(disk)' /\ Downhill(file)' /\ Downhill(WithAdded)' /\ \E T : ListsOnDisk(T)'

\* Whoever writes no page of the list keeps what is there.
LEMMA LikeIf ==
  ASSUME NEW f, NEW q,
         \/ q \in DOMAIN f /\ q \in DOMAIN file /\ f[q] = file[q]
         \/ q \in DOMAIN f /\ q \in DOMAIN WithAdded /\ f[q] = WithAdded[q]
         \/ q \in DOMAIN f => f[q].kind # "freelist"
  PROVE  LikeBefore(f, q)
<1>1. CASE q \in DOMAIN f => f[q].kind # "freelist"
  BY <1>1 DEF LikeBefore, ReadFreeList, ReadPage, Blank
<1> QED BY <1>1, ReadSame DEF LikeBefore

\* Only put that adds to the list has pages to add.
LEMMA NoneFreed == BothInv /\ writer.pc \notin {"addFree", "addPage"} => FreedPages = {}
<1> SUFFICES ASSUME BothInv, writer.pc \notin {"addFree", "addPage"}, writer \notin NoWork
             PROVE  ToSet(writer.free) = {}
  BY DEF FreedPages
<1>1. writer.free = <<>>
  BY Situation DEF BothInv, CowInv, WorkOK
<1> QED BY <1>1 DEF ToSet

LEMMA NoneFreedNext == (BothInv /\ writer.pc \notin {"addFree", "addPage"} => FreedPages = {})'
  BY NoneFreed, PTL

\* The head in memory, and the one in the file.
LEMMA HeadsAre == BothInv =>
    /\ SavedHead \in {0} \cup ListPages(WithAdded, MemHead)
    /\ IsOpen => /\ MemHead = header.head /\ SavedHead = file[0].head
                 /\ writer.pc \notin {"addPage", "publishHead"} => SavedHead = MemHead
    /\ writer.pc \in {"closed", "createHeader"} => SavedHead = MemHead
BY DEF BothInv, CowInv, ListInv, HeaderInv, MemHead, SavedHead, IsOpen, Blank

LEMMA HeadsAreNext == (BothInv =>
    /\ SavedHead \in {0} \cup ListPages(WithAdded, MemHead)
    /\ IsOpen => /\ MemHead = header.head /\ SavedHead = file[0].head
                 /\ writer.pc \notin {"addPage", "publishHead"} => SavedHead = MemHead
    /\ writer.pc \in {"closed", "createHeader"} => SavedHead = MemHead)'
BY HeadsAre, PTL

\* put writes no page but of a tree, or what the page of the list was to get.
LEMMA QuietLists ==
  ASSUME OnMap, NEW S, ListsOnDisk(S), writer.pc # "closed", IsOpen', header' = header,
         writer'.pc \notin {"addFree", "addPage"},
         file'[0] = file[0] \/ writer'.pc # "publishHead",
         \A q \in Ids(file') : \/ q \in DOMAIN file /\ file'[q] \in {file[q], WithAdded[q]}
                               \/ file'[q].kind # "freelist"
  PROVE  ListsGo
<1>1. WithAdded' = file' /\ writer'.pc # "closed"
  BY DEF WithAdded, IsOpen
<1>2. TreeInMemory' = TreeInMemory
  BY <1>1, MemoryTreeKept DEF OnMap
<1>3. FreedPages' = {}
  BY NoneFreedNext DEF OnMap
<1>4. MemHead = header.head /\ MemHead' = header.head
  BY <1>1 DEF MemHead
<1>5. SavedHead' \in {SavedHead, MemHead}
  <2>1. CASE file'[0] = file[0]
    BY <2>1 DEF SavedHead
  <2>2. CASE writer'.pc # "publishHead"
    BY <1>4, <2>2, HeadsAreNext DEF OnMap
  <2> QED BY <2>1, <2>2
<1>6. {SavedHead, MemHead} \subseteq S \cup {0}
  BY DEF ListsOnDisk, ListsApart, Heads
<1>7. DOMAIN WithAdded = DOMAIN file
  BY DiskTypes DEF OnMap
<1>8. ASSUME NEW q \in Ids(file') PROVE LikeBefore(file', q)
  BY <1>7, LikeIf DEF Ids
<1>9. 0 \in S \cup {0}
  OBVIOUS
<1>10. TreeInMemory' \subseteq TreeInMemory \cup TreeInFile /\ FreedPages' \subseteq FreedPages \cup PendingPages
  BY <1>2, <1>3
<1>11. \A f \in {file', WithAdded'} : \A q \in Ids(file') :
          LikeBefore(f, q) \/ (q = 0 /\ FitsBefore(f, 0, S, {}))
  BY <1>1, <1>8
<1>12. {SavedHead', MemHead'} \subseteq S \cup {0}
  BY <1>4, <1>5, <1>6
<1> QED BY <1>9, <1>10, <1>11, <1>12, MapPlain DEF OnMap, ListsGo

\* A step that does not touch the file.
LEMMA SameLists ==
  ASSUME OnMap, NEW S, ListsOnDisk(S), file' = file,
         TreeInMemory' \subseteq TreeInMemory \cup TreeInFile,
         FreedPages' \subseteq FreedPages \cup PendingPages, MemHead' \in {MemHead, SavedHead},
         \A q \in Ids(file) : LikeBefore(WithAdded', q)
  PROVE  ListsGo
<1>1. SavedHead' = SavedHead /\ {SavedHead, MemHead} \subseteq S \cup {0}
  BY DEF SavedHead, ListsOnDisk, ListsApart, Heads
<1>2. {SavedHead', MemHead'} \subseteq S \cup {0} /\ 0 \in S \cup {0}
  BY <1>1
<1>3. \A q : LikeBefore(file, q)
  BY DEF LikeBefore
<1>4. \A f \in {file', WithAdded'} : \A q \in Ids(file') :
          LikeBefore(f, q) \/ (q = 0 /\ FitsBefore(f, 0, S, {}))
  BY <1>3
<1> QED BY <1>2, <1>4, MapPlain DEF OnMap, ListsGo

\* Where put goes on with its copies.
Copying == {"descend", "commitRoot"} \cup Upward

\* Where put goes on after a page of the tree is read or written.
LEMMA CopyPlaces ==
  ASSUME CowInv, Descend \/ WriteNode \/ WriteLeft \/ WriteRight \/ WriteRoot
  PROVE  /\ header' = header
         /\ writer' = NoThread \/ (writer'.pc \in Copying /\ writer'.committed = writer.committed)
<1>1. writer.pc \in Upward \cup {"descend"} /\ header' = header
  BY DEF Descend, WriteNode, WriteLeft, WriteRight, WriteRoot, Upward
<1>2. writer \in Works(Ids(file))
  BY <1>1, Working DEF Places, Upward
<1>3. writer' = NoThread \/ writer'.pc \in Copying
  <2>1. CASE Descend
    BY <1>2, <2>1 DEF Descend, PutRaises, Works, Copying, Upward
  <2>2. CASE WriteNode
    BY <1>2, <2>2, GoUpFields DEF WriteNode, Copying, Upward
  <2>3. CASE WriteLeft
    BY <1>2, <2>3 DEF WriteLeft, PutRaises, Works, Copying, Upward
  <2>4. CASE WriteRight
    BY <1>2, <2>4, GoUpFields DEF WriteRight, PutRaises, Copying, Upward
  <2>5. CASE WriteRoot
    BY <1>2, <2>5 DEF WriteRoot, PutRaises, Works, Copying, Upward
  <2> QED BY <2>1, <2>2, <2>3, <2>4, <2>5
<1> QED BY <1>1, <1>3, CopyKinds DEF GoesOn, Raises

\* The steps on the map keep DiskInv: first the list, action by action.
LEMMA CopyLists ==
  ASSUME OnMap, NEW S, ListsOnDisk(S), Descend \/ WriteNode \/ WriteLeft \/ WriteRight \/ WriteRoot
  PROVE  ListsGo
<1>1. CowInv /\ writer.pc \in Upward \cup {"descend"} /\ writer.pc \in Places
  BY DEF Descend, WriteNode, WriteLeft, WriteRight, WriteRoot, Upward, Places, OnMap, BothInv
<1>2. header' = header /\ (writer' = NoThread \/ writer'.pc \in Copying)
  BY <1>1, CopyPlaces
<1>3. FileOK(file) /\ writer \in Works(Ids(file)) /\ writer.node \in TreeNodes(Ids(file)) \cup {Blank}
      /\ 0 \notin Ids(file)
  BY <1>1, Working, WorkTypes DEF Ids
<1>4. \/ file' = file
      \/ \E p, n : file' = [file EXCEPT ![p] = n] /\ n.kind # "freelist" /\ p \in {writer.new, writer.right}
  <2>1. /\ writer.node.kind # "freelist" /\ LeftNode(writer.node).kind # "freelist"
        /\ RightNode(writer.node).kind # "freelist"
    <3>1. writer.node.kind # "freelist"
      BY <1>3, KindsDiffer DEF TreeNodes
    <3>2. LeftNode(writer.node).kind # "freelist"
      BY DEF LeftNode, Leaf, Internal
    <3>3. RightNode(writer.node).kind # "freelist"
      BY DEF RightNode, Leaf, Internal
    <3> QED BY <3>1, <3>2, <3>3
  <2> QED BY <2>1 DEF Descend, WriteNode, WriteLeft, WriteRight, WriteRoot
<1>5. ASSUME NEW q \in Ids(file')
      PROVE  (q \in DOMAIN file /\ file'[q] \in {file[q], WithAdded[q]}) \/ file'[q].kind # "freelist"
  BY <1>4 DEF Ids
<1>6. writer.pc # "closed" /\ IsOpen' /\ writer'.pc \notin {"addFree", "addPage", "publishHead"}
  BY <1>1, <1>2 DEF IsOpen, Upward, Copying, NoThread
<1> QED BY <1>2, <1>5, <1>6, QuietLists

\* The page of the list gets what it was to get, and then the header its head.
LEMMA WriteFreeListLists ==
  ASSUME OnMap, NEW S, ListsOnDisk(S), WriteFreeList
  PROVE  ListsGo
<1>1. CowInv /\ writer.pc = "addPage" /\ writer.pc \in Places /\ header' = header
      /\ file' = [file EXCEPT ![writer.list.id] = writer.list]
  BY DEF WriteFreeList, Places, OnMap, BothInv
<1>2. writer \in Works(Ids(file)) /\ writer.list.id = header.head /\ header.head \in Ids(file)
  BY <1>1, Working, Adding DEF OnMap, BothInv
<1>3. writer'.pc = "publishHead"
  BY <1>2 DEF WriteFreeList, Works
<1>4. file' = WithAdded
  BY <1>1 DEF WithAdded
<1>5. DOMAIN WithAdded = DOMAIN file
  BY DiskTypes DEF OnMap
<1>6. file'[0] = file[0]
  BY <1>1, <1>2 DEF Ids
<1>7. ASSUME NEW q \in Ids(file')
      PROVE  q \in DOMAIN file /\ file'[q] \in {file[q], WithAdded[q]}
  BY <1>4, <1>5 DEF Ids
<1> QED BY <1>1, <1>3, <1>6, <1>7, QuietLists DEF IsOpen

\* The header is written.
LEMMA PublishLists ==
  ASSUME OnMap, NEW S, ListsOnDisk(S), PublishHead \/ PublishRoot \/ CreateHeader
  PROVE  ListsGo
<1>1. CowInv /\ header' = header /\ writer.pc \in {"publishHead", "publishRoot", "createHeader"}
  BY DEF PublishHead, PublishRoot, CreateHeader, OnMap, BothInv
<1>2. writer.pc # "createHeader" => writer \in Works(Ids(file))
  BY <1>1, Working DEF Places
<1>3. writer'.pc \in {"sync", "descend", "commitWrite", "idle"}
  <2>1. CASE PublishHead
    BY <1>2, <2>1 DEF PublishHead, Works
  <2>2. CASE PublishRoot
    BY <1>2, <2>2 DEF PublishRoot, Works
  <2>3. CASE CreateHeader
    BY <2>3 DEF CreateHeader, NoThread
  <2> QED BY <2>1, <2>2, <2>3
<1>4. ASSUME NEW q \in Ids(file') PROVE q \in DOMAIN file /\ file'[q] \in {file[q], WithAdded[q]}
  BY DEF PublishHead, PublishRoot, CreateHeader, Ids
<1> QED BY <1>1, <1>3, <1>4, QuietLists DEF IsOpen

\* The list without the id that allocate takes.
LEMMA FrontListed ==
  ASSUME NEW P, NEW s \in Seq(P), s # <<>>, Distinct(s)
  PROVE  Distinct(Front(s)) /\ ToSet(Front(s)) \subseteq ToSet(s)
<1>1. /\ Len(s) \in Nat \ {0} /\ Front(s) \in Seq(P) /\ Len(Front(s)) = Len(s) - 1
      /\ \A j \in 1 .. Len(s) - 1 : Front(s)[j] = s[j]
  BY FrontIs
<1> DEFINE t == Front(s)
<1>2. DOMAIN t = 1 .. Len(s) - 1 /\ DOMAIN s = 1 .. Len(s) /\ DOMAIN t \subseteq DOMAIN s
      /\ \A j \in DOMAIN t : t[j] = s[j]
  BY <1>1
<1> HIDE DEF t
<1>3. Distinct(t)
  BY <1>2 DEF Distinct
<1>4. ToSet(t) \subseteq ToSet(s)
  BY <1>2 DEF ToSet
<1> QED BY <1>3, <1>4 DEF t

\* A page taken from the list, or the head of it, or a new page.
LEMMA AllocateGo ==
  ASSUME OnMap, NEW S, ListsOnDisk(S), writer.pc \in {"allocate", "allocateRoot", "write"},
         NEW a, a = AllocatePage(file, header.head), file' = a.file,
         header' = [header EXCEPT !.head = a.head],
         writer'.pc \in {"sync", "write", "writeRoot", "writeLeft"}
  PROVE  ListsGo
<1> DEFINE h == header.head
           list == ReadFreeList(file, h)
<1>1. /\ CowInv /\ FileOK(file) /\ 0 \in DOMAIN file
      /\ header \in [root : Ids(file), head : Ids(file) \cup {0}]
      /\ file[0] \in Headers(Ids(file)) /\ file[0].head = h /\ MemHead = h
      /\ WithAdded = file /\ ListOK(file, h)
  BY Working DEF OnMap, BothInv, Places, WithAdded
<1>2. /\ WithAdded' = file' /\ writer'.pc # "closed" /\ IsOpen' /\ header'.root = header.root
      /\ header'.head = a.head /\ writer'.pc \notin {"addFree", "addPage", "publishHead"}
  BY <1>1 DEF WithAdded, IsOpen
<1>3. TreeInMemory' = TreeInMemory /\ FreedPages' = {} /\ MemHead' = a.head /\ SavedHead' = a.head
  <2>1. MemHead' = a.head /\ SavedHead' = a.head
    BY <1>2, HeadsAreNext DEF OnMap
  <2> QED BY <1>2, <2>1, MemoryTreeKept, NoneFreedNext DEF OnMap
<1>4. h \in S \cup {0} /\ S \subseteq Ids(file)
  BY <1>1 DEF ListsOnDisk, ListsApart, Heads
<1>5. h # 0 => /\ list = file[h] /\ list.id = h /\ list.next \in Ids(file) \cup {0}
               /\ list.next \in Nexts(file, h) \cup {0} /\ Nexts(file, h) \subseteq S
               /\ (\A n \in Nexts(file, h) : n < h) /\ Distinct(list.ids) /\ list.ids \in Seq(Ids(file))
               /\ ToSet(list.ids) \subseteq Listed(Versions, h) /\ h \in Ids(file)
  <2> SUFFICES ASSUME h # 0 PROVE
               /\ list = file[h] /\ list.id = h /\ list.next \in Ids(file) \cup {0}
               /\ list.next \in Nexts(file, h) \cup {0} /\ Nexts(file, h) \subseteq S
               /\ (\A n \in Nexts(file, h) : n < h) /\ Distinct(list.ids) /\ list.ids \in Seq(Ids(file))
               /\ ToSet(list.ids) \subseteq Listed(Versions, h) /\ h \in Ids(file)
    OBVIOUS
  <2>1. h \in S /\ h \in Ids(file)
    BY <1>4
  <2>2. list = file[h] /\ list.id = h /\ list.next \in Ids(file) \cup {0}
    BY <1>1, ListBelow DEF ListOK
  <2>3. list.next \in Nexts(file, h) \cup {0} /\ list.ids = IdsOf(file, h)
    BY DEF Nexts, IdsOf
  <2>4. Nexts(file, h) \subseteq S /\ Distinct(IdsOf(file, h)) /\ ToSet(IdsOf(file, h)) \subseteq Listed(Versions, h)
    BY <2>1 DEF ListsOnDisk, ListsApart, Versions, Listed
  <2>5. \A n \in Nexts(file, h) : n < h
    BY <2>1 DEF OnMap, DiskInv, Downhill
  <2>6. list.ids \in Seq(Ids(file))
    BY <1>1, <2>3, ReadIs
  <2> HIDE DEF h, list
  <2> QED BY <2>1, <2>2, <2>3, <2>4, <2>5, <2>6
<1>6. a.head \in S \cup {0} /\ \A q \in Ids(file') : LikeBefore(file', q) \/ (q = h /\ FitsBefore(file', h, S, {}))
  <2>1. CASE h = 0
    <3>1. file' = GrowFile(file) /\ a.head = 0
      BY <2>1 DEF AllocatePage
    <3>2. ASSUME NEW q \in Ids(file') PROVE LikeBefore(file', q)
      <4>1. CASE q \in DOMAIN file
        <5>1. file'[q] = file[q] /\ q \in DOMAIN file'
          BY <1>1, <3>1, <4>1, GrowIs
        <5> QED BY <4>1, <5>1, LikeIf
      <4>2. CASE q \notin DOMAIN file
        <5>0. DOMAIN file' = DOMAIN file \cup {FileSize(file)} /\ file'[FileSize(file)] = Blank
          BY <1>1, <3>1, GrowIs
        <5>1. file'[q] = Blank
          BY <3>2, <4>2, <5>0 DEF Ids
        <5> QED BY <5>1, LikeIf DEF Blank
      <4> QED BY <4>1, <4>2
    <3> QED BY <3>1, <3>2
  <2>2. CASE h # 0 /\ list.ids # <<>>
    <3> DEFINE n == FreeList(list.id, list.next, Front(list.ids))
    <3>1. file' = [file EXCEPT ![list.id] = n] /\ a.head = h
      BY <2>2 DEF AllocatePage
    <3> HIDE DEF list
    <3>2. n.kind = "freelist" /\ n.next = list.next /\ n.ids = Front(list.ids)
      BY DEF FreeList
    <3> HIDE DEF n, h
    <3>3. file'[h] = n /\ h \in DOMAIN file'
      BY <1>5, <2>2, <3>1 DEF Ids
    <3>4. ReadFreeList(file', h) = n
      BY <3>2, <3>3 DEF ReadFreeList, ReadPage
    <3>5. Nexts(file', h) = Nexts(file, h)
      BY <3>2, <3>4 DEF Nexts, list
    <3>6. Distinct(Front(list.ids)) /\ ToSet(Front(list.ids)) \subseteq ToSet(list.ids)
      BY <1>5, <2>2, FrontListed
    <3>7. IdsOf(file', h) = Front(list.ids)
      BY <3>2, <3>4 DEF IdsOf
    <3>8. FitsBefore(file', h, S, {})
      BY <1>5, <2>2, <3>5, <3>6, <3>7 DEF FitsBefore
    <3>9. ASSUME NEW q \in Ids(file'), q # h PROVE LikeBefore(file', q)
      <4>1. q \in DOMAIN file /\ q \in DOMAIN file' /\ file'[q] = file[q]
        BY <1>5, <2>2, <3>1, <3>9 DEF Ids
      <4> QED BY <4>1, LikeIf
    <3> QED BY <1>4, <3>1, <3>8, <3>9
  <2>3. CASE h # 0 /\ list.ids = <<>>
    <3>1. file' = [file EXCEPT ![0].head = list.next] /\ a.head = list.next
      BY <2>3 DEF AllocatePage
    <3> HIDE DEF list, h
    <3>2. ASSUME NEW q \in Ids(file') PROVE LikeBefore(file', q)
      <4>1. q \in DOMAIN file /\ q \in DOMAIN file' /\ file'[q] = file[q]
        BY <3>1, <3>2 DEF Ids
      <4> QED BY <4>1, LikeIf
    <3> QED BY <1>5, <2>3, <3>1, <3>2
  <2> QED BY <2>1, <2>2, <2>3
<1> HIDE DEF h, list
<1>7. \A f \in {file', WithAdded'} : \A q \in Ids(file') :
         LikeBefore(f, q) \/ (q = h /\ FitsBefore(f, h, S, {}))
  BY <1>2, <1>6
<1>8. {SavedHead', MemHead'} \subseteq S \cup {0}
  BY <1>3, <1>6
<1>9. TreeInMemory' \subseteq TreeInMemory \cup TreeInFile /\ FreedPages' \subseteq FreedPages \cup PendingPages
  BY <1>3
<1> QED BY <1>4, <1>7, <1>8, <1>9, MapPlain DEF OnMap, ListsGo

\* A page is allocated.
LEMMA AllocateLists ==
  ASSUME OnMap, NEW S, ListsOnDisk(S), AllocateNode \/ SplitNode
  PROVE  ListsGo
<1>1. CowInv /\ writer.pc \in {"allocate", "allocateRoot", "write"} /\ writer.pc \in Places
  BY DEF AllocateNode, SplitNode, OnMap, BothInv, Places
<1>2. writer \in Works(Ids(file))
  BY <1>1, Working
<1> DEFINE a == AllocatePage(file, header.head)
<1>3. CASE AllocateNode
  <2> DEFINE w == [writer EXCEPT !.new = a.id]
             pc == IF writer.pc = "allocate" THEN "write" ELSE "writeRoot"
  <2>1. GoOn(w, a, pc) /\ header' = [header EXCEPT !.head = a.head] /\ file' = a.file
    BY <1>3 DEF AllocateNode
  <2>2. writer'.pc \in {"sync", "write", "writeRoot", "writeLeft"}
    <3> HIDE DEF a
    <3> QED BY <1>2, <2>1 DEF GoOn, Works
  <2> HIDE DEF w, pc
  <2> QED BY <1>1, <2>1, <2>2, AllocateGo
<1>4. CASE SplitNode /\ SplitHasNoKey(Base(writer.node), EntrySizesOf(writer.node))
  <2>1. writer' = NoThread /\ UNCHANGED <<file, header>>
    BY <1>4 DEF SplitNode, PutRaises
  <2>2. \A q \in Ids(file') : q \in DOMAIN file /\ file'[q] \in {file[q], WithAdded[q]}
    BY <2>1 DEF Ids
  <2>3. IsOpen' /\ writer.pc # "closed" /\ writer'.pc = "idle"
    BY <1>1, <2>1 DEF NoThread, IsOpen
  <2> QED BY <2>1, <2>2, <2>3, QuietLists
<1>5. CASE SplitNode /\ ~SplitHasNoKey(Base(writer.node), EntrySizesOf(writer.node))
  <2> DEFINE w == [writer EXCEPT !.right = a.id]
  <2>1. GoOn(w, a, "writeLeft") /\ header' = [header EXCEPT !.head = a.head] /\ file' = a.file
    BY <1>5 DEF SplitNode
  <2>2. writer'.pc \in {"sync", "write", "writeRoot", "writeLeft"}
    <3> HIDE DEF a
    <3> QED BY <1>2, <2>1 DEF GoOn, Works
  <2> HIDE DEF w
  <2> QED BY <1>1, <2>1, <2>2, AllocateGo
<1> QED BY <1>3, <1>4, <1>5

\* Retired pages are collected.
LEMMA CollectLists ==
  ASSUME OnMap, NEW S, ListsOnDisk(S), (\E k \in Key, v \in Value : StartPut(k, v)) \/ ReclaimAtOnce
  PROVE  ListsGo
<1>1. CowInv /\ UNCHANGED <<file, header>> /\ writer.pc \in {"idle", "reclaim"}
  BY DEF StartPut, ReclaimAtOnce, NoThread, OnMap, BothInv
<1>2. writer'.pc \in {"descend", "addFree", "idle"} /\ (writer' = NoThread \/ writer'.free = Reclaimable)
  <2>1. ASSUME NEW k \in Key, NEW v \in Value, StartPut(k, v)
        PROVE  writer'.pc \in {"descend", "addFree", "idle"} /\ writer'.free = Reclaimable
    BY <2>1 DEF StartPut, Work
  <2>2. CASE ReclaimAtOnce
    <3>1. writer \in Works(Ids(file))
      BY <1>1, <2>2, Working DEF ReclaimAtOnce, Places
    <3>2. CASE Reclaimable = <<>>
      BY <2>2, <3>2 DEF ReclaimAtOnce, NoThread
    <3>3. CASE Reclaimable # <<>>
      <4>1. writer' = [writer EXCEPT !.pc = "addFree", !.free = Reclaimable]
        BY <2>2, <3>3 DEF ReclaimAtOnce
      <4> QED BY <3>1, <4>1 DEF Works
    <3> QED BY <3>2, <3>3
  <2> QED BY <2>1, <2>2
<1>3. FreedPages' \subseteq PendingPages
  <2>1. ToSet(Reclaimable) \subseteq PendingPages
    BY ReclaimIs DEF OnMap, BothInv, RetiredAs
  <2>2. CASE writer' = NoThread
    BY <2>2 DEF FreedPages, NoWork
  <2>3. CASE writer'.free = Reclaimable
    BY <2>1, <2>3 DEF FreedPages
  <2> QED BY <1>2, <2>2, <2>3
<1>4. WithAdded = file /\ WithAdded' = file /\ MemHead = header.head /\ MemHead' = header.head
      /\ writer.pc # "closed" /\ writer'.pc # "closed"
  BY <1>1, <1>2 DEF WithAdded, MemHead
<1>5. TreeInMemory' = TreeInMemory
  BY <1>1, <1>4, MemoryTreeKept DEF OnMap
<1>6. \A q \in Ids(file) : LikeBefore(WithAdded', q)
  BY <1>4 DEF LikeBefore
<1> QED BY <1>1, <1>3, <1>4, <1>5, <1>6, SameLists

\* The file is opened.
LEMMA OpenLists ==
  ASSUME OnMap, NEW S, ListsOnDisk(S), OpenTree
  PROVE  ListsGo
<1>1. /\ writer.pc = "closed" /\ file[0].kind = "header" /\ file' = file /\ writer' = NoThread
      /\ header' = [root |-> file[0].root, head |-> file[0].head]
  BY DEF OpenTree
<1>2. WithAdded' = file /\ FreedPages' = {} /\ writer'.pc = "idle"
  BY <1>1 DEF WithAdded, FreedPages, NoWork, NoThread
<1>3. MemHead' = SavedHead /\ TreeInMemory' = TreeInFile
  BY <1>1, <1>2 DEF MemHead, SavedHead, TreeInMemory, TreeInFile
<1>4. \A q \in Ids(file) : LikeBefore(WithAdded', q)
  BY <1>2 DEF LikeBefore
<1> QED BY <1>1, <1>2, <1>3, <1>4, SameLists

\* A version is pinned or given up.
LEMMA ReadLists ==
  ASSUME OnMap, NEW S, ListsOnDisk(S), NEW r \in Reader, Pin(r) \/ EndRead(r)
  PROVE  ListsGo
<1>1. UNCHANGED <<file, header, writer>>
  BY DEF Pin, EndRead
<1>2. UNCHANGED <<WithAdded, FreedPages, MemHead, TreeInMemory>>
  BY <1>1 DEF WithAdded, FreedPages, MemHead, SavedHead, TreeInMemory, TreeInFile
<1>3. \A q \in Ids(file) : LikeBefore(WithAdded', q)
  BY <1>2 DEF LikeBefore
<1> QED BY <1>1, <1>2, <1>3, SameLists

\* Only pages of the file are barred.
LEMMA BarredIs == BothInv /\ DiskInv => Barred \subseteq Ids(file) \cup {0}
<1> SUFFICES ASSUME BothInv, DiskInv PROVE Barred \subseteq Ids(file) \cup {0}
  OBVIOUS
<1>1. /\ FileOK(disk) /\ Ids(disk) = Ids(file)
      /\ disk[0].kind = "header" => disk[0].root \in Ids(file)
  BY DiskTypes DEF Headers, Ids
<1>2. TreeOnDisk \subseteq Ids(file)
  BY <1>1, TreeBasics DEF TreeOnDisk
<1> QED BY <1>2, ApartAll DEF Barred

\* add_free_pages goes on with the head of the list, or with a new page.
LEMMA TakeLists ==
  ASSUME OnMap, NEW S, ListsOnDisk(S), TakeFreeList
  PROVE  ListsGo
<1> DEFINE h == header.head
<1>1. CowInv /\ writer.pc = "addFree" /\ writer.pc \in Places
  BY DEF TakeFreeList, Places, OnMap, BothInv
<1>2. /\ FileOK(file) /\ 0 \in DOMAIN file /\ writer \in Works(Ids(file)) /\ writer \notin NoWork
      /\ header \in [root : Ids(file), head : Ids(file) \cup {0}] /\ MemHead = h
      /\ WithAdded = file /\ ListOK(file, h) /\ SavedHead = file[0].head /\ file[0].kind = "header"
  BY <1>1, Working, Situation DEF WithAdded, CowInv
<1>3. CASE h # 0
  <2> DEFINE list == ReadFreeList(file, h)
  <2>1. UNCHANGED <<file, header>> /\ writer' = [writer EXCEPT !.pc = "addPage", !.list = list]
    BY <1>3 DEF TakeFreeList
  <2>2. list = file[h] /\ list.id = h /\ h \in Ids(file)
    BY <1>2, <1>3, ListBelow DEF ListOK
  <2> HIDE DEF list, h
  <2>3. writer'.pc = "addPage" /\ writer'.list = list /\ writer'.free = writer.free
    BY <1>2, <2>1 DEF Works
  <2>4. WithAdded' = [file EXCEPT ![h] = list]
    BY <2>1, <2>2, <2>3 DEF WithAdded
  <2>5. ASSUME NEW q \in Ids(file) PROVE LikeBefore(WithAdded', q)
    <3>1. q \in DOMAIN file /\ q \in DOMAIN WithAdded' /\ WithAdded'[q] = file[q]
      BY <2>2, <2>4, <2>5 DEF Ids
    <3> QED BY <3>1, LikeIf
  <2>6. FreedPages' \subseteq FreedPages
    BY <1>2, <2>3 DEF FreedPages
  <2>7. MemHead' = MemHead /\ writer.pc # "closed" /\ writer'.pc # "closed"
    BY <1>1, <2>1, <2>3 DEF MemHead
  <2>8. TreeInMemory' = TreeInMemory
    BY <2>1, <2>7, MemoryTreeKept DEF OnMap
  <2> QED BY <2>1, <2>5, <2>6, <2>7, <2>8, SameLists
<1>4. CASE h = 0
  <2> DEFINE n == FileSize(file)
             list == FreeList(n, 0, <<>>)
  <2>1. /\ file' = GrowFile(file) /\ header' = [header EXCEPT !.head = n]
        /\ writer' = [writer EXCEPT !.pc = "addPage", !.list = list]
    BY <1>4 DEF TakeFreeList
  <2>2. /\ FileOK(file') /\ DOMAIN file' = DOMAIN file \cup {n} /\ n \notin Ids(file)
        /\ \A p \in DOMAIN file : file'[p] = file[p]
        /\ file'[n] = Blank /\ n \notin DOMAIN file /\ n # 0
    BY <1>2, <2>1, GrowIs, FileSizeIs
  <2>3. list.id = n /\ list.next = 0 /\ list.ids = <<>> /\ list.kind = "freelist"
    BY DEF FreeList
  <2> HIDE DEF n, list
  <2>4. /\ writer'.pc = "addPage" /\ writer'.list = list /\ writer'.free = writer.free
        /\ header'.head = n /\ header'.root = header.root
    BY <1>2, <2>1 DEF Works
  <2>5. WithAdded' = [file' EXCEPT ![n] = list]
    BY <2>3, <2>4 DEF WithAdded
  <2>6. ASSUME NEW q \in Ids(file') PROVE LikeBefore(file', q)
    <3>1. CASE q \in DOMAIN file
      BY <2>2, <3>1, LikeIf
    <3>2. CASE q \notin DOMAIN file
      <4>1. file'[q] = Blank
        BY <2>2, <2>6, <3>2 DEF Ids
      <4> QED BY <4>1, LikeIf DEF Blank
    <3> QED BY <3>1, <3>2
  <2>7. ASSUME NEW q \in Ids(file'), q # n PROVE LikeBefore(WithAdded', q)
    <3>1. q \in DOMAIN file /\ q \in DOMAIN WithAdded' /\ WithAdded'[q] = file[q]
      BY <2>2, <2>5, <2>7 DEF Ids
    <3> QED BY <3>1, LikeIf
  <2>8. FitsBefore(WithAdded', n, S, {})
    <3>1. n \in DOMAIN WithAdded' /\ WithAdded'[n] = list
      BY <2>2, <2>5
    <3>2. ReadFreeList(WithAdded', n) = list
      BY <2>3, <3>1 DEF ReadFreeList, ReadPage
    <3>3. Nexts(WithAdded', n) = {} /\ IdsOf(WithAdded', n) = <<>>
      BY <2>3, <3>2 DEF Nexts, IdsOf
    <3> QED BY <3>3 DEF FitsBefore, Distinct, ToSet
  <2>9. MemHead' = n /\ SavedHead' = SavedHead /\ writer.pc # "closed" /\ writer'.pc # "closed"
    BY <1>1, <1>2, <2>2, <2>4 DEF MemHead, SavedHead
  <2>10. FreedPages' \subseteq FreedPages
    BY <1>2, <2>4 DEF FreedPages
  <2>11. TreeInMemory' = TreeInMemory
    BY <2>4, <2>9, MemoryTreeKept DEF OnMap
  <2>12. Barred' \subseteq Barred
    BY <2>10, <2>11, BarredKept DEF OnMap
  <2>13. n \notin Barred'
    BY <2>2, <2>12, BarredIs DEF OnMap
  <2>14. \A f \in {file', WithAdded'} : \A q \in Ids(file') :
            LikeBefore(f, q) \/ (q = n /\ FitsBefore(f, n, S, {}))
    BY <2>6, <2>7, <2>8
  <2>15. {SavedHead', MemHead'} \subseteq S \cup {0, n}
    BY <2>9 DEF ListsOnDisk, ListsApart, Heads
  <2>16. /\ FileOK(file') /\ FileOK(WithAdded') /\ DOMAIN WithAdded' = DOMAIN file'
         /\ DOMAIN file \subseteq DOMAIN file' /\ n \in Ids(file') \ Ids(file)
    BY <2>2, NextTypes DEF OnMap, Ids
  <2>17. {} \subseteq Barred \cap Ids(file) /\ Barred' \cap {} = {} /\ Barred' \cap Ids(file) \subseteq Barred
    BY <2>12
  <2>18. Downhill(disk)' /\ Downhill(file)' /\ Downhill(WithAdded)'
    BY <2>14, <2>16, MapDownhill DEF OnMap
  <2>19. \E T : ListsOnDisk(T)'
    BY <2>13, <2>14, <2>15, <2>16, <2>17, MapLists DEF OnMap
  <2> QED BY <2>18, <2>19 DEF ListsGo
<1> QED BY <1>3, <1>4

\* The tree on the disk is that of the file.
LEMMA SettledTree ==
  ASSUME BothInv, DiskInv, Settled
  PROVE  TreeOnDisk = TreeInFile /\ IsTree(file, file[0].root)
<1>1. FileOK(disk) /\ FileOK(file)
  BY DiskTypes
<1>2. TreePages(file, disk[0].root) = TreePages(disk, disk[0].root) /\ IsTree(file, disk[0].root)
  BY <1>1, TreeKeeps DEF Settled, TreeOnDisk
<1> QED BY <1>2 DEF Settled, TreeOnDisk, TreeInFile

\* An id that goes to the list was retired long ago: no tree has the page.
LEMMA AddedIsFree ==
  ASSUME OnMap, writer.pc = "addPage", writer'.pc # "closed", header'.root = header.root,
         NEW x \in FreedPages, FreedPages' = FreedPages \ {x}
  PROVE  /\ Barred' \subseteq Barred \ {x} /\ x \in Ids(file) /\ x \in Barred
<1>1. TreeInMemory' = TreeInMemory
  BY MemoryTreeKept DEF OnMap
<1>2. Barred' \subseteq Barred /\ InUse' \subseteq InUse
  BY <1>1, BarredKept, InUseKept DEF OnMap
<1>3. x \in Ids(file) /\ x \notin InUse /\ x # 0
  BY ApartAll DEF OnMap, Ids
<1>4. Settled
  <2>1. writer \notin NoWork
    BY DEF NoWork, NoThread
  <2> QED BY <2>1 DEF OnMap, DiskInv, RootOK, NoRoot, Young, Published, At, Upward
<1>5. TreeOnDisk' = TreeOnDisk
  BY DiskFileOK, TreesKept, NextTypes DEF OnMap
<1>6. x \notin TreeOnDisk'
  BY <1>3, <1>4, <1>5, SettledTree DEF OnMap, InUse
<1>7. x \notin InUse' /\ x \notin FreedPages'
  BY <1>2, <1>3
<1> QED BY <1>2, <1>3, <1>6, <1>7 DEF Barred

\* The list with one more id.
LEMMA AppendListed ==
  ASSUME NEW P, NEW s \in Seq(P), NEW x \in P, Distinct(s), x \notin ToSet(s)
  PROVE  Distinct(Append(s, x)) /\ ToSet(Append(s, x)) = ToSet(s) \cup {x}
<1>1. /\ DOMAIN Append(s, x) = 1 .. Len(s) + 1 /\ DOMAIN s = 1 .. Len(s) /\ Len(s) \in Nat
      /\ Append(s, x)[Len(s) + 1] = x /\ \A j \in 1 .. Len(s) : Append(s, x)[j] = s[j]
      /\ ToSet(Append(s, x)) = ToSet(s) \cup {x}
  BY AppendIs
<1> DEFINE t == Append(s, x)
           m == Len(s)
<1>2. /\ \A i \in DOMAIN t : i \in DOMAIN s \/ i = m + 1
      /\ \A i \in DOMAIN s : t[i] = s[i] /\ s[i] # x
      /\ t[m + 1] = x
  BY <1>1 DEF ToSet
<1> HIDE DEF t, m
<1>3. Distinct(t)
  BY <1>2 DEF Distinct
<1> QED BY <1>1, <1>3 DEF t

\* A page is added to the list.
LEMMA AddLists ==
  ASSUME OnMap, NEW S, ListsOnDisk(S), AddFreePage
  PROVE  ListsGo
<1> DEFINE h == header.head
           list == writer.list
           x == Head(writer.free)
<1>1. CowInv /\ writer.pc = "addPage" /\ writer.pc \in Places /\ writer.free # <<>>
  BY DEF AddFreePage, Places, OnMap, BothInv
<1>2. /\ FileOK(file) /\ writer \in Works(Ids(file)) /\ writer \notin NoWork
      /\ header \in [root : Ids(file), head : Ids(file) \cup {0}] /\ MemHead = h
      /\ file[0].kind = "header" /\ SavedHead = file[0].head /\ HandPages = ToSet(writer.free)
      /\ Distinct(writer.free) /\ writer.free \in Seq(Ids(file))
      /\ list \in FreeLists(Ids(file)) /\ list.id = h /\ h \in Ids(file)
      /\ DOMAIN WithAdded = DOMAIN file /\ ReadFreeList(WithAdded, h) = list
      /\ WithAdded[h] = list /\ \A q \in DOMAIN file \ {h} : WithAdded[q] = file[q]
  BY <1>1, Adding, Situation DEF OnMap, BothInv, CowInv
<1>3. /\ x \in ToSet(writer.free) /\ Tail(writer.free) \in Seq(Ids(file))
      /\ ToSet(Tail(writer.free)) = ToSet(writer.free) \ {x}
  BY <1>1, <1>2, TailIs
<1>4. FreedPages = ToSet(writer.free)
  BY <1>2 DEF FreedPages
<1>5. h \in S /\ Nexts(WithAdded, h) \subseteq S /\ (\A n \in Nexts(WithAdded, h) : n < h)
      /\ Distinct(list.ids) /\ list.ids \in Seq(Ids(file)) /\ ToSet(list.ids) \subseteq Listed(Versions, h)
      /\ Listed(Versions, h) \cap Barred = {}
  <2>1. h \in S
    BY <1>2 DEF ListsOnDisk, ListsApart, Heads, Ids
  <2>2. IdsOf(WithAdded, h) = list.ids /\ list.ids \in Seq(Ids(file))
    BY <1>2 DEF IdsOf, FreeLists
  <2>3. /\ Nexts(WithAdded, h) \subseteq S /\ Distinct(IdsOf(WithAdded, h))
        /\ ToSet(IdsOf(WithAdded, h)) \subseteq Listed(Versions, h) /\ Listed(Versions, h) \cap Barred = {}
    BY <2>1 DEF ListsOnDisk, ListsApart, Versions, Listed
  <2>4. \A n \in Nexts(WithAdded, h) : n < h
    BY <1>2 DEF OnMap, DiskInv, Downhill, Ids
  <2> HIDE DEF h, list
  <2> QED BY <2>1, <2>2, <2>3, <2>4
<1>6. ASSUME header'.root = header.root, writer'.pc = "addPage", writer'.free = Tail(writer.free)
      PROVE  /\ Barred' \subseteq Barred \ {x} /\ x \in Ids(file) /\ x \in Barred
  <2>1. FreedPages' = FreedPages \ {x}
    <3>1. writer' \notin NoWork
      BY <1>6 DEF NoWork, NoThread
    <3> QED BY <1>3, <1>4, <1>6, <3>1 DEF FreedPages
  <2> QED BY <1>1, <1>3, <1>4, <1>6, <2>1, AddedIsFree
<1>7. CASE Len(list.ids) < MaxIdsPerPage
  <2> DEFINE new == [list EXCEPT !.ids = Append(list.ids, x)]
  <2>1. UNCHANGED <<file, header>> /\ writer' = [writer EXCEPT !.free = Tail(writer.free), !.list = new]
    <3>1. ~(Len(writer.list.ids) >= MaxIdsPerPage)
      BY <1>5, <1>7, OneIdFits
    <3> QED BY <1>2, <3>1 DEF AddFreePage, Works
  <2>2. new.kind = "freelist" /\ new.id = h /\ new.next = list.next /\ new.ids = Append(list.ids, x)
    BY <1>2 DEF FreeLists
  <2> HIDE DEF new, x
  <2>3. writer'.pc = "addPage" /\ writer'.list = new /\ writer'.free = Tail(writer.free)
    BY <1>1, <1>2, <2>1 DEF Works
  <2>4. WithAdded' = [file EXCEPT ![h] = new]
    BY <2>1, <2>2, <2>3 DEF WithAdded
  <2>5. Barred' \subseteq Barred \ {x} /\ x \in Ids(file) /\ x \in Barred
    BY <1>6, <2>1, <2>3
  <2> HIDE DEF h, list
  <2>6. ASSUME NEW q \in Ids(file'), q # h PROVE LikeBefore(WithAdded', q)
    <3>1. q \in DOMAIN file /\ q \in DOMAIN WithAdded' /\ WithAdded'[q] = file[q]
      BY <2>1, <2>4, <2>6 DEF Ids
    <3> QED BY <3>1, LikeIf
  <2>7. FitsBefore(WithAdded', h, S, {x})
    <3>1. h \in DOMAIN WithAdded' /\ WithAdded'[h] = new
      BY <1>2, <2>4 DEF Ids
    <3>2. ReadFreeList(WithAdded', h) = new
      BY <2>2, <3>1 DEF ReadFreeList, ReadPage
    <3>3. Nexts(WithAdded', h) = Nexts(WithAdded, h) /\ IdsOf(WithAdded', h) = Append(list.ids, x)
      BY <1>2, <2>2, <3>2 DEF Nexts, IdsOf
    <3>4. Distinct(Append(list.ids, x)) /\ ToSet(Append(list.ids, x)) = ToSet(list.ids) \cup {x}
      <4>1. x \notin ToSet(list.ids)
        BY <1>5, <2>5
      <4> QED BY <1>5, <2>5, <4>1, AppendListed
    <3> QED BY <1>5, <3>3, <3>4 DEF FitsBefore
  <2>8. \A q \in Ids(file') : LikeBefore(file', q)
    BY <2>1 DEF LikeBefore
  <2>9. \A f \in {file', WithAdded'} : \A q \in Ids(file') :
           LikeBefore(f, q) \/ (q = h /\ FitsBefore(f, h, S, {x}))
    BY <2>6, <2>7, <2>8
  <2>10. MemHead' = MemHead /\ SavedHead' = SavedHead
    BY <1>1, <2>1, <2>3 DEF MemHead, SavedHead
  <2>11. {SavedHead', MemHead'} \subseteq S \cup {0, h}
    BY <2>10 DEF ListsOnDisk, ListsApart, Heads
  <2>12. /\ FileOK(file') /\ FileOK(WithAdded') /\ DOMAIN WithAdded' = DOMAIN file'
         /\ DOMAIN file \subseteq DOMAIN file'
    BY <2>1, NextTypes DEF OnMap
  <2>13. /\ {x} \subseteq Barred \cap Ids(file) /\ Barred' \cap {x} = {}
         /\ Barred' \cap Ids(file) \subseteq Barred /\ h \in S \cup {0} /\ h \in Ids(file) \cup {0}
    BY <1>2, <1>5, <2>5
  <2>14. Downhill(disk)' /\ Downhill(file)' /\ Downhill(WithAdded)'
    BY <2>9, <2>12, MapDownhill DEF OnMap
  <2>15. \E T : ListsOnDisk(T)'
    BY <2>9, <2>11, <2>12, <2>13, MapLists DEF OnMap
  <2> QED BY <2>14, <2>15 DEF ListsGo
<1>8. CASE ~(Len(list.ids) < MaxIdsPerPage)
  <2> DEFINE n == FileSize(file)
             new == FreeList(n, h, <<x>>)
  <2>1. /\ file' = [GrowFile(file) EXCEPT ![h] = list]
        /\ header' = [header EXCEPT !.head = n]
        /\ writer' = [writer EXCEPT !.free = Tail(writer.free), !.list = new]
    <3>1. Len(writer.list.ids) >= MaxIdsPerPage
      BY <1>5, <1>8, OneIdFits
    <3> QED BY <1>2, <3>1 DEF AddFreePage
  <2>2. /\ DOMAIN file' = DOMAIN file \cup {n} /\ n \notin Ids(file) /\ n \notin DOMAIN file /\ n # 0
        /\ file'[h] = list /\ \A p \in DOMAIN file \ {h} : file'[p] = file[p]
        /\ file'[n] = Blank /\ h < n
    <3>1. /\ DOMAIN GrowFile(file) = DOMAIN file \cup {n}
          /\ \A p \in DOMAIN file : GrowFile(file)[p] = file[p]
          /\ GrowFile(file)[n] = Blank
      BY <1>2, GrowIs
    <3>2. n \notin DOMAIN file /\ n # 0 /\ h \in DOMAIN file /\ h # n
      BY <1>2, FileSizeIs DEF Ids
    <3>3. h < n
      BY <1>2, <3>2, FileSizeIs
    <3> HIDE DEF n, list, h
    <3> QED BY <2>1, <3>1, <3>2, <3>3 DEF Ids
  <2>3. new.id = n /\ new.next = h /\ new.ids = <<x>> /\ new.kind = "freelist"
    BY DEF FreeList
  <2> HIDE DEF n, new, x
  <2>4. /\ writer'.pc = "addPage" /\ writer'.list = new /\ writer'.free = Tail(writer.free)
        /\ header'.head = n /\ header'.root = header.root
    BY <1>1, <1>2, <2>1 DEF Works
  <2>5. WithAdded' = [file' EXCEPT ![n] = new]
    BY <2>3, <2>4 DEF WithAdded
  <2>6. Barred' \subseteq Barred \ {x} /\ x \in Ids(file) /\ x \in Barred
    BY <1>6, <2>4
  <2> HIDE DEF h, list
  <2>7. ASSUME NEW q \in Ids(file') PROVE LikeBefore(file', q)
    <3>1. CASE q \in DOMAIN file
      <4>1. q \in DOMAIN file' /\ file'[q] = WithAdded[q] /\ q \in DOMAIN WithAdded
        BY <1>2, <2>2, <3>1
      <4> QED BY <4>1, LikeIf
    <3>2. CASE q \notin DOMAIN file
      <4>1. file'[q] = Blank
        BY <2>2, <2>7, <3>2 DEF Ids
      <4> QED BY <4>1, LikeIf DEF Blank
    <3> QED BY <3>1, <3>2
  <2>8. ASSUME NEW q \in Ids(file'), q # n PROVE LikeBefore(WithAdded', q)
    <3>1. q \in DOMAIN WithAdded /\ q \in DOMAIN WithAdded' /\ WithAdded'[q] = WithAdded[q]
      BY <1>2, <2>2, <2>5, <2>8 DEF Ids
    <3> QED BY <3>1, LikeIf
  <2>9. FitsBefore(WithAdded', n, S, {x})
    <3>1. n \in DOMAIN WithAdded' /\ WithAdded'[n] = new
      BY <2>2, <2>5
    <3>2. ReadFreeList(WithAdded', n) = new
      BY <2>3, <3>1 DEF ReadFreeList, ReadPage
    <3>3. Nexts(WithAdded', n) \subseteq {h} /\ IdsOf(WithAdded', n) = <<x>>
      BY <2>3, <3>2 DEF Nexts, IdsOf
    <3>4. Distinct(<<x>>) /\ ToSet(<<x>>) = {x}
      BY DEF Distinct, ToSet
    <3> QED BY <1>5, <2>2, <3>3, <3>4 DEF FitsBefore
  <2>10. MemHead' = n /\ SavedHead' = SavedHead
    <3>1. file'[0] = file[0]
      BY <1>2, <2>2, FileSizeIs DEF Ids
    <3> QED BY <2>4, <3>1 DEF MemHead, SavedHead
  <2>11. n \notin Barred'
    BY <2>2, <2>6, BarredIs DEF OnMap
  <2>12. \A f \in {file', WithAdded'} : \A q \in Ids(file') :
            LikeBefore(f, q) \/ (q = n /\ FitsBefore(f, n, S, {x}))
    BY <2>7, <2>8, <2>9
  <2>13. {SavedHead', MemHead'} \subseteq S \cup {0, n}
    BY <2>10 DEF ListsOnDisk, ListsApart, Heads
  <2>14. /\ FileOK(file') /\ FileOK(WithAdded') /\ DOMAIN WithAdded' = DOMAIN file'
         /\ DOMAIN file \subseteq DOMAIN file' /\ n \in Ids(file') \ Ids(file)
    BY <2>2, NextTypes DEF OnMap, Ids
  <2>15. /\ {x} \subseteq Barred \cap Ids(file) /\ Barred' \cap {x} = {}
         /\ Barred' \cap Ids(file) \subseteq Barred
    BY <2>6
  <2>16. Downhill(disk)' /\ Downhill(file)' /\ Downhill(WithAdded)'
    BY <2>12, <2>14, MapDownhill DEF OnMap
  <2>17. \E T : ListsOnDisk(T)'
    BY <2>11, <2>12, <2>13, <2>14, <2>15, MapLists DEF OnMap
  <2> QED BY <2>16, <2>17 DEF ListsGo
<1> QED BY <1>7, <1>8

-----------------------------------------------------------------------------
(* Whenever the disk has what the file has.                                *)

\* The list of the file bounds the list on the disk.
LEMMA SyncedLists == BothInv /\ writer.pc # "addPage" /\ disk = file => \E S : ListsOnDisk(S)
<1> SUFFICES ASSUME BothInv, writer.pc # "addPage", disk = file PROVE \E S : ListsOnDisk(S)
  OBVIOUS
<1> DEFINE S == ListPages(file, MemHead)
<1>1. /\ FileOK(file) /\ WithAdded = file /\ MemHead \in Ids(file) \cup {0} /\ ListOK(file, MemHead)
      /\ FreePages = ListOf(file, MemHead) /\ FreePages \subseteq Ids(file)
  BY AddedIs DEF BothInv, CowInv, ListInv
<1>2. S \subseteq FreePages /\ S \subseteq Ids(file) /\ FreeIds(file, MemHead) \subseteq FreePages
  BY <1>1 DEF ListOf
<1>3. TreeOnDisk = TreeInFile /\ HeadOnDisk = SavedHead
  BY DEF TreeOnDisk, TreeInFile, HeadOnDisk, SavedHead
<1>4. FreePages \cap Barred = {}
  BY <1>1, <1>3, ApartAll DEF Barred, InUse, Ids
<1>5. Heads \subseteq S \cup {0}
  <2>1. MemHead \in S \cup {0}
    BY <1>1, ListBasics
  <2>2. SavedHead \in {0} \cup S
    BY <1>1, HeadsAre
  <2> QED BY <1>3, <2>1, <2>2 DEF Heads
<1>6. ASSUME NEW q \in S
      PROVE  /\ Nexts(file, q) \subseteq S /\ Distinct(IdsOf(file, q))
             /\ ToSet(IdsOf(file, q)) \subseteq FreeIds(file, MemHead)
  <2>1. MemHead \in Ids(file)
    BY <1>1, <1>6, ListOfNone
  <2>2. Nexts(file, q) \subseteq S
    BY <1>1, <1>6, <2>1, ListBasics
  <2>3. Distinct(IdsOf(file, q))
    BY <1>1, <1>6 DEF ListOK, IdsAreApart, Distinct
  <2>4. ToSet(IdsOf(file, q)) \subseteq FreeIds(file, MemHead)
    BY <1>6, FreeIdsAre DEF ToSet
  <2> QED BY <2>2, <2>3, <2>4
<1>7. FreeIds(file, MemHead) \cap S = {}
  BY <1>1 DEF ListOK, IdsAreApart
<1>8. ASSUME NEW q \in S, NEW r \in S, q # r
      PROVE  ToSet(IdsOf(file, q)) \cap ToSet(IdsOf(file, r)) = {}
  BY <1>1, <1>8 DEF ListOK, IdsAreApart, ToSet
<1>9. \A q : Listed(Versions, q) = ToSet(IdsOf(file, q))
  BY <1>1 DEF Listed, Versions
<1>10. \A f \in Versions : f = file
  BY <1>1 DEF Versions
<1> HIDE DEF S
<1>11. ListsApart(S, Versions, Heads, Barred)
  BY <1>2, <1>4, <1>5, <1>6, <1>7, <1>8, <1>9, <1>10 DEF ListsApart
<1> QED BY <1>2, <1>11 DEF ListsOnDisk

\* A sync leaves the disk as the file is, and so does a new start.
LEMMA SyncedInv ==
  /\ BothInv /\ writer.pc # "addPage" /\ disk = file /\ Downhill(file)
  /\ file[0] = Blank => writer.pc = "closed" /\ version = 0 /\ pending = NonePending
  => DiskInv
<1> SUFFICES ASSUME BothInv, writer.pc # "addPage", disk = file, Downhill(file),
                    file[0] = Blank => writer.pc = "closed" /\ version = 0 /\ pending = NonePending
             PROVE  DiskInv
  OBVIOUS
<1>1. FileOK(file) /\ WithAdded = file /\ 0 \in DOMAIN file
  BY FileSizeIs DEF BothInv, CowInv, WithAdded
<1>2. \E S : ListsOnDisk(S)
  BY SyncedLists
<1>3. RootOK
  <2>1. CASE file[0] = Blank
    BY <2>1 DEF RootOK, NoRoot
  <2>2. CASE file[0] # Blank
    <3>1. file[0].kind = "header" /\ IsTree(file, file[0].root)
      BY <1>1, <2>2, KindOf DEF FileOK, Headers, BothInv, CowInv, TreeInv
    <3> QED BY <3>1 DEF RootOK, Settled, Published, Keeps, Ids, TreeOnDisk, BothInv, PV!PageInv, PV!PageTypes, TreeInFile
  <2> QED BY <2>1, <2>2
<1> QED BY <1>1, <1>2, <1>3 DEF DiskInv

LEMMA SyncedInvNext ==
  (/\ BothInv /\ writer.pc # "addPage" /\ disk = file /\ Downhill(file)
   /\ file[0] = Blank => writer.pc = "closed" /\ version = 0 /\ pending = NonePending
   => DiskInv)'
  BY SyncedInv, PTL

\* The steps that end a sync.
LEMMA SyncKeeps ==
  ASSUME BothInv, DiskInv, SyncStep
  PROVE  BothInv' /\ DiskInv'
<1>1. BothInv' /\ disk' = file /\ file' = file
  <2>1. Next /\ disk' = file /\ file' = file
    BY DEF SyncStep, Synced, Next, PutStep, SyncHead, CommitRoot, CommitWrite
  <2> QED BY <2>1, BothNext
<1>2. CowInv /\ writer.pc \in Places
  BY DEF SyncStep, SyncHead, CommitRoot, CommitWrite, Places, BothInv
<1>3. writer \in Works(Ids(file)) /\ WorkOK(file, header.root, writer) /\ file[0].kind = "header"
  BY <1>2, Working
<1>4. writer'.pc # "addPage"
  <2>1. CASE SyncHead
    <3>1. writer.then \in {"idle", "write", "writeRoot", "writeLeft"}
      BY <1>3, <2>1 DEF SyncHead, WorkOK
    <3> QED BY <1>3, <2>1, <3>1 DEF SyncHead, NoThread, Works
  <2>2. CASE CommitRoot
    BY <1>3, <2>2 DEF CommitRoot, Works
  <2>3. CASE CommitWrite
    BY <1>3, <2>3 DEF CommitWrite, Works
  <2> QED BY <2>1, <2>2, <2>3 DEF SyncStep
<1>5. Downhill(file)'
  <2>1. Downhill(file)
    BY DEF DiskInv
  <2> QED BY <1>1, <2>1 DEF Downhill, Ids, Nexts, ReadFreeList, ReadPage
<1>6. file'[0] # Blank
  BY <1>1, <1>3 DEF Blank
<1> QED BY <1>1, <1>4, <1>5, <1>6, SyncedInvNext

-----------------------------------------------------------------------------
(* The kernel writes a page back.                                          *)

\* A leaf is a tree, and a page of zeros has none below it.
LEMMA LeafTree ==
  ASSUME NEW f, FileOK(f), NEW c \in Ids(f), f[c].kind \in {"leaf", "blank"}
  PROVE  TreePages(f, c) = {c} /\ (f[c].kind = "leaf" => IsTree(f, c))
<1>1. Kids(f, c) = {}
  BY KidsAre
<1>2. TreePages(f, c) = {c}
  BY <1>1, TreeSplits
<1>3. f[c].kind = "leaf" => IsTree(f, c)
  BY <1>1, TreeAbove
<1> QED BY <1>2, <1>3

\* What each page of the disk is after the step.
LEMMA BackIs ==
  ASSUME BothInv, DiskInv, NEW p \in DOMAIN disk, WriteBack(p)
  PROVE  /\ DOMAIN disk' = DOMAIN disk /\ disk'[p] = file[p]
         /\ \A q \in DOMAIN disk \ {p} : disk'[q] = disk[q]
         /\ FileOK(disk') /\ Ids(disk') = Ids(file) /\ Ids(disk) = Ids(file)
         /\ \A q : ReadFreeList(disk', q) \in {ReadFreeList(disk, q), ReadFreeList(file, q)}
<1>1. /\ FileOK(disk) /\ FileOK(file) /\ DOMAIN disk = DOMAIN file
      /\ DOMAIN disk' = DOMAIN disk /\ disk'[p] = file[p]
      /\ \A q \in DOMAIN disk \ {p} : disk'[q] = disk[q]
  BY DiskTypes DEF WriteBack
<1> DEFINE g == disk'
<1>2. DOMAIN g = DOMAIN file /\ Ids(g) = Ids(file) /\ Ids(disk) = Ids(file)
  BY <1>1 DEF Ids
<1>3. \A q \in DOMAIN file : g[q] = disk[q] \/ g[q] = file[q]
  BY <1>1
<1>4. 0 \in DOMAIN file
  BY <1>1, FileSizeIs
<1> HIDE DEF g
<1>5. FileOK(g)
  <2>1. \E n \in Nat : DOMAIN g = 0 .. n
    BY <1>1, <1>2 DEF FileOK
  <2>2. g[0] = Blank \/ g[0] \in Headers(Ids(g))
    BY <1>1, <1>2, <1>3, <1>4 DEF FileOK
  <2>3. ASSUME NEW q \in Ids(g) PROVE PageOK(g, q)
    <3>1. PageOK(disk, q) /\ PageOK(file, q) /\ (g[q] = disk[q] \/ g[q] = file[q])
      BY <1>1, <1>2, <1>3, <2>3 DEF FileOK, Ids
    <3> QED BY <1>2, <3>1 DEF PageOK
  <2> QED BY <2>1, <2>2, <2>3 DEF FileOK
<1>6. ASSUME NEW q PROVE ReadFreeList(g, q) \in {ReadFreeList(disk, q), ReadFreeList(file, q)}
  <2>1. CASE q \in DOMAIN file
    <3>1. q \in DOMAIN g /\ q \in DOMAIN disk
      BY <1>1, <1>2, <2>1
    <3>2. CASE g[q] = disk[q]
      BY <3>1, <3>2, ReadSame
    <3>3. CASE g[q] = file[q]
      BY <2>1, <3>1, <3>3, ReadSame
    <3> QED BY <1>3, <2>1, <3>2, <3>3
  <2>2. CASE q \notin DOMAIN file
    BY <1>1, <1>2, <2>2 DEF ReadFreeList, ReadPage, Blank
  <2> QED BY <2>1, <2>2
<1> QED BY <1>1, <1>2, <1>5, <1>6 DEF g

\* The root on the disk is still one of those RootOK allows.
LEMMA BackRoot ==
  ASSUME BothInv, DiskInv, NEW p \in DOMAIN disk, WriteBack(p)
  PROVE  RootOK' /\ TreeOnDisk' \subseteq TreeOnDisk \cup TreeInFile /\ HeadOnDisk' \in {HeadOnDisk, SavedHead}
<1>1. /\ FileOK(disk) /\ FileOK(file) /\ DOMAIN disk = DOMAIN file /\ 0 \in DOMAIN file
      /\ DOMAIN disk' = DOMAIN disk /\ FileOK(disk') /\ Ids(disk') = Ids(file) /\ Ids(disk) = Ids(file)
      /\ disk'[p] = file[p] /\ \A q \in DOMAIN disk \ {p} : disk'[q] = disk[q]
      /\ p \in DOMAIN file /\ disk[p] # file[p] /\ UNCHANGED vars
  BY BackIs, DiskTypes, FileSizeIs DEF WriteBack
<1>2. \A q \in DOMAIN file : disk'[q] \in {disk[q], file[q]}
  BY <1>1
<1>3. UNCHANGED <<file, header, version, pending, writer>>
  BY <1>1 DEF vars
<1>4. HeadOnDisk' \in {HeadOnDisk, SavedHead}
  BY <1>1, <1>2 DEF HeadOnDisk, SavedHead
<1>5. file[0].kind = "header" => file[0].root \in Ids(file) /\ IsTree(file, file[0].root)
  BY <1>1, KindOf DEF Headers, BothInv, CowInv, TreeInv
<1>6. CASE NoRoot
  <2>1. p # 0 /\ disk'[0] = Blank /\ file'[0] = Blank
    BY <1>1, <1>3, <1>6 DEF NoRoot
  <2>2. writer.pc = "createHeader" => header.root \in DOMAIN file
    BY DEF BothInv, CowInv, HeaderInv, Ids
  <2>3. writer.pc = "createHeader" => disk'[header.root] \in {Blank, file[header.root]}
    BY <1>2, <1>6, <2>2 DEF NoRoot
  <2>4. NoRoot'
    BY <1>3, <1>6, <2>1, <2>3 DEF NoRoot
  <2> QED BY <1>4, <2>1, <2>4 DEF RootOK, TreeOnDisk, Blank
<1>7. CASE Young
  <2> DEFINE r == file[0].root
  <2>1. r \in Ids(file) /\ disk'[0] \in {Blank, file[0]} /\ disk'[r] \in {Blank, file[r]} /\ file[r].kind = "leaf"
    BY <1>1, <1>2, <1>5, <1>7 DEF Young, Ids
  <2>2. Young'
    BY <1>3, <1>7, <2>1 DEF Young, At
  <2>3. TreePages(disk', r) = {r} /\ TreeInFile = {r}
    <3>1. disk'[r].kind \in {"leaf", "blank"} /\ r \in Ids(disk')
      BY <1>1, <2>1 DEF Blank
    <3>2. TreePages(file, r) = {r}
      BY <1>1, <2>1, LeafTree
    <3>3. TreePages(disk', r) = {r}
      BY <1>1, <3>1, LeafTree
    <3> QED BY <1>7, <3>2, <3>3 DEF TreeInFile, Young
  <2>4. TreeOnDisk' \subseteq TreeInFile
    <3>1. CASE disk'[0] = Blank
      BY <3>1 DEF TreeOnDisk, Blank
    <3>2. CASE disk'[0] = file[0]
      <4>1. disk'[0].root = r
        BY <3>2
      <4>2. TreeOnDisk' \subseteq TreePages(disk', r)
        BY <4>1 DEF TreeOnDisk
      <4> QED BY <2>3, <4>2
    <3> QED BY <2>1, <3>1, <3>2
  <2> QED BY <1>4, <2>2, <2>4 DEF RootOK
<1>8. CASE Settled
  <2>1. /\ disk'[0].kind = "header" /\ disk'[0].root = disk[0].root /\ disk[0].root = file[0].root
        /\ disk[0].kind = "header" /\ file[0].kind = "header"
    BY <1>1, <1>2, <1>8 DEF Settled
  <2> DEFINE r == disk[0].root
  <2>2. TreeOnDisk = TreePages(disk, r) /\ IsTree(disk, r) /\ TreePages(disk, r) \subseteq Ids(file)
    BY <1>1, <1>8, <2>1, TreeBasics DEF TreeOnDisk, Settled, IsTree
  <2>3. \A q \in TreePages(disk, r) : q \in DOMAIN file /\ disk'[q] = disk[q] /\ file[q] = disk[q]
    BY <1>2, <1>8, <2>2 DEF Settled, Keeps, Ids
  <2>4. IsTree(disk', r) /\ TreePages(disk', r) = TreePages(disk, r)
    BY <1>1, <2>2, <2>3, TreeKeeps DEF Keeps
  <2>5. TreeOnDisk' = TreePages(disk', disk'[0].root)
    BY <2>1 DEF TreeOnDisk
  <2>6. TreeOnDisk' = TreeOnDisk /\ IsTree(disk', disk'[0].root)
    BY <2>1, <2>2, <2>4, <2>5
  <2>7. Keeps(disk', file, TreeOnDisk')
    BY <2>2, <2>3, <2>6 DEF Keeps
  <2>8. Settled'
    BY <1>3, <1>8, <2>1, <2>6, <2>7 DEF Settled, IsTree, IsRooted, IsReach, Closed, Ids, Keeps
  <2> QED BY <1>4, <2>6, <2>8 DEF RootOK
<1>9. CASE Published
  <2>1. p = 0 /\ file[0].kind = "header"
    <3>1. p = 0
      BY <1>1, <1>9 DEF Published, Ids
    <3>2. writer.pc \in Places
      BY <1>9 DEF Published, Places
    <3> QED BY <3>1, <3>2, Working DEF BothInv
  <2> DEFINE r == file[0].root
  <2>2. disk'[0] = file[0] /\ \A q \in Ids(file) : disk'[q] = file[q]
    BY <1>1, <1>9, <2>1 DEF Published, Ids
  <2>3. TreePages(file, r) \subseteq Ids(file) /\ IsTree(file, r) /\ TreeInFile = TreePages(file, r)
    BY <1>1, <1>5, <2>1, TreeBasics DEF TreeInFile
  <2>4. Keeps(file, disk', TreePages(file, r))
    BY <1>1, <2>2, <2>3 DEF Keeps, Ids
  <2>5. IsTree(disk', r) /\ TreePages(disk', r) = TreePages(file, r)
    BY <1>1, <2>3, <2>4, TreeKeeps
  <2>6. TreeOnDisk' = TreePages(disk', disk'[0].root)
    BY <2>1, <2>2 DEF TreeOnDisk
  <2>7. TreeOnDisk' = TreeInFile /\ IsTree(disk', disk'[0].root) /\ disk'[0].kind = "header"
    BY <2>1, <2>2, <2>3, <2>5, <2>6
  <2>8. Published'
    BY <1>3, <1>9, <2>2, <2>7 DEF Published, IsTree, IsRooted, IsReach, Closed, Ids
  <2> QED BY <1>4, <2>7, <2>8 DEF RootOK
<1> QED BY <1>6, <1>7, <1>8, <1>9 DEF DiskInv, RootOK

\* A page is written back.
LEMMA BackKeeps ==
  ASSUME BothInv, DiskInv, NEW p \in DOMAIN disk, WriteBack(p)
  PROVE  BothInv' /\ DiskInv'
<1>1. BothInv' /\ UNCHANGED vars
  BY BothNext DEF WriteBack
<1>2. /\ DOMAIN disk' = DOMAIN disk /\ FileOK(disk') /\ Ids(disk') = Ids(file)
      /\ Ids(disk) = Ids(file) /\ DOMAIN disk = DOMAIN file
      /\ \A q : ReadFreeList(disk', q) \in {ReadFreeList(disk, q), ReadFreeList(file, q)}
  BY BackIs, DiskTypes
<1>3. /\ UNCHANGED <<file, WithAdded, SavedHead, MemHead, InUse, FreedPages>>
  BY <1>1 DEF vars, WithAdded, SavedHead, MemHead, InUse, FreedPages, TreeInMemory, TreeInFile,
              CommittedOrphans, PendingPages
<1>4. Downhill(disk') /\ Downhill(file) /\ Downhill(WithAdded)
  <2>1. Downhill(disk) /\ Downhill(file) /\ Downhill(WithAdded)
    BY DEF DiskInv
  <2>2. \A q : Nexts(disk', q) \in {Nexts(disk, q), Nexts(file, q)}
    BY <1>2 DEF Nexts
  <2> QED BY <1>2, <2>1, <2>2 DEF Downhill
<1>5. RootOK' /\ TreeOnDisk' \subseteq TreeOnDisk \cup TreeInFile /\ HeadOnDisk' \in {HeadOnDisk, SavedHead}
  BY BackRoot
<1>6. PICK S : ListsOnDisk(S)
  BY DEF DiskInv
<1>7. Barred' \subseteq Barred
  BY <1>3, <1>5 DEF Barred, InUse
<1> DEFINE G == {disk', file, WithAdded}
           K == {HeadOnDisk', SavedHead, MemHead}
           C == Barred'
           F == Versions
<1>8. ASSUME NEW q \in S
      PROVE  /\ \A g \in G : Nexts(g, q) \subseteq S /\ Distinct(IdsOf(g, q))
             /\ Listed(G, q) \subseteq Listed(F, q)
  <2>1. \A g \in F : Nexts(g, q) \subseteq S /\ Distinct(IdsOf(g, q))
    BY <1>6 DEF ListsOnDisk, ListsApart
  <2>2. \A g \in G : \E f \in F : Nexts(g, q) = Nexts(f, q) /\ IdsOf(g, q) = IdsOf(f, q)
    BY <1>2 DEF Nexts, IdsOf, Versions
  <2> HIDE DEF G, F
  <2> QED BY <2>1, <2>2 DEF Listed
<1>9. K \subseteq S \cup {0}
  BY <1>5, <1>6 DEF ListsOnDisk, ListsApart, Heads
<1>10. ListsApart(S, G, K, C)
  <2>1. S \cap C = {} /\ ListsApart(S, F, Heads, Barred)
    BY <1>6, <1>7 DEF ListsOnDisk, ListsApart
  <2> HIDE DEF G, K, C, F
  <2>2. \A q \in S : Listed(G, q) \cap (S \cup C) = {}
    BY <1>7, <1>8, <2>1 DEF ListsApart, C
  <2>3. \A q, r \in S : q # r => Listed(G, q) \cap Listed(G, r) = {}
    BY <1>8, <2>1 DEF ListsApart
  <2> QED BY <1>8, <1>9, <2>1, <2>2, <2>3 DEF ListsApart
<1>11. ListsOnDisk(S)'
  <2>1. G = Versions' /\ K = Heads' /\ C = Barred' /\ S \subseteq Ids(file)'
    BY <1>3, <1>6 DEF Versions, Heads, ListsOnDisk, Ids
  <2>2. ListsApart(S, Versions', Heads', Barred')
    BY <1>10, <2>1
  <2> HIDE DEF G, K, C
  <2> QED BY <2>1, <2>2 DEF ListsOnDisk, ListsApart, Ids, Listed, Nexts, IdsOf, ReadFreeList, ReadPage
<1>12. DiskInv'
  <2>1. Downhill(disk)' /\ Downhill(file)' /\ Downhill(WithAdded)'
    BY <1>3, <1>4 DEF Downhill, Ids, Nexts, ReadFreeList, ReadPage
  <2>2. FileOK(disk)' /\ (DOMAIN disk = DOMAIN file)'
    BY <1>2, <1>3 DEF FileOK, PageOK, Ids
  <2> QED BY <1>5, <1>11, <2>1, <2>2 DEF DiskInv
<1> QED BY <1>1, <1>12

-----------------------------------------------------------------------------
(* The root, in the steps that write to the map only.                      *)

\* The header stays while put makes its copies.
LEMMA HeaderStays ==
  ASSUME BothInv, BothInv', IsOpen, IsOpen',
         writer.pc \notin {"addPage", "publishHead", "publishRoot"},
         writer'.pc \notin {"addPage", "publishHead", "publishRoot"},
         header'.root = header.root, header'.head = header.head
  PROVE  file'[0] = file[0]
<1>1. FileOK(file) /\ FileOK(file')
  BY CowTypes, NextTypes
<1>2. 0 \in DOMAIN file /\ 0 \in DOMAIN file'
  BY <1>1, FileSizeIs
<1>3. file[0].kind = "header" /\ file[0].root = header.root /\ file[0].head = header.head
  BY DEF BothInv, CowInv, HeaderInv
<1>4. file'[0].kind = "header" /\ file'[0].root = header'.root /\ file'[0].head = header'.head
  BY DEF BothInv, CowInv, HeaderInv, IsOpen
<1>5. file[0] \in Headers(Ids(file)) /\ file'[0] \in Headers(Ids(file'))
  BY <1>1, <1>2, <1>3, <1>4, KindOf
<1> QED BY <1>3, <1>4, <1>5 DEF Headers

\* What the disk has stays as it is.
LEMMA DiskStays ==
  ASSUME OnMap
  PROVE  /\ FileOK(disk) /\ FileOK(disk') /\ FileOK(file) /\ FileOK(file')
         /\ DOMAIN disk = DOMAIN file /\ DOMAIN disk' = DOMAIN file' /\ DOMAIN file \subseteq DOMAIN file'
         /\ \A q \in DOMAIN file : disk'[q] = disk[q]
         /\ \A q \in DOMAIN file' \ DOMAIN file : disk'[q] = Blank
         /\ 0 \in DOMAIN file /\ TreeOnDisk' = TreeOnDisk
         /\ \A q \in TreeInMemory \cup TreeInFile : file'[q] = file[q]
<1>1. /\ FileOK(file') /\ DOMAIN file \subseteq DOMAIN file' /\ Keeps(file, file', TreeInMemory \cup TreeInFile)
  BY NextTypes, TreesKept DEF OnMap
<1>2. FileOK(disk) /\ FileOK(file) /\ DOMAIN disk = DOMAIN file /\ 0 \in DOMAIN file
  BY DiskTypes, FileSizeIs DEF OnMap
<1>3. /\ FileOK(disk') /\ TreeOnDisk' = TreeOnDisk
      /\ DOMAIN disk' = DOMAIN file' /\ \A q \in DOMAIN disk : disk'[q] = disk[q]
  BY <1>1, DiskFileOK, DiskIsLike DEF OnMap
<1>4. \A q \in DOMAIN file' \ DOMAIN file : disk'[q] = Blank
  BY <1>2 DEF Unsynced, OnMap
<1> QED BY <1>1, <1>2, <1>3, <1>4 DEF Keeps

\* A root that is on the disk stays there, ...
LEMMA SettledGo ==
  ASSUME OnMap, Settled, writer'.pc \notin {"publishRoot", "commitWrite"},
         file'[0].kind = "header", file'[0].root = file[0].root
  PROVE  Settled'
<1>1. /\ FileOK(disk) /\ FileOK(disk') /\ FileOK(file) /\ FileOK(file')
      /\ DOMAIN disk = DOMAIN file /\ DOMAIN disk' = DOMAIN file' /\ DOMAIN file \subseteq DOMAIN file'
      /\ \A q \in DOMAIN file : disk'[q] = disk[q]
      /\ 0 \in DOMAIN file /\ TreeOnDisk' = TreeOnDisk
      /\ \A q \in TreeInMemory \cup TreeInFile : file'[q] = file[q]
  BY DiskStays
<1>2. disk'[0] = disk[0] /\ disk[0].kind = "header" /\ disk[0].root = file[0].root
  BY <1>1 DEF Settled
<1> DEFINE r == disk[0].root
<1>3. IsTree(disk, r) /\ TreeOnDisk = TreePages(disk, r) /\ TreePages(disk, r) \subseteq DOMAIN file
      /\ TreeOnDisk = TreeInFile
  BY <1>1, <1>2, SettledTree, TreeBasics DEF Settled, TreeOnDisk, IsTree, Ids, OnMap
<1>4. Keeps(disk, disk', TreePages(disk, r))
  BY <1>1, <1>3 DEF Keeps
<1>5. IsTree(disk', r)
  BY <1>1, <1>3, <1>4, TreeKeeps
<1>6. Keeps(disk', file', TreeOnDisk')
  <2>1. \A q \in TreeOnDisk : q \in DOMAIN file /\ file'[q] = file[q] /\ disk'[q] = disk[q] /\ file[q] = disk[q]
    BY <1>1, <1>3 DEF Settled, Keeps
  <2> QED BY <1>1, <2>1 DEF Keeps
<1> QED BY <1>1, <1>2, <1>5, <1>6 DEF Settled, IsTree, IsRooted, IsReach, Closed, Ids, Keeps

\* ... while the next one is published, ...
LEMMA PublishedGo ==
  ASSUME OnMap, Published, writer'.pc \in {"publishRoot", "commitWrite"},
         \A q \in Ids(file') : q \in DOMAIN file /\ file'[q] = file[q]
  PROVE  Published'
<1>1. /\ FileOK(disk) /\ FileOK(disk')
      /\ DOMAIN disk = DOMAIN file /\ DOMAIN disk' = DOMAIN file' /\ DOMAIN file \subseteq DOMAIN file'
      /\ \A q \in DOMAIN file : disk'[q] = disk[q] /\ 0 \in DOMAIN file
  BY DiskStays
<1>2. disk'[0] = disk[0] /\ disk[0].kind = "header"
  BY <1>1, DiskStays DEF Published
<1> DEFINE r == disk[0].root
<1>3. IsTree(disk, r) /\ TreePages(disk, r) \subseteq DOMAIN file
  BY <1>1, TreeBasics DEF Published, IsTree, Ids
<1>4. Keeps(disk, disk', TreePages(disk, r))
  BY <1>1, <1>3 DEF Keeps
<1>5. IsTree(disk', r)
  BY <1>1, <1>3, <1>4, TreeKeeps
<1>6. \A q \in Ids(file') : disk'[q] = file'[q]
  BY <1>1 DEF Published, Ids
<1> QED BY <1>2, <1>5, <1>6 DEF Published, IsTree, IsRooted, IsReach, Closed, Ids

\* ... and when there is none yet.
LEMMA YoungGo ==
  ASSUME OnMap, Young, file'[0] = file[0], version' = 0, pending' = NonePending,
         \/ writer' \in NoWork
         \/ ~writer'.committed /\ At(writer)' \in {"descend", "commitRoot"} \cup Upward
  PROVE  Young'
<1> DEFINE r == file[0].root
<1>1. /\ FileOK(file) /\ 0 \in DOMAIN file
      /\ \A q \in DOMAIN file : disk'[q] = disk[q]
      /\ \A q \in TreeInMemory \cup TreeInFile : file'[q] = file[q]
  BY DiskStays
<1>2. r \in DOMAIN file /\ r \in TreeInFile
  <2>1. r \in Ids(file) /\ file[0].kind = "header"
    BY <1>1, KindOf DEF Young, Headers
  <2> QED BY <1>1, <2>1, TreeBasics DEF TreeInFile, Ids
<1>3. file'[r] = file[r] /\ disk'[r] = disk[r] /\ disk'[0] = disk[0]
  BY <1>1, <1>2
<1> QED BY <1>3 DEF Young, At

\* Nothing has been retired, so there is nothing to collect.
LEMMA NoneReclaimed ==
  ASSUME version = 0, pending = NonePending
  PROVE  Reclaimable = <<>> /\ StillPending = NonePending
<1>1. Reclaimable = Collected(NonePending, 0, DOMAIN NonePending \cap Retired)
  BY DEF Reclaimable, Collected
<1>2. DOMAIN NonePending = {}
  BY DEF NonePending
<1>3. PendingOK(NonePending, 0, {})
  BY <1>2 DEF PendingOK
<1>4. /\ Collected(NonePending, 0, {}) \in Seq({})
  BY <1>2, <1>3, CollectedIs
<1>5. Reclaimable = <<>>
  <2>1. Reclaimable \in Seq({})
    BY <1>1, <1>2, <1>4
  <2>2. Len(Reclaimable) = 0
    BY <2>1
  <2> QED BY <2>1, <2>2
<1>6. StillPending = NonePending
  BY <1>2 DEF StillPending, NonePending
<1> QED BY <1>5, <1>6

\* The steps on the map keep RootOK: a new file is made.
LEMMA RootNoRoot ==
  ASSUME OnMap, NoRoot, OpenTree \/ CreateRoot \/ CreateHeader
  PROVE  RootOK'
<1>1. /\ FileOK(file) /\ 0 \in DOMAIN file /\ DOMAIN disk = DOMAIN file
      /\ \A q \in DOMAIN file : disk'[q] = disk[q]
      /\ \A q \in DOMAIN file' \ DOMAIN file : disk'[q] = Blank
      /\ FileSize(file) \notin DOMAIN file /\ FileSize(file) # 0
  BY DiskStays, FileSizeIs
<1>2. file[0] = Blank /\ disk'[0] = Blank
  BY <1>1 DEF NoRoot
<1>3. ~OpenTree
  BY <1>2 DEF OpenTree, Blank
<1>4. CASE CreateRoot
  <2> DEFINE n == FileSize(file)
  <2>1. /\ file' = [GrowFile(file) EXCEPT ![n] = Leaf(<<>>, <<>>)] /\ header'.root = n
        /\ writer'.pc = "createHeader" /\ UNCHANGED <<version, pending>>
    BY <1>4 DEF CreateRoot
  <2>2. DOMAIN GrowFile(file) = DOMAIN file \cup {n} /\ \A q \in DOMAIN file : GrowFile(file)[q] = file[q]
    BY <1>1, GrowIs
  <2> HIDE DEF n
  <2>3. file'[n] = Leaf(<<>>, <<>>) /\ n \in DOMAIN file'
    BY <2>1, <2>2
  <2>4. file'[0] = Blank
    BY <1>1, <1>2, <2>1, <2>2 DEF n
  <2>5. disk'[n] = Blank
    BY <1>1, <2>3 DEF n
  <2>6. file'[n].kind = "leaf"
    BY <2>3 DEF Leaf
  <2>7. NoRoot'
    BY <1>2, <2>1, <2>3, <2>4, <2>5, <2>6 DEF NoRoot
  <2> QED BY <2>7 DEF RootOK
<1>5. CASE CreateHeader
  <2>1. /\ file' = [file EXCEPT ![0] = Header(header.root, header.head)] /\ writer' = NoThread
        /\ writer.pc = "createHeader" /\ UNCHANGED <<version, pending, header>>
    BY <1>5 DEF CreateHeader
  <2>2. header.root \in Ids(file) /\ header.head = 0
    BY <2>1 DEF OnMap, BothInv, CowInv, HeaderInv
  <2>3. file'[0] = Header(header.root, 0) /\ file'[header.root] = file[header.root]
    BY <1>1, <2>1, <2>2 DEF Ids
  <2>4. disk'[header.root] = disk[header.root]
    BY <1>1, <2>2 DEF Ids
  <2>5. /\ file'[0].kind = "header" /\ file'[0].head = 0 /\ file'[0].root = header.root
    BY <2>3 DEF Header
  <2>6. writer' \in NoWork
    BY <2>1 DEF NoWork
  <2>7. Young'
    BY <1>2, <2>1, <2>3, <2>4, <2>5, <2>6 DEF Young, NoRoot
  <2> QED BY <2>7 DEF RootOK
<1> QED BY <1>3, <1>4, <1>5

\* The file is opened.
LEMMA RootOpen ==
  ASSUME OnMap, Young \/ Settled, OpenTree
  PROVE  RootOK'
<1>1. file' = file /\ writer' = NoThread /\ UNCHANGED <<version, pending>>
  BY DEF OpenTree
<1>2. Young => Young'
  BY <1>1, YoungGo DEF NoWork, Young
<1>3. Settled => Settled'
  BY <1>1, SettledGo DEF NoThread, Settled
<1> QED BY <1>2, <1>3 DEF RootOK

\* Retired pages are collected.
LEMMA RootCollect ==
  ASSUME OnMap, Young \/ Settled, (\E k \in Key, v \in Value : StartPut(k, v)) \/ ReclaimAtOnce
  PROVE  RootOK'
<1>1. file' = file /\ version' = version /\ pending' = StillPending
  BY DEF StartPut, ReclaimAtOnce
<1>2. CASE \E k \in Key, v \in Value : StartPut(k, v)
  <2>1. PICK k \in Key, v \in Value : StartPut(k, v)
    BY <1>2
  <2>2. writer'.pc \in {"descend", "addFree"} /\ (Reclaimable = <<>> => writer'.pc = "descend")
        /\ writer'.committed = FALSE
    BY <2>1 DEF StartPut, Work
  <2>3. Settled => Settled'
    BY <1>1, <2>2, SettledGo DEF Settled
  <2>4. Young => Young'
    <3> SUFFICES ASSUME Young PROVE Young'
      OBVIOUS
    <3>1. version = 0 /\ pending = NonePending
      BY DEF Young
    <3>2. Reclaimable = <<>> /\ StillPending = NonePending
      BY <3>1, NoneReclaimed
    <3>3. ~writer'.committed /\ At(writer)' \in {"descend", "commitRoot"} \cup Upward
      BY <2>2, <3>2 DEF At
    <3> QED BY <1>1, <3>1, <3>2, <3>3, YoungGo
  <2> QED BY <2>3, <2>4 DEF RootOK
<1>3. CASE ReclaimAtOnce
  <2>1. writer.pc = "reclaim" /\ writer \in Works(Ids(file))
    BY <1>3, Working DEF ReclaimAtOnce, OnMap, BothInv, Places
  <2>2. writer'.pc \in {"idle", "addFree"}
    BY <1>3, <2>1 DEF ReclaimAtOnce, NoThread, Works
  <2>3. Settled
    BY <2>1 DEF Young, NoWork, NoThread, At, Upward
  <2>4. Settled'
    BY <1>1, <2>2, <2>3, SettledGo DEF Settled
  <2> QED BY <2>4 DEF RootOK
<1> QED BY <1>2, <1>3

\* The root that put started from is on the disk until the next is published.
LEMMA SettledStays ==
  ASSUME OnMap, Settled, IsOpen, IsOpen', writer.pc # "publishRoot",
         writer'.pc \notin {"publishRoot", "commitWrite"}, header'.root = header.root
  PROVE  Settled'
<1>1. file[0].root = header.root
  BY DEF OnMap, BothInv, CowInv, HeaderInv
<1>2. file'[0].kind = "header" /\ file'[0].root = header'.root
  BY DEF OnMap, BothInv, CowInv, HeaderInv, IsOpen
<1> QED BY <1>1, <1>2, SettledGo

\* A page of the tree is read or written.
LEMMA RootCopy ==
  ASSUME OnMap, Descend \/ WriteNode \/ WriteLeft \/ WriteRight \/ WriteRoot
  PROVE  RootOK'
<1>1. writer.pc \in Upward \cup {"descend"} /\ header' = header /\ UNCHANGED <<version, pending>>
  BY DEF Descend, WriteNode, WriteLeft, WriteRight, WriteRoot, Upward
<1>2. writer' = NoThread \/ (writer'.pc \in Copying /\ writer'.committed = writer.committed)
  BY CopyPlaces DEF OnMap, BothInv
<1>3. IsOpen /\ IsOpen' /\ writer.pc \notin {"addPage", "publishHead", "publishRoot"}
      /\ writer'.pc \notin {"addPage", "publishHead", "publishRoot", "commitWrite"}
  BY <1>1, <1>2 DEF IsOpen, NoThread, Copying, Upward
<1>4. writer \notin NoWork
  BY <1>1 DEF NoWork, NoThread, Upward
<1>5. Settled \/ Young
  BY <1>1 DEF OnMap, DiskInv, RootOK, NoRoot, Published, Upward
<1>6. CASE Settled
  BY <1>1, <1>3, <1>6, SettledStays DEF RootOK
<1>7. CASE Young
  <2>1. file'[0] = file[0]
    BY <1>1, <1>3, HeaderStays DEF OnMap
  <2>2. version' = 0 /\ pending' = NonePending /\ ~writer.committed
    BY <1>1, <1>4, <1>7 DEF Young
  <2>3. writer' \in NoWork \/ (~writer'.committed /\ At(writer)' \in {"descend", "commitRoot"} \cup Upward)
    <3>1. CASE writer' = NoThread
      BY <3>1 DEF NoWork
    <3>2. CASE writer'.pc \in Copying /\ writer'.committed = writer.committed
      BY <2>2, <3>2 DEF At, Copying, Upward
    <3> QED BY <1>2, <3>1, <3>2
  <2>4. Young'
    BY <1>7, <2>1, <2>2, <2>3, YoungGo
  <2> QED BY <2>4 DEF RootOK
<1> QED BY <1>5, <1>6, <1>7

\* Where put is when it holds a page, or has raised.
LEMMA AllocatePlaces ==
  ASSUME OnMap, AllocateNode \/ SplitNode
  PROVE  /\ header'.root = header.root /\ (header.head = 0 => header'.head = 0)
         /\ \/ writer' = NoThread
            \/ /\ writer'.pc \in {"sync", "write", "writeRoot", "writeLeft"}
               /\ At(writer)' \in {"write", "writeRoot", "writeLeft"}
               /\ writer'.committed = writer.committed
<1>1. CowInv /\ writer.pc \in {"allocate", "allocateRoot", "write"} /\ writer.pc \in Places
  BY DEF AllocateNode, SplitNode, OnMap, BothInv, Places
<1>2. writer \in Works(Ids(file)) /\ header.head \in Ids(file) \cup {0}
      /\ header \in [root : Ids(file), head : Ids(file) \cup {0}]
  BY <1>1, Working DEF CowInv, HeaderInv
<1> DEFINE a == AllocatePage(file, header.head)
<1>3. header.head = 0 => a.head = 0
  BY DEF AllocatePage
<1>7. [header EXCEPT !.head = a.head].root = header.root /\ [header EXCEPT !.head = a.head].head = a.head
  BY <1>2
<1>8. header' = header \/ header' = [header EXCEPT !.head = a.head]
  BY DEF AllocateNode, SplitNode, a
<1>9. CASE AllocateNode
  <2>1. GoOn([writer EXCEPT !.new = a.id], a, IF writer.pc = "allocate" THEN "write" ELSE "writeRoot")
    BY <1>9 DEF AllocateNode, a
  <2>2. /\ writer'.pc \in {"sync", "write", "writeRoot", "writeLeft"}
        /\ At(writer)' \in {"write", "writeRoot", "writeLeft"}
        /\ writer'.committed = writer.committed
    BY <1>2, <2>1 DEF GoOn, Works, At
  <2> QED BY <1>3, <1>7, <1>8, <2>2
<1>10. CASE SplitNode
  <2>1. writer' = NoThread \/ GoOn([writer EXCEPT !.right = a.id], a, "writeLeft")
    BY <1>10 DEF SplitNode, PutRaises, a
  <2>2. CASE writer' = NoThread
    BY <1>3, <1>7, <1>8, <2>2
  <2>3. CASE GoOn([writer EXCEPT !.right = a.id], a, "writeLeft")
    <3>1. /\ writer'.pc \in {"sync", "write", "writeRoot", "writeLeft"}
          /\ At(writer)' \in {"write", "writeRoot", "writeLeft"}
          /\ writer'.committed = writer.committed
      BY <1>2, <2>3 DEF GoOn, Works, At
    <3> QED BY <1>3, <1>7, <1>8, <3>1
  <2> QED BY <2>1, <2>2, <2>3
<1> QED BY <1>9, <1>10

\* A page is allocated.
LEMMA RootAllocate ==
  ASSUME OnMap, AllocateNode \/ SplitNode
  PROVE  RootOK'
<1>1. writer.pc \in {"allocate", "allocateRoot", "write"} /\ UNCHANGED <<version, pending>>
  BY DEF AllocateNode, SplitNode
<1>2. /\ header'.root = header.root /\ (header.head = 0 => header'.head = 0)
      /\ \/ writer' = NoThread
         \/ /\ writer'.pc \in {"sync", "write", "writeRoot", "writeLeft"}
            /\ At(writer)' \in {"write", "writeRoot", "writeLeft"}
            /\ writer'.committed = writer.committed
  BY AllocatePlaces
<1>3. IsOpen /\ IsOpen' /\ writer.pc \notin {"addPage", "publishHead", "publishRoot"}
      /\ writer'.pc \notin {"addPage", "publishHead", "publishRoot", "commitWrite"}
  BY <1>1, <1>2 DEF IsOpen, NoThread
<1>4. writer \notin NoWork
  BY <1>1 DEF NoWork, NoThread
<1>5. Settled \/ Young
  BY <1>1 DEF OnMap, DiskInv, RootOK, NoRoot, Published
<1>6. CASE Settled
  BY <1>2, <1>3, <1>6, SettledStays DEF RootOK
<1>7. CASE Young
  <2>1. header.head = 0
    BY <1>3, <1>7 DEF Young, OnMap, BothInv, CowInv, HeaderInv
  <2>2. file'[0] = file[0]
    BY <1>2, <1>3, <2>1, HeaderStays DEF OnMap
  <2>3. version' = 0 /\ pending' = NonePending /\ ~writer.committed
    BY <1>1, <1>4, <1>7 DEF Young
  <2>4. writer' \in NoWork \/ (~writer'.committed /\ At(writer)' \in {"descend", "commitRoot"} \cup Upward)
    <3>1. CASE writer' = NoThread
      BY <3>1 DEF NoWork
    <3>2. CASE writer' # NoThread
      <4>1. At(writer)' \in Upward /\ writer'.committed = writer.committed
        BY <1>2, <3>2 DEF Upward
      <4> QED BY <2>3, <4>1
    <3> QED BY <3>1, <3>2
  <2>5. Young'
    BY <1>7, <2>2, <2>3, <2>4, YoungGo
  <2> QED BY <2>5 DEF RootOK
<1> QED BY <1>5, <1>6, <1>7

\* A page of the list is written, or its head.
LEMMA RootList ==
  ASSUME OnMap, TakeFreeList \/ AddFreePage \/ WriteFreeList \/ PublishHead
  PROVE  RootOK'
<1>1. CowInv /\ writer.pc \in {"addFree", "addPage", "publishHead"} /\ writer.pc \in Places
  BY DEF TakeFreeList, AddFreePage, WriteFreeList, PublishHead, OnMap, BothInv, Places
<1>2. writer \in Works(Ids(file)) /\ header \in [root : Ids(file), head : Ids(file) \cup {0}]
  BY <1>1, Working DEF CowInv, HeaderInv
<1>3. header'.root = header.root
  BY <1>2 DEF TakeFreeList, AddFreePage, WriteFreeList, PublishHead
<1>4. writer'.pc \in {"addPage", "publishHead", "sync", "descend"}
  <2>1. CASE TakeFreeList
    BY <1>2, <2>1 DEF TakeFreeList, Works
  <2>2. CASE AddFreePage
    BY <1>2, <2>2 DEF AddFreePage, Works
  <2>3. CASE WriteFreeList
    BY <1>2, <2>3 DEF WriteFreeList, Works
  <2>4. CASE PublishHead
    BY <1>2, <2>4 DEF PublishHead, Works
  <2> QED BY <2>1, <2>2, <2>3, <2>4
<1>5. Settled
  BY <1>1 DEF OnMap, DiskInv, RootOK, NoRoot, Published, Young, NoWork, NoThread, At, Upward
<1>6. IsOpen /\ IsOpen'
  BY <1>1, <1>4 DEF IsOpen
<1> QED BY <1>1, <1>3, <1>4, <1>5, <1>6, SettledStays DEF RootOK

\* The root is published.
LEMMA RootPublish ==
  ASSUME OnMap, PublishRoot
  PROVE  RootOK'
<1>1. CowInv /\ writer.pc = "publishRoot" /\ writer.pc \in Places /\ file' = [file EXCEPT ![0].root = header.root]
  BY DEF PublishRoot, OnMap, BothInv, Places
<1>2. writer'.pc = "commitWrite"
  BY <1>1, Working DEF PublishRoot, Works
<1>3. Published
  BY <1>1 DEF OnMap, DiskInv, RootOK, NoRoot, Settled, Young, NoWork, NoThread, At, Upward
<1>4. \A q \in Ids(file') : q \in DOMAIN file /\ file'[q] = file[q]
  BY <1>1 DEF Ids
<1> QED BY <1>2, <1>3, <1>4, PublishedGo DEF RootOK

\* A version is pinned or given up.
LEMMA RootRead ==
  ASSUME OnMap, NEW r \in Reader, Pin(r) \/ EndRead(r)
  PROVE  RootOK'
<1>1. UNCHANGED <<file, header, version, pending, writer>>
  BY DEF Pin, EndRead
<1>2. IsOpen
  BY DEF Pin, EndRead, OnMap, BothInv, CowInv, ReaderInv, NoThread
<1>3. ~NoRoot
  BY <1>2 DEF NoRoot, IsOpen
<1>4. CASE Young
  <2>1. writer' \in NoWork \/ (~writer'.committed /\ At(writer)' \in {"descend", "commitRoot"} \cup Upward)
    BY <1>1, <1>4 DEF Young, At
  <2> QED BY <1>1, <1>4, <2>1, YoungGo DEF RootOK, Young
<1>5. CASE Settled
  BY <1>1, <1>5, SettledGo DEF RootOK, Settled
<1>6. CASE Published
  <2>1. \A q \in Ids(file') : q \in DOMAIN file /\ file'[q] = file[q]
    BY <1>1 DEF Ids
  <2> QED BY <1>1, <1>6, <2>1, PublishedGo DEF RootOK, Published
<1> QED BY <1>3, <1>4, <1>5, <1>6 DEF OnMap, DiskInv, RootOK

-----------------------------------------------------------------------------
(* The steps that write to the map only, together.                         *)

\* A new file has no list.
LEMMA CreateLists ==
  ASSUME OnMap, CreateRoot
  PROVE  NoRoot /\ ListsGo
<1> DEFINE n == FileSize(file)
<1>1. /\ FileOK(file) /\ FileOK(file') /\ 0 \in DOMAIN file /\ DOMAIN file \subseteq DOMAIN file'
      /\ disk'[0] = disk[0] /\ n \notin DOMAIN file /\ n # 0
  BY DiskStays, FileSizeIs
<1>2. /\ writer.pc = "closed" /\ file[0].kind = "blank" /\ writer'.pc = "createHeader"
      /\ file' = [GrowFile(file) EXCEPT ![n] = Leaf(<<>>, <<>>)] /\ header'.head = 0
  BY DEF CreateRoot
<1>3. DOMAIN GrowFile(file) = DOMAIN file \cup {n} /\ \A q \in DOMAIN file : GrowFile(file)[q] = file[q]
  BY <1>1, GrowIs
<1> HIDE DEF n
<1>4. file'[n] = Leaf(<<>>, <<>>) /\ \A q \in DOMAIN file' : q = n \/ (q \in DOMAIN file /\ file'[q] = file[q])
  BY <1>1, <1>2, <1>3
<1>5. NoRoot
  BY <1>2 DEF OnMap, DiskInv, RootOK, NoRoot, Young, Settled, Published
<1>6. WithAdded' = file'
  BY <1>2 DEF WithAdded
<1>7. SavedHead' = 0 /\ MemHead' = 0 /\ HeadOnDisk' = 0
  <2>1. file'[0] = file[0] /\ file'[0].kind = "blank"
    BY <1>1, <1>2, <1>4
  <2>2. disk'[0] = Blank
    BY <1>1, <1>5 DEF NoRoot
  <2> QED BY <1>2, <2>1, <2>2 DEF SavedHead, MemHead, HeadOnDisk, Blank
<1>8. \A f \in {file', WithAdded'} : \A q \in Ids(file') :
         LikeBefore(f, q) \/ (q = 0 /\ FitsBefore(f, 0, {}, {}))
  <2>1. Leaf(<<>>, <<>>).kind # "freelist"
    BY DEF Leaf
  <2>2. ASSUME NEW q \in Ids(file') PROVE LikeBefore(file', q)
    BY <1>4, <2>1, <2>2, LikeIf DEF Ids
  <2> QED BY <1>6, <2>2
<1>9. Downhill(disk)' /\ Downhill(file)' /\ Downhill(WithAdded)'
  <2>1. DOMAIN WithAdded' = DOMAIN file'
    BY <1>6
  <2> QED BY <1>1, <1>8, <2>1, MapDownhill DEF OnMap
<1>10. ListsOnDisk({})'
  BY <1>7 DEF ListsOnDisk, ListsApart, Heads
<1> QED BY <1>5, <1>9, <1>10 DEF ListsGo

\* The steps that open the file or make a new one.
LEMMA OpenRoot ==
  ASSUME OnMap, OpenTree \/ CreateRoot \/ CreateHeader
  PROVE  RootOK'
<1>1. writer.pc \in {"closed", "createHeader"}
  BY DEF OpenTree, CreateRoot, CreateHeader
<1>2. CASE NoRoot
  BY <1>2, RootNoRoot
<1>3. CASE ~NoRoot
  <2>1. Young \/ Settled
    BY <1>1, <1>3 DEF OnMap, DiskInv, RootOK, Published
  <2>2. file[0].kind = "header"
    BY <2>1 DEF Young, Settled
  <2>3. OpenTree
    BY <2>2 DEF OnMap, BothInv, CowInv, HeaderInv, CreateRoot, CreateHeader, Blank
  <2> QED BY <2>1, <2>3, RootOpen
<1> QED BY <1>2, <1>3

\* Pin is a step of PageVersions.
LEMMA PinStep ==
  ASSUME CowInv, PV!PageInv, NEW r \in Reader, Pin(r)
  PROVE  CowInv' /\ PV!Pin(r)
<1>1. /\ IsOpen /\ reader[r] = NoThread /\ active' = [active EXCEPT ![r] = version]
      /\ reader' = [reader EXCEPT ![r] = [pc |-> "found", value |-> None]]
      /\ UNCHANGED <<file, header, version, pending, writer, puts>>
  BY DEF Pin
<1>2. /\ reader \in [Reader -> Threads(Ids(file))] /\ active \in [Reader -> Nat \cup {None}]
      /\ (\A q \in Reader : (active[q] = None) <=> (reader[q] = NoThread))
      /\ (\A q \in Reader : reader[q].pc = "walking" => IsTree(file, reader[q].page))
      /\ version \in Nat
  BY DEF CowInv, ReaderInv, TreeInv, PV!PageInv, PV!VersionTypes
<1>3. reader' \in [Reader -> Threads(Ids(file))]
  BY <1>1, <1>2 DEF Threads
<1>4. active'[r] # None /\ reader'[r] # NoThread /\ reader'[r].pc = "found"
  BY <1>1, <1>2, KeyAssumption DEF NoThread
<1>5. \A q \in Reader : q # r => active'[q] = active[q] /\ reader'[q] = reader[q]
  BY <1>1, <1>2
<1>6. /\ CowInv'
      /\ UNCHANGED <<TreeInMemory, TreeInFile, FreePages, HandPages, CommittedOrphans, RetiredAs>>
  <2>1. \A q \in Reader : (active'[q] = None) <=> (reader'[q] = NoThread)
    BY <1>2, <1>4, <1>5
  <2>2. \A q \in Reader : reader'[q].pc = "walking" => IsTree(file, reader'[q].page)
    BY <1>2, <1>4, <1>5
  <2> QED BY <1>1, <1>3, <2>1, <2>2, GetStays
<1>7. ReadingPages' = ReadingPages
  <2>1. \A q \in Reader : reader[q].pc = "walking" <=> reader'[q].pc = "walking"
    BY <1>1, <1>4, <1>5 DEF NoThread
  <2>2. \A q \in Reader : reader[q].pc = "walking" => reader'[q] = reader[q]
    BY <1>1, <1>5 DEF NoThread
  <2> QED BY <1>1, <2>1, <2>2 DEF ReadingPages
<1> QED BY <1>1, <1>2, <1>6, <1>7 DEF PV!Pin

\* The steps on the map keep the invariant of CowBTree, ...
LEMMA MapSteps ==
  ASSUME BothInv, DiskInv, MapStep
  PROVE  OnMap
<1>1. CASE \E r \in Reader : Pin(r)
  <2>1. PICK r \in Reader : Pin(r)
    BY <1>1
  <2>2. CowInv' /\ PV!Pin(r)
    BY <2>1, PinStep DEF BothInv
  <2>3. PV!Next
    BY <2>2 DEF PV!Next
  <2>4. PV!PageInv'
    BY <2>3, PV!PagesNext DEF BothInv
  <2> QED BY <2>2, <2>3, <2>4 DEF OnMap, BothInv, MapStep
<1>2. CASE ~\E r \in Reader : Pin(r)
  <2>1. Next
    BY <1>2 DEF MapStep, Next, PutStep, GetStep
  <2>2. CowInv' /\ [PV!Next]_PV!vars
    BY <2>1, CowMoves, StepsOfPages DEF BothInv
  <2>3. BothInv'
    BY <2>1, BothNext
  <2> QED BY <2>2, <2>3 DEF OnMap, MapStep
<1> QED BY <1>1, <1>2

\* ... and that of the disk.
LEMMA MapKeeps ==
  ASSUME BothInv, DiskInv, MapStep
  PROVE  BothInv' /\ DiskInv'
<1>1. OnMap
  BY MapSteps
<1>2. PICK S : ListsOnDisk(S)
  BY DEF DiskInv
<1>3. FileOK(disk)' /\ (DOMAIN disk = DOMAIN file)'
  <2>1. FileOK(disk') /\ DOMAIN disk' = DOMAIN file'
    BY <1>1, DiskStays
  <2> QED BY <2>1 DEF FileOK, PageOK, Ids
<1> SUFFICES ListsGo /\ RootOK'
  BY <1>1, <1>3 DEF OnMap, ListsGo, DiskInv
<1>4. CASE OpenTree
  BY <1>1, <1>2, <1>4, OpenLists, OpenRoot
<1>5. CASE CreateRoot
  BY <1>1, <1>5, CreateLists, OpenRoot
<1>6. CASE PublishHead \/ PublishRoot \/ CreateHeader
  BY <1>1, <1>2, <1>6, PublishLists, OpenRoot, RootPublish, RootList
<1>7. CASE (\E k \in Key, v \in Value : StartPut(k, v)) \/ ReclaimAtOnce
  <2>1. ListsGo
    BY <1>1, <1>2, <1>7, CollectLists
  <2>2. CASE Young \/ Settled
    BY <1>1, <1>7, <2>1, <2>2, RootCollect
  <2>3. writer.pc \in {"idle", "reclaim"}
    BY <1>7 DEF StartPut, ReclaimAtOnce, NoThread
  <2> QED BY <2>2, <2>3 DEF DiskInv, RootOK, NoRoot, Published
<1>8. CASE TakeFreeList
  BY <1>1, <1>2, <1>8, TakeLists, RootList
<1>9. CASE AddFreePage
  BY <1>1, <1>2, <1>9, AddLists, RootList
<1>10. CASE WriteFreeList
  BY <1>1, <1>2, <1>10, WriteFreeListLists, RootList
<1>11. CASE Descend \/ WriteNode \/ WriteLeft \/ WriteRight \/ WriteRoot
  BY <1>1, <1>2, <1>11, CopyLists, RootCopy
<1>12. CASE AllocateNode \/ SplitNode
  BY <1>1, <1>2, <1>12, AllocateLists, RootAllocate
<1>13. CASE \E r \in Reader : Pin(r) \/ EndRead(r)
  BY <1>1, <1>2, <1>13, ReadLists, RootRead
<1> QED BY <1>4, <1>5, <1>6, <1>7, <1>8, <1>9, <1>10, <1>11, <1>12, <1>13 DEF MapStep

-----------------------------------------------------------------------------
(* The power fails.                                                        *)

\* A process that is gone, whatever file it has left.
Restarted ==
    /\ header = [root |-> 0, head |-> 0]
    /\ version = 0 /\ active = [r \in Reader |-> None] /\ pending = NonePending
    /\ writer = [pc |-> "closed"] /\ reader = [r \in Reader |-> NoThread]
    /\ puts \in 0 .. MaxPuts

\* A file that can be opened has a tree and a list that are apart.
OpensWell ==
    /\ FileOK(file) /\ (file[0].kind = "header" => IsTree(file, file[0].root))
    /\ ListOK(file, SavedHead) /\ SavedHead \in Ids(file) \cup {0}
    /\ ListOf(file, SavedHead) \cap TreeInFile = {}

\* Such a process is where the invariant of CowBTree allows it.
LEMMA RestartInv == Restarted /\ OpensWell => BothInv
<1> SUFFICES ASSUME Restarted, OpensWell PROVE BothInv
  OBVIOUS
<1>1. /\ header = [root |-> 0, head |-> 0] /\ FileOK(file)
      /\ version = 0 /\ active = [r \in Reader |-> None] /\ pending = NonePending
      /\ writer = [pc |-> "closed"] /\ reader = [r \in Reader |-> NoThread]
      /\ puts \in 0 .. MaxPuts /\ puts \in Nat
  BY LengthAssumption DEF Restarted, OpensWell
<1>2. writer.pc = "closed" /\ ~IsOpen /\ WithAdded = file /\ MemHead = SavedHead
  BY <1>1 DEF IsOpen, WithAdded, MemHead
<1>3. CowInv
  <2>1. HeaderInv
    BY <1>1, <1>2 DEF HeaderInv
  <2>2. TreeInv
    BY <1>1, <1>2 DEF TreeInv, NoThread, OpensWell
  <2>3. ListInv
    <3>1. SavedHead \in {0} \cup ListPages(file, SavedHead)
      BY <1>1, ListBasics DEF OpensWell
    <3> QED BY <1>2, <3>1 DEF ListInv, ListOK, OpensWell
  <2>4. WriterInv
    BY <1>1 DEF WriterInv, NoWork
  <2>5. TrackerInv
    <3>1. ~Retires(writer)
      BY <1>1 DEF Retires, NoWork
    <3>2. DOMAIN pending = {}
      BY <1>1 DEF NonePending
    <3> QED BY <1>1, <3>1, <3>2 DEF TrackerInv, PendingOK
  <2>6. ReaderInv
    BY <1>1, <1>2 DEF ReaderInv, Threads
  <2> QED BY <1>1, <2>1, <2>2, <2>3, <2>4, <2>5, <2>6 DEF CowInv
<1>4. TreeInMemory = TreeInFile /\ HandPages = {} /\ CommittedOrphans = {}
  BY <1>2 DEF TreeInMemory, HandPages, CommittedOrphans
<1>5. FreePages = ListOf(file, SavedHead) /\ FreePages \subseteq Ids(file)
  BY <1>2, <1>3, AddedIs
<1>6. PendingPages = {}
  BY <1>1 DEF PendingPages, NonePending
<1>7. RetiredAs = [p \in {} |-> 0] /\ ReadingPages = [r \in Reader |-> {}]
  BY <1>1, <1>6 DEF RetiredAs, ReadingPages, NoThread
<1>8. TreeInFile \subseteq Ids(file) /\ 0 \in DOMAIN file
  BY <1>1, TreeBasics, FileSizeIs DEF TreeInFile, OpensWell, IsTree
<1>9. PV!Init
  BY <1>1, <1>4, <1>5, <1>7, <1>8 DEF PV!Init, OpensWell, Ids
<1> QED BY <1>3, <1>9, PV!PagesInit DEF BothInv

LEMMA RestartInvNext == (Restarted /\ OpensWell => BothInv)'
  BY RestartInv, PTL

\* The list on the disk hands out no page of the tree on the disk.
LEMMA DiskList ==
  ASSUME BothInv, DiskInv
  PROVE  /\ HeadOnDisk \in Ids(disk) \cup {0} /\ IdsAreApart(disk, HeadOnDisk)
         /\ ListOf(disk, HeadOnDisk) \cap TreeOnDisk = {}
         /\ ListIsWhole => IsList(disk, HeadOnDisk)
<1>1. FileOK(disk) /\ Downhill(disk) /\ DOMAIN disk = DOMAIN file
  BY DEF DiskInv
<1>2. PICK S : ListsOnDisk(S)
  BY DEF DiskInv
<1>3. /\ S \subseteq Ids(disk) /\ S \cap Barred = {} /\ HeadOnDisk \in S \cup {0}
      /\ \A q \in S : /\ Nexts(disk, q) \subseteq S /\ Distinct(IdsOf(disk, q))
                      /\ ToSet(IdsOf(disk, q)) \cap (S \cup Barred) = {}
      /\ \A q, r \in S : q # r => ToSet(IdsOf(disk, q)) \cap ToSet(IdsOf(disk, r)) = {}
  <2>1. S \subseteq Ids(disk)
    BY <1>1, <1>2 DEF ListsOnDisk, Ids
  <2>2. \A q : ToSet(IdsOf(disk, q)) \subseteq Listed(Versions, q)
    BY DEF Listed, Versions
  <2>3. disk \in Versions /\ HeadOnDisk \in Heads /\ ListsApart(S, Versions, Heads, Barred)
    BY <1>2 DEF Versions, Heads, ListsOnDisk
  <2> QED BY <2>1, <2>2, <2>3 DEF ListsApart
<1>4. /\ ListPages(disk, HeadOnDisk) \subseteq S
      /\ (\A p \in ListPages(disk, HeadOnDisk) : disk[p].kind = "freelist") => IsList(disk, HeadOnDisk)
  BY <1>1, <1>3, DownhillList
<1>5. ASSUME NEW p \in S, NEW q \in S, NEW i \in DOMAIN IdsOf(disk, p), NEW j \in DOMAIN IdsOf(disk, q),
             IdsOf(disk, p)[i] = IdsOf(disk, q)[j]
      PROVE  p = q /\ i = j
  <2>1. IdsOf(disk, p)[i] \in ToSet(IdsOf(disk, p)) /\ IdsOf(disk, q)[j] \in ToSet(IdsOf(disk, q))
    BY DEF ToSet
  <2>2. p = q
    BY <1>3, <1>5, <2>1
  <2> QED BY <1>3, <1>5, <2>2 DEF Distinct
<1>6. \A x \in FreeIds(disk, HeadOnDisk) : \E q \in S : x \in ToSet(IdsOf(disk, q))
  BY <1>4, FreeIdsAre DEF ToSet
<1>7. IdsAreApart(disk, HeadOnDisk)
  BY <1>3, <1>4, <1>5, <1>6 DEF IdsAreApart
<1>8. ListOf(disk, HeadOnDisk) \cap TreeOnDisk = {}
  BY <1>3, <1>4, <1>6 DEF ListOf, Barred
<1>9. ListIsWhole => IsList(disk, HeadOnDisk)
  <2>1. CASE disk[0].kind = "header"
    BY <1>4, <2>1 DEF ListIsWhole, HeadOnDisk
  <2>2. CASE disk[0].kind # "header"
    BY <2>2 DEF HeadOnDisk, IsList
  <2> QED BY <2>1, <2>2
<1> QED BY <1>1, <1>3, <1>7, <1>8, <1>9

\* The power fails: the file is what the disk holds.
LEMMA FailureKeeps ==
  ASSUME BothInv, DiskInv, PowerFailure, ListIsWhole
  PROVE  (BothInv' /\ DiskInv') \/ DeadFile'
<1>1. FileOK(disk) /\ Downhill(disk) /\ DOMAIN disk = DOMAIN file /\ 0 \in DOMAIN disk
      /\ FileOK(file)
  BY DiskTypes, FileSizeIs DEF DiskInv
<1>2. /\ file' = disk /\ disk' = disk /\ puts' = puts
      /\ header' = [root |-> 0, head |-> 0]
      /\ version' = 0 /\ active' = [r \in Reader |-> None] /\ pending' = NonePending
      /\ writer' = [pc |-> "closed"] /\ reader' = [r \in Reader |-> NoThread]
  BY DEF PowerFailure
<1>3. HeadOnDisk = SavedHead' /\ TreeOnDisk = TreeInFile'
  BY <1>2 DEF HeadOnDisk, SavedHead, TreeOnDisk, TreeInFile
<1>4. ASSUME disk[0].kind = "header" => IsTree(disk, disk[0].root)
      PROVE  BothInv' /\ DiskInv'
  <2>1. ListOK(disk, HeadOnDisk) /\ HeadOnDisk \in Ids(disk) \cup {0}
        /\ ListOf(disk, HeadOnDisk) \cap TreeOnDisk = {}
    BY DiskList DEF ListOK
  <2>2. Restarted'
    BY <1>2 DEF Restarted, BothInv, CowInv, TrackerInv
  <2>3. OpensWell'
    <3> DEFINE f == file'
               h == SavedHead'
               t == TreeInFile'
    <3>1. /\ FileOK(f) /\ (f[0].kind = "header" => IsTree(f, f[0].root))
          /\ ListOK(f, h) /\ h \in Ids(f) \cup {0} /\ ListOf(f, h) \cap t = {}
      BY <1>1, <1>2, <1>3, <1>4, <2>1
    <3> QED BY <3>1 DEF OpensWell, FileOK, PageOK, Ids, IsTree, IsRooted, IsReach, Closed, ListOK, IsList,
                        IdsAreApart, IdsOf, ListOf
  <2>4. BothInv'
    BY <2>2, <2>3, RestartInvNext
  <2>5. Downhill(file)'
    BY <1>1, <1>2 DEF Downhill, Ids, Nexts, ReadFreeList, ReadPage
  <2>6. writer'.pc = "closed"
    BY <1>2
  <2> QED BY <1>2, <2>4, <2>5, <2>6, SyncedInvNext
<1>5. CASE disk[0].kind = "header" => IsTree(disk, disk[0].root)
  BY <1>4, <1>5
<1>6. CASE disk[0].kind = "header" /\ ~IsTree(disk, disk[0].root)
  <2>1. Young
    BY <1>6 DEF DiskInv, RootOK, NoRoot, Settled, Published, Blank
  <2>2. disk[0] = file[0] /\ file[0].root \in Ids(file) /\ Ids(file) = Ids(disk)
    <3>1. disk[0] = file[0]
      BY <1>6, <2>1 DEF Young, Blank
    <3> QED BY <1>1, <1>6, <3>1, KindOf DEF Headers, Ids
  <2>3. disk[file[0].root] = Blank
    BY <1>1, <1>6, <2>1, <2>2, LeafTree DEF Young, Leaf
  <2>4. writer'.pc = "closed"
    BY <1>2
  <2>5. FileOK(file)' /\ FileOK(disk)'
    BY <1>1, <1>2 DEF FileOK, PageOK, Ids
  <2>6. DeadFile'
    BY <1>2, <2>1, <2>2, <2>3, <2>4, <2>5 DEF DeadFile, Young
  <2> QED BY <2>6
<1> QED BY <1>5, <1>6

-----------------------------------------------------------------------------
(* A new file of which only the header has reached the disk.               *)

\* What a step on such a file may do.
DeadStep ==
    /\ file' = file /\ version' = version /\ pending' = pending
    /\ writer'.pc \in {"closed", "idle", "descend"} /\ (writer'.pc = "idle" => writer' = NoThread)
    /\ (writer'.pc = "descend" => writer'.next = file[0].root /\ ~writer'.committed)
    /\ (writer'.pc # "closed" => header'.root = file[0].root)

\* Nothing brings such a file back.
LEMMA DeadStays ==
  ASSUME DeadFile, DeadStep, DOMAIN disk' = DOMAIN disk, \A p \in DOMAIN disk : disk'[p] = disk[p]
  PROVE  DeadFile'
<1>1. FileOK(file)' /\ FileOK(disk)'
  <2>1. 0 \in DOMAIN disk
    BY FileSizeIs DEF DeadFile
  <2> QED BY <2>1 DEF FileOK, PageOK, Ids, DeadFile, DeadStep
<1> QED BY <1>1 DEF DeadFile, DeadStep

\* It is opened, read, and each put raises.
LEMMA DeadMap ==
  ASSUME DeadFile, MapStep
  PROVE  DeadFile'
<1>1. /\ file[0].kind = "header" /\ file[0].head = 0 /\ file[file[0].root] = Blank
      /\ writer.pc \in {"closed", "idle", "descend"} /\ FileOK(disk) /\ DOMAIN disk = DOMAIN file
      /\ file[0].root \in Ids(file) /\ file[0].root \in DOMAIN file
  <2>1. file[0].root \in Ids(file)
    BY FileSizeIs, KindOf DEF DeadFile, Headers
  <2> QED BY <2>1 DEF DeadFile, Ids
<1>2. ASSUME OpenTree PROVE DeadStep
  BY <1>1, <1>2 DEF OpenTree, NoThread, DeadStep
<1>3. ASSUME NEW k \in Key, NEW v \in Value, StartPut(k, v) PROVE DeadStep
  <2>1. writer = NoThread /\ header.root = file[0].root /\ UNCHANGED <<file, header, version>>
    BY <1>3 DEF StartPut, DeadFile, NoThread
  <2>2. Reclaimable = <<>> /\ pending' = pending
    BY <1>3, NoneReclaimed DEF DeadFile, StartPut
  <2>3. writer'.pc = "descend" /\ writer'.next = header.root /\ ~writer'.committed
    BY <1>3, <2>2 DEF StartPut, Work
  <2> QED BY <2>1, <2>2, <2>3 DEF DeadStep
<1>4. ASSUME Descend PROVE DeadStep
  <2>1. ReadPage(file, writer.next) = Blank
    BY <1>1, <1>4 DEF Descend, DeadFile, ReadPage
  <2>2. writer' = NoThread /\ UNCHANGED <<file, header, version, pending>>
    BY <1>4, <2>1 DEF Descend, PutRaises, Blank
  <2> QED BY <1>4, <2>2 DEF NoThread, DeadFile, Descend, DeadStep
<1>5. ASSUME NEW r \in Reader, Pin(r) \/ EndRead(r) PROVE DeadStep
  BY <1>5 DEF Pin, EndRead, DeadFile, DeadStep
<1>6. OpenTree \/ (\E k \in Key, v \in Value : StartPut(k, v)) \/ Descend \/ (\E r \in Reader : Pin(r) \/ EndRead(r))
  BY <1>1 DEF MapStep, CreateRoot, CreateHeader, TakeFreeList, AddFreePage,
        WriteFreeList, PublishHead, AllocateNode, WriteNode, SplitNode, WriteLeft, WriteRight, WriteRoot,
        PublishRoot, ReclaimAtOnce
<1>7. DeadStep
  BY <1>2, <1>3, <1>4, <1>5, <1>6
<1>8. disk' = [p \in DOMAIN disk |-> disk[p]]
  BY <1>1, <1>7 DEF MapStep, Unsynced, DeadStep
<1> QED BY <1>7, <1>8, DeadStays

\* No page of it is waiting to be written back.
LEMMA DeadKeeps ==
  ASSUME DeadFile, DiskNext
  PROVE  DeadFile'
<1>1. CASE MapStep
  BY <1>1, DeadMap
<1>2. CASE PowerFailure
  <2>1. /\ file' = disk /\ disk' = disk /\ version' = 0 /\ pending' = NonePending /\ writer'.pc = "closed"
    BY <1>2 DEF PowerFailure
  <2>2. 0 \in DOMAIN file /\ file[0].root \in DOMAIN file
    <3>1. file[0].root \in Ids(file)
      BY FileSizeIs, KindOf DEF DeadFile, Headers
    <3> QED BY <3>1, FileSizeIs DEF DeadFile, Ids
  <2>3. FileOK(file)' /\ FileOK(disk)'
    BY <2>1 DEF FileOK, PageOK, Ids, DeadFile
  <2> QED BY <2>1, <2>2, <2>3 DEF DeadFile
<1>3. ~SyncStep
  BY DEF SyncStep, SyncHead, CommitRoot, CommitWrite, DeadFile
<1>4. \A p \in DOMAIN disk : ~WriteBack(p)
  BY DEF WriteBack, DeadFile
<1> QED BY <1>1, <1>2, <1>3, <1>4 DEF DiskNext

-----------------------------------------------------------------------------
(* The theorem.                                                            *)

\* The inductive invariant.
RecoveryInv == (BothInv /\ DiskInv) \/ DeadFile

\* A step that changes nothing.
LEMMA DiskIdle ==
  ASSUME BothInv, DiskInv, UNCHANGED diskVars
  PROVE  BothInv' /\ DiskInv'
<1>1. UNCHANGED vars /\ disk' = disk
  BY DEF diskVars
<1>2. BothInv'
  BY <1>1, BothNext
<1>3. UNCHANGED <<file, disk, writer, header, version, pending, active, reader, WithAdded, SavedHead, MemHead,
                  HeadOnDisk, TreeOnDisk, TreeInMemory, TreeInFile, CommittedOrphans, PendingPages, FreedPages>>
  BY <1>1 DEF vars, WithAdded, SavedHead, MemHead, HeadOnDisk, TreeOnDisk, TreeInMemory, TreeInFile,
              CommittedOrphans, PendingPages, FreedPages
<1>4. UNCHANGED <<Barred, Versions, Heads>>
  BY <1>3 DEF Barred, InUse, Versions, Heads
<1>5. RootOK'
  BY <1>3 DEF DiskInv, RootOK, NoRoot, Young, Settled, Published, At, IsTree, IsRooted, IsReach, Closed, Ids, Keeps
<1>6. \E S : ListsOnDisk(S)'
  <2>1. PICK S : ListsOnDisk(S)
    BY DEF DiskInv
  <2>2. ListsOnDisk(S)'
    BY <1>3, <1>4, <2>1 DEF ListsOnDisk, ListsApart, Ids, Listed, Nexts, IdsOf, ReadFreeList, ReadPage
  <2> QED BY <2>2
<1>7. Downhill(disk)' /\ Downhill(file)' /\ Downhill(WithAdded)'
  BY <1>3 DEF DiskInv, Downhill, Ids, Nexts, ReadFreeList, ReadPage
<1>8. FileOK(disk)' /\ (DOMAIN disk = DOMAIN file)'
  BY <1>3 DEF DiskInv, FileOK, PageOK, Ids
<1> QED BY <1>2, <1>5, <1>6, <1>7, <1>8 DEF DiskInv

\* The three facts.
LEMMA RecoveryInit == DiskInit => RecoveryInv
<1> SUFFICES ASSUME DiskInit PROVE BothInv /\ DiskInv
  BY DEF RecoveryInv
<1>1. BothInv /\ disk = file
  BY BothInit DEF DiskInit
<1>2. DOMAIN file = {0} /\ writer.pc = "closed" /\ version = 0 /\ pending = NonePending
  BY DEF DiskInit, Init
<1>3. Downhill(file)
  BY <1>2 DEF Downhill, Ids
<1> QED BY <1>1, <1>2, <1>3, SyncedInv

LEMMA DeadNext ==
  ASSUME DeadFile, [WholeNext]_diskVars
  PROVE  DeadFile'
<1>1. CASE DiskNext
  BY <1>1, DeadKeeps
<1>2. CASE UNCHANGED diskVars
  <2>1. UNCHANGED <<file, disk, writer, header, version, pending>>
    BY <1>2 DEF diskVars, vars
  <2>2. DeadStep
    BY <2>1 DEF DeadFile, DeadStep
  <2> QED BY <2>1, <2>2, DeadStays
<1> QED BY <1>1, <1>2 DEF WholeNext

LEMMA RecoveryNext == RecoveryInv /\ [WholeNext]_diskVars => RecoveryInv'
<1> SUFFICES ASSUME RecoveryInv, [WholeNext]_diskVars PROVE RecoveryInv'
  OBVIOUS
<1>1. CASE DeadFile
  BY <1>1, DeadNext DEF RecoveryInv
<1>2. CASE BothInv /\ DiskInv
  <2>1. CASE SyncStep
    BY <1>2, <2>1, SyncKeeps DEF RecoveryInv
  <2>2. CASE MapStep
    BY <1>2, <2>2, MapKeeps DEF RecoveryInv
  <2>3. ASSUME NEW p \in DOMAIN disk, WriteBack(p) PROVE RecoveryInv'
    BY <1>2, <2>3, BackKeeps DEF RecoveryInv
  <2>4. CASE PowerFailure /\ ListIsWhole
    BY <1>2, <2>4, FailureKeeps DEF RecoveryInv
  <2>5. CASE UNCHANGED diskVars
    BY <1>2, <2>5, DiskIdle DEF RecoveryInv
  <2> QED BY <2>1, <2>2, <2>3, <2>4, <2>5 DEF WholeNext, DiskNext
<1> QED BY <1>1, <1>2 DEF RecoveryInv

\* The header may have reached the disk before the first root has.
LEMMA DiskTree ==
  ASSUME BothInv, DiskInv, disk[0].kind = "header"
  PROVE  /\ disk[0].root \in Ids(disk)
         /\ IsTree(disk, disk[0].root) \/ (disk[disk[0].root] = Blank /\ disk[0].head = 0)
<1>1. FileOK(disk) /\ 0 \in DOMAIN disk
  BY DiskTypes, FileSizeIs DEF DiskInv
<1>2. disk[0].root \in Ids(disk)
  BY <1>1, KindOf DEF Headers
<1>3. CASE Young
  <2>1. disk[0] = file[0]
    BY <1>3 DEF Young, Blank
  <2>2. disk[disk[0].root] \in {Blank, Leaf(<<>>, <<>>)}
    BY <1>3, <2>1 DEF Young
  <2>3. disk[disk[0].root] = Blank \/ disk[disk[0].root].kind = "leaf"
    BY <2>2 DEF Leaf
  <2>4. disk[0].head = 0
    BY <1>3, <2>1 DEF Young
  <2> QED BY <1>1, <1>2, <2>3, <2>4, LeafTree
<1>4. CASE ~Young
  <2>1. Settled \/ Published
    BY <1>4 DEF DiskInv, RootOK, NoRoot, Blank
  <2> QED BY <1>2, <2>1 DEF Settled, Published
<1> QED BY <1>3, <1>4

\* The invariant says what the property does.
LEMMA Recoverable == RecoveryInv => DiskIsRecoverable
<1> SUFFICES ASSUME RecoveryInv PROVE DiskIsRecoverable
  OBVIOUS
<1>1. FileOK(disk)
  BY DEF RecoveryInv, DiskInv, DeadFile
<1>2. disk[0].kind \in {"blank", "header"}
  BY <1>1 DEF FileOK, Headers, Header, Blank
<1>3. ASSUME disk[0].kind = "header"
      PROVE  /\ \/ \A p \in TreePages(disk, disk[0].root) : ReadPage(disk, p).kind \in {"leaf", "internal"}
                \/ RootIsMissing
             /\ ListIsDisjoint(disk, disk[0].root, disk[0].head)
  <2>1. /\ disk[0].root \in Ids(disk) /\ HeadOnDisk = disk[0].head
        /\ TreeOnDisk = TreePages(disk, disk[0].root)
    BY <1>1, <1>3, FileSizeIs, KindOf DEF Headers, HeadOnDisk, TreeOnDisk
  <2>2. CASE BothInv /\ DiskInv
    <3>1. ListIsDisjoint(disk, disk[0].root, disk[0].head)
      BY <1>1, <2>1, <2>2, DiskList, Disjoint
    <3>2. CASE IsTree(disk, disk[0].root)
      <4>1. \A p \in TreePages(disk, disk[0].root) : ReadPage(disk, p).kind \in {"leaf", "internal"}
        BY <1>1, <3>2, TreePage DEF ReadPage
      <4> QED BY <3>1, <4>1
    <3>3. CASE ~IsTree(disk, disk[0].root)
      <4>1. ReadPage(disk, disk[0].root) = Blank /\ disk[0].head = 0
        BY <1>3, <2>1, <2>2, <3>3, DiskTree DEF ReadPage, Ids
      <4> QED BY <3>1, <4>1 DEF RootIsMissing
    <3> QED BY <3>2, <3>3
  <2>3. CASE DeadFile
    <3>1. disk[0].head = 0 /\ disk[disk[0].root] = Blank
      BY <1>1, <2>1, <2>3, FileSizeIs DEF DeadFile, Ids
    <3>2. IdsAreApart(disk, 0) /\ ListOf(disk, 0) = {} /\ 0 \in Ids(disk) \cup {0}
      BY <1>1, ListOfNone DEF ListOf, ListOK
    <3>3. ListIsDisjoint(disk, disk[0].root, 0)
      BY <1>1, <3>2, Disjoint
    <3> QED BY <2>1, <3>1, <3>3 DEF RootIsMissing, ReadPage, Ids
  <2> QED BY <2>2, <2>3 DEF RecoveryInv
<1> QED BY <1>2, <1>3 DEF DiskIsRecoverable

\* While the list on the disk is whole whenever the power fails, page 0 of the disk is
\* never anything but a header, the tree on the disk is there with all its pages
\* (unless the first root of a new file never was), and the list on the disk hands
\* out none of them: at any time, whatever pages the kernel has written back, and for
\* all sizes, keys, puts and gets.
THEOREM DiskRecovers == WholeSpec => []DiskIsRecoverable
BY RecoveryInit, RecoveryNext, Recoverable, PTL DEF WholeSpec

-----------------------------------------------------------------------------
(* What a tree holds.                                                      *)

\* The map of an empty tree, and of one that cannot be read.
Nothing == [k \in Key |-> None]

AllNodes(f, c) == \A p \in TreePages(f, c) : ReadPage(f, p).kind \in {"leaf", "internal"}

\* Every page of a tree can be read.
LEMMA HoldsTree ==
  ASSUME NEW f, FileOK(f), NEW c, IsTree(f, c)
  PROVE  Holds(f, c) = [k \in Key |-> Lookup(f, c, k)]
<1>1. AllNodes(f, c)
  BY TreePage DEF AllNodes, ReadPage
<1> QED BY <1>1 DEF AllNodes, Holds

\* What a tree holds is in its pages.
LEMMA HoldsKeeps ==
  ASSUME NEW f, NEW g, FileOK(f), FileOK(g), NEW c, IsTree(f, c), Keeps(f, g, TreePages(f, c))
  PROVE  Holds(g, c) = Holds(f, c)
<1>1. IsTree(g, c)
  BY TreeKeeps
<1>2. \A k \in Key : Lookup(g, c, k) = Lookup(f, c, k)
  BY LookupKeeps
<1>3. Holds(f, c) = [k \in Key |-> Lookup(f, c, k)] /\ Holds(g, c) = [k \in Key |-> Lookup(g, c, k)]
  BY <1>1, HoldsTree
<1> QED BY <1>2, <1>3

\* An empty leaf and a page of zeros hold nothing.
LEMMA HoldsNothing ==
  ASSUME NEW f, FileOK(f), NEW c \in Ids(f), f[c] \in {Blank, Leaf(<<>>, <<>>)}
  PROVE  Holds(f, c) = Nothing
<1>1. c \in DOMAIN f /\ c \in TreePages(f, c)
  BY TreeBasics DEF Ids
<1>2. CASE f[c] = Blank
  <2>1. ~AllNodes(f, c)
    BY <1>1, <1>2 DEF AllNodes, ReadPage, Blank
  <2> QED BY <2>1 DEF AllNodes, Holds, Nothing
<1>3. CASE f[c] = Leaf(<<>>, <<>>)
  <2>1. IsTree(f, c)
    BY <1>3, LeafTree DEF Leaf
  <2>2. \A k \in Key : Lookup(f, c, k) = None
    BY <1>3, <2>1, EmptyTree
  <2> QED BY <2>1, <2>2, HoldsTree DEF Nothing
<1> QED BY <1>2, <1>3

-----------------------------------------------------------------------------
(* What the disk holds.                                                    *)

\* Unless a root is being published, the disk holds the map of the file.
LEMMA OnDiskIs ==
  BothInv /\ DiskInv /\ writer.pc \notin {"publishRoot", "commitWrite"} =>
      OnDisk = IF file[0].kind = "header" THEN Holds(file, file[0].root) ELSE Nothing
<1> SUFFICES ASSUME BothInv, DiskInv, writer.pc \notin {"publishRoot", "commitWrite"}
             PROVE  OnDisk = IF file[0].kind = "header" THEN Holds(file, file[0].root) ELSE Nothing
  OBVIOUS
<1>1. FileOK(disk) /\ FileOK(file) /\ DOMAIN disk = DOMAIN file /\ 0 \in DOMAIN file
  BY DiskTypes, FileSizeIs
<1>2. CASE NoRoot
  BY <1>2 DEF NoRoot, OnDisk, Nothing, Blank
<1>3. CASE Young
  <2>1. file[0].root \in Ids(file) /\ Ids(disk) = Ids(file) /\ file[0].kind = "header"
    BY <1>1, <1>3, KindOf DEF Young, Headers, Ids
  <2>2. Holds(file, file[0].root) = Nothing
    BY <1>1, <1>3, <2>1, HoldsNothing DEF Young
  <2>3. CASE disk[0] = Blank
    BY <2>1, <2>2, <2>3 DEF OnDisk, Nothing, Blank
  <2>4. CASE disk[0] = file[0]
    <3>1. Holds(disk, file[0].root) = Nothing
      BY <1>1, <1>3, <2>1, HoldsNothing DEF Young
    <3> QED BY <2>1, <2>2, <2>4, <3>1 DEF OnDisk
  <2> QED BY <1>3, <2>3, <2>4 DEF Young
<1>4. CASE Settled
  <2>1. /\ file[0].kind = "header" /\ disk[0].kind = "header" /\ disk[0].root = file[0].root
        /\ IsTree(disk, disk[0].root) /\ Keeps(disk, file, TreePages(disk, disk[0].root))
    BY <1>4 DEF Settled, TreeOnDisk
  <2>2. Holds(file, disk[0].root) = Holds(disk, disk[0].root)
    BY <1>1, <2>1, HoldsKeeps
  <2> QED BY <2>1, <2>2 DEF OnDisk
<1> QED BY <1>2, <1>3, <1>4 DEF DiskInv, RootOK, Published

LEMMA OnDiskIsNext ==
  (BothInv /\ DiskInv /\ writer.pc \notin {"publishRoot", "commitWrite"} =>
      OnDisk = IF file[0].kind = "header" THEN Holds(file, file[0].root) ELSE Nothing)'
BY OnDiskIs, PTL

\* Gets see the put that is under way, and the disk may not have it.
IsEffective ==
    writer.pc = "publishRoot" \/ (writer.pc = "commitWrite" /\ RootOnDisk # header.root)

\* Only while a put is effective and not persisted, the disk holds another map.
LEMMA OneStore == BothInv /\ DiskInv /\ ~IsEffective => StoreInMap = OnDisk
<1> SUFFICES ASSUME BothInv, DiskInv, ~IsEffective, IsOpen PROVE Holds(file, header.root) = OnDisk
  BY DEF StoreInMap
<1>1. FileOK(disk) /\ FileOK(file) /\ DOMAIN disk = DOMAIN file /\ 0 \in DOMAIN file
  BY DiskTypes, FileSizeIs
<1>2. file[0].kind = "header" /\ file[0].root = header.root
  BY DEF BothInv, CowInv, HeaderInv, IsEffective
<1>3. CASE writer.pc # "commitWrite"
  BY <1>2, <1>3, OnDiskIs DEF IsEffective
<1>4. CASE writer.pc = "commitWrite"
  <2>1. Published
    BY <1>2, <1>4 DEF DiskInv, RootOK, NoRoot, Young, Settled, Blank, NoWork, NoThread, At, Upward
  <2>2. /\ disk[0].kind = "header" /\ disk[0].root = header.root /\ IsTree(disk, header.root)
        /\ \A p \in Ids(file) : disk[p] = file[p]
    BY <1>4, <2>1 DEF Published, IsEffective, RootOnDisk
  <2>3. Keeps(disk, file, TreePages(disk, header.root))
    BY <1>1, <2>2, TreeBasics DEF Keeps, IsTree, Ids
  <2>4. Holds(file, header.root) = Holds(disk, header.root)
    BY <1>1, <2>2, <2>3, HoldsKeeps
  <2> QED BY <2>2, <2>4 DEF OnDisk
<1> QED BY <1>3, <1>4

LEMMA OneStoreNext == (BothInv /\ DiskInv /\ ~IsEffective => StoreInMap = OnDisk)'
BY OneStore, PTL

\* A step on the map leaves what the disk holds.
LEMMA MapOnDisk ==
  ASSUME OnMap
  PROVE  OnDisk' = OnDisk /\ disk'[0] = disk[0]
<1>1. /\ FileOK(disk) /\ FileOK(disk') /\ DOMAIN disk = DOMAIN file /\ 0 \in DOMAIN disk
      /\ DOMAIN disk \subseteq DOMAIN disk' /\ \A q \in DOMAIN disk : disk'[q] = disk[q]
  BY DiskStays
<1>2. CASE disk[0].kind # "header"
  BY <1>1, <1>2 DEF OnDisk
<1>3. CASE disk[0].kind = "header"
  <2> DEFINE r == disk[0].root
  <2>1. r \in Ids(disk) /\ (IsTree(disk, r) \/ disk[r] = Blank) /\ r \in Ids(disk')
    BY <1>1, <1>3, DiskTree DEF OnMap, Ids
  <2>2. CASE disk[r] = Blank
    <3>1. disk'[r] = Blank
      BY <1>1, <2>1, <2>2 DEF Ids
    <3>2. Holds(disk, r) = Nothing /\ Holds(disk', r) = Nothing
      BY <1>1, <2>1, <2>2, <3>1, HoldsNothing
    <3> QED BY <1>1, <1>3, <3>2 DEF OnDisk
  <2>3. CASE IsTree(disk, r)
    <3>1. Keeps(disk, disk', TreePages(disk, r))
      BY <1>1, <2>1, TreeBasics DEF Keeps, Ids
    <3>2. Holds(disk', r) = Holds(disk, r)
      BY <1>1, <2>3, <3>1, HoldsKeeps
    <3> QED BY <1>1, <1>3, <3>2 DEF OnDisk
  <2> QED BY <2>1, <2>2, <2>3
<1> QED BY <1>1, <1>2, <1>3

-----------------------------------------------------------------------------
(* While a root is published, and after the power has failed.              *)

\* commit_root has synced the header that publish_root goes on to change; and
\* until that is synced too, the disk may still hold the root before it.
PublishInv ==
    /\ writer.pc = "publishRoot" => disk[0] = file[0]
    /\ writer.pc = "commitWrite" => IsSearch(disk, disk[0].root) /\ IsLevel(disk, disk[0].root)

\* The inductive invariant of the refinement.
PowerInv == BothInv /\ SearchInv /\ DiskInv /\ PublishInv

\* The tree on the disk is a search tree.
LEMMA DiskSearch ==
  ASSUME PowerInv, disk[0].kind = "header", IsTree(disk, disk[0].root)
  PROVE  IsSearch(disk, disk[0].root) /\ IsLevel(disk, disk[0].root)
<1> DEFINE r == disk[0].root
<1>1. FileOK(disk) /\ FileOK(file) /\ DOMAIN disk = DOMAIN file /\ 0 \in DOMAIN file
  BY DiskTypes, FileSizeIs DEF PowerInv
<1>2. TreePages(disk, r) \subseteq Ids(disk) /\ r \in TreePages(disk, r)
  BY <1>1, TreeBasics DEF IsTree
<1>3. CASE Young
  <2>1. disk[0] = file[0]
    BY <1>3 DEF Young, Blank
  <2>2. disk[r] \in {Blank, Leaf(<<>>, <<>>)}
    BY <1>3, <2>1 DEF Young
  <2>3. disk[r].kind \in {"leaf", "internal"}
    BY <1>2 DEF IsTree
  <2>4. disk[r] = Leaf(<<>>, <<>>)
    BY <2>2, <2>3 DEF Blank
  <2> QED BY <1>1, <2>4, EmptyTree
<1>4. ASSUME file[0].kind = "header", file[0].root = r, Keeps(disk, file, TreePages(disk, r))
      PROVE  IsSearch(disk, r) /\ IsLevel(disk, r)
  <2>1. IsSearch(file, r) /\ IsLevel(file, r)
    BY <1>4 DEF PowerInv, SearchInv
  <2> QED BY <1>1, <1>4, <2>1, SearchKeep, TallKeeps
<1>5. CASE Settled
  BY <1>4, <1>5 DEF Settled, TreeOnDisk
<1>6. CASE Published /\ writer.pc = "publishRoot"
  <2>1. disk[0] = file[0] /\ \A p \in Ids(file) : disk[p] = file[p]
    BY <1>6 DEF PowerInv, PublishInv, Published
  <2>2. Keeps(disk, file, TreePages(disk, r))
    BY <1>1, <1>2, <2>1 DEF Keeps, Ids
  <2> QED BY <1>4, <2>1, <2>2
<1>7. CASE Published /\ writer.pc = "commitWrite"
  BY <1>7 DEF PowerInv, PublishInv
<1> QED BY <1>3, <1>5, <1>6, <1>7 DEF PowerInv, DiskInv, RootOK, NoRoot, Published, Blank

\* Only these steps are taken while a root is published.
LEMMA Publishing ==
  ASSUME PowerInv, MapStep, OnMap, writer'.pc \in {"publishRoot", "commitWrite"}
  PROVE  \/ PublishRoot
         \/ UNCHANGED <<file, header, writer>>
<1>1. CowInv
  BY DEF OnMap, BothInv
<1>2. CASE \E k \in Key, v \in Value : StartPut(k, v)
  BY <1>2 DEF StartPut, Work
<1>3. CASE OpenTree \/ CreateRoot \/ CreateHeader
  BY <1>3 DEF OpenTree, CreateRoot, CreateHeader, NoThread
<1>4. CASE TakeFreeList \/ AddFreePage \/ WriteFreeList \/ PublishHead
  <2>1. writer.pc \in Places
    BY <1>4 DEF TakeFreeList, AddFreePage, WriteFreeList, PublishHead, Places
  <2>2. writer \in Works(Ids(file))
    BY <1>1, <2>1, Working
  <2> QED BY <1>4, <2>2 DEF TakeFreeList, AddFreePage, WriteFreeList, PublishHead, Works
<1>5. CASE Descend \/ WriteNode \/ WriteLeft \/ WriteRight \/ WriteRoot
  BY <1>1, <1>5, CopyPlaces DEF Copying, Upward, NoThread
<1>6. CASE AllocateNode \/ SplitNode
  BY <1>6, AllocatePlaces DEF NoThread
<1>7. CASE ReclaimAtOnce
  <2>1. writer.pc \in Places
    BY <1>7 DEF ReclaimAtOnce, Places
  <2>2. writer \in Works(Ids(file))
    BY <1>1, <2>1, Working
  <2> QED BY <1>7, <2>2 DEF ReclaimAtOnce, Works, NoThread
<1>8. CASE \E r \in Reader : Pin(r) \/ EndRead(r)
  BY <1>8 DEF Pin, EndRead
<1> QED BY <1>2, <1>3, <1>4, <1>5, <1>6, <1>7, <1>8 DEF MapStep

\* The steps on the map.
LEMMA PublishMap ==
  ASSUME PowerInv, MapStep
  PROVE  PublishInv'
<1>1. OnMap
  BY MapSteps DEF PowerInv
<1>2. /\ FileOK(disk) /\ FileOK(disk') /\ DOMAIN disk = DOMAIN file /\ 0 \in DOMAIN disk
      /\ DOMAIN disk \subseteq DOMAIN disk' /\ \A q \in DOMAIN disk : disk'[q] = disk[q]
  BY <1>1, DiskStays
<1>3. disk'[0] = disk[0]
  BY <1>2
<1>4. CASE writer'.pc = "publishRoot"
  <2>1. ~PublishRoot
    BY <1>1, <1>4, Working DEF PublishRoot, OnMap, BothInv, Works, Places
  <2>2. UNCHANGED <<file, header, writer>>
    BY <1>1, <1>4, <2>1, Publishing
  <2> QED BY <1>3, <1>4, <2>2 DEF PublishInv, PowerInv
<1>5. CASE writer'.pc = "commitWrite"
  <2> DEFINE r == disk[0].root
  <2>1. writer.pc \in {"publishRoot", "commitWrite"}
    BY <1>1, <1>5, Publishing DEF PublishRoot
  <2>2. Published
    BY <2>1 DEF PowerInv, DiskInv, RootOK, NoRoot, Young, Settled, Blank, NoWork, NoThread, At, Upward
  <2>3. disk[0].kind = "header" /\ IsTree(disk, r)
    BY <2>2 DEF Published
  <2>4. IsSearch(disk, r) /\ IsLevel(disk, r)
    BY <2>3, DiskSearch
  <2>5. Keeps(disk, disk', TreePages(disk, r))
    BY <1>2, <2>3, TreeBasics DEF Keeps, IsTree, Ids
  <2>6. IsSearch(disk', r) /\ IsLevel(disk', r)
    BY <1>2, <2>3, <2>4, <2>5, SearchKeep, TallKeeps
  <2>7. disk'[0].root = r
    BY <1>3
  <2> HIDE DEF r
  <2>8. IsSearch(disk', disk'[0].root) /\ IsLevel(disk', disk'[0].root)
    BY <2>6, <2>7
  <2> QED BY <1>5, <2>8 DEF PublishInv, IsSearch, Routes, KeysUnder, IsLevel, IsTall, Graded, Ids
<1>6. CASE writer'.pc \notin {"publishRoot", "commitWrite"}
  BY <1>6 DEF PublishInv
<1> QED BY <1>4, <1>5, <1>6

\* The trees of a step that writes to none.
LEMMA SearchStays ==
  ASSUME SearchInv, UNCHANGED <<file, header, writer>>
  PROVE  SearchInv'
<1>1. writer' \notin NoWork => SearchWork(file', header'.root, writer')
  BY DEF SearchInv
<1>2. writer'.pc # "closed" => IsSearch(file', header'.root) /\ IsLevel(file', header'.root)
  BY DEF SearchInv
<1>3. file'[0].kind = "header" => IsSearch(file', file'[0].root) /\ IsLevel(file', file'[0].root)
  BY DEF SearchInv
<1>4. writer'.pc = "createHeader" => file'[header'.root] = Leaf(<<>>, <<>>)
  BY DEF SearchInv
<1> QED BY <1>1, <1>2, <1>3, <1>4 DEF SearchInv

\* The steps on the map keep PowerInv, ...
LEMMA PowerMap ==
  ASSUME PowerInv, MapStep
  PROVE  PowerInv'
<1>1. BothInv' /\ DiskInv' /\ PublishInv'
  BY MapKeeps, PublishMap DEF PowerInv
<1>2. CASE \E r \in Reader : Pin(r)
  <2>1. UNCHANGED <<file, header, writer>>
    BY <1>2 DEF Pin
  <2>2. SearchInv'
    BY <2>1, SearchStays DEF PowerInv
  <2> QED BY <1>1, <2>2 DEF PowerInv
<1>3. CASE ~\E r \in Reader : Pin(r)
  <2>1. Next
    BY <1>3 DEF MapStep, Next, PutStep, GetStep
  <2> QED BY <1>1, <2>1, SearchNext DEF PowerInv
<1> QED BY <1>2, <1>3

\* The disk holds what the file does.
DiskIsFile == \A p \in DOMAIN file : disk[p] = file[p]

\* The root is on the disk.
LEMMA PublishSynced == BothInv /\ SearchInv /\ DiskInv /\ DiskIsFile => PublishInv
<1> SUFFICES ASSUME BothInv, SearchInv, DiskInv, DiskIsFile PROVE PublishInv
  OBVIOUS
<1>1. FileOK(disk) /\ FileOK(file) /\ DOMAIN disk = DOMAIN file /\ 0 \in DOMAIN file
  BY DiskTypes, FileSizeIs
<1>2. disk[0] = file[0]
  BY <1>1 DEF DiskIsFile
<1>3. CASE writer.pc = "commitWrite"
  <2> DEFINE r == file[0].root
  <2>1. IsTree(file, r) /\ IsSearch(file, r) /\ IsLevel(file, r)
    BY <1>3 DEF BothInv, CowInv, HeaderInv, TreeInv, IsOpen, SearchInv
  <2>2. Keeps(file, disk, TreePages(file, r))
    BY <1>1, <2>1, TreeBasics DEF Keeps, IsTree, Ids, DiskIsFile
  <2>3. IsSearch(disk, r) /\ IsLevel(disk, r)
    BY <1>1, <2>1, <2>2, SearchKeep, TallKeeps
  <2> QED BY <1>2, <1>3, <2>3 DEF PublishInv
<1> QED BY <1>2, <1>3 DEF PublishInv

LEMMA PublishSyncedNext == (BothInv /\ SearchInv /\ DiskInv /\ DiskIsFile => PublishInv)'
BY PublishSynced, PTL

\* ... so do those that end a sync, ...
LEMMA PowerSync ==
  ASSUME PowerInv, SyncStep
  PROVE  PowerInv'
<1>1. BothInv' /\ DiskInv'
  BY SyncKeeps DEF PowerInv
<1>2. SearchInv'
  BY SearchNext DEF PowerInv, SyncStep, Next, PutStep
<1>3. disk' = file'
  BY DEF SyncStep, SyncHead, CommitRoot, CommitWrite, Synced
<1>4. DiskIsFile'
  BY <1>3 DEF DiskIsFile
<1> QED BY <1>1, <1>2, <1>4, PublishSyncedNext DEF PowerInv

\* Behind publish_root only the header may still have to be written back.
LEMMA LastBack ==
  ASSUME PowerInv, NEW p \in DOMAIN disk, WriteBack(p), writer.pc \in {"publishRoot", "commitWrite"}
  PROVE  writer.pc = "commitWrite" /\ DiskIsFile'
<1>1. FileOK(disk) /\ FileOK(file) /\ DOMAIN disk = DOMAIN file /\ 0 \in DOMAIN file
  BY DiskTypes, FileSizeIs DEF PowerInv
<1>2. \A q \in Ids(file) : disk[q] = file[q]
  BY DEF PowerInv, DiskInv, RootOK, NoRoot, Young, Settled, Published, NoWork, NoThread, At, Upward, Blank
<1>3. disk[p] # file[p] /\ file' = file /\ disk' = [disk EXCEPT ![p] = file[p]]
  BY DEF WriteBack, vars
<1>4. p = 0
  BY <1>1, <1>2, <1>3 DEF Ids
<1>5. writer.pc = "commitWrite"
  BY <1>3, <1>4 DEF PowerInv, PublishInv
<1>6. \A q \in DOMAIN file : disk'[q] = file[q]
  BY <1>1, <1>2, <1>3, <1>4 DEF Ids
<1>7. DiskIsFile'
  BY <1>3, <1>6 DEF DiskIsFile
<1> QED BY <1>5, <1>7

\* ... and a page that is written back.
LEMMA PowerBack ==
  ASSUME PowerInv, NEW p \in DOMAIN disk, WriteBack(p)
  PROVE  PowerInv'
<1>1. BothInv' /\ DiskInv'
  BY BackKeeps DEF PowerInv
<1>2. UNCHANGED vars /\ writer' = writer
  BY DEF WriteBack, vars
<1>3. SearchInv'
  BY <1>2, SearchNext DEF PowerInv
<1>4. CASE writer.pc \in {"publishRoot", "commitWrite"}
  BY <1>1, <1>3, <1>4, LastBack, PublishSyncedNext DEF PowerInv
<1>5. CASE writer.pc \notin {"publishRoot", "commitWrite"}
  <2>1. PublishInv'
    BY <1>2, <1>5 DEF PublishInv
  <2> QED BY <1>1, <1>3, <2>1 DEF PowerInv
<1> QED BY <1>4, <1>5

\* What the power failure leaves is a file that can be opened, or dead.
LEMMA PowerFails ==
  ASSUME PowerInv, PowerFailure, ListIsWhole
  PROVE  PowerInv' \/ DeadFile'
<1> SUFFICES ASSUME BothInv', DiskInv' PROVE PowerInv'
  BY FailureKeeps DEF PowerInv
<1>1. file' = disk /\ disk' = disk /\ writer' = [pc |-> "closed"]
  BY DEF PowerFailure
<1>2. PublishInv'
  BY <1>1 DEF PublishInv
<1>3. ASSUME disk[0].kind = "header" PROVE IsSearch(disk, disk[0].root) /\ IsLevel(disk, disk[0].root)
  <2>1. IsTree(disk, disk[0].root)
    <3>1. IsTree(file, file[0].root)'
      BY <1>1, <1>3 DEF BothInv, CowInv, TreeInv
    <3> QED BY <1>1, <3>1 DEF IsTree, IsRooted, IsReach, Closed, Ids
  <2> QED BY <1>3, <2>1, DiskSearch
<1>4. SearchInv'
  <2>1. file'[0].kind = "header" => IsSearch(file', file'[0].root) /\ IsLevel(file', file'[0].root)
    BY <1>1, <1>3
  <2>2. writer' \in NoWork /\ writer'.pc = "closed"
    BY <1>1 DEF NoWork
  <2> QED BY <2>1, <2>2 DEF SearchInv
<1> QED BY <1>2, <1>4 DEF PowerInv

\* PowerInv holds at first, and every step keeps it or leaves a dead file.
LEMMA PowerInit == DiskInit => PowerInv
<1> SUFFICES ASSUME DiskInit PROVE PowerInv
  OBVIOUS
<1>1. BothInv /\ DiskInv
  BY RecoveryInit DEF RecoveryInv, DeadFile, DiskInit, Init, Blank
<1>2. SearchInv
  BY SearchInit DEF DiskInit
<1>3. PublishInv
  BY DEF PublishInv, DiskInit, Init
<1> QED BY <1>1, <1>2, <1>3 DEF PowerInv

LEMMA PowerNext == (PowerInv \/ DeadFile) /\ [WholeNext]_diskVars => (PowerInv \/ DeadFile)'
<1> SUFFICES ASSUME PowerInv \/ DeadFile, [WholeNext]_diskVars PROVE PowerInv' \/ DeadFile'
  OBVIOUS
<1>1. CASE DeadFile
  BY <1>1, DeadNext
<1>2. CASE PowerInv
  <2>1. CASE SyncStep
    BY <1>2, <2>1, PowerSync
  <2>2. CASE MapStep
    BY <1>2, <2>2, PowerMap
  <2>3. ASSUME NEW p \in DOMAIN disk, WriteBack(p) PROVE PowerInv'
    BY <1>2, <2>3, PowerBack
  <2>4. CASE PowerFailure /\ ListIsWhole
    BY <1>2, <2>4, PowerFails
  <2>5. CASE UNCHANGED diskVars
    <3>1. UNCHANGED vars /\ UNCHANGED <<file, writer, disk>>
      BY <2>5 DEF diskVars, vars
    <3>2. BothInv' /\ DiskInv'
      BY <1>2, <2>5, DiskIdle DEF PowerInv
    <3>3. SearchInv'
      BY <1>2, <3>1, SearchNext DEF PowerInv
    <3>4. PublishInv'
      <4>1. writer'.pc = "publishRoot" => disk'[0] = file'[0]
        BY <1>2, <3>1 DEF PowerInv, PublishInv
      <4>2. writer'.pc = "commitWrite" => IsSearch(disk', disk'[0].root) /\ IsLevel(disk', disk'[0].root)
        BY <1>2, <3>1 DEF PowerInv, PublishInv
      <4> QED BY <4>1, <4>2 DEF PublishInv, IsSearch, Routes, KeysUnder, IsLevel, IsTall, Graded, Ids
    <3> QED BY <3>2, <3>3, <3>4 DEF PowerInv
  <2> QED BY <2>1, <2>2, <2>3, <2>4, <2>5 DEF WholeNext, DiskNext
<1> QED BY <1>1, <1>2

-----------------------------------------------------------------------------
(* Every step is one of KVStore.                                           *)

\* While no put is effective, both maps are what the disk holds.
LEMMA StoreQuiet ==
  ASSUME BothInv, DiskInv, BothInv', DiskInv', ~IsEffective, ~IsEffective', OnDisk' = OnDisk
  PROVE  UNCHANGED <<StoreInMap, OnDisk>>
BY OneStore, OneStoreNext

\* A put goes on, raises or returns while it is not effective.
LEMMA PutQuiet ==
  ASSUME BothInv, DiskInv, BothInv', DiskInv', OnDisk' = OnDisk, GoesOn \/ Raises \/ Returns,
         writer.pc # "commitWrite", writer'.pc # "commitWrite"
  PROVE  [Durable!Next]_Durable!vars
<1>1. ~IsEffective /\ ~IsEffective'
  BY DEF IsEffective, GoesOn, Raises, Returns, Places, Upward, NoThread
<1>2. UNCHANGED <<StoreInMap, OnDisk>>
  BY <1>1, StoreQuiet
<1>3. CASE GoesOn
  <2>1. DurablePut' = DurablePut
    BY <1>3 DEF GoesOn, Places, DurablePut
  <2> QED BY <1>2, <2>1 DEF Durable!vars
<1>4. CASE Raises
  <2>1. DurablePut = [pc |-> "called", key |-> writer.key, value |-> writer.value] /\ DurablePut' = [pc |-> "none"]
    BY <1>4 DEF Raises, Upward, DurablePut, NoThread
  <2> QED BY <1>2, <2>1 DEF Durable!PutRaises, Durable!NoPut, Durable!Next
<1>5. CASE Returns
  <2>1. DurablePut = [pc |-> "persisted"] /\ DurablePut' = [pc |-> "none"]
    BY <1>5 DEF Returns, Places, DurablePut, NoThread
  <2> QED BY <1>2, <2>1 DEF Durable!PutReturns, Durable!NoPut, Durable!Next
<1> QED BY <1>3, <1>4, <1>5

\* The root is in the map now, and on the disk when the header is written back.
LEMMA DurablePublish ==
  ASSUME PowerInv, PowerInv', OnMap, PublishRoot
  PROVE  [Durable!Next]_Durable!vars
<1>1. /\ writer.pc = "publishRoot" /\ header' = header
      /\ writer' = [writer EXCEPT !.pc = "commitWrite", !.committed = TRUE]
  BY DEF PublishRoot
<1>2. writer.pc \in Places /\ IsOpen
  BY <1>1 DEF Places, IsOpen
<1>3. writer \in Works(Ids(file)) /\ FileOK(file) /\ FileOK(file')
  BY <1>2, Working, NextTypes DEF PowerInv, BothInv
<1>4. writer'.pc = "commitWrite" /\ writer'.committed /\ IsOpen'
  BY <1>1, <1>3 DEF Works, IsOpen
<1>5. StoreInMap' = StoreInMap
  <2>1. IsTree(file, header.root) /\ Keeps(file, file', TreePages(file, header.root))
    <3>1. IsTree(file, header.root) /\ TreeInMemory = TreePages(file, header.root)
      BY <1>2 DEF PowerInv, BothInv, CowInv, TreeInv, IsOpen, TreeInMemory
    <3> QED BY <3>1, TreesKept DEF OnMap, Keeps
  <2>2. Holds(file', header.root) = Holds(file, header.root)
    BY <1>3, <2>1, HoldsKeeps
  <2> QED BY <1>1, <1>2, <1>4, <2>2 DEF StoreInMap
<1>6. OnDisk' = OnDisk
  BY MapOnDisk
<1>7. DurablePut = [pc |-> "effective"]
  BY <1>1 DEF DurablePut
<1>8. CASE IsEffective'
  <2>1. DurablePut' = [pc |-> "effective"]
    BY <1>4, <1>8 DEF IsEffective, DurablePut
  <2> QED BY <1>5, <1>6, <1>7, <2>1 DEF Durable!vars
<1>9. CASE ~IsEffective'
  <2>1. DurablePut' = [pc |-> "persisted"]
    BY <1>4, <1>9 DEF IsEffective, DurablePut
  <2>2. OnDisk' = StoreInMap
    BY <1>5, <1>9, OneStoreNext DEF PowerInv
  <2> QED BY <1>5, <1>7, <2>1, <2>2 DEF Durable!PutIsPersisted, Durable!Next
<1> QED BY <1>8, <1>9

\* The steps on the map.
LEMMA DurableMap ==
  ASSUME PowerInv, MapStep
  PROVE  [Durable!Next]_Durable!vars
<1>1. PowerInv' /\ OnMap /\ OnDisk' = OnDisk /\ disk'[0] = disk[0]
  BY PowerMap, MapSteps, MapOnDisk DEF PowerInv
<1>2. CowInv /\ BothInv /\ BothInv' /\ DiskInv /\ DiskInv'
  BY <1>1 DEF PowerInv, BothInv
<1>3. CASE PublishRoot
  BY <1>1, <1>3, DurablePublish
<1>4. CASE \E r \in Reader : Pin(r) \/ EndRead(r)
  <2>1. UNCHANGED <<file, header, writer>>
    BY <1>4 DEF Pin, EndRead
  <2>2. StoreInMap' = StoreInMap
    BY <1>1, <2>1 DEF StoreInMap, IsOpen
  <2>3. DurablePut' = DurablePut
    BY <1>1, <2>1 DEF DurablePut, RootOnDisk
  <2> QED BY <1>1, <2>2, <2>3 DEF Durable!vars
<1>5. CASE OpenTree \/ CreateRoot \/ CreateHeader
  <2>1. writer.pc \in {"closed", "createHeader"} /\ writer'.pc \in {"idle", "createHeader"}
    BY <1>5 DEF OpenTree, CreateRoot, CreateHeader, NoThread
  <2>2. UNCHANGED <<StoreInMap, OnDisk>>
    BY <1>1, <1>2, <2>1, StoreQuiet DEF IsEffective
  <2>3. DurablePut' = DurablePut
    BY <2>1 DEF DurablePut
  <2> QED BY <2>2, <2>3 DEF Durable!vars
<1>6. ASSUME NEW k \in Key, NEW v \in Value, StartPut(k, v) PROVE Durable!CallPut(k, v)
  <2>1. writer = NoThread
    BY <1>6 DEF StartPut
  <2>2. /\ writer'.pc \in {"descend", "addFree"} /\ writer'.key = k /\ writer'.value = v
        /\ writer'.committed = FALSE
    BY <1>6 DEF StartPut, Work
  <2>3. UNCHANGED <<StoreInMap, OnDisk>>
    BY <1>1, <1>2, <2>1, <2>2, StoreQuiet DEF IsEffective, NoThread
  <2>4. DurablePut = [pc |-> "none"] /\ DurablePut' = [pc |-> "called", key |-> k, value |-> v]
    BY <2>1, <2>2 DEF DurablePut, NoThread
  <2> QED BY <2>3, <2>4 DEF Durable!CallPut, Durable!NoPut
<1>7. CASE /\ ~PublishRoot /\ ~(OpenTree \/ CreateRoot \/ CreateHeader)
           /\ ~\E k \in Key, v \in Value : StartPut(k, v)
           /\ ~\E r \in Reader : Pin(r) \/ EndRead(r)
  <2>1. PutStep /\ ~CommitRoot /\ writer.pc # "commitWrite"
    BY <1>7 DEF MapStep, PutStep, TakeFreeList, AddFreePage, WriteFreeList, PublishHead, Descend, AllocateNode,
                WriteNode, SplitNode, WriteLeft, WriteRight, WriteRoot, ReclaimAtOnce, CommitRoot
  <2>2. GoesOn \/ Raises \/ Returns
    BY <1>2, <1>7, <2>1, PutKinds
  <2>3. writer'.pc # "commitWrite"
    BY <1>1, <1>7, <2>1, Publishing
  <2> QED BY <1>1, <1>2, <2>1, <2>2, <2>3, PutQuiet
<1> QED BY <1>3, <1>4, <1>5, <1>6, <1>7 DEF Durable!Next

\* The steps that end a sync: with commit_root gets see the put, and with the sync
\* behind publish_root it is on the disk, if it has not been written back before.
LEMMA DurableSync ==
  ASSUME PowerInv, SyncStep
  PROVE  [Durable!Next]_Durable!vars
<1>1. PowerInv' /\ disk' = file /\ file' = file
  BY PowerSync DEF SyncStep, SyncHead, CommitRoot, CommitWrite, Synced
<1>2. CowInv /\ BothInv /\ BothInv' /\ DiskInv /\ DiskInv'
  BY <1>1 DEF PowerInv, BothInv
<1>3. writer.pc \in Places /\ IsOpen
  BY DEF SyncStep, SyncHead, CommitRoot, CommitWrite, Places, IsOpen
<1>4. writer \in Works(Ids(file)) /\ WorkOK(file, header.root, writer)
  BY <1>2, <1>3, Working
<1>5. file[0].kind = "header" /\ (writer.pc # "publishRoot" => file[0].root = header.root)
  BY <1>2, <1>3 DEF CowInv, HeaderInv
<1>6. OnDisk' = Holds(file, file[0].root)
  BY <1>1, <1>5 DEF OnDisk
<1>7. CASE SyncHead
  <2>1. OnDisk' = OnDisk
    BY <1>2, <1>5, <1>6, <1>7, OnDiskIs DEF SyncHead
  <2>2. GoesOn \/ Returns
    BY <1>2, <1>7, LastKinds
  <2>3. writer.pc # "commitWrite" /\ writer'.pc # "commitWrite"
    BY <1>4, <1>7 DEF SyncHead, WorkOK, Works, NoThread
  <2> QED BY <1>2, <2>1, <2>2, <2>3, PutQuiet
<1>8. CASE CommitRoot
  <2> DEFINE k == writer.key
             v == writer.value
  <2>1. /\ writer.pc = "commitRoot" /\ At(writer) = "commitRoot" /\ writer \notin NoWork
        /\ header' = [header EXCEPT !.root = writer.new] /\ writer' = [writer EXCEPT !.pc = "publishRoot"]
    BY <1>8 DEF CommitRoot, At, NoWork, NoThread
  <2>2. header'.root = writer.new /\ writer'.pc = "publishRoot" /\ IsOpen'
    BY <1>2, <1>3, <1>4, <2>1 DEF CowInv, HeaderInv, Works, IsOpen
  <2>3. ~writer.committed /\ IsTree(file, writer.new) /\ FileOK(file) /\ IsTree(file, header.root)
    BY <1>2, <1>3, <1>4, <2>1 DEF WorkOK, DoneOK, Behind, CowInv, TreeInv, IsOpen
  <2>4. \A j \in Key : Lookup(file, writer.new, j) = IF j = k THEN v ELSE Lookup(file, header.root, j)
    BY <2>1 DEF PowerInv, SearchInv, SearchWork, SearchDone, Updated
  <2>5. /\ StoreInMap = [j \in Key |-> Lookup(file, header.root, j)]
        /\ StoreInMap' = [j \in Key |-> Lookup(file, writer.new, j)]
    BY <1>1, <1>3, <2>2, <2>3, HoldsTree DEF StoreInMap
  <2>6. StoreInMap' = [StoreInMap EXCEPT ![k] = v]
    BY <2>4, <2>5
  <2>7. OnDisk' = OnDisk
    BY <1>2, <1>5, <1>6, <2>1, OnDiskIs
  <2>8. DurablePut = [pc |-> "called", key |-> k, value |-> v] /\ DurablePut' = [pc |-> "effective"]
    BY <2>1, <2>2, <2>3 DEF DurablePut
  <2> QED BY <2>6, <2>7, <2>8 DEF Durable!PutTakesEffect, Durable!Next
<1>9. CASE CommitWrite
  <2>1. /\ writer.pc = "commitWrite" /\ writer' = [writer EXCEPT !.pc = "reclaim"] /\ header' = header
    BY <1>9 DEF CommitWrite
  <2>2. writer.committed /\ writer'.committed /\ writer'.pc = "reclaim" /\ IsOpen'
    BY <1>4, <2>1 DEF WorkOK, At, Works, IsOpen
  <2>3. StoreInMap = Holds(file, header.root) /\ StoreInMap' = StoreInMap /\ OnDisk' = StoreInMap
    BY <1>1, <1>3, <1>5, <1>6, <2>1, <2>2 DEF StoreInMap
  <2>4. DurablePut' = [pc |-> "persisted"]
    BY <2>2 DEF DurablePut
  <2>5. CASE IsEffective
    <3>1. DurablePut = [pc |-> "effective"]
      BY <2>1, <2>5 DEF DurablePut, IsEffective
    <3> QED BY <2>3, <2>4, <3>1 DEF Durable!PutIsPersisted, Durable!Next
  <2>6. CASE ~IsEffective
    <3>1. DurablePut = [pc |-> "persisted"]
      BY <2>1, <2>2, <2>6 DEF DurablePut, IsEffective
    <3>2. OnDisk = StoreInMap
      BY <1>2, <2>6, OneStore
    <3> QED BY <2>3, <2>4, <3>1, <3>2 DEF Durable!vars
  <2> QED BY <2>5, <2>6
<1> QED BY <1>7, <1>8, <1>9 DEF SyncStep

\* The header is written back between publish_root and the sync behind it.
LEMMA DurableBack ==
  ASSUME PowerInv, NEW p \in DOMAIN disk, WriteBack(p)
  PROVE  [Durable!Next]_Durable!vars
<1>1. PowerInv' /\ UNCHANGED <<file, header, writer>>
  BY PowerBack DEF WriteBack, vars
<1>2. BothInv /\ BothInv' /\ DiskInv /\ DiskInv'
  BY <1>1 DEF PowerInv
<1>3. CASE writer.pc \notin {"publishRoot", "commitWrite"}
  <2>1. OnDisk' = OnDisk
    BY <1>1, <1>2, <1>3, OnDiskIs, OnDiskIsNext
  <2>2. UNCHANGED <<StoreInMap, OnDisk>>
    BY <1>1, <1>2, <1>3, <2>1, StoreQuiet DEF IsEffective
  <2>3. DurablePut' = DurablePut
    BY <1>1, <1>3 DEF DurablePut
  <2> QED BY <2>2, <2>3 DEF Durable!vars
<1>4. CASE writer.pc \in {"publishRoot", "commitWrite"}
  <2>1. writer.pc = "commitWrite" /\ DiskIsFile'
    BY <1>4, LastBack
  <2>2. writer.committed /\ IsOpen /\ IsOpen'
    <3>1. writer.pc \in Places
      BY <2>1 DEF Places
    <3>2. WorkOK(file, header.root, writer)
      BY <1>2, <3>1, Working DEF BothInv
    <3> QED BY <1>1, <2>1, <3>2 DEF WorkOK, At, IsOpen
  <2>3. StoreInMap' = StoreInMap
    BY <1>1, <2>2 DEF StoreInMap
  <2>4. ~IsEffective'
    <3>1. file[0].kind = "header" /\ file[0].root = header.root /\ FileOK(file)
      BY <1>2, <2>1, <2>2 DEF BothInv, CowInv, HeaderInv
    <3>2. disk'[0] = file[0]
      BY <1>1, <2>1, <3>1, FileSizeIs DEF DiskIsFile
    <3> QED BY <1>1, <2>1, <3>1, <3>2 DEF IsEffective, RootOnDisk
  <2>5. OnDisk' = StoreInMap'
    BY <1>2, <2>4, OneStoreNext
  <2>6. DurablePut' = [pc |-> "persisted"]
    BY <1>1, <2>1, <2>2, <2>4 DEF DurablePut, IsEffective
  <2>7. CASE IsEffective
    <3>1. DurablePut = [pc |-> "effective"]
      BY <2>1, <2>7 DEF DurablePut, IsEffective
    <3> QED BY <2>3, <2>5, <2>6, <3>1 DEF Durable!PutIsPersisted, Durable!Next
  <2>8. CASE ~IsEffective
    <3>1. DurablePut = [pc |-> "persisted"]
      BY <2>1, <2>2, <2>8 DEF DurablePut, IsEffective
    <3>2. OnDisk = StoreInMap
      BY <1>2, <2>8, OneStore
    <3> QED BY <2>3, <2>5, <2>6, <3>1, <3>2 DEF Durable!vars
  <2> QED BY <2>7, <2>8
<1> QED BY <1>3, <1>4

\* The power fails.
LEMMA DurableFailure == PowerFailure => Durable!Crash
<1> SUFFICES ASSUME PowerFailure PROVE Durable!Crash
  OBVIOUS
<1>1. disk' = disk /\ writer'.pc = "closed"
  BY DEF PowerFailure
<1>2. OnDisk' = OnDisk /\ StoreInMap' = OnDisk'
  BY <1>1 DEF OnDisk, StoreInMap, IsOpen
<1>3. DurablePut' = [pc |-> "none"]
  BY <1>1 DEF DurablePut
<1> QED BY <1>2, <1>3 DEF Durable!Crash, Durable!NoPut, Durable!NoGet

\* A dead file holds nothing, and no put changes that.
LEMMA DeadHolds == DeadFile => OnDisk = Nothing /\ StoreInMap = Nothing
<1> SUFFICES ASSUME DeadFile PROVE OnDisk = Nothing /\ StoreInMap = Nothing
  OBVIOUS
<1>1. FileOK(file) /\ FileOK(disk) /\ 0 \in DOMAIN file /\ DOMAIN disk = DOMAIN file
  BY FileSizeIs DEF DeadFile
<1>2. file[0].root \in Ids(file) /\ file[0].root \in DOMAIN file /\ file[0].kind = "header"
  BY <1>1, KindOf DEF DeadFile, Headers, Ids
<1>3. /\ disk[0] = file[0] /\ file[0].root \in Ids(disk)
      /\ file[file[0].root] = Blank /\ disk[file[0].root] = Blank
  BY <1>1, <1>2 DEF DeadFile, Ids
<1>4. Holds(file, file[0].root) = Nothing /\ Holds(disk, file[0].root) = Nothing
  BY <1>1, <1>2, <1>3, HoldsNothing
<1>5. OnDisk = Nothing
  BY <1>2, <1>3, <1>4 DEF OnDisk
<1>6. CASE IsOpen
  BY <1>4, <1>5, <1>6 DEF StoreInMap, IsOpen, DeadFile
<1>7. CASE ~IsOpen
  BY <1>5, <1>7 DEF StoreInMap
<1> QED BY <1>5, <1>6, <1>7

LEMMA DeadHoldsNext == (DeadFile => OnDisk = Nothing /\ StoreInMap = Nothing)'
BY DeadHolds, PTL

LEMMA DurableDead ==
  ASSUME DeadFile, DiskNext
  PROVE  [Durable!Next]_Durable!vars
<1>1. UNCHANGED <<StoreInMap, OnDisk>>
  <2>1. DeadFile'
    BY DeadKeeps
  <2>2. OnDisk = Nothing /\ StoreInMap = Nothing /\ OnDisk' = Nothing' /\ StoreInMap' = Nothing'
    BY <2>1, DeadHolds, DeadHoldsNext
  <2> QED BY <2>2 DEF Nothing
<1>2. writer.pc \in {"closed", "idle", "descend"} /\ (writer.pc = "descend" => ~writer.committed)
  BY DEF DeadFile
<1>3. CASE PowerFailure
  BY <1>3, DurableFailure DEF Durable!Next
<1>4. ~SyncStep /\ \A p \in DOMAIN disk : ~WriteBack(p)
  BY DEF SyncStep, SyncHead, CommitRoot, CommitWrite, WriteBack, DeadFile
<1>5. CASE OpenTree
  <2>1. DurablePut' = DurablePut
    BY <1>5 DEF OpenTree, NoThread, DurablePut
  <2> QED BY <1>1, <2>1 DEF Durable!vars
<1>6. ASSUME NEW k \in Key, NEW v \in Value, StartPut(k, v) PROVE Durable!CallPut(k, v)
  <2>1. /\ writer = NoThread /\ writer'.pc \in {"descend", "addFree"} /\ writer'.key = k /\ writer'.value = v
        /\ writer'.committed = FALSE
    BY <1>6 DEF StartPut, Work
  <2>2. DurablePut = [pc |-> "none"] /\ DurablePut' = [pc |-> "called", key |-> k, value |-> v]
    BY <2>1 DEF DurablePut, NoThread
  <2> QED BY <1>1, <2>2 DEF Durable!CallPut, Durable!NoPut
<1>7. CASE Descend
  <2>1. writer.pc = "descend" /\ file[0].root \in DOMAIN file
    BY <1>7, FileSizeIs, KindOf DEF Descend, DeadFile, Headers, Ids
  <2>2. ReadPage(file, writer.next) = Blank
    BY <2>1 DEF DeadFile, ReadPage
  <2>3. writer' = NoThread
    BY <1>7, <2>2 DEF Descend, PutRaises, Blank
  <2>4. DurablePut = [pc |-> "called", key |-> writer.key, value |-> writer.value] /\ DurablePut' = [pc |-> "none"]
    BY <1>2, <2>1, <2>3 DEF DurablePut, NoThread
  <2> QED BY <1>1, <2>4 DEF Durable!PutRaises, Durable!NoPut, Durable!Next
<1>8. CASE \E r \in Reader : Pin(r) \/ EndRead(r)
  <2>1. writer' = writer
    BY <1>8 DEF Pin, EndRead
  <2>2. DurablePut' = DurablePut
    BY <1>2, <2>1 DEF DurablePut
  <2> QED BY <1>1, <2>2 DEF Durable!vars
<1>9. CASE MapStep
  <2>1. file[0].kind = "header"
    BY DEF DeadFile
  <2>2. OpenTree \/ (\E k \in Key, v \in Value : StartPut(k, v)) \/ Descend \/ (\E r \in Reader : Pin(r) \/ EndRead(r))
    BY <1>2, <1>9, <2>1 DEF MapStep, CreateRoot, CreateHeader, TakeFreeList, AddFreePage,
          WriteFreeList, PublishHead, AllocateNode, WriteNode, SplitNode, WriteLeft, WriteRight, WriteRoot,
          PublishRoot, ReclaimAtOnce
  <2> QED BY <1>5, <1>6, <1>7, <1>8, <2>2 DEF Durable!Next
<1> QED BY <1>3, <1>4, <1>9 DEF DiskNext

\* Every step is one of KVStore or changes none of its variables.
LEMMA DurableNext == (PowerInv \/ DeadFile) /\ [WholeNext]_diskVars => [Durable!Next]_Durable!vars
<1> SUFFICES ASSUME PowerInv \/ DeadFile, [WholeNext]_diskVars PROVE [Durable!Next]_Durable!vars
  OBVIOUS
<1>1. CASE UNCHANGED diskVars
  <2>1. UNCHANGED <<file, header, writer, disk>>
    BY <1>1 DEF diskVars, vars
  <2>2. OnDisk' = OnDisk
    BY <2>1 DEF OnDisk
  <2>3. StoreInMap' = StoreInMap
    BY <2>1, <2>2 DEF StoreInMap, IsOpen
  <2>4. DurablePut' = DurablePut
    BY <2>1 DEF DurablePut, RootOnDisk
  <2> QED BY <2>2, <2>3, <2>4 DEF Durable!vars
<1>2. CASE PowerFailure
  BY <1>2, DurableFailure DEF Durable!Next
<1>3. CASE DeadFile /\ DiskNext
  BY <1>3, DurableDead
<1>4. CASE PowerInv /\ (SyncStep \/ MapStep \/ \E p \in DOMAIN disk : WriteBack(p))
  BY <1>4, DurableSync, DurableMap, DurableBack
<1> QED BY <1>1, <1>2, <1>3, <1>4 DEF WholeNext, DiskNext

LEMMA DurableInit == DiskInit => Durable!Init
<1> SUFFICES ASSUME DiskInit PROVE Durable!Init
  OBVIOUS
<1>1. disk[0] = Blank /\ writer = [pc |-> "closed"]
  BY DEF DiskInit, Init
<1>2. OnDisk = [k \in Key |-> None] /\ StoreInMap = OnDisk /\ DurablePut = [pc |-> "none"]
  BY <1>1 DEF OnDisk, StoreInMap, DurablePut, IsOpen, Blank
<1> QED BY <1>2 DEF Durable!Init, Durable!NoPut, Durable!NoGet

\* A put that has returned is on the disk, and one that has not is there all or not at
\* all, whatever pages the kernel has written back when the power fails, for all sizes,
\* keys, puts, gets and power failures.
THEOREM PutsSurvivePowerLoss == WholeSpec => DurableOnDisk
BY PowerInit, PowerNext, DurableInit, DurableNext, PTL DEF WholeSpec, DurableOnDisk, Durable!Spec
=============================================================================
