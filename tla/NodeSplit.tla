----------------------------- MODULE NodeSplit ------------------------------
(***************************************************************************)
(* The size arithmetic of copy-on-write-btree/src: how large a node is on  *)
(* its page (serialize, node.py) and where _split_leaf and _split_internal *)
(* (btree.py) cut a node that has outgrown it.  A node is the sequence of  *)
(* the sizes of its entries behind a fixed part of "base" bytes: for a     *)
(* leaf the header, for an internal node the header and the first child    *)
(* pointer, every other child being counted with the key before it.        *)
(***************************************************************************)
EXTENDS Naturals, SequencesExt

CONSTANT PageSize

LeafBase == 11          \* LEAF_HEADER_SIZE
InternalBase == 19      \* INTERNAL_HEADER_SIZE + POINTER_SIZE
FreeListBase == 19      \* FREELIST_METADATA_SIZE

ASSUME PageSizeAssumption == PageSize \in Nat /\ PageSize > 2 * InternalBase

LeafEntrySize(key, value) == 4 + key + value
InternalEntrySize(key) == 2 + key + 8

\* FreeListManager.max_ids_per_page
MaxIdsPerPage == (PageSize - FreeListBase) \div 8

Plus(x, y) == x + y

NodeSize(base, sizes) == base + FoldLeft(Plus, 0, sizes)

Overflows(base, sizes) == NodeSize(base, sizes) > PageSize

\* Mutant: the first half takes the entry that does not fit any more.
SplitIndex_TakesOverflow(base, sizes) ==
    LET n == Len(sizes)
        half == NodeSize(base, sizes) \div 2
        Left(i) == NodeSize(base, SubSeq(sizes, 1, i))
        stops == {i \in 1 .. (n - 1) : Left(i) >= half}
    IN  IF stops = {} THEN 1
        ELSE CHOOSE i \in stops : \A j \in stops : i <= j

\* The number of entries the loop leaves to the left half: it stops in front
\* of an entry that would not fit (but takes the first one in any case), or
\* behind the entry that reaches half of the node (but leaves the last one).
SplitIndex(base, sizes) ==
    LET n == Len(sizes)
        half == NodeSize(base, sizes) \div 2
        Left(i) == NodeSize(base, SubSeq(sizes, 1, i))
        Before(i) == i > 1 /\ Left(i) > PageSize
        Behind(i) == i < n /\ Left(i) >= half
        stops == {i \in 1 .. n : Before(i) \/ Behind(i)}
        first == CHOOSE i \in stops : \A j \in stops : i <= j
    IN  IF stops = {} THEN 1
        ELSE IF Before(first) THEN first - 1
        ELSE first

LeftHalf(base, sizes) == SubSeq(sizes, 1, SplitIndex(base, sizes))

\* The key at the split index is copied up from a leaf, and moved up from an
\* internal node.
RightHalf(base, sizes) ==
    SubSeq(sizes, SplitIndex(base, sizes) + (IF base = LeafBase THEN 1 ELSE 2), Len(sizes))

\* keys[split_idx] is an IndexError: a node of one entry cannot be split.
SplitHasNoKey(base, sizes) == SplitIndex(base, sizes) >= Len(sizes)

\* Mutant: the right half is not looked at.
SplitFits_LeftOnly(base, sizes) ==
    ~SplitHasNoKey(base, sizes) /\ ~Overflows(base, LeftHalf(base, sizes))

\* write_page raises a ValueError for a half that is still too large.
SplitFits(base, sizes) ==
    /\ ~SplitHasNoKey(base, sizes)
    /\ ~Overflows(base, LeftHalf(base, sizes))
    /\ ~Overflows(base, RightHalf(base, sizes))
=============================================================================
