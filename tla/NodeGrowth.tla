----------------------------- MODULE NodeGrowth -----------------------------
(***************************************************************************)
(* One node under a sequence of puts: _upsert_leaf inserts an entry or     *)
(* changes the size of one, _upsert_internal inserts the key that a split  *)
(* of a child has sent up; a node that overflows is split, and the put     *)
(* goes on in either half.  A put that raises leaves the node as it was.   *)
(***************************************************************************)
EXTENDS NodeSplit, FiniteSets

CONSTANTS EntrySizes  \* the sizes of entries that puts bring

ASSUME EntrySizesAssumption == EntrySizes \subseteq Nat

VARIABLES base,   \* LeafBase or InternalBase
          sizes,  \* the sizes of the entries on the page
          grown   \* the sizes that the last put tried to store

vars == <<base, sizes, grown>>

\* The key and the value of an entry of a leaf may be empty; an entry of an
\* internal node has a child pointer.
Entries ==
    LET least == IF base = LeafBase THEN LeafEntrySize(0, 0) ELSE InternalEntrySize(0)
    IN  {e \in EntrySizes : e >= least}

\* A leaf starts empty, and an internal node with the key of the super-root.
Init ==
    /\ \/ base = LeafBase /\ sizes = <<>>
       \/ base = InternalBase /\ \E e \in Entries : sizes = <<e>> /\ ~Overflows(base, sizes)
    /\ grown = sizes

\* What the node holds after the put, if it does not raise.
Stores(s) ==
    /\ grown' = s
    /\ IF ~Overflows(base, s) THEN sizes' = s
       ELSE IF SplitFits(base, s) THEN sizes' \in {LeftHalf(base, s), RightHalf(base, s)}
       ELSE sizes' = sizes
    /\ UNCHANGED base

InsertEntry(i, e) == Stores(InsertAt(sizes, i, e))

ChangeEntry(i, e) == base = LeafBase /\ Stores(ReplaceAt(sizes, i, e))

Next ==
    \/ \E i \in 1 .. (Len(sizes) + 1), e \in Entries : InsertEntry(i, e)
    \/ \E i \in 1 .. Len(sizes), e \in Entries : ChangeEntry(i, e)

Spec == Init /\ [][Next]_vars

-----------------------------------------------------------------------------
\* A node holds what its page can hold.
TypeOK ==
    /\ base \in {LeafBase, InternalBase}
    /\ sizes \in Seq(Entries) /\ grown \in Seq(Entries)
    /\ ~Overflows(base, sizes)

\* As long as no entry takes more than half of what a page can hold, the
\* halves of every split fit on their pages and no put raises.
SmallEntriesSplit ==
    (Overflows(base, grown) /\ \A i \in DOMAIN grown : 2 * grown[i] <= PageSize - base)
        => SplitFits(base, grown)

\* A node that exceeds the page is split (README), whenever each of its
\* entries fits on a page and so do the two halves of some cut of it.
OverflowIsSplit ==
    LET n == Len(grown)
        skip == IF base = LeafBase THEN 1 ELSE 2
    IN  (/\ Overflows(base, grown)
         /\ \A i \in 1 .. n : ~Overflows(base, <<grown[i]>>)
         /\ \E i \in 1 .. (n - 1) : /\ ~Overflows(base, SubSeq(grown, 1, i))
                                   /\ ~Overflows(base, SubSeq(grown, i + skip, n)))
            => SplitFits(base, grown)
=============================================================================
