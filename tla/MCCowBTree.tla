----------------------------- MODULE MCCowBTree -----------------------------
(* CowBTree on small instances: a page of 40 bytes holds a leaf of two     *)
(* entries of 5 byte keys and values, an internal node of one key, or a    *)
(* node of the free list of two ids.                                       *)
EXTENDS CowBTree

CONSTANTS Large, \* values that fit on a page beside no other entry
          Huge   \* values that fit on no page

FiveByteKeys == [k \in Key |-> 5]

ValueLengths == [v \in Value |-> IF v \in Huge THEN 40 ELSE IF v \in Large THEN 16 ELSE 5]

\* Values and readers are interchangeable.
Symmetry == Permutations(Reader) \cup Permutations(Value \ (Large \cup Huge))
=============================================================================
