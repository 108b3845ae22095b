--------------------------- MODULE CowStoreProofs ---------------------------
(***************************************************************************)
(* What the tree holds, for every size of pages, any keys and values, and  *)
(* any number of gets and puts: each tree is a search tree with its leaves *)
(* at one depth, a put changes the value of its key and of no other, and   *)
(* so CowBTree implements KVStore.                                         *)
(***************************************************************************)
EXTENDS CowBTreeProofs

-----------------------------------------------------------------------------
(* Lookup goes down a tree.                                                *)

\* A page has more pages below it than each of its children.
LEMMA FewerBelow ==
  ASSUME NEW f, FileOK(f), NEW c, IsTree(f, c), NEW p \in TreePages(f, c), NEW k \in Kids(f, p)
  PROVE  /\ Cardinality(TreePages(f, k)) < Cardinality(TreePages(f, p))
         /\ Cardinality(TreePages(f, k)) \in Nat \ {0} /\ Cardinality(TreePages(f, p)) \in Nat
<1> DEFINE A == TreePages(f, k)
           B == TreePages(f, p)
<1>1. IsTree(f, p) /\ IsTree(f, k) /\ p \notin A /\ A \in SUBSET B
  BY TreeBelow
<1>2. p \in B /\ B \in SUBSET DOMAIN f /\ k \in A
  BY <1>1, TreeBasics DEF Ids, IsTree
<1>3. IsFiniteSet(B) /\ A # B /\ A # {}
  BY <1>1, <1>2, FileSizeIs, FS_Subset
<1> HIDE DEF A, B
<1>4. IsFiniteSet(A) /\ Cardinality(A) <= Cardinality(B) /\ Cardinality(A) # Cardinality(B)
  BY <1>1, <1>3, FS_Subset
<1>5. Cardinality(A) \in Nat /\ Cardinality(B) \in Nat /\ Cardinality(A) # 0
  BY <1>3, <1>4, FS_CardinalityType, FS_EmptySet
<1>6. Cardinality(A) < Cardinality(B) /\ Cardinality(A) \in Nat \ {0} /\ Cardinality(B) \in Nat
  BY <1>4, <1>5
<1> QED BY <1>6 DEF A, B

\* What holds of a page if it holds of its children holds in the whole tree.
LEMMA TreeInduction ==
  ASSUME NEW f, FileOK(f), NEW c, IsTree(f, c), NEW S,
         \A p \in TreePages(f, c) : Kids(f, p) \subseteq S => p \in S
  PROVE  TreePages(f, c) \subseteq S
<1> DEFINE bad == TreePages(f, c) \ S
           sizes == {Cardinality(TreePages(f, p)) : p \in bad}
<1> SUFFICES ASSUME bad # {} PROVE FALSE
  OBVIOUS
<1>1. \A p \in TreePages(f, c) : Cardinality(TreePages(f, p)) \in Nat
  <2> SUFFICES ASSUME NEW p \in TreePages(f, c) PROVE Cardinality(TreePages(f, p)) \in Nat
    OBVIOUS
  <2>1. IsTree(f, p) /\ TreePages(f, p) \in SUBSET DOMAIN f
    BY TreeBelow, TreeBasics DEF Ids, IsTree
  <2> QED BY <2>1, FileSizeIs, FS_Subset, FS_CardinalityType
<1>2. PICK m \in sizes : \A n \in sizes : m <= n
  <2>1. sizes \in SUBSET Nat /\ sizes # {}
    BY <1>1
  <2> HIDE DEF sizes
  <2> QED BY <2>1, NatSetHasMin
<1>3. PICK p \in bad : m = Cardinality(TreePages(f, p))
  BY <1>2
<1>4. PICK k \in Kids(f, p) : k \notin S
  BY <1>3
<1>5. k \in TreePages(f, c) /\ Cardinality(TreePages(f, k)) < Cardinality(TreePages(f, p))
  BY <1>3, <1>4, TreeBelow, FewerBelow
<1>6. Cardinality(TreePages(f, k)) \in sizes
  BY <1>4, <1>5
<1> QED BY <1>1, <1>2, <1>3, <1>5, <1>6

FoundFun(f, k) ==
    LET found[d \in 0 .. FileSize(f)] ==
            [p \in 0 .. FileSize(f) |->
                LET n == ReadPage(f, p)
                IN  IF n.kind = "leaf" THEN ValueIn(n, k)
                    ELSE IF n.kind = "internal" /\ d > 0 THEN found[d - 1][ChildFor(n, k)]
                    ELSE "corrupt"]
    IN  found

LEMMA LookupByFun ==
  ASSUME NEW f, NEW c, NEW k
  PROVE  Lookup(f, c, k) = FoundFun(f, k)[FileSize(f)][c]
BY DEF Lookup, FoundFun

LEMMA FoundFunIs ==
  ASSUME NEW f, FileOK(f), NEW k
  PROVE  \A d \in 0 .. FileSize(f), p \in 0 .. FileSize(f) :
           FoundFun(f, k)[d][p] =
             LET n == ReadPage(f, p)
             IN  IF n.kind = "leaf" THEN ValueIn(n, k)
                 ELSE IF n.kind = "internal" /\ d > 0 THEN FoundFun(f, k)[d - 1][ChildFor(n, k)]
                 ELSE "corrupt"
<1> DEFINE s == FileSize(f)
           X == [0 .. s -> Value \cup {None, "corrupt"}]
           At0(g, p) == LET n == ReadPage(f, p)
                        IN  IF n.kind = "leaf" THEN ValueIn(n, k)
                            ELSE IF n.kind = "internal" THEN g[ChildFor(n, k)]
                            ELSE "corrupt"
           step == [m \in Nat |-> [g \in X |-> [p \in 0 .. s |-> At0(g, p)]]]
           base == [p \in 0 .. s |-> IF ReadPage(f, p).kind = "leaf" THEN ValueIn(ReadPage(f, p), k)
                                     ELSE "corrupt"]
<1>1. s \in Nat /\ DOMAIN f = 0 .. s - 1
  BY FileSizeIs
<1>2. ASSUME NEW p \in 0 .. s
      PROVE  /\ ReadPage(f, p).kind = "leaf" => ValueIn(ReadPage(f, p), k) \in Value \cup {None}
             /\ ReadPage(f, p).kind = "internal" => ChildFor(ReadPage(f, p), k) \in 0 .. s
  <2>1. CASE p \in DOMAIN f
    <3>1. ReadPage(f, p) = f[p]
      BY <2>1 DEF ReadPage
    <3>2. f[p].kind = "leaf" => ValueIn(f[p], k) \in Value \cup {None}
      BY <2>1, KindOf, ValueIs
    <3>3. f[p].kind = "internal" => ChildFor(f[p], k) \in Ids(f)
      BY <2>1, KindOf, ChildForIs
    <3>4. Ids(f) \subseteq 0 .. s
      BY <1>1 DEF Ids
    <3> QED BY <3>1, <3>2, <3>3, <3>4
  <2>2. CASE p \notin DOMAIN f
    BY <2>2 DEF ReadPage, Blank
  <2> QED BY <2>1, <2>2
<1>3. base \in X
  BY <1>2
<1>4. step \in [Nat -> [X -> X]]
  <2>1. ASSUME NEW g \in X, NEW p \in 0 .. s PROVE At0(g, p) \in Value \cup {None, "corrupt"}
    BY <1>2
  <2> QED BY <2>1
<1>5. PICK h : h \in [Nat -> X] /\ h[0] = base /\ \A n \in Nat : h[n + 1] = step[n][h[n]]
  <2> HIDE DEF X, step, base
  <2>1. PICK h : IsRun(h, X, base, step)
    BY <1>3, <1>4, Recursion
  <2> QED BY <2>1 DEF IsRun
<1> DEFINE Row(r, d, p) == LET n == ReadPage(f, p)
                           IN  IF n.kind = "leaf" THEN ValueIn(n, k)
                               ELSE IF n.kind = "internal" /\ d > 0 THEN r[d - 1][ChildFor(n, k)]
                               ELSE "corrupt"
           t == [d \in 0 .. s |-> [p \in 0 .. s |-> h[d][p]]]
<1>6. ASSUME NEW d \in 0 .. s, NEW p \in 0 .. s PROVE h[d][p] = Row(t, d, p)
  <2>1. CASE d = 0
    <3>1. h[d][p] = base[p]
      <4> HIDE DEF base
      <4> QED BY <1>5, <2>1
    <3> QED BY <2>1, <3>1
  <2>2. CASE d # 0
    <3>1. d - 1 \in Nat /\ (d - 1) + 1 = d /\ d > 0 /\ d - 1 \in 0 .. s
      BY <1>1, <2>2
    <3>2. h[d] = step[d - 1][h[d - 1]] /\ h[d - 1] \in X
      <4> HIDE DEF step, X
      <4> QED BY <1>5, <3>1
    <3>3. step[d - 1][h[d - 1]] = [q \in 0 .. s |-> At0(h[d - 1], q)]
      <4> HIDE DEF X, At0
      <4> QED BY <3>1, <3>2, Zenon
    <3>4. h[d][p] = At0(h[d - 1], p)
      <4> HIDE DEF At0, step
      <4> QED BY <3>2, <3>3
    <3>5. ReadPage(f, p).kind = "internal" => t[d - 1][ChildFor(ReadPage(f, p), k)] = h[d - 1][ChildFor(ReadPage(f, p), k)]
      BY <1>2, <3>1
    <3> HIDE DEF t
    <3> QED BY <3>1, <3>4, <3>5
  <2> QED BY <2>1, <2>2
<1>7. t = [d \in 0 .. s |-> [p \in 0 .. s |-> Row(t, d, p)]]
  <2> HIDE DEF Row
  <2> QED BY <1>6
<1>8. FoundFun(f, k) = CHOOSE r : r = [d \in 0 .. s |-> [p \in 0 .. s |-> Row(r, d, p)]]
  BY Zenon DEF FoundFun
<1>9. FoundFun(f, k) = [d \in 0 .. s |-> [p \in 0 .. s |-> Row(FoundFun(f, k), d, p)]]
  <2> HIDE DEF t, Row
  <2> QED BY <1>7, <1>8, Zenon
<1> DEFINE Table(r, d) == [p \in 0 .. s |-> Row(r, d, p)]
<1>10. ASSUME NEW d \in 0 .. s, NEW p \in 0 .. s
       PROVE  FoundFun(f, k)[d][p] = Row(FoundFun(f, k), d, p)
  <2>1. FoundFun(f, k)[d] = Table(FoundFun(f, k), d)
    <3>1. FoundFun(f, k) = [e \in 0 .. s |-> Table(FoundFun(f, k), e)]
      BY <1>9, Zenon
    <3> HIDE DEF Table
    <3> QED BY <3>1, Zenon
  <2>2. Table(FoundFun(f, k), d)[p] = Row(FoundFun(f, k), d, p)
    <3> HIDE DEF Row
    <3> QED BY Zenon
  <2> QED BY <2>1, <2>2, Zenon
<1> QED BY <1>10

\* How often Lookup may go down does not matter if it suffices.
LEMMA FoundStable ==
  ASSUME NEW f, FileOK(f), NEW c, IsTree(f, c), NEW k
  PROVE  \A p \in TreePages(f, c) : \A d, e \in 0 .. FileSize(f) :
           d + 1 >= Cardinality(TreePages(f, p)) /\ e + 1 >= Cardinality(TreePages(f, p))
              => FoundFun(f, k)[d][p] = FoundFun(f, k)[e][p]
<1> DEFINE Same(p) == \A d, e \in 0 .. FileSize(f) :
               d + 1 >= Cardinality(TreePages(f, p)) /\ e + 1 >= Cardinality(TreePages(f, p))
                  => FoundFun(f, k)[d][p] = FoundFun(f, k)[e][p]
           S == {p \in TreePages(f, c) : Same(p)}
<1>1. ASSUME NEW p \in TreePages(f, c), Kids(f, p) \subseteq S
      PROVE  Same(p)
  <2>1. p \in DOMAIN f /\ p \in 0 .. FileSize(f) /\ f[p].kind \in {"leaf", "internal"} /\ ReadPage(f, p) = f[p]
    <3>1. p \in Ids(f) /\ f[p].kind \in {"leaf", "internal"}
      BY TreeBasics DEF IsTree
    <3> QED BY <3>1, FileSizeIs DEF Ids, ReadPage
  <2> SUFFICES ASSUME NEW d \in 0 .. FileSize(f), NEW e \in 0 .. FileSize(f),
                      d + 1 >= Cardinality(TreePages(f, p)), e + 1 >= Cardinality(TreePages(f, p))
               PROVE  FoundFun(f, k)[d][p] = FoundFun(f, k)[e][p]
    OBVIOUS
  <2>2. CASE f[p].kind = "leaf"
    BY <2>1, <2>2, FoundFunIs
  <2>3. CASE f[p].kind = "internal"
    <3> DEFINE q == ChildFor(f[p], k)
    <3>1. q \in Kids(f, p)
      BY <2>1, <2>3, KindOf, KidsAre, ChildForIs DEF Kids
    <3>2. q \in S /\ Cardinality(TreePages(f, q)) < Cardinality(TreePages(f, p))
          /\ Cardinality(TreePages(f, q)) \in Nat \ {0} /\ Cardinality(TreePages(f, p)) \in Nat
      BY <1>1, <3>1, FewerBelow
    <3> HIDE DEF q
    <3>3. /\ d > 0 /\ e > 0 /\ d - 1 \in 0 .. FileSize(f) /\ e - 1 \in 0 .. FileSize(f)
          /\ (d - 1) + 1 >= Cardinality(TreePages(f, q))
          /\ (e - 1) + 1 >= Cardinality(TreePages(f, q))
      BY <3>2, FileSizeIs
    <3>4. FoundFun(f, k)[d - 1][q] = FoundFun(f, k)[e - 1][q]
      BY <3>2, <3>3
    <3>5. FoundFun(f, k)[d][p] = FoundFun(f, k)[d - 1][q] /\ FoundFun(f, k)[e][p] = FoundFun(f, k)[e - 1][q]
      BY <2>1, <2>3, <3>3, FoundFunIs DEF q
    <3> QED BY <3>4, <3>5
  <2> QED BY <2>1, <2>2, <2>3
<1> HIDE DEF Same
<1>2. TreePages(f, c) \subseteq S
  <2>1. \A p \in TreePages(f, c) : Kids(f, p) \subseteq S => p \in S
    BY <1>1
  <2> HIDE DEF S
  <2> QED BY <2>1, TreeInduction
<1> QED BY <1>2 DEF Same

\* What a get finds at a node, and goes on to find below it.
Find(f, n, k) == IF n.kind = "leaf" THEN ValueIn(n, k) ELSE Lookup(f, ChildFor(n, k), k)

LEMMA LookupStep ==
  ASSUME NEW f, FileOK(f), NEW c, IsTree(f, c), NEW k
  PROVE  Lookup(f, c, k) = Find(f, f[c], k)
<1> DEFINE s == FileSize(f)
<1>1. c \in DOMAIN f /\ c \in 0 .. s /\ s \in 0 .. s /\ s > 0 /\ s \in Nat /\ ReadPage(f, c) = f[c]
      /\ c \in TreePages(f, c) /\ f[c].kind \in {"leaf", "internal"}
  <2>1. c \in Ids(f) /\ c \in TreePages(f, c) /\ f[c].kind \in {"leaf", "internal"}
    BY TreeBasics DEF IsTree
  <2> QED BY <2>1, FileSizeIs DEF Ids, ReadPage
<1>2. CASE f[c].kind = "leaf"
  BY <1>1, <1>2, FoundFunIs, LookupByFun DEF Find
<1>3. CASE f[c].kind = "internal"
  <2> DEFINE q == ChildFor(f[c], k)
  <2>1. q \in Kids(f, c)
    BY <1>1, <1>3, KindOf, KidsAre, ChildForIs DEF Kids
  <2>2. q \in TreePages(f, c) /\ Cardinality(TreePages(f, q)) < Cardinality(TreePages(f, c))
        /\ Cardinality(TreePages(f, q)) \in Nat \ {0} /\ Cardinality(TreePages(f, c)) \in Nat
    BY <1>1, <2>1, FewerBelow, TreeBelow
  <2>3. Cardinality(TreePages(f, c)) <= s
    <3>1. TreePages(f, c) \in SUBSET DOMAIN f
      BY TreeBasics DEF Ids, IsTree
    <3> QED BY <3>1, FileSizeIs, FS_Subset DEF FileSize
  <2> HIDE DEF q
  <2>4. s - 1 \in 0 .. s /\ (s - 1) + 1 >= Cardinality(TreePages(f, q)) /\ s + 1 >= Cardinality(TreePages(f, q))
    BY <1>1, <2>2, <2>3
  <2>5. FoundFun(f, k)[s - 1][q] = FoundFun(f, k)[s][q]
    BY <1>1, <2>2, <2>4, FoundStable
  <2>6. FoundFun(f, k)[s][c] = FoundFun(f, k)[s - 1][q]
    BY <1>1, <1>3, FoundFunIs DEF q
  <2> QED BY <1>3, <2>5, <2>6, LookupByFun DEF Find, q
<1> QED BY <1>1, <1>2, <1>3

-----------------------------------------------------------------------------
(* Search trees.                                                           *)

Ascends(s) == \A i, j \in DOMAIN s : i < j => s[i] < s[j]

\* The keys on the pages of a tree.
KeysUnder(f, c) == UNION {ToSet(f[p].keys) : p \in TreePages(f, c)}

NodeKeys(f, n) == ToSet(n.keys) \cup UNION {KeysUnder(f, k) : k \in KidsOf(n)}

\* The keys of a node ascend, and from it each key below leads to where it is.
Routes(f, n) ==
    /\ Ascends(n.keys)
    /\ \A k \in KidsOf(n) : \A j \in KeysUnder(f, k) : ChildFor(n, j) = k

IsSearch(f, c) == \A p \in TreePages(f, c) : Routes(f, f[p])

LEMMA TreePage ==
  ASSUME NEW f, FileOK(f), NEW c, IsTree(f, c), NEW p \in TreePages(f, c)
  PROVE  /\ p \in Ids(f) /\ p \in DOMAIN f /\ f[p] \in TreeNodes(Ids(f)) /\ IsTree(f, p)
         /\ f[p].kind \in {"leaf", "internal"} /\ KidsOf(f[p]) = Kids(f, p)
<1>1. p \in Ids(f) /\ f[p].kind \in {"leaf", "internal"} /\ IsTree(f, p)
  BY TreeBasics, TreeBelow DEF IsTree
<1>2. p \in DOMAIN f
  BY <1>1 DEF Ids
<1>3. f[p] \in TreeNodes(Ids(f))
  BY <1>1, <1>2, KindOf DEF TreeNodes
<1>4. KidsOf(f[p]) = Kids(f, p)
  BY <1>2, KidsAre DEF KidsOf, Kids
<1> QED BY <1>1, <1>2, <1>3, <1>4

LEMMA NodeKeysAre ==
  ASSUME NEW P, NEW n \in TreeNodes(P)
  PROVE  n.keys \in Seq(Key) /\ ToSet(n.keys) \subseteq Key
<1>1. n.keys \in Seq(Key)
  BY DEF TreeNodes, LeafNodes, InternalNodes
<1> QED BY <1>1, ElementOfSeq DEF ToSet

LEMMA KeysAre ==
  ASSUME NEW f, FileOK(f), NEW c, IsTree(f, c)
  PROVE  /\ KeysUnder(f, c) \subseteq Key /\ ToSet(f[c].keys) \subseteq KeysUnder(f, c)
         /\ KeysUnder(f, c) = NodeKeys(f, f[c])
<1>1. c \in TreePages(f, c)
  BY TreeBasics DEF IsTree
<1>2. \A p \in TreePages(f, c) : ToSet(f[p].keys) \subseteq Key
  BY TreePage, NodeKeysAre
<1>3. TreePages(f, c) = {c} \cup UNION {TreePages(f, k) : k \in KidsOf(f[c])}
  BY <1>1, TreePage, TreeSplits
<1>4. KeysUnder(f, c) = NodeKeys(f, f[c])
  <2>1. \A x : x \in KeysUnder(f, c) <=> \E p \in TreePages(f, c) : x \in ToSet(f[p].keys)
    BY DEF KeysUnder
  <2>2. \A x : x \in NodeKeys(f, f[c]) <=>
          \/ x \in ToSet(f[c].keys)
          \/ \E k \in KidsOf(f[c]) : \E p \in TreePages(f, k) : x \in ToSet(f[p].keys)
    BY DEF NodeKeys, KeysUnder
  <2>3. \A x : x \in KeysUnder(f, c) <=> x \in NodeKeys(f, f[c])
    BY <1>3, <2>1, <2>2
  <2> QED BY <2>3
<1> QED BY <1>1, <1>2, <1>4 DEF KeysUnder

LEMMA SearchSplits ==
  ASSUME NEW f, FileOK(f), NEW c, IsTree(f, c)
  PROVE  IsSearch(f, c) <=> Routes(f, f[c]) /\ \A k \in KidsOf(f[c]) : IsSearch(f, k)
<1>1. c \in TreePages(f, c)
  BY TreeBasics DEF IsTree
<1>2. TreePages(f, c) = {c} \cup UNION {TreePages(f, k) : k \in KidsOf(f[c])}
  BY <1>1, TreePage, TreeSplits
<1> QED BY <1>2 DEF IsSearch

LEMMA KeysKeep ==
  ASSUME NEW f, NEW g, FileOK(f), FileOK(g), NEW c, IsTree(f, c), Keeps(f, g, TreePages(f, c))
  PROVE  KeysUnder(g, c) = KeysUnder(f, c)
<1>1. TreePages(g, c) = TreePages(f, c) /\ \A p \in TreePages(f, c) : g[p] = f[p]
  BY TreeKeeps DEF Keeps
<1> QED BY <1>1 DEF KeysUnder

LEMMA RoutesKeep ==
  ASSUME NEW f, NEW g, NEW n, \A k \in KidsOf(n) : KeysUnder(g, k) = KeysUnder(f, k)
  PROVE  /\ Routes(g, n) <=> Routes(f, n)
         /\ NodeKeys(g, n) = NodeKeys(f, n)
BY DEF Routes, NodeKeys

LEMMA SearchKeep ==
  ASSUME NEW f, NEW g, FileOK(f), FileOK(g), NEW c, IsTree(f, c), Keeps(f, g, TreePages(f, c))
  PROVE  IsSearch(g, c) <=> IsSearch(f, c)
<1>1. TreePages(g, c) = TreePages(f, c) /\ \A p \in TreePages(f, c) : g[p] = f[p]
  BY TreeKeeps DEF Keeps
<1>2. ASSUME NEW p \in TreePages(f, c) PROVE Routes(g, f[p]) <=> Routes(f, f[p])
  <2>1. ASSUME NEW k \in KidsOf(f[p]) PROVE KeysUnder(g, k) = KeysUnder(f, k)
    <3>1. k \in Kids(f, p)
      BY TreePage
    <3>2. IsTree(f, k) /\ TreePages(f, k) \subseteq TreePages(f, c)
      BY <3>1, TreeBelow
    <3>3. Keeps(f, g, TreePages(f, k))
      BY <3>2 DEF Keeps
    <3> QED BY <3>2, <3>3, KeysKeep
  <2> QED BY <2>1, RoutesKeep
<1> QED BY <1>1, <1>2 DEF IsSearch

LEMMA LookupKeeps ==
  ASSUME NEW f, NEW g, FileOK(f), FileOK(g), NEW c, IsTree(f, c), Keeps(f, g, TreePages(f, c)),
         NEW k
  PROVE  Lookup(g, c, k) = Lookup(f, c, k)
<1> DEFINE S == {p \in TreePages(f, c) : Lookup(g, p, k) = Lookup(f, p, k)}
<1>1. ASSUME NEW p \in TreePages(f, c), Kids(f, p) \subseteq S
      PROVE  Lookup(g, p, k) = Lookup(f, p, k)
  <2>1. IsTree(f, p) /\ TreePages(f, p) \subseteq TreePages(f, c)
    BY TreeBelow
  <2>2. Keeps(f, g, TreePages(f, p)) /\ g[p] = f[p]
    BY <2>1 DEF Keeps
  <2>3. IsTree(g, p)
    BY <2>1, <2>2, TreeKeeps
  <2>4. Lookup(f, p, k) = Find(f, f[p], k) /\ Lookup(g, p, k) = Find(g, f[p], k)
    BY <2>1, <2>2, <2>3, LookupStep
  <2>5. CASE f[p].kind = "leaf"
    BY <2>4, <2>5 DEF Find
  <2>6. CASE f[p].kind = "internal"
    <3>1. ChildFor(f[p], k) \in Kids(f, p)
      BY <2>6, TreePage, KindOf, KidsAre, ChildForIs DEF Kids
    <3>2. Lookup(g, ChildFor(f[p], k), k) = Lookup(f, ChildFor(f[p], k), k)
      BY <1>1, <3>1
    <3> QED BY <2>4, <2>6, <3>2 DEF Find
  <2> QED BY <2>5, <2>6, TreePage
<1>2. TreePages(f, c) \subseteq S
  <2>1. \A p \in TreePages(f, c) : Kids(f, p) \subseteq S => p \in S
    BY <1>1
  <2> HIDE DEF S
  <2> QED BY <2>1, TreeInduction
<1>3. c \in TreePages(f, c)
  BY TreeBasics DEF IsTree
<1> QED BY <1>2, <1>3

-----------------------------------------------------------------------------
(* Leaves at one depth.                                                    *)

\* Each page in R is a leaf with height 0, or its children are below it.
Graded(f, R) ==
    \A p \in Ids(f), h \in Nat : <<p, h>> \in R =>
        \/ f[p].kind = "leaf" /\ h = 0
        \/ f[p].kind = "internal" /\ h # 0 /\ \A k \in KidsOf(f[p]) : <<k, h - 1>> \in R

\* All leaves below c are h links away.
IsTall(f, c, h) == \E R \in SUBSET (Ids(f) \X Nat) : Graded(f, R) /\ <<c, h>> \in R

TallNode(f, n, h) ==
    \/ n.kind = "leaf" /\ h = 0
    \/ n.kind = "internal" /\ h # 0 /\ \A k \in KidsOf(n) : IsTall(f, k, h - 1)

IsLevel(f, c) == \E h \in Nat : IsTall(f, c, h)

LEMMA TallSplits ==
  ASSUME NEW f, NEW c \in Ids(f), NEW h \in Nat
  PROVE  IsTall(f, c, h) <=> TallNode(f, f[c], h)
<1>1. ASSUME IsTall(f, c, h) PROVE TallNode(f, f[c], h)
  BY <1>1 DEF IsTall, Graded, TallNode
<1>2. ASSUME TallNode(f, f[c], h) PROVE IsTall(f, c, h)
  <2> DEFINE U == {x \in Ids(f) \X Nat : IsTall(f, x[1], x[2])}
             R == U \cup {<<c, h>>}
  <2>1. \A p \in Ids(f), d \in Nat : IsTall(f, p, d) <=> <<p, d>> \in U
    OBVIOUS
  <2>2. R \in SUBSET (Ids(f) \X Nat) /\ <<c, h>> \in R
    OBVIOUS
  <2>3. \A k, d : IsTall(f, k, d) => k \in Ids(f) /\ d \in Nat
    BY DEF IsTall
  <2>4. ASSUME NEW p \in Ids(f), NEW d \in Nat, TallNode(f, f[p], d)
        PROVE  \/ f[p].kind = "leaf" /\ d = 0
               \/ f[p].kind = "internal" /\ d # 0 /\ \A k \in KidsOf(f[p]) : <<k, d - 1>> \in R
    <3>1. CASE f[p].kind = "leaf" /\ d = 0
      BY <3>1
    <3>2. CASE f[p].kind = "internal" /\ d # 0 /\ \A k \in KidsOf(f[p]) : IsTall(f, k, d - 1)
      <4>1. \A k \in KidsOf(f[p]) : <<k, d - 1>> \in U
        <5> HIDE DEF U
        <5> QED BY <2>1, <2>3, <3>2
      <4> QED BY <3>2, <4>1
    <3> QED BY <2>4, <3>1, <3>2 DEF TallNode
  <2>5. ASSUME NEW p \in Ids(f), NEW d \in Nat, IsTall(f, p, d) PROVE TallNode(f, f[p], d)
    BY <2>5 DEF IsTall, Graded, TallNode
  <2>6. \A p \in Ids(f), d \in Nat : <<p, d>> \in R => IsTall(f, p, d) \/ (p = c /\ d = h)
    OBVIOUS
  <2> HIDE DEF R, U
  <2>7. \A p \in Ids(f), d \in Nat : <<p, d>> \in R => TallNode(f, f[p], d)
    BY <1>2, <2>5, <2>6
  <2>8. Graded(f, R)
    BY <2>4, <2>7 DEF Graded
  <2> QED BY <2>2, <2>8 DEF IsTall
<1> QED BY <1>1, <1>2

LEMMA TallKept ==
  ASSUME NEW f, NEW g, FileOK(f), FileOK(g), NEW c, IsTree(f, c), Keeps(f, g, TreePages(f, c)),
         NEW h, IsTall(f, c, h)
  PROVE  IsTall(g, c, h)
<1>1. PICK R \in SUBSET (Ids(f) \X Nat) : Graded(f, R) /\ <<c, h>> \in R
  BY DEF IsTall
<1> DEFINE A == TreePages(f, c)
           T == {x \in R : x[1] \in A}
<1>2. c \in A /\ \A p \in A : p \in Ids(f) /\ p \in Ids(g) /\ g[p] = f[p] /\ KidsOf(f[p]) \subseteq A
  <2>1. c \in A /\ \A p \in A : p \in Ids(f) /\ KidsOf(f[p]) = Kids(f, p) /\ Kids(f, p) \subseteq A
    BY TreePage, TreeBasics DEF IsTree
  <2>2. \A p \in A : p \in DOMAIN g /\ g[p] = f[p]
    BY DEF Keeps
  <2> QED BY <2>1, <2>2 DEF Ids
<1> HIDE DEF A
<1>3. \A p, d : <<p, d>> \in T <=> <<p, d>> \in R /\ p \in A
  OBVIOUS
<1>4. T \in SUBSET (Ids(g) \X Nat) /\ <<c, h>> \in T
  BY <1>1, <1>2
<1> HIDE DEF T
<1>5. ASSUME NEW p \in Ids(g), NEW d \in Nat, <<p, d>> \in T
      PROVE  \/ g[p].kind = "leaf" /\ d = 0
             \/ g[p].kind = "internal" /\ d # 0 /\ \A k \in KidsOf(g[p]) : <<k, d - 1>> \in T
  <2>1. p \in A /\ <<p, d>> \in R /\ p \in Ids(f) /\ g[p] = f[p] /\ KidsOf(f[p]) \subseteq A
    BY <1>2, <1>3, <1>5
  <2>2. \/ f[p].kind = "leaf" /\ d = 0
        \/ f[p].kind = "internal" /\ d # 0 /\ \A k \in KidsOf(f[p]) : <<k, d - 1>> \in R
    BY <1>1, <2>1 DEF Graded
  <2> QED BY <1>3, <2>1, <2>2
<1>6. Graded(g, T)
  BY <1>5 DEF Graded
<1> QED BY <1>4, <1>6 DEF IsTall

LEMMA TallKeeps ==
  ASSUME NEW f, NEW g, FileOK(f), FileOK(g), NEW c, IsTree(f, c), Keeps(f, g, TreePages(f, c))
  PROVE  /\ \A h : IsTall(g, c, h) <=> IsTall(f, c, h)
         /\ IsLevel(g, c) <=> IsLevel(f, c)
<1>1. IsTree(g, c) /\ TreePages(g, c) = TreePages(f, c)
  BY TreeKeeps
<1>2. Keeps(g, f, TreePages(g, c))
  <2>1. \A p \in TreePages(f, c) : p \in DOMAIN f
    BY TreePage
  <2> QED BY <1>1, <2>1 DEF Keeps
<1>3. \A h : IsTall(g, c, h) <=> IsTall(f, c, h)
  <2> SUFFICES ASSUME NEW h PROVE IsTall(g, c, h) <=> IsTall(f, c, h)
    OBVIOUS
  <2>1. IsTall(f, c, h) => IsTall(g, c, h)
    BY TallKept
  <2>2. IsTall(g, c, h) => IsTall(f, c, h)
    BY <1>1, <1>2, TallKept
  <2> QED BY <2>1, <2>2
<1> QED BY <1>3 DEF IsLevel

\* A file has more pages than a tree in it has levels.
LEMMA TallIsLow ==
  ASSUME NEW f, FileOK(f), NEW c, IsTree(f, c), NEW h \in Nat, IsTall(f, c, h)
  PROVE  h < FileSize(f)
<1> DEFINE Low(p) == \A d \in Nat : IsTall(f, p, d) => d < Cardinality(TreePages(f, p))
           S == {p \in TreePages(f, c) : Low(p)}
<1>1. ASSUME NEW p \in TreePages(f, c), Kids(f, p) \subseteq S PROVE Low(p)
  <2> SUFFICES ASSUME NEW d \in Nat, IsTall(f, p, d) PROVE d < Cardinality(TreePages(f, p))
    OBVIOUS
  <2>1. p \in Ids(f) /\ p \in DOMAIN f /\ KidsOf(f[p]) = Kids(f, p) /\ IsTree(f, p)
    BY TreePage
  <2>2. TallNode(f, f[p], d)
    BY <2>1, TallSplits
  <2>3. CASE f[p].kind = "leaf" /\ d = 0
    <3>1. p \in TreePages(f, p) /\ TreePages(f, p) \in SUBSET DOMAIN f
      BY <2>1, TreeBasics DEF Ids
    <3>2. IsFiniteSet(TreePages(f, p)) /\ TreePages(f, p) # {}
      BY <3>1, FileSizeIs, FS_Subset
    <3>3. Cardinality(TreePages(f, p)) \in Nat /\ Cardinality(TreePages(f, p)) # 0
      BY <3>2, FS_CardinalityType, FS_EmptySet
    <3> QED BY <2>3, <3>3
  <2>4. CASE f[p].kind = "internal" /\ d # 0 /\ \A k \in KidsOf(f[p]) : IsTall(f, k, d - 1)
    <3> DEFINE k == ChildFor(f[p], 0)
    <3>1. k \in Kids(f, p)
      BY <2>1, <2>4, KindOf, KidsAre, ChildForIs DEF Kids
    <3> HIDE DEF k
    <3>2. IsTall(f, k, d - 1) /\ d - 1 \in Nat
      BY <2>1, <2>4, <3>1
    <3>3. d - 1 < Cardinality(TreePages(f, k))
      BY <1>1, <3>1, <3>2
    <3>4. /\ Cardinality(TreePages(f, k)) < Cardinality(TreePages(f, p))
          /\ Cardinality(TreePages(f, k)) \in Nat \ {0} /\ Cardinality(TreePages(f, p)) \in Nat
      BY <3>1, FewerBelow
    <3> QED BY <3>3, <3>4
  <2> QED BY <2>2, <2>3, <2>4 DEF TallNode
<1> HIDE DEF Low
<1>2. TreePages(f, c) \subseteq S
  <2>1. \A p \in TreePages(f, c) : Kids(f, p) \subseteq S => p \in S
    BY <1>1
  <2> HIDE DEF S
  <2> QED BY <2>1, TreeInduction
<1>3. c \in TreePages(f, c) /\ TreePages(f, c) \in SUBSET DOMAIN f
  BY TreeBasics DEF IsTree, Ids
<1>4. h < Cardinality(TreePages(f, c))
  BY <1>2, <1>3 DEF Low
<1>5. /\ Cardinality(TreePages(f, c)) <= Cardinality(DOMAIN f) /\ Cardinality(TreePages(f, c)) \in Nat
      /\ Cardinality(DOMAIN f) \in Nat
  BY <1>3, FileSizeIs, FS_Subset, FS_CardinalityType
<1> QED BY <1>4, <1>5 DEF FileSize

-----------------------------------------------------------------------------
(* Sequences of ascending keys.                                            *)

\* A part of 1 .. n that has everything below each of its elements.
LEMMA DownSet ==
  ASSUME NEW n \in Nat, NEW S \in SUBSET (1 .. n),
         \A i \in S : \A j \in 1 .. n : j < i => j \in S
  PROVE  Cardinality(S) \in 0 .. n /\ S = 1 .. Cardinality(S)
<1> DEFINE T == {b \in 0 .. n : S \subseteq 1 .. b}
<1>1. T \in SUBSET Nat /\ n \in T
  OBVIOUS
<1>2. PICK b \in T : \A d \in T : b <= d
  <2> HIDE DEF T
  <2> QED BY <1>1, NatSetHasMin
<1>3. S = 1 .. b
  <2>1. CASE b = 0
    BY <1>2, <2>1
  <2>2. CASE b # 0
    <3>1. b - 1 \in 0 .. n /\ b - 1 < b
      BY <1>2, <2>2
    <3>2. ~(S \subseteq 1 .. (b - 1))
      BY <1>2, <3>1
    <3>3. PICK x \in S : x \notin 1 .. (b - 1)
      BY <3>2
    <3>4. x = b
      BY <1>2, <3>3
    <3>5. b \in Nat /\ b <= n /\ b \in S /\ S \subseteq 1 .. b
      BY <1>2, <3>3, <3>4
    <3>6. 1 .. b \subseteq S
      <4> SUFFICES ASSUME NEW j \in 1 .. b, j # b PROVE j \in S
        BY <3>5
      <4>1. j \in 1 .. n /\ j < b
        BY <3>5
      <4> QED BY <3>5, <4>1
    <3> QED BY <3>5, <3>6
  <2> QED BY <2>1, <2>2
<1>4. Cardinality(1 .. b) = b
  <2>1. Cardinality(1 .. b) = IF 1 > b THEN 0 ELSE b - 1 + 1
    BY <1>2, FS_Interval
  <2> QED BY <1>2, <2>1
<1> QED BY <1>2, <1>3, <1>4

IsCount(s, k, b) == b \in 0 .. Len(s) /\ \A i \in 1 .. Len(s) : s[i] <= k <=> i <= b

IsCountBelow(s, k, b) == b \in 0 .. Len(s) /\ \A i \in 1 .. Len(s) : s[i] < k <=> i <= b

LEMMA KeysAreNat ==
  ASSUME NEW s \in Seq(Key)
  PROVE  /\ Len(s) \in Nat /\ DOMAIN s = 1 .. Len(s)
         /\ \A i \in 1 .. Len(s) : s[i] \in Key /\ s[i] \in Nat
         /\ ToSet(s) = {s[i] : i \in 1 .. Len(s)}
<1>1. Len(s) \in Nat /\ DOMAIN s = 1 .. Len(s)
  OBVIOUS
<1>2. \A i \in 1 .. Len(s) : s[i] \in Key
  BY ElementOfSeq
<1> QED BY <1>1, <1>2, KeyAssumption DEF ToSet

\* The bisections count the keys from the left.
LEMMA BisectCounts ==
  ASSUME NEW s \in Seq(Key), Ascends(s), NEW k \in Nat
  PROVE  IsCount(s, k, BisectRight(s, k)) /\ IsCountBelow(s, k, BisectLeft(s, k))
<1> DEFINE m == Len(s)
           A == {i \in 1 .. m : s[i] <= k}
           B == {i \in 1 .. m : s[i] < k}
<1>1. m \in Nat /\ DOMAIN s = 1 .. m /\ \A i \in 1 .. m : s[i] \in Nat
  BY KeysAreNat
<1>2. \A i, j \in 1 .. m : i < j => s[i] < s[j]
  BY <1>1 DEF Ascends
<1>3. BisectRight(s, k) = Cardinality(A) /\ BisectLeft(s, k) = Cardinality(B)
  BY <1>1 DEF BisectRight, BisectLeft
<1> HIDE DEF m
<1>4. A \in SUBSET (1 .. m) /\ \A i \in A : \A j \in 1 .. m : j < i => j \in A
  <2> SUFFICES ASSUME NEW i \in A, NEW j \in 1 .. m, j < i PROVE s[j] <= k
    OBVIOUS
  <2>1. s[j] < s[i] /\ s[i] <= k /\ s[i] \in Nat /\ s[j] \in Nat
    BY <1>1, <1>2
  <2> QED BY <2>1
<1>5. B \in SUBSET (1 .. m) /\ \A i \in B : \A j \in 1 .. m : j < i => j \in B
  <2> SUFFICES ASSUME NEW i \in B, NEW j \in 1 .. m, j < i PROVE s[j] < k
    OBVIOUS
  <2>1. s[j] < s[i] /\ s[i] < k /\ s[i] \in Nat /\ s[j] \in Nat
    BY <1>1, <1>2
  <2> QED BY <2>1
<1>6. \A i \in 1 .. m : (s[i] <= k <=> i \in A) /\ (s[i] < k <=> i \in B)
  OBVIOUS
<1> HIDE DEF A, B
<1>7. Cardinality(A) \in 0 .. m /\ A = 1 .. Cardinality(A)
  BY <1>1, <1>4, DownSet
<1>8. Cardinality(B) \in 0 .. m /\ B = 1 .. Cardinality(B)
  BY <1>1, <1>5, DownSet
<1> DEFINE a == Cardinality(A)
           b == Cardinality(B)
<1>9. a \in 0 .. m /\ A = 1 .. a /\ b \in 0 .. m /\ B = 1 .. b
  BY <1>7, <1>8
<1> HIDE DEF a, b
<1>10. \A i \in 1 .. m : (s[i] <= k <=> i <= a) /\ (s[i] < k <=> i <= b)
  BY <1>6, <1>9
<1> QED BY <1>3, <1>9, <1>10 DEF IsCount, IsCountBelow, m, a, b

LEMMA BisectAt ==
  ASSUME NEW s \in Seq(Key), NEW k, NEW b
  PROVE  /\ IsCount(s, k, b) => BisectRight(s, k) = b
         /\ IsCountBelow(s, k, b) => BisectLeft(s, k) = b
<1>1. Len(s) \in Nat /\ DOMAIN s = 1 .. Len(s)
  OBVIOUS
<1>2. ASSUME b \in 0 .. Len(s) PROVE Cardinality(1 .. b) = b
  <2>1. Cardinality(1 .. b) = IF 1 > b THEN 0 ELSE b - 1 + 1
    BY <1>1, <1>2, FS_Interval
  <2> QED BY <1>1, <1>2, <2>1
<1>3. ASSUME IsCount(s, k, b) PROVE BisectRight(s, k) = b
  <2>1. b \in 0 .. Len(s) /\ \A i \in 1 .. Len(s) : s[i] <= k <=> i <= b
    BY <1>3 DEF IsCount
  <2>2. {i \in DOMAIN s : s[i] <= k} = {i \in DOMAIN s : i <= b}
    BY <1>1, <2>1
  <2>3. {i \in DOMAIN s : i <= b} = 1 .. b
    BY <1>1, <2>1
  <2> QED BY <1>2, <2>1, <2>2, <2>3 DEF BisectRight
<1>4. ASSUME IsCountBelow(s, k, b) PROVE BisectLeft(s, k) = b
  <2>1. b \in 0 .. Len(s) /\ \A i \in 1 .. Len(s) : s[i] < k <=> i <= b
    BY <1>4 DEF IsCountBelow
  <2>2. {i \in DOMAIN s : s[i] < k} = {i \in DOMAIN s : i <= b}
    BY <1>1, <2>1
  <2>3. {i \in DOMAIN s : i <= b} = 1 .. b
    BY <1>1, <2>1
  <2> QED BY <1>2, <2>1, <2>2, <2>3 DEF BisectLeft
<1> QED BY <1>3, <1>4

LEMMA AscendsOnce ==
  ASSUME NEW s \in Seq(Key), Ascends(s)
  PROVE  \A i, j \in 1 .. Len(s) : (s[i] = s[j] <=> i = j) /\ (s[i] < s[j] <=> i < j)
<1> SUFFICES ASSUME NEW i \in 1 .. Len(s), NEW j \in 1 .. Len(s)
             PROVE  (s[i] = s[j] <=> i = j) /\ (s[i] < s[j] <=> i < j)
  OBVIOUS
<1>1. /\ s[i] \in Nat /\ s[j] \in Nat /\ i \in DOMAIN s /\ j \in DOMAIN s /\ i \in Nat /\ j \in Nat
      /\ i < j => s[i] < s[j]
      /\ j < i => s[j] < s[i]
  BY KeysAreNat DEF Ascends
<1> DEFINE a == s[i]
           b == s[j]
<1>2. a \in Nat /\ b \in Nat /\ i \in Nat /\ j \in Nat /\ (i < j => a < b) /\ (j < i => b < a)
      /\ (i = j => a = b)
  BY <1>1
<1> HIDE DEF a, b
<1>3. (a = b <=> i = j) /\ (a < b <=> i < j)
  BY <1>2
<1> QED BY <1>3 DEF a, b

\* t is s with e in position i.
Inserted(s, i, e, t) ==
    \A j \in 1 .. Len(s) + 1 : t[j] = IF j < i THEN s[j] ELSE IF j = i THEN e ELSE s[j - 1]

LEMMA InsertedIs ==
  ASSUME NEW S, NEW s \in Seq(S), NEW i \in 1 .. Len(s) + 1, NEW e \in S
  PROVE  Inserted(s, i, e, InsertAt(s, i, e))
BY InsertIs DEF Inserted

LEMMA InsertLength ==
  ASSUME NEW S, NEW s \in Seq(S), NEW i \in 1 .. Len(s) + 1, NEW e \in S
  PROVE  InsertAt(s, i, e) \in Seq(S) /\ Len(InsertAt(s, i, e)) = Len(s) + 1
BY InsertIs

\* A key comes between the smaller ones and the larger ones.
LEMMA InsertAscends ==
  ASSUME NEW s \in Seq(Key), Ascends(s), NEW b \in 0 .. Len(s), NEW e \in Key,
         \A i \in 1 .. Len(s) : (i <= b => s[i] < e) /\ (b < i => e < s[i]),
         NEW t, t = InsertAt(s, b + 1, e)
  PROVE  /\ Ascends(t) /\ ToSet(t) = ToSet(s) \cup {e}
         /\ \A k \in Nat : BisectRight(t, k) = IF k < e THEN BisectRight(s, k) ELSE BisectRight(s, k) + 1
<1> DEFINE m == Len(s)
<1>1. /\ m \in Nat /\ DOMAIN s = 1 .. m /\ \A i \in 1 .. m : s[i] \in Nat
      /\ e \in Nat /\ b \in 0 .. m /\ ToSet(s) = {s[i] : i \in 1 .. m}
  BY KeysAreNat, KeyAssumption
<1>2. b + 1 \in 1 .. m + 1
  BY <1>1
<1>3. /\ t \in Seq(Key) /\ Len(t) = m + 1
      /\ \A i \in 1 .. m + 1 : t[i] = IF i < b + 1 THEN s[i] ELSE IF i = b + 1 THEN e ELSE s[i - 1]
  BY <1>2, InsertIs
<1>4. DOMAIN t = 1 .. m + 1 /\ ToSet(t) = {t[i] : i \in 1 .. m + 1}
  BY <1>1, <1>3, KeysAreNat
<1>5. \A i, j \in 1 .. m : i < j => s[i] < s[j]
  BY <1>1 DEF Ascends
<1>6. \A i \in 1 .. m : (i <= b => s[i] < e) /\ (b < i => e < s[i])
  OBVIOUS
<1>7. \A k \in Nat : IsCount(s, k, BisectRight(s, k))
  BY BisectCounts
<1> HIDE DEF m
<1>8. Ascends(t)
  <2> SUFFICES ASSUME NEW i \in 1 .. m + 1, NEW j \in 1 .. m + 1, i < j PROVE t[i] < t[j]
    BY <1>4 DEF Ascends
  <2>1. CASE j < b + 1
    <3>1. i < b + 1 /\ i \in 1 .. m /\ j \in 1 .. m
      BY <1>1, <2>1
    <3> QED BY <1>3, <1>5, <2>1, <3>1
  <2>2. CASE j = b + 1
    <3>1. i < b + 1 /\ i \in 1 .. m /\ i <= b
      BY <1>1, <2>2
    <3> QED BY <1>3, <1>6, <2>2, <3>1
  <2>3. CASE j > b + 1
    <3>1. t[j] = s[j - 1] /\ j - 1 \in 1 .. m /\ b < j - 1 /\ s[j - 1] \in Nat
      BY <1>1, <1>3, <2>3
    <3>2. CASE i < b + 1
      <4>1. i \in 1 .. m /\ i <= b /\ t[i] = s[i]
        BY <1>1, <1>3, <3>2
      <4>2. s[i] < e /\ e < s[j - 1] /\ s[i] \in Nat
        BY <1>1, <1>6, <3>1, <4>1
      <4> QED BY <1>1, <3>1, <4>1, <4>2
    <3>3. CASE i = b + 1
      BY <1>3, <1>6, <3>1, <3>3
    <3>4. CASE i > b + 1
      <4>1. ~(i < b + 1) /\ i # b + 1 /\ i - 1 \in 1 .. m /\ i - 1 < j - 1
        BY <1>1, <3>4
      <4>2. t[i] = s[i - 1]
        BY <1>3, <4>1
      <4> QED BY <1>5, <3>1, <4>1, <4>2
    <3> QED BY <1>1, <3>2, <3>3, <3>4
  <2> QED BY <1>1, <2>1, <2>2, <2>3
<1>9. ToSet(t) = ToSet(s) \cup {e}
  <2>1. \A i \in 1 .. m + 1 : t[i] = e \/ \E j \in 1 .. m : t[i] = s[j]
    <3> SUFFICES ASSUME NEW i \in 1 .. m + 1 PROVE t[i] = e \/ \E j \in 1 .. m : t[i] = s[j]
      OBVIOUS
    <3>1. CASE i < b + 1
      BY <1>1, <1>3, <3>1
    <3>2. CASE i = b + 1
      BY <1>1, <1>3, <3>2
    <3>3. CASE i > b + 1
      <4>1. t[i] = s[i - 1] /\ i - 1 \in 1 .. m
        BY <1>1, <1>3, <3>3
      <4> QED BY <4>1
    <3> QED BY <1>1, <3>1, <3>2, <3>3
  <2>2. \A j \in 1 .. m : \E i \in 1 .. m + 1 : t[i] = s[j]
    <3> SUFFICES ASSUME NEW j \in 1 .. m PROVE \E i \in 1 .. m + 1 : t[i] = s[j]
      OBVIOUS
    <3>1. CASE j < b + 1
      <4>1. j \in 1 .. m + 1 /\ t[j] = s[j]
        BY <1>1, <1>3, <3>1
      <4> QED BY <4>1
    <3>2. CASE j >= b + 1
      <4>1. j + 1 \in 1 .. m + 1 /\ ~(j + 1 < b + 1) /\ j + 1 # b + 1 /\ (j + 1) - 1 = j
        BY <1>1, <3>2
      <4>2. t[j + 1] = s[(j + 1) - 1]
        BY <1>3, <4>1
      <4> QED BY <4>1, <4>2
    <3> QED BY <1>1, <3>1, <3>2
  <2>3. b + 1 \in 1 .. m + 1 /\ t[b + 1] = e
    <3>1. b + 1 \in 1 .. m + 1 /\ ~(b + 1 < b + 1)
      BY <1>1
    <3> QED BY <1>3, <3>1
  <2> QED BY <1>1, <1>4, <2>1, <2>2, <2>3
<1>10. ASSUME NEW k \in Nat
       PROVE  BisectRight(t, k) = IF k < e THEN BisectRight(s, k) ELSE BisectRight(s, k) + 1
  <2> DEFINE c == BisectRight(s, k)
             d == IF k < e THEN c ELSE c + 1
  <2>1. c \in 0 .. m /\ \A i \in 1 .. m : s[i] <= k <=> i <= c
    BY <1>7 DEF IsCount, m
  <2> HIDE DEF c
  <2>2. d \in 0 .. m + 1
    BY <1>1, <2>1
  <2>3. k < e => c <= b
    <3> SUFFICES ASSUME k < e, b < c PROVE FALSE
      BY <1>1, <2>1
    <3>1. b + 1 \in 1 .. m /\ b < b + 1 /\ b + 1 <= c
      BY <1>1, <2>1
    <3>2. e < s[b + 1] /\ s[b + 1] <= k /\ s[b + 1] \in Nat
      BY <1>1, <1>6, <2>1, <3>1
    <3> QED BY <1>1, <3>2
  <2>4. ~(k < e) => b <= c
    <3> SUFFICES ASSUME ~(k < e), c < b PROVE FALSE
      BY <1>1, <2>1
    <3>1. b \in 1 .. m /\ ~(b <= c)
      BY <1>1, <2>1
    <3>2. s[b] < e /\ ~(s[b] <= k) /\ s[b] \in Nat
      BY <1>1, <1>6, <2>1, <3>1
    <3> QED BY <1>1, <3>2
  <2>5. \A i \in 1 .. m + 1 : t[i] <= k <=> i <= d
    <3> SUFFICES ASSUME NEW i \in 1 .. m + 1 PROVE t[i] <= k <=> i <= d
      OBVIOUS
    <3>1. CASE i < b + 1
      <4>1. i \in 1 .. m /\ t[i] = s[i]
        BY <1>1, <1>3, <3>1
      <4> QED BY <1>1, <2>1, <2>3, <2>4, <3>1, <4>1
    <3>2. CASE i = b + 1
      BY <1>1, <1>3, <2>1, <2>3, <2>4, <3>2
    <3>3. CASE i > b + 1
      <4>1. i - 1 \in 1 .. m /\ t[i] = s[i - 1] /\ (s[i - 1] <= k <=> i - 1 <= c)
        BY <1>1, <1>3, <2>1, <3>3
      <4> QED BY <1>1, <2>1, <2>3, <2>4, <3>3, <4>1
    <3> QED BY <1>1, <3>1, <3>2, <3>3
  <2> HIDE DEF d
  <2>6. IsCount(t, k, d)
    BY <1>3, <2>2, <2>5 DEF IsCount
  <2>7. BisectRight(t, k) = d
    BY <1>3, <2>6, BisectAt
  <2> QED BY <2>7 DEF c, d
<1> QED BY <1>3, <1>8, <1>9, <1>10 DEF m

-----------------------------------------------------------------------------
(* What a leaf holds.                                                      *)

LEMMA ValueAt ==
  ASSUME NEW n \in LeafNodes, Ascends(n.keys)
  PROVE  /\ \A i \in 1 .. Len(n.keys) : ValueIn(n, n.keys[i]) = n.values[i]
         /\ \A k : k \notin ToSet(n.keys) => ValueIn(n, k) = None
<1> DEFINE s == n.keys
<1>1. s \in Seq(Key) /\ Ascends(s)
  BY DEF LeafNodes
<1> SUFFICES /\ \A i \in 1 .. Len(s) : ValueIn(n, s[i]) = n.values[i]
             /\ \A k : k \notin ToSet(s) => ValueIn(n, k) = None
  OBVIOUS
<1>2. \A k : ValueIn(n, k) = IF \E i \in DOMAIN s : s[i] = k THEN n.values[BisectLeft(s, k) + 1] ELSE None
  BY DEF ValueIn
<1> HIDE DEF s
<1>3. Len(s) \in Nat /\ DOMAIN s = 1 .. Len(s) /\ ToSet(s) = {s[i] : i \in 1 .. Len(s)}
  BY <1>1, KeysAreNat
<1>4. ASSUME NEW i \in 1 .. Len(s) PROVE ValueIn(n, s[i]) = n.values[i]
  <2>1. \A j \in 1 .. Len(s) : s[j] < s[i] <=> j <= i - 1
    <3> TAKE j \in 1 .. Len(s)
    <3>1. s[j] < s[i] <=> j < i
      BY <1>1, AscendsOnce
    <3> QED BY <1>3, <3>1
  <2>2. i - 1 \in 0 .. Len(s) /\ (i - 1) + 1 = i
    BY <1>3
  <2> DEFINE b == i - 1
             k == s[i]
  <2>3. IsCountBelow(s, k, b)
    BY <2>1, <2>2 DEF IsCountBelow
  <2> HIDE DEF b, k
  <2>4. BisectLeft(s, k) = b
    BY <1>1, <2>3, BisectAt
  <2> QED BY <1>2, <1>3, <2>2, <2>4 DEF b, k
<1>5. \A k : k \notin ToSet(s) => ValueIn(n, k) = None
  BY <1>2, <1>3
<1> QED BY <1>4, <1>5

\* A put changes the value of its key in the leaf, and of no other.
LEMMA UpsertSearch ==
  ASSUME NEW n \in LeafNodes, Ascends(n.keys), NEW k \in Key, NEW v \in Value,
         NEW new, new = UpsertLeaf(n, k, v)
  PROVE  /\ Ascends(new.keys) /\ ToSet(new.keys) = ToSet(n.keys) \cup {k}
         /\ \A j \in Key : ValueIn(new, j) = IF j = k THEN v ELSE ValueIn(n, j)
<1> DEFINE s == n.keys
           b == BisectLeft(s, k)
           m == Len(s)
<1>1. /\ s \in Seq(Key) /\ Ascends(s) /\ n.values \in Seq(Value) /\ Len(n.values) = m
      /\ m \in Nat /\ DOMAIN s = 1 .. m /\ ToSet(s) = {s[i] : i \in 1 .. m} /\ k \in Nat
      /\ \A i \in 1 .. m : s[i] \in Nat
  <2>1. s \in Seq(Key) /\ Ascends(s) /\ n.values \in Seq(Value) /\ Len(n.values) = Len(s)
    BY DEF LeafNodes
  <2> HIDE DEF s
  <2> QED BY <2>1, KeysAreNat, KeyAssumption
<1>2. new \in LeafNodes
  BY UpsertIs
<1>3. b \in 0 .. m /\ \A i \in 1 .. m : s[i] < k <=> i <= b
  <2> HIDE DEF s
  <2> QED BY <1>1, BisectCounts DEF IsCountBelow
<1>4. /\ \A i \in 1 .. m : ValueIn(n, s[i]) = n.values[i]
      /\ \A j : j \notin ToSet(s) => ValueIn(n, j) = None
  BY ValueAt
<1>5. CASE k \in ToSet(s)
  <2>1. PICK x \in 1 .. m : s[x] = k
    BY <1>1, <1>5
  <2>2. b + 1 = x
    <3> DEFINE y == b + 1
    <3>1. ~(x <= b)
      BY <1>3, <2>1, <1>1
    <3>2. y \in 1 .. m /\ y = b + 1 /\ ~(y <= b) /\ y <= x
      BY <1>1, <1>3, <3>1
    <3> HIDE DEF y, b, s
    <3>3. ~(s[y] < k) /\ s[y] \in Nat
      BY <1>1, <1>3, <3>2
    <3>4. ~(y < x)
      BY <1>1, <2>1, <3>2, <3>3, AscendsOnce
    <3> QED BY <1>1, <3>2, <3>4
  <2>3. new = Leaf(s, ReplaceAt(n.values, x, v))
    BY <1>5, <2>2 DEF UpsertLeaf
  <2>4. new.keys = s /\ \A i \in 1 .. m : new.values[i] = IF i = x THEN v ELSE n.values[i]
    <3> DEFINE w == n.values
    <3>1. w \in Seq(Value) /\ Len(w) = m
      BY <1>1
    <3> HIDE DEF w, m
    <3>2. \A i \in 1 .. Len(w) : ReplaceAt(w, x, v)[i] = IF i = x THEN v ELSE w[i]
      BY <3>1, ReplaceIs
    <3>3. new.keys = s /\ new.values = ReplaceAt(w, x, v)
      BY <2>3 DEF Leaf, w
    <3> QED BY <3>1, <3>2, <3>3 DEF w
  <2>5. /\ \A i \in 1 .. m : ValueIn(new, s[i]) = new.values[i]
        /\ \A j : j \notin ToSet(s) => ValueIn(new, j) = None
    BY <1>1, <1>2, <2>4, ValueAt
  <2>6. \A j \in Key : ValueIn(new, j) = IF j = k THEN v ELSE ValueIn(n, j)
    <3> HIDE DEF s, m
    <3> SUFFICES ASSUME NEW j \in Key PROVE ValueIn(new, j) = IF j = k THEN v ELSE ValueIn(n, j)
      OBVIOUS
    <3>1. CASE j \in ToSet(s)
      <4>1. PICK i \in 1 .. m : s[i] = j
        BY <1>1, <3>1
      <4>2. i = x <=> j = k
        BY <1>1, <2>1, <4>1, AscendsOnce DEF m
      <4> QED BY <1>4, <2>4, <2>5, <4>1, <4>2
    <3>2. CASE j \notin ToSet(s)
      BY <1>4, <1>5, <2>5, <3>2
    <3> QED BY <3>1, <3>2
  <2> QED BY <1>1, <1>5, <2>4, <2>6
<1>6. CASE k \notin ToSet(s)
  <2>1. new = Leaf(InsertAt(s, b + 1, k), InsertAt(n.values, b + 1, v))
    BY <1>6 DEF UpsertLeaf
  <2> DEFINE t == InsertAt(s, b + 1, k)
             u == InsertAt(n.values, b + 1, v)
  <2>2. new.keys = t /\ new.values = u
    BY <2>1 DEF Leaf
  <2>3. \A i \in 1 .. m : (i <= b => s[i] < k) /\ (b < i => k < s[i])
    <3> SUFFICES ASSUME NEW i \in 1 .. m PROVE (i <= b => s[i] < k) /\ (b < i => k < s[i])
      OBVIOUS
    <3>1. s[i] # k /\ s[i] \in Nat /\ (s[i] < k <=> i <= b)
      BY <1>1, <1>3, <1>6
    <3> HIDE DEF s, b, m
    <3> QED BY <1>1, <1>3, <3>1
  <2>4. /\ t \in Seq(Key) /\ Len(t) = m + 1 /\ Ascends(t) /\ ToSet(t) = ToSet(s) \cup {k}
        /\ \A i \in 1 .. m + 1 : t[i] = IF i < b + 1 THEN s[i] ELSE IF i = b + 1 THEN k ELSE s[i - 1]
    <3> HIDE DEF s, b, t, m
    <3>1. b \in 0 .. Len(s) /\ \A i \in 1 .. Len(s) : (i <= b => s[i] < k) /\ (b < i => k < s[i])
      BY <1>3, <2>3 DEF m
    <3>2. Ascends(t) /\ ToSet(t) = ToSet(s) \cup {k}
      BY <1>1, <3>1, InsertAscends DEF t
    <3> DEFINE q == b + 1
    <3>3. q \in 1 .. Len(s) + 1
      BY <1>1, <3>1
    <3> HIDE DEF q
    <3>4. InsertAt(s, q, k) \in Seq(Key) /\ Len(InsertAt(s, q, k)) = Len(s) + 1
      <4> HIDE DEF b
      <4> QED BY <1>1, <3>3, InsertLength
    <3>5. Inserted(s, q, k, InsertAt(s, q, k))
      BY <1>1, <3>3, InsertedIs
    <3> QED BY <3>2, <3>4, <3>5 DEF m, q, t, Inserted
  <2>5. /\ \A i \in 1 .. m + 1 : u[i] = IF i < b + 1 THEN n.values[i] ELSE IF i = b + 1 THEN v ELSE n.values[i - 1]
    <3> DEFINE q == b + 1
               w == n.values
    <3>1. q \in 1 .. Len(w) + 1 /\ w \in Seq(Value) /\ Len(w) = m
      BY <1>1, <1>3
    <3> HIDE DEF q, w
    <3>2. Inserted(w, q, v, InsertAt(w, q, v))
      BY <3>1, InsertedIs
    <3> QED BY <3>1, <3>2 DEF q, w, Inserted
  <2>6. /\ \A i \in 1 .. m + 1 : ValueIn(new, t[i]) = u[i]
        /\ \A j : j \notin ToSet(t) => ValueIn(new, j) = None
    <3>1. Ascends(new.keys) /\ Len(new.keys) = m + 1
      BY <2>2, <2>4
    <3> HIDE DEF t, u, m
    <3> QED BY <1>2, <2>2, <3>1, ValueAt
  <2> HIDE DEF t, u, s, b, m
  <2>7. \A j \in Key : ValueIn(new, j) = IF j = k THEN v ELSE ValueIn(n, j)
    <3> SUFFICES ASSUME NEW j \in Key PROVE ValueIn(new, j) = IF j = k THEN v ELSE ValueIn(n, j)
      OBVIOUS
    <3>1. CASE j = k
      <4>1. b + 1 \in 1 .. m + 1 /\ ~(b + 1 < b + 1)
        BY <1>1, <1>3
      <4>2. t[b + 1] = k /\ u[b + 1] = v
        BY <2>4, <2>5, <4>1
      <4> QED BY <2>6, <3>1, <4>1, <4>2
    <3>2. CASE j # k /\ j \in ToSet(s)
      <4>1. PICK i \in 1 .. m : s[i] = j
        BY <1>1, <3>2
      <4>2. CASE i < b + 1
        <5>1. i \in 1 .. m + 1 /\ t[i] = s[i] /\ u[i] = n.values[i]
          BY <1>1, <2>4, <2>5, <4>2
        <5> QED BY <1>4, <2>6, <3>2, <4>1, <5>1
      <4>3. CASE ~(i < b + 1)
        <5> DEFINE y == i + 1
        <5>1. y \in 1 .. m + 1 /\ ~(y < b + 1) /\ y # b + 1 /\ y - 1 = i
          BY <1>1, <1>3, <4>3
        <5> HIDE DEF y
        <5>2. t[y] = s[i] /\ u[y] = n.values[i]
          BY <2>4, <2>5, <5>1
        <5> QED BY <1>4, <2>6, <3>2, <4>1, <5>1, <5>2
      <4> QED BY <4>2, <4>3
    <3>3. CASE j # k /\ j \notin ToSet(s)
      BY <1>4, <2>4, <2>6, <3>3
    <3> QED BY <3>1, <3>2, <3>3
  <2> QED BY <2>2, <2>4, <2>7 DEF s
<1> QED BY <1>5, <1>6

-----------------------------------------------------------------------------
(* Where an internal node leads to.                                        *)

LEMMA ChildAt ==
  ASSUME NEW P, NEW n \in InternalNodes(P), Ascends(n.keys)
  PROVE  \A i, j \in Key : ChildFor(n, i) = ChildFor(n, j) <=> BisectRight(n.keys, i) = BisectRight(n.keys, j)
<1> SUFFICES ASSUME NEW i \in Key, NEW j \in Key
             PROVE  ChildFor(n, i) = ChildFor(n, j) <=> BisectRight(n.keys, i) = BisectRight(n.keys, j)
  OBVIOUS
<1> DEFINE c == n.children
           a == BisectRight(n.keys, i)
           b == BisectRight(n.keys, j)
<1>1. a + 1 \in DOMAIN c /\ b + 1 \in DOMAIN c /\ Distinct(c) /\ a \in Nat /\ b \in Nat
  <2>1. n.keys \in Seq(Key) /\ Distinct(c)
    BY DEF InternalNodes
  <2>2. a \in Nat /\ b \in Nat
    BY <2>1, BisectIs
  <2> QED BY <2>1, <2>2, ChildForIs
<1>2. ChildFor(n, i) = c[a + 1] /\ ChildFor(n, j) = c[b + 1]
  BY DEF ChildFor
<1> HIDE DEF a, b, c
<1>3. c[a + 1] = c[b + 1] <=> a = b
  BY <1>1 DEF Distinct
<1> QED BY <1>2, <1>3 DEF a, b

\* A key that led to the child that was copied leads to its copies, and each
\* other key where it led before.
LEMMA AdoptSearch ==
  ASSUME NEW P, NEW n \in InternalNodes(P), Ascends(n.keys), NEW k \in Key, NEW c,
         c.id \in P, c.key \in Key \cup {None}, c.key # None => c.right \in P,
         c.key # None => /\ ChildFor(n, c.key) = ChildFor(n, k)
                         /\ \E t \in Key : t < c.key /\ ChildFor(n, t) = ChildFor(n, k),
         NEW new, new = AdoptChild(n, k, c)
  PROVE  /\ Ascends(new.keys)
         /\ ToSet(new.keys) = ToSet(n.keys) \cup (IF c.key = None THEN {} ELSE {c.key})
         /\ \A j \in Key : ChildFor(new, j) =
               IF ChildFor(n, j) # ChildFor(n, k) THEN ChildFor(n, j)
               ELSE IF c.key = None \/ j < c.key THEN c.id ELSE c.right
<1> DEFINE s == n.keys
           b == BisectRight(s, k)
           m == Len(s)
           old == n.children
           d == ReplaceAt(old, b + 1, c.id)
<1>1. /\ s \in Seq(Key) /\ Ascends(s) /\ old \in Seq(P) /\ Len(old) = m + 1
      /\ m \in Nat /\ DOMAIN s = 1 .. m /\ \A i \in 1 .. m : s[i] \in Nat
  <2>1. s \in Seq(Key) /\ Ascends(s) /\ old \in Seq(P) /\ Len(old) = Len(s) + 1
    BY DEF InternalNodes
  <2> HIDE DEF s
  <2> QED BY <2>1, KeysAreNat
<1>2. Key \subseteq Nat /\ None \notin Key
  BY KeyAssumption
<1>3. \A j \in Key : IsCount(s, j, BisectRight(s, j))
  <2> HIDE DEF s
  <2> QED BY <1>1, <1>2, BisectCounts
<1>4. d \in Seq(P) /\ Len(d) = m + 1 /\ \A i \in 1 .. m + 1 : d[i] = IF i = b + 1 THEN c.id ELSE old[i]
  BY <1>1, ReplaceIs
<1>5. \A j \in Key : ChildFor(n, j) = old[BisectRight(s, j) + 1]
  BY DEF ChildFor
<1>6. \A j \in Key : ChildFor(n, j) = ChildFor(n, k) <=> BisectRight(s, j) = b
  BY ChildAt
<1>7. \A j \in Key : BisectRight(s, j) \in 0 .. m
  BY <1>3 DEF IsCount
<1>8. CASE c.key = None
  <2>1. new.keys = s /\ new.children = d
    BY <1>8 DEF AdoptChild, Internal
  <2>2. \A j \in Key : ChildFor(new, j) = d[BisectRight(s, j) + 1]
    BY <2>1 DEF ChildFor
  <2> HIDE DEF s, b, m, d, old
  <2>3. \A j \in Key : ChildFor(new, j) = IF ChildFor(n, j) # ChildFor(n, k) THEN ChildFor(n, j) ELSE c.id
    <3> SUFFICES ASSUME NEW j \in Key
                 PROVE  ChildFor(new, j) = IF ChildFor(n, j) # ChildFor(n, k) THEN ChildFor(n, j) ELSE c.id
      OBVIOUS
    <3> DEFINE e == BisectRight(s, j)
               q == e + 1
    <3>1. e \in 0 .. m /\ b \in 0 .. m
      BY <1>7 DEF b
    <3>2. q \in 1 .. m + 1 /\ (q = b + 1 <=> e = b)
      BY <1>1, <3>1
    <3>3. d[q] = IF q = b + 1 THEN c.id ELSE old[q]
      <4> HIDE DEF q
      <4> QED BY <1>4, <3>2
    <3>4. ChildFor(new, j) = d[q] /\ ChildFor(n, j) = old[q] /\ (ChildFor(n, j) = ChildFor(n, k) <=> e = b)
      BY <1>5, <1>6, <2>2
    <3> QED BY <3>2, <3>3, <3>4
  <2> QED BY <1>1, <1>8, <2>1, <2>3 DEF s
<1>9. CASE c.key # None
  <2> DEFINE e == c.key
             t == InsertAt(s, b + 1, e)
             f == InsertAt(d, b + 1 + 1, c.right)
  <2>1. new.keys = t /\ new.children = f
    BY <1>9 DEF AdoptChild, Internal
  <2>2. e \in Key /\ e \in Nat /\ c.right \in P /\ BisectRight(s, e) = b
    BY <1>2, <1>6, <1>9
  <2>3. PICK l \in Key : l < e /\ BisectRight(s, l) = b
    BY <1>6, <1>9
  <2>4. b \in 0 .. m /\ l \in Nat
    BY <1>2, <1>7
  <2>5. \A i \in 1 .. m : (s[i] <= e <=> i <= b) /\ (s[i] <= l <=> i <= b)
    BY <1>3, <2>2, <2>3 DEF IsCount
  <2> HIDE DEF s, b, m, d, old, e, f
  <2>6. \A i \in 1 .. m : (i <= b => s[i] < e) /\ (b < i => e < s[i])
    <3> SUFFICES ASSUME NEW i \in 1 .. m PROVE (i <= b => s[i] < e) /\ (b < i => e < s[i])
      OBVIOUS
    <3>1. s[i] \in Nat /\ (s[i] <= e <=> i <= b) /\ (s[i] <= l <=> i <= b)
      BY <1>1, <2>5
    <3> DEFINE x == s[i]
    <3>2. x \in Nat /\ (x <= e <=> i <= b) /\ (x <= l <=> i <= b) /\ i \in Nat
      BY <3>1
    <3> HIDE DEF x
    <3>3. (i <= b => x < e) /\ (b < i => e < x)
      BY <2>2, <2>3, <2>4, <3>2
    <3> QED BY <3>3 DEF x
  <2>7. /\ Ascends(t) /\ ToSet(t) = ToSet(s) \cup {e}
        /\ \A j \in Nat : BisectRight(t, j) = IF j < e THEN BisectRight(s, j) ELSE BisectRight(s, j) + 1
    <3>1. b \in 0 .. Len(s) /\ \A i \in 1 .. Len(s) : (i <= b => s[i] < e) /\ (b < i => e < s[i])
      BY <2>4, <2>6 DEF m
    <3> HIDE DEF t
    <3> QED BY <1>1, <2>2, <3>1, InsertAscends DEF t
  <2>8. \A i \in 1 .. m + 2 : f[i] = IF i < b + 2 THEN d[i] ELSE IF i = b + 2 THEN c.right ELSE d[i - 1]
    <3> DEFINE q == b + 1 + 1
               x == c.right
    <3>1. q \in 1 .. Len(d) + 1 /\ q = b + 2 /\ Len(d) + 1 = m + 2 /\ x \in P /\ d \in Seq(P)
      BY <1>1, <1>4, <2>2, <2>4
    <3> HIDE DEF q, x
    <3>2. Inserted(d, q, x, InsertAt(d, q, x))
      BY <3>1, InsertedIs
    <3>3. f = InsertAt(d, q, x)
      BY DEF f, q, x
    <3> QED BY <3>1, <3>2, <3>3 DEF x, Inserted
  <2>9. \A j \in Key : ChildFor(new, j) = f[BisectRight(t, j) + 1]
    BY <2>1 DEF ChildFor
  <2> HIDE DEF t, f
  <2>10. ASSUME NEW j \in Key
         PROVE  ChildFor(new, j) = IF ChildFor(n, j) # ChildFor(n, k) THEN ChildFor(n, j)
                                   ELSE IF j < e THEN c.id ELSE c.right
    <3> DEFINE a == BisectRight(s, j)
    <3>1. a \in 0 .. m /\ j \in Nat /\ \A i \in 1 .. m : s[i] <= j <=> i <= a
      BY <1>2, <1>3 DEF IsCount, m
    <3>2. ChildFor(n, j) = old[a + 1] /\ (ChildFor(n, j) = ChildFor(n, k) <=> a = b)
      BY <1>5, <1>6
    <3>3. BisectRight(t, j) = IF j < e THEN a ELSE a + 1
      BY <2>7, <3>1
    <3> HIDE DEF a
    <3>4. j < e => a <= b
      <4> SUFFICES ASSUME j < e, b < a PROVE FALSE
        BY <2>4, <3>1
      <4> DEFINE x == b + 1
      <4>1. x \in 1 .. m /\ b < x /\ x <= a
        BY <2>4, <3>1, <1>1
      <4> HIDE DEF x
      <4>2. e < s[x] /\ s[x] <= j /\ s[x] \in Nat
        BY <1>1, <2>6, <3>1, <4>1
      <4> QED BY <2>2, <3>1, <4>2
    <3>5. ~(j < e) => b <= a
      <4> SUFFICES ASSUME ~(j < e), a < b PROVE FALSE
        BY <2>4, <3>1
      <4>1. b \in 1 .. m /\ ~(b <= a)
        BY <2>4, <3>1, <1>1
      <4>2. s[b] < e /\ ~(s[b] <= j) /\ s[b] \in Nat
        BY <1>1, <2>6, <3>1, <4>1
      <4> QED BY <2>2, <3>1, <4>2
    <3> DEFINE r == BisectRight(t, j)
               q == r + 1
    <3>6. CASE j < e
      <4>1. q = a + 1 /\ q \in 1 .. m + 2 /\ q \in 1 .. m + 1 /\ q < b + 2 /\ (q = b + 1 <=> a = b)
        BY <1>1, <2>4, <3>1, <3>3, <3>4, <3>6
      <4> HIDE DEF q
      <4>2. f[q] = d[q] /\ d[q] = IF q = b + 1 THEN c.id ELSE old[q]
        BY <1>4, <2>8, <4>1
      <4>3. ChildFor(new, j) = f[q]
        BY <2>9 DEF q
      <4> QED BY <3>2, <3>6, <4>1, <4>2, <4>3
    <3>7. CASE ~(j < e)
      <4>1. q = a + 2 /\ q \in 1 .. m + 2 /\ ~(q < b + 2) /\ (q = b + 2 <=> a = b)
        BY <1>1, <2>4, <3>1, <3>3, <3>5, <3>7
      <4> HIDE DEF q
      <4> DEFINE y == q - 1
      <4>2. y = a + 1 /\ y \in 1 .. m + 1 /\ (y = b + 1 <=> a = b)
        BY <1>1, <2>4, <3>1, <4>1
      <4>3. y = q - 1
        BY DEF y
      <4> HIDE DEF y
      <4>4. f[q] = IF q = b + 2 THEN c.right ELSE d[y]
        BY <2>8, <4>1, <4>3
      <4>5. d[y] = IF y = b + 1 THEN c.id ELSE old[y]
        BY <1>4, <4>2
      <4>6. ChildFor(new, j) = f[q]
        BY <2>9 DEF q
      <4> QED BY <3>2, <3>7, <4>1, <4>2, <4>4, <4>5, <4>6
    <3> QED BY <3>6, <3>7
  <2> QED BY <1>9, <2>1, <2>7, <2>10 DEF s, e
<1> QED BY <1>8, <1>9

-----------------------------------------------------------------------------
(* What the halves of a node hold.                                         *)

IsCut(s, a, b, t) ==
    \A k \in Nat : BisectRight(s, k) \in (a - 1) .. b =>
        BisectRight(t, k) = BisectRight(s, k) - (a - 1)

LEMMA SubAscends ==
  ASSUME NEW s \in Seq(Key), Ascends(s), NEW a \in Nat, NEW b \in Nat, 1 <= a, b <= Len(s), a <= b + 1,
         NEW t, t = SubSeq(s, a, b)
  PROVE  /\ t \in Seq(Key) /\ Ascends(t) /\ ToSet(t) = {s[i] : i \in a .. b}
         /\ IsCut(s, a, b, t)
<1> DEFINE m == Len(s)
           l == b - a + 1
<1>1. m \in Nat /\ DOMAIN s = 1 .. m /\ \A i \in 1 .. m : s[i] \in Nat
  BY KeysAreNat
<1>2. t \in Seq(Key) /\ Len(t) = l /\ \A i \in 1 .. l : t[i] = s[a + i - 1] /\ a + i - 1 \in 1 .. m
  BY SubIs
<1>3. l \in Nat /\ a \in Nat /\ b \in Nat /\ 1 <= a /\ b <= m /\ l = b - a + 1
  BY <1>1
<1>4. DOMAIN t = 1 .. l /\ ToSet(t) = {t[i] : i \in 1 .. l}
  BY <1>2, KeysAreNat
<1>5. \A i, j \in 1 .. m : i < j => s[i] < s[j]
  BY <1>1 DEF Ascends
<1>6. \A k \in Nat : IsCount(s, k, BisectRight(s, k))
  BY BisectCounts
<1> HIDE DEF l, m
<1>7. Ascends(t)
  <2> SUFFICES ASSUME NEW i \in 1 .. l, NEW j \in 1 .. l, i < j PROVE t[i] < t[j]
    BY <1>4 DEF Ascends
  <2> DEFINE x == a + i - 1
             y == a + j - 1
  <2>1. x \in 1 .. m /\ y \in 1 .. m /\ x < y /\ t[i] = s[x] /\ t[j] = s[y]
    BY <1>2, <1>3
  <2> HIDE DEF x, y
  <2> QED BY <1>5, <2>1
<1>8. ToSet(t) = {s[i] : i \in a .. b}
  <2>1. \A i \in 1 .. l : a + i - 1 \in a .. b
    BY <1>3
  <2>2. \A i \in a .. b : \E j \in 1 .. l : t[j] = s[i]
    <3> SUFFICES ASSUME NEW i \in a .. b PROVE \E j \in 1 .. l : t[j] = s[i]
      OBVIOUS
    <3> DEFINE j == i - a + 1
    <3>1. j \in 1 .. l /\ a + j - 1 = i
      BY <1>3
    <3> HIDE DEF j
    <3> QED BY <1>2, <3>1
  <2>3. {t[i] : i \in 1 .. l} \subseteq {s[i] : i \in a .. b}
    BY <1>2, <2>1
  <2>4. {s[i] : i \in a .. b} \subseteq {t[i] : i \in 1 .. l}
    BY <2>2
  <2> QED BY <1>4, <2>3, <2>4
<1>9. ASSUME NEW k \in Nat, BisectRight(s, k) \in (a - 1) .. b
      PROVE  BisectRight(t, k) = BisectRight(s, k) - (a - 1)
  <2> DEFINE c == BisectRight(s, k)
             d == c - (a - 1)
  <2>1. c \in (a - 1) .. b /\ \A i \in 1 .. m : s[i] <= k <=> i <= c
    BY <1>6, <1>9 DEF IsCount, m
  <2> HIDE DEF c
  <2>2. d \in 0 .. l
    BY <1>3, <2>1
  <2>3. \A i \in 1 .. l : t[i] <= k <=> i <= d
    <3> TAKE i \in 1 .. l
    <3> DEFINE x == a + i - 1
    <3>1. x \in 1 .. m /\ t[i] = s[x]
      BY <1>2
    <3>2. x <= c <=> i <= d
      BY <1>3, <2>1
    <3> HIDE DEF x, d
    <3> QED BY <2>1, <3>1, <3>2
  <2> HIDE DEF d
  <2>4. IsCount(t, k, d)
    BY <1>2, <2>2, <2>3 DEF IsCount
  <2>5. BisectRight(t, k) = d
    BY <1>2, <2>4, BisectAt
  <2> QED BY <2>5 DEF c, d
<1> QED BY <1>2, <1>7, <1>8, <1>9 DEF IsCut

\* The separator parts the keys, and tells which half a key is in.
LEMMA SplitSearch ==
  ASSUME NEW P, NEW n \in TreeNodes(P), Ascends(n.keys), ~SplitHasNoKey(Base(n), EntrySizesOf(n))
  PROVE  /\ Ascends(LeftNode(n).keys) /\ Ascends(RightNode(n).keys)
         /\ SplitKey(n) \in ToSet(n.keys)
         /\ ToSet(LeftNode(n).keys) \cup ToSet(RightNode(n).keys) \subseteq ToSet(n.keys)
         /\ ToSet(LeftNode(n).keys) # {}
         /\ \A j \in ToSet(LeftNode(n).keys) : j < SplitKey(n)
         /\ \A j \in ToSet(RightNode(n).keys) : SplitKey(n) <= j
         /\ n.kind = "leaf" => /\ LeftNode(n).kind = "leaf" /\ RightNode(n).kind = "leaf"
                               /\ \A j \in Key : ValueIn(n, j) =
                                     IF j < SplitKey(n) THEN ValueIn(LeftNode(n), j)
                                     ELSE ValueIn(RightNode(n), j)
         /\ n.kind = "internal" => /\ LeftNode(n).kind = "internal" /\ RightNode(n).kind = "internal"
                                   /\ \A j \in Key : ChildFor(n, j) =
                                         IF j < SplitKey(n) THEN ChildFor(LeftNode(n), j)
                                         ELSE ChildFor(RightNode(n), j)
<1> DEFINE i == SplitIndex(Base(n), EntrySizesOf(n))
           s == n.keys
           m == Len(s)
           e == s[i + 1]
<1>1. /\ s \in Seq(Key) /\ Ascends(s) /\ m \in Nat /\ n.kind \in {"leaf", "internal"}
      /\ DOMAIN s = 1 .. m /\ \A x \in 1 .. m : s[x] \in Nat
      /\ ToSet(s) = {s[x] : x \in 1 .. m}
  <2>1. s \in Seq(Key) /\ Ascends(s) /\ n.kind \in {"leaf", "internal"}
    BY DEF TreeNodes, LeafNodes, InternalNodes
  <2> HIDE DEF s
  <2> QED BY <2>1, KeysAreNat
<1>2. Len(EntrySizesOf(n)) = m
  <2>1. EntrySizesOf(n) = [j \in 1 .. m |-> EntrySizesOf(n)[j]]
    BY <1>1 DEF EntrySizesOf
  <2> HIDE DEF m, s
  <2> QED BY <1>1, <2>1
<1>3. i \in Nat /\ i >= 1 /\ i < m
  <2>1. i \in Nat /\ i >= 1
    BY <1>1, <1>2, SplitIndexIs
  <2> QED BY <1>1, <1>2, <2>1 DEF SplitHasNoKey
<1>4. SplitKey(n) = e
  BY DEF SplitKey
<1>5. Key \subseteq Nat
  BY KeyAssumption
<1>6. \A x, y \in 1 .. m : (s[x] = s[y] <=> x = y) /\ (s[x] < s[y] <=> x < y)
  <2> HIDE DEF s
  <2> QED BY <1>1, AscendsOnce
<1>7. LeftNode(n).keys = SubSeq(s, 1, i)
  BY DEF LeftNode, Leaf, Internal
<1> HIDE DEF i
<1>8. i + 1 \in 1 .. m /\ e \in Nat /\ e \in ToSet(s)
  <2>1. i + 1 \in 1 .. m
    BY <1>1, <1>3
  <2> HIDE DEF s, m
  <2> QED BY <1>1, <2>1
<1> HIDE DEF s, m
<1>9. \A x \in 1 .. m : s[x] < e <=> x <= i
  <2> TAKE x \in 1 .. m
  <2>1. s[x] < s[i + 1] <=> x < i + 1
    BY <1>6, <1>8
  <2> QED BY <1>3, <2>1
<1> DEFINE u == SubSeq(s, 1, i)
<1>10. /\ u \in Seq(Key) /\ Ascends(u) /\ ToSet(u) = {s[x] : x \in 1 .. i}
       /\ IsCut(s, 1, i, u)
  <2>1. 1 \in Nat /\ 1 <= 1 /\ i <= Len(s) /\ 1 <= i + 1
    BY <1>1, <1>3 DEF m
  <2> HIDE DEF u
  <2> QED BY <1>1, <1>3, <2>1, SubAscends DEF u
<1>11. \A x \in 1 .. i : x \in 1 .. m /\ s[x] < e
  BY <1>1, <1>3, <1>9
<1>12. ToSet(u) \subseteq ToSet(s) /\ ToSet(u) # {} /\ \A j \in ToSet(u) : j < e
  <2>1. 1 \in 1 .. i
    BY <1>3
  <2> HIDE DEF u, e
  <2>2. ToSet(u) \subseteq ToSet(s) /\ \A j \in ToSet(u) : j < e
    BY <1>1, <1>10, <1>11
  <2>3. s[1] \in ToSet(u)
    BY <1>10, <2>1
  <2> QED BY <2>2, <2>3
<1>13. \A k \in Nat : IsCount(s, k, BisectRight(s, k))
  BY <1>1, BisectCounts
<1>14. CASE n.kind = "leaf"
  <2> DEFINE t == SubSeq(s, i + 1, m)
  <2>1. LeftNode(n) = Leaf(u, SubSeq(n.values, 1, i)) /\ RightNode(n) = Leaf(t, SubSeq(n.values, i + 1, m))
    BY <1>14 DEF LeftNode, RightNode, i, m, s
  <2>2. t \in Seq(Key) /\ Ascends(t) /\ ToSet(t) = {s[x] : x \in i + 1 .. m}
    <3> DEFINE a == i + 1
    <3>1. a \in Nat /\ 1 <= a /\ m <= Len(s) /\ a <= m + 1
      BY <1>1, <1>3 DEF m
    <3> HIDE DEF a
    <3>2. SubSeq(s, a, m) \in Seq(Key) /\ Ascends(SubSeq(s, a, m)) /\ ToSet(SubSeq(s, a, m)) = {s[x] : x \in a .. m}
      BY <1>1, <3>1, SubAscends
    <3> QED BY <3>2 DEF a
  <2>3. \A x \in i + 1 .. m : x \in 1 .. m /\ e <= s[x]
    <3> SUFFICES ASSUME NEW x \in i + 1 .. m PROVE x \in 1 .. m /\ e <= s[x]
      OBVIOUS
    <3>1. x \in 1 .. m /\ ~(x <= i)
      BY <1>1, <1>3
    <3>2. ~(s[x] < e) /\ s[x] \in Nat
      BY <1>1, <1>9, <3>1
    <3> QED BY <1>8, <3>1, <3>2
  <2>4. ToSet(t) \subseteq ToSet(s) /\ \A j \in ToSet(t) : e <= j
    BY <1>1, <2>2, <2>3
  <2> DEFINE L == LeftNode(n)
             R == RightNode(n)
             w == n.values
  <2>5. n \in LeafNodes /\ w \in Seq(Value) /\ Len(w) = m
    BY <1>14 DEF TreeNodes, LeafNodes, InternalNodes, m, s
  <2>6. /\ SubSeq(w, 1, i) \in Seq(Value) /\ Len(SubSeq(w, 1, i)) = i
        /\ Len(u) = i /\ \A x \in 1 .. i : SubSeq(w, 1, i)[x] = w[x] /\ u[x] = s[x]
    <3>1. 1 \in Nat /\ 1 <= 1 /\ i <= m /\ 1 <= i + 1 /\ i - 1 + 1 = i /\ \A x \in 1 .. i : 1 + x - 1 = x
      BY <1>1, <1>3
    <3> HIDE DEF w
    <3>2. SubSeq(w, 1, i) \in Seq(Value) /\ Len(SubSeq(w, 1, i)) = i - 1 + 1
          /\ \A x \in 1 .. i - 1 + 1 : SubSeq(w, 1, i)[x] = w[1 + x - 1]
      BY <1>3, <2>5, <3>1, SubIs
    <3>3. Len(u) = i - 1 + 1 /\ \A x \in 1 .. i - 1 + 1 : u[x] = s[1 + x - 1]
      <4>1. i <= Len(s)
        BY <1>1, <1>3 DEF m
      <4> QED BY <1>1, <1>3, <3>1, <4>1, SubIs
    <3> HIDE DEF u
    <3> QED BY <3>1, <3>2, <3>3
  <2> DEFINE l == m - i
             z == SubSeq(w, i + 1, m)
  <2>7. /\ z \in Seq(Value) /\ Len(z) = l
        /\ Len(t) = l /\ \A x \in 1 .. l : z[x] = w[i + x] /\ t[x] = s[i + x]
    <3> DEFINE a == i + 1
    <3>1. a \in Nat /\ 1 <= a /\ m <= Len(w) /\ m <= Len(s) /\ a <= m + 1 /\ m - a + 1 = l /\ \A x \in 1 .. l : a + x - 1 = i + x
      BY <1>1, <1>3, <2>5 DEF m
    <3> HIDE DEF w, a, l
    <3>2. SubSeq(w, a, m) \in Seq(Value) /\ Len(SubSeq(w, a, m)) = m - a + 1
          /\ \A x \in 1 .. m - a + 1 : SubSeq(w, a, m)[x] = w[a + x - 1]
      BY <1>1, <2>5, <3>1, SubIs
    <3>3. Len(SubSeq(s, a, m)) = m - a + 1 /\ \A x \in 1 .. m - a + 1 : SubSeq(s, a, m)[x] = s[a + x - 1]
      BY <1>1, <3>1, SubIs
    <3>4. /\ SubSeq(w, a, m) \in Seq(Value) /\ Len(SubSeq(w, a, m)) = l /\ Len(SubSeq(s, a, m)) = l
          /\ \A x \in 1 .. l : SubSeq(w, a, m)[x] = w[i + x] /\ SubSeq(s, a, m)[x] = s[i + x]
      BY <3>1, <3>2, <3>3
    <3> QED BY <3>4 DEF a
  <2> HIDE DEF z, t, u
  <2>8. L \in LeafNodes /\ R \in LeafNodes /\ L.keys = u /\ R.keys = t /\ L.kind = "leaf" /\ R.kind = "leaf"
        /\ L.values = SubSeq(w, 1, i) /\ R.values = z
    <3> DEFINE y == SubSeq(w, 1, i)
    <3>1. L = Leaf(u, y) /\ R = Leaf(t, z)
      BY <2>1 DEF u, t, z
    <3>2. u \in Seq(Key) /\ t \in Seq(Key) /\ y \in Seq(Value) /\ z \in Seq(Value)
          /\ Len(u) = Len(y) /\ Len(t) = Len(z)
      BY <1>10, <2>2, <2>6, <2>7
    <3> HIDE DEF L, R, y
    <3>3. L \in LeafNodes /\ R \in LeafNodes
      BY <3>1, <3>2 DEF Leaf, LeafNodes
    <3>4. L.keys = u /\ R.keys = t /\ L.kind = "leaf" /\ R.kind = "leaf" /\ L.values = y /\ R.values = z
      BY <3>1 DEF Leaf
    <3> QED BY <3>3, <3>4 DEF y
  <2>9. /\ \A x \in 1 .. m : ValueIn(n, s[x]) = w[x]
        /\ \A x : x \notin ToSet(s) => ValueIn(n, x) = None
    BY <1>1, <2>5, ValueAt DEF s, m
  <2>10. /\ \A x \in 1 .. i : ValueIn(L, u[x]) = SubSeq(w, 1, i)[x]
         /\ \A x : x \notin ToSet(u) => ValueIn(L, x) = None
    <3> HIDE DEF L
    <3> QED BY <1>10, <2>6, <2>8, ValueAt
  <2>11. /\ \A x \in 1 .. l : ValueIn(R, t[x]) = z[x]
         /\ \A x : x \notin ToSet(t) => ValueIn(R, x) = None
    <3> HIDE DEF R, l
    <3> QED BY <2>2, <2>7, <2>8, ValueAt
  <2>12. ASSUME NEW j \in Key PROVE ValueIn(n, j) = IF j < e THEN ValueIn(L, j) ELSE ValueIn(R, j)
    <3> HIDE DEF L, R, w
    <3>1. CASE j \in ToSet(s)
      <4>1. PICK x \in 1 .. m : s[x] = j
        BY <1>1, <3>1
      <4>2. CASE x <= i
        <5>1. x \in 1 .. i
          BY <1>3, <4>2
        <5>2. j < e
          BY <1>11, <4>1, <5>1
        <5> QED BY <2>6, <2>9, <2>10, <4>1, <5>1, <5>2
      <4>3. CASE ~(x <= i)
        <5> DEFINE y == x - i
        <5>1. y \in 1 .. l /\ i + y = x
          BY <1>1, <1>3, <4>3
        <5>2. ~(j < e)
          BY <1>9, <4>1, <4>3
        <5> HIDE DEF y, l
        <5>3. z[y] = w[x] /\ t[y] = j
          BY <2>7, <4>1, <5>1
        <5> QED BY <2>9, <2>11, <4>1, <5>1, <5>2, <5>3
      <4> QED BY <4>2, <4>3
    <3>2. CASE j \notin ToSet(s)
      BY <1>12, <2>4, <2>9, <2>10, <2>11, <3>2
    <3> QED BY <3>1, <3>2
  <2>13. n.kind # "internal"
    BY <1>14
  <2> QED BY <1>4, <1>8, <1>10, <1>12, <1>14, <2>2, <2>4, <2>8, <2>12, <2>13 DEF s
<1>15. CASE n.kind = "internal"
  <2> DEFINE t == SubSeq(s, i + 2, m)
             c == n.children
             a == SubSeq(c, 1, i + 1)
             b == SubSeq(c, i + 2, m + 1)
             L == LeftNode(n)
             R == RightNode(n)
  <2>1. L = Internal(u, a) /\ R = Internal(t, b)
    BY <1>15 DEF LeftNode, RightNode, i, m, s
  <2>2. /\ t \in Seq(Key) /\ Ascends(t) /\ ToSet(t) = {s[x] : x \in i + 2 .. m}
        /\ IsCut(s, i + 2, m, t)
    <3> DEFINE q == i + 2
    <3>1. q \in Nat /\ 1 <= q /\ m <= Len(s) /\ q <= m + 1
      BY <1>1, <1>3 DEF m
    <3> HIDE DEF q
    <3>2. /\ SubSeq(s, q, m) \in Seq(Key) /\ Ascends(SubSeq(s, q, m)) /\ ToSet(SubSeq(s, q, m)) = {s[x] : x \in q .. m}
          /\ IsCut(s, q, m, SubSeq(s, q, m))
      BY <1>1, <3>1, SubAscends
    <3> QED BY <3>2 DEF q
  <2>3. \A x \in i + 2 .. m : x \in 1 .. m /\ e <= s[x]
    <3> SUFFICES ASSUME NEW x \in i + 2 .. m PROVE x \in 1 .. m /\ e <= s[x]
      OBVIOUS
    <3>1. x \in 1 .. m /\ ~(x <= i)
      BY <1>1, <1>3
    <3>2. ~(s[x] < e) /\ s[x] \in Nat
      BY <1>1, <1>9, <3>1
    <3> QED BY <1>8, <3>1, <3>2
  <2>4. ToSet(t) \subseteq ToSet(s) /\ \A j \in ToSet(t) : e <= j
    BY <1>1, <2>2, <2>3
  <2>5. c \in Seq(P) /\ Len(c) = m + 1
    BY <1>15 DEF TreeNodes, LeafNodes, InternalNodes, m, s
  <2>6. \A x \in 1 .. i + 1 : a[x] = c[x]
    <3> DEFINE q == i + 1
    <3>1. 1 \in Nat /\ q \in Nat /\ 1 <= 1 /\ q <= Len(c) /\ 1 <= q + 1 /\ q - 1 + 1 = q /\ \A x \in 1 .. q : 1 + x - 1 = x
      BY <1>1, <1>3, <2>5
    <3> HIDE DEF q, c
    <3>2. \A x \in 1 .. q - 1 + 1 : SubSeq(c, 1, q)[x] = c[1 + x - 1]
      BY <2>5, <3>1, SubIs
    <3>3. \A x \in 1 .. q : SubSeq(c, 1, q)[x] = c[x]
      BY <3>1, <3>2
    <3> QED BY <3>3 DEF q
  <2>7. \A x \in 1 .. m - i : b[x] = c[i + 1 + x]
    <3> DEFINE q == i + 2
               r == m + 1
    <3>1. q \in Nat /\ r \in Nat /\ 1 <= q /\ r <= Len(c) /\ q <= r + 1 /\ r - q + 1 = m - i /\ \A x \in 1 .. m - i : q + x - 1 = i + 1 + x
      BY <1>1, <1>3, <2>5
    <3> HIDE DEF q, r, c
    <3>2. \A x \in 1 .. r - q + 1 : SubSeq(c, q, r)[x] = c[q + x - 1]
      BY <2>5, <3>1, SubIs
    <3>3. \A x \in 1 .. m - i : SubSeq(c, q, r)[x] = c[i + 1 + x]
      BY <3>1, <3>2
    <3> QED BY <3>3 DEF q, r
  <2>8. L.keys = u /\ R.keys = t /\ L.children = a /\ R.children = b /\ L.kind = "internal" /\ R.kind = "internal"
    <3> HIDE DEF t, a, b, u, L, R
    <3> QED BY <2>1 DEF Internal
  <2> HIDE DEF t, a, b, u
  <2>9. ASSUME NEW j \in Key PROVE ChildFor(n, j) = IF j < e THEN ChildFor(L, j) ELSE ChildFor(R, j)
    <3> DEFINE d == BisectRight(s, j)
    <3>1. d \in 0 .. m /\ j \in Nat /\ \A x \in 1 .. m : s[x] <= j <=> x <= d
      BY <1>5, <1>13 DEF IsCount, m
    <3>2. ChildFor(n, j) = c[d + 1] /\ ChildFor(L, j) = a[BisectRight(u, j) + 1]
          /\ ChildFor(R, j) = b[BisectRight(t, j) + 1]
      BY <2>8 DEF ChildFor, s
    <3>3. e <= j <=> i + 1 <= d
      BY <1>8, <3>1
    <3>4. d \in (1 - 1) .. i => BisectRight(u, j) = d - (1 - 1)
      BY <1>10, <3>1 DEF IsCut
    <3>5. d \in i + 1 .. m => BisectRight(t, j) = d - (i + 1)
      <4>1. (i + 2) - 1 = i + 1
        BY <1>3
      <4> QED BY <2>2, <3>1, <4>1 DEF IsCut
    <3> HIDE DEF d, c, L, R
    <3>6. CASE j < e
      <4> DEFINE x == d + 1
      <4>1. ~(e <= j)
        BY <1>8, <3>1, <3>6
      <4>2. d \in (1 - 1) .. i /\ d - (1 - 1) = d /\ x \in 1 .. i + 1
        BY <1>3, <3>1, <3>3, <4>1
      <4> HIDE DEF x
      <4>3. a[x] = c[x]
        BY <2>6, <4>2
      <4> QED BY <3>2, <3>4, <3>6, <4>2, <4>3 DEF x
    <3>7. CASE ~(j < e)
      <4> DEFINE x == d - (i + 1) + 1
      <4>1. e <= j
        BY <1>8, <3>1, <3>7
      <4>2. d \in i + 1 .. m /\ x \in 1 .. m - i /\ i + 1 + x = d + 1
        BY <1>1, <1>3, <3>1, <3>3, <4>1
      <4>3. BisectRight(t, j) + 1 = x
        BY <3>5, <4>2
      <4> HIDE DEF x
      <4>4. b[x] = c[d + 1]
        BY <2>7, <4>2
      <4> QED BY <3>2, <3>7, <4>3, <4>4
    <3> QED BY <3>6, <3>7
  <2>10. n.kind # "leaf"
    BY <1>15
  <2> QED BY <1>4, <1>8, <1>10, <1>12, <1>15, <2>2, <2>4, <2>8, <2>9, <2>10 DEF s
<1> QED BY <1>1, <1>14, <1>15

\* Each half of a node leads to what the node led to on its side of the separator.
LEMMA SplitRoutes ==
  ASSUME NEW f, FileOK(f), NEW n \in TreeNodes(Ids(f)), AreTrees(f, n), Routes(f, n),
         ~SplitHasNoKey(Base(n), EntrySizesOf(n)),
         NEW L, L = LeftNode(n), NEW R, R = RightNode(n), NEW e, e = SplitKey(n)
  PROVE  /\ Routes(f, L) /\ Routes(f, R)
         /\ NodeKeys(f, L) \cup NodeKeys(f, R) \subseteq NodeKeys(f, n)
         /\ e \in NodeKeys(f, n) /\ NodeKeys(f, L) # {}
         /\ \A j \in NodeKeys(f, L) : j < e
         /\ \A j \in NodeKeys(f, R) : e <= j
         /\ \A j \in Key : Find(f, n, j) = IF j < e THEN Find(f, L, j) ELSE Find(f, R, j)
<1>1. Ascends(n.keys) /\ n.kind \in {"leaf", "internal"}
  BY DEF Routes, TreeNodes, LeafNodes, InternalNodes
<1>2. /\ L \in TreeNodes(Ids(f)) /\ R \in TreeNodes(Ids(f)) /\ e \in Key
      /\ KidsOf(L) \cup KidsOf(R) = KidsOf(n) /\ KidsOf(L) \cap KidsOf(R) = {}
  BY SplitIs
<1>3. /\ Ascends(L.keys) /\ Ascends(R.keys) /\ e \in ToSet(n.keys)
      /\ ToSet(L.keys) \cup ToSet(R.keys) \subseteq ToSet(n.keys) /\ ToSet(L.keys) # {}
  BY <1>1, SplitSearch
<1>4. (\A j \in ToSet(L.keys) : j < e) /\ (\A j \in ToSet(R.keys) : e <= j)
  BY <1>1, SplitSearch
<1>5. n.kind = "leaf" => L.kind = "leaf" /\ R.kind = "leaf"
                         /\ \A j \in Key : ValueIn(n, j) = IF j < e THEN ValueIn(L, j) ELSE ValueIn(R, j)
  BY <1>1, SplitSearch
<1>6. n.kind = "internal" =>
        /\ L.kind = "internal" /\ R.kind = "internal"
        /\ \A j \in Key : ChildFor(n, j) = IF j < e THEN ChildFor(L, j) ELSE ChildFor(R, j)
  BY <1>1, SplitSearch
<1>7. Key \subseteq Nat
  BY KeyAssumption
<1>8. n.kind # "internal" => KidsOf(n) = {}
  BY DEF KidsOf
<1>9. n.kind = "internal" => /\ \A j : ChildFor(L, j) \in KidsOf(L)
                             /\ \A j : ChildFor(R, j) \in KidsOf(R)
  <2> SUFFICES ASSUME n.kind = "internal"
               PROVE  (\A j : ChildFor(L, j) \in KidsOf(L)) /\ (\A j : ChildFor(R, j) \in KidsOf(R))
    OBVIOUS
  <2>1. L \in InternalNodes(Ids(f)) /\ R \in InternalNodes(Ids(f)) /\ L.kind = "internal" /\ R.kind = "internal"
    BY <1>2, <1>6, KindsDiffer DEF TreeNodes
  <2> QED BY <2>1, ChildForIs DEF KidsOf
<1>10. \A k \in KidsOf(n) : IsTree(f, k) /\ KeysUnder(f, k) \subseteq Key
                            /\ \A j \in KeysUnder(f, k) : ChildFor(n, j) = k
  BY KeysAre DEF AreTrees, Routes
<1>11. ASSUME NEW k \in KidsOf(L), NEW j \in KeysUnder(f, k)
       PROVE  ChildFor(L, j) = k /\ j < e
  <2>1. k \in KidsOf(n) /\ n.kind = "internal" /\ j \in Key /\ ChildFor(n, j) = k /\ k \notin KidsOf(R)
    BY <1>1, <1>2, <1>8, <1>10
  <2>2. ChildFor(R, j) # k
    BY <1>9, <2>1
  <2> QED BY <1>6, <2>1, <2>2
<1>12. ASSUME NEW k \in KidsOf(R), NEW j \in KeysUnder(f, k)
       PROVE  ChildFor(R, j) = k /\ e <= j
  <2>1. k \in KidsOf(n) /\ n.kind = "internal" /\ j \in Key /\ ChildFor(n, j) = k /\ k \notin KidsOf(L)
    BY <1>1, <1>2, <1>8, <1>10
  <2>2. ChildFor(L, j) # k
    BY <1>9, <2>1
  <2>3. ~(j < e) /\ ChildFor(R, j) = k
    BY <1>6, <2>1, <2>2
  <2>4. j \in Nat /\ e \in Nat
    BY <1>2, <1>7, <2>1
  <2>5. e <= j
    BY <2>3, <2>4
  <2> QED BY <2>3, <2>5
<1>13. Routes(f, L) /\ Routes(f, R)
  BY <1>3, <1>11, <1>12 DEF Routes
<1>14. /\ NodeKeys(f, L) \cup NodeKeys(f, R) \subseteq NodeKeys(f, n)
       /\ e \in NodeKeys(f, n) /\ NodeKeys(f, L) # {}
  BY <1>2, <1>3 DEF NodeKeys
<1>15. \A j \in NodeKeys(f, L) : j < e
  BY <1>4, <1>11 DEF NodeKeys
<1>16. \A j \in NodeKeys(f, R) : e <= j
  BY <1>4, <1>12 DEF NodeKeys
<1>17. \A j \in Key : Find(f, n, j) = IF j < e THEN Find(f, L, j) ELSE Find(f, R, j)
  <2>1. CASE n.kind = "leaf"
    BY <1>5, <2>1 DEF Find
  <2>2. CASE n.kind = "internal"
    <3> TAKE j \in Key
    <3>1. /\ Find(f, n, j) = Lookup(f, ChildFor(n, j), j) /\ Find(f, L, j) = Lookup(f, ChildFor(L, j), j)
          /\ Find(f, R, j) = Lookup(f, ChildFor(R, j), j)
      BY <1>6, <2>2 DEF Find
    <3>2. ChildFor(n, j) = IF j < e THEN ChildFor(L, j) ELSE ChildFor(R, j)
      BY <1>6, <2>2
    <3> QED BY <3>1, <3>2
  <2> QED BY <1>1, <2>1, <2>2
<1> QED BY <1>13, <1>14, <1>15, <1>16, <1>17

-----------------------------------------------------------------------------
(* What put has copied holds what was there before, and its key.           *)

\* The page of the path that the node takes the place of.
Replaced(w) == w.orphans[Len(w.above) + 1]

\* What a page held, with the key of the put.
Updated(f, c, w, j) == IF j = w.key THEN w.value ELSE Lookup(f, c, j)

\* The copy is as tall as the page that it replaces, but for that of the root.
LevelNode(f, w) ==
    \A h \in Nat : IsTall(f, Replaced(w), h) =>
        IF w.above = <<>> THEN \E d \in Nat : TallNode(f, w.node, d) ELSE TallNode(f, w.node, h)

SearchNode(f, w) ==
    /\ LevelNode(f, w)
    /\ Routes(f, w.node) /\ \A k \in KidsOf(w.node) : IsSearch(f, k)
    /\ NodeKeys(f, w.node) \subseteq KeysUnder(f, Replaced(w)) \cup {w.key}
    /\ \A j \in Key : Find(f, w.node, j) = Updated(f, Replaced(w), w, j)

SearchDone(f, root, w) ==
    /\ IsSearch(f, w.new) /\ (IsLevel(f, root) => IsLevel(f, w.new))
    /\ \A j \in Key : Lookup(f, w.new, j) = Updated(f, root, w, j)

SearchWork(f, root, w) ==
    /\ At(w) \in Upward => SearchNode(f, w)
    /\ At(w) = "commitRoot" => SearchDone(f, root, w)

\* Where a key is in the copies of a child.
CopyFor(c, j) == IF c.key = None \/ j < c.key THEN c.id ELSE c.right

\* The separator parts the copies.
IsSeparator(f, w, c) ==
    /\ c.key \in KeysUnder(f, Replaced(w)) \cup {w.key}
    /\ \A j \in KeysUnder(f, c.id) : j < c.key
    /\ \A j \in KeysUnder(f, c.right) : c.key <= j
    /\ KeysUnder(f, c.id) # {}

LevelChild(f, w, c) ==
    \A h \in Nat : IsTall(f, Replaced(w), h) =>
        IF w.above = <<>> THEN \E d \in Nat : \A k \in NewKids(c) : IsTall(f, k, d)
        ELSE \A k \in NewKids(c) : IsTall(f, k, h)

SearchChild(f, w, c) ==
    /\ LevelChild(f, w, c)
    /\ \A k \in NewKids(c) : /\ IsSearch(f, k)
                             /\ KeysUnder(f, k) \subseteq KeysUnder(f, Replaced(w)) \cup {w.key}
    /\ \A j \in Key : Lookup(f, CopyFor(c, j), j) = Updated(f, Replaced(w), w, j)
    /\ c.key # None => IsSeparator(f, w, c)

LEMMA PlacedSearch ==
  ASSUME NEW f, FileOK(f), NEW c, IsTree(f, c), NEW n, f[c] = n, Routes(f, n),
         \A k \in KidsOf(n) : IsSearch(f, k)
  PROVE  /\ IsSearch(f, c) /\ KeysUnder(f, c) = NodeKeys(f, n)
         /\ \A j : Lookup(f, c, j) = Find(f, n, j)
<1>1. IsSearch(f, c)
  BY SearchSplits
<1>2. KeysUnder(f, c) = NodeKeys(f, n)
  BY KeysAre
<1>3. \A j : Lookup(f, c, j) = Find(f, n, j)
  BY LookupStep
<1> QED BY <1>1, <1>2, <1>3

LEMMA WholeSearch ==
  ASSUME NEW f, FileOK(f), NEW root, IsTree(f, root), NEW w, WorkOK(f, root, w),
         w.pc \in {"write", "writeRoot"}, f[w.new] = w.node, SearchNode(f, w),
         NEW c, c = Whole(w.new)
  PROVE  SearchChild(f, w, c)
<1>1. c.id = w.new /\ c.key = None /\ NewKids(c) = {w.new}
  BY DEF NewKids, Whole
<1>2. IsTree(f, w.new)
  <2>1. IsChild(f, root, w, c)
    BY WholeIs
  <2> QED BY <1>1, <2>1 DEF IsChild
<1>3. /\ IsSearch(f, w.new) /\ KeysUnder(f, w.new) = NodeKeys(f, w.node)
      /\ \A j : Lookup(f, w.new, j) = Find(f, w.node, j)
  <2>1. Routes(f, w.node) /\ \A k \in KidsOf(w.node) : IsSearch(f, k)
    BY DEF SearchNode
  <2> QED BY <1>2, <2>1, PlacedSearch
<1>4. \A j : CopyFor(c, j) = w.new
  BY <1>1 DEF CopyFor
<1>5. LevelChild(f, w, c)
  <2>1. w.new \in Ids(f) /\ LevelNode(f, w)
    BY <1>2 DEF IsTree, SearchNode
  <2>2. \A d \in Nat : TallNode(f, w.node, d) => IsTall(f, w.new, d)
    BY <2>1, TallSplits
  <2> QED BY <1>1, <2>1, <2>2 DEF LevelChild, LevelNode
<1> QED BY <1>1, <1>3, <1>4, <1>5 DEF SearchChild, SearchNode

LEMMA HalvesSearch ==
  ASSUME NEW f, FileOK(f), NEW root, IsTree(f, root), NEW w, WorkOK(f, root, w),
         w.pc = "writeRight", f[w.right] = RightNode(w.node), SearchNode(f, w),
         NEW c, c = [id |-> w.new, key |-> SplitKey(w.node), right |-> w.right]
  PROVE  SearchChild(f, w, c)
<1> DEFINE L == LeftNode(w.node)
           R == RightNode(w.node)
           e == SplitKey(w.node)
<1>1. w.pc \in Upward
  BY DEF Upward
<1>2. NodeOK(f, root, w) /\ CopyOK(f, w) /\ w.node \in TreeNodes(Ids(f)) /\ At(w) = w.pc
  BY <1>1, OnPath
<1>3. ~SplitHasNoKey(Base(w.node), EntrySizesOf(w.node)) /\ f[w.new] = L
  BY <1>2 DEF CopyOK
<1>4. AreTrees(f, w.node) /\ Routes(f, w.node) /\ \A k \in KidsOf(w.node) : IsSearch(f, k)
  BY <1>2 DEF NodeOK, SearchNode
<1>5. e \in Key /\ KidsOf(L) \cup KidsOf(R) = KidsOf(w.node)
  BY <1>2, <1>3, SplitIs
<1>6. e # None
  BY <1>5, KeyAssumption
<1>7. /\ Routes(f, L) /\ Routes(f, R)
      /\ NodeKeys(f, L) \cup NodeKeys(f, R) \subseteq NodeKeys(f, w.node)
      /\ e \in NodeKeys(f, w.node) /\ NodeKeys(f, L) # {}
  BY <1>2, <1>3, <1>4, SplitRoutes
<1>8. (\A j \in NodeKeys(f, L) : j < e) /\ (\A j \in NodeKeys(f, R) : e <= j)
  BY <1>2, <1>3, <1>4, SplitRoutes
<1>9. \A j \in Key : Find(f, w.node, j) = IF j < e THEN Find(f, L, j) ELSE Find(f, R, j)
  BY <1>2, <1>3, <1>4, SplitRoutes
<1>10. c.id = w.new /\ c.key = e /\ c.key # None /\ c.right = w.right /\ NewKids(c) = {w.new, w.right}
  BY <1>6 DEF NewKids
<1>11. IsTree(f, w.new) /\ IsTree(f, w.right)
  <2>1. IsChild(f, root, w, c)
    BY HalvesAre
  <2> QED BY <1>10, <2>1 DEF IsChild
<1> HIDE DEF L, R, e
<1>12. /\ IsSearch(f, w.new) /\ KeysUnder(f, w.new) = NodeKeys(f, L)
       /\ \A j : Lookup(f, w.new, j) = Find(f, L, j)
  BY <1>3, <1>4, <1>5, <1>7, <1>11, PlacedSearch
<1>13. /\ IsSearch(f, w.right) /\ KeysUnder(f, w.right) = NodeKeys(f, R)
       /\ \A j : Lookup(f, w.right, j) = Find(f, R, j)
  <2>1. f[w.right] = R
    BY DEF R
  <2> QED BY <1>4, <1>5, <1>7, <1>11, <2>1, PlacedSearch
<1>14. NodeKeys(f, w.node) \subseteq KeysUnder(f, Replaced(w)) \cup {w.key}
  BY DEF SearchNode
<1>15. IsSeparator(f, w, c)
  BY <1>7, <1>8, <1>10, <1>12, <1>13, <1>14 DEF IsSeparator
<1>16. \A k \in NewKids(c) : /\ IsSearch(f, k)
                             /\ KeysUnder(f, k) \subseteq KeysUnder(f, Replaced(w)) \cup {w.key}
  BY <1>7, <1>10, <1>12, <1>13, <1>14
<1>17. ASSUME NEW j \in Key PROVE Lookup(f, CopyFor(c, j), j) = Updated(f, Replaced(w), w, j)
  <2>1. CopyFor(c, j) = IF j < e THEN w.new ELSE w.right
    BY <1>10 DEF CopyFor
  <2>2. Find(f, w.node, j) = IF j < e THEN Find(f, L, j) ELSE Find(f, R, j)
    BY <1>9
  <2>3. Find(f, w.node, j) = Updated(f, Replaced(w), w, j)
    BY DEF SearchNode
  <2>4. Lookup(f, w.new, j) = Find(f, L, j) /\ Lookup(f, w.right, j) = Find(f, R, j)
    BY <1>12, <1>13
  <2> QED BY <2>1, <2>2, <2>3, <2>4
<1>18. LevelChild(f, w, c)
  <2>1. w.new \in Ids(f) /\ w.right \in Ids(f) /\ LevelNode(f, w)
    BY <1>11 DEF IsTree, SearchNode
  <2>2. f[w.new].kind = w.node.kind /\ f[w.right].kind = w.node.kind
    <3>1. w.node.kind \in {"leaf", "internal"}
      BY <1>2 DEF TreeNodes, LeafNodes, InternalNodes
    <3> QED BY <1>3, <3>1 DEF L, LeftNode, RightNode, Leaf, Internal
  <2>3. KidsOf(f[w.new]) \subseteq KidsOf(w.node) /\ KidsOf(f[w.right]) \subseteq KidsOf(w.node)
    BY <1>3, <1>5 DEF L, R
  <2>4. \A d \in Nat : TallNode(f, w.node, d) => TallNode(f, f[w.new], d) /\ TallNode(f, f[w.right], d)
    BY <2>2, <2>3 DEF TallNode
  <2>5. \A d \in Nat : TallNode(f, w.node, d) => IsTall(f, w.new, d) /\ IsTall(f, w.right, d)
    BY <2>1, <2>4, TallSplits
  <2> QED BY <1>10, <2>1, <2>5 DEF LevelChild, LevelNode
<1> QED BY <1>15, <1>16, <1>17, <1>18 DEF SearchChild

\* A leaf that an upsert of k has changed holds v for k, and what it held for other keys.
IsUpdate(n, k, v, new) ==
    /\ new \in LeafNodes /\ Ascends(new.keys) /\ ToSet(new.keys) = ToSet(n.keys) \cup {k}
    /\ \A j \in Key : ValueIn(new, j) = IF j = k THEN v ELSE ValueIn(n, j)

LEMMA LeafUpdate ==
  ASSUME NEW n \in LeafNodes, Ascends(n.keys), NEW k \in Key, NEW v \in Value
  PROVE  IsUpdate(n, k, v, UpsertLeaf(n, k, v))
<1> DEFINE new == UpsertLeaf(n, k, v)
<1>1. new \in LeafNodes
  BY UpsertIs
<1>2. new = UpsertLeaf(n, k, v)
  OBVIOUS
<1> HIDE DEF new
<1>3. /\ Ascends(new.keys) /\ ToSet(new.keys) = ToSet(n.keys) \cup {k}
      /\ \A j \in Key : ValueIn(new, j) = IF j = k THEN v ELSE ValueIn(n, j)
  BY <1>2, UpsertSearch
<1> QED BY <1>1, <1>3 DEF new, IsUpdate

LEMMA LeafSearch ==
  ASSUME NEW f, FileOK(f), NEW root, IsTree(f, root), IsSearch(f, root),
         NEW w \in Works(Ids(f)), DownOK(f, root, w),
         NEW n, n = f[w.next], n.kind = "leaf",
         NEW v, v = [w EXCEPT !.orphans = Append(w.orphans, w.next), !.pc = "allocate",
                              !.node = UpsertLeaf(n, w.key, w.value)]
  PROVE  SearchNode(f, v)
<1> DEFINE path == Append(w.orphans, w.next)
           m == Len(w.above)
           q == w.next
<1>1. /\ w.orphans \in Seq(Ids(f)) /\ q \in Ids(f) /\ Len(w.orphans) = m /\ m \in Nat
      /\ w.key \in Key /\ w.value \in Value
  BY WorkTypes DEF DownOK
<1>2. path \in Seq(Ids(f)) /\ Len(path) = m + 1 /\ DOMAIN path = 1 .. m + 1 /\ path[m + 1] = q
  BY <1>1, AppendIs
<1>3. q \in TreePages(f, root)
  <2>1. IsPath(f, root, path, w.above, w.key) /\ IsChain(f, path)
    BY DEF DownOK
  <2>2. Len(path) # 0 /\ m + 1 \in 1 .. m + 1 /\ root \in Ids(f)
    BY <1>1, <1>2 DEF IsTree
  <2> HIDE DEF path, m, q
  <2>3. path[1] = root
    BY <2>1 DEF IsPath
  <2>4. path # <<>>
    BY <2>2
  <2> QED BY <1>2, <2>1, <2>2, <2>3, <2>4, ChainWithin
<1>4. IsTree(f, q) /\ n \in LeafNodes
  <2>1. IsTree(f, q) /\ q \in DOMAIN f
    BY <1>3, TreePage
  <2> QED BY <2>1, KindOf
<1>5. Routes(f, n)
  BY <1>3 DEF IsSearch
<1>6. /\ Ascends(v.node.keys) /\ ToSet(v.node.keys) = ToSet(n.keys) \cup {w.key}
      /\ v.node \in LeafNodes
      /\ \A j \in Key : ValueIn(v.node, j) = IF j = w.key THEN w.value ELSE ValueIn(n, j)
  <2>1. v.node = UpsertLeaf(n, w.key, w.value)
    BY DEF Works
  <2>2. Ascends(n.keys)
    BY <1>5 DEF Routes
  <2>3. w.key \in Key /\ w.value \in Value /\ n \in LeafNodes
    BY <1>1, <1>4
  <2>4. IsUpdate(n, w.key, w.value, UpsertLeaf(n, w.key, w.value))
    BY <2>2, <2>3, LeafUpdate
  <2>5. IsUpdate(n, w.key, w.value, v.node)
    BY <2>1, <2>4
  <2> QED BY <2>5 DEF IsUpdate
<1>7. v.node.kind = "leaf" /\ KidsOf(v.node) = {}
  BY <1>6, KindsDiffer DEF KidsOf
<1>8. Replaced(v) = q /\ v.key = w.key /\ v.value = w.value
  <2>1. v.orphans = path /\ v.above = w.above /\ v.key = w.key /\ v.value = w.value
    BY DEF Works
  <2> QED BY <1>2, <2>1 DEF Replaced
<1>9. Routes(f, v.node) /\ NodeKeys(f, v.node) = ToSet(n.keys) \cup {w.key}
  BY <1>6, <1>7 DEF Routes, NodeKeys
<1>10. ToSet(n.keys) \subseteq KeysUnder(f, q)
  BY <1>4, KeysAre
<1>11. ASSUME NEW j \in Key PROVE Find(f, v.node, j) = Updated(f, q, v, j)
  <2>1. Lookup(f, q, j) = ValueIn(n, j)
    BY <1>4, LookupStep DEF Find
  <2>2. Find(f, v.node, j) = ValueIn(v.node, j)
    BY <1>7 DEF Find
  <2> QED BY <1>6, <1>8, <2>1, <2>2 DEF Updated
<1>12. LevelNode(f, v)
  <2>1. \A h \in Nat : IsTall(f, q, h) => h = 0
    <3>1. n.kind = "leaf" /\ f[q] = n
      OBVIOUS
    <3> HIDE DEF q
    <3> QED BY <1>1, <3>1, TallSplits DEF TallNode
  <2>2. TallNode(f, v.node, 0)
    BY <1>7 DEF TallNode
  <2> HIDE DEF q
  <2> QED BY <1>8, <2>1, <2>2 DEF LevelNode
<1> QED BY <1>7, <1>8, <1>9, <1>10, <1>11, <1>12 DEF SearchNode

\* The parent that put goes on with.
LEMMA ParentIs ==
  ASSUME NEW f, FileOK(f), NEW root, IsTree(f, root), NEW w, IsOnPath(f, root, w), w.above # <<>>,
         NEW c, IsChild(f, root, w, c),
         NEW n, n = Last(w.above), NEW p, p = w.orphans[Len(w.above)], NEW q, q = Replaced(w),
         NEW new, new = AdoptChild(n, w.key, c), NEW v, v = ToParent(w, c)
  PROVE  /\ n \in InternalNodes(Ids(f)) /\ f[p] = n /\ q = ChildFor(n, w.key) /\ q \in KidsOf(n)
         /\ p \in TreePages(f, root) /\ IsTree(f, p) /\ IsTree(f, q)
         /\ new \in InternalNodes(Ids(f)) /\ KidsOf(new) = (KidsOf(n) \ {q}) \cup NewKids(c)
         /\ Replaced(v) = p /\ v.node = new /\ v.key = w.key /\ v.value = w.value
         /\ At(v) = "allocate"
<1> DEFINE P == w.orphans
           m == Len(w.above)
<1>1. /\ w \in Works(Ids(f)) /\ P \in Seq(Ids(f)) /\ w.above \in Seq(InternalNodes(Ids(f)))
      /\ Len(P) \in Nat /\ DOMAIN P = 1 .. Len(P) /\ m < Len(P) /\ w.key \in Key
  BY WorkTypes DEF IsOnPath
<1>2. /\ m \in Nat \ {0} /\ Len(Front(w.above)) = m - 1 /\ n = w.above[m]
      /\ n \in InternalNodes(Ids(f))
  BY <1>1, FrontIs
<1>3. f[p] = n /\ q = ChildFor(n, w.key) /\ P[1] = root
  <2>1. m \in 1 .. m
    BY <1>2
  <2> QED BY <1>2, <2>1 DEF IsOnPath, IsPath, Replaced
<1>4. P # <<>> /\ root \in Ids(f) /\ m \in DOMAIN P
  <2>1. m \in 1 .. Len(P) /\ Len(P) # 0
    BY <1>1, <1>2
  <2> HIDE DEF P
  <2> QED BY <1>1, <2>1 DEF IsTree
<1>5. p \in TreePages(f, root) /\ p \in Ids(f)
  <2>1. IsChain(f, P)
    BY DEF IsOnPath
  <2>2. \A j \in DOMAIN P : P[j] \in TreePages(f, root) /\ P[j] \in Ids(f)
    <3> HIDE DEF P
    <3> QED BY <1>1, <1>3, <1>4, <2>1, ChainWithin
  <2> QED BY <1>4, <2>2
<1>6. IsTree(f, p) /\ KidsOf(n) = Kids(f, p) /\ n.kind = "internal"
  BY <1>2, <1>3, <1>5, TreePage, KindsDiffer
<1>7. q \in KidsOf(n)
  BY <1>2, <1>3, <1>6, ChildForIs DEF KidsOf
<1>8. KidsOf(n) \subseteq TreePages(f, root) /\ IsTree(f, q)
  BY <1>5, <1>6, <1>7, TreeBelow
<1>9. /\ c.id \in Ids(f) /\ c.key \in Key \cup {None} /\ c.id \notin KidsOf(n)
      /\ c.key # None => c.right \in Ids(f) /\ c.right \notin KidsOf(n) /\ c.right # c.id
  <2>1. /\ c.id \in Ids(f) /\ c.key \in Key \cup {None} /\ c.id \in NewKids(c)
        /\ c.key # None => c.right \in Ids(f) /\ c.right # c.id /\ c.right \in NewKids(c)
    BY DEF IsChild, NewKids
  <2>2. \A k \in NewKids(c) : k \notin KidsOf(n)
    BY <1>8 DEF IsChild
  <2> QED BY <2>1, <2>2
<1>10. /\ new \in InternalNodes(Ids(f))
       /\ KidsOf(new) = (KidsOf(n) \ {ChildFor(n, w.key)}) \cup {c.id}
                            \cup (IF c.key = None THEN {} ELSE {c.right})
  BY <1>2, <1>9, AdoptIs
<1>11. KidsOf(new) = (KidsOf(n) \ {q}) \cup NewKids(c)
  BY <1>3, <1>10 DEF NewKids
<1>12. /\ v.orphans = P /\ v.above = Front(w.above) /\ v.node = new /\ v.key = w.key
       /\ v.value = w.value /\ v.pc = "allocate"
  BY <1>1 DEF Works, ToParent
<1>13. Replaced(v) = p
  <2>1. Len(v.above) + 1 = m
    BY <1>2, <1>12
  <2> QED BY <1>12, <2>1 DEF Replaced
<1>14. At(v) = "allocate"
  BY <1>12 DEF At
<1> HIDE DEF P, m
<1> QED BY <1>2, <1>3, <1>5, <1>6, <1>7, <1>8, <1>10, <1>11, <1>12, <1>13, <1>14

LEMMA ParentSearch ==
  ASSUME NEW f, FileOK(f), NEW root, IsTree(f, root), IsSearch(f, root),
         NEW w, IsOnPath(f, root, w), w.above # <<>>,
         NEW c, IsChild(f, root, w, c), SearchChild(f, w, c), NEW v, v = ToParent(w, c)
  PROVE  SearchNode(f, v) /\ At(v) = "allocate"
<1> DEFINE n == Last(w.above)
           p == w.orphans[Len(w.above)]
           q == Replaced(w)
           new == AdoptChild(n, w.key, c)
<1>1. /\ n \in InternalNodes(Ids(f)) /\ f[p] = n /\ q = ChildFor(n, w.key) /\ q \in KidsOf(n)
      /\ p \in TreePages(f, root) /\ IsTree(f, p) /\ IsTree(f, q)
      /\ new \in InternalNodes(Ids(f)) /\ KidsOf(new) = (KidsOf(n) \ {q}) \cup NewKids(c)
      /\ Replaced(v) = p /\ v.node = new /\ v.key = w.key /\ v.value = w.value
      /\ At(v) = "allocate"
  BY ParentIs
<1>2. new = AdoptChild(n, w.key, c)
  OBVIOUS
<1> HIDE DEF n, p, q, new
<1>3. Routes(f, n) /\ Ascends(n.keys) /\ \A k \in KidsOf(n) : IsSearch(f, k)
  <2>1. IsSearch(f, p)
    <3>1. TreePages(f, p) \subseteq TreePages(f, root)
      BY <1>1, TreeBelow
    <3> QED BY <3>1 DEF IsSearch
  <2> QED BY <1>1, <2>1, SearchSplits DEF Routes
<1>4. \A k \in KidsOf(n) : \A j \in KeysUnder(f, k) : ChildFor(n, j) = k
  BY <1>3 DEF Routes
<1>5. w.key \in Key /\ c.id \in Ids(f) /\ c.key \in Key \cup {None} /\ (c.key # None => c.right \in Ids(f))
  BY WorkTypes DEF IsOnPath, IsChild
<1>6. \A j \in KeysUnder(f, q) \cup {w.key} : ChildFor(n, j) = q /\ j \in Key
  BY <1>1, <1>4, <1>5, KeysAre
<1>7. \A k \in NewKids(c) : IsSearch(f, k) /\ \A j \in KeysUnder(f, k) : ChildFor(n, j) = q /\ j \in Key
  BY <1>6 DEF SearchChild, q
<1>8. c.key # None => /\ ChildFor(n, c.key) = ChildFor(n, w.key)
                      /\ \E t \in Key : t < c.key /\ ChildFor(n, t) = ChildFor(n, w.key)
  <2> SUFFICES ASSUME c.key # None
               PROVE  /\ ChildFor(n, c.key) = ChildFor(n, w.key)
                      /\ \E t \in Key : t < c.key /\ ChildFor(n, t) = ChildFor(n, w.key)
    OBVIOUS
  <2>1. IsSeparator(f, w, c)
    BY DEF SearchChild
  <2>2. ChildFor(n, c.key) = q
    BY <1>6, <2>1 DEF IsSeparator, q
  <2>3. PICK t \in KeysUnder(f, c.id) : t < c.key
    BY <2>1 DEF IsSeparator
  <2>4. t \in Key /\ ChildFor(n, t) = q
    BY <1>7 DEF NewKids
  <2> QED BY <1>1, <2>2, <2>3, <2>4
<1>9. /\ Ascends(new.keys)
      /\ ToSet(new.keys) = ToSet(n.keys) \cup (IF c.key = None THEN {} ELSE {c.key})
      /\ \A j \in Key : ChildFor(new, j) =
            IF ChildFor(n, j) # ChildFor(n, w.key) THEN ChildFor(n, j)
            ELSE IF c.key = None \/ j < c.key THEN c.id ELSE c.right
  BY <1>1, <1>2, <1>3, <1>5, <1>8, AdoptSearch
<1>10. \A j \in Key : ChildFor(new, j) = IF ChildFor(n, j) # q THEN ChildFor(n, j) ELSE CopyFor(c, j)
  BY <1>1, <1>9 DEF CopyFor
<1>11. \A k \in KidsOf(n) : IsTree(f, k)
  BY <1>1, TreeBelow, TreePage
<1>12. ASSUME NEW k \in KidsOf(new), NEW j \in KeysUnder(f, k) PROVE ChildFor(new, j) = k
  <2>1. CASE k \in KidsOf(n) \ {q}
    <3>1. ChildFor(n, j) = k /\ j \in Key
      BY <1>4, <1>11, <2>1, KeysAre
    <3> QED BY <1>10, <2>1, <3>1
  <2>2. CASE k = c.id
    <3>1. ChildFor(n, j) = q /\ j \in Key
      BY <1>7, <2>2 DEF NewKids
    <3>2. c.key # None => j < c.key
      BY <2>2 DEF SearchChild, IsSeparator
    <3> QED BY <1>10, <2>2, <3>1, <3>2 DEF CopyFor
  <2>3. CASE c.key # None /\ k = c.right
    <3>1. ChildFor(n, j) = q /\ j \in Key
      BY <1>7, <2>3 DEF NewKids
    <3>2. c.key <= j
      BY <2>3 DEF SearchChild, IsSeparator
    <3>3. c.key \in Nat /\ j \in Nat
      BY <1>5, <2>3, <3>1, KeyAssumption
    <3>4. ~(j < c.key)
      BY <3>2, <3>3
    <3> QED BY <1>10, <2>3, <3>1, <3>4 DEF CopyFor
  <2> QED BY <1>1, <2>1, <2>2, <2>3 DEF NewKids
<1>13. Routes(f, new)
  BY <1>9, <1>12 DEF Routes
<1>14. \A k \in KidsOf(new) : IsSearch(f, k)
  BY <1>1, <1>3, <1>7
<1>15. NodeKeys(f, new) \subseteq KeysUnder(f, p) \cup {w.key}
  <2>1. KeysUnder(f, p) = NodeKeys(f, n)
    BY <1>1, KeysAre
  <2>2. KeysUnder(f, q) \subseteq NodeKeys(f, n) /\ ToSet(n.keys) \subseteq NodeKeys(f, n)
    BY <1>1 DEF NodeKeys
  <2>3. c.key # None => c.key \in KeysUnder(f, q) \cup {w.key}
    BY DEF SearchChild, IsSeparator, q
  <2>4. \A k \in NewKids(c) : KeysUnder(f, k) \subseteq KeysUnder(f, q) \cup {w.key}
    BY DEF SearchChild, q
  <2>5. \A k \in KidsOf(new) : KeysUnder(f, k) \subseteq NodeKeys(f, n) \cup {w.key}
    <3> SUFFICES ASSUME NEW k \in KidsOf(new) PROVE KeysUnder(f, k) \subseteq NodeKeys(f, n) \cup {w.key}
      OBVIOUS
    <3>1. CASE k \in KidsOf(n)
      BY <3>1 DEF NodeKeys
    <3>2. CASE k \in NewKids(c)
      BY <2>2, <2>4, <3>2
    <3> QED BY <1>1, <3>1, <3>2
  <2>6. ToSet(new.keys) \subseteq NodeKeys(f, n) \cup {w.key}
    BY <1>9, <2>2, <2>3
  <2> QED BY <2>1, <2>5, <2>6 DEF NodeKeys
<1>16. ASSUME NEW j \in Key PROVE Find(f, new, j) = Updated(f, p, w, j)
  <2>1. new.kind = "internal" /\ n.kind = "internal"
    BY <1>1, KindsDiffer
  <2>2. Find(f, new, j) = Lookup(f, ChildFor(new, j), j)
    BY <2>1 DEF Find
  <2>3. Lookup(f, p, j) = Lookup(f, ChildFor(n, j), j)
    BY <1>1, <2>1, LookupStep DEF Find
  <2>4. CASE ChildFor(n, j) # q
    <3>1. j # w.key
      BY <1>1, <2>4
    <3> QED BY <1>10, <2>2, <2>3, <2>4, <3>1 DEF Updated
  <2>5. CASE ChildFor(n, j) = q
    <3>1. Lookup(f, CopyFor(c, j), j) = Updated(f, q, w, j)
      BY DEF SearchChild, q
    <3>2. ChildFor(new, j) = CopyFor(c, j)
      BY <1>10, <2>5
    <3> QED BY <2>2, <2>3, <2>5, <3>1, <3>2 DEF Updated
  <2> QED BY <2>4, <2>5
<1>17. \A j \in Key : Find(f, v.node, j) = Updated(f, Replaced(v), v, j)
  BY <1>1, <1>16 DEF Updated
<1>18. \A h \in Nat : IsTall(f, p, h) => TallNode(f, new, h)
  <2> SUFFICES ASSUME NEW h \in Nat, IsTall(f, p, h) PROVE TallNode(f, new, h)
    OBVIOUS
  <2>1. new.kind = "internal" /\ n.kind = "internal" /\ p \in Ids(f)
    BY <1>1, KindsDiffer DEF IsTree
  <2>2. h # 0 /\ h - 1 \in Nat /\ \A k \in KidsOf(n) : IsTall(f, k, h - 1)
    <3>1. TallNode(f, n, h)
      BY <1>1, <2>1, TallSplits
    <3> QED BY <2>1, <3>1 DEF TallNode
  <2>3. \A k \in NewKids(c) : IsTall(f, k, h - 1)
    <3>1. IsTall(f, q, h - 1)
      BY <1>1, <2>2
    <3> QED BY <2>2, <3>1 DEF SearchChild, LevelChild, q
  <2> QED BY <1>1, <2>1, <2>2, <2>3 DEF TallNode
<1>19. LevelNode(f, v)
  BY <1>1, <1>18 DEF LevelNode
<1> QED BY <1>1, <1>13, <1>14, <1>15, <1>17, <1>19 DEF SearchNode

LEMMA RootSearch ==
  ASSUME NEW f, FileOK(f), NEW root, IsTree(f, root), NEW w, IsOnPath(f, root, w), w.above = <<>>,
         NEW c, IsChild(f, root, w, c), c.key # None, SearchChild(f, w, c), NEW v, v = ToRoot(w, c)
  PROVE  SearchNode(f, v) /\ At(v) = "allocateRoot"
<1> DEFINE s == <<c.key>>
           new == Internal(s, <<c.id, c.right>>)
<1>1. c.id \in Ids(f) /\ c.right \in Ids(f) /\ c.key \in Key /\ c.key \in Nat /\ Key \subseteq Nat
  BY KeyAssumption DEF IsChild
<1>2. s \in Seq(Key) /\ Len(s) = 1 /\ s[1] = c.key /\ DOMAIN s = 1 .. 1
  BY <1>1
<1>3. ToSet(s) = {c.key}
  BY DEF ToSet
<1> HIDE DEF s
<1>4. Ascends(s)
  BY <1>2 DEF Ascends
<1>5. new.keys = s /\ new.children = <<c.id, c.right>> /\ new.kind = "internal"
  BY DEF Internal
<1>6. KidsOf(new) = NewKids(c)
  <2>1. ToSet(<<c.id, c.right>>) = {c.id, c.right}
    BY DEF ToSet
  <2> QED BY <1>5, <2>1 DEF KidsOf, NewKids
<1>7. /\ v.orphans = w.orphans /\ v.above = w.above /\ v.node = new /\ v.key = w.key
      /\ v.value = w.value /\ v.pc = "allocateRoot"
  BY DEF Works, new, IsOnPath, ToRoot, s
<1>8. ASSUME NEW j \in Key PROVE ChildFor(new, j) = CopyFor(c, j)
  <2> DEFINE b == BisectRight(s, j)
             kids == <<c.id, c.right>>
  <2>1. IsCount(s, j, b)
    BY <1>1, <1>2, <1>4, BisectCounts
  <2>2. ChildFor(new, j) = kids[b + 1]
    BY <1>5 DEF ChildFor
  <2> HIDE DEF b, kids
  <2>3. b \in 0 .. 1 /\ (c.key <= j <=> 1 <= b)
    BY <1>2, <2>1 DEF IsCount
  <2>4. j \in Nat
    BY <1>1
  <2>5. CASE j < c.key
    <3>1. b = 0
      BY <1>1, <2>3, <2>4, <2>5
    <3> QED BY <2>2, <2>5, <3>1 DEF CopyFor, kids
  <2>6. CASE ~(j < c.key)
    <3>1. b = 1
      BY <1>1, <2>3, <2>4, <2>6
    <3> QED BY <2>2, <2>6, <3>1 DEF CopyFor, kids
  <2> QED BY <2>5, <2>6
<1> HIDE DEF new
<1>9. w.key \in Key
  BY WorkTypes DEF IsOnPath
<1>10. IsSeparator(f, w, c)
  BY DEF SearchChild
<1>11. ASSUME NEW k \in KidsOf(new), NEW j \in KeysUnder(f, k) PROVE ChildFor(new, j) = k
  <2>1. j \in Key /\ j \in Nat
    <3>1. IsTree(f, k)
      BY <1>6 DEF IsChild
    <3> QED BY <1>1, <3>1, KeysAre
  <2>2. CASE k = c.id
    <3>1. j < c.key
      BY <1>10, <2>2 DEF IsSeparator
    <3> QED BY <1>8, <2>1, <2>2, <3>1 DEF CopyFor
  <2>3. CASE k = c.right
    <3>1. c.key <= j
      BY <1>10, <2>3 DEF IsSeparator
    <3>2. ~(j < c.key)
      BY <1>1, <2>1, <3>1
    <3> QED BY <1>8, <2>1, <2>3, <3>2 DEF CopyFor
  <2> QED BY <1>6, <2>2, <2>3 DEF NewKids
<1>12. Routes(f, new)
  BY <1>4, <1>5, <1>11 DEF Routes
<1>13. \A k \in KidsOf(new) : /\ IsSearch(f, k)
                              /\ KeysUnder(f, k) \subseteq KeysUnder(f, Replaced(w)) \cup {w.key}
  BY <1>6 DEF SearchChild
<1>14. NodeKeys(f, new) \subseteq KeysUnder(f, Replaced(w)) \cup {w.key}
  BY <1>3, <1>5, <1>10, <1>13 DEF NodeKeys, IsSeparator
<1>15. \A j \in Key : Find(f, new, j) = Updated(f, Replaced(w), w, j)
  BY <1>5, <1>8 DEF Find, SearchChild
<1>16. Replaced(v) = Replaced(w) /\ At(v) = "allocateRoot"
  BY <1>7 DEF Replaced, At
<1>17. \A j \in Key : Find(f, v.node, j) = Updated(f, Replaced(v), v, j)
  BY <1>7, <1>15, <1>16 DEF Updated
<1>18. \A d \in Nat : (\A k \in NewKids(c) : IsTall(f, k, d)) => TallNode(f, new, d + 1)
  BY <1>5, <1>6 DEF TallNode
<1>19. LevelNode(f, v)
  <2>1. \A d \in Nat : d + 1 \in Nat
    OBVIOUS
  <2>2. LevelChild(f, w, c)
    BY DEF SearchChild
  <2> QED BY <1>7, <1>16, <1>18, <2>1, <2>2 DEF LevelNode, LevelChild
<1> QED BY <1>7, <1>12, <1>13, <1>14, <1>16, <1>17, <1>19 DEF SearchNode

LEMMA DoneSearch ==
  ASSUME NEW f, FileOK(f), NEW root, IsTree(f, root), NEW w, IsOnPath(f, root, w), w.above = <<>>,
         NEW c, IsChild(f, root, w, c), c.key = None, SearchChild(f, w, c), NEW v, v = ToCommit(w, c)
  PROVE  SearchDone(f, root, v) /\ At(v) = "commitRoot"
<1>1. Replaced(w) = root
  <2>1. Len(w.above) = 0 /\ w.orphans[1] = root
    BY RootPath
  <2> QED BY <2>1 DEF Replaced
<1>2. v.new = c.id /\ v.key = w.key /\ v.value = w.value /\ v.pc = "commitRoot"
  BY DEF Works, IsOnPath, ToCommit
<1>3. IsSearch(f, c.id)
  BY DEF SearchChild, NewKids
<1>4. \A j \in Key : Lookup(f, c.id, j) = Updated(f, root, w, j)
  BY <1>1 DEF SearchChild, CopyFor
<1>5. At(v) = "commitRoot"
  BY <1>2 DEF At
<1>6. IsLevel(f, root) => IsLevel(f, c.id)
  BY <1>1 DEF SearchChild, LevelChild, IsLevel, NewKids
<1> QED BY <1>2, <1>3, <1>4, <1>5, <1>6 DEF SearchDone, Updated

LEMMA GoUpSearch ==
  ASSUME NEW f, FileOK(f), NEW root, IsTree(f, root), IsSearch(f, root),
         NEW w, IsOnPath(f, root, w), NEW c, IsChild(f, root, w, c), SearchChild(f, w, c), NEW v,
         v = IF w.above # <<>> THEN ToParent(w, c)
             ELSE IF c.key # None THEN ToRoot(w, c) ELSE ToCommit(w, c)
  PROVE  SearchWork(f, root, v)
<1>1. CASE w.above # <<>>
  BY <1>1, ParentSearch DEF SearchWork
<1>2. CASE w.above = <<>> /\ c.key # None
  BY <1>2, RootSearch DEF SearchWork
<1>3. CASE w.above = <<>> /\ c.key = None
  <2>1. SearchDone(f, root, v) /\ At(v) = "commitRoot"
    BY <1>3, DoneSearch
  <2> QED BY <2>1 DEF SearchWork, Upward
<1> QED BY <1>1, <1>2, <1>3

\* What a put in its work has copied stays with the pages that it relies on.
LEMMA SearchKeeps ==
  ASSUME NEW f, NEW g, FileOK(f), FileOK(g), NEW root, IsTree(f, root), NEW w, WorkOK(f, root, w),
         SearchWork(f, root, w), Keeps(f, g, Relied(f, root, w))
  PROVE  SearchWork(g, root, w)
<1>1. Keeps(f, g, TreePages(f, root)) /\ Keeps(f, g, Subs(f, w.node))
  BY DEF Keeps, Relied
<1>2. ASSUME At(w) \in Upward PROVE SearchNode(g, w)
  <2>1. NodeOK(f, root, w) /\ SearchNode(f, w) /\ w \in Works(Ids(f)) /\ AreTrees(f, w.node)
    BY <1>2 DEF WorkOK, SearchWork, NodeOK
  <2> DEFINE o == Replaced(w)
  <2>2. o \in TreePages(f, root)
    <3>1. w.orphans \in Seq(Ids(f)) /\ Len(w.above) \in Nat /\ Len(w.above) < Len(w.orphans)
          /\ DOMAIN w.orphans = 1 .. Len(w.orphans)
      BY <2>1, WorkTypes DEF NodeOK
    <3>2. w.orphans # <<>> /\ Len(w.above) + 1 \in DOMAIN w.orphans
      BY <3>1
    <3>3. w.orphans[1] = root /\ IsChain(f, w.orphans) /\ root \in Ids(f)
      BY <2>1 DEF NodeOK, IsPath, IsTree
    <3> QED BY <3>1, <3>2, <3>3, ChainWithin DEF Replaced
  <2> HIDE DEF o
  <2>3. IsTree(f, o) /\ Keeps(f, g, TreePages(f, o))
    <3>1. IsTree(f, o) /\ TreePages(f, o) \subseteq TreePages(f, root)
      BY <2>2, TreeBelow
    <3> QED BY <1>1, <3>1 DEF Keeps
  <2>4. KeysUnder(g, o) = KeysUnder(f, o) /\ \A j : Lookup(g, o, j) = Lookup(f, o, j)
    BY <2>3, KeysKeep, LookupKeeps
  <2>5. \A k \in KidsOf(w.node) : IsTree(f, k) /\ Keeps(f, g, TreePages(f, k))
    BY <1>1, <2>1 DEF AreTrees, Keeps, Subs
  <2>6. \A k \in KidsOf(w.node) : KeysUnder(g, k) = KeysUnder(f, k) /\ (IsSearch(g, k) <=> IsSearch(f, k))
    BY <2>5, KeysKeep, SearchKeep
  <2>7. (Routes(g, w.node) <=> Routes(f, w.node)) /\ NodeKeys(g, w.node) = NodeKeys(f, w.node)
    BY <2>6, RoutesKeep
  <2>8. \A j \in Key : Find(g, w.node, j) = Find(f, w.node, j)
    <3> TAKE j \in Key
    <3>1. CASE w.node.kind = "leaf"
      BY <3>1 DEF Find
    <3>2. CASE w.node.kind # "leaf"
      <4> DEFINE q == ChildFor(w.node, j)
      <4>1. w.node \in InternalNodes(Ids(f)) /\ w.node.kind = "internal"
        <5>1. w.node \in TreeNodes(Ids(f)) \cup {Blank} /\ w.node # Blank
          BY <2>1, WorkTypes DEF NodeOK
        <5> QED BY <3>2, <5>1, KindsDiffer DEF TreeNodes
      <4>2. q \in KidsOf(w.node)
        BY <4>1, ChildForIs DEF KidsOf
      <4> HIDE DEF q
      <4>3. Lookup(g, q, j) = Lookup(f, q, j)
        BY <2>5, <4>2, LookupKeeps
      <4> QED BY <3>2, <4>3 DEF Find, q
    <3> QED BY <3>1, <3>2
  <2>9. \A j \in Key : Updated(g, o, w, j) = Updated(f, o, w, j)
    BY <2>4 DEF Updated
  <2>10. LevelNode(g, w)
    <3>1. \A h : IsTall(g, o, h) <=> IsTall(f, o, h)
      BY <2>3, TallKeeps
    <3>2. \A k \in KidsOf(w.node) : \A h : IsTall(g, k, h) <=> IsTall(f, k, h)
      BY <2>5, TallKeeps
    <3>3. \A h : TallNode(g, w.node, h) <=> TallNode(f, w.node, h)
      BY <3>2 DEF TallNode
    <3>4. LevelNode(f, w)
      BY <2>1 DEF SearchNode
    <3> QED BY <3>1, <3>3, <3>4 DEF LevelNode, o
  <2> QED BY <2>1, <2>4, <2>6, <2>7, <2>8, <2>9, <2>10 DEF SearchNode, o
<1>3. ASSUME At(w) = "commitRoot" PROVE SearchDone(g, root, w)
  <2>1. IsTree(f, w.new) /\ SearchDone(f, root, w) /\ Keeps(f, g, TreePages(f, w.new))
    BY <1>3 DEF WorkOK, DoneOK, SearchWork, Keeps, Relied
  <2>2. IsSearch(g, w.new) /\ \A j : Lookup(g, w.new, j) = Lookup(f, w.new, j)
    BY <2>1, SearchKeep, LookupKeeps DEF SearchDone
  <2>3. \A j : Lookup(g, root, j) = Lookup(f, root, j)
    BY <1>1, LookupKeeps
  <2>4. (IsLevel(g, w.new) <=> IsLevel(f, w.new)) /\ (IsLevel(g, root) <=> IsLevel(f, root))
    BY <1>1, <2>1, TallKeeps
  <2> QED BY <2>1, <2>2, <2>3, <2>4 DEF SearchDone, Updated
<1> QED BY <1>2, <1>3 DEF SearchWork

-----------------------------------------------------------------------------
(* A step leaves the trees that are in use as they are.                    *)

LEMMA InUseStays ==
  ASSUME BothInv, [Next]_vars
  PROVE  /\ BothInv' /\ FileOK(file) /\ FileOK(file') /\ DOMAIN file \subseteq DOMAIN file'
         /\ Keeps(file, file', Ids(file) \ (FreePages \cup HandPages))
<1>1. BothInv' /\ [PV!Next]_PV!vars
  BY BothNext, CowMoves, StepsOfPages DEF BothInv
<1>2. FileOK(file) /\ FileOK(file')
  BY <1>1 DEF BothInv, CowInv
<1>3. CASE UNCHANGED PV!vars
  <2>1. file' = file
    BY <1>3 DEF PV!vars
  <2> QED BY <1>1, <1>2, <2>1 DEF Keeps, Ids
<1>4. CASE PV!Next
  <2>1. /\ DOMAIN file \subseteq DOMAIN file'
        /\ \A p \in DOMAIN file \ (FreePages \cup HandPages \cup {0}) : file'[p] = file[p]
    <3>1. CASE PV!Create
      BY <3>1 DEF PV!Create, PV!WritesTo
    <3>2. CASE PV!Allocate
      BY <3>2 DEF PV!Allocate, PV!WritesTo
    <3>3. CASE PV!Write
      BY <3>3 DEF PV!Write, PV!WritesTo
    <3>4. CASE PV!Release
      BY <3>4 DEF PV!Release, PV!WritesTo
    <3>5. CASE PV!Publish
      BY <3>5 DEF PV!Publish, PV!WritesTo
    <3>6. CASE PV!Raise \/ PV!Commit \/ PV!Retire \/ PV!Reclaim \/ PV!Crash
      BY <3>6 DEF PV!Raise, PV!Commit, PV!Retire, PV!Reclaim, PV!Crash
    <3>7. CASE \E r \in Reader : PV!Pin(r) \/ PV!ReadRoot(r) \/ PV!Walk(r) \/ PV!Unpin(r)
      BY <3>7 DEF PV!Pin, PV!ReadRoot, PV!Walk, PV!Unpin
    <3> QED BY <1>4, <3>1, <3>2, <3>3, <3>4, <3>5, <3>6, <3>7 DEF PV!Next
  <2> QED BY <1>1, <1>2, <2>1 DEF Keeps, Ids
<1> QED BY <1>1, <1>3, <1>4

\* A get finds in the tree after the step what it finds before it.
SameTree(c) ==
    /\ IsTree(file, c) /\ IsTree(file', c) /\ (IsSearch(file, c) => IsSearch(file', c))
    /\ (IsLevel(file, c) => IsLevel(file', c))
    /\ \A k : Lookup(file', c, k) = Lookup(file, c, k)

LEMMA TreeStays ==
  ASSUME BothInv, [Next]_vars, NEW c, IsTree(file, c),
         TreePages(file, c) \cap (FreePages \cup HandPages) = {}
  PROVE  SameTree(c)
<1>1. FileOK(file) /\ FileOK(file') /\ Keeps(file, file', Ids(file) \ (FreePages \cup HandPages))
  BY InUseStays
<1>2. TreePages(file, c) \subseteq Ids(file)
  BY <1>1, TreeBasics DEF IsTree
<1>3. Keeps(file, file', TreePages(file, c))
  BY <1>1, <1>2 DEF Keeps
<1>4. IsTree(file', c)
  BY <1>1, <1>3, TreeKeeps
<1>5. IsSearch(file, c) => IsSearch(file', c)
  BY <1>1, <1>3, SearchKeep
<1>6. \A k : Lookup(file', c, k) = Lookup(file, c, k)
  BY <1>1, <1>3, LookupKeeps
<1>7. IsLevel(file, c) => IsLevel(file', c)
  BY <1>1, <1>3, TallKeeps
<1> QED BY <1>4, <1>5, <1>6, <1>7 DEF SameTree

\* The trees of memory, of the file and of the gets.
LEMMA TreesInUse ==
  ASSUME BothInv, [Next]_vars
  PROVE  /\ writer.pc # "closed" => SameTree(header.root)
         /\ file[0].kind = "header" => SameTree(file[0].root)
         /\ \A r \in Reader : reader[r].pc = "walking" => SameTree(reader[r].page)
<1>1. TreeInv /\ PV!PageInv
  BY DEF BothInv, CowInv
<1>2. writer.pc # "closed" =>
        IsTree(file, header.root) /\ TreePages(file, header.root) \cap (FreePages \cup HandPages) = {}
  BY <1>1, Apart DEF TreeInv, TreeInMemory
<1>3. file[0].kind = "header" =>
        IsTree(file, file[0].root) /\ TreePages(file, file[0].root) \cap (FreePages \cup HandPages) = {}
  BY <1>1, Apart DEF TreeInv, TreeInFile
<1>4. ASSUME NEW r \in Reader, reader[r].pc = "walking" PROVE SameTree(reader[r].page)
  <2>1. ReadingPages[r] = TreePages(file, reader[r].page)
    BY <1>4 DEF ReadingPages
  <2>2. /\ IsTree(file, reader[r].page)
        /\ TreePages(file, reader[r].page) \cap (FreePages \cup HandPages) = {}
    BY <1>1, <1>4, <2>1, Apart DEF TreeInv
  <2> QED BY <2>2, TreeStays
<1> QED BY <1>2, <1>3, <1>4, TreeStays

-----------------------------------------------------------------------------
(* The steps of put, as far as a caller can tell.                          *)

\* put is still to commit, or has committed, as before.
GoesOn ==
    /\ writer.pc \in Places \ {"publishRoot"} /\ writer'.pc \in Places \ {"publishRoot"}
    /\ writer'.key = writer.key /\ writer'.value = writer.value
    /\ writer'.committed = writer.committed
    /\ header'.root = header.root /\ reader' = reader

\* put raises before it commits, and has written to none of the pages in use.
Raises ==
    /\ writer.pc \in Upward \cup {"descend"} /\ ~writer.committed /\ writer' = NoThread
    /\ UNCHANGED <<file, header, reader>>

\* put returns after it has committed.
Returns ==
    /\ writer.pc \in Places \ {"publishRoot"} /\ writer.committed /\ writer' = NoThread
    /\ header'.root = header.root /\ reader' = reader

LEMMA GoUpFields ==
  ASSUME NEW P, writer \in Works(P), NEW c, GoUp(c)
  PROVE  /\ writer'.pc \in {"allocate", "allocateRoot", "commitRoot"} /\ writer'.key = writer.key
         /\ writer'.value = writer.value /\ writer'.committed = writer.committed
BY DEF GoUp, Works

Relisted(w, pc, list) == [w EXCEPT !.pc = pc, !.list = list]

LEMMA RelistedFields ==
  ASSUME NEW P, NEW w \in Works(P), NEW pc, NEW list
  PROVE  /\ Relisted(w, pc, list).pc = pc /\ Relisted(w, pc, list).key = w.key
         /\ Relisted(w, pc, list).value = w.value /\ Relisted(w, pc, list).committed = w.committed
BY DEF Works, Relisted

\* The head of the list is of no interest.
LEMMA ListKinds ==
  ASSUME CowInv, TakeFreeList \/ AddFreePage \/ WriteFreeList \/ PublishHead
  PROVE  GoesOn
<1>1. writer.pc \in {"addFree", "addPage", "publishHead"} /\ reader' = reader
  BY DEF TakeFreeList, AddFreePage, WriteFreeList, PublishHead
<1>2. writer.pc \in Places \ {"publishRoot"}
  BY <1>1 DEF Places
<1>3. writer \in Works(Ids(file)) /\ header \in [root : Ids(file), head : Ids(file) \cup {0}]
  BY <1>2, Working
<1>4. header'.root = header.root
  BY <1>3 DEF TakeFreeList, AddFreePage, WriteFreeList, PublishHead
<1>5. /\ writer'.pc \in Places \ {"publishRoot"} /\ writer'.key = writer.key
      /\ writer'.value = writer.value /\ writer'.committed = writer.committed
  <2>1. CASE TakeFreeList
    <3>1. "addPage" \in Places \ {"publishRoot"}
      BY DEF Places
    <3>2. PICK list : writer' = Relisted(writer, "addPage", list)
      BY <2>1 DEF TakeFreeList, Relisted
    <3>3. /\ writer'.pc = "addPage" /\ writer'.key = writer.key
          /\ writer'.value = writer.value /\ writer'.committed = writer.committed
      BY <1>3, <3>2, RelistedFields
    <3> QED BY <3>1, <3>3
  <2>2. CASE AddFreePage
    BY <1>3, <2>2 DEF AddFreePage, Works, Places
  <2>3. CASE WriteFreeList
    <3>1. "publishHead" \in Places \ {"publishRoot"}
      BY DEF Places
    <3>2. writer' = Relisted(writer, "publishHead", NoList)
      BY <2>3 DEF WriteFreeList, Relisted
    <3>3. /\ writer'.pc = "publishHead" /\ writer'.key = writer.key
          /\ writer'.value = writer.value /\ writer'.committed = writer.committed
      BY <1>3, <3>2, RelistedFields
    <3> QED BY <3>1, <3>3
  <2>4. CASE PublishHead
    BY <1>3, <2>4 DEF PublishHead, Works, Places
  <2> QED BY <2>1, <2>2, <2>3, <2>4
<1> QED BY <1>1, <1>2, <1>4, <1>5 DEF GoesOn

LEMMA CopyKinds ==
  ASSUME CowInv, Descend \/ WriteNode \/ WriteLeft \/ WriteRight \/ WriteRoot
  PROVE  GoesOn \/ Raises
<1>1. /\ writer.pc \in Upward \cup {"descend"} /\ reader' = reader /\ header' = header
  BY DEF Descend, WriteNode, WriteLeft, WriteRight, WriteRoot, Upward
<1>2. writer.pc \in Places \ {"publishRoot"}
  BY <1>1 DEF Places, Upward
<1>3. FileOK(file) /\ writer \in Works(Ids(file)) /\ WorkOK(file, header.root, writer)
  BY <1>2, Working
<1>4. ~writer.committed
  BY <1>1, <1>3 DEF WorkOK, Behind, At, Upward
<1>5. \/ writer' = NoThread /\ file' = file
      \/ /\ writer'.pc \in Places \ {"publishRoot"} /\ writer'.key = writer.key
         /\ writer'.value = writer.value /\ writer'.committed = writer.committed
  <2>1. CASE Descend
    BY <1>3, <2>1 DEF Descend, PutRaises, Works, Places
  <2>2. CASE WriteNode
    BY <1>3, <2>2, GoUpFields DEF WriteNode, Places
  <2>3. CASE WriteLeft
    BY <1>3, <2>3 DEF WriteLeft, PutRaises, Works, Places
  <2>4. CASE WriteRight
    BY <1>3, <2>4, GoUpFields DEF WriteRight, PutRaises, Places
  <2>5. CASE WriteRoot
    BY <1>3, <2>5 DEF WriteRoot, PutRaises, Works, Places
  <2> QED BY <2>1, <2>2, <2>3, <2>4, <2>5
<1> QED BY <1>1, <1>2, <1>4, <1>5 DEF GoesOn, Raises

LEMMA AllocateKinds ==
  ASSUME CowInv, AllocateNode \/ SplitNode
  PROVE  GoesOn \/ Raises
<1>1. writer.pc \in {"allocate", "allocateRoot", "write"} /\ reader' = reader
  BY DEF AllocateNode, SplitNode
<1>2. writer.pc \in Places \ {"publishRoot"} /\ writer.pc \in Upward
  BY <1>1 DEF Places, Upward
<1>3. /\ FileOK(file) /\ writer \in Works(Ids(file)) /\ WorkOK(file, header.root, writer)
      /\ header \in [root : Ids(file), head : Ids(file) \cup {0}]
  BY <1>2, Working
<1>4. ~writer.committed
  BY <1>2, <1>3, OnPath
<1>5. ASSUME NEW w, NEW a, NEW pc \in {"write", "writeRoot", "writeLeft"}, GoOn(w, a, pc),
             \E id : w = [writer EXCEPT !.new = id] \/ w = [writer EXCEPT !.right = id],
             header' = [header EXCEPT !.head = a.head]
      PROVE  GoesOn
  <2>1. /\ w.key = writer.key /\ w.value = writer.value /\ w.committed = writer.committed
        /\ \E id : \/ w = [writer EXCEPT !.new = id] \/ w = [writer EXCEPT !.right = id]
    BY <1>3, <1>5 DEF Works
  <2>2. /\ writer'.key = w.key /\ writer'.value = w.value /\ writer'.committed = w.committed
        /\ writer'.pc \in {"sync", pc}
    BY <1>3, <1>5 DEF GoOn, Works
  <2>3. header'.root = header.root
    BY <1>3, <1>5
  <2> QED BY <1>1, <1>2, <2>1, <2>2, <2>3 DEF GoesOn, Places
<1>6. CASE AllocateNode
  <2> DEFINE a == AllocatePage(file, header.head)
             w == [writer EXCEPT !.new = a.id]
             pc == IF writer.pc = "allocate" THEN "write" ELSE "writeRoot"
  <2>1. GoOn(w, a, pc) /\ header' = [header EXCEPT !.head = a.head] /\ pc \in {"write", "writeRoot", "writeLeft"}
    BY <1>6 DEF AllocateNode
  <2>2. \E id : w = [writer EXCEPT !.new = id] \/ w = [writer EXCEPT !.right = id]
    OBVIOUS
  <2> HIDE DEF a, w, pc
  <2> QED BY <1>5, <2>1, <2>2
<1>7. CASE SplitNode
  <2>1. CASE SplitHasNoKey(Base(writer.node), EntrySizesOf(writer.node))
    BY <1>1, <1>2, <1>4, <1>7, <2>1 DEF SplitNode, PutRaises, Raises
  <2>2. CASE ~SplitHasNoKey(Base(writer.node), EntrySizesOf(writer.node))
    <3> DEFINE a == AllocatePage(file, header.head)
               w == [writer EXCEPT !.right = a.id]
    <3>1. GoOn(w, a, "writeLeft") /\ header' = [header EXCEPT !.head = a.head]
      BY <1>7, <2>2 DEF SplitNode
    <3>2. \E id : w = [writer EXCEPT !.new = id] \/ w = [writer EXCEPT !.right = id]
      OBVIOUS
    <3> HIDE DEF a, w
    <3> QED BY <1>5, <3>1, <3>2
  <2> QED BY <2>1, <2>2
<1> QED BY <1>6, <1>7

LEMMA LastKinds ==
  ASSUME CowInv, SyncHead \/ CommitWrite \/ ReclaimAtOnce
  PROVE  GoesOn \/ Returns
<1>1. /\ writer.pc \in {"sync", "commitWrite", "reclaim"} /\ reader' = reader /\ header' = header
  BY DEF SyncHead, CommitWrite, ReclaimAtOnce
<1>2. writer.pc \in Places \ {"publishRoot"}
  BY <1>1 DEF Places
<1>3. writer \in Works(Ids(file)) /\ WorkOK(file, header.root, writer)
  BY <1>2, Working
<1>4. CASE SyncHead
  <2>1. writer.then \in {"idle", "write", "writeRoot", "writeLeft"} /\ (writer.then = "idle" => writer.committed)
    BY <1>3, <1>4 DEF SyncHead, WorkOK, At
  <2>2. CASE writer.then = "idle"
    BY <1>1, <1>2, <1>4, <2>1, <2>2 DEF SyncHead, Returns
  <2>3. CASE writer.then # "idle"
    <3>1. writer' = [writer EXCEPT !.pc = writer.then, !.then = None]
      BY <1>4, <2>3 DEF SyncHead
    <3>2. writer'.pc = writer.then /\ writer'.key = writer.key /\ writer'.value = writer.value
          /\ writer'.committed = writer.committed
      BY <1>3, <3>1 DEF Works
    <3> QED BY <1>1, <1>2, <2>1, <2>3, <3>2 DEF GoesOn, Places
  <2> QED BY <2>2, <2>3
<1>5. CASE CommitWrite
  <2>1. /\ writer'.pc = "reclaim" /\ writer'.key = writer.key /\ writer'.value = writer.value
        /\ writer'.committed = writer.committed
    BY <1>3, <1>5 DEF CommitWrite, Works
  <2> QED BY <1>1, <1>2, <2>1 DEF GoesOn, Places
<1>6. CASE ReclaimAtOnce
  <2>1. writer.committed
    BY <1>3, <1>6 DEF ReclaimAtOnce, WorkOK, At
  <2>2. CASE Reclaimable = <<>>
    BY <1>1, <1>2, <1>6, <2>1, <2>2 DEF ReclaimAtOnce, Returns
  <2>3. CASE Reclaimable # <<>>
    <3>1. /\ writer'.pc = "addFree" /\ writer'.key = writer.key /\ writer'.value = writer.value
          /\ writer'.committed = writer.committed
      BY <1>3, <1>6, <2>3 DEF ReclaimAtOnce, Works
    <3> QED BY <1>1, <1>2, <3>1 DEF GoesOn, Places
  <2> QED BY <2>2, <2>3
<1> QED BY <1>4, <1>5, <1>6

LEMMA PutKinds ==
  ASSUME CowInv, PutStep
  PROVE  \/ \E k \in Key, v \in Value : StartPut(k, v)
         \/ GoesOn \/ Raises \/ Returns \/ CommitRoot \/ PublishRoot
BY ListKinds, CopyKinds, AllocateKinds, LastKinds DEF PutStep

-----------------------------------------------------------------------------
(* The trees of memory and of the file are search trees, and so is what    *)
(* put makes of its copies.                                                *)

SearchInv ==
    /\ writer.pc # "closed" => IsSearch(file, header.root) /\ IsLevel(file, header.root)
    /\ file[0].kind = "header" => IsSearch(file, file[0].root) /\ IsLevel(file, file[0].root)
    /\ writer \notin NoWork => SearchWork(file, header.root, writer)
    /\ writer.pc = "createHeader" => file[header.root] = Leaf(<<>>, <<>>)

\* put has the same copy to write as before.
LEMMA SameSearch ==
  ASSUME NEW f, NEW root, NEW w, SearchNode(f, w), NEW v, At(v) \in Upward,
         v.orphans = w.orphans, v.above = w.above, v.key = w.key, v.value = w.value, v.node = w.node
  PROVE  SearchWork(f, root, v)
<1>1. Replaced(v) = Replaced(w)
  BY DEF Replaced
<1>2. \A j : Updated(f, Replaced(v), v, j) = Updated(f, Replaced(w), w, j)
  BY <1>1 DEF Updated
<1>3. LevelNode(f, v)
  BY <1>1 DEF SearchNode, LevelNode
<1>4. SearchNode(f, v)
  BY <1>1, <1>2, <1>3 DEF SearchNode
<1> QED BY <1>4 DEF SearchWork, Upward

LEMMA DescendSearch ==
  ASSUME BothInv, SearchInv, Descend
  PROVE  writer' = NoThread \/ SearchWork(file', header'.root, writer')
<1> DEFINE n == ReadPage(file, writer.next)
           root == header.root
           v == [writer EXCEPT !.orphans = Append(writer.orphans, writer.next), !.pc = "allocate",
                               !.node = UpsertLeaf(n, writer.key, writer.value)]
<1>1. writer.pc = "descend" /\ UNCHANGED <<file, header>> /\ CowInv
  BY DEF Descend, BothInv
<1>2. writer.pc \in Places /\ writer.pc # "closed"
  BY <1>1 DEF Places
<1>3. /\ FileOK(file) /\ WorkOK(file, root, writer) /\ writer \in Works(Ids(file)) /\ IsTree(file, root)
      /\ IsSearch(file, root)
  BY <1>1, <1>2, Working DEF SearchInv
<1>4. DownOK(file, root, writer)
  <2>1. At(writer) = "descend" /\ ~writer.committed
    BY <1>1, <1>3 DEF WorkOK, At, Behind
  <2> QED BY <1>3, <2>1 DEF WorkOK, Downward
<1>5. writer.next \in DOMAIN file
  BY <1>3, WorkTypes DEF Ids
<1>6. CASE n.kind = "leaf"
  <2>1. writer' = v
    BY <1>3, <1>6 DEF Descend, Works
  <2>2. n = file[writer.next]
    BY <1>5 DEF ReadPage
  <2>3. SearchNode(file, v)
    <3> HIDE DEF n, root
    <3> QED BY <1>3, <1>4, <1>6, <2>2, LeafSearch
  <2>4. At(v) = "allocate"
    BY <1>3 DEF Works, At
  <2> HIDE DEF v
  <2>5. SearchWork(file, root, v)
    BY <2>3, <2>4 DEF SearchWork
  <2> QED BY <1>1, <2>1, <2>5
<1>7. CASE n.kind = "internal"
  <2>1. writer'.pc = "descend"
    BY <1>1, <1>3, <1>7 DEF Descend, Works
  <2> QED BY <2>1 DEF SearchWork, At, Upward
<1>8. CASE n.kind \notin {"leaf", "internal"}
  BY <1>8 DEF Descend, PutRaises
<1> QED BY <1>6, <1>7, <1>8

LEMMA AllocateSearch ==
  ASSUME BothInv, SearchInv, AllocateNode \/ SplitNode
  PROVE  writer' = NoThread \/ SearchWork(file', header'.root, writer')
<1> DEFINE a == AllocatePage(file, header.head)
           root == header.root
<1>1. writer.pc \in {"allocate", "allocateRoot", "write"} /\ CowInv /\ PV!PageInv
  BY DEF AllocateNode, SplitNode, BothInv
<1>2. writer.pc \in Places /\ writer.pc \in Upward
  BY <1>1 DEF Places, Upward
<1>3. /\ FileOK(file) /\ WorkOK(file, root, writer) /\ writer \in Works(Ids(file)) /\ IsTree(file, root)
      /\ writer \notin NoWork
  <2>1. WriterInv
    BY <1>1 DEF CowInv
  <2> QED BY <1>1, <1>2, <2>1, Working, Situation
<1>4. SearchWork(file, root, writer)
  BY <1>3 DEF SearchInv
<1> HIDE DEF a
<1>5. /\ FileOK(a.file) /\ IsTree(a.file, root) /\ WorkOK(a.file, root, writer)
      /\ Keeps(file, a.file, Relied(file, root, writer))
      /\ a.id \in Ids(a.file)
  BY <1>1, Allocated DEF a
<1>6. SearchWork(a.file, root, writer)
  BY <1>3, <1>4, <1>5, SearchKeeps
<1>7. SearchNode(a.file, writer) /\ writer \in Works(Ids(a.file))
  <2>1. At(writer) \in Upward
    BY <1>2, <1>3, OnPath
  <2> QED BY <1>5, <1>6, <2>1 DEF SearchWork, WorkOK
<1>8. ASSUME NEW w \in Works(Ids(a.file)), NEW pc \in {"write", "writeRoot", "writeLeft"}, GoOn(w, a, pc),
             w.orphans = writer.orphans, w.above = writer.above, w.key = writer.key,
             w.value = writer.value, w.node = writer.node, file' = a.file
      PROVE  SearchWork(file', header'.root, writer')
  <2>1. /\ At(writer') = pc /\ writer'.orphans = w.orphans /\ writer'.above = w.above
        /\ writer'.key = w.key /\ writer'.value = w.value /\ writer'.node = w.node
    BY <1>8, GoOnIs
  <2>2. At(writer') \in Upward
    BY <2>1 DEF Upward
  <2> QED BY <1>7, <1>8, <2>1, <2>2, SameSearch
<1>9. CASE AllocateNode
  <2> DEFINE w == [writer EXCEPT !.new = a.id]
             pc == IF writer.pc = "allocate" THEN "write" ELSE "writeRoot"
  <2>1. GoOn(w, a, pc) /\ file' = a.file /\ pc \in {"write", "writeRoot", "writeLeft"}
    BY <1>9 DEF AllocateNode, a
  <2>2. /\ w \in Works(Ids(a.file)) /\ w.orphans = writer.orphans /\ w.above = writer.above
        /\ w.key = writer.key /\ w.value = writer.value /\ w.node = writer.node
    BY <1>5, <1>7 DEF Works
  <2> HIDE DEF w, pc
  <2> QED BY <1>8, <2>1, <2>2
<1>10. CASE SplitNode
  <2>1. CASE SplitHasNoKey(Base(writer.node), EntrySizesOf(writer.node))
    BY <1>10, <2>1 DEF SplitNode, PutRaises
  <2>2. CASE ~SplitHasNoKey(Base(writer.node), EntrySizesOf(writer.node))
    <3> DEFINE w == [writer EXCEPT !.right = a.id]
    <3>1. GoOn(w, a, "writeLeft") /\ file' = a.file
      BY <1>10, <2>2 DEF SplitNode, a
    <3>2. /\ w \in Works(Ids(a.file)) /\ w.orphans = writer.orphans /\ w.above = writer.above
          /\ w.key = writer.key /\ w.value = writer.value /\ w.node = writer.node
      BY <1>5, <1>7 DEF Works
    <3> HIDE DEF w
    <3> QED BY <1>8, <3>1, <3>2
  <2> QED BY <2>1, <2>2
<1> QED BY <1>9, <1>10

\* put has written a page of its own.
LEMMA CopySearch ==
  ASSUME BothInv, SearchInv, writer.pc \in {"write", "writeRoot", "writeLeft", "writeRight"},
         NEW n \in TreeNodes(Ids(file)), ~TooLarge(n),
         NEW p, p = IF writer.pc = "writeRight" THEN writer.right ELSE writer.new,
         p \in Ids(file), file' = [file EXCEPT ![p] = n]
  PROVE  /\ FileOK(file') /\ file'[p] = n /\ IsTree(file', header.root)
         /\ IsSearch(file', header.root) /\ WorkOK(file', header.root, writer)
         /\ SearchNode(file', writer)
<1> DEFINE root == header.root
<1>1. CowInv /\ PV!PageInv /\ writer.pc \in Places /\ writer.pc \in Upward /\ writer.pc # "closed"
  BY DEF BothInv, Places, Upward
<1>2. /\ FileOK(file) /\ WorkOK(file, root, writer) /\ IsTree(file, root) /\ writer \notin NoWork
  <2>1. WriterInv
    BY <1>1 DEF CowInv
  <2> QED BY <1>1, <2>1, Working, Situation
<1>3. Writes(file, p, n, file')
  BY DEF Writes, Ids
<1>4. /\ FileOK(file') /\ file'[p] = n /\ IsTree(file', root) /\ WorkOK(file', root, writer)
      /\ Keeps(file, file', Relied(file, root, writer))
  BY <1>1, <1>3, CopyWrite
<1>5. SearchWork(file', root, writer)
  <2>1. SearchWork(file, root, writer)
    BY <1>2 DEF SearchInv
  <2> QED BY <1>2, <1>4, <2>1, SearchKeeps
<1>6. SearchNode(file', writer)
  <2>1. At(writer) \in Upward
    BY <1>1, <1>2, OnPath
  <2> QED BY <1>5, <2>1 DEF SearchWork
<1>7. IsSearch(file', root)
  <2>1. IsSearch(file, root)
    BY <1>1 DEF SearchInv
  <2>2. Keeps(file, file', TreePages(file, root))
    BY <1>4 DEF Keeps, Relied
  <2> QED BY <1>2, <1>4, <2>1, <2>2, SearchKeep
<1> QED BY <1>4, <1>6, <1>7

\* What put has to write, and where.
LEMMA CopyPage ==
  ASSUME CowInv, writer.pc \in {"write", "writeRoot", "writeLeft", "writeRight"}
  PROVE  /\ writer \in Works(Ids(file)) /\ writer.node \in TreeNodes(Ids(file)) /\ writer.new \in Ids(file)
         /\ writer.pc = "writeLeft" => LeftNode(writer.node) \in TreeNodes(Ids(file))
         /\ writer.pc = "writeRight" => RightNode(writer.node) \in TreeNodes(Ids(file)) /\ writer.right \in Ids(file)
         /\ writer.pc = "writeRoot" => writer.above = <<>>
<1>1. writer.pc \in Places /\ writer.pc \in Upward
  BY DEF Places, Upward
<1>2. FileOK(file) /\ WorkOK(file, header.root, writer) /\ writer \in Works(Ids(file))
  BY <1>1, Working
<1>3. writer.node \in TreeNodes(Ids(file)) /\ CopyOK(file, writer) /\ At(writer) = writer.pc
  BY <1>1, <1>2, OnPath
<1>4. writer.new \in Ids(file) \cup {0} /\ writer.right \in Ids(file) \cup {0}
  BY <1>2, WorkTypes
<1>5. writer.new # 0 /\ (writer.pc = "writeRight" => writer.right # 0)
  BY <1>3 DEF CopyOK
<1>6. writer.pc \in {"writeLeft", "writeRight"} =>
        LeftNode(writer.node) \in TreeNodes(Ids(file)) /\ RightNode(writer.node) \in TreeNodes(Ids(file))
  BY <1>3, SplitIs DEF CopyOK
<1>7. writer.pc = "writeRoot" => writer.above = <<>>
  BY <1>3 DEF CopyOK
<1> QED BY <1>2, <1>3, <1>4, <1>5, <1>6, <1>7

\* ... and goes up.
LEMMA RiseSearch ==
  ASSUME NEW f, FileOK(f), NEW root, IsTree(f, root), IsSearch(f, root),
         IsOnPath(f, root, writer), NEW c, IsChild(f, root, writer, c), SearchChild(f, writer, c), GoUp(c)
  PROVE  SearchWork(f, root, writer')
<1>1. writer \in Works(Ids(f))
  BY DEF IsOnPath
<1>2. writer' = IF writer.above # <<>> THEN ToParent(writer, c)
                ELSE IF c.key # None THEN ToRoot(writer, c) ELSE ToCommit(writer, c)
  BY <1>1 DEF GoUp, ToParent, ToRoot, ToCommit, Works
<1> QED BY <1>2, GoUpSearch

LEMMA WriteSearch ==
  ASSUME BothInv, SearchInv, WriteNode \/ WriteLeft \/ WriteRight \/ WriteRoot
  PROVE  writer' = NoThread \/ SearchWork(file', header'.root, writer')
<1> DEFINE root == header.root
<1>1. /\ writer.pc \in {"write", "writeRoot", "writeLeft", "writeRight"} /\ header' = header /\ CowInv
  BY DEF WriteNode, WriteLeft, WriteRight, WriteRoot, BothInv
<1>2. /\ writer \in Works(Ids(file)) /\ writer.node \in TreeNodes(Ids(file)) /\ writer.new \in Ids(file)
      /\ writer.pc = "writeLeft" => LeftNode(writer.node) \in TreeNodes(Ids(file))
      /\ writer.pc = "writeRight" => RightNode(writer.node) \in TreeNodes(Ids(file)) /\ writer.right \in Ids(file)
      /\ writer.pc = "writeRoot" => writer.above = <<>>
  BY <1>1, CopyPage
<1>3. CASE WriteNode
  <2> DEFINE c == Whole(writer.new)
  <2>1. writer.pc = "write" /\ ~TooLarge(writer.node) /\ file' = [file EXCEPT ![writer.new] = writer.node] /\ GoUp(c)
    BY <1>3 DEF WriteNode
  <2> HIDE DEF root
  <2>2. /\ FileOK(file') /\ file'[writer.new] = writer.node /\ IsTree(file', root) /\ IsSearch(file', root)
        /\ WorkOK(file', root, writer) /\ SearchNode(file', writer)
    BY <1>1, <1>2, <2>1, CopySearch DEF root
  <2>3. IsChild(file', root, writer, c) /\ IsOnPath(file', root, writer)
    BY <2>1, <2>2, WholeIs
  <2>4. SearchChild(file', writer, c)
    BY <2>1, <2>2, WholeSearch
  <2> HIDE DEF c
  <2>5. SearchWork(file', root, writer')
    BY <2>1, <2>2, <2>3, <2>4, RiseSearch
  <2> QED BY <1>1, <2>5 DEF root
<1>4. CASE WriteLeft
  <2>1. CASE TooLarge(LeftNode(writer.node))
    BY <1>4, <2>1 DEF WriteLeft, PutRaises
  <2>2. CASE ~TooLarge(LeftNode(writer.node))
    <3>1. /\ writer.pc = "writeLeft" /\ file' = [file EXCEPT ![writer.new] = LeftNode(writer.node)]
          /\ writer' = [writer EXCEPT !.pc = "writeRight"]
      BY <1>4, <2>2 DEF WriteLeft
    <3>2. SearchNode(file', writer)
      BY <1>1, <1>2, <2>2, <3>1, CopySearch
    <3>3. /\ writer'.orphans = writer.orphans /\ writer'.above = writer.above /\ writer'.key = writer.key
          /\ writer'.value = writer.value /\ writer'.node = writer.node /\ writer'.pc = "writeRight"
      BY <1>2, <3>1 DEF Works
    <3>4. At(writer') \in Upward
      BY <3>3 DEF At, Upward
    <3> QED BY <3>2, <3>3, <3>4, SameSearch
  <2> QED BY <2>1, <2>2
<1>5. CASE WriteRight
  <2>1. CASE TooLarge(RightNode(writer.node))
    BY <1>5, <2>1 DEF WriteRight, PutRaises
  <2>2. CASE ~TooLarge(RightNode(writer.node))
    <3> DEFINE c == [id |-> writer.new, key |-> SplitKey(writer.node), right |-> writer.right]
    <3>1. writer.pc = "writeRight" /\ file' = [file EXCEPT ![writer.right] = RightNode(writer.node)] /\ GoUp(c)
      BY <1>5, <2>2 DEF WriteRight
    <3>2. RightNode(writer.node) \in TreeNodes(Ids(file)) /\ writer.right \in Ids(file)
      BY <1>2, <3>1
    <3> HIDE DEF root
    <3>3. /\ FileOK(file') /\ file'[writer.right] = RightNode(writer.node) /\ IsTree(file', root)
          /\ IsSearch(file', root) /\ WorkOK(file', root, writer) /\ SearchNode(file', writer)
      BY <1>1, <2>2, <3>1, <3>2, CopySearch DEF root
    <3>4. IsChild(file', root, writer, c) /\ IsOnPath(file', root, writer)
      BY <3>1, <3>3, HalvesAre
    <3>5. SearchChild(file', writer, c)
      BY <3>1, <3>3, HalvesSearch
    <3> HIDE DEF c
    <3>6. SearchWork(file', root, writer')
      BY <3>1, <3>3, <3>4, <3>5, RiseSearch
    <3> QED BY <1>1, <3>6 DEF root
  <2> QED BY <2>1, <2>2
<1>6. CASE WriteRoot
  <2>1. CASE TooLarge(writer.node)
    BY <1>6, <2>1 DEF WriteRoot, PutRaises
  <2>2. CASE ~TooLarge(writer.node)
    <3> DEFINE c == Whole(writer.new)
    <3>1. /\ writer.pc = "writeRoot" /\ file' = [file EXCEPT ![writer.new] = writer.node]
          /\ writer' = [writer EXCEPT !.pc = "commitRoot", !.node = Blank]
      BY <1>6, <2>2 DEF WriteRoot
    <3>2. writer' = ToCommit(writer, c) /\ c.key = None
      <4>1. [writer EXCEPT !.pc = "commitRoot", !.node = Blank]
               = [writer EXCEPT !.pc = "commitRoot", !.node = Blank, !.new = writer.new]
        BY <1>2 DEF Works
      <4> QED BY <3>1, <4>1 DEF Whole, ToCommit
    <3> HIDE DEF root
    <3>3. /\ FileOK(file') /\ file'[writer.new] = writer.node /\ IsTree(file', root)
          /\ IsSearch(file', root) /\ WorkOK(file', root, writer) /\ SearchNode(file', writer)
      BY <1>1, <1>2, <2>2, <3>1, CopySearch DEF root
    <3>4. IsChild(file', root, writer, c) /\ IsOnPath(file', root, writer)
      BY <3>1, <3>3, WholeIs
    <3>5. SearchChild(file', writer, c)
      BY <3>1, <3>3, WholeSearch
    <3>6. writer.above = <<>>
      BY <1>2, <3>1
    <3> HIDE DEF c
    <3>7. SearchDone(file', root, writer') /\ At(writer') = "commitRoot"
      BY <3>2, <3>3, <3>4, <3>5, <3>6, DoneSearch
    <3>8. SearchWork(file', root, writer')
      BY <3>7 DEF SearchWork, Upward
    <3> QED BY <1>1, <3>8 DEF root
  <2> QED BY <2>1, <2>2
<1> QED BY <1>3, <1>4, <1>5, <1>6

\* Where put has neither a copy to write nor a tree to commit.
LEMMA NoCopy ==
  ASSUME NEW f, NEW root, NEW w, At(w) \notin Upward \cup {"commitRoot"}
  PROVE  SearchWork(f, root, w)
BY DEF SearchWork

LEMMA PutSearch ==
  ASSUME BothInv, SearchInv, PutStep
  PROVE  writer' \in NoWork \/ SearchWork(file', header'.root, writer')
<1>1. CowInv
  BY DEF BothInv
<1>2. ASSUME writer.pc \in Places PROVE writer \in Works(Ids(file)) /\ WorkOK(file, header.root, writer)
  BY <1>1, <1>2, Working
<1>3. CASE \E k \in Key, v \in Value : StartPut(k, v)
  <2>1. writer'.pc \in {"descend", "addFree"}
    BY <1>3 DEF StartPut, Work
  <2>2. At(writer') \notin Upward \cup {"commitRoot"}
    BY <2>1 DEF At, Upward
  <2> QED BY <2>2, NoCopy
<1>4. CASE TakeFreeList \/ AddFreePage \/ WriteFreeList \/ PublishHead
  <2>1. writer.pc \in {"addFree", "addPage", "publishHead"}
    BY <1>4 DEF TakeFreeList, AddFreePage, WriteFreeList, PublishHead
  <2>2. writer \in Works(Ids(file))
    BY <1>2, <2>1 DEF Places
  <2>3. At(writer') \in {"addPage", "publishHead", "descend", "idle"}
    <3>1. CASE TakeFreeList
      BY <2>2, <3>1 DEF TakeFreeList, Works, At
    <3>2. CASE AddFreePage
      BY <2>2, <3>2 DEF AddFreePage, Works, At
    <3>3. CASE WriteFreeList
      BY <2>2, <3>3 DEF WriteFreeList, Works, At
    <3>4. CASE PublishHead
      BY <2>2, <3>4 DEF PublishHead, Works, At
    <3> QED BY <1>4, <3>1, <3>2, <3>3, <3>4
  <2>4. At(writer') \notin Upward \cup {"commitRoot"}
    BY <2>3 DEF Upward
  <2> QED BY <2>4, NoCopy
<1>5. CASE SyncHead
  <2>1. writer.pc = "sync" /\ UNCHANGED <<file, header>>
    BY <1>5 DEF SyncHead
  <2>2. writer \in Works(Ids(file)) /\ WorkOK(file, header.root, writer)
    BY <1>2, <2>1 DEF Places
  <2>3. CASE writer.then = "idle"
    BY <1>5, <2>3 DEF SyncHead, NoWork
  <2>4. CASE writer.then # "idle"
    <3>1. writer.then \in {"write", "writeRoot", "writeLeft"} /\ At(writer) = writer.then
      BY <2>1, <2>2, <2>4 DEF WorkOK, At
    <3>2. writer' = [writer EXCEPT !.pc = writer.then, !.then = None]
      BY <1>5, <2>4 DEF SyncHead
    <3>3. /\ writer'.orphans = writer.orphans /\ writer'.above = writer.above /\ writer'.key = writer.key
          /\ writer'.value = writer.value /\ writer'.node = writer.node /\ writer'.pc = writer.then
      BY <2>2, <3>2 DEF Works
    <3>4. At(writer') \in Upward /\ At(writer) \in Upward
      BY <3>1, <3>3 DEF At, Upward
    <3>5. SearchNode(file, writer)
      <4>1. writer \notin NoWork
        BY <2>1 DEF NoWork, NoThread
      <4> QED BY <3>4, <4>1 DEF SearchInv, SearchWork
    <3> QED BY <2>1, <3>3, <3>4, <3>5, SameSearch
  <2> QED BY <2>3, <2>4
<1>6. CASE Descend
  BY <1>6, DescendSearch DEF NoWork
<1>7. CASE AllocateNode \/ SplitNode
  BY <1>7, AllocateSearch DEF NoWork
<1>8. CASE WriteNode \/ WriteLeft \/ WriteRight \/ WriteRoot
  BY <1>8, WriteSearch DEF NoWork
<1>9. CASE CommitRoot \/ PublishRoot \/ CommitWrite
  <2>1. writer.pc \in {"commitRoot", "publishRoot", "commitWrite"}
    BY <1>9 DEF CommitRoot, PublishRoot, CommitWrite
  <2>2. writer \in Works(Ids(file))
    BY <1>2, <2>1 DEF Places
  <2>3. writer'.pc \in {"publishRoot", "commitWrite", "reclaim"}
    BY <1>9, <2>2 DEF CommitRoot, PublishRoot, CommitWrite, Works
  <2>4. At(writer') \notin Upward \cup {"commitRoot"}
    BY <2>3 DEF At, Upward
  <2> QED BY <2>4, NoCopy
<1>10. CASE ReclaimAtOnce
  <2>1. CASE Reclaimable = <<>>
    BY <1>10, <2>1 DEF ReclaimAtOnce, NoWork
  <2>2. CASE Reclaimable # <<>>
    <3>1. writer \in Works(Ids(file))
      BY <1>2, <1>10 DEF ReclaimAtOnce, Places
    <3>2. writer'.pc = "addFree"
      BY <1>10, <2>2, <3>1 DEF ReclaimAtOnce, Works
    <3>3. At(writer') \notin Upward \cup {"commitRoot"}
      BY <3>2 DEF At, Upward
    <3> QED BY <3>3, NoCopy
  <2> QED BY <2>1, <2>2
<1> QED BY <1>3, <1>4, <1>5, <1>6, <1>7, <1>8, <1>9, <1>10 DEF PutStep

\* The root that memory names is another only at the start of a process, and
\* when put commits; and put writes to no page when it commits.
LEMMA RootMoves ==
  ASSUME CowInv, [Next]_vars
  PROVE  /\ \/ writer.pc # "closed" /\ header'.root = header.root /\ writer'.pc # "closed"
            \/ writer'.pc = "closed"
            \/ OpenTree \/ CreateRoot \/ CommitRoot
         /\ writer'.pc \in {"closed", "publishRoot"} => file' = file
         /\ writer'.pc = "createHeader" => CreateRoot \/ UNCHANGED <<file, header, writer>>
<1>1. CASE OpenTree
  BY <1>1 DEF OpenTree, NoThread
<1>2. CASE CreateRoot
  BY <1>2 DEF CreateRoot
<1>3. CASE CreateHeader
  BY <1>3 DEF CreateHeader, NoThread
<1>4. CASE Crash
  BY <1>4 DEF Crash
<1>5. CASE PutStep
  <2>1. CASE \E k \in Key, v \in Value : StartPut(k, v)
    <3>1. writer.pc # "closed" /\ header' = header /\ writer'.pc \in {"descend", "addFree"}
      BY <2>1 DEF StartPut, Work, NoThread
    <3> QED BY <3>1
  <2>2. CASE GoesOn
    <3>1. writer.pc # "closed" /\ writer'.pc \notin {"closed", "publishRoot", "createHeader"}
      BY <2>2 DEF GoesOn, Places
    <3> QED BY <2>2, <3>1 DEF GoesOn
  <2>3. CASE Raises \/ Returns
    <3>1. writer.pc # "closed" /\ writer'.pc = "idle" /\ header'.root = header.root
      BY <2>3 DEF Raises, Returns, Places, Upward, NoThread
    <3> QED BY <3>1
  <2>4. CASE CommitRoot
    <3>1. writer.pc \in Places
      BY <2>4 DEF CommitRoot, Places
    <3>2. writer \in Works(Ids(file))
      BY <3>1, Working
    <3>3. writer'.pc = "publishRoot" /\ file' = file
      BY <2>4, <3>2 DEF CommitRoot, Works
    <3> QED BY <2>4, <3>3
  <2>5. CASE PublishRoot
    <3>1. writer.pc \in Places /\ writer.pc # "closed" /\ header' = header
      BY <2>5 DEF PublishRoot, Places
    <3>2. writer \in Works(Ids(file))
      BY <3>1, Working
    <3>3. writer'.pc = "commitWrite"
      BY <2>5, <3>2 DEF PublishRoot, Works
    <3> QED BY <3>1, <3>3
  <2> QED BY <1>5, <2>1, <2>2, <2>3, <2>4, <2>5, PutKinds
<1>6. CASE (\E r \in Reader : GetStep(r)) \/ UNCHANGED vars
  <2>1. UNCHANGED <<file, header, writer>>
    BY <1>6 DEF GetStep, BeginRead, ReadRoot, Walk, EndRead, vars
  <2> QED BY <2>1
<1> QED BY <1>1, <1>2, <1>3, <1>4, <1>5, <1>6 DEF Next

\* An empty leaf is a search tree.
LEMMA EmptyTree ==
  ASSUME NEW f, FileOK(f), NEW c, IsTree(f, c), f[c] = Leaf(<<>>, <<>>)
  PROVE  IsSearch(f, c) /\ IsLevel(f, c) /\ \A j : Lookup(f, c, j) = None
<1> DEFINE n == Leaf(<<>>, <<>>)
<1>1. n.kind = "leaf" /\ n.keys = <<>> /\ KidsOf(n) = {}
  BY DEF Leaf, KidsOf
<1>2. Routes(f, n)
  BY <1>1 DEF Routes, Ascends
<1>3. f[c] = n
  OBVIOUS
<1>4. \A j : Find(f, n, j) = None
  BY <1>1 DEF Find, ValueIn
<1>6. IsLevel(f, c)
  <2>1. TallNode(f, f[c], 0) /\ c \in Ids(f)
    BY <1>1, <1>3 DEF TallNode, IsTree
  <2> QED BY <2>1, TallSplits DEF IsLevel
<1> HIDE DEF n
<1>5. IsSearch(f, c) /\ \A j : Lookup(f, c, j) = Find(f, n, j)
  BY <1>1, <1>2, <1>3, PlacedSearch
<1> QED BY <1>4, <1>5, <1>6

LEMMA RootSearchNext ==
  ASSUME BothInv, SearchInv, [Next]_vars, writer'.pc # "closed"
  PROVE  IsSearch(file', header'.root) /\ IsLevel(file', header'.root)
<1>1. CowInv /\ CowInv'
  BY BothNext DEF BothInv
<1>2. CASE writer.pc # "closed" /\ header'.root = header.root
  <2>1. SameTree(header.root) /\ IsSearch(file, header.root) /\ IsLevel(file, header.root)
    BY <1>2, TreesInUse DEF SearchInv
  <2> QED BY <1>2, <2>1 DEF SameTree
<1>3. CASE OpenTree
  BY <1>3 DEF OpenTree, SearchInv
<1>4. CASE CreateRoot
  <2>1. header'.root = FileSize(file) /\ file' = [GrowFile(file) EXCEPT ![FileSize(file)] = Leaf(<<>>, <<>>)]
    BY <1>4 DEF CreateRoot
  <2>2. file'[header'.root] = Leaf(<<>>, <<>>)
    BY <2>1 DEF GrowFile
  <2>3. FileOK(file') /\ IsTree(file', header'.root)
    BY <1>1 DEF CowInv, TreeInv
  <2> QED BY <2>2, <2>3, EmptyTree
<1>5. CASE CommitRoot
  <2>1. writer.pc = "commitRoot" /\ header' = [header EXCEPT !.root = writer.new] /\ file' = file
    BY <1>5 DEF CommitRoot
  <2>2. At(writer) = "commitRoot" /\ writer \notin NoWork /\ writer.pc \in Places
    BY <2>1 DEF At, NoWork, NoThread, Places
  <2>3. header \in [root : Ids(file), head : Ids(file) \cup {0}]
    BY <1>1, <2>2, Working
  <2>4. IsSearch(file, writer.new) /\ IsLevel(file, writer.new)
    BY <2>1, <2>2 DEF SearchInv, SearchWork, SearchDone
  <2>5. header'.root = writer.new
    BY <2>1, <2>3
  <2> QED BY <2>1, <2>4, <2>5
<1> QED BY <1>1, <1>2, <1>3, <1>4, <1>5, RootMoves

LEMMA SavedSearchNext ==
  ASSUME BothInv, SearchInv, [Next]_vars, file'[0].kind = "header"
  PROVE  IsSearch(file', file'[0].root) /\ IsLevel(file', file'[0].root)
<1>1. CowInv /\ CowInv'
  BY BothNext DEF BothInv
<1>2. CASE writer'.pc \in {"closed", "publishRoot"}
  <2>1. file' = file
    BY <1>1, <1>2, RootMoves
  <2> QED BY <2>1 DEF SearchInv
<1>3. CASE writer'.pc = "createHeader"
  <2>1. file'[0] = Blank
    BY <1>1, <1>3 DEF CowInv, HeaderInv
  <2> QED BY <2>1 DEF Blank
<1>4. CASE writer'.pc \notin {"closed", "publishRoot", "createHeader"}
  <2>1. IsSearch(file', header'.root) /\ IsLevel(file', header'.root)
    BY <1>4, RootSearchNext
  <2>2. file'[0].root = header'.root
    BY <1>1, <1>4 DEF CowInv, HeaderInv, IsOpen
  <2> QED BY <2>1, <2>2
<1> QED BY <1>2, <1>3, <1>4

LEMMA SearchNext ==
  ASSUME BothInv, SearchInv, [Next]_vars
  PROVE  SearchInv'
<1>1. CowInv /\ CowInv'
  BY BothNext DEF BothInv
<1>2. writer' \notin NoWork => SearchWork(file', header'.root, writer')
  <2>1. CASE PutStep
    BY <2>1, PutSearch
  <2>2. CASE OpenTree \/ CreateRoot \/ CreateHeader \/ Crash
    BY <2>2 DEF OpenTree, CreateRoot, CreateHeader, Crash, NoWork
  <2>3. CASE (\E r \in Reader : GetStep(r)) \/ UNCHANGED vars
    <3>1. UNCHANGED <<file, header, writer>>
      BY <2>3 DEF GetStep, BeginRead, ReadRoot, Walk, EndRead, vars
    <3> QED BY <3>1 DEF SearchInv
  <2> QED BY <2>1, <2>2, <2>3 DEF Next
<1>3. writer'.pc = "createHeader" => file'[header'.root] = Leaf(<<>>, <<>>)
  <2>1. CASE CreateRoot
    <3>1. header'.root = FileSize(file) /\ file' = [GrowFile(file) EXCEPT ![FileSize(file)] = Leaf(<<>>, <<>>)]
      BY <2>1 DEF CreateRoot
    <3> QED BY <3>1 DEF GrowFile
  <2>2. CASE UNCHANGED <<file, header, writer>>
    BY <2>2 DEF SearchInv
  <2> QED BY <1>1, <2>1, <2>2, RootMoves
<1>4. writer'.pc # "closed" => IsSearch(file', header'.root) /\ IsLevel(file', header'.root)
  BY RootSearchNext
<1>5. file'[0].kind = "header" => IsSearch(file', file'[0].root) /\ IsLevel(file', file'[0].root)
  BY SavedSearchNext
<1> QED BY <1>2, <1>3, <1>4, <1>5 DEF SearchInv

LEMMA SearchInit == Init => SearchInv
  BY DEF Init, SearchInv, Blank, NoWork

\* In every state the root in memory and the root in page 0 lead to search
\* trees, and the copies that put has made are a search tree with its key in it.
THEOREM SearchInvariance == Spec => [](BothInv /\ SearchInv)
<1>1. Init => BothInv /\ SearchInv
  BY BothInit, SearchInit
<1>2. (BothInv /\ SearchInv) /\ [Next]_vars => (BothInv /\ SearchInv)'
  BY BothNext, SearchNext
<1> QED BY <1>1, <1>2, PTL DEF Spec

-----------------------------------------------------------------------------
(* The store is one map: the abstract step of each action.                 *)

\* A caller sees no difference.
LEMMA GetsStay ==
  ASSUME BothInv, [Next]_vars, reader' = reader
  PROVE  GetCalls' = GetCalls
<1>1. ASSUME NEW r \in Reader PROVE GetCall(r)' = GetCall(r)
  <2>1. reader[r].pc = "walking" =>
          Lookup(file', reader[r].page, reader[r].key) = Lookup(file, reader[r].page, reader[r].key)
    BY TreesInUse DEF SameTree
  <2> QED BY <2>1 DEF GetCall
<1> QED BY <1>1 DEF GetCalls

LEMMA OneMap ==
  CowInv /\ IsOpen /\ writer.pc # "publishRoot" => InFile = InMemory
BY DEF CowInv, HeaderInv, InFile, InMemory

LEMMA OneMapNext ==
  (CowInv /\ IsOpen /\ writer.pc # "publishRoot" => InFile = InMemory)'
BY OneMap, PTL

LEMMA MemoryStays ==
  ASSUME BothInv, [Next]_vars, IsOpen, IsOpen', header'.root = header.root
  PROVE  InMemory' = InMemory
<1>1. SameTree(header.root)
  BY TreesInUse DEF IsOpen
<1>2. \A k \in Key : Lookup(file', header'.root, k) = Lookup(file, header.root, k)
  BY <1>1 DEF SameTree
<1> QED BY <1>2 DEF InMemory, Contents

LEMMA MapsStay ==
  ASSUME BothInv, [Next]_vars, IsOpen, IsOpen', header'.root = header.root,
         writer.pc # "publishRoot", writer'.pc # "publishRoot"
  PROVE  UNCHANGED <<InMemory, InFile>>
<1>1. CowInv /\ CowInv'
  BY BothNext DEF BothInv
<1>2. InMemory' = InMemory
  BY MemoryStays
<1>3. InFile = InMemory /\ InFile' = InMemory'
  BY <1>1, OneMap, OneMapNext
<1> QED BY <1>2, <1>3

LEMMA CallPutStep ==
  ASSUME BothInv, [Next]_vars, NEW k \in Key, NEW v \in Value, StartPut(k, v)
  PROVE  KV!CallPut(k, v)
<1>1. writer = NoThread /\ header' = header /\ reader' = reader
  BY DEF StartPut
<1>2. /\ writer'.pc \in {"descend", "addFree"} /\ writer'.key = k /\ writer'.value = v
      /\ writer'.committed = FALSE
  BY DEF StartPut, Work
<1>3. UNCHANGED <<InMemory, InFile>>
  BY <1>1, <1>2, MapsStay DEF IsOpen, NoThread
<1>4. PutCall = [pc |-> "none"] /\ PutCall' = [pc |-> "called", key |-> k, value |-> v]
  BY <1>1, <1>2 DEF PutCall, NoThread
<1> QED BY <1>1, <1>3, <1>4, GetsStay DEF KV!CallPut, KV!NoPut

LEMMA GoesOnStep ==
  ASSUME BothInv, [Next]_vars, GoesOn
  PROVE  UNCHANGED KV!vars
<1>1. IsOpen /\ IsOpen' /\ writer.pc # "publishRoot" /\ writer'.pc # "publishRoot"
  BY DEF GoesOn, Places, IsOpen
<1>2. UNCHANGED <<InMemory, InFile>> /\ GetCalls' = GetCalls
  BY <1>1, MapsStay, GetsStay DEF GoesOn
<1>3. PutCall' = PutCall
  BY DEF GoesOn, Places, PutCall
<1> QED BY <1>2, <1>3 DEF KV!vars

LEMMA RaisesStep ==
  ASSUME BothInv, [Next]_vars, Raises
  PROVE  KV!PutRaises
<1>1. /\ IsOpen /\ IsOpen' /\ writer.pc # "publishRoot" /\ writer'.pc = "idle"
      /\ header'.root = header.root /\ reader' = reader
  BY DEF Raises, Upward, NoThread, IsOpen
<1>2. UNCHANGED <<InMemory, InFile>> /\ GetCalls' = GetCalls
  BY <1>1, MapsStay, GetsStay
<1>3. PutCall = [pc |-> "called", key |-> writer.key, value |-> writer.value] /\ PutCall' = [pc |-> "none"]
  BY <1>1 DEF Raises, Upward, PutCall
<1> QED BY <1>2, <1>3 DEF KV!PutRaises, KV!NoPut

LEMMA ReturnsStep ==
  ASSUME BothInv, [Next]_vars, Returns
  PROVE  KV!PutReturns
<1>1. /\ IsOpen /\ IsOpen' /\ writer.pc # "publishRoot" /\ writer'.pc = "idle"
      /\ header'.root = header.root /\ reader' = reader
  BY DEF Returns, Places, NoThread, IsOpen
<1>2. UNCHANGED <<InMemory, InFile>> /\ GetCalls' = GetCalls
  BY <1>1, MapsStay, GetsStay
<1>3. PutCall = [pc |-> "persisted"] /\ PutCall' = [pc |-> "none"]
  BY <1>1 DEF Returns, Places, PutCall
<1> QED BY <1>2, <1>3 DEF KV!PutReturns, KV!NoPut

LEMMA TakesEffectStep ==
  ASSUME BothInv, SearchInv, [Next]_vars, CommitRoot
  PROVE  KV!PutTakesEffect
<1> DEFINE k == writer.key
           v == writer.value
<1>1. /\ writer.pc = "commitRoot" /\ UNCHANGED <<file, reader>>
      /\ header' = [header EXCEPT !.root = writer.new] /\ writer' = [writer EXCEPT !.pc = "publishRoot"]
  BY DEF CommitRoot
<1>2. writer.pc \in Places /\ writer \notin NoWork /\ At(writer) = "commitRoot" /\ IsOpen
  BY <1>1 DEF Places, NoWork, NoThread, At, IsOpen
<1>3. /\ writer \in Works(Ids(file)) /\ WorkOK(file, header.root, writer)
      /\ header \in [root : Ids(file), head : Ids(file) \cup {0}]
  BY <1>2, Working DEF BothInv
<1>4. ~writer.committed
  BY <1>2, <1>3 DEF WorkOK, Behind
<1>5. /\ header'.root = writer.new /\ writer'.pc = "publishRoot" /\ IsOpen'
      /\ writer'.committed = writer.committed
  BY <1>1, <1>3 DEF Works, IsOpen
<1>6. \A j \in Key : Lookup(file, writer.new, j) = IF j = k THEN v ELSE Lookup(file, header.root, j)
  BY <1>2 DEF SearchInv, SearchWork, SearchDone, Updated
<1>7. InMemory = Contents(header.root) /\ InMemory' = [j \in Key |-> Lookup(file, writer.new, j)]
  BY <1>1, <1>2, <1>5 DEF InMemory, Contents
<1>8. InMemory' = [InMemory EXCEPT ![k] = v]
  BY <1>6, <1>7 DEF Contents
<1>9. InFile' = InFile
  BY <1>1 DEF InFile, Contents
<1>10. PutCall = [pc |-> "called", key |-> k, value |-> v] /\ PutCall' = [pc |-> "effective"]
  BY <1>1, <1>4, <1>5 DEF PutCall
<1>11. GetCalls' = GetCalls
  BY <1>1, GetsStay
<1> QED BY <1>8, <1>9, <1>10, <1>11 DEF KV!PutTakesEffect

LEMMA IsPersistedStep ==
  ASSUME BothInv, [Next]_vars, PublishRoot
  PROVE  KV!PutIsPersisted
<1>1. /\ writer.pc = "publishRoot" /\ UNCHANGED <<header, reader>>
      /\ writer' = [writer EXCEPT !.pc = "commitWrite", !.committed = TRUE]
  BY DEF PublishRoot
<1>2. writer.pc \in Places /\ IsOpen
  BY <1>1 DEF Places, IsOpen
<1>3. writer \in Works(Ids(file)) /\ WorkOK(file, header.root, writer)
  BY <1>2, Working DEF BothInv
<1>4. ~writer.committed
  BY <1>1, <1>3 DEF WorkOK, At, Behind
<1>5. writer'.pc = "commitWrite" /\ writer'.committed /\ IsOpen'
  BY <1>1, <1>3 DEF Works, IsOpen
<1>6. CowInv'
  BY BothNext DEF BothInv
<1>7. InMemory' = InMemory /\ InFile' = InMemory'
  BY <1>1, <1>2, <1>5, <1>6, MemoryStays, OneMapNext
<1>8. PutCall = [pc |-> "effective"] /\ PutCall' = [pc |-> "persisted"]
  BY <1>1, <1>4, <1>5 DEF PutCall
<1>9. GetCalls' = GetCalls
  BY <1>1, GetsStay
<1> QED BY <1>7, <1>8, <1>9 DEF KV!PutIsPersisted

\* A process that has opened the file holds what is in the file.
LEMMA OpenStep ==
  ASSUME BothInv, SearchInv, [Next]_vars, OpenTree \/ CreateRoot \/ CreateHeader
  PROVE  UNCHANGED KV!vars
<1>1. CowInv /\ CowInv' /\ FileOK(file)
  BY BothNext DEF BothInv, CowInv
<1>2. reader' = reader /\ GetCalls' = GetCalls
  BY GetsStay DEF OpenTree, CreateRoot, CreateHeader
<1>3. /\ writer.pc \in {"closed", "createHeader"} /\ writer'.pc \in {"idle", "createHeader"} /\ ~IsOpen
  BY DEF OpenTree, CreateRoot, CreateHeader, NoThread, IsOpen
<1>4. PutCall' = PutCall
  BY <1>3 DEF PutCall
<1>5. InMemory = InFile
  BY <1>3 DEF InMemory
<1>6. CASE OpenTree
  <2>1. /\ file' = file /\ file[0].kind = "header" /\ header'.root = file[0].root /\ IsOpen'
    BY <1>6 DEF OpenTree, IsOpen, NoThread
  <2>2. InFile' = InFile
    BY <2>1 DEF InFile, Contents
  <2>3. InMemory' = InFile'
    BY <2>1 DEF InMemory, InFile
  <2> QED BY <1>2, <1>4, <1>5, <2>2, <2>3 DEF KV!vars
<1>7. CASE CreateRoot
  <2>1. writer'.pc = "createHeader" /\ ~IsOpen' /\ file[0].kind = "blank"
    BY <1>7 DEF CreateRoot, IsOpen
  <2>2. file'[0] = Blank
    BY <1>1, <2>1 DEF CowInv, HeaderInv
  <2>3. InFile' = InFile
    BY <2>1, <2>2 DEF InFile, Blank
  <2>4. InMemory' = InFile'
    BY <2>1 DEF InMemory
  <2> QED BY <1>2, <1>4, <1>5, <2>3, <2>4 DEF KV!vars
<1>8. CASE CreateHeader
  <2>1. writer.pc = "createHeader" /\ writer'.pc = "idle" /\ header' = header /\ IsOpen'
    BY <1>8 DEF CreateHeader, NoThread, IsOpen
  <2>2. file[0] = Blank /\ IsTree(file, header.root) /\ file[header.root] = Leaf(<<>>, <<>>)
    BY <1>1, <2>1 DEF CowInv, HeaderInv, TreeInv, SearchInv
  <2>3. \A k : Lookup(file, header.root, k) = None
    BY <1>1, <2>2, EmptyTree
  <2>4. \A k : Lookup(file', header.root, k) = None
    BY <2>1, <2>3, TreesInUse DEF SameTree
  <2>5. InFile = [k \in Key |-> None]
    BY <2>2 DEF InFile, Blank
  <2>6. InMemory' = [k \in Key |-> None]
    BY <2>1, <2>4 DEF InMemory, Contents
  <2>7. InFile' = InMemory'
    BY <1>1, <2>1, OneMapNext
  <2> QED BY <1>2, <1>4, <1>5, <2>5, <2>6, <2>7 DEF KV!vars
<1> QED BY <1>6, <1>7, <1>8

LEMMA CrashOfStore ==
  ASSUME BothInv, [Next]_vars, Crash
  PROVE  KV!Crash
<1>1. file' = file /\ writer'.pc = "closed" /\ reader' = [r \in Reader |-> NoThread]
  BY DEF Crash
<1>2. InFile' = InFile /\ InMemory' = InFile'
  BY <1>1 DEF InFile, InMemory, Contents, IsOpen
<1>3. PutCall' = [pc |-> "none"]
  BY <1>1 DEF PutCall
<1>4. \A r \in Reader : GetCall(r)' = [pc |-> "none"]
  BY <1>1 DEF GetCall, NoThread
<1>5. GetCalls' = [r \in Reader |-> [pc |-> "none"]]
  BY <1>4 DEF GetCalls
<1> QED BY <1>2, <1>3, <1>5 DEF KV!Crash, KV!NoPut, KV!NoGet

\* Only the get of r has changed.
LEMMA GetStepIs ==
  ASSUME BothInv, NEW r \in Reader, UNCHANGED <<file, header, writer>>, NEW new,
         reader' = [reader EXCEPT ![r] = new]
  PROVE  /\ UNCHANGED <<InMemory, InFile, PutCall>> /\ reader'[r] = new
         /\ GetCalls' = [GetCalls EXCEPT ![r] = GetCall(r)'] /\ GetCalls[r] = GetCall(r)
<1>1. UNCHANGED <<InMemory, InFile, PutCall>>
  BY DEF InMemory, InFile, PutCall, Contents, IsOpen
<1>2. reader \in [Reader -> Threads(Ids(file))]
  BY DEF BothInv, CowInv, ReaderInv
<1>3. reader'[r] = new /\ \A q \in Reader : q # r => reader'[q] = reader[q]
  BY <1>2
<1>4. \A q \in Reader : q # r => GetCall(q)' = GetCall(q)
  BY <1>3 DEF GetCall
<1>5. GetCalls' = [q \in Reader |-> IF q = r THEN GetCall(r)' ELSE GetCall(q)]
  BY <1>4 DEF GetCalls
<1>6. GetCalls = [q \in Reader |-> GetCall(q)]
  BY DEF GetCalls
<1> QED BY <1>1, <1>3, <1>5, <1>6

LEMMA CallGetStep ==
  ASSUME BothInv, [Next]_vars, NEW r \in Reader, NEW k \in Key, BeginRead(r, k)
  PROVE  KV!CallGet(r, k)
<1> DEFINE new == [pc |-> "begun", key |-> k]
<1>1. UNCHANGED <<file, header, writer>> /\ reader' = [reader EXCEPT ![r] = new] /\ reader[r] = NoThread
  BY DEF BeginRead
<1> HIDE DEF new
<1>2. /\ UNCHANGED <<InMemory, InFile, PutCall>> /\ reader'[r] = new
      /\ GetCalls' = [GetCalls EXCEPT ![r] = GetCall(r)'] /\ GetCalls[r] = GetCall(r)
  BY <1>1, GetStepIs
<1>3. GetCall(r) = [pc |-> "none"]
  BY <1>1 DEF GetCall, NoThread
<1>4. GetCall(r)' = [pc |-> "called", key |-> k]
  BY <1>2 DEF GetCall, new
<1> QED BY <1>2, <1>3, <1>4 DEF KV!CallGet, KV!NoGet

LEMMA GetTakesEffectStep ==
  ASSUME BothInv, [Next]_vars, NEW r \in Reader, ReadRoot(r)
  PROVE  KV!GetTakesEffect(r)
<1> DEFINE k == reader[r].key
           new == [pc |-> "walking", key |-> k, page |-> header.root]
<1>1. UNCHANGED <<file, header, writer>> /\ reader' = [reader EXCEPT ![r] = new] /\ reader[r].pc = "begun"
  BY DEF ReadRoot
<1>2. IsOpen /\ k \in Key
  <2>1. IsOpen /\ reader \in [Reader -> Threads(Ids(file))]
    BY <1>1, GetTypes DEF NoThread, BothInv
  <2>2. reader[r] \in Threads(Ids(file))
    BY <2>1
  <2> QED BY <1>1, <2>1, <2>2 DEF Threads, NoThread
<1> HIDE DEF new
<1>3. /\ UNCHANGED <<InMemory, InFile, PutCall>> /\ reader'[r] = new
      /\ GetCalls' = [GetCalls EXCEPT ![r] = GetCall(r)'] /\ GetCalls[r] = GetCall(r)
  BY <1>1, GetStepIs
<1>4. GetCall(r) = [pc |-> "called", key |-> k]
  BY <1>1 DEF GetCall
<1>5. GetCall(r)' = [pc |-> "effective", value |-> Lookup(file, header.root, k)]
  BY <1>1, <1>3 DEF GetCall, new
<1>6. InMemory[k] = Lookup(file, header.root, k)
  BY <1>2 DEF InMemory, Contents
<1> HIDE DEF k
<1>7. GetCalls[r].pc = "called" /\ GetCalls[r].key = k
  BY <1>3, <1>4
<1>8. GetCall(r)' = [pc |-> "effective", value |-> InMemory[GetCalls[r].key]]
  BY <1>5, <1>6, <1>7
<1>9. GetCalls' = [GetCalls EXCEPT ![r] = [pc |-> "effective", value |-> InMemory[GetCalls[r].key]]]
  BY <1>3, <1>8
<1> QED BY <1>3, <1>7, <1>9 DEF KV!GetTakesEffect

\* On its way down a get goes on to find the same value.
LEMMA WalkStays ==
  ASSUME BothInv, [Next]_vars, NEW r \in Reader, Walk(r)
  PROVE  UNCHANGED KV!vars
<1> DEFINE p == reader[r].page
           k == reader[r].key
           n == ReadPage(file, p)
           new == IF n.kind = "internal" THEN [reader[r] EXCEPT !.page = ChildFor(n, k)]
                  ELSE [pc |-> "found", value |-> IF n.kind = "leaf" THEN ValueIn(n, k) ELSE "corrupt"]
<1>1. UNCHANGED <<file, header, writer>> /\ reader' = [reader EXCEPT ![r] = new] /\ reader[r].pc = "walking"
  BY DEF Walk
<1>2. FileOK(file) /\ IsTree(file, p) /\ reader[r] = [pc |-> "walking", key |-> k, page |-> p]
  <2>1. /\ reader \in [Reader -> Threads(Ids(file))] /\ FileOK(file)
        /\ \A q \in Reader : reader[q].pc = "walking" => IsTree(file, reader[q].page)
    BY DEF BothInv, CowInv, ReaderInv, TreeInv
  <2>2. reader[r] \in Threads(Ids(file))
    BY <2>1
  <2> QED BY <1>1, <2>1, <2>2 DEF Threads, NoThread
<1>3. n = file[p] /\ n.kind \in {"leaf", "internal"}
  <2>1. p \in TreePages(file, p) /\ p \in Ids(file)
    BY <1>2, TreeBasics DEF IsTree
  <2>2. file[p].kind \in {"leaf", "internal"} /\ p \in DOMAIN file
    BY <1>2, <2>1, TreePage
  <2> QED BY <2>2 DEF ReadPage
<1>4. Lookup(file, p, k) = IF n.kind = "leaf" THEN ValueIn(n, k) ELSE Lookup(file, ChildFor(n, k), k)
  BY <1>2, <1>3, LookupStep DEF Find
<1> HIDE DEF new
<1>5. /\ UNCHANGED <<InMemory, InFile, PutCall>> /\ reader'[r] = new
      /\ GetCalls' = [GetCalls EXCEPT ![r] = GetCall(r)'] /\ GetCalls[r] = GetCall(r)
  BY <1>1, GetStepIs
<1>6. GetCall(r) = [pc |-> "effective", value |-> Lookup(file, p, k)]
  BY <1>1 DEF GetCall
<1>7. GetCall(r)' = GetCall(r)
  <2>1. CASE n.kind = "internal"
    <3> DEFINE q == ChildFor(n, k)
    <3>1. reader'[r] = [reader[r] EXCEPT !.page = q]
      BY <1>5, <2>1 DEF new
    <3> HIDE DEF q, n, k, p
    <3>2. reader'[r] = [pc |-> "walking", key |-> k, page |-> q]
      BY <1>2, <3>1
    <3>3. GetCall(r)' = [pc |-> "effective", value |-> Lookup(file, q, k)]
      BY <1>1, <3>2 DEF GetCall
    <3> QED BY <1>4, <1>6, <2>1, <3>3 DEF q
  <2>2. CASE n.kind = "leaf"
    <3>1. reader'[r] = [pc |-> "found", value |-> ValueIn(n, k)]
      BY <1>5, <2>2 DEF new
    <3> HIDE DEF n, k, p
    <3>2. GetCall(r)' = [pc |-> "effective", value |-> ValueIn(n, k)]
      BY <3>1 DEF GetCall
    <3> QED BY <1>4, <1>6, <2>2, <3>2
  <2> QED BY <1>3, <2>1, <2>2
<1>8. GetCalls' = GetCalls
  BY <1>5, <1>7 DEF GetCalls
<1> QED BY <1>5, <1>8 DEF KV!vars

LEMMA GetReturnsStep ==
  ASSUME BothInv, [Next]_vars, NEW r \in Reader, EndRead(r)
  PROVE  KV!GetReturns(r)
<1>1. UNCHANGED <<file, header, writer>> /\ reader' = [reader EXCEPT ![r] = NoThread] /\ reader[r].pc = "found"
  BY DEF EndRead
<1>2. /\ UNCHANGED <<InMemory, InFile, PutCall>> /\ reader'[r] = NoThread
      /\ GetCalls' = [GetCalls EXCEPT ![r] = GetCall(r)'] /\ GetCalls[r] = GetCall(r)
  BY <1>1, GetStepIs
<1>3. GetCall(r).pc = "effective"
  BY <1>1 DEF GetCall
<1>4. GetCall(r)' = [pc |-> "none"]
  BY <1>2 DEF GetCall, NoThread
<1> QED BY <1>2, <1>3, <1>4 DEF KV!GetReturns, KV!NoGet

LEMMA StoreNext ==
  ASSUME BothInv, SearchInv, [Next]_vars
  PROVE  [KV!Next]_KV!vars
<1>1. CASE OpenTree \/ CreateRoot \/ CreateHeader
  BY <1>1, OpenStep
<1>2. CASE Crash
  BY <1>2, CrashOfStore DEF KV!Next
<1>3. CASE PutStep
  <2>1. CowInv
    BY DEF BothInv
  <2>2. CASE \E k \in Key, v \in Value : StartPut(k, v)
    BY <2>2, CallPutStep DEF KV!Next
  <2>3. CASE GoesOn
    BY <2>3, GoesOnStep
  <2>4. CASE Raises
    BY <2>4, RaisesStep DEF KV!Next
  <2>5. CASE Returns
    BY <2>5, ReturnsStep DEF KV!Next
  <2>6. CASE CommitRoot
    BY <2>6, TakesEffectStep DEF KV!Next
  <2>7. CASE PublishRoot
    BY <2>7, IsPersistedStep DEF KV!Next
  <2> QED BY <1>3, <2>1, <2>2, <2>3, <2>4, <2>5, <2>6, <2>7, PutKinds
<1>4. ASSUME NEW r \in Reader, GetStep(r) PROVE [KV!Next]_KV!vars
  <2>1. CASE \E k \in Key : BeginRead(r, k)
    BY <2>1, CallGetStep DEF KV!Next
  <2>2. CASE ReadRoot(r)
    BY <2>2, GetTakesEffectStep DEF KV!Next
  <2>3. CASE Walk(r)
    BY <2>3, WalkStays
  <2>4. CASE EndRead(r)
    BY <2>4, GetReturnsStep DEF KV!Next
  <2> QED BY <1>4, <2>1, <2>2, <2>3, <2>4 DEF GetStep
<1>5. CASE UNCHANGED vars
  <2>1. UNCHANGED <<file, header, writer, reader>>
    BY <1>5 DEF vars
  <2>2. UNCHANGED <<InMemory, InFile, PutCall>>
    BY <2>1 DEF InMemory, InFile, PutCall, Contents, IsOpen
  <2>3. UNCHANGED GetCalls
    BY <2>1 DEF GetCalls, GetCall
  <2> QED BY <2>2, <2>3 DEF KV!vars
<1> QED BY <1>1, <1>2, <1>3, <1>4, <1>5 DEF Next

LEMMA StoreInit == Init => KV!Init
<1> SUFFICES ASSUME Init PROVE KV!Init
  OBVIOUS
<1>1. file[0] = Blank /\ writer = [pc |-> "closed"] /\ reader = [r \in Reader |-> NoThread]
  BY DEF Init
<1>2. InFile = [k \in Key |-> None] /\ InMemory = InFile /\ PutCall = [pc |-> "none"]
  BY <1>1 DEF InFile, InMemory, PutCall, IsOpen, Blank
<1>3. GetCalls = [r \in Reader |-> [pc |-> "none"]]
  BY <1>1 DEF GetCalls, GetCall, NoThread
<1> QED BY <1>2, <1>3 DEF KV!Init, KV!NoPut, KV!NoGet

\* BTree is a map: every get returns what its key had at one instant of the
\* get, every put takes effect at one instant or raises and changes nothing,
\* is in the file before it returns, and a kill takes back none but the effect
\* of a put that has not returned, for all sizes, keys, puts, gets and kills.
THEOREM PutsAndGetsMakeAMap == Spec => ImplementsKVStore
<1>1. BothInv /\ SearchInv /\ [Next]_vars => [KV!Next]_KV!vars
  BY StoreNext
<1> QED BY <1>1, StoreInit, SearchInvariance, PTL DEF Spec, ImplementsKVStore, KV!Spec

-----------------------------------------------------------------------------
(* The levels of a search tree, from left to right.                        *)

Sorted(R, s) == \A i, j \in DOMAIN s : i < j => <<s[i], s[j]>> \in R

LEMMA ConcatSorted ==
  ASSUME NEW S, NEW u \in Seq(S), NEW w \in Seq(S), NEW R, Sorted(R, u), Sorted(R, w),
         \A x \in ToSet(u), y \in ToSet(w) : <<x, y>> \in R
  PROVE  u \o w \in Seq(S) /\ Sorted(R, u \o w) /\ ToSet(u \o w) = ToSet(u) \cup ToSet(w)
<1>1. /\ u \o w \in Seq(S) /\ Len(u \o w) = Len(u) + Len(w)
      /\ \A j \in 1 .. Len(u) + Len(w) : (u \o w)[j] = IF j <= Len(u) THEN u[j] ELSE w[j - Len(u)]
  BY ConcatProperties
<1>2. /\ Len(u) \in Nat /\ DOMAIN u = 1 .. Len(u) /\ Len(w) \in Nat /\ DOMAIN w = 1 .. Len(w)
      /\ DOMAIN (u \o w) = 1 .. Len(u) + Len(w)
  BY <1>1
<1>3. \A j \in 1 .. Len(u) + Len(w) :
         \/ j \in 1 .. Len(u) /\ (u \o w)[j] = u[j] /\ (u \o w)[j] \in ToSet(u)
         \/ /\ j - Len(u) \in 1 .. Len(w) /\ (u \o w)[j] = w[j - Len(u)] /\ j > Len(u)
            /\ (u \o w)[j] \in ToSet(w)
  <2> TAKE j \in 1 .. Len(u) + Len(w)
  <2>1. CASE j <= Len(u)
    <3>1. j \in 1 .. Len(u) /\ (u \o w)[j] = u[j]
      BY <1>1, <1>2, <2>1
    <3> QED BY <1>2, <3>1 DEF ToSet
  <2>2. CASE ~(j <= Len(u))
    <3>1. j - Len(u) \in 1 .. Len(w) /\ j > Len(u)
      BY <1>2, <2>2
    <3>2. (u \o w)[j] = w[j - Len(u)]
      BY <1>1, <2>2
    <3>3. j - Len(u) \in DOMAIN w
      BY <1>2, <3>1
    <3>4. w[j - Len(u)] \in ToSet(w)
      BY <3>3 DEF ToSet
    <3> QED BY <3>1, <3>2, <3>4
  <2> QED BY <2>1, <2>2
<1>4. Sorted(R, u \o w)
  <2> SUFFICES ASSUME NEW a \in 1 .. Len(u) + Len(w), NEW b \in 1 .. Len(u) + Len(w), a < b
               PROVE  <<(u \o w)[a], (u \o w)[b]>> \in R
    BY <1>2 DEF Sorted
  <2>1. CASE a \in 1 .. Len(u) /\ b \in 1 .. Len(u)
    <3>1. (u \o w)[a] = u[a] /\ (u \o w)[b] = u[b]
      BY <1>1, <1>2, <2>1
    <3> QED BY <1>2, <2>1, <3>1 DEF Sorted
  <2>2. CASE a - Len(u) \in 1 .. Len(w) /\ b - Len(u) \in 1 .. Len(w)
    <3>1. (u \o w)[a] = w[a - Len(u)] /\ (u \o w)[b] = w[b - Len(u)]
      BY <1>1, <1>2, <2>2
    <3>2. a - Len(u) < b - Len(u) /\ a - Len(u) \in DOMAIN w /\ b - Len(u) \in DOMAIN w
      BY <1>2, <2>2
    <3>3. <<w[a - Len(u)], w[b - Len(u)]>> \in R
      BY <3>2 DEF Sorted
    <3> QED BY <3>1, <3>3
  <2>3. CASE (u \o w)[a] \in ToSet(u) /\ (u \o w)[b] \in ToSet(w)
    BY <2>3
  <2>4. ~(a > Len(u) /\ b \in 1 .. Len(u))
    BY <1>2
  <2> QED BY <1>3, <2>1, <2>2, <2>3, <2>4
<1>5. ToSet(u \o w) = ToSet(u) \cup ToSet(w)
  <2>1. \A x \in ToSet(u \o w) : x \in ToSet(u) \cup ToSet(w)
    BY <1>2, <1>3 DEF ToSet
  <2>2. \A x \in ToSet(u) : x \in ToSet(u \o w)
    <3> TAKE x \in ToSet(u)
    <3>1. PICK j \in 1 .. Len(u) : u[j] = x
      BY <1>2 DEF ToSet
    <3>2. j \in 1 .. Len(u) + Len(w) /\ (u \o w)[j] = x
      BY <1>1, <1>2, <3>1
    <3> QED BY <1>2, <3>2 DEF ToSet
  <2>3. \A x \in ToSet(w) : x \in ToSet(u \o w)
    <3> TAKE x \in ToSet(w)
    <3>1. PICK j \in 1 .. Len(w) : w[j] = x
      BY <1>2 DEF ToSet
    <3>2. j + Len(u) \in 1 .. Len(u) + Len(w) /\ ~(j + Len(u) <= Len(u)) /\ (j + Len(u)) - Len(u) = j
      BY <1>2
    <3>3. (u \o w)[j + Len(u)] = x
      BY <1>1, <3>1, <3>2
    <3> QED BY <1>2, <3>2, <3>3 DEF ToSet
  <2> QED BY <2>1, <2>2, <2>3
<1> QED BY <1>1, <1>4, <1>5

\* Sorted sequences, one behind the other, are sorted if each comes before the next.
LEMMA FlattenSorted ==
  ASSUME NEW S, NEW seqs \in Seq(Seq(S)), NEW R,
         \A i \in DOMAIN seqs : Sorted(R, seqs[i]),
         \A i, j \in DOMAIN seqs : i < j =>
            \A x \in ToSet(seqs[i]), y \in ToSet(seqs[j]) : <<x, y>> \in R
  PROVE  /\ FlattenSeq(seqs) \in Seq(S) /\ Sorted(R, FlattenSeq(seqs))
         /\ ToSet(FlattenSeq(seqs)) = UNION {ToSet(seqs[i]) : i \in DOMAIN seqs}
<1> DEFINE n == Len(seqs)
           F == FlatFun(seqs)
           Union(i) == UNION {ToSet(seqs[j]) : j \in 1 .. i}
           Is(i) == F[i] \in Seq(S) /\ Sorted(R, F[i]) /\ ToSet(F[i]) = Union(i)
<1>1. n \in Nat /\ DOMAIN seqs = 1 .. n /\ \A i \in 1 .. n : seqs[i] \in Seq(S)
  BY ElementOfSeq
<1>2. \A i \in 1 .. n : F[i] = IF i = 1 THEN seqs[i] ELSE F[i - 1] \o seqs[i]
  BY FlatFunIs
<1>3. CASE n = 0
  <2>1. FlattenSeq(seqs) = seqs /\ seqs = <<>>
    BY <1>3, EmptySeq DEF FlattenSeq
  <2> QED BY <2>1 DEF Sorted, ToSet
<1>4. CASE n # 0
  <2>1. FlattenSeq(seqs) = F[n]
    BY <1>4 DEF FlattenSeq, FlatFun
  <2>2. ASSUME NEW i \in 1 .. n, i = 1 \/ Is(i - 1) PROVE Is(i)
    <3>1. CASE i = 1
      <4>1. F[i] = seqs[1] /\ Union(i) = ToSet(seqs[1])
        BY <1>2, <3>1
      <4> QED BY <1>1, <1>4, <3>1, <4>1
    <3>2. CASE i # 1
      <4> DEFINE u == F[i - 1]
                 w == seqs[i]
      <4>1. u \in Seq(S) /\ Sorted(R, u) /\ ToSet(u) = Union(i - 1)
        BY <2>2, <3>2
      <4>2. w \in Seq(S) /\ Sorted(R, w) /\ F[i] = u \o w
        BY <1>1, <1>2, <3>2
      <4>3. Union(i) = Union(i - 1) \cup ToSet(w)
        <5>1. \A j \in 1 .. i : j = i \/ j \in 1 .. i - 1
          BY <1>1
        <5>2. \A j \in 1 .. i - 1 : j \in 1 .. i
          BY <1>1
        <5>3. i \in 1 .. i
          BY <1>1
        <5> QED BY <5>1, <5>2, <5>3
      <4>4. \A x \in ToSet(u), y \in ToSet(w) : <<x, y>> \in R
        <5>1. \A j \in 1 .. i - 1 : j \in 1 .. n /\ j < i
          BY <1>1
        <5> QED BY <1>1, <4>1, <5>1
      <4> HIDE DEF u, w, Union, F
      <4>5. u \o w \in Seq(S) /\ Sorted(R, u \o w) /\ ToSet(u \o w) = ToSet(u) \cup ToSet(w)
        BY <4>1, <4>2, <4>4, ConcatSorted
      <4> QED BY <4>1, <4>2, <4>3, <4>5
    <3> QED BY <3>1, <3>2
  <2>3. \A i \in 1 .. n : Is(i)
    <3> DEFINE bad == {i \in 1 .. n : ~Is(i)}
    <3> HIDE DEF Is
    <3> SUFFICES ASSUME bad # {} PROVE FALSE
      OBVIOUS
    <3>1. bad \in SUBSET Nat
      OBVIOUS
    <3>2. PICK i \in bad : \A k \in bad : i <= k
      BY <3>1, NatSetHasMin
    <3>3. i = 1 \/ i - 1 \in 1 .. n
      BY <1>1, <3>2
    <3>4. i - 1 \notin bad
      BY <1>1, <3>2
    <3> QED BY <2>2, <3>2, <3>3, <3>4
  <2>4. Is(n)
    <3>1. n \in 1 .. n
      BY <1>1, <1>4
    <3> HIDE DEF Is, n
    <3> QED BY <2>3, <3>1
  <2>5. Union(n) = UNION {ToSet(seqs[i]) : i \in DOMAIN seqs}
    BY <1>1
  <2> QED BY <2>1, <2>4, <2>5
<1> QED BY <1>3, <1>4

\* The children of the pages in s.
NextLevel(f, s) == FlattenSeq([i \in DOMAIN s |-> Children(f, s[i])])

LEMMA ChildrenAre ==
  ASSUME NEW f, FileOK(f), NEW s \in Seq(Ids(f))
  PROVE  [i \in DOMAIN s |-> Children(f, s[i])] \in Seq(Seq(Ids(f)))
<1>1. Len(s) \in Nat /\ DOMAIN s = 1 .. Len(s) /\ \A i \in DOMAIN s : s[i] \in Ids(f)
  BY ElementOfSeq
<1>2. ASSUME NEW p \in Ids(f) PROVE Children(f, p) \in Seq(Ids(f))
  <2>1. CASE f[p].kind = "internal"
    BY <2>1, KidsAre DEF Ids
  <2>2. CASE f[p].kind # "internal"
    <3>1. Children(f, p) = <<>>
      BY <2>2 DEF Children, ReadPage, Ids
    <3> QED BY <3>1
  <2> QED BY <2>1, <2>2
<1> QED BY <1>1, <1>2

LEMMA LevelsAre ==
  ASSUME NEW f, FileOK(f), NEW c \in Ids(f)
  PROVE  /\ Level(f, c)[0] = <<c>>
         /\ \A d \in Nat : /\ Level(f, c)[d] \in Seq(Ids(f))
                           /\ Level(f, c)[d + 1] = NextLevel(f, Level(f, c)[d])
<1> DEFINE X == Seq(Ids(f))
           base == <<c>>
           step == [m \in Nat |-> [s \in X |-> NextLevel(f, s)]]
<1>1. \A s \in X : NextLevel(f, s) \in X
  <2> SUFFICES ASSUME NEW s \in X PROVE NextLevel(f, s) \in X
    OBVIOUS
  <2> DEFINE seqs == [i \in DOMAIN s |-> Children(f, s[i])]
             R == Ids(f) \X Ids(f)
  <2>1. seqs \in Seq(Seq(Ids(f)))
    BY ChildrenAre
  <2> HIDE DEF seqs
  <2>2. \A i \in DOMAIN seqs : seqs[i] \in Seq(Ids(f)) /\ \A j \in DOMAIN seqs[i] : seqs[i][j] \in Ids(f)
    BY <2>1, ElementOfSeq
  <2>3. \A i \in DOMAIN seqs : Sorted(R, seqs[i])
    BY <2>2 DEF Sorted
  <2>4. \A i, j \in DOMAIN seqs : \A x \in ToSet(seqs[i]), y \in ToSet(seqs[j]) : <<x, y>> \in R
    BY <2>2 DEF ToSet
  <2> HIDE DEF R
  <2>5. FlattenSeq(seqs) \in Seq(Ids(f))
    BY <2>1, <2>3, <2>4, FlattenSorted
  <2> QED BY <2>5 DEF NextLevel, seqs
<1>2. base \in X /\ step \in [Nat -> [X -> X]]
  BY <1>1
<1>3. PICK h : h \in [Nat -> X] /\ h[0] = base /\ \A n \in Nat : h[n + 1] = step[n][h[n]]
  <2> HIDE DEF X, step, base
  <2>1. PICK h : IsRun(h, X, base, step)
    BY <1>2, Recursion
  <2> QED BY <2>1 DEF IsRun
<1> DEFINE Row(r, d) == IF d = 0 THEN base ELSE NextLevel(f, r[d - 1])
<1>4. \A n \in Nat : h[n + 1] = NextLevel(f, h[n])
  <2> SUFFICES ASSUME NEW n \in Nat PROVE h[n + 1] = NextLevel(f, h[n])
    OBVIOUS
  <2>1. h[n + 1] = step[n][h[n]] /\ h[n] \in X
    <3> HIDE DEF step, X
    <3> QED BY <1>3
  <2>2. step[n] = [s \in X |-> NextLevel(f, s)]
    OBVIOUS
  <2> HIDE DEF step, X
  <2> QED BY <2>1, <2>2
<1>5. h = [d \in Nat |-> Row(h, d)]
  <2>1. \A d \in Nat : h[d] = Row(h, d)
    <3> TAKE d \in Nat
    <3>1. CASE d = 0
      BY <1>3, <3>1
    <3>2. CASE d # 0
      <4>1. d - 1 \in Nat /\ (d - 1) + 1 = d
        BY <3>2
      <4>2. h[(d - 1) + 1] = NextLevel(f, h[d - 1])
        BY <1>4, <4>1
      <4> QED BY <3>2, <4>1, <4>2
    <3> QED BY <3>1, <3>2
  <2> HIDE DEF Row, X
  <2> QED BY <1>3, <2>1
<1>6. Level(f, c) = CHOOSE r : r = [d \in Nat |-> Row(r, d)]
  BY Zenon DEF Level, NextLevel
<1> HIDE DEF Row
<1>7. Level(f, c) = [d \in Nat |-> Row(Level(f, c), d)]
  BY <1>5, <1>6, Zenon
<1>8. \A d \in Nat : Level(f, c)[d] = Row(Level(f, c), d)
  BY <1>7, Zenon
<1> DEFINE L == Level(f, c)
<1>9. L[0] = <<c>>
  BY <1>8 DEF Row
<1>10. \A d \in Nat : L[d + 1] = NextLevel(f, L[d])
  <2> TAKE d \in Nat
  <2>1. d + 1 \in Nat /\ d + 1 # 0 /\ (d + 1) - 1 = d
    OBVIOUS
  <2>2. L[d + 1] = Row(L, d + 1)
    BY <1>8, <2>1
  <2> HIDE DEF L
  <2> QED BY <2>1, <2>2 DEF Row
<1> HIDE DEF L
<1>11. \A d \in Nat : L[d] \in X
  <2> DEFINE bad == {d \in Nat : L[d] \notin X}
  <2> SUFFICES ASSUME bad # {} PROVE FALSE
    OBVIOUS
  <2>1. PICK d \in bad : \A e \in bad : d <= e
    BY NatSetHasMin
  <2>2. d # 0
    BY <1>2, <1>9, <2>1
  <2>3. d - 1 \in Nat /\ (d - 1) + 1 = d /\ d - 1 \notin bad
    BY <2>1, <2>2
  <2>4. L[d - 1] \in X /\ L[d] = NextLevel(f, L[d - 1])
    <3>1. L[(d - 1) + 1] = NextLevel(f, L[d - 1])
      BY <1>10, <2>3
    <3> QED BY <2>3, <3>1
  <2> QED BY <1>1, <2>1, <2>4
<1> QED BY <1>9, <1>10, <1>11 DEF L

\* Each key below p comes before each key below q.
KeyOrder(f) == {x \in Ids(f) \X Ids(f) : \A j \in KeysUnder(f, x[1]), k \in KeysUnder(f, x[2]) : j < k}

LEMMA InKeyOrder ==
  ASSUME NEW f, NEW p \in Ids(f), NEW q \in Ids(f)
  PROVE  <<p, q>> \in KeyOrder(f) <=> \A j \in KeysUnder(f, p), k \in KeysUnder(f, q) : j < k
BY DEF KeyOrder

LEMMA KidsSorted ==
  ASSUME NEW f, FileOK(f), NEW c, IsTree(f, c), IsSearch(f, c),
         NEW p \in TreePages(f, c), f[p].kind = "internal"
  PROVE  Sorted(KeyOrder(f), f[p].children)
<1> DEFINE n == f[p]
           s == n.keys
<1>1. /\ p \in DOMAIN f /\ KidsOf(n) = Kids(f, p) /\ Routes(f, n) /\ n \in InternalNodes(Ids(f))
  BY TreePage, KindOf DEF IsSearch
<1>2. /\ s \in Seq(Key) /\ n.children \in Seq(Ids(f)) /\ Len(n.children) = Len(s) + 1
      /\ Distinct(n.children) /\ Ascends(s)
  BY <1>1 DEF InternalNodes, Routes
<1>3. /\ Len(s) \in Nat /\ DOMAIN s = 1 .. Len(s) /\ DOMAIN n.children = 1 .. Len(s) + 1
      /\ \A i \in DOMAIN n.children : n.children[i] \in Ids(f)
  BY <1>2, ElementOfSeq
<1>4. \A i \in 1 .. Len(s) : s[i] \in Nat
  BY <1>2, KeysAreNat
<1>5. ASSUME NEW i \in DOMAIN n.children, NEW j \in KeysUnder(f, n.children[i])
      PROVE  /\ j \in Nat /\ IsCount(s, j, i - 1)
  <2>1. n.children[i] \in KidsOf(n)
    BY <1>1, <1>5 DEF KidsOf, ToSet
  <2>2. j \in Key
    <3>1. IsTree(f, n.children[i])
      BY <1>1, <2>1, TreeBelow
    <3> QED BY <3>1, KeysAre
  <2>3. j \in Nat
    BY <2>2, KeyAssumption
  <2>4. ChildFor(n, j) = n.children[i]
    BY <1>1, <2>1 DEF Routes
  <2> DEFINE b == BisectRight(s, j)
  <2>5. n.children[b + 1] = n.children[i]
    BY <2>4 DEF ChildFor
  <2>6. IsCount(s, j, b)
    BY <1>2, <2>3, BisectCounts
  <2> HIDE DEF b
  <2>7. b \in 0 .. Len(s)
    BY <2>6 DEF IsCount
  <2>8. b + 1 \in DOMAIN n.children /\ b \in Nat
    BY <1>3, <2>7
  <2>9. b + 1 = i
    BY <1>2, <2>5, <2>8 DEF Distinct
  <2>10. b = i - 1
    BY <2>8, <2>9
  <2> QED BY <2>3, <2>6, <2>10
<1> SUFFICES ASSUME NEW a \in DOMAIN n.children, NEW b \in DOMAIN n.children, a < b,
                    NEW j \in KeysUnder(f, n.children[a]), NEW k \in KeysUnder(f, n.children[b])
             PROVE  j < k
  BY <1>3, InKeyOrder DEF Sorted
<1>6. j \in Nat /\ k \in Nat /\ IsCount(s, j, a - 1) /\ IsCount(s, k, b - 1)
  BY <1>5
<1> DEFINE i == b - 1
<1>7. i \in 1 .. Len(s) /\ i <= b - 1 /\ ~(i <= a - 1)
  BY <1>3
<1>8. s[i] <= k
  BY <1>6, <1>7 DEF IsCount
<1>9. ~(s[i] <= j)
  BY <1>6, <1>7 DEF IsCount
<1>10. s[i] \in Nat
  BY <1>4, <1>7
<1> QED BY <1>6, <1>8, <1>9, <1>10

LevelOK(f, c, h, d) ==
    /\ \A i \in DOMAIN Level(f, c)[d] :
          Level(f, c)[d][i] \in TreePages(f, c) /\ IsTall(f, Level(f, c)[d][i], h - d)
    /\ Sorted(KeyOrder(f), Level(f, c)[d])

LEMMA LevelNext ==
  ASSUME NEW f, FileOK(f), NEW c, IsTree(f, c), IsSearch(f, c), NEW h \in Nat, NEW d \in Nat, d < h,
         LevelOK(f, c, h, d)
  PROVE  LevelOK(f, c, h, d + 1)
<1> DEFINE s == Level(f, c)[d]
           t == Level(f, c)[d + 1]
           seqs == [i \in DOMAIN s |-> Children(f, s[i])]
           R == KeyOrder(f)
<1>1. c \in Ids(f)
  BY DEF IsTree
<1>2. s \in Seq(Ids(f)) /\ t = FlattenSeq(seqs)
  BY <1>1, LevelsAre DEF NextLevel
<1>3. \A i \in DOMAIN s : s[i] \in TreePages(f, c) /\ IsTall(f, s[i], h - d)
  BY DEF LevelOK
<1>4. Sorted(R, s)
  BY DEF LevelOK
<1> DEFINE e == h - (d + 1)
<1>5. h - d \in Nat /\ h - d # 0 /\ (h - d) - 1 = e
  OBVIOUS
<1> HIDE DEF e, R, s, t
<1>6. ASSUME NEW i \in DOMAIN s
      PROVE  /\ seqs[i] = f[s[i]].children /\ ToSet(seqs[i]) = Kids(f, s[i]) /\ Sorted(R, seqs[i])
             /\ \A k \in Kids(f, s[i]) : /\ k \in TreePages(f, c) /\ IsTall(f, k, e)
                                         /\ KeysUnder(f, k) \subseteq KeysUnder(f, s[i])
  <2> DEFINE p == s[i]
  <2>1. /\ p \in TreePages(f, c) /\ IsTall(f, p, h - d) /\ p \in Ids(f) /\ p \in DOMAIN f
        /\ KidsOf(f[p]) = Kids(f, p) /\ IsTree(f, p)
    BY <1>3, TreePage
  <2> HIDE DEF p
  <2>2. f[p].kind = "internal" /\ \A k \in KidsOf(f[p]) : IsTall(f, k, e)
    BY <1>5, <2>1, TallSplits DEF TallNode
  <2>3. Children(f, p) = f[p].children /\ Kids(f, p) = ToSet(f[p].children)
    BY <2>1, <2>2, KidsAre DEF Kids
  <2>4. Sorted(R, f[p].children)
    BY <2>1, <2>2, KidsSorted DEF R
  <2>5. \A k \in Kids(f, p) : k \in TreePages(f, c) /\ TreePages(f, k) \subseteq TreePages(f, p)
    BY <2>1, TreeBelow
  <2>6. \A k \in Kids(f, p) : KeysUnder(f, k) \subseteq KeysUnder(f, p)
    BY <2>5 DEF KeysUnder
  <2> QED BY <2>1, <2>2, <2>3, <2>4, <2>5, <2>6 DEF p
<1>7. seqs \in Seq(Seq(Ids(f))) /\ DOMAIN seqs = DOMAIN s
  BY <1>2, ChildrenAre
<1> HIDE DEF seqs
<1>8. \A i \in DOMAIN seqs : Sorted(R, seqs[i])
  BY <1>6, <1>7
<1>9. \A i, j \in DOMAIN seqs : i < j => \A x \in ToSet(seqs[i]), y \in ToSet(seqs[j]) : <<x, y>> \in R
  <2> SUFFICES ASSUME NEW i \in DOMAIN seqs, NEW j \in DOMAIN seqs, i < j,
                      NEW x \in ToSet(seqs[i]), NEW y \in ToSet(seqs[j])
               PROVE  <<x, y>> \in R
    OBVIOUS
  <2>1. x \in TreePages(f, c) /\ KeysUnder(f, x) \subseteq KeysUnder(f, s[i])
    BY <1>6, <1>7
  <2>2. y \in TreePages(f, c) /\ KeysUnder(f, y) \subseteq KeysUnder(f, s[j])
    BY <1>6, <1>7
  <2>3. x \in Ids(f) /\ y \in Ids(f) /\ s[i] \in Ids(f) /\ s[j] \in Ids(f)
    BY <1>3, <1>7, <2>1, <2>2, TreePage
  <2>4. <<s[i], s[j]>> \in R
    BY <1>4, <1>7 DEF Sorted
  <2> QED BY <2>1, <2>2, <2>3, <2>4, InKeyOrder DEF R
<1>10. Sorted(R, t) /\ ToSet(t) = UNION {ToSet(seqs[i]) : i \in DOMAIN seqs}
  BY <1>2, <1>7, <1>8, <1>9, FlattenSorted DEF t, seqs
<1>11. \A k \in ToSet(t) : k \in TreePages(f, c) /\ IsTall(f, k, e)
  BY <1>6, <1>7, <1>10
<1>12. \A i \in DOMAIN t : t[i] \in TreePages(f, c) /\ IsTall(f, t[i], e)
  BY <1>11 DEF ToSet
<1> QED BY <1>10, <1>12 DEF LevelOK, t, R, e

LEMMA LevelsAreOK ==
  ASSUME NEW f, FileOK(f), NEW c, IsTree(f, c), IsSearch(f, c), NEW h \in Nat, IsTall(f, c, h)
  PROVE  \A d \in 0 .. h : LevelOK(f, c, h, d)
<1> DEFINE bad == {d \in 0 .. h : ~LevelOK(f, c, h, d)}
<1> SUFFICES ASSUME bad # {} PROVE FALSE
  OBVIOUS
<1>1. PICK d \in bad : \A e \in bad : d <= e
  <2>1. bad \in SUBSET Nat
    OBVIOUS
  <2> QED BY <2>1, NatSetHasMin
<1>2. LevelOK(f, c, h, 0)
  <2>1. c \in Ids(f) /\ c \in TreePages(f, c)
    BY TreeBasics DEF IsTree
  <2>2. Level(f, c)[0] = <<c>> /\ h - 0 = h
    BY <2>1, LevelsAre
  <2> QED BY <2>1, <2>2 DEF LevelOK, Sorted
<1>3. d - 1 \in Nat /\ (d - 1) + 1 = d /\ d - 1 < h /\ d - 1 \in 0 .. h /\ d - 1 \notin bad
  <2>1. d # 0 /\ d \in 0 .. h
    BY <1>1, <1>2
  <2>2. d - 1 \in Nat /\ (d - 1) + 1 = d /\ d - 1 < h /\ d - 1 \in 0 .. h /\ ~(d <= d - 1)
    BY <2>1
  <2> QED BY <1>1, <2>2
<1>4. LevelOK(f, c, h, d - 1)
  BY <1>3
<1>5. LevelOK(f, c, h, (d - 1) + 1)
  BY <1>3, <1>4, LevelNext
<1> QED BY <1>1, <1>3, <1>5

\* The keys of the leaves, from left to right.
LEMMA LeafKeysAscend ==
  ASSUME NEW f, FileOK(f), NEW c, IsTree(f, c), IsSearch(f, c), NEW s \in Seq(Ids(f)),
         \A i \in DOMAIN s : s[i] \in TreePages(f, c), Sorted(KeyOrder(f), s),
         NEW keys, keys = FlattenSeq([i \in DOMAIN s |-> ReadPage(f, s[i]).keys])
  PROVE  Ascends(keys)
<1> DEFINE seqs == [i \in DOMAIN s |-> ReadPage(f, s[i]).keys]
           R == {x \in Key \X Key : x[1] < x[2]}
<1>1. Len(s) \in Nat /\ DOMAIN s = 1 .. Len(s) /\ DOMAIN seqs = DOMAIN s
  BY ElementOfSeq
<1>2. ASSUME NEW i \in DOMAIN s
      PROVE  /\ seqs[i] = f[s[i]].keys /\ seqs[i] \in Seq(Key) /\ Ascends(seqs[i])
             /\ ToSet(seqs[i]) \subseteq KeysUnder(f, s[i]) /\ ToSet(seqs[i]) \subseteq Key /\ s[i] \in Ids(f)
  <2>1. /\ s[i] \in TreePages(f, c) /\ s[i] \in DOMAIN f /\ s[i] \in Ids(f) /\ IsTree(f, s[i])
        /\ f[s[i]] \in TreeNodes(Ids(f))
    BY TreePage
  <2>2. seqs[i] = f[s[i]].keys
    BY <2>1 DEF ReadPage
  <2>3. Ascends(f[s[i]].keys)
    BY <2>1 DEF IsSearch, Routes
  <2> HIDE DEF seqs
  <2> QED BY <2>1, <2>2, <2>3, NodeKeysAre, KeysAre
<1>3. seqs \in Seq(Seq(Key))
  BY <1>1, <1>2
<1> HIDE DEF seqs
<1>4. \A i \in DOMAIN seqs : Sorted(R, seqs[i])
  <2> TAKE i \in DOMAIN seqs
  <2>1. seqs[i] \in Seq(Key) /\ Ascends(seqs[i])
    BY <1>1, <1>2
  <2>2. \A j \in DOMAIN seqs[i] : seqs[i][j] \in Key
    BY <2>1, ElementOfSeq
  <2> QED BY <2>1, <2>2 DEF Sorted, Ascends
<1>5. \A i, j \in DOMAIN seqs : i < j => \A x \in ToSet(seqs[i]), y \in ToSet(seqs[j]) : <<x, y>> \in R
  <2> SUFFICES ASSUME NEW i \in DOMAIN seqs, NEW j \in DOMAIN seqs, i < j,
                      NEW x \in ToSet(seqs[i]), NEW y \in ToSet(seqs[j])
               PROVE  <<x, y>> \in R
    OBVIOUS
  <2>1. <<s[i], s[j]>> \in KeyOrder(f)
    BY <1>1 DEF Sorted
  <2>2. x \in KeysUnder(f, s[i]) /\ y \in KeysUnder(f, s[j]) /\ x \in Key /\ y \in Key
        /\ s[i] \in Ids(f) /\ s[j] \in Ids(f)
    BY <1>1, <1>2
  <2>3. x < y
    BY <2>1, <2>2, InKeyOrder
  <2> QED BY <2>2, <2>3
<1>6. Sorted(R, FlattenSeq(seqs))
  <2> HIDE DEF R
  <2> QED BY <1>3, <1>4, <1>5, FlattenSorted
<1>7. \A a, b : <<a, b>> \in R => a < b
  OBVIOUS
<1>8. keys = FlattenSeq(seqs)
  BY DEF seqs
<1> HIDE DEF R
<1> QED BY <1>6, <1>7, <1>8 DEF Sorted, Ascends

LEMMA TreeIsSearchTree == CowInv /\ SearchInv => SearchTree
<1> SUFFICES ASSUME CowInv, SearchInv, IsOpen PROVE SearchTree
  BY DEF SearchTree
<1> DEFINE f == file
           c == header.root
           s == FileSize(f)
           L == Level(f, c)
<1>1. writer.pc # "closed"
  BY DEF IsOpen
<1>2. FileOK(f) /\ IsTree(f, c) /\ IsSearch(f, c) /\ IsLevel(f, c) /\ c \in Ids(f)
  BY <1>1 DEF CowInv, TreeInv, TreeInMemory, SearchInv, IsTree
<1>3. PICK h \in Nat : IsTall(f, c, h)
  BY <1>2 DEF IsLevel
<1>4. h \in 0 .. s
  <2>1. h < s /\ s \in Nat
    BY <1>2, <1>3, TallIsLow, FileSizeIs
  <2> QED BY <2>1
<1> DEFINE keys == FlattenSeq([i \in DOMAIN L[h] |-> ReadPage(f, L[h][i]).keys])
<1>5. \A d \in 0 .. h : LevelOK(f, c, h, d)
  BY <1>2, <1>3, LevelsAreOK
<1>6. ASSUME NEW d \in 0 .. h, NEW i \in DOMAIN L[d]
      PROVE  /\ L[d][i] \in TreePages(f, c) /\ L[d][i] \in Ids(f) /\ ReadPage(f, L[d][i]) = f[L[d][i]]
             /\ TallNode(f, f[L[d][i]], h - d)
  <2> DEFINE p == L[d][i]
  <2>1. p \in TreePages(f, c) /\ IsTall(f, p, h - d)
    BY <1>5 DEF LevelOK
  <2>2. p \in Ids(f) /\ p \in DOMAIN f
    BY <1>2, <2>1, TreePage
  <2>3. h - d \in Nat
    OBVIOUS
  <2> HIDE DEF p, L, f
  <2>4. TallNode(f, f[p], h - d)
    BY <2>1, <2>2, <2>3, TallSplits
  <2> QED BY <2>1, <2>2, <2>4 DEF ReadPage, p
<1> HIDE DEF f, c, s, L
<1>7. ASSUME NEW d \in 0 .. (h - 1), NEW i \in DOMAIN L[d]
      PROVE  /\ ReadPage(f, L[d][i]).kind = "internal"
             /\ Len(ReadPage(f, L[d][i]).children) = Len(ReadPage(f, L[d][i]).keys) + 1
  <2>1. d \in 0 .. h /\ h - d # 0
    BY <1>4
  <2> DEFINE p == L[d][i]
  <2>2. p \in Ids(f) /\ ReadPage(f, p) = f[p] /\ TallNode(f, f[p], h - d)
    BY <1>6, <2>1
  <2> HIDE DEF p
  <2>3. f[p].kind = "internal" /\ p \in DOMAIN f
    BY <2>1, <2>2 DEF TallNode, Ids
  <2>4. f[p] \in InternalNodes(Ids(f))
    BY <1>2, <2>3, KindOf
  <2> QED BY <2>2, <2>3, <2>4 DEF InternalNodes, p
<1>8. h \in 0 .. h /\ h - h = 0
  BY <1>4
<1>9. \A i \in DOMAIN L[h] : ReadPage(f, L[h][i]).kind = "leaf"
  BY <1>6, <1>8 DEF TallNode
<1>10. Ascends(keys)
  <2>1. L[h] \in Seq(Ids(f))
    BY <1>2, LevelsAre DEF L
  <2>2. \A i \in DOMAIN L[h] : L[h][i] \in TreePages(f, c)
    BY <1>6, <1>8
  <2>3. Sorted(KeyOrder(f), L[h])
    BY <1>5, <1>8 DEF LevelOK, L
  <2> QED BY <1>2, <2>1, <2>2, <2>3, LeafKeysAscend
<1> HIDE DEF keys
<1>11. \A i, j \in DOMAIN keys : i < j => keys[i] < keys[j]
  BY <1>10 DEF Ascends
<1> QED BY <1>4, <1>7, <1>9, <1>11 DEF SearchTree, f, c, s, L, keys

\* The tree that gets see is a search tree whose leaves are at one depth and
\* whose keys ascend, after every split, exception and kill, however deep it is.
THEOREM SearchTreeHolds == Spec => []SearchTree
<1>1. BothInv /\ SearchInv => SearchTree
  BY TreeIsSearchTree DEF BothInv
<1> QED BY <1>1, SearchInvariance, PTL

=============================================================================
