--------------------------- MODULE CowBTreeProofs ---------------------------
(***************************************************************************)
(* The pages of the tree, of the free list, of the retired versions and of *)
(* the put under way stay apart, for every size of pages, any keys and     *)
(* values, and any number of gets and puts: CowBTree implements            *)
(* PageVersions, a process that is killed anywhere leaves a tree and a     *)
(* list, and no page gets lost but by a kill or an exception.              *)
(*                                                                         *)
(* First come lemmas about the operators of CowBTree that walk through     *)
(* pages (TreePages, ListPages, FreeIds), copy, split and allocate nodes,  *)
(* and collect retired pages.  Reached follows links for as many rounds as *)
(* there are pages.  That these are enough, so that it returns the least   *)
(* set of pages that has the start and is closed under the links, is where *)
(* they begin: IsReach is all that the rest needs of it.                   *)
(*                                                                         *)
(* Then there is a lemma per action, which says that the action keeps the  *)
(* invariant CowInv and which action of PageVersions it is.                *)
(***************************************************************************)
EXTENDS CowBTree, Integers, FiniteSetTheorems, SequenceTheorems, WellFoundedInduction, TLAPS

-----------------------------------------------------------------------------
(* Functions that are defined by recursion on the naturals.                *)

\* A set of naturals that is not empty has a least element.
LEMMA NatSetHasMin ==
  ASSUME NEW S \in SUBSET Nat, S # {}
  PROVE  \E m \in S : \A k \in S : m <= k
<1>1. PICK m \in S : \A k \in S : ~(<<k, m>> \in OpToRel(<, Nat))
  BY NatLessThanWellFounded, WFMin
<1>2. \A x, y \in Nat : x < y => <<x, y>> \in OpToRel(<, Nat)
  BY DEF OpToRel
<1>3. \A k \in S : ~(k < m)
  BY <1>1, <1>2
<1> QED BY <1>3

IsRun(h, X, base, step) ==
    h \in [Nat -> X] /\ h[0] = base /\ \A n \in Nat : h[n + 1] = step[n][h[n]]

\* Functions on the naturals can be defined by recursion.
LEMMA Recursion ==
  ASSUME NEW X, NEW base \in X, NEW step \in [Nat -> [X -> X]]
  PROVE  \E h : IsRun(h, X, base, step)
<1> DEFINE Begins(n, g) == g \in [0 .. n -> X] /\ g[0] = base
                           /\ \A m \in 0 .. (n - 1) : g[m + 1] = step[m][g[m]]
<1>1. \A n \in Nat : \E g : Begins(n, g)
  <2> DEFINE bad == {n \in Nat : ~\E g : Begins(n, g)}
  <2> SUFFICES ASSUME bad # {} PROVE FALSE
    OBVIOUS
  <2>1. PICK n \in bad : \A k \in bad : n <= k
    BY NatSetHasMin
  <2>2. CASE n = 0
    <3>1. Begins(0, [i \in 0 .. 0 |-> base])
      OBVIOUS
    <3> QED BY <2>1, <2>2, <3>1
  <2>3. CASE n # 0
    <3>1. n - 1 \in Nat /\ n - 1 \notin bad
      BY <2>1, <2>3
    <3>2. PICK g : Begins(n - 1, g)
      BY <3>1
    <3>3. Begins(n, [i \in 0 .. n |-> IF i = n THEN step[n - 1][g[n - 1]] ELSE g[i]])
      <4> DEFINE e == [i \in 0 .. n |-> IF i = n THEN step[n - 1][g[n - 1]] ELSE g[i]]
      <4>1. n \in Nat /\ n # 0
        BY <2>3, <2>1
      <4>2. step[n - 1][g[n - 1]] \in X
        BY <3>1, <3>2, <4>1
      <4>3. e \in [0 .. n -> X] /\ e[0] = base
        BY <3>2, <4>1, <4>2
      <4>4. ASSUME NEW m \in 0 .. (n - 1) PROVE e[m + 1] = step[m][e[m]]
        <5>1. CASE m = n - 1
          BY <4>1, <5>1
        <5>2. CASE m # n - 1
          <6>1. m \in 0 .. ((n - 1) - 1) /\ m + 1 # n /\ m # n /\ m + 1 \in 0 .. n
            BY <4>1, <5>2
          <6> QED BY <3>2, <6>1
        <5> QED BY <5>1, <5>2
      <4> QED BY <4>3, <4>4
    <3> QED BY <2>1, <3>3
  <2> QED BY <2>2, <2>3
<1>2. ASSUME NEW n \in Nat, NEW k \in Nat, NEW g, NEW e, Begins(n, g), Begins(k, e), n <= k
      PROVE  g[n] = e[n]
  <2> DEFINE bad == {m \in Nat : m <= n /\ g[m] # e[m]}
  <2> SUFFICES ASSUME bad # {} PROVE FALSE
    OBVIOUS
  <2>1. PICK m \in bad : \A j \in bad : m <= j
    BY NatSetHasMin
  <2>2. m # 0
    BY <1>2, <2>1
  <2>3. m - 1 \in Nat /\ m - 1 \notin bad
    BY <2>1, <2>2
  <2>4. g[m - 1] = e[m - 1]
    BY <2>1, <2>3
  <2>5. m - 1 \in 0 .. (n - 1) /\ m - 1 \in 0 .. (k - 1) /\ (m - 1) + 1 = m
    BY <1>2, <2>1, <2>2
  <2>6. g[m] = step[m - 1][g[m - 1]] /\ e[m] = step[m - 1][e[m - 1]]
    BY <1>2, <2>5
  <2> QED BY <2>1, <2>4, <2>6
<1> DEFINE approx == [n \in Nat |-> CHOOSE g : Begins(n, g)]
           h == [n \in Nat |-> approx[n][n]]
<1>3. \A n \in Nat : Begins(n, approx[n])
  BY <1>1
<1> HIDE DEF approx
<1>4. h \in [Nat -> X] /\ h[0] = base
  <2>1. \A n \in Nat : n \in 0 .. n /\ 0 \in 0 .. n
    OBVIOUS
  <2> QED BY <1>3, <2>1
<1>5. ASSUME NEW n \in Nat PROVE h[n + 1] = step[n][h[n]]
  <2>1. Begins(n, approx[n]) /\ Begins(n + 1, approx[n + 1])
    BY <1>3
  <2> HIDE DEF Begins
  <2>2. approx[n][n] = approx[n + 1][n]
    BY <1>2, <2>1
  <2>3. approx[n + 1][n + 1] = step[n][approx[n + 1][n]]
    BY <2>1 DEF Begins
  <2> QED BY <2>2, <2>3
<1> QED BY <1>4, <1>5 DEF IsRun

-----------------------------------------------------------------------------
(* What is reached by links.                                               *)

ReachedFun(links) ==
    LET reached[n \in Nat] ==
            [todo \in SUBSET Nat |-> [seen \in SUBSET Nat |->
                IF n = 0 \/ todo = {} THEN seen
                ELSE LET next == UNION {links[p] : p \in todo}
                     IN  reached[n - 1][next \ (seen \cup todo)][seen \cup todo]]]
    IN  reached

Named(links, S) == UNION {links[p] : p \in S}

LEMMA ReachedFunIs ==
  ASSUME NEW links \in [Nat -> SUBSET Nat]
  PROVE  \A n \in Nat, todo \in SUBSET Nat, seen \in SUBSET Nat :
           ReachedFun(links)[n][todo][seen] =
            IF n = 0 \/ todo = {} THEN seen
            ELSE ReachedFun(links)[n - 1][Named(links, todo) \ (seen \cup todo)][seen \cup todo]
<1> DEFINE X == [SUBSET Nat -> [SUBSET Nat -> SUBSET Nat]]
           step == [n \in Nat |-> [g \in X |->
                      [todo \in SUBSET Nat |-> [seen \in SUBSET Nat |->
                          IF todo = {} THEN seen
                          ELSE g[Named(links, todo) \ (seen \cup todo)][seen \cup todo]]]]]
           base == [todo \in SUBSET Nat |-> [seen \in SUBSET Nat |-> seen]]
<1>1. \A S \in SUBSET Nat : Named(links, S) \in SUBSET Nat
  BY DEF Named
<1>2. base \in X
  OBVIOUS
<1>3. step \in [Nat -> [X -> X]]
  <2>1. ASSUME NEW g \in X, NEW todo \in SUBSET Nat, NEW seen \in SUBSET Nat
        PROVE  g[Named(links, todo) \ (seen \cup todo)][seen \cup todo] \in SUBSET Nat
    <3>1. Named(links, todo) \ (seen \cup todo) \in SUBSET Nat /\ seen \cup todo \in SUBSET Nat
      BY <1>1
    <3>2. g[Named(links, todo) \ (seen \cup todo)] \in [SUBSET Nat -> SUBSET Nat]
      BY <3>1
    <3> QED BY <3>1, <3>2
  <2> QED BY <2>1
<1>4. PICK h : h \in [Nat -> X] /\ h[0] = base /\ \A n \in Nat : h[n + 1] = step[n][h[n]]
  <2> HIDE DEF X, step, base
  <2>1. PICK h : IsRun(h, X, base, step)
    BY <1>2, <1>3, Recursion
  <2> QED BY <2>1 DEF IsRun
<1>5. h = [n \in Nat |-> [todo \in SUBSET Nat |-> [seen \in SUBSET Nat |->
            IF n = 0 \/ todo = {} THEN seen
            ELSE h[n - 1][Named(links, todo) \ (seen \cup todo)][seen \cup todo]]]]
  <2>1. ASSUME NEW n \in Nat
        PROVE  h[n] = [todo \in SUBSET Nat |-> [seen \in SUBSET Nat |->
            IF n = 0 \/ todo = {} THEN seen
            ELSE h[n - 1][Named(links, todo) \ (seen \cup todo)][seen \cup todo]]]
    <3>1. CASE n = 0
      BY <1>4, <3>1
    <3>2. CASE n # 0
      <4>1. n - 1 \in Nat /\ (n - 1) + 1 = n
        BY <3>2
      <4>2. h[n] = step[n - 1][h[n - 1]] /\ h[n - 1] \in X
        <5> HIDE DEF step, X
        <5> QED BY <1>4, <4>1
      <4>3. step[n - 1][h[n - 1]] =
              [todo \in SUBSET Nat |-> [seen \in SUBSET Nat |->
                 IF todo = {} THEN seen
                 ELSE h[n - 1][Named(links, todo) \ (seen \cup todo)][seen \cup todo]]]
        <5> HIDE DEF X
        <5> QED BY <4>1, <4>2, Zenon
      <4> QED BY <3>2, <4>2, <4>3
    <3> QED BY <3>1, <3>2
  <2>2. h = [n \in Nat |-> h[n]]
    BY <1>4
  <2> HIDE DEF X
  <2> QED BY <2>1, <2>2, Zenon
<1>6. ReachedFun(links) = CHOOSE r : r = [n \in Nat |-> [todo \in SUBSET Nat |-> [seen \in SUBSET Nat |->
            IF n = 0 \/ todo = {} THEN seen
            ELSE r[n - 1][Named(links, todo) \ (seen \cup todo)][seen \cup todo]]]]
  BY Zenon DEF ReachedFun, Named
<1>7. ReachedFun(links) = [n \in Nat |-> [todo \in SUBSET Nat |-> [seen \in SUBSET Nat |->
            IF n = 0 \/ todo = {} THEN seen
            ELSE ReachedFun(links)[n - 1][Named(links, todo) \ (seen \cup todo)][seen \cup todo]]]]
  <2> HIDE DEF X
  <2> QED BY <1>5, <1>6, Zenon
<1> DEFINE Row(r, n, todo) == [seen \in SUBSET Nat |->
              IF n = 0 \/ todo = {} THEN seen
              ELSE r[n - 1][Named(links, todo) \ (seen \cup todo)][seen \cup todo]]
           Table(r, n) == [todo \in SUBSET Nat |-> Row(r, n, todo)]
<1> SUFFICES ASSUME NEW n \in Nat, NEW todo \in SUBSET Nat, NEW seen \in SUBSET Nat
             PROVE  ReachedFun(links)[n][todo][seen] =
                      IF n = 0 \/ todo = {} THEN seen
                      ELSE ReachedFun(links)[n - 1][Named(links, todo) \ (seen \cup todo)][seen \cup todo]
  OBVIOUS
<1>8. ReachedFun(links)[n] = Table(ReachedFun(links), n)
  <2>1. ReachedFun(links) = [m \in Nat |-> Table(ReachedFun(links), m)]
    BY <1>7, Zenon
  <2> HIDE DEF Table
  <2> QED BY <2>1, Zenon
<1>9. Table(ReachedFun(links), n)[todo] = Row(ReachedFun(links), n, todo)
  <2> HIDE DEF Row
  <2> QED BY Zenon
<1>10. Row(ReachedFun(links), n, todo)[seen] =
         IF n = 0 \/ todo = {} THEN seen
         ELSE ReachedFun(links)[n - 1][Named(links, todo) \ (seen \cup todo)][seen \cup todo]
  BY Zenon
<1> QED BY <1>8, <1>9, <1>10, Zenon

LEMMA ReachedByFun ==
  ASSUME NEW links, NEW start, NEW size
  PROVE  Reached(links, start, size) = ReachedFun(links)[1 + size][start][{}]
BY DEF Reached, ReachedFun

\* A set is what is reached if it is the least one that is closed.
Closed(links, S) == \A p \in S : links[p] \subseteq S

IsReach(links, start, R) ==
    /\ R \in SUBSET Nat /\ start \subseteq R /\ Closed(links, R)
    /\ \A S \in SUBSET Nat : start \subseteq S /\ Closed(links, S) => R \subseteq S

\* The fuel of Reached is enough: each round but the last finds a page.
LEMMA ReachedIsReach ==
  ASSUME NEW links \in [Nat -> SUBSET Nat], NEW D \in SUBSET Nat, IsFiniteSet(D),
         \A p \in Nat : links[p] \subseteq D, NEW start \in SUBSET D
  PROVE  IsReach(links, start, Reached(links, start, Cardinality(D)))
<1> DEFINE RF == ReachedFun(links)
           Enough(n, todo, seen) ==
              /\ todo \cap seen = {} /\ todo \subseteq D /\ Cardinality(D \ seen) <= n
              /\ Named(links, seen) \subseteq seen \cup todo
           P(n, todo, seen) ==
              /\ RF[n][todo][seen] \in SUBSET Nat /\ seen \subseteq RF[n][todo][seen]
              /\ n # 0 => todo \subseteq RF[n][todo][seen]
              /\ \A S \in SUBSET Nat :
                    seen \cup todo \subseteq S /\ Closed(links, S) => RF[n][todo][seen] \subseteq S
              /\ Enough(n, todo, seen) => Closed(links, RF[n][todo][seen])
           Q(n) == \A todo \in SUBSET Nat, seen \in SUBSET Nat : P(n, todo, seen)
<1>0. \A n \in Nat, todo \in SUBSET Nat, seen \in SUBSET Nat :
           RF[n][todo][seen] = IF n = 0 \/ todo = {} THEN seen
                              ELSE RF[n - 1][Named(links, todo) \ (seen \cup todo)][seen \cup todo]
  BY ReachedFunIs, Zenon
<1>1. \A S : IsFiniteSet(D \ S) /\ Cardinality(D \ S) \in Nat
  BY FS_Difference, FS_CardinalityType
<1>2. \A S \in SUBSET Nat : Named(links, S) \in SUBSET Nat /\ Named(links, S) \subseteq D
  BY DEF Named
<1>3. \A S \in SUBSET Nat : Closed(links, S) <=> Named(links, S) \subseteq S
  BY DEF Closed, Named
<1>4. ASSUME NEW n \in Nat, n = 0 \/ Q(n - 1) PROVE Q(n)
  <2> SUFFICES ASSUME NEW todo \in SUBSET Nat, NEW seen \in SUBSET Nat PROVE P(n, todo, seen)
    OBVIOUS
  <2>1. CASE n = 0 \/ todo = {}
    <3>1. RF[n][todo][seen] = seen
      <4> HIDE DEF RF
      <4>1. RF[n][todo][seen] = IF n = 0 \/ todo = {} THEN seen
                              ELSE RF[n - 1][Named(links, todo) \ (seen \cup todo)][seen \cup todo]
        BY <1>0
      <4> QED BY <4>1, <2>1
    <3>2. ASSUME Enough(n, todo, seen) PROVE Closed(links, seen)
      <4>1. todo = {}
        <5>1. CASE n = 0
          <6>1. D \ seen = {}
            <7> DEFINE rest == D \ seen
            <7>1. IsFiniteSet(rest) /\ Cardinality(rest) \in Nat /\ Cardinality(rest) <= 0
              BY <1>1, <3>2, <5>1
            <7> HIDE DEF rest
            <7>2. rest = {}
              BY <7>1, FS_EmptySet
            <7> QED BY <7>2 DEF rest
          <6> QED BY <3>2, <6>1
        <5> QED BY <2>1, <5>1
      <4> QED BY <1>3, <3>2, <4>1
    <3>3. n # 0 => todo = {}
      BY <2>1
    <3> HIDE DEF Enough, RF
    <3> QED BY <3>1, <3>2, <3>3
  <2>2. CASE n # 0 /\ todo # {}
    <3> DEFINE next == Named(links, todo) \ (seen \cup todo)
               both == seen \cup todo
    <3>1. n - 1 \in Nat /\ next \in SUBSET Nat /\ both \in SUBSET Nat /\ next \subseteq D
      BY <1>2, <2>2
    <3>2. RF[n][todo][seen] = RF[n - 1][next][both]
      <4> HIDE DEF RF
      <4>1. RF[n][todo][seen] = IF n = 0 \/ todo = {} THEN seen
                              ELSE RF[n - 1][Named(links, todo) \ (seen \cup todo)][seen \cup todo]
        BY <1>0
      <4> QED BY <4>1, <2>2
    <3>3. P(n - 1, next, both)
      BY <1>4, <2>2, <3>1
    <3>4. ASSUME NEW S \in SUBSET Nat, seen \cup todo \subseteq S, Closed(links, S)
          PROVE  both \cup next \subseteq S
      BY <1>3, <3>4 DEF Named
    <3>5. ASSUME Enough(n, todo, seen) PROVE Enough(n - 1, next, both)
      <4>1. next \cap both = {} /\ Named(links, both) \subseteq both \cup next
        BY <3>5 DEF Named
      <4>2. PICK x : x \in todo
        BY <2>2
      <4>3. /\ Cardinality((D \ seen) \ {x}) = Cardinality(D \ seen) - 1
        BY <1>1, <3>5, <4>2, FS_RemoveElement
      <4>4. D \ both \subseteq (D \ seen) \ {x}
        BY <4>2
      <4>5. Cardinality(D \ both) <= Cardinality((D \ seen) \ {x})
        <5>1. IsFiniteSet((D \ seen) \ {x})
          BY <1>1, FS_Difference
        <5> QED BY <4>4, <5>1, FS_Subset
      <4>6. Cardinality(D \ both) <= n - 1
        <5>1. Cardinality(D \ both) \in Nat /\ Cardinality(D \ seen) \in Nat
          BY <1>1
        <5>2. Cardinality(D \ seen) <= n
          BY <3>5
        <5> HIDE DEF both
        <5> QED BY <4>3, <4>5, <5>1, <5>2
      <4> HIDE DEF next, both
      <4> QED BY <3>1, <4>1, <4>6
    <3>6. seen \subseteq both /\ todo \subseteq both
      OBVIOUS
    <3>7. both \subseteq RF[n - 1][next][both] /\ RF[n - 1][next][both] \in SUBSET Nat
      BY <3>3
    <3>8. \A S \in SUBSET Nat :
             both \cup next \subseteq S /\ Closed(links, S) => RF[n - 1][next][both] \subseteq S
      BY <3>3
    <3>9. Enough(n - 1, next, both) => Closed(links, RF[n - 1][next][both])
      BY <3>3
    <3> HIDE DEF Enough, RF, next, both
    <3> QED BY <3>2, <3>4, <3>5, <3>6, <3>7, <3>8, <3>9
  <2> QED BY <2>1, <2>2
<1>5. \A n \in Nat : Q(n)
  <2> DEFINE bad == {n \in Nat : ~Q(n)}
  <2> HIDE DEF Q
  <2> SUFFICES ASSUME bad # {} PROVE FALSE
    OBVIOUS
  <2>1. PICK n \in bad : \A k \in bad : n <= k
    BY NatSetHasMin
  <2>2. n # 0 => n - 1 \in Nat /\ n - 1 \notin bad
    BY <2>1
  <2> QED BY <1>4, <2>1, <2>2
<1> DEFINE c == Cardinality(D)
<1>6. c \in Nat /\ 1 + c \in Nat /\ 1 + c # 0
  BY FS_CardinalityType
<1>7. P(1 + c, start, {})
  BY <1>5, <1>6
<1>8. Enough(1 + c, start, {})
  <2>1. D \ {} = D
    OBVIOUS
  <2> QED BY <1>6, <2>1 DEF Named
<1>9. Reached(links, start, c) = RF[1 + c][start][{}]
  BY ReachedByFun
<1> HIDE DEF c, RF, Enough
<1>10. start \subseteq Reached(links, start, c) /\ Closed(links, Reached(links, start, c))
  BY <1>6, <1>7, <1>8, <1>9
<1>11. \A S \in SUBSET Nat : start \subseteq S /\ Closed(links, S) => Reached(links, start, c) \subseteq S
  BY <1>7, <1>9
<1>12. Reached(links, start, c) \in SUBSET Nat
  BY <1>7, <1>9
<1> QED BY <1>10, <1>11, <1>12 DEF IsReach, c

\* FlattenSeq puts the sequences one behind the other.
FlatFun(seqs) ==
    LET flatten[i \in 1..Len(seqs)] == IF i = 1 THEN seqs[i] ELSE flatten[i-1] \o seqs[i]
    IN  flatten

LEMMA FlatFunIs ==
  ASSUME NEW S, NEW seqs \in Seq(Seq(S))
  PROVE  \A i \in 1 .. Len(seqs) :
            FlatFun(seqs)[i] = IF i = 1 THEN seqs[i] ELSE FlatFun(seqs)[i - 1] \o seqs[i]
<1> DEFINE n == Len(seqs)
           step == [m \in Nat |-> [s \in Seq(S) |-> IF m \in 1 .. n THEN s \o seqs[m] ELSE s]]
<1>1. n \in Nat /\ \A i \in 1 .. n : seqs[i] \in Seq(S)
  BY ElementOfSeq
<1>2. step \in [Nat -> [Seq(S) -> Seq(S)]] /\ <<>> \in Seq(S)
  BY <1>1
<1>3. PICK h : h \in [Nat -> Seq(S)] /\ h[0] = <<>> /\ \A m \in Nat : h[m + 1] = step[m + 1][h[m]]
  <2> DEFINE next == [m \in Nat |-> step[m + 1]]
             X == Seq(S)
             base == <<>>
  <2>1. next \in [Nat -> [X -> X]] /\ base \in X
    BY <1>2
  <2>2. \A m \in Nat : next[m] = step[m + 1]
    OBVIOUS
  <2> HIDE DEF next, step, X, base
  <2>3. PICK h : IsRun(h, X, base, next)
    BY <2>1, Recursion
  <2>4. h \in [Nat -> X] /\ h[0] = base /\ \A m \in Nat : h[m + 1] = step[m + 1][h[m]]
    BY <2>2, <2>3 DEF IsRun
  <2> QED BY <2>4 DEF X, base
<1> DEFINE g == [i \in 1 .. n |-> h[i]]
<1>4. g = [i \in 1 .. n |-> IF i = 1 THEN seqs[i] ELSE g[i - 1] \o seqs[i]]
  <2> SUFFICES ASSUME NEW i \in 1 .. n
               PROVE  h[i] = IF i = 1 THEN seqs[i] ELSE g[i - 1] \o seqs[i]
    OBVIOUS
  <2>1. i - 1 \in Nat /\ (i - 1) + 1 = i
    BY <1>1
  <2>2. h[i] = step[i][h[i - 1]] /\ h[i - 1] \in Seq(S)
    <3> HIDE DEF step
    <3> QED BY <1>3, <2>1
  <2>3. h[i] = h[i - 1] \o seqs[i]
    <3>1. step[i] = [s \in Seq(S) |-> s \o seqs[i]]
      BY <1>1
    <3> HIDE DEF step
    <3> QED BY <2>2, <3>1
  <2>4. CASE i = 1
    <3>1. h[i] = <<>> \o seqs[i]
      <4>1. i - 1 = 0 /\ h[0] = <<>>
        BY <1>3, <2>4
      <4> QED BY <2>3, <4>1
    <3> QED BY <1>1, <2>4, <3>1, ConcatEmptySeq
  <2>5. CASE i # 1
    <3>1. i - 1 \in 1 .. n
      BY <1>1, <2>5
    <3> QED BY <2>3, <2>5, <3>1
  <2> QED BY <2>4, <2>5
<1>5. FlatFun(seqs) = CHOOSE r : r = [i \in 1 .. n |-> IF i = 1 THEN seqs[i] ELSE r[i - 1] \o seqs[i]]
  BY Zenon DEF FlatFun
<1>6. FlatFun(seqs) = [i \in 1 .. n |-> IF i = 1 THEN seqs[i] ELSE FlatFun(seqs)[i - 1] \o seqs[i]]
  <2> HIDE DEF n, g
  <2> QED BY <1>4, <1>5, Zenon
<1> DEFINE Row(i) == IF i = 1 THEN seqs[i] ELSE FlatFun(seqs)[i - 1] \o seqs[i]
<1>7. FlatFun(seqs) = [i \in 1 .. n |-> Row(i)]
  BY <1>6, Zenon
<1>8. \A i \in 1 .. n : FlatFun(seqs)[i] = Row(i)
  <2> HIDE DEF Row
  <2> QED BY <1>7
<1> QED BY <1>8

-----------------------------------------------------------------------------
(* Trees of links.                                                         *)

\* A page is rooted when it is the root of a tree of links: every page that is
\* reached from it has one parent at most, and the root has none.
IsRooted(links, c, A) ==
    /\ IsReach(links, {c}, A)
    /\ \A p, q \in A : \A k \in links[p] : k \in links[q] => p = q
    /\ \A p \in A : c \notin links[p]

LEMMA ReachUnique ==
  ASSUME NEW links, NEW start, NEW A, NEW B, IsReach(links, start, A), IsReach(links, start, B)
  PROVE  A = B
BY DEF IsReach

\* What is reached and is not the start has a parent among what is reached.
LEMMA HasParent ==
  ASSUME NEW links, NEW c, NEW A, IsReach(links, {c}, A), NEW k \in A, k # c
  PROVE  \E p \in A : k \in links[p]
<1> SUFFICES ASSUME \A p \in A : k \notin links[p] PROVE FALSE
  OBVIOUS
<1>1. A \ {k} \in SUBSET Nat /\ {c} \subseteq A \ {k} /\ Closed(links, A \ {k})
  BY DEF IsReach, Closed
<1> QED BY <1>1 DEF IsReach

LEMMA ReachWithin ==
  ASSUME NEW links, NEW c, NEW A, IsReach(links, {c}, A), NEW k \in A,
         NEW B, IsReach(links, {k}, B)
  PROVE  B \subseteq A
BY DEF IsReach

Below(links, b, c) == UNION {b[k] : k \in links[c]}

\* What is reached from a page is the page and what is reached from its links.
LEMMA ReachSplits ==
  ASSUME NEW links \in [Nat -> SUBSET Nat], NEW c \in Nat, NEW A, IsReach(links, {c}, A),
         NEW b, \A k \in links[c] : IsReach(links, {k}, b[k])
  PROVE  A = {c} \cup Below(links, b, c)
<1> DEFINE S == {c} \cup UNION {b[k] : k \in links[c]}
<1>1. S \in SUBSET Nat
  BY DEF IsReach
<1>2. \A k \in links[c] : k \in b[k] /\ b[k] \subseteq S /\ Closed(links, b[k])
  BY DEF IsReach
<1>3. Closed(links, S)
  <2> SUFFICES ASSUME NEW p \in S PROVE links[p] \subseteq S
    BY DEF Closed
  <2>1. CASE p = c
    BY <1>2, <2>1
  <2>2. CASE p # c
    <3>1. PICK k \in links[c] : p \in b[k]
      BY <2>2
    <3>2. links[p] \subseteq b[k]
      BY <1>2, <3>1 DEF Closed
    <3> QED BY <1>2, <3>2
  <2> QED BY <2>1, <2>2
<1>4. A \subseteq S
  <2> HIDE DEF S
  <2>1. {c} \subseteq S
    BY DEF S
  <2> QED BY <1>1, <1>3, <2>1 DEF IsReach
<1>5. c \in A /\ \A k \in links[c] : k \in A
  BY DEF IsReach, Closed
<1>6. \A k \in links[c] : b[k] \subseteq A
  BY <1>5, ReachWithin
<1> QED BY <1>4, <1>5, <1>6 DEF Below

\* No page is reached from a page that it names.
LEMMA NoCycle ==
  ASSUME NEW links, NEW c, NEW A, IsRooted(links, c, A),
         NEW p \in A, NEW k \in links[p], NEW B, IsReach(links, {k}, B)
  PROVE  p \notin B
<1> SUFFICES ASSUME p \in B PROVE FALSE
  OBVIOUS
<1>1. IsReach(links, {c}, A)
  BY DEF IsRooted
<1>2. k \in A
  BY <1>1 DEF IsReach, Closed
<1>3. B \subseteq A
  BY <1>1, <1>2, ReachWithin
<1>4. c \notin B
  <2> SUFFICES ASSUME c \in B PROVE FALSE
    OBVIOUS
  <2>1. CASE c = k
    BY <2>1 DEF IsRooted
  <2>2. CASE c # k
    <3>1. \E q \in B : c \in links[q]
      BY <2>2, HasParent
    <3> QED BY <1>3, <3>1 DEF IsRooted
  <2> QED BY <2>1, <2>2
<1>5. Closed(links, A \ B)
  <2> SUFFICES ASSUME NEW x \in A \ B, NEW z \in links[x], z \in B PROVE FALSE
    BY <1>1 DEF Closed, IsReach
  <2>1. CASE z = k
    <3>1. x = p
      BY <2>1 DEF IsRooted
    <3> QED BY <3>1
  <2>2. CASE z # k
    <3>1. PICK y \in B : z \in links[y]
      BY <2>2, HasParent
    <3>2. x = y
      BY <1>3, <3>1 DEF IsRooted
    <3> QED BY <3>2
  <2> QED BY <2>1, <2>2
<1>6. A \ B \in SUBSET Nat /\ {c} \subseteq A \ B
  BY <1>1, <1>4 DEF IsReach
<1>7. A \subseteq A \ B
  BY <1>1, <1>5, <1>6 DEF IsReach
<1>8. k \in B
  BY DEF IsReach
<1> QED BY <1>2, <1>7, <1>8

\* A page below a root is a root.
LEMMA RootedBelow ==
  ASSUME NEW links, NEW c, NEW A, IsRooted(links, c, A),
         NEW p \in A, NEW B, IsReach(links, {p}, B)
  PROVE  IsRooted(links, p, B)
<1>1. B \subseteq A
  BY ReachWithin DEF IsRooted
<1>2. ASSUME NEW q \in B, p \in links[q] PROVE FALSE
  <2>1. q \notin B
    BY <1>1, <1>2, NoCycle
  <2> QED BY <2>1
<1> QED BY <1>1, <1>2 DEF IsRooted

\* What two links of a page lead to is disjoint.
LEMMA SiblingsApart ==
  ASSUME NEW links, NEW c, NEW A, IsRooted(links, c, A), NEW p \in A,
         NEW k \in links[p], NEW l \in links[p], k # l,
         NEW B, IsReach(links, {k}, B), NEW C, IsReach(links, {l}, C)
  PROVE  B \cap C = {}
<1>1. IsReach(links, {c}, A)
  BY DEF IsRooted
<1>2. k \in A /\ l \in A /\ p \in A
  BY <1>1 DEF IsReach, Closed
<1>3. B \subseteq A /\ C \subseteq A
  BY <1>1, <1>2, ReachWithin
<1>4. p \notin B /\ p \notin C
  BY NoCycle
<1>5. k \notin C
  <2> SUFFICES ASSUME k \in C PROVE FALSE
    OBVIOUS
  <2>1. PICK y \in C : k \in links[y]
    BY HasParent
  <2>2. y = p
    BY <1>3, <2>1 DEF IsRooted
  <2> QED BY <1>4, <2>2
<1>6. Closed(links, B \ C)
  <2> SUFFICES ASSUME NEW x \in B \ C, NEW z \in links[x], z \in C PROVE FALSE
    BY DEF Closed, IsReach
  <2>1. CASE z = l
    <3>1. x = p
      BY <1>3, <2>1 DEF IsRooted
    <3> QED BY <1>4, <3>1
  <2>2. CASE z # l
    <3>1. PICK y \in C : z \in links[y]
      BY <2>2, HasParent
    <3>2. x = y
      BY <1>3, <3>1 DEF IsRooted
    <3> QED BY <3>2
  <2> QED BY <2>1, <2>2
<1>7. B \ C \in SUBSET Nat /\ {k} \subseteq B \ C
  BY <1>5 DEF IsReach
<1>8. B \subseteq B \ C
  BY <1>6, <1>7 DEF IsReach
<1> QED BY <1>8

\* A page over roots that share nothing is a root.
LEMMA RootedAbove ==
  ASSUME NEW links \in [Nat -> SUBSET Nat], NEW c \in Nat, NEW b,
         \A k \in links[c] : IsRooted(links, k, b[k]) /\ c \notin b[k],
         \A k, l \in links[c] : k # l => b[k] \cap b[l] = {}
  PROVE  IsRooted(links, c, {c} \cup UNION {b[k] : k \in links[c]})
<1> DEFINE A == {c} \cup UNION {b[k] : k \in links[c]}
<1>1. \A k \in links[c] : k \in b[k] /\ b[k] \subseteq A /\ Closed(links, b[k]) /\ b[k] \in SUBSET Nat
  BY DEF IsReach, IsRooted
<1>2. A \in SUBSET Nat
  BY <1>1
<1>3. \A p \in A : p = c \/ \E k \in links[c] : p \in b[k] /\ links[p] \subseteq b[k]
  BY <1>1 DEF Closed
<1>4. Closed(links, A)
  <2> SUFFICES ASSUME NEW p \in A PROVE links[p] \subseteq A
    BY DEF Closed
  <2>1. CASE p = c
    BY <1>1, <2>1
  <2>2. CASE p # c
    <3>1. PICK k \in links[c] : links[p] \subseteq b[k]
      BY <1>3, <2>2
    <3> QED BY <1>1, <3>1
  <2> QED BY <2>1, <2>2
<1>5. ASSUME NEW S \in SUBSET Nat, {c} \subseteq S, Closed(links, S) PROVE A \subseteq S
  <2>1. \A k \in links[c] : k \in S
    BY <1>5 DEF Closed
  <2>2. \A k \in links[c] : b[k] \subseteq S
    BY <1>5, <2>1 DEF IsRooted, IsReach
  <2> QED BY <1>5, <2>2
<1>6. ASSUME NEW q \in A, NEW k, k \in links[c], k \in links[q] PROVE q = c
  <2> SUFFICES ASSUME q # c PROVE FALSE
    OBVIOUS
  <2>1. PICK l \in links[c] : q \in b[l] /\ links[q] \subseteq b[l]
    BY <1>3
  <2>2. k \in b[k] /\ k \in b[l]
    BY <1>1, <1>6, <2>1
  <2>3. k = l
    BY <1>6, <2>2
  <2> QED BY <1>6, <2>1, <2>3 DEF IsRooted
<1>7. ASSUME NEW p \in A, NEW q \in A, NEW k, k \in links[p], k \in links[q] PROVE p = q
  <2>1. CASE p = c \/ q = c
    BY <1>6, <1>7, <2>1
  <2>2. CASE p # c /\ q # c
    <3>1. PICK l \in links[c] : p \in b[l] /\ links[p] \subseteq b[l]
      BY <1>3, <2>2
    <3>2. PICK m \in links[c] : q \in b[m] /\ links[q] \subseteq b[m]
      BY <1>3, <2>2
    <3>3. l = m
      BY <1>7, <3>1, <3>2
    <3> QED BY <1>7, <3>1, <3>2, <3>3 DEF IsRooted
  <2> QED BY <2>1, <2>2
<1>8. ASSUME NEW p \in A, c \in links[p] PROVE FALSE
  <2>1. CASE p = c
    BY <1>1, <1>8, <2>1
  <2>2. CASE p # c
    <3>1. PICK l \in links[c] : links[p] \subseteq b[l]
      BY <1>3, <2>2
    <3> QED BY <1>8, <3>1
  <2> QED BY <2>1, <2>2
<1> HIDE DEF A
<1>9. IsReach(links, {c}, A)
  <2>1. {c} \subseteq A
    BY DEF A
  <2> QED BY <1>2, <1>4, <1>5, <2>1 DEF IsReach
<1>10. IsRooted(links, c, A)
  BY <1>7, <1>8, <1>9 DEF IsRooted
<1> QED BY <1>10 DEF A

\* What is reached depends on the links of the pages that are reached.
LEMMA ReachLocal ==
  ASSUME NEW links, NEW other, NEW start, NEW A, IsReach(links, start, A),
         \A p \in A : other[p] = links[p]
  PROVE  IsReach(other, start, A)
<1>1. ASSUME NEW S \in SUBSET Nat, start \subseteq S, Closed(other, S) PROVE A \subseteq S
  <2>1. Closed(links, S \cap A) /\ S \cap A \in SUBSET Nat /\ start \subseteq S \cap A
    BY <1>1 DEF Closed, IsReach
  <2> QED BY <2>1 DEF IsReach
<1> QED BY <1>1 DEF IsReach, Closed

LEMMA RootedLocal ==
  ASSUME NEW links, NEW other, NEW c, NEW A, IsRooted(links, c, A),
         \A p \in A : other[p] = links[p]
  PROVE  IsRooted(other, c, A)
BY ReachLocal DEF IsRooted

-----------------------------------------------------------------------------
(* The pages of a file, and the tree.                                      *)

Ids(f) == DOMAIN f \ {0}

LeafNodes ==
    {n \in [kind : {"leaf"}, keys : Seq(Key), values : Seq(Value)] : Len(n.keys) = Len(n.values)}

Distinct(s) == \A i, j \in DOMAIN s : s[i] = s[j] => i = j

InternalNodes(P) ==
    {n \in [kind : {"internal"}, keys : Seq(Key), children : Seq(P)] :
        Len(n.children) = Len(n.keys) + 1 /\ Distinct(n.children)}

FreeLists(P) ==
    {n \in [kind : {"freelist"}, id : P, next : P \cup {0}, ids : Seq(P)] : Len(n.ids) <= MaxIdsPerPage}

Headers(P) == [kind : {"header"}, root : P, head : P \cup {0}]

TreeNodes(P) == LeafNodes \cup InternalNodes(P)

PageOK(f, p) ==
    \/ f[p] = Blank
    \/ f[p] \in TreeNodes(Ids(f)) /\ ~TooLarge(f[p])
    \/ f[p] \in FreeLists(Ids(f)) /\ f[p].id = p

FileOK(f) ==
    /\ \E n \in Nat : DOMAIN f = 0 .. n
    /\ f[0] = Blank \/ f[0] \in Headers(Ids(f))
    /\ \A p \in Ids(f) : PageOK(f, p)

LEMMA FileSizeIs ==
  ASSUME NEW f, FileOK(f)
  PROVE  /\ IsFiniteSet(DOMAIN f) /\ DOMAIN f \subseteq Nat /\ 0 \in DOMAIN f
         /\ FileSize(f) \in Nat /\ FileSize(f) # 0 /\ FileSize(f) \notin DOMAIN f
         /\ DOMAIN f = 0 .. (FileSize(f) - 1)
         /\ DOMAIN f \cup {FileSize(f)} = 0 .. FileSize(f)
<1>1. PICK n \in Nat : DOMAIN f = 0 .. n
  BY DEF FileOK
<1>2. IsFiniteSet(0 .. n) /\ Cardinality(0 .. n) = n + 1
  BY FS_Interval
<1> QED BY <1>1, <1>2 DEF FileSize

LEMMA KindsDiffer ==
  ASSUME NEW P, NEW n
  PROVE  /\ n = Blank => n.kind = "blank"
         /\ n \in LeafNodes => n.kind = "leaf"
         /\ n \in InternalNodes(P) => n.kind = "internal"
         /\ n \in FreeLists(P) => n.kind = "freelist"
         /\ n \in Headers(P) => n.kind = "header"
BY DEF Blank, LeafNodes, InternalNodes, FreeLists, Headers

\* What a page is follows from its kind.
LEMMA KindOf ==
  ASSUME NEW f, FileOK(f), NEW p \in DOMAIN f
  PROVE  /\ f[p].kind \in {"blank", "header", "leaf", "internal", "freelist"}
         /\ f[p].kind = "blank" => f[p] = Blank
         /\ f[p].kind = "header" => p = 0 /\ f[p] \in Headers(Ids(f))
         /\ f[p].kind = "leaf" => p # 0 /\ f[p] \in LeafNodes /\ ~TooLarge(f[p])
         /\ f[p].kind = "internal" => p # 0 /\ f[p] \in InternalNodes(Ids(f)) /\ ~TooLarge(f[p])
         /\ f[p].kind = "freelist" => p # 0 /\ f[p] \in FreeLists(Ids(f)) /\ f[p].id = p
<1>1. CASE p = 0
  BY <1>1, KindsDiffer DEF FileOK
<1>2. CASE p # 0
  <2>1. PageOK(f, p)
    BY <1>2 DEF FileOK, Ids
  <2> QED BY <1>2, <2>1, KindsDiffer DEF PageOK, TreeNodes
<1> QED BY <1>1, <1>2

-----------------------------------------------------------------------------
(* Trees.                                                                  *)

Kids(f, p) == ToSet(Children(f, p))

LEMMA KidsAre ==
  ASSUME NEW f, FileOK(f), NEW p
  PROVE  /\ Kids(f, p) \subseteq Ids(f)
         /\ p \in DOMAIN f /\ f[p].kind = "internal" =>
               /\ Children(f, p) = f[p].children /\ f[p].children \in Seq(Ids(f))
               /\ Kids(f, p) = {f[p].children[i] : i \in DOMAIN f[p].children}
         /\ ~(p \in DOMAIN f /\ f[p].kind = "internal") => Kids(f, p) = {}
<1>1. CASE p \in DOMAIN f /\ f[p].kind = "internal"
  <2>1. f[p] \in InternalNodes(Ids(f))
    BY <1>1, KindOf
  <2>2. Children(f, p) = f[p].children
    BY <1>1 DEF Children, ReadPage
  <2>3. f[p].children \in Seq(Ids(f))
    BY <2>1 DEF InternalNodes
  <2>4. \A i \in DOMAIN f[p].children : f[p].children[i] \in Ids(f)
    BY <2>3, ElementOfSeq
  <2> QED BY <1>1, <2>2, <2>3, <2>4 DEF Kids, ToSet
<1>2. CASE ~(p \in DOMAIN f /\ f[p].kind = "internal")
  <2>1. Children(f, p) = <<>>
    BY <1>2 DEF Children, ReadPage, Blank
  <2> QED BY <1>2, <2>1 DEF Kids, ToSet
<1> QED BY <1>1, <1>2

LEMMA TreeLinksAre ==
  ASSUME NEW f, FileOK(f)
  PROVE  /\ TreeLinks(f) \in [Nat -> SUBSET Nat]
         /\ \A p \in Nat : TreeLinks(f)[p] = Kids(f, p) /\ Kids(f, p) \subseteq Ids(f)
<1>1. \A p \in Nat : Kids(f, p) \subseteq Ids(f) /\ Kids(f, p) \in SUBSET Nat
  BY KidsAre, FileSizeIs DEF Ids
<1>2. TreeLinks(f) = [p \in Nat |-> Kids(f, p)]
  BY DEF TreeLinks, Kids
<1> QED BY <1>1, <1>2

LEMMA TreeIsReach ==
  ASSUME NEW f, FileOK(f), NEW c \in DOMAIN f
  PROVE  IsReach(TreeLinks(f), {c}, TreePages(f, c))
<1>1. \A p \in Nat : TreeLinks(f)[p] \subseteq DOMAIN f
  BY TreeLinksAre DEF Ids
<1>2. IsReach(TreeLinks(f), {c}, Reached(TreeLinks(f), {c}, Cardinality(DOMAIN f)))
  BY <1>1, TreeLinksAre, FileSizeIs, ReachedIsReach
<1> QED BY <1>2 DEF TreePages, FileSize

\* The pages of a tree: the least set with the root and the children of each.
LEMMA TreeBasics ==
  ASSUME NEW f, FileOK(f), NEW c \in Ids(f)
  PROVE  /\ c \in TreePages(f, c) /\ TreePages(f, c) \subseteq Ids(f)
         /\ \A p \in TreePages(f, c) : Kids(f, p) \subseteq TreePages(f, c)
<1>1. IsReach(TreeLinks(f), {c}, TreePages(f, c))
  BY TreeIsReach DEF Ids
<1>2. Ids(f) \in SUBSET Nat
  BY FileSizeIs DEF Ids
<1>3. Closed(TreeLinks(f), Ids(f)) /\ {c} \subseteq Ids(f)
  BY <1>2, TreeLinksAre DEF Closed
<1>4. TreePages(f, c) \subseteq Ids(f) /\ c \in TreePages(f, c)
  BY <1>1, <1>2, <1>3 DEF IsReach
<1>5. \A p \in TreePages(f, c) : p \in Nat /\ TreeLinks(f)[p] \subseteq TreePages(f, c)
  BY <1>1, <1>2, <1>4 DEF IsReach, Closed
<1> QED BY <1>4, <1>5, TreeLinksAre

IsTree(f, c) ==
    /\ c \in Ids(f)
    /\ IsRooted(TreeLinks(f), c, TreePages(f, c))
    /\ \A p \in TreePages(f, c) : f[p].kind \in {"leaf", "internal"}

LEMMA TreeSplits ==
  ASSUME NEW f, FileOK(f), NEW c \in Ids(f)
  PROVE  TreePages(f, c) = {c} \cup UNION {TreePages(f, k) : k \in Kids(f, c)}
<1> DEFINE b == [k \in DOMAIN f |-> TreePages(f, k)]
<1>1. c \in DOMAIN f /\ c \in Nat /\ TreeLinks(f)[c] = Kids(f, c) /\ Kids(f, c) \subseteq DOMAIN f
  BY FileSizeIs, TreeLinksAre DEF Ids
<1>2. \A k \in Kids(f, c) : b[k] = TreePages(f, k)
  BY <1>1
<1>3. \A k \in TreeLinks(f)[c] : IsReach(TreeLinks(f), {k}, b[k])
  BY <1>1, <1>2, TreeIsReach
<1>4. IsReach(TreeLinks(f), {c}, TreePages(f, c)) /\ TreeLinks(f) \in [Nat -> SUBSET Nat]
  BY <1>1, TreeIsReach, TreeLinksAre
<1>5. TreePages(f, c) = {c} \cup UNION {b[k] : k \in TreeLinks(f)[c]}
  <2> DEFINE L == TreeLinks(f)
             A == TreePages(f, c)
  <2>1. \A k \in L[c] : IsReach(L, {k}, b[k])
    BY <1>3
  <2>2. IsReach(L, {c}, A) /\ L \in [Nat -> SUBSET Nat] /\ c \in Nat
    BY <1>1, <1>4
  <2> HIDE DEF L, A, b
  <2>3. A = {c} \cup Below(L, b, c)
    BY <2>1, <2>2, ReachSplits
  <2> QED BY <2>3 DEF L, A, Below
<1> HIDE DEF b
<1> QED BY <1>1, <1>2, <1>5

\* Trees below a tree.
LEMMA TreeBelow ==
  ASSUME NEW f, FileOK(f), NEW c, IsTree(f, c), NEW p \in TreePages(f, c)
  PROVE  /\ IsTree(f, p) /\ TreePages(f, p) \subseteq TreePages(f, c)
         /\ Kids(f, p) \subseteq TreePages(f, c)
         /\ \A k \in Kids(f, p) : IsTree(f, k) /\ p \notin TreePages(f, k)
                                  /\ TreePages(f, k) \subseteq TreePages(f, p)
         /\ \A k, l \in Kids(f, p) : k # l => TreePages(f, k) \cap TreePages(f, l) = {}
<1>1. c \in Ids(f) /\ IsRooted(TreeLinks(f), c, TreePages(f, c))
  BY DEF IsTree
<1>2. \A q \in TreePages(f, c) : q \in Ids(f) /\ q \in DOMAIN f /\ q \in Nat
                               /\ TreeLinks(f)[q] = Kids(f, q) /\ Kids(f, q) \subseteq TreePages(f, c)
  BY <1>1, TreeBasics, TreeLinksAre, FileSizeIs DEF Ids
<1>3. \A q \in TreePages(f, c) : IsTree(f, q) /\ TreePages(f, q) \subseteq TreePages(f, c)
  <2> SUFFICES ASSUME NEW q \in TreePages(f, c)
               PROVE  IsTree(f, q) /\ TreePages(f, q) \subseteq TreePages(f, c)
    OBVIOUS
  <2>1. IsReach(TreeLinks(f), {q}, TreePages(f, q))
    BY <1>2, TreeIsReach
  <2>2. IsRooted(TreeLinks(f), q, TreePages(f, q))
    BY <1>1, <2>1, RootedBelow
  <2>3. TreePages(f, q) \subseteq TreePages(f, c)
    BY <1>1, <2>1, ReachWithin DEF IsRooted
  <2> QED BY <1>2, <2>2, <2>3 DEF IsTree
<1>4. \A k \in Kids(f, p) : IsReach(TreeLinks(f), {k}, TreePages(f, k)) /\ k \in TreeLinks(f)[p]
  BY <1>2, TreeIsReach
<1>5. \A k \in Kids(f, p) : p \notin TreePages(f, k)
  BY <1>1, <1>4, NoCycle
<1>6. \A k \in Kids(f, p) : TreePages(f, k) \subseteq TreePages(f, p)
  BY <1>2, TreeSplits
<1>7. \A k, l \in Kids(f, p) : k # l => TreePages(f, k) \cap TreePages(f, l) = {}
  BY <1>1, <1>4, SiblingsApart
<1> QED BY <1>2, <1>3, <1>5, <1>6, <1>7

\* A page over trees that share nothing is a tree.
LEMMA TreeAbove ==
  ASSUME NEW f, FileOK(f), NEW c \in Ids(f), f[c].kind \in {"leaf", "internal"},
         \A k \in Kids(f, c) : IsTree(f, k) /\ c \notin TreePages(f, k),
         \A k, l \in Kids(f, c) : k # l => TreePages(f, k) \cap TreePages(f, l) = {}
  PROVE  IsTree(f, c)
<1> DEFINE b == [k \in DOMAIN f |-> TreePages(f, k)]
<1>1. c \in DOMAIN f /\ c \in Nat /\ TreeLinks(f)[c] = Kids(f, c) /\ Kids(f, c) \subseteq DOMAIN f
  BY FileSizeIs, TreeLinksAre DEF Ids
<1>2. \A k \in Kids(f, c) : b[k] = TreePages(f, k)
  BY <1>1
<1>3. \A k \in TreeLinks(f)[c] : IsRooted(TreeLinks(f), k, b[k]) /\ c \notin b[k]
  BY <1>1, <1>2 DEF IsTree
<1>4. \A k, l \in TreeLinks(f)[c] : k # l => b[k] \cap b[l] = {}
  BY <1>1, <1>2
<1>5. TreeLinks(f) \in [Nat -> SUBSET Nat]
  BY TreeLinksAre
<1>6. TreePages(f, c) = {c} \cup UNION {b[k] : k \in TreeLinks(f)[c]}
  <2>1. {b[k] : k \in TreeLinks(f)[c]} = {TreePages(f, k) : k \in Kids(f, c)}
    BY <1>1, <1>2
  <2> QED BY <2>1, TreeSplits
<1>7. IsRooted(TreeLinks(f), c, {c} \cup UNION {b[k] : k \in TreeLinks(f)[c]})
  <2> HIDE DEF b
  <2> QED BY <1>1, <1>3, <1>4, <1>5, RootedAbove
<1>8. \A p \in TreePages(f, c) : f[p].kind \in {"leaf", "internal"}
  <2>1. \A p \in TreePages(f, c) : p = c \/ \E k \in Kids(f, c) : p \in TreePages(f, k)
    BY TreeSplits
  <2> QED BY <2>1 DEF IsTree
<1> QED BY <1>6, <1>7, <1>8 DEF IsTree

\* A tree is what its pages make it.
LEMMA TreeLocal ==
  ASSUME NEW f, NEW g, FileOK(f), FileOK(g), NEW c \in Ids(f),
         \A p \in TreePages(f, c) : p \in DOMAIN g /\ g[p] = f[p]
  PROVE  TreePages(g, c) = TreePages(f, c) /\ (IsTree(f, c) => IsTree(g, c))
<1>1. \A p \in TreePages(f, c) : p \in Nat /\ p \in DOMAIN f /\ p # 0
  BY TreeBasics, FileSizeIs DEF Ids
<1>2. \A p \in TreePages(f, c) : Children(g, p) = Children(f, p)
  BY <1>1 DEF Children, ReadPage
<1>3. \A p \in TreePages(f, c) : TreeLinks(g)[p] = TreeLinks(f)[p]
  BY <1>1, <1>2 DEF TreeLinks
<1>4. c \in DOMAIN f /\ c \in Ids(g) /\ c \in DOMAIN g
  BY TreeBasics DEF Ids
<1>5. IsReach(TreeLinks(f), {c}, TreePages(f, c)) /\ IsReach(TreeLinks(g), {c}, TreePages(g, c))
  BY <1>4, TreeIsReach
<1>6. IsReach(TreeLinks(g), {c}, TreePages(f, c))
  BY <1>3, <1>5, ReachLocal
<1>7. TreePages(g, c) = TreePages(f, c)
  BY <1>5, <1>6, ReachUnique
<1>8. ASSUME IsTree(f, c) PROVE IsTree(g, c)
  <2>1. IsRooted(TreeLinks(g), c, TreePages(f, c))
    BY <1>3, <1>8, RootedLocal DEF IsTree
  <2> QED BY <1>4, <1>7, <1>8, <2>1 DEF IsTree
<1> QED BY <1>7, <1>8

-----------------------------------------------------------------------------
(* The free list.                                                          *)

Nexts(f, p) == {ReadFreeList(f, p).next} \ {0}

IdsOf(f, p) == ReadFreeList(f, p).ids

IsList(f, h) ==
    h = 0 \/ /\ h \in Ids(f)
             /\ IsRooted(ListLinks(f), h, ListPages(f, h))
             /\ \A p \in ListPages(f, h) : f[p].kind = "freelist"

\* No id is in the list twice, and none is the id of a page of the list.
IdsAreApart(f, h) ==
    /\ \A p, q \in ListPages(f, h) : \A i \in DOMAIN IdsOf(f, p), j \in DOMAIN IdsOf(f, q) :
              IdsOf(f, p)[i] = IdsOf(f, q)[j] => p = q /\ i = j
    /\ FreeIds(f, h) \cap ListPages(f, h) = {}

ListOK(f, h) == IsList(f, h) /\ IdsAreApart(f, h)

LEMMA ReadIs ==
  ASSUME NEW f, FileOK(f), NEW p
  PROVE  /\ ReadFreeList(f, p).next \in Ids(f) \cup {0} /\ IdsOf(f, p) \in Seq(Ids(f))
         /\ Len(IdsOf(f, p)) <= MaxIdsPerPage \/ IdsOf(f, p) = <<>>
         /\ p \in DOMAIN f /\ f[p].kind = "freelist" =>
               ReadFreeList(f, p) = f[p] /\ f[p] \in FreeLists(Ids(f)) /\ f[p].id = p /\ p # 0
         /\ ~(p \in DOMAIN f /\ f[p].kind = "freelist") => ReadFreeList(f, p) = NoList
<1>1. CASE p \in DOMAIN f /\ f[p].kind = "freelist"
  <2>1. f[p] \in FreeLists(Ids(f)) /\ f[p].id = p /\ p # 0
    BY <1>1, KindOf
  <2>2. ReadFreeList(f, p) = f[p]
    BY <1>1 DEF ReadFreeList, ReadPage
  <2> QED BY <1>1, <2>1, <2>2 DEF FreeLists, IdsOf
<1>2. CASE ~(p \in DOMAIN f /\ f[p].kind = "freelist")
  <2>1. ReadFreeList(f, p) = NoList
    BY <1>2 DEF ReadFreeList, ReadPage, Blank
  <2> QED BY <1>2, <2>1 DEF NoList, FreeList, IdsOf
<1> QED BY <1>1, <1>2

LEMMA ListLinksAre ==
  ASSUME NEW f, FileOK(f)
  PROVE  /\ ListLinks(f) \in [Nat -> SUBSET Nat]
         /\ \A p \in Nat : ListLinks(f)[p] = Nexts(f, p) /\ Nexts(f, p) \subseteq Ids(f)
<1>1. \A p \in Nat : Nexts(f, p) \subseteq Ids(f) /\ Nexts(f, p) \in SUBSET Nat
  BY ReadIs, FileSizeIs DEF Ids, Nexts
<1>2. ListLinks(f) = [p \in Nat |-> Nexts(f, p)]
  BY DEF ListLinks, Nexts
<1> QED BY <1>1, <1>2

LEMMA ListOfNone ==
  ASSUME NEW f, FileOK(f)
  PROVE  ListPages(f, 0) = {} /\ FreeIds(f, 0) = {} /\ ListOK(f, 0)
<1>1. \A p \in Nat : ListLinks(f)[p] \subseteq DOMAIN f
  BY ListLinksAre DEF Ids
<1>2. {0} \ {0} \in SUBSET (DOMAIN f)
  OBVIOUS
<1>3. IsReach(ListLinks(f), {0} \ {0}, Reached(ListLinks(f), {0} \ {0}, Cardinality(DOMAIN f)))
  BY <1>1, <1>2, ListLinksAre, FileSizeIs, ReachedIsReach
<1>4. IsReach(ListLinks(f), {0} \ {0}, ListPages(f, 0))
  BY <1>3 DEF ListPages, FileSize
<1>5. ListPages(f, 0) \subseteq {}
  BY <1>4 DEF IsReach, Closed
<1> QED BY <1>5 DEF FreeIds, ListOK, IsList, IdsAreApart

LEMMA ListIsReach ==
  ASSUME NEW f, FileOK(f), NEW h \in Ids(f)
  PROVE  IsReach(ListLinks(f), {h}, ListPages(f, h))
<1>1. \A p \in Nat : ListLinks(f)[p] \subseteq DOMAIN f
  BY ListLinksAre DEF Ids
<1>2. {h} \in SUBSET (DOMAIN f) /\ {h} \ {0} = {h}
  BY DEF Ids
<1>3. IsReach(ListLinks(f), {h}, Reached(ListLinks(f), {h}, Cardinality(DOMAIN f)))
  BY <1>1, <1>2, ListLinksAre, FileSizeIs, ReachedIsReach
<1> QED BY <1>2, <1>3 DEF ListPages, FileSize

LEMMA ListBasics ==
  ASSUME NEW f, FileOK(f), NEW h \in Ids(f)
  PROVE  /\ h \in ListPages(f, h) /\ ListPages(f, h) \subseteq Ids(f)
         /\ \A p \in ListPages(f, h) : Nexts(f, p) \subseteq ListPages(f, h)
<1>1. IsReach(ListLinks(f), {h}, ListPages(f, h))
  BY ListIsReach
<1>2. Ids(f) \in SUBSET Nat
  BY FileSizeIs DEF Ids
<1>3. Closed(ListLinks(f), Ids(f)) /\ {h} \subseteq Ids(f)
  BY <1>2, ListLinksAre DEF Closed
<1>4. ListPages(f, h) \subseteq Ids(f) /\ h \in ListPages(f, h)
  BY <1>1, <1>2, <1>3 DEF IsReach
<1>5. \A p \in ListPages(f, h) : p \in Nat /\ ListLinks(f)[p] \subseteq ListPages(f, h)
  BY <1>1, <1>2, <1>4 DEF IsReach, Closed
<1> QED BY <1>4, <1>5, ListLinksAre

LEMMA ListTypes ==
  ASSUME NEW f, FileOK(f), NEW h \in Ids(f) \cup {0}
  PROVE  ListPages(f, h) \subseteq Ids(f) /\ FreeIds(f, h) \subseteq Ids(f)
<1>1. ListPages(f, h) \subseteq Ids(f)
  BY ListBasics, ListOfNone
<1>2. \A p : IdsOf(f, p) \in Seq(Ids(f))
  BY ReadIs
<1>3. \A p : \A i \in DOMAIN IdsOf(f, p) : IdsOf(f, p)[i] \in Ids(f)
  BY <1>2, ElementOfSeq
<1>4. FreeIds(f, h) = UNION {ToSet(IdsOf(f, p)) : p \in ListPages(f, h)}
  BY DEF FreeIds, IdsOf
<1> QED BY <1>1, <1>3, <1>4 DEF ToSet

\* The head page and the rest of the list.
LEMMA ListSplits ==
  ASSUME NEW f, FileOK(f), NEW h \in Ids(f), NEW next, ReadFreeList(f, h).next = next
  PROVE  ListPages(f, h) = {h} \cup ListPages(f, next)
<1> DEFINE b == [k \in DOMAIN f |-> ListPages(f, k)]
           L == ListLinks(f)
           A == ListPages(f, h)
<1>1. h \in Nat /\ L[h] = {next} \ {0} /\ L[h] \subseteq Ids(f) /\ L \in [Nat -> SUBSET Nat]
  BY FileSizeIs, ListLinksAre DEF Ids, Nexts
<1>2. \A k \in L[h] : b[k] = ListPages(f, k)
  BY <1>1 DEF Ids
<1>3. \A k \in L[h] : IsReach(L, {k}, b[k])
  BY <1>1, <1>2, ListIsReach
<1>4. IsReach(L, {h}, A)
  BY ListIsReach
<1>5. A = {h} \cup Below(L, b, h)
  <2> HIDE DEF L, A, b
  <2> QED BY <1>1, <1>3, <1>4, ReachSplits
<1>6. Below(L, b, h) = ListPages(f, next)
  <2>1. CASE next = 0
    BY <1>1, <2>1, ListOfNone DEF Below
  <2>2. CASE next # 0
    <3>1. L[h] = {next} /\ b[next] = ListPages(f, next)
      BY <1>1, <1>2, <2>2
    <3> HIDE DEF L, b
    <3> QED BY <3>1 DEF Below
  <2> QED BY <2>1, <2>2
<1> QED BY <1>5, <1>6

LEMMA ListBelow ==
  ASSUME NEW f, FileOK(f), NEW h, IsList(f, h), h # 0, NEW list, list = ReadFreeList(f, h)
  PROVE  /\ h \in Ids(f) /\ f[h].kind = "freelist" /\ list = f[h] /\ list \in FreeLists(Ids(f))
         /\ list.id = h /\ list.next \in Ids(f) \cup {0}
         /\ IsList(f, list.next) /\ h \notin ListPages(f, list.next) /\ h \in ListPages(f, h)
         /\ ListPages(f, h) = {h} \cup ListPages(f, list.next)
<1> DEFINE next == list.next
<1>1. h \in Ids(f) /\ h \in ListPages(f, h) /\ f[h].kind = "freelist" /\ h \in DOMAIN f
  BY ListBasics DEF IsList, Ids
<1>2. list = f[h] /\ list.id = h /\ f[h] \in FreeLists(Ids(f)) /\ next \in Ids(f) \cup {0}
  BY <1>1, ReadIs
<1>3. ListPages(f, h) = {h} \cup ListPages(f, next)
  BY <1>1, ListSplits
<1>4. IsList(f, next) /\ h \notin ListPages(f, next)
  <2>1. CASE next = 0
    BY <2>1, ListOfNone DEF IsList
  <2>2. CASE next # 0
    <3>1. next \in Ids(f) /\ next \in ListPages(f, h) /\ IsReach(ListLinks(f), {next}, ListPages(f, next))
      BY <1>2, <1>3, <2>2, ListIsReach, ListBasics
    <3>2. IsRooted(ListLinks(f), h, ListPages(f, h)) /\ \A p \in ListPages(f, h) : f[p].kind = "freelist"
      BY <1>1, FileSizeIs DEF IsList, Ids
    <3>3. IsRooted(ListLinks(f), next, ListPages(f, next))
      BY <3>1, <3>2, RootedBelow
    <3>4. next \in ListLinks(f)[h] /\ h \in Nat
      BY <1>1, <2>2, ListLinksAre, FileSizeIs DEF Nexts
    <3>5. h \notin ListPages(f, next)
      BY <1>1, <3>1, <3>2, <3>4, NoCycle
    <3> QED BY <1>3, <3>1, <3>2, <3>3, <3>5 DEF IsList
  <2> QED BY <2>1, <2>2
<1> QED BY <1>1, <1>2, <1>3, <1>4

\* A page before a list that it is not part of.
LEMMA ListAbove ==
  ASSUME NEW f, FileOK(f), NEW h \in Ids(f), f[h].kind = "freelist", IsList(f, f[h].next),
         h \notin ListPages(f, f[h].next)
  PROVE  IsList(f, h) /\ ListPages(f, h) = {h} \cup ListPages(f, f[h].next)
<1> DEFINE next == f[h].next
           b == [k \in DOMAIN f |-> ListPages(f, k)]
           L == ListLinks(f)
<1>1. h \in DOMAIN f /\ h \in Nat /\ ReadFreeList(f, h).next = next /\ next \in Ids(f) \cup {0}
  <2>1. h \in DOMAIN f /\ h \in Nat
    BY FileSizeIs DEF Ids
  <2>2. ReadFreeList(f, h) = f[h] /\ ReadFreeList(f, h).next \in Ids(f) \cup {0}
    BY <2>1, ReadIs
  <2> QED BY <2>1, <2>2
<1>2. ListPages(f, h) = {h} \cup ListPages(f, next)
  BY <1>1, ListSplits
<1>3. L[h] = {next} \ {0} /\ L \in [Nat -> SUBSET Nat]
  BY <1>1, ListLinksAre DEF Nexts
<1>4. \A k \in L[h] : k = next /\ next # 0 /\ b[k] = ListPages(f, next)
  BY <1>1, <1>3 DEF Ids
<1>5. \A k \in L[h] : IsRooted(L, k, b[k]) /\ h \notin b[k]
  BY <1>4 DEF IsList
<1>6. \A k, l \in L[h] : k # l => b[k] \cap b[l] = {}
  BY <1>4
<1>7. {h} \cup UNION {b[k] : k \in L[h]} = ListPages(f, h)
  <2>1. CASE next = 0
    BY <1>2, <1>3, <2>1, ListOfNone
  <2>2. CASE next # 0
    <3>1. L[h] = {next} /\ b[next] = ListPages(f, next)
      BY <1>3, <1>4, <2>2
    <3> HIDE DEF L, b
    <3> QED BY <1>2, <3>1
  <2> QED BY <2>1, <2>2
<1>8. IsRooted(L, h, {h} \cup UNION {b[k] : k \in L[h]})
  <2> HIDE DEF L, b
  <2> QED BY <1>1, <1>3, <1>5, <1>6, RootedAbove
<1>9. \A p \in ListPages(f, h) : f[p].kind = "freelist"
  <2>1. CASE next = 0
    BY <1>2, <2>1, ListOfNone
  <2>2. CASE next # 0
    BY <1>2, <2>2 DEF IsList
  <2> QED BY <2>1, <2>2
<1> QED BY <1>2, <1>7, <1>8, <1>9 DEF IsList

\* A list is what its pages make it.
LEMMA ListLocal ==
  ASSUME NEW f, NEW g, FileOK(f), FileOK(g), NEW h \in Ids(f) \cup {0},
         \A p \in ListPages(f, h) : p \in DOMAIN g /\ ReadFreeList(g, p).next = ReadFreeList(f, p).next
  PROVE  /\ ListPages(g, h) = ListPages(f, h)
         /\ IsList(f, h) /\ (\A p \in ListPages(f, h) : g[p].kind = "freelist") => IsList(g, h)
<1>1. CASE h = 0
  BY <1>1, ListOfNone DEF IsList
<1>2. CASE h # 0
  <2>1. h \in Ids(f) /\ h \in ListPages(f, h) /\ \A p \in ListPages(f, h) : p \in Nat /\ p # 0
    BY <1>2, ListBasics, FileSizeIs DEF Ids
  <2>2. h \in Ids(g)
    BY <2>1 DEF Ids
  <2>3. \A p \in ListPages(f, h) : ListLinks(g)[p] = ListLinks(f)[p]
    <3>1. \A p \in ListPages(f, h) : ListLinks(g)[p] = Nexts(g, p) /\ ListLinks(f)[p] = Nexts(f, p)
      BY <2>1, ListLinksAre
    <3>2. \A p \in ListPages(f, h) : Nexts(g, p) = Nexts(f, p)
      BY DEF Nexts
    <3> QED BY <3>1, <3>2
  <2>4. IsReach(ListLinks(f), {h}, ListPages(f, h)) /\ IsReach(ListLinks(g), {h}, ListPages(g, h))
    BY <2>1, <2>2, ListIsReach
  <2>5. IsReach(ListLinks(g), {h}, ListPages(f, h))
    BY <2>3, <2>4, ReachLocal
  <2>6. ListPages(g, h) = ListPages(f, h)
    BY <2>4, <2>5, ReachUnique
  <2>7. ASSUME IsList(f, h), \A p \in ListPages(f, h) : g[p].kind = "freelist" PROVE IsList(g, h)
    <3>1. IsRooted(ListLinks(g), h, ListPages(f, h))
      BY <1>2, <2>3, <2>7, RootedLocal DEF IsList
    <3> QED BY <2>2, <2>6, <2>7, <3>1 DEF IsList
  <2> QED BY <2>6, <2>7
<1> QED BY <1>1, <1>2

\* The same pages hold the same list.
LEMMA ListStays ==
  ASSUME NEW f, NEW g, FileOK(f), FileOK(g), NEW h \in Ids(f) \cup {0},
         \A p \in ListPages(f, h) : p \in DOMAIN g /\ g[p] = f[p]
  PROVE  /\ ListPages(g, h) = ListPages(f, h) /\ FreeIds(g, h) = FreeIds(f, h)
         /\ IsList(f, h) => IsList(g, h)
         /\ ListOK(f, h) => ListOK(g, h)
<1>1. \A p \in ListPages(f, h) : p \in DOMAIN f /\ ReadFreeList(g, p) = ReadFreeList(f, p)
  BY ListTypes DEF ReadFreeList, ReadPage, Ids
<1>2. ListPages(g, h) = ListPages(f, h)
  BY <1>1, ListLocal
<1>3. FreeIds(g, h) = FreeIds(f, h)
  BY <1>1, <1>2 DEF FreeIds
<1>4. IsList(f, h) => IsList(g, h)
  <2>1. CASE h = 0
    BY <2>1 DEF IsList
  <2>2. CASE h # 0
    <3>1. IsList(f, h) => \A p \in ListPages(f, h) : g[p].kind = "freelist"
      BY <2>2 DEF IsList
    <3> QED BY <1>1, <3>1, ListLocal
  <2> QED BY <2>1, <2>2
<1>5. IdsAreApart(f, h) => IdsAreApart(g, h)
  BY <1>1, <1>2, <1>3 DEF IdsAreApart, IdsOf
<1> QED BY <1>2, <1>3, <1>4, <1>5 DEF ListOK

-----------------------------------------------------------------------------
(* Files that grow and pages that are written.                             *)

LEMMA TypesGrow ==
  ASSUME NEW P, NEW Q, P \subseteq Q
  PROVE  /\ TreeNodes(P) \subseteq TreeNodes(Q) /\ InternalNodes(P) \subseteq InternalNodes(Q)
         /\ FreeLists(P) \subseteq FreeLists(Q) /\ Headers(P) \subseteq Headers(Q)
<1>1. Seq(P) \subseteq Seq(Q)
  BY SeqMonotonic
<1>2. InternalNodes(P) \subseteq InternalNodes(Q)
  BY <1>1 DEF InternalNodes
<1>3. FreeLists(P) \subseteq FreeLists(Q)
  BY <1>1 DEF FreeLists
<1>4. Headers(P) \subseteq Headers(Q)
  BY DEF Headers
<1> QED BY <1>2, <1>3, <1>4 DEF TreeNodes

\* A file with more pages, or with other ones that a page may hold.
LEMMA FileIs ==
  ASSUME NEW f, FileOK(f), NEW g, NEW n \in Nat, DOMAIN g = 0 .. n, DOMAIN f \subseteq DOMAIN g,
         g[0] = f[0] \/ g[0] \in Headers(Ids(g)),
         \A p \in Ids(g) : (p \in Ids(f) /\ g[p] = f[p]) \/ PageOK(g, p)
  PROVE  FileOK(g)
<1>1. Ids(f) \subseteq Ids(g)
  BY DEF Ids
<1>2. \A p \in Ids(f) : PageOK(f, p)
  BY DEF FileOK
<1>3. \A p \in Ids(g) : PageOK(g, p)
  BY <1>1, <1>2, TypesGrow DEF PageOK
<1>4. g[0] = Blank \/ g[0] \in Headers(Ids(g))
  BY <1>1, TypesGrow DEF FileOK
<1> QED BY <1>3, <1>4 DEF FileOK

LEMMA GrowIs ==
  ASSUME NEW f, FileOK(f)
  PROVE  /\ FileOK(GrowFile(f))
         /\ DOMAIN GrowFile(f) = DOMAIN f \cup {FileSize(f)}
         /\ Ids(GrowFile(f)) = Ids(f) \cup {FileSize(f)} /\ FileSize(f) \notin Ids(f)
         /\ \A p \in DOMAIN f : GrowFile(f)[p] = f[p]
         /\ GrowFile(f)[FileSize(f)] = Blank
<1>1. DOMAIN GrowFile(f) = 0 .. FileSize(f) /\ DOMAIN GrowFile(f) = DOMAIN f \cup {FileSize(f)}
  BY FileSizeIs DEF GrowFile
<1>2. \A p \in DOMAIN f : GrowFile(f)[p] = f[p]
  BY DEF GrowFile
<1>3. GrowFile(f)[FileSize(f)] = Blank
  BY FileSizeIs DEF GrowFile
<1>4. Ids(GrowFile(f)) = Ids(f) \cup {FileSize(f)} /\ FileSize(f) \notin Ids(f)
  BY <1>1, FileSizeIs DEF Ids
<1>5. \A p \in Ids(GrowFile(f)) : (p \in Ids(f) /\ GrowFile(f)[p] = f[p]) \/ PageOK(GrowFile(f), p)
  BY <1>2, <1>3, <1>4 DEF PageOK, Ids
<1>6. GrowFile(f)[0] = f[0]
  BY <1>2, FileSizeIs
<1> QED BY <1>1, <1>2, <1>3, <1>4, <1>5, <1>6, FileSizeIs, FileIs

\* The file g is f with n on page p.
Writes(f, p, n, g) == DOMAIN g = DOMAIN f /\ g[p] = n /\ \A q \in DOMAIN f \ {p} : g[q] = f[q]

LEMMA WriteIs ==
  ASSUME NEW f, FileOK(f), NEW p \in Ids(f), NEW n,
         \/ n \in TreeNodes(Ids(f)) /\ ~TooLarge(n)
         \/ n \in FreeLists(Ids(f)) /\ n.id = p,
         NEW g, Writes(f, p, n, g)
  PROVE  /\ FileOK(g) /\ DOMAIN g = DOMAIN f /\ Ids(g) = Ids(f)
         /\ g[p] = n /\ \A q \in DOMAIN f \ {p} : g[q] = f[q]
<1>1. DOMAIN g = DOMAIN f /\ Ids(g) = Ids(f) /\ p \in DOMAIN f
  BY DEF Ids, Writes
<1>2. g[p] = n /\ (\A q \in DOMAIN f \ {p} : g[q] = f[q]) /\ p # 0
  BY <1>1 DEF Ids, Writes
<1>3. PageOK(g, p)
  BY <1>1, <1>2 DEF PageOK
<1>4. g[0] = f[0]
  BY <1>2, FileSizeIs
<1>5. \A q \in Ids(g) : (q \in Ids(f) /\ g[q] = f[q]) \/ PageOK(g, q)
  BY <1>1, <1>2, <1>3 DEF Ids
<1>6. PICK m \in Nat : DOMAIN g = 0 .. m
  BY <1>1 DEF FileOK
<1>7. FileOK(g)
  BY <1>1, <1>4, <1>5, <1>6, FileIs
<1> QED BY <1>1, <1>2, <1>7

LEMMA WriteHeaderIs ==
  ASSUME NEW f, FileOK(f), NEW n \in Headers(Ids(f)), NEW g, Writes(f, 0, n, g)
  PROVE  /\ FileOK(g) /\ DOMAIN g = DOMAIN f /\ Ids(g) = Ids(f)
         /\ g[0] = n /\ \A q \in Ids(f) : g[q] = f[q]
<1>1. DOMAIN g = DOMAIN f /\ Ids(g) = Ids(f) /\ 0 \in DOMAIN f
  BY FileSizeIs DEF Ids, Writes
<1>2. g[0] = n /\ \A q \in Ids(f) : g[q] = f[q]
  BY <1>1 DEF Ids, Writes
<1>3. PICK m \in Nat : DOMAIN g = 0 .. m
  BY <1>1 DEF FileOK
<1>4. FileOK(g)
  BY <1>1, <1>2, <1>3, FileIs
<1> QED BY <1>1, <1>2, <1>4

-----------------------------------------------------------------------------
(* What add_free_pages and allocate do to the list.                        *)

LEMMA FreeIdsAre ==
  ASSUME NEW f, NEW h, NEW x
  PROVE  x \in FreeIds(f, h) <=>
            \E p \in ListPages(f, h) : \E i \in DOMAIN IdsOf(f, p) : IdsOf(f, p)[i] = x
BY DEF FreeIds, IdsOf, ToSet

\* An id is taken from the head page.
LEMMA PopId ==
  ASSUME NEW f, FileOK(f), NEW h, ListOK(f, h), h # 0, NEW list, list = ReadFreeList(f, h),
         list.ids # <<>>,
         NEW g, Writes(f, h, FreeList(h, list.next, Front(list.ids)), g),
         NEW x, x = Last(list.ids)
  PROVE  /\ FileOK(g) /\ DOMAIN g = DOMAIN f /\ h \in Ids(f)
         /\ \A q \in DOMAIN f \ {h} : g[q] = f[q]
         /\ ListOK(g, h) /\ ListPages(g, h) = ListPages(f, h) /\ h \in ListPages(f, h)
         /\ x \in FreeIds(f, h) /\ x \in Ids(f) /\ FreeIds(g, h) = FreeIds(f, h) \ {x}
<1> DEFINE n == FreeList(h, list.next, Front(list.ids))
           m == Len(list.ids)
<1>0. IsList(f, h)
  BY DEF ListOK
<1>1. IsList(f, h) /\ h \in Ids(f) /\ f[h].kind = "freelist" /\ h \in ListPages(f, h) /\ h \in DOMAIN f
  <2>1. h \in Ids(f) /\ f[h].kind = "freelist" /\ h \in ListPages(f, h)
    BY <1>0, ListBelow
  <2> QED BY <1>0, <2>1 DEF Ids
<1>2. list = f[h] /\ list \in FreeLists(Ids(f)) /\ list.id = h
  BY <1>0, ListBelow
<1>3. /\ list.ids \in Seq(Ids(f)) /\ m \in Nat /\ m > 0 /\ m <= MaxIdsPerPage
      /\ list.next \in Ids(f) \cup {0}
  BY <1>2, EmptySeq DEF FreeLists
<1>4. /\ Front(list.ids) \in Seq(Ids(f)) /\ Len(Front(list.ids)) = m - 1
      /\ \A i \in 1 .. m - 1 : Front(list.ids)[i] = list.ids[i]
      /\ x = list.ids[m] /\ x \in Ids(f)
  BY <1>3, ElementOfSeq DEF Front, Last
<1>5. n \in FreeLists(Ids(f)) /\ n.id = h /\ n.next = list.next /\ n.kind = "freelist"
  <2>1. MaxIdsPerPage \in Nat
    BY PageSizeAssumption DEF MaxIdsPerPage, FreeListBase, InternalBase
  <2>2. m - 1 <= MaxIdsPerPage
    BY <1>3, <2>1
  <2> QED BY <1>1, <1>3, <1>4, <2>2 DEF FreeList, FreeLists
<1>6. /\ FileOK(g) /\ DOMAIN g = DOMAIN f /\ Ids(g) = Ids(f)
      /\ g[h] = n /\ \A q \in DOMAIN f \ {h} : g[q] = f[q]
  <2>1. Writes(f, h, n, g)
    OBVIOUS
  <2> HIDE DEF n
  <2> QED BY <1>1, <1>5, <2>1, WriteIs
<1>7. /\ \A p : p # h => ReadFreeList(g, p) = ReadFreeList(f, p)
      /\ ReadFreeList(g, h) = n
  <2>1. ASSUME NEW p, p # h PROVE ReadFreeList(g, p) = ReadFreeList(f, p)
    <3>1. ReadPage(g, p) = ReadPage(f, p)
      BY <1>6, <2>1 DEF ReadPage
    <3>2. CASE p \in DOMAIN f
      BY <1>6, <2>1, <3>1, <3>2 DEF ReadFreeList
    <3>3. CASE p \notin DOMAIN f
      BY <3>1, <3>3 DEF ReadFreeList, ReadPage, Blank
    <3> QED BY <3>2, <3>3
  <2>2. ReadFreeList(g, h) = n
    <3> HIDE DEF n
    <3> QED BY <1>1, <1>5, <1>6 DEF ReadFreeList, ReadPage
  <2> QED BY <2>1, <2>2
<1>8. \A p \in ListPages(f, h) : p \in DOMAIN g /\ ReadFreeList(g, p).next = ReadFreeList(f, p).next
                               /\ g[p].kind = "freelist"
  <2>1. \A p \in ListPages(f, h) : p \in DOMAIN g /\ f[p].kind = "freelist"
    BY <1>1, <1>6, ListTypes DEF Ids, IsList
  <2> QED BY <2>1, <1>2, <1>5, <1>6, <1>7
<1>9. ListPages(g, h) = ListPages(f, h) /\ IsList(g, h)
  BY <1>1, <1>6, <1>8, ListLocal
<1>10. /\ \A p : p # h => IdsOf(g, p) = IdsOf(f, p)
       /\ IdsOf(f, h) = list.ids /\ DOMAIN IdsOf(f, h) = 1 .. m
       /\ DOMAIN IdsOf(g, h) = 1 .. m - 1
       /\ \A i \in 1 .. m - 1 : IdsOf(g, h)[i] = IdsOf(f, h)[i]
       /\ IdsOf(f, h)[m] = x
  <2>1. n.ids = Front(list.ids) /\ DOMAIN n.ids = 1 .. m - 1 /\ DOMAIN list.ids = 1 .. m
    BY <1>3, <1>4 DEF FreeList
  <2> HIDE DEF n
  <2> QED BY <1>3, <1>4, <1>7, <2>1 DEF IdsOf
<1>11. \A p : \A i \in DOMAIN IdsOf(g, p) : i \in DOMAIN IdsOf(f, p) /\ IdsOf(g, p)[i] = IdsOf(f, p)[i]
  <2>1. \A i \in 1 .. m - 1 : i \in 1 .. m
    BY <1>3
  <2> HIDE DEF m
  <2> QED BY <1>10, <2>1
<1>12. m \in DOMAIN IdsOf(f, h)
  BY <1>3, <1>10
<1>13. x \in FreeIds(f, h)
  BY <1>1, <1>10, <1>12, FreeIdsAre
<1>14. FreeIds(g, h) = FreeIds(f, h) \ {x}
  <2>1. ASSUME NEW y \in FreeIds(g, h) PROVE y \in FreeIds(f, h) \ {x}
    <3>1. PICK p \in ListPages(f, h) : \E i \in DOMAIN IdsOf(g, p) : IdsOf(g, p)[i] = y
      BY <1>9, <2>1, FreeIdsAre
    <3>2. PICK i \in DOMAIN IdsOf(g, p) : IdsOf(g, p)[i] = y
      BY <3>1
    <3>3. i \in DOMAIN IdsOf(f, p) /\ IdsOf(f, p)[i] = y
      BY <1>11, <3>2
    <3>4. y \in FreeIds(f, h)
      BY <3>3, FreeIdsAre
    <3>5. ASSUME y = x PROVE FALSE
      <4>1. p = h /\ i = m
        BY <1>1, <1>10, <1>12, <3>3, <3>5 DEF ListOK, IdsAreApart
      <4> QED BY <1>3, <1>10, <3>2, <4>1
    <3> QED BY <3>4, <3>5
  <2>2. ASSUME NEW y \in FreeIds(f, h) \ {x} PROVE y \in FreeIds(g, h)
    <3>1. PICK p \in ListPages(f, h) : \E i \in DOMAIN IdsOf(f, p) : IdsOf(f, p)[i] = y
      BY <2>2, FreeIdsAre
    <3>2. PICK i \in DOMAIN IdsOf(f, p) : IdsOf(f, p)[i] = y
      BY <3>1
    <3>3. i \in DOMAIN IdsOf(g, p) /\ IdsOf(g, p)[i] = y
      <4>1. CASE p = h
        <5>1. i \in 1 .. m /\ i # m
          BY <1>10, <2>2, <3>2, <4>1
        <5>2. i \in 1 .. m - 1
          BY <1>3, <5>1
        <5> QED BY <1>10, <3>2, <4>1, <5>2
      <4>2. CASE p # h
        BY <1>10, <3>2, <4>2
      <4> QED BY <4>1, <4>2
    <3> QED BY <1>9, <3>3, FreeIdsAre
  <2> QED BY <2>1, <2>2
<1>15. ListOK(g, h)
  <2>1. FreeIds(g, h) \cap ListPages(g, h) = {}
    BY <1>9, <1>14 DEF ListOK, IdsAreApart
  <2>2. IdsAreApart(f, h)
    BY DEF ListOK
  <2>3. ASSUME NEW p \in ListPages(g, h), NEW q \in ListPages(g, h),
               NEW i \in DOMAIN IdsOf(g, p), NEW j \in DOMAIN IdsOf(g, q),
               IdsOf(g, p)[i] = IdsOf(g, q)[j]
        PROVE  p = q /\ i = j
    <3>1. /\ i \in DOMAIN IdsOf(f, p) /\ j \in DOMAIN IdsOf(f, q)
          /\ IdsOf(f, p)[i] = IdsOf(f, q)[j]
      BY <1>11, <2>3
    <3> QED BY <1>9, <2>2, <3>1 DEF IdsAreApart
  <2> QED BY <1>9, <2>1, <2>3 DEF ListOK, IdsAreApart
<1> QED BY <1>1, <1>2, <1>4, <1>6, <1>9, <1>13, <1>14, <1>15

\* The empty head page is unlinked.
LEMMA PopPage ==
  ASSUME NEW f, FileOK(f), NEW h, ListOK(f, h), h # 0, NEW list, list = ReadFreeList(f, h),
         list.ids = <<>>
  PROVE  /\ list.id = h /\ h \in Ids(f) /\ list.next \in Ids(f) \cup {0} /\ h \in ListPages(f, h)
         /\ ListOK(f, list.next) /\ ListPages(f, list.next) = ListPages(f, h) \ {h}
         /\ FreeIds(f, list.next) = FreeIds(f, h) /\ h \notin FreeIds(f, h)
<1>0. IsList(f, h)
  BY DEF ListOK
<1>1. /\ h \in Ids(f) /\ h \in ListPages(f, h)
      /\ IsList(f, list.next) /\ h \notin ListPages(f, list.next)
      /\ ListPages(f, h) = {h} \cup ListPages(f, list.next)
  BY <1>0, ListBelow
<1>2. list.id = h /\ list.next \in Ids(f) \cup {0}
  BY <1>0, ListBelow
<1>3. FreeIds(f, list.next) = FreeIds(f, h)
  BY <1>1 DEF FreeIds, ToSet
<1>4. IdsAreApart(f, list.next) /\ h \notin FreeIds(f, h)
  BY <1>1, <1>3 DEF ListOK, IdsAreApart
<1> QED BY <1>1, <1>2, <1>3, <1>4 DEF ListOK

-----------------------------------------------------------------------------
(* The file behind memory: the page that put adds to is not written yet.   *)

\* A page that agrees with another file's page reads the same.
LEMMA ReadSame ==
  ASSUME NEW f, NEW g, NEW p, p \in DOMAIN f, p \in DOMAIN g, g[p] = f[p]
  PROVE  ReadFreeList(g, p) = ReadFreeList(f, p) /\ ReadPage(g, p) = ReadPage(f, p)
BY DEF ReadFreeList, ReadPage

\* An id goes to the head page.
LEMMA PushId ==
  ASSUME NEW f, FileOK(f), NEW h, ListOK(f, h), h # 0, NEW list, list = ReadFreeList(f, h),
         NEW g, FileOK(g), DOMAIN g = DOMAIN f, \A q \in DOMAIN f \ {h} : g[q] = f[q],
         NEW x, x \notin FreeIds(f, h), x \notin ListPages(f, h),
         g[h] = FreeList(list.id, list.next, Append(list.ids, x))
  PROVE  /\ ListOK(g, h) /\ ListPages(g, h) = ListPages(f, h)
         /\ FreeIds(g, h) = FreeIds(f, h) \cup {x}
<1> DEFINE m == Len(list.ids)
<1>0. IsList(f, h)
  BY DEF ListOK
<1>1. h \in Ids(f) /\ f[h].kind = "freelist" /\ h \in ListPages(f, h) /\ list \in FreeLists(Ids(f))
  BY <1>0, ListBelow
<1>2. /\ list.ids \in Seq(Ids(f)) /\ m \in Nat
      /\ list.next \in Ids(f) \cup {0} /\ h \in DOMAIN f
  BY <1>1 DEF FreeLists, Ids
<1>3. g[h].kind = "freelist" /\ g[h].next = list.next /\ g[h].ids = Append(list.ids, x)
  BY DEF FreeList
<1>4. ReadFreeList(g, h) = g[h]
  BY <1>2, <1>3 DEF ReadFreeList, ReadPage
<1>5. \A p \in Ids(f) \ {h} : ReadFreeList(g, p) = ReadFreeList(f, p)
  BY ReadSame DEF Ids
<1>6. ListPages(f, h) \subseteq Ids(f)
  BY <1>1, ListTypes
<1>7. \A p \in ListPages(f, h) : p \in DOMAIN g /\ ReadFreeList(g, p).next = ReadFreeList(f, p).next
                               /\ g[p].kind = "freelist"
  <2>1. \A p \in ListPages(f, h) : p \in DOMAIN g /\ f[p].kind = "freelist"
    BY <1>0, <1>6 DEF Ids, IsList
  <2> QED BY <2>1, <1>3, <1>4, <1>5, <1>6 DEF Ids
<1>8. ListPages(g, h) = ListPages(f, h) /\ IsList(g, h)
  BY <1>0, <1>1, <1>7, ListLocal
<1>9. /\ \A p \in ListPages(f, h) : p # h => IdsOf(g, p) = IdsOf(f, p)
      /\ DOMAIN IdsOf(f, h) = 1 .. m /\ DOMAIN IdsOf(g, h) = 1 .. m + 1
      /\ \A i \in 1 .. m : IdsOf(g, h)[i] = IdsOf(f, h)[i]
      /\ IdsOf(g, h)[m + 1] = x
  <2>1. \A p \in ListPages(f, h) : p # h => IdsOf(g, p) = IdsOf(f, p)
    BY <1>5, <1>6 DEF IdsOf
  <2>2. IdsOf(f, h) = list.ids /\ IdsOf(g, h) = Append(list.ids, x)
    BY <1>3, <1>4 DEF IdsOf
  <2> QED BY <2>1, <2>2, <1>2
<1>10. \A p \in ListPages(f, h) : \A i \in DOMAIN IdsOf(g, p) :
          \/ i \in DOMAIN IdsOf(f, p) /\ IdsOf(g, p)[i] = IdsOf(f, p)[i]
          \/ p = h /\ i = m + 1 /\ IdsOf(g, p)[i] = x
  <2> SUFFICES ASSUME NEW p \in ListPages(f, h), NEW i \in DOMAIN IdsOf(g, p)
               PROVE  \/ i \in DOMAIN IdsOf(f, p) /\ IdsOf(g, p)[i] = IdsOf(f, p)[i]
                      \/ p = h /\ i = m + 1 /\ IdsOf(g, p)[i] = x
    OBVIOUS
  <2>1. CASE p = h
    <3>1. i \in 1 .. m \/ i = m + 1
      BY <1>2, <1>9, <2>1
    <3> QED BY <1>9, <2>1, <3>1
  <2>2. CASE p # h
    BY <1>9, <2>2
  <2> QED BY <2>1, <2>2
<1>11. FreeIds(g, h) = FreeIds(f, h) \cup {x}
  <2>1. ASSUME NEW y \in FreeIds(g, h) PROVE y \in FreeIds(f, h) \cup {x}
    <3>1. PICK p \in ListPages(f, h) : \E i \in DOMAIN IdsOf(g, p) : IdsOf(g, p)[i] = y
      BY <1>8, <2>1, FreeIdsAre
    <3>2. PICK i \in DOMAIN IdsOf(g, p) : IdsOf(g, p)[i] = y
      BY <3>1
    <3> QED BY <1>10, <3>2, FreeIdsAre
  <2>2. ASSUME NEW y \in FreeIds(f, h) PROVE y \in FreeIds(g, h)
    <3>1. PICK p \in ListPages(f, h) : \E i \in DOMAIN IdsOf(f, p) : IdsOf(f, p)[i] = y
      BY <2>2, FreeIdsAre
    <3>2. PICK i \in DOMAIN IdsOf(f, p) : IdsOf(f, p)[i] = y
      BY <3>1
    <3>3. i \in DOMAIN IdsOf(g, p) /\ IdsOf(g, p)[i] = y
      <4>1. CASE p = h
        <5>1. i \in 1 .. m /\ i \in 1 .. m + 1
          BY <1>2, <1>9, <3>2, <4>1
        <5> QED BY <1>9, <3>2, <4>1, <5>1
      <4>2. CASE p # h
        BY <1>9, <3>2, <4>2
      <4> QED BY <4>1, <4>2
    <3> QED BY <1>8, <3>3, FreeIdsAre
  <2>3. x \in FreeIds(g, h)
    <3>1. m + 1 \in DOMAIN IdsOf(g, h)
      BY <1>2, <1>9
    <3> QED BY <1>1, <1>8, <1>9, <3>1, FreeIdsAre
  <2> QED BY <2>1, <2>2, <2>3
<1>12. IdsAreApart(g, h)
  <2>1. FreeIds(g, h) \cap ListPages(g, h) = {}
    BY <1>8, <1>11 DEF ListOK, IdsAreApart
  <2>2. IdsAreApart(f, h)
    BY DEF ListOK
  <2>3. ASSUME NEW p \in ListPages(g, h), NEW q \in ListPages(g, h),
               NEW i \in DOMAIN IdsOf(g, p), NEW j \in DOMAIN IdsOf(g, q),
               IdsOf(g, p)[i] = IdsOf(g, q)[j]
        PROVE  p = q /\ i = j
    <3>1. p \in ListPages(f, h) /\ q \in ListPages(f, h)
      BY <1>8
    <3>2. CASE i \in DOMAIN IdsOf(f, p) /\ IdsOf(g, p)[i] = IdsOf(f, p)[i]
      <4>1. IdsOf(f, p)[i] \in FreeIds(f, h)
        BY <3>1, <3>2, FreeIdsAre
      <4>2. j \in DOMAIN IdsOf(f, q) /\ IdsOf(g, q)[j] = IdsOf(f, q)[j]
        BY <1>10, <2>3, <3>1, <3>2, <4>1
      <4>3. i \in DOMAIN IdsOf(f, p) /\ IdsOf(f, p)[i] = IdsOf(f, q)[j]
        BY <2>3, <3>2, <4>2
      <4> HIDE DEF m
      <4> QED BY <2>2, <3>1, <4>2, <4>3 DEF IdsAreApart
    <3>3. CASE p = h /\ i = m + 1 /\ IdsOf(g, p)[i] = x
      <4>1. ~(j \in DOMAIN IdsOf(f, q) /\ IdsOf(g, q)[j] = IdsOf(f, q)[j])
        BY <2>3, <3>1, <3>3, FreeIdsAre
      <4> QED BY <1>10, <3>1, <3>3, <4>1
    <3> QED BY <1>10, <3>1, <3>2, <3>3
  <2> QED BY <2>1, <2>3 DEF IdsAreApart
<1> QED BY <1>8, <1>11, <1>12 DEF ListOK

\* A new page is put before the head page.
LEMMA PushPage ==
  ASSUME NEW f, FileOK(f), NEW h \in Ids(f) \cup {0}, ListOK(f, h),
         NEW g, FileOK(g), NEW n \in Ids(g), n \notin Ids(f),
         \A q \in Ids(f) : q \in DOMAIN g /\ g[q] = f[q],
         NEW ids \in Seq(Ids(g)), Distinct(ids), g[n] = FreeList(n, h, ids),
         ToSet(ids) \cap ({n} \cup FreeIds(f, h) \cup ListPages(f, h)) = {}
  PROVE  /\ ListOK(g, n) /\ ListPages(g, n) = {n} \cup ListPages(f, h)
         /\ FreeIds(g, n) = FreeIds(f, h) \cup ToSet(ids)
<1>1. ListPages(f, h) \subseteq Ids(f) /\ FreeIds(f, h) \subseteq Ids(f)
  BY ListTypes
<1>2. \A p \in ListPages(f, h) : p \in DOMAIN g /\ g[p] = f[p]
  BY <1>1
<1>3. /\ ListPages(g, h) = ListPages(f, h) /\ FreeIds(g, h) = FreeIds(f, h)
      /\ IsList(g, h) /\ IdsAreApart(g, h)
  BY <1>2, ListStays DEF ListOK
<1>4. g[n].kind = "freelist" /\ g[n].next = h /\ g[n].ids = ids
  BY DEF FreeList
<1>5. n \notin ListPages(g, h)
  BY <1>1, <1>3
<1>6. IsList(g, n) /\ ListPages(g, n) = {n} \cup ListPages(g, h)
  BY <1>3, <1>4, <1>5, ListAbove
<1>7. IdsOf(g, n) = ids
  BY <1>4 DEF IdsOf, ReadFreeList, ReadPage, Ids
<1>8. FreeIds(g, n) = FreeIds(g, h) \cup ToSet(ids)
  BY <1>6, <1>7 DEF FreeIds, IdsOf
<1>9. n \notin FreeIds(g, h)
  BY <1>1, <1>3
<1>10. FreeIds(g, n) \cap ListPages(g, n) = {}
  BY <1>3, <1>6, <1>8, <1>9 DEF IdsAreApart
<1>11. ASSUME NEW p \in ListPages(g, n), NEW q \in ListPages(g, n),
              NEW i \in DOMAIN IdsOf(g, p), NEW j \in DOMAIN IdsOf(g, q),
              IdsOf(g, p)[i] = IdsOf(g, q)[j]
       PROVE  p = q /\ i = j
  <2>1. \A r \in ListPages(g, n) : \A k \in DOMAIN IdsOf(g, r) :
           IF r = n THEN IdsOf(g, r)[k] \in ToSet(ids) ELSE IdsOf(g, r)[k] \in FreeIds(g, h)
    BY <1>6, <1>7, FreeIdsAre DEF ToSet
  <2>2. ToSet(ids) \cap FreeIds(g, h) = {}
    BY <1>3
  <2>3. CASE p = n /\ q = n
    BY <1>7, <1>11, <2>3 DEF Distinct
  <2>4. CASE p # n /\ q # n
    <3>1. p \in ListPages(g, h) /\ q \in ListPages(g, h)
      BY <1>6, <2>4
    <3> QED BY <1>3, <1>11, <3>1 DEF IdsAreApart
  <2>5. CASE ~(p = n <=> q = n)
    BY <1>11, <2>1, <2>2, <2>5
  <2> QED BY <2>3, <2>4, <2>5
<1> QED BY <1>3, <1>6, <1>8, <1>10, <1>11 DEF ListOK, IdsAreApart

\* What the list of a file that is behind another holds is in the other's list.
IsBehind(f, g) ==
    \A p \in DOMAIN f :
        \/ ReadFreeList(f, p) = NoList
        \/ /\ ReadFreeList(f, p).next = ReadFreeList(g, p).next
           /\ \A i \in DOMAIN IdsOf(f, p) : i \in DOMAIN IdsOf(g, p) /\ IdsOf(f, p)[i] = IdsOf(g, p)[i]

LEMMA BehindIs ==
  ASSUME NEW f, NEW g, FileOK(f), FileOK(g), DOMAIN f = DOMAIN g, IsBehind(f, g),
         NEW h \in Ids(f) \cup {0}
  PROVE  /\ ListPages(f, h) \subseteq ListPages(g, h) /\ FreeIds(f, h) \subseteq FreeIds(g, h)
         /\ IdsAreApart(g, h) => IdsAreApart(f, h)
<1>1. ListPages(f, h) \subseteq ListPages(g, h)
  <2>1. CASE h = 0
    BY <2>1, ListOfNone
  <2>2. CASE h # 0
    <3>1. h \in Ids(f) /\ h \in Ids(g) /\ ListPages(g, h) \subseteq Ids(g) /\ Ids(g) = Ids(f)
      BY <2>2, ListTypes DEF Ids
    <3>2. IsReach(ListLinks(f), {h}, ListPages(f, h)) /\ IsReach(ListLinks(g), {h}, ListPages(g, h))
      BY <3>1, ListIsReach
    <3>3. ListPages(g, h) \in SUBSET Nat /\ {h} \subseteq ListPages(g, h)
      BY <3>2 DEF IsReach
    <3>4. Closed(ListLinks(f), ListPages(g, h))
      <4> SUFFICES ASSUME NEW p \in ListPages(g, h) PROVE ListLinks(f)[p] \subseteq ListPages(g, h)
        BY DEF Closed
      <4>1. p \in Nat /\ p \in DOMAIN f /\ Nexts(g, p) \subseteq ListPages(g, h)
        BY <3>1, <3>3, ListBasics DEF Ids
      <4>2. ListLinks(f)[p] = Nexts(f, p)
        BY <4>1, ListLinksAre
      <4>3. Nexts(f, p) \subseteq Nexts(g, p)
        BY <4>1 DEF IsBehind, Nexts, NoList, FreeList
      <4> QED BY <4>1, <4>2, <4>3
    <3> QED BY <3>2, <3>3, <3>4 DEF IsReach
  <2> QED BY <2>1, <2>2
<1>2. \A p \in ListPages(f, h) : p \in DOMAIN f
  BY ListTypes DEF Ids
<1>3. \A p \in ListPages(f, h) : \A i \in DOMAIN IdsOf(f, p) :
         i \in DOMAIN IdsOf(g, p) /\ IdsOf(f, p)[i] = IdsOf(g, p)[i]
  <2> SUFFICES ASSUME NEW p \in ListPages(f, h), NEW i \in DOMAIN IdsOf(f, p)
               PROVE  i \in DOMAIN IdsOf(g, p) /\ IdsOf(f, p)[i] = IdsOf(g, p)[i]
    OBVIOUS
  <2>1. ReadFreeList(f, p) # NoList
    BY DEF IdsOf, NoList, FreeList
  <2> QED BY <1>2, <2>1 DEF IsBehind
<1>4. FreeIds(f, h) \subseteq FreeIds(g, h)
  <2> SUFFICES ASSUME NEW y \in FreeIds(f, h) PROVE y \in FreeIds(g, h)
    OBVIOUS
  <2>1. PICK p \in ListPages(f, h) : \E i \in DOMAIN IdsOf(f, p) : IdsOf(f, p)[i] = y
    BY FreeIdsAre
  <2> QED BY <1>1, <1>3, <2>1, FreeIdsAre
<1>5. IdsAreApart(g, h) => IdsAreApart(f, h)
  <2> SUFFICES ASSUME IdsAreApart(g, h) PROVE IdsAreApart(f, h)
    OBVIOUS
  <2>1. FreeIds(f, h) \cap ListPages(f, h) = {}
    BY <1>1, <1>4 DEF IdsAreApart
  <2>2. ASSUME NEW p \in ListPages(f, h), NEW q \in ListPages(f, h),
               NEW i \in DOMAIN IdsOf(f, p), NEW j \in DOMAIN IdsOf(f, q),
               IdsOf(f, p)[i] = IdsOf(f, q)[j]
        PROVE  p = q /\ i = j
    <3>1. /\ i \in DOMAIN IdsOf(g, p) /\ j \in DOMAIN IdsOf(g, q)
          /\ IdsOf(g, p)[i] = IdsOf(g, q)[j]
      BY <1>3, <2>2
    <3> QED BY <1>1, <3>1 DEF IdsAreApart
  <2> QED BY <2>1, <2>2 DEF IdsAreApart
<1> QED BY <1>1, <1>4, <1>5

-----------------------------------------------------------------------------
(* Sequences and nodes.                                                    *)

LEMMA InsertIs ==
  ASSUME NEW S, NEW s \in Seq(S), NEW i \in 1 .. Len(s) + 1, NEW e \in S
  PROVE  /\ InsertAt(s, i, e) \in Seq(S) /\ Len(InsertAt(s, i, e)) = Len(s) + 1
         /\ \A j \in 1 .. Len(s) + 1 :
               InsertAt(s, i, e)[j] = IF j < i THEN s[j] ELSE IF j = i THEN e ELSE s[j - 1]
<1> DEFINE m == Len(s)
           u == SubSeq(s, 1, i - 1)
           w == SubSeq(s, i, m)
<1>1. m \in Nat /\ \A j \in 1 .. m : s[j] \in S
  BY ElementOfSeq
<1>2. u \in Seq(S) /\ Len(u) = i - 1 /\ \A j \in 1 .. i - 1 : u[j] = s[j]
  <2>1. \A j \in 1 .. i - 1 : s[j] \in S
    BY <1>1
  <2>2. u \in Seq(S) /\ Len(u) = (IF 1 <= i - 1 THEN (i - 1) - 1 + 1 ELSE 0)
        /\ \A j \in 1 .. (i - 1) - 1 + 1 : u[j] = s[1 + j - 1]
    BY <1>1, <2>1, SubSeqProperties
  <2> QED BY <1>1, <2>2
<1>3. w \in Seq(S) /\ Len(w) = m - i + 1 /\ \A j \in 1 .. m - i + 1 : w[j] = s[i + j - 1]
  <2>1. \A j \in i .. m : s[j] \in S
    BY <1>1
  <2>2. w \in Seq(S) /\ Len(w) = (IF i <= m THEN m - i + 1 ELSE 0)
        /\ \A j \in 1 .. m - i + 1 : w[j] = s[i + j - 1]
    BY <1>1, <2>1, SubSeqProperties
  <2> QED BY <1>1, <2>2
<1>4. InsertAt(s, i, e) = (u \o <<e>>) \o w
  BY DEF InsertAt
<1> HIDE DEF u, w
<1>5. <<e>> \in Seq(S) /\ Len(<<e>>) = 1 /\ <<e>>[1] = e
  OBVIOUS
<1>6. /\ u \o <<e>> \in Seq(S) /\ Len(u \o <<e>>) = i
      /\ \A j \in 1 .. i : (u \o <<e>>)[j] = IF j < i THEN s[j] ELSE e
  <2>1. /\ u \o <<e>> \in Seq(S) /\ Len(u \o <<e>>) = Len(u) + 1
        /\ \A j \in 1 .. Len(u) + 1 : (u \o <<e>>)[j] = IF j <= Len(u) THEN u[j] ELSE <<e>>[j - Len(u)]
    BY <1>2, <1>5, ConcatProperties
  <2> QED BY <1>1, <1>2, <1>5, <2>1
<1>7. /\ (u \o <<e>>) \o w \in Seq(S) /\ Len((u \o <<e>>) \o w) = m + 1
      /\ \A j \in 1 .. m + 1 : ((u \o <<e>>) \o w)[j] = IF j <= i THEN (u \o <<e>>)[j] ELSE w[j - i]
  <2> DEFINE x == u \o <<e>>
  <2>1. x \in Seq(S) /\ Len(x) = i
    BY <1>6
  <2> HIDE DEF x
  <2>2. /\ x \o w \in Seq(S) /\ Len(x \o w) = Len(x) + Len(w)
        /\ \A j \in 1 .. Len(x) + Len(w) : (x \o w)[j] = IF j <= Len(x) THEN x[j] ELSE w[j - Len(x)]
    BY <1>3, <2>1, ConcatProperties
  <2>3. Len(x) + Len(w) = m + 1
    BY <1>1, <1>3, <2>1
  <2>4. /\ x \o w \in Seq(S) /\ Len(x \o w) = m + 1
        /\ \A j \in 1 .. m + 1 : (x \o w)[j] = IF j <= i THEN x[j] ELSE w[j - i]
    BY <2>1, <2>2, <2>3
  <2> QED BY <2>4 DEF x
<1>8. ASSUME NEW j \in 1 .. m + 1
      PROVE  InsertAt(s, i, e)[j] = IF j < i THEN s[j] ELSE IF j = i THEN e ELSE s[j - 1]
  <2>1. InsertAt(s, i, e)[j] = IF j <= i THEN (u \o <<e>>)[j] ELSE w[j - i]
    BY <1>4, <1>7
  <2>2. CASE j <= i
    BY <1>1, <1>6, <2>1, <2>2
  <2>3. CASE j > i
    <3>1. j - i \in 1 .. m - i + 1 /\ i + (j - i) - 1 = j - 1
      BY <1>1, <2>3
    <3> QED BY <1>1, <1>3, <2>1, <2>3, <3>1
  <2> QED BY <1>1, <2>2, <2>3
<1> QED BY <1>4, <1>7, <1>8

LEMMA ReplaceIs ==
  ASSUME NEW S, NEW s \in Seq(S), NEW i, NEW e \in S
  PROVE  /\ ReplaceAt(s, i, e) \in Seq(S) /\ Len(ReplaceAt(s, i, e)) = Len(s)
         /\ \A j \in 1 .. Len(s) : ReplaceAt(s, i, e)[j] = IF j = i THEN e ELSE s[j]
<1>1. CASE i \in 1 .. Len(s)
  BY <1>1, ExceptSeq DEF ReplaceAt
<1>2. CASE i \notin 1 .. Len(s)
  <2>1. ReplaceAt(s, i, e) = s
    BY <1>2, LenProperties DEF ReplaceAt
  <2> QED BY <1>2, <2>1
<1> QED BY <1>1, <1>2

LEMMA SubIs ==
  ASSUME NEW S, NEW s \in Seq(S), NEW a \in Nat, NEW b \in Nat, 1 <= a, b <= Len(s), a <= b + 1
  PROVE  /\ SubSeq(s, a, b) \in Seq(S) /\ Len(SubSeq(s, a, b)) = b - a + 1
         /\ \A j \in 1 .. b - a + 1 : SubSeq(s, a, b)[j] = s[a + j - 1] /\ a + j - 1 \in 1 .. Len(s)
<1>1. Len(s) \in Nat /\ \A j \in a .. b : s[j] \in S
  BY ElementOfSeq
<1>2. /\ SubSeq(s, a, b) \in Seq(S) /\ Len(SubSeq(s, a, b)) = (IF a <= b THEN b - a + 1 ELSE 0)
      /\ \A j \in 1 .. b - a + 1 : SubSeq(s, a, b)[j] = s[a + j - 1]
  BY <1>1, SubSeqProperties
<1> QED BY <1>1, <1>2

LEMMA FrontIs ==
  ASSUME NEW S, NEW s \in Seq(S), s # <<>>
  PROVE  /\ Len(s) \in Nat \ {0} /\ Front(s) \in Seq(S) /\ Len(Front(s)) = Len(s) - 1
         /\ \A j \in 1 .. Len(s) - 1 : Front(s)[j] = s[j]
         /\ Last(s) = s[Len(s)] /\ Last(s) \in S
<1>1. Len(s) \in Nat \ {0}
  BY EmptySeq
<1>2. Last(s) = s[Len(s)] /\ Last(s) \in S
  BY <1>1, ElementOfSeq DEF Last
<1>3. /\ Front(s) \in Seq(S) /\ Len(Front(s)) = Len(s) - 1
      /\ \A j \in 1 .. Len(s) - 1 : Front(s)[j] = s[j]
  <2> DEFINE b == Len(s) - 1
  <2>1. b \in Nat /\ 1 \in Nat /\ 1 <= 1 /\ b <= Len(s) /\ 1 <= b + 1
    BY <1>1
  <2> HIDE DEF b
  <2>2. /\ SubSeq(s, 1, b) \in Seq(S) /\ Len(SubSeq(s, 1, b)) = b - 1 + 1
        /\ \A j \in 1 .. b - 1 + 1 : SubSeq(s, 1, b)[j] = s[1 + j - 1]
    BY <2>1, SubIs
  <2>3. /\ SubSeq(s, 1, b) \in Seq(S) /\ Len(SubSeq(s, 1, b)) = b
        /\ \A j \in 1 .. b : SubSeq(s, 1, b)[j] = s[j]
    BY <2>1, <2>2
  <2> QED BY <2>3 DEF Front, b
<1> QED BY <1>1, <1>2, <1>3

LEMMA BisectIs ==
  ASSUME NEW keys \in Seq(Key), NEW k
  PROVE  BisectLeft(keys, k) \in 0 .. Len(keys) /\ BisectRight(keys, k) \in 0 .. Len(keys)
<1> DEFINE below == {i \in DOMAIN keys : keys[i] < k}
           upTo == {i \in DOMAIN keys : keys[i] <= k}
           all == 1 .. Len(keys)
<1>1. IsFiniteSet(all) /\ Cardinality(all) = Len(keys) /\ Len(keys) \in Nat
  <2>1. Len(keys) \in Nat
    OBVIOUS
  <2>2. IsFiniteSet(1 .. Len(keys)) /\ Cardinality(1 .. Len(keys)) = IF 1 > Len(keys) THEN 0 ELSE Len(keys) - 1 + 1
    BY <2>1, FS_Interval
  <2> QED BY <2>1, <2>2
<1>2. below \in SUBSET all /\ upTo \in SUBSET all
  OBVIOUS
<1> HIDE DEF below, upTo, all
<1>3. Cardinality(below) \in Nat /\ Cardinality(below) <= Len(keys)
  BY <1>1, <1>2, FS_Subset, FS_CardinalityType
<1>4. Cardinality(upTo) \in Nat /\ Cardinality(upTo) <= Len(keys)
  BY <1>1, <1>2, FS_Subset, FS_CardinalityType
<1> QED BY <1>1, <1>3, <1>4 DEF BisectLeft, BisectRight, below, upTo

LEMMA UpsertIs ==
  ASSUME NEW n \in LeafNodes, NEW k \in Key, NEW v \in Value
  PROVE  UpsertLeaf(n, k, v) \in LeafNodes
<1> DEFINE i == BisectLeft(n.keys, k) + 1
<1>1. n.keys \in Seq(Key) /\ n.values \in Seq(Value) /\ Len(n.keys) = Len(n.values)
  BY DEF LeafNodes
<1>2. i \in 1 .. Len(n.keys) + 1
  BY <1>1, BisectIs
<1> HIDE DEF i
<1>3. Leaf(n.keys, ReplaceAt(n.values, i, v)) \in LeafNodes
  BY <1>1, ReplaceIs DEF Leaf, LeafNodes
<1>4. Leaf(InsertAt(n.keys, i, k), InsertAt(n.values, i, v)) \in LeafNodes
  <2>1. InsertAt(n.keys, i, k) \in Seq(Key) /\ Len(InsertAt(n.keys, i, k)) = Len(n.keys) + 1
    BY <1>1, <1>2, InsertIs
  <2>2. InsertAt(n.values, i, v) \in Seq(Value) /\ Len(InsertAt(n.values, i, v)) = Len(n.keys) + 1
    BY <1>1, <1>2, InsertIs
  <2> QED BY <2>1, <2>2 DEF Leaf, LeafNodes
<1> QED BY <1>3, <1>4 DEF UpsertLeaf, i

LEMMA ChildForIs ==
  ASSUME NEW P, NEW n \in InternalNodes(P), NEW k
  PROVE  /\ ChildFor(n, k) \in P /\ ChildFor(n, k) \in ToSet(n.children)
         /\ BisectRight(n.keys, k) + 1 \in 1 .. Len(n.children)
         /\ DOMAIN n.children = 1 .. Len(n.children)
<1>1. n.keys \in Seq(Key) /\ n.children \in Seq(P) /\ Len(n.children) = Len(n.keys) + 1
  BY DEF InternalNodes
<1>2. BisectRight(n.keys, k) + 1 \in 1 .. Len(n.children)
  BY <1>1, BisectIs
<1>3. DOMAIN n.children = 1 .. Len(n.children)
  BY <1>1
<1> QED BY <1>1, <1>2, <1>3, ElementOfSeq DEF ChildFor, ToSet

KidsOf(n) == IF n.kind = "internal" THEN ToSet(n.children) ELSE {}

\* The parent names the copies instead of the child.
LEMMA AdoptIs ==
  ASSUME NEW P, NEW n \in InternalNodes(P), NEW k,
         NEW child, child.id \in P, child.key \in Key \cup {None}, child.id \notin KidsOf(n),
         child.key # None => child.right \in P /\ child.right \notin KidsOf(n) /\ child.right # child.id,
         NEW new, new = AdoptChild(n, k, child)
  PROVE  /\ new \in InternalNodes(P)
         /\ KidsOf(new) = (KidsOf(n) \ {ChildFor(n, k)}) \cup {child.id}
                            \cup (IF child.key = None THEN {} ELSE {child.right})
<1> DEFINE id == child.id
           key == child.key
           right == child.right
           insert(c, d) == IF key = None THEN Internal(n.keys, c)
                           ELSE Internal(InsertAt(n.keys, BisectRight(n.keys, k) + 1, key), d)
<1>0. /\ id \in P /\ key \in Key \cup {None} /\ id \notin KidsOf(n)
      /\ key # None => right \in P /\ right \notin KidsOf(n) /\ right # id
      /\ new = LET j == BisectRight(n.keys, k) + 1
                   r == ReplaceAt(n.children, j, id)
               IN  insert(r, InsertAt(r, j + 1, right))
  BY DEF AdoptChild
<1> HIDE DEF id, key, right
<1> DEFINE i == BisectRight(n.keys, k) + 1
           old == n.children
           c == ReplaceAt(old, i, id)
           m == Len(old)
           d == InsertAt(c, i + 1, right)
<1>1. /\ n.keys \in Seq(Key) /\ old \in Seq(P) /\ m = Len(n.keys) + 1 /\ Len(n.keys) \in Nat
      /\ Distinct(old) /\ n.kind = "internal"
  BY DEF InternalNodes
<1>2. i \in 1 .. m /\ DOMAIN old = 1 .. m /\ ChildFor(n, k) = old[i] /\ m \in Nat
  BY <1>1, ChildForIs DEF ChildFor
<1>3. KidsOf(n) = {old[j] : j \in 1 .. m}
  BY <1>1, <1>2 DEF KidsOf, ToSet
<1>4. c \in Seq(P) /\ Len(c) = m /\ DOMAIN c = 1 .. m /\ \A j \in 1 .. m : c[j] = IF j = i THEN id ELSE old[j]
  BY <1>0, <1>1, ReplaceIs
<1>5. \A j \in 1 .. m : j # i => old[j] # old[i] /\ old[j] # id
  BY <1>0, <1>1, <1>2, <1>3 DEF Distinct
<1>6. new = IF key = None THEN Internal(n.keys, c)
            ELSE Internal(InsertAt(n.keys, i, key), d)
  BY <1>0
<1> HIDE DEF i, c
<1>7. Distinct(c) /\ {c[j] : j \in 1 .. m} = (KidsOf(n) \ {ChildFor(n, k)}) \cup {id}
  <2>1. Distinct(c)
    BY <1>1, <1>2, <1>4, <1>5 DEF Distinct
  <2>2. \A x : (\E j \in 1 .. m : c[j] = x) <=> x = id \/ \E j \in 1 .. m : j # i /\ old[j] = x
    BY <1>2, <1>4
  <2>3. \A x : (\E j \in 1 .. m : j # i /\ old[j] = x) <=> x \in KidsOf(n) \ {ChildFor(n, k)}
    BY <1>2, <1>3, <1>5
  <2> HIDE DEF m, old
  <2> QED BY <2>1, <2>2, <2>3
<1> SUFFICES /\ new \in InternalNodes(P)
             /\ KidsOf(new) = (KidsOf(n) \ {ChildFor(n, k)}) \cup {id}
                                 \cup (IF key = None THEN {} ELSE {right})
  BY DEF id, key, right
<1>8. CASE key = None
  <2>1. new = Internal(n.keys, c)
    BY <1>6, <1>8
  <2>2. new \in InternalNodes(P)
    BY <2>1, <1>1, <1>4, <1>7 DEF Internal, InternalNodes
  <2>3. KidsOf(new) = {c[j] : j \in 1 .. m}
    BY <2>1, <1>4 DEF KidsOf, Internal, ToSet
  <2> QED BY <1>7, <1>8, <2>2, <2>3
<1>9. CASE key # None
  <2>1. new = Internal(InsertAt(n.keys, i, key), d) /\ key \in Key /\ right \in P
    BY <1>0, <1>6, <1>9
  <2>2. InsertAt(n.keys, i, key) \in Seq(Key) /\ Len(InsertAt(n.keys, i, key)) = m
    <3>1. i \in 1 .. Len(n.keys) + 1
      BY <1>1, <1>2
    <3>2. InsertAt(n.keys, i, key) \in Seq(Key) /\ Len(InsertAt(n.keys, i, key)) = Len(n.keys) + 1
      BY <1>1, <2>1, <3>1, InsertIs
    <3> QED BY <1>1, <3>2
  <2>3. i + 1 \in 1 .. Len(c) + 1
    BY <1>2, <1>4
  <2>4. d \in Seq(P) /\ Len(d) = m + 1
        /\ \A j \in 1 .. m + 1 : d[j] = IF j < i + 1 THEN c[j] ELSE IF j = i + 1 THEN right ELSE c[j - 1]
    <3>1. d \in Seq(P) /\ Len(d) = Len(c) + 1
        /\ \A j \in 1 .. Len(c) + 1 :
              d[j] = IF j < i + 1 THEN c[j] ELSE IF j = i + 1 THEN right ELSE c[j - 1]
      <4>1. \A o \in 1 .. Len(c) + 1 :
              /\ InsertAt(c, o, right) \in Seq(P) /\ Len(InsertAt(c, o, right)) = Len(c) + 1
              /\ \A j \in 1 .. Len(c) + 1 : InsertAt(c, o, right)[j] =
                     IF j < o THEN c[j] ELSE IF j = o THEN right ELSE c[j - 1]
        <5>1. c \in Seq(P) /\ right \in P
          BY <1>4, <2>1
        <5> TAKE o \in 1 .. Len(c) + 1
        <5> HIDE DEF m, old, d
        <5> QED BY <5>1, InsertIs, SMTT(60)
      <4> QED BY <2>3, <4>1
    <3>2. Len(c) = m
      BY <1>4
    <3> HIDE DEF d, m
    <3> QED BY <3>1, <3>2
  <2>5. \A j \in 1 .. m : c[j] # right
    <3>1. right \notin KidsOf(n) /\ right # id
      BY <1>0, <1>9
    <3> QED BY <1>3, <1>4, <3>1
  <2> HIDE DEF d
  <2>6. DOMAIN d = 1 .. m + 1
    BY <2>4
  <2>7. Distinct(d)
    <3> SUFFICES ASSUME NEW a \in 1 .. m + 1, NEW b \in 1 .. m + 1, d[a] = d[b], a < b PROVE FALSE
      BY <1>2, <2>6 DEF Distinct
    <3> DEFINE a1 == IF a < i + 1 THEN a ELSE a - 1
               b1 == IF b < i + 1 THEN b ELSE b - 1
    <3>1. CASE a = i + 1
      <4>1. b - 1 \in 1 .. m /\ d[b] = c[b - 1] /\ d[a] = right
        BY <1>2, <2>4, <3>1
      <4> QED BY <2>5, <4>1
    <3>2. CASE b = i + 1
      <4>1. a \in 1 .. m /\ d[a] = c[a] /\ d[b] = right
        BY <1>2, <2>4, <3>2
      <4> QED BY <2>5, <4>1
    <3>3. CASE a # i + 1 /\ b # i + 1
      <4>1. a1 \in 1 .. m /\ b1 \in 1 .. m /\ a1 # b1 /\ d[a] = c[a1] /\ d[b] = c[b1]
        BY <1>2, <2>4, <3>3
      <4> QED BY <1>4, <1>7, <4>1 DEF Distinct
    <3> QED BY <3>1, <3>2, <3>3
  <2>8. new \in InternalNodes(P)
    BY <1>1, <2>1, <2>2, <2>4, <2>7 DEF Internal, InternalNodes
  <2>9. KidsOf(new) = {d[j] : j \in 1 .. m + 1}
    BY <2>1, <2>6 DEF KidsOf, Internal, ToSet
  <2>10. {d[j] : j \in 1 .. m + 1} = {c[j] : j \in 1 .. m} \cup {right}
    <3>1. \A j \in 1 .. m + 1 : d[j] = right \/ \E l \in 1 .. m : d[j] = c[l]
      <4> SUFFICES ASSUME NEW j \in 1 .. m + 1 PROVE d[j] = right \/ \E l \in 1 .. m : d[j] = c[l]
        OBVIOUS
      <4>1. CASE j < i + 1
        BY <1>2, <2>4, <4>1
      <4>2. CASE j = i + 1
        BY <1>2, <2>4, <4>2
      <4>3. CASE j > i + 1
        <5>1. j - 1 \in 1 .. m /\ d[j] = c[j - 1]
          BY <1>2, <2>4, <4>3
        <5> QED BY <5>1
      <4> QED BY <1>2, <4>1, <4>2, <4>3
    <3>2. \A l \in 1 .. m : \E j \in 1 .. m + 1 : d[j] = c[l]
      <4> SUFFICES ASSUME NEW l \in 1 .. m PROVE \E j \in 1 .. m + 1 : d[j] = c[l]
        OBVIOUS
      <4>1. CASE l < i + 1
        BY <1>2, <2>4, <4>1
      <4>2. CASE l >= i + 1
        <5>1. l + 1 \in 1 .. m + 1 /\ d[l + 1] = c[l]
          BY <1>2, <2>4, <4>2
        <5> QED BY <5>1
      <4> QED BY <1>2, <4>1, <4>2
    <3>3. i + 1 \in 1 .. m + 1 /\ d[i + 1] = right
      <4>1. i + 1 \in 1 .. m + 1 /\ ~(i + 1 < i + 1)
        BY <1>2
      <4> HIDE DEF m
      <4> QED BY <2>4, <4>1
    <3> HIDE DEF m
    <3> QED BY <3>1, <3>2, <3>3
  <2> QED BY <1>7, <1>9, <2>8, <2>9, <2>10
<1> QED BY <1>0, <1>8, <1>9

-----------------------------------------------------------------------------
(* Splits.                                                                 *)

LEMMA SplitIndexIs ==
  ASSUME NEW base, NEW sizes, Len(sizes) \in Nat
  PROVE  SplitIndex(base, sizes) \in Nat /\ SplitIndex(base, sizes) >= 1
<1> DEFINE n == Len(sizes)
           Before(i) == i > 1 /\ NodeSize(base, SubSeq(sizes, 1, i)) > PageSize
           Behind(i) == i < n /\ NodeSize(base, SubSeq(sizes, 1, i)) >= NodeSize(base, sizes) \div 2
           stops == {i \in 1 .. n : Before(i) \/ Behind(i)}
           first == CHOOSE i \in stops : \A j \in stops : i <= j
<1>1. SplitIndex(base, sizes) = IF stops = {} THEN 1 ELSE IF Before(first) THEN first - 1 ELSE first
  BY DEF SplitIndex
<1>2. stops \in SUBSET Nat /\ \A i \in stops : i >= 1
  OBVIOUS
<1>3. Before(first) => first > 1
  OBVIOUS
<1> HIDE DEF stops, Before
<1>4. stops # {} => first \in stops
  BY <1>2, NatSetHasMin
<1> DEFINE r == SplitIndex(base, sizes)
<1> HIDE DEF first
<1>5. CASE stops = {}
  BY <1>1, <1>5
<1>6. CASE stops # {}
  <2>1. first \in Nat /\ first >= 1
    BY <1>2, <1>4, <1>6
  <2>2. r = IF Before(first) THEN first - 1 ELSE first
    BY <1>1, <1>6
  <2> HIDE DEF r
  <2>3. r \in Nat /\ r >= 1
    BY <1>3, <2>1, <2>2
  <2> QED BY <2>3 DEF r
<1> QED BY <1>5, <1>6

\* A node that is not cut behind its last key is cut into two nodes.
LEMMA SplitIs ==
  ASSUME NEW P, NEW n \in TreeNodes(P), ~SplitHasNoKey(Base(n), EntrySizesOf(n))
  PROVE  /\ LeftNode(n) \in TreeNodes(P) /\ RightNode(n) \in TreeNodes(P) /\ SplitKey(n) \in Key
         /\ KidsOf(LeftNode(n)) \cup KidsOf(RightNode(n)) = KidsOf(n)
         /\ KidsOf(LeftNode(n)) \cap KidsOf(RightNode(n)) = {}
<1> DEFINE i == SplitIndex(Base(n), EntrySizesOf(n))
           m == Len(n.keys)
<1>1. n.keys \in Seq(Key) /\ m \in Nat /\ n.kind \in {"leaf", "internal"}
  BY DEF TreeNodes, LeafNodes, InternalNodes
<1>2. Len(EntrySizesOf(n)) = m
  <2>1. DOMAIN EntrySizesOf(n) = 1 .. m
    BY <1>1 DEF EntrySizesOf
  <2>2. EntrySizesOf(n) = [j \in 1 .. m |-> EntrySizesOf(n)[j]]
    BY <2>1 DEF EntrySizesOf
  <2> HIDE DEF m
  <2> QED BY <1>1, <2>2
<1>3. i \in Nat /\ i >= 1 /\ i < m
  <2>1. i \in Nat /\ i >= 1
    BY <1>1, <1>2, SplitIndexIs
  <2> QED BY <1>1, <1>2, <2>1 DEF SplitHasNoKey
<1> HIDE DEF i
<1>4. SplitKey(n) \in Key
  <2>1. i + 1 \in 1 .. m
    BY <1>1, <1>3
  <2> QED BY <1>1, <2>1, ElementOfSeq DEF SplitKey, i
<1>5. SubSeq(n.keys, 1, i) \in Seq(Key) /\ Len(SubSeq(n.keys, 1, i)) = i
  <2>1. Len(SubSeq(n.keys, 1, i)) = i - 1 + 1 /\ SubSeq(n.keys, 1, i) \in Seq(Key)
    BY <1>1, <1>3, SubIs
  <2> QED BY <1>3, <2>1
<1>6. CASE n.kind = "leaf"
  <2>1. n.values \in Seq(Value) /\ Len(n.values) = m /\ n.kind # "internal"
    BY <1>6 DEF TreeNodes, LeafNodes, InternalNodes
  <2>2. LeftNode(n) = Leaf(SubSeq(n.keys, 1, i), SubSeq(n.values, 1, i))
    BY <1>6 DEF LeftNode, i
  <2>3. RightNode(n) = Leaf(SubSeq(n.keys, i + 1, m), SubSeq(n.values, i + 1, m))
    BY <1>6 DEF RightNode, i
  <2>4. SubSeq(n.values, 1, i) \in Seq(Value) /\ Len(SubSeq(n.values, 1, i)) = i
    <3>1. Len(SubSeq(n.values, 1, i)) = i - 1 + 1 /\ SubSeq(n.values, 1, i) \in Seq(Value)
      BY <1>1, <1>3, <2>1, SubIs
    <3> QED BY <1>3, <3>1
  <2>5. LeftNode(n) \in LeafNodes
    BY <1>5, <2>2, <2>4 DEF Leaf, LeafNodes
  <2>6. i + 1 \in Nat /\ 1 <= i + 1 /\ i + 1 <= m + 1
    BY <1>1, <1>3
  <2>7. SubSeq(n.keys, i + 1, m) \in Seq(Key) /\ Len(SubSeq(n.keys, i + 1, m)) = m - (i + 1) + 1
    BY <1>1, <2>6, SubIs
  <2>8. SubSeq(n.values, i + 1, m) \in Seq(Value) /\ Len(SubSeq(n.values, i + 1, m)) = m - (i + 1) + 1
    BY <1>1, <2>1, <2>6, SubIs
  <2>9. RightNode(n) \in LeafNodes
    BY <2>3, <2>7, <2>8 DEF Leaf, LeafNodes
  <2>10. KidsOf(LeftNode(n)) = {} /\ KidsOf(RightNode(n)) = {} /\ KidsOf(n) = {}
    BY <2>1, <2>2, <2>3 DEF KidsOf, Leaf
  <2> QED BY <1>4, <2>5, <2>9, <2>10 DEF TreeNodes
<1>7. CASE n.kind = "internal"
  <2>1. /\ n.children \in Seq(P) /\ Len(n.children) = m + 1 /\ Distinct(n.children)
        /\ DOMAIN n.children = 1 .. m + 1
    BY <1>7 DEF TreeNodes, LeafNodes, InternalNodes
  <2> DEFINE c == n.children
             a == SubSeq(c, 1, i + 1)
             b == SubSeq(c, i + 2, m + 1)
  <2>2. LeftNode(n) = Internal(SubSeq(n.keys, 1, i), a)
    BY <1>7 DEF LeftNode, i
  <2>3. RightNode(n) = Internal(SubSeq(n.keys, i + 2, m), b)
    BY <1>7 DEF RightNode, i
  <2>4. a \in Seq(P) /\ Len(a) = i + 1 /\ \A j \in 1 .. i + 1 : a[j] = c[j]
    <3>1. i + 1 \in Nat /\ 1 \in Nat /\ 1 <= 1 /\ i + 1 <= Len(c) /\ 1 <= i + 1 + 1
      BY <1>1, <1>3, <2>1
    <3>2. a \in Seq(P) /\ Len(a) = (i + 1) - 1 + 1 /\ \A j \in 1 .. (i + 1) - 1 + 1 : a[j] = c[1 + j - 1]
      <4> HIDE DEF c
      <4> QED BY <2>1, <3>1, SubIs DEF c
    <3> HIDE DEF c, a
    <3> QED BY <1>3, <3>2
  <2>5. b \in Seq(P) /\ Len(b) = m - i /\ \A j \in 1 .. m - i : b[j] = c[i + 1 + j] /\ i + 1 + j \in 1 .. m + 1
    <3>1. i + 2 \in Nat /\ m + 1 \in Nat /\ 1 <= i + 2 /\ m + 1 <= Len(c) /\ i + 2 <= m + 1 + 1
      BY <1>1, <1>3, <2>1
    <3>2. b \in Seq(P) /\ Len(b) = (m + 1) - (i + 2) + 1
          /\ \A j \in 1 .. (m + 1) - (i + 2) + 1 : b[j] = c[i + 2 + j - 1]
      <4> HIDE DEF c
      <4> QED BY <2>1, <3>1, SubIs DEF c
    <3>3. \A j \in 1 .. m - i : i + 2 + j - 1 = i + 1 + j /\ i + 1 + j \in 1 .. m + 1
      BY <1>1, <1>3
    <3> HIDE DEF c, b, m
    <3> QED BY <1>1, <1>3, <3>2, <3>3
  <2>6. SubSeq(n.keys, i + 2, m) \in Seq(Key) /\ Len(SubSeq(n.keys, i + 2, m)) = m - i - 1
    <3>1. i + 2 \in Nat /\ 1 <= i + 2 /\ i + 2 <= m + 1
      BY <1>1, <1>3
    <3>2. SubSeq(n.keys, i + 2, m) \in Seq(Key) /\ Len(SubSeq(n.keys, i + 2, m)) = m - (i + 2) + 1
      BY <1>1, <3>1, SubIs
    <3> QED BY <1>1, <1>3, <3>2
  <2> HIDE DEF a, b
  <2>7. DOMAIN a = 1 .. i + 1 /\ DOMAIN b = 1 .. m - i /\ \A j \in 1 .. i + 1 : j \in 1 .. m + 1
    BY <1>1, <1>3, <2>4, <2>5
  <2>8. Distinct(a)
    BY <2>1, <2>4, <2>7 DEF Distinct
  <2>9. Distinct(b)
    <3> SUFFICES ASSUME NEW x \in 1 .. m - i, NEW y \in 1 .. m - i, b[x] = b[y] PROVE x = y
      BY <2>7 DEF Distinct
    <3>1. i + 1 + x = i + 1 + y
      BY <2>1, <2>5 DEF Distinct
    <3> QED BY <1>3, <3>1
  <2>10. LeftNode(n) \in InternalNodes(P)
    BY <1>5, <2>2, <2>4, <2>8 DEF Internal, InternalNodes
  <2>11. RightNode(n) \in InternalNodes(P)
    <3>1. m - i = m - i - 1 + 1
      BY <1>1, <1>3
    <3> QED BY <2>3, <2>5, <2>6, <2>9, <3>1 DEF Internal, InternalNodes
  <2>12. /\ KidsOf(LeftNode(n)) = {a[j] : j \in 1 .. i + 1}
         /\ KidsOf(RightNode(n)) = {b[j] : j \in 1 .. m - i}
         /\ KidsOf(n) = {c[j] : j \in 1 .. m + 1}
    BY <1>7, <2>1, <2>2, <2>3, <2>7 DEF KidsOf, Internal, ToSet
  <2>13. {a[j] : j \in 1 .. i + 1} \cup {b[j] : j \in 1 .. m - i} = {c[j] : j \in 1 .. m + 1}
    <3>1. \A j \in 1 .. m + 1 : j \in 1 .. i + 1 \/ (j - i - 1 \in 1 .. m - i /\ i + 1 + (j - i - 1) = j)
      BY <1>1, <1>3
    <3>2. \A j \in 1 .. m + 1 : (\E l \in 1 .. i + 1 : c[j] = a[l]) \/ (\E l \in 1 .. m - i : c[j] = b[l])
      <4> TAKE j \in 1 .. m + 1
      <4>1. CASE j \in 1 .. i + 1
        BY <2>4, <4>1
      <4>2. CASE j \notin 1 .. i + 1
        <5>1. j - i - 1 \in 1 .. m - i /\ i + 1 + (j - i - 1) = j
          BY <3>1, <4>2
        <5>2. b[j - i - 1] = c[i + 1 + (j - i - 1)]
          BY <2>5, <5>1
        <5> HIDE DEF m, c
        <5> QED BY <5>1, <5>2
      <4> QED BY <4>1, <4>2
    <3>3. \A j \in 1 .. i + 1 : \E l \in 1 .. m + 1 : a[j] = c[l]
      BY <2>4, <2>7
    <3>4. \A j \in 1 .. m - i : \E l \in 1 .. m + 1 : b[j] = c[l]
      BY <2>5
    <3> DEFINE A == {a[j] : j \in 1 .. i + 1}
               B == {b[j] : j \in 1 .. m - i}
               C == {c[j] : j \in 1 .. m + 1}
    <3>5. A \subseteq C /\ B \subseteq C
      BY <3>3, <3>4
    <3>6. C \subseteq A \cup B
      BY <3>2
    <3> HIDE DEF A, B, C
    <3>7. A \cup B = C
      BY <3>5, <3>6
    <3> QED BY <3>7 DEF A, B, C
  <2>14. {a[j] : j \in 1 .. i + 1} \cap {b[j] : j \in 1 .. m - i} = {}
    <3> SUFFICES ASSUME NEW x \in 1 .. i + 1, NEW y \in 1 .. m - i, a[x] = b[y] PROVE FALSE
      OBVIOUS
    <3>1. x = i + 1 + y
      <4>1. c[x] = c[i + 1 + y] /\ x \in 1 .. m + 1 /\ i + 1 + y \in 1 .. m + 1
        BY <2>4, <2>5, <2>7
      <4> QED BY <2>1, <4>1 DEF Distinct
    <3> QED BY <1>3, <3>1
  <2> QED BY <1>4, <2>10, <2>11, <2>12, <2>13, <2>14 DEF TreeNodes
<1> QED BY <1>1, <1>6, <1>7

LEMMA EmptyLeafFits == Leaf(<<>>, <<>>) \in LeafNodes /\ ~TooLarge(Leaf(<<>>, <<>>))
<1>1. Leaf(<<>>, <<>>) \in LeafNodes
  BY DEF Leaf, LeafNodes
<1> DEFINE iter == CHOOSE g : g = [s \in SUBSET {} |->
                IF s = {} THEN 0
                ELSE LET x == Max(s) IN Plus(g[s \ {x}], EntrySizesOf(Leaf(<<>>, <<>>))[x])]
           z == [s \in SUBSET {} |-> 0]
<1>2. z = [s \in SUBSET {} |->
                IF s = {} THEN 0
                ELSE LET x == Max(s) IN Plus(z[s \ {x}], EntrySizesOf(Leaf(<<>>, <<>>))[x])]
  <2>1. \A s \in SUBSET {} : s = {}
    OBVIOUS
  <2> QED BY <2>1
<1>3. iter = [s \in SUBSET {} |->
                IF s = {} THEN 0
                ELSE LET x == Max(s) IN Plus(iter[s \ {x}], EntrySizesOf(Leaf(<<>>, <<>>))[x])]
  <2> HIDE DEF z
  <2> QED BY <1>2
<1>4. iter[{}] = 0
  <2> HIDE DEF iter
  <2> QED BY <1>3
<1>5. DOMAIN EntrySizesOf(Leaf(<<>>, <<>>)) = {}
  BY DEF EntrySizesOf, Leaf
<1>6. FoldLeft(Plus, 0, EntrySizesOf(Leaf(<<>>, <<>>))) = iter[{}]
  BY <1>5 DEF FoldLeft, MapThenFoldSet
<1>7. NodeSize(Base(Leaf(<<>>, <<>>)), EntrySizesOf(Leaf(<<>>, <<>>))) = LeafBase
  BY <1>4, <1>6 DEF NodeSize, Base, Leaf, LeafBase
<1> QED BY <1>1, <1>7, PageSizeAssumption DEF TooLarge, Overflows, LeafBase, InternalBase

-----------------------------------------------------------------------------
(* What put collects from the tracker.                                     *)

\* A sequence of sequences, one behind the other, has their elements, and each
\* once if they share none.
LEMMA FlattenIs ==
  ASSUME NEW S, NEW seqs \in Seq(Seq(S)),
         \A i \in DOMAIN seqs : Distinct(seqs[i]),
         \A i, j \in DOMAIN seqs : i # j => ToSet(seqs[i]) \cap ToSet(seqs[j]) = {}
  PROVE  /\ FlattenSeq(seqs) \in Seq(S) /\ Distinct(FlattenSeq(seqs))
         /\ ToSet(FlattenSeq(seqs)) = UNION {ToSet(seqs[i]) : i \in DOMAIN seqs}
<1> DEFINE n == Len(seqs)
           F == FlatFun(seqs)
           Union(i) == UNION {ToSet(seqs[j]) : j \in 1 .. i}
           Is(i) == F[i] \in Seq(S) /\ Distinct(F[i]) /\ ToSet(F[i]) = Union(i)
<1>1. n \in Nat /\ DOMAIN seqs = 1 .. n /\ \A i \in 1 .. n : seqs[i] \in Seq(S)
  BY ElementOfSeq
<1>2. \A i \in 1 .. n : F[i] = IF i = 1 THEN seqs[i] ELSE F[i - 1] \o seqs[i]
  BY FlatFunIs
<1>3. CASE n = 0
  <2>1. FlattenSeq(seqs) = seqs /\ seqs = <<>>
    BY <1>3, EmptySeq DEF FlattenSeq
  <2> QED BY <2>1 DEF Distinct, ToSet
<1>4. CASE n # 0
  <2>1. FlattenSeq(seqs) = F[n]
    BY <1>4 DEF FlattenSeq, FlatFun
  <2>2. ASSUME NEW i \in 1 .. n, i = 1 \/ Is(i - 1) PROVE Is(i)
    <3>1. CASE i = 1
      <4>1. F[i] = seqs[1] /\ Union(i) = ToSet(seqs[1])
        BY <1>2, <3>1
      <4> QED BY <1>1, <1>4, <3>1, <4>1
    <3>2. CASE i # 1
      <4> DEFINE u == F[i - 1]
                 w == seqs[i]
      <4>1. u \in Seq(S) /\ Distinct(u) /\ ToSet(u) = Union(i - 1)
        BY <2>2, <3>2
      <4>2. w \in Seq(S) /\ Distinct(w) /\ F[i] = u \o w
        BY <1>1, <1>2, <3>2
      <4>3. Union(i) = Union(i - 1) \cup ToSet(w)
        <5>1. \A j \in 1 .. i : j = i \/ j \in 1 .. i - 1
          BY <1>1
        <5>2. \A j \in 1 .. i - 1 : j \in 1 .. i
          BY <1>1
        <5>3. i \in 1 .. i
          BY <1>1
        <5> QED BY <5>1, <5>2, <5>3
      <4>4. ToSet(u) \cap ToSet(w) = {}
        <5>1. \A j \in 1 .. i - 1 : j \in 1 .. n /\ j # i
          BY <1>1
        <5> QED BY <1>1, <4>1, <5>1
      <4> HIDE DEF u, w, Union, F
      <4>5. /\ u \o w \in Seq(S) /\ Len(u \o w) = Len(u) + Len(w)
            /\ \A j \in 1 .. Len(u) + Len(w) : (u \o w)[j] = IF j <= Len(u) THEN u[j] ELSE w[j - Len(u)]
        BY <4>1, <4>2, ConcatProperties
      <4>6. /\ Len(u) \in Nat /\ DOMAIN u = 1 .. Len(u) /\ Len(w) \in Nat /\ DOMAIN w = 1 .. Len(w)
            /\ DOMAIN (u \o w) = 1 .. Len(u) + Len(w)
        BY <4>1, <4>2, <4>5
      <4>7. \A j \in 1 .. Len(u) + Len(w) :
               \/ j \in 1 .. Len(u) /\ (u \o w)[j] = u[j] /\ (u \o w)[j] \in ToSet(u)
               \/ /\ j - Len(u) \in 1 .. Len(w) /\ (u \o w)[j] = w[j - Len(u)]
                  /\ (u \o w)[j] \in ToSet(w)
        <5> TAKE j \in 1 .. Len(u) + Len(w)
        <5>1. CASE j <= Len(u)
          <6>1. j \in 1 .. Len(u)
            BY <4>6, <5>1
          <6>2. (u \o w)[j] = u[j]
            BY <4>5, <5>1
          <6>3. u[j] \in ToSet(u)
            BY <4>6, <6>1 DEF ToSet
          <6> QED BY <6>1, <6>2, <6>3
        <5>2. CASE ~(j <= Len(u))
          <6>1. j - Len(u) \in 1 .. Len(w)
            BY <4>6, <5>2
          <6>2. (u \o w)[j] = w[j - Len(u)]
            BY <4>5, <5>2
          <6>3. j - Len(u) \in DOMAIN w
            BY <4>6, <6>1
          <6>4. w[j - Len(u)] \in ToSet(w)
            BY <6>3 DEF ToSet
          <6> QED BY <6>1, <6>2, <6>4
        <5> QED BY <5>1, <5>2
      <4>8. Distinct(u \o w)
        <5> SUFFICES ASSUME NEW a \in 1 .. Len(u) + Len(w), NEW b \in 1 .. Len(u) + Len(w),
                            (u \o w)[a] = (u \o w)[b]
                     PROVE  a = b
          BY <4>6 DEF Distinct
        <5>1. CASE a \in 1 .. Len(u) /\ b \in 1 .. Len(u)
          <6>1. u[a] = u[b]
            BY <4>5, <4>6, <5>1
          <6> QED BY <4>1, <4>6, <5>1, <6>1 DEF Distinct
        <5>2. CASE a - Len(u) \in 1 .. Len(w) /\ b - Len(u) \in 1 .. Len(w)
          <6>1. w[a - Len(u)] = w[b - Len(u)]
            BY <4>5, <4>6, <5>2
          <6>2. a - Len(u) = b - Len(u)
            BY <4>2, <4>6, <5>2, <6>1 DEF Distinct
          <6> QED BY <4>6, <6>2
        <5> QED BY <4>4, <4>7, <5>1, <5>2
      <4>9. ToSet(u \o w) = ToSet(u) \cup ToSet(w)
        <5>1. \A x \in ToSet(u \o w) : x \in ToSet(u) \cup ToSet(w)
          BY <4>6, <4>7 DEF ToSet
        <5>2. \A x \in ToSet(u) : x \in ToSet(u \o w)
          <6> TAKE x \in ToSet(u)
          <6>1. PICK j \in 1 .. Len(u) : u[j] = x
            BY <4>6 DEF ToSet
          <6>2. j \in 1 .. Len(u) + Len(w) /\ (u \o w)[j] = x
            BY <4>5, <4>6, <6>1
          <6> QED BY <4>6, <6>2 DEF ToSet
        <5>3. \A x \in ToSet(w) : x \in ToSet(u \o w)
          <6> TAKE x \in ToSet(w)
          <6>1. PICK j \in 1 .. Len(w) : w[j] = x
            BY <4>6 DEF ToSet
          <6>2. j + Len(u) \in 1 .. Len(u) + Len(w) /\ ~(j + Len(u) <= Len(u)) /\ (j + Len(u)) - Len(u) = j
            BY <4>6
          <6>3. (u \o w)[j + Len(u)] = x
            BY <4>5, <6>1, <6>2
          <6> QED BY <4>6, <6>2, <6>3 DEF ToSet
        <5> QED BY <5>1, <5>2, <5>3
      <4> QED BY <4>1, <4>2, <4>3, <4>5, <4>8, <4>9
    <3> QED BY <3>1, <3>2
  <2>3. \A i \in 1 .. n : Is(i)
    <3> DEFINE bad == {i \in 1 .. n : ~Is(i)}
    <3> HIDE DEF Is
    <3> SUFFICES ASSUME bad # {} PROVE FALSE
      OBVIOUS
    <3>1. bad \in SUBSET Nat
      OBVIOUS
    <3>2. PICK i \in bad : \A k \in bad : i <= k
      BY <3>1, NatSetHasMin
    <3>3. i = 1 \/ i - 1 \in 1 .. n
      BY <1>1, <3>2
    <3>4. i - 1 \notin bad
      BY <1>1, <3>2
    <3> QED BY <2>2, <3>2, <3>3, <3>4
  <2>4. Is(n)
    <3>1. n \in 1 .. n
      BY <1>1, <1>4
    <3> HIDE DEF Is, n
    <3> QED BY <2>3, <3>1
  <2>5. Union(n) = UNION {ToSet(seqs[i]) : i \in DOMAIN seqs}
    BY <1>1
  <2> QED BY <2>1, <2>4, <2>5
<1> QED BY <1>3, <1>4

-----------------------------------------------------------------------------
PV == INSTANCE PageVersionsProofs WITH
    tree <- TreeInMemory, saved <- TreeInFile, free <- FreePages, hand <- HandPages,
    orphans <- CommittedOrphans, retired <- RetiredAs, reading <- ReadingPages

(* The inductive invariant, in a conjunct for each part of the state.      *)

\* The head of the list that the file names, and that memory names.
SavedHead == IF file[0].kind = "header" THEN file[0].head ELSE 0

MemHead == IF writer.pc # "closed" THEN header.head ELSE SavedHead

\* What memory and page 0 know of each other.
HeaderInv ==
    /\ writer.pc # "closed" => header \in [root : Ids(file), head : Ids(file) \cup {0}]
    /\ writer.pc = "closed" => header = [root |-> 0, head |-> 0]
    /\ writer.pc = "createHeader" => file[0] = Blank /\ header.head = 0
    /\ IsOpen => /\ file[0].kind = "header"
                 /\ writer.pc # "publishRoot" => file[0].root = header.root
                 /\ writer.pc \notin {"addPage", "publishHead"} => file[0].head = header.head

\* What memory, the file and the gets have of the tree are trees: each page is
\* reached in one way and is a node.
TreeInv ==
    /\ writer.pc # "closed" => IsTree(file, header.root)
    /\ file[0].kind = "header" => IsTree(file, file[0].root)
    /\ \A r \in Reader : reader[r].pc = "walking" => IsTree(file, reader[r].page)

\* Memory has a list that names each page once, and the file the same list or
\* the rest of it.  The page that is added to is in the file as it was, or
\* not at all.
ListInv ==
    /\ ListOK(WithAdded, MemHead)
    /\ IsList(file, SavedHead)
    /\ SavedHead \in {0} \cup ListPages(WithAdded, MemHead)
    /\ writer.pc = "addPage" => /\ writer.list \in FreeLists(Ids(file))
                                /\ writer.list.id = header.head
                                /\ IsBehind(file, WithAdded)

\* Where put can be, and what it then has in its frames.
Places == {"addFree", "addPage", "publishHead", "sync", "descend", "allocate", "allocateRoot",
           "write", "writeRoot", "writeLeft", "writeRight", "commitRoot", "publishRoot",
           "commitWrite", "reclaim"}

Works(P) ==
    [pc : Places, then : {None, "idle", "write", "writeRoot", "writeLeft"},
     key : Key, value : Value, committed : BOOLEAN, free : Seq(P),
     list : FreeLists(P) \cup {NoList}, next : P, above : Seq(InternalNodes(P)),
     orphans : Seq(P), node : TreeNodes(P) \cup {Blank}, new : P \cup {0}, right : P \cup {0}]

\* The step that put will take when it has synced.
At(w) == IF w.pc = "sync" THEN w.then ELSE w.pc

\* The way down to a page: each node as it was read, and the child for the key.
IsPath(f, root, path, above, key) ==
    /\ path[1] = root
    /\ \A j \in 1 .. Len(above) :
          f[path[j]] = above[j] /\ path[j + 1] = ChildFor(above[j], key)

\* Each page of the path is below those before it.
IsChain(f, path) ==
    \A i, j \in DOMAIN path :
        i < j => path[j] \in TreePages(f, path[i]) /\ path[i] \notin TreePages(f, path[j])

\* The pages below a node.
Subs(f, n) == UNION {TreePages(f, k) : k \in KidsOf(n)}

\* The children of a node are trees that share nothing.
AreTrees(f, n) ==
    /\ \A k \in KidsOf(n) : IsTree(f, k)
    /\ \A k, l \in KidsOf(n) : k # l => TreePages(f, k) \cap TreePages(f, l) = {}

\* On its way down put knows the path from the root.
DownOK(f, root, w) ==
    /\ Len(w.orphans) = Len(w.above)
    /\ w.node = Blank /\ w.new = 0 /\ w.right = 0
    /\ IsPath(f, root, Append(w.orphans, w.next), w.above, w.key)
    /\ IsChain(f, Append(w.orphans, w.next))

\* The node takes the place of a page of the path: below it there are copies,
\* and what was below that page except the path.
NodeOK(f, root, w) ==
    /\ Len(w.above) < Len(w.orphans)
    /\ IsPath(f, root, w.orphans, w.above, w.key)
    /\ IsChain(f, w.orphans)
    /\ w.node # Blank /\ AreTrees(f, w.node)
    /\ Subs(f, w.node) \cap TreePages(f, root) =
          TreePages(f, w.orphans[Len(w.above) + 1]) \ ToSet(w.orphans)
    /\ {w.new, w.right} \cap TreePages(f, root) = {}

\* The pages for the copy are new from their allocation on; before, new and
\* right are those of the child that was copied last.
CopyOK(f, w) ==
    /\ At(w) \in {"allocateRoot", "writeRoot"} => w.above = <<>>
    /\ At(w) \in {"allocate", "allocateRoot"} => w.new \in {0} \cup Subs(f, w.node)
    /\ At(w) \in {"allocate", "allocateRoot", "write", "writeRoot"} =>
          w.right \in {0} \cup Subs(f, w.node)
    /\ At(w) \in {"write", "writeRoot", "writeLeft", "writeRight"} =>
          w.new # 0 /\ w.new \notin Subs(f, w.node)
    /\ At(w) \in {"writeLeft", "writeRight"} =>
          /\ w.right # 0 /\ w.right \notin Subs(f, w.node) /\ w.right # w.new
          /\ ~SplitHasNoKey(Base(w.node), EntrySizesOf(w.node))
    /\ At(w) = "writeRight" => f[w.new] = LeftNode(w.node)

\* The new tree has what the old one has, but for the path.
DoneOK(f, root, w) ==
    /\ w.node = Blank /\ w.new # 0
    /\ IsTree(f, w.new)
    /\ ToSet(w.orphans) \subseteq TreePages(f, root)
    /\ TreePages(f, w.new) \cap TreePages(f, root) = TreePages(f, root) \ ToSet(w.orphans)
    /\ w.right \in {0} \cup TreePages(f, w.new)

Downward == {"addFree", "addPage", "publishHead", "descend"}
Upward == {"allocate", "allocateRoot", "write", "writeRoot", "writeLeft", "writeRight"}
Behind == {"commitWrite", "reclaim", "addFree", "addPage", "publishHead", "idle"}

\* What put has in its frames fits to where it is.
WorkOK(f, root, w) ==
    /\ w \in Works(Ids(f))
    /\ w.pc = "sync" => w.then \in {"idle", "write", "writeRoot", "writeLeft"}
    /\ Distinct(w.free) /\ Distinct(w.orphans)
    /\ w.pc \notin {"addFree", "addPage"} => w.free = <<>>
    /\ w.committed => At(w) \in Behind
    /\ At(w) \in {"commitWrite", "reclaim", "idle"} => w.committed
    /\ ~w.committed /\ At(w) \in Downward => DownOK(f, root, w)
    /\ At(w) \in Upward => NodeOK(f, root, w) /\ CopyOK(f, w)
    /\ At(w) = "commitRoot" => DoneOK(f, root, w)
    /\ w.committed \/ At(w) = "publishRoot" =>
          w.node = Blank /\ {w.new, w.right} \subseteq {0} \cup TreePages(f, root)

NoWork == {NoThread, [pc |-> "closed"], [pc |-> "createHeader"]}

WriterInv == writer \in NoWork \/ WorkOK(file, header.root, writer)

\* What a get has in its frames: it never finds a page that is no node.
Threads(P) ==
    {NoThread} \cup [pc : {"begun"}, key : Key] \cup [pc : {"walking"}, key : Key, page : P]
        \cup [pc : {"found"}, value : Value \cup {None}]

\* A put that has not retired its orphans has its version to come.
Retires(w) == w \notin NoWork /\ (w.committed => w.pc = "commitWrite")

\* A page is retired under one version, once.
PendingOK(pend, vers, P) ==
    /\ DOMAIN pend \subseteq 0 .. (vers - 1)
    /\ \A v \in DOMAIN pend : pend[v] \in Seq(P) /\ Distinct(pend[v])
    /\ \A v, w \in DOMAIN pend : v # w => ToSet(pend[v]) \cap ToSet(pend[w]) = {}

\* There is a put behind each version.
TrackerInv ==
    /\ puts \in 0 .. MaxPuts /\ version \in 0 .. puts
    /\ Retires(writer) => version < puts
    /\ PendingOK(pending, version, Ids(file))

ReaderInv ==
    /\ reader \in [Reader -> Threads(Ids(file))]
    /\ \A r \in Reader : (active[r] = None) <=> (reader[r] = NoThread)
    /\ ~IsOpen => \A r \in Reader : reader[r] = NoThread

CowInv ==
    /\ FileOK(file) /\ HeaderInv /\ TreeInv /\ ListInv /\ WriterInv /\ TrackerInv /\ ReaderInv

-----------------------------------------------------------------------------
(* What does not change on the pages that something is about leaves it as  *)
(* it is.                                                                  *)

Keeps(f, g, A) == \A p \in A : p \in DOMAIN g /\ g[p] = f[p]

LEMMA TreeKeeps ==
  ASSUME NEW f, NEW g, FileOK(f), FileOK(g), NEW c, IsTree(f, c), Keeps(f, g, TreePages(f, c))
  PROVE  IsTree(g, c) /\ TreePages(g, c) = TreePages(f, c)
<1>1. c \in Ids(f)
  BY DEF IsTree
<1>2. \A p \in TreePages(f, c) : p \in DOMAIN g /\ g[p] = f[p]
  BY DEF Keeps
<1> QED BY <1>1, <1>2, TreeLocal

LEMMA SubsKeep ==
  ASSUME NEW f, NEW g, FileOK(f), FileOK(g), NEW n, AreTrees(f, n), Keeps(f, g, Subs(f, n))
  PROVE  AreTrees(g, n) /\ Subs(g, n) = Subs(f, n)
<1>1. \A k \in KidsOf(n) : IsTree(f, k) /\ Keeps(f, g, TreePages(f, k))
  BY DEF AreTrees, Keeps, Subs
<1>2. \A k \in KidsOf(n) : IsTree(g, k) /\ TreePages(g, k) = TreePages(f, k)
  BY <1>1, TreeKeeps
<1>3. AreTrees(g, n)
  BY <1>2 DEF AreTrees
<1>4. Subs(g, n) = Subs(f, n)
  BY <1>2 DEF Subs
<1> QED BY <1>3, <1>4

LEMMA ChainWithin ==
  ASSUME NEW f, FileOK(f), NEW root \in Ids(f), NEW path \in Seq(Ids(f)), path # <<>>,
         path[1] = root, IsChain(f, path)
  PROVE  /\ ToSet(path) \subseteq TreePages(f, root) /\ Distinct(path)
         /\ \A j \in DOMAIN path : path[j] \in Ids(f) /\ path[j] \in TreePages(f, root)
<1>1. Len(path) \in Nat /\ Len(path) >= 1 /\ DOMAIN path = 1 .. Len(path)
  BY EmptySeq
<1>2. \A j \in DOMAIN path : path[j] \in Ids(f)
  BY <1>1, ElementOfSeq
<1>3. \A j \in DOMAIN path : path[j] \in TreePages(f, root)
  <2> SUFFICES ASSUME NEW j \in DOMAIN path PROVE path[j] \in TreePages(f, root)
    OBVIOUS
  <2>1. CASE j = 1
    BY <2>1, TreeBasics
  <2>2. CASE j # 1
    <3>1. 1 \in DOMAIN path /\ 1 < j
      BY <1>1, <2>2
    <3> QED BY <3>1 DEF IsChain
  <2> QED BY <2>1, <2>2
<1>4. Distinct(path)
  <2> SUFFICES ASSUME NEW i \in DOMAIN path, NEW j \in DOMAIN path, path[i] = path[j], i < j
               PROVE  FALSE
    BY <1>1 DEF Distinct
  <2>1. path[i] \notin TreePages(f, path[j])
    BY DEF IsChain
  <2>2. path[j] \in TreePages(f, path[j])
    BY <1>2, TreeBasics
  <2> QED BY <2>1, <2>2
<1> QED BY <1>3, <1>4, <1>2 DEF ToSet

LEMMA PathKeeps ==
  ASSUME NEW f, NEW g, FileOK(f), FileOK(g), NEW root, IsTree(f, root),
         Keeps(f, g, TreePages(f, root)),
         NEW path \in Seq(Ids(f)), NEW above, NEW key, Len(above) \in Nat, Len(above) < Len(path),
         IsPath(f, root, path, above, key), IsChain(f, path)
  PROVE  /\ IsPath(g, root, path, above, key) /\ IsChain(g, path)
         /\ \A j \in DOMAIN path : TreePages(g, path[j]) = TreePages(f, path[j])
<1>1. root \in Ids(f) /\ path # <<>> /\ path[1] = root
  BY DEF IsTree, IsPath
<1>2. \A j \in DOMAIN path : path[j] \in TreePages(f, root)
  BY <1>1, ChainWithin
<1>3. \A j \in DOMAIN path : /\ path[j] \in DOMAIN g /\ g[path[j]] = f[path[j]]
                             /\ TreePages(g, path[j]) = TreePages(f, path[j])
  <2> SUFFICES ASSUME NEW j \in DOMAIN path
               PROVE  /\ path[j] \in DOMAIN g /\ g[path[j]] = f[path[j]]
                      /\ TreePages(g, path[j]) = TreePages(f, path[j])
    OBVIOUS
  <2> DEFINE p == path[j]
  <2>1. p \in TreePages(f, root)
    BY <1>2
  <2> HIDE DEF p
  <2>2. IsTree(f, p) /\ TreePages(f, p) \subseteq TreePages(f, root)
    BY <2>1, TreeBelow
  <2>3. Keeps(f, g, TreePages(f, p))
    BY <2>2 DEF Keeps
  <2>4. TreePages(g, p) = TreePages(f, p)
    BY <2>2, <2>3, TreeKeeps
  <2>5. p \in DOMAIN g /\ g[p] = f[p]
    BY <2>1 DEF Keeps
  <2> QED BY <2>4, <2>5 DEF p
<1>4. \A j \in 1 .. Len(above) : j \in DOMAIN path
  OBVIOUS
<1>5. IsPath(g, root, path, above, key)
  BY <1>3, <1>4 DEF IsPath
<1>6. IsChain(g, path)
  BY <1>3 DEF IsChain
<1> QED BY <1>3, <1>5, <1>6

LEMMA WorksGrow ==
  ASSUME NEW P, NEW Q, P \subseteq Q
  PROVE  Works(P) \subseteq Works(Q)
<1>1. /\ Seq(P) \subseteq Seq(Q) /\ TreeNodes(P) \subseteq TreeNodes(Q)
      /\ FreeLists(P) \subseteq FreeLists(Q) /\ InternalNodes(P) \subseteq InternalNodes(Q)
  BY SeqMonotonic, TypesGrow
<1>2. Seq(InternalNodes(P)) \subseteq Seq(InternalNodes(Q))
  BY <1>1, SeqMonotonic
<1> QED BY <1>1, <1>2 DEF Works

LEMMA WorkTypes ==
  ASSUME NEW P, NEW w \in Works(P)
  PROVE  /\ w.orphans \in Seq(P) /\ Len(w.orphans) \in Nat /\ DOMAIN w.orphans = 1 .. Len(w.orphans)
         /\ w.above \in Seq(InternalNodes(P)) /\ Len(w.above) \in Nat
         /\ DOMAIN w.above = 1 .. Len(w.above)
         /\ w.free \in Seq(P) /\ w.next \in P /\ w.node \in TreeNodes(P) \cup {Blank}
         /\ w.new \in P \cup {0} /\ w.right \in P \cup {0} /\ w.key \in Key /\ w.value \in Value
         /\ w.committed \in BOOLEAN /\ w.pc \in Places /\ w.list \in FreeLists(P) \cup {NoList}
<1>1. /\ w.orphans \in Seq(P) /\ w.above \in Seq(InternalNodes(P))
      /\ w.free \in Seq(P) /\ w.next \in P /\ w.node \in TreeNodes(P) \cup {Blank}
      /\ w.new \in P \cup {0} /\ w.right \in P \cup {0} /\ w.key \in Key /\ w.value \in Value
      /\ w.committed \in BOOLEAN /\ w.pc \in Places /\ w.list \in FreeLists(P) \cup {NoList}
  BY DEF Works
<1>2. Len(w.orphans) \in Nat /\ DOMAIN w.orphans = 1 .. Len(w.orphans)
  BY <1>1
<1>3. Len(w.above) \in Nat /\ DOMAIN w.above = 1 .. Len(w.above)
  BY <1>1
<1> QED BY <1>1, <1>2, <1>3

\* The pages that a put in its work relies on.
Relied(f, root, w) ==
    TreePages(f, root) \cup Subs(f, w.node)
        \cup (IF At(w) = "commitRoot" THEN TreePages(f, w.new) ELSE {})
        \cup (IF At(w) = "writeRight" THEN {w.new} ELSE {})

LEMMA WorkKeeps ==
  ASSUME NEW f, NEW g, FileOK(f), FileOK(g), DOMAIN f \subseteq DOMAIN g,
         NEW root, IsTree(f, root), NEW w, WorkOK(f, root, w), Keeps(f, g, Relied(f, root, w))
  PROVE  /\ WorkOK(g, root, w) /\ TreePages(g, root) = TreePages(f, root) /\ IsTree(g, root)
         /\ At(w) = "commitRoot" => TreePages(g, w.new) = TreePages(f, w.new)
         /\ At(w) \in Upward => Subs(g, w.node) = Subs(f, w.node)
<1>1. w \in Works(Ids(f)) /\ w \in Works(Ids(g)) /\ Ids(f) \subseteq Ids(g)
  <2>1. Ids(f) \subseteq Ids(g)
    BY DEF Ids
  <2> QED BY <2>1, WorksGrow DEF WorkOK
<1>2. Keeps(f, g, TreePages(f, root)) /\ Keeps(f, g, Subs(f, w.node))
  BY DEF Keeps, Relied
<1>3. IsTree(g, root) /\ TreePages(g, root) = TreePages(f, root)
  BY <1>2, TreeKeeps
<1> DEFINE path == Append(w.orphans, w.next)
<1>4. ASSUME DownOK(f, root, w) PROVE DownOK(g, root, w)
  <2>1. /\ path \in Seq(Ids(f)) /\ Len(w.above) \in Nat /\ Len(w.above) < Len(path)
    BY <1>1, <1>4, WorkTypes DEF DownOK
  <2>2. IsPath(f, root, path, w.above, w.key) /\ IsChain(f, path)
    BY <1>4 DEF DownOK
  <2> HIDE DEF path
  <2>3. IsPath(g, root, path, w.above, w.key) /\ IsChain(g, path)
    BY <1>2, <2>1, <2>2, PathKeeps
  <2> QED BY <1>4, <2>3 DEF DownOK, path
<1>5. ASSUME NodeOK(f, root, w)
      PROVE  NodeOK(g, root, w) /\ Subs(g, w.node) = Subs(f, w.node)
  <2>1. /\ w.orphans \in Seq(Ids(f)) /\ Len(w.above) \in Nat /\ Len(w.above) < Len(w.orphans)
        /\ Len(w.above) + 1 \in DOMAIN w.orphans
    BY <1>1, <1>5, WorkTypes DEF NodeOK
  <2>2. IsPath(f, root, w.orphans, w.above, w.key) /\ IsChain(f, w.orphans)
    BY <1>5 DEF NodeOK
  <2>3. /\ IsPath(g, root, w.orphans, w.above, w.key) /\ IsChain(g, w.orphans)
        /\ TreePages(g, w.orphans[Len(w.above) + 1]) = TreePages(f, w.orphans[Len(w.above) + 1])
    BY <1>2, <2>1, <2>2, PathKeeps
  <2>4. AreTrees(g, w.node) /\ Subs(g, w.node) = Subs(f, w.node)
    BY <1>2, <1>5, SubsKeep DEF NodeOK
  <2> QED BY <1>3, <1>5, <2>3, <2>4 DEF NodeOK
<1>6. ASSUME CopyOK(f, w), Subs(g, w.node) = Subs(f, w.node) PROVE CopyOK(g, w)
  <2>1. At(w) = "writeRight" => g[w.new] = f[w.new]
    BY DEF Keeps, Relied
  <2> QED BY <1>6, <2>1 DEF CopyOK
<1>7. ASSUME DoneOK(f, root, w), At(w) = "commitRoot"
      PROVE  DoneOK(g, root, w) /\ TreePages(g, w.new) = TreePages(f, w.new)
  <2>1. Keeps(f, g, TreePages(f, w.new)) /\ IsTree(f, w.new)
    BY <1>7 DEF Keeps, Relied, DoneOK
  <2>2. IsTree(g, w.new) /\ TreePages(g, w.new) = TreePages(f, w.new)
    BY <2>1, TreeKeeps
  <2> QED BY <1>3, <1>7, <2>2 DEF DoneOK
<1>8. At(w) \in Upward => NodeOK(f, root, w) /\ CopyOK(f, w)
  BY DEF WorkOK
<1>9. At(w) = "commitRoot" => DoneOK(f, root, w)
  BY DEF WorkOK
<1>10. WorkOK(g, root, w)
  <2>1. ~w.committed /\ At(w) \in Downward => DownOK(g, root, w)
    BY <1>4 DEF WorkOK
  <2>2. At(w) \in Upward => NodeOK(g, root, w) /\ CopyOK(g, w)
    BY <1>5, <1>6, <1>8
  <2>3. At(w) = "commitRoot" => DoneOK(g, root, w)
    BY <1>7, <1>9
  <2> QED BY <1>1, <1>3, <2>1, <2>2, <2>3 DEF WorkOK
<1> QED BY <1>3, <1>5, <1>7, <1>8, <1>9, <1>10

-----------------------------------------------------------------------------
(* put on its way down.                                                    *)

LEMMA AppendIs ==
  ASSUME NEW S, NEW s \in Seq(S), NEW x \in S
  PROVE  /\ Append(s, x) \in Seq(S) /\ Len(Append(s, x)) = Len(s) + 1 /\ Len(s) \in Nat
         /\ DOMAIN Append(s, x) = 1 .. Len(s) + 1 /\ DOMAIN s = 1 .. Len(s)
         /\ Append(s, x)[Len(s) + 1] = x /\ \A j \in 1 .. Len(s) : Append(s, x)[j] = s[j]
         /\ ToSet(Append(s, x)) = ToSet(s) \cup {x}
<1>1. /\ Append(s, x) \in Seq(S) /\ Len(Append(s, x)) = Len(s) + 1 /\ Len(s) \in Nat
      /\ DOMAIN Append(s, x) = 1 .. Len(s) + 1 /\ DOMAIN s = 1 .. Len(s)
      /\ Append(s, x)[Len(s) + 1] = x /\ \A j \in 1 .. Len(s) : Append(s, x)[j] = s[j]
  OBVIOUS
<1> DEFINE a == Append(s, x)
           m == Len(s)
<1>2. \A j \in 1 .. m + 1 : j \in 1 .. m \/ j = m + 1
  BY <1>1
<1>3. (m + 1) \in 1 .. m + 1 /\ \A j \in 1 .. m : j \in 1 .. m + 1
  BY <1>1
<1>4. DOMAIN a = 1 .. m + 1 /\ DOMAIN s = 1 .. m /\ a[m + 1] = x /\ \A j \in 1 .. m : a[j] = s[j]
  BY <1>1
<1> HIDE DEF a, m
<1>5. ToSet(a) = ToSet(s) \cup {x}
  BY <1>2, <1>3, <1>4 DEF ToSet
<1> QED BY <1>1, <1>5 DEF a, m

LEMMA ChainGrows ==
  ASSUME NEW f, FileOK(f), NEW root, IsTree(f, root), NEW path \in Seq(Ids(f)), path # <<>>,
         path[1] = root, IsChain(f, path), NEW q \in Kids(f, path[Len(path)])
  PROVE  Append(path, q) \in Seq(Ids(f)) /\ IsChain(f, Append(path, q))
<1> DEFINE m == Len(path)
           p == path[m]
<1>1. m \in Nat /\ m >= 1 /\ DOMAIN path = 1 .. m /\ root \in Ids(f) /\ m \in DOMAIN path
  BY EmptySeq DEF IsTree
<1>2. \A j \in DOMAIN path : path[j] \in TreePages(f, root) /\ path[j] \in Ids(f)
  BY <1>1, ChainWithin
<1>3. p \in TreePages(f, root)
  BY <1>1, <1>2
<1> HIDE DEF p
<1>4. /\ p \notin TreePages(f, q) /\ TreePages(f, q) \subseteq TreePages(f, p)
      /\ q \in TreePages(f, root) /\ IsTree(f, q)
  BY <1>3, TreeBelow DEF p
<1>5. q \in Ids(f) /\ q \in TreePages(f, q)
  BY <1>4, TreeBasics DEF IsTree
<1>6. /\ Append(path, q) \in Seq(Ids(f)) /\ DOMAIN Append(path, q) = 1 .. m + 1
      /\ Append(path, q)[m + 1] = q /\ \A j \in 1 .. m : Append(path, q)[j] = path[j]
  BY <1>5, AppendIs
<1>7. ASSUME NEW i \in 1 .. m
      PROVE  q \in TreePages(f, path[i]) /\ path[i] \notin TreePages(f, q)
  <2>1. CASE i = m
    BY <1>4, <1>5, <2>1 DEF p
  <2>2. CASE i # m
    <3>1. p \in TreePages(f, path[i]) /\ path[i] \notin TreePages(f, p)
      <4> HIDE DEF m
      <4>1. i \in DOMAIN path /\ m \in DOMAIN path /\ i < m
        <5>1. i \in DOMAIN path /\ m \in DOMAIN path
          BY <1>1
        <5>2. i < m
          BY <1>1, <2>2
        <5> QED BY <5>1, <5>2
      <4> QED BY <4>1 DEF IsChain, p
    <3>2. IsTree(f, path[i])
      BY <1>1, <1>2, TreeBelow
    <3>3. TreePages(f, p) \subseteq TreePages(f, path[i])
      BY <3>1, <3>2, TreeBelow
    <3> QED BY <1>4, <1>5, <3>1, <3>3
  <2> QED BY <2>1, <2>2
<1>8. IsChain(f, Append(path, q))
  <2> DEFINE a == Append(path, q)
  <2> SUFFICES ASSUME NEW i \in 1 .. m + 1, NEW j \in 1 .. m + 1, i < j
               PROVE  a[j] \in TreePages(f, a[i]) /\ a[i] \notin TreePages(f, a[j])
    BY <1>6 DEF IsChain
  <2>1. i \in 1 .. m /\ a[i] = path[i]
    BY <1>1, <1>6
  <2> HIDE DEF a
  <2>2. CASE j = m + 1
    <3>1. a[j] = q
      BY <1>6, <2>2 DEF a
    <3> QED BY <1>7, <2>1, <3>1
  <2>3. CASE j # m + 1
    <3>1. j \in 1 .. m
      BY <1>1, <2>3
    <3>2. a[j] = path[j]
      BY <1>6, <3>1 DEF a
    <3> QED BY <1>1, <2>1, <3>1, <3>2 DEF IsChain
  <2> QED BY <2>2, <2>3
<1> QED BY <1>6, <1>8

\* put goes on to the child for its key.
LEMMA DescendIs ==
  ASSUME NEW f, FileOK(f), NEW root, IsTree(f, root), NEW w \in Works(Ids(f)), DownOK(f, root, w),
         NEW n, n = f[w.next], n.kind = "internal",
         NEW v, v = [w EXCEPT !.orphans = Append(w.orphans, w.next), !.next = ChildFor(n, w.key),
                              !.above = Append(w.above, n)]
  PROVE  v \in Works(Ids(f)) /\ DownOK(f, root, v) /\ Distinct(v.orphans)
<1> DEFINE path == Append(w.orphans, w.next)
           m == Len(w.above)
           q == ChildFor(n, w.key)
<1>1. /\ w.orphans \in Seq(Ids(f)) /\ w.next \in Ids(f) /\ Len(w.orphans) = m /\ m \in Nat
      /\ w.above \in Seq(InternalNodes(Ids(f))) /\ DOMAIN w.above = 1 .. m
  BY WorkTypes DEF DownOK
<1>2. /\ path \in Seq(Ids(f)) /\ Len(path) = m + 1 /\ DOMAIN path = 1 .. m + 1
      /\ path[m + 1] = w.next /\ \A j \in 1 .. m : path[j] = w.orphans[j]
  BY <1>1, AppendIs
<1>3. IsPath(f, root, path, w.above, w.key) /\ IsChain(f, path) /\ path[1] = root /\ path # <<>>
  <2>1. IsPath(f, root, path, w.above, w.key) /\ IsChain(f, path)
    BY DEF DownOK
  <2>2. Len(path) # 0
    BY <1>1, <1>2
  <2> HIDE DEF path
  <2> QED BY <2>1, <2>2 DEF IsPath
<1>4. root \in Ids(f)
  BY DEF IsTree
<1>5. w.next \in DOMAIN f
  BY <1>1 DEF Ids
<1>6. n \in InternalNodes(Ids(f))
  BY <1>5, KindOf
<1>7. q \in Ids(f) /\ q \in Kids(f, w.next)
  BY <1>5, <1>6, ChildForIs, KidsAre DEF Kids
<1>8. Append(path, q) \in Seq(Ids(f)) /\ IsChain(f, Append(path, q))
  <2> HIDE DEF path, q
  <2> QED BY <1>2, <1>3, <1>7, ChainGrows
<1>9. Distinct(path)
  <2> HIDE DEF path
  <2> QED BY <1>2, <1>3, <1>4, ChainWithin
<1>10. /\ Append(w.above, n) \in Seq(InternalNodes(Ids(f))) /\ Len(Append(w.above, n)) = m + 1
       /\ Append(w.above, n)[m + 1] = n /\ \A j \in 1 .. m : Append(w.above, n)[j] = w.above[j]
  BY <1>1, <1>6, AppendIs
<1>11. /\ v.orphans = path /\ v.next = q /\ v.above = Append(w.above, n) /\ v.key = w.key
       /\ v.node = w.node /\ v.new = w.new /\ v.right = w.right
  BY DEF Works
<1>12. v \in Works(Ids(f))
  <2> HIDE DEF path, q
  <2> QED BY <1>2, <1>7, <1>10, <1>11 DEF Works
<1>13. IsPath(f, root, Append(path, q), v.above, v.key)
  <2> DEFINE a == Append(path, q)
             b == Append(w.above, n)
  <2>1. a[m + 2] = q /\ \A j \in 1 .. m + 1 : a[j] = path[j]
    <3> HIDE DEF path, q
    <3> QED BY <1>2, <1>7, AppendIs
  <2>2. a[1] = root
    BY <1>1, <1>3, <2>1
  <2>3. ASSUME NEW j \in 1 .. m + 1 PROVE f[a[j]] = b[j] /\ a[j + 1] = ChildFor(b[j], w.key)
    <3>1. CASE j = m + 1
      <4>1. a[j] = w.next /\ b[j] = n /\ j + 1 = m + 2
        BY <1>1, <1>2, <1>10, <2>1, <3>1
      <4> HIDE DEF a, b
      <4> QED BY <2>1, <4>1
    <3>2. CASE j # m + 1
      <4>1. j \in 1 .. m /\ j + 1 \in 1 .. m + 1
        BY <1>1, <3>2
      <4>2. f[path[j]] = w.above[j] /\ path[j + 1] = ChildFor(w.above[j], w.key)
        BY <1>3, <4>1 DEF IsPath
      <4>3. a[j] = path[j] /\ a[j + 1] = path[j + 1] /\ b[j] = w.above[j]
        BY <1>10, <2>1, <4>1
      <4> HIDE DEF a, b, path
      <4> QED BY <4>2, <4>3
    <3> QED BY <3>1, <3>2
  <2> HIDE DEF a, b, path, q
  <2>4. v.above = b /\ Len(b) = m + 1 /\ v.key = w.key
    BY <1>10, <1>11 DEF b
  <2>5. IsPath(f, root, a, v.above, v.key)
    BY <2>2, <2>3, <2>4 DEF IsPath
  <2> QED BY <2>5 DEF a
<1>14. Len(v.orphans) = Len(v.above)
  BY <1>2, <1>10, <1>11
<1>15. v.node = Blank /\ v.new = 0 /\ v.right = 0
  BY <1>11 DEF DownOK
<1>16. DownOK(f, root, v)
  <2> HIDE DEF path, q
  <2> QED BY <1>8, <1>11, <1>13, <1>14, <1>15 DEF DownOK
<1> QED BY <1>9, <1>11, <1>12, <1>16

\* put has found its leaf.
LEMMA LeafIs ==
  ASSUME NEW f, FileOK(f), NEW root, IsTree(f, root), NEW w \in Works(Ids(f)), DownOK(f, root, w),
         NEW n, n = f[w.next], n.kind = "leaf",
         NEW v, v = [w EXCEPT !.orphans = Append(w.orphans, w.next), !.pc = "allocate",
                              !.node = UpsertLeaf(n, w.key, w.value)]
  PROVE  /\ v \in Works(Ids(f)) /\ NodeOK(f, root, v) /\ CopyOK(f, v) /\ Distinct(v.orphans)
         /\ Subs(f, v.node) = {}
<1> DEFINE path == Append(w.orphans, w.next)
           m == Len(w.above)
<1>1. /\ w.orphans \in Seq(Ids(f)) /\ w.next \in Ids(f) /\ Len(w.orphans) = m /\ m \in Nat
      /\ w.key \in Key /\ w.value \in Value
  BY WorkTypes DEF DownOK
<1>2. /\ path \in Seq(Ids(f)) /\ Len(path) = m + 1 /\ DOMAIN path = 1 .. m + 1
      /\ path[m + 1] = w.next
  BY <1>1, AppendIs
<1>3. IsPath(f, root, path, w.above, w.key) /\ IsChain(f, path) /\ path[1] = root /\ path # <<>>
  <2>1. IsPath(f, root, path, w.above, w.key) /\ IsChain(f, path)
    BY DEF DownOK
  <2>2. Len(path) # 0
    BY <1>1, <1>2
  <2> HIDE DEF path
  <2> QED BY <2>1, <2>2 DEF IsPath
<1>4. root \in Ids(f)
  BY DEF IsTree
<1>5. w.next \in DOMAIN f
  BY <1>1 DEF Ids
<1>6. n \in LeafNodes
  BY <1>5, KindOf
<1>7. UpsertLeaf(n, w.key, w.value) \in LeafNodes
  BY <1>1, <1>6, UpsertIs
<1>8. Distinct(path)
  <2> HIDE DEF path
  <2> QED BY <1>2, <1>3, <1>4, ChainWithin
<1>9. TreePages(f, w.next) = {w.next}
  <2>1. Kids(f, w.next) = {}
    BY KidsAre
  <2> QED BY <1>1, <2>1, TreeSplits
<1>10. w.next \in ToSet(path)
  BY <1>1, AppendIs
<1>11. /\ v.orphans = path /\ v.above = w.above /\ v.key = w.key /\ v.pc = "allocate"
       /\ v.node = UpsertLeaf(n, w.key, w.value) /\ v.new = w.new /\ v.right = w.right
  BY DEF Works
<1>12. v \in Works(Ids(f))
  <2> HIDE DEF path
  <2> QED BY <1>2, <1>7, <1>11 DEF Works, TreeNodes, Places
<1>13. v.node # Blank /\ KidsOf(v.node) = {}
  BY <1>7, <1>11, KindsDiffer DEF KidsOf, Blank
<1>14. AreTrees(f, v.node) /\ Subs(f, v.node) = {}
  BY <1>13 DEF AreTrees, Subs
<1>15. v.new = 0 /\ v.right = 0 /\ 0 \notin TreePages(f, root)
  <2>1. 0 \notin TreePages(f, root)
    BY <1>4, TreeBasics DEF Ids
  <2> QED BY <1>11, <2>1 DEF DownOK
<1>16. NodeOK(f, root, v)
  <2>1. Len(v.above) + 1 = m + 1 /\ Len(v.above) < Len(v.orphans)
    BY <1>1, <1>2, <1>11
  <2>2. TreePages(f, v.orphans[m + 1]) \ ToSet(v.orphans) = {}
    BY <1>2, <1>9, <1>10, <1>11
  <2> HIDE DEF path, m
  <2> QED BY <1>3, <1>11, <1>13, <1>14, <1>15, <2>1, <2>2 DEF NodeOK
<1>17. CopyOK(f, v)
  BY <1>11, <1>15 DEF CopyOK, At
<1> QED BY <1>8, <1>11, <1>12, <1>14, <1>16, <1>17

-----------------------------------------------------------------------------
(* put on its way up.                                                      *)

\* A page with a node over trees is a tree over them.
LEMMA PlacedIs ==
  ASSUME NEW f, NEW g, FileOK(f), FileOK(g), NEW n \in TreeNodes(Ids(f)), AreTrees(f, n),
         NEW c \in Ids(g), c \notin Subs(f, n), g[c] = n, Keeps(f, g, Subs(f, n))
  PROVE  IsTree(g, c) /\ TreePages(g, c) = {c} \cup Subs(f, n)
<1>1. AreTrees(g, n) /\ Subs(g, n) = Subs(f, n)
  BY SubsKeep
<1>2. c \in DOMAIN g /\ n.kind \in {"leaf", "internal"}
  BY KindsDiffer DEF Ids, TreeNodes
<1>3. Kids(g, c) = KidsOf(n)
  <2>1. CASE n.kind = "internal"
    <3>1. Kids(g, c) = {n.children[i] : i \in DOMAIN n.children}
      BY <1>2, <2>1, KidsAre
    <3> QED BY <2>1, <3>1 DEF KidsOf, ToSet
  <2>2. CASE n.kind # "internal"
    <3>1. Kids(g, c) = {}
      BY <2>2, KidsAre
    <3> QED BY <2>2, <3>1 DEF KidsOf
  <2> QED BY <2>1, <2>2
<1>4. TreePages(g, c) = {c} \cup Subs(g, n)
  BY <1>3, TreeSplits DEF Subs
<1>5. \A k \in Kids(g, c) : IsTree(g, k) /\ c \notin TreePages(g, k)
  BY <1>1, <1>3 DEF AreTrees, Subs
<1>6. \A k, l \in Kids(g, c) : k # l => TreePages(g, k) \cap TreePages(g, l) = {}
  BY <1>1, <1>3 DEF AreTrees
<1>7. IsTree(g, c)
  BY <1>2, <1>5, <1>6, TreeAbove
<1> QED BY <1>1, <1>4, <1>7

\* The copies that a child passes to its parent.
NewKids(c) == {c.id} \cup (IF c.key = None THEN {} ELSE {c.right})

Copies(f, c) == UNION {TreePages(f, k) : k \in NewKids(c)}

\* The child has been copied: below its copies is what was below its page.
IsChild(f, root, w, c) ==
    /\ c.id \in Ids(f) /\ c.key \in Key \cup {None}
    /\ c.key # None => c.right \in Ids(f) /\ c.right # c.id
    /\ \A k \in NewKids(c) : IsTree(f, k)
    /\ \A k, l \in NewKids(c) : k # l => TreePages(f, k) \cap TreePages(f, l) = {}
    /\ NewKids(c) \cap TreePages(f, root) = {}
    /\ Copies(f, c) \cap TreePages(f, root) =
          TreePages(f, w.orphans[Len(w.above) + 1]) \ ToSet(w.orphans)
    /\ w.new = c.id /\ w.right \in {0} \cup Copies(f, c)
    /\ {w.new, w.right} \cap TreePages(f, root) = {}

IsOnPath(f, root, w) ==
    /\ w \in Works(Ids(f)) /\ ~w.committed /\ w.free = <<>> /\ Distinct(w.orphans)
    /\ Len(w.above) < Len(w.orphans)
    /\ IsPath(f, root, w.orphans, w.above, w.key) /\ IsChain(f, w.orphans)

\* What HandPages is of a put in its work.
HandOf(f, root, w) ==
    ToSet(w.free) \cup
      (({w.new, w.right} \cup Subs(f, w.node)
            \cup (IF At(w) = "commitRoot" THEN TreePages(f, w.new) ELSE {}))
         \ ({0} \cup TreePages(f, root)))

LEMMA AllSubs ==
  ASSUME NEW f, NEW n, NEW c, NEW Sibs, KidsOf(n) = Sibs \cup NewKids(c)
  PROVE  Subs(f, n) = (UNION {TreePages(f, s) : s \in Sibs}) \cup Copies(f, c)
BY DEF Subs, Copies

\* put goes on with the parent, with the new root, or with the commit.
ToParent(w, c) == [w EXCEPT !.pc = "allocate", !.above = Front(w.above),
                            !.node = AdoptChild(Last(w.above), w.key, c)]
ToRoot(w, c) == [w EXCEPT !.pc = "allocateRoot",
                          !.node = Internal(<<c.key>>, <<c.id, c.right>>)]
ToCommit(w, c) == [w EXCEPT !.pc = "commitRoot", !.node = Blank, !.new = c.id]

LEMMA GoUpToParent ==
  ASSUME NEW f, FileOK(f), NEW root, IsTree(f, root), NEW w, IsOnPath(f, root, w), w.above # <<>>,
         NEW c, IsChild(f, root, w, c),
         NEW v, v = ToParent(w, c)
  PROVE  /\ WorkOK(f, root, v)
         /\ HandOf(f, root, v) = Copies(f, c) \ ({0} \cup TreePages(f, root))
<1> DEFINE P == w.orphans
           m == Len(w.above)
           T == TreePages(f, root)
           n == Last(w.above)
           p == P[m]
           q == P[m + 1]
           Sibs == KidsOf(n) \ {q}
           new == AdoptChild(n, w.key, c)
           B == Copies(f, c)
           U == UNION {TreePages(f, s) : s \in Sibs}
<1>1. /\ w \in Works(Ids(f)) /\ P \in Seq(Ids(f)) /\ w.above \in Seq(InternalNodes(Ids(f)))
      /\ Len(P) \in Nat /\ DOMAIN P = 1 .. Len(P) /\ m < Len(P) /\ w.key \in Key
  BY WorkTypes DEF IsOnPath
<1>2. /\ m \in Nat \ {0} /\ Front(w.above) \in Seq(InternalNodes(Ids(f)))
      /\ Len(Front(w.above)) = m - 1 /\ n = w.above[m] /\ n \in InternalNodes(Ids(f))
      /\ \A j \in 1 .. m - 1 : Front(w.above)[j] = w.above[j]
  BY <1>1, FrontIs
<1>3. f[p] = n /\ q = ChildFor(n, w.key) /\ P[1] = root
  <2>1. m \in 1 .. m
    BY <1>2
  <2> QED BY <1>2, <2>1 DEF IsOnPath, IsPath
<1>4. P # <<>> /\ root \in Ids(f) /\ m \in DOMAIN P /\ m + 1 \in DOMAIN P
  <2>1. m \in 1 .. Len(P) /\ m + 1 \in 1 .. Len(P) /\ Len(P) # 0
    BY <1>1, <1>2
  <2> HIDE DEF P
  <2> QED BY <1>1, <2>1 DEF IsTree
<1>5. \A j \in DOMAIN P : P[j] \in T /\ P[j] \in Ids(f)
  <2>1. IsChain(f, P)
    BY DEF IsOnPath
  <2> HIDE DEF P
  <2> QED BY <1>1, <1>3, <1>4, <2>1, ChainWithin
<1>6. p \in T /\ q \in T /\ p \in Ids(f) /\ q \in Ids(f)
  BY <1>4, <1>5
<1>7. n.kind = "internal" /\ Kids(f, p) = KidsOf(n)
  <2>1. n.kind = "internal" /\ p \in DOMAIN f
    BY <1>2, <1>6, KindsDiffer DEF Ids
  <2>2. Kids(f, p) = {n.children[i] : i \in DOMAIN n.children}
    BY <1>3, <2>1, KidsAre
  <2> QED BY <2>1, <2>2 DEF KidsOf, ToSet
<1>8. q \in KidsOf(n)
  BY <1>2, <1>3, <1>7, ChildForIs DEF KidsOf
<1> HIDE DEF p, q, n
<1>9. /\ KidsOf(n) \subseteq T /\ TreePages(f, p) \subseteq T
      /\ \A k \in KidsOf(n) : IsTree(f, k) /\ p \notin TreePages(f, k)
                              /\ TreePages(f, k) \subseteq TreePages(f, p)
      /\ \A k, l \in KidsOf(n) : k # l => TreePages(f, k) \cap TreePages(f, l) = {}
  BY <1>6, <1>7, TreeBelow
<1>10. TreePages(f, p) = {p} \cup TreePages(f, q) \cup U
  <2>1. TreePages(f, p) = {p} \cup UNION {TreePages(f, k) : k \in KidsOf(n)}
    BY <1>6, <1>7, TreeSplits
  <2> QED BY <1>8, <2>1
<1>11. ASSUME NEW s \in Sibs, NEW x \in TreePages(f, s) PROVE x \in T /\ x \notin TreePages(f, q)
  BY <1>8, <1>9
<1>12. ASSUME NEW s \in Sibs, NEW j \in DOMAIN P PROVE P[j] \notin TreePages(f, s)
  <2>1. j \in Nat
    BY <1>1
  <2>2. CASE j = m
    BY <1>9, <2>2 DEF p
  <2>3. CASE j < m
    <3>1. P[j] \notin TreePages(f, p)
      BY <1>4, <2>3 DEF IsOnPath, IsChain, p
    <3> QED BY <1>9, <3>1
  <2>4. CASE j = m + 1
    <3>1. q \in TreePages(f, q)
      BY <1>6, TreeBasics
    <3> QED BY <1>11, <2>4, <3>1 DEF q
  <2>5. CASE j > m + 1
    <3>1. P[j] \in TreePages(f, q)
      BY <1>4, <2>5 DEF IsOnPath, IsChain, q
    <3> QED BY <1>11, <3>1
  <2> QED BY <1>2, <2>1, <2>2, <2>3, <2>4, <2>5
<1>13. B \cap T = TreePages(f, q) \ ToSet(P)
  BY DEF IsChild, q
<1>14. new \in InternalNodes(Ids(f)) /\ KidsOf(new) = Sibs \cup NewKids(c)
  <2>1. /\ c.id \in Ids(f) /\ c.key \in Key \cup {None} /\ c.id \in NewKids(c)
        /\ c.key # None => c.right \in Ids(f) /\ c.right # c.id /\ c.right \in NewKids(c)
    BY DEF IsChild, NewKids
  <2>2. \A k \in NewKids(c) : k \notin KidsOf(n)
    BY <1>9 DEF IsChild
  <2>3. /\ c.id \notin KidsOf(n)
        /\ c.key # None => c.right \in Ids(f) /\ c.right \notin KidsOf(n) /\ c.right # c.id
    BY <2>1, <2>2
  <2>4. new = AdoptChild(n, w.key, c) /\ n \in InternalNodes(Ids(f))
    BY <1>2 DEF n
  <2> HIDE DEF new
  <2>5. /\ new \in InternalNodes(Ids(f))
        /\ KidsOf(new) = (KidsOf(n) \ {ChildFor(n, w.key)}) \cup {c.id}
                            \cup (IF c.key = None THEN {} ELSE {c.right})
    BY <2>1, <2>3, <2>4, AdoptIs
  <2>6. NewKids(c) = {c.id} \cup (IF c.key = None THEN {} ELSE {c.right})
    BY DEF NewKids
  <2>7. q = ChildFor(n, w.key)
    BY <1>3 DEF q, n
  <2> QED BY <2>5, <2>6, <2>7
<1> HIDE DEF new, Sibs
<1>15. AreTrees(f, new)
  <2>1. \A k \in KidsOf(new) : k \in Sibs \/ k \in NewKids(c)
    BY <1>14
  <2>2. \A k \in Sibs : k \in KidsOf(n)
    BY DEF Sibs
  <2>3. \A k \in KidsOf(new) : IsTree(f, k)
    BY <2>1, <2>2, <1>9 DEF IsChild
  <2>4. ASSUME NEW s \in Sibs, NEW k \in NewKids(c) PROVE TreePages(f, s) \cap TreePages(f, k) = {}
    <3> SUFFICES ASSUME NEW x \in TreePages(f, s), x \in TreePages(f, k) PROVE FALSE
      OBVIOUS
    <3>1. x \in B
      BY DEF Copies
    <3>2. x \in T /\ x \notin TreePages(f, q)
      BY <1>11
    <3> QED BY <1>13, <3>1, <3>2
  <2>5. ASSUME NEW k \in KidsOf(new), NEW l \in KidsOf(new), k # l
        PROVE  TreePages(f, k) \cap TreePages(f, l) = {}
    <3>1. CASE k \in Sibs /\ l \in Sibs
      BY <1>9, <2>2, <2>5, <3>1
    <3>2. CASE k \in NewKids(c) /\ l \in NewKids(c)
      BY <2>5, <3>2 DEF IsChild
    <3>3. CASE k \in Sibs /\ l \in NewKids(c)
      BY <2>4, <3>3
    <3>4. CASE l \in Sibs /\ k \in NewKids(c)
      BY <2>4, <3>4
    <3> QED BY <2>1, <3>1, <3>2, <3>3, <3>4
  <2> QED BY <2>3, <2>5 DEF AreTrees
<1>16. Subs(f, new) = U \cup B
  BY <1>14, AllSubs
<1>17. Subs(f, new) \cap T = TreePages(f, p) \ ToSet(P)
  <2>1. \A x \in U : x \in T /\ x \notin ToSet(P) /\ x # p
    <3> SUFFICES ASSUME NEW s \in Sibs, NEW x \in TreePages(f, s)
                 PROVE  x \in T /\ x \notin ToSet(P) /\ x # p
      OBVIOUS
    <3>1. x \notin ToSet(P)
      BY <1>12 DEF ToSet
    <3>2. x # p
      BY <1>4, <1>12 DEF p
    <3> QED BY <1>11, <3>1, <3>2
  <2>2. p \in ToSet(P)
    BY <1>4 DEF p, ToSet
  <2> HIDE DEF U, B, T, P
  <2> QED BY <1>10, <1>13, <1>16, <2>1, <2>2
<1>18. /\ v.orphans = P /\ v.above = Front(w.above) /\ v.node = new /\ v.key = w.key /\ v.pc = "allocate"
       /\ v.new = w.new /\ v.right = w.right /\ v.free = w.free /\ v.committed = w.committed
  BY <1>1 DEF Works, new, n, ToParent
<1>19. v \in Works(Ids(f))
  <2>1. new \in TreeNodes(Ids(f))
    BY <1>14 DEF TreeNodes
  <2>2. v = [w EXCEPT !.pc = "allocate", !.above = Front(w.above), !.node = new]
    BY DEF ToParent, new, n
  <2> QED BY <1>1, <1>2, <2>1, <2>2 DEF Works, Places
<1>20. At(v) = "allocate"
  BY <1>18 DEF At
<1>21. NodeOK(f, root, v)
  <2>1. Len(v.above) = m - 1 /\ Len(v.above) < Len(P) /\ Len(v.above) + 1 = m
    BY <1>1, <1>2, <1>18
  <2>2. IsPath(f, root, v.orphans, v.above, v.key)
    <3>1. \A j \in 1 .. m - 1 : /\ f[P[j]] = w.above[j] /\ P[j + 1] = ChildFor(w.above[j], w.key)
                                /\ Front(w.above)[j] = w.above[j]
      BY <1>2 DEF IsOnPath, IsPath
    <3> HIDE DEF m, P
    <3> QED BY <1>3, <1>18, <2>1, <3>1 DEF IsPath
  <2>3. v.node # Blank
    BY <1>14, <1>18, KindsDiffer DEF Blank
  <2>4. Subs(f, v.node) \cap T = TreePages(f, v.orphans[Len(v.above) + 1]) \ ToSet(v.orphans)
    BY <1>17, <1>18, <2>1 DEF p
  <2>5. {v.new, v.right} \cap T = {}
    BY <1>18 DEF IsChild
  <2> HIDE DEF m
  <2> QED BY <1>15, <1>18, <2>1, <2>2, <2>3, <2>4, <2>5 DEF NodeOK, IsOnPath
<1>22. c.id \in B
  <2>1. c.id \in Ids(f) /\ c.id \in NewKids(c)
    BY DEF IsChild, NewKids
  <2> QED BY <2>1, TreeBasics DEF Copies
<1>23. v.new \in Subs(f, v.node) /\ v.right \in {0} \cup Subs(f, v.node)
  BY <1>16, <1>18, <1>22 DEF IsChild
<1>24. CopyOK(f, v)
  BY <1>20, <1>23 DEF CopyOK
<1>25. WorkOK(f, root, v)
  <2>1. Distinct(v.orphans) /\ Distinct(v.free) /\ v.free = <<>> /\ ~v.committed
    BY <1>18 DEF IsOnPath, Distinct
  <2> QED BY <1>18, <1>19, <1>20, <1>21, <1>24, <2>1 DEF WorkOK, Downward, Upward, Behind
<1>26. HandOf(f, root, v) = B \ ({0} \cup T)
  <2>1. ToSet(v.free) = {}
    BY <1>18 DEF IsOnPath, ToSet
  <2>2. U \subseteq T
    BY <1>11
  <2>3. v.new \in Subs(f, v.node) /\ v.right \in {0} \cup Subs(f, v.node) /\ Subs(f, v.node) = U \cup B
    BY <1>16, <1>18, <1>23
  <2> HIDE DEF U, B, T
  <2>4. HandOf(f, root, v) = ({v.new, v.right} \cup Subs(f, v.node)) \ ({0} \cup TreePages(f, root))
    BY <1>20, <2>1 DEF HandOf
  <2> QED BY <2>2, <2>3, <2>4 DEF T
<1> QED BY <1>25, <1>26

-----------------------------------------------------------------------------
LEMMA RootPath ==
  ASSUME NEW f, FileOK(f), NEW root, IsTree(f, root), NEW w, IsOnPath(f, root, w), w.above = <<>>,
         NEW c, IsChild(f, root, w, c)
  PROVE  /\ Len(w.above) = 0 /\ w.orphans[1] = root /\ ToSet(w.orphans) \subseteq TreePages(f, root)
         /\ Copies(f, c) \cap TreePages(f, root) = TreePages(f, root) \ ToSet(w.orphans)
         /\ c.id \in Copies(f, c)
<1>1. Len(w.above) = 0 /\ w.orphans \in Seq(Ids(f)) /\ Len(w.orphans) > 0
  BY DEF IsOnPath, Works
<1>2. w.orphans[1] = root /\ IsChain(f, w.orphans) /\ root \in Ids(f) /\ w.orphans # <<>>
  BY <1>1 DEF IsOnPath, IsPath, IsTree
<1>3. ToSet(w.orphans) \subseteq TreePages(f, root)
  BY <1>1, <1>2, ChainWithin
<1>4. w.orphans[Len(w.above) + 1] = root
  BY <1>1, <1>2
<1>5. c.id \in Ids(f) /\ c.id \in NewKids(c)
  BY DEF IsChild, NewKids
<1>6. c.id \in Copies(f, c)
  BY <1>5, TreeBasics DEF Copies
<1> QED BY <1>1, <1>2, <1>3, <1>4, <1>6 DEF IsChild

LEMMA GoUpToRoot ==
  ASSUME NEW f, FileOK(f), NEW root, IsTree(f, root), NEW w, IsOnPath(f, root, w), w.above = <<>>,
         NEW c, IsChild(f, root, w, c), c.key # None,
         NEW v, v = ToRoot(w, c)
  PROVE  /\ WorkOK(f, root, v)
         /\ HandOf(f, root, v) = Copies(f, c) \ ({0} \cup TreePages(f, root))
<1> DEFINE new == Internal(<<c.key>>, <<c.id, c.right>>)
           T == TreePages(f, root)
           B == Copies(f, c)
<1>1. c.id \in Ids(f) /\ c.right \in Ids(f) /\ c.right # c.id /\ c.key \in Key
  BY DEF IsChild
<1>2. new \in InternalNodes(Ids(f))
  <2> DEFINE keys == <<c.key>>
             kids == <<c.id, c.right>>
  <2>1. keys \in Seq(Key) /\ Len(keys) = 1
    BY <1>1
  <2>2. kids \in Seq(Ids(f)) /\ Len(kids) = 2
    BY <1>1
  <2>3. Distinct(kids)
    BY <1>1 DEF Distinct
  <2>4. new = [kind |-> "internal", keys |-> keys, children |-> kids]
    BY DEF Internal
  <2> HIDE DEF keys, kids, new
  <2>5. new.keys = keys /\ new.children = kids
    BY <2>4
  <2>6. Len(new.children) = Len(new.keys) + 1 /\ Distinct(new.children)
    <3>1. Len(kids) = Len(keys) + 1
      BY <2>1, <2>2
    <3> QED BY <2>3, <2>5, <3>1
  <2>7. new \in [kind : {"internal"}, keys : Seq(Key), children : Seq(Ids(f))]
    BY <2>1, <2>2, <2>4
  <2> QED BY <2>6, <2>7 DEF InternalNodes
<1>3. KidsOf(new) = NewKids(c)
  <2>1. ToSet(<<c.id, c.right>>) = {c.id, c.right}
    BY DEF ToSet
  <2> QED BY <2>1 DEF KidsOf, NewKids, Internal
<1>4. AreTrees(f, new) /\ Subs(f, new) = B
  BY <1>3 DEF AreTrees, Subs, Copies, IsChild
<1> HIDE DEF new
<1>5. /\ Len(w.above) = 0 /\ w.orphans[1] = root
      /\ B \cap T = T \ ToSet(w.orphans) /\ c.id \in B
  BY RootPath
<1>6. /\ v.orphans = w.orphans /\ v.above = w.above /\ v.node = new /\ v.key = w.key
      /\ v.pc = "allocateRoot" /\ v.new = w.new /\ v.right = w.right /\ v.free = w.free
      /\ v.committed = w.committed
  BY DEF Works, new, IsOnPath, ToRoot
<1>7. v \in Works(Ids(f))
  <2>1. new \in TreeNodes(Ids(f)) /\ w \in Works(Ids(f))
    BY <1>2 DEF TreeNodes, IsOnPath
  <2>2. v = [w EXCEPT !.pc = "allocateRoot", !.node = new]
    BY DEF new, ToRoot
  <2> QED BY <2>1, <2>2 DEF Works, Places
<1>8. At(v) = "allocateRoot"
  BY <1>6 DEF At
<1>9. NodeOK(f, root, v)
  <2>1. v.node # Blank
    BY <1>2, <1>6, KindsDiffer DEF Blank
  <2>2. v.orphans[Len(v.above) + 1] = root
    BY <1>5, <1>6
  <2>3. {v.new, v.right} \cap T = {}
    BY <1>6 DEF IsChild
  <2> QED BY <1>4, <1>5, <1>6, <2>1, <2>2, <2>3 DEF NodeOK, IsOnPath
<1>10. v.new \in Subs(f, v.node) /\ v.right \in {0} \cup Subs(f, v.node)
  BY <1>4, <1>5, <1>6 DEF IsChild
<1>11. CopyOK(f, v)
  BY <1>6, <1>8, <1>10 DEF CopyOK
<1>12. WorkOK(f, root, v)
  <2>1. Distinct(v.orphans) /\ Distinct(v.free) /\ v.free = <<>> /\ ~v.committed
    BY <1>6 DEF IsOnPath, Distinct
  <2> QED BY <1>6, <1>7, <1>8, <1>9, <1>11, <2>1 DEF WorkOK, Downward, Upward, Behind
<1>13. HandOf(f, root, v) = B \ ({0} \cup T)
  <2>1. ToSet(v.free) = {}
    BY <1>6 DEF IsOnPath, ToSet
  <2>2. HandOf(f, root, v) = ({v.new, v.right} \cup Subs(f, v.node)) \ ({0} \cup TreePages(f, root))
    BY <1>8, <2>1 DEF HandOf
  <2>3. Subs(f, v.node) = B
    BY <1>4, <1>6
  <2> HIDE DEF B
  <2> QED BY <1>10, <2>2, <2>3
<1> QED BY <1>12, <1>13

LEMMA NoSubs ==
  ASSUME NEW f
  PROVE  Subs(f, Blank) = {} /\ KidsOf(Blank) = {}
BY DEF Subs, KidsOf, Blank

LEMMA GoUpDone ==
  ASSUME NEW f, FileOK(f), NEW root, IsTree(f, root), NEW w, IsOnPath(f, root, w), w.above = <<>>,
         NEW c, IsChild(f, root, w, c), c.key = None,
         NEW v, v = ToCommit(w, c)
  PROVE  /\ WorkOK(f, root, v)
         /\ HandOf(f, root, v) = Copies(f, c) \ ({0} \cup TreePages(f, root))
<1> DEFINE T == TreePages(f, root)
           B == Copies(f, c)
<1>1. /\ Len(w.above) = 0 /\ w.orphans[1] = root /\ ToSet(w.orphans) \subseteq T
      /\ B \cap T = T \ ToSet(w.orphans) /\ c.id \in B
  BY RootPath
<1>2. NewKids(c) = {c.id}
  BY DEF NewKids
<1>3. B = TreePages(f, c.id) /\ IsTree(f, c.id) /\ c.id \in Ids(f)
  BY <1>2 DEF Copies, IsChild
<1>4. /\ v.orphans = w.orphans /\ v.above = w.above /\ v.node = Blank /\ v.key = w.key
      /\ v.pc = "commitRoot" /\ v.new = c.id /\ v.right = w.right /\ v.free = w.free
      /\ v.committed = w.committed
  BY DEF Works, IsOnPath, ToCommit
<1>5. v \in Works(Ids(f))
  <2>1. w \in Works(Ids(f))
    BY DEF IsOnPath
  <2> QED BY <1>3, <2>1 DEF Works, Places, ToCommit
<1>6. At(v) = "commitRoot"
  BY <1>4 DEF At
<1>7. v.right \in {0} \cup B
  BY <1>4 DEF IsChild
<1>8. DoneOK(f, root, v)
  BY <1>1, <1>3, <1>4, <1>7 DEF DoneOK, Ids
<1>9. WorkOK(f, root, v)
  <2>1. Distinct(v.orphans) /\ Distinct(v.free) /\ v.free = <<>> /\ ~v.committed
    BY <1>4 DEF IsOnPath, Distinct
  <2> QED BY <1>4, <1>5, <1>6, <1>8, <2>1 DEF WorkOK, Downward, Upward, Behind
<1>10. HandOf(f, root, v) = B \ ({0} \cup T)
  <2>1. ToSet(v.free) = {}
    BY <1>4 DEF IsOnPath, ToSet
  <2>2. Subs(f, v.node) = {}
    BY <1>4, NoSubs
  <2>3. HandOf(f, root, v) = ({v.new, v.right} \cup TreePages(f, v.new)) \ ({0} \cup TreePages(f, root))
    BY <1>6, <2>1, <2>2 DEF HandOf
  <2> QED BY <1>1, <1>3, <1>4, <1>7, <2>3
<1> QED BY <1>9, <1>10

\* A put that has written a copy, or the two halves of one, goes on with it.
LEMMA GoUpIs ==
  ASSUME NEW f, FileOK(f), NEW root, IsTree(f, root), NEW w, IsOnPath(f, root, w),
         NEW c, IsChild(f, root, w, c),
         NEW v,
         v = IF w.above # <<>> THEN ToParent(w, c)
             ELSE IF c.key # None THEN ToRoot(w, c) ELSE ToCommit(w, c)
  PROVE  /\ WorkOK(f, root, v)
         /\ HandOf(f, root, v) = Copies(f, c) \ ({0} \cup TreePages(f, root))
<1>1. CASE w.above # <<>>
  BY <1>1, GoUpToParent
<1>2. CASE w.above = <<>> /\ c.key # None
  BY <1>2, GoUpToRoot
<1>3. CASE w.above = <<>> /\ c.key = None
  BY <1>3, GoUpDone
<1> QED BY <1>1, <1>2, <1>3

LEMMA OnPath ==
  ASSUME NEW f, FileOK(f), NEW root, NEW w, WorkOK(f, root, w), w.pc \in Upward
  PROVE  /\ IsOnPath(f, root, w) /\ At(w) = w.pc /\ NodeOK(f, root, w) /\ CopyOK(f, w)
         /\ w.node \in TreeNodes(Ids(f)) /\ w.free = <<>> /\ ~w.committed
         /\ HandOf(f, root, w) = ({w.new, w.right} \cup Subs(f, w.node)) \ ({0} \cup TreePages(f, root))
<1>1. At(w) = w.pc /\ At(w) \notin Behind /\ At(w) # "commitRoot"
  BY DEF At, Upward, Behind
<1>2. NodeOK(f, root, w) /\ CopyOK(f, w) /\ w.free = <<>> /\ ~w.committed /\ w \in Works(Ids(f))
  BY <1>1 DEF WorkOK, Upward
<1>3. IsOnPath(f, root, w)
  BY <1>2 DEF IsOnPath, NodeOK, WorkOK
<1>4. w.node \in TreeNodes(Ids(f))
  BY <1>2, WorkTypes DEF NodeOK
<1>5. ToSet(w.free) = {}
  BY <1>2 DEF ToSet
<1>6. HandOf(f, root, w) = ({w.new, w.right} \cup Subs(f, w.node)) \ ({0} \cup TreePages(f, root))
  BY <1>1, <1>5 DEF HandOf
<1> QED BY <1>1, <1>2, <1>3, <1>4, <1>6

\* The copy of a whole node.
LEMMA WholeIs ==
  ASSUME NEW f, FileOK(f), NEW root, IsTree(f, root), NEW w, WorkOK(f, root, w),
         w.pc \in {"write", "writeRoot"}, f[w.new] = w.node,
         NEW c, c = Whole(w.new)
  PROVE  /\ IsChild(f, root, w, c) /\ IsOnPath(f, root, w)
         /\ Copies(f, c) \ ({0} \cup TreePages(f, root)) = HandOf(f, root, w)
<1>1. w.pc \in Upward
  BY DEF Upward
<1>2. /\ IsOnPath(f, root, w) /\ At(w) = w.pc /\ NodeOK(f, root, w) /\ CopyOK(f, w)
      /\ w.node \in TreeNodes(Ids(f))
      /\ HandOf(f, root, w) = ({w.new, w.right} \cup Subs(f, w.node)) \ ({0} \cup TreePages(f, root))
  BY <1>1, OnPath
<1>3. w.new # 0 /\ w.new \notin Subs(f, w.node) /\ w.right \in {0} \cup Subs(f, w.node)
  BY <1>2 DEF CopyOK
<1>4. w.new \in Ids(f)
  BY <1>2, <1>3, WorkTypes DEF IsOnPath
<1>5. Keeps(f, f, Subs(f, w.node)) /\ AreTrees(f, w.node)
  <2>1. AreTrees(f, w.node)
    BY <1>2 DEF NodeOK
  <2>2. \A k \in KidsOf(w.node) : TreePages(f, k) \subseteq Ids(f)
    BY <2>1, TreeBasics DEF AreTrees, IsTree
  <2> QED BY <2>1, <2>2 DEF Keeps, Subs, Ids
<1>6. IsTree(f, w.new) /\ TreePages(f, w.new) = {w.new} \cup Subs(f, w.node)
  BY <1>2, <1>3, <1>4, <1>5, PlacedIs
<1>7. c.id = w.new /\ c.key = None /\ NewKids(c) = {w.new}
  BY DEF NewKids, Whole
<1>8. Copies(f, c) = {w.new} \cup Subs(f, w.node)
  BY <1>6, <1>7 DEF Copies
<1>9. /\ {w.new, w.right} \cap TreePages(f, root) = {}
      /\ Subs(f, w.node) \cap TreePages(f, root) =
            TreePages(f, w.orphans[Len(w.above) + 1]) \ ToSet(w.orphans)
  BY <1>2 DEF NodeOK
<1>10. Copies(f, c) \cap TreePages(f, root) =
          TreePages(f, w.orphans[Len(w.above) + 1]) \ ToSet(w.orphans)
  BY <1>8, <1>9
<1>11. IsChild(f, root, w, c)
  BY <1>3, <1>4, <1>6, <1>7, <1>8, <1>9, <1>10 DEF IsChild
<1> QED BY <1>2, <1>3, <1>8, <1>11

\* The two halves of a node.
LEMMA HalvesAre ==
  ASSUME NEW f, FileOK(f), NEW root, IsTree(f, root), NEW w, WorkOK(f, root, w),
         w.pc = "writeRight", f[w.right] = RightNode(w.node),
         NEW c, c = [id |-> w.new, key |-> SplitKey(w.node), right |-> w.right]
  PROVE  /\ IsChild(f, root, w, c) /\ IsOnPath(f, root, w)
         /\ Copies(f, c) \ ({0} \cup TreePages(f, root)) = HandOf(f, root, w)
<1> DEFINE L == LeftNode(w.node)
           R == RightNode(w.node)
<1>1. w.pc \in Upward
  BY DEF Upward
<1>2. /\ IsOnPath(f, root, w) /\ At(w) = w.pc /\ NodeOK(f, root, w) /\ CopyOK(f, w)
      /\ w.node \in TreeNodes(Ids(f))
      /\ HandOf(f, root, w) = ({w.new, w.right} \cup Subs(f, w.node)) \ ({0} \cup TreePages(f, root))
  BY <1>1, OnPath
<1>3. /\ w.new # 0 /\ w.new \notin Subs(f, w.node) /\ w.right # 0 /\ w.right \notin Subs(f, w.node)
      /\ w.right # w.new /\ ~SplitHasNoKey(Base(w.node), EntrySizesOf(w.node))
      /\ f[w.new] = L
  BY <1>2 DEF CopyOK
<1>4. w.new \in Ids(f) /\ w.right \in Ids(f)
  BY <1>2, <1>3, WorkTypes DEF IsOnPath
<1>5. /\ L \in TreeNodes(Ids(f)) /\ R \in TreeNodes(Ids(f)) /\ SplitKey(w.node) \in Key
      /\ KidsOf(L) \cup KidsOf(R) = KidsOf(w.node) /\ KidsOf(L) \cap KidsOf(R) = {}
  BY <1>2, <1>3, SplitIs
<1> HIDE DEF L, R
<1>6. AreTrees(f, w.node) /\ Keeps(f, f, Subs(f, w.node))
  <2>1. AreTrees(f, w.node)
    BY <1>2 DEF NodeOK
  <2>2. \A k \in KidsOf(w.node) : TreePages(f, k) \subseteq Ids(f)
    BY <2>1, TreeBasics DEF AreTrees, IsTree
  <2> QED BY <2>1, <2>2 DEF Keeps, Subs, Ids
<1>7. Subs(f, w.node) = Subs(f, L) \cup Subs(f, R) /\ Subs(f, L) \cap Subs(f, R) = {}
  <2>1. Subs(f, w.node) = Subs(f, L) \cup Subs(f, R)
    BY <1>5 DEF Subs
  <2>2. \A k \in KidsOf(L), l \in KidsOf(R) : TreePages(f, k) \cap TreePages(f, l) = {}
    BY <1>5, <1>6 DEF AreTrees
  <2> QED BY <2>1, <2>2 DEF Subs
<1>8. /\ AreTrees(f, L) /\ Keeps(f, f, Subs(f, L)) /\ AreTrees(f, R) /\ Keeps(f, f, Subs(f, R))
  BY <1>5, <1>6, <1>7 DEF AreTrees, Keeps
<1>9. IsTree(f, w.new) /\ TreePages(f, w.new) = {w.new} \cup Subs(f, L)
  BY <1>3, <1>4, <1>5, <1>7, <1>8, PlacedIs
<1>10. IsTree(f, w.right) /\ TreePages(f, w.right) = {w.right} \cup Subs(f, R)
  BY <1>3, <1>4, <1>5, <1>7, <1>8, PlacedIs DEF R
<1>11. SplitKey(w.node) # None
  BY <1>5, KeyAssumption
<1>12. c.id = w.new /\ c.key \in Key /\ c.key # None /\ c.right = w.right /\ NewKids(c) = {w.new, w.right}
  BY <1>5, <1>11 DEF NewKids
<1>13. Copies(f, c) = {w.new, w.right} \cup Subs(f, w.node)
  BY <1>7, <1>9, <1>10, <1>12 DEF Copies
<1>14. /\ {w.new, w.right} \cap TreePages(f, root) = {}
       /\ Subs(f, w.node) \cap TreePages(f, root) =
            TreePages(f, w.orphans[Len(w.above) + 1]) \ ToSet(w.orphans)
  BY <1>2 DEF NodeOK
<1>15. Copies(f, c) \cap TreePages(f, root) =
          TreePages(f, w.orphans[Len(w.above) + 1]) \ ToSet(w.orphans)
  BY <1>13, <1>14
<1>16. TreePages(f, w.new) \cap TreePages(f, w.right) = {}
  BY <1>3, <1>7, <1>9, <1>10
<1>17. IsChild(f, root, w, c)
  <2>1. \A k \in NewKids(c) : IsTree(f, k)
    BY <1>9, <1>10, <1>12
  <2>2. \A k, l \in NewKids(c) : k # l => TreePages(f, k) \cap TreePages(f, l) = {}
    BY <1>12, <1>16
  <2>3. w.right \in Copies(f, c)
    BY <1>13
  <2> QED BY <1>3, <1>4, <1>12, <1>14, <1>15, <2>1, <2>2, <2>3 DEF IsChild
<1> QED BY <1>2, <1>13, <1>17

-----------------------------------------------------------------------------
(* Allocation.                                                             *)

\* The pages that a free list can give.
ListOf(f, h) == FreeIds(f, h) \cup ListPages(f, h)

\* What comes behind a page of the list is a list.
LEMMA SubList ==
  ASSUME NEW f, FileOK(f), NEW h \in Ids(f) \cup {0}, ListOK(f, h), NEW p \in {0} \cup ListPages(f, h)
  PROVE  ListOK(f, p) /\ ListOf(f, p) \subseteq ListOf(f, h) /\ p \in Ids(f) \cup {0}
<1>1. CASE p = 0
  BY <1>1, ListOfNone DEF ListOf
<1>2. CASE p # 0
  <2>1. p \in ListPages(f, h) /\ h # 0 /\ h \in Ids(f)
    BY <1>2, ListOfNone
  <2>2. /\ IsRooted(ListLinks(f), h, ListPages(f, h)) /\ p \in Ids(f)
        /\ \A q \in ListPages(f, h) : f[q].kind = "freelist"
    BY <2>1, ListTypes DEF ListOK, IsList
  <2>3. IsReach(ListLinks(f), {p}, ListPages(f, p)) /\ IsReach(ListLinks(f), {h}, ListPages(f, h))
    BY <2>1, <2>2, ListIsReach
  <2>4. ListPages(f, p) \subseteq ListPages(f, h)
    BY <2>1, <2>3, ReachWithin
  <2>5. IsRooted(ListLinks(f), p, ListPages(f, p))
    BY <2>1, <2>2, <2>3, RootedBelow
  <2>6. IsList(f, p)
    BY <2>2, <2>4, <2>5 DEF IsList
  <2>7. FreeIds(f, p) \subseteq FreeIds(f, h)
    BY <2>4 DEF FreeIds
  <2>8. IdsAreApart(f, p)
    BY <2>4, <2>7 DEF ListOK, IdsAreApart
  <2> QED BY <2>2, <2>4, <2>6, <2>7, <2>8 DEF ListOK, ListOf
<1> QED BY <1>1, <1>2

\* A page that a put allocates was in the list, or is new.
LEMMA AllocateIs ==
  ASSUME NEW f, FileOK(f), NEW h \in Ids(f) \cup {0}, ListOK(f, h),
         f[0] \in Headers(Ids(f)), f[0].head = h, NEW a, a = AllocatePage(f, h)
  PROVE  /\ FileOK(a.file) /\ DOMAIN f \subseteq DOMAIN a.file
         /\ DOMAIN a.file \subseteq DOMAIN f \cup {a.id}
         /\ a.id \in Ids(a.file) /\ a.head \in Ids(a.file) \cup {0}
         /\ a.file[0] \in Headers(Ids(a.file)) /\ a.file[0].root = f[0].root /\ a.file[0].head = a.head
         /\ Keeps(f, a.file, Ids(f) \ ListOf(f, h))
         /\ ListOK(a.file, a.head) /\ ListOf(a.file, a.head) = ListOf(f, h) \ {a.id}
         /\ a.id \in ListOf(f, h) \cup (DOMAIN a.file \ DOMAIN f)
<1> DEFINE list == ReadFreeList(f, h)
<1>0. Headers(Ids(f)) = [kind : {"header"}, root : Ids(f), head : Ids(f) \cup {0}] /\ 0 \in DOMAIN f
  BY FileSizeIs DEF Headers
<1>1. CASE h = 0
  <2> DEFINE g == GrowFile(f)
             n == FileSize(f)
  <2>1. a.file = g /\ a.head = 0 /\ a.id = n
    BY <1>1 DEF AllocatePage
  <2>2. /\ FileOK(g) /\ DOMAIN g = DOMAIN f \cup {n} /\ Ids(g) = Ids(f) \cup {n} /\ n \notin Ids(f)
        /\ \A p \in DOMAIN f : g[p] = f[p]
    BY GrowIs
  <2>3. n \notin DOMAIN f
    BY FileSizeIs
  <2> HIDE DEF g, n
  <2>4. g[0] = f[0] /\ g[0] \in Headers(Ids(g))
    BY <1>0, <2>2, TypesGrow
  <2>5. ListOf(f, h) = {} /\ ListOf(g, 0) = {} /\ ListOK(g, 0)
    BY <1>1, <2>2, ListOfNone DEF ListOf
  <2>6. Keeps(f, g, Ids(f) \ ListOf(f, h))
    BY <2>2 DEF Keeps, Ids
  <2> QED BY <1>1, <2>1, <2>2, <2>3, <2>4, <2>5, <2>6
<1>2. CASE h # 0 /\ list.ids # <<>>
  <2> DEFINE g == [f EXCEPT ![list.id] = FreeList(list.id, list.next, Front(list.ids))]
             x == Last(list.ids)
  <2>1. a.file = g /\ a.head = h /\ a.id = x
    BY <1>2 DEF AllocatePage
  <2>2. /\ FileOK(g) /\ DOMAIN g = DOMAIN f /\ h \in Ids(f)
        /\ \A q \in DOMAIN f \ {h} : g[q] = f[q]
        /\ ListOK(g, h) /\ ListPages(g, h) = ListPages(f, h) /\ h \in ListPages(f, h)
        /\ x \in FreeIds(f, h) /\ x \in Ids(f) /\ FreeIds(g, h) = FreeIds(f, h) \ {x}
    <3>1. h \in Ids(f) /\ list.id = h
      BY <1>2, ListBelow DEF ListOK
    <3>2. Writes(f, h, FreeList(h, list.next, Front(list.ids)), g)
      BY <3>1 DEF Writes, Ids
    <3> HIDE DEF g, x
    <3> QED BY <1>2, <3>2, PopId DEF x
  <2> HIDE DEF g, x
  <2>3. g[0] = f[0] /\ Ids(g) = Ids(f) /\ 0 \in DOMAIN f
    BY <1>0, <2>2 DEF Ids
  <2>4. x \notin ListPages(f, h)
    BY <2>2 DEF ListOK, IdsAreApart
  <2>5. ListOf(g, h) = ListOf(f, h) \ {x} /\ x \in ListOf(f, h)
    BY <2>2, <2>4 DEF ListOf
  <2>6. Keeps(f, g, Ids(f) \ ListOf(f, h))
    BY <2>2 DEF Keeps, Ids, ListOf
  <2> QED BY <2>1, <2>2, <2>3, <2>5, <2>6
<1>3. CASE h # 0 /\ list.ids = <<>>
  <2> DEFINE g == [f EXCEPT ![0].head = list.next]
             n == [f[0] EXCEPT !.head = list.next]
  <2>1. a.file = g /\ a.head = list.next /\ a.id = list.id
    BY <1>3 DEF AllocatePage
  <2>2. /\ list.id = h /\ h \in Ids(f) /\ list.next \in Ids(f) \cup {0} /\ h \in ListPages(f, h)
        /\ ListOK(f, list.next) /\ ListPages(f, list.next) = ListPages(f, h) \ {h}
        /\ FreeIds(f, list.next) = FreeIds(f, h) /\ h \notin FreeIds(f, h)
    BY <1>3, PopPage
  <2>3. n \in Headers(Ids(f)) /\ n.root = f[0].root /\ n.head = list.next
    BY <1>0, <2>2
  <2>4. Writes(f, 0, n, g)
    BY <1>0 DEF Writes
  <2> HIDE DEF g, n, list
  <2>5. /\ FileOK(g) /\ DOMAIN g = DOMAIN f /\ Ids(g) = Ids(f) /\ g[0] = n
        /\ \A q \in Ids(f) : g[q] = f[q]
    BY <2>3, <2>4, WriteHeaderIs
  <2>6. \A p \in ListPages(f, list.next) : p \in DOMAIN g /\ g[p] = f[p]
    BY <2>2, <2>5, ListTypes DEF Ids
  <2>7. /\ ListOK(g, list.next) /\ ListPages(g, list.next) = ListPages(f, list.next)
        /\ FreeIds(g, list.next) = FreeIds(f, list.next)
    BY <2>2, <2>5, <2>6, ListStays
  <2>8. ListOf(g, list.next) = ListOf(f, h) \ {h} /\ h \in ListOf(f, h)
    BY <2>2, <2>7 DEF ListOf
  <2>9. Keeps(f, g, Ids(f) \ ListOf(f, h))
    BY <2>5 DEF Keeps, Ids
  <2> QED BY <2>1, <2>2, <2>3, <2>5, <2>7, <2>8, <2>9
<1> QED BY <1>1, <1>2, <1>3

-----------------------------------------------------------------------------
(* The tracker.                                                            *)

PagesOf(pend) == UNION {ToSet(pend[v]) : v \in DOMAIN pend}

ByPage(pend) == [p \in PagesOf(pend) |-> CHOOSE v \in DOMAIN pend : p \in ToSet(pend[v])]

LEMMA ByPageIs ==
  ASSUME NEW pend, NEW vers, NEW P, PendingOK(pend, vers, P), NEW v \in DOMAIN pend, NEW p \in ToSet(pend[v])
  PROVE  p \in DOMAIN ByPage(pend) /\ ByPage(pend)[p] = v
<1>1. \A w \in DOMAIN pend : p \in ToSet(pend[w]) => w = v
  BY DEF PendingOK
<1>2. (CHOOSE w \in DOMAIN pend : p \in ToSet(pend[w])) = v
  BY <1>1
<1> QED BY <1>2 DEF ByPage, PagesOf

\* The pages of some versions, one version behind the other.
Collected(pend, vers, S) == FlattenSeq([i \in 1 .. vers |-> IF i - 1 \in S THEN pend[i - 1] ELSE <<>>])

LEMMA CollectedIs ==
  ASSUME NEW pend, NEW vers \in Nat, NEW P, PendingOK(pend, vers, P), NEW S \in SUBSET DOMAIN pend
  PROVE  /\ Collected(pend, vers, S) \in Seq(P) /\ Distinct(Collected(pend, vers, S))
         /\ ToSet(Collected(pend, vers, S)) = UNION {ToSet(pend[v]) : v \in S}
<1> DEFINE seqs == [i \in 1 .. vers |-> IF i - 1 \in S THEN pend[i - 1] ELSE <<>>]
<1>1. \A i \in 1 .. vers : /\ seqs[i] \in Seq(P) /\ Distinct(seqs[i])
                           /\ i - 1 \in S => seqs[i] = pend[i - 1]
                           /\ i - 1 \notin S => ToSet(seqs[i]) = {}
  <2> TAKE i \in 1 .. vers
  <2>1. CASE i - 1 \in S
    BY <2>1 DEF PendingOK
  <2>2. CASE i - 1 \notin S
    BY <2>2 DEF Distinct, ToSet
  <2> QED BY <2>1, <2>2
<1>2. seqs \in [1 .. vers -> Seq(P)] /\ DOMAIN seqs = 1 .. vers
  BY <1>1
<1>3. seqs \in Seq(Seq(P))
  BY <1>2
<1> HIDE DEF seqs
<1>4. ASSUME NEW i \in DOMAIN seqs, NEW j \in DOMAIN seqs, i # j
      PROVE  ToSet(seqs[i]) \cap ToSet(seqs[j]) = {}
  <2>1. i - 1 # j - 1
    BY <1>2, <1>4
  <2> QED BY <1>1, <1>2, <2>1 DEF PendingOK
<1>5. /\ FlattenSeq(seqs) \in Seq(P) /\ Distinct(FlattenSeq(seqs))
      /\ ToSet(FlattenSeq(seqs)) = UNION {ToSet(seqs[i]) : i \in DOMAIN seqs}
  <2>1. \A i \in DOMAIN seqs : Distinct(seqs[i])
    BY <1>1, <1>2
  <2> QED BY <1>3, <1>4, <2>1, FlattenIs
<1>6. ASSUME NEW x
      PROVE  (\E i \in DOMAIN seqs : x \in ToSet(seqs[i])) <=> (\E v \in S : x \in ToSet(pend[v]))
  <2>1. ASSUME NEW i \in DOMAIN seqs, x \in ToSet(seqs[i]) PROVE \E v \in S : x \in ToSet(pend[v])
    BY <1>1, <1>2, <2>1
  <2>2. ASSUME NEW v \in S, x \in ToSet(pend[v]) PROVE \E i \in DOMAIN seqs : x \in ToSet(seqs[i])
    <3>1. v + 1 \in 1 .. vers /\ (v + 1) - 1 = v
      BY DEF PendingOK
    <3> QED BY <1>1, <1>2, <2>2, <3>1
  <2> QED BY <2>1, <2>2
<1>7. ToSet(FlattenSeq(seqs)) = UNION {ToSet(pend[v]) : v \in S}
  BY <1>5, <1>6
<1> QED BY <1>5, <1>7 DEF Collected, seqs

\* Without the pages of some versions the others are retired as they were.
LEMMA RestIs ==
  ASSUME NEW pend, NEW vers \in Nat, NEW P, PendingOK(pend, vers, P), NEW R,
         NEW rest, rest = [v \in DOMAIN pend \ R |-> pend[v]]
  PROVE  /\ PendingOK(rest, vers, P)
         /\ DOMAIN ByPage(rest) = {p \in DOMAIN ByPage(pend) : ByPage(pend)[p] \notin R}
         /\ \A p \in DOMAIN ByPage(rest) : ByPage(rest)[p] = ByPage(pend)[p]
<1>1. PendingOK(rest, vers, P)
  BY DEF PendingOK
<1>2. ASSUME NEW p \in DOMAIN ByPage(rest)
      PROVE  p \in DOMAIN ByPage(pend) /\ ByPage(pend)[p] \notin R /\ ByPage(rest)[p] = ByPage(pend)[p]
  <2>1. PICK v \in DOMAIN rest : p \in ToSet(rest[v])
    BY DEF ByPage, PagesOf
  <2>2. v \in DOMAIN pend /\ v \notin R /\ p \in ToSet(pend[v])
    BY <2>1
  <2>3. ByPage(pend)[p] = v /\ p \in DOMAIN ByPage(pend)
    BY <2>2, ByPageIs
  <2>4. ByPage(rest)[p] = v
    BY <1>1, <2>1, ByPageIs
  <2> QED BY <2>2, <2>3, <2>4
<1>3. ASSUME NEW p \in DOMAIN ByPage(pend), ByPage(pend)[p] \notin R
      PROVE  p \in DOMAIN ByPage(rest)
  <2>1. PICK v \in DOMAIN pend : p \in ToSet(pend[v])
    BY DEF ByPage, PagesOf
  <2>2. ByPage(pend)[p] = v
    BY <2>1, ByPageIs
  <2>3. v \in DOMAIN rest /\ p \in ToSet(rest[v])
    BY <1>3, <2>1, <2>2
  <2> QED BY <1>1, <2>3, ByPageIs
<1> QED BY <1>1, <1>2, <1>3

-----------------------------------------------------------------------------
(* What the invariant says of a state.                                     *)

LEMMA Situation ==
  ASSUME WriterInv
  PROVE  /\ writer.pc \in Places \cup {"idle", "closed", "createHeader"}
         /\ writer.pc = "idle" => writer = NoThread
         /\ writer.pc = "closed" => writer = [pc |-> "closed"]
         /\ writer.pc = "createHeader" => writer = [pc |-> "createHeader"]
         /\ writer.pc \in Places <=> writer \notin NoWork
         /\ writer \notin NoWork => IsOpen /\ WorkOK(file, header.root, writer)
<1>1. CASE writer \in NoWork
  BY <1>1 DEF NoWork, NoThread, Places
<1>2. CASE writer \notin NoWork
  <2>1. WorkOK(file, header.root, writer) /\ writer \in Works(Ids(file))
    BY <1>2 DEF WriterInv, WorkOK
  <2>2. writer.pc \in Places
    BY <2>1, WorkTypes
  <2> QED BY <1>2, <2>1, <2>2 DEF Places, IsOpen
<1> QED BY <1>1, <1>2

\* The list in memory, with what put has added to its first page.
LEMMA AddedIs ==
  ASSUME CowInv
  PROVE  /\ FileOK(WithAdded) /\ DOMAIN WithAdded = DOMAIN file /\ Ids(WithAdded) = Ids(file)
         /\ IsBehind(file, WithAdded)
         /\ MemHead \in Ids(file) \cup {0} /\ SavedHead \in Ids(file) \cup {0}
         /\ FreePages = ListOf(WithAdded, MemHead) /\ FreePages \subseteq Ids(file)
         /\ Keeps(file, WithAdded, DOMAIN file \ FreePages)
         /\ writer.pc # "addPage" => WithAdded = file
         /\ writer.pc = "addPage" =>
               /\ header.head \in Ids(file) /\ header.head \in FreePages /\ MemHead = header.head
               /\ Writes(file, header.head, writer.list, WithAdded)
<1>1. FileOK(file) /\ ListOK(WithAdded, MemHead) /\ 0 \in DOMAIN file
  BY FileSizeIs DEF CowInv, ListInv
<1>2. SavedHead \in Ids(file) \cup {0}
  <2>1. file[0].kind = "header" => file[0] \in Headers(Ids(file))
    BY <1>1, KindOf
  <2> QED BY <2>1 DEF SavedHead, Headers
<1>3. MemHead \in Ids(file) \cup {0}
  BY <1>2 DEF MemHead, CowInv, HeaderInv
<1>4. FreePages = ListOf(WithAdded, MemHead)
  BY DEF FreePages, ListOf, MemHead, SavedHead
<1>5. CASE writer.pc = "addPage"
  <2>1. /\ writer.list \in FreeLists(Ids(file)) /\ writer.list.id = header.head
        /\ IsBehind(file, WithAdded) /\ MemHead = header.head
    BY <1>5 DEF CowInv, ListInv, MemHead
  <2>2. header.head \in Ids(file)
    BY <2>1 DEF FreeLists
  <2>3. Writes(file, header.head, writer.list, WithAdded)
    BY <1>5, <2>1, <2>2 DEF WithAdded, Writes, Ids
  <2>4. /\ FileOK(WithAdded) /\ DOMAIN WithAdded = DOMAIN file /\ Ids(WithAdded) = Ids(file)
        /\ \A q \in DOMAIN file \ {header.head} : WithAdded[q] = file[q]
    BY <1>1, <2>1, <2>2, <2>3, WriteIs
  <2>5. FreePages \subseteq Ids(file) /\ header.head \in ListPages(WithAdded, header.head)
    <3>1. ListPages(WithAdded, MemHead) \subseteq Ids(WithAdded)
          /\ FreeIds(WithAdded, MemHead) \subseteq Ids(WithAdded)
      BY <1>3, <2>4, ListTypes
    <3>2. header.head \in ListPages(WithAdded, header.head)
      BY <2>2, <2>4, ListBasics
    <3> QED BY <1>4, <2>4, <3>1, <3>2 DEF ListOf
  <2>6. header.head \in FreePages
    BY <1>4, <2>1, <2>5 DEF ListOf
  <2>7. Keeps(file, WithAdded, DOMAIN file \ FreePages)
    BY <2>4, <2>6 DEF Keeps
  <2> QED BY <1>2, <1>3, <1>4, <1>5, <2>1, <2>2, <2>3, <2>4, <2>5, <2>6, <2>7
<1>6. CASE writer.pc # "addPage"
  <2>1. WithAdded = file
    BY <1>6 DEF WithAdded
  <2>2. IsBehind(file, file)
    BY DEF IsBehind
  <2>3. Keeps(file, WithAdded, DOMAIN file \ FreePages)
    BY <2>1 DEF Keeps
  <2>4. ListPages(file, MemHead) \subseteq Ids(file) /\ FreeIds(file, MemHead) \subseteq Ids(file)
    BY <1>1, <1>3, ListTypes
  <2>5. FreePages \subseteq Ids(file)
    BY <1>4, <2>1, <2>4 DEF ListOf
  <2> QED BY <1>1, <1>2, <1>3, <1>4, <1>6, <2>1, <2>2, <2>3, <2>5
<1> QED BY <1>5, <1>6

\* What a page is for is one thing.
LEMMA Apart ==
  ASSUME PV!PageInv
  PROVE  /\ FreePages \cap HandPages = {}
         /\ (TreeInMemory \cup TreeInFile \cup CommittedOrphans \cup PendingPages)
                \cap (FreePages \cup HandPages) = {}
         /\ \A r \in Reader : ReadingPages[r] \cap (FreePages \cup HandPages) = {}
         /\ (TreeInMemory \cup CommittedOrphans) \cap PendingPages = {}
         /\ TreeInFile \subseteq TreeInMemory \cup CommittedOrphans
         /\ TreeInMemory \cap CommittedOrphans = {}
<1>1. DOMAIN RetiredAs = PendingPages
  BY DEF RetiredAs
<1>2. PV!NoPageIsShared
  BY PV!PagesAreNotShared
<1>3. \A r \in Reader : ReadingPages[r] \cap (FreePages \cup HandPages) = {}
  BY <1>2 DEF PV!NoPageIsShared
<1> QED BY <1>1, <1>3 DEF PV!PageInv, PV!PagesApart

\* The trees stay as long as put writes to pages of the list and of its own.
LEMMA TreesStay ==
  ASSUME CowInv, PV!PageInv, NEW g, FileOK(g), DOMAIN file \subseteq DOMAIN g,
         Keeps(file, g, Ids(file) \ (FreePages \cup HandPages))
  PROVE  /\ writer.pc # "closed" =>
               IsTree(g, header.root) /\ TreePages(g, header.root) = TreePages(file, header.root)
         /\ file[0].kind = "header" =>
               IsTree(g, file[0].root) /\ TreePages(g, file[0].root) = TreePages(file, file[0].root)
         /\ \A r \in Reader : reader[r].pc = "walking" =>
               IsTree(g, reader[r].page) /\ TreePages(g, reader[r].page) = TreePages(file, reader[r].page)
<1>1. FileOK(file) /\ TreeInv
  BY DEF CowInv
<1>2. ASSUME NEW c, IsTree(file, c), TreePages(file, c) \cap (FreePages \cup HandPages) = {}
      PROVE  IsTree(g, c) /\ TreePages(g, c) = TreePages(file, c)
  <2>1. TreePages(file, c) \subseteq Ids(file)
    BY <1>1, <1>2, TreeBasics DEF IsTree
  <2>2. Keeps(file, g, TreePages(file, c))
    BY <1>2, <2>1 DEF Keeps
  <2> QED BY <1>1, <1>2, <2>2, TreeKeeps
<1>3. writer.pc # "closed" =>
        IsTree(file, header.root) /\ TreePages(file, header.root) \cap (FreePages \cup HandPages) = {}
  BY <1>1, Apart DEF TreeInv, TreeInMemory
<1>4. file[0].kind = "header" =>
        IsTree(file, file[0].root) /\ TreePages(file, file[0].root) \cap (FreePages \cup HandPages) = {}
  BY <1>1, Apart DEF TreeInv, TreeInFile
<1>5. \A r \in Reader : reader[r].pc = "walking" =>
        /\ IsTree(file, reader[r].page)
        /\ TreePages(file, reader[r].page) \cap (FreePages \cup HandPages) = {}
  <2> TAKE r \in Reader
  <2>1. reader[r].pc = "walking" => ReadingPages[r] = TreePages(file, reader[r].page)
    BY DEF ReadingPages
  <2> QED BY <1>1, <2>1, Apart DEF TreeInv
<1> QED BY <1>2, <1>3, <1>4, <1>5

\* ... and so do the places of their pages.
LEMMA TreeInvStays ==
  ASSUME CowInv, PV!PageInv, FileOK(file'), DOMAIN file \subseteq DOMAIN file',
         Keeps(file, file', Ids(file) \ (FreePages \cup HandPages)),
         writer.pc # "closed", writer'.pc # "closed", header'.root = header.root, reader' = reader,
         file'[0].kind = file[0].kind, file[0].kind = "header" => file'[0].root = file[0].root
  PROVE  /\ TreeInv' /\ UNCHANGED <<TreeInMemory, TreeInFile, ReadingPages>>
<1>1. /\ IsTree(file', header.root) /\ TreePages(file', header.root) = TreePages(file, header.root)
      /\ file[0].kind = "header" =>
          IsTree(file', file[0].root) /\ TreePages(file', file[0].root) = TreePages(file, file[0].root)
      /\ \A r \in Reader : reader[r].pc = "walking" =>
           IsTree(file', reader[r].page) /\ TreePages(file', reader[r].page) = TreePages(file, reader[r].page)
  BY TreesStay
<1>2. TreeInv'
  BY <1>1 DEF TreeInv
<1>3. TreeInMemory' = TreeInMemory /\ TreeInFile' = TreeInFile
  BY <1>1 DEF TreeInMemory, TreeInFile
<1>4. ReadingPages' = ReadingPages
  BY <1>1 DEF ReadingPages
<1> QED BY <1>2, <1>3, <1>4

\* put writes to no page of the list, and does not move its head.
LEMMA ListInvStays ==
  ASSUME CowInv, PV!PageInv, FileOK(file'), DOMAIN file = DOMAIN file',
         Keeps(file, file', Ids(file) \ HandPages),
         writer.pc \notin {"closed", "addPage"}, writer'.pc \notin {"closed", "addPage"},
         header'.head = header.head,
         file'[0].kind = file[0].kind, file[0].kind = "header" => file'[0].head = file[0].head
  PROVE  ListInv' /\ FreePages' = FreePages
<1>1. WithAdded = file /\ WithAdded' = file' /\ MemHead = header.head /\ MemHead' = header.head
  BY DEF WithAdded, MemHead
<1>2. SavedHead' = SavedHead
  BY DEF SavedHead
<1>3. /\ FileOK(file) /\ ListOK(file, header.head)
      /\ SavedHead \in {0} \cup ListPages(file, header.head)
  BY <1>1 DEF CowInv, ListInv
<1>4. FreePages = ListOf(file, header.head) /\ FreePages \subseteq Ids(file) /\ header.head \in Ids(file) \cup {0}
  BY <1>1, AddedIs
<1>5. \A p \in ListPages(file, header.head) : p \in DOMAIN file' /\ file'[p] = file[p]
  BY <1>4, Apart DEF Keeps, ListOf
<1>6. /\ ListPages(file', header.head) = ListPages(file, header.head)
      /\ FreeIds(file', header.head) = FreeIds(file, header.head)
      /\ ListOK(file', header.head)
  BY <1>3, <1>4, <1>5, ListStays
<1>7. Ids(file') = Ids(file)
  BY DEF Ids
<1>8. ListOK(file', SavedHead)
  BY <1>2, <1>3, <1>4, <1>6, <1>7, SubList
<1>9. ListInv'
  BY <1>1, <1>2, <1>3, <1>6, <1>8 DEF ListInv, ListOK
<1>10. FreePages' = ListOf(file', header.head)
  BY <1>1 DEF FreePages, ListOf, MemHead
<1> QED BY <1>4, <1>6, <1>9, <1>10 DEF ListOf

\* Gets and the tracker do not see what put does in between.
LEMMA OthersStay ==
  ASSUME CowInv, IsOpen, IsOpen', DOMAIN file \subseteq DOMAIN file',
         UNCHANGED <<version, active, pending, reader, puts>>, Retires(writer') => Retires(writer)
  PROVE  TrackerInv' /\ ReaderInv'
<1>1. Ids(file) \subseteq Ids(file')
  BY DEF Ids
<1>2. Threads(Ids(file)) \subseteq Threads(Ids(file'))
  BY <1>1 DEF Threads
<1>3. ReaderInv'
  BY <1>2 DEF CowInv, ReaderInv
<1>4. Seq(Ids(file)) \subseteq Seq(Ids(file'))
  BY <1>1, SeqMonotonic
<1>5. PendingOK(pending, version, Ids(file'))
  BY <1>4 DEF CowInv, TrackerInv, PendingOK
<1>6. TrackerInv'
  BY <1>5 DEF CowInv, TrackerInv
<1> QED BY <1>3, <1>6

-----------------------------------------------------------------------------
(* What put has in its hands.                                              *)

LEMMA HandIs ==
  (writer.pc \notin {"idle", "closed", "createHeader"} => HandPages = HandOf(file, header.root, writer))
BY DEF HandPages, HandOf, Subs, KidsOf, PutIsAt, At, TreeInMemory

LEMMA HandNextIs ==
  (writer.pc \notin {"idle", "closed", "createHeader"} => HandPages = HandOf(file, header.root, writer))'
BY HandIs, PTL

\* Outside of the copying put has only the pages that are left to add to the list.
LEMMA HandIsFree ==
  ASSUME NEW f, FileOK(f), NEW root, NEW w, WorkOK(f, root, w), w.committed \/ At(w) \in Downward
  PROVE  HandOf(f, root, w) = ToSet(w.free) /\ w.node = Blank
<1>1. w.node = Blank /\ {w.new, w.right} \subseteq {0} \cup TreePages(f, root) /\ At(w) # "commitRoot"
  <2>1. CASE w.committed
    BY <2>1 DEF WorkOK, Behind
  <2>2. CASE ~w.committed /\ At(w) \in Downward
    <3>1. DownOK(f, root, w)
      BY <2>2 DEF WorkOK
    <3> QED BY <2>2, <3>1 DEF DownOK, Downward
  <2>3. w.committed \in BOOLEAN
    BY WorkTypes DEF WorkOK
  <2> QED BY <2>1, <2>2, <2>3
<1>2. Subs(f, w.node) = {}
  BY <1>1, NoSubs
<1> QED BY <1>1, <1>2 DEF HandOf

\* put goes on with the list.
LEMMA ListWork ==
  ASSUME NEW f, FileOK(f), NEW root, NEW w, WorkOK(f, root, w),
         w.pc \in {"addFree", "addPage", "publishHead"},
         NEW v \in Works(Ids(f)), v.pc \in {"addFree", "addPage", "publishHead", "descend"},
         v.committed => v.pc # "descend",
         v.orphans = w.orphans, v.above = w.above, v.next = w.next, v.key = w.key, v.node = w.node,
         v.new = w.new, v.right = w.right, v.committed = w.committed,
         Distinct(v.free), v.pc \notin {"addFree", "addPage"} => v.free = <<>>
  PROVE  WorkOK(f, root, v) /\ HandOf(f, root, v) = ToSet(v.free)
<1>1. At(w) = w.pc /\ At(v) = v.pc
  BY DEF At
<1>2. ~v.committed => DownOK(f, root, v)
  <2>1. ~w.committed => DownOK(f, root, w)
    BY <1>1 DEF WorkOK, Downward
  <2> QED BY <2>1 DEF DownOK
<1>3. v.committed => v.node = Blank /\ {v.new, v.right} \subseteq {0} \cup TreePages(f, root)
  BY DEF WorkOK
<1>4. WorkOK(f, root, v)
  BY <1>1, <1>2, <1>3 DEF WorkOK, Downward, Upward, Behind
<1>5. v.committed \/ At(v) \in Downward
  BY <1>1 DEF Downward
<1> QED BY <1>4, <1>5, HandIsFree

\* The invariant at a put under way.
LEMMA Working ==
  ASSUME CowInv, writer.pc \in Places
  PROVE  /\ FileOK(file) /\ WriterInv /\ IsOpen /\ WorkOK(file, header.root, writer)
         /\ writer \in Works(Ids(file))
         /\ header \in [root : Ids(file), head : Ids(file) \cup {0}]
         /\ 0 \in DOMAIN file /\ file[0] \in Headers(Ids(file)) /\ file[0].kind = "header"
         /\ writer.pc # "publishRoot" => file[0].root = header.root
         /\ writer.pc \notin {"addPage", "publishHead"} => file[0].head = header.head
         /\ IsTree(file, header.root) /\ TreeInMemory = TreePages(file, header.root)
         /\ TreeInFile = TreePages(file, file[0].root)
         /\ MemHead = header.head /\ ListOK(WithAdded, header.head)
         /\ FreePages = ListOf(WithAdded, header.head)
         /\ HandPages = HandOf(file, header.root, writer)
         /\ SavedHead = file[0].head
<1>1. WriterInv /\ FileOK(file) /\ HeaderInv /\ TreeInv /\ ListInv
  BY DEF CowInv
<1>2. writer \notin NoWork /\ IsOpen /\ WorkOK(file, header.root, writer)
  BY <1>1, Situation
<1>3. writer.pc \notin {"idle", "closed", "createHeader"}
  BY DEF Places
<1>4. HandPages = HandOf(file, header.root, writer)
  BY <1>3, HandIs
<1>5. MemHead = header.head /\ FreePages = ListOf(WithAdded, MemHead)
  BY <1>3, AddedIs DEF MemHead
<1>6. file[0].kind = "header" /\ 0 \in DOMAIN file /\ file[0] \in Headers(Ids(file))
  <2>1. file[0].kind = "header" /\ 0 \in DOMAIN file
    BY <1>1, <1>2, FileSizeIs DEF HeaderInv
  <2> QED BY <1>1, <2>1, KindOf
<1> QED BY <1>1, <1>2, <1>3, <1>4, <1>5, <1>6
      DEF HeaderInv, TreeInv, ListInv, WorkOK, TreeInMemory, TreeInFile, SavedHead

\* Put in its work is at an action.
LEMMA Assembled ==
  ASSUME CowInv, IsOpen, IsOpen', FileOK(file'), DOMAIN file \subseteq DOMAIN file',
         UNCHANGED <<version, active, pending, reader, puts>>, Retires(writer') => Retires(writer),
         header' \in [root : Ids(file'), head : Ids(file') \cup {0}],
         file'[0].kind = "header",
         writer'.pc # "publishRoot" => file'[0].root = header'.root,
         writer'.pc \notin {"addPage", "publishHead"} => file'[0].head = header'.head,
         TreeInv', ListInv', writer' = NoThread \/ WorkOK(file', header'.root, writer')
  PROVE  CowInv'
<1>1. HeaderInv'
  BY DEF HeaderInv, IsOpen
<1>2. TrackerInv' /\ ReaderInv'
  BY OthersStay
<1>3. WriterInv'
  BY DEF WriterInv, NoWork
<1> QED BY <1>1, <1>2, <1>3 DEF CowInv

LEMMA RetiresIs ==
  ASSUME CowInv, writer.pc \in Places
  PROVE  Retires(writer) <=> (writer.committed => writer.pc = "commitWrite")
<1>1. writer \notin NoWork
  BY Situation DEF CowInv
<1> QED BY <1>1 DEF Retires

-----------------------------------------------------------------------------
(* A put that raises.                                                      *)

LEMMA RaiseStep ==
  ASSUME CowInv, PV!PageInv, writer.pc \in Upward \cup {"descend"}, writer' = NoThread,
         UNCHANGED <<file, header, version, active, pending, reader, puts>>
  PROVE  CowInv' /\ PV!Raise
<1>1. writer.pc \in Places /\ writer.pc \notin {"publishRoot", "addPage", "publishHead", "closed", "commitWrite"}
  BY DEF Upward, Places
<1>2. /\ FileOK(file) /\ IsOpen /\ header \in [root : Ids(file), head : Ids(file) \cup {0}]
      /\ file[0].kind = "header" /\ file[0].root = header.root /\ file[0].head = header.head
  BY <1>1, Working
<1>3. IsOpen' /\ writer'.pc \notin {"closed", "addPage", "publishRoot", "commitWrite"} /\ ~Retires(writer')
  BY DEF IsOpen, NoThread, Retires, NoWork
<1>4. Keeps(file, file', Ids(file))
  BY DEF Keeps, Ids
<1>5. TreeInv' /\ UNCHANGED <<TreeInMemory, TreeInFile, ReadingPages>>
  BY <1>1, <1>2, <1>3, <1>4, TreeInvStays DEF Keeps
<1>6. ListInv' /\ FreePages' = FreePages
  BY <1>1, <1>2, <1>3, <1>4, ListInvStays DEF Keeps
<1>7. CowInv'
  BY <1>1, <1>2, <1>3, <1>5, <1>6, Assembled
<1>8. HandPages' = {} /\ CommittedOrphans = {} /\ CommittedOrphans' = {}
  BY <1>1, <1>3 DEF HandPages, CommittedOrphans, NoThread
<1>9. RetiredAs' = RetiredAs
  BY DEF RetiredAs, PendingPages
<1> QED BY <1>5, <1>6, <1>7, <1>8, <1>9 DEF PV!Raise

-----------------------------------------------------------------------------
(* What put collects.                                                      *)

\* The steps that lose no page.
Moves ==
    \/ PV!Write \/ PV!Allocate \/ PV!Release \/ PV!Commit \/ PV!Publish \/ PV!Retire \/ PV!Reclaim
    \/ PV!Create
    \/ \E r \in Reader : PV!Pin(r) \/ PV!ReadRoot(r) \/ PV!Walk(r) \/ PV!Unpin(r)
    \/ UNCHANGED PV!vars

LEMMA RetiredIs ==
  ASSUME PV!PageInv, NEW v \in Nat
  PROVE  v \in Retired <=> PV!Expired(v)
<1> DEFINE pinned == {active[r] : r \in Reader} \ {None}
           oldest == IF pinned = {} THEN version ELSE Min(pinned)
<1>1. /\ version \in Nat /\ active \in [Reader -> Nat \cup {None}]
      /\ \A r \in Reader : active[r] # None => active[r] \in Nat /\ active[r] <= version
  BY DEF PV!PageInv, PV!VersionTypes
<1>2. v \in Retired <=> v \in 0 .. version /\ v < oldest
  BY DEF Retired
<1>3. CASE pinned = {}
  <2>1. \A r \in Reader : active[r] = None
    BY <1>3
  <2>2. oldest = version
    BY <1>3
  <2> HIDE DEF oldest, pinned
  <2> QED BY <1>1, <1>2, <2>1, <2>2 DEF PV!Expired
<1>4. CASE pinned # {}
  <2>1. pinned \in SUBSET Nat
    BY <1>1
  <2>2. PICK m \in pinned : \A n \in pinned : m <= n
    BY <1>4, <2>1, NatSetHasMin
  <2> HIDE DEF pinned
  <2>3. Min(pinned) \in pinned /\ \A n \in pinned : Min(pinned) <= n
    BY <2>2 DEF Min
  <2>4. oldest \in pinned /\ \A n \in pinned : oldest <= n
    BY <1>4, <2>3
  <2> HIDE DEF oldest
  <2>5. oldest \in Nat /\ oldest <= version
    <3>1. PICK r \in Reader : active[r] = oldest /\ active[r] # None
      BY <2>4 DEF pinned
    <3> QED BY <1>1, <3>1
  <2>6. v < oldest => PV!Expired(v)
    <3>1. ASSUME v < oldest, NEW r \in Reader, active[r] # None PROVE v < active[r]
      <4>1. active[r] \in pinned
        BY <3>1 DEF pinned
      <4> QED BY <1>1, <2>4, <2>5, <3>1, <4>1
    <3> QED BY <1>1, <2>5, <3>1 DEF PV!Expired
  <2>7. PV!Expired(v) => v < oldest
    BY <2>4 DEF PV!Expired, pinned
  <2> QED BY <1>1, <1>2, <2>5, <2>6, <2>7
<1> QED BY <1>3, <1>4

\* What get_reclaimable_pages returns, and what it leaves.
LEMMA ReclaimIs ==
  ASSUME CowInv, PV!PageInv
  PROVE  /\ Reclaimable \in Seq(Ids(file)) /\ Distinct(Reclaimable)
         /\ ToSet(Reclaimable) = {p \in DOMAIN RetiredAs : PV!Expired(RetiredAs[p])}
         /\ PendingOK(StillPending, version, Ids(file))
         /\ ByPage(StillPending) = [p \in DOMAIN RetiredAs \ ToSet(Reclaimable) |-> RetiredAs[p]]
<1> DEFINE S == DOMAIN pending \cap Retired
<1>1. PendingOK(pending, version, Ids(file)) /\ version \in Nat
  BY DEF CowInv, TrackerInv, PV!PageInv, PV!VersionTypes
<1>2. Reclaimable = Collected(pending, version, S)
  BY DEF Reclaimable, Collected
<1>3. /\ Reclaimable \in Seq(Ids(file)) /\ Distinct(Reclaimable)
      /\ ToSet(Reclaimable) = UNION {ToSet(pending[v]) : v \in S}
  BY <1>1, <1>2, CollectedIs
<1>4. RetiredAs = ByPage(pending)
  BY DEF RetiredAs, ByPage, PagesOf, PendingPages
<1>5. ASSUME NEW p \in DOMAIN RetiredAs
      PROVE  /\ RetiredAs[p] \in DOMAIN pending /\ p \in ToSet(pending[RetiredAs[p]])
             /\ PV!Expired(RetiredAs[p]) <=> RetiredAs[p] \in S
  <2>1. PICK v \in DOMAIN pending : p \in ToSet(pending[v])
    BY <1>4 DEF ByPage, PagesOf
  <2>2. RetiredAs[p] = v
    BY <1>1, <1>4, <2>1, ByPageIs
  <2>3. v \in Nat
    BY <1>1, <2>1 DEF PendingOK
  <2> QED BY <2>1, <2>2, <2>3, RetiredIs
<1>6. ToSet(Reclaimable) = {p \in DOMAIN RetiredAs : PV!Expired(RetiredAs[p])}
  <2>1. ASSUME NEW p \in ToSet(Reclaimable) PROVE p \in DOMAIN RetiredAs /\ PV!Expired(RetiredAs[p])
    <3>1. PICK v \in S : p \in ToSet(pending[v])
      BY <1>3
    <3>2. p \in DOMAIN RetiredAs /\ RetiredAs[p] = v
      BY <1>1, <1>4, <3>1, ByPageIs
    <3> QED BY <1>5, <3>1, <3>2
  <2>2. ASSUME NEW p \in DOMAIN RetiredAs, PV!Expired(RetiredAs[p]) PROVE p \in ToSet(Reclaimable)
    BY <1>3, <1>5, <2>2
  <2> QED BY <2>1, <2>2
<1>7. /\ PendingOK(StillPending, version, Ids(file))
      /\ DOMAIN ByPage(StillPending) = {p \in DOMAIN ByPage(pending) : ByPage(pending)[p] \notin Retired}
      /\ \A p \in DOMAIN ByPage(StillPending) : ByPage(StillPending)[p] = ByPage(pending)[p]
  BY <1>1, RestIs DEF StillPending
<1>8. DOMAIN ByPage(StillPending) = DOMAIN RetiredAs \ ToSet(Reclaimable)
  BY <1>4, <1>5, <1>6, <1>7
<1>9. ByPage(StillPending) = [p \in DOMAIN ByPage(StillPending) |-> ByPage(StillPending)[p]]
  BY DEF ByPage
<1>10. ByPage(StillPending) = [p \in DOMAIN RetiredAs \ ToSet(Reclaimable) |-> RetiredAs[p]]
  BY <1>4, <1>7, <1>8, <1>9
<1> QED BY <1>3, <1>6, <1>7, <1>10

LEMMA StartWork ==
  ASSUME NEW f, FileOK(f), NEW root, IsTree(f, root), NEW free \in Seq(Ids(f)), Distinct(free),
         NEW k \in Key, NEW v \in Value, NEW pc, pc = IF free = <<>> THEN "descend" ELSE "addFree",
         NEW w,
         w = [pc |-> pc, then |-> None, key |-> k, value |-> v, committed |-> FALSE,
              free |-> free, list |-> NoList, next |-> root, above |-> <<>>, orphans |-> <<>>,
              node |-> Blank, new |-> 0, right |-> 0]
  PROVE  WorkOK(f, root, w) /\ HandOf(f, root, w) = ToSet(free)
<1> DEFINE path == Append(w.orphans, w.next)
<1>1. root \in Ids(f) /\ w.orphans = <<>> /\ w.above = <<>> /\ w.next = root /\ Len(w.above) = 0
  BY DEF IsTree
<1>2. w \in Works(Ids(f))
  BY <1>1 DEF Works, Places
<1>3. path = <<root>> /\ path[1] = root /\ DOMAIN path = {1}
  BY <1>1
<1>4. IsPath(f, root, path, w.above, w.key) /\ IsChain(f, path)
  BY <1>1, <1>3 DEF IsPath, IsChain
<1>5. DownOK(f, root, w)
  BY <1>1, <1>4 DEF DownOK
<1>6. At(w) = pc /\ pc \in {"descend", "addFree"}
  BY DEF At
<1>7. Distinct(w.orphans)
  BY <1>1 DEF Distinct
<1>8. WorkOK(f, root, w)
  BY <1>2, <1>5, <1>6, <1>7 DEF WorkOK, Downward, Upward, Behind
<1>9. w.free = free /\ At(w) \in Downward
  BY <1>6 DEF Downward
<1> QED BY <1>8, <1>9, HandIsFree

LEMMA StartPutStep ==
  ASSUME CowInv, PV!PageInv, NEW k \in Key, NEW v \in Value, StartPut(k, v)
  PROVE  CowInv' /\ PV!Reclaim
<1> DEFINE pc == IF Reclaimable = <<>> THEN "descend" ELSE "addFree"
<1>1. /\ writer = NoThread /\ puts < MaxPuts /\ puts' = puts + 1 /\ pending' = StillPending
      /\ UNCHANGED <<file, header, version, active, reader, crashes>>
  BY DEF StartPut
<1>2. writer' = [pc |-> pc, then |-> None, key |-> k, value |-> v, committed |-> FALSE,
                 free |-> Reclaimable, list |-> NoList, next |-> header.root, above |-> <<>>,
                 orphans |-> <<>>, node |-> Blank, new |-> 0, right |-> 0]
  BY DEF StartPut, Work
<1>3. IsOpen /\ writer.pc = "idle"
  BY <1>1 DEF IsOpen, NoThread
<1>4. /\ FileOK(file) /\ HeaderInv /\ TreeInv /\ ListInv /\ TrackerInv /\ ReaderInv
      /\ IsTree(file, header.root)
  BY <1>3 DEF CowInv, TreeInv
<1>5. /\ Reclaimable \in Seq(Ids(file)) /\ Distinct(Reclaimable)
      /\ ToSet(Reclaimable) = {p \in DOMAIN RetiredAs : PV!Expired(RetiredAs[p])}
      /\ PendingOK(StillPending, version, Ids(file))
      /\ ByPage(StillPending) = [p \in DOMAIN RetiredAs \ ToSet(Reclaimable) |-> RetiredAs[p]]
  BY ReclaimIs
<1>6. WorkOK(file, header.root, writer') /\ HandOf(file, header.root, writer') = ToSet(Reclaimable)
  BY <1>2, <1>4, <1>5, StartWork
<1>7. /\ writer'.pc \in {"descend", "addFree"} /\ ~writer'.committed /\ IsOpen'
  BY <1>2 DEF IsOpen
<1>8. HeaderInv'
  BY <1>1, <1>3, <1>4, <1>7 DEF HeaderInv, IsOpen
<1>9. TreeInv' /\ UNCHANGED <<TreeInMemory, TreeInFile, ReadingPages>>
  BY <1>1, <1>3, <1>4, <1>7 DEF TreeInv, TreeInMemory, TreeInFile, ReadingPages
<1>10. WithAdded' = WithAdded /\ MemHead' = MemHead /\ SavedHead' = SavedHead /\ FreePages' = FreePages
  BY <1>1, <1>3, <1>7 DEF WithAdded, MemHead, SavedHead, FreePages
<1>11. ListInv'
  BY <1>1, <1>4, <1>7, <1>10 DEF ListInv
<1>12. WriterInv'
  BY <1>1, <1>6 DEF WriterInv
<1>13. TrackerInv'
  BY <1>1, <1>4, <1>5, LengthAssumption DEF TrackerInv
<1>14. ReaderInv'
  BY <1>1, <1>3, <1>4, <1>7 DEF ReaderInv
<1>15. CowInv'
  BY <1>1, <1>4, <1>8, <1>9, <1>11, <1>12, <1>13, <1>14 DEF CowInv
<1>16. HandPages = {} /\ HandPages' = ToSet(Reclaimable)
  <2>1. HandPages = {}
    BY <1>3 DEF HandPages
  <2> QED BY <1>1, <1>6, <1>7, <2>1, HandNextIs
<1>17. CommittedOrphans = {} /\ CommittedOrphans' = {}
  BY <1>3, <1>7 DEF CommittedOrphans
<1>18. RetiredAs' = ByPage(StillPending)
  BY <1>1 DEF RetiredAs, ByPage, PagesOf, PendingPages
<1> QED BY <1>1, <1>5, <1>9, <1>10, <1>15, <1>16, <1>17, <1>18 DEF PV!Reclaim

LEMMA ReclaimAtOnceStep ==
  ASSUME CowInv, PV!PageInv, ReclaimAtOnce
  PROVE  CowInv' /\ PV!Reclaim
<1>1. /\ writer.pc = "reclaim" /\ pending' = StillPending
      /\ writer' = IF Reclaimable = <<>> THEN NoThread
                   ELSE [writer EXCEPT !.pc = "addFree", !.free = Reclaimable]
      /\ UNCHANGED <<file, header, version, active, reader, puts, crashes>>
  BY DEF ReclaimAtOnce
<1>2. writer.pc \in Places
  BY <1>1 DEF Places
<1>3. /\ FileOK(file) /\ WorkOK(file, header.root, writer) /\ IsOpen /\ writer \in Works(Ids(file))
      /\ HandPages = HandOf(file, header.root, writer)
  BY <1>2, Working
<1>4. /\ HeaderInv /\ TreeInv /\ ListInv /\ TrackerInv /\ ReaderInv
  BY DEF CowInv
<1>5. /\ Reclaimable \in Seq(Ids(file)) /\ Distinct(Reclaimable)
      /\ ToSet(Reclaimable) = {p \in DOMAIN RetiredAs : PV!Expired(RetiredAs[p])}
      /\ PendingOK(StillPending, version, Ids(file))
      /\ ByPage(StillPending) = [p \in DOMAIN RetiredAs \ ToSet(Reclaimable) |-> RetiredAs[p]]
  BY ReclaimIs
<1>6. writer.committed /\ At(writer) = "reclaim" /\ writer.free = <<>>
  BY <1>1, <1>3 DEF WorkOK, At
<1>7. HandPages = {}
  BY <1>3, <1>6, HandIsFree DEF ToSet
<1>8. /\ writer' = NoThread \/ WorkOK(file, header.root, writer')
      /\ HandPages' = ToSet(Reclaimable) /\ writer'.pc \in {"idle", "addFree"}
      /\ ~Retires(writer')
  <2>1. CASE Reclaimable = <<>>
    <3>1. writer' = NoThread
      BY <1>1, <2>1
    <3>2. HandPages' = {}
      BY <3>1 DEF HandPages, NoThread
    <3> QED BY <2>1, <3>1, <3>2 DEF NoThread, ToSet, Retires, NoWork
  <2>2. CASE Reclaimable # <<>>
    <3> DEFINE w == [writer EXCEPT !.pc = "addFree", !.free = Reclaimable]
    <3>1. w \in Works(Ids(file)) /\ w.pc = "addFree" /\ w.free = Reclaimable /\ w.committed
          /\ w.orphans = writer.orphans /\ w.node = writer.node
          /\ w.new = writer.new /\ w.right = writer.right
      BY <1>3, <1>5, <1>6 DEF Works, Places
    <3>2. writer' = w
      BY <1>1, <2>2
    <3> HIDE DEF w
    <3>3. WorkOK(file, header.root, w)
      BY <1>3, <1>5, <1>6, <3>1 DEF WorkOK, At, Downward, Upward, Behind
    <3>4. HandOf(file, header.root, w) = ToSet(Reclaimable)
      BY <1>3, <3>1, <3>3, HandIsFree
    <3>5. HandPages' = ToSet(Reclaimable)
      BY <1>1, <3>1, <3>2, <3>4, HandNextIs
    <3>6. ~Retires(w)
      BY <3>1 DEF Retires
    <3> QED BY <3>1, <3>2, <3>3, <3>5, <3>6
  <2> QED BY <2>1, <2>2
<1>9. IsOpen'
  BY <1>8 DEF IsOpen
<1>10. HeaderInv'
  BY <1>1, <1>3, <1>4, <1>8, <1>9 DEF HeaderInv, IsOpen
<1>11. TreeInv' /\ UNCHANGED <<TreeInMemory, TreeInFile, ReadingPages>>
  BY <1>1, <1>4, <1>8 DEF TreeInv, TreeInMemory, TreeInFile, ReadingPages
<1>12. WithAdded' = WithAdded /\ MemHead' = MemHead /\ SavedHead' = SavedHead /\ FreePages' = FreePages
  BY <1>1, <1>8 DEF WithAdded, MemHead, SavedHead, FreePages
<1>13. ListInv'
  BY <1>1, <1>4, <1>8, <1>12 DEF ListInv
<1>14. WriterInv'
  BY <1>1, <1>8 DEF WriterInv, NoWork
<1>15. TrackerInv'
  BY <1>1, <1>4, <1>5, <1>8 DEF TrackerInv
<1>16. ReaderInv'
  BY <1>1, <1>3, <1>4, <1>9 DEF ReaderInv
<1>17. CowInv'
  BY <1>1, <1>3, <1>4, <1>10, <1>11, <1>13, <1>14, <1>15, <1>16 DEF CowInv
<1>18. CommittedOrphans = {} /\ CommittedOrphans' = {}
  BY <1>1, <1>8 DEF CommittedOrphans
<1>19. RetiredAs' = ByPage(StillPending)
  BY <1>1 DEF RetiredAs, ByPage, PagesOf, PendingPages
<1> QED BY <1>1, <1>5, <1>7, <1>8, <1>11, <1>12, <1>17, <1>18, <1>19 DEF PV!Reclaim

-----------------------------------------------------------------------------
(* put gives pages to the list.                                            *)

LEMMA TailIs ==
  ASSUME NEW S, NEW s \in Seq(S), s # <<>>, Distinct(s)
  PROVE  /\ Head(s) \in S /\ Head(s) \in ToSet(s) /\ Tail(s) \in Seq(S) /\ Distinct(Tail(s))
         /\ ToSet(Tail(s)) = ToSet(s) \ {Head(s)}
<1> DEFINE m == Len(s)
<1>1. /\ m \in Nat /\ m # 0 /\ DOMAIN s = 1 .. m /\ Head(s) = s[1] /\ Head(s) \in S
      /\ Tail(s) \in Seq(S) /\ Len(Tail(s)) = m - 1
      /\ \A i \in 1 .. Len(Tail(s)) : Tail(s)[i] = s[i + 1]
  BY HeadTailProperties, EmptySeq
<1>2. DOMAIN Tail(s) = 1 .. m - 1 /\ \A i \in 1 .. m - 1 : Tail(s)[i] = s[i + 1] /\ i + 1 \in 1 .. m /\ i + 1 # 1
  BY <1>1
<1>3. 1 \in 1 .. m
  BY <1>1
<1>4. Distinct(Tail(s))
  BY <1>1, <1>2 DEF Distinct
<1>5. ASSUME NEW x \in ToSet(Tail(s)) PROVE x \in ToSet(s) /\ x # Head(s)
  <2>1. PICK i \in 1 .. m - 1 : Tail(s)[i] = x
    BY <1>2, <1>5 DEF ToSet
  <2>2. s[i + 1] = x /\ i + 1 \in 1 .. m /\ i + 1 # 1
    BY <1>2, <2>1
  <2> HIDE DEF m
  <2> QED BY <1>1, <1>3, <2>2 DEF Distinct, ToSet
<1>6. ASSUME NEW x \in ToSet(s), x # Head(s) PROVE x \in ToSet(Tail(s))
  <2>1. PICK i \in 1 .. m : s[i] = x
    BY <1>1, <1>6 DEF ToSet
  <2>2. i - 1 \in 1 .. m - 1 /\ (i - 1) + 1 = i
    BY <1>1, <1>6, <2>1
  <2>3. Tail(s)[i - 1] = x /\ i - 1 \in DOMAIN Tail(s)
    BY <1>2, <2>1, <2>2
  <2> QED BY <2>3 DEF ToSet
<1>7. Head(s) \in ToSet(s)
  BY <1>1, <1>3 DEF ToSet
<1> QED BY <1>1, <1>4, <1>5, <1>6, <1>7

LEMMA OneIdFits == 0 <= MaxIdsPerPage /\ 1 <= MaxIdsPerPage /\ MaxIdsPerPage \in Nat
BY PageSizeAssumption DEF MaxIdsPerPage, FreeListBase, InternalBase

\* While put goes on with the list, the rest of its work stays.
LEMMA ListWorkKeeps ==
  ASSUME NEW f, NEW g, FileOK(f), FileOK(g), DOMAIN f \subseteq DOMAIN g, NEW root, IsTree(f, root),
         NEW w, WorkOK(f, root, w), w.pc \in {"addFree", "addPage", "publishHead"},
         Keeps(f, g, TreePages(f, root))
  PROVE  WorkOK(g, root, w) /\ HandOf(f, root, w) = ToSet(w.free)
<1>1. At(w) = w.pc /\ At(w) \in Downward
  BY DEF At, Downward
<1>2. HandOf(f, root, w) = ToSet(w.free) /\ w.node = Blank
  BY <1>1, HandIsFree
<1>3. Relied(f, root, w) = TreePages(f, root)
  BY <1>1, <1>2, NoSubs DEF Relied, Downward
<1> QED BY <1>2, <1>3, WorkKeeps

\* What the list's steps have in common.
LEMMA ListStep ==
  ASSUME CowInv, PV!PageInv, writer.pc \in {"addFree", "addPage", "publishHead"},
         UNCHANGED <<version, active, pending, reader, puts>>,
         FileOK(file'), DOMAIN file \subseteq DOMAIN file',
         Keeps(file, file', Ids(file) \ FreePages),
         file'[0] = file[0], header'.root = header.root, header' \in [root : Ids(file'), head : Ids(file') \cup {0}],
         writer' \in Works(Ids(file')), writer'.pc \in {"addPage", "publishHead"},
         writer.pc = "publishRoot" \/ file[0].root = header.root,
         writer'.orphans = writer.orphans, writer'.above = writer.above, writer'.next = writer.next,
         writer'.key = writer.key, writer'.node = writer.node, writer'.new = writer.new,
         writer'.right = writer.right, writer'.committed = writer.committed,
         Distinct(writer'.free), writer'.pc = "publishHead" => writer'.free = <<>>,
         ListInv', FreePages' = FreePages \cup (HandPages \ ToSet(writer'.free)) \cup (DOMAIN file' \ DOMAIN file),
         ToSet(writer'.free) \subseteq ToSet(writer.free)
  PROVE  CowInv' /\ PV!Release
<1>1. writer.pc \in Places /\ writer.pc \notin {"publishRoot", "closed", "commitWrite"}
  BY DEF Places
<1>2. /\ FileOK(file) /\ WorkOK(file, header.root, writer) /\ IsOpen /\ IsTree(file, header.root)
      /\ HandPages = HandOf(file, header.root, writer) /\ file[0].kind = "header"
      /\ TreeInMemory = TreePages(file, header.root)
  BY <1>1, Working
<1>3. Keeps(file, file', TreePages(file, header.root))
  <2>1. TreePages(file, header.root) \subseteq Ids(file)
    BY <1>2, TreeBasics DEF IsTree
  <2> QED BY <1>2, <2>1, Apart DEF Keeps
<1>4. WorkOK(file', header.root, writer) /\ HandPages = ToSet(writer.free)
  BY <1>2, <1>3, ListWorkKeeps
<1>5. WorkOK(file', header.root, writer') /\ HandOf(file', header.root, writer') = ToSet(writer'.free)
  BY <1>4, ListWork
<1>6. IsOpen' /\ writer'.pc \notin {"closed", "idle", "createHeader", "publishRoot", "commitWrite"}
  BY DEF IsOpen
<1>7. HandPages' = ToSet(writer'.free)
  BY <1>5, <1>6, HandNextIs
<1>8. TreeInv' /\ UNCHANGED <<TreeInMemory, TreeInFile, ReadingPages>>
  <2>1. Keeps(file, file', Ids(file) \ (FreePages \cup HandPages))
    BY DEF Keeps
  <2> QED BY <1>1, <1>6, <2>1, TreeInvStays
<1>9. Retires(writer') => Retires(writer)
  BY <1>1, RetiresIs DEF Retires
<1>10. writer'.pc # "publishRoot" => file'[0].root = header'.root
  BY <1>1
<1>11. CowInv'
  BY <1>1, <1>2, <1>5, <1>6, <1>8, <1>9, <1>10, Assembled
<1>12. CommittedOrphans = {} /\ CommittedOrphans' = {}
  BY <1>1, <1>6 DEF CommittedOrphans
<1>13. RetiredAs' = RetiredAs
  BY DEF RetiredAs, PendingPages
<1>14. PV!WritesTo(FreePages)
  BY DEF PV!WritesTo, Keeps, Ids
<1>15. HandPages' \subseteq HandPages
        /\ FreePages' = FreePages \cup (HandPages \ HandPages') \cup (DOMAIN file' \ DOMAIN file)
  BY <1>4, <1>7
<1> QED BY <1>8, <1>11, <1>12, <1>13, <1>14, <1>15 DEF PV!Release, PV!NewPages

LEMMA TakeFreeListStep ==
  ASSUME CowInv, PV!PageInv, TakeFreeList
  PROVE  CowInv' /\ PV!Release
<1>1. writer.pc = "addFree" /\ UNCHANGED <<version, active, pending, reader, puts, crashes>>
  BY DEF TakeFreeList
<1>2. writer.pc \in Places
  BY <1>1 DEF Places
<1>3. /\ FileOK(file) /\ WorkOK(file, header.root, writer) /\ IsOpen /\ writer \in Works(Ids(file))
      /\ header \in [root : Ids(file), head : Ids(file) \cup {0}] /\ 0 \in DOMAIN file
      /\ file[0].kind = "header" /\ file[0].root = header.root /\ file[0].head = header.head
      /\ MemHead = header.head /\ ListOK(WithAdded, header.head)
      /\ FreePages = ListOf(WithAdded, header.head) /\ SavedHead = file[0].head
      /\ HandPages = HandOf(file, header.root, writer) /\ IsTree(file, header.root)
  BY <1>1, <1>2, Working
<1>4. WithAdded = file /\ ListInv
  BY <1>1 DEF WithAdded, CowInv
<1>5. HandPages = ToSet(writer.free) /\ Distinct(writer.free)
  <2>1. Keeps(file, file, TreePages(file, header.root))
    BY <1>3, TreeBasics DEF Keeps, IsTree, Ids
  <2> QED BY <1>1, <1>3, <2>1, ListWorkKeeps DEF WorkOK
<1>6. CASE header.head = 0
  <2> DEFINE n == FileSize(file)
             list == FreeList(n, 0, <<>>)
  <2>1. /\ file' = GrowFile(file) /\ header' = [header EXCEPT !.head = n]
        /\ writer' = [writer EXCEPT !.pc = "addPage", !.list = list]
    BY <1>6 DEF TakeFreeList
  <2>2. /\ FileOK(file') /\ DOMAIN file' = DOMAIN file \cup {n} /\ Ids(file') = Ids(file) \cup {n}
        /\ n \notin Ids(file) /\ \A p \in DOMAIN file : file'[p] = file[p]
        /\ file'[n] = Blank /\ n \notin DOMAIN file /\ n # 0
    BY <1>3, <2>1, GrowIs, FileSizeIs
  <2>3. list \in FreeLists(Ids(file')) /\ list.id = n
    BY <2>2, OneIdFits DEF FreeList, FreeLists
  <2> HIDE DEF n, list
  <2>4. header'.head = n /\ header'.root = header.root
        /\ header' \in [root : Ids(file'), head : Ids(file') \cup {0}]
    BY <1>3, <2>1, <2>2
  <2>5. writer \in Works(Ids(file'))
    BY <1>3, <2>2, WorksGrow
  <2>6. /\ writer' \in Works(Ids(file')) /\ writer'.pc = "addPage" /\ writer'.list = list
        /\ writer'.orphans = writer.orphans /\ writer'.above = writer.above /\ writer'.next = writer.next
        /\ writer'.key = writer.key /\ writer'.node = writer.node /\ writer'.new = writer.new
        /\ writer'.right = writer.right /\ writer'.committed = writer.committed
        /\ writer'.free = writer.free
    <3>1. writer' = [writer EXCEPT !.pc = "addPage", !.list = list]
      BY <2>1
    <3>2. list \in FreeLists(Ids(file')) /\ writer \in Works(Ids(file'))
      BY <2>3, <2>5
    <3> QED BY <3>1, <3>2 DEF Works, Places
  <2>7. Writes(file', n, list, WithAdded')
    BY <2>2, <2>3, <2>6 DEF WithAdded, Writes
  <2>8. /\ FileOK(WithAdded') /\ DOMAIN WithAdded' = DOMAIN file' /\ Ids(WithAdded') = Ids(file')
        /\ WithAdded'[n] = list /\ \A q \in DOMAIN file' \ {n} : WithAdded'[q] = file'[q]
    <3>1. FileOK(file') /\ n \in Ids(file')
      BY <2>2
    <3> QED BY <2>3, <2>7, <3>1, WriteIs
  <2>9. /\ ListOK(WithAdded', n) /\ ListPages(WithAdded', n) = {n} \cup ListPages(file, 0)
        /\ FreeIds(WithAdded', n) = FreeIds(file, 0) \cup ToSet(<<>>)
    <3> DEFINE none == <<>>
    <3>1. ListOK(file, 0) /\ 0 \in Ids(file) \cup {0} /\ FileOK(file)
      BY <1>3, ListOfNone
    <3>2. \A q \in Ids(file) : q \in DOMAIN WithAdded' /\ WithAdded'[q] = file[q]
      BY <2>2, <2>8 DEF Ids
    <3>3. none \in Seq(Ids(WithAdded')) /\ Distinct(none) /\ ToSet(none) = {}
      BY DEF Distinct, ToSet
    <3>4. WithAdded'[n] = FreeList(n, 0, none) /\ n \in Ids(WithAdded') /\ n \notin Ids(file)
      BY <2>2, <2>8 DEF list
    <3>5. FileOK(WithAdded')
      BY <2>8
    <3> HIDE DEF none
    <3>6. /\ ListOK(WithAdded', n) /\ ListPages(WithAdded', n) = {n} \cup ListPages(file, 0)
          /\ FreeIds(WithAdded', n) = FreeIds(file, 0) \cup ToSet(none)
      <4>1. ToSet(none) \cap ({n} \cup FreeIds(file, 0) \cup ListPages(file, 0)) = {}
        BY <3>3
      <4>2. none \in Seq(Ids(WithAdded')) /\ Distinct(none)
        BY <3>3
      <4> QED BY <3>1, <3>2, <3>4, <3>5, <4>1, <4>2, PushPage
    <3> QED BY <3>6 DEF none
  <2>10. ListOf(WithAdded', n) = {n} /\ FreePages = {}
    <3>1. ToSet(<<>>) = {}
      BY DEF ToSet
    <3> QED BY <1>3, <1>4, <1>6, <2>9, <3>1, ListOfNone DEF ListOf
  <2>11. MemHead' = n /\ SavedHead' = 0
    BY <1>3, <1>6, <2>2, <2>4, <2>6 DEF MemHead, SavedHead
  <2>12. FreePages' = {n}
    BY <2>4, <2>6, <2>10 DEF FreePages, ListOf
  <2>13. IsBehind(file', WithAdded')
    <3>1. \A p \in DOMAIN file' \ {n} : ReadFreeList(file', p) = ReadFreeList(WithAdded', p)
      BY <2>8, ReadSame
    <3>2. ReadFreeList(file', n) = NoList
      BY <2>2 DEF ReadFreeList, ReadPage, Blank
    <3> QED BY <3>1, <3>2 DEF IsBehind, IdsOf
  <2>14. ListInv'
    BY <2>3, <2>4, <2>6, <2>9, <2>11, <2>13 DEF ListInv, IsList
  <2>15. FreePages' = FreePages \cup (HandPages \ ToSet(writer'.free)) \cup (DOMAIN file' \ DOMAIN file)
    BY <1>5, <2>2, <2>6, <2>10, <2>12
  <2>16. Keeps(file, file', Ids(file) \ FreePages) /\ file'[0] = file[0]
    BY <1>3, <2>2 DEF Keeps, Ids
  <2>17. DOMAIN file \subseteq DOMAIN file'
    BY <2>2
  <2> QED BY <1>1, <1>3, <1>5, <2>2, <2>4, <2>6, <2>14, <2>15, <2>16, <2>17, ListStep
<1>7. CASE header.head # 0
  <2> DEFINE h == header.head
             list == ReadFreeList(file, h)
  <2>1. UNCHANGED <<file, header>> /\ writer' = [writer EXCEPT !.pc = "addPage", !.list = list]
    BY <1>7 DEF TakeFreeList
  <2>2. /\ h \in Ids(file) /\ list = file[h] /\ list \in FreeLists(Ids(file)) /\ list.id = h
        /\ h \in ListPages(file, h)
    BY <1>3, <1>4, <1>7, ListBelow DEF ListOK
  <2> HIDE DEF h, list
  <2>3. /\ writer' \in Works(Ids(file)) /\ writer'.pc = "addPage" /\ writer'.list = list
        /\ writer'.orphans = writer.orphans /\ writer'.above = writer.above /\ writer'.next = writer.next
        /\ writer'.key = writer.key /\ writer'.node = writer.node /\ writer'.new = writer.new
        /\ writer'.right = writer.right /\ writer'.committed = writer.committed
        /\ writer'.free = writer.free
    BY <1>3, <2>1, <2>2 DEF Works, Places
  <2>4. Writes(file, h, list, WithAdded')
    BY <2>1, <2>2, <2>3 DEF WithAdded, Writes, Ids
  <2>5. /\ FileOK(WithAdded') /\ DOMAIN WithAdded' = DOMAIN file
        /\ \A q \in DOMAIN file : WithAdded'[q] = file[q]
    BY <1>3, <2>2, <2>4, WriteIs
  <2>6. /\ ListOK(WithAdded', h) /\ ListPages(WithAdded', h) = ListPages(file, h)
        /\ FreeIds(WithAdded', h) = FreeIds(file, h)
    <3>1. h \in Ids(file) \cup {0} /\ ListOK(file, h)
      BY <1>3, <1>4, <2>2 DEF h
    <3>2. \A p \in ListPages(file, h) : p \in DOMAIN WithAdded' /\ WithAdded'[p] = file[p]
      BY <1>3, <2>5, <3>1, ListTypes DEF Ids
    <3> QED BY <1>3, <2>5, <3>1, <3>2, ListStays
  <2>7. MemHead' = h /\ SavedHead' = h
    BY <1>3, <2>1, <2>3 DEF MemHead, SavedHead, h
  <2>8. FreePages' = FreePages
    <3>1. FreePages' = ListOf(WithAdded', h)
      BY <2>1, <2>3 DEF FreePages, ListOf, h
    <3> QED BY <1>3, <1>4, <2>6, <3>1 DEF ListOf, h
  <2>9. IsBehind(file, WithAdded')
    BY <2>5, ReadSame DEF IsBehind, IdsOf
  <2>10. ListInv'
    BY <1>3, <1>4, <2>1, <2>2, <2>3, <2>6, <2>7, <2>9 DEF ListInv, ListOK, h
  <2>11. Keeps(file, file', Ids(file) \ FreePages) /\ file'[0] = file[0]
    BY <2>1 DEF Keeps, Ids
  <2>12. FreePages' = FreePages \cup (HandPages \ ToSet(writer'.free)) \cup (DOMAIN file' \ DOMAIN file)
    BY <1>5, <2>1, <2>3, <2>8
  <2> QED BY <1>1, <1>3, <1>5, <2>1, <2>3, <2>10, <2>11, <2>12, ListStep
<1> QED BY <1>6, <1>7

-----------------------------------------------------------------------------
\* Put with a page of the list in its hands.
LEMMA Adding ==
  ASSUME CowInv, PV!PageInv, writer.pc = "addPage", NEW list, list = writer.list, NEW h, h = header.head
  PROVE  /\ FileOK(file) /\ WorkOK(file, header.root, writer) /\ writer \in Works(Ids(file))
         /\ header \in [root : Ids(file), head : Ids(file) \cup {0}] /\ 0 \in DOMAIN file
         /\ file[0].kind = "header" /\ file[0].root = header.root
         /\ MemHead = h /\ ListOK(WithAdded, h) /\ FreePages = ListOf(WithAdded, h)
         /\ SavedHead = file[0].head /\ SavedHead \in {0} \cup ListPages(WithAdded, h)
         /\ HandPages = ToSet(writer.free) /\ Distinct(writer.free) /\ writer.free \in Seq(Ids(file))
         /\ list \in FreeLists(Ids(file)) /\ list.id = h /\ h \in Ids(file) /\ h \in FreePages
         /\ FileOK(WithAdded) /\ DOMAIN WithAdded = DOMAIN file /\ Ids(WithAdded) = Ids(file)
         /\ IsBehind(file, WithAdded) /\ FreePages \subseteq Ids(file)
         /\ WithAdded[h] = list /\ \A q \in DOMAIN file \ {h} : WithAdded[q] = file[q]
         /\ ReadFreeList(WithAdded, h) = list
         /\ HandPages \cap FreePages = {}
<1>1. writer.pc \in Places
  BY DEF Places
<1>2. /\ FileOK(file) /\ WorkOK(file, header.root, writer) /\ writer \in Works(Ids(file))
      /\ header \in [root : Ids(file), head : Ids(file) \cup {0}] /\ 0 \in DOMAIN file
      /\ file[0].kind = "header" /\ file[0].root = header.root
      /\ MemHead = h /\ ListOK(WithAdded, h) /\ FreePages = ListOf(WithAdded, h)
      /\ SavedHead = file[0].head /\ IsTree(file, header.root)
      /\ HandPages = HandOf(file, header.root, writer)
  BY <1>1, Working
<1>3. HandPages = ToSet(writer.free) /\ Distinct(writer.free) /\ writer.free \in Seq(Ids(file))
  <2>1. Keeps(file, file, TreePages(file, header.root))
    BY <1>2, TreeBasics DEF Keeps, IsTree, Ids
  <2> QED BY <1>2, <2>1, ListWorkKeeps, WorkTypes DEF WorkOK
<1>4. /\ list \in FreeLists(Ids(file)) /\ list.id = h /\ SavedHead \in {0} \cup ListPages(WithAdded, h)
  BY <1>2 DEF CowInv, ListInv
<1>5. /\ FileOK(WithAdded) /\ DOMAIN WithAdded = DOMAIN file /\ Ids(WithAdded) = Ids(file)
      /\ IsBehind(file, WithAdded) /\ FreePages \subseteq Ids(file)
      /\ h \in Ids(file) /\ h \in FreePages
      /\ Writes(file, h, list, WithAdded)
  BY AddedIs
<1>6. WithAdded[h] = list /\ \A q \in DOMAIN file \ {h} : WithAdded[q] = file[q]
  BY <1>5 DEF Writes
<1>7. ReadFreeList(WithAdded, h) = list
  BY <1>4, <1>5, <1>6, KindsDiffer DEF ReadFreeList, ReadPage, Ids
<1> QED BY <1>2, <1>3, <1>4, <1>5, <1>6, <1>7, Apart

LEMMA AddIdStep ==
  ASSUME CowInv, PV!PageInv, AddFreePage, Len(writer.list.ids) < MaxIdsPerPage
  PROVE  CowInv' /\ PV!Release
<1> DEFINE list == writer.list
           h == header.head
           x == Head(writer.free)
           new == FreeList(list.id, list.next, Append(list.ids, x))
<1>1. /\ writer.pc = "addPage" /\ UNCHANGED <<version, active, pending, reader, puts, crashes>>
      /\ writer.free # <<>>
  BY DEF AddFreePage
<1>2. /\ FileOK(file) /\ WorkOK(file, header.root, writer) /\ writer \in Works(Ids(file))
      /\ header \in [root : Ids(file), head : Ids(file) \cup {0}]
      /\ file[0].kind = "header" /\ file[0].root = header.root
      /\ ListOK(WithAdded, h) /\ FreePages = ListOf(WithAdded, h)
      /\ SavedHead = file[0].head /\ SavedHead \in {0} \cup ListPages(WithAdded, h)
      /\ HandPages = ToSet(writer.free) /\ Distinct(writer.free) /\ writer.free \in Seq(Ids(file))
      /\ list \in FreeLists(Ids(file)) /\ list.id = h /\ h \in Ids(file) /\ h \in FreePages
      /\ FileOK(WithAdded) /\ DOMAIN WithAdded = DOMAIN file /\ Ids(WithAdded) = Ids(file)
      /\ IsBehind(file, WithAdded)
      /\ WithAdded[h] = list /\ \A q \in DOMAIN file \ {h} : WithAdded[q] = file[q]
      /\ ReadFreeList(WithAdded, h) = list
      /\ HandPages \cap FreePages = {}
  BY <1>1, Adding
<1>3. /\ x \in Ids(file) /\ x \in HandPages /\ Tail(writer.free) \in Seq(Ids(file))
      /\ Distinct(Tail(writer.free)) /\ ToSet(Tail(writer.free)) = HandPages \ {x}
  BY <1>1, <1>2, TailIs
<1>4. /\ new \in FreeLists(Ids(file)) /\ new.id = h /\ new.next = list.next /\ new.ids = Append(list.ids, x)
      /\ [list EXCEPT !.ids = Append(list.ids, x)] = new
  <2>1. /\ list.ids \in Seq(Ids(file)) /\ Append(list.ids, x) \in Seq(Ids(file))
        /\ Len(Append(list.ids, x)) = Len(list.ids) + 1
    BY <1>2, <1>3, AppendIs DEF FreeLists
  <2>2. Len(Append(list.ids, x)) <= MaxIdsPerPage
    BY <2>1, OneIdFits
  <2> DEFINE more == Append(list.ids, x)
  <2>3. list = [kind |-> "freelist", id |-> list.id, next |-> list.next, ids |-> list.ids]
        /\ list.id \in Ids(file) /\ list.next \in Ids(file) \cup {0}
    BY <1>2 DEF FreeLists
  <2>4. new = [kind |-> "freelist", id |-> list.id, next |-> list.next, ids |-> more]
        /\ more \in Seq(Ids(file)) /\ Len(more) <= MaxIdsPerPage
    BY <2>1, <2>2 DEF FreeList
  <2> HIDE DEF more, new, list
  <2>5. new.kind = "freelist" /\ new.id = list.id /\ new.next = list.next /\ new.ids = more
    BY <2>4
  <2>6. new \in FreeLists(Ids(file))
    BY <2>3, <2>4 DEF FreeLists
  <2>7. [list EXCEPT !.ids = more] = new
    BY <2>3, <2>4
  <2> QED BY <1>2, <2>5, <2>6, <2>7 DEF more
<1>5. /\ UNCHANGED <<file, header>>
      /\ writer' = [writer EXCEPT !.free = Tail(writer.free), !.list = new]
  <2>1. ~(Len(writer.list.ids) >= MaxIdsPerPage)
    <3>1. Len(list.ids) \in Nat
      BY <1>2 DEF FreeLists
    <3> QED BY <3>1, OneIdFits
  <2>2. /\ UNCHANGED <<file, header>>
        /\ writer' = [writer EXCEPT !.free = Tail(writer.free),
                                    !.list = [list EXCEPT !.ids = Append(list.ids, x)]]
    BY <1>2, <2>1 DEF AddFreePage, Works
  <2> QED BY <1>4, <2>2
<1> HIDE DEF list, h, x, new
<1>6. /\ writer' \in Works(Ids(file)) /\ writer'.pc = "addPage" /\ writer'.list = new
      /\ writer'.orphans = writer.orphans /\ writer'.above = writer.above /\ writer'.next = writer.next
      /\ writer'.key = writer.key /\ writer'.node = writer.node /\ writer'.new = writer.new
      /\ writer'.right = writer.right /\ writer'.committed = writer.committed
      /\ writer'.free = Tail(writer.free)
  BY <1>1, <1>2, <1>3, <1>4, <1>5 DEF Works
<1>7. Writes(file, h, new, WithAdded')
  BY <1>2, <1>4, <1>5, <1>6 DEF WithAdded, Writes, Ids
<1>8. FileOK(WithAdded')
  BY <1>2, <1>4, <1>7, WriteIs
<1>9. /\ ListOK(WithAdded', h) /\ ListPages(WithAdded', h) = ListPages(WithAdded, h)
      /\ FreeIds(WithAdded', h) = FreeIds(WithAdded, h) \cup {x}
  <2>1. DOMAIN WithAdded' = DOMAIN WithAdded /\ \A q \in DOMAIN WithAdded \ {h} : WithAdded'[q] = WithAdded[q]
    BY <1>2, <1>7 DEF Writes
  <2>2. x \notin FreeIds(WithAdded, h) /\ x \notin ListPages(WithAdded, h)
    BY <1>2, <1>3 DEF ListOf
  <2>3. WithAdded'[h] = FreeList(list.id, list.next, Append(list.ids, x)) /\ h # 0
    BY <1>2, <1>7 DEF Writes, new, Ids
  <2> QED BY <1>2, <1>8, <2>1, <2>2, <2>3, PushId
<1>10. MemHead' = h /\ SavedHead' = SavedHead
  BY <1>5, <1>6 DEF MemHead, SavedHead, h
<1>11. FreePages' = FreePages \cup {x}
  <2>1. FreePages' = ListOf(WithAdded', h)
    BY <1>5, <1>6 DEF FreePages, ListOf, h
  <2> QED BY <1>2, <1>9, <2>1 DEF ListOf
<1>12. IsBehind(file, WithAdded')
  <2>1. ASSUME NEW p \in DOMAIN file, p # h
        PROVE  ReadFreeList(WithAdded', p) = ReadFreeList(file, p)
    BY <1>7, <2>1, ReadSame DEF Writes
  <2>2. ReadFreeList(WithAdded', h) = new
    BY <1>2, <1>4, <1>7, KindsDiffer DEF ReadFreeList, ReadPage, Ids, Writes
  <2>3. \A i \in DOMAIN list.ids : i \in DOMAIN new.ids /\ new.ids[i] = list.ids[i]
    <3>1. list.ids \in Seq(Ids(file))
      BY <1>2 DEF FreeLists
    <3>2. /\ DOMAIN new.ids = 1 .. Len(list.ids) + 1 /\ DOMAIN list.ids = 1 .. Len(list.ids)
          /\ \A j \in 1 .. Len(list.ids) : new.ids[j] = list.ids[j] /\ Len(list.ids) \in Nat
      BY <1>3, <1>4, <3>1, AppendIs
    <3> QED BY <3>2
  <2>4. \/ ReadFreeList(file, h) = NoList
        \/ /\ ReadFreeList(file, h).next = list.next
           /\ \A i \in DOMAIN IdsOf(file, h) : i \in DOMAIN list.ids /\ IdsOf(file, h)[i] = list.ids[i]
    BY <1>2 DEF IsBehind, IdsOf, Ids
  <2>5. \/ ReadFreeList(file, h) = NoList
        \/ /\ ReadFreeList(file, h).next = ReadFreeList(WithAdded', h).next
           /\ \A i \in DOMAIN IdsOf(file, h) : /\ i \in DOMAIN IdsOf(WithAdded', h)
                                               /\ IdsOf(file, h)[i] = IdsOf(WithAdded', h)[i]
    BY <1>4, <2>2, <2>3, <2>4 DEF IdsOf
  <2> QED BY <2>1, <2>5 DEF IsBehind, IdsOf
<1>13. ListInv'
  <2>1. IsList(file, SavedHead)
    BY DEF CowInv, ListInv
  <2> QED BY <1>2, <1>4, <1>5, <1>6, <1>9, <1>10, <1>12, <2>1 DEF ListInv, h
<1>14. FreePages' = FreePages \cup (HandPages \ ToSet(writer'.free)) \cup (DOMAIN file' \ DOMAIN file)
  BY <1>3, <1>5, <1>6, <1>11
<1>15. Keeps(file, file', Ids(file) \ FreePages) /\ file'[0] = file[0]
  BY <1>5 DEF Keeps, Ids
<1>16. ToSet(writer'.free) \subseteq ToSet(writer.free)
  BY <1>2, <1>3, <1>6
<1> QED BY <1>1, <1>2, <1>3, <1>5, <1>6, <1>13, <1>14, <1>15, <1>16, ListStep

LEMMA AddPageStep ==
  ASSUME CowInv, PV!PageInv, AddFreePage, Len(writer.list.ids) >= MaxIdsPerPage
  PROVE  CowInv' /\ PV!Release
<1> DEFINE list == writer.list
           h == header.head
           x == Head(writer.free)
           n == FileSize(file)
           new == FreeList(n, h, <<x>>)
           G == GrowFile(file)
<1>1. /\ writer.pc = "addPage" /\ UNCHANGED <<version, active, pending, reader, puts, crashes>>
      /\ writer.free # <<>>
  BY DEF AddFreePage
<1>2. /\ FileOK(file) /\ WorkOK(file, header.root, writer) /\ writer \in Works(Ids(file))
      /\ header \in [root : Ids(file), head : Ids(file) \cup {0}] /\ 0 \in DOMAIN file
      /\ file[0].kind = "header" /\ file[0].root = header.root
      /\ ListOK(WithAdded, h) /\ FreePages = ListOf(WithAdded, h) /\ FreePages \subseteq Ids(file)
      /\ SavedHead = file[0].head /\ SavedHead \in {0} \cup ListPages(WithAdded, h)
      /\ HandPages = ToSet(writer.free) /\ Distinct(writer.free) /\ writer.free \in Seq(Ids(file))
      /\ list \in FreeLists(Ids(file)) /\ list.id = h /\ h \in Ids(file) /\ h \in FreePages
      /\ FileOK(WithAdded) /\ DOMAIN WithAdded = DOMAIN file /\ Ids(WithAdded) = Ids(file)
      /\ WithAdded[h] = list /\ \A q \in DOMAIN file \ {h} : WithAdded[q] = file[q]
      /\ HandPages \cap FreePages = {}
  BY <1>1, Adding
<1>3. /\ x \in Ids(file) /\ x \in HandPages /\ Tail(writer.free) \in Seq(Ids(file))
      /\ Distinct(Tail(writer.free)) /\ ToSet(Tail(writer.free)) = HandPages \ {x}
  BY <1>1, <1>2, TailIs
<1>4. /\ FileOK(G) /\ DOMAIN G = DOMAIN file \cup {n} /\ Ids(G) = Ids(file) \cup {n}
      /\ n \notin Ids(file) /\ (\A p \in DOMAIN file : G[p] = file[p])
      /\ G[n] = Blank /\ n \notin DOMAIN file /\ n # 0
  BY <1>2, GrowIs, FileSizeIs
<1>5. /\ file' = [G EXCEPT ![list.id] = list] /\ header' = [header EXCEPT !.head = n]
      /\ writer' = [writer EXCEPT !.free = Tail(writer.free), !.list = new]
  BY <1>2 DEF AddFreePage
<1> HIDE DEF list, h, x, n, G
<1>6. Writes(G, h, list, file')
  BY <1>2, <1>4, <1>5 DEF Writes, Ids
<1>7. /\ FileOK(file') /\ DOMAIN file' = DOMAIN file \cup {n} /\ Ids(file') = Ids(file) \cup {n}
      /\ file'[n] = Blank /\ \A q \in DOMAIN file : file'[q] = WithAdded[q]
  <2>1. FreeLists(Ids(file)) \subseteq FreeLists(Ids(G)) /\ h \in Ids(G)
    BY <1>2, <1>4, TypesGrow
  <2>4. list \in FreeLists(Ids(G)) /\ list.id = h
    BY <1>2, <2>1
  <2>5. \/ list \in TreeNodes(Ids(G)) /\ ~TooLarge(list)
        \/ list \in FreeLists(Ids(G)) /\ list.id = h
    BY <2>4
  <2>6. FileOK(G) /\ h \in Ids(G)
    BY <1>4, <2>1
  <2>2. FileOK(file') /\ Ids(file') = Ids(G)
    BY <1>6, <2>5, <2>6, WriteIs
  <2>3. h # n
    BY <1>2, <1>4
  <2> QED BY <1>2, <1>4, <1>6, <2>2, <2>3 DEF Writes
<1>8. /\ new \in FreeLists(Ids(file')) /\ new.id = n /\ new.kind = "freelist"
  <2>1. <<x>> \in Seq(Ids(file')) /\ Len(<<x>>) = 1
    BY <1>3, <1>7
  <2> QED BY <1>2, <1>7, <2>1, OneIdFits DEF FreeList, FreeLists
<1> HIDE DEF new
<1>9. header'.head = n /\ header'.root = header.root
        /\ header' \in [root : Ids(file'), head : Ids(file') \cup {0}]
  BY <1>2, <1>5, <1>7
<1>10. writer \in Works(Ids(file'))
  BY <1>2, <1>7, WorksGrow
<1>11. Tail(writer.free) \in Seq(Ids(file'))
  <2>1. Ids(file) \subseteq Ids(file')
    BY <1>7
  <2> QED BY <1>3, <2>1, SeqMonotonic
<1>12. /\ writer' \in Works(Ids(file')) /\ writer'.pc = "addPage" /\ writer'.list = new
       /\ writer'.orphans = writer.orphans /\ writer'.above = writer.above /\ writer'.next = writer.next
       /\ writer'.key = writer.key /\ writer'.node = writer.node /\ writer'.new = writer.new
       /\ writer'.right = writer.right /\ writer'.committed = writer.committed
       /\ writer'.free = Tail(writer.free)
  <2>1. writer' = [writer EXCEPT !.free = Tail(writer.free), !.list = new]
    BY <1>5
  <2> QED BY <1>1, <1>8, <1>10, <1>11, <2>1 DEF Works
<1>13. Writes(file', n, new, WithAdded')
  BY <1>7, <1>8, <1>12 DEF WithAdded, Writes
<1>14. /\ FileOK(WithAdded') /\ DOMAIN WithAdded' = DOMAIN file' /\ Ids(WithAdded') = Ids(file')
       /\ WithAdded'[n] = new /\ \A q \in DOMAIN file' \ {n} : WithAdded'[q] = file'[q]
  <2>1. FileOK(file') /\ n \in Ids(file')
    BY <1>7
  <2> QED BY <1>8, <1>13, <2>1, WriteIs
<1>15. /\ ListOK(WithAdded', n) /\ ListPages(WithAdded', n) = {n} \cup ListPages(WithAdded, h)
       /\ FreeIds(WithAdded', n) = FreeIds(WithAdded, h) \cup {x}
  <2> DEFINE ids == <<x>>
  <2>1. ids \in Seq(Ids(WithAdded')) /\ Distinct(ids) /\ ToSet(ids) = {x}
    BY <1>3, <1>7, <1>14 DEF Distinct, ToSet
  <2>2. WithAdded'[n] = FreeList(n, h, ids)
    BY <1>14 DEF new
  <2> HIDE DEF ids
  <2>3. \A q \in Ids(WithAdded) : q \in DOMAIN WithAdded' /\ WithAdded'[q] = WithAdded[q]
    BY <1>2, <1>4, <1>7, <1>14 DEF Ids
  <2>4. ToSet(ids) \cap ({n} \cup FreeIds(WithAdded, h) \cup ListPages(WithAdded, h)) = {}
    BY <1>2, <1>3, <1>4, <2>1 DEF ListOf
  <2>5. n \in Ids(WithAdded') /\ n \notin Ids(WithAdded) /\ h \in Ids(WithAdded) \cup {0}
    BY <1>2, <1>4, <1>7, <1>14
  <2>6. /\ ListOK(WithAdded', n) /\ ListPages(WithAdded', n) = {n} \cup ListPages(WithAdded, h)
        /\ FreeIds(WithAdded', n) = FreeIds(WithAdded, h) \cup ToSet(ids)
    <3>1. ids \in Seq(Ids(WithAdded')) /\ Distinct(ids)
      BY <2>1
    <3> QED BY <1>2, <1>14, <2>2, <2>3, <2>4, <2>5, <3>1, PushPage
  <2> QED BY <2>1, <2>6
<1>16. file'[0] = file[0] /\ MemHead' = n /\ SavedHead' = SavedHead
  <2>1. file'[0] = file[0]
    BY <1>2, <1>7 DEF Ids
  <2> QED BY <1>9, <1>12, <2>1 DEF MemHead, SavedHead
<1>17. FreePages' = {n, x} \cup FreePages
  <2>1. FreePages' = ListOf(WithAdded', n)
    BY <1>9, <1>12 DEF FreePages, ListOf
  <2> QED BY <1>2, <1>15, <2>1 DEF ListOf
<1>18. IsBehind(file', WithAdded')
  <2>1. \A p \in DOMAIN file' \ {n} : ReadFreeList(file', p) = ReadFreeList(WithAdded', p)
    BY <1>14, ReadSame
  <2>2. ReadFreeList(file', n) = NoList
    BY <1>7 DEF ReadFreeList, ReadPage, Blank
  <2> QED BY <2>1, <2>2 DEF IsBehind, IdsOf
<1>19. IsList(file', SavedHead)
  <2>1. ListOK(WithAdded, SavedHead) /\ ListOf(WithAdded, SavedHead) \subseteq FreePages
        /\ SavedHead \in Ids(WithAdded) \cup {0}
    <3>1. FileOK(WithAdded) /\ h \in Ids(WithAdded) \cup {0} /\ ListOK(WithAdded, h)
      BY <1>2
    <3>2. SavedHead \in {0} \cup ListPages(WithAdded, h) /\ FreePages = ListOf(WithAdded, h)
      BY <1>2
    <3> QED BY <3>1, <3>2, SubList
  <2>2. \A p \in ListPages(WithAdded, SavedHead) : p \in DOMAIN file' /\ file'[p] = WithAdded[p]
    BY <1>2, <1>7, <2>1 DEF ListOf, Ids
  <2> QED BY <1>2, <1>7, <2>1, <2>2, ListStays DEF ListOK
<1>20. ListInv'
  <2>1. SavedHead \in {0} \cup ListPages(WithAdded', n)
    BY <1>2, <1>15
  <2> QED BY <1>8, <1>9, <1>12, <1>15, <1>16, <1>18, <1>19, <2>1 DEF ListInv
<1>21. FreePages' = FreePages \cup (HandPages \ ToSet(writer'.free)) \cup (DOMAIN file' \ DOMAIN file)
  BY <1>3, <1>4, <1>7, <1>12, <1>17
<1>22. Keeps(file, file', Ids(file) \ FreePages)
  BY <1>2, <1>7 DEF Keeps, Ids
<1>23. ToSet(writer'.free) \subseteq ToSet(writer.free) /\ Distinct(writer'.free)
  BY <1>2, <1>3, <1>12
<1>24. DOMAIN file \subseteq DOMAIN file'
  BY <1>7
<1> QED BY <1>1, <1>2, <1>7, <1>9, <1>12, <1>16, <1>20, <1>21, <1>22, <1>23, <1>24, ListStep

LEMMA AddFreePageStep ==
  ASSUME CowInv, PV!PageInv, AddFreePage
  PROVE  CowInv' /\ PV!Release
<1>1. writer.pc = "addPage"
  BY DEF AddFreePage
<1>2. writer.list \in FreeLists(Ids(file))
  BY <1>1, Adding
<1>3. Len(writer.list.ids) \in Nat
  BY <1>2 DEF FreeLists
<1> QED BY <1>3, AddIdStep, AddPageStep, OneIdFits

LEMMA WriteFreeListStep ==
  ASSUME CowInv, PV!PageInv, WriteFreeList
  PROVE  CowInv' /\ PV!Release
<1> DEFINE list == writer.list
           h == header.head
<1>1. /\ writer.pc = "addPage" /\ writer.free = <<>> /\ file' = [file EXCEPT ![list.id] = list]
      /\ writer' = [writer EXCEPT !.pc = "publishHead", !.list = NoList]
      /\ UNCHANGED <<header, version, active, pending, reader, puts, crashes>>
  BY DEF WriteFreeList
<1>2. /\ FileOK(file) /\ WorkOK(file, header.root, writer) /\ writer \in Works(Ids(file))
      /\ header \in [root : Ids(file), head : Ids(file) \cup {0}] /\ 0 \in DOMAIN file
      /\ file[0].kind = "header" /\ file[0].root = header.root
      /\ ListOK(WithAdded, h) /\ FreePages = ListOf(WithAdded, h) /\ FreePages \subseteq Ids(file)
      /\ SavedHead = file[0].head /\ SavedHead \in {0} \cup ListPages(WithAdded, h)
      /\ HandPages = ToSet(writer.free) /\ Distinct(writer.free) /\ writer.free \in Seq(Ids(file))
      /\ h \in Ids(file) /\ h \in FreePages
      /\ FileOK(WithAdded) /\ DOMAIN WithAdded = DOMAIN file /\ Ids(WithAdded) = Ids(file)
      /\ \A q \in DOMAIN file \ {h} : WithAdded[q] = file[q]
  BY <1>1, Adding
<1>3. file' = WithAdded /\ file'[0] = file[0]
  BY <1>1, <1>2 DEF WithAdded, Ids
<1> HIDE DEF list, h
<1>4. /\ writer' \in Works(Ids(file)) /\ writer'.pc = "publishHead"
      /\ writer'.orphans = writer.orphans /\ writer'.above = writer.above /\ writer'.next = writer.next
      /\ writer'.key = writer.key /\ writer'.node = writer.node /\ writer'.new = writer.new
      /\ writer'.right = writer.right /\ writer'.committed = writer.committed
      /\ writer'.free = writer.free
  BY <1>1, <1>2 DEF Works, Places
<1>5. WithAdded' = file' /\ MemHead' = h /\ SavedHead' = SavedHead
  BY <1>1, <1>3, <1>4 DEF WithAdded, MemHead, SavedHead, h
<1>6. FreePages' = FreePages
  <2>1. FreePages' = ListOf(file', h)
    BY <1>1, <1>4, <1>5 DEF FreePages, ListOf, h
  <2> QED BY <1>2, <1>3, <2>1
<1>7. ListInv'
  <2>1. ListOK(WithAdded, SavedHead)
    BY <1>2, SubList
  <2> QED BY <1>2, <1>3, <1>4, <1>5, <2>1 DEF ListInv, ListOK
<1>8. Keeps(file, file', Ids(file) \ FreePages)
  BY <1>2, <1>3 DEF Keeps, Ids
<1>9. FreePages' = FreePages \cup (HandPages \ ToSet(writer'.free)) \cup (DOMAIN file' \ DOMAIN file)
  BY <1>2, <1>3, <1>4, <1>6
<1> QED BY <1>1, <1>2, <1>3, <1>4, <1>7, <1>8, <1>9, ListStep

-----------------------------------------------------------------------------
(* Steps that only put sees.                                               *)

LEMMA QuietStep ==
  ASSUME CowInv, PV!PageInv, writer.pc \in Places,
         writer.pc \notin {"addPage", "publishHead", "publishRoot", "commitWrite"},
         UNCHANGED <<file, header, version, active, pending, reader, puts>>,
         \/ writer' = NoThread
         \/ /\ writer'.pc \in Places \ {"addPage", "publishRoot", "commitWrite"}
            /\ WorkOK(file, header.root, writer') /\ (writer'.committed <=> writer.committed),
         HandPages' = HandPages
  PROVE  CowInv' /\ UNCHANGED PV!vars
<1>1. /\ FileOK(file) /\ IsOpen /\ header \in [root : Ids(file), head : Ids(file) \cup {0}]
      /\ file[0].kind = "header" /\ file[0].root = header.root /\ file[0].head = header.head
  BY Working
<1>2. /\ IsOpen' /\ writer'.pc \notin {"closed", "addPage", "publishRoot", "commitWrite"}
      /\ writer.pc # "closed" /\ (Retires(writer') => Retires(writer))
  <2>1. Retires(writer) <=> (writer.committed => writer.pc = "commitWrite")
    BY RetiresIs
  <2> QED BY <2>1 DEF IsOpen, NoThread, Retires, NoWork, Places
<1>3. Keeps(file, file', Ids(file))
  BY DEF Keeps, Ids
<1>4. TreeInv' /\ UNCHANGED <<TreeInMemory, TreeInFile, ReadingPages>>
  BY <1>1, <1>2, <1>3, TreeInvStays DEF Keeps
<1>5. ListInv' /\ FreePages' = FreePages
  BY <1>1, <1>2, <1>3, ListInvStays DEF Keeps
<1>6. CowInv'
  BY <1>1, <1>2, <1>4, <1>5, Assembled
<1>7. CommittedOrphans = {} /\ CommittedOrphans' = {}
  BY <1>2 DEF CommittedOrphans
<1>8. RetiredAs' = RetiredAs
  BY DEF RetiredAs, PendingPages
<1> QED BY <1>4, <1>5, <1>6, <1>7, <1>8 DEF PV!vars

LEMMA SyncHeadStep ==
  ASSUME CowInv, PV!PageInv, SyncHead
  PROVE  CowInv' /\ UNCHANGED PV!vars
<1>1. /\ writer.pc = "sync"
      /\ writer' = IF writer.then = "idle" THEN NoThread
                   ELSE [writer EXCEPT !.pc = writer.then, !.then = None]
      /\ UNCHANGED <<file, header, version, active, pending, reader, puts>>
  BY DEF SyncHead
<1>2. writer.pc \in Places
  BY <1>1 DEF Places
<1>3. /\ FileOK(file) /\ WorkOK(file, header.root, writer) /\ writer \in Works(Ids(file))
      /\ HandPages = HandOf(file, header.root, writer)
  BY <1>2, Working
<1>4. writer.then \in {"idle", "write", "writeRoot", "writeLeft"} /\ At(writer) = writer.then
  BY <1>1, <1>3 DEF WorkOK, At
<1>5. CASE writer.then = "idle"
  <2>1. writer' = NoThread
    BY <1>1, <1>5
  <2>2. writer.free = <<>> /\ writer.committed
    BY <1>1, <1>3, <1>4, <1>5 DEF WorkOK
  <2>3. HandPages = {}
    BY <1>3, <2>2, HandIsFree DEF ToSet
  <2>4. HandPages' = {}
    BY <2>1 DEF HandPages, NoThread
  <2> QED BY <1>1, <1>2, <2>1, <2>3, <2>4, QuietStep
<1>6. CASE writer.then # "idle"
  <2>1. writer' = [writer EXCEPT !.pc = writer.then, !.then = None]
    BY <1>1, <1>6
  <2>2. /\ writer' \in Works(Ids(file)) /\ writer'.pc = writer.then
        /\ writer'.orphans = writer.orphans /\ writer'.above = writer.above
        /\ writer'.next = writer.next /\ writer'.key = writer.key /\ writer'.node = writer.node
        /\ writer'.new = writer.new /\ writer'.right = writer.right
        /\ writer'.committed = writer.committed /\ writer'.free = writer.free
    BY <1>3, <1>4, <1>6, <2>1 DEF Works, Places
  <2>3. At(writer') = At(writer) /\ writer.then \in Upward
    BY <1>4, <1>6, <2>2 DEF At, Upward
  <2>4. NodeOK(file, header.root, writer) /\ CopyOK(file, writer) /\ ~writer.committed
    BY <1>3, <1>4, <2>3 DEF WorkOK, Upward, Behind
  <2>5. NodeOK(file, header.root, writer') /\ CopyOK(file, writer')
    BY <2>2, <2>3, <2>4 DEF NodeOK, CopyOK
  <2>6. WorkOK(file, header.root, writer')
    BY <1>1, <1>3, <1>4, <1>6, <2>2, <2>3, <2>4, <2>5 DEF WorkOK, Upward, Downward, Behind
  <2>7. HandPages' = HandPages
    <3>1. HandPages' = HandOf(file, header.root, writer')
      BY <1>1, <1>4, <1>6, <2>2, HandNextIs
    <3> QED BY <1>3, <2>2, <2>3, <3>1 DEF HandOf
  <2>8. writer'.pc \in Places \ {"addPage", "publishRoot", "commitWrite"}
    BY <1>4, <1>6, <2>2 DEF Places
  <2> QED BY <1>1, <1>2, <2>2, <2>6, <2>7, <2>8, QuietStep
<1> QED BY <1>5, <1>6

LEMMA PublishHeadStep ==
  ASSUME CowInv, PV!PageInv, PublishHead
  PROVE  CowInv' /\ PV!Write
<1> DEFINE h == header.head
<1>1. /\ writer.pc = "publishHead"
      /\ file' = [file EXCEPT ![0].head = h]
      /\ writer' = IF writer.committed THEN [writer EXCEPT !.pc = "sync", !.then = "idle"]
                   ELSE [writer EXCEPT !.pc = "descend"]
      /\ UNCHANGED <<header, version, active, pending, reader, puts>>
  BY DEF PublishHead
<1>2. writer.pc \in Places
  BY <1>1 DEF Places
<1>3. /\ FileOK(file) /\ IsOpen /\ WorkOK(file, header.root, writer) /\ writer \in Works(Ids(file))
      /\ header \in [root : Ids(file), head : Ids(file) \cup {0}]
      /\ 0 \in DOMAIN file /\ file[0] \in Headers(Ids(file)) /\ file[0].kind = "header"
      /\ file[0].root = header.root /\ IsTree(file, header.root)
      /\ MemHead = h /\ ListOK(WithAdded, h) /\ FreePages = ListOf(WithAdded, h)
      /\ HandPages = HandOf(file, header.root, writer)
  BY <1>1, <1>2, Working
<1>4. WithAdded = file /\ FreePages \subseteq Ids(file)
  BY <1>1, AddedIs
<1>5. Header(file[0].root, h) \in Headers(Ids(file)) /\ Writes(file, 0, Header(file[0].root, h), file')
  <2>1. file[0] = [kind |-> "header", root |-> file[0].root, head |-> file[0].head]
    BY <1>3 DEF Headers
  <2>2. [file[0] EXCEPT !.head = h] = Header(file[0].root, h)
    BY <2>1 DEF Header
  <2>3. file' = [file EXCEPT ![0] = Header(file[0].root, h)]
    BY <1>1, <2>2
  <2> QED BY <1>3, <2>3 DEF Header, Headers, Writes
<1>6. /\ FileOK(file') /\ DOMAIN file' = DOMAIN file /\ Ids(file') = Ids(file)
      /\ file'[0].kind = "header" /\ file'[0].root = file[0].root /\ file'[0].head = h
      /\ \A q \in Ids(file) : file'[q] = file[q]
  <2>1. /\ FileOK(file') /\ DOMAIN file' = DOMAIN file /\ Ids(file') = Ids(file)
        /\ file'[0] = Header(file[0].root, h) /\ \A q \in Ids(file) : file'[q] = file[q]
    BY <1>3, <1>5, WriteHeaderIs
  <2> QED BY <2>1 DEF Header
<1> HIDE DEF h
<1>7. /\ writer' \in Works(Ids(file)) /\ writer'.pc \in {"sync", "descend"}
      /\ writer'.pc = "sync" <=> writer.committed
      /\ writer'.pc = "sync" => writer'.then = "idle"
      /\ writer'.orphans = writer.orphans /\ writer'.above = writer.above
      /\ writer'.next = writer.next /\ writer'.key = writer.key /\ writer'.node = writer.node
      /\ writer'.new = writer.new /\ writer'.right = writer.right
      /\ writer'.committed = writer.committed /\ writer'.free = writer.free
  BY <1>1, <1>3 DEF Works, Places
<1>8. At(writer) = "publishHead" /\ At(writer') \in {"idle", "descend"} /\ writer.free = <<>>
      /\ (At(writer') = "idle" <=> writer.committed)
  BY <1>1, <1>3, <1>7 DEF At, WorkOK
<1>9. WorkOK(file, header.root, writer')
  <2>1. ~writer.committed => DownOK(file, header.root, writer')
    <3>1. ~writer.committed => DownOK(file, header.root, writer)
      BY <1>3, <1>8 DEF WorkOK, Downward
    <3> QED BY <1>7, <3>1 DEF DownOK
  <2>2. writer.committed => writer.node = Blank /\ {writer.new, writer.right} \subseteq {0} \cup TreePages(file, header.root)
    BY <1>3 DEF WorkOK
  <2>3. Distinct(writer.free) /\ Distinct(writer.orphans)
    BY <1>3 DEF WorkOK
  <2> QED BY <1>7, <1>8, <2>1, <2>2, <2>3 DEF WorkOK, Downward, Upward, Behind
<1>10. /\ WorkOK(file', header.root, writer')
       /\ HandOf(file, header.root, writer) = {} /\ HandOf(file', header.root, writer') = {}
  <2>1. writer'.node = Blank /\ HandOf(file, header.root, writer) = {}
    <3>1. writer.committed \/ At(writer) \in Downward
      BY <1>8 DEF Downward
    <3> QED BY <1>3, <1>7, <1>8, <3>1, HandIsFree DEF ToSet
  <2>2. Relied(file, header.root, writer') = TreePages(file, header.root)
    BY <1>8, <2>1, NoSubs DEF Relied
  <2>3. Keeps(file, file', Relied(file, header.root, writer'))
    <3>1. TreePages(file, header.root) \subseteq Ids(file)
      BY <1>3, TreeBasics
    <3> QED BY <1>6, <2>2, <3>1 DEF Keeps, Ids
  <2>4. WorkOK(file', header.root, writer')
    BY <1>3, <1>6, <1>9, <2>3, WorkKeeps
  <2>5. writer'.committed \/ At(writer') \in Downward
    BY <1>7, <1>8 DEF Downward
  <2> QED BY <1>6, <1>7, <1>8, <2>1, <2>4, <2>5, HandIsFree DEF ToSet
<1>11. writer.pc # "closed" /\ writer'.pc \notin {"closed", "addPage", "publishHead", "publishRoot", "commitWrite"}
       /\ IsOpen'
  BY <1>1, <1>7 DEF IsOpen
<1>12. TreeInv' /\ UNCHANGED <<TreeInMemory, TreeInFile, ReadingPages>>
  <2>1. Keeps(file, file', Ids(file) \ (FreePages \cup HandPages))
    BY <1>6 DEF Keeps, Ids
  <2>2. file'[0].kind = file[0].kind /\ (file[0].kind = "header" => file'[0].root = file[0].root)
    BY <1>3, <1>6
  <2>3. header'.root = header.root /\ reader' = reader /\ DOMAIN file \subseteq DOMAIN file'
    BY <1>1, <1>6
  <2> QED BY <1>6, <1>11, <2>1, <2>2, <2>3, TreeInvStays
<1>13. ListInv' /\ FreePages' = FreePages
  <2>1. WithAdded' = file' /\ MemHead' = h /\ SavedHead' = h
    BY <1>1, <1>6, <1>11 DEF WithAdded, MemHead, SavedHead, h
  <2>2. h \in Ids(file) \cup {0}
    BY <1>3 DEF h
  <2>3. \A p \in ListPages(file, h) : p \in DOMAIN file' /\ file'[p] = file[p]
    BY <1>3, <1>4, <1>6 DEF ListOf, Ids
  <2>4. /\ ListPages(file', h) = ListPages(file, h) /\ FreeIds(file', h) = FreeIds(file, h)
        /\ ListOK(file', h)
    BY <1>3, <1>4, <1>6, <2>2, <2>3, ListStays
  <2>5. h \in {0} \cup ListPages(file', h)
    BY <1>6, <2>2, ListBasics
  <2>6. FreePages' = ListOf(file', h)
    BY <1>1, <1>11, <2>1 DEF FreePages, ListOf, h
  <2> QED BY <1>3, <1>4, <1>11, <2>1, <2>4, <2>5, <2>6 DEF ListInv, ListOK, ListOf
<1>14. Retires(writer') => Retires(writer)
  <2>1. Retires(writer) <=> (writer.committed => writer.pc = "commitWrite")
    BY <1>2, RetiresIs
  <2> QED BY <1>7, <2>1 DEF Retires
<1>15. CowInv'
  <2>1. header' \in [root : Ids(file'), head : Ids(file') \cup {0}] /\ DOMAIN file \subseteq DOMAIN file'
    BY <1>1, <1>3, <1>6
  <2>2. file'[0].root = header'.root /\ file'[0].head = header'.head
    BY <1>1, <1>3, <1>6 DEF h
  <2>3. WorkOK(file', header'.root, writer')
    BY <1>1, <1>10
  <2> QED BY <1>1, <1>3, <1>6, <1>11, <1>12, <1>13, <1>14, <2>1, <2>2, <2>3, Assembled
<1>16. HandPages = {} /\ HandPages' = {}
  BY <1>1, <1>3, <1>7, <1>10, HandNextIs
<1>17. CommittedOrphans = {} /\ CommittedOrphans' = {}
  BY <1>1, <1>11 DEF CommittedOrphans
<1>18. RetiredAs' = RetiredAs
  BY <1>1 DEF RetiredAs, PendingPages
<1>19. PV!NewPages = {} /\ PV!WritesTo(HandPages \cup FreePages)
  BY <1>6 DEF PV!NewPages, PV!WritesTo, Ids
<1> QED BY <1>1, <1>12, <1>13, <1>15, <1>16, <1>17, <1>18, <1>19 DEF PV!Write

-----------------------------------------------------------------------------
(* The way down.                                                           *)

LEMMA DescendStep ==
  ASSUME CowInv, PV!PageInv, Descend
  PROVE  /\ CowInv'
         /\ UNCHANGED PV!vars
<1> DEFINE n == ReadPage(file, writer.next)
           root == header.root
<1>1. writer.pc = "descend" /\ UNCHANGED <<file, header, version, active, pending, reader, puts>>
  BY DEF Descend
<1>2. writer.pc \in Places
  BY <1>1 DEF Places
<1>3. /\ FileOK(file) /\ WorkOK(file, root, writer) /\ writer \in Works(Ids(file))
      /\ IsTree(file, root) /\ HandPages = HandOf(file, root, writer)
  BY <1>2, Working
<1>4. At(writer) = "descend" /\ ~writer.committed /\ DownOK(file, root, writer) /\ writer.free = <<>>
  <2>1. At(writer) = "descend" /\ ~writer.committed
    BY <1>1, <1>3 DEF WorkOK, At, Behind
  <2> QED BY <1>1, <1>3, <2>1 DEF WorkOK, Downward
<1>5. HandPages = {}
  <2>1. At(writer) \in Downward
    BY <1>4 DEF Downward
  <2> QED BY <1>3, <1>4, <2>1, HandIsFree DEF ToSet
<1>6. writer.next \in Ids(file) /\ n = file[writer.next] /\ n.kind \in {"leaf", "internal"}
  <2>1. writer.next \in Ids(file)
    BY <1>3, WorkTypes
  <2>2. /\ Append(writer.orphans, writer.next) \in Seq(Ids(file))
        /\ Append(writer.orphans, writer.next)[Len(writer.orphans) + 1] = writer.next
        /\ Len(writer.orphans) + 1 \in DOMAIN Append(writer.orphans, writer.next)
        /\ Append(writer.orphans, writer.next) # <<>>
    BY <1>3, WorkTypes, AppendIs
  <2>3. /\ Append(writer.orphans, writer.next)[1] = root
        /\ IsChain(file, Append(writer.orphans, writer.next))
    BY <1>4 DEF DownOK, IsPath
  <2>4. root \in Ids(file)
    BY <1>3 DEF IsTree
  <2>5. writer.next \in TreePages(file, root)
    <3> DEFINE path == Append(writer.orphans, writer.next)
    <3>1. path \in Seq(Ids(file)) /\ path # <<>> /\ path[1] = root /\ IsChain(file, path)
      BY <2>2, <2>3
    <3>2. Len(writer.orphans) + 1 \in DOMAIN path /\ path[Len(writer.orphans) + 1] = writer.next
      BY <2>2
    <3> HIDE DEF path
    <3>3. \A j \in DOMAIN path : path[j] \in TreePages(file, root)
      BY <1>3, <2>4, <3>1, ChainWithin
    <3> QED BY <3>2, <3>3
  <2> QED BY <1>3, <2>1, <2>5 DEF IsTree, ReadPage, Ids
<1>7. CASE n.kind = "leaf"
  <2>1. writer' = [writer EXCEPT !.orphans = Append(writer.orphans, writer.next), !.pc = "allocate",
                                 !.node = UpsertLeaf(n, writer.key, writer.value)]
    BY <1>3, <1>7 DEF Descend, Works
  <2>2. /\ writer' \in Works(Ids(file)) /\ writer'.pc = "allocate" /\ writer'.free = writer.free
        /\ writer'.committed = writer.committed /\ writer'.new = writer.new /\ writer'.right = writer.right
        /\ NodeOK(file, root, writer') /\ CopyOK(file, writer') /\ Distinct(writer'.orphans)
        /\ Subs(file, writer'.node) = {}
    <3> DEFINE v == [writer EXCEPT !.orphans = Append(writer.orphans, writer.next), !.pc = "allocate",
                                   !.node = UpsertLeaf(n, writer.key, writer.value)]
    <3>1. /\ v \in Works(Ids(file)) /\ NodeOK(file, root, v) /\ CopyOK(file, v) /\ Distinct(v.orphans)
          /\ Subs(file, v.node) = {}
      <4> HIDE DEF n, root
      <4> QED BY <1>3, <1>4, <1>6, <1>7, LeafIs
    <3>2. /\ v.pc = "allocate" /\ v.free = writer.free /\ v.committed = writer.committed
          /\ v.new = writer.new /\ v.right = writer.right
      BY <1>3 DEF Works
    <3> QED BY <2>1, <3>1, <3>2
  <2>3. At(writer') = "allocate"
    BY <2>2 DEF At
  <2>4. WorkOK(file, root, writer')
    BY <1>4, <2>2, <2>3, AppendIs DEF WorkOK, Downward, Upward, Behind, Distinct
  <2>5. HandPages' = {}
    <3>1. HandPages' = HandOf(file, root, writer')
      BY <1>1, <2>2, HandNextIs
    <3>2. writer.new = 0 /\ writer.right = 0
      BY <1>4 DEF DownOK
    <3> QED BY <1>4, <2>2, <2>3, <3>1, <3>2 DEF HandOf, ToSet
  <2>6. writer'.pc \in Places \ {"addPage", "publishRoot", "commitWrite"}
    BY <2>2 DEF Places
  <2> QED BY <1>1, <1>2, <1>5, <2>2, <2>4, <2>5, <2>6, QuietStep
<1>8. CASE n.kind = "internal"
  <2>1. writer' = [writer EXCEPT !.orphans = Append(writer.orphans, writer.next),
                                 !.next = ChildFor(n, writer.key), !.above = Append(writer.above, n)]
    BY <1>3, <1>8 DEF Descend, Works
  <2>2. /\ writer' \in Works(Ids(file)) /\ writer'.pc = writer.pc /\ writer'.free = writer.free
        /\ writer'.committed = writer.committed
        /\ DownOK(file, root, writer') /\ Distinct(writer'.orphans)
    <3> DEFINE v == [writer EXCEPT !.orphans = Append(writer.orphans, writer.next),
                                   !.next = ChildFor(n, writer.key), !.above = Append(writer.above, n)]
    <3>1. v \in Works(Ids(file)) /\ DownOK(file, root, v) /\ Distinct(v.orphans)
      <4> HIDE DEF n, root
      <4> QED BY <1>3, <1>4, <1>6, <1>8, DescendIs
    <3>2. v.pc = writer.pc /\ v.free = writer.free /\ v.committed = writer.committed
      BY <1>3 DEF Works
    <3> QED BY <2>1, <3>1, <3>2
  <2>3. At(writer') = "descend"
    BY <1>1, <2>2 DEF At
  <2>4. WorkOK(file, root, writer')
    <3>1. Distinct(writer'.free) /\ writer'.free = <<>>
      BY <1>4, <2>2 DEF Distinct
    <3>2. writer'.pc = "descend" /\ ~writer'.committed
      BY <1>1, <1>4, <2>2
    <3> QED BY <2>2, <2>3, <3>1, <3>2 DEF WorkOK, Downward, Upward, Behind
  <2>5. HandPages' = {}
    <3>1. HandPages' = HandOf(file, root, writer')
      BY <1>1, <2>2, HandNextIs
    <3>2. At(writer') \in Downward
      BY <2>3 DEF Downward
    <3> QED BY <1>3, <1>4, <2>2, <2>4, <3>1, <3>2, HandIsFree DEF ToSet
  <2>6. writer'.pc \in Places \ {"addPage", "publishRoot", "commitWrite"}
    BY <1>1, <2>2 DEF Places
  <2> QED BY <1>1, <1>2, <1>5, <2>2, <2>4, <2>5, <2>6, QuietStep
<1> QED BY <1>6, <1>7, <1>8

-----------------------------------------------------------------------------
(* The way up.                                                             *)

\* put writes to a page that it has allocated.
LEMMA CopyWrite ==
  ASSUME CowInv, PV!PageInv, writer.pc \in {"write", "writeRoot", "writeLeft", "writeRight"},
         NEW n \in TreeNodes(Ids(file)), ~TooLarge(n),
         NEW p, p = IF writer.pc = "writeRight" THEN writer.right ELSE writer.new,
         Writes(file, p, n, file')
  PROVE  /\ FileOK(file') /\ DOMAIN file' = DOMAIN file /\ Ids(file') = Ids(file)
         /\ file'[p] = n /\ file'[0] = file[0]
         /\ Keeps(file, file', Ids(file) \ HandPages)
         /\ IsTree(file', header.root) /\ TreePages(file', header.root) = TreePages(file, header.root)
         /\ WorkOK(file', header.root, writer) /\ HandOf(file', header.root, writer) = HandPages
         /\ Keeps(file, file', Relied(file, header.root, writer))
<1> DEFINE root == header.root
<1>1. writer.pc \in Places /\ writer.pc \in Upward
  BY DEF Places, Upward
<1>2. /\ FileOK(file) /\ WorkOK(file, root, writer) /\ IsTree(file, root)
      /\ HandPages = HandOf(file, root, writer)
  BY <1>1, Working
<1>3. /\ At(writer) = writer.pc /\ NodeOK(file, root, writer) /\ CopyOK(file, writer)
      /\ HandOf(file, root, writer) = ({writer.new, writer.right} \cup Subs(file, writer.node)) \ ({0} \cup TreePages(file, root))
  BY <1>1, <1>2, OnPath
<1>4. p # 0 /\ p \notin Subs(file, writer.node) /\ p \notin TreePages(file, root)
      /\ (writer.pc = "writeRight" => p # writer.new) /\ p \in {writer.new, writer.right}
  BY <1>3 DEF CopyOK, NodeOK
<1>5. p \in Ids(file) /\ p \in HandPages
  <2>1. writer.new \in Ids(file) \cup {0} /\ writer.right \in Ids(file) \cup {0}
    BY <1>2, WorkTypes DEF WorkOK
  <2> QED BY <1>2, <1>3, <1>4, <2>1
<1>6. /\ FileOK(file') /\ DOMAIN file' = DOMAIN file /\ Ids(file') = Ids(file)
      /\ file'[p] = n /\ \A q \in DOMAIN file \ {p} : file'[q] = file[q]
  <2>1. \/ n \in TreeNodes(Ids(file)) /\ ~TooLarge(n)
        \/ n \in FreeLists(Ids(file)) /\ n.id = p
    OBVIOUS
  <2> QED BY <1>2, <1>5, <2>1, WriteIs
<1>7. file'[0] = file[0]
  BY <1>2, <1>4, <1>6, FileSizeIs
<1>8. Keeps(file, file', Ids(file) \ HandPages)
  BY <1>5, <1>6 DEF Keeps, Ids
<1>9. p \notin Relied(file, root, writer)
  BY <1>1, <1>3, <1>4 DEF Relied, Upward
<1>10. Relied(file, root, writer) \subseteq DOMAIN file
  <2>1. TreePages(file, root) \subseteq Ids(file)
    BY <1>2, TreeBasics DEF IsTree
  <2>2. Subs(file, writer.node) \subseteq Ids(file)
    <3>1. \A k \in KidsOf(writer.node) : TreePages(file, k) \subseteq Ids(file)
      BY <1>2, <1>3, TreeBasics DEF NodeOK, AreTrees, IsTree
    <3> QED BY <3>1 DEF Subs
  <2>3. writer.new \in Ids(file) \cup {0}
    BY <1>2, WorkTypes DEF WorkOK
  <2>4. 0 \in DOMAIN file
    BY <1>2, FileSizeIs
  <2>5. At(writer) # "commitRoot"
    BY <1>1, <1>3 DEF Upward
  <2> QED BY <2>1, <2>2, <2>3, <2>4, <2>5 DEF Relied, Ids
<1>11. Keeps(file, file', Relied(file, root, writer))
  BY <1>6, <1>9, <1>10 DEF Keeps
<1>12. /\ WorkOK(file', root, writer) /\ TreePages(file', root) = TreePages(file, root) /\ IsTree(file', root)
       /\ Subs(file', writer.node) = Subs(file, writer.node)
  BY <1>1, <1>2, <1>3, <1>6, <1>11, WorkKeeps
<1>13. HandOf(file', root, writer) = HandPages
  <2>1. HandOf(file', root, writer) = ({writer.new, writer.right} \cup Subs(file', writer.node)) \ ({0} \cup TreePages(file', root))
    BY <1>1, <1>6, <1>12, OnPath
  <2> QED BY <1>2, <1>3, <1>12, <2>1
<1> QED BY <1>6, <1>7, <1>8, <1>11, <1>12, <1>13

\* ... and goes on.
LEMMA CopyStep ==
  ASSUME CowInv, PV!PageInv, writer.pc \in Upward, writer'.pc \in Upward \cup {"commitRoot"},
         UNCHANGED <<header, version, active, pending, reader, puts>>,
         FileOK(file'), DOMAIN file' = DOMAIN file, file'[0] = file[0],
         Keeps(file, file', Ids(file) \ HandPages),
         WorkOK(file', header.root, writer'), HandOf(file', header.root, writer') = HandPages
  PROVE  CowInv' /\ PV!Write
<1>1. /\ writer.pc \in Places
      /\ writer.pc \notin {"publishRoot", "addPage", "publishHead", "closed", "commitWrite"}
      /\ writer'.pc \in Places
      /\ writer'.pc \notin {"idle", "createHeader", "publishRoot", "addPage", "publishHead", "closed", "commitWrite"}
  BY DEF Upward, Places
<1>2. /\ FileOK(file) /\ IsOpen /\ header \in [root : Ids(file), head : Ids(file) \cup {0}]
      /\ file[0].kind = "header" /\ file[0].root = header.root /\ file[0].head = header.head
      /\ WorkOK(file, header.root, writer)
  BY <1>1, Working
<1>3. IsOpen'
  BY <1>1 DEF IsOpen
<1>4. Ids(file') = Ids(file)
  BY DEF Ids
<1>5. TreeInv' /\ UNCHANGED <<TreeInMemory, TreeInFile, ReadingPages>>
  <2>1. Keeps(file, file', Ids(file) \ (FreePages \cup HandPages))
    BY DEF Keeps
  <2> QED BY <1>1, <1>2, <2>1, TreeInvStays
<1>6. ListInv' /\ FreePages' = FreePages
  BY <1>1, <1>2, ListInvStays
<1>7. Retires(writer') => Retires(writer)
  <2>1. Retires(writer) <=> (writer.committed => writer.pc = "commitWrite")
    BY <1>1, RetiresIs
  <2>2. writer.committed = FALSE
    <3>1. ~writer.committed
      BY <1>2, OnPath
    <3> QED BY <1>2, <3>1, WorkTypes DEF WorkOK
  <2> QED BY <2>1, <2>2
<1>8. CowInv'
  BY <1>1, <1>2, <1>3, <1>4, <1>5, <1>6, <1>7, Assembled
<1>9. HandPages' = HandPages
  BY <1>1, HandNextIs
<1>10. CommittedOrphans = {} /\ CommittedOrphans' = {}
  BY <1>1 DEF CommittedOrphans
<1>11. RetiredAs' = RetiredAs
  BY DEF RetiredAs, PendingPages
<1>12. PV!NewPages = {} /\ PV!WritesTo(HandPages \cup FreePages)
  BY DEF PV!NewPages, PV!WritesTo, Keeps, Ids
<1> QED BY <1>5, <1>6, <1>8, <1>9, <1>10, <1>11, <1>12 DEF PV!Write

\* What GoUp makes of the thread.
LEMMA GoUpStep ==
  ASSUME NEW f, FileOK(f), NEW root, IsTree(f, root), NEW w, w = writer, IsOnPath(f, root, w),
         NEW c, IsChild(f, root, w, c), GoUp(c)
  PROVE  /\ WorkOK(f, root, writer') /\ writer'.pc \in {"allocate", "allocateRoot", "commitRoot"}
         /\ HandOf(f, root, writer') = Copies(f, c) \ ({0} \cup TreePages(f, root))
<1>1. w \in Works(Ids(f))
  BY DEF IsOnPath
<1>2. writer' = IF w.above # <<>> THEN ToParent(w, c)
                ELSE IF c.key # None THEN ToRoot(w, c) ELSE ToCommit(w, c)
  BY <1>1 DEF GoUp, ToParent, ToRoot, ToCommit, Works
<1>3. writer'.pc \in {"allocate", "allocateRoot", "commitRoot"}
  BY <1>1, <1>2 DEF ToParent, ToRoot, ToCommit, Works
<1> QED BY <1>2, <1>3, GoUpIs

-----------------------------------------------------------------------------
LEMMA WriteNodeStep ==
  ASSUME CowInv, PV!PageInv, WriteNode
  PROVE  CowInv' /\ PV!Write
<1> DEFINE root == header.root
           n == writer.node
           p == writer.new
           c == Whole(p)
<1>1. /\ writer.pc = "write" /\ ~TooLarge(n) /\ file' = [file EXCEPT ![p] = n] /\ GoUp(c)
      /\ UNCHANGED <<header, version, active, pending, reader, puts>>
  BY DEF WriteNode
<1>2. writer.pc \in Places /\ writer.pc \in Upward
  BY <1>1 DEF Places, Upward
<1>3. FileOK(file) /\ WorkOK(file, root, writer) /\ IsTree(file, root)
  BY <1>2, Working
<1>4. n \in TreeNodes(Ids(file)) /\ p \in Ids(file)
  <2>1. n \in TreeNodes(Ids(file)) /\ CopyOK(file, writer) /\ At(writer) = "write"
    BY <1>1, <1>2, <1>3, OnPath
  <2>2. p \in Ids(file) \cup {0}
    BY <1>3, WorkTypes DEF WorkOK
  <2> QED BY <2>1, <2>2 DEF CopyOK
<1>5. Writes(file, p, n, file')
  BY <1>1, <1>4 DEF Writes, Ids
<1> HIDE DEF n, p, root, c
<1>6. /\ FileOK(file') /\ DOMAIN file' = DOMAIN file /\ file'[p] = n /\ file'[0] = file[0]
      /\ Keeps(file, file', Ids(file) \ HandPages) /\ IsTree(file', root)
      /\ WorkOK(file', root, writer) /\ HandOf(file', root, writer) = HandPages
  <2>1. p = IF writer.pc = "writeRight" THEN writer.right ELSE writer.new
    BY <1>1 DEF p
  <2> QED BY <1>1, <1>4, <1>5, <2>1, CopyWrite DEF root
<1>7. /\ IsChild(file', root, writer, c) /\ IsOnPath(file', root, writer)
      /\ Copies(file', c) \ ({0} \cup TreePages(file', root)) = HandPages
  <2>1. file'[writer.new] = writer.node /\ c = Whole(writer.new)
    BY <1>6 DEF p, n, c
  <2> QED BY <1>1, <1>6, <2>1, WholeIs
<1>8. /\ WorkOK(file', root, writer') /\ writer'.pc \in {"allocate", "allocateRoot", "commitRoot"}
      /\ HandOf(file', root, writer') = HandPages
  BY <1>1, <1>6, <1>7, GoUpStep
<1>9. writer'.pc \in Upward \cup {"commitRoot"}
  BY <1>8 DEF Upward
<1> QED BY <1>1, <1>2, <1>6, <1>8, <1>9, CopyStep DEF root

LEMMA WriteLeftStep ==
  ASSUME CowInv, PV!PageInv, WriteLeft
  PROVE  CowInv' /\ (PV!Write \/ (PV!Raise /\ writer' = NoThread /\ ~writer.committed))
<1> DEFINE root == header.root
           n == LeftNode(writer.node)
           p == writer.new
<1>1. /\ writer.pc = "writeLeft" /\ UNCHANGED <<header, version, active, pending, reader, puts>>
  BY DEF WriteLeft
<1>2. writer.pc \in Places /\ writer.pc \in Upward
  BY <1>1 DEF Places, Upward
<1>3. FileOK(file) /\ WorkOK(file, root, writer) /\ IsTree(file, root) /\ writer \in Works(Ids(file))
  BY <1>2, Working
<1>4. /\ writer.node \in TreeNodes(Ids(file)) /\ CopyOK(file, writer) /\ At(writer) = "writeLeft"
      /\ NodeOK(file, root, writer) /\ ~writer.committed /\ writer.free = <<>>
  BY <1>1, <1>2, <1>3, OnPath
<1>5. CASE TooLarge(n)
  <2>1. writer' = NoThread /\ file' = file
    BY <1>5 DEF WriteLeft, PutRaises
  <2> QED BY <1>1, <1>2, <1>4, <2>1, RaiseStep
<1>6. CASE ~TooLarge(n)
  <2>1. file' = [file EXCEPT ![p] = n] /\ writer' = [writer EXCEPT !.pc = "writeRight"]
    BY <1>6 DEF WriteLeft
  <2>2. n \in TreeNodes(Ids(file)) /\ p \in Ids(file)
    <3>1. ~SplitHasNoKey(Base(writer.node), EntrySizesOf(writer.node))
      BY <1>4 DEF CopyOK
    <3>2. p \in Ids(file) \cup {0}
      BY <1>3, WorkTypes
    <3> QED BY <1>4, <3>1, <3>2, SplitIs DEF CopyOK
  <2>3. Writes(file, p, n, file')
    BY <2>1, <2>2 DEF Writes, Ids
  <2>4. /\ writer' \in Works(Ids(file)) /\ writer'.pc = "writeRight" /\ writer'.free = writer.free
        /\ writer'.orphans = writer.orphans /\ writer'.above = writer.above
        /\ writer'.next = writer.next /\ writer'.key = writer.key /\ writer'.node = writer.node
        /\ writer'.new = writer.new /\ writer'.right = writer.right
        /\ writer'.committed = writer.committed
    BY <1>3, <2>1 DEF Works, Places
  <2> HIDE DEF n, p, root
  <2>5. /\ FileOK(file') /\ DOMAIN file' = DOMAIN file /\ Ids(file') = Ids(file)
        /\ file'[p] = n /\ file'[0] = file[0]
        /\ Keeps(file, file', Ids(file) \ HandPages) /\ IsTree(file', root)
        /\ WorkOK(file', root, writer) /\ HandOf(file', root, writer) = HandPages
    <3>1. p = IF writer.pc = "writeRight" THEN writer.right ELSE writer.new
      BY <1>1 DEF p
    <3> QED BY <1>1, <1>6, <2>2, <2>3, <3>1, CopyWrite DEF root
  <2>6. NodeOK(file', root, writer) /\ CopyOK(file', writer)
    BY <1>1, <1>2, <2>5, OnPath
  <2>7. At(writer') = "writeRight"
    BY <2>4 DEF At
  <2>8. NodeOK(file', root, writer') /\ CopyOK(file', writer')
    <3>1. NodeOK(file', root, writer')
      BY <2>4, <2>6 DEF NodeOK
    <3>2. file'[writer.new] = LeftNode(writer.node)
      BY <2>5 DEF p, n
    <3> QED BY <1>4, <2>4, <2>6, <2>7, <3>1, <3>2 DEF CopyOK
  <2>9. WorkOK(file', root, writer')
    <3>1. Distinct(writer.free) /\ Distinct(writer.orphans)
      BY <1>3 DEF WorkOK
    <3> QED BY <1>4, <2>4, <2>5, <2>7, <2>8, <3>1 DEF WorkOK, Upward, Downward, Behind
  <2>10. HandOf(file', root, writer') = HandPages
    BY <1>4, <2>4, <2>5, <2>7 DEF HandOf
  <2>11. writer'.pc \in Upward \cup {"commitRoot"}
    BY <2>4 DEF Upward
  <2> QED BY <1>1, <1>2, <2>5, <2>9, <2>10, <2>11, CopyStep DEF root
<1> QED BY <1>5, <1>6

LEMMA WriteRightStep ==
  ASSUME CowInv, PV!PageInv, WriteRight
  PROVE  CowInv' /\ (PV!Write \/ (PV!Raise /\ writer' = NoThread /\ ~writer.committed))
<1> DEFINE root == header.root
           n == RightNode(writer.node)
           p == writer.right
           c == [id |-> writer.new, key |-> SplitKey(writer.node), right |-> writer.right]
<1>1. /\ writer.pc = "writeRight" /\ UNCHANGED <<header, version, active, pending, reader, puts>>
  BY DEF WriteRight
<1>2. writer.pc \in Places /\ writer.pc \in Upward
  BY <1>1 DEF Places, Upward
<1>3. FileOK(file) /\ WorkOK(file, root, writer) /\ IsTree(file, root) /\ writer \in Works(Ids(file))
  BY <1>2, Working
<1>4. /\ writer.node \in TreeNodes(Ids(file)) /\ CopyOK(file, writer) /\ At(writer) = "writeRight"
      /\ ~writer.committed
  BY <1>1, <1>2, <1>3, OnPath
<1>5. CASE TooLarge(n)
  <2>1. writer' = NoThread /\ file' = file
    BY <1>5 DEF WriteRight, PutRaises
  <2> QED BY <1>1, <1>2, <1>4, <2>1, RaiseStep
<1>6. CASE ~TooLarge(n)
  <2>1. file' = [file EXCEPT ![p] = n] /\ GoUp(c)
    BY <1>6 DEF WriteRight
  <2>2. n \in TreeNodes(Ids(file)) /\ p \in Ids(file)
    <3>1. ~SplitHasNoKey(Base(writer.node), EntrySizesOf(writer.node))
      BY <1>4 DEF CopyOK
    <3>2. p \in Ids(file) \cup {0}
      BY <1>3, WorkTypes
    <3> QED BY <1>4, <3>1, <3>2, SplitIs DEF CopyOK
  <2>3. Writes(file, p, n, file')
    BY <2>1, <2>2 DEF Writes, Ids
  <2> HIDE DEF n, p, root, c
  <2>5. /\ FileOK(file') /\ DOMAIN file' = DOMAIN file /\ file'[p] = n /\ file'[0] = file[0]
        /\ Keeps(file, file', Ids(file) \ HandPages) /\ IsTree(file', root)
        /\ WorkOK(file', root, writer) /\ HandOf(file', root, writer) = HandPages
    <3>1. p = IF writer.pc = "writeRight" THEN writer.right ELSE writer.new
      BY <1>1 DEF p
    <3> QED BY <1>1, <1>6, <2>2, <2>3, <3>1, CopyWrite DEF root
  <2>6. /\ IsChild(file', root, writer, c) /\ IsOnPath(file', root, writer)
        /\ Copies(file', c) \ ({0} \cup TreePages(file', root)) = HandPages
    <3>1. file'[writer.right] = RightNode(writer.node)
          /\ c = [id |-> writer.new, key |-> SplitKey(writer.node), right |-> writer.right]
      BY <2>5 DEF p, n, c
    <3> QED BY <1>1, <2>5, <3>1, HalvesAre
  <2>7. /\ WorkOK(file', root, writer') /\ writer'.pc \in {"allocate", "allocateRoot", "commitRoot"}
        /\ HandOf(file', root, writer') = HandPages
    BY <2>1, <2>5, <2>6, GoUpStep
  <2>8. writer'.pc \in Upward \cup {"commitRoot"}
    BY <2>7 DEF Upward
  <2> QED BY <1>1, <1>2, <2>5, <2>7, <2>8, CopyStep DEF root
<1> QED BY <1>5, <1>6

LEMMA WriteRootStep ==
  ASSUME CowInv, PV!PageInv, WriteRoot
  PROVE  CowInv' /\ (PV!Write \/ (PV!Raise /\ writer' = NoThread /\ ~writer.committed))
<1> DEFINE root == header.root
           n == writer.node
           p == writer.new
           c == Whole(p)
<1>1. /\ writer.pc = "writeRoot" /\ UNCHANGED <<header, version, active, pending, reader, puts>>
  BY DEF WriteRoot
<1>2. writer.pc \in Places /\ writer.pc \in Upward
  BY <1>1 DEF Places, Upward
<1>3. FileOK(file) /\ WorkOK(file, root, writer) /\ IsTree(file, root) /\ writer \in Works(Ids(file))
  BY <1>2, Working
<1>4. /\ n \in TreeNodes(Ids(file)) /\ CopyOK(file, writer) /\ At(writer) = "writeRoot" /\ ~writer.committed
  BY <1>1, <1>2, <1>3, OnPath
<1>5. CASE TooLarge(n)
  <2>1. writer' = NoThread /\ file' = file
    BY <1>5 DEF WriteRoot, PutRaises
  <2> QED BY <1>1, <1>2, <1>4, <2>1, RaiseStep
<1>6. CASE ~TooLarge(n)
  <2>1. file' = [file EXCEPT ![p] = n] /\ writer' = [writer EXCEPT !.pc = "commitRoot", !.node = Blank]
    BY <1>6 DEF WriteRoot
  <2>2. p \in Ids(file) /\ writer.above = <<>>
    <3>1. p \in Ids(file) \cup {0}
      BY <1>3, WorkTypes
    <3> QED BY <1>4, <3>1 DEF CopyOK
  <2>3. Writes(file, p, n, file')
    BY <2>1, <2>2 DEF Writes, Ids
  <2>4. writer' = ToCommit(writer, c) /\ c.key = None /\ writer'.pc = "commitRoot"
    <3>1. [writer EXCEPT !.pc = "commitRoot", !.node = Blank]
             = [writer EXCEPT !.pc = "commitRoot", !.node = Blank, !.new = writer.new]
      BY <1>3 DEF Works
    <3>2. c.id = writer.new /\ c.key = None
      BY DEF Whole
    <3>3. writer'.pc = "commitRoot"
      BY <1>3, <2>1 DEF Works
    <3> QED BY <2>1, <3>1, <3>2, <3>3 DEF ToCommit
  <2> HIDE DEF n, p, root, c
  <2>5. /\ FileOK(file') /\ DOMAIN file' = DOMAIN file /\ file'[p] = n /\ file'[0] = file[0]
        /\ Keeps(file, file', Ids(file) \ HandPages) /\ IsTree(file', root)
        /\ WorkOK(file', root, writer) /\ HandOf(file', root, writer) = HandPages
    <3>1. p = IF writer.pc = "writeRight" THEN writer.right ELSE writer.new
      BY <1>1 DEF p
    <3> QED BY <1>1, <1>4, <1>6, <2>3, <3>1, CopyWrite DEF root
  <2>6. /\ IsChild(file', root, writer, c) /\ IsOnPath(file', root, writer)
        /\ Copies(file', c) \ ({0} \cup TreePages(file', root)) = HandPages
    <3>1. file'[writer.new] = writer.node /\ c = Whole(writer.new)
      BY <2>5 DEF p, n, c
    <3> QED BY <1>1, <2>5, <3>1, WholeIs
  <2>7. WorkOK(file', root, writer') /\ HandOf(file', root, writer') = HandPages
    BY <2>2, <2>4, <2>5, <2>6, GoUpDone
  <2>8. writer'.pc \in Upward \cup {"commitRoot"}
    BY <2>4
  <2> QED BY <1>1, <1>2, <2>5, <2>7, <2>8, CopyStep DEF root
<1> QED BY <1>5, <1>6

-----------------------------------------------------------------------------
(* A page for a copy.                                                      *)

\* What AllocatePage gives to put.
LEMMA Allocated ==
  ASSUME CowInv, PV!PageInv, writer.pc \in {"allocate", "allocateRoot", "write"},
         NEW a, a = AllocatePage(file, header.head)
  PROVE  /\ FileOK(a.file) /\ DOMAIN file \subseteq DOMAIN a.file
         /\ DOMAIN a.file \subseteq DOMAIN file \cup {a.id}
         /\ a.id \in Ids(a.file) /\ a.head \in Ids(a.file) \cup {0}
         /\ a.file[0].kind = "header" /\ a.file[0].root = header.root /\ a.file[0].head = a.head
         /\ Keeps(file, a.file, Ids(file) \ FreePages)
         /\ ListOK(a.file, a.head) /\ ListOf(a.file, a.head) = FreePages \ {a.id}
         /\ a.id \in FreePages \cup (DOMAIN a.file \ DOMAIN file)
         /\ IsTree(a.file, header.root) /\ TreePages(a.file, header.root) = TreePages(file, header.root)
         /\ WorkOK(a.file, header.root, writer) /\ HandOf(a.file, header.root, writer) = HandPages
         /\ a.id \notin HandPages /\ a.id \notin TreePages(file, header.root)
         /\ Keeps(file, a.file, Relied(file, header.root, writer))
<1> DEFINE root == header.root
           h == header.head
<1>1. writer.pc \in Places /\ writer.pc \in Upward /\ writer.pc \notin {"addPage", "publishRoot", "publishHead"}
  BY DEF Places, Upward
<1>2. /\ FileOK(file) /\ WorkOK(file, root, writer) /\ IsTree(file, root)
      /\ HandPages = HandOf(file, root, writer) /\ h \in Ids(file) \cup {0}
      /\ file[0] \in Headers(Ids(file)) /\ file[0].root = root /\ file[0].head = h
      /\ ListOK(WithAdded, h) /\ FreePages = ListOf(WithAdded, h)
      /\ TreeInMemory = TreePages(file, root)
  BY <1>1, Working
<1>3. WithAdded = file
  BY <1>1 DEF WithAdded
<1> HIDE DEF root, h
<1>4. /\ FileOK(a.file) /\ DOMAIN file \subseteq DOMAIN a.file
      /\ DOMAIN a.file \subseteq DOMAIN file \cup {a.id}
      /\ a.id \in Ids(a.file) /\ a.head \in Ids(a.file) \cup {0}
      /\ a.file[0] \in Headers(Ids(a.file)) /\ a.file[0].root = root /\ a.file[0].head = a.head
      /\ Keeps(file, a.file, Ids(file) \ FreePages)
      /\ ListOK(a.file, a.head) /\ ListOf(a.file, a.head) = FreePages \ {a.id}
      /\ a.id \in FreePages \cup (DOMAIN a.file \ DOMAIN file)
  <2>1. a = AllocatePage(file, h)
    BY DEF h
  <2>2. ListOK(file, h) /\ FreePages = ListOf(file, h)
    BY <1>2, <1>3
  <2>3. FileOK(file) /\ h \in Ids(file) \cup {0} /\ file[0] \in Headers(Ids(file)) /\ file[0].head = h
    BY <1>2
  <2>4. /\ FileOK(a.file) /\ DOMAIN file \subseteq DOMAIN a.file
        /\ DOMAIN a.file \subseteq DOMAIN file \cup {a.id}
        /\ a.id \in Ids(a.file) /\ a.head \in Ids(a.file) \cup {0}
        /\ a.file[0] \in Headers(Ids(a.file)) /\ a.file[0].root = file[0].root
        /\ a.file[0].head = a.head
        /\ Keeps(file, a.file, Ids(file) \ ListOf(file, h))
        /\ ListOK(a.file, a.head) /\ ListOf(a.file, a.head) = ListOf(file, h) \ {a.id}
        /\ a.id \in ListOf(file, h) \cup (DOMAIN a.file \ DOMAIN file)
    BY <2>1, <2>2, <2>3, AllocateIs
  <2> QED BY <1>2, <2>2, <2>4
<1>5. /\ At(writer) = writer.pc /\ NodeOK(file, root, writer)
      /\ HandPages = ({writer.new, writer.right} \cup Subs(file, writer.node)) \ ({0} \cup TreePages(file, root))
  BY <1>1, <1>2, OnPath
<1>6. /\ TreePages(file, root) \subseteq Ids(file) /\ Subs(file, writer.node) \subseteq Ids(file)
      /\ HandPages \subseteq Ids(file)
  <2>1. TreePages(file, root) \subseteq Ids(file)
    BY <1>2, TreeBasics DEF IsTree
  <2>2. Subs(file, writer.node) \subseteq Ids(file)
    <3>1. \A k \in KidsOf(writer.node) : TreePages(file, k) \subseteq Ids(file)
      BY <1>2, <1>5, TreeBasics DEF NodeOK, AreTrees, IsTree
    <3> QED BY <3>1 DEF Subs
  <2>3. {writer.new, writer.right} \subseteq Ids(file) \cup {0}
    BY <1>2, WorkTypes DEF WorkOK
  <2> QED BY <1>5, <2>1, <2>2, <2>3
<1>7. (TreePages(file, root) \cup HandPages) \cap FreePages = {}
  BY <1>2, Apart
<1>8. Keeps(file, a.file, Relied(file, root, writer))
  <2>1. Relied(file, root, writer) \subseteq TreePages(file, root) \cup HandPages
    <3>1. At(writer) \notin {"commitRoot", "writeRight"}
      BY <1>5
    <3>2. 0 \notin Subs(file, writer.node)
      BY <1>6 DEF Ids
    <3> QED BY <1>5, <3>1, <3>2 DEF Relied
  <2> QED BY <1>4, <1>6, <1>7, <2>1 DEF Keeps
<1>9. /\ WorkOK(a.file, root, writer) /\ TreePages(a.file, root) = TreePages(file, root)
      /\ IsTree(a.file, root) /\ Subs(a.file, writer.node) = Subs(file, writer.node)
  BY <1>1, <1>2, <1>4, <1>5, <1>8, WorkKeeps
<1>10. HandOf(a.file, root, writer) = HandPages
  BY <1>2, <1>5, <1>9 DEF HandOf
<1>11. a.id \notin HandPages /\ a.id \notin TreePages(file, root)
  BY <1>4, <1>6, <1>7 DEF Ids
<1>12. a.file[0].kind = "header"
  BY <1>4, KindsDiffer
<1> QED BY <1>4, <1>8, <1>9, <1>10, <1>11, <1>12 DEF root

LEMMA AllocateStep ==
  ASSUME CowInv, PV!PageInv, writer.pc \in {"allocate", "allocateRoot", "write"},
         UNCHANGED <<version, active, pending, reader, puts>>,
         NEW a, a = AllocatePage(file, header.head), file' = a.file,
         header' = [header EXCEPT !.head = a.head],
         WorkOK(file', header.root, writer'), HandOf(file', header.root, writer') = HandPages \cup {a.id},
         writer'.pc \in {"sync", "write", "writeRoot", "writeLeft"}
  PROVE  CowInv' /\ PV!Allocate
<1>1. /\ FileOK(file') /\ DOMAIN file \subseteq DOMAIN file' /\ DOMAIN file' \subseteq DOMAIN file \cup {a.id}
      /\ a.id \in Ids(file') /\ a.head \in Ids(file') \cup {0}
      /\ file'[0].kind = "header" /\ file'[0].root = header.root /\ file'[0].head = a.head
      /\ Keeps(file, file', Ids(file) \ FreePages)
      /\ ListOK(file', a.head) /\ ListOf(file', a.head) = FreePages \ {a.id}
      /\ a.id \in FreePages \cup (DOMAIN file' \ DOMAIN file)
  BY Allocated
<1>2. /\ writer.pc \in Places /\ writer.pc \in Upward
      /\ writer.pc \notin {"publishRoot", "addPage", "publishHead", "closed", "commitWrite"}
      /\ writer'.pc \notin {"idle", "createHeader", "publishRoot", "addPage", "publishHead", "closed", "commitWrite"}
  BY DEF Places, Upward
<1>3. /\ FileOK(file) /\ IsOpen /\ header \in [root : Ids(file), head : Ids(file) \cup {0}]
      /\ file[0].kind = "header" /\ file[0].root = header.root
      /\ WorkOK(file, header.root, writer)
  BY <1>2, Working
<1>4. /\ header'.root = header.root /\ header'.head = a.head
      /\ header' \in [root : Ids(file'), head : Ids(file') \cup {0}]
  <2>1. header.root \in Ids(file')
    BY <1>1, <1>3 DEF Ids
  <2> QED BY <1>1, <1>3, <2>1
<1>5. IsOpen'
  BY <1>2 DEF IsOpen
<1>6. TreeInv' /\ UNCHANGED <<TreeInMemory, TreeInFile, ReadingPages>>
  <2>1. Keeps(file, file', Ids(file) \ (FreePages \cup HandPages))
    BY <1>1 DEF Keeps
  <2> QED BY <1>1, <1>2, <1>3, <1>4, <2>1, TreeInvStays
<1>7. WithAdded' = file' /\ MemHead' = a.head /\ SavedHead' = a.head
  BY <1>1, <1>2, <1>4 DEF WithAdded, MemHead, SavedHead
<1>8. ListInv' /\ FreePages' = FreePages \ {a.id}
  <2>1. a.head \in {0} \cup ListPages(file', a.head)
    BY <1>1, ListBasics
  <2>2. FreePages' = ListOf(file', a.head)
    BY <1>2, <1>4, <1>7 DEF FreePages, ListOf
  <2> QED BY <1>1, <1>2, <1>7, <2>1, <2>2 DEF ListInv, ListOK
<1>9. Retires(writer') => Retires(writer)
  <2>1. Retires(writer) <=> (writer.committed => writer.pc = "commitWrite")
    BY <1>2, RetiresIs
  <2>2. writer.committed = FALSE
    <3>1. ~writer.committed
      BY <1>2, <1>3, OnPath
    <3> QED BY <1>3, <3>1, WorkTypes DEF WorkOK
  <2> QED BY <2>1, <2>2
<1>10. CowInv'
  BY <1>1, <1>2, <1>3, <1>4, <1>5, <1>6, <1>8, <1>9, Assembled
<1>11. HandPages' = HandPages \cup {a.id}
  BY <1>2, <1>4, HandNextIs
<1>12. CommittedOrphans = {} /\ CommittedOrphans' = {}
  BY <1>2 DEF CommittedOrphans
<1>13. RetiredAs' = RetiredAs
  BY DEF RetiredAs, PendingPages
<1>14. PV!NewPages \subseteq {a.id} /\ PV!WritesTo(FreePages) /\ a.id \in FreePages \cup PV!NewPages
  BY <1>1 DEF PV!NewPages, PV!WritesTo, Keeps, Ids
<1> QED BY <1>6, <1>8, <1>10, <1>11, <1>12, <1>13, <1>14 DEF PV!Allocate

\* put goes on with the page, after a sync if the head has moved.
LEMMA GoOnIs ==
  ASSUME NEW P, NEW w \in Works(P), NEW a, NEW pc \in {"write", "writeRoot", "writeLeft"}, GoOn(w, a, pc)
  PROVE  /\ writer' \in Works(P) /\ writer'.pc \in {"sync", pc} /\ At(writer') = pc
         /\ writer'.pc = "sync" => writer'.then = pc
         /\ writer'.orphans = w.orphans /\ writer'.above = w.above /\ writer'.next = w.next
         /\ writer'.key = w.key /\ writer'.node = w.node /\ writer'.new = w.new
         /\ writer'.right = w.right /\ writer'.committed = w.committed /\ writer'.free = w.free
         /\ writer'.value = w.value
<1>1. CASE a.head = header.head
  <2>1. writer' = [w EXCEPT !.pc = pc]
    BY <1>1 DEF GoOn
  <2> QED BY <2>1 DEF Works, Places, At
<1>2. CASE a.head # header.head
  <2>1. writer' = [w EXCEPT !.pc = "sync", !.then = pc]
    BY <1>2 DEF GoOn
  <2> QED BY <2>1 DEF Works, Places, At
<1> QED BY <1>1, <1>2

LEMMA AllocateNodeStep ==
  ASSUME CowInv, PV!PageInv, AllocateNode
  PROVE  CowInv' /\ PV!Allocate
<1> DEFINE a == AllocatePage(file, header.head)
           root == header.root
           pc == IF writer.pc = "allocate" THEN "write" ELSE "writeRoot"
           w == [writer EXCEPT !.new = a.id]
<1>1. /\ writer.pc \in {"allocate", "allocateRoot"} /\ file' = a.file
      /\ header' = [header EXCEPT !.head = a.head] /\ GoOn(w, a, pc)
      /\ UNCHANGED <<version, active, pending, reader, puts>>
  BY DEF AllocateNode
<1>2. writer.pc \in Places /\ writer.pc \in Upward
  BY <1>1 DEF Places, Upward
<1>3. pc \in {"write", "writeRoot"}
  BY <1>1
<1> HIDE DEF a
<1>4. /\ FileOK(file') /\ a.id \in Ids(file') /\ IsTree(file', root)
      /\ WorkOK(file', root, writer) /\ HandOf(file', root, writer) = HandPages
      /\ a.id \notin HandPages /\ a.id \notin TreePages(file', root)
  BY <1>1, Allocated DEF a
<1>5. /\ writer \in Works(Ids(file')) /\ At(writer) = writer.pc /\ NodeOK(file', root, writer)
      /\ CopyOK(file', writer) /\ ~writer.committed /\ writer.free = <<>>
      /\ HandPages = ({writer.new, writer.right} \cup Subs(file', writer.node)) \ ({0} \cup TreePages(file', root))
  BY <1>2, <1>4, OnPath DEF WorkOK
<1>6. /\ w \in Works(Ids(file')) /\ w.orphans = writer.orphans /\ w.above = writer.above
      /\ w.key = writer.key /\ w.node = writer.node /\ w.new = a.id
      /\ w.right = writer.right /\ w.committed = writer.committed /\ w.free = writer.free
  BY <1>4, <1>5 DEF Works
<1> HIDE DEF w, pc
<1>7. /\ writer' \in Works(Ids(file')) /\ writer'.pc \in {"sync", pc} /\ At(writer') = pc
      /\ writer'.pc = "sync" => writer'.then = pc
      /\ writer'.orphans = writer.orphans /\ writer'.above = writer.above
      /\ writer'.key = writer.key /\ writer'.node = writer.node /\ writer'.new = a.id
      /\ writer'.right = writer.right /\ writer'.committed = writer.committed
      /\ writer'.free = writer.free
  <2>1. pc \in {"write", "writeRoot", "writeLeft"}
    BY <1>3
  <2>2. /\ writer' \in Works(Ids(file')) /\ writer'.pc \in {"sync", pc} /\ At(writer') = pc
        /\ writer'.pc = "sync" => writer'.then = pc
        /\ writer'.orphans = w.orphans /\ writer'.above = w.above /\ writer'.next = w.next
        /\ writer'.key = w.key /\ writer'.node = w.node /\ writer'.new = w.new
        /\ writer'.right = w.right /\ writer'.committed = w.committed /\ writer'.free = w.free
    BY <1>1, <1>6, <2>1, GoOnIs
  <2> QED BY <1>6, <2>2
<1>8. /\ writer.new \in {0} \cup Subs(file', writer.node) /\ writer.right \in {0} \cup Subs(file', writer.node)
      /\ (pc = "writeRoot" => writer.above = <<>>)
  BY <1>1, <1>5 DEF CopyOK, pc
<1>9. a.id # 0 /\ a.id \notin Subs(file', writer.node)
  BY <1>4, <1>5 DEF Ids
<1>10. NodeOK(file', root, writer') /\ CopyOK(file', writer')
  <2>1. NodeOK(file', root, writer')
    BY <1>4, <1>5, <1>7 DEF NodeOK
  <2> QED BY <1>3, <1>7, <1>8, <1>9, <2>1 DEF CopyOK
<1>11. WorkOK(file', root, writer')
  <2>1. Distinct(writer.free) /\ Distinct(writer.orphans)
    BY <1>4 DEF WorkOK
  <2> QED BY <1>3, <1>5, <1>7, <1>10, <2>1 DEF WorkOK, Upward, Downward, Behind
<1>12. HandOf(file', root, writer') = HandPages \cup {a.id}
  <2>1. HandOf(file', root, writer') =
          ({a.id, writer.right} \cup Subs(file', writer.node)) \ ({0} \cup TreePages(file', root))
    BY <1>3, <1>5, <1>7 DEF HandOf, ToSet
  <2> QED BY <1>4, <1>5, <1>8, <1>9, <2>1
<1>13. writer'.pc \in {"sync", "write", "writeRoot", "writeLeft"} /\ writer.pc \in {"allocate", "allocateRoot", "write"}
  BY <1>1, <1>3, <1>7
<1>14. a = AllocatePage(file, header.head)
  BY DEF a
<1> QED BY <1>1, <1>11, <1>12, <1>13, <1>14, AllocateStep

LEMMA SplitNodeStep ==
  ASSUME CowInv, PV!PageInv, SplitNode
  PROVE  CowInv' /\ (PV!Allocate \/ (PV!Raise /\ writer' = NoThread /\ ~writer.committed))
<1> DEFINE a == AllocatePage(file, header.head)
           root == header.root
           w == [writer EXCEPT !.right = a.id]
           noKey == SplitHasNoKey(Base(writer.node), EntrySizesOf(writer.node))
<1>1. writer.pc = "write" /\ UNCHANGED <<version, active, pending, reader, puts>>
  BY DEF SplitNode
<1>2. writer.pc \in Places /\ writer.pc \in Upward
  BY <1>1 DEF Places, Upward
<1>3. CASE noKey
  <2>1. writer' = NoThread /\ UNCHANGED <<file, header>>
    BY <1>3 DEF SplitNode, PutRaises
  <2>2. ~writer.committed
    BY <1>2, Working, OnPath
  <2> QED BY <1>1, <1>2, <2>1, <2>2, RaiseStep
<1>4. CASE ~noKey
  <2>1. file' = a.file /\ header' = [header EXCEPT !.head = a.head] /\ GoOn(w, a, "writeLeft")
    BY <1>4 DEF SplitNode
  <2> HIDE DEF a
  <2>4. /\ FileOK(file') /\ a.id \in Ids(file') /\ IsTree(file', root)
        /\ WorkOK(file', root, writer) /\ HandOf(file', root, writer) = HandPages
        /\ a.id \notin HandPages /\ a.id \notin TreePages(file', root)
    BY <1>1, <2>1, Allocated DEF a
  <2>5. /\ writer \in Works(Ids(file')) /\ At(writer) = "write" /\ NodeOK(file', root, writer)
        /\ CopyOK(file', writer) /\ ~writer.committed /\ writer.free = <<>>
        /\ HandPages = ({writer.new, writer.right} \cup Subs(file', writer.node)) \ ({0} \cup TreePages(file', root))
    BY <1>1, <1>2, <2>4, OnPath DEF WorkOK
  <2>6. /\ w \in Works(Ids(file')) /\ w.orphans = writer.orphans /\ w.above = writer.above
        /\ w.key = writer.key /\ w.node = writer.node /\ w.new = writer.new
        /\ w.right = a.id /\ w.committed = writer.committed /\ w.free = writer.free
    BY <2>4, <2>5 DEF Works
  <2> HIDE DEF w
  <2>7. /\ writer' \in Works(Ids(file')) /\ writer'.pc \in {"sync", "writeLeft"} /\ At(writer') = "writeLeft"
        /\ writer'.pc = "sync" => writer'.then = "writeLeft"
        /\ writer'.orphans = writer.orphans /\ writer'.above = writer.above
        /\ writer'.key = writer.key /\ writer'.node = writer.node /\ writer'.new = writer.new
        /\ writer'.right = a.id /\ writer'.committed = writer.committed
        /\ writer'.free = writer.free
    <3>1. /\ writer' \in Works(Ids(file')) /\ writer'.pc \in {"sync", "writeLeft"} /\ At(writer') = "writeLeft"
          /\ writer'.pc = "sync" => writer'.then = "writeLeft"
          /\ writer'.orphans = w.orphans /\ writer'.above = w.above /\ writer'.next = w.next
          /\ writer'.key = w.key /\ writer'.node = w.node /\ writer'.new = w.new
          /\ writer'.right = w.right /\ writer'.committed = w.committed /\ writer'.free = w.free
      BY <2>1, <2>6, GoOnIs
    <3> QED BY <2>6, <3>1
  <2>8. /\ writer.right \in {0} \cup Subs(file', writer.node)
        /\ writer.new # 0 /\ writer.new \notin Subs(file', writer.node)
    BY <2>5 DEF CopyOK
  <2>9. a.id # 0 /\ a.id \notin Subs(file', writer.node) /\ a.id # writer.new
    <3>1. writer.new \notin TreePages(file', root)
      BY <2>5 DEF NodeOK
    <3> QED BY <2>4, <2>5, <2>8, <3>1 DEF Ids
  <2>10. NodeOK(file', root, writer') /\ CopyOK(file', writer')
    <3>1. NodeOK(file', root, writer')
      BY <2>4, <2>5, <2>7 DEF NodeOK
    <3> QED BY <1>4, <2>7, <2>8, <2>9, <3>1 DEF CopyOK
  <2>11. WorkOK(file', root, writer')
    <3>1. Distinct(writer.free) /\ Distinct(writer.orphans)
      BY <2>4 DEF WorkOK
    <3> QED BY <2>5, <2>7, <2>10, <3>1 DEF WorkOK, Upward, Downward, Behind
  <2>12. HandOf(file', root, writer') = HandPages \cup {a.id}
    <3>1. HandOf(file', root, writer') =
            ({writer.new, a.id} \cup Subs(file', writer.node)) \ ({0} \cup TreePages(file', root))
      BY <2>5, <2>7 DEF HandOf, ToSet
    <3> QED BY <2>4, <2>5, <2>8, <2>9, <3>1
  <2>13. a = AllocatePage(file, header.head)
    BY DEF a
  <2>14. writer'.pc \in {"sync", "write", "writeRoot", "writeLeft"} /\ writer.pc \in {"allocate", "allocateRoot", "write"}
    BY <1>1, <2>7
  <2> QED BY <1>1, <2>1, <2>11, <2>12, <2>13, <2>14, AllocateStep
<1> QED BY <1>3, <1>4

-----------------------------------------------------------------------------
(* The commit.                                                             *)

LEMMA CommitRootStep ==
  ASSUME CowInv, PV!PageInv, CommitRoot
  PROVE  CowInv' /\ PV!Commit
<1> DEFINE old == header.root
           root == writer.new
<1>1. /\ writer.pc = "commitRoot" /\ header' = [header EXCEPT !.root = root]
      /\ writer' = [writer EXCEPT !.pc = "publishRoot"]
      /\ UNCHANGED <<file, version, active, pending, reader, puts>>
  BY DEF CommitRoot
<1>2. writer.pc \in Places
  BY <1>1 DEF Places
<1>3. /\ FileOK(file) /\ IsOpen /\ WorkOK(file, old, writer) /\ writer \in Works(Ids(file))
      /\ header \in [root : Ids(file), head : Ids(file) \cup {0}]
      /\ file[0].kind = "header" /\ file[0].root = old /\ file[0].head = header.head
      /\ IsTree(file, old) /\ TreeInMemory = TreePages(file, old) /\ TreeInFile = TreePages(file, old)
      /\ HandPages = HandOf(file, old, writer)
  BY <1>1, <1>2, Working
<1>4. At(writer) = "commitRoot" /\ DoneOK(file, old, writer) /\ writer.free = <<>> /\ ~writer.committed
  BY <1>1, <1>3 DEF WorkOK, At, Behind
<1>5. /\ writer.node = Blank /\ root # 0 /\ IsTree(file, root) /\ root \in Ids(file)
      /\ TreePages(file, old) \ TreePages(file, root) = ToSet(writer.orphans)
      /\ root \in TreePages(file, root) /\ writer.right \in {0} \cup TreePages(file, root)
  <2>1. IsTree(file, root) /\ root \in Ids(file)
    BY <1>4 DEF DoneOK, IsTree
  <2> QED BY <1>3, <1>4, <2>1, TreeBasics DEF DoneOK
<1>6. HandPages = TreePages(file, root) \ ({0} \cup TreePages(file, old))
  BY <1>3, <1>4, <1>5, NoSubs DEF HandOf, ToSet
<1>7. /\ writer' \in Works(Ids(file)) /\ writer'.pc = "publishRoot" /\ writer'.free = writer.free
      /\ writer'.orphans = writer.orphans /\ writer'.node = writer.node /\ writer'.new = writer.new
      /\ writer'.right = writer.right /\ writer'.committed = writer.committed
  BY <1>1, <1>3 DEF Works, Places
<1> HIDE DEF root, old
<1>8. header'.root = root /\ header'.head = header.head
      /\ header' \in [root : Ids(file'), head : Ids(file') \cup {0}]
  BY <1>1, <1>3, <1>5
<1>9. WorkOK(file, root, writer') /\ At(writer') = "publishRoot"
  <2>1. At(writer') = "publishRoot"
    BY <1>7 DEF At
  <2>2. Distinct(writer.free) /\ Distinct(writer.orphans)
    BY <1>3 DEF WorkOK
  <2>3. {writer'.new, writer'.right} \subseteq {0} \cup TreePages(file, root)
    BY <1>5, <1>7 DEF root
  <2> QED BY <1>4, <1>5, <1>7, <2>1, <2>2, <2>3 DEF WorkOK, Upward, Downward, Behind
<1>10. HandPages' = {}
  <2>1. HandPages' = HandOf(file, root, writer')
    BY <1>1, <1>7, <1>8, HandNextIs
  <2>2. {writer'.new, writer'.right} \subseteq {0} \cup TreePages(file, root)
    BY <1>5, <1>7 DEF root
  <2> QED BY <1>4, <1>5, <1>7, <1>9, <2>1, <2>2, NoSubs DEF HandOf, ToSet
<1>11. IsOpen' /\ writer'.pc \notin {"closed", "idle", "createHeader", "addPage", "publishHead", "commitWrite"}
  BY <1>7 DEF IsOpen
<1>12. TreeInv'
  BY <1>1, <1>5, <1>8 DEF CowInv, TreeInv
<1>13. TreeInMemory' = TreePages(file, root) /\ UNCHANGED <<TreeInFile, ReadingPages>>
  BY <1>1, <1>8, <1>11 DEF TreeInMemory, TreeInFile, ReadingPages
<1>14. WithAdded' = WithAdded /\ MemHead' = MemHead /\ SavedHead' = SavedHead /\ FreePages' = FreePages
  BY <1>1, <1>8, <1>11 DEF WithAdded, MemHead, SavedHead, FreePages
<1>15. ListInv'
  BY <1>1, <1>11, <1>14 DEF CowInv, ListInv
<1>16. Retires(writer') => Retires(writer)
  BY <1>2, <1>4, RetiresIs
<1>17. CowInv'
  BY <1>1, <1>3, <1>7, <1>8, <1>9, <1>11, <1>12, <1>15, <1>16, Assembled
<1>18. CommittedOrphans = {} /\ CommittedOrphans' = ToSet(writer.orphans)
  BY <1>1, <1>7 DEF CommittedOrphans
<1>19. RetiredAs' = RetiredAs
  BY <1>1 DEF RetiredAs, PendingPages
<1>20. 0 \notin TreePages(file, root)
  BY <1>3, <1>5, TreeBasics DEF Ids
<1> QED BY <1>1, <1>3, <1>5, <1>6, <1>10, <1>13, <1>14, <1>17, <1>18, <1>19, <1>20 DEF PV!Commit

LEMMA PublishRootStep ==
  ASSUME CowInv, PV!PageInv, PublishRoot
  PROVE  CowInv' /\ PV!Publish
<1> DEFINE root == header.root
           new == Header(root, file[0].head)
<1>1. /\ writer.pc = "publishRoot" /\ file' = [file EXCEPT ![0].root = root]
      /\ writer' = [writer EXCEPT !.pc = "commitWrite", !.committed = TRUE]
      /\ UNCHANGED <<header, version, active, pending, reader, puts>>
  BY DEF PublishRoot
<1>2. writer.pc \in Places
  BY <1>1 DEF Places
<1>3. /\ FileOK(file) /\ IsOpen /\ WorkOK(file, root, writer) /\ writer \in Works(Ids(file))
      /\ header \in [root : Ids(file), head : Ids(file) \cup {0}]
      /\ 0 \in DOMAIN file /\ file[0] \in Headers(Ids(file))
      /\ file[0].kind = "header" /\ file[0].head = header.head
      /\ IsTree(file, root) /\ TreeInMemory = TreePages(file, root)
      /\ HandPages = HandOf(file, root, writer)
  BY <1>1, <1>2, Working
<1>4. new \in Headers(Ids(file)) /\ Writes(file, 0, new, file')
  <2>1. file[0] = [kind |-> "header", root |-> file[0].root, head |-> file[0].head]
        /\ file[0].head \in Ids(file) \cup {0}
    BY <1>3 DEF Headers
  <2>2. [file[0] EXCEPT !.root = root] = new
    BY <2>1 DEF Header
  <2>3. file' = [file EXCEPT ![0] = new]
    BY <1>1, <2>2
  <2>4. root \in Ids(file)
    BY <1>3
  <2> QED BY <1>3, <2>1, <2>3, <2>4 DEF Header, Headers, Writes
<1>5. /\ FileOK(file') /\ DOMAIN file' = DOMAIN file /\ Ids(file') = Ids(file)
      /\ file'[0].kind = "header" /\ file'[0].root = root /\ file'[0].head = file[0].head
      /\ \A q \in Ids(file) : file'[q] = file[q]
  <2>1. /\ FileOK(file') /\ DOMAIN file' = DOMAIN file /\ Ids(file') = Ids(file)
        /\ file'[0] = new /\ \A q \in Ids(file) : file'[q] = file[q]
    BY <1>3, <1>4, WriteHeaderIs
  <2> QED BY <2>1 DEF Header
<1> HIDE DEF root, new
<1>6. At(writer) = "publishRoot" /\ writer.free = <<>> /\ writer.node = Blank
      /\ {writer.new, writer.right} \subseteq {0} \cup TreePages(file, root)
  BY <1>1, <1>3 DEF WorkOK, At
<1>7. /\ writer' \in Works(Ids(file)) /\ writer'.pc = "commitWrite" /\ writer'.free = writer.free
      /\ writer'.orphans = writer.orphans /\ writer'.node = writer.node /\ writer'.new = writer.new
      /\ writer'.right = writer.right /\ writer'.committed /\ At(writer') = "commitWrite"
  <2>1. /\ writer' \in Works(Ids(file)) /\ writer'.pc = "commitWrite" /\ writer'.free = writer.free
        /\ writer'.orphans = writer.orphans /\ writer'.node = writer.node /\ writer'.new = writer.new
        /\ writer'.right = writer.right /\ writer'.committed
    BY <1>1, <1>3 DEF Works, Places
  <2> QED BY <2>1 DEF At
<1>8. Keeps(file, file', Ids(file))
  BY <1>5 DEF Keeps, Ids
<1>9. /\ \A c : IsTree(file, c) => IsTree(file', c) /\ TreePages(file', c) = TreePages(file, c)
  <2> SUFFICES ASSUME NEW c, IsTree(file, c) PROVE IsTree(file', c) /\ TreePages(file', c) = TreePages(file, c)
    OBVIOUS
  <2>1. TreePages(file, c) \subseteq Ids(file)
    BY <1>3, TreeBasics DEF IsTree
  <2>2. Keeps(file, file', TreePages(file, c))
    BY <1>8, <2>1 DEF Keeps
  <2> QED BY <1>3, <1>5, <2>2, TreeKeeps
<1>10. WorkOK(file', root, writer')
  <2>1. {writer'.new, writer'.right} \subseteq {0} \cup TreePages(file', root)
    BY <1>3, <1>6, <1>7, <1>9
  <2>2. Distinct(writer.free) /\ Distinct(writer.orphans)
    BY <1>3 DEF WorkOK
  <2> QED BY <1>5, <1>6, <1>7, <2>1, <2>2 DEF WorkOK, Upward, Downward, Behind
<1>11. writer.pc # "closed" /\ IsOpen'
       /\ writer'.pc \notin {"closed", "idle", "createHeader", "addPage", "publishHead", "publishRoot"}
  BY <1>1, <1>7 DEF IsOpen
<1>12. TreeInv'
  BY <1>1, <1>3, <1>5, <1>9 DEF CowInv, TreeInv, root
<1>13. TreeInMemory' = TreeInMemory /\ TreeInFile' = TreeInMemory
  BY <1>1, <1>3, <1>5, <1>9, <1>11 DEF TreeInMemory, TreeInFile, root
<1>14. ReadingPages' = ReadingPages
  <2>1. \A r \in Reader : reader[r].pc = "walking" => TreePages(file', reader[r].page) = TreePages(file, reader[r].page)
    BY <1>9 DEF CowInv, TreeInv
  <2> QED BY <1>1, <2>1 DEF ReadingPages
<1>15. ListInv' /\ FreePages' = FreePages
  <2>1. Keeps(file, file', Ids(file) \ HandPages)
    BY <1>8 DEF Keeps
  <2> QED BY <1>1, <1>3, <1>5, <1>11, <2>1, ListInvStays
<1>16. Retires(writer') => Retires(writer)
  <2>1. writer.committed = FALSE
    <3>1. ~writer.committed
      BY <1>3, <1>6 DEF WorkOK, Behind
    <3> QED BY <1>3, <3>1, WorkTypes
  <2> QED BY <1>2, <2>1, RetiresIs
<1>17. CowInv'
  <2>1. header' \in [root : Ids(file'), head : Ids(file') \cup {0}] /\ DOMAIN file \subseteq DOMAIN file'
    BY <1>1, <1>3, <1>5
  <2>2. file'[0].root = header'.root /\ file'[0].head = header'.head /\ WorkOK(file', header'.root, writer')
    BY <1>1, <1>3, <1>5, <1>10 DEF root
  <2> QED BY <1>1, <1>3, <1>5, <1>11, <1>12, <1>15, <1>16, <2>1, <2>2, Assembled
<1>18. HandPages = {}
  BY <1>3, <1>6, NoSubs DEF HandOf, ToSet
<1>19. HandPages' = {}
  <2>1. HandPages' = HandOf(file', root, writer')
    BY <1>1, <1>7, HandNextIs DEF root
  <2> QED BY <1>5, <1>6, <1>7, <1>10, <2>1, HandIsFree DEF ToSet
<1>20. CommittedOrphans' = CommittedOrphans
  BY <1>1, <1>7 DEF CommittedOrphans
<1>21. RetiredAs' = RetiredAs
  BY <1>1 DEF RetiredAs, PendingPages
<1>22. PV!NewPages = {} /\ PV!WritesTo({})
  BY <1>5 DEF PV!NewPages, PV!WritesTo, Ids
<1> QED BY <1>1, <1>13, <1>14, <1>15, <1>17, <1>18, <1>19, <1>20, <1>21, <1>22 DEF PV!Publish

LEMMA CommitWriteStep ==
  ASSUME CowInv, PV!PageInv, CommitWrite
  PROVE  CowInv' /\ PV!Retire
<1> DEFINE root == header.root
<1>1. /\ writer.pc = "commitWrite"
      /\ pending' = [v \in DOMAIN pending \cup {version} |->
                        IF v = version THEN writer.orphans ELSE pending[v]]
      /\ version' = version + 1 /\ writer' = [writer EXCEPT !.pc = "reclaim"]
      /\ UNCHANGED <<file, header, active, reader, puts>>
  BY DEF CommitWrite
<1>2. writer.pc \in Places
  BY <1>1 DEF Places
<1>3. /\ FileOK(file) /\ IsOpen /\ WorkOK(file, root, writer) /\ writer \in Works(Ids(file))
      /\ file[0].kind = "header" /\ file[0].root = root /\ file[0].head = header.head
      /\ TreeInMemory = TreePages(file, root) /\ TreeInFile = TreePages(file, root)
      /\ HandPages = HandOf(file, root, writer)
  BY <1>1, <1>2, Working
<1>4. At(writer) = "commitWrite" /\ writer.free = <<>> /\ writer.committed
  BY <1>1, <1>3 DEF WorkOK, At
<1>5. /\ writer' \in Works(Ids(file)) /\ writer'.pc = "reclaim" /\ writer'.free = writer.free
      /\ writer'.orphans = writer.orphans /\ writer'.node = writer.node /\ writer'.new = writer.new
      /\ writer'.right = writer.right /\ writer'.committed = writer.committed
      /\ At(writer') = "reclaim"
  <2>1. /\ writer' \in Works(Ids(file)) /\ writer'.pc = "reclaim" /\ writer'.free = writer.free
        /\ writer'.orphans = writer.orphans /\ writer'.node = writer.node /\ writer'.new = writer.new
        /\ writer'.right = writer.right /\ writer'.committed = writer.committed
    BY <1>1, <1>3 DEF Works, Places
  <2> QED BY <2>1 DEF At
<1> HIDE DEF root
<1>6. WorkOK(file, root, writer') /\ IsOpen'
  BY <1>3, <1>4, <1>5 DEF WorkOK, Upward, Downward, Behind, IsOpen
<1>7. HandPages = {} /\ HandPages' = {}
  <2>1. HandPages' = HandOf(file, root, writer')
    BY <1>1, <1>5, HandNextIs DEF root
  <2>2. HandOf(file, root, writer) = ToSet(writer.free)
    BY <1>3, <1>4, HandIsFree
  <2>3. HandOf(file, root, writer') = ToSet(writer'.free)
    BY <1>3, <1>4, <1>5, <1>6, HandIsFree
  <2> QED BY <1>3, <1>4, <1>5, <2>1, <2>2, <2>3 DEF ToSet
<1>8. /\ HeaderInv /\ TreeInv /\ ListInv /\ TrackerInv /\ ReaderInv /\ FileOK(file)
  BY DEF CowInv
<1>9. HeaderInv'
  BY <1>1, <1>3, <1>5, <1>8 DEF HeaderInv, IsOpen, root
<1>10. TreeInv' /\ UNCHANGED <<TreeInMemory, TreeInFile, ReadingPages>>
  BY <1>1, <1>5, <1>8 DEF TreeInv, TreeInMemory, TreeInFile, ReadingPages
<1>11. WithAdded' = WithAdded /\ MemHead' = MemHead /\ SavedHead' = SavedHead /\ FreePages' = FreePages
  BY <1>1, <1>5 DEF WithAdded, MemHead, SavedHead, FreePages
<1>12. ListInv'
  BY <1>1, <1>5, <1>8, <1>11 DEF ListInv
<1>13. WriterInv'
  BY <1>1, <1>6 DEF WriterInv, root
<1>14. ReaderInv'
  BY <1>1, <1>3, <1>6, <1>8 DEF ReaderInv
<1>15. /\ version \in Nat /\ PendingOK(pending, version, Ids(file)) /\ version < puts /\ puts \in Nat
       /\ puts <= MaxPuts
  <2>1. Retires(writer)
    BY <1>1, <1>2, RetiresIs
  <2> QED BY <1>8, <2>1, LengthAssumption DEF TrackerInv
<1>16. /\ writer.orphans \in Seq(Ids(file)) /\ Distinct(writer.orphans)
       /\ CommittedOrphans = ToSet(writer.orphans) /\ ToSet(writer.orphans) \cap PendingPages = {}
  <2>1. CommittedOrphans = ToSet(writer.orphans)
    BY <1>1 DEF CommittedOrphans
  <2>2. CommittedOrphans \cap PendingPages = {}
    BY Apart
  <2> QED BY <1>3, <2>1, <2>2, WorkTypes DEF WorkOK
<1>17. /\ DOMAIN pending' = DOMAIN pending \cup {version} /\ version \notin DOMAIN pending
       /\ pending'[version] = writer.orphans /\ \A v \in DOMAIN pending : pending'[v] = pending[v]
  BY <1>1, <1>15 DEF PendingOK
<1>18. PendingOK(pending', version + 1, Ids(file))
  <2>1. \A v \in DOMAIN pending : ToSet(pending[v]) \cap ToSet(writer.orphans) = {}
    BY <1>16 DEF PendingPages
  <2>2. DOMAIN pending' \subseteq 0 .. version + 1 - 1
    BY <1>15, <1>17 DEF PendingOK
  <2> QED BY <1>15, <1>16, <1>17, <2>1, <2>2 DEF PendingOK
<1>19. TrackerInv'
  <2>1. ~Retires(writer')
    BY <1>4, <1>5 DEF Retires
  <2> QED BY <1>1, <1>8, <1>15, <1>18, <2>1 DEF TrackerInv
<1>20. CowInv'
  BY <1>1, <1>8, <1>9, <1>10, <1>12, <1>13, <1>14, <1>19 DEF CowInv
<1>21. RetiredAs = ByPage(pending) /\ RetiredAs' = ByPage(pending')
  BY DEF RetiredAs, ByPage, PagesOf, PendingPages
<1>22. PagesOf(pending') = PagesOf(pending) \cup ToSet(writer.orphans)
  BY <1>17 DEF PagesOf
<1>23. RetiredAs' = [p \in DOMAIN RetiredAs \cup CommittedOrphans |->
                        IF p \in CommittedOrphans THEN version ELSE RetiredAs[p]]
  <2>1. DOMAIN ByPage(pending') = DOMAIN ByPage(pending) \cup ToSet(writer.orphans)
    BY <1>22 DEF ByPage
  <2>2. ASSUME NEW p \in DOMAIN ByPage(pending')
        PROVE  ByPage(pending')[p] = IF p \in ToSet(writer.orphans) THEN version ELSE ByPage(pending)[p]
    <3>1. CASE p \in ToSet(writer.orphans)
      <4>1. version \in DOMAIN pending' /\ p \in ToSet(pending'[version])
        BY <1>17, <3>1
      <4>2. ByPage(pending')[p] = version
        BY <1>18, <4>1, ByPageIs
      <4> QED BY <3>1, <4>2
    <3>2. CASE p \notin ToSet(writer.orphans)
      <4>1. PICK v \in DOMAIN pending : p \in ToSet(pending[v])
        BY <2>1, <3>2 DEF ByPage, PagesOf
      <4>2. ByPage(pending)[p] = v
        BY <1>15, <4>1, ByPageIs
      <4>3. v \in DOMAIN pending' /\ p \in ToSet(pending'[v])
        BY <1>17, <4>1
      <4>4. ByPage(pending')[p] = v
        BY <1>18, <4>3, ByPageIs
      <4> QED BY <3>2, <4>2, <4>4
    <3> QED BY <3>1, <3>2
  <2>3. ByPage(pending') = [p \in DOMAIN ByPage(pending') |-> ByPage(pending')[p]]
    BY DEF ByPage
  <2> QED BY <1>16, <1>21, <2>1, <2>2, <2>3
<1>24. CommittedOrphans' = {}
  BY <1>5 DEF CommittedOrphans
<1> QED BY <1>1, <1>3, <1>7, <1>10, <1>11, <1>20, <1>23, <1>24 DEF PV!Retire

-----------------------------------------------------------------------------
(* Opening and crashing.                                                   *)

\* What the file holds without a process.
LEMMA ClosedIs ==
  ASSUME CowInv, writer.pc = "closed"
  PROVE  /\ writer = [pc |-> "closed"] /\ header = [root |-> 0, head |-> 0]
         /\ FileOK(file) /\ WithAdded = file /\ ListOK(file, SavedHead) /\ MemHead = SavedHead
         /\ SavedHead \in Ids(file) \cup {0} /\ FreePages = ListOf(file, SavedHead)
         /\ \A r \in Reader : reader[r] = NoThread /\ active[r] = None
         /\ TreeInMemory = TreeInFile /\ HandPages = {} /\ CommittedOrphans = {}
         /\ file[0].kind = "header" => IsTree(file, file[0].root) /\ file[0] \in Headers(Ids(file))
<1>1. WriterInv /\ HeaderInv /\ TreeInv /\ ListInv /\ ReaderInv /\ FileOK(file)
  BY DEF CowInv
<1>2. writer = [pc |-> "closed"]
  BY <1>1, Situation
<1>3. WithAdded = file /\ MemHead = SavedHead /\ SavedHead \in Ids(file) \cup {0}
      /\ FreePages = ListOf(WithAdded, MemHead)
  BY AddedIs DEF MemHead
<1>4. \A r \in Reader : reader[r] = NoThread /\ active[r] = None
  BY <1>1 DEF ReaderInv, IsOpen
<1>5. TreeInMemory = TreeInFile /\ HandPages = {} /\ CommittedOrphans = {}
  BY DEF TreeInMemory, HandPages, CommittedOrphans
<1>6. file[0].kind = "header" => IsTree(file, file[0].root) /\ file[0] \in Headers(Ids(file))
  BY <1>1, KindOf, FileSizeIs DEF TreeInv
<1> QED BY <1>1, <1>2, <1>3, <1>4, <1>5, <1>6 DEF HeaderInv, ListInv

LEMMA OpenTreeStep ==
  ASSUME CowInv, PV!PageInv, OpenTree
  PROVE  CowInv' /\ UNCHANGED PV!vars
<1>1. /\ writer.pc = "closed" /\ file[0].kind = "header"
      /\ header' = [root |-> file[0].root, head |-> file[0].head] /\ writer' = NoThread
      /\ UNCHANGED <<file, version, active, pending, reader, puts>>
  BY DEF OpenTree
<1>2. /\ FileOK(file) /\ WithAdded = file /\ ListOK(file, SavedHead) /\ SavedHead \in Ids(file) \cup {0}
      /\ FreePages = ListOf(file, SavedHead) /\ (\A r \in Reader : reader[r] = NoThread)
      /\ TreeInMemory = TreeInFile /\ HandPages = {} /\ CommittedOrphans = {}
      /\ IsTree(file, file[0].root) /\ file[0] \in Headers(Ids(file)) /\ MemHead = SavedHead
  BY <1>1, ClosedIs
<1>3. writer'.pc = "idle" /\ IsOpen'
  BY <1>1 DEF IsOpen, NoThread
<1>4. HeaderInv'
  BY <1>1, <1>2, <1>3 DEF HeaderInv, Headers
<1>5. TreeInv' /\ UNCHANGED <<TreeInMemory, TreeInFile, ReadingPages>>
  BY <1>1, <1>2, <1>3 DEF TreeInv, TreeInMemory, TreeInFile, ReadingPages, CowInv
<1>6. WithAdded' = file /\ SavedHead' = SavedHead /\ MemHead' = SavedHead
  BY <1>1, <1>2, <1>3 DEF WithAdded, SavedHead, MemHead
<1>7. ListInv' /\ FreePages' = FreePages
  <2>1. FreePages' = ListOf(WithAdded', MemHead')
    BY <1>3 DEF FreePages, ListOf, MemHead
  <2> QED BY <1>1, <1>2, <1>3, <1>6, <2>1 DEF ListInv, CowInv
<1>8. WriterInv'
  BY <1>1 DEF WriterInv, NoWork
<1>9. TrackerInv'
  <2>1. ~Retires(writer')
    BY <1>1 DEF Retires, NoWork
  <2> QED BY <1>1, <2>1 DEF TrackerInv, CowInv
<1>10. ReaderInv'
  BY <1>1, <1>3 DEF ReaderInv, CowInv
<1>11. CowInv'
  BY <1>1, <1>2, <1>4, <1>5, <1>7, <1>8, <1>9, <1>10 DEF CowInv
<1>12. HandPages' = {} /\ CommittedOrphans' = {}
  BY <1>3 DEF HandPages, CommittedOrphans
<1>13. RetiredAs' = RetiredAs
  BY <1>1 DEF RetiredAs, PendingPages
<1> QED BY <1>1, <1>2, <1>5, <1>7, <1>11, <1>12, <1>13 DEF PV!vars

LEMMA CreateRootStep ==
  ASSUME CowInv, PV!PageInv, CreateRoot
  PROVE  CowInv' /\ PV!Create
<1> DEFINE n == FileSize(file)
           leaf == Leaf(<<>>, <<>>)
           G == GrowFile(file)
<1>1. /\ writer.pc = "closed" /\ file[0].kind = "blank" /\ file' = [G EXCEPT ![n] = leaf]
      /\ header' = [root |-> n, head |-> 0] /\ writer' = [pc |-> "createHeader"]
      /\ UNCHANGED <<version, active, pending, reader, puts>>
  BY DEF CreateRoot
<1>2. /\ FileOK(file) /\ WithAdded = file /\ FreePages = ListOf(file, SavedHead)
      /\ (\A r \in Reader : reader[r] = NoThread)
      /\ TreeInMemory = TreeInFile /\ HandPages = {} /\ CommittedOrphans = {}
  BY <1>1, ClosedIs
<1>3. SavedHead = 0 /\ TreeInFile = {} /\ FreePages = {} /\ 0 \in DOMAIN file
  <2>1. SavedHead = 0 /\ TreeInFile = {}
    BY <1>1 DEF SavedHead, TreeInFile
  <2> QED BY <1>2, <2>1, ListOfNone, FileSizeIs DEF ListOf
<1>4. /\ FileOK(G) /\ DOMAIN G = DOMAIN file \cup {n} /\ Ids(G) = Ids(file) \cup {n}
      /\ n \notin Ids(file) /\ (\A p \in DOMAIN file : G[p] = file[p])
      /\ n \notin DOMAIN file /\ n # 0
  BY <1>2, GrowIs, FileSizeIs
<1>5. leaf \in LeafNodes /\ ~TooLarge(leaf) /\ leaf.kind = "leaf"
  BY EmptyLeafFits DEF Leaf
<1> HIDE DEF n, G, leaf
<1>6. Writes(G, n, leaf, file')
  BY <1>1, <1>4 DEF Writes
<1>7. /\ FileOK(file') /\ DOMAIN file' = DOMAIN file \cup {n} /\ Ids(file') = Ids(file) \cup {n}
      /\ file'[n] = leaf /\ \A q \in DOMAIN file : file'[q] = file[q]
  <2>1. \/ leaf \in TreeNodes(Ids(G)) /\ ~TooLarge(leaf)
        \/ leaf \in FreeLists(Ids(G)) /\ leaf.id = n
    BY <1>5 DEF TreeNodes
  <2>2. FileOK(G) /\ n \in Ids(G)
    BY <1>4
  <2>3. FileOK(file') /\ DOMAIN file' = DOMAIN G /\ Ids(file') = Ids(G)
        /\ file'[n] = leaf /\ \A q \in DOMAIN G \ {n} : file'[q] = G[q]
    BY <1>6, <2>1, <2>2, WriteIs
  <2> QED BY <1>4, <2>3
<1>8. file'[0] = Blank /\ file'[0].kind = "blank"
  <2>1. file[0] = Blank
    BY <1>1, <1>2, <1>3, KindOf
  <2> QED BY <1>1, <1>3, <1>7, <2>1
<1>9. IsTree(file', n) /\ TreePages(file', n) = {n}
  <2>1. n \in Ids(file') /\ file'[n].kind = "leaf"
    BY <1>5, <1>7
  <2>2. Kids(file', n) = {}
    BY <1>7, <2>1, KidsAre
  <2>3. IsTree(file', n)
    BY <1>7, <2>1, <2>2, TreeAbove
  <2>4. TreePages(file', n) = {n} \cup UNION {TreePages(file', k) : k \in Kids(file', n)}
    BY <1>7, <2>1, TreeSplits
  <2> QED BY <2>2, <2>3, <2>4
<1>10. header'.root = n /\ header'.head = 0 /\ writer'.pc = "createHeader" /\ ~IsOpen'
  BY <1>1 DEF IsOpen
<1>11. HeaderInv'
  BY <1>1, <1>7, <1>8, <1>10 DEF HeaderInv
<1>12. TreeInv'
  <2>1. \A r \in Reader : reader'[r].pc # "walking"
    BY <1>1, <1>2 DEF NoThread
  <2> QED BY <1>8, <1>9, <1>10, <2>1 DEF TreeInv
<1>13. TreeInMemory' = {n} /\ TreeInFile' = {}
  BY <1>8, <1>9, <1>10 DEF TreeInMemory, TreeInFile
<1>14. ReadingPages' = ReadingPages
  BY <1>1, <1>2 DEF ReadingPages, NoThread
<1>15. WithAdded' = file' /\ SavedHead' = 0 /\ MemHead' = 0
  BY <1>8, <1>10 DEF WithAdded, SavedHead, MemHead
<1>16. ListInv' /\ FreePages' = {}
  <2>1. FreePages' = ListOf(WithAdded', MemHead')
    BY <1>10 DEF FreePages, ListOf, MemHead
  <2>2. ListPages(file', 0) = {} /\ FreeIds(file', 0) = {} /\ ListOK(file', 0)
    BY <1>7, ListOfNone
  <2> QED BY <1>10, <1>15, <2>1, <2>2 DEF ListInv, ListOf, ListOK
<1>17. WriterInv'
  BY <1>1 DEF WriterInv, NoWork
<1>18. Ids(file) \subseteq Ids(file')
  BY <1>7
<1>19. TrackerInv'
  <2>1. ~Retires(writer')
    BY <1>1 DEF Retires, NoWork
  <2>2. Seq(Ids(file)) \subseteq Seq(Ids(file'))
    BY <1>18, SeqMonotonic
  <2>3. PendingOK(pending, version, Ids(file'))
    BY <2>2 DEF CowInv, TrackerInv, PendingOK
  <2> QED BY <1>1, <2>1, <2>3 DEF TrackerInv, CowInv
<1>20. ReaderInv'
  <2>1. Threads(Ids(file)) \subseteq Threads(Ids(file'))
    BY <1>18 DEF Threads
  <2> QED BY <1>1, <1>2, <2>1 DEF ReaderInv, CowInv
<1>21. CowInv'
  BY <1>7, <1>11, <1>12, <1>16, <1>17, <1>19, <1>20 DEF CowInv
<1>22. HandPages' = {} /\ CommittedOrphans' = {}
  BY <1>10 DEF HandPages, CommittedOrphans
<1>23. RetiredAs' = RetiredAs
  BY <1>1 DEF RetiredAs, PendingPages
<1>24. PV!NewPages = {n} /\ PV!WritesTo({})
  BY <1>4, <1>7 DEF PV!NewPages, PV!WritesTo
<1> QED BY <1>1, <1>2, <1>3, <1>13, <1>14, <1>16, <1>21, <1>22, <1>23, <1>24 DEF PV!Create, PV!Kept

LEMMA CreateHeaderStep ==
  ASSUME CowInv, PV!PageInv, CreateHeader
  PROVE  CowInv' /\ PV!Publish
<1> DEFINE root == header.root
           new == Header(root, header.head)
<1>1. /\ writer.pc = "createHeader" /\ file' = [file EXCEPT ![0] = new] /\ writer' = NoThread
      /\ UNCHANGED <<header, version, active, pending, reader, puts>>
  BY DEF CreateHeader
<1>2. /\ FileOK(file) /\ HeaderInv /\ TreeInv /\ ListInv /\ TrackerInv /\ ReaderInv
      /\ header \in [root : Ids(file), head : Ids(file) \cup {0}] /\ header.head = 0 /\ file[0] = Blank
      /\ IsTree(file, root) /\ 0 \in DOMAIN file
      /\ \A r \in Reader : reader[r] = NoThread
  <2>1. FileOK(file) /\ HeaderInv /\ TreeInv /\ ListInv /\ TrackerInv /\ ReaderInv
    BY DEF CowInv
  <2> QED BY <1>1, <2>1, FileSizeIs DEF HeaderInv, TreeInv, ReaderInv, IsOpen
<1>3. new \in Headers(Ids(file)) /\ Writes(file, 0, new, file')
  BY <1>1, <1>2 DEF Header, Headers, Writes
<1>4. /\ FileOK(file') /\ DOMAIN file' = DOMAIN file /\ Ids(file') = Ids(file)
      /\ file'[0].kind = "header" /\ file'[0].root = root /\ file'[0].head = 0
      /\ \A q \in Ids(file) : file'[q] = file[q]
  <2>1. /\ FileOK(file') /\ DOMAIN file' = DOMAIN file /\ Ids(file') = Ids(file)
        /\ file'[0] = new /\ \A q \in Ids(file) : file'[q] = file[q]
    BY <1>2, <1>3, WriteHeaderIs
  <2> QED BY <1>2, <2>1 DEF Header
<1> HIDE DEF new, root
<1>5. IsTree(file', root) /\ TreePages(file', root) = TreePages(file, root)
  <2>1. TreePages(file, root) \subseteq Ids(file)
    BY <1>2, TreeBasics DEF IsTree
  <2>2. Keeps(file, file', TreePages(file, root))
    BY <1>4, <2>1 DEF Keeps, Ids
  <2> QED BY <1>2, <1>4, <2>2, TreeKeeps
<1>6. writer'.pc = "idle" /\ IsOpen'
  BY <1>1 DEF NoThread, IsOpen
<1>7. HeaderInv'
  BY <1>1, <1>2, <1>4, <1>6 DEF HeaderInv, root
<1>8. \A r \in Reader : reader'[r].pc # "walking"
  BY <1>1, <1>2 DEF NoThread
<1>9. TreeInv'
  BY <1>1, <1>4, <1>5, <1>8 DEF TreeInv, root
<1>10. TreeInMemory = TreePages(file, root) /\ TreeInMemory' = TreeInMemory /\ TreeInFile' = TreeInMemory
  BY <1>1, <1>4, <1>5, <1>6 DEF TreeInMemory, TreeInFile, root
<1>11. ReadingPages' = ReadingPages
  BY <1>1, <1>2 DEF ReadingPages, NoThread
<1>12. WithAdded' = file' /\ SavedHead' = 0 /\ MemHead' = 0 /\ WithAdded = file /\ MemHead = 0
  BY <1>1, <1>2, <1>4, <1>6 DEF WithAdded, SavedHead, MemHead
<1>13. ListInv' /\ FreePages' = FreePages
  <2>1. FreePages' = ListOf(WithAdded', MemHead')
    BY <1>6 DEF FreePages, ListOf, MemHead
  <2>2. FreePages = ListOf(WithAdded, MemHead)
    BY AddedIs
  <2>3. ListPages(file', 0) = {} /\ FreeIds(file', 0) = {} /\ ListOK(file', 0)
    BY <1>4, ListOfNone
  <2>4. ListPages(file, 0) = {} /\ FreeIds(file, 0) = {}
    BY <1>2, ListOfNone
  <2> QED BY <1>6, <1>12, <2>1, <2>2, <2>3, <2>4 DEF ListInv, ListOf, ListOK
<1>14. WriterInv'
  BY <1>1 DEF WriterInv, NoWork
<1>15. TrackerInv'
  <2>1. ~Retires(writer')
    BY <1>1 DEF Retires, NoWork
  <2> QED BY <1>1, <1>2, <1>4, <2>1 DEF TrackerInv
<1>16. ReaderInv'
  BY <1>1, <1>2, <1>4, <1>6 DEF ReaderInv
<1>17. CowInv'
  BY <1>4, <1>7, <1>9, <1>13, <1>14, <1>15, <1>16 DEF CowInv
<1>18. HandPages = {} /\ HandPages' = {} /\ CommittedOrphans = {} /\ CommittedOrphans' = {}
  BY <1>1, <1>6 DEF HandPages, CommittedOrphans
<1>19. RetiredAs' = RetiredAs
  BY <1>1 DEF RetiredAs, PendingPages
<1>20. PV!NewPages = {} /\ PV!WritesTo({})
  BY <1>4 DEF PV!NewPages, PV!WritesTo, Ids
<1> QED BY <1>1, <1>10, <1>11, <1>13, <1>17, <1>18, <1>19, <1>20 DEF PV!Publish

\* The list that the file names is part of the list in memory.
LEMMA SavedListIs ==
  ASSUME CowInv
  PROVE  /\ ListOK(file, SavedHead) /\ ListOf(file, SavedHead) \subseteq FreePages
         /\ SavedHead \in Ids(file) \cup {0}
<1>1. /\ FileOK(WithAdded) /\ DOMAIN WithAdded = DOMAIN file /\ Ids(WithAdded) = Ids(file)
      /\ IsBehind(file, WithAdded) /\ FreePages = ListOf(WithAdded, MemHead)
      /\ MemHead \in Ids(file) \cup {0} /\ SavedHead \in Ids(file) \cup {0}
  BY AddedIs
<1>2. /\ FileOK(file) /\ ListOK(WithAdded, MemHead) /\ IsList(file, SavedHead)
      /\ SavedHead \in {0} \cup ListPages(WithAdded, MemHead)
  BY DEF CowInv, ListInv
<1>3. ListOK(WithAdded, SavedHead) /\ ListOf(WithAdded, SavedHead) \subseteq FreePages
  BY <1>1, <1>2, SubList
<1>4. /\ ListPages(file, SavedHead) \subseteq ListPages(WithAdded, SavedHead)
      /\ FreeIds(file, SavedHead) \subseteq FreeIds(WithAdded, SavedHead)
      /\ IdsAreApart(WithAdded, SavedHead) => IdsAreApart(file, SavedHead)
  BY <1>1, <1>2, BehindIs
<1> QED BY <1>1, <1>2, <1>3, <1>4 DEF ListOK, ListOf

LEMMA CrashStep ==
  ASSUME CowInv, PV!PageInv, Crash
  PROVE  CowInv' /\ PV!Crash
<1>1. /\ header' = [root |-> 0, head |-> 0]
      /\ version' = 0 /\ active' = [r \in Reader |-> None] /\ pending' = NonePending
      /\ writer' = [pc |-> "closed"] /\ reader' = [r \in Reader |-> NoThread]
      /\ UNCHANGED <<file, puts>>
  BY DEF Crash
<1>2. /\ FileOK(file) /\ TreeInv /\ TrackerInv
      /\ ListOK(file, SavedHead) /\ ListOf(file, SavedHead) \subseteq FreePages
      /\ SavedHead \in Ids(file) \cup {0}
  BY SavedListIs DEF CowInv
<1>3. writer'.pc = "closed" /\ ~IsOpen' /\ SavedHead' = SavedHead /\ MemHead' = SavedHead
      /\ WithAdded' = file
  BY <1>1 DEF IsOpen, SavedHead, MemHead, WithAdded
<1>4. HeaderInv'
  BY <1>1, <1>3 DEF HeaderInv
<1>5. TreeInv'
  <2>1. \A r \in Reader : reader'[r].pc # "walking"
    BY <1>1 DEF NoThread
  <2> QED BY <1>1, <1>2, <1>3, <2>1 DEF TreeInv
<1>6. ListInv'
  <2>1. SavedHead \in {0} \cup ListPages(file, SavedHead)
    BY <1>2, ListBasics
  <2> QED BY <1>1, <1>2, <1>3, <2>1 DEF ListInv, ListOK
<1>7. WriterInv'
  BY <1>1 DEF WriterInv, NoWork
<1>8. TrackerInv'
  <2>1. ~Retires(writer')
    BY <1>1 DEF Retires, NoWork
  <2>2. PendingOK(pending', version', Ids(file'))
    <3>1. DOMAIN pending' = {}
      BY <1>1 DEF NonePending
    <3> QED BY <3>1 DEF PendingOK
  <2>3. puts \in Nat
    BY <1>2, LengthAssumption DEF TrackerInv
  <2> QED BY <1>1, <1>2, <2>1, <2>2, <2>3 DEF TrackerInv
<1>9. ReaderInv'
  BY <1>1, <1>3 DEF ReaderInv, Threads
<1>10. CowInv'
  BY <1>1, <1>2, <1>4, <1>5, <1>6, <1>7, <1>8, <1>9 DEF CowInv
<1>11. TreeInFile' = TreeInFile /\ TreeInMemory' = TreeInFile
  BY <1>1, <1>3 DEF TreeInMemory, TreeInFile
<1>12. FreePages' \subseteq FreePages
  <2>1. FreePages' = ListOf(WithAdded', MemHead')
    BY <1>3 DEF FreePages, ListOf, MemHead, SavedHead
  <2> QED BY <1>2, <1>3, <2>1
<1>13. HandPages' = {} /\ CommittedOrphans' = {}
  BY <1>3 DEF HandPages, CommittedOrphans
<1>14. RetiredAs' = [p \in {} |-> 0]
  <2>1. PendingPages' = {}
    BY <1>1 DEF PendingPages, NonePending
  <2> QED BY <2>1 DEF RetiredAs
<1>15. ReadingPages' = [r \in Reader |-> {}]
  BY <1>1 DEF ReadingPages, NoThread
<1> QED BY <1>1, <1>10, <1>11, <1>12, <1>13, <1>14, <1>15 DEF PV!Crash

-----------------------------------------------------------------------------
(* Gets.                                                                   *)

LEMMA GetStays ==
  ASSUME CowInv, IsOpen, UNCHANGED <<file, header, version, pending, writer, puts>>,
         reader' \in [Reader -> Threads(Ids(file))],
         \A r \in Reader : (active'[r] = None) <=> (reader'[r] = NoThread),
         \A r \in Reader : reader'[r].pc = "walking" => IsTree(file, reader'[r].page)
  PROVE  /\ CowInv'
         /\ UNCHANGED <<TreeInMemory, TreeInFile, FreePages, HandPages, CommittedOrphans, RetiredAs>>
<1>1. /\ FileOK(file) /\ HeaderInv /\ TreeInv /\ ListInv /\ WriterInv /\ TrackerInv
  BY DEF CowInv
<1>2. IsOpen'
  BY DEF IsOpen
<1>3. HeaderInv'
  BY <1>1 DEF HeaderInv, IsOpen
<1>4. TreeInv'
  BY <1>1 DEF TreeInv
<1>5. WithAdded' = WithAdded /\ MemHead' = MemHead /\ SavedHead' = SavedHead
  BY DEF WithAdded, MemHead, SavedHead
<1>6. ListInv'
  BY <1>1, <1>5 DEF ListInv
<1>7. WriterInv' /\ TrackerInv'
  BY <1>1 DEF WriterInv, TrackerInv
<1>8. ReaderInv'
  BY <1>2 DEF ReaderInv
<1>9. UNCHANGED <<TreeInMemory, TreeInFile, FreePages, HandPages, CommittedOrphans, RetiredAs>>
  <2>1. TreeInFile' = TreeInFile
    BY DEF TreeInFile
  <2>2. TreeInMemory' = TreeInMemory
    BY <2>1 DEF TreeInMemory
  <2>3. HandPages' = HandPages
    BY <2>2 DEF HandPages, PutIsAt
  <2> QED BY <1>5, <2>1, <2>2, <2>3 DEF FreePages, CommittedOrphans, RetiredAs, PendingPages
<1> QED BY <1>1, <1>3, <1>4, <1>6, <1>7, <1>8, <1>9 DEF CowInv

LEMMA GetTypes ==
  ASSUME CowInv, PV!PageInv, NEW r \in Reader, reader[r] # NoThread
  PROVE  /\ IsOpen /\ reader \in [Reader -> Threads(Ids(file))] /\ active[r] # None
         /\ active \in [Reader -> Nat \cup {None}]
         /\ \A q \in Reader : (active[q] = None) <=> (reader[q] = NoThread)
         /\ \A q \in Reader : reader[q].pc = "walking" => IsTree(file, reader[q].page)
  BY DEF CowInv, ReaderInv, TreeInv, PV!PageInv, PV!VersionTypes

LEMMA BeginReadStep ==
  ASSUME CowInv, PV!PageInv, NEW r \in Reader, NEW k \in Key, BeginRead(r, k)
  PROVE  CowInv' /\ PV!Pin(r)
<1>1. /\ IsOpen /\ reader[r] = NoThread /\ active' = [active EXCEPT ![r] = version]
      /\ reader' = [reader EXCEPT ![r] = [pc |-> "begun", key |-> k]]
      /\ UNCHANGED <<file, header, version, pending, writer, puts>>
  BY DEF BeginRead
<1>2. /\ reader \in [Reader -> Threads(Ids(file))] /\ active \in [Reader -> Nat \cup {None}]
      /\ (\A q \in Reader : (active[q] = None) <=> (reader[q] = NoThread))
      /\ (\A q \in Reader : reader[q].pc = "walking" => IsTree(file, reader[q].page))
      /\ version \in Nat
  BY DEF CowInv, ReaderInv, TreeInv, PV!PageInv, PV!VersionTypes
<1>3. reader' \in [Reader -> Threads(Ids(file))]
  BY <1>1, <1>2 DEF Threads
<1>4. active'[r] # None /\ reader'[r] # NoThread /\ reader'[r].pc = "begun"
  BY <1>1, <1>2, KeyAssumption DEF NoThread
<1>5. \A q \in Reader : q # r => active'[q] = active[q] /\ reader'[q] = reader[q]
  BY <1>1, <1>2
<1>6. /\ CowInv'
      /\ UNCHANGED <<TreeInMemory, TreeInFile, FreePages, HandPages, CommittedOrphans, RetiredAs>>
  <2>1. \A q \in Reader : (active'[q] = None) <=> (reader'[q] = NoThread)
    BY <1>2, <1>4, <1>5
  <2>2. \A q \in Reader : reader'[q].pc = "walking" => IsTree(file, reader'[q].page)
    BY <1>2, <1>4, <1>5
  <2> QED BY <1>1, <1>3, <2>1, <2>2, GetStays
<1>7. ReadingPages' = ReadingPages
  <2>1. \A q \in Reader : reader[q].pc = "walking" <=> reader'[q].pc = "walking"
    BY <1>1, <1>4, <1>5 DEF NoThread
  <2>2. \A q \in Reader : reader[q].pc = "walking" => reader'[q] = reader[q]
    BY <1>1, <1>5 DEF NoThread
  <2> QED BY <1>1, <2>1, <2>2 DEF ReadingPages
<1> QED BY <1>1, <1>2, <1>6, <1>7 DEF PV!Pin

LEMMA ReadRootStep ==
  ASSUME CowInv, PV!PageInv, NEW r \in Reader, ReadRoot(r)
  PROVE  CowInv' /\ PV!ReadRoot(r)
<1> DEFINE root == header.root
<1>1. /\ reader[r].pc = "begun" /\ UNCHANGED <<file, header, version, active, pending, writer, puts>>
      /\ reader' = [reader EXCEPT ![r] = [pc |-> "walking", key |-> reader[r].key, page |-> root]]
  BY DEF ReadRoot
<1>2. /\ IsOpen /\ reader \in [Reader -> Threads(Ids(file))] /\ active[r] # None
      /\ (\A q \in Reader : (active[q] = None) <=> (reader[q] = NoThread))
      /\ (\A q \in Reader : reader[q].pc = "walking" => IsTree(file, reader[q].page))
  BY <1>1, GetTypes DEF NoThread
<1>3. IsTree(file, root) /\ root \in Ids(file) /\ TreeInMemory = TreePages(file, root)
  <2>1. writer.pc # "closed"
    BY <1>2 DEF IsOpen
  <2> QED BY <2>1 DEF CowInv, TreeInv, IsTree, TreeInMemory
<1>4. reader[r].key \in Key
  <2>1. reader[r] \in Threads(Ids(file))
    BY <1>2
  <2> QED BY <1>1, <2>1 DEF Threads, NoThread
<1> HIDE DEF root
<1>5. reader' \in [Reader -> Threads(Ids(file))]
  BY <1>1, <1>2, <1>3, <1>4 DEF Threads
<1>6. reader'[r] # NoThread /\ reader'[r].pc = "walking" /\ reader'[r].page = root
  BY <1>1, <1>2 DEF NoThread
<1>7. \A q \in Reader : q # r => reader'[q] = reader[q]
  BY <1>1, <1>2
<1>8. /\ CowInv'
      /\ UNCHANGED <<TreeInMemory, TreeInFile, FreePages, HandPages, CommittedOrphans, RetiredAs>>
  <2>1. \A q \in Reader : (active'[q] = None) <=> (reader'[q] = NoThread)
    BY <1>1, <1>2, <1>6, <1>7
  <2>2. \A q \in Reader : reader'[q].pc = "walking" => IsTree(file, reader'[q].page)
    BY <1>2, <1>3, <1>6, <1>7
  <2> QED BY <1>1, <1>2, <1>5, <2>1, <2>2, GetStays
<1>9. ReadingPages[r] = {} /\ ReadingPages' = [ReadingPages EXCEPT ![r] = TreeInMemory]
  <2>1. ReadingPages[r] = {} /\ ReadingPages'[r] = TreeInMemory
    BY <1>1, <1>3, <1>6 DEF ReadingPages
  <2>2. \A q \in Reader : q # r => ReadingPages'[q] = ReadingPages[q]
    BY <1>1, <1>7 DEF ReadingPages
  <2>3. ReadingPages = [q \in Reader |-> ReadingPages[q]] /\ ReadingPages' = [q \in Reader |-> ReadingPages'[q]]
    BY DEF ReadingPages
  <2> QED BY <2>1, <2>2, <2>3
<1> QED BY <1>1, <1>2, <1>8, <1>9 DEF PV!ReadRoot

\* A leaf has a value for every key.
LEMMA ValueIs ==
  ASSUME NEW n \in LeafNodes, NEW k
  PROVE  ValueIn(n, k) \in Value \cup {None}
<1> DEFINE below == {i \in DOMAIN n.keys : n.keys[i] < k}
<1>1. n.keys \in Seq(Key) /\ n.values \in Seq(Value) /\ Len(n.values) = Len(n.keys)
  BY DEF LeafNodes
<1>2. CASE \E i \in DOMAIN n.keys : n.keys[i] = k
  <2>1. PICK i \in DOMAIN n.keys : n.keys[i] = k
    BY <1>2
  <2>2. k \in Nat /\ Len(n.keys) \in Nat /\ DOMAIN n.keys = 1 .. Len(n.keys)
    <3> DEFINE keys == n.keys
    <3>1. keys \in Seq(Key) /\ i \in DOMAIN keys /\ keys[i] = k
      BY <1>1, <2>1
    <3> HIDE DEF keys
    <3>2. i \in 1 .. Len(keys) /\ Len(keys) \in Nat /\ DOMAIN keys = 1 .. Len(keys)
      BY <3>1
    <3>3. keys[i] \in Key
      BY <3>1, <3>2, ElementOfSeq
    <3>4. k \in Nat
      BY <3>1, <3>3, KeyAssumption
    <3> QED BY <3>2, <3>4 DEF keys
  <2> DEFINE m == Len(n.keys)
             all == 1 .. m
             others == all \ {i}
  <2>3. below \in SUBSET others /\ i \in all /\ m \in Nat
    <3>1. i \notin below
      BY <2>1, <2>2
    <3> QED BY <2>1, <2>2, <3>1
  <2> HIDE DEF below, m
  <2>4. IsFiniteSet(all) /\ Cardinality(all) = m
    <3>1. IsFiniteSet(1 .. m) /\ Cardinality(1 .. m) = IF 1 > m THEN 0 ELSE m - 1 + 1
      BY <2>3, FS_Interval
    <3> QED BY <2>3, <3>1
  <2> HIDE DEF all
  <2>5. IsFiniteSet(others) /\ Cardinality(others) = m - 1
    BY <2>3, <2>4, FS_RemoveElement
  <2> HIDE DEF others
  <2>9. Cardinality(below) \in Nat /\ Cardinality(below) <= Cardinality(others)
    BY <2>3, <2>5, FS_Subset, FS_CardinalityType
  <2>6. Cardinality(below) \in Nat /\ Cardinality(below) <= m - 1
    BY <2>5, <2>9
  <2>7. BisectLeft(n.keys, k) + 1 \in 1 .. Len(n.values)
    BY <1>1, <2>3, <2>6 DEF BisectLeft, below, m
  <2>8. n.values[BisectLeft(n.keys, k) + 1] \in Value
    BY <1>1, <2>7, ElementOfSeq
  <2> QED BY <1>2, <2>8 DEF ValueIn
<1> QED BY <1>2 DEF ValueIn

LEMMA WalkStep ==
  ASSUME CowInv, PV!PageInv, NEW r \in Reader, Walk(r)
  PROVE  CowInv' /\ PV!Walk(r)
<1> DEFINE p == reader[r].page
           n == ReadPage(file, p)
           k == reader[r].key
           next == ChildFor(n, k)
<1>1. /\ reader[r].pc = "walking" /\ UNCHANGED <<file, header, version, active, pending, writer, puts>>
  BY DEF Walk
<1>2. /\ IsOpen /\ reader \in [Reader -> Threads(Ids(file))] /\ active[r] # None
      /\ (\A q \in Reader : (active[q] = None) <=> (reader[q] = NoThread))
      /\ (\A q \in Reader : reader[q].pc = "walking" => IsTree(file, reader[q].page))
  BY <1>1, GetTypes DEF NoThread
<1>3. /\ reader[r] = [pc |-> "walking", key |-> k, page |-> p] /\ k \in Key /\ p \in Ids(file)
  <2>1. reader[r] \in Threads(Ids(file))
    BY <1>2
  <2> QED BY <1>1, <2>1 DEF Threads, NoThread
<1>4. FileOK(file) /\ IsTree(file, p) /\ n = file[p] /\ n.kind \in {"leaf", "internal"} /\ p \in DOMAIN file
      /\ p \in TreePages(file, p)
  <2>1. FileOK(file) /\ IsTree(file, p)
    BY <1>1, <1>2 DEF CowInv
  <2>2. p \in TreePages(file, p)
    BY <1>3, <2>1, TreeBasics
  <2> QED BY <1>3, <2>1, <2>2 DEF IsTree, ReadPage, Ids
<1>5. reader' = [reader EXCEPT ![r] =
                    IF n.kind = "internal" THEN [reader[r] EXCEPT !.page = next]
                    ELSE [pc |-> "found", value |-> IF n.kind = "leaf" THEN ValueIn(n, k) ELSE "corrupt"]]
  BY DEF Walk
<1> HIDE DEF n, next, p, k
<1>6. /\ reader'[r] \in Threads(Ids(file)) /\ reader'[r] # NoThread
      /\ reader'[r].pc = "walking" => IsTree(file, reader'[r].page)
      /\ ReadingPages'[r] \subseteq ReadingPages[r]
  <2>1. CASE n.kind = "internal"
    <3>1. reader'[r] = [pc |-> "walking", key |-> k, page |-> next]
      BY <1>2, <1>3, <1>5, <2>1
    <3>2. n \in InternalNodes(Ids(file)) /\ Children(file, p) = n.children
      BY <1>4, <2>1, KindOf, KidsAre
    <3>3. next \in Ids(file) /\ next \in Kids(file, p)
      BY <3>2, ChildForIs DEF Kids, next
    <3>4. IsTree(file, next) /\ TreePages(file, next) \subseteq TreePages(file, p)
      BY <1>4, <3>3, TreeBelow
    <3>5. ReadingPages[r] = TreePages(file, p) /\ ReadingPages'[r] = TreePages(file, next)
      BY <1>1, <3>1 DEF ReadingPages, p
    <3>6. reader'[r] \in Threads(Ids(file)) /\ reader'[r] # NoThread
      BY <1>3, <3>1, <3>3 DEF Threads, NoThread
    <3> QED BY <3>1, <3>4, <3>5, <3>6
  <2>2. CASE n.kind = "leaf"
    <3>1. reader'[r] = [pc |-> "found", value |-> ValueIn(n, k)]
      BY <1>2, <1>5, <2>2
    <3>2. n \in LeafNodes
      BY <1>4, <2>2, KindOf
    <3>3. ValueIn(n, k) \in Value \cup {None}
      BY <3>2, ValueIs
    <3>4. ReadingPages'[r] = {}
      BY <3>1 DEF ReadingPages
    <3> QED BY <3>1, <3>3, <3>4 DEF Threads, NoThread
  <2> QED BY <1>4, <2>1, <2>2
<1>7. \A q \in Reader : q # r => reader'[q] = reader[q]
  BY <1>2, <1>5
<1>8. reader' \in [Reader -> Threads(Ids(file))]
  <2>1. reader' = [q \in Reader |-> reader'[q]]
    BY <1>2, <1>5
  <2>2. \A q \in Reader : reader'[q] \in Threads(Ids(file))
    BY <1>2, <1>6, <1>7
  <2> QED BY <2>1, <2>2
<1>9. /\ CowInv'
      /\ UNCHANGED <<TreeInMemory, TreeInFile, FreePages, HandPages, CommittedOrphans, RetiredAs>>
  <2>1. \A q \in Reader : (active'[q] = None) <=> (reader'[q] = NoThread)
    BY <1>1, <1>2, <1>6, <1>7
  <2>2. \A q \in Reader : reader'[q].pc = "walking" => IsTree(file, reader'[q].page)
    BY <1>2, <1>6, <1>7
  <2> QED BY <1>1, <1>2, <1>8, <2>1, <2>2, GetStays
<1>10. ReadingPages' = [ReadingPages EXCEPT ![r] = ReadingPages'[r]]
  <2>1. \A q \in Reader : q # r => ReadingPages'[q] = ReadingPages[q]
    BY <1>1, <1>7 DEF ReadingPages
  <2>2. ReadingPages = [q \in Reader |-> ReadingPages[q]] /\ ReadingPages' = [q \in Reader |-> ReadingPages'[q]]
    BY DEF ReadingPages
  <2> QED BY <2>1, <2>2
<1> QED BY <1>1, <1>6, <1>9, <1>10 DEF PV!Walk

LEMMA EndReadStep ==
  ASSUME CowInv, PV!PageInv, NEW r \in Reader, EndRead(r)
  PROVE  CowInv' /\ PV!Unpin(r)
<1>1. /\ reader[r].pc = "found" /\ active' = [active EXCEPT ![r] = None]
      /\ reader' = [reader EXCEPT ![r] = NoThread]
      /\ UNCHANGED <<file, header, version, pending, writer, puts>>
  BY DEF EndRead
<1>2. /\ IsOpen /\ reader \in [Reader -> Threads(Ids(file))] /\ active \in [Reader -> Nat \cup {None}]
      /\ (\A q \in Reader : (active[q] = None) <=> (reader[q] = NoThread))
      /\ (\A q \in Reader : reader[q].pc = "walking" => IsTree(file, reader[q].page))
  BY <1>1, GetTypes DEF NoThread
<1>3. reader' \in [Reader -> Threads(Ids(file))]
  BY <1>1, <1>2 DEF Threads
<1>4. active'[r] = None /\ reader'[r] = NoThread /\ reader'[r].pc = "idle"
  BY <1>1, <1>2 DEF NoThread
<1>5. \A q \in Reader : q # r => active'[q] = active[q] /\ reader'[q] = reader[q]
  BY <1>1, <1>2
<1>6. /\ CowInv'
      /\ UNCHANGED <<TreeInMemory, TreeInFile, FreePages, HandPages, CommittedOrphans, RetiredAs>>
  <2>1. \A q \in Reader : (active'[q] = None) <=> (reader'[q] = NoThread)
    BY <1>2, <1>4, <1>5
  <2>2. \A q \in Reader : reader'[q].pc = "walking" => IsTree(file, reader'[q].page)
    BY <1>2, <1>4, <1>5
  <2> QED BY <1>1, <1>2, <1>3, <2>1, <2>2, GetStays
<1>7. ReadingPages' = [ReadingPages EXCEPT ![r] = {}]
  <2>1. ReadingPages'[r] = {}
    BY <1>4 DEF ReadingPages
  <2>2. \A q \in Reader : q # r => ReadingPages'[q] = ReadingPages[q]
    BY <1>1, <1>5 DEF ReadingPages
  <2>3. ReadingPages = [q \in Reader |-> ReadingPages[q]] /\ ReadingPages' = [q \in Reader |-> ReadingPages'[q]]
    BY DEF ReadingPages
  <2> QED BY <2>1, <2>2, <2>3
<1> QED BY <1>1, <1>6, <1>7 DEF PV!Unpin

-----------------------------------------------------------------------------
(* The steps together: each is one of PageVersions or changes nothing.     *)

\* A put that raises, and a kill.
Fails == PV!Raise /\ writer' = NoThread /\ ~writer.committed

Dies == PV!Crash /\ Crash

LEMMA CowInit == Init => CowInv /\ PV!Init
<1> SUFFICES ASSUME Init PROVE CowInv /\ PV!Init
  OBVIOUS
<1>1. /\ DOMAIN file = {0} /\ file[0] = Blank /\ header = [root |-> 0, head |-> 0]
      /\ version = 0 /\ active = [r \in Reader |-> None] /\ pending = NonePending
      /\ writer = [pc |-> "closed"] /\ reader = [r \in Reader |-> NoThread] /\ puts = 0
  BY DEF Init
<1>2. FileOK(file)
  <2>1. DOMAIN file = 0 .. 0 /\ Ids(file) = {}
    BY <1>1 DEF Ids
  <2> QED BY <1>1, <2>1 DEF FileOK
<1>3. file[0].kind = "blank" /\ writer.pc = "closed" /\ ~IsOpen
  BY <1>1 DEF Blank, IsOpen
<1>4. WithAdded = file /\ SavedHead = 0 /\ MemHead = 0
  BY <1>3 DEF WithAdded, SavedHead, MemHead
<1>5. ListPages(file, 0) = {} /\ FreeIds(file, 0) = {} /\ ListOK(file, 0)
  BY <1>2, ListOfNone
<1>6. PendingPages = {} /\ DOMAIN pending = {}
  BY <1>1 DEF PendingPages, NonePending
<1>7. CowInv
  <2>1. HeaderInv
    BY <1>1, <1>3 DEF HeaderInv
  <2>2. TreeInv
    BY <1>1, <1>3 DEF TreeInv, NoThread
  <2>3. ListInv
    BY <1>3, <1>4, <1>5 DEF ListInv, ListOK
  <2>4. WriterInv
    BY <1>1 DEF WriterInv, NoWork
  <2>5. TrackerInv
    <3>1. ~Retires(writer)
      BY <1>1 DEF Retires, NoWork
    <3> QED BY <1>1, <1>6, <3>1, LengthAssumption DEF TrackerInv, PendingOK
  <2>6. ReaderInv
    BY <1>1, <1>3 DEF ReaderInv, Threads
  <2> QED BY <1>2, <2>1, <2>2, <2>3, <2>4, <2>5, <2>6 DEF CowInv
<1>8. TreeInFile = {} /\ TreeInMemory = {} /\ HandPages = {} /\ CommittedOrphans = {}
  BY <1>3 DEF TreeInFile, TreeInMemory, HandPages, CommittedOrphans
<1>9. FreePages = {}
  <2>1. FreePages = ListOf(WithAdded, MemHead)
    BY <1>7, AddedIs
  <2> QED BY <1>4, <1>5, <2>1 DEF ListOf
<1>10. RetiredAs = [p \in {} |-> 0]
  BY <1>6 DEF RetiredAs
<1>11. ReadingPages = [r \in Reader |-> {}]
  BY <1>1 DEF ReadingPages, NoThread
<1> QED BY <1>1, <1>7, <1>8, <1>9, <1>10, <1>11 DEF PV!Init

LEMMA PutMoves ==
  ASSUME CowInv, PV!PageInv, PutStep
  PROVE  CowInv' /\ (Moves \/ Fails)
<1>1. ASSUME NEW k \in Key, NEW v \in Value, StartPut(k, v) PROVE CowInv' /\ Moves
  BY <1>1, StartPutStep DEF Moves
<1>2. CASE TakeFreeList
  BY <1>2, TakeFreeListStep DEF Moves
<1>3. CASE AddFreePage
  BY <1>3, AddFreePageStep DEF Moves
<1>4. CASE WriteFreeList
  BY <1>4, WriteFreeListStep DEF Moves
<1>5. CASE PublishHead
  BY <1>5, PublishHeadStep DEF Moves
<1>6. CASE SyncHead
  BY <1>6, SyncHeadStep DEF Moves
<1>7. CASE Descend
  BY <1>7, DescendStep DEF Moves
<1>8. CASE AllocateNode
  BY <1>8, AllocateNodeStep DEF Moves
<1>9. CASE WriteNode
  BY <1>9, WriteNodeStep DEF Moves
<1>10. CASE SplitNode
  BY <1>10, SplitNodeStep DEF Moves, Fails
<1>11. CASE WriteLeft
  BY <1>11, WriteLeftStep DEF Moves, Fails
<1>12. CASE WriteRight
  BY <1>12, WriteRightStep DEF Moves, Fails
<1>13. CASE WriteRoot
  BY <1>13, WriteRootStep DEF Moves, Fails
<1>14. CASE CommitRoot
  BY <1>14, CommitRootStep DEF Moves
<1>15. CASE PublishRoot
  BY <1>15, PublishRootStep DEF Moves
<1>16. CASE CommitWrite
  BY <1>16, CommitWriteStep DEF Moves
<1>17. CASE ReclaimAtOnce
  BY <1>17, ReclaimAtOnceStep DEF Moves
<1> QED BY <1>1, <1>2, <1>3, <1>4, <1>5, <1>6, <1>7, <1>8, <1>9, <1>10, <1>11, <1>12, <1>13,
           <1>14, <1>15, <1>16, <1>17 DEF PutStep

LEMMA GetMoves ==
  ASSUME CowInv, PV!PageInv, NEW r \in Reader, GetStep(r)
  PROVE  CowInv' /\ Moves
<1>1. ASSUME NEW k \in Key, BeginRead(r, k) PROVE CowInv' /\ Moves
  BY <1>1, BeginReadStep DEF Moves
<1>2. CASE ReadRoot(r)
  BY <1>2, ReadRootStep DEF Moves
<1>3. CASE Walk(r)
  BY <1>3, WalkStep DEF Moves
<1>4. CASE EndRead(r)
  BY <1>4, EndReadStep DEF Moves
<1> QED BY <1>1, <1>2, <1>3, <1>4 DEF GetStep

LEMMA CowMoves ==
  ASSUME CowInv, PV!PageInv, [Next]_vars
  PROVE  CowInv' /\ (Moves \/ Fails \/ Dies)
<1>1. CASE OpenTree
  BY <1>1, OpenTreeStep DEF Moves
<1>2. CASE CreateRoot
  BY <1>2, CreateRootStep DEF Moves
<1>3. CASE CreateHeader
  BY <1>3, CreateHeaderStep DEF Moves
<1>4. CASE Crash
  BY <1>4, CrashStep DEF Dies
<1>5. CASE PutStep
  BY <1>5, PutMoves
<1>6. CASE \E r \in Reader : GetStep(r)
  BY <1>6, GetMoves
<1>7. CASE UNCHANGED vars
  <2>1. UNCHANGED <<file, header, version, active, pending, writer, reader, puts>>
    BY <1>7 DEF vars
  <2>2. UNCHANGED <<WithAdded, MemHead, SavedHead, IsOpen, TreeInFile, TreeInMemory>>
    BY <2>1 DEF WithAdded, MemHead, SavedHead, IsOpen, TreeInFile, TreeInMemory
  <2>3. UNCHANGED <<FreePages, HandPages, CommittedOrphans, RetiredAs, ReadingPages>>
    BY <2>1, <2>2 DEF FreePages, HandPages, PutIsAt, CommittedOrphans, RetiredAs, PendingPages, ReadingPages
  <2>4. UNCHANGED PV!vars
    BY <2>1, <2>2, <2>3 DEF PV!vars
  <2>5. CowInv'
    BY <2>1, <2>2 DEF CowInv, HeaderInv, TreeInv, ListInv, WriterInv, TrackerInv, ReaderInv, IsOpen
  <2> QED BY <2>4, <2>5 DEF Moves
<1> QED BY <1>1, <1>2, <1>3, <1>4, <1>5, <1>6, <1>7 DEF Next

LEMMA StepsOfPages == Moves \/ Fails \/ Dies => [PV!Next]_PV!vars
  BY DEF Moves, Fails, Dies, PV!Next

\* The invariant of the pages' places holds of the mapping too.
BothInv == CowInv /\ PV!PageInv

LEMMA BothNext == BothInv /\ [Next]_vars => BothInv'
<1> SUFFICES ASSUME BothInv, [Next]_vars PROVE BothInv'
  OBVIOUS
<1>1. CowInv' /\ [PV!Next]_PV!vars
  BY CowMoves, StepsOfPages DEF BothInv
<1>2. PV!PageInv'
  BY <1>1, PV!PagesNext DEF BothInv
<1> QED BY <1>1, <1>2 DEF BothInv

LEMMA BothInit == Init => BothInv
  BY CowInit, PV!PagesInit DEF BothInv

\* In every state the file, memory and the put under way fit together, and
\* every page has one place: CowInv is about the pages as they are linked,
\* PageInv (of PageVersions) about what each is for.
THEOREM CowInvariance == Spec => []BothInv
  BY BothInit, BothNext, PTL DEF Spec

-----------------------------------------------------------------------------
(* The steps of the instance with the theorems are those of the instance   *)
(* in CowBTree.                                                            *)

LEMMA ActionsOfPages ==
  /\ PV!Init <=> Pages!Init
  /\ [PV!Next]_PV!vars => [Pages!Next]_Pages!vars
<1>1. PV!Init <=> Pages!Init
  BY DEF PV!Init, Pages!Init
<1>2. PV!vars = Pages!vars /\ (PV!vars)' = (Pages!vars)'
  BY DEF PV!vars, Pages!vars
<1>3. /\ PV!NewPages = Pages!NewPages /\ PV!Kept = Pages!Kept
      /\ \A A : PV!WritesTo(A) <=> Pages!WritesTo(A)
      /\ \A v : PV!Expired(v) <=> Pages!Expired(v)
  BY DEF PV!NewPages, Pages!NewPages, PV!Kept, Pages!Kept, PV!WritesTo, Pages!WritesTo, PV!Expired, Pages!Expired
<1>4. PV!Create => Pages!Create
  BY <1>3 DEF PV!Create, Pages!Create
<1>5. PV!Allocate => Pages!Allocate
  BY <1>3 DEF PV!Allocate, Pages!Allocate
<1>6. (PV!Write => Pages!Write) /\ (PV!Release => Pages!Release) /\ (PV!Raise => Pages!Raise)
  BY <1>3 DEF PV!Write, Pages!Write, PV!Release, Pages!Release, PV!Raise, Pages!Raise
<1>7. (PV!Commit => Pages!Commit) /\ (PV!Publish => Pages!Publish) /\ (PV!Retire => Pages!Retire)
  BY <1>3 DEF PV!Commit, Pages!Commit, PV!Publish, Pages!Publish, PV!Retire, Pages!Retire
<1>8. PV!Reclaim => Pages!Reclaim
  BY <1>3 DEF PV!Reclaim, Pages!Reclaim
<1>9. \A r \in Reader : /\ (PV!Pin(r) => Pages!Pin(r)) /\ (PV!ReadRoot(r) => Pages!ReadRoot(r))
                        /\ (PV!Walk(r) => Pages!Walk(r)) /\ (PV!Unpin(r) => Pages!Unpin(r))
  BY DEF PV!Pin, Pages!Pin, PV!ReadRoot, Pages!ReadRoot, PV!Walk, Pages!Walk, PV!Unpin, Pages!Unpin
<1>10. PV!Crash => Pages!Crash
  BY DEF PV!Crash, Pages!Crash
<1>11. PV!Next => Pages!Next
  <2> SUFFICES ASSUME PV!Next PROVE Pages!Next
    OBVIOUS
  <2>1. CASE PV!Create \/ PV!Allocate \/ PV!Write \/ PV!Release \/ PV!Raise \/ PV!Commit
             \/ PV!Publish \/ PV!Retire \/ PV!Reclaim \/ PV!Crash
    BY <2>1, <1>4, <1>5, <1>6, <1>7, <1>8, <1>10 DEF Pages!Next
  <2>2. CASE \E r \in Reader : PV!Pin(r) \/ PV!ReadRoot(r) \/ PV!Walk(r) \/ PV!Unpin(r)
    BY <2>2, <1>9 DEF Pages!Next
  <2> QED BY <2>1, <2>2 DEF PV!Next
<1> QED BY <1>1, <1>2, <1>11

\* Every step of put, get, opening and a kill moves pages as PageVersions
\* allows: it writes to none but those of the list and of the put, retires
\* what its commit has replaced, and takes back what no get pins.
THEOREM PutsMovePages == Spec => ImplementsPageVersions
<1>1. Init => Pages!Init
  BY CowInit, ActionsOfPages
<1>2. BothInv /\ [Next]_vars => [Pages!Next]_Pages!vars
  BY CowMoves, StepsOfPages, ActionsOfPages DEF BothInv
<1> QED BY <1>1, <1>2, CowInvariance, PTL DEF Spec, ImplementsPageVersions, Pages!Spec

-----------------------------------------------------------------------------
(* What follows.                                                           *)

LEMMA TypesHold == BothInv => TypeOK
<1> SUFFICES ASSUME BothInv PROVE TypeOK
  OBVIOUS
<1>1. FileOK(file) /\ HeaderInv /\ TrackerInv /\ ReaderInv
  BY DEF BothInv, CowInv
<1>2. DOMAIN file = 0 .. (FileSize(file) - 1) /\ 0 \in DOMAIN file
  BY <1>1, FileSizeIs
<1>3. ASSUME NEW p \in DOMAIN file
      PROVE  CASE file[p].kind = "header" -> p = 0 /\ {file[p].root, file[p].head} \subseteq DOMAIN file
               [] file[p].kind \in {"leaf", "internal"} -> p # 0 /\ ~TooLarge(file[p])
               [] file[p].kind = "freelist" ->
                     /\ p # 0 /\ file[p].id = p /\ file[p].next \in DOMAIN file
                     /\ Len(file[p].ids) <= MaxIdsPerPage /\ ToSet(file[p].ids) \subseteq DOMAIN file
               [] file[p].kind = "blank" -> TRUE
  <2> DEFINE n == file[p]
  <2>1. n.kind \in {"blank", "header", "leaf", "internal", "freelist"}
    BY <1>1, <1>3, KindOf
  <2>2. n.kind = "header" => p = 0 /\ n.root \in DOMAIN file /\ n.head \in DOMAIN file
    <3>1. n.kind = "header" => p = 0 /\ n \in Headers(Ids(file))
      BY <1>1, <1>3, KindOf
    <3> QED BY <1>2, <3>1 DEF Headers, Ids
  <2>3. n.kind \in {"leaf", "internal"} => p # 0 /\ ~TooLarge(n)
    BY <1>1, <1>3, KindOf
  <2>4. n.kind = "freelist" => /\ p # 0 /\ n.id = p /\ n.next \in DOMAIN file
                               /\ Len(n.ids) <= MaxIdsPerPage /\ ToSet(n.ids) \subseteq DOMAIN file
    <3>1. n.kind = "freelist" => p # 0 /\ n \in FreeLists(Ids(file)) /\ n.id = p
      BY <1>1, <1>3, KindOf
    <3>2. n.kind = "freelist" => n.next \in Ids(file) \cup {0} /\ n.ids \in Seq(Ids(file)) /\ Len(n.ids) <= MaxIdsPerPage
      BY <3>1 DEF FreeLists
    <3>3. n.kind = "freelist" => ToSet(n.ids) \subseteq Ids(file)
      BY <3>2 DEF ToSet
    <3> QED BY <1>2, <3>1, <3>2, <3>3 DEF Ids
  <2> HIDE DEF n
  <2>5. CASE n.kind = "header"
    BY <2>2, <2>5 DEF n
  <2>6. CASE n.kind \in {"leaf", "internal"}
    BY <2>3, <2>6 DEF n
  <2>7. CASE n.kind = "freelist"
    BY <2>4, <2>7 DEF n
  <2>8. CASE n.kind = "blank"
    BY <2>8 DEF n
  <2> QED BY <2>1, <2>5, <2>6, <2>7, <2>8
<1>4. header.root \in DOMAIN file \cup {0} /\ header.head \in DOMAIN file \cup {0}
  BY <1>1 DEF HeaderInv, Ids
<1>5. version \in 0 .. MaxPuts /\ version \in Nat
  BY <1>1, LengthAssumption DEF TrackerInv
<1>6. \A r \in Reader : active[r] \in 0 .. version \cup {None}
  <2>1. \A r \in Reader : active[r] \in Nat \cup {None} /\ (active[r] # None => active[r] <= version)
    BY DEF BothInv, PV!PageInv, PV!VersionTypes
  <2> QED BY <1>5, <2>1
<1>7. \A r \in Reader : (active[r] = None) = (reader[r] = NoThread)
  BY <1>1 DEF ReaderInv
<1>8. PendingPages \subseteq DOMAIN file
  <2>1. DOMAIN RetiredAs \subseteq DOMAIN file
    BY DEF BothInv, PV!PageInv, PV!PageTypes
  <2> QED BY <2>1 DEF RetiredAs
<1> QED BY <1>2, <1>3, <1>4, <1>5, <1>6, <1>7, <1>8 DEF TypeOK

\* Types: what a page holds fits on it, and names pages of the file; what the
\* tracker has is about versions that there are and about pages of the file.
THEOREM TypeCorrect == Spec => []TypeOK
  BY CowInvariance, TypesHold, PTL

-----------------------------------------------------------------------------
\* A list apart from the tree is disjoint as the properties mean it.
LEMMA Disjoint ==
  ASSUME NEW f, FileOK(f), NEW h \in Ids(f) \cup {0}, IdsAreApart(f, h),
         NEW root, ListOf(f, h) \cap TreePages(f, root) = {}
  PROVE  ListIsDisjoint(f, root, h)
<1>1. FreeIds(f, h) \subseteq Ids(f)
  BY ListTypes
<1>2. FreeIds(f, h) \cap ({0} \cup ListPages(f, h) \cup TreePages(f, root)) = {}
  BY <1>1 DEF IdsAreApart, ListOf, Ids
<1>3. ListPages(f, h) \cap TreePages(f, root) = {}
  BY DEF ListOf
<1>4. \A p, q \in ListPages(f, h) :
         \A i \in DOMAIN ReadFreeList(f, p).ids, j \in DOMAIN ReadFreeList(f, q).ids :
            ReadFreeList(f, p).ids[i] = ReadFreeList(f, q).ids[j] => p = q /\ i = j
  BY DEF IdsAreApart, IdsOf
<1> QED BY <1>2, <1>3, <1>4 DEF ListIsDisjoint

LEMMA FileRecovers == BothInv => FileIsRecoverable
<1> SUFFICES ASSUME BothInv PROVE FileIsRecoverable
  OBVIOUS
<1>1. CowInv /\ PV!PageInv /\ FileOK(file)
  BY DEF BothInv, CowInv
<1>2. CASE file[0].kind # "header"
  <2>1. file[0] = Blank
    BY <1>1, <1>2 DEF FileOK, Headers, Header
  <2>2. ~IsOpen
    BY <1>1, <1>2 DEF CowInv, HeaderInv
  <2> QED BY <1>2, <2>1, <2>2 DEF FileIsRecoverable
<1>3. CASE file[0].kind = "header"
  <2>1. SavedHead = file[0].head /\ TreeInFile = TreePages(file, file[0].root)
    BY <1>3 DEF SavedHead, TreeInFile
  <2>2. ListOK(file, SavedHead) /\ ListOf(file, SavedHead) \subseteq FreePages /\ SavedHead \in Ids(file) \cup {0}
    BY <1>1, SavedListIs
  <2>3. IsTree(file, file[0].root)
    BY <1>1, <1>3 DEF CowInv, TreeInv
  <2>4. \A p \in TreePages(file, file[0].root) : ReadPage(file, p).kind \in {"leaf", "internal"}
    <3>1. \A p \in TreePages(file, file[0].root) : p \in DOMAIN file
      BY <1>1, <2>3, TreeBasics DEF IsTree, Ids
    <3> QED BY <2>3, <3>1 DEF IsTree, ReadPage
  <2>5. \A p \in ListPages(file, SavedHead) : ReadPage(file, p).kind = "freelist"
    <3>1. CASE SavedHead = 0
      BY <1>1, <3>1, ListOfNone
    <3>2. CASE SavedHead # 0
      <4>1. \A p \in ListPages(file, SavedHead) : p \in DOMAIN file /\ file[p].kind = "freelist"
        BY <1>1, <2>2, <3>2, ListTypes DEF ListOK, IsList, Ids
      <4> QED BY <4>1 DEF ReadPage
    <3> QED BY <3>1, <3>2
  <2>6. ListOf(file, SavedHead) \cap TreePages(file, file[0].root) = {}
    BY <1>1, <2>1, <2>2, Apart
  <2>7. ListIsDisjoint(file, file[0].root, SavedHead)
    BY <1>1, <2>2, <2>6, Disjoint DEF ListOK
  <2> QED BY <1>3, <2>1, <2>4, <2>5, <2>7 DEF FileIsRecoverable
<1> QED BY <1>2, <1>3

\* Whenever the process is killed, the file has a header once it was created, the
\* tree that the header names is there with all its pages, and so is the free list,
\* which names each page once and none of the tree, of its own or of the header.
THEOREM FileRecoverable == Spec => []FileIsRecoverable
  BY CowInvariance, FileRecovers, PTL

-----------------------------------------------------------------------------
\* The pages that put is about to write are its own.
LEMMA CopiesInHand ==
  ASSUME CowInv, NEW pc \in {"write", "writeLeft", "writeRight", "writeRoot"}, PutIsAt(pc)
  PROVE  /\ {writer.new, writer.right} \subseteq {0} \cup HandPages
         /\ {writer.new, writer.right} \cap TreePages(file, header.root) = {}
<1>1. writer.pc \notin {"idle", "closed", "createHeader"} /\ writer \notin NoWork
  BY DEF PutIsAt, NoWork, NoThread
<1>2. WorkOK(file, header.root, writer)
  BY <1>1 DEF CowInv, WriterInv
<1>3. At(writer) = pc
  BY DEF PutIsAt, At
<1>4. NodeOK(file, header.root, writer)
  BY <1>2, <1>3 DEF WorkOK, Upward
<1>5. {writer.new, writer.right} \cap TreePages(file, header.root) = {}
  BY <1>4 DEF NodeOK
<1>6. HandPages = HandOf(file, header.root, writer)
  BY <1>1, HandIs
<1> QED BY <1>5, <1>6 DEF HandOf

LEMMA PagesStay == BothInv => NoPageReusedEarly
<1> SUFFICES ASSUME BothInv, IsOpen PROVE NoPageReusedEarly
  BY DEF NoPageReusedEarly
<1> DEFINE gets == UNION {TreePages(file, reader[r].page) : r \in {q \in Reader : reader[q].pc = "walking"}}
<1>1. CowInv /\ PV!PageInv /\ FileOK(file) /\ TreeInv
  BY DEF BothInv, CowInv
<1>2. TreeInMemory = TreePages(file, header.root) /\ MemHead = header.head
  BY DEF IsOpen, TreeInMemory, MemHead
<1>3. /\ FileOK(WithAdded) /\ DOMAIN WithAdded = DOMAIN file /\ IsBehind(file, WithAdded)
      /\ header.head \in Ids(file) \cup {0} /\ FreePages = ListOf(WithAdded, header.head)
  BY <1>1, <1>2, AddedIs
<1>4. IdsAreApart(WithAdded, header.head)
  BY <1>1, <1>2 DEF CowInv, ListInv, ListOK
<1>5. ListOf(file, header.head) \subseteq FreePages /\ IdsAreApart(file, header.head)
  <2>1. /\ ListPages(file, header.head) \subseteq ListPages(WithAdded, header.head)
        /\ FreeIds(file, header.head) \subseteq FreeIds(WithAdded, header.head)
        /\ IdsAreApart(WithAdded, header.head) => IdsAreApart(file, header.head)
    BY <1>1, <1>3, BehindIs
  <2> QED BY <1>3, <1>4, <2>1 DEF ListOf
<1>6. ListIsDisjoint(file, header.root, header.head)
  <2>1. ListOf(file, header.head) \cap TreePages(file, header.root) = {}
    BY <1>1, <1>2, <1>5, Apart
  <2> QED BY <1>1, <1>3, <1>5, <2>1, Disjoint
<1>7. gets \cap (FreePages \cup HandPages) = {} /\ 0 \notin gets
  <2> SUFFICES ASSUME NEW r \in Reader, reader[r].pc = "walking"
               PROVE  /\ TreePages(file, reader[r].page) \cap (FreePages \cup HandPages) = {}
                      /\ 0 \notin TreePages(file, reader[r].page)
    OBVIOUS
  <2>1. ReadingPages[r] = TreePages(file, reader[r].page)
    BY DEF ReadingPages
  <2>2. ReadingPages[r] \cap (FreePages \cup HandPages) = {}
    BY <1>1, Apart
  <2>3. IsTree(file, reader[r].page)
    BY <1>1 DEF TreeInv
  <2>4. TreePages(file, reader[r].page) \subseteq Ids(file)
    BY <1>1, <2>3, TreeBasics DEF IsTree
  <2> QED BY <2>1, <2>2, <2>4 DEF Ids
<1>8. PendingPages \cap (FreePages \cup HandPages) = {} /\ 0 \notin PendingPages
  <2>1. DOMAIN RetiredAs = PendingPages
    BY DEF RetiredAs
  <2> QED BY <1>1, <2>1, Apart DEF PV!PageInv, PV!PageTypes
<1>9. ASSUME NEW pc \in {"write", "writeLeft", "writeRight", "writeRoot"}, PutIsAt(pc)
      PROVE  {writer.new, writer.right}
                \cap (TreePages(file, header.root) \cup gets \cup PendingPages) = {}
  <2>1. /\ {writer.new, writer.right} \subseteq {0} \cup HandPages
        /\ {writer.new, writer.right} \cap TreePages(file, header.root) = {}
    BY <1>1, <1>9, CopiesInHand
  <2> HIDE DEF gets
  <2> QED BY <1>7, <1>8, <2>1
<1>10. gets \cap (FreeIds(file, header.head) \cup ListPages(file, header.head)) = {}
  <2> HIDE DEF gets
  <2> QED BY <1>5, <1>7 DEF ListOf
<1>11. PendingPages \cap FreeIds(file, header.head) = {}
  BY <1>5, <1>8 DEF ListOf
<1> QED BY <1>6, <1>9, <1>10, <1>11 DEF NoPageReusedEarly

\* No page that a get may still have to read, that the tree holds or that is
\* retired is in the free list or about to be written by put, however many
\* gets run beside it.
THEOREM PagesAreKept == Spec => []NoPageReusedEarly
  BY CowInvariance, PagesStay, PTL

-----------------------------------------------------------------------------
(* No page gets lost.                                                      *)

LEMMA LostIs ==
  Lost = DOMAIN file \ ({0} \cup TreeInMemory \cup FreePages \cup HandPages
                          \cup CommittedOrphans \cup DOMAIN RetiredAs)
  BY DEF Lost, RetiredAs

LEMMA LostNextIs ==
  (Lost = DOMAIN file \ ({0} \cup TreeInMemory \cup FreePages \cup HandPages
                          \cup CommittedOrphans \cup DOMAIN RetiredAs))'
  BY LostIs, PTL

LEMMA MovesLoseNothing ==
  ASSUME PV!PageInv, Moves
  PROVE  Lost' \subseteq Lost
<1>1. CASE PV!Create
  BY <1>1, LostIs, LostNextIs DEF PV!Create, PV!NewPages, PV!Kept
<1>2. CASE PV!Write
  BY <1>2, LostIs, LostNextIs DEF PV!Write, PV!NewPages
<1>3. CASE PV!Allocate
  BY <1>3, LostIs, LostNextIs DEF PV!Allocate, PV!NewPages
<1>4. CASE PV!Release
  BY <1>4, LostIs, LostNextIs DEF PV!Release, PV!NewPages
<1>5. CASE PV!Commit
  BY <1>5, LostIs, LostNextIs DEF PV!Commit
<1>6. CASE PV!Publish
  BY <1>6, LostIs, LostNextIs DEF PV!Publish, PV!NewPages
<1>7. CASE PV!Retire
  <2>1. DOMAIN RetiredAs' = DOMAIN RetiredAs \cup CommittedOrphans
    BY <1>7 DEF PV!Retire
  <2> QED BY <1>7, <2>1, LostIs, LostNextIs DEF PV!Retire
<1>8. CASE PV!Reclaim
  <2> DEFINE back == {p \in DOMAIN RetiredAs : PV!Expired(RetiredAs[p])}
  <2>1. DOMAIN RetiredAs' = DOMAIN RetiredAs \ back /\ HandPages' = HandPages \cup back
    BY <1>8 DEF PV!Reclaim
  <2>2. UNCHANGED <<file, TreeInMemory, FreePages, CommittedOrphans>>
    BY <1>8 DEF PV!Reclaim
  <2> HIDE DEF back
  <2> QED BY <2>1, <2>2, LostIs, LostNextIs
<1>9. CASE \E r \in Reader : PV!Pin(r) \/ PV!ReadRoot(r) \/ PV!Walk(r) \/ PV!Unpin(r)
  BY <1>9, LostIs, LostNextIs DEF PV!Pin, PV!ReadRoot, PV!Walk, PV!Unpin
<1>10. CASE UNCHANGED PV!vars
  BY <1>10, LostIs, LostNextIs DEF PV!vars
<1> QED BY <1>1, <1>2, <1>3, <1>4, <1>5, <1>6, <1>7, <1>8, <1>9, <1>10 DEF Moves

\* The file has the whole tree unless a root is to be published, and the whole list
\* unless put adds to it.
LEMMA KillLoses ==
  ASSUME BothInv, Dies
  PROVE  Lost' \subseteq Lost \cup OnlyInMemory
<1>1. CowInv /\ HeaderInv /\ FileOK(file)
  BY DEF BothInv, CowInv
<1>2. UNCHANGED <<file, TreeInFile>> /\ writer.pc # "closed" /\ writer'.pc = "closed"
  <2>1. file' = file /\ writer.pc # "closed" /\ writer' = [pc |-> "closed"]
    BY DEF Dies, Crash
  <2> QED BY <2>1 DEF TreeInFile
<1>3. TreeInMemory' = TreeInFile /\ FreePages' = ListOf(file, SavedHead)
  <2>1. WithAdded' = file /\ SavedHead' = SavedHead
    BY <1>2 DEF WithAdded, SavedHead
  <2>2. FreePages' = ListOf(file, SavedHead)
    BY <1>2, <2>1 DEF FreePages, SavedHead, ListOf
  <2> QED BY <1>2, <2>2 DEF TreeInMemory
<1>4. ASSUME writer.pc \notin {"createHeader", "publishRoot"}
      PROVE  TreeInMemory = TreeInFile
  <2>1. file[0].kind = "header" /\ file[0].root = header.root
    BY <1>1, <1>2, <1>4 DEF HeaderInv, IsOpen
  <2> QED BY <1>2, <2>1 DEF TreeInMemory, TreeInFile
<1>5. ASSUME writer.pc \notin {"createHeader", "addPage", "publishHead"}
      PROVE  FreePages = ListOf(file, SavedHead)
  <2>1. file[0].kind = "header" /\ file[0].head = header.head
    BY <1>1, <1>2, <1>5 DEF HeaderInv, IsOpen
  <2>2. WithAdded = file /\ SavedHead = header.head
    BY <1>5, <2>1 DEF WithAdded, SavedHead
  <2> QED BY <1>2, <2>2 DEF FreePages, ListOf
<1>6. ASSUME writer.pc = "createHeader"
      PROVE  FreePages = {}
  <2>1. header.head = 0 /\ WithAdded = file
    BY <1>1, <1>6 DEF HeaderInv, WithAdded
  <2> QED BY <1>1, <1>2, <2>1, ListOfNone DEF FreePages
<1>7. Lost' \subseteq DOMAIN file \ ({0} \cup TreeInFile \cup ListOf(file, SavedHead))
  BY <1>2, <1>3, LostNextIs
<1>8. DOMAIN file \subseteq Lost \cup {0} \cup TreeInMemory \cup FreePages \cup HandPages
                              \cup CommittedOrphans \cup PendingPages
  BY DEF Lost
<1>9. TreeInMemory \subseteq TreeInFile \cup OnlyInMemory
  BY <1>4 DEF OnlyInMemory
<1>10. FreePages \subseteq ListOf(file, SavedHead) \cup OnlyInMemory
  BY <1>5, <1>6 DEF OnlyInMemory
<1>11. HandPages \cup CommittedOrphans \cup PendingPages \subseteq OnlyInMemory
  BY DEF OnlyInMemory
<1> QED BY <1>7, <1>8, <1>9, <1>10, <1>11

\* A page gets lost only by a put that raises, and then only what that put had in its
\* hands, or by a kill, and then only what the file did not need to have: no page of
\* its tree or its list, nor one that memory had in the tree or in the list without
\* being about to publish that.
THEOREM PagesAreLostByFailure == Spec => LostByFailureOnly
<1>1. BothInv /\ [Next]_vars =>
        \/ Lost' \subseteq Lost
        \/ writer'.pc = "closed" /\ Lost' \subseteq Lost \cup OnlyInMemory
        \/ /\ writer' = NoThread /\ ~writer.committed
           /\ Lost' \subseteq Lost \cup HandPages
  <2> SUFFICES ASSUME BothInv, [Next]_vars
               PROVE  \/ Lost' \subseteq Lost
                      \/ writer'.pc = "closed" /\ Lost' \subseteq Lost \cup OnlyInMemory
                      \/ /\ writer' = NoThread /\ ~writer.committed
                         /\ Lost' \subseteq Lost \cup HandPages
    OBVIOUS
  <2>1. Moves \/ Fails \/ Dies
    BY CowMoves DEF BothInv
  <2>2. CASE Moves
    BY <2>2, MovesLoseNothing DEF BothInv
  <2>3. CASE Fails
    <3>1. Lost' \subseteq Lost \cup HandPages
      BY <2>3, LostIs, LostNextIs DEF Fails, PV!Raise
    <3> QED BY <2>3, <3>1 DEF Fails
  <2>4. CASE Dies
    <3>1. Lost' \subseteq Lost \cup OnlyInMemory
      BY <2>4, KillLoses
    <3> QED BY <2>4, <3>1 DEF Dies, Crash
  <2> QED BY <2>1, <2>2, <2>3, <2>4
<1> QED BY <1>1, CowInvariance, PTL DEF Spec, LostByFailureOnly
=============================================================================
