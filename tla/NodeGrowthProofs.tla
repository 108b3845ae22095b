--------------------------- MODULE NodeGrowthProofs ---------------------------
(***************************************************************************)
(* One node under a sequence of puts, for every page size and all sizes of *)
(* entries: the size of a node is a sum, an entry that does not fit makes  *)
(* the node larger than its page by less than that entry, and the loops of *)
(* _split_leaf and _split_internal cut a node that is not larger than that *)
(* into two halves that fit.                                               *)
(***************************************************************************)
EXTENDS NodeGrowth, Integers, SequenceTheorems, WellFoundedInduction, TLAPS

-----------------------------------------------------------------------------
(* The size of a node is a sum.                                            *)

\* A set of naturals that is not empty has a least element.
LEMMA NatSetHasMin ==
  ASSUME NEW S \in SUBSET Nat, S # {}
  PROVE  \E m \in S : \A k \in S : m <= k
<1>1. PICK m \in S : \A k \in S : ~(<<k, m>> \in OpToRel(<, Nat))
  BY NatLessThanWellFounded, WFMin
<1>2. \A x, y \in Nat : x < y => <<x, y>> \in OpToRel(<, Nat)
  BY DEF OpToRel
<1>3. \A k \in S : ~(k < m)
  BY <1>1, <1>2
<1> QED BY <1>3

Total(s) == FoldLeft(Plus, 0, s)

\* The function with which FoldLeft adds up what s has at the indices of a set.
IsFold(f, s, S) ==
    f = [T \in SUBSET S |-> IF T = {} THEN 0 ELSE f[T \ {Max(T)}] + s[Max(T)]]

LEMMA MaxIs ==
  ASSUME NEW T \in SUBSET Nat, NEW m \in T, \A k \in T : k <= m
  PROVE  Max(T) = m
<1>1. Max(T) \in T /\ \A k \in T : Max(T) >= k
  BY DEF Max
<1>2. Max(T) \in Nat /\ m \in Nat /\ Max(T) >= m /\ Max(T) <= m
  BY <1>1
<1> QED BY <1>2

\* There is such a function: it is built up index by index.
LEMMA FoldExists ==
  ASSUME NEW s, NEW n \in Nat
  PROVE  \E f : IsFold(f, s, 1 .. n)
<1> DEFINE bad == {k \in Nat : ~\E f : IsFold(f, s, 1 .. k)}
<1> SUFFICES ASSUME bad # {} PROVE FALSE
  OBVIOUS
<1>1. PICK k \in bad : \A j \in bad : k <= j
  BY NatSetHasMin
<1>2. CASE k = 0
  <2>1. SUBSET (1 .. 0) = {{}}
    OBVIOUS
  <2>2. IsFold([T \in SUBSET (1 .. 0) |-> 0], s, 1 .. 0)
    BY <2>1 DEF IsFold
  <2> QED BY <1>1, <1>2, <2>2
<1>3. CASE k # 0
  <2>1. k - 1 \in Nat /\ k - 1 \notin bad
    BY <1>1, <1>3
  <2>2. PICK f : IsFold(f, s, 1 .. (k - 1))
    BY <2>1
  <2> DEFINE g == [T \in SUBSET (1 .. k) |-> IF k \in T THEN f[T \ {k}] + s[k] ELSE f[T]]
             step(h, T) == IF T = {} THEN 0 ELSE h[T \ {Max(T)}] + s[Max(T)]
  <2>3. k \in Nat /\ k \in 1 .. k /\ 1 .. (k - 1) = (1 .. k) \ {k}
    BY <1>1, <1>3
  <2>4. ASSUME NEW T \in SUBSET (1 .. k) PROVE g[T] = step(g, T)
    <3>1. CASE k \in T
      <4>1. Max(T) = k
        BY <2>3, <3>1, MaxIs
      <4>2. T \ {k} \in SUBSET (1 .. k) /\ k \notin T \ {k} /\ T # {}
        BY <3>1
      <4>3. g[T \ {k}] = f[T \ {k}]
        BY <4>2
      <4>4. g[T] = f[T \ {k}] + s[k]
        BY <3>1
      <4> QED BY <4>1, <4>2, <4>3, <4>4
    <3>2. CASE k \notin T
      <4>1. T \in SUBSET (1 .. (k - 1)) /\ k \notin T \ {Max(T)} /\ T \ {Max(T)} \in SUBSET (1 .. k)
        BY <2>3, <3>2
      <4>2. f[T] = step(f, T)
        BY <2>2, <4>1 DEF IsFold
      <4>3. g[T] = f[T] /\ g[T \ {Max(T)}] = f[T \ {Max(T)}]
        BY <3>2, <4>1
      <4> QED BY <4>2, <4>3
    <3> QED BY <3>1, <3>2
  <2>5. g = [T \in SUBSET (1 .. k) |-> step(g, T)]
    <3>1. g = [T \in SUBSET (1 .. k) |-> g[T]]
      OBVIOUS
    <3> HIDE DEF g
    <3> QED BY <2>4, <3>1
  <2>6. IsFold(g, s, 1 .. k)
    <3> HIDE DEF g
    <3> QED BY <2>5 DEF IsFold
  <2> QED BY <1>1, <2>6
<1> QED BY <1>2, <1>3

LEMMA TotalIsFold ==
  ASSUME NEW s, NEW f, IsFold(f, s, DOMAIN s)
  PROVE  \E g : IsFold(g, s, DOMAIN s) /\ Total(s) = g[DOMAIN s]
  BY DEF Total, IsFold, FoldLeft, MapThenFoldSet, Plus

\* P[i] is the sum of the first i elements of s.
IsSum(P, s) ==
    P[0] = 0 /\ \A i \in 1 .. Len(s) : P[i] = P[i - 1] + s[i]

LEMMA SumExists ==
  ASSUME NEW s \in Seq(Nat)
  PROVE  \E P \in [0 .. Len(s) -> Nat] : IsSum(P, s) /\ Total(s) = P[Len(s)]
<1> DEFINE n == Len(s)
<1>1. n \in Nat /\ DOMAIN s = 1 .. n /\ \A i \in 1 .. n : s[i] \in Nat
  BY ElementOfSeq
<1>2. PICK f : IsFold(f, s, DOMAIN s)
  BY <1>1, FoldExists
<1>3. PICK g : IsFold(g, s, 1 .. n) /\ Total(s) = g[1 .. n]
  BY <1>1, <1>2, TotalIsFold
<1> DEFINE P == [i \in 0 .. n |-> g[1 .. i]]
<1> HIDE DEF n
<1>4. g[{}] = 0
  BY <1>3 DEF IsFold
<1>5. P[0] = 0
  BY <1>1, <1>4
<1>6. ASSUME NEW i \in 1 .. n PROVE P[i] = P[i - 1] + s[i]
  <2>1. i \in Nat /\ i \in 1 .. i /\ 1 .. i \in SUBSET (1 .. n) /\ 1 .. i # {}
    BY <1>1
  <2>2. Max(1 .. i) = i
    BY <2>1, MaxIs
  <2>3. (1 .. i) \ {i} = 1 .. (i - 1)
    BY <2>1
  <2>4. g[1 .. i] = g[1 .. (i - 1)] + s[i]
    BY <1>3, <2>1, <2>2, <2>3 DEF IsFold
  <2> QED BY <1>1, <2>1, <2>4
<1>7. \A i \in 0 .. n : P[i] \in Nat
  <2> DEFINE bad == {i \in Nat : i \in 0 .. n /\ P[i] \notin Nat}
  <2> SUFFICES ASSUME bad # {} PROVE FALSE
    BY <1>1
  <2>1. PICK i \in bad : \A j \in bad : i <= j
    BY NatSetHasMin
  <2>2. i # 0
    BY <1>5, <2>1
  <2>3. i - 1 \in Nat /\ i - 1 \in 0 .. n /\ i - 1 \notin bad /\ i \in 1 .. n
    BY <1>1, <2>1, <2>2
  <2> HIDE DEF P
  <2>4. P[i - 1] \in Nat /\ s[i] \in Nat
    BY <1>1, <2>3
  <2> QED BY <1>6, <2>1, <2>3, <2>4
<1>8. Total(s) = P[n] /\ P = [i \in 0 .. n |-> P[i]]
  BY <1>1, <1>3
<1> HIDE DEF P
<1>9. P \in [0 .. n -> Nat]
  BY <1>7, <1>8
<1> QED BY <1>5, <1>6, <1>8, <1>9 DEF IsSum, n

\* Whatever adds up the elements one by one comes to the sum.
LEMMA TotalIs ==
  ASSUME NEW s \in Seq(Nat), NEW P, IsSum(P, s)
  PROVE  Total(s) = P[Len(s)]
<1> DEFINE n == Len(s)
<1>1. n \in Nat
  OBVIOUS
<1>2. PICK Q \in [0 .. n -> Nat] : IsSum(Q, s) /\ Total(s) = Q[n]
  BY SumExists
<1>3. \A i \in 0 .. n : P[i] = Q[i]
  <2> DEFINE bad == {i \in Nat : i \in 0 .. n /\ P[i] # Q[i]}
  <2> SUFFICES ASSUME bad # {} PROVE FALSE
    BY <1>1
  <2>1. PICK i \in bad : \A j \in bad : i <= j
    BY NatSetHasMin
  <2>2. i # 0
    BY <1>2, <2>1 DEF IsSum
  <2>3. i - 1 \in Nat /\ i - 1 \in 0 .. n /\ i - 1 \notin bad /\ i \in 1 .. n
    BY <1>1, <2>1, <2>2
  <2>4. P[i] = P[i - 1] + s[i] /\ Q[i] = Q[i - 1] + s[i]
    BY <1>2, <2>3 DEF IsSum
  <2> QED BY <2>1, <2>3, <2>4
<1> QED BY <1>1, <1>2, <1>3

LEMMA TotalOfSubSeq ==
  ASSUME NEW s \in Seq(Nat), NEW P, IsSum(P, s), P \in [0 .. Len(s) -> Nat],
         NEW a \in 1 .. Len(s) + 1, NEW b \in 0 .. Len(s), a <= b + 1
  PROVE  SubSeq(s, a, b) \in Seq(Nat) /\ Total(SubSeq(s, a, b)) = P[b] - P[a - 1]
<1> DEFINE n == Len(s)
           t == SubSeq(s, a, b)
           Q == [i \in 0 .. (b - a + 1) |-> P[a - 1 + i] - P[a - 1]]
<1>1. n \in Nat /\ \A i \in 1 .. n : s[i] \in Nat
  BY ElementOfSeq
<1>2. /\ t \in Seq(Nat) /\ Len(t) = b - a + 1
      /\ \A i \in 1 .. (b - a + 1) : t[i] = s[a + i - 1]
  BY <1>1, SubSeqProperties
<1>3. \A i \in 0 .. n : P[i] \in Nat
  OBVIOUS
<1> HIDE DEF t, n
<1>4. Q[0] = 0
  BY <1>1, <1>3 DEF n
<1>5. ASSUME NEW i \in 1 .. (b - a + 1) PROVE Q[i] = Q[i - 1] + t[i]
  <2>1. a - 1 + i \in 1 .. n
    BY <1>1 DEF n
  <2>2. P[a - 1 + i] = P[a - 1 + i - 1] + s[a - 1 + i]
    BY <2>1 DEF IsSum, n
  <2>3. t[i] = s[a - 1 + i]
    BY <1>1, <1>2 DEF n
  <2>4. Q[i] = P[a - 1 + i] - P[a - 1] /\ Q[i - 1] = P[a - 1 + i - 1] - P[a - 1]
    BY <1>1 DEF n
  <2>5. a - 1 \in 0 .. n /\ a - 1 + i - 1 \in 0 .. n
    BY <1>1 DEF n
  <2>6. s[a - 1 + i] \in Nat /\ P[a - 1 + i - 1] \in Nat /\ P[a - 1] \in Nat
    BY <1>1, <1>3, <2>1, <2>5
  <2> DEFINE p == P[a - 1 + i - 1]
             q == P[a - 1]
             x == s[a - 1 + i]
  <2> HIDE DEF Q, p, q, x
  <2>7. p \in Nat /\ q \in Nat /\ x \in Nat
    BY <2>6 DEF p, q, x
  <2>8. Q[i] = (p + x) - q /\ Q[i - 1] = p - q /\ t[i] = x
    BY <2>2, <2>3, <2>4 DEF p, q, x
  <2> QED BY <2>7, <2>8
<1>6. Q[b - a + 1] = P[b] - P[a - 1]
  BY <1>1 DEF n
<1> HIDE DEF Q
<1>7. Total(t) = Q[Len(t)]
  BY <1>2, <1>4, <1>5, TotalIs DEF IsSum
<1> QED BY <1>2, <1>6, <1>7 DEF t

LEMMA SeqOfNat ==
  ASSUME NEW S \in SUBSET Nat, NEW s \in Seq(S)
  PROVE  s \in Seq(Nat) /\ \A j \in 1 .. Len(s) : s[j] \in S
<1>1. \A j \in 1 .. Len(s) : s[j] \in S
  BY ElementOfSeq
<1>2. s \in [1 .. Len(s) -> Nat] /\ Len(s) \in Nat
  BY <1>1, LenProperties
<1> QED BY <1>1, <1>2

LEMMA TotalOfInsert ==
  ASSUME NEW S \in SUBSET Nat, NEW s \in Seq(S), NEW i \in 1 .. Len(s) + 1, NEW e \in S
  PROVE  /\ InsertAt(s, i, e) \in Seq(S)
         /\ i \in DOMAIN InsertAt(s, i, e) /\ InsertAt(s, i, e)[i] = e
         /\ Total(InsertAt(s, i, e)) = Total(s) + e
<1> DEFINE n == Len(s)
           front == SubSeq(s, 1, i - 1)
           back == SubSeq(s, i, n)
           t == InsertAt(s, i, e)
<1>1. n \in Nat /\ (\A j \in 1 .. n : s[j] \in S) /\ s \in Seq(Nat) /\ e \in Nat
  BY SeqOfNat
<1>2. /\ front \in Seq(S) /\ Len(front) = i - 1
      /\ \A j \in 1 .. (i - 1) : front[j] = s[j]
  BY <1>1, SubSeqProperties
<1>3. /\ back \in Seq(S) /\ Len(back) = n - i + 1
      /\ \A j \in 1 .. (n - i + 1) : back[j] = s[i + j - 1]
  BY <1>1, SubSeqProperties
<1> HIDE DEF front, back
<1>4. <<e>> \in Seq(S) /\ Len(<<e>>) = 1 /\ <<e>>[1] = e
  OBVIOUS
<1>5. /\ front \o <<e>> \in Seq(S) /\ Len(front \o <<e>>) = i
      /\ \A j \in 1 .. i : (front \o <<e>>)[j] = IF j < i THEN s[j] ELSE e
  BY <1>2, <1>4, ConcatProperties
<1>6. t = (front \o <<e>>) \o back
  BY DEF InsertAt, front, back
<1>7. /\ t \in Seq(S) /\ Len(t) = n + 1
      /\ \A j \in 1 .. (n + 1) : t[j] = IF j < i THEN s[j] ELSE IF j = i THEN e ELSE s[j - 1]
  <2>1. /\ t \in Seq(S) /\ Len(t) = i + (n - i + 1)
        /\ \A j \in 1 .. i + (n - i + 1) :
               t[j] = IF j <= i THEN (front \o <<e>>)[j] ELSE back[j - i]
    BY <1>3, <1>5, <1>6, ConcatProperties
  <2>2. i + (n - i + 1) = n + 1 /\ i \in Nat
    BY <1>1
  <2>3. ASSUME NEW j \in 1 .. (n + 1), j > i PROVE t[j] = s[j - 1]
    <3>1. j - i \in 1 .. (n - i + 1) /\ i + (j - i) - 1 = j - 1 /\ ~(j <= i)
      BY <1>1, <2>2, <2>3
    <3> QED BY <1>3, <2>1, <2>2, <3>1
  <2>4. ASSUME NEW j \in 1 .. (n + 1), j <= i PROVE t[j] = IF j < i THEN s[j] ELSE e
    BY <1>5, <2>1, <2>2, <2>4
  <2> HIDE DEF t
  <2> QED BY <2>1, <2>2, <2>3, <2>4
<1> HIDE DEF t
<1>8. PICK P \in [0 .. n -> Nat] : IsSum(P, s) /\ Total(s) = P[n]
  BY <1>1, SumExists
<1> DEFINE Q == [j \in 0 .. (n + 1) |-> IF j < i THEN P[j] ELSE P[j - 1] + e]
<1> HIDE DEF n
<1>9. Q[0] = 0
  BY <1>1, <1>8 DEF IsSum, n
<1>10. ASSUME NEW j \in 1 .. (n + 1) PROVE Q[j] = Q[j - 1] + t[j]
  <2>1. i \in 1 .. (n + 1) /\ n \in Nat
    BY <1>1 DEF n
  <2>2. \A k \in 1 .. n : P[k] = P[k - 1] + s[k]
    BY <1>8 DEF IsSum, n
  <2>3. CASE j < i
    <3>1. j \in 1 .. n /\ j - 1 < i /\ j - 1 \in 0 .. n + 1 /\ j \in 0 .. n + 1
      BY <2>1, <2>3
    <3>2. Q[j] = P[j] /\ Q[j - 1] = P[j - 1] /\ t[j] = s[j]
      BY <1>7, <2>3, <3>1
    <3> HIDE DEF Q
    <3> QED BY <2>2, <3>1, <3>2
  <2>4. CASE j = i
    BY <1>7, <2>1, <2>4
  <2>5. CASE j > i
    <3>1. j - 1 \in 1 .. n /\ j - 1 - 1 \in 0 .. n /\ ~(j - 1 < i) /\ j # i /\ ~(j < i)
      BY <2>1, <2>5
    <3>2. P[j - 1] = P[j - 1 - 1] + s[j - 1] /\ t[j] = s[j - 1]
      BY <1>7, <2>2, <3>1
    <3>3. Q[j] = P[j - 1] + e /\ Q[j - 1] = P[j - 1 - 1] + e
      BY <2>1, <3>1
    <3>4. P[j - 1 - 1] \in Nat /\ s[j - 1] \in Nat
      BY <1>1, <1>8, <3>1
    <3> DEFINE p == P[j - 1 - 1]
               x == s[j - 1]
    <3> HIDE DEF Q, p, x
    <3>5. p \in Nat /\ x \in Nat /\ e \in Nat
      BY <1>1, <3>4 DEF p, x
    <3>6. Q[j] = (p + x) + e /\ Q[j - 1] = p + e /\ t[j] = x
      BY <3>2, <3>3 DEF p, x
    <3> QED BY <3>5, <3>6
  <2>6. j < i \/ j = i \/ j > i
    BY <2>1
  <2> HIDE DEF Q
  <2> QED BY <2>3, <2>4, <2>5, <2>6
<1>11. Q[n + 1] = P[n] + e
  BY <1>1, <1>8 DEF n
<1> HIDE DEF Q
<1>12. t \in Seq(Nat)
  BY <1>7, SeqOfNat
<1>13. IsSum(Q, t)
  BY <1>7, <1>9, <1>10 DEF IsSum
<1>14. Total(t) = Q[n + 1]
  BY <1>7, <1>12, <1>13, TotalIs
<1>15. i \in 1 .. (n + 1) /\ DOMAIN t = 1 .. (n + 1)
  BY <1>1, <1>7, LenProperties DEF n
<1>16. t[i] = e
  BY <1>1, <1>7, <1>15
<1> QED BY <1>7, <1>8, <1>11, <1>14, <1>15, <1>16 DEF t, n

LEMMA TotalOfReplace ==
  ASSUME NEW S \in SUBSET Nat, NEW s \in Seq(S), NEW i \in 1 .. Len(s), NEW e \in S
  PROVE  /\ ReplaceAt(s, i, e) \in Seq(S)
         /\ i \in DOMAIN ReplaceAt(s, i, e) /\ ReplaceAt(s, i, e)[i] = e
         /\ Total(ReplaceAt(s, i, e)) <= Total(s) + e
<1> DEFINE n == Len(s)
           t == ReplaceAt(s, i, e)
<1>1. n \in Nat /\ (\A j \in 1 .. n : s[j] \in S) /\ s \in Seq(Nat) /\ e \in Nat
  BY SeqOfNat
<1>2. /\ t \in Seq(S) /\ Len(t) = n
      /\ \A j \in 1 .. n : t[j] = IF j = i THEN e ELSE s[j]
  BY ExceptSeq DEF ReplaceAt
<1> HIDE DEF t
<1>3. PICK P \in [0 .. n -> Nat] : IsSum(P, s) /\ Total(s) = P[n]
  BY <1>1, SumExists
<1> DEFINE Q == [j \in 0 .. n |-> IF j < i THEN P[j] ELSE P[j] + e - s[i]]
<1> HIDE DEF n
<1>4. i \in 1 .. n /\ s[i] \in Nat
  BY <1>1 DEF n
<1>5. Q[0] = 0
  BY <1>1, <1>3, <1>4 DEF IsSum
<1>6. ASSUME NEW j \in 1 .. n PROVE Q[j] = Q[j - 1] + t[j]
  <2>1. P[j] = P[j - 1] + s[j]
    BY <1>3 DEF IsSum, n
  <2>2. j - 1 \in 0 .. n /\ P[j - 1] \in Nat /\ s[j] \in Nat
    <3>1. j - 1 \in 0 .. n
      BY <1>1
    <3>2. P[j - 1] \in Nat
      BY <1>3, <3>1 DEF n
    <3> QED BY <1>1, <3>1, <3>2 DEF n
  <2>3. CASE j < i
    BY <1>2, <1>4, <2>1, <2>2, <2>3
  <2>4. CASE j = i
    BY <1>1, <1>2, <1>4, <2>1, <2>2, <2>4
  <2>5. CASE j > i
    <3>1. t[j] = s[j] /\ Q[j] = P[j] + e - s[i] /\ Q[j - 1] = P[j - 1] + e - s[i]
      BY <1>2, <1>4, <2>2, <2>5
    <3> DEFINE p == P[j - 1]
               x == s[j]
    <3> HIDE DEF Q, p, x
    <3>2. p \in Nat /\ x \in Nat /\ e \in Nat /\ s[i] \in Nat
      BY <1>1, <1>4, <2>2 DEF p, x
    <3>3. Q[j] = (p + x) + e - s[i] /\ Q[j - 1] = p + e - s[i] /\ t[j] = x
      BY <2>1, <3>1 DEF p, x
    <3> QED BY <3>2, <3>3
  <2>6. j < i \/ j = i \/ j > i
    BY <1>4
  <2> HIDE DEF Q
  <2> QED BY <2>3, <2>4, <2>5, <2>6
<1>7. Q[n] = P[n] + e - s[i] /\ P[n] \in Nat
  BY <1>1, <1>3, <1>4
<1> HIDE DEF Q
<1>8. t \in Seq(Nat)
  BY <1>2, SeqOfNat
<1>9. IsSum(Q, t)
  BY <1>2, <1>5, <1>6 DEF IsSum
<1>10. Total(t) = Q[n]
  BY <1>2, <1>8, <1>9, TotalIs
<1>11. Total(t) <= Total(s) + e
  BY <1>1, <1>3, <1>4, <1>7, <1>10
<1>12. DOMAIN t = 1 .. n
  BY <1>2, LenProperties
<1> QED BY <1>2, <1>4, <1>11, <1>12 DEF t

-----------------------------------------------------------------------------
(* Where a node is cut.                                                    *)

\* No entry takes more than half of what the page can hold.
SmallEntries(b, s) == \A i \in DOMAIN s : 2 * s[i] <= PageSize - b

HasPointers(b, s) == b = InternalBase => \A i \in DOMAIN s : s[i] >= InternalEntrySize(0)

\* A node that is larger than its page by less than one of its entries, and
\* of which no entry takes more than half of the page, is cut into two halves
\* that fit: the loop stops early enough for the left one, and not so early
\* that too much is left for the right one.
LEMMA SmallEntriesFit ==
  ASSUME NEW b \in {LeafBase, InternalBase}, NEW s \in Seq(Nat), Overflows(b, s),
         NEW last \in DOMAIN s, NodeSize(b, s) <= PageSize + s[last],
         SmallEntries(b, s), HasPointers(b, s)
  PROVE  SplitFits(b, s)
<1> DEFINE n == Len(s)
           room == PageSize - b
<1>1. /\ n \in Nat /\ DOMAIN s = 1 .. n
      /\ b \in Nat /\ room \in Nat /\ PageSize = b + room /\ room >= 20
      /\ (b = LeafBase => b = 11 /\ room >= 28) /\ (b # LeafBase => b = 19)
  BY PageSizeAssumption, LenProperties DEF LeafBase, InternalBase
<1>2. \A i \in 1 .. n : s[i] \in Nat /\ 2 * s[i] <= room
  BY <1>1, ElementOfSeq DEF SmallEntries
<1>3. PICK P \in [0 .. n -> Nat] : IsSum(P, s) /\ Total(s) = P[n]
  BY SumExists
<1> HIDE DEF n, room
<1>4. \A i \in 1 .. n : P[i] = P[i - 1] + s[i] /\ i - 1 \in 0 .. n /\ P[i] \in Nat /\ P[i - 1] \in Nat
  <2>1. \A i \in 1 .. n : i - 1 \in 0 .. n /\ i \in 0 .. n
    BY <1>1
  <2> QED BY <1>3, <2>1 DEF IsSum, n
<1>5. /\ last \in 1 .. n /\ P[n] \in Nat /\ P[n] > room /\ P[n] <= room + s[last]
      /\ 2 * P[n] <= 3 * room
  <2>1. NodeSize(b, s) = b + P[n] /\ last \in 1 .. n
    BY <1>1, <1>3 DEF NodeSize, Total
  <2>2. P[n] \in Nat /\ s[last] \in Nat /\ 2 * s[last] <= room
    BY <1>1, <1>2, <1>3, <2>1
  <2> DEFINE pn == P[n]
             x == s[last]
  <2> HIDE DEF pn, x
  <2>3. b + pn > b + room /\ b + pn <= b + room + x
    BY <1>1, <2>1 DEF Overflows, pn, x
  <2>4. pn > room /\ pn <= room + x /\ 2 * pn <= 3 * room
    <3>1. pn \in Nat /\ x \in Nat /\ 2 * x <= room
      BY <2>2 DEF pn, x
    <3> QED BY <1>1, <2>3, <3>1
  <2> QED BY <2>1, <2>2, <2>4 DEF pn, x
<1>6. \A i \in 1 .. n : NodeSize(b, SubSeq(s, 1, i)) = b + P[i]
  <2> TAKE i \in 1 .. n
  <2>1. Total(SubSeq(s, 1, i)) = P[i] - P[1 - 1]
    <3>1. 1 \in 1 .. n + 1 /\ i \in 0 .. n /\ 1 <= i + 1
      BY <1>1
    <3> QED BY <1>3, <3>1, TotalOfSubSeq DEF n
  <2>2. P[0] = 0 /\ P[i] \in Nat
    BY <1>3, <1>4 DEF IsSum
  <2> QED BY <2>1, <2>2 DEF NodeSize, Total
<1>7. \A i \in 1 .. (n + 1) : Total(SubSeq(s, i, n)) = P[n] - P[i - 1]
  <2> TAKE i \in 1 .. (n + 1)
  <2>1. n \in 0 .. n /\ i <= n + 1
    BY <1>1
  <2> QED BY <1>3, <2>1, TotalOfSubSeq DEF n
<1>8. n > 1 /\ P[1] <= room
  <2>1. P[0] = 0 /\ n # 0
    BY <1>3, <1>1, <1>5 DEF IsSum
  <2>2. 1 \in 1 .. n
    BY <1>1, <2>1
  <2>3. P[1] = s[1] /\ s[1] \in Nat /\ 2 * s[1] <= room
    BY <1>2, <1>4, <2>1, <2>2
  <2> QED BY <1>1, <1>5, <2>1, <2>3
<1> DEFINE half == NodeSize(b, s) \div 2
           Left(i) == NodeSize(b, SubSeq(s, 1, i))
           Before(i) == i > 1 /\ Left(i) > PageSize
           Behind(i) == i < n /\ Left(i) >= half
           stops == {i \in 1 .. n : Before(i) \/ Behind(i)}
           first == CHOOSE i \in stops : \A j \in stops : i <= j
           r == SplitIndex(b, s)
<1>9. r = IF stops = {} THEN 1 ELSE IF Before(first) THEN first - 1 ELSE first
  BY DEF SplitIndex, n
<1>10. n \in stops
  BY <1>1, <1>5, <1>6, <1>8
<1>11. first \in stops /\ \A j \in stops : first <= j
  <2>1. stops \in SUBSET Nat
    BY <1>1
  <2>2. \E i \in stops : \A j \in stops : i <= j
    BY <1>10, <2>1, NatSetHasMin
  <2> HIDE DEF stops
  <2> QED BY <2>2
<1>12. 2 * half <= b + P[n] /\ 2 * half >= b + P[n] - 1 /\ half \in Nat
  <2>1. NodeSize(b, s) = b + P[n]
    BY <1>3 DEF NodeSize, Total
  <2> DEFINE m == NodeSize(b, s)
  <2>2. m \in Nat
    BY <1>1, <1>5, <2>1
  <2> HIDE DEF m
  <2>3. half = m \div 2
    BY DEF m
  <2>4. 2 * half <= m /\ 2 * half >= m - 1 /\ half \in Nat
    BY <2>2, <2>3
  <2>5. m = b + P[n]
    BY <2>1 DEF m
  <2> HIDE DEF half
  <2> QED BY <1>1, <1>5, <2>2, <2>4, <2>5
<1>13. first \in 1 .. n /\ (Before(first) \/ Behind(first))
  BY <1>11
<1> HIDE DEF first
<1>14. /\ r \in 1 .. (n - 1) /\ P[r] <= room
       /\ 2 * P[r] > room \/ 2 * P[r] + 1 + b >= P[n]
  <2>1. CASE Before(first)
    <3>1. r = first - 1
      BY <1>9, <1>10, <2>1
    <3>2. r \in 1 .. (n - 1) /\ r \in 1 .. n /\ r < first
      BY <1>1, <1>13, <2>1, <3>1
    <3>3. r \notin stops
      BY <1>1, <1>11, <1>13, <3>2
    <3>4. ~Before(r)
      BY <3>2, <3>3
    <3>5. P[r] <= room
      <4>1. CASE r = 1
        BY <1>8, <4>1
      <4>2. CASE r > 1
        <5>1. ~(b + P[r] > PageSize) /\ P[r] \in Nat
          BY <1>4, <1>6, <3>2, <3>4, <4>2
        <5> QED BY <1>1, <5>1
      <4> HIDE DEF r
      <4> QED BY <3>2, <4>1, <4>2
    <3>6. P[first] = P[r] + s[first] /\ P[first] > room
      <4>1. P[first] = P[r] + s[first] /\ P[first] \in Nat
        BY <1>4, <1>13, <3>1
      <4>2. b + P[first] > PageSize
        BY <1>6, <1>13, <2>1
      <4> QED BY <1>1, <4>1, <4>2
    <3>7. 2 * P[r] > room
      <4> DEFINE p == P[r]
                 x == s[first]
      <4>1. p \in Nat /\ x \in Nat /\ 2 * x <= room
        BY <1>2, <1>4, <1>13, <3>2
      <4>2. p + x > room
        BY <3>6
      <4> HIDE DEF p, x
      <4>3. 2 * p > room
        BY <1>1, <4>1, <4>2
      <4> QED BY <4>3 DEF p
    <3> QED BY <3>2, <3>5, <3>7
  <2>2. CASE ~Before(first)
    <3>1. r = first /\ Behind(first)
      BY <1>9, <1>10, <1>13, <2>2
    <3>2. r \in 1 .. (n - 1) /\ r \in 1 .. n
      BY <1>1, <1>13, <3>1
    <3>3. P[r] <= room
      <4>1. CASE r = 1
        BY <1>8, <4>1
      <4>2. CASE r > 1
        <5>1. ~(b + P[r] > PageSize) /\ P[r] \in Nat
          BY <1>4, <1>6, <2>2, <3>1, <3>2, <4>2
        <5> QED BY <1>1, <5>1
      <4> HIDE DEF r
      <4> QED BY <3>2, <4>1, <4>2
    <3>4. b + P[r] >= half /\ P[r] \in Nat
      BY <1>4, <1>6, <3>1, <3>2
    <3>5. 2 * P[r] + 1 + b >= P[n]
      <4> DEFINE p == P[r]
                 pn == P[n]
                 h == half
      <4>1. b + p >= h /\ p \in Nat /\ pn \in Nat /\ 2 * h >= b + pn - 1 /\ h \in Nat
        BY <1>5, <1>12, <3>4
      <4> HIDE DEF p, pn, h
      <4>2. 2 * p + 1 + b >= pn
        BY <1>1, <4>1
      <4> QED BY <4>2 DEF p, pn
    <3> QED BY <3>2, <3>3, <3>5
  <2> QED BY <2>1, <2>2
<1> HIDE DEF r
<1>15. ~SplitHasNoKey(b, s)
  BY <1>1, <1>14 DEF SplitHasNoKey, r, n
<1>16. ~Overflows(b, LeftHalf(b, s))
  <2>1. NodeSize(b, LeftHalf(b, s)) = b + P[r] /\ P[r] \in Nat
    <3>1. r \in 1 .. n
      BY <1>1, <1>14
    <3> QED BY <1>4, <1>6, <3>1 DEF LeftHalf, r
  <2> QED BY <1>1, <1>14, <2>1 DEF Overflows
<1>17. ~Overflows(b, RightHalf(b, s))
  <2>1. r \in 1 .. n /\ P[r] \in Nat
    BY <1>1, <1>4, <1>14
  <2>2. CASE b = LeafBase
    <3>1. RightHalf(b, s) = SubSeq(s, r + 1, n)
      BY <2>2 DEF RightHalf, r, n
    <3>2. Total(SubSeq(s, r + 1, n)) = P[n] - P[r]
      <4> DEFINE k == r + 1
      <4>1. k \in 1 .. (n + 1) /\ k - 1 = r
        BY <1>1, <2>1
      <4> HIDE DEF k
      <4>2. Total(SubSeq(s, k, n)) = P[n] - P[r]
        BY <1>7, <4>1
      <4> QED BY <4>2 DEF k
    <3>3. P[n] - P[r] <= room
      <4> DEFINE p == P[r]
                 pn == P[n]
      <4>1. /\ p \in Nat /\ pn \in Nat /\ 2 * pn <= 3 * room
            /\ 2 * p > room \/ 2 * p + 1 + b >= pn
        BY <1>5, <1>14, <2>1
      <4>2. room \in Nat /\ room >= 28 /\ b = 11
        BY <1>1, <2>2
      <4> HIDE DEF p, pn
      <4>3. pn - p <= room
        BY <4>1, <4>2
      <4> QED BY <4>3 DEF p, pn
    <3>4. P[n] - P[r] \in Int /\ NodeSize(b, RightHalf(b, s)) = b + (P[n] - P[r])
      BY <1>5, <2>1, <3>1, <3>2 DEF NodeSize, Total
    <3> QED BY <1>1, <3>3, <3>4 DEF Overflows
  <2>3. CASE b # LeafBase
    <3>1. RightHalf(b, s) = SubSeq(s, r + 2, n)
      BY <2>3 DEF RightHalf, r, n
    <3>2. r + 1 \in 1 .. n /\ r + 2 \in 1 .. (n + 1) /\ r + 2 - 1 = r + 1 /\ r + 1 - 1 = r
      BY <1>1, <1>14
    <3>3. Total(SubSeq(s, r + 2, n)) = P[n] - P[r + 1]
      <4> DEFINE k == r + 2
      <4>1. k \in 1 .. (n + 1) /\ k - 1 = r + 1
        BY <1>1, <1>14
      <4> HIDE DEF k
      <4>2. Total(SubSeq(s, k, n)) = P[n] - P[r + 1]
        BY <1>7, <4>1
      <4> QED BY <4>2 DEF k
    <3>4. P[r + 1] = P[r] + s[r + 1] /\ s[r + 1] >= 10 /\ s[r + 1] \in Nat /\ P[r + 1] \in Nat
      <4>1. s[r + 1] >= InternalEntrySize(0)
        BY <1>1, <2>3, <3>2 DEF HasPointers
      <4>2. InternalEntrySize(0) = 10
        BY DEF InternalEntrySize
      <4> DEFINE k == r + 1
      <4>3. k \in 1 .. n /\ k - 1 = r
        BY <1>1, <1>14
      <4> HIDE DEF k
      <4>4. P[k] = P[r] + s[k] /\ P[k] \in Nat /\ s[k] \in Nat
        BY <1>2, <1>4, <4>3
      <4> QED BY <4>1, <4>2, <4>4 DEF k
    <3>5. P[n] - P[r + 1] <= room
      <4> DEFINE p == P[r]
                 pn == P[n]
                 x == s[r + 1]
      <4>1. /\ p \in Nat /\ pn \in Nat /\ 2 * pn <= 3 * room
            /\ 2 * p > room \/ 2 * p + 1 + b >= pn
        BY <1>5, <1>14, <2>1
      <4>2. room \in Nat /\ room >= 20 /\ b = 19
        BY <1>1, <2>3
      <4>3. x \in Nat /\ x >= 10 /\ P[r + 1] = p + x
        BY <3>4
      <4> HIDE DEF p, pn, x
      <4>4. pn - (p + x) <= room
        BY <4>1, <4>2, <4>3
      <4> QED BY <4>3, <4>4 DEF pn
    <3>6. P[n] - P[r + 1] \in Int /\ NodeSize(b, RightHalf(b, s)) = b + (P[n] - P[r + 1])
      BY <1>5, <3>1, <3>3, <3>4 DEF NodeSize, Total
    <3> QED BY <1>1, <3>5, <3>6 DEF Overflows
  <2> QED BY <2>2, <2>3
<1> QED BY <1>15, <1>16, <1>17 DEF SplitFits

LEMMA HalvesAreSeq ==
  ASSUME NEW b, NEW S, NEW s \in Seq(S), ~SplitHasNoKey(b, s)
  PROVE  LeftHalf(b, s) \in Seq(S) /\ RightHalf(b, s) \in Seq(S)
<1> DEFINE n == Len(s)
           half == NodeSize(b, s) \div 2
           Left(i) == NodeSize(b, SubSeq(s, 1, i))
           Before(i) == i > 1 /\ Left(i) > PageSize
           Behind(i) == i < n /\ Left(i) >= half
           stops == {i \in 1 .. n : Before(i) \/ Behind(i)}
           first == CHOOSE i \in stops : \A j \in stops : i <= j
           r == SplitIndex(b, s)
<1>1. n \in Nat /\ \A i \in 1 .. n : s[i] \in S
  BY ElementOfSeq
<1>2. r = IF stops = {} THEN 1 ELSE IF Before(first) THEN first - 1 ELSE first
  BY DEF SplitIndex
<1>3. r \in 1 .. n \/ r = 1
  <2>1. CASE stops = {}
    BY <1>2, <2>1
  <2>2. CASE stops # {}
    <3>1. stops \in SUBSET Nat /\ stops \in SUBSET (1 .. n)
      BY <1>1
    <3>2. \E i \in stops : \A j \in stops : i <= j
      BY <2>2, <3>1, NatSetHasMin
    <3>3. first \in 1 .. n
      <4> HIDE DEF stops
      <4> QED BY <3>1, <3>2
    <3> HIDE DEF first, stops
    <3>4. CASE Before(first)
      <4>1. r = first - 1 /\ first > 1
        BY <1>2, <2>2, <3>4
      <4> QED BY <1>1, <3>3, <4>1
    <3>5. CASE ~Before(first)
      BY <1>2, <2>2, <3>3, <3>5
    <3> QED BY <3>4, <3>5
  <2> QED BY <2>1, <2>2
<1> HIDE DEF r, n
<1>4. r \in Nat /\ r < n
  BY <1>1, <1>3 DEF SplitHasNoKey, r, n
<1>5. LeftHalf(b, s) \in Seq(S)
  <2>1. \A i \in 1 .. r : s[i] \in S
    BY <1>1, <1>4
  <2>2. SubSeq(s, 1, r) \in Seq(S)
    BY <1>4, <2>1, SubSeqProperties
  <2> QED BY <2>2 DEF LeftHalf, r
<1>6. RightHalf(b, s) \in Seq(S)
  <2> DEFINE a == r + (IF b = LeafBase THEN 1 ELSE 2)
  <2>1. a \in Nat /\ a > 0
    BY <1>4
  <2>2. RightHalf(b, s) = SubSeq(s, a, n)
    BY DEF RightHalf, r, n
  <2> HIDE DEF a
  <2>3. \A i \in a .. n : s[i] \in S
    BY <1>1, <2>1
  <2> QED BY <1>1, <2>1, <2>2, <2>3, SubSeqProperties
<1> QED BY <1>5, <1>6

-----------------------------------------------------------------------------
(* The invariant.                                                          *)

\* A node with an entry that does not fit is larger than its page by less than
\* some entry: what was on the page before did fit.
GrownByOne ==
    Overflows(base, grown) =>
        \E i \in DOMAIN grown : NodeSize(base, grown) <= PageSize + grown[i]

GrowthInv == TypeOK /\ GrownByOne

LEMMA EntriesAreNat == Entries \in SUBSET Nat
  BY EntrySizesAssumption DEF Entries

LEMMA EmptyIsSmall == Total(<<>>) = 0
<1> DEFINE P == [i \in 0 .. 0 |-> 0]
<1>1. <<>> \in Seq(Nat) /\ Len(<<>>) = 0 /\ IsSum(P, <<>>)
  BY DEF IsSum
<1> QED BY <1>1, TotalIs

LEMMA GrowthInit == Init => GrowthInv
<1> SUFFICES ASSUME Init PROVE GrowthInv
  OBVIOUS
<1>1. CASE base = LeafBase /\ sizes = <<>>
  <2>1. ~Overflows(base, sizes)
    BY <1>1, EmptyIsSmall, PageSizeAssumption DEF Overflows, NodeSize, Total, LeafBase, InternalBase
  <2> QED BY <1>1, <2>1 DEF Init, GrowthInv, TypeOK, GrownByOne
<1>2. CASE base = InternalBase /\ \E e \in Entries : sizes = <<e>> /\ ~Overflows(base, sizes)
  BY <1>2 DEF Init, GrowthInv, TypeOK, GrownByOne
<1> QED BY <1>1, <1>2 DEF Init

\* What a put leaves of a node, when it tried to store s.
LEMMA StoresKeeps ==
  ASSUME GrowthInv, NEW s \in Seq(Entries), Stores(s), NEW i \in DOMAIN s,
         NodeSize(base, s) <= PageSize + s[i]
  PROVE  GrowthInv'
<1>1. base' = base /\ Entries' = Entries /\ grown' = s
  BY DEF Stores, Entries
<1>2. sizes' \in Seq(Entries) /\ ~Overflows(base, sizes')
  <2>1. CASE ~Overflows(base, s)
    BY <2>1 DEF Stores
  <2>2. CASE Overflows(base, s) /\ ~SplitFits(base, s)
    BY <2>2 DEF Stores, GrowthInv, TypeOK
  <2>3. CASE Overflows(base, s) /\ SplitFits(base, s)
    <3>1. sizes' \in {LeftHalf(base, s), RightHalf(base, s)}
      BY <2>3 DEF Stores
    <3>2. ~Overflows(base, LeftHalf(base, s)) /\ ~Overflows(base, RightHalf(base, s))
      BY <2>3 DEF SplitFits
    <3> QED BY <2>3, <3>1, <3>2, HalvesAreSeq DEF SplitFits
  <2> QED BY <2>1, <2>2, <2>3
<1>3. TypeOK'
  BY <1>1, <1>2 DEF TypeOK, GrowthInv, Overflows, NodeSize
<1>4. GrownByOne'
  BY <1>1 DEF GrownByOne, Overflows, NodeSize
<1> QED BY <1>3, <1>4 DEF GrowthInv

LEMMA GrowthStep ==
  ASSUME GrowthInv, [Next]_vars
  PROVE  GrowthInv'
<1>1. sizes \in Seq(Entries) /\ ~Overflows(base, sizes) /\ base \in {LeafBase, InternalBase}
  BY DEF GrowthInv, TypeOK
<1>2. sizes \in Seq(Nat)
  BY <1>1, EntriesAreNat, SeqOfNat
<1>3. PICK P \in [0 .. Len(sizes) -> Nat] : Total(sizes) = P[Len(sizes)]
  BY <1>2, SumExists
<1>4. Total(sizes) \in Nat /\ base \in Nat /\ base + Total(sizes) <= PageSize
  BY <1>1, <1>3, PageSizeAssumption DEF Overflows, NodeSize, Total, LeafBase, InternalBase
<1>5. ASSUME NEW i \in 1 .. (Len(sizes) + 1), NEW e \in Entries, InsertEntry(i, e)
      PROVE  GrowthInv'
  <2> DEFINE s == InsertAt(sizes, i, e)
  <2>1. s \in Seq(Entries) /\ i \in DOMAIN s /\ s[i] = e /\ Total(s) = Total(sizes) + e
    BY <1>1, EntriesAreNat, TotalOfInsert
  <2>2. NodeSize(base, s) <= PageSize + s[i]
    <3>1. NodeSize(base, s) = base + (Total(sizes) + e) /\ e \in Nat
      BY <2>1, EntriesAreNat DEF NodeSize, Total
    <3> QED BY <1>4, <2>1, <3>1, PageSizeAssumption
  <2>3. Stores(s)
    BY <1>5 DEF InsertEntry
  <2> QED BY <2>1, <2>2, <2>3, StoresKeeps
<1>6. ASSUME NEW i \in 1 .. Len(sizes), NEW e \in Entries, ChangeEntry(i, e)
      PROVE  GrowthInv'
  <2> DEFINE s == ReplaceAt(sizes, i, e)
  <2>1. s \in Seq(Entries) /\ i \in DOMAIN s /\ s[i] = e /\ Total(s) <= Total(sizes) + e
    BY <1>1, EntriesAreNat, TotalOfReplace
  <2>2. NodeSize(base, s) <= PageSize + s[i]
    <3>1. NodeSize(base, s) = base + Total(s) /\ e \in Nat /\ Total(s) \in Nat
      <4>1. s \in Seq(Nat)
        BY <2>1, EntriesAreNat, SeqOfNat
      <4>2. PICK Q \in [0 .. Len(s) -> Nat] : Total(s) = Q[Len(s)]
        BY <4>1, SumExists
      <4>3. Len(s) \in 0 .. Len(s)
        BY <4>1
      <4> QED BY <4>2, <4>3, EntriesAreNat DEF NodeSize, Total
    <3> QED BY <1>4, <2>1, <3>1, PageSizeAssumption
  <2>3. Stores(s)
    BY <1>6 DEF ChangeEntry
  <2> QED BY <2>1, <2>2, <2>3, StoresKeeps
<1>7. CASE UNCHANGED vars
  BY <1>7 DEF vars, GrowthInv, TypeOK, GrownByOne, Entries, Overflows, NodeSize
<1> QED BY <1>5, <1>6, <1>7 DEF Next

THEOREM GrowthInvariance == Spec => []GrowthInv
<1>1. Init => GrowthInv
  BY GrowthInit
<1>2. GrowthInv /\ [Next]_vars => GrowthInv'
  BY GrowthStep
<1> QED BY <1>1, <1>2, PTL DEF Spec

\* A node never holds more than its page can hold (_upsert_leaf and
\* _upsert_internal, btree.py), whatever the sizes of the entries are.
THEOREM GrowthTypeCorrect == Spec => []TypeOK
<1>1. GrowthInv => TypeOK
  BY DEF GrowthInv
<1> QED BY <1>1, GrowthInvariance, PTL

\* As long as no entry takes more than half of what a page can hold, every
\* split of _split_leaf and _split_internal gives two halves that fit.
THEOREM SmallEntriesAreSplit == Spec => []SmallEntriesSplit
<1>1. ASSUME GrowthInv PROVE SmallEntriesSplit
  <2> SUFFICES ASSUME Overflows(base, grown), \A i \in DOMAIN grown : 2 * grown[i] <= PageSize - base
               PROVE  SplitFits(base, grown)
    BY DEF SmallEntriesSplit
  <2>1. PICK i \in DOMAIN grown : NodeSize(base, grown) <= PageSize + grown[i]
    BY <1>1 DEF GrowthInv, GrownByOne
  <2>2. grown \in Seq(Entries) /\ base \in {LeafBase, InternalBase}
    BY <1>1 DEF GrowthInv, TypeOK
  <2>3. grown \in Seq(Nat) /\ \A j \in DOMAIN grown : grown[j] \in Entries
    BY <2>2, EntriesAreNat, SeqOfNat
  <2>4. SmallEntries(base, grown)
    BY DEF SmallEntries
  <2>5. HasPointers(base, grown)
    BY <2>3 DEF HasPointers, Entries, LeafBase, InternalBase
  <2> QED BY <2>1, <2>2, <2>3, <2>4, <2>5, SmallEntriesFit
<1> QED BY <1>1, GrowthInvariance, PTL
=============================================================================
