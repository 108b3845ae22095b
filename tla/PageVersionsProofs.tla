------------------------- MODULE PageVersionsProofs -------------------------
(***************************************************************************)
(* No page is written while somebody needs it, for any number of gets, of  *)
(* puts and of pages.                                                      *)
(***************************************************************************)
EXTENDS PageVersions, TLAPS

PageTypes ==
    /\ 0 \in DOMAIN file
    /\ tree \subseteq DOMAIN file \ {0} /\ saved \subseteq DOMAIN file \ {0}
    /\ free \subseteq DOMAIN file \ {0} /\ hand \subseteq DOMAIN file \ {0}
    /\ orphans \subseteq DOMAIN file \ {0}
    /\ DOMAIN retired \subseteq DOMAIN file \ {0}
    /\ \A p \in DOMAIN retired : retired[p] \in Nat

VersionTypes ==
    /\ version \in Nat
    /\ active \in [Reader -> Nat \cup {None}]
    /\ \A r \in Reader : active[r] # None => active[r] <= version
    /\ reading \in [Reader -> SUBSET (DOMAIN file)]

\* Every page has one place, and what page 0 names is not retired yet.
PagesApart ==
    /\ saved \subseteq tree \cup orphans
    /\ tree \cap orphans = {}
    /\ (tree \cup orphans) \cap DOMAIN retired = {}
    /\ (tree \cup orphans \cup DOMAIN retired) \cap (free \cup hand) = {}
    /\ free \cap hand = {}

\* What a get may read is current, or retired under a version that it pins.
GetsPin ==
    \A r \in Reader :
        /\ reading[r] # {} => active[r] # None
        /\ \A p \in reading[r] :
              \/ p \in tree \cup orphans
              \/ p \in DOMAIN retired /\ active[r] <= retired[p]

PageInv == PageTypes /\ VersionTypes /\ PagesApart /\ GetsPin

LEMMA PagesInit == Init => PageInv
  BY DEF Init, PageInv, PageTypes, VersionTypes, PagesApart, GetsPin

-----------------------------------------------------------------------------
(* One lemma per group of actions.                                         *)

LEMMA CreateKeeps ==
  ASSUME PageInv, Create
  PROVE  PageInv'
<1>1. PageTypes' /\ VersionTypes'
  BY DEF Create, PageInv, PageTypes, VersionTypes, WritesTo, NewPages
<1>2. PagesApart'
  BY DEF Create, PageInv, PageTypes, PagesApart, NewPages, Kept
<1>3. GetsPin'
  BY DEF Create, PageInv, GetsPin, Kept
<1> QED BY <1>1, <1>2, <1>3 DEF PageInv

\* The list and the put exchange pages, and take new ones.
LEMMA HandKeeps ==
  ASSUME PageInv, Allocate \/ Write \/ Release \/ Raise
  PROVE  PageInv'
<1>1. /\ DOMAIN file \subseteq DOMAIN file'
      /\ free' \subseteq free \cup hand \cup NewPages
      /\ hand' \subseteq free \cup hand \cup NewPages
      /\ UNCHANGED <<tree, saved, orphans, retired, version, active, reading>>
  BY DEF Allocate, Write, Release, Raise, WritesTo, NewPages
<1>2. NewPages \subseteq DOMAIN file' /\ NewPages \cap DOMAIN file = {}
  BY DEF NewPages
<1>3. PageTypes'
  BY <1>1, <1>2 DEF PageInv, PageTypes
<1>4. VersionTypes'
  BY <1>1 DEF PageInv, VersionTypes
<1>5. PagesApart'
  <2>1. (free \cap hand)' = {}
    BY <1>2 DEF Allocate, Write, Release, Raise, PageInv, PageTypes, PagesApart
  <2> QED BY <1>1, <1>2, <2>1 DEF PageInv, PageTypes, PagesApart
<1>6. GetsPin'
  BY <1>1 DEF PageInv, GetsPin
<1> QED BY <1>3, <1>4, <1>5, <1>6 DEF PageInv

LEMMA CommitKeeps ==
  ASSUME PageInv, Commit
  PROVE  PageInv'
<1>1. PageTypes' /\ VersionTypes'
  BY DEF Commit, PageInv, PageTypes, VersionTypes
<1>2. PagesApart'
  BY DEF Commit, PageInv, PagesApart
<1>3. GetsPin'
  BY DEF Commit, PageInv, GetsPin
<1> QED BY <1>1, <1>2, <1>3 DEF PageInv

LEMMA PublishKeeps ==
  ASSUME PageInv, Publish
  PROVE  PageInv'
<1>1. DOMAIN file' = DOMAIN file
  BY DEF Publish, NewPages, WritesTo
<1>2. PageTypes' /\ VersionTypes'
  BY <1>1 DEF Publish, PageInv, PageTypes, VersionTypes
<1>3. PagesApart'
  BY DEF Publish, PageInv, PagesApart
<1>4. GetsPin'
  BY DEF Publish, PageInv, GetsPin
<1> QED BY <1>2, <1>3, <1>4 DEF PageInv

\* A page is retired under a version that is not before any that is pinned.
LEMMA RetireKeeps ==
  ASSUME PageInv, Retire
  PROVE  PageInv'
<1>1. /\ DOMAIN retired' = DOMAIN retired \cup orphans
      /\ \A p \in orphans : retired'[p] = version
      /\ \A p \in DOMAIN retired \ orphans : retired'[p] = retired[p]
  BY DEF Retire
<1>2. PageTypes'
  BY <1>1 DEF Retire, PageInv, PageTypes, VersionTypes
<1>3. VersionTypes'
  BY DEF Retire, PageInv, VersionTypes
<1>4. PagesApart'
  BY <1>1 DEF Retire, PageInv, PagesApart
<1>5. GetsPin'
  <2> SUFFICES ASSUME NEW r \in Reader, NEW p \in reading[r]
               PROVE  /\ active[r] # None
                      /\ \/ p \in tree
                         \/ p \in DOMAIN retired' /\ active[r] <= retired'[p]
    BY DEF Retire, GetsPin
  <2>1. active[r] # None /\ active[r] <= version
    BY DEF PageInv, GetsPin, VersionTypes
  <2>2. CASE p \in tree \cup orphans
    BY <1>1, <2>1, <2>2
  <2>3. CASE p \in DOMAIN retired /\ active[r] <= retired[p]
    BY <1>1, <2>1, <2>3 DEF PageInv, PagesApart
  <2> QED BY <2>1, <2>2, <2>3 DEF PageInv, GetsPin
<1> QED BY <1>2, <1>3, <1>4, <1>5 DEF PageInv

\* A page that a get may still read is not among those that come back.
LEMMA ReclaimKeeps ==
  ASSUME PageInv, Reclaim
  PROVE  PageInv'
<1> DEFINE pages == {p \in DOMAIN retired : Expired(retired[p])}
<1>1. /\ hand' = hand \cup pages /\ DOMAIN retired' = DOMAIN retired \ pages
      /\ \A p \in DOMAIN retired' : retired'[p] = retired[p]
      /\ UNCHANGED <<file, tree, saved, free, orphans, version, active, reading>>
  BY DEF Reclaim
<1>2. PageTypes' /\ VersionTypes'
  BY <1>1 DEF PageInv, PageTypes, VersionTypes
<1>3. PagesApart'
  BY <1>1 DEF PageInv, PagesApart
<1>4. GetsPin'
  <2> SUFFICES ASSUME NEW r \in Reader, NEW p \in reading[r]
               PROVE  /\ active[r] # None
                      /\ \/ p \in tree \cup orphans
                         \/ p \in DOMAIN retired' /\ active[r] <= retired'[p]
    BY <1>1 DEF GetsPin
  <2>1. active[r] # None /\ active[r] \in Nat
    BY DEF PageInv, GetsPin, VersionTypes
  <2>2. CASE p \in DOMAIN retired /\ active[r] <= retired[p]
    <3>1. retired[p] \in Nat /\ ~(retired[p] < active[r])
      BY <2>1, <2>2 DEF PageInv, PageTypes
    <3>2. p \notin pages
      BY <2>1, <3>1 DEF Expired
    <3> QED BY <1>1, <2>1, <2>2, <3>2
  <2> QED BY <2>1, <2>2 DEF PageInv, GetsPin
<1> QED BY <1>2, <1>3, <1>4 DEF PageInv

LEMMA GetKeeps ==
  ASSUME PageInv, NEW r \in Reader, Pin(r) \/ ReadRoot(r) \/ Walk(r) \/ Unpin(r)
  PROVE  PageInv'
<1>1. UNCHANGED <<file, tree, saved, free, hand, orphans, retired, version>>
  BY DEF Pin, ReadRoot, Walk, Unpin
<1>2. PageTypes' /\ PagesApart'
  BY <1>1 DEF PageInv, PageTypes, PagesApart
<1>3. \A q \in Reader : q # r => active'[q] = active[q] /\ reading'[q] = reading[q]
  BY DEF Pin, ReadRoot, Walk, Unpin, PageInv, VersionTypes
<1>4. \/ active'[r] = version /\ active[r] = None /\ reading'[r] = reading[r]
      \/ active'[r] = active[r] /\ active[r] # None /\ reading'[r] = tree
      \/ active'[r] = active[r] /\ reading'[r] \subseteq reading[r]
      \/ active'[r] = None /\ reading'[r] = {}
  BY DEF Pin, ReadRoot, Walk, Unpin, PageInv, VersionTypes
<1>5. /\ active' \in [Reader -> Nat \cup {None}]
      /\ reading' \in [Reader -> SUBSET (DOMAIN file)]
  BY DEF Pin, ReadRoot, Walk, Unpin, PageInv, VersionTypes, PageTypes
<1>6. VersionTypes'
  BY <1>1, <1>3, <1>4, <1>5 DEF PageInv, VersionTypes
<1>7. GetsPin'
  BY <1>1, <1>3, <1>4 DEF PageInv, GetsPin
<1> QED BY <1>2, <1>6, <1>7 DEF PageInv

LEMMA CrashKeeps ==
  ASSUME PageInv, Crash
  PROVE  PageInv'
<1>1. DOMAIN retired' = {}
  BY DEF Crash
<1>2. PageTypes' /\ VersionTypes'
  BY <1>1 DEF Crash, PageInv, PageTypes, VersionTypes
<1>3. PagesApart'
  BY <1>1 DEF Crash, PageInv, PagesApart
<1>4. GetsPin'
  BY DEF Crash, GetsPin
<1> QED BY <1>2, <1>3, <1>4 DEF PageInv

LEMMA PagesNext == PageInv /\ [Next]_vars => PageInv'
<1> SUFFICES ASSUME PageInv, [Next]_vars PROVE PageInv'
  OBVIOUS
<1>1. CASE UNCHANGED vars
  BY <1>1 DEF vars, PageInv, PageTypes, VersionTypes, PagesApart, GetsPin
<1>2. CASE Next
  BY <1>2, CreateKeeps, HandKeeps, CommitKeeps, PublishKeeps, RetireKeeps, ReclaimKeeps,
     GetKeeps, CrashKeeps DEF Next
<1> QED BY <1>1, <1>2

\* The inductive invariant of retirement: a page has one place, and what a
\* get may read was not retired before the version that it pins.
THEOREM PageInvariance == Spec => []PageInv
  BY PagesInit, PagesNext, PTL DEF Spec

-----------------------------------------------------------------------------
LEMMA PagesAreNotShared == PageInv => NoPageIsShared
<1> SUFFICES ASSUME PageInv, NEW p \in free \cup hand
             PROVE  /\ p \notin Kept \cup orphans \cup DOMAIN retired
                    /\ \A r \in Reader : p \notin reading[r]
  BY DEF NoPageIsShared
<1> QED BY DEF PageInv, PagesApart, GetsPin, Kept

\* What the write lock, the pinned versions and the free list keep apart
\* (put, get, TransactionTracker, FreeListManager): a put may write to no page
\* that the trees, a get or a retired version still needs.
THEOREM NoneIsShared == Spec => []NoPageIsShared
  BY PageInvariance, PagesAreNotShared, PTL

\* So a get that walks beside puts reads what its root led to, and a process
\* that is killed leaves the tree that page 0 names.
THEOREM InUseStays == Spec => PagesInUseStay
<1>1. PageInv /\ [Next]_vars =>
          [\A p \in Kept \cup UNION {reading[r] : r \in Reader} : file'[p] = file[p]]_vars
  <2> SUFFICES ASSUME PageInv, Next, NEW p \in Kept \cup UNION {reading[r] : r \in Reader}
               PROVE  file'[p] = file[p]
    OBVIOUS
  <2>1. p \notin free \cup hand
    BY PagesAreNotShared DEF NoPageIsShared
  <2>2. p \in DOMAIN file \ {0}
    BY DEF PageInv, PageTypes, PagesApart, GetsPin, Kept
  <2>3. UNCHANGED file \/ \E S \in SUBSET (free \cup hand) : WritesTo(S)
    BY DEF Next, Create, Allocate, Write, Release, Raise, Commit, Publish, Retire, Reclaim,
           Pin, ReadRoot, Walk, Unpin, Crash
  <2> QED BY <2>1, <2>2, <2>3 DEF WritesTo
<1> QED
  BY <1>1, PageInvariance, PTL DEF Spec, PagesInUseStay
=============================================================================
