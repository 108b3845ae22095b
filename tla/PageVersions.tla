---------------------------- MODULE PageVersions -----------------------------
(***************************************************************************)
(* Who may use a page of the file, as btree.py and freelist.py intend it.  *)
(* A put writes only to pages it has in its hands and to the pages of the  *)
(* free list.  A page of the current tree leaves it by a commit, is        *)
(* retired under the version of that put, and comes back into the hands    *)
(* of a put when no get pins that version or an earlier one.               *)
(*                                                                         *)
(* Sets of pages stand for the trees and the list; what links the pages,   *)
(* where a put is in its work and the lock are left out.                   *)
(***************************************************************************)
EXTENDS Naturals

CONSTANTS Reader, None

VARIABLES file,     \* what is on the pages; page 0 is the header
          tree,     \* the pages of the tree at the root in memory
          saved,    \* the pages of the tree at the root in page 0
          free,     \* the pages in the free list, and the pages it is made of
          hand,     \* the pages that the put under way may write to
          orphans,  \* the pages that its commit has taken out of the tree
          retired,  \* the version under which a page was retired
          version,  \* the current version
          active,   \* the version that a get pins, or None
          reading   \* the pages that a get may still read

vars == <<file, tree, saved, free, hand, orphans, retired, version, active, reading>>

Kept == tree \cup saved

\* A step writes to none but these pages, to the header and to new pages.
WritesTo(pages) ==
    /\ DOMAIN file \subseteq DOMAIN file'
    /\ \A p \in DOMAIN file \ (pages \cup {0}) : file'[p] = file[p]

NewPages == DOMAIN file' \ DOMAIN file

\* The file may be new, or left by an earlier process.
Init ==
    /\ 0 \in DOMAIN file
    /\ saved \subseteq DOMAIN file \ {0} /\ free \subseteq DOMAIN file \ ({0} \cup saved)
    /\ tree = saved
    /\ hand = {} /\ orphans = {} /\ retired = [p \in {} |-> 0]
    /\ version = 0 /\ active = [r \in Reader |-> None] /\ reading = [r \in Reader |-> {}]

-----------------------------------------------------------------------------
\* The first root of a new file.
Create ==
    /\ Kept \cup hand \cup orphans = {}
    /\ tree' = NewPages
    /\ WritesTo({})
    /\ UNCHANGED <<saved, free, hand, orphans, retired, version, active, reading>>

\* A put gets a page from the list, or a new one.
Allocate ==
    /\ \E p \in free \cup NewPages :
          NewPages \subseteq {p} /\ free' = free \ {p} /\ hand' = hand \cup {p}
    /\ WritesTo(free)
    /\ UNCHANGED <<tree, saved, orphans, retired, version, active, reading>>

\* A put writes to its pages, or to those of the list.
Write ==
    /\ NewPages = {} /\ WritesTo(hand \cup free)
    /\ UNCHANGED <<tree, saved, free, hand, orphans, retired, version, active, reading>>

\* A put gives pages to the list, which may grow by pages of its own.
Release ==
    /\ hand' \subseteq hand /\ free' = free \cup (hand \ hand') \cup NewPages
    /\ WritesTo(free)
    /\ UNCHANGED <<tree, saved, orphans, retired, version, active, reading>>

\* A put raises: what it had in its hands is lost.
Raise ==
    /\ hand' = {} /\ orphans = {}
    /\ UNCHANGED <<file, tree, saved, free, orphans, retired, version, active, reading>>

\* Gets see the copies instead of the pages that were copied ...
Commit ==
    /\ orphans = {}
    /\ tree' \subseteq tree \cup hand
    /\ orphans' = tree \ tree' /\ hand' = hand \ tree'
    /\ UNCHANGED <<file, saved, free, retired, version, active, reading>>

\* ... then the file names them ...
Publish ==
    /\ saved' = tree
    /\ NewPages = {} /\ WritesTo({})
    /\ UNCHANGED <<tree, free, hand, orphans, retired, version, active, reading>>

\* ... and only then may the pages that were copied be retired.
Retire ==
    /\ saved = tree
    /\ retired' = [p \in DOMAIN retired \cup orphans |->
                      IF p \in orphans THEN version ELSE retired[p]]
    /\ orphans' = {} /\ version' = version + 1
    /\ UNCHANGED <<file, tree, saved, free, hand, active, reading>>

\* No get pins version v or an earlier one.
Expired(v) == v < version /\ \A r \in Reader : active[r] # None => v < active[r]

Reclaim ==
    /\ LET pages == {p \in DOMAIN retired : Expired(retired[p])}
       IN  /\ hand' = hand \cup pages
           /\ retired' = [p \in DOMAIN retired \ pages |-> retired[p]]
    /\ UNCHANGED <<file, tree, saved, free, orphans, version, active, reading>>

Pin(r) ==
    /\ active[r] = None
    /\ active' = [active EXCEPT ![r] = version]
    /\ UNCHANGED <<file, tree, saved, free, hand, orphans, retired, version, reading>>

\* A get reads the root, of its version or of a later one, and goes down.
ReadRoot(r) ==
    /\ active[r] # None /\ reading[r] = {}
    /\ reading' = [reading EXCEPT ![r] = tree]
    /\ UNCHANGED <<file, tree, saved, free, hand, orphans, retired, version, active>>

Walk(r) ==
    /\ reading'[r] \subseteq reading[r]
    /\ reading' = [reading EXCEPT ![r] = reading'[r]]
    /\ UNCHANGED <<file, tree, saved, free, hand, orphans, retired, version, active>>

Unpin(r) ==
    /\ active' = [active EXCEPT ![r] = None]
    /\ reading' = [reading EXCEPT ![r] = {}]
    /\ UNCHANGED <<file, tree, saved, free, hand, orphans, retired, version>>

\* The process dies, and what the file names is there for the next one.
Crash ==
    /\ tree' = saved
    /\ free' \subseteq free \cup hand
    /\ hand' = {} /\ orphans' = {} /\ retired' = [p \in {} |-> 0]
    /\ version' = 0 /\ active' = [r \in Reader |-> None] /\ reading' = [r \in Reader |-> {}]
    /\ UNCHANGED <<file, saved>>

Next ==
    \/ Write \/ Allocate \/ Release \/ Raise \/ Commit \/ Publish \/ Retire \/ Reclaim
    \/ \E r \in Reader : Pin(r) \/ ReadRoot(r) \/ Walk(r) \/ Unpin(r)
    \/ Create \/ Crash

Spec == Init /\ [][Next]_vars

-----------------------------------------------------------------------------
\* A put owns none of the pages that the current tree, the file's tree, a get
\* or a retired version still needs.
NoPageIsShared ==
    LET inUse == Kept \cup orphans \cup DOMAIN retired \cup UNION {reading[r] : r \in Reader}
    IN  inUse \cap (free \cup hand) = {}

\* Whatever a put does, the pages of the current tree and of the file's tree
\* and those that a get may still read stay as they are.
PagesInUseStay ==
    [][\A p \in Kept \cup UNION {reading[r] : r \in Reader} : file'[p] = file[p]]_vars
=============================================================================
