------------------------------ MODULE KVStore -------------------------------
(***************************************************************************)
(* What the class BTree of copy-on-write-btree/src/btree.py promises: a    *)
(* map from keys to values.  A get returns the value that its key had at   *)
(* one instant between its call and its return.  A put takes effect at one *)
(* instant, or raises and changes nothing, and it has reached the file     *)
(* before it returns.  A crash takes back nothing but the effect of a put  *)
(* that has not returned.                                                  *)
(***************************************************************************)
CONSTANTS Key, Value, Reader,
          None     \* the value of a key that is not in the store

VARIABLES store,   \* the map that gets see
          durable, \* the map that a reopened file holds
          put,     \* the put that is under way
          get      \* get[r]: the get that the thread r is in

vars == <<store, durable, put, get>>

NoPut == [pc |-> "none"]
NoGet == [pc |-> "none"]

\* The file may be new, or left by an earlier process.
Init == /\ store \in [Key -> Value \cup {None}] /\ durable = store
        /\ put = NoPut /\ get = [r \in Reader |-> NoGet]

-----------------------------------------------------------------------------
CallPut(k, v) ==
    /\ put = NoPut
    /\ put' = [pc |-> "called", key |-> k, value |-> v]
    /\ UNCHANGED <<store, durable, get>>

PutTakesEffect ==
    /\ put.pc = "called"
    /\ store' = [store EXCEPT ![put.key] = put.value]
    /\ put' = [pc |-> "effective"]
    /\ UNCHANGED <<durable, get>>

PutIsPersisted ==
    /\ put.pc = "effective"
    /\ durable' = store
    /\ put' = [pc |-> "persisted"]
    /\ UNCHANGED <<store, get>>

PutReturns ==
    /\ put.pc = "persisted"
    /\ put' = NoPut
    /\ UNCHANGED <<store, durable, get>>

PutRaises ==
    /\ put.pc = "called"
    /\ put' = NoPut
    /\ UNCHANGED <<store, durable, get>>

CallGet(r, k) ==
    /\ get[r] = NoGet
    /\ get' = [get EXCEPT ![r] = [pc |-> "called", key |-> k]]
    /\ UNCHANGED <<store, durable, put>>

GetTakesEffect(r) ==
    /\ get[r].pc = "called"
    /\ get' = [get EXCEPT ![r] = [pc |-> "effective", value |-> store[get[r].key]]]
    /\ UNCHANGED <<store, durable, put>>

GetReturns(r) ==
    /\ get[r].pc = "effective"
    /\ get' = [get EXCEPT ![r] = NoGet]
    /\ UNCHANGED <<store, durable, put>>

\* The process dies with its threads, and the file is opened again.
Crash ==
    /\ store' = durable
    /\ put' = NoPut /\ get' = [r \in Reader |-> NoGet]
    /\ UNCHANGED durable

Next ==
    \/ \E k \in Key, v \in Value : CallPut(k, v)
    \/ PutTakesEffect \/ PutIsPersisted \/ PutReturns \/ PutRaises
    \/ \E r \in Reader, k \in Key : CallGet(r, k)
    \/ \E r \in Reader : GetTakesEffect(r) \/ GetReturns(r)
    \/ Crash

Spec == Init /\ [][Next]_vars
=============================================================================
