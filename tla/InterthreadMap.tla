--------------------------- MODULE InterthreadMap ---------------------------
(***************************************************************************)
(* InterthreadMap (Interthread.h): a map of pointers with a mutex and a    *)
(* condition variable. A call is one step up to its wait and one after     *)
(* each wakeup. The map owns what is written to it, get() hands the        *)
(* pointer over to its caller, read() leaves it in the map.                *)
(***************************************************************************)
EXTENDS Integers, FiniteSets

CONSTANTS Keys, Data, Threads, NULL

\* What the constants are; assumed where the module is instantiated.
NullAssumption == NULL \notin Data

VARIABLES
    mMap,           \* the pointer of a key, or NULL
    deleted,        \* objects that were deleted
    pc, op, key,    \* of a thread: where it is, "get" or "read", of which key
    timed,          \* the call has a timeout
    owned, borrowed \* the objects that get() and read() returned to a thread

vars == <<mMap, deleted, pc, op, key, timed, owned, borrowed>>

Init ==
    /\ mMap = [k \in Keys |-> NULL] /\ deleted = {}
    /\ pc = [t \in Threads |-> "idle"] /\ op = [t \in Threads |-> "get"]
    /\ key \in [Threads -> Keys] /\ timed = [t \in Threads |-> FALSE]
    /\ owned = [t \in Threads |-> {}] /\ borrowed = [t \in Threads |-> {}]

InMap == {mMap[k] : k \in Keys} \ {NULL}
Owned == UNION {owned[t] : t \in Threads}
Broadcast == [t \in Threads |-> IF pc[t] = "mWriteSignal" THEN "woken" ELSE pc[t]]
-----------------------------------------------------------------------------
\* A new object d, or one that its owner puts back.
Fresh(d) == d \notin InMap \cup deleted

write(k, d) ==
    /\ Fresh(d)
    /\ mMap' = [mMap EXCEPT ![k] = d]
    /\ deleted' = deleted \cup ({mMap[k]} \ {NULL})
    /\ owned' = [t \in Threads |-> owned[t] \ {d}]
    /\ pc' = Broadcast
    /\ UNCHANGED <<op, key, timed, borrowed>>

\* Mutant of Found: get() leaves the entry in the map.
FoundKeeps(t, o, k) ==
    /\ mMap[k] # NULL
    /\ pc' = [pc EXCEPT ![t] = "idle"]
    /\ owned' = IF o = "get" THEN [owned EXCEPT ![t] = @ \cup {mMap[k]}] ELSE owned
    /\ borrowed' = IF o = "read" THEN [borrowed EXCEPT ![t] = @ \cup {mMap[k]}] ELSE borrowed
    /\ UNCHANGED <<mMap, deleted>>

\* The key is there: get() removes the entry, read() only returns it.
Found(t, o, k) ==
    /\ mMap[k] # NULL
    /\ pc' = [pc EXCEPT ![t] = "idle"]
    /\ mMap' = IF o = "get" THEN [mMap EXCEPT ![k] = NULL] ELSE mMap
    /\ owned' = IF o = "get" THEN [owned EXCEPT ![t] = @ \cup {mMap[k]}] ELSE owned
    /\ borrowed' = IF o = "read" THEN [borrowed EXCEPT ![t] = @ \cup {mMap[k]}] ELSE borrowed
    /\ UNCHANGED deleted

Missing(t, k, to) ==
    /\ mMap[k] = NULL
    /\ pc' = [pc EXCEPT ![t] = to]
    /\ UNCHANGED <<mMap, deleted, owned, borrowed>>

\* get(key), get(key, timeout), read(key), read(key, timeout)
Call(t, o, k) ==
    /\ pc[t] = "idle"
    /\ op' = [op EXCEPT ![t] = o] /\ key' = [key EXCEPT ![t] = k]
    /\ \E b \in BOOLEAN : timed' = [timed EXCEPT ![t] = b]
    /\ Found(t, o, k) \/ Missing(t, k, "mWriteSignal")

\* getNoBlock(key), readNoBlock(key): a missing key is NULL, nothing changes.
CallNoBlock(t, o, k) ==
    /\ pc[t] = "idle"
    /\ Found(t, o, k)
    /\ UNCHANGED <<op, key, timed>>

Woken(t) ==
    /\ pc[t] = "woken"
    /\ Found(t, op[t], key[t]) \/ Missing(t, key[t], "mWriteSignal")
    /\ UNCHANGED <<op, key, timed>>

TimedOut(t) ==
    /\ timed[t] /\ pc[t] \in {"mWriteSignal", "woken"}
    /\ Found(t, op[t], key[t]) \/ Missing(t, key[t], "idle")
    /\ UNCHANGED <<op, key, timed>>

\* remove(key): getNoBlock, then delete.
remove(k) ==
    /\ mMap[k] # NULL
    /\ mMap' = [mMap EXCEPT ![k] = NULL]
    /\ deleted' = deleted \cup {mMap[k]}
    /\ UNCHANGED <<pc, op, key, timed, owned, borrowed>>

clear ==
    /\ mMap' = [k \in Keys |-> NULL]
    /\ deleted' = deleted \cup InMap
    /\ UNCHANGED <<pc, op, key, timed, owned, borrowed>>

\* The caller deletes what get() gave it, or is done with what it read.
CallerDeletes(t) ==
    \E d \in owned[t] :
        /\ owned' = [owned EXCEPT ![t] = @ \ {d}] /\ deleted' = deleted \cup {d}
        /\ UNCHANGED <<mMap, pc, op, key, timed, borrowed>>
CallerDone(t) ==
    /\ borrowed[t] # {} /\ borrowed' = [borrowed EXCEPT ![t] = {}]
    /\ UNCHANGED <<mMap, deleted, pc, op, key, timed, owned>>
-----------------------------------------------------------------------------
Next ==
    \/ \E k \in Keys, d \in Data : write(k, d)
    \/ \E t \in Threads, o \in {"get", "read"}, k \in Keys : Call(t, o, k) \/ CallNoBlock(t, o, k)
    \/ \E t \in Threads : Woken(t) \/ TimedOut(t) \/ CallerDeletes(t) \/ CallerDone(t)
    \/ \E k \in Keys : remove(k)
    \/ clear

Spec == Init /\ [][Next]_vars
-----------------------------------------------------------------------------
(* Properties *)

\* No call sleeps while its key is in the map.
NoLostWakeup == \A t \in Threads : pc[t] = "mWriteSignal" => mMap[key[t]] = NULL

\* An object is in the map under one key, or belongs to one caller of get();
\* nothing that the map or an owner still has was deleted.
OneOwner ==
    /\ \A k, l \in Keys : mMap[k] = mMap[l] /\ mMap[k] # NULL => k = l
    /\ \A t, u \in Threads : t # u => owned[t] \cap owned[u] = {}
    /\ Owned \cap InMap = {} /\ deleted \cap (Owned \cup InMap) = {}

\* What leaves the map is deleted or handed to the caller, in the same step.
NothingLeaks == InMap \ InMap' \subseteq deleted' \cup UNION {owned'[t] : t \in Threads}

\* The map is "thread-safe": an object that read() returned exists for as long
\* as its caller uses it.
\* Does not hold: read() lets go of the lock and another thread may delete it.
BorrowedAlive == \A t \in Threads : borrowed[t] \cap deleted = {}
=============================================================================
