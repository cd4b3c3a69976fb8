------------------------------ MODULE MCQueues ------------------------------
(***************************************************************************)
(* Small instances of the inter-thread containers in one model: a          *)
(* behaviour picks one of them and takes the steps of that one. The        *)
(* PointerFIFO keeps its own names, the others are instantiated.           *)
(***************************************************************************)
EXTENDS PointerFifo, FiniteSets

CONSTANTS
    QueueItems,
    Readers, Waiters,   \* threads of the queue, each of one kind
    Marks,              \* low water marks
    MaxWriters,         \* bound of the threads inside InterthreadQueue2::write
    Keys, MapThreads    \* keys and threads of the map

VARIABLES
    part,                                                   \* "list", "queue" or "map"
    class, mQ, qpc, qtimed, mark, unsignalled,              \* the queue
    mMap, deleted, pc, op, key, timed, owned, borrowed      \* the map

Q == INSTANCE InterthreadQueue WITH Items <- QueueItems, pc <- qpc, timed <- qtimed
Map == INSTANCE InterthreadMap WITH Data <- Items, Threads <- MapThreads

queueVars == <<class, mQ, qpc, qtimed, mark, unsignalled>>
mapVars == <<mMap, deleted, pc, op, key, timed, owned, borrowed>>
MCvars == <<part, listVars, queueVars, mapVars>>

ASSUME QueueAssumption == IsFiniteSet(Readers) /\ Readers \cap Waiters = {}
ASSUME MapAssumption == Map!NullAssumption

\* What is not looked at starts in one state.
MCInit ==
    /\ part \in {"list", "queue", "map"}
    /\ IF part = "queue" THEN TRUE ELSE class = "Queue"
    /\ IF part = "map" THEN TRUE ELSE key = [t \in MapThreads |-> CHOOSE k \in Keys : TRUE]
    /\ ListInit /\ Q!Init /\ Map!Init

List == part = "list" /\ ListNext /\ UNCHANGED <<part, queueVars, mapVars>>
OfQueue(A) == part = "queue" /\ A /\ UNCHANGED <<part, listVars, mapVars>>
OfMap(A) == part = "map" /\ A /\ UNCHANGED <<part, listVars, queueVars>>

MCNext == List \/ OfQueue(Q!Next) \/ OfMap(Map!Next)

\* The fairness of InterthreadQueue.
MCSpec ==
    /\ MCInit /\ [][MCNext]_MCvars
    /\ WF_MCvars(OfQueue(Q!SignalWrite))
    /\ \A t \in Readers \cup Waiters : WF_MCvars(OfQueue(Q!Run(t)))
-----------------------------------------------------------------------------
(* Properties of the instances *)

\* No wakeup is lost: while a reader of a queue sleeps, every item has a reader
\* on its way or a signal still to come; no call of the map sleeps while its
\* key is there.
NoLostWakeup == Q!TypeOK /\ Q!NoLostWakeup /\ Map!NoLostWakeup

\* Calls return: a blocked read() does not sleep for ever next to an item, and
\* "the caller of [wait()] will eventually get to run".
CallsReturn == Q!ReadReturns /\ Q!WaitReturns

\* In every step the objects of the map are owned, by the map or by one caller
\* until they are deleted, and what leaves the map is deleted or handed on.
OwnedOnce == [][Map!OneOwner' /\ Map!NothingLeaks]_mapVars
=============================================================================
