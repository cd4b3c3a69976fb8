---------------------------- MODULE PointerFifo ----------------------------
(***************************************************************************)
(* PointerFIFO (LinkedLists.cpp): a singly linked list with a pool of      *)
(* nodes that were used before. VectorFIFO, the receive FIFO, is built     *)
(* on it. The lock of InterthreadQueue makes every call a single step.     *)
(***************************************************************************)
EXTENDS Integers, Sequences

CONSTANTS
    Items,          \* the pointers that are put
    Nodes,          \* the list nodes that memory has room for
    NULL

ASSUME NullAssumption == NULL \notin Items /\ NULL \notin Nodes

VARIABLES
    mHead, mTail, mFreeList, mSize,
    next, data,     \* of every node
    allocated,      \* nodes that new has returned
    ret,            \* what the last get() returned
    \* history: the nodes of the list and of the pool, in their order
    list, pool

listVars == <<mHead, mTail, mFreeList, mSize, next, data, allocated, ret, list, pool>>

ListInit ==
    /\ mHead = NULL /\ mTail = NULL /\ mFreeList = NULL /\ mSize = 0
    /\ next = [n \in Nodes |-> NULL] /\ data = [n \in Nodes |-> NULL]
    /\ allocated = {} /\ ret = NULL
    /\ list = <<>> /\ pool = <<>>
-----------------------------------------------------------------------------
\* allocate() returns the node n.
allocate(n) ==
    IF mFreeList = NULL
    THEN /\ n \in Nodes \ allocated /\ allocated' = allocated \cup {n}
         /\ UNCHANGED <<mFreeList, pool>>
    ELSE /\ n = mFreeList /\ mFreeList' = next[n]
         /\ pool' = Tail(pool)
         /\ UNCHANGED allocated

\* Mutant of put: the new node replaces the last one.
putUnlinked(v) ==
    \E n \in Nodes :
        /\ allocate(n)
        /\ data' = [m \in Nodes |-> IF m \in {n, mTail} THEN v ELSE data[m]]
        /\ next' = [m \in Nodes |-> CASE m = mTail -> n
                                      [] m = n /\ m # mTail -> NULL
                                      [] OTHER -> next[m]]
        /\ mTail' = n /\ mHead' = IF mHead = NULL THEN n ELSE mHead
        /\ mSize' = mSize + 1
        /\ list' = Append(list, n)
        /\ UNCHANGED ret

put(v) ==
    \E n \in Nodes :
        /\ allocate(n)
        /\ data' = [data EXCEPT ![n] = v]
        /\ next' = [m \in Nodes |-> CASE m = mTail -> n
                                      [] m = n /\ m # mTail -> NULL
                                      [] OTHER -> next[m]]
        /\ mTail' = n
        /\ mHead' = IF mHead = NULL THEN n ELSE mHead
        /\ mSize' = mSize + 1
        /\ list' = Append(list, n)
        /\ UNCHANGED ret

\* Mutant of push_front: the tail of an empty list stays NULL.
push_frontNoTail(v) ==
    \E n \in Nodes :
        /\ allocate(n)
        /\ data' = [data EXCEPT ![n] = v] /\ next' = [next EXCEPT ![n] = mHead]
        /\ mHead' = n /\ mSize' = mSize + 1
        /\ list' = <<n>> \o list
        /\ UNCHANGED <<ret, mTail>>

push_front(v) ==
    \E n \in Nodes :
        /\ allocate(n)
        /\ data' = [data EXCEPT ![n] = v]
        /\ next' = [next EXCEPT ![n] = mHead]
        /\ mHead' = n
        /\ mTail' = IF mTail = NULL THEN n ELSE mTail
        /\ mSize' = mSize + 1
        /\ list' = <<n>> \o list
        /\ UNCHANGED ret

get ==
    \/ /\ mHead = NULL
       /\ ret' = NULL
       /\ UNCHANGED <<mHead, mTail, mFreeList, mSize, next, data, allocated, list, pool>>
    \/ /\ mHead # NULL
       /\ ret' = data[mHead]
       /\ next' = [next EXCEPT ![mHead] = mFreeList]     \* release(mHead)
       /\ mFreeList' = mHead
       /\ mHead' = next[mHead]
       /\ mTail' = IF next[mHead] = NULL THEN NULL ELSE mTail
       /\ mSize' = mSize - 1
       /\ list' = Tail(list) /\ pool' = <<mHead>> \o pool
       /\ UNCHANGED <<data, allocated>>

ListNext == get \/ \E v \in Items : put(v) \/ push_front(v)

ListSpec == ListInit /\ [][ListNext]_listVars
-----------------------------------------------------------------------------
(* Properties *)

\* Every variable has its type.
ListTypeOK ==
    /\ {mHead, mTail, mFreeList} \subseteq Nodes \cup {NULL} /\ mSize \in Nat
    /\ next \in [Nodes -> Nodes \cup {NULL}] /\ data \in [Nodes -> Items \cup {NULL}]
    /\ allocated \subseteq Nodes /\ ret \in Items \cup {NULL}
    /\ list \in Seq(Nodes) /\ pool \in Seq(Nodes)

\* p is reached from first by following next, and ends with NULL.
Linked(first, p) ==
    /\ first = IF p = <<>> THEN NULL ELSE p[1]
    /\ \A i \in 1 .. Len(p) : next[p[i]] = IF i = Len(p) THEN NULL ELSE p[i + 1]

\* The pointers describe the list and the pool: both end, mTail is the last
\* node of the list, mSize counts its nodes.
WellLinked ==
    /\ Linked(mHead, list) /\ Linked(mFreeList, pool)
    /\ mTail = IF list = <<>> THEN NULL ELSE list[Len(list)]
    /\ mSize = Len(list)

\* A node that was allocated is in the list or in the pool, once: none is
\* lost, and none is put into the list while it is still in use.
NodesOnce ==
    /\ \A i, j \in 1 .. Len(list) : list[i] = list[j] => i = j
    /\ \A i, j \in 1 .. Len(pool) : pool[i] = pool[j] => i = j
    /\ \A i \in 1 .. Len(list), j \in 1 .. Len(pool) : list[i] # pool[j]
    /\ allocated = {list[i] : i \in 1 .. Len(list)} \cup {pool[i] : i \in 1 .. Len(pool)}

\* The nodes of PointerFIFO are where its pointers say, and once.
ListInv == ListTypeOK /\ WellLinked /\ NodesOnce

\* The items in the order in which get() will return them.
ListContents == [i \in 1 .. Len(list) |-> data[list[i]]]

Queue == INSTANCE PtrQueue WITH contents <- ListContents

\* PointerFIFO implements the queue.
QueueSpec == Queue!Spec
=============================================================================
