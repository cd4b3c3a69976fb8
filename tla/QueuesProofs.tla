---------------------------- MODULE QueuesProofs ----------------------------
(***************************************************************************)
(* The inter-thread containers, for every number of threads, nodes, items  *)
(* and keys. The list and the pool of PointerFIFO are well linked and      *)
(* share no node, and PointerFIFO implements PtrQueue: the three calls map *)
(* to the queue's. No wakeup of a queue or of a map is lost, and every     *)
(* object of a map has one owner. RadioBuffer keeps its indices inside the *)
(* ring and consistent, hands out written samples only and the right       *)
(* filter history, and implements SampleFifo, for every number and length  *)
(* of segments, every history that fits into a segment, and runs of every  *)
(* length.                                                                 *)
(***************************************************************************)
EXTENDS MCQueues, RadioBuffer, FiniteSetTheorems, TLAPS

ListIInv == ListTypeOK /\ WellLinked /\ NodesOnce

\* The nodes in a sequence.
Elems(s) == {s[i] : i \in 1 .. Len(s)}
-----------------------------------------------------------------------------
(* Sequences of nodes *)

LEMMA AppendFacts ==
    ASSUME NEW s \in Seq(Nodes), NEW n \in Nodes
    PROVE  /\ Append(s, n) \in Seq(Nodes) /\ Append(s, n) # <<>>
           /\ Len(Append(s, n)) = Len(s) + 1
           /\ \A i \in 1 .. Len(s) : Append(s, n)[i] = s[i]
           /\ Append(s, n)[Len(s) + 1] = n
OBVIOUS

LEMMA TailFacts ==
    ASSUME NEW s \in Seq(Nodes), s # <<>>
    PROVE  /\ Tail(s) \in Seq(Nodes) /\ Len(s) \in Nat \ {0} /\ Len(Tail(s)) = Len(s) - 1
           /\ \A i \in 1 .. Len(s) - 1 : Tail(s)[i] = s[i + 1]
           /\ s[1] \in Nodes
OBVIOUS

LEMMA ConsFacts ==
    ASSUME NEW s \in Seq(Nodes), NEW n \in Nodes
    PROVE  /\ <<n>> \o s \in Seq(Nodes) /\ <<n>> \o s # <<>>
           /\ Len(<<n>> \o s) = Len(s) + 1
           /\ (<<n>> \o s)[1] = n
           /\ \A i \in 1 .. Len(s) : (<<n>> \o s)[i + 1] = s[i]
OBVIOUS

LEMMA TailAsFunction ==
    ASSUME NEW S, NEW s \in Seq(S), s # <<>>
    PROVE  Tail(s) = [i \in 1 .. Len(s) - 1 |-> s[i + 1]]
<1> DEFINE t == Tail(s)
<1>1. /\ t \in Seq(S) /\ Len(s) \in Nat \ {0} /\ Len(t) = Len(s) - 1
      /\ \A i \in 1 .. Len(s) - 1 : t[i] = s[i + 1]
  OBVIOUS
<1> HIDE DEF t
<1>2. t = [i \in 1 .. Len(t) |-> t[i]] BY <1>1
<1>3. t = [i \in 1 .. Len(s) - 1 |-> s[i + 1]] BY <1>1, <1>2
<1> QED BY <1>3 DEF t

LEMMA EmptyFacts ==
    ASSUME NEW s \in Seq(Nodes)
    PROVE  s = <<>> <=> Len(s) = 0
OBVIOUS
-----------------------------------------------------------------------------
\* A node that was allocated is new to the list, and leaves the pool.
LEMMA Allocated ==
    ASSUME ListIInv, NEW n \in Nodes, allocate(n)
    PROVE  /\ n \notin Elems(list) /\ n \notin Elems(pool')
           /\ pool' \in Seq(Nodes) /\ Linked(mFreeList', pool')
           /\ mFreeList' \in Nodes \cup {NULL}
           /\ \A i, j \in 1 .. Len(pool') : pool'[i] = pool'[j] => i = j
           /\ \A i \in 1 .. Len(list), j \in 1 .. Len(pool') : list[i] # pool'[j]
           /\ allocated' = Elems(list) \cup {n} \cup Elems(pool')
           /\ allocated' \subseteq Nodes
<1> USE DEF ListIInv, ListTypeOK, NodesOnce, Elems
<1> USE NullAssumption
<1>1. CASE mFreeList = NULL
  <2>1. /\ n \in Nodes \ allocated /\ allocated' = allocated \cup {n}
        /\ mFreeList' = mFreeList /\ pool' = pool
    BY <1>1 DEF allocate
  <2>2. Linked(mFreeList, pool) BY DEF WellLinked
  <2>3. pool' \in Seq(Nodes) /\ Linked(mFreeList', pool') BY <2>1, <2>2 DEF Linked
  <2>4. n \notin Elems(list) /\ n \notin Elems(pool') BY <2>1
  <2> QED BY <2>1, <2>3, <2>4
<1>2. CASE mFreeList # NULL
  <2>1. n = mFreeList /\ mFreeList' = next[n] /\ pool' = Tail(pool) /\ allocated' = allocated
    BY <1>2 DEF allocate
  <2>2. /\ mFreeList = IF pool = <<>> THEN NULL ELSE pool[1]
        /\ \A i \in 1 .. Len(pool) : next[pool[i]] = IF i = Len(pool) THEN NULL ELSE pool[i + 1]
    BY DEF WellLinked, Linked
  <2>3. pool # <<>> /\ n = pool[1] BY <1>2, <2>1, <2>2
  <2>4. /\ pool' \in Seq(Nodes) /\ Len(pool) \in Nat \ {0} /\ Len(pool') = Len(pool) - 1
        /\ \A i \in 1 .. Len(pool) - 1 : pool'[i] = pool[i + 1]
    BY <2>1, <2>3, TailFacts
  <2>5. pool' = <<>> <=> Len(pool') = 0 BY <2>4, EmptyFacts
  <2>6. Linked(mFreeList', pool')
    <3>1. mFreeList' = IF Len(pool) = 1 THEN NULL ELSE pool[2]
      <4>1. 1 \in 1 .. Len(pool) BY <2>4
      <4>2. next[pool[1]] = IF 1 = Len(pool) THEN NULL ELSE pool[1 + 1] BY <2>2, <4>1
      <4> QED BY <2>1, <2>3, <4>2
    <3>2. Len(pool) # 1 => pool'[1] = pool[2] BY <2>4
    <3>3. mFreeList' = IF pool' = <<>> THEN NULL ELSE pool'[1] BY <3>1, <3>2, <2>4, <2>5
    <3>4. \A i \in 1 .. Len(pool') : next[pool'[i]] = IF i = Len(pool') THEN NULL ELSE pool'[i + 1]
      <4> SUFFICES ASSUME NEW i \in 1 .. Len(pool')
                   PROVE  next[pool'[i]] = IF i = Len(pool') THEN NULL ELSE pool'[i + 1]
        OBVIOUS
      <4>1. i + 1 \in 1 .. Len(pool) /\ pool'[i] = pool[i + 1] BY <2>4
      <4>2. i # Len(pool') => pool'[i + 1] = pool[i + 2] BY <2>4
      <4> QED BY <4>1, <4>2, <2>2, <2>4
    <3> QED BY <3>3, <3>4 DEF Linked
  <2>7. Elems(pool) = {n} \cup Elems(pool')
    <3>1. \A i \in 1 .. Len(pool) : pool[i] \in {n} \cup Elems(pool')
      <4> SUFFICES ASSUME NEW i \in 1 .. Len(pool), i # 1 PROVE pool[i] \in Elems(pool')
        BY <2>3
      <4>1. i - 1 \in 1 .. Len(pool') /\ pool'[i - 1] = pool[i] BY <2>4
      <4> QED BY <4>1
    <3>2. \A i \in 1 .. Len(pool') : pool'[i] \in Elems(pool) BY <2>4
    <3>3. n \in Elems(pool) BY <2>3, <2>4
    <3>4. ASSUME NEW x \in Elems(pool) PROVE x \in {n} \cup Elems(pool')
      <4>1. PICK i \in 1 .. Len(pool) : x = pool[i] OBVIOUS
      <4> QED BY <3>1, <4>1
    <3>5. ASSUME NEW x \in Elems(pool') PROVE x \in Elems(pool)
      <4>1. PICK i \in 1 .. Len(pool') : x = pool'[i] OBVIOUS
      <4> QED BY <3>2, <4>1
    <3> HIDE DEF Elems, ListIInv
    <3> QED BY <3>3, <3>4, <3>5
  <2>8. \A i, j \in 1 .. Len(pool') : pool'[i] = pool'[j] => i = j
    <3> SUFFICES ASSUME NEW i \in 1 .. Len(pool'), NEW j \in 1 .. Len(pool'), pool'[i] = pool'[j]
                 PROVE  i = j
      OBVIOUS
    <3>1. i + 1 \in 1 .. Len(pool) /\ j + 1 \in 1 .. Len(pool) /\ pool[i + 1] = pool[j + 1]
      BY <2>4
    <3>2. i + 1 = j + 1 BY <3>1
    <3> QED BY <3>2, <2>4
  <2>9. n \notin Elems(pool')
    <3> SUFFICES ASSUME NEW i \in 1 .. Len(pool'), pool'[i] = n PROVE FALSE
      OBVIOUS
    <3>1. i + 1 \in 1 .. Len(pool) /\ 1 \in 1 .. Len(pool) /\ pool[i + 1] = pool[1] BY <2>3, <2>4
    <3>2. i + 1 = 1 BY <3>1
    <3> QED BY <3>2, <2>4
  <2>10. \A i \in 1 .. Len(list), j \in 1 .. Len(pool') : list[i] # pool'[j]
    BY <2>4
  <2>11. n \notin Elems(list)
    <3> SUFFICES ASSUME NEW i \in 1 .. Len(list), list[i] = n PROVE FALSE
      OBVIOUS
    <3>1. 1 \in 1 .. Len(pool) BY <2>4
    <3>2. list[i] # pool[1] BY <3>1
    <3> QED BY <2>3, <3>2
  <2>12. allocated' = Elems(list) \cup {n} \cup Elems(pool')
    BY <2>1, <2>7
  <2> QED BY <2>1, <2>4, <2>6, <2>8, <2>9, <2>10, <2>11, <2>12
<1> QED BY <1>1, <1>2
-----------------------------------------------------------------------------
(* The invariant *)

LEMMA ListInitIInv == ListInit => ListIInv
<1> SUFFICES ASSUME ListInit PROVE ListIInv OBVIOUS
<1> USE NullAssumption DEF ListInit
<1>1. ListTypeOK BY DEF ListTypeOK
<1>2. WellLinked BY DEF WellLinked, Linked
<1>3. NodesOnce BY DEF NodesOnce
<1> QED BY <1>1, <1>2, <1>3 DEF ListIInv

\* The last node of the list is in it, and its first one is.
LEMMA Ends ==
    ASSUME ListIInv
    PROVE  /\ list \in Seq(Nodes) /\ Len(list) \in Nat
           /\ list = <<>> <=> Len(list) = 0
           /\ list = <<>> => mTail = NULL /\ mHead = NULL
           /\ list # <<>> => mTail = list[Len(list)] /\ mHead = list[1]
           /\ list # <<>> => mTail \in Nodes /\ mHead \in Nodes
           /\ \A i \in 1 .. Len(list) : list[i] \in Nodes
<1>1. list \in Seq(Nodes) BY DEF ListIInv, ListTypeOK
<1>2. Len(list) \in Nat /\ \A i \in 1 .. Len(list) : list[i] \in Nodes BY <1>1
<1>3. list = <<>> <=> Len(list) = 0 BY <1>1, EmptyFacts
<1>4. /\ list = <<>> => mTail = NULL /\ mHead = NULL
      /\ list # <<>> => mTail = list[Len(list)] /\ mHead = list[1]
  BY DEF ListIInv, WellLinked, Linked
<1>5. list # <<>> => Len(list) \in 1 .. Len(list) /\ 1 \in 1 .. Len(list) BY <1>2, <1>3
<1> QED BY <1>1, <1>2, <1>3, <1>4, <1>5

\* A pool whose nodes keep their next pointers stays linked.
LEMMA PoolKept ==
    ASSUME ListIInv, Linked(mFreeList', pool'),
           \A i \in 1 .. Len(pool') : next'[pool'[i]] = next[pool'[i]]
    PROVE  Linked(mFreeList, pool)'
BY DEF Linked

\* put() links the new node behind the last one.
LEMMA PutLinks ==
    ASSUME ListIInv, NEW v \in Items, NEW n \in Nodes, allocate(n),
           next' = [m \in Nodes |-> CASE m = mTail -> n
                                      [] m = n /\ m # mTail -> NULL
                                      [] OTHER -> next[m]],
           mTail' = n, mHead' = IF mHead = NULL THEN n ELSE mHead,
           list' = Append(list, n)
    PROVE  Linked(mFreeList, pool)' /\ Linked(mHead, list)'
<1> USE NullAssumption
<1>1. /\ n \notin Elems(list) /\ n \notin Elems(pool')
      /\ pool' \in Seq(Nodes) /\ Linked(mFreeList', pool')
      /\ \A i \in 1 .. Len(list), j \in 1 .. Len(pool') : list[i] # pool'[j]
  BY Allocated
<1>2. n # mTail BY <1>1, Ends DEF Elems
<1>3. \A m \in Nodes : next'[m] = IF m = mTail THEN n ELSE IF m = n THEN NULL ELSE next[m]
  OBVIOUS
<1>4. \A i \in 1 .. Len(pool') : next'[pool'[i]] = next[pool'[i]]
  <2> SUFFICES ASSUME NEW i \in 1 .. Len(pool') PROVE next'[pool'[i]] = next[pool'[i]]
    OBVIOUS
  <2>1. pool'[i] \in Nodes /\ pool'[i] # n BY <1>1 DEF Elems
  <2>2. pool'[i] # mTail
    <3>1. list # <<>> => Len(list) \in 1 .. Len(list) /\ mTail = list[Len(list)] BY Ends
    <3>2. list = <<>> => mTail = NULL BY Ends
    <3> QED BY <1>1, <2>1, <3>1, <3>2
  <2> QED BY <1>3, <2>1, <2>2
<1>5. Linked(mFreeList, pool)' BY <1>1, <1>4, PoolKept
<1>6. /\ list' # <<>> /\ Len(list') = Len(list) + 1
      /\ \A i \in 1 .. Len(list) : list'[i] = list[i]
      /\ list'[Len(list) + 1] = n
  BY Ends, AppendFacts
<1>7. mHead' = list'[1]
  <2>1. CASE list = <<>> BY <2>1, <1>6, Ends
  <2>2. CASE list # <<>>
    <3>1. mHead = list[1] /\ mHead # NULL /\ 1 \in 1 .. Len(list) BY <2>2, Ends
    <3> QED BY <1>6, <3>1
  <2> QED BY <2>1, <2>2
<1>8. ASSUME NEW i \in 1 .. Len(list')
      PROVE  next'[list'[i]] = IF i = Len(list') THEN NULL ELSE list'[i + 1]
  <2>1. CASE i = Len(list')
    <3>1. list'[i] = n BY <1>6, <2>1
    <3> QED BY <1>2, <1>3, <2>1, <3>1
  <2>2. CASE i = Len(list)
    <3>1. list # <<>> /\ list'[i] = mTail /\ i # Len(list') BY <1>6, <2>2, Ends
    <3>2. mTail \in Nodes BY <3>1, Ends
    <3> QED BY <1>3, <1>6, <2>2, <3>1, <3>2
  <2>3. CASE i # Len(list') /\ i # Len(list)
    <3>1. i \in 1 .. Len(list) /\ i + 1 \in 1 .. Len(list) BY <1>6, <2>3, Ends
    <3>2. list'[i] = list[i] /\ list'[i + 1] = list[i + 1] BY <1>6, <3>1
    <3>3. list[i] \in Nodes /\ list[i] # n BY <1>1, <3>1, Ends DEF Elems
    <3>4. list[i] # mTail
      <4>1. list # <<>> /\ Len(list) \in 1 .. Len(list) BY <3>1, Ends
      <4>2. mTail = list[Len(list)] BY <4>1, Ends
      <4> QED BY <2>3, <3>1, <4>1, <4>2 DEF ListIInv, NodesOnce
    <3>5. next[list[i]] = list[i + 1] BY <2>3, <3>1 DEF ListIInv, WellLinked, Linked
    <3> QED BY <1>3, <2>3, <3>2, <3>3, <3>4, <3>5
  <2> QED BY <2>1, <2>2, <2>3
<1>9. Linked(mHead, list)' BY <1>6, <1>7, <1>8 DEF Linked
<1> QED BY <1>5, <1>9

\* A new node, at whichever end, keeps the nodes apart.
LEMMA GrowsOnce ==
    ASSUME ListIInv, NEW n \in Nodes, allocate(n), list' \in Seq(Nodes),
           Len(list') = Len(list) + 1,
           NEW k \in {0, 1},     \* the old nodes are behind k new ones
           list'[IF k = 1 THEN 1 ELSE Len(list) + 1] = n,
           \A i \in 1 .. Len(list) : list'[i + k] = list[i]
    PROVE  NodesOnce'
<1> DEFINE new == IF k = 1 THEN 1 ELSE Len(list) + 1
<1>1. /\ n \notin Elems(list) /\ n \notin Elems(pool') /\ pool' \in Seq(Nodes)
      /\ \A i, j \in 1 .. Len(pool') : pool'[i] = pool'[j] => i = j
      /\ \A i \in 1 .. Len(list), j \in 1 .. Len(pool') : list[i] # pool'[j]
      /\ allocated' = Elems(list) \cup {n} \cup Elems(pool')
  BY Allocated
<1>2. Len(list) \in Nat /\ \A i, j \in 1 .. Len(list) : list[i] = list[j] => i = j
  BY Ends DEF ListIInv, NodesOnce
<1>3. new \in 1 .. Len(list') /\ list'[new] = n BY <1>2
<1>4. ASSUME NEW i \in 1 .. Len(list'), i # new
      PROVE  i - k \in 1 .. Len(list) /\ list'[i] = list[i - k]
  <2>1. i - k \in 1 .. Len(list) /\ (i - k) + k = i BY <1>2, <1>4
  <2> QED BY <2>1
<1> HIDE DEF new
<1>5. ASSUME NEW i \in 1 .. Len(list'), i # new
      PROVE  list'[i] \in Elems(list)
  BY <1>4, <1>5 DEF Elems
<1>6. \A i, j \in 1 .. Len(list') : list'[i] = list'[j] => i = j
  <2> SUFFICES ASSUME NEW i \in 1 .. Len(list'), NEW j \in 1 .. Len(list'), list'[i] = list'[j]
               PROVE  i = j
    OBVIOUS
  <2>1. CASE i = new \/ j = new BY <1>1, <1>3, <1>5, <2>1
  <2>2. CASE i # new /\ j # new
    <3>1. i - k \in 1 .. Len(list) /\ j - k \in 1 .. Len(list) /\ list[i - k] = list[j - k]
      BY <1>4, <2>2
    <3>2. i - k = j - k BY <1>2, <3>1
    <3> QED BY <3>2
  <2> QED BY <2>1, <2>2
<1>7. \A i \in 1 .. Len(list'), j \in 1 .. Len(pool') : list'[i] # pool'[j]
  <2> SUFFICES ASSUME NEW i \in 1 .. Len(list'), NEW j \in 1 .. Len(pool') PROVE list'[i] # pool'[j]
    OBVIOUS
  <2>1. CASE i = new BY <1>1, <1>3, <2>1 DEF Elems
  <2>2. CASE i # new BY <1>1, <1>4, <2>2
  <2> QED BY <2>1, <2>2
<1>8. Elems(list') = Elems(list) \cup {n}
  <2>1. ASSUME NEW x \in Elems(list') PROVE x \in Elems(list) \cup {n}
    <3>1. PICK i \in 1 .. Len(list') : x = list'[i] BY DEF Elems
    <3> QED BY <1>3, <1>5, <3>1
  <2>2. ASSUME NEW x \in Elems(list) PROVE x \in Elems(list')
    <3>1. PICK i \in 1 .. Len(list) : x = list[i] BY DEF Elems
    <3>2. i + k \in 1 .. Len(list') /\ x = list'[i + k] BY <1>2, <3>1
    <3> QED BY <3>2 DEF Elems
  <2>3. n \in Elems(list') BY <1>3 DEF Elems
  <2> QED BY <2>1, <2>2, <2>3
<1>9. allocated' = Elems(list') \cup Elems(pool') BY <1>1, <1>8
<1> QED BY <1>1, <1>6, <1>7, <1>9 DEF NodesOnce, Elems

\* What put() and push_front() leave: their types, and the items of the old
\* nodes.
LEMMA PutTypes ==
    ASSUME ListIInv, NEW v \in Items, NEW n \in Nodes, allocate(n),
           data' = [data EXCEPT ![n] = v], ret' = ret, mSize' = mSize + 1,
           next' \in [Nodes -> Nodes \cup {NULL}], list' \in Seq(Nodes),
           mTail' \in Nodes \cup {NULL}, mHead' \in Nodes \cup {NULL}
    PROVE  /\ ListTypeOK'
           /\ data'[n] = v
           /\ \A i \in 1 .. Len(list) : data'[list[i]] = data[list[i]]
<1>1. /\ pool' \in Seq(Nodes) /\ mFreeList' \in Nodes \cup {NULL}
      /\ allocated' \subseteq Nodes /\ n \notin Elems(list)
  BY Allocated
<1>2. /\ mSize \in Nat /\ data \in [Nodes -> Items \cup {NULL}] /\ ret \in Items \cup {NULL}
  BY DEF ListIInv, ListTypeOK
<1>3. data' \in [Nodes -> Items \cup {NULL}] /\ data'[n] = v BY <1>2
<1>4. ListTypeOK' BY <1>1, <1>2, <1>3 DEF ListTypeOK
<1>5. \A i \in 1 .. Len(list) : list[i] \in Nodes /\ list[i] # n
  BY <1>1, Ends DEF Elems
<1> QED BY <1>2, <1>3, <1>4, <1>5

LEMMA ListPutStep ==
    ASSUME ListIInv, NEW v \in Items, put(v)
    PROVE  ListIInv' /\ Queue!Put(v)
<1>1. PICK n \in Nodes :
        /\ allocate(n)
        /\ data' = [data EXCEPT ![n] = v]
        /\ next' = [m \in Nodes |-> CASE m = mTail -> n
                                      [] m = n /\ m # mTail -> NULL
                                      [] OTHER -> next[m]]
        /\ mTail' = n
        /\ mHead' = IF mHead = NULL THEN n ELSE mHead
        /\ mSize' = mSize + 1
        /\ list' = Append(list, n)
        /\ UNCHANGED ret
  BY DEF put
<1>2. Linked(mFreeList, pool)' /\ Linked(mHead, list)' BY <1>1, PutLinks
<1>3. /\ list' \in Seq(Nodes) /\ list' # <<>> /\ Len(list') = Len(list) + 1
      /\ \A i \in 1 .. Len(list) : list'[i] = list[i]
      /\ list'[Len(list) + 1] = n
  BY <1>1, Ends, AppendFacts
<1>4. NodesOnce'
  <2>1. \A i \in 1 .. Len(list) : list'[i + 0] = list[i] BY <1>3, Ends
  <2> QED BY <1>1, <1>3, <2>1, GrowsOnce
<1>5. next' \in [Nodes -> Nodes \cup {NULL}] BY <1>1 DEF ListIInv, ListTypeOK
<1>6. mTail' \in Nodes \cup {NULL} /\ mHead' \in Nodes \cup {NULL}
  BY <1>1 DEF ListIInv, ListTypeOK
<1>7. /\ ListTypeOK' /\ data'[n] = v
      /\ \A i \in 1 .. Len(list) : data'[list[i]] = data[list[i]]
  BY <1>1, <1>3, <1>5, <1>6, PutTypes
<1>8. WellLinked'
  <2>1. mSize = Len(list) BY DEF ListIInv, WellLinked
  <2>2. mTail' = list'[Len(list')] /\ mSize' = Len(list') BY <1>1, <1>3, <2>1
  <2> QED BY <1>2, <1>3, <2>2 DEF WellLinked
<1>9. ListContents' = Append(ListContents, v)
  <2>1. ListContents' = [i \in 1 .. Len(list) + 1 |-> data'[list'[i]]] BY <1>3 DEF ListContents
  <2>2. Len(list) \in Nat BY Ends
  <2>3. ListContents = [i \in 1 .. Len(list) |-> data[list[i]]] BY DEF ListContents
  <2>4. ListContents \in Seq(Items \cup {NULL}) /\ Len(ListContents) = Len(list)
    BY <2>2, <2>3, Ends DEF ListIInv, ListTypeOK
  <2>5. /\ Append(ListContents, v) \in Seq(Items \cup {NULL})
        /\ Len(Append(ListContents, v)) = Len(list) + 1
        /\ \A i \in 1 .. Len(list) : Append(ListContents, v)[i] = ListContents[i]
        /\ Append(ListContents, v)[Len(list) + 1] = v
    BY <2>2, <2>4
  <2>6. \A i \in 1 .. Len(list) + 1 : data'[list'[i]] = Append(ListContents, v)[i]
    <3> SUFFICES ASSUME NEW i \in 1 .. Len(list) + 1
                 PROVE  data'[list'[i]] = Append(ListContents, v)[i]
      OBVIOUS
    <3>1. CASE i = Len(list) + 1 BY <1>3, <1>7, <2>5, <3>1
    <3>2. CASE i \in 1 .. Len(list) BY <1>3, <1>7, <2>3, <2>5, <3>2
    <3>3. i = Len(list) + 1 \/ i \in 1 .. Len(list) BY <2>2
    <3> QED BY <3>1, <3>2, <3>3
  <2> DEFINE app == Append(ListContents, v)
  <2> HIDE DEF app
  <2>7. app = [i \in 1 .. Len(list) + 1 |-> app[i]]
    <3>1. app \in Seq(Items \cup {NULL}) /\ Len(app) = Len(list) + 1 BY <2>5 DEF app
    <3> QED BY <3>1
  <2>8. \A i \in 1 .. Len(list) + 1 : data'[list'[i]] = app[i] BY <2>6 DEF app
  <2>9. ListContents' = app BY <2>1, <2>7, <2>8
  <2> QED BY <2>9 DEF app
<1> QED BY <1>1, <1>4, <1>7, <1>8, <1>9 DEF ListIInv, Queue!Put

LEMMA PushFrontStep ==
    ASSUME ListIInv, NEW v \in Items, push_front(v)
    PROVE  ListIInv' /\ Queue!PutFront(v)
<1> USE NullAssumption
<1>1. PICK n \in Nodes :
        /\ allocate(n)
        /\ data' = [data EXCEPT ![n] = v]
        /\ next' = [next EXCEPT ![n] = mHead]
        /\ mHead' = n
        /\ mTail' = IF mTail = NULL THEN n ELSE mTail
        /\ mSize' = mSize + 1
        /\ list' = <<n>> \o list
        /\ UNCHANGED ret
  BY DEF push_front
<1>2. /\ n \notin Elems(list) /\ n \notin Elems(pool')
      /\ pool' \in Seq(Nodes) /\ Linked(mFreeList', pool')
  BY <1>1, Allocated
<1>3. /\ list' \in Seq(Nodes) /\ list' # <<>> /\ Len(list') = Len(list) + 1
      /\ list'[1] = n /\ \A i \in 1 .. Len(list) : list'[i + 1] = list[i]
  BY <1>1, Ends, ConsFacts
<1>4. NodesOnce' BY <1>1, <1>3, GrowsOnce
<1>5. next \in [Nodes -> Nodes \cup {NULL}] /\ mHead \in Nodes \cup {NULL}
      /\ mTail \in Nodes \cup {NULL}
  BY DEF ListIInv, ListTypeOK
<1>6. /\ next' \in [Nodes -> Nodes \cup {NULL}] /\ next'[n] = mHead
      /\ \A m \in Nodes : m # n => next'[m] = next[m]
  BY <1>1, <1>5
<1>7. /\ ListTypeOK' /\ data'[n] = v
      /\ \A i \in 1 .. Len(list) : data'[list[i]] = data[list[i]]
  BY <1>1, <1>3, <1>5, <1>6, PutTypes
<1>8. Linked(mFreeList, pool)'
  <2>1. \A i \in 1 .. Len(pool') : next'[pool'[i]] = next[pool'[i]]
    BY <1>2, <1>6 DEF Elems
  <2> QED BY <1>2, <2>1, PoolKept
<1>9. Linked(mHead, list)'
  <2>1. ASSUME NEW i \in 1 .. Len(list')
        PROVE  next'[list'[i]] = IF i = Len(list') THEN NULL ELSE list'[i + 1]
    <3>1. CASE i = 1
      <4>1. next'[list'[i]] = mHead BY <1>3, <1>6, <3>1
      <4>2. CASE list = <<>> BY <1>3, <3>1, <4>1, <4>2, Ends
      <4>3. CASE list # <<>>
        <5>1. mHead = list[1] /\ 1 \in 1 .. Len(list) BY <4>3, Ends
        <5>2. list'[1 + 1] = list[1] /\ 1 # Len(list') BY <1>3, <5>1, Ends
        <5> QED BY <3>1, <4>1, <5>1, <5>2
      <4> QED BY <4>2, <4>3
    <3>2. CASE i # 1
      <4> DEFINE j == i - 1
      <4>1. j \in 1 .. Len(list) /\ j + 1 = i /\ (j = Len(list) <=> i = Len(list'))
        BY <1>3, <3>2, Ends
      <4> HIDE DEF j
      <4>2. list'[i] = list[j] BY <1>3, <4>1
      <4>3. j # Len(list) => list'[i + 1] = list[j + 1]
        <5> SUFFICES ASSUME j # Len(list) PROVE list'[i + 1] = list[j + 1] OBVIOUS
        <5>1. j + 1 \in 1 .. Len(list) BY <4>1, Ends
        <5>2. list'[(j + 1) + 1] = list[j + 1] BY <1>3, <5>1
        <5> QED BY <4>1, <5>2
      <4>4. list[j] \in Nodes /\ list[j] # n BY <1>2, <4>1, Ends DEF Elems
      <4>5. next[list[j]] = IF j = Len(list) THEN NULL ELSE list[j + 1]
        BY <4>1 DEF ListIInv, WellLinked, Linked
      <4> QED BY <1>6, <4>1, <4>2, <4>3, <4>4, <4>5
    <3> QED BY <3>1, <3>2
  <2> QED BY <1>1, <1>3, <2>1 DEF Linked
<1>10. WellLinked'
  <2>1. mSize = Len(list) BY DEF ListIInv, WellLinked
  <2>2. mTail' = list'[Len(list')]
    <3>1. CASE list = <<>> BY <1>1, <1>3, <3>1, Ends
    <3>2. CASE list # <<>>
      <4>1. mTail = list[Len(list)] /\ mTail # NULL /\ Len(list) \in 1 .. Len(list)
        BY <3>2, Ends
      <4>2. list'[Len(list) + 1] = list[Len(list)] BY <1>3, <4>1
      <4> QED BY <1>1, <1>3, <4>1, <4>2
    <3> QED BY <3>1, <3>2
  <2>3. mSize' = Len(list') BY <1>1, <1>3, <2>1
  <2> QED BY <1>3, <1>8, <1>9, <2>2, <2>3 DEF WellLinked
<1>11. ListContents' = <<v>> \o ListContents
  <2>1. ListContents' = [i \in 1 .. Len(list) + 1 |-> data'[list'[i]]] BY <1>3 DEF ListContents
  <2>2. Len(list) \in Nat BY Ends
  <2>3. ListContents = [i \in 1 .. Len(list) |-> data[list[i]]] BY DEF ListContents
  <2>4. ListContents \in Seq(Items \cup {NULL}) /\ Len(ListContents) = Len(list)
    BY <2>2, <2>3, Ends DEF ListIInv, ListTypeOK
  <2>5. /\ <<v>> \o ListContents \in Seq(Items \cup {NULL})
        /\ Len(<<v>> \o ListContents) = Len(list) + 1
        /\ (<<v>> \o ListContents)[1] = v
        /\ \A i \in 1 .. Len(list) : (<<v>> \o ListContents)[i + 1] = ListContents[i]
    BY <2>2, <2>4
  <2>6. \A i \in 1 .. Len(list) + 1 : data'[list'[i]] = (<<v>> \o ListContents)[i]
    <3> SUFFICES ASSUME NEW i \in 1 .. Len(list) + 1
                 PROVE  data'[list'[i]] = (<<v>> \o ListContents)[i]
      OBVIOUS
    <3>1. CASE i = 1 BY <1>3, <1>7, <2>5, <3>1
    <3>2. CASE i # 1
      <4> DEFINE j == i - 1
      <4>1. j \in 1 .. Len(list) /\ i = j + 1 BY <2>2, <3>2
      <4> HIDE DEF j
      <4> QED BY <1>3, <1>7, <2>3, <2>5, <4>1
    <3> QED BY <3>1, <3>2
  <2>7. <<v>> \o ListContents = [i \in 1 .. Len(list) + 1 |-> (<<v>> \o ListContents)[i]]
    BY <2>2, <2>5
  <2> HIDE DEF ListIInv
  <2> QED BY <2>1, <2>6, <2>7
<1> QED BY <1>1, <1>4, <1>7, <1>10, <1>11 DEF ListIInv, Queue!PutFront

LEMMA GetEmptyStep ==
    ASSUME ListIInv, mHead = NULL, get
    PROVE  ListIInv' /\ Queue!Get
<1>1. /\ ret' = NULL
      /\ UNCHANGED <<mHead, mTail, mFreeList, mSize, next, data, allocated, list, pool>>
  BY DEF get
<1>2. list = <<>> BY NullAssumption, Ends
<1>3. ListContents = <<>> /\ ListContents' = ListContents BY <1>1, <1>2 DEF ListContents
<1>4. ListTypeOK' BY <1>1 DEF ListIInv, ListTypeOK
<1>5. WellLinked' /\ NodesOnce' BY <1>1 DEF ListIInv, WellLinked, Linked, NodesOnce
<1> QED BY <1>1, <1>3, <1>4, <1>5 DEF ListIInv, Queue!Get

\* get() moves the first node from the list to the pool.
LEMMA ListGetStep ==
    ASSUME ListIInv, mHead # NULL, get
    PROVE  ListIInv' /\ Queue!Get
<1> USE NullAssumption
<1>1. /\ ret' = data[mHead]
      /\ next' = [next EXCEPT ![mHead] = mFreeList]
      /\ mFreeList' = mHead
      /\ mHead' = next[mHead]
      /\ mTail' = IF next[mHead] = NULL THEN NULL ELSE mTail
      /\ mSize' = mSize - 1
      /\ list' = Tail(list) /\ pool' = <<mHead>> \o pool
      /\ UNCHANGED <<data, allocated>>
  BY DEF get
<1>2. list # <<>> /\ mHead = list[1] /\ mTail = list[Len(list)] /\ mHead \in Nodes
  BY Ends
<1>3. /\ list' \in Seq(Nodes) /\ Len(list) \in Nat \ {0} /\ Len(list') = Len(list) - 1
      /\ \A i \in 1 .. Len(list) - 1 : list'[i] = list[i + 1]
      /\ 1 \in 1 .. Len(list) /\ Len(list) \in 1 .. Len(list)
  BY <1>1, <1>2, Ends, TailFacts
<1>4. list' = <<>> <=> Len(list) = 1 BY <1>3, EmptyFacts
<1>5. pool \in Seq(Nodes) /\ Len(pool) \in Nat BY DEF ListIInv, ListTypeOK
<1>6. /\ pool' \in Seq(Nodes) /\ pool' # <<>> /\ Len(pool') = Len(pool) + 1
      /\ pool'[1] = mHead /\ \A i \in 1 .. Len(pool) : pool'[i + 1] = pool[i]
  BY <1>1, <1>2, <1>5, ConsFacts
<1>7. /\ \A i, j \in 1 .. Len(list) : list[i] = list[j] => i = j
      /\ \A i, j \in 1 .. Len(pool) : pool[i] = pool[j] => i = j
      /\ \A i \in 1 .. Len(list), j \in 1 .. Len(pool) : list[i] # pool[j]
      /\ allocated = Elems(list) \cup Elems(pool)
  BY DEF ListIInv, NodesOnce, Elems
<1>8. /\ \A i \in 1 .. Len(list) : next[list[i]] = IF i = Len(list) THEN NULL ELSE list[i + 1]
      /\ \A i \in 1 .. Len(pool) : next[pool[i]] = IF i = Len(pool) THEN NULL ELSE pool[i + 1]
      /\ mFreeList = IF pool = <<>> THEN NULL ELSE pool[1]
      /\ mSize = Len(list)
  BY DEF ListIInv, WellLinked, Linked
<1>9. /\ next \in [Nodes -> Nodes \cup {NULL}] /\ data \in [Nodes -> Items \cup {NULL}]
      /\ {mHead, mTail, mFreeList} \subseteq Nodes \cup {NULL} /\ allocated \subseteq Nodes
  BY DEF ListIInv, ListTypeOK
<1>10. next'[mHead] = mFreeList /\ \A m \in Nodes : m # mHead => next'[m] = next[m]
  BY <1>1, <1>2, <1>9
<1>11. ASSUME NEW i \in 1 .. Len(list')
       PROVE  /\ i + 1 \in 1 .. Len(list) /\ list'[i] = list[i + 1]
              /\ list'[i] \in Nodes /\ list'[i] # mHead
  <2>1. i + 1 \in 1 .. Len(list) /\ list'[i] = list[i + 1] /\ i + 1 # 1 BY <1>3
  <2> QED BY <1>2, <1>3, <1>7, <2>1, Ends
<1>12. ASSUME NEW i \in 1 .. Len(pool'), i # 1
       PROVE  /\ i - 1 \in 1 .. Len(pool) /\ pool'[i] = pool[i - 1]
              /\ pool'[i] \in Nodes /\ pool'[i] # mHead
  <2>1. i - 1 \in 1 .. Len(pool) /\ (i - 1) + 1 = i BY <1>5, <1>6, <1>12
  <2>2. pool'[i] = pool[i - 1] BY <1>6, <2>1
  <2> QED BY <1>2, <1>3, <1>5, <1>7, <2>1, <2>2
<1>13. mHead' = IF list' = <<>> THEN NULL ELSE list'[1]
  <2>1. mHead' = IF 1 = Len(list) THEN NULL ELSE list[1 + 1] BY <1>1, <1>2, <1>3, <1>8
  <2>2. Len(list) # 1 => list'[1] = list[1 + 1] BY <1>3
  <2> QED BY <1>4, <2>1, <2>2
<1>14. Linked(mHead, list)'
  <2>1. ASSUME NEW i \in 1 .. Len(list')
        PROVE  next'[list'[i]] = IF i = Len(list') THEN NULL ELSE list'[i + 1]
    <3>1. next'[list'[i]] = next[list[i + 1]] BY <1>10, <1>11
    <3>2. next[list[i + 1]] = IF i + 1 = Len(list) THEN NULL ELSE list[(i + 1) + 1]
      BY <1>8, <1>11
    <3>3. (i + 1 = Len(list)) <=> (i = Len(list')) BY <1>3
    <3>4. i # Len(list') => list'[i + 1] = list[(i + 1) + 1] BY <1>3
    <3> QED BY <3>1, <3>2, <3>3, <3>4
  <2> QED BY <1>13, <2>1 DEF Linked
<1>15. Linked(mFreeList, pool)'
  <2>1. ASSUME NEW i \in 1 .. Len(pool')
        PROVE  next'[pool'[i]] = IF i = Len(pool') THEN NULL ELSE pool'[i + 1]
    <3>1. CASE i = 1
      <4>1. next'[pool'[i]] = IF pool = <<>> THEN NULL ELSE pool[1] BY <1>6, <1>8, <1>10, <3>1
      <4>2. pool = <<>> <=> Len(pool) = 0 BY <1>5, EmptyFacts
      <4>3. CASE pool = <<>> BY <1>6, <3>1, <4>1, <4>2, <4>3
      <4>4. CASE pool # <<>>
        <5>1. 1 \in 1 .. Len(pool) /\ 1 # Len(pool') BY <1>5, <1>6, <4>2, <4>4
        <5>2. pool'[1 + 1] = pool[1] BY <1>6, <5>1
        <5> QED BY <3>1, <4>1, <4>4, <5>1, <5>2
      <4> QED BY <4>3, <4>4
    <3>2. CASE i # 1
      <4> DEFINE j == i - 1
      <4>1. /\ j \in 1 .. Len(pool) /\ i = j + 1 /\ pool'[i] = pool[j]
            /\ pool'[i] \in Nodes /\ pool'[i] # mHead
        BY <1>12, <3>2
      <4> HIDE DEF j
      <4>2. next'[pool'[i]] = IF j = Len(pool) THEN NULL ELSE pool[j + 1] BY <1>8, <1>10, <4>1
      <4>3. j = Len(pool) <=> i = Len(pool') BY <1>5, <1>6, <4>1
      <4>4. j # Len(pool) => pool'[i + 1] = pool[j + 1]
        <5> SUFFICES ASSUME j # Len(pool) PROVE pool'[i + 1] = pool[j + 1] OBVIOUS
        <5>1. j + 1 \in 1 .. Len(pool) BY <1>5, <4>1
        <5>2. pool'[(j + 1) + 1] = pool[j + 1] BY <1>6, <5>1
        <5> QED BY <4>1, <5>2
      <4> QED BY <4>2, <4>3, <4>4
    <3> QED BY <3>1, <3>2
  <2> QED BY <1>1, <1>6, <2>1 DEF Linked
<1>16. WellLinked'
  <2>1. next[mHead] = NULL <=> Len(list) = 1
    <3>1. next[mHead] = IF 1 = Len(list) THEN NULL ELSE list[1 + 1] BY <1>2, <1>3, <1>8
    <3>2. Len(list) # 1 => list[1 + 1] \in Nodes
      <4>1. Len(list) # 1 => 1 + 1 \in 1 .. Len(list) BY <1>3
      <4> QED BY <4>1, Ends
    <3> QED BY <3>1, <3>2
  <2>2. mTail' = IF list' = <<>> THEN NULL ELSE list'[Len(list')]
    <3>1. CASE Len(list) = 1 BY <1>1, <1>4, <2>1, <3>1
    <3>2. CASE Len(list) # 1
      <4>1. Len(list') \in 1 .. Len(list') /\ Len(list') + 1 = Len(list) BY <1>3, <3>2
      <4>2. list'[Len(list')] = list[Len(list)] BY <1>11, <4>1
      <4> QED BY <1>1, <1>2, <1>4, <2>1, <3>2, <4>2
    <3> QED BY <3>1, <3>2
  <2>3. mSize' = Len(list') BY <1>1, <1>3, <1>8
  <2> QED BY <1>14, <1>15, <2>2, <2>3 DEF WellLinked
<1>17. ListTypeOK'
  <2>1. next' \in [Nodes -> Nodes \cup {NULL}] BY <1>1, <1>9
  <2>2. mSize' \in Nat
    <3>1. mSize = Len(list) BY DEF ListIInv, WellLinked
    <3>2. Len(list) \in Nat \ {0} BY <1>3
    <3>3. mSize' = Len(list) - 1 BY <1>1, <3>1
    <3> QED BY <3>2, <3>3
  <2>3. {mHead', mTail', mFreeList'} \subseteq Nodes \cup {NULL} /\ ret' \in Items \cup {NULL}
    BY <1>1, <1>2, <1>9
  <2> QED BY <1>1, <1>3, <1>6, <1>9, <2>1, <2>2, <2>3 DEF ListTypeOK
<1>18. NodesOnce'
  <2>1. \A i, j \in 1 .. Len(list') : list'[i] = list'[j] => i = j
    <3> SUFFICES ASSUME NEW i \in 1 .. Len(list'), NEW j \in 1 .. Len(list'), list'[i] = list'[j]
                 PROVE  i = j
      OBVIOUS
    <3>1. i + 1 = j + 1 BY <1>7, <1>11
    <3> QED BY <3>1, <1>3
  <2>2. \A i, j \in 1 .. Len(pool') : pool'[i] = pool'[j] => i = j
    <3> SUFFICES ASSUME NEW i \in 1 .. Len(pool'), NEW j \in 1 .. Len(pool'), pool'[i] = pool'[j]
                 PROVE  i = j
      OBVIOUS
    <3>1. CASE i = 1 \/ j = 1 BY <1>6, <1>12, <3>1
    <3>2. CASE i # 1 /\ j # 1
      <4>1. i - 1 = j - 1 BY <1>7, <1>12, <3>2
      <4> QED BY <4>1, <1>6
    <3> QED BY <3>1, <3>2
  <2>3. \A i \in 1 .. Len(list'), j \in 1 .. Len(pool') : list'[i] # pool'[j]
    <3> SUFFICES ASSUME NEW i \in 1 .. Len(list'), NEW j \in 1 .. Len(pool')
                 PROVE  list'[i] # pool'[j]
      OBVIOUS
    <3>1. CASE j = 1 BY <1>6, <1>11, <3>1
    <3>2. CASE j # 1
      <4>1. list'[i] = list[i + 1] /\ i + 1 \in 1 .. Len(list) BY <1>11
      <4>2. pool'[j] = pool[j - 1] /\ j - 1 \in 1 .. Len(pool) BY <1>12, <3>2
      <4> QED BY <1>7, <4>1, <4>2
    <3> QED BY <3>1, <3>2
  <2>4. ASSUME NEW x \in Elems(list') \cup Elems(pool') PROVE x \in Elems(list) \cup Elems(pool)
    <3>1. CASE x \in Elems(list')
      <4>1. PICK i \in 1 .. Len(list') : x = list'[i] BY <3>1 DEF Elems
      <4> QED BY <1>11, <4>1 DEF Elems
    <3>2. CASE x \in Elems(pool')
      <4>1. PICK i \in 1 .. Len(pool') : x = pool'[i] BY <3>2 DEF Elems
      <4>2. CASE i = 1 BY <1>2, <1>3, <1>6, <4>1, <4>2 DEF Elems
      <4>3. CASE i # 1 BY <1>12, <4>1, <4>3 DEF Elems
      <4> QED BY <4>2, <4>3
    <3> QED BY <3>1, <3>2
  <2>5. ASSUME NEW x \in Elems(list) \cup Elems(pool) PROVE x \in Elems(list') \cup Elems(pool')
    <3>1. CASE x \in Elems(list)
      <4>1. PICK i \in 1 .. Len(list) : x = list[i] BY <3>1 DEF Elems
      <4>2. CASE i = 1
        <5>1. 1 \in 1 .. Len(pool') BY <1>5, <1>6
        <5> QED BY <1>2, <1>6, <4>1, <4>2, <5>1 DEF Elems
      <4>3. CASE i # 1
        <5>1. i - 1 \in 1 .. Len(list') BY <1>3, <4>3
        <5>2. (i - 1) + 1 = i BY <1>3
        <5>3. list'[i - 1] = x BY <1>11, <4>1, <5>1, <5>2
        <5> QED BY <5>1, <5>3 DEF Elems
      <4> QED BY <4>2, <4>3
    <3>2. CASE x \in Elems(pool)
      <4>1. PICK i \in 1 .. Len(pool) : x = pool[i] BY <3>2 DEF Elems
      <4>2. i + 1 \in 1 .. Len(pool') /\ pool'[i + 1] = x BY <1>5, <1>6, <4>1
      <4> QED BY <4>2 DEF Elems
    <3> QED BY <3>1, <3>2
  <2>6. Elems(list') \cup Elems(pool') = Elems(list) \cup Elems(pool) BY <2>4, <2>5
  <2>7. allocated' = Elems(list') \cup Elems(pool') BY <1>1, <1>7, <2>6
  <2> QED BY <2>1, <2>2, <2>3, <2>7 DEF NodesOnce, Elems
<1>19. ret' = Head(ListContents) /\ ListContents # <<>> /\ ListContents' = Tail(ListContents)
  <2> DEFINE old == ListContents
  <2>1. old = [i \in 1 .. Len(list) |-> data[list[i]]] BY DEF ListContents
  <2>2. ListContents' = [i \in 1 .. Len(list) - 1 |-> data[list'[i]]] BY <1>1, <1>3 DEF ListContents
  <2> HIDE DEF old
  <2>3. old \in Seq(Items \cup {NULL}) /\ Len(old) = Len(list) BY <1>3, <1>9, <2>1, Ends
  <2>4. old # <<>> /\ Head(old) = old[1] /\ old[1] = data[mHead] BY <1>2, <1>3, <2>1, <2>3
  <2>5. Tail(old) = [i \in 1 .. Len(list) - 1 |-> old[i + 1]] BY <2>3, <2>4, TailAsFunction
  <2>6. \A i \in 1 .. Len(list) - 1 : old[i + 1] = data[list'[i]] BY <1>3, <2>1
  <2>7. ListContents' = Tail(old) BY <2>2, <2>5, <2>6
  <2> QED BY <1>1, <2>4, <2>7 DEF old
<1> QED BY <1>16, <1>17, <1>18, <1>19 DEF ListIInv, Queue!Get
-----------------------------------------------------------------------------
(* Theorems *)

LEMMA ListNextStep == ListIInv /\ ListNext => ListIInv' /\ Queue!Next
<1> SUFFICES ASSUME ListIInv, ListNext PROVE ListIInv' /\ Queue!Next OBVIOUS
<1>1. CASE get BY <1>1, ListGetStep, GetEmptyStep DEF Queue!Next
<1>2. CASE \E v \in Items : put(v) \/ push_front(v)
  BY <1>2, ListPutStep, PushFrontStep DEF Queue!Next
<1> QED BY <1>1, <1>2 DEF ListNext

LEMMA StutterStep ==
    ASSUME ListIInv, UNCHANGED listVars
    PROVE  ListIInv' /\ UNCHANGED <<ListContents, ret>>
BY DEF listVars, ListIInv, ListTypeOK, WellLinked, Linked, NodesOnce, ListContents

\* The inductive invariant holds after every sequence of calls.
THEOREM PfInductive == ListSpec => []ListIInv
<1>1. ListIInv /\ [ListNext]_listVars => ListIInv' BY ListNextStep, StutterStep
<1> QED BY ListInitIInv, <1>1, PTL DEF ListSpec

\* put(), push_front() and get() keep every variable in its type.
THEOREM PfTypeOK == ListSpec => []ListTypeOK
BY PfInductive, PTL DEF ListIInv

\* The pointers of the list and of the pool describe them, whatever the calls.
THEOREM PfWellLinked == ListSpec => []WellLinked
BY PfInductive, PTL DEF ListIInv

\* No node is lost, and none is put into the list while it is in use.
THEOREM PfNodesOnce == ListSpec => []NodesOnce
BY PfInductive, PTL DEF ListIInv

\* PointerFIFO implements the queue of pointers: put() appends, push_front()
\* prepends, and get() takes the first, or returns NULL.
THEOREM PfQueue == ListSpec => QueueSpec
<1>1. ListInit => Queue!Init BY DEF ListInit, Queue!Init, ListContents
<1>2. ListIInv /\ [ListNext]_listVars => [Queue!Next]_<<ListContents, ret>>
  BY ListNextStep, StutterStep
<1> QED BY PfInductive, <1>1, <1>2, PTL DEF ListSpec, QueueSpec, Queue!Spec

\* All of it: the nodes are where the pointers say, and once.
THEOREM PfListInv == ListSpec => []ListInv
BY PfTypeOK, PfWellLinked, PfNodesOnce, PTL DEF ListInv
-----------------------------------------------------------------------------
(* The queues: who sleeps and who is awake *)

QThreads == Readers \cup Waiters
Pcs == {"idle", "woken", "mWriteSignal", "mReadSignal"}

\* p is a possible qpc: only readers wait for a write.
TypedPc(p) ==
    /\ p \in [QThreads -> Pcs]
    /\ \A t \in QThreads :
        /\ t \in Readers => p[t] # "mReadSignal"
        /\ t \notin Readers => p[t] # "mWriteSignal"

Awake(p) == {t \in Readers : p[t] = "woken"}
Sleeping(p) == {t \in Readers : p[t] = "mWriteSignal"}

\* len items are looked after by the readers on their way and by n signals
\* to come, as far as a reader sleeps.
Covered(p, len, n) == Sleeping(p) # {} => len <= Cardinality(Awake(p)) + n

QueueIInv ==
    /\ mQ \in Seq(QueueItems) /\ unsignalled \in Nat /\ class \in Q!Classes
    /\ TypedPc(qpc)
    /\ Covered(qpc, Len(mQ), unsignalled)

LEMMA AwakeFinite ==
    ASSUME NEW p
    PROVE  IsFiniteSet(Awake(p)) /\ Cardinality(Awake(p)) \in Nat
<1>1. Awake(p) \in SUBSET Readers BY DEF Awake
<1>2. IsFiniteSet(Awake(p)) BY <1>1, FS_Subset, QueueAssumption
<1> QED BY <1>2, FS_CardinalityType

\* A thread moves: the readers awake are one less or one more at most.
LEMMA Moves ==
    ASSUME NEW p, TypedPc(p), NEW t \in QThreads, NEW v \in Pcs,
           t \in Readers => v # "mReadSignal", t \notin Readers => v # "mWriteSignal",
           NEW q, q = [p EXCEPT ![t] = v]
    PROVE  /\ TypedPc(q)
           /\ v # "mWriteSignal" => Sleeping(q) \subseteq Sleeping(p)
           /\ v # "woken" => Cardinality(Awake(q)) >= Cardinality(Awake(p)) - 1
           /\ v = "woken" => Cardinality(Awake(q)) >= Cardinality(Awake(p))
           /\ v = "woken" /\ p[t] = "mWriteSignal" =>
                Cardinality(Awake(q)) = Cardinality(Awake(p)) + 1
           /\ t \notin Readers => Awake(q) = Awake(p) /\ Sleeping(q) = Sleeping(p)
<1>1. q \in [QThreads -> Pcs] /\ q[t] = v /\ \A u \in QThreads : u # t => q[u] = p[u]
  BY DEF TypedPc
<1>2. TypedPc(q) BY <1>1 DEF TypedPc
<1>3. \A u \in Readers : u \in QThreads BY DEF QThreads
<1>4. v # "mWriteSignal" => Sleeping(q) \subseteq Sleeping(p) BY <1>1, <1>3 DEF Sleeping
<1>5. t \notin Readers => Awake(q) = Awake(p) /\ Sleeping(q) = Sleeping(p)
  BY <1>1, <1>3 DEF Awake, Sleeping
<1>f. /\ IsFiniteSet(Awake(p)) /\ Cardinality(Awake(p)) \in Nat
      /\ IsFiniteSet(Awake(q)) /\ Cardinality(Awake(q)) \in Nat
  BY AwakeFinite
<1>6. ASSUME v # "woken" PROVE Cardinality(Awake(q)) >= Cardinality(Awake(p)) - 1
  <2>1. Awake(q) = Awake(p) \ {t} BY <1>1, <1>3, <1>6 DEF Awake
  <2>2. Cardinality(Awake(p) \ {t})
          = IF t \in Awake(p) THEN Cardinality(Awake(p)) - 1 ELSE Cardinality(Awake(p))
    BY <1>f, FS_RemoveElement
  <2>3. Cardinality(Awake(q)) = Cardinality(Awake(p)) - 1
        \/ Cardinality(Awake(q)) = Cardinality(Awake(p))
    BY <2>1, <2>2
  <2> QED BY <1>f, <2>3
<1>7. ASSUME v = "woken", t \in Readers
      PROVE  Cardinality(Awake(q)) = IF t \in Awake(p) THEN Cardinality(Awake(p))
                                                       ELSE Cardinality(Awake(p)) + 1
  <2>1. Awake(q) = Awake(p) \cup {t} BY <1>1, <1>3, <1>7 DEF Awake
  <2> QED BY <1>f, <2>1, FS_AddElement
<1>8. v = "woken" => Cardinality(Awake(q)) >= Cardinality(Awake(p)) BY <1>f, <1>5, <1>7
<1>9. v = "woken" /\ p[t] = "mWriteSignal" =>
        Cardinality(Awake(q)) = Cardinality(Awake(p)) + 1
  BY <1>7 DEF TypedPc, Awake
<1> QED BY <1>2, <1>4, <1>5, <1>6, <1>8, <1>9

\* A signal of a write wakes a reader, if one sleeps.
LEMMA WriteWakes ==
    ASSUME NEW p, TypedPc(p), NEW q \in Q!Woken("mWriteSignal", p)
    PROVE  /\ TypedPc(q)
           /\ \/ Sleeping(p) = {} /\ q = p
              \/ Cardinality(Awake(q)) = Cardinality(Awake(p)) + 1
           /\ Sleeping(q) # {} => Sleeping(p) # {}
<1>1. CASE \E t \in QThreads : p[t] = "mWriteSignal"
  <2>1. PICK t \in QThreads : p[t] = "mWriteSignal" /\ q = [p EXCEPT ![t] = "woken"]
    BY <1>1 DEF Q!Woken, Q!Threads, QThreads
  <2>2. t \in Readers /\ Sleeping(p) # {} BY <2>1 DEF TypedPc, Sleeping
  <2> QED BY <2>1, <2>2, Moves, ZenonT(40) DEF Pcs
<1>2. CASE ~ \E t \in QThreads : p[t] = "mWriteSignal"
  <2>1. q = p BY <1>2 DEF Q!Woken, Q!Threads, QThreads
  <2>2. Sleeping(p) = {} BY <1>2 DEF Sleeping, QThreads
  <2> QED BY <2>1, <2>2
<1> QED BY <1>1, <1>2

\* A signal of a read is none of the readers' business.
LEMMA ReadWakes ==
    ASSUME NEW p, TypedPc(p), NEW q \in Q!Woken("mReadSignal", p)
    PROVE  TypedPc(q) /\ Awake(q) = Awake(p) /\ Sleeping(q) = Sleeping(p)
<1>1. CASE \E t \in QThreads : p[t] = "mReadSignal"
  <2>1. PICK t \in QThreads : p[t] = "mReadSignal" /\ q = [p EXCEPT ![t] = "woken"]
    BY <1>1 DEF Q!Woken, Q!Threads, QThreads
  <2>2. t \notin Readers BY <2>1 DEF TypedPc
  <2> QED BY <2>1, <2>2, Moves DEF Pcs
<1>2. CASE ~ \E t \in QThreads : p[t] = "mReadSignal"
  <2>1. q = p BY <1>2 DEF Q!Woken, Q!Threads, QThreads
  <2> QED BY <2>1
<1> QED BY <1>1, <1>2
-----------------------------------------------------------------------------
(* The steps of the queues *)

LEMMA QueueInit == Q!Init => QueueIInv
<1> SUFFICES ASSUME Q!Init PROVE QueueIInv OBVIOUS
<1>1. qpc = [t \in QThreads |-> "idle"] /\ mQ = <<>> /\ unsignalled = 0 /\ class \in Q!Classes
  BY DEF Q!Init, Q!Threads, QThreads
<1>2. TypedPc(qpc) BY <1>1 DEF TypedPc, Pcs
<1>3. Sleeping(qpc) = {} BY <1>1 DEF Sleeping, QThreads
<1> QED BY <1>1, <1>2, <1>3 DEF QueueIInv, Covered

\* An empty queue needs no reader.
LEMMA EmptyCovered ==
    ASSUME NEW p, NEW n \in Nat
    PROVE  Covered(p, Len(<<>>), n)
<1>1. Cardinality(Awake(p)) \in Nat BY AwakeFinite
<1> QED BY <1>1 DEF Covered

\* A read takes an item, and the reader is gone: if it was awake, so is one
\* item that it was awake for.
LEMMA QueueTakeStep ==
    ASSUME QueueIInv, NEW t \in Readers, Q!Take(t)
    PROVE  QueueIInv'
<1> DEFINE p == [qpc EXCEPT ![t] = "idle"]
<1>1. /\ mQ # <<>> /\ mQ' = Tail(mQ)
      /\ qpc' \in IF class = "QueueWithWait" THEN Q!Woken("mReadSignal", p) ELSE {p}
      /\ class' = class /\ unsignalled' = unsignalled
  BY DEF Q!Take
<1>2. mQ \in Seq(QueueItems) /\ unsignalled \in Nat /\ class \in Q!Classes /\ TypedPc(qpc)
      /\ Covered(qpc, Len(mQ), unsignalled)
  BY DEF QueueIInv
<1>3. /\ TypedPc(p) /\ Sleeping(p) \subseteq Sleeping(qpc)
      /\ Cardinality(Awake(p)) >= Cardinality(Awake(qpc)) - 1
  BY <1>2, Moves DEF QThreads, Pcs
<1> HIDE DEF p
<1>4. TypedPc(qpc') /\ Awake(qpc') = Awake(p) /\ Sleeping(qpc') = Sleeping(p)
  BY <1>1, <1>3, ReadWakes
<1>5. mQ' \in Seq(QueueItems) /\ Len(mQ') = Len(mQ) - 1 /\ Len(mQ) \in Nat
  BY <1>1, <1>2
<1>6. Cardinality(Awake(qpc)) \in Nat /\ Cardinality(Awake(p)) \in Nat BY AwakeFinite
<1>7. Covered(qpc', Len(mQ'), unsignalled')
  <2> SUFFICES ASSUME Sleeping(qpc') # {}
               PROVE  Len(mQ') <= Cardinality(Awake(qpc')) + unsignalled'
    BY DEF Covered
  <2>1. Len(mQ) <= Cardinality(Awake(qpc)) + unsignalled BY <1>2, <1>3, <1>4 DEF Covered
  <2>2. Cardinality(Awake(qpc')) = Cardinality(Awake(p)) BY <1>4
  <2> QED BY <1>1, <1>2, <1>3, <1>5, <1>6, <2>1, <2>2
<1> QED BY <1>1, <1>2, <1>4, <1>5, <1>7 DEF QueueIInv

\* A read blocks, or gives up, only next to an empty queue.
LEMMA EmptyStep ==
    ASSUME QueueIInv, NEW t \in Readers, NEW v \in {"idle", "mWriteSignal"},
           mQ = <<>>, qpc' = [qpc EXCEPT ![t] = v],
           UNCHANGED <<class, mQ, unsignalled>>
    PROVE  QueueIInv'
<1>1. TypedPc(qpc') BY Moves DEF QueueIInv, QThreads, Pcs
<1>2. Covered(qpc', Len(mQ'), unsignalled') BY EmptyCovered DEF QueueIInv
<1> QED BY <1>1, <1>2 DEF QueueIInv

\* A write adds one item, and a signal now or later.
LEMMA WriteStep ==
    ASSUME QueueIInv, NEW q \in Seq(QueueItems), Len(q) = Len(mQ) + 1, Q!Write(q)
    PROVE  QueueIInv'
<1>1. /\ mQ' = q /\ class' = class
      /\ \/ unsignalled' = unsignalled + 1 /\ qpc' = qpc
         \/ unsignalled' = unsignalled /\ qpc' \in Q!Woken("mWriteSignal", qpc)
  BY DEF Q!Write
<1>2. /\ mQ \in Seq(QueueItems) /\ unsignalled \in Nat /\ class \in Q!Classes
      /\ TypedPc(qpc) /\ Covered(qpc, Len(mQ), unsignalled)
      /\ Len(mQ) \in Nat /\ Cardinality(Awake(qpc)) \in Nat
  BY AwakeFinite DEF QueueIInv
<1>3. CASE unsignalled' = unsignalled + 1 /\ qpc' = qpc
  BY <1>1, <1>2, <1>3 DEF QueueIInv, Covered
<1>4. CASE unsignalled' = unsignalled /\ qpc' \in Q!Woken("mWriteSignal", qpc)
  <2>1. /\ TypedPc(qpc')
        /\ \/ Sleeping(qpc) = {} /\ qpc' = qpc
           \/ Cardinality(Awake(qpc')) = Cardinality(Awake(qpc)) + 1
        /\ Sleeping(qpc') # {} => Sleeping(qpc) # {}
    BY <1>2, <1>4, WriteWakes
  <2>2. Covered(qpc', Len(mQ'), unsignalled') BY <1>1, <1>2, <1>4, <2>1 DEF Covered
  <2> QED BY <1>1, <1>2, <1>4, <2>1, <2>2 DEF QueueIInv
<1> QED BY <1>1, <1>3, <1>4

\* The signal of an InterthreadQueue2::write wakes the reader it stood for.
LEMMA SignalStep ==
    ASSUME QueueIInv, Q!SignalWrite
    PROVE  QueueIInv'
<1>1. /\ unsignalled > 0 /\ unsignalled' = unsignalled - 1
      /\ qpc' \in Q!Woken("mWriteSignal", qpc) /\ mQ' = mQ /\ class' = class
  BY DEF Q!SignalWrite
<1>2. /\ mQ \in Seq(QueueItems) /\ unsignalled \in Nat /\ class \in Q!Classes
      /\ TypedPc(qpc) /\ Covered(qpc, Len(mQ), unsignalled)
      /\ Len(mQ) \in Nat /\ Cardinality(Awake(qpc)) \in Nat
  BY AwakeFinite DEF QueueIInv
<1>3. /\ TypedPc(qpc')
      /\ \/ Sleeping(qpc) = {} /\ qpc' = qpc
         \/ Cardinality(Awake(qpc')) = Cardinality(Awake(qpc)) + 1
      /\ Sleeping(qpc') # {} => Sleeping(qpc) # {}
  BY <1>1, <1>2, WriteWakes
<1>4. Covered(qpc', Len(mQ'), unsignalled') BY <1>1, <1>2, <1>3 DEF Covered
<1>5. unsignalled' \in Nat BY <1>1, <1>2
<1> QED BY <1>1, <1>2, <1>3, <1>4, <1>5 DEF QueueIInv

\* The steps of a waiter, and a wakeup that nobody gave.
LEMMA OtherStep ==
    ASSUME QueueIInv, NEW t \in QThreads, NEW v \in Pcs,
           qpc' = [qpc EXCEPT ![t] = v],
           t \in Readers => v = "woken", t \notin Readers => v # "mWriteSignal",
           UNCHANGED <<class, mQ, unsignalled>>
    PROVE  QueueIInv'
<1>1. /\ TypedPc(qpc') /\ Sleeping(qpc') \subseteq Sleeping(qpc)
      /\ Cardinality(Awake(qpc')) >= Cardinality(Awake(qpc))
         \/ Awake(qpc') = Awake(qpc)
  BY Moves DEF QueueIInv
<1>2. Len(mQ) \in Nat /\ unsignalled \in Nat
      /\ Cardinality(Awake(qpc)) \in Nat /\ Cardinality(Awake(qpc')) \in Nat
  BY AwakeFinite DEF QueueIInv
<1>3. Cardinality(Awake(qpc')) >= Cardinality(Awake(qpc))
  <2>1. CASE Awake(qpc') = Awake(qpc)
    <3>1. Cardinality(Awake(qpc')) = Cardinality(Awake(qpc)) BY <2>1
    <3> QED BY <1>2, <3>1
  <2> QED BY <1>1, <2>1
<1>4. Covered(qpc', Len(mQ'), unsignalled')
  <2> SUFFICES ASSUME Sleeping(qpc') # {}
               PROVE  Len(mQ) <= Cardinality(Awake(qpc')) + unsignalled
    BY DEF Covered
  <2>1. Sleeping(qpc) # {} BY <1>1
  <2>2. Len(mQ) <= Cardinality(Awake(qpc)) + unsignalled BY <2>1 DEF QueueIInv, Covered
  <2> QED BY <1>2, <1>3, <2>2
<1> QED BY <1>1, <1>4 DEF QueueIInv

LEMMA ClearStep ==
    ASSUME QueueIInv, Q!clear
    PROVE  QueueIInv'
<1>1. /\ mQ' = <<>> /\ class' = class /\ unsignalled' = unsignalled
      /\ qpc' \in IF class = "QueueWithWait" THEN Q!Woken("mReadSignal", qpc) ELSE {qpc}
  BY DEF Q!clear
<1>2. TypedPc(qpc') BY <1>1, ReadWakes DEF QueueIInv
<1>3. Covered(qpc', Len(mQ'), unsignalled') BY <1>1, EmptyCovered DEF QueueIInv
<1> QED BY <1>1, <1>2, <1>3 DEF QueueIInv

LEMMA QueueNext ==
    ASSUME QueueIInv, Q!Next
    PROVE  QueueIInv'
<1>1. ASSUME NEW t \in Readers, Q!Block(t) PROVE QueueIInv'
  BY <1>1, EmptyStep DEF Q!Block
<1>2. ASSUME NEW t \in Q!Threads, Q!Read(t) PROVE QueueIInv'
  BY <1>2, <1>1, QueueTakeStep DEF Q!Read
<1>3. ASSUME NEW t \in Q!Threads, Q!TimedOut(t) PROVE QueueIInv'
  BY <1>3, QueueTakeStep, EmptyStep DEF Q!TimedOut
<1>4. ASSUME NEW t \in Waiters, NEW sz, Q!WaitBelow(t, sz), UNCHANGED <<class, mQ, unsignalled>>
      PROVE  QueueIInv'
  <2>1. t \notin Readers /\ t \in QThreads BY QueueAssumption DEF QThreads
  <2>2. PICK v \in {"mReadSignal", "idle"} : qpc' = [qpc EXCEPT ![t] = v]
    BY <1>4 DEF Q!WaitBelow
  <2> QED BY <1>4, <2>1, <2>2, OtherStep DEF Pcs
<1>5. ASSUME NEW t \in Q!Threads, Q!wait(t) PROVE QueueIInv'
  <2>1. PICK sz \in Marks : Q!WaitBelow(t, sz) BY <1>5 DEF Q!wait
  <2> QED BY <1>5, <2>1, <1>4 DEF Q!wait
<1>6. ASSUME NEW t \in Q!Threads, Q!Run(t) PROVE QueueIInv'
  BY <1>6, <1>1, <1>4, QueueTakeStep DEF Q!Run, Q!ReadWoken, Q!WaitWoken
<1>7. ASSUME NEW t \in Q!Threads, Q!Spurious(t) PROVE QueueIInv'
  BY <1>7, OtherStep DEF Q!Spurious, Q!Threads, QThreads, Pcs
<1>8. ASSUME NEW v \in QueueItems
      PROVE  /\ mQ \in Seq(QueueItems)
             /\ Append(mQ, v) \in Seq(QueueItems) /\ Len(Append(mQ, v)) = Len(mQ) + 1
             /\ <<v>> \o mQ \in Seq(QueueItems) /\ Len(<<v>> \o mQ) = Len(mQ) + 1
  BY DEF QueueIInv
<1>9. CASE Q!write
  <2>1. PICK v \in QueueItems : Q!Write(Append(mQ, v)) BY <1>9 DEF Q!write
  <2> QED BY <1>8, <2>1, WriteStep
<1>10. CASE Q!write_front
  <2>1. PICK v \in QueueItems : Q!Write(<<v>> \o mQ) BY <1>10 DEF Q!write_front
  <2> QED BY <1>8, <2>1, WriteStep
<1> QED BY <1>2, <1>3, <1>5, <1>6, <1>7, <1>9, <1>10, SignalStep, ClearStep DEF Q!Next
-----------------------------------------------------------------------------
(* The map *)

Objects == mMap \in [Keys -> Items \cup {NULL}] /\ owned \in [MapThreads -> SUBSET Items]

MapIInv ==
    /\ Objects /\ Map!OneOwner
    /\ pc \in [MapThreads -> {"idle", "woken", "mWriteSignal"}]
    /\ key \in [MapThreads -> Keys]
    /\ Map!NoLostWakeup

LEMMA MapInit == Map!Init => MapIInv
<1> SUFFICES ASSUME Map!Init PROVE MapIInv OBVIOUS
<1> USE DEF Map!Init
<1>1. Objects BY DEF Objects
<1>2. Map!InMap = {} /\ Map!Owned = {} BY DEF Map!InMap, Map!Owned
<1>3. Map!OneOwner BY <1>2 DEF Map!OneOwner
<1>4. Map!NoLostWakeup BY DEF Map!NoLostWakeup
<1> QED BY <1>1, <1>3, <1>4 DEF MapIInv

\* The calls that wait: a thread sleeps only next to a missing key.
LEMMA SleepStep ==
    ASSUME MapIInv, NEW t \in MapThreads, NEW k \in Keys, NEW v \in {"idle", "mWriteSignal"},
           mMap' \in [Keys -> Items \cup {NULL}],
           \A l \in Keys : mMap[l] = NULL => mMap'[l] = NULL,
           v = "mWriteSignal" => mMap'[k] = NULL,
           pc' = [pc EXCEPT ![t] = v],
           key' = [key EXCEPT ![t] = k]
    PROVE  /\ pc' \in [MapThreads -> {"idle", "woken", "mWriteSignal"}]
           /\ key' \in [MapThreads -> Keys]
           /\ Map!NoLostWakeup'
<1>1. /\ pc \in [MapThreads -> {"idle", "woken", "mWriteSignal"}] /\ key \in [MapThreads -> Keys]
      /\ \A u \in MapThreads : pc[u] = "mWriteSignal" => mMap[key[u]] = NULL
  BY DEF MapIInv, Map!NoLostWakeup
<1>2. ASSUME NEW u \in MapThreads, pc'[u] = "mWriteSignal" PROVE mMap'[key'[u]] = NULL
  <2>1. CASE u = t BY <1>1, <1>2, <2>1
  <2>2. CASE u # t
    <3>1. pc[u] = "mWriteSignal" /\ key'[u] = key[u] /\ key[u] \in Keys
      BY <1>1, <1>2, <2>2
    <3> QED BY <1>1, <3>1
  <2> QED BY <2>1, <2>2
<1> QED BY <1>1, <1>2 DEF Map!NoLostWakeup

\* get() hands the object over, read() does not.
LEMMA FoundOwns ==
    ASSUME MapIInv, NEW t \in MapThreads, NEW o, NEW k \in Keys, Map!Found(t, o, k)
    PROVE  /\ Objects' /\ Map!OneOwner' /\ Map!NothingLeaks
           /\ \A l \in Keys : mMap[l] = NULL => mMap'[l] = NULL
<1> USE MapAssumption DEF Map!NullAssumption
<1>1. /\ mMap \in [Keys -> Items \cup {NULL}] /\ owned \in [MapThreads -> SUBSET Items]
      /\ mMap[k] # NULL /\ deleted' = deleted
  BY DEF MapIInv, Objects, Map!Found
<1>2. /\ \A m, l \in Keys : mMap[m] = mMap[l] /\ mMap[m] # NULL => m = l
      /\ \A u, w \in MapThreads : u # w => owned[u] \cap owned[w] = {}
      /\ \A u \in MapThreads, l \in Keys : mMap[l] # NULL => mMap[l] \notin owned[u]
      /\ \A l \in Keys : mMap[l] # NULL => mMap[l] \notin deleted
      /\ \A u \in MapThreads : owned[u] \cap deleted = {}
  BY DEF MapIInv, Map!OneOwner, Map!InMap, Map!Owned
<1>3. CASE o = "get"
  <2>1. /\ mMap' = [mMap EXCEPT ![k] = NULL]
        /\ owned' = [owned EXCEPT ![t] = @ \cup {mMap[k]}]
    BY <1>3 DEF Map!Found
  <2>2. /\ \A l \in Keys : mMap'[l] = IF l = k THEN NULL ELSE mMap[l]
        /\ \A u \in MapThreads :
              owned'[u] = IF u = t THEN owned[u] \cup {mMap[k]} ELSE owned[u]
    BY <1>1, <2>1
  <2>3. Objects' BY <1>1, <2>1 DEF Objects
  <2>4. \A m, l \in Keys : mMap'[m] = mMap'[l] /\ mMap'[m] # NULL => m = l
    BY <1>2, <2>2
  <2>5. ASSUME NEW u \in MapThreads, NEW w \in MapThreads, NEW x \in owned'[u] \cap owned'[w]
        PROVE  u = w
    <3>1. CASE x = mMap[k] BY <1>1, <1>2, <2>2, <2>5, <3>1
    <3>2. CASE x # mMap[k] BY <1>2, <2>2, <2>5, <3>2, ZenonT(40)
    <3> QED BY <3>1, <3>2
  <2>6. ASSUME NEW u \in MapThreads, NEW l \in Keys, mMap'[l] # NULL
        PROVE  mMap'[l] \notin owned'[u] /\ mMap'[l] \notin deleted
    <3>1. l # k /\ mMap'[l] = mMap[l] BY <2>2, <2>6
    <3>2. mMap[l] # mMap[k] BY <1>1, <1>2, <2>6, <3>1, ZenonT(40)
    <3>3. owned'[u] \subseteq owned[u] \cup {mMap[k]} BY <2>2, <2>6
    <3>4. mMap[l] \notin owned[u] /\ mMap[l] \notin deleted BY <1>2, <2>6, <3>1
    <3> QED BY <3>1, <3>2, <3>3, <3>4
  <2>7. ASSUME NEW u \in MapThreads PROVE owned'[u] \cap deleted = {}
    <3>1. owned'[u] \subseteq owned[u] \cup {mMap[k]} BY <2>2
    <3>2. owned[u] \cap deleted = {} BY <1>2
    <3>3. mMap[k] \notin deleted BY <1>1, <1>2
    <3> QED BY <3>1, <3>2, <3>3
  <2>8. \A l \in Keys : mMap'[l] # NULL => mMap'[l] \notin deleted BY <1>2, <2>2
  <2>9. Map!OneOwner'
    BY <1>1, <2>4, <2>5, <2>6, <2>7, <2>8 DEF Map!OneOwner, Map!InMap, Map!Owned
  <2>10. Map!NothingLeaks BY <2>2 DEF Map!NothingLeaks, Map!InMap
  <2> QED BY <2>2, <2>3, <2>9, <2>10
<1>4. CASE o # "get"
  <2>1. mMap' = mMap /\ owned' = owned BY <1>4 DEF Map!Found
  <2> QED BY <1>1, <2>1 DEF MapIInv, Objects, Map!OneOwner, Map!NothingLeaks, Map!InMap, Map!Owned
<1> QED BY <1>3, <1>4

\* What OneOwner says of single keys, threads and objects.
Separate ==
    /\ mMap \in [Keys -> Items \cup {NULL}] /\ owned \in [MapThreads -> SUBSET Items]
    /\ \A m, l \in Keys : mMap[m] = mMap[l] /\ mMap[m] # NULL => m = l
    /\ \A u, w \in MapThreads : \A x \in owned[u] \cap owned[w] : u = w
    /\ \A u \in MapThreads, l \in Keys : mMap[l] # NULL => mMap[l] \notin owned[u]
    /\ \A l \in Keys : mMap[l] # NULL => mMap[l] \notin deleted
    /\ \A u \in MapThreads : \A x \in owned[u] : x \notin deleted

LEMMA OwnersApart ==
    ASSUME MapIInv
    PROVE  Separate
<1>1. Objects /\ Map!OneOwner BY DEF MapIInv
<1>2. \A u, w \in MapThreads : \A x \in owned[u] \cap owned[w] : u = w
  BY <1>1 DEF Map!OneOwner
<1>3. \A u \in MapThreads, l \in Keys : mMap[l] # NULL => mMap[l] \notin owned[u]
  BY <1>1 DEF Map!OneOwner, Map!InMap, Map!Owned
<1>4. \A l \in Keys : mMap[l] # NULL => mMap[l] \notin deleted
  BY <1>1 DEF Map!OneOwner, Map!InMap
<1>5. \A u \in MapThreads : \A x \in owned[u] : x \notin deleted
  BY <1>1 DEF Map!OneOwner, Map!Owned
<1> QED BY <1>1, <1>2, <1>3, <1>4, <1>5 DEF Objects, Separate, Map!OneOwner

\* A write takes its object from whoever owned it, and deletes the one it
\* replaces; everybody who waits is woken.
LEMMA MapWrite ==
    ASSUME MapIInv, NEW k \in Keys, NEW d \in Items, Map!write(k, d)
    PROVE  MapIInv' /\ Map!NothingLeaks
<1> USE MapAssumption DEF Map!NullAssumption
<1>1. /\ mMap' = [mMap EXCEPT ![k] = d] /\ deleted' = deleted \cup ({mMap[k]} \ {NULL})
      /\ owned' = [t \in MapThreads |-> owned[t] \ {d}]
      /\ pc' = [t \in MapThreads |-> IF pc[t] = "mWriteSignal" THEN "woken" ELSE pc[t]]
      /\ key' = key
      /\ d \notin deleted /\ \A l \in Keys : mMap[l] # d
  BY DEF Map!write, Map!Fresh, Map!Broadcast, Map!InMap
<1>p. Separate BY OwnersApart
<1> USE DEF Separate
<1>2. /\ \A l \in Keys : mMap'[l] = IF l = k THEN d ELSE mMap[l]
      /\ \A u \in MapThreads : owned'[u] = owned[u] \ {d}
  BY <1>1, <1>p
<1>3. Objects' BY <1>1, <1>p DEF Objects
<1>4. \A m, l \in Keys : mMap'[m] = mMap'[l] /\ mMap'[m] # NULL => m = l BY <1>1, <1>2, <1>p
<1>5. ASSUME NEW u \in MapThreads, NEW w \in MapThreads, NEW x \in owned'[u] \cap owned'[w]
      PROVE  u = w
  BY <1>2, <1>5, <1>p
<1>6. ASSUME NEW l \in Keys, mMap'[l] # NULL
      PROVE  mMap'[l] \notin deleted' /\ \A u \in MapThreads : mMap'[l] \notin owned'[u]
  <2>1. CASE l = k
    <3>1. mMap'[l] = d /\ mMap[k] # d BY <1>1, <1>2, <2>1
    <3> QED BY <1>1, <1>2, <3>1
  <2>2. CASE l # k
    <3>1. mMap'[l] = mMap[l] BY <1>2, <2>2
    <3>2. mMap[l] # mMap[k] BY <1>6, <1>p, <2>2, <3>1
    <3> QED BY <1>1, <1>2, <1>6, <1>p, <3>1, <3>2
  <2> QED BY <2>1, <2>2
<1>7. ASSUME NEW u \in MapThreads, NEW x \in owned'[u] PROVE x \notin deleted'
  <2>1. x \in owned[u] BY <1>2, <1>7
  <2>2. x \notin deleted BY <1>p, <2>1
  <2>3. mMap[k] # NULL => x # mMap[k] BY <1>p, <2>1
  <2> QED BY <1>1, <2>2, <2>3
<1>8. Map!OneOwner' BY <1>3, <1>4, <1>5, <1>6, <1>7 DEF Objects, Map!OneOwner, Map!InMap, Map!Owned
<1>9. Map!NothingLeaks
  <2> SUFFICES ASSUME NEW l \in Keys, mMap[l] # NULL, \A m \in Keys : mMap'[m] # mMap[l]
               PROVE  mMap[l] \in deleted'
    BY DEF Map!NothingLeaks, Map!InMap
  <2>1. l = k BY <1>2
  <2> QED BY <1>1, <2>1
<1>10. /\ pc' \in [MapThreads -> {"idle", "woken", "mWriteSignal"}]
       /\ \A t \in MapThreads : pc'[t] # "mWriteSignal"
  BY <1>1 DEF MapIInv
<1>11. Map!NoLostWakeup' BY <1>10 DEF Map!NoLostWakeup
<1> QED BY <1>1, <1>3, <1>8, <1>9, <1>10, <1>11 DEF MapIInv

\* remove() and clear() delete what they take out, and wake nobody.
LEMMA MapRemoves ==
    ASSUME MapIInv, NEW S \in SUBSET Keys,
           mMap' = [l \in Keys |-> IF l \in S THEN NULL ELSE mMap[l]],
           deleted' = deleted \cup {mMap[l] : l \in {m \in S : mMap[m] # NULL}},
           UNCHANGED <<pc, key, owned>>
    PROVE  MapIInv' /\ Map!NothingLeaks
<1> USE MapAssumption DEF Map!NullAssumption
<1>p. Separate BY OwnersApart
<1> USE DEF Separate
<1>1. Objects' BY <1>p DEF Objects
<1>2. ASSUME NEW l \in Keys, mMap'[l] # NULL
      PROVE  l \notin S /\ mMap'[l] = mMap[l] /\ mMap'[l] \notin deleted'
  <2>1. l \notin S /\ mMap'[l] = mMap[l] BY <1>2
  <2>2. \A m \in S : mMap[m] # NULL => mMap[m] # mMap[l] BY <1>p, <2>1
  <2> QED BY <1>2, <1>p, <2>1, <2>2
<1>3. ASSUME NEW u \in MapThreads, NEW x \in owned[u] PROVE x \notin deleted'
  BY <1>3, <1>p
<1>4. \A m, l \in Keys : mMap'[m] = mMap'[l] /\ mMap'[m] # NULL => m = l BY <1>2, <1>p
<1>5. \A u \in MapThreads, l \in Keys : mMap'[l] # NULL => mMap'[l] \notin owned[u]
  BY <1>2, <1>p
<1>6. Map!OneOwner'
  BY <1>1, <1>2, <1>3, <1>4, <1>5, <1>p DEF Objects, Map!OneOwner, Map!InMap, Map!Owned
<1>7. Map!NothingLeaks
  <2> SUFFICES ASSUME NEW l \in Keys, mMap[l] # NULL, \A m \in Keys : mMap'[m] # mMap[l]
               PROVE  mMap[l] \in deleted'
    BY DEF Map!NothingLeaks, Map!InMap
  <2>1. l \in S OBVIOUS
  <2> QED BY <2>1
<1>8. Map!NoLostWakeup' BY DEF MapIInv, Map!NoLostWakeup
<1> QED BY <1>1, <1>6, <1>7, <1>8 DEF MapIInv

\* The caller of get() deletes what it was given.
LEMMA MapCallerDeletes ==
    ASSUME MapIInv, NEW t \in MapThreads, Map!CallerDeletes(t)
    PROVE  MapIInv' /\ Map!NothingLeaks
<1> USE DEF Separate
<1>1. PICK d \in owned[t] : /\ owned' = [owned EXCEPT ![t] = @ \ {d}]
                            /\ deleted' = deleted \cup {d}
                            /\ UNCHANGED <<mMap, pc, key>>
  BY DEF Map!CallerDeletes
<1>p. Separate BY OwnersApart
<1>2. /\ \A u \in MapThreads : owned'[u] = IF u = t THEN owned[u] \ {d} ELSE owned[u]
      /\ owned' \in [MapThreads -> SUBSET Items]
  BY <1>1, <1>p
<1>3. ASSUME NEW u \in MapThreads, NEW x \in owned'[u] PROVE x \in owned[u] /\ x \notin deleted'
  <2>1. x \in owned[u] BY <1>2, <1>3
  <2>2. x # d
    <3>1. CASE u = t BY <1>2, <1>3, <3>1
    <3>2. CASE u # t BY <1>p, <2>1, <3>2
    <3> QED BY <3>1, <3>2
  <2> QED BY <1>1, <1>p, <2>1, <2>2
<1>4. ASSUME NEW l \in Keys, mMap[l] # NULL PROVE mMap[l] \notin deleted'
  <2>1. mMap[l] # d BY <1>4, <1>p
  <2> QED BY <1>1, <1>4, <1>p, <2>1
<1>5. \A u, w \in MapThreads : \A x \in owned'[u] \cap owned'[w] : u = w BY <1>3, <1>p
<1>6. \A u \in MapThreads, l \in Keys : mMap[l] # NULL => mMap[l] \notin owned'[u] BY <1>3, <1>p
<1>7. Map!OneOwner'
  BY <1>1, <1>2, <1>3, <1>4, <1>5, <1>6, <1>p DEF Map!OneOwner, Map!InMap, Map!Owned
<1>8. Map!NothingLeaks BY <1>1 DEF Map!NothingLeaks, Map!InMap
<1>9. Objects' BY <1>1, <1>2, <1>p DEF Objects
<1>10. Map!NoLostWakeup' BY <1>1 DEF MapIInv, Map!NoLostWakeup
<1> QED BY <1>1, <1>7, <1>8, <1>9, <1>10 DEF MapIInv

\* A step that leaves the objects alone, and only may end a wait.
LEMMA MapKept ==
    ASSUME MapIInv, UNCHANGED <<mMap, deleted, owned>>
    PROVE  Objects' /\ Map!OneOwner' /\ Map!NothingLeaks
BY DEF MapIInv, Objects, Map!OneOwner, Map!InMap, Map!Owned, Map!NothingLeaks

\* A thread looks for key k: it finds it, or it gives up, or it sleeps.
LEMMA MapLooks ==
    ASSUME MapIInv, NEW t \in MapThreads, NEW o, NEW k \in Keys,
           key' = [key EXCEPT ![t] = k],
           Map!Found(t, o, k) \/ \E v \in {"idle", "mWriteSignal"} : Map!Missing(t, k, v)
    PROVE  MapIInv' /\ Map!NothingLeaks
<1>1. CASE Map!Found(t, o, k)
  <2>1. /\ Objects' /\ Map!OneOwner' /\ Map!NothingLeaks
        /\ \A l \in Keys : mMap[l] = NULL => mMap'[l] = NULL
    BY <1>1, FoundOwns
  <2>2. pc' = [pc EXCEPT ![t] = "idle"] BY <1>1 DEF Map!Found
  <2>3. mMap' \in [Keys -> Items \cup {NULL}] BY <2>1 DEF Objects
  <2>4. /\ pc' \in [MapThreads -> {"idle", "woken", "mWriteSignal"}]
        /\ key' \in [MapThreads -> Keys]
        /\ Map!NoLostWakeup'
    BY <2>1, <2>2, <2>3, SleepStep
  <2> QED BY <2>1, <2>4 DEF MapIInv
<1>2. CASE \E v \in {"idle", "mWriteSignal"} : Map!Missing(t, k, v)
  <2>1. PICK v \in {"idle", "mWriteSignal"} : Map!Missing(t, k, v) BY <1>2
  <2>2. /\ mMap[k] = NULL /\ pc' = [pc EXCEPT ![t] = v]
        /\ UNCHANGED <<mMap, deleted, owned>>
    BY <2>1 DEF Map!Missing
  <2>3. Objects' /\ Map!OneOwner' /\ Map!NothingLeaks BY <2>2, MapKept
  <2>4. mMap' \in [Keys -> Items \cup {NULL}] BY <2>3 DEF Objects
  <2>5. \A l \in Keys : mMap[l] = NULL => mMap'[l] = NULL BY <2>2
  <2>6. /\ pc' \in [MapThreads -> {"idle", "woken", "mWriteSignal"}]
        /\ key' \in [MapThreads -> Keys]
        /\ Map!NoLostWakeup'
    BY <2>2, <2>4, <2>5, SleepStep
  <2> QED BY <2>3, <2>6 DEF MapIInv
<1> QED BY <1>1, <1>2

LEMMA MapNext ==
    ASSUME MapIInv, Map!Next
    PROVE  MapIInv' /\ Map!NothingLeaks
<1> DEFINE Goal == MapIInv' /\ Map!NothingLeaks
<1> USE MapAssumption DEF Map!NullAssumption
<1>k. ASSUME NEW t \in MapThreads PROVE key[t] \in Keys /\ key = [key EXCEPT ![t] = key[t]]
  BY <1>k DEF MapIInv
<1>1. ASSUME NEW k \in Keys, NEW d \in Items, Map!write(k, d) PROVE Goal
  BY <1>1, MapWrite
<1>2. ASSUME NEW t \in MapThreads, NEW o, NEW k \in Keys, Map!Call(t, o, k) PROVE Goal
  BY <1>2, MapLooks DEF Map!Call
<1>3. ASSUME NEW t \in MapThreads, NEW o, NEW k \in Keys, Map!CallNoBlock(t, o, k) PROVE Goal
  <2>1. /\ Map!Found(t, o, k) /\ key' = key BY <1>3 DEF Map!CallNoBlock
  <2>2. /\ Objects' /\ Map!OneOwner' /\ Map!NothingLeaks
        /\ \A l \in Keys : mMap[l] = NULL => mMap'[l] = NULL
    BY <2>1, FoundOwns
  <2>3. pc' = [pc EXCEPT ![t] = "idle"] BY <2>1 DEF Map!Found
  <2>4. mMap' \in [Keys -> Items \cup {NULL}] BY <2>2 DEF Objects
  <2>5. /\ pc' \in [MapThreads -> {"idle", "woken", "mWriteSignal"}]
        /\ key' \in [MapThreads -> Keys]
        /\ Map!NoLostWakeup'
    BY <1>k, <2>1, <2>2, <2>3, <2>4, SleepStep
  <2> QED BY <2>2, <2>5 DEF MapIInv
<1>4. ASSUME NEW t \in MapThreads, Map!Woken(t) PROVE Goal
  BY <1>4, <1>k, MapLooks DEF Map!Woken
<1>5. ASSUME NEW t \in MapThreads, Map!TimedOut(t) PROVE Goal
  BY <1>5, <1>k, MapLooks DEF Map!TimedOut
<1>6. ASSUME NEW t \in MapThreads, Map!CallerDeletes(t) PROVE Goal
  BY <1>6, MapCallerDeletes
<1>7. ASSUME NEW t \in MapThreads, Map!CallerDone(t) PROVE Goal
  BY <1>7, MapKept DEF Map!CallerDone, MapIInv, Map!NoLostWakeup
<1>8. ASSUME NEW k \in Keys, Map!remove(k) PROVE Goal
  <2>1. /\ mMap[k] # NULL /\ mMap' = [mMap EXCEPT ![k] = NULL]
        /\ deleted' = deleted \cup {mMap[k]} /\ UNCHANGED <<pc, key, owned>>
    BY <1>8 DEF Map!remove
  <2>2. mMap' = [l \in Keys |-> IF l \in {k} THEN NULL ELSE mMap[l]]
    BY <2>1 DEF MapIInv, Objects
  <2>3. deleted' = deleted \cup {mMap[l] : l \in {m \in {k} : mMap[m] # NULL}} BY <2>1
  <2>4. {k} \in SUBSET Keys OBVIOUS
  <2> QED BY <2>1, <2>2, <2>3, <2>4, MapRemoves
<1>9. CASE Map!clear
  <2>1. /\ mMap' = [k \in Keys |-> NULL]
        /\ deleted' = deleted \cup Map!InMap /\ UNCHANGED <<pc, key, owned>>
    BY <1>9 DEF Map!clear
  <2>2. mMap' = [l \in Keys |-> IF l \in Keys THEN NULL ELSE mMap[l]] BY <2>1
  <2>3. deleted' = deleted \cup {mMap[l] : l \in {m \in Keys : mMap[m] # NULL}}
    BY <2>1 DEF Map!InMap
  <2>4. Keys \in SUBSET Keys OBVIOUS
  <2> QED BY <2>1, <2>2, <2>3, <2>4, MapRemoves
<1> QED BY <1>1, <1>2, <1>3, <1>4, <1>5, <1>6, <1>7, <1>8, <1>9 DEF Map!Next
-----------------------------------------------------------------------------
(* All the containers *)

MCIInv == QueueIInv /\ MapIInv

LEMMA MCStep ==
    ASSUME MCIInv, [MCNext]_MCvars
    PROVE  MCIInv' /\ (Map!NothingLeaks \/ UNCHANGED mapVars)
<1>1. ASSUME UNCHANGED queueVars PROVE QueueIInv'
  BY <1>1 DEF MCIInv, QueueIInv, queueVars
<1>2. ASSUME UNCHANGED mapVars PROVE MapIInv'
  BY <1>2 DEF MCIInv, MapIInv, mapVars, Objects, Map!OneOwner, Map!InMap, Map!Owned,
              Map!NoLostWakeup
<1>3. CASE List BY <1>1, <1>2, <1>3 DEF List, MCIInv
<1>4. CASE OfQueue(Q!Next) BY <1>2, <1>4, QueueNext DEF OfQueue, MCIInv
<1>5. CASE OfMap(Map!Next) BY <1>1, <1>5, MapNext DEF OfMap, MCIInv
<1>6. CASE UNCHANGED MCvars BY <1>1, <1>2, <1>6 DEF MCvars, MCIInv
<1> QED BY <1>3, <1>4, <1>5, <1>6 DEF MCNext

\* The inductive invariant of the queues and of the map holds whatever the
\* threads call, in whatever order they are woken.
THEOREM QuInductive == MCSpec => []MCIInv
<1>1. MCInit => MCIInv BY QueueInit, MapInit DEF MCInit, MCIInv
<1>2. MCIInv /\ [MCNext]_MCvars => MCIInv' BY MCStep
<1> QED BY <1>1, <1>2, PTL DEF MCSpec

\* A write's signal is never lost on a reader that sleeps next to an item, nor
\* a write() of the map on a thread that sleeps next to its key.
THEOREM QuNoLostWakeup == MCSpec => []NoLostWakeup
<1>1. MCIInv => NoLostWakeup
  <2> SUFFICES ASSUME MCIInv PROVE NoLostWakeup OBVIOUS
  <2> USE DEF MCIInv, QueueIInv
  <2>1. Q!On("mWriteSignal") = Sleeping(qpc)
    BY DEF Q!On, Q!Threads, TypedPc, QThreads, Sleeping
  <2>2. Q!On("woken") \cap Readers = Awake(qpc) BY DEF Q!On, Q!Threads, Awake
  <2>3. Q!NoLostWakeup
    <3>1. Q!Cardinality(Awake(qpc)) = Cardinality(Awake(qpc)) BY DEF Q!Cardinality, Cardinality
    <3> SUFFICES ASSUME Sleeping(qpc) # {}
                 PROVE  Len(mQ) <= Cardinality(Awake(qpc)) + unsignalled
      BY <2>1, <2>2, <3>1 DEF Q!NoLostWakeup
    <3> QED BY DEF Covered
  <2>4. Q!TypeOK BY DEF Q!TypeOK, Q!Threads, TypedPc, QThreads, Pcs
  <2> QED BY <2>3, <2>4 DEF NoLostWakeup, MapIInv
<1> QED BY QuInductive, <1>1, PTL

\* Every object of a map has one owner, nothing that is owned was deleted, and
\* what leaves the map is deleted or handed on in the same step.
THEOREM QuOwnedOnce == MCSpec => OwnedOnce
<1>1. MCIInv /\ [MCNext]_MCvars => [Map!OneOwner' /\ Map!NothingLeaks]_mapVars
  BY MCStep DEF MCIInv, MapIInv
<1> QED BY QuInductive, <1>1, PTL DEF MCSpec, OwnedOnce
-----------------------------------------------------------------------------
(* The sample ring buffer *)


\* The place in the ring i positions after p, which is less than a turn.
After(p, i) == IF p + i < bufferLen THEN p + i ELSE p + i - bufferLen

\* The samples counted have been written.
Filled == \A i \in 0 .. availSamples - 1 : buffer[hLen + After(readIndex, i)] \in Samples

\* The last samples taken still precede the read index, unless the writers
\* have used their places.
PastInRing ==
    /\ Len(past) <= hLen
    /\ availSamples + hLen <= bufferLen =>
        \A k \in 1 .. Len(past) :
            buffer[hLen + After(readIndex, bufferLen - k)] = past[Len(past) + 1 - k]

IInv == TypeOK /\ RingConsistent /\ Filled /\ PastInRing

Memories == [0 .. hLen + bufferLen - 1 -> Samples \cup {JUNK}]

\* How far p is behind the write index, around the ring.
Behind(p) == IF p >= writeIndex THEN p - writeIndex ELSE p - writeIndex + bufferLen
-----------------------------------------------------------------------------
(* Arithmetic *)

LEMMA DivMod ==
    ASSUME NEW n \in Nat \ {0}, NEW x \in Nat
    PROVE  x % n \in 0 .. n - 1 /\ x = n * (x \div n) + (x % n) /\ x \div n \in Nat
OBVIOUS

LEMMA ModZero ==
    ASSUME NEW n \in Nat \ {0}, NEW q \in Int
    PROVE  (q * n) % n = 0 /\ (q * n) \div n = q
OBVIOUS

LEMMA Multiples ==
    ASSUME NEW n \in Nat \ {0}, NEW p \in Int, NEW q \in Int, p < q
    PROVE  p * n + n <= q * n
OBVIOUS

\* The ring holds whole segments.
LEMMA Lengths ==
    /\ bufferLen \in Nat \ {0} /\ SegmentLen \in Nat \ {0} /\ SegmentLen <= bufferLen
    /\ hLen \in 0 .. SegmentLen /\ hLen \in Nat
<1>1. 0 * SegmentLen + SegmentLen <= NumSegments * SegmentLen
  BY Multiples, BufferAssumption
<1>2. NumSegments * SegmentLen \in Int BY BufferAssumption
<1> QED BY <1>1, <1>2, BufferAssumption DEF bufferLen, hLen

\* An index is reduced at most once.
LEMMA AfterIs ==
    ASSUME NEW p \in 0 .. bufferLen - 1, NEW i \in 0 .. bufferLen
    PROVE  (p + i) % bufferLen = After(p, i) /\ After(p, i) \in 0 .. bufferLen - 1
<1>1. bufferLen \in Nat \ {0} BY Lengths
<1>2. CASE p + i < bufferLen BY <1>1, <1>2 DEF After
<1>3. CASE p + i >= bufferLen
  <2>1. p + i - bufferLen \in 0 .. bufferLen - 1 BY <1>1, <1>3
  <2>2. (p + i) % bufferLen = p + i - bufferLen BY <1>1, <2>1
  <2> QED BY <1>1, <1>3, <2>1, <2>2 DEF After
<1> QED BY <1>1, <1>2, <1>3

\* An index on a segment's border is that of a whole segment of the ring, and
\* so is the one after it.
LEMMA Segment ==
    ASSUME NEW x \in 0 .. bufferLen - 1, x % SegmentLen = 0
    PROVE  /\ x \div SegmentLen \in 0 .. NumSegments - 1
           /\ (x \div SegmentLen) * SegmentLen = x
           /\ x + SegmentLen <= bufferLen
           /\ ((x + SegmentLen) % bufferLen) % SegmentLen = 0
           /\ x \div SegmentLen > 0 => x >= SegmentLen
           /\ x \div SegmentLen = 0 => x = 0
<1> DEFINE q == x \div SegmentLen
<1>1. SegmentLen \in Nat \ {0} /\ NumSegments \in Nat \ {0} /\ bufferLen \in Nat \ {0}
      /\ bufferLen = NumSegments * SegmentLen
  BY Lengths, BufferAssumption DEF bufferLen
<1>2. q \in Nat /\ x = SegmentLen * q BY <1>1, DivMod
<1> HIDE DEF q
<1>3. q < NumSegments
  <2>1. SUFFICES ASSUME q >= NumSegments PROVE FALSE BY <1>1, <1>2
  <2>2. NumSegments < q + 1 BY <2>1, <1>1, <1>2
  <2>3. NumSegments * SegmentLen + SegmentLen <= (q + 1) * SegmentLen
    BY <2>2, <1>1, <1>2, Multiples
  <2>4. (q + 1) * SegmentLen = SegmentLen * q + SegmentLen BY <1>1, <1>2
  <2> QED BY <2>3, <2>4, <1>1, <1>2
<1>4. q * SegmentLen + SegmentLen <= NumSegments * SegmentLen BY <1>1, <1>2, <1>3, Multiples
<1>5. q * SegmentLen = x BY <1>1, <1>2
<1>6. x + SegmentLen <= bufferLen BY <1>1, <1>4, <1>5
<1>7. ((x + SegmentLen) % bufferLen) % SegmentLen = 0
  <2>1. CASE x + SegmentLen = bufferLen
    <3>1. (x + SegmentLen) % bufferLen = 0 BY <2>1, <1>1
    <3> QED BY <3>1, <1>1
  <2>2. CASE x + SegmentLen < bufferLen
    <3>1. (x + SegmentLen) % bufferLen = x + SegmentLen BY <2>2, <1>1
    <3>2. x + SegmentLen = (q + 1) * SegmentLen BY <1>1, <1>2
    <3>3. ((q + 1) * SegmentLen) % SegmentLen = 0 BY <1>1, <1>2, ModZero
    <3> QED BY <3>1, <3>2, <3>3
  <2> QED BY <2>1, <2>2, <1>1, <1>6
<1>8. q > 0 => x >= SegmentLen
  <2>1. SUFFICES ASSUME q > 0 PROVE x >= SegmentLen OBVIOUS
  <2>2. 0 * SegmentLen + SegmentLen <= q * SegmentLen BY <2>1, <1>1, <1>2, Multiples
  <2> QED BY <2>2, <1>1, <1>5
<1>9. q = 0 => x = 0 BY <1>1, <1>2
<1> QED BY <1>1, <1>2, <1>3, <1>5, <1>6, <1>7, <1>8, <1>9 DEF q
-----------------------------------------------------------------------------
(* Memory *)

LEMMA HLenStays ==
    ASSUME UNCHANGED outDirection
    PROVE  hLen' = hLen
BY DEF hLen

\* The places of a run in the ring, without the remainder.
LEMMA RunIs ==
    ASSUME NEW r \in 0 .. bufferLen - 1, NEW a \in 0 .. bufferLen
    PROVE  \A i \in 1 .. a : (r + i - 1) % bufferLen = After(r, i - 1)
<1>1. TAKE i \in 1 .. a
<1>2. i - 1 \in 0 .. bufferLen /\ r + i - 1 = r + (i - 1) BY Lengths
<1> QED BY <1>2, AfterIs

\* What a concatenation holds.
LEMMA ConcatIs ==
    ASSUME NEW S, NEW s \in Seq(S), NEW u \in Seq(S)
    PROVE  /\ s \o u \in Seq(S) /\ Len(s \o u) = Len(s) + Len(u)
           /\ \A i \in 1 .. Len(s) + Len(u) :
                (s \o u)[i] = IF i <= Len(s) THEN s[i] ELSE u[i - Len(s)]
OBVIOUS

\* What the buffer holds for its reader: the run of the ring behind the read index.
LEMMA ContentsAre ==
    ASSUME TypeOK, Filled
    PROVE  /\ Contents = [i \in 1 .. availSamples |-> buffer[hLen + After(readIndex, i - 1)]]
           /\ Contents \in Seq(Samples) /\ Len(Contents) = availSamples
<1> DEFINE C == [i \in 1 .. availSamples |-> buffer[hLen + After(readIndex, i - 1)]]
<1>1. Contents = C
  <2>1. readIndex \in 0 .. bufferLen - 1 /\ availSamples \in 0 .. bufferLen BY DEF TypeOK
  <2>2. \A i \in 1 .. availSamples :
            (readIndex + i - 1) % bufferLen = After(readIndex, i - 1)
    BY <2>1, RunIs, Zenon
  <2> QED BY <2>2 DEF Contents
<1>2. C \in Seq(Samples) /\ Len(C) = availSamples
  <2>1. availSamples \in Nat BY Lengths DEF TypeOK
  <2>2. \A i \in 1 .. availSamples : buffer[hLen + After(readIndex, i - 1)] \in Samples
    BY <2>1 DEF Filled
  <2> QED BY <2>1, <2>2
<1> QED BY <1>1, <1>2

\* What Copy leaves in memory.
LEMMA CopyIs ==
    ASSUME NEW b \in Memories, NEW s, NEW at \in Nat, NEW from \in Nat, NEW len \in Nat,
           at + len <= hLen + bufferLen,
           \A i \in from .. from + len - 1 : s[i] \in Samples \cup {JUNK}
    PROVE  /\ Copy(b, at, s, from, len) \in Memories
           /\ \A i \in 0 .. hLen + bufferLen - 1 :
                Copy(b, at, s, from, len)[i]
                    = IF i \in at .. at + len - 1 THEN s[from + i - at] ELSE b[i]
BY Lengths DEF Copy, Memories

\* Part of the memory, as a sequence.
LEMMA MemoryIs ==
    ASSUME NEW b, NEW S, NEW at \in Nat, NEW len \in Nat,
           \A i \in at .. at + len - 1 : b[i] \in S
    PROVE  /\ Memory(b, at, len) \in Seq(S) /\ Len(Memory(b, at, len)) = len
           /\ \A i \in 1 .. len : Memory(b, at, len)[i] = b[at + i - 1]
BY DEF Memory

\* The last samples of a sequence.
LEMMA LastOfIs ==
    ASSUME NEW S, NEW s \in Seq(S), NEW n \in Nat
    PROVE  /\ LastOf(s, n) \in Seq(S)
           /\ Len(LastOf(s, n)) = IF Len(s) <= n THEN Len(s) ELSE n
           /\ \A k \in 1 .. Len(LastOf(s, n)) :
                LastOf(s, n)[Len(LastOf(s, n)) + 1 - k] = s[Len(s) + 1 - k]
<1>1. CASE Len(s) <= n BY <1>1 DEF LastOf
<1>2. CASE Len(s) > n
  <2> DEFINE m == Len(s) - n + 1
  <2>1. Len(s) \in Nat /\ m \in 1 .. Len(s) + 1 BY <1>2
  <2>2. LastOf(s, n) = SubSeq(s, m, Len(s)) BY <1>2, <2>1 DEF LastOf
  <2>3. /\ SubSeq(s, m, Len(s)) \in Seq(S)
        /\ Len(SubSeq(s, m, Len(s))) = n
        /\ \A i \in 1 .. n : SubSeq(s, m, Len(s))[i] = s[m + i - 1]
    BY <2>1, <1>2
  <2>4. ASSUME NEW k \in 1 .. n PROVE SubSeq(s, m, Len(s))[n + 1 - k] = s[Len(s) + 1 - k]
    <3>1. n + 1 - k \in 1 .. n /\ m + (n + 1 - k) - 1 = Len(s) + 1 - k BY <2>1
    <3> QED BY <3>1, <2>3
  <2> DEFINE l == LastOf(s, n)
  <2>5. l \in Seq(S) /\ Len(l) = n /\ \A k \in 1 .. n : l[n + 1 - k] = s[Len(s) + 1 - k]
    BY <2>2, <2>3, <2>4, Zenon
  <2> HIDE DEF l
  <2>6. Len(l) = IF Len(s) <= n THEN Len(s) ELSE n BY <2>1, <2>5, <1>2
  <2>7. \A k \in 1 .. Len(l) : l[Len(l) + 1 - k] = s[Len(s) + 1 - k] BY <2>5, Zenon
  <2> QED BY <2>5, <2>6, <2>7, Zenon DEF l
<1> QED BY <1>1, <1>2
-----------------------------------------------------------------------------
(* Putting samples *)

\* A run of samples is put behind the write index, and nothing else changes.
Stored(s) ==
    /\ availSamples + Len(s) <= bufferLen
    /\ buffer' \in Memories
    /\ \A p \in 0 .. bufferLen - 1 :
        buffer'[hLen + p] = IF Behind(p) < Len(s) THEN s[Behind(p) + 1] ELSE buffer[hLen + p]
    /\ Advance(Len(s), 0)
    /\ in' = s /\ out' = <<>>
    /\ UNCHANGED <<outDirection, hist, past>>

\* write() and zero(), in one piece or in two.
LEMMA StoreStores ==
    ASSUME TypeOK, NEW s \in Seq(Samples), Store(s), availSamples + Len(s) <= bufferLen
    PROVE  Stored(s)
<1> DEFINE len == Len(s)
           len0 == bufferLen - writeIndex
           N == bufferLen
<1>1. /\ len \in 0 .. N /\ N \in Nat \ {0} /\ hLen \in Nat /\ len0 \in 1 .. N
      /\ writeIndex \in 0 .. N - 1 /\ buffer \in Memories
  BY Lengths DEF TypeOK, Memories
<1>2. \A i \in 1 .. len : s[i] \in Samples \cup {JUNK} OBVIOUS
<1>3. /\ buffer' = IF writeIndex + len <= N
                   THEN Copy(buffer, writeIndex + hLen, s, 1, len)
                   ELSE Copy(Copy(buffer, writeIndex + hLen, s, 1, len0),
                             hLen, s, len0 + 1, len - len0)
      /\ Advance(len, 0)
      /\ in' = s /\ out' = <<>>
      /\ UNCHANGED <<outDirection, hist, past>>
  <2>1. ~(availSamples + Len(s) > bufferLen) BY <1>1 DEF TypeOK
  <2> QED BY <2>1, Zenon DEF Store
<1> HIDE DEF len, len0, N
<1>4. /\ buffer' \in Memories
      /\ \A p \in 0 .. N - 1 :
            buffer'[hLen + p] = IF Behind(p) < len THEN s[Behind(p) + 1] ELSE buffer[hLen + p]
  <2>1. CASE writeIndex + len <= N
    <3>1. buffer' = Copy(buffer, writeIndex + hLen, s, 1, len) BY <1>3, <2>1
    <3>2. /\ buffer' \in Memories
          /\ \A i \in 0 .. hLen + N - 1 :
                buffer'[i] = IF i \in writeIndex + hLen .. writeIndex + hLen + len - 1
                             THEN s[1 + i - (writeIndex + hLen)] ELSE buffer[i]
      <4> DEFINE at == writeIndex + hLen
      <4>1. /\ at \in Nat /\ len \in Nat /\ at + len <= hLen + bufferLen
            /\ \A i \in 1 .. 1 + len - 1 : s[i] \in Samples \cup {JUNK}
        BY <1>1, <1>2, <2>1 DEF N
      <4>2. buffer' = Copy(buffer, at, s, 1, len) BY <3>1
      <4> HIDE DEF at
      <4>3. /\ Copy(buffer, at, s, 1, len) \in Memories
            /\ \A i \in 0 .. hLen + bufferLen - 1 :
                  Copy(buffer, at, s, 1, len)[i]
                      = IF i \in at .. at + len - 1 THEN s[1 + i - at] ELSE buffer[i]
        BY <4>1, <1>1, CopyIs
      <4> QED BY <4>2, <4>3 DEF N, at
    <3>3. ASSUME NEW p \in 0 .. N - 1
          PROVE buffer'[hLen + p] = IF Behind(p) < len THEN s[Behind(p) + 1] ELSE buffer[hLen + p]
      <4>1. hLen + p \in 0 .. hLen + N - 1 BY <1>1
      <4>2. Behind(p) < len <=> hLen + p \in writeIndex + hLen .. writeIndex + hLen + len - 1
        BY <1>1, <2>1 DEF Behind, N
      <4>3. Behind(p) < len => Behind(p) + 1 = 1 + (hLen + p) - (writeIndex + hLen)
        BY <1>1, <2>1 DEF Behind, N
      <4> QED BY <4>1, <4>2, <4>3, <3>2
    <3> QED BY <3>2, <3>3
  <2>2. CASE writeIndex + len > N
    <3> DEFINE b == Copy(buffer, writeIndex + hLen, s, 1, len0)
    <3>0. len0 < len /\ writeIndex + len0 = N /\ len - len0 \in Nat BY <1>1, <2>2 DEF len0, N
    <3>1. buffer' = Copy(b, hLen, s, len0 + 1, len - len0)
      <4>1. ~(writeIndex + len <= N) BY <1>1, <2>2
      <4> QED BY <1>3, <4>1
    <3>2. /\ b \in Memories
          /\ \A i \in 0 .. hLen + N - 1 :
                b[i] = IF i \in writeIndex + hLen .. writeIndex + hLen + len0 - 1
                       THEN s[1 + i - (writeIndex + hLen)] ELSE buffer[i]
      <4>1. /\ writeIndex + hLen \in Nat /\ len0 \in Nat /\ 1 \in Nat
            /\ writeIndex + hLen + len0 <= hLen + bufferLen
            /\ \A i \in 1 .. 1 + len0 - 1 : s[i] \in Samples \cup {JUNK}
        BY <1>1, <1>2, <3>0 DEF N
      <4> DEFINE at == writeIndex + hLen
      <4>2. /\ at \in Nat /\ len0 \in Nat /\ at + len0 <= hLen + bufferLen
            /\ \A i \in 1 .. 1 + len0 - 1 : s[i] \in Samples \cup {JUNK}
        BY <4>1
      <4>3. b = Copy(buffer, at, s, 1, len0) OBVIOUS
      <4> HIDE DEF at, b
      <4>4. /\ Copy(buffer, at, s, 1, len0) \in Memories
            /\ \A i \in 0 .. hLen + bufferLen - 1 :
                  Copy(buffer, at, s, 1, len0)[i]
                      = IF i \in at .. at + len0 - 1 THEN s[1 + i - at] ELSE buffer[i]
        BY <4>2, <1>1, CopyIs
      <4> QED BY <4>3, <4>4 DEF N, at
    <3> HIDE DEF b
    <3>3. /\ buffer' \in Memories
          /\ \A i \in 0 .. hLen + N - 1 :
                buffer'[i] = IF i \in hLen .. hLen + (len - len0) - 1
                             THEN s[len0 + 1 + i - hLen] ELSE b[i]
      <4>1. /\ len0 + 1 \in Nat /\ len - len0 \in Nat
            /\ hLen + (len - len0) <= hLen + bufferLen
            /\ \A i \in len0 + 1 .. len0 + 1 + (len - len0) - 1 : s[i] \in Samples \cup {JUNK}
        BY <1>1, <1>2, <3>0 DEF N
      <4>2. b \in Memories /\ hLen \in Nat BY <3>2, <1>1
      <4> DEFINE m == len - len0
                 f == len0 + 1
      <4>3. /\ m \in Nat /\ f \in Nat /\ hLen + m <= hLen + bufferLen
            /\ \A i \in f .. f + m - 1 : s[i] \in Samples \cup {JUNK}
        BY <4>1
      <4> HIDE DEF m, f
      <4>4. /\ Copy(b, hLen, s, f, m) \in Memories
            /\ \A i \in 0 .. hLen + bufferLen - 1 :
                  Copy(b, hLen, s, f, m)[i]
                      = IF i \in hLen .. hLen + m - 1 THEN s[f + i - hLen] ELSE b[i]
        BY <4>2, <4>3, CopyIs
      <4> QED BY <4>4, <3>1 DEF N, m, f
    <3>4. ASSUME NEW p \in 0 .. N - 1
          PROVE buffer'[hLen + p] = IF Behind(p) < len THEN s[Behind(p) + 1] ELSE buffer[hLen + p]
      <4>1. hLen + p \in 0 .. hLen + N - 1 BY <1>1
      <4>2. CASE p >= writeIndex
        <5>1. Behind(p) = p - writeIndex /\ Behind(p) < len
          BY <4>2, <1>1, <3>0 DEF Behind, N
        <5>2. hLen + p \notin hLen .. hLen + (len - len0) - 1
              /\ hLen + p \in writeIndex + hLen .. writeIndex + hLen + len0 - 1
              /\ 1 + (hLen + p) - (writeIndex + hLen) = Behind(p) + 1
          BY <4>2, <5>1, <1>1, <3>0
        <5> QED BY <4>1, <5>1, <5>2, <3>2, <3>3
      <4>3. CASE p < writeIndex
        <5>1. Behind(p) = p + len0 BY <4>3, <1>1 DEF Behind, N, len0
        <5>2. hLen + p \in hLen .. hLen + (len - len0) - 1 <=> Behind(p) < len
          BY <4>3, <5>1, <1>1, <3>0
        <5>3. hLen + p \notin writeIndex + hLen .. writeIndex + hLen + len0 - 1
          BY <4>3, <1>1, <3>0
        <5>4. len0 + 1 + (hLen + p) - hLen = Behind(p) + 1 BY <5>1, <1>1, <3>0
        <5> QED BY <4>1, <5>2, <5>3, <5>4, <3>2, <3>3
      <4> QED BY <4>2, <4>3, <1>1
    <3> QED BY <3>3, <3>4
  <2> QED BY <2>1, <2>2, <1>1
<1> QED BY <1>3, <1>4 DEF Stored, len, N

\* A segment of the input direction.
LEMMA FillStores ==
    ASSUME TypeOK, RingConsistent, ~outDirection, NEW s \in Seq(Samples), Len(s) = SegmentLen,
           FillSegment(s), bufferLen - availSamples >= SegmentLen
    PROVE  Stored(s)
<1> DEFINE num == writeIndex \div SegmentLen
           N == bufferLen
           S == SegmentLen
<1>1. /\ S \in Nat \ {0} /\ N \in Nat \ {0} /\ S <= N /\ hLen = 0
      /\ writeIndex \in 0 .. N - 1 /\ buffer \in Memories /\ availSamples \in 0 .. N
  BY Lengths DEF TypeOK, Memories, hLen
<1>2. /\ writeIndex % S = 0 /\ num \in 0 .. NumSegments - 1 /\ num * S = writeIndex
      /\ writeIndex + S <= N
  BY Segment, <1>1 DEF RingConsistent
<1>3. /\ Advance(S, 0) /\ buffer' = Copy(buffer, num * S, s, 1, S)
      /\ in' = s /\ out' = <<>> /\ UNCHANGED <<outDirection, hist, past>>
  <2>1. ~(\/ bufferLen - availSamples < SegmentLen
          \/ writeIndex % SegmentLen # 0
          \/ writeIndex \div SegmentLen >= NumSegments)
    BY <1>1, <1>2, BufferAssumption
  <2> QED BY <2>1, Zenon DEF FillSegment
<1> HIDE DEF num, N, S
<1>4. /\ buffer' \in Memories
      /\ \A i \in 0 .. hLen + N - 1 :
            buffer'[i] = IF i \in writeIndex .. writeIndex + S - 1
                         THEN s[1 + i - writeIndex] ELSE buffer[i]
  <2>1. /\ writeIndex \in Nat /\ S \in Nat /\ 1 \in Nat
        /\ writeIndex + S <= hLen + bufferLen
        /\ \A i \in 1 .. 1 + S - 1 : s[i] \in Samples \cup {JUNK}
    BY <1>1, <1>2 DEF N, S
  <2>2. buffer' = Copy(buffer, writeIndex, s, 1, S) BY <1>2, <1>3
  <2> QED BY <2>1, <2>2, <1>1 DEF N, Copy, Memories
<1>5. ASSUME NEW p \in 0 .. N - 1
      PROVE buffer'[hLen + p] = IF Behind(p) < S THEN s[Behind(p) + 1] ELSE buffer[hLen + p]
  <2>1. p \in 0 .. hLen + N - 1 /\ hLen + p = p BY <1>1
  <2>2. Behind(p) < S <=> p \in writeIndex .. writeIndex + S - 1
    BY <1>1, <1>2 DEF Behind, N
  <2>3. Behind(p) < S => Behind(p) + 1 = 1 + p - writeIndex
    BY <1>1, <1>2 DEF Behind, N
  <2> QED BY <2>1, <2>2, <2>3, <1>4
<1>6. availSamples + Len(s) <= bufferLen BY <1>1 DEF N, S
<1> QED BY <1>3, <1>4, <1>5, <1>6 DEF Stored, N, S

\* Places counted from the read index and from the write index.
LEMMA BehindAfter ==
    ASSUME TypeOK, RingConsistent, NEW i \in 0 .. bufferLen - 1
    PROVE  Behind(After(readIndex, i))
               = IF i >= availSamples THEN i - availSamples
                 ELSE i - availSamples + bufferLen
BY Lengths DEF Behind, After, TypeOK, RingConsistent

\* A run put behind the others keeps the invariant, and is the FIFO's Put.
LEMMA PutStep ==
    ASSUME IInv, NEW s \in Seq(Samples), Stored(s), outDirection \/ Len(s) = SegmentLen
    PROVE  IInv' /\ Fifo!Put(s)
<1> DEFINE N == bufferLen
           a == availSamples
           r == readIndex
           w == writeIndex
           len == Len(s)
<1>1. /\ N \in Nat \ {0} /\ hLen \in 0 .. SegmentLen /\ hLen \in Nat /\ SegmentLen \in Nat
      /\ a \in 0 .. N /\ r \in 0 .. N - 1 /\ w \in 0 .. N - 1
      /\ len \in 0 .. N /\ a + len <= N /\ hLen' = hLen
  BY Lengths, HLenStays DEF IInv, TypeOK, Stored
<1>2. /\ availSamples' = a + len /\ readIndex' = r /\ writeIndex' = After(w, len)
      /\ writeIndex' = (w + len) % N /\ After(w, len) \in 0 .. N - 1 /\ ok' = TRUE
  <2>1. /\ availSamples' = availSamples + len - 0 /\ writeIndex' = (writeIndex + len) % bufferLen
        /\ readIndex' = (readIndex + 0) % bufferLen /\ ok' = TRUE
    BY DEF Stored, Advance
  <2>2. (readIndex + 0) % bufferLen = readIndex BY <1>1
  <2>3. (w + len) % N = After(w, len) /\ After(w, len) \in 0 .. N - 1 BY <1>1, AfterIs
  <2> QED BY <2>1, <2>2, <2>3, <1>1
<1>3. /\ buffer' \in Memories /\ in' = s /\ out' = <<>>
      /\ UNCHANGED <<outDirection, hist, past>>
      /\ \A p \in 0 .. N - 1 :
            buffer'[hLen + p] = IF Behind(p) < len THEN s[Behind(p) + 1] ELSE buffer[hLen + p]
  BY DEF Stored
<1>4. /\ r + a \in {w, w + N}
      /\ outDirection => r % SegmentLen = 0
      /\ ~outDirection => w % SegmentLen = 0
  BY DEF IInv, RingConsistent
<1>5. \A i \in 0 .. N - 1 :
        /\ After(r, i) \in 0 .. N - 1
        /\ Behind(After(r, i)) = IF i >= a THEN i - a ELSE i - a + N
        /\ buffer'[hLen + After(r, i)]
            = IF i >= a /\ i < a + len THEN s[i - a + 1] ELSE buffer[hLen + After(r, i)]
  <2>1. TAKE i \in 0 .. N - 1
  <2>2. After(r, i) \in 0 .. N - 1 BY <1>1 DEF After
  <2>3. Behind(After(r, i)) = IF i >= a THEN i - a ELSE i - a + N BY BehindAfter DEF IInv
  <2>4. Behind(After(r, i)) < len <=> i >= a /\ i < a + len BY <2>3, <1>1
  <2>5. i >= a => Behind(After(r, i)) + 1 = i - a + 1 BY <2>3, <1>1
  <2> QED BY <2>2, <2>3, <2>4, <2>5, <1>3
<1>6. TypeOK /\ Filled /\ PastInRing BY DEF IInv
<1> HIDE DEF N, a, r, w, len
<1>7. TypeOK'
  <2>1. buffer' \in [0 .. hLen' + bufferLen - 1 -> Samples \cup {JUNK}]
    BY <1>1, <1>3 DEF Memories
  <2> QED BY <2>1, <1>1, <1>2, <1>3, <1>6 DEF TypeOK, N, a, r, w
<1>8. RingConsistent'
  <2>1. r + (a + len) \in {After(w, len), After(w, len) + N}
    <3>1. r + a = w \/ r + a = w + N BY <1>4
    <3> QED BY <3>1, <1>1 DEF After, N
  <2>2. ~outDirection => After(w, len) % SegmentLen = 0
    <3>1. SUFFICES ASSUME ~outDirection PROVE ((w + len) % N) % SegmentLen = 0 BY <1>2
    <3>2. len = SegmentLen BY <3>1 DEF len
    <3> QED BY <3>1, <3>2, <1>1, <1>4, Segment DEF N
  <2>3. readIndex' + availSamples' \in {writeIndex', writeIndex' + bufferLen}
    BY <2>1, <1>2, Zenon DEF N
  <2>4. /\ outDirection' => readIndex' % SegmentLen = 0
        /\ ~outDirection' => writeIndex' % SegmentLen = 0
    <3>1. outDirection' = outDirection BY <1>3
    <3>2. readIndex' = r /\ writeIndex' = After(w, len) BY <1>2
    <3> QED BY <3>1, <3>2, <2>2, <1>4
  <2> QED BY <2>3, <2>4 DEF RingConsistent
<1>9. Filled'
  <2>1. SUFFICES ASSUME NEW i \in 0 .. a + len - 1
                 PROVE  buffer'[hLen + After(r, i)] \in Samples
    <3>1. \A i \in 0 .. availSamples' - 1 : buffer'[hLen' + After(readIndex', i)] \in Samples
      <4>1. availSamples' = a + len /\ readIndex' = r /\ hLen' = hLen BY <1>1, <1>2
      <4>2. \A i \in 0 .. a + len - 1 : buffer'[hLen + After(r, i)] \in Samples BY <2>1
      <4>3. TAKE i \in 0 .. availSamples' - 1
      <4>4. i \in 0 .. a + len - 1 BY <4>1, <1>1
      <4>5. buffer'[hLen + After(r, i)] \in Samples BY <4>2, <4>4, Zenon
      <4> QED BY <4>1, <4>5, Zenon
    <3> QED BY <3>1 DEF Filled, After
  <2>2. i \in 0 .. N - 1 BY <1>1
  <2>3. CASE i >= a
    <3>1. i - a + 1 \in 1 .. len BY <2>3, <1>1
    <3>2. buffer'[hLen + After(r, i)]
              = IF i >= a /\ i < a + len THEN s[i - a + 1] ELSE buffer[hLen + After(r, i)]
      BY <2>2, <1>5, Zenon
    <3>3. i >= a /\ i < a + len BY <2>3, <1>1
    <3> QED BY <3>1, <3>2, <3>3 DEF len
  <2>4. CASE i < a
    <3>1. buffer[hLen + After(r, i)] \in Samples
      BY <2>4, <1>1, <1>6 DEF Filled, a, r
    <3>2. buffer'[hLen + After(r, i)]
              = IF i >= a /\ i < a + len THEN s[i - a + 1] ELSE buffer[hLen + After(r, i)]
      BY <2>2, <1>5, Zenon
    <3>3. ~(i >= a /\ i < a + len) BY <2>4, <1>1
    <3> QED BY <3>1, <3>2, <3>3, Zenon
  <2> QED BY <2>3, <2>4, <1>1
<1>10. PastInRing'
  <2>1. Len(past) <= hLen /\ Len(past) \in Nat BY <1>6 DEF PastInRing, TypeOK
  <2>2. ASSUME a + len + hLen <= N, NEW k \in 1 .. Len(past)
        PROVE buffer'[hLen + After(r, N - k)] = past[Len(past) + 1 - k]
    <3>1. N - k \in 0 .. N - 1 /\ ~(N - k < a + len) BY <2>1, <2>2, <1>1
    <3>2. buffer'[hLen + After(r, N - k)] = buffer[hLen + After(r, N - k)] BY <3>1, <1>5
    <3>3. a + hLen <= N BY <2>2, <1>1
    <3> QED BY <3>2, <3>3, <1>6 DEF PastInRing, N, a, r
  <2> QED BY <2>1, <2>2, <1>1, <1>2, <1>3 DEF PastInRing, After, N
<1>11. Fifo!Put(s)
  <2> DEFINE C == Contents
  <2>1. C \in Seq(Samples) /\ Len(C) = a /\ C = [i \in 1 .. a |-> buffer[hLen + After(r, i - 1)]]
    BY ContentsAre, <1>6 DEF a, r
  <2>2. Contents' = [i \in 1 .. a + len |-> buffer'[hLen + After(r, i - 1)]]
    <3>1. Contents' = [i \in 1 .. a + len |-> buffer'[hLen + ((r + i - 1) % bufferLen)]]
      BY <1>1, <1>2 DEF Contents
    <3>2. r \in 0 .. bufferLen - 1 /\ a + len \in 0 .. bufferLen BY <1>1 DEF N
    <3>3. \A i \in 1 .. a + len : (r + i - 1) % bufferLen = After(r, i - 1)
      BY <3>2, RunIs, Zenon
    <3> QED BY <3>1, <3>3
  <2> HIDE DEF C
  <2>3. C \o s \in Seq(Samples) /\ Len(C \o s) = a + len
        /\ \A i \in 1 .. a + len : (C \o s)[i] = IF i <= a THEN C[i] ELSE s[i - a]
    <3>1. C \in Seq(Samples) /\ s \in Seq(Samples) /\ Len(C) = a /\ Len(s) = len
      BY <2>1 DEF len
    <3>2. C \o s \in Seq(Samples) /\ Len(C \o s) = Len(C) + Len(s)
          /\ \A i \in 1 .. Len(C) + Len(s) : (C \o s)[i] = IF i <= Len(C) THEN C[i] ELSE s[i - Len(C)]
      BY <3>1, ConcatIs, Zenon
    <3> HIDE DEF len
    <3> QED BY <3>1, <3>2, Zenon
  <2>4. ASSUME NEW i \in 1 .. a + len PROVE buffer'[hLen + After(r, i - 1)] = (C \o s)[i]
    <3>1. i - 1 \in 0 .. N - 1 BY <1>1
    <3>2. CASE i <= a
      <4>1. (C \o s)[i] = buffer[hLen + After(r, i - 1)] BY <3>2, <2>1, <2>3, <1>1
      <4>2. ~(i - 1 >= a) BY <3>2, <1>1
      <4>3. buffer'[hLen + After(r, i - 1)] = buffer[hLen + After(r, i - 1)]
        BY <3>1, <4>2, <1>5, Zenon
      <4> QED BY <4>1, <4>3, Zenon
    <3>3. CASE i > a
      <4>1. (C \o s)[i] = s[i - a] /\ (i - 1) - a + 1 = i - a BY <3>3, <2>3, <1>1
      <4>2. i - 1 >= a /\ i - 1 < a + len BY <3>3, <1>1
      <4>3. buffer'[hLen + After(r, i - 1)] = s[(i - 1) - a + 1] BY <3>1, <4>2, <1>5, Zenon
      <4> QED BY <4>1, <4>3
    <3>4. i <= a \/ i > a BY <1>1
    <3> QED BY <3>2, <3>3, <3>4, Zenon
  <2>5. C \o s = [i \in 1 .. a + len |-> (C \o s)[i]]
    <3> DEFINE t == C \o s
    <3>1. t \in Seq(Samples) /\ Len(t) = a + len BY <2>3
    <3> HIDE DEF t
    <3>2. t = [i \in 1 .. Len(t) |-> t[i]] BY <3>1
    <3>3. t = [i \in 1 .. a + len |-> t[i]] BY <3>1, <3>2
    <3> QED BY <3>3 DEF t
  <2>6. Contents' = C \o s BY <2>2, <2>4, <2>5
  <2>7. Len(C) + Len(s) <= bufferLen BY <2>1, <1>1 DEF len, N
  <2> QED BY <2>6, <2>7, <1>2, <1>3 DEF Fifo!Put, C
<1> QED BY <1>7, <1>8, <1>9, <1>10, <1>11 DEF IInv
-----------------------------------------------------------------------------
(* Taking samples *)

\* n samples are taken from the read index on, and the ring stays.
Taken(n) ==
    /\ n <= availSamples
    /\ buffer' \in Memories
    /\ \A p \in 0 .. bufferLen - 1 : buffer'[hLen + p] = buffer[hLen + p]
    /\ Advance(0, n)
    /\ in' = <<>> /\ Len(out') = n
    /\ \A i \in 1 .. n : out'[i] = buffer[hLen + After(readIndex, i - 1)]
    /\ hist' \in Seq(Samples \cup {JUNK})
    /\ UNCHANGED outDirection
    /\ IF outDirection THEN n = SegmentLen /\ past' = LastOf(past \o out', hLen)
                       ELSE past' = past

LEMMA SuffixIs ==
    ASSUME NEW S, NEW s \in Seq(S), NEW n \in 0 .. Len(s)
    PROVE  /\ SubSeq(s, n + 1, Len(s)) \in Seq(S)
           /\ Len(SubSeq(s, n + 1, Len(s))) = Len(s) - n
           /\ \A i \in 1 .. Len(s) - n : SubSeq(s, n + 1, Len(s))[i] = s[n + i]
<1>1. Len(s) \in Nat OBVIOUS
<1>2. \A i \in n + 1 .. Len(s) : s[i] \in S BY <1>1
<1> QED BY <1>1, <1>2

\* What was taken is what was put first.
LEMMA TakenIsOldest ==
    ASSUME IInv, NEW n \in Nat, Taken(n), out' \in Seq(Samples \cup {JUNK})
    PROVE  /\ out' \in Seq(Samples)
           /\ out' = SubSeq(Contents, 1, n)
<1> DEFINE C == Contents
           a == availSamples
           o == out'
<1>1. /\ C \in Seq(Samples) /\ Len(C) = a
      /\ C = [i \in 1 .. a |-> buffer[hLen + After(readIndex, i - 1)]]
  BY ContentsAre DEF IInv
<1>2. a \in Nat /\ n <= a BY Lengths DEF IInv, TypeOK, Taken
<1>3. \A i \in 1 .. n : o[i] = buffer[hLen + After(readIndex, i - 1)]
  BY DEF Taken
<1>4. o \in Seq(Samples \cup {JUNK}) /\ Len(o) = n BY DEF Taken
<1> HIDE DEF C, a, o
<1>5. \A i \in 1 .. n : o[i] = C[i]
  <2>1. TAKE i \in 1 .. n
  <2>2. i \in 1 .. a BY <1>2
  <2>3. C[i] = buffer[hLen + After(readIndex, i - 1)] BY <2>2, <1>1, Zenon
  <2> QED BY <2>3, <1>3, Zenon
<1>6. \A i \in 1 .. n : o[i] \in Samples
  <2>1. TAKE i \in 1 .. n
  <2>2. i \in 1 .. Len(C) BY <1>1, <1>2
  <2>3. C \in Seq(Samples) BY <1>1
  <2>4. C[i] \in Samples BY <2>2, <2>3
  <2> QED BY <2>4, <1>5, Zenon
<1>7. o = [i \in 1 .. n |-> o[i]] BY <1>4
<1>8. o \in Seq(Samples) BY <1>6, <1>7
<1>9. SubSeq(C, 1, n) \in Seq(Samples) /\ Len(SubSeq(C, 1, n)) = n
      /\ \A i \in 1 .. n : SubSeq(C, 1, n)[i] = C[i]
  BY <1>1, <1>2
<1>10. o = SubSeq(C, 1, n) BY <1>4, <1>5, <1>8, <1>9
<1> QED BY <1>8, <1>10 DEF C, o

\* Taking the oldest keeps the invariant, and is the FIFO's Take.
LEMMA TakeStep ==
    ASSUME IInv, NEW n \in Nat, Taken(n), out' \in Seq(Samples \cup {JUNK})
    PROVE  IInv' /\ Fifo!Take(n)
<1> DEFINE N == bufferLen
           a == availSamples
           r == readIndex
           w == writeIndex
<1>1. /\ N \in Nat \ {0} /\ hLen \in 0 .. SegmentLen /\ hLen \in Nat /\ SegmentLen \in Nat
      /\ a \in 0 .. N /\ r \in 0 .. N - 1 /\ w \in 0 .. N - 1
      /\ n \in 0 .. a /\ n \in 0 .. N /\ hLen' = hLen
  BY Lengths, HLenStays DEF IInv, TypeOK, Taken
<1>2. /\ availSamples' = a - n /\ writeIndex' = w /\ readIndex' = After(r, n)
      /\ readIndex' = (r + n) % N /\ After(r, n) \in 0 .. N - 1 /\ ok' = TRUE
  <2>1. /\ availSamples' = availSamples + 0 - n /\ readIndex' = (readIndex + n) % bufferLen
        /\ writeIndex' = (writeIndex + 0) % bufferLen /\ ok' = TRUE
    BY DEF Taken, Advance
  <2>2. (writeIndex + 0) % bufferLen = writeIndex BY <1>1
  <2>3. (r + n) % N = After(r, n) /\ After(r, n) \in 0 .. N - 1 BY <1>1, AfterIs
  <2> QED BY <2>1, <2>2, <2>3, <1>1
<1>3. /\ buffer' \in Memories /\ in' = <<>> /\ hist' \in Seq(Samples \cup {JUNK})
      /\ UNCHANGED outDirection
      /\ \A p \in 0 .. N - 1 : buffer'[hLen + p] = buffer[hLen + p]
      /\ IF outDirection THEN n = SegmentLen /\ past' = LastOf(past \o out', hLen)
                         ELSE past' = past
  BY DEF Taken
<1>4. /\ r + a \in {w, w + N}
      /\ outDirection => r % SegmentLen = 0
      /\ ~outDirection => w % SegmentLen = 0
  BY DEF IInv, RingConsistent
<1>5. out' \in Seq(Samples) /\ out' = SubSeq(Contents, 1, n) /\ Len(out') = n
  BY TakenIsOldest DEF Taken
<1>6. TypeOK /\ Filled /\ PastInRing BY DEF IInv
<1> HIDE DEF N, a, r, w
\* Places counted from the new read index.
<1>7. \A i \in 0 .. N - 1 - n :
        /\ After(After(r, n), i) = After(r, n + i) /\ After(r, n + i) \in 0 .. N - 1
        /\ buffer'[hLen + After(After(r, n), i)] = buffer[hLen + After(r, n + i)]
  <2>1. TAKE i \in 0 .. N - 1 - n
  <2>2. After(After(r, n), i) = After(r, n + i) /\ After(r, n + i) \in 0 .. N - 1
    BY <1>1 DEF After, N
  <2> QED BY <2>2, <1>3, Zenon
<1>8. /\ past' \in Seq(Samples) /\ Len(past') <= hLen
      /\ outDirection => \A k \in 1 .. Len(past') : past'[Len(past') + 1 - k] = out'[n + 1 - k]
  <2>0. past \in Seq(Samples) /\ Len(past) <= hLen BY <1>6 DEF TypeOK, PastInRing
  <2>1. CASE outDirection
    <3> DEFINE t == past \o out'
               q == LastOf(t, hLen)
    <3>1. /\ t \in Seq(Samples) /\ Len(t) = Len(past) + n /\ Len(past) \in Nat
          /\ \A i \in 1 .. n : t[Len(past) + i] = out'[i]
      BY <2>0, <1>5, <1>1
    <3>2. past' = q /\ n = SegmentLen BY <2>1, <1>3
    <3> HIDE DEF t
    <3>3. /\ q \in Seq(Samples) /\ Len(q) = IF Len(t) <= hLen THEN Len(t) ELSE hLen
          /\ \A k \in 1 .. Len(q) : q[Len(q) + 1 - k] = t[Len(t) + 1 - k]
      BY <3>1, <1>1, LastOfIs
    <3> HIDE DEF q
    <3>4. Len(q) \in Nat /\ Len(q) <= hLen /\ Len(q) <= n BY <3>1, <3>2, <3>3, <1>1
    <3>5. \A k \in 1 .. Len(q) : q[Len(q) + 1 - k] = out'[n + 1 - k]
      <4>1. TAKE k \in 1 .. Len(q)
      <4>2. n + 1 - k \in 1 .. n /\ Len(t) + 1 - k = Len(past) + (n + 1 - k)
        BY <3>1, <3>4, <1>1
      <4>3. t[Len(past) + (n + 1 - k)] = out'[n + 1 - k] BY <4>2, <3>1, Zenon
      <4>4. q[Len(q) + 1 - k] = t[Len(t) + 1 - k] BY <3>3
      <4> QED BY <4>2, <4>3, <4>4
    <3> QED BY <3>2, <3>3, <3>4, <3>5
  <2>2. CASE ~outDirection BY <2>0, <2>2, <1>3
  <2> QED BY <2>1, <2>2
<1>9. TypeOK'
  <2>1. buffer' \in [0 .. hLen' + bufferLen - 1 -> Samples \cup {JUNK}]
    BY <1>1, <1>3 DEF Memories
  <2>2. in' \in Seq(Samples) BY <1>3
  <2>3. /\ writeIndex' \in 0 .. bufferLen - 1 /\ readIndex' \in 0 .. bufferLen - 1
        /\ availSamples' \in 0 .. bufferLen
    BY <1>1, <1>2 DEF N
  <2> QED BY <2>1, <2>2, <2>3, <1>2, <1>3, <1>5, <1>6, <1>8 DEF TypeOK
<1>10. RingConsistent'
  <2>1. After(r, n) + (a - n) \in {w, w + N}
    <3>1. r + a = w \/ r + a = w + N BY <1>4
    <3> QED BY <3>1, <1>1 DEF After, N
  <2>2. outDirection => After(r, n) % SegmentLen = 0
    <3>1. SUFFICES ASSUME outDirection PROVE ((r + n) % N) % SegmentLen = 0 BY <1>2
    <3>2. n = SegmentLen BY <3>1, <1>3
    <3> QED BY <3>1, <3>2, <1>1, <1>4, Segment DEF N
  <2>3. readIndex' + availSamples' \in {writeIndex', writeIndex' + bufferLen}
    BY <2>1, <1>2, Zenon DEF N
  <2>4. /\ outDirection' => readIndex' % SegmentLen = 0
        /\ ~outDirection' => writeIndex' % SegmentLen = 0
    <3>1. outDirection' = outDirection BY <1>3
    <3>2. readIndex' = After(r, n) /\ writeIndex' = w BY <1>2
    <3> QED BY <3>1, <3>2, <2>2, <1>4
  <2> QED BY <2>3, <2>4 DEF RingConsistent
<1>11. Filled'
  <2>1. \A i \in 0 .. availSamples' - 1 : buffer'[hLen' + After(readIndex', i)] \in Samples
    <3>1. TAKE i \in 0 .. availSamples' - 1
    <3>2. i \in 0 .. N - 1 - n /\ n + i \in 0 .. a - 1 BY <1>1, <1>2
    <3>3. buffer[hLen + After(r, n + i)] \in Samples BY <3>2, <1>6, Zenon DEF Filled, a, r
    <3>4. buffer'[hLen + After(After(r, n), i)] \in Samples BY <3>2, <3>3, <1>7, Zenon
    <3> QED BY <3>4, <1>1, <1>2, Zenon
  <2> QED BY <2>1 DEF Filled, After
<1>12. PastInRing'
  <2>1. ASSUME NEW k \in 1 .. Len(past')
        PROVE  buffer'[hLen + After(After(r, n), N - k)] = past'[Len(past') + 1 - k]
    <3>1. Len(past') \in Nat /\ Len(past') <= hLen BY <1>8
    <3>2. CASE outDirection
      <4>1. n = SegmentLen /\ k <= n BY <3>1, <3>2, <1>1, <1>3
      <4>2. past'[Len(past') + 1 - k] = out'[n + 1 - k] BY <3>2, <1>8
      <4>3. n + 1 - k \in 1 .. n /\ (n + 1 - k) - 1 = n - k BY <4>1
      <4>4. out'[n + 1 - k] = buffer[hLen + After(r, (n + 1 - k) - 1)]
        BY <4>3, Zenon DEF Taken, r
      <4>5. /\ After(After(r, n), N - k) = After(r, n - k) /\ After(r, n - k) \in 0 .. N - 1
        BY <4>1, <1>1 DEF After, N
      <4>6. buffer'[hLen + After(After(r, n), N - k)] = buffer[hLen + After(r, n - k)]
        BY <4>5, <1>3, Zenon
      <4> QED BY <4>2, <4>3, <4>4, <4>6
    <3>3. CASE ~outDirection
      <4>1. hLen = 0 BY <3>3 DEF hLen
      <4> QED BY <4>1, <3>1
    <3> QED BY <3>2, <3>3
  <2>2. /\ Len(past') <= hLen'
        /\ \A k \in 1 .. Len(past') :
            buffer'[hLen' + After(readIndex', bufferLen - k)] = past'[Len(past') + 1 - k]
    BY <2>1, <1>1, <1>2, <1>8, Zenon DEF N
  <2> QED BY <2>2 DEF PastInRing, After
<1>13. Fifo!Take(n)
  <2> DEFINE C == Contents
  <2>1. C \in Seq(Samples) /\ Len(C) = a /\ C = [i \in 1 .. a |-> buffer[hLen + After(r, i - 1)]]
    BY ContentsAre, <1>6 DEF a, r
  <2>2. Contents' = [i \in 1 .. a - n |-> buffer'[hLen + After(After(r, n), i - 1)]]
    <3>1. Contents' = [i \in 1 .. a - n |-> buffer'[hLen + ((After(r, n) + i - 1) % bufferLen)]]
      BY <1>1, <1>2 DEF Contents
    <3>2. After(r, n) \in 0 .. bufferLen - 1 /\ a - n \in 0 .. bufferLen BY <1>1, <1>2 DEF N
    <3>3. \A i \in 1 .. a - n :
            (After(r, n) + i - 1) % bufferLen = After(After(r, n), i - 1)
      BY <3>2, RunIs, Zenon
    <3> QED BY <3>1, <3>3
  <2> HIDE DEF C
  <2>3. /\ SubSeq(C, n + 1, a) \in Seq(Samples) /\ Len(SubSeq(C, n + 1, a)) = a - n
        /\ \A i \in 1 .. a - n : SubSeq(C, n + 1, a)[i] = C[n + i]
    BY <2>1, <1>1, SuffixIs, ZenonT(40)
  <2>4. \A i \in 1 .. a - n :
            buffer'[hLen + After(After(r, n), i - 1)] = SubSeq(C, n + 1, a)[i]
    <3>1. TAKE i \in 1 .. a - n
    <3>2. i - 1 \in 0 .. N - 1 - n /\ n + i \in 1 .. a /\ (n + i) - 1 = n + (i - 1) BY <1>1
    <3>3. C[n + i] = buffer[hLen + After(r, (n + i) - 1)] BY <3>2, <2>1, Zenon
    <3>4. buffer'[hLen + After(After(r, n), i - 1)] = buffer[hLen + After(r, n + (i - 1))]
      BY <3>2, <1>7, Zenon
    <3>5. SubSeq(C, n + 1, a)[i] = C[n + i] BY <2>3, Zenon
    <3> QED BY <3>2, <3>3, <3>4, <3>5, Zenon
  <2>5. SubSeq(C, n + 1, a) = [i \in 1 .. a - n |-> SubSeq(C, n + 1, a)[i]]
    <3> DEFINE t == SubSeq(C, n + 1, a)
    <3>1. t \in Seq(Samples) /\ Len(t) = a - n BY <2>3
    <3> HIDE DEF t
    <3>2. t = [i \in 1 .. Len(t) |-> t[i]] BY <3>1
    <3>3. t = [i \in 1 .. a - n |-> t[i]] BY <3>1, <3>2
    <3> QED BY <3>3 DEF t
  <2>6. Contents' = SubSeq(C, n + 1, Len(C)) BY <2>1, <2>2, <2>4, <2>5
  <2>7. n <= Len(C) BY <2>1, <1>1
  <2> QED BY <2>6, <2>7, <1>2, <1>3, <1>5 DEF Fifo!Take, C
<1> QED BY <1>9, <1>10, <1>11, <1>12, <1>13 DEF IInv
-----------------------------------------------------------------------------
(* The operations *)

LEMMA ZerosAre ==
    ASSUME NEW len \in Nat
    PROVE  Zeros(len) \in Seq(Samples) /\ Len(Zeros(len)) = len
BY BufferAssumption DEF Zeros

\* A call that fails changes nothing but its result.
LEMMA FailStep ==
    ASSUME IInv, Fail
    PROVE  IInv' /\ ok' = FALSE /\ Contents' = Contents /\ in' = in /\ out' = out
<1>1. hLen' = hLen BY HLenStays DEF Fail
<1> QED BY <1>1 DEF Fail, IInv, TypeOK, RingConsistent, Filled, PastInRing, After, Contents

LEMMA StoreStep ==
    ASSUME IInv, outDirection, NEW s \in Seq(Samples), Store(s)
    PROVE  IInv' /\ Fifo!Put(s)
<1>1. availSamples \in Nat /\ bufferLen \in Nat /\ Len(s) \in Nat BY Lengths DEF IInv, TypeOK
<1>2. CASE availSamples + Len(s) <= bufferLen
  <2>1. Stored(s) BY <1>2, StoreStores DEF IInv
  <2> QED BY <2>1, PutStep
<1>3. CASE availSamples + Len(s) > bufferLen
  <2>1. Fail BY <1>3, Zenon DEF Store
  <2>2. Len(Contents) = availSamples BY ContentsAre DEF IInv
  <2>3. (Len(Contents) + Len(s) <= bufferLen) = FALSE BY <1>1, <1>3, <2>2
  <2>4. IInv' /\ ok' = FALSE /\ Contents' = Contents /\ in' = in /\ out' = out
    BY <2>1, FailStep
  <2> QED BY <2>3, <2>4, Zenon DEF Fifo!Put
<1> QED BY <1>1, <1>2, <1>3

LEMMA FillStep ==
    ASSUME IInv, ~outDirection, NEW s \in Seq(Samples), Len(s) = SegmentLen, FillSegment(s)
    PROVE  IInv' /\ Fifo!Put(s)
<1>1. /\ availSamples \in Nat /\ bufferLen \in Nat /\ SegmentLen \in Nat
      /\ NumSegments \in Nat
      /\ writeIndex \in 0 .. bufferLen - 1 /\ writeIndex % SegmentLen = 0
  BY Lengths, BufferAssumption DEF IInv, TypeOK, RingConsistent
<1>2. writeIndex \div SegmentLen \in 0 .. NumSegments - 1 BY <1>1, Segment
<1>3. CASE bufferLen - availSamples >= SegmentLen
  <2>1. Stored(s) BY <1>3, FillStores DEF IInv
  <2> QED BY <2>1, PutStep
<1>4. CASE bufferLen - availSamples < SegmentLen
  <2>1. Fail BY <1>4, Zenon DEF FillSegment
  <2>2. Len(Contents) = availSamples BY ContentsAre DEF IInv
  <2>3. (Len(Contents) + Len(s) <= bufferLen) = FALSE BY <1>1, <1>4, <2>2
  <2>4. IInv' /\ ok' = FALSE /\ Contents' = Contents /\ in' = in /\ out' = out
    BY <2>1, FailStep
  <2> QED BY <2>3, <2>4, Zenon DEF Fifo!Put
<1> QED BY <1>1, <1>3, <1>4

\* A call that asks for more than there is.
LEMMA TakeFails ==
    ASSUME IInv, NEW n \in Nat, availSamples < n, Fail
    PROVE  IInv' /\ Fifo!Take(n)
<1>1. availSamples \in Nat BY Lengths DEF IInv, TypeOK
<1>2. Len(Contents) = availSamples BY ContentsAre DEF IInv
<1>3. (n <= Len(Contents)) = FALSE BY <1>1, <1>2
<1>4. IInv' /\ ok' = FALSE /\ Contents' = Contents /\ in' = in /\ out' = out BY FailStep
<1> QED BY <1>3, <1>4, Zenon DEF Fifo!Take

\* What getReadSegment returns, and the history in front of it.
LEMMA SegmentTaken ==
    ASSUME IInv, getReadSegment, availSamples >= SegmentLen
    PROVE  /\ Taken(SegmentLen) /\ out' \in Seq(Samples \cup {JUNK})
           /\ hist' \in Seq(Samples \cup {JUNK}) /\ Len(hist') = hLen
           /\ \A k \in 1 .. hLen :
                hist'[hLen + 1 - k] = buffer[hLen + After(readIndex, bufferLen - k)]
<1> DEFINE num == readIndex \div SegmentLen
           N == bufferLen
           S == SegmentLen
           r == readIndex
           h == hLen
           b == buffer
           c == buffer'
<1>1. /\ N \in Nat \ {0} /\ S \in Nat \ {0} /\ S <= N /\ h \in 0 .. S /\ h \in Nat
      /\ r \in 0 .. N - 1 /\ availSamples \in Nat /\ b \in Memories /\ outDirection
      /\ NumSegments \in Nat
  BY Lengths, BufferAssumption DEF IInv, TypeOK, Memories, getReadSegment
<1>2. /\ r % S = 0 /\ num \in 0 .. NumSegments - 1 /\ num * S = r /\ r + S <= N
      /\ num > 0 => r >= S
      /\ num = 0 => r = 0
  BY <1>1, Segment DEF IInv, RingConsistent
<1>3. /\ c = IF num = 0 THEN Copy(b, 0, Memory(b, N, h), 1, h) ELSE b
      /\ Advance(0, S)
      /\ out' = Memory(c, h + num * S, S)
      /\ hist' = Memory(c, (h + num * S) - h, h)
      /\ past' = LastOf(past \o out', h)
      /\ in' = <<>>
      /\ UNCHANGED outDirection
  <2>1. ~(availSamples < SegmentLen \/ readIndex \div SegmentLen >= NumSegments)
    BY <1>1, <1>2
  <2> QED BY <2>1, Zenon DEF getReadSegment
<1> HIDE DEF num, N, S, r, h, b, c
\* The ring stays, and in front of its first sample goes a copy of its end.
<1>4. /\ c \in Memories
      /\ \A p \in 0 .. N - 1 : c[h + p] = b[h + p]
      /\ num = 0 => \A k \in 1 .. h : c[h - k] = b[h + (N - k)]
  <2>1. CASE num # 0 BY <2>1, <1>1, <1>3
  <2>2. CASE num = 0
    <3> DEFINE m == Memory(b, N, h)
    <3>1. /\ \A i \in 1 .. 1 + h - 1 : m[i] \in Samples \cup {JUNK}
          /\ \A i \in 1 .. h : m[i] = b[N + i - 1]
      BY <1>1 DEF Memory, Memories, N, h, b
    <3>2. c = Copy(b, 0, m, 1, h) BY <2>2, <1>3
    <3> HIDE DEF m
    <3>3. /\ c \in Memories
          /\ \A i \in 0 .. h + N - 1 : c[i] = IF i \in 0 .. h - 1 THEN m[1 + i] ELSE b[i]
      BY <3>1, <3>2, <1>1 DEF Copy, Memories, N, h
    <3>4. \A p \in 0 .. N - 1 : c[h + p] = b[h + p] BY <3>3, <1>1
    <3>5. \A k \in 1 .. h : c[h - k] = b[h + (N - k)]
      <4>1. TAKE k \in 1 .. h
      <4>2. h - k \in 0 .. h + N - 1 /\ h - k \in 0 .. h - 1 /\ 1 + (h - k) \in 1 .. h
            /\ N + (1 + (h - k)) - 1 = h + (N - k)
        BY <1>1
      <4>3. c[h - k] = m[1 + (h - k)] BY <4>2, <3>3, Zenon
      <4>4. m[1 + (h - k)] = b[N + (1 + (h - k)) - 1] BY <4>2, <3>1, Zenon
      <4> QED BY <4>2, <4>3, <4>4
    <3> QED BY <3>3, <3>4, <3>5
  <2> QED BY <2>1, <2>2
<1>5. /\ \A i \in 0 .. h + N - 1 : c[i] \in Samples \cup {JUNK}
  BY <1>4 DEF Memories, h, N
<1>6. /\ out' \in Seq(Samples \cup {JUNK}) /\ Len(out') = S
      /\ \A i \in 1 .. S : out'[i] = c[(h + r) + i - 1]
  <2>1. out' = [i \in 1 .. S |-> c[(h + r) + i - 1]] BY <1>2, <1>3 DEF Memory
  <2>2. \A i \in 1 .. S : c[(h + r) + i - 1] \in Samples \cup {JUNK}
    <3>1. TAKE i \in 1 .. S
    <3>2. (h + r) + i - 1 \in 0 .. h + N - 1 BY <1>1, <1>2
    <3> QED BY <3>2, <1>5, Zenon
  <2> QED BY <2>1, <2>2, <1>1
<1>7. \A i \in 1 .. S : out'[i] = b[h + After(r, i - 1)]
  <2>1. TAKE i \in 1 .. S
  <2>2. r + (i - 1) \in 0 .. N - 1 /\ After(r, i - 1) = r + (i - 1)
        /\ h + (r + (i - 1)) = (h + r) + i - 1
    BY <1>1, <1>2 DEF After, N
  <2>3. c[h + (r + (i - 1))] = b[h + (r + (i - 1))] BY <2>2, <1>4, Zenon
  <2>4. out'[i] = c[(h + r) + i - 1] BY <1>6, Zenon
  <2> QED BY <2>2, <2>3, <2>4, Zenon
<1>8. /\ hist' \in Seq(Samples \cup {JUNK}) /\ Len(hist') = h
      /\ \A i \in 1 .. h : hist'[i] = c[r + i - 1]
  <2>1. hist' = [i \in 1 .. h |-> c[r + i - 1]]
    <3>1. (h + num * S) - h = r BY <1>1, <1>2
    <3> QED BY <3>1, <1>3, Zenon DEF Memory
  <2>2. \A i \in 1 .. h : c[r + i - 1] \in Samples \cup {JUNK}
    <3>1. TAKE i \in 1 .. h
    <3>2. r + i - 1 \in 0 .. h + N - 1 BY <1>1, <1>2
    <3> QED BY <3>2, <1>5, Zenon
  <2> QED BY <2>1, <2>2, <1>1
<1>9. \A k \in 1 .. h : hist'[h + 1 - k] = b[h + After(r, N - k)]
  <2>1. TAKE k \in 1 .. h
  <2>2. h + 1 - k \in 1 .. h BY <1>1
  <2>3. hist'[h + 1 - k] = c[r + (h + 1 - k) - 1] BY <2>2, <1>8, Zenon
  <2>4. CASE num = 0
    <3>1. r = 0 BY <2>4, <1>2
    <3>2. r + (h + 1 - k) - 1 = h - k /\ After(r, N - k) = N - k
      BY <3>1, <1>1 DEF After, N
    <3>3. c[h - k] = b[h + (N - k)] BY <2>4, <1>4, Zenon
    <3> QED BY <2>3, <3>2, <3>3, Zenon
  <2>5. CASE num # 0
    <3>1. r >= S BY <2>5, <1>1, <1>2
    <3>2. r - k \in 0 .. N - 1 /\ r + (h + 1 - k) - 1 = h + (r - k) /\ After(r, N - k) = r - k
      BY <3>1, <1>1 DEF After, N
    <3>3. c[h + (r - k)] = b[h + (r - k)] BY <3>2, <1>4, Zenon
    <3> QED BY <2>3, <3>2, <3>3, Zenon
  <2> QED BY <2>4, <2>5
<1>10. Taken(SegmentLen)
  BY <1>1, <1>3, <1>4, <1>6, <1>7, <1>8 DEF Taken, N, S, r, h, b, c
<1> QED BY <1>6, <1>8, <1>9, <1>10 DEF N, r, h, b

LEMMA GetStep ==
    ASSUME IInv, getReadSegment
    PROVE  IInv' /\ Fifo!Take(SegmentLen)
<1>1. availSamples \in Nat /\ SegmentLen \in Nat BY Lengths DEF IInv, TypeOK
<1>2. CASE availSamples >= SegmentLen BY <1>1, <1>2, SegmentTaken, TakeStep
<1>3. CASE availSamples < SegmentLen
  <2>1. Fail BY <1>3, Zenon DEF getReadSegment
  <2> QED BY <2>1, <1>1, <1>3, TakeFails
<1> QED BY <1>1, <1>2, <1>3

\* read() of the input direction, in one piece or in two.
LEMMA ReadTakes ==
    ASSUME IInv, ~outDirection, NEW n \in Nat, n <= availSamples,
           out' = IF readIndex + n <= bufferLen
                  THEN Memory(buffer, readIndex, n)
                  ELSE Memory(buffer, readIndex, bufferLen - readIndex)
                       \o Memory(buffer, 0, n - (bufferLen - readIndex)),
           in' = <<>>, Advance(0, n), UNCHANGED <<outDirection, buffer, hist, past>>
    PROVE  Taken(n) /\ out' \in Seq(Samples \cup {JUNK})
<1> DEFINE N == bufferLen
           r == readIndex
           b == buffer
           V == Samples \cup {JUNK}
           n0 == N - r
<1>1. /\ N \in Nat \ {0} /\ r \in 0 .. N - 1 /\ hLen = 0 /\ n \in 0 .. N /\ n0 \in 1 .. N
      /\ b \in Memories /\ buffer' = b /\ hist' \in Seq(V)
  BY Lengths DEF IInv, TypeOK, Memories, hLen
<1>2. \A i \in 0 .. N - 1 : b[i] \in V BY <1>1 DEF Memories
<1> HIDE DEF N, r, b, V, n0
<1>3. /\ out' \in Seq(V) /\ Len(out') = n
      /\ \A i \in 1 .. n : out'[i] = b[hLen + After(r, i - 1)]
  <2>1. CASE r + n <= N
    <3>1. out' = [i \in 1 .. n |-> b[r + i - 1]] BY <2>1 DEF Memory, r, N, b
    <3>2. \A i \in 1 .. n :
            /\ b[r + i - 1] \in V
            /\ b[r + i - 1] = b[hLen + After(r, i - 1)]
      <4>1. TAKE i \in 1 .. n
      <4>2. r + i - 1 \in 0 .. N - 1 BY <2>1, <1>1
      <4>3. hLen + After(r, i - 1) = r + i - 1 BY <2>1, <1>1 DEF After, N
      <4> QED BY <4>2, <4>3, <1>2, Zenon
    <3>3. out' \in Seq(V) /\ Len(out') = n
      <4> DEFINE s == Memory(b, r, n)
      <4>1. s = [i \in 1 .. n |-> b[r + i - 1]] BY DEF Memory
      <4>2. \A i \in 1 .. n : b[r + i - 1] \in V BY <3>2, Zenon
      <4>3. out' = s BY <3>1, <4>1, Zenon
      <4> HIDE DEF s
      <4>4. s \in Seq(V) /\ Len(s) = n BY <4>1, <4>2
      <4> QED BY <4>3, <4>4, Zenon
    <3>4. \A i \in 1 .. n : out'[i] = b[r + i - 1] BY <3>1, Zenon
    <3> QED BY <3>2, <3>3, <3>4, Zenon
  <2>2. CASE r + n > N
    <3> DEFINE s == Memory(b, r, n0)
               t == Memory(b, 0, n - n0)
    <3>0. n0 < n /\ n - n0 \in Nat /\ n0 \in Nat /\ ~(r + n <= N) BY <2>2, <1>1 DEF n0
    <3>1. out' = s \o t BY <3>0, Zenon DEF r, N, b, n0
    <3>2. /\ s \in Seq(V) /\ Len(s) = n0
          /\ \A i \in 1 .. n0 : s[i] = b[r + i - 1]
      <4>1. s = [i \in 1 .. n0 |-> b[r + i - 1]] BY DEF Memory
      <4>2. \A i \in 1 .. n0 : b[r + i - 1] \in V
        <5>1. TAKE i \in 1 .. n0
        <5>2. r + i - 1 \in 0 .. N - 1 BY <1>1 DEF n0
        <5> QED BY <5>2, <1>2, Zenon
      <4> HIDE DEF s
      <4> QED BY <4>1, <4>2, <3>0
    <3>3. /\ t \in Seq(V) /\ Len(t) = n - n0
          /\ \A i \in 1 .. n - n0 : t[i] = b[0 + i - 1]
      <4>1. t = [i \in 1 .. n - n0 |-> b[0 + i - 1]] BY DEF Memory
      <4>2. \A i \in 1 .. n - n0 : b[0 + i - 1] \in V
        <5>1. TAKE i \in 1 .. n - n0
        <5>2. 0 + i - 1 \in 0 .. N - 1 BY <1>1, <3>0
        <5> QED BY <5>2, <1>2, Zenon
      <4> HIDE DEF t
      <4> QED BY <4>1, <4>2, <3>0
    <3> HIDE DEF s, t
    <3>4. /\ s \o t \in Seq(V) /\ Len(s \o t) = n
          /\ \A i \in 1 .. n : (s \o t)[i] = IF i <= n0 THEN s[i] ELSE t[i - n0]
      <4>1. s \in Seq(V) /\ t \in Seq(V) /\ Len(s) = n0 /\ Len(t) = n - n0 BY <3>2, <3>3
      <4>2. n \in Nat /\ n0 \in Nat /\ n0 < n BY <3>0
      <4> QED BY <4>1, <4>2
    <3>5. ASSUME NEW i \in 1 .. n PROVE (s \o t)[i] = b[hLen + After(r, i - 1)]
      <4>1. CASE i <= n0
        <5>1. i \in 1 .. n0 /\ hLen + After(r, i - 1) = r + i - 1
          BY <4>1, <1>1 DEF After, N, n0
        <5>2. (s \o t)[i] = s[i] BY <4>1, <3>4, Zenon
        <5> QED BY <5>1, <5>2, <3>2, Zenon
      <4>2. CASE ~(i <= n0)
        <5>1. i - n0 \in 1 .. n - n0 /\ hLen + After(r, i - 1) = 0 + (i - n0) - 1
          BY <4>2, <3>0, <1>1 DEF After, N, n0
        <5>2. (s \o t)[i] = t[i - n0] BY <4>2, <3>4, Zenon
        <5>3. t[i - n0] = b[0 + (i - n0) - 1] BY <5>1, <3>3, Zenon
        <5> QED BY <5>1, <5>2, <5>3, Zenon
      <4> QED BY <4>1, <4>2
    <3> QED BY <3>1, <3>4, <3>5
  <2> QED BY <2>1, <2>2, <1>1, SMTT(30)
<1> QED BY <1>1, <1>3 DEF Taken, N, r, b, V

LEMMA ReadStep ==
    ASSUME IInv, read
    PROVE  IInv' /\ \E n \in 0 .. MaxLen : Fifo!Take(n)
<1>1. ~outDirection BY DEF read
<1>2. PICK n \in 0 .. MaxLen :
        IF availSamples < n
        THEN Fail
        ELSE /\ out' = IF readIndex + n <= bufferLen
                       THEN Memory(buffer, readIndex, n)
                       ELSE Memory(buffer, readIndex, bufferLen - readIndex)
                            \o Memory(buffer, 0, n - (bufferLen - readIndex))
             /\ in' = <<>>
             /\ Advance(0, n)
             /\ UNCHANGED <<outDirection, buffer, hist, past>>
  BY Zenon DEF read
<1>3. n \in Nat /\ availSamples \in Nat BY BufferAssumption, Lengths DEF IInv, TypeOK
<1>4. CASE availSamples < n BY <1>2, <1>3, <1>4, TakeFails
<1>5. CASE ~(availSamples < n)
  <2>1. n <= availSamples BY <1>3, <1>5
  <2>2. Taken(n) /\ out' \in Seq(Samples \cup {JUNK}) BY <1>1, <1>2, <1>3, <1>5, <2>1, ReadTakes
  <2> QED BY <2>2, <1>3, TakeStep
<1> QED BY <1>4, <1>5

LEMMA ResetStep ==
    ASSUME IInv, reset
    PROVE  IInv' /\ Fifo!Reset
<1>1. hLen' = hLen /\ hLen \in Nat /\ bufferLen \in Nat \ {0} /\ SegmentLen \in Nat \ {0}
  BY HLenStays, Lengths DEF reset
<1>2. TypeOK' BY <1>1 DEF reset, IInv, TypeOK
<1>3. RingConsistent' BY <1>1 DEF reset, RingConsistent
<1>4. Filled' BY DEF reset, Filled
<1>5. PastInRing' BY <1>1 DEF reset, PastInRing
<1>6. Contents' = <<>> BY DEF reset, Contents
<1> QED BY <1>2, <1>3, <1>4, <1>5, <1>6 DEF IInv, reset, Fifo!Reset

\* Every call keeps the invariant and is a call of the FIFO.
LEMMA NextStep ==
    ASSUME IInv, Next
    PROVE  IInv' /\ Fifo!Next
<1>1. CASE write
  <2>1. PICK s \in Inputs : outDirection /\ Store(s) BY <1>1 DEF write
  <2>2. s \in Seq(Samples) BY BufferAssumption
  <2>3. IInv' /\ Fifo!Put(s) BY <2>1, <2>2, StoreStep
  <2> QED BY <2>3, Zenon DEF Fifo!Next
<1>2. CASE zero
  <2>1. PICK len \in 0 .. MaxLen : outDirection /\ Store(Zeros(len)) BY <1>2 DEF zero
  <2>2. Zeros(len) \in Seq(Samples) BY ZerosAre
  <2>3. IInv' /\ Fifo!Put(Zeros(len)) BY <2>1, <2>2, StoreStep
  <2> QED BY <2>3 DEF Fifo!Next
<1>3. CASE getReadSegment
  <2>1. IInv' /\ Fifo!Take(SegmentLen) BY <1>3, GetStep
  <2> QED BY <2>1, Zenon DEF Fifo!Next
<1>4. CASE getWriteSegment
  <2>1. PICK s \in Inputs : ~outDirection /\ Len(s) = SegmentLen /\ FillSegment(s)
    BY <1>4 DEF getWriteSegment
  <2>2. s \in Seq(Samples) BY BufferAssumption
  <2>3. IInv' /\ Fifo!Put(s) BY <2>1, <2>2, FillStep
  <2> QED BY <2>3, Zenon DEF Fifo!Next
<1>5. CASE zeroWriteSegment
  <2>1. ~outDirection /\ FillSegment(Zeros(SegmentLen)) BY <1>5 DEF zeroWriteSegment
  <2>2. Zeros(SegmentLen) \in Seq(Samples) /\ Len(Zeros(SegmentLen)) = SegmentLen
    BY ZerosAre, Lengths
  <2>3. IInv' /\ Fifo!Put(Zeros(SegmentLen)) BY <2>1, <2>2, FillStep
  <2> QED BY <2>3, Zenon DEF Fifo!Next
<1>6. CASE read
  <2>1. IInv' /\ \E n \in 0 .. MaxLen : Fifo!Take(n) BY <1>6, ReadStep
  <2> QED BY <2>1, Zenon DEF Fifo!Next
<1>7. CASE reset
  <2>1. IInv' /\ Fifo!Reset BY <1>7, ResetStep
  <2> QED BY <2>1, Zenon DEF Fifo!Next
<1> QED BY <1>1, <1>2, <1>3, <1>4, <1>5, <1>6, <1>7 DEF Next

LEMMA Initially ==
    ASSUME Init
    PROVE  IInv /\ Fifo!Init
<1>1. hLen \in Nat /\ bufferLen \in Nat \ {0} /\ SegmentLen \in Nat \ {0} BY Lengths
<1>2. TypeOK BY <1>1 DEF Init, TypeOK
<1>3. RingConsistent BY <1>1 DEF Init, RingConsistent
<1>4. Filled BY DEF Init, Filled
<1>5. PastInRing BY <1>1 DEF Init, PastInRing
<1>6. Contents = <<>> BY DEF Init, Contents
<1> QED BY <1>2, <1>3, <1>4, <1>5, <1>6 DEF IInv, Init, Fifo!Init

LEMMA Stutter ==
    ASSUME IInv, UNCHANGED vars
    PROVE  IInv' /\ Contents' = Contents
<1>1. hLen' = hLen BY HLenStays DEF vars
<1> QED BY <1>1 DEF vars, IInv, TypeOK, RingConsistent, Filled, PastInRing, After, Contents

\* The segment that is read comes with its history.
LEMMA HistoryStep ==
    ASSUME IInv, getReadSegment, ok', availSamples + hLen <= bufferLen
    PROVE  LastOf(hist', Len(past)) = past
<1> DEFINE m == Len(past)
           h == hist'
           q == LastOf(h, m)
           V == Samples \cup {JUNK}
<1>1. /\ past \in Seq(V) /\ m \in Nat /\ m <= hLen /\ hLen \in Nat
      /\ availSamples \in Nat /\ SegmentLen \in Nat
  BY Lengths DEF IInv, TypeOK, PastInRing
<1>2. availSamples >= SegmentLen
  <2>1. SUFFICES ASSUME availSamples < SegmentLen PROVE FALSE BY <1>1
  <2>2. Fail BY <2>1, Zenon DEF getReadSegment
  <2> QED BY <2>2 DEF Fail
<1>3. /\ hist' \in Seq(V) /\ Len(hist') = hLen
      /\ \A k \in 1 .. hLen :
            hist'[hLen + 1 - k] = buffer[hLen + After(readIndex, bufferLen - k)]
  BY <1>2, SegmentTaken
<1>4. \A k \in 1 .. m : buffer[hLen + After(readIndex, bufferLen - k)] = past[m + 1 - k]
  BY DEF IInv, PastInRing
<1>5. /\ q \in Seq(V) /\ Len(q) = IF Len(hist') <= m THEN Len(hist') ELSE m
      /\ \A k \in 1 .. Len(q) : q[Len(q) + 1 - k] = hist'[Len(hist') + 1 - k]
  <2>1. h \in Seq(V) /\ m \in Nat BY <1>1, <1>3
  <2> HIDE DEF h, m, V
  <2> QED BY <2>1, LastOfIs DEF h
<1> HIDE DEF m, q, V
<1>6. Len(q) = m BY <1>1, <1>3, <1>5
<1>7. \A k \in 1 .. m : q[m + 1 - k] = past[m + 1 - k]
  <2>1. TAKE k \in 1 .. m
  <2>2. k \in 1 .. hLen BY <1>1
  <2>3. q[m + 1 - k] = hist'[hLen + 1 - k] BY <1>3, <1>5, <1>6
  <2>4. hist'[hLen + 1 - k] = buffer[hLen + After(readIndex, bufferLen - k)] BY <2>2, <1>3, Zenon
  <2>5. buffer[hLen + After(readIndex, bufferLen - k)] = past[m + 1 - k] BY <1>4, Zenon
  <2> QED BY <2>3, <2>4, <2>5, Zenon
<1>8. \A i \in 1 .. m : q[i] = past[i]
  <2>1. TAKE i \in 1 .. m
  <2>2. m + 1 - i \in 1 .. m /\ m + 1 - (m + 1 - i) = i BY <1>1
  <2>3. q[m + 1 - (m + 1 - i)] = past[m + 1 - (m + 1 - i)] BY <2>2, <1>7, Zenon
  <2> QED BY <2>2, <2>3, Zenon
<1>9. q = past
  <2>1. past \in Seq(V) /\ q \in Seq(V) /\ Len(past) = m /\ Len(q) = m
    BY <1>1, <1>5, <1>6 DEF m
  <2> QED BY <2>1, <1>8
<1> QED BY <1>9 DEF q, h, m
-----------------------------------------------------------------------------
(* Theorems *)

\* The inductive invariant of RadioBuffer: indices and counter describe one
\* ring, what is counted was written, and what was taken last is still in
\* front of the read index unless the writers needed its place.
THEOREM RbInductive == Spec => []IInv
<1>1. Init => IInv BY Initially
<1>2. IInv /\ [Next]_vars => IInv' BY NextStep, Stutter
<1> QED BY <1>1, <1>2, PTL DEF Spec

\* The indices of RadioBuffer stay inside the ring and agree with its counter,
\* and the segment side never stops inside a segment.
THEOREM RbRingInv == Spec => []RingInv
<1>1. IInv => RingInv BY DEF IInv, RingInv
<1> QED BY RbInductive, <1>1, PTL

\* getReadSegment hands the resampler the samples in front of each segment, as
\* far back as reset(), across the end of the ring.
THEOREM RbHistoryIntact == Spec => HistoryIntact
<1>1. IInv /\ [Next]_vars
        => [getReadSegment /\ ok' /\ availSamples + hLen <= bufferLen
            => LastOf(hist', Len(past)) = past]_vars
  BY HistoryStep
<1> QED BY RbInductive, <1>1, PTL DEF Spec, HistoryIntact

\* RadioBuffer implements SampleFifo: every call of the ring, wrap-arounds
\* included, is the call of a bounded FIFO of samples.
THEOREM RbFifo == Spec => FifoSpec
<1>1. Init => Fifo!Init BY Initially
<1>2. IInv /\ [Next]_vars => [Fifo!Next]_<<Contents, in, out, ok>>
  BY NextStep, Stutter DEF vars
<1> QED BY RbInductive, <1>1, <1>2, PTL DEF Spec, FifoSpec, Fifo!Spec, Fifo!fifoVars
=============================================================================
