---------------------------- MODULE TxPathProofs ----------------------------
(***************************************************************************)
(* The downlink path for every number of channels, slots and burst vectors *)
(* and every table of moduli: TypeOK, the ownership of burst vectors and   *)
(* the shape of the filler table are invariants of TxPath's Spec; what     *)
(* goes on air is of its slot; and the stale loop leaves no stale burst,   *)
(* as long as the bursts of a queue are near the deadline.                 *)
(***************************************************************************)
EXTENDS TxPath, GsmTimeProofs, WellFoundedInduction, TLAPS

\* What ties the ownership invariants to the place TxLower is at: a burst is
\* in flight only for channels that were handled in this slot.
Phase ==
    /\ pc = "wait" => chan = 0 /\ \A c \in Chans : filler[c]
    /\ pc \in {"stale", "current"} => \A c \in Chans : c >= chan => filler[c]

\* The inductive invariant.
IInv == TypeOK /\ Phase /\ Ownership

\* What bursts[c] holds once channel c was handled for the slot: the generated
\* filler; a burst of this slot in flight; where the channel retransmits, what
\* the filler table keeps for this slot number, in a row of this frame.
Shown(c) ==
    LET now == mTransmitDeadlineClock  b == bursts[c] IN
    \/ b = GEN
    \/ c \notin Retrans /\ b \in Vecs /\ InFlight(c, b) /\ heap[b] = now
    \/ c \in Retrans /\ b \in Vecs /\ \E k \in Moduli : Kept(c, now.fn % k, now.tn, b)

\* The channels that were handled for the slot.
Handled == CASE pc = "wait" -> {}
             [] pc = "stale" -> {c \in Chans : c < chan}
             [] pc = "current" -> {c \in Chans : c <= chan}
             [] pc = "drive" -> Chans

\* What OnAir takes besides IInv: fillers of channels that do not retransmit
\* are never replaced, and the deadline moves between two slots only.
AirIInv ==
    /\ ~mOn => pc = "wait"
    /\ \A c \in Chans \ Retrans, r \in 0 .. Rows - 1, n \in TNs : fillerTable[c][r][n] = GEN
    /\ \A c \in Handled : Shown(c)

\* A burst of time t is near the deadline: as far ahead, or late, as the BTS
\* places bursts, or a slot later, if its channel has not been passed yet.
Distances == Offsets \cup {0}
Near(t, passed) ==
    \E d \in Int : /\ Apart(t, mTransmitDeadlineClock, d)
                   /\ \E f \in Distances : d <= f
                   /\ \E e \in Distances : IF passed THEN e <= d ELSE e <= d + 1

\* What StaleLoopDrains takes besides IInv: all bursts of a queue are near.
QueuesNear ==
    /\ ~mOn => \A c \in Chans : mTxPriorityQueues[c] = {}
    /\ \A c \in Chans : \A v \in mTxPriorityQueues[c] : Near(heap[v], c \in Handled)
-----------------------------------------------------------------------------
(* Facts about the operators *)

\* A remainder lies below its modulus.
LEMMA ModRange ==
    ASSUME NEW a \in Int, NEW b \in Nat \ {0}
    PROVE  a % b \in 0 .. b - 1
BY SMT

\* IncTN stays inside the hyperframe.
LEMMA IncTNType ==
    ASSUME NEW t \in Time
    PROVE  IncTN(t, 1) \in Time
<1>1. t.fn + 1 \in Int /\ Hyperframe \in Nat \ {0}
    BY TimeAssumption DEF Time, FNs
<1>2. t.tn \in 0 .. Slots - 1 /\ t.fn \in FNs
    BY DEF Time, TNs
<1>3. (t.fn + 1) % Hyperframe \in FNs
    BY <1>1, ModRange, Zenon DEF FNs
<1> QED
    BY <1>1, <1>2, <1>3, TimeAssumption DEF IncTN, Time, TNs, T

\* SlotAt gives a time of the hyperframe.
LEMMA SlotAtType ==
    ASSUME NEW t \in Time, NEW d \in Int
    PROVE  SlotAt(t, d) \in Time
<1> DEFINE S == Slots
           H == Hyperframe
           n == (t.fn * S + t.tn + d + H * S) % (H * S)
           q == n \div S
<1>1. S \in Nat /\ S > 0 /\ H \in Nat /\ H > 1
    BY TimeAssumption
<1>2. H * S \in Nat \ {0}
    BY <1>1, SMT
<1>3. t.fn * S + t.tn + d + H * S \in Int
  <2>1. t.fn \in Int /\ t.tn \in Int
    BY TimeAssumption DEF Time, FNs, TNs
  <2> QED BY <2>1, <1>1, <1>2, SMT
<1>4. n \in 0 .. H * S - 1
    BY <1>2, <1>3, ModRange, Zenon
<1> HIDE DEF n
<1>5. n % S \in 0 .. S - 1
  <2>1. n \in Int /\ S \in Nat \ {0}
    BY <1>1, <1>2, <1>4
  <2> QED BY <2>1, ModRange, Zenon
<1>6. q \in Nat /\ q * S <= n
    BY <1>1, <1>2, <1>4, SMT
<1> HIDE DEF q, S, H
<1>7. q < H
  <2>1. SUFFICES ASSUME q >= H PROVE FALSE
    BY <1>1, <1>6
  <2>2. q * S >= H * S
    BY <2>1, <1>1, <1>6, SMT
  <2> QED BY <2>2, <1>2, <1>4, <1>6, <1>1, SMT
<1>8. T(q, n % S) \in Time
    BY <1>1, <1>5, <1>6, <1>7 DEF T, Time, FNs, TNs, S, H
<1> QED
    BY <1>8 DEF SlotAt, n, q, S, H

\* The moduli are rows of the table.
LEMMA ModuliRange == Moduli \subseteq 1 .. Rows
BY TxAssumption DEF Moduli

\* The row of a slot exists.
LEMMA RowType ==
    ASSUME TypeOK, NEW c \in Chans, NEW t \in Time
    PROVE  /\ Row(c, t) \in 0 .. Rows - 1
           /\ fillerModulus[c][t.tn] \in Moduli
<1>1. t.tn \in TNs /\ t.fn \in Int
    BY TimeAssumption DEF Time, FNs, TNs
<1>2. fillerModulus[c][t.tn] \in Moduli
    BY <1>1 DEF TypeOK
<1>3. fillerModulus[c][t.tn] \in 1 .. Rows
    BY <1>2, ModuliRange
<1>4. t.fn % fillerModulus[c][t.tn] \in 0 .. fillerModulus[c][t.tn] - 1
  <2>1. fillerModulus[c][t.tn] \in Nat \ {0}
    BY <1>3, TxAssumption
  <2> QED BY <1>1, <2>1, ModRange, Zenon
<1> QED
    BY <1>2, <1>3, <1>4, TxAssumption DEF Row

\* top() is an element of the queue.
LEMMA TopIn ==
    ASSUME NEW q, NEW v \in Top(q)
    PROVE  v \in q
BY DEF Top

\* A queued burst is alive, so it has a time.
LEMMA QueuedAlive ==
    ASSUME TypeOK, NoDangling, NEW c \in Chans, NEW v \in mTxPriorityQueues[c]
    PROVE  v \in Vecs /\ heap[v] \in Time
BY DEF TypeOK, NoDangling, Queued
-----------------------------------------------------------------------------
(* What a step does to the ownership of bursts *)

\* A step that leaves the three owners and the heap alone keeps ownership.
LEMMA OwnersUnchanged ==
    ASSUME Ownership, UNCHANGED <<heap, fillerTable, mTxPriorityQueues>>,
           \A c \in Chans, v \in Vecs : InFlight(c, v)' = InFlight(c, v)
    PROVE  Ownership'
<1>1. NoDangling' BY DEF Ownership, NoDangling, Queued, Kept
<1>2. NoLeak' BY DEF Ownership, NoLeak, Queued, Kept
<1>3. OneOwner' BY DEF Ownership, OneOwner, Queued, Kept
<1>4. FillerRows' BY DEF Ownership, FillerRows
<1> QED BY <1>1, <1>2, <1>3, <1>4 DEF Ownership

\* updateFillerTable of a burst that was just taken from its queue: the table
\* becomes its owner, and the vector it replaces had no other.
LEMMA TableTakesBurst ==
    ASSUME TypeOK, Ownership,
           NEW c \in Chans, NEW v \in mTxPriorityQueues[c],
           mTxPriorityQueues' = [mTxPriorityQueues EXCEPT ![c] = @ \ {v}],
           UpdateFillerTable(c, v),
           \A d \in Chans, w \in Vecs : InFlight(d, w)' = InFlight(d, w)
    PROVE  /\ mTxPriorityQueues' \in [Chans -> SUBSET Vecs]
           /\ fillerTable' \in [Chans -> [0 .. Rows - 1 -> [TNs -> Vecs \cup {GEN}]]]
           /\ heap' \in [Vecs -> Time \cup {NULL}]
           /\ Ownership'
<1> DEFINE row == Row(c, heap[v])
           col == heap[v].tn
           old == fillerTable[c][row][col]
<1>1. v \in Vecs /\ heap[v] \in Time /\ heap[v] # NULL
    BY QueuedAlive, TxAssumption DEF Ownership
<1>2. row \in 0 .. Rows - 1 /\ col \in TNs
    BY <1>1, RowType DEF Time
<1>t. fillerTable \in [Chans -> [0 .. Rows - 1 -> [TNs -> Vecs \cup {GEN}]]]
    BY DEF TypeOK
<1>4. fillerTable' = [fillerTable EXCEPT ![c][row][col] = v]
    BY DEF UpdateFillerTable
<1>5. heap' = IF old \in Vecs THEN [heap EXCEPT ![old] = NULL] ELSE heap
    BY DEF UpdateFillerTable
<1>rc. heap[v].fn % fillerModulus[c][col] = row /\ fillerModulus[c][col] \in Moduli
    BY <1>1, RowType DEF Row
<1>u. Queued(c, v) /\ \A d \in Chans : Queued(d, v) => c = d
    BY <1>1 DEF Ownership, OneOwner, Queued
<1> HIDE DEF row, col, old
<1>6. \A d \in Chans, s \in 0 .. Rows - 1, m \in TNs :
        fillerTable'[d][s][m] =
            IF d = c /\ s = row /\ m = col THEN v ELSE fillerTable[d][s][m]
    BY <1>2, <1>4, <1>t
<1>7. \A w \in Vecs : heap'[w] = IF w = old THEN NULL ELSE heap[w]
    BY <1>5 DEF TypeOK
<1>8. \A d \in Chans, w \in Vecs : Queued(d, w)' <=> Queued(d, w) /\ w # v
    BY <1>u DEF TypeOK, Queued
<1>9. \A d \in Chans, s \in 0 .. Rows - 1, m \in TNs, w \in Vecs :
        Kept(d, s, m, w)' <=>
            IF d = c /\ s = row /\ m = col THEN w = v ELSE Kept(d, s, m, w)
    BY <1>6 DEF Kept
\* Nobody else owns the vector that is deleted, and v was in no table.
<1>10. \A d \in Chans : ~(old \in Vecs /\ (Queued(d, old) \/ InFlight(d, old)))
    BY <1>2 DEF Ownership, OneOwner, Kept, old
<1>11. \A d \in Chans, s \in 0 .. Rows - 1, m \in TNs :
        old \in Vecs /\ Kept(d, s, m, old) => d = c /\ s = row /\ m = col
  <2>1. Kept(c, row, col, old)
    BY DEF Kept, old
  <2> QED BY <1>2, <2>1 DEF Ownership, OneOwner
<1>12. \A d \in Chans, s \in 0 .. Rows - 1, m \in TNs : ~Kept(d, s, m, v)
    BY <1>1, <1>u DEF Ownership, OneOwner
<1>13. \A d \in Chans : ~InFlight(d, v)
    BY <1>1, <1>u DEF Ownership, OneOwner
<1>14. v # old
    BY <1>1, <1>u, <1>10
<1>15. NoDangling'
  <2>1. SUFFICES ASSUME NEW w \in Vecs,
                        (\/ \E d \in Chans : Queued(d, w)' \/ InFlight(d, w)'
                         \/ \E d \in Chans, s \in 0 .. Rows - 1, m \in TNs : Kept(d, s, m, w)')
                 PROVE  heap'[w] # NULL
    BY DEF NoDangling, Queued, InFlight, Kept
  <2>2. CASE w = v
    BY <2>2, <1>1, <1>7, <1>14
  <2>3. CASE w # v
    <3>1. \/ \E d \in Chans : Queued(d, w) \/ InFlight(d, w)
          \/ \E d \in Chans, s \in 0 .. Rows - 1, m \in TNs :
                Kept(d, s, m, w) /\ ~(d = c /\ s = row /\ m = col)
      BY <2>1, <2>3, <1>8, <1>9
    <3>2. w # old
      BY <3>1, <1>10, <1>11
    <3>3. heap[w] # NULL
      BY <3>1 DEF Ownership, NoDangling
    <3> QED BY <3>2, <3>3, <1>7
  <2> QED BY <2>2, <2>3
<1>16. NoLeak'
  <2>1. SUFFICES ASSUME NEW w \in Vecs, heap'[w] # NULL
                 PROVE  \/ \E d \in Chans : Queued(d, w)' \/ InFlight(d, w)'
                        \/ \E d \in Chans, s \in 0 .. Rows - 1, m \in TNs : Kept(d, s, m, w)'
    BY DEF NoLeak, Queued, InFlight, Kept
  <2>2. CASE w = v
    BY <2>2, <1>2, <1>9
  <2>3. CASE w # v
    <3>1. w # old /\ heap[w] # NULL
      BY <2>1, <1>7
    <3>2. ~Kept(c, row, col, w)
      BY <3>1 DEF Kept, old
    <3>3. \/ \E d \in Chans : Queued(d, w) \/ InFlight(d, w)
          \/ \E d \in Chans, s \in 0 .. Rows - 1, m \in TNs : Kept(d, s, m, w)
      BY <3>1 DEF Ownership, NoLeak
    <3> QED BY <2>3, <3>2, <3>3, <1>8, <1>9
  <2> QED BY <2>2, <2>3
<1>17. OneOwner'
  <2>1. SUFFICES ASSUME NEW w \in Vecs
                 PROVE  /\ \A d, e \in Chans : Queued(d, w)' /\ Queued(e, w)' => d = e
                        /\ \A d, e \in Chans : InFlight(d, w)' /\ InFlight(e, w)' => d = e
                        /\ \A d, e \in Chans, r, s \in 0 .. Rows - 1, n, m \in TNs :
                            Kept(d, r, n, w)' /\ Kept(e, s, m, w)' => d = e /\ r = s /\ n = m
                        /\ \A d, e \in Chans : ~(Queued(d, w)' /\ InFlight(e, w)')
                        /\ \A d, e \in Chans, r \in 0 .. Rows - 1, n \in TNs :
                            ~(Kept(d, r, n, w)' /\ (Queued(e, w)' \/ InFlight(e, w)'))
    BY DEF OneOwner, Queued, InFlight, Kept
  <2>2. \A d, e \in Chans : Queued(d, w)' /\ Queued(e, w)' => d = e
    BY <1>8 DEF Ownership, OneOwner
  <2>3. \A d, e \in Chans : InFlight(d, w)' /\ InFlight(e, w)' => d = e
    BY DEF Ownership, OneOwner
  <2>4. \A d, e \in Chans, r, s \in 0 .. Rows - 1, n, m \in TNs :
            Kept(d, r, n, w)' /\ Kept(e, s, m, w)' => d = e /\ r = s /\ n = m
    BY <1>9, <1>12 DEF Ownership, OneOwner
  <2>5. \A d, e \in Chans : ~(Queued(d, w)' /\ InFlight(e, w)')
    BY <1>8 DEF Ownership, OneOwner
  <2>6. \A d, e \in Chans, r \in 0 .. Rows - 1, n \in TNs :
            ~(Kept(d, r, n, w)' /\ (Queued(e, w)' \/ InFlight(e, w)'))
    BY <1>8, <1>9, <1>13 DEF Ownership, OneOwner
  <2> QED BY <2>2, <2>3, <2>4, <2>5, <2>6
<1>18. FillerRows'
  <2>1. SUFFICES ASSUME NEW d \in Chans, NEW s \in 0 .. Rows - 1, NEW m \in TNs,
                        fillerTable'[d][s][m] \in Vecs, heap'[fillerTable'[d][s][m]] # NULL
                 PROVE  /\ heap'[fillerTable'[d][s][m]].tn = m
                        /\ \E k \in Moduli : heap'[fillerTable'[d][s][m]].fn % k = s
    BY DEF FillerRows
  <2>2. CASE d = c /\ s = row /\ m = col
    <3>1. fillerTable'[d][s][m] = v /\ heap'[v] = heap[v]
      BY <2>2, <1>1, <1>6, <1>7, <1>14
    <3> QED BY <3>1, <2>2, <1>rc DEF col
  <2>3. CASE ~(d = c /\ s = row /\ m = col)
    <3>1. fillerTable'[d][s][m] = fillerTable[d][s][m]
      BY <2>3, <1>6
    <3>2. heap'[fillerTable[d][s][m]] = heap[fillerTable[d][s][m]]
      BY <2>1, <3>1, <1>7
    <3> QED BY <2>1, <3>1, <3>2 DEF Ownership, FillerRows
  <2> QED BY <2>2, <2>3
<1>19. mTxPriorityQueues' \in [Chans -> SUBSET Vecs]
    BY DEF TypeOK
<1>20. fillerTable' \in [Chans -> [0 .. Rows - 1 -> [TNs -> Vecs \cup {GEN}]]]
    BY <1>1, <1>2, <1>4 DEF TypeOK
<1>21. heap' \in [Vecs -> Time \cup {NULL}]
    BY <1>5 DEF TypeOK
<1> QED BY <1>15, <1>16, <1>17, <1>18, <1>19, <1>20, <1>21 DEF Ownership
\* Deleting a set of vectors that no table keeps, together with their places
\* in the queues and in flight.
LEMMA OwnersDelete ==
    ASSUME TypeOK, Ownership, NEW D \in SUBSET Vecs,
           heap' = [v \in Vecs |-> IF v \in D THEN NULL ELSE heap[v]],
           UNCHANGED fillerTable,
           \A c \in Chans, v \in Vecs : Queued(c, v)' <=> Queued(c, v) /\ v \notin D,
           \A c \in Chans, v \in Vecs : InFlight(c, v)' <=> InFlight(c, v) /\ v \notin D,
           \A c \in Chans, r \in 0 .. Rows - 1, n \in TNs, v \in D : ~Kept(c, r, n, v)
    PROVE  heap' \in [Vecs -> Time \cup {NULL}] /\ Ownership'
<1>1. \A c \in Chans, r \in 0 .. Rows - 1, n \in TNs, v \in Vecs :
        Kept(c, r, n, v)' <=> Kept(c, r, n, v)
    BY DEF Kept
<1>2. heap' \in [Vecs -> Time \cup {NULL}]
    BY DEF TypeOK
<1>3. \A w \in Vecs : heap'[w] = IF w \in D THEN NULL ELSE heap[w]
    OBVIOUS
<1>4. NoDangling'
  <2>1. SUFFICES ASSUME NEW w \in Vecs,
                        (\/ \E d \in Chans : Queued(d, w)' \/ InFlight(d, w)'
                         \/ \E d \in Chans, s \in 0 .. Rows - 1, m \in TNs : Kept(d, s, m, w)')
                 PROVE  heap'[w] # NULL
    BY DEF NoDangling, Queued, InFlight, Kept
  <2>2. w \notin D /\ heap[w] # NULL
    BY <2>1, <1>1 DEF Ownership, NoDangling
  <2> QED BY <2>2, <1>3
<1>5. NoLeak'
  <2>1. SUFFICES ASSUME NEW w \in Vecs, heap'[w] # NULL
                 PROVE  \/ \E d \in Chans : Queued(d, w)' \/ InFlight(d, w)'
                        \/ \E d \in Chans, s \in 0 .. Rows - 1, m \in TNs : Kept(d, s, m, w)'
    BY DEF NoLeak, Queued, InFlight, Kept
  <2>2. w \notin D /\ heap[w] # NULL
    BY <2>1, <1>3
  <2> QED BY <2>2, <1>1 DEF Ownership, NoLeak
<1>6. OneOwner'
  <2>1. SUFFICES ASSUME NEW w \in Vecs
                 PROVE  /\ \A d, e \in Chans : Queued(d, w)' /\ Queued(e, w)' => d = e
                        /\ \A d, e \in Chans : InFlight(d, w)' /\ InFlight(e, w)' => d = e
                        /\ \A d, e \in Chans, r, s \in 0 .. Rows - 1, n, m \in TNs :
                            Kept(d, r, n, w)' /\ Kept(e, s, m, w)' => d = e /\ r = s /\ n = m
                        /\ \A d, e \in Chans : ~(Queued(d, w)' /\ InFlight(e, w)')
                        /\ \A d, e \in Chans, r \in 0 .. Rows - 1, n \in TNs :
                            ~(Kept(d, r, n, w)' /\ (Queued(e, w)' \/ InFlight(e, w)'))
    BY DEF OneOwner, Queued, InFlight, Kept
  <2> QED BY <1>1 DEF Ownership, OneOwner
<1>7. FillerRows'
    BY <1>3 DEF Ownership, FillerRows
<1> QED BY <1>2, <1>4, <1>5, <1>6, <1>7 DEF Ownership

\* getCurrentBurst of a channel that does not retransmit: the burst moves from
\* its queue into flight.
LEMMA BurstTakesOff ==
    ASSUME TypeOK, Ownership, UNCHANGED <<heap, fillerTable>>,
           NEW c \in Chans, NEW v \in Vecs, Queued(c, v),
           \A d \in Chans, w \in Vecs : Queued(d, w)' <=> Queued(d, w) /\ w # v,
           \A d \in Chans, w \in Vecs :
                InFlight(d, w)' <=> InFlight(d, w) \/ (d = c /\ w = v)
    PROVE  Ownership'
<1>1. \A d \in Chans, r \in 0 .. Rows - 1, n \in TNs, w \in Vecs :
        Kept(d, r, n, w)' <=> Kept(d, r, n, w)
    BY DEF Kept
<1>4. NoDangling'
  <2>1. SUFFICES ASSUME NEW w \in Vecs,
                        (\/ \E d \in Chans : Queued(d, w)' \/ InFlight(d, w)'
                         \/ \E d \in Chans, s \in 0 .. Rows - 1, m \in TNs : Kept(d, s, m, w)')
                 PROVE  heap'[w] # NULL
    BY DEF NoDangling, Queued, InFlight, Kept
  <2> QED BY <2>1, <1>1 DEF Ownership, NoDangling
<1>5. NoLeak'
  <2>1. SUFFICES ASSUME NEW w \in Vecs, heap'[w] # NULL
                 PROVE  \/ \E d \in Chans : Queued(d, w)' \/ InFlight(d, w)'
                        \/ \E d \in Chans, s \in 0 .. Rows - 1, m \in TNs : Kept(d, s, m, w)'
    BY DEF NoLeak, Queued, InFlight, Kept
  <2> QED BY <2>1, <1>1 DEF Ownership, NoLeak
<1>6. OneOwner'
  <2>1. SUFFICES ASSUME NEW w \in Vecs
                 PROVE  /\ \A d, e \in Chans : Queued(d, w)' /\ Queued(e, w)' => d = e
                        /\ \A d, e \in Chans : InFlight(d, w)' /\ InFlight(e, w)' => d = e
                        /\ \A d, e \in Chans, r, s \in 0 .. Rows - 1, n, m \in TNs :
                            Kept(d, r, n, w)' /\ Kept(e, s, m, w)' => d = e /\ r = s /\ n = m
                        /\ \A d, e \in Chans : ~(Queued(d, w)' /\ InFlight(e, w)')
                        /\ \A d, e \in Chans, r \in 0 .. Rows - 1, n \in TNs :
                            ~(Kept(d, r, n, w)' /\ (Queued(e, w)' \/ InFlight(e, w)'))
    BY DEF OneOwner, Queued, InFlight, Kept
  <2> QED BY <1>1 DEF Ownership, OneOwner
<1>7. FillerRows'
    BY DEF Ownership, FillerRows
<1> QED BY <1>4, <1>5, <1>6, <1>7 DEF Ownership
-----------------------------------------------------------------------------
(* The invariant holds initially and is kept by every action *)

\* A new transceiver: empty queues, and a filler table of generated bursts.
LEMMA InitIInv == Init => IInv
<1> SUFFICES ASSUME Init PROVE IInv
    OBVIOUS
<1> USE DEF Init
<1>1. TypeOK
  <2>1. mTransmitDeadlineClock \in Time
    BY TimeAssumption DEF Time, FNs, TNs, T
  <2>2. 0 \in Chans
    BY TxAssumption DEF Chans
  <2>3. InitModulus \in Moduli
    BY DEF Moduli
  <2>4. NONE \in Types
    BY TxAssumption
  <2>5. /\ mTxPriorityQueues \in [Chans -> SUBSET Vecs]
        /\ heap \in [Vecs -> Time \cup {NULL}]
        /\ bursts \in [Chans -> Vecs \cup {GEN, NULL}]
        /\ setslot \in [Chans -> TNs \cup {NULL}]
    OBVIOUS
  <2>6. fillerTable \in [Chans -> [0 .. Rows - 1 -> [TNs -> Vecs \cup {GEN}]]]
    OBVIOUS
  <2>7. /\ fillerModulus \in [Chans -> [TNs -> Moduli]]
        /\ chanType \in [Chans -> [TNs -> Types]]
    BY <2>3, <2>4
  <2>8. zeros \in [Chans -> BOOLEAN] /\ filler \in [Chans -> BOOLEAN]
    OBVIOUS
  <2> QED BY <2>1, <2>2, <2>5, <2>6, <2>7, <2>8 DEF TypeOK
<1>2. Phase
    BY DEF Phase
<1>3. \A v \in Vecs : heap[v] = NULL
    OBVIOUS
<1>4. \A c \in Chans, v \in Vecs : ~Queued(c, v) /\ ~InFlight(c, v)
    BY DEF Queued, InFlight
<1>5. \A c \in Chans, r \in 0 .. Rows - 1, n \in TNs, v \in Vecs : ~Kept(c, r, n, v)
    BY TxAssumption DEF Kept
<1>6. NoDangling
    BY <1>4, <1>5 DEF NoDangling
<1>7. NoLeak
    BY <1>3 DEF NoLeak
<1>8. OneOwner
    BY <1>4, <1>5 DEF OneOwner
<1>9. FillerRows
    BY <1>3 DEF FillerRows
<1> QED BY <1>1, <1>2, <1>6, <1>7, <1>8, <1>9 DEF IInv, Ownership

\* TxUpper queues a fresh vector, which has no other owner.
LEMMA AddRadioVectorIInv ==
    ASSUME IInv, NEW c \in Chans, AddRadioVector(c)
    PROVE  IInv'
<1> USE DEF IInv
<1>1. PICK v \in Vecs, d \in Offsets :
        /\ heap[v] = NULL
        /\ heap' = [heap EXCEPT ![v] = SlotAt(mTransmitDeadlineClock, d)]
        /\ mTxPriorityQueues' = [mTxPriorityQueues EXCEPT ![c] = @ \cup {v}]
    BY DEF AddRadioVector
<1>2. UNCHANGED <<mOn, mTransmitDeadlineClock, fillerTable, slotVars, pc, txVars>>
    BY DEF AddRadioVector
<1>3. SlotAt(mTransmitDeadlineClock, d) \in Time
    BY SlotAtType, TxAssumption DEF TypeOK
<1>4. TypeOK'
    BY <1>1, <1>2, <1>3 DEF TypeOK, slotVars, txVars
<1>5. Phase'
    BY <1>2 DEF Phase, txVars
<1>6. \A w \in Vecs : heap'[w] # NULL <=> heap[w] # NULL \/ w = v
    BY <1>1, <1>3, TxAssumption DEF TypeOK
<1>7. \A w \in Vecs : w # v => heap'[w] = heap[w]
    BY <1>1 DEF TypeOK
<1>8. \A e \in Chans, w \in Vecs : Queued(e, w)' <=> Queued(e, w) \/ (e = c /\ w = v)
    BY <1>1 DEF TypeOK, Queued
<1>9. \A e \in Chans, w \in Vecs : InFlight(e, w)' <=> InFlight(e, w)
    BY <1>2 DEF InFlight, txVars
<1>10. \A e \in Chans, r \in 0 .. Rows - 1, n \in TNs, w \in Vecs :
        Kept(e, r, n, w)' <=> Kept(e, r, n, w)
    BY <1>2 DEF Kept
<1>11. /\ \A e \in Chans : ~Queued(e, v) /\ ~InFlight(e, v)
       /\ \A e \in Chans, r \in 0 .. Rows - 1, n \in TNs : ~Kept(e, r, n, v)
    BY <1>1 DEF Ownership, NoDangling
<1>12. NoDangling'
  <2>1. SUFFICES ASSUME NEW w \in Vecs,
                        (\/ \E e \in Chans : Queued(e, w)' \/ InFlight(e, w)'
                         \/ \E e \in Chans, r \in 0 .. Rows - 1, n \in TNs : Kept(e, r, n, w)')
                 PROVE  heap'[w] # NULL
    BY DEF NoDangling, Queued, InFlight, Kept
  <2> QED BY <2>1, <1>6, <1>8, <1>9, <1>10 DEF Ownership, NoDangling
<1>13. NoLeak'
  <2>1. SUFFICES ASSUME NEW w \in Vecs, heap'[w] # NULL
                 PROVE  \/ \E e \in Chans : Queued(e, w)' \/ InFlight(e, w)'
                        \/ \E e \in Chans, r \in 0 .. Rows - 1, n \in TNs : Kept(e, r, n, w)'
    BY DEF NoLeak, Queued, InFlight, Kept
  <2> QED BY <2>1, <1>6, <1>8, <1>9, <1>10 DEF Ownership, NoLeak
<1>14. OneOwner'
  <2>1. SUFFICES ASSUME NEW w \in Vecs
                 PROVE  /\ \A d1, e \in Chans : Queued(d1, w)' /\ Queued(e, w)' => d1 = e
                        /\ \A d1, e \in Chans : InFlight(d1, w)' /\ InFlight(e, w)' => d1 = e
                        /\ \A d1, e \in Chans, r, s \in 0 .. Rows - 1, n, m \in TNs :
                            Kept(d1, r, n, w)' /\ Kept(e, s, m, w)' => d1 = e /\ r = s /\ n = m
                        /\ \A d1, e \in Chans : ~(Queued(d1, w)' /\ InFlight(e, w)')
                        /\ \A d1, e \in Chans, r \in 0 .. Rows - 1, n \in TNs :
                            ~(Kept(d1, r, n, w)' /\ (Queued(e, w)' \/ InFlight(e, w)'))
    BY DEF OneOwner, Queued, InFlight, Kept
  <2> QED BY <1>8, <1>9, <1>10, <1>11 DEF Ownership, OneOwner
<1>15. FillerRows'
  <2>1. SUFFICES ASSUME NEW e \in Chans, NEW r \in 0 .. Rows - 1, NEW n \in TNs,
                        fillerTable[e][r][n] \in Vecs, heap'[fillerTable[e][r][n]] # NULL
                 PROVE  /\ heap'[fillerTable[e][r][n]].tn = n
                        /\ \E k \in Moduli : heap'[fillerTable[e][r][n]].fn % k = r
    BY <1>2 DEF FillerRows
  <2>2. fillerTable[e][r][n] # v
    BY <2>1, <1>11 DEF Kept
  <2>3. heap'[fillerTable[e][r][n]] = heap[fillerTable[e][r][n]]
    BY <2>1, <2>2, <1>7
  <2> QED BY <2>1, <2>3 DEF Ownership, FillerRows
<1> QED BY <1>4, <1>5, <1>12, <1>13, <1>14, <1>15 DEF Ownership

\* A stale burst goes into the filler table, or is deleted.
LEMMA DumpStaleIInv ==
    ASSUME IInv, DumpStale
    PROVE  IInv'
<1> USE DEF IInv
<1>0. chan \in Chans
    BY DEF TypeOK
<1>1. PICK v \in Top(mTxPriorityQueues[chan]) :
        /\ mTxPriorityQueues' = [mTxPriorityQueues EXCEPT ![chan] = @ \ {v}]
        /\ IF chan \in Retrans
           THEN UpdateFillerTable(chan, v)
           ELSE heap' = [heap EXCEPT ![v] = NULL] /\ UNCHANGED fillerTable
    BY DEF DumpStale
<1>2. UNCHANGED <<mOn, mTransmitDeadlineClock, slotVars, pc, txVars>>
    BY DEF DumpStale
<1>3. v \in mTxPriorityQueues[chan]
    BY TopIn
<1>4. v \in Vecs
    BY <1>0, <1>3 DEF TypeOK
<1>5. Phase'
    BY <1>2 DEF Phase, txVars
<1>6. \A c \in Chans, w \in Vecs : InFlight(c, w)' = InFlight(c, w)
    BY <1>2 DEF InFlight, txVars
<1>7. /\ mTxPriorityQueues' \in [Chans -> SUBSET Vecs]
      /\ fillerTable' \in [Chans -> [0 .. Rows - 1 -> [TNs -> Vecs \cup {GEN}]]]
      /\ heap' \in [Vecs -> Time \cup {NULL}]
      /\ Ownership'
  <2>1. CASE chan \in Retrans
    BY <2>1, <1>0, <1>1, <1>3, <1>6, TableTakesBurst
  <2>2. CASE chan \notin Retrans
    <3>1. heap' = [w \in Vecs |-> IF w \in {v} THEN NULL ELSE heap[w]] /\ UNCHANGED fillerTable
      BY <2>2, <1>1 DEF TypeOK
    <3>2. Queued(chan, v) /\ \A c \in Chans : Queued(c, v) => c = chan
      BY <1>0, <1>3, <1>4 DEF Queued, Ownership, OneOwner
    <3>3. \A c \in Chans, w \in Vecs : Queued(c, w)' <=> Queued(c, w) /\ w \notin {v}
      BY <1>0, <1>1, <3>2 DEF Queued, TypeOK
    <3>4. \A c \in Chans, w \in Vecs : InFlight(c, w)' <=> InFlight(c, w) /\ w \notin {v}
      BY <1>0, <1>4, <1>6, <3>2 DEF Ownership, OneOwner
    <3>5. \A c \in Chans, r \in 0 .. Rows - 1, n \in TNs, w \in {v} : ~Kept(c, r, n, w)
      BY <1>0, <1>4, <3>2 DEF Ownership, OneOwner
    <3>6. heap' \in [Vecs -> Time \cup {NULL}] /\ Ownership'
      BY <1>4, <3>1, <3>3, <3>4, <3>5, OwnersDelete
    <3> QED BY <1>1, <3>1, <3>6 DEF TypeOK
  <2> QED BY <2>1, <2>2
<1>8. TypeOK'
    BY <1>2, <1>7 DEF TypeOK, slotVars, txVars
<1> QED BY <1>5, <1>7, <1>8

\* The filler of the slot is read, from a row that exists.
LEMMA NoStaleIInv ==
    ASSUME IInv, NoStale
    PROVE  IInv'
<1> USE DEF IInv
<1> DEFINE now == mTransmitDeadlineClock
           b == fillerTable[chan][Row(chan, now)][now.tn]
<1>1. /\ pc = "stale" /\ pc' = "current"
      /\ bursts' = [bursts EXCEPT ![chan] = b]
      /\ zeros' = [zeros EXCEPT ![chan] = (chanType[chan][now.tn] = NONE)]
      /\ UNCHANGED <<mOn, mTransmitDeadlineClock, mTxPriorityQueues, fillerTable,
                     slotVars, heap, filler, chan>>
    BY DEF NoStale
<1>2. chan \in Chans /\ now \in Time /\ now.tn \in TNs
    BY DEF TypeOK, Time
<1>3. b \in Vecs \cup {GEN}
  <2>1. Row(chan, now) \in 0 .. Rows - 1
    BY <1>2, RowType
  <2>2. \A r \in 0 .. Rows - 1, n \in TNs : fillerTable[chan][r][n] \in Vecs \cup {GEN}
    <3>1. fillerTable \in [Chans -> [0 .. Rows - 1 -> [TNs -> Vecs \cup {GEN}]]]
      BY DEF TypeOK
    <3>2. fillerTable[chan] \in [0 .. Rows - 1 -> [TNs -> Vecs \cup {GEN}]]
      BY <1>2, <3>1
    <3> QED BY <3>2
  <2> QED BY <1>2, <2>1, <2>2, Zenon
<1> HIDE DEF b
<1>4. TypeOK'
    BY <1>1, <1>2, <1>3 DEF TypeOK, slotVars
<1>5. Phase'
    BY <1>1 DEF Phase
<1>6. filler[chan]
    BY <1>1, <1>2 DEF Phase, Chans
<1>7. \A c \in Chans, v \in Vecs : InFlight(c, v)' = InFlight(c, v)
    BY <1>1, <1>6 DEF InFlight, TypeOK
<1>8. Ownership'
    BY <1>1, <1>7, OwnersUnchanged
<1> QED BY <1>4, <1>5, <1>8

\* The channel index goes on, or the slot is complete.
LEMMA NextChanType ==
    ASSUME chan \in Chans, NextChan
    PROVE  /\ chan' \in Chans
           /\ pc' = "drive" \/ (pc' = "stale" /\ chan' = chan + 1)
BY TxAssumption DEF NextChan, Chans

\* The burst of the slot goes into the filler table, or takes off.
LEMMA TakeCurrentIInv ==
    ASSUME IInv, TakeCurrent
    PROVE  IInv'
<1> USE DEF IInv
<1>0. chan \in Chans /\ pc = "current" /\ filler[chan]
    BY DEF TypeOK, TakeCurrent, Phase, Chans
<1>1. PICK v \in Top(mTxPriorityQueues[chan]) :
        /\ mTxPriorityQueues' = [mTxPriorityQueues EXCEPT ![chan] = @ \ {v}]
        /\ bursts' = [bursts EXCEPT ![chan] = v]
        /\ IF chan \in Retrans
           THEN UpdateFillerTable(chan, v) /\ UNCHANGED filler
           ELSE filler' = [filler EXCEPT ![chan] = FALSE] /\ UNCHANGED <<fillerTable, heap>>
    BY DEF TakeCurrent
<1>2. NextChan /\ UNCHANGED <<mOn, mTransmitDeadlineClock, slotVars, zeros>>
    BY DEF TakeCurrent
<1>3. v \in mTxPriorityQueues[chan]
    BY TopIn
<1>4. v \in Vecs
    BY <1>0, <1>3 DEF TypeOK
<1>5. \A c \in Chans : c # chan => filler'[c] = filler[c]
    BY <1>0, <1>1 DEF TypeOK
<1>6. filler' \in [Chans -> BOOLEAN]
    BY <1>0, <1>1 DEF TypeOK
<1>7. Phase'
  <2>1. pc' = "drive" \/ (pc' = "stale" /\ chan' = chan + 1)
    BY <1>0, <1>2, NextChanType
  <2>2. \A c \in Chans : c >= chan + 1 => filler'[c]
    BY <1>0, <1>5 DEF Phase, Chans
  <2> QED BY <2>1, <2>2 DEF Phase
<1>8. /\ mTxPriorityQueues' \in [Chans -> SUBSET Vecs]
      /\ fillerTable' \in [Chans -> [0 .. Rows - 1 -> [TNs -> Vecs \cup {GEN}]]]
      /\ heap' \in [Vecs -> Time \cup {NULL}]
      /\ Ownership'
  <2>1. CASE chan \in Retrans
    <3>1. \A c \in Chans, w \in Vecs : InFlight(c, w)' = InFlight(c, w)
      BY <2>1, <1>0, <1>1 DEF InFlight, TypeOK
    <3> QED BY <2>1, <1>0, <1>1, <1>3, <3>1, TableTakesBurst
  <2>2. CASE chan \notin Retrans
    <3>1. Queued(chan, v) /\ \A c \in Chans : Queued(c, v) => c = chan
      BY <1>0, <1>3, <1>4 DEF Queued, Ownership, OneOwner
    <3>2. \A c \in Chans, w \in Vecs : Queued(c, w)' <=> Queued(c, w) /\ w # v
      BY <1>0, <1>1, <3>1 DEF Queued, TypeOK
    <3>3. \A c \in Chans, w \in Vecs :
            InFlight(c, w)' <=> InFlight(c, w) \/ (c = chan /\ w = v)
      BY <2>2, <1>0, <1>1 DEF InFlight, TypeOK
    <3>4. Ownership'
      BY <2>2, <1>0, <1>1, <1>4, <3>1, <3>2, <3>3, BurstTakesOff
    <3> QED BY <2>2, <1>1, <3>4 DEF TypeOK
  <2> QED BY <2>1, <2>2
<1>9. TypeOK'
  <2>1. chan' \in Chans /\ pc' \in {"wait", "stale", "current", "drive"}
    BY <1>0, <1>2, NextChanType
  <2>2. bursts' \in [Chans -> Vecs \cup {GEN, NULL}]
    BY <1>1, <1>4 DEF TypeOK
  <2> QED BY <2>1, <2>2, <1>2, <1>6, <1>8 DEF TypeOK, slotVars
<1> QED BY <1>7, <1>8, <1>9

\* The filler stays, and the owners are as they were.
LEMMA NoCurrentIInv ==
    ASSUME IInv, NoCurrent
    PROVE  IInv'
<1> USE DEF IInv
<1>0. chan \in Chans /\ pc = "current"
    BY DEF TypeOK, NoCurrent
<1>1. NextChan /\ UNCHANGED <<mOn, mTransmitDeadlineClock, mTxPriorityQueues, fillerTable,
                              slotVars, heap, bursts, zeros, filler>>
    BY DEF NoCurrent
<1>2. chan' \in Chans /\ (pc' = "drive" \/ (pc' = "stale" /\ chan' = chan + 1))
    BY <1>0, <1>1, NextChanType
<1>3. TypeOK'
    BY <1>1, <1>2 DEF TypeOK, slotVars
<1>4. Phase'
    BY <1>0, <1>1, <1>2 DEF Phase, Chans
<1>5. Ownership'
    BY <1>1, OwnersUnchanged DEF InFlight
<1> QED BY <1>3, <1>4, <1>5

\* The bursts in flight are deleted, and no owner is left behind.
LEMMA DriveTransmitRadioIInv ==
    ASSUME IInv, DriveTransmitRadio
    PROVE  IInv'
<1> USE DEF IInv
<1> DEFINE D == {v \in Vecs : \E c \in Chans : InFlight(c, v)}
<1>1. /\ heap' = [v \in Vecs |-> IF v \in D THEN NULL ELSE heap[v]]
      /\ bursts' = [c \in Chans |-> NULL]
      /\ zeros' = [c \in Chans |-> FALSE]
      /\ filler' = [c \in Chans |-> TRUE]
      /\ chan' = 0 /\ pc' = "wait"
      /\ mTransmitDeadlineClock' = IncTN(mTransmitDeadlineClock, 1)
      /\ UNCHANGED <<mOn, mTxPriorityQueues, fillerTable, slotVars>>
    BY DEF DriveTransmitRadio, InFlight
<1>2. \A c \in Chans, v \in Vecs : ~InFlight(c, v)'
    BY <1>1 DEF InFlight
<1>3. \A c \in Chans, v \in Vecs : Queued(c, v)' <=> Queued(c, v) /\ v \notin D
    BY <1>1 DEF Queued, Ownership, OneOwner
<1>4. \A c \in Chans, r \in 0 .. Rows - 1, n \in TNs, v \in D : ~Kept(c, r, n, v)
    BY DEF Ownership, OneOwner
<1>5. \A c \in Chans, v \in Vecs : InFlight(c, v)' <=> InFlight(c, v) /\ v \notin D
    BY <1>2
<1>6. D \in SUBSET Vecs
    OBVIOUS
<1> HIDE DEF D
<1>7. heap' \in [Vecs -> Time \cup {NULL}] /\ Ownership'
    BY <1>1, <1>3, <1>4, <1>5, <1>6, OwnersDelete
<1>8. TypeOK'
  <2>1. 0 \in Chans
    BY TxAssumption DEF Chans
  <2>2. mTransmitDeadlineClock' \in Time
    BY <1>1, IncTNType DEF TypeOK
  <2> QED BY <1>1, <1>7, <2>1, <2>2 DEF TypeOK, slotVars
<1>9. Phase'
    BY <1>1 DEF Phase
<1> QED BY <1>7, <1>8, <1>9

\* SETSLOT keeps every modulus among those the filler table has rows for.
LEMMA ControlIInv ==
    ASSUME IInv, NEW c \in Chans, SetSlot(c) \/ SetModulus(c)
    PROVE  IInv'
<1> USE DEF IInv
<1>1. UNCHANGED <<mOn, mTransmitDeadlineClock, mTxPriorityQueues, fillerTable, heap, pc, txVars>>
    BY DEF SetSlot, SetModulus
<1>2. Phase'
    BY <1>1 DEF Phase, txVars
<1>3. \A d \in Chans, v \in Vecs : InFlight(d, v)' = InFlight(d, v)
    BY <1>1 DEF InFlight, txVars
<1>4. Ownership'
    BY <1>1, <1>3, OwnersUnchanged
<1>5. CASE SetSlot(c)
  <2>1. /\ chanType' \in [Chans -> [TNs -> Types]]
        /\ setslot' \in [Chans -> TNs \cup {NULL}]
        /\ UNCHANGED fillerModulus
    BY <1>5 DEF SetSlot, TypeOK
  <2>2. TypeOK'
    BY <1>1, <2>1 DEF TypeOK, txVars
  <2> QED BY <2>2, <1>2, <1>4
<1>6. CASE SetModulus(c)
  <2> DEFINE n == setslot[c]
             m == ModulusOf[chanType[c][n]]
  <2>1. n \in TNs
    BY <1>6 DEF SetModulus, TypeOK
  <2>2. chanType[c][n] \in Types
    BY <2>1 DEF TypeOK
  <2>3. m # 0 => m \in Moduli
    BY <2>2, TxAssumption DEF Moduli
  <2>4. fillerModulus' = IF m = 0 THEN fillerModulus ELSE [fillerModulus EXCEPT ![c][n] = m]
    BY <1>6 DEF SetModulus
  <2> HIDE DEF m, n
  <2>5. fillerModulus' \in [Chans -> [TNs -> Moduli]]
    BY <2>1, <2>3, <2>4 DEF TypeOK
  <2>6. setslot' \in [Chans -> TNs \cup {NULL}] /\ UNCHANGED chanType
    BY <1>6 DEF SetModulus, TypeOK
  <2>7. TypeOK'
    BY <1>1, <2>5, <2>6 DEF TypeOK, txVars
  <2> QED BY <2>7, <1>2, <1>4
<1> QED BY <1>5, <1>6

\* stop() deletes exactly what the queues owned.
LEMMA PowerOffIInv ==
    ASSUME IInv, PowerOff
    PROVE  IInv'
<1> USE DEF IInv
<1> DEFINE D == {v \in Vecs : \E c \in Chans : Queued(c, v)}
<1>1. /\ heap' = [v \in Vecs |-> IF v \in D THEN NULL ELSE heap[v]]
      /\ mTxPriorityQueues' = [c \in Chans |-> {}]
      /\ mOn' = FALSE
      /\ UNCHANGED <<mTransmitDeadlineClock, fillerTable, slotVars, pc, txVars>>
    BY DEF PowerOff, Queued
<1>2. \A c \in Chans, v \in Vecs : Queued(c, v)' <=> Queued(c, v) /\ v \notin D
    BY <1>1 DEF Queued
<1>3. \A c \in Chans, v \in Vecs : InFlight(c, v)' <=> InFlight(c, v) /\ v \notin D
    BY <1>1 DEF InFlight, Ownership, OneOwner, txVars
<1>4. \A c \in Chans, r \in 0 .. Rows - 1, n \in TNs, v \in D : ~Kept(c, r, n, v)
    BY DEF Ownership, OneOwner
<1>5. D \in SUBSET Vecs
    OBVIOUS
<1> HIDE DEF D
<1>6. heap' \in [Vecs -> Time \cup {NULL}] /\ Ownership'
    BY <1>1, <1>2, <1>3, <1>4, <1>5, OwnersDelete
<1>7. TypeOK'
    BY <1>1, <1>6 DEF TypeOK, slotVars, txVars
<1>8. Phase'
    BY <1>1 DEF Phase, txVars
<1> QED BY <1>6, <1>7, <1>8

\* The steps that touch no burst vector.
LEMMA OthersIInv ==
    ASSUME IInv, PushRadioVector \/ PowerOn \/ UNCHANGED vars
    PROVE  IInv'
<1> USE DEF IInv
<1>1. /\ UNCHANGED <<mTxPriorityQueues, fillerTable, heap, slotVars, txVars>>
      /\ mOn' \in BOOLEAN /\ mTransmitDeadlineClock' \in Time
      /\ pc' = pc \/ (pc = "wait" /\ pc' = "stale")
    BY DEF PushRadioVector, PowerOn, vars, TypeOK
<1>2. TypeOK'
    BY <1>1 DEF TypeOK, slotVars, txVars
<1>3. Phase'
    BY <1>1 DEF Phase, txVars
<1>4. Ownership'
    BY <1>1, OwnersUnchanged DEF InFlight, txVars
<1> QED BY <1>2, <1>3, <1>4

\* Every step of the specification keeps the invariant.
LEMMA NextIInv == IInv /\ [Next]_vars => IInv'
<1> SUFFICES ASSUME IInv, [Next]_vars PROVE IInv'
    OBVIOUS
<1>1. CASE \E c \in Chans : AddRadioVector(c) \/ SetSlot(c) \/ SetModulus(c)
    BY <1>1, AddRadioVectorIInv, ControlIInv
<1>2. CASE TxLower
    BY <1>2, OthersIInv, DumpStaleIInv, NoStaleIInv, TakeCurrentIInv, NoCurrentIInv,
       DriveTransmitRadioIInv DEF TxLower
<1>3. CASE PowerOn \/ PowerOff \/ UNCHANGED vars
    BY <1>3, OthersIInv, PowerOffIInv
<1> QED BY <1>1, <1>2, <1>3 DEF Next

-----------------------------------------------------------------------------
(* What goes on the air *)

\* A step that leaves the channel's burst, its row of the filler table and the
\* bursts in flight alone leaves what it shows.
LEMMA ShownKept ==
    ASSUME NEW c, Shown(c), UNCHANGED mTransmitDeadlineClock,
           bursts'[c] = bursts[c], filler'[c] = filler[c], fillerTable'[c] = fillerTable[c],
           \A v \in Vecs : InFlight(c, v) => heap'[v] = heap[v]
    PROVE  Shown(c)'
<1> DEFINE b == bursts[c]
           now == mTransmitDeadlineClock
<1>1. \A r, n, v : Kept(c, r, n, v)' <=> Kept(c, r, n, v) BY DEF Kept
<1>2. InFlight(c, b)' <=> InFlight(c, b) BY DEF InFlight
<1>3. CASE b = GEN BY <1>3 DEF Shown
<1>4. CASE c \notin Retrans /\ b \in Vecs /\ InFlight(c, b) /\ heap[b] = now
  BY <1>2, <1>4 DEF Shown, InFlight
<1>5. CASE c \in Retrans /\ b \in Vecs /\ \E k \in Moduli : Kept(c, now.fn % k, now.tn, b)
  BY <1>1, <1>5 DEF Shown, Kept
<1> QED BY <1>3, <1>4, <1>5 DEF Shown

\* updateFillerTable writes into its channel's table, and deletes no burst in
\* flight.
LEMMA TableOfOthers ==
    ASSUME IInv, NEW c \in Chans, NEW v \in mTxPriorityQueues[c], UpdateFillerTable(c, v)
    PROVE  /\ \A d \in Chans : d # c => fillerTable'[d] = fillerTable[d]
           /\ \A d \in Chans, w \in Vecs : InFlight(d, w) => heap'[w] = heap[w]
           /\ fillerTable'[c][Row(c, heap[v])][heap[v].tn] = v
<1> DEFINE row == Row(c, heap[v])
           col == heap[v].tn
           old == fillerTable[c][row][col]
<1>1. v \in Vecs /\ heap[v] \in Time BY QueuedAlive DEF IInv, Ownership
<1>2. row \in 0 .. Rows - 1 /\ col \in TNs BY <1>1, RowType DEF Time, IInv
<1>3. fillerTable \in [Chans -> [0 .. Rows - 1 -> [TNs -> Vecs \cup {GEN}]]]
  BY DEF IInv, TypeOK
<1>4. fillerTable' = [fillerTable EXCEPT ![c][row][col] = v]
  BY DEF UpdateFillerTable
<1>5. heap' = IF old \in Vecs THEN [heap EXCEPT ![old] = NULL] ELSE heap
  BY DEF UpdateFillerTable
<1>6. Kept(c, row, col, old) BY DEF Kept
<1> HIDE DEF row, col, old
<1>7. \A d \in Chans, w \in Vecs : InFlight(d, w) => w # old
  BY <1>2, <1>6 DEF IInv, Ownership, OneOwner
<1>8. fillerTable'[c][row][col] = v BY <1>2, <1>3, <1>4
<1> QED BY <1>3, <1>4, <1>5, <1>7, <1>8 DEF IInv, TypeOK, row, col

LEMMA InitAirIInv == Init => AirIInv
<1> SUFFICES ASSUME Init PROVE AirIInv OBVIOUS
<1>1. pc = "wait" BY DEF Init
<1>2. Handled = {} BY <1>1 DEF Handled
<1>3. \A c \in Chans, r \in 0 .. Rows - 1, n \in TNs : fillerTable[c][r][n] = GEN
  BY DEF Init
<1> QED BY <1>1, <1>2, <1>3 DEF AirIInv

\* A burst that was just added was in flight nowhere.
LEMMA AddRadioVectorAir ==
    ASSUME IInv, AirIInv, NEW d \in Chans, AddRadioVector(d)
    PROVE  AirIInv'
<1>1. PICK v \in Vecs, o \in Offsets :
        heap[v] = NULL /\ heap' = [heap EXCEPT ![v] = SlotAt(mTransmitDeadlineClock, o)]
  BY DEF AddRadioVector
<1>2. UNCHANGED <<mOn, mTransmitDeadlineClock, fillerTable, pc, bursts, filler, chan>>
  BY DEF AddRadioVector, txVars
<1>3. \A c \in Chans, w \in Vecs : InFlight(c, w) => heap'[w] = heap[w]
  BY <1>1 DEF IInv, TypeOK, Ownership, NoDangling
<1>4. Handled' = Handled /\ Handled \subseteq Chans BY <1>2 DEF Handled, IInv, TypeOK
<1>5. \A c \in Handled : Shown(c)' BY <1>2, <1>3, <1>4, ShownKept DEF AirIInv
<1> QED BY <1>2, <1>4, <1>5 DEF AirIInv

\* The stale loop of a channel leaves the channels before it alone.
LEMMA DumpStaleAir ==
    ASSUME IInv, AirIInv, DumpStale
    PROVE  AirIInv'
<1>1. PICK v \in Top(mTxPriorityQueues[chan]) :
        IF chan \in Retrans
        THEN UpdateFillerTable(chan, v)
        ELSE heap' = [heap EXCEPT ![v] = NULL] /\ UNCHANGED fillerTable
  BY DEF DumpStale
<1>2. UNCHANGED <<mOn, mTransmitDeadlineClock, pc, bursts, filler, chan>> /\ pc = "stale"
  BY DEF DumpStale, txVars
<1>3. chan \in Chans /\ v \in mTxPriorityQueues[chan] BY TopIn DEF IInv, TypeOK
<1>4. v \in Vecs /\ Queued(chan, v) BY <1>3 DEF IInv, TypeOK, Queued
<1>5. \A c \in Chans, w \in Vecs : InFlight(c, w) => heap'[w] = heap[w]
  <2>1. CASE chan \in Retrans BY <2>1, <1>1, <1>3, TableOfOthers
  <2>2. CASE chan \notin Retrans
    <3>1. \A c \in Chans : ~InFlight(c, v) BY <1>3, <1>4 DEF IInv, Ownership, OneOwner
    <3> QED BY <2>2, <3>1, <1>1 DEF IInv, TypeOK
  <2> QED BY <2>1, <2>2
<1>6. \A c \in Chans : c # chan \/ chan \notin Retrans => fillerTable'[c] = fillerTable[c]
  BY <1>1, <1>3, TableOfOthers
<1>7. /\ Handled' = Handled
      /\ \A c \in Handled : c \in Chans /\ c # chan
  BY <1>2, <1>3 DEF Handled, Chans
<1>8. \A c \in Handled : Shown(c)' BY <1>2, <1>5, <1>6, <1>7, ShownKept DEF AirIInv
<1>9. \A c \in Chans \ Retrans : fillerTable'[c] = fillerTable[c] BY <1>3, <1>6
<1> QED BY <1>2, <1>7, <1>8, <1>9 DEF AirIInv

\* The filler that is read is what the table keeps for the slot.
LEMMA NoStaleAir ==
    ASSUME IInv, AirIInv, NoStale
    PROVE  AirIInv'
<1> DEFINE now == mTransmitDeadlineClock
           m == fillerModulus[chan][now.tn]
           b == fillerTable[chan][now.fn % m][now.tn]
<1>1. /\ pc = "stale" /\ pc' = "current"
      /\ bursts' = [bursts EXCEPT ![chan] = b]
      /\ UNCHANGED <<mOn, mTransmitDeadlineClock, fillerTable, heap, filler, chan>>
  BY DEF NoStale, Row
<1>2. chan \in Chans /\ now \in Time /\ now.tn \in TNs BY DEF IInv, TypeOK, Time
<1>0. PICK ch \in Chans : ch = chan BY <1>2
<1>3. m \in Moduli /\ now.fn % m \in 0 .. Rows - 1 BY <1>2, RowType DEF Row, IInv
<1>4. b \in Vecs \cup {GEN} /\ (chan \notin Retrans => b = GEN) /\ Kept(chan, now.fn % m, now.tn, b)
  <2>1. fillerTable \in [Chans -> [0 .. Rows - 1 -> [TNs -> Vecs \cup {GEN}]]]
    BY DEF IInv, TypeOK
  <2>2. \A c \in Chans, r \in 0 .. Rows - 1, n \in TNs : fillerTable[c][r][n] \in Vecs \cup {GEN}
    <3>1. TAKE c \in Chans, r \in 0 .. Rows - 1, n \in TNs
    <3>2. fillerTable[c] \in [0 .. Rows - 1 -> [TNs -> Vecs \cup {GEN}]] BY <2>1
    <3> QED BY <3>2
  <2> HIDE DEF m
  <2>3. b \in Vecs \cup {GEN} BY <1>2, <1>3, <2>2, Zenon
  <2>4. chan \notin Retrans => b = GEN BY <1>2, <1>3 DEF AirIInv
  <2> QED BY <2>3, <2>4 DEF Kept
<1> HIDE DEF m, b
<1>5. /\ bursts'[chan] = b
      /\ \A c \in Chans : c # chan => bursts'[c] = bursts[c]
  BY <1>1, <1>2 DEF IInv, TypeOK
<1>6. Shown(ch)'
  <2>1. bursts'[ch] = b BY <1>0, <1>5
  <2>2. CASE b = GEN BY <2>1, <2>2 DEF Shown
  <2>3. CASE b # GEN
    <3>1. b \in Vecs /\ ch \in Retrans BY <2>3, <1>0, <1>4
    <3>2. fillerTable'[ch][now.fn % m][now.tn] = b BY <1>0, <1>1, <1>4 DEF Kept
    <3> QED BY <2>1, <3>1, <3>2, <1>1, <1>3 DEF Shown, Kept
  <2> QED BY <2>2, <2>3
<1>7. \A c \in Handled : c \in Chans /\ c # chan /\ Shown(c)'
  <2>1. TAKE c \in Handled
  <2>2. c \in Chans /\ c # chan BY <1>1, <1>2 DEF Handled, Chans
  <2> QED BY <2>2, <1>1, <1>5, ShownKept DEF AirIInv
<1>8. \A c \in Handled' : c \in Handled \/ c = ch BY <1>0, <1>1, <1>2 DEF Handled, Chans
<1> QED BY <1>1, <1>6, <1>7, <1>8 DEF AirIInv

\* The channels up to this one were handled.
LEMMA NextChanHandled ==
    ASSUME chan \in Chans, pc = "current", NextChan
    PROVE  Handled' = Handled /\ Handled = {c \in Chans : c <= chan} /\ pc' # "wait"
BY TxAssumption DEF NextChan, Handled, Chans

\* The burst of the slot is in flight, or kept in the slot's row.
LEMMA TakeCurrentAir ==
    ASSUME IInv, AirIInv, TakeCurrent
    PROVE  AirIInv'
<1> DEFINE now == mTransmitDeadlineClock
<1>1. PICK v \in Top(mTxPriorityQueues[chan]) :
        /\ heap[v] = now
        /\ bursts' = [bursts EXCEPT ![chan] = v]
        /\ IF chan \in Retrans
           THEN UpdateFillerTable(chan, v) /\ UNCHANGED filler
           ELSE filler' = [filler EXCEPT ![chan] = FALSE] /\ UNCHANGED <<fillerTable, heap>>
  BY DEF TakeCurrent, Current
<1>2. NextChan /\ pc = "current" /\ UNCHANGED <<mOn, mTransmitDeadlineClock>>
  BY DEF TakeCurrent
<1>3. chan \in Chans /\ v \in mTxPriorityQueues[chan] BY TopIn DEF IInv, TypeOK
<1>4. v \in Vecs BY <1>3 DEF IInv, TypeOK
<1>5. Handled' = Handled /\ Handled = {c \in Chans : c <= chan} /\ pc' # "wait"
  BY <1>2, <1>3, NextChanHandled
<1>6. /\ bursts'[chan] = v
      /\ \A c \in Chans : c # chan => bursts'[c] = bursts[c] /\ filler'[c] = filler[c]
  BY <1>1, <1>3 DEF IInv, TypeOK
<1>7. \A c \in Chans, w \in Vecs : InFlight(c, w) => heap'[w] = heap[w]
  BY <1>1, <1>3, TableOfOthers
<1>8. \A c \in Chans : c # chan \/ chan \notin Retrans => fillerTable'[c] = fillerTable[c]
  BY <1>1, <1>3, TableOfOthers
<1>0. PICK ch \in Chans : ch = chan BY <1>3
<1>9. Shown(ch)'
  <2>0. bursts'[ch] = v BY <1>0, <1>6
  <2>1. CASE ch \in Retrans
    <3>1. fillerTable'[ch][Row(ch, now)][now.tn] = v
      BY <2>1, <1>0, <1>1, <1>3, TableOfOthers
    <3>2. fillerModulus[ch][now.tn] \in Moduli BY RowType DEF IInv, TypeOK
    <3>3. Row(ch, now) = now.fn % fillerModulus[ch][now.tn] BY DEF Row
    <3> QED BY <2>0, <2>1, <3>1, <3>2, <3>3, <1>2, <1>4 DEF Shown, Kept
  <2>2. CASE ch \notin Retrans
    <3>1. ~filler'[ch] /\ heap'[v] = heap[v] BY <2>2, <1>0, <1>1, <1>3 DEF IInv, TypeOK
    <3> QED BY <2>0, <2>2, <3>1, <1>1, <1>2, <1>4 DEF Shown, InFlight
  <2> QED BY <2>1, <2>2
<1>10. \A c \in Handled' : Shown(c)'
  <2>1. TAKE c \in Handled'
  <2>2. c \in Handled /\ c \in Chans BY <1>5
  <2>3. CASE c = chan BY <2>3, <1>0, <1>9
  <2>4. CASE c # chan BY <2>2, <2>4, <1>2, <1>6, <1>7, <1>8, ShownKept DEF AirIInv
  <2> QED BY <2>3, <2>4
<1>11. mOn' BY <1>2 DEF AirIInv
<1>12. \A c \in Chans \ Retrans : fillerTable'[c] = fillerTable[c] BY <1>3, <1>8
<1> QED BY <1>10, <1>11, <1>12 DEF AirIInv

\* The steps that touch neither the bursts of the slot nor their owners.
LEMMA OthersAir ==
    ASSUME IInv, AirIInv,
           \/ NoCurrent \/ PushRadioVector \/ DriveTransmitRadio \/ PowerOn \/ PowerOff
           \/ (\E c \in Chans : SetSlot(c) \/ SetModulus(c)) \/ UNCHANGED vars
    PROVE  AirIInv'
<1>1. UNCHANGED fillerTable
  BY DEF NoCurrent, PushRadioVector, DriveTransmitRadio, PowerOn, PowerOff, SetSlot, SetModulus,
         vars
<1>2. chan \in Chans BY DEF IInv, TypeOK
<1>3. CASE Handled' = {} /\ (~mOn' => pc' = "wait") BY <1>1, <1>3 DEF AirIInv
<1>4. CASE /\ UNCHANGED <<mOn, mTransmitDeadlineClock, fillerTable, heap, bursts, filler>>
           /\ Handled' = Handled /\ (pc' = pc \/ pc # "wait")
  <2>1. \A c \in Handled : Shown(c)' BY <1>4, ShownKept DEF AirIInv
  <2> QED BY <1>4, <2>1 DEF AirIInv
<1>5. CASE NoCurrent
  <2>1. Handled' = Handled BY <1>2, <1>5, NextChanHandled DEF NoCurrent
  <2> QED BY <1>4, <1>5, <2>1 DEF NoCurrent
<1>6. CASE PushRadioVector
  <2>1. mOn' /\ pc' = "stale" /\ chan' = 0 BY <1>6 DEF PushRadioVector, txVars, IInv, Phase
  <2>2. Handled' = {} BY <2>1 DEF Handled, Chans
  <2> QED BY <1>3, <2>1, <2>2
<1>7. CASE DriveTransmitRadio \/ PowerOff
  <2>1. pc' = "wait" BY <1>7 DEF DriveTransmitRadio, PowerOff
  <2>2. Handled' = {} BY <2>1 DEF Handled
  <2> QED BY <1>3, <2>1, <2>2
<1>8. CASE PowerOn
  <2>1. pc' = "wait" BY <1>8 DEF PowerOn, AirIInv
  <2>2. Handled' = {} BY <2>1 DEF Handled
  <2> QED BY <1>3, <2>1, <2>2
<1>9. CASE (\E c \in Chans : SetSlot(c) \/ SetModulus(c)) \/ UNCHANGED vars
  <2>1. UNCHANGED <<mOn, mTransmitDeadlineClock, fillerTable, heap, bursts, filler, pc, chan>>
    BY <1>9 DEF SetSlot, SetModulus, vars, txVars
  <2>2. Handled' = Handled BY <2>1 DEF Handled
  <2> QED BY <1>4, <2>1, <2>2
<1> QED BY <1>5, <1>6, <1>7, <1>8, <1>9

LEMMA NextAirIInv == IInv /\ AirIInv /\ [Next]_vars => AirIInv'
<1> SUFFICES ASSUME IInv, AirIInv, [Next]_vars PROVE AirIInv' OBVIOUS
<1>1. CASE \E c \in Chans : AddRadioVector(c) \/ SetSlot(c) \/ SetModulus(c)
  BY <1>1, AddRadioVectorAir, OthersAir
<1>2. CASE TxLower
  BY <1>2, DumpStaleAir, NoStaleAir, TakeCurrentAir, OthersAir DEF TxLower
<1>3. CASE PowerOn \/ PowerOff \/ UNCHANGED vars BY <1>3, OthersAir
<1> QED BY <1>1, <1>2, <1>3 DEF Next

\* A kept burst is alive, and lies in the row of its own frame.
LEMMA ShownOnAir == IInv /\ AirIInv => OnAir
<1> SUFFICES ASSUME IInv, AirIInv, pc = "drive", NEW c \in Chans, bursts[c] # GEN
             PROVE  LET now == mTransmitDeadlineClock  b == bursts[c] IN
                    /\ b \in Vecs /\ heap[b] # NULL
                    /\ heap[b].tn = now.tn
                    /\ c \notin Retrans => heap[b] = now
                    /\ \E m, k \in Moduli : heap[b].fn % m = now.fn % k
  BY DEF OnAir
<1> DEFINE now == mTransmitDeadlineClock
           b == bursts[c]
<1>1. Shown(c) BY DEF AirIInv, Handled
<1>2. CASE c \notin Retrans /\ b \in Vecs /\ InFlight(c, b) /\ heap[b] = now
  <2>1. heap[b] # NULL BY <1>2 DEF IInv, Ownership, NoDangling
  <2>2. InitModulus \in Moduli BY DEF Moduli
  <2> QED BY <1>2, <2>1, <2>2
<1>3. CASE c \in Retrans /\ b \in Vecs /\ \E k \in Moduli : Kept(c, now.fn % k, now.tn, b)
  <2>1. PICK k \in Moduli : Kept(c, now.fn % k, now.tn, b) BY <1>3
  <2>2. now.fn \in Int /\ now.tn \in TNs BY TimeAssumption DEF IInv, TypeOK, Time, FNs
  <2>3. k \in 1 .. Rows BY <2>1, ModuliRange
  <2>4. now.fn % k \in 0 .. Rows - 1
    <3>0. k \in Nat \ {0} BY <2>3, TxAssumption
    <3>1. now.fn % k \in 0 .. k - 1 BY <2>2, <3>0, ModRange, Zenon
    <3> QED BY <3>1, <2>3, TxAssumption
  <2>5. heap[b] # NULL BY <1>3, <2>1, <2>2, <2>4 DEF IInv, Ownership, NoDangling
  <2>6. heap[b].tn = now.tn /\ \E m \in Moduli : heap[b].fn % m = now.fn % k
    BY <1>3, <2>1, <2>2, <2>4, <2>5 DEF IInv, Ownership, FillerRows, Kept
  <2> QED BY <1>3, <2>1, <2>5, <2>6
<1> QED BY <1>1, <1>2, <1>3 DEF Shown
-----------------------------------------------------------------------------
(* The stale loop *)

LEMMA DistanceRange ==
    /\ Distances \subseteq Int
    /\ \A e, f \in Distances : f - e < HalfSlots
    /\ 0 \in Distances
BY TxAssumption, SpreadAssumption DEF Distances

\* A number of slots ahead of a time, around the hyperframe.
LEMMA SlotAtIs ==
    ASSUME NEW t \in Time, NEW d \in Offsets
    PROVE  SlotAt(t, d) \in Time /\ Apart(SlotAt(t, d), t, d)
<1> DEFINE x == t.fn * Slots + t.tn + d + Hyperframe * Slots
           m == x % Turn
           q == x \div Turn
           u == SlotAt(t, d)
<1>1. /\ Turn \in Nat \ {0} /\ Slots \in Nat \ {0} /\ SlotsOf(t) \in Nat
      /\ SlotsOf(t) = t.fn * Slots + t.tn /\ Turn = Hyperframe * Slots
      /\ t.fn * Slots \in Nat /\ t.tn \in Nat
  BY TimeIs, TimeSizes DEF Turn
<1>2. d \in Int /\ -d < Turn BY TxAssumption DEF Turn
<1>3. x = SlotsOf(t) + d + Turn BY <1>1
<1>4. x \in Nat
  <2> HIDE DEF x
  <2> QED BY <1>1, <1>2, <1>3
<1>5. m \in 0 .. Turn - 1 /\ x = Turn * q + m /\ q \in Nat
  <2> HIDE DEF x
  <2> QED BY <1>1, <1>4, DivMod
<1>6. u = T(m \div Slots, m % Slots) BY DEF SlotAt, Turn
<1>7. u \in Time BY <1>2, SlotAtType
<1> HIDE DEF u
<1>8. SlotsOf(u) = m
  <2>1. SlotsOf(u) = (m \div Slots) * Slots + (m % Slots) BY <1>6 DEF SlotsOf, T
  <2>2. m \in Nat BY <1>1, <1>5
  <2> HIDE DEF m
  <2>3. m = Slots * (m \div Slots) + (m % Slots) /\ m \div Slots \in Nat BY <1>1, <2>2, DivMod
  <2>4. (m \div Slots) * Slots = Slots * (m \div Slots) BY <1>1, <2>3
  <2> QED BY <2>1, <2>3, <2>4
<1> HIDE DEF m, q, x
<1>9. SlotsOf(u) - SlotsOf(t) = d + (1 - q) * Turn
  <2>1. (1 - q) * Turn = Turn - Turn * q BY <1>1, <1>5
  <2>2. Turn * q \in Int BY <1>1, <1>5
  <2> QED BY <1>1, <1>2, <1>3, <1>5, <1>8, <2>1, <2>2
<1>10. 1 - q \in Int BY <1>5
<1> QED BY <1>7, <1>9, <1>10 DEF Apart, u

\* Sets of natural numbers have a least one.
LEMMA LeastNat ==
    ASSUME NEW S \in SUBSET Nat, S # {}
    PROVE  \E n \in S : \A m \in S : n <= m
<1> DEFINE R == OpToRel(<, Nat)
<1>1. IsWellFoundedOn(R, Nat) BY NatLessThanWellFounded
<1> HIDE DEF R
<1>2. PICK n \in S : \A m \in S : ~(<<m, n>> \in R) BY <1>1, WFMin, Zenon
<1>3. \A m \in S : ~(m < n) BY <1>2 DEF R, OpToRel
<1> QED BY <1>3

\* In a queue of near bursts the comparison is that of the distances.
LEMMA NearCompared ==
    ASSUME NEW now \in Time, NEW s \in Time, NEW t \in Time, NEW d \in Int, NEW e \in Int,
           Apart(s, now, d), Apart(t, now, e),
           \E f \in Distances : d <= f, \E f \in Distances : f <= d + 1,
           \E f \in Distances : e <= f, \E f \in Distances : f <= e + 1
    PROVE  /\ GT(s, t) <=> d > e
           /\ LT(s, now) <=> d < 0
           /\ -HalfSlots <= d
<1>1. PICK f1 \in Distances : d <= f1 OBVIOUS
<1>2. PICK f2 \in Distances : f2 <= d + 1 OBVIOUS
<1>3. PICK g1 \in Distances : e <= g1 OBVIOUS
<1>4. PICK g2 \in Distances : g2 <= e + 1 OBVIOUS
<1>5. /\ f1 \in Int /\ f2 \in Int /\ g1 \in Int /\ g2 \in Int /\ HalfSlots \in Nat
      /\ f1 - g2 < HalfSlots /\ g1 - f2 < HalfSlots
      /\ f1 - 0 < HalfSlots /\ 0 - f2 < HalfSlots
  BY DistanceRange, TimeSizes
<1>6. SlotsOf(s) \in Int /\ SlotsOf(t) \in Int /\ SlotsOf(now) \in Int BY TimeIs
<1>7. Apart(now, t, -e) BY <1>6, ApartBack
<1>8. Apart(s, t, d + (-e))
  <2>1. -e \in Int OBVIOUS
  <2> QED BY <1>6, <1>7, <2>1, ApartSum, Zenon
<1> DEFINE k == d + (-e)
<1>9. k \in Int /\ -HalfSlots <= k /\ k <= HalfSlots /\ (k > 0 <=> d > e)
  BY <1>1, <1>2, <1>3, <1>4, <1>5
<1>10. -HalfSlots <= d /\ d <= HalfSlots BY <1>1, <1>2, <1>5
<1> HIDE DEF k
<1>11. GT(s, t) <=> k > 0 BY <1>8, <1>9, ComparisonExact, Zenon DEF k
<1>12. LT(s, now) <=> d < 0 BY <1>10, ComparisonExact, Zenon
<1> QED BY <1>9, <1>10, <1>11, <1>12

\* A queue of near bursts whose top is not stale has no stale burst.
LEMMA TopNotStale ==
    ASSUME IInv, QueuesNear, pc = "stale", NEW v \in Top(mTxPriorityQueues[chan]), ~Stale(v)
    PROVE  \A w \in mTxPriorityQueues[chan] : ~Stale(w)
<1> DEFINE q == mTxPriorityQueues[chan]
           now == mTransmitDeadlineClock
           Far(w, d) == /\ d \in Int /\ Apart(heap[w], now, d)
                        /\ \E f \in Distances : d <= f
                        /\ \E f \in Distances : f <= d + 1
<1>1. now \in Time /\ chan \in Chans /\ chan \in Int BY DEF IInv, TypeOK, Chans
<1>2. \A w \in q : heap[w] \in Time BY <1>1, QueuedAlive DEF IInv, Ownership
<1>3. \A w \in q : \E d : Far(w, d)
  <2>1. chan \notin Handled BY <1>1 DEF Handled
  <2>2. \A w \in q : Near(heap[w], chan \in Handled) BY <1>1 DEF QueuesNear
  <2> QED BY <2>1, <2>2 DEF Near
<1>4. ASSUME NEW w \in q, NEW x \in q, NEW d, NEW e, Far(w, d), Far(x, e)
      PROVE  /\ GT(heap[w], heap[x]) <=> d > e
             /\ Stale(w) <=> d < 0
             /\ -HalfSlots <= d
  <2>1. heap[w] \in Time /\ heap[x] \in Time BY <1>2
  <2>2. d \in Int /\ e \in Int BY <1>4
  <2> QED BY <1>1, <1>4, <2>1, <2>2, NearCompared DEF Stale
<1> HIDE DEF Far
<1>5. v \in q BY DEF Top
<1>6. \A w \in q : ~GT(heap[v], heap[w])
  <2> DEFINE S == {n \in Nat : \E w \in q : Far(w, n - HalfSlots)}
  <2>1. HalfSlots \in Nat BY TimeSizes
  <2>2. \A w \in q : \A d : Far(w, d) => d + HalfSlots \in S
    <3> SUFFICES ASSUME NEW w \in q, NEW d, Far(w, d) PROVE d + HalfSlots \in S OBVIOUS
    <3>1. d \in Int BY DEF Far
    <3>2. -HalfSlots <= d BY <1>4
    <3>3. d + HalfSlots \in Nat /\ (d + HalfSlots) - HalfSlots = d BY <2>1, <3>1, <3>2
    <3> QED BY <3>3
  <2>3. S # {} BY <1>3, <1>5, <2>2
  <2>4. S \in SUBSET Nat OBVIOUS
  <2>5. PICK n \in S : \A m \in S : n <= m
    <3> HIDE DEF S
    <3> QED BY <2>3, <2>4, LeastNat
  <2>6. PICK x \in q : Far(x, n - HalfSlots) OBVIOUS
  <2>7. \A w \in q : ~GT(heap[x], heap[w])
    <3> SUFFICES ASSUME NEW w \in q PROVE ~GT(heap[x], heap[w]) OBVIOUS
    <3>1. PICK d : Far(w, d) BY <1>3
    <3>2. n <= d + HalfSlots BY <2>2, <2>5, <3>1
    <3>3. GT(heap[x], heap[w]) <=> n - HalfSlots > d BY <1>4, <2>6, <3>1
    <3>4. d \in Int /\ n \in Int BY <2>4, <3>1 DEF Far
    <3> QED BY <2>1, <3>2, <3>3, <3>4
  <2>8. {w \in q : \A y \in q : ~GT(heap[w], heap[y])} # {} BY <2>7
  <2> QED BY <2>8 DEF Top
<1> SUFFICES ASSUME NEW w \in q PROVE ~Stale(w) OBVIOUS
<1>7. PICK d : Far(v, d) BY <1>3, <1>5
<1>8. PICK e : Far(w, e) BY <1>3
<1>9. d \in Int /\ e \in Int BY <1>7, <1>8 DEF Far
<1>10. ~(d > e) BY <1>4, <1>5, <1>6, <1>7, <1>8
<1>11. ~(d < 0) BY <1>4, <1>5, <1>7
<1>12. Stale(w) <=> e < 0 BY <1>4, <1>8
<1> QED BY <1>9, <1>10, <1>11, <1>12

\* A step that puts nothing into the queues and allocates nothing leaves the
\* times of the bursts that stay queued alone.
LEMMA QueuedKept ==
    ASSUME IInv, IInv',
           \A c \in Chans : mTxPriorityQueues'[c] \subseteq mTxPriorityQueues[c],
           \A v \in Vecs : heap'[v] \in {heap[v], NULL}
    PROVE  \A c \in Chans : \A v \in mTxPriorityQueues'[c] :
                v \in mTxPriorityQueues[c] /\ heap'[v] = heap[v]
<1> SUFFICES ASSUME NEW c \in Chans, NEW v \in mTxPriorityQueues'[c]
             PROVE  v \in mTxPriorityQueues[c] /\ heap'[v] = heap[v]
  OBVIOUS
<1>1. v \in mTxPriorityQueues[c] OBVIOUS
<1>2. v \in Vecs BY <1>1 DEF IInv, TypeOK
<1>3. heap'[v] # NULL BY <1>2 DEF IInv, Ownership, NoDangling, Queued
<1> QED BY <1>1, <1>2, <1>3

\* ... and so they are as near as they were, if neither the deadline nor the
\* channels that were passed change.
LEMMA NearKept ==
    ASSUME IInv, IInv', QueuesNear, mOn' = mOn,
           mTransmitDeadlineClock' = mTransmitDeadlineClock, Handled' = Handled,
           \A c \in Chans : mTxPriorityQueues'[c] \subseteq mTxPriorityQueues[c],
           \A v \in Vecs : heap'[v] \in {heap[v], NULL}
    PROVE  QueuesNear'
<1>1. ASSUME NEW c \in Chans, NEW v \in mTxPriorityQueues'[c]
      PROVE  Near(heap[v], c \in Handled)'
  <2>1. v \in mTxPriorityQueues[c] /\ heap'[v] = heap[v] BY <1>1, QueuedKept
  <2>2. Near(heap[v], c \in Handled) BY <2>1 DEF QueuesNear
  <2> QED BY <2>1, <2>2 DEF Near
<1>2. ~mOn' => \A c \in Chans : mTxPriorityQueues'[c] = {} BY DEF QueuesNear
<1> QED BY <1>1, <1>2 DEF QueuesNear

\* TxUpper puts a burst as far from the deadline as the BTS does.
LEMMA AddRadioVectorNear ==
    ASSUME IInv, IInv', QueuesNear, NEW c \in Chans, AddRadioVector(c)
    PROVE  QueuesNear'
<1> DEFINE now == mTransmitDeadlineClock
<1>1. PICK v \in Vecs, d \in Offsets :
        /\ heap[v] = NULL
        /\ heap' = [heap EXCEPT ![v] = SlotAt(now, d)]
        /\ mTxPriorityQueues' = [mTxPriorityQueues EXCEPT ![c] = @ \cup {v}]
  BY DEF AddRadioVector
<1>2. mOn /\ mOn' = mOn /\ now' = now /\ Handled' = Handled
  BY DEF AddRadioVector, Handled, txVars
<1>3. TypeOK /\ now \in Time BY DEF IInv, TypeOK
<1>4. ASSUME NEW e \in Chans, NEW w \in mTxPriorityQueues'[e]
      PROVE  Near(heap[w], e \in Handled)'
  <2>1. CASE w \in mTxPriorityQueues[e]
    <3>1. w \in Vecs /\ heap[w] \in Time BY <2>1, QueuedAlive DEF IInv, Ownership
    <3>2. w # v BY <1>1, <3>1, TxAssumption
    <3>3. heap'[w] = heap[w] BY <1>1, <3>1, <3>2
    <3>4. Near(heap[w], e \in Handled) BY <2>1 DEF QueuesNear
    <3> QED BY <1>2, <3>3, <3>4 DEF Near
  <2>2. CASE w \notin mTxPriorityQueues[e]
    <3>1. w = v BY <1>1, <1>3, <2>2 DEF TypeOK
    <3>2. heap'[w] = SlotAt(now, d) BY <1>1, <1>3, <3>1 DEF TypeOK
    <3>3. Apart(heap'[w], now', d) BY <1>2, <1>3, <3>2, SlotAtIs
    <3>4. d \in Int /\ d \in Distances /\ d <= d /\ d <= d + 1 BY DistanceRange DEF Distances
    <3>5. \E f \in Distances : d <= f BY <3>4
    <3>6. \E f \in Distances : IF (e \in Handled)' THEN f <= d ELSE f <= d + 1 BY <3>4
    <3> QED BY <3>3, <3>4, <3>5, <3>6, Zenon DEF Near
  <2> QED BY <2>1, <2>2
<1> QED BY <1>2, <1>4 DEF QueuesNear

\* When the stale loop ends, the bursts of the channel are at the deadline or
\* ahead of it.
LEMMA NoStaleNear ==
    ASSUME IInv, IInv', QueuesNear, NoStale
    PROVE  /\ \A w \in mTxPriorityQueues[chan] : ~Stale(w)
           /\ QueuesNear'
<1> DEFINE now == mTransmitDeadlineClock
           q == mTxPriorityQueues[chan]
<1>1. /\ pc = "stale" /\ pc' = "current" /\ chan' = chan /\ now' = now /\ mOn' = mOn
      /\ heap' = heap /\ mTxPriorityQueues' = mTxPriorityQueues
  BY DEF NoStale
<1>2. chan \in Chans /\ chan \in Int /\ now \in Time BY DEF IInv, TypeOK, Chans
<1>3. \A w \in q : ~Stale(w)
  <2>1. PICK v \in Top(q) \cup {NULL} : (v = NULL => q = {}) /\ (v # NULL => ~Stale(v))
    BY DEF NoStale
  <2>2. CASE v = NULL BY <2>1, <2>2
  <2>3. CASE v # NULL
    <3>1. v \in Top(q) /\ ~Stale(v) BY <2>1, <2>3
    <3> QED BY <1>1, <3>1, TopNotStale
  <2> QED BY <2>2, <2>3
<1>4. /\ Handled = {c \in Chans : c < chan} /\ Handled' = {c \in Chans : c <= chan}
      /\ chan \notin Handled /\ chan \in Handled'
      /\ \A c \in Chans : c # chan => (c \in Handled' <=> c \in Handled)
  BY <1>1, <1>2 DEF Handled, Chans
<1>5. ASSUME NEW c \in Chans, NEW w \in mTxPriorityQueues[c]
      PROVE  Near(heap[w], c \in Handled)'
  <2>1. Near(heap[w], c \in Handled) BY DEF QueuesNear
  <2>2. CASE c # chan
    <3>1. (c \in Handled)' <=> c \in Handled BY <1>4, <2>2
    <3> QED BY <1>1, <2>1, <3>1 DEF Near
  <2>3. CASE c = chan
    <3>1. PICK d \in Int : /\ Apart(heap[w], now, d)
                           /\ \E f \in Distances : d <= f
                           /\ \E f \in Distances : f <= d + 1
      BY <1>4, <2>1, <2>3 DEF Near
    <3>2. heap[w] \in Time BY QueuedAlive DEF IInv, Ownership
    <3>3. LT(heap[w], now) <=> d < 0 BY <1>2, <3>1, <3>2, NearCompared
    <3>4. 0 <= d BY <1>3, <2>3, <3>1, <3>3 DEF Stale
    <3>5. \E f \in Distances : IF (c \in Handled)' THEN f <= d ELSE f <= d + 1
      BY <1>4, <2>3, <3>4, DistanceRange
    <3>6. Apart(heap'[w], now', d) BY <1>1, <3>1
    <3> QED BY <3>1, <3>5, <3>6, Zenon DEF Near
  <2> QED BY <2>2, <2>3
<1>6. QueuesNear' BY <1>1, <1>5 DEF QueuesNear
<1> QED BY <1>3, <1>6

\* The deadline moves by one slot, from all bursts that were passed.
LEMMA DriveTransmitRadioNear ==
    ASSUME IInv, IInv', QueuesNear, DriveTransmitRadio
    PROVE  QueuesNear'
<1> DEFINE now == mTransmitDeadlineClock
<1>1. /\ pc = "drive" /\ pc' = "wait" /\ now' = IncTN(now, 1) /\ mOn' = mOn
      /\ mTxPriorityQueues' = mTxPriorityQueues
      /\ \A v \in Vecs : heap'[v] \in {heap[v], NULL}
  BY DEF DriveTransmitRadio
<1>2. now \in Time BY DEF IInv, TypeOK
<1>3. Handled = Chans /\ Handled' = {} BY <1>1 DEF Handled
<1>4. now' \in Time /\ Apart(now', now, 1) BY <1>1, <1>2, IncTNIs
<1>5. SlotsOf(now) \in Int /\ SlotsOf(now') \in Int BY <1>2, <1>4, TimeIs
<1>6. Apart(now, now', -1) BY <1>4, <1>5, ApartBack
<1>7. ASSUME NEW c \in Chans, NEW w \in mTxPriorityQueues'[c]
      PROVE  Near(heap[w], c \in Handled)'
  <2>1. w \in mTxPriorityQueues[c] /\ heap'[w] = heap[w] BY <1>1, QueuedKept
  <2>2. Near(heap[w], c \in Handled) BY <2>1 DEF QueuesNear
  <2>3. PICK d \in Int : /\ Apart(heap[w], now, d)
                         /\ \E f \in Distances : d <= f
                         /\ \E e \in Distances : e <= d
    BY <1>3, <2>2 DEF Near
  <2>4. heap[w] \in Time BY <2>1, QueuedAlive DEF IInv, Ownership
  <2>5. SlotsOf(heap[w]) \in Int BY <2>4, TimeIs
  <2>6. Apart(heap[w], now', d + (-1))
    <3>1. -1 \in Int OBVIOUS
    <3> QED BY <1>5, <1>6, <2>3, <2>5, <3>1, ApartSum, Zenon
  <2>7. PICK f \in Distances : d <= f BY <2>3
  <2>8. PICK e \in Distances : e <= d BY <2>3
  <2>9. /\ d + (-1) \in Int /\ d + (-1) <= f /\ e <= (d + (-1)) + 1
    BY <2>7, <2>8, DistanceRange
  <2> DEFINE k == d + (-1)
  <2>10. k \in Int /\ k <= f /\ e <= k + 1 /\ Apart(heap'[w], now', k)
    BY <2>1, <2>6, <2>9
  <2> HIDE DEF k
  <2>11. \E g \in Distances : IF (c \in Handled)' THEN g <= k ELSE g <= k + 1
    BY <1>3, <2>10
  <2> QED BY <2>7, <2>10, <2>11, Zenon DEF Near
<1> QED BY <1>1, <1>7 DEF QueuesNear

LEMMA NextQueuesNear == IInv /\ QueuesNear /\ [Next]_vars => QueuesNear'
<1> SUFFICES ASSUME IInv, QueuesNear, [Next]_vars PROVE QueuesNear' OBVIOUS
<1>1. IInv' BY NextIInv
<1>2. TypeOK /\ Phase BY DEF IInv
<1>3. ASSUME NEW c \in Chans, AddRadioVector(c) PROVE QueuesNear'
  BY <1>1, <1>3, AddRadioVectorNear
<1>4. CASE \E c \in Chans : SetSlot(c) \/ SetModulus(c)
  <2>1. UNCHANGED <<mOn, mTransmitDeadlineClock, mTxPriorityQueues, heap, pc, chan>>
    BY <1>4 DEF SetSlot, SetModulus, txVars
  <2>2. Handled' = Handled BY <2>1 DEF Handled
  <2> QED BY <1>1, <2>1, <2>2, NearKept
<1>5. CASE PushRadioVector
  <2>1. UNCHANGED <<mOn, mTransmitDeadlineClock, mTxPriorityQueues, heap, chan>>
        /\ pc = "wait" /\ pc' = "stale"
    BY <1>5 DEF PushRadioVector, txVars
  <2>2. Handled' = Handled
    <3>1. chan = 0 BY <1>2, <2>1 DEF Phase
    <3> QED BY <2>1, <3>1, TxAssumption DEF Handled, Chans
  <2> QED BY <1>1, <2>1, <2>2, NearKept
<1>6. CASE DumpStale
  <2>1. UNCHANGED <<mOn, mTransmitDeadlineClock, pc, chan>> BY <1>6 DEF DumpStale, txVars
  <2>2. Handled' = Handled BY <2>1 DEF Handled
  <2>3. \A c \in Chans : mTxPriorityQueues'[c] \subseteq mTxPriorityQueues[c]
    BY <1>2, <1>6 DEF DumpStale, TypeOK
  <2>4. \A v \in Vecs : heap'[v] \in {heap[v], NULL}
    BY <1>2, <1>6 DEF DumpStale, UpdateFillerTable, TypeOK
  <2> QED BY <1>1, <2>1, <2>2, <2>3, <2>4, NearKept
<1>7. CASE NoStale BY <1>1, <1>7, NoStaleNear
<1>8. CASE TakeCurrent
  <2>1. UNCHANGED <<mOn, mTransmitDeadlineClock>> BY <1>8 DEF TakeCurrent
  <2>2. Handled' = Handled
    <3>1. pc = "current" /\ NextChan /\ chan \in Chans BY <1>2, <1>8 DEF TakeCurrent, TypeOK
    <3> QED BY <3>1, NextChanHandled
  <2>3. \A c \in Chans : mTxPriorityQueues'[c] \subseteq mTxPriorityQueues[c]
    BY <1>2, <1>8 DEF TakeCurrent, TypeOK
  <2>4. \A v \in Vecs : heap'[v] \in {heap[v], NULL}
    BY <1>2, <1>8 DEF TakeCurrent, UpdateFillerTable, TypeOK
  <2> QED BY <1>1, <2>1, <2>2, <2>3, <2>4, NearKept
<1>9. CASE NoCurrent
  <2>1. UNCHANGED <<mOn, mTransmitDeadlineClock, mTxPriorityQueues, heap>>
    BY <1>9 DEF NoCurrent
  <2>2. Handled' = Handled
    <3>1. pc = "current" /\ NextChan /\ chan \in Chans BY <1>2, <1>9 DEF NoCurrent, TypeOK
    <3> QED BY <3>1, NextChanHandled
  <2> QED BY <1>1, <2>1, <2>2, NearKept
<1>10. CASE DriveTransmitRadio BY <1>1, <1>10, DriveTransmitRadioNear
<1>11. CASE PowerOn
  <2>1. \A c \in Chans : mTxPriorityQueues'[c] = {} BY <1>11 DEF PowerOn, QueuesNear
  <2> QED BY <2>1 DEF QueuesNear
<1>12. CASE PowerOff
  <2>1. \A c \in Chans : mTxPriorityQueues'[c] = {} BY <1>12 DEF PowerOff
  <2> QED BY <2>1 DEF QueuesNear
<1>13. CASE UNCHANGED vars
  <2>1. UNCHANGED <<mOn, mTransmitDeadlineClock, mTxPriorityQueues, heap, pc, chan>>
    BY <1>13 DEF vars, txVars
  <2>2. Handled' = Handled BY <2>1 DEF Handled
  <2> QED BY <1>1, <2>1, <2>2, NearKept
<1> QED
  BY <1>3, <1>4, <1>5, <1>6, <1>7, <1>8, <1>9, <1>10, <1>11, <1>12, <1>13 DEF Next, TxLower

\* Only the end of the stale loop takes TxLower to the current burst.
LEMMA StaleLoopStep ==
    IInv /\ QueuesNear /\ [Next]_vars =>
        [pc = "stale" /\ pc' = "current" =>
            \A v \in mTxPriorityQueues[chan] : ~Stale(v)]_vars
<1> SUFFICES ASSUME IInv, QueuesNear, Next, pc = "stale", pc' = "current"
             PROVE  \A v \in mTxPriorityQueues[chan] : ~Stale(v)
  OBVIOUS
<1>1. IInv' BY NextIInv
<1>2. NoStale
  BY DEF Next, TxLower, AddRadioVector, SetSlot, SetModulus, PushRadioVector, DumpStale,
         TakeCurrent, NoCurrent, DriveTransmitRadio, PowerOn, PowerOff
<1> QED BY <1>1, <1>2, NoStaleNear
-----------------------------------------------------------------------------
(* Theorems *)

\* The inductive invariant holds in every reachable state.
THEOREM Inductive == Spec => []IInv
BY InitIInv, NextIInv, PTL DEF Spec

\* pushRadioVector and the control threads keep every variable in its type:
\* whatever moduli SETSLOT leaves behind, the filler row of a slot exists.
THEOREM TxTypeOK == Spec => []TypeOK
<1>1. IInv => TypeOK
    BY DEF IInv
<1> QED BY Inductive, <1>1, PTL

\* Memory safety of the burst vectors: nothing queued, kept as filler or in
\* flight has been deleted.
THEOREM TxNoDangling == Spec => []NoDangling
<1>1. IInv => NoDangling
    BY DEF IInv, Ownership
<1> QED BY Inductive, <1>1, PTL

\* No burst vector is lost in a hand-over.
THEOREM TxNoLeak == Spec => []NoLeak
<1>1. IInv => NoLeak
    BY DEF IInv, Ownership
<1> QED BY Inductive, <1>1, PTL

\* No burst vector has two owners, so none is deleted or sent twice.
THEOREM TxOneOwner == Spec => []OneOwner
<1>1. IInv => OneOwner
    BY DEF IInv, Ownership
<1> QED BY Inductive, <1>1, PTL

\* A burst kept as filler lies in the column of its timeslot and in a row of
\* its frame number.
THEOREM TxFillerRows == Spec => []FillerRows
<1>1. IInv => FillerRows
    BY DEF IInv, Ownership
<1> QED BY Inductive, <1>1, PTL

\* All of it: whatever interleaves, every burst vector is owned once until it
\* is deleted, and the filler table has each in its row and column.
THEOREM TxOwnership == Spec => []Ownership
<1>1. IInv => Ownership
    BY DEF IInv
<1> QED BY Inductive, <1>1, PTL

\* driveTransmitRadio gets the generated filler, a live burst of the very slot,
\* or, where the channel retransmits, a live one of the slot's row.
THEOREM TxOnAir == Spec => []OnAir
<1>1. Init => AirIInv BY InitAirIInv
<1>2. IInv /\ AirIInv /\ [Next]_vars => AirIInv' BY NextAirIInv
<1>3. IInv /\ AirIInv => OnAir BY ShownOnAir
<1> QED BY Inductive, <1>1, <1>2, <1>3, PTL DEF Spec

\* When pushRadioVector leaves its stale loop, the channel's queue holds no
\* stale burst, although the loop looks at its top only.
THEOREM TxStaleLoopDrains == Spec => StaleLoopDrains
<1> DEFINE A == pc = "stale" /\ pc' = "current" =>
                    \A v \in mTxPriorityQueues[chan] : ~Stale(v)
<1>1. Init => QueuesNear BY DEF Init, QueuesNear
<1>2. IInv /\ QueuesNear /\ [Next]_vars => QueuesNear' BY NextQueuesNear
<1>3. IInv /\ QueuesNear /\ [Next]_vars => [A]_vars BY StaleLoopStep
<1>4. StaleLoopDrains <=> [][A]_vars BY DEF StaleLoopDrains
<1> HIDE DEF A
<1> QED BY <1>1, <1>2, <1>3, <1>4, Inductive, PTL DEF Spec
=============================================================================
