------------------------------- MODULE TxPath -------------------------------
(***************************************************************************)
(* The downlink burst path of the transceiver (Transceiver.cpp), shared by *)
(* threads that hold no common lock:                                       *)
(*   TxUpper (one per channel)  puts modulated bursts into the channel's   *)
(*                              priority queue;                            *)
(*   TxLower                    takes one burst or filler per channel for  *)
(*                              each timeslot and gives it to the radio;   *)
(*   the control threads        switch the radio on and off and set the    *)
(*                              channel combination of a slot.             *)
(* When TxLower pushes is TxTiming's subject; here it may start the next   *)
(* slot at any moment. A burst is the address of its signalVector, taken   *)
(* from the finite pool Vecs and reused after it is deleted; heap[v] is    *)
(* the time of the radioVector that carries it, or NULL while v is not     *)
(* allocated.                                                              *)
(***************************************************************************)
EXTENDS GsmTime

CONSTANTS
    NChans,         \* mChans
    Vecs,           \* addresses of burst vectors: bounds the bursts alive
    NULL,           \* no object
    GEN,            \* a filler burst generated by TransceiverState::init
    Types,          \* channel combinations
    NONE,           \* the combination of a slot that is off
    ModulusOf,      \* [Types -> Nat]: setModulus' table, 0 = leaves it alone
    InitModulus,    \* the filler modulus of a new TransceiverState (26)
    Rows,           \* rows of the filler table (102)
    Retrans,        \* channels whose filler table keeps the last bursts
    Offsets         \* how far from the deadline the BTS may place a burst

Chans == 0 .. NChans - 1
Moduli == {InitModulus} \cup ({ModulusOf[ty] : ty \in Types} \ {0})

ASSUME TxAssumption ==
    /\ NChans \in Nat \ {0}
    /\ NULL \notin Time \cup Vecs /\ GEN \notin Vecs \cup {NULL}
    /\ NONE \in Types
    /\ Rows \in Nat \ {0} /\ InitModulus \in 1 .. Rows
    /\ ModulusOf \in [Types -> 0 .. Rows]
    /\ Retrans \subseteq {0}
    /\ Offsets \subseteq Int /\ \A d \in Offsets : -d < Hyperframe * Slots

\* The BTS places bursts near the deadline: any two, and the deadline, are so
\* close that the cyclic comparison decides between them.
ASSUME SpreadAssumption == \A d, e \in Offsets \cup {0} : d - e < HalfSlots

VARIABLES
    mOn,                    \* Transceiver::mOn
    mTransmitDeadlineClock, \* the slot to push next
    mTxPriorityQueues,      \* per channel, the set of queued vectors
    fillerTable, fillerModulus, chanType,
    heap,                   \* the time of each allocated burst vector
    pc, chan,               \* where TxLower is, and its channel index
    bursts, zeros, filler,  \* the locals of pushRadioVector
    setslot                 \* the slot a control thread is about to setModulus

txVars == <<bursts, zeros, filler, chan>>
slotVars == <<fillerModulus, chanType, setslot>>
vars == <<mOn, mTransmitDeadlineClock, mTxPriorityQueues, fillerTable, slotVars,
          heap, pc, txVars>>

Init ==
    \E fn \in FNs :
        /\ mOn = FALSE
        /\ mTransmitDeadlineClock = T(fn, 0)
        /\ mTxPriorityQueues = [c \in Chans |-> {}]
        /\ fillerTable = [c \in Chans |-> [r \in 0 .. Rows - 1 |-> [n \in TNs |-> GEN]]]
        /\ fillerModulus = [c \in Chans |-> [n \in TNs |-> InitModulus]]
        /\ chanType = [c \in Chans |-> [n \in TNs |-> NONE]]
        /\ heap = [v \in Vecs |-> NULL]
        /\ pc = "wait" /\ chan = 0
        /\ bursts = [c \in Chans |-> NULL]
        /\ zeros = [c \in Chans |-> FALSE]
        /\ filler = [c \in Chans |-> TRUE]
        /\ setslot = [c \in Chans |-> NULL]
-----------------------------------------------------------------------------
(* VectorQueue: a heap ordered by operator>, each call under its own lock. *)

\* The elements mQ.top() may be. GT is cyclic, so bursts spread over more
\* than half a hyperframe need not have a least one: any may be on top then.
Top(q) ==
    LET least == {v \in q : \A w \in q : ~GT(heap[v], heap[w])} IN
    IF least = {} THEN q ELSE least

Stale(v) == LT(heap[v], mTransmitDeadlineClock)
\* Mutant of Current: only the timeslot number is compared.
CurrentSlot(v) == heap[v].tn = mTransmitDeadlineClock.tn
Current(v) == heap[v] = mTransmitDeadlineClock
-----------------------------------------------------------------------------
(* TxUpper *)

\* A burst is placed Offsets slots from the deadline, the time the clock
\* indications tell the BTS about. IncTN by one is iterated by arithmetic on
\* the slot count of the hyperframe.
SlotAt(t, d) ==
    LET n == (t.fn * Slots + t.tn + d + Hyperframe * Slots) % (Hyperframe * Slots)
    IN  T(n \div Slots, n % Slots)

\* driveTxPriorityQueue and addRadioVector, for a packet of the right length
\* and slot; the others change nothing.
AddRadioVector(c) ==
    /\ mOn
    /\ \E v \in Vecs, d \in Offsets :
        /\ heap[v] = NULL
        /\ heap' = [heap EXCEPT ![v] = SlotAt(mTransmitDeadlineClock, d)]
        /\ mTxPriorityQueues' = [mTxPriorityQueues EXCEPT ![c] = @ \cup {v}]
    /\ UNCHANGED <<mOn, mTransmitDeadlineClock, fillerTable, slotVars, pc, txVars>>
-----------------------------------------------------------------------------
(* TxLower: pushRadioVector, as the loop of driveTxFIFO calls it *)

PushRadioVector ==
    /\ pc = "wait" /\ mOn
    /\ pc' = "stale"
    /\ UNCHANGED <<mOn, mTransmitDeadlineClock, mTxPriorityQueues, fillerTable,
                   slotVars, heap, txVars>>

Row(c, t) == t.fn % fillerModulus[c][t.tn]

\* Mutant of UpdateFillerTable: the old vector is not deleted.
UpdateFillerTableLeaks(c, v) ==
    /\ fillerTable' = [fillerTable EXCEPT ![c][Row(c, heap[v])][heap[v].tn] = v]
    /\ UNCHANGED heap

\* updateFillerTable: the table takes the vector over and deletes its old one.
UpdateFillerTable(c, v) ==
    LET row == Row(c, heap[v])
        old == fillerTable[c][row][heap[v].tn]
    IN  /\ fillerTable' = [fillerTable EXCEPT ![c][row][heap[v].tn] = v]
        /\ heap' = IF old \in Vecs THEN [heap EXCEPT ![old] = NULL] ELSE heap

\* getStaleBurst returned a burst: keep it as filler, or delete it.
DumpStale ==
    /\ pc = "stale"
    /\ \E v \in Top(mTxPriorityQueues[chan]) :
        /\ Stale(v)
        /\ mTxPriorityQueues' = [mTxPriorityQueues EXCEPT ![chan] = @ \ {v}]
        /\ IF chan \in Retrans
           THEN UpdateFillerTable(chan, v)
           ELSE heap' = [heap EXCEPT ![v] = NULL] /\ UNCHANGED fillerTable
    /\ UNCHANGED <<mOn, mTransmitDeadlineClock, slotVars, pc, txVars>>

\* Mutant of NoStale: one look at the queue instead of a loop.
NoStaleOnce ==
    /\ pc = "stale" /\ pc' = "current"
    /\ bursts' = [bursts EXCEPT ![chan] =
        fillerTable[chan][Row(chan, mTransmitDeadlineClock)][mTransmitDeadlineClock.tn]]
    /\ UNCHANGED <<mOn, mTransmitDeadlineClock, mTxPriorityQueues, fillerTable,
                   slotVars, heap, zeros, filler, chan>>

\* getStaleBurst returned NULL: fall back on the filler of the slot. The
\* order of top() is fixed by the queue, so NULL needs no stale top at all.
NoStale ==
    /\ pc = "stale"
    /\ \E v \in Top(mTxPriorityQueues[chan]) \cup {NULL} :
        /\ v = NULL => mTxPriorityQueues[chan] = {}
        /\ v # NULL => ~Stale(v)
    /\ LET now == mTransmitDeadlineClock IN
        /\ bursts' = [bursts EXCEPT ![chan] = fillerTable[chan][Row(chan, now)][now.tn]]
        /\ zeros' = [zeros EXCEPT ![chan] = (chanType[chan][now.tn] = NONE)]
    /\ pc' = "current"
    /\ UNCHANGED <<mOn, mTransmitDeadlineClock, mTxPriorityQueues, fillerTable,
                   slotVars, heap, filler, chan>>

NextChan ==
    IF chan + 1 < NChans THEN pc' = "stale" /\ chan' = chan + 1
                         ELSE pc' = "drive" /\ UNCHANGED chan

\* getCurrentBurst returned a burst: it is sent in the filler's place, and
\* kept as filler where the channel retransmits.
TakeCurrent ==
    /\ pc = "current"
    /\ \E v \in Top(mTxPriorityQueues[chan]) :
        /\ Current(v)
        /\ mTxPriorityQueues' = [mTxPriorityQueues EXCEPT ![chan] = @ \ {v}]
        /\ bursts' = [bursts EXCEPT ![chan] = v]
        /\ IF chan \in Retrans
           THEN UpdateFillerTable(chan, v) /\ UNCHANGED filler
           ELSE filler' = [filler EXCEPT ![chan] = FALSE] /\ UNCHANGED <<fillerTable, heap>>
    /\ NextChan
    /\ UNCHANGED <<mOn, mTransmitDeadlineClock, slotVars, zeros>>

\* getCurrentBurst returned NULL: the filler stays.
NoCurrent ==
    /\ pc = "current"
    /\ \E v \in Top(mTxPriorityQueues[chan]) \cup {NULL} :
        /\ v = NULL => mTxPriorityQueues[chan] = {}
        /\ v # NULL => ~Current(v)
    /\ NextChan
    /\ UNCHANGED <<mOn, mTransmitDeadlineClock, mTxPriorityQueues, fillerTable,
                   slotVars, heap, bursts, zeros, filler>>

\* Mutant of DriveTransmitRadio: the deadline is not incremented.
DriveTransmitRadioNoInc ==
    /\ pc = "drive" /\ pc' = "wait" /\ chan' = 0
    /\ heap' = [v \in Vecs |-> IF \E c \in Chans : ~filler[c] /\ bursts[c] = v
                               THEN NULL ELSE heap[v]]
    /\ filler' = [c \in Chans |-> TRUE]
    /\ UNCHANGED <<mOn, mTransmitDeadlineClock, mTxPriorityQueues, fillerTable, slotVars,
                   bursts, zeros>>

\* driveTransmitRadio reads every burst; those that are no filler are
\* deleted, and the deadline moves to the next slot.
DriveTransmitRadio ==
    /\ pc = "drive"
    /\ heap' = [v \in Vecs |-> IF \E c \in Chans : ~filler[c] /\ bursts[c] = v
                               THEN NULL ELSE heap[v]]
    /\ bursts' = [c \in Chans |-> NULL]
    /\ zeros' = [c \in Chans |-> FALSE]
    /\ filler' = [c \in Chans |-> TRUE]
    /\ chan' = 0
    /\ mTransmitDeadlineClock' = IncTN(mTransmitDeadlineClock, 1)
    /\ pc' = "wait"
    /\ UNCHANGED <<mOn, mTxPriorityQueues, fillerTable, slotVars>>

TxLower == PushRadioVector \/ DumpStale \/ NoStale \/ TakeCurrent \/ NoCurrent
              \/ DriveTransmitRadio
-----------------------------------------------------------------------------
(* Control threads *)

\* SETSLOT writes chanType, then setModulus reads it again.
SetSlot(c) ==
    /\ setslot[c] = NULL
    /\ \E n \in TNs, ty \in Types :
        /\ chanType' = [chanType EXCEPT ![c][n] = ty]
        /\ setslot' = [setslot EXCEPT ![c] = n]
    /\ UNCHANGED <<mOn, mTransmitDeadlineClock, mTxPriorityQueues, fillerTable,
                   fillerModulus, heap, pc, txVars>>

SetModulus(c) ==
    /\ setslot[c] # NULL
    /\ LET n == setslot[c]
           m == ModulusOf[chanType[c][n]]
       IN  fillerModulus' = IF m = 0 THEN fillerModulus
                            ELSE [fillerModulus EXCEPT ![c][n] = m]
    /\ setslot' = [setslot EXCEPT ![c] = NULL]
    /\ UNCHANGED <<mOn, mTransmitDeadlineClock, mTxPriorityQueues, fillerTable,
                   chanType, heap, pc, txVars>>

\* start() synchronises the deadline to the radio clock, wherever that is;
\* then the device may fail to start.
PowerOn ==
    /\ ~mOn
    /\ mOn' \in BOOLEAN
    /\ mTransmitDeadlineClock' \in Time
    /\ UNCHANGED <<mTxPriorityQueues, fillerTable, slotVars, heap, pc, txVars>>

\* stop(): the workers end at their cancellation points, outside the loops
\* modelled above, and then the queues are cleared.
PowerOff ==
    /\ mOn /\ pc = "wait"
    /\ mOn' = FALSE
    /\ heap' = [v \in Vecs |-> IF \E c \in Chans : v \in mTxPriorityQueues[c]
                               THEN NULL ELSE heap[v]]
    /\ mTxPriorityQueues' = [c \in Chans |-> {}]
    /\ UNCHANGED <<mTransmitDeadlineClock, fillerTable, slotVars, pc, txVars>>
-----------------------------------------------------------------------------
Next ==
    \/ \E c \in Chans : AddRadioVector(c) \/ SetSlot(c) \/ SetModulus(c)
    \/ TxLower
    \/ PowerOn \/ PowerOff

Spec == Init /\ [][Next]_vars

\* TxLower is a real-time thread and the clock that drives it runs while the
\* radio is on: it never stops pushing (TxTiming's DeadlineAdvances).
FairSpec == Spec /\ WF_vars(TxLower)
-----------------------------------------------------------------------------
(* Properties *)

\* Every variable has its type; in particular the row of the filler table
\* that a slot selects exists, whatever moduli SETSLOT has left behind.
TypeOK ==
    /\ mOn \in BOOLEAN /\ mTransmitDeadlineClock \in Time
    /\ mTxPriorityQueues \in [Chans -> SUBSET Vecs]
    /\ fillerTable \in [Chans -> [0 .. Rows - 1 -> [TNs -> Vecs \cup {GEN}]]]
    /\ fillerModulus \in [Chans -> [TNs -> Moduli]]
    /\ chanType \in [Chans -> [TNs -> Types]]
    /\ heap \in [Vecs -> Time \cup {NULL}]
    /\ pc \in {"wait", "stale", "current", "drive"} /\ chan \in Chans
    /\ bursts \in [Chans -> Vecs \cup {GEN, NULL}]
    /\ zeros \in [Chans -> BOOLEAN] /\ filler \in [Chans -> BOOLEAN]
    /\ setslot \in [Chans -> TNs \cup {NULL}]

\* The three places that own a burst vector.
Queued(c, v) == v \in mTxPriorityQueues[c]
Kept(c, r, n, v) == fillerTable[c][r][n] = v
InFlight(c, v) == ~filler[c] /\ bursts[c] = v

\* Manual memory management of pushRadioVector, updateFillerTable, stop():
\* nothing that is queued, kept as filler or in flight has been deleted.
NoDangling ==
    \A v \in Vecs :
        (\/ \E c \in Chans : Queued(c, v) \/ InFlight(c, v)
         \/ \E c \in Chans, r \in 0 .. Rows - 1, n \in TNs : Kept(c, r, n, v))
        => heap[v] # NULL

\* ... and a vector that was not deleted still has an owner: the hand-over
\* from the queue to the table or to the caller loses none.
NoLeak ==
    \A v \in Vecs : heap[v] # NULL =>
        \/ \E c \in Chans : Queued(c, v) \/ InFlight(c, v)
        \/ \E c \in Chans, r \in 0 .. Rows - 1, n \in TNs : Kept(c, r, n, v)

\* ... and only one, so that no vector is deleted twice or sent twice.
OneOwner ==
    \A v \in Vecs :
        /\ \A c, d \in Chans : Queued(c, v) /\ Queued(d, v) => c = d
        /\ \A c, d \in Chans : InFlight(c, v) /\ InFlight(d, v) => c = d
        /\ \A c, d \in Chans, r, s \in 0 .. Rows - 1, n, m \in TNs :
            Kept(c, r, n, v) /\ Kept(d, s, m, v) => c = d /\ r = s /\ n = m
        /\ \A c, d \in Chans : ~(Queued(c, v) /\ InFlight(d, v))
        /\ \A c, d \in Chans, r \in 0 .. Rows - 1, n \in TNs :
            ~(Kept(c, r, n, v) /\ (Queued(d, v) \/ InFlight(d, v)))

\* What driveTransmitRadio gets for the deadline slot: the generated filler,
\* or a live burst of this very slot; where the channel retransmits, of this
\* timeslot number, in a frame of the same row under moduli the slot has had.
OnAir ==
    pc = "drive" => \A c \in Chans :
        LET now == mTransmitDeadlineClock  b == bursts[c] IN
        \/ b = GEN
        \/ /\ b \in Vecs /\ heap[b] # NULL
           /\ heap[b].tn = now.tn
           /\ c \notin Retrans => heap[b] = now
           /\ \E m, k \in Moduli : heap[b].fn % m = now.fn % k

\* The filler table: a kept burst lies in the column of its timeslot, in the
\* row of its frame under a modulus the slot has had.
FillerRows ==
    \A c \in Chans, r \in 0 .. Rows - 1, n \in TNs :
        LET b == fillerTable[c][r][n] IN
        b \in Vecs /\ heap[b] # NULL =>
            heap[b].tn = n /\ \E m \in Moduli : heap[b].fn % m = r

\* The burst vectors are owned: whoever of TxUpper, TxLower, SETSLOT and
\* stop() comes first, each is in one place that may use it, or deleted.
Ownership == NoDangling /\ NoLeak /\ OneOwner /\ FillerRows

\* When pushRadioVector leaves its stale loop, no stale burst was left in the
\* queue to hide the current one.
StaleLoopDrains ==
    [][pc = "stale" /\ pc' = "current" =>
        \A v \in mTxPriorityQueues[chan] : ~Stale(v)]_vars

\* driveTxFIFO: filler goes out only if the queue has no burst for the slot.
\* Does not hold: a late burst that TxUpper writes between the stale loop and
\* getCurrentBurst hides the current one.
FillerOnlyIfNoBurst ==
    [][pc = "current" /\ pc' # "current" =>
        \/ bursts'[chan] # NULL /\ bursts'[chan] \in mTxPriorityQueues[chan]
        \/ \A v \in mTxPriorityQueues[chan] : ~Current(v)]_vars

\* A queued burst leaves its queue: it is sent, kept as filler or dropped.
QueueDrains ==
    \A c \in Chans, v \in Vecs : Queued(c, v) ~> ~Queued(c, v)
=============================================================================
