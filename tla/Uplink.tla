------------------------------- MODULE Uplink -------------------------------
(***************************************************************************)
(* The uplink: RxLower pulls chunks of samples from the device into the    *)
(* channels' rings, cuts them into bursts and puts those into the receive  *)
(* FIFOs (RadioInterface::driveReceiveRadio, pullBuffer); one RxUpper per  *)
(* channel takes them out and detects and demodulates them                 *)
(* (Transceiver::pullRadioVector, driveReceiveFIFO). Lifecycle shows that  *)
(* start() and stop() run while no worker does. A burst is its time and    *)
(* the place of its first sample; what detection finds is a choice.        *)
(***************************************************************************)
EXTENDS GsmTime, Sequences, FiniteSets

CONSTANTS
    Chans,
    SlotSymbols,    \* symbols of a short slot (156)
    NumChunks,      \* chunks in a ring (NUMCHUNKS)
    FifoLimit,      \* bursts in a receive FIFO (32)
    receiveOffset,  \* slots by which the receive clock is behind
    NoiseCnt,       \* bursts in the noise average (NOISE_CNT)
    IdleTNs,        \* the timeslots in which expectedCorrType() says IDLE
    MaxSessions, MaxPulls   \* bounds: starts, and chunks in all of them

ASSUME UplinkAssumption ==
    /\ 0 \in Chans /\ SlotSymbols \in Nat \ {0, 1} /\ NumChunks \in Nat \ {0, 1}
    /\ {FifoLimit, NoiseCnt} \subseteq Nat \ {0} /\ receiveOffset \in 0 .. Slots
    /\ Slots % 4 = 0                        \* the pattern of BurstSize fits a frame
    /\ {MaxSessions, MaxPulls} \subseteq Nat

VARIABLES
    mSPSRx, mOn, mClock,
    avail,          \* samples in a channel's ring
    rcvClock, recvSz,       \* of driveReceiveRadio(); recvSz is 0 outside of it
    readTimestamp,  \* samples read from the device since start()
    pulls, session, \* for the bounds and the history
    mReceiveFIFO,
    upper,          \* the burst an RxUpper works on, or none
    noises, itr,    \* noiseVector: its levels (as the bursts' slot numbers)
    \* history: slots formed since start(), the receive clock then, the last
    \* burst each RxUpper was done with, the last idle bursts it saw
    formed, first, done, idles

vars == <<mSPSRx, mOn, mClock, avail, rcvClock, recvSz, readTimestamp, pulls, session,
          mReceiveFIFO, upper, noises, itr, formed, first, done, idles>>
rxVars == <<mReceiveFIFO, upper, noises, itr, done, idles>>

NoBurst == [t |-> T(0, 0), at |-> -1, n |-> 0, s |-> 0]

Init ==
    /\ mSPSRx \in {1, 4} /\ mOn = FALSE
    /\ mClock = T(0, 0) /\ avail = [c \in Chans |-> 0] /\ readTimestamp = 0
    /\ rcvClock = T(0, 0) /\ recvSz = 0
    /\ pulls = 0 /\ session = 0
    /\ mReceiveFIFO = [c \in Chans |-> <<>>] /\ upper = [c \in Chans |-> NoBurst]
    /\ noises = [c \in Chans |-> [i \in 0 .. NoiseCnt - 1 |-> 0]] /\ itr = [c \in Chans |-> 0]
    /\ formed = 0 /\ first = T(0, 0)
    /\ done = [c \in Chans |-> NoBurst] /\ idles = [c \in Chans |-> <<>>]
-----------------------------------------------------------------------------
Chunk == (4 * SlotSymbols + 1) * mSPSRx         \* CHUNK * mSPSRx

RingLen == NumChunks * Chunk

\* Mutant of BurstSize: every slot is a short one.
BurstSizeShort(t) == IF mSPSRx = 4 THEN 4 * SlotSymbols + 1 ELSE SlotSymbols

\* The repeating pattern of 157-156-156-156 symbols, or 625 samples.
BurstSize(t) ==
    IF mSPSRx = 4 THEN 4 * SlotSymbols + 1
    ELSE SlotSymbols + (IF t.tn % 4 = 0 THEN 1 ELSE 0)

\* RadioInterface::start(): the rings are emptied; the clock and the receive
\* FIFOs are not touched.
Start ==
    /\ ~mOn /\ session < MaxSessions
    /\ mOn' = TRUE /\ session' = session + 1
    /\ avail' = [c \in Chans |-> 0] /\ readTimestamp' = 0
    /\ formed' = 0 /\ first' = DecTN(mClock, receiveOffset)
    /\ UNCHANGED <<mSPSRx, mClock, rcvClock, recvSz, pulls>> /\ UNCHANGED rxVars

\* stop(): RxUpper is cancelled between two bursts, or in one, which is lost.
Stop ==
    /\ mOn /\ recvSz = 0
    /\ mOn' = FALSE
    /\ upper' = [c \in Chans |-> NoBurst]
    /\ UNCHANGED <<mSPSRx, mClock, avail, rcvClock, recvSz, readTimestamp, pulls, session,
                   mReceiveFIFO, noises, itr, formed, first, done, idles>>
-----------------------------------------------------------------------------
(* RxLower *)

FreeSegments == (RingLen - avail[0]) \div Chunk

\* unRadioifyVector: the burst's samples leave the ring, or fill nothing.
Taken(a, size) == IF size > a THEN a ELSE a - size

\* The burst that is formed for the channel c, from its place in its ring.
Burst(c) == [t |-> rcvClock, at |-> readTimestamp - avail[c], n |-> formed, s |-> session]

\* Mutant of Kept: a new burst takes the place of the oldest.
KeptShifts(c) ==
    LET q == mReceiveFIFO[c]
    IN  IF Len(q) < FifoLimit THEN Append(q, Burst(c)) ELSE <<Burst(c)>> \o Tail(q)

\* The FIFO takes the burst, which is deleted when the FIFO is full.
Kept(c) ==
    IF Len(mReceiveFIFO[c]) < FifoLimit THEN Append(mReceiveFIFO[c], Burst(c)) ELSE mReceiveFIFO[c]

\* driveReceiveRadio(): pullBuffer() reads a chunk for every channel.
DriveReceiveRadio ==
    /\ mOn /\ recvSz = 0 /\ pulls < MaxPulls
    /\ FreeSegments > 0
    /\ readTimestamp' = readTimestamp + Chunk
    /\ avail' = [c \in Chans |-> avail[c] + Chunk]
    /\ rcvClock' = DecTN(mClock, receiveOffset)
    /\ recvSz' = avail'[0]
    /\ pulls' = pulls + 1
    /\ UNCHANGED <<mSPSRx, mOn, mClock, session, formed, first>> /\ UNCHANGED rxVars

\* One round of its loop: a burst of every channel.
FormBurst ==
    /\ recvSz > BurstSize(rcvClock)
    /\ avail' = [c \in Chans |-> Taken(avail[c], BurstSize(rcvClock))]
    /\ mReceiveFIFO' = [c \in Chans |-> Kept(c)]
    /\ mClock' = IncTN(mClock, 1) /\ rcvClock' = IncTN(rcvClock, 1)
    /\ recvSz' = recvSz - BurstSize(rcvClock)
    /\ formed' = formed + 1
    /\ UNCHANGED <<mSPSRx, mOn, readTimestamp, pulls, session, first,
                   upper, noises, itr, done, idles>>

\* A burst needs more samples than its size: the rest waits in the rings.
Received ==
    /\ recvSz > 0 /\ recvSz <= BurstSize(rcvClock)
    /\ recvSz' = 0
    /\ UNCHANGED <<mSPSRx, mOn, mClock, avail, rcvClock, readTimestamp, pulls,
                   session, formed, first>>
    /\ UNCHANGED rxVars

\* pullBuffer() fails: no free segment, or readSamples() returned less. The
\* stop of the process is requested, and until it comes (Stop) the loop tries
\* again for the same samples: nothing of this is changed.
ReceiveFails == mOn /\ recvSz = 0 /\ UNCHANGED vars
-----------------------------------------------------------------------------
(* RxUpper *)

\* The blocking read of the FIFO.
PullRadioVector(c) ==
    /\ mOn /\ upper[c] = NoBurst /\ mReceiveFIFO[c] # <<>>
    /\ upper' = [upper EXCEPT ![c] = Head(mReceiveFIFO[c])]
    /\ mReceiveFIFO' = [mReceiveFIFO EXCEPT ![c] = Tail(@)]
    /\ UNCHANGED <<mSPSRx, mOn, mClock, avail, rcvClock, recvSz, readTimestamp, pulls, session,
                   noises, itr, formed, first, done, idles>>

\* noiseVector::insert
insert(c, v) ==
    LET i == IF itr[c] >= NoiseCnt THEN 0 ELSE itr[c]
    IN  /\ noises' = [noises EXCEPT ![c][i] = v]
        /\ itr' = [itr EXCEPT ![c] = i + 1]

\* The rest of pullRadioVector and driveReceiveFIFO, by what the burst is: a
\* slot that is off, or nothing (or clipping) detected, or a burst, which is
\* sent to the BTS; or an idle slot, which counts for the noise level.
HandleBurst(c) ==
    LET idle == upper[c].t.tn \in IdleTNs IN
    /\ mOn /\ upper[c] # NoBurst
    /\ IF idle THEN insert(c, upper[c].n + 1) ELSE UNCHANGED <<noises, itr>>
    /\ idles' = IF idle THEN [idles EXCEPT ![c] = Append(IF Len(@) < NoiseCnt THEN @ ELSE Tail(@),
                                                         upper[c].n + 1)]
                        ELSE idles
    /\ done' = [done EXCEPT ![c] = upper[c]]
    /\ upper' = [upper EXCEPT ![c] = NoBurst]
    /\ UNCHANGED <<mSPSRx, mOn, mClock, avail, rcvClock, recvSz, readTimestamp, pulls, session,
                   mReceiveFIFO, formed, first>>
-----------------------------------------------------------------------------
\* Mutant of RxUpper: a full FIFO is only looked at again when it is not full.
RxUpperIdle(c) == (Len(mReceiveFIFO[c]) < FifoLimit /\ PullRadioVector(c)) \/ HandleBurst(c)

RxUpper(c) == PullRadioVector(c) \/ HandleBurst(c)

Next ==
    \/ Start \/ Stop \/ DriveReceiveRadio \/ FormBurst \/ Received \/ ReceiveFails
    \/ \E c \in Chans : RxUpper(c)

Spec == Init /\ [][Next]_vars

\* The RxUpper threads are scheduled.
FairSpec == Spec /\ \A c \in Chans : WF_vars(RxUpper(c))
-----------------------------------------------------------------------------
(* Properties *)

\* Every variable has its type; a FIFO keeps its limit.
TypeOK ==
    /\ mClock \in Time /\ first \in Time
    /\ \A c \in Chans : /\ Len(mReceiveFIFO[c]) <= FifoLimit /\ itr[c] \in 0 .. NoiseCnt
                        /\ avail[c] \in 0 .. RingLen

Bursts(c) == {mReceiveFIFO[c][i] : i \in 1 .. Len(mReceiveFIFO[c])}

\* A burst starts where its slot does: however many slots were formed and
\* whatever slot the session began with, the place of a burst is within a
\* symbol of its slot's number times 156.25 symbols, and its time is that
\* of its slot. Bursts that were dropped make no difference.
InItsSlot ==
    \A c \in Chans : \A b \in Bursts(c) :
        LET d == 4 * b.at - (4 * SlotSymbols + 1) * mSPSRx * b.n
        IN  /\ d \in -3 * mSPSRx .. 3 * mSPSRx
            /\ b.s = session =>
                 b.t = IncTN(T((first.fn + (b.n \div Slots)) % Hyperframe, first.tn), b.n % Slots)

\* The rings of all channels are cut at the same places, although the size
\* of the first one decides for all, and there is always room for a chunk.
RingsInStep == /\ \A c \in Chans : avail[c] = avail[0]
               /\ recvSz = 0 => FreeSegments > 0

\* An RxUpper is done with bursts in the order of the air, also across a
\* restart, which leaves bursts of the old session in the FIFO.
HandledInOrder ==
    [][\A c \in Chans : done'[c] # done[c] =>
        \/ done'[c].s > done[c].s
        \/ done'[c].s = done[c].s /\ (done[c] = NoBurst \/ done'[c].n > done[c].n)]_vars

\* The noise level is the average of the last idle bursts, no older ones.
NoiseIsRecent ==
    \A c \in Chans : Len(idles[c]) = NoiseCnt =>
        \A v \in {idles[c][i] : i \in 1 .. NoiseCnt} :
            Cardinality({i \in 0 .. NoiseCnt - 1 : noises[c][i] = v})
                = Cardinality({i \in 1 .. NoiseCnt : idles[c][i] = v})

\* What pullRadioVector hands on is in time: bursts in their slots, the
\* channels in step, a noise level that is recent.
UplinkInv == TypeOK /\ InItsSlot /\ RingsInStep /\ NoiseIsRecent

\* A burst that is in a FIFO when the radio runs on is dealt with.
FifoDrains == \A c \in Chans : mReceiveFIFO[c] # <<>> ~> (mReceiveFIFO[c] = <<>> \/ ~mOn)
=============================================================================
