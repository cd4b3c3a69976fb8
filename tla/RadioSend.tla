----------------------------- MODULE RadioSend -----------------------------
(***************************************************************************)
(* The sending half of the three radio interfaces: what they allocate in   *)
(* init() and give back in close(), and how TxLower's bursts go through    *)
(* the channels' rings into segments of the size the device takes          *)
(* (radioInterface.cpp, radioInterfaceResamp.cpp, radioInterfaceMulti.cpp).*)
(* Rings are counted in samples, RadioBuffer has their contents; the       *)
(* device's answer to a write is a choice. TxTiming has the underrun flag. *)
(***************************************************************************)
EXTENDS Integers, FiniteSets

CONSTANTS
    Types,          \* the device types tried: NORMAL, RESAMP_64M, RESAMP_100M, MULTI_ARFCN
    ChanCounts,     \* the numbers of channels tried
    MCHANS,
    Failing,        \* the types whose device may fail or shorten a write
    StartTimestamp, \* initialWriteTimestamp()
    MaxBursts       \* bound: bursts per start

\* What the constants are; assumed where the module is instantiated.
SendAssumption ==
    /\ Types \subseteq {"NORMAL", "RESAMP_64M", "RESAMP_100M", "MULTI_ARFCN"}
    /\ ChanCounts \subseteq Nat /\ {MCHANS, MaxBursts} \subseteq Nat \ {0}
    /\ Failing \subseteq Types /\ StartTimestamp \in Nat

VARIABLES
    type, mChans, mSPSTx, mSPSRx,
    ready,          \* what the last of init() and close() left
    heap,           \* the objects allocated and not yet deleted
    sendBuffer, recvBuffer,     \* the vectors of rings, as sets
    mOn, pushing,   \* pushing: driveTransmitRadio() is in its loop
    avail,          \* samples in a channel's send ring
    writeTimestamp,
    tn, bursts,     \* the next burst's timeslot, bursts driven since start()
    taken,          \* samples taken out of channel 0's ring since start()
    dropped,        \* some ring refused a burst, or had no segment
    last            \* the last write: the place of its first sample, its timestamp

cfgVars == <<type, mChans, mSPSTx, mSPSRx>>
memVars == <<ready, heap, sendBuffer, recvBuffer>>
runVars == <<mOn, pushing, avail, writeTimestamp, tn, bursts, taken, dropped, last>>
vars == <<cfgVars, memVars, runVars>>

Empty == [c \in {} |-> 0]

\* makeRadioInterface(): a resampling interface has one channel, and only
\* what transmits at four samples per symbol is multi-carrier.
Init ==
    /\ type \in Types
    /\ mChans \in (IF type \in {"RESAMP_64M", "RESAMP_100M"} THEN {1} ELSE ChanCounts)
    /\ mSPSTx \in {1, 4} /\ mSPSRx \in {1, 4} /\ mSPSRx <= mSPSTx
    /\ type = "MULTI_ARFCN" => mSPSTx = 4 /\ mSPSRx = 4
    /\ ready = "closed" /\ heap = {} /\ sendBuffer = {} /\ recvBuffer = {}
    /\ mOn = FALSE /\ pushing = FALSE /\ avail = Empty /\ writeTimestamp = 0
    /\ tn = 0 /\ bursts = 0 /\ taken = 0 /\ dropped = FALSE
    /\ last = [at |-> 0, ts |-> StartTimestamp]
-----------------------------------------------------------------------------
\* resamp_inrate and resamp_outrate, RESAMP_INRATE and RESAMP_OUTRATE.
Rates ==
    CASE type = "NORMAL"      -> <<1, 1>>
      [] type = "RESAMP_64M"  -> <<65, 96>>
      [] type = "RESAMP_100M" -> <<52, 75>>
      [] type = "MULTI_ARFCN" -> <<65, 48>>

\* A segment of a send ring, and the samples the device is given for it.
SegmentLen ==
    CASE type = "NORMAL"      -> 625 * mSPSTx
      [] type = "MULTI_ARFCN" -> Rates[1] * 4
      [] OTHER                -> Rates[1] * 4 * mSPSRx

OutLen ==
    CASE type = "NORMAL"      -> SegmentLen
      [] type = "MULTI_ARFCN" -> MCHANS * Rates[2] * 4
      [] OTHER                -> Rates[2] * 4 * mSPSRx

NUMCHUNKS == IF type = "NORMAL" THEN 4 ELSE 24
BufferLen == NUMCHUNKS * SegmentLen

\* The bursts TxLower drives: 625 samples, or symbols in the pattern of slots.
BurstLen == IF mSPSTx = 4 THEN 625 ELSE 156 + (IF tn % 4 = 0 THEN 1 ELSE 0)

EachChan(kind) == {kind} \X (0 .. mChans - 1)

\* The objects of the interface itself (resamplers, filter banks, outer and
\* conversion buffers); close() deletes every one.
OwnObjects ==
    CASE type = "NORMAL"      -> {"convert"} \X (0 .. mChans - 1)
      [] type = "MULTI_ARFCN" -> {"dnsampler", "upsampler", "channelizer", "synthesis",
                                  "outerSend", "outerRecv", "convert"} \X {0}
      [] OTHER                -> {"dnsampler", "upsampler", "outerSend", "outerRecv",
                                  "convert"} \X {0}

\* close(): Resamp forgets its two rings before the base class can delete
\* them, Multi its history vectors.
Closed(h) ==
    (h \ OwnObjects) \
    (IF type \in {"NORMAL", "MULTI_ARFCN"} THEN sendBuffer \cup recvBuffer ELSE {})

\* ~RadioInterface()
Close ==
    /\ ~mOn /\ heap # {}
    /\ heap' = Closed(heap)
    /\ ready' = "closed" /\ sendBuffer' = {} /\ recvBuffer' = {}
    /\ avail' = Empty
    /\ UNCHANGED cfgVars
    /\ UNCHANGED <<mOn, pushing, writeTimestamp, tn, bursts, taken, dropped, last>>

\* The conditions under which init() returns false before it closes anything.
Rejected ==
    \/ type = "NORMAL" /\ mChans = 0
    \/ type = "MULTI_ARFCN" /\ (mChans > MCHANS - 1 \/ BufferLen < 625 * 2)

\* Multi finds that it has no channels last, with the rest allocated. New
\* objects have the names of old ones: a second leak of a name is not seen.
init ==
    /\ ~mOn /\ ready # "yes" /\ ~Rejected
    /\ heap' = Closed(heap) \cup OwnObjects \cup EachChan("send") \cup EachChan("recv")
                \cup (IF type = "MULTI_ARFCN" THEN EachChan("history") ELSE {})
    /\ sendBuffer' = EachChan("send") /\ recvBuffer' = EachChan("recv")
    /\ avail' = [c \in 0 .. mChans - 1 |-> 0]
    /\ ready' = IF mChans > 0 THEN "yes" ELSE "failed"
    /\ UNCHANGED cfgVars
    /\ UNCHANGED <<mOn, pushing, writeTimestamp, tn, bursts, taken, dropped, last>>

\* start() empties the rings and reads the device's timestamp.
Start ==
    /\ ready = "yes" /\ ~mOn
    /\ mOn' = TRUE /\ writeTimestamp' = StartTimestamp
    /\ avail' = [c \in DOMAIN avail |-> 0]
    /\ bursts' = 0 /\ taken' = 0 /\ last' = [at |-> 0, ts |-> StartTimestamp]
    /\ UNCHANGED <<cfgVars, memVars, pushing, tn, dropped>>

Stop ==
    /\ mOn /\ ~pushing /\ mOn' = FALSE
    /\ UNCHANGED <<cfgVars, memVars, pushing, avail, writeTimestamp, tn, bursts, taken, dropped, last>>

\* Mutant of Radioify: the rings take what does not fit, and nothing is pushed.
RadioifyUnchecked ==
    /\ mOn /\ ~pushing /\ bursts < MaxBursts
    /\ avail' = [c \in DOMAIN avail |-> avail[c] + 4 * BufferLen]
    /\ pushing' = TRUE /\ bursts' = bursts + 1 /\ tn' = (tn + 1) % 8
    /\ UNCHANGED <<cfgVars, memVars, mOn, writeTimestamp, taken, dropped, last>>

\* radioifyVector() of every channel; write() and zero() refuse what does not
\* fit, and nobody looks at their answer.
Radioify ==
    LET fits(c) == avail[c] + BurstLen <= BufferLen
    IN  /\ mOn /\ ~pushing /\ bursts < MaxBursts
        /\ avail' = [c \in DOMAIN avail |-> avail[c] + (IF fits(c) THEN BurstLen ELSE 0)]
        /\ dropped' = (dropped \/ \E c \in DOMAIN avail : ~fits(c))
        /\ pushing' = TRUE /\ bursts' = bursts + 1 /\ tn' = (tn + 1) % 8
        /\ UNCHANGED <<cfgVars, memVars, mOn, writeTimestamp, taken, last>>

\* Mutant of Advance: the samples of the ring are counted, not the device's.
AdvanceInner(n) == SegmentLen

\* What the interface adds to the timestamp when the device says it wrote n.
\* As a size_t, -1 takes one from the 64 bits of the timestamp.
Advance(n) == IF type \in {"RESAMP_64M", "RESAMP_100M"} THEN OutLen ELSE n

Answers == IF type \in Failing THEN {OutLen, OutLen - 1, 0, -1} ELSE {OutLen}

\* pushBuffer(): only channel 0's ring is asked for a segment.
PushBuffer ==
    /\ pushing /\ avail[0] >= SegmentLen
    /\ avail' = [c \in DOMAIN avail |->
                    IF avail[c] >= SegmentLen THEN avail[c] - SegmentLen ELSE avail[c]]
    /\ dropped' = (dropped \/ \E c \in DOMAIN avail : avail[c] < SegmentLen)
    /\ last' = [at |-> taken, ts |-> writeTimestamp]
    /\ taken' = taken + SegmentLen
    /\ \E n \in Answers : writeTimestamp' = writeTimestamp + Advance(n)
    /\ UNCHANGED <<cfgVars, memVars, mOn, pushing, tn, bursts>>

Pushed ==
    /\ pushing /\ avail[0] < SegmentLen /\ pushing' = FALSE
    /\ UNCHANGED <<cfgVars, memVars, mOn, avail, writeTimestamp, tn, bursts, taken, dropped, last>>

Next == init \/ Close \/ Start \/ Stop \/ Radioify \/ PushBuffer \/ Pushed

Spec == Init /\ [][Next]_vars
-----------------------------------------------------------------------------
\* Every variable has its type; the rings hold what their sizes allow.
TypeOK ==
    /\ mOn \in BOOLEAN /\ pushing \in BOOLEAN /\ dropped \in BOOLEAN /\ ready \in {"closed", "failed", "yes"}
    /\ \A c \in DOMAIN avail : avail[c] \in 0 .. BufferLen
    /\ tn \in 0 .. 7 /\ bursts \in 0 .. MaxBursts /\ taken \in Nat /\ writeTimestamp \in Int

\* The timestamp the device is given with a segment is the time of the
\* segment's first sample: as far from the start as the samples before it
\* are, at the device's rate. Every interface keeps its own count.
\* Does not hold if writes of the normal interface fail: pushBuffer adds their
\* result.
SegmentsOnTime ==
    mOn => (last.ts - StartTimestamp) * Rates[1] =
           last.at * Rates[2] * (IF type = "MULTI_ARFCN" THEN MCHANS ELSE 1)

\* After each burst less than a segment is left in any ring, and all rings
\* have the same: no burst is refused for want of room, and the segments of
\* all channels are of the same time, whatever the sizes of the three types.
NothingDropped ==
    /\ ~dropped
    /\ mOn /\ ~pushing => \A c \in DOMAIN avail : avail[c] = avail[0] /\ avail[c] < SegmentLen

\* close() gives back all that init() allocated, once: what it forgets, the
\* rings of Resamp and the history vectors of Multi, never includes anything
\* else, also after an init() that failed half way.
CloseForgets ==
    ready = "closed" =>
        heap \subseteq CASE type = "NORMAL"      -> {}
                         [] type = "MULTI_ARFCN" -> EachChan("history")
                         [] OTHER                -> EachChan("send") \cup EachChan("recv")
=============================================================================
