---------------------------- MODULE RadioBuffer ----------------------------
(***************************************************************************)
(* RadioBuffer (radioBuffer.cpp): the ring of samples between the radio    *)
(* interface, which works in bursts, and the device, which works in        *)
(* segments. In the output direction bursts are written and segments read, *)
(* each with the hLen samples in front of it for the resampling filter; in *)
(* the input direction segments are written and bursts read. The caller    *)
(* fills, or reads, the segment it is given at once, so that is part of    *)
(* the step. SampleFifo is the promise.                                    *)
(***************************************************************************)
EXTENDS Integers, Sequences

CONSTANTS
    Samples,        \* the values a sample may have
    ZERO,           \* the sample zero() and zeroWriteSegment() write
    JUNK,           \* what is in memory that was never written
    NumSegments, SegmentLen,
    HistoryLen,     \* the constructor's hLen
    Inputs,         \* the sample sequences callers write
    MaxLen          \* the longest zero() and read()

bufferLen == NumSegments * SegmentLen

ASSUME BufferAssumption ==
    /\ NumSegments \in Nat \ {0} /\ SegmentLen \in Nat \ {0}
    /\ HistoryLen \in 0 .. SegmentLen
    /\ ZERO \in Samples /\ JUNK \notin Samples
    /\ Inputs \subseteq Seq(Samples)
    /\ MaxLen \in Nat

VARIABLES
    outDirection,
    writeIndex, readIndex, availSamples,
    buffer,         \* the history area, then the segments
    in, out, ok,    \* what the last call was given and returned
    hist,           \* the samples in front of the segment last returned
    past            \* the last samples taken since reset(), at most hLen

vars == <<outDirection, writeIndex, readIndex, availSamples, buffer, in, out, ok,
          hist, past>>

hLen == IF outDirection THEN HistoryLen ELSE 0

Init ==
    /\ outDirection \in BOOLEAN
    /\ writeIndex = 0 /\ readIndex = 0 /\ availSamples = 0
    /\ buffer = [i \in 0 .. hLen + bufferLen - 1 |-> JUNK]
    /\ in = <<>> /\ out = <<>> /\ ok = TRUE
    /\ hist = <<>> /\ past = <<>>

reset ==
    /\ writeIndex' = 0 /\ readIndex' = 0 /\ availSamples' = 0
    /\ in' = <<>> /\ out' = <<>> /\ ok' = TRUE /\ past' = <<>>
    /\ UNCHANGED <<outDirection, buffer, hist>>

\* A call that returns NULL or false.
Fail == ok' = FALSE /\ UNCHANGED <<outDirection, writeIndex, readIndex, availSamples,
                                   buffer, in, out, hist, past>>

\* memcpy of len samples of s from position from on, to index at.
Copy(buf, at, s, from, len) ==
    [i \in DOMAIN buf |-> IF i \in at .. at + len - 1 THEN s[from + i - at] ELSE buf[i]]

\* The samples in memory at the index at and after.
Memory(buf, at, len) == [i \in 1 .. len |-> buf[at + i - 1]]

\* The last n samples of s, or all of them.
LastOf(s, n) == IF Len(s) <= n THEN s ELSE SubSeq(s, Len(s) - n + 1, Len(s))

\* A run of zero samples.
Zeros(len) == [i \in 1 .. len |-> ZERO]

AdvanceNoCount(w, r) ==
    /\ availSamples' = availSamples + w
    /\ writeIndex' = (writeIndex + w) % bufferLen
    /\ readIndex' = (readIndex + r) % bufferLen
    /\ ok' = TRUE

\* The indices after w samples were put and r taken.
Advance(w, r) ==
    /\ availSamples' = availSamples + w - r
    /\ writeIndex' = (writeIndex + w) % bufferLen
    /\ readIndex' = (readIndex + r) % bufferLen
    /\ ok' = TRUE
-----------------------------------------------------------------------------
(* Output direction *)

\* Mutant of Store: the piece after the wrap starts with the first sample.
StoreRestarts(s) ==
    LET len == Len(s)  len0 == bufferLen - writeIndex IN
    IF availSamples + len > bufferLen
    THEN Fail
    ELSE /\ buffer' = IF writeIndex + len <= bufferLen
                      THEN Copy(buffer, writeIndex + hLen, s, 1, len)
                      ELSE Copy(Copy(buffer, writeIndex + hLen, s, 1, len0),
                                hLen, s, 1, len - len0)
         /\ Advance(len, 0)
         /\ in' = s /\ out' = <<>>
         /\ UNCHANGED <<outDirection, hist, past>>

\* write(), and zero() with a run of ZERO: in one piece, or in two around
\* the end of the ring.
Store(s) ==
    LET len == Len(s)
        len0 == bufferLen - writeIndex
    IN  IF availSamples + len > bufferLen
        THEN Fail
        ELSE /\ buffer' = IF writeIndex + len <= bufferLen
                          THEN Copy(buffer, writeIndex + hLen, s, 1, len)
                          ELSE Copy(Copy(buffer, writeIndex + hLen, s, 1, len0),
                                    hLen, s, len0 + 1, len - len0)
             /\ Advance(len, 0)
             /\ in' = s /\ out' = <<>>
             /\ UNCHANGED <<outDirection, hist, past>>

write == outDirection /\ \E s \in Inputs : Store(s)

zero == outDirection /\ \E len \in 0 .. MaxLen : Store(Zeros(len))

\* Mutant of getReadSegment: the history is not copied to the front.
getReadSegmentNoCopy ==
    /\ outDirection /\ availSamples >= SegmentLen
    /\ LET seg == hLen + (readIndex \div SegmentLen) * SegmentLen IN
        /\ out' = Memory(buffer, seg, SegmentLen)
        /\ hist' = Memory(buffer, seg - hLen, hLen)
    /\ past' = LastOf(past \o out', hLen)
    /\ in' = <<>>
    /\ Advance(0, SegmentLen)
    /\ UNCHANGED <<outDirection, buffer>>

\* The oldest segment; in front of the first one goes a copy of the end of
\* the ring, its history.
getReadSegment ==
    /\ outDirection
    /\ LET num == readIndex \div SegmentLen
           seg == hLen + num * SegmentLen
       IN  IF availSamples < SegmentLen \/ num >= NumSegments
           THEN Fail
           ELSE /\ buffer' = IF num = 0
                             THEN Copy(buffer, 0, Memory(buffer, bufferLen, hLen), 1, hLen)
                             ELSE buffer
                /\ Advance(0, SegmentLen)
                /\ out' = Memory(buffer', seg, SegmentLen)
                /\ hist' = Memory(buffer', seg - hLen, hLen)
                /\ past' = LastOf(past \o out', hLen)
                /\ in' = <<>>
                /\ UNCHANGED outDirection
-----------------------------------------------------------------------------
(* Input direction *)

\* getWriteSegment, and the caller's convert_short_float into it; or
\* zeroWriteSegment.
FillSegment(s) ==
    LET num == writeIndex \div SegmentLen IN
    IF \/ bufferLen - availSamples < SegmentLen
       \/ writeIndex % SegmentLen # 0
       \/ num >= NumSegments
    THEN Fail
    ELSE /\ Advance(SegmentLen, 0)
         /\ buffer' = Copy(buffer, num * SegmentLen, s, 1, SegmentLen)
         /\ in' = s /\ out' = <<>>
         /\ UNCHANGED <<outDirection, hist, past>>

getWriteSegment ==
    ~outDirection /\ \E s \in {s \in Inputs : Len(s) = SegmentLen} : FillSegment(s)

zeroWriteSegment == ~outDirection /\ FillSegment(Zeros(SegmentLen))

read ==
    /\ ~outDirection
    /\ \E len \in 0 .. MaxLen :
        LET len0 == bufferLen - readIndex IN
        IF availSamples < len
        THEN Fail
        ELSE /\ out' = IF readIndex + len <= bufferLen
                       THEN Memory(buffer, readIndex, len)
                       ELSE Memory(buffer, readIndex, len0) \o Memory(buffer, 0, len - len0)
             /\ in' = <<>>
             /\ Advance(0, len)
             /\ UNCHANGED <<outDirection, buffer, hist, past>>
-----------------------------------------------------------------------------
Next ==
    \/ write \/ zero \/ getReadSegment
    \/ getWriteSegment \/ zeroWriteSegment \/ read
    \/ reset

Spec == Init /\ [][Next]_vars
-----------------------------------------------------------------------------
(* Properties *)

\* Every variable has its type: the indices stay inside the ring and no more
\* samples are counted than it holds; a reader gets no memory that was never
\* written, but for the history in front of the first segment.
TypeOK ==
    /\ outDirection \in BOOLEAN /\ ok \in BOOLEAN
    /\ writeIndex \in 0 .. bufferLen - 1 /\ readIndex \in 0 .. bufferLen - 1
    /\ availSamples \in 0 .. bufferLen
    /\ buffer \in [0 .. hLen + bufferLen - 1 -> Samples \cup {JUNK}]
    /\ {in, out, past} \subseteq Seq(Samples) /\ hist \in Seq(Samples \cup {JUNK})

\* The three counters of the ring agree, whatever mix of calls was made, and
\* the segment side never stops inside a segment.
RingConsistent ==
    /\ readIndex + availSamples \in {writeIndex, writeIndex + bufferLen}
    /\ outDirection => readIndex % SegmentLen = 0
    /\ ~outDirection => writeIndex % SegmentLen = 0

\* Indices and counter of RadioBuffer describe one ring, inside its memory.
RingInv == TypeOK /\ RingConsistent

\* The samples in the ring, oldest first.
Contents == [i \in 1 .. availSamples |-> buffer[hLen + ((readIndex + i - 1) % bufferLen)]]

\* The filter history: the samples that precede the segment getReadSegment
\* returns are the ones taken before it, as far back as reset(), provided the
\* writers left hLen samples of room in the ring.
HistoryIntact ==
    [][getReadSegment /\ ok' /\ availSamples + hLen <= bufferLen
        => LastOf(hist', Len(past)) = past]_vars

Fifo == INSTANCE SampleFifo WITH
    contents <- Contents,
    Capacity <- bufferLen,
    Runs <- Inputs \cup {Zeros(len) : len \in 0 .. MaxLen} \cup {Zeros(SegmentLen)},
    Counts <- 0 .. MaxLen \cup {SegmentLen}

\* The ring is a FIFO of samples: nothing is lost, repeated or reordered, the
\* wrap around its end included, and a call fails exactly if it must.
FifoSpec == Fifo!Spec
=============================================================================
