------------------------------ MODULE UsrpRead ------------------------------
(***************************************************************************)
(* The receive path of the USRP1 (USRPDevice::readSamples and              *)
(* updateAlignment). The device stamps its packets with the low bits of    *)
(* its own clock. A ping, sent by the alignment thread with a time of the  *)
(* transmitter, is answered with a packet that has the receiver's time for *)
(* it; the difference is added to the times the reader asks for. Samples   *)
(* wait in a ring. The device, external, keeps its packets in order and    *)
(* loses some. Times are in samples; a sample is its time.                 *)
(***************************************************************************)
EXTENDS Integers, FiniteSetsExt

CONSTANTS
    N,              \* samples in the ring (currDataSize / 2)
    W,              \* the device's clock wraps at W (2^32)
    P,              \* samples in a packet
    L,              \* samples in a read
    MaxBatch,       \* packets in one USB read
    Delay,          \* receiver's time minus transmitter's
    Start,          \* the initial timestamp of the reader
    MaxTime, MaxPings, MaxLost      \* bounds

\* What the constants are; assumed where the module is instantiated. The
\* device answers between two packets; the ring holds the first read, a whole
\* USB read and a read of one packet, with what may be lost; and it is full
\* before the device's clock wraps.
UsrpAssumption ==
    /\ {N, W, P, L, MaxBatch} \subseteq Nat \ {0} /\ L + P * MaxBatch <= N
    /\ {Delay, Start, MaxTime, MaxPings, MaxLost} \subseteq Nat
    /\ Start >= P /\ (Start + Delay) % P = 0 /\ Start + Delay <= N /\ Start + Delay + N < W
    /\ P * (MaxBatch + MaxLost - 1) <= N /\ L + P * (1 + MaxLost) <= N + 1

VARIABLES
    data, dataStart, timeStart, timeEnd, timestampOffset, isAligned,
    hi32Timestamp, lastPktTimestamp,
    now,            \* time of the device's next packet
    asked,          \* the time the reader asks for next
    pc, timestamp, batch,       \* the reader, in readSamples()
    writer, pingTimestamp,      \* the alignment thread: "idle", or "sent" q
    pending,        \* the pings that are not answered yet
    raced,          \* an answer was handled before its time was noted
    missed,         \* times whose samples the reader never got
    buf, outside, pings, lost

vars == <<data, dataStart, timeStart, timeEnd, timestampOffset, isAligned, hi32Timestamp,
          lastPktTimestamp, now, asked, pc, timestamp, batch, writer, pingTimestamp, pending,
          raced, missed, buf, outside, pings, lost>>
ring == <<data, dataStart, timeStart, timeEnd>>
clock == <<hi32Timestamp, lastPktTimestamp>>
thread == <<writer, pingTimestamp>>
counts == <<pings, lost>>

Zero == -1
Garbage == -2       \* the ring is allocated and not cleared
Empty == [i \in 0 .. L - 1 |-> Zero]
FirstPing == Start - P

\* start(), with the ping that RadioInterface::start() sends first.
Init ==
    /\ data = [i \in 0 .. N - 1 |-> Garbage] /\ dataStart = 0 /\ timeStart = 0 /\ timeEnd = 0
    /\ timestampOffset = 0 /\ isAligned = FALSE /\ hi32Timestamp = 0 /\ lastPktTimestamp = 0
    /\ now = 0 /\ asked = Start /\ pc = "idle" /\ timestamp = 0 /\ batch = 0
    /\ writer = [at |-> "idle", q |-> 0] /\ pingTimestamp = FirstPing /\ pending = {FirstPing}
    /\ raced = FALSE /\ missed = {} /\ buf = Empty /\ outside = FALSE /\ pings = 0 /\ lost = 0
-----------------------------------------------------------------------------
\* updateAlignment(), once a minute, the last ping long answered: the ping is
\* written; then its time is noted.
SendPing(q) ==
    /\ writer.at = "idle" /\ pings < MaxPings /\ pings' = pings + 1
    /\ q + Delay >= now /\ (q + Delay) % P = 0 /\ pending = {}
    /\ pending' = {q} /\ writer' = [at |-> "sent", q |-> q]
    /\ UNCHANGED <<ring, timestampOffset, isAligned, clock, now, asked, pc, timestamp, batch,
                   pingTimestamp, raced, missed, buf, outside, lost>>

NotePing ==
    /\ writer.at = "sent" /\ pingTimestamp' = writer.q
    /\ writer' = [at |-> "idle", q |-> 0]
    /\ UNCHANGED <<ring, timestampOffset, isAligned, clock, now, asked, pc, timestamp, batch,
                   pending, raced, missed, buf, outside, counts>>
-----------------------------------------------------------------------------
\* readSamples() begins. What is long past is answered with zeros.
BeginRead ==
    /\ pc = "idle" /\ ~outside /\ now < MaxTime
    /\ LET ts == asked + timestampOffset
       IN  IF ts + L < timeStart
           THEN /\ buf' = Empty /\ timestamp' = ts /\ asked' = asked + L
                /\ UNCHANGED pc
           ELSE /\ timestamp' = ts /\ pc' = "need" /\ UNCHANGED <<buf, asked>>
    /\ UNCHANGED <<ring, timestampOffset, isAligned, clock, now, batch, thread, pending, raced,
                   missed, outside, counts>>

\* The size of the next USB read, or enough samples.
Guess ==
    /\ pc = "need"
    /\ LET need == timestamp + L - timeEnd
       IN  IF need <= 0 THEN pc' = "copy" /\ UNCHANGED batch
           ELSE pc' = "batch" /\ batch' = Min({(need + P - 1) \div P, MaxBatch})
    /\ UNCHANGED <<ring, timestampOffset, isAligned, clock, now, asked, timestamp, thread,
                   pending, raced, missed, buf, outside, counts>>

\* The full time of a packet that comes with now modulo W.
Unwrapped ==
    /\ hi32Timestamp' = IF lastPktTimestamp % W > now % W /\ timeStart # 0
                        THEN hi32Timestamp + 1 ELSE hi32Timestamp
    /\ lastPktTimestamp' = hi32Timestamp' * W + (now % W)

NextOfBatch == batch' = batch - 1 /\ pc' = IF batch = 1 THEN "need" ELSE "batch"

\* A packet of the control channel: the reply to ping q.
PingReply(q) ==
    /\ pc = "batch" /\ q \in pending /\ q + Delay = now
    /\ Unwrapped /\ NextOfBatch
    /\ timestampOffset' = lastPktTimestamp' - pingTimestamp
    /\ timestamp' = timestamp - timestampOffset + timestampOffset' /\ isAligned' = TRUE
    /\ pending' = pending \ {q} /\ raced' = (raced \/ pingTimestamp # q)
    /\ UNCHANGED <<ring, now, asked, thread, missed, buf, outside, counts>>

\* A packet of samples; those before the first alignment are ignored.
Packet ==
    /\ pc = "batch" /\ \A q \in pending : q + Delay # now
    /\ Unwrapped /\ NextOfBatch /\ now' = now + P
    /\ IF ~isAligned THEN missed' = missed \cup (now .. now + P - 1) /\ UNCHANGED ring
       ELSE LET cursor == lastPktTimestamp' - timeStart + dataStart
            IN  /\ data' = [i \in 0 .. N - 1 |->
                        IF (i - cursor) % N < P THEN now + ((i - cursor) % N) ELSE data[i]]
                /\ timeEnd' = Max({timeEnd, lastPktTimestamp' + P})
                /\ UNCHANGED <<dataStart, timeStart, missed>>
    /\ UNCHANGED <<timestampOffset, isAligned, asked, timestamp, thread, pending, raced, buf,
                   outside, counts>>

\* The device: a packet is lost.
LosePacket ==
    /\ pc = "batch" /\ lost < MaxLost /\ \A q \in pending : q + Delay # now
    /\ now' = now + P /\ missed' = missed \cup (now .. now + P - 1) /\ lost' = lost + 1
    /\ UNCHANGED <<ring, timestampOffset, isAligned, clock, asked, pc, timestamp, batch, thread,
                   pending, raced, buf, outside, pings>>

\* Mutant of Cleared: what was read stays in the ring.
ClearedNot(first) == data

\* The ring after L samples are read at first: they are set to zero.
Cleared(first) == [i \in 0 .. N - 1 |-> IF (i - first) % N < L THEN Zero ELSE data[i]]

\* Where the next read starts.
After(first) == (first + L) % N

\* The samples are copied, in two parts at the end of the ring. An index that
\* is not in the ring is not brought back to it.
Copy ==
    /\ pc = "copy" /\ pc' = "idle"
    /\ LET bufStart == dataStart + timestamp - timeStart
       IN  IF bufStart \in 0 .. N
           THEN /\ buf' = [i \in 0 .. L - 1 |-> data[(bufStart + i) % N]]
                /\ data' = Cleared(bufStart)
                /\ dataStart' = After(bufStart)
                /\ timeStart' = timestamp + L /\ asked' = asked + L
                /\ UNCHANGED <<outside, timeEnd>>
           ELSE outside' = TRUE /\ UNCHANGED <<buf, ring, asked>>
    /\ UNCHANGED <<timestampOffset, isAligned, clock, now, timestamp, batch, thread, pending,
                   raced, missed, counts>>

Next ==
    \/ \E q \in 0 .. MaxTime : SendPing(q) \/ PingReply(q)
    \/ NotePing \/ BeginRead \/ Guess \/ Packet \/ LosePacket \/ Copy

Spec == Init /\ [][Next]_vars
-----------------------------------------------------------------------------
\* The offset is the difference of the clocks, across wraps of the device's
\* clock, if the alignment thread noted the ping before its answer came.
OffsetRight == isAligned /\ ~raced => timestampOffset = Delay

\* A read that has finished returned the sample of each of its times. For a
\* time that was lost or came before the alignment it returned zero, and
\* nothing left from an earlier turn, once the ring has been read around.
SamplesOfTheirTimes ==
    pc = "idle" /\ isAligned /\ ~raced /\ ~outside /\ asked > Start =>
        \A i \in 0 .. L - 1 :
            LET t == asked - L + i + Delay
            IN  /\ t \notin missed => buf[i] = t
                /\ t \in missed /\ t >= Start + Delay + N => buf[i] = Zero

\* Without such a race no read goes outside the ring.
InRing == ~raced => ~outside

\* The offset is the difference of the clocks.
\* Does not hold: an answer may come before its ping has been noted.
OffsetAlwaysRight == isAligned => timestampOffset = Delay
=============================================================================
