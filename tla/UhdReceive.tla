---------------------------- MODULE UhdReceive -----------------------------
(***************************************************************************)
(* The receive side of uhd_device (UHDDevice.cpp): start, stop, restart,   *)
(* and readSamples for RxLower. Lifecycle shows that start() and stop()    *)
(* run while RxLower does not. The UHD library is external: recv() may     *)
(* return packets, lose some, fail, time out, report a time one tick early *)
(* or see the device's clock set back. A sample is the time at which it    *)
(* was put into the buffer. UhdTransmit has the transmit side.             *)
(***************************************************************************)
EXTENDS Integers, Sequences

CONSTANTS
    buf_len,        \* samples in the ring of a channel
    NONE,           \* memory that was never written, or is not the ring's
    Chans,
    rx_spp,         \* samples per packet
    ReadLen,        \* samples per readSamples()
    ts_offset,      \* shift between transmit and receive times
    FlushPkts,      \* the argument of flush_recv
    StartDelay,     \* the delay of restart(), in ticks
    MaxTick,        \* bound of the device's time
    ClockSteps      \* by how much the device's clock may be set back

\* What the constants are; assumed where the module is instantiated.
UhdAssumption ==
    /\ buf_len \in Nat /\ rx_spp \in 1 .. buf_len - 1 /\ ReadLen \in 1 .. buf_len - 1
    /\ ReadLen + rx_spp <= buf_len
    /\ Chans # {} /\ 0 \in Chans
    /\ {ts_offset, FlushPkts, StartDelay, MaxTick} \subseteq Nat
    /\ ClockSteps \subseteq Nat \ {0}
-----------------------------------------------------------------------------
(* smpl_buf: the ring in which the device collects the packets of one      *)
(* channel and from which readSamples() takes them by time. A buffer is a  *)
(* record; a call is an operator that returns the new buffer and the       *)
(* result. Timestamps have 64 bits and buf_len is a power of two, so an    *)
(* index modulo buf_len is the same with and without a timestamp's wrap.   *)

ERROR_TIMESTAMP == -1
ERROR_READ == -2
ERROR_WRITE == -3
ERROR_OVERFLOW == -4

EmptyBuf ==
    [data |-> [i \in 0 .. buf_len - 1 |-> NONE],
     data_start |-> 0, data_end |-> 0, time_start |-> 0, time_end |-> 0]

\* The samples from time ts on.
avail_smpls(b, ts) ==
    CASE ts < b.time_start -> ERROR_TIMESTAMP
      [] ts >= b.time_start /\ ts >= b.time_end -> 0
      [] OTHER -> b.time_end - ts

\* Where the sample of time ts lies.
Place(b, ts) == (b.data_start + (ts - b.time_start)) % buf_len

\* The memory copied by read(): all of len, in two pieces if the num samples
\* that are there reach the end of the ring, else in one.
CopyOut(b, at, len, num) ==
    [i \in 1 .. len |->
        LET k == at + i - 1 IN
        CASE k < buf_len -> b.data[k]
          [] k >= buf_len /\ at + num < buf_len -> NONE
          [] OTHER -> b.data[k - buf_len]]

\* A read; len is below buf_len, or it would return ERROR_READ at once.
read(b, len, ts) ==
    LET at == Place(b, ts)
        num == IF b.time_end - ts > len THEN len ELSE b.time_end - ts
    IN  CASE ts < b.time_start -> [buf |-> b, out |-> <<>>, rc |-> ERROR_TIMESTAMP]
          [] ts >= b.time_start /\ ts >= b.time_end -> [buf |-> b, out |-> <<>>, rc |-> 0]
          [] OTHER ->
                [buf |-> [b EXCEPT !.data_start = (at + len) % buf_len,
                                   !.time_start = ts + len],
                 out |-> CopyOut(b, at, len, num),
                 rc |-> IF ts + len > b.time_end THEN ERROR_READ ELSE num]

\* data_start after a write at index at: zero is taken for "no data yet".
DataStart(b, at) == IF b.data_start = 0 THEN at ELSE b.data_start

write(b, s, ts) ==
    LET len == Len(s)
        at == Place(b, ts)
        end == (at + len) % buf_len
        start == DataStart(b, at)
    IN  CASE len = 0 \/ len >= buf_len -> [buf |-> b, rc |-> ERROR_WRITE]
          [] ts + len <= b.time_end /\ len \in 1 .. buf_len - 1 ->
                [buf |-> b, rc |-> ERROR_TIMESTAMP]
          [] OTHER ->
                [buf |-> [data |-> [i \in DOMAIN b.data |->
                                        LET k == (i - at) % buf_len
                                        IN  IF k < len THEN s[k + 1] ELSE b.data[i]],
                          data_start |-> start, data_end |-> end,
                          time_start |-> b.time_start, time_end |-> ts + len],
                 rc |-> CASE at + len > buf_len /\ end > start -> ERROR_OVERFLOW
                          [] ~(at + len > buf_len /\ end > start)
                             /\ ts + len <= b.time_start -> ERROR_WRITE
                          [] OTHER -> len]
-----------------------------------------------------------------------------
VARIABLES
    started, prev_ts, ts_initial,
    rx_buffers,
    tick,           \* the time of the next packet
    rxpc,           \* RxLower: "idle", or receiving in readSamples()
    readTimestamp,  \* RadioInterface's, plus ts_offset
    exited,         \* exit(-1)
    \* history: the times put into the buffers, and the time from which on
    \* they lie where a read looks for them
    written, goodFrom

vars == <<started, prev_ts, ts_initial, rx_buffers, tick, rxpc, readTimestamp, exited,
          written, goodFrom>>

Init ==
    /\ started = FALSE /\ prev_ts = 0 /\ ts_initial = 0
    /\ rx_buffers = [c \in Chans |-> EmptyBuf]
    /\ tick \in 1 .. 2
    /\ rxpc = "idle" /\ readTimestamp = 0 /\ exited = FALSE
    /\ written = {} /\ goodFrom = 0
-----------------------------------------------------------------------------
(* start(), stop(), restart() *)

\* flush_recv: the first packet, then FlushPkts more calls of recv(), each a
\* packet or an error; or a timeout on the way.
Flushed(now) ==
    {[ok |-> TRUE, ts |-> now + k * rx_spp] : k \in 0 .. FlushPkts}
        \cup {[ok |-> FALSE, ts |-> ts] : ts \in {0, now}}

restart(r) ==
    /\ r \in Flushed(tick + StartDelay)
    /\ ts_initial' = r.ts
    /\ tick' = IF r.ts = 0 THEN tick + StartDelay ELSE r.ts + rx_spp

Start ==
    /\ ~started /\ rxpc = "idle" /\ tick + StartDelay <= MaxTick
    /\ \E r \in Flushed(tick + StartDelay) :
        /\ restart(r)
        /\ started' = r.ok
        /\ readTimestamp' = IF r.ok THEN r.ts + ts_offset ELSE readTimestamp
    /\ UNCHANGED <<exited, prev_ts, rx_buffers, rxpc, written, goodFrom>>

Stop ==
    /\ started /\ rxpc = "idle"
    /\ started' = FALSE
    /\ UNCHANGED <<prev_ts, ts_initial, rx_buffers, tick, rxpc, readTimestamp, exited,
                   written, goodFrom>>
-----------------------------------------------------------------------------
(* readSamples(), in RxLower *)

ReadSamples ==
    /\ started /\ rxpc = "idle"
    /\ avail_smpls(rx_buffers[0], readTimestamp) >= 0
    /\ rxpc' = "recv"
    /\ UNCHANGED <<started, exited, prev_ts, ts_initial, rx_buffers,
                   tick, readTimestamp, written, goodFrom>>

Receiving ==
    /\ rxpc = "recv" /\ tick + rx_spp <= MaxTick
    /\ avail_smpls(rx_buffers[0], readTimestamp) < ReadLen

\* recv() fails, and packets may be lost; on a timeout the read gives up.
RecvError ==
    /\ Receiving
    /\ tick' \in {tick, tick + rx_spp}
    /\ rxpc' \in {"recv", "idle"}
    /\ UNCHANGED <<started, exited, prev_ts, ts_initial, rx_buffers,
                   readTimestamp, written, goodFrom>>

RecvNoTimestamp ==
    /\ Receiving
    /\ exited' = TRUE
    /\ UNCHANGED <<started, prev_ts, ts_initial, rx_buffers, tick, rxpc, readTimestamp,
                   written, goodFrom>>

\* The workaround for the rounding of ticks.
Corrected(t) == IF t - prev_ts = rx_spp - 1 THEN t + 1 ELSE t

\* The packet as put into the buffers: a sample is its time.
Samples(t) == [i \in 1 .. rx_spp |-> t + i - 1]

\* Mutant of WriteAll: the second channel is not written.
WriteOne(t) == [c \in Chans |-> IF c = 0 THEN write(rx_buffers[c], Samples(t), t).buf
                                         ELSE rx_buffers[c]]

\* Every channel's buffer takes the packet; an error other than an overrun
\* ends the loop, and the read.
WriteAll(t) ==
    LET res == [c \in Chans |-> write(rx_buffers[c], Samples(t), t)]
        bad == {c \in Chans : res[c].rc < 0 /\ res[c].rc # ERROR_OVERFLOW}
    IN  [c \in Chans |-> IF \E d \in bad : d < c THEN rx_buffers[c] ELSE res[c].buf]

WriteFails(t) ==
    \E c \in Chans : LET rc == write(rx_buffers[c], Samples(t), t).rc
                     IN  rc < 0 /\ rc # ERROR_OVERFLOW

\* recv() returns a packet whose time does not go back.
RecvPacket ==
    /\ Receiving
    /\ \E reported \in {tick, tick - 1} :
        LET t == Corrected(reported) IN
        /\ reported >= prev_ts
        /\ prev_ts' = t
        /\ rx_buffers' = WriteAll(t)
        /\ rxpc' = IF WriteFails(t) THEN "idle" ELSE "recv"
        /\ written' = {w \in written : w >= readTimestamp} \cup (t .. t + rx_spp - 1)
        /\ goodFrom' = IF rx_buffers[0].data_start = 0 /\ rx_buffers'[0].data_start # 0
                       THEN rx_buffers'[0].time_end ELSE goodFrom
    /\ tick' = tick + rx_spp
    /\ UNCHANGED <<started, exited, ts_initial, readTimestamp>>

\* Loss of monotonic time: restart() and go on, whether it worked or not.
RecvBackwards ==
    /\ Receiving
    /\ \E reported \in {tick, tick - 1} : reported < prev_ts
    /\ \E r \in Flushed(tick + StartDelay) : restart(r)
    /\ UNCHANGED <<started, exited, prev_ts, rx_buffers, rxpc, readTimestamp,
                   written, goodFrom>>

\* Enough samples: every channel is read, and RadioInterface moves on.
ReadDone ==
    /\ rxpc = "recv" /\ avail_smpls(rx_buffers[0], readTimestamp) >= ReadLen
    /\ LET res == [c \in Chans |-> read(rx_buffers[c], ReadLen, readTimestamp)]
           bad == {c \in Chans : res[c].rc # ReadLen}
       IN  /\ rx_buffers' = [c \in Chans |-> IF \E d \in bad : d < c THEN rx_buffers[c]
                                                                    ELSE res[c].buf]
           /\ readTimestamp' = IF bad = {} THEN readTimestamp + ReadLen ELSE readTimestamp
    /\ rxpc' = "idle"
    /\ UNCHANGED <<started, exited, prev_ts, ts_initial, tick,
                   written, goodFrom>>

\* The device's clock is set back (external).
ClockSetBack ==
    /\ started
    /\ \E d \in ClockSteps : tick - d > 0 /\ tick' = tick - d
    /\ UNCHANGED <<started, exited, prev_ts, ts_initial, rx_buffers,
                   rxpc, readTimestamp, written, goodFrom>>
-----------------------------------------------------------------------------
RxStep == ReadSamples \/ RecvError \/ RecvNoTimestamp \/ RecvPacket \/ RecvBackwards \/ ReadDone

Next == ~exited /\ (Start \/ Stop \/ RxStep \/ ClockSetBack)

Spec == Init /\ [][Next]_vars
-----------------------------------------------------------------------------
(* Properties *)

\* Every variable has its type.
TypeOK ==
    /\ {started, exited} \subseteq BOOLEAN /\ rxpc \in {"idle", "recv"}
    /\ \A c \in Chans : /\ rx_buffers[c].data_start \in 0 .. buf_len - 1
                        /\ rx_buffers[c].data_end \in 0 .. buf_len - 1

\* avail_smpls() is asked of the first channel only, but every channel is
\* read: the buffers of all channels are always in step.
ChannelsInStep == \A c \in Chans : rx_buffers[c] = rx_buffers[0]

\* What readSamples() is about to return for the channel c.
Returned(c) == read(rx_buffers[c], ReadLen, readTimestamp).out

InRing(t) == t \in written /\ t >= rx_buffers[0].time_end - buf_len

Ready == rxpc = "recv" /\ avail_smpls(rx_buffers[0], readTimestamp) >= ReadLen

\* The sample buffer "allows reading and writing of timed samples": a read
\* returns, for every time for which a sample was received and not overrun by
\* later ones, that sample.
\* Does not hold: smpl_buf::write takes data_start = 0 for an empty buffer.
ReadsItsTimes ==
    Ready => \A c \in Chans, i \in 1 .. ReadLen :
        LET t == readTimestamp + i - 1 IN InRing(t) => Returned(c)[i] = t

\* The same, but for the samples that were in the buffer when a write found
\* data_start = 0 and moved it.
ReadsItsTimesIfPlaced ==
    Ready => \A c \in Chans, i \in 1 .. ReadLen :
        LET t == readTimestamp + i - 1
        IN  InRing(t) /\ t >= goodFrom => Returned(c)[i] = t

\* Rounded packet times do not add up: however many packets are received,
\* the buffers' time is within one tick of the device's.
NoDrift ==
    \A c \in Chans : rx_buffers'[c].time_end # rx_buffers[c].time_end
        => tick' - rx_buffers'[c].time_end \in {-1, 0, 1}
=============================================================================
