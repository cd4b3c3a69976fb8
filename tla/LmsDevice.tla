------------------------------ MODULE LmsDevice ------------------------------
(***************************************************************************)
(* The LimeSDR device (LMSDevice.cpp): opening and closing, starting and   *)
(* stopping its streams when any call of LimeSuite may fail, and reading,  *)
(* where the caller counts the time and the samples come from one queue    *)
(* per channel. LimeSuite, external: a stream that is started queues the   *)
(* samples of its channel from time 0 on. Time is in blocks of a read.     *)
(***************************************************************************)
EXTENDS Integers, Sequences

CONSTANTS
    ChanCounts,
    FlushLen,           \* blocks flush_recv() reads
    MaxStarts, MaxReads \* bounds: calls of start(), of readSamples()

\* What the constants are; assumed where the module is instantiated.
LmsAssumption ==
    ChanCounts \subseteq Nat \ {0} /\ {FlushLen, MaxStarts, MaxReads} \subseteq Nat

Dirs == {"rx", "tx"}

VARIABLES
    chans, m_lms_dev,           \* the handle: "null", "open" or, freed, "closed"
    opened, closed,             \* calls of LMS_Open() and LMS_Close()
    phase,                      \* "new", "opened", "failed" or "deleted"
    started, enabled, stream,   \* stream: "none", "setup" or "running"
    spoilt,                     \* a start() has failed
    lateSetup,                  \* a stream was set up while another was running
    next,                       \* channel -> time of the first block queued
    ts_initial, readTimestamp,
    flushed,                    \* the flush was complete
    trouble,                    \* a block was lost or a read timed out
    stopRequired,               \* S_TRANSC_STOP_REQUIRED
    got,                        \* the last successful read: what for, and what
    starts, reads

vars == <<chans, m_lms_dev, opened, closed, phase, started, enabled, stream, spoilt, lateSetup,
          next, ts_initial, readTimestamp, flushed, trouble, stopRequired, got, starts, reads>>
handle == <<m_lms_dev, opened, closed, phase>>
streams == <<started, enabled, stream, spoilt, lateSetup>>
times == <<next, ts_initial, readTimestamp, flushed, trouble, stopRequired, got>>

Chans == 0 .. chans - 1
Nothing == [at |-> 0, of |-> <<>>]

\* The constructor.
Init ==
    /\ chans \in ChanCounts /\ m_lms_dev = "null" /\ opened = 0 /\ closed = 0 /\ phase = "new"
    /\ started = FALSE
    /\ enabled = [d \in Dirs |-> [c \in Chans |-> FALSE]]
    /\ stream = [d \in Dirs |-> [c \in Chans |-> "none"]]
    /\ spoilt = FALSE /\ lateSetup = FALSE
    /\ next = [c \in Chans |-> 0] /\ ts_initial = 0 /\ readTimestamp = 0
    /\ flushed = FALSE /\ trouble = FALSE /\ stopRequired = FALSE /\ got = Nothing
    /\ starts = 0 /\ reads = 0
-----------------------------------------------------------------------------
\* open() finds no device, or LMS_Open() fails.
OpenNone ==
    /\ phase = "new" /\ phase' = "failed"
    /\ UNCHANGED <<chans, m_lms_dev, opened, closed, streams, times, starts, reads>>

\* A call of open() fails and it goes to out_close.
OpenClose ==
    /\ phase = "new" /\ phase' = "failed"
    /\ opened' = opened + 1 /\ closed' = closed + 1 /\ m_lms_dev' = "null"
    /\ UNCHANGED <<chans, streams, times, starts, reads>>

\* set_antennas() fails (an antenna the device has not, a path for a channel
\* it has not): open() returns at once, the device open.
OpenAntennas ==
    /\ phase = "new" /\ phase' = "failed"
    /\ opened' = opened + 1 /\ m_lms_dev' = "open"
    /\ UNCHANGED <<chans, closed, streams, times, starts, reads>>

Open ==
    /\ phase = "new" /\ phase' = "opened"
    /\ opened' = opened + 1 /\ m_lms_dev' = "open" /\ started' = FALSE
    /\ UNCHANGED <<chans, closed, enabled, stream, spoilt, lateSetup, times, starts, reads>>

\* The destructor: a handle that is not NULL is closed.
Delete ==
    /\ phase \in {"opened", "failed"} /\ phase' = "deleted"
    /\ closed' = IF m_lms_dev # "null" THEN closed + 1 ELSE closed
    /\ m_lms_dev' = "null"
    /\ UNCHANGED <<chans, opened, streams, times, starts, reads>>
-----------------------------------------------------------------------------
\* The calls of start() that can fail, in order: LMS_EnableChannel() and
\* LMS_SetupStream() per channel, then LMS_StartStream() per channel.
Calls ==
    [k \in 1 .. 6 * chans |->
        IF k <= 4 * chans
        THEN [op |-> IF (k - 1) % 4 < 2 THEN "enable" ELSE "setup",
              d |-> IF k % 2 = 1 THEN "rx" ELSE "tx", c |-> (k - 1) \div 4]
        ELSE [op |-> "start", d |-> IF k % 2 = 1 THEN "rx" ELSE "tx",
              c |-> (k - 1 - 4 * chans) \div 2]]

\* Call [op, d, c] is among the first k.
Done(k, op, d, c) == \E i \in 1 .. k : Calls[i] = [op |-> op, d |-> d, c |-> c]

\* start() up to its k-th call, which is the last that succeeds.
StartCalls(k) ==
    /\ enabled' = [d \in Dirs |-> [c \in Chans |-> enabled[d][c] \/ Done(k, "enable", d, c)]]
    /\ stream' = [d \in Dirs |-> [c \in Chans |->
                    IF Done(k, "start", d, c) THEN "running"
                    ELSE IF Done(k, "setup", d, c) THEN "setup" ELSE stream[d][c]]]
    /\ lateSetup' = \/ lateSetup
                    \/ /\ \E i \in 1 .. k : Calls[i].op = "setup"
                       /\ \E d \in Dirs, c \in Chans : stream[d][c] = "running"

StartFails(k) ==
    /\ phase = "opened" /\ ~started /\ starts < MaxStarts /\ starts' = starts + 1
    /\ StartCalls(k) /\ spoilt' = TRUE
    /\ UNCHANGED <<chans, handle, started, times, reads>>

\* flush_recv(): n blocks are read from the queue of channel 0.
flush_recv(n) ==
    /\ ts_initial' = n
    /\ next' = [c \in Chans |-> IF c = 0 THEN n ELSE 0]

\* start(), and what RadioInterface::start() does next. The result of the
\* flush, which may time out after n blocks, is ignored.
Start(n) ==
    /\ phase = "opened" /\ ~started /\ starts < MaxStarts /\ starts' = starts + 1
    /\ StartCalls(Len(Calls)) /\ started' = TRUE
    /\ flush_recv(n) /\ flushed' = (n = FlushLen)
    /\ readTimestamp' = ts_initial' /\ trouble' = FALSE /\ got' = Nothing
    /\ UNCHANGED <<chans, handle, spoilt, stopRequired, reads>>

\* Mutant of Stop: the channels stay enabled.
StopEnabled ==
    /\ phase = "opened" /\ started /\ started' = FALSE
    /\ stream' = [d \in Dirs |-> [c \in Chans |-> "none"]]
    /\ got' = Nothing
    /\ UNCHANGED <<chans, handle, enabled, spoilt, lateSetup, next, ts_initial, readTimestamp,
                   flushed, trouble, stopRequired, starts, reads>>

\* stop(); a device that is not started is left as it is.
Stop ==
    /\ phase = "opened" /\ started /\ started' = FALSE
    /\ stream' = [d \in Dirs |-> [c \in Chans |-> "none"]]
    /\ enabled' = [d \in Dirs |-> [c \in Chans |-> FALSE]]
    /\ got' = Nothing
    /\ UNCHANGED <<chans, handle, spoilt, lateSetup, next, ts_initial, readTimestamp,
                   flushed, trouble, stopRequired, starts, reads>>

\* LimeSuite: the queue of channel c is full and a block is lost (bound: one
\* loss before other trouble).
Overrun(c) ==
    /\ started /\ ~trouble /\ reads < MaxReads
    /\ next' = [next EXCEPT ![c] = @ + 1] /\ trouble' = TRUE
    /\ UNCHANGED <<chans, handle, streams, ts_initial, readTimestamp, flushed, stopRequired, got, starts, reads>>

\* readSamples(), where LMS_RecvStream() of channel t times out: the
\* channels before it have been read. A read that fails ends in a request
\* to stop the process, made by Transceiver::driveReceiveRadio().
ReadTimeout(t) ==
    /\ started /\ reads < MaxReads /\ reads' = reads + 1
    /\ next' = [c \in Chans |-> IF c < t THEN next[c] + 1 ELSE next[c]]
    /\ trouble' = TRUE /\ stopRequired' = TRUE
    /\ UNCHANGED <<chans, handle, streams, ts_initial, readTimestamp, flushed, got, starts>>

\* readSamples(), and pullBuffer()'s count of the time. Times that differ are
\* only logged, but for a time of the last channel that is too early.
ReadSamples ==
    /\ started /\ reads < MaxReads /\ reads' = reads + 1
    /\ next' = [c \in Chans |-> next[c] + 1]
    /\ IF next[chans - 1] < readTimestamp
       THEN stopRequired' = TRUE /\ UNCHANGED <<readTimestamp, got>>
       ELSE /\ readTimestamp' = readTimestamp + 1
            /\ got' = [at |-> readTimestamp, of |-> [c \in 1 .. chans |-> next[c - 1]]]
            /\ UNCHANGED stopRequired
    /\ UNCHANGED <<chans, handle, streams, ts_initial, flushed, trouble, starts>>

Next ==
    \/ OpenNone \/ OpenClose \/ OpenAntennas \/ Open \/ Delete
    \/ \E k \in 0 .. Len(Calls) - 1 : StartFails(k)
    \/ \E n \in 0 .. FlushLen : Start(n)
    \/ Stop
    \/ \E c \in Chans : Overrun(c) \/ ReadTimeout(c)
    \/ ReadSamples

Spec == Init /\ [][Next]_vars
-----------------------------------------------------------------------------
\* Whatever fails in open(), the device is closed once for every time it was
\* opened when the object is deleted, and never before that and again.
ClosedOnce == closed <= opened /\ (phase = "deleted" => closed = opened)

\* A device that is started has all its streams running, also when earlier
\* starts failed half way; one that is stopped has none and no channel
\* enabled, if no start() has failed.
StreamsFollow ==
    \A d \in Dirs, c \in Chans :
        /\ started => stream[d][c] = "running" /\ enabled[d][c]
        /\ ~started /\ ~spoilt => stream[d][c] = "none" /\ ~enabled[d][c]

\* With one channel, a complete flush and no trouble, a read returns the
\* samples of the time it is for, after every restart.
ReadsWhatIsAsked ==
    chans = 1 /\ flushed /\ ~trouble /\ got # Nothing => got.of = <<got.at>>

\* Streams are only set up while none is running.
\* Does not hold: a start() that fails after the first LMS_StartStream leaves
\* it running.
SetupBeforeStart == ~lateSetup

\* After a complete flush the samples read are those of the time asked for,
\* and the process is not made to stop as long as there is no trouble.
\* Does not hold with two channels: only the first one's queue is flushed.
StopsForTrouble == started /\ flushed /\ ~trouble => ~stopRequired
=============================================================================
