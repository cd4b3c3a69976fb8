----------------------------- MODULE MCDevices -----------------------------
(***************************************************************************)
(* Small instances of the device modules in one model: a behaviour picks   *)
(* a part of a device and takes the steps of that part. The transmit side  *)
(* of the UHD device keeps its own names, the others are instantiated.     *)
(***************************************************************************)
EXTENDS UhdTransmit

CONSTANTS
    NONE,
    \* receive side of the UHD device
    RxChans, BufLen, RxSpp, ReadLen, TsOffset, FlushPkts, StartDelay, MaxTick, ClockSteps,
    \* tuning of the UHD device
    TuneDevices, TuneChanCounts, Freqs, Mcr, LoOffset, MaxTunes,
    \* LimeSDR
    LmsChanCounts, FlushLen, LmsStarts, LmsReads,
    \* power
    PowerDevices, NumChans, MinGain, MaxGain, GainStep, Levels, Steps, MaxCmds, MaxTries,
    PowerStarts,
    \* the USRP1's reads
    RingLen, ClockWrap, PktLen, UsrpLen, MaxBatch, ClockDelay, UsrpStart, MaxTime, MaxPings, MaxLost,
    \* its start, stop and writes
    Payload, MaxPkts, Lens, TxWrap, Stamps, UsrpMaxStarts

VARIABLES
    part,
    \* receive side of the UHD device
    rxStarted, prev_ts, ts_initial, rx_buffers, tick, rxpc, readTimestamp, exited,
    written, goodFrom,
    \* its tuning
    dev_type, chans, lo, dsp, freqs, tuned, tune_lock, tunepc, job, tunes,
    \* LimeSDR
    lmsChans, m_lms_dev, opened, closed, phase, lmsStarted, enabled, stream, spoilt,
    lateSetup, next, lmsInitial, lmsRead, flushed, trouble, stopRequired, got, starts, reads,
    \* the USRP1's receive side, and its transmit side with start and stop
    data, dataStart, timeStart, timeEnd, timestampOffset, isAligned, hi32Timestamp,
    lastPktTimestamp, now, asked, usrpc, timestamp, batch, writer, pingTimestamp, pending,
    raced, missed, buf, outside, pings, lost,
    m_uRx, m_uTx, usrpOpened, usrpStarted, readBuffer, leaked, outPkt, usrpWritten, usrpStarts,
    \* power
    dev, on, gain, digital, mPower, xch, fresh, cmds, powerStarts

Rx == INSTANCE UhdReceive WITH
    Chans <- RxChans, buf_len <- BufLen, rx_spp <- RxSpp, ts_offset <- TsOffset,
    started <- rxStarted
rxVars == <<rxStarted, prev_ts, ts_initial, rx_buffers, tick, rxpc, readTimestamp, exited,
            written, goodFrom>>

Tune == INSTANCE UhdTune WITH
    Devices <- TuneDevices, ChanCounts <- TuneChanCounts, asked <- tuned, pc <- tunepc
tuneVars == <<dev_type, chans, lo, dsp, freqs, tuned, tune_lock, tunepc, job, tunes>>

Lms == INSTANCE LmsDevice WITH
    ChanCounts <- LmsChanCounts, MaxStarts <- LmsStarts, MaxReads <- LmsReads, chans <- lmsChans,
    started <- lmsStarted, ts_initial <- lmsInitial, readTimestamp <- lmsRead
lmsVars == <<lmsChans, m_lms_dev, opened, closed, phase, lmsStarted, enabled, stream, spoilt,
             lateSetup, next, lmsInitial, lmsRead, flushed, trouble, stopRequired, got, starts,
             reads>>

UsrpRx == INSTANCE UsrpRead WITH
    N <- RingLen, W <- ClockWrap, P <- PktLen, L <- UsrpLen, Delay <- ClockDelay,
    Start <- UsrpStart, pc <- usrpc
usrpRxVars == <<data, dataStart, timeStart, timeEnd, timestampOffset, isAligned, hi32Timestamp,
                lastPktTimestamp, now, asked, usrpc, timestamp, batch, writer, pingTimestamp,
                pending, raced, missed, buf, outside, pings, lost>>

Usrp == INSTANCE UsrpDevice WITH
    W <- TxWrap, MaxStarts <- UsrpMaxStarts, opened <- usrpOpened, started <- usrpStarted,
    data <- readBuffer, written <- usrpWritten, starts <- usrpStarts
usrpVars == <<m_uRx, m_uTx, usrpOpened, usrpStarted, readBuffer, leaked, outPkt, usrpWritten,
              usrpStarts>>

Power == INSTANCE TxPower WITH
    Devices <- PowerDevices, MaxStarts <- PowerStarts, starts <- powerStarts
powerVars == <<dev, on, gain, digital, mPower, xch, fresh, cmds, powerStarts>>

MCvars == <<part, vars, rxVars, tuneVars, lmsVars, usrpRxVars, usrpVars, powerVars>>

ASSUME DevicesAssumption ==
    /\ Rx!UhdAssumption /\ UsrpRx!UsrpAssumption /\ Usrp!UsrpDeviceAssumption
ASSUME LmsAssumption == Lms!LmsAssumption
ASSUME TuneAssumption == Tune!TuneAssumption
ASSUME PowerAssumption == Power!PowerAssumption
-----------------------------------------------------------------------------
Parts == {"transmit", "receive", "tune", "lms", "usrpRead", "usrp", "power"}

\* What is not looked at starts in one state.
MCInit ==
    /\ part \in Parts
    /\ IF part = "receive" THEN TRUE ELSE tick = 1
    /\ IF part = "tune" THEN TRUE ELSE dev_type = "B200" /\ chans = 1
    /\ IF part = "lms" THEN TRUE ELSE lmsChans = 1
    /\ IF part = "power" THEN TRUE ELSE dev = "UHD"
    /\ Init /\ Rx!Init /\ Tune!Init /\ Lms!Init /\ UsrpRx!Init /\ Usrp!Init /\ Power!Init

Others ==
    /\ UNCHANGED part
    /\ IF part = "transmit" THEN TRUE ELSE UNCHANGED vars
    /\ IF part = "receive" THEN TRUE ELSE UNCHANGED rxVars
    /\ IF part = "tune" THEN TRUE ELSE UNCHANGED tuneVars
    /\ IF part = "lms" THEN TRUE ELSE UNCHANGED lmsVars
    /\ IF part = "usrpRead" THEN TRUE ELSE UNCHANGED usrpRxVars
    /\ IF part = "usrp" THEN TRUE ELSE UNCHANGED usrpVars
    /\ IF part = "power" THEN TRUE ELSE UNCHANGED powerVars

MCNext ==
    \/ part = "transmit" /\ Next /\ Others
    \/ part = "receive" /\ Rx!Next /\ Others
    \/ part = "tune" /\ Tune!Next /\ Others
    \/ part = "lms" /\ Lms!Next /\ Others
    \/ part = "usrpRead" /\ UsrpRx!Next /\ Others
    \/ part = "usrp" /\ Usrp!Next /\ Others
    \/ part = "power" /\ Power!Next /\ Others

\* The fairness of UhdTransmit.
MCSpec == MCInit /\ [][MCNext]_MCvars /\ WF_MCvars(part = "transmit" /\ TxStep /\ Others)
-----------------------------------------------------------------------------
(* Properties of the instances *)

\* In every step the UHD device reads in time: the buffers of all channels are
\* in step, as only the first is asked; a read returns the samples of its
\* times, but for those in the buffer when a write found data_start = 0; and
\* rounded packet times do not add up.
UhdReadsInTime ==
    [][/\ (Rx!TypeOK /\ Rx!ChannelsInStep /\ Rx!ReadsItsTimesIfPlaced)'
       /\ Rx!NoDrift]_rxVars

\* A started LMS device has all its streams running, a stopped one none, it is
\* closed once for every time it was opened, and its reads return the samples
\* of their times.
LmsInv == Lms!StreamsFollow /\ Lms!ClosedOnce /\ Lms!ReadsWhatIsAsked

\* The USRP1's samples and packets have their times: the offset is the
\* difference of the clocks across their wraps, a read returns the sample of
\* each time or zero and stays in the ring, and the packets of a write carry
\* every sample once.
UsrpInv ==
    UsrpRx!OffsetRight /\ UsrpRx!SamplesOfTheirTimes /\ UsrpRx!InRing /\ Usrp!PacketsAreBlock

\* The device is set as the commands were answered: while nobody tunes, every
\* channel is where it was last asked to be, whichever channels share an
\* oscillator; the power of a channel is the level last reported for it, and
\* after a SETPOWER the level asked for.
SetAsAnswered == Tune!OnFrequency /\ Power!PowerAsReported /\ Power!SetIsLevel
=============================================================================
