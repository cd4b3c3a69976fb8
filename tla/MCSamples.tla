----------------------------- MODULE MCSamples -----------------------------
(***************************************************************************)
(* Small instances of everything between samples and bursts in one model:  *)
(* a behaviour picks a part and takes the steps of that part. Detect and   *)
(* SigVector keep their own names, the others are instantiated.            *)
(***************************************************************************)
EXTENDS Detect, SigVector

CONSTANTS
    \* calls of the convolution; floats, the range of shorts, scales
    Calls, Spare, MaxFloats, Half, MaxValue, Scales,
    \* the resampler's and the filter banks' bounds
    MaxRate, MaxTaps, MaxBlock, MAX_OUTPUT_LEN, MaxBlocks, BankTaps, BankBlock, BankBlocks,
    \* the interfaces: types, channels, devices that may fail, bursts per start
    MCHANS, SendTypes, SendChans, Failing, StartTimestamp, SendBursts,
    \* the multi-carrier interface: channels, frequencies, blocks
    MultiChans, Freqs, CLen, HLen, MultiPulls

\* From before a burst that could be found to behind the longest delay.
MCLate == -7 .. 70
MCDelays == (-16 .. 16) \X {0, 3}

\* Every number of taps that has a kernel of its own; arguments at and beyond
\* their limits.
MCCalls ==
    ({3, 4, 8, 12, 16, 20, 24} \X {3} \X {1} \X {2})
    \cup ({0, 1, 3, 4} \X (0 .. 3) \X {0, 1, 3, 4} \X (0 .. 4))

VARIABLES
    part,
    filler, sps, delay, table, sent,                                        \* modulator
    complex, sse3, h_len, x_len, y_len, start, len, xAt, hAt, y, rc,        \* convolution
    sse, floatsLen, scale, at, value, shorts, floats,                       \* conversion
    p, q, filt_len, in_len, out_len, in_index, out_path, partitions, buf,   \* resampler
    rotated, resampled,
    synthesis, hLen, blockLen, active, subFilters, hInputs, hOutputs, hist, \* filter banks
    blocks, out,
    devType, mChans, txSPS, rxSPS, ready, heap, sendBuffer, recvBuffer,     \* sending
    sending, pushing, ringed, writeTimestamp, tn, bursts, taken, dropped, last,
    arfcns, up, branches, centre, asked, history, window, pulled            \* multi-ARFCN

\* The delays that the VTY takes (cfg_test_rach_delay).
Mod == INSTANCE Modulator WITH Delays <- 0 .. 68
modVars == <<filler, sps, delay, table, sent>>

Conv == INSTANCE Convolve
convVars == <<complex, sse3, h_len, x_len, y_len, start, len, xAt, hAt, y, rc>>

Cvt == INSTANCE Convert WITH MaxLen <- MaxFloats, len <- floatsLen
cvtVars == <<sse, floatsLen, scale, at, value, shorts, floats>>

Rs == INSTANCE Resampler WITH blocks <- rotated, out <- resampled
rsVars == <<p, q, filt_len, in_len, out_len, in_index, out_path, partitions, buf, rotated,
            resampled>>

Bank == INSTANCE Filterbank WITH
    M <- MCHANS, MaxTaps <- BankTaps, MaxBlock <- BankBlock, MaxBlocks <- BankBlocks
bankVars == <<synthesis, hLen, blockLen, active, subFilters, hInputs, hOutputs, hist, blocks,
              out>>

Send == INSTANCE RadioSend WITH
    Types <- SendTypes, ChanCounts <- SendChans, MaxBursts <- SendBursts,
    type <- devType, mSPSTx <- txSPS, mSPSRx <- rxSPS, mOn <- sending, avail <- ringed
sendVars == <<devType, mChans, txSPS, rxSPS, ready, heap, sendBuffer, recvBuffer, sending,
              pushing, ringed, writeTimestamp, tn, bursts, taken, dropped, last>>

Multi == INSTANCE RadioMulti WITH
    ChanCounts <- MultiChans, MaxPulls <- MultiPulls, mChans <- arfcns, active <- branches,
    pulls <- pulled
multiVars == <<arfcns, up, branches, centre, asked, history, window, pulled>>

ASSUME SamplesAssumption ==
    /\ Mod!DelaysAssumption /\ Conv!ConvolveAssumption
    /\ Cvt!ConvertAssumption /\ Rs!ResamplerAssumption /\ Bank!BankAssumption
    /\ Send!SendAssumption /\ Multi!MultiAssumption
-----------------------------------------------------------------------------
Parts == {"detect", "vector", "modulator", "convolve", "convert", "resampler", "bank",
          "send", "multi"}

\* What is not looked at starts in one state.
MCInit ==
    /\ part \in Parts
    /\ IF part = "detect" THEN TRUE
       ELSE /\ burst = [kind |-> "other", late |-> 0, marks |-> {}]
            /\ type = "TSC" /\ max_toa = 0 /\ n = 156
    /\ IF part = "vector" THEN TRUE ELSE size = 1 /\ room = 0
    /\ IF part = "modulator" THEN TRUE ELSE filler = "ZERO" /\ sps = 1 /\ delay = 0
    /\ IF part = "convolve" THEN TRUE
       ELSE /\ complex = FALSE /\ sse3 = FALSE /\ h_len = 3 /\ y_len = 3
            /\ start = 1 /\ len = 2 /\ xAt = 0 /\ hAt = 0
    /\ IF part = "convert" THEN TRUE
       ELSE sse = FALSE /\ floatsLen = 1 /\ scale = 1 /\ at = 0 /\ value = 0
    /\ IF part = "resampler" THEN TRUE
       ELSE p = 1 /\ q = 1 /\ filt_len = 1 /\ in_len = 1 /\ out_len = 1
    /\ IF part = "bank" THEN TRUE ELSE synthesis = FALSE /\ hLen = 1 /\ blockLen = 1 /\ active = {}
    /\ IF part = "send" THEN TRUE ELSE devType = "NORMAL" /\ mChans = 1 /\ txSPS = 1 /\ rxSPS = 1
    /\ IF part = "multi" THEN TRUE ELSE arfcns = 1
    /\ DetectInit /\ VectorInit
    /\ Mod!Init /\ Conv!Init /\ Cvt!Init /\ Rs!Init /\ Bank!Init /\ Send!Init /\ Multi!Init

Others ==
    /\ UNCHANGED part
    /\ IF part = "detect" THEN TRUE ELSE UNCHANGED detectVars
    /\ IF part = "vector" THEN TRUE ELSE UNCHANGED vectorVars
    /\ IF part = "modulator" THEN TRUE ELSE UNCHANGED modVars
    /\ IF part = "convolve" THEN TRUE ELSE UNCHANGED convVars
    /\ IF part = "convert" THEN TRUE ELSE UNCHANGED cvtVars
    /\ IF part = "resampler" THEN TRUE ELSE UNCHANGED rsVars
    /\ IF part = "bank" THEN TRUE ELSE UNCHANGED bankVars
    /\ IF part = "send" THEN TRUE ELSE UNCHANGED sendVars
    /\ IF part = "multi" THEN TRUE ELSE UNCHANGED multiVars

MCNext ==
    \/ part = "detect" /\ DetectNext /\ Others
    \/ part = "vector" /\ VectorNext /\ Others
    \/ part = "modulator" /\ Mod!Next /\ Others
    \/ part = "convolve" /\ Conv!Next /\ Others
    \/ part = "convert" /\ Cvt!Next /\ Others
    \/ part = "resampler" /\ Rs!Next /\ Others
    \/ part = "bank" /\ Bank!Next /\ Others
    \/ part = "send" /\ Send!Next /\ Others
    \/ part = "multi" /\ Multi!Next /\ Others

MCvars == <<part, detectVars, vectorVars, modVars, convVars, cvtVars, rsVars, bankVars, sendVars,
            multiVars>>

MCSpec == MCInit /\ [][MCNext]_MCvars
-----------------------------------------------------------------------------
(* Properties of the instances *)

\* The modulators and vector routines stay inside their memory, but for one
\* symbol of padding: every delay that the VTY takes gives a burst of the
\* right length with its training sequence in place, and only an access burst
\* of the largest delay is written past its end, by that symbol; convolutions
\* and delays read what is allocated, and fail only when they must.
VectorsFit ==
    /\ Mod!OnlyPaddingOutside /\ Mod!FrameLength /\ Mod!TrainingAligned /\ Mod!FillerExists
    /\ ReadsAllocated /\ DelayIsShift /\ FailsOnlyWhenShort

\* Every kernel computes what the plain code does, on every processor: the
\* convolution; each sample converted in its place, saturated in whole groups;
\* a refused call writes nothing.
KernelsCompute ==
    /\ Conv!SameAsReference /\ Conv!WritesInside
    /\ Cvt!EveryPlaceClose /\ Cvt!GroupsSaturate /\ Cvt!EveryPlaceBack

\* Working in blocks is working on the stream: resampler, channelizer and
\* synthesis bank, whose branches are the carriers asked for.
BlocksAreStream ==
    /\ Rs!BlocksAreStream /\ Rs!InsideBlock
    /\ Bank!ChannelizedStream /\ Bank!SynthesizedStream
    /\ Multi!CarriersWhereAsked /\ Multi!BlockOfEveryChannel

\* What is sent has its time: the timestamp of a segment is that of its first
\* sample, no burst is refused for want of room, and close() gives back all
\* that init() allocated, but for what it forgets.
SentInTime == Send!SegmentsOnTime /\ Send!NothingDropped /\ Send!CloseForgets
=============================================================================
