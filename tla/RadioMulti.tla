----------------------------- MODULE RadioMulti -----------------------------
(***************************************************************************)
(* The multi-carrier interface (RadioInterfaceMulti): logical channels on  *)
(* neighbouring carriers share one device channel, through the branches of *)
(* the filter banks (module Filterbank). This module has the assignment of *)
(* channels to branches, the tuning, and the history with which            *)
(* pullBuffer() resamples what the channelizer gives. Frequencies are in   *)
(* units of MCBTS_SPACING; a sample is its time in its channel.            *)
(***************************************************************************)
EXTENDS Integers, FiniteSets

CONSTANTS
    MCHANS,             \* branches of the filter banks
    ChanCounts,         \* configured numbers of channels
    Freqs,              \* the frequencies asked for
    CLen, HLen,         \* samples in a block, taps of the resampler
    MaxPulls            \* bound: blocks pulled

\* What the constants are; assumed where the module is instantiated.
MultiAssumption ==
    /\ {MCHANS, CLen, HLen} \subseteq Nat \ {0} /\ HLen <= CLen
    /\ ChanCounts \subseteq Nat \ {0} /\ Freqs \subseteq Nat \ {0} /\ MaxPulls \in Nat

Dirs == {"tx", "rx"}
Pchans == 0 .. MCHANS - 1

VARIABLES
    mChans, up, active,
    centre,         \* direction -> the device's frequency, 0 before a tune
    asked,          \* direction -> channel -> last frequency accepted, or 0
    history,        \* channel -> the samples kept for the next block
    window,         \* channel -> what the resampler was last given
    pulls

vars == <<mChans, up, active, centre, asked, history, window, pulls>>

Chans == 0 .. mChans - 1
Silence == -1
-----------------------------------------------------------------------------
getLogicalChan(pchan, chans) ==
    CASE chans \in {1, 2} /\ pchan = 0 -> 0
      [] chans = 2 /\ pchan = 3 -> 1
      [] chans = 3 /\ pchan = 1 -> 0
      [] chans = 3 /\ pchan = 0 -> 1
      [] chans = 3 /\ pchan = 3 -> 2
      [] OTHER -> -1

getFreqShift(chans) == CASE chans \in {1, 2} -> 0 [] chans = 3 -> 1 [] OTHER -> -1

\* init(): the branches in use.
ActiveChans(chans) == CASE chans = 1 -> {0} [] chans = 2 -> {0, 3} [] OTHER -> {0, 1, 3}

\* init() refuses MCHANS channels and more, before it allocates anything.
Init ==
    /\ mChans \in ChanCounts
    /\ up = (mChans <= MCHANS - 1)
    /\ active = IF up THEN ActiveChans(mChans) ELSE {}
    /\ centre = [d \in Dirs |-> 0] /\ asked = [d \in Dirs |-> [c \in Chans |-> 0]]
    /\ history = [c \in Chans |-> [i \in 0 .. HLen - 1 |-> Silence]]
    /\ window = [c \in Chans |-> [i \in -HLen .. CLen - 1 |-> Silence]]
    /\ pulls = 0

\* tuneTx() and tuneRx(): channel 0 tunes the device, which may fail (not
\* ok); the others accept every frequency, and log one that does not fit.
tune(d, freq, chan, ok) ==
    /\ up /\ chan < mChans
    /\ centre' = IF chan = 0 /\ ok THEN [centre EXCEPT ![d] = freq + getFreqShift(mChans)]
                 ELSE centre
    /\ asked' = IF chan # 0 \/ ok THEN [asked EXCEPT ![d][chan] = freq] ELSE asked
    /\ UNCHANGED <<mChans, up, active, history, window, pulls>>

\* What rotate() leaves in branch pchan: sample i of this block.
Branch(i) == pulls * CLen + i

\* The channels the loop over the branches comes to.
Lchans == {getLogicalChan(p, mChans) : p \in active} \ {-1}

\* pullBuffer(), for the branches in use: the history is written before the
\* block. Then fdst points at the block's first sample and is not moved, so
\* the history becomes HLen copies of that one.
pullBuffer ==
    /\ up /\ pulls < MaxPulls
    /\ window' = [c \in Chans |-> IF c \notin Lchans THEN window[c]
                        ELSE [i \in -HLen .. CLen - 1 |->
                                IF i < 0 THEN history[c][HLen + i] ELSE Branch(i)]]
    /\ history' = [c \in Chans |-> IF c \notin Lchans THEN history[c]
                        ELSE [i \in 0 .. HLen - 1 |-> Branch(0)]]
    /\ pulls' = pulls + 1
    /\ UNCHANGED <<mChans, up, active, centre, asked>>

Next ==
    \/ \E d \in Dirs, f \in Freqs, c \in Chans, ok \in BOOLEAN : tune(d, f, c, ok)
    \/ pullBuffer

Spec == Init /\ [][Next]_vars
-----------------------------------------------------------------------------
\* The carrier of a branch: the filter banks use a forward DFT, so branch p
\* turns by -p / MCHANS of a turn per sample.
Offset(p) == CHOOSE o \in -((MCHANS - 1) \div 2) .. MCHANS \div 2 : (o + p) % MCHANS = 0

Carriers(c) == {p \in active : getLogicalChan(p, mChans) = c}

\* Each channel has one branch, and once its neighbours are asked for in
\* steps of the spacing, in any order and with repeats and failures between,
\* the branch is on the frequency the channel was asked for.
CarriersWhereAsked ==
    up => \A c \in Chans :
        /\ Cardinality(Carriers(c)) = 1
        /\ \A d \in Dirs :
            (asked[d][0] # 0 /\ asked[d][c] = asked[d][0] + c) =>
                \A p \in Carriers(c) : centre[d] + Offset(p) = asked[d][c]

\* Every block is resampled with the end of the block before it in front.
\* Does not hold: the loop reads from the pointer that it does not advance.
HeadIsHistory ==
    pulls > 1 => \A c \in Chans, i \in -HLen .. -1 : window[c][i] = (pulls - 1) * CLen + i

\* All channels advance together, and none gets a sample twice or too late:
\* after a pull each channel's window ends with the block just read.
BlockOfEveryChannel ==
    up /\ pulls > 0 => \A c \in Chans, i \in 0 .. CLen - 1 : window[c][i] = (pulls - 1) * CLen + i
=============================================================================
