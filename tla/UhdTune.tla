------------------------------ MODULE UhdTune ------------------------------
(***************************************************************************)
(* Tuning through UHD (uhd_device::select_freq, set_freq, setTxFreq and    *)
(* setRxFreq): the two channels of some devices share a local oscillator,  *)
(* so tuning one moves it between the two and tunes the other again. Each  *)
(* channel has its control thread. UHD's part, external: a request without *)
(* a policy puts the oscillator on the target, the digital tuner makes up  *)
(* the rest, and get_tx_freq() adds both.                                  *)
(***************************************************************************)
EXTENDS Integers, FiniteSets

CONSTANTS
    Devices,        \* device types, from B200, B210, E3XX, X3XX, UMTRX
    ChanCounts,
    Freqs,          \* the frequencies asked for; even, so that centres are whole
    Mcr,            \* the master clock rate of the B210, the largest spread
    LoOffset,       \* the configured lo_offset, or 0
    MaxTunes        \* bound: commands per channel

\* What the constants are; assumed where the module is instantiated.
TuneAssumption ==
    /\ Devices \subseteq {"B200", "B210", "E3XX", "X3XX", "UMTRX"}
    /\ ChanCounts \subseteq {1, 2} /\ Freqs \subseteq Nat \ (0 .. 9)
    /\ Mcr \in Nat /\ LoOffset \in Nat /\ MaxTunes \in Nat

Dirs == {"tx", "rx"}

VARIABLES
    dev_type, chans,
    lo, dsp,        \* direction -> channel -> the hardware's setting
    freqs,          \* tx_freqs and rx_freqs
    asked,          \* the frequency last answered with success, or 0
    tune_lock,      \* the channel whose thread holds it, or -1
    pc, job, tunes

vars == <<dev_type, chans, lo, dsp, freqs, asked, tune_lock, pc, job, tunes>>

Chans == 0 .. chans - 1
Other(c) == 1 - c
NoJob == [d |-> "tx", f |-> 0]

Init ==
    /\ dev_type \in Devices /\ chans \in ChanCounts
    /\ dev_type = "B200" => chans = 1
    /\ lo = [d \in Dirs |-> [c \in Chans |-> 0]] /\ dsp = lo /\ freqs = lo /\ asked = lo
    /\ tune_lock = -1 /\ pc = [c \in Chans |-> "idle"] /\ job = [c \in Chans |-> NoJob]
    /\ tunes = [c \in Chans |-> 0]
-----------------------------------------------------------------------------
\* Both channels have one oscillator.
SharedLo == dev_type \in {"B210", "E3XX"}

\* A tune request: manual is the policy for the oscillator.
Auto(f) == [target |-> f, manual |-> FALSE, rf |-> f]
Manual(f, rf) == [target |-> f, manual |-> TRUE, rf |-> rf]

\* Mutant of select_freq: the centre is that of the frequencies as they were.
select_freqOld(f, c, d) ==
    IF chans = 1 THEN IF LoOffset = 0 THEN Auto(f) ELSE Manual(f, f + LoOffset)
    ELSE IF dev_type # "B210" \/ freqs[d][Other(c)] < 10 THEN Auto(f)
    ELSE Manual(f, (freqs[d][Other(c)] + freqs[d][c]) \div 2)

select_freq(f, c, d) ==
    LET other == freqs[d][Other(c)]
        spread == IF other > f THEN other - f ELSE f - other
    IN  IF dev_type = "UMTRX" THEN Manual(f, f + LoOffset)
        ELSE IF chans = 1 THEN IF LoOffset = 0 THEN Auto(f) ELSE Manual(f, f + LoOffset)
        ELSE IF dev_type # "B210" THEN Auto(f)          \* "channels unsupported"
        ELSE IF other < 10 THEN Auto(f)                 \* the other is not tuned
        ELSE IF spread > Mcr THEN Auto(f)               \* "spread not supported"
        ELSE Manual(f, (other + f) \div 2)

\* UHD: set_tx_freq() or set_rx_freq(), then get_tx_freq() or get_rx_freq().
Apply(treq, c, d) ==
    /\ lo' = [lo EXCEPT ![d] = [x \in Chans |-> IF x = c \/ SharedLo THEN treq.rf ELSE lo[d][x]]]
    /\ dsp' = [dsp EXCEPT ![d][c] = treq.target - treq.rf]
    /\ freqs' = [freqs EXCEPT ![d][c] = lo'[d][c] + dsp'[d][c]]

\* TXTUNE or RXTUNE comes to setTxFreq() or setRxFreq().
Command(c, d, f) ==
    /\ pc[c] = "idle" /\ tunes[c] < MaxTunes
    /\ job' = [job EXCEPT ![c] = [d |-> d, f |-> f]]
    /\ tunes' = [tunes EXCEPT ![c] = @ + 1]
    /\ pc' = [pc EXCEPT ![c] = "lock"]
    /\ UNCHANGED <<dev_type, chans, lo, dsp, freqs, asked, tune_lock>>

Lock(c) ==
    /\ pc[c] = "lock" /\ tune_lock = -1 /\ tune_lock' = c
    /\ pc' = [pc EXCEPT ![c] = "tune"]
    /\ UNCHANGED <<dev_type, chans, lo, dsp, freqs, asked, job, tunes>>

\* set_freq(): the channel itself. With a manual policy the other follows.
Tune(c) ==
    LET d == job[c].d  treq == select_freq(job[c].f, c, d)
    IN  /\ pc[c] = "tune"
        /\ Apply(treq, c, d)
        /\ pc' = [pc EXCEPT ![c] = IF chans = 2 /\ dev_type # "UMTRX" /\ treq.manual
                                   THEN "retune" ELSE "answer"]
        /\ UNCHANGED <<dev_type, chans, asked, tune_lock, job, tunes>>

Retune(c) ==
    LET d == job[c].d  o == Other(c)
    IN  /\ pc[c] = "retune"
        /\ Apply(select_freq(freqs[d][o], o, d), o, d)
        /\ pc' = [pc EXCEPT ![c] = "answer"]
        /\ UNCHANGED <<dev_type, chans, asked, tune_lock, job, tunes>>

\* set_freq() returns true whatever happened.
Answer(c) ==
    /\ pc[c] = "answer" /\ tune_lock' = -1
    /\ asked' = [asked EXCEPT ![job[c].d][c] = job[c].f]
    /\ pc' = [pc EXCEPT ![c] = "idle"] /\ job' = [job EXCEPT ![c] = NoJob]
    /\ UNCHANGED <<dev_type, chans, lo, dsp, freqs, tunes>>

Next == \E c \in Chans :
            \/ \E d \in Dirs, f \in Freqs : Command(c, d, f)
            \/ Lock(c) \/ Tune(c) \/ Retune(c) \/ Answer(c)

Spec == Init /\ [][Next]_vars
-----------------------------------------------------------------------------
OnTarget(d, c) == asked[d][c] # 0 => lo[d][c] + dsp[d][c] = asked[d][c]

\* What the code says it supports: one channel, separate oscillators, or a
\* B210 with its two frequencies no further apart than the clock rate.
Supported(d) ==
    \/ chans = 1 \/ dev_type \in {"X3XX", "UMTRX"}
    \/ /\ dev_type = "B210"
       /\ \A c, o \in Chans : asked[d][c] # 0 /\ asked[d][o] # 0 => asked[d][c] - asked[d][o] <= Mcr

\* While nobody tunes, every channel is where it was last asked to be, however
\* the commands of the two channels' threads interleave and in whatever order
\* the frequencies come, also after a request for too large a spread.
OnFrequency ==
    tune_lock = -1 => \A d \in Dirs : Supported(d) => \A c \in Chans : OnTarget(d, c)

\* A tune command answered with success has tuned its channel, and no other.
\* Does not hold for frequencies further apart than the clock rate.
SuccessMeansTuned == tune_lock = -1 => \A d \in Dirs, c \in Chans : OnTarget(d, c)
=============================================================================
