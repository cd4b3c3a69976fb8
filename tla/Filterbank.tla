----------------------------- MODULE Filterbank -----------------------------
(***************************************************************************)
(* The polyphase filter banks of the multi-carrier interface               *)
(* (ChannelizerBase.cpp, Channelizer.cpp, Synthesis.cpp): one splits the   *)
(* wide stream into m channels, one makes the wide stream out of m         *)
(* channels, block after block. Both work in the FFT's own buffers, with   *)
(* the history in front. A sample is its place in its stream, a filtered   *)
(* one holds the set of <<sample, tap>> it sums, a transformed one the     *)
(* function of what went into its DFT; coefficients are left out.          *)
(***************************************************************************)
EXTENDS Integers, Sequences

CONSTANTS
    M,                  \* channels (MCHANS)
    MaxTaps, MaxBlock,  \* bounds: hLen, blockLen
    MaxBlocks           \* bound: blocks in a stream

\* What the constants are; assumed where the module is instantiated.
BankAssumption == {M, MaxTaps, MaxBlock, MaxBlocks} \subseteq Nat \ {0}

VARIABLES
    synthesis,          \* the object is a Synthesis, not a Channelizer
    hLen, blockLen,
    active,             \* the channels RadioInterfaceMulti uses
    subFilters,
    hInputs, hOutputs,  \* the FFT's output, with head room, and its input
    hist,
    blocks, out         \* blocks done, and the last one's output

vars == <<synthesis, hLen, blockLen, active, subFilters, hInputs, hOutputs, hist, blocks, out>>

Chans == 0 .. M - 1
Zero == <<>>
Times == 0 .. blockLen - 1

\* initFilters(): tap i of branch n, stored in reverse.
InitFilters(len) == [n \in Chans |-> [i \in 0 .. len - 1 |-> (len - 1 - i) * M + n]]

\* init(), initFFT() and mapBuffers(): buffers and history are zero. The
\* blocks are no shorter than the filters.
Init ==
    /\ synthesis \in BOOLEAN
    /\ hLen \in 1 .. MaxTaps /\ blockLen \in hLen .. MaxBlock /\ active \in SUBSET Chans
    /\ subFilters = InitFilters(hLen)
    /\ hInputs = [c \in Chans |-> [i \in -hLen .. blockLen - 1 |-> Zero]]
    /\ hOutputs = [c \in Chans |-> [i \in Times |-> Zero]]
    /\ hist = [c \in Chans |-> [i \in 0 .. hLen - 1 |-> Zero]]
    /\ blocks = 0 /\ out = <<>>
-----------------------------------------------------------------------------
checkLen(outer) == outer = blockLen * M

\* deinterleave(): the input in the branches, the first sample in the last.
Deinterleave(in) ==
    [b \in Chans |-> [i \in -hLen .. blockLen - 1 |->
        IF i < 0 THEN hInputs[b][i] ELSE in[i * M + (M - 1 - b)]]]

\* interleave(): the branches' outputs in turn.
Interleave(o) == [u \in 0 .. blockLen * M - 1 |-> o[u % M][u \div M]]

\* Mutant of WithHistory: the block's end is used, not the last block's.
WithHistoryLate(x) ==
    [b \in Chans |-> [i \in DOMAIN x[b] |-> IF i < 0 THEN x[b][blockLen + i] ELSE x[b][i]]]

\* The memcpy() of the history to the head of every branch.
WithHistory(x) ==
    [b \in Chans |-> [i \in DOMAIN x[b] |-> IF i < 0 THEN hist[b][hLen + i] ELSE x[b][i]]]

\* The memcpy() of the end of every branch to the history.
SaveHistory(x) == [b \in Chans |-> [i \in 0 .. hLen - 1 |-> x[b][blockLen - hLen + i]]]

\* convolve_real() of branch b with its filter.
Convolved(x, b) ==
    [i \in Times |-> <<{<<x[b][i - (hLen - 1) + j], subFilters[b][j]>> : j \in 0 .. hLen - 1}>>]

\* cxvec_fft(): output c at time i is a sum over all inputs at time i.
Fft(in) ==
    [c \in Chans |-> [i \in -hLen .. blockLen - 1 |->
        IF i < 0 THEN hInputs[c][i] ELSE <<c, [b \in Chans |-> in[b][i]]>>]]

\* Channelizer::rotate(); the outputs are read from hInputs.
Channelize ==
    /\ ~synthesis /\ blocks < MaxBlocks
    /\ LET in == [u \in 0 .. blockLen * M - 1 |-> <<blocks * blockLen * M + u>>]
           x  == WithHistory(Deinterleave(in))
           filtered == [b \in Chans |-> Convolved(x, b)]
       IN  /\ checkLen(blockLen * M)
           /\ hist' = SaveHistory(x)
           /\ hOutputs' = filtered
           /\ hInputs' = [c \in Chans |-> [i \in DOMAIN x[c] |->
                                IF i < 0 THEN x[c][i] ELSE Fft(filtered)[c][i]]]
           /\ out' = <<>>
    /\ blocks' = blocks + 1
    /\ UNCHANGED <<synthesis, hLen, blockLen, active, subFilters>>

\* The channels' input buffers before rotate(): RadioInterfaceMulti's
\* pushBuffer() resamples into those of the active channels and calls
\* resetBuffer() for the others.
Filled ==
    [c \in Chans |-> [i \in Times |-> IF c \in active THEN <<c, blocks * blockLen + i>>
                                      ELSE Zero]]

\* Synthesis::rotate()
Synthesize ==
    /\ synthesis /\ blocks < MaxBlocks
    /\ LET x == WithHistory(Fft(Filled))
           filtered == [b \in Chans |-> Convolved(x, b)]
       IN  /\ checkLen(blockLen * M)
           /\ hist' = SaveHistory(x)
           /\ hInputs' = x
           /\ hOutputs' = filtered
           /\ out' = Interleave(filtered)
    /\ blocks' = blocks + 1
    /\ UNCHANGED <<synthesis, hLen, blockLen, active, subFilters>>

Next == Channelize \/ Synthesize

Spec == Init /\ [][Next]_vars
-----------------------------------------------------------------------------
Sounding(sum) == {x \in sum[1] : x[1] # Zero}
LastTime(i) == (blocks - 1) * blockLen + i

\* What branch b of the channelizer gives the DFT at time t: the wide input
\* filtered by the prototype, at the last sample of the m of that time.
IdealBranch(b, t) ==
    {<<<<x[1]>>, x[2]>> : x \in {y \in (0 .. M * (t + 1)) \X (0 .. M * hLen - 1) :
                                     y[1] + y[2] = t * M + M - 1 /\ y[2] % M = b}}

\* Channelizing in blocks is channelizing the stream: every output of every
\* channel is the DFT over all branches of the stream filtered to that time.
ChannelizedStream ==
    ~synthesis /\ blocks > 0 =>
        \A c \in Chans, i \in Times :
            /\ hInputs[c][i][1] = c
            /\ \A b \in Chans : Sounding(hInputs[c][i][2][b]) = IdealBranch(b, LastTime(i))

\* Synthesizing in blocks is synthesizing the stream, and a channel that is
\* not in use is silent: sample u of the wide output sums, with tap k, the
\* DFT of the active channels at time t wherever t * m + k = u.
SynthesizedStream ==
    synthesis /\ blocks > 0 =>
        \A u \in DOMAIN out :
            LET w == (blocks - 1) * blockLen * M + u
                dft(t) == [c \in Chans |-> IF c \in active THEN <<c, t>> ELSE Zero]
            IN  Sounding(out[u]) =
                {<<<<w % M, dft(y[1])>>, y[2]>> :
                    y \in {z \in (0 .. w \div M) \X (0 .. M * hLen - 1) : z[1] * M + z[2] = w}}
=============================================================================
