----------------------------- MODULE Resampler -----------------------------
(***************************************************************************)
(* The polyphase resampler (Resampler.cpp) and the vector with head room   *)
(* that RadioInterfaceResamp feeds it from (signalVector.cpp): the rate    *)
(* becomes p/q, block after block. A sample is its index in the input      *)
(* stream, a tap its index in the prototype filter, and an output the set  *)
(* of the products it sums; coefficients and arithmetic are left out.      *)
(***************************************************************************)
EXTENDS Integers, Sequences

CONSTANTS
    MaxRate, MaxTaps, MaxBlock,     \* bounds: p and q, filt_len, blocks of q
    MAX_OUTPUT_LEN,
    MaxBlocks                       \* bound: blocks pulled

\* What the constants are; assumed where the module is instantiated.
ResamplerAssumption ==
    {MaxRate, MaxTaps, MaxBlock, MAX_OUTPUT_LEN, MaxBlocks} \subseteq Nat \ {0}

VARIABLES
    p, q, filt_len,
    in_len, out_len,
    in_index, out_path, partitions,
    buf,            \* the vector: head room at the negative indices
    blocks,         \* blocks given to rotate()
    out             \* the output stream

vars == <<p, q, filt_len, in_len, out_len, in_index, out_path, partitions, buf, blocks, out>>

Silence == -1       \* a sample that is zero
Unwritten == {<<"unwritten">>}
-----------------------------------------------------------------------------
\* initFilters(): tap i of partition n, stored in reverse.
InitFilters(pp, len) ==
    [n \in 0 .. pp - 1 |-> [i \in 0 .. len - 1 |-> (len - 1 - i) * pp + n]]

\* init(): the precomputed input and filter of every output.
InitPaths(pp, qq) ==
    <<[i \in 0 .. MAX_OUTPUT_LEN - 1 |-> (qq * i) \div pp],
      [i \in 0 .. MAX_OUTPUT_LEN - 1 |-> (qq * i) % pp]>>

\* Lengths are multiples as in RadioInterfaceResamp::init(), and some are
\* not; a block has at least as many samples as the filter has taps.
Init ==
    /\ p \in 1 .. MaxRate /\ q \in 1 .. MaxRate /\ filt_len \in 1 .. MaxTaps
    /\ \E k \in 1 .. MaxBlock : in_len \in {k * q, k * q + 1} /\ out_len = k * p
    /\ in_len >= filt_len
    /\ in_index = InitPaths(p, q)[1] /\ out_path = InitPaths(p, q)[2]
    /\ partitions = InitFilters(p, filt_len)
    /\ buf = [i \in -filt_len .. in_len - 1 |-> Silence]
    /\ blocks = 0 /\ out = <<>>

check_vec_len ==
    /\ in_len % q = 0 /\ out_len % p = 0
    /\ in_len \div q = out_len \div p
    /\ out_len <= MAX_OUTPUT_LEN

\* convolve_real() of one output, which starts at x[n].
Convolved(x, n, taps) ==
    {<<x[n - (filt_len - 1) + j], taps[j]>> : j \in 0 .. filt_len - 1}

\* rotate(): its outputs, or what was in memory if the lengths are refused.
rotate(x) ==
    [i \in 1 .. out_len |->
        IF check_vec_len THEN Convolved(x, in_index[i - 1], partitions[out_path[i - 1]])
        ELSE Unwritten]

\* Mutant of updateHistory: the head of the block is kept.
updateHistoryHead(x) ==
    [i \in DOMAIN x |-> IF i < 0 THEN x[filt_len + i] ELSE x[i]]

updateHistory(x) ==
    [i \in DOMAIN x |-> IF i < 0 THEN x[in_len + i] ELSE x[i]]

\* RadioInterfaceResamp::pullBuffer(): the block is converted into the
\* vector, resampled, and its end becomes the history of the next.
PullBuffer ==
    /\ blocks < MaxBlocks
    /\ LET x == [i \in DOMAIN buf |-> IF i < 0 THEN buf[i] ELSE blocks * in_len + i]
       IN  /\ out' = out \o rotate(x)
           /\ buf' = updateHistory(x)
    /\ blocks' = blocks + 1
    /\ UNCHANGED <<p, q, filt_len, in_len, out_len, in_index, out_path, partitions>>

Next == PullBuffer

Spec == Init /\ [][Next]_vars
-----------------------------------------------------------------------------
\* The products in output o of the ideal resampler: the input with p - 1
\* zeros after each sample, filtered by the prototype, every q-th kept.
Ideal(o) ==
    {x \in (0 .. blocks * in_len) \X (0 .. p * filt_len - 1) : x[1] * p + x[2] = q * o}

Sounding(products) == {x \in products : x[1] # Silence}

\* Resampling in blocks is resampling the stream: whatever the rates, the
\* taps and the size of the blocks, outputs at block borders included.
BlocksAreStream ==
    check_vec_len => \A o \in 1 .. Len(out) : Sounding(out[o]) = Ideal(o - 1)

\* Lengths that are accepted never reach past the precomputed tables or the
\* block, and those that are not leave the output alone.
InsideBlock ==
    /\ check_vec_len => \A i \in 0 .. out_len - 1 : i \in DOMAIN in_index /\ in_index[i] < in_len
    /\ ~check_vec_len => \A o \in 1 .. Len(out) : out[o] = Unwritten
=============================================================================
