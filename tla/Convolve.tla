------------------------------ MODULE Convolve ------------------------------
(***************************************************************************)
(* Convolution with real and with complex taps: the API of x86/convolve.c, *)
(* which checks the bounds, clears the output and calls the kernel for the *)
(* number of taps, the SSE kernels (convolve_sse_3.c) and the plain ones   *)
(* (common/convolve_base.c). Complex numbers are pairs of consecutive      *)
(* numbers, and numbers are integers: rounding is not modelled. A kernel   *)
(* is linear in the samples and in the taps, so that it is right for all   *)
(* inputs if it is for one nonzero sample and one nonzero tap, at every    *)
(* pair of places: those are the inputs.                                   *)
(***************************************************************************)
EXTENDS Integers, Sequences

CONSTANTS
    Calls,          \* h_len, y_len and the arguments start and len
    Spare           \* input samples more than taps

\* What the constants are; assumed where the module is instantiated.
ConvolveAssumption ==
    /\ Calls \subseteq Nat \X Nat \X Nat \X Nat /\ Spare \in Nat

VARIABLES
    complex,        \* convolve_complex() is called, not convolve_real()
    sse3,           \* what convolve_init() found
    h_len, x_len, y_len, start, len,
    xAt, hAt,       \* the place of the nonzero number in x and in h
    y, rc           \* the output, and the return value or "none" before the call

vars == <<complex, sse3, h_len, x_len, y_len, start, len, xAt, hAt, y, rc>>

Junk == 7           \* what is in the output before the call

\* The input starts with the h_len - 1 samples of headroom in front of x[0].
x == [i \in -2 * (h_len - 1) .. 2 * x_len - 1 |-> IF i = xAt THEN 3 ELSE 0]
h == [i \in 0 .. 2 * h_len - 1 |-> IF i = hAt THEN 5 ELSE 0]

Init ==
    /\ complex \in BOOLEAN /\ sse3 \in BOOLEAN
    /\ \E c \in Calls : h_len = c[1] /\ y_len = c[2] /\ start = c[3] /\ len = c[4]
    /\ x_len = h_len + Spare
    /\ xAt \in -2 * (h_len - 1) .. 2 * x_len - 1 /\ hAt \in 0 .. 2 * h_len - 1
    /\ y = [i \in 0 .. 2 * y_len - 1 |-> Junk] /\ rc = "none"
-----------------------------------------------------------------------------
(* The SSE instructions the x86 kernels use, on registers of four lanes    *)
(* (sequences of four numbers, lane 0 first). An array is a function on    *)
(* its indices. The intrinsics are the compiler's.                         *)

Lanes == 1 .. 4

\* _mm_load_ps, _mm_loadu_ps
Load(a, i) == <<a[i], a[i + 1], a[i + 2], a[i + 3]>>

\* _mm_shuffle_ps(a, b, _MM_SHUFFLE(l, k, j, i))
Shuffle(a, b, l, k, j, i) == <<a[i + 1], a[j + 1], b[k + 1], b[l + 1]>>

\* _mm_mul_ps, _mm_add_ps, _mm_sub_ps, _mm_hadd_ps, _mm_setzero_ps
Mul(a, b) == [i \in Lanes |-> a[i] * b[i]]
Add(a, b) == [i \in Lanes |-> a[i] + b[i]]
Sub(a, b) == [i \in Lanes |-> a[i] - b[i]]
Hadd(a, b) == <<a[1] + a[2], a[3] + a[4], b[1] + b[2], b[3] + b[4]>>
Zero == <<0, 0, 0, 0>>
-----------------------------------------------------------------------------
(* convolve_base.c *)

bounds_check ==
    /\ x_len >= 1 /\ h_len >= 1 /\ y_len >= 1 /\ len >= 1
    /\ start + len <= x_len /\ len <= y_len /\ x_len >= h_len

\* The index of the first input number for output i.
From(i) == 2 * (i - (h_len - 1) + start)

\* mac_real_vec_n and mac_cmplx_vec_n: acc with n taps accumulated.
mac_real_vec_n(acc, at) ==
    LET sum[n \in 0 .. h_len] ==
            IF n = 0 THEN acc
            ELSE LET k == 2 * (n - 1)  p == sum[n - 1]
                 IN  <<p[1] + x[at + k] * h[k], p[2] + x[at + k + 1] * h[k]>>
    IN  sum[h_len]

mac_cmplx_vec_n(acc, at) ==
    LET sum[n \in 0 .. h_len] ==
            IF n = 0 THEN acc
            ELSE LET k == 2 * (n - 1)  p == sum[n - 1]
                 IN  <<p[1] + x[at + k] * h[k] - x[at + k + 1] * h[k + 1],
                       p[2] + x[at + k] * h[k + 1] + x[at + k + 1] * h[k]>>
    IN  sum[h_len]
-----------------------------------------------------------------------------
(* convolve_sse_3.c: each kernel gives one output for the input at o *)

\* The shuffles that gather the real and the imaginary parts of four numbers.
Reals(a, i) == Shuffle(Load(a, i), Load(a, i + 4), 0, 2, 0, 2)
Imags(a, i) == Shuffle(Load(a, i), Load(a, i + 4), 1, 3, 1, 3)

\* The sum and store at the end of every kernel.
SumStore(re, im) ==
    LET m == Hadd(Hadd(re, im), Hadd(re, im)) IN <<m[1], Shuffle(m, m, 0, 3, 2, 1)[1]>>

\* Four real taps from h[t] on, times the reals (the imaginaries) at x[i].
RR(t, i) == Mul(Reals(x, i), Reals(h, t))
RI(t, i) == Mul(Imags(x, i), Reals(h, t))

sse_conv_real4(o) == SumStore(RR(0, o), RI(0, o))

sse_conv_real8(o) ==
    SumStore(Add(RR(0, o), RR(8, o + 8)), Add(RI(0, o), RI(8, o + 8)))

sse_conv_real12(o) ==
    SumStore(Add(Add(RR(0, o), RR(8, o + 8)), RR(16, o + 16)),
             Add(Add(RI(0, o), RI(8, o + 8)), RI(16, o + 16)))

sse_conv_real16(o) ==
    SumStore(Add(Add(RR(0, o), RR(8, o + 8)), Add(RR(16, o + 16), RR(24, o + 24))),
             Add(Add(RI(0, o), RI(8, o + 8)), Add(RI(16, o + 16), RI(24, o + 24))))

\* Mutant of sse_conv_real20: the last four taps meet the samples before theirs.
sse_conv_real20Stale(o) ==
    SumStore(Add(Add(Add(RR(0, o), RR(8, o + 8)), RR(16, o + 16)),
                 Add(RR(24, o + 24), RR(32, o + 24))),
             Add(Add(Add(RI(0, o), RI(8, o + 8)), RI(16, o + 16)),
                 Add(RI(24, o + 24), RI(32, o + 24))))

sse_conv_real20(o) ==
    SumStore(Add(Add(Add(RR(0, o), RR(8, o + 8)), RR(16, o + 16)),
                 Add(RR(24, o + 24), RR(32, o + 32))),
             Add(Add(Add(RI(0, o), RI(8, o + 8)), RI(16, o + 16)),
                 Add(RI(24, o + 24), RI(32, o + 32))))

sse_conv_real4n(o) ==
    LET acc[n \in 0 .. h_len \div 4] ==
            IF n = 0 THEN <<Zero, Zero>>
            ELSE LET t == 8 * (n - 1)  p == acc[n - 1]
                 IN  <<Add(p[1], RR(t, o + t)), Add(p[2], RI(t, o + t))>>
        m == acc[h_len \div 4]
    IN  SumStore(m[1], m[2])

\* Four complex taps from h[t] on, times the four numbers at x[i]: the real
\* and the imaginary parts of the products.
CR(t, i) == Sub(Mul(Reals(h, t), Reals(x, i)), Mul(Imags(h, t), Imags(x, i)))
CI(t, i) == Add(Mul(Reals(h, t), Imags(x, i)), Mul(Imags(h, t), Reals(x, i)))

sse_conv_cmplx_4n(o) ==
    LET acc[n \in 0 .. h_len \div 4] ==
            IF n = 0 THEN <<Zero, Zero>>
            ELSE LET t == 8 * (n - 1)  p == acc[n - 1]
                 IN  <<Add(p[1], CR(t, o + t)), Add(p[2], CI(t, o + t))>>
        m == acc[h_len \div 4]
    IN  SumStore(m[1], m[2])

\* Two accumulators for each part: m12 and m13, m14 and m15.
sse_conv_cmplx_8n(o) ==
    LET acc[n \in 0 .. h_len \div 8] ==
            IF n = 0 THEN <<Zero, Zero, Zero, Zero>>
            ELSE LET t == 16 * (n - 1)  p == acc[n - 1]
                 IN  <<Add(p[1], CR(t, o + t)), Add(p[2], CR(t + 8, o + t + 8)),
                       Add(p[3], CI(t, o + t)), Add(p[4], CI(t + 8, o + t + 8))>>
        m == acc[h_len \div 8]
    IN  SumStore(Add(m[1], m[2]), Add(m[3], m[4]))
-----------------------------------------------------------------------------
(* convolve.c *)

\* The output after memset().
Cleared == [i \in DOMAIN y \cup 0 .. 2 * len - 1 |-> IF i < 2 * len THEN 0 ELSE y[i]]

\* Output i by the kernel convolve_init() chose; acc is what y holds there.
conv_real(acc, i) ==
    LET o == From(i)
    IN  IF ~sse3 \/ h_len % 4 # 0 THEN mac_real_vec_n(acc, o)
        ELSE CASE h_len = 4  -> sse_conv_real4(o)
               [] h_len = 8  -> sse_conv_real8(o)
               [] h_len = 12 -> sse_conv_real12(o)
               [] h_len = 16 -> sse_conv_real16(o)
               [] h_len = 20 -> sse_conv_real20(o)
               [] OTHER      -> sse_conv_real4n(o)

conv_cmplx(acc, i) ==
    LET o == From(i)
    IN  IF ~sse3 \/ h_len % 4 # 0 THEN mac_cmplx_vec_n(acc, o)
        ELSE IF h_len % 8 = 0 THEN sse_conv_cmplx_8n(o) ELSE sse_conv_cmplx_4n(o)

\* The two API functions.
convolve ==
    /\ rc = "none" /\ bounds_check
    /\ LET acc(i) == <<Cleared[2 * i], Cleared[2 * i + 1]>>
           out == [i \in 0 .. len - 1 |-> IF complex THEN conv_cmplx(acc(i), i)
                                          ELSE conv_real(acc(i), i)]
       IN  y' = [i \in DOMAIN Cleared |->
                    IF i < 2 * len THEN out[i \div 2][(i % 2) + 1] ELSE y[i]]
    /\ rc' = "len"
    /\ UNCHANGED <<complex, sse3, h_len, x_len, y_len, start, len, xAt, hAt>>

Refuse ==
    /\ rc = "none" /\ ~bounds_check /\ rc' = "-1"
    /\ UNCHANGED <<complex, sse3, h_len, x_len, y_len, start, len, xAt, hAt, y>>

Next == convolve \/ Refuse

Spec == Init /\ [][Next]_vars
-----------------------------------------------------------------------------
\* The product of the nonzero sample and the nonzero tap, as it appears in
\* output i: the tap k meets the sample i + start - (h_len - 1) + k, and a
\* real convolution ignores the imaginary parts of the taps.
Reference(i) ==
    LET meets == (xAt - (xAt % 2)) \div 2 = i + start - (h_len - 1) + hAt \div 2
        v == IF meets THEN 15 ELSE 0
    IN  IF hAt % 2 = 1
        THEN IF ~complex THEN <<0, 0>> ELSE IF xAt % 2 = 1 THEN <<-v, 0>> ELSE <<0, v>>
        ELSE IF xAt % 2 = 1 THEN <<0, v>> ELSE <<v, 0>>

\* Every kernel, whichever the number of taps and the processor, computes the
\* convolution: each tap meets the sample at its distance, parts are not
\* mixed up, and nothing of the old output shows.
SameAsReference ==
    rc = "len" => \A i \in 0 .. len - 1 : <<y[2 * i], y[2 * i + 1]>> = Reference(i)

\* A call writes to len samples of an output that has room for them, and one
\* that is refused writes nothing.
WritesInside ==
    /\ DOMAIN y = 0 .. 2 * y_len - 1
    /\ rc # "len" => \A i \in DOMAIN y : y[i] = Junk
    /\ rc = "len" => \A i \in DOMAIN y : i >= 2 * len => y[i] = Junk
=============================================================================
