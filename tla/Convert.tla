------------------------------ MODULE Convert ------------------------------
(***************************************************************************)
(* The conversions between the device's 16-bit samples and floats          *)
(* (x86/convert.c, convert_sse_3.c, convert_sse_4_1.c, convert_base.c):    *)
(* kernels for lengths that are multiples of 16 and of 8, and one for the  *)
(* rest. A float is a number of quarters, so that rounding shows; Half is  *)
(* the range of a short. Plain C drops the fraction and, out of range,     *)
(* keeps the low bits (what the compilers do; C leaves it undefined), SSE  *)
(* rounds to the nearest, ties to even, and saturates.                     *)
(***************************************************************************)
EXTENDS Integers, Sequences

CONSTANTS
    MaxLen,         \* bound: the longest array
    Half,           \* 2^15, scaled down
    MaxValue,       \* the largest float before scaling, in quarters
    Scales          \* powerScaling, an integer here

\* What the constants are; assumed where the module is instantiated.
ConvertAssumption ==
    /\ MaxLen \in Nat /\ Half \in Nat \ {0, 1} /\ MaxValue \in Nat /\ Scales \subseteq Nat

VARIABLES
    sse,            \* what convert_init() found: SSE3 and SSE4.1, or neither
    len, scale,
    at, value,      \* one float of the input; the others are zero
    shorts,         \* convert_float_short()'s output
    floats          \* convert_short_float() of that, with each place marked

vars == <<sse, len, scale, at, value, shorts, floats>>

Written(a) == a # <<>>

Init ==
    /\ sse \in BOOLEAN /\ len \in 1 .. MaxLen /\ scale \in Scales
    /\ at \in 0 .. len - 1 /\ value \in -MaxValue .. MaxValue
    /\ shorts = <<>> /\ floats = <<>>

in == [i \in 0 .. len - 1 |-> IF i = at THEN value ELSE 0]
-----------------------------------------------------------------------------
\* base_convert_float_short: out[i] = in[i] * scale
Truncated(q) ==
    LET t == IF q >= 0 THEN q \div 4 ELSE -((-q) \div 4)
    IN  ((t + Half) % (2 * Half)) - Half

\* _mm_cvtps_epi32
Rounded(q) ==
    LET f == q \div 4  r == q % 4
    IN  IF r > 2 \/ (r = 2 /\ f % 2 = 1) THEN f + 1 ELSE f

\* _mm_packs_epi32
Saturated(n) == IF n > Half - 1 THEN Half - 1 ELSE IF n < -Half THEN -Half ELSE n

\* The lanes of one register of eight shorts packed from in[i .. i + 7].
Packed(i) == [k \in 0 .. 7 |-> Saturated(Rounded(in[i + k] * scale))]

base_convert_float_short == [i \in 0 .. len - 1 |-> Truncated(in[i] * scale)]

\* The shorts the 8n and 16n kernels write: whole groups of 8 and of 16.
_sse_convert_scale_ps_si16_8n ==
    [i \in 0 .. 8 * (len \div 8) - 1 |-> Packed(8 * (i \div 8))[i % 8]]

_sse_convert_scale_ps_si16_16n ==
    [i \in 0 .. 16 * (len \div 16) - 1 |->
        IF i % 16 < 8 THEN Packed(16 * (i \div 16))[i % 16]
        ELSE Packed(16 * (i \div 16) + 8)[(i % 16) - 8]]

_sse_convert_scale_ps_si16 ==
    LET start == 8 * (len \div 8)
    IN  [i \in 0 .. len - 1 |-> IF i < start THEN _sse_convert_scale_ps_si16_8n[i]
                                ELSE Truncated(in[i] * scale)]

\* convert_float_short(), with the kernels of convert_init().
FloatShort ==
    CASE ~sse                -> base_convert_float_short
      [] sse /\ len % 16 = 0 -> _sse_convert_scale_ps_si16_16n
      [] sse /\ len % 16 = 8 -> _sse_convert_scale_ps_si16_8n
      [] OTHER               -> _sse_convert_scale_ps_si16
-----------------------------------------------------------------------------
\* Four shorts from the low half of a register, widened; the shuffle brings
\* the high half down (_mm_cvtepi16_epi32, _mm_shuffle_epi32(1, 0, 3, 2)).
Widened(r) == [k \in 0 .. 3 |-> r[k]]
HalvesSwapped(r) == [k \in 0 .. 7 |-> r[(k + 4) % 8]]

_sse_convert_si16_ps_16n(a) ==
    [i \in 0 .. 16 * (len \div 16) - 1 |->
        LET m == [k \in 0 .. 7 |-> a[8 * (i \div 8) + k]]
        IN  IF i % 8 < 4 THEN Widened(m)[i % 4] ELSE Widened(HalvesSwapped(m))[i % 4]]

_sse_convert_si16_ps(a) ==
    LET start == 16 * (len \div 16)
    IN  [i \in 0 .. len - 1 |-> IF i < start THEN _sse_convert_si16_ps_16n(a)[i] ELSE a[i]]

\* convert_short_float(): the 16n kernel, or the one with the remainder.
ShortFloat(a) ==
    CASE ~sse                -> a
      [] sse /\ len % 16 = 0 -> _sse_convert_si16_ps_16n(a)
      [] OTHER               -> _sse_convert_si16_ps(a)

convert_float_short ==
    /\ ~Written(shorts)
    /\ shorts' = FloatShort
    /\ UNCHANGED <<sse, len, scale, at, value, floats>>

convert_short_float ==
    /\ Written(shorts) /\ ~Written(floats)
    /\ floats' = ShortFloat([i \in 0 .. len - 1 |-> <<i, shorts[i]>>])
    /\ UNCHANGED <<sse, len, scale, at, value, shorts>>

Next == convert_float_short \/ convert_short_float

Spec == Init /\ [][Next]_vars
-----------------------------------------------------------------------------
InRange(q) == q \in -4 * Half .. 4 * (Half - 1)

\* Whatever the length and the processor, every float becomes the short in
\* its place, less than one from its scaled value while that is in range.
EveryPlaceClose ==
    Written(shorts) =>
        /\ DOMAIN shorts = 0 .. len - 1
        /\ InRange(value * scale) =>
            \A i \in 0 .. len - 1 : 4 * shorts[i] - in[i] * scale \in -3 .. 3

\* The signal does not change its sign when it is clipped, in the kernels
\* for whole groups; the remainder of a length that is not a multiple of
\* eight is plain C, and wraps.
GroupsSaturate ==
    sse /\ Written(shorts) /\ at < 8 * (len \div 8) /\ ~InRange(value * scale) =>
        shorts[at] \in {-Half, Half - 1} /\ (shorts[at] > 0 <=> value > 0)

\* The way back puts every short in its place, at every length.
EveryPlaceBack ==
    Written(floats) =>
        floats = [i \in 0 .. len - 1 |-> <<i, shorts[i]>>]
=============================================================================
