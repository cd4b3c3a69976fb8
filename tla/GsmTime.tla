------------------------------ MODULE GsmTime ------------------------------
(***************************************************************************)
(* GSM::Time: a frame number inside the hyperframe and a timeslot number,  *)
(* with its arithmetic and its cyclic comparisons (GSM/GSMCommon.h and     *)
(* GSM/GSMCommon.cpp). The code fixes Hyperframe = 2048*26*51 and          *)
(* Slots = 8; both are parameters here so that TLC can wrap them around.   *)
(***************************************************************************)
EXTENDS Integers

CONSTANTS
    Hyperframe,     \* gHyperframe: the modulus of frame numbers
    Slots           \* timeslots per TDMA frame

\* gHyperframe is even, so halfModulus = gHyperframe/2 is exact.
ASSUME TimeAssumption ==
    /\ Hyperframe \in Nat /\ Hyperframe > 1 /\ Hyperframe % 2 = 0
    /\ Slots \in Nat /\ Slots > 0

FNs == 0 .. Hyperframe - 1
TNs == 0 .. Slots - 1
Time == [fn : FNs, tn : TNs]

T(fn, tn) == [fn |-> fn, tn |-> tn]

HalfModulus == Hyperframe \div 2

\* The slots from the beginning of the hyperframe to t, and those of less than
\* half of it.
SlotsOf(t) == t.fn * Slots + t.tn
HalfSlots == (HalfModulus - 1) * Slots

\* The signed difference of two frame numbers, within the modulus.
FNDelta(v1, v2) ==
    LET delta == v1 - v2 IN
    IF delta >= HalfModulus THEN delta - Hyperframe
    ELSE IF delta < -HalfModulus THEN delta + Hyperframe
    ELSE delta

\* Mutant of FNCompare: frame numbers compared without the modulus.
FNComparePlain(v1, v2) == IF v1 > v2 THEN 1 ELSE IF v1 < v2 THEN -1 ELSE 0

FNCompare(v1, v2) ==
    LET delta == FNDelta(v1, v2) IN
    IF delta > 0 THEN 1 ELSE IF delta < 0 THEN -1 ELSE 0

\* Time::operator<, operator> : the slot decides inside one frame.
LT(a, b) == IF a.fn = b.fn THEN a.tn < b.tn ELSE FNCompare(a.fn, b.fn) < 0
GT(a, b) == IF a.fn = b.fn THEN a.tn > b.tn ELSE FNCompare(a.fn, b.fn) > 0

\* Mutant of IncTN: the frame number is not reduced.
IncTNUnreduced(t, step) ==
    IF t.tn + step >= Slots THEN T(t.fn + 1, t.tn + step - Slots) ELSE T(t.fn, t.tn + step)

\* incTN(step) and decTN(step): at most one carry, because step <= 8.
IncTN(t, step) ==
    IF t.tn + step >= Slots
    THEN T((t.fn + 1) % Hyperframe, t.tn + step - Slots)
    ELSE T(t.fn, t.tn + step)

DecTN(t, step) ==
    IF t.tn - step < 0
    THEN T(IF t.fn - 1 < 0 THEN t.fn - 1 + Hyperframe ELSE t.fn - 1,
           t.tn - step + Slots)
    ELSE T(t.fn, t.tn - step)

\* operator+(const Time&), the sum of a time and an interval.
TimeAdd(a, b) ==
    T((a.fn + b.fn + ((a.tn + b.tn) \div Slots)) % Hyperframe,
      (a.tn + b.tn) % Slots)
=============================================================================
