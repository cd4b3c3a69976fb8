------------------------------ MODULE SigVector ------------------------------
(***************************************************************************)
(* The vector routines of sigProcLib.cpp that index samples: convolve()    *)
(* with its three spans, over the memory of a signalVector with headroom,  *)
(* delayVector(), which shifts in place after a fractional filter,         *)
(* energyDetect() and computePeakRatio(). A sample is the place it came    *)
(* from; what is read and where it ends is modelled, its value is not.     *)
(***************************************************************************)
EXTENDS Integers, FiniteSets

CONSTANTS
    Sizes,          \* samples of an input
    Rooms,          \* headroom in front of it
    Taps,           \* filter lengths
    Delays,         \* delays of delayVector, as <<whole, fraction>>
    DELAYFILTS,     \* fractional filters; 64 in the code
    DelayTaps       \* their length; 20 in the code

ASSUME VectorAssumption ==
    /\ \A S \in {Sizes, Taps} : S \subseteq Nat \ {0}
    /\ Rooms \subseteq Nat /\ {DELAYFILTS, DelayTaps} \subseteq Nat \ {0}
    /\ \A d \in Delays : d[1] \in Int /\ d[2] \in 0 .. DELAYFILTS - 1

VARIABLES
    size, room,     \* the input: x[0] .. x[size - 1] after room samples
    ret             \* what the call did

vectorVars == <<size, room, ret>>

Zero == -1000       \* a sample that is 0, and not one of the input
NotCalled == [call |-> "none", null |-> FALSE, reads |-> {}, mem |-> {}, out |-> <<>>, want |-> <<>>]

VectorInit == size \in Sizes /\ room \in Rooms /\ ret = NotCalled
-----------------------------------------------------------------------------
(* convolve() *)

\* A span: where the output starts, its length, the samples to put before
\* and after the input, and whether a copy is made for them.
START_ONLY(h) == [start |-> 0, len |-> size, head |-> h - 1, tail |-> 0, append |-> room < h - 1]
NO_DELAY(h) ==
    [start |-> h \div 2, len |-> size, head |-> h \div 2, tail |-> h \div 2, append |-> TRUE]

CUSTOM(h, start, len) ==
    [start |-> start, len |-> len,
     head |-> IF start < h - 1 THEN h - start ELSE 0,
     tail |-> IF start + len > size THEN start + len - size ELSE 0,
     append |-> start < h - 1 \/ start + len > size]

\* The places of the input that exist: its own memory, or the copy's.
Memory(s) == IF s.append THEN (0 - s.head) .. (size + s.tail - 1) ELSE (0 - room) .. size - 1

\* bounds_check() of convolve_base.c, over the copy.
Bounds(s, h) ==
    LET x_len == IF s.append THEN size + s.tail ELSE size
    IN  s.len >= 1 /\ s.start + s.len <= x_len /\ x_len >= h

\* The samples read for outputs 0 .. len - 1.
Reads(s, h) == (s.start - (h - 1)) .. (s.start + s.len - 1)

Done(s, h) ==
    ret' = [NotCalled EXCEPT !.call = "convolve", !.null = ~Bounds(s, h),
                            !.reads = IF Bounds(s, h) THEN Reads(s, h) ELSE {},
                            !.mem = Memory(s)]

Convolve ==
    /\ ret.call = "none"
    /\ \E h \in Taps :
          \/ Done(START_ONLY(h), h)
          \/ Done(NO_DELAY(h), h)
          \/ \E start \in 0 .. size, len \in 1 .. size : Done(CUSTOM(h, start, len), h)
    /\ UNCHANGED <<size, room>>
-----------------------------------------------------------------------------
(* delayVector() *)

\* In place, one sample after the other: to <- from, to + step <- from + step
\* ... while from is inside, and then zeros while to is.
Moved(v, to, from, step) ==
    LET In(i) == i \in 0 .. size - 1
        copy[n \in 0 .. size] ==
            IF n = 0 THEN v
            ELSE LET w == copy[n - 1]
                     t == to + step * (n - 1)
                     f == from + step * (n - 1)
                 IN  IF ~In(t) THEN w
                     ELSE [w EXCEPT ![t] = IF In(f) THEN w[f] ELSE Zero]
    IN  copy[size]

\* To the left from the first sample on, to the right from the last back.
Shifted(v, whole) ==
    IF whole < 0 THEN Moved(v, 0, 0 - whole, 1) ELSE Moved(v, size - 1, size - 1 - whole, -1)

Input == [i \in 0 .. size - 1 |-> i]

\* A fraction selects a filter, and the samples pass through convolve() with
\* no delay, which fails for an input too short for it.
Delay ==
    /\ ret.call = "none"
    /\ \E d \in Delays :
          LET s == NO_DELAY(DelayTaps)
              null == d[2] # 0 /\ ~Bounds(s, DelayTaps)
          IN  ret' = [NotCalled EXCEPT
                        !.call = "delay", !.null = null,
                        !.reads = IF d[2] # 0 /\ ~null THEN Reads(s, DelayTaps) ELSE {},
                        !.mem = Memory(s),
                        !.out = Shifted(Input, d[1]),
                        !.want = [i \in 0 .. size - 1 |->
                                    IF i - d[1] \in 0 .. size - 1 THEN i - d[1] ELSE Zero]]
    /\ UNCHANGED <<size, room>>
-----------------------------------------------------------------------------
(* Detection *)

\* energyDetect(): every fourth sample, as RxUpper calls it: a window of 20
\* per sample per symbol, over a burst of 156 or 157 symbols.
EnergyWindow(sps, n) == LET w == 20 * sps IN IF w > n THEN n ELSE w
EnergyDetect ==
    /\ ret.call = "none"
    /\ \E burst \in {<<1, 156>>, <<1, 157>>, <<4, 625>>} :
          ret' = [NotCalled EXCEPT !.call = "energy",
                    !.reads = {4 * i : i \in 0 .. EnergyWindow(burst[1], burst[2]) - 1},
                    !.mem = 0 .. burst[2] - 1]
    /\ UNCHANGED <<size, room>>

\* computePeakRatio() at one sample per symbol, for a peak that detectBurst()
\* lets pass: the places 2 to 5 symbols from it that exist, at least 5.
PeakRatio ==
    /\ ret.call = "none"
    /\ \E peak \in 3 .. size - 3 :
          LET read == {peak - i : i \in {j \in 2 .. 5 : peak - j >= 0}}
                      \cup {peak + i : i \in {j \in 2 .. 5 : peak + j < size}}
          IN  ret' = [NotCalled EXCEPT !.call = "ratio", !.reads = read,
                                      !.null = Cardinality(read) < 5, !.mem = 0 .. size - 1]
    /\ UNCHANGED <<size, room>>

VectorNext == Convolve \/ Delay \/ EnergyDetect \/ PeakRatio

VectorSpec == VectorInit /\ [][VectorNext]_vectorVars
-----------------------------------------------------------------------------
(* Properties *)

\* Everything that is read was allocated: headroom, copy or burst (convolve,
\* signalVector's constructors, energyDetect, computePeakRatio).
ReadsAllocated == ret.reads \subseteq ret.mem

\* The delayed vector is the input shifted by the whole samples, with zeros
\* moved in, for delays of either sign and of any length (delayVector shifts
\* in place).
DelayIsShift == ret.call = "delay" => ret.out = ret.want

\* A peak that detectBurst() lets pass is never thrown away for a lack of
\* values around it, in a window of at least 12 (both kinds of bursts have
\* one), and convolve() only fails for an input shorter than its filter.
FailsOnlyWhenShort ==
    ret.null => \/ ret.call = "ratio" /\ size < 12
                \/ ret.call \in {"convolve", "delay"} /\ \E h \in Taps \cup {DelayTaps} : size < h
=============================================================================
