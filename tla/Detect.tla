------------------------------- MODULE Detect -------------------------------
(***************************************************************************)
(* Burst detection and demodulation of sigProcLib.cpp: detectAnyBurst()    *)
(* with its three detectors, their correlation windows, and                *)
(* demodAnyBurst(). A received burst is its kind, how many symbols it is   *)
(* late, whether its correlation passes the threshold and whether it       *)
(* clips; a correlation has its peak where the sequence ends, if the burst *)
(* has the sequence, and nowhere otherwise. Delays are in whole symbols.   *)
(***************************************************************************)
EXTENDS Integers

CONSTANTS
    Late,           \* symbols by which a burst is late (early, if negative)
    MaxToa          \* expected delays (SETMAXDLY, SETMAXDLYNB)

ASSUME DetectAssumption == Late \subseteq Int /\ MaxToa \subseteq Nat

VARIABLES
    burst,          \* what was received
    type, max_toa,  \* what the caller expects
    n,              \* symbols of the vector: 156 or 157, and 156 from 4 samples each
    res             \* what is returned, and the symbols that were sliced

detectVars == <<burst, type, max_toa, n, res>>

\* Kinds of bursts: GMSK and 8-PSK normal bursts with the configured training
\* sequence, access bursts with each synchronisation sequence, and all else.
Kinds == {"NB", "EDGE", "AB0", "AB1", "AB2", "other"}
Access == <<"AB0", "AB1", "AB2">>

NoResult == [rc |-> "none", toa |-> 0, bits |-> <<>>]

DetectInit ==
    /\ burst \in [kind : Kinds, late : Late, marks : SUBSET {"strong", "clips"}]
    /\ type \in {"TSC", "EDGE", "RACH", "EXT_RACH"}
    /\ max_toa \in MaxToa
    /\ n \in {156, 157}
    /\ type = "EDGE" => n = 156     \* EDGE is at 4 samples per symbol
    /\ res = NoResult
-----------------------------------------------------------------------------
(* Detection *)

\* The sequences to correlate with: first symbol in a burst, and length. Of
\* the training sequence, 61 symbols into the burst, the middle 16.
Sequence(kind) ==
    IF kind \in {"NB", "EDGE"} THEN [at |-> 61 + 5, len |-> 16] ELSE [at |-> 8, len |-> 40]

\* The correlation at index i of a window ends at symbol start + i.
PeakIndex(kind, start) == Sequence(kind).at + burst.late + Sequence(kind).len - 1 - start

\* Mutant of detectBurst: the last symbols of the window are not searched.
detectBurstShort(kind, start, len) ==
    /\ burst.kind = kind /\ "strong" \in burst.marks
    /\ PeakIndex(kind, start) >= 3 /\ PeakIndex(kind, start) <= len - 12

\* detectBurst(): peaks at the edges of the window are refused.
detectBurst(kind, start, len) ==
    /\ burst.kind = kind /\ "strong" \in burst.marks
    /\ PeakIndex(kind, start) >= 3 /\ PeakIndex(kind, start) <= len - 3

detectGeneralBurst(target, head, tail, kind) ==
    IF detectBurst(kind, target - head - 1, head + tail)
    THEN [rc |-> "found", toa |-> PeakIndex(kind, target - head - 1) - head]
    ELSE [rc |-> IF "clips" \in burst.marks THEN "CLIP" ELSE "NONE", toa |-> 0]

\* One sequence after the other until one is found.
detectRACHBurst(ext) ==
    LET At(i) == detectGeneralBurst(8 + 40, 8, 8 + max_toa, Access[i])
        num_seq == IF ext THEN 3 ELSE 1
        Found == {i \in 1 .. num_seq : At(i).rc = "found"}
    IN  IF Found # {} THEN At(CHOOSE i \in Found : \A j \in Found : i <= j) ELSE At(num_seq)

analyzeTrafficBurst == detectGeneralBurst(3 + 58 + 16 + 5, 6, 6 + max_toa, "NB")

detectEdgeBurst == detectGeneralBurst(3 + 58 + 16 + 5, 6, 6 + max_toa, "EDGE")

\* The type that is returned for what was found.
As(t, d) == [rc |-> IF d.rc = "found" THEN t ELSE d.rc, toa |-> d.toa]

\* An EDGE slot carries GMSK bursts too, and falls through to their detector.
detectAnyBurst ==
    CASE type = "EDGE" ->
            IF detectEdgeBurst.rc = "found" THEN As("EDGE", detectEdgeBurst)
            ELSE As("TSC", analyzeTrafficBurst)
      [] type = "TSC" -> As("TSC", analyzeTrafficBurst)
      [] OTHER -> As(type, detectRACHBurst(type = "EXT_RACH"))
-----------------------------------------------------------------------------
(* Demodulation *)

\* What was received at symbol i of the vector: a symbol of the burst.
Symbol(i) == i - burst.late

Lost == -1000

\* demodCommon(): back by the time of arrival, zeros moved in; at 4 samples
\* per symbol 624 of 625 samples make 156 symbols.
demodCommon(toa) ==
    [i \in 0 .. n - 1 |-> IF i + toa \in 0 .. n - 1 THEN Symbol(i + toa) ELSE Lost]

\* softSliceEdgeBurst(): three bits of each of 148 symbols; GMSK: one of each.
demodAnyBurst(t, toa) ==
    [by |-> IF t = "EDGE" THEN "8-PSK" ELSE "GMSK",
     syms |-> IF t = "EDGE" THEN [i \in 0 .. 147 |-> demodCommon(toa)[i]] ELSE demodCommon(toa)]

\* pullRadioVector(): demodulated only if a burst was found.
Receive ==
    /\ res = NoResult
    /\ LET d == detectAnyBurst
       IN  res' = [rc |-> d.rc, toa |-> d.toa,
                   bits |-> IF d.rc \in {"CLIP", "NONE"} THEN <<>> ELSE demodAnyBurst(d.rc, d.toa)]
    /\ UNCHANGED <<burst, type, max_toa, n>>

DetectNext == Receive

DetectSpec == DetectInit /\ [][DetectNext]_detectVars
-----------------------------------------------------------------------------
(* Properties *)

Found == res.rc \notin {"none", "CLIP", "NONE"}

\* The bursts that a slot of each type may carry.
Carries == CASE type = "TSC" -> {"NB"}
             [] type = "EDGE" -> {"NB", "EDGE"}
             [] type = "RACH" -> {"AB0"}
             [] type = "EXT_RACH" -> {"AB0", "AB1", "AB2"}

\* A burst that the slot may carry, strong enough and no later than the core
\* said to expect, is found, clipped or not, with its delay as the time of
\* arrival (the windows of detectRACHBurst, analyzeTrafficBurst and
\* detectEdgeBurst: target, head and tail agree with the sequences).
FoundWithDelay ==
    (res # NoResult /\ "strong" \in burst.marks /\ burst.kind \in Carries /\ burst.late \in 0 .. max_toa)
        => Found /\ res.toa = burst.late

\* Clipping is reported when it may be why nothing was found ("only report
\* clipping if we can't demod"), and only then.
ClipWhenLost == res # NoResult => (res.rc = "CLIP" <=> "clips" \in burst.marks /\ ~Found)

\* What was found is sliced by the demodulator of its modulation, also when an
\* EDGE slot carried GMSK.
RightDemodulator == Found => (res.bits.by = "8-PSK" <=> burst.kind = "EDGE")

\* The symbols come out in their places: every symbol of the burst that the
\* vector holds is at its own number, whatever the delay.
SymbolsInPlace ==
    Found => \A i \in DOMAIN res.bits.syms :
                i + burst.late \in 0 .. n - 1 => res.bits.syms[i] = i

\* detectAnyBurst and demodAnyBurst together: what can be found is, when it
\* is, by its modulation, and each symbol in its place.
DetectInv == FoundWithDelay /\ ClipWhenLost /\ RightDemodulator /\ SymbolsInPlace
=============================================================================
