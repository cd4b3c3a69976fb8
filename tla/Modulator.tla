----------------------------- MODULE Modulator -----------------------------
(***************************************************************************)
(* The bursts of the downlink in samples: the generators of filler bursts  *)
(* (TransceiverState::init), the GMSK and 8-PSK modulators of              *)
(* sigProcLib.cpp and their use for a burst of the core (addRadioVector).  *)
(* A burst is its fields and where the modulator puts them; bits and       *)
(* amplitudes are not modelled. The filler table has the same kind of      *)
(* burst in all of its 102 frames, so there is one row of it.              *)
(***************************************************************************)
EXTENDS Integers, FiniteSets

CONSTANTS
    Delays          \* of the access bursts ("test rach-delay" takes 0 to 68, -A any)

\* What the constants are; assumed where the module is instantiated.
DelaysAssumption == Delays \subseteq Nat

VARIABLES
    filler, sps, delay, \* the configuration
    table,              \* the filler burst of a time slot, filled from 0 on
    sent                \* the last burst of the core

vars == <<filler, sps, delay, table, sent>>

FILLERS == {"ZERO", "DUMMY", "NORM_RAND", "EDGE_RAND", "ACCESS_RAND"}

\* No burst: the generators return NULL.
NULL == [size |-> 0]

Init ==
    /\ filler \in FILLERS /\ sps \in {1, 4} /\ delay \in Delays
    /\ filler = "EDGE_RAND" => sps = 4
    /\ filler # "ACCESS_RAND" => delay = 0
    /\ table = <<>>
    /\ sent = NULL
-----------------------------------------------------------------------------
(* The symbols of a burst: their number, and the place and length of its *)
(* training or synchronisation sequence                                  *)

\* Tail, data and a stealing bit come first.
NormalFields == [n |-> 148, seq |-> 26, training |-> 3 + 57 + 1]
EdgeFields ==
    LET tail == 9 \div 3
        data == 174 \div 3
        train == 78 \div 3
    IN  [n |-> tail + data + train + data + tail, seq |-> train, training |-> tail + data]

\* The delay and 8 tail bits come first.
AccessFields(d) == [n |-> 88 + d, seq |-> 41, training |-> d + 8]

\* !(tn % 4)
Guard(tn) == IF tn % 4 = 0 THEN 1 ELSE 0
-----------------------------------------------------------------------------
(* Modulators: size of the result, the samples written, sample of symbol 0 *)

\* Mutant of modulateBurstLaurent: two symbols of padding at the end.
modulateBurstLaurentPadded(n) ==
    IF n > 156 THEN NULL
    ELSE [size |-> 625, first |-> 4, written |-> {4 * i : i \in 0 .. n + 2}]

\* A symbol of padding before the bits and one after them.
modulateBurstLaurent(n) ==
    IF n > 156 THEN NULL
    ELSE [size |-> 625, first |-> 4, written |-> {4 * i : i \in 0 .. n + 1}]

modulateBurstBasic(n, guard, s) ==
    [size |-> s * (n + guard), first |-> 0, written |-> {s * i : i \in 0 .. n - 1}]

modulateBurst(n, guard, s) ==
    IF s = 4 THEN modulateBurstLaurent(n) ELSE modulateBurstBasic(n, guard, s)

shapeEdgeBurst(n) ==
    LET nsyms == IF n * 4 > 625 THEN 156 ELSE n
    IN  [size |-> 625, first |-> 4, written |-> {4 + 4 * i : i \in 0 .. nsyms - 1}]

\* A burst of given fields, modulated.
Burst(fields, samples) ==
    IF samples = NULL THEN NULL
    ELSE [size |-> samples.size, written |-> samples.written, seq |-> fields.seq,
          training |-> samples.first + sps * fields.training]
-----------------------------------------------------------------------------
(* Generators *)

genRandNormalBurst(tn) == Burst(NormalFields, modulateBurst(148, 8 + Guard(tn), sps))

generateDummyBurst(tn) == Burst(NormalFields, modulateBurst(148, 8 + Guard(tn), sps))

generateEdgeBurst == Burst(EdgeFields, shapeEdgeBurst(148))

\* Mutant of genRandAccessBurst: the guard period does not shrink.
genRandAccessBurstLong(tn) ==
    IF delay > 68 THEN NULL
    ELSE Burst(AccessFields(delay), modulateBurst(88 + delay, 68 + Guard(tn), sps))

genRandAccessBurst(tn) ==
    IF delay > 68 THEN NULL
    ELSE Burst(AccessFields(delay), modulateBurst(88 + delay, 68 - delay + Guard(tn), sps))

\* All zeros: nothing is written.
generateEmptyBurst(tn) ==
    [size |-> IF sps = 4 THEN 625 ELSE 148 + 8 + Guard(tn), written |-> {}, seq |-> 0,
     training |-> 0]

FillerBurst(tn) ==
    CASE filler = "DUMMY" -> generateDummyBurst(tn)
      [] filler = "NORM_RAND" -> genRandNormalBurst(tn)
      [] filler = "EDGE_RAND" -> generateEdgeBurst
      [] filler = "ACCESS_RAND" -> genRandAccessBurst(tn)
      [] OTHER -> generateEmptyBurst(tn)

\* TransceiverState::init(), one time slot.
Fill ==
    /\ Cardinality(DOMAIN table) < 8
    /\ LET tn == Cardinality(DOMAIN table)
       IN  table' = [t \in 0 .. tn |-> IF t = tn THEN FillerBurst(t) ELSE table[t]]
    /\ UNCHANGED <<filler, sps, delay, sent>>

\* addRadioVector(): 148 bits or, with EDGE, which is at 4 samples per
\* symbol, 444. The core's bursts have the fields of a normal burst.
Send ==
    /\ Cardinality(DOMAIN table) = 8
    /\ \/ \E tn \in 0 .. 7 : sent' = Burst(NormalFields, modulateBurst(148, 8 + Guard(tn), sps))
       \/ sps = 4 /\ sent' = Burst(EdgeFields, shapeEdgeBurst(444 \div 3))
    /\ UNCHANGED <<filler, sps, delay, table>>

Next == Fill \/ Send

Spec == Init /\ [][Next]_vars
-----------------------------------------------------------------------------
(* Properties *)

Made == {table[tn] : tn \in DOMAIN table} \cup {sent}
Bursts == Made \ {NULL}

\* No modulator writes outside of the vector it made (modulateBurstLaurent,
\* modulateBurstBasic, shapeEdgeBurst step through it by samples per symbol).
\* Does not hold for a delay of 68, the largest that the VTY accepts: 156 bits
\* pass modulateBurstLaurent's check, and the padding is behind the vector.
InsideBurst == \A b \in Bursts : \A i \in b.written : i < b.size

\* What is written outside of a vector, whatever the filler, rate and delay, is
\* one sample: the symbol of padding after the 156 bits of an access burst, at
\* 4 samples per symbol and the largest delay. No burst of the core, no 8-PSK
\* burst and no access burst of a smaller delay is so long.
OnlyPaddingOutside ==
    \A b \in Bursts : \A i \in b.written :
        i < b.size \/ (b.seq = 41 /\ sps = 4 /\ delay = 68 /\ i = 4 * (88 + 68 + 1))

\* Every delay that the VTY takes gives a burst: init() scales it without a
\* check for NULL. Does not hold for a delay above 68, which -A takes.
FillerExists == \A tn \in DOMAIN table : table[tn] # NULL

\* The filler bursts of a frame follow each other where the air interface has
\* its slots of 156.25 symbols, at most three quarters of a symbol late, and
\* eight of them are a frame: no drift builds up (625 samples, or guard
\* periods of 8 and 9 symbols).
FrameLength ==
    FillerExists =>
        LET end[tn \in DOMAIN table] == (IF tn = 0 THEN 0 ELSE end[tn - 1]) + table[tn].size
            late(tn) == 4 * end[tn] - 625 * sps * (tn + 1)
        IN  \A tn \in DOMAIN table : late(tn) \in 0 .. 3 * sps /\ (tn = 7 => late(tn) = 0)

\* The training sequence is at the same sample in every burst of 26 symbols of
\* it, GMSK or 8-PSK, filler or sent ("Delay the EDGE downlink bursts by one
\* symbol in order to match GMSK pulse shaping group delay").
TrainingAligned ==
    \A b, c \in Bursts : b.seq = 26 /\ c.seq = 26 => b.training = c.training
=============================================================================
