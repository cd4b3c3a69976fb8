--------------------------- MODULE MCRadioBuffer ---------------------------
(* Small rings: three segments of two samples, and runs of up to three      *)
(* samples, which straddle segments and the end of the ring. With a and     *)
(* ZERO there are two kinds of samples to tell apart.                       *)
EXTENDS RadioBuffer

CONSTANTS a

MCSamples == {a, ZERO}
MCInputs == UNION {[1 .. n -> MCSamples] : n \in 1 .. 3}
=============================================================================
