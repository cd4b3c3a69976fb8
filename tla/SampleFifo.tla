----------------------------- MODULE SampleFifo -----------------------------
(***************************************************************************)
(* What a RadioBuffer promises its callers: a bounded FIFO of samples. A   *)
(* call that does not fit, or asks for more than there is, fails and       *)
(* changes nothing.                                                        *)
(***************************************************************************)
EXTENDS Integers, Sequences

CONSTANTS
    Runs,           \* the runs of samples that are put
    Counts,         \* the numbers of samples that are taken at once
    Capacity        \* the samples the FIFO holds

VARIABLES
    contents,       \* the samples written and not yet taken, oldest first
    in,             \* the samples the last successful call was given
    out,            \* the samples the last successful call returned
    ok              \* the result of the last call

fifoVars == <<contents, in, out, ok>>

Init == contents = <<>> /\ in = <<>> /\ out = <<>> /\ ok = TRUE

Put(s) ==
    /\ ok' = (Len(contents) + Len(s) <= Capacity)
    /\ contents' = IF ok' THEN contents \o s ELSE contents
    /\ in' = IF ok' THEN s ELSE in
    /\ out' = IF ok' THEN <<>> ELSE out

Take(n) ==
    /\ ok' = (n <= Len(contents))
    /\ out' = IF ok' THEN SubSeq(contents, 1, n) ELSE out
    /\ contents' = IF ok' THEN SubSeq(contents, n + 1, Len(contents)) ELSE contents
    /\ in' = IF ok' THEN <<>> ELSE in

Reset == contents' = <<>> /\ in' = <<>> /\ out' = <<>> /\ ok' = TRUE

Next ==
    \/ \E s \in Runs : Put(s)
    \/ \E n \in Counts : Take(n)
    \/ Reset

Spec == Init /\ [][Next]_fifoVars
=============================================================================
