------------------------------ MODULE MCTxPath ------------------------------
(* Small instances of TxPath: two slots per frame, a filler table of two   *)
(* rows, moduli one and two, one combination that leaves its modulus.      *)
EXTENDS TxPath, TLC

CONSTANTS combVII, loopback

MCTypes == {NONE, combVII, loopback}
MCModulusOf == (NONE :> 1) @@ (combVII :> 2) @@ (loopback :> 0)
\* The two whose slots are scheduled, for the liveness run.
MCScheduledTypes == {NONE, combVII}
MCScheduledModulusOf == (NONE :> 1) @@ (combVII :> 2)

RaceOffsets == {-1, 0, 1}
AheadOffsets == {0, 2}
VecSymmetry == Permutations(Vecs)
=============================================================================
