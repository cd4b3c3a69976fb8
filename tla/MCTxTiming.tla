----------------------------- MODULE MCTxTiming -----------------------------
(* Small instances of TxTiming: a hyperframe of a few frames, so that every *)
(* clock wraps around.                                                      *)
EXTENDS TxTiming

MCInitLatency == T(1, 0)
MCMinLatency == T(0, 1)
MCUpInterval == T(0, 1)
MCSecond == T(1, 0)
=============================================================================
