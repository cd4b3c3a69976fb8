---------------------------- MODULE UhdTransmit ----------------------------
(***************************************************************************)
(* The transmit side of uhd_device (UHDDevice.cpp): writeSamples for       *)
(* TxLower, and the event thread, which asks for a new alignment of the    *)
(* transmitter; start(), stop() and the restart() of RxLower as far as     *)
(* they concern them. UhdReceive has the receive side.                     *)
(***************************************************************************)
EXTENDS Integers

CONSTANTS
    DropPkts,       \* packets per alignment (30)
    MaxThreads      \* bound of the event threads

ASSUME UhdTxAssumption == DropPkts \in Nat \ {0, 1} /\ MaxThreads \in Nat

VARIABLES
    started, aligned, drop_cnt,
    threads,        \* event threads that run
    txpc,           \* TxLower, in writeSamples()
    \* history: the last start or end of burst sent, and whether an event has
    \* not been answered by a new start of burst
    mark, owed

vars == <<started, aligned, drop_cnt, threads, txpc, mark, owed>>

Init ==
    /\ started = FALSE /\ aligned = FALSE /\ drop_cnt = 0 /\ threads = 0
    /\ txpc = "idle" /\ mark = "none" /\ owed = FALSE
-----------------------------------------------------------------------------
\* start(): the event thread, then restart(), which may fail and leaves the
\* thread running.
Start ==
    /\ ~started /\ threads < MaxThreads
    /\ threads' = threads + 1
    /\ aligned' = FALSE
    /\ started' \in BOOLEAN
    /\ UNCHANGED <<drop_cnt, txpc, mark, owed>>

\* stop(), while TxLower does not run: the thread of the last start() ends.
Stop ==
    /\ started /\ txpc = "idle"
    /\ threads' = threads - 1
    /\ started' = FALSE
    /\ UNCHANGED <<aligned, drop_cnt, txpc, mark, owed>>

\* RxLower calls restart() when the device's time goes back.
Restart ==
    /\ started
    /\ aligned' = FALSE
    /\ UNCHANGED <<started, drop_cnt, threads, txpc, mark, owed>>
-----------------------------------------------------------------------------
(* writeSamples(), in TxLower, and the event thread *)

\* aligned is read here and written in Align without a lock.
WriteSamples ==
    /\ started /\ txpc = "idle"
    /\ txpc' = IF aligned THEN "send" ELSE "align"
    /\ UNCHANGED <<started, aligned, owed, threads, drop_cnt, mark>>

AlignNoEnd ==
    /\ txpc = "align"
    /\ drop_cnt' = (drop_cnt + 1) % DropPkts
    /\ txpc' = IF drop_cnt' = 0 THEN "SOB" ELSE "idle"
    /\ aligned' = (drop_cnt' = 0)
    /\ UNCHANGED <<started, owed, threads, mark>>
AlignNeverEnds ==
    /\ txpc = "align"
    /\ drop_cnt' = IF drop_cnt + 1 < DropPkts THEN drop_cnt + 1 ELSE drop_cnt
    /\ txpc' = IF drop_cnt = 0 THEN "EOB" ELSE "idle"
    /\ UNCHANGED <<started, aligned, owed, threads, mark>>

\* The first packet ends the burst, the next ones are dropped, the last one
\* starts a new burst.
Align ==
    /\ txpc = "align"
    /\ LET n == drop_cnt + 1 IN
        /\ drop_cnt' = IF n < DropPkts THEN n ELSE 0
        /\ txpc' = CASE n = 1 -> "EOB" [] n > 1 /\ n < DropPkts -> "idle" [] OTHER -> "SOB"
        /\ aligned' = IF n < DropPkts THEN aligned ELSE TRUE
    /\ UNCHANGED <<started, owed, threads, mark>>

\* tx_stream->send; a send that times out is logged and ends the same way.
Send ==
    /\ txpc \in {"send", "EOB", "SOB"}
    /\ mark' = IF txpc = "send" THEN mark ELSE txpc
    /\ owed' = IF txpc = "SOB" THEN FALSE ELSE owed
    /\ txpc' = "idle"
    /\ UNCHANGED <<started, aligned, threads, drop_cnt>>

\* Any event but BURST_ACK asks for a new alignment, also in a thread that a
\* start left running when its restart() failed.
RecvAsyncMsg ==
    /\ threads > 0
    /\ aligned' = FALSE /\ owed' = TRUE
    /\ UNCHANGED <<started, threads, drop_cnt, txpc, mark>>
-----------------------------------------------------------------------------
TxStep == WriteSamples \/ Align \/ Send

Next == Start \/ Stop \/ Restart \/ TxStep \/ RecvAsyncMsg

Spec == Init /\ [][Next]_vars

\* TxLower is scheduled; send() has a timeout.
FairSpec == Spec /\ WF_vars(TxStep)
-----------------------------------------------------------------------------
(* Properties *)

\* Every variable has its type; a running device has its event thread.
TypeOK ==
    /\ started \in BOOLEAN /\ aligned \in BOOLEAN /\ owed \in BOOLEAN
    /\ drop_cnt \in 0 .. DropPkts - 1
    /\ txpc \in {"idle", "align", "send", "EOB", "SOB"} /\ mark \in {"none", "EOB", "SOB"}
    /\ threads \in 0 .. MaxThreads /\ (started => threads > 0)

\* Bursts are bracketed: a start of burst only follows an end of burst and an
\* end of burst never follows another, whatever the event thread does meanwhile.
BurstsBracketed ==
    /\ txpc = "SOB" => mark = "EOB"
    /\ txpc = "EOB" => mark # "EOB"

\* writeSamples and the event thread: counters in range, bursts bracketed.
TransmitInv == TypeOK /\ BurstsBracketed

\* Every event is answered by a new start of burst, also one that comes
\* while the alignment is going on.
Resynced == owed ~> ~owed \/ ~started

\* Events are "received in a separate thread": there is one, as long as the
\* device is started.
\* Does not hold: a start whose restart() fails leaves its thread behind.
OneEventThread == threads = IF started THEN 1 ELSE 0
=============================================================================
