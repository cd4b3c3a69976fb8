------------------------------ MODULE TxTiming ------------------------------
(***************************************************************************)
(* When the transceiver transmits (Transceiver::driveTxFIFO) and when it   *)
(* tells the BTS about it (Transceiver::driveReceiveRadio). TxLower and    *)
(* RxLower share the radio clock, which has a lock, and the deadline, the  *)
(* latency and the clock-indication state, which have none. What is pushed *)
(* for a slot is TxPath's subject: pushRadioVector is one step here.       *)
(***************************************************************************)
EXTENDS GsmTime

CONSTANTS
    UsrpWindow,     \* getWindowType() = TX_WINDOW_USRP1
    MinLatency,     \* minLatency() of the device
    InitLatency,    \* the latency the transceiver is constructed with
    UpInterval,     \* USB_LATENCY_INTRVL, a Time
    Second,         \* 216 frames, a Time
    ChunkBursts,    \* bursts of samples that one pullBuffer can complete
    MaxLag,         \* bound: slots TxLower may fall behind clock + latency
    MaxLatencyFN,   \* bound: no underruns once the latency has these frames
    MaxAge          \* bound: the age of the last latency update is counted to

ASSUME TimingAssumption ==
    /\ UsrpWindow \in BOOLEAN
    /\ {MinLatency, InitLatency, UpInterval, Second} \subseteq Time
    /\ ChunkBursts \in Nat \ {0}
    /\ MaxLag \in Nat /\ MaxLatencyFN \in Nat /\ MaxAge \in Nat

\* In slots: the longest latency, the furthest that TxLower falls behind, and
\* with them the furthest that the deadline gets from the last indication.
MaxLatency ==
    LET raised == MaxLatencyFN * Slots + Slots - 1 IN
    IF SlotsOf(InitLatency) > raised THEN SlotsOf(InitLatency) ELSE raised
LagBound == IF MaxLatency > MaxLag + Slots THEN MaxLatency ELSE MaxLag + Slots
GapBound == SlotsOf(Second) + LagBound + ChunkBursts + MaxLatency + 1

\* Times that are compared are less than half a hyperframe apart: in the code
\* a second and the latencies, some hundred frames of 1357824.
ASSUME HalfAssumption ==
    /\ GapBound <= HalfSlots
    /\ SlotsOf(MinLatency) <= HalfSlots /\ SlotsOf(UpInterval) <= HalfSlots

VARIABLES
    mOn, mClock,
    running,        \* TxLower and RxLower have been launched
    mTransmitDeadlineClock, mTransmitLatency, mLatencyUpdateTime,
    mLastClockUpdateTime, mForceClockInterface,
    underrun,       \* RadioInterface::underrun
    pc,             \* where TxLower is
    rx,             \* bursts RxLower has formed in this driveReceiveRadio
    rxpc,           \* where RxLower is
    lag,            \* clock + latency - deadline, counted in slots, unwrapped
    age             \* slots since mLatencyUpdateTime was written, unwrapped

latVars == <<mTransmitLatency, mLatencyUpdateTime>>
indVars == <<mLastClockUpdateTime, mForceClockInterface>>
vars == <<mOn, running, mClock, mTransmitDeadlineClock, latVars, indVars, underrun,
          pc, rx, rxpc, lag, age>>

Init ==
    \E fn \in FNs :
        /\ mOn = FALSE /\ running = FALSE
        /\ mClock = T(fn, 0)
        /\ mTransmitDeadlineClock = T(fn, 0)
        /\ mLastClockUpdateTime = T(fn, 0)
        /\ mLatencyUpdateTime = T(fn, 0)
        /\ mTransmitLatency = InitLatency
        /\ mForceClockInterface = FALSE
        /\ underrun = FALSE
        /\ pc = "wait" /\ rx = 0 /\ rxpc = "receive"
        /\ lag = SlotsOf(InitLatency) /\ age = 0
-----------------------------------------------------------------------------
(* TxLower: driveTxFIFO *)

\* The loop condition: the next slot is due.
DriveTxFIFO ==
    /\ pc = "wait" /\ mOn
    /\ GT(TimeAdd(mClock, mTransmitLatency), mTransmitDeadlineClock)
    /\ pc' = IF UsrpWindow THEN "adapt" ELSE "push"
    /\ UNCHANGED <<mOn, running, mClock, mTransmitDeadlineClock, latVars, indVars, underrun,
                   rx, rxpc, lag, age>>

\* An underrun seen long enough after the last change of the latency.
RaiseLatency == underrun /\ GT(mClock, TimeAdd(mLatencyUpdateTime, UpInterval))

\* No underrun, and the last change is more than a second ago.
LowerLatency ==
    /\ ~underrun /\ GT(mTransmitLatency, MinLatency)
    /\ GT(mClock, TimeAdd(mLatencyUpdateTime, Second))

\* The latency mechanism; isUnderrun() reads the flag and clears it.
AdaptLatency ==
    /\ pc = "adapt"
    /\ pc' = "push"
    /\ underrun' = FALSE
    /\ \/ /\ RaiseLatency
          /\ mTransmitLatency' = TimeAdd(mTransmitLatency, T(1, 0))
          /\ lag' = lag + Slots
       \/ /\ LowerLatency
          /\ mTransmitLatency' = DecTN(mTransmitLatency, 1)
          /\ lag' = lag - 1
       \/ /\ ~RaiseLatency /\ ~LowerLatency
          /\ UNCHANGED <<mTransmitLatency, lag>>
    /\ IF RaiseLatency \/ LowerLatency
       THEN mLatencyUpdateTime' = mClock /\ age' = 0
       ELSE UNCHANGED <<mLatencyUpdateTime, age>>
    /\ UNCHANGED <<mOn, running, mClock, mTransmitDeadlineClock, indVars, rx, rxpc>>

\* Mutant of Push: the deadline is not incremented.
PushNoInc ==
    /\ pc = "push" /\ pc' = "wait"
    /\ UNCHANGED <<mOn, running, mClock, mTransmitDeadlineClock, latVars, indVars, underrun,
                   rx, rxpc, lag, age>>

\* pushRadioVector(mTransmitDeadlineClock); mTransmitDeadlineClock.incTN()
Push ==
    /\ pc = "push"
    /\ pc' = "wait"
    /\ mTransmitDeadlineClock' = IncTN(mTransmitDeadlineClock, 1)
    /\ lag' = lag - 1
    /\ UNCHANGED <<mOn, running, mClock, latVars, indVars, underrun, rx, rxpc, age>>

TxLower == DriveTxFIFO \/ AdaptLatency \/ Push
-----------------------------------------------------------------------------
(* RxLower: RadioInterface and Transceiver::driveReceiveRadio *)

\* The loop over the received chunk forms one more burst, and the clock
\* advances. MaxLag: TxLower is not starved for longer.
RxTick ==
    /\ running /\ rxpc = "receive" /\ rx < ChunkBursts /\ lag < MaxLag
    /\ rx' = rx + 1
    /\ mClock' = IncTN(mClock, 1)
    /\ lag' = lag + 1
    /\ age' = IF UsrpWindow /\ age < MaxAge THEN age + 1 ELSE age
    /\ UNCHANGED <<mOn, running, mTransmitDeadlineClock, latVars, indVars, underrun, pc,
                   rxpc>>

\* The device reports, with the samples, that a write came too late.
RxUnderrun ==
    /\ running /\ UsrpWindow /\ rxpc = "receive"
    /\ mTransmitLatency.fn < MaxLatencyFN
    /\ underrun' = TRUE
    /\ UNCHANGED <<mOn, running, mClock, mTransmitDeadlineClock, latVars, indVars,
                   pc, rx, rxpc, lag, age>>

ClockDue ==
    \/ mForceClockInterface
    \/ GT(mTransmitDeadlineClock, TimeAdd(mLastClockUpdateTime, Second))

\* The number writeClockInterface() sends: two frames ahead.
IndicatedFN == mTransmitDeadlineClock.fn + 2

\* The loop ends, after no burst perhaps; Transceiver::driveReceiveRadio sees
\* whether an indication is due. mForceClockInterface is read first; while it
\* may change the deadline does not, so that one step does for both reads.
DriveClock ==
    /\ running /\ rxpc = "receive"
    /\ IF ClockDue THEN rxpc' = "due" /\ UNCHANGED rx
                   ELSE rx' = 0 /\ UNCHANGED rxpc
    /\ UNCHANGED <<mOn, running, mClock, mTransmitDeadlineClock, latVars, indVars, underrun,
                   pc, lag, age>>

\* Mutant of TakeForced: mForceClockInterface is not reset.
TakeForcedNot ==
    /\ running /\ rxpc = "due" /\ rxpc' = "send"
    /\ UNCHANGED <<mOn, running, mClock, mTransmitDeadlineClock, latVars, indVars, underrun,
                   pc, rx, lag, age>>

TakeForced ==
    /\ running /\ rxpc = "due"
    /\ rxpc' = "send"
    /\ mForceClockInterface' = FALSE
    /\ UNCHANGED <<mOn, running, mClock, mTransmitDeadlineClock, latVars, mLastClockUpdateTime,
                   underrun, pc, rx, lag, age>>

\* writeClockInterface() reads the deadline for the datagram, and once more
\* to note it: TxLower may have moved it in between.
SendClock ==
    /\ running /\ rxpc = "send"
    /\ rxpc' = "sent"
    /\ UNCHANGED <<mOn, running, mClock, mTransmitDeadlineClock, latVars, indVars, underrun,
                   pc, rx, lag, age>>

NoteClock ==
    /\ running /\ rxpc = "sent"
    /\ rxpc' = "receive" /\ rx' = 0
    /\ mLastClockUpdateTime' = mTransmitDeadlineClock
    /\ UNCHANGED <<mOn, running, mClock, mTransmitDeadlineClock, latVars, mForceClockInterface,
                   underrun, pc, lag, age>>

RxClock == DriveClock \/ TakeForced \/ SendClock \/ NoteClock
-----------------------------------------------------------------------------
(* Control threads *)

\* Mutant of PowerOn: the time of the last indication is not reset.
PowerOnKeepsLast ==
    /\ ~mOn /\ ~running
    /\ mTransmitDeadlineClock' = mClock
    /\ mLatencyUpdateTime' = mClock
    /\ running' \in BOOLEAN
    /\ age' = 0 /\ lag' = SlotsOf(mTransmitLatency) /\ rx' = 0 /\ rxpc' = "receive"
    /\ UNCHANGED <<mOn, mClock, mTransmitLatency, indVars, underrun, pc>>

\* start() synchronises the deadline to the clock, and keeps the latency. The
\* device may fail to start; otherwise the threads are launched.
PowerOn ==
    /\ ~mOn /\ ~running
    /\ mTransmitDeadlineClock' = mClock
    /\ mLastClockUpdateTime' = mClock
    /\ mLatencyUpdateTime' = mClock
    /\ running' \in BOOLEAN
    /\ age' = 0 /\ lag' = SlotsOf(mTransmitLatency) /\ rx' = 0 /\ rxpc' = "receive"
    /\ UNCHANGED <<mOn, mClock, mTransmitLatency, mForceClockInterface, underrun, pc>>

\* The end of start(), when the threads already run.
SetOn ==
    /\ ~mOn /\ running
    /\ mForceClockInterface' = TRUE
    /\ mOn' = TRUE
    /\ UNCHANGED <<running, mClock, mTransmitDeadlineClock, latVars, mLastClockUpdateTime,
                   underrun, pc, rx, rxpc, lag, age>>

\* stop() joins both threads at their cancellation points, one of which is in
\* the write of the datagram.
PowerOff ==
    /\ mOn /\ pc = "wait"
    /\ \/ rxpc = "receive" /\ rx = 0
       \/ rxpc = "send"
    /\ mOn' = FALSE /\ running' = FALSE
    /\ UNCHANGED <<mClock, mTransmitDeadlineClock, latVars, indVars, underrun,
                   pc, rx, rxpc, lag, age>>
-----------------------------------------------------------------------------
Next ==
    \/ TxLower
    \/ RxTick \/ RxUnderrun \/ RxClock
    \/ PowerOn \/ SetOn \/ PowerOff

Spec == Init /\ [][Next]_vars

\* TxLower and RxLower are real-time threads, TxLower's wait on the clock
\* times out after 1 ms, and the device streams while it is on.
FairSpec ==
    /\ Spec
    /\ WF_vars(TxLower) /\ WF_vars(RxClock) /\ WF_vars(RxTick)
-----------------------------------------------------------------------------
(* Properties *)

\* Every variable has its type.
TypeOK ==
    /\ mOn \in BOOLEAN /\ running \in BOOLEAN
    /\ mForceClockInterface \in BOOLEAN /\ underrun \in BOOLEAN
    /\ mClock \in Time /\ mTransmitDeadlineClock \in Time
    /\ mTransmitLatency \in Time /\ mLatencyUpdateTime \in Time
    /\ mLastClockUpdateTime \in Time
    /\ pc \in {"wait", "adapt", "push"} /\ rx \in 0 .. ChunkBursts
    /\ rxpc \in {"receive", "due", "send", "sent"}
    /\ lag \in Int /\ age \in 0 .. MaxAge

\* driveTxFIFO never runs away from the clock: the deadline leads it by the
\* latency at most, plus the one slot by which the latency was just lowered,
\* across every wrap of the hyperframe and every restart.
LeadBounded == lag >= -1

\* The cyclic comparison agrees with the unwrapped distance: TxLower sees a
\* slot as due exactly when it is.
DueIsExact ==
    running => (GT(TimeAdd(mClock, mTransmitLatency), mTransmitDeadlineClock) <=> lag > 0)

\* The deadline of driveTxFIFO follows the radio clock, and what is due is
\* seen as due, at every wrap and after every restart.
DeadlineInv == TypeOK /\ LeadBounded /\ DueIsExact

\* Clock indications (writeClockInterface) go forward within a session, at any
\* wrap of the hyperframe and wherever TxLower moves the deadline meanwhile: a
\* datagram has no time before the one noted for the last, and a time that is
\* noted is after that.
IndicationForward ==
    [][/\ rxpc = "send" /\ rxpc' = "sent"
            => ~GT(mLastClockUpdateTime, mTransmitDeadlineClock)
       /\ mLastClockUpdateTime' # mLastClockUpdateTime /\ running
            => GT(mLastClockUpdateTime', mLastClockUpdateTime)]_vars

\* "CLOCK gives the current value of the transceiver clock" (README): the
\* number in an indication is one that the clock can have.
\* Does not hold: writeClockInterface adds two to FN without reducing it.
IndicationIsClockValue ==
    [][rxpc = "send" /\ rxpc' = "sent" => IndicatedFN \in FNs]_vars

\* An underrun more than UpInterval after the last change of the latency
\* raises the latency (driveTxFIFO's comment).
\* Does not hold once ages beyond half a hyperframe are counted (MaxAge): the
\* rate limit is a cyclic comparison.
UnderrunRaisesLatency ==
    [][pc = "adapt" /\ pc' = "push" /\ underrun /\ age > SlotsOf(UpInterval)
        => mTransmitLatency' # mTransmitLatency]_vars

\* While the radio is on, TxLower keeps pushing slots.
DeadlineAdvances ==
    \A n \in TNs : []<>(~mOn \/ mTransmitDeadlineClock.tn = n)

\* A clock indication that is due is sent, and then no longer due, or the radio
\* is switched off: what SetOn forces while another is on its way is not lost.
ClockIndicated ==
    /\ (running /\ ClockDue) ~> (~running \/ rxpc = "sent")
    /\ (running /\ ClockDue) ~> (~running \/ ~ClockDue)
=============================================================================
