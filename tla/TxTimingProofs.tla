--------------------------- MODULE TxTimingProofs ---------------------------
(***************************************************************************)
(* The transmit deadline and the clock indications keep the distances that *)
(* the code compares within half a hyperframe, where the comparison of     *)
(* times is exact (GsmTimeProofs), for every length of the hyperframe,     *)
(* number of slots, latency and interval (HalfAssumption).                 *)
(***************************************************************************)
EXTENDS TxTiming, GsmTimeProofs, TLAPS

\* Where TxLower is, the radio is on; what it was told to push is due, but for
\* the slot by which the latency was just lowered.
Phase ==
    /\ mOn => running
    /\ pc # "wait" => mOn
    /\ pc = "adapt" => lag >= 1
    /\ pc = "push" => lag >= 0

\* The latency is as short as HalfAssumption takes it to be.
LatencyBounded ==
    /\ SlotsOf(mTransmitLatency) <= MaxLatency
    /\ underrun => mTransmitLatency.fn < MaxLatencyFN

\* lag is the distance from the deadline to clock + latency, and stays small:
\* the latency is raised once at most before the clock goes on.
LagExact ==
    /\ Apart(TimeAdd(mClock, mTransmitLatency), mTransmitDeadlineClock, lag)
    /\ lag <= LagBound
    /\ lag > MaxLag => mLatencyUpdateTime = mClock

\* The clock has gone on by a second and the lag since the last indication,
\* and by the chunk that RxLower is forming.
IndicationExact ==
    \E g \in Nat :
        /\ Apart(mTransmitDeadlineClock, mLastClockUpdateTime, g)
        /\ g + lag - SlotsOf(mTransmitLatency) <= SlotsOf(Second) + LagBound + rx

IInv == TypeOK /\ LeadBounded /\ Phase /\ LatencyBounded /\ LagExact /\ IndicationExact
-----------------------------------------------------------------------------
(* Distances of the state *)

\* The bounds are numbers, and hold the constants.
LEMMA Bounds ==
    /\ MaxLatency \in Nat /\ LagBound \in Nat /\ MaxLag \in Nat /\ ChunkBursts \in Nat \ {0}
    /\ MaxLatency <= LagBound /\ MaxLag + Slots <= LagBound
    /\ SlotsOf(Second) \in Nat /\ SlotsOf(MinLatency) \in Nat /\ SlotsOf(UpInterval) \in Nat
    /\ SlotsOf(InitLatency) \in Nat /\ SlotsOf(InitLatency) <= MaxLatency
    /\ SlotsOf(Second) + LagBound + ChunkBursts + MaxLatency + 1 <= HalfSlots
    /\ SlotsOf(MinLatency) <= HalfSlots /\ SlotsOf(UpInterval) <= HalfSlots
    /\ MaxLatencyFN \in Nat /\ MaxLatencyFN * Slots + Slots - 1 <= MaxLatency
    /\ {MinLatency, InitLatency, UpInterval, Second} \subseteq Time
<1>1. {MinLatency, InitLatency, UpInterval, Second} \subseteq Time /\ ChunkBursts \in Nat \ {0}
      /\ MaxLag \in Nat /\ MaxLatencyFN \in Nat /\ Slots \in Nat \ {0}
  BY TimingAssumption, TimeSizes
<1>2. /\ SlotsOf(Second) \in Nat /\ SlotsOf(MinLatency) \in Nat
      /\ SlotsOf(UpInterval) \in Nat /\ SlotsOf(InitLatency) \in Nat
  BY <1>1, TimeIs, TimeSizes
<1> DEFINE i == SlotsOf(InitLatency)
           r == MaxLatencyFN * Slots
<1>3. r \in Nat BY <1>1
<1>4. MaxLatency = IF i > r + Slots - 1 THEN i ELSE r + Slots - 1 BY DEF MaxLatency
<1> HIDE DEF i, r
<1>5. MaxLatency \in Nat /\ i <= MaxLatency /\ r + Slots - 1 <= MaxLatency
  BY <1>1, <1>2, <1>3, <1>4 DEF i
<1>6. LagBound \in Nat /\ MaxLatency <= LagBound /\ MaxLag + Slots <= LagBound
  BY <1>1, <1>5 DEF LagBound
<1> QED BY <1>1, <1>2, <1>5, <1>6, HalfAssumption DEF GapBound, i, r

\* The distance from a time to clock + latency, when clock and latency move.
LEMMA DueMoves ==
    ASSUME NEW c1 \in Time, NEW l1 \in Time, NEW c2 \in Time, NEW l2 \in Time, NEW D \in Time,
           NEW x \in Int, NEW e \in Int,
           Apart(TimeAdd(c1, l1), D, x), Apart(c2, c1, e)
    PROVE  Apart(TimeAdd(c2, l2), D, x + e + SlotsOf(l2) - SlotsOf(l1))
<1> DEFINE u == TimeAdd(c1, l1)
           v == TimeAdd(c2, l2)
           m == SlotsOf(l1)
           n == SlotsOf(l2)
<1>1. /\ u \in Time /\ v \in Time /\ Apart(u, c1, m) /\ Apart(v, c2, n)
  BY TimeAddIs
<1>2. /\ SlotsOf(u) \in Int /\ SlotsOf(v) \in Int /\ SlotsOf(c1) \in Int /\ SlotsOf(c2) \in Int
      /\ SlotsOf(D) \in Int /\ m \in Int /\ n \in Int
  BY <1>1, TimeIs, TimeSizes
<1> HIDE DEF u, v, m, n
<1>3. Apart(c1, u, -m) BY <1>1, <1>2, ApartBack
<1>4. Apart(v, c1, n + e) BY <1>1, <1>2, ApartSum
<1>5. Apart(v, u, n + e + (-m)) BY <1>2, <1>3, <1>4, ApartSum
<1>6. Apart(v, D, n + e + (-m) + x) BY <1>2, <1>5, ApartSum DEF u
<1>7. n + e + (-m) + x = x + e + n - m BY <1>2
<1> QED BY <1>6, <1>7 DEF v, m, n

\* ... and when that time goes on by a slot.
LEMMA DueTaken ==
    ASSUME NEW c \in Time, NEW l \in Time, NEW D \in Time, NEW x \in Int,
           Apart(TimeAdd(c, l), D, x)
    PROVE  Apart(TimeAdd(c, l), IncTN(D, 1), x - 1)
<1> DEFINE u == TimeAdd(c, l)
           E == IncTN(D, 1)
<1>1. u \in Time /\ E \in Time /\ Apart(E, D, 1) BY TimeAddIs, IncTNIs
<1>2. SlotsOf(u) \in Int /\ SlotsOf(D) \in Int /\ SlotsOf(E) \in Int BY <1>1, TimeIs, TimeSizes
<1> HIDE DEF u, E
<1>3. Apart(D, E, -1) BY <1>1, <1>2, ApartBack
<1>4. Apart(u, E, x + (-1)) BY <1>2, <1>3, ApartSum DEF u
<1>5. x + (-1) = x - 1 OBVIOUS
<1> QED BY <1>4, <1>5 DEF u, E

\* TxLower sees a slot as due exactly when it is.
LEMMA DueSeen ==
    ASSUME TypeOK, LeadBounded, LagExact
    PROVE  GT(TimeAdd(mClock, mTransmitLatency), mTransmitDeadlineClock) <=> lag > 0
<1>1. mClock \in Time /\ mTransmitLatency \in Time /\ mTransmitDeadlineClock \in Time /\ lag \in Int
  BY DEF TypeOK
<1>2. TimeAdd(mClock, mTransmitLatency) \in Time BY <1>1, TimeAddIs
<1>3. -HalfSlots <= lag /\ lag <= HalfSlots
  BY <1>1, Bounds, TimeSizes DEF LeadBounded, LagExact
<1> QED BY <1>1, <1>2, <1>3, ComparisonExact DEF LagExact

\* The latency is not raised before the clock has gone on.
LEMMA NotRaisedTwice ==
    ASSUME NEW c \in Time
    PROVE  ~GT(c, TimeAdd(c, UpInterval))
<1> DEFINE u == TimeAdd(c, UpInterval)
           n == SlotsOf(UpInterval)
<1>1. u \in Time /\ Apart(u, c, n) BY TimeAddIs, Bounds
<1>2. SlotsOf(u) \in Int /\ SlotsOf(c) \in Int BY <1>1, TimeIs, TimeSizes
<1>3. n \in Nat /\ n <= HalfSlots /\ HalfSlots \in Nat BY Bounds, TimeSizes
<1> HIDE DEF u, n
<1>4. Apart(c, u, -n) BY <1>1, <1>2, <1>3, ApartBack
<1>5. GT(c, u) <=> -n > 0 BY <1>1, <1>3, <1>4, ComparisonExact
<1> QED BY <1>3, <1>5 DEF u

\* The latency that is raised has room, the one that is lowered is no zero.
LEMMA LatencyRaised ==
    ASSUME NEW l \in Time, l.fn < MaxLatencyFN
    PROVE  /\ TimeAdd(l, T(1, 0)) \in Time
           /\ SlotsOf(TimeAdd(l, T(1, 0))) = SlotsOf(l) + Slots
           /\ SlotsOf(l) + Slots <= MaxLatency
<1>1. /\ l.fn \in 0 .. Hyperframe - 1 /\ l.tn \in 0 .. Slots - 1 /\ SlotsOf(l) = l.fn * Slots + l.tn
      /\ l.fn * Slots \in Nat /\ Slots \in Nat \ {0} /\ Hyperframe \in Nat \ {0}
      /\ MaxLatencyFN \in Nat
  BY TimeIs, TimeSizes, Bounds
<1>2. (l.fn + 1) * Slots = l.fn * Slots + Slots BY <1>1
<1>3. l.fn * Slots + Slots <= MaxLatencyFN * Slots BY <1>1, Multiples
<1> DEFINE f == l.fn * Slots
           m == MaxLatencyFN * Slots
<1>4. f \in Nat /\ m \in Nat /\ f + Slots <= m /\ SlotsOf(l) = f + l.tn BY <1>1, <1>3
<1>5. m + Slots - 1 <= MaxLatency BY Bounds
<1> HIDE DEF f, m
<1>6. SlotsOf(l) + Slots <= MaxLatency BY <1>1, <1>4, <1>5, Bounds
<1>7. l.fn + 1 < Hyperframe
  <2>1. MaxLatency + 1 <= HalfSlots /\ Turn = 2 * HalfSlots + 2 * Slots /\ HalfSlots \in Nat
    BY Bounds, TimeSizes
  <2>2. f + Slots < Turn BY <1>1, <1>4, <1>6, <2>1, Bounds
  <2>3. (l.fn + 1) * Slots < Hyperframe * Slots BY <1>2, <2>2 DEF f, Turn
  <2> QED BY <1>1, <2>3, Scaled
<1>8. TimeAdd(l, T(1, 0)) = [fn |-> l.fn + 1, tn |-> l.tn]
  <2>1. T(1, 0).fn = 1 /\ T(1, 0).tn = 0 BY DEF T
  <2>2. l.tn + 0 = l.tn /\ l.tn % Slots = l.tn /\ l.tn \div Slots = 0
    <3>1. l.tn % Slots = l.tn /\ l.tn \div Slots = 0 BY <1>1, Reduced, Zenon
    <3> QED BY <3>1, <1>1
  <2>3. (l.fn + 1 + 0) % Hyperframe = l.fn + 1
    <3>1. l.fn + 1 + 0 = l.fn + 1 /\ l.fn + 1 \in 0 .. Hyperframe - 1 BY <1>1, <1>7
    <3> QED BY <1>1, <3>1, Reduced
  <2>4. TimeAdd(l, T(1, 0)) =
            [fn |-> (l.fn + 1 + ((l.tn + 0) \div Slots)) % Hyperframe, tn |-> (l.tn + 0) % Slots]
    BY <2>1 DEF TimeAdd, T
  <2> QED BY <2>2, <2>3, <2>4
<1>9. TimeAdd(l, T(1, 0)) \in Time BY <1>1, <1>7, <1>8 DEF Time, FNs, TNs
<1>10. SlotsOf(TimeAdd(l, T(1, 0))) = (l.fn + 1) * Slots + l.tn BY <1>8 DEF SlotsOf
<1>11. SlotsOf(TimeAdd(l, T(1, 0))) = f + Slots + l.tn BY <1>2, <1>10 DEF f
<1> QED BY <1>1, <1>4, <1>6, <1>9, <1>11

LEMMA LatencyLowered ==
    ASSUME NEW l \in Time, SlotsOf(l) <= MaxLatency, GT(l, MinLatency)
    PROVE  DecTN(l, 1) \in Time /\ SlotsOf(DecTN(l, 1)) = SlotsOf(l) - 1
<1> DEFINE d == SlotsOf(l) - SlotsOf(MinLatency)
<1>1. SlotsOf(l) \in Nat /\ SlotsOf(MinLatency) \in Nat /\ MinLatency \in Time
      /\ MaxLatency <= HalfSlots /\ SlotsOf(MinLatency) <= HalfSlots /\ HalfSlots \in Nat
      /\ MaxLatency \in Nat
  BY TimeIs, Bounds, TimeSizes
<1>2. d \in Int /\ -HalfSlots <= d /\ d <= HalfSlots BY <1>1
<1>3. Apart(l, MinLatency, d)
  <2>1. 0 * Turn = 0 BY TimeSizes
  <2>2. SlotsOf(l) - SlotsOf(MinLatency) = d + 0 * Turn BY <1>1, <2>1
  <2> QED BY <2>2 DEF Apart
<1> HIDE DEF d
<1>4. d > 0 BY <1>1, <1>2, <1>3, ComparisonExact
<1>5. SlotsOf(l) > 0 BY <1>1, <1>4 DEF d
<1> QED BY <1>5, DecTNIs
-----------------------------------------------------------------------------
(* The actions *)

LEMMA InitIInv == Init => IInv
<1> SUFFICES ASSUME Init PROVE IInv OBVIOUS
<1>1. PICK fn \in FNs :
        /\ mClock = T(fn, 0) /\ mTransmitDeadlineClock = T(fn, 0)
        /\ mLastClockUpdateTime = T(fn, 0) /\ mLatencyUpdateTime = T(fn, 0)
  BY DEF Init
<1>2. /\ mOn = FALSE /\ running = FALSE /\ mTransmitLatency = InitLatency
      /\ mForceClockInterface = FALSE /\ underrun = FALSE /\ pc = "wait" /\ rx = 0
      /\ rxpc = "receive" /\ lag = SlotsOf(InitLatency) /\ age = 0
  BY DEF Init
<1>3. T(fn, 0) \in Time BY TimeSizes DEF T, Time, FNs, TNs
<1>4. lag \in Nat /\ lag <= LagBound BY <1>2, Bounds
<1>5. TypeOK
  <2>1. 0 \in 0 .. MaxAge /\ 0 \in 0 .. ChunkBursts BY TimingAssumption
  <2>2. InitLatency \in Time /\ lag \in Int BY <1>4, Bounds
  <2> QED BY <1>1, <1>2, <1>3, <2>1, <2>2 DEF TypeOK
<1>6. LeadBounded BY <1>4 DEF LeadBounded
<1>7. Phase BY <1>2 DEF Phase
<1>8. LatencyBounded BY <1>2, Bounds DEF LatencyBounded
<1>9. LagExact
  <2>1. Apart(TimeAdd(mClock, mTransmitLatency), mTransmitDeadlineClock, lag)
    BY <1>1, <1>2, <1>3, Bounds, TimeAddIs
  <2> QED BY <2>1, <1>1, <1>4 DEF LagExact
<1>10. IndicationExact
  <2>1. Apart(mTransmitDeadlineClock, mLastClockUpdateTime, 0)
    BY <1>1, <1>3, ApartNone, TimeIs, TimeSizes
  <2>2. 0 + lag - SlotsOf(mTransmitLatency) <= SlotsOf(Second) + LagBound + rx
    BY <1>2, Bounds
  <2> QED BY <2>1, <2>2 DEF IndicationExact
<1> QED BY <1>5, <1>6, <1>7, <1>8, <1>9, <1>10 DEF IInv

\* What the steps below need of the types.
LEMMA Types ==
    ASSUME TypeOK
    PROVE  /\ mClock \in Time /\ mTransmitDeadlineClock \in Time /\ mTransmitLatency \in Time
           /\ mLatencyUpdateTime \in Time /\ mLastClockUpdateTime \in Time
           /\ lag \in Int /\ rx \in Nat /\ SlotsOf(mTransmitLatency) \in Nat
           /\ TimeAdd(mClock, mTransmitLatency) \in Time
BY TimeIs, TimeAddIs, TimeSizes, Bounds DEF TypeOK

\* The loop condition holds if the slot is due.
LEMMA DriveTxFIFOIInv ==
    ASSUME IInv, DriveTxFIFO
    PROVE  IInv'
<1>1. /\ pc = "wait" /\ mOn /\ pc' \in {"adapt", "push"}
      /\ UNCHANGED <<mOn, running, mClock, mTransmitDeadlineClock, latVars, indVars, underrun,
                     rx, rxpc, lag, age>>
  BY DEF DriveTxFIFO
<1>2. lag > 0 BY DueSeen DEF IInv, DriveTxFIFO
<1>3. TypeOK' BY <1>1 DEF IInv, TypeOK, latVars, indVars
<1>4. Phase' BY <1>1, <1>2, Types DEF IInv, Phase
<1>5. LeadBounded' /\ LatencyBounded' /\ LagExact' /\ IndicationExact'
  BY <1>1 DEF IInv, LeadBounded, LatencyBounded, LagExact, IndicationExact, latVars, indVars
<1> QED BY <1>3, <1>4, <1>5 DEF IInv

\* The latency and with it the lag change by the same.
LEMMA AdaptLatencyIInv ==
    ASSUME IInv, AdaptLatency
    PROVE  IInv'
<1>1. /\ pc = "adapt" /\ pc' = "push" /\ underrun' = FALSE
      /\ UNCHANGED <<mOn, running, mClock, mTransmitDeadlineClock, indVars, rx, rxpc>>
  BY DEF AdaptLatency
<1>t. /\ mClock \in Time /\ mTransmitDeadlineClock \in Time /\ mTransmitLatency \in Time
      /\ lag \in Int /\ rx \in Nat /\ SlotsOf(mTransmitLatency) \in Nat /\ lag >= 1
      /\ SlotsOf(mTransmitLatency) <= MaxLatency /\ lag <= LagBound
      /\ LagBound \in Nat /\ MaxLatency \in Nat /\ Slots \in Nat \ {0} /\ MaxLag \in Nat
      /\ MaxLag + Slots <= LagBound
  BY <1>1, Types, Bounds, TimeSizes DEF IInv, Phase, LatencyBounded, LagExact
<1>2. \/ UNCHANGED <<mTransmitLatency, mLatencyUpdateTime, lag, age>>
      \/ /\ mLatencyUpdateTime' = mClock /\ age' = 0
         /\ mTransmitLatency' \in Time
         /\ lag' - lag = SlotsOf(mTransmitLatency') - SlotsOf(mTransmitLatency)
         /\ SlotsOf(mTransmitLatency') <= MaxLatency
         /\ lag' \in Int /\ lag' >= 0 /\ lag' <= LagBound
  <2>1. CASE RaiseLatency
    <3>1. mTransmitLatency.fn < MaxLatencyFN BY <2>1 DEF IInv, LatencyBounded, RaiseLatency
    <3>2. mLatencyUpdateTime # mClock BY <2>1, <1>t, NotRaisedTwice DEF RaiseLatency
    <3>3. lag <= MaxLag BY <3>2, <1>t DEF IInv, LagExact
    <3>4. /\ mTransmitLatency' = TimeAdd(mTransmitLatency, T(1, 0)) /\ lag' = lag + Slots
          /\ mLatencyUpdateTime' = mClock /\ age' = 0
      BY <2>1 DEF AdaptLatency, RaiseLatency, LowerLatency
    <3>5. /\ mTransmitLatency' \in Time
          /\ SlotsOf(mTransmitLatency') = SlotsOf(mTransmitLatency) + Slots
          /\ SlotsOf(mTransmitLatency) + Slots <= MaxLatency
      BY <3>1, <3>4, <1>t, LatencyRaised
    <3> QED BY <3>3, <3>4, <3>5, <1>t
  <2>2. CASE LowerLatency
    <3>1. /\ mTransmitLatency' = DecTN(mTransmitLatency, 1) /\ lag' = lag - 1
          /\ mLatencyUpdateTime' = mClock /\ age' = 0
      BY <2>2 DEF AdaptLatency, RaiseLatency, LowerLatency
    <3>2. GT(mTransmitLatency, MinLatency) BY <2>2 DEF LowerLatency
    <3>3. /\ mTransmitLatency' \in Time
          /\ SlotsOf(mTransmitLatency') = SlotsOf(mTransmitLatency) - 1
      BY <3>1, <3>2, <1>t, LatencyLowered
    <3> QED BY <3>1, <3>3, <1>t
  <2>3. CASE ~RaiseLatency /\ ~LowerLatency BY <2>3 DEF AdaptLatency
  <2> QED BY <2>1, <2>2, <2>3
<1>3. CASE UNCHANGED <<mTransmitLatency, mLatencyUpdateTime, lag, age>>
  <2>1. TypeOK' BY <1>1, <1>3 DEF IInv, TypeOK, indVars
  <2>2. Phase' BY <1>1, <1>3, <1>t DEF IInv, Phase
  <2>3. LatencyBounded' BY <1>1, <1>3 DEF IInv, LatencyBounded
  <2>4. LeadBounded' /\ LagExact' /\ IndicationExact'
    BY <1>1, <1>3 DEF IInv, LeadBounded, LagExact, IndicationExact, indVars
  <2> QED BY <2>1, <2>2, <2>3, <2>4 DEF IInv
<1>4. CASE /\ mLatencyUpdateTime' = mClock /\ age' = 0
           /\ mTransmitLatency' \in Time
           /\ lag' - lag = SlotsOf(mTransmitLatency') - SlotsOf(mTransmitLatency)
           /\ SlotsOf(mTransmitLatency') <= MaxLatency
           /\ lag' \in Int /\ lag' >= 0 /\ lag' <= LagBound
  <2>1. TypeOK'
    <3>1. age' \in 0 .. MaxAge BY <1>4, TimingAssumption
    <3> QED BY <3>1, <1>1, <1>4, <1>t DEF IInv, TypeOK, indVars
  <2>2. Phase' BY <1>1, <1>4 DEF IInv, Phase
  <2>3. LatencyBounded' BY <1>1, <1>4 DEF LatencyBounded
  <2>4. LeadBounded' BY <1>4 DEF LeadBounded
  <2>5. SlotsOf(mTransmitLatency') \in Nat BY <1>4, TimeIs, TimeSizes
  <2>6. LagExact'
    <3>1. Apart(mClock, mClock, 0) BY <1>t, ApartNone, TimeIs, TimeSizes
    <3>2. Apart(TimeAdd(mClock, mTransmitLatency'), mTransmitDeadlineClock,
                lag + 0 + SlotsOf(mTransmitLatency') - SlotsOf(mTransmitLatency))
      BY <3>1, <1>4, <1>t, DueMoves DEF IInv, LagExact
    <3>3. lag + 0 + SlotsOf(mTransmitLatency') - SlotsOf(mTransmitLatency) = lag'
      BY <2>5, <1>4, <1>t
    <3>4. Apart(TimeAdd(mClock', mTransmitLatency'), mTransmitDeadlineClock', lag')
      BY <3>2, <3>3, <1>1
    <3> QED BY <3>4, <1>1, <1>4 DEF LagExact, Apart, SlotsOf, Turn
  <2>7. IndicationExact'
    <3>1. PICK g \in Nat :
            /\ Apart(mTransmitDeadlineClock, mLastClockUpdateTime, g)
            /\ g + lag - SlotsOf(mTransmitLatency) <= SlotsOf(Second) + LagBound + rx
      BY DEF IInv, IndicationExact
    <3>2. g + lag' - SlotsOf(mTransmitLatency') = g + lag - SlotsOf(mTransmitLatency)
      BY <2>5, <1>4, <1>t
    <3>3. g + lag' - SlotsOf(mTransmitLatency') <= SlotsOf(Second) + LagBound + rx'
      BY <3>1, <3>2, <1>1
    <3> QED BY <3>1, <3>3, <1>1 DEF IndicationExact, indVars
  <2> QED BY <2>1, <2>2, <2>3, <2>4, <2>6, <2>7 DEF IInv
<1> QED BY <1>2, <1>3, <1>4

\* The deadline goes on by the slot that was pushed.
LEMMA PushIInv ==
    ASSUME IInv, Push
    PROVE  IInv'
<1>1. /\ pc = "push" /\ pc' = "wait"
      /\ mTransmitDeadlineClock' = IncTN(mTransmitDeadlineClock, 1) /\ lag' = lag - 1
      /\ UNCHANGED <<mOn, running, mClock, latVars, indVars, underrun, rx, rxpc, age>>
  BY DEF Push
<1>t. /\ mClock \in Time /\ mTransmitDeadlineClock \in Time /\ mTransmitLatency \in Time
      /\ mLastClockUpdateTime \in Time
      /\ lag \in Int /\ rx \in Nat /\ SlotsOf(mTransmitLatency) \in Nat /\ lag >= 0
      /\ lag <= LagBound /\ LagBound \in Nat /\ MaxLag \in Nat
  BY <1>1, Types, Bounds DEF IInv, Phase, LagExact
<1>2. /\ mTransmitDeadlineClock' \in Time
      /\ Apart(mTransmitDeadlineClock', mTransmitDeadlineClock, 1)
  BY <1>1, <1>t, IncTNIs
<1>3. TypeOK' BY <1>1, <1>2, <1>t DEF IInv, TypeOK, latVars, indVars
<1>4. LeadBounded' BY <1>1, <1>t DEF LeadBounded
<1>5. Phase' BY <1>1 DEF IInv, Phase
<1>6. LatencyBounded' BY <1>1 DEF IInv, LatencyBounded, latVars
<1>7. LagExact'
  <2>1. Apart(TimeAdd(mClock, mTransmitLatency), IncTN(mTransmitDeadlineClock, 1), lag - 1)
    BY <1>t, DueTaken DEF IInv, LagExact
  <2>2. lag' <= LagBound /\ (lag' > MaxLag => lag > MaxLag) BY <1>1, <1>t
  <2> QED BY <2>1, <2>2, <1>1 DEF IInv, LagExact, latVars
<1>8. IndicationExact'
  <2>1. PICK g \in Nat :
          /\ Apart(mTransmitDeadlineClock, mLastClockUpdateTime, g)
          /\ g + lag - SlotsOf(mTransmitLatency) <= SlotsOf(Second) + LagBound + rx
    BY DEF IInv, IndicationExact
  <2>2. Apart(mTransmitDeadlineClock', mLastClockUpdateTime, 1 + g)
    BY <2>1, <1>2, <1>t, ApartSum, TimeIs, TimeSizes
  <2>3. 1 + g + (lag - 1) - SlotsOf(mTransmitLatency) = g + lag - SlotsOf(mTransmitLatency)
        /\ 1 + g \in Nat
    BY <1>t
  <2> QED BY <2>1, <2>2, <2>3, <1>1 DEF IndicationExact, latVars, indVars
<1> QED BY <1>3, <1>4, <1>5, <1>6, <1>7, <1>8 DEF IInv

\* The clock goes on by the burst that was received.
LEMMA RxTickIInv ==
    ASSUME IInv, RxTick
    PROVE  IInv'
<1>1. /\ running /\ rx < ChunkBursts /\ lag < MaxLag
      /\ rx' = rx + 1 /\ mClock' = IncTN(mClock, 1) /\ lag' = lag + 1
      /\ age' = IF UsrpWindow /\ age < MaxAge THEN age + 1 ELSE age
      /\ UNCHANGED <<mOn, running, mTransmitDeadlineClock, latVars, indVars, underrun, pc,
                     rxpc>>
  BY DEF RxTick
<1>t. /\ mClock \in Time /\ mTransmitDeadlineClock \in Time /\ mTransmitLatency \in Time
      /\ lag \in Int /\ rx \in Nat /\ SlotsOf(mTransmitLatency) \in Nat
      /\ LagBound \in Nat /\ MaxLag \in Nat /\ MaxLag <= LagBound /\ ChunkBursts \in Nat
      /\ age \in 0 .. MaxAge /\ MaxAge \in Nat
  BY Types, Bounds, TimeSizes, TimingAssumption DEF IInv, TypeOK
<1>2. mClock' \in Time /\ Apart(mClock', mClock, 1) BY <1>1, <1>t, IncTNIs
<1>3. TypeOK'
  <2>1. age' \in 0 .. MaxAge /\ rx' \in 0 .. ChunkBursts /\ lag' \in Int BY <1>1, <1>t
  <2> QED BY <2>1, <1>1, <1>2 DEF IInv, TypeOK, latVars, indVars
<1>4. LeadBounded' BY <1>1, <1>t DEF IInv, LeadBounded
<1>5. Phase' BY <1>1, <1>t DEF IInv, Phase
<1>6. LatencyBounded' BY <1>1 DEF IInv, LatencyBounded, latVars
<1>7. LagExact'
  <2>1. Apart(TimeAdd(mClock', mTransmitLatency), mTransmitDeadlineClock,
              lag + 1 + SlotsOf(mTransmitLatency) - SlotsOf(mTransmitLatency))
    BY <1>2, <1>t, DueMoves DEF IInv, LagExact
  <2>2. lag + 1 + SlotsOf(mTransmitLatency) - SlotsOf(mTransmitLatency) = lag' BY <1>1, <1>t
  <2>3. lag' <= MaxLag /\ lag' <= LagBound BY <1>1, <1>t
  <2>4. Apart(TimeAdd(mClock', mTransmitLatency), mTransmitDeadlineClock, lag') BY <2>1, <2>2
  <2>5. ~(lag' > MaxLag) BY <2>3, <1>1, <1>t
  <2> QED BY <2>3, <2>4, <2>5, <1>1 DEF LagExact, latVars
<1>8. IndicationExact'
  <2>1. PICK g \in Nat :
          /\ Apart(mTransmitDeadlineClock, mLastClockUpdateTime, g)
          /\ g + lag - SlotsOf(mTransmitLatency) <= SlotsOf(Second) + LagBound + rx
    BY DEF IInv, IndicationExact
  <2>2. g + (lag + 1) - SlotsOf(mTransmitLatency) <= SlotsOf(Second) + LagBound + (rx + 1)
    BY <2>1, <1>t, Bounds
  <2> QED BY <2>1, <2>2, <1>1 DEF IndicationExact, latVars, indVars
<1> QED BY <1>3, <1>4, <1>5, <1>6, <1>7, <1>8 DEF IInv

\* The flag of a late write is set only while the latency may still be raised.
LEMMA RxUnderrunIInv ==
    ASSUME IInv, RxUnderrun
    PROVE  IInv'
<1>1. /\ mTransmitLatency.fn < MaxLatencyFN /\ underrun' = TRUE
      /\ UNCHANGED <<mOn, running, mClock, mTransmitDeadlineClock, latVars, indVars, pc, rx, rxpc,
                     lag, age>>
  BY DEF RxUnderrun
<1>2. TypeOK' BY <1>1 DEF IInv, TypeOK, latVars, indVars
<1>3. LatencyBounded' BY <1>1 DEF IInv, LatencyBounded, latVars
<1>4. LeadBounded' /\ Phase' /\ LagExact' /\ IndicationExact'
  BY <1>1 DEF IInv, LeadBounded, Phase, LagExact, IndicationExact, latVars, indVars
<1> QED BY <1>2, <1>3, <1>4 DEF IInv

\* How far the deadline is from the last indication.
LEMMA Gap ==
    ASSUME IInv
    PROVE  \E g \in Nat :
              /\ Apart(mTransmitDeadlineClock, mLastClockUpdateTime, g)
              /\ g + lag - SlotsOf(mTransmitLatency) <= SlotsOf(Second) + LagBound + rx
              /\ g <= HalfSlots
              /\ GT(mTransmitDeadlineClock, TimeAdd(mLastClockUpdateTime, Second))
                    <=> g > SlotsOf(Second)
<1>1. PICK g \in Nat :
        /\ Apart(mTransmitDeadlineClock, mLastClockUpdateTime, g)
        /\ g + lag - SlotsOf(mTransmitLatency) <= SlotsOf(Second) + LagBound + rx
  BY DEF IInv, IndicationExact
<1>2. /\ mTransmitDeadlineClock \in Time /\ mLastClockUpdateTime \in Time
      /\ lag \in Int /\ lag >= -1 /\ rx \in Nat /\ rx <= ChunkBursts
      /\ SlotsOf(mTransmitLatency) \in Nat /\ SlotsOf(mTransmitLatency) <= MaxLatency
  BY Types, Bounds DEF IInv, LeadBounded, LatencyBounded, TypeOK
<1>3. g <= HalfSlots BY <1>1, <1>2, Bounds, TimeSizes
<1> DEFINE n == SlotsOf(Second)
           w == TimeAdd(mLastClockUpdateTime, Second)
<1>4. n \in Nat /\ n <= HalfSlots /\ HalfSlots \in Nat /\ Second \in Time BY Bounds, TimeSizes
<1>5. w \in Time /\ Apart(w, mLastClockUpdateTime, n) BY <1>2, <1>4, TimeAddIs
<1>6. /\ SlotsOf(w) \in Int /\ SlotsOf(mLastClockUpdateTime) \in Int
      /\ SlotsOf(mTransmitDeadlineClock) \in Int
  BY <1>2, <1>5, TimeIs, TimeSizes
<1> HIDE DEF n, w
<1>7. Apart(mLastClockUpdateTime, w, -n) BY <1>4, <1>5, <1>6, ApartBack
<1>8. Apart(mTransmitDeadlineClock, w, g + (-n)) BY <1>1, <1>4, <1>6, <1>7, ApartSum
<1>9. g + (-n) \in Int /\ -HalfSlots <= g + (-n) /\ g + (-n) <= HalfSlots
  BY <1>3, <1>4
<1>10. GT(mTransmitDeadlineClock, w) <=> g + (-n) > 0
  BY <1>2, <1>5, <1>8, <1>9, ComparisonExact
<1>11. g + (-n) > 0 <=> g > n BY <1>4
<1> QED BY <1>1, <1>3, <1>10, <1>11 DEF n, w

\* Without an indication the deadline is no second ahead of the last one.
LEMMA DriveClockIInv ==
    ASSUME IInv, DriveClock
    PROVE  IInv'
<1>1. /\ \/ ClockDue /\ rxpc' = "due" /\ rx' = rx
         \/ ~ClockDue /\ rxpc' = rxpc /\ rx' = 0
      /\ UNCHANGED <<mOn, running, mClock, mTransmitDeadlineClock, latVars, indVars, underrun,
                     pc, lag, age>>
  BY DEF DriveClock
<1>t. /\ lag \in Int /\ lag <= LagBound /\ LagBound \in Nat
      /\ SlotsOf(mTransmitLatency) \in Nat /\ SlotsOf(Second) \in Nat
  BY Types, Bounds DEF IInv, LagExact
<1>2. TypeOK'
  <2>1. rx' \in 0 .. ChunkBursts BY <1>1, Bounds DEF IInv, TypeOK
  <2> QED BY <2>1, <1>1 DEF IInv, TypeOK, latVars, indVars
<1>3. LeadBounded' /\ Phase' /\ LatencyBounded' /\ LagExact'
  BY <1>1 DEF IInv, LeadBounded, Phase, LatencyBounded, LagExact, latVars
<1>4. IndicationExact'
  <2>1. CASE ClockDue BY <2>1, <1>1 DEF IInv, IndicationExact, latVars, indVars
  <2>2. CASE ~ClockDue
    <3>1. PICK g \in Nat :
            /\ Apart(mTransmitDeadlineClock, mLastClockUpdateTime, g)
            /\ GT(mTransmitDeadlineClock, TimeAdd(mLastClockUpdateTime, Second))
                  <=> g > SlotsOf(Second)
      BY Gap
    <3>2. g <= SlotsOf(Second) BY <2>2, <3>1, <1>t DEF ClockDue
    <3>3. g + lag - SlotsOf(mTransmitLatency) <= SlotsOf(Second) + LagBound + 0 BY <3>2, <1>t
    <3> QED BY <2>2, <3>1, <3>3, <1>1 DEF IndicationExact, latVars, indVars
  <2> QED BY <2>1, <2>2
<1> QED BY <1>2, <1>3, <1>4 DEF IInv

\* After an indication the deadline is where the last one was.
LEMMA NoteClockIInv ==
    ASSUME IInv, NoteClock
    PROVE  IInv'
<1>1. /\ rxpc' = "receive" /\ rx' = 0
      /\ mLastClockUpdateTime' = mTransmitDeadlineClock
      /\ UNCHANGED <<mOn, running, mClock, mTransmitDeadlineClock, latVars,
                     mForceClockInterface, underrun, pc, lag, age>>
  BY DEF NoteClock
<1>t. /\ mTransmitDeadlineClock \in Time /\ lag \in Int /\ lag <= LagBound /\ LagBound \in Nat
      /\ SlotsOf(mTransmitLatency) \in Nat /\ SlotsOf(Second) \in Nat
  BY Types, Bounds DEF IInv, LagExact
<1>2. TypeOK'
  <2>1. rx' \in 0 .. ChunkBursts /\ mLastClockUpdateTime' \in Time BY <1>1, <1>t, Bounds
  <2> QED BY <2>1, <1>1 DEF IInv, TypeOK, latVars
<1>3. LeadBounded' /\ Phase' /\ LatencyBounded' /\ LagExact'
  BY <1>1 DEF IInv, LeadBounded, Phase, LatencyBounded, LagExact, latVars
<1>4. IndicationExact'
  <2>1. Apart(mTransmitDeadlineClock', mLastClockUpdateTime', 0)
    BY <1>1, <1>t, ApartNone, TimeIs, TimeSizes
  <2>2. 0 + lag - SlotsOf(mTransmitLatency) <= SlotsOf(Second) + LagBound + 0 BY <1>t
  <2>3. 0 + lag' - SlotsOf(mTransmitLatency') <= SlotsOf(Second) + LagBound + rx'
    BY <2>2, <1>1 DEF latVars
  <2> QED BY <2>1, <2>3 DEF IndicationExact
<1> QED BY <1>2, <1>3, <1>4 DEF IInv

\* start() sets all times to the clock's.
LEMMA PowerOnIInv ==
    ASSUME IInv, PowerOn
    PROVE  IInv'
<1>1. /\ ~mOn /\ ~running /\ running' \in BOOLEAN
      /\ mTransmitDeadlineClock' = mClock /\ mLastClockUpdateTime' = mClock
      /\ mLatencyUpdateTime' = mClock /\ age' = 0 /\ lag' = SlotsOf(mTransmitLatency)
      /\ rx' = 0 /\ rxpc' = "receive"
      /\ UNCHANGED <<mOn, mClock, mTransmitLatency, mForceClockInterface, underrun, pc>>
  BY DEF PowerOn
<1>t. /\ mClock \in Time /\ mTransmitLatency \in Time /\ SlotsOf(mTransmitLatency) \in Nat
      /\ SlotsOf(mTransmitLatency) <= MaxLatency /\ MaxLatency <= LagBound /\ rx \in Nat
      /\ LagBound \in Nat /\ MaxLatency \in Nat /\ SlotsOf(Second) \in Nat
  BY Types, Bounds DEF IInv, LatencyBounded
<1>2. TypeOK'
  <2>1. age' \in 0 .. MaxAge /\ lag' \in Int /\ rx' \in 0 .. ChunkBursts
    BY <1>1, <1>t, TimingAssumption
  <2> QED BY <2>1, <1>1, <1>t DEF IInv, TypeOK
<1>3. LeadBounded' BY <1>1, <1>t DEF LeadBounded
<1>4. Phase' BY <1>1 DEF IInv, Phase
<1>5. LatencyBounded' BY <1>1 DEF IInv, LatencyBounded
<1>6. LagExact'
  <2>1. Apart(TimeAdd(mClock, mTransmitLatency), mClock, SlotsOf(mTransmitLatency))
    BY <1>t, TimeAddIs
  <2>2. Apart(TimeAdd(mClock', mTransmitLatency'), mTransmitDeadlineClock', lag')
    BY <2>1, <1>1
  <2>3. lag' <= LagBound BY <1>1, <1>t
  <2> QED BY <2>2, <2>3, <1>1 DEF LagExact
<1>7. IndicationExact'
  <2>1. Apart(mTransmitDeadlineClock', mLastClockUpdateTime', 0)
    BY <1>1, <1>t, ApartNone, TimeIs, TimeSizes
  <2>2. 0 + lag' - SlotsOf(mTransmitLatency') <= SlotsOf(Second) + LagBound + rx'
    BY <1>1, <1>t
  <2> QED BY <2>1, <2>2 DEF IndicationExact
<1> QED BY <1>2, <1>3, <1>4, <1>5, <1>6, <1>7 DEF IInv

\* The steps that leave all times alone.
LEMMA OthersIInv ==
    ASSUME IInv, SetOn \/ PowerOff \/ TakeForced \/ SendClock \/ UNCHANGED vars
    PROVE  IInv'
<1>1. /\ mOn' \in BOOLEAN /\ running' \in BOOLEAN /\ mForceClockInterface' \in BOOLEAN
      /\ mOn' => running'
      /\ pc # "wait" => mOn'
      /\ rxpc' \in {"receive", "due", "send", "sent"}
      /\ UNCHANGED <<mClock, mTransmitDeadlineClock, latVars, mLastClockUpdateTime, underrun, pc,
                     rx, lag, age>>
  <2>t. /\ mOn \in BOOLEAN /\ running \in BOOLEAN /\ mForceClockInterface \in BOOLEAN
        /\ mOn => running
        /\ pc # "wait" => mOn
        /\ rxpc \in {"receive", "due", "send", "sent"}
    BY DEF IInv, TypeOK, Phase
  <2>1. CASE SetOn BY <2>1, <2>t DEF SetOn, indVars
  <2>2. CASE PowerOff BY <2>2, <2>t DEF PowerOff, indVars
  <2>3. CASE UNCHANGED vars BY <2>3, <2>t DEF vars, indVars
  <2>4. CASE TakeForced BY <2>4, <2>t DEF TakeForced
  <2>5. CASE SendClock BY <2>5, <2>t DEF SendClock, indVars
  <2> QED BY <2>1, <2>2, <2>3, <2>4, <2>5
<1>2. TypeOK' BY <1>1 DEF IInv, TypeOK, latVars
<1>3. Phase' BY <1>1 DEF IInv, Phase
<1>4. LeadBounded' /\ LatencyBounded' /\ LagExact' /\ IndicationExact'
  BY <1>1 DEF IInv, LeadBounded, LatencyBounded, LagExact, IndicationExact, latVars
<1> QED BY <1>2, <1>3, <1>4 DEF IInv

\* Every step keeps the invariant.
LEMMA NextIInv == IInv /\ [Next]_vars => IInv'
BY DriveTxFIFOIInv, AdaptLatencyIInv, PushIInv, RxTickIInv, RxUnderrunIInv, DriveClockIInv,
   NoteClockIInv, PowerOnIInv, OthersIInv
   DEF Next, TxLower, RxClock

\* A datagram has no time before the last one noted, what is noted is after it,
\* and not by half a hyperframe.
LEMMA IndicationStep ==
    ASSUME IInv, [Next]_vars
    PROVE  /\ ~GT(mLastClockUpdateTime, mTransmitDeadlineClock)
           /\ mLastClockUpdateTime' # mLastClockUpdateTime /\ running
                => GT(mLastClockUpdateTime', mLastClockUpdateTime)
<1> DEFINE D == mTransmitDeadlineClock
           L == mLastClockUpdateTime
<1>1. L' # L /\ running => L' = D
  BY DEF Next, vars, indVars, TxLower, DriveTxFIFO, AdaptLatency, Push, RxTick, RxUnderrun,
         RxClock, DriveClock, TakeForced, SendClock, NoteClock, PowerOn, SetOn, PowerOff
<1>2. PICK g \in Nat : Apart(D, L, g) /\ g <= HalfSlots BY Gap
<1>3. D \in Time /\ L \in Time BY Types DEF IInv
<1>4. SlotsOf(D) \in Int /\ SlotsOf(L) \in Int BY <1>3, TimeIs, TimeSizes
<1>5. /\ -HalfSlots <= g /\ g \in Int /\ -HalfSlots <= -g /\ -g <= HalfSlots /\ -g \in Int
      /\ g <= HalfSlots
  BY <1>2, TimeSizes
<1> HIDE DEF D, L
<1>6. (GT(D, L) <=> g > 0) /\ (g = 0 => D = L) BY <1>2, <1>3, <1>5, ComparisonExact
<1>7. Apart(L, D, -g) BY <1>2, <1>4, <1>5, ApartBack
<1>8. GT(L, D) <=> -g > 0 BY <1>3, <1>5, <1>7, ComparisonExact
<1>9. ~GT(L, D) BY <1>8
<1>10. ASSUME L' # L, running PROVE GT(L', L)
  <2>1. L' = D BY <1>1, <1>10
  <2>2. g # 0 BY <2>1, <1>6, <1>10
  <2> QED BY <2>1, <2>2, <1>6
<1> QED BY <1>9, <1>10 DEF D, L
-----------------------------------------------------------------------------
(* Theorems *)

\* The inductive invariant of the transmit timing: the history variables count
\* what lies between the times, modulo the hyperframe, and stay small.
THEOREM TtInductive == Spec => []IInv
BY InitIInv, NextIInv, PTL DEF Spec

\* driveTxFIFO's deadline never runs ahead of clock and latency, and its loop
\* condition is true exactly when a slot is due, across every wrap.
THEOREM TtDeadlineInv == Spec => []DeadlineInv
<1>1. IInv => DeadlineInv BY DueSeen DEF IInv, DeadlineInv, DueIsExact
<1> QED BY <1>1, TtInductive, PTL

\* The times that writeClockInterface sends and notes in a session go forward,
\* although TxLower moves the deadline between the two.
THEOREM TtIndicationForward == Spec => IndicationForward
<1> DEFINE A == /\ rxpc = "send" /\ rxpc' = "sent"
                      => ~GT(mLastClockUpdateTime, mTransmitDeadlineClock)
                /\ mLastClockUpdateTime' # mLastClockUpdateTime /\ running
                      => GT(mLastClockUpdateTime', mLastClockUpdateTime)
<1>1. IInv /\ [Next]_vars => [A]_vars BY IndicationStep
<1>2. [][A]_vars => IndicationForward BY DEF IndicationForward
<1> QED BY <1>1, <1>2, TtInductive, PTL DEF Spec
=============================================================================
