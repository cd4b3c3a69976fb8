---------------------------- MODULE UplinkProofs ----------------------------
(***************************************************************************)
(* The uplink, for every number of channels and slots, every size of ring, *)
(* FIFO and noise average, and every receive offset: bursts lie in their   *)
(* slots and carry their times, the rings are cut at the same places and   *)
(* have room, the noise level is that of the last idle bursts (UplinkInv), *)
(* and bursts are handled in the order of the air.                         *)
(* What is found in them: the detectors give the right time of arrival for *)
(* every delay and every expected delay, and the demodulators put every    *)
(* symbol in its place (Detect); convolve() and its callers read allocated *)
(* samples only, for inputs, headroom and filters of any length            *)
(* (SigVector).                                                            *)
(* The sample paths: what the transmit threads hand over reaches the       *)
(* device at the time it was meant for, and the blocks in which the radio  *)
(* interfaces, the resampler and the filter banks work join into one       *)
(* stream. The modulators fill their vectors and no more, whatever length  *)
(* the burst and the pulse have, and the SIMD kernels compute what their   *)
(* definitions say, for any number of taps and of samples (MCSamples).     *)
(***************************************************************************)
EXTENDS Uplink, MCSamples, GsmTimeProofs, FiniteSetTheorems, SequenceTheorems,
        WellFoundedInduction, TLAPS

BurstRecords == [t : Time, at : Int, n : Nat, s : Nat]

Typed ==
    /\ mSPSRx \in {1, 4} /\ mOn \in BOOLEAN
    /\ mClock \in Time /\ rcvClock \in Time /\ first \in Time
    /\ avail \in [Chans -> Nat] /\ recvSz \in Nat /\ readTimestamp \in Int
    /\ session \in Nat /\ formed \in Nat
    /\ mReceiveFIFO \in [Chans -> Seq(BurstRecords)]
    /\ upper \in [Chans -> BurstRecords] /\ done \in [Chans -> BurstRecords]
    /\ \A c \in Chans : Len(mReceiveFIFO[c]) <= FifoLimit

NoiseTyped ==
    /\ noises \in [Chans -> [0 .. NoiseCnt - 1 -> Nat]] /\ itr \in [Chans -> 0 .. NoiseCnt]
    /\ idles \in [Chans -> Seq(Nat)]

\* Four times 156.25 symbols.
Symbols == 4 * SlotSymbols + 1

\* All rings hold the same number of samples: those that driveReceiveRadio()
\* has left to cut, or less than a burst.
Rings ==
    /\ \A c \in Chans : avail[c] = avail[0]
    /\ recvSz = 0 => avail[0] <= Symbols
    /\ recvSz > 0 => mOn /\ recvSz = avail[0] /\ recvSz <= Symbols + Chunk
    /\ mOn => session > 0

\* The slot that will be formed next: n slots after the first of the session.
Clocks ==
    /\ session > 0 => DecTN(mClock, receiveOffset) = After(first, formed)
    /\ recvSz > 0 => rcvClock = After(first, formed)

\* How many quarters of a symbol a slot with the number tn starts late, at
\* one sample per symbol.
Quarters(ts) == IF ts % 4 = 0 THEN 0 ELSE 4 - (ts % 4)

\* The samples that were cut make the slots that were formed, but for the
\* quarters of the slots' pattern.
Drift ==
    session > 0 =>
        4 * (readTimestamp - avail[0]) - Symbols * mSPSRx * formed
            = IF mSPSRx = 4 THEN 0
              ELSE Quarters(After(first, formed).tn) - Quarters(first.tn)

\* a was formed before b, in an earlier session or in the same.
Before(a, b) == a.s < b.s \/ (a.s = b.s /\ a.n < b.n)

\* The next burst that is formed.
NextBurst == [s |-> session, n |-> formed]

\* What RxUpper was done with, what it works on, and the FIFO, in the order in
\* which they were formed.
Ordered(e, u, d) ==
    /\ \A i \in 1 .. Len(e) :
        /\ e[i].s > 0 /\ Before(e[i], NextBurst) /\ Before(d, e[i])
        /\ u # NoBurst => Before(u, e[i])
        /\ \A j \in 1 .. i - 1 : Before(e[j], e[i])
    /\ u # NoBurst => u.s > 0 /\ Before(u, NextBurst) /\ Before(d, u)
    /\ d = NoBurst \/ (d.s > 0 /\ Before(d, NextBurst))

InOrder == \A c \in Chans : Ordered(mReceiveFIFO[c], upper[c], done[c])

\* Where the noise level that is inserted next goes, and the k-th of the last
\* levels from there.
Slot(i) == IF i >= NoiseCnt THEN 0 ELSE i
Place(i, k) == IF Slot(i) + k - 1 < NoiseCnt THEN Slot(i) + k - 1
                                             ELSE Slot(i) + k - 1 - NoiseCnt

\* The ring of noise levels holds the last ones, the oldest at itr.
NoiseRing ==
    \A c \in Chans :
        /\ Len(idles[c]) <= NoiseCnt
        /\ Len(idles[c]) < NoiseCnt =>
            /\ itr[c] = Len(idles[c])
            /\ \A k \in 1 .. Len(idles[c]) : noises[c][k - 1] = idles[c][k]
        /\ Len(idles[c]) = NoiseCnt =>
            \A k \in 1 .. NoiseCnt : noises[c][Place(itr[c], k)] = idles[c][k]

BurstsInv == Typed /\ Rings /\ Clocks /\ Drift /\ InItsSlot /\ InOrder
NoiseInv == NoiseTyped /\ NoiseRing
IInv == BurstsInv /\ NoiseInv
-----------------------------------------------------------------------------
(* TimeSizes *)

LEMMA UplinkSizes ==
    ASSUME mSPSRx \in {1, 4}
    PROVE  /\ Symbols \in Nat \ {0} /\ SlotSymbols \in Nat \ {0, 1}
           /\ Chunk \in Nat \ {0} /\ Chunk = Symbols * mSPSRx /\ Symbols <= Chunk
           /\ RingLen \in Nat /\ Chunk + Chunk <= RingLen
<1>1. SlotSymbols \in Nat \ {0, 1} /\ NumChunks \in Nat \ {0, 1} BY UplinkAssumption
<1>2. Symbols \in Nat \ {0} BY <1>1 DEF Symbols
<1>3. Chunk = Symbols * mSPSRx BY DEF Chunk, Symbols
<1>4. Chunk \in Nat \ {0} /\ Symbols <= Chunk BY <1>2, <1>3
<1> DEFINE k == Chunk
           m == NumChunks
<1>5. k \in Nat \ {0} /\ m \in Nat /\ 1 < m BY <1>1, <1>4
<1> HIDE DEF k, m
<1>6. 1 * k + k <= m * k BY <1>5, Multiples
<1>7. m * k \in Nat BY <1>5
<1>8. RingLen = m * k BY DEF RingLen, m, k
<1>9. k + k <= RingLen /\ RingLen \in Nat BY <1>5, <1>6, <1>7, <1>8
<1> QED BY <1>1, <1>2, <1>3, <1>4, <1>9 DEF k

\* A burst has samples, and no more than a chunk.
LEMMA BurstSizeIs ==
    ASSUME mSPSRx \in {1, 4}, NEW t \in Time
    PROVE  /\ BurstSize(t) \in 1 .. Symbols
           /\ mSPSRx = 4 => BurstSize(t) = Symbols
           /\ mSPSRx = 1 => BurstSize(t) = SlotSymbols + (IF t.tn % 4 = 0 THEN 1 ELSE 0)
BY UplinkSizes DEF BurstSize, Symbols

\* The pattern of four slots goes on through the frames.
LEMMA NextQuarters ==
    ASSUME NEW t \in Time
    PROVE  /\ Quarters(t.tn) \in 0 .. 3
           /\ Quarters(IncTN(t, 1).tn)
                = Quarters(t.tn) + (IF t.tn % 4 = 0 THEN 4 ELSE 0) - 1
<1>1. t.tn \in 0 .. Slots - 1 /\ Slots \in Nat \ {0} /\ Slots % 4 = 0
  BY TimeIs, TimeSizes, UplinkAssumption
<1>2. IncTN(t, 1).tn = IF t.tn + 1 >= Slots THEN 0 ELSE t.tn + 1
  <2>1. CASE t.tn + 1 >= Slots BY <1>1, <2>1 DEF IncTN, T
  <2>2. CASE ~(t.tn + 1 >= Slots) BY <1>1, <2>2 DEF IncTN, T
  <2> QED BY <2>1, <2>2
<1> DEFINE N == t.tn
           u == IncTN(t, 1).tn
<1> HIDE DEF N, u
<1>3. /\ N \in 0 .. Slots - 1 /\ Slots \in Nat \ {0} /\ Slots % 4 = 0
      /\ u = IF N + 1 >= Slots THEN 0 ELSE N + 1
  BY <1>1, <1>2 DEF N, u
<1>4. u % 4 = (N + 1) % 4 BY <1>3
<1>5. N \in Nat /\ N % 4 \in 0 .. 3 BY <1>3
<1>6. Quarters(N) \in 0 .. 3 BY <1>5 DEF Quarters
<1>7. Quarters(u) = Quarters(N) + (IF N % 4 = 0 THEN 4 ELSE 0) - 1
  <2>1. (N + 1) % 4 = IF N % 4 = 3 THEN 0 ELSE (N % 4) + 1 BY <1>5
  <2> QED BY <1>4, <1>5, <2>1 DEF Quarters
<1> QED BY <1>6, <1>7 DEF N, u

LEMMA AppendIs ==
    ASSUME NEW S, NEW k \in Seq(S), NEW e \in S
    PROVE  /\ Append(k, e) \in Seq(S) /\ Len(k) \in Nat /\ Len(Append(k, e)) = Len(k) + 1
           /\ \A i \in 1 .. Len(k) : Append(k, e)[i] = k[i] /\ k[i] \in S
           /\ Append(k, e)[Len(k) + 1] = e
OBVIOUS

LEMMA TailIs ==
    ASSUME NEW S, NEW e \in Seq(S), e # <<>>
    PROVE  /\ Tail(e) \in Seq(S) /\ Len(e) \in Nat \ {0} /\ Len(Tail(e)) = Len(e) - 1
           /\ \A i \in 1 .. Len(e) - 1 : Tail(e)[i] = e[i + 1]
           /\ Head(e) = e[1] /\ e[1] \in S
OBVIOUS
-----------------------------------------------------------------------------
(* Bursts *)

\* What InItsSlot says of a burst.
Good(b) ==
    /\ 4 * b.at - (4 * SlotSymbols + 1) * mSPSRx * b.n \in -3 * mSPSRx .. 3 * mSPSRx
    /\ b.s = session => b.t = After(first, b.n)

LEMMA InItsSlotIs ==
    InItsSlot <=> \A c \in Chans : \A i \in 1 .. Len(mReceiveFIFO[c]) : Good(mReceiveFIFO[c][i])
BY DEF InItsSlot, Bursts, Good, After

\* The burst that is formed next is good, if the rings hold it.
LEMMA BurstGood ==
    ASSUME BurstsInv, recvSz > 0, NEW c \in Chans
    PROVE  Good(Burst(c)) /\ Burst(c) \in BurstRecords
<1>1. /\ session > 0 /\ rcvClock = After(first, formed) /\ avail[c] = avail[0]
      /\ mSPSRx \in {1, 4} /\ formed \in Nat /\ readTimestamp \in Int /\ avail[0] \in Nat
      /\ rcvClock \in Time /\ first \in Time
  BY UplinkAssumption DEF BurstsInv, Rings, Clocks, Typed
<1>2. 4 * (readTimestamp - avail[0]) - Symbols * mSPSRx * formed
        = IF mSPSRx = 4 THEN 0 ELSE Quarters(rcvClock.tn) - Quarters(first.tn)
  BY <1>1 DEF BurstsInv, Drift
<1>3. Quarters(rcvClock.tn) \in 0 .. 3 /\ Quarters(first.tn) \in 0 .. 3
  BY <1>1, NextQuarters
<1>4. 4 * (readTimestamp - avail[0]) - Symbols * mSPSRx * formed \in -3 * mSPSRx .. 3 * mSPSRx
  <2> DEFINE d == 4 * (readTimestamp - avail[0]) - Symbols * mSPSRx * formed
             x == Quarters(rcvClock.tn)
             e == Quarters(first.tn)
  <2>1. d = (IF mSPSRx = 4 THEN 0 ELSE x - e) /\ x \in 0 .. 3 /\ e \in 0 .. 3 BY <1>2, <1>3
  <2> HIDE DEF d, x, e
  <2>2. d \in -3 * mSPSRx .. 3 * mSPSRx BY <2>1, <1>1
  <2> QED BY <2>2 DEF d
<1>5. /\ Burst(c).at = readTimestamp - avail[0] /\ Burst(c).n = formed
      /\ Burst(c).t = After(first, formed)
  BY <1>1 DEF Burst
<1>6. Good(Burst(c)) BY <1>4, <1>5 DEF Good, Symbols
<1>7. session \in Nat BY DEF BurstsInv, Typed
<1> QED BY <1>1, <1>6, <1>7 DEF Burst, BurstRecords

\* The FIFO's bursts and the new one, if it was taken.
LEMMA KeptIs ==
    ASSUME BurstsInv, recvSz > 0, NEW c \in Chans
    PROVE  /\ Kept(c) \in Seq(BurstRecords) /\ Len(Kept(c)) <= FifoLimit
           /\ Len(mReceiveFIFO[c]) \in Nat
           /\ \A i \in 1 .. Len(Kept(c)) :
                \/ i \in 1 .. Len(mReceiveFIFO[c]) /\ Kept(c)[i] = mReceiveFIFO[c][i]
                \/ i = Len(mReceiveFIFO[c]) + 1 /\ Kept(c)[i] = Burst(c)
<1> DEFINE e == mReceiveFIFO[c]
           b == Burst(c)
<1>1. e \in Seq(BurstRecords) /\ b \in BurstRecords /\ Len(e) \in Nat /\ FifoLimit \in Nat
      /\ Len(e) <= FifoLimit
  BY BurstGood, UplinkAssumption DEF BurstsInv, Typed
<1>2. Kept(c) = IF Len(e) < FifoLimit THEN Append(e, b) ELSE e BY DEF Kept
<1> HIDE DEF e, b
<1>3. CASE Len(e) < FifoLimit
  <2>1. Kept(c) = Append(e, b) BY <1>2, <1>3
  <2>2. /\ Append(e, b) \in Seq(BurstRecords) /\ Len(Append(e, b)) = Len(e) + 1
        /\ \A i \in 1 .. Len(e) : Append(e, b)[i] = e[i]
        /\ Append(e, b)[Len(e) + 1] = b
    BY <1>1, AppendIs
  <2>3. \A i \in 1 .. Len(Kept(c)) : (i \in 1 .. Len(e) /\ Kept(c)[i] = e[i])
                                   \/ (i = Len(e) + 1 /\ Kept(c)[i] = b)
    BY <1>1, <2>1, <2>2
  <2>4. Kept(c) \in Seq(BurstRecords) /\ Len(Kept(c)) <= FifoLimit BY <1>1, <1>3, <2>1, <2>2
  <2> QED BY <1>1, <2>3, <2>4, Zenon DEF e, b
<1>4. CASE ~(Len(e) < FifoLimit)
  <2>1. Kept(c) = e BY <1>2, <1>4
  <2> QED BY <1>1, <2>1, Zenon DEF e, b
<1> QED BY <1>3, <1>4

\* Records, for the order.
LEMMA RecordsOrdered ==
    /\ \A b \in BurstRecords : b.s \in Nat /\ b.n \in Nat
    /\ NoBurst.s = 0 /\ NoBurst.n = 0 /\ NoBurst \in BurstRecords
<1>1. T(0, 0) \in Time BY TimeAssumption DEF T, Time, FNs, TNs
<1> QED BY <1>1 DEF BurstRecords, NoBurst

\* A burst is formed behind all others.
LEMMA KeptOrdered ==
    ASSUME BurstsInv, recvSz > 0, session' = session, formed' = formed + 1,
           NEW c \in Chans, mReceiveFIFO'[c] = Kept(c), upper'[c] = upper[c], done'[c] = done[c]
    PROVE  Ordered(mReceiveFIFO[c], upper[c], done[c])'
<1> DEFINE e == mReceiveFIFO[c]
           k == Kept(c)
           b == Burst(c)
           u == upper[c]
           d == done[c]
<1>1. /\ e \in Seq(BurstRecords) /\ k \in Seq(BurstRecords) /\ b \in BurstRecords
      /\ u \in BurstRecords /\ d \in BurstRecords
      /\ session \in Nat \ {0} /\ formed \in Nat
      /\ b.s = session /\ b.n = formed
  BY KeptIs, BurstGood DEF BurstsInv, Typed, Rings, Burst
<1>2. Len(e) \in Nat /\ Len(k) \in Nat
      /\ \A i \in 1 .. Len(k) : (i \in 1 .. Len(e) /\ k[i] = e[i]) \/ (i = Len(e) + 1 /\ k[i] = b)
  <2>1. Len(k) \in Nat
    <3>1. k \in Seq(BurstRecords) BY <1>1
    <3> HIDE DEF k
    <3> QED BY <3>1
  <2> QED BY <2>1, KeptIs, Zenon
<1>3. Ordered(e, u, d) BY DEF BurstsInv, InOrder
<1>4. mReceiveFIFO'[c] = k /\ upper'[c] = u /\ done'[c] = d OBVIOUS
<1>5. \A i \in 1 .. Len(e) : e[i] \in BurstRecords /\ e[i].s \in Nat /\ e[i].n \in Nat
  BY <1>1, RecordsOrdered
<1>6. u.s \in Nat /\ u.n \in Nat /\ d.s \in Nat /\ d.n \in Nat BY <1>1, RecordsOrdered
<1> HIDE DEF e, k, b, u, d
<1>7. \A x : x.s \in Nat /\ x.n \in Nat /\ Before(x, NextBurst)
            => Before(x, b) /\ Before(x, NextBurst')
  BY <1>1 DEF Before, NextBurst
<1>8. Before(b, NextBurst') BY <1>1 DEF Before, NextBurst
<1>9. d = NoBurst \/ (d.s > 0 /\ Before(d, NextBurst')) BY <1>3, <1>6, <1>7 DEF Ordered
<1>10. u # NoBurst => u.s > 0 /\ Before(u, NextBurst') /\ Before(d, u) /\ Before(u, b)
  BY <1>3, <1>6, <1>7 DEF Ordered
<1>11. Before(d, b)
  <2>1. CASE d = NoBurst BY <2>1, <1>1, RecordsOrdered DEF Before
  <2>2. CASE d # NoBurst BY <2>2, <1>3, <1>6, <1>7 DEF Ordered
  <2> QED BY <2>1, <2>2
<1>12. ASSUME NEW i \in 1 .. Len(k)
       PROVE  /\ k[i].s > 0 /\ Before(k[i], NextBurst') /\ Before(d, k[i])
              /\ u # NoBurst => Before(u, k[i])
              /\ \A j \in 1 .. i - 1 : Before(k[j], k[i])
  <2>1. \A j \in 1 .. i - 1 : j \in 1 .. Len(k) /\ j # Len(e) + 1 BY <1>2
  <2>2. \A j \in 1 .. i - 1 : j \in 1 .. Len(e) /\ k[j] = e[j] BY <1>2, <2>1
  <2>3. CASE i \in 1 .. Len(e) /\ k[i] = e[i]
    <3>1. /\ e[i].s > 0 /\ Before(e[i], NextBurst) /\ Before(d, e[i])
          /\ u # NoBurst => Before(u, e[i])
          /\ \A j \in 1 .. i - 1 : Before(e[j], e[i])
      BY <2>3, <1>3 DEF Ordered
    <3> QED BY <3>1, <2>2, <2>3, <1>5, <1>7
  <2>4. CASE i = Len(e) + 1 /\ k[i] = b
    <3>1. \A j \in 1 .. i - 1 : Before(e[j], b) BY <2>2, <1>3, <1>5, <1>7 DEF Ordered
    <3> QED BY <3>1, <2>2, <2>4, <1>1, <1>8, <1>10, <1>11
  <2> QED BY <2>3, <2>4, <1>2
<1>13. Ordered(mReceiveFIFO[c], upper[c], done[c])'
        <=> /\ \A i \in 1 .. Len(k) :
                /\ k[i].s > 0 /\ Before(k[i], NextBurst') /\ Before(d, k[i])
                /\ u # NoBurst => Before(u, k[i])
                /\ \A j \in 1 .. i - 1 : Before(k[j], k[i])
            /\ u # NoBurst => u.s > 0 /\ Before(u, NextBurst') /\ Before(d, u)
            /\ d = NoBurst \/ (d.s > 0 /\ Before(d, NextBurst'))
  BY <1>4 DEF Ordered
<1> QED BY <1>9, <1>10, <1>12, <1>13, Zenon
-----------------------------------------------------------------------------
(* The initial state *)

LEMMA InitBursts == Init => BurstsInv
<1> SUFFICES ASSUME Init PROVE BurstsInv OBVIOUS
<1>1. T(0, 0) \in Time /\ NoBurst \in BurstRecords
  BY RecordsOrdered, TimeAssumption DEF T, Time, FNs, TNs
<1>2. Typed
  <2>6. mSPSRx \in {1, 4} /\ mOn \in BOOLEAN BY DEF Init
  <2>7. mClock \in Time /\ rcvClock \in Time /\ first \in Time
    <3> DEFINE z == T(0, 0)
    <3>1. mClock = z /\ rcvClock = z /\ first = z BY DEF Init
    <3> HIDE DEF z
    <3>2. z \in Time BY <1>1 DEF z
    <3> QED BY <3>1, <3>2
  <2>8. /\ avail = [c \in Chans |-> 0] /\ recvSz = 0 /\ readTimestamp = 0
        /\ session = 0 /\ formed = 0
    BY DEF Init
  <2>1. /\ mSPSRx \in {1, 4} /\ mOn \in BOOLEAN
        /\ mClock \in Time /\ rcvClock \in Time /\ first \in Time
        /\ avail \in [Chans -> Nat] /\ recvSz \in Nat /\ readTimestamp \in Int
        /\ session \in Nat /\ formed \in Nat
    BY <2>6, <2>7, <2>8
  <2>5. upper \in [Chans -> BurstRecords] /\ done \in [Chans -> BurstRecords]
    <3> HIDE DEF NoBurst
    <3> QED BY <1>1 DEF Init
  <2>2. <<>> \in Seq(BurstRecords) /\ Len(<<>>) = 0 OBVIOUS
  <2>3. mReceiveFIFO \in [Chans -> Seq(BurstRecords)] BY <2>2 DEF Init
  <2>4. \A c \in Chans : Len(mReceiveFIFO[c]) <= FifoLimit
    BY <2>2, UplinkAssumption DEF Init
  <2> QED BY <2>1, <2>3, <2>4, <2>5, Zenon DEF Typed
<1>3. Rings
  <2>1. Symbols \in Nat BY UplinkSizes DEF Init
  <2> QED BY <2>1, UplinkAssumption DEF Init, Rings
<1>4. Clocks /\ Drift BY DEF Init, Clocks, Drift
<1>5. InItsSlot BY DEF Init, InItsSlot, Bursts
<1>6. InOrder BY DEF Init, InOrder, Ordered
<1> QED BY <1>2, <1>3, <1>4, <1>5, <1>6 DEF BurstsInv

LEMMA InitNoise == Init => NoiseInv
<1> SUFFICES ASSUME Init PROVE NoiseInv OBVIOUS
<1>1. NoiseCnt \in Nat \ {0} BY UplinkAssumption
<1>2. NoiseTyped BY <1>1 DEF Init, NoiseTyped
<1>3. NoiseRing BY <1>1 DEF Init, NoiseRing
<1> QED BY <1>2, <1>3 DEF NoiseInv
-----------------------------------------------------------------------------
(* The steps and the bursts *)

LEMMA StartBursts == BurstsInv /\ Start => BurstsInv'
<1> SUFFICES ASSUME BurstsInv, Start PROVE BurstsInv' OBVIOUS
<1>1. /\ mOn' = TRUE /\ session' = session + 1 /\ avail' = [c \in Chans |-> 0]
      /\ readTimestamp' = 0 /\ formed' = 0 /\ first' = DecTN(mClock, receiveOffset)
      /\ mSPSRx' = mSPSRx /\ mClock' = mClock /\ rcvClock' = rcvClock /\ recvSz' = recvSz
      /\ mReceiveFIFO' = mReceiveFIFO /\ upper' = upper /\ done' = done
      /\ ~mOn
  BY DEF Start, rxVars
<1>2. Typed /\ Rings BY DEF BurstsInv
<1>3. first' \in Time BY <1>1, <1>2, DecTNType, UplinkAssumption DEF Typed
<1>4. Typed' BY <1>1, <1>2, <1>3 DEF Typed
<1>5. recvSz = 0 BY <1>1, <1>2 DEF Rings, Typed
<1>6. Rings'
  <2>1. Symbols \in Nat BY <1>2, UplinkSizes DEF Typed
  <2>2. session' > 0 BY <1>1, <1>2 DEF Typed
  <2> QED BY <1>1, <1>5, <2>1, <2>2, UplinkAssumption DEF Rings, Symbols
<1>7. Clocks'
  <2>1. After(first', 0) = first' BY <1>3, AfterNone, Zenon
  <2> QED BY <1>1, <1>5, <2>1 DEF Clocks
<1>8. Drift'
  <2>1. After(first', 0) = first' BY <1>3, AfterNone, Zenon
  <2>2. Quarters(first'.tn) \in 0 .. 3 BY <1>3, NextQuarters, Zenon
  <2>3. avail'[0] = 0 BY <1>1, UplinkAssumption
  <2>4. Symbols * mSPSRx * 0 = 0 BY <1>2, UplinkSizes DEF Typed
  <2>5. Drift' <=> (session' > 0 =>
          4 * (readTimestamp' - avail'[0]) - Symbols * mSPSRx' * formed'
            = IF mSPSRx' = 4 THEN 0
              ELSE Quarters(After(first', formed').tn) - Quarters(first'.tn))
    BY DEF Drift, Symbols, Quarters, After
  <2> DEFINE x == Quarters(first'.tn)
  <2>6. x \in Int BY <2>2
  <2>7. After(first', formed') = first' BY <1>1, <2>1, Zenon
  <2>8. Quarters(After(first', formed').tn) = x BY <2>7, Zenon
  <2> HIDE DEF x
  <2>9. Drift' <=> (session' > 0 =>
          4 * (0 - 0) - Symbols * mSPSRx * 0 = IF mSPSRx' = 4 THEN 0 ELSE x - x)
    BY <2>5, <2>8, <2>3, <1>1 DEF x
  <2> QED BY <2>4, <2>6, <2>9
<1>9. InItsSlot'
  <2>1. \A c \in Chans : \A i \in 1 .. Len(mReceiveFIFO[c]) : Good(mReceiveFIFO[c][i])
    BY InItsSlotIs DEF BurstsInv
  <2>2. \A c \in Chans : \A i \in 1 .. Len(mReceiveFIFO[c]) : mReceiveFIFO[c][i].s # session + 1
    <3> SUFFICES ASSUME NEW c \in Chans, NEW i \in 1 .. Len(mReceiveFIFO[c])
                 PROVE  mReceiveFIFO[c][i].s # session + 1
      OBVIOUS
    <3>1. Before(mReceiveFIFO[c][i], NextBurst) BY DEF BurstsInv, InOrder, Ordered
    <3>2. session \in Nat BY <1>2 DEF Typed
    <3> QED BY <3>1, <3>2 DEF Before, NextBurst
  <2> QED BY <2>1, <2>2, <1>1 DEF InItsSlot, Bursts, Good
<1>10. InOrder'
  <2> SUFFICES ASSUME NEW c \in Chans
               PROVE  Ordered(mReceiveFIFO[c], upper[c], done[c])'
    BY DEF InOrder
  <2>1. Ordered(mReceiveFIFO[c], upper[c], done[c]) BY DEF BurstsInv, InOrder
  <2> DEFINE e == mReceiveFIFO[c]
             u == upper[c]
             d == done[c]
  <2>2. e \in Seq(BurstRecords) /\ u \in BurstRecords /\ d \in BurstRecords BY <1>2 DEF Typed
  <2>3. session \in Nat /\ formed \in Nat BY <1>2 DEF Typed
  <2>4. mReceiveFIFO'[c] = e /\ upper'[c] = u /\ done'[c] = d BY <1>1
  <2>5. \A i \in 1 .. Len(e) : e[i].s \in Nat /\ e[i].n \in Nat BY <2>2, RecordsOrdered
  <2>6. u.s \in Nat /\ u.n \in Nat /\ d.s \in Nat /\ d.n \in Nat BY <2>2, RecordsOrdered
  <2> HIDE DEF e, u, d
  <2>7. \A x : x.s \in Nat /\ Before(x, NextBurst) => Before(x, NextBurst')
    BY <2>3, <1>1 DEF Before, NextBurst
  <2>8. Ordered(e, u, d) BY <2>1 DEF e, u, d
  <2>9. /\ \A i \in 1 .. Len(e) :
            /\ e[i].s > 0 /\ Before(e[i], NextBurst') /\ Before(d, e[i])
            /\ u # NoBurst => Before(u, e[i])
            /\ \A j \in 1 .. i - 1 : Before(e[j], e[i])
        /\ u # NoBurst => u.s > 0 /\ Before(u, NextBurst') /\ Before(d, u)
        /\ d = NoBurst \/ (d.s > 0 /\ Before(d, NextBurst'))
    BY <2>5, <2>6, <2>7, <2>8 DEF Ordered
  <2> QED BY <2>4, <2>9 DEF Ordered
<1> QED BY <1>4, <1>6, <1>7, <1>8, <1>9, <1>10 DEF BurstsInv

LEMMA StopBursts == BurstsInv /\ Stop => BurstsInv'
<1> SUFFICES ASSUME BurstsInv, Stop PROVE BurstsInv' OBVIOUS
<1>1. /\ recvSz = 0 /\ mOn' = FALSE /\ upper' = [c \in Chans |-> NoBurst]
      /\ session' = session /\ avail' = avail /\ readTimestamp' = readTimestamp
      /\ formed' = formed /\ first' = first
      /\ mSPSRx' = mSPSRx /\ mClock' = mClock /\ rcvClock' = rcvClock /\ recvSz' = recvSz
      /\ mReceiveFIFO' = mReceiveFIFO /\ done' = done
  BY DEF Stop
<1>2. Typed' BY <1>1, RecordsOrdered DEF BurstsInv, Typed
<1>3. Rings' BY <1>1 DEF BurstsInv, Rings, Symbols, Chunk, Typed
<1>4. Clocks' BY <1>1 DEF BurstsInv, Clocks
<1>5. Drift' BY <1>1, Zenon DEF BurstsInv, Drift, Symbols
<1>6. InItsSlot' BY <1>1 DEF BurstsInv, InItsSlot, Bursts
<1>7. InOrder' BY <1>1 DEF BurstsInv, InOrder, Ordered, NextBurst
<1> QED BY <1>2, <1>3, <1>4, <1>5, <1>6, <1>7 DEF BurstsInv

LEMMA ReceiveFailsBursts == BurstsInv /\ ReceiveFails => BurstsInv'
<1> SUFFICES ASSUME BurstsInv, ReceiveFails PROVE BurstsInv' OBVIOUS
<1>1. /\ mOn' = mOn /\ upper' = upper
      /\ session' = session /\ avail' = avail /\ readTimestamp' = readTimestamp
      /\ formed' = formed /\ first' = first
      /\ mSPSRx' = mSPSRx /\ mClock' = mClock /\ rcvClock' = rcvClock /\ recvSz' = recvSz
      /\ mReceiveFIFO' = mReceiveFIFO /\ done' = done
  BY DEF ReceiveFails, vars, rxVars
<1> QED BY <1>1 DEF BurstsInv, Typed, Rings, Clocks, Drift, InItsSlot, InOrder, Ordered,
                    NextBurst, Bursts, Symbols, Chunk

\* What is left of a chunk is less than a burst.
LEMMA ReceivedBursts == BurstsInv /\ Received => BurstsInv'
<1> SUFFICES ASSUME BurstsInv, Received PROVE BurstsInv' OBVIOUS
<1>1. /\ mOn' = mOn /\ upper' = upper
      /\ session' = session /\ avail' = avail /\ readTimestamp' = readTimestamp
      /\ formed' = formed /\ first' = first
      /\ mSPSRx' = mSPSRx /\ mClock' = mClock /\ rcvClock' = rcvClock /\ recvSz' = 0
      /\ mReceiveFIFO' = mReceiveFIFO /\ done' = done
      /\ recvSz > 0 /\ recvSz <= BurstSize(rcvClock)
  BY DEF Received, rxVars
<1>2. Typed' BY <1>1 DEF BurstsInv, Typed
<1>3. Rings'
  <2>1. BurstSize(rcvClock) \in 1 .. Symbols /\ Symbols \in Nat
    BY BurstSizeIs, UplinkSizes DEF BurstsInv, Typed
  <2>2. recvSz = avail[0] /\ avail[0] \in Nat
    BY <1>1, UplinkAssumption DEF BurstsInv, Rings, Typed
  <2>3. avail[0] <= Symbols BY <1>1, <2>1, <2>2
  <2> QED BY <1>1, <2>3 DEF BurstsInv, Rings, Symbols
<1>4. Clocks' BY <1>1 DEF BurstsInv, Clocks
<1>5. Drift' BY <1>1, Zenon DEF BurstsInv, Drift, Symbols
<1>6. InItsSlot' BY <1>1 DEF BurstsInv, InItsSlot, Bursts
<1>7. InOrder' BY <1>1 DEF BurstsInv, InOrder, Ordered, NextBurst
<1> QED BY <1>2, <1>3, <1>4, <1>5, <1>6, <1>7 DEF BurstsInv

\* A chunk more is read for every channel.
LEMMA DriveReceiveRadioBursts == BurstsInv /\ DriveReceiveRadio => BurstsInv'
<1> SUFFICES ASSUME BurstsInv, DriveReceiveRadio PROVE BurstsInv' OBVIOUS
<1>1. /\ mOn' = mOn /\ upper' = upper
      /\ session' = session /\ readTimestamp' = readTimestamp + Chunk
      /\ avail' = [c \in Chans |-> avail[c] + Chunk]
      /\ formed' = formed /\ first' = first
      /\ mSPSRx' = mSPSRx /\ mClock' = mClock
      /\ rcvClock' = DecTN(mClock, receiveOffset) /\ recvSz' = avail'[0]
      /\ mReceiveFIFO' = mReceiveFIFO /\ done' = done
      /\ recvSz = 0 /\ mOn
  BY DEF DriveReceiveRadio, rxVars
<1>2. Typed /\ Rings /\ Clocks BY DEF BurstsInv
<1>3. /\ Chunk \in Nat \ {0} /\ Symbols \in Nat /\ avail[0] \in Nat /\ 0 \in Chans
      /\ avail'[0] = avail[0] + Chunk /\ session \in Nat
  BY <1>1, <1>2, UplinkSizes, UplinkAssumption DEF Typed
<1>4. Typed'
  <2>1. rcvClock' \in Time BY <1>1, <1>2, DecTNType, UplinkAssumption DEF Typed
  <2>2. avail' \in [Chans -> Nat] BY <1>1, <1>2, <1>3 DEF Typed
  <2>3. recvSz' \in Nat /\ readTimestamp' \in Int BY <1>1, <1>2, <1>3 DEF Typed
  <2> QED BY <1>1, <1>2, <2>1, <2>2, <2>3 DEF Typed
<1>5. Rings'
  <2>1. avail[0] <= Symbols /\ session > 0 BY <1>1, <1>2 DEF Rings
  <2>2. \A c \in Chans : avail'[c] = avail'[0] BY <1>1, <1>2, <1>3 DEF Rings
  <2>3. recvSz' > 0 /\ recvSz' = avail'[0] /\ recvSz' <= Symbols + Chunk BY <1>1, <1>3, <2>1
  <2>4. Chunk' = Chunk /\ Symbols' = Symbols BY <1>1 DEF Chunk, Symbols
  <2>5. mOn' /\ session' > 0 BY <1>1, <2>1
  <2> QED BY <2>2, <2>3, <2>4, <2>5, <1>1, <1>3 DEF Rings
<1>6. Clocks'
  <2>1. session > 0 BY <1>1, <1>2 DEF Rings
  <2> QED BY <1>1, <1>2, <2>1 DEF Clocks
<1>7. Drift'
  <2>1. readTimestamp' - avail'[0] = readTimestamp - avail[0]
    BY <1>1, <1>2, <1>3 DEF Typed
  <2>2. Drift BY DEF BurstsInv
  <2> QED BY <1>1, <2>1, <2>2, Zenon DEF Drift, Symbols
<1>8. InItsSlot' BY <1>1 DEF BurstsInv, InItsSlot, Bursts
<1>9. InOrder' BY <1>1 DEF BurstsInv, InOrder, Ordered, NextBurst
<1> QED BY <1>4, <1>5, <1>6, <1>7, <1>8, <1>9 DEF BurstsInv

\* A burst of every channel leaves its ring.
LEMMA FormBurstBursts == BurstsInv /\ FormBurst => BurstsInv'
<1> SUFFICES ASSUME BurstsInv, FormBurst PROVE BurstsInv' OBVIOUS
<1> DEFINE z == BurstSize(rcvClock)
<1>1. /\ mOn' = mOn /\ upper' = upper
      /\ session' = session /\ readTimestamp' = readTimestamp
      /\ avail' = [c \in Chans |-> Taken(avail[c], z)]
      /\ formed' = formed + 1 /\ first' = first
      /\ mSPSRx' = mSPSRx /\ mClock' = IncTN(mClock, 1) /\ rcvClock' = IncTN(rcvClock, 1)
      /\ recvSz' = recvSz - z
      /\ mReceiveFIFO' = [c \in Chans |-> Kept(c)] /\ done' = done
      /\ recvSz > z
  BY DEF FormBurst
<1>2. Typed /\ Rings /\ Clocks BY DEF BurstsInv
<1>3. /\ Chunk \in Nat \ {0} /\ Symbols \in Nat /\ avail[0] \in Nat /\ 0 \in Chans
      /\ session \in Nat /\ formed \in Nat /\ z \in 1 .. Symbols
      /\ recvSz > 0 /\ recvSz \in Nat /\ rcvClock \in Time /\ first \in Time /\ mClock \in Time
      /\ mSPSRx \in {1, 4}
  <2>1. z \in 1 .. Symbols BY <1>2, BurstSizeIs DEF Typed
  <2>2. Chunk \in Nat \ {0} /\ Symbols \in Nat BY <1>2, UplinkSizes DEF Typed
  <2>3. recvSz > 0 BY <1>1, <1>2, <2>1, <2>2 DEF Typed
  <2> QED BY <1>2, <2>1, <2>2, <2>3, UplinkAssumption DEF Typed
<1>4. /\ recvSz = avail[0] /\ recvSz <= Symbols + Chunk /\ mOn /\ session > 0
      /\ rcvClock = After(first, formed)
      /\ DecTN(mClock, receiveOffset) = After(first, formed)
  BY <1>2, <1>3 DEF Rings, Clocks
<1>5. \A c \in Chans : avail'[c] = avail[0] - z
  <2>1. \A c \in Chans : avail[c] = avail[0] BY <1>2 DEF Rings
  <2>2. Taken(avail[0], z) = avail[0] - z BY <1>1, <1>3, <1>4 DEF Taken
  <2> HIDE DEF z
  <2> QED BY <1>1, <2>1, <2>2
<1>6. avail'[0] = avail[0] - z /\ avail[0] - z \in Nat /\ recvSz' = avail'[0] /\ recvSz' > 0
  <2> HIDE DEF z
  <2> QED BY <1>1, <1>3, <1>4, <1>5
<1>7. After(first, formed + 1) = IncTN(After(first, formed), 1) BY <1>3, AfterNext, Zenon
<1>8. Typed'
  <2>1. mClock' \in Time /\ rcvClock' \in Time BY <1>1, <1>3, IncTNIs
  <2>2. avail' \in [Chans -> Nat]
    <3>1. avail' = [c \in Chans |-> avail[0] - z]
      <4>1. \A c \in Chans : Taken(avail[c], z) = avail[0] - z BY <1>1, <1>5
      <4> QED BY <1>1, <4>1
    <3> QED BY <3>1, <1>6
  <2>3. recvSz' \in Nat /\ formed' \in Nat BY <1>1, <1>3, <1>6
  <2>4. \A c \in Chans : Kept(c) \in Seq(BurstRecords) /\ Len(Kept(c)) <= FifoLimit
    BY <1>3, KeptIs
  <2>5. mReceiveFIFO' \in [Chans -> Seq(BurstRecords)] BY <1>1, <2>4
  <2>6. \A c \in Chans : Len(mReceiveFIFO'[c]) <= FifoLimit BY <1>1, <2>4
  <2>7. /\ mSPSRx' \in {1, 4} /\ mOn' \in BOOLEAN /\ first' \in Time /\ readTimestamp' \in Int
        /\ session' \in Nat
        /\ upper' \in [Chans -> BurstRecords] /\ done' \in [Chans -> BurstRecords]
    BY <1>1, <1>2 DEF Typed
  <2> QED BY <2>1, <2>2, <2>3, <2>5, <2>6, <2>7, Zenon DEF Typed
<1>9. Rings'
  <2>1. Chunk' = Chunk /\ Symbols' = Symbols BY <1>1 DEF Chunk, Symbols
  <2>2. recvSz' <= Symbols + Chunk
    <3> HIDE DEF z
    <3> QED BY <1>1, <1>3, <1>4
  <2> QED BY <1>1, <1>4, <1>5, <1>6, <2>1, <2>2 DEF Rings
<1>10. Clocks'
  <2>1. DecTN(IncTN(mClock, 1), receiveOffset) = IncTN(DecTN(mClock, receiveOffset), 1)
    BY <1>3, IncDec, UplinkAssumption
  <2>2. DecTN(mClock', receiveOffset) = After(first', formed')
    BY <1>1, <1>4, <1>7, <2>1, Zenon
  <2>3. rcvClock' = After(first', formed') BY <1>1, <1>4, <1>7, Zenon
  <2> QED BY <2>2, <2>3 DEF Clocks
<1>11. Drift'
  <2> DEFINE R == readTimestamp
             A == avail[0]
             F == formed
             S == Symbols
             x == Quarters(rcvClock.tn)
             e == Quarters(first.tn)
             v == Quarters(IncTN(rcvClock, 1).tn)
  <2>1. R \in Int /\ A \in Nat /\ F \in Nat /\ S \in Nat /\ z \in Nat
    BY <1>2, <1>3 DEF Typed
  <2>2. /\ x \in 0 .. 3 /\ e \in 0 .. 3
        /\ v = x + (IF rcvClock.tn % 4 = 0 THEN 4 ELSE 0) - 1
    BY <1>3, NextQuarters
  <2>3. 4 * (R - A) - S * mSPSRx * F = IF mSPSRx = 4 THEN 0 ELSE x - e
    BY <1>4 DEF BurstsInv, Drift
  <2>4. /\ mSPSRx = 4 => z = S
        /\ mSPSRx = 1 => z = SlotSymbols + (IF rcvClock.tn % 4 = 0 THEN 1 ELSE 0)
    BY <1>3, BurstSizeIs
  <2>5. S = 4 * SlotSymbols + 1 /\ SlotSymbols \in Nat BY UplinkAssumption DEF Symbols
  <2>6. 4 * (R - (A - z)) - S * mSPSRx * (F + 1) = IF mSPSRx = 4 THEN 0 ELSE v - e
    <3> HIDE DEF R, A, F, S, x, e, v, z
    <3>1. CASE mSPSRx = 4
      <4>1. S * 4 * (F + 1) = S * 4 * F + S * 4 /\ S * 4 * F \in Int BY <2>1
      <4>2. z = S BY <3>1, <2>4
      <4>3. 4 * (R - A) - S * 4 * F = 0 BY <3>1, <2>3
      <4> QED BY <2>1, <3>1, <4>1, <4>2, <4>3
    <3>2. CASE mSPSRx = 1
      <4>1. S * 1 * (F + 1) = S * F + S /\ S * 1 * F = S * F /\ S * F \in Int BY <2>1
      <4>2. 4 * (R - A) - S * F = x - e BY <3>2, <2>3, <4>1
      <4>3. CASE rcvClock.tn % 4 = 0
        <5>1. z = SlotSymbols + 1 /\ v = x + 3 BY <3>2, <2>2, <2>4, <4>3
        <5>2. 4 * (R - (A - z)) = 4 * (R - A) + 4 * z BY <2>1
        <5>3. 4 * (R - (A - z)) - (S * F + S) = v - e
          BY <2>1, <2>2, <2>5, <4>1, <4>2, <5>1, <5>2
        <5> QED BY <3>2, <4>1, <5>3
      <4>4. CASE ~(rcvClock.tn % 4 = 0)
        <5>1. z = SlotSymbols /\ v = x - 1 BY <3>2, <2>2, <2>4, <2>5, <4>4
        <5>2. 4 * (R - (A - z)) = 4 * (R - A) + 4 * z BY <2>1
        <5>3. 4 * (R - (A - z)) - (S * F + S) = v - e
          BY <2>1, <2>2, <2>5, <4>1, <4>2, <5>1, <5>2
        <5> QED BY <3>2, <4>1, <5>3
      <4> QED BY <4>3, <4>4
    <3> QED BY <1>3, <3>1, <3>2
  <2>7. Quarters(After(first, formed + 1).tn) = v BY <1>4, <1>7, Zenon
  <2>8. Drift' <=> (session' > 0 =>
          4 * (readTimestamp' - avail'[0]) - Symbols * mSPSRx' * formed'
            = IF mSPSRx' = 4 THEN 0
              ELSE Quarters(After(first', formed').tn) - Quarters(first'.tn))
    BY DEF Drift, Symbols, Quarters, After
  <2>9. readTimestamp' = R /\ avail'[0] = A - z /\ formed' = F + 1 /\ first' = first
        /\ mSPSRx' = mSPSRx
    BY <1>1, <1>6
  <2>10. Quarters(After(first', formed').tn) = v /\ Quarters(first'.tn) = e
    BY <2>7, <2>9, Zenon
  <2> HIDE DEF v, e, A, R, F, z, S
  <2>11. 4 * (readTimestamp' - avail'[0]) - S * mSPSRx' * formed'
            = IF mSPSRx' = 4 THEN 0 ELSE v - e
    BY <2>6, <2>9
  <2> QED BY <2>8, <2>10, <2>11 DEF S
<1>12. InItsSlot'
  <2>1. \A c \in Chans : \A i \in 1 .. Len(mReceiveFIFO[c]) : Good(mReceiveFIFO[c][i])
    BY InItsSlotIs DEF BurstsInv
  <2>2. ASSUME NEW c \in Chans, NEW i \in 1 .. Len(Kept(c)) PROVE Good(Kept(c)[i])
    <3>1. Good(Burst(c)) BY <1>3, BurstGood
    <3>2. \/ i \in 1 .. Len(mReceiveFIFO[c]) /\ Kept(c)[i] = mReceiveFIFO[c][i]
          \/ i = Len(mReceiveFIFO[c]) + 1 /\ Kept(c)[i] = Burst(c)
      BY <1>3, KeptIs, Zenon
    <3> QED BY <2>1, <3>1, <3>2, Zenon
  <2>3. \A c \in Chans : mReceiveFIFO'[c] = Kept(c) BY <1>1
  <2>4. \A b : Good(b)' <=> Good(b) BY <1>1 DEF Good, After
  <2>5. ASSUME NEW c \in Chans, NEW i \in 1 .. Len(mReceiveFIFO'[c])
        PROVE  /\ 4 * mReceiveFIFO'[c][i].at
                       - (4 * SlotSymbols + 1) * mSPSRx * mReceiveFIFO'[c][i].n
                    \in -3 * mSPSRx .. 3 * mSPSRx
               /\ mReceiveFIFO'[c][i].s = session =>
                    mReceiveFIFO'[c][i].t = After(first, mReceiveFIFO'[c][i].n)
    BY <2>2, <2>3, Zenon DEF Good
  <2> QED BY <2>5, <1>1 DEF InItsSlot, Bursts, After
<1>13. InOrder'
  <2> SUFFICES ASSUME NEW c \in Chans
               PROVE  Ordered(mReceiveFIFO[c], upper[c], done[c])'
    BY DEF InOrder
  <2>1. mReceiveFIFO'[c] = Kept(c) /\ upper'[c] = upper[c] /\ done'[c] = done[c] BY <1>1
  <2> QED BY <1>1, <1>3, <2>1, KeptOrdered, Zenon
<1> QED BY <1>8, <1>9, <1>10, <1>11, <1>12, <1>13 DEF BurstsInv

\* RxUpper takes the oldest burst.
LEMMA PullRadioVectorBursts ==
    ASSUME NEW c \in Chans
    PROVE  BurstsInv /\ PullRadioVector(c) => BurstsInv'
<1> SUFFICES ASSUME BurstsInv, PullRadioVector(c) PROVE BurstsInv' OBVIOUS
<1> DEFINE k == mReceiveFIFO[c]
           b == Tail(k)
           h == Head(k)
           d == done[c]
<1>1. /\ mOn' = mOn /\ session' = session /\ readTimestamp' = readTimestamp /\ avail' = avail
      /\ formed' = formed /\ first' = first /\ mSPSRx' = mSPSRx /\ mClock' = mClock
      /\ rcvClock' = rcvClock /\ recvSz' = recvSz /\ done' = done
      /\ upper' = [upper EXCEPT ![c] = h]
      /\ mReceiveFIFO' = [mReceiveFIFO EXCEPT ![c] = b]
      /\ k # <<>> /\ upper[c] = NoBurst
  BY DEF PullRadioVector
<1>2. Typed BY DEF BurstsInv
<1>3. /\ k \in Seq(BurstRecords) /\ b \in Seq(BurstRecords) /\ Len(k) \in Nat \ {0}
      /\ Len(b) = Len(k) - 1 /\ \A i \in 1 .. Len(k) - 1 : b[i] = k[i + 1]
      /\ h = k[1] /\ h \in BurstRecords
  <2>1. k \in Seq(BurstRecords) BY <1>2 DEF Typed
  <2> HIDE DEF k
  <2> QED BY <1>1, <2>1, TailIs
<1>4. /\ \A e \in Chans \ {c} : upper'[e] = upper[e] /\ mReceiveFIFO'[e] = mReceiveFIFO[e]
      /\ upper'[c] = h /\ mReceiveFIFO'[c] = b
  BY <1>1, <1>2 DEF Typed
<1>5. Len(k) <= FifoLimit /\ FifoLimit \in Nat BY <1>2, UplinkAssumption DEF Typed
<1>6. Ordered(k, upper[c], d) BY DEF BurstsInv, InOrder
<1> HIDE DEF k, b, h, d
<1>7. Typed'
  <2>1. upper' \in [Chans -> BurstRecords] BY <1>1, <1>2, <1>3 DEF Typed
  <2>2. mReceiveFIFO' \in [Chans -> Seq(BurstRecords)] BY <1>1, <1>2, <1>3 DEF Typed
  <2>3. \A e \in Chans : Len(mReceiveFIFO'[e]) <= FifoLimit
    <3>1. Len(b) <= FifoLimit BY <1>3, <1>5
    <3>2. \A e \in Chans \ {c} : Len(mReceiveFIFO'[e]) <= FifoLimit BY <1>2, <1>4 DEF Typed
    <3> QED BY <3>1, <3>2, <1>4
  <2> QED BY <1>1, <1>2, <2>1, <2>2, <2>3 DEF Typed
<1>8. Rings' BY <1>1 DEF BurstsInv, Rings, Symbols, Chunk
<1>9. Clocks' BY <1>1 DEF BurstsInv, Clocks
<1>10. Drift' BY <1>1, Zenon DEF BurstsInv, Drift, Symbols
<1>11. \A i \in 1 .. Len(b) : i \in 1 .. Len(k) - 1 /\ i + 1 \in 1 .. Len(k) /\ b[i] = k[i + 1]
  BY <1>3
<1>12. InItsSlot'
  <2>1. \A e \in Chans : \A i \in 1 .. Len(mReceiveFIFO[e]) : Good(mReceiveFIFO[e][i])
    BY InItsSlotIs DEF BurstsInv
  <2>2. \A i \in 1 .. Len(b) : Good(b[i])
    <3>1. \A i \in 1 .. Len(k) : Good(k[i]) BY <2>1 DEF k
    <3> QED BY <3>1, <1>11
  <2>3. \A e \in Chans : \A i \in 1 .. Len(mReceiveFIFO'[e]) : Good(mReceiveFIFO'[e][i])
    BY <2>1, <2>2, <1>4
  <2> QED BY <2>3, <1>1 DEF InItsSlot, Bursts, Good, After
<1>13. InOrder'
  <2>1. \A e \in Chans \ {c} : Ordered(mReceiveFIFO[e], upper[e], done[e])'
    BY <1>1, <1>4 DEF BurstsInv, InOrder, Ordered, NextBurst
  <2>2. \A i \in 1 .. Len(k) : /\ k[i].s > 0 /\ Before(k[i], NextBurst) /\ Before(d, k[i])
                               /\ \A j \in 1 .. i - 1 : Before(k[j], k[i])
    BY <1>6 DEF Ordered
  <2>3. h.s > 0 /\ Before(h, NextBurst) /\ Before(d, h)
    <3>1. 1 \in 1 .. Len(k) BY <1>3
    <3> QED BY <1>3, <2>2, <3>1
  <2>4. ASSUME NEW i \in 1 .. Len(b)
        PROVE  /\ b[i].s > 0 /\ Before(b[i], NextBurst) /\ Before(d, b[i]) /\ Before(h, b[i])
               /\ \A j \in 1 .. i - 1 : Before(b[j], b[i])
    <3>1. i + 1 \in 1 .. Len(k) /\ b[i] = k[i + 1] BY <1>11
    <3>2. 1 \in 1 .. (i + 1) - 1 OBVIOUS
    <3>3. /\ b[i].s > 0 /\ Before(b[i], NextBurst) /\ Before(d, b[i])
          /\ \A j \in 1 .. (i + 1) - 1 : Before(k[j], b[i])
      BY <2>2, <3>1
    <3>4. \A j \in 1 .. i - 1 : j \in 1 .. Len(b) /\ j + 1 \in 1 .. (i + 1) - 1 BY <1>3
    <3>5. \A j \in 1 .. i - 1 : b[j] = k[j + 1] BY <1>11, <3>4
    <3>6. \A j \in 1 .. i - 1 : Before(b[j], b[i]) BY <3>3, <3>4, <3>5
    <3>7. Before(h, b[i]) BY <1>3, <3>2, <3>3
    <3> QED BY <3>3, <3>6, <3>7
  <2>5. d = NoBurst \/ (d.s > 0 /\ Before(d, NextBurst)) BY <1>6 DEF Ordered
  <2>6. NextBurst' = NextBurst /\ done'[c] = d BY <1>1 DEF NextBurst, d
  <2>7. Ordered(b, h, d) BY <2>3, <2>4, <2>5, Zenon DEF Ordered
  <2>8. Ordered(mReceiveFIFO[c], upper[c], done[c])'
    BY <1>4, <2>6, <2>7, Zenon DEF Ordered
  <2> QED BY <2>1, <2>8, Zenon DEF InOrder
<1> QED BY <1>7, <1>8, <1>9, <1>10, <1>12, <1>13 DEF BurstsInv

\* RxUpper is done with the burst it works on.
LEMMA HandleBurstBursts ==
    ASSUME NEW c \in Chans
    PROVE  BurstsInv /\ HandleBurst(c) => BurstsInv'
<1> SUFFICES ASSUME BurstsInv, HandleBurst(c) PROVE BurstsInv' OBVIOUS
<1> DEFINE k == mReceiveFIFO[c]
           u == upper[c]
           d == done[c]
<1>1. /\ mOn' = mOn /\ session' = session /\ readTimestamp' = readTimestamp /\ avail' = avail
      /\ formed' = formed /\ first' = first /\ mSPSRx' = mSPSRx /\ mClock' = mClock
      /\ rcvClock' = rcvClock /\ recvSz' = recvSz
      /\ upper' = [upper EXCEPT ![c] = NoBurst] /\ done' = [done EXCEPT ![c] = u]
      /\ mReceiveFIFO' = mReceiveFIFO
      /\ u # NoBurst
  BY DEF HandleBurst
<1>2. Typed BY DEF BurstsInv
<1>3. u \in BurstRecords /\ k \in Seq(BurstRecords) BY <1>2 DEF Typed
<1>4. /\ \A e \in Chans \ {c} : upper'[e] = upper[e] /\ done'[e] = done[e]
      /\ upper'[c] = NoBurst /\ done'[c] = u
  BY <1>1, <1>2 DEF Typed
<1>6. Ordered(k, u, d) BY DEF BurstsInv, InOrder
<1>7. Typed' BY <1>1, <1>2, <1>3, RecordsOrdered DEF Typed
<1>8. Rings' BY <1>1 DEF BurstsInv, Rings, Symbols, Chunk
<1>9. Clocks' BY <1>1 DEF BurstsInv, Clocks
<1>10. Drift' BY <1>1, Zenon DEF BurstsInv, Drift, Symbols
<1>12. InItsSlot' BY <1>1 DEF BurstsInv, InItsSlot, Bursts
<1>13. InOrder'
  <2>1. \A e \in Chans \ {c} : Ordered(mReceiveFIFO[e], upper[e], done[e])'
    BY <1>1, <1>4 DEF BurstsInv, InOrder, Ordered, NextBurst
  <2>2. NextBurst' = NextBurst /\ mReceiveFIFO'[c] = k BY <1>1 DEF NextBurst
  <2> HIDE DEF u, k, d
  <2>3. Ordered(k, NoBurst, u) BY <1>1, <1>6 DEF Ordered
  <2>4. Ordered(mReceiveFIFO[c], upper[c], done[c])'
    BY <1>4, <2>2, <2>3, Zenon DEF Ordered
  <2> QED BY <2>1, <2>4, Zenon DEF InOrder
<1> QED BY <1>7, <1>8, <1>9, <1>10, <1>12, <1>13 DEF BurstsInv
-----------------------------------------------------------------------------
(* The noise level *)

LEMMA Places ==
    ASSUME NEW i \in 0 .. NoiseCnt
    PROVE  /\ Slot(i) \in 0 .. NoiseCnt - 1
           /\ \A k \in 1 .. NoiseCnt : Place(i, k) \in 0 .. NoiseCnt - 1
           /\ \A k, l \in 1 .. NoiseCnt : Place(i, k) = Place(i, l) => k = l
           /\ \A d \in 0 .. NoiseCnt - 1 : \E k \in 1 .. NoiseCnt : Place(i, k) = d
<1>1. NoiseCnt \in Nat \ {0} BY UplinkAssumption
<1>2. Slot(i) \in 0 .. NoiseCnt - 1 BY <1>1 DEF Slot
<1> DEFINE s == Slot(i)
           N == NoiseCnt
<1>3. s \in 0 .. N - 1 /\ N \in Nat \ {0} BY <1>1, <1>2
<1>4. \A k : Place(i, k) = IF s + k - 1 < N THEN s + k - 1 ELSE s + k - 1 - N BY DEF Place
<1> HIDE DEF s, N
<1>5. \A k \in 1 .. N : Place(i, k) \in 0 .. N - 1 BY <1>3, <1>4
<1>6. \A k, l \in 1 .. N : Place(i, k) = Place(i, l) => k = l BY <1>3, <1>4
<1>7. ASSUME NEW d \in 0 .. N - 1 PROVE \E k \in 1 .. N : Place(i, k) = d
  <2>1. CASE d >= s
    <3>1. d - s + 1 \in 1 .. N /\ s + (d - s + 1) - 1 = d BY <1>3, <2>1
    <3>2. Place(i, d - s + 1) = d BY <1>3, <1>4, <3>1
    <3> QED BY <3>1, <3>2
  <2>2. CASE d < s
    <3>1. d - s + 1 + N \in 1 .. N /\ s + (d - s + 1 + N) - 1 = d + N BY <1>3, <2>2
    <3>2. Place(i, d - s + 1 + N) = d BY <1>3, <1>4, <3>1
    <3> QED BY <3>1, <3>2
  <2> QED BY <1>3, <2>1, <2>2
<1> QED BY <1>2, <1>5, <1>6, <1>7 DEF N, s

\* Behind a level that was inserted, the places are those of the levels that
\* are left, one later.
LEMMA PlaceNext ==
    ASSUME NEW i \in 0 .. NoiseCnt
    PROVE  /\ Slot(i) + 1 \in 0 .. NoiseCnt
           /\ Place(Slot(i) + 1, NoiseCnt) = Slot(i)
           /\ \A k \in 1 .. NoiseCnt - 1 : /\ Place(Slot(i) + 1, k) = Place(i, k + 1)
                                           /\ Place(i, k + 1) # Slot(i)
<1>1. NoiseCnt \in Nat \ {0} BY UplinkAssumption
<1> DEFINE N == NoiseCnt
           s == Slot(i)
<1>2. s \in 0 .. N - 1 /\ N \in Nat \ {0} BY <1>1, Places
<1>3. Slot(s + 1) = (IF s + 1 >= N THEN 0 ELSE s + 1) BY DEF Slot
<1>4. \A k : /\ Place(i, k) = IF s + k - 1 < N THEN s + k - 1 ELSE s + k - 1 - N
             /\ Place(s + 1, k) = IF Slot(s + 1) + k - 1 < N THEN Slot(s + 1) + k - 1
                                  ELSE Slot(s + 1) + k - 1 - N
  BY DEF Place
<1> HIDE DEF N, s
<1>5. CASE s + 1 >= N
  <2>1. s + 1 = N /\ Slot(s + 1) = 0 BY <1>2, <1>3, <1>5
  <2>2. Place(s + 1, N) = s BY <1>2, <1>4, <2>1
  <2>3. \A k \in 1 .. N - 1 : Place(s + 1, k) = Place(i, k + 1) /\ Place(i, k + 1) # s
    BY <1>2, <1>4, <2>1
  <2> QED BY <1>2, <2>2, <2>3 DEF N, s
<1>6. CASE s + 1 < N
  <2>1. Slot(s + 1) = s + 1 BY <1>2, <1>3, <1>6
  <2>2. Place(s + 1, N) = s BY <1>2, <1>4, <2>1
  <2>3. \A k \in 1 .. N - 1 : Place(s + 1, k) = Place(i, k + 1) /\ Place(i, k + 1) # s
    BY <1>2, <1>4, <2>1
  <2> QED BY <1>2, <2>2, <2>3 DEF N, s
<1> QED BY <1>2, <1>5, <1>6

\* What NoiseRing says of one channel: r is the ring, i the place of the next
\* level, l the last levels.
Ring(r, i, l) ==
    /\ Len(l) <= NoiseCnt
    /\ Len(l) < NoiseCnt => i = Len(l) /\ \A k \in 1 .. Len(l) : r[k - 1] = l[k]
    /\ Len(l) = NoiseCnt => \A k \in 1 .. NoiseCnt : r[Place(i, k)] = l[k]

\* A level that is inserted takes the place of the oldest.
LEMMA RingInsert ==
    ASSUME NEW r \in [0 .. NoiseCnt - 1 -> Nat], NEW i \in 0 .. NoiseCnt, NEW l \in Seq(Nat),
           NEW v \in Nat, Ring(r, i, l)
    PROVE  Ring([r EXCEPT ![Slot(i)] = v], Slot(i) + 1,
                Append(IF Len(l) < NoiseCnt THEN l ELSE Tail(l), v))
<1> DEFINE N == NoiseCnt
           s == Slot(i)
           e == [r EXCEPT ![s] = v]
           o == IF Len(l) < N THEN l ELSE Tail(l)
           m == Append(o, v)
           j == s + 1
<1>1. N \in Nat \ {0} /\ s \in 0 .. N - 1 BY UplinkAssumption, Places
<1>2. Len(l) \in Nat /\ Len(l) <= N BY DEF Ring
<1>3. e[s] = v /\ \A k \in 0 .. N - 1 : k # s => e[k] = r[k] BY <1>1
<1>4. CASE Len(l) < N
  <2>1. o = l BY <1>4
  <2>2. i = Len(l) /\ \A k \in 1 .. Len(l) : r[k - 1] = l[k] BY <1>4 DEF Ring
  <2>3. s = Len(l) BY <1>1, <1>4, <2>2 DEF Slot
  <2>4. Len(m) = Len(l) + 1 /\ m[Len(l) + 1] = v /\ \A k \in 1 .. Len(l) : m[k] = l[k]
    <3>1. m = Append(l, v) BY <2>1, Zenon
    <3> HIDE DEF m
    <3> QED BY <3>1, AppendIs
  <2> HIDE DEF e, m, j, s, o
  <2>5. \A k \in 1 .. Len(l) : e[k - 1] = l[k]
    <3>1. \A k \in 1 .. Len(l) : k - 1 \in 0 .. N - 1 /\ k - 1 # s BY <1>1, <1>4, <2>3
    <3> QED BY <1>3, <2>2, <3>1
  <2>6. \A k \in 1 .. Len(m) : e[k - 1] = m[k]
    <3> SUFFICES ASSUME NEW k \in 1 .. Len(m) PROVE e[k - 1] = m[k] OBVIOUS
    <3>1. CASE k = Len(l) + 1
      <4>1. k - 1 = s BY <3>1, <1>2, <2>3
      <4> QED BY <3>1, <4>1, <1>3, <2>4
    <3>2. CASE k \in 1 .. Len(l) BY <3>2, <2>4, <2>5
    <3> QED BY <3>1, <3>2, <2>4, <1>2
  <2>7. Len(m) <= N /\ j = Len(m) BY <1>1, <1>2, <1>4, <2>3, <2>4 DEF j
  <2>8. Len(m) = N => \A k \in 1 .. N : e[Place(j, k)] = m[k]
    <3> SUFFICES ASSUME Len(m) = N, NEW k \in 1 .. N PROVE e[Place(j, k)] = m[k] OBVIOUS
    <3>1. j = N BY <2>7
    <3>2. Slot(j) = 0 BY <3>1, <1>1 DEF Slot
    <3>3. Place(j, k) = k - 1 BY <3>2, <1>1 DEF Place, N
    <3> QED BY <3>3, <2>6
  <2>9. Ring(e, j, m) BY <2>6, <2>7, <2>8 DEF Ring, N
  <2> QED BY <2>9 DEF e, j, m, o, s, N
<1>5. CASE Len(l) = N
  <2>1. o = Tail(l) BY <1>5, <1>1
  <2>2. \A k \in 1 .. N : r[Place(i, k)] = l[k] BY <1>5 DEF Ring
  <2>3. Len(m) = N /\ m[N] = v /\ \A k \in 1 .. N - 1 : m[k] = l[k + 1]
    <3>1. l # <<>> BY <1>1, <1>5
    <3>2. Tail(l) \in Seq(Nat) /\ Len(Tail(l)) = N - 1
          /\ \A k \in 1 .. N - 1 : Tail(l)[k] = l[k + 1]
      BY <3>1, <1>5, TailIs
    <3>3. m = Append(Tail(l), v) BY <2>1, Zenon
    <3> HIDE DEF m
    <3> DEFINE d == Tail(l)
    <3>4. d \in Seq(Nat) /\ Len(d) = N - 1 /\ \A k \in 1 .. N - 1 : d[k] = l[k + 1] BY <3>2
    <3>5. m = Append(d, v) BY <3>3
    <3> HIDE DEF d
    <3>6. /\ Len(Append(d, v)) = Len(d) + 1
          /\ \A k \in 1 .. Len(d) : Append(d, v)[k] = d[k]
          /\ Append(d, v)[Len(d) + 1] = v
      <4>1. d \in Seq(Nat) BY <3>4
      <4> QED BY <4>1, AppendIs
    <3>7. Len(m) = N /\ m[N] = v BY <3>4, <3>5, <3>6, <1>1
    <3>8. \A k \in 1 .. N - 1 : m[k] = d[k] BY <3>4, <3>5, <3>6
    <3> QED BY <3>4, <3>7, <3>8
  <2>4. /\ Place(j, N) = s
        /\ \A k \in 1 .. N - 1 : Place(j, k) = Place(i, k + 1) /\ Place(i, k + 1) # s
    BY PlaceNext
  <2>5. \A k \in 1 .. N : Place(i, k) \in 0 .. N - 1 BY Places
  <2> HIDE DEF e, m, j, s, o
  <2>6. \A k \in 1 .. N : e[Place(j, k)] = m[k]
    <3> SUFFICES ASSUME NEW k \in 1 .. N PROVE e[Place(j, k)] = m[k] OBVIOUS
    <3>1. CASE k = N BY <3>1, <2>3, <2>4, <1>3
    <3>2. CASE k \in 1 .. N - 1
      <4>1. k + 1 \in 1 .. N BY <3>2, <1>1
      <4>2. Place(j, k) = Place(i, k + 1) /\ Place(i, k + 1) # s BY <3>2, <2>4
      <4>3. Place(i, k + 1) \in 0 .. N - 1 /\ r[Place(i, k + 1)] = l[k + 1]
        BY <4>1, <2>2, <2>5
      <4>4. e[Place(i, k + 1)] = l[k + 1] BY <4>2, <4>3, <1>3
      <4> QED BY <4>2, <4>4, <3>2, <2>3
    <3> QED BY <3>1, <3>2, <1>1
  <2>7. Ring(e, j, m) BY <2>3, <2>6, <1>1 DEF Ring, N
  <2> QED BY <2>7 DEF e, j, m, o, s, N
<1> QED BY <1>2, <1>4, <1>5, <1>1

LEMMA NoiseRingIs == NoiseRing <=> \A c \in Chans : Ring(noises[c], itr[c], idles[c])
BY DEF NoiseRing, Ring

\* The levels in the ring are the last ones, each as often.
LEMMA RecentLevels == NoiseInv => NoiseIsRecent
<1> SUFFICES ASSUME NoiseInv, NEW c \in Chans, Len(idles[c]) = NoiseCnt, NEW v
             PROVE  Cardinality({i \in 0 .. NoiseCnt - 1 : noises[c][i] = v})
                        = Cardinality({i \in 1 .. NoiseCnt : idles[c][i] = v})
  BY DEF NoiseIsRecent
<1> DEFINE A == {i \in 0 .. NoiseCnt - 1 : noises[c][i] = v}
           B == {i \in 1 .. NoiseCnt : idles[c][i] = v}
           P(k) == Place(itr[c], k)
           f == [k \in B |-> P(k)]
<1>1. NoiseCnt \in Nat \ {0} /\ itr[c] \in 0 .. NoiseCnt
  BY UplinkAssumption DEF NoiseInv, NoiseTyped
<1>2. \A k \in 1 .. NoiseCnt : noises[c][P(k)] = idles[c][k]
  BY DEF NoiseInv, NoiseRing
<1>3. /\ \A k \in 1 .. NoiseCnt : P(k) \in 0 .. NoiseCnt - 1
      /\ \A k, l \in 1 .. NoiseCnt : P(k) = P(l) => k = l
      /\ \A d \in 0 .. NoiseCnt - 1 : \E k \in 1 .. NoiseCnt : P(k) = d
  BY <1>1, Places, Zenon
<1> HIDE DEF P
<1>4. f \in [B -> A] BY <1>2, <1>3
<1>5. \A k, l \in B : f[k] = f[l] => k = l BY <1>3
<1>6. \A d \in A : \E k \in B : f[k] = d BY <1>2, <1>3
<1> HIDE DEF f
<1>7. f \in Bijection(B, A)
  <2>1. f \in Injection(B, A) BY <1>4, <1>5 DEF Injection, IsInjective
  <2>2. f \in Surjection(B, A) BY <1>4, <1>6 DEF Surjection
  <2> QED BY <2>1, <2>2 DEF Bijection
<1>8. ExistsBijection(B, A) BY <1>7 DEF ExistsBijection
<1>9. IsFiniteSet(B)
  <2>1. IsFiniteSet(1 .. NoiseCnt) BY <1>1, FS_Interval
  <2> QED BY <2>1, FS_Subset
<1> HIDE DEF A, B
<1>10. Cardinality(A) = Cardinality(B) BY <1>8, <1>9, FS_Bijection
<1> QED BY <1>10 DEF A, B

\* Only insert() and the history of idle bursts change it.
LEMMA HandleBurstNoise ==
    ASSUME NEW c \in Chans
    PROVE  BurstsInv /\ NoiseInv /\ HandleBurst(c) => NoiseInv'
<1> SUFFICES ASSUME BurstsInv, NoiseInv, HandleBurst(c) PROVE NoiseInv' OBVIOUS
<1> DEFINE r == noises[c]
           i == itr[c]
           l == idles[c]
           v == upper[c].n + 1
           o == IF Len(l) < NoiseCnt THEN l ELSE Tail(l)
<1>1. NoiseTyped /\ \A e \in Chans : Ring(noises[e], itr[e], idles[e])
  BY NoiseRingIs DEF NoiseInv
<1>2. v \in Nat
  <2>1. upper[c] \in BurstRecords BY DEF BurstsInv, Typed
  <2> QED BY <2>1, RecordsOrdered
<1>3. /\ r \in [0 .. NoiseCnt - 1 -> Nat] /\ i \in 0 .. NoiseCnt /\ l \in Seq(Nat)
      /\ NoiseCnt \in Nat \ {0}
  BY <1>1, UplinkAssumption DEF NoiseTyped
<1>4. CASE upper[c].t.tn \in IdleTNs
  <2>1. /\ noises' = [noises EXCEPT ![c][Slot(i)] = v] /\ itr' = [itr EXCEPT ![c] = Slot(i) + 1]
        /\ idles' = [idles EXCEPT ![c] = Append(o, v)]
    BY <1>4 DEF HandleBurst, insert, Slot
  <2>2. o \in Seq(Nat)
    <3>1. CASE Len(l) < NoiseCnt BY <3>1, <1>3
    <3>2. CASE ~(Len(l) < NoiseCnt)
      <4>1. l # <<>> BY <3>2, <1>3
      <4>2. Tail(l) \in Seq(Nat) BY <4>1, <1>3, TailIs, Zenon
      <4> QED BY <3>2, <4>2
    <3> QED BY <3>1, <3>2
  <2>3. Append(o, v) \in Seq(Nat)
    <3> HIDE DEF o, v
    <3> QED BY <1>2, <2>2, AppendIs
  <2>4. Ring([r EXCEPT ![Slot(i)] = v], Slot(i) + 1, Append(o, v))
    BY <1>1, <1>2, <1>3, RingInsert, Zenon
  <2>5. Slot(i) \in 0 .. NoiseCnt - 1 /\ Slot(i) + 1 \in 0 .. NoiseCnt
    BY <1>3, Places, PlaceNext, Zenon
  <2> DEFINE R == [r EXCEPT ![Slot(i)] = v]
             I == Slot(i) + 1
             L == Append(o, v)
  <2>6. R \in [0 .. NoiseCnt - 1 -> Nat] BY <1>2, <1>3, <2>5
  <2>7. noises' = [noises EXCEPT ![c] = R] BY <2>1
  <2> HIDE DEF R, I, L
  <2>8. R \in [0 .. NoiseCnt - 1 -> Nat] /\ I \in 0 .. NoiseCnt /\ L \in Seq(Nat) /\ Ring(R, I, L)
    BY <2>3, <2>4, <2>5, <2>6 DEF R, I, L
  <2>9. itr' = [itr EXCEPT ![c] = I] /\ idles' = [idles EXCEPT ![c] = L]
    BY <2>1 DEF I, L
  <2>10. NoiseTyped' BY <1>1, <2>7, <2>8, <2>9 DEF NoiseTyped
  <2>11. ASSUME NEW e \in Chans PROVE Ring(noises'[e], itr'[e], idles'[e])
    <3>1. CASE e = c
      <4>1. noises'[e] = R /\ itr'[e] = I /\ idles'[e] = L
        BY <3>1, <1>1, <2>7, <2>9 DEF NoiseTyped
      <4> QED BY <4>1, <2>8
    <3>2. CASE e # c
      <4>1. noises'[e] = noises[e] /\ itr'[e] = itr[e] /\ idles'[e] = idles[e]
        BY <3>2, <1>1, <2>7, <2>9 DEF NoiseTyped
      <4> QED BY <4>1, <1>1
    <3> QED BY <3>1, <3>2
  <2>12. NoiseRing' BY <2>11 DEF NoiseRing, Ring, Place, Slot
  <2> QED BY <2>10, <2>12 DEF NoiseInv
<1>5. CASE upper[c].t.tn \notin IdleTNs
  <2>1. noises' = noises /\ itr' = itr /\ idles' = idles BY <1>5 DEF HandleBurst
  <2> QED BY <2>1 DEF NoiseInv, NoiseTyped, NoiseRing
<1> QED BY <1>4, <1>5
-----------------------------------------------------------------------------
(* Theorems *)

\* What the rings hold fits them, and leaves room for a chunk.
LEMMA RingsFit == BurstsInv => /\ RingsInStep
                               /\ \A c \in Chans : avail[c] \in 0 .. RingLen
<1> SUFFICES ASSUME BurstsInv PROVE RingsInStep /\ \A c \in Chans : avail[c] \in 0 .. RingLen
  OBVIOUS
<1> DEFINE a == avail[0]
           k == Chunk
           s == Symbols
           m == RingLen
<1>1. /\ a \in Nat /\ k \in Nat \ {0} /\ s \in Nat /\ s <= k /\ m \in Nat /\ k + k <= m
      /\ recvSz \in Nat
  BY UplinkSizes, UplinkAssumption DEF BurstsInv, Typed
<1>2. /\ \A c \in Chans : avail[c] = a
      /\ recvSz = 0 => a <= s
      /\ recvSz > 0 => recvSz = a /\ recvSz <= s + k
  BY DEF BurstsInv, Rings
<1>3. FreeSegments = (m - a) \div k BY DEF FreeSegments
<1> HIDE DEF a, k, s, m
<1>4. a <= m BY <1>1, <1>2
<1>5. recvSz = 0 => FreeSegments > 0
  <2> SUFFICES ASSUME recvSz = 0 PROVE FreeSegments > 0 OBVIOUS
  <2> DEFINE x == m - a
             e == x \div k
  <2>1. x \in Nat /\ k <= x BY <1>1, <1>2
  <2> HIDE DEF x
  <2>2. x % k \in 0 .. k - 1 /\ x = k * e + (x % k) /\ e \in Nat BY <1>1, <2>1, DivMod
  <2>3. e # 0
    <3>1. e = 0 => k * e = 0 BY <1>1
    <3> HIDE DEF e
    <3> QED BY <1>1, <2>1, <2>2, <3>1
  <2> QED BY <1>3, <2>2, <2>3 DEF x
<1>6. RingsInStep BY <1>2, <1>5 DEF RingsInStep, a
<1>7. \A c \in Chans : avail[c] \in 0 .. RingLen BY <1>1, <1>2, <1>4 DEF m
<1> QED BY <1>6, <1>7

LEMMA IInvImplies == IInv => UplinkInv
<1> SUFFICES ASSUME IInv PROVE UplinkInv OBVIOUS
<1>1. TypeOK
  <2>1. mClock \in Time /\ first \in Time /\ \A c \in Chans : Len(mReceiveFIFO[c]) <= FifoLimit
    BY DEF IInv, BurstsInv, Typed
  <2>2. \A c \in Chans : itr[c] \in 0 .. NoiseCnt BY DEF IInv, NoiseInv, NoiseTyped
  <2>3. \A c \in Chans : avail[c] \in 0 .. RingLen BY RingsFit DEF IInv
  <2> QED BY <2>1, <2>2, <2>3, Zenon DEF TypeOK
<1>2. InItsSlot BY DEF IInv, BurstsInv
<1>3. RingsInStep BY RingsFit DEF IInv
<1>4. NoiseIsRecent BY RecentLevels DEF IInv
<1> QED BY <1>1, <1>2, <1>3, <1>4, Zenon DEF UplinkInv

LEMMA UplinkStep == IInv /\ [Next]_vars => IInv'
<1> SUFFICES ASSUME IInv, [Next]_vars PROVE IInv' OBVIOUS
<1>0. BurstsInv /\ NoiseInv BY DEF IInv
<1>1. ASSUME noises' = noises, itr' = itr, idles' = idles PROVE NoiseInv'
  BY <1>0, <1>1 DEF NoiseInv, NoiseTyped, NoiseRing
<1>2. CASE Start
  <2>1. NoiseInv' BY <1>1, <1>2 DEF Start, rxVars
  <2> QED BY <1>0, <1>2, <2>1, StartBursts DEF IInv
<1>3. CASE Stop
  <2>1. NoiseInv' BY <1>1, <1>3 DEF Stop
  <2> QED BY <1>0, <1>3, <2>1, StopBursts DEF IInv
<1>4. CASE DriveReceiveRadio
  <2>1. NoiseInv' BY <1>1, <1>4 DEF DriveReceiveRadio, rxVars
  <2> QED BY <1>0, <1>4, <2>1, DriveReceiveRadioBursts DEF IInv
<1>5. CASE FormBurst
  <2>1. NoiseInv' BY <1>1, <1>5 DEF FormBurst
  <2> QED BY <1>0, <1>5, <2>1, FormBurstBursts DEF IInv
<1>6. CASE Received
  <2>1. NoiseInv' BY <1>1, <1>6 DEF Received, rxVars
  <2> QED BY <1>0, <1>6, <2>1, ReceivedBursts DEF IInv
<1>7. CASE ReceiveFails
  <2>1. NoiseInv' BY <1>1, <1>7 DEF ReceiveFails, vars, rxVars
  <2> QED BY <1>0, <1>7, <2>1, ReceiveFailsBursts DEF IInv
<1>8. ASSUME NEW c \in Chans, PullRadioVector(c) PROVE IInv'
  <2>1. NoiseInv' BY <1>1, <1>8 DEF PullRadioVector
  <2>2. BurstsInv' BY <1>0, <1>8, PullRadioVectorBursts
  <2> QED BY <2>1, <2>2 DEF IInv
<1>9. ASSUME NEW c \in Chans, HandleBurst(c) PROVE IInv'
  <2>1. NoiseInv' BY <1>0, <1>9, HandleBurstNoise
  <2>2. BurstsInv' BY <1>0, <1>9, HandleBurstBursts
  <2> QED BY <2>1, <2>2 DEF IInv
<1>10. CASE UNCHANGED vars
  <2>1. NoiseInv' BY <1>1, <1>10 DEF vars
  <2>2. BurstsInv'
    BY <1>0, <1>10 DEF vars, BurstsInv, Typed, Rings, Clocks, Drift, InItsSlot, InOrder, Ordered,
                       NextBurst, Bursts, Symbols, Chunk
  <2> QED BY <2>1, <2>2 DEF IInv
<1> QED BY <1>2, <1>3, <1>4, <1>5, <1>6, <1>7, <1>8, <1>9, <1>10 DEF Next, RxUpper

\* The invariant is inductive.
THEOREM UlInductive == Spec => []IInv
<1>1. Init => IInv BY InitBursts, InitNoise DEF IInv
<1> QED BY <1>1, UplinkStep, PTL DEF Spec

\* driveReceiveRadio() puts every burst at its slot's place, within a symbol,
\* and with its slot's time; it cuts the rings of all channels at the same
\* places and leaves room for the next chunk; the noise level is that of the
\* last idle bursts.
THEOREM UlUplinkInv == Spec => []UplinkInv
BY UlInductive, IInvImplies, PTL

LEMMA HandledStep ==
    IInv /\ [Next]_vars =>
        [\A c \in Chans : done'[c] # done[c] =>
            \/ done'[c].s > done[c].s
            \/ done'[c].s = done[c].s /\ (done[c] = NoBurst \/ done'[c].n > done[c].n)]_vars
<1> SUFFICES ASSUME IInv, Next, NEW c \in Chans, done'[c] # done[c]
             PROVE  \/ done'[c].s > done[c].s
                    \/ done'[c].s = done[c].s /\ (done[c] = NoBurst \/ done'[c].n > done[c].n)
  OBVIOUS
<1>1. Typed /\ InOrder BY DEF IInv, BurstsInv
<1>2. PICK e \in Chans : HandleBurst(e)
  BY DEF Next, RxUpper, Start, Stop, DriveReceiveRadio, FormBurst, Received, ReceiveFails, vars,
         PullRadioVector, rxVars
<1>3. e = c /\ done'[c] = upper[c] /\ upper[c] # NoBurst BY <1>1, <1>2 DEF HandleBurst, Typed
<1>4. Before(done[c], upper[c]) BY <1>1, <1>3 DEF InOrder, Ordered
<1>5. upper[c] \in BurstRecords /\ done[c] \in BurstRecords BY <1>1 DEF Typed
<1>6. /\ upper[c].s \in Nat /\ upper[c].n \in Nat /\ done[c].s \in Nat /\ done[c].n \in Nat
  BY <1>5, RecordsOrdered
<1> QED BY <1>3, <1>4, <1>6 DEF Before

\* The bursts an RxUpper is done with follow one another as they were on the
\* air, also from one session to the next.
THEOREM UlHandledInOrder == Spec => HandledInOrder
<1> DEFINE A == \A c \in Chans : done'[c] # done[c] =>
                    \/ done'[c].s > done[c].s
                    \/ done'[c].s = done[c].s /\ (done[c] = NoBurst \/ done'[c].n > done[c].n)
<1>1. IInv /\ [Next]_vars => [A]_vars BY HandledStep
<1>2. HandledInOrder <=> [][A]_vars BY DEF HandledInOrder
<1> HIDE DEF A
<1> QED BY <1>1, <1>2, UlInductive, PTL DEF Spec
-----------------------------------------------------------------------------
(* Detection and demodulation *)


\* What was received and what the caller expects.
Inputs ==
    /\ burst.late \in Int /\ max_toa \in Nat /\ n \in {156, 157}
    /\ burst.kind \in Kinds
    /\ type \in {"TSC", "EDGE", "RACH", "EXT_RACH"}
    /\ type = "EDGE" => n = 156

\* The inductive invariant: the four properties, of inputs that do not change.
DetectIInv == Inputs /\ FoundWithDelay /\ ClipWhenLost /\ RightDemodulator /\ SymbolsInPlace
-----------------------------------------------------------------------------
(* The windows *)

\* What a detector with the right window says of a burst of the kind.
Detects(d, kind) ==
    /\ d.rc = "found" => burst.kind = kind /\ d.toa = burst.late
    /\ (burst.kind = kind /\ "strong" \in burst.marks /\ burst.late \in 0 .. max_toa)
            => d.rc = "found"
    /\ d.rc # "found" => d.rc = IF "clips" \in burst.marks THEN "CLIP" ELSE "NONE"

\* The peak of a normal burst is six symbols into the window, plus its delay.
LEMMA NormalWindow ==
    ASSUME Inputs, NEW kind \in {"NB", "EDGE"}
    PROVE  Detects(detectGeneralBurst(3 + 58 + 16 + 5, 6, 6 + max_toa, kind), kind)
<1>1. PeakIndex(kind, 3 + 58 + 16 + 5 - 6 - 1) = 6 + burst.late
  BY DEF PeakIndex, Sequence, Inputs
<1> QED BY <1>1 DEF Detects, detectGeneralBurst, detectBurst, Inputs

\* The peak of an access burst is eight symbols into it, plus its delay.
LEMMA AccessWindow ==
    ASSUME Inputs, NEW kind \in {"AB0", "AB1", "AB2"}
    PROVE  Detects(detectGeneralBurst(8 + 40, 8, 8 + max_toa, kind), kind)
<1>1. PeakIndex(kind, 8 + 40 - 8 - 1) = 8 + burst.late
  BY DEF PeakIndex, Sequence, Inputs
<1> QED BY <1>1 DEF Detects, detectGeneralBurst, detectBurst, Inputs

\* The sequences are tried in turn, and a burst has one of them at most.
LEMMA RACHWindow ==
    ASSUME Inputs, NEW ext \in BOOLEAN,
           NEW kinds, kinds = IF ext THEN {"AB0", "AB1", "AB2"} ELSE {"AB0"}
    PROVE  /\ detectRACHBurst(ext).rc = "found" =>
                    burst.kind \in kinds /\ detectRACHBurst(ext).toa = burst.late
           /\ (burst.kind \in kinds /\ "strong" \in burst.marks /\ burst.late \in 0 .. max_toa)
                    => detectRACHBurst(ext).rc = "found"
           /\ detectRACHBurst(ext).rc # "found" =>
                    detectRACHBurst(ext).rc = IF "clips" \in burst.marks THEN "CLIP" ELSE "NONE"
<1> DEFINE At(i) == detectGeneralBurst(8 + 40, 8, 8 + max_toa, Access[i])
           num_seq == IF ext THEN 3 ELSE 1
           F == {i \in 1 .. num_seq : At(i).rc = "found"}
           i0 == CHOOSE i \in F : \A j \in F : i <= j
<1>1. detectRACHBurst(ext) = IF F # {} THEN At(i0) ELSE At(num_seq)
  BY Zenon DEF detectRACHBurst
<1>2. \A i \in 1 .. num_seq : Access[i] \in kinds /\ Access[i] \in {"AB0", "AB1", "AB2"}
  BY DEF Access
<1>3. \A k \in kinds : \E i \in 1 .. num_seq : Access[i] = k
  <2>1. CASE ext
    <3>1. 1 \in 1 .. num_seq /\ 2 \in 1 .. num_seq /\ 3 \in 1 .. num_seq BY <2>1
    <3>2. kinds = {"AB0", "AB1", "AB2"} BY <2>1
    <3> QED BY <3>1, <3>2 DEF Access
  <2>2. CASE ~ext
    <3>1. 1 \in 1 .. num_seq /\ kinds = {"AB0"} BY <2>2
    <3> QED BY <3>1 DEF Access
  <2> QED BY <2>1, <2>2
<1>4. \A i, j \in 1 .. num_seq : Access[i] = Access[j] => i = j
  BY DEF Access
<1>5. \A i \in 1 .. num_seq : Detects(At(i), Access[i])
  BY <1>2, AccessWindow
<1> HIDE DEF At
<1>6. \A i, j \in F : i = j
  BY <1>4, <1>5 DEF Detects
<1>7. F # {} => i0 \in F
  BY <1>6
<1>8. num_seq \in 1 .. num_seq
  OBVIOUS
<1>9. CASE F # {}
  <2>1. i0 \in 1 .. num_seq /\ At(i0).rc = "found" BY <1>7, <1>9
  <2> QED BY <1>1, <1>2, <1>5, <1>9, <2>1 DEF Detects
<1>10. CASE F = {}
  <2>1. At(num_seq).rc # "found" BY <1>8, <1>10
  <2>2. \A i \in 1 .. num_seq : At(i).rc # "found" BY <1>10
  <2>3. ~(burst.kind \in kinds /\ "strong" \in burst.marks /\ burst.late \in 0 .. max_toa)
    BY <1>3, <1>5, <2>2 DEF Detects
  <2>4. detectRACHBurst(ext) = At(num_seq) BY <1>1, <1>10
  <2> HIDE DEF num_seq
  <2> QED BY <1>5, <1>8, <2>1, <2>3, <2>4 DEF Detects
<1> QED BY <1>9, <1>10

Types == {"TSC", "EDGE", "RACH", "EXT_RACH"}

\* detectAnyBurst() for every type of slot.
LEMMA AnyBurst ==
    ASSUME Inputs
    PROVE  /\ detectAnyBurst.rc \in Types =>
                    /\ burst.kind \in Carries /\ detectAnyBurst.toa = burst.late
                    /\ detectAnyBurst.rc = "EDGE" <=> burst.kind = "EDGE"
                    /\ detectAnyBurst.rc = "EDGE" => type = "EDGE"
           /\ (burst.kind \in Carries /\ "strong" \in burst.marks /\ burst.late \in 0 .. max_toa)
                    => detectAnyBurst.rc \in Types
           /\ detectAnyBurst.rc \notin Types =>
                    detectAnyBurst.rc = IF "clips" \in burst.marks THEN "CLIP" ELSE "NONE"
<1>1. Detects(analyzeTrafficBurst, "NB") BY NormalWindow DEF analyzeTrafficBurst
<1>2. Detects(detectEdgeBurst, "EDGE") BY NormalWindow DEF detectEdgeBurst
<1>3. CASE type = "TSC"
  <2>1. detectAnyBurst = As("TSC", analyzeTrafficBurst) BY <1>3 DEF detectAnyBurst
  <2>2. Carries = {"NB"} BY <1>3 DEF Carries
  <2> QED BY <1>1, <1>3, <2>1, <2>2 DEF As, Detects, Types
<1>4. CASE type = "EDGE"
  <2>1. Carries = {"NB", "EDGE"} BY <1>4 DEF Carries
  <2>2. CASE detectEdgeBurst.rc = "found"
    <3>1. detectAnyBurst = As("EDGE", detectEdgeBurst) BY <1>4, <2>2 DEF detectAnyBurst
    <3> QED BY <1>2, <1>4, <2>1, <2>2, <3>1 DEF As, Detects, Types
  <2>3. CASE detectEdgeBurst.rc # "found"
    <3>1. detectAnyBurst = As("TSC", analyzeTrafficBurst) BY <1>4, <2>3 DEF detectAnyBurst
    <3> QED BY <1>1, <1>2, <1>4, <2>1, <2>3, <3>1 DEF As, Detects, Types
  <2> QED BY <2>2, <2>3
<1>5. CASE type \in {"RACH", "EXT_RACH"}
  <2> DEFINE ext == type = "EXT_RACH"
  <2>1. detectAnyBurst = As(type, detectRACHBurst(ext)) BY <1>5 DEF detectAnyBurst
  <2>2. Carries = IF ext THEN {"AB0", "AB1", "AB2"} ELSE {"AB0"} BY <1>5 DEF Carries
  <2>3. ext \in BOOLEAN OBVIOUS
  <2> HIDE DEF ext
  <2>4. /\ detectRACHBurst(ext).rc = "found" =>
                burst.kind \in Carries /\ detectRACHBurst(ext).toa = burst.late
        /\ (burst.kind \in Carries /\ "strong" \in burst.marks /\ burst.late \in 0 .. max_toa)
                => detectRACHBurst(ext).rc = "found"
        /\ detectRACHBurst(ext).rc # "found" =>
                detectRACHBurst(ext).rc = IF "clips" \in burst.marks THEN "CLIP" ELSE "NONE"
    BY <2>2, <2>3, RACHWindow
  <2>5. "EDGE" \notin Carries BY <2>2
  <2> QED BY <1>5, <2>1, <2>4, <2>5 DEF As, Types
<1> QED BY <1>3, <1>4, <1>5 DEF Inputs

\* The demodulators: what is sliced as symbol i was sent as symbol i.
LEMMA Sliced ==
    ASSUME Inputs, NEW t, t = "EDGE" => type = "EDGE"
    PROVE  /\ demodAnyBurst(t, burst.late).by = IF t = "EDGE" THEN "8-PSK" ELSE "GMSK"
           /\ \A i \in DOMAIN demodAnyBurst(t, burst.late).syms :
                i + burst.late \in 0 .. n - 1 => demodAnyBurst(t, burst.late).syms[i] = i
<1> DEFINE syms == demodAnyBurst(t, burst.late).syms
<1>1. syms = IF t = "EDGE" THEN [i \in 0 .. 147 |-> demodCommon(burst.late)[i]]
             ELSE demodCommon(burst.late)
  BY DEF demodAnyBurst
<1>2. \A i \in DOMAIN syms : i \in 0 .. n - 1 /\ syms[i] = demodCommon(burst.late)[i]
  <2>1. DOMAIN demodCommon(burst.late) = 0 .. n - 1 BY DEF demodCommon
  <2> HIDE DEF syms
  <2>2. CASE t = "EDGE"
    <3>1. syms = [i \in 0 .. 147 |-> demodCommon(burst.late)[i]] BY <1>1, <2>2
    <3>2. n = 156 BY <2>2 DEF Inputs
    <3> QED BY <3>1, <3>2
  <2>3. CASE t # "EDGE"
    <3>1. syms = demodCommon(burst.late) BY <1>1, <2>3
    <3> QED BY <3>1, <2>1
  <2> QED BY <2>2, <2>3
<1>3. \A i \in 0 .. n - 1 : i + burst.late \in 0 .. n - 1 => demodCommon(burst.late)[i] = i
  BY DEF demodCommon, Symbol, Inputs
<1>4. \A i \in DOMAIN syms : i + burst.late \in 0 .. n - 1 => syms[i] = i
  BY <1>2, <1>3
<1> QED BY <1>4 DEF demodAnyBurst
-----------------------------------------------------------------------------
(* The invariant *)

LEMMA DetectInitIInv == DetectInit => DetectIInv
<1> SUFFICES ASSUME DetectInit PROVE DetectIInv OBVIOUS
<1>1. Inputs BY DetectAssumption DEF DetectInit, Inputs
<1>2. res = NoResult /\ ~Found BY DEF DetectInit, NoResult, Found
<1> QED BY <1>1, <1>2 DEF DetectIInv, FoundWithDelay, ClipWhenLost, RightDemodulator, SymbolsInPlace

LEMMA ReceiveIInv ==
    ASSUME DetectIInv, Receive
    PROVE  DetectIInv'
<1>1. Inputs BY DEF DetectIInv
<1>2. /\ res' = [rc |-> detectAnyBurst.rc, toa |-> detectAnyBurst.toa,
                 bits |-> IF detectAnyBurst.rc \in {"CLIP", "NONE"} THEN <<>>
                          ELSE demodAnyBurst(detectAnyBurst.rc, detectAnyBurst.toa)]
      /\ burst' = burst /\ type' = type /\ max_toa' = max_toa /\ n' = n
  BY DEF Receive
<1> DEFINE cd == detectAnyBurst.rc
           toa == detectAnyBurst.toa
<1>3. Carries' = Carries BY <1>2 DEF Carries
<1>4. Inputs' BY <1>1, <1>2 DEF Inputs
<1>5. /\ cd \in Types => /\ burst.kind \in Carries /\ toa = burst.late
                         /\ cd = "EDGE" <=> burst.kind = "EDGE"
                         /\ cd = "EDGE" => type = "EDGE"
      /\ (burst.kind \in Carries /\ "strong" \in burst.marks /\ burst.late \in 0 .. max_toa)
            => cd \in Types
      /\ cd \notin Types => cd = IF "clips" \in burst.marks THEN "CLIP" ELSE "NONE"
  BY <1>1, AnyBurst
<1> HIDE DEF cd, toa
<1>6. res'.rc = cd /\ res'.toa = toa BY <1>2 DEF cd, toa
<1>7. Found' <=> cd \in Types BY <1>5, <1>6 DEF Found, Types
<1>8. FoundWithDelay' BY <1>2, <1>3, <1>5, <1>6, <1>7 DEF FoundWithDelay
<1>9. ClipWhenLost' BY <1>2, <1>5, <1>6, <1>7 DEF ClipWhenLost, Types
<1>10. RightDemodulator' /\ SymbolsInPlace'
  <2>1. CASE cd \in Types
    <3>1. res'.bits = demodAnyBurst(cd, burst.late)
      BY <1>2, <1>5, <2>1 DEF cd, toa, Types
    <3>2. cd = "EDGE" => type = "EDGE" BY <1>5, <2>1
    <3>3. /\ res'.bits.by = IF cd = "EDGE" THEN "8-PSK" ELSE "GMSK"
          /\ \A i \in DOMAIN res'.bits.syms :
                i + burst.late \in 0 .. n - 1 => res'.bits.syms[i] = i
      BY <1>1, <3>1, <3>2, Sliced
    <3> QED BY <1>2, <1>5, <2>1, <3>3 DEF RightDemodulator, SymbolsInPlace
  <2>2. CASE cd \notin Types BY <1>7, <2>2 DEF RightDemodulator, SymbolsInPlace
  <2> QED BY <2>1, <2>2
<1> QED BY <1>4, <1>8, <1>9, <1>10 DEF DetectIInv

LEMMA DetectStepIInv == DetectIInv /\ [DetectNext]_detectVars => DetectIInv'
<1> SUFFICES ASSUME DetectIInv, [DetectNext]_detectVars PROVE DetectIInv' OBVIOUS
<1>1. CASE DetectNext BY <1>1, ReceiveIInv DEF DetectNext
<1>2. CASE UNCHANGED detectVars
  <2>1. Carries' = Carries /\ (Found' <=> Found) BY <1>2 DEF detectVars, Carries, Found
  <2> QED BY <1>2, <2>1 DEF detectVars, DetectIInv, Inputs, FoundWithDelay, ClipWhenLost,
                            RightDemodulator, SymbolsInPlace
<1> QED BY <1>1, <1>2
-----------------------------------------------------------------------------
(* Theorems *)

\* detectAnyBurst() finds every burst that its slot may carry, for every delay
\* up to every expected one, and gives that delay as the time of arrival.
THEOREM DetectFoundWithDelay == DetectSpec => []FoundWithDelay
BY DetectInitIInv, DetectStepIInv, PTL DEF DetectSpec, DetectIInv

\* Clipping is reported exactly when the burst clipped and none was found.
THEOREM DetectClipWhenLost == DetectSpec => []ClipWhenLost
BY DetectInitIInv, DetectStepIInv, PTL DEF DetectSpec, DetectIInv

\* demodAnyBurst() uses the demodulator of the burst's modulation.
THEOREM DetectRightDemodulator == DetectSpec => []RightDemodulator
BY DetectInitIInv, DetectStepIInv, PTL DEF DetectSpec, DetectIInv

\* demodAnyBurst() puts every symbol that was received in its place.
THEOREM DetectSymbolsInPlace == DetectSpec => []SymbolsInPlace
BY DetectInitIInv, DetectStepIInv, PTL DEF DetectSpec, DetectIInv

\* All four, for every set of delays and expected delays.
THEOREM DetectAll == DetectSpec => []DetectInv
BY DetectFoundWithDelay, DetectClipWhenLost, DetectRightDemodulator, DetectSymbolsInPlace, PTL
   DEF DetectInv
-----------------------------------------------------------------------------
(* SigVector *)

\* An input is not empty.
Sized == size \in Nat \ {0} /\ room \in Nat
VectorIInv == Sized /\ ReadsAllocated
-----------------------------------------------------------------------------
(* The three spans *)

\* The head of the copy, or the headroom, holds the filter's reach.
LEMMA StartOnlyInside ==
    ASSUME Sized, NEW h \in Nat \ {0}
    PROVE  Reads(START_ONLY(h), h) \subseteq Memory(START_ONLY(h))
<1>1. CASE room < h - 1
  <2>1. Memory(START_ONLY(h)) = (0 - (h - 1)) .. (size + 0 - 1)
    BY <1>1 DEF Memory, START_ONLY
  <2>2. Reads(START_ONLY(h), h) = (0 - (h - 1)) .. (0 + size - 1)
    BY DEF Reads, START_ONLY
  <2> QED BY <2>1, <2>2 DEF Sized
<1>2. CASE ~(room < h - 1)
  <2>1. Memory(START_ONLY(h)) = (0 - room) .. size - 1
    BY <1>2 DEF Memory, START_ONLY
  <2>2. Reads(START_ONLY(h), h) = (0 - (h - 1)) .. (0 + size - 1)
    BY DEF Reads, START_ONLY
  <2> QED BY <1>2, <2>1, <2>2 DEF Sized
<1> QED BY <1>1, <1>2

\* Half of the filter before the input and half after it.
LEMMA NoDelayInside ==
    ASSUME Sized, NEW h \in Nat \ {0}
    PROVE  Reads(NO_DELAY(h), h) \subseteq Memory(NO_DELAY(h))
<1> DEFINE half == h \div 2
<1>1. half \in Nat /\ 2 * half <= h /\ h <= 2 * half + 1 OBVIOUS
<1>2. Memory(NO_DELAY(h)) = (0 - half) .. (size + half - 1)
  BY DEF Memory, NO_DELAY
<1>3. Reads(NO_DELAY(h), h) = (half - (h - 1)) .. (half + size - 1)
  BY DEF Reads, NO_DELAY
<1> HIDE DEF half
<1> QED BY <1>1, <1>2, <1>3 DEF Sized

\* A copy with what is missing before the first output and after the last.
LEMMA CustomInside ==
    ASSUME Sized, NEW h \in Nat \ {0}, NEW begin \in Nat, NEW cnt \in Nat
    PROVE  Reads(CUSTOM(h, begin, cnt), h) \subseteq Memory(CUSTOM(h, begin, cnt))
<1> DEFINE head == IF begin < h - 1 THEN h - begin ELSE 0
           tail == IF begin + cnt > size THEN begin + cnt - size ELSE 0
<1>1. Reads(CUSTOM(h, begin, cnt), h) = (begin - (h - 1)) .. (begin + cnt - 1)
  BY DEF Reads, CUSTOM
<1>2. CASE begin < h - 1 \/ begin + cnt > size
  <2>1. Memory(CUSTOM(h, begin, cnt)) = (0 - head) .. (size + tail - 1)
    BY <1>2 DEF Memory, CUSTOM
  <2> QED BY <1>1, <2>1 DEF Sized
<1>3. CASE ~(begin < h - 1 \/ begin + cnt > size)
  <2>1. Memory(CUSTOM(h, begin, cnt)) = (0 - room) .. size - 1
    BY <1>3 DEF Memory, CUSTOM
  <2> QED BY <1>1, <1>3, <2>1 DEF Sized
<1> QED BY <1>2, <1>3
-----------------------------------------------------------------------------
(* The actions *)

LEMMA DoneInside ==
    ASSUME NEW s, NEW h, Done(s, h), Reads(s, h) \subseteq Memory(s)
    PROVE  ReadsAllocated'
<1>1. ret'.reads = (IF Bounds(s, h) THEN Reads(s, h) ELSE {}) /\ ret'.mem = Memory(s)
  BY DEF Done, NotCalled
<1> QED BY <1>1 DEF ReadsAllocated

LEMMA ConvolveInside ==
    ASSUME VectorIInv, Convolve
    PROVE  ReadsAllocated'
<1>1. PICK h \in Taps :
        \/ Done(START_ONLY(h), h)
        \/ Done(NO_DELAY(h), h)
        \/ \E begin \in 0 .. size, cnt \in 1 .. size : Done(CUSTOM(h, begin, cnt), h)
  BY DEF Convolve
<1>2. h \in Nat \ {0} /\ Sized BY VectorAssumption DEF VectorIInv
<1>3. CASE Done(START_ONLY(h), h) BY <1>2, <1>3, StartOnlyInside, DoneInside
<1>4. CASE Done(NO_DELAY(h), h) BY <1>2, <1>4, NoDelayInside, DoneInside
<1>5. CASE \E begin \in 0 .. size, cnt \in 1 .. size : Done(CUSTOM(h, begin, cnt), h)
  <2>1. PICK begin \in 0 .. size, cnt \in 1 .. size : Done(CUSTOM(h, begin, cnt), h) BY <1>5
  <2>2. begin \in Nat /\ cnt \in Nat BY <1>2 DEF Sized
  <2>3. Reads(CUSTOM(h, begin, cnt), h) \subseteq Memory(CUSTOM(h, begin, cnt))
    BY <1>2, <2>2, CustomInside
  <2> QED BY <2>1, <2>3, DoneInside
<1> QED BY <1>1, <1>3, <1>4, <1>5

LEMMA DelayInside ==
    ASSUME VectorIInv, Delay
    PROVE  ReadsAllocated'
<1> DEFINE s == NO_DELAY(DelayTaps)
<1>1. Reads(s, DelayTaps) \subseteq Memory(s)
  BY VectorAssumption, NoDelayInside DEF VectorIInv
<1>2. ret'.reads \in {Reads(s, DelayTaps), {}} /\ ret'.mem = Memory(s)
  BY DEF Delay, NotCalled
<1> HIDE DEF s
<1> QED BY <1>1, <1>2 DEF ReadsAllocated

LEMMA EnergyInside ==
    ASSUME EnergyDetect
    PROVE  ReadsAllocated'
<1>1. PICK bu \in {<<1, 156>>, <<1, 157>>, <<4, 625>>} :
        ret' = [NotCalled EXCEPT !.call = "energy",
                  !.reads = {4 * i : i \in 0 .. EnergyWindow(bu[1], bu[2]) - 1},
                  !.mem = 0 .. bu[2] - 1]
  BY DEF EnergyDetect
<1>2. /\ ret'.reads = {4 * i : i \in 0 .. EnergyWindow(bu[1], bu[2]) - 1}
      /\ ret'.mem = 0 .. bu[2] - 1
  BY <1>1 DEF NotCalled
<1>3. bu[2] \in Nat /\ EnergyWindow(bu[1], bu[2]) \in Nat
      /\ 4 * (EnergyWindow(bu[1], bu[2]) - 1) < bu[2]
  BY DEF EnergyWindow
<1> QED BY <1>2, <1>3 DEF ReadsAllocated

LEMMA PeakInside ==
    ASSUME VectorIInv, PeakRatio
    PROVE  ReadsAllocated'
<1>1. PICK peak \in 3 .. size - 3 :
        LET read == {peak - i : i \in {j \in 2 .. 5 : peak - j >= 0}}
                    \cup {peak + i : i \in {j \in 2 .. 5 : peak + j < size}}
        IN  ret' = [NotCalled EXCEPT !.call = "ratio", !.reads = read,
                                    !.null = Cardinality(read) < 5, !.mem = 0 .. size - 1]
  BY DEF PeakRatio
<1>2. /\ ret'.reads = {peak - i : i \in {j \in 2 .. 5 : peak - j >= 0}}
                      \cup {peak + i : i \in {j \in 2 .. 5 : peak + j < size}}
      /\ ret'.mem = 0 .. size - 1
  BY <1>1 DEF NotCalled
<1>3. \A r \in ret'.reads : r \in 0 .. size - 1
  BY <1>2 DEF VectorIInv, Sized
<1> QED BY <1>2, <1>3 DEF ReadsAllocated

LEMMA VectorInitIInv == VectorInit => VectorIInv
<1> SUFFICES ASSUME VectorInit PROVE VectorIInv OBVIOUS
<1>1. Sizes \subseteq Nat \ {0} /\ Rooms \subseteq Nat BY VectorAssumption
<1>2. Sized BY <1>1 DEF VectorInit, Sized
<1>3. ret.reads = {} BY DEF VectorInit, NotCalled
<1> QED BY <1>2, <1>3 DEF VectorIInv, ReadsAllocated

LEMMA VectorStepIInv == VectorIInv /\ [VectorNext]_vectorVars => VectorIInv'
<1> SUFFICES ASSUME VectorIInv, [VectorNext]_vectorVars PROVE VectorIInv' OBVIOUS
<1>1. Sized'
  BY DEF VectorIInv, Sized, vectorVars, VectorNext, Convolve, Delay, EnergyDetect, PeakRatio
<1>2. ReadsAllocated'
  BY ConvolveInside, DelayInside, EnergyInside, PeakInside
     DEF VectorNext, vectorVars, VectorIInv, ReadsAllocated
<1> QED BY <1>1, <1>2 DEF VectorIInv
-----------------------------------------------------------------------------

\* convolve(), delayVector(), energyDetect() and computePeakRatio() read only
\* what is allocated, for every input length, headroom and filter length.
THEOREM VectorReadsAllocated == VectorSpec => []ReadsAllocated
BY VectorInitIInv, VectorStepIInv, PTL DEF VectorSpec, VectorIInv

-----------------------------------------------------------------------------
(* The sending half of the radio interfaces (RadioSend in MCSamples)       *)

SendTyped ==
    /\ devType \in {"NORMAL", "RESAMP_64M", "RESAMP_100M", "MULTI_ARFCN"}
    /\ mChans \in Nat /\ txSPS \in {1, 4} /\ rxSPS \in {1, 4}

\* What close() forgets.
Forgotten ==
    CASE devType = "NORMAL"      -> {}
      [] devType = "MULTI_ARFCN" -> Send!EachChan("history")
      [] OTHER                   -> Send!EachChan("send") \cup Send!EachChan("recv")

\* Everything allocated is known by a pointer, or forgotten.
SendMemory ==
    /\ sendBuffer \subseteq Send!EachChan("send") /\ recvBuffer \subseteq Send!EachChan("recv")
    /\ heap \subseteq Send!OwnObjects \cup sendBuffer \cup recvBuffer \cup Forgotten
    /\ ready = "closed" => heap \subseteq Forgotten

\* Between two bursts less than a segment is in the rings, all alike.
SendRings ==
    /\ ready = "yes" => mChans > 0 /\ ringed \in [0 .. mChans - 1 -> Nat]
    /\ sending \in BOOLEAN /\ pushing \in BOOLEAN /\ (pushing => sending)
    /\ sending => /\ ready = "yes" /\ \A c \in 0 .. mChans - 1 : ringed[c] = ringed[0]
                  /\ ringed[0] < Send!SegmentLen + (IF pushing THEN 625 ELSE 0)
    /\ dropped = FALSE

\* A sample of the ring and the timestamp the device is given for it.
SameTime(k, ts) ==
    (ts - StartTimestamp) * Send!Rates[1] =
        k * Send!Rates[2] * (IF devType = "MULTI_ARFCN" THEN MCHANS ELSE 1)

SendTimes ==
    /\ taken \in Int /\ writeTimestamp \in Int /\ last \in [at : Int, ts : Int]
    /\ sending => SameTime(taken, writeTimestamp) /\ SameTime(last.at, last.ts)

SendIInv == SendTyped /\ SendMemory /\ SendRings /\ SendTimes

\* What the property needs of the devices: those of the interfaces that add
\* what the device says it wrote, write everything.
OthersWriteAll == Failing \cap {"NORMAL", "MULTI_ARFCN"} = {}

LEMMA SendConstants ==
    /\ SendTypes \subseteq {"NORMAL", "RESAMP_64M", "RESAMP_100M", "MULTI_ARFCN"}
    /\ SendChans \subseteq Nat /\ MCHANS \in Nat \ {0} /\ StartTimestamp \in Nat
BY SamplesAssumption DEF Send!SendAssumption

\* A ring always has room for a burst in front of a segment.
LEMMA SendSizes ==
    ASSUME SendTyped
    PROVE  /\ Send!SegmentLen \in Nat \ {0} /\ Send!BurstLen \in 1 .. 625
           /\ Send!SegmentLen + 624 <= Send!BufferLen
<1>1. Send!BurstLen \in 1 .. 625 BY DEF Send!BurstLen
<1>2. CASE devType = "NORMAL"
  <2>1. Send!SegmentLen \in {625, 2500}
    BY <1>2 DEF Send!SegmentLen, SendTyped
  <2>2. Send!BufferLen = 4 * Send!SegmentLen BY <1>2 DEF Send!BufferLen, Send!NUMCHUNKS
  <2> QED BY <1>1, <2>1, <2>2
<1>3. CASE devType # "NORMAL"
  <2>1. Send!SegmentLen \in {260, 1040, 208, 832}
    BY <1>3 DEF Send!SegmentLen, Send!Rates, SendTyped
  <2>2. Send!BufferLen = 24 * Send!SegmentLen BY <1>3 DEF Send!BufferLen, Send!NUMCHUNKS
  <2> QED BY <1>1, <2>1, <2>2
<1> QED BY <1>2, <1>3

\* A segment takes as long in the ring as at the device.
LEMMA SegmentTime ==
    ASSUME SendTyped, NEW k \in Int, NEW ts \in Int, SameTime(k, ts)
    PROVE  /\ Send!SegmentLen \in Nat /\ Send!OutLen \in Nat
           /\ SameTime(k + Send!SegmentLen, ts + Send!OutLen)
<1>1. MCHANS \in Nat /\ StartTimestamp \in Nat BY SendConstants
<1>2. CASE devType = "NORMAL"
  <2>1. Send!Rates = <<1, 1>> /\ Send!OutLen = Send!SegmentLen /\ Send!SegmentLen \in Nat
    BY <1>2, SendSizes DEF Send!Rates, Send!OutLen
  <2> QED BY <1>1, <1>2, <2>1 DEF SameTime
<1>3. CASE devType = "MULTI_ARFCN"
  <2>1. Send!Rates = <<65, 48>> BY <1>3 DEF Send!Rates
  <2>2. Send!OutLen = MCHANS * 48 * 4 /\ Send!SegmentLen = 260
    BY <1>3, <2>1 DEF Send!OutLen, Send!SegmentLen
  <2>3. (ts - StartTimestamp) * 65 = k * 48 * MCHANS BY <1>3, <2>1 DEF SameTime
  <2>4. (ts + MCHANS * 48 * 4 - StartTimestamp) * 65 = (k + 260) * 48 * MCHANS
    BY <1>1, <2>3
  <2> QED BY <1>1, <1>3, <2>1, <2>2, <2>4 DEF SameTime
<1>4. CASE devType = "RESAMP_64M"
  <2>1. Send!Rates = <<65, 96>> BY <1>4 DEF Send!Rates
  <2>2. Send!OutLen = 96 * 4 * rxSPS /\ Send!SegmentLen = 65 * 4 * rxSPS /\ rxSPS \in Nat
    BY <1>4, <2>1 DEF Send!OutLen, Send!SegmentLen, SendTyped
  <2>3. (ts - StartTimestamp) * 65 = k * 96 BY <1>4, <2>1 DEF SameTime
  <2> QED BY <1>1, <1>4, <2>1, <2>2, <2>3 DEF SameTime
<1>5. CASE devType = "RESAMP_100M"
  <2>1. Send!Rates = <<52, 75>> BY <1>5 DEF Send!Rates
  <2>2. Send!OutLen = 75 * 4 * rxSPS /\ Send!SegmentLen = 52 * 4 * rxSPS /\ rxSPS \in Nat
    BY <1>5, <2>1 DEF Send!OutLen, Send!SegmentLen, SendTyped
  <2>3. (ts - StartTimestamp) * 52 = k * 75 BY <1>5, <2>1 DEF SameTime
  <2> QED BY <1>1, <1>5, <2>1, <2>2, <2>3 DEF SameTime
<1> QED BY <1>2, <1>3, <1>4, <1>5 DEF SendTyped

LEMMA SendInit == Send!Init => SendIInv
<1> SUFFICES ASSUME Send!Init PROVE SendIInv OBVIOUS
<1>1. SendTyped
  <2>1. mChans \in Nat BY SendConstants DEF Send!Init
  <2> QED BY <2>1, SendConstants DEF Send!Init, SendTyped
<1>2. heap = {} /\ sendBuffer = {} /\ recvBuffer = {} BY DEF Send!Init
<1>3. SendMemory BY <1>2 DEF SendMemory
<1>4. SendRings
  <2>1. ready # "yes" /\ sending = FALSE /\ pushing = FALSE /\ dropped = FALSE
    BY DEF Send!Init
  <2> QED BY <2>1, Zenon DEF SendRings
<1>5. SendTimes
  <2>1. taken = 0 /\ writeTimestamp = 0 /\ ~sending
        /\ last = [at |-> 0, ts |-> StartTimestamp]
    BY DEF Send!Init
  <2> QED BY <2>1, SendConstants DEF SendTimes
<1> QED BY <1>1, <1>3, <1>4, <1>5 DEF SendIInv

\* close() deletes what the pointers lead to, and forgets the rest.
LEMMA SendCloses ==
    ASSUME SendMemory, SendTyped PROVE Send!Closed(heap) \subseteq Forgotten
<1>1. CASE devType \in {"NORMAL", "MULTI_ARFCN"}
  BY <1>1 DEF SendMemory, Send!Closed
<1>2. CASE devType \notin {"NORMAL", "MULTI_ARFCN"}
  <2>1. Forgotten = Send!EachChan("send") \cup Send!EachChan("recv") BY <1>2 DEF Forgotten
  <2>2. Send!Closed(heap) \subseteq heap \ Send!OwnObjects BY DEF Send!Closed
  <2> QED BY <2>1, <2>2 DEF SendMemory
<1> QED BY <1>1, <1>2

\* What no step touches but init() and close().
LEMMA SendKept ==
    ASSUME SendMemory, SendTyped, UNCHANGED <<devType, mChans, txSPS, rxSPS>>
    PROVE  /\ SendTyped' /\ Forgotten' = Forgotten /\ Send!OwnObjects' = Send!OwnObjects
           /\ (UNCHANGED <<ready, heap, sendBuffer, recvBuffer>> => SendMemory')
           /\ Send!SegmentLen' = Send!SegmentLen
           /\ \A k, ts : SameTime(k, ts)' = SameTime(k, ts)
<1>1. SendTyped' BY DEF SendTyped
<1>2. \A kind : Send!EachChan(kind)' = Send!EachChan(kind) BY DEF Send!EachChan
<1>3. Forgotten' = Forgotten BY <1>2 DEF Forgotten
<1>4. Send!OwnObjects' = Send!OwnObjects BY DEF Send!OwnObjects
<1>5. Send!Rates' = Send!Rates BY DEF Send!Rates
<1>6. Send!SegmentLen' = Send!SegmentLen BY <1>5 DEF Send!SegmentLen
<1>7. \A k, ts : SameTime(k, ts)' = SameTime(k, ts) BY <1>5 DEF SameTime
<1>8. UNCHANGED <<ready, heap, sendBuffer, recvBuffer>> => SendMemory'
  BY <1>2, <1>3, <1>4 DEF SendMemory
<1> QED BY <1>1, <1>3, <1>4, <1>6, <1>7, <1>8

LEMMA SendInits ==
    ASSUME SendIInv, Send!init PROVE SendIInv'
<1>1. SendTyped /\ SendMemory /\ SendRings /\ SendTimes BY DEF SendIInv
<1>2. /\ ~sending /\ UNCHANGED <<devType, mChans, txSPS, rxSPS>>
      /\ UNCHANGED <<sending, pushing, writeTimestamp, tn, bursts, taken, dropped, last>>
      /\ ready' = IF mChans > 0 THEN "yes" ELSE "failed"
      /\ ringed' = [c \in 0 .. mChans - 1 |-> 0]
      /\ sendBuffer' = Send!EachChan("send") /\ recvBuffer' = Send!EachChan("recv")
      /\ heap' = Send!Closed(heap) \cup Send!OwnObjects \cup Send!EachChan("send")
                  \cup Send!EachChan("recv")
                  \cup (IF devType = "MULTI_ARFCN" THEN Send!EachChan("history") ELSE {})
  BY DEF Send!init, Send!cfgVars
<1>3. SendTyped' /\ Forgotten' = Forgotten /\ Send!OwnObjects' = Send!OwnObjects
  BY <1>1, <1>2, SendKept
<1>4. \A kind : Send!EachChan(kind)' = Send!EachChan(kind) BY <1>2 DEF Send!EachChan
<1>5. SendMemory'
  <2>1. Send!Closed(heap) \subseteq Forgotten BY <1>1, SendCloses
  <2>2. (IF devType = "MULTI_ARFCN" THEN Send!EachChan("history") ELSE {}) \subseteq Forgotten
    BY DEF Forgotten
  <2>3. ready' # "closed" BY <1>2
  <2> QED BY <1>2, <1>3, <1>4, <2>1, <2>2, <2>3 DEF SendMemory
<1>6. SendRings'
  <2>1. sending' = FALSE /\ pushing' = FALSE /\ dropped' = FALSE
    <3>1. pushing \in BOOLEAN /\ sending \in BOOLEAN /\ ~pushing /\ dropped = FALSE
      BY <1>1, <1>2, Zenon DEF SendRings
    <3> QED BY <1>2, <3>1, Zenon
  <2>2. ready' = "yes" => mChans' > 0 /\ ringed' \in [0 .. mChans' - 1 -> Nat]
    BY <1>2
  <2> QED BY <2>1, <2>2, Zenon DEF SendRings
<1>7. SendTimes' BY <1>1, <1>2 DEF SendTimes
<1> QED BY <1>3, <1>5, <1>6, <1>7 DEF SendIInv

LEMMA SendClosed ==
    ASSUME SendIInv, Send!Close PROVE SendIInv'
<1>1. SendTyped /\ SendMemory /\ SendRings /\ SendTimes BY DEF SendIInv
<1>2. /\ ~sending /\ UNCHANGED <<devType, mChans, txSPS, rxSPS>>
      /\ UNCHANGED <<sending, pushing, writeTimestamp, tn, bursts, taken, dropped, last>>
      /\ ready' = "closed" /\ sendBuffer' = {} /\ recvBuffer' = {}
      /\ heap' = Send!Closed(heap)
  BY DEF Send!Close, Send!cfgVars
<1>3. SendTyped' /\ Forgotten' = Forgotten
  BY <1>1, <1>2, SendKept
<1>4. SendMemory'
  <2>1. Send!Closed(heap) \subseteq Forgotten BY <1>1, SendCloses
  <2> QED BY <1>2, <1>3, <2>1 DEF SendMemory
<1>5. SendRings'
  <2>1. sending' = FALSE /\ pushing' = FALSE /\ dropped' = FALSE
    <3>1. pushing \in BOOLEAN /\ sending \in BOOLEAN /\ ~pushing /\ dropped = FALSE
      BY <1>1, <1>2, Zenon DEF SendRings
    <3> QED BY <1>2, <3>1, Zenon
  <2>2. ready' # "yes" BY <1>2
  <2> QED BY <2>1, <2>2, Zenon DEF SendRings
<1>6. SendTimes' BY <1>1, <1>2 DEF SendTimes
<1> QED BY <1>3, <1>4, <1>5, <1>6 DEF SendIInv

LEMMA SendStarts ==
    ASSUME SendIInv, Send!Start PROVE SendIInv'
<1>1. SendTyped /\ SendMemory /\ SendRings /\ SendTimes BY DEF SendIInv
<1>2. /\ ready = "yes" /\ ~sending /\ sending' = TRUE
      /\ UNCHANGED <<devType, mChans, txSPS, rxSPS>>
      /\ UNCHANGED <<ready, heap, sendBuffer, recvBuffer>> /\ UNCHANGED <<pushing, dropped>>
      /\ ringed' = [c \in DOMAIN ringed |-> 0]
      /\ writeTimestamp' = StartTimestamp /\ taken' = 0
      /\ last' = [at |-> 0, ts |-> StartTimestamp]
  BY DEF Send!Start, Send!cfgVars, Send!memVars
<1>3. SendTyped' /\ SendMemory' /\ Send!SegmentLen' = Send!SegmentLen
  BY <1>1, <1>2, SendKept
<1>4. SendRings'
  <2>1. mChans > 0 /\ mChans \in Nat /\ DOMAIN ringed = 0 .. mChans - 1
    BY <1>1, <1>2 DEF SendRings, SendTyped
  <2>2. ringed' = [c \in 0 .. mChans - 1 |-> 0] BY <1>2, <2>1
  <2>3. ringed' \in [0 .. mChans' - 1 -> Nat] /\ \A c \in 0 .. mChans' - 1 : ringed'[c] = 0
    BY <1>2, <2>2
  <2>4. Send!SegmentLen > 0 /\ ringed'[0] = 0 BY <1>1, <2>1, <2>2, SendSizes
  <2>5. pushing' = FALSE /\ dropped' = FALSE
    <3>1. pushing \in BOOLEAN /\ sending \in BOOLEAN /\ ~pushing /\ dropped = FALSE
      BY <1>1, <1>2, Zenon DEF SendRings
    <3> QED BY <1>2, <3>1, Zenon
  <2>6. ringed'[0] < Send!SegmentLen' + (IF pushing' THEN 625 ELSE 0)
    BY <1>1, <1>3, <2>4, <2>5, SendSizes
  <2>7. \A c \in 0 .. mChans' - 1 : ringed'[c] = ringed'[0] BY <2>3, <2>4
  <2> QED BY <1>2, <2>1, <2>3, <2>5, <2>6, <2>7, Zenon DEF SendRings
<1>5. SendTimes'
  <2>1. StartTimestamp \in Int /\ MCHANS \in Int BY SendConstants
  <2>2. Send!Rates'[1] \in Int /\ Send!Rates'[2] \in Int
    BY <1>3 DEF SendTyped, Send!Rates
  <2>3. SameTime(0, StartTimestamp)'
    <3>1. (StartTimestamp - StartTimestamp) * Send!Rates'[1] = 0 BY <2>1, <2>2
    <3>2. 0 * Send!Rates'[2] * (IF devType' = "MULTI_ARFCN" THEN MCHANS ELSE 1) = 0
      BY <2>1, <2>2
    <3> QED BY <3>1, <3>2 DEF SameTime
  <2> QED BY <1>2, <2>1, <2>3 DEF SendTimes
<1> QED BY <1>3, <1>4, <1>5 DEF SendIInv

\* Every ring takes the burst.
LEMMA SendBurst ==
    ASSUME SendIInv, Send!Radioify PROVE SendIInv'
<1> DEFINE fits(c) == ringed[c] + Send!BurstLen <= Send!BufferLen
<1>1. SendTyped /\ SendMemory /\ SendRings /\ SendTimes BY DEF SendIInv
<1>2. /\ sending /\ ~pushing /\ pushing' = TRUE
      /\ UNCHANGED <<devType, mChans, txSPS, rxSPS>>
      /\ UNCHANGED <<ready, heap, sendBuffer, recvBuffer>>
      /\ UNCHANGED <<sending, writeTimestamp, taken, last>>
      /\ ringed' = [c \in DOMAIN ringed |-> ringed[c] + (IF fits(c) THEN Send!BurstLen ELSE 0)]
      /\ dropped' = (dropped \/ \E c \in DOMAIN ringed : ~fits(c))
  BY DEF Send!Radioify, Send!cfgVars, Send!memVars
<1>3. SendTyped' /\ SendMemory' /\ Send!SegmentLen' = Send!SegmentLen
      /\ \A k, ts : SameTime(k, ts)' = SameTime(k, ts)
  BY <1>1, <1>2, SendKept
<1>4. /\ ready = "yes" /\ mChans > 0 /\ mChans \in Nat /\ ringed \in [0 .. mChans - 1 -> Nat]
      /\ \A c \in 0 .. mChans - 1 : ringed[c] = ringed[0]
      /\ ringed[0] < Send!SegmentLen
  <2>1. ready = "yes" /\ \A c \in 0 .. mChans - 1 : ringed[c] = ringed[0]
    BY <1>1, <1>2, Zenon DEF SendRings
  <2>2. ringed[0] < Send!SegmentLen + 0 BY <1>1, <1>2 DEF SendRings
  <2>3. mChans \in Nat /\ mChans > 0 /\ ringed \in [0 .. mChans - 1 -> Nat]
    BY <1>1, <2>1 DEF SendRings, SendTyped
  <2>4. ringed[0] \in Nat /\ Send!SegmentLen \in Nat BY <1>1, <2>3, SendSizes
  <2> QED BY <2>1, <2>2, <2>3, <2>4
<1>5. Send!SegmentLen \in Nat \ {0} /\ Send!BurstLen \in 1 .. 625
      /\ Send!SegmentLen + 624 <= Send!BufferLen
  BY <1>1, SendSizes
<1>6. Send!BufferLen \in Int
  BY <1>5 DEF Send!BufferLen, Send!NUMCHUNKS
<1>7. \A c \in 0 .. mChans - 1 : fits(c) /\ ringed[c] \in Nat
  BY <1>4, <1>5, <1>6
<1>8. ringed' = [c \in 0 .. mChans - 1 |-> ringed[c] + Send!BurstLen]
  <2>1. DOMAIN ringed = 0 .. mChans - 1 BY <1>4
  <2> HIDE DEF fits
  <2> QED BY <1>2, <1>7, <2>1
<1>9. dropped' = FALSE
  <2>1. DOMAIN ringed = 0 .. mChans - 1 /\ dropped = FALSE BY <1>1, <1>4 DEF SendRings
  <2> HIDE DEF fits
  <2> QED BY <1>2, <1>7, <2>1, Zenon
<1>10. SendRings'
  <2>1. ringed' \in [0 .. mChans' - 1 -> Nat] BY <1>2, <1>5, <1>7, <1>8
  <2>2. ringed'[0] = ringed[0] + Send!BurstLen /\ 0 \in 0 .. mChans - 1 BY <1>4, <1>8
  <2>3. \A c \in 0 .. mChans' - 1 : ringed'[c] = ringed'[0] BY <1>2, <1>4, <1>8, <2>2
  <2>4. ringed'[0] < Send!SegmentLen + 625 BY <1>4, <1>5, <1>7, <2>2
  <2>5. ringed'[0] < Send!SegmentLen' + (IF pushing' THEN 625 ELSE 0) BY <1>2, <1>3, <2>4
  <2>6. sending' = TRUE /\ pushing' = TRUE
    BY <1>1, <1>2, Zenon DEF SendRings
  <2>7. mChans' > 0 /\ ready' = "yes" BY <1>2, <1>4
  <2> QED BY <1>9, <2>1, <2>3, <2>5, <2>6, <2>7, Zenon DEF SendRings
<1>11. SendTimes' BY <1>1, <1>2, <1>3 DEF SendTimes
<1> QED BY <1>3, <1>10, <1>11 DEF SendIInv

\* Every ring has the segment that channel 0's has.
LEMMA SendSegment ==
    ASSUME OthersWriteAll, SendIInv, devType \in SendTypes, Send!PushBuffer PROVE SendIInv'
<1>1. SendTyped /\ SendMemory /\ SendRings /\ SendTimes BY DEF SendIInv
<1>2. /\ pushing /\ ringed[0] >= Send!SegmentLen
      /\ UNCHANGED <<devType, mChans, txSPS, rxSPS>>
      /\ UNCHANGED <<ready, heap, sendBuffer, recvBuffer>> /\ UNCHANGED <<sending, pushing>>
      /\ ringed' = [c \in DOMAIN ringed |-> IF ringed[c] >= Send!SegmentLen
                                            THEN ringed[c] - Send!SegmentLen ELSE ringed[c]]
      /\ dropped' = (dropped \/ \E c \in DOMAIN ringed : ringed[c] < Send!SegmentLen)
      /\ last' = [at |-> taken, ts |-> writeTimestamp]
      /\ taken' = taken + Send!SegmentLen
  BY DEF Send!PushBuffer, Send!cfgVars, Send!memVars
<1>3. PICK m \in Send!Answers : writeTimestamp' = writeTimestamp + Send!Advance(m)
  BY DEF Send!PushBuffer
<1>4. SendTyped' /\ SendMemory' /\ Send!SegmentLen' = Send!SegmentLen
      /\ \A k, ts : SameTime(k, ts)' = SameTime(k, ts)
  BY <1>1, <1>2, SendKept
<1>5. sending = TRUE /\ pushing = TRUE BY <1>1, <1>2, Zenon DEF SendRings
<1>6. /\ ready = "yes" /\ mChans > 0 /\ mChans \in Nat /\ ringed \in [0 .. mChans - 1 -> Nat]
      /\ \A c \in 0 .. mChans - 1 : ringed[c] = ringed[0]
      /\ ringed[0] < Send!SegmentLen + 625
  <2>1. ready = "yes" /\ \A c \in 0 .. mChans - 1 : ringed[c] = ringed[0]
    BY <1>1, <1>5, Zenon DEF SendRings
  <2>2. ringed[0] < Send!SegmentLen + 625 BY <1>1, <1>5 DEF SendRings
  <2>3. mChans \in Nat /\ mChans > 0 /\ ringed \in [0 .. mChans - 1 -> Nat]
    BY <1>1, <2>1 DEF SendRings, SendTyped
  <2> QED BY <2>1, <2>2, <2>3
<1>7. Send!SegmentLen \in Nat \ {0} BY <1>1, SendSizes
<1> DEFINE seg == Send!SegmentLen
<1> HIDE DEF seg
<1>8. seg = Send!SegmentLen /\ seg \in Nat BY <1>7 DEF seg
<1>9. DOMAIN ringed = 0 .. mChans - 1
      /\ \A c \in 0 .. mChans - 1 : ringed[c] \in Nat /\ ringed[c] >= seg
  BY <1>2, <1>6, <1>8
<1>10. ringed' = [c \in 0 .. mChans - 1 |-> ringed[c] - seg] BY <1>2, <1>8, <1>9
<1>11. dropped' = FALSE
  <2>1. dropped = FALSE BY <1>1 DEF SendRings
  <2>2. \A c \in 0 .. mChans - 1 : ~(ringed[c] < seg) BY <1>8, <1>9
  <2> QED BY <1>2, <1>8, <1>9, <2>1, <2>2, Zenon
<1>12. SendRings'
  <2>1. ringed' \in [0 .. mChans' - 1 -> Nat] BY <1>2, <1>8, <1>9, <1>10
  <2>2. ringed'[0] = ringed[0] - seg /\ ringed[0] \in Nat BY <1>6, <1>9, <1>10
  <2>3. \A c \in 0 .. mChans' - 1 : ringed'[c] = ringed'[0] BY <1>2, <1>6, <1>10, <2>2
  <2>4. ringed'[0] < seg + 625 BY <1>6, <1>8, <2>2
  <2>5. ringed'[0] < Send!SegmentLen' + (IF pushing' THEN 625 ELSE 0)
    BY <1>2, <1>4, <1>5, <1>8, <2>4
  <2>6. mChans' > 0 /\ ready' = "yes" /\ sending' = TRUE /\ pushing' = TRUE
    BY <1>2, <1>5, <1>6
  <2> QED BY <1>11, <2>1, <2>3, <2>5, <2>6, Zenon DEF SendRings
<1>13. Send!Advance(m) = Send!OutLen
  <2>1. CASE devType \in {"RESAMP_64M", "RESAMP_100M"} BY <2>1 DEF Send!Advance
  <2>2. CASE devType \notin {"RESAMP_64M", "RESAMP_100M"}
    <3>1. devType \in {"NORMAL", "MULTI_ARFCN"} BY <1>1, <2>2 DEF SendTyped
    <3>2. devType \notin Failing BY <3>1 DEF OthersWriteAll
    <3>3. m = Send!OutLen BY <1>3, <3>2 DEF Send!Answers
    <3> QED BY <2>2, <3>3 DEF Send!Advance
  <2> QED BY <2>1, <2>2
<1>14. SendTimes'
  <2>1. taken \in Int /\ writeTimestamp \in Int /\ SameTime(taken, writeTimestamp)
    BY <1>1, <1>5 DEF SendTimes
  <2>2. Send!OutLen \in Nat /\ SameTime(taken + Send!SegmentLen, writeTimestamp + Send!OutLen)
    BY <1>1, <2>1, SegmentTime
  <2>3. writeTimestamp' = writeTimestamp + Send!OutLen BY <1>3, <1>13
  <2>4. taken' \in Int /\ writeTimestamp' \in Int BY <1>2, <1>7, <2>1, <2>2, <2>3
  <2>5. last' \in [at : Int, ts : Int] /\ last'.at = taken /\ last'.ts = writeTimestamp
    BY <1>2, <2>1
  <2>6. \A k, ts : SameTime(k, ts)' <=> SameTime(k, ts) BY <1>4
  <2>7. SameTime(taken, writeTimestamp)' BY <2>1, <2>2, <2>3, <1>2, <1>4 DEF SameTime
  <2>8. SameTime(last.at, last.ts)' BY <2>1, <2>5, <1>4 DEF SameTime
  <2> QED BY <2>4, <2>5, <2>7, <2>8 DEF SendTimes
<1> QED BY <1>4, <1>12, <1>14 DEF SendIInv

LEMMA SendEnds ==
    ASSUME SendIInv, Send!Stop \/ Send!Pushed \/ UNCHANGED sendVars PROVE SendIInv'
<1>1. SendTyped /\ SendMemory /\ SendRings /\ SendTimes BY DEF SendIInv
<1>2. /\ UNCHANGED <<devType, mChans, txSPS, rxSPS>>
      /\ UNCHANGED <<ready, heap, sendBuffer, recvBuffer>>
      /\ UNCHANGED <<ringed, writeTimestamp, taken, dropped, last>>
  BY DEF Send!Stop, Send!Pushed, Send!cfgVars, Send!memVars, sendVars
<1>3. SendTyped' /\ SendMemory' /\ Send!SegmentLen' = Send!SegmentLen
      /\ \A k, ts : SameTime(k, ts)' = SameTime(k, ts)
  BY <1>1, <1>2, SendKept
<1>4. \/ ~pushing /\ sending' = FALSE /\ pushing' = pushing
      \/ pushing /\ ringed[0] < Send!SegmentLen /\ pushing' = FALSE /\ sending' = sending
      \/ UNCHANGED <<sending, pushing>>
  BY DEF Send!Stop, Send!Pushed, sendVars
<1>5. SendTimes'
  <2>1. sending' => sending BY <1>1, <1>4, Zenon DEF SendRings
  <2> QED BY <1>1, <1>2, <1>3, <2>1 DEF SendTimes
<1>6. SendRings'
  <2>1. sending' \in BOOLEAN /\ pushing' \in BOOLEAN /\ (pushing' => sending')
        /\ (sending' => sending)
    <3>1. sending \in BOOLEAN /\ pushing \in BOOLEAN /\ (pushing => sending)
      BY <1>1, Zenon DEF SendRings
    <3>2. CASE ~pushing /\ sending' = FALSE /\ pushing' = pushing BY <3>1, <3>2, Zenon
    <3>3. CASE pushing /\ pushing' = FALSE /\ sending' = sending BY <3>1, <3>3, Zenon
    <3>4. CASE UNCHANGED <<sending, pushing>> BY <3>1, <3>4, Zenon
    <3> QED BY <1>4, <3>2, <3>3, <3>4, Zenon
  <2>2. sending' => ringed'[0] < Send!SegmentLen' + (IF pushing' THEN 625 ELSE 0)
    <3> SUFFICES ASSUME sending' PROVE ringed'[0] < Send!SegmentLen' + (IF pushing' THEN 625 ELSE 0)
      OBVIOUS
    <3>1. ringed[0] < Send!SegmentLen + (IF pushing THEN 625 ELSE 0)
      BY <1>1, <2>1 DEF SendRings
    <3>2. Send!SegmentLen \in Nat BY <1>1, SendSizes
    <3>3. CASE pushing /\ ringed[0] < Send!SegmentLen /\ pushing' = FALSE
      BY <1>2, <1>3, <3>2, <3>3
    <3>4. CASE pushing' = pushing BY <1>2, <1>3, <3>1, <3>4
    <3> QED BY <1>4, <3>3, <3>4
  <2>3. ready' = "yes" => mChans' > 0 /\ ringed' \in [0 .. mChans' - 1 -> Nat]
    BY <1>1, <1>2 DEF SendRings
  <2>4. dropped' = FALSE /\ (sending' => ready' = "yes")
        /\ (sending' => \A c \in 0 .. mChans' - 1 : ringed'[c] = ringed'[0])
    BY <1>1, <1>2, <2>1, Zenon DEF SendRings
  <2> QED BY <2>1, <2>2, <2>3, <2>4, Zenon DEF SendRings
<1> QED BY <1>3, <1>5, <1>6 DEF SendIInv

LEMMA SendStep == OthersWriteAll /\ SendIInv /\ devType \in SendTypes /\ [Send!Next]_sendVars
                    => SendIInv' /\ devType' \in SendTypes
<1> SUFFICES ASSUME OthersWriteAll, SendIInv, devType \in SendTypes, [Send!Next]_sendVars
             PROVE  SendIInv' /\ devType' \in SendTypes
  OBVIOUS
<1>1. devType' = devType
  BY DEF Send!Next, Send!init, Send!Close, Send!Start, Send!Stop, Send!Radioify,
         Send!PushBuffer, Send!Pushed, Send!cfgVars, sendVars
<1>2. SendIInv'
  BY SendInits, SendClosed, SendStarts, SendBurst, SendSegment, SendEnds DEF Send!Next
<1> QED BY <1>1, <1>2

LEMMA SendHolds == SendIInv => SentInTime
<1> SUFFICES ASSUME SendIInv PROVE SentInTime OBVIOUS
<1>1. SendTyped /\ SendMemory /\ SendRings /\ SendTimes BY DEF SendIInv
<1>2. Send!SegmentsOnTime BY <1>1 DEF SendTimes, SameTime, Send!SegmentsOnTime
<1>3. Send!NothingDropped
  <2>1. ~dropped BY <1>1, Zenon DEF SendRings
  <2>2. ASSUME sending, ~pushing, NEW c \in DOMAIN ringed
        PROVE  ringed[c] = ringed[0] /\ ringed[c] < Send!SegmentLen
    <3>1. ready = "yes" /\ \A d \in 0 .. mChans - 1 : ringed[d] = ringed[0]
      BY <1>1, <2>2, Zenon DEF SendRings
    <3>2. DOMAIN ringed = 0 .. mChans - 1 /\ ringed \in [0 .. mChans - 1 -> Nat]
      BY <1>1, <3>1 DEF SendRings
    <3>3. ringed[c] = ringed[0] /\ ringed[c] \in Nat BY <2>2, <3>1, <3>2
    <3>4. ringed[0] < Send!SegmentLen + 0 BY <1>1, <2>2 DEF SendRings
    <3>5. Send!SegmentLen \in Nat BY <1>1, SendSizes
    <3> QED BY <3>3, <3>4, <3>5
  <2> QED BY <2>1, <2>2, Zenon DEF Send!NothingDropped
<1>4. Send!CloseForgets BY <1>1 DEF SendMemory, Forgotten, Send!CloseForgets
<1> QED BY <1>2, <1>3, <1>4 DEF SentInTime

-----------------------------------------------------------------------------
(* The multi-carrier interface (RadioMulti in MCSamples)                   *)

\* What the table of branches is for.
FourBranches == MCHANS = 4

\* The device is tuned for the channel that was asked for first.
MultiIInv ==
    /\ arfcns \in Nat \ {0} /\ pulled \in Nat /\ up = (arfcns <= 3)
    /\ branches = IF up THEN Multi!ActiveChans(arfcns) ELSE {}
    /\ centre \in [{"tx", "rx"} -> Int]
    /\ asked \in [{"tx", "rx"} -> [0 .. arfcns - 1 -> Int]]
    /\ \A d \in {"tx", "rx"} :
        asked[d][0] # 0 => centre[d] = asked[d][0] + Multi!getFreqShift(arfcns)

LEMMA MultiConstants ==
    /\ {MCHANS, CLen, HLen} \subseteq Nat \ {0} /\ MultiChans \subseteq Nat \ {0}
    /\ Freqs \subseteq Nat \ {0}
BY SamplesAssumption DEF Multi!MultiAssumption

LEMMA MultiInit == ASSUME FourBranches, Multi!Init PROVE MultiIInv
<1>1. arfcns \in Nat \ {0} /\ pulled = 0 BY MultiConstants DEF Multi!Init
<1>2. up = (arfcns <= 3) BY <1>1 DEF Multi!Init, FourBranches
<1>3. branches = IF up THEN Multi!ActiveChans(arfcns) ELSE {} BY DEF Multi!Init
<1>4. /\ centre = [d \in {"tx", "rx"} |-> 0]
      /\ asked = [d \in {"tx", "rx"} |-> [c \in 0 .. arfcns - 1 |-> 0]]
  BY DEF Multi!Init, Multi!Dirs, Multi!Chans
<1>5. 0 \in 0 .. arfcns - 1 BY <1>1
<1>6. \A d \in {"tx", "rx"} : asked[d][0] = 0 BY <1>4, <1>5
<1>7. centre \in [{"tx", "rx"} -> Int] /\ asked \in [{"tx", "rx"} -> [0 .. arfcns - 1 -> Int]]
  BY <1>4
<1> QED BY <1>1, <1>2, <1>3, <1>6, <1>7 DEF MultiIInv

LEMMA MultiTunes ==
    ASSUME MultiIInv, NEW d \in {"tx", "rx"}, NEW f \in Freqs, NEW c \in 0 .. arfcns - 1,
           NEW ok \in BOOLEAN, Multi!tune(d, f, c, ok)
    PROVE  MultiIInv'
<1> DEFINE shift == Multi!getFreqShift(arfcns)
<1>1. /\ arfcns \in Nat \ {0} /\ centre \in [{"tx", "rx"} -> Int]
      /\ asked \in [{"tx", "rx"} -> [0 .. arfcns - 1 -> Int]] /\ up = (arfcns <= 3)
      /\ branches = IF up THEN Multi!ActiveChans(arfcns) ELSE {}
      /\ pulled \in Nat
      /\ \A e \in {"tx", "rx"} : asked[e][0] # 0 => centre[e] = asked[e][0] + shift
  BY DEF MultiIInv
<1>2. /\ UNCHANGED <<arfcns, up, branches, pulled>>
      /\ centre' = IF c = 0 /\ ok THEN [centre EXCEPT ![d] = f + shift] ELSE centre
      /\ asked' = IF c # 0 \/ ok THEN [asked EXCEPT ![d][c] = f] ELSE asked
  BY DEF Multi!tune
<1>3. shift \in Int BY DEF Multi!getFreqShift
<1>4. f \in Int /\ 0 \in 0 .. arfcns - 1 BY <1>1, MultiConstants
<1> HIDE DEF shift
<1>5. centre' \in [{"tx", "rx"} -> Int] /\ asked' \in [{"tx", "rx"} -> [0 .. arfcns - 1 -> Int]]
  <2>1. f + shift \in Int BY <1>3, <1>4
  <2>2. [centre EXCEPT ![d] = f + shift] \in [{"tx", "rx"} -> Int] BY <1>1, <2>1
  <2>3. [asked EXCEPT ![d][c] = f] \in [{"tx", "rx"} -> [0 .. arfcns - 1 -> Int]]
    BY <1>1, <1>4
  <2> QED BY <1>1, <1>2, <2>2, <2>3
<1>6. ASSUME NEW e \in {"tx", "rx"}, asked'[e][0] # 0
      PROVE  centre'[e] = asked'[e][0] + shift
  <2>1. CASE c = 0 /\ ok
    <3>1. centre' = [centre EXCEPT ![d] = f + shift] /\ asked' = [asked EXCEPT ![d][c] = f]
      BY <1>2, <2>1
    <3>2. CASE e = d BY <1>1, <1>4, <2>1, <3>1, <3>2
    <3>3. CASE e # d BY <1>1, <1>6, <3>1, <3>3
    <3> QED BY <3>2, <3>3
  <2>2. CASE ~(c = 0 /\ ok)
    <3>1. centre' = centre BY <1>2, <2>2
    <3>2. asked'[e][0] = asked[e][0]
      <4>1. CASE c = 0 BY <1>2, <2>2, <4>1
      <4>2. CASE c # 0
        <5>1. asked' = [asked EXCEPT ![d][c] = f] BY <1>2, <4>2
        <5> QED BY <1>1, <1>4, <4>2, <5>1
      <4> QED BY <4>1, <4>2
    <3> QED BY <1>1, <1>6, <3>1, <3>2
  <2> QED BY <2>1, <2>2
<1> QED BY <1>1, <1>2, <1>5, <1>6 DEF MultiIInv, shift

LEMMA MultiStep == MultiIInv /\ [Multi!Next]_multiVars => MultiIInv'
<1> SUFFICES ASSUME MultiIInv, [Multi!Next]_multiVars PROVE MultiIInv' OBVIOUS
<1>1. CASE \E d \in Multi!Dirs, f \in Freqs, c \in Multi!Chans, ok \in BOOLEAN :
             Multi!tune(d, f, c, ok)
  BY <1>1, MultiTunes DEF Multi!Dirs, Multi!Chans
<1>2. CASE Multi!pullBuffer \/ UNCHANGED multiVars
  <2>1. UNCHANGED <<arfcns, up, branches, centre, asked>> /\ pulled' \in Nat
    BY <1>2 DEF MultiIInv, Multi!pullBuffer, multiVars
  <2> QED BY <2>1 DEF MultiIInv
<1> QED BY <1>1, <1>2 DEF Multi!Next

\* Branch 1 is below the centre, branch 3 above it.
LEMMA MultiOffsets ==
    ASSUME FourBranches
    PROVE  Multi!Offset(0) = 0 /\ Multi!Offset(1) = -1 /\ Multi!Offset(3) = 1
<1>1. -((MCHANS - 1) \div 2) .. MCHANS \div 2 = {-1, 0, 1, 2} BY DEF FourBranches
<1>2. \A o \in {-1, 0, 1, 2} : (o + 0) % MCHANS = 0 <=> o = 0 BY DEF FourBranches
<1>3. \A o \in {-1, 0, 1, 2} : (o + 1) % MCHANS = 0 <=> o = -1 BY DEF FourBranches
<1>4. \A o \in {-1, 0, 1, 2} : (o + 3) % MCHANS = 0 <=> o = 1 BY DEF FourBranches
<1>5. Multi!Offset(0) = 0 BY <1>1, <1>2 DEF Multi!Offset
<1>6. Multi!Offset(1) = -1 BY <1>1, <1>3 DEF Multi!Offset
<1>7. Multi!Offset(3) = 1 BY <1>1, <1>4 DEF Multi!Offset
<1> QED BY <1>5, <1>6, <1>7

\* Each channel has one branch, as far from the centre as the channel is.
LEMMA MultiBranches ==
    ASSUME FourBranches, MultiIInv, up, NEW c \in 0 .. arfcns - 1
    PROVE  \E p1 : /\ Multi!Carriers(c) = {p1}
                   /\ Multi!getFreqShift(arfcns) + Multi!Offset(p1) = c
<1>a. branches = Multi!ActiveChans(arfcns) BY Zenon DEF MultiIInv
<1>b. arfcns <= 3 BY Zenon DEF MultiIInv
<1>c. arfcns \in Nat \ {0} /\ c \in 0 .. arfcns - 1 BY Zenon DEF MultiIInv
<1>1. arfcns \in {1, 2, 3} /\ branches = Multi!ActiveChans(arfcns) BY <1>a, <1>b, <1>c
<1>2. CASE arfcns = 1
  <2>1. branches = {0} /\ c = 0 BY <1>1, <1>2 DEF Multi!ActiveChans
  <2>2. Multi!getLogicalChan(0, 1) = 0 /\ Multi!getFreqShift(1) = 0
    BY DEF Multi!getLogicalChan, Multi!getFreqShift
  <2>3. Multi!Carriers(c) = {0} BY <1>2, <2>1, <2>2 DEF Multi!Carriers
  <2> QED BY <1>2, <2>1, <2>2, <2>3, MultiOffsets
<1>3. CASE arfcns = 2
  <2>1. branches = {0, 3} /\ c \in {0, 1} BY <1>1, <1>3 DEF Multi!ActiveChans
  <2>2. Multi!getLogicalChan(0, 2) = 0 /\ Multi!getLogicalChan(3, 2) = 1
        /\ Multi!getFreqShift(2) = 0
    BY DEF Multi!getLogicalChan, Multi!getFreqShift
  <2>3. Multi!Carriers(c) = {IF c = 0 THEN 0 ELSE 3}
    BY <1>3, <2>1, <2>2 DEF Multi!Carriers
  <2> QED BY <1>3, <2>1, <2>2, <2>3, MultiOffsets
<1>4. CASE arfcns = 3
  <2>1. branches = {0, 1, 3} /\ c \in {0, 1, 2} BY <1>1, <1>4 DEF Multi!ActiveChans
  <2>2. Multi!getLogicalChan(1, 3) = 0 /\ Multi!getLogicalChan(0, 3) = 1
        /\ Multi!getLogicalChan(3, 3) = 2 /\ Multi!getFreqShift(3) = 1
    BY DEF Multi!getLogicalChan, Multi!getFreqShift
  <2>3. Multi!Carriers(c) = {IF c = 0 THEN 1 ELSE IF c = 1 THEN 0 ELSE 3}
    BY <1>4, <2>1, <2>2 DEF Multi!Carriers
  <2> QED BY <1>4, <2>1, <2>2, <2>3, MultiOffsets
<1> QED BY <1>1, <1>2, <1>3, <1>4

LEMMA SameCardinality == ASSUME NEW S PROVE Multi!Cardinality(S) = Cardinality(S)
BY DEF Multi!Cardinality, Cardinality

LEMMA MultiCarrier ==
    ASSUME FourBranches, MultiIInv, up, NEW c \in Multi!Chans
    PROVE  /\ Multi!Cardinality(Multi!Carriers(c)) = 1
           /\ \A d \in Multi!Dirs :
                (asked[d][0] # 0 /\ asked[d][c] = asked[d][0] + c) =>
                    \A b \in Multi!Carriers(c) : centre[d] + Multi!Offset(b) = asked[d][c]
<1> c \in 0 .. arfcns - 1 BY DEF Multi!Chans
<1>1. PICK p1 : Multi!Carriers(c) = {p1} /\ Multi!getFreqShift(arfcns) + Multi!Offset(p1) = c
  BY MultiBranches
<1>2. Multi!Cardinality(Multi!Carriers(c)) = 1 BY <1>1, FS_Singleton, SameCardinality
<1>3. ASSUME NEW d \in Multi!Dirs, asked[d][0] # 0, asked[d][c] = asked[d][0] + c
      PROVE  centre[d] + Multi!Offset(p1) = asked[d][c]
  <2> d \in {"tx", "rx"} BY <1>3 DEF Multi!Dirs
  <2>1. centre[d] = asked[d][0] + Multi!getFreqShift(arfcns) BY <1>3 DEF MultiIInv
  <2>2. asked[d][0] \in Int /\ Multi!getFreqShift(arfcns) \in Int /\ c \in Int
    <3>1. arfcns \in Nat \ {0} /\ asked \in [{"tx", "rx"} -> [0 .. arfcns - 1 -> Int]]
      BY DEF MultiIInv
    <3> QED BY <3>1 DEF Multi!getFreqShift
  <2>3. Multi!Offset(p1) \in Int
    <3>1. p1 \in {0, 1, 3}
      <4>1. p1 \in branches BY <1>1 DEF Multi!Carriers
      <4> QED BY <4>1 DEF MultiIInv, Multi!ActiveChans
    <3> QED BY <3>1, MultiOffsets
  <2> QED BY <1>1, <1>3, <2>1, <2>2, <2>3
<1> QED BY <1>1, <1>2, <1>3

LEMMA MultiCarriers == FourBranches /\ MultiIInv => Multi!CarriersWhereAsked
BY MultiCarrier DEF Multi!CarriersWhereAsked

\* A pull gives every channel its block.
LEMMA MultiBlocks ==
    ASSUME FourBranches, MultiIInv, Multi!BlockOfEveryChannel, [Multi!Next]_multiVars
    PROVE  Multi!BlockOfEveryChannel'
<1>1. CASE Multi!pullBuffer
  <2> SUFFICES ASSUME NEW c \in 0 .. arfcns' - 1, NEW i \in 0 .. CLen - 1
               PROVE  window'[c][i] = (pulled' - 1) * CLen + i
    BY DEF Multi!BlockOfEveryChannel, Multi!Chans
  <2>1. up /\ arfcns' = arfcns /\ pulled' = pulled + 1 /\ pulled \in Nat
    BY <1>1 DEF Multi!pullBuffer, MultiIInv
  <2>2. window' = [d \in 0 .. arfcns - 1 |->
                     IF d \notin Multi!Lchans THEN window[d]
                     ELSE [j \in -HLen .. CLen - 1 |-> IF j < 0 THEN history[d][HLen + j]
                                                      ELSE Multi!Branch(j)]]
    BY <1>1 DEF Multi!pullBuffer, Multi!Chans
  <2>3. c \in Multi!Lchans
    <3>1. arfcns \in Nat \ {0} /\ c \in 0 .. arfcns - 1 BY <2>1 DEF MultiIInv
    <3>2. PICK p1 : Multi!Carriers(c) = {p1} BY <2>1, <3>1, MultiBranches
    <3>3. p1 \in branches /\ Multi!getLogicalChan(p1, arfcns) = c
      BY <3>2 DEF Multi!Carriers
    <3>4. c # -1 BY <3>1
    <3> QED BY <3>3, <3>4 DEF Multi!Lchans
  <2>4. i \in -HLen .. CLen - 1 /\ ~(i < 0) BY MultiConstants
  <2>5. window'[c][i] = Multi!Branch(i) BY <2>1, <2>2, <2>3, <2>4
  <2>6. pulled' - 1 = pulled BY <2>1
  <2> QED BY <2>5, <2>6 DEF Multi!Branch
<1>2. CASE ~Multi!pullBuffer
  <2>1. UNCHANGED <<arfcns, up, window, pulled>>
    BY <1>2 DEF Multi!Next, Multi!tune, multiVars
  <2> QED BY <2>1 DEF Multi!BlockOfEveryChannel, Multi!Chans
<1> QED BY <1>1, <1>2

-----------------------------------------------------------------------------
(* Polyphase filters (Resampler and Filterbank in MCSamples)               *)

\* Tap L - 1 - j of phase r, at the sample j places into the filter that
\* ends at T: the sum of the places is that of the output.
LEMMA TapPlace ==
    ASSUME NEW w \in Nat \ {0}, NEW L \in Nat \ {0}, NEW r \in 0 .. w - 1, NEW E \in Int,
           NEW j \in 0 .. L - 1
    PROVE  /\ (L - 1 - j) * w + r \in 0 .. w * L - 1
           /\ (E - (L - 1) + j) * w + ((L - 1 - j) * w + r) = E * w + r
<1>1. PICK a \in 0 .. L - 1 : a = L - 1 - j OBVIOUS
<1>2. E - (L - 1) + j = E - a /\ a \in Int BY <1>1
<1>3. (E - a) * w = E * w - a * w BY <1>2
<1>4. a * w + w <= L * w /\ 0 <= a * w /\ w * L = L * w /\ a * w \in Int /\ L * w \in Int
  <2>1. a * w + w <= L * w BY <1>2, Multiples
  <2>2. 0 <= a * w BY <1>1
  <2> QED BY <1>2, <2>1, <2>2
<1>5. E * w \in Int OBVIOUS
<1> DEFINE aw == a * w   Tw == E * w   Lw == L * w
<1>6. aw + r \in 0 .. Lw - 1
  <2> HIDE DEF aw, Lw
  <2>1. aw \in Int /\ Lw \in Int /\ aw + w <= Lw /\ 0 <= aw BY <1>4 DEF aw, Lw
  <2> QED BY <2>1
<1>7. (Tw - aw) + (aw + r) = Tw + r
  <2> HIDE DEF aw, Tw
  <2>1. aw \in Int /\ Tw \in Int BY <1>4, <1>5 DEF aw, Tw
  <2> QED BY <2>1
<1> QED BY <1>1, <1>2, <1>3, <1>4, <1>6, <1>7

\* And the other way round: all places with that sum are used.
LEMMA PlaceTap ==
    ASSUME NEW w \in Nat \ {0}, NEW L \in Nat \ {0}, NEW r \in 0 .. w - 1, NEW H \in Int,
           NEW s \in Int, NEW k \in 0 .. w * L - 1, s * w + k = H * w + r
    PROVE  \E j \in 0 .. L - 1 : s = H - (L - 1) + j /\ k = (L - 1 - j) * w + r
<1> DEFINE a == H - s
<1>1. a \in Int OBVIOUS
<1>2. a * w = H * w - s * w OBVIOUS
<1> HIDE DEF a
<1>3. H * w \in Int /\ s * w \in Int /\ a * w \in Int /\ w * L = L * w /\ L * w \in Int /\ k \in Int
  BY <1>1
<1>4. k = a * w + r
  <2> DEFINE aw == a * w   Tw == H * w   sw == s * w
  <2>1. aw \in Int /\ Tw \in Int /\ sw \in Int /\ aw = Tw - sw /\ sw + k = Tw + r
    BY <1>2, <1>3
  <2>2. k = aw + r
    <3> HIDE DEF aw, Tw, sw
    <3> QED BY <2>1, <1>3
  <2> QED BY <2>2
<1>5. a < L
  <2>1. a * w < L * w
    <3> DEFINE aw == a * w   Lw == L * w
    <3>1. aw \in Int /\ Lw \in Int /\ k = aw + r /\ k <= Lw - 1 BY <1>3, <1>4
    <3>2. aw < Lw
      <4> HIDE DEF aw, Lw
      <4> QED BY <3>1
    <3> QED BY <3>2
  <2> QED BY <1>1, <2>1, Scaled
<1>6. -1 < a
  <2>1. (-1) * w < a * w
    <3> DEFINE aw == a * w
    <3>1. aw \in Int /\ k = aw + r /\ 0 <= k /\ (-1) * w = -w BY <1>3, <1>4
    <3>2. -w < aw
      <4> HIDE DEF aw
      <4> QED BY <3>1
    <3> QED BY <3>1, <3>2
  <2> QED BY <1>1, <2>1, Scaled
<1>7. L - 1 - a \in 0 .. L - 1 /\ H - (L - 1) + (L - 1 - a) = H - a /\ L - 1 - (L - 1 - a) = a
  BY <1>1, <1>5, <1>6
<1>8. s = H - a BY DEF a
<1>9. PICK j \in 0 .. L - 1 : j = L - 1 - a BY <1>7
<1>10. s = H - (L - 1) + j /\ L - 1 - j = a BY <1>7, <1>8, <1>9
<1> QED BY <1>4, <1>10

LEMMA PlaceTaps ==
    \A w \in Nat \ {0}, L \in Nat \ {0}, H \in Int : \A r \in 0 .. w - 1 :
        \A s \in Int, k \in 0 .. w * L - 1 : s * w + k = H * w + r =>
            \E j \in 0 .. L - 1 : s = H - (L - 1) + j /\ k = (L - 1 - j) * w + r
BY PlaceTap

LEMMA PhaseOfTap ==
    \A w \in Nat \ {0} : \A a \in Nat : \A r \in 0 .. w - 1 :
        (a * w + r) % w = r /\ (a * w + r) \div w = a
<1> TAKE w \in Nat \ {0}
<1> TAKE a \in Nat
<1> TAKE r \in 0 .. w - 1
<1>1. a * w + r \in Nat OBVIOUS
<1>2. PICK k \in Nat : k = a * w + r BY <1>1
<1>3. k % w = r /\ k \div w = a BY <1>2, DivModIs
<1> QED BY <1>2, <1>3

-----------------------------------------------------------------------------
(* The resampler (Rs in MCSamples)                                         *)

\* The products of output o in the stream: sample and tap.
StreamAt(o) == {x \in Nat \X (0 .. p * filt_len - 1) : x[1] * p + x[2] = q * o}

Outputs == (SUBSET (Int \X Int)) \cup {Rs!Unwritten}

RsTyped ==
    /\ {p, q, filt_len, in_len, out_len} \subseteq Nat \ {0} /\ filt_len <= in_len
    /\ rotated \in Nat
    /\ in_index = Rs!InitPaths(p, q)[1] /\ out_path = Rs!InitPaths(p, q)[2]
    /\ partitions = Rs!InitFilters(p, filt_len)

\* The head room holds what came before the block.
RsHistory ==
    /\ DOMAIN buf = -filt_len .. in_len - 1
    /\ \A i \in -filt_len .. -1 :
        buf[i] = IF rotated = 0 THEN Rs!Silence ELSE rotated * in_len + i

RsStream ==
    /\ resampled \in Seq(Outputs) /\ Len(resampled) = rotated * out_len
    /\ Rs!check_vec_len =>
        \A o \in 1 .. Len(resampled) : Rs!Sounding(resampled[o]) = StreamAt(o - 1)
    /\ ~Rs!check_vec_len => \A o \in 1 .. Len(resampled) : resampled[o] = Rs!Unwritten

RsIInv == RsTyped /\ RsHistory /\ RsStream

\* A block in its vector.
IsBlock(x) ==
    /\ DOMAIN x = -filt_len .. in_len - 1
    /\ \A i \in -filt_len .. in_len - 1 :
        x[i] = IF i < 0 /\ rotated = 0 THEN -1 ELSE rotated * in_len + i

LEMMA RsLens ==
    ASSUME RsTyped, Rs!check_vec_len
    PROVE  in_len * p = q * out_len /\ out_len <= MAX_OUTPUT_LEN
<1>1. p \in Nat \ {0} /\ q \in Nat \ {0} /\ in_len \in Nat /\ out_len \in Nat BY DEF RsTyped
<1>2. /\ in_len % q = 0 /\ out_len % p = 0 /\ in_len \div q = out_len \div p
      /\ out_len <= MAX_OUTPUT_LEN
  BY DEF Rs!check_vec_len
<1> DEFINE k == in_len \div q
<1>3. in_len = q * k /\ k \in Nat
  <2>1. in_len = q * (in_len \div q) + (in_len % q) /\ in_len \div q \in Nat BY <1>1, DivMod
  <2> DEFINE m == q * k
  <2>2. in_len = m + 0 /\ m \in Nat BY <1>1, <1>2, <2>1
  <2>3. in_len = m
    <3> HIDE DEF m
    <3> QED BY <2>2
  <2> QED BY <2>1, <2>3
<1>4. out_len = p * k
  <2>1. out_len = p * (out_len \div p) + (out_len % p) BY <1>1, DivMod
  <2>2. out_len \div p = k BY <1>2
  <2> DEFINE m == p * k
  <2>3. out_len = m + 0 /\ m \in Nat BY <1>1, <1>2, <1>3, <2>1, <2>2
  <2>4. out_len = m
    <3> HIDE DEF m
    <3> QED BY <2>3
  <2> QED BY <2>4
<1> HIDE DEF k
<1>5. (q * k) * p = q * (p * k) BY <1>1, <1>3
<1> QED BY <1>2, <1>3, <1>4, <1>5

\* The sample at which output i of a block starts, and its partition.
LEMMA RsPlace ==
    ASSUME RsTyped, Rs!check_vec_len, NEW i \in 0 .. out_len - 1
    PROVE  /\ (q * i) \div p \in 0 .. in_len - 1 /\ (q * i) % p \in 0 .. p - 1
           /\ ((q * i) \div p) * p + ((q * i) % p) = q * i
           /\ i \in DOMAIN in_index /\ in_index[i] = (q * i) \div p /\ i \in DOMAIN out_path
           /\ out_path[i] = (q * i) % p
<1>1. p \in Nat \ {0} /\ q \in Nat \ {0} /\ in_len \in Nat /\ out_len \in Nat /\ i \in Nat
  BY DEF RsTyped
<1>2. in_len * p = q * out_len /\ out_len <= MAX_OUTPUT_LEN BY RsLens
<1> DEFINE qi == q * i
<1>3. qi \in Nat BY <1>1
<1>4. qi + q <= q * out_len
  <2>1. i * q + q <= out_len * q BY <1>1, Multiples
  <2> QED BY <1>1, <2>1
<1> HIDE DEF qi
<1> DEFINE n1 == qi \div p   r == qi % p
<1>5. r \in 0 .. p - 1 /\ qi = p * n1 + r /\ n1 \in Nat BY <1>1, <1>3, DivMod
<1> HIDE DEF n1, r
<1>6. p * n1 = n1 * p /\ n1 * p \in Nat /\ q * out_len \in Nat BY <1>1, <1>5
<1>7. n1 * p < in_len * p
  <2> DEFINE np == n1 * p   qo == q * out_len
  <2>1. np \in Nat /\ qo \in Nat /\ qi = np + r /\ qi + q <= qo BY <1>4, <1>5, <1>6
  <2>2. np < qo
    <3> HIDE DEF np, qo
    <3> QED BY <1>1, <1>5, <2>1
  <2> QED BY <1>2, <2>2
<1>8. n1 < in_len BY <1>1, <1>5, <1>7, Scaled
<1>9. i \in 0 .. MAX_OUTPUT_LEN - 1
  <2>1. MAX_OUTPUT_LEN \in Nat BY SamplesAssumption DEF Rs!ResamplerAssumption
  <2> QED BY <1>1, <1>2, <2>1
<1>10. /\ in_index = [c \in 0 .. MAX_OUTPUT_LEN - 1 |-> (q * c) \div p]
       /\ out_path = [c \in 0 .. MAX_OUTPUT_LEN - 1 |-> (q * c) % p]
  BY DEF RsTyped, Rs!InitPaths
<1>11. in_index[i] = (q * i) \div p /\ out_path[i] = (q * i) % p
       /\ i \in DOMAIN in_index /\ i \in DOMAIN out_path
  BY <1>9, <1>10, Zenon
<1>12. n1 * p + r = qi BY <1>5, <1>6
<1>13. n1 = (q * i) \div p /\ r = (q * i) % p BY DEF n1, r, qi
<1>14. n1 \in 0 .. in_len - 1 BY <1>1, <1>5, <1>8
<1>15. qi = q * i BY DEF qi
<1> QED BY <1>5, <1>11, <1>12, <1>13, <1>14, <1>15, Zenon

LEMMA RsSample ==
    ASSUME RsTyped, NEW x, IsBlock(x), NEW i \in -filt_len .. in_len - 1
    PROVE  /\ x[i] = rotated * in_len + i \/ x[i] = -1
           /\ x[i] # -1 => x[i] = rotated * in_len + i /\ x[i] \in Nat
           /\ rotated * in_len + i \in Nat => x[i] = rotated * in_len + i
<1>1. /\ rotated \in Nat /\ in_len \in Nat \ {0} /\ filt_len \in Nat \ {0} /\ filt_len <= in_len
      /\ x[i] = IF i < 0 /\ rotated = 0 THEN -1 ELSE rotated * in_len + i
  BY DEF RsTyped, IsBlock
<1>2. rotated * in_len \in Nat /\ (rotated = 0 => rotated * in_len = 0) BY <1>1
<1>3. rotated # 0 => rotated * in_len >= in_len
  <2> SUFFICES ASSUME rotated # 0 PROVE rotated * in_len >= in_len OBVIOUS
  <2>1. 0 * in_len + in_len <= rotated * in_len BY <1>1, Multiples
  <2> QED BY <1>1, <1>2, <2>1
<1> DEFINE base == rotated * in_len
<1>4. /\ base \in Nat /\ (rotated = 0 => base = 0) /\ (rotated # 0 => base >= in_len)
      /\ x[i] = IF i < 0 /\ rotated = 0 THEN -1 ELSE base + i
  BY <1>1, <1>2, <1>3
<1>5. /\ x[i] = base + i \/ x[i] = -1
      /\ x[i] # -1 => x[i] = base + i /\ x[i] \in Nat
      /\ base + i \in Nat => x[i] = base + i
  <2> HIDE DEF base
  <2> QED BY <1>1, <1>4
<1> QED BY <1>5

\* The filter of output i ends at the sample that the rates give.
LEMMA RsSum ==
    ASSUME RsTyped, Rs!check_vec_len, NEW i \in 0 .. out_len - 1
    PROVE  /\ rotated * in_len + ((q * i) \div p) \in Nat
           /\ (rotated * in_len + ((q * i) \div p)) * p + ((q * i) % p)
                = q * (rotated * out_len + i)
<1>1. /\ p \in Nat \ {0} /\ q \in Nat \ {0} /\ in_len \in Nat /\ out_len \in Nat /\ i \in Nat
      /\ rotated \in Nat
  BY DEF RsTyped
<1> DEFINE m == (q * i) \div p   r == (q * i) % p
<1>2. m \in Nat /\ r \in Nat /\ m * p + r = q * i /\ in_len * p = q * out_len
  BY <1>1, RsPlace, RsLens
<1> HIDE DEF m, r
<1>3. (rotated * in_len + m) * p = rotated * (in_len * p) + m * p /\ rotated * in_len + m \in Nat
  BY <1>1, <1>2
<1>4. rotated * (q * out_len) + q * i = q * (rotated * out_len + i) BY <1>1
<1> DEFINE a == rotated * (q * out_len)   mp == m * p   qi == q * i
<1>5. a \in Nat /\ mp \in Nat /\ mp + r = qi BY <1>1, <1>2
<1>6. (a + mp) + r = a + qi
  <2> HIDE DEF a, mp, qi
  <2> QED BY <1>2, <1>5
<1> QED BY <1>2, <1>3, <1>4, <1>6 DEF m, r

LEMMA RsOutput ==
    ASSUME RsTyped, Rs!check_vec_len, NEW x, IsBlock(x), NEW i \in 0 .. out_len - 1
    PROVE  Rs!Sounding(Rs!Convolved(x, in_index[i], partitions[out_path[i]]))
             = StreamAt(rotated * out_len + i)
<1> DEFINE m == (q * i) \div p   r == (q * i) % p   E == rotated * in_len + m
           taps == partitions[r]   o == rotated * out_len + i
<1>1. /\ p \in Nat \ {0} /\ filt_len \in Nat \ {0} /\ in_len \in Nat /\ rotated \in Nat
      /\ partitions = [c \in 0 .. p - 1 |->
                           [j \in 0 .. filt_len - 1 |-> (filt_len - 1 - j) * p + c]]
  BY DEF RsTyped, Rs!InitFilters
<1>2. /\ m \in 0 .. in_len - 1 /\ r \in 0 .. p - 1 /\ in_index[i] = m /\ out_path[i] = r
      /\ E \in Nat /\ E * p + r = q * o
  BY RsPlace, RsSum
<1>3. \A j \in 0 .. filt_len - 1 : taps[j] = (filt_len - 1 - j) * p + r BY <1>1, <1>2
<1>4. E = rotated * in_len + m /\ rotated * in_len \in Nat BY <1>1
<1> HIDE DEF m, r, E, taps, o
<1>a. /\ p \in Nat \ {0} /\ filt_len \in Nat \ {0} /\ r \in 0 .. p - 1 /\ E \in Int /\ E \in Nat
      /\ in_len \in Nat /\ m \in 0 .. in_len - 1
  BY <1>1, <1>2
<1>b. \A j \in 0 .. filt_len - 1 : m - (filt_len - 1) + j \in -filt_len .. in_len - 1 BY <1>a
<1>c. E * p + r = q * o BY <1>2
<1> DEFINE sums == {<<x[m - (filt_len - 1) + j], taps[j]>> : j \in 0 .. filt_len - 1}
<1>5. ASSUME NEW e \in sums, e[1] # -1 PROVE e \in StreamAt(o)
  <2>1. PICK j \in 0 .. filt_len - 1 : e = <<x[m - (filt_len - 1) + j], taps[j]>> BY <1>5
  <2>2. m - (filt_len - 1) + j \in -filt_len .. in_len - 1 BY <1>b
  <2>3. x[m - (filt_len - 1) + j] # -1 BY <1>5, <2>1
  <2>4. /\ x[m - (filt_len - 1) + j] = rotated * in_len + (m - (filt_len - 1) + j)
        /\ x[m - (filt_len - 1) + j] \in Nat
    BY <2>2, <2>3, RsSample
  <2>5. x[m - (filt_len - 1) + j] = E - (filt_len - 1) + j BY <1>1, <1>2, <1>4, <2>4
  <2>6. /\ (filt_len - 1 - j) * p + r \in 0 .. p * filt_len - 1
        /\ (E - (filt_len - 1) + j) * p + ((filt_len - 1 - j) * p + r) = E * p + r
    BY <1>a, TapPlace
  <2>7. e = <<E - (filt_len - 1) + j, (filt_len - 1 - j) * p + r>> /\ e[1] \in Nat
    BY <1>3, <2>1, <2>4, <2>5
  <2> QED BY <1>2, <2>6, <2>7 DEF StreamAt
<1>6. ASSUME NEW e \in StreamAt(o) PROVE e \in sums /\ e[1] # -1
  <2>1. PICK s \in Nat, k \in 0 .. p * filt_len - 1 : e = <<s, k>> /\ s * p + k = E * p + r
    BY <1>2, <1>6 DEF StreamAt
  <2>0. s \in Int /\ k \in 0 .. p * filt_len - 1 /\ s * p + k = E * p + r BY <2>1
  <2>2. PICK j \in 0 .. filt_len - 1 : s = E - (filt_len - 1) + j /\ k = (filt_len - 1 - j) * p + r
    BY <1>a, <2>0, PlaceTap
  <2>3. m - (filt_len - 1) + j \in -filt_len .. in_len - 1 BY <1>b
  <2>4. rotated * in_len + (m - (filt_len - 1) + j) = s BY <1>1, <1>2, <1>4, <2>2
  <2>5. x[m - (filt_len - 1) + j] = s BY <2>3, <2>4, RsSample
  <2>6. e = <<x[m - (filt_len - 1) + j], taps[j]>> BY <1>3, <2>1, <2>2, <2>5
  <2>7. e \in sums BY <2>6
  <2> QED BY <2>1, <2>7
<1>7. Rs!Convolved(x, m, taps) = sums BY DEF Rs!Convolved
<1>8. Rs!Sounding(sums) = {e \in sums : e[1] # -1} BY DEF Rs!Sounding, Rs!Silence
<1> HIDE DEF sums
<1>9. {e \in sums : e[1] # -1} = StreamAt(o) BY <1>5, <1>6
<1> QED BY <1>2, <1>7, <1>8, <1>9 DEF o, taps

LEMMA RsIdeal ==
    ASSUME RsTyped, Rs!check_vec_len, NEW o \in 0 .. rotated * out_len - 1
    PROVE  StreamAt(o) = Rs!Ideal(o)
<1>1. /\ p \in Nat \ {0} /\ q \in Nat \ {0} /\ in_len \in Nat /\ out_len \in Nat /\ rotated \in Nat
  BY DEF RsTyped
<1> DEFINE end == rotated * in_len   stop == rotated * out_len
<1>2. end \in Nat /\ stop \in Nat /\ o < stop /\ o \in Nat BY <1>1
<1>3. end * p = q * stop
  <2>1. in_len * p = q * out_len BY RsLens
  <2>2. end * p = rotated * (in_len * p) /\ q * stop = rotated * (q * out_len) BY <1>1
  <2> QED BY <2>1, <2>2
<1> HIDE DEF end, stop
<1>4. o * q < stop * q
  <2>1. o * q + q <= stop * q BY <1>1, <1>2, Multiples
  <2>2. o * q \in Int /\ stop * q \in Int BY <1>1, <1>2
  <2> QED BY <1>1, <2>1, <2>2
<1>5. ASSUME NEW s \in Nat, NEW k \in Nat, s * p + k = q * o PROVE s \in 0 .. end
  <2>1. s * p < end * p
    <3> DEFINE sp == s * p   oq == o * q   ep == end * p
    <3>1. /\ sp \in Nat /\ oq \in Nat /\ ep \in Nat /\ sp + k = oq /\ oq < ep
      BY <1>1, <1>2, <1>3, <1>4, <1>5
    <3>2. sp < ep
      <4> HIDE DEF sp, oq, ep
      <4> QED BY <3>1
    <3> QED BY <3>2
  <2> QED BY <1>1, <1>2, <2>1, Scaled
<1>6. Rs!Ideal(o) = {x \in (0 .. end) \X (0 .. p * filt_len - 1) : x[1] * p + x[2] = q * o}
  BY DEF Rs!Ideal, end
<1>7. \A s \in Nat, k \in 0 .. p * filt_len - 1 : s * p + k = q * o => s \in 0 .. end
  <2>1. \A k \in 0 .. p * filt_len - 1 : k \in Nat OBVIOUS
  <2> QED BY <1>5, <2>1
<1>8. \A s \in 0 .. end : s \in Nat OBVIOUS
<1> QED BY <1>6, <1>7, <1>8 DEF StreamAt

LEMMA RsInit == Rs!Init => RsIInv
<1> SUFFICES ASSUME Rs!Init PROVE RsIInv OBVIOUS
<1>1. /\ p \in Nat \ {0} /\ q \in Nat \ {0} /\ filt_len \in Nat \ {0}
  <2>1. MaxRate \in Nat /\ MaxTaps \in Nat BY SamplesAssumption DEF Rs!ResamplerAssumption
  <2> QED BY <2>1 DEF Rs!Init
<1>2. in_len \in Nat \ {0} /\ out_len \in Nat \ {0}
  <2>1. MaxBlock \in Nat BY SamplesAssumption DEF Rs!ResamplerAssumption
  <2>2. PICK k \in 1 .. MaxBlock : in_len \in {k * q, k * q + 1} /\ out_len = k * p
    BY DEF Rs!Init
  <2>3. k \in Nat \ {0} BY <2>1
  <2>4. k * q \in Nat \ {0} /\ k * p \in Nat \ {0}
    <3>1. 0 * q + q <= k * q /\ 0 * p + p <= k * p BY <1>1, <2>3, Multiples
    <3> QED BY <1>1, <2>3, <3>1
  <2> QED BY <2>2, <2>4
<1>3. filt_len <= in_len BY <1>1, <1>2 DEF Rs!Init
<1>4. RsTyped BY <1>1, <1>2, <1>3 DEF Rs!Init, RsTyped
<1>5. RsHistory
  <2>1. buf = [i \in -filt_len .. in_len - 1 |-> Rs!Silence] /\ rotated = 0 BY DEF Rs!Init
  <2>2. \A i \in -filt_len .. -1 : i \in -filt_len .. in_len - 1 BY <1>1, <1>2
  <2> QED BY <2>1, <2>2 DEF RsHistory
<1>6. RsStream
  <2>1. resampled = <<>> /\ rotated * out_len = 0 BY <1>2 DEF Rs!Init
  <2> QED BY <2>1 DEF RsStream
<1> QED BY <1>4, <1>5, <1>6 DEF RsIInv

\* The outputs of a block.
LEMMA RsBlock ==
    ASSUME RsTyped, NEW x, IsBlock(x)
    PROVE  /\ Rs!rotate(x) \in Seq(Outputs) /\ Len(Rs!rotate(x)) = out_len
           /\ Rs!check_vec_len =>
                \A i \in 1 .. out_len :
                    Rs!Sounding(Rs!rotate(x)[i]) = StreamAt(rotated * out_len + (i - 1))
           /\ ~Rs!check_vec_len => \A i \in 1 .. out_len : Rs!rotate(x)[i] = Rs!Unwritten
<1>1. out_len \in Nat /\ filt_len \in Nat \ {0} /\ in_len \in Nat /\ p \in Nat \ {0} BY DEF RsTyped
<1> DEFINE output(i) == Rs!Convolved(x, in_index[i - 1], partitions[out_path[i - 1]])
<1>2. Rs!rotate(x) = [i \in 1 .. out_len |-> IF Rs!check_vec_len THEN output(i) ELSE Rs!Unwritten]
  BY DEF Rs!rotate
<1>3. ASSUME Rs!check_vec_len, NEW i \in 1 .. out_len PROVE output(i) \in SUBSET (Int \X Int)
  <2> DEFINE m == (q * (i - 1)) \div p   r == (q * (i - 1)) % p
  <2>1. i - 1 \in 0 .. out_len - 1 BY <1>1
  <2>2. m \in 0 .. in_len - 1 /\ r \in 0 .. p - 1 /\ in_index[i - 1] = m /\ out_path[i - 1] = r
    BY <1>3, <2>1, RsPlace
  <2> HIDE DEF m, r
  <2>3. ASSUME NEW j \in 0 .. filt_len - 1
        PROVE  x[m - (filt_len - 1) + j] \in Int /\ partitions[r][j] \in Int
    <3>1. m - (filt_len - 1) + j \in -filt_len .. in_len - 1
      <4>1. m \in 0 .. in_len - 1 BY <2>2
      <4> QED BY <1>1, <4>1
    <3>2. rotated * in_len + (m - (filt_len - 1) + j) \in Int
      <4>1. rotated * in_len \in Int /\ m \in Int BY <2>2 DEF RsTyped
      <4> QED BY <1>1, <4>1
    <3>3. x[m - (filt_len - 1) + j] \in Int BY <3>1, <3>2, RsSample
    <3>4. partitions[r][j] = (filt_len - 1 - j) * p + r BY <2>2 DEF RsTyped, Rs!InitFilters
    <3>5. (filt_len - 1 - j) * p + r \in Int
      <4>1. filt_len - 1 - j \in Int /\ r \in Int BY <1>1, <2>2
      <4> QED BY <1>1, <4>1
    <3> QED BY <3>3, <3>4, <3>5
  <2>4. output(i) = {<<x[m - (filt_len - 1) + j], partitions[r][j]>> : j \in 0 .. filt_len - 1}
    BY <2>2 DEF Rs!Convolved
  <2> HIDE DEF output
  <2> QED BY <2>3, <2>4
<1>4. ASSUME Rs!check_vec_len, NEW i \in 1 .. out_len
      PROVE  Rs!Sounding(output(i)) = StreamAt(rotated * out_len + (i - 1))
  <2>1. i - 1 \in 0 .. out_len - 1 BY <1>1
  <2> QED BY <1>4, <2>1, RsOutput
<1> HIDE DEF output
<1>5. Rs!rotate(x) \in [1 .. out_len -> Outputs] BY <1>2, <1>3 DEF Outputs
<1>6. Rs!rotate(x) \in Seq(Outputs) /\ Len(Rs!rotate(x)) = out_len
  <2>1. DOMAIN Rs!rotate(x) = 1 .. out_len BY <1>5
  <2> QED BY <1>1, <1>5, <2>1, LenProperties
<1> QED BY <1>2, <1>4, <1>6

LEMMA RsPull == ASSUME RsIInv, Rs!PullBuffer PROVE RsIInv'
<1>1. RsTyped /\ RsHistory /\ RsStream BY DEF RsIInv
<1>2. UNCHANGED <<p, q, filt_len, in_len, out_len, in_index, out_path, partitions>>
      /\ rotated' = rotated + 1
  BY DEF Rs!PullBuffer
<1>3. RsTyped' BY <1>1, <1>2 DEF RsTyped, Rs!InitPaths, Rs!InitFilters
<1> DEFINE x == [i \in DOMAIN buf |-> IF i < 0 THEN buf[i] ELSE rotated * in_len + i]
<1>4. resampled' = resampled \o Rs!rotate(x) /\ buf' = Rs!updateHistory(x) BY DEF Rs!PullBuffer
<1>5. /\ rotated \in Nat /\ in_len \in Nat \ {0} /\ filt_len \in Nat \ {0} /\ filt_len <= in_len
      /\ out_len \in Nat /\ DOMAIN buf = -filt_len .. in_len - 1
  BY <1>1 DEF RsTyped, RsHistory
<1>6. DOMAIN x = -filt_len .. in_len - 1
      /\ \A i \in -filt_len .. in_len - 1 :
            x[i] = IF i < 0 /\ rotated = 0 THEN -1 ELSE rotated * in_len + i
  <2>1. DOMAIN x = DOMAIN buf OBVIOUS
  <2>2. ASSUME NEW i \in -filt_len .. in_len - 1
        PROVE  x[i] = IF i < 0 /\ rotated = 0 THEN -1 ELSE rotated * in_len + i
    <3>1. x[i] = IF i < 0 THEN buf[i] ELSE rotated * in_len + i BY <1>5
    <3>2. i < 0 => i \in -filt_len .. -1 BY <1>5
    <3>3. i < 0 => buf[i] = IF rotated = 0 THEN -1 ELSE rotated * in_len + i
      BY <1>1, <3>2 DEF RsHistory, Rs!Silence
    <3> QED BY <3>1, <3>3
  <2> QED BY <1>5, <2>1, <2>2
<1>7. IsBlock(x) BY <1>6, Zenon DEF IsBlock
<1> HIDE DEF x
<1>8. RsHistory'
  <2>1. buf' = [i \in DOMAIN x |-> IF i < 0 THEN x[in_len + i] ELSE x[i]]
    BY <1>4 DEF Rs!updateHistory
  <2>2. ASSUME NEW i \in -filt_len .. -1 PROVE buf'[i] = rotated' * in_len + i
    <3>1. /\ i \in -filt_len .. in_len - 1 /\ i < 0 /\ in_len + i \in -filt_len .. in_len - 1
          /\ ~(in_len + i < 0)
      BY <1>5
    <3>2. buf'[i] = x[in_len + i] BY <1>6, <2>1, <3>1
    <3>3. x[in_len + i] = rotated * in_len + (in_len + i) BY <1>6, <3>1
    <3>4. rotated' * in_len = rotated * in_len + in_len /\ rotated * in_len \in Int BY <1>2, <1>5
    <3> QED BY <1>5, <3>2, <3>3, <3>4
  <2>3. DOMAIN buf' = -filt_len .. in_len - 1 BY <1>6, <2>1
  <2>4. rotated' # 0 BY <1>2, <1>5
  <2> QED BY <1>2, <2>2, <2>3, <2>4 DEF RsHistory
<1>9. RsStream'
  <2> DEFINE more == Rs!rotate(x)
  <2>1. /\ more \in Seq(Outputs) /\ Len(more) = out_len
        /\ Rs!check_vec_len =>
             \A i \in 1 .. out_len : Rs!Sounding(more[i]) = StreamAt(rotated * out_len + (i - 1))
        /\ ~Rs!check_vec_len => \A i \in 1 .. out_len : more[i] = Rs!Unwritten
    BY <1>1, <1>7, RsBlock
  <2>2. resampled \in Seq(Outputs) /\ Len(resampled) = rotated * out_len BY <1>1 DEF RsStream
  <2> HIDE DEF more
  <2>3. resampled' = resampled \o more BY <1>4 DEF more
  <2>4. resampled' \in Seq(Outputs) /\ Len(resampled') = rotated * out_len + out_len
    BY <2>1, <2>2, <2>3, ConcatProperties
  <2>5. rotated' * out_len = rotated * out_len + out_len BY <1>2, <1>5
  <2>6. ASSUME NEW o \in 1 .. Len(resampled')
        PROVE  \/ o \in 1 .. Len(resampled) /\ resampled'[o] = resampled[o]
               \/ \E i \in 1 .. out_len :
                     resampled'[o] = more[i] /\ o - 1 = rotated * out_len + (i - 1)
    <3> DEFINE had == rotated * out_len
    <3>1. had \in Nat /\ Len(resampled) = had /\ o \in 1 .. had + out_len BY <1>5, <2>2, <2>4
    <3> HIDE DEF had
    <3>2. CASE o <= had BY <2>1, <2>2, <2>3, <3>1, <3>2, ConcatProperties
    <3>3. CASE o > had
      <4>1. o - had \in 1 .. out_len /\ o - 1 = had + ((o - had) - 1) BY <1>5, <3>1, <3>3
      <4>2. resampled'[o] = more[o - had] BY <2>1, <2>2, <2>3, <3>1, <3>3, ConcatProperties
      <4> QED BY <4>1, <4>2 DEF had
    <3> QED BY <3>1, <3>2, <3>3
  <2>7. Rs!check_vec_len' = Rs!check_vec_len BY <1>2 DEF Rs!check_vec_len
  <2>8. ASSUME NEW s PROVE Rs!Sounding(s)' = Rs!Sounding(s) BY DEF Rs!Sounding
  <2>9. ASSUME Rs!check_vec_len, NEW o \in 1 .. Len(resampled')
        PROVE  Rs!Sounding(resampled'[o]) = StreamAt(o - 1)
    <3>1. CASE o \in 1 .. Len(resampled) /\ resampled'[o] = resampled[o]
      BY <1>1, <2>9, <3>1 DEF RsStream
    <3>2. CASE \E i \in 1 .. out_len :
                  resampled'[o] = more[i] /\ o - 1 = rotated * out_len + (i - 1)
      BY <2>1, <2>9, <3>2
    <3> QED BY <2>6, <3>1, <3>2
  <2>10. ASSUME ~Rs!check_vec_len, NEW o \in 1 .. Len(resampled')
         PROVE  resampled'[o] = Rs!Unwritten
    BY <1>1, <2>1, <2>6, <2>10 DEF RsStream
  <2>11. \A o \in 1 .. Len(resampled') : StreamAt(o - 1)' = StreamAt(o - 1) BY <1>2 DEF StreamAt
  <2>12. Outputs' = Outputs /\ Rs!Unwritten' = Rs!Unwritten BY DEF Outputs, Rs!Unwritten
  <2>13. (\A o \in 1 .. Len(resampled) : Rs!Sounding(resampled[o]) = StreamAt(o - 1))'
            <=> \A o \in 1 .. Len(resampled') : Rs!Sounding(resampled'[o]) = StreamAt(o - 1)
    BY <1>2 DEF Rs!Sounding, StreamAt
  <2> QED BY <1>2, <2>4, <2>5, <2>7, <2>9, <2>10, <2>12, <2>13 DEF RsStream
<1> QED BY <1>3, <1>8, <1>9 DEF RsIInv

LEMMA RsStep == RsIInv /\ [Rs!Next]_rsVars => RsIInv'
<1> SUFFICES ASSUME RsIInv, [Rs!Next]_rsVars PROVE RsIInv' OBVIOUS
<1>1. CASE Rs!PullBuffer BY <1>1, RsPull
<1>2. CASE UNCHANGED rsVars
  BY <1>2 DEF RsIInv, RsTyped, RsHistory, RsStream, rsVars, StreamAt, Outputs, Rs!check_vec_len,
     Rs!Sounding, Rs!Unwritten, Rs!Silence, Rs!InitPaths, Rs!InitFilters
<1> QED BY <1>1, <1>2 DEF Rs!Next

LEMMA RsHolds == RsIInv => Rs!BlocksAreStream /\ Rs!InsideBlock
<1> SUFFICES ASSUME RsIInv PROVE Rs!BlocksAreStream /\ Rs!InsideBlock OBVIOUS
<1>1. RsTyped /\ RsStream BY DEF RsIInv
<1>2. ASSUME Rs!check_vec_len, NEW o \in 1 .. Len(resampled)
      PROVE  Rs!Sounding(resampled[o]) = Rs!Ideal(o - 1)
  <2>1. rotated * out_len \in Nat /\ Len(resampled) = rotated * out_len
    BY <1>1 DEF RsTyped, RsStream
  <2>2. o - 1 \in 0 .. rotated * out_len - 1
    <3> DEFINE end == rotated * out_len
    <3>1. end \in Nat /\ o \in 1 .. end BY <2>1
    <3>2. o - 1 \in 0 .. end - 1
      <4> HIDE DEF end
      <4> QED BY <3>1
    <3> QED BY <3>2
  <2>3. StreamAt(o - 1) = Rs!Ideal(o - 1) BY <1>1, <1>2, <2>2, RsIdeal
  <2> QED BY <1>1, <1>2, <2>3 DEF RsStream
<1>3. ASSUME Rs!check_vec_len, NEW i \in 0 .. out_len - 1
      PROVE  i \in DOMAIN in_index /\ in_index[i] < in_len
  <2>1. in_len \in Nat BY <1>1 DEF RsTyped
  <2>2. i \in DOMAIN in_index /\ in_index[i] = (q * i) \div p /\ (q * i) \div p \in 0 .. in_len - 1
    BY <1>1, <1>3, RsPlace
  <2> QED BY <2>1, <2>2
<1>4. ASSUME ~Rs!check_vec_len, NEW o \in 1 .. Len(resampled) PROVE resampled[o] = Rs!Unwritten
  BY <1>1, <1>4 DEF RsStream
<1> QED BY <1>2, <1>3, <1>4 DEF Rs!BlocksAreStream, Rs!InsideBlock

-----------------------------------------------------------------------------
(* The filter banks (Bank in MCSamples)                                    *)

\* What branch b is given at time t: of the wide stream, or of the active
\* channels.
InBranch(b, t) ==
    IF synthesis
    THEN <<b, [c \in Bank!Chans |-> IF c \in active THEN <<c, t>> ELSE Bank!Zero]>>
    ELSE <<t * MCHANS + (MCHANS - 1 - b)>>

\* The products of branch b at time t.
BranchSum(b, t) ==
    {<<InBranch(b, e[1]), e[2]>> :
        e \in {z \in Nat \X (0 .. MCHANS * hLen - 1) : z[1] * MCHANS + z[2] = t * MCHANS + b}}

BankTyped ==
    /\ synthesis \in BOOLEAN /\ hLen \in Nat \ {0} /\ blockLen \in Nat /\ hLen <= blockLen
    /\ subFilters = Bank!InitFilters(hLen) /\ blocks \in Nat

\* The history is the end of the block before.
BankHistory ==
    \A b \in Bank!Chans, i \in 0 .. hLen - 1 :
        hist[b][i] = IF blocks = 0 THEN Bank!Zero
                     ELSE InBranch(b, blocks * blockLen - hLen + i)

BankIInv ==
    /\ BankTyped /\ BankHistory
    /\ Bank!ChannelizedStream /\ Bank!SynthesizedStream

\* A block in its branches, with the history in front.
InBranches(x) ==
    \A b \in Bank!Chans :
        /\ DOMAIN x[b] = -hLen .. blockLen - 1
        /\ \A i \in -hLen .. blockLen - 1 :
            x[b][i] = IF i < 0 /\ blocks = 0 THEN Bank!Zero ELSE InBranch(b, blocks * blockLen + i)

LEMMA BankConstants == MCHANS \in Nat \ {0} /\ Bank!Chans = 0 .. MCHANS - 1
BY SamplesAssumption DEF Bank!BankAssumption, Bank!Chans

LEMMA BranchSounds == ASSUME NEW b, NEW t PROVE InBranch(b, t) # Bank!Zero
BY DEF InBranch, Bank!Zero

LEMMA BranchSample ==
    ASSUME BankTyped, NEW x, InBranches(x), NEW b \in Bank!Chans, NEW i \in -hLen .. blockLen - 1
    PROVE  /\ x[b][i] # Bank!Zero =>
                x[b][i] = InBranch(b, blocks * blockLen + i) /\ blocks * blockLen + i \in Nat
           /\ blocks * blockLen + i \in Nat => x[b][i] = InBranch(b, blocks * blockLen + i)
<1>1. blocks \in Nat /\ blockLen \in Nat \ {0} /\ hLen \in Nat \ {0} /\ hLen <= blockLen
  BY DEF BankTyped
<1>2. x[b][i] = IF i < 0 /\ blocks = 0 THEN Bank!Zero ELSE InBranch(b, blocks * blockLen + i)
  BY DEF InBranches
<1>3. blocks * blockLen \in Nat /\ (blocks = 0 => blocks * blockLen = 0) BY <1>1
<1>4. blocks # 0 => blocks * blockLen >= blockLen
  <2> SUFFICES ASSUME blocks # 0 PROVE blocks * blockLen >= blockLen OBVIOUS
  <2>1. 0 * blockLen + blockLen <= blocks * blockLen BY <1>1, Multiples
  <2> QED BY <1>1, <1>3, <2>1
<1>5. /\ i < 0 /\ blocks = 0 => blocks * blockLen + i \notin Nat
      /\ ~(i < 0 /\ blocks = 0) => blocks * blockLen + i \in Nat
  <2> DEFINE base == blocks * blockLen
  <2>1. base \in Nat /\ (blocks = 0 => base = 0) /\ (blocks # 0 => base >= blockLen) BY <1>3, <1>4
  <2> HIDE DEF base
  <2>2. (i < 0 /\ blocks = 0 => base + i \notin Nat)
        /\ (~(i < 0 /\ blocks = 0) => base + i \in Nat)
    BY <1>1, <2>1
  <2> QED BY <2>2 DEF base
<1> QED BY <1>2, <1>5, Zenon

\* The filter of a branch sums what the stream has for it.
LEMMA BranchFiltered ==
    ASSUME BankTyped, NEW x, InBranches(x), NEW b \in 0 .. MCHANS - 1, NEW i \in 0 .. blockLen - 1
    PROVE  Bank!Sounding(Bank!Convolved(x, b)[i]) = BranchSum(b, blocks * blockLen + i)
<1> DEFINE H == blocks * blockLen + i   taps == subFilters[b]   w == MCHANS
<1>1. /\ w \in Nat \ {0} /\ b \in 0 .. w - 1 /\ hLen \in Nat \ {0} /\ blockLen \in Nat
      /\ i \in 0 .. blockLen - 1 /\ blocks * blockLen \in Nat /\ H \in Int
  BY BankConstants DEF BankTyped
<1>2. \A j \in 0 .. hLen - 1 : taps[j] = (hLen - 1 - j) * w + b
  BY <1>1, BankConstants DEF BankTyped, Bank!InitFilters
<1>3. H = blocks * blockLen + i OBVIOUS
<1>b. \A j \in 0 .. hLen - 1 : i - (hLen - 1) + j \in -hLen .. blockLen - 1 BY <1>1
<1>4. \A j \in 0 .. hLen - 1 :
        blocks * blockLen + (i - (hLen - 1) + j) = H - (hLen - 1) + j
  <2> DEFINE base == blocks * blockLen
  <2>1. base \in Int BY <1>1
  <2> HIDE DEF base
  <2>2. \A j \in 0 .. hLen - 1 : base + (i - (hLen - 1) + j) = (base + i) - (hLen - 1) + j
    BY <1>1, <2>1
  <2> QED BY <2>2 DEF base
<1> DEFINE sums == {<<x[b][i - (hLen - 1) + j], taps[j]>> : j \in 0 .. hLen - 1}
<1>5. Bank!Sounding(Bank!Convolved(x, b)[i]) = {e \in sums : e[1] # Bank!Zero}
  BY DEF Bank!Sounding, Bank!Convolved, Bank!Times
<1>6. BranchSum(b, H) =
        {<<InBranch(b, e[1]), e[2]>> :
            e \in {z \in Nat \X (0 .. w * hLen - 1) : z[1] * w + z[2] = H * w + b}}
  BY DEF BranchSum
<1>7. \A j \in 0 .. hLen - 1 : x[b][i - (hLen - 1) + j] # Bank!Zero =>
            /\ x[b][i - (hLen - 1) + j] = InBranch(b, H - (hLen - 1) + j)
            /\ H - (hLen - 1) + j \in Nat
  BY <1>b, <1>4, BranchSample, BankConstants
<1>8. \A j \in 0 .. hLen - 1 : H - (hLen - 1) + j \in Nat =>
            x[b][i - (hLen - 1) + j] = InBranch(b, H - (hLen - 1) + j)
  BY <1>b, <1>4, BranchSample, BankConstants
<1>a. w \in Nat \ {0} /\ hLen \in Nat \ {0} /\ b \in 0 .. w - 1 /\ H \in Int BY <1>1
<1> HIDE DEF H, taps, w
<1>p. \A s \in Int, k \in 0 .. w * hLen - 1 : s * w + k = H * w + b =>
        \E j \in 0 .. hLen - 1 : s = H - (hLen - 1) + j /\ k = (hLen - 1 - j) * w + b
  <2> HIDE DEF sums
  <2>1. w \in Nat \ {0} BY <1>a
  <2>2. hLen \in Nat \ {0} BY <1>a
  <2>3. b \in 0 .. w - 1 BY <1>a
  <2>4. H \in Int BY <1>a
  <2>5. \A L \in Nat \ {0}, u \in Int : \A r \in 0 .. w - 1 :
          \A s \in Int, k \in 0 .. w * L - 1 : s * w + k = u * w + r =>
            \E j \in 0 .. L - 1 : s = u - (L - 1) + j /\ k = (L - 1 - j) * w + r
    BY <2>1, PlaceTaps, Zenon
  <2>6. \A u \in Int : \A r \in 0 .. w - 1 :
          \A s \in Int, k \in 0 .. w * hLen - 1 : s * w + k = u * w + r =>
            \E j \in 0 .. hLen - 1 : s = u - (hLen - 1) + j /\ k = (hLen - 1 - j) * w + r
    BY <2>2, <2>5, Zenon
  <2>7. \A r \in 0 .. w - 1 :
          \A s \in Int, k \in 0 .. w * hLen - 1 : s * w + k = H * w + r =>
            \E j \in 0 .. hLen - 1 : s = H - (hLen - 1) + j /\ k = (hLen - 1 - j) * w + r
    BY <2>4, <2>6, Zenon
  <2> QED BY <2>3, <2>7, Zenon
<1>9. ASSUME NEW e \in sums, e[1] # Bank!Zero PROVE e \in BranchSum(b, H)
  <2>1. PICK j \in 0 .. hLen - 1 : e = <<x[b][i - (hLen - 1) + j], taps[j]>> BY <1>9
  <2>2. /\ x[b][i - (hLen - 1) + j] = InBranch(b, H - (hLen - 1) + j)
        /\ H - (hLen - 1) + j \in Nat
    BY <1>7, <1>9, <2>1
  <2>3. /\ (hLen - 1 - j) * w + b \in 0 .. w * hLen - 1
        /\ (H - (hLen - 1) + j) * w + ((hLen - 1 - j) * w + b) = H * w + b
    BY <1>a, TapPlace
  <2>4. PICK s \in Nat, k \in 0 .. w * hLen - 1 :
            s = H - (hLen - 1) + j /\ k = (hLen - 1 - j) * w + b
    BY <2>2, <2>3
  <2>5. e = <<InBranch(b, s), k>> /\ s * w + k = H * w + b BY <1>2, <2>1, <2>2, <2>3, <2>4
  <2>6. <<s, k>> \in {z \in Nat \X (0 .. w * hLen - 1) : z[1] * w + z[2] = H * w + b} BY <2>5
  <2> QED BY <1>6, <2>5, <2>6
<1>10. ASSUME NEW e \in BranchSum(b, H) PROVE e \in sums /\ e[1] # Bank!Zero
  <2>1. PICK s \in Nat, k \in 0 .. w * hLen - 1 :
            e = <<InBranch(b, s), k>> /\ s * w + k = H * w + b
    BY <1>6, <1>10
  <2>2. s \in Int /\ k \in 0 .. w * hLen - 1 /\ s * w + k = H * w + b BY <2>1
  <2>3. PICK j \in 0 .. hLen - 1 : s = H - (hLen - 1) + j /\ k = (hLen - 1 - j) * w + b
    BY <1>p, <2>2, Zenon
  <2>4. x[b][i - (hLen - 1) + j] = InBranch(b, s) /\ taps[j] = k BY <1>2, <1>8, <2>3
  <2> QED BY <2>1, <2>4, BranchSounds
<1> HIDE DEF sums
<1>11. {e \in sums : e[1] # Bank!Zero} = BranchSum(b, H) BY <1>9, <1>10
<1> QED BY <1>5, <1>11 DEF H

\* What the channelizer's branch sums is the wide input filtered by the
\* whole prototype.
LEMMA BranchIdeal ==
    ASSUME BankTyped, ~synthesis, NEW b \in 0 .. MCHANS - 1, NEW t \in Nat
    PROVE  BranchSum(b, t) = Bank!IdealBranch(b, t)
<1> DEFINE w == MCHANS   taps == 0 .. MCHANS * hLen - 1
           pairs == {z \in Nat \X taps : z[1] * w + z[2] = t * w + b}
           wide == {e \in (0 .. w * (t + 1)) \X taps : e[1] + e[2] = t * w + w - 1 /\ e[2] % w = b}
<1>1. w \in Nat \ {0} /\ b \in 0 .. w - 1 /\ hLen \in Nat \ {0} /\ b \in Nat
  BY BankConstants DEF BankTyped
<1>2. \A s : InBranch(b, s) = <<s * w + (w - 1 - b)>> BY DEF InBranch
<1>3. BranchSum(b, t) = {<<InBranch(b, z[1]), z[2]>> : z \in pairs} BY DEF BranchSum
<1>4. Bank!IdealBranch(b, t) = {<<<<e[1]>>, e[2]>> : e \in wide} BY DEF Bank!IdealBranch
<1>5. \A k \in taps : k \in Nat OBVIOUS
<1>6. w * (t + 1) = t * w + w /\ t * w \in Nat BY <1>1
<1> HIDE DEF w, taps
<1>7. ASSUME NEW z \in pairs
      PROVE  <<<<z[1] * w + (w - 1 - b)>>, z[2]>> \in {<<<<e[1]>>, e[2]>> : e \in wide}
  <2>1. PICK s \in Nat, k \in taps : z = <<s, k>> /\ s * w + k = t * w + b BY <1>7
  <2> DEFINE sw == s * w   tw == t * w
  <2>2. sw \in Nat /\ tw \in Nat /\ k \in Nat /\ sw + k = tw + b BY <1>1, <1>5, <1>6, <2>1
  <2>3. /\ sw + (w - 1 - b) \in 0 .. tw + w /\ (sw + (w - 1 - b)) + k = tw + w - 1
    <3> HIDE DEF sw, tw
    <3> QED BY <1>1, <2>2
  <2>4. k % w = b
    <3> DEFINE a == t - s
    <3>1. a * w = tw - sw /\ a \in Int BY <1>1
    <3>2. k = a * w + b
      <4> DEFINE aw == a * w
      <4>1. aw = tw - sw /\ aw \in Int BY <1>1, <3>1
      <4>2. k = aw + b
        <5> HIDE DEF aw, tw, sw
        <5> QED BY <1>1, <2>2, <4>1
      <4> QED BY <4>2
    <3>3. a \in Nat
      <4>1. (-1) * w < a * w
        <5> DEFINE aw == a * w
        <5>1. aw \in Int /\ k = aw + b /\ 0 <= k /\ (-1) * w = -w BY <1>1, <2>2, <3>1, <3>2
        <5>2. -w < aw
          <6> HIDE DEF aw
          <6> QED BY <1>1, <5>1
        <5> QED BY <5>1, <5>2
      <4>2. -1 < a
        <5> HIDE DEF a
        <5> QED BY <1>1, <3>1, <4>1, Scaled
      <4> QED BY <3>1, <4>2
    <3> HIDE DEF a
    <3>4. w \in Nat \ {0} BY <1>1
    <3>5. b \in 0 .. w - 1 BY <1>1
    <3>6. \A c \in Nat : \A r \in 0 .. w - 1 : (c * w + r) % w = r BY <3>4, PhaseOfTap, Zenon
    <3>7. \A r \in 0 .. w - 1 : (a * w + r) % w = r BY <3>3, <3>6, Zenon
    <3>8. (a * w + b) % w = b BY <3>5, <3>7, Zenon
    <3> QED BY <3>2, <3>8, Zenon
  <2>5. <<sw + (w - 1 - b), k>> \in wide BY <1>6, <2>3, <2>4
  <2> QED BY <2>1, <2>5
<1>8. ASSUME NEW e \in wide
      PROVE  <<<<e[1]>>, e[2]>> \in {<<<<z[1] * w + (w - 1 - b)>>, z[2]>> : z \in pairs}
  <2>1. PICK u \in 0 .. w * (t + 1), k \in taps :
            e = <<u, k>> /\ u + k = t * w + w - 1 /\ k % w = b
    BY <1>8
  <2> DEFINE a == k \div w
  <2>2. k \in Nat /\ u \in Nat
    <3>1. w * (t + 1) \in Nat BY <1>6, <1>1
    <3> QED BY <1>5, <3>1
  <2>3. k = w * a + b /\ a \in Nat
    <3>1. k = w * (k \div w) + (k % w) /\ k \div w \in Nat BY <1>1, <2>2, DivMod
    <3> QED BY <2>1, <3>1
  <2> HIDE DEF a
  <2> DEFINE s == t - a
  <2>4. s \in Int /\ s * w = t * w - w * a BY <1>1, <2>3
  <2> HIDE DEF s
  <2> DEFINE sw == s * w   tw == t * w   aw == w * a
  <2>5. /\ sw \in Int /\ tw \in Nat /\ aw \in Nat /\ sw = tw - aw /\ k = aw + b
        /\ u + k = tw + w - 1
    BY <1>1, <1>6, <2>1, <2>3, <2>4
  <2>6. u = sw + (w - 1 - b) /\ sw + k = tw + b /\ -w < sw
    <3> HIDE DEF sw, tw, aw
    <3> QED BY <1>1, <2>2, <2>5
  <2>7. s \in Nat
    <3>1. (-1) * w < s * w BY <1>1, <2>6
    <3>2. -1 < s BY <1>1, <2>4, <3>1, Scaled
    <3> QED BY <2>4, <3>2
  <2>8. <<s, k>> \in pairs BY <2>1, <2>6, <2>7
  <2>9. e = <<<<s, k>>[1] * w + (w - 1 - b), <<s, k>>[2]>> BY <2>1, <2>6
  <2>10. <<<<e[1]>>, e[2]>> = <<<<<<s, k>>[1] * w + (w - 1 - b)>>, <<s, k>>[2]>> BY <2>9
  <2> QED BY <2>8, <2>10
<1> HIDE DEF pairs, wide
<1>9. {<<<<z[1] * w + (w - 1 - b)>>, z[2]>> : z \in pairs} = {<<<<e[1]>>, e[2]>> : e \in wide}
  BY <1>7, <1>8
<1>10. {<<InBranch(b, z[1]), z[2]>> : z \in pairs}
         = {<<<<z[1] * w + (w - 1 - b)>>, z[2]>> : z \in pairs}
  BY <1>2
<1> QED BY <1>3, <1>4, <1>9, <1>10

\* The channels' samples of one time, transformed.
Dft(t) == [c \in Bank!Chans |-> IF c \in active THEN <<c, t>> ELSE Bank!Zero]

LEMMA BranchSynthesis ==
    ASSUME BankTyped, synthesis, NEW b \in 0 .. MCHANS - 1, NEW t \in Nat
    PROVE  {<<<<b, Dft(e[1])>>, e[2]>> :
                e \in {z \in (0 .. t) \X (0 .. MCHANS * hLen - 1) :
                            z[1] * MCHANS + z[2] = t * MCHANS + b}}
             = BranchSum(b, t)
<1> DEFINE w == MCHANS   taps == 0 .. MCHANS * hLen - 1
           pairs == {z \in Nat \X taps : z[1] * w + z[2] = t * w + b}
           early == {z \in (0 .. t) \X taps : z[1] * w + z[2] = t * w + b}
<1>1. w \in Nat \ {0} /\ b \in 0 .. w - 1 /\ hLen \in Nat \ {0} /\ b \in Nat
  BY BankConstants DEF BankTyped
<1>2. \A k \in taps : k \in Nat OBVIOUS
<1>3. \A s \in Nat : InBranch(b, s) = <<b, Dft(s)>> BY DEF InBranch, Dft
<1>4. BranchSum(b, t) = {<<InBranch(b, z[1]), z[2]>> : z \in pairs} BY DEF BranchSum
<1> HIDE DEF w, taps
<1>5. ASSUME NEW s \in Nat, NEW k \in taps, s * w + k = t * w + b PROVE s \in 0 .. t
  <2>1. s * w < (t + 1) * w
    <3> DEFINE sw == s * w   tw == t * w
    <3>1. sw \in Nat /\ tw \in Nat /\ sw + k = tw + b /\ k \in Nat /\ (t + 1) * w = tw + w
      BY <1>1, <1>2, <1>5
    <3>2. sw < tw + w
      <4> HIDE DEF sw, tw
      <4> QED BY <1>1, <3>1
    <3> QED BY <3>1, <3>2
  <2>2. s < t + 1 BY <1>1, <2>1, Scaled
  <2> QED BY <2>2
<1>6. pairs = early
  <2>1. \A s \in 0 .. t : s \in Nat OBVIOUS
  <2> QED BY <1>5, <2>1
<1>7. \A z \in pairs : InBranch(b, z[1]) = <<b, Dft(z[1])>> BY <1>3
<1> HIDE DEF pairs, early
<1>8. {<<InBranch(b, z[1]), z[2]>> : z \in pairs} = {<<<<b, Dft(z[1])>>, z[2]>> : z \in pairs}
  BY <1>7
<1>9. {<<<<b, Dft(e[1])>>, e[2]>> : e \in early} = BranchSum(b, t) BY <1>4, <1>6, <1>8
<1> QED BY <1>9 DEF early, taps, w

LEMMA BankInit == Bank!Init => BankIInv
<1> SUFFICES ASSUME Bank!Init PROVE BankIInv OBVIOUS
<1>1. BankTyped
  <2>1. BankTaps \in Nat /\ BankBlock \in Nat BY SamplesAssumption DEF Bank!BankAssumption
  <2>2. hLen \in Nat \ {0} /\ blockLen \in Nat /\ hLen <= blockLen BY <2>1 DEF Bank!Init
  <2> QED BY <2>2 DEF Bank!Init, BankTyped
<1>2. blocks = 0 BY DEF Bank!Init
<1>3. BankHistory BY <1>2 DEF Bank!Init, BankHistory
<1> QED BY <1>1, <1>2, <1>3 DEF BankIInv, Bank!ChannelizedStream, Bank!SynthesizedStream

\* The history that both banks keep is that of the next block.
LEMMA BankSaves ==
    ASSUME BankTyped, NEW x, InBranches(x), hist' = Bank!SaveHistory(x), blocks' = blocks + 1,
           UNCHANGED <<synthesis, hLen, blockLen, active>>
    PROVE  BankHistory'
<1>1. blocks \in Nat /\ blockLen \in Nat \ {0} /\ hLen \in Nat \ {0} /\ hLen <= blockLen
  BY DEF BankTyped
<1>2. hist' = [b \in Bank!Chans |-> [i \in 0 .. hLen - 1 |-> x[b][blockLen - hLen + i]]]
  BY DEF Bank!SaveHistory
<1>3. ASSUME NEW b \in Bank!Chans, NEW i \in 0 .. hLen - 1
      PROVE  hist'[b][i] = InBranch(b, blocks' * blockLen - hLen + i)
  <2>1. blockLen - hLen + i \in -hLen .. blockLen - 1 /\ ~(blockLen - hLen + i < 0) BY <1>1
  <2>2. x[b][blockLen - hLen + i] = InBranch(b, blocks * blockLen + (blockLen - hLen + i))
    BY <2>1 DEF InBranches
  <2>3. blocks * blockLen + (blockLen - hLen + i) = blocks' * blockLen - hLen + i
    <3> DEFINE base == blocks * blockLen
    <3>1. base \in Nat /\ blocks' * blockLen = base + blockLen BY <1>1
    <3>2. base + (blockLen - hLen + i) = (base + blockLen) - hLen + i
      <4> HIDE DEF base
      <4> QED BY <1>1, <3>1
    <3> QED BY <3>1, <3>2
  <2> QED BY <1>2, <2>2, <2>3
<1>4. blocks' # 0 BY <1>1
<1>5. Bank!Chans' = Bank!Chans BY DEF Bank!Chans
<1> QED BY <1>3, <1>4, <1>5 DEF BankHistory, InBranch, Bank!Zero, Bank!Chans

\* The heads that the history is copied to, and the samples behind them.
LEMMA WithHead ==
    ASSUME BankTyped, BankHistory, NEW x0, NEW x, x = Bank!WithHistory(x0),
           \A b \in Bank!Chans : DOMAIN x0[b] = -hLen .. blockLen - 1,
           \A b \in Bank!Chans, i \in 0 .. blockLen - 1 :
                x0[b][i] = InBranch(b, blocks * blockLen + i)
    PROVE  InBranches(x)
<1>1. blocks \in Nat /\ blockLen \in Nat \ {0} /\ hLen \in Nat \ {0} /\ hLen <= blockLen
  BY DEF BankTyped
<1>2. x = [b \in Bank!Chans |-> [i \in DOMAIN x0[b] |->
                IF i < 0 THEN hist[b][hLen + i] ELSE x0[b][i]]]
  BY DEF Bank!WithHistory
<1>3. ASSUME NEW b \in Bank!Chans, NEW i \in -hLen .. blockLen - 1
      PROVE  x[b][i] = IF i < 0 /\ blocks = 0 THEN Bank!Zero
                       ELSE InBranch(b, blocks * blockLen + i)
  <2>0. i \in DOMAIN x0[b] OBVIOUS
  <2>a. x[b] = [j \in DOMAIN x0[b] |-> IF j < 0 THEN hist[b][hLen + j] ELSE x0[b][j]]
    BY <1>2, Zenon
  <2>1. x[b][i] = IF i < 0 THEN hist[b][hLen + i] ELSE x0[b][i] BY <2>0, <2>a
  <2>2. CASE i < 0
    <3>1. hLen + i \in 0 .. hLen - 1 BY <1>1, <2>2
    <3>2. blocks * blockLen - hLen + (hLen + i) = blocks * blockLen + i
      <4> DEFINE base == blocks * blockLen
      <4>1. base \in Nat BY <1>1
      <4>2. base - hLen + (hLen + i) = base + i
        <5> HIDE DEF base
        <5> QED BY <1>1, <4>1
      <4> QED BY <4>2
    <3>3. hist[b][hLen + i] = IF blocks = 0 THEN Bank!Zero
                              ELSE InBranch(b, blocks * blockLen - hLen + (hLen + i))
      BY <3>1 DEF BankHistory
    <3> QED BY <2>1, <2>2, <3>2, <3>3
  <2>3. CASE ~(i < 0)
    <3>1. i \in 0 .. blockLen - 1 BY <1>1, <2>3
    <3> QED BY <2>1, <2>3, <3>1
  <2> QED BY <2>2, <2>3
<1>4. \A b \in Bank!Chans : DOMAIN x[b] = -hLen .. blockLen - 1 BY <1>2
<1> QED BY <1>3, <1>4 DEF InBranches

\* The parts of the times that the banks are at.
LEMMA BankTimes ==
    ASSUME BankTyped, NEW i \in 0 .. blockLen - 1
    PROVE  /\ blocks * blockLen + i \in Nat
           /\ ((blocks + 1) - 1) * blockLen + i = blocks * blockLen + i
<1>1. blocks \in Nat /\ blockLen \in Nat /\ blocks * blockLen \in Nat BY DEF BankTyped
<1>2. (blocks + 1) - 1 = blocks BY <1>1
<1> QED BY <1>1, <1>2

\* A sample of the block is deinterleaved into the branch of its turn.
LEMMA WidePlace ==
    ASSUME NEW w \in Nat \ {0}, NEW len0 \in Nat, NEW b \in 0 .. w - 1, NEW i \in 0 .. len0 - 1,
           NEW past \in Nat
    PROVE  /\ i * w + (w - 1 - b) \in 0 .. len0 * w - 1
           /\ past * len0 * w + (i * w + (w - 1 - b)) = (past * len0 + i) * w + (w - 1 - b)
<1>1. i * w + w <= len0 * w BY Multiples
<1>2. i * w \in Nat /\ len0 * w \in Nat /\ past * len0 \in Nat /\ past * len0 * w \in Nat OBVIOUS
<1>3. (past * len0 + i) * w = past * len0 * w + i * w OBVIOUS
<1> DEFINE iw == i * w   lw == len0 * w   dw == past * len0 * w
<1>4. iw \in Nat /\ lw \in Nat /\ dw \in Nat /\ iw + w <= lw BY <1>1, <1>2
<1>5. iw + (w - 1 - b) \in 0 .. lw - 1 /\ dw + (iw + (w - 1 - b)) = (dw + iw) + (w - 1 - b)
  <2> HIDE DEF iw, lw, dw
  <2> QED BY <1>4
<1> QED BY <1>3, <1>5

LEMMA BankChannelizes == ASSUME BankIInv, Bank!Channelize PROVE BankIInv'
<1>1. BankTyped /\ BankHistory BY DEF BankIInv
<1>2. /\ ~synthesis /\ UNCHANGED <<synthesis, hLen, blockLen, active, subFilters>>
      /\ blocks' = blocks + 1
  BY DEF Bank!Channelize
<1>3. /\ MCHANS \in Nat \ {0} /\ Bank!Chans = 0 .. MCHANS - 1 /\ hLen \in Nat \ {0}
      /\ blocks \in Nat /\ blockLen \in Nat
  BY <1>1, BankConstants DEF BankTyped
<1>4. BankTyped'
  BY <1>1, <1>2 DEF BankTyped, Bank!InitFilters, Bank!Chans
<1> DEFINE in == [u \in 0 .. blockLen * MCHANS - 1 |-> <<blocks * blockLen * MCHANS + u>>]
           x0 == Bank!Deinterleave(in)
           x  == Bank!WithHistory(x0)
           filtered == [b \in Bank!Chans |-> Bank!Convolved(x, b)]
<1>5. /\ hist' = Bank!SaveHistory(x)
      /\ hInputs' = [c \in Bank!Chans |-> [i \in DOMAIN x[c] |->
                        IF i < 0 THEN x[c][i] ELSE Bank!Fft(filtered)[c][i]]]
  BY DEF Bank!Channelize
<1>6. x0 = [b \in Bank!Chans |-> [i \in -hLen .. blockLen - 1 |->
                IF i < 0 THEN hInputs[b][i] ELSE in[i * MCHANS + (MCHANS - 1 - b)]]]
  BY DEF Bank!Deinterleave
<1> HIDE DEF x0, in
<1>7. ASSUME NEW b \in Bank!Chans, NEW i \in 0 .. blockLen - 1
      PROVE  x0[b][i] = InBranch(b, blocks * blockLen + i)
  <2>1. i \in -hLen .. blockLen - 1 /\ ~(i < 0) BY <1>3
  <2>2. x0[b][i] = in[i * MCHANS + (MCHANS - 1 - b)] BY <1>6, <2>1, Zenon
  <2>3. /\ i * MCHANS + (MCHANS - 1 - b) \in 0 .. blockLen * MCHANS - 1
        /\ blocks * blockLen * MCHANS + (i * MCHANS + (MCHANS - 1 - b))
             = (blocks * blockLen + i) * MCHANS + (MCHANS - 1 - b)
    BY <1>3, WidePlace
  <2>4. in[i * MCHANS + (MCHANS - 1 - b)]
          = <<blocks * blockLen * MCHANS + (i * MCHANS + (MCHANS - 1 - b))>>
    BY <2>3 DEF in
  <2> QED BY <1>2, <2>2, <2>3, <2>4 DEF InBranch
<1>8. \A b \in Bank!Chans : DOMAIN x0[b] = -hLen .. blockLen - 1 BY <1>6
<1>9. InBranches(x) BY <1>1, <1>7, <1>8, WithHead
<1> HIDE DEF x
<1>10. BankHistory' BY <1>1, <1>2, <1>5, <1>9, BankSaves
<1>11. ASSUME NEW c \in Bank!Chans, NEW i \in 0 .. blockLen - 1
       PROVE  /\ hInputs'[c][i][1] = c
              /\ \A b \in Bank!Chans :
                    Bank!Sounding(hInputs'[c][i][2][b]) = Bank!IdealBranch(b, blocks * blockLen + i)
  <2>1. i \in -hLen .. blockLen - 1 /\ ~(i < 0) BY <1>3
  <2>2. DOMAIN x[c] = -hLen .. blockLen - 1 BY <1>9 DEF InBranches
  <2>3. hInputs'[c][i] = Bank!Fft(filtered)[c][i] BY <1>5, <2>1, <2>2
  <2>4. Bank!Fft(filtered)[c][i] = <<c, [b \in Bank!Chans |-> filtered[b][i]]>>
    BY <2>1 DEF Bank!Fft
  <2>5. hInputs'[c][i][1] = c /\ hInputs'[c][i][2] = [b \in Bank!Chans |-> filtered[b][i]]
    BY <2>3, <2>4
  <2>6. ASSUME NEW b \in Bank!Chans
        PROVE  Bank!Sounding(hInputs'[c][i][2][b]) = Bank!IdealBranch(b, blocks * blockLen + i)
    <3>1. hInputs'[c][i][2][b] = Bank!Convolved(x, b)[i] BY <2>5
    <3>2. b \in 0 .. MCHANS - 1 BY <1>3
    <3>3. Bank!Sounding(Bank!Convolved(x, b)[i]) = BranchSum(b, blocks * blockLen + i)
      BY <1>1, <1>9, <3>2, BranchFiltered
    <3>4. blocks * blockLen + i \in Nat BY <1>1, BankTimes
    <3>5. BranchSum(b, blocks * blockLen + i) = Bank!IdealBranch(b, blocks * blockLen + i)
      BY <1>1, <1>2, <3>2, <3>4, BranchIdeal
    <3> QED BY <3>1, <3>3, <3>5
  <2> QED BY <2>5, <2>6
<1>12. Bank!ChannelizedStream'
  <2>1. \A i \in 0 .. blockLen - 1 : (blocks' - 1) * blockLen + i = blocks * blockLen + i
    BY <1>1, <1>2, BankTimes
  <2>2. \A b, t : Bank!IdealBranch(b, t)' = Bank!IdealBranch(b, t) BY <1>2 DEF Bank!IdealBranch
  <2> QED BY <1>2, <1>11, <2>1
    DEF Bank!ChannelizedStream, Bank!Times, Bank!LastTime, Bank!IdealBranch, Bank!Sounding,
        Bank!Chans, Bank!Zero
<1>13. Bank!SynthesizedStream' BY <1>2 DEF Bank!SynthesizedStream
<1> QED BY <1>4, <1>10, <1>12, <1>13 DEF BankIInv

LEMMA BankSynthesizes == ASSUME BankIInv, Bank!Synthesize PROVE BankIInv'
<1>1. BankTyped /\ BankHistory BY DEF BankIInv
<1>2. /\ synthesis /\ UNCHANGED <<synthesis, hLen, blockLen, active, subFilters>>
      /\ blocks' = blocks + 1
  BY DEF Bank!Synthesize
<1>3. /\ MCHANS \in Nat \ {0} /\ Bank!Chans = 0 .. MCHANS - 1 /\ hLen \in Nat \ {0}
      /\ blocks \in Nat /\ blockLen \in Nat
  BY <1>1, BankConstants DEF BankTyped
<1>4. BankTyped'
  BY <1>1, <1>2 DEF BankTyped, Bank!InitFilters, Bank!Chans
<1> DEFINE x0 == Bank!Fft(Bank!Filled)
           x  == Bank!WithHistory(x0)
           filtered == [b \in Bank!Chans |-> Bank!Convolved(x, b)]
<1>5. hist' = Bank!SaveHistory(x) /\ out' = Bank!Interleave(filtered) BY DEF Bank!Synthesize
<1>6. x0 = [c \in Bank!Chans |-> [i \in -hLen .. blockLen - 1 |->
                IF i < 0 THEN hInputs[c][i] ELSE <<c, [b \in Bank!Chans |-> Bank!Filled[b][i]]>>]]
  BY DEF Bank!Fft
<1>7. ASSUME NEW b \in Bank!Chans, NEW i \in 0 .. blockLen - 1
      PROVE  x0[b][i] = InBranch(b, blocks * blockLen + i)
  <2>1. i \in -hLen .. blockLen - 1 /\ ~(i < 0) BY <1>3
  <2>2. x0[b][i] = <<b, [c \in Bank!Chans |-> Bank!Filled[c][i]]>> BY <1>6, <2>1
  <2>3. \A c \in Bank!Chans : Bank!Filled[c][i] =
            IF c \in active THEN <<c, blocks * blockLen + i>> ELSE Bank!Zero
    BY DEF Bank!Filled, Bank!Times
  <2> QED BY <1>2, <2>2, <2>3 DEF InBranch
<1>8. \A b \in Bank!Chans : DOMAIN x0[b] = -hLen .. blockLen - 1 BY <1>6
<1> HIDE DEF x0
<1>9. InBranches(x) BY <1>1, <1>7, <1>8, WithHead
<1> HIDE DEF x
<1>10. BankHistory' BY <1>1, <1>2, <1>5, <1>9, BankSaves
<1>11. out' = [u \in 0 .. blockLen * MCHANS - 1 |-> filtered[u % MCHANS][u \div MCHANS]]
  BY <1>5 DEF Bank!Interleave
<1>12. ASSUME NEW u \in DOMAIN out'
       PROVE  LET e == (blocks' - 1) * blockLen * MCHANS + u
              IN  /\ e \div MCHANS \in Nat /\ e % MCHANS \in 0 .. MCHANS - 1
                  /\ (e \div MCHANS) * MCHANS + (e % MCHANS) = e
                  /\ Bank!Sounding(out'[u]) = BranchSum(e % MCHANS, e \div MCHANS)
  <2> DEFINE b == u % MCHANS   i == u \div MCHANS   t == blocks * blockLen + i
             e == (blocks' - 1) * blockLen * MCHANS + u
  <2>1. u \in 0 .. blockLen * MCHANS - 1 BY <1>11
  <2>2. u \in Nat
    <3>1. blockLen * MCHANS \in Nat BY <1>3
    <3> QED BY <2>1, <3>1
  <2>3. b \in 0 .. MCHANS - 1 /\ u = MCHANS * i + b /\ i \in Nat BY <1>3, <2>2, DivMod
  <2> HIDE DEF b, i
  <2>4. MCHANS * i = i * MCHANS BY <1>3, <2>3
  <2>5. i \in 0 .. blockLen - 1
    <3>1. i * MCHANS < blockLen * MCHANS
      <4> DEFINE im == i * MCHANS   lm == blockLen * MCHANS
      <4>1. im \in Nat /\ lm \in Nat /\ u = im + b /\ u <= lm - 1 /\ b \in Nat
        BY <1>3, <2>1, <2>3, <2>4
      <4>2. im < lm
        <5> HIDE DEF im, lm
        <5> QED BY <4>1
      <4> QED BY <4>2
    <3>2. i < blockLen BY <1>3, <2>3, <3>1, Scaled
    <3> QED BY <1>3, <2>3, <3>2
  <2>6. t \in Nat BY <1>1, <2>5, BankTimes
  <2>7. e = t * MCHANS + b
    <3>1. blocks' - 1 = blocks /\ t * MCHANS = blocks * blockLen * MCHANS + i * MCHANS
      BY <1>2, <1>3, <2>3
    <3> DEFINE base == blocks * blockLen * MCHANS   im == i * MCHANS
    <3>2. base \in Nat /\ im \in Nat /\ u = im + b /\ b \in Nat BY <1>3, <2>3, <2>4
    <3>3. base + u = (base + im) + b
      <4> HIDE DEF base, im
      <4> QED BY <3>2
    <3> QED BY <3>1, <3>3
  <2>8. e % MCHANS = b /\ e \div MCHANS = t
    <3> HIDE DEF e, t
    <3>1. \A a \in Nat : \A r \in 0 .. MCHANS - 1 :
            (a * MCHANS + r) % MCHANS = r /\ (a * MCHANS + r) \div MCHANS = a
      BY <1>3, PhaseOfTap, Zenon
    <3>2. \A r \in 0 .. MCHANS - 1 :
            (t * MCHANS + r) % MCHANS = r /\ (t * MCHANS + r) \div MCHANS = t
      BY <2>6, <3>1, Zenon
    <3>3. (t * MCHANS + b) % MCHANS = b /\ (t * MCHANS + b) \div MCHANS = t
      BY <2>3, <3>2, Zenon
    <3> QED BY <2>7, <3>3, Zenon
  <2>9. out'[u] = Bank!Convolved(x, b)[i]
    <3>1. b \in Bank!Chans BY <1>3, <2>3
    <3>2. out'[u] = filtered[b][i] BY <1>11, <2>1 DEF b, i
    <3> QED BY <3>1, <3>2
  <2>10. Bank!Sounding(out'[u]) = BranchSum(b, t) BY <1>1, <1>9, <2>3, <2>5, <2>9, BranchFiltered
  <2> QED BY <2>3, <2>6, <2>7, <2>8, <2>10
<1>13. Bank!SynthesizedStream'
  <2> SUFFICES ASSUME NEW u \in DOMAIN out'
               PROVE  LET e == (blocks' - 1) * blockLen * MCHANS + u
                      IN  Bank!Sounding(out'[u]) =
                            {<<<<e % MCHANS, Dft(c[1])>>, c[2]>> :
                                c \in {z \in (0 .. e \div MCHANS) \X (0 .. MCHANS * hLen - 1) :
                                            z[1] * MCHANS + z[2] = e}}
    BY <1>2 DEF Bank!SynthesizedStream, Bank!Sounding, Bank!Zero, Bank!Chans, Dft
  <2> DEFINE e == (blocks' - 1) * blockLen * MCHANS + u
  <2>1. /\ e \div MCHANS \in Nat /\ e % MCHANS \in 0 .. MCHANS - 1
        /\ (e \div MCHANS) * MCHANS + (e % MCHANS) = e
        /\ Bank!Sounding(out'[u]) = BranchSum(e % MCHANS, e \div MCHANS)
    BY <1>12
  <2> HIDE DEF e
  <2>2. {<<<<e % MCHANS, Dft(c[1])>>, c[2]>> :
            c \in {z \in (0 .. e \div MCHANS) \X (0 .. MCHANS * hLen - 1) :
                        z[1] * MCHANS + z[2] = (e \div MCHANS) * MCHANS + (e % MCHANS)}}
          = BranchSum(e % MCHANS, e \div MCHANS)
    BY <1>1, <1>2, <2>1, BranchSynthesis
  <2> QED BY <2>1, <2>2 DEF e
<1>14. Bank!ChannelizedStream' BY <1>2 DEF Bank!ChannelizedStream
<1> QED BY <1>4, <1>10, <1>13, <1>14 DEF BankIInv

LEMMA BankStep == BankIInv /\ [Bank!Next]_bankVars => BankIInv'
<1> SUFFICES ASSUME BankIInv, [Bank!Next]_bankVars PROVE BankIInv' OBVIOUS
<1>1. CASE UNCHANGED bankVars
  <2>1. UNCHANGED <<synthesis, hLen, blockLen, active, subFilters, hInputs, hist, blocks, out>>
    BY <1>1 DEF bankVars
  <2>2. BankTyped' BY <2>1 DEF BankIInv, BankTyped, Bank!InitFilters, Bank!Chans
  <2>3. BankHistory' BY <2>1 DEF BankIInv, BankHistory, InBranch, Bank!Chans, Bank!Zero
  <2>4. Bank!ChannelizedStream'
    BY <2>1 DEF BankIInv, Bank!ChannelizedStream, Bank!IdealBranch, Bank!LastTime, Bank!Times,
       Bank!Sounding, Bank!Chans, Bank!Zero
  <2>5. Bank!SynthesizedStream'
    BY <2>1 DEF BankIInv, Bank!SynthesizedStream, Bank!Sounding, Bank!Chans, Bank!Zero
  <2> QED BY <2>2, <2>3, <2>4, <2>5 DEF BankIInv
<1> QED BY <1>1, BankChannelizes, BankSynthesizes DEF Bank!Next

-----------------------------------------------------------------------------
(* Theorems on sample paths                                                *)

\* A part of MCSamples takes its own steps or none.
LEMMA SendsAlone ==
    /\ MCInit => Send!Init /\ devType \in SendTypes
    /\ [MCNext]_MCvars => [Send!Next]_sendVars
<1>1. MCInit => Send!Init /\ devType \in SendTypes BY DEF MCInit, Send!Init
<1>2. [MCNext]_MCvars => [Send!Next]_sendVars
  <2> SUFFICES ASSUME [MCNext]_MCvars PROVE [Send!Next]_sendVars OBVIOUS
  <2>1. CASE UNCHANGED MCvars BY <2>1, Zenon DEF MCvars
  <2>2. CASE part = "send" /\ Send!Next BY <2>2
  <2>3. CASE part # "send" /\ Others BY <2>3, Zenon DEF Others
  <2> QED BY <2>1, <2>2, <2>3 DEF MCNext
<1> QED BY <1>1, <1>2

LEMMA StreamsAlone ==
    /\ MCInit => Rs!Init /\ Bank!Init /\ Multi!Init
    /\ [MCNext]_MCvars => [Rs!Next]_rsVars /\ [Bank!Next]_bankVars /\ [Multi!Next]_multiVars
<1>1. MCInit => Rs!Init /\ Bank!Init /\ Multi!Init BY Zenon DEF MCInit
<1>2. ASSUME [MCNext]_MCvars
      PROVE  [Rs!Next]_rsVars /\ [Bank!Next]_bankVars /\ [Multi!Next]_multiVars
  <2>1. CASE UNCHANGED MCvars BY <2>1, Zenon DEF MCvars
  <2>2. [Rs!Next]_rsVars
    <3>1. CASE part = "resampler" /\ Rs!Next BY <3>1
    <3>2. CASE part # "resampler" /\ Others BY <3>2, Zenon DEF Others
    <3> QED BY <1>2, <2>1, <3>1, <3>2 DEF MCNext
  <2>3. [Bank!Next]_bankVars
    <3>1. CASE part = "bank" /\ Bank!Next BY <3>1
    <3>2. CASE part # "bank" /\ Others BY <3>2, Zenon DEF Others
    <3> QED BY <1>2, <2>1, <3>1, <3>2 DEF MCNext
  <2>4. [Multi!Next]_multiVars
    <3>1. CASE part = "multi" /\ Multi!Next BY <3>1
    <3>2. CASE part # "multi" /\ Others BY <3>2, Zenon DEF Others
    <3> QED BY <1>2, <2>1, <3>1, <3>2 DEF MCNext
  <2> QED BY <2>2, <2>3, <2>4
<1> QED BY <1>1, <1>2

\* Every segment that a radio interface sends carries the timestamp of its
\* first sample, whatever the rates, the number of channels and the length of
\* the run; no ring ever refuses a burst; and close() gives back what init()
\* allocated, but for what it forgets. Where the device's answer is added to
\* the timestamp (NORMAL, MULTI_ARFCN) the device writes all it is given.
THEOREM SmSentInTime == ASSUME OthersWriteAll PROVE MCSpec => []SentInTime
<1>1. MCInit => SendIInv /\ devType \in SendTypes BY SendsAlone, SendInit
<1>2. SendIInv /\ devType \in SendTypes /\ [MCNext]_MCvars => (SendIInv /\ devType \in SendTypes)'
  <2> SUFFICES ASSUME SendIInv, devType \in SendTypes, [MCNext]_MCvars
               PROVE  SendIInv' /\ (devType \in SendTypes)'
    OBVIOUS
  <2>1. [Send!Next]_sendVars BY SendsAlone
  <2> QED BY <2>1, SendStep
<1>3. SendIInv => SentInTime BY SendHolds
<1> QED BY <1>1, <1>2, <1>3, PTL DEF MCSpec

\* Working in blocks is working on the stream: the resampler, for all rates,
\* filters and lengths it accepts, and both filter banks, for all filters and
\* lengths of block, give what the whole stream filtered at once would give;
\* and the carriers of the multi-carrier interface are those asked for.
THEOREM SmBlocksAreStream == ASSUME FourBranches PROVE MCSpec => []BlocksAreStream
<1> DEFINE StreamsIInv == RsIInv /\ BankIInv /\ MultiIInv /\ Multi!BlockOfEveryChannel
<1>1. MCInit => StreamsIInv
  <2> SUFFICES ASSUME MCInit PROVE StreamsIInv OBVIOUS
  <2>1. Rs!Init /\ Bank!Init /\ Multi!Init BY StreamsAlone
  <2>2. Multi!BlockOfEveryChannel BY <2>1 DEF Multi!Init, Multi!BlockOfEveryChannel
  <2> QED BY <2>1, <2>2, RsInit, BankInit, MultiInit
<1>2. StreamsIInv /\ [MCNext]_MCvars => StreamsIInv'
  <2> SUFFICES ASSUME StreamsIInv, [MCNext]_MCvars PROVE StreamsIInv' OBVIOUS
  <2>1. [Rs!Next]_rsVars /\ [Bank!Next]_bankVars /\ [Multi!Next]_multiVars BY StreamsAlone
  <2> QED BY <2>1, RsStep, BankStep, MultiStep, MultiBlocks
<1>3. StreamsIInv => BlocksAreStream
  BY RsHolds, MultiCarriers DEF BankIInv, BlocksAreStream
<1> QED BY <1>1, <1>2, <1>3, PTL DEF MCSpec

\* Induction over a set of numbers.
LEMMA SetInduction ==
    ASSUME NEW S, 0 \in S, \A k \in Nat : k \in S => k + 1 \in S PROVE Nat \subseteq S
<1> DEFINE Rest == Nat \ S
           Less == OpToRel(<, Nat)
<1> SUFFICES ASSUME Rest # {} PROVE FALSE OBVIOUS
<1>1. IsWellFoundedOn(Less, Nat) BY NatLessThanWellFounded
<1>2. Rest \subseteq Nat OBVIOUS
<1> HIDE DEF Less
<1>3. PICK a \in Rest : \A b \in Rest : ~ (<<b, a>> \in Less)
  <2> HIDE DEF Rest
  <2> QED BY <1>1, <1>2, WFMin, Zenon
<1>4. a \in Nat /\ a \notin S /\ a # 0 BY <1>3
<1>5. a - 1 \in Nat /\ a - 1 < a /\ (a - 1) + 1 = a BY <1>4
<1>6. a - 1 \notin S BY <1>4, <1>5, Zenon
<1>7. <<a - 1, a>> \in Less BY <1>4, <1>5 DEF Less, OpToRel
<1> QED BY <1>3, <1>5, <1>6, <1>7


\* What a recursion computes, from what one step of it does.
LEMMA SameUpTo ==
    ASSUME NEW last1 \in Nat, NEW f, NEW g, g[0] = f[0],
           \A k \in 1 .. last1 : g[k - 1] = f[k - 1] => g[k] = f[k]
    PROVE  g[last1] = f[last1]
<1> DEFINE S == {k \in Nat : k <= last1 => g[k] = f[k]}
<1>1. 0 \in S OBVIOUS
<1>2. ASSUME NEW k \in Nat, k \in S PROVE k + 1 \in S
  <2>1. k + 1 <= last1 => k + 1 \in 1 .. last1 /\ (k + 1) - 1 = k OBVIOUS
  <2> QED BY <1>2, <2>1
<1> HIDE DEF S
<1>3. Nat \subseteq S BY <1>1, <1>2, SetInduction
<1> QED BY <1>3 DEF S

\* A step of delayVector's copy, and the vectors it goes through.
CopyStep(v, t, s) ==
    IF t \notin 0 .. size - 1 THEN v
    ELSE [v EXCEPT ![t] = IF s \in 0 .. size - 1 THEN v[s] ELSE Zero]

Copied(v, to, from, step, f) ==
    /\ f = [k \in 0 .. size |-> f[k]] /\ f[0] = v
    /\ \A k \in 1 .. size : f[k] = CopyStep(f[k - 1], to + step * (k - 1), from + step * (k - 1))

LEMMA MovedIs ==
    ASSUME size \in Nat \ {0}, NEW v, NEW to, NEW from, NEW step, NEW f,
           Copied(v, to, from, step, f)
    PROVE  Moved(v, to, from, step) = f[size]
<1> USE DEF Copied
<1> DEFINE Next1(g, k) ==
               IF k = 0 THEN v ELSE CopyStep(g[k - 1], to + step * (k - 1), from + step * (k - 1))
           Copies(g) == g = [k \in 0 .. size |-> Next1(g, k)]
           copy == CHOOSE g : Copies(g)
<1>1. Moved(v, to, from, step) = copy[size] BY DEF Moved, CopyStep
<1>2. Copies(f)
  <2>1. \A k \in 0 .. size : f[k] = Next1(f, k)
    <3> SUFFICES ASSUME NEW k \in 0 .. size PROVE f[k] = Next1(f, k) OBVIOUS
    <3>1. CASE k = 0 BY <3>1
    <3>2. CASE k # 0
      <4>1. k \in 1 .. size BY <3>2
      <4> QED BY <3>2, <4>1
    <3> QED BY <3>1, <3>2
  <2> HIDE DEF Next1
  <2> QED BY <2>1
<1>3. Copies(copy) BY <1>2
<1>4. copy[size] = f[size]
  <2>1. \A k \in 0 .. size : copy[k] = Next1(copy, k)
    <3> HIDE DEF copy, Next1
    <3> QED BY <1>3
  <2> HIDE DEF copy
  <2>2. copy[0] = f[0]
    <3>1. copy[0] = Next1(copy, 0) BY <2>1
    <3> QED BY <3>1
  <2>3. ASSUME NEW k \in 1 .. size, copy[k - 1] = f[k - 1] PROVE copy[k] = f[k]
    <3>1. copy[k] = Next1(copy, k) BY <2>1
    <3>2. Next1(copy, k) = CopyStep(copy[k - 1], to + step * (k - 1), from + step * (k - 1))
      OBVIOUS
    <3> QED BY <2>3, <3>1, <3>2
  <2> HIDE DEF Copied
  <2> QED BY <2>2, <2>3, SameUpTo
<1> QED BY <1>1, <1>4

\* What the vector is after k steps to the left, and to the right.
LeftAt(w, k) ==
    [i \in 0 .. size - 1 |->
        IF i < k THEN IF i - w \in 0 .. size - 1 THEN i - w ELSE Zero ELSE i]
RightAt(w, k) ==
    [i \in 0 .. size - 1 |->
        IF i >= size - k THEN IF i - w \in 0 .. size - 1 THEN i - w ELSE Zero ELSE i]

LEMMA ShiftedIs ==
    ASSUME size \in Nat \ {0}, NEW w \in Int
    PROVE  Shifted(Input, w)
               = [i \in 0 .. size - 1 |-> IF i - w \in 0 .. size - 1 THEN i - w ELSE Zero]
<1>1. CASE w < 0
  <2> DEFINE f == [k \in 0 .. size |-> LeftAt(w, k)]
  <2>1. f[0] = Input BY DEF LeftAt, Input
  <2>2. ASSUME NEW k \in 1 .. size
        PROVE  f[k] = CopyStep(f[k - 1], 0 + 1 * (k - 1), (0 - w) + 1 * (k - 1))
    <3>1. /\ k - 1 \in 0 .. size - 1 /\ k - 1 \in 0 .. size /\ 0 + 1 * (k - 1) = k - 1
          /\ (0 - w) + 1 * (k - 1) = k - 1 - w /\ k - 1 - w > k - 1 /\ k - 1 - w \in Int
      BY <1>1
    <3>2. LeftAt(w, k) = CopyStep(LeftAt(w, k - 1), k - 1, k - 1 - w)
      BY <3>1 DEF LeftAt, CopyStep
    <3> QED BY <3>1, <3>2
  <2>3. Moved(Input, 0, 0 - w, 1) = f[size]
    <3>1. f = [k \in 0 .. size |-> f[k]] OBVIOUS
    <3>2. \A k \in 1 .. size : f[k] = CopyStep(f[k - 1], 0 + 1 * (k - 1), (0 - w) + 1 * (k - 1))
      <4> HIDE DEF f
      <4> QED BY <2>2
    <3> HIDE DEF f
    <3>3. Copied(Input, 0, 0 - w, 1, f) BY <2>1, <3>1, <3>2, Zenon DEF Copied
    <3> QED BY <3>3, MovedIs, Zenon
  <2>4. f[size] = LeftAt(w, size) OBVIOUS
  <2> QED BY <1>1, <2>3, <2>4 DEF Shifted, LeftAt
<1>2. CASE w >= 0
  <2> DEFINE f == [k \in 0 .. size |-> RightAt(w, k)]
  <2>1. f[0] = Input BY DEF RightAt, Input
  <2>2. ASSUME NEW k \in 1 .. size
        PROVE  f[k] = CopyStep(f[k - 1], (size - 1) + (-1) * (k - 1),
                               (size - 1 - w) + (-1) * (k - 1))
    <3>1. /\ size - k \in 0 .. size - 1 /\ k - 1 \in 0 .. size
          /\ (size - 1) + (-1) * (k - 1) = size - k
          /\ (size - 1 - w) + (-1) * (k - 1) = size - k - w
          /\ size - k - w <= size - k /\ size - k - w \in Int
      BY <1>2
    <3>2. RightAt(w, k) = CopyStep(RightAt(w, k - 1), size - k, size - k - w)
      <4> DEFINE t == size - k
                 s == size - k - w
                 e == [RightAt(w, k - 1) EXCEPT
                         ![t] = IF s \in 0 .. size - 1 THEN RightAt(w, k - 1)[s] ELSE Zero]
      <4>1. t \in 0 .. size - 1 /\ t \in Int /\ s \in Int /\ s <= t /\ s = t - w BY <3>1
      <4>2. CopyStep(RightAt(w, k - 1), t, s) = e BY <4>1 DEF CopyStep
      <4>3. ASSUME s \in 0 .. size - 1 PROVE RightAt(w, k - 1)[s] = s
        <5>1. ~(s >= size - (k - 1)) BY <4>1
        <5> HIDE DEF s
        <5> QED BY <4>3, <5>1 DEF RightAt
      <4>4. ASSUME NEW i \in 0 .. size - 1 PROVE e[i] = RightAt(w, k)[i]
        <5>1. CASE i = t BY <5>1, <4>1, <4>3 DEF RightAt
        <5>2. CASE i # t BY <5>2, <4>1 DEF RightAt
        <5> QED BY <5>1, <5>2
      <4>5. e = [i \in 0 .. size - 1 |-> e[i]] BY DEF RightAt
      <4>6. RightAt(w, k) = [i \in 0 .. size - 1 |-> RightAt(w, k)[i]] BY DEF RightAt
      <4> HIDE DEF e
      <4> QED BY <4>2, <4>4, <4>5, <4>6
    <3> QED BY <3>1, <3>2
  <2>3. Moved(Input, size - 1, size - 1 - w, -1) = f[size]
    <3>1. f = [k \in 0 .. size |-> f[k]] OBVIOUS
    <3>2. \A k \in 1 .. size :
             f[k] = CopyStep(f[k - 1], (size - 1) + (-1) * (k - 1), (size - 1 - w) + (-1) * (k - 1))
      <4> HIDE DEF f
      <4> QED BY <2>2
    <3> HIDE DEF f
    <3>3. Copied(Input, size - 1, size - 1 - w, -1, f) BY <2>1, <3>1, <3>2, Zenon DEF Copied
    <3> QED BY <3>3, MovedIs, Zenon
  <2>4. f[size] = RightAt(w, size) OBVIOUS
  <2>5. ~(w < 0) BY <1>2
  <2> QED BY <2>3, <2>4, <2>5 DEF Shifted, RightAt
<1> QED BY <1>1, <1>2


\* What the calls return: a delayed vector is the shifted input, and a call
\* fails for a short input only.
VectorReturns == DelayIsShift /\ FailsOnlyWhenShort

LEMMA DoneReturns ==
    ASSUME NEW s, NEW h \in Taps, Done(s, h), ~Bounds(s, h) => size < h, size' = size
    PROVE  VectorReturns'
<1>1. ret'.call = "convolve" /\ ret'.null = ~Bounds(s, h) BY DEF Done, NotCalled
<1>2. ret'.null => \E g \in Taps \cup {DelayTaps} : size < g BY <1>1
<1> QED BY <1>1, <1>2 DEF VectorReturns, DelayIsShift, FailsOnlyWhenShort

LEMMA ConvolveReturns ==
    ASSUME Sized, Convolve PROVE VectorReturns'
<1>1. PICK h \in Taps :
        \/ Done(START_ONLY(h), h)
        \/ Done(NO_DELAY(h), h)
        \/ \E begin \in 0 .. size, cnt \in 1 .. size : Done(CUSTOM(h, begin, cnt), h)
  BY DEF Convolve
<1>2. h \in Nat \ {0} /\ size' = size /\ size \in Nat \ {0}
  BY VectorAssumption DEF Sized, Convolve
<1>3. CASE Done(START_ONLY(h), h)
  <2>1. ~Bounds(START_ONLY(h), h) => size < h BY <1>2 DEF Bounds, START_ONLY
  <2> QED BY <1>2, <1>3, <2>1, DoneReturns
<1>4. CASE Done(NO_DELAY(h), h)
  <2>1. ~Bounds(NO_DELAY(h), h) => size < h BY <1>2 DEF Bounds, NO_DELAY
  <2> QED BY <1>2, <1>4, <2>1, DoneReturns
<1>5. CASE \E begin \in 0 .. size, cnt \in 1 .. size : Done(CUSTOM(h, begin, cnt), h)
  <2>1. PICK begin \in 0 .. size, cnt \in 1 .. size : Done(CUSTOM(h, begin, cnt), h) BY <1>5
  <2>2. ~Bounds(CUSTOM(h, begin, cnt), h) => size < h
    <3>1. /\ CUSTOM(h, begin, cnt).start = begin /\ CUSTOM(h, begin, cnt).len = cnt
          /\ CUSTOM(h, begin, cnt).tail = IF begin + cnt > size THEN begin + cnt - size ELSE 0
          /\ CUSTOM(h, begin, cnt).append = (begin < h - 1 \/ begin + cnt > size)
      BY DEF CUSTOM
    <3>2. CASE begin + cnt > size
      <4>1. begin \in Nat /\ cnt \in Nat /\ cnt >= 1 BY <1>2
      <4>2. /\ CUSTOM(h, begin, cnt).tail = begin + cnt - size
            /\ CUSTOM(h, begin, cnt).append
        BY <3>1, <3>2
      <4>3. size + (begin + cnt - size) = begin + cnt BY <1>2, <4>1
      <4> QED BY <1>2, <3>1, <3>2, <4>1, <4>2, <4>3 DEF Bounds
    <3>3. CASE begin + cnt <= size
      <4>1. begin \in Nat /\ cnt \in Nat /\ cnt >= 1 BY <1>2
      <4>2. ~(begin + cnt > size) BY <1>2, <4>1, <3>3
      <4>3. CUSTOM(h, begin, cnt).tail = 0 BY <3>1, <4>2
      <4> QED BY <1>2, <3>1, <3>3, <4>1, <4>3 DEF Bounds
    <3> QED BY <1>2, <3>2, <3>3
  <2> QED BY <1>2, <2>1, <2>2, DoneReturns
<1> QED BY <1>1, <1>3, <1>4, <1>5

LEMMA DelayReturns ==
    ASSUME Sized, Delay PROVE VectorReturns'
<1> DEFINE s == NO_DELAY(DelayTaps)
<1>1. PICK d \in Delays :
        /\ ret'.call = "delay" /\ ret'.null = (d[2] # 0 /\ ~Bounds(s, DelayTaps))
        /\ ret'.out = Shifted(Input, d[1])
        /\ ret'.want = [i \in 0 .. size - 1 |->
                          IF i - d[1] \in 0 .. size - 1 THEN i - d[1] ELSE Zero]
  BY DEF Delay, NotCalled
<1>2. d[1] \in Int /\ size \in Nat \ {0} /\ size' = size /\ DelayTaps \in Nat \ {0}
  BY VectorAssumption DEF Sized, Delay
<1>3. DelayIsShift' BY <1>1, <1>2, ShiftedIs DEF DelayIsShift
<1>4. ~Bounds(s, DelayTaps) => size < DelayTaps BY <1>2 DEF Bounds, NO_DELAY
<1> HIDE DEF s
<1>5. FailsOnlyWhenShort' BY <1>1, <1>2, <1>4 DEF FailsOnlyWhenShort
<1> QED BY <1>3, <1>5 DEF VectorReturns

\* Five places around a peak that is three or more from both ends.
FiveOf(places, a, b, c, d, e) ==
    /\ {a, b, c, d, e} \subseteq places
    /\ a # b /\ a # c /\ a # d /\ a # e
    /\ b # c /\ b # d /\ b # e
    /\ c # d /\ c # e
    /\ d # e

LEMMA FiveAround ==
    ASSUME NEW places, IsFiniteSet(places), NEW a, NEW b, NEW c, NEW d, NEW e,
           FiveOf(places, a, b, c, d, e)
    PROVE  Cardinality(places) \in Nat /\ Cardinality(places) >= 5
<1> USE DEF FiveOf
<1>1. IsFiniteSet({a}) /\ Cardinality({a}) = 1 BY FS_Singleton
<1>2. IsFiniteSet({a, b}) /\ Cardinality({a, b}) = 2
  <2>1. {a, b} = {a} \cup {b} /\ b \notin {a} OBVIOUS
  <2>2. /\ IsFiniteSet({a} \cup {b})
        /\ Cardinality({a} \cup {b}) = Cardinality({a}) + 1
    BY <1>1, <2>1, FS_AddElement, Zenon
  <2> QED BY <1>1, <2>1, <2>2
<1>3. IsFiniteSet({a, b, c}) /\ Cardinality({a, b, c}) = 3
  <2>1. {a, b, c} = {a, b} \cup {c} /\ c \notin {a, b} OBVIOUS
  <2>2. /\ IsFiniteSet({a, b} \cup {c})
        /\ Cardinality({a, b} \cup {c}) = Cardinality({a, b}) + 1
    BY <1>2, <2>1, FS_AddElement, Zenon
  <2> QED BY <1>2, <2>1, <2>2
<1>4. IsFiniteSet({a, b, c, d}) /\ Cardinality({a, b, c, d}) = 4
  <2>1. {a, b, c, d} = {a, b, c} \cup {d} /\ d \notin {a, b, c} OBVIOUS
  <2>2. /\ IsFiniteSet({a, b, c} \cup {d})
        /\ Cardinality({a, b, c} \cup {d}) = Cardinality({a, b, c}) + 1
    BY <1>3, <2>1, FS_AddElement, Zenon
  <2> QED BY <1>3, <2>1, <2>2
<1>5. IsFiniteSet({a, b, c, d, e}) /\ Cardinality({a, b, c, d, e}) = 5
  <2>1. {a, b, c, d, e} = {a, b, c, d} \cup {e} /\ e \notin {a, b, c, d} OBVIOUS
  <2>2. /\ IsFiniteSet({a, b, c, d} \cup {e})
        /\ Cardinality({a, b, c, d} \cup {e}) = Cardinality({a, b, c, d}) + 1
    BY <1>4, <2>1, FS_AddElement, Zenon
  <2> QED BY <1>4, <2>1, <2>2
<1>6. Cardinality({a, b, c, d, e}) <= Cardinality(places) BY FS_Subset
<1>7. Cardinality(places) \in Nat BY FS_CardinalityType
<1> QED BY <1>5, <1>6, <1>7

LEMMA PeakReturns ==
    ASSUME Sized, PeakRatio PROVE VectorReturns'
<1> DEFINE around(k) == {k - i : i \in {j \in 2 .. 5 : k - j >= 0}}
                        \cup {k + i : i \in {j \in 2 .. 5 : k + j < size}}
<1>1. PICK peak \in 3 .. size - 3 :
        ret'.call = "ratio" /\ ret'.null = (Cardinality(around(peak)) < 5)
  BY DEF PeakRatio, NotCalled
<1>2. size \in Nat /\ size' = size /\ peak \in Nat /\ peak >= 3 /\ peak + 3 <= size
  BY DEF Sized, PeakRatio
<1>3. ASSUME size >= 12
      PROVE  Cardinality(around(peak)) \in Nat /\ Cardinality(around(peak)) >= 5
  <2>1. IsFiniteSet(around(peak))
    <3>1. around(peak) \subseteq 0 .. size - 1 BY <1>2
    <3>2. IsFiniteSet(0 .. size - 1) BY <1>2, FS_Interval
    <3> QED BY <3>1, <3>2, FS_Subset
  <2>2. CASE peak >= 5
    <3>1. FiveOf(around(peak), peak - 2, peak - 3, peak - 4, peak - 5, peak + 2)
      BY <1>2, <2>2 DEF FiveOf
    <3> HIDE DEF around
    <3> QED BY <2>1, <3>1, FiveAround, Zenon
  <2>3. CASE peak < 5
    <3>1. FiveOf(around(peak), peak + 2, peak + 3, peak + 4, peak + 5, peak - 2)
      BY <1>2, <1>3, <2>3 DEF FiveOf
    <3> HIDE DEF around
    <3> QED BY <2>1, <3>1, FiveAround, Zenon
  <2> QED BY <1>2, <2>2, <2>3
<1> HIDE DEF around
<1>4. ret'.null => size < 12
  <2> SUFFICES ASSUME size >= 12 PROVE ~ret'.null BY <1>2
  <2>1. Cardinality(around(peak)) \in Nat /\ Cardinality(around(peak)) >= 5 BY <1>3
  <2>2. ~(Cardinality(around(peak)) < 5) BY <2>1
  <2> QED BY <1>1, <2>2
<1> QED BY <1>1, <1>2, <1>4 DEF VectorReturns, DelayIsShift, FailsOnlyWhenShort

LEMMA VectorReturnsStep ==
    ASSUME Sized, VectorReturns, [VectorNext]_vectorVars PROVE VectorReturns'
<1>1. CASE Convolve BY <1>1, ConvolveReturns
<1>2. CASE Delay BY <1>2, DelayReturns
<1>3. CASE EnergyDetect
  <2>1. ret'.call = "energy" /\ ret'.null = FALSE BY <1>3 DEF EnergyDetect, NotCalled
  <2> QED BY <2>1 DEF VectorReturns, DelayIsShift, FailsOnlyWhenShort
<1>4. CASE PeakRatio BY <1>4, PeakReturns
<1>5. CASE UNCHANGED vectorVars
  BY <1>5 DEF vectorVars, VectorReturns, DelayIsShift, FailsOnlyWhenShort
<1> QED BY <1>1, <1>2, <1>3, <1>4, <1>5 DEF VectorNext

-----------------------------------------------------------------------------
(* The modulators (Mod in MCSamples)                                       *)

ModTyped ==
    /\ filler \in Mod!FILLERS /\ sps \in {1, 4} /\ delay \in 0 .. 68
    /\ filler = "EDGE_RAND" => sps = 4

\* The sample behind the vector that an access burst of the largest delay writes.
Padding(b, i, s, d) == b.seq = 41 /\ s = 4 /\ d = 68 /\ i = 628

\* A burst of slot t, at s samples per symbol and access bursts delayed by d: its samples are inside
\* but for the padding, it has the slot's length, and training sequences start where all do.
Fits(b, t, s, d) ==
    /\ b.size = IF s = 4 THEN 625 ELSE 156 + Mod!Guard(t)
    /\ \A i \in b.written : i \in Int /\ (i < b.size \/ Padding(b, i, s, d))
    /\ b.seq = 26 => b.training = IF s = 4 THEN 248 ELSE 61

ModIInv ==
    /\ ModTyped
    /\ \E k \in 0 .. 8 : DOMAIN table = 0 .. k - 1
    /\ \A t \in DOMAIN table : Fits(table[t], t, sps, delay)
    /\ sent = Mod!NULL \/ \E t \in 0 .. 7 : Fits(sent, t, sps, delay)

LEMMA GuardIs == ASSUME NEW t \in 0 .. 7 PROVE Mod!Guard(t) \in {0, 1}
BY DEF Mod!Guard

\* What a modulator makes of the m symbols of slot t and the guard period
\* behind them: only with 156 of them does the padding not fit.
Modulated(x, m, t) ==
    /\ x # Mod!NULL
    /\ x.size = IF sps = 4 THEN 625 ELSE 156 + Mod!Guard(t)
    /\ \A i \in x.written : i \in Int /\ (i < x.size \/ (m = 156 /\ sps = 4 /\ i = 628))
    /\ x.first = IF sps = 4 THEN 4 ELSE 0

LEMMA ModulateFits ==
    ASSUME sps \in {1, 4}, NEW m \in 1 .. 156, NEW g \in Nat, NEW t \in 0 .. 7,
           m + g = 156 + Mod!Guard(t)
    PROVE  Modulated(Mod!modulateBurst(m, g, sps), m, t)
<1> USE DEF Modulated
<1>1. CASE sps = 4
  <2>1. Mod!modulateBurst(m, g, sps)
            = [size |-> 625, first |-> 4, written |-> {4 * i : i \in 0 .. m + 1}]
    BY <1>1 DEF Mod!modulateBurst, Mod!modulateBurstLaurent
  <2>2. \A i \in {4 * j : j \in 0 .. m + 1} : i \in Int /\ (i < 625 \/ (m = 156 /\ i = 628))
    OBVIOUS
  <2>3. [size |-> 625, first |-> 4, written |-> {4 * i : i \in 0 .. m + 1}] # Mod!NULL
    BY DEF Mod!NULL
  <2> QED BY <1>1, <2>1, <2>2, <2>3
<1>2. CASE sps = 1
  <2> DEFINE x == [size |-> 1 * (m + g), first |-> 0, written |-> {1 * i : i \in 0 .. m - 1}]
  <2>1. Mod!modulateBurst(m, g, sps) = x
    BY <1>2 DEF Mod!modulateBurst, Mod!modulateBurstBasic
  <2>2. \A i \in {1 * j : j \in 0 .. m - 1} : i \in Int /\ i < 1 * (m + g) OBVIOUS
  <2>3. x.size = 156 + Mod!Guard(t) /\ x.size # 0 BY GuardIs
  <2>4. x # Mod!NULL BY <2>3 DEF Mod!NULL
  <2> QED BY <1>2, <2>1, <2>2, <2>3, <2>4
<1> QED BY <1>1, <1>2

LEMMA NormalFits ==
    ASSUME sps \in {1, 4}, NEW t \in 0 .. 7
    PROVE  Fits(Mod!Burst(Mod!NormalFields, Mod!modulateBurst(148, 8 + Mod!Guard(t), sps)),
                t, sps, delay)
<1> DEFINE x == Mod!modulateBurst(148, 8 + Mod!Guard(t), sps)
<1>1. Modulated(x, 148, t)
  <2>1. 148 \in 1 .. 156 /\ 8 + Mod!Guard(t) \in Nat BY GuardIs
  <2>2. 148 + (8 + Mod!Guard(t)) = 156 + Mod!Guard(t) BY GuardIs
  <2> QED BY <2>1, <2>2, ModulateFits
<1> HIDE DEF x
<1>2. Mod!Burst(Mod!NormalFields, x) =
        [size |-> x.size, written |-> x.written, seq |-> 26, training |-> x.first + sps * 61]
  BY <1>1 DEF Modulated, Mod!Burst, Mod!NormalFields
<1>3. x.first + sps * 61 = IF sps = 4 THEN 248 ELSE 61 BY <1>1 DEF Modulated
<1> QED BY <1>1, <1>2, <1>3 DEF Fits, Modulated, x

LEMMA AccessFits ==
    ASSUME sps \in {1, 4}, delay \in 0 .. 68, NEW t \in 0 .. 7
    PROVE  Fits(Mod!genRandAccessBurst(t), t, sps, delay)
<1> DEFINE m == 88 + delay
           g == 68 - delay + Mod!Guard(t)
           x == Mod!modulateBurst(m, g, sps)
<1>1. Modulated(x, m, t)
  <2>1. m \in 1 .. 156 /\ g \in Nat BY GuardIs
  <2>2. m + g = 156 + Mod!Guard(t) BY GuardIs
  <2> HIDE DEF m, g
  <2> QED BY <2>1, <2>2, ModulateFits, Zenon
<1>2. Mod!genRandAccessBurst(t) = Mod!Burst(Mod!AccessFields(delay), x)
  BY DEF Mod!genRandAccessBurst
<1> HIDE DEF x
<1>3. /\ Mod!Burst(Mod!AccessFields(delay), x).size = x.size
      /\ Mod!Burst(Mod!AccessFields(delay), x).written = x.written
      /\ Mod!Burst(Mod!AccessFields(delay), x).seq = 41
  BY <1>1 DEF Modulated, Mod!Burst, Mod!AccessFields
<1> QED BY <1>1, <1>2, <1>3 DEF Fits, Modulated, Padding

LEMMA EdgeFits ==
    ASSUME sps = 4, NEW t \in 0 .. 7
    PROVE  Fits(Mod!Burst(Mod!EdgeFields, Mod!shapeEdgeBurst(148)), t, sps, delay)
<1>1. Mod!shapeEdgeBurst(148)
        = [size |-> 625, first |-> 4, written |-> {4 + 4 * i : i \in 0 .. 147}]
  BY DEF Mod!shapeEdgeBurst
<1>2. Mod!EdgeFields.seq = 26 /\ Mod!EdgeFields.training = 61
  <2>1. 9 \div 3 = 3 /\ 174 \div 3 = 58 /\ 78 \div 3 = 26 OBVIOUS
  <2> QED BY <2>1 DEF Mod!EdgeFields
<1>3. Mod!shapeEdgeBurst(148) # Mod!NULL BY <1>1 DEF Mod!NULL
<1>4. Mod!Burst(Mod!EdgeFields, Mod!shapeEdgeBurst(148)) =
        [size |-> 625, written |-> {4 + 4 * i : i \in 0 .. 147}, seq |-> 26,
         training |-> 4 + 4 * 61]
  BY <1>1, <1>2, <1>3 DEF Mod!Burst
<1>5. \A i \in {4 + 4 * j : j \in 0 .. 147} : i \in Int /\ i < 625 OBVIOUS
<1> QED BY <1>4, <1>5 DEF Fits

LEMMA FillerFits ==
    ASSUME ModTyped, NEW t \in 0 .. 7 PROVE Fits(Mod!FillerBurst(t), t, sps, delay)
<1>1. CASE filler \in {"DUMMY", "NORM_RAND"}
  BY <1>1, NormalFits
     DEF ModTyped, Mod!FillerBurst, Mod!generateDummyBurst, Mod!genRandNormalBurst
<1>2. CASE filler = "EDGE_RAND"
  BY <1>2, EdgeFits DEF ModTyped, Mod!FillerBurst, Mod!generateEdgeBurst
<1>3. CASE filler = "ACCESS_RAND"
  BY <1>3, AccessFits DEF ModTyped, Mod!FillerBurst
<1>4. CASE filler = "ZERO"
  <2>1. Mod!FillerBurst(t) =
          [size |-> IF sps = 4 THEN 625 ELSE 148 + 8 + Mod!Guard(t), written |-> {}, seq |-> 0,
           training |-> 0]
    BY <1>4 DEF Mod!FillerBurst, Mod!generateEmptyBurst
  <2>2. 148 + 8 + Mod!Guard(t) = 156 + Mod!Guard(t) BY GuardIs
  <2> QED BY <2>1, <2>2 DEF Fits
<1> QED BY <1>1, <1>2, <1>3, <1>4 DEF ModTyped, Mod!FILLERS


LEMMA ModInit == Mod!Init => ModIInv
<1> SUFFICES ASSUME Mod!Init PROVE ModIInv OBVIOUS
<1>1. ModTyped BY DEF Mod!Init, ModTyped
<1>2. table = <<>> /\ sent = Mod!NULL BY DEF Mod!Init
<1>3. DOMAIN table = 0 .. 0 - 1 BY <1>2
<1> QED BY <1>1, <1>2, <1>3 DEF ModIInv

LEMMA ModStep == ModIInv /\ [Mod!Next]_modVars => ModIInv'
<1> SUFFICES ASSUME ModIInv, [Mod!Next]_modVars PROVE ModIInv' OBVIOUS
<1> USE DEF ModIInv
<1>1. PICK k \in 0 .. 8 : DOMAIN table = 0 .. k - 1 OBVIOUS
<1>2. Mod!Cardinality(DOMAIN table) = k
  <2>1. Mod!Cardinality(DOMAIN table) = Cardinality(DOMAIN table)
    BY DEF Mod!Cardinality, Cardinality
  <2>2. Cardinality(0 .. k - 1) = k
    <3>1. 0 \in Int /\ k - 1 \in Int BY <1>1
    <3>2. Cardinality(0 .. k - 1) = IF 0 > k - 1 THEN 0 ELSE (k - 1) - 0 + 1 BY <3>1, FS_Interval
    <3> QED BY <1>1, <3>2
  <2> QED BY <1>1, <2>1, <2>2
<1>3. CASE Mod!Fill
  <2>1. /\ k < 8 /\ k \in 0 .. 7
        /\ table' = [t \in 0 .. k |-> IF t = k THEN Mod!FillerBurst(t) ELSE table[t]]
        /\ UNCHANGED <<filler, sps, delay, sent>>
    BY <1>1, <1>2, <1>3 DEF Mod!Fill
  <2>2. ModTyped' BY <2>1 DEF ModTyped
  <2>4. DOMAIN table' = 0 .. (k + 1) - 1 /\ k + 1 \in 0 .. 8 BY <2>1
  <2>5. ASSUME NEW t \in 0 .. k PROVE Fits(table'[t], t, sps, delay)
    <3>1. CASE t = k
      <4>1. table'[t] = Mod!FillerBurst(t) BY <2>1, <3>1
      <4> QED BY <2>1, <3>1, <4>1, FillerFits
    <3>2. CASE t # k
      <4>1. table'[t] = table[t] /\ t \in DOMAIN table BY <1>1, <2>1, <3>2
      <4> QED BY <4>1
    <3> QED BY <3>1, <3>2
  <2>6. (\A t \in DOMAIN table : Fits(table[t], t, sps, delay))'
    <3>1. DOMAIN table' = 0 .. k /\ sps' = sps /\ delay' = delay BY <2>1
    <3> QED BY <2>5, <3>1
  <2>7. (sent = Mod!NULL \/ \E t \in 0 .. 7 : Fits(sent, t, sps, delay))' BY <2>1 DEF Mod!NULL
  <2> QED BY <2>2, <2>4, <2>6, <2>7
<1>4. CASE Mod!Send
  <2>1. /\ UNCHANGED <<filler, sps, delay, table>>
        /\ \/ \E t \in 0 .. 7 :
                 sent' = Mod!Burst(Mod!NormalFields, Mod!modulateBurst(148, 8 + Mod!Guard(t), sps))
           \/ sps = 4 /\ sent' = Mod!Burst(Mod!EdgeFields, Mod!shapeEdgeBurst(148))
    <3>1. 444 \div 3 = 148 OBVIOUS
    <3> QED BY <1>4, <3>1 DEF Mod!Send
  <2>2. ModTyped' BY <2>1 DEF ModTyped
  <2>4. \E t \in 0 .. 7 : Fits(sent', t, sps, delay)
    <3>1. sps \in {1, 4} BY DEF ModTyped
    <3>2. sps = 4 => Fits(Mod!Burst(Mod!EdgeFields, Mod!shapeEdgeBurst(148)), 0, sps, delay)
      BY EdgeFits
    <3> HIDE DEF ModIInv
    <3> QED BY <2>1, <3>1, <3>2, NormalFits
  <2>5. (\E k1 \in 0 .. 8 : DOMAIN table = 0 .. k1 - 1)' BY <2>1
  <2>6. (\A t \in DOMAIN table : Fits(table[t], t, sps, delay))' BY <2>1
  <2>7. (\E t \in 0 .. 7 : Fits(sent, t, sps, delay))' BY <2>1, <2>4
  <2> QED BY <2>2, <2>5, <2>6, <2>7
<1>5. CASE UNCHANGED modVars
  BY <1>5 DEF modVars, ModTyped, Mod!NULL
<1> QED BY <1>3, <1>4, <1>5 DEF Mod!Next


\* Where the burst of slot t ends, in samples.
SlotEnd(t) == IF sps = 4 THEN 625 * (t + 1) ELSE 156 * (t + 1) + 1 + (t \div 4)

LEMMA SlotLate ==
    ASSUME sps \in {1, 4}, NEW t \in 0 .. 7
    PROVE  /\ SlotEnd(t) \in Int
           /\ 4 * SlotEnd(t) - 625 * sps * (t + 1) \in 0 .. 3 * sps
           /\ t = 7 => 4 * SlotEnd(t) - 625 * sps * (t + 1) = 0
<1>1. CASE sps = 4 BY <1>1 DEF SlotEnd
<1>2. CASE sps = 1 BY <1>2 DEF SlotEnd
<1> QED BY <1>1, <1>2

LEMMA SlotEndStep ==
    ASSUME sps \in {1, 4}, NEW t \in 0 .. 7, NEW b, Fits(b, t, sps, delay)
    PROVE  (IF t = 0 THEN 0 ELSE SlotEnd(t - 1)) + b.size = SlotEnd(t)
<1>1. CASE sps = 4 BY <1>1 DEF Fits, SlotEnd
<1>2. CASE sps = 1
  <2>1. b.size = 156 + Mod!Guard(t) BY <1>2 DEF Fits
  <2>2. Mod!Guard(t) = IF t \in {0, 4} THEN 1 ELSE 0 BY DEF Mod!Guard
  <2> QED BY <1>2, <2>1, <2>2 DEF SlotEnd
<1> QED BY <1>1, <1>2

LEMMA ModFrameLength == ASSUME ModIInv PROVE Mod!FrameLength
<1> DEFINE F == [t \in DOMAIN table |-> SlotEnd(t)]
           Next1(g, t) == (IF t = 0 THEN 0 ELSE g[t - 1]) + table[t].size
           Ends(g) == g = [t \in DOMAIN table |-> Next1(g, t)]
           end == CHOOSE g : Ends(g)
<1>1. PICK k \in 0 .. 8 : DOMAIN table = 0 .. k - 1 BY DEF ModIInv
<1>2. sps \in {1, 4} /\ \A t \in DOMAIN table : t \in 0 .. 7 /\ Fits(table[t], t, sps, delay)
  BY <1>1 DEF ModIInv, ModTyped
<1>3. Ends(F)
  <2>1. \A t \in DOMAIN table : F[t] = Next1(F, t)
    <3> SUFFICES ASSUME NEW t \in DOMAIN table PROVE F[t] = Next1(F, t) OBVIOUS
    <3>1. t # 0 => F[t - 1] = SlotEnd(t - 1) BY <1>1
    <3>2. (IF t = 0 THEN 0 ELSE SlotEnd(t - 1)) + table[t].size = SlotEnd(t) BY <1>2, SlotEndStep
    <3> QED BY <3>1, <3>2
  <2> HIDE DEF Next1
  <2> QED BY <2>1
<1>4. Ends(end) BY <1>3
<1>5. \A t \in Nat : t \in DOMAIN table => end[t] = SlotEnd(t)
  <2> DEFINE S == {t \in Nat : t \in DOMAIN table => end[t] = SlotEnd(t)}
  <2>1. \A t \in DOMAIN table : end[t] = Next1(end, t)
    <3> HIDE DEF end, Next1
    <3> QED BY <1>4
  <2> HIDE DEF end
  <2>2. 0 \in S
    <3> SUFFICES ASSUME 0 \in DOMAIN table PROVE end[0] = SlotEnd(0) OBVIOUS
    <3>1. end[0] = 0 + table[0].size BY <2>1
    <3>2. 0 + table[0].size = SlotEnd(0) BY <1>2, SlotEndStep
    <3> QED BY <3>1, <3>2
  <2>3. ASSUME NEW t \in Nat, t \in S PROVE t + 1 \in S
    <3> SUFFICES ASSUME t + 1 \in DOMAIN table PROVE end[t + 1] = SlotEnd(t + 1) OBVIOUS
    <3>1. t \in DOMAIN table /\ t + 1 \in 0 .. 7 /\ t + 1 # 0 /\ (t + 1) - 1 = t BY <1>1, <1>2
    <3>2. end[t] = SlotEnd(t) BY <2>3, <3>1
    <3>3. end[t + 1] = SlotEnd(t) + table[t + 1].size BY <2>1, <3>1, <3>2
    <3>4. (IF t + 1 = 0 THEN 0 ELSE SlotEnd((t + 1) - 1)) + table[t + 1].size = SlotEnd(t + 1)
      BY <1>2, <3>1, SlotEndStep
    <3> QED BY <3>1, <3>3, <3>4
  <2> HIDE DEF S
  <2>4. Nat \subseteq S BY <2>2, <2>3, SetInduction
  <2> QED BY <2>4 DEF S
<1> DEFINE late(t) == 4 * end[t] - 625 * sps * (t + 1)
<1>6. ASSUME NEW t \in DOMAIN table PROVE late(t) \in 0 .. 3 * sps /\ (t = 7 => late(t) = 0)
  <2>1. t \in 0 .. 7 /\ end[t] = SlotEnd(t) BY <1>2, <1>5
  <2> HIDE DEF end
  <2> QED BY <1>2, <2>1, SlotLate
<1> QED BY <1>6 DEF Mod!FrameLength

LEMMA ModHolds ==
    ASSUME ModIInv
    PROVE  Mod!OnlyPaddingOutside /\ Mod!FrameLength /\ Mod!TrainingAligned /\ Mod!FillerExists
<1>1. PICK k \in 0 .. 8 : DOMAIN table = 0 .. k - 1 BY DEF ModIInv
<1>2. \A t \in DOMAIN table : t \in 0 .. 7 /\ Fits(table[t], t, sps, delay)
  BY <1>1 DEF ModIInv
<1>3. \A b \in Mod!Bursts : \E t \in 0 .. 7 : Fits(b, t, sps, delay)
  BY <1>2 DEF Mod!Bursts, Mod!Made, ModIInv
<1>4. Mod!OnlyPaddingOutside BY <1>3 DEF Mod!OnlyPaddingOutside, Fits, Padding
<1>5. Mod!TrainingAligned BY <1>3 DEF Mod!TrainingAligned, Fits
<1>6. Mod!FillerExists
  <2> SUFFICES ASSUME NEW t \in DOMAIN table PROVE table[t] # Mod!NULL BY DEF Mod!FillerExists
  <2>1. table[t].size # 0 BY <1>2, GuardIs DEF Fits
  <2>2. Mod!NULL.size = 0 BY DEF Mod!NULL
  <2> QED BY <2>1, <2>2
<1> QED BY <1>4, <1>5, <1>6, ModFrameLength


LEMMA VectorsAlone ==
    /\ MCInit => Mod!Init /\ VectorInit
    /\ [MCNext]_MCvars => [Mod!Next]_modVars /\ [VectorNext]_vectorVars
<1>1. MCInit => Mod!Init /\ VectorInit BY Zenon DEF MCInit
<1>2. ASSUME [MCNext]_MCvars PROVE [Mod!Next]_modVars /\ [VectorNext]_vectorVars
  <2>1. CASE UNCHANGED MCvars BY <2>1, Zenon DEF MCvars
  <2>2. [Mod!Next]_modVars
    <3>1. CASE part = "modulator" /\ Mod!Next BY <3>1
    <3>2. CASE part # "modulator" /\ Others BY <3>2, Zenon DEF Others
    <3> QED BY <1>2, <2>1, <3>1, <3>2 DEF MCNext
  <2>3. [VectorNext]_vectorVars
    <3>1. CASE part = "vector" /\ VectorNext BY <3>1
    <3>2. CASE part # "vector" /\ Others BY <3>2, Zenon DEF Others
    <3> QED BY <1>2, <2>1, <3>1, <3>2 DEF MCNext
  <2> QED BY <2>2, <2>3
<1> QED BY <1>1, <1>2

\* For every filler, rate and delay that the VTY takes: the bursts of the
\* downlink are written inside of their vectors, but for the symbol of padding
\* of an access burst delayed by 68, which is behind; they follow each other at
\* the slots of the air without a drift, and have their training sequences in
\* one place; what
\* convolve(), delayVector() and the detectors read is allocated, a delayed
\* vector is the shifted input, and a call fails for a short input only.
THEOREM SmVectorsFit == MCSpec => []VectorsFit
<1> DEFINE VectorsIInv == ModIInv /\ VectorIInv /\ VectorReturns
<1>1. MCInit => VectorsIInv
  <2> SUFFICES ASSUME MCInit PROVE VectorsIInv OBVIOUS
  <2>1. Mod!Init /\ VectorInit BY VectorsAlone
  <2>2. VectorReturns
    BY <2>1 DEF VectorInit, NotCalled, VectorReturns, DelayIsShift, FailsOnlyWhenShort
  <2> QED BY <2>1, <2>2, ModInit, VectorInitIInv
<1>2. VectorsIInv /\ [MCNext]_MCvars => VectorsIInv'
  <2> SUFFICES ASSUME VectorsIInv, [MCNext]_MCvars PROVE VectorsIInv' OBVIOUS
  <2>1. [Mod!Next]_modVars /\ [VectorNext]_vectorVars BY VectorsAlone
  <2>2. Sized BY DEF VectorIInv
  <2> QED BY <2>1, <2>2, ModStep, VectorStepIInv, VectorReturnsStep
<1>3. VectorsIInv => VectorsFit
  BY ModHolds DEF VectorIInv, VectorReturns, VectorsFit
<1> QED BY <1>1, <1>2, <1>3, PTL DEF MCSpec

-----------------------------------------------------------------------------
(* The conversions (Cvt in MCSamples)                                      *)

CvtTyped ==
    /\ sse \in BOOLEAN /\ floatsLen \in Nat \ {0} /\ scale \in Nat
    /\ at \in 0 .. floatsLen - 1 /\ value \in Int

CvtIInv ==
    /\ CvtTyped /\ (Cvt!Written(floats) => Cvt!Written(shorts))
    /\ Cvt!EveryPlaceClose /\ Cvt!GroupsSaturate /\ Cvt!EveryPlaceBack

LEMMA HalfIs == Half \in Nat /\ Half >= 2
BY SamplesAssumption DEF Cvt!ConvertAssumption

LEMMA TruncatedClose ==
    ASSUME NEW v \in Int, Cvt!InRange(v) PROVE 4 * Cvt!Truncated(v) - v \in -3 .. 3
<1> DEFINE t == IF v >= 0 THEN v \div 4 ELSE -((-v) \div 4)
<1>1. v \in -4 * Half .. 4 * (Half - 1) BY DEF Cvt!InRange
<1>2. t \in Int /\ 4 * t - v \in -3 .. 3 OBVIOUS
<1>3. t + Half \in 0 .. 2 * Half - 1 BY <1>1, HalfIs
<1> HIDE DEF t
<1>4. ((t + Half) % (2 * Half)) = t + Half BY <1>2, <1>3, HalfIs
<1>5. Cvt!Truncated(v) = ((t + Half) % (2 * Half)) - Half BY DEF Cvt!Truncated, t
<1> QED BY <1>2, <1>4, <1>5, HalfIs

LEMMA RoundedClose ==
    ASSUME NEW v \in Int
    PROVE  Cvt!Rounded(v) \in Int /\ 4 * Cvt!Rounded(v) - v \in -2 .. 2
<1>1. v \div 4 \in Int /\ v % 4 \in 0 .. 3 /\ v = 4 * (v \div 4) + (v % 4) OBVIOUS
<1> QED BY <1>1 DEF Cvt!Rounded

LEMMA SaturatedClose ==
    ASSUME NEW v \in Int, Cvt!InRange(v)
    PROVE  4 * Cvt!Saturated(Cvt!Rounded(v)) - v \in -3 .. 3
<1> DEFINE r == Cvt!Rounded(v)
<1>1. r \in Int /\ 4 * r - v \in -2 .. 2 BY RoundedClose
<1>2. v \in -4 * Half .. 4 * (Half - 1) BY DEF Cvt!InRange
<1> HIDE DEF r
<1>3. r <= Half - 1 /\ r >= -Half BY <1>1, <1>2, HalfIs
<1>4. Cvt!Saturated(r) = r BY <1>1, <1>3, HalfIs DEF Cvt!Saturated
<1> QED BY <1>1, <1>4 DEF r

LEMMA SaturatedClips ==
    ASSUME NEW v \in Int, ~Cvt!InRange(v)
    PROVE  /\ Cvt!Saturated(Cvt!Rounded(v)) \in {-Half, Half - 1}
           /\ Cvt!Saturated(Cvt!Rounded(v)) > 0 <=> v > 0
<1> DEFINE r == Cvt!Rounded(v)
<1>1. r \in Int /\ 4 * r - v \in -2 .. 2 BY RoundedClose
<1>2. v < -4 * Half \/ v > 4 * (Half - 1) BY HalfIs DEF Cvt!InRange
<1> HIDE DEF r
<1>3. CASE v < -4 * Half
  <2>1. r <= -Half BY <1>1, <1>3, HalfIs
  <2>2. Cvt!Saturated(r) = -Half BY <1>1, <2>1, HalfIs DEF Cvt!Saturated
  <2> QED BY <1>3, <2>2, HalfIs DEF r
<1>4. CASE v > 4 * (Half - 1)
  <2>1. r >= Half - 1 BY <1>1, <1>4, HalfIs
  <2>2. Cvt!Saturated(r) = Half - 1 BY <1>1, <2>1, HalfIs DEF Cvt!Saturated
  <2> QED BY <1>4, <2>2, HalfIs DEF r
<1> QED BY <1>2, <1>3, <1>4

\* Which conversion makes the short at place i.
ShortAt(i) ==
    IF sse /\ i < 8 * (floatsLen \div 8) THEN Cvt!Saturated(Cvt!Rounded(Cvt!in[i] * scale))
                                         ELSE Cvt!Truncated(Cvt!in[i] * scale)

LEMMA EightsIs ==
    ASSUME floatsLen \in Nat \ {0}
    PROVE  Cvt!_sse_convert_scale_ps_si16_8n =
             [i \in 0 .. 8 * (floatsLen \div 8) - 1 |->
                 Cvt!Saturated(Cvt!Rounded(Cvt!in[i] * scale))]
<1> DEFINE m == 8 * (floatsLen \div 8)
<1>1. ASSUME NEW i \in 0 .. m - 1
      PROVE  Cvt!Packed(8 * (i \div 8))[i % 8] = Cvt!Saturated(Cvt!Rounded(Cvt!in[i] * scale))
  <2>1. i % 8 \in 0 .. 7 /\ 8 * (i \div 8) + (i % 8) = i OBVIOUS
  <2> QED BY <2>1 DEF Cvt!Packed
<1> QED BY <1>1 DEF Cvt!_sse_convert_scale_ps_si16_8n

LEMMA SixteensIs ==
    ASSUME floatsLen \in Nat \ {0}
    PROVE  Cvt!_sse_convert_scale_ps_si16_16n =
             [i \in 0 .. 16 * (floatsLen \div 16) - 1 |->
                 Cvt!Saturated(Cvt!Rounded(Cvt!in[i] * scale))]
<1> DEFINE m == 16 * (floatsLen \div 16)
           g(i) == IF i % 16 < 8 THEN Cvt!Packed(16 * (i \div 16))[i % 16]
                   ELSE Cvt!Packed(16 * (i \div 16) + 8)[(i % 16) - 8]
<1>1. ASSUME NEW i \in 0 .. m - 1
      PROVE  g(i) = Cvt!Saturated(Cvt!Rounded(Cvt!in[i] * scale))
  <2>1. i % 16 \in 0 .. 15 /\ 16 * (i \div 16) + (i % 16) = i OBVIOUS
  <2>2. CASE i % 16 < 8
    <3>1. i % 16 \in 0 .. 7 BY <2>1, <2>2
    <3> QED BY <2>1, <2>2, <3>1 DEF Cvt!Packed
  <2>3. CASE ~(i % 16 < 8)
    <3>1. (i % 16) - 8 \in 0 .. 7 /\ (16 * (i \div 16) + 8) + ((i % 16) - 8) = i BY <2>1, <2>3
    <3> QED BY <2>3, <3>1 DEF Cvt!Packed
  <2> QED BY <2>2, <2>3
<1> HIDE DEF m
<1> QED BY <1>1 DEF Cvt!_sse_convert_scale_ps_si16_16n, m

LEMMA FloatShortIs ==
    ASSUME CvtTyped PROVE Cvt!FloatShort = [i \in 0 .. floatsLen - 1 |-> ShortAt(i)]
<1>1. floatsLen \in Nat \ {0} /\ sse \in BOOLEAN BY DEF CvtTyped
<1>2. CASE ~sse
  BY <1>2 DEF Cvt!FloatShort, Cvt!base_convert_float_short, ShortAt
<1>3. CASE sse /\ floatsLen % 16 = 0
  <2>1. 16 * (floatsLen \div 16) = floatsLen /\ 8 * (floatsLen \div 8) = floatsLen BY <1>1, <1>3
  <2>2. Cvt!FloatShort = Cvt!_sse_convert_scale_ps_si16_16n BY <1>3 DEF Cvt!FloatShort
  <2>3. \A i \in 0 .. floatsLen - 1 : i < 8 * (floatsLen \div 8) BY <1>1, <2>1
  <2> QED BY <1>1, <1>3, <2>1, <2>2, <2>3, SixteensIs DEF ShortAt
<1>4. CASE sse /\ floatsLen % 16 = 8
  <2>1. 8 * (floatsLen \div 8) = floatsLen BY <1>1, <1>4
  <2>2. Cvt!FloatShort = Cvt!_sse_convert_scale_ps_si16_8n BY <1>4 DEF Cvt!FloatShort
  <2>3. \A i \in 0 .. floatsLen - 1 : i < 8 * (floatsLen \div 8) BY <1>1, <2>1
  <2> QED BY <1>1, <1>4, <2>1, <2>2, <2>3, EightsIs DEF ShortAt
<1>5. CASE sse /\ floatsLen % 16 # 0 /\ floatsLen % 16 # 8
  <2> DEFINE m == 8 * (floatsLen \div 8)
  <2>1. Cvt!FloatShort = [i \in 0 .. floatsLen - 1 |->
            IF i < m THEN Cvt!_sse_convert_scale_ps_si16_8n[i]
            ELSE Cvt!Truncated(Cvt!in[i] * scale)]
    BY <1>5 DEF Cvt!FloatShort, Cvt!_sse_convert_scale_ps_si16
  <2>2. \A i \in 0 .. floatsLen - 1 : i < m =>
            Cvt!_sse_convert_scale_ps_si16_8n[i] = Cvt!Saturated(Cvt!Rounded(Cvt!in[i] * scale))
    <3>1. m \in Nat BY <1>1
    <3>2. Cvt!_sse_convert_scale_ps_si16_8n =
             [i \in 0 .. m - 1 |-> Cvt!Saturated(Cvt!Rounded(Cvt!in[i] * scale))]
      BY <1>1, EightsIs
    <3> HIDE DEF m
    <3> QED BY <1>1, <3>1, <3>2
  <2> QED BY <1>5, <2>1, <2>2 DEF ShortAt
<1> QED BY <1>1, <1>2, <1>3, <1>4, <1>5

LEMMA SamplesAre ==
    ASSUME CvtTyped, NEW i \in 0 .. floatsLen - 1
    PROVE  Cvt!in[i] = IF i = at THEN value ELSE 0
BY DEF CvtTyped, Cvt!in

LEMMA ProductTyped == ASSUME NEW v \in Int, NEW s \in Nat PROVE v * s \in Int
OBVIOUS

LEMMA SameSign == ASSUME NEW v \in Int, NEW s \in Nat, v * s # 0 PROVE v * s > 0 <=> v > 0
<1>1. s > 0 OBVIOUS
<1>2. v > 0 => v * s > 0 BY <1>1
<1>3. v < 0 => v * s < 0 BY <1>1
<1> QED BY <1>2, <1>3

LEMMA ShortClose ==
    ASSUME CvtTyped, Cvt!InRange(value * scale), NEW i \in 0 .. floatsLen - 1
    PROVE  4 * ShortAt(i) - Cvt!in[i] * scale \in -3 .. 3
<1> DEFINE v == Cvt!in[i] * scale
<1>1. v \in Int /\ (v = value * scale \/ v = 0)
  <2>1. scale \in Nat /\ value \in Int BY DEF CvtTyped
  <2>2. 0 * scale = 0 BY <2>1
  <2> QED BY <2>1, <2>2, SamplesAre, ProductTyped
<1>2. Cvt!InRange(0) BY HalfIs DEF Cvt!InRange
<1>3. Cvt!InRange(v) BY <1>1, <1>2
<1>4. ShortAt(i) = Cvt!Saturated(Cvt!Rounded(v)) \/ ShortAt(i) = Cvt!Truncated(v)
  BY DEF ShortAt
<1> HIDE DEF v
<1>5. 4 * ShortAt(i) - v \in -3 .. 3 BY <1>1, <1>3, <1>4, TruncatedClose, SaturatedClose
<1> QED BY <1>5 DEF v

LEMMA FloatShortCloses ==
    ASSUME CvtTyped, ~Cvt!Written(floats), Cvt!convert_float_short, CvtTyped'
    PROVE  Cvt!EveryPlaceClose' /\ Cvt!GroupsSaturate' /\ Cvt!EveryPlaceBack'
<1>1. shorts' = [i \in 0 .. floatsLen - 1 |-> ShortAt(i)]
  BY FloatShortIs DEF Cvt!convert_float_short
<1>2. UNCHANGED <<sse, floatsLen, scale, at, value, floats>> BY DEF Cvt!convert_float_short
<1>3. Cvt!in' = Cvt!in BY <1>2 DEF Cvt!in
<1>4. Cvt!EveryPlaceClose'
  <2>1. Cvt!InRange(value * scale) =>
            \A i \in 0 .. floatsLen - 1 : 4 * shorts'[i] - Cvt!in[i] * scale \in -3 .. 3
    BY <1>1, ShortClose
  <2>2. DOMAIN shorts' = 0 .. floatsLen - 1 BY <1>1
  <2>3. Cvt!InRange(value * scale)' = Cvt!InRange(value * scale) BY <1>2 DEF Cvt!InRange
  <2> QED BY <1>2, <1>3, <2>1, <2>2, <2>3 DEF Cvt!EveryPlaceClose
<1>5. Cvt!GroupsSaturate'
  <2> SUFFICES ASSUME sse, at < 8 * (floatsLen \div 8), ~Cvt!InRange(value * scale)
               PROVE  shorts'[at] \in {-Half, Half - 1} /\ (shorts'[at] > 0 <=> value > 0)
    <3>1. Cvt!InRange(value * scale)' = Cvt!InRange(value * scale) BY <1>2 DEF Cvt!InRange
    <3> QED BY <1>2, <3>1 DEF Cvt!GroupsSaturate
  <2> DEFINE v == value * scale
  <2>1. v \in Int BY ProductTyped DEF CvtTyped
  <2>2. v # 0 BY HalfIs DEF Cvt!InRange
  <2>3. v > 0 <=> value > 0 BY <2>2, SameSign DEF CvtTyped
  <2>4. shorts'[at] = Cvt!Saturated(Cvt!Rounded(v))
    <3>1. at \in 0 .. floatsLen - 1 BY DEF CvtTyped
    <3>2. shorts'[at] = ShortAt(at) BY <1>1, <3>1
    <3>3. Cvt!in[at] = value BY <3>1, SamplesAre
    <3> QED BY <3>2, <3>3 DEF ShortAt
  <2> HIDE DEF v
  <2>5. ~Cvt!InRange(v) BY DEF v
  <2> QED BY <2>1, <2>3, <2>4, <2>5, SaturatedClips
<1>6. Cvt!EveryPlaceBack' BY <1>2 DEF Cvt!EveryPlaceBack, Cvt!Written
<1> QED BY <1>4, <1>5, <1>6

LEMMA KernelBack ==
    ASSUME floatsLen \in Nat, NEW a, NEW i \in 0 .. 16 * (floatsLen \div 16) - 1
    PROVE  Cvt!_sse_convert_si16_ps_16n(a)[i] = a[i]
<1> DEFINE m == [k \in 0 .. 7 |-> a[8 * (i \div 8) + k]]
<1>1. 8 * (i \div 8) + (i % 8) = i /\ i % 8 \in 0 .. 7 /\ i % 4 \in 0 .. 3 OBVIOUS
<1>2. m[i % 8] = a[i] BY <1>1
<1>3. i % 8 < 4 => i % 4 = i % 8 OBVIOUS
<1>4. ~(i % 8 < 4) => (((i % 4) + 4) % 8) = i % 8 OBVIOUS
<1> HIDE DEF m
<1>5. i % 8 < 4 => Cvt!Widened(m)[i % 4] = a[i] BY <1>1, <1>2, <1>3 DEF Cvt!Widened
<1>6. ~(i % 8 < 4) => Cvt!Widened(Cvt!HalvesSwapped(m))[i % 4] = a[i]
  <2>1. i % 4 \in 0 .. 7 BY <1>1
  <2>2. Cvt!Widened(Cvt!HalvesSwapped(m))[i % 4] = m[(((i % 4) + 4) % 8)]
    BY <1>1, <2>1 DEF Cvt!Widened, Cvt!HalvesSwapped
  <2> QED BY <1>2, <1>4, <2>2
<1>7. Cvt!_sse_convert_si16_ps_16n(a)[i] =
        IF i % 8 < 4 THEN Cvt!Widened(m)[i % 4] ELSE Cvt!Widened(Cvt!HalvesSwapped(m))[i % 4]
  BY DEF Cvt!_sse_convert_si16_ps_16n, m
<1> QED BY <1>5, <1>6, <1>7

LEMMA ShortFloatIs ==
    ASSUME CvtTyped, NEW a, a = [i \in 0 .. floatsLen - 1 |-> a[i]] PROVE Cvt!ShortFloat(a) = a
<1> DEFINE s == 16 * (floatsLen \div 16)
<1>1. floatsLen \in Nat /\ s \in Nat /\ s <= floatsLen /\ sse \in BOOLEAN BY DEF CvtTyped
<1>2. \A i \in 0 .. s - 1 : Cvt!_sse_convert_si16_ps_16n(a)[i] = a[i]
  BY <1>1, KernelBack
<1>3. CASE ~sse BY <1>3 DEF Cvt!ShortFloat
<1>4. CASE sse /\ floatsLen % 16 = 0
  <2>1. s = floatsLen BY <1>1, <1>4
  <2>2. Cvt!ShortFloat(a) = Cvt!_sse_convert_si16_ps_16n(a) BY <1>4 DEF Cvt!ShortFloat
  <2> DEFINE k == Cvt!_sse_convert_si16_ps_16n(a)
  <2>3. k = [i \in 0 .. s - 1 |-> k[i]] BY DEF Cvt!_sse_convert_si16_ps_16n
  <2>4. \A i \in 0 .. floatsLen - 1 : k[i] = a[i] BY <1>2, <2>1
  <2> HIDE DEF k, s
  <2>5. [i \in 0 .. s - 1 |-> k[i]] = [i \in 0 .. floatsLen - 1 |-> a[i]] BY <2>1, <2>4
  <2> QED BY <2>2, <2>3, <2>5, Zenon DEF k
<1>5. CASE sse /\ floatsLen % 16 # 0
  <2>1. Cvt!ShortFloat(a) =
          [i \in 0 .. floatsLen - 1 |-> IF i < s THEN Cvt!_sse_convert_si16_ps_16n(a)[i] ELSE a[i]]
    BY <1>5 DEF Cvt!ShortFloat, Cvt!_sse_convert_si16_ps
  <2> DEFINE k == Cvt!_sse_convert_si16_ps_16n(a)
  <2> HIDE DEF s, k
  <2>2. \A i \in 0 .. floatsLen - 1 : (IF i < s THEN k[i] ELSE a[i]) = a[i] BY <1>1, <1>2 DEF k
  <2>3. [i \in 0 .. floatsLen - 1 |-> IF i < s THEN k[i] ELSE a[i]] =
        [i \in 0 .. floatsLen - 1 |-> a[i]]
    BY <2>2, Zenon
  <2> QED BY <2>1, <2>3, Zenon DEF k
<1> QED BY <1>1, <1>3, <1>4, <1>5

LEMMA CvtInit == Cvt!Init => CvtIInv
<1> SUFFICES ASSUME Cvt!Init PROVE CvtIInv OBVIOUS
<1>1. MaxFloats \in Nat /\ MaxValue \in Nat /\ Scales \subseteq Nat
  BY SamplesAssumption DEF Cvt!ConvertAssumption
<1>2. CvtTyped BY <1>1 DEF Cvt!Init, CvtTyped
<1>3. shorts = <<>> /\ floats = <<>> BY DEF Cvt!Init
<1> QED BY <1>2, <1>3 DEF CvtIInv, Cvt!Written, Cvt!EveryPlaceClose, Cvt!GroupsSaturate,
           Cvt!EveryPlaceBack

LEMMA CvtStep == CvtIInv /\ [Cvt!Next]_cvtVars => CvtIInv'
<1> SUFFICES ASSUME CvtIInv, [Cvt!Next]_cvtVars PROVE CvtIInv' OBVIOUS
<1> USE DEF CvtIInv
<1>1. CASE Cvt!convert_float_short
  <2>1. CvtTyped' BY <1>1 DEF CvtTyped, Cvt!convert_float_short
  <2>2. ~Cvt!Written(floats) /\ floats' = floats BY <1>1 DEF Cvt!convert_float_short
  <2>3. Cvt!EveryPlaceClose' /\ Cvt!GroupsSaturate' /\ Cvt!EveryPlaceBack'
    BY <1>1, <2>1, <2>2, FloatShortCloses
  <2>4. ~Cvt!Written(floats)' BY <2>2 DEF Cvt!Written
  <2> QED BY <2>1, <2>3, <2>4
<1>2. CASE Cvt!convert_short_float
  <2>1. UNCHANGED <<sse, floatsLen, scale, at, value, shorts>> /\ Cvt!Written(shorts)
    BY <1>2 DEF Cvt!convert_short_float
  <2>2. CvtTyped' BY <2>1 DEF CvtTyped
  <2>3. Cvt!Written(shorts)' BY <2>1 DEF Cvt!Written
  <2>4. Cvt!EveryPlaceClose' /\ Cvt!GroupsSaturate'
    BY <2>1 DEF Cvt!EveryPlaceClose, Cvt!GroupsSaturate, Cvt!Written, Cvt!InRange, Cvt!in
  <2>5. floats' = [i \in 0 .. floatsLen - 1 |-> <<i, shorts[i]>>]
    <3> DEFINE a == [i \in 0 .. floatsLen - 1 |-> <<i, shorts[i]>>]
    <3>1. a = [i \in 0 .. floatsLen - 1 |-> a[i]] OBVIOUS
    <3>2. Cvt!ShortFloat(a) = a
      <4> HIDE DEF a
      <4> QED BY <3>1, ShortFloatIs
    <3> QED BY <1>2, <3>2 DEF Cvt!convert_short_float
  <2>6. Cvt!EveryPlaceBack' BY <2>1, <2>5 DEF Cvt!EveryPlaceBack
  <2> QED BY <2>2, <2>3, <2>4, <2>6
<1>3. CASE UNCHANGED cvtVars
  BY <1>3 DEF cvtVars, CvtTyped, Cvt!EveryPlaceClose, Cvt!GroupsSaturate, Cvt!EveryPlaceBack,
     Cvt!Written, Cvt!InRange, Cvt!in
<1> QED BY <1>1, <1>2, <1>3 DEF Cvt!Next

-----------------------------------------------------------------------------
(* The convolution (Conv in MCSamples)                                     *)

ConvTyped ==
    /\ complex \in BOOLEAN /\ sse3 \in BOOLEAN
    /\ h_len \in Nat \ {0} /\ x_len \in Nat /\ y_len \in Nat /\ start \in Nat /\ len \in Nat
    /\ xAt \in -2 * (h_len - 1) .. 2 * x_len - 1 /\ hAt \in 0 .. 2 * h_len - 1

\* The input from number o on has a number for every number of the taps.
Reaches(o) == o \in Int /\ o >= -2 * (h_len - 1) /\ o + 2 * h_len <= 2 * x_len

\* What meets: the number i of x and the number j of h, and the sum over the
\* first m groups of w numbers of h: those with the remainder c.
Met(i, j) == IF xAt = i /\ hAt = j THEN 15 ELSE 0
MetIn(o, m, w, c, d) == IF hAt < w * m /\ hAt % w = c /\ xAt = o + hAt + d THEN 15 ELSE 0

\* The two parts of an output for the input at o.
RePart(o) ==
    IF hAt % 2 = 0 THEN IF xAt = o + hAt THEN 15 ELSE 0
    ELSE IF complex /\ xAt = o + hAt THEN -15 ELSE 0
ImPart(o) ==
    IF hAt % 2 = 0 THEN IF xAt = o + hAt + 1 THEN 15 ELSE 0
    ELSE IF complex /\ xAt = o + hAt - 1 THEN 15 ELSE 0

LEMMA MetTyped ==
    /\ \A i, j : Met(i, j) \in Int
    /\ \A o, m, w, c, d : MetIn(o, m, w, c, d) \in Int
BY DEF Met, MetIn

LEMMA Met2Step ==
    ASSUME ConvTyped, NEW o \in Int, NEW m \in Nat \ {0}, NEW c \in Nat, c < 2, NEW d \in Int
    PROVE  MetIn(o, m, 2, c, d)
               = MetIn(o, m - 1, 2, c, d) + Met(o + 2 * (m - 1) + c + d, 2 * (m - 1) + c)
<1>1. hAt \in Nat /\ xAt \in Int BY DEF ConvTyped
<1> QED BY <1>1 DEF Met, MetIn

LEMMA MetNone ==
    ASSUME ConvTyped, NEW o \in Int, NEW w \in {2, 8, 16}, NEW c \in Nat, NEW d \in Int
    PROVE  MetIn(o, 0, w, c, d) = 0
BY DEF ConvTyped, MetIn

LEMMA TapsAre ==
    ASSUME ConvTyped, NEW j \in 0 .. 2 * h_len - 1 PROVE Conv!h[j] = IF j = hAt THEN 5 ELSE 0
BY DEF Conv!h

LEMMA InputIs ==
    ASSUME ConvTyped, NEW i \in -2 * (h_len - 1) .. 2 * x_len - 1
    PROVE  Conv!x[i] = IF i = xAt THEN 3 ELSE 0
BY DEF Conv!x

\* The product of two numbers.
LEMMA ProductIs ==
    ASSUME ConvTyped, NEW o, Reaches(o), NEW i \in Int, NEW j \in 0 .. 2 * h_len - 1,
           i \in o .. o + 2 * h_len - 1
    PROVE  Conv!x[i] * Conv!h[j] = Met(i, j) /\ Conv!h[j] * Conv!x[i] = Met(i, j)
<1>1. i \in -2 * (h_len - 1) .. 2 * x_len - 1 BY DEF ConvTyped, Reaches
<1> DEFINE a == Conv!x[i]
           b == Conv!h[j]
<1>2. a = (IF i = xAt THEN 3 ELSE 0) /\ b = (IF j = hAt THEN 5 ELSE 0)
  BY <1>1, TapsAre, InputIs
<1> HIDE DEF a, b
<1>3. a * b = Met(i, j) /\ b * a = Met(i, j)
  <2>1. (a = 3 \/ a = 0) /\ (b = 5 \/ b = 0) BY <1>2
  <2> QED BY <1>2, <2>1 DEF Met
<1> QED BY <1>3 DEF a, b

\* The plain kernels.
LEMMA PlainReal ==
    ASSUME ConvTyped, ~complex, NEW o, Reaches(o)
    PROVE  Conv!mac_real_vec_n(<<0, 0>>, o) = <<RePart(o), ImPart(o)>>
<1> DEFINE Next1(g, n1) ==
               IF n1 = 0 THEN <<0, 0>>
               ELSE <<g[n1 - 1][1] + Conv!x[o + 2 * (n1 - 1)] * Conv!h[2 * (n1 - 1)],
                      g[n1 - 1][2] + Conv!x[o + 2 * (n1 - 1) + 1] * Conv!h[2 * (n1 - 1)]>>
           Sums(g) == g = [n1 \in 0 .. h_len |-> Next1(g, n1)]
           acc == CHOOSE g : Sums(g)
           F(n1) == <<MetIn(o, n1, 2, 0, 0), MetIn(o, n1, 2, 0, 1)>>
           f == [n1 \in 0 .. h_len |-> F(n1)]
<1>0. h_len \in Nat \ {0} /\ o \in Int BY DEF ConvTyped, Reaches
<1>1. Conv!mac_real_vec_n(<<0, 0>>, o) = acc[h_len] BY DEF Conv!mac_real_vec_n
<1>2. F(0) = <<0, 0>> BY <1>0, MetNone
<1>3. ASSUME NEW k \in 1 .. h_len, NEW g, g[k - 1] = F(k - 1) PROVE Next1(g, k) = F(k)
  <2>1. k \in Nat \ {0} BY <1>0
  <2>2. /\ Conv!x[o + 2 * (k - 1)] * Conv!h[2 * (k - 1)] = Met(o + 2 * (k - 1), 2 * (k - 1))
        /\ Conv!x[o + 2 * (k - 1) + 1] * Conv!h[2 * (k - 1)]
               = Met(o + 2 * (k - 1) + 1, 2 * (k - 1))
    BY <1>0, ProductIs
  <2>3. /\ MetIn(o, k, 2, 0, 0) = MetIn(o, k - 1, 2, 0, 0) + Met(o + 2 * (k - 1), 2 * (k - 1))
        /\ MetIn(o, k, 2, 0, 1) = MetIn(o, k - 1, 2, 0, 1) + Met(o + 2 * (k - 1) + 1, 2 * (k - 1))
    <3>1. o + 2 * (k - 1) + 0 + 0 = o + 2 * (k - 1) /\ 2 * (k - 1) + 0 = 2 * (k - 1)
          /\ o + 2 * (k - 1) + 0 + 1 = o + 2 * (k - 1) + 1 BY <1>0
    <3> QED BY <1>0, <2>1, <3>1, Met2Step
  <2> QED BY <1>3, <2>1, <2>2, <2>3
<1> HIDE DEF F, Next1
<1>4. Sums(f)
  <2>1. ASSUME NEW k \in 0 .. h_len PROVE F(k) = Next1(f, k)
    <3>1. CASE k = 0 BY <1>2, <3>1 DEF Next1
    <3>2. CASE k # 0
      <4>1. k \in 1 .. h_len /\ k - 1 \in 0 .. h_len BY <1>0, <3>2
      <4> QED BY <1>3, <4>1
    <3> QED BY <3>1, <3>2
  <2> QED BY <2>1
<1>5. Sums(acc) BY <1>4
<1>6. acc[h_len] = f[h_len]
  <2>1. \A k \in 0 .. h_len : acc[k] = Next1(acc, k)
    <3> HIDE DEF acc
    <3> QED BY <1>5
  <2>2. \A k \in 0 .. h_len : f[k] = F(k) OBVIOUS
  <2> HIDE DEF acc, f
  <2>3. acc[0] = f[0]
    <3>1. 0 \in 0 .. h_len BY <1>0
    <3> QED BY <1>2, <2>1, <2>2, <3>1 DEF Next1
  <2>4. ASSUME NEW k \in 1 .. h_len, acc[k - 1] = f[k - 1] PROVE acc[k] = f[k]
    <3>1. k \in 0 .. h_len /\ k - 1 \in 0 .. h_len BY <1>0
    <3> QED BY <1>3, <2>1, <2>2, <2>4, <3>1
  <2> QED BY <1>0, <2>3, <2>4, SameUpTo
<1>7. f[h_len] = F(h_len) BY <1>0
<1>8. F(h_len) = <<RePart(o), ImPart(o)>>
  <2>1. hAt < 2 * h_len /\ hAt \in Nat BY DEF ConvTyped
  <2> QED BY <1>0, <2>1 DEF F, MetIn, RePart, ImPart
<1> QED BY <1>1, <1>6, <1>7, <1>8

LEMMA PlainComplex ==
    ASSUME ConvTyped, complex, NEW o, Reaches(o)
    PROVE  Conv!mac_cmplx_vec_n(<<0, 0>>, o) = <<RePart(o), ImPart(o)>>
<1> DEFINE Next1(g, n1) ==
               IF n1 = 0 THEN <<0, 0>>
               ELSE LET k1 == 2 * (n1 - 1)
                    IN  <<g[n1 - 1][1] + Conv!x[o + k1] * Conv!h[k1]
                              - Conv!x[o + k1 + 1] * Conv!h[k1 + 1],
                          g[n1 - 1][2] + Conv!x[o + k1] * Conv!h[k1 + 1]
                              + Conv!x[o + k1 + 1] * Conv!h[k1]>>
           Sums(g) == g = [n1 \in 0 .. h_len |-> Next1(g, n1)]
           acc == CHOOSE g : Sums(g)
           F(n1) == <<MetIn(o, n1, 2, 0, 0) - MetIn(o, n1, 2, 1, 0),
                     MetIn(o, n1, 2, 1, -1) + MetIn(o, n1, 2, 0, 1)>>
           f == [n1 \in 0 .. h_len |-> F(n1)]
<1>0. h_len \in Nat \ {0} /\ o \in Int BY DEF ConvTyped, Reaches
<1>1. Conv!mac_cmplx_vec_n(<<0, 0>>, o) = acc[h_len] BY DEF Conv!mac_cmplx_vec_n
<1>2. F(0) = <<0, 0>> BY <1>0, MetNone
<1>3. ASSUME NEW k \in 1 .. h_len, NEW g, g[k - 1] = F(k - 1) PROVE Next1(g, k) = F(k)
  <2>1. k \in Nat \ {0} BY <1>0
  <2> DEFINE k1 == 2 * (k - 1)
  <2>0. k1 \in 0 .. 2 * h_len - 2 /\ k1 + 1 \in 0 .. 2 * h_len - 1 BY <1>0
  <2>2. /\ Conv!x[o + k1] * Conv!h[k1] = Met(o + k1, k1)
        /\ Conv!x[o + k1 + 1] * Conv!h[k1 + 1] = Met(o + k1 + 1, k1 + 1)
        /\ Conv!x[o + k1] * Conv!h[k1 + 1] = Met(o + k1, k1 + 1)
        /\ Conv!x[o + k1 + 1] * Conv!h[k1] = Met(o + k1 + 1, k1)
    <3> HIDE DEF k1
    <3> QED BY <1>0, <2>0, ProductIs
  <2>3. /\ MetIn(o, k, 2, 0, 0) = MetIn(o, k - 1, 2, 0, 0) + Met(o + k1, k1)
        /\ MetIn(o, k, 2, 1, 0) = MetIn(o, k - 1, 2, 1, 0) + Met(o + k1 + 1, k1 + 1)
        /\ MetIn(o, k, 2, 1, -1) = MetIn(o, k - 1, 2, 1, -1) + Met(o + k1, k1 + 1)
        /\ MetIn(o, k, 2, 0, 1) = MetIn(o, k - 1, 2, 0, 1) + Met(o + k1 + 1, k1)
    <3>1. /\ o + k1 + 0 + 0 = o + k1 /\ k1 + 0 = k1 /\ o + k1 + 0 + 1 = o + k1 + 1
          /\ o + k1 + 1 + 0 = o + k1 + 1 /\ o + k1 + 1 + (-1) = o + k1
      BY <1>0
    <3>2. \A c \in {0, 1}, d \in {-1, 0, 1} :
             MetIn(o, k, 2, c, d) = MetIn(o, k - 1, 2, c, d) + Met(o + k1 + c + d, k1 + c)
      <4> TAKE c \in {0, 1}, d \in {-1, 0, 1}
      <4>1. c \in Nat /\ c < 2 /\ d \in Int OBVIOUS
      <4>2. MetIn(o, k, 2, c, d)
                = MetIn(o, k - 1, 2, c, d) + Met(o + 2 * (k - 1) + c + d, 2 * (k - 1) + c)
        <5> HIDE DEF k1, Next1
        <5> QED BY <1>0, <2>1, <4>1, Met2Step
      <4> QED BY <4>2
    <3> HIDE DEF k1
    <3>3. /\ MetIn(o, k, 2, 0, 0) = MetIn(o, k - 1, 2, 0, 0) + Met(o + k1 + 0 + 0, k1 + 0)
          /\ MetIn(o, k, 2, 1, 0) = MetIn(o, k - 1, 2, 1, 0) + Met(o + k1 + 1 + 0, k1 + 1)
          /\ MetIn(o, k, 2, 1, -1) = MetIn(o, k - 1, 2, 1, -1) + Met(o + k1 + 1 + (-1), k1 + 1)
          /\ MetIn(o, k, 2, 0, 1) = MetIn(o, k - 1, 2, 0, 1) + Met(o + k1 + 0 + 1, k1 + 0)
      BY <3>2
    <3> QED BY <3>1, <3>3
  <2>4. /\ MetIn(o, k - 1, 2, 0, 0) \in Int /\ MetIn(o, k - 1, 2, 1, 0) \in Int
        /\ MetIn(o, k - 1, 2, 1, -1) \in Int /\ MetIn(o, k - 1, 2, 0, 1) \in Int
        /\ Met(o + k1, k1) \in Int /\ Met(o + k1 + 1, k1 + 1) \in Int
        /\ Met(o + k1, k1 + 1) \in Int /\ Met(o + k1 + 1, k1) \in Int
    <3> HIDE DEF k1
    <3> QED BY MetTyped, Zenon
  <2>5. Next1(g, k) = <<g[k - 1][1] + Met(o + k1, k1) - Met(o + k1 + 1, k1 + 1),
                        g[k - 1][2] + Met(o + k1, k1 + 1) + Met(o + k1 + 1, k1)>>
    BY <2>1, <2>2
  <2> HIDE DEF k1, Next1
  <2> QED BY <1>3, <2>3, <2>4, <2>5
<1> HIDE DEF F, Next1
<1>4. Sums(f)
  <2>1. ASSUME NEW k \in 0 .. h_len PROVE F(k) = Next1(f, k)
    <3>1. CASE k = 0 BY <1>2, <3>1 DEF Next1
    <3>2. CASE k # 0
      <4>1. k \in 1 .. h_len /\ k - 1 \in 0 .. h_len BY <1>0, <3>2
      <4> QED BY <1>3, <4>1
    <3> QED BY <3>1, <3>2
  <2> QED BY <2>1
<1>5. Sums(acc) BY <1>4
<1>6. acc[h_len] = f[h_len]
  <2>1. \A k \in 0 .. h_len : acc[k] = Next1(acc, k)
    <3> HIDE DEF acc
    <3> QED BY <1>5
  <2>2. \A k \in 0 .. h_len : f[k] = F(k) OBVIOUS
  <2> HIDE DEF acc, f
  <2>3. acc[0] = f[0]
    <3>1. 0 \in 0 .. h_len BY <1>0
    <3> QED BY <1>2, <2>1, <2>2, <3>1 DEF Next1
  <2>4. ASSUME NEW k \in 1 .. h_len, acc[k - 1] = f[k - 1] PROVE acc[k] = f[k]
    <3>1. k \in 0 .. h_len /\ k - 1 \in 0 .. h_len BY <1>0
    <3> QED BY <1>3, <2>1, <2>2, <2>4, <3>1
  <2> QED BY <1>0, <2>3, <2>4, SameUpTo
<1>7. f[h_len] = F(h_len) BY <1>0
<1>8. F(h_len) = <<RePart(o), ImPart(o)>>
  <2>1. hAt < 2 * h_len /\ hAt \in Nat BY DEF ConvTyped
  <2> QED BY <1>0, <2>1 DEF F, MetIn, RePart, ImPart
<1> QED BY <1>1, <1>6, <1>7, <1>8

\* Registers of four lanes, the sum of their lanes, and the place of a lane
\* in eight numbers (the gathered parts are in an order of their own).
Regs == [1 .. 4 -> Int]
Total(r) == r[1] + r[2] + r[3] + r[4]
LaneAt(l) == IF l = 1 THEN 2 ELSE IF l = 2 THEN 0 ELSE IF l = 3 THEN 6 ELSE 4

LEMMA Gathered ==
    ASSUME NEW a, NEW i \in Int, NEW l \in 1 .. 4
    PROVE  Conv!Reals(a, i)[l] = a[i + LaneAt(l)] /\ Conv!Imags(a, i)[l] = a[i + LaneAt(l) + 1]
<1>1. /\ Conv!Reals(a, i) = <<a[i + 2], a[i], a[(i + 4) + 2], a[i + 4]>>
      /\ Conv!Imags(a, i) = <<a[i + 3], a[i + 1], a[(i + 4) + 3], a[(i + 4) + 1]>>
  BY DEF Conv!Reals, Conv!Imags, Conv!Shuffle, Conv!Load
<1>2. /\ i + 0 = i /\ (i + 4) + 2 = i + 6 /\ i + 2 + 1 = i + 3 /\ i + 0 + 1 = i + 1
      /\ i + 6 + 1 = (i + 4) + 3 /\ i + 4 + 1 = (i + 4) + 1
  OBVIOUS
<1>3. CASE l = 1 BY <1>1, <1>2, <1>3 DEF LaneAt
<1>4. CASE l = 2 BY <1>1, <1>2, <1>4 DEF LaneAt
<1>5. CASE l = 3 BY <1>1, <1>2, <1>5 DEF LaneAt
<1>6. CASE l = 4 BY <1>1, <1>2, <1>6 DEF LaneAt
<1> QED BY <1>3, <1>4, <1>5, <1>6

LEMMA SumsAre ==
    ASSUME NEW a \in Regs, NEW b \in Regs
    PROVE  /\ Conv!Add(a, b) = [l \in 1 .. 4 |-> a[l] + b[l]] /\ Conv!Add(a, b) \in Regs
           /\ Conv!Sub(a, b) = [l \in 1 .. 4 |-> a[l] - b[l]] /\ Conv!Sub(a, b) \in Regs
           /\ Total(Conv!Add(a, b)) = Total(a) + Total(b)
           /\ Total(Conv!Sub(a, b)) = Total(a) - Total(b)
           /\ Total(a) \in Int
BY DEF Conv!Add, Conv!Sub, Conv!Lanes, Regs, Total

LEMMA StoredIs ==
    ASSUME NEW a \in Regs, NEW b \in Regs
    PROVE  Conv!SumStore(a, b) = <<Total(a), Total(b)>>
<1>1. Conv!Hadd(a, b) = <<a[1] + a[2], a[3] + a[4], b[1] + b[2], b[3] + b[4]>> BY DEF Conv!Hadd
<1> DEFINE g == Conv!Hadd(a, b)
           m == Conv!Hadd(g, g)
<1>2. m = <<g[1] + g[2], g[3] + g[4], g[1] + g[2], g[3] + g[4]>> BY DEF Conv!Hadd
<1>3. g[1] + g[2] = Total(a) /\ g[3] + g[4] = Total(b) BY <1>1 DEF Total, Regs
<1>4. Conv!SumStore(a, b) = <<m[1], Conv!Shuffle(m, m, 0, 3, 2, 1)[1]>> BY DEF Conv!SumStore
<1> HIDE DEF m, g
<1>5. Conv!Shuffle(m, m, 0, 3, 2, 1) = <<m[2], m[3], m[4], m[1]>> BY DEF Conv!Shuffle
<1> QED BY <1>2, <1>3, <1>4, <1>5

\* The products of four taps, lane by lane.
LEMMA ProductsAre ==
    ASSUME ConvTyped, NEW o, Reaches(o), NEW t \in Nat, t + 8 <= 2 * h_len
    PROVE  /\ Conv!RR(t, o + t) = [l \in 1 .. 4 |-> Met(o + t + LaneAt(l), t + LaneAt(l))]
           /\ Conv!RI(t, o + t) = [l \in 1 .. 4 |-> Met(o + t + LaneAt(l) + 1, t + LaneAt(l))]
           /\ Conv!CR(t, o + t) = [l \in 1 .. 4 |-> Met(o + t + LaneAt(l), t + LaneAt(l))
                                               - Met(o + t + LaneAt(l) + 1, t + LaneAt(l) + 1)]
           /\ Conv!CI(t, o + t) = [l \in 1 .. 4 |-> Met(o + t + LaneAt(l) + 1, t + LaneAt(l))
                                               + Met(o + t + LaneAt(l), t + LaneAt(l) + 1)]
<1>1. o \in Int /\ h_len \in Nat \ {0} BY DEF Reaches, ConvTyped
<1>2. ASSUME NEW l \in 1 .. 4
      PROVE  /\ Conv!Reals(Conv!x, o + t)[l] = Conv!x[o + t + LaneAt(l)]
             /\ Conv!Imags(Conv!x, o + t)[l] = Conv!x[o + t + LaneAt(l) + 1]
             /\ Conv!Reals(Conv!h, t)[l] = Conv!h[t + LaneAt(l)]
             /\ Conv!Imags(Conv!h, t)[l] = Conv!h[t + LaneAt(l) + 1]
  <2>1. o + t \in Int /\ t \in Int BY <1>1
  <2> QED BY <2>1, Gathered
<1>3. ASSUME NEW l \in 1 .. 4, NEW d \in {0, 1}, NEW e \in {0, 1}
      PROVE  /\ Conv!x[o + t + LaneAt(l) + d] * Conv!h[t + LaneAt(l) + e]
                    = Met(o + t + LaneAt(l) + d, t + LaneAt(l) + e)
             /\ Conv!h[t + LaneAt(l) + e] * Conv!x[o + t + LaneAt(l) + d]
                    = Met(o + t + LaneAt(l) + d, t + LaneAt(l) + e)
  <2> DEFINE i == o + t + LaneAt(l) + d
             j == t + LaneAt(l) + e
  <2>1. i \in Int /\ i \in o .. o + 2 * h_len - 1 /\ j \in 0 .. 2 * h_len - 1
    <3>1. LaneAt(l) \in 0 .. 6 BY DEF LaneAt
    <3> QED BY <1>1, <3>1
  <2> HIDE DEF i, j
  <2>2. Conv!x[i] * Conv!h[j] = Met(i, j) /\ Conv!h[j] * Conv!x[i] = Met(i, j)
    BY <2>1, ProductIs
  <2> QED BY <2>2 DEF i, j
<1>4. ASSUME NEW l \in 1 .. 4
      PROVE  LET k1 == o + t + LaneAt(l)  k2 == t + LaneAt(l) IN
             /\ Conv!x[k1] * Conv!h[k2] = Met(k1, k2) /\ Conv!h[k2] * Conv!x[k1] = Met(k1, k2)
             /\ Conv!x[k1 + 1] * Conv!h[k2] = Met(k1 + 1, k2)
             /\ Conv!h[k2] * Conv!x[k1 + 1] = Met(k1 + 1, k2)
             /\ Conv!h[k2 + 1] * Conv!x[k1] = Met(k1, k2 + 1)
             /\ Conv!h[k2 + 1] * Conv!x[k1 + 1] = Met(k1 + 1, k2 + 1)
  <2> DEFINE k1 == o + t + LaneAt(l)
             k2 == t + LaneAt(l)
  <2>1. k1 + 0 = k1 /\ k2 + 0 = k2
    <3>1. LaneAt(l) \in 0 .. 6 BY DEF LaneAt
    <3> QED BY <1>1, <3>1
  <2>2. \A d \in {0, 1}, e \in {0, 1} :
           /\ Conv!x[k1 + d] * Conv!h[k2 + e] = Met(k1 + d, k2 + e)
           /\ Conv!h[k2 + e] * Conv!x[k1 + d] = Met(k1 + d, k2 + e)
    BY <1>3
  <2> HIDE DEF k1, k2
  <2>3. /\ Conv!x[k1 + 0] * Conv!h[k2 + 0] = Met(k1 + 0, k2 + 0)
        /\ Conv!h[k2 + 0] * Conv!x[k1 + 0] = Met(k1 + 0, k2 + 0)
        /\ Conv!x[k1 + 1] * Conv!h[k2 + 0] = Met(k1 + 1, k2 + 0)
        /\ Conv!h[k2 + 0] * Conv!x[k1 + 1] = Met(k1 + 1, k2 + 0)
        /\ Conv!h[k2 + 1] * Conv!x[k1 + 0] = Met(k1 + 0, k2 + 1)
        /\ Conv!h[k2 + 1] * Conv!x[k1 + 1] = Met(k1 + 1, k2 + 1)
    BY <2>2, Zenon
  <2>4. /\ Conv!x[k1] * Conv!h[k2] = Met(k1, k2) /\ Conv!h[k2] * Conv!x[k1] = Met(k1, k2)
        /\ Conv!x[k1 + 1] * Conv!h[k2] = Met(k1 + 1, k2)
        /\ Conv!h[k2] * Conv!x[k1 + 1] = Met(k1 + 1, k2)
        /\ Conv!h[k2 + 1] * Conv!x[k1] = Met(k1, k2 + 1)
        /\ Conv!h[k2 + 1] * Conv!x[k1 + 1] = Met(k1 + 1, k2 + 1)
    BY <2>1, <2>3
  <2> QED BY <2>4 DEF k1, k2
<1>5. Conv!RR(t, o + t) = [l \in 1 .. 4 |-> Met(o + t + LaneAt(l), t + LaneAt(l))]
  BY <1>2, <1>4 DEF Conv!RR, Conv!Mul, Conv!Lanes
<1>6. Conv!RI(t, o + t) = [l \in 1 .. 4 |-> Met(o + t + LaneAt(l) + 1, t + LaneAt(l))]
  BY <1>2, <1>4 DEF Conv!RI, Conv!Mul, Conv!Lanes
<1>7. Conv!CR(t, o + t) = [l \in 1 .. 4 |-> Met(o + t + LaneAt(l), t + LaneAt(l))
                                       - Met(o + t + LaneAt(l) + 1, t + LaneAt(l) + 1)]
  BY <1>2, <1>4 DEF Conv!CR, Conv!Mul, Conv!Sub, Conv!Lanes
<1>8. Conv!CI(t, o + t) = [l \in 1 .. 4 |-> Met(o + t + LaneAt(l) + 1, t + LaneAt(l))
                                       + Met(o + t + LaneAt(l), t + LaneAt(l) + 1)]
  BY <1>2, <1>4 DEF Conv!CI, Conv!Mul, Conv!Add, Conv!Lanes
<1> QED BY <1>5, <1>6, <1>7, <1>8

\* What meets of the eight numbers of h from t on.
GroupMet(o, t, d) ==
    IF hAt \in t .. t + 7 /\ (hAt - t) % 2 = 0 /\ xAt = o + hAt + d THEN 15 ELSE 0

LEMMA FourMet ==
    ASSUME ConvTyped, NEW o \in Int, NEW t \in Nat, NEW d \in {0, 1}
    PROVE  Met(o + t + 2 + d, t + 2) + Met(o + t + 0 + d, t + 0) + Met(o + t + 6 + d, t + 6)
               + Met(o + t + 4 + d, t + 4) = GroupMet(o, t, d)
<1>1. hAt \in Nat /\ xAt \in Int BY DEF ConvTyped
<1> QED BY <1>1 DEF Met, GroupMet

LEMMA GroupTotals ==
    ASSUME ConvTyped, NEW o, Reaches(o), NEW t \in Nat, t + 8 <= 2 * h_len
    PROVE  /\ Conv!RR(t, o + t) \in Regs /\ Total(Conv!RR(t, o + t)) = GroupMet(o, t, 0)
           /\ Conv!RI(t, o + t) \in Regs /\ Total(Conv!RI(t, o + t)) = GroupMet(o, t, 1)
<1>1. o \in Int BY DEF Reaches
<1> DEFINE re(l) == Met(o + t + LaneAt(l), t + LaneAt(l))
           im(l) == Met(o + t + LaneAt(l) + 1, t + LaneAt(l))
<1>2. Conv!RR(t, o + t) = [l \in 1 .. 4 |-> re(l)] /\ Conv!RI(t, o + t) = [l \in 1 .. 4 |-> im(l)]
  BY ProductsAre
<1>3. \A l \in 1 .. 4 : re(l) \in Int /\ im(l) \in Int BY MetTyped, Zenon
<1>4. /\ LaneAt(1) = 2 /\ LaneAt(2) = 0 /\ LaneAt(3) = 6 /\ LaneAt(4) = 4
  BY DEF LaneAt
<1>5. re(1) + re(2) + re(3) + re(4) = GroupMet(o, t, 0)
  <2>1. Met(o + t + 2 + 0, t + 2) + Met(o + t + 0 + 0, t + 0) + Met(o + t + 6 + 0, t + 6)
            + Met(o + t + 4 + 0, t + 4) = GroupMet(o, t, 0)
    BY <1>1, FourMet
  <2>2. /\ o + t + 2 + 0 = o + t + 2 /\ o + t + 0 + 0 = o + t + 0 /\ o + t + 6 + 0 = o + t + 6
        /\ o + t + 4 + 0 = o + t + 4
    BY <1>1
  <2> QED BY <1>4, <2>1, <2>2
<1>6. im(1) + im(2) + im(3) + im(4) = GroupMet(o, t, 1)
  <2>1. Met(o + t + 2 + 1, t + 2) + Met(o + t + 0 + 1, t + 0) + Met(o + t + 6 + 1, t + 6)
            + Met(o + t + 4 + 1, t + 4) = GroupMet(o, t, 1)
    BY <1>1, FourMet
  <2> QED BY <1>4, <2>1
<1> HIDE DEF re, im
<1> QED BY <1>2, <1>3, <1>5, <1>6 DEF Regs, Total

\* Sums of two registers of each part.
AreTotals(a, b, re, im) == a \in Regs /\ b \in Regs /\ Total(a) = re /\ Total(b) = im

LEMMA TotalsAdd ==
    ASSUME NEW a, NEW b, NEW c, NEW d, NEW re, NEW im, NEW re2, NEW im2,
           AreTotals(a, b, re, im), AreTotals(c, d, re2, im2)
    PROVE  AreTotals(Conv!Add(a, c), Conv!Add(b, d), re + re2, im + im2)
BY SumsAre DEF AreTotals

LEMMA GroupsAre ==
    ASSUME ConvTyped, NEW o, Reaches(o), NEW t \in Nat, t + 8 <= 2 * h_len
    PROVE  AreTotals(Conv!RR(t, o + t), Conv!RI(t, o + t), GroupMet(o, t, 0), GroupMet(o, t, 1))
BY GroupTotals DEF AreTotals

LEMMA Stored ==
    ASSUME NEW a, NEW b, NEW re, NEW im, AreTotals(a, b, re, im)
    PROVE  Conv!SumStore(a, b) = <<re, im>>
BY StoredIs DEF AreTotals

LEMMA FixedReal ==
    ASSUME ConvTyped, ~complex, NEW o, Reaches(o)
    PROVE  /\ h_len = 4 => Conv!sse_conv_real4(o) = <<RePart(o), ImPart(o)>>
           /\ h_len = 8 => Conv!sse_conv_real8(o) = <<RePart(o), ImPart(o)>>
           /\ h_len = 12 => Conv!sse_conv_real12(o) = <<RePart(o), ImPart(o)>>
           /\ h_len = 16 => Conv!sse_conv_real16(o) = <<RePart(o), ImPart(o)>>
           /\ h_len = 20 => Conv!sse_conv_real20(o) = <<RePart(o), ImPart(o)>>
<1>1. o \in Int /\ o + 0 = o /\ xAt \in Int /\ hAt \in 0 .. 2 * h_len - 1 BY DEF Reaches, ConvTyped
<1> DEFINE R(t) == Conv!RR(t, o + t)
           I(t) == Conv!RI(t, o + t)
           re(t) == GroupMet(o, t, 0)
           im(t) == GroupMet(o, t, 1)
<1>2. ASSUME NEW t \in Nat, t + 8 <= 2 * h_len PROVE AreTotals(R(t), I(t), re(t), im(t))
  BY <1>2, GroupsAre
<1>3. R(0) = Conv!RR(0, o) /\ I(0) = Conv!RI(0, o) BY <1>1
<1>4. CASE h_len = 4
  <2>1. AreTotals(R(0), I(0), re(0), im(0)) BY <1>2, <1>4
  <2>2. Conv!sse_conv_real4(o) = <<re(0), im(0)>>
    BY <1>3, <2>1, Stored DEF Conv!sse_conv_real4
  <2>3. re(0) = RePart(o) /\ im(0) = ImPart(o) BY <1>1, <1>4 DEF GroupMet, RePart, ImPart
  <2> QED BY <1>4, <2>2, <2>3
<1>5. CASE h_len = 8
  <2>1. AreTotals(R(0), I(0), re(0), im(0)) /\ AreTotals(R(8), I(8), re(8), im(8)) BY <1>2, <1>5
  <2> HIDE DEF R, I, re, im
  <2>2. AreTotals(Conv!Add(R(0), R(8)), Conv!Add(I(0), I(8)), re(0) + re(8), im(0) + im(8))
    BY <2>1, TotalsAdd
  <2>3. Conv!sse_conv_real8(o) = Conv!SumStore(Conv!Add(R(0), R(8)), Conv!Add(I(0), I(8)))
    BY <1>3 DEF Conv!sse_conv_real8, R, I
  <2>4. Conv!sse_conv_real8(o) = <<re(0) + re(8), im(0) + im(8)>> BY <2>2, <2>3, Stored
  <2>5. re(0) + re(8) = RePart(o) /\ im(0) + im(8) = ImPart(o)
    BY <1>1, <1>5 DEF GroupMet, RePart, ImPart, re, im
  <2> QED BY <1>5, <2>4, <2>5
<1>6. CASE h_len = 12
  <2>1. /\ AreTotals(R(0), I(0), re(0), im(0)) /\ AreTotals(R(8), I(8), re(8), im(8))
        /\ AreTotals(R(16), I(16), re(16), im(16))
    BY <1>2, <1>6
  <2> HIDE DEF R, I, re, im
  <2>2. AreTotals(Conv!Add(R(0), R(8)), Conv!Add(I(0), I(8)), re(0) + re(8), im(0) + im(8))
    BY <2>1, TotalsAdd
  <2>3. AreTotals(Conv!Add(Conv!Add(R(0), R(8)), R(16)), Conv!Add(Conv!Add(I(0), I(8)), I(16)),
                  re(0) + re(8) + re(16), im(0) + im(8) + im(16))
    BY <2>1, <2>2, TotalsAdd
  <2>4. Conv!sse_conv_real12(o) = Conv!SumStore(Conv!Add(Conv!Add(R(0), R(8)), R(16)),
                                                Conv!Add(Conv!Add(I(0), I(8)), I(16)))
    BY <1>3 DEF Conv!sse_conv_real12, R, I
  <2>5. Conv!sse_conv_real12(o) = <<re(0) + re(8) + re(16), im(0) + im(8) + im(16)>>
    BY <2>3, <2>4, Stored
  <2>6. re(0) + re(8) + re(16) = RePart(o) /\ im(0) + im(8) + im(16) = ImPart(o)
    BY <1>1, <1>6 DEF GroupMet, RePart, ImPart, re, im
  <2> QED BY <1>6, <2>5, <2>6
<1>7. CASE h_len = 16 \/ h_len = 20
  <2>1. /\ AreTotals(R(0), I(0), re(0), im(0)) /\ AreTotals(R(8), I(8), re(8), im(8))
        /\ AreTotals(R(16), I(16), re(16), im(16)) /\ AreTotals(R(24), I(24), re(24), im(24))
    BY <1>2, <1>7
  <2>2. h_len = 20 => AreTotals(R(32), I(32), re(32), im(32)) BY <1>2
  <2> HIDE DEF R, I, re, im
  <2>3. AreTotals(Conv!Add(R(0), R(8)), Conv!Add(I(0), I(8)), re(0) + re(8), im(0) + im(8))
    BY <2>1, TotalsAdd
  <2>4. CASE h_len = 16
    <3>1. AreTotals(Conv!Add(R(16), R(24)), Conv!Add(I(16), I(24)), re(16) + re(24),
                    im(16) + im(24))
      BY <2>1, TotalsAdd
    <3>2. AreTotals(Conv!Add(Conv!Add(R(0), R(8)), Conv!Add(R(16), R(24))),
                    Conv!Add(Conv!Add(I(0), I(8)), Conv!Add(I(16), I(24))),
                    (re(0) + re(8)) + (re(16) + re(24)), (im(0) + im(8)) + (im(16) + im(24)))
      BY <2>3, <3>1, TotalsAdd
    <3>3. Conv!sse_conv_real16(o) =
            Conv!SumStore(Conv!Add(Conv!Add(R(0), R(8)), Conv!Add(R(16), R(24))),
                          Conv!Add(Conv!Add(I(0), I(8)), Conv!Add(I(16), I(24))))
      BY <1>3 DEF Conv!sse_conv_real16, R, I
    <3>4. Conv!sse_conv_real16(o) =
            <<(re(0) + re(8)) + (re(16) + re(24)), (im(0) + im(8)) + (im(16) + im(24))>>
      BY <3>2, <3>3, Stored
    <3>5. /\ (re(0) + re(8)) + (re(16) + re(24)) = RePart(o)
          /\ (im(0) + im(8)) + (im(16) + im(24)) = ImPart(o)
      BY <1>1, <2>4 DEF GroupMet, RePart, ImPart, re, im
    <3> QED BY <2>4, <3>4, <3>5
  <2>5. CASE h_len = 20
    <3>1. AreTotals(Conv!Add(R(24), R(32)), Conv!Add(I(24), I(32)), re(24) + re(32),
                    im(24) + im(32))
      BY <2>1, <2>2, <2>5, TotalsAdd
    <3>2. AreTotals(Conv!Add(Conv!Add(R(0), R(8)), R(16)), Conv!Add(Conv!Add(I(0), I(8)), I(16)),
                    re(0) + re(8) + re(16), im(0) + im(8) + im(16))
      BY <2>1, <2>3, TotalsAdd
    <3>3. AreTotals(Conv!Add(Conv!Add(Conv!Add(R(0), R(8)), R(16)), Conv!Add(R(24), R(32))),
                    Conv!Add(Conv!Add(Conv!Add(I(0), I(8)), I(16)), Conv!Add(I(24), I(32))),
                    (re(0) + re(8) + re(16)) + (re(24) + re(32)),
                    (im(0) + im(8) + im(16)) + (im(24) + im(32)))
      BY <3>1, <3>2, TotalsAdd
    <3>4. Conv!sse_conv_real20(o) =
            Conv!SumStore(
                Conv!Add(Conv!Add(Conv!Add(R(0), R(8)), R(16)), Conv!Add(R(24), R(32))),
                Conv!Add(Conv!Add(Conv!Add(I(0), I(8)), I(16)), Conv!Add(I(24), I(32))))
      BY <1>3 DEF Conv!sse_conv_real20, R, I
    <3>5. Conv!sse_conv_real20(o) =
            <<(re(0) + re(8) + re(16)) + (re(24) + re(32)),
              (im(0) + im(8) + im(16)) + (im(24) + im(32))>>
      BY <3>3, <3>4, Stored
    <3>6. /\ (re(0) + re(8) + re(16)) + (re(24) + re(32)) = RePart(o)
          /\ (im(0) + im(8) + im(16)) + (im(24) + im(32)) = ImPart(o)
      BY <1>1, <2>5 DEF GroupMet, RePart, ImPart, re, im
    <3> QED BY <2>5, <3>5, <3>6
  <2> QED BY <1>7, <2>4, <2>5
<1> QED BY <1>4, <1>5, <1>6, <1>7

LEMMA LaneStep ==
    ASSUME ConvTyped, NEW o, Reaches(o), NEW k \in Nat \ {0}, NEW l \in 1 .. 4
    PROVE  LET t == 8 * (k - 1)  j == LaneAt(l) IN
           /\ MetIn(o, k, 8, j, 0) = MetIn(o, k - 1, 8, j, 0) + Met(o + t + j, t + j)
           /\ MetIn(o, k, 8, j, 1) = MetIn(o, k - 1, 8, j, 1) + Met(o + t + j + 1, t + j)
           /\ MetIn(o, k, 8, j + 1, 0)
                  = MetIn(o, k - 1, 8, j + 1, 0) + Met(o + t + j + 1, t + j + 1)
           /\ MetIn(o, k, 8, j + 1, -1) = MetIn(o, k - 1, 8, j + 1, -1) + Met(o + t + j, t + j + 1)
<1> DEFINE t == 8 * (k - 1)
           j == LaneAt(l)
<1>1. o \in Int /\ t \in Nat /\ j \in {0, 2, 4, 6} BY DEF Reaches, LaneAt
<1>2. hAt \in Nat /\ xAt \in Int BY DEF ConvTyped
<1> HIDE DEF j
<1>3. /\ MetIn(o, k, 8, j, 0) = MetIn(o, k - 1, 8, j, 0) + Met(o + t + j, t + j)
      /\ MetIn(o, k, 8, j, 1) = MetIn(o, k - 1, 8, j, 1) + Met(o + t + j + 1, t + j)
  BY <1>1, <1>2 DEF Met, MetIn
<1>4. /\ MetIn(o, k, 8, j + 1, 0) = MetIn(o, k - 1, 8, j + 1, 0) + Met(o + t + j + 1, t + j + 1)
      /\ MetIn(o, k, 8, j + 1, -1) = MetIn(o, k - 1, 8, j + 1, -1) + Met(o + t + j, t + j + 1)
  BY <1>1, <1>2 DEF Met, MetIn
<1> QED BY <1>3, <1>4 DEF j

LEMMA AllMet ==
    ASSUME ConvTyped, NEW o, Reaches(o), NEW k \in Nat, 8 * k = 2 * h_len
    PROVE  /\ ~complex =>
                /\ MetIn(o, k, 8, 2, 0) + MetIn(o, k, 8, 0, 0) + MetIn(o, k, 8, 6, 0)
                       + MetIn(o, k, 8, 4, 0) = RePart(o)
                /\ MetIn(o, k, 8, 2, 1) + MetIn(o, k, 8, 0, 1) + MetIn(o, k, 8, 6, 1)
                       + MetIn(o, k, 8, 4, 1) = ImPart(o)
           /\ complex =>
                /\ (MetIn(o, k, 8, 2, 0) - MetIn(o, k, 8, 3, 0))
                       + (MetIn(o, k, 8, 0, 0) - MetIn(o, k, 8, 1, 0))
                       + (MetIn(o, k, 8, 6, 0) - MetIn(o, k, 8, 7, 0))
                       + (MetIn(o, k, 8, 4, 0) - MetIn(o, k, 8, 5, 0)) = RePart(o)
                /\ (MetIn(o, k, 8, 2, 1) + MetIn(o, k, 8, 3, -1))
                       + (MetIn(o, k, 8, 0, 1) + MetIn(o, k, 8, 1, -1))
                       + (MetIn(o, k, 8, 6, 1) + MetIn(o, k, 8, 7, -1))
                       + (MetIn(o, k, 8, 4, 1) + MetIn(o, k, 8, 5, -1)) = ImPart(o)
<1>1. hAt \in Nat /\ hAt < 8 * k /\ xAt \in Int /\ o \in Int BY DEF ConvTyped, Reaches
<1>2. hAt % 8 \in 0 .. 7 /\ hAt % 2 = ((hAt % 8) % 2) BY <1>1
<1> DEFINE r == hAt % 8
<1>3. CASE r \in {0, 2, 4, 6}
  <2>1. hAt % 2 = 0 BY <1>2, <1>3
  <2>2. r = 0 \/ r = 2 \/ r = 4 \/ r = 6 BY <1>3
  <2> HIDE DEF r
  <2>3. \A c, d : MetIn(o, k, 8, c, d) = IF r = c /\ xAt = o + hAt + d THEN 15 ELSE 0
    BY <1>1, Zenon DEF MetIn, r
  <2> QED BY <1>1, <2>1, <2>2, <2>3 DEF RePart, ImPart
<1>4. CASE r \in {1, 3, 5, 7}
  <2>1. hAt % 2 = 1 BY <1>2, <1>4
  <2>2. r = 1 \/ r = 3 \/ r = 5 \/ r = 7 BY <1>4
  <2> HIDE DEF r
  <2>3. \A c, d : MetIn(o, k, 8, c, d) = IF r = c /\ xAt = o + hAt + d THEN 15 ELSE 0
    BY <1>1, Zenon DEF MetIn, r
  <2> QED BY <1>1, <2>1, <2>2, <2>3 DEF RePart, ImPart
<1> QED BY <1>2, <1>3, <1>4

\* The kernel for any multiple of four real taps.
LEMMA FoursReal ==
    ASSUME ConvTyped, ~complex, NEW o, Reaches(o), h_len % 4 = 0
    PROVE  Conv!sse_conv_real4n(o) = <<RePart(o), ImPart(o)>>
<1> DEFINE N1 == h_len \div 4
           T1(n1) == 8 * (n1 - 1)
           Next1(g, n1) ==
               IF n1 = 0 THEN <<Conv!Zero, Conv!Zero>>
               ELSE <<Conv!Add(g[n1 - 1][1], Conv!RR(8 * (n1 - 1), o + 8 * (n1 - 1))),
                      Conv!Add(g[n1 - 1][2], Conv!RI(8 * (n1 - 1), o + 8 * (n1 - 1)))>>
           Sums(g) == g = [n1 \in 0 .. h_len \div 4 |-> Next1(g, n1)]
           acc == CHOOSE g : Sums(g)
           re(n1, l) == MetIn(o, n1, 8, LaneAt(l), 0)
           im(n1, l) == MetIn(o, n1, 8, LaneAt(l), 1)
           F(n1) == IF n1 = 0 THEN <<Conv!Zero, Conv!Zero>>
                    ELSE <<[l \in 1 .. 4 |-> re(n1, l)], [l \in 1 .. 4 |-> im(n1, l)]>>
           f == [n1 \in 0 .. h_len \div 4 |-> F(n1)]
<1>0. /\ h_len \in Nat \ {0} /\ o \in Int /\ N1 \in Nat \ {0} /\ 8 * N1 = 2 * h_len
  BY DEF ConvTyped, Reaches
<1>1. Conv!sse_conv_real4n(o) = Conv!SumStore(acc[N1][1], acc[N1][2]) BY DEF Conv!sse_conv_real4n
<1>2. ASSUME NEW n1 \in Nat, NEW l \in 1 .. 4
      PROVE  F(n1)[1][l] = re(n1, l) /\ F(n1)[2][l] = im(n1, l)
  <2>1. CASE n1 = 0
    <3>1. LaneAt(l) \in Nat BY DEF LaneAt
    <3>2. re(0, l) = 0 /\ im(0, l) = 0 BY <1>0, <3>1, MetNone
    <3>3. Conv!Zero[l] = 0 BY DEF Conv!Zero
    <3> QED BY <2>1, <3>2, <3>3
  <2>2. CASE n1 # 0 BY <2>2
  <2> QED BY <2>1, <2>2
<1>3. ASSUME NEW k \in 1 .. N1, NEW g, g[k - 1] = F(k - 1) PROVE Next1(g, k) = F(k)
  <2>1. k \in Nat \ {0} /\ k - 1 \in Nat /\ 8 * (k - 1) \in Nat /\ 8 * (k - 1) + 8 <= 2 * h_len
    BY <1>0
  <2> DEFINE t == 8 * (k - 1)
             rr == Conv!RR(t, o + t)
             ri == Conv!RI(t, o + t)
  <2>2. Next1(g, k) = <<Conv!Add(F(k - 1)[1], rr), Conv!Add(F(k - 1)[2], ri)>> BY <1>3, <2>1
  <2>3. ASSUME NEW l \in 1 .. 4
        PROVE  F(k - 1)[1][l] + rr[l] = re(k, l) /\ F(k - 1)[2][l] + ri[l] = im(k, l)
    <3>1. /\ rr[l] = Met(o + t + LaneAt(l), t + LaneAt(l))
          /\ ri[l] = Met(o + t + LaneAt(l) + 1, t + LaneAt(l))
      <4> DEFINE a(m) == Met(o + t + LaneAt(m), t + LaneAt(m))
                 b(m) == Met(o + t + LaneAt(m) + 1, t + LaneAt(m))
      <4>1. rr = [m \in 1 .. 4 |-> a(m)] /\ ri = [m \in 1 .. 4 |-> b(m)]
        <5>1. t \in Nat /\ t + 8 <= 2 * h_len BY <2>1
        <5> HIDE DEF Next1, t
        <5> QED BY <5>1, ProductsAre
      <4> HIDE DEF a, b, rr, ri
      <4>2. rr[l] = a(l) /\ ri[l] = b(l) BY <4>1
      <4> QED BY <4>2 DEF a, b
    <3>2. /\ re(k, l) = re(k - 1, l) + Met(o + t + LaneAt(l), t + LaneAt(l))
          /\ im(k, l) = im(k - 1, l) + Met(o + t + LaneAt(l) + 1, t + LaneAt(l))
      BY <2>1, LaneStep
    <3>3. F(k - 1)[1][l] = re(k - 1, l) /\ F(k - 1)[2][l] = im(k - 1, l) BY <1>2, <2>1
    <3> HIDE DEF re, im, rr, ri, F
    <3> QED BY <3>1, <3>2, <3>3
  <2>4. /\ Conv!Add(F(k - 1)[1], rr) = [l \in 1 .. 4 |-> F(k - 1)[1][l] + rr[l]]
        /\ Conv!Add(F(k - 1)[2], ri) = [l \in 1 .. 4 |-> F(k - 1)[2][l] + ri[l]]
    BY DEF Conv!Add, Conv!Lanes
  <2>5. F(k) = <<[l \in 1 .. 4 |-> re(k, l)], [l \in 1 .. 4 |-> im(k, l)]>> BY <2>1
  <2> HIDE DEF re, im, rr, ri, F, Next1
  <2> QED BY <2>2, <2>3, <2>4, <2>5
<1>4. F(N1) = <<[l \in 1 .. 4 |-> re(N1, l)], [l \in 1 .. 4 |-> im(N1, l)]>> BY <1>0
<1> HIDE DEF F, Next1
<1>5. Sums(f)
  <2>1. ASSUME NEW k \in 0 .. h_len \div 4 PROVE F(k) = Next1(f, k)
    <3>1. CASE k = 0 BY <3>1 DEF F, Next1
    <3>2. CASE k # 0
      <4>1. k \in 1 .. N1 /\ k - 1 \in 0 .. h_len \div 4 BY <1>0, <3>2
      <4>2. f[k - 1] = F(k - 1) BY <4>1
      <4> QED BY <1>3, <4>1, <4>2
    <3> QED BY <3>1, <3>2
  <2> QED BY <2>1
<1>6. acc[N1] = f[N1]
  <2>1. Sums(acc) BY <1>5
  <2>2. \A k \in 0 .. N1 : acc[k] = Next1(acc, k)
    <3> HIDE DEF acc
    <3> QED BY <2>1
  <2>3. \A k \in 0 .. N1 : f[k] = F(k) OBVIOUS
  <2> HIDE DEF acc, f, N1
  <2>4. acc[0] = f[0]
    <3>1. 0 \in 0 .. N1 BY <1>0
    <3>2. Next1(acc, 0) = F(0) BY DEF Next1, F
    <3> QED BY <2>2, <2>3, <3>1, <3>2
  <2>5. ASSUME NEW k \in 1 .. N1, acc[k - 1] = f[k - 1] PROVE acc[k] = f[k]
    <3>1. k \in 0 .. N1 /\ k - 1 \in 0 .. N1 BY <1>0
    <3>2. acc[k - 1] = F(k - 1) BY <2>3, <2>5, <3>1
    <3> QED BY <1>3, <2>2, <2>3, <3>1, <3>2
  <2> QED BY <1>0, <2>4, <2>5, SameUpTo
<1>7. f[N1] = F(N1) BY <1>0
<1> HIDE DEF acc, f, N1
<1>8. Conv!SumStore(F(N1)[1], F(N1)[2]) = <<RePart(o), ImPart(o)>>
  <2> DEFINE a == F(N1)[1]
             b == F(N1)[2]
  <2>1. a = [l \in 1 .. 4 |-> re(N1, l)] /\ b = [l \in 1 .. 4 |-> im(N1, l)] BY <1>4
  <2>2. \A l \in 1 .. 4 : re(N1, l) \in Int /\ im(N1, l) \in Int BY MetTyped, Zenon
  <2>3. /\ re(N1, 1) + re(N1, 2) + re(N1, 3) + re(N1, 4) = RePart(o)
        /\ im(N1, 1) + im(N1, 2) + im(N1, 3) + im(N1, 4) = ImPart(o)
    <3>1. LaneAt(1) = 2 /\ LaneAt(2) = 0 /\ LaneAt(3) = 6 /\ LaneAt(4) = 4 BY DEF LaneAt
    <3>2. /\ MetIn(o, N1, 8, 2, 0) + MetIn(o, N1, 8, 0, 0) + MetIn(o, N1, 8, 6, 0)
                 + MetIn(o, N1, 8, 4, 0) = RePart(o)
          /\ MetIn(o, N1, 8, 2, 1) + MetIn(o, N1, 8, 0, 1) + MetIn(o, N1, 8, 6, 1)
                 + MetIn(o, N1, 8, 4, 1) = ImPart(o)
      BY <1>0, AllMet
    <3> QED BY <3>1, <3>2
  <2> HIDE DEF a, b, re, im
  <2>4. a \in Regs /\ b \in Regs /\ Total(a) = RePart(o) /\ Total(b) = ImPart(o)
    BY <2>1, <2>2, <2>3 DEF Regs, Total
  <2> QED BY <2>4, StoredIs DEF a, b
<1> QED BY <1>1, <1>6, <1>7, <1>8

\* The kernel for any multiple of four complex taps.
LEMMA FoursComplex ==
    ASSUME ConvTyped, complex, NEW o, Reaches(o), h_len % 4 = 0
    PROVE  Conv!sse_conv_cmplx_4n(o) = <<RePart(o), ImPart(o)>>
<1> DEFINE N1 == h_len \div 4
           T1(n1) == 8 * (n1 - 1)
           Next1(g, n1) ==
               IF n1 = 0 THEN <<Conv!Zero, Conv!Zero>>
               ELSE <<Conv!Add(g[n1 - 1][1], Conv!CR(8 * (n1 - 1), o + 8 * (n1 - 1))),
                      Conv!Add(g[n1 - 1][2], Conv!CI(8 * (n1 - 1), o + 8 * (n1 - 1)))>>
           Sums(g) == g = [n1 \in 0 .. h_len \div 4 |-> Next1(g, n1)]
           acc == CHOOSE g : Sums(g)
           re(n1, l) == MetIn(o, n1, 8, LaneAt(l), 0) - MetIn(o, n1, 8, LaneAt(l) + 1, 0)
           im(n1, l) == MetIn(o, n1, 8, LaneAt(l), 1) + MetIn(o, n1, 8, LaneAt(l) + 1, -1)
           F(n1) == IF n1 = 0 THEN <<Conv!Zero, Conv!Zero>>
                    ELSE <<[l \in 1 .. 4 |-> re(n1, l)], [l \in 1 .. 4 |-> im(n1, l)]>>
           f == [n1 \in 0 .. h_len \div 4 |-> F(n1)]
<1>0. /\ h_len \in Nat \ {0} /\ o \in Int /\ N1 \in Nat \ {0} /\ 8 * N1 = 2 * h_len
  BY DEF ConvTyped, Reaches
<1>1. Conv!sse_conv_cmplx_4n(o) = Conv!SumStore(acc[N1][1], acc[N1][2])
  BY DEF Conv!sse_conv_cmplx_4n
<1>2. ASSUME NEW n1 \in Nat, NEW l \in 1 .. 4
      PROVE  F(n1)[1][l] = re(n1, l) /\ F(n1)[2][l] = im(n1, l)
  <2>1. CASE n1 = 0
    <3>1. LaneAt(l) \in Nat BY DEF LaneAt
    <3>2. re(0, l) = 0 /\ im(0, l) = 0
      <4>1. LaneAt(l) + 1 \in Nat /\ -1 \in Int BY <3>1
      <4>2. /\ MetIn(o, 0, 8, LaneAt(l), 0) = 0 /\ MetIn(o, 0, 8, LaneAt(l) + 1, 0) = 0
            /\ MetIn(o, 0, 8, LaneAt(l), 1) = 0 /\ MetIn(o, 0, 8, LaneAt(l) + 1, -1) = 0
        BY <1>0, <3>1, <4>1, MetNone
      <4> QED BY <4>2
    <3>3. Conv!Zero[l] = 0 BY DEF Conv!Zero
    <3> QED BY <2>1, <3>2, <3>3
  <2>2. CASE n1 # 0 BY <2>2
  <2> QED BY <2>1, <2>2
<1>3. ASSUME NEW k \in 1 .. N1, NEW g, g[k - 1] = F(k - 1) PROVE Next1(g, k) = F(k)
  <2>1. k \in Nat \ {0} /\ k - 1 \in Nat /\ 8 * (k - 1) \in Nat /\ 8 * (k - 1) + 8 <= 2 * h_len
    BY <1>0
  <2> DEFINE t == 8 * (k - 1)
             rr == Conv!CR(t, o + t)
             ri == Conv!CI(t, o + t)
  <2>2. Next1(g, k) = <<Conv!Add(F(k - 1)[1], rr), Conv!Add(F(k - 1)[2], ri)>> BY <1>3, <2>1
  <2>3. ASSUME NEW l \in 1 .. 4
        PROVE  F(k - 1)[1][l] + rr[l] = re(k, l) /\ F(k - 1)[2][l] + ri[l] = im(k, l)
    <3>1. /\ rr[l] = Met(o + t + LaneAt(l), t + LaneAt(l))
                       - Met(o + t + LaneAt(l) + 1, t + LaneAt(l) + 1)
          /\ ri[l] = Met(o + t + LaneAt(l) + 1, t + LaneAt(l))
                       + Met(o + t + LaneAt(l), t + LaneAt(l) + 1)
      <4> DEFINE a(m) == Met(o + t + LaneAt(m), t + LaneAt(m))
                       - Met(o + t + LaneAt(m) + 1, t + LaneAt(m) + 1)
                 b(m) == Met(o + t + LaneAt(m) + 1, t + LaneAt(m))
                       + Met(o + t + LaneAt(m), t + LaneAt(m) + 1)
      <4>1. rr = [m \in 1 .. 4 |-> a(m)] /\ ri = [m \in 1 .. 4 |-> b(m)]
        <5>1. t \in Nat /\ t + 8 <= 2 * h_len BY <2>1
        <5> HIDE DEF Next1, t
        <5> QED BY <5>1, ProductsAre
      <4> HIDE DEF a, b, rr, ri
      <4>2. rr[l] = a(l) /\ ri[l] = b(l) BY <4>1
      <4> QED BY <4>2 DEF a, b
    <3>2. /\ re(k, l) = re(k - 1, l) + (Met(o + t + LaneAt(l), t + LaneAt(l))
                                        - Met(o + t + LaneAt(l) + 1, t + LaneAt(l) + 1))
          /\ im(k, l) = im(k - 1, l) + (Met(o + t + LaneAt(l) + 1, t + LaneAt(l))
                                        + Met(o + t + LaneAt(l), t + LaneAt(l) + 1))
      <4> DEFINE j == LaneAt(l)
      <4>1. /\ MetIn(o, k, 8, j, 0) = MetIn(o, k - 1, 8, j, 0) + Met(o + t + j, t + j)
            /\ MetIn(o, k, 8, j, 1) = MetIn(o, k - 1, 8, j, 1) + Met(o + t + j + 1, t + j)
            /\ MetIn(o, k, 8, j + 1, 0)
                   = MetIn(o, k - 1, 8, j + 1, 0) + Met(o + t + j + 1, t + j + 1)
            /\ MetIn(o, k, 8, j + 1, -1)
                   = MetIn(o, k - 1, 8, j + 1, -1) + Met(o + t + j, t + j + 1)
        BY <2>1, LaneStep
      <4>2. /\ \A i1, j1 : Met(i1, j1) \in Int
            /\ \A n1, c1, d1 : MetIn(o, n1, 8, c1, d1) \in Int
        BY MetTyped, Zenon
      <4> HIDE DEF j, t, F, Next1
      <4>3. re(k, l) = re(k - 1, l) + (Met(o + t + j, t + j) - Met(o + t + j + 1, t + j + 1))
        BY <4>1, <4>2 DEF j
      <4>4. im(k, l) = im(k - 1, l) + (Met(o + t + j + 1, t + j) + Met(o + t + j, t + j + 1))
        BY <4>1, <4>2 DEF j
      <4> QED BY <4>3, <4>4 DEF j
    <3>3. F(k - 1)[1][l] = re(k - 1, l) /\ F(k - 1)[2][l] = im(k - 1, l) BY <1>2, <2>1
    <3> HIDE DEF re, im, rr, ri, F, t
    <3> QED BY <3>1, <3>2, <3>3
  <2>4. /\ Conv!Add(F(k - 1)[1], rr) = [l \in 1 .. 4 |-> F(k - 1)[1][l] + rr[l]]
        /\ Conv!Add(F(k - 1)[2], ri) = [l \in 1 .. 4 |-> F(k - 1)[2][l] + ri[l]]
    BY DEF Conv!Add, Conv!Lanes
  <2>5. F(k) = <<[l \in 1 .. 4 |-> re(k, l)], [l \in 1 .. 4 |-> im(k, l)]>> BY <2>1
  <2> HIDE DEF re, im, rr, ri, F, Next1
  <2> QED BY <2>2, <2>3, <2>4, <2>5
<1>4. F(N1) = <<[l \in 1 .. 4 |-> re(N1, l)], [l \in 1 .. 4 |-> im(N1, l)]>> BY <1>0
<1> HIDE DEF F, Next1
<1>5. Sums(f)
  <2>1. ASSUME NEW k \in 0 .. h_len \div 4 PROVE F(k) = Next1(f, k)
    <3>1. CASE k = 0 BY <3>1 DEF F, Next1
    <3>2. CASE k # 0
      <4>1. k \in 1 .. N1 /\ k - 1 \in 0 .. h_len \div 4 BY <1>0, <3>2
      <4>2. f[k - 1] = F(k - 1) BY <4>1
      <4> QED BY <1>3, <4>1, <4>2
    <3> QED BY <3>1, <3>2
  <2> QED BY <2>1
<1>6. acc[N1] = f[N1]
  <2>1. Sums(acc) BY <1>5
  <2>2. \A k \in 0 .. N1 : acc[k] = Next1(acc, k)
    <3> HIDE DEF acc
    <3> QED BY <2>1
  <2>3. \A k \in 0 .. N1 : f[k] = F(k) OBVIOUS
  <2> HIDE DEF acc, f, N1
  <2>4. acc[0] = f[0]
    <3>1. 0 \in 0 .. N1 BY <1>0
    <3>2. Next1(acc, 0) = F(0) BY DEF Next1, F
    <3> QED BY <2>2, <2>3, <3>1, <3>2
  <2>5. ASSUME NEW k \in 1 .. N1, acc[k - 1] = f[k - 1] PROVE acc[k] = f[k]
    <3>1. k \in 0 .. N1 /\ k - 1 \in 0 .. N1 BY <1>0
    <3>2. acc[k - 1] = F(k - 1) BY <2>3, <2>5, <3>1
    <3> QED BY <1>3, <2>2, <2>3, <3>1, <3>2
  <2> QED BY <1>0, <2>4, <2>5, SameUpTo
<1>7. f[N1] = F(N1) BY <1>0
<1> HIDE DEF acc, f, N1
<1>8. Conv!SumStore(F(N1)[1], F(N1)[2]) = <<RePart(o), ImPart(o)>>
  <2> DEFINE a == F(N1)[1]
             b == F(N1)[2]
  <2>1. a = [l \in 1 .. 4 |-> re(N1, l)] /\ b = [l \in 1 .. 4 |-> im(N1, l)] BY <1>4
  <2>2. \A l \in 1 .. 4 : re(N1, l) \in Int /\ im(N1, l) \in Int
    <3>1. \A n1, c1, d1 : MetIn(o, n1, 8, c1, d1) \in Int BY MetTyped, Zenon
    <3> QED BY <3>1
  <2>3. /\ re(N1, 1) + re(N1, 2) + re(N1, 3) + re(N1, 4) = RePart(o)
        /\ im(N1, 1) + im(N1, 2) + im(N1, 3) + im(N1, 4) = ImPart(o)
    <3>1. LaneAt(1) = 2 /\ LaneAt(2) = 0 /\ LaneAt(3) = 6 /\ LaneAt(4) = 4 BY DEF LaneAt
    <3>2. /\ (MetIn(o, N1, 8, 2, 0) - MetIn(o, N1, 8, 3, 0))
                 + (MetIn(o, N1, 8, 0, 0) - MetIn(o, N1, 8, 1, 0))
                 + (MetIn(o, N1, 8, 6, 0) - MetIn(o, N1, 8, 7, 0))
                 + (MetIn(o, N1, 8, 4, 0) - MetIn(o, N1, 8, 5, 0)) = RePart(o)
          /\ (MetIn(o, N1, 8, 2, 1) + MetIn(o, N1, 8, 3, -1))
                 + (MetIn(o, N1, 8, 0, 1) + MetIn(o, N1, 8, 1, -1))
                 + (MetIn(o, N1, 8, 6, 1) + MetIn(o, N1, 8, 7, -1))
                 + (MetIn(o, N1, 8, 4, 1) + MetIn(o, N1, 8, 5, -1)) = ImPart(o)
      BY <1>0, AllMet
    <3> QED BY <3>1, <3>2
  <2> HIDE DEF a, b, re, im
  <2>4. a \in Regs /\ b \in Regs /\ Total(a) = RePart(o) /\ Total(b) = ImPart(o)
    BY <2>1, <2>2, <2>3 DEF Regs, Total
  <2> QED BY <2>4, StoredIs DEF a, b
<1> QED BY <1>1, <1>6, <1>7, <1>8

\* What a lane of the accumulators for the first (e = 0) or the second (e = 8)
\* eight numbers of h out of sixteen holds after n1 groups of eight taps.
ReLane(o, n1, l, e) == MetIn(o, n1, 16, LaneAt(l) + e, 0) - MetIn(o, n1, 16, LaneAt(l) + e + 1, 0)
ImLane(o, n1, l, e) == MetIn(o, n1, 16, LaneAt(l) + e, 1) + MetIn(o, n1, 16, LaneAt(l) + e + 1, -1)

LEMMA LaneProducts ==
    ASSUME ConvTyped, NEW o, Reaches(o), NEW t \in Nat, t + 8 <= 2 * h_len, NEW l \in 1 .. 4
    PROVE  /\ Conv!CR(t, o + t)[l] = Met(o + t + LaneAt(l), t + LaneAt(l))
                                        - Met(o + t + LaneAt(l) + 1, t + LaneAt(l) + 1)
           /\ Conv!CI(t, o + t)[l] = Met(o + t + LaneAt(l) + 1, t + LaneAt(l))
                                        + Met(o + t + LaneAt(l), t + LaneAt(l) + 1)
<1> DEFINE a(m) == Met(o + t + LaneAt(m), t + LaneAt(m))
                     - Met(o + t + LaneAt(m) + 1, t + LaneAt(m) + 1)
           b(m) == Met(o + t + LaneAt(m) + 1, t + LaneAt(m))
                     + Met(o + t + LaneAt(m), t + LaneAt(m) + 1)
<1>1. Conv!CR(t, o + t) = [m \in 1 .. 4 |-> a(m)] /\ Conv!CI(t, o + t) = [m \in 1 .. 4 |-> b(m)]
  BY ProductsAre
<1> HIDE DEF a, b
<1>2. Conv!CR(t, o + t)[l] = a(l) /\ Conv!CI(t, o + t)[l] = b(l) BY <1>1
<1> QED BY <1>2 DEF a, b

LEMMA EightLanes ==
    ASSUME ConvTyped, NEW o, Reaches(o), NEW k \in Nat \ {0}, NEW l \in 1 .. 4, NEW e \in {0, 8},
           16 * k <= 2 * h_len, NEW t \in Nat, t = 16 * (k - 1) + e
    PROVE  /\ ReLane(o, k, l, e) = ReLane(o, k - 1, l, e) + Conv!CR(t, o + t)[l]
           /\ ImLane(o, k, l, e) = ImLane(o, k - 1, l, e) + Conv!CI(t, o + t)[l]
           /\ ReLane(o, 0, l, e) = 0 /\ ImLane(o, 0, l, e) = 0
<1> DEFINE j == LaneAt(l)
           c == j + e
<1>1. o \in Int /\ t \in Nat /\ t + 8 <= 2 * h_len /\ j \in {0, 2, 4, 6}
  BY DEF Reaches, LaneAt, ConvTyped
<1>2. hAt \in Nat /\ xAt \in Int BY DEF ConvTyped
<1>3. /\ Conv!CR(t, o + t)[l] = Met(o + t + j, t + j) - Met(o + t + j + 1, t + j + 1)
      /\ Conv!CI(t, o + t)[l] = Met(o + t + j + 1, t + j) + Met(o + t + j, t + j + 1)
  BY <1>1, LaneProducts
<1> HIDE DEF j
<1>4. c \in Nat /\ c + 1 < 16 BY <1>1
<1>5. /\ MetIn(o, k, 16, c, 0) = MetIn(o, k - 1, 16, c, 0) + Met(o + t + j, t + j)
      /\ MetIn(o, k, 16, c, 1) = MetIn(o, k - 1, 16, c, 1) + Met(o + t + j + 1, t + j)
  BY <1>1, <1>2, <1>4 DEF Met, MetIn
<1>6. /\ MetIn(o, k, 16, c + 1, 0) = MetIn(o, k - 1, 16, c + 1, 0) + Met(o + t + j + 1, t + j + 1)
      /\ MetIn(o, k, 16, c + 1, -1) = MetIn(o, k - 1, 16, c + 1, -1) + Met(o + t + j, t + j + 1)
  BY <1>1, <1>2, <1>4 DEF Met, MetIn
<1>7. /\ \A i1, j1 : Met(i1, j1) \in Int
      /\ \A n1, c1, d1 : MetIn(o, n1, 16, c1, d1) \in Int
  BY MetTyped, Zenon
<1>8. /\ \A n1 : ReLane(o, n1, l, e) = MetIn(o, n1, 16, c, 0) - MetIn(o, n1, 16, c + 1, 0)
      /\ \A n1 : ImLane(o, n1, l, e) = MetIn(o, n1, 16, c, 1) + MetIn(o, n1, 16, c + 1, -1)
  BY DEF ReLane, ImLane, j
<1>9. ReLane(o, 0, l, e) = 0 /\ ImLane(o, 0, l, e) = 0
  <2>1. /\ MetIn(o, 0, 16, c, 0) = 0 /\ MetIn(o, 0, 16, c + 1, 0) = 0
        /\ MetIn(o, 0, 16, c, 1) = 0 /\ MetIn(o, 0, 16, c + 1, -1) = 0
    BY <1>2 DEF MetIn
  <2> HIDE DEF c
  <2> QED BY <1>8, <2>1
<1> DEFINE re == Conv!CR(t, o + t)[l]
           im == Conv!CI(t, o + t)[l]
<1>10. /\ re = Met(o + t + j, t + j) - Met(o + t + j + 1, t + j + 1)
       /\ im = Met(o + t + j + 1, t + j) + Met(o + t + j, t + j + 1)
  BY <1>3
<1> HIDE DEF c, re, im
<1>11. ReLane(o, k, l, e) = ReLane(o, k - 1, l, e) + re BY <1>5, <1>6, <1>7, <1>8, <1>10
<1>12. ImLane(o, k, l, e) = ImLane(o, k - 1, l, e) + im BY <1>5, <1>6, <1>7, <1>8, <1>10
<1> QED BY <1>9, <1>11, <1>12 DEF re, im

LEMMA AllLanesMet ==
    ASSUME ConvTyped, complex, NEW o, Reaches(o), NEW k \in Nat, 16 * k = 2 * h_len
    PROVE  /\ (ReLane(o, k, 1, 0) + ReLane(o, k, 2, 0) + ReLane(o, k, 3, 0) + ReLane(o, k, 4, 0))
                + (ReLane(o, k, 1, 8) + ReLane(o, k, 2, 8) + ReLane(o, k, 3, 8)
                       + ReLane(o, k, 4, 8)) = RePart(o)
           /\ (ImLane(o, k, 1, 0) + ImLane(o, k, 2, 0) + ImLane(o, k, 3, 0) + ImLane(o, k, 4, 0))
                + (ImLane(o, k, 1, 8) + ImLane(o, k, 2, 8) + ImLane(o, k, 3, 8)
                       + ImLane(o, k, 4, 8)) = ImPart(o)
           /\ \A l \in 1 .. 4, e \in {0, 8} :
                  ReLane(o, k, l, e) \in Int /\ ImLane(o, k, l, e) \in Int
<1>1. hAt \in Nat /\ hAt < 16 * k /\ xAt \in Int /\ o \in Int BY DEF ConvTyped, Reaches
<1> DEFINE r == hAt % 16
           at1 == xAt - o - hAt
<1>2. r \in 0 .. 15 /\ hAt % 2 = r % 2 /\ at1 \in Int BY <1>1
<1>3. /\ RePart(o) = IF r % 2 = 0 THEN IF at1 = 0 THEN 15 ELSE 0 ELSE IF at1 = 0 THEN -15 ELSE 0
      /\ ImPart(o) = IF r % 2 = 0 THEN IF at1 = 1 THEN 15 ELSE 0 ELSE IF at1 = -1 THEN 15 ELSE 0
  BY <1>1, <1>2 DEF RePart, ImPart
<1>4. \A c \in Nat, d \in Int : MetIn(o, k, 16, c, d) = IF r = c /\ at1 = d THEN 15 ELSE 0
  BY <1>1 DEF MetIn
<1>5. LaneAt(1) = 2 /\ LaneAt(2) = 0 /\ LaneAt(3) = 6 /\ LaneAt(4) = 4 BY DEF LaneAt
<1> HIDE DEF r, at1
<1>6. ASSUME NEW l \in 1 .. 4, NEW e \in {0, 8}
      PROVE  /\ ReLane(o, k, l, e) = (IF r = LaneAt(l) + e /\ at1 = 0 THEN 15 ELSE 0)
                                      - (IF r = LaneAt(l) + e + 1 /\ at1 = 0 THEN 15 ELSE 0)
             /\ ImLane(o, k, l, e) = (IF r = LaneAt(l) + e /\ at1 = 1 THEN 15 ELSE 0)
                                      + (IF r = LaneAt(l) + e + 1 /\ at1 = -1 THEN 15 ELSE 0)
  <2> DEFINE c == LaneAt(l) + e
  <2>1. c \in Nat /\ c + 1 \in Nat BY DEF LaneAt
  <2>2. /\ ReLane(o, k, l, e) = MetIn(o, k, 16, c, 0) - MetIn(o, k, 16, c + 1, 0)
        /\ ImLane(o, k, l, e) = MetIn(o, k, 16, c, 1) + MetIn(o, k, 16, c + 1, -1)
    BY DEF ReLane, ImLane
  <2> HIDE DEF c
  <2>3. /\ MetIn(o, k, 16, c, 0) = IF r = c /\ at1 = 0 THEN 15 ELSE 0
        /\ MetIn(o, k, 16, c + 1, 0) = IF r = c + 1 /\ at1 = 0 THEN 15 ELSE 0
        /\ MetIn(o, k, 16, c, 1) = IF r = c /\ at1 = 1 THEN 15 ELSE 0
        /\ MetIn(o, k, 16, c + 1, -1) = IF r = c + 1 /\ at1 = -1 THEN 15 ELSE 0
    BY <1>4, <2>1
  <2> QED BY <2>2, <2>3 DEF c
<1> DEFINE Re(r1, c) == (IF r1 = c /\ at1 = 0 THEN 15 ELSE 0)
                             - (IF r1 = c + 1 /\ at1 = 0 THEN 15 ELSE 0)
           Im(r1, c) == (IF r1 = c /\ at1 = 1 THEN 15 ELSE 0)
                             + (IF r1 = c + 1 /\ at1 = -1 THEN 15 ELSE 0)
<1>71. ASSUME NEW l \in 1 .. 4, NEW e \in {0, 8}
      PROVE  ReLane(o, k, l, e) = Re(r, LaneAt(l) + e) /\ ImLane(o, k, l, e) = Im(r, LaneAt(l) + e)
  BY <1>6
<1> HIDE DEF Re, Im
<1>7. /\ ReLane(o, k, 1, 0) = Re(r, 2)
      /\ ReLane(o, k, 2, 0) = Re(r, 0)
      /\ ReLane(o, k, 3, 0) = Re(r, 6)
      /\ ReLane(o, k, 4, 0) = Re(r, 4)
      /\ ReLane(o, k, 1, 8) = Re(r, 10)
      /\ ReLane(o, k, 2, 8) = Re(r, 8)
      /\ ReLane(o, k, 3, 8) = Re(r, 14)
      /\ ReLane(o, k, 4, 8) = Re(r, 12)
  <2>1. ReLane(o, k, 1, 0) = Re(r, 2) BY <1>5, <1>71
  <2>2. ReLane(o, k, 2, 0) = Re(r, 0) BY <1>5, <1>71
  <2>3. ReLane(o, k, 3, 0) = Re(r, 6) BY <1>5, <1>71
  <2>4. ReLane(o, k, 4, 0) = Re(r, 4) BY <1>5, <1>71
  <2>5. ReLane(o, k, 1, 8) = Re(r, 10) BY <1>5, <1>71
  <2>6. ReLane(o, k, 2, 8) = Re(r, 8) BY <1>5, <1>71
  <2>7. ReLane(o, k, 3, 8) = Re(r, 14) BY <1>5, <1>71
  <2>8. ReLane(o, k, 4, 8) = Re(r, 12) BY <1>5, <1>71
  <2> QED BY <2>1, <2>2, <2>3, <2>4, <2>5, <2>6, <2>7, <2>8
<1>8. /\ ImLane(o, k, 1, 0) = Im(r, 2)
      /\ ImLane(o, k, 2, 0) = Im(r, 0)
      /\ ImLane(o, k, 3, 0) = Im(r, 6)
      /\ ImLane(o, k, 4, 0) = Im(r, 4)
      /\ ImLane(o, k, 1, 8) = Im(r, 10)
      /\ ImLane(o, k, 2, 8) = Im(r, 8)
      /\ ImLane(o, k, 3, 8) = Im(r, 14)
      /\ ImLane(o, k, 4, 8) = Im(r, 12)
  <2>1. ImLane(o, k, 1, 0) = Im(r, 2) BY <1>5, <1>71
  <2>2. ImLane(o, k, 2, 0) = Im(r, 0) BY <1>5, <1>71
  <2>3. ImLane(o, k, 3, 0) = Im(r, 6) BY <1>5, <1>71
  <2>4. ImLane(o, k, 4, 0) = Im(r, 4) BY <1>5, <1>71
  <2>5. ImLane(o, k, 1, 8) = Im(r, 10) BY <1>5, <1>71
  <2>6. ImLane(o, k, 2, 8) = Im(r, 8) BY <1>5, <1>71
  <2>7. ImLane(o, k, 3, 8) = Im(r, 14) BY <1>5, <1>71
  <2>8. ImLane(o, k, 4, 8) = Im(r, 12) BY <1>5, <1>71
  <2> QED BY <2>1, <2>2, <2>3, <2>4, <2>5, <2>6, <2>7, <2>8
<1>9. (ReLane(o, k, 1, 0) + ReLane(o, k, 2, 0) + ReLane(o, k, 3, 0) + ReLane(o, k, 4, 0))
        + (ReLane(o, k, 1, 8) + ReLane(o, k, 2, 8) + ReLane(o, k, 3, 8) + ReLane(o, k, 4, 8))
      = RePart(o)
  <2>1. Re(r, 2) + Re(r, 0) + Re(r, 6) + Re(r, 4) = IF r < 8 THEN RePart(o) ELSE 0
    BY <1>2, <1>3 DEF Re
  <2>2. Re(r, 10) + Re(r, 8) + Re(r, 14) + Re(r, 12) = IF r < 8 THEN 0 ELSE RePart(o)
    BY <1>2, <1>3 DEF Re
  <2>3. RePart(o) \in Int BY <1>3
  <2> QED BY <1>2, <1>7, <2>1, <2>2, <2>3
<1>10. (ImLane(o, k, 1, 0) + ImLane(o, k, 2, 0) + ImLane(o, k, 3, 0) + ImLane(o, k, 4, 0))
        + (ImLane(o, k, 1, 8) + ImLane(o, k, 2, 8) + ImLane(o, k, 3, 8) + ImLane(o, k, 4, 8))
      = ImPart(o)
  <2>1. Im(r, 2) + Im(r, 0) + Im(r, 6) + Im(r, 4) = IF r < 8 THEN ImPart(o) ELSE 0
    BY <1>2, <1>3 DEF Im
  <2>2. Im(r, 10) + Im(r, 8) + Im(r, 14) + Im(r, 12) = IF r < 8 THEN 0 ELSE ImPart(o)
    BY <1>2, <1>3 DEF Im
  <2>3. ImPart(o) \in Int BY <1>3
  <2> QED BY <1>2, <1>8, <2>1, <2>2, <2>3
<1>11. \A l \in 1 .. 4, e \in {0, 8} : ReLane(o, k, l, e) \in Int /\ ImLane(o, k, l, e) \in Int
  BY <1>6
<1> QED BY <1>9, <1>10, <1>11

\* The kernel for any multiple of eight complex taps.
LEMMA EightsComplex ==
    ASSUME ConvTyped, complex, NEW o, Reaches(o), h_len % 8 = 0
    PROVE  Conv!sse_conv_cmplx_8n(o) = <<RePart(o), ImPart(o)>>
<1> DEFINE N1 == h_len \div 8
           Next1(g, n1) ==
               IF n1 = 0 THEN <<Conv!Zero, Conv!Zero, Conv!Zero, Conv!Zero>>
               ELSE LET t1 == 16 * (n1 - 1) IN
                    <<Conv!Add(g[n1 - 1][1], Conv!CR(t1, o + t1)),
                      Conv!Add(g[n1 - 1][2], Conv!CR(t1 + 8, o + t1 + 8)),
                      Conv!Add(g[n1 - 1][3], Conv!CI(t1, o + t1)),
                      Conv!Add(g[n1 - 1][4], Conv!CI(t1 + 8, o + t1 + 8))>>
           Sums(g) == g = [n1 \in 0 .. h_len \div 8 |-> Next1(g, n1)]
           acc == CHOOSE g : Sums(g)
           re(n1, e) == [l \in 1 .. 4 |-> ReLane(o, n1, l, e)]
           im(n1, e) == [l \in 1 .. 4 |-> ImLane(o, n1, l, e)]
           F(n1) == IF n1 = 0 THEN <<Conv!Zero, Conv!Zero, Conv!Zero, Conv!Zero>>
                    ELSE <<re(n1, 0), re(n1, 8), im(n1, 0), im(n1, 8)>>
           f == [n1 \in 0 .. h_len \div 8 |-> F(n1)]
<1>0. /\ h_len \in Nat \ {0} /\ o \in Int /\ N1 \in Nat \ {0} /\ 16 * N1 = 2 * h_len
  BY DEF ConvTyped, Reaches
<1>1. Conv!sse_conv_cmplx_8n(o) = Conv!SumStore(Conv!Add(acc[N1][1], acc[N1][2]),
                                                Conv!Add(acc[N1][3], acc[N1][4]))
  BY DEF Conv!sse_conv_cmplx_8n
<1>2. ASSUME NEW k \in 1 .. N1, NEW l \in 1 .. 4
      PROVE  /\ F(k - 1)[1][l] = ReLane(o, k - 1, l, 0) /\ F(k - 1)[2][l] = ReLane(o, k - 1, l, 8)
             /\ F(k - 1)[3][l] = ImLane(o, k - 1, l, 0) /\ F(k - 1)[4][l] = ImLane(o, k - 1, l, 8)
  <2>1. CASE k - 1 = 0
    <3>1. /\ ReLane(o, 0, l, 0) = 0 /\ ReLane(o, 0, l, 8) = 0
          /\ ImLane(o, 0, l, 0) = 0 /\ ImLane(o, 0, l, 8) = 0
      <4>1. /\ 16 * 1 <= 2 * h_len /\ 1 \in Nat \ {0} /\ 16 * (1 - 1) + 0 = 0 /\ 0 \in Nat
            /\ 16 * (1 - 1) + 8 = 8 /\ 8 \in Nat
        BY <1>0
      <4> HIDE DEF Next1, F
      <4> QED BY <4>1, EightLanes
    <3>2. Conv!Zero[l] = 0 BY DEF Conv!Zero
    <3> QED BY <2>1, <3>1, <3>2
  <2>2. CASE k - 1 # 0 BY <2>2
  <2> QED BY <2>1, <2>2
<1>3. ASSUME NEW k \in 1 .. N1, NEW g, g[k - 1] = F(k - 1) PROVE Next1(g, k) = F(k)
  <2>1. k \in Nat \ {0} /\ k - 1 \in Nat /\ 16 * (k - 1) \in Nat /\ 16 * k <= 2 * h_len BY <1>0
  <2> DEFINE t == 16 * (k - 1)
             r1 == Conv!CR(t, o + t)
             r2 == Conv!CR(t + 8, o + t + 8)
             i1 == Conv!CI(t, o + t)
             i2 == Conv!CI(t + 8, o + t + 8)
  <2>2. Next1(g, k) = <<Conv!Add(F(k - 1)[1], r1), Conv!Add(F(k - 1)[2], r2),
                        Conv!Add(F(k - 1)[3], i1), Conv!Add(F(k - 1)[4], i2)>>
    BY <1>3, <2>1
  <2>3. ASSUME NEW l \in 1 .. 4
        PROVE  /\ F(k - 1)[1][l] + r1[l] = ReLane(o, k, l, 0)
               /\ F(k - 1)[2][l] + r2[l] = ReLane(o, k, l, 8)
               /\ F(k - 1)[3][l] + i1[l] = ImLane(o, k, l, 0)
               /\ F(k - 1)[4][l] + i2[l] = ImLane(o, k, l, 8)
    <3> DEFINE u == t + 8
    <3>1. /\ t \in Nat /\ t = 16 * (k - 1) + 0 /\ u \in Nat /\ u = 16 * (k - 1) + 8
          /\ o + u = o + t + 8 /\ 0 \in {0, 8} /\ 8 \in {0, 8}
      BY <1>0, <2>1
    <3> HIDE DEF t, u, F, Next1
    <3>2. /\ ReLane(o, k, l, 0) = ReLane(o, k - 1, l, 0) + Conv!CR(t, o + t)[l]
          /\ ImLane(o, k, l, 0) = ImLane(o, k - 1, l, 0) + Conv!CI(t, o + t)[l]
      BY <2>1, <3>1, EightLanes
    <3>4. /\ ReLane(o, k, l, 8) = ReLane(o, k - 1, l, 8) + Conv!CR(u, o + u)[l]
          /\ ImLane(o, k, l, 8) = ImLane(o, k - 1, l, 8) + Conv!CI(u, o + u)[l]
      BY <2>1, <3>1, EightLanes
    <3>3. /\ ReLane(o, k, l, 0) = ReLane(o, k - 1, l, 0) + r1[l]
          /\ ReLane(o, k, l, 8) = ReLane(o, k - 1, l, 8) + r2[l]
          /\ ImLane(o, k, l, 0) = ImLane(o, k - 1, l, 0) + i1[l]
          /\ ImLane(o, k, l, 8) = ImLane(o, k - 1, l, 8) + i2[l]
      BY <3>1, <3>2, <3>4 DEF u
    <3> HIDE DEF r1, r2, i1, i2
    <3> QED BY <1>2, <3>3
  <2>4. /\ Conv!Add(F(k - 1)[1], r1) = [l \in 1 .. 4 |-> F(k - 1)[1][l] + r1[l]]
        /\ Conv!Add(F(k - 1)[2], r2) = [l \in 1 .. 4 |-> F(k - 1)[2][l] + r2[l]]
        /\ Conv!Add(F(k - 1)[3], i1) = [l \in 1 .. 4 |-> F(k - 1)[3][l] + i1[l]]
        /\ Conv!Add(F(k - 1)[4], i2) = [l \in 1 .. 4 |-> F(k - 1)[4][l] + i2[l]]
    BY DEF Conv!Add, Conv!Lanes
  <2>5. F(k) = <<re(k, 0), re(k, 8), im(k, 0), im(k, 8)>> BY <2>1
  <2> HIDE DEF r1, r2, i1, i2, F, Next1
  <2>6. /\ [l \in 1 .. 4 |-> F(k - 1)[1][l] + r1[l]] = re(k, 0)
        /\ [l \in 1 .. 4 |-> F(k - 1)[2][l] + r2[l]] = re(k, 8)
        /\ [l \in 1 .. 4 |-> F(k - 1)[3][l] + i1[l]] = im(k, 0)
        /\ [l \in 1 .. 4 |-> F(k - 1)[4][l] + i2[l]] = im(k, 8)
    BY <2>3
  <2> QED BY <2>2, <2>4, <2>5, <2>6
<1>4. F(N1) = <<re(N1, 0), re(N1, 8), im(N1, 0), im(N1, 8)>> BY <1>0
<1> HIDE DEF F, Next1
<1>5. Sums(f)
  <2>1. ASSUME NEW k \in 0 .. h_len \div 8 PROVE F(k) = Next1(f, k)
    <3>1. CASE k = 0 BY <3>1 DEF F, Next1
    <3>2. CASE k # 0
      <4>1. k \in 1 .. N1 /\ k - 1 \in 0 .. h_len \div 8 BY <1>0, <3>2
      <4>2. f[k - 1] = F(k - 1) BY <4>1
      <4> QED BY <1>3, <4>1, <4>2
    <3> QED BY <3>1, <3>2
  <2> QED BY <2>1
<1>6. acc[N1] = f[N1]
  <2>1. Sums(acc) BY <1>5
  <2>2. \A k \in 0 .. N1 : acc[k] = Next1(acc, k)
    <3> HIDE DEF acc
    <3> QED BY <2>1
  <2>3. \A k \in 0 .. N1 : f[k] = F(k) OBVIOUS
  <2> HIDE DEF acc, f, N1
  <2>4. acc[0] = f[0]
    <3>1. 0 \in 0 .. N1 BY <1>0
    <3>2. Next1(acc, 0) = F(0) BY DEF Next1, F
    <3> QED BY <2>2, <2>3, <3>1, <3>2
  <2>5. ASSUME NEW k \in 1 .. N1, acc[k - 1] = f[k - 1] PROVE acc[k] = f[k]
    <3>1. k \in 0 .. N1 /\ k - 1 \in 0 .. N1 BY <1>0
    <3>2. acc[k - 1] = F(k - 1) BY <2>3, <2>5, <3>1
    <3> QED BY <1>3, <2>2, <2>3, <3>1, <3>2
  <2> QED BY <1>0, <2>4, <2>5, SameUpTo
<1>7. f[N1] = F(N1) BY <1>0
<1> HIDE DEF acc, f, N1
<1>8. Conv!SumStore(Conv!Add(re(N1, 0), re(N1, 8)), Conv!Add(im(N1, 0), im(N1, 8)))
          = <<RePart(o), ImPart(o)>>
  <2>1. /\ re(N1, 0) \in Regs /\ re(N1, 8) \in Regs /\ im(N1, 0) \in Regs /\ im(N1, 8) \in Regs
    BY <1>0, AllLanesMet DEF Regs
  <2>2. /\ Total(re(N1, 0)) + Total(re(N1, 8)) = RePart(o)
        /\ Total(im(N1, 0)) + Total(im(N1, 8)) = ImPart(o)
    BY <1>0, AllLanesMet DEF Total
  <2> HIDE DEF re, im
  <2>3. /\ Conv!Add(re(N1, 0), re(N1, 8)) \in Regs /\ Conv!Add(im(N1, 0), im(N1, 8)) \in Regs
        /\ Total(Conv!Add(re(N1, 0), re(N1, 8))) = RePart(o)
        /\ Total(Conv!Add(im(N1, 0), im(N1, 8))) = ImPart(o)
    BY <2>1, <2>2, SumsAre
  <2> QED BY <2>3, StoredIs
<1>9. /\ acc[N1][1] = re(N1, 0) /\ acc[N1][2] = re(N1, 8)
      /\ acc[N1][3] = im(N1, 0) /\ acc[N1][4] = im(N1, 8)
  <2> HIDE DEF re, im
  <2> QED BY <1>4, <1>6, <1>7
<1> QED BY <1>1, <1>8, <1>9

ConvIInv == ConvTyped /\ Conv!SameAsReference /\ Conv!WritesInside

\* Each output, whichever kernel computes it.
LEMMA OutputIs ==
    ASSUME ConvTyped, NEW i, Reaches(Conv!From(i))
    PROVE  /\ ~complex => Conv!conv_real(<<0, 0>>, i)
                             = <<RePart(Conv!From(i)), ImPart(Conv!From(i))>>
           /\ complex => Conv!conv_cmplx(<<0, 0>>, i)
                             = <<RePart(Conv!From(i)), ImPart(Conv!From(i))>>
<1> DEFINE o == Conv!From(i)
           out1 == <<RePart(o), ImPart(o)>>
<1>0. h_len \in Nat \ {0} BY DEF ConvTyped
<1> HIDE DEF o
<1>1. Reaches(o) BY DEF o
<1>2. ASSUME ~complex PROVE Conv!conv_real(<<0, 0>>, i) = out1
  <2>1. CASE ~sse3 \/ h_len % 4 # 0
    <3>1. Conv!conv_real(<<0, 0>>, i) = Conv!mac_real_vec_n(<<0, 0>>, o)
      BY <2>1 DEF Conv!conv_real, o
    <3> QED BY <1>1, <1>2, <3>1, PlainReal
  <2>2. CASE sse3 /\ h_len % 4 = 0
    <3>1. Conv!conv_real(<<0, 0>>, i) =
            CASE h_len = 4  -> Conv!sse_conv_real4(o)
              [] h_len = 8  -> Conv!sse_conv_real8(o)
              [] h_len = 12 -> Conv!sse_conv_real12(o)
              [] h_len = 16 -> Conv!sse_conv_real16(o)
              [] h_len = 20 -> Conv!sse_conv_real20(o)
              [] OTHER      -> Conv!sse_conv_real4n(o)
      BY <2>2 DEF Conv!conv_real, o
    <3>2. /\ h_len = 4 => Conv!sse_conv_real4(o) = out1
          /\ h_len = 8 => Conv!sse_conv_real8(o) = out1
          /\ h_len = 12 => Conv!sse_conv_real12(o) = out1
          /\ h_len = 16 => Conv!sse_conv_real16(o) = out1
          /\ h_len = 20 => Conv!sse_conv_real20(o) = out1
      BY <1>1, <1>2, FixedReal
    <3>3. Conv!sse_conv_real4n(o) = out1 BY <1>1, <1>2, <2>2, FoursReal
    <3> HIDE DEF out1
    <3> QED BY <1>0, <3>1, <3>2, <3>3
  <2> QED BY <2>1, <2>2
<1>3. ASSUME complex PROVE Conv!conv_cmplx(<<0, 0>>, i) = out1
  <2>1. CASE ~sse3 \/ h_len % 4 # 0
    <3>1. Conv!conv_cmplx(<<0, 0>>, i) = Conv!mac_cmplx_vec_n(<<0, 0>>, o)
      BY <2>1 DEF Conv!conv_cmplx, o
    <3> QED BY <1>1, <1>3, <3>1, PlainComplex
  <2>2. CASE sse3 /\ h_len % 4 = 0 /\ h_len % 8 = 0
    <3>1. Conv!conv_cmplx(<<0, 0>>, i) = Conv!sse_conv_cmplx_8n(o)
      BY <2>2 DEF Conv!conv_cmplx, o
    <3> QED BY <1>1, <1>3, <2>2, <3>1, EightsComplex
  <2>3. CASE sse3 /\ h_len % 4 = 0 /\ h_len % 8 # 0
    <3>1. Conv!conv_cmplx(<<0, 0>>, i) = Conv!sse_conv_cmplx_4n(o)
      BY <2>3 DEF Conv!conv_cmplx, o
    <3> QED BY <1>1, <1>3, <2>3, <3>1, FoursComplex
  <2> QED BY <2>1, <2>2, <2>3
<1> QED BY <1>2, <1>3 DEF o

LEMMA ReferenceIs ==
    ASSUME ConvTyped, NEW i \in Int
    PROVE  Conv!Reference(i) = <<RePart(Conv!From(i)), ImPart(Conv!From(i))>>
<1> DEFINE o == Conv!From(i)
           meets == (xAt - (xAt % 2)) \div 2 = i + start - (h_len - 1) + hAt \div 2
<1>1. /\ h_len \in Nat /\ start \in Nat /\ xAt \in Int /\ hAt \in Nat /\ complex \in BOOLEAN
  BY DEF ConvTyped
<1>2. o = 2 * (i - (h_len - 1) + start) /\ o \in Int BY <1>1 DEF Conv!From
<1>3. meets <=> xAt - (xAt % 2) = o + hAt - (hAt % 2) BY <1>1, <1>2
<1>4. xAt % 2 \in {0, 1} /\ hAt % 2 \in {0, 1} BY <1>1
<1>5. Conv!Reference(i) =
        LET v == IF meets THEN 15 ELSE 0
        IN  IF hAt % 2 = 1
            THEN IF ~complex THEN <<0, 0>> ELSE IF xAt % 2 = 1 THEN <<-v, 0>> ELSE <<0, v>>
            ELSE IF xAt % 2 = 1 THEN <<0, v>> ELSE <<v, 0>>
  BY DEF Conv!Reference
<1> HIDE DEF o, meets
<1>6. CASE hAt % 2 = 0
  <2>1. xAt % 2 = 0 => (meets <=> xAt = o + hAt) /\ xAt # o + hAt + 1
    BY <1>1, <1>2, <1>3, <1>6
  <2>2. xAt % 2 = 1 => (meets <=> xAt = o + hAt + 1) /\ xAt # o + hAt
    BY <1>1, <1>2, <1>3, <1>6
  <2> QED BY <1>4, <1>5, <1>6, <2>1, <2>2 DEF RePart, ImPart, o
<1>7. CASE hAt % 2 = 1
  <2>1. xAt % 2 = 0 => (meets <=> xAt = o + hAt - 1) /\ xAt # o + hAt
    BY <1>1, <1>2, <1>3, <1>7
  <2>2. xAt % 2 = 1 => (meets <=> xAt = o + hAt) /\ xAt # o + hAt - 1
    BY <1>1, <1>2, <1>3, <1>7
  <2> QED BY <1>1, <1>4, <1>5, <1>7, <2>1, <2>2 DEF RePart, ImPart, o
<1> QED BY <1>4, <1>6, <1>7

LEMMA ConvInit == Conv!Init => ConvIInv
<1> SUFFICES ASSUME Conv!Init PROVE ConvIInv OBVIOUS
<1>1. Calls \subseteq Nat \X Nat \X Nat \X Nat /\ Spare \in Nat
  BY SamplesAssumption DEF Conv!ConvolveAssumption
<1>2. h_len \in Nat /\ x_len \in Nat /\ y_len \in Nat /\ start \in Nat /\ len \in Nat
  <2>1. PICK c \in Calls : h_len = c[1] /\ y_len = c[2] /\ start = c[3] /\ len = c[4]
    BY Zenon DEF Conv!Init
  <2>2. c \in Nat \X Nat \X Nat \X Nat BY <1>1
  <2>3. c[1] \in Nat /\ c[2] \in Nat /\ c[3] \in Nat /\ c[4] \in Nat BY <2>2
  <2>4. x_len = h_len + Spare BY DEF Conv!Init
  <2> QED BY <1>1, <2>1, <2>3, <2>4
<1>3. h_len # 0
  <2>1. hAt \in 0 .. 2 * h_len - 1 BY DEF Conv!Init
  <2> QED BY <1>2, <2>1
<1>4. ConvTyped BY <1>2, <1>3 DEF ConvTyped, Conv!Init
<1>5. y = [i \in 0 .. 2 * y_len - 1 |-> Conv!Junk] /\ rc = "none" BY DEF Conv!Init
<1> QED BY <1>4, <1>5 DEF ConvIInv, Conv!SameAsReference, Conv!WritesInside

LEMMA ConvStep == ConvIInv /\ [Conv!Next]_convVars => ConvIInv'
<1> SUFFICES ASSUME ConvIInv, [Conv!Next]_convVars PROVE ConvIInv' OBVIOUS
<1>0. ConvTyped /\ Conv!SameAsReference /\ Conv!WritesInside BY DEF ConvIInv
<1>1. CASE Conv!convolve
  <2> DEFINE acc(i) == <<Conv!Cleared[2 * i], Conv!Cleared[2 * i + 1]>>
             Out1(i) == IF complex THEN Conv!conv_cmplx(acc(i), i) ELSE Conv!conv_real(acc(i), i)
             out1 == [i \in 0 .. len - 1 |-> Out1(i)]
  <2>1. /\ y' = [i \in DOMAIN Conv!Cleared |->
                    IF i < 2 * len THEN out1[i \div 2][(i % 2) + 1] ELSE y[i]]
        /\ rc = "none" /\ Conv!bounds_check /\ rc' = "len"
        /\ UNCHANGED <<complex, sse3, h_len, x_len, y_len, start, len, xAt, hAt>>
    BY <1>1, Zenon DEF Conv!convolve
  <2>2. /\ len \in Nat \ {0} /\ len <= y_len /\ y_len \in Nat /\ start + len <= x_len
        /\ start \in Nat /\ x_len \in Nat /\ h_len \in Nat \ {0}
    BY <1>0, <2>1 DEF Conv!bounds_check, ConvTyped
  <2>3. /\ DOMAIN y = 0 .. 2 * y_len - 1 /\ \A i \in 0 .. 2 * y_len - 1 : y[i] = Conv!Junk
    BY <1>0, <2>1 DEF Conv!WritesInside
  <2>4. DOMAIN Conv!Cleared = 0 .. 2 * y_len - 1 /\ \A i \in 0 .. 2 * len - 1 : Conv!Cleared[i] = 0
    BY <2>2, <2>3 DEF Conv!Cleared
  <2>5. ASSUME NEW i \in 0 .. len - 1 PROVE Out1(i) = Conv!Reference(i)
    <3>1. 2 * i \in 0 .. 2 * len - 1 /\ 2 * i + 1 \in 0 .. 2 * len - 1 BY <2>2
    <3>2. acc(i) = <<0, 0>> BY <2>4, <3>1
    <3>3. Reaches(Conv!From(i)) BY <2>2 DEF Reaches, Conv!From
    <3>4. complex \in BOOLEAN /\ i \in Int BY <1>0 DEF ConvTyped
    <3> HIDE DEF acc
    <3> QED BY <1>0, <3>2, <3>3, <3>4, OutputIs, ReferenceIs
  <2> HIDE DEF Out1
  <2>6. ASSUME NEW i \in 0 .. len - 1
        PROVE  y'[2 * i] = Conv!Reference(i)[1] /\ y'[2 * i + 1] = Conv!Reference(i)[2]
    <3>1. /\ 2 * i \in 0 .. 2 * y_len - 1 /\ 2 * i + 1 \in 0 .. 2 * y_len - 1
          /\ 2 * i < 2 * len /\ 2 * i + 1 < 2 * len
          /\ (2 * i) \div 2 = i /\ ((2 * i) % 2) + 1 = 1
          /\ (2 * i + 1) \div 2 = i /\ ((2 * i + 1) % 2) + 1 = 2
      BY <2>2
    <3>2. out1[i] = Conv!Reference(i) BY <2>5
    <3> HIDE DEF out1
    <3> QED BY <2>1, <2>4, <3>1, <3>2
  <2>7. \A i \in 0 .. len - 1 : Conv!Reference(i) = <<Conv!Reference(i)[1], Conv!Reference(i)[2]>>
    <3> SUFFICES ASSUME NEW i \in 0 .. len - 1
                 PROVE  Conv!Reference(i) = <<Conv!Reference(i)[1], Conv!Reference(i)[2]>>
      OBVIOUS
    <3>1. i \in Int BY <2>2
    <3> QED BY <1>0, <3>1, ReferenceIs
  <2>8. Conv!SameAsReference'
    <3>1. \A i \in 0 .. len - 1 : <<y'[2 * i], y'[2 * i + 1]>> = Conv!Reference(i)
      BY <2>6, <2>7
    <3>2. \A i : Conv!Reference(i)' = Conv!Reference(i) BY <2>1 DEF Conv!Reference
    <3> QED BY <2>1, <3>1, <3>2 DEF Conv!SameAsReference
  <2>9. Conv!WritesInside'
    <3>1. DOMAIN y' = 0 .. 2 * y_len - 1 BY <2>1, <2>4
    <3>2. \A i \in 0 .. 2 * y_len - 1 : i >= 2 * len => y'[i] = Conv!Junk
      <4>1. \A i \in 0 .. 2 * y_len - 1 : i >= 2 * len => ~(i < 2 * len) BY <2>2
      <4> HIDE DEF out1
      <4> QED BY <2>1, <2>3, <2>4, <4>1
    <3> QED BY <2>1, <3>1, <3>2 DEF Conv!WritesInside, Conv!Junk
  <2> QED BY <1>0, <2>1, <2>8, <2>9 DEF ConvIInv, ConvTyped
<1>2. CASE Conv!Refuse
  <2>1. /\ rc' = "-1" /\ rc = "none"
        /\ UNCHANGED <<complex, sse3, h_len, x_len, y_len, start, len, xAt, hAt, y>>
    BY <1>2 DEF Conv!Refuse
  <2> QED BY <1>0, <2>1 DEF ConvIInv, ConvTyped, Conv!SameAsReference, Conv!WritesInside, Conv!Junk
<1>3. CASE UNCHANGED convVars
  <2>1. UNCHANGED <<complex, sse3, h_len, x_len, y_len, start, len, xAt, hAt, y, rc>>
    BY <1>3 DEF convVars
  <2>2. \A i : Conv!Reference(i)' = Conv!Reference(i) BY <2>1 DEF Conv!Reference
  <2> QED BY <1>0, <2>1, <2>2 DEF ConvIInv, ConvTyped, Conv!SameAsReference, Conv!WritesInside,
         Conv!Junk
<1> QED BY <1>1, <1>2, <1>3 DEF Conv!Next

LEMMA KernelsAlone ==
    /\ MCInit => Conv!Init /\ Cvt!Init
    /\ [MCNext]_MCvars => [Conv!Next]_convVars /\ [Cvt!Next]_cvtVars
<1>1. MCInit => Conv!Init /\ Cvt!Init BY Zenon DEF MCInit
<1>2. ASSUME [MCNext]_MCvars PROVE [Conv!Next]_convVars /\ [Cvt!Next]_cvtVars
  <2>1. CASE UNCHANGED MCvars BY <2>1, Zenon DEF MCvars
  <2>2. [Conv!Next]_convVars
    <3>1. CASE part = "convolve" /\ Conv!Next BY <3>1
    <3>2. CASE part # "convolve" /\ Others BY <3>2, Zenon DEF Others
    <3> QED BY <1>2, <2>1, <3>1, <3>2 DEF MCNext
  <2>3. [Cvt!Next]_cvtVars
    <3>1. CASE part = "convert" /\ Cvt!Next BY <3>1
    <3>2. CASE part # "convert" /\ Others BY <3>2, Zenon DEF Others
    <3> QED BY <1>2, <2>1, <3>1, <3>2 DEF MCNext
  <2> QED BY <2>2, <2>3
<1> QED BY <1>1, <1>2

\* For every number of taps, place of the nonzero sample and of the nonzero
\* tap, and whichever kernel the processor has, convolve() computes the
\* convolution, writes what it is asked for and nothing when it refuses; and
\* the conversions put every sample in its place, for arrays of any length.
THEOREM SmKernelsCompute == MCSpec => []KernelsCompute
<1>1. MCInit => ConvIInv /\ CvtIInv BY KernelsAlone, ConvInit, CvtInit
<1>2. ConvIInv /\ CvtIInv /\ [MCNext]_MCvars => ConvIInv' /\ CvtIInv'
  <2> SUFFICES ASSUME ConvIInv, CvtIInv, [MCNext]_MCvars PROVE ConvIInv' /\ CvtIInv' OBVIOUS
  <2>1. [Conv!Next]_convVars /\ [Cvt!Next]_cvtVars BY KernelsAlone
  <2> QED BY <2>1, ConvStep, CvtStep
<1>3. ConvIInv /\ CvtIInv => KernelsCompute BY DEF ConvIInv, CvtIInv, KernelsCompute
<1> QED BY <1>1, <1>2, <1>3, PTL DEF MCSpec

=============================================================================
