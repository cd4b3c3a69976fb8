--------------------------- MODULE DevicesProofs ---------------------------
(***************************************************************************)
(* The devices. UHD's writeSamples: BurstsBracketed is invariant for every *)
(* length of an alignment and every number of event threads; by itself it  *)
(* is not inductive: that a start of burst follows an end of burst rests   *)
(* on the counter, which is above zero exactly between the two. LimeSDR,   *)
(* power and tuning, as MCDevices puts them side by side: LmsInv and       *)
(* SetAsAnswered, for every number of channels, every range of gains and   *)
(* every set of frequencies. The USRP1: UsrpInv, for every ring that is    *)
(* large enough for what may be lost, every size of packets and reads, and *)
(* every clock; that a read finds its samples rests on where each sample   *)
(* of the next turn of the ring is, and on how far the device can be ahead *)
(* of the reader. UHD's readSamples, for every length of packet, read and  *)
(* ring: that a read returns the samples of its times rests on the ring    *)
(* ending with the last packet written to it, and on every sample of a     *)
(* packet being in the place of its time.                                  *)
(***************************************************************************)
EXTENDS MCDevices, Sequences, TLAPS

\* The counter says what was sent last, but for a mark that is on its way.
CounterKnows ==
    /\ drop_cnt > 0 /\ txpc # "EOB" => mark = "EOB"
    /\ drop_cnt = 0 /\ txpc # "SOB" => mark # "EOB"
    /\ txpc = "EOB" => drop_cnt > 0
    /\ txpc = "SOB" => drop_cnt = 0

IInv == TypeOK /\ CounterKnows /\ BurstsBracketed

\* TypeOK, in the parts that the provers take.
Flags == started \in BOOLEAN /\ aligned \in BOOLEAN /\ owed \in BOOLEAN
Counts ==
    /\ drop_cnt \in 0 .. DropPkts - 1
    /\ txpc \in {"idle", "align", "send", "EOB", "SOB"} /\ mark \in {"none", "EOB", "SOB"}
    /\ threads \in 0 .. MaxThreads /\ (started => threads > 0)

LEMMA TypeParts == TypeOK <=> Flags /\ Counts
BY Zenon DEF TypeOK, Flags, Counts

LEMMA InitIInv == Init => IInv
<1> SUFFICES ASSUME Init PROVE IInv OBVIOUS
<1>1. Flags BY Zenon DEF Init, Flags
<1>2. 0 \in 0 .. DropPkts - 1 /\ 0 \in 0 .. MaxThreads BY UhdTxAssumption
<1>3. Counts BY <1>2, Zenon DEF Init, Counts
<1>4. ~(drop_cnt > 0) BY DEF Init
<1> QED BY <1>1, <1>3, <1>4, TypeParts, Zenon DEF Init, IInv, CounterKnows, BurstsBracketed

\* What the device and the event thread do leaves TxLower's state alone.
LEMMA OthersIInv ==
    ASSUME IInv, Start \/ Stop \/ Restart \/ RecvAsyncMsg
    PROVE  IInv'
<1>1. Flags /\ Counts BY TypeParts DEF IInv
<1>2. Flags' BY <1>1, Zenon DEF Flags, Start, Stop, Restart, RecvAsyncMsg
<1>3. UNCHANGED <<drop_cnt, txpc, mark>>
  BY Zenon DEF Start, Stop, Restart, RecvAsyncMsg
<1>4. threads' \in 0 .. MaxThreads /\ (started' => threads' > 0)
  <2>1. CASE Start
    <3>1. threads' = threads + 1 /\ threads < MaxThreads BY <2>1, Zenon DEF Start
    <3> QED BY <3>1, <1>1, UhdTxAssumption DEF Counts
  <2>2. CASE Stop
    <3>1. threads' = threads - 1 /\ threads > 0 /\ ~started' BY <2>2, <1>1, Zenon DEF Stop, Counts
    <3>2. threads' \in 0 .. MaxThreads BY <3>1, <1>1, UhdTxAssumption DEF Counts
    <3> QED BY <3>1, <3>2, Zenon
  <2>3. CASE Restart \/ RecvAsyncMsg
    BY <2>3, <1>1, Zenon DEF Restart, RecvAsyncMsg, Counts
  <2> QED BY <2>1, <2>2, <2>3
<1>5. Counts' BY <1>1, <1>3, <1>4, Zenon DEF Counts
<1>6. CounterKnows' /\ BurstsBracketed'
  BY <1>3, Zenon DEF IInv, CounterKnows, BurstsBracketed
<1> QED BY <1>2, <1>5, <1>6, TypeParts, PTL DEF IInv

LEMMA WriteSamplesIInv ==
    ASSUME IInv, WriteSamples
    PROVE  IInv'
<1>1. Flags /\ Counts BY TypeParts DEF IInv
<1>2. Flags' BY <1>1, Zenon DEF Flags, WriteSamples
<1>3. /\ txpc = "idle" /\ txpc' \in {"send", "align"}
      /\ UNCHANGED <<drop_cnt, mark, threads, started>>
  BY Zenon DEF WriteSamples
<1>4. Counts' BY <1>1, <1>3, Zenon DEF Counts
<1>5. txpc' # "EOB" /\ txpc' # "SOB" BY <1>3
<1>6. CounterKnows' /\ BurstsBracketed'
  BY <1>3, <1>5 DEF IInv, CounterKnows, BurstsBracketed
<1> QED BY <1>2, <1>4, <1>6, TypeParts, PTL DEF IInv

\* The first packet of an alignment finds no open end of burst, the last one
\* finds the one that the first sent: there are at least two packets.
LEMMA AlignIInv ==
    ASSUME IInv, Align
    PROVE  IInv'
<1>1. Flags /\ Counts BY TypeParts DEF IInv
<1>2. Flags' BY <1>1, Zenon DEF Flags, Align
<1>3. UNCHANGED <<started, threads, mark>> /\ txpc = "align" BY Zenon DEF Align
<1>4. /\ drop_cnt' \in 0 .. DropPkts - 1
      /\ drop_cnt = 0 => txpc' = "EOB" /\ drop_cnt' > 0
      /\ drop_cnt > 0 /\ drop_cnt' > 0 => txpc' = "idle"
      /\ drop_cnt > 0 /\ drop_cnt' = 0 => txpc' = "SOB"
  <2>1. /\ drop_cnt' = IF drop_cnt + 1 < DropPkts THEN drop_cnt + 1 ELSE 0
        /\ txpc' = CASE drop_cnt + 1 = 1 -> "EOB"
                     [] drop_cnt + 1 > 1 /\ drop_cnt + 1 < DropPkts -> "idle"
                     [] OTHER -> "SOB"
    BY Zenon DEF Align
  <2>2. drop_cnt \in 0 .. DropPkts - 1 BY <1>1 DEF Counts
  <2> QED BY <2>1, <2>2, UhdTxAssumption
<1>5. txpc' \in {"idle", "align", "send", "EOB", "SOB"}
  BY <1>4, <1>1 DEF Counts
<1>6. Counts' BY <1>1, <1>3, <1>4, <1>5, Zenon DEF Counts
<1>7. drop_cnt > 0 => mark = "EOB" BY <1>3 DEF IInv, CounterKnows
<1>8. drop_cnt = 0 => mark # "EOB" BY <1>3 DEF IInv, CounterKnows
<1>9. CounterKnows' /\ BurstsBracketed'
  BY <1>1, <1>3, <1>4, <1>7, <1>8 DEF Counts, CounterKnows, BurstsBracketed
<1> QED BY <1>2, <1>6, <1>9, TypeParts, PTL DEF IInv

LEMMA SendIInv ==
    ASSUME IInv, Send
    PROVE  IInv'
<1>1. Flags /\ Counts BY TypeParts DEF IInv
<1>2. Flags' BY <1>1, Zenon DEF Flags, Send
<1>3. /\ txpc \in {"send", "EOB", "SOB"} /\ txpc' = "idle"
      /\ mark' = IF txpc = "send" THEN mark ELSE txpc
      /\ UNCHANGED <<drop_cnt, threads, started>>
  BY Zenon DEF Send
<1>4. mark' \in {"none", "EOB", "SOB"} BY <1>1, <1>3 DEF Counts
<1>5. Counts' BY <1>1, <1>3, <1>4, Zenon DEF Counts
<1>6. CounterKnows' /\ BurstsBracketed'
  BY <1>1, <1>3 DEF Counts, IInv, CounterKnows, BurstsBracketed
<1> QED BY <1>2, <1>5, <1>6, TypeParts, PTL DEF IInv

LEMMA StepIInv == IInv /\ [Next]_vars => IInv'
<1> SUFFICES ASSUME IInv, [Next]_vars PROVE IInv' OBVIOUS
<1>1. CASE UNCHANGED vars
  BY <1>1 DEF vars, IInv, TypeOK, CounterKnows, BurstsBracketed
<1>2. CASE Next
  BY <1>2, OthersIInv, WriteSamplesIInv, AlignIInv, SendIInv DEF Next, TxStep
<1> QED BY <1>1, <1>2

\* Every variable has its type, and a started device has its event thread.
THEOREM UhdTxTypeOK == Spec => []TypeOK
BY InitIInv, StepIInv, PTL DEF Spec, IInv

\* writeSamples() sends start and end of burst alternately, whenever the event
\* thread asks for a new alignment and however often the device restarts.
THEOREM UhdTxBracketed == Spec => []BurstsBracketed
BY InitIInv, StepIInv, PTL DEF Spec, IInv

\* Both, as the run checks them.
THEOREM UhdTxInv == Spec => []TransmitInv
BY UhdTxTypeOK, UhdTxBracketed, PTL DEF TransmitInv
-----------------------------------------------------------------------------
(* LimeSDR *)

LmsDirs == {"rx", "tx"}
LmsChans == 0 .. lmsChans - 1

\* The constants, and the queues.
LmsTyped ==
    /\ lmsChans \in Nat \ {0} /\ FlushLen \in Nat
    /\ next \in [LmsChans -> Int] /\ lmsRead \in Int

\* Who has the handle, and how often it was closed.
Handle ==
    /\ opened \in Nat /\ closed \in Nat
    /\ \/ m_lms_dev = "null" /\ opened = closed
       \/ m_lms_dev = "open" /\ opened = closed + 1
    /\ phase \in {"new", "deleted"} => m_lms_dev = "null"

\* A new device has not been started.
Streams ==
    /\ enabled \in [LmsDirs -> [LmsChans -> BOOLEAN]]
    /\ stream \in [LmsDirs -> [LmsChans -> {"none", "setup", "running"}]]
    /\ lmsStarted \in BOOLEAN /\ (phase = "new" => lmsStarted = FALSE)
    /\ Lms!StreamsFollow

\* With one channel and no trouble, the next block is the one to be read.
InTime ==
    /\ lmsChans = 1 /\ lmsStarted /\ flushed /\ ~trouble => next[0] = lmsRead
    /\ Lms!ReadsWhatIsAsked

LmsIInv == LmsTyped /\ Handle /\ Streams /\ InTime

LEMMA LmsInit == Lms!Init => LmsIInv
<1> SUFFICES ASSUME Lms!Init PROVE LmsIInv OBVIOUS
<1> USE DEF Lms!Init, Lms!Chans, LmsChans
<1>1. LmsTyped BY LmsAssumption DEF LmsTyped, Lms!LmsAssumption
<1>2. Handle BY DEF Handle
<1>3. Streams BY DEF Streams, Lms!StreamsFollow, LmsDirs, Lms!Dirs
<1>4. InTime BY DEF InTime, Lms!ReadsWhatIsAsked
<1> QED BY <1>1, <1>2, <1>3, <1>4 DEF LmsIInv

\* All the calls of start() have been made for a channel and a direction.
LEMMA AllCalls ==
    ASSUME LmsTyped, NEW c \in LmsChans, NEW d \in LmsDirs
    PROVE  /\ Len(Lms!Calls) = 6 * lmsChans
           /\ Lms!Done(Len(Lms!Calls), "enable", d, c)
           /\ Lms!Done(Len(Lms!Calls), "start", d, c)
<1> DEFINE n == 6 * lmsChans
           p == IF d = "rx" THEN 1 ELSE 2
           i == 4 * c + p
           j == 4 * lmsChans + 2 * c + p
<1>1. lmsChans \in Nat \ {0} /\ c \in 0 .. lmsChans - 1 /\ d \in {"rx", "tx"}
  BY DEF LmsTyped, LmsChans, LmsDirs
<1>2. Len(Lms!Calls) = n BY <1>1 DEF Lms!Calls
<1>3. /\ i \in 1 .. n /\ i <= 4 * lmsChans
      /\ (i - 1) % 4 < 2 /\ (i - 1) \div 4 = c
      /\ i % 2 = 1 <=> d = "rx"
  BY <1>1
<1>4. /\ j \in 1 .. n /\ ~(j <= 4 * lmsChans)
      /\ (j - 1 - 4 * lmsChans) \div 2 = c
      /\ j % 2 = 1 <=> d = "rx"
  BY <1>1
<1> HIDE DEF i, j
<1>5. Lms!Calls[i] = [op |-> "enable", d |-> d, c |-> c] BY <1>1, <1>3 DEF Lms!Calls
<1>6. Lms!Calls[j] = [op |-> "start", d |-> d, c |-> c] BY <1>1, <1>4 DEF Lms!Calls
<1> QED BY <1>2, <1>3, <1>4, <1>5, <1>6 DEF Lms!Done

\* open() and the destructor.
LEMMA LmsOpenStep ==
    ASSUME LmsIInv, Lms!OpenNone \/ Lms!OpenClose \/ Lms!OpenAntennas \/ Lms!Open \/ Lms!Delete
    PROVE  LmsIInv'
<1> USE DEF LmsIInv, Lms!OpenNone, Lms!OpenClose, Lms!OpenAntennas, Lms!Open, Lms!Delete
<1>1. UNCHANGED <<lmsChans, enabled, stream, spoilt, lateSetup, next, lmsInitial, lmsRead,
                  flushed, trouble, stopRequired, got, starts, reads>>
      /\ phase' # "new" /\ phase # "deleted"
  BY DEF Lms!streams, Lms!times
<1>2. lmsStarted' = lmsStarted BY DEF Streams, Lms!streams
<1>3. LmsTyped' BY <1>1 DEF LmsTyped, LmsChans
<1>4. Handle' BY <1>1 DEF Handle
<1>5. Streams' BY <1>1, <1>2 DEF Streams, Lms!StreamsFollow, LmsChans, Lms!Chans
<1>6. InTime' BY <1>1, <1>2 DEF InTime, Lms!ReadsWhatIsAsked, Lms!Nothing
<1> QED BY <1>3, <1>4, <1>5, <1>6

\* The calls of start() keep the types.
LEMMA LmsCallsTyped ==
    ASSUME LmsIInv, NEW k, Lms!StartCalls(k)
    PROVE  /\ enabled' \in [LmsDirs -> [LmsChans -> BOOLEAN]]
           /\ stream' \in [LmsDirs -> [LmsChans -> {"none", "setup", "running"}]]
BY DEF LmsIInv, Streams, Lms!StartCalls, Lms!Dirs, LmsDirs, Lms!Chans, LmsChans, Lms!Done

LEMMA LmsStartFailsStep ==
    ASSUME LmsIInv, NEW k, Lms!StartFails(k)
    PROVE  LmsIInv'
<1> USE DEF LmsIInv
<1>1. /\ UNCHANGED <<lmsChans, m_lms_dev, opened, closed, phase, lmsStarted, next, lmsInitial,
                     lmsRead, flushed, trouble, got>>
      /\ ~lmsStarted /\ spoilt' = TRUE
  BY DEF Lms!StartFails, Lms!handle, Lms!times
<1>2. LmsTyped' BY <1>1 DEF LmsTyped, LmsChans
<1>3. Handle' BY <1>1 DEF Handle
<1>4. Streams'
  BY <1>1, LmsCallsTyped DEF Lms!StartFails, Streams, Lms!StreamsFollow, LmsChans
<1>5. InTime' BY <1>1 DEF InTime, Lms!ReadsWhatIsAsked, Lms!Nothing
<1> QED BY <1>2, <1>3, <1>4, <1>5

LEMMA LmsStartStep ==
    ASSUME LmsIInv, NEW n \in 0 .. FlushLen, Lms!Start(n)
    PROVE  LmsIInv'
<1> USE DEF LmsIInv
<1>1. /\ UNCHANGED <<lmsChans, m_lms_dev, opened, closed, phase>>
      /\ phase = "opened" /\ lmsStarted' = TRUE /\ got' = Lms!Nothing
      /\ lmsRead' = n /\ next' = [c \in LmsChans |-> IF c = 0 THEN n ELSE 0]
      /\ Lms!StartCalls(Len(Lms!Calls))
  BY DEF Lms!Start, Lms!handle, Lms!flush_recv, Lms!Chans, LmsChans
<1>2. LmsTyped' BY <1>1 DEF LmsTyped, LmsChans
<1>3. Handle' BY <1>1 DEF Handle
<1>4. ASSUME NEW d \in LmsDirs, NEW c \in LmsChans
      PROVE  stream'[d][c] = "running" /\ enabled'[d][c]
  BY <1>1, AllCalls DEF Lms!StartCalls, LmsDirs, Lms!Dirs, LmsChans, Lms!Chans
<1>5. Streams'
  BY <1>1, <1>4, LmsCallsTyped
     DEF Streams, Lms!StreamsFollow, LmsDirs, Lms!Dirs, LmsChans, Lms!Chans
<1>6. InTime' BY <1>1 DEF InTime, Lms!ReadsWhatIsAsked, Lms!Nothing, LmsChans
<1> QED BY <1>2, <1>3, <1>5, <1>6

LEMMA LmsStopStep ==
    ASSUME LmsIInv, Lms!Stop
    PROVE  LmsIInv'
<1> USE DEF LmsIInv
<1>1. /\ UNCHANGED <<lmsChans, m_lms_dev, opened, closed, phase, next, lmsRead, flushed, trouble>>
      /\ phase = "opened" /\ lmsStarted' = FALSE /\ got' = Lms!Nothing
      /\ stream' = [d \in LmsDirs |-> [c \in LmsChans |-> "none"]]
      /\ enabled' = [d \in LmsDirs |-> [c \in LmsChans |-> FALSE]]
  BY DEF Lms!Stop, Lms!handle, Lms!Chans, LmsChans, Lms!Dirs, LmsDirs
<1>2. LmsTyped' BY <1>1 DEF LmsTyped, LmsChans
<1>3. Handle' BY <1>1 DEF Handle
<1>4. Streams'
  BY <1>1 DEF Streams, Lms!StreamsFollow, LmsDirs, Lms!Dirs, LmsChans, Lms!Chans
<1>5. InTime' BY <1>1 DEF InTime, Lms!ReadsWhatIsAsked
<1> QED BY <1>2, <1>3, <1>4, <1>5

\* A block is lost, a read times out or returns its blocks.
LEMMA LmsReadStep ==
    ASSUME LmsIInv,
           \/ \E c \in LmsChans : Lms!Overrun(c) \/ Lms!ReadTimeout(c)
           \/ Lms!ReadSamples
    PROVE  LmsIInv'
<1> USE DEF LmsIInv
<1>1. UNCHANGED <<lmsChans, m_lms_dev, opened, closed, phase, lmsStarted, enabled, stream, spoilt,
                  flushed>>
  BY DEF Lms!Overrun, Lms!ReadTimeout, Lms!ReadSamples, Lms!handle, Lms!streams
<1>2. Handle' BY <1>1 DEF Handle
<1>3. Streams' BY <1>1 DEF Streams, Lms!StreamsFollow, LmsChans, Lms!Chans
<1>4. CASE \E c \in LmsChans : Lms!Overrun(c) \/ Lms!ReadTimeout(c)
  <2>1. PICK c \in LmsChans : Lms!Overrun(c) \/ Lms!ReadTimeout(c) BY <1>4
  <2>2. /\ next' \in [LmsChans -> Int] /\ lmsRead' = lmsRead /\ trouble' = TRUE
    BY <2>1 DEF Lms!Overrun, Lms!ReadTimeout, LmsTyped, Lms!Chans, LmsChans
  <2>3. LmsTyped' BY <1>1, <2>2 DEF LmsTyped, LmsChans
  <2>4. InTime' BY <2>2 DEF InTime, Lms!ReadsWhatIsAsked
  <2> QED BY <1>2, <1>3, <2>3, <2>4
<1>5. CASE Lms!ReadSamples
  <2>1. /\ next' = [c \in LmsChans |-> next[c] + 1] /\ trouble' = trouble /\ lmsStarted
        /\ \/ /\ next[lmsChans - 1] < lmsRead /\ lmsRead' = lmsRead /\ got' = got
           \/ /\ lmsRead' = lmsRead + 1
              /\ got' = [at |-> lmsRead, of |-> [c \in 1 .. lmsChans |-> next[c - 1]]]
    BY <1>5 DEF Lms!ReadSamples, Lms!Chans, LmsChans
  <2>2. LmsTyped' BY <1>1, <2>1 DEF LmsTyped, LmsChans
  <2>3. InTime'
    <3> SUFFICES ASSUME lmsChans = 1, flushed, ~trouble
                 PROVE  next'[0] = lmsRead' /\ (got' # Lms!Nothing => got'.of = <<got'.at>>)
      BY <1>1, <2>1 DEF InTime, Lms!ReadsWhatIsAsked, Lms!Nothing
    <3>1. next[0] = lmsRead BY <2>1 DEF InTime
    <3>2. lmsRead' = lmsRead + 1 /\ got' = [at |-> lmsRead, of |-> [c \in 1 .. 1 |-> next[c - 1]]]
      BY <2>1, <3>1 DEF LmsTyped
    <3>3. [c \in 1 .. 1 |-> next[c - 1]] = <<lmsRead>> BY <3>1
    <3> QED BY <2>1, <3>1, <3>2, <3>3 DEF LmsTyped, LmsChans
  <2> QED BY <1>2, <1>3, <2>2, <2>3
<1> QED BY <1>4, <1>5

LEMMA LmsStep == LmsIInv /\ [Lms!Next]_lmsVars => LmsIInv'
<1> SUFFICES ASSUME LmsIInv, [Lms!Next]_lmsVars PROVE LmsIInv' OBVIOUS
<1>1. CASE UNCHANGED lmsVars
  BY <1>1 DEF lmsVars, LmsIInv, LmsTyped, Handle, Streams, InTime, Lms!StreamsFollow,
              Lms!ReadsWhatIsAsked, Lms!Nothing, LmsChans, Lms!Chans
<1>2. CASE Lms!Next
  BY <1>2, LmsOpenStep, LmsStartFailsStep, LmsStartStep, LmsStopStep, LmsReadStep
     DEF Lms!Next, Lms!Chans, LmsChans
<1> QED BY <1>1, <1>2
-----------------------------------------------------------------------------
(* Power *)

PowerChans == 0 .. NumChans - 1

PowerTyped ==
    /\ dev \in PowerDevices
    /\ gain \in [PowerChans -> Int] /\ digital \in [PowerChans -> Int]
    /\ mPower \in [PowerChans -> Nat]
    /\ fresh \in [PowerChans -> BOOLEAN]
    /\ xch \in [PowerChans -> [st : {"idle", "sent", "done"}, cmd : {"SETPOWER", "ADJPOWER"},
                               arg : Int, before : Int, tries : Nat]]

NotBelow0(level) == IF level < 0 THEN 0 ELSE level

\* mPower is what a SETPOWER that is over has asked for.
SetLevel ==
    \A c \in PowerChans :
        fresh[c] /\ xch[c].st = "done" /\ xch[c].cmd = "SETPOWER" =>
            mPower[c] = NotBelow0(xch[c].arg)

PowerIInv == PowerTyped /\ SetLevel /\ Power!PowerAsReported

\* The constants, for the provers.
LEMMA PowerConstants ==
    /\ PowerDevices \subseteq {"UHD", "MULTI", "LMS", "USRP1"}
    /\ NumChans \in Nat \ {0} /\ GainStep \in Nat \ {0} /\ MinGain \in Nat /\ MaxGain \in Nat
    /\ MinGain < MaxGain /\ Levels \subseteq Int /\ Steps \subseteq Nat
BY PowerAssumption DEF Power!PowerAssumption

LEMMA PowerInit == Power!Init => PowerIInv
<1> SUFFICES ASSUME Power!Init PROVE PowerIInv OBVIOUS
<1> USE DEF Power!Init, Power!Chans, PowerChans
<1>1. Power!Mid \in Int BY PowerConstants DEF Power!Mid
<1>2. PowerTyped BY <1>1 DEF PowerTyped, Power!NoXch
<1>3. SetLevel BY DEF SetLevel, Power!NoXch
<1>4. Power!PowerAsReported BY DEF Power!PowerAsReported
<1> QED BY <1>2, <1>3, <1>4 DEF PowerIInv

\* The gain that is set is near the one asked for, and within the range.
LEMMA GainNear ==
    ASSUME NEW atten \in Nat, NEW g \in Power!setTxGain(MaxGain - atten), dev \in PowerDevices
    PROVE  /\ g \in Int /\ g <= MaxGain
           /\ MaxGain - g < atten + GainStep
<1>1. /\ MaxGain - atten <= MaxGain /\ MaxGain - atten \in Int BY PowerConstants
<1> DEFINE k == Power!Clamped(MaxGain - atten)
<1>2. k \in MinGain .. MaxGain /\ MaxGain - k <= atten
  BY <1>1, PowerConstants DEF Power!Clamped
<1>3. g = k \/ (g \in MinGain .. MaxGain /\ k - g < GainStep)
  BY DEF Power!setTxGain
<1> HIDE DEF k
<1> QED BY <1>2, <1>3, PowerConstants

\* Gain and digital factor add up to the attenuation, but for less than a step.
LEMMA SplitNear ==
    ASSUME NEW atten \in Nat, NEW g \in Int, g <= MaxGain, MaxGain - g < atten + GainStep
    PROVE  /\ Power!DigitalAttenuation(atten, g) \in Int
           /\ Power!Near(MaxGain - g + Power!DigitalAttenuation(atten, g), atten)
BY PowerConstants DEF Power!DigitalAttenuation, Power!Near

LEMMA PowerSendStep ==
    ASSUME PowerIInv, NEW c \in PowerChans, NEW arg \in Int,
           NEW cmd \in {"SETPOWER", "ADJPOWER"}, Power!Send(c, cmd, arg)
    PROVE  PowerIInv'
<1> USE DEF PowerIInv, PowerTyped
<1>1. UNCHANGED <<dev, gain, digital, mPower, fresh>> BY DEF Power!Send
<1>2. Power!Attenuation(c) \in Int
  <2>1. Power!DevChan(c) \in PowerChans BY PowerConstants DEF Power!DevChan, PowerChans
  <2>2. gain[Power!DevChan(c)] \in Int /\ digital[c] \in Int BY <2>1
  <2> QED BY <2>2, PowerConstants DEF Power!Attenuation
<1>3. /\ xch' \in [PowerChans -> [st : {"idle", "sent", "done"}, cmd : {"SETPOWER", "ADJPOWER"},
                                 arg : Int, before : Int, tries : Nat]]
      /\ xch'[c].st = "sent"
      /\ \A e \in PowerChans : e # c => xch'[e] = xch[e]
  BY <1>2 DEF Power!Send
<1>4. PowerTyped' BY <1>1, <1>3
<1>5. SetLevel' BY <1>1, <1>3 DEF SetLevel
<1>6. Power!PowerAsReported'
  BY <1>1 DEF Power!PowerAsReported, Power!Attenuation, Power!DevChan
<1> QED BY <1>4, <1>5, <1>6

LEMMA PowerHandleStep ==
    ASSUME PowerIInv, NEW c \in PowerChans, NEW arrives \in BOOLEAN, Power!Handle(c, arrives)
    PROVE  PowerIInv'
<1> USE DEF PowerIInv, PowerTyped
<1> DEFINE level == Power!NewLevel(c)
           atten == NotBelow0(level)
<1>1. /\ dev' = dev
      /\ xch' = [xch EXCEPT ![c].st = IF arrives THEN "done" ELSE "sent", ![c].tries = @ + 1]
      /\ fresh' = [fresh EXCEPT ![c] = TRUE]
  BY DEF Power!Handle
<1>2. level \in Int /\ atten \in Nat
  BY DEF Power!NewLevel, NotBelow0
<1>3. PICK g \in Power!setTxGain(MaxGain - atten) :
        /\ gain' = [gain EXCEPT ![Power!DevChan(c)] = g]
        /\ digital' = [digital EXCEPT ![c] = Power!DigitalAttenuation(atten, g)]
        /\ mPower' = [mPower EXCEPT ![c] = atten]
  BY DEF Power!Handle, Power!setPowerAttenuation, NotBelow0
<1>4. xch[c].cmd = "SETPOWER" => level = xch[c].arg BY DEF Power!NewLevel
<1> HIDE DEF level, atten
<1>5. /\ g \in Int /\ g <= MaxGain /\ MaxGain - g < atten + GainStep BY <1>2, GainNear
<1>6. /\ Power!DigitalAttenuation(atten, g) \in Int
      /\ Power!Near(MaxGain - g + Power!DigitalAttenuation(atten, g), atten)
  BY <1>2, <1>5, SplitNear
<1>7. Power!DevChan(c) \in PowerChans BY PowerConstants DEF Power!DevChan, PowerChans
<1>8. PowerTyped' BY <1>1, <1>2, <1>3, <1>5, <1>6, <1>7
<1>9. SetLevel' BY <1>1, <1>3, <1>4 DEF SetLevel, atten
<1>10. ASSUME dev' # "MULTI", NEW e \in PowerChans, fresh'[e]
       PROVE  Power!Near(Power!Attenuation(e), mPower[e])'
  <2>1. Power!DevChan(e) = e /\ Power!DevChan(c) = c /\ Power!DevChan(e)' = e
    BY <1>1, <1>10 DEF Power!DevChan
  <2>2. Power!Attenuation(e)' = MaxGain - gain'[e] + digital'[e]
    BY <2>1, <1>10 DEF Power!Attenuation
  <2>3. CASE e = c
    <3>1. gain'[e] = g /\ digital'[e] = Power!DigitalAttenuation(atten, g) /\ mPower'[e] = atten
      BY <2>1, <2>3, <1>3
    <3> QED BY <1>6, <2>2, <3>1 DEF Power!Near
  <2>4. CASE e # c
    <3>1. gain'[e] = gain[e] /\ digital'[e] = digital[e] /\ mPower'[e] = mPower[e]
          /\ fresh[e] /\ dev # "MULTI"
      BY <2>1, <2>4, <1>1, <1>3, <1>10
    <3>2. Power!Attenuation(e) = MaxGain - gain[e] + digital[e]
      BY <2>1, <3>1 DEF Power!Attenuation
    <3> QED BY <2>2, <3>1, <3>2 DEF Power!PowerAsReported, PowerChans, Power!Chans, Power!Near
  <2> QED BY <2>3, <2>4
<1>11. Power!PowerAsReported' BY <1>10 DEF Power!PowerAsReported, PowerChans, Power!Chans
<1> QED BY <1>8, <1>9, <1>11

LEMMA PowerOnOffStep ==
    ASSUME PowerIInv, Power!PowerOn \/ Power!PowerOff
    PROVE  PowerIInv'
<1> USE DEF PowerIInv
<1>1. /\ UNCHANGED <<dev, digital, mPower, xch>>
      /\ \/ UNCHANGED <<gain, fresh>>
         \/ /\ gain' = [c \in PowerChans |-> Power!Mid]
            /\ fresh' = [c \in PowerChans |-> FALSE]
  BY DEF Power!PowerOn, Power!PowerOff, PowerChans, Power!Chans
<1>2. Power!Mid \in Int BY PowerConstants DEF Power!Mid
<1>3. PowerTyped' BY <1>1, <1>2 DEF PowerTyped
<1>4. SetLevel' BY <1>1 DEF SetLevel
<1>5. Power!PowerAsReported'
  BY <1>1 DEF Power!PowerAsReported, Power!Attenuation, Power!DevChan, Power!Chans, PowerChans
<1> QED BY <1>3, <1>4, <1>5

LEMMA PowerStep == PowerIInv /\ [Power!Next]_powerVars => PowerIInv'
<1> SUFFICES ASSUME PowerIInv, [Power!Next]_powerVars PROVE PowerIInv' OBVIOUS
<1>1. CASE UNCHANGED powerVars
  BY <1>1 DEF powerVars, PowerIInv, PowerTyped, SetLevel, Power!PowerAsReported,
              Power!Attenuation, Power!DevChan
<1>2. CASE Power!Next
  <2>1. CASE \E c \in PowerChans : \E arg \in Levels : Power!Send(c, "SETPOWER", arg)
    BY <2>1, PowerSendStep, PowerConstants
  <2>2. CASE \E c \in PowerChans : \E arg \in Steps : Power!Send(c, "ADJPOWER", arg)
    <3>1. Steps \subseteq Int BY PowerConstants
    <3> QED BY <2>2, <3>1, PowerSendStep
  <2>3. CASE \E c \in PowerChans : \E arrives \in BOOLEAN : Power!Handle(c, arrives)
    BY <2>3, PowerHandleStep
  <2> QED BY <1>2, <2>1, <2>2, <2>3, PowerOnOffStep DEF Power!Next, Power!Chans, PowerChans
<1> QED BY <1>1, <1>2

\* What was reported and what was asked for are the power, up to a step.
LEMMA PowerIsSet == PowerIInv => Power!PowerAsReported /\ Power!SetIsLevel
BY DEF PowerIInv, SetLevel, Power!PowerAsReported, Power!SetIsLevel, NotBelow0, PowerChans,
       Power!Chans
-----------------------------------------------------------------------------
(* Tuning *)

TuneChans == 0 .. chans - 1
TuneDirs == {"tx", "rx"}
Settings == [TuneDirs -> [TuneChans -> Int]]

TuneTyped ==
    /\ dev_type \in {"B200", "B210", "E3XX", "X3XX", "UMTRX"} /\ chans \in {1, 2}
    /\ dev_type = "B200" => chans = 1
    /\ lo \in Settings /\ dsp \in Settings /\ freqs \in Settings /\ tuned \in Settings
    /\ tunepc \in [TuneChans -> {"idle", "lock", "tune", "retune", "answer"}]
    /\ job \in [TuneChans -> [d : TuneDirs, f : Int]]
    /\ \A c \in TuneChans : tunepc[c] # "idle" => job[c].f >= 10
    /\ tune_lock \in TuneChans \cup {-1}

\* A thread is past the lock only while it holds it.
Locked ==
    \A c \in TuneChans :
        tunepc[c] \in {"tune", "retune", "answer"} <=> tune_lock = c

\* freqs has what was answered, or is about to be; a frequency not asked for
\* is 0, and the others are at least 10.
Recorded ==
    \A d \in TuneDirs, c \in TuneChans :
        /\ freqs[d][c] = IF tunepc[c] \in {"retune", "answer"} /\ job[c].d = d
                         THEN job[c].f ELSE tuned[d][c]
        /\ freqs[d][c] = 0 \/ freqs[d][c] >= 10

\* The frequencies in freqs are such that the code supports them.
Close(F) == \A c, o \in TuneChans : F[c] # 0 /\ F[o] # 0 => F[c] - F[o] <= Mcr
Reachable(F) ==
    chans = 1 \/ dev_type \in {"X3XX", "UMTRX"} \/ (dev_type = "B210" /\ Close(F))

\* The channels are on the frequencies in freqs.
Placed(F, L, D) == \A c \in TuneChans : F[c] # 0 => L[c] + D[c] = F[c]

\* Between the tuning of c and of the other channel, the oscillator is where
\* the other has to find it.
Halfway(c, F, L, D) ==
    /\ dev_type = "B210" /\ chans = 2 /\ Close(F)
    /\ F[c] >= 10 /\ F[1 - c] >= 10
    /\ L[c] = (F[1 - c] + F[c]) \div 2 /\ L[c] + D[c] = F[c]

InTune ==
    \A d \in TuneDirs :
        IF \E c \in TuneChans : tunepc[c] = "retune" /\ job[c].d = d
        THEN \E c \in TuneChans :
                tunepc[c] = "retune" /\ job[c].d = d /\ Halfway(c, freqs[d], lo[d], dsp[d])
        ELSE Reachable(freqs[d]) => Placed(freqs[d], lo[d], dsp[d])

TuneIInv == TuneTyped /\ Locked /\ Recorded /\ InTune

LEMMA TuneConstants ==
    /\ TuneDevices \subseteq {"B200", "B210", "E3XX", "X3XX", "UMTRX"}
    /\ TuneChanCounts \subseteq {1, 2} /\ Mcr \in Nat /\ LoOffset \in Nat
    /\ \A f \in Freqs : f \in Nat /\ f >= 10
BY TuneAssumption DEF Tune!TuneAssumption

LEMMA TuneInit == Tune!Init => TuneIInv
<1> SUFFICES ASSUME Tune!Init PROVE TuneIInv OBVIOUS
<1> USE DEF Tune!Init, Tune!Chans, Tune!Dirs, TuneChans, TuneDirs
<1>1. TuneTyped BY TuneConstants DEF TuneTyped, Settings, Tune!NoJob
<1>2. Locked BY DEF Locked
<1>3. Recorded BY DEF Recorded
<1>4. InTune BY DEF InTune, Placed
<1> QED BY <1>1, <1>2, <1>3, <1>4 DEF TuneIInv

\* A command comes, or its thread gets the lock.
LEMMA TuneWaitStep ==
    ASSUME TuneIInv, NEW c \in TuneChans,
           \/ \E d \in TuneDirs, f \in Freqs : Tune!Command(c, d, f)
           \/ Tune!Lock(c)
    PROVE  TuneIInv'
<1> USE DEF TuneIInv
<1>1. /\ UNCHANGED <<dev_type, chans, lo, dsp, freqs, tuned>>
      /\ \A e \in TuneChans : e # c => tunepc'[e] = tunepc[e] /\ job'[e] = job[e]
      /\ tunepc[c] \in {"idle", "lock"}
      /\ \/ tunepc'[c] = "lock" /\ tune_lock' = tune_lock /\ job'[c].f >= 10
         \/ tunepc[c] = "lock" /\ tunepc'[c] = "tune" /\ tune_lock = -1 /\ tune_lock' = c
            /\ job' = job
      /\ job' \in [TuneChans -> [d : TuneDirs, f : Int]]
      /\ tunepc' \in [TuneChans -> {"idle", "lock", "tune", "retune", "answer"}]
  BY TuneConstants DEF TuneTyped, Tune!Command, Tune!Lock
<1>2. TuneTyped' BY <1>1 DEF TuneTyped, TuneChans, Settings
<1>3. Locked'
  <2> SUFFICES ASSUME NEW e \in TuneChans
               PROVE  tunepc'[e] \in {"tune", "retune", "answer"} <=> tune_lock' = e
    BY <1>1 DEF Locked, TuneChans
  <2>1. tunepc[e] \in {"tune", "retune", "answer"} <=> tune_lock = e BY DEF Locked
  <2>2. -1 \notin TuneChans BY DEF TuneTyped, TuneChans
  <2>3. CASE e = c
    <3>1. CASE tunepc'[c] = "lock" /\ tune_lock' = tune_lock BY <1>1, <2>1, <2>3, <3>1
    <3>2. CASE tunepc'[c] = "tune" /\ tune_lock' = c BY <2>3, <3>2
    <3> QED BY <1>1, <3>1, <3>2
  <2>4. CASE e # c
    <3>1. tunepc'[e] = tunepc[e] BY <1>1, <2>4
    <3>2. tune_lock' = tune_lock \/ (tune_lock = -1 /\ tune_lock' = c) BY <1>1
    <3> QED BY <2>1, <2>2, <2>4, <3>1, <3>2
  <2> QED BY <2>3, <2>4
<1>4. Recorded' BY <1>1 DEF Recorded, TuneChans
<1>5. InTune'
  <2> SUFFICES ASSUME NEW d \in TuneDirs
               PROVE  IF \E e \in TuneChans : tunepc'[e] = "retune" /\ job'[e].d = d
                      THEN \E e \in TuneChans :
                              tunepc'[e] = "retune" /\ job'[e].d = d
                              /\ Halfway(e, freqs[d], lo[d], dsp[d])
                      ELSE Reachable(freqs[d]) => Placed(freqs[d], lo[d], dsp[d])
    BY <1>1 DEF InTune, TuneChans, Halfway, Reachable, Placed, Close
  <2>1. \A e \in TuneChans :
          tunepc'[e] = "retune" /\ job'[e].d = d <=> tunepc[e] = "retune" /\ job[e].d = d
    BY <1>1
  <2> QED BY <2>1 DEF InTune
<1> QED BY <1>2, <1>3, <1>4, <1>5

\* What select_freq returns: the target, and with a policy for an oscillator
\* that is shared the centre of two frequencies that are close.
LEMMA Selected ==
    ASSUME TuneTyped, Recorded, NEW c \in TuneChans, NEW d \in TuneDirs, NEW f \in Int, f >= 10,
           NEW treq, treq = Tune!select_freq(f, c, d)
    PROVE  /\ treq.target = f /\ treq.rf \in Int /\ treq.manual \in BOOLEAN
           /\ chans = 2 /\ dev_type # "UMTRX" /\ treq.manual =>
                dev_type = "B210" /\ freqs[d][1 - c] >= 10
                /\ freqs[d][1 - c] - f <= Mcr /\ f - freqs[d][1 - c] <= Mcr
                /\ treq.rf = (freqs[d][1 - c] + f) \div 2
           /\ chans = 2 /\ dev_type = "B210" /\ ~treq.manual =>
                freqs[d][1 - c] = 0
                \/ freqs[d][1 - c] - f > Mcr \/ f - freqs[d][1 - c] > Mcr
<1> USE TuneConstants DEF Tune!Auto, Tune!Manual, TuneTyped
<1>1. CASE chans = 1
  <2>1. treq = Tune!Auto(f) \/ treq = Tune!Manual(f, f + LoOffset)
    BY <1>1, Zenon DEF Tune!select_freq
  <2>2. treq.target = f /\ treq.rf \in {f, f + LoOffset} /\ treq.manual \in BOOLEAN
    <3>1. CASE treq = [target |-> f, manual |-> FALSE, rf |-> f] BY <3>1
    <3>2. CASE treq = [target |-> f, manual |-> TRUE, rf |-> f + LoOffset] BY <3>2
    <3> QED BY <2>1, <3>1, <3>2, Zenon
  <2>3. treq.rf \in Int BY <2>2
  <2>4. chans # 2 BY <1>1
  <2> HIDE TuneConstants DEF TuneTyped
  <2> QED BY <2>2, <2>3, <2>4
<1>2. CASE chans = 2
  <2> DEFINE other == freqs[d][1 - c]
  <2>1. 1 - c \in TuneChans BY <1>2 DEF TuneChans
  <2>2. other \in Int /\ (other = 0 \/ other >= 10)
    BY <2>1 DEF Settings, Recorded
  <2>3. treq = LET spread == IF other > f THEN other - f ELSE f - other
               IN  IF dev_type = "UMTRX" THEN Tune!Manual(f, f + LoOffset)
                   ELSE IF dev_type # "B210" THEN Tune!Auto(f)
                   ELSE IF other < 10 THEN Tune!Auto(f)
                   ELSE IF spread > Mcr THEN Tune!Auto(f)
                   ELSE Tune!Manual(f, (other + f) \div 2)
    BY <1>2 DEF Tune!select_freq, Tune!Other
  <2> HIDE DEF other
  <2>4. /\ treq.target = f /\ treq.rf \in Int /\ treq.manual \in BOOLEAN
        /\ dev_type # "UMTRX" /\ treq.manual =>
             dev_type = "B210" /\ other >= 10 /\ other - f <= Mcr /\ f - other <= Mcr
             /\ treq.rf = (other + f) \div 2
        /\ dev_type = "B210" /\ ~treq.manual => other = 0 \/ other - f > Mcr \/ f - other > Mcr
    BY <2>2, <2>3
  <2> QED BY <1>2, <2>4 DEF other
<1> QED BY <1>1, <1>2

\* What a request does to the settings.
LEMMA Applied ==
    ASSUME TuneTyped, NEW c \in TuneChans, NEW d \in TuneDirs, NEW treq,
           treq.target \in Int, treq.rf \in Int, Tune!Apply(treq, c, d),
           dev_type' = dev_type, chans' = chans
    PROVE  /\ lo' \in Settings /\ dsp' \in Settings /\ freqs' \in Settings
           /\ \A e \in TuneDirs :
                e # d => lo'[e] = lo[e] /\ dsp'[e] = dsp[e] /\ freqs'[e] = freqs[e]
           /\ lo'[d][c] = treq.rf /\ dsp'[d][c] = treq.target - treq.rf
           /\ freqs'[d][c] = treq.target
           /\ \A x \in TuneChans :
                x # c => /\ lo'[d][x] = IF dev_type \in {"B210", "E3XX"} THEN treq.rf ELSE lo[d][x]
                         /\ dsp'[d][x] = dsp[d][x] /\ freqs'[d][x] = freqs[d][x]
<1> USE DEF TuneTyped, Settings
<1> DEFINE L == [x \in TuneChans |-> IF x = c \/ Tune!SharedLo THEN treq.rf ELSE lo[d][x]]
<1>1. L \in [TuneChans -> Int] OBVIOUS
<1>2. /\ lo' = [lo EXCEPT ![d] = L]
      /\ dsp' = [dsp EXCEPT ![d][c] = treq.target - treq.rf]
      /\ freqs' = [freqs EXCEPT ![d][c] = lo'[d][c] + dsp'[d][c]]
  BY DEF Tune!Apply, Tune!Chans, TuneChans
<1>3. /\ \A x \in TuneChans :
            L[x] = IF x = c \/ dev_type \in {"B210", "E3XX"} THEN treq.rf ELSE lo[d][x]
  BY DEF Tune!SharedLo
<1> HIDE DEF L
<1>4. lo' \in Settings /\ lo'[d] = L /\ \A e \in TuneDirs : e # d => lo'[e] = lo[e]
  BY <1>1, <1>2
<1>5. /\ dsp' \in Settings /\ \A e \in TuneDirs : e # d => dsp'[e] = dsp[e]
      /\ dsp'[d] = [dsp[d] EXCEPT ![c] = treq.target - treq.rf]
  BY <1>2
<1>6. lo'[d][c] + dsp'[d][c] = treq.target BY <1>3, <1>4, <1>5
<1>7. /\ freqs' \in Settings /\ \A e \in TuneDirs : e # d => freqs'[e] = freqs[e]
      /\ freqs'[d] = [freqs[d] EXCEPT ![c] = treq.target]
  BY <1>2, <1>6
<1> QED BY <1>3, <1>4, <1>5, <1>7

\* The thread that holds the lock is the only one in set_freq().
LEMMA Alone ==
    ASSUME TuneTyped, Locked, NEW c \in TuneChans, tunepc[c] \in {"tune", "retune", "answer"}
    PROVE  \A e \in TuneChans : e # c => tunepc[e] \in {"idle", "lock"}
BY DEF TuneTyped, Locked

LEMMA TuneTuneStep ==
    ASSUME TuneIInv, NEW c \in TuneChans, Tune!Tune(c)
    PROVE  TuneIInv'
<1> USE DEF TuneIInv
<1> DEFINE d == job[c].d
           f == job[c].f
           treq == Tune!select_freq(f, c, d)
           o == 1 - c
<1>1. /\ UNCHANGED <<dev_type, chans, tuned, tune_lock, job, tunes>> /\ tunepc[c] = "tune"
      /\ tunepc' = [tunepc EXCEPT ![c] = IF chans = 2 /\ dev_type # "UMTRX" /\ treq.manual
                                        THEN "retune" ELSE "answer"]
      /\ Tune!Apply(treq, c, d)
  BY DEF Tune!Tune
<1>2. d \in TuneDirs /\ f \in Int /\ f >= 10 BY <1>1 DEF TuneTyped
<1>3. \A e \in TuneChans : e # c => tunepc[e] \in {"idle", "lock"} BY <1>1, Alone
<1> HIDE DEF d, f, treq
<1>4. /\ treq.target = f /\ treq.rf \in Int /\ treq.manual \in BOOLEAN
      /\ chans = 2 /\ dev_type # "UMTRX" /\ treq.manual =>
           dev_type = "B210" /\ freqs[d][o] >= 10
           /\ freqs[d][o] - f <= Mcr /\ f - freqs[d][o] <= Mcr
           /\ treq.rf = (freqs[d][o] + f) \div 2
      /\ chans = 2 /\ dev_type = "B210" /\ ~treq.manual =>
           freqs[d][o] = 0 \/ freqs[d][o] - f > Mcr \/ f - freqs[d][o] > Mcr
  BY <1>2, Selected DEF treq
<1>5. /\ lo' \in Settings /\ dsp' \in Settings /\ freqs' \in Settings
      /\ \A e \in TuneDirs :
            e # d => lo'[e] = lo[e] /\ dsp'[e] = dsp[e] /\ freqs'[e] = freqs[e]
      /\ lo'[d][c] = treq.rf /\ dsp'[d][c] = f - treq.rf /\ freqs'[d][c] = f
      /\ \A x \in TuneChans :
            x # c => /\ lo'[d][x] = IF dev_type \in {"B210", "E3XX"} THEN treq.rf ELSE lo[d][x]
                     /\ dsp'[d][x] = dsp[d][x] /\ freqs'[d][x] = freqs[d][x]
  BY <1>1, <1>2, <1>4, Applied
<1>6. /\ tunepc' \in [TuneChans -> {"idle", "lock", "tune", "retune", "answer"}]
      /\ \A e \in TuneChans : e # c => tunepc'[e] = tunepc[e]
      /\ tunepc'[c] = IF chans = 2 /\ dev_type # "UMTRX" /\ treq.manual THEN "retune" ELSE "answer"
      /\ TuneChans' = TuneChans
  BY <1>1 DEF TuneTyped, TuneChans
<1>7. TuneTyped'
  <2>1. \A e \in TuneChans : tunepc'[e] # "idle" => job'[e].f >= 10
    BY <1>1, <1>2, <1>6 DEF TuneTyped, f
  <2> QED BY <1>1, <1>5, <1>6, <2>1 DEF TuneTyped, Settings
<1>8. Locked' BY <1>1, <1>6 DEF Locked
<1>9. Recorded'
  <2> SUFFICES ASSUME NEW e \in TuneDirs, NEW x \in TuneChans
               PROVE  /\ freqs'[e][x] = IF tunepc'[x] \in {"retune", "answer"} /\ job[x].d = e
                                         THEN job[x].f ELSE tuned[e][x]
                      /\ freqs'[e][x] = 0 \/ freqs'[e][x] >= 10
    BY <1>1, <1>6 DEF Recorded
  <2>1. CASE x = c /\ e = d BY <2>1, <1>2, <1>5, <1>6 DEF d, f
  <2>2. CASE x = c /\ e # d
    <3>1. freqs'[e][x] = freqs[e][x] BY <2>2, <1>5
    <3> QED BY <2>2, <3>1, <1>1 DEF Recorded, d
  <2>3. CASE x # c
    <3>1. freqs'[e][x] = freqs[e][x] /\ tunepc'[x] = tunepc[x] BY <2>3, <1>5, <1>6
    <3> QED BY <3>1 DEF Recorded
  <2> QED BY <2>1, <2>2, <2>3
<1>10. ASSUME NEW e \in TuneDirs
       PROVE  IF \E x \in TuneChans : tunepc'[x] = "retune" /\ job[x].d = e
              THEN \E x \in TuneChans :
                      tunepc'[x] = "retune" /\ job[x].d = e
                      /\ Halfway(x, freqs'[e], lo'[e], dsp'[e])
              ELSE Reachable(freqs'[e]) => Placed(freqs'[e], lo'[e], dsp'[e])
  <2>1. ~ \E x \in TuneChans : tunepc[x] = "retune" BY <1>1, <1>3
  <2>2. Reachable(freqs[e]) => Placed(freqs[e], lo[e], dsp[e]) BY <2>1 DEF InTune
  <2>3. CASE e # d
    <3>1. ~ \E x \in TuneChans : tunepc'[x] = "retune" /\ job[x].d = e
      BY <2>1, <2>3, <1>6 DEF d
    <3> QED BY <2>2, <2>3, <3>1, <1>5
  <2>4. CASE e = d /\ chans = 2 /\ dev_type # "UMTRX" /\ treq.manual
    <3>1. o \in TuneChans /\ o # c BY <2>4 DEF TuneChans
    <3>2. freqs'[d][o] = freqs[d][o] /\ freqs[d][o] \in Int
      BY <1>5, <3>1, <1>2 DEF TuneTyped, Settings
    <3>3. \A x, y \in TuneChans : freqs'[d][x] # 0 /\ freqs'[d][y] # 0 =>
                                   freqs'[d][x] - freqs'[d][y] <= Mcr
      BY <2>4, <3>1, <3>2, <1>2, <1>4, <1>5, TuneConstants DEF TuneChans
    <3>4. Halfway(c, freqs'[d], lo'[d], dsp'[d])
      BY <2>4, <3>2, <3>3, <1>2, <1>4, <1>5 DEF Halfway, Close
    <3> QED BY <2>4, <3>4, <1>6 DEF d
  <2>5. CASE e = d /\ ~(chans = 2 /\ dev_type # "UMTRX" /\ treq.manual)
    <3>1. ~ \E x \in TuneChans : tunepc'[x] = "retune" BY <2>1, <2>5, <1>6
    <3>2. ASSUME Reachable(freqs'[d]), NEW x \in TuneChans, freqs'[d][x] # 0
          PROVE  lo'[d][x] + dsp'[d][x] = freqs'[d][x]
      <4>1. CASE x = c BY <4>1, <1>2, <1>4, <1>5
      <4>2. CASE x # c
        <5>1. chans = 2 /\ x = o BY <4>2 DEF TuneTyped, TuneChans
        <5>2. CASE dev_type \in {"X3XX", "UMTRX"}
          <6>1. Reachable(freqs[d]) BY <5>2 DEF Reachable
          <6>2. Placed(freqs[d], lo[d], dsp[d]) BY <6>1, <2>2, <2>5
          <6> QED BY <6>2, <5>2, <4>2, <1>5, <3>2 DEF Placed
        <5>3. CASE dev_type = "B210" /\ Close(freqs'[d])
          <6>1. freqs'[d][x] = freqs[d][o] /\ freqs'[d][c] = f BY <1>5, <4>2, <5>1
          <6>2. f - freqs[d][o] <= Mcr /\ freqs[d][o] - f <= Mcr
            BY <5>3, <6>1, <3>2, <1>2 DEF Close
          <6>3. freqs[d][o] \in Int BY <1>2, <5>1 DEF TuneTyped, Settings
          <6> QED BY <6>1, <6>2, <6>3, <5>1, <5>3, <2>5, <1>2, <1>4, <3>2, TuneConstants
        <5> QED BY <5>1, <5>2, <5>3, <3>2 DEF Reachable
      <4> QED BY <4>1, <4>2
    <3> QED BY <2>5, <3>1, <3>2 DEF Placed
  <2> QED BY <2>3, <2>4, <2>5
<1>11. InTune'
  BY <1>1, <1>6, <1>10 DEF InTune, Halfway, Reachable, Placed, Close
<1> QED BY <1>7, <1>8, <1>9, <1>11

LEMMA TuneRetuneStep ==
    ASSUME TuneIInv, NEW c \in TuneChans, Tune!Retune(c)
    PROVE  TuneIInv'
<1> USE DEF TuneIInv
<1> DEFINE d == job[c].d
           o == 1 - c
           g == freqs[d][o]
           treq == Tune!select_freq(g, o, d)
<1>1. /\ UNCHANGED <<dev_type, chans, tuned, tune_lock, job, tunes>> /\ tunepc[c] = "retune"
      /\ tunepc' = [tunepc EXCEPT ![c] = "answer"]
      /\ Tune!Apply(treq, o, d)
  BY DEF Tune!Retune, Tune!Other
<1>2. d \in TuneDirs BY DEF TuneTyped
<1>3. \A e \in TuneChans : e # c => tunepc[e] \in {"idle", "lock"} BY <1>1, Alone
<1>4. Halfway(c, freqs[d], lo[d], dsp[d])
  <2>1. PICK e \in TuneChans : tunepc[e] = "retune" /\ Halfway(e, freqs[d], lo[d], dsp[d])
    BY <1>1, <1>2 DEF InTune
  <2>2. e = c BY <2>1, <1>3
  <2> QED BY <2>1, <2>2
<1>5. /\ dev_type = "B210" /\ chans = 2 /\ freqs[d][c] >= 10 /\ g >= 10
      /\ o \in TuneChans /\ o # c /\ 1 - o = c
      /\ freqs[d][c] \in Int /\ g \in Int
  BY <1>2, <1>4 DEF Halfway, TuneChans, TuneTyped, Settings
<1>6. freqs[d][c] - g <= Mcr /\ g - freqs[d][c] <= Mcr
  BY <1>4, <1>5 DEF Halfway, Close
<1> HIDE DEF d, g, treq, o
<1>7. /\ treq.target = g /\ treq.rf \in Int /\ treq.rf = (freqs[d][c] + g) \div 2
  <2>1. /\ treq.target = g /\ treq.rf \in Int /\ treq.manual \in BOOLEAN
        /\ treq.manual => treq.rf = (freqs[d][1 - o] + g) \div 2
        /\ ~treq.manual => freqs[d][1 - o] = 0
             \/ freqs[d][1 - o] - g > Mcr \/ g - freqs[d][1 - o] > Mcr
    BY <1>2, <1>5, Selected DEF treq
  <2> QED BY <2>1, <1>5, <1>6, TuneConstants
<1>8. /\ lo' \in Settings /\ dsp' \in Settings /\ freqs' \in Settings
      /\ \A e \in TuneDirs :
            e # d => lo'[e] = lo[e] /\ dsp'[e] = dsp[e] /\ freqs'[e] = freqs[e]
      /\ lo'[d][o] = treq.rf /\ dsp'[d][o] = g - treq.rf /\ freqs'[d][o] = g
      /\ \A x \in TuneChans :
            x # o => /\ lo'[d][x] = IF dev_type \in {"B210", "E3XX"} THEN treq.rf ELSE lo[d][x]
                     /\ dsp'[d][x] = dsp[d][x] /\ freqs'[d][x] = freqs[d][x]
  BY <1>1, <1>2, <1>5, <1>7, Applied
<1>9. \A e \in TuneDirs, x \in TuneChans : freqs'[e][x] = freqs[e][x]
  BY <1>8 DEF g
<1>10. freqs' = freqs BY <1>8, <1>9 DEF TuneTyped, Settings
<1>11. /\ tunepc' \in [TuneChans -> {"idle", "lock", "tune", "retune", "answer"}]
       /\ \A e \in TuneChans : e # c => tunepc'[e] = tunepc[e]
       /\ tunepc'[c] = "answer" /\ TuneChans' = TuneChans
  BY <1>1 DEF TuneTyped, TuneChans
<1>12. TuneTyped' BY <1>1, <1>8, <1>11 DEF TuneTyped, Settings
<1>13. Locked' BY <1>1, <1>11 DEF Locked
<1>14. Recorded' BY <1>1, <1>10, <1>11 DEF Recorded
<1>15. ASSUME NEW e \in TuneDirs
       PROVE  /\ ~ \E x \in TuneChans : tunepc'[x] = "retune"
              /\ Reachable(freqs[e]) => Placed(freqs[e], lo'[e], dsp'[e])
  <2>1. ~ \E x \in TuneChans : tunepc'[x] = "retune" BY <1>3, <1>11
  <2>2. CASE e # d
    <3>1. ~ \E x \in TuneChans : tunepc[x] = "retune" /\ job[x].d = e
      BY <1>3, <2>2 DEF d
    <3>2. Reachable(freqs[e]) => Placed(freqs[e], lo[e], dsp[e]) BY <3>1 DEF InTune
    <3> QED BY <2>1, <2>2, <3>2, <1>8
  <2>3. CASE e = d
    <3>1. lo[d][c] = (g + freqs[d][c]) \div 2 /\ lo[d][c] + dsp[d][c] = freqs[d][c]
      BY <1>4 DEF Halfway, g, o
    <3>2. lo'[d][c] = lo[d][c] /\ dsp'[d][c] = dsp[d][c]
      BY <1>5, <1>7, <1>8, <3>1
    <3>3. lo'[d][o] + dsp'[d][o] = freqs[d][o] BY <1>5, <1>7, <1>8 DEF g
    <3>4. \A x \in TuneChans : x = c \/ x = o BY <1>5 DEF TuneChans, o
    <3> QED BY <2>1, <2>3, <3>1, <3>2, <3>3, <3>4 DEF Placed
  <2> QED BY <2>2, <2>3
<1>16. InTune'
  BY <1>1, <1>10, <1>11, <1>15 DEF InTune, Halfway, Reachable, Placed, Close
<1> QED BY <1>12, <1>13, <1>14, <1>16

LEMMA TuneAnswerStep ==
    ASSUME TuneIInv, NEW c \in TuneChans, Tune!Answer(c)
    PROVE  TuneIInv'
<1> USE DEF TuneIInv
<1> DEFINE d == job[c].d
           f == job[c].f
<1>1. /\ UNCHANGED <<dev_type, chans, lo, dsp, freqs>> /\ tunepc[c] = "answer" /\ tune_lock' = -1
      /\ tuned' = [tuned EXCEPT ![d][c] = f] /\ tunepc' = [tunepc EXCEPT ![c] = "idle"]
      /\ job' = [job EXCEPT ![c] = Tune!NoJob]
  BY DEF Tune!Answer
<1>2. d \in TuneDirs /\ f \in Int BY DEF TuneTyped
<1>3. \A e \in TuneChans : e # c => tunepc[e] \in {"idle", "lock"} BY <1>1, Alone
<1>4. Tune!NoJob \in [d : TuneDirs, f : Int] BY DEF Tune!NoJob, TuneDirs
<1>5. /\ TuneChans' = TuneChans /\ tunepc'[c] = "idle"
      /\ tunepc' \in [TuneChans -> {"idle", "lock", "tune", "retune", "answer"}]
      /\ job' \in [TuneChans -> [d : TuneDirs, f : Int]]
      /\ \A e \in TuneChans : e # c => tunepc'[e] = tunepc[e] /\ job'[e] = job[e]
  BY <1>1, <1>4 DEF TuneTyped, TuneChans
<1> HIDE DEF d, f
<1>6. /\ tuned' \in Settings
      /\ \A e \in TuneDirs, x \in TuneChans :
            tuned'[e][x] = IF e = d /\ x = c THEN f ELSE tuned[e][x]
  BY <1>1, <1>2 DEF TuneTyped, Settings
<1>7. TuneTyped' BY <1>1, <1>5, <1>6 DEF TuneTyped, Settings
<1>8. Locked' BY <1>1, <1>3, <1>5 DEF Locked, TuneChans
<1>9. Recorded'
  <2> SUFFICES ASSUME NEW e \in TuneDirs, NEW x \in TuneChans
               PROVE  freqs[e][x] = IF tunepc'[x] \in {"retune", "answer"} /\ job'[x].d = e
                                    THEN job'[x].f ELSE tuned'[e][x]
    BY <1>1, <1>5 DEF Recorded
  <2>1. freqs[e][x] = IF tunepc[x] \in {"retune", "answer"} /\ job[x].d = e
                      THEN job[x].f ELSE tuned[e][x]
    BY DEF Recorded
  <2>2. CASE x = c BY <2>1, <2>2, <1>1, <1>5, <1>6 DEF d, f
  <2>3. CASE x # c BY <2>1, <2>3, <1>5, <1>6
  <2> QED BY <2>2, <2>3
<1>10. InTune'
  <2>1. /\ ~ (\E x \in TuneChans : tunepc[x] = "retune")
        /\ ~ (\E x \in TuneChans : tunepc'[x] = "retune")
    BY <1>1, <1>3, <1>5
  <2>2. \A e \in TuneDirs : Reachable(freqs[e]) => Placed(freqs[e], lo[e], dsp[e])
    BY <2>1 DEF InTune
  <2> QED BY <1>1, <1>5, <2>1, <2>2 DEF InTune, Reachable, Placed, Close
<1> QED BY <1>7, <1>8, <1>9, <1>10

LEMMA TuneStep == TuneIInv /\ [Tune!Next]_tuneVars => TuneIInv'
<1> SUFFICES ASSUME TuneIInv, [Tune!Next]_tuneVars PROVE TuneIInv' OBVIOUS
<1>1. CASE UNCHANGED tuneVars
  BY <1>1 DEF tuneVars, TuneIInv, TuneTyped, Locked, Recorded, InTune, Settings, TuneChans,
              Halfway, Reachable, Placed, Close
<1>2. CASE Tune!Next
  <2>1. PICK c \in TuneChans :
            \/ \E d \in TuneDirs, f \in Freqs : Tune!Command(c, d, f)
            \/ Tune!Lock(c) \/ Tune!Tune(c) \/ Tune!Retune(c) \/ Tune!Answer(c)
    BY <1>2 DEF Tune!Next, Tune!Chans, TuneChans, Tune!Dirs, TuneDirs
  <2> QED BY <2>1, TuneWaitStep, TuneTuneStep, TuneRetuneStep, TuneAnswerStep
<1> QED BY <1>1, <1>2

\* While nobody has the lock, freqs is what was answered.
LEMMA TunedOnFrequency == TuneIInv => Tune!OnFrequency
<1> SUFFICES ASSUME TuneIInv, tune_lock = -1, NEW d \in TuneDirs, Tune!Supported(d),
                    NEW c \in TuneChans, tuned[d][c] # 0
             PROVE  lo[d][c] + dsp[d][c] = tuned[d][c]
  BY DEF Tune!OnFrequency, Tune!OnTarget, Tune!Dirs, TuneDirs, Tune!Chans, TuneChans
<1> USE DEF TuneIInv
<1>1. \A e \in TuneChans : tunepc[e] \notin {"tune", "retune", "answer"}
  BY DEF Locked, TuneChans, TuneTyped
<1>2. \A e \in TuneChans : freqs[d][e] = tuned[d][e] BY <1>1 DEF Recorded
<1>3. Reachable(freqs[d])
  BY <1>2 DEF Tune!Supported, Reachable, Close, Tune!Chans, TuneChans
<1>4. Placed(freqs[d], lo[d], dsp[d]) BY <1>1, <1>3 DEF InTune
<1> QED BY <1>2, <1>4 DEF Placed
-----------------------------------------------------------------------------
(* Remainders of integers *)

LEMMA DivMod ==
    ASSUME NEW n \in Nat \ {0}, NEW x \in Int
    PROVE  x % n \in 0 .. n - 1 /\ x \div n \in Int /\ x = n * (x \div n) + (x % n)
OBVIOUS

LEMMA Multiples ==
    ASSUME NEW n \in Nat \ {0}, NEW p \in Int, NEW q \in Int, p < q
    PROVE  n * p + n <= n * q
<1>1. PICK d \in Nat : q = p + 1 + d
  <2>1. q - p - 1 \in Nat /\ q = p + 1 + (q - p - 1) OBVIOUS
  <2> QED BY <2>1
<1>2. n * q = n * p + n + n * d BY <1>1
<1>3. n * d \in Nat OBVIOUS
<1>4. n * p \in Int OBVIOUS
<1> DEFINE a == n * p
           b == n * q
           c == n * d
<1>5. b = a + n + c BY <1>2
<1>6. a \in Int /\ c \in Nat BY <1>3, <1>4
<1> HIDE DEF a, b, c
<1>7. a + n <= b BY <1>5, <1>6
<1> QED BY <1>7 DEF a, b

LEMMA DivModIs ==
    ASSUME NEW n \in Nat \ {0}, NEW q \in Int, NEW r \in 0 .. n - 1, NEW x \in Int,
           x = n * q + r
    PROVE  x % n = r /\ x \div n = q
<1> DEFINE p == x \div n
           s == x % n
<1>1. s \in 0 .. n - 1 /\ x = n * p + s /\ p \in Int BY DivMod
<1> HIDE DEF p, s
<1> DEFINE a == n * p
           b == n * q
<1>2. a \in Int /\ b \in Int BY <1>1
<1>3. CASE p < q
  <2>1. a + n <= b BY <1>1, <1>3, Multiples
  <2> HIDE DEF a, b
  <2>2. x = a + s /\ x = b + r BY <1>1 DEF a, b
  <2> QED BY <1>1, <1>2, <2>1, <2>2
<1>4. CASE q < p
  <2>1. b + n <= a BY <1>1, <1>4, Multiples
  <2> HIDE DEF a, b
  <2>2. x = a + s /\ x = b + r BY <1>1 DEF a, b
  <2> QED BY <1>1, <1>2, <2>1, <2>2
<1>5. CASE p = q
  <2>1. s = r BY <1>1, <1>2, <1>5
  <2> QED BY <1>5, <2>1 DEF p, s
<1> QED BY <1>1, <1>3, <1>4, <1>5

LEMMA ModShift ==
    ASSUME NEW n \in Nat \ {0}, NEW x \in Int, NEW k \in Int
    PROVE  (x + n * k) % n = x % n
<1> DEFINE q == x \div n
           r == x % n
           y == x + n * k
<1>1. r \in 0 .. n - 1 /\ q \in Int /\ x = n * q + r BY DivMod
<1>2. y \in Int OBVIOUS
<1>3. y = n * (q + k) + r
  <2> HIDE DEF q, r
  <2> QED BY <1>1
<1>4. q + k \in Int BY <1>1
<1> HIDE DEF q, r, y
<1>5. y % n = r BY <1>1, <1>2, <1>3, <1>4, DivModIs
<1> QED BY <1>5 DEF y, r

LEMMA ModAdd ==
    ASSUME NEW n \in Nat \ {0}, NEW x \in Int, NEW y \in Int
    PROVE  ((x % n) + y) % n = (x + y) % n
<1> DEFINE q == x \div n
           r == x % n
           z == r + y
<1>1. r \in 0 .. n - 1 /\ q \in Int /\ x = n * q + r BY DivMod
<1>2. x + y = z + n * q /\ z \in Int
  <2> HIDE DEF q, r
  <2> QED BY <1>1
<1> HIDE DEF z, q
<1>3. (z + n * q) % n = z % n BY <1>1, <1>2, ModShift
<1> QED BY <1>2, <1>3 DEF z

LEMMA ModSubtract ==
    ASSUME NEW n \in Nat \ {0}, NEW x \in Int, NEW y \in Int
    PROVE  (x - (y % n)) % n = (x - y) % n
<1> DEFINE q == y \div n
           r == y % n
           z == x - r
           m == -q
<1>1. r \in 0 .. n - 1 /\ q \in Int /\ y = n * q + r BY DivMod
<1>2. x - y = z + n * m /\ z \in Int /\ m \in Int
  <2> HIDE DEF q, r
  <2> QED BY <1>1
<1> HIDE DEF z, m
<1>3. (z + n * m) % n = z % n BY <1>2, ModShift
<1> QED BY <1>2, <1>3 DEF z

LEMMA ModSmall ==
    ASSUME NEW n \in Nat \ {0}, NEW x \in Int
    PROVE  /\ x \in 0 .. n - 1 => x % n = x
           /\ x \in -n .. -1 => x % n = x + n
<1>1. ASSUME x \in 0 .. n - 1 PROVE x % n = x
  <2>1. x = n * 0 + x OBVIOUS
  <2> QED BY <1>1, <2>1, DivModIs
<1>2. ASSUME x \in -n .. -1 PROVE x % n = x + n
  <2>1. x = n * (-1) + (x + n) /\ x + n \in 0 .. n - 1 /\ -1 \in Int BY <1>2
  <2> QED BY <2>1, DivModIs
<1> QED BY <1>1, <1>2

LEMMA ModInjective ==
    ASSUME NEW n \in Nat \ {0}, NEW x \in Int, NEW y \in Int, x % n = y % n,
           x - y < n, y - x < n
    PROVE  x = y
<1> DEFINE a == x \div n
           b == y \div n
           r == x % n
           na == n * a
           nb == n * b
<1>1. a \in Int /\ x = n * a + r /\ r \in 0 .. n - 1 BY DivMod
<1>2. b \in Int /\ y = n * b + r BY DivMod
<1>3. na \in Int /\ nb \in Int BY <1>1, <1>2
<1>4. x = na + r /\ y = nb + r BY <1>1, <1>2
<1>5. a < b => na + n <= nb BY <1>1, <1>2, Multiples
<1>6. b < a => nb + n <= na BY <1>1, <1>2, Multiples
<1>7. a = b => na = nb OBVIOUS
<1> HIDE DEF a, b, r, na, nb
<1> QED BY <1>1, <1>2, <1>3, <1>4, <1>5, <1>6, <1>7
-----------------------------------------------------------------------------
(* The USRP1's reads (UsrpRead), whatever the ring, the packets and the    *)
(* clocks, and however answers and losses fall.                            *)

Pkts(k) == PktLen * k
FirstTime == UsrpStart + ClockDelay     \* of the first read, to the device
ReadTime == asked + ClockDelay          \* of the next read, to the device

\* How far the device is ahead of the reader, but for lost packets.
Reach ==
    IF UsrpLen - 1 + PktLen > Pkts(MaxBatch) - PktLen
    THEN UsrpLen - 1 + PktLen ELSE Pkts(MaxBatch) - PktLen

ReadTyped ==
    /\ DOMAIN data = 0 .. RingLen - 1
    /\ dataStart \in Int /\ timeStart \in Int /\ timeEnd \in Int /\ timestampOffset \in Int
    /\ asked \in Int /\ timestamp \in Int
    /\ isAligned \in BOOLEAN /\ outside = FALSE
    /\ lastPktTimestamp \in Nat /\ now \in Nat /\ batch \in Nat
    /\ usrpc \in {"idle", "need", "batch", "copy"} /\ lost \in 0 .. MaxLost

\* Nothing was read from the ring or put into it before the first answer.
ReadBefore ==
    ~isAligned =>
        /\ timestampOffset = 0 /\ asked = UsrpStart /\ timeStart = 0 /\ timeEnd = 0
        /\ pending = {UsrpStart - PktLen} /\ pingTimestamp = UsrpStart - PktLen
        /\ writer.at = "idle" /\ now <= FirstTime - PktLen /\ usrpc # "copy"

\* The ping that is not answered is the one noted, or about to be.
PingKnown ==
    \A ping \in pending : IF writer.at = "sent" THEN ping = writer.q ELSE ping = pingTimestamp

\* The time of a packet is told from its low bits.
ClockExact ==
    /\ now % PktLen = 0
    /\ lastPktTimestamp <= now /\ now - lastPktTimestamp <= PktLen + Pkts(lost)
    /\ hi32Timestamp = lastPktTimestamp \div ClockWrap

\* The ring starts at the time of the next read, once there was one, and
\* reaches almost to the device's time, which is not far ahead.
RingPlaced ==
    /\ isAligned => timestampOffset = ClockDelay
    /\ usrpc # "idle" => timestamp = asked + timestampOffset
    /\ \/ timeStart = 0 /\ asked = UsrpStart
       \/ timeStart = ReadTime /\ asked >= UsrpStart + UsrpLen /\ now >= ReadTime
          /\ timeEnd >= ReadTime
    /\ dataStart = timeStart % RingLen
    /\ timeEnd <= now
    /\ \/ timeEnd = 0 /\ now <= FirstTime - PktLen + Pkts(lost)
       \/ now <= timeEnd + Pkts(lost)
    /\ usrpc = "copy" => isAligned /\ timeEnd >= timestamp + UsrpLen

NotFarAhead ==
    IF usrpc = "batch" THEN batch >= 1 /\ now + Pkts(batch) <= ReadTime + Reach + Pkts(lost)
    ELSE now <= ReadTime + Reach + Pkts(lost)

\* Every sample not yet read is in its place, and zero where there is none.
InPlace(t) ==
    /\ t < now /\ t \notin missed => data[t % RingLen] = t
    /\ (t >= now \/ t \in missed) /\ t >= FirstTime + RingLen
       => data[t % RingLen] = UsrpRx!Zero
RingContent ==
    /\ \A t \in missed : t \in 0 .. now - 1
    /\ \A t \in ReadTime .. ReadTime + RingLen - 1 : InPlace(t)

\* What was read last.
ReadGood ==
    usrpc = "idle" /\ asked > UsrpStart =>
        \A i \in 0 .. UsrpLen - 1 :
            LET t == asked - UsrpLen + i + ClockDelay
            IN  /\ t \notin missed => buf[i] = t
                /\ t \in missed /\ t >= UsrpStart + ClockDelay + RingLen => buf[i] = UsrpRx!Zero

ReadParts ==
    /\ ReadTyped /\ ReadBefore /\ PingKnown /\ ClockExact /\ RingPlaced /\ NotFarAhead
    /\ RingContent /\ ReadGood
ReadIInv == raced \in BOOLEAN /\ (~raced => ReadParts)

\* Products by the length of a packet.
LEMMA PktsAre ==
    /\ PktLen \in Nat \ {0}
    /\ \A k \in Nat : Pkts(k) \in Nat /\ Pkts(k + 1) = Pkts(k) + PktLen
    /\ \A k, m \in Nat : k <= m => Pkts(k) <= Pkts(m)
    /\ Pkts(0) = 0
<1>1. PktLen \in Nat \ {0} BY DevicesAssumption DEF UsrpRx!UsrpAssumption
<1>2. ASSUME NEW k \in Nat PROVE Pkts(k) \in Nat /\ Pkts(k + 1) = Pkts(k) + PktLen
  BY <1>1 DEF Pkts
<1>3. ASSUME NEW k \in Nat, NEW m \in Nat, k <= m PROVE Pkts(k) <= Pkts(m)
  <2>1. CASE k = m BY <2>1, <1>1 DEF Pkts
  <2>2. CASE k < m
    <3>1. PktLen * k + PktLen <= PktLen * m BY <1>1, <2>2, Multiples
    <3>2. PktLen * k \in Int /\ PktLen * m \in Int BY <1>1
    <3> QED BY <1>1, <3>1, <3>2 DEF Pkts
  <2> QED BY <1>3, <2>1, <2>2
<1>4. Pkts(0) = 0 BY <1>1 DEF Pkts
<1> QED BY <1>1, <1>2, <1>3, <1>4

LEMMA ReadConstants ==
    /\ RingLen \in Nat \ {0} /\ ClockWrap \in Nat \ {0} /\ UsrpLen \in Nat \ {0}
    /\ MaxBatch \in Nat \ {0} /\ ClockDelay \in Nat /\ UsrpStart \in Nat /\ MaxLost \in Nat
    /\ FirstTime \in Nat /\ FirstTime >= PktLen /\ FirstTime <= RingLen
    /\ FirstTime + RingLen < ClockWrap /\ UsrpLen <= RingLen
    /\ Reach \in Nat /\ UsrpLen - 1 + PktLen <= Reach /\ Pkts(MaxBatch) - PktLen <= Reach
    /\ Reach + Pkts(MaxLost) <= RingLen /\ PktLen + Pkts(MaxLost) <= RingLen
    /\ PktLen <= RingLen
<1>1. /\ RingLen \in Nat \ {0} /\ ClockWrap \in Nat \ {0} /\ UsrpLen \in Nat \ {0}
      /\ MaxBatch \in Nat \ {0} /\ ClockDelay \in Nat /\ UsrpStart \in Nat /\ MaxLost \in Nat
      /\ PktLen \in Nat \ {0}
      /\ UsrpStart >= PktLen /\ UsrpStart + ClockDelay <= RingLen
      /\ UsrpStart + ClockDelay + RingLen < ClockWrap
      /\ PktLen * (MaxBatch + MaxLost - 1) <= RingLen
      /\ UsrpLen + PktLen * (1 + MaxLost) <= RingLen + 1
      /\ UsrpLen + PktLen * MaxBatch <= RingLen
  BY DevicesAssumption DEF UsrpRx!UsrpAssumption
<1>2. PktLen * (MaxBatch + MaxLost - 1) = Pkts(MaxBatch) + Pkts(MaxLost) - PktLen
  BY <1>1 DEF Pkts
<1>3. PktLen * (1 + MaxLost) = PktLen + Pkts(MaxLost) BY <1>1 DEF Pkts
<1>4. PktLen * MaxBatch = Pkts(MaxBatch) BY DEF Pkts
<1>5. Pkts(MaxBatch) \in Nat /\ Pkts(MaxLost) \in Nat BY <1>1, PktsAre
<1>6. Pkts(MaxBatch) >= PktLen
  <2>1. Pkts(0 + 1) = Pkts(0) + PktLen /\ Pkts(0) = 0 BY PktsAre
  <2>2. Pkts(1) <= Pkts(MaxBatch) BY <1>1, PktsAre
  <2> QED BY <1>1, <1>5, <2>1, <2>2
<1> QED BY <1>1, <1>2, <1>3, <1>4, <1>5, <1>6 DEF Reach, FirstTime

\* The smaller and the larger of two.
LEMMA MinMaxAre ==
    ASSUME NEW a \in Int, NEW b \in Int
    PROVE  /\ UsrpRx!Min({a, b}) = IF a <= b THEN a ELSE b
           /\ UsrpRx!Max({a, b}) = IF a >= b THEN a ELSE b
<1>1. UsrpRx!Min({a, b}) = IF a <= b THEN a ELSE b
  <2> DEFINE m == IF a <= b THEN a ELSE b
             Is(x) == x \in {a, b} /\ \A y \in {a, b} : x <= y
  <2>1. Is(m) OBVIOUS
  <2>2. \A x : Is(x) => x = m OBVIOUS
  <2>3. UsrpRx!Min({a, b}) = CHOOSE x \in {a, b} : \A y \in {a, b} : x <= y
    BY DEF UsrpRx!Min
  <2>4. (CHOOSE x : Is(x)) = m
    <3> HIDE DEF Is, m
    <3> QED BY <2>1, <2>2, Zenon
  <2> QED BY <2>3, <2>4
<1>2. UsrpRx!Max({a, b}) = IF a >= b THEN a ELSE b
  <2> DEFINE m == IF a >= b THEN a ELSE b
             Is(x) == x \in {a, b} /\ \A y \in {a, b} : x >= y
  <2>1. Is(m) OBVIOUS
  <2>2. \A x : Is(x) => x = m OBVIOUS
  <2>3. UsrpRx!Max({a, b}) = CHOOSE x \in {a, b} : \A y \in {a, b} : x >= y
    BY DEF UsrpRx!Max
  <2>4. (CHOOSE x : Is(x)) = m
    <3> HIDE DEF Is, m
    <3> QED BY <2>1, <2>2, Zenon
  <2> QED BY <2>3, <2>4
<1> QED BY <1>1, <1>2

LEMMA ReadInit == UsrpRx!Init => ReadIInv
<1> SUFFICES ASSUME UsrpRx!Init PROVE ReadParts /\ raced \in BOOLEAN BY DEF ReadIInv
<1>1. /\ data = [i \in 0 .. RingLen - 1 |-> UsrpRx!Garbage]
      /\ dataStart = 0 /\ timeStart = 0 /\ timeEnd = 0
      /\ timestampOffset = 0 /\ isAligned = FALSE /\ hi32Timestamp = 0 /\ lastPktTimestamp = 0
      /\ now = 0 /\ asked = UsrpStart /\ usrpc = "idle" /\ timestamp = 0 /\ batch = 0
      /\ writer.at = "idle" /\ pingTimestamp = UsrpStart - PktLen
      /\ pending = {UsrpStart - PktLen}
      /\ raced = FALSE /\ missed = {} /\ outside = FALSE /\ lost = 0
  BY DEF UsrpRx!Init, UsrpRx!FirstPing
<1>2. ReadTyped
  <2>1. DOMAIN data = 0 .. RingLen - 1 BY <1>1
  <2>2. 0 \in Int /\ 0 \in Nat /\ UsrpStart \in Int
        /\ 0 \in 0 .. MaxLost
    BY ReadConstants, PktsAre
  <2>3. usrpc \in {"idle", "need", "batch", "copy"} BY <1>1
  <2> QED BY <1>1, <2>1, <2>2, <2>3, Zenon DEF ReadTyped
<1>3. ReadBefore /\ PingKnown
  BY <1>1, ReadConstants, PktsAre DEF ReadBefore, PingKnown
<1>4. 0 % PktLen = 0 /\ 0 \div ClockWrap = 0 /\ 0 % RingLen = 0
  <2>1. ASSUME NEW n \in Nat \ {0} PROVE 0 % n = 0 /\ 0 \div n = 0
    <3>1. 0 = n * 0 + 0 /\ 0 \in 0 .. n - 1 OBVIOUS
    <3> QED BY <3>1, DivModIs
  <2> QED BY <2>1, ReadConstants, PktsAre
<1>5. ClockExact BY <1>1, <1>4, PktsAre DEF ClockExact
<1>6. RingPlaced /\ NotFarAhead
  <2>1. dataStart = timeStart % RingLen BY <1>1, <1>4
  <2>2. timeEnd = 0 /\ now <= FirstTime - PktLen + Pkts(lost)
    BY <1>1, ReadConstants, PktsAre
  <2>3. usrpc # "idle" => timestamp = asked + timestampOffset BY <1>1
  <2>4. RingPlaced BY <1>1, <2>1, <2>2, <2>3 DEF RingPlaced
  <2>5. now <= ReadTime + Reach + Pkts(lost)
    BY <1>1, ReadConstants, PktsAre DEF ReadTime
  <2> QED BY <1>1, <2>4, <2>5 DEF NotFarAhead
<1>7. RingContent
  BY <1>1, ReadConstants DEF RingContent, InPlace, ReadTime, FirstTime
<1>8. ReadGood BY <1>1, ReadConstants DEF ReadGood
<1> QED BY <1>1, <1>2, <1>3, <1>5, <1>6, <1>7, <1>8 DEF ReadParts

readVars == <<data, dataStart, timeStart, timeEnd, timestampOffset, isAligned, hi32Timestamp,
              lastPktTimestamp, now, asked, usrpc, timestamp, batch, missed, buf, outside, lost>>

LEMMA ReadFrame ==
    ASSUME ReadParts, UNCHANGED readVars
    PROVE  /\ ReadTyped' /\ ClockExact' /\ RingPlaced' /\ NotFarAhead' /\ RingContent' /\ ReadGood'
           /\ ReadBefore' = (~isAligned =>
                /\ timestampOffset = 0 /\ asked = UsrpStart /\ timeStart = 0 /\ timeEnd = 0
                /\ pending' = {UsrpStart - PktLen} /\ pingTimestamp' = UsrpStart - PktLen
                /\ writer'.at = "idle" /\ now <= FirstTime - PktLen /\ usrpc # "copy")
<1>1. UNCHANGED <<data, dataStart, timeStart, timeEnd, timestampOffset, isAligned, hi32Timestamp,
              lastPktTimestamp, now, asked, usrpc, timestamp, batch, missed, buf, outside, lost>>
  BY DEF readVars
<1>2. ReadTyped' = ReadTyped /\ ClockExact' = ClockExact BY <1>1 DEF ReadTyped, ClockExact
<1>3. ReadTime' = ReadTime BY <1>1 DEF ReadTime
<1>4. RingPlaced' = RingPlaced /\ NotFarAhead' = NotFarAhead
  BY <1>1, <1>3 DEF RingPlaced, NotFarAhead
<1>5. \A t : InPlace(t)' = InPlace(t) BY <1>1 DEF InPlace
<1>6. RingContent' = RingContent BY <1>1, <1>3, <1>5, Zenon DEF RingContent
<1>7. ReadGood' = ReadGood BY <1>1, Zenon DEF ReadGood
<1>8. ReadBefore' = (~isAligned =>
                /\ timestampOffset = 0 /\ asked = UsrpStart /\ timeStart = 0 /\ timeEnd = 0
                /\ pending' = {UsrpStart - PktLen} /\ pingTimestamp' = UsrpStart - PktLen
                /\ writer'.at = "idle" /\ now <= FirstTime - PktLen /\ usrpc # "copy")
  BY <1>1, Zenon DEF ReadBefore
<1> QED BY <1>2, <1>4, <1>6, <1>7, <1>8 DEF ReadParts

LEMMA PingSent ==
    ASSUME ReadParts, NEW ping \in 0 .. MaxTime, UsrpRx!SendPing(ping)
    PROVE  ReadParts'
<1>1. /\ UNCHANGED readVars /\ pending = {} /\ pending' = {ping}
      /\ writer' = [at |-> "sent", q |-> ping]
  BY DEF UsrpRx!SendPing, UsrpRx!ring, UsrpRx!clock, readVars
<1>2. isAligned BY <1>1 DEF ReadParts, ReadBefore, ReadTyped
<1>3. PingKnown' BY <1>1 DEF PingKnown
<1> QED BY <1>1, <1>2, <1>3, ReadFrame DEF ReadParts

LEMMA PingNoted ==
    ASSUME ReadParts, UsrpRx!NotePing
    PROVE  ReadParts'
<1>1. /\ UNCHANGED readVars /\ pending' = pending /\ pingTimestamp' = writer.q
      /\ writer.at = "sent" /\ writer' = [at |-> "idle", q |-> 0]
  BY DEF UsrpRx!NotePing, UsrpRx!ring, UsrpRx!clock, UsrpRx!counts, readVars
<1>2. isAligned BY <1>1 DEF ReadParts, ReadBefore, ReadTyped
<1>3. PingKnown' BY <1>1 DEF ReadParts, PingKnown
<1> QED BY <1>1, <1>2, <1>3, ReadFrame DEF ReadParts

\* The reader's time is not long past: a read is never answered at once.
LEMMA ReadBegun ==
    ASSUME ReadParts, UsrpRx!BeginRead
    PROVE  ReadParts'
<1>1. /\ UNCHANGED <<data, dataStart, timeStart, timeEnd, timestampOffset, isAligned,
              hi32Timestamp, lastPktTimestamp, now, batch, missed, outside, lost, pending,
              writer, pingTimestamp>>
      /\ usrpc = "idle" /\ timestamp' = asked + timestampOffset
      /\ ~(asked + timestampOffset + UsrpLen < timeStart)
         => usrpc' = "need" /\ asked' = asked
  BY Zenon DEF UsrpRx!BeginRead, UsrpRx!ring, UsrpRx!clock, UsrpRx!counts, UsrpRx!thread
<1>2. ReadTyped /\ RingPlaced /\ ReadBefore BY DEF ReadParts
<1>3. ~(asked + timestampOffset + UsrpLen < timeStart)
  <2>1. CASE timeStart = 0 /\ asked = UsrpStart
    <3>1. timestampOffset \in Nat BY <1>2, ReadConstants DEF ReadTyped, RingPlaced, ReadBefore
    <3> QED BY <2>1, <3>1, ReadConstants
  <2>2. CASE timeStart = ReadTime /\ asked >= UsrpStart + UsrpLen
    <3>1. isAligned BY <1>2, <2>2, ReadConstants DEF ReadBefore, ReadTyped
    <3> QED BY <1>2, <2>2, <3>1, ReadConstants DEF RingPlaced, ReadTyped, ReadTime
  <2> QED BY <1>2, <2>1, <2>2 DEF RingPlaced
<1>4. usrpc' = "need" /\ asked' = asked /\ timestamp' \in Int
  BY <1>1, <1>2, <1>3 DEF ReadTyped
<1>5. ReadTyped' BY <1>1, <1>2, <1>4 DEF ReadTyped
<1>6. ReadBefore' /\ PingKnown' /\ ClockExact'
  BY <1>1, <1>4 DEF ReadParts, ReadBefore, PingKnown, ClockExact
<1>7. ReadTime' = ReadTime BY <1>4 DEF ReadTime
<1>8. RingPlaced' BY <1>1, <1>2, <1>4, <1>7 DEF RingPlaced
<1>9. NotFarAhead' BY <1>1, <1>4, <1>7 DEF ReadParts, NotFarAhead
<1>10. RingContent'
  <2>1. \A t : InPlace(t)' = InPlace(t) BY <1>1 DEF InPlace
  <2> QED BY <1>1, <1>7, <2>1, Zenon DEF ReadParts, RingContent
<1>11. ReadGood' BY <1>4 DEF ReadGood
<1> QED BY <1>5, <1>6, <1>8, <1>9, <1>10, <1>11 DEF ReadParts

\* No USB read is longer than what is needed, rounded up to packets.
LEMMA BatchIs ==
    ASSUME NEW need \in Nat \ {0}, NEW b,
           b = UsrpRx!Min({(need + PktLen - 1) \div PktLen, MaxBatch})
    PROVE  b \in Nat /\ b >= 1 /\ Pkts(b) <= Pkts(MaxBatch) /\ Pkts(b) <= need + PktLen - 1
<1> DEFINE x == need + PktLen - 1
           d == x \div PktLen
<1>1. PktLen \in Nat \ {0} /\ x \in Int /\ x >= PktLen BY PktsAre
<1>2. x % PktLen \in 0 .. PktLen - 1 /\ d \in Int /\ x = PktLen * d + (x % PktLen)
  BY <1>1, DivMod
<1>3. d >= 1
  <2>1. CASE d < 1
    <3>1. PktLen * d + PktLen <= PktLen * 1 BY <1>1, <1>2, <2>1, Multiples
    <3> DEFINE pd == PktLen * d
               r == x % PktLen
    <3>2. pd \in Int /\ pd <= 0 BY <1>1, <1>2, <3>1
    <3>3. r \in 0 .. PktLen - 1 /\ x = pd + r BY <1>2
    <3> HIDE DEF pd, r, x, d
    <3> QED BY <1>1, <3>2, <3>3
  <2> QED BY <1>2, <2>1
<1>4. Pkts(d) <= x
  <2> DEFINE pd == Pkts(d)
             r == x % PktLen
  <2>1. pd \in Nat /\ x = pd + r /\ r \in 0 .. PktLen - 1 BY <1>2, <1>3, PktsAre DEF Pkts
  <2> HIDE DEF pd, r, x, d
  <2>2. pd <= x BY <2>1, <1>1
  <2> QED BY <2>2 DEF pd
<1>5. MaxBatch \in Nat \ {0} BY ReadConstants
<1>6. b = IF d <= MaxBatch THEN d ELSE MaxBatch BY <1>2, <1>5, MinMaxAre
<1> HIDE DEF d
<1>7. b \in Nat /\ b >= 1 /\ b <= MaxBatch /\ b <= d BY <1>2, <1>3, <1>5, <1>6
<1>8. Pkts(b) <= Pkts(MaxBatch) /\ Pkts(b) <= Pkts(d) BY <1>2, <1>3, <1>5, <1>7, PktsAre
<1>9. Pkts(b) \in Nat /\ Pkts(d) \in Nat BY <1>2, <1>3, <1>7, PktsAre
<1> QED BY <1>1, <1>4, <1>7, <1>8, <1>9

LEMMA BatchGuessed ==
    ASSUME ReadParts, UsrpRx!Guess
    PROVE  ReadParts'
<1> DEFINE need == timestamp + UsrpLen - timeEnd
<1>1. /\ UNCHANGED <<data, dataStart, timeStart, timeEnd, timestampOffset, isAligned,
              hi32Timestamp, lastPktTimestamp, now, asked, timestamp, missed, buf, outside,
              lost, pending, writer, pingTimestamp>>
      /\ usrpc = "need"
      /\ need <= 0 => usrpc' = "copy" /\ batch' = batch
      /\ ~(need <= 0) => /\ usrpc' = "batch"
                         /\ batch' = UsrpRx!Min({(need + PktLen - 1) \div PktLen, MaxBatch})
  BY Zenon DEF UsrpRx!Guess, UsrpRx!ring, UsrpRx!clock, UsrpRx!counts, UsrpRx!thread
<1>2. ReadTyped /\ RingPlaced /\ ReadBefore /\ NotFarAhead BY DEF ReadParts
<1>3. need \in Int BY <1>2, ReadConstants DEF ReadTyped
<1>4. ~(need <= 0) => batch' \in Nat /\ batch' >= 1 /\ Pkts(batch') <= Pkts(MaxBatch)
                      /\ Pkts(batch') <= need + PktLen - 1
  <2> HIDE DEF need
  <2> QED BY <1>1, <1>3, BatchIs
<1>5. ReadTyped' BY <1>1, <1>2, <1>3, <1>4 DEF ReadTyped
<1>6. ReadTime' = ReadTime BY <1>1 DEF ReadTime
<1>7. /\ timestamp = asked + timestampOffset /\ need \in Int
      /\ Pkts(lost) \in Nat /\ lost \in Nat
  BY <1>1, <1>2, <1>3, PktsAre DEF RingPlaced, ReadTyped
<1>8. ~isAligned => need > 0
  BY <1>2, <1>7, ReadConstants DEF ReadBefore
<1>9. RingPlaced'
  <2>1. usrpc' = "copy" => isAligned /\ timeEnd >= timestamp + UsrpLen
    BY <1>1, <1>2, <1>7, <1>8, ReadConstants DEF ReadTyped
  <2> QED BY <1>1, <1>2, <1>6, <1>7, <2>1 DEF RingPlaced
<1>10. ReadBefore'
  <2>1. ~isAligned => usrpc' # "copy"
    <3> HIDE DEF need
    <3> QED BY <1>1, <1>3, <1>8
  <2> QED BY <1>1, <1>2, <2>1 DEF ReadBefore, FirstTime
<1>11. NotFarAhead'
  <2>1. CASE need <= 0 BY <1>1, <1>2, <1>6, <2>1 DEF NotFarAhead
  <2>2. CASE ~(need <= 0)
    <3>1. Pkts(batch') \in Nat /\ Pkts(MaxBatch) \in Nat
      BY <1>4, <2>2, PktsAre, ReadConstants
    <3>2. asked \in Int /\ ReadTime \in Int /\ now \in Nat /\ timeEnd \in Int
      BY <1>2, ReadConstants DEF ReadTyped, ReadTime
    <3>3. now + Pkts(batch') <= ReadTime + Reach + Pkts(lost)
      <4>1. CASE now <= timeEnd + Pkts(lost) /\ isAligned
        <5>1. timestamp = ReadTime BY <1>2, <1>7, <4>1 DEF RingPlaced, ReadTime
        <5> QED BY <1>4, <1>7, <2>2, <3>1, <3>2, <4>1, <5>1, ReadConstants, PktsAre
      <4>2. CASE timeEnd = 0 /\ now <= FirstTime - PktLen + Pkts(lost)
        <5>1. ReadTime >= FirstTime
          BY <1>2, ReadConstants DEF RingPlaced, ReadTime, FirstTime, ReadTyped
        <5> QED BY <1>4, <1>7, <2>2, <3>1, <3>2, <4>2, <5>1, ReadConstants, PktsAre
      <4>3. CASE ~isAligned
        <5>1. ReadTime = FirstTime /\ now <= FirstTime - PktLen
          BY <1>2, <4>3 DEF ReadBefore, ReadTime, FirstTime
        <5> QED BY <1>4, <1>7, <2>2, <3>1, <3>2, <5>1, ReadConstants, PktsAre
      <4> QED BY <1>2, <4>1, <4>2, <4>3 DEF RingPlaced
    <3> QED BY <1>1, <1>4, <1>6, <2>2, <3>3 DEF NotFarAhead
  <2> QED BY <2>1, <2>2
<1>12. PingKnown' /\ ClockExact' BY <1>1 DEF ReadParts, PingKnown, ClockExact
<1>13. RingContent'
  <2>1. \A t : InPlace(t)' = InPlace(t) BY <1>1 DEF InPlace
  <2> QED BY <1>1, <1>6, <2>1, Zenon DEF ReadParts, RingContent
<1>14. ReadGood' BY <1>1 DEF ReadGood
<1> QED BY <1>5, <1>9, <1>10, <1>11, <1>12, <1>13, <1>14 DEF ReadParts

\* The device's time from its low bits: no wrap is missed, and before the
\* first read, when wraps are not counted, there is none.
LEMMA ClockRead ==
    ASSUME ReadParts, UsrpRx!Unwrapped, usrpc = "batch"
    PROVE  lastPktTimestamp' = now /\ hi32Timestamp' = now \div ClockWrap
<1> DEFINE W == ClockWrap
           hi == lastPktTimestamp \div W
           low == lastPktTimestamp % W
           h == now \div W
           r == now % W
           wh == W * hi
           wg == W * h
<1>1. /\ hi32Timestamp = hi
      /\ hi32Timestamp' = IF low > r /\ timeStart # 0 THEN hi32Timestamp + 1 ELSE hi32Timestamp
      /\ lastPktTimestamp' = hi32Timestamp' * W + r
  BY DEF UsrpRx!Unwrapped, ReadParts, ClockExact
<1>2. /\ lastPktTimestamp \in Nat /\ now \in Nat /\ lastPktTimestamp <= now
      /\ now - lastPktTimestamp < W /\ lost \in Nat /\ lost <= MaxLost
  <2>1. /\ lastPktTimestamp \in Nat /\ now \in Nat /\ lastPktTimestamp <= now
        /\ now - lastPktTimestamp <= PktLen + Pkts(lost) /\ lost \in Nat /\ lost <= MaxLost
    BY ReadConstants DEF ReadParts, ReadTyped, ClockExact
  <2>2. Pkts(lost) <= Pkts(MaxLost) /\ Pkts(lost) \in Nat /\ Pkts(MaxLost) \in Nat
    BY <2>1, PktsAre, ReadConstants
  <2> QED BY <2>1, <2>2, PktsAre, ReadConstants
<1>3. /\ low \in 0 .. W - 1 /\ hi \in Int /\ lastPktTimestamp = wh + low
      /\ r \in 0 .. W - 1 /\ h \in Int /\ now = wg + r
  <2>1. W \in Nat \ {0} BY ReadConstants
  <2>2. low \in 0 .. W - 1 /\ hi \in Int /\ lastPktTimestamp = wh + low
    BY <1>2, <2>1, DivMod
  <2>3. r \in 0 .. W - 1 /\ h \in Int /\ now = wg + r BY <1>2, <2>1, DivMod
  <2> QED BY <2>2, <2>3
<1>4. wh \in Int /\ wg \in Int /\ W \in Nat \ {0} BY <1>3, ReadConstants
<1>5. /\ hi < h => wh + W <= wg
      /\ h < hi => wg + W <= wh
      /\ hi + 1 < h => W * (hi + 1) + W <= wg
      /\ W * (hi + 1) = wh + W
      /\ hi = h => wh = wg
  <2>1. hi + 1 \in Int BY <1>3
  <2> HIDE DEF hi, h
  <2> QED BY <1>3, <1>4, <2>1, Multiples
<1>6. timeStart = 0 => now < W
  <2> SUFFICES ASSUME timeStart = 0 PROVE now < W OBVIOUS
  <2>1. asked = UsrpStart /\ ReadTime = FirstTime
    BY ReadConstants DEF ReadParts, RingPlaced, ReadTyped, ReadTime, FirstTime
  <2>2. now <= FirstTime + Reach + Pkts(lost)
    <3>1. batch >= 1 /\ now + Pkts(batch) <= FirstTime + Reach + Pkts(lost) /\ batch \in Nat
      BY <2>1 DEF ReadParts, NotFarAhead, ReadTyped
    <3>2. Pkts(batch) \in Nat /\ Pkts(lost) \in Nat BY <1>2, <3>1, PktsAre
    <3> QED BY <1>2, <3>1, <3>2, ReadConstants
  <2>3. Pkts(lost) <= Pkts(MaxLost) /\ Pkts(lost) \in Nat /\ Pkts(MaxLost) \in Nat
    BY <1>2, PktsAre, ReadConstants
  <2> QED BY <1>2, <2>2, <2>3, ReadConstants
<1> HIDE DEF wh, wg, hi, low, h, r, W
<1>7. h = hi \/ h = hi + 1 BY <1>2, <1>3, <1>4, <1>5
<1>8. h = hi + 1 => low > r BY <1>2, <1>3, <1>4, <1>5
<1>9. h = hi => ~(low > r) BY <1>2, <1>3, <1>4, <1>5
<1>10. timeStart = 0 => h = hi
  <2> SUFFICES ASSUME timeStart = 0, h = hi + 1 PROVE FALSE BY <1>7
  <2>1. now < W /\ lastPktTimestamp < W BY <1>2, <1>4, <1>6
  <2>2. hi = 0
    <3> QED BY <1>2, <2>1, ModSmall, DivModIs, <1>4 DEF hi, W
  <2>3. h = 0
    <3> QED BY <1>2, <2>1, DivModIs, <1>4 DEF h, W
  <2> QED BY <2>2, <2>3
<1>11. hi32Timestamp' = h BY <1>1, <1>3, <1>7, <1>8, <1>9, <1>10
<1>12. h * W + r = now
  <2>1. h * W = wg BY <1>3, <1>4 DEF wg
  <2> QED BY <1>2, <1>3, <1>4, <2>1
<1> QED BY <1>1, <1>11, <1>12 DEF h, r, W

LEMMA ModNext ==
    ASSUME NEW n \in Nat \ {0}, NEW x \in Int
    PROVE  (x + n) % n = x % n /\ (x - n) % n = x % n
<1> DEFINE q == x \div n
           r == x % n
           y == x + n
           z == x - n
<1>1. r \in 0 .. n - 1 /\ q \in Int /\ x = n * q + r BY DivMod
<1>2. y \in Int /\ z \in Int OBVIOUS
<1>3. y = n * (q + 1) + r /\ z = n * (q - 1) + r
  <2> HIDE DEF q, r
  <2> QED BY <1>1
<1>4. q + 1 \in Int /\ q - 1 \in Int BY <1>1
<1> HIDE DEF q, r, y, z
<1>5. y % n = r BY <1>1, <1>2, <1>3, <1>4, DivModIs
<1>6. z % n = r BY <1>1, <1>2, <1>3, <1>4, DivModIs
<1> QED BY <1>5, <1>6 DEF y, z, r

LEMMA PacketTimes ==
    ASSUME NEW x \in Int
    PROVE  (x + PktLen) % PktLen = x % PktLen /\ (x - PktLen) % PktLen = x % PktLen
<1>1. PktLen \in Nat \ {0} BY PktsAre
<1> QED BY <1>1, ModNext, Zenon

LEMMA MultiplesApart ==
    ASSUME NEW n \in Nat \ {0}, NEW x \in Int, NEW y \in Int, x % n = 0, y % n = 0, x < y
    PROVE  x + n <= y
<1> DEFINE a == x \div n
           b == y \div n
           na == n * a
           nb == n * b
<1>1. a \in Int /\ b \in Int /\ x = na + 0 /\ y = nb + 0 BY DivMod
<1>2. na \in Int /\ nb \in Int BY <1>1
<1>3. a < b => na + n <= nb BY <1>1, Multiples
<1>4. b < a => nb + n <= na BY <1>1, Multiples
<1>5. a = b => na = nb OBVIOUS
<1> HIDE DEF a, b, na, nb
<1> QED BY <1>1, <1>2, <1>3, <1>4, <1>5

\* How far the slot of time t lies behind a cursor for time u in a ring.
LEMMA SlotDistance ==
    ASSUME NEW n \in Nat \ {0}, NEW t \in Int, NEW u \in Int, NEW cursor \in Int,
           cursor % n = u % n
    PROVE  ((t % n) - cursor) % n = (t - u) % n
<1>1. -cursor \in Int /\ -u \in Int OBVIOUS
<1>2. ((t % n) + -cursor) % n = (t + -cursor) % n BY <1>1, ModAdd
<1>3. t % n \in Int BY DivMod
<1>4. (t % n) + -cursor = (t % n) - cursor /\ t + -cursor = t - cursor BY <1>3
<1>5. (t - (cursor % n)) % n = (t - cursor) % n BY ModSubtract
<1>6. (t - (u % n)) % n = (t - u) % n BY ModSubtract
<1> QED BY <1>2, <1>4, <1>5, <1>6

LEMMA CursorIs ==
    ASSUME NEW n \in Nat \ {0}, NEW u \in Int, NEW s \in Int
    PROVE  (u - s + (s % n)) % n = u % n /\ (u - s + (s % n)) \in Int
<1>1. s % n \in Int /\ u - s \in Int BY DivMod
<1>2. ((s % n) + (u - s)) % n = (s + (u - s)) % n BY <1>1, ModAdd
<1>3. s + (u - s) = u OBVIOUS
<1>4. (s % n) + (u - s) = u - s + (s % n) BY <1>1
<1> QED BY <1>1, <1>2, <1>3, <1>4

\* The device was not yet asked for the packet that answers the first ping.
LEMMA BeforeAnswer ==
    ASSUME ReadParts, ~isAligned, \A ping \in pending : ping + ClockDelay # now
    PROVE  now + PktLen <= FirstTime - PktLen
<1>1. /\ pending = {UsrpStart - PktLen} /\ now <= FirstTime - PktLen /\ now \in Nat
      /\ now % PktLen = 0
  BY DEF ReadParts, ReadBefore, ReadTyped, ClockExact
<1>2. /\ PktLen \in Nat \ {0} /\ FirstTime \in Nat /\ FirstTime = UsrpStart + ClockDelay
      /\ UsrpStart \in Nat /\ ClockDelay \in Nat
  BY PktsAre, ReadConstants DEF FirstTime
<1>3. now # FirstTime - PktLen BY <1>1, <1>2
<1>4. FirstTime % PktLen = 0 BY DevicesAssumption DEF UsrpRx!UsrpAssumption, FirstTime
<1>5. (FirstTime - PktLen) % PktLen = 0
  <2>1. FirstTime \in Int BY <1>2
  <2> QED BY <1>4, <2>1, PacketTimes, Zenon
<1> DEFINE y == FirstTime - PktLen
<1>6. now < y /\ y \in Int /\ now \in Int /\ y % PktLen = 0 BY <1>1, <1>2, <1>3, <1>5
<1> HIDE DEF y
<1>7. now + PktLen <= y BY <1>1, <1>2, <1>6, MultiplesApart
<1> QED BY <1>7 DEF y

LEMMA NextPacket ==
    ASSUME ReadParts
    PROVE  (now + PktLen) % PktLen = 0
<1>1. now \in Nat /\ now % PktLen = 0 BY DEF ReadParts, ReadTyped, ClockExact
<1>2. now \in Int BY <1>1
<1> QED BY <1>1, <1>2, PacketTimes, Zenon

\* In a USB read, what is left of it and of the ring.
LEMMA BatchRoom ==
    ASSUME ReadParts, usrpc = "batch"
    PROVE  /\ batch \in Nat \ {0} /\ lost \in Nat /\ lost <= MaxLost /\ now \in Nat
           /\ ReadTime \in Int /\ asked \in Int
           /\ Pkts(batch) \in Nat /\ Pkts(batch) >= PktLen /\ Pkts(lost) \in Nat
           /\ Pkts(lost) <= Pkts(MaxLost) /\ Pkts(MaxLost) \in Nat
           /\ batch - 1 \in Nat /\ Pkts(batch - 1) = Pkts(batch) - PktLen
           /\ now + Pkts(batch) <= ReadTime + Reach + Pkts(lost)
           /\ now + PktLen <= ReadTime + RingLen
<1>1. /\ batch \in Nat \ {0} /\ lost \in Nat /\ lost <= MaxLost /\ now \in Nat /\ asked \in Int
      /\ now + Pkts(batch) <= ReadTime + Reach + Pkts(lost)
  BY ReadConstants DEF ReadParts, ReadTyped, NotFarAhead
<1>2. ReadTime \in Int BY <1>1, ReadConstants DEF ReadTime
<1>3. batch - 1 \in Nat /\ (batch - 1) + 1 = batch BY <1>1
<1>4. Pkts(batch) = Pkts(batch - 1) + PktLen /\ Pkts(batch - 1) \in Nat BY <1>3, PktsAre
<1>5. Pkts(lost) \in Nat /\ Pkts(lost) <= Pkts(MaxLost) /\ Pkts(MaxLost) \in Nat
  BY <1>1, PktsAre, ReadConstants
<1>6. Pkts(batch) \in Nat /\ Pkts(batch) >= PktLen /\ PktLen \in Nat
  <2>1. Pkts(batch) \in Nat /\ PktLen \in Nat BY <1>1, PktsAre
  <2> QED BY <1>4, <2>1
<1>7. now + PktLen <= ReadTime + RingLen
  <2>1. Reach \in Nat /\ RingLen \in Nat /\ Reach + Pkts(MaxLost) <= RingLen BY ReadConstants
  <2> HIDE DEF Reach
  <2> QED BY <1>1, <1>2, <1>5, <1>6, <2>1
<1>8. Pkts(batch - 1) = Pkts(batch) - PktLen BY <1>4, <1>6
<1> QED BY <1>1, <1>2, <1>3, <1>4, <1>5, <1>6, <1>7, <1>8

LEMMA PingAnswered ==
    ASSUME ReadParts, NEW ping \in 0 .. MaxTime, UsrpRx!PingReply(ping), ~raced'
    PROVE  ReadParts'
<1>1. /\ UNCHANGED <<data, dataStart, timeStart, timeEnd, now, asked, missed, buf, outside,
              lost, writer, pingTimestamp>>
      /\ usrpc = "batch" /\ ping \in pending /\ ping + ClockDelay = now
      /\ UsrpRx!Unwrapped /\ batch' = batch - 1
      /\ usrpc' = IF batch = 1 THEN "need" ELSE "batch"
      /\ timestampOffset' = lastPktTimestamp' - pingTimestamp
      /\ timestamp' = timestamp - timestampOffset + timestampOffset' /\ isAligned' = TRUE
      /\ pending' = pending \ {ping} /\ pingTimestamp = ping
  BY DEF UsrpRx!PingReply, UsrpRx!ring, UsrpRx!counts, UsrpRx!thread, UsrpRx!NextOfBatch
<1>2. lastPktTimestamp' = now /\ hi32Timestamp' = now \div ClockWrap BY <1>1, ClockRead
<1>3. ReadTyped /\ RingPlaced /\ NotFarAhead /\ ClockExact BY DEF ReadParts
<1>4. timestampOffset' = ClockDelay
  <2>1. ping \in Int /\ ClockDelay \in Nat
    BY DevicesAssumption, ReadConstants DEF UsrpRx!UsrpAssumption
  <2> QED BY <1>1, <1>2, <2>1
<1>5. timestamp' = asked + timestampOffset' /\ timestamp' \in Int
  BY <1>1, <1>3, <1>4, ReadConstants DEF RingPlaced, ReadTyped
<1>6. /\ batch \in Nat \ {0} /\ batch - 1 \in Nat /\ Pkts(batch - 1) = Pkts(batch) - PktLen
      /\ now + Pkts(batch) <= ReadTime + Reach + Pkts(lost) /\ Pkts(lost) \in Nat
      /\ Pkts(batch) \in Nat /\ Pkts(batch) >= PktLen /\ now \in Nat /\ ReadTime \in Int
  BY <1>1, BatchRoom
<1>7. usrpc' \in {"need", "batch"} /\ (usrpc' = "batch" => batch' >= 1)
  BY <1>1, <1>6
<1>8. ReadTyped'
  BY <1>1, <1>2, <1>3, <1>4, <1>5, <1>6, <1>7, ReadConstants DEF ReadTyped
<1>9. ReadBefore' BY <1>1 DEF ReadBefore
<1>10. PingKnown' BY <1>1 DEF ReadParts, PingKnown
<1>11. ClockExact'
  <2>1. now - now <= PktLen + Pkts(lost) BY <1>6, PktsAre
  <2> QED BY <1>1, <1>2, <1>3, <1>6, <2>1 DEF ClockExact
<1>12. ReadTime' = ReadTime BY <1>1 DEF ReadTime
<1>13. RingPlaced'
  BY <1>1, <1>3, <1>4, <1>5, <1>7, <1>12 DEF RingPlaced, FirstTime
<1>14. NotFarAhead'
  <2>1. now + Pkts(batch - 1) <= ReadTime + Reach + Pkts(lost)
        /\ now <= ReadTime + Reach + Pkts(lost)
    <3>1. PktLen \in Nat \ {0} /\ Reach \in Nat BY PktsAre, ReadConstants
    <3> HIDE DEF Reach
    <3> QED BY <1>6, <3>1
  <2> QED BY <1>1, <1>7, <1>12, <2>1 DEF NotFarAhead
<1>15. RingContent'
  <2>1. \A t : InPlace(t)' = InPlace(t) BY <1>1 DEF InPlace
  <2> QED BY <1>1, <1>12, <2>1, Zenon DEF ReadParts, RingContent
<1>16. ReadGood' BY <1>7 DEF ReadGood
<1> QED BY <1>8, <1>9, <1>10, <1>11, <1>13, <1>14, <1>15, <1>16 DEF ReadParts

\* What never came: the ring stays as it is, and knows it is missing.
LEMMA ContentMissed ==
    ASSUME ReadParts, data' = data, now' = now + PktLen, asked' = asked,
           missed' = missed \cup (now .. now + PktLen - 1)
    PROVE  RingContent'
<1>1. now \in Nat /\ RingContent /\ PktLen \in Nat \ {0} /\ asked \in Int
  BY PktsAre DEF ReadParts, ReadTyped
<1>2. ReadTime' = ReadTime /\ ReadTime \in Int /\ RingLen \in Nat /\ FirstTime' = FirstTime
      /\ FirstTime \in Nat
  BY <1>1, ReadConstants DEF ReadTime, FirstTime
<1>3. \A t \in missed : t \in 0 .. now - 1 BY <1>1 DEF RingContent
<1>4. \A t \in missed' : t \in 0 .. now' - 1 BY <1>1, <1>3
<1>5. ASSUME NEW t \in ReadTime .. ReadTime + RingLen - 1 PROVE InPlace(t)'
  <2>1. InPlace(t) BY <1>1, <1>5 DEF RingContent
  <2>2. t \in Int BY <1>2, <1>5
  <2>3. ~(t < now /\ t \notin missed) => ~(t < now' /\ t \notin missed')
    BY <1>1, <2>2
  <2>4. (t >= now' \/ t \in missed') => (t >= now \/ t \in missed)
    BY <1>1, <2>2
  <2> QED BY <1>2, <2>1, <2>3, <2>4 DEF InPlace
<1> QED BY <1>2, <1>4, <1>5 DEF RingContent

LEMMA PacketLost ==
    ASSUME ReadParts, UsrpRx!LosePacket
    PROVE  ReadParts'
<1>1. /\ UNCHANGED <<data, dataStart, timeStart, timeEnd, timestampOffset, isAligned,
              hi32Timestamp, lastPktTimestamp, asked, usrpc, timestamp, batch, buf, outside,
              pending, writer, pingTimestamp>>
      /\ usrpc = "batch" /\ lost < MaxLost /\ \A ping \in pending : ping + ClockDelay # now
      /\ now' = now + PktLen /\ missed' = missed \cup (now .. now + PktLen - 1)
      /\ lost' = lost + 1
  BY Zenon DEF UsrpRx!LosePacket, UsrpRx!ring, UsrpRx!clock, UsrpRx!thread
<1>2. ReadTyped /\ RingPlaced /\ ReadBefore /\ NotFarAhead /\ ClockExact BY DEF ReadParts
<1>3. /\ lost \in Nat /\ lost + 1 \in 0 .. MaxLost /\ now \in Nat /\ batch \in Nat
      /\ asked \in Int /\ timeEnd \in Int /\ lastPktTimestamp \in Nat
  BY <1>1, <1>2, ReadConstants DEF ReadTyped
<1>4. /\ Pkts(lost) \in Nat /\ Pkts(lost') = Pkts(lost) + PktLen /\ PktLen \in Nat \ {0}
      /\ Pkts(batch) \in Nat
  BY <1>1, <1>3, PktsAre
<1>5. ReadTyped'
  <2>1. now' \in Nat /\ lost' \in 0 .. MaxLost BY <1>1, <1>3, <1>4
  <2> QED BY <1>1, <1>2, <2>1 DEF ReadTyped
<1>6. ReadBefore'
  <2>1. ~isAligned => now + PktLen <= FirstTime - PktLen BY <1>1, BeforeAnswer
  <2> QED BY <1>1, <1>2, <2>1 DEF ReadBefore, FirstTime
<1>7. PingKnown' BY <1>1 DEF ReadParts, PingKnown
<1>8. ClockExact'
  <2>1. (now + PktLen) % PktLen = 0 BY NextPacket
  <2>2. lastPktTimestamp <= now + PktLen
        /\ now + PktLen - lastPktTimestamp <= PktLen + (Pkts(lost) + PktLen)
    BY <1>2, <1>3, <1>4 DEF ClockExact
  <2>3. PktLen + Pkts(lost') = PktLen + (Pkts(lost) + PktLen) /\ Pkts(lost)' = Pkts(lost')
    BY <1>4 DEF Pkts
  <2>4. now' % PktLen = 0 /\ lastPktTimestamp' <= now'
        /\ now' - lastPktTimestamp' <= PktLen + Pkts(lost)'
    <3> DEFINE x == now + PktLen
    <3>1. now' = x /\ lastPktTimestamp' = lastPktTimestamp BY <1>1
    <3>2. x % PktLen = 0 BY <2>1
    <3> HIDE DEF x
    <3>3. now' % PktLen = 0 BY <3>1, <3>2
    <3>4. lastPktTimestamp' <= now' /\ now' - lastPktTimestamp' <= PktLen + Pkts(lost)'
      BY <1>3, <1>4, <2>2, <2>3, <3>1 DEF x
    <3> QED BY <3>3, <3>4
  <2> QED BY <1>1, <1>2, <2>4, Zenon DEF ClockExact
<1>9. ReadTime' = ReadTime /\ FirstTime' = FirstTime /\ ReadTime \in Int /\ FirstTime \in Nat
      /\ Reach' = Reach /\ Reach \in Nat
  BY <1>1, <1>3, ReadConstants DEF ReadTime, FirstTime, Reach, Pkts
<1>10. RingPlaced'
  <2>1. timeEnd <= now => timeEnd <= now' BY <1>1, <1>3, <1>4
  <2>2. now >= ReadTime => now' >= ReadTime BY <1>1, <1>3, <1>4, <1>9
  <2>3. now <= FirstTime - PktLen + Pkts(lost) => now' <= FirstTime - PktLen + Pkts(lost')
    BY <1>1, <1>3, <1>4, <1>9
  <2>4. now <= timeEnd + Pkts(lost) => now' <= timeEnd + Pkts(lost')
    BY <1>1, <1>3, <1>4
  <2> HIDE DEF ReadTime, FirstTime
  <2> QED BY <1>1, <1>2, <1>9, <2>1, <2>2, <2>3, <2>4, Zenon DEF RingPlaced, Pkts
<1>11. NotFarAhead'
  <2>1. batch >= 1 /\ now + Pkts(batch) <= ReadTime + Reach + Pkts(lost)
    BY <1>1, <1>2 DEF NotFarAhead
  <2>2. now' + Pkts(batch) <= ReadTime + Reach + Pkts(lost')
    BY <1>1, <1>3, <1>4, <1>9, <2>1
  <2>3. Pkts(batch)' = Pkts(batch') /\ Pkts(lost)' = Pkts(lost') BY DEF Pkts
  <2> HIDE DEF Reach, ReadTime
  <2> QED BY <1>1, <1>9, <2>1, <2>2, <2>3 DEF NotFarAhead
<1>12. RingContent' BY <1>1, ContentMissed
<1>13. ReadGood' BY <1>1 DEF ReadGood
<1> QED BY <1>5, <1>6, <1>7, <1>8, <1>10, <1>11, <1>12, <1>13 DEF ReadParts

\* A packet into the ring: its slots are its own, and no sample that is
\* waited for is overwritten.
LEMMA PacketInPlace ==
    ASSUME ReadParts, usrpc = "batch", isAligned, NEW cursor,
           cursor = now - timeStart + dataStart,
           data' = [i \in 0 .. RingLen - 1 |->
                        IF (i - cursor) % RingLen < PktLen
                        THEN now + ((i - cursor) % RingLen) ELSE data[i]],
           now' = now + PktLen, asked' = asked, missed' = missed
    PROVE  RingContent'
<1>1. /\ now \in Nat /\ RingContent /\ asked \in Int /\ timeStart \in Int
      /\ dataStart = timeStart % RingLen
  BY DEF ReadParts, ReadTyped, RingPlaced
<1>2. ReadTime' = ReadTime /\ ReadTime \in Int /\ RingLen \in Nat \ {0} /\ FirstTime' = FirstTime
      /\ FirstTime \in Nat /\ PktLen \in Nat \ {0} /\ PktLen <= RingLen
  BY <1>1, ReadConstants, PktsAre DEF ReadTime, FirstTime
<1>3. now + PktLen <= ReadTime + RingLen BY BatchRoom
<1>4. cursor % RingLen = now % RingLen /\ cursor \in Int
  <2>1. now \in Int BY <1>1
  <2>2. /\ (now - timeStart + (timeStart % RingLen)) % RingLen = now % RingLen
        /\ (now - timeStart + (timeStart % RingLen)) \in Int
    BY <1>1, <1>2, <2>1, CursorIs, Zenon
  <2> QED BY <1>1, <2>2
<1>5. now < ReadTime => ReadTime = FirstTime
  BY <1>1, <1>2 DEF ReadParts, RingPlaced, ReadTime, FirstTime
<1>6. \A t \in missed : t \in 0 .. now - 1 BY <1>1 DEF RingContent
<1>7. \A t \in missed' : t \in 0 .. now' - 1 BY <1>1, <1>2, <1>6
<1>8. ASSUME NEW t \in ReadTime .. ReadTime + RingLen - 1 PROVE InPlace(t)'
  <2> DEFINE slot == t % RingLen
             d == (slot - cursor) % RingLen
  <2>1. InPlace(t) BY <1>1, <1>8 DEF RingContent
  <2>2. t \in Int /\ t >= ReadTime /\ t <= ReadTime + RingLen - 1 BY <1>2, <1>8
  <2>3. slot \in 0 .. RingLen - 1 BY <1>2, <2>2, DivMod
  <2>4. d = (t - now) % RingLen
    <3>1. now \in Int BY <1>1
    <3>2. cursor \in Int /\ cursor % RingLen = now % RingLen BY <1>4
    <3>3. t \in Int /\ RingLen \in Nat \ {0} BY <1>2, <2>2
    <3> QED BY <3>1, <3>2, <3>3, SlotDistance, Zenon
  <2>5. data'[slot] = IF d < PktLen THEN now + d ELSE data[slot]
    <3> HIDE DEF slot
    <3> QED BY <2>3
  <2>6. InPlace(t)' <=>
            /\ t < now' /\ t \notin missed => data'[slot] = t
            /\ (t >= now' \/ t \in missed) /\ t >= FirstTime + RingLen
               => data'[slot] = UsrpRx!Zero
    BY <1>2 DEF InPlace, FirstTime, UsrpRx!Zero
  <2>7. InPlace(t) <=>
            /\ t < now /\ t \notin missed => data[slot] = t
            /\ (t >= now \/ t \in missed) /\ t >= FirstTime + RingLen
               => data[slot] = UsrpRx!Zero
    BY DEF InPlace
  <2>8. (t - now \in 0 .. RingLen - 1 => (t - now) % RingLen = t - now)
        /\ (t - now \in -RingLen .. -1 => (t - now) % RingLen = t - now + RingLen)
    <3>1. t - now \in Int BY <1>1, <2>2
    <3> QED BY <1>2, <3>1, ModSmall
  <2>9. t \in missed => t < now BY <1>1, <1>6
  <2> HIDE DEF slot, d
  <2>10. CASE t \in now .. now + PktLen - 1
    <3>1. t - now \in 0 .. RingLen - 1 /\ t - now < PktLen BY <1>1, <1>2, <2>2, <2>10
    <3>2. d = t - now BY <2>4, <2>8, <3>1
    <3>3. data'[slot] = t BY <1>1, <2>2, <2>5, <3>1, <3>2
    <3> QED BY <1>1, <1>2, <2>2, <2>6, <2>9, <2>10, <3>3
  <2>11. CASE t >= now + PktLen
    <3>1. ~(t < now') BY <1>1, <1>2, <2>2, <2>11
    <3>2. t >= FirstTime + RingLen => t - now \in 0 .. RingLen - 1 /\ ~(t - now < PktLen)
      BY <1>1, <1>2, <1>5, <2>2, <2>11
    <3>3. t >= FirstTime + RingLen => data'[slot] = data[slot]
      BY <2>4, <2>5, <2>8, <3>2
    <3>4. t >= now BY <1>1, <1>2, <2>2, <2>11
    <3> QED BY <2>1, <2>6, <2>7, <3>1, <3>3, <3>4
  <2>12. CASE t < now
    <3>1. t - now \in -RingLen .. -1 /\ ~(t - now + RingLen < PktLen)
      BY <1>1, <1>2, <1>3, <2>2, <2>12
    <3>2. data'[slot] = data[slot] BY <2>4, <2>5, <2>8, <3>1
    <3>3. ~(t >= now') BY <1>1, <1>2, <2>2, <2>12
    <3> QED BY <2>1, <2>6, <2>7, <2>12, <3>2, <3>3
  <2> QED BY <1>1, <1>2, <2>2, <2>10, <2>11, <2>12
<1> QED BY <1>2, <1>7, <1>8 DEF RingContent

LEMMA PacketRead ==
    ASSUME ReadParts, UsrpRx!Packet
    PROVE  ReadParts'
<1> DEFINE cursor == lastPktTimestamp' - timeStart + dataStart
<1>1. /\ UNCHANGED <<dataStart, timeStart, timestampOffset, isAligned, asked, timestamp, buf,
              outside, lost, pending, writer, pingTimestamp>>
      /\ usrpc = "batch" /\ \A ping \in pending : ping + ClockDelay # now
      /\ UsrpRx!Unwrapped /\ now' = now + PktLen
      /\ batch' = batch - 1 /\ usrpc' = IF batch = 1 THEN "need" ELSE "batch"
      /\ ~isAligned => /\ missed' = missed \cup (now .. now + PktLen - 1)
                       /\ data' = data /\ timeEnd' = timeEnd
      /\ isAligned => /\ data' = [i \in 0 .. RingLen - 1 |->
                            IF (i - cursor) % RingLen < PktLen
                            THEN now + ((i - cursor) % RingLen) ELSE data[i]]
                      /\ timeEnd' = UsrpRx!Max({timeEnd, lastPktTimestamp' + PktLen})
                      /\ missed' = missed
  BY Zenon DEF UsrpRx!Packet, UsrpRx!ring, UsrpRx!thread, UsrpRx!counts, UsrpRx!NextOfBatch
<1>2. ReadTyped /\ RingPlaced /\ ReadBefore /\ NotFarAhead /\ ClockExact BY DEF ReadParts
<1>3. lastPktTimestamp' = now /\ hi32Timestamp' = now \div ClockWrap BY <1>1, ClockRead
<1>4. /\ batch \in Nat \ {0} /\ batch - 1 \in Nat /\ Pkts(batch - 1) = Pkts(batch) - PktLen
      /\ now + Pkts(batch) <= ReadTime + Reach + Pkts(lost) /\ Pkts(lost) \in Nat
      /\ Pkts(batch) \in Nat /\ Pkts(batch) >= PktLen /\ now \in Nat /\ ReadTime \in Int
  BY <1>1, BatchRoom
<1>5. usrpc' \in {"need", "batch"} /\ (usrpc' = "batch" => batch' >= 1) /\ batch' \in Nat
  BY <1>1, <1>4
<1>6. PktLen \in Nat \ {0} /\ timeEnd \in Int /\ isAligned \in BOOLEAN /\ Reach \in Nat
  BY <1>2, PktsAre, ReadConstants DEF ReadTyped
<1>7. isAligned => timeEnd' = now + PktLen
  <2>1. now + PktLen \in Int /\ timeEnd <= now + PktLen BY <1>2, <1>4, <1>6 DEF RingPlaced
  <2>2. UsrpRx!Max({timeEnd, now + PktLen}) = now + PktLen
    <3>1. UsrpRx!Max({timeEnd, now + PktLen})
            = IF timeEnd >= now + PktLen THEN timeEnd ELSE now + PktLen
      BY <1>6, <2>1, MinMaxAre
    <3> QED BY <1>6, <2>1, <3>1
  <2> QED BY <1>1, <1>3, <2>2
<1>8. ReadTyped'
  <2>1. DOMAIN data' = 0 .. RingLen - 1
    <3>1. CASE isAligned BY <1>1, <3>1
    <3>2. CASE ~isAligned BY <1>1, <1>2, <3>2 DEF ReadTyped
    <3> QED BY <3>1, <3>2
  <2>2. timeEnd' \in Int /\ now' \in Nat /\ lastPktTimestamp' \in Nat
    BY <1>1, <1>3, <1>4, <1>6, <1>7
  <2>3. usrpc' \in {"idle", "need", "batch", "copy"} BY <1>5
  <2> QED BY <1>1, <1>2, <1>5, <2>1, <2>2, <2>3, Zenon DEF ReadTyped
<1>9. ~isAligned => now + PktLen <= FirstTime - PktLen BY <1>1, BeforeAnswer
<1>10. ReadBefore' BY <1>1, <1>2, <1>5, <1>9 DEF ReadBefore, FirstTime
<1>11. PingKnown' BY <1>1 DEF ReadParts, PingKnown
<1>12. ClockExact'
  <2>1. (now + PktLen) % PktLen = 0 BY NextPacket
  <2>2. now <= now + PktLen /\ now + PktLen - now <= PktLen + Pkts(lost) BY <1>4, <1>6
  <2>3. Pkts(lost)' = Pkts(lost) BY <1>1 DEF Pkts
  <2>4. now' % PktLen = 0 /\ lastPktTimestamp' <= now'
        /\ now' - lastPktTimestamp' <= PktLen + Pkts(lost)'
    <3> DEFINE x == now + PktLen
    <3>1. now' = x /\ lastPktTimestamp' = now BY <1>1, <1>3
    <3>2. x % PktLen = 0 BY <2>1
    <3> HIDE DEF x
    <3>3. now' % PktLen = 0 BY <3>1, <3>2
    <3>4. lastPktTimestamp' <= now' /\ now' - lastPktTimestamp' <= PktLen + Pkts(lost)'
      BY <1>4, <1>6, <2>2, <2>3, <3>1 DEF x
    <3> QED BY <3>3, <3>4
  <2> QED BY <1>3, <2>4, Zenon DEF ClockExact
<1>13. ReadTime' = ReadTime /\ FirstTime' = FirstTime /\ FirstTime \in Nat
      /\ Reach' = Reach /\ Pkts(lost)' = Pkts(lost) /\ Pkts(batch)' = Pkts(batch')
  BY <1>1, ReadConstants DEF ReadTime, FirstTime, Reach, Pkts
<1>14. RingPlaced'
  <2>1. now >= ReadTime => now' >= ReadTime BY <1>1, <1>4, <1>6
  <2>2. /\ timeEnd' <= now'
        /\ \/ timeEnd' = 0 /\ now' <= FirstTime - PktLen + Pkts(lost)
           \/ now' <= timeEnd' + Pkts(lost)
    <3>1. CASE isAligned BY <1>1, <1>4, <1>6, <1>7, <3>1
    <3>2. CASE ~isAligned
      BY <1>1, <1>2, <1>4, <1>6, <1>9, <1>13, <3>2 DEF ReadBefore
    <3> QED BY <3>1, <3>2
  <2>3. timeStart = ReadTime /\ now >= ReadTime => timeEnd' >= ReadTime \/ ~isAligned
    BY <1>1, <1>4, <1>6, <1>7
  <2>4. ~isAligned => asked = UsrpStart /\ timeStart = 0 BY <1>2 DEF ReadBefore
  <2>5. usrpc' # "copy" /\ usrpc # "idle" BY <1>1, <1>5
  <2> HIDE DEF ReadTime, FirstTime
  <2> QED BY <1>1, <1>2, <1>13, <2>1, <2>2, <2>3, <2>4, <2>5 DEF RingPlaced
<1>15. NotFarAhead'
  <2>1. now' + Pkts(batch') <= ReadTime + Reach + Pkts(lost)
        /\ now' <= ReadTime + Reach + Pkts(lost)
    <3> HIDE DEF ReadTime, Reach
    <3> QED BY <1>1, <1>4, <1>6
  <2> QED BY <1>5, <1>13, <2>1 DEF NotFarAhead
<1>16. RingContent'
  <2>1. CASE ~isAligned BY <1>1, <2>1, ContentMissed
  <2>2. CASE isAligned
    <3>1. cursor = now - timeStart + dataStart BY <1>3
    <3> HIDE DEF cursor
    <3> QED BY <1>1, <2>2, <3>1, PacketInPlace
  <2> QED BY <1>6, <2>1, <2>2
<1>17. ReadGood' BY <1>5 DEF ReadGood
<1> QED BY <1>8, <1>10, <1>11, <1>12, <1>14, <1>15, <1>16, <1>17 DEF ReadParts

\* The samples of a read are in their slots; what is read is zero afterwards,
\* for the times one turn later.
LEMMA ReadCopied ==
    ASSUME ReadParts, UsrpRx!Copy
    PROVE  ReadParts'
<1> DEFINE first == dataStart + timestamp - timeStart
<1>1. ReadTyped /\ RingPlaced /\ ReadBefore /\ NotFarAhead /\ ClockExact /\ RingContent
  BY DEF ReadParts
<1>2. /\ asked \in Int /\ timestamp \in Int /\ timeStart \in Int /\ now \in Nat
      /\ timeEnd \in Int /\ lost \in Nat /\ lost <= MaxLost
      /\ RingLen \in Nat \ {0} /\ UsrpLen \in Nat \ {0} /\ UsrpLen <= RingLen
      /\ FirstTime \in Nat /\ FirstTime <= RingLen /\ UsrpStart \in Nat /\ ClockDelay \in Nat
  BY <1>1, ReadConstants DEF ReadTyped
<1>3. usrpc = "copy" BY DEF UsrpRx!Copy
<1>4. /\ isAligned /\ timestampOffset = ClockDelay /\ timestamp = ReadTime /\ ReadTime \in Int
      /\ timeEnd >= ReadTime + UsrpLen /\ timeEnd <= now
  BY <1>1, <1>2, <1>3 DEF RingPlaced, ReadTime
<1>5. first \in 0 .. RingLen /\ first % RingLen = ReadTime % RingLen /\ asked >= UsrpStart
  <2>1. CASE timeStart = 0 /\ asked = UsrpStart
    <3>1. 0 % RingLen = 0 BY <1>2, ModSmall
    <3>2. dataStart = 0 BY <1>1, <2>1, <3>1 DEF RingPlaced
    <3>3. first = ReadTime /\ ReadTime = FirstTime
      BY <1>2, <1>4, <2>1, <3>2 DEF ReadTime, FirstTime
    <3> HIDE DEF first
    <3> QED BY <1>2, <2>1, <3>3
  <2>2. CASE timeStart = ReadTime /\ asked >= UsrpStart + UsrpLen
    <3>1. ReadTime % RingLen \in 0 .. RingLen - 1 BY <1>2, <1>4, DivMod
    <3>2. dataStart = ReadTime % RingLen BY <1>1, <2>2 DEF RingPlaced
    <3>3. first = dataStart BY <1>2, <1>4, <2>2, <3>1, <3>2
    <3>4. dataStart \in 0 .. RingLen - 1 /\ dataStart \in Int BY <1>2, <3>1, <3>2
    <3>5. dataStart % RingLen = dataStart BY <1>2, <3>4, ModSmall, Zenon
    <3> HIDE DEF first
    <3> QED BY <1>2, <2>2, <3>2, <3>3, <3>4, <3>5
  <2> QED BY <1>1, <2>1, <2>2 DEF RingPlaced
<1>6. /\ UNCHANGED <<timestampOffset, isAligned, hi32Timestamp, lastPktTimestamp, now, timestamp,
              batch, missed, lost, pending, writer, pingTimestamp, outside, timeEnd>>
      /\ usrpc' = "idle" /\ asked' = asked + UsrpLen /\ timeStart' = timestamp + UsrpLen
      /\ dataStart' = (first + UsrpLen) % RingLen
      /\ buf' = [i \in 0 .. UsrpLen - 1 |-> data[(first + i) % RingLen]]
      /\ data' = [i \in 0 .. RingLen - 1 |->
                     IF (i - first) % RingLen < UsrpLen THEN UsrpRx!Zero ELSE data[i]]
  <2> HIDE DEF first
  <2>1. UsrpRx!Copy => /\ UNCHANGED <<timestampOffset, isAligned, hi32Timestamp, lastPktTimestamp,
                             now, timestamp, batch, missed, lost, pending, writer, pingTimestamp>>
                       /\ usrpc' = "idle"
    BY Zenon DEF UsrpRx!Copy, UsrpRx!clock, UsrpRx!thread, UsrpRx!counts
  <2>2. UsrpRx!Copy /\ first \in 0 .. RingLen =>
            /\ asked' = asked + UsrpLen /\ timeStart' = timestamp + UsrpLen
            /\ outside' = outside /\ timeEnd' = timeEnd
            /\ dataStart' = (first + UsrpLen) % RingLen
            /\ buf' = [i \in 0 .. UsrpLen - 1 |-> data[(first + i) % RingLen]]
            /\ data' = [i \in 0 .. RingLen - 1 |->
                           IF (i - first) % RingLen < UsrpLen THEN UsrpRx!Zero ELSE data[i]]
    BY Zenon DEF UsrpRx!Copy, UsrpRx!Cleared, UsrpRx!After, first
  <2> QED BY <1>5, <2>1, <2>2
<1> HIDE DEF first
<1>7. /\ asked' \in Int /\ asked' >= UsrpStart + UsrpLen /\ asked' > UsrpStart
      /\ ReadTime' = ReadTime + UsrpLen
      /\ FirstTime' = FirstTime /\ timeStart' = ReadTime' /\ timeStart' \in Int
  BY <1>2, <1>4, <1>5, <1>6 DEF ReadTime, FirstTime
<1>8. dataStart' = timeStart' % RingLen /\ dataStart' \in Int
  <2>1. first \in Int BY <1>2, <1>5
  <2>2. ((first % RingLen) + UsrpLen) % RingLen = (first + UsrpLen) % RingLen
    <3>1. UsrpLen \in Int BY <1>2
    <3> QED BY <1>2, <2>1, <3>1, ModAdd, Zenon
  <2>3. ((ReadTime % RingLen) + UsrpLen) % RingLen = (ReadTime + UsrpLen) % RingLen
    <3>1. UsrpLen \in Int BY <1>2
    <3> QED BY <1>2, <1>4, <3>1, ModAdd, Zenon
  <2>4. (first + UsrpLen) \in Int BY <1>2, <2>1
  <2>5. (first + UsrpLen) % RingLen \in Int BY <1>2, <2>4, DivMod
  <2> QED BY <1>4, <1>5, <1>6, <2>2, <2>3, <2>5
<1>9. ReadTyped' BY <1>1, <1>2, <1>6, <1>7, <1>8 DEF ReadTyped
<1>10. ReadBefore' /\ PingKnown' BY <1>4, <1>6 DEF ReadParts, ReadBefore, PingKnown
<1>11. Pkts(lost)' = Pkts(lost) /\ Reach' = Reach BY <1>6 DEF Pkts, Reach
<1>12. ClockExact' BY <1>1, <1>6, <1>11, Zenon DEF ClockExact
<1>13. RingPlaced'
  <2>1. now' >= ReadTime' /\ timeEnd' >= ReadTime' BY <1>2, <1>4, <1>6, <1>7
  <2> QED BY <1>1, <1>3, <1>4, <1>6, <1>7, <1>8, <1>11, <2>1 DEF RingPlaced
<1>14. now <= ReadTime + Reach + Pkts(lost) /\ Reach \in Nat /\ Pkts(lost) \in Nat
       /\ Pkts(lost) <= Pkts(MaxLost) /\ Pkts(MaxLost) \in Nat
       /\ Reach + Pkts(MaxLost) <= RingLen
  BY <1>1, <1>2, <1>3, ReadConstants, PktsAre DEF NotFarAhead
<1>15. NotFarAhead'
  <2>1. now <= ReadTime + UsrpLen + Reach + Pkts(lost)
    <3> HIDE DEF Reach, ReadTime
    <3> QED BY <1>2, <1>4, <1>14
  <2> QED BY <1>6, <1>7, <1>11, <2>1 DEF NotFarAhead
<1>16. RingContent'
  <2>1. \A t \in missed' : t \in 0 .. now' - 1 BY <1>1, <1>6 DEF RingContent
  <2>2. ASSUME NEW t \in ReadTime + UsrpLen .. ReadTime + UsrpLen + RingLen - 1
        PROVE  InPlace(t)'
    <3> DEFINE slot == t % RingLen
               d == (slot - first) % RingLen
    <3>1. t \in Int /\ t >= ReadTime + UsrpLen /\ t <= ReadTime + UsrpLen + RingLen - 1
      BY <1>2, <1>4, <2>2
    <3>2. slot \in 0 .. RingLen - 1 BY <1>2, <3>1, DivMod
    <3>3. d = (t - ReadTime) % RingLen
      <4>1. first \in Int /\ first % RingLen = ReadTime % RingLen BY <1>2, <1>5
      <4>2. t \in Int /\ ReadTime \in Int /\ RingLen \in Nat \ {0} BY <1>2, <1>4, <3>1
      <4> QED BY <4>1, <4>2, SlotDistance, Zenon
    <3>4. data'[slot] = IF d < UsrpLen THEN UsrpRx!Zero ELSE data[slot]
      <4> HIDE DEF slot
      <4> QED BY <1>6, <3>2
    <3>5. InPlace(t)' <=>
            /\ t < now /\ t \notin missed => data'[slot] = t
            /\ (t >= now \/ t \in missed) /\ t >= FirstTime + RingLen
               => data'[slot] = UsrpRx!Zero
      BY <1>6 DEF InPlace, FirstTime, UsrpRx!Zero
    <3> HIDE DEF slot, d
    <3>6. CASE t - ReadTime <= RingLen - 1
      <4>1. t \in ReadTime .. ReadTime + RingLen - 1 BY <1>2, <1>4, <3>1, <3>6
      <4>2. InPlace(t) BY <1>1, <4>1 DEF RingContent
      <4>3. InPlace(t) <=>
            /\ t < now /\ t \notin missed => data[slot] = t
            /\ (t >= now \/ t \in missed) /\ t >= FirstTime + RingLen
               => data[slot] = UsrpRx!Zero
        BY DEF InPlace, slot
      <4>4. t - ReadTime \in 0 .. RingLen - 1 /\ t - ReadTime >= UsrpLen
        BY <1>2, <1>4, <3>1, <3>6
      <4>5. (t - ReadTime) % RingLen = t - ReadTime BY <1>2, <4>4, ModSmall
      <4>6. data'[slot] = data[slot] BY <1>2, <3>3, <3>4, <4>4, <4>5
      <4> QED BY <3>5, <4>2, <4>3, <4>6
    <3>7. CASE t - ReadTime > RingLen - 1
      <4> DEFINE e == t - ReadTime
      <4>1. e \in Int /\ e - RingLen \in 0 .. RingLen - 1 /\ e - RingLen < UsrpLen
        BY <1>2, <1>4, <3>1, <3>7
      <4> HIDE DEF e
      <4>2. (e - RingLen) % RingLen = e % RingLen BY <1>2, <4>1, ModNext
      <4>3. e - RingLen \in Int BY <1>2, <4>1
      <4>4. (e - RingLen) % RingLen = e - RingLen BY <1>2, <4>1, <4>3, ModSmall
      <4>5. d < UsrpLen BY <3>3, <4>1, <4>2, <4>4 DEF e
      <4>6. data'[slot] = UsrpRx!Zero BY <3>4, <4>5
      <4>7. ~(t < now)
        <5> HIDE DEF Reach, ReadTime
        <5> QED BY <1>2, <1>4, <1>14, <3>1, <3>7
      <4> QED BY <3>5, <4>6, <4>7
    <3> QED BY <1>2, <1>4, <3>1, <3>6, <3>7
  <2>3. ReadTime' .. ReadTime' + RingLen - 1
          = ReadTime + UsrpLen .. ReadTime + UsrpLen + RingLen - 1
    BY <1>7
  <2> QED BY <2>1, <2>2, <2>3 DEF RingContent
<1>17. ReadGood'
  <2>1. ASSUME NEW i \in 0 .. UsrpLen - 1
        PROVE  LET t == asked' - UsrpLen + i + ClockDelay
               IN  /\ t \notin missed' => buf'[i] = t
                   /\ t \in missed' /\ t >= UsrpStart + ClockDelay + RingLen
                      => buf'[i] = UsrpRx!Zero
    <3> DEFINE t == ReadTime + i
    <3>1. i \in Int /\ t \in Int /\ asked' - UsrpLen + i + ClockDelay = t
      BY <1>2, <1>4, <1>6 DEF ReadTime
    <3>2. t \in ReadTime .. ReadTime + RingLen - 1 /\ t < now
      BY <1>2, <1>4, <3>1
    <3>3. InPlace(t) BY <1>1, <3>2 DEF RingContent
    <3>4. (first + i) % RingLen = t % RingLen
      <4>1. first \in Int BY <1>2, <1>5
      <4>2. ((first % RingLen) + i) % RingLen = (first + i) % RingLen
        BY <1>2, <3>1, <4>1, ModAdd, Zenon
      <4>3. ((ReadTime % RingLen) + i) % RingLen = (ReadTime + i) % RingLen
        BY <1>2, <1>4, <3>1, ModAdd, Zenon
      <4> QED BY <1>5, <4>2, <4>3
    <3>5. buf'[i] = data[t % RingLen]
      <4> HIDE DEF t
      <4> QED BY <1>6, <3>4
    <3>6. FirstTime = UsrpStart + ClockDelay BY DEF FirstTime
    <3> HIDE DEF t
    <3> QED BY <1>6, <3>1, <3>2, <3>3, <3>5, <3>6 DEF InPlace
  <2>2. usrpc' = "idle" /\ asked' > UsrpStart BY <1>6, <1>7
  <2> QED BY <2>1, Zenon DEF ReadGood, UsrpRx!Zero
<1> QED BY <1>9, <1>10, <1>12, <1>13, <1>15, <1>16, <1>17 DEF ReadParts

LEMMA ReadStep == ReadIInv /\ [UsrpRx!Next]_usrpRxVars => ReadIInv'
<1> SUFFICES ASSUME ReadIInv, [UsrpRx!Next]_usrpRxVars PROVE ReadIInv' OBVIOUS
<1>1. CASE UNCHANGED usrpRxVars
  <2>1. UNCHANGED readVars /\ UNCHANGED <<writer, pingTimestamp, pending, raced>>
    BY <1>1 DEF usrpRxVars, readVars
  <2>2. ASSUME ReadParts PROVE ReadParts'
    <3>1. ReadBefore' /\ PingKnown'
      BY <2>1, <2>2 DEF ReadParts, ReadBefore, PingKnown, readVars, FirstTime
    <3> QED BY <2>1, <2>2, <3>1, ReadFrame DEF ReadParts
  <2> QED BY <2>1, <2>2 DEF ReadIInv
<1>2. CASE UsrpRx!Next
  <2>1. \/ \E ping \in 0 .. MaxTime : UsrpRx!SendPing(ping) \/ UsrpRx!PingReply(ping)
        \/ UsrpRx!NotePing \/ UsrpRx!BeginRead \/ UsrpRx!Guess \/ UsrpRx!Packet
        \/ UsrpRx!LosePacket \/ UsrpRx!Copy
    BY <1>2 DEF UsrpRx!Next
  <2>2. ASSUME NEW ping \in 0 .. MaxTime, UsrpRx!SendPing(ping) PROVE ReadIInv'
    <3>1. raced' = raced BY <2>2 DEF UsrpRx!SendPing
    <3> QED BY <2>2, <3>1, PingSent DEF ReadIInv
  <2>3. ASSUME NEW ping \in 0 .. MaxTime, UsrpRx!PingReply(ping) PROVE ReadIInv'
    <3>1. raced' = (raced \/ pingTimestamp # ping) BY <2>3 DEF UsrpRx!PingReply
    <3>2. raced' \in BOOLEAN BY <3>1, Zenon
    <3>3. ~raced' => ~raced BY <3>1, Zenon
    <3> QED BY <2>3, <3>2, <3>3, PingAnswered, Zenon DEF ReadIInv
  <2>4. CASE UsrpRx!NotePing \/ UsrpRx!BeginRead \/ UsrpRx!Guess \/ UsrpRx!Packet
             \/ UsrpRx!LosePacket \/ UsrpRx!Copy
    <3>1. raced' = raced
      BY <2>4, Zenon DEF UsrpRx!NotePing, UsrpRx!BeginRead, UsrpRx!Guess, UsrpRx!Packet,
                         UsrpRx!LosePacket, UsrpRx!Copy
    <3>2. ReadParts => ReadParts'
      BY <2>4, PingNoted, ReadBegun, BatchGuessed, PacketRead, PacketLost, ReadCopied, Zenon
    <3> QED BY <3>1, <3>2, Zenon DEF ReadIInv
  <2> QED BY <2>1, <2>2, <2>3, <2>4, Zenon
<1> QED BY <1>1, <1>2

LEMMA ReadsRight ==
    ReadIInv => UsrpRx!OffsetRight /\ UsrpRx!SamplesOfTheirTimes /\ UsrpRx!InRing
<1> SUFFICES ASSUME ReadIInv
             PROVE  UsrpRx!OffsetRight /\ UsrpRx!SamplesOfTheirTimes /\ UsrpRx!InRing
  OBVIOUS
<1>1. CASE raced BY <1>1, Zenon DEF UsrpRx!OffsetRight, UsrpRx!SamplesOfTheirTimes, UsrpRx!InRing
<1>2. CASE ~raced
  <2>1. ReadGood /\ ReadTyped /\ RingPlaced BY <1>2 DEF ReadIInv, ReadParts
  <2>2. UsrpRx!OffsetRight BY <2>1 DEF UsrpRx!OffsetRight, RingPlaced
  <2>3. UsrpRx!InRing BY <2>1 DEF UsrpRx!InRing, ReadTyped
  <2>4. UsrpRx!SamplesOfTheirTimes BY <2>1, Zenon DEF UsrpRx!SamplesOfTheirTimes, ReadGood
  <2> QED BY <2>2, <2>3, <2>4
<1> QED BY <1>1, <1>2
-----------------------------------------------------------------------------
(* The USRP1's writes *)

\* The number of packets is the length over the size of a packet, rounded up.
LEMMA PacketCount ==
    ASSUME NEW len \in 0 .. MaxPkts * Payload, NEW n, n = Usrp!NumPkts(len)
    PROVE  /\ n \in 0 .. MaxPkts /\ Payload * n \in Nat /\ Payload * n >= len
           /\ Payload * n < len + Payload
           /\ n = 0 => len = 0
<1> DEFINE x == len + Payload - 1
           pn == Payload * n
           pm == Payload * MaxPkts
           r == x % Payload
<1>1. Payload \in Nat \ {0} /\ MaxPkts \in Nat \ {0}
  BY DevicesAssumption DEF Usrp!UsrpDeviceAssumption
<1>2. pm \in Nat /\ pm = MaxPkts * Payload BY <1>1
<1>3. len \in Nat /\ len <= pm /\ x \in Nat BY <1>1, <1>2
<1>4. n \in Int /\ r \in 0 .. Payload - 1 /\ x = pn + r
  <2>1. n = x \div Payload BY DEF Usrp!NumPkts
  <2> HIDE DEF x
  <2> QED BY <1>1, <1>3, <2>1, DivMod
<1>5. pn \in Int /\ (n = 0 => pn = 0) BY <1>1, <1>4
<1>6. n < 0 => pn + Payload <= 0
  <2>1. n < 0 => Payload * n + Payload <= Payload * 0 BY <1>1, <1>4, Multiples
  <2> QED BY <1>1, <2>1
<1>7. MaxPkts < n => pm + Payload <= pn BY <1>1, <1>4, Multiples
<1>8. len <= pn /\ pn < len + Payload
  <2> HIDE DEF pn, r
  <2> QED BY <1>1, <1>3, <1>4, <1>5
<1>9. n >= 0 /\ n <= MaxPkts
  <2> HIDE DEF pn, pm, r, x
  <2> QED BY <1>1, <1>2, <1>3, <1>4, <1>5, <1>6, <1>7, <1>8
<1>10. n = 0 => len = 0
  <2> HIDE DEF pn
  <2> QED BY <1>3, <1>5, <1>8
<1> QED BY <1>1, <1>3, <1>4, <1>5, <1>8, <1>9, <1>10

LEMMA WrittenBlock ==
    ASSUME NEW len \in 0 .. MaxPkts * Payload, NEW stamp, NEW control,
           Usrp!WriteSamples(len, stamp, control)
    PROVE  Usrp!PacketsAreBlock'
<1> DEFINE n == Usrp!NumPkts(len)
           Place(k) == Payload * k
           pkt(k) == Usrp!Packet(k, len, stamp, control)
<1>1. Payload \in Nat \ {0} /\ MaxPkts \in Nat \ {0} /\ len \in Nat
  BY DevicesAssumption DEF Usrp!UsrpDeviceAssumption
<1>2. /\ n \in 0 .. MaxPkts /\ Place(n) \in Nat /\ Place(n) >= len /\ Place(n) < len + Payload
      /\ n = 0 => len = 0
  <2> HIDE DEF n
  <2> QED BY PacketCount DEF n
<1>3. outPkt' = [k \in 1 .. n |-> pkt(k)] /\ usrpWritten'.len = len /\ usrpWritten'.stamp = stamp
  BY DEF Usrp!WriteSamples
<1> HIDE DEF n
<1>4. n \in Nat BY <1>1, <1>2
<1>5. Len(outPkt') = n /\ \A k \in 1 .. n : outPkt'[k] = pkt(k)
  <2> HIDE DEF pkt
  <2> QED BY <1>3, <1>4
<1>6. ASSUME NEW k \in 1 .. n
      PROVE  /\ pkt(k).first = Place(k - 1) /\ Place(k - 1) \in Nat
             /\ pkt(k).size = IF len - Place(k - 1) < Payload THEN len - Place(k - 1) ELSE Payload
             /\ pkt(k).start <=> k = 1
             /\ pkt(k).end <=> len - Place(k - 1) <= Payload
             /\ pkt(k).time = (stamp + Place(k - 1)) % TxWrap
             /\ Place(k) = Place(k - 1) + Payload
  <2>1. k \in Nat /\ k - 1 \in Nat BY <1>4
  <2>2. (k - 1) * Payload = Place(k - 1) BY <1>1, <2>1
  <2>3. Place(k) = Place(k - 1) + Payload /\ Place(k - 1) \in Nat BY <1>1, <2>1
  <2> HIDE DEF Place
  <2> QED BY <2>2, <2>3 DEF Usrp!Packet
<1>7. ASSUME NEW k \in 1 .. n, k < n
      PROVE  Place(k) < len
  <2>1. Payload * k + Payload <= Payload * n BY <1>1, <1>4, <1>7, Multiples
  <2>2. Place(k) \in Nat BY <1>1, <1>4
  <2>3. Place(k) + Payload <= Place(n) BY <2>1
  <2> HIDE DEF Place
  <2> QED BY <1>1, <1>2, <2>2, <2>3
<1>8. n > 0 => pkt(1).first = 0
  <2>1. Place(0) = 0 BY <1>1
  <2>2. n > 0 => 1 \in 1 .. n /\ 1 - 1 = 0 BY <1>4
  <2> HIDE DEF Place
  <2> QED BY <1>6, <2>1, <2>2
<1> HIDE DEF Place, pkt
<1>9. ASSUME NEW k \in 1 .. n
      PROVE  /\ pkt(k).size \in 1 .. Payload
             /\ k < n => pkt(k + 1).first = pkt(k).first + pkt(k).size
             /\ k = n => pkt(k).first + pkt(k).size = len
             /\ pkt(k).end <=> k = n
  <2>1. CASE k < n
    <3>1. k + 1 \in 1 .. n /\ (k + 1) - 1 = k BY <1>4, <2>1
    <3>2. pkt(k + 1).first = Place(k) BY <1>6, <3>1
    <3>3. len - Place(k - 1) > Payload BY <1>1, <1>6, <1>7, <2>1
    <3> QED BY <1>1, <1>4, <1>6, <2>1, <3>2, <3>3
  <2>2. CASE k = n
    <3> DEFINE m == Place(k - 1)
    <3>1. m \in Nat /\ len - m <= Payload /\ len - m >= 1
      BY <1>1, <1>2, <1>6, <2>2
    <3>2. pkt(k).size = len - m
      <4>1. pkt(k).size = IF len - m < Payload THEN len - m ELSE Payload BY <1>6
      <4> HIDE DEF m
      <4> QED BY <1>1, <3>1, <4>1
    <3>3. pkt(k).first = m /\ (pkt(k).end <=> len - m <= Payload) BY <1>6
    <3>4. ~(k < n) BY <1>4, <2>2
    <3> HIDE DEF m
    <3> QED BY <1>1, <2>2, <3>1, <3>2, <3>3, <3>4
  <2> QED BY <1>4, <2>1, <2>2
<1>10. n > 0 => n \in 1 .. n BY <1>4
<1>11. \A k \in 1 .. n : k < n => k + 1 \in 1 .. n BY <1>4
<1>12. /\ n <= MaxPkts /\ (n = 0 => usrpWritten'.len = 0)
       /\ n > 0 => outPkt'[1].first = 0 /\ outPkt'[n].first + outPkt'[n].size = usrpWritten'.len
  BY <1>2, <1>3, <1>4, <1>5, <1>8, <1>9, <1>10
<1>13. \A k \in 1 .. n :
            /\ outPkt'[k].size \in 1 .. Payload
            /\ k < n => outPkt'[k + 1].first = outPkt'[k].first + outPkt'[k].size
            /\ outPkt'[k].start <=> k = 1
            /\ outPkt'[k].end <=> k = n
            /\ outPkt'[k].time = (usrpWritten'.stamp + outPkt'[k].first) % TxWrap
  BY <1>3, <1>5, <1>6, <1>9, <1>11
<1> QED BY <1>5, <1>12, <1>13 DEF Usrp!PacketsAreBlock

LEMMA WriteInit == Usrp!Init => Usrp!PacketsAreBlock
<1> SUFFICES ASSUME Usrp!Init PROVE Usrp!PacketsAreBlock OBVIOUS
<1>1. outPkt = <<>> /\ usrpWritten.len = 0 BY DEF Usrp!Init, Usrp!NoWrite
<1>2. Len(outPkt) = 0 /\ 0 <= MaxPkts
  BY <1>1, DevicesAssumption DEF Usrp!UsrpDeviceAssumption
<1>3. \A k \in 1 .. 0 : FALSE OBVIOUS
<1> QED BY <1>1, <1>2, <1>3 DEF Usrp!PacketsAreBlock

LEMMA WriteStep ==
    Usrp!PacketsAreBlock /\ [Usrp!Next]_usrpVars => Usrp!PacketsAreBlock'
<1> SUFFICES ASSUME Usrp!PacketsAreBlock, [Usrp!Next]_usrpVars PROVE Usrp!PacketsAreBlock'
  OBVIOUS
<1>1. CASE UNCHANGED <<outPkt, usrpWritten>> BY <1>1 DEF Usrp!PacketsAreBlock
<1>2. ASSUME NEW len \in Lens, NEW stamp \in Stamps, Usrp!WriteSamples(len, stamp, FALSE)
      PROVE  Usrp!PacketsAreBlock'
  <2>1. len \in 0 .. MaxPkts * Payload BY DevicesAssumption DEF Usrp!UsrpDeviceAssumption
  <2> QED BY <1>2, <2>1, WrittenBlock
<1>3. ASSUME NEW stamp \in Stamps, Usrp!UpdateAlignment(stamp) PROVE Usrp!PacketsAreBlock'
  <2>1. Payload \in Nat \ {0} /\ MaxPkts \in Nat \ {0}
    BY DevicesAssumption DEF Usrp!UsrpDeviceAssumption
  <2>2. Payload * 0 + Payload <= Payload * MaxPkts BY <2>1, Multiples
  <2>3. 1 \in 0 .. MaxPkts * Payload BY <2>1, <2>2
  <2> QED BY <1>3, <2>3, WrittenBlock DEF Usrp!UpdateAlignment
<1>4. CASE \/ \E tx \in BOOLEAN : Usrp!OpenFails(tx)
           \/ Usrp!Open
           \/ \E rx, tx \in BOOLEAN : Usrp!Start(rx, tx) \/ Usrp!Stop(rx, tx)
  BY <1>1, <1>4 DEF Usrp!OpenFails, Usrp!Open, Usrp!Start, Usrp!Stop
<1>5. CASE UNCHANGED usrpVars BY <1>1, <1>5 DEF usrpVars
<1> QED BY <1>2, <1>3, <1>4, <1>5 DEF Usrp!Next
-----------------------------------------------------------------------------
(* UHD's reads (UhdReceive), for every ring, packet and read, and whatever  *)
(* recv() reports.                                                          *)

RxBuffer ==
    [data : [0 .. BufLen - 1 -> Int \cup {NONE}],
     data_start : 0 .. BufLen - 1, data_end : 0 .. BufLen - 1,
     time_start : Int, time_end : Nat]
Ring == rx_buffers[0]

RxTyped ==
    /\ rxStarted \in BOOLEAN /\ exited \in BOOLEAN /\ rxpc \in {"idle", "recv"}
    /\ rx_buffers = [c \in RxChans |-> Ring] /\ Ring \in RxBuffer
    /\ tick \in Int /\ prev_ts \in Nat /\ readTimestamp \in Int /\ goodFrom \in Int

\* The ring ends with the packet that came last.
LastPacket ==
    /\ Ring.time_start <= Ring.time_end
    /\ Ring.time_end = prev_ts + RxSpp \/ (Ring.time_end = 0 /\ prev_ts = 0)
    /\ \A t \in written : t \in Int /\ t < Ring.time_end

\* What was received, the last packet included, is where a read looks for it,
\* unless it was there when a write found data_start = 0, or was overrun.
PacketsInPlace ==
    \A t \in written \cup (prev_ts .. Ring.time_end - 1) :
        t >= goodFrom /\ t >= Ring.time_end - BufLen => Ring.data[Rx!Place(Ring, t)] = t

RxIInv == RxTyped /\ LastPacket /\ PacketsInPlace

LEMMA RxConstants ==
    /\ BufLen \in Nat \ {0} /\ RxSpp \in 1 .. BufLen - 1 /\ ReadLen \in 1 .. BufLen - 1
    /\ 0 \in RxChans /\ {StartDelay, FlushPkts, TsOffset} \subseteq Nat
<1>1. /\ BufLen \in Nat /\ RxSpp \in 1 .. BufLen - 1 /\ ReadLen \in 1 .. BufLen - 1
      /\ ReadLen + RxSpp <= BufLen
      /\ 0 \in RxChans /\ {TsOffset, FlushPkts, StartDelay} \subseteq Nat
  BY DevicesAssumption DEF Rx!UhdAssumption
<1>2. BufLen \in Nat \ {0} BY <1>1
<1> QED BY <1>1, <1>2

LEMMA RxInit == Rx!Init => RxIInv
<1> SUFFICES ASSUME Rx!Init PROVE RxIInv OBVIOUS
<1>1. /\ rxStarted = FALSE /\ exited = FALSE /\ rxpc = "idle" /\ prev_ts = 0
      /\ rx_buffers = [c \in RxChans |-> Rx!EmptyBuf] /\ tick \in 1 .. 2
      /\ readTimestamp = 0 /\ written = {} /\ goodFrom = 0
  BY DEF Rx!Init
<1>2. Ring = Rx!EmptyBuf BY <1>1, RxConstants DEF Ring
<1>3. Rx!EmptyBuf \in RxBuffer
  <2>1. [i \in 0 .. BufLen - 1 |-> NONE] \in [0 .. BufLen - 1 -> Int \cup {NONE}] OBVIOUS
  <2>2. 0 \in 0 .. BufLen - 1 /\ 0 \in Int /\ 0 \in Nat BY RxConstants
  <2> DEFINE d == [i \in 0 .. BufLen - 1 |-> NONE]
  <2>3. d \in [0 .. BufLen - 1 -> Int \cup {NONE}] BY <2>1
  <2> HIDE DEF d
  <2>4. [data |-> d, data_start |-> 0, data_end |-> 0, time_start |-> 0, time_end |-> 0]
        \in RxBuffer
    BY <2>2, <2>3 DEF RxBuffer
  <2> QED BY <2>4 DEF Rx!EmptyBuf, d
<1>4. Ring.time_start = 0 /\ Ring.time_end = 0 BY <1>2 DEF Rx!EmptyBuf
<1>5. RxTyped
  <2>1. rx_buffers = [c \in RxChans |-> Ring] BY <1>1, <1>2
  <2>2. tick \in Int /\ prev_ts \in Nat /\ readTimestamp \in Int /\ goodFrom \in Int
        /\ rxStarted \in BOOLEAN /\ exited \in BOOLEAN /\ rxpc \in {"idle", "recv"}
    <3>1. prev_ts = 0 /\ readTimestamp = 0 /\ goodFrom = 0 /\ tick \in 1 .. 2 BY <1>1
    <3>2. rxStarted = FALSE /\ exited = FALSE /\ rxpc = "idle" BY <1>1
    <3>3. rxStarted \in BOOLEAN /\ exited \in BOOLEAN /\ rxpc \in {"idle", "recv"}
      BY <3>2, Zenon
    <3>4. tick \in Int /\ prev_ts \in Nat /\ readTimestamp \in Int /\ goodFrom \in Int
      BY <3>1
    <3> QED BY <3>3, <3>4
  <2>3. Ring \in RxBuffer BY <1>2, <1>3, Zenon
  <2> QED BY <2>1, <2>2, <2>3, Zenon DEF RxTyped
<1>6. LastPacket BY <1>1, <1>4 DEF LastPacket
<1>7. PacketsInPlace
  <2>1. prev_ts .. Ring.time_end - 1 = {} BY <1>1, <1>4
  <2> QED BY <1>1, <2>1, Zenon DEF PacketsInPlace
<1> QED BY <1>5, <1>6, <1>7 DEF RxIInv

LEMMA PlaceDistance ==
    ASSUME NEW b \in RxBuffer, NEW t \in Int, NEW u \in Int
    PROVE  /\ Rx!Place(b, t) \in 0 .. BufLen - 1
           /\ (Rx!Place(b, u) - Rx!Place(b, t)) % BufLen = (u - t) % BufLen
<1> DEFINE x == b.data_start + (u - b.time_start)
           y == b.data_start + (t - b.time_start)
           at == y % BufLen
<1>1. BufLen \in Nat \ {0} BY RxConstants
<1>2. x \in Int /\ y \in Int /\ x - y = u - t BY <1>1 DEF RxBuffer
<1> HIDE DEF x, y
<1>3. at \in 0 .. BufLen - 1 BY <1>1, <1>2, DivMod, Zenon
<1>4. at \in Int BY <1>1, <1>3
<1>5. at % BufLen = y % BufLen BY <1>1, <1>3, <1>4, ModSmall, Zenon
<1> HIDE DEF at
<1>6. ((x % BufLen) - at) % BufLen = (x - y) % BufLen
  <2>1. x \in Int /\ y \in Int /\ BufLen \in Nat \ {0} BY <1>1, <1>2
  <2> QED BY <1>4, <1>5, <2>1, SlotDistance, ZenonT(40)
<1> QED BY <1>2, <1>3, <1>6 DEF Rx!Place, x, y, at

\* A packet that reaches beyond the end of the ring's times is written.
LEMMA PacketWritten ==
    ASSUME NEW b \in RxBuffer, NEW t \in Int, b.time_start <= b.time_end,
           t + RxSpp > b.time_end,
           NEW at, at = Rx!Place(b, t), NEW w, w = Rx!write(b, Rx!Samples(t), t)
    PROVE  /\ w.rc = Rx!ERROR_OVERFLOW \/ w.rc = RxSpp
           /\ w.buf = [data |-> [i \in 0 .. BufLen - 1 |->
                                    IF (i - at) % BufLen < RxSpp THEN t + ((i - at) % BufLen)
                                    ELSE b.data[i]],
                       data_start |-> IF b.data_start = 0 THEN at ELSE b.data_start,
                       data_end |-> (at + RxSpp) % BufLen,
                       time_start |-> b.time_start, time_end |-> t + RxSpp]
<1> DEFINE s == Rx!Samples(t)
           end == (at + RxSpp) % BufLen
           start == IF b.data_start = 0 THEN at ELSE b.data_start
           old == [i \in DOMAIN b.data |->
                      LET k == (i - at) % BufLen IN IF k < RxSpp THEN s[k + 1] ELSE b.data[i]]
           new == [i \in 0 .. BufLen - 1 |->
                      IF (i - at) % BufLen < RxSpp THEN t + ((i - at) % BufLen) ELSE b.data[i]]
           next_ == [data |-> old, data_start |-> start, data_end |-> end,
                     time_start |-> b.time_start, time_end |-> t + RxSpp]
           over == at + RxSpp > BufLen /\ end > start
           code == CASE over -> Rx!ERROR_OVERFLOW
                     [] ~over /\ t + RxSpp <= b.time_start -> Rx!ERROR_WRITE
                     [] OTHER -> RxSpp
<1>1. RxSpp \in Nat \ {0} /\ RxSpp < BufLen /\ BufLen \in Nat \ {0} BY RxConstants
<1>2. Len(s) = RxSpp /\ \A k \in 0 .. RxSpp - 1 : s[k + 1] = t + k
  BY <1>1 DEF Rx!Samples
<1>3. /\ DOMAIN b.data = 0 .. BufLen - 1 /\ b.data_start \in 0 .. BufLen - 1
      /\ b.time_start \in Int /\ b.time_end \in Nat
  BY DEF RxBuffer
<1>4. at \in 0 .. BufLen - 1 BY PlaceDistance
<1>5. old = new
  <2>1. ASSUME NEW i \in 0 .. BufLen - 1, NEW k, k = (i - at) % BufLen, k < RxSpp
        PROVE  s[k + 1] = t + k
    <3>1. i - at \in Int BY <1>1, <1>4
    <3>2. k \in 0 .. BufLen - 1 BY <1>1, <2>1, <3>1, DivMod, Zenon
    <3>3. k \in 0 .. RxSpp - 1 BY <1>1, <2>1, <3>2
    <3> QED BY <1>2, <3>3
  <2> HIDE DEF s
  <2> QED BY <1>3, <2>1, Zenon
<1>6. ~(t + RxSpp <= b.time_start) /\ ~(t + RxSpp <= b.time_end) BY <1>1, <1>3
<1>7. ~(Len(s) = 0 \/ Len(s) >= BufLen) /\ Len(s) \in 1 .. BufLen - 1 BY <1>1, <1>2
<1>8. w = [buf |-> next_, rc |-> code]
  <2> HIDE DEF s
  <2>1. w = Rx!write(b, s, t) BY DEF s
  <2> QED BY <1>2, <1>6, <1>7, <2>1 DEF Rx!write, Rx!DataStart
<1>9. code = Rx!ERROR_OVERFLOW \/ code = RxSpp
  <2> HIDE DEF over
  <2> QED BY <1>6
<1> HIDE DEF code, old, new
<1> QED BY <1>5, <1>8, <1>9 DEF new

\* One that does not is refused.
LEMMA PacketRefused ==
    ASSUME NEW b \in RxBuffer, NEW t \in Int, t + RxSpp <= b.time_end,
           NEW w, w = Rx!write(b, Rx!Samples(t), t)
    PROVE  w = [buf |-> b, rc |-> Rx!ERROR_TIMESTAMP]
<1> DEFINE s == Rx!Samples(t)
<1>1. RxSpp \in Nat \ {0} /\ RxSpp < BufLen /\ BufLen \in Nat \ {0} BY RxConstants
<1>2. Len(s) = RxSpp BY <1>1 DEF Rx!Samples
<1>3. ~(Len(s) = 0 \/ Len(s) >= BufLen) /\ Len(s) \in 1 .. BufLen - 1 BY <1>1, <1>2
<1> HIDE DEF s
<1>4. w = Rx!write(b, s, t) BY DEF s
<1> QED BY <1>2, <1>3, <1>4 DEF Rx!write, Rx!DataStart

\* Packet by packet, every sample gets its place.
LEMMA RxPacketKept ==
    ASSUME RxIInv, NEW b, b = Ring, NEW t \in Int, t >= prev_ts, t + RxSpp > b.time_end,
           prev_ts' = t, Ring' = Rx!write(b, Rx!Samples(t), t).buf,
           written' \subseteq written \cup (t .. t + RxSpp - 1),
           goodFrom' = IF b.data_start = 0 /\ Ring'.data_start # 0
                       THEN Ring'.time_end ELSE goodFrom
    PROVE  LastPacket' /\ PacketsInPlace' /\ Ring' \in RxBuffer /\ goodFrom' \in Int
           /\ Ring'.time_end = t + RxSpp
<1> DEFINE at == Rx!Place(b, t)
           n == BufLen
           start == IF b.data_start = 0 THEN at ELSE b.data_start
           image == [i \in 0 .. n - 1 |->
                        IF (i - at) % n < RxSpp THEN t + ((i - at) % n) ELSE b.data[i]]
           new == Ring'
<1>1. RxTyped /\ LastPacket /\ PacketsInPlace BY DEF RxIInv
<1>2. b \in RxBuffer /\ prev_ts \in Nat /\ t \in Nat /\ goodFrom \in Int BY <1>1 DEF RxTyped
<1>3. RxSpp \in Nat \ {0} /\ RxSpp < n /\ n \in Nat \ {0} BY RxConstants
<1>4. /\ DOMAIN b.data = 0 .. n - 1 /\ b.data_start \in 0 .. n - 1
      /\ b.time_start \in Int /\ b.time_end \in Nat
      /\ b.data \in [0 .. n - 1 -> Int \cup {NONE}]
  BY <1>2 DEF RxBuffer
<1>5. b.time_start <= b.time_end
      /\ (b.time_end = prev_ts + RxSpp \/ (b.time_end = 0 /\ prev_ts = 0))
      /\ \A u \in written : u \in Int /\ u < b.time_end
  BY <1>1 DEF LastPacket
<1>6. at \in 0 .. n - 1 BY <1>2, PlaceDistance
<1>7. new = [data |-> image, data_start |-> start, data_end |-> (at + RxSpp) % n,
             time_start |-> b.time_start, time_end |-> t + RxSpp]
  <2> HIDE DEF at, new
  <2> QED BY <1>2, <1>5, PacketWritten, Zenon DEF new, at
<1>8. /\ new.data = image /\ new.data_start = start /\ new.time_start = b.time_start
      /\ new.time_end = t + RxSpp
  <2> HIDE DEF image, start, new
  <2> QED BY <1>7
<1>9. start \in 0 .. n - 1 BY <1>4, <1>6
<1>10. (at + RxSpp) % n \in 0 .. n - 1
  <2>1. at + RxSpp \in Int BY <1>3, <1>6
  <2> HIDE DEF at
  <2> QED BY <1>3, <2>1, DivMod, Zenon
<1>11. image \in [0 .. n - 1 -> Int \cup {NONE}]
  <2>1. ASSUME NEW i \in 0 .. n - 1
        PROVE  (IF (i - at) % n < RxSpp THEN t + ((i - at) % n) ELSE b.data[i])
                    \in Int \cup {NONE}
    <3> DEFINE k == (i - at) % n
    <3>1. i - at \in Int BY <1>3, <1>6
    <3>2. k \in 0 .. n - 1 BY <1>3, <3>1, DivMod, Zenon
    <3> HIDE DEF k
    <3>3. t + k \in Int BY <1>2, <1>3, <3>2
    <3>4. b.data[i] \in Int \cup {NONE} BY <1>4
    <3>5. (IF k < RxSpp THEN t + k ELSE b.data[i]) \in Int \cup {NONE} BY <3>3, <3>4, Zenon
    <3> QED BY <3>5 DEF k
  <2> QED BY <2>1
<1>12. new \in RxBuffer
  <2> DEFINE e == (at + RxSpp) % n
  <2>1. e \in 0 .. n - 1 BY <1>10
  <2>2. t + RxSpp \in Nat BY <1>2, <1>3
  <2> HIDE DEF image, start, e, new
  <2>3. new = [data |-> image, data_start |-> start, data_end |-> e,
               time_start |-> b.time_start, time_end |-> t + RxSpp]
    BY <1>7 DEF e
  <2> QED BY <1>4, <1>9, <1>11, <2>1, <2>2, <2>3 DEF RxBuffer
<1> HIDE DEF image, new
<1>13. goodFrom' \in Int /\ (b.data_start = 0 /\ start # 0 => goodFrom' = t + RxSpp)
       /\ (~(b.data_start = 0 /\ start # 0) => goodFrom' = goodFrom)
  BY <1>2, <1>3, <1>8 DEF new
<1>14. \A u \in written' : u \in Int /\ u < t + RxSpp
  BY <1>2, <1>3, <1>4, <1>5
<1>15. LastPacket'
  <2>1. b.time_start <= t + RxSpp BY <1>2, <1>3, <1>4, <1>5
  <2> QED BY <1>8, <1>14, <2>1, RxConstants DEF LastPacket, new
<1>16. ASSUME NEW u \in Int, u \in written' \/ u \in t .. t + RxSpp - 1,
              u >= goodFrom', u >= t + RxSpp - n
       PROVE  new.data[Rx!Place(new, u)] = u
  <2>1. u < t + RxSpp BY <1>2, <1>3, <1>14, <1>16
  <2>2. start = b.data_start
    <3>1. ~(b.data_start = 0 /\ start # 0) BY <1>2, <1>3, <1>13, <1>16, <2>1
    <3>2. b.data_start = 0 => start = 0 BY <3>1, Zenon
    <3> QED BY <3>2
  <2> DEFINE slot == Rx!Place(b, u)
             d == (slot - at) % n
  <2>3. Rx!Place(new, u) = slot BY <1>8, <2>2 DEF Rx!Place
  <2>4. slot \in 0 .. n - 1 /\ d = (u - t) % n
    <3> HIDE DEF n
    <3> QED BY <1>2, <1>16, PlaceDistance DEF n
  <2>5. new.data[slot] = IF d < RxSpp THEN t + d ELSE b.data[slot]
    <3> HIDE DEF slot, at
    <3> QED BY <1>8, <2>4 DEF image
  <2> HIDE DEF slot, at
  <2>6. (u - t \in 0 .. n - 1 => (u - t) % n = u - t)
        /\ (u - t \in -n .. -1 => (u - t) % n = u - t + n)
    <3>1. u - t \in Int BY <1>2, <1>16
    <3> QED BY <1>3, <3>1, ModSmall
  <2> HIDE DEF d
  <2>7. CASE u >= t
    <3>1. u - t \in 0 .. n - 1 /\ u - t < RxSpp BY <1>2, <1>3, <1>16, <2>1, <2>7
    <3>2. d = u - t BY <2>4, <2>6, <3>1
    <3>3. new.data[slot] = u BY <1>2, <1>16, <2>5, <3>1, <3>2
    <3> QED BY <2>3, <3>3
  <2>8. CASE u < t
    <3>1. u - t \in -n .. -1 /\ ~(u - t + n < RxSpp) BY <1>2, <1>3, <1>16, <2>8
    <3>2. d = u - t + n BY <2>4, <2>6, <3>1
    <3>3. new.data[slot] = b.data[slot] BY <2>5, <3>1, <3>2
    <3>4. u \in written BY <1>2, <1>3, <1>16, <2>8
    <3>5. u >= goodFrom /\ u >= b.time_end - n
      <4>1. goodFrom' = goodFrom BY <1>13, <2>2
      <4>2. b.time_end - n <= t + RxSpp - n BY <1>2, <1>3, <1>4
      <4> QED BY <1>2, <1>3, <1>4, <1>16, <4>1, <4>2
    <3>6. b.data[slot] = u BY <1>1, <3>4, <3>5 DEF PacketsInPlace, slot
    <3> QED BY <2>3, <3>3, <3>6
  <2> QED BY <1>2, <1>16, <2>7, <2>8
<1>17. PacketsInPlace'
  <2>1. \A u \in written' \cup (t .. t + RxSpp - 1) : u \in Int BY <1>2, <1>3, <1>14
  <2>2. \A u : Rx!Place(Ring, u)' = Rx!Place(new, u) BY DEF Rx!Place, new
  <2>3. prev_ts' .. Ring'.time_end - 1 = t .. t + RxSpp - 1
        /\ Ring'.time_end - BufLen = t + RxSpp - n
    BY <1>2, <1>3, <1>8 DEF new
  <2>4. \A u \in written' \cup (t .. t + RxSpp - 1) :
            u >= goodFrom' /\ u >= t + RxSpp - n => Ring'.data[Rx!Place(Ring, u)'] = u
    BY <1>16, <2>1, <2>2 DEF new
  <2> QED BY <2>3, <2>4 DEF PacketsInPlace
<1> QED BY <1>8, <1>12, <1>13, <1>15, <1>17 DEF new

\* A packet whose time is not after that of the last one is the last one.
LEMMA RxPacketAgain ==
    ASSUME RxIInv, NEW t \in Int, t >= prev_ts, t + RxSpp <= Ring.time_end,
           prev_ts' = t, Ring' = Ring, goodFrom' = goodFrom,
           written' \subseteq written \cup (t .. t + RxSpp - 1)
    PROVE  LastPacket' /\ PacketsInPlace'
<1>1. RxTyped /\ LastPacket /\ PacketsInPlace BY DEF RxIInv
<1>2. RxSpp \in Nat \ {0} BY RxConstants
<1>3. prev_ts \in Nat /\ Ring.time_end \in Nat BY <1>1 DEF RxTyped, RxBuffer
<1>4. t = prev_ts /\ Ring.time_end = t + RxSpp BY <1>1, <1>2, <1>3 DEF LastPacket
<1>5. \A u \in written' : u \in Int /\ u < Ring.time_end BY <1>1, <1>2, <1>4 DEF LastPacket
<1>6. LastPacket' BY <1>1, <1>4, <1>5 DEF LastPacket
<1>7. \A u : Rx!Place(Ring, u)' = Rx!Place(Ring, u) BY DEF Rx!Place
<1>8. prev_ts' .. Ring.time_end - 1 = t .. t + RxSpp - 1
      /\ prev_ts .. Ring.time_end - 1 = t .. t + RxSpp - 1
  BY <1>2, <1>4
<1>9. PacketsInPlace' BY <1>1, <1>7, <1>8 DEF PacketsInPlace
<1> QED BY <1>6, <1>9

\* The buffers of all channels take a packet alike.
LEMMA WrittenAlike ==
    ASSUME RxTyped, Ring.time_start <= Ring.time_end, NEW t \in Int
    PROVE  Rx!WriteAll(t) = [c \in RxChans |-> Rx!write(Ring, Rx!Samples(t), t).buf]
<1> DEFINE w == Rx!write(Ring, Rx!Samples(t), t)
           res == [c \in RxChans |-> Rx!write(rx_buffers[c], Rx!Samples(t), t)]
           bad == {c \in RxChans : res[c].rc < 0 /\ res[c].rc # Rx!ERROR_OVERFLOW}
<1>1. /\ Ring \in RxBuffer /\ RxSpp \in Nat \ {0}
      /\ \A c \in RxChans : rx_buffers[c] = Ring
      /\ Ring.time_end \in Nat
  <2>1. rx_buffers = [c \in RxChans |-> Ring] /\ Ring \in RxBuffer BY DEF RxTyped
  <2>2. Ring.time_end \in Nat BY <2>1 DEF RxBuffer
  <2> HIDE DEF Ring
  <2> QED BY <2>1, <2>2, RxConstants
<1>2. res = [c \in RxChans |-> w] BY <1>1, Zenon
<1>3. Rx!WriteAll(t) = [c \in RxChans |-> IF \E d \in bad : d < c THEN rx_buffers[c]
                                         ELSE res[c].buf]
  BY DEF Rx!WriteAll
<1> HIDE DEF w, res
<1>4. \A c \in RxChans : res[c] = w BY <1>2
<1>5. CASE t + RxSpp > Ring.time_end
  <2>1. w.rc = Rx!ERROR_OVERFLOW \/ w.rc = RxSpp BY <1>1, <1>5, PacketWritten DEF w
  <2>2. ~(w.rc < 0 /\ w.rc # Rx!ERROR_OVERFLOW) BY <1>1, <2>1
  <2>3. bad = {} BY <1>4, <2>2
  <2> QED BY <1>3, <1>4, <2>3 DEF w
<1>6. CASE t + RxSpp <= Ring.time_end
  <2>1. w.buf = Ring BY <1>1, <1>6, PacketRefused DEF w
  <2>2. \A c \in RxChans : (IF \E d \in bad : d < c THEN rx_buffers[c] ELSE res[c].buf) = w.buf
    BY <1>1, <1>4, <2>1
  <2> QED BY <1>3, <2>2 DEF w
<1> QED BY <1>1, <1>5, <1>6

LEMMA RxPacketStep ==
    ASSUME RxIInv, Rx!RecvPacket
    PROVE  RxIInv' /\ (Ring'.time_end # Ring.time_end => tick' - Ring'.time_end \in {-1, 0, 1})
<1>1. RxTyped /\ LastPacket /\ PacketsInPlace BY DEF RxIInv
<1>2. PICK reported \in {tick, tick - 1} :
        LET t == Rx!Corrected(reported) IN
        /\ reported >= prev_ts /\ prev_ts' = t /\ rx_buffers' = Rx!WriteAll(t)
        /\ written' = {w \in written : w >= readTimestamp} \cup (t .. t + RxSpp - 1)
        /\ goodFrom' = IF rx_buffers[0].data_start = 0 /\ rx_buffers'[0].data_start # 0
                       THEN rx_buffers'[0].time_end ELSE goodFrom
        /\ rxpc' = IF Rx!WriteFails(t) THEN "idle" ELSE "recv"
  BY Zenon DEF Rx!RecvPacket
<1>3. tick' = tick + RxSpp /\ UNCHANGED <<rxStarted, exited, readTimestamp>>
  BY DEF Rx!RecvPacket
<1> DEFINE t == Rx!Corrected(reported)
           new == Rx!write(Ring, Rx!Samples(t), t).buf
<1>4. /\ RxSpp \in Nat \ {0} /\ 0 \in RxChans /\ tick \in Int /\ prev_ts \in Nat
      /\ goodFrom \in Int /\ Ring.time_end \in Nat /\ Ring \in RxBuffer
      /\ Ring.time_start <= Ring.time_end
  BY <1>1, RxConstants DEF RxTyped, LastPacket, RxBuffer
<1>5. t \in {tick - 1, tick, tick + 1} /\ t >= prev_ts /\ t \in Nat
  BY <1>2, <1>4 DEF Rx!Corrected
<1> HIDE DEF t
<1>6. rx_buffers' = [c \in RxChans |-> new] /\ prev_ts' = t
  <2>1. rx_buffers' = Rx!WriteAll(t) /\ prev_ts' = t BY <1>2, Zenon DEF t
  <2>2. t \in Int BY <1>5
  <2> QED BY <1>1, <1>4, <2>1, <2>2, WrittenAlike, Zenon
<1> HIDE DEF new
<1>7. Ring' = new /\ rx_buffers' = [c \in RxChans |-> Ring'] BY <1>4, <1>6 DEF Ring
<1>8. /\ written' \subseteq written \cup (t .. t + RxSpp - 1)
      /\ goodFrom' = IF Ring.data_start = 0 /\ Ring'.data_start # 0
                     THEN Ring'.time_end ELSE goodFrom
  <2>1. written' = {w \in written : w >= readTimestamp} \cup (t .. t + RxSpp - 1)
    BY <1>2, Zenon DEF t
  <2>2. written' \subseteq written \cup (t .. t + RxSpp - 1) BY <2>1
  <2>3. goodFrom' = IF rx_buffers[0].data_start = 0 /\ rx_buffers'[0].data_start # 0
                    THEN rx_buffers'[0].time_end ELSE goodFrom
    BY <1>2, Zenon
  <2> QED BY <2>2, <2>3, Zenon DEF Ring
<1>9. rxpc' \in {"idle", "recv"} BY <1>2
<1>10. CASE t + RxSpp > Ring.time_end
  <2>1. LastPacket' /\ PacketsInPlace' /\ Ring' \in RxBuffer /\ goodFrom' \in Int
        /\ Ring'.time_end = t + RxSpp
    <3> DEFINE b == Ring
    <3>1. b = Ring OBVIOUS
    <3>2. t \in Int BY <1>5
    <3>3. Ring' = Rx!write(b, Rx!Samples(t), t).buf BY <1>7 DEF new
    <3> HIDE DEF b
    <3> QED BY <1>5, <1>6, <1>8, <1>10, <3>1, <3>2, <3>3, RxPacketKept
  <2>2. RxTyped' BY <1>1, <1>3, <1>4, <1>5, <1>6, <1>7, <1>9, <2>1 DEF RxTyped
  <2>3. tick' - Ring'.time_end \in {-1, 0, 1} BY <1>3, <1>4, <1>5, <2>1
  <2> QED BY <2>1, <2>2, <2>3 DEF RxIInv
<1>11. CASE t + RxSpp <= Ring.time_end
  <2>1. Ring' = Ring
    <3>1. new = Ring
      <4>1. t \in Int BY <1>5
      <4> QED BY <1>4, <1>11, <4>1, PacketRefused DEF new
    <3> QED BY <1>7, <3>1
  <2>2. goodFrom' = goodFrom BY <1>8, <2>1
  <2>3. LastPacket' /\ PacketsInPlace'
    <3>1. t \in Int BY <1>5
    <3> QED BY <1>5, <1>6, <1>8, <1>11, <2>1, <2>2, <3>1, RxPacketAgain
  <2>4. RxTyped' BY <1>1, <1>3, <1>4, <1>5, <1>6, <1>7, <1>9, <2>1, <2>2 DEF RxTyped
  <2> QED BY <2>1, <2>3, <2>4 DEF RxIInv
<1> QED BY <1>4, <1>5, <1>10, <1>11

\* A read copies each sample from its place, in one piece or two.
LEMMA CopiedInPlace ==
    ASSUME NEW b \in RxBuffer, NEW ts \in Int, NEW at, at = Rx!Place(b, ts),
           NEW i \in 1 .. ReadLen
    PROVE  Rx!CopyOut(b, at, ReadLen, ReadLen)[i] = b.data[Rx!Place(b, ts + i - 1)]
<1> DEFINE out == Rx!CopyOut(b, at, ReadLen, ReadLen)
           y == b.data_start + (ts - b.time_start)
           j == i - 1
           k == at + j
<1>1. ReadLen \in Nat \ {0} /\ BufLen \in Nat \ {0} /\ ReadLen < BufLen BY RxConstants
<1>2. b.time_start \in Int /\ b.time_end \in Nat /\ b.data_start \in Int
  BY <1>1 DEF RxBuffer
<1>3. at \in 0 .. BufLen - 1 BY PlaceDistance
<1> DEFINE copy(m) == CASE m < BufLen -> b.data[m]
                         [] m >= BufLen /\ at + ReadLen < BufLen -> NONE
                         [] OTHER -> b.data[m - BufLen]
<1>4. out[i] = copy(at + i - 1)
  <2>1. out = [x \in 1 .. ReadLen |-> copy(at + x - 1)] BY DEF Rx!CopyOut
  <2> HIDE DEF out, copy
  <2> QED BY <2>1
<1>5. i \in Int /\ k \in Int /\ k >= 0 /\ k < BufLen + BufLen /\ y \in Int
      /\ k < at + ReadLen /\ j \in Int /\ at + i - 1 = k
  <2>1. i \in Int /\ at \in Int /\ i >= 1 /\ i <= ReadLen BY <1>1, <1>3
  <2> QED BY <1>1, <1>2, <1>3, <2>1
<1>6. Rx!Place(b, ts + i - 1) = k % BufLen
  <2>1. ((y % BufLen) + j) % BufLen = (y + j) % BufLen
    <3> HIDE DEF y, j
    <3> QED BY <1>1, <1>5, ModAdd, Zenon
  <2>2. at = y % BufLen BY DEF Rx!Place
  <2>3. y + j = b.data_start + ((ts + i - 1) - b.time_start) BY <1>2, <1>5
  <2> HIDE DEF y, j
  <2>4. Rx!Place(b, ts + i - 1) = (y + j) % BufLen BY <2>3 DEF Rx!Place
  <2> QED BY <2>1, <2>2, <2>4
<1> HIDE DEF copy
<1>7. out[i] = copy(k) BY <1>4, <1>5, Zenon
<1> HIDE DEF out, k
<1>8. CASE k < BufLen
  <2>1. k \in 0 .. BufLen - 1 BY <1>1, <1>5, <1>8
  <2>2. k % BufLen = k BY <1>1, <1>5, <2>1, ModSmall, Zenon
  <2>3. copy(k) = b.data[k]
    <3>1. ~(k >= BufLen /\ at + ReadLen < BufLen) BY <1>1, <1>3, <1>5, <1>8
    <3> QED BY <1>8, <3>1 DEF copy
  <2> QED BY <1>6, <1>7, <2>2, <2>3 DEF out
<1>9. CASE k >= BufLen
  <2>1. ~(k < BufLen) /\ ~(at + ReadLen < BufLen) BY <1>1, <1>3, <1>5, <1>9
  <2>2. copy(k) = b.data[k - BufLen] BY <2>1 DEF copy
  <2>3. k - BufLen \in 0 .. BufLen - 1 /\ k - BufLen \in Int BY <1>1, <1>5, <1>9
  <2>4. (k - BufLen) % BufLen = k % BufLen BY <1>1, <1>5, ModNext, Zenon
  <2>5. (k - BufLen) % BufLen = k - BufLen BY <1>1, <2>3, ModSmall, Zenon
  <2> QED BY <1>6, <1>7, <2>2, <2>4, <2>5 DEF out
<1> QED BY <1>1, <1>5, <1>8, <1>9

\* A read that has its samples returns them, and moves on.
LEMMA ReadTaken ==
    ASSUME NEW b \in RxBuffer, NEW ts \in Int, Rx!avail_smpls(b, ts) >= ReadLen,
           NEW r, r = Rx!read(b, ReadLen, ts)
    PROVE  /\ ts >= b.time_start /\ ts + ReadLen <= b.time_end /\ r.rc = ReadLen
           /\ r.buf = [b EXCEPT !.data_start = (Rx!Place(b, ts) + ReadLen) % BufLen,
                                !.time_start = ts + ReadLen]
           /\ r.out = Rx!CopyOut(b, Rx!Place(b, ts), ReadLen, ReadLen)
<1> DEFINE at == Rx!Place(b, ts)
           num == IF b.time_end - ts > ReadLen THEN ReadLen ELSE b.time_end - ts
           moved == [b EXCEPT !.data_start = (at + ReadLen) % BufLen,
                              !.time_start = ts + ReadLen]
           out == Rx!CopyOut(b, at, ReadLen, num)
<1>1. ReadLen \in Nat \ {0} /\ BufLen \in Nat \ {0} /\ ReadLen < BufLen BY RxConstants
<1>2. b.time_start \in Int /\ b.time_end \in Nat /\ b.data_start \in Int
  BY <1>1 DEF RxBuffer
<1>3. ts >= b.time_start /\ ts < b.time_end /\ b.time_end - ts >= ReadLen
  <2>1. CASE ts < b.time_start
    <3>1. Rx!avail_smpls(b, ts) = Rx!ERROR_TIMESTAMP BY <1>2, <2>1 DEF Rx!avail_smpls
    <3> QED BY <1>1, <3>1 DEF Rx!ERROR_TIMESTAMP
  <2>2. CASE ts >= b.time_start /\ ts >= b.time_end
    <3>1. Rx!avail_smpls(b, ts) = 0 BY <1>2, <2>2 DEF Rx!avail_smpls
    <3> QED BY <1>1, <3>1
  <2>3. CASE ts >= b.time_start /\ ts < b.time_end
    <3>1. Rx!avail_smpls(b, ts) = b.time_end - ts BY <1>2, <2>3 DEF Rx!avail_smpls
    <3> QED BY <2>3, <3>1
  <2> QED BY <1>2, <2>1, <2>2, <2>3
<1>4. num = ReadLen BY <1>1, <1>2, <1>3
<1>5. r = [buf |-> moved, out |-> out,
           rc |-> IF ts + ReadLen > b.time_end THEN Rx!ERROR_READ ELSE num]
  <2>1. ~(ts < b.time_start) /\ ~(ts >= b.time_start /\ ts >= b.time_end) BY <1>2, <1>3
  <2> HIDE DEF moved, out
  <2> QED BY <2>1 DEF Rx!read, moved, out
<1>6. ts + ReadLen <= b.time_end /\ ~(ts + ReadLen > b.time_end) BY <1>1, <1>2, <1>3
<1>7. out = Rx!CopyOut(b, Rx!Place(b, ts), ReadLen, ReadLen) BY <1>4, Zenon
<1> HIDE DEF out, moved, num
<1>8. r.rc = ReadLen /\ r.buf = moved /\ r.out = out BY <1>4, <1>5, <1>6
<1> QED BY <1>3, <1>6, <1>7, <1>8 DEF moved

LEMMA ReadReturns ==
    ASSUME NEW b \in RxBuffer, NEW ts \in Int, Rx!avail_smpls(b, ts) >= ReadLen,
           NEW i \in 1 .. ReadLen
    PROVE  Rx!read(b, ReadLen, ts).out[i] = b.data[Rx!Place(b, ts + i - 1)]
<1> DEFINE r == Rx!read(b, ReadLen, ts)
           at == Rx!Place(b, ts)
<1>1. at = Rx!Place(b, ts) /\ r = Rx!read(b, ReadLen, ts) OBVIOUS
<1> HIDE DEF r, at
<1>2. r.out = Rx!CopyOut(b, at, ReadLen, ReadLen) BY <1>1, ReadTaken
<1>3. Rx!CopyOut(b, at, ReadLen, ReadLen)[i] = b.data[Rx!Place(b, ts + i - 1)]
  BY <1>1, CopiedInPlace
<1> QED BY <1>1, <1>2, <1>3, Zenon

\* A read moves the start of the ring and of its times alike.
LEMMA PlaceMoved ==
    ASSUME NEW b \in RxBuffer, NEW ts \in Int, NEW n,
           n.data_start = (Rx!Place(b, ts) + ReadLen) % BufLen, n.time_start = ts + ReadLen,
           NEW u \in Int
    PROVE  Rx!Place(n, u) = Rx!Place(b, u)
<1> DEFINE at == Rx!Place(b, ts)
           y == b.data_start + (ts - b.time_start)
           d == u - ts
           e == u - (ts + ReadLen)
<1>1. BufLen \in Nat \ {0} /\ ReadLen \in Nat /\ b.data_start \in Int /\ b.time_start \in Int
  BY RxConstants DEF RxBuffer
<1>2. at \in Int BY <1>1, PlaceDistance
<1>3. y \in Int /\ d \in Int /\ e \in Int /\ at + ReadLen \in Int BY <1>1, <1>2
<1>4. at = y % BufLen BY DEF Rx!Place
<1> HIDE DEF at
<1>5. (at + ReadLen) + e = at + d BY <1>1, <1>2
<1>6. b.data_start + (u - b.time_start) = y + d BY <1>1
<1> HIDE DEF y, d, e
<1>7. (((at + ReadLen) % BufLen) + e) % BufLen = ((at + ReadLen) + e) % BufLen
  BY <1>1, <1>3, ModAdd, Zenon
<1>8. ((y % BufLen) + d) % BufLen = (y + d) % BufLen BY <1>1, <1>3, ModAdd, Zenon
<1>9. Rx!Place(n, u) = (((at + ReadLen) % BufLen) + e) % BufLen BY DEF Rx!Place, e, at
<1>10. Rx!Place(b, u) = (y + d) % BufLen BY <1>6 DEF Rx!Place
<1> QED BY <1>4, <1>5, <1>7, <1>8, <1>9, <1>10

LEMMA RxReadStep ==
    ASSUME RxIInv, Rx!ReadDone
    PROVE  RxIInv' /\ Ring'.time_end = Ring.time_end
<1> DEFINE ts == readTimestamp
           b == Ring
           r == Rx!read(b, ReadLen, ts)
           res == [c \in RxChans |-> Rx!read(rx_buffers[c], ReadLen, ts)]
           bad == {c \in RxChans : res[c].rc # ReadLen}
           n == r.buf
<1>1. RxTyped /\ LastPacket /\ PacketsInPlace BY DEF RxIInv
<1>2. /\ b \in RxBuffer /\ rx_buffers = [c \in RxChans |-> b] /\ ts \in Int
      /\ tick \in Int /\ prev_ts \in Nat /\ goodFrom \in Int
      /\ rxStarted \in BOOLEAN /\ exited \in BOOLEAN
  BY <1>1, Zenon DEF RxTyped
<1>3. 0 \in RxChans /\ BufLen \in Nat \ {0} /\ ReadLen \in Nat BY RxConstants
<1>4. /\ Rx!avail_smpls(rx_buffers[0], ts) >= ReadLen /\ rxpc' = "idle"
      /\ rx_buffers' = [c \in RxChans |-> IF \E d \in bad : d < c THEN rx_buffers[c]
                                          ELSE res[c].buf]
      /\ readTimestamp' = IF bad = {} THEN ts + ReadLen ELSE ts
      /\ UNCHANGED <<rxStarted, exited, prev_ts, tick, written, goodFrom>>
  BY DEF Rx!ReadDone
<1>5. Rx!avail_smpls(b, ts) >= ReadLen BY <1>4 DEF Ring
<1>6. \A c \in RxChans : rx_buffers[c] = b
  <2> HIDE DEF b
  <2> QED BY <1>2
<1>7. \A c \in RxChans : res[c] = r BY <1>6
<1> HIDE DEF b, r, res
<1>8. /\ ts >= b.time_start /\ ts + ReadLen <= b.time_end /\ r.rc = ReadLen
      /\ n = [b EXCEPT !.data_start = (Rx!Place(b, ts) + ReadLen) % BufLen,
                       !.time_start = ts + ReadLen]
  <2> DEFINE now_ == readTimestamp
  <2>1. b \in RxBuffer /\ now_ \in Int /\ Rx!avail_smpls(b, now_) >= ReadLen
        /\ r = Rx!read(b, ReadLen, now_)
    BY <1>2, <1>5 DEF r
  <2> HIDE DEF now_, n
  <2>2. /\ now_ >= b.time_start /\ now_ + ReadLen <= b.time_end /\ r.rc = ReadLen
        /\ r.buf = [b EXCEPT !.data_start = (Rx!Place(b, now_) + ReadLen) % BufLen,
                             !.time_start = now_ + ReadLen]
    BY <2>1, ReadTaken
  <2> QED BY <2>2 DEF now_, n
<1>9. bad = {} BY <1>7, <1>8
<1>10. rx_buffers' = [c \in RxChans |-> n] /\ readTimestamp' = ts + ReadLen
  <2>1. \A c \in RxChans : (IF \E d \in bad : d < c THEN rx_buffers[c] ELSE res[c].buf) = n
    BY <1>7, <1>9
  <2> HIDE DEF n, bad
  <2> QED BY <1>4, <1>9, <2>1
<1> HIDE DEF n, bad
<1>11. Ring' = n /\ rx_buffers' = [c \in RxChans |-> Ring'] BY <1>3, <1>10 DEF Ring
<1>12. Rx!Place(b, ts) \in Int BY <1>2, <1>3, PlaceDistance
<1> DEFINE start == (Rx!Place(b, ts) + ReadLen) % BufLen
<1>13. start \in 0 .. BufLen - 1
  <2>1. Rx!Place(b, ts) + ReadLen \in Int BY <1>3, <1>12
  <2> QED BY <1>3, <2>1, DivMod, Zenon
<1> HIDE DEF start
<1>14. /\ n.data = b.data /\ n.data_start = start /\ n.time_start = ts + ReadLen
       /\ n.time_end = b.time_end /\ n \in RxBuffer
  <2>1. n = [b EXCEPT !.data_start = start, !.time_start = ts + ReadLen]
    BY <1>8 DEF start
  <2>2. ts + ReadLen \in Int BY <1>2, <1>3
  <2> QED BY <1>2, <1>13, <2>1, <2>2 DEF RxBuffer
<1>15. b.time_end \in Nat BY <1>2 DEF RxBuffer
<1>16. RxTyped'
  <2>1. readTimestamp' \in Int BY <1>2, <1>3, <1>10
  <2> QED BY <1>2, <1>4, <1>11, <1>14, <2>1 DEF RxTyped
<1>17. LastPacket'
  <2>1. /\ Ring'.time_start <= Ring'.time_end /\ Ring'.time_end = b.time_end
    BY <1>8, <1>11, <1>14
  <2>2. /\ b.time_end = prev_ts + RxSpp \/ (b.time_end = 0 /\ prev_ts = 0)
        /\ \A u \in written : u \in Int /\ u < b.time_end
    BY <1>1 DEF LastPacket, b
  <2> QED BY <1>4, <2>1, <2>2, RxConstants DEF LastPacket
<1>18. \A u \in Int : Rx!Place(n, u) = Rx!Place(b, u)
  <2>1. n.data_start = (Rx!Place(b, ts) + ReadLen) % BufLen /\ n.time_start = ts + ReadLen
    BY <1>14 DEF start
  <2> QED BY <1>2, <2>1, PlaceMoved
<1>19. PacketsInPlace'
  <2> DEFINE kept == written \cup (prev_ts .. b.time_end - 1)
  <2>1. \A u \in kept : u \in Int BY <1>1, <1>2, <1>15 DEF LastPacket
  <2>2. \A u \in kept : u >= goodFrom /\ u >= b.time_end - BufLen
                        => b.data[Rx!Place(b, u)] = u
    BY <1>1 DEF PacketsInPlace, b
  <2>3. \A u : Rx!Place(Ring, u)' = Rx!Place(n, u) BY <1>11 DEF Rx!Place
  <2>4. (written \cup (prev_ts .. Ring.time_end - 1))' = kept
        /\ Ring'.time_end - BufLen = b.time_end - BufLen /\ Ring'.data = b.data
    BY <1>4, <1>11, <1>14
  <2> HIDE DEF kept
  <2>5. \A u \in kept : u >= goodFrom /\ u >= b.time_end - BufLen
                        => Ring'.data[Rx!Place(Ring, u)'] = u
    <3> SUFFICES ASSUME NEW u \in kept, u >= goodFrom, u >= b.time_end - BufLen
                 PROVE  Ring'.data[Rx!Place(Ring, u)'] = u
      OBVIOUS
    <3>1. Rx!Place(Ring, u)' = Rx!Place(b, u) BY <1>18, <2>1, <2>3, Zenon
    <3>2. b.data[Rx!Place(b, u)] = u BY <2>2
    <3> QED BY <2>4, <3>1, <3>2
  <2>6. goodFrom' = goodFrom BY <1>4
  <2> QED BY <2>4, <2>5, <2>6 DEF PacketsInPlace
<1> QED BY <1>11, <1>14, <1>16, <1>17, <1>19 DEF RxIInv, b

\* All other steps leave the ring as it is.
LEMMA RxFrame ==
    ASSUME RxIInv, UNCHANGED <<rx_buffers, prev_ts, written, goodFrom>>,
           tick' \in Int, readTimestamp' \in Int, rxStarted' \in BOOLEAN,
           exited' \in BOOLEAN, rxpc' \in {"idle", "recv"}
    PROVE  RxIInv' /\ Ring' = Ring
<1>1. RxTyped /\ LastPacket /\ PacketsInPlace BY DEF RxIInv
<1>2. Ring' = Ring BY DEF Ring
<1>3. /\ rx_buffers = [c \in RxChans |-> Ring] /\ Ring \in RxBuffer
      /\ prev_ts \in Nat /\ goodFrom \in Int
  BY <1>1 DEF RxTyped
<1>4. RxTyped'
  <2>1. rx_buffers' = [c \in RxChans |-> Ring'] /\ Ring' \in RxBuffer
        /\ prev_ts' \in Nat /\ goodFrom' \in Int
    BY <1>2, <1>3, Zenon
  <2> QED BY <2>1, Zenon DEF RxTyped
<1>5. LastPacket' BY <1>1, <1>2 DEF LastPacket
<1>6. PacketsInPlace'
  <2>1. \A u : Rx!Place(Ring, u)' = Rx!Place(Ring, u) BY <1>2 DEF Rx!Place
  <2> QED BY <1>1, <1>2, <2>1 DEF PacketsInPlace
<1> QED BY <1>2, <1>4, <1>5, <1>6 DEF RxIInv

\* A restart takes its time from the first packets, or none.
LEMMA RestartTyped ==
    ASSUME tick \in Int, NEW r, Rx!restart(r)
    PROVE  r.ts \in Int /\ r.ok \in BOOLEAN /\ tick' \in Int
<1> DEFINE base == tick + StartDelay
<1>1. RxSpp \in Nat /\ FlushPkts \in Nat /\ StartDelay \in Nat /\ TsOffset \in Nat
  <2>1. RxSpp \in 1 .. BufLen - 1 /\ BufLen \in Nat \ {0} BY RxConstants
  <2> QED BY <2>1, RxConstants
<1>2. base \in Int BY <1>1
<1>3. r \in Rx!Flushed(base) /\ tick' = IF r.ts = 0 THEN base ELSE r.ts + RxSpp
  BY DEF Rx!restart
<1> HIDE DEF base
<1>4. r.ts \in Int /\ r.ok \in BOOLEAN
  <2>1. CASE \E k \in 0 .. FlushPkts : r = [ok |-> TRUE, ts |-> base + k * RxSpp]
    <3>1. PICK k \in 0 .. FlushPkts : r = [ok |-> TRUE, ts |-> base + k * RxSpp] BY <2>1
    <3>2. k * RxSpp \in Int BY <1>1
    <3> DEFINE m == k * RxSpp
    <3>3. r = [ok |-> TRUE, ts |-> base + m] /\ m \in Int BY <3>1, <3>2
    <3> HIDE DEF m
    <3> QED BY <1>2, <3>3
  <2>2. CASE \E x \in {0, base} : r = [ok |-> FALSE, ts |-> x]
    BY <1>2, <2>2
  <2> QED BY <1>3, <2>1, <2>2 DEF Rx!Flushed
<1> QED BY <1>1, <1>2, <1>3, <1>4

LEMMA RxStep ==
    ASSUME RxIInv, [Rx!Next]_rxVars
    PROVE  RxIInv' /\ (Ring'.time_end # Ring.time_end => tick' - Ring'.time_end \in {-1, 0, 1})
<1>1. /\ tick \in Int /\ readTimestamp \in Int /\ rxStarted \in BOOLEAN
      /\ exited \in BOOLEAN /\ rxpc \in {"idle", "recv"}
  BY Zenon DEF RxIInv, RxTyped
<1>2. CASE Rx!RecvPacket BY <1>2, RxPacketStep
<1>3. CASE Rx!ReadDone BY <1>3, RxReadStep
<1> DEFINE Ends == tick' \in Int /\ readTimestamp' \in Int /\ rxStarted' \in BOOLEAN
                   /\ exited' \in BOOLEAN /\ rxpc' \in {"idle", "recv"}
                   /\ UNCHANGED <<rx_buffers, prev_ts, written, goodFrom>>
<1>4. CASE Ends BY <1>4, RxFrame
<1>5. CASE Rx!Start
  <2>1. PICK r \in Rx!Flushed(tick + StartDelay) :
           /\ Rx!restart(r) /\ rxStarted' = r.ok
           /\ readTimestamp' = IF r.ok THEN r.ts + TsOffset ELSE readTimestamp
    BY <1>5 DEF Rx!Start
  <2>2. r.ts \in Int /\ r.ok \in BOOLEAN /\ tick' \in Int BY <1>1, <2>1, RestartTyped
  <2>3. readTimestamp' \in Int
    <3>1. r.ts + TsOffset \in Int BY <2>2, RxConstants
    <3> QED BY <1>1, <2>1, <3>1
  <2>4. rxStarted' \in BOOLEAN BY <2>1, <2>2
  <2>5. UNCHANGED <<exited, prev_ts, rx_buffers, rxpc, written, goodFrom>>
    BY <1>5 DEF Rx!Start
  <2> QED BY <1>1, <1>4, <2>2, <2>3, <2>4, <2>5
<1>6. CASE Rx!RecvBackwards
  <2>1. PICK r \in Rx!Flushed(tick + StartDelay) : Rx!restart(r)
    BY <1>6 DEF Rx!RecvBackwards
  <2>2. tick' \in Int BY <1>1, <2>1, RestartTyped
  <2>3. UNCHANGED <<rxStarted, exited, prev_ts, rx_buffers, rxpc, readTimestamp, written,
                    goodFrom>>
    BY <1>6 DEF Rx!RecvBackwards
  <2> QED BY <1>1, <1>4, <2>2, <2>3
<1>7. CASE Rx!RecvError
  <2>1. tick' \in Int
    <3>1. RxSpp \in 1 .. BufLen - 1 /\ BufLen \in Nat \ {0} BY RxConstants
    <3>2. tick + RxSpp \in Int BY <1>1, <3>1
    <3> QED BY <1>1, <1>7, <3>2 DEF Rx!RecvError
  <2>2. /\ rxpc' \in {"recv", "idle"}
        /\ UNCHANGED <<rxStarted, exited, prev_ts, rx_buffers, readTimestamp, written, goodFrom>>
    BY <1>7 DEF Rx!RecvError
  <2> QED BY <1>1, <1>4, <2>1, <2>2
<1>8. CASE Rx!ClockSetBack
  <2>1. PICK d \in ClockSteps : tick' = tick - d BY <1>8 DEF Rx!ClockSetBack
  <2>2. d \in Nat BY DevicesAssumption DEF Rx!UhdAssumption
  <2>3. tick' \in Int BY <1>1, <2>1, <2>2
  <2> QED BY <1>1, <1>4, <1>8, <2>3 DEF Rx!ClockSetBack
<1>9. CASE Rx!Stop \/ Rx!ReadSamples \/ Rx!RecvNoTimestamp \/ UNCHANGED rxVars
  BY <1>1, <1>4, <1>9 DEF Rx!Stop, Rx!ReadSamples, Rx!RecvNoTimestamp, rxVars
<1> QED BY <1>2, <1>3, <1>5, <1>6, <1>7, <1>8, <1>9 DEF Rx!Next, Rx!RxStep

\* What the property says of a state.
LEMMA RxReads == RxIInv => Rx!TypeOK /\ Rx!ChannelsInStep /\ Rx!ReadsItsTimesIfPlaced
<1> SUFFICES ASSUME RxIInv PROVE Rx!TypeOK /\ Rx!ChannelsInStep /\ Rx!ReadsItsTimesIfPlaced
  OBVIOUS
<1>1. RxTyped /\ LastPacket /\ PacketsInPlace BY DEF RxIInv
<1>2. /\ Ring \in RxBuffer /\ rx_buffers = [c \in RxChans |-> Ring] /\ 0 \in RxChans
      /\ readTimestamp \in Int /\ BufLen \in Nat \ {0} /\ ReadLen \in Nat
  BY <1>1, RxConstants DEF RxTyped
<1>3. \A c \in RxChans : rx_buffers[c] = Ring
  <2> HIDE DEF Ring
  <2> QED BY <1>2
<1>4. Rx!ChannelsInStep BY <1>3 DEF Rx!ChannelsInStep, Ring
<1>5. Rx!TypeOK
  <2>1. {rxStarted, exited} \subseteq BOOLEAN /\ rxpc \in {"idle", "recv"}
    BY <1>1, Zenon DEF RxTyped
  <2>2. Ring.data_start \in 0 .. BufLen - 1 /\ Ring.data_end \in 0 .. BufLen - 1
    BY <1>2 DEF RxBuffer
  <2> HIDE DEF Ring
  <2> QED BY <1>3, <2>1, <2>2, Zenon DEF Rx!TypeOK
<1>6. ASSUME Rx!Ready, NEW c \in RxChans, NEW i \in 1 .. ReadLen, NEW t,
             t = readTimestamp + i - 1, Rx!InRing(t), t >= goodFrom
      PROVE  Rx!Returned(c)[i] = t
  <2>1. Rx!avail_smpls(Ring, readTimestamp) >= ReadLen BY <1>6 DEF Rx!Ready, Ring
  <2>2. Rx!Returned(c) = Rx!read(Ring, ReadLen, readTimestamp).out
    BY <1>3 DEF Rx!Returned
  <2>3. t \in written /\ t >= Ring.time_end - BufLen BY <1>6 DEF Rx!InRing, Ring
  <2>4. Ring.data[Rx!Place(Ring, t)] = t BY <1>1, <1>6, <2>3 DEF PacketsInPlace
  <2>5. Rx!read(Ring, ReadLen, readTimestamp).out[i] = Ring.data[Rx!Place(Ring, t)]
    BY <1>2, <1>6, <2>1, ReadReturns
  <2> QED BY <2>2, <2>4, <2>5, Zenon
<1>7. Rx!ReadsItsTimesIfPlaced BY <1>6, Zenon DEF Rx!ReadsItsTimesIfPlaced
<1> QED BY <1>4, <1>5, <1>7

LEMMA RxDrift ==
    ASSUME RxIInv, RxIInv',
           Ring'.time_end # Ring.time_end => tick' - Ring'.time_end \in {-1, 0, 1}
    PROVE  Rx!NoDrift
<1>1. rx_buffers = [c \in RxChans |-> Ring] /\ rx_buffers' = [c \in RxChans |-> Ring']
  BY DEF RxIInv, RxTyped
<1>2. \A c \in RxChans : rx_buffers[c] = Ring /\ rx_buffers'[c] = Ring'
  <2> HIDE DEF Ring
  <2> QED BY <1>1
<1> QED BY <1>2 DEF Rx!NoDrift
-----------------------------------------------------------------------------
(* Side by side *)

DevicesIInv ==
    LmsIInv /\ PowerIInv /\ TuneIInv /\ ReadIInv /\ Usrp!PacketsAreBlock /\ RxIInv

\* A step of one part is a step or a stutter of each.
LEMMA DevicesStep == DevicesIInv /\ [MCNext]_MCvars => DevicesIInv'
<1> SUFFICES ASSUME DevicesIInv, [MCNext]_MCvars PROVE DevicesIInv' OBVIOUS
<1>1. [Lms!Next]_lmsVars /\ [Power!Next]_powerVars /\ [Tune!Next]_tuneVars
      /\ [UsrpRx!Next]_usrpRxVars /\ [Usrp!Next]_usrpVars /\ [Rx!Next]_rxVars
  BY DEF MCNext, Others, MCvars
<1> QED BY <1>1, LmsStep, PowerStep, TuneStep, ReadStep, WriteStep, RxStep
  DEF DevicesIInv

LEMMA DevicesInvariant == MCSpec => []DevicesIInv
<1>1. MCInit => DevicesIInv
  BY LmsInit, PowerInit, TuneInit, ReadInit, WriteInit, RxInit
  DEF MCInit, DevicesIInv
<1> QED BY <1>1, DevicesStep, PTL DEF MCSpec

\* The LimeSDR device: streams run exactly while it is started, whichever calls
\* of start() failed before; it is closed as often as it was opened; and with
\* one channel a read returns the samples of its time.
THEOREM DvLmsInv == MCSpec => []LmsInv
<1>1. LmsIInv => LmsInv
  BY DEF LmsIInv, LmsInv, Handle, Streams, InTime, Lms!ClosedOnce
<1> QED BY <1>1, DevicesInvariant, PTL DEF DevicesIInv

\* Every channel is tuned to the frequency and set to the power that were
\* answered, however the commands of the channels interleave.
THEOREM DvSetAsAnswered == MCSpec => []SetAsAnswered
<1>1. DevicesIInv => SetAsAnswered
  BY PowerIsSet, TunedOnFrequency DEF DevicesIInv, SetAsAnswered
<1> QED BY <1>1, DevicesInvariant, PTL

\* The USRP1: unless an answer came before its ping was noted, the offset is
\* the difference of the clocks, and every read stays in the ring and returns
\* the samples of its times, whatever was lost; the packets of every write
\* carry its samples once.
THEOREM DvUsrpInv == MCSpec => []UsrpInv
<1>1. DevicesIInv => UsrpInv
  BY ReadsRight DEF DevicesIInv, UsrpInv
<1> QED BY <1>1, DevicesInvariant, PTL

\* The UHD device: the buffers of all channels are in step; a read returns the
\* samples of its times, but for those in the buffer when a write found
\* data_start = 0, whatever recv() lost, failed or reported; and rounded packet
\* times do not add up, however many packets come.
THEOREM DvUhdReadsInTime == MCSpec => UhdReadsInTime
<1>1. DevicesIInv => Rx!TypeOK /\ Rx!ChannelsInStep /\ Rx!ReadsItsTimesIfPlaced
  BY RxReads DEF DevicesIInv
<1>2. DevicesIInv /\ DevicesIInv' /\ [MCNext]_MCvars => Rx!NoDrift
  <2> SUFFICES ASSUME DevicesIInv, DevicesIInv', [MCNext]_MCvars PROVE Rx!NoDrift
    OBVIOUS
  <2>1. [Rx!Next]_rxVars BY DEF MCNext, Others, MCvars
  <2>2. RxIInv /\ RxIInv' BY DEF DevicesIInv
  <2> QED BY <2>1, <2>2, RxStep, RxDrift
<1> QED BY <1>1, <1>2, DevicesInvariant, PTL DEF MCSpec, UhdReadsInTime
=============================================================================
