# A TLA+ development for osmo-trx

osmo-trx is the software-defined-radio transceiver of an Osmocom GSM base
station. A BTS process talks to it over UDP: one control and one data socket per
radio channel (ARFCN) and one clock socket. The transceiver turns data packets
into modulated bursts at exact times on a radio device, and received samples
into soft bits.

This directory models the transceiver's control flow, its threads, the data
structures they share, the paths of the samples to and from the devices, and the
configuration and start of the process. Of the signal processing it models which
sample meets which coefficient, where results are put and what is read and
written; amplitudes are left out (section 7).

## 1. The system

### Threads and shared state

| Thread | Code | What it does |
|---|---|---|
| main | `osmo-trx.cpp` | configures, creates device, radio interface and transceiver; waits for signals; destroys them |
| CtrlService, per channel | `driveControl` | reads a command, carries it out, answers it |
| TxUpper, per channel | `driveTxPriorityQueue` | reads a burst packet, modulates it, queues it by time |
| TxLower | `driveTxFIFO`, `pushRadioVector` | for each timeslot that is due, sends one burst or filler per channel |
| RxLower | `driveReceiveRadio` | reads samples, advances the radio clock, forms bursts, sends clock indications |
| RxUpper, per channel | `driveReceiveFIFO` | takes a received burst, detects and demodulates it |
| AlignRadio | `radioInterface.cpp` | USRP1 only: keeps the two sides of the device aligned |

There are locks around `start()`/`stop()`, each queue operation and the radio
clock. The transmit deadline, the latency, the clock-indication state, the slot
configuration, the handover table and the underrun flag are shared without one.

### Components, their state and operations, and what makes them correct

| Component | State | Operations | Correct if |
|---|---|---|---|
| GSM time | frame and slot number | increment, sum, cyclic comparison | comparison agrees with the order of events while they are close |
| Downlink path | priority queues, filler table, moduli, combinations, vectors in flight | queue, drop stale, take current, send, SETSLOT, power cycle | every vector has exactly one owner until it is deleted; the right burst goes out; queues drain |
| Transmit timing | clock, deadline, latency, last indication | push when due, adapt latency, indicate | the deadline neither runs away nor stalls; indications go forward |
| Life cycle | threads, `mLock`, `mOn`, device state | init, start, stop, destructor, signals | start and stop exclude each other; threads run exactly while the device streams; everything ends |
| Control interface | per-channel settings, members shared by the channels | 14 commands | each command is answered; channels do not disturb each other |
| Sample ring | two indices, a counter, memory | write, zero, read segment, write segment, read, reset | it is a FIFO; the filter history is intact |
| Uplink path | rings, burst pattern, receive FIFOs, noise average | pull, form, drop, detect, send | bursts stay in their slots and in order; FIFOs drain; the noise is recent |
| Radio interfaces | rings, resampler and channelizer histories, timestamps, channel map | init, push, pull, tune, close | segments have the time of their samples; no ring overflows; block borders do not show |
| UHD device | sample buffer per channel, alignment counter, event thread, frequencies, gains | open, start, stop, restart, read, write, tune | a read returns the samples of its time; channels stay in step; bursts are bracketed |
| LimeSDR device | streams, handle, time | open, start, stop, flush, read | streams follow `started`; time and samples agree |
| USRP1 device | ring, clock extension, ping, packets | start, stop, read, ping, write | the offset is the difference of the clocks; packets are the block |
| Inter-thread queues | list with node pool, mutex, conditions | read with and without timeout, write, wait, clear | they are queues; no wakeup is lost |
| Configuration | `trx_ctx`, VTY node | options, commands, validate, write | what runs is valid and is what is written |
| Start and stop of the process | device, interface, transceiver | make, open, init, delete | users go before what they use; rates and channels agree |
| Signal processing | vectors, filter tables | convolve, delay, modulate, detect, resample, split, combine | nothing outside of the memory; results of blocks are those of the stream; symbols in their places |

Samples go up from the device (`readSamples`) through `pullBuffer`, the rings and
the receive FIFOs to RxUpper, and down from the priority queues through
`pushRadioVector`, the rings and `pushBuffer` to `writeSamples`. The control
threads reach the device past them for tuning and gains. Everything is made by
`trx_start` from the configuration and deleted in reverse by `trx_stop`.

### What is hard here

* TxLower takes two decisions about a queue under two separate locks, while
  TxUpper writes to it.
* Burst vectors pass between queue, filler table and radio as raw pointers.
* Frame numbers wrap around every 3.5 hours and are compared cyclically: a time
  stamp that grows old starts to compare the wrong way.
* Every channel's control thread, and the destructor, may start and stop the one
  radio; workers are cancelled and joined inside a lock.
* Answers are datagrams, and the BTS repeats commands.
* Bursts are not multiples of segments, so the rings are used at every offset.
* Device time, time of the samples and time of the packets are three clocks. They
  are tied together by counters that errors, restarts and wraps can put apart.
* Channels share oscillators, gains and filter banks.
* Filters work on blocks and carry a history from one to the next.

`PROJECT.json` lists these as hazards, each at its line, with the properties that
cover it.

## 2. Modules

| Module | Models | Notes |
|---|---|---|
| `GsmTime` | `GSM::Time` | modulus and slots per frame are constants, so that TLC can wrap them |
| `GsmTimeProofs` | theorems about `GsmTime`: the comparison, and steps of a time | the other modules' proofs about times extend it |
| `TxPath` | queues, `pushRadioVector`, filler table, SETSLOT, power cycle | one action per lock region; extends `GsmTime` |
| `MCTxPath` | instances of `TxPath` | |
| `TxPathProofs` | theorems about `TxPath` | |
| `TxTiming` | `driveTxFIFO`, radio clock, clock indications | `pushRadioVector` is one step; extends `GsmTime` |
| `TxTimingProofs` | theorems about `TxTiming` | |
| `MCTxTiming` | instances of `TxTiming` | |
| `Lifecycle` | init, start, stop, destructor, main, signals | |
| `LifecycleProofs` | theorems about `Lifecycle`, and about `TrxConfig` and `TrxStart` as `MCStart` instantiates them | |
| `SampleFifo` | the abstract FIFO | |
| `RadioBuffer` | `RadioBuffer` | implements `SampleFifo` (`FifoSpec`) |
| `MCRadioBuffer` | instances of `RadioBuffer` | |
| `Control` | `driveControl`; `expectedCorrType`, `setModulus` as functions | |
| `ControlProofs` | theorem about `Control` | |
| `MCControl` | command sets | |
| `Uplink` | `driveReceiveRadio`, `pullBuffer`, receive FIFOs, `pullRadioVector`, noise average | extends `GsmTime` |
| `UplinkProofs` | theorems about `Uplink`, and about `Detect`, `SigVector` and the modules that `MCSamples` instantiates | |
| `RadioSend` | `init`, `close`, `driveTransmitRadio`, `pushBuffer` of the three interfaces | |
| `RadioMulti` | channel map, tuning and resampler history of the multi-carrier interface | |
| `TxPower` | SETPOWER, ADJPOWER, `setPowerAttenuation`, gains of the devices | |
| `UhdReceive` | `smpl_buf`; `uhd_device`: start, stop, restart, flush, `readSamples` | |
| `UhdTransmit` | `uhd_device`: `writeSamples`, event thread | |
| `DevicesProofs` | theorems about `UhdTransmit`, and about the modules that `MCDevices` instantiates | |
| `UhdTune` | `select_freq`, `set_freq` with two control threads | |
| `LmsDevice` | the LimeSDR device | |
| `UsrpRead` | USRP1: `readSamples`, `updateAlignment` | |
| `UsrpDevice` | USRP1: open, start, stop, `writeSamples` | |
| `PtrQueue` | the abstract queue of pointers | |
| `PointerFifo` | `PointerFIFO` with its node pool | implements `PtrQueue` (`QueueSpec`) |
| `QueuesProofs` | theorems about `PointerFifo` and `RadioBuffer`, their refinements among them, and about the queues and the map, through `MCQueues` | |
| `InterthreadQueue` | the three inter-thread queues, mutex and conditions | the list inside is `PointerFifo`'s |
| `InterthreadMap` | `InterthreadMap` | |
| `TrxConfig` | options, VTY commands, validation, `config_write_trx` | |
| `TrxStart` | `trx_start`, `trx_stop`, what the devices' `make` and `open` refuse | |
| `SigVector` | `convolve`, `delayVector`, `energyDetect`, `computePeakRatio` | |
| `Modulator` | fillers, GMSK and 8-PSK modulators, bursts of the core | |
| `Detect` | `detectAnyBurst`, `demodAnyBurst` | |
| `Resampler` | `Resampler`, `updateHistory`, `pullBuffer` of the resampling interface | |
| `Filterbank` | channelizer and synthesis bank | |
| `Convolve`, `Convert` | convolution and conversion kernels with their plain versions, and the SSE instructions they are made of | |
| `MCQueues`, `MCDevices`, `MCStart`, `MCSamples` | instances of several modules in one model | extend one of them (`MCSamples`: two) and instantiate the others; `MCStart` instantiates both |

The last four put small models side by side, so that one run checks all of a
subject. Their variable `part` is chosen once and names the module whose steps the
behaviour takes; the variables of the others keep the values of one initial
state. The state space is the disjoint union of those of the parts; nothing
is checked about how the parts interact. The constants of the parts are constants
of these modules, so what is proved of them holds for all values; the `.cfg` files
give those of the runs.

Variables and actions carry the names of the code where TLA+ allows it. The
places where one step of the model stands for several of the code:

* `TxPath`. `heap[v]` is the time of the `radioVector` that carries the vector
  `v`, or `NULL` while `v` is free. The times of kept fillers are a history the
  code does not store. `DumpStale`, `NoStale`, `TakeCurrent` and `NoCurrent` are
  the lock regions of the two queue calls; the reads of filler, modulus and
  combination are part of `NoStale` (they are read in the opposite order to that
  in which SETSLOT writes them, and `SetSlot`/`SetModulus` are separate steps, so
  every mixed result is there). TxLower is cancelled at `radioClock->wait()` or
  `pthread_testcancel()`, both outside of `pushRadioVector`. The log lines inside
  it are no cancellation points: `Log::~Log` disables cancellation while it writes
  (`Logger.cpp:45`). A cancellation inside the device driver's own system calls is
  not modelled.
* `TxPath!Top`. `std::priority_queue` with an order that is not total may have
  any element on top; `Top` is any element then.
* `TxTiming`. `lag` and `age` count slots without wrapping: what the cyclic
  comparisons are compared with. `running` is "the threads have been launched",
  which precedes `mOn`. The underrun flag is read and cleared by TxLower and set
  by RxLower without a lock; a lost or a repeated underrun is the same as one
  that was not, or was once more, reported. RxLower reads the deadline three
  times for one indication, to decide (`DriveClock`), for the datagram (`SendClock`)
  and to note it (`NoteClock`), and resets the flag in between (`TakeForced`);
  TxLower and SetOn come between any two. The write of the datagram is a
  cancellation point.
* `Lifecycle`. `Launch` starts all workers in one step: they share nothing that
  the properties tell apart before they all run.
* `RadioBuffer`. A segment is filled, or consumed, in the step that returns it,
  as all callers do. A sample is one symbol, for a pair of floats.
* `Control`. A command is a record. Its BTS, external, has one datagram in flight
  per channel: `pending` is the command it waits for, `told` what the answers have
  said of each setting. `rsp` is the response that the thread has printed and not
  sent. `others` has the values that other threads gave a setting after the
  channel's own thread last wrote it: `told` is the BTS's view, `others` what can
  excuse that it is wrong. A write of another channel counts for a member of
  `Transceiver` only, and for `mRxFreq` and `mTxFreq` only between the two
  statements of the tuning. Inside a row of `mHandover`, the writes of two threads
  commute, so a row is cleared at once.

* `Uplink`. A burst is its time and the place of its first sample in the stream of
  the session, which is how `InItsSlot` can compare the two. What detection finds
  is a choice; `Detect` has the detectors. A short slot has
  `SlotSymbols` symbols (156 in the code, 4 in the runs) and one slot of four is a
  symbol longer, so that the quarter symbols still add up.
* `RadioSend`. Rings are counters here, in the code's real sizes; their contents
  are `RadioBuffer`'s. The answer of `writeSamples` is a choice for the types in
  `Failing`.
* `UhdReceive`. A sample is the time at which it was put into the buffer.
  `recv()`, external, may lose packets, time out, fail, stamp a packet one tick
  early, and see the clock set back by a step of `ClockSteps`.
* `UsrpRead`. The device, external, keeps packets in order and loses some. A ping
  is sent and noted in two steps, as `updateAlignment` does without a lock.
* `InterthreadQueue`. A call is a step up to its wait and one after each wakeup;
  wakeups may be spurious, and timed reads may time out at any moment.
* `TrxConfig`, `TrxStart`. A command, or a call of the start, is a step. The answers
  of libraries and of the operating system are choices.
* `SigVector`, `Modulator`, `Detect`, `Resampler`, `Filterbank`, `Convolve`,
  `Convert` are sequential. A sample is its place, a sum the set of what it sums
  (`Convolve`: integers, one nonzero sample and tap at a time, which suffices as
  kernels are linear). Their actions choose the inputs of a call, or read the
  next block of a stream, and their invariants compare the result with a
  definition over the whole stream.

Definitions named after another one with a suffix (`StoreRestarts`,
`LockStartUnlocked`) are mutants: the same operation with a plausible bug. They
are not part of any specification; `PROJECT.json` pairs each with the property
that fails when it takes the operation's place.

## 3. Runs

| Run | Expected | What it checks |
|---|---|---|
| `tx_queue` | pass | memory ownership, what goes on air, the stale loop; two channels, one of which retransmits |
| `tx_drain` | pass | every queued burst leaves its queue; two timeslots |
| `tx_timing` | pass | deadline, clock and indications over wraps and restarts |
| `lifecycle` | pass | start/stop/destructor exclusion, cleanliness, termination |
| `lifecycle_align` | violation | the alignment thread of the USRP1 is started twice (section 4) |
| `radio_buffer` | pass | the ring implements `SampleFifo` in both directions; filter history |
| `control` | pass | settings are what the BTS was told, or what another thread made of them since; each command gets its answer in spite of loss |
| `uplink` | pass | bursts in their slots and in order, rings in step, FIFOs drain, the noise is recent; two channels, overflow, a restart with bursts left in the FIFO |
| `queues` | pass | `PointerFIFO` implements the queue; no wakeup is lost in any of the three queue classes; the map's objects have one owner |
| `devices` | pass | the three devices and the power: samples are those of their times, bursts are bracketed, tuning and power are what was answered |
| `start` | pass | channel list, write and read back, validation, fillers, test modes; every device, rate and channel count through the start, with a failure at each step |
| `samples` | pass | detectors, vector routines, modulators, kernels, resampler, filter banks, timestamps and rings of the three interfaces |

Every property of a run has one mutant: an operation of the code with a plausible
bug, under which that run finds the property violated. An invariant that is a
conjunction has a comment that states its parts, which are definitions of their own
in the module that models the component. TLC reports the conjunction; evaluating the
parts in the last state of the trace tells which of them failed.

| Run | Property | Parts |
|---|---|---|
| `tx_queue` | `TypeOK`, `OnAir`, `StaleLoopDrains` | |
| | `Ownership` | `NoDangling`, `NoLeak`, `OneOwner`, `FillerRows` |
| `tx_drain` | `QueueDrains` | |
| `tx_timing` | `IndicationForward`, `DeadlineAdvances`, `ClockIndicated` | |
| | `DeadlineInv` | `TypeOK`, `LeadBounded`, `DueIsExact` |
| `lifecycle` | `OneAtATime`, `CommandsComplete`, `ShutdownCompletes` | |
| | `ThreadsFitDevice` | `TypeOK`, `AllOrNone`, `StreamingWhileUsed`, `OffMeansStopped` |
| `radio_buffer` | `HistoryIntact`, `FifoSpec` | |
| | `RingInv` | `TypeOK`, `RingConsistent` |
| `control` | `EveryCommandAnswered` | |
| | `SettingsInv` | `TypeOK`, `AsTold` |
| `uplink` | `FifoDrains`, `HandledInOrder` | |
| | `UplinkInv` | `TypeOK`, `InItsSlot`, `RingsInStep`, `NoiseIsRecent` |
| `queues` | `QueueSpec` | |
| | `ListInv` | `TypeOK`, `WellLinked`, `NodesOnce` (`PointerFifo`) |
| | `NoLostWakeup` | `TypeOK`, `NoLostWakeup` (`InterthreadQueue`), `NoLostWakeup` (`InterthreadMap`) |
| | `CallsReturn` | `ReadReturns`, `WaitReturns` (`InterthreadQueue`) |
| | `OwnedOnce` | `OneOwner`, `NothingLeaks` (`InterthreadMap`) |
| `devices` | `Resynced` (`UhdTransmit`) | |
| | `TransmitInv` | `TypeOK`, `BurstsBracketed` (`UhdTransmit`) |
| | `UhdReadsInTime` | `TypeOK`, `ChannelsInStep`, `ReadsItsTimesIfPlaced`, `NoDrift` (`UhdReceive`) |
| | `LmsInv` | `StreamsFollow`, `ClosedOnce`, `ReadsWhatIsAsked` (`LmsDevice`) |
| | `UsrpInv` | `OffsetRight`, `SamplesOfTheirTimes`, `InRing` (`UsrpRead`), `PacketsAreBlock` (`UsrpDevice`) |
| | `SetAsAnswered` | `OnFrequency` (`UhdTune`), `PowerAsReported`, `SetIsLevel` (`TxPower`) |
| `start` | `VtyKeepsModesApart` | |
| | `ConfigInv` | `ChansFilled`, `WrittenIsConfig`, `ActiveIsValid`, `FillerAskedFor` (`TrxConfig`) |
| | `StartInv` | `ChannelsAgree`, `RatesAgree`, `UsersGoFirst`, `DocumentedRun` (`TrxStart`) |
| `samples` | `DetectInv` | `FoundWithDelay`, `ClipWhenLost`, `RightDemodulator`, `SymbolsInPlace` (`Detect`) |
| | `VectorsFit` | `ReadsAllocated`, `DelayIsShift`, `FailsOnlyWhenShort` (`SigVector`), `OnlyPaddingOutside`, `FrameLength`, `TrainingAligned`, `FillerExists` (`Modulator`) |
| | `KernelsCompute` | `SameAsReference`, `WritesInside` (`Convolve`), `EveryPlaceClose`, `GroupsSaturate`, `EveryPlaceBack` (`Convert`) |
| | `BlocksAreStream` | `BlocksAreStream`, `InsideBlock` (`Resampler`), `ChannelizedStream`, `SynthesizedStream` (`Filterbank`), `CarriersWhereAsked`, `BlockOfEveryChannel` (`RadioMulti`) |
| | `SentInTime` | `SegmentsOnTime`, `NothingDropped`, `CloseForgets` (`RadioSend`) |

### Bounds

* `tx_queue`: hyperframe 8, one slot per frame, two vectors, bursts from one slot
  late to one slot ahead, three combinations: of modulus one, of modulus two and
  one that leaves the modulus alone. Two vectors are enough for one in the
  table, one in the queue or in flight, and for a late one that hides a current
  one. Vectors are interchangeable, so they are a symmetry set (no liveness in
  that run).
* `tx_drain`: hyperframe 6 with two slots, bursts now or a frame ahead, two
  combinations.
* `tx_timing`: hyperframe 14 with two slots; "a second" is one frame, the
  rate-limit interval one slot. `MaxLag` bounds how far TxLower may be starved
  and `MaxLatencyFN` how far underruns raise the latency; together with the
  second they stay below half of the hyperframe (`HalfAssumption`, which the proof
  needs too), as the code's values do: 216 and a few frames, against 1.3 million.
  `MaxAge` counts the age of the latency for one property that does not hold
  (section 4), and is 0.
* `lifecycle`: two channels, devices with and without alignment thread, device
  failures. All counters are finite by themselves. `lifecycle_align` has the
  device with the thread only.
* `radio_buffer`: three segments of two samples, history of one, runs of up to
  three samples: every offset, both ends, straddling one and two segments.
* `control`: two channels, one timeslot, a random filler; for every action of
  `driveControl` a command that takes it, and on both channels commands that write
  the same members (POWERON, HANDOVER and NOHANDOVER, RXTUNE, SETTSC), refused
  parameters among them, but for a SETSLOT that gets no answer (section 4). Three commands that set something, besides repeats and
  queries: one to be answered, one of the other thread in its way, and one more.
  One lost answer; two gains.
* `uplink`: FIFOs of two bursts; two pulls of four chunks of slots, over both
  sessions, which is enough for a FIFO to overflow in the first session and for
  its bursts to be handled in the second, which may begin in another slot; four
  idle timeslots that alternate with the others, a noise average of two.
* `queues`: four nodes, so that list and pool have two each; the proof covers every
  number. Three items, two readers, one waiter; two keys and two threads for the map.
* `devices`. UHD receive: a buffer of three packets that is a full turn after two
  reads, nine ticks, one step of the clock. UHD transmit: eight packets per
  alignment instead of thirty; the proof covers every number. Tuning: three
  frequencies, two inside the clock rate and one outside; two commands per channel.
  LimeSDR: three starts, so that a start follows a failed one and a good one;
  three reads after each. USRP1: a ring of twelve samples with packets of three and
  reads of two, so that neither divides the other; a device clock that wraps at 32;
  two lost packets; for writes, the lengths at which the number of packets changes
  and those the interfaces use, and a clock that wraps inside a block. Power: a
  range of gains with a step of two; levels at, inside and beyond its ends; three
  commands, one repetition each, two starts.
* `start`: three channels of which multi-ARFCN takes two; five options and
  commands, enough for a command that changes what an earlier one checked, a
  start, and commands after it. Then all devices and the real rates; five channels
  are one more than the branches.
* `samples`. Detection: the real sequences and windows; delays past the largest
  window. Vectors: inputs around twice the filter length, with no, some and enough
  headroom; four fractional filters of six taps (the proof covers every size).
  Modulators: the real sizes, and all delays the VTY accepts, 0 to 68. Kernels: one tap count for each and one for the generic code, checks
  of arguments at every limit; conversions of up to 33 samples, two groups of
  sixteen and one more. Resampler and filter banks: rates up to five, filters of up
  to three taps, three blocks, so that one block has a block on either side.
  Sending: real rates and segment sizes; 17 bursts are more than the period after
  which the remainder in a ring repeats. Writes fail for the resampling types only
  (section 4). Multi-ARFCN: four branches and up to five channels.

### Fairness

* `TxPath!FairSpec`: TxLower takes its steps. It is a real-time thread whose wait
  on the clock times out; that the clock advances is `TxTiming`'s subject.
* `TxTiming!FairSpec`: both lower threads take their steps (`RxClock` is those of
  RxLower after the samples were read), and the device delivers samples while it
  streams.
* `Lifecycle!FairSpec`: the scheduler runs every thread; a cancelled thread
  reaches its next cancellation point (all of them loop over blocking calls and
  `pthread_testcancel`); strong fairness for taking `mLock`, as a thread that
  blocks on a mutex that is released again and again gets it. No fairness for
  commands, signals or failures.
* `Control!FairSpec`: a control thread carries on with its command
  (`WF_<<pc, step>>`: each of its steps changes one of the two); the BTS repeats a
  command it has no answer to. No fairness for the loss of answers, which is
  bounded.

* `Uplink!FairSpec`: every RxUpper goes on while its FIFO has bursts; no fairness
  for the radio.
* `UhdTransmit!FairSpec`: TxLower goes on writing while the device is started; the
  alignment it owes is done in its own writes.
* `InterthreadQueue!Spec`: a writer that has the queue's lock gives its signal, and
  a thread that was woken runs; no fairness for reads, writes and timeouts, so a
  wait may be for ever where nothing is written.

Deadlock is checked for the modules of the threads that never stop: `TxPath`,
`TxTiming`, `Lifecycle` (which ends in an explicit final step), `RadioBuffer` and
`Control`. The others say `CHECK_DEADLOCK FALSE`: their bounds end a behaviour
(blocks of a stream, sessions, commands), or they are a call that returns; in
`queues` all threads may be asleep on an empty queue, which is what it is for.

## 4. Where code and documentation differ

`lifecycle_align` is a run of its own and a finding in `PROJECT.json`: the
alignment thread is started at every power-on, and `Thread::start` asserts that it
is not (USRP1).

The following were met while the modules were written. Each is a definition of its
module that does not hold, with a remark that says so; it is in no run. To see
the counterexample, give the definition to TLC with the constants in the last
column in place of those of the run, for the modules that `MCDevices`, `MCStart`,
`MCQueues` and `MCSamples` instantiate with the constants given there.

| Module and property | Code | What the code does | Constants |
|---|---|---|---|
| `TxPath!FillerOnlyIfNoBurst` | `Transceiver.cpp:406` | a late burst that TxUpper writes between lines 392 and 406 hides the current one: filler is sent (comment at 990) | as `tx_queue` |
| `TxTiming!UnderrunRaisesLatency` | `Transceiver.cpp:1007` | the rate limit of latency changes is cyclic: after half a hyperframe without one, an underrun does not raise it (1002) | `MaxAge = 24` |
| `TxTiming!IndicationIsClockValue` | `Transceiver.cpp:1041` | `FN() + 2` is not reduced (`src/README:17`) | as `tx_timing` |
| `Lifecycle!DestructorStopsThreads` | `Transceiver.cpp:138` | the destructor stops the radio before it stops the threads that can start it again (`code-architecture.adoc:76`) | as `lifecycle` |
| `Control!PerArfcn` | `Transceiver.cpp:749` | the handover table has no channel index (`src/README:3`) | as `control` |
| `Control!TunedAsTold` | `Transceiver.cpp:806` | a build that reads `mRxFreq` again tunes to what another channel's RXTUNE wrote there, and answers its own (`src/README:68`) | as `control` |
| `Control!SlotsAsTold` | `Transceiver.cpp:105` | `TransceiverState::init` runs after the channel's control thread was started, and a random filler sets the combinations that SETSLOT set (`src/README:82`) | as `control` |
| `Control!EveryCommandAnswered` | `Transceiver.cpp:842` | an early return skips the answer (`src/README:27`). HANDOVER with bad parameters is answered as NOHANDOVER (747) | SETSLOT 8 among `Commands` |
| `RadioSend!SegmentsOnTime` | `radioInterface.cpp:365` | the write timestamp advances by the result of the write (`radioDevice.h:93`) | `NORMAL` in `Failing` |
| `RadioMulti!HeadIsHistory` | `radioInterfaceMulti.cpp:289` | the history loop reads from a pointer that does not advance (269) | as `samples` |
| `TxPower!AdjustIsStep` | `Transceiver.cpp:797` | ADJPOWER adds to `mPower`, which starts at 0, and a repetition adds again (`src/README:59`) | as `devices` |
| `TxPower!EachArfcnItsPower` | `UHDDevice.cpp:455` | one gain for all channels of multi-ARFCN | as `devices` |
| `UhdReceive!ReadsItsTimes` | `UHDDevice.cpp:1509` | `smpl_buf::write` takes `data_start == 0` for "no data" and shifts the samples that are there | as `devices` |
| `UhdTransmit!OneEventThread` | `UHDDevice.cpp:820` | a start whose `restart()` fails leaves its event thread | as `devices` |
| `UhdTune!SuccessMeansTuned` | `UHDDevice.cpp:1090` | `select_freq` gives up on too large a spread, and the command succeeds (`src/README:36`) | as `devices` |
| `LmsDevice!SetupBeforeStart` | `LMSDevice.cpp:326` | a failed start leaves the first stream running; the next one sets streams up (320) | as `devices` |
| `LmsDevice!StopsForTrouble` | `LMSDevice.cpp:437` | only the queue of channel 0 is flushed; with two, the first read fails | as `devices` |
| `UsrpRead!OffsetAlwaysRight` | `USRPDevice.cpp:582` | the time of a ping is noted after it was sent, without a lock | as `devices` |
| `UsrpDevice!BufferFreed` | `USRPDevice.cpp:236` | `start()` allocates `data`, `stop()` deletes `currData` | as `devices` |
| `InterthreadQueue!WaitReturns` | `Interthread.h:375` | one signal for many waiters (370) | two `Waiters` |
| `InterthreadMap!BorrowedAlive` | `Interthread.h:420` | the object that `read()` returned may be deleted (384) | as `queues` |
| `TrxConfig!RachOrEgprs` | `trx_vty.c:299` | "egprs enable" after "test rach-delay" is accepted (205) | as `start` |
| `TrxConfig!EdgeFillerFits` | `trx_vty.c:296` | "egprs disable" leaves EDGE fillers, at one sample per symbol (`osmo-trx.cpp:419`) | as `start` |
| `TrxConfig!FillerWritten` | `trx_vty.c:403` | the filler is not written | as `start` |
| `TrxConfig!FileOverrides` | `trx_vty.c:198` | `-r` wins over the file (`osmo-trx.cpp:259`) | as `start` |
| `TrxStart!FailsInOrder` | `osmo-trx.cpp:511` | a device that `make()` refused is opened; a transceiver whose `init()` failed is deleted, and its destructor takes threads out of vectors that are still empty (`Transceiver.cpp:143`) | as `start` |
| `TrxStart!LaterVersionsAccepted` | `UHDDevice.cpp:577` | UHD 4.0 is refused for an E3XX (564) | `<<4, 0>>` in `Versions` |
| `Modulator!InsideBurst` | `sigProcLib.cpp:595` | with the largest delay the VTY accepts, the padding symbol is written past the burst | as `samples` |
| `Modulator!FillerExists` | `osmo-trx.cpp:344` | `-A` is not checked: at a larger delay there is no burst (`sigProcLib.cpp:807`), and `TransceiverState::init` uses it | 69 in `Delays` |

Smaller divergences of `src/README` from the code that were met on the way:
chantype 0 is FILL, not "off" (line 88); POWERON does not depend on
tuning (49-50), SETPOWER and ADJPOWER do not depend on power (56, 61), tuning is
allowed while running (69, 76); IND CLOCK is sent once per second and after
power-on (18).

## 5. Proofs

Every invariant of the passing runs, every action property but none of the
liveness properties, and both refinements are stated by a theorem. The runs show
them for one choice of the constants, the theorems for all that the named
assumptions allow.

`TxPathProofs` proves, for every number of channels, every set of vectors, every
filler-table size and every table of moduli that satisfies `TxAssumption`:

| Theorem | Statement |
|---|---|
| `Inductive` | `Spec => []IInv` |
| `TxTypeOK` | `Spec => []TypeOK` |
| `TxNoDangling` | `Spec => []NoDangling` |
| `TxNoLeak` | `Spec => []NoLeak` |
| `TxOneOwner` | `Spec => []OneOwner` |
| `TxFillerRows` | `Spec => []FillerRows` |
| `TxOwnership` | `Spec => []Ownership`, the last four together |
| `TxOnAir` | `Spec => []OnAir` |
| `TxStaleLoopDrains` | `Spec => StaleLoopDrains` |

Assumptions: `TimeAssumption` (an even hyperframe, at least one slot),
`TxAssumption` (at least one channel; `NULL` and `GEN` are no vectors; every
modulus is at most the number of rows and the initial one is positive; bursts are
less than a hyperframe late) and, for `TxStaleLoopDrains` only,
`SpreadAssumption`: the BTS places bursts so near the deadline that any two of
them, and the deadline, are less than half a hyperframe apart (in the code: some
tens of frames out of 1357824). TLC evaluates all three in every run of the
module.

The invariant. `NoDangling`, `NoLeak`, `OneOwner` and `FillerRows` need each
other: `updateFillerTable` deletes the vector it replaces, which is safe only
because that vector has no other owner (`OneOwner`) and leaves no leak only
because it was the last one. `TxPath` conjoins them as `Ownership`. None is
inductive alone, and two more facts are needed: `TypeOK`, for the row that `FN %
modulus` selects and for the time of a vector that is alive; and `Phase`, which
says that nothing is in flight (every `filler` flag is set) outside of
`pushRadioVector` and for the channels it has not reached, so that a burst that
takes off does not overwrite one in flight.

Two lemmas carry the argument: `TableTakesBurst` (a vector moves from its queue
into the table and the old one is deleted) and `BurstTakesOff` (it moves into
flight); `OwnersDelete` covers the deletions of `DriveTransmitRadio`, `DumpStale`
and `PowerOff`. Each action has a lemma of its own.

`OnAir` is about what is handed to the radio at the end of `pushRadioVector`, so
its invariant `AirIInv` says what the loop over the channels has built up:
`bursts[c]` of a channel already handled is what `OnAir` allows (`Shown`), and it
stays so while the later channels are handled, because a vector has one owner
(`Ownership` again: nothing another channel deletes or replaces can be the vector
of this one). The second part of `AirIInv`, that the table of a channel without
retransmission holds generated fillers only, is what makes the fallback of such a
channel the filler.

`StaleLoopDrains` says that the loop of `pushRadioVector` that fetches late
bursts leaves none behind. The code relies on the queue for it: `getStaleBurst`
looks at the top only. That is right when the top is a least element, and a cyclic
comparison has one only among times that lie together: with bursts spread
over more than half a hyperframe, each could be later than another. `QueuesNear`
is the invariant that keeps them together: the distance of every queued burst from
the deadline (`Near`) is at most what the BTS uses, and at least that, or one slot
less in the channels that the current slot has not passed yet, because the
deadline advances and the stale loop then takes what has become late.
`NearCompared` (on `ComparisonExact` of `GsmTimeProofs`) turns the comparison of
the queue into that of the distances, `LeastNat` (the library's well-founded
induction, for one set) gives the least of them, and `TopNotStale` follows.

`TxTimingProofs` proves, for every length of the hyperframe, number of slots,
latency, interval and second:

| Theorem | Statement |
|---|---|
| `TtInductive` | `Spec => []IInv` |
| `TtDeadlineInv` | `Spec => []DeadlineInv` |
| `TtIndicationForward` | `Spec => IndicationForward` |

Assumptions: `TimeAssumption`, `TimingAssumption` and `HalfAssumption`. The last
one is the heart of the matter: `Time::operator>` compares cyclically, and is
right only for times less than half a hyperframe apart (`ComparisonExact`, a
theorem of `GsmTimeProofs` for every hyperframe and number of slots). The
assumption asks that the second, the largest latency and the longest starvation of
TxLower fit into that half *together*; in the code they are some hundred frames of
1357824. `DeadlineInv` is not inductive, since it compares with the same operator
whose exactness is in question. `IInv` replaces the comparison by unwrapped
distances: `lag` is how far the deadline is behind clock and latency (`LagExact`),
and the last indication is at most a second, the lag and one chunk behind
(`IndicationExact`). `LatencyBounded` closes the circle, underruns raise the
latency up to `MaxLatencyFN` only. The slack for one raise without a clock step
(`lag > MaxLag => mLatencyUpdateTime = mClock`) is where the rate limit of
`driveTxFIFO` enters: without it, repeated underruns would drive the distance out
of the range in which the comparison is right.

`ControlProofs` proves `CtSettingsInv` (`Spec => []SettingsInv`: a setting that the
BTS of a channel was told of has that value, or one that another thread gave it
after the channel's own thread had written it), for every number of channels and
timeslots, every set of commands, any number of lost answers, with a random filler
or without, and for builds that read `mRxFreq` again and those that do not.
Assumptions: `ControlAssumption` and `CommandAssumption` (a command whose argument
the code scans as a number carries one). The invariant speaks of what was
answered, but a setting is written before its answer is sent, and may be written
again in between, by the repeat of a command whose answer was lost or by another
thread. `IInv` therefore adds `Done`, what a thread has done of its command (it still
has the command that its BTS waits for; at row `step` of a POWERON the rows before
it are clear; the settings that its response speaks of are as it says; each time but
for `others`), and `Knows`, which says the same of what the BTS was told, and that it
knows nothing of a setting while it waits for the answer to a command for it.

`LifecycleProofs` proves, for every number of channels, whatever the device does:

| Theorem | Statement |
|---|---|
| `LcInductive` | `Spec => []IInv` |
| `LcTypeOK` | `Spec => []TypeOK` |
| `LcOneAtATime` | `Spec => []OneAtATime` |
| `LcAllOrNone` | `Spec => []AllOrNone` |
| `LcStreamingWhileUsed` | `Spec => []StreamingWhileUsed` |
| `LcOffMeansStopped` | `Spec => []OffMeansStopped` |
| `LcThreadsFitDevice` | `Spec => []ThreadsFitDevice` |

Assumption: `LifecycleAssumption` (at least one channel; `NULL` is no thread).
The invariant adds three parts to the stated properties. `StartUp` says which
threads do nothing yet: `StartControl` makes a thread idle, which keeps
`OneAtATime` only if that thread was not inside `start()` or `stop()`.
`Streaming` gives what each step finds: radio and device agree, they stream from
a successful `RadioInterface::start()` on, and the lower threads are gone before
they stop; it holds also after a control thread was cancelled inside `stop()`.
`Session` does not: `AllOrNone` and `OffMeansStopped`, with the facts about
`mOn`, `workers` and `ending` at each step of `start()` that they rest on, hold
as long as no control thread has been cancelled, which is why those two
properties carry that condition.

It also proves, of configuration and start as `MCStart` puts them side by side:

| Theorem | Statement |
|---|---|
| `ConfigurationInductive` | `StartSpec => []ConfigIInv` |
| `StConfigInv` | `StartSpec => []ConfigInv` |
| `StKeepsModesApart` | `StartSpec => VtyKeepsModesApart` |
| `StStartInv` | `StartSpec => []StartInv` |

The first three hold for every number of channels and of multi-carrier channels,
every set of options and of commands with any arguments, and sequences of them of
every length. Assumption: `ConfigAssumption` (positive limits; options and
commands are those of the code; a channel number is a natural number).
`ConfigIInv` says when the channel list is filled in (`NoList`, `ListOK`), that a
random filler was asked for (`Asked`) and, in the file and afterwards, that what
runs was validated.

That a process which reads the written configuration has the same settings
(`WrittenIsConfig`, a part of `ConfigInv`) needs `Writable` as well: flags are
Boolean, and a test mode that is not set has its default, or a line that is not
written would lose a value. What is read is then followed through the lines:
`Wrote` says of a piece of the output that reading it adds a set of fields to
those that agree with the configuration already (`Progress`), which is what makes
the pieces compose, whatever was left out because it has the default. The channels
are an induction over `num_chans` (`WroteChans`): each `chan` line makes the next
channel and enters its node, so that the paths that follow are its own. Beyond the
last, both lists hold `NoChan` (in `ListOK`).

`StStartInv` holds for every set of devices, number of channels and set of
versions (`TrxAssumption`: device types are those of the code). `StartIInv` says
what has been done where `trx_start` is: rates and channels of the device from
`open` on (`Opened`), the radio interface that fits the device (`RadioMade`), the
FIFOs attached so far (`Attached`), and objects made in order (`ObjectsInOrder`).
`DocumentedRun` (the set-ups of the manual run unless something outside fails) is
part of it, since a refusal in an early step is only seen at the end.

`QueuesProofs` proves, for every set of items and of nodes (`NullAssumption`:
`NULL` is neither):

| Theorem | Statement |
|---|---|
| `PfInductive` | `ListSpec => []ListIInv` |
| `PfTypeOK` | `ListSpec => []ListTypeOK` |
| `PfWellLinked` | `ListSpec => []WellLinked` |
| `PfNodesOnce` | `ListSpec => []NodesOnce` |
| `PfListInv` | `ListSpec => []ListInv` |
| `PfQueue` | `ListSpec => QueueSpec`, the refinement of `PtrQueue` |
| `QuNoLostWakeup` | `MCSpec => []NoLostWakeup` |
| `QuOwnedOnce` | `MCSpec => OwnedOnce` |
| `QuInductive` | `MCSpec => []MCIInv`, which the last two follow from |

`WellLinked` and `NodesOnce` need each other: writing `next` of the last node, or of
a node taken from the pool, leaves the other links alone only because a node has
one place. The refinement reads the abstract queue off the list (`ListContents`):
`put` is an append, `push_front` a prepend, `get` takes the head.

The last three are about the module that puts list, queues and map side by side, for
every set of readers, waiters, items, keys and map threads. Assumptions:
`QueueAssumption` (finitely many readers, none of which is a waiter) and
`MapAssumption` (`NULL` is no key's object). That a reader does not sleep next to
an item for good is a matter of counting: `Covered` says that the readers
asleep are at most those for whom a signal is under way when there are items, with
the signals not yet sent counted as well. One signal wakes one reader, but a
reader that arrives in between takes the item away; the count shows that then
there is nothing left to sleep next to. For the map, the invariant ties each
object to one owner (`Objects`, `OneOwner`), so that `write()` of a key that is
taken deletes an object nobody else holds.

`QueuesProofs` also proves, of `RadioBuffer`, for every number and length of
segments, every history that fits into a segment, and runs of every length
(`BufferAssumption`):

| Theorem | Statement |
|---|---|
| `RbInductive` | `Spec => []IInv` |
| `RbRingInv` | `Spec => []RingInv` |
| `RbHistoryIntact` | `Spec => HistoryIntact` |
| `RbFifo` | `Spec => FifoSpec`, the refinement of `SampleFifo` |

`RingConsistent` (indices, counter) is inductive with `TypeOK`, but says nothing
of the samples. `Filled` adds that what the counter counts was written, and
`PastInRing` that the samples last taken still lie in front of the read index, as
long as the writers have left them room; the copy of the ring's end in front of its
beginning (`hLen` samples) carries both across the wrap. The refinement reads the
abstract FIFO from the read index on, around the ring (`Contents`), and each of the
four operations is an append or a removal, or refuses and changes nothing.

`DevicesProofs` proves `UhdTxTypeOK`, `UhdTxBracketed` (`Spec =>
[]BurstsBracketed`) and their conjunction `UhdTxInv` for every length of an
alignment of at least two packets (`UhdTxAssumption`). `BurstsBracketed` alone is
not inductive: that a start of burst follows an end of burst rests on
`CounterKnows`, the drop counter being above zero exactly between the two,
whenever the event thread sets its flag.

It also proves properties of the other devices, which `MCDevices` puts side by
side, from one invariant (`DevicesIInv`, a conjunct for each of them):

* `DvLmsInv` (`MCSpec => []LmsInv`), for every positive number of channels and
  every length of the flush (`LmsAssumption`). `Handle` counts openings and
  closings against the handle and the object's life; `Streams` needs that the
  calls of `start()`, all that succeed, cover every stream of every channel;
  `InTime` adds to `ReadsWhatIsAsked` that, with one channel, a flushed device and
  no trouble, the device's next sample is the one to be read next.
* `DvSetAsAnswered` (`MCSpec => []SetAsAnswered`), for every range of gains, step
  and set of levels (`PowerAssumption`), and every set of devices, numbers of
  channels up to two, frequencies of at least 10, master clock rate and offset of
  the oscillator (`TuneAssumption`). For the power, `SetLevel` is what the
  answered `SETPOWER` leaves in `mPower`. For the frequencies, `OnFrequency`
  speaks only of moments when nobody tunes; `TuneIInv` says what holds in between:
  who holds the lock (`Locked`), that `freqs` holds what was answered or is about
  to be (`Recorded`), and that, between the tuning of one channel and the retuning
  of the other, the shared oscillator is at the middle where the second call must
  find it (`Halfway` in `InTune`).
* `DvUsrpInv` (`MCSpec => []UsrpInv`), for every ring, packet, read and clock of
  the USRP1 that `DevicesAssumption` allows: a batch of packets, with all that may
  be lost, fits into the ring together with what is not read yet, the first read
  is aligned to packets as in the code, and the device's clock does not wrap
  within a turn of the ring. `ReadIInv` holds unless an answer came before its
  ping was noted (`raced`, the condition `UsrpInv` carries too). A read returns
  the samples of its times because of two facts about all times of the ring's next
  turn (`RingContent`): a sample that came is at its time modulo the ring, and
  where none came the ring is zero, as `readSamples` clears what it has read. That
  they survive the next packet needs that the device is never so far ahead of the
  reader that it overwrites (`NotFarAhead`), and that the 32 bits of a packet's
  clock tell its whole time (`ClockExact`). The packets of a write carry the block
  once and nothing else (`WrittenBlock`) for every length up to `MaxPkts`
  payloads.
* `DvUhdReadsInTime` (`MCSpec => UhdReadsInTime`), for every set of channels,
  every ring that holds a read and a packet, every offset of the timestamps and
  every clock (`DevicesAssumption`). `RxIInv` has, besides the types, that the
  ring ends with the packet that came last (`LastPacket`), and that each sample
  received since `goodFrom` and not overrun is where a read looks for its time
  (`PacketsInPlace`). `goodFrom` moves at the one write that loses the order,
  which the table in section 4 is about (`ReadsItsTimes`).

`UplinkProofs` proves, for every number of channels, every size of ring, FIFO and
noise average, every receive offset up to a frame and every number of slots per
frame that is a multiple of four:

| Theorem | Statement |
|---|---|
| `UlInductive` | `Spec => []IInv` |
| `UlUplinkInv` | `Spec => []UplinkInv` |
| `UlHandledInOrder` | `Spec => HandledInOrder` |

Assumptions: `TimeAssumption` and `UplinkAssumption`. The multiple of four (the
code has eight slots) is needed: the pattern of one long slot in four, which
`driveReceiveRadio` chooses by `TN % 4`, must go on across the end of a frame, or
the quarter symbols do not add up.

None of the properties is inductive. That a burst lies within a symbol of its slot
(`InItsSlot`) follows from `Drift`, an equation between the samples cut so far and
the slots formed so far, exact but for the quarters of the slot the session began
with and of the slot that is next (`Quarters`); a bound alone would not survive
the next burst. That a burst has the time of its slot follows from `Clocks`: the
transceiver's clock less the offset is the time `formed` slots after the first, both
inside and outside of `driveReceiveRadio`, which needs that a slot forward and an
offset back commute around the hyperframe (`IncDec`) and that counting by frames and
slots is counting by slots (`AfterNext`). `Rings` is the reason that there is always
room: what is left after a round is less than a burst. `HandledInOrder` needs
the order of everything between RxLower and the property: of the FIFO, the worker's
burst, the burst it was last done with, and the one formed next (`InOrder`);
a burst that a full FIFO drops leaves the order alone. The noise level is the
average of the last idle bursts because the ring of levels is the list of them,
rotated (`NoiseRing`); `NoiseIsRecent` counts, so the rotation is turned into a
bijection (`RecentLevels`).

It also proves the four properties of `Detect` (`DetectFoundWithDelay`,
`DetectClipWhenLost`, `DetectRightDemodulator`, `DetectSymbolsInPlace`; all four:
`DetectAll`) for every set of delays and expected delays (`DetectAssumption`:
integers, and naturals). `NormalWindow`, `AccessWindow` and `RACHWindow` are the
arithmetic: target, head and tail of each window contain the end of the sequence
for every delay up to the expected one, and its place gives the delay back.

And it proves `VectorReadsAllocated` (`VectorSpec => []ReadsAllocated`, of
`SigVector`) for all sizes (`VectorAssumption`), with one lemma for each span of
`convolve` and for each of its callers.

Of the modules that `MCSamples` puts side by side, with `SamplesAssumption` (the
assumptions of the instances: sizes and counts are natural numbers, the histories
of the multi-carrier interface fit into a chunk, full scale is at least two):

| Theorem | Statement |
|---|---|
| `SmSentInTime` | `OthersWriteAll => (MCSpec => []SentInTime)` |
| `SmBlocksAreStream` | `FourBranches => (MCSpec => []BlocksAreStream)` |
| `SmVectorsFit` | `MCSpec => []VectorsFit` |
| `SmKernelsCompute` | `MCSpec => []KernelsCompute` |

* `SmSentInTime`: every start timestamp, number of channels, types of device,
  number of bursts. `OthersWriteAll` says that the devices of the plain and the
  multi-carrier interface write all they are given; without it the property is
  false, as those two advance the timestamp by the answer of the device (section
  4). The resampling interface advances by what it meant to write, and needs
  nothing. `SendTimes` is the equation between samples taken and the timestamp, in
  units in which both rates are whole; `SendRings` bounds what is left between
  bursts by a segment, so that no ring is ever full; `SendMemory` accounts for
  what `close` forgets.
* `SmBlocksAreStream`: every pair of rates, length of filter and of block, and any
  number of blocks. `FourBranches` (`MCHANS = 4`, as in the code) is needed for
  the table of `getLogicalChan` only; what is said of the filter banks does not
  use it. A block gives the same as the stream because the history in front of it
  is the end of the one before (`RsHistory`, `BankHistory`), and because output
  `o` of a block meets those samples and taps whose places add up in the stream
  (`StreamAt`), which is arithmetic about the tables `InitPaths` and
  `InitFilters`: quotient and remainder by the rate are unique (`DivModIs`,
  `PlaceTaps`).
* `SmVectorsFit`: the modulators for all fillers, slots and both rates, and every
  access-burst delay that the VTY takes, 0 to 68; at 68 the one symbol that does
  not fit is padding (`OnlyPaddingOutside`, section 4). The vector
  routines are proved for all sizes. `ModIInv` has the size of every burst by its slot
  (`Fits`), from which the end of each slot follows by induction (`SlotEnd`). The
  shift of `delayVector` is a copy in place, and right in either direction since a
  sample is read before it is overwritten; what the copy has reached after any
  number of samples is an induction as well.
* `SmKernelsCompute`: the convolution kernels for any number of taps that is one
  of theirs (for the generic ones, any multiple of 4 or 8), any input, start,
  length and head room (`Calls` and `Spare` are arbitrary), the conversions for
  any length, scale and full scale. A kernel keeps four or eight partial sums in
  the lanes of a register and adds them up at the end. The proof has a closed form
  of each lane after `m` steps (`MetIn`: what the taps with that remainder have
  met), an induction over the steps, and the sum of the lanes. As in the model,
  the input has one nonzero sample and one nonzero tap, at any two places; kernels
  are linear, so that determines them. The conversions are followed group by
  group, with the remainder loop.

Functions that are defined by recursion over numbers (`f[n \in 0 .. k] == ...`)
come up in these proofs, and what they compute is proved by induction. The
library's induction theorems have an operator as parameter, which the provers do
not instantiate. `SetInduction` is for one set instead: of the numbers outside of
it, if any, one would be the least (the library's `WFMin`, for `<` on the
naturals). That a function with such an equation exists is shown by giving one, in
closed form; by `SameUpTo` it is the one that was defined.

What stays with TLC is liveness under fairness (`QueueDrains`, `DeadlineAdvances`,
`ClockIndicated`, `CommandsComplete`, `ShutdownCompletes`, `EveryCommandAnswered`,
`FifoDrains`, `Resynced`, `CallsReturn`), which is out of the reach of the prover.

## 6. Plan

Done: the modules above, and theorems of all invariants that the runs check. Left,
in this order:

1. Composition of `TxPath` and `TxTiming`: the abstract step `Push` implemented by
   `pushRadioVector`; of `RadioSend` with `UhdTransmit`, for what a device error does
   to the time of the bursts that follow.
2. `Uplink` with the receive side of a device instead of its choice of answers.
3. Bit vectors as far as `GSMCommon` and the data socket use them.

## 7. Not modelled

* Amplitudes: pulse shapes, filter coefficients, thresholds, the equalizer's taps
  and soft values are floating-point numerics, outside of what TLC can check; the
  models of the signal processing have places and sums without values. Rounding
  is modelled in `Convert` only.
* The NEON kernels in assembly (`arch/arm`). Their C wrappers choose by length as
  the x86 ones do.
* UHD, LimeSuite and the USRP library: external, a choice of answers. Antennas,
  receive gain, clock sources, filters and calibration are calls into them with a
  check of the answer, and keep no state that anything else reads.
* The SWLOOPBACK build of the USRP1 and the register values of its tuner.
* Bit vectors, PRBS, time values and `SingleLinkList`: sequential helpers with unit
  tests, or unused.
* Sockets and logging: a datagram arrives or is lost. Messages that are not
  commands are ignored by the code and not sent by the model.
* Frame numbers outside of the hyperframe in data packets: the code takes them
  as they are; the model's BTS stays inside.
* The show commands of the VTY, its help texts and its parser of lines.
* Weak memory: unlocked shared variables are read and written atomically, which
  their sizes and the supported processors give. The one place where the
  compiler's choice matters for a property, the reload of `mRxFreq` and `mTxFreq`,
  is a choice of the model (`TuneFreqs`).
* The time before `Transceiver::init` has returned, in `TxPath`: the control thread
  of a channel runs before the `TransceiverState` of that channel and of the later
  ones is initialised (`Transceiver.cpp:212-223`), and a POWERON in that time would
  transmit from a filler table that is still NULL. `TxPath` begins with complete
  tables; of the same race, `Control` has the effect on `chanType` (`InitState`).
* Partial packets of UHD: `recv()` in `UhdReceive` returns a full packet or an error.
* The precision of `%f` in the written configuration: `offset` and `rssi-offset` are
  the same when they are read again (`trx_vty.c:430, 432`); in the code, with six
  decimals.
