-------------------------- MODULE LifecycleProofs --------------------------
(***************************************************************************)
(* The process, from its configuration to its end. Lifecycle: start() and  *)
(* stop() exclude each other, and the worker threads and the device follow *)
(* mOn, for any number of channels and whatever the device does. MCStart:  *)
(* what the VTY's commands make of the configuration, for every sequence   *)
(* of them, that the configuration written to a file is the one a new      *)
(* process reads from it, and what a start makes of every configuration    *)
(* that passes the validation.                                             *)
(***************************************************************************)
EXTENDS Lifecycle, MCStart, FiniteSetTheorems, SequenceTheorems, WellFoundedInduction, TLAPS

\* main() calls stop() only in the destructor, and a control thread does
\* nothing before init() has started it.
StartUp ==
    /\ main \in {"threads", "state", "attach", "loop"} => op[Main] = "idle"
    /\ main = "threads" => \A c \in Chans : c >= mi => op[c] = "none"
    /\ main = "state" => mi \in Chans /\ \A c \in Chans : c > mi => op[c] = "none"
    /\ main = "attach" => mi \in Chans
    /\ main \in {"loop", "stop"} => mi = 0
    /\ main \in {"join", "deleted"} => mi \in Chans

\* The radio and the device agree, and the threads that use it run only
\* while start() and stop() let it stream.
Streaming ==
    /\ StreamingWhileUsed
    /\ radioOn <=> devOn
    /\ \A a \in Actors :
        /\ op[a] \in {"launch", "setOn"} => radioOn
        /\ op[a] \in {"device", "joinUpper"} => workers \cap Lower = {}
        /\ op[a] = "joinUpper" => ~radioOn

\* What each step of start() and stop() finds, as long as no control thread
\* was cancelled inside stop().
Session ==
    cancelled = {} =>
        /\ AllOrNone /\ OffMeansStopped
        /\ mLock = NULL => workers \cap ending = {}
        /\ \A a \in Actors :
            /\ op[a] = "radio" => ~mOn /\ workers = {} /\ ~radioOn
            /\ op[a] = "launch" => ~mOn /\ workers = {}
            /\ op[a] = "setOn" => ~mOn /\ workers = Workers /\ workers \cap ending = {}

\* The inductive invariant.
IInv == TypeOK /\ OneAtATime /\ StartUp /\ Streaming /\ Session
-----------------------------------------------------------------------------
(* The invariant holds initially and is kept by every action *)

\* A new process: no thread but main, the radio off.
LEMMA InitIInv == Init => IInv
<1> SUFFICES ASSUME Init PROVE IInv
    OBVIOUS
<1> USE LifecycleAssumption DEF Init
<1>1. /\ op \in [Actors -> Ops] /\ op[Main] = "idle"
      /\ \A a \in Actors : a # Main => op[a] = "none"
    BY DEF Ops, Actors
<1>2. Main \notin Chans
    BY DEF Main, Chans
<1>3. TypeOK
  <2>1. mi \in 0 .. NChans
    OBVIOUS
  <2> QED BY <1>1, <2>1, Zenon DEF TypeOK
<1>4. OneAtATime
  <2>1. \A a \in Actors : op[a] \in {"idle", "none"}
    BY <1>1
  <2>2. NULL \notin Actors
    BY DEF Actors, Chans, Main
  <2> QED BY <2>1, <2>2 DEF OneAtATime, Critical
<1>5. StartUp
    BY <1>1, <1>2 DEF StartUp, Actors
<1>6. Streaming
    BY <1>1 DEF Streaming, StreamingWhileUsed
<1>7. Session
    BY <1>1 DEF Session, AllOrNone, OffMeansStopped
<1> QED BY <1>3, <1>4, <1>5, <1>6, <1>7 DEF IInv

\* init() starts the control thread of the next channel.
LEMMA StartControlIInv ==
    ASSUME IInv, StartControl
    PROVE  IInv'
<1> USE LifecycleAssumption DEF IInv, StartControl, mainVars, radioVars
<1>1. TypeOK'
    BY DEF TypeOK, Ops, Actors, Chans, Main, Workers
<1>2. OneAtATime'
    BY DEF TypeOK, OneAtATime, StartUp, Critical, Actors, Chans, Main
<1>3. StartUp'
    BY DEF TypeOK, StartUp, Actors, Chans, Main
<1>4. Streaming'
    BY DEF TypeOK, OneAtATime, Critical, Streaming, StreamingWhileUsed, Actors, Chans, Main
<1>5. Session'
    BY DEF TypeOK, OneAtATime, Critical, Session, AllOrNone, OffMeansStopped,
       Actors, Chans, Main
<1> QED BY <1>1, <1>2, <1>3, <1>4, <1>5

\* The steps of main() that move no other thread.
LEMMA MainIInv ==
    ASSUME IInv, InitState \/ SetSignalHandler \/ AttachFIFO \/ Signal \/ RadioFails \/ Delete
    PROVE  IInv'
<1> USE LifecycleAssumption DEF IInv, InitState, SetSignalHandler, AttachFIFO, Signal, RadioFails, Delete, mainVars, radioVars
<1>1. TypeOK'
  <2>1. mi' \in 0 .. NChans
    BY DEF TypeOK, StartUp, Chans
  <2>2. /\ main' \in {"threads", "state", "attach", "loop", "stop", "join", "deleted"}
        /\ gshutdown' \in BOOLEAN /\ handler' \in BOOLEAN
        /\ UNCHANGED <<op, cancelled, ending, mLock, mOn, radioOn, devOn,
                       requiresRadioAlign, aligned, workers, aborted>>
    BY Zenon DEF TypeOK
  <2> QED BY <2>1, <2>2 DEF TypeOK
<1>2. OneAtATime'
    BY DEF TypeOK, OneAtATime, StartUp, Critical, Actors, Chans, Main
<1>3. StartUp'
    BY DEF TypeOK, StartUp, Actors, Chans, Main
<1>4. Streaming'
    BY DEF TypeOK, OneAtATime, Critical, Streaming, StreamingWhileUsed, Actors, Chans, Main
<1>5. Session'
    BY DEF TypeOK, OneAtATime, Critical, Session, AllOrNone, OffMeansStopped,
       Actors, Chans, Main
<1> QED BY <1>1, <1>2, <1>3, <1>4, <1>5

\* The destructor begins with stop().
LEMMA ShutdownIInv ==
    ASSUME IInv, Shutdown
    PROVE  IInv'
<1> USE LifecycleAssumption DEF IInv, Shutdown, mainVars, radioVars
<1>1. TypeOK'
    BY DEF TypeOK, Ops, Actors, Chans, Main, Workers
<1>2. OneAtATime'
    BY DEF TypeOK, OneAtATime, StartUp, Critical, Actors, Chans, Main
<1>3. StartUp'
    BY DEF TypeOK, StartUp, Actors, Chans, Main
<1>4. Streaming'
    BY DEF TypeOK, OneAtATime, Critical, Streaming, StreamingWhileUsed, Actors, Chans, Main
<1>5. Session'
    BY DEF TypeOK, OneAtATime, Critical, Session, AllOrNone, OffMeansStopped,
       Actors, Chans, Main
<1> QED BY <1>1, <1>2, <1>3, <1>4, <1>5

\* The destructor cancels the next control thread.
LEMMA CancelControlIInv ==
    ASSUME IInv, CancelControl
    PROVE  IInv'
<1> USE LifecycleAssumption DEF IInv, CancelControl, mainVars, radioVars
<1>1. TypeOK'
  <2>1. mi' \in Chans /\ mi' \in 0 .. NChans
    BY DEF TypeOK, StartUp, Chans
  <2> QED BY <2>1 DEF TypeOK
<1>2. OneAtATime'
    BY DEF TypeOK, OneAtATime, StartUp, Critical, Actors, Chans, Main
<1>3. StartUp'
    BY DEF TypeOK, StartUp, Actors, Chans, Main
<1>4. Streaming'
    BY DEF TypeOK, OneAtATime, Critical, Streaming, StreamingWhileUsed, Actors, Chans, Main
<1>5. Session'
    BY DEF TypeOK, OneAtATime, Critical, Session, AllOrNone, OffMeansStopped,
       Actors, Chans, Main
<1> QED BY <1>1, <1>2, <1>3, <1>4, <1>5

\* A command is received.
LEMMA CommandIInv ==
    ASSUME IInv, NEW c \in Chans, Command(c)
    PROVE  IInv'
<1> USE LifecycleAssumption DEF IInv, Command, mainVars, radioVars
<1>1. TypeOK'
    BY DEF TypeOK, Ops, Actors, Chans, Main, Workers
<1>2. OneAtATime'
    BY DEF TypeOK, OneAtATime, StartUp, Critical, Actors, Chans, Main
<1>3. StartUp'
    BY DEF TypeOK, StartUp, Actors, Chans, Main
<1>4. Streaming'
    BY DEF TypeOK, OneAtATime, Critical, Streaming, StreamingWhileUsed, Actors, Chans, Main
<1>5. Session'
    BY DEF TypeOK, OneAtATime, Critical, Session, AllOrNone, OffMeansStopped,
       Actors, Chans, Main
<1> QED BY <1>1, <1>2, <1>3, <1>4, <1>5

\* start() takes the lock if the radio is off.
LEMMA LockStartIInv ==
    ASSUME IInv, NEW a \in Chans, LockStart(a)
    PROVE  IInv'
<1> USE LifecycleAssumption DEF IInv, LockStart, mainVars, radioVars
<1>1. TypeOK'
    BY DEF TypeOK, Ops, Actors, Chans, Main, Workers
<1>2. OneAtATime'
    BY DEF TypeOK, OneAtATime, StartUp, Critical, Actors, Chans, Main
<1>3. StartUp'
    BY DEF TypeOK, StartUp, Actors, Chans, Main
<1>4. Streaming'
    BY DEF TypeOK, OneAtATime, Critical, Streaming, StreamingWhileUsed, Actors, Chans, Main
<1>5. Session'
    BY DEF TypeOK, OneAtATime, Critical, Session, AllOrNone, OffMeansStopped,
       Actors, Chans, Main
<1> QED BY <1>1, <1>2, <1>3, <1>4, <1>5

\* RadioInterface::start succeeds, fails or aborts.
LEMMA StartRadioIInv ==
    ASSUME IInv, NEW a \in Chans, StartRadio(a)
    PROVE  IInv'
<1> USE LifecycleAssumption DEF IInv, StartRadio, mainVars, radioVars
<1>1. TypeOK'
    BY ZenonT(40) DEF TypeOK, Ops, Actors, Chans, Main, Workers
<1>2. OneAtATime'
    BY DEF TypeOK, OneAtATime, StartUp, Critical, Actors, Chans, Main
<1>3. StartUp'
    BY DEF TypeOK, StartUp, Actors, Chans, Main
<1>4. Streaming'
    BY DEF TypeOK, OneAtATime, Critical, Streaming, StreamingWhileUsed, Actors, Chans, Main
<1>5. Session'
    BY DEF TypeOK, OneAtATime, Critical, Streaming, Session, AllOrNone, OffMeansStopped,
       Actors, Chans, Main
<1> QED BY <1>1, <1>2, <1>3, <1>4, <1>5

\* The workers are launched on a radio that streams.
LEMMA LaunchIInv ==
    ASSUME IInv, NEW a \in Chans, Launch(a)
    PROVE  IInv'
<1> USE LifecycleAssumption DEF IInv, Launch, mainVars, radioVars
<1>1. TypeOK'
    BY DEF TypeOK, Ops, Actors, Chans, Main, Workers
<1>2. OneAtATime'
    BY DEF TypeOK, OneAtATime, StartUp, Critical, Actors, Chans, Main
<1>3. StartUp'
    BY DEF TypeOK, StartUp, Actors, Chans, Main
<1>4. Streaming'
    BY DEF TypeOK, OneAtATime, Critical, Streaming, StreamingWhileUsed, Actors, Chans, Main
<1>5. Session'
    BY DEF TypeOK, OneAtATime, Critical, Session, AllOrNone, OffMeansStopped,
       Actors, Chans, Main
<1> QED BY <1>1, <1>2, <1>3, <1>4, <1>5

\* start() ends.
LEMMA SetOnIInv ==
    ASSUME IInv, NEW a \in Chans, SetOn(a)
    PROVE  IInv'
<1> USE LifecycleAssumption DEF IInv, SetOn, mainVars, radioVars
<1>1. TypeOK'
    BY DEF TypeOK, Ops, Actors, Chans, Main, Workers
<1>2. OneAtATime'
    BY DEF TypeOK, OneAtATime, StartUp, Critical, Actors, Chans, Main
<1>3. StartUp'
    BY DEF TypeOK, StartUp, Actors, Chans, Main
<1>4. Streaming'
    BY DEF TypeOK, OneAtATime, Critical, Streaming, StreamingWhileUsed, Actors, Chans, Main
<1>5. Session'
    BY DEF TypeOK, OneAtATime, Critical, Session, AllOrNone, OffMeansStopped,
       Actors, Chans, Main
<1> QED BY <1>1, <1>2, <1>3, <1>4, <1>5

\* stop() takes the lock if the radio is on.
LEMMA LockStopIInv ==
    ASSUME IInv, NEW a \in Actors, LockStop(a)
    PROVE  IInv'
<1> USE LifecycleAssumption DEF IInv, LockStop, mainVars, radioVars
<1>1. TypeOK'
    BY DEF TypeOK, Ops, Actors, Chans, Main, Workers
<1>2. OneAtATime'
    BY DEF TypeOK, OneAtATime, StartUp, Critical, Actors, Chans, Main
<1>3. StartUp'
    BY DEF TypeOK, StartUp, Actors, Chans, Main
<1>4. Streaming'
    BY DEF TypeOK, OneAtATime, Critical, Streaming, StreamingWhileUsed, Actors, Chans, Main
<1>5. Session'
    BY DEF TypeOK, OneAtATime, Critical, Session, AllOrNone, OffMeansStopped,
       Actors, Chans, Main
<1> QED BY <1>1, <1>2, <1>3, <1>4, <1>5

\* The lower threads have ended.
LEMMA JoinLowerIInv ==
    ASSUME IInv, NEW a \in Actors, JoinLower(a)
    PROVE  IInv'
<1> USE LifecycleAssumption DEF IInv, JoinLower, mainVars, radioVars
<1>1. TypeOK'
    BY DEF TypeOK, Ops, Actors, Chans, Main, Workers
<1>2. OneAtATime'
    BY DEF TypeOK, OneAtATime, StartUp, Critical, Actors, Chans, Main
<1>3. StartUp'
    BY DEF TypeOK, StartUp, Actors, Chans, Main
<1>4. Streaming'
    BY DEF TypeOK, OneAtATime, Critical, Streaming, StreamingWhileUsed, Actors, Chans, Main
<1>5. Session'
    BY DEF TypeOK, OneAtATime, Critical, Session, AllOrNone, OffMeansStopped,
       Actors, Chans, Main
<1> QED BY <1>1, <1>2, <1>3, <1>4, <1>5

\* The radio is stopped when nothing uses it.
LEMMA StopRadioIInv ==
    ASSUME IInv, NEW a \in Actors, StopRadio(a)
    PROVE  IInv'
<1> USE LifecycleAssumption DEF IInv, StopRadio, mainVars, radioVars
<1>1. TypeOK'
    BY ZenonT(40) DEF TypeOK, Ops, Actors, Chans, Main, Workers
<1>2. OneAtATime'
    BY DEF TypeOK, OneAtATime, StartUp, Critical, Actors, Chans, Main
<1>3. StartUp'
    BY DEF TypeOK, StartUp, Actors, Chans, Main
<1>4. Streaming'
    BY DEF TypeOK, OneAtATime, Critical, Streaming, StreamingWhileUsed, Actors, Chans, Main
<1>5. Session'
    BY DEF TypeOK, OneAtATime, Critical, Session, AllOrNone, OffMeansStopped,
       Actors, Chans, Main
<1> QED BY <1>1, <1>2, <1>3, <1>4, <1>5

\* stop() ends with no worker left.
LEMMA JoinUpperIInv ==
    ASSUME IInv, NEW a \in Actors, JoinUpper(a)
    PROVE  IInv'
<1> USE LifecycleAssumption DEF IInv, JoinUpper, mainVars, radioVars
<1>1. TypeOK'
    BY DEF TypeOK, Ops, Actors, Chans, Main, Workers
<1>2. OneAtATime'
    BY DEF TypeOK, OneAtATime, StartUp, Critical, Actors, Chans, Main
<1>3. StartUp'
    BY DEF TypeOK, StartUp, Actors, Chans, Main
<1>4. Streaming'
    BY DEF TypeOK, OneAtATime, Critical, Streaming, StreamingWhileUsed, Actors, Chans, Main
<1>5. workers = {} /\ ~radioOn /\ ~devOn
    BY DEF TypeOK, Streaming, Workers
<1>6. Session'
    BY <1>5 DEF TypeOK, OneAtATime, Critical, Session, AllOrNone, OffMeansStopped,
       Actors, Chans, Main
<1> QED BY <1>1, <1>2, <1>3, <1>4, <1>6

\* A cancelled worker ends.
LEMMA WorkerEndsIInv ==
    ASSUME IInv, NEW w \in Workers, WorkerEnds(w)
    PROVE  IInv'
<1> USE LifecycleAssumption DEF IInv, WorkerEnds, mainVars, radioVars
<1>1. TypeOK'
    BY DEF TypeOK, Ops, Actors, Chans, Main, Workers
<1>2. OneAtATime'
    BY DEF TypeOK, OneAtATime, StartUp, Critical, Actors, Chans, Main
<1>3. StartUp'
    BY DEF TypeOK, StartUp, Actors, Chans, Main
<1>4. Streaming'
    BY DEF TypeOK, OneAtATime, Critical, Streaming, StreamingWhileUsed, Actors, Chans, Main
<1>5. Session'
    BY DEF TypeOK, OneAtATime, Critical, Session, AllOrNone, OffMeansStopped,
       Actors, Chans, Main
<1> QED BY <1>1, <1>2, <1>3, <1>4, <1>5

\* A cancelled control thread ends and gives the lock back.
LEMMA ControlEndsIInv ==
    ASSUME IInv, NEW c \in Chans, ControlEnds(c)
    PROVE  IInv'
<1> USE LifecycleAssumption DEF IInv, ControlEnds, mainVars, radioVars
<1>1. TypeOK'
    BY DEF TypeOK, Ops, Actors, Chans, Main, Workers
<1>2. OneAtATime'
    BY DEF TypeOK, OneAtATime, StartUp, Critical, Actors, Chans, Main
<1>3. StartUp'
    BY DEF TypeOK, StartUp, Actors, Chans, Main
<1>4. Streaming'
    BY DEF TypeOK, OneAtATime, Critical, Streaming, StreamingWhileUsed, Actors, Chans, Main
<1>5. Session'
    BY DEF TypeOK, OneAtATime, Critical, Session, AllOrNone, OffMeansStopped,
       Actors, Chans, Main
<1> QED BY <1>1, <1>2, <1>3, <1>4, <1>5

\* Every step of the specification keeps the invariant.
LEMMA NextIInv == IInv /\ [Next]_vars => IInv'
<1> SUFFICES ASSUME IInv, [Next]_vars PROVE IInv'
    OBVIOUS
<1>1. CASE Running /\ MainStep
    BY <1>1, StartControlIInv, MainIInv, ShutdownIInv, CancelControlIInv DEF MainStep
<1>2. CASE Running /\ (Signal \/ RadioFails)
    BY <1>2, MainIInv
<1>3. CASE Running /\ \E c \in Chans : Command(c) \/ StartStep(c) \/ ControlEnds(c)
    BY <1>3, CommandIInv, LockStartIInv, StartRadioIInv, LaunchIInv, SetOnIInv,
       ControlEndsIInv DEF StartStep
<1>4. CASE Running /\ \E a \in Actors : StopStep(a)
    BY <1>4, LockStopIInv, JoinLowerIInv, StopRadioIInv, JoinUpperIInv DEF StopStep
<1>5. CASE Running /\ \E w \in Workers : WorkerEnds(w)
    BY <1>5, WorkerEndsIInv
<1>6. CASE UNCHANGED vars
    BY <1>6 DEF vars, mainVars, radioVars, IInv, TypeOK, OneAtATime, StartUp, Streaming,
       StreamingWhileUsed, Session, AllOrNone, OffMeansStopped
<1> QED BY <1>1, <1>2, <1>3, <1>4, <1>5, <1>6 DEF Next, Ended
-----------------------------------------------------------------------------
(* Theorems *)

\* The inductive invariant holds in every reachable state.
THEOREM LcInductive == Spec => []IInv
BY InitIInv, NextIInv, PTL DEF Spec

\* start(), stop(), the destructor and main() keep every variable in its type;
\* in particular the destructor indexes only control threads that exist.
THEOREM LcTypeOK == Spec => []TypeOK
<1>1. IInv => TypeOK
    BY DEF IInv
<1> QED BY LcInductive, <1>1, PTL

\* start() and stop() exclude each other, for any number of channels.
THEOREM LcOneAtATime == Spec => []OneAtATime
<1>1. IInv => OneAtATime
    BY DEF IInv
<1> QED BY LcInductive, <1>1, PTL

\* The device streams whenever TxLower or RxLower runs, the destructor's
\* cancellation of a thread inside stop() included.
THEOREM LcStreamingWhileUsed == Spec => []StreamingWhileUsed
<1>1. IInv => StreamingWhileUsed
    BY DEF IInv, Streaming
<1> QED BY LcInductive, <1>1, PTL

\* Outside start() and stop() all workers run or none does, as mOn says.
THEOREM LcAllOrNone == Spec => []AllOrNone
<1>1. IInv => AllOrNone
    BY DEF IInv, Session, AllOrNone
<1> QED BY LcInductive, <1>1, PTL

\* After a failed start() and a completed stop() nothing streams.
THEOREM LcOffMeansStopped == Spec => []OffMeansStopped
<1>1. IInv => OffMeansStopped
    BY DEF IInv, Session, OffMeansStopped
<1> QED BY LcInductive, <1>1, PTL

\* All of it: the threads, the device and mOn go together, for any number of
\* channels and whatever fails.
THEOREM LcThreadsFitDevice == Spec => []ThreadsFitDevice
BY LcTypeOK, LcAllOrNone, LcStreamingWhileUsed, LcOffMeansStopped, PTL DEF ThreadsFitDevice
-----------------------------------------------------------------------------
(* The configuration (TrxConfig, in MCStart): what holds whatever options  *)
(* and commands are given, in whatever order.                              *)

Fields ==
    {"bind_addr", "remote_addr", "base_port", "dev_args", "tx_sps", "rx_sps", "rtsc", "rtsc_set",
     "rach_delay", "rach_delay_set", "clock_ref", "filler", "multi_arfcn", "offset",
     "rssi_offset", "swap_channels", "ext_rach", "egprs", "sched_rr", "num_chans", "chans",
     "node", "index"}
ChanFields == {"trx", "idx", "rx_path", "tx_path"}

\* The list of channels as commands and validation need it.
ListOK(c) ==
    /\ DOMAIN c = Fields /\ c.num_chans \in 0 .. TRX_CHAN_MAX
    /\ DOMAIN c.chans = Config!Chans
    /\ \A i \in Config!Chans :
        /\ DOMAIN c.chans[i] = ChanFields
        /\ c.chans[i].trx = (i < c.num_chans)
        /\ i < c.num_chans => c.chans[i].idx = i
        /\ i >= c.num_chans => c.chans[i] = Config!NoChan
    /\ c.index \in Nat /\ (c.node = "CHAN" => c.index < c.num_chans)

\* A random filler was asked for.
Asked(c) ==
    /\ c.filler = "NORM_RAND" => c.rtsc_set
    /\ c.filler = "ACCESS_RAND" => c.rach_delay_set

\* Before OptionsDone the channels are not filled in.
NoList(c) ==
    /\ c.num_chans \in Nat /\ c.chans = [i \in Config!Chans |-> Config!NoChan]
    /\ c.node = "CONFIG" /\ c.index = 0

ConfigIInv ==
    /\ phase \in {"options", "file", "run", "exited"}
    /\ DOMAIN cfg = Fields /\ Asked(cfg)
    /\ phase = "options" => NoList(cfg)
    /\ phase \in {"file", "run"} => ListOK(cfg)
    /\ Config!ActiveIsValid

\* A change of c to d that leaves the list alone, asks for the fillers it
\* sets, and does not join the two test modes.
ListKept(c, d) ==
    /\ DOMAIN d = Fields /\ d.num_chans = c.num_chans /\ d.chans = c.chans
    /\ d.node = c.node /\ d.index = c.index
AskedKept(c, d) == Asked(c) => Asked(d)
ModesApart(c, d) == d.rtsc_set /\ d.rach_delay_set => c.rtsc_set /\ c.rach_delay_set
Plain(c, d) == ListKept(c, d) /\ AskedKept(c, d) /\ ModesApart(c, d)

\* Any other field may be set to anything.
Others ==
    {"bind_addr", "remote_addr", "base_port", "dev_args", "tx_sps", "rx_sps", "rtsc",
     "rach_delay", "clock_ref", "multi_arfcn", "offset", "rssi_offset", "swap_channels",
     "ext_rach", "egprs", "sched_rr"}

LEMMA OtherField ==
    ASSUME NEW c, DOMAIN c = Fields, NEW f \in Others, NEW a
    PROVE  Plain(c, [c EXCEPT ![f] = a])
<1> DEFINE d == [c EXCEPT ![f] = a]
<1>1. f \notin {"num_chans", "chans", "node", "index", "filler", "rtsc_set", "rach_delay_set"}
  BY DEF Others
<1>2. DOMAIN d = Fields /\ \A g \in Fields : g # f => d[g] = c[g] BY Zenon
<1> HIDE DEF d
<1>3. /\ d.num_chans = c.num_chans /\ d.chans = c.chans /\ d.node = c.node /\ d.index = c.index
      /\ d.filler = c.filler /\ d.rtsc_set = c.rtsc_set /\ d.rach_delay_set = c.rach_delay_set
  BY <1>1, <1>2 DEF Fields
<1>4. Plain(c, d)
  BY <1>2, <1>3, Zenon DEF Plain, ListKept, AskedKept, ModesApart, Asked
<1> QED BY <1>4 DEF d

\* A dummy filler is nobody's.
LEMMA FillerField ==
    ASSUME NEW c, DOMAIN c = Fields, NEW a, a \notin {"NORM_RAND", "ACCESS_RAND"}
    PROVE  Plain(c, [c EXCEPT !.filler = a])
<1> DEFINE d == [c EXCEPT !.filler = a]
<1>1. DOMAIN d = Fields /\ d.filler = a BY Zenon DEF Fields
<1>2. \A g \in Fields : g # "filler" => d[g] = c[g] BY Zenon
<1> HIDE DEF d
<1>3. /\ d.num_chans = c.num_chans /\ d.chans = c.chans /\ d.node = c.node /\ d.index = c.index
      /\ d.rtsc_set = c.rtsc_set /\ d.rach_delay_set = c.rach_delay_set
  BY <1>2 DEF Fields
<1>4. ~(d.filler = "NORM_RAND") /\ ~(d.filler = "ACCESS_RAND") BY <1>1
<1>5. Plain(c, d)
  BY <1>1, <1>3, <1>4, Zenon DEF Plain, ListKept, AskedKept, ModesApart, Asked
<1> QED BY <1>5 DEF d

\* The test modes set their flag and their filler.
LEMMA SetRtscKeeps ==
    ASSUME NEW c, DOMAIN c = Fields, NEW a
    PROVE  /\ ListKept(c, Config!SetRtsc(c, a)) /\ AskedKept(c, Config!SetRtsc(c, a))
           /\ ~c.rach_delay_set => ModesApart(c, Config!SetRtsc(c, a))
<1> DEFINE d == Config!SetRtsc(c, a)
<1>1. DOMAIN d = Fields BY Zenon DEF Config!SetRtsc, Fields
<1>2. d.rtsc_set = TRUE /\ d.filler \in {c.filler, "NORM_RAND"} BY Zenon DEF Config!SetRtsc, Fields
<1>3. /\ d.num_chans = c.num_chans /\ d.chans = c.chans /\ d.node = c.node /\ d.index = c.index
      /\ d.rach_delay_set = c.rach_delay_set
  BY Zenon DEF Config!SetRtsc, Fields
<1> HIDE DEF d
<1>4. ~(d.filler = "ACCESS_RAND") \/ d.filler = c.filler BY <1>2
<1>5. /\ ListKept(c, d) /\ AskedKept(c, d) /\ (~c.rach_delay_set => ModesApart(c, d))
  BY <1>1, <1>2, <1>3, <1>4, Zenon DEF ListKept, AskedKept, ModesApart, Asked
<1> QED BY <1>5 DEF d

LEMMA SetRachDelayKeeps ==
    ASSUME NEW c, DOMAIN c = Fields, NEW a
    PROVE  /\ ListKept(c, Config!SetRachDelay(c, a)) /\ AskedKept(c, Config!SetRachDelay(c, a))
           /\ ~c.rtsc_set => ModesApart(c, Config!SetRachDelay(c, a))
<1> DEFINE d == Config!SetRachDelay(c, a)
<1>1. DOMAIN d = Fields BY Zenon DEF Config!SetRachDelay, Fields
<1>2. d.rach_delay_set = TRUE /\ d.filler = "ACCESS_RAND" BY Zenon DEF Config!SetRachDelay, Fields
<1>3. /\ d.num_chans = c.num_chans /\ d.chans = c.chans /\ d.node = c.node /\ d.index = c.index
      /\ d.rtsc_set = c.rtsc_set
  BY Zenon DEF Config!SetRachDelay, Fields
<1> HIDE DEF d
<1>4. ~(d.filler = "NORM_RAND") BY <1>2
<1>5. /\ ListKept(c, d) /\ AskedKept(c, d) /\ (~c.rtsc_set => ModesApart(c, d))
  BY <1>1, <1>2, <1>3, <1>4, Zenon DEF ListKept, AskedKept, ModesApart, Asked
<1> QED BY <1>5 DEF d

\* Commands other than those that go to another node or change the list.
PlainCommands == Config!AllCommands \ {"trx", "chan", "rx-path", "tx-path"}

LEMMA PlainHandled ==
    ASSUME NEW c, DOMAIN c = Fields, NEW name \in PlainCommands, NEW a
    PROVE  Plain(c, Config!Handle(c, name, a))
<1> DEFINE d == Config!Handle(c, name, a)
<1> USE DEF Others
<1>1. CASE name = "bind-ip"
  <2>1. d = [c EXCEPT !.bind_addr = a] BY <1>1, Zenon DEF Config!Handle, Config!cfg_bind_ip
  <2> QED BY <2>1, OtherField
<1>2. CASE name = "remote-ip"
  <2>1. d = [c EXCEPT !.remote_addr = a] BY <1>2, Zenon DEF Config!Handle, Config!cfg_remote_ip
  <2> QED BY <2>1, OtherField
<1>3. CASE name = "base-port"
  <2>1. d = [c EXCEPT !.base_port = a] BY <1>3, Zenon DEF Config!Handle, Config!cfg_base_port
  <2> QED BY <2>1, OtherField
<1>4. CASE name = "dev-args"
  <2>1. d = [c EXCEPT !.dev_args = a] BY <1>4, Zenon DEF Config!Handle, Config!cfg_dev_args
  <2> QED BY <2>1, OtherField
<1>5. CASE name = "tx-sps"
  <2>1. d = [c EXCEPT !.tx_sps = a] BY <1>5, Zenon DEF Config!Handle, Config!cfg_tx_sps
  <2> QED BY <2>1, OtherField
<1>6. CASE name = "rx-sps"
  <2>1. d = [c EXCEPT !.rx_sps = a] BY <1>6, Zenon DEF Config!Handle, Config!cfg_rx_sps
  <2> QED BY <2>1, OtherField
<1>7. CASE name = "clock-ref"
  <2>1. d = [c EXCEPT !.clock_ref = a] BY <1>7, Zenon DEF Config!Handle, Config!cfg_clock_ref
  <2> QED BY <2>1, OtherField
<1>8. CASE name = "offset"
  <2>1. d = [c EXCEPT !.offset = a] BY <1>8, Zenon DEF Config!Handle, Config!cfg_offset
  <2> QED BY <2>1, OtherField
<1>9. CASE name = "rssi-offset"
  <2>1. d = [c EXCEPT !.rssi_offset = a]
    BY <1>9, Zenon DEF Config!Handle, Config!cfg_rssi_offset
  <2> QED BY <2>1, OtherField
<1>10. CASE name = "rt-prio"
  <2>1. d = [c EXCEPT !.sched_rr = a] BY <1>10, Zenon DEF Config!Handle, Config!cfg_rt_prio
  <2> QED BY <2>1, OtherField
<1>11. CASE name = "multi-arfcn"
  <2>1. d = [c EXCEPT !.multi_arfcn = (a = "enable")]
    BY <1>11, Zenon DEF Config!Handle, Config!cfg_multi_arfcn
  <2> QED BY <2>1, OtherField
<1>12. CASE name = "swap-channels"
  <2>1. d = [c EXCEPT !.swap_channels = (a = "enable")]
    BY <1>12, Zenon DEF Config!Handle, Config!cfg_swap_channels
  <2> QED BY <2>1, OtherField
<1>13. CASE name = "ext-rach"
  <2>1. d = [c EXCEPT !.ext_rach = (a = "enable")]
    BY <1>13, Zenon DEF Config!Handle, Config!cfg_ext_rach
  <2> QED BY <2>1, OtherField
<1>14. CASE name = "filler"
  <2>1. d = [c EXCEPT !.filler = "DUMMY"] BY <1>14, Zenon DEF Config!Handle, Config!cfg_filler
  <2> QED BY <2>1, FillerField
<1>15. CASE name = "egprs"
  <2>1. d = Config!cfg_egprs(c, a) BY <1>15, Zenon DEF Config!Handle
  <2>2. CASE a = "enable"
    <3> DEFINE e == [c EXCEPT !.egprs = TRUE]
               g == [e EXCEPT !.filler = "EDGE_RAND"]
    <3>1. d = g BY <2>1, <2>2, Zenon DEF Config!cfg_egprs
    <3>2. Plain(c, e) BY OtherField
    <3>3. DOMAIN e = Fields BY <3>2 DEF Plain, ListKept
    <3> HIDE DEF e
    <3>4. Plain(e, g) BY <3>3, FillerField
    <3> HIDE DEF g
    <3>5. Plain(c, g) BY <3>2, <3>4, Zenon DEF Plain, ListKept, AskedKept, ModesApart
    <3> QED BY <3>1, <3>5
  <2>3. CASE a # "enable"
    <3>1. d = [c EXCEPT !.egprs = FALSE] BY <2>1, <2>3, Zenon DEF Config!cfg_egprs
    <3> QED BY <3>1, OtherField
  <2> QED BY <2>2, <2>3
<1>16. CASE name = "test rtsc"
  <2>1. d = IF c.rach_delay_set THEN c ELSE Config!SetRtsc(c, a)
    BY <1>16, Zenon DEF Config!Handle, Config!cfg_test_rtsc
  <2>2. CASE c.rach_delay_set
    <3>1. d = c BY <2>1, <2>2, Zenon
    <3> QED BY <3>1, Zenon DEF Plain, ListKept, AskedKept, ModesApart
  <2>3. CASE ~c.rach_delay_set
    <3>1. d = Config!SetRtsc(c, a) BY <2>1, <2>3, Zenon
    <3>2. Plain(c, Config!SetRtsc(c, a)) BY <2>3, SetRtscKeeps, Zenon DEF Plain
    <3> QED BY <3>1, <3>2, Zenon
  <2> QED BY <2>2, <2>3
<1>17. CASE name = "test rach-delay"
  <2>1. d = IF c.rtsc_set \/ c.egprs THEN c ELSE Config!SetRachDelay(c, a)
    BY <1>17, Zenon DEF Config!Handle, Config!cfg_test_rach_delay
  <2>2. CASE c.rtsc_set \/ c.egprs
    <3>1. d = c BY <2>1, <2>2, Zenon
    <3> QED BY <3>1, Zenon DEF Plain, ListKept, AskedKept, ModesApart
  <2>3. CASE ~(c.rtsc_set \/ c.egprs)
    <3>1. d = Config!SetRachDelay(c, a) BY <2>1, <2>3, Zenon
    <3>2. Plain(c, Config!SetRachDelay(c, a)) BY <2>3, SetRachDelayKeeps, Zenon DEF Plain
    <3> QED BY <3>1, <3>2, Zenon
  <2> QED BY <2>2, <2>3
<1> QED
  BY <1>1, <1>2, <1>3, <1>4, <1>5, <1>6, <1>7, <1>8, <1>9, <1>10, <1>11, <1>12, <1>13, <1>14,
     <1>15, <1>16, <1>17 DEF PlainCommands, Config!AllCommands

\* The list survives what leaves it alone.
LEMMA ListKeptOK ==
    ASSUME NEW c, NEW d, ListOK(c), ListKept(c, d)
    PROVE  ListOK(d)
BY Zenon DEF ListOK, ListKept

\* What a change of the node leaves alone.
NodeOnly(c, d) ==
    /\ DOMAIN d = Fields /\ d.num_chans = c.num_chans /\ d.chans = c.chans
    /\ d.filler = c.filler /\ d.rtsc_set = c.rtsc_set /\ d.rach_delay_set = c.rach_delay_set
    /\ \/ d.node = c.node /\ d.index = c.index
       \/ d.node \in {"CONFIG", "TRX"} /\ d.index \in {0, c.index}

LEMMA GoParentKeeps ==
    ASSUME NEW c, DOMAIN c = Fields
    PROVE  NodeOnly(c, Config!GoParent(c)) /\ NodeOnly(c, Config!GoParent(Config!GoParent(c)))
<1>1. ASSUME NEW e, DOMAIN e = Fields
      PROVE /\ DOMAIN Config!GoParent(e) = Fields
            /\ Config!GoParent(e).num_chans = e.num_chans /\ Config!GoParent(e).chans = e.chans
            /\ Config!GoParent(e).filler = e.filler
            /\ Config!GoParent(e).rtsc_set = e.rtsc_set
            /\ Config!GoParent(e).rach_delay_set = e.rach_delay_set
            /\ Config!GoParent(e).node \in {"CONFIG", "TRX"} /\ Config!GoParent(e).index = 0
  <2>1. DOMAIN Config!GoParent(e) = Fields BY <1>1, Zenon DEF Config!GoParent
  <2>2. /\ Config!GoParent(e).num_chans = e.num_chans /\ Config!GoParent(e).chans = e.chans
        /\ Config!GoParent(e).filler = e.filler
        /\ Config!GoParent(e).rtsc_set = e.rtsc_set
        /\ Config!GoParent(e).rach_delay_set = e.rach_delay_set
    BY <1>1, Zenon DEF Config!GoParent, Fields
  <2>3. /\ Config!GoParent(e).node = (IF e.node = "CHAN" THEN "TRX" ELSE "CONFIG")
        /\ Config!GoParent(e).index = 0
    BY <1>1, Zenon DEF Config!GoParent, Fields
  <2> QED BY <2>1, <2>2, <2>3
<1> DEFINE d == Config!GoParent(c)
           e == Config!GoParent(d)
<1>2. /\ DOMAIN d = Fields /\ d.num_chans = c.num_chans /\ d.chans = c.chans
      /\ d.filler = c.filler /\ d.rtsc_set = c.rtsc_set /\ d.rach_delay_set = c.rach_delay_set
      /\ d.node \in {"CONFIG", "TRX"} /\ d.index = 0
  BY <1>1, Zenon
<1> HIDE DEF d
<1>3. /\ DOMAIN e = Fields /\ e.num_chans = d.num_chans /\ e.chans = d.chans
      /\ e.filler = d.filler /\ e.rtsc_set = d.rtsc_set /\ e.rach_delay_set = d.rach_delay_set
      /\ e.node \in {"CONFIG", "TRX"} /\ e.index = 0
  BY <1>1, <1>2, Zenon
<1> HIDE DEF e
<1>4. NodeOnly(c, d) BY <1>2 DEF NodeOnly
<1>5. NodeOnly(c, e) BY <1>2, <1>3 DEF NodeOnly
<1> QED BY <1>4, <1>5 DEF d, e

LEMMA AtKeeps ==
    ASSUME NEW c, DOMAIN c = Fields, NEW name
    PROVE  NodeOnly(c, Config!At(c, name))
<1>1. Config!At(c, name) \in {c, Config!GoParent(c), Config!GoParent(Config!GoParent(c))}
  BY Zenon DEF Config!At
<1>2. NodeOnly(c, c) BY DEF NodeOnly
<1> QED BY <1>1, <1>2, GoParentKeeps

LEMMA NodeOnlyOK ==
    ASSUME NEW c, NEW d, NodeOnly(c, d)
    PROVE  /\ ListOK(c) => ListOK(d)
           /\ Asked(c) => Asked(d)
           /\ \A e : ModesApart(d, e) => ModesApart(c, e)
<1>1. Asked(c) => Asked(d) BY Zenon DEF Asked, NodeOnly
<1>2. \A e : ModesApart(d, e) => ModesApart(c, e) BY Zenon DEF ModesApart, NodeOnly
<1>3. ASSUME ListOK(c) PROVE ListOK(d)
  <2>1. /\ DOMAIN d = Fields /\ d.num_chans = c.num_chans /\ d.chans = c.chans BY DEF NodeOnly
  <2>2. d.index \in Nat /\ (d.node = "CHAN" => d.index < d.num_chans)
    BY <1>3 DEF NodeOnly, ListOK
  <2> QED BY <1>3, <2>1, <2>2, Zenon DEF ListOK
<1> QED BY <1>1, <1>2, <1>3

\* The commands that go to another node or change the list.
LEMMA ChannelHandled ==
    ASSUME NEW c, ListOK(c), NEW i \in Nat
    PROVE  /\ ListOK(Config!cfg_chan(c, i))
           /\ AskedKept(c, Config!cfg_chan(c, i)) /\ ModesApart(c, Config!cfg_chan(c, i))
<1> DEFINE d == Config!cfg_chan(c, i)
           num == c.num_chans
           e == IF num = i THEN Config!NewChan(c, i) ELSE c
<1> USE DEF Config!Chans
<1>1. CASE i >= TRX_CHAN_MAX \/ num < i
  <2>1. d = c BY <1>1, Zenon DEF Config!cfg_chan
  <2> QED BY <2>1, Zenon DEF AskedKept, ModesApart
<1>2. CASE ~(i >= TRX_CHAN_MAX \/ num < i)
  <2>1. d = [e EXCEPT !.node = "CHAN", !.index = i] BY <1>2, Zenon DEF Config!cfg_chan
  <2>2. /\ num \in 0 .. TRX_CHAN_MAX /\ i \in Config!Chans /\ i <= num
        /\ i < TRX_CHAN_MAX
    BY <1>2, ConfigAssumption DEF ListOK, Config!ConfigAssumption
  <2>3. /\ DOMAIN e = Fields /\ e.num_chans = (IF num = i THEN num + 1 ELSE num)
        /\ e.filler = c.filler /\ e.rtsc_set = c.rtsc_set /\ e.rach_delay_set = c.rach_delay_set
    <3>1. CASE num = i
      <4>1. e = Config!NewChan(c, i) BY <3>1, Zenon
      <4>2. DOMAIN c = Fields BY DEF ListOK
      <4>3. /\ DOMAIN e = Fields /\ e.num_chans = num + 1 /\ e.filler = c.filler
            /\ e.rtsc_set = c.rtsc_set /\ e.rach_delay_set = c.rach_delay_set
        BY <4>1, <4>2, Zenon DEF Config!NewChan, Fields
      <4> QED BY <3>1, <4>3
    <3>2. CASE num # i
      <4>1. e = c BY <3>2, Zenon
      <4> QED BY <3>2, <4>1 DEF ListOK
    <3> QED BY <3>1, <3>2
  <2>4. /\ DOMAIN e.chans = Config!Chans
        /\ \A k \in Config!Chans : DOMAIN e.chans[k] = ChanFields
        /\ \A k \in Config!Chans : k # i \/ num # i => e.chans[k] = c.chans[k]
        /\ num = i => e.chans[i].trx = TRUE /\ e.chans[i].idx = i
    <3>1. CASE num = i
      <4>1. e = Config!NewChan(c, i) BY <3>1, Zenon
      <4>2. /\ DOMAIN c = Fields /\ DOMAIN c.chans = Config!Chans
            /\ \A k \in Config!Chans : DOMAIN c.chans[k] = ChanFields
        BY DEF ListOK
      <4>3. e.chans = [[c.chans EXCEPT ![i].trx = TRUE] EXCEPT ![i].idx = i]
        BY <4>1, <4>2, ZenonT(40) DEF Config!NewChan, Fields
      <4> DEFINE l == c.chans
      <4>4. e.chans = [[l EXCEPT ![i].trx = TRUE] EXCEPT ![i].idx = i] BY <4>3
      <4>5. /\ DOMAIN l = Config!Chans /\ \A k \in Config!Chans : DOMAIN l[k] = ChanFields
        BY <4>2
      <4> HIDE DEF e, l
      <4>6. /\ DOMAIN e.chans = Config!Chans
            /\ \A k \in Config!Chans : k # i => e.chans[k] = l[k]
        BY <4>4, <4>5, <2>2, Zenon
      <4>7. e.chans[i] = [[l[i] EXCEPT !.trx = TRUE] EXCEPT !.idx = i]
        BY <4>4, <4>5, <2>2, Zenon
      <4>8. /\ DOMAIN e.chans[i] = ChanFields
            /\ e.chans[i].trx = TRUE /\ e.chans[i].idx = i
        BY <4>7, <4>5, <2>2, Zenon DEF ChanFields
      <4>9. \A k \in Config!Chans : DOMAIN e.chans[k] = ChanFields
        BY <4>5, <4>6, <4>8, Zenon
      <4> QED BY <3>1, <4>6, <4>8, <4>9 DEF l
    <3>2. CASE num # i
      <4>1. e = c BY <3>2, Zenon
      <4> QED BY <3>2, <4>1 DEF ListOK
    <3> QED BY <3>1, <3>2
  <2>5. /\ DOMAIN d = Fields /\ d.num_chans = e.num_chans /\ d.chans = e.chans
        /\ d.filler = e.filler /\ d.rtsc_set = e.rtsc_set /\ d.rach_delay_set = e.rach_delay_set
        /\ d.node = "CHAN" /\ d.index = i
    <3> HIDE DEF e, d
    <3> QED BY <2>1, <2>3, Zenon DEF Fields
  <2> HIDE DEF d, e
  <2>6. /\ d.num_chans \in 0 .. TRX_CHAN_MAX /\ i < d.num_chans
    BY <2>2, <2>3, <2>5, ConfigAssumption DEF Config!ConfigAssumption
  <2>7. ASSUME NEW k \in Config!Chans
        PROVE  /\ DOMAIN d.chans[k] = ChanFields
               /\ d.chans[k].trx = (k < d.num_chans)
               /\ k < d.num_chans => d.chans[k].idx = k
               /\ k >= d.num_chans => d.chans[k] = Config!NoChan
    <3>1. DOMAIN d.chans[k] = ChanFields BY <2>4, <2>5
    <3>2. /\ c.chans[k].trx = (k < num)
          /\ k < num => c.chans[k].idx = k
          /\ k >= num => c.chans[k] = Config!NoChan
      BY DEF ListOK
    <3>3. CASE k = i /\ num = i
      <4>1. d.chans[k].trx = TRUE /\ d.chans[k].idx = k BY <2>4, <2>5, <3>3
      <4>2. k < d.num_chans BY <2>6, <3>3
      <4>3. (k < d.num_chans) = TRUE /\ ~(k >= d.num_chans) BY <2>6, <4>2
      <4> QED BY <3>1, <4>1, <4>3
    <3>4. CASE ~(k = i /\ num = i)
      <4>1. d.chans[k] = c.chans[k] BY <2>4, <2>5, <3>4
      <4>2. /\ (k < d.num_chans) = (k < num)
            /\ (k >= d.num_chans) = (k >= num)
        BY <2>2, <2>3, <2>5, <3>4
      <4> QED BY <3>1, <3>2, <4>1, <4>2
    <3> QED BY <3>3, <3>4
  <2>8. ListOK(d) BY <2>2, <2>4, <2>5, <2>6, <2>7 DEF ListOK
  <2>9. AskedKept(c, d) /\ ModesApart(c, d)
    BY <2>3, <2>5, Zenon DEF AskedKept, ModesApart, Asked
  <2> QED BY <2>8, <2>9 DEF d
<1> QED BY <1>1, <1>2

LEMMA PathHandled ==
    ASSUME NEW c, ListOK(c), c.node = "CHAN", NEW f \in {"rx_path", "tx_path"}, NEW a
    PROVE  /\ ListOK([c EXCEPT !.chans[c.index][f] = a])
           /\ AskedKept(c, [c EXCEPT !.chans[c.index][f] = a])
           /\ ModesApart(c, [c EXCEPT !.chans[c.index][f] = a])
<1> DEFINE i == c.index
           l == c.chans
           d == [c EXCEPT !.chans[i][f] = a]
<1> USE DEF Config!Chans
<1>1. i \in Config!Chans
  BY ConfigAssumption DEF ListOK, Config!ConfigAssumption
<1>2. /\ DOMAIN l = Config!Chans /\ \A k \in Config!Chans : DOMAIN l[k] = ChanFields
      /\ DOMAIN c = Fields
  BY DEF ListOK
<1>3. d.chans = [l EXCEPT ![i][f] = a] BY <1>2, Zenon DEF Fields
<1>4. /\ DOMAIN d = Fields /\ d.num_chans = c.num_chans /\ d.node = c.node /\ d.index = c.index
      /\ d.filler = c.filler /\ d.rtsc_set = c.rtsc_set /\ d.rach_delay_set = c.rach_delay_set
  BY <1>2, Zenon DEF Fields
<1> HIDE DEF d, l
<1>5. /\ DOMAIN d.chans = Config!Chans
      /\ \A k \in Config!Chans : k # i => d.chans[k] = l[k]
      /\ d.chans[i] = [l[i] EXCEPT ![f] = a]
  BY <1>1, <1>2, <1>3, Zenon
<1>6. f # "trx" /\ f # "idx" OBVIOUS
<1>7. DOMAIN d.chans[i] = ChanFields /\ d.chans[i].trx = l[i].trx /\ d.chans[i].idx = l[i].idx
  BY <1>1, <1>2, <1>5, <1>6, Zenon DEF ChanFields
<1>8. \A k \in Config!Chans : /\ DOMAIN d.chans[k] = ChanFields
                              /\ d.chans[k].trx = l[k].trx /\ d.chans[k].idx = l[k].idx
  BY <1>2, <1>5, <1>7, Zenon
<1>9. ListOK(d)
  <2>1. \A k \in Config!Chans : /\ l[k].trx = (k < d.num_chans)
                                /\ k < d.num_chans => l[k].idx = k
                                /\ k >= d.num_chans => l[k] = Config!NoChan
    BY <1>4, Zenon DEF ListOK, l
  <2>2. /\ d.num_chans \in 0 .. TRX_CHAN_MAX /\ d.index \in Nat
        /\ d.node = "CHAN" => d.index < d.num_chans
    BY <1>4, Zenon DEF ListOK
  <2>3. \A k \in Config!Chans : /\ d.chans[k].trx = (k < d.num_chans)
                                /\ k < d.num_chans => d.chans[k].idx = k
    BY <2>1, <1>8, Zenon
  <2>4. \A k \in Config!Chans : k >= d.num_chans => k # i
    <3>1. i < d.num_chans /\ d.num_chans \in Int /\ i \in Int BY <1>1, <1>4 DEF ListOK
    <3> HIDE DEF i
    <3> QED BY <3>1
  <2>5. \A k \in Config!Chans : k >= d.num_chans => d.chans[k] = Config!NoChan
    BY <1>5, <2>1, <2>4, Zenon
  <2> QED BY <1>4, <1>5, <1>8, <2>2, <2>3, <2>5, Zenon DEF ListOK
<1>10. AskedKept(c, d) /\ ModesApart(c, d) BY <1>4, Zenon DEF AskedKept, ModesApart, Asked
<1> QED BY <1>9, <1>10 DEF d

\* A command of the VTY.
LEMMA Executed ==
    ASSUME NEW c, ListOK(c), Asked(c), NEW cmd \in Commands
    PROVE  /\ ListOK(Config!Execute(c, cmd)) /\ Asked(Config!Execute(c, cmd))
           /\ ModesApart(c, Config!Execute(c, cmd))
<1> DEFINE name == cmd[1]
           a == cmd[2]
           b == Config!At(c, name)
           d == Config!Execute(c, cmd)
<1>1. name \in Config!AllCommands /\ (name = "chan" => a \in Nat)
  <2>1. \A e \in Commands : e[1] \in Config!AllCommands /\ (e[1] = "chan" => e[2] \in Nat)
    BY ConfigAssumption DEF Config!ConfigAssumption
  <2> QED BY <2>1
<1>2. NodeOnly(c, b) BY AtKeeps DEF ListOK
<1>3. ListOK(b) /\ Asked(b) /\ \A e : ModesApart(b, e) => ModesApart(c, e)
  BY <1>2, NodeOnlyOK, Zenon
<1>4. CASE ~Config!Known(c, name)
  <2>1. d = c BY <1>4, Zenon DEF Config!Execute
  <2> QED BY <2>1, Zenon DEF ModesApart
<1>5. CASE Config!Known(c, name)
  <2>1. d = Config!Handle(b, name, a) BY <1>5, Zenon DEF Config!Execute
  <2>2. b.node = Config!NodeOf(name) BY <1>5, Zenon DEF Config!Known
  <2> HIDE DEF b, d, name, a
  <2>3. SUFFICES ListOK(d) /\ AskedKept(b, d) /\ ModesApart(b, d)
    BY <1>3, Zenon DEF AskedKept, d
  <2>4. CASE name \in PlainCommands
    <3>1. Plain(b, d) BY <2>1, <2>4, <1>3, PlainHandled, Zenon DEF ListOK
    <3> QED BY <1>3, <3>1, ListKeptOK, Zenon DEF Plain
  <2>5. CASE name = "trx"
    <3>1. d = [b EXCEPT !.node = "TRX"]
      BY <2>1, <2>5, Zenon DEF Config!Handle, Config!cfg_trx
    <3>2. DOMAIN b = Fields BY <1>3 DEF ListOK
    <3>3. /\ DOMAIN d = Fields /\ d.num_chans = b.num_chans /\ d.chans = b.chans
          /\ d.filler = b.filler /\ d.rtsc_set = b.rtsc_set
          /\ d.rach_delay_set = b.rach_delay_set /\ d.node = "TRX" /\ d.index = b.index
      BY <3>1, <3>2, Zenon DEF Fields
    <3>4. NodeOnly(b, d) BY <3>3 DEF NodeOnly
    <3>5. \A e : ModesApart(d, e) => ModesApart(b, e) BY <3>4, NodeOnlyOK, Zenon
    <3>6. ModesApart(d, d) BY Zenon DEF ModesApart
    <3> QED BY <1>3, <3>4, <3>5, <3>6, NodeOnlyOK, Zenon DEF AskedKept
  <2>6. CASE name = "chan"
    <3>1. d = Config!cfg_chan(b, a) BY <2>1, <2>6, Zenon DEF Config!Handle
    <3>2. a \in Nat BY <1>1, <2>6 DEF name, a
    <3> QED BY <1>3, <3>1, <3>2, ChannelHandled, Zenon
  <2>7. CASE name = "rx-path"
    <3>1. d = [b EXCEPT !.chans[b.index]["rx_path"] = a]
      BY <2>1, <2>7, Zenon DEF Config!Handle, Config!cfg_chan_rx_path
    <3>2. b.node = "CHAN" BY <2>2, <2>7 DEF Config!NodeOf, Config!ChanCommands
    <3> QED BY <1>3, <3>1, <3>2, PathHandled, Zenon
  <2>8. CASE name = "tx-path"
    <3>1. d = [b EXCEPT !.chans[b.index]["tx_path"] = a]
      BY <2>1, <2>8, Zenon DEF Config!Handle, Config!cfg_chan_tx_path
    <3>2. b.node = "CHAN" BY <2>2, <2>8 DEF Config!NodeOf, Config!ChanCommands
    <3> QED BY <1>3, <3>1, <3>2, PathHandled, Zenon
  <2>9. name \in PlainCommands \cup {"trx", "chan", "rx-path", "tx-path"}
    BY <1>1 DEF PlainCommands, name
  <2> QED BY <2>4, <2>5, <2>6, <2>7, <2>8, <2>9
<1> QED BY <1>4, <1>5

LEMMA SetKeeps ==
    ASSUME NEW c, DOMAIN c = Fields, NEW f \in Others, NEW a
    PROVE  ListKept(c, Config!Set(c, f, a)) /\ AskedKept(c, Config!Set(c, f, a))
BY OtherField DEF Config!Set, Plain

LEMMA DummyKeeps ==
    ASSUME NEW c, DOMAIN c = Fields
    PROVE  /\ ListKept(c, Config!Set(c, "filler", "DUMMY"))
           /\ AskedKept(c, Config!Set(c, "filler", "DUMMY"))
<1>1. Plain(c, [c EXCEPT !.filler = "DUMMY"]) BY FillerField
<1> QED BY <1>1, Zenon DEF Plain, Config!Set

\* An option sets a field, or a test mode.
LEMMA OptionSets ==
    ASSUME NEW c, DOMAIN c = Fields, NEW o \in Config!AllOptions \ {"c", "y", "z"}
    PROVE  ListKept(c, Config!SetOption(c, o)) /\ AskedKept(c, Config!SetOption(c, o))
<1> DEFINE d == Config!SetOption(c, o)
<1>1. CASE o = "a"
  <2>1. d = Config!Set(c, "dev_args", "args") BY <1>1, SMT DEF Config!SetOption
  <2> QED BY <2>1, SetKeeps DEF Others
<1>2. CASE o = "i"
  <2>1. d = Config!Set(c, "remote_addr", "addr") BY <1>2, SMT DEF Config!SetOption
  <2> QED BY <2>1, SetKeeps DEF Others
<1>3. CASE o = "j"
  <2>1. d = Config!Set(c, "bind_addr", "addr") BY <1>3, SMT DEF Config!SetOption
  <2> QED BY <2>1, SetKeeps DEF Others
<1>4. CASE o = "p"
  <2>1. d = Config!Set(c, "base_port", 5800) BY <1>4, SMT DEF Config!SetOption
  <2> QED BY <2>1, SetKeeps DEF Others
<1>5. CASE o = "m"
  <2>1. d = Config!Set(c, "multi_arfcn", TRUE) BY <1>5, SMT DEF Config!SetOption
  <2> QED BY <2>1, SetKeeps DEF Others
<1>6. CASE o = "x"
  <2>1. d = Config!Set(c, "clock_ref", "external") BY <1>6, SMT DEF Config!SetOption
  <2> QED BY <2>1, SetKeeps DEF Others
<1>7. CASE o = "g"
  <2>1. d = Config!Set(c, "clock_ref", "gpsdo") BY <1>7, SMT DEF Config!SetOption
  <2> QED BY <2>1, SetKeeps DEF Others
<1>8. CASE o = "o"
  <2>1. d = Config!Set(c, "offset", 1) BY <1>8, SMT DEF Config!SetOption
  <2> QED BY <2>1, SetKeeps DEF Others
<1>9. CASE o = "s"
  <2>1. d = Config!Set(c, "tx_sps", 1) BY <1>9, SMT DEF Config!SetOption
  <2> QED BY <2>1, SetKeeps DEF Others
<1>10. CASE o = "b"
  <2>1. d = Config!Set(c, "rx_sps", 4) BY <1>10, SMT DEF Config!SetOption
  <2> QED BY <2>1, SetKeeps DEF Others
<1>11. CASE o = "R"
  <2>1. d = Config!Set(c, "rssi_offset", 1) BY <1>11, SMT DEF Config!SetOption
  <2> QED BY <2>1, SetKeeps DEF Others
<1>12. CASE o = "S"
  <2>1. d = Config!Set(c, "swap_channels", TRUE) BY <1>12, SMT DEF Config!SetOption
  <2> QED BY <2>1, SetKeeps DEF Others
<1>13. CASE o = "e"
  <2>1. d = Config!Set(c, "egprs", TRUE) BY <1>13, SMT DEF Config!SetOption
  <2> QED BY <2>1, SetKeeps DEF Others
<1>14. CASE o = "t"
  <2>1. d = Config!Set(c, "sched_rr", 18) BY <1>14, SMT DEF Config!SetOption
  <2> QED BY <2>1, SetKeeps DEF Others
<1>15. CASE o = "f"
  <2>1. d = Config!Set(c, "filler", "DUMMY") BY <1>15, SMT DEF Config!SetOption
  <2> QED BY <2>1, DummyKeeps
<1>16. CASE o = "r"
  <2>1. d = Config!SetRtsc(c, 5) BY <1>16, SMT DEF Config!SetOption
  <2> QED BY <2>1, SetRtscKeeps
<1>17. CASE o = "A"
  <2>1. d = Config!SetRachDelay(c, 3) BY <1>17, SMT DEF Config!SetOption
  <2> QED BY <2>1, SetRachDelayKeeps
<1>18. o \in {"a", "i", "j", "p", "m", "x", "g", "o", "s", "b", "R", "S", "e", "t", "f", "r", "A"}
  BY DEF Config!AllOptions
<1> QED BY <1>18, <1>1, <1>2, <1>3, <1>4, <1>5, <1>6, <1>7, <1>8, <1>9,
           <1>10, <1>11, <1>12, <1>13, <1>14, <1>15, <1>16, <1>17, Zenon

LEMMA ConfigInit == Config!Init => ConfigIInv
<1> SUFFICES ASSUME Config!Init PROVE ConfigIInv OBVIOUS
<1>1. phase = "options" /\ cfg = Config!Default BY DEF Config!Init
<1>2. DOMAIN cfg = Fields BY <1>1, Zenon DEF Config!Default, Fields
<1>3. /\ cfg.filler = "ZERO" /\ cfg.num_chans = 0 /\ cfg.node = "CONFIG" /\ cfg.index = 0
      /\ cfg.chans = [i \in Config!Chans |-> Config!NoChan]
  BY <1>1, Zenon DEF Config!Default
<1>4. Asked(cfg) BY <1>3 DEF Asked
<1>5. NoList(cfg) BY <1>3 DEF NoList
<1> QED BY <1>1, <1>2, <1>4, <1>5 DEF ConfigIInv, Config!ActiveIsValid

LEMMA OptionStep == ConfigIInv /\ Config!Option => ConfigIInv'
<1> SUFFICES ASSUME ConfigIInv, Config!Option PROVE ConfigIInv' OBVIOUS
<1>1. phase = "options" /\ phase' = "options" /\ DOMAIN cfg = Fields /\ NoList(cfg) /\ Asked(cfg)
  BY DEF ConfigIInv, Config!Option
<1>2. SUFFICES DOMAIN cfg' = Fields /\ Asked(cfg') /\ NoList(cfg')
  BY <1>1 DEF ConfigIInv, Config!ActiveIsValid
<1>3. CASE \E o \in OptionNames \ {"c", "y", "z"} : cfg' = Config!SetOption(cfg, o)
  <2>1. PICK o \in Config!AllOptions \ {"c", "y", "z"} : cfg' = Config!SetOption(cfg, o)
    BY <1>3, ConfigAssumption DEF Config!ConfigAssumption
  <2>2. ListKept(cfg, cfg') /\ AskedKept(cfg, cfg') BY <1>1, <2>1, OptionSets, Zenon
  <2> QED BY <1>1, <2>2, Zenon DEF ListKept, AskedKept, NoList
<1>4. CASE \E n \in Nat : cfg' = [cfg EXCEPT !.num_chans = n]
  <2>1. PICK n \in Nat : cfg' = [cfg EXCEPT !.num_chans = n] BY <1>4
  <2>2. /\ DOMAIN cfg' = Fields /\ cfg'.num_chans = n /\ cfg'.chans = cfg.chans
        /\ cfg'.node = cfg.node /\ cfg'.index = cfg.index /\ cfg'.filler = cfg.filler
        /\ cfg'.rtsc_set = cfg.rtsc_set /\ cfg'.rach_delay_set = cfg.rach_delay_set
    BY <1>1, <2>1, Zenon DEF Fields
  <2> QED BY <1>1, <2>2, Zenon DEF NoList, Asked
<1>5. CASE cfg' = cfg BY <1>1, <1>5, Zenon
<1>6. 0 .. TRX_CHAN_MAX + 1 \subseteq Nat BY ConfigAssumption DEF Config!ConfigAssumption
<1>7. \/ \E o \in OptionNames \ {"c", "y", "z"} : cfg' = Config!SetOption(cfg, o)
      \/ \E n \in 0 .. TRX_CHAN_MAX + 1 : cfg' = [cfg EXCEPT !.num_chans = n]
      \/ cfg' = cfg
  BY Zenon DEF Config!Option
<1> QED BY <1>3, <1>4, <1>5, <1>6, <1>7, Zenon

\* handle_options() fills in the channels of -c.
LEMMA OptionsDoneStep == ConfigIInv /\ Config!OptionsDone => ConfigIInv'
<1> SUFFICES ASSUME ConfigIInv, Config!OptionsDone PROVE ConfigIInv' OBVIOUS
<1> DEFINE num == cfg.num_chans
           New(l) == [i \in Config!Chans |->
                         IF i >= num THEN l[i]
                         ELSE [trx |-> TRUE, idx |-> i,
                               tx_path |-> IF paths.tx # -1 THEN "opt" ELSE l[i].tx_path,
                               rx_path |-> IF paths.rx # -1 THEN "opt" ELSE l[i].rx_path]]
<1>1. phase = "options" /\ DOMAIN cfg = Fields /\ NoList(cfg) /\ Asked(cfg)
  BY DEF ConfigIInv, Config!OptionsDone
<1>2. CASE phase' = "exited" /\ cfg' = cfg
  BY <1>1, <1>2 DEF ConfigIInv, Config!ActiveIsValid
<1>3. CASE /\ phase' = "file" /\ num <= TRX_CHAN_MAX
           /\ cfg' = [cfg EXCEPT !.chans = New(@)]
  <2>1. /\ DOMAIN cfg' = Fields /\ cfg'.num_chans = num /\ cfg'.chans = New(cfg.chans)
        /\ cfg'.node = cfg.node /\ cfg'.index = cfg.index /\ cfg'.filler = cfg.filler
        /\ cfg'.rtsc_set = cfg.rtsc_set /\ cfg'.rach_delay_set = cfg.rach_delay_set
    BY <1>1, <1>3, Zenon DEF Fields
  <2>2. Asked(cfg') BY <1>1, <2>1, Zenon DEF Asked
  <2>3. num \in Nat /\ cfg.chans = [i \in Config!Chans |-> Config!NoChan]
    BY <1>1 DEF NoList
  <2>4. ASSUME NEW i \in Config!Chans
        PROVE  /\ DOMAIN cfg'.chans[i] = ChanFields
               /\ cfg'.chans[i].trx = (i < num)
               /\ i < num => cfg'.chans[i].idx = i
               /\ i >= num => cfg'.chans[i] = Config!NoChan
    <3>1. cfg.chans[i] = Config!NoChan BY <2>3
    <3>2. i \in Int BY DEF Config!Chans
    <3>3. CASE i >= num
      <4>1. cfg'.chans[i] = Config!NoChan BY <2>1, <3>1, <3>3, Zenon
      <4>2. DOMAIN Config!NoChan = ChanFields /\ Config!NoChan.trx = FALSE
        BY DEF Config!NoChan, ChanFields
      <4>3. (i < num) = FALSE BY <3>2, <3>3, <2>3
      <4> QED BY <4>1, <4>2, <4>3
    <3>4. CASE ~(i >= num)
      <4>1. cfg'.chans[i] = [trx |-> TRUE, idx |-> i,
                 tx_path |-> IF paths.tx # -1 THEN "opt" ELSE cfg.chans[i].tx_path,
                 rx_path |-> IF paths.rx # -1 THEN "opt" ELSE cfg.chans[i].rx_path]
        BY <2>1, <3>4, Zenon
      <4>2. DOMAIN cfg'.chans[i] = ChanFields /\ cfg'.chans[i].trx = TRUE
            /\ cfg'.chans[i].idx = i
        BY <4>1 DEF ChanFields
      <4>3. (i < num) = TRUE BY <3>2, <3>4, <2>3
      <4> QED BY <3>4, <4>2, <4>3
    <3> QED BY <3>3, <3>4
  <2>5. DOMAIN cfg'.chans = Config!Chans BY <2>1
  <2>6. num \in 0 .. TRX_CHAN_MAX /\ cfg'.index \in Nat /\ cfg'.node # "CHAN"
    BY <1>1, <1>3, <2>1, <2>3, ConfigAssumption DEF NoList, Config!ConfigAssumption
  <2>7. ListOK(cfg') BY <2>1, <2>4, <2>5, <2>6, Zenon DEF ListOK
  <2> QED BY <1>3, <2>1, <2>2, <2>7 DEF ConfigIInv, Config!ActiveIsValid
<1>4. \/ phase' = "exited" /\ cfg' = cfg
      \/ /\ phase' = "file" /\ ~(num > TRX_CHAN_MAX)
         /\ cfg' = [cfg EXCEPT !.chans = New(@)]
  BY Zenon DEF Config!OptionsDone
<1>5. num \in Nat BY <1>1 DEF NoList
<1> QED BY <1>2, <1>3, <1>4, <1>5, ConfigAssumption DEF Config!ConfigAssumption

LEMMA VtyStep ==
    ConfigIInv /\ (Config!FileCommand \/ Config!VtyCommand)
    => /\ ConfigIInv' /\ ModesApart(cfg, cfg')
       /\ phase \in {"file", "run"} /\ phase' = phase
<1> SUFFICES ASSUME ConfigIInv, Config!FileCommand \/ Config!VtyCommand
             PROVE  /\ ConfigIInv' /\ ModesApart(cfg, cfg')
                    /\ phase \in {"file", "run"} /\ phase' = phase
  OBVIOUS
<1>1. PICK cmd \in Commands : cfg' = Config!Execute(cfg, cmd)
  BY Zenon DEF Config!FileCommand, Config!VtyCommand, Config!Vty
<1>2. phase \in {"file", "run"} /\ phase' = phase /\ active' = active
  BY DEF Config!FileCommand, Config!VtyCommand, Config!Vty
<1>3. ListOK(cfg) /\ Asked(cfg) BY <1>2 DEF ConfigIInv
<1>4. ListOK(cfg') /\ Asked(cfg') /\ ModesApart(cfg, cfg') BY <1>1, <1>3, Executed, Zenon
<1> QED BY <1>2, <1>4 DEF ConfigIInv, ListOK, Config!ActiveIsValid

\* One channel by default; then what runs is what was validated.
LEMMA ConfigStarts ==
    ConfigIInv /\ Config!Start
    => /\ ConfigIInv' /\ ModesApart(cfg, cfg')
       /\ phase = "file"
<1> SUFFICES ASSUME ConfigIInv, Config!Start
             PROVE  ConfigIInv' /\ ModesApart(cfg, cfg') /\ phase = "file"
  OBVIOUS
<1> DEFINE b == Config!AtLeastOne(cfg)
           c == Config!GoParent(Config!GoParent(b))
<1>1. phase = "file" /\ ListOK(cfg) /\ Asked(cfg) BY DEF ConfigIInv, Config!Start
<1>2. ListOK(b) /\ Asked(b) /\ ModesApart(cfg, b) /\ b.num_chans >= 1
  <2>1. CASE cfg.num_chans = 0
    <3> DEFINE d == Config!cfg_chan(cfg, 0)
    <3>1. b = Config!NewChan(cfg, 0) BY <2>1, Zenon DEF Config!AtLeastOne
    <3>2. ListOK(d) /\ AskedKept(cfg, d) /\ ModesApart(cfg, d) BY <1>1, ChannelHandled, Zenon
    <3>3. ~(0 >= TRX_CHAN_MAX) /\ ~(cfg.num_chans < 0)
      BY <2>1, ConfigAssumption DEF Config!ConfigAssumption
    <3>4. d = [b EXCEPT !.node = "CHAN", !.index = 0]
      BY <2>1, <3>1, <3>3, Zenon DEF Config!cfg_chan
    <3>5. DOMAIN b = Fields /\ b.num_chans = 0 + 1 /\ b.index = cfg.index /\ b.node = cfg.node
      BY <1>1, <2>1, <3>1, Zenon DEF Config!NewChan, ListOK, Fields
    <3>6. /\ d.num_chans = b.num_chans /\ d.chans = b.chans
          /\ d.filler = b.filler /\ d.rtsc_set = b.rtsc_set
          /\ d.rach_delay_set = b.rach_delay_set
      <4> HIDE DEF b, d
      <4> QED BY <3>4, <3>5, Zenon DEF Fields
    <3>7. b.index \in Nat /\ (b.node = "CHAN" => b.index < b.num_chans)
      BY <1>1, <2>1, <3>5 DEF ListOK
    <3>8. ListOK(b)
      <4> HIDE DEF b, d
      <4> QED BY <3>2, <3>5, <3>6, <3>7, Zenon DEF ListOK
    <3>9. Asked(b) /\ ModesApart(cfg, b)
      <4> HIDE DEF b, d
      <4> QED BY <1>1, <3>2, <3>6, Zenon DEF AskedKept, ModesApart, Asked
    <3> QED BY <3>5, <3>8, <3>9
  <2>2. CASE cfg.num_chans # 0
    <3>1. b = cfg BY <2>2, Zenon DEF Config!AtLeastOne
    <3>2. cfg.num_chans >= 1 BY <1>1, <2>2 DEF ListOK
    <3> QED BY <1>1, <3>1, <3>2, Zenon DEF ModesApart
  <2> QED BY <2>1, <2>2
<1> HIDE DEF b
<1>3. NodeOnly(b, c) BY <1>2, GoParentKeeps DEF ListOK
<1> HIDE DEF c
<1>4. ListOK(c) /\ Asked(c) /\ c.num_chans = b.num_chans
  BY <1>2, <1>3, NodeOnlyOK, Zenon DEF NodeOnly
<1>5. ModesApart(cfg, c) BY <1>2, <1>3, Zenon DEF ModesApart, NodeOnly
<1>6. /\ cfg' = c
      /\ \/ phase' = "exited"
         \/ Config!trx_validate_config(c) /\ phase' = "run" /\ active' = c
  BY Zenon DEF Config!Start, c, b
<1>7. phase' = "run" => Config!ActiveIsValid'
  <2> SUFFICES ASSUME phase' = "run" PROVE Config!ActiveIsValid' OBVIOUS
  <2>1. Config!trx_validate_config(c) /\ active' = c BY <1>6
  <2>2. c.num_chans \in 1 .. TRX_CHAN_MAX
    BY <1>2, <1>4, ConfigAssumption DEF ListOK, Config!ConfigAssumption
  <2>3. c.egprs \/ c.multi_arfcn => c.tx_sps = 4 /\ c.rx_sps = 4
    BY <2>1, Zenon DEF Config!trx_validate_config
  <2> QED BY <2>1, <2>2, <2>3, Zenon DEF Config!ActiveIsValid
<1>8. DOMAIN c = Fields BY <1>4 DEF ListOK
<1>9. Config!ActiveIsValid' BY <1>6, <1>7 DEF Config!ActiveIsValid
<1> QED BY <1>1, <1>4, <1>5, <1>6, <1>8, <1>9 DEF ConfigIInv

LEMMA ConfigUnchanged ==
    ASSUME ConfigIInv, UNCHANGED configVars
    PROVE  ConfigIInv'
BY DEF ConfigIInv, configVars, Asked, NoList, ListOK, Config!ActiveIsValid

\* One case per action; commands and the start are those after the options.
LEMMA ConfigStep ==
    ASSUME ConfigIInv, Config!Next
    PROVE  /\ ConfigIInv'
           /\ phase \in {"file", "run"} => ModesApart(cfg, cfg')
<1>1. CASE Config!Option
  <2>1. phase = "options" BY <1>1 DEF Config!Option
  <2> QED BY <1>1, <2>1, OptionStep
<1>2. CASE Config!OptionsDone
  <2>1. phase = "options" BY <1>2 DEF Config!OptionsDone
  <2> QED BY <1>2, <2>1, OptionsDoneStep
<1>3. CASE Config!FileCommand \/ Config!VtyCommand BY <1>3, VtyStep
<1>4. CASE Config!Start BY <1>4, ConfigStarts
<1> QED BY <1>1, <1>2, <1>3, <1>4 DEF Config!Next

LEMMA ConfigKept == ConfigIInv /\ [StartNext]_<<part, configVars, trxVars>> => ConfigIInv'
<1> SUFFICES ASSUME ConfigIInv, [StartNext]_<<part, configVars, trxVars>> PROVE ConfigIInv'
  OBVIOUS
<1>1. Config!Next \/ UNCHANGED configVars BY DEF StartNext
<1> QED BY <1>1, ConfigStep, ConfigUnchanged

LEMMA ConfigModes ==
    ConfigIInv /\ [StartNext]_<<part, configVars, trxVars>>
    => [Config!Past /\ cfg'.rtsc_set /\ cfg'.rach_delay_set
        => cfg.rtsc_set /\ cfg.rach_delay_set]_(Config!vars)
<1> SUFFICES ASSUME ConfigIInv, [StartNext]_<<part, configVars, trxVars>>,
                    phase \in {"file", "run"}, cfg'.rtsc_set, cfg'.rach_delay_set
             PROVE  UNCHANGED configVars \/ (cfg.rtsc_set /\ cfg.rach_delay_set)
  BY Zenon DEF Config!Past, Config!vars, configVars
<1>1. Config!Next \/ UNCHANGED configVars BY DEF StartNext
<1> QED BY <1>1, ConfigStep, Zenon DEF ModesApart

\* The invariant of the configuration, whatever options and commands are
\* given: handle_options, the commands of trx_vty.c, main.
THEOREM ConfigurationInductive == StartSpec => []ConfigIInv
<1>1. StartInit => ConfigIInv BY ConfigInit DEF StartInit
<1> QED BY <1>1, ConfigKept, PTL DEF StartSpec

\* The channel list is complete, what runs was validated, and a random filler
\* is one that was asked for (handle_options, cfg_chan, cfg_egprs, main).
LEMMA ConfigListed ==
    StartSpec => [](Config!ChansFilled /\ Config!ActiveIsValid /\ Config!FillerAskedFor)
<1>1. ConfigIInv => Config!ChansFilled
  <2> SUFFICES ASSUME ConfigIInv, Config!Past PROVE Config!ChansFilled!2
    BY DEF Config!ChansFilled
  <2>1. ListOK(cfg) BY DEF ConfigIInv, Config!Past
  <2> QED BY <2>1 DEF ListOK
<1>2. ConfigIInv => Config!ActiveIsValid /\ Config!FillerAskedFor
  BY DEF ConfigIInv, Asked, Config!FillerAskedFor
<1> QED BY <1>1, <1>2, ConfigurationInductive, PTL

\* No VTY command sets both test modes (cfg_test_rtsc, cfg_test_rach_delay).
THEOREM StKeepsModesApart == StartSpec => VtyKeepsModesApart
<1>1. StartSpec => []ConfigIInv BY ConfigurationInductive
<1> QED BY <1>1, ConfigModes, PTL DEF StartSpec, VtyKeepsModesApart, Config!VtyKeepsModesApart

-----------------------------------------------------------------------------
(* What is written is what is read (config_write_trx, and the commands):   *)
(* for any number of channels and any values of the settings.              *)

\* The list of channels is one of records.
Records(l) ==
    /\ l = [i \in Config!Chans |-> l[i]]
    /\ \A i \in Config!Chans : l[i] = [f \in ChanFields |-> l[i][f]]

\* The switches are TRUE or FALSE, and a test mode that is not set has the
\* value of a new process.
Flags == {"multi_arfcn", "swap_channels", "egprs", "ext_rach", "rtsc_set", "rach_delay_set"}
Writable(c) ==
    /\ DOMAIN c = Fields /\ Records(c.chans)
    /\ \A f \in Flags : c[f] \in BOOLEAN
    /\ ~c.rtsc_set => c.rtsc = 0
    /\ ~c.rach_delay_set => c.rach_delay = 0

\* The commands that set one field, and those that switch one.
Setters ==
    {<<"bind-ip", "bind_addr">>, <<"remote-ip", "remote_addr">>, <<"base-port", "base_port">>,
     <<"dev-args", "dev_args">>, <<"tx-sps", "tx_sps">>, <<"rx-sps", "rx_sps">>,
     <<"clock-ref", "clock_ref">>, <<"offset", "offset">>, <<"rssi-offset", "rssi_offset">>,
     <<"rt-prio", "sched_rr">>}
Switchers ==
    {<<"multi-arfcn", "multi_arfcn">>, <<"swap-channels", "swap_channels">>,
     <<"ext-rach", "ext_rach">>}

LEMMA SetterSets ==
    ASSUME NEW c, NEW s \in Setters, NEW a
    PROVE  Config!Handle(c, s[1], a) = [c EXCEPT ![s[2]] = a]
<1>1. CASE s = <<"bind-ip", "bind_addr">>
  BY <1>1, Zenon DEF Config!Handle, Config!cfg_bind_ip
<1>2. CASE s = <<"remote-ip", "remote_addr">>
  BY <1>2, Zenon DEF Config!Handle, Config!cfg_remote_ip
<1>3. CASE s = <<"base-port", "base_port">>
  BY <1>3, Zenon DEF Config!Handle, Config!cfg_base_port
<1>4. CASE s = <<"dev-args", "dev_args">>
  BY <1>4, Zenon DEF Config!Handle, Config!cfg_dev_args
<1>5. CASE s = <<"tx-sps", "tx_sps">>
  BY <1>5, Zenon DEF Config!Handle, Config!cfg_tx_sps
<1>6. CASE s = <<"rx-sps", "rx_sps">>
  BY <1>6, Zenon DEF Config!Handle, Config!cfg_rx_sps
<1>7. CASE s = <<"clock-ref", "clock_ref">>
  BY <1>7, Zenon DEF Config!Handle, Config!cfg_clock_ref
<1>8. CASE s = <<"offset", "offset">>
  BY <1>8, Zenon DEF Config!Handle, Config!cfg_offset
<1>9. CASE s = <<"rssi-offset", "rssi_offset">>
  BY <1>9, Zenon DEF Config!Handle, Config!cfg_rssi_offset
<1>10. CASE s = <<"rt-prio", "sched_rr">>
  BY <1>10, Zenon DEF Config!Handle, Config!cfg_rt_prio
<1> QED BY <1>1, <1>2, <1>3, <1>4, <1>5, <1>6, <1>7, <1>8, <1>9, <1>10, Zenon DEF Setters

LEMMA SwitcherSets ==
    ASSUME NEW c, NEW s \in Switchers, NEW a
    PROVE  Config!Handle(c, s[1], a) = [c EXCEPT ![s[2]] = (a = "enable")]
<1>1. CASE s = <<"multi-arfcn", "multi_arfcn">>
  BY <1>1, Zenon DEF Config!Handle, Config!cfg_multi_arfcn
<1>2. CASE s = <<"swap-channels", "swap_channels">>
  BY <1>2, Zenon DEF Config!Handle, Config!cfg_swap_channels
<1>3. CASE s = <<"ext-rach", "ext_rach">>
  BY <1>3, Zenon DEF Config!Handle, Config!cfg_ext_rach
<1> QED BY <1>1, <1>2, <1>3, Zenon DEF Switchers

\* Fields whose value does not matter to Writable.
Free ==
    {"bind_addr", "remote_addr", "base_port", "dev_args", "tx_sps", "rx_sps", "clock_ref",
     "filler", "offset", "rssi_offset", "sched_rr", "num_chans", "node", "index"}

LEMMA FreeField ==
    ASSUME NEW c, NEW d, Writable(c), DOMAIN d = Fields,
           \A f \in Fields \ Free : d[f] = c[f]
    PROVE  Writable(d)
<1>1. Flags \subseteq Fields \ Free /\ {"rtsc", "rach_delay", "chans"} \subseteq Fields \ Free
  BY DEF Flags, Fields, Free
<1> QED BY <1>1, Zenon DEF Writable, Flags

LEMMA SetFree ==
    ASSUME NEW c, Writable(c), NEW f \in Free, NEW a
    PROVE  Writable([c EXCEPT ![f] = a])
<1> DEFINE d == [c EXCEPT ![f] = a]
<1>1. DOMAIN d = Fields BY Zenon DEF Writable
<1>2. \A g \in Fields \ Free : d[g] = c[g] BY Zenon DEF Writable
<1> QED BY <1>1, <1>2, FreeField, Zenon

LEMMA SetSwitch ==
    ASSUME NEW c, Writable(c), NEW f \in Flags \ {"rtsc_set", "rach_delay_set"}, NEW a \in BOOLEAN
    PROVE  Writable([c EXCEPT ![f] = a])
<1> DEFINE d == [c EXCEPT ![f] = a]
<1>1. DOMAIN d = Fields BY Zenon DEF Writable
<1>2. d[f] = a /\ \A g \in Fields \ {f} : d[g] = c[g]
  BY Zenon DEF Writable, Flags, Fields
<1>3. /\ f \notin {"rtsc_set", "rach_delay_set", "rtsc", "rach_delay", "chans"}
      /\ {"rtsc_set", "rach_delay_set", "rtsc", "rach_delay", "chans"} \subseteq Fields
      /\ Flags \subseteq Fields
  BY DEF Flags, Fields
<1> HIDE DEF d
<1>4. \A g \in Flags : d[g] \in BOOLEAN BY <1>2, <1>3, Zenon DEF Writable
<1>5. /\ d.rtsc_set = c.rtsc_set /\ d.rtsc = c.rtsc
      /\ d.rach_delay_set = c.rach_delay_set /\ d.rach_delay = c.rach_delay
      /\ d.chans = c.chans
  BY <1>2, <1>3, Zenon
<1>6. Writable(d) BY <1>1, <1>4, <1>5, Zenon DEF Writable
<1> QED BY <1>6 DEF d

\* Changes of the list of channels.
LEMMA RecordSet ==
    ASSUME NEW l, Records(l), NEW i, NEW f, NEW a
    PROVE  Records([l EXCEPT ![i][f] = a])
<1> DEFINE m == [l EXCEPT ![i][f] = a]
<1>1. /\ DOMAIN l = Config!Chans
      /\ \A j \in Config!Chans : l[j] = [g \in ChanFields |-> l[j][g]]
  BY DEF Records
<1>2. m = [j \in Config!Chans |-> m[j]]
      /\ \A j \in Config!Chans : m[j] = (IF j = i THEN [l[i] EXCEPT ![f] = a] ELSE l[j])
  BY <1>1, Zenon
<1>3. ASSUME NEW j \in Config!Chans PROVE m[j] = [g \in ChanFields |-> m[j][g]]
  <2> DEFINE y == [l[j] EXCEPT ![f] = a]
  <2>1. CASE j = i
    <3>1. DOMAIN l[j] = ChanFields BY <1>1
    <3>2. y = [g \in ChanFields |-> y[g]] BY <3>1, Zenon
    <3>3. m[j] = y BY <1>2, <2>1, Zenon
    <3> HIDE DEF m, y
    <3> QED BY <3>2, <3>3, Zenon
  <2>2. CASE j # i
    <3>1. m[j] = l[j] BY <1>2, <2>2
    <3> HIDE DEF m
    <3> QED BY <1>1, <3>1, Zenon
  <2> QED BY <2>1, <2>2
<1> HIDE DEF m
<1>4. Records(m) BY <1>2, <1>3, Zenon DEF Records
<1> QED BY <1>4 DEF m

LEMMA ChansField ==
    ASSUME NEW c, NEW d, Writable(c), DOMAIN d = Fields, Records(d.chans),
           \A f \in Fields \ Free : f # "chans" => d[f] = c[f]
    PROVE  Writable(d)
<1>1. /\ Flags \subseteq Fields \ Free /\ {"rtsc", "rach_delay"} \subseteq Fields \ Free
      /\ "chans" \notin Flags
  BY DEF Flags, Fields, Free
<1>2. d.rtsc = c.rtsc /\ d.rach_delay = c.rach_delay /\ \A f \in Flags : d[f] = c[f]
  BY <1>1
<1>3. "rtsc_set" \in Flags /\ "rach_delay_set" \in Flags BY DEF Flags
<1> QED BY <1>2, <1>3, Zenon DEF Writable

\* The test modes.
LEMMA RtscWritable ==
    ASSUME NEW c, Writable(c), NEW a
    PROVE  Writable(Config!SetRtsc(c, a))
<1> DEFINE d == Config!SetRtsc(c, a)
<1>1. /\ DOMAIN d = Fields /\ d.rtsc_set = TRUE /\ d.rach_delay = c.rach_delay
      /\ d.multi_arfcn = c.multi_arfcn /\ d.swap_channels = c.swap_channels
      /\ d.egprs = c.egprs /\ d.ext_rach = c.ext_rach /\ d.chans = c.chans
      /\ d.rach_delay_set = c.rach_delay_set
  BY Zenon DEF Config!SetRtsc, Writable, Fields
<1> HIDE DEF d
<1>2. Writable(d) BY <1>1 DEF Writable, Flags
<1> QED BY <1>2 DEF d

LEMMA RachWritable ==
    ASSUME NEW c, Writable(c), NEW a
    PROVE  Writable(Config!SetRachDelay(c, a))
<1> DEFINE d == Config!SetRachDelay(c, a)
<1>1. /\ DOMAIN d = Fields /\ d.rach_delay_set = TRUE /\ d.rtsc = c.rtsc
      /\ d.multi_arfcn = c.multi_arfcn /\ d.swap_channels = c.swap_channels
      /\ d.egprs = c.egprs /\ d.ext_rach = c.ext_rach /\ d.chans = c.chans
      /\ d.rtsc_set = c.rtsc_set
  BY Zenon DEF Config!SetRachDelay, Writable, Fields
<1> HIDE DEF d
<1>2. Writable(d) BY <1>1 DEF Writable, Flags
<1> QED BY <1>2 DEF d

LEMMA NewChanWritable ==
    ASSUME NEW c, Writable(c), NEW i
    PROVE  Writable(Config!NewChan(c, i))
<1> DEFINE d == Config!NewChan(c, i)
           l == c.chans
           m == [l EXCEPT ![i].trx = TRUE]
<1>1. DOMAIN c = Fields /\ Records(l) BY DEF Writable
<1>2. DOMAIN d = Fields BY <1>1, Zenon DEF Config!NewChan
<1>3. \A f \in Fields : f # "num_chans" /\ f # "chans" => d[f] = c[f]
  BY <1>1, Zenon DEF Config!NewChan
<1>4. d.chans = [m EXCEPT ![i].idx = i] BY <1>1, ZenonT(40) DEF Config!NewChan, Fields
<1> HIDE DEF d, l
<1>5. Records(m) BY <1>1, RecordSet
<1> HIDE DEF m
<1>6. Records(d.chans) BY <1>4, <1>5, RecordSet
<1>7. \A f \in Fields \ Free : f # "chans" => d[f] = c[f] BY <1>3 DEF Free
<1>8. Writable(d) BY <1>2, <1>6, <1>7, ChansField
<1> QED BY <1>8 DEF d

LEMMA HandledWritable ==
    ASSUME NEW c, Writable(c), NEW name \in Config!AllCommands, NEW a
    PROVE  Writable(Config!Handle(c, name, a))
<1> DEFINE d == Config!Handle(c, name, a)
<1>1. CASE \E s \in Setters : name = s[1]
  <2>1. PICK s \in Setters : name = s[1] BY <1>1
  <2>2. s[2] \in Free BY DEF Setters, Free
  <2>3. Writable([c EXCEPT ![s[2]] = a]) BY <2>2, SetFree
  <2>4. Config!Handle(c, s[1], a) = [c EXCEPT ![s[2]] = a] BY SetterSets
  <2> QED BY <2>1, <2>3, <2>4, Zenon
<1>2. CASE \E s \in Switchers : name = s[1]
  <2>1. PICK s \in Switchers : name = s[1] BY <1>2
  <2>2. s[2] \in Flags \ {"rtsc_set", "rach_delay_set"} BY DEF Switchers, Flags
  <2>3. Writable([c EXCEPT ![s[2]] = (a = "enable")]) BY <2>2, SetSwitch
  <2>4. Config!Handle(c, s[1], a) = [c EXCEPT ![s[2]] = (a = "enable")] BY SwitcherSets
  <2> QED BY <2>1, <2>3, <2>4, Zenon
<1>3. CASE name = "trx"
  <2>1. d = [c EXCEPT !.node = "TRX"] BY <1>3, Zenon DEF Config!Handle, Config!cfg_trx
  <2>2. "node" \in Free BY DEF Free
  <2>3. Writable([c EXCEPT !.node = "TRX"]) BY <2>2, SetFree
  <2> QED BY <2>1, <2>3, Zenon
<1>4. CASE name = "filler"
  <2>1. d = [c EXCEPT !.filler = "DUMMY"] BY <1>4, Zenon DEF Config!Handle, Config!cfg_filler
  <2>2. "filler" \in Free BY DEF Free
  <2>3. Writable([c EXCEPT !.filler = "DUMMY"]) BY <2>2, SetFree
  <2> QED BY <2>1, <2>3, Zenon
<1>5. CASE name = "egprs"
  <2>1. d = Config!cfg_egprs(c, a) BY <1>5, Zenon DEF Config!Handle
  <2> DEFINE g == [c EXCEPT !.egprs = TRUE]
  <2>2. "egprs" \in Flags \ {"rtsc_set", "rach_delay_set"} /\ "filler" \in Free
    BY DEF Flags, Free
  <2>3. d \in {[g EXCEPT !.filler = "EDGE_RAND"], [c EXCEPT !.egprs = FALSE]}
    BY <2>1, Zenon DEF Config!cfg_egprs
  <2>4. Writable(g) /\ Writable([c EXCEPT !.egprs = FALSE]) BY <2>2, SetSwitch
  <2> HIDE DEF g, d
  <2>5. Writable([g EXCEPT !.filler = "EDGE_RAND"]) BY <2>2, <2>4, SetFree
  <2>6. Writable(d) BY <2>3, <2>4, <2>5, Zenon
  <2> QED BY <2>6 DEF d
<1>6. CASE name = "test rtsc"
  <2>1. d \in {c, Config!SetRtsc(c, a)}
    BY <1>6, Zenon DEF Config!Handle, Config!cfg_test_rtsc
  <2> QED BY <2>1, RtscWritable, Zenon
<1>7. CASE name = "test rach-delay"
  <2>1. d \in {c, Config!SetRachDelay(c, a)}
    BY <1>7, Zenon DEF Config!Handle, Config!cfg_test_rach_delay
  <2> QED BY <2>1, RachWritable, Zenon
<1>8. CASE name = "chan"
  <2>1. d = Config!cfg_chan(c, a) BY <1>8, Zenon DEF Config!Handle
  <2>2. Writable(Config!NewChan(c, a)) BY NewChanWritable
  <2> DEFINE e == IF c.num_chans = a THEN Config!NewChan(c, a) ELSE c
             g == [e EXCEPT !.node = "CHAN"]
  <2>3. Writable(e) BY <2>2, Zenon
  <2>4. d \in {c, [g EXCEPT !.index = a]} BY <2>1, Zenon DEF Config!cfg_chan
  <2>5. "node" \in Free /\ "index" \in Free BY DEF Free
  <2> HIDE DEF d, e
  <2>6. Writable(g) BY <2>3, <2>5, SetFree
  <2> HIDE DEF g
  <2>7. Writable([g EXCEPT !.index = a]) BY <2>5, <2>6, SetFree
  <2>8. Writable(d) BY <2>4, <2>7, Zenon
  <2> QED BY <2>8 DEF d
<1>9. CASE name \in {"rx-path", "tx-path"}
  <2> DEFINE l == c.chans
             i == c.index
  <2>1. DOMAIN c = Fields /\ Records(l) BY DEF Writable
  <2>2. DOMAIN d = Fields
    BY <1>9, <2>1, Zenon DEF Config!Handle, Config!cfg_chan_rx_path, Config!cfg_chan_tx_path
  <2>3. \A f \in Fields : f # "chans" => d[f] = c[f]
    BY <1>9, <2>1, Zenon DEF Config!Handle, Config!cfg_chan_rx_path, Config!cfg_chan_tx_path
  <2>4. d.chans \in {[l EXCEPT ![i].rx_path = a], [l EXCEPT ![i].tx_path = a]}
    <3>1. CASE name = "rx-path"
      <4>1. d = [c EXCEPT !.chans[i].rx_path = a]
        BY <3>1, Zenon DEF Config!Handle, Config!cfg_chan_rx_path
      <4> QED BY <4>1, <2>1, Zenon DEF Fields
    <3>2. CASE name = "tx-path"
      <4>1. d = [c EXCEPT !.chans[i].tx_path = a]
        BY <3>2, Zenon DEF Config!Handle, Config!cfg_chan_tx_path
      <4> QED BY <4>1, <2>1, Zenon DEF Fields
    <3> QED BY <1>9, <3>1, <3>2
  <2> HIDE DEF d, l, i
  <2>5. Records([l EXCEPT ![i].rx_path = a]) /\ Records([l EXCEPT ![i].tx_path = a])
    BY <2>1, RecordSet
  <2>6. Records(d.chans) BY <2>4, <2>5, Zenon
  <2>7. \A f \in Fields \ Free : f # "chans" => d[f] = c[f] BY <2>3 DEF Free
  <2>8. Writable(d) BY <2>2, <2>6, <2>7, ChansField
  <2> QED BY <2>8 DEF d
<1> QED
  BY <1>1, <1>2, <1>3, <1>4, <1>5, <1>6, <1>7, <1>8, <1>9
  DEF Config!AllCommands, Setters, Switchers

LEMMA GoParentWritable ==
    ASSUME NEW c, Writable(c)
    PROVE  Writable(Config!GoParent(c))
<1> DEFINE d == Config!GoParent(c)
<1>1. DOMAIN d = Fields BY Zenon DEF Config!GoParent, Writable
<1>2. \A f \in Fields : f # "node" /\ f # "index" => d[f] = c[f]
  BY Zenon DEF Config!GoParent, Writable
<1> HIDE DEF d
<1>3. \A f \in Fields \ Free : d[f] = c[f] BY <1>2 DEF Free
<1>4. Writable(d) BY <1>1, <1>3, FreeField, Zenon
<1> QED BY <1>4 DEF d

LEMMA ExecutedWritable ==
    ASSUME NEW c, Writable(c), NEW cmd \in Commands
    PROVE  Writable(Config!Execute(c, cmd))
<1> DEFINE b == Config!At(c, cmd[1])
<1>1. cmd[1] \in Config!AllCommands
  <2>1. \A e \in Commands : e[1] \in Config!AllCommands
    BY ConfigAssumption DEF Config!ConfigAssumption
  <2> QED BY <2>1
<1>2. b \in {c, Config!GoParent(c), Config!GoParent(Config!GoParent(c))}
  BY Zenon DEF Config!At
<1>3. Writable(b) BY <1>2, GoParentWritable, Zenon
<1> HIDE DEF b
<1>4. Writable(Config!Handle(b, cmd[1], cmd[2])) BY <1>1, <1>3, HandledWritable
<1>5. Config!Execute(c, cmd) \in {c, Config!Handle(b, cmd[1], cmd[2])}
  BY Zenon DEF Config!Execute, b
<1> QED BY <1>4, <1>5, Zenon

\* The options of handle_options().
LEMMA OptionWritable ==
    ASSUME NEW c, Writable(c), NEW o \in Config!AllOptions \ {"c", "y", "z"}
    PROVE  Writable(Config!SetOption(c, o))
<1> DEFINE d == Config!SetOption(c, o)
<1>a. \A f \in Free : \A a : Writable(Config!Set(c, f, a)) BY SetFree DEF Config!Set
<1>b. \A f \in {"multi_arfcn", "swap_channels", "egprs"} : Writable(Config!Set(c, f, TRUE))
  <2>1. {"multi_arfcn", "swap_channels", "egprs"} \subseteq Flags \ {"rtsc_set", "rach_delay_set"}
    BY DEF Flags
  <2>2. \A f \in Flags \ {"rtsc_set", "rach_delay_set"} : Writable(Config!Set(c, f, TRUE))
    BY SetSwitch DEF Config!Set
  <2> QED BY <2>1, <2>2, Zenon
<1>1. CASE o = "a"
  <2>1. d = Config!Set(c, "dev_args", "args") BY <1>1, SMT DEF Config!SetOption
  <2> QED BY <2>1, <1>a DEF Free
<1>2. CASE o = "i"
  <2>1. d = Config!Set(c, "remote_addr", "addr") BY <1>2, SMT DEF Config!SetOption
  <2> QED BY <2>1, <1>a DEF Free
<1>3. CASE o = "j"
  <2>1. d = Config!Set(c, "bind_addr", "addr") BY <1>3, SMT DEF Config!SetOption
  <2> QED BY <2>1, <1>a DEF Free
<1>4. CASE o = "p"
  <2>1. d = Config!Set(c, "base_port", 5800) BY <1>4, SMT DEF Config!SetOption
  <2> QED BY <2>1, <1>a DEF Free
<1>5. CASE o = "x"
  <2>1. d = Config!Set(c, "clock_ref", "external") BY <1>5, SMT DEF Config!SetOption
  <2> QED BY <2>1, <1>a DEF Free
<1>6. CASE o = "g"
  <2>1. d = Config!Set(c, "clock_ref", "gpsdo") BY <1>6, SMT DEF Config!SetOption
  <2> QED BY <2>1, <1>a DEF Free
<1>7. CASE o = "f"
  <2>1. d = Config!Set(c, "filler", "DUMMY") BY <1>7, SMT DEF Config!SetOption
  <2> QED BY <2>1, <1>a DEF Free
<1>8. CASE o = "o"
  <2>1. d = Config!Set(c, "offset", 1) BY <1>8, SMT DEF Config!SetOption
  <2> QED BY <2>1, <1>a DEF Free
<1>9. CASE o = "s"
  <2>1. d = Config!Set(c, "tx_sps", 1) BY <1>9, SMT DEF Config!SetOption
  <2> QED BY <2>1, <1>a DEF Free
<1>10. CASE o = "b"
  <2>1. d = Config!Set(c, "rx_sps", 4) BY <1>10, SMT DEF Config!SetOption
  <2> QED BY <2>1, <1>a DEF Free
<1>11. CASE o = "R"
  <2>1. d = Config!Set(c, "rssi_offset", 1) BY <1>11, SMT DEF Config!SetOption
  <2> QED BY <2>1, <1>a DEF Free
<1>12. CASE o = "t"
  <2>1. d = Config!Set(c, "sched_rr", 18) BY <1>12, SMT DEF Config!SetOption
  <2> QED BY <2>1, <1>a DEF Free
<1>13. CASE o = "m"
  <2>1. d = Config!Set(c, "multi_arfcn", TRUE) BY <1>13, SMT DEF Config!SetOption
  <2> QED BY <2>1, <1>b
<1>14. CASE o = "S"
  <2>1. d = Config!Set(c, "swap_channels", TRUE) BY <1>14, SMT DEF Config!SetOption
  <2> QED BY <2>1, <1>b
<1>15. CASE o = "e"
  <2>1. d = Config!Set(c, "egprs", TRUE) BY <1>15, SMT DEF Config!SetOption
  <2> QED BY <2>1, <1>b
<1>16. CASE o = "r"
  <2>1. d = Config!SetRtsc(c, 5) BY <1>16, SMT DEF Config!SetOption
  <2> QED BY <2>1, RtscWritable
<1>17. CASE o = "A"
  <2>1. d = Config!SetRachDelay(c, 3) BY <1>17, SMT DEF Config!SetOption
  <2> QED BY <2>1, RachWritable
<1>18. o \in {"a", "i", "j", "p", "m", "x", "g", "o", "s", "b", "R", "S", "e", "t", "f", "r", "A"}
  BY DEF Config!AllOptions
<1> QED BY <1>18, <1>1, <1>2, <1>3, <1>4, <1>5, <1>6, <1>7, <1>8, <1>9,
           <1>10, <1>11, <1>12, <1>13, <1>14, <1>15, <1>16, <1>17, Zenon

\* One case per action.
LEMMA WritableStep ==
    ASSUME Writable(cfg), Config!Next PROVE Writable(cfg')
<1>1. CASE Config!Option
  <2>1. CASE \E o \in OptionNames \ {"c", "y", "z"} : cfg' = Config!SetOption(cfg, o)
    <3>1. PICK o \in Config!AllOptions \ {"c", "y", "z"} : cfg' = Config!SetOption(cfg, o)
      BY <2>1, ConfigAssumption DEF Config!ConfigAssumption
    <3> QED BY <3>1, OptionWritable
  <2>2. CASE \E n \in 0 .. TRX_CHAN_MAX + 1 : cfg' = [cfg EXCEPT !.num_chans = n]
    <3>1. PICK n \in 0 .. TRX_CHAN_MAX + 1 : cfg' = [cfg EXCEPT !.num_chans = n] BY <2>2
    <3>2. "num_chans" \in Free BY DEF Free
    <3>3. Writable([cfg EXCEPT !.num_chans = n]) BY <3>2, SetFree
    <3> QED BY <3>1, <3>3, Zenon
  <2>3. \/ \E o \in OptionNames \ {"c", "y", "z"} : cfg' = Config!SetOption(cfg, o)
        \/ \E n \in 0 .. TRX_CHAN_MAX + 1 : cfg' = [cfg EXCEPT !.num_chans = n]
        \/ cfg' = cfg
    BY <1>1, Zenon DEF Config!Option
  <2> QED BY <2>1, <2>2, <2>3
<1>2. CASE Config!OptionsDone
  <2> DEFINE l == cfg.chans
             Filled(i) == [trx |-> TRUE, idx |-> i,
                           tx_path |-> IF paths.tx # -1 THEN "opt" ELSE l[i].tx_path,
                           rx_path |-> IF paths.rx # -1 THEN "opt" ELSE l[i].rx_path]
             m == [i \in Config!Chans |-> IF i >= cfg.num_chans THEN l[i] ELSE Filled(i)]
  <2>1. cfg' = cfg \/ cfg' = [cfg EXCEPT !.chans = m] BY <1>2, Zenon DEF Config!OptionsDone
  <2>2. CASE cfg' = [cfg EXCEPT !.chans = m]
    <3>1. DOMAIN cfg = Fields /\ \A i \in Config!Chans : l[i] = [f \in ChanFields |-> l[i][f]]
      BY DEF Writable, Records
    <3>2. \A i \in Config!Chans : Filled(i) = [f \in ChanFields |-> Filled(i)[f]]
      BY DEF ChanFields
    <3> HIDE DEF Filled
    <3>3. Records(m) BY <3>1, <3>2 DEF Records
    <3> HIDE DEF m
    <3>4. /\ DOMAIN cfg' = Fields /\ cfg'.chans = m
          /\ \A f \in Fields : f # "chans" => cfg'[f] = cfg[f]
      BY <2>2, <3>1, Zenon DEF Fields
    <3>5. \A f \in Fields \ Free : f # "chans" => cfg'[f] = cfg[f] BY <3>4, Zenon
    <3> QED BY <3>3, <3>4, <3>5, ChansField
  <2> QED BY <2>1, <2>2, Zenon
<1>3. CASE Config!FileCommand \/ Config!VtyCommand
  <2>1. PICK cmd \in Commands : cfg' = Config!Execute(cfg, cmd)
    BY <1>3, Zenon DEF Config!FileCommand, Config!VtyCommand, Config!Vty
  <2> QED BY <2>1, ExecutedWritable
<1>4. CASE Config!Start
  <2> DEFINE b == Config!AtLeastOne(cfg)
  <2>1. Writable(Config!NewChan(cfg, 0)) BY NewChanWritable
  <2>2. Writable(b) BY <2>1, Zenon DEF Config!AtLeastOne
  <2>3. cfg' = Config!GoParent(Config!GoParent(b)) BY <1>4, Zenon DEF Config!Start
  <2> QED BY <2>2, <2>3, GoParentWritable, Zenon
<1> QED BY <1>1, <1>2, <1>3, <1>4 DEF Config!Next

LEMMA ConfigWritable == StartSpec => []Writable(cfg)
<1>1. StartInit => Writable(cfg)
  <2> SUFFICES ASSUME Config!Init PROVE Writable(cfg) BY DEF StartInit
  <2>1. cfg = Config!Default BY DEF Config!Init
  <2>2. /\ DOMAIN cfg = Fields /\ cfg.multi_arfcn = FALSE /\ cfg.swap_channels = FALSE
        /\ cfg.egprs = FALSE /\ cfg.ext_rach = FALSE /\ cfg.rtsc_set = FALSE
        /\ cfg.rach_delay_set = FALSE /\ cfg.rtsc = 0 /\ cfg.rach_delay = 0
        /\ cfg.chans = [i \in Config!Chans |-> Config!NoChan]
    BY <2>1, Zenon DEF Config!Default, Fields
  <2>3. Config!NoChan = [f \in ChanFields |-> Config!NoChan[f]] BY DEF Config!NoChan, ChanFields
  <2>4. Records(cfg.chans) BY <2>2, <2>3 DEF Records
  <2> QED BY <2>2, <2>4 DEF Writable, Flags
<1>2. Writable(cfg) /\ [StartNext]_<<part, configVars, trxVars>> => Writable(cfg)'
  <2> SUFFICES ASSUME Writable(cfg), [StartNext]_<<part, configVars, trxVars>>
               PROVE Writable(cfg')
    OBVIOUS
  <2>1. Config!Next \/ cfg' = cfg BY DEF StartNext, configVars
  <2> QED BY <2>1, WritableStep, Zenon
<1> QED BY <1>1, <1>2, PTL DEF StartSpec

\* Induction over a set of numbers.
LEMMA SetInduction ==
    ASSUME NEW S, 0 \in S, \A k \in Nat : k \in S => k + 1 \in S PROVE Nat \subseteq S
<1> DEFINE Rest == Nat \ S
           Less == OpToRel(<, Nat)
<1> SUFFICES ASSUME Rest # {} PROVE FALSE OBVIOUS
<1>1. IsWellFoundedOn(Less, Nat) BY NatLessThanWellFounded
<1>2. Rest \subseteq Nat OBVIOUS
<1> HIDE DEF Less
<1>3. PICK a \in Rest : \A b \in Rest : ~ (<<b, a>> \in Less)
  <2> HIDE DEF Rest
  <2> QED BY <1>1, <1>2, WFMin, Zenon
<1>4. a \in Nat /\ a \notin S /\ a # 0 BY <1>3
<1>5. a - 1 \in Nat /\ a - 1 < a /\ (a - 1) + 1 = a BY <1>4
<1>6. a - 1 \notin S BY <1>4, <1>5, Zenon
<1>7. <<a - 1, a>> \in Less BY <1>4, <1>5 DEF Less, OpToRel
<1> QED BY <1>3, <1>5, <1>6, <1>7

\* What a recursion computes, from what one step of it does.
LEMMA SameUpTo ==
    ASSUME NEW last1 \in Nat, NEW f, NEW g, g[0] = f[0],
           \A k \in 1 .. last1 : g[k - 1] = f[k - 1] => g[k] = f[k]
    PROVE  g[last1] = f[last1]
<1> DEFINE S == {k \in Nat : k <= last1 => g[k] = f[k]}
<1>1. 0 \in S OBVIOUS
<1>2. ASSUME NEW k \in Nat, k \in S PROVE k + 1 \in S
  <2>1. k + 1 <= last1 => k + 1 \in 1 .. last1 /\ (k + 1) - 1 = k OBVIOUS
  <2> QED BY <1>2, <2>1
<1> HIDE DEF S
<1>3. Nat \subseteq S BY <1>1, <1>2, SetInduction
<1> QED BY <1>3 DEF S

\* Reading the lines s one by one takes c to d.
ReadingOf(f, c, s) ==
    /\ DOMAIN f = 0 .. Len(s) /\ f[0] = c
    /\ \A n \in 1 .. Len(s) : f[n] = Config!Execute(f[n - 1], s[n])
Reads(c, s, d) == \E f : ReadingOf(f, c, s) /\ f[Len(s)] = d

LEMMA ReadNothing == ASSUME NEW c PROVE Reads(c, <<>>, c)
<1> DEFINE f == [n \in 0 .. 0 |-> c]
<1>1. ReadingOf(f, c, <<>>) /\ f[Len(<<>>)] = c BY DEF ReadingOf
<1> QED BY <1>1 DEF Reads

LEMMA ReadLine == ASSUME NEW c, NEW l PROVE Reads(c, <<l>>, Config!Execute(c, l))
<1> DEFINE f == [n \in 0 .. 1 |-> IF n = 0 THEN c ELSE Config!Execute(c, l)]
<1>1. Len(<<l>>) = 1 /\ <<l>>[1] = l OBVIOUS
<1>2. DOMAIN f = 0 .. 1 /\ f[0] = c /\ f[1] = Config!Execute(c, l) OBVIOUS
<1>3. \A n \in 1 .. 1 : n = 1 /\ n - 1 = 0 OBVIOUS
<1> HIDE DEF f
<1>4. ReadingOf(f, c, <<l>>) /\ f[Len(<<l>>)] = Config!Execute(c, l)
  <2>1. \A n \in 1 .. 1 : f[n] = Config!Execute(f[n - 1], <<l>>[n])
    <3> SUFFICES ASSUME NEW n \in 1 .. 1 PROVE f[n] = Config!Execute(f[n - 1], <<l>>[n]) OBVIOUS
    <3>1. n = 1 /\ n - 1 = 0 BY <1>3
    <3>2. f[n] = f[1] /\ f[n - 1] = c /\ <<l>>[n] = l BY <3>1, <1>1, <1>2
    <3> QED BY <3>2, <1>2, Zenon
  <2> QED BY <1>1, <1>2, <2>1, Zenon DEF ReadingOf
<1> QED BY <1>4, Zenon DEF Reads

LEMMA ReadBoth ==
    ASSUME NEW L, NEW s \in Seq(L), NEW t \in Seq(L), NEW c, NEW d, NEW e,
           Reads(c, s, d), Reads(d, t, e)
    PROVE  Reads(c, s \o t, e)
<1>1. PICK f : ReadingOf(f, c, s) /\ f[Len(s)] = d BY Zenon DEF Reads
<1>2. PICK g : ReadingOf(g, d, t) /\ g[Len(t)] = e BY Zenon DEF Reads
<1> DEFINE m == Len(s)
           k == Len(t)
           h == [n \in 0 .. m + k |-> IF n <= m THEN f[n] ELSE g[n - m]]
<1>3. m \in Nat /\ k \in Nat /\ Len(s \o t) = m + k OBVIOUS
<1>4. /\ \A n \in 1 .. m : (s \o t)[n] = s[n]
      /\ \A n \in 1 .. m + k : n > m => (s \o t)[n] = t[n - m]
  OBVIOUS
<1>5. DOMAIN f = 0 .. m /\ f[0] = c /\ f[m] = d
      /\ \A n \in 1 .. m : f[n] = Config!Execute(f[n - 1], s[n])
  BY <1>1 DEF ReadingOf
<1>6. DOMAIN g = 0 .. k /\ g[0] = d /\ g[k] = e
      /\ \A n \in 1 .. k : g[n] = Config!Execute(g[n - 1], t[n])
  BY <1>2 DEF ReadingOf
<1>7. /\ DOMAIN h = 0 .. m + k
      /\ \A n \in 0 .. m + k : n <= m => h[n] = f[n]
      /\ \A n \in 0 .. m + k : ~(n <= m) => h[n] = g[n - m]
  BY Zenon
<1> DEFINE st == s \o t
<1> HIDE DEF h, m, k, st
<1>8. h[0] = c BY <1>3, <1>5, <1>7
<1>9. h[m + k] = e
  <2>1. CASE k = 0
    <3>1. m + k \in 0 .. m + k /\ m + k <= m /\ m + k = m BY <2>1, <1>3
    <3> QED BY <3>1, <2>1, <1>5, <1>6, <1>7
  <2>2. CASE k # 0
    <3>1. m + k \in 0 .. m + k /\ ~(m + k <= m) /\ (m + k) - m = k BY <2>2, <1>3
    <3> QED BY <3>1, <1>6, <1>7
  <2> QED BY <2>1, <2>2
<1>10. ASSUME NEW n \in 1 .. m + k PROVE h[n] = Config!Execute(h[n - 1], st[n])
  <2>1. CASE n <= m
    <3>1. n \in 0 .. m + k /\ n - 1 \in 0 .. m + k /\ n - 1 <= m /\ n \in 1 .. m BY <2>1, <1>3
    <3>2. h[n] = f[n] /\ h[n - 1] = f[n - 1] /\ st[n] = s[n] BY <3>1, <2>1, <1>4, <1>7 DEF st
    <3> QED BY <3>1, <3>2, <1>5, Zenon
  <2>2. CASE n = m + 1
    <3>1. /\ n \in 0 .. m + k /\ n - 1 \in 0 .. m + k /\ n - 1 = m /\ m <= m /\ n - m = 1
          /\ n > m /\ ~(n <= m) /\ 1 \in 1 .. k /\ 1 - 1 = 0
      BY <2>2, <1>3
    <3>2. h[n] = g[1] /\ h[n - 1] = d /\ st[n] = t[1] BY <3>1, <1>4, <1>5, <1>7 DEF st
    <3>3. g[1] = Config!Execute(d, t[1])
      <4>1. g[1] = Config!Execute(g[1 - 1], t[1]) BY <3>1, <1>6, Zenon
      <4> QED BY <4>1, <3>1, <1>6
    <3> QED BY <3>2, <3>3, Zenon
  <2>3. CASE n > m + 1
    <3>1. /\ n \in 0 .. m + k /\ n - 1 \in 0 .. m + k /\ ~(n - 1 <= m) /\ n - m \in 1 .. k
          /\ n > m /\ ~(n <= m) /\ (n - m) - 1 = (n - 1) - m
      BY <2>3, <1>3
    <3>2. h[n] = g[n - m] /\ h[n - 1] = g[(n - m) - 1] /\ st[n] = t[n - m]
      BY <3>1, <1>4, <1>7 DEF st
    <3> QED BY <3>1, <3>2, <1>6, Zenon
  <2> QED BY <2>1, <2>2, <2>3, <1>3
<1>11. ReadingOf(h, c, st) BY <1>3, <1>7, <1>8, <1>10, Zenon DEF ReadingOf, st
<1>12. h[Len(st)] = e BY <1>3, <1>9 DEF st
<1> QED BY <1>11, <1>12, Zenon DEF Reads, st

\* What is read is what ReadBack reads.
LEMMA ReadBackIs ==
    ASSUME NEW L, NEW s \in Seq(L), NEW d, Reads(Config!Default, s, d)
    PROVE  Config!ReadBack(s) = d
<1> DEFINE m == Len(s)
           Step(g, n) == IF n = 0 THEN Config!Default ELSE Config!Execute(g[n - 1], s[n])
           Is(g) == g = [n \in 0 .. m |-> Step(g, n)]
           read == CHOOSE g : Is(g)
<1>0. m \in Nat OBVIOUS
<1>1. Config!ReadBack(s) = read[m] BY DEF Config!ReadBack
<1>2. PICK f : ReadingOf(f, Config!Default, s) /\ f[Len(s)] = d BY Zenon DEF Reads
<1>3. Is(f)
  <2>1. ASSUME NEW n \in 0 .. m PROVE f[n] = Step(f, n)
    <3>1. CASE n = 0 BY <3>1, <1>2 DEF ReadingOf
    <3>2. CASE n # 0
      <4>1. n \in 1 .. m BY <3>2, <1>0
      <4> QED BY <3>2, <4>1, <1>2 DEF ReadingOf
    <3> QED BY <3>1, <3>2
  <2>2. f = [n \in 0 .. m |-> f[n]] BY <1>2 DEF ReadingOf
  <2> HIDE DEF Step
  <2> QED BY <2>1, <2>2
<1>4. Is(read) BY <1>3
<1>5. \A n \in 0 .. m : read[n] = Step(read, n)
  <2> HIDE DEF read, Step
  <2> QED BY <1>4
<1> HIDE DEF read
<1>6. read[0] = f[0] BY <1>0, <1>5, <1>2 DEF ReadingOf
<1>7. ASSUME NEW n \in 1 .. m, read[n - 1] = f[n - 1] PROVE read[n] = f[n]
  <2>1. n \in 0 .. m /\ n # 0 BY <1>0
  <2>2. read[n] = Config!Execute(read[n - 1], s[n]) BY <2>1, <1>5
  <2>3. f[n] = Config!Execute(f[n - 1], s[n]) BY <1>2 DEF ReadingOf
  <2> QED BY <2>2, <2>3, <1>7
<1>8. read[m] = f[m]
  <2> HIDE DEF m
  <2> QED BY <1>0, <1>6, <1>7, SameUpTo
<1> QED BY <1>1, <1>2, <1>8

\* The fields that TRX commands set, in c when F of them have been read as they
\* are in d.
Settable == Fields \ {"filler", "node", "index", "num_chans", "chans"}
Progress(c, d, F) ==
    /\ DOMAIN c = Fields /\ c.node = "TRX"
    /\ c.num_chans = 0 /\ c.chans = [i \in Config!Chans |-> Config!NoChan]
    /\ \A f \in Settable : c[f] = IF f \in F THEN d[f] ELSE Config!Default[f]

\* The lines that can be written for d.
Lines(d) ==
    Config!AllCommands
    \X (({d[f] : f \in Fields} \cup {"none", "enable", "disable"} \cup Nat)
        \cup ({d.chans[i].rx_path : i \in Config!Chans}
              \cup {d.chans[i].tx_path : i \in Config!Chans}))

Wrote(s, d, F) ==
    s \in Seq(Lines(d)) /\ \E c : Reads(Config!Default, s, c) /\ Progress(c, d, F)

\* A command of the node TRX, there.
TrxCommands == Config!AllCommands \ {"trx", "rx-path", "tx-path"}
LEMMA ExecutedThere ==
    ASSUME NEW c, c.node = "TRX", NEW name \in TrxCommands, NEW a
    PROVE  Config!Execute(c, <<name, a>>) = Config!Handle(c, name, a)
<1>1. Config!NodeOf(name) = "TRX"
  BY Zenon DEF Config!NodeOf, Config!ChanCommands, TrxCommands
<1>2. Config!At(c, name) = c BY <1>1, Zenon DEF Config!At
<1>3. Config!Known(c, name) BY <1>1, <1>2, Zenon DEF Config!Known
<1>4. <<name, a>>[1] = name /\ <<name, a>>[2] = a OBVIOUS
<1> QED BY <1>2, <1>3, <1>4, Zenon DEF Config!Execute

LEMMA ProgressField ==
    ASSUME NEW c, NEW d, NEW F, Progress(c, d, F), NEW f \in Settable, NEW e,
           DOMAIN e = Fields, e[f] = d[f],
           \A g \in Fields : g # f /\ g # "filler" => e[g] = c[g]
    PROVE  Progress(e, d, F \cup {f})
<1>1. f \notin {"filler", "node", "num_chans", "chans"} /\ f \in Fields
      /\ {"node", "num_chans", "chans"} \subseteq Fields
  BY DEF Settable, Fields
<1>2. e.node = c.node /\ e.num_chans = c.num_chans /\ e.chans = c.chans BY <1>1
<1>3. ASSUME NEW g \in Settable
      PROVE  e[g] = IF g \in F \cup {f} THEN d[g] ELSE Config!Default[g]
  <2>1. g \in Fields /\ g # "filler" BY DEF Settable
  <2>2. CASE g = f BY <2>2
  <2>3. CASE g # f
    <3>1. e[g] = c[g] BY <2>1, <2>3
    <3>2. c[g] = IF g \in F THEN d[g] ELSE Config!Default[g] BY Zenon DEF Progress
    <3> QED BY <2>3, <3>1, <3>2, Zenon
  <2> QED BY <2>2, <2>3
<1> QED BY <1>2, <1>3, Zenon DEF Progress

\* A field that is not written has the value of a new process.
LEMMA ProgressDefault ==
    ASSUME NEW c, NEW d, NEW F, Progress(c, d, F), NEW f, d[f] = Config!Default[f]
    PROVE  Progress(c, d, F \cup {f})
BY Zenon DEF Progress

LEMMA WroteLine ==
    ASSUME NEW d, NEW F, NEW G, NEW s, Wrote(s, d, F), NEW l \in Lines(d),
           \A c : Progress(c, d, F) => Progress(Config!Execute(c, l), d, G)
    PROVE  Wrote(s \o <<l>>, d, G)
<1>1. PICK c : Reads(Config!Default, s, c) /\ Progress(c, d, F) BY Zenon DEF Wrote
<1>2. s \in Seq(Lines(d)) BY DEF Wrote
<1>3. <<l>> \in Seq(Lines(d)) /\ s \o <<l>> \in Seq(Lines(d)) BY <1>2
<1>4. Reads(c, <<l>>, Config!Execute(c, l)) BY ReadLine
<1>5. Reads(Config!Default, s \o <<l>>, Config!Execute(c, l))
  BY <1>1, <1>2, <1>3, <1>4, ReadBoth
<1>6. Progress(Config!Execute(c, l), d, G) BY <1>1
<1> QED BY <1>3, <1>5, <1>6, Zenon DEF Wrote

LEMMA WroteNothing ==
    ASSUME NEW d, NEW F, NEW G, NEW s, Wrote(s, d, F),
           \A c : Progress(c, d, F) => Progress(c, d, G)
    PROVE  Wrote(s \o <<>>, d, G)
<1>1. s \o <<>> = s BY DEF Wrote
<1> QED BY <1>1, Zenon DEF Wrote

\* A line for a field that one command sets, if it is written.
LEMMA WroteField ==
    ASSUME NEW d, DOMAIN d = Fields, NEW F, NEW s, Wrote(s, d, F),
           NEW name, NEW f, <<name, f>> \in Setters, NEW a, a = d[f],
           NEW b, ~b => d[f] = Config!Default[f]
    PROVE  Wrote(s \o Config!WrittenIf(b, name, a), d, F \cup {f})
<1>1. name \in TrxCommands /\ f \in Settable /\ f \in Fields /\ name \in Config!AllCommands
  BY DEF Setters, TrxCommands, Config!AllCommands, Settable, Fields
<1>2. CASE b
  <2> DEFINE l == <<name, a>>
  <2>1. Config!WrittenIf(b, name, a) = <<l>> BY <1>2, Zenon DEF Config!WrittenIf
  <2>2. l \in Lines(d) BY <1>1, Zenon DEF Lines
  <2>3. ASSUME NEW c, Progress(c, d, F) PROVE Progress(Config!Execute(c, l), d, F \cup {f})
    <3> DEFINE e == [c EXCEPT ![f] = a]
    <3>1. c.node = "TRX" /\ DOMAIN c = Fields BY <2>3 DEF Progress
    <3>2. Config!Execute(c, l) = Config!Handle(c, name, a) BY <1>1, <3>1, ExecutedThere
    <3>3. Config!Handle(c, name, a) = e
      <4>1. \A p \in Setters : Config!Handle(c, p[1], a) = [c EXCEPT ![p[2]] = a]
        BY SetterSets
      <4>2. <<name, f>>[1] = name /\ <<name, f>>[2] = f OBVIOUS
      <4> QED BY <4>1, <4>2, Zenon
    <3>4. DOMAIN e = Fields /\ e[f] = d[f] /\ \A g \in Fields : g # f => e[g] = c[g]
      BY <1>1, <3>1, Zenon
    <3> HIDE DEF e
    <3>5. Progress(e, d, F \cup {f}) BY <1>1, <2>3, <3>4, ProgressField
    <3> QED BY <3>2, <3>3, <3>5
  <2> HIDE DEF l
  <2>4. Wrote(s \o <<l>>, d, F \cup {f}) BY <2>2, <2>3, WroteLine
  <2> QED BY <2>1, <2>4
<1>3. CASE ~b
  <2>1. Config!WrittenIf(b, name, a) = <<>> BY <1>3, Zenon DEF Config!WrittenIf
  <2>2. \A c : Progress(c, d, F) => Progress(c, d, F \cup {f}) BY <1>3, ProgressDefault
  <2> QED BY <2>1, <2>2, WroteNothing
<1> QED BY <1>2, <1>3

\* A line for a switch.
LEMMA WroteSwitch ==
    ASSUME NEW d, Writable(d), NEW F, NEW s, Wrote(s, d, F),
           NEW name, NEW f, <<name, f>> \in Switchers \cup {<<"egprs", "egprs">>}
    PROVE  Wrote(s \o <<<<name, Config!onoff(d[f])>>>>, d, F \cup {f})
<1>1. name \in TrxCommands /\ f \in Settable /\ f \in Fields /\ name \in Config!AllCommands
      /\ f \in Flags
  BY DEF Switchers, TrxCommands, Config!AllCommands, Settable, Fields, Flags
<1> DEFINE a == Config!onoff(d[f])
           l == <<name, a>>
<1>2. d[f] \in BOOLEAN /\ DOMAIN d = Fields BY <1>1 DEF Writable
<1>3. a \in {"enable", "disable"} /\ (a = "enable") = d[f] BY <1>2 DEF Config!onoff
<1> HIDE DEF a
<1>4. l \in Lines(d)  BY <1>1, <1>3, Zenon DEF Lines
<1>5. ASSUME NEW c, Progress(c, d, F) PROVE Progress(Config!Execute(c, l), d, F \cup {f})
  <2>1. c.node = "TRX" /\ DOMAIN c = Fields BY <1>5 DEF Progress
  <2> DEFINE e == Config!Execute(c, l)
  <2>2. e = Config!Handle(c, name, a) BY <1>1, <2>1, ExecutedThere
  <2>3. DOMAIN e = Fields /\ e[f] = d[f] /\ \A g \in Fields : g # f /\ g # "filler" => e[g] = c[g]
    <3>1. CASE <<name, f>> \in Switchers
      <4>1. \A p \in Switchers : Config!Handle(c, p[1], a) = [c EXCEPT ![p[2]] = (a = "enable")]
        BY SwitcherSets
      <4>2. <<name, f>>[1] = name /\ <<name, f>>[2] = f OBVIOUS
      <4>3. Config!Handle(c, name, a) = [c EXCEPT ![f] = (a = "enable")]
        BY <3>1, <4>1, <4>2, Zenon
      <4>4. e = [c EXCEPT ![f] = d[f]] BY <1>3, <2>2, <4>3, Zenon
      <4> HIDE DEF e
      <4> QED BY <1>1, <2>1, <4>4, Zenon
    <3>2. CASE <<name, f>> = <<"egprs", "egprs">>
      <4>1. name = "egprs" /\ f = "egprs" BY <3>2
      <4>2. e = Config!cfg_egprs(c, a) BY <2>2, <4>1, Zenon DEF Config!Handle
      <4> HIDE DEF e
      <4>3. CASE a = "enable"
        <5>1. e = [c EXCEPT !.egprs = TRUE, !.filler = "EDGE_RAND"]
          BY <4>2, <4>3, Zenon DEF Config!cfg_egprs
        <5>2. DOMAIN e = Fields /\ e.egprs = TRUE BY <5>1, <2>1, Zenon DEF Fields
        <5>3. \A g \in Fields : g # "egprs" /\ g # "filler" => e[g] = c[g]
          BY <5>1, <2>1, Zenon
        <5>4. d[f] = TRUE BY <1>3, <4>3
        <5> QED BY <5>2, <5>3, <5>4, <4>1
      <4>4. CASE a # "enable"
        <5>1. e = [c EXCEPT !.egprs = FALSE] BY <4>2, <4>4, Zenon DEF Config!cfg_egprs
        <5>2. DOMAIN e = Fields /\ e.egprs = FALSE BY <5>1, <2>1, Zenon DEF Fields
        <5>3. \A g \in Fields : g # "egprs" => e[g] = c[g] BY <5>1, <2>1, Zenon
        <5>4. d[f] = FALSE BY <1>3, <4>4
        <5> QED BY <5>2, <5>3, <5>4, <4>1
      <4> QED BY <4>3, <4>4
    <3> QED BY <3>1, <3>2
  <2> HIDE DEF e
  <2>4. Progress(e, d, F \cup {f}) BY <1>1, <1>5, <2>3, ProgressField
  <2> QED BY <2>4 DEF e
<1> HIDE DEF l
<1>6. Wrote(s \o <<l>>, d, F \cup {f}) BY <1>4, <1>5, WroteLine
<1> QED BY <1>6 DEF l, a

\* A test mode: its flag and its value, when the other is not set.
LEMMA ReadsRtsc ==
    ASSUME NEW c, NEW d, NEW F, Progress(c, d, F), "rach_delay_set" \notin F, d.rtsc_set = TRUE
    PROVE  Progress(Config!Execute(c, <<"test rtsc", d.rtsc>>), d, F \cup {"rtsc_set", "rtsc"})
<1> DEFINE a == d.rtsc
           e == Config!SetRtsc(c, a)
           g == [c EXCEPT !.rtsc_set = TRUE]
<1>1. "test rtsc" \in TrxCommands BY DEF TrxCommands, Config!AllCommands
<1>2. c.node = "TRX" /\ DOMAIN c = Fields BY DEF Progress
<1>3. {"rach_delay_set", "rtsc_set", "rtsc"} \subseteq Settable /\ Settable \subseteq Fields
  BY DEF Settable, Fields
<1>4. c.rach_delay_set = FALSE
  <2>1. c["rach_delay_set"] = Config!Default["rach_delay_set"] BY <1>3, Zenon DEF Progress
  <2>2. Config!Default["rach_delay_set"] = FALSE BY Zenon DEF Config!Default
  <2> QED BY <2>1, <2>2
<1>5. Config!Execute(c, <<"test rtsc", a>>) = Config!Handle(c, "test rtsc", a)
  BY <1>1, <1>2, ExecutedThere
<1>6. Config!Handle(c, "test rtsc", a) = e
  BY <1>4, Zenon DEF Config!Handle, Config!cfg_test_rtsc
<1>7. DOMAIN g = Fields /\ g.rtsc_set = TRUE /\ \A h \in Fields : h # "rtsc_set" => g[h] = c[h]
  BY <1>2, Zenon DEF Fields
<1>8. /\ DOMAIN e = Fields /\ e.rtsc = a /\ e.rtsc_set = TRUE
      /\ \A h \in Fields : h # "rtsc_set" /\ h # "rtsc" /\ h # "filler" => e[h] = c[h]
  BY <1>2, Zenon DEF Config!SetRtsc, Fields
<1> HIDE DEF e, g
<1>9. Progress(g, d, F \cup {"rtsc_set"}) BY <1>3, <1>7, ProgressField
<1>10. \A h \in Fields : h # "rtsc" /\ h # "filler" => e[h] = g[h]
  BY <1>3, <1>7, <1>8, Zenon
<1>11. Progress(e, d, (F \cup {"rtsc_set"}) \cup {"rtsc"})
  BY <1>3, <1>8, <1>9, <1>10, ProgressField DEF a
<1>12. (F \cup {"rtsc_set"}) \cup {"rtsc"} = F \cup {"rtsc_set", "rtsc"} BY Zenon
<1> QED BY <1>5, <1>6, <1>11, <1>12 DEF e, a

LEMMA ReadsRachDelay ==
    ASSUME NEW c, NEW d, NEW F, Progress(c, d, F), "egprs" \notin F,
           d.rtsc_set = FALSE, d.rach_delay_set = TRUE
    PROVE  Progress(Config!Execute(c, <<"test rach-delay", d.rach_delay>>), d,
                    F \cup {"rach_delay_set", "rach_delay"})
<1> DEFINE a == d.rach_delay
           e == Config!SetRachDelay(c, a)
           g == [c EXCEPT !.rach_delay_set = TRUE]
<1>1. "test rach-delay" \in TrxCommands BY DEF TrxCommands, Config!AllCommands
<1>2. c.node = "TRX" /\ DOMAIN c = Fields BY DEF Progress
<1>3. /\ {"rtsc_set", "egprs", "rach_delay_set", "rach_delay"} \subseteq Settable
      /\ Settable \subseteq Fields
  BY DEF Settable, Fields
<1>4. c.rtsc_set = FALSE /\ c.egprs = FALSE
  <2>1. /\ c["rtsc_set"] \in {Config!Default["rtsc_set"], d["rtsc_set"]}
        /\ c["egprs"] = Config!Default["egprs"]
    BY <1>3, Zenon DEF Progress
  <2>2. Config!Default["rtsc_set"] = FALSE /\ Config!Default["egprs"] = FALSE
    BY Zenon DEF Config!Default
  <2> QED BY <2>1, <2>2
<1>5. Config!Execute(c, <<"test rach-delay", a>>) = Config!Handle(c, "test rach-delay", a)
  BY <1>1, <1>2, ExecutedThere
<1>6. Config!Handle(c, "test rach-delay", a) = e
  BY <1>4, Zenon DEF Config!Handle, Config!cfg_test_rach_delay
<1>7. DOMAIN g = Fields /\ g.rach_delay_set = TRUE
      /\ \A h \in Fields : h # "rach_delay_set" => g[h] = c[h]
  BY <1>2, Zenon DEF Fields
<1>8. /\ DOMAIN e = Fields /\ e.rach_delay = a /\ e.rach_delay_set = TRUE
      /\ \A h \in Fields : h # "rach_delay_set" /\ h # "rach_delay" /\ h # "filler" => e[h] = c[h]
  BY <1>2, Zenon DEF Config!SetRachDelay, Fields
<1> HIDE DEF e, g
<1>9. Progress(g, d, F \cup {"rach_delay_set"}) BY <1>3, <1>7, ProgressField
<1>10. \A h \in Fields : h # "rach_delay" /\ h # "filler" => e[h] = g[h]
  BY <1>3, <1>7, <1>8, Zenon
<1>11. Progress(e, d, (F \cup {"rach_delay_set"}) \cup {"rach_delay"})
  BY <1>3, <1>8, <1>9, <1>10, ProgressField DEF a
<1>12. (F \cup {"rach_delay_set"}) \cup {"rach_delay"} = F \cup {"rach_delay_set", "rach_delay"}
  BY Zenon
<1> QED BY <1>5, <1>6, <1>11, <1>12 DEF e, a

LEMMA WroteTests ==
    ASSUME NEW d, Writable(d), ~(d.rtsc_set /\ d.rach_delay_set), NEW F, NEW s, Wrote(s, d, F),
           "rach_delay_set" \notin F, "egprs" \notin F
    PROVE  Wrote(s \o Config!WrittenTests(d), d,
                 (F \cup {"rtsc_set", "rtsc"}) \cup {"rach_delay_set", "rach_delay"})
<1> DEFINE r == <<"test rtsc", d.rtsc>>
           t == <<"test rach-delay", d.rach_delay>>
           w1 == Config!WrittenIf(d.rtsc_set, "test rtsc", d.rtsc)
           w2 == Config!WrittenIf(d.rach_delay_set, "test rach-delay", d.rach_delay)
           G == F \cup {"rtsc_set", "rtsc"}
<1>1. /\ d.rtsc_set \in BOOLEAN /\ d.rach_delay_set \in BOOLEAN /\ DOMAIN d = Fields
  BY DEF Writable, Flags
<1>2. /\ d.rtsc_set = FALSE => d["rtsc_set"] = Config!Default["rtsc_set"]
                               /\ d["rtsc"] = Config!Default["rtsc"]
      /\ d.rach_delay_set = FALSE => d["rach_delay_set"] = Config!Default["rach_delay_set"]
                                     /\ d["rach_delay"] = Config!Default["rach_delay"]
  <2>1. /\ Config!Default["rtsc_set"] = FALSE /\ Config!Default["rtsc"] = 0
        /\ Config!Default["rach_delay_set"] = FALSE /\ Config!Default["rach_delay"] = 0
    BY Zenon DEF Config!Default
  <2> QED BY <2>1, Zenon DEF Writable
<1>3. \A f1, f2, S : \A c : /\ d[f1] = Config!Default[f1] /\ d[f2] = Config!Default[f2]
                            /\ Progress(c, d, S)
                            => Progress(c, d, S \cup {f1, f2})
  BY Zenon DEF Progress
<1>4. r \in Lines(d) /\ t \in Lines(d)
  <2>1. {"test rtsc", "test rach-delay"} \subseteq Config!AllCommands
        /\ {"rtsc", "rach_delay"} \subseteq Fields
    BY DEF Config!AllCommands, Fields
  <2> QED BY <2>1, Zenon DEF Lines
<1>a. <<r>> \in Seq(Lines(d)) /\ <<t>> \in Seq(Lines(d))
  <2> HIDE DEF r, t
  <2> QED BY <1>4
<1>5. Wrote(s \o w1, d, G) /\ w1 \in Seq(Lines(d))
  <2>1. CASE d.rtsc_set = TRUE
    <3>1. w1 = <<r>> BY <2>1, Zenon DEF Config!WrittenIf
    <3>2. \A c : Progress(c, d, F) => Progress(Config!Execute(c, r), d, G)
      BY <2>1, ReadsRtsc
    <3> HIDE DEF r, G, w1
    <3>3. Wrote(s \o <<r>>, d, G) BY <1>4, <3>2, WroteLine
    <3> QED BY <1>a, <3>1, <3>3, Zenon
  <2>2. CASE d.rtsc_set = FALSE
    <3>1. w1 = <<>> BY <2>2, Zenon DEF Config!WrittenIf
    <3>2. \A c : Progress(c, d, F) => Progress(c, d, G) BY <2>2, <1>2, <1>3
    <3> HIDE DEF G, w1
    <3>3. Wrote(s \o <<>>, d, G) BY <3>2, WroteNothing
    <3> QED BY <3>1, <3>3
  <2> QED BY <1>1, <2>1, <2>2
<1>6. "egprs" \notin G OBVIOUS
<1> DEFINE H == G \cup {"rach_delay_set", "rach_delay"}
<1>7. Wrote((s \o w1) \o w2, d, H) /\ w2 \in Seq(Lines(d))
  <2>1. CASE d.rach_delay_set = TRUE
    <3>1. w2 = <<t>> BY <2>1, Zenon DEF Config!WrittenIf
    <3>2. d.rtsc_set = FALSE BY <1>1, <2>1
    <3> HIDE DEF G
    <3>3. \A c : Progress(c, d, G) => Progress(Config!Execute(c, t), d, H)
      BY <1>6, <2>1, <3>2, ReadsRachDelay
    <3> HIDE DEF t, w1, w2, H
    <3>4. Wrote((s \o w1) \o <<t>>, d, H) BY <1>4, <1>5, <3>3, WroteLine
    <3> QED BY <1>a, <3>1, <3>4, Zenon
  <2>2. CASE d.rach_delay_set = FALSE
    <3>1. w2 = <<>> BY <2>2, Zenon DEF Config!WrittenIf
    <3> HIDE DEF G
    <3>2. \A c : Progress(c, d, G) => Progress(c, d, H) BY <2>2, <1>2, <1>3
    <3> HIDE DEF w1, w2, H
    <3>3. Wrote((s \o w1) \o <<>>, d, H) BY <1>5, <3>2, WroteNothing
    <3> QED BY <3>1, <3>3
  <2> QED BY <1>1, <2>1, <2>2
<1>8. Config!WrittenTests(d) = w1 \o w2 BY Zenon DEF Config!WrittenTests
<1> HIDE DEF w1, w2, G
<1>9. s \in Seq(Lines(d)) BY DEF Wrote
<1>10. s \o (w1 \o w2) = (s \o w1) \o w2 BY <1>5, <1>7, <1>9, ConcatAssociative
<1> QED BY <1>7, <1>8, <1>10 DEF G

LEMMA ThreeLines == ASSUME NEW x, NEW y, NEW z PROVE (<<x>> \o <<y>>) \o <<z>> = <<x, y, z>>
<1> DEFINE L == {x, y, z}
           s == (<<x>> \o <<y>>) \o <<z>>
           t == <<x, y, z>>
<1>0. x \in L /\ y \in L /\ z \in L OBVIOUS
<1> HIDE DEF L
<1>1. s \in Seq(L) /\ t \in Seq(L) /\ Len(s) = 3 /\ Len(t) = 3 BY <1>0
<1>2. s[1] = x /\ s[2] = y /\ s[3] = z /\ t[1] = x /\ t[2] = y /\ t[3] = z OBVIOUS
<1>3. \A i \in 1 .. 3 : i = 1 \/ i = 2 \/ i = 3 OBVIOUS
<1> HIDE DEF s, t
<1>4. \A i \in 1 .. 3 : s[i] = t[i] BY <1>2, <1>3
<1>5. s = t BY <1>1, <1>4, SeqEqual
<1> QED BY <1>5 DEF s, t

LEMMA ThreeMore ==
    ASSUME NEW L, NEW s \in Seq(L), NEW x \in L, NEW y \in L, NEW z \in L
    PROVE  ((s \o <<x>>) \o <<y>>) \o <<z>> = s \o <<x, y, z>>
<1>1. <<x>> \in Seq(L) /\ <<y>> \in Seq(L) /\ <<z>> \in Seq(L) OBVIOUS
<1>2. <<x>> \o <<y>> \in Seq(L) BY <1>1
<1>3. (s \o <<x>>) \o <<y>> = s \o (<<x>> \o <<y>>) BY <1>1, ConcatAssociative
<1>4. (s \o (<<x>> \o <<y>>)) \o <<z>> = s \o ((<<x>> \o <<y>>) \o <<z>>)
  BY <1>1, <1>2, ConcatAssociative
<1> QED BY <1>3, <1>4, ThreeLines

\* All settings of the node TRX.
LEMMA WroteSettings ==
    ASSUME NEW d, Writable(d), ~(d.rtsc_set /\ d.rach_delay_set)
    PROVE  \E s : /\ Wrote(s, d, Settable)
                  /\ Config!config_write_trx(d) = s \o Config!WrittenChans(d)
<1> DEFINE s1 == <<<<"trx", "none">>>>
           s2 == s1 \o Config!WrittenIf(TRUE, "bind-ip", d.bind_addr)
           s3 == s2 \o Config!WrittenIf(TRUE, "remote-ip", d.remote_addr)
           s4 ==
               s3 \o Config!WrittenIf(d.base_port # Config!Default.base_port,
                                       "base-port", d.base_port)
           s5 == s4 \o Config!WrittenIf(d.dev_args # "none", "dev-args", d.dev_args)
           s6 == s5 \o Config!WrittenIf(d.tx_sps # Config!Default.tx_sps, "tx-sps", d.tx_sps)
           s7 == s6 \o Config!WrittenIf(d.rx_sps # Config!Default.rx_sps, "rx-sps", d.rx_sps)
           s8 == s7 \o Config!WrittenTests(d)
           s9 == s8 \o Config!WrittenIf(d.clock_ref # "internal", "clock-ref", d.clock_ref)
           s10 == s9 \o <<<<"multi-arfcn", Config!onoff(d.multi_arfcn)>>>>
           s11 == s10 \o Config!WrittenIf(d.offset # 0, "offset", d.offset)
           s12 == s11 \o Config!WrittenIf(d.rssi_offset # 0, "rssi-offset", d.rssi_offset)
           s13 == s12 \o <<<<"swap-channels", Config!onoff(d.swap_channels)>>>>
           s14 == s13 \o <<<<"egprs", Config!onoff(d.egprs)>>>>
           s15 == s14 \o <<<<"ext-rach", Config!onoff(d.ext_rach)>>>>
           s16 == s15 \o Config!WrittenIf(d.sched_rr # 0, "rt-prio", d.sched_rr)
           F1 == {}
           F2 == F1 \cup {"bind_addr"}
           F3 == F2 \cup {"remote_addr"}
           F4 == F3 \cup {"base_port"}
           F5 == F4 \cup {"dev_args"}
           F6 == F5 \cup {"tx_sps"}
           F7 == F6 \cup {"rx_sps"}
           F8 == (F7 \cup {"rtsc_set", "rtsc"}) \cup {"rach_delay_set", "rach_delay"}
           F9 == F8 \cup {"clock_ref"}
           F10 == F9 \cup {"multi_arfcn"}
           F11 == F10 \cup {"offset"}
           F12 == F11 \cup {"rssi_offset"}
           F13 == F12 \cup {"swap_channels"}
           F14 == F13 \cup {"egprs"}
           F15 == F14 \cup {"ext_rach"}
           F16 == F15 \cup {"sched_rr"}
<1>0. DOMAIN d = Fields BY DEF Writable
<1>1. Wrote(s1, d, F1)
  <2> DEFINE l == <<"trx", "none">>
             c == Config!Execute(Config!Default, l)
  <2>1. Reads(Config!Default, <<l>>, c) BY ReadLine
  <2>2. l \in Lines(d)
    <3>1. "trx" \in Config!AllCommands BY DEF Config!AllCommands
    <3> QED BY <3>1, Zenon DEF Lines
  <2>3. <<l>> \in Seq(Lines(d))
    <3> HIDE DEF l
    <3> QED BY <2>2
  <2>4. Progress(c, d, F1)
    <3> DEFINE b == Config!Default
    <3>1. /\ DOMAIN b = Fields /\ b.node = "CONFIG" /\ b.num_chans = 0
          /\ b.chans = [i \in Config!Chans |-> Config!NoChan]
      BY Zenon DEF Config!Default, Fields
    <3>2. Config!NodeOf("trx") = "CONFIG" BY DEF Config!NodeOf
    <3>3. Config!At(b, "trx") = b BY <3>1, <3>2, Zenon DEF Config!At
    <3>4. Config!Known(b, "trx") BY <3>1, <3>2, <3>3, Zenon DEF Config!Known
    <3>5. l[1] = "trx" /\ l[2] = "none" OBVIOUS
    <3>6. c = Config!Handle(b, "trx", "none") BY <3>3, <3>4, <3>5, Zenon DEF Config!Execute
    <3>7. c = [b EXCEPT !.node = "TRX"] BY <3>6, Zenon DEF Config!Handle, Config!cfg_trx
    <3> HIDE DEF b, c
    <3>8. /\ DOMAIN c = Fields /\ c.node = "TRX" /\ c.num_chans = 0
          /\ c.chans = [i \in Config!Chans |-> Config!NoChan]
      BY <3>1, <3>7, Zenon DEF Fields
    <3>9. \A f \in Fields : f # "node" => c[f] = b[f] BY <3>1, <3>7, Zenon
    <3>10. \A f \in Settable : c[f] = b[f] BY <3>9 DEF Settable
    <3> QED BY <3>8, <3>10, Zenon DEF Progress, b
  <2> QED BY <2>1, <2>3, <2>4, Zenon DEF Wrote
<1> HIDE DEF s1
<1>2. Wrote(s2, d, F2)
  <2>1. <<"bind-ip", "bind_addr">> \in Setters BY DEF Setters
  <2>2. ~(TRUE) => d.bind_addr = Config!Default.bind_addr BY DEF Config!Default
  <2> HIDE DEF F1
  <2> QED BY <1>1, <2>1, <2>2, <1>0, WroteField
<1> HIDE DEF s2
<1>3. Wrote(s3, d, F3)
  <2>1. <<"remote-ip", "remote_addr">> \in Setters BY DEF Setters
  <2>2. ~(TRUE) => d.remote_addr = Config!Default.remote_addr BY DEF Config!Default
  <2> HIDE DEF F2
  <2> QED BY <1>2, <2>1, <2>2, <1>0, WroteField
<1> HIDE DEF s3
<1>4. Wrote(s4, d, F4)
  <2>1. <<"base-port", "base_port">> \in Setters BY DEF Setters
  <2>2. ~(d.base_port # Config!Default.base_port) => d.base_port = Config!Default.base_port
    BY DEF Config!Default
  <2> HIDE DEF F3
  <2> QED BY <1>3, <2>1, <2>2, <1>0, WroteField
<1> HIDE DEF s4
<1>5. Wrote(s5, d, F5)
  <2>1. <<"dev-args", "dev_args">> \in Setters BY DEF Setters
  <2>2. ~(d.dev_args # "none") => d.dev_args = Config!Default.dev_args
    BY DEF Config!Default, Config!NONE
  <2> HIDE DEF F4
  <2> QED BY <1>4, <2>1, <2>2, <1>0, WroteField
<1> HIDE DEF s5
<1>6. Wrote(s6, d, F6)
  <2>1. <<"tx-sps", "tx_sps">> \in Setters BY DEF Setters
  <2>2. ~(d.tx_sps # Config!Default.tx_sps) => d.tx_sps = Config!Default.tx_sps
    BY DEF Config!Default
  <2> HIDE DEF F5
  <2> QED BY <1>5, <2>1, <2>2, <1>0, WroteField
<1> HIDE DEF s6
<1>7. Wrote(s7, d, F7)
  <2>1. <<"rx-sps", "rx_sps">> \in Setters BY DEF Setters
  <2>2. ~(d.rx_sps # Config!Default.rx_sps) => d.rx_sps = Config!Default.rx_sps
    BY DEF Config!Default
  <2> HIDE DEF F6
  <2> QED BY <1>6, <2>1, <2>2, <1>0, WroteField
<1> HIDE DEF s7
<1>8. Wrote(s8, d, F8)
  <2>1. "rach_delay_set" \notin F7 /\ "egprs" \notin F7 OBVIOUS
  <2> HIDE DEF F7
  <2> QED BY <1>7, <2>1, WroteTests
<1> HIDE DEF s8
<1>9. Wrote(s9, d, F9)
  <2>1. <<"clock-ref", "clock_ref">> \in Setters BY DEF Setters
  <2>2. ~(d.clock_ref # "internal") => d.clock_ref = Config!Default.clock_ref BY DEF Config!Default
  <2> HIDE DEF F8
  <2> QED BY <1>8, <2>1, <2>2, <1>0, WroteField
<1> HIDE DEF s9
<1>10. Wrote(s10, d, F10)
  <2>1. <<"multi-arfcn", "multi_arfcn">> \in Switchers \cup {<<"egprs", "egprs">>} BY DEF Switchers
  <2> HIDE DEF F9
  <2> QED BY <1>9, <2>1, WroteSwitch
<1> HIDE DEF s10
<1>11. Wrote(s11, d, F11)
  <2>1. <<"offset", "offset">> \in Setters BY DEF Setters
  <2>2. ~(d.offset # 0) => d.offset = Config!Default.offset BY DEF Config!Default
  <2> HIDE DEF F10
  <2> QED BY <1>10, <2>1, <2>2, <1>0, WroteField
<1> HIDE DEF s11
<1>12. Wrote(s12, d, F12)
  <2>1. <<"rssi-offset", "rssi_offset">> \in Setters BY DEF Setters
  <2>2. ~(d.rssi_offset # 0) => d.rssi_offset = Config!Default.rssi_offset BY DEF Config!Default
  <2> HIDE DEF F11
  <2> QED BY <1>11, <2>1, <2>2, <1>0, WroteField
<1> HIDE DEF s12
<1>13. Wrote(s13, d, F13)
  <2>1. <<"swap-channels", "swap_channels">> \in Switchers \cup {<<"egprs", "egprs">>}
    BY DEF Switchers
  <2> HIDE DEF F12
  <2> QED BY <1>12, <2>1, WroteSwitch
<1> HIDE DEF s13
<1>14. Wrote(s14, d, F14)
  <2>1. <<"egprs", "egprs">> \in Switchers \cup {<<"egprs", "egprs">>} BY DEF Switchers
  <2> HIDE DEF F13
  <2> QED BY <1>13, <2>1, WroteSwitch
<1> HIDE DEF s14
<1>15. Wrote(s15, d, F15)
  <2>1. <<"ext-rach", "ext_rach">> \in Switchers \cup {<<"egprs", "egprs">>} BY DEF Switchers
  <2> HIDE DEF F14
  <2> QED BY <1>14, <2>1, WroteSwitch
<1> HIDE DEF s15
<1>16. Wrote(s16, d, F16)
  <2>1. <<"rt-prio", "sched_rr">> \in Setters BY DEF Setters
  <2>2. ~(d.sched_rr # 0) => d.sched_rr = Config!Default.sched_rr BY DEF Config!Default
  <2> HIDE DEF F15
  <2> QED BY <1>15, <2>1, <2>2, <1>0, WroteField
<1> HIDE DEF s16
<1>17. Settable \subseteq F16 BY DEF Settable, Fields
<1>18. Wrote(s16, d, Settable)
  <2>1. \A c : Progress(c, d, F16) => Progress(c, d, Settable)
    <3> HIDE DEF F16
    <3> QED BY <1>17, Zenon DEF Progress
  <2> QED BY <1>16, <2>1, Zenon DEF Wrote
<1>19. Config!config_write_trx(d) = s16 \o Config!WrittenChans(d)
  <2> DEFINE bind == <<"bind-ip", d.bind_addr>>
             remote == <<"remote-ip", d.remote_addr>>
             swap == <<"swap-channels", Config!onoff(d.swap_channels)>>
             egprs == <<"egprs", Config!onoff(d.egprs)>>
             rach == <<"ext-rach", Config!onoff(d.ext_rach)>>
  <2>1. s3 = <<<<"trx", "none">>, bind, remote>>
    <3>1. s3 = (<<<<"trx", "none">>>> \o <<bind>>) \o <<remote>>
      BY DEF s1, s2, s3, Config!WrittenIf
    <3> QED BY <3>1, ThreeLines, Zenon
  <2>2. s15 = s12 \o <<swap, egprs, rach>>
    <3>1. s15 = ((s12 \o <<swap>>) \o <<egprs>>) \o <<rach>> BY DEF s13, s14, s15
    <3>2. s12 \in Seq(Lines(d)) BY <1>12 DEF Wrote
    <3>3. swap \in Lines(d) /\ egprs \in Lines(d) /\ rach \in Lines(d)
      <4>1. {"swap-channels", "egprs", "ext-rach"} \subseteq Config!AllCommands
        BY DEF Config!AllCommands
      <4>2. \A b : Config!onoff(b) \in {"enable", "disable"} BY Zenon DEF Config!onoff
      <4> QED BY <4>1, <4>2, Zenon DEF Lines
    <3> HIDE DEF swap, egprs, rach
    <3> QED BY <3>1, <3>2, <3>3, ThreeMore
  <2>3. Config!config_write_trx(d)
        = (s15 \o Config!WrittenIf(d.sched_rr # 0, "rt-prio", d.sched_rr))
          \o Config!WrittenChans(d)
    BY <2>1, <2>2, Zenon DEF s4, s5, s6, s7, s8, s9, s10, s11, s12,
                             Config!config_write_trx, Config!NONE
  <2> QED BY <2>3 DEF s16
<1> QED BY <1>18, <1>19

\* The settings have been read, and k channels.
UpTo(e, d, k) ==
    /\ DOMAIN e = Fields /\ \A f \in Settable : e[f] = d[f]
    /\ e.num_chans = k /\ e.node \in {"TRX", "CHAN"}
    /\ e.chans = [i \in Config!Chans |-> IF i < k THEN d.chans[i] ELSE Config!NoChan]

\* Also the channel k, with the paths r and t.
Channel(k, r, t) == [trx |-> TRUE, idx |-> k, rx_path |-> r, tx_path |-> t]

LEMMA ChannelIs ==
    ASSUME NEW c, c = [f \in ChanFields |-> c[f]], c.trx = TRUE
    PROVE  c = Channel(c.idx, c.rx_path, c.tx_path)
<1> DEFINE e == Channel(c.idx, c.rx_path, c.tx_path)
<1>1. /\ e = [f \in ChanFields |-> e[f]]
      /\ e.trx = TRUE /\ e.idx = c.idx /\ e.rx_path = c.rx_path /\ e.tx_path = c.tx_path
  BY DEF Channel, ChanFields
<1> HIDE DEF e
<1>2. \A f \in ChanFields : e[f] = c[f] BY <1>1 DEF ChanFields
<1>3. e = c BY <1>1, <1>2, Zenon
<1> QED BY <1>3 DEF e
Inside(e, d, k, r, t) ==
    /\ DOMAIN e = Fields /\ \A f \in Settable : e[f] = d[f]
    /\ e.num_chans = k + 1 /\ e.node = "CHAN" /\ e.index = k
    /\ e.chans = [i \in Config!Chans |->
                     IF i < k THEN d.chans[i]
                     ELSE IF i = k THEN Channel(k, r, t) ELSE Config!NoChan]

LEMMA ReadsChan ==
    ASSUME NEW d, NEW k \in Config!Chans, NEW e, UpTo(e, d, k)
    PROVE  Inside(Config!Execute(e, <<"chan", k>>), d, k, "none", "none")
<1> DEFINE b == Config!At(e, "chan")
           n == Config!NewChan(b, k)
           g == [n EXCEPT !.node = "CHAN", !.index = k]
           x == Config!Execute(e, <<"chan", k>>)
<1>0. k \in Nat /\ k < TRX_CHAN_MAX
  BY ConfigAssumption DEF Config!Chans, Config!ConfigAssumption
<1>1. DOMAIN e = Fields /\ e.node \in {"TRX", "CHAN"} BY DEF UpTo
<1>2. Config!NodeOf("chan") = "TRX" BY DEF Config!NodeOf, Config!ChanCommands
<1>3. /\ DOMAIN b = Fields /\ b.node = "TRX"
      /\ \A f \in Fields : f # "node" /\ f # "index" => b[f] = e[f]
  <2>1. CASE e.node = "TRX"
    <3>1. b = e BY <1>2, <2>1, Zenon DEF Config!At
    <3> QED BY <1>1, <2>1, <3>1
  <2>2. CASE e.node = "CHAN"
    <3>1. b = Config!GoParent(e) BY <1>2, <2>2, SMT DEF Config!At
    <3>2. DOMAIN b = Fields /\ b.node = (IF e.node = "CHAN" THEN "TRX" ELSE "CONFIG")
      BY <3>1, <1>1, Zenon DEF Config!GoParent, Fields
    <3>3. \A f \in Fields : f # "node" /\ f # "index" => b[f] = e[f]
      BY <3>1, <1>1, Zenon DEF Config!GoParent
    <3> QED BY <2>2, <3>2, <3>3
  <2> QED BY <1>1, <2>1, <2>2
<1>4. x = Config!Handle(b, "chan", k)
  <2>1. Config!Known(e, "chan") BY <1>2, <1>3, Zenon DEF Config!Known
  <2>2. <<"chan", k>>[1] = "chan" /\ <<"chan", k>>[2] = k OBVIOUS
  <2> QED BY <2>1, <2>2, Zenon DEF Config!Execute
<1> HIDE DEF b, x
<1>5. {"num_chans", "chans"} \subseteq Fields /\ Settable \subseteq Fields
      /\ \A f \in Settable : f \notin {"num_chans", "chans", "node", "index"}
  BY DEF Fields, Settable
<1>6. /\ b.num_chans = k /\ \A f \in Settable : b[f] = d[f]
      /\ b.chans = [i \in Config!Chans |-> IF i < k THEN d.chans[i] ELSE Config!NoChan]
  <2>1. b.num_chans = e.num_chans /\ b.chans = e.chans BY <1>3, <1>5
  <2>2. \A f \in Settable : b[f] = e[f] BY <1>3, <1>5, Zenon
  <2> QED BY <2>1, <2>2, Zenon DEF UpTo
<1>7. x = g
  <2>1. x = Config!cfg_chan(b, k) BY <1>4, Zenon DEF Config!Handle
  <2>2. ~(k >= TRX_CHAN_MAX \/ b.num_chans < k)
    BY <1>0, <1>6, ConfigAssumption DEF Config!ConfigAssumption
  <2> QED BY <2>1, <2>2, <1>6, Zenon DEF Config!cfg_chan
<1> DEFINE l == b.chans
           m == [[l EXCEPT ![k].trx = TRUE] EXCEPT ![k].idx = k]
<1>8. /\ DOMAIN n = Fields /\ n.num_chans = k + 1
      /\ \A f \in Fields : f # "num_chans" /\ f # "chans" => n[f] = b[f]
  BY <1>3, <1>6, Zenon DEF Config!NewChan, Fields
<1>9. n.chans = m BY <1>3, ZenonT(40) DEF Config!NewChan, Fields
<1>10. m = [i \in Config!Chans |->
              IF i < k THEN d.chans[i]
              ELSE IF i = k THEN Channel(k, "none", "none") ELSE Config!NoChan]
  <2>1. l = [i \in Config!Chans |-> IF i < k THEN d.chans[i] ELSE Config!NoChan] BY <1>6
  <2> HIDE DEF l
  <2>2. DOMAIN m = Config!Chans /\ m = [i \in Config!Chans |-> m[i]]
        /\ \A i \in Config!Chans : i # k => m[i] = l[i]
    BY <2>1, Zenon
  <2>3. m[k] = [[l[k] EXCEPT !.trx = TRUE] EXCEPT !.idx = k] BY <2>1, Zenon
  <2>4. l[k] = Config!NoChan BY <1>0, <2>1
  <2>5. m[k] = Channel(k, "none", "none")
    <3> DEFINE y == [[Config!NoChan EXCEPT !.trx = TRUE] EXCEPT !.idx = k]
    <3>1. /\ y = [f \in ChanFields |-> y[f]] /\ y.trx = TRUE /\ y.idx = k
          /\ y.rx_path = "none" /\ y.tx_path = "none"
      BY DEF Config!NoChan, Config!NONE, ChanFields
    <3> HIDE DEF y
    <3>2. y = Channel(y.idx, y.rx_path, y.tx_path) BY <3>1, ChannelIs
    <3>3. m[k] = y BY <2>3, <2>4 DEF y
    <3> QED BY <3>1, <3>2, <3>3
  <2> HIDE DEF m
  <2>6. ASSUME NEW i \in Config!Chans
        PROVE  m[i] = IF i < k THEN d.chans[i]
                      ELSE IF i = k THEN Channel(k, "none", "none") ELSE Config!NoChan
    <3>1. i \in Int BY DEF Config!Chans
    <3>2. CASE i = k BY <3>2, <1>0, <2>5
    <3>3. CASE i # k BY <3>3, <2>1, <2>2
    <3> QED BY <3>2, <3>3
  <2> QED BY <2>2, <2>6, Zenon
<1> HIDE DEF n, l, m
<1>11. /\ DOMAIN g = Fields /\ g.node = "CHAN" /\ g.index = k
       /\ \A f \in Fields : f # "node" /\ f # "index" => g[f] = n[f]
  BY <1>8, Zenon DEF Fields
<1> HIDE DEF g
<1>12. g.num_chans = k + 1 /\ g.chans = m BY <1>5, <1>8, <1>9, <1>11
<1>13. \A f \in Settable : g[f] = d[f] BY <1>5, <1>6, <1>8, <1>11
<1>14. Inside(g, d, k, "none", "none") BY <1>10, <1>11, <1>12, <1>13, Zenon DEF Inside
<1> QED BY <1>7, <1>14 DEF x

\* A path of the channel that was just read.
LEMMA ReadsPath ==
    ASSUME NEW d, NEW k \in Config!Chans, NEW e, NEW r, NEW t, Inside(e, d, k, r, t), NEW a
    PROVE  /\ Inside(Config!Execute(e, <<"rx-path", a>>), d, k, a, t)
           /\ Inside(Config!Execute(e, <<"tx-path", a>>), d, k, r, a)
<1>0. k \in Nat BY DEF Config!Chans
<1> DEFINE l == e.chans
<1>1. /\ DOMAIN e = Fields /\ e.node = "CHAN" /\ e.index = k
      /\ l = [i \in Config!Chans |-> IF i < k THEN d.chans[i]
                     ELSE IF i = k THEN Channel(k, r, t) ELSE Config!NoChan]
  BY DEF Inside
<1>2. ASSUME NEW name, NEW f, <<name, f>> \in {<<"rx-path", "rx_path">>, <<"tx-path", "tx_path">>},
             NEW r2, NEW t2, NEW y, y = [Channel(k, r, t) EXCEPT ![f] = a],
             y = Channel(k, r2, t2)
      PROVE  Inside(Config!Execute(e, <<name, a>>), d, k, r2, t2)
  <2> DEFINE x == Config!Execute(e, <<name, a>>)
             m == [l EXCEPT ![k][f] = a]
  <2>1. Config!NodeOf(name) = "CHAN" BY <1>2 DEF Config!NodeOf, Config!ChanCommands
  <2>2. Config!At(e, name) = e BY <1>1, <2>1, Zenon DEF Config!At
  <2>3. Config!Known(e, name) BY <1>1, <2>1, <2>2, Zenon DEF Config!Known
  <2>4. <<name, a>>[1] = name /\ <<name, a>>[2] = a OBVIOUS
  <2>5. x = Config!Handle(e, name, a) BY <2>2, <2>3, <2>4, Zenon DEF Config!Execute
  <2>6. x = [e EXCEPT !.chans[e.index][f] = a]
    <3>1. CASE name = "rx-path" /\ f = "rx_path"
      <4>1. x = [e EXCEPT !.chans[e.index]["rx_path"] = a]
        BY <2>5, <3>1, Zenon DEF Config!Handle, Config!cfg_chan_rx_path
      <4> QED BY <3>1, <4>1, Zenon
    <3>2. CASE name = "tx-path" /\ f = "tx_path"
      <4>1. x = [e EXCEPT !.chans[e.index]["tx_path"] = a]
        BY <2>5, <3>2, Zenon DEF Config!Handle, Config!cfg_chan_tx_path
      <4> QED BY <3>2, <4>1, Zenon
    <3> QED BY <1>2, <3>1, <3>2
  <2> HIDE DEF x
  <2>7. /\ DOMAIN x = Fields /\ x.chans = m
        /\ \A g \in Fields : g # "chans" => x[g] = e[g]
    BY <1>1, <2>6, Zenon DEF Fields
  <2> HIDE DEF l
  <2>8. /\ DOMAIN m = Config!Chans /\ m = [i \in Config!Chans |-> m[i]]
        /\ \A i \in Config!Chans : i # k => m[i] = l[i]
        /\ m[k] = [l[k] EXCEPT ![f] = a]
    BY <1>1, Zenon
  <2>9. l[k] = Channel(k, r, t) BY <1>0, <1>1
  <2>10. m[k] = Channel(k, r2, t2) BY <1>2, <2>8, <2>9, Zenon
  <2> HIDE DEF m
  <2>11. ASSUME NEW i \in Config!Chans
         PROVE  m[i] = IF i < k THEN d.chans[i]
                       ELSE IF i = k THEN Channel(k, r2, t2) ELSE Config!NoChan
    <3>1. i \in Int BY DEF Config!Chans
    <3>2. CASE i = k BY <3>2, <1>0, <2>10
    <3>3. CASE i # k BY <3>3, <1>1, <2>8
    <3> QED BY <3>2, <3>3
  <2>12. m = [i \in Config!Chans |-> IF i < k THEN d.chans[i]
                    ELSE IF i = k THEN Channel(k, r2, t2) ELSE Config!NoChan]
    BY <2>8, <2>11, Zenon
  <2>13. {"num_chans", "node", "index"} \subseteq Fields /\ Settable \subseteq Fields
         /\ "chans" \notin Settable
    BY DEF Fields, Settable
  <2>14. x.num_chans = e.num_chans /\ x.node = e.node /\ x.index = e.index
    BY <2>7, <2>13
  <2>15. \A g \in Settable : x[g] = e[g] BY <2>7, <2>13, Zenon
  <2>16. Inside(x, d, k, r2, t2) BY <2>7, <2>12, <2>14, <2>15, Zenon DEF Inside
  <2> QED BY <2>16 DEF x
<1>3. Inside(Config!Execute(e, <<"rx-path", a>>), d, k, a, t)
  <2> DEFINE y == [Channel(k, r, t) EXCEPT !["rx_path"] = a]
  <2>1. /\ y = [f \in ChanFields |-> y[f]] /\ y.trx = TRUE /\ y.idx = k
        /\ y.rx_path = a /\ y.tx_path = t
    BY DEF Channel, ChanFields
  <2>2. <<"rx-path", "rx_path">> \in {<<"rx-path", "rx_path">>, <<"tx-path", "tx_path">>}
    OBVIOUS
  <2>3. y = [Channel(k, r, t) EXCEPT !["rx_path"] = a] OBVIOUS
  <2> HIDE DEF y
  <2>4. y = Channel(k, a, t) BY <2>1, ChannelIs
  <2> QED BY <1>2, <2>2, <2>3, <2>4
<1>4. Inside(Config!Execute(e, <<"tx-path", a>>), d, k, r, a)
  <2> DEFINE y == [Channel(k, r, t) EXCEPT !["tx_path"] = a]
  <2>1. /\ y = [f \in ChanFields |-> y[f]] /\ y.trx = TRUE /\ y.idx = k
        /\ y.rx_path = r /\ y.tx_path = a
    BY DEF Channel, ChanFields
  <2>2. <<"tx-path", "tx_path">> \in {<<"rx-path", "rx_path">>, <<"tx-path", "tx_path">>}
    OBVIOUS
  <2>3. y = [Channel(k, r, t) EXCEPT !["tx_path"] = a] OBVIOUS
  <2> HIDE DEF y
  <2>4. y = Channel(k, r, a) BY <2>1, ChannelIs
  <2> QED BY <1>2, <2>2, <2>3, <2>4
<1> QED BY <1>3, <1>4

\* The lines of a channel are read as the channel.
LEMMA WroteChan ==
    ASSUME NEW d, ListOK(d), Writable(d), NEW k \in Nat, k < d.num_chans, NEW e, UpTo(e, d, k)
    PROVE  /\ Config!WrittenChan(d.chans[k]) \in Seq(Lines(d))
           /\ \E g : Reads(e, Config!WrittenChan(d.chans[k]), g) /\ UpTo(g, d, k + 1)
<1> DEFINE ch == d.chans[k]
           r == ch.rx_path
           t == ch.tx_path
           s1 == <<<<"chan", k>>>>
           s2 == Config!WrittenIf(r # Config!NONE, "rx-path", r)
           s3 == Config!WrittenIf(t # Config!NONE, "tx-path", t)
           e1 == Config!Execute(e, <<"chan", k>>)
           e2 == IF r # Config!NONE THEN Config!Execute(e1, <<"rx-path", r>>) ELSE e1
           e3 == IF t # Config!NONE THEN Config!Execute(e2, <<"tx-path", t>>) ELSE e2
<1>1. k \in Config!Chans
  BY ConfigAssumption DEF ListOK, Config!Chans, Config!ConfigAssumption
<1>2. ch.trx = TRUE /\ ch.idx = k
  <2>1. ch.trx = (k < d.num_chans) /\ (k < d.num_chans => ch.idx = k) BY <1>1, Zenon DEF ListOK
  <2> QED BY <2>1
<1>3. ch = Channel(k, r, t)
  <2>1. ch = [f \in ChanFields |-> ch[f]] BY <1>1, Zenon DEF Writable, Records
  <2> HIDE DEF ch
  <2> QED BY <1>2, <2>1, ChannelIs
<1>4. s1 \in Seq(Lines(d)) /\ s2 \in Seq(Lines(d)) /\ s3 \in Seq(Lines(d))
  <2>1. {"chan", "rx-path", "tx-path"} \subseteq Config!AllCommands BY DEF Config!AllCommands
  <2>2. <<"chan", k>> \in Lines(d) BY <2>1, Zenon DEF Lines
  <2>3. <<"rx-path", r>> \in Lines(d) /\ <<"tx-path", t>> \in Lines(d)
    BY <1>1, <2>1, Zenon DEF Lines
  <2>4. \A l \in Lines(d) : <<l>> \in Seq(Lines(d)) OBVIOUS
  <2>5. s2 \in {<<>>, <<<<"rx-path", r>>>>} /\ s3 \in {<<>>, <<<<"tx-path", t>>>>}
    BY Zenon DEF Config!WrittenIf
  <2>6. <<>> \in Seq(Lines(d)) OBVIOUS
  <2> HIDE DEF s2, s3
  <2> QED BY <2>2, <2>3, <2>4, <2>5, <2>6, Zenon
<1>5. Reads(e, s1, e1) /\ Inside(e1, d, k, "none", "none") BY <1>1, ReadLine, ReadsChan
<1> HIDE DEF e1, r, t
<1>6. Reads(e1, s2, e2) /\ Inside(e2, d, k, r, "none")
  <2>1. CASE r # Config!NONE
    <3>1. s2 = <<<<"rx-path", r>>>> /\ e2 = Config!Execute(e1, <<"rx-path", r>>)
      BY <2>1, Zenon DEF Config!WrittenIf
    <3> HIDE DEF s2, e2
    <3> QED BY <1>1, <1>5, <3>1, ReadLine, ReadsPath
  <2>2. CASE r = Config!NONE
    <3>1. s2 = <<>> /\ e2 = e1 BY <2>2, Zenon DEF Config!WrittenIf
    <3> HIDE DEF s2, e2
    <3> QED BY <1>5, <2>2, <3>1, ReadNothing DEF Config!NONE
  <2> QED BY <2>1, <2>2
<1> HIDE DEF e2
<1>7. Reads(e2, s3, e3) /\ Inside(e3, d, k, r, t)
  <2>1. CASE t # Config!NONE
    <3>1. s3 = <<<<"tx-path", t>>>> /\ e3 = Config!Execute(e2, <<"tx-path", t>>)
      BY <2>1, Zenon DEF Config!WrittenIf
    <3> HIDE DEF s3, e3
    <3> QED BY <1>1, <1>6, <3>1, ReadLine, ReadsPath
  <2>2. CASE t = Config!NONE
    <3>1. s3 = <<>> /\ e3 = e2 BY <2>2, Zenon DEF Config!WrittenIf
    <3> HIDE DEF s3, e3
    <3> QED BY <1>6, <2>2, <3>1, ReadNothing DEF Config!NONE
  <2> QED BY <2>1, <2>2
<1> HIDE DEF s1, s2, s3, e3
<1>8. (s1 \o s2) \o s3 \in Seq(Lines(d)) /\ s1 \o s2 \in Seq(Lines(d)) BY <1>4
<1>9. Reads(e, (s1 \o s2) \o s3, e3)
  <2>1. Reads(e, s1 \o s2, e2) BY <1>4, <1>5, <1>6, ReadBoth
  <2> QED BY <2>1, <1>4, <1>7, <1>8, ReadBoth
<1>10. Config!WrittenChan(ch) = (s1 \o s2) \o s3
  BY <1>2, Zenon DEF Config!WrittenChan, s1, s2, s3, r, t
<1>11. UpTo(e3, d, k + 1)
  <2>1. [i \in Config!Chans |-> IF i < k THEN d.chans[i]
                    ELSE IF i = k THEN Channel(k, r, t) ELSE Config!NoChan]
        = [i \in Config!Chans |-> IF i < k + 1 THEN d.chans[i] ELSE Config!NoChan]
    <3> SUFFICES ASSUME NEW i \in Config!Chans
                 PROVE  (IF i < k THEN d.chans[i]
                         ELSE IF i = k THEN Channel(k, r, t) ELSE Config!NoChan)
                        = (IF i < k + 1 THEN d.chans[i] ELSE Config!NoChan)
      BY Zenon
    <3>1. i \in Int BY DEF Config!Chans
    <3>2. CASE i < k BY <3>1, <3>2
    <3>3. CASE i = k
      <4>1. ~(i < k) /\ i < k + 1 BY <3>3
      <4>2. d.chans[i] = Channel(k, r, t) BY <1>3, <3>3
      <4> QED BY <3>3, <4>1, <4>2
    <3>4. CASE i > k
      <4>1. ~(i < k) /\ ~(i < k + 1) /\ i # k BY <3>1, <3>4
      <4> QED BY <4>1
    <3> QED BY <3>1, <3>2, <3>3, <3>4
  <2>2. /\ DOMAIN e3 = Fields /\ \A f \in Settable : e3[f] = d[f]
        /\ e3.num_chans = k + 1 /\ e3.node = "CHAN"
        /\ e3.chans = [i \in Config!Chans |-> IF i < k THEN d.chans[i]
                    ELSE IF i = k THEN Channel(k, r, t) ELSE Config!NoChan]
    BY <1>7, Zenon DEF Inside
  <2> QED BY <2>1, <2>2 DEF UpTo
<1> QED BY <1>8, <1>9, <1>10, <1>11, Zenon

\* All channels, one after the other.
LEMMA WroteChans ==
    ASSUME NEW d, ListOK(d), Writable(d), NEW c, UpTo(c, d, 0)
    PROVE  /\ Config!WrittenChans(d) \in Seq(Lines(d))
           /\ \E e : Reads(c, Config!WrittenChans(d), e) /\ UpTo(e, d, d.num_chans)
<1> DEFINE num == d.num_chans
           Step(w, n) == IF n = 0 THEN <<>> ELSE w[n - 1] \o Config!WrittenChan(d.chans[n - 1])
           Is(w, k) == w = [n \in 0 .. k |-> Step(w, n)]
           P(k) == \E w : /\ Is(w, k) /\ w[k] \in Seq(Lines(d))
                          /\ \E e : Reads(c, w[k], e) /\ UpTo(e, d, k)
           S == {k \in Nat : k <= num => P(k)}
<1>0. num \in Nat BY ConfigAssumption DEF ListOK, Config!ConfigAssumption
<1>1. 0 \in S
  <2> DEFINE w == [n \in 0 .. 0 |-> <<>>]
  <2>1. Is(w, 0) /\ w[0] = <<>> OBVIOUS
  <2>2. <<>> \in Seq(Lines(d)) /\ Reads(c, <<>>, c) BY ReadNothing
  <2> HIDE DEF w, Is
  <2>3. P(0) BY <2>1, <2>2, Zenon
  <2> HIDE DEF P
  <2> QED BY <2>3
<1>2. ASSUME NEW k \in Nat, k \in S PROVE k + 1 \in S
  <2> SUFFICES ASSUME k + 1 <= num PROVE P(k + 1)
    <3>1. k + 1 \in Nat OBVIOUS
    <3> HIDE DEF P
    <3> QED BY <3>1
  <2>0. k < num /\ k <= num BY <1>0
  <2>1. P(k)
    <3> HIDE DEF P
    <3> QED BY <1>2, <2>0
  <2> HIDE DEF Step
  <2>2. PICK w : Is(w, k) /\ w[k] \in Seq(Lines(d)) /\ \E e : Reads(c, w[k], e) /\ UpTo(e, d, k)
    BY <2>1, Zenon
  <2>3. PICK e : Reads(c, w[k], e) /\ UpTo(e, d, k) BY <2>2
  <2> DEFINE new == Config!WrittenChan(d.chans[k])
             v == [n \in 0 .. k + 1 |-> IF n <= k THEN w[n] ELSE w[k] \o new]
  <2>4. new \in Seq(Lines(d)) /\ \E g : Reads(e, new, g) /\ UpTo(g, d, k + 1)
    BY <2>0, <2>3, WroteChan
  <2>5. PICK g : Reads(e, new, g) /\ UpTo(g, d, k + 1) BY <2>4
  <2>6. v[k + 1] = w[k] \o new /\ \A n \in 0 .. k : v[n] = w[n]
    <3>1. k + 1 \in 0 .. k + 1 /\ ~(k + 1 <= k) OBVIOUS
    <3>2. \A n \in 0 .. k : n \in 0 .. k + 1 /\ n <= k OBVIOUS
    <3> HIDE DEF new
    <3> QED BY <3>1, <3>2
  <2> HIDE DEF new
  <2>7. w[k] \o new \in Seq(Lines(d)) /\ Reads(c, w[k] \o new, g)
    BY <2>2, <2>3, <2>4, <2>5, ReadBoth
  <2>8. Is(v, k + 1)
    <3>1. \A n \in 0 .. k : w[n] = Step(w, n) BY <2>2
    <3>2. ASSUME NEW n \in 0 .. k + 1 PROVE v[n] = Step(v, n)
      <4>1. CASE n = 0
        <5>1. 0 \in 0 .. k OBVIOUS
        <5>2. v[0] = Step(w, 0) BY <2>6, <3>1, <5>1
        <5> QED BY <4>1, <5>2 DEF Step
      <4>2. CASE n \in 1 .. k
        <5>1. n \in 0 .. k /\ n - 1 \in 0 .. k /\ n # 0 BY <4>2
        <5>2. v[n] = Step(w, n) /\ v[n - 1] = w[n - 1] BY <2>6, <3>1, <5>1
        <5> QED BY <5>1, <5>2 DEF Step
      <4>3. CASE n = k + 1
        <5>1. n - 1 = k /\ n # 0 /\ k \in 0 .. k BY <4>3
        <5>2. v[n] = v[n - 1] \o Config!WrittenChan(d.chans[n - 1])
          BY <2>6, <4>3, <5>1 DEF new
        <5> QED BY <5>1, <5>2 DEF Step
      <4> QED BY <4>1, <4>2, <4>3
    <3>3. v = [n \in 0 .. k + 1 |-> v[n]] OBVIOUS
    <3> HIDE DEF v
    <3> QED BY <3>2, <3>3
  <2> HIDE DEF v, Is
  <2> QED BY <2>5, <2>6, <2>7, <2>8, Zenon
<1> HIDE DEF S
<1>3. num \in S BY <1>0, <1>1, <1>2, SetInduction
<1>4. P(num)
  <2>1. num <= num BY <1>0
  <2> HIDE DEF P
  <2> QED BY <1>3, <2>1 DEF S
<1>5. PICK w : Is(w, num) /\ w[num] \in Seq(Lines(d))
               /\ \E e : Reads(c, w[num], e) /\ UpTo(e, d, num)
  BY <1>4
<1> DEFINE lines == CHOOSE v : Is(v, num)
<1>6. Config!WrittenChans(d) = lines[num] BY DEF Config!WrittenChans
<1>7. Is(lines, num) BY <1>5
<1> HIDE DEF lines, Step
<1>8. \A n \in 0 .. num : lines[n] = Step(lines, n) /\ w[n] = Step(w, n) BY <1>5, <1>7
<1>9. lines[0] = w[0] BY <1>0, <1>8 DEF Step
<1>10. ASSUME NEW n \in 1 .. num, lines[n - 1] = w[n - 1] PROVE lines[n] = w[n]
  <2>1. n \in 0 .. num /\ n # 0 BY <1>0
  <2> QED BY <2>1, <1>8, <1>10 DEF Step
<1>11. lines[num] = w[num]
  <2> HIDE DEF num
  <2> QED BY <1>0, <1>9, <1>10, SameUpTo
<1> QED BY <1>5, <1>6, <1>11

\* Everything that was written, read back.
LEMMA WrittenIsRead ==
    ASSUME NEW d, ListOK(d), Writable(d), ~(d.rtsc_set /\ d.rach_delay_set)
    PROVE  Config!Settings(Config!ReadBack(Config!config_write_trx(d))) = Config!Settings(d)
<1>1. PICK s : /\ Wrote(s, d, Settable)
               /\ Config!config_write_trx(d) = s \o Config!WrittenChans(d)
  BY WroteSettings
<1>2. PICK c : Reads(Config!Default, s, c) /\ Progress(c, d, Settable) BY <1>1, Zenon DEF Wrote
<1>3. s \in Seq(Lines(d)) BY <1>1 DEF Wrote
<1>4. UpTo(c, d, 0)
  <2>1. [i \in Config!Chans |-> IF i < 0 THEN d.chans[i] ELSE Config!NoChan]
        = [i \in Config!Chans |-> Config!NoChan]
    BY DEF Config!Chans
  <2>2. /\ DOMAIN c = Fields /\ c.node = "TRX" /\ c.num_chans = 0
        /\ c.chans = [i \in Config!Chans |-> Config!NoChan]
        /\ \A f \in Settable : c[f] = d[f]
    BY <1>2, Zenon DEF Progress
  <2> QED BY <2>1, <2>2 DEF UpTo
<1>5. PICK e : Reads(c, Config!WrittenChans(d), e) /\ UpTo(e, d, d.num_chans)
  BY <1>4, WroteChans
<1>6. Config!WrittenChans(d) \in Seq(Lines(d)) BY <1>4, WroteChans
<1> DEFINE all == s \o Config!WrittenChans(d)
<1>7. all \in Seq(Lines(d)) /\ Reads(Config!Default, all, e)
  BY <1>2, <1>3, <1>5, <1>6, ReadBoth
<1> HIDE DEF all
<1>8. Config!ReadBack(all) = e BY <1>7, ReadBackIs
<1>9. e.chans = d.chans
  <2>1. d.chans = [i \in Config!Chans |-> d.chans[i]] BY Zenon DEF Writable, Records
  <2>2. e.chans = [i \in Config!Chans |->
                      IF i < d.num_chans THEN d.chans[i] ELSE Config!NoChan]
    BY <1>5, Zenon DEF UpTo
  <2>3. ASSUME NEW i \in Config!Chans PROVE e.chans[i] = d.chans[i]
    <3>1. i \in Int /\ d.num_chans \in Int
      BY ConfigAssumption DEF Config!Chans, ListOK, Config!ConfigAssumption
    <3>2. CASE i < d.num_chans BY <2>2, <3>2
    <3>3. CASE i >= d.num_chans
      <4>1. d.chans[i] = Config!NoChan /\ ~(i < d.num_chans) BY <3>1, <3>3 DEF ListOK
      <4> QED BY <2>2, <4>1
    <3> QED BY <3>1, <3>2, <3>3
  <2>4. e.chans = [i \in Config!Chans |-> e.chans[i]] BY <2>2
  <2> QED BY <2>1, <2>3, <2>4, Zenon
<1>10. DOMAIN e = Fields /\ DOMAIN d = Fields /\ e.num_chans = d.num_chans
       /\ \A f \in Settable : e[f] = d[f]
  BY <1>5, Zenon DEF UpTo, Writable
<1>11. \A f \in Fields \ {"filler", "node", "index"} : e[f] = d[f]
  BY <1>9, <1>10 DEF Settable
<1>12. Config!Settings(e) = Config!Settings(d)
  BY <1>10, <1>11 DEF Config!Settings
<1> QED BY <1>1, <1>8, <1>12 DEF all

\* The configuration, whatever options and commands are given, in whatever
\* order: the channel list is complete, what runs was validated, a random
\* filler was asked for, and a process that reads the configuration written
\* has the same settings (handle_options, the commands of trx_vty.c, main,
\* config_write_trx).
THEOREM StConfigInv == StartSpec => []ConfigInv
<1>1. ConfigIInv /\ Writable(cfg) => Config!WrittenIsConfig
  <2> SUFFICES ASSUME ConfigIInv, Writable(cfg), Config!Past,
                      ~(cfg.rtsc_set /\ cfg.rach_delay_set)
               PROVE  Config!Settings(Config!ReadBack(Config!config_write_trx(cfg)))
                      = Config!Settings(cfg)
    BY Zenon DEF Config!WrittenIsConfig
  <2>1. ListOK(cfg) BY DEF ConfigIInv, Config!Past
  <2> QED BY <2>1, WrittenIsRead
<1>2. StartSpec => []ConfigIInv BY ConfigurationInductive
<1>3. StartSpec => []Writable(cfg) BY ConfigWritable
<1>4. StartSpec => [](Config!ChansFilled /\ Config!ActiveIsValid /\ Config!FillerAskedFor)
  BY ConfigListed
<1>5. Config!ChansFilled /\ Config!ActiveIsValid /\ Config!FillerAskedFor
      /\ Config!WrittenIsConfig => ConfigInv
  BY DEF ConfigInv
<1> QED BY <1>1, <1>2, <1>3, <1>4, <1>5, PTL
-----------------------------------------------------------------------------
(* The start (TrxStart, in MCStart): for any devices, channels and         *)
(* versions.                                                               *)

UhdRate(t) ==
    IF t \in {"USRP2", "X3XX"} THEN Trx!USRP2_RATE
    ELSE IF t = "B100" THEN Trx!B100_RATE
    ELSE IF t = "B2XX_MCBTS" THEN Trx!MCBTS_RATE ELSE Trx!GSMRATE
TwoChans == {"B210", "E3XX", "X3XX", "UMTRX"}
UhdChans(t) == IF t \in TwoChans THEN 2 ELSE 1

\* Every entry of the table, by its type.
LEMMA TableRows ==
    ASSUME NEW d \in Trx!dev_param_map
    PROVE  /\ d.rate = UhdRate(d.type) /\ d.channels = UhdChans(d.type)
<1> DEFINE Rows(t, sps, n, r) ==
               {[type |-> t, sps |-> s, channels |-> n, rate |-> r] : s \in sps}
<1>1. ASSUME NEW t, NEW sps, NEW n, NEW r, d \in Rows(t, sps, n, r)
      PROVE  d.type = t /\ d.channels = n /\ d.rate = r
  BY <1>1
<1>2. \/ d \in Rows("USRP2", Trx!AllSps, 1, Trx!USRP2_RATE)
      \/ d \in Rows("B100", Trx!RxAtOne, 1, Trx!B100_RATE)
      \/ d \in Rows("B200", Trx!AllSps, 1, Trx!GSMRATE)
      \/ d \in Rows("B210", Trx!AllSps, 2, Trx!GSMRATE)
      \/ d \in Rows("E1XX", Trx!RxAtOne, 1, Trx!GSMRATE)
      \/ d \in Rows("E3XX", Trx!RxAtOne, 2, Trx!GSMRATE)
      \/ d \in Rows("X3XX", Trx!AllSps, 2, Trx!USRP2_RATE)
      \/ d \in Rows("UMTRX", Trx!AllSps, 2, Trx!GSMRATE)
      \/ d \in Rows("LIMESDR", {<<4, 4>>}, 1, Trx!GSMRATE)
      \/ d \in Rows("B2XX_MCBTS", {<<4, 4>>}, 1, Trx!MCBTS_RATE)
  BY Zenon DEF Trx!dev_param_map
<1> HIDE DEF Rows
<1> USE DEF UhdRate, UhdChans, TwoChans
<1>3. CASE d \in Rows("USRP2", Trx!AllSps, 1, Trx!USRP2_RATE) BY <1>1, <1>3
<1>4. CASE d \in Rows("B100", Trx!RxAtOne, 1, Trx!B100_RATE) BY <1>1, <1>4
<1>5. CASE d \in Rows("B200", Trx!AllSps, 1, Trx!GSMRATE) BY <1>1, <1>5
<1>6. CASE d \in Rows("B210", Trx!AllSps, 2, Trx!GSMRATE) BY <1>1, <1>6
<1>7. CASE d \in Rows("E1XX", Trx!RxAtOne, 1, Trx!GSMRATE) BY <1>1, <1>7
<1>8. CASE d \in Rows("E3XX", Trx!RxAtOne, 2, Trx!GSMRATE) BY <1>1, <1>8
<1>9. CASE d \in Rows("X3XX", Trx!AllSps, 2, Trx!USRP2_RATE) BY <1>1, <1>9
<1>10. CASE d \in Rows("UMTRX", Trx!AllSps, 2, Trx!GSMRATE) BY <1>1, <1>10
<1>11. CASE d \in Rows("LIMESDR", {<<4, 4>>}, 1, Trx!GSMRATE) BY <1>1, <1>11
<1>12. CASE d \in Rows("B2XX_MCBTS", {<<4, 4>>}, 1, Trx!MCBTS_RATE) BY <1>1, <1>12
<1> QED BY <1>2, <1>3, <1>4, <1>5, <1>6, <1>7, <1>8, <1>9, <1>10, <1>11, <1>12

\* With four samples per symbol the table has the devices of the manual.
LEMMA DocumentedRows ==
    ASSUME NEW t \in {"B200", "B210", "UMTRX", "LIMESDR", "B2XX_MCBTS"}
    PROVE  \E d \in Trx!dev_param_map :
               d.type = t /\ d.sps = <<4, 4>> /\ d.channels = UhdChans(t)
<1> DEFINE Row(u, n, r) == [type |-> u, sps |-> <<4, 4>>, channels |-> n, rate |-> r]
<1>1. <<4, 4>> \in Trx!AllSps BY DEF Trx!AllSps
<1>2. /\ Row("B200", 1, Trx!GSMRATE) \in Trx!dev_param_map
      /\ Row("B210", 2, Trx!GSMRATE) \in Trx!dev_param_map
      /\ Row("UMTRX", 2, Trx!GSMRATE) \in Trx!dev_param_map
      /\ Row("LIMESDR", 1, Trx!GSMRATE) \in Trx!dev_param_map
      /\ Row("B2XX_MCBTS", 1, Trx!MCBTS_RATE) \in Trx!dev_param_map
  BY <1>1, Zenon DEF Trx!dev_param_map
<1>3. \A u, n, r : Row(u, n, r).type = u /\ Row(u, n, r).sps = <<4, 4>> /\ Row(u, n, r).channels = n
  OBVIOUS
<1> HIDE DEF Row
<1>4. CASE t = "B200" BY <1>2, <1>3, <1>4 DEF UhdChans, TwoChans
<1>5. CASE t = "B210" BY <1>2, <1>3, <1>5 DEF UhdChans, TwoChans
<1>6. CASE t = "UMTRX" BY <1>2, <1>3, <1>6 DEF UhdChans, TwoChans
<1>7. CASE t = "LIMESDR" BY <1>2, <1>3, <1>7 DEF UhdChans, TwoChans
<1>8. CASE t = "B2XX_MCBTS" BY <1>2, <1>3, <1>8 DEF UhdChans, TwoChans
<1> QED BY <1>4, <1>5, <1>6, <1>7, <1>8

\* A configuration of trx_validate_config().
ConfOK ==
    /\ conf.dev \in Trx!UhdTypes \cup {"LMS", "USRP1"} /\ conf.multi \in BOOLEAN
    /\ conf.sps \in {<<1, 1>>, <<1, 4>>, <<4, 1>>, <<4, 4>>}
    /\ conf.num_chans \in Nat \ {0}
    /\ \A p \in conf.paths : p \in Nat /\ p < conf.num_chans
    /\ conf.multi => conf.sps = <<4, 4>>

LEMMA Configured == conf \in Trx!Configs => ConfOK
<1> SUFFICES ASSUME conf \in Trx!Configs PROVE ConfOK OBVIOUS
<1>1. /\ conf \in [dev : TrxDevices, multi : BOOLEAN,
                   sps : {<<1, 1>>, <<1, 4>>, <<4, 1>>, <<4, 4>>},
                   num_chans : 1 .. MaxChans, paths : SUBSET (0 .. MaxChans - 1),
                   offset : {0, 1}, version : Versions]
      /\ conf.multi => conf.sps = <<4, 4>>
      /\ \A p \in conf.paths : p < conf.num_chans
  BY DEF Trx!Configs
<1>2. /\ conf.dev \in TrxDevices /\ conf.multi \in BOOLEAN
      /\ conf.sps \in {<<1, 1>>, <<1, 4>>, <<4, 1>>, <<4, 4>>}
      /\ conf.num_chans \in 1 .. MaxChans /\ conf.paths \in SUBSET (0 .. MaxChans - 1)
  BY <1>1, Zenon
<1>3. conf.dev \in Trx!UhdTypes \cup {"LMS", "USRP1"}
  BY <1>2, TrxAssumption DEF Trx!StartAssumption
<1>4. \A p \in conf.paths : p \in Nat BY <1>2, TrxAssumption DEF Trx!StartAssumption
<1>5. conf.num_chans \in Nat \ {0} BY <1>2, TrxAssumption DEF Trx!StartAssumption
<1> QED BY <1>1, <1>2, <1>3, <1>4, <1>5, Zenon DEF ConfOK

\* What open() leaves of a UHD device.
LEMMA RatesSet ==
    ASSUME ConfOK, Trx!set_channels
    PROVE  LET r == UhdRate(Trx!dev_type)
               multi == Trx!dev_type = "B2XX_MCBTS"
           IN  /\ Trx!set_rates = [chans |-> Trx!DevChans,
                                   tx |-> IF multi THEN r ELSE r * conf.sps[1],
                                   rx |-> IF multi THEN r ELSE r * conf.sps[2]]
               /\ Trx!DevChans <= UhdChans(Trx!dev_type)
<1>1. PICK d \in Trx!Desc : Trx!DevChans <= d.channels BY DEF Trx!set_channels
<1> DEFINE e == CHOOSE f \in Trx!Desc : TRUE
<1>2. e \in Trx!Desc BY <1>1, Zenon
<1>3. e.rate = UhdRate(Trx!dev_type) BY <1>2, TableRows DEF Trx!Desc
<1>4. d.channels = UhdChans(Trx!dev_type) BY TableRows DEF Trx!Desc
<1>5. Trx!set_rates = [chans |-> Trx!DevChans,
           tx |-> IF Trx!dev_type = "B2XX_MCBTS" THEN e.rate ELSE e.rate * conf.sps[1],
           rx |-> IF Trx!dev_type = "B2XX_MCBTS" THEN e.rate ELSE e.rate * conf.sps[2]]
  BY Zenon DEF Trx!set_rates
<1> HIDE DEF e
<1> QED BY <1>1, <1>3, <1>4, <1>5, Zenon

Early == {"make", "null", "open"}
Attaching == {"attach", "loop"}

\* What has been done where trx_start() is.
Opened ==
    IF conf.dev \in Trx!UhdTypes THEN Trx!set_channels /\ usrp = Trx!set_rates
    ELSE usrp = [chans |-> conf.num_chans, tx |-> Trx!GSMRATE * conf.sps[1],
                 rx |-> Trx!GSMRATE * conf.sps[2]]

RadioMade ==
    /\ radio = Trx!NewRadio(Trx!InterfaceType)
    /\ Trx!InterfaceType = "MULTI_ARFCN" => Trx!MultiInit

Attached ==
    \E k \in Nat : /\ fifos = 0 .. k - 1 /\ k <= conf.num_chans /\ k <= radio.chans
                   /\ pc = "loop" => k = conf.num_chans

ObjectsInOrder ==
    /\ DOMAIN object = Trx!Objects /\ Trx!UsersGoFirst
    /\ pc \notin {"stop", "exit", "crashed"} => \A o \in Trx!Objects : object[o] # "gone"

StartIInv ==
    /\ conf \in Trx!Configs
    /\ ObjectsInOrder
    /\ pc \in Early \cup {"radio", "transceiver"} => fifos = {}
    /\ pc \in {"radio", "transceiver"} \cup Attaching => Opened
    /\ pc \in {"transceiver"} \cup Attaching => RadioMade
    /\ pc \in Attaching => Attached
    /\ Trx!DocumentedRun

\* The set-ups of the manual are not refused by any step.
LEMMA DocumentedMade ==
    ASSUME ConfOK, Trx!Documented
    PROVE  ~Trx!MakeRefuses
<1>1. \/ conf.dev \in {"B200", "B210", "UMTRX", "LIMESDR"}
      \/ conf.dev = "LMS" /\ conf.sps = <<4, 4>> /\ conf.offset = 0
  BY DEF Trx!Documented
<1> QED BY <1>1 DEF Trx!MakeRefuses

LEMMA DocumentedOpened ==
    ASSUME ConfOK, Trx!Documented, conf.dev \in Trx!UhdTypes
    PROVE  /\ conf.dev # "E3XX" /\ Trx!set_channels /\ ~Trx!AntennaThrows
           /\ Trx!InterfaceType = "MULTI_ARFCN" => Trx!MultiInit
<1>1. CASE /\ conf.dev \in {"B200", "B210"} /\ conf.multi
           /\ conf.num_chans <= 3 /\ conf.paths = {}
  <2>1. Trx!dev_type = "B2XX_MCBTS" /\ Trx!DevChans = 1 BY <1>1 DEF Trx!dev_type, Trx!DevChans
  <2>2. PICK d \in Trx!dev_param_map :
           d.type = "B2XX_MCBTS" /\ d.sps = <<4, 4>> /\ d.channels = UhdChans("B2XX_MCBTS")
    BY DocumentedRows
  <2>3. d \in Trx!Desc /\ Trx!DevChans <= d.channels
    BY <1>1, <2>1, <2>2 DEF Trx!Desc, ConfOK, UhdChans, TwoChans
  <2>4. Trx!set_channels BY <1>1, <2>3 DEF Trx!set_channels
  <2>5. ~Trx!AntennaThrows BY <1>1 DEF Trx!AntennaThrows
  <2>6. Trx!MultiInit BY <1>1 DEF Trx!MultiInit, ConfOK
  <2> QED BY <1>1, <2>4, <2>5, <2>6
<1>2. CASE /\ conf.dev \in {"B200", "B210", "UMTRX", "LIMESDR"} /\ ~conf.multi
           /\ conf.sps = <<4, 4>> /\ conf.num_chans <= UhdChans(conf.dev)
  <2>1. Trx!dev_type = conf.dev /\ Trx!DevChans = conf.num_chans
    BY <1>2 DEF Trx!dev_type, Trx!DevChans
  <2>2. PICK d \in Trx!dev_param_map :
           d.type = conf.dev /\ d.sps = <<4, 4>> /\ d.channels = UhdChans(conf.dev)
    BY <1>2, DocumentedRows
  <2>3. d \in Trx!Desc /\ Trx!DevChans <= d.channels BY <1>2, <2>1, <2>2 DEF Trx!Desc
  <2>4. Trx!set_channels BY <1>2, <2>3 DEF Trx!set_channels
  <2>5. Trx!AntennaChans >= conf.num_chans
    BY <1>2 DEF Trx!AntennaChans, Trx!Frontends, ConfOK, UhdChans, TwoChans
  <2>6. ~Trx!AntennaThrows
    <3>1. Trx!AntennaChans \in Int
      BY <1>2 DEF Trx!AntennaChans, Trx!Frontends, ConfOK
    <3> QED BY <2>5, <3>1 DEF Trx!AntennaThrows, ConfOK
  <2>7. Trx!InterfaceType # "MULTI_ARFCN" BY <1>2, Zenon DEF Trx!InterfaceType
  <2> QED BY <1>2, <2>4, <2>6, <2>7
<1>3. conf.dev # "LMS" BY DEF Trx!UhdTypes
<1> QED BY <1>1, <1>2, <1>3 DEF Trx!Documented, UhdChans, TwoChans, ConfOK

\* The interface that open() asks for, and what its constructor makes.
LEMMA RadioIs ==
    LET r == Trx!NewRadio(Trx!InterfaceType)
        multi == conf.multi /\ conf.dev \in Trx!UhdTypes
    IN  /\ multi <=> Trx!InterfaceType = "MULTI_ARFCN"
        /\ multi => r = [chans |-> conf.num_chans, bufs |-> 1, in |-> 65, out |-> 48]
        /\ ~multi /\ conf.dev = "B100" => r = [chans |-> 1, bufs |-> 1, in |-> 65, out |-> 96]
        /\ ~multi /\ conf.dev \in {"USRP2", "X3XX"}
           => r = [chans |-> 1, bufs |-> 1, in |-> 52, out |-> 75]
        /\ ~multi /\ conf.dev \notin {"B100", "USRP2", "X3XX"}
           => r = [chans |-> conf.num_chans, bufs |-> conf.num_chans, in |-> 1, out |-> 1]
<1> DEFINE multi == conf.multi /\ conf.dev \in Trx!UhdTypes
           t == Trx!InterfaceType
<1>1. multi => t = "MULTI_ARFCN" BY SMT DEF Trx!InterfaceType
<1>2. ~multi /\ conf.dev = "B100" => t = "RESAMP_64M" BY SMT DEF Trx!InterfaceType
<1>3. ~multi /\ conf.dev \in {"USRP2", "X3XX"} => t = "RESAMP_100M"
  BY SMT DEF Trx!InterfaceType
<1>4. ~multi /\ conf.dev \notin {"B100", "USRP2", "X3XX"} => t = "NORMAL"
  BY SMT DEF Trx!InterfaceType
<1> HIDE DEF t
<1>5. t = "MULTI_ARFCN"
      => Trx!NewRadio(t) = [chans |-> conf.num_chans, bufs |-> 1, in |-> 65, out |-> 48]
  BY SMT DEF Trx!NewRadio
<1>6. t = "RESAMP_64M" => Trx!NewRadio(t) = [chans |-> 1, bufs |-> 1, in |-> 65, out |-> 96]
  BY SMT DEF Trx!NewRadio
<1>7. t = "RESAMP_100M" => Trx!NewRadio(t) = [chans |-> 1, bufs |-> 1, in |-> 52, out |-> 75]
  BY SMT DEF Trx!NewRadio
<1>8. t = "NORMAL" => Trx!NewRadio(t) = [chans |-> conf.num_chans, bufs |-> conf.num_chans,
                                         in |-> 1, out |-> 1]
  BY SMT DEF Trx!NewRadio
<1> HIDE DEF multi
<1>9. /\ multi <=> t = "MULTI_ARFCN"
      /\ multi => Trx!NewRadio(t) = [chans |-> conf.num_chans, bufs |-> 1, in |-> 65, out |-> 48]
      /\ ~multi /\ conf.dev = "B100"
         => Trx!NewRadio(t) = [chans |-> 1, bufs |-> 1, in |-> 65, out |-> 96]
      /\ ~multi /\ conf.dev \in {"USRP2", "X3XX"}
         => Trx!NewRadio(t) = [chans |-> 1, bufs |-> 1, in |-> 52, out |-> 75]
      /\ ~multi /\ conf.dev \notin {"B100", "USRP2", "X3XX"}
         => Trx!NewRadio(t) = [chans |-> conf.num_chans, bufs |-> conf.num_chans,
                               in |-> 1, out |-> 1]
  BY <1>1, <1>2, <1>3, <1>4, <1>5, <1>6, <1>7, <1>8, SMT
<1> QED BY <1>9, Zenon DEF multi, t

\* The two agree about rates.
LEMMA RatesMeet ==
    ASSUME ConfOK, Opened, RadioMade
    PROVE  LET branches == IF conf.multi /\ conf.dev \in Trx!UhdTypes THEN 4 ELSE 1
           IN  /\ usrp.tx * radio.in = branches * Trx!GSMRATE * conf.sps[1] * radio.out
               /\ usrp.rx * radio.in = branches * Trx!GSMRATE * conf.sps[2] * radio.out
<1>1. conf.sps[1] \in {1, 4} /\ conf.sps[2] \in {1, 4} BY DEF ConfOK
<1> DEFINE r == UhdRate(Trx!dev_type)
           multi == conf.multi /\ conf.dev \in Trx!UhdTypes
<1>2. conf.dev # "B2XX_MCBTS" BY DEF ConfOK, Trx!UhdTypes
<1>3. CASE multi
  <2>1. Trx!dev_type = "B2XX_MCBTS" /\ conf.sps = <<4, 4>> BY <1>3 DEF Trx!dev_type, ConfOK
  <2>2. r = Trx!MCBTS_RATE BY <2>1 DEF UhdRate
  <2>3. usrp.tx = r /\ usrp.rx = r BY <1>3, <2>1, RatesSet DEF Opened
  <2>4. radio.in = 65 /\ radio.out = 48 BY <1>3, RadioIs DEF RadioMade
  <2> QED BY <1>3, <2>1, <2>2, <2>3, <2>4 DEF Trx!MCBTS_RATE, Trx!GSMRATE
<1>4. CASE ~multi /\ conf.dev \in Trx!UhdTypes
  <2>1. Trx!dev_type = conf.dev BY <1>4 DEF Trx!dev_type, ConfOK
  <2>2. usrp.tx = r * conf.sps[1] /\ usrp.rx = r * conf.sps[2]
    BY <1>2, <1>4, <2>1, RatesSet DEF Opened
  <2>3. /\ r \in Int
        /\ r * radio.in = Trx!GSMRATE * radio.out /\ radio.in \in Int /\ radio.out \in Int
    <3>1. CASE conf.dev = "B100"
      <4>1. radio.in = 65 /\ radio.out = 96 BY <1>4, <3>1, RadioIs DEF RadioMade
      <4> QED BY <2>1, <3>1, <4>1 DEF UhdRate, Trx!B100_RATE, Trx!GSMRATE
    <3>2. CASE conf.dev \in {"USRP2", "X3XX"}
      <4>1. radio.in = 52 /\ radio.out = 75 BY <1>4, <3>2, RadioIs DEF RadioMade
      <4> QED BY <2>1, <3>2, <4>1 DEF UhdRate, Trx!USRP2_RATE, Trx!GSMRATE
    <3>3. CASE conf.dev \notin {"B100", "USRP2", "X3XX"}
      <4>1. radio.in = 1 /\ radio.out = 1 BY <1>4, <3>3, RadioIs DEF RadioMade
      <4> QED BY <1>2, <2>1, <3>3, <4>1 DEF UhdRate, Trx!GSMRATE
    <3> QED BY <3>1, <3>2, <3>3
  <2>4. /\ conf.sps[1] = 1 \/ conf.sps[1] = 4
        /\ conf.sps[2] = 1 \/ conf.sps[2] = 4
    BY <1>1
  <2>5. Trx!GSMRATE \in Int BY DEF Trx!GSMRATE
  <2> HIDE DEF r
  <2> QED BY <1>4, <2>2, <2>3, <2>4, <2>5
<1>5. CASE ~(conf.dev \in Trx!UhdTypes)
  <2>1. usrp.tx = Trx!GSMRATE * conf.sps[1] /\ usrp.rx = Trx!GSMRATE * conf.sps[2]
    BY <1>5 DEF Opened
  <2>2. radio.in = 1 /\ radio.out = 1
    BY <1>5, RadioIs DEF RadioMade, Trx!UhdTypes
  <2> QED BY <1>1, <1>5, <2>1, <2>2 DEF Trx!GSMRATE
<1> QED BY <1>3, <1>4, <1>5

\* With as many FIFOs as channels, buffers and streams are as many.
LEMMA BuffersMeet ==
    ASSUME ConfOK, Opened, RadioMade, conf.num_chans <= radio.chans
    PROVE  radio.bufs = usrp.chans
<1>1. CASE conf.multi /\ conf.dev \in Trx!UhdTypes
  <2>1. Trx!DevChans = 1 BY <1>1 DEF Trx!DevChans
  <2> QED BY <1>1, <2>1, RatesSet, RadioIs DEF Opened, RadioMade
<1>2. CASE ~conf.multi /\ conf.dev \in Trx!UhdTypes
  <2>1. Trx!DevChans = conf.num_chans BY <1>2 DEF Trx!DevChans
  <2>2. usrp.chans = conf.num_chans BY <1>2, <2>1, RatesSet DEF Opened
  <2> QED BY <1>2, <2>2, RadioIs DEF RadioMade, ConfOK
<1>3. CASE ~(conf.dev \in Trx!UhdTypes)
  <2>1. radio.bufs = conf.num_chans BY <1>3, RadioIs DEF RadioMade, Trx!UhdTypes
  <2> QED BY <1>3, <2>1 DEF Opened
<1> QED BY <1>1, <1>2, <1>3 DEF ConfOK

LEMMA StartInvHolds == StartIInv => StartInv
<1> SUFFICES ASSUME StartIInv PROVE StartInv OBVIOUS
<1>1. ConfOK BY Configured DEF StartIInv
<1>2. Trx!ChannelsAgree
  <2> SUFFICES ASSUME pc = "loop"
               PROVE  /\ fifos = 0 .. conf.num_chans - 1
                      /\ conf.multi /\ conf.dev \in Trx!UhdTypes => conf.num_chans <= 3
                      /\ radio.bufs = usrp.chans
    BY DEF Trx!ChannelsAgree
  <2>1. Opened /\ RadioMade /\ Attached BY DEF StartIInv, Attaching
  <2>2. fifos = 0 .. conf.num_chans - 1 /\ conf.num_chans <= radio.chans BY <2>1 DEF Attached
  <2>3. conf.multi /\ conf.dev \in Trx!UhdTypes => conf.num_chans <= 3
    BY <1>1, <2>1, RadioIs DEF RadioMade, Trx!MultiInit, ConfOK
  <2> QED BY <1>1, <2>1, <2>2, <2>3, BuffersMeet
<1>3. Trx!RatesAgree
  BY <1>1, RatesMeet DEF StartIInv, Trx!RatesAgree, Attaching
<1> QED BY <1>2, <1>3 DEF StartIInv, ObjectsInOrder, StartInv

LEMMA StartInit0 == Trx!Init => StartIInv
<1> SUFFICES ASSUME Trx!Init PROVE StartIInv OBVIOUS
<1>1. ObjectsInOrder
  BY DEF Trx!Init, ObjectsInOrder, Trx!UsersGoFirst, Trx!Objects
<1>2. Trx!DocumentedRun BY DEF Trx!Init, Trx!DocumentedRun
<1> QED BY <1>1, <1>2 DEF Trx!Init, StartIInv, Early, Attaching

\* What no step disturbs.
LEMMA StartFrame ==
    ASSUME StartIInv, conf' = conf, usrp' = usrp, radio' = radio
    PROVE  /\ conf' \in Trx!Configs' /\ ConfOK
           /\ Opened' = Opened /\ RadioMade' = RadioMade
           /\ Trx!Documented' = Trx!Documented
<1>1. conf' \in Trx!Configs' BY DEF StartIInv, Trx!Configs
<1>2. ConfOK BY Configured DEF StartIInv
<1>3. Opened' = Opened
  BY DEF Opened, Trx!set_channels, Trx!set_rates, Trx!Desc, Trx!dev_type, Trx!DevChans
<1>4. RadioMade' = RadioMade
  BY Zenon DEF RadioMade, Trx!NewRadio, Trx!InterfaceType, Trx!MultiInit
<1>5. Trx!Documented' = Trx!Documented BY DEF Trx!Documented
<1> QED BY <1>1, <1>2, <1>3, <1>4, <1>5

\* An object is made while none is gone.
LEMMA Created ==
    ASSUME ObjectsInOrder, pc \notin {"stop", "exit", "crashed"}, NEW o \in Trx!Objects,
           NEW made \in {"live", "half"}, object' = [object EXCEPT ![o] = made]
    PROVE  ObjectsInOrder'
<1>1. \A q \in Trx!Objects : object'[q] # "gone" BY DEF ObjectsInOrder
<1>2. DOMAIN object' = Trx!Objects BY DEF ObjectsInOrder
<1> QED BY <1>1, <1>2 DEF ObjectsInOrder, Trx!UsersGoFirst, Trx!Objects

LEMMA SameObjects ==
    ASSUME ObjectsInOrder, pc \notin {"stop", "exit", "crashed"}, object' = object
    PROVE  ObjectsInOrder'
BY DEF ObjectsInOrder, Trx!UsersGoFirst

LEMMA MakeStep == ASSUME StartIInv, Trx!Make PROVE StartIInv'
<1>1. /\ conf' = conf /\ usrp' = usrp /\ radio' = radio /\ fifos' = fifos /\ failed' = failed
      /\ pc = "make"
      /\ \/ Trx!MakeRefuses /\ pc' = "null" /\ object' = object
         \/ ~Trx!MakeRefuses /\ pc' = "open" /\ object' = [object EXCEPT !["usrp"] = "live"]
  BY Zenon DEF Trx!Make
<1>2. conf' \in Trx!Configs' /\ ConfOK /\ Trx!Documented' = Trx!Documented BY <1>1, StartFrame
<1>3. ObjectsInOrder'
  BY <1>1, SameObjects, Created DEF StartIInv, Trx!Objects
<1>4. Trx!DocumentedRun' BY <1>1, <1>2, DocumentedMade DEF Trx!DocumentedRun
<1> QED BY <1>1, <1>2, <1>3, <1>4 DEF StartIInv, Early, Attaching

LEMMA FailStep == ASSUME StartIInv, Trx!OpenFails \/ Trx!Shutdown PROVE StartIInv'
<1>1. /\ conf' = conf /\ usrp' = usrp /\ radio' = radio /\ fifos' = fifos /\ failed' = TRUE
      /\ pc \in {"open", "loop"} /\ pc' = "stop" /\ object' = object
  BY DEF Trx!OpenFails, Trx!Shutdown
<1>2. conf' \in Trx!Configs' BY <1>1, StartFrame
<1>3. ObjectsInOrder' BY <1>1, SameObjects DEF StartIInv
<1>4. Trx!DocumentedRun' BY <1>1 DEF Trx!DocumentedRun
<1> QED BY <1>1, <1>2, <1>3, <1>4 DEF StartIInv, Early, Attaching

\* A device that was opened has the channels and rates of its table entry.
LEMMA OpenStep == ASSUME StartIInv, Trx!OpenUhd \/ Trx!OpenOther PROVE StartIInv'
<1>1. /\ conf' = conf /\ object' = object /\ radio' = radio /\ fifos' = fifos
      /\ failed' = failed /\ pc = "open"
  BY DEF Trx!OpenUhd, Trx!OpenOther
<1>2. conf' \in Trx!Configs' BY <1>1 DEF StartIInv, Trx!Configs
<1>3. ConfOK BY Configured DEF StartIInv
<1>4. Trx!Documented' = Trx!Documented BY <1>1 DEF Trx!Documented
<1>5. pc' \in {"stop", "thrown", "radio"} BY DEF Trx!OpenUhd, Trx!OpenOther
<1>6. ObjectsInOrder' BY <1>1, SameObjects DEF StartIInv
<1>7. CASE Trx!OpenUhd
  <2>1. pc' = "radio" => Trx!set_channels /\ usrp' = Trx!set_rates /\ conf.dev \in Trx!UhdTypes
    BY <1>7, Zenon DEF Trx!OpenUhd
  <2>2. Trx!set_channels' = Trx!set_channels /\ Trx!set_rates' = Trx!set_rates
    BY <1>1 DEF Trx!set_channels, Trx!set_rates, Trx!Desc, Trx!dev_type, Trx!DevChans
  <2>3. pc' = "radio" => Opened'
    BY <1>1, <2>1, <2>2, Zenon DEF Opened
  <2>4. Trx!Documented => pc' = "radio"
    BY <1>3, <1>7, DocumentedOpened DEF Trx!OpenUhd
  <2>5. Trx!DocumentedRun' BY <1>1, <1>4, <2>4 DEF Trx!DocumentedRun
  <2> QED BY <1>1, <1>2, <1>5, <1>6, <2>3, <2>5 DEF StartIInv, Early, Attaching
<1>8. CASE Trx!OpenOther
  <2>1. /\ pc' = "radio"
        /\ usrp' = [chans |-> conf.num_chans, tx |-> Trx!GSMRATE * conf.sps[1],
                    rx |-> Trx!GSMRATE * conf.sps[2]]
        /\ conf.dev \in {"LMS", "USRP1"}
    BY <1>8 DEF Trx!OpenOther
  <2>2. conf.dev \notin Trx!UhdTypes BY <2>1 DEF Trx!UhdTypes
  <2>3. Opened' BY <1>1, <2>1, <2>2, Zenon DEF Opened
  <2>4. Trx!DocumentedRun' BY <2>1 DEF Trx!DocumentedRun
  <2> QED BY <1>1, <1>2, <1>6, <2>1, <2>3, <2>4 DEF StartIInv, Early, Attaching
<1> QED BY <1>7, <1>8

LEMMA RadioStep == ASSUME StartIInv, Trx!MakeRadio PROVE StartIInv'
<1>1. /\ conf' = conf /\ usrp' = usrp /\ fifos' = fifos /\ failed' = failed /\ pc = "radio"
      /\ radio' = Trx!NewRadio(Trx!InterfaceType)
      /\ object' = [object EXCEPT !["radio"] = "live"]
      /\ pc' = IF Trx!InterfaceType = "MULTI_ARFCN" /\ ~Trx!MultiInit
               THEN "stop" ELSE "transceiver"
  BY Zenon DEF Trx!MakeRadio
<1>2. conf' \in Trx!Configs' BY <1>1 DEF StartIInv, Trx!Configs
<1>3. ConfOK /\ Opened /\ fifos = {} BY <1>1, Configured DEF StartIInv
<1>4. Trx!Documented' = Trx!Documented BY <1>1 DEF Trx!Documented
<1>5. Opened'
  BY <1>1, <1>3
     DEF Opened, Trx!set_channels, Trx!set_rates, Trx!Desc, Trx!dev_type, Trx!DevChans
<1>6. /\ Trx!NewRadio(Trx!InterfaceType)' = Trx!NewRadio(Trx!InterfaceType)
      /\ Trx!InterfaceType' = Trx!InterfaceType /\ Trx!MultiInit' = Trx!MultiInit
  BY <1>1, Zenon DEF Trx!NewRadio, Trx!InterfaceType, Trx!MultiInit
<1>7. pc' \in {"stop", "transceiver"} /\ (pc' = "transceiver" => RadioMade')
  BY <1>1, <1>6 DEF RadioMade
<1>8. ObjectsInOrder' BY <1>1, Created DEF StartIInv, Trx!Objects
<1>9. Trx!DocumentedRun'
  <2> SUFFICES ASSUME Trx!Documented PROVE pc' = "transceiver"
    BY <1>4, <1>7 DEF Trx!DocumentedRun
  <2>1. CASE conf.dev \in Trx!UhdTypes BY <1>1, <1>3, <2>1, DocumentedOpened
  <2>2. CASE ~(conf.dev \in Trx!UhdTypes) BY <1>1, <2>2, RadioIs
  <2> QED BY <2>1, <2>2
<1> QED BY <1>1, <1>2, <1>3, <1>5, <1>7, <1>8, <1>9 DEF StartIInv, Early, Attaching

LEMMA TransceiverStep == ASSUME StartIInv, Trx!MakeTransceiver PROVE StartIInv'
<1>1. /\ conf' = conf /\ usrp' = usrp /\ radio' = radio /\ fifos' = fifos
      /\ pc = "transceiver"
      /\ \/ /\ object' = [object EXCEPT !["transceiver"] = "live"]
            /\ pc' = "attach" /\ failed' = failed
         \/ /\ object' = [object EXCEPT !["transceiver"] = "half"]
            /\ failed' = TRUE /\ pc' = "stop"
         \/ failed' = TRUE /\ pc' = "thrown" /\ object' = object
  BY DEF Trx!MakeTransceiver
<1>2. /\ conf' \in Trx!Configs' /\ ConfOK /\ Opened' = Opened /\ RadioMade' = RadioMade
      /\ Trx!Documented' = Trx!Documented
  BY <1>1, StartFrame
<1>3. Opened /\ RadioMade /\ fifos = {} BY <1>1 DEF StartIInv
<1>4. ObjectsInOrder' BY <1>1, SameObjects, Created DEF StartIInv, Trx!Objects
<1>5. pc' = "attach" => Attached'
  <2>1. fifos' = 0 .. 0 - 1 BY <1>1, <1>3
  <2>2. conf'.num_chans >= 0 /\ radio'.chans >= 0
    BY <1>1, <1>2, <1>3, RadioIs DEF ConfOK, RadioMade
  <2>3. 0 <= conf'.num_chans /\ 0 <= radio'.chans
    BY <1>1, <1>2, <1>3, RadioIs DEF ConfOK, RadioMade
  <2> QED BY <2>1, <2>3 DEF Attached
<1>6. Trx!DocumentedRun' BY <1>1, <1>2 DEF StartIInv, Trx!DocumentedRun
<1> QED BY <1>1, <1>2, <1>3, <1>4, <1>5, <1>6 DEF StartIInv, Early, Attaching

\* The documented set-ups have a FIFO for each channel.
LEMMA DocumentedChans ==
    ASSUME ConfOK, RadioMade, Trx!Documented
    PROVE  radio.chans = conf.num_chans
BY RadioIs DEF RadioMade, Trx!Documented

LEMMA AttachStep == ASSUME StartIInv, Trx!Attach PROVE StartIInv'
<1> DEFINE i == Cardinality(fifos)
<1>01. /\ conf' = conf /\ usrp' = usrp /\ radio' = radio /\ object' = object
       /\ failed' = failed /\ pc = "attach"
  BY DEF Trx!Attach
<1>02. i = Trx!Cardinality(fifos) BY Zenon DEF Cardinality, Trx!Cardinality
<1>03. IF i = conf.num_chans THEN pc' = "loop" /\ UNCHANGED fifos
       ELSE IF i < radio.chans THEN fifos' = fifos \cup {i} /\ UNCHANGED pc
       ELSE pc' = "stop" /\ UNCHANGED fifos
  <2> HIDE DEF i
  <2> QED BY <1>02, Zenon DEF Trx!Attach
<1> HIDE DEF i
<1>1. /\ conf' = conf /\ usrp' = usrp /\ radio' = radio /\ object' = object
      /\ failed' = failed /\ pc = "attach"
      /\ \/ i = conf.num_chans /\ pc' = "loop" /\ fifos' = fifos
         \/ i # conf.num_chans /\ i < radio.chans /\ fifos' = fifos \cup {i} /\ pc' = pc
         \/ i # conf.num_chans /\ ~(i < radio.chans) /\ pc' = "stop" /\ fifos' = fifos
  BY <1>01, <1>03, Zenon
<1>2. /\ conf' \in Trx!Configs' /\ ConfOK /\ Opened' = Opened /\ RadioMade' = RadioMade
      /\ Trx!Documented' = Trx!Documented
  BY <1>1, StartFrame
<1>3. Opened /\ RadioMade /\ Attached BY <1>1 DEF StartIInv, Attaching
<1>4. PICK k \in Nat : fifos = 0 .. k - 1 /\ k <= conf.num_chans /\ k <= radio.chans
  BY <1>3 DEF Attached
<1>5. i = k
  <2>1. Cardinality(0 .. k - 1) = IF 0 > k - 1 THEN 0 ELSE (k - 1) - 0 + 1
    BY <1>4, FS_Interval
  <2> QED BY <1>4, <2>1 DEF i
<1>6. radio.chans \in Nat /\ conf.num_chans \in Nat
  BY <1>2, <1>3, RadioIs DEF ConfOK, RadioMade
<1>7. ObjectsInOrder' BY <1>1, SameObjects DEF StartIInv
<1>8. pc' \in Attaching => Attached'
  <2>1. CASE i = conf.num_chans /\ pc' = "loop" /\ fifos' = fifos
    BY <1>1, <1>4, <1>5, <2>1 DEF Attached
  <2>2. CASE i # conf.num_chans /\ i < radio.chans /\ fifos' = fifos \cup {i} /\ pc' = pc
    <3>1. fifos' = 0 .. (k + 1) - 1 BY <1>4, <1>5, <2>2
    <3>2. k + 1 <= conf.num_chans /\ k + 1 <= radio.chans BY <1>4, <1>5, <1>6, <2>2
    <3> QED BY <1>1, <2>2, <3>1, <3>2 DEF Attached
  <2> QED BY <1>1, <2>1, <2>2 DEF Attaching
<1>9. Trx!DocumentedRun'
  <2> SUFFICES ASSUME Trx!Documented PROVE pc' # "stop"
    BY <1>1, <1>2 DEF StartIInv, Trx!DocumentedRun
  <2>1. radio.chans = conf.num_chans BY <1>2, <1>3, DocumentedChans
  <2> QED BY <1>1, <1>4, <1>5, <1>6, <2>1
<1> QED BY <1>1, <1>2, <1>3, <1>7, <1>8, <1>9 DEF StartIInv, Early, Attaching

\* The transceiver goes first: what it uses is deleted only without it.
LEMMA TrxStops == ASSUME StartIInv, Trx!Stop PROVE StartIInv'
<1>1. /\ conf' = conf /\ usrp' = usrp /\ radio' = radio /\ fifos' = fifos /\ failed' = failed
      /\ pc = "stop" /\ pc' \in {"stop", "exit"}
  BY DEF Trx!Stop
<1>2. /\ conf' \in Trx!Configs' /\ Trx!Documented' = Trx!Documented
  BY <1>1, StartFrame
<1>3. ObjectsInOrder'
  <2>1. CASE object' = object BY <1>1, <2>1 DEF StartIInv, ObjectsInOrder, Trx!UsersGoFirst
  <2>2. CASE \E o \in Trx!Objects :
               /\ o \in {"radio", "usrp"} => object["transceiver"] # "live"
               /\ object' = [object EXCEPT ![o] = "gone"]
    <3>1. PICK o \in Trx!Objects :
               /\ o \in {"radio", "usrp"} => object["transceiver"] # "live"
               /\ object' = [object EXCEPT ![o] = "gone"]
      BY <2>2
    <3>2. DOMAIN object = Trx!Objects /\ Trx!UsersGoFirst BY DEF StartIInv, ObjectsInOrder
    <3>3. DOMAIN object' = Trx!Objects /\ object'[o] = "gone"
          /\ \A q \in Trx!Objects : q # o => object'[q] = object[q]
      BY <3>1, <3>2
    <3>4. Trx!UsersGoFirst'
      BY <3>1, <3>2, <3>3 DEF Trx!UsersGoFirst, Trx!Objects
    <3> QED BY <1>1, <3>3, <3>4 DEF ObjectsInOrder
  <2>3. Trx!Owned("transceiver") <=> object["transceiver"] = "live" BY DEF Trx!Owned
  <2> QED BY <2>1, <2>2, <2>3, Zenon DEF Trx!Stop
<1>4. Trx!DocumentedRun' BY <1>1, <1>2 DEF StartIInv, Trx!DocumentedRun
<1> QED BY <1>1, <1>2, <1>3, <1>4 DEF StartIInv, Early, Attaching

LEMMA TrxCrashes == ASSUME StartIInv, Trx!StopHalf PROVE StartIInv'
<1>1. /\ conf' = conf /\ usrp' = usrp /\ radio' = radio /\ fifos' = fifos /\ failed' = failed
      /\ object' = object /\ pc' = "crashed"
  BY DEF Trx!StopHalf
<1>2. conf' \in Trx!Configs' /\ Trx!Documented' = Trx!Documented BY <1>1, StartFrame
<1>3. ObjectsInOrder' BY <1>1 DEF StartIInv, ObjectsInOrder, Trx!UsersGoFirst
<1>4. Trx!DocumentedRun' BY <1>1 DEF Trx!DocumentedRun
<1> QED BY <1>1, <1>2, <1>3, <1>4 DEF StartIInv, Early, Attaching

LEMMA StartKept == StartIInv /\ [StartNext]_<<part, configVars, trxVars>> => StartIInv'
<1> SUFFICES ASSUME StartIInv, [StartNext]_<<part, configVars, trxVars>> PROVE StartIInv'
  OBVIOUS
<1>1. CASE UNCHANGED trxVars
  <2>1. /\ conf' = conf /\ pc' = pc /\ object' = object /\ usrp' = usrp /\ radio' = radio
        /\ fifos' = fifos /\ failed' = failed
    BY <1>1 DEF trxVars
  <2>2. /\ conf' \in Trx!Configs' /\ Opened' = Opened /\ RadioMade' = RadioMade
        /\ Trx!Documented' = Trx!Documented
    BY <2>1, StartFrame
  <2>3. ObjectsInOrder' = ObjectsInOrder BY <2>1 DEF ObjectsInOrder, Trx!UsersGoFirst
  <2>4. Attached' = Attached BY <2>1 DEF Attached
  <2> QED BY <2>1, <2>2, <2>3, <2>4 DEF StartIInv, Trx!DocumentedRun
<1>2. CASE Trx!Next
  BY <1>2, MakeStep, FailStep, OpenStep, RadioStep, TransceiverStep, AttachStep, TrxStops,
     TrxCrashes DEF Trx!Next
<1> QED BY <1>1, <1>2 DEF StartNext

\* trx_start() and trx_stop(), for any table of devices, channels and versions:
\* transceiver, interface and device agree about channels and rates, users go
\* first, and what the manual describes runs unless something outside fails.
THEOREM StStartInv == StartSpec => []StartInv
<1>1. StartInit => StartIInv BY StartInit0 DEF StartInit
<1> QED BY <1>1, StartKept, StartInvHolds, PTL DEF StartSpec
=============================================================================
