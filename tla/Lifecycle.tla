------------------------------ MODULE Lifecycle ------------------------------
(***************************************************************************)
(* Start-up, power-on, power-off and shutdown of the transceiver process:  *)
(* main() (osmo-trx.cpp), the control threads, and the worker threads that *)
(* Transceiver::start() launches and Transceiver::stop() cancels and joins *)
(* under mLock. Each control thread answers one BTS connection; the BTS    *)
(* may send POWERON and POWEROFF at any moment its socket is served.       *)
(***************************************************************************)
EXTENDS Integers

CONSTANTS
    NChans,             \* channels, hence control threads
    NULL,               \* nobody
    AlignDevices,       \* the values requiresRadioAlign() may have: TRUE for USRP1
    DeviceCanFail       \* RadioDevice::start() may return false

ASSUME LifecycleAssumption ==
    /\ NChans \in Nat \ {0}
    /\ NULL \notin 0 .. NChans
    /\ AlignDevices \subseteq BOOLEAN /\ DeviceCanFail \in BOOLEAN

Chans == 0 .. NChans - 1
Main == NChans                  \* the main thread, as a caller of stop()
Actors == Chans \cup {Main}

Lower == {<<"TxLower", 0>>, <<"RxLower", 0>>}
Upper == {"RxUpper", "TxUpper"} \X Chans
Workers == Lower \cup Upper

VARIABLES
    main, mi,           \* where main() is, and its channel index
    gshutdown,          \* the flag of the main loop
    handler,            \* the signal handler is registered
    op,                 \* where each actor is
    cancelled,          \* control threads asked to end
    ending,             \* workers asked to end
    mLock,              \* the holder of Transceiver::mLock
    mOn,                \* Transceiver::mOn
    radioOn, devOn,     \* RadioInterface::mOn, the device streams
    requiresRadioAlign, \* of the device that was configured
    aligned,            \* mAlignRadioServiceLoopThread has been started
    workers,            \* the running workers
    aborted             \* an assert() ended the process

mainVars == <<main, mi, gshutdown, handler>>
radioVars == <<radioOn, devOn, requiresRadioAlign, aligned>>
vars == <<mainVars, radioVars, op, cancelled, ending, mLock, mOn, workers, aborted>>

Init ==
    /\ main = "threads" /\ mi = 0
    /\ gshutdown = FALSE /\ handler = FALSE
    /\ op = [a \in Actors |-> IF a = Main THEN "idle" ELSE "none"]
    /\ cancelled = {} /\ ending = {} /\ mLock = NULL
    /\ mOn = FALSE /\ radioOn = FALSE /\ devOn = FALSE /\ aligned = FALSE
    /\ requiresRadioAlign \in AlignDevices
    /\ workers = {} /\ aborted = FALSE
-----------------------------------------------------------------------------
(* main(): trx_start *)

\* Transceiver::init starts control thread i ...
StartControl ==
    /\ main = "threads" /\ mi < NChans
    /\ op' = [op EXCEPT ![mi] = "idle"]
    /\ main' = "state"
    /\ UNCHANGED <<mi, gshutdown, handler, radioVars, cancelled, ending, mLock,
                   mOn, workers, aborted>>

\* ... and then initialises the state, the filler table included, of its channel.
InitState ==
    /\ main = "state"
    /\ mi' = mi + 1
    /\ main' = "threads"
    /\ UNCHANGED <<gshutdown, handler, radioVars, op, cancelled, ending, mLock, mOn,
                   workers, aborted>>

\* makeTransceiver: the signal handler, then the receive FIFOs.
SetSignalHandler ==
    /\ main = "threads" /\ mi = NChans
    /\ handler' = TRUE
    /\ mi' = 0 /\ main' = "attach"
    /\ UNCHANGED <<gshutdown, radioVars, op, cancelled, ending, mLock, mOn,
                   workers, aborted>>

AttachFIFO ==
    /\ main = "attach"
    /\ IF mi + 1 < NChans THEN mi' = mi + 1 /\ UNCHANGED main
                          ELSE mi' = 0 /\ main' = "loop"
    /\ UNCHANGED <<gshutdown, handler, radioVars, op, cancelled, ending, mLock, mOn,
                   workers, aborted>>

\* SIGINT or SIGTERM, seen by signalfd_callback in the main loop.
Signal ==
    /\ main = "loop" /\ ~gshutdown
    /\ gshutdown' = TRUE
    /\ UNCHANGED <<main, mi, handler, radioVars, op, cancelled, ending, mLock,
                   mOn, workers, aborted>>

\* RxLower: the radio failed, S_TRANSC_STOP_REQUIRED is dispatched; nobody
\* hears it before the handler is there.
RadioFails ==
    /\ <<"RxLower", 0>> \in workers /\ radioOn /\ ~gshutdown /\ handler
    /\ gshutdown' = TRUE
    /\ UNCHANGED <<main, mi, handler, radioVars, op, cancelled, ending, mLock,
                   mOn, workers, aborted>>
-----------------------------------------------------------------------------
(* Transceiver::start(), for the control thread a *)

\* Mutants of LockStart: no lock is taken, or an early return keeps it.
LockStartUnlocked(a) ==
    /\ op[a] = "POWERON"
    /\ IF mOn THEN op' = [op EXCEPT ![a] = "idle"] /\ UNCHANGED mLock
              ELSE op' = [op EXCEPT ![a] = "radio"] /\ mLock' = a
    /\ UNCHANGED <<mainVars, radioVars, cancelled, ending, mOn, workers, aborted>>
LockStartKeepsLock(a) ==
    /\ op[a] = "POWERON" /\ mLock = NULL
    /\ op' = [op EXCEPT ![a] = IF mOn THEN "idle" ELSE "radio"] /\ mLock' = a
    /\ UNCHANGED <<mainVars, radioVars, cancelled, ending, mOn, workers, aborted>>

\* mLock is free: already on, or go on to start the radio.
LockStart(a) ==
    /\ op[a] = "POWERON" /\ mLock = NULL
    /\ IF mOn THEN op' = [op EXCEPT ![a] = "idle"] /\ UNCHANGED mLock
              ELSE op' = [op EXCEPT ![a] = "radio"] /\ mLock' = a
    /\ UNCHANGED <<mainVars, radioVars, cancelled, ending, mOn, workers, aborted>>

\* RadioInterface::start(): the alignment thread, whose Thread::start asserts
\* that it was never started, then the device.
StartRadio(a) ==
    /\ op[a] = "radio"
    /\ \/ /\ radioOn
          /\ op' = [op EXCEPT ![a] = "launch"]
          /\ UNCHANGED <<mLock, radioVars, aborted>>
       \/ /\ ~radioOn /\ requiresRadioAlign /\ aligned
          /\ aborted' = TRUE
          /\ UNCHANGED <<op, mLock, radioVars>>
       \/ /\ ~radioOn /\ ~(requiresRadioAlign /\ aligned)
          /\ aligned' = requiresRadioAlign
          /\ \/ /\ devOn' = TRUE /\ radioOn' = TRUE
                /\ op' = [op EXCEPT ![a] = "launch"]
                /\ UNCHANGED mLock
             \/ /\ DeviceCanFail
                /\ op' = [op EXCEPT ![a] = "idle"] /\ mLock' = NULL
                /\ UNCHANGED <<devOn, radioOn>>
          /\ UNCHANGED <<requiresRadioAlign, aborted>>
    /\ UNCHANGED <<mainVars, cancelled, ending, mOn, workers>>

\* The threads are launched one after the other; mOn is set last.
Launch(a) ==
    /\ op[a] = "launch"
    /\ workers' = Workers
    /\ ending' = ending \ Workers
    /\ op' = [op EXCEPT ![a] = "setOn"]
    /\ UNCHANGED <<mainVars, radioVars, cancelled, mLock, mOn, aborted>>

SetOn(a) ==
    /\ op[a] = "setOn"
    /\ mOn' = TRUE
    /\ mLock' = NULL
    /\ op' = [op EXCEPT ![a] = "idle"]
    /\ UNCHANGED <<mainVars, radioVars, cancelled, ending, workers, aborted>>
-----------------------------------------------------------------------------
(* Transceiver::stop(), for a control thread or, in the destructor, main *)

LockStop(a) ==
    /\ op[a] = "POWEROFF" /\ mLock = NULL
    /\ IF mOn THEN /\ op' = [op EXCEPT ![a] = "joinLower"]
                   /\ mLock' = a /\ ending' = ending \cup Lower
              ELSE op' = [op EXCEPT ![a] = "idle"] /\ UNCHANGED <<mLock, ending>>
    /\ UNCHANGED <<mainVars, radioVars, cancelled, mOn, workers, aborted>>

\* Mutant of JoinLower: the device is stopped without waiting.
JoinLowerNoWait(a) ==
    /\ op[a] = "joinLower"
    /\ ending' = ending \cup Upper
    /\ op' = [op EXCEPT ![a] = "device"]
    /\ UNCHANGED <<mainVars, radioVars, cancelled, mLock, mOn, workers, aborted>>

\* TxLower and RxLower are joined, the upper threads cancelled.
JoinLower(a) ==
    /\ op[a] = "joinLower" /\ workers \cap Lower = {}
    /\ ending' = ending \cup Upper
    /\ op' = [op EXCEPT ![a] = "device"]
    /\ UNCHANGED <<mainVars, radioVars, cancelled, mLock, mOn, workers, aborted>>

\* RadioInterface::stop()
StopRadio(a) ==
    /\ op[a] = "device"
    /\ IF radioOn THEN devOn' = FALSE /\ radioOn' = FALSE ELSE UNCHANGED <<devOn, radioOn>>
    /\ op' = [op EXCEPT ![a] = "joinUpper"]
    /\ UNCHANGED <<mainVars, requiresRadioAlign, aligned, cancelled, ending, mLock, mOn,
                   workers, aborted>>

JoinUpper(a) ==
    /\ op[a] = "joinUpper" /\ workers \cap Upper = {}
    /\ mOn' = FALSE
    /\ mLock' = NULL
    /\ op' = [op EXCEPT ![a] = "idle"]
    /\ UNCHANGED <<mainVars, radioVars, cancelled, ending, workers, aborted>>

\* A worker asked to end does so at its next cancellation point; all of them
\* block in cancellation points only.
WorkerEnds(w) ==
    /\ w \in workers /\ w \in ending
    /\ workers' = workers \ {w}
    /\ UNCHANGED <<mainVars, radioVars, op, cancelled, ending, mLock, mOn, aborted>>
-----------------------------------------------------------------------------
(* Control threads *)

Command(c) ==
    /\ op[c] = "idle" /\ c \notin cancelled
    /\ op' \in {[op EXCEPT ![c] = cmd] : cmd \in {"POWERON", "POWEROFF"}}
    /\ UNCHANGED <<mainVars, radioVars, cancelled, ending, mLock, mOn, workers, aborted>>

\* Mutant of ControlEnds: the unwinding does not release mLock.
ControlEndsLocked(c) ==
    /\ c \in cancelled /\ op[c] \in {"idle", "joinLower", "joinUpper"}
    /\ op' = [op EXCEPT ![c] = "none"]
    /\ UNCHANGED <<mainVars, radioVars, cancelled, ending, mLock, mOn, workers, aborted>>

\* A control thread asked to end does so in its blocking read, or inside
\* stop(), where pthread_join is a cancellation point too; the unwinding
\* releases mLock.
ControlEnds(c) ==
    /\ c \in cancelled /\ op[c] \in {"idle", "joinLower", "joinUpper"}
    /\ op' = [op EXCEPT ![c] = "none"]
    /\ mLock' = IF mLock = c THEN NULL ELSE mLock
    /\ UNCHANGED <<mainVars, radioVars, cancelled, ending, mOn, workers, aborted>>
-----------------------------------------------------------------------------
(* main(): trx_stop and ~Transceiver *)

\* The main loop ends (the rate counter timer wakes it every second).
Shutdown ==
    /\ main = "loop" /\ gshutdown
    /\ main' = "stop"
    /\ op' = [op EXCEPT ![Main] = "POWEROFF"]
    /\ UNCHANGED <<mi, gshutdown, handler, radioVars, cancelled, ending, mLock,
                   mOn, workers, aborted>>

\* stop() has returned; the control threads are cancelled and joined in turn.
CancelControl ==
    /\ \/ main = "stop" /\ op[Main] = "idle" /\ mi' = 0
       \/ main = "join" /\ op[mi] = "none" /\ mi + 1 < NChans /\ mi' = mi + 1
    /\ cancelled' = cancelled \cup {mi'}
    /\ main' = "join"
    /\ UNCHANGED <<gshutdown, handler, radioVars, op, ending, mLock, mOn, workers,
                   aborted>>

\* The transceiver, the radio interface and the device are deleted.
Delete ==
    /\ main = "join" /\ op[mi] = "none" /\ mi + 1 = NChans
    /\ main' = "deleted"
    /\ UNCHANGED <<mi, gshutdown, handler, radioVars, op, cancelled, ending, mLock,
                   mOn, workers, aborted>>

\* Nothing left to do, or the process has been aborted.
Ended ==
    /\ main = "deleted" \/ aborted
    /\ UNCHANGED vars
-----------------------------------------------------------------------------
MainStep ==
    StartControl \/ InitState \/ SetSignalHandler \/ AttachFIFO \/ Shutdown
        \/ CancelControl \/ Delete

StartStep(a) == LockStart(a) \/ StartRadio(a) \/ Launch(a) \/ SetOn(a)
StopStep(a) == LockStop(a) \/ JoinLower(a) \/ StopRadio(a) \/ JoinUpper(a)

Running == main # "deleted" /\ ~aborted

Next ==
    \/ Running /\ MainStep
    \/ Running /\ (Signal \/ RadioFails)
    \/ Running /\ \E c \in Chans : Command(c) \/ StartStep(c) \/ ControlEnds(c)
    \/ Running /\ \E a \in Actors : StopStep(a)
    \/ Running /\ \E w \in Workers : WorkerEnds(w)
    \/ Ended

Spec == Init /\ [][Next]_vars

\* The scheduler runs every thread; a cancelled worker or control thread
\* reaches its next cancellation point; a mutex that is free again and again
\* is got in the end.
FairSpec ==
    /\ Spec
    /\ WF_vars(Running /\ MainStep)
    /\ \A a \in Actors : /\ SF_vars(Running /\ LockStop(a)) /\ WF_vars(Running /\ StopStep(a))
    /\ \A c \in Chans : /\ SF_vars(Running /\ LockStart(c)) /\ WF_vars(Running /\ StartStep(c))
                        /\ WF_vars(Running /\ ControlEnds(c))
    /\ \A w \in Workers : WF_vars(Running /\ WorkerEnds(w))
-----------------------------------------------------------------------------
(* Properties *)

Ops == {"none", "idle", "POWERON", "POWEROFF", "radio", "launch", "setOn",
        "joinLower", "device", "joinUpper"}

\* Every variable has its type.
TypeOK ==
    /\ main \in {"threads", "state", "attach", "loop", "stop", "join", "deleted"}
    /\ mi \in 0 .. NChans
    /\ gshutdown \in BOOLEAN /\ handler \in BOOLEAN
    /\ op \in [Actors -> Ops]
    /\ cancelled \subseteq Chans /\ ending \subseteq Workers
    /\ mLock \in Actors \cup {NULL}
    /\ mOn \in BOOLEAN /\ radioOn \in BOOLEAN /\ devOn \in BOOLEAN
    /\ requiresRadioAlign \in AlignDevices /\ aligned \in BOOLEAN
    /\ workers \subseteq Workers /\ aborted \in BOOLEAN

Critical == {"radio", "launch", "setOn", "joinLower", "device", "joinUpper"}

\* start() and stop() exclude each other, whoever calls them: two channels'
\* control threads and the destructor never interleave their steps.
OneAtATime ==
    \A a \in Actors : op[a] \in Critical <=> mLock = a

\* Outside start() and stop(), all the workers run or none does, as mOn says
\* (unless the destructor cancelled a control thread inside its stop()).
AllOrNone ==
    mLock = NULL /\ cancelled = {} => workers = IF mOn THEN Workers ELSE {}

\* The device streams whenever a thread that reads or writes samples runs:
\* start() launches them after it, stop() joins them before it stops it.
StreamingWhileUsed == workers \cap Lower # {} => devOn /\ radioOn

\* After a failed start() and after a completed stop() nothing streams (with
\* the same exception).
OffMeansStopped == mLock = NULL /\ ~mOn /\ cancelled = {} => ~devOn /\ ~radioOn

\* Threads, device and mOn go together, whatever start(), stop(), a failing
\* device and the destructor do.
ThreadsFitDevice == TypeOK /\ AllOrNone /\ StreamingWhileUsed /\ OffMeansStopped

\* Thread::start's assertion: no Thread object is started a second time.
ThreadStartedOnce == ~aborted

\* When the destructor has run, every thread it stops has ended.
\* Does not hold: it calls stop() before it stops the threads that can start
\* again.
DestructorStopsThreads == main = "deleted" => workers = {}

\* A POWERON or POWEROFF that was received is carried out and answered.
CommandsComplete ==
    \A c \in Chans : op[c] \in {"POWERON", "POWEROFF"} ~> op[c] \in {"idle", "none"} \/ ~Running

\* After SIGINT, SIGTERM or a radio failure the process ends: no join waits
\* for ever, whatever the control threads are doing.
ShutdownCompletes == gshutdown ~> ~Running
=============================================================================
