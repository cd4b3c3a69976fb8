-------------------------- MODULE InterthreadQueue --------------------------
(***************************************************************************)
(* InterthreadQueue, InterthreadQueue2 and InterthreadQueueWithWait        *)
(* (Interthread.h): queues of pointers with a mutex and condition          *)
(* variables (Signal). ScopedLock keeps the mutex for all of a call, so a  *)
(* call is one step, up to the wait on a condition and after it. The list  *)
(* inside is PointerFifo's. The three classes differ in when they signal   *)
(* a write, and in whether they signal a read.                             *)
(***************************************************************************)
EXTENDS Integers, Sequences, FiniteSets

CONSTANTS
    Items,
    Readers,        \* threads that call read()
    Waiters,        \* threads that call wait(sz)
    Marks,          \* the low water marks of wait()
    MaxWriters      \* bound of the threads inside InterthreadQueue2::write

Classes == {"Queue", "Queue2", "QueueWithWait"}
Threads == Readers \cup Waiters

VARIABLES
    class,
    mQ,
    pc,             \* of a thread: "idle", or where its call is
    timed,          \* it is a read with a timeout
    mark,           \* the argument of wait()
    unsignalled     \* writes of InterthreadQueue2 before their signal()

vars == <<class, mQ, pc, timed, mark, unsignalled>>

Init ==
    /\ class \in Classes
    /\ mQ = <<>> /\ pc = [t \in Threads |-> "idle"]
    /\ timed = [t \in Threads |-> FALSE] /\ mark = [t \in Threads |-> 0]
    /\ unsignalled = 0
-----------------------------------------------------------------------------
(* Signal (external: pthread condition variables) *)

On(cond) == {t \in Threads : pc[t] = cond}

\* pc after one of the threads that wait on cond, if there is one, is woken.
Woken(cond, p) ==
    IF \E t \in Threads : p[t] = cond
    THEN {[p EXCEPT ![t] = "woken"] : t \in {u \in Threads : p[u] = cond}}
    ELSE {p}

\* A condition wait may return without a signal.
Spurious(t) ==
    /\ pc[t] \in {"mWriteSignal", "mReadSignal"}
    /\ pc' = [pc EXCEPT ![t] = "woken"]
    /\ UNCHANGED <<class, mQ, timed, mark, unsignalled>>
-----------------------------------------------------------------------------
(* read(), read(timeout), readNoBlock(): t's read takes the front item *)

\* Mutant of Take: a read does not signal.
TakeSilent(t) ==
    /\ mQ # <<>>
    /\ mQ' = Tail(mQ)
    /\ pc' = [pc EXCEPT ![t] = "idle"]
    /\ UNCHANGED <<class, timed, mark, unsignalled>>

Take(t) ==
    /\ mQ # <<>>
    /\ mQ' = Tail(mQ)
    /\ LET p == [pc EXCEPT ![t] = "idle"]
       IN  pc' \in IF class = "QueueWithWait" THEN Woken("mReadSignal", p) ELSE {p}
    /\ UNCHANGED <<class, timed, mark, unsignalled>>

Block(t) ==
    /\ mQ = <<>>
    /\ pc' = [pc EXCEPT ![t] = "mWriteSignal"]
    /\ UNCHANGED <<class, mQ, mark, unsignalled>>

\* Only with items or without: a read that finds nothing blocks.
Read(t) ==
    /\ t \in Readers /\ pc[t] = "idle"
    /\ \/ Take(t)
       \/ Block(t) /\ timed' \in {[timed EXCEPT ![t] = b] : b \in BOOLEAN}

\* After the wait: the loops look at the queue again.
ReadWoken(t) ==
    /\ t \in Readers /\ pc[t] = "woken"
    /\ Take(t) \/ (Block(t) /\ UNCHANGED timed)

\* waitTime has passed: the read takes what there is, or returns NULL.
TimedOut(t) ==
    /\ t \in Readers /\ timed[t] /\ pc[t] \in {"mWriteSignal", "woken"}
    /\ \/ Take(t)
       \/ /\ mQ = <<>> /\ pc' = [pc EXCEPT ![t] = "idle"]
          /\ UNCHANGED <<class, mQ, timed, mark, unsignalled>>
-----------------------------------------------------------------------------
(* write(), write_front(), clear(), flushNoDelete() *)

\* Mutant of Write: the signal is given only when the queue was empty.
WriteSignalsEmpty(q) ==
    /\ mQ' = q
    /\ IF class = "Queue2"
       THEN unsignalled < MaxWriters /\ unsignalled' = unsignalled + 1 /\ UNCHANGED pc
       ELSE pc' \in (IF mQ = <<>> THEN Woken("mWriteSignal", pc) ELSE {pc}) /\ UNCHANGED unsignalled
    /\ UNCHANGED <<class, timed, mark>>

\* InterthreadQueue2 signals after it has released the mutex.
Write(q) ==
    /\ mQ' = q
    /\ IF class = "Queue2"
       THEN unsignalled < MaxWriters /\ unsignalled' = unsignalled + 1 /\ UNCHANGED pc
       ELSE pc' \in Woken("mWriteSignal", pc) /\ UNCHANGED unsignalled
    /\ UNCHANGED <<class, timed, mark>>

InQueue == {mQ[i] : i \in 1 .. Len(mQ)}

write == \E v \in Items \ InQueue : Write(Append(mQ, v))

write_front ==
    /\ class # "QueueWithWait"
    /\ \E v \in Items \ InQueue : Write(<<v>> \o mQ)

SignalWrite ==
    /\ unsignalled > 0
    /\ unsignalled' = unsignalled - 1
    /\ pc' \in Woken("mWriteSignal", pc)
    /\ UNCHANGED <<class, mQ, timed, mark>>

clear ==
    /\ mQ' = <<>>
    /\ pc' \in IF class = "QueueWithWait" THEN Woken("mReadSignal", pc) ELSE {pc}
    /\ UNCHANGED <<class, timed, mark, unsignalled>>
-----------------------------------------------------------------------------
(* wait(sz) of InterthreadQueueWithWait *)

\* The loop of wait(): return below the mark, else wait for a read.
WaitBelow(t, sz) ==
    pc' = [pc EXCEPT ![t] = IF Len(mQ) > sz THEN "mReadSignal" ELSE "idle"]

wait(t) ==
    /\ class = "QueueWithWait" /\ t \in Waiters /\ pc[t] = "idle"
    /\ \E sz \in Marks : mark' = [mark EXCEPT ![t] = sz] /\ WaitBelow(t, sz)
    /\ UNCHANGED <<class, mQ, timed, unsignalled>>

WaitWoken(t) ==
    /\ t \in Waiters /\ pc[t] = "woken"
    /\ WaitBelow(t, mark[t])
    /\ UNCHANGED <<class, mQ, timed, mark, unsignalled>>
-----------------------------------------------------------------------------
Run(t) == ReadWoken(t) \/ WaitWoken(t)

Next ==
    \/ \E t \in Threads : Read(t) \/ TimedOut(t) \/ wait(t) \/ Run(t) \/ Spurious(t)
    \/ write \/ write_front \/ SignalWrite \/ clear

\* A woken thread gets the mutex, and a signal that is due is given. Nobody
\* has to call anything.
Spec == Init /\ [][Next]_vars /\ WF_vars(SignalWrite) /\ \A t \in Threads : WF_vars(Run(t))
-----------------------------------------------------------------------------
(* Properties *)

\* Every variable has its type.
TypeOK ==
    /\ class \in Classes /\ mQ \in Seq(Items) /\ unsignalled \in Nat
    /\ \A t \in Threads :
        pc[t] \in {"idle", "woken", IF t \in Readers THEN "mWriteSignal" ELSE "mReadSignal"}

\* No wakeup is lost: while a reader sleeps, every item in the queue has a
\* reader on its way or a signal still to come.
NoLostWakeup ==
    On("mWriteSignal") # {} =>
        Len(mQ) <= Cardinality(On("woken") \cap Readers) + unsignalled

\* A reader does not sleep for ever next to an item: the queue is emptied or
\* every blocked read has returned.
ReadReturns ==
    (mQ # <<>> /\ On("mWriteSignal") # {}) ~> (mQ = <<>> \/ On("mWriteSignal") = {})

\* "The caller of this function will eventually get to run": a wait() whose
\* mark is reached returns, or the queue grows above the mark again.
\* Does not hold with two waiters: read() gives one signal, to one of them.
WaitReturns ==
    \A t \in Waiters :
        (pc[t] = "mReadSignal" /\ Len(mQ) <= mark[t])
            ~> (pc[t] # "mReadSignal" \/ Len(mQ) > mark[t])
=============================================================================
