------------------------------ MODULE Control ------------------------------
(***************************************************************************)
(* The control interface (Transceiver::driveControl): one thread and one   *)
(* UDP socket per channel. A thread reads a command, carries it out and    *)
(* answers it; the BTS waits for the answer that names its command and     *)
(* repeats the command if none comes, since UDP may lose one. The threads  *)
(* share everything that is a member of Transceiver rather than of the     *)
(* channel's TransceiverState, without a lock. start() and stop(), which   *)
(* have one, are single steps here: Lifecycle opens them.                  *)
(***************************************************************************)
EXTENDS Integers, Sequences

CONSTANTS
    NChans,
    NULL,           \* no command, no answer
    TNs,            \* timeslots, 0 .. 7 in the code
    Commands,       \* per channel, the commands the BTS may send
    Gains,          \* the receive gains that the device has
    MaxSent,        \* bound: commands that are sent, but for repeats
    MaxLost,        \* bound: answers that are lost
    RandomFiller    \* FILLER_NORM_RAND or FILLER_EDGE_RAND

Chans == 0 .. NChans - 1

\* A command with its parameters: ts is a timeslot, and arg whatever the
\* command takes besides.
Cmd(name, ts, arg) == [name |-> name, ts |-> ts, arg |-> arg]

\* Commands that assign one member of Transceiver, and nothing else.
Globals == {"SETMAXDLY", "SETMAXDLYNB", "SETTSC", "_SETBURSTTODISKMASK"}

Dirs == {"RXTUNE", "TXTUNE"}
-----------------------------------------------------------------------------
(* Transceiver::expectedCorrType: what kind of burst the receiver looks    *)
(* for, by the channel combination of the timeslot, the frame number and   *)
(* the handovers that are expected on the timeslot.                        *)

\* ChannelCombination; SETSLOT stores whatever number it was sent, and the
\* others, out of the range of the enumeration too, are all treated alike.
Combinations == {"FILL", "I", "II", "III", "IV", "V", "VI", "VII", "XIII",
                 "NONE", "LOOPBACK", "other"}

CorrType == {"OFF", "TSC", "EXT_RACH", "RACH", "IDLE"}

SubSlots == 0 .. 7

\* The fill modulus setModulus gives a combination; 0 where it leaves it.
FillerModulusOf == [t \in Combinations |->
    CASE t \in {"NONE", "I", "II", "III", "FILL"} -> 26
      [] t \in {"IV", "V", "VI"} -> 51
      [] t = "VII" -> 102
      [] t = "XIII" -> 52
      [] OTHER -> 0]

tchh_subslot ==
    <<0,1,0,1,0,1,0,1,0,1,0,1,0,0,1,0,1,0,1,0,1,0,1,0,1,1>>

sdcch4_subslot ==
    <<3,3,3,3,0,0,2,2,2,2,3,3,3,3,0,0,0,0,0,0,0,0,0,0,0,0,0,0,0,0,0,0,0,0,0,
      0,0,0,0,0,0,1,1,1,1,0,0,2,2,2,2,3,3,3,3,0,0,0,0,0,0,1,1,1,1,0,0,0,0,0,
      0,0,0,0,0,0,0,0,0,0,0,0,0,0,0,0,0,0,0,0,0,0,1,1,1,1,0,0,2,2,2,2>>

sdcch8_subslot ==
    <<5,5,5,5,6,6,6,6,7,7,7,7,0,0,0,0,0,0,0,1,1,1,1,2,2,2,2,3,3,3,3,4,4,4,4,
      5,5,5,5,6,6,6,6,7,7,7,7,0,0,0,0,1,1,1,1,2,2,2,2,3,3,3,3,0,0,0,0,0,0,0,
      1,1,1,1,2,2,2,2,3,3,3,3,4,4,4,4,5,5,5,5,6,6,6,6,7,7,7,7,4,4,4,4>>

\* The subslot of a C array's element; TLA+ sequences start at one.
SubSlot(table, fn) == table[1 + (fn % Len(table))]

\* The frames of combination V in which only access bursts may come.
RachFrame51(fn) == fn % 51 \in 14 .. 36 \cup {4, 5, 45, 46}

\* handover[ss]: an access burst is expected on subslot ss of the timeslot.
ExpectedCorrType(type, fn, handover, extRach) ==
    LET rach == IF extRach THEN "EXT_RACH" ELSE "RACH"
        Dedicated(ss) == IF handover[ss] THEN "RACH" ELSE "TSC"
    IN CASE type = "NONE" -> "OFF"
         [] type = "FILL" -> "IDLE"
         [] type = "I" -> Dedicated(0)
         [] type = "II" -> IF SubSlot(tchh_subslot, fn) = 1 THEN "IDLE" ELSE Dedicated(0)
         [] type = "III" -> Dedicated(SubSlot(tchh_subslot, fn))
         [] type \in {"IV", "VI"} -> rach
         [] type = "V" -> IF RachFrame51(fn) THEN rach
                          ELSE Dedicated(SubSlot(sdcch4_subslot, fn))
         [] type = "VII" -> IF fn % 51 \in 12 .. 14 THEN "IDLE"
                            ELSE Dedicated(SubSlot(sdcch8_subslot, fn))
         [] type = "XIII" -> IF fn % 52 \in {12, 38} THEN rach
                             ELSE IF fn % 52 \in {25, 51} THEN "IDLE" ELSE "TSC"
         [] type = "LOOPBACK" -> IF fn % 51 \in 48 .. 50 THEN "IDLE" ELSE "TSC"
         [] OTHER -> "OFF"
-----------------------------------------------------------------------------
ASSUME ControlAssumption ==
    /\ NChans \in Nat \ {0} /\ TNs \subseteq Nat
    /\ \A n \in TNs : 0 .. n \subseteq TNs
    /\ MaxSent \in Nat /\ MaxLost \in Nat
    /\ RandomFiller \in BOOLEAN /\ Gains \subseteq Int
    /\ \A c \in Chans : NULL \notin Commands[c] /\ \A m \in Commands[c] :
        DOMAIN m = {"name", "ts", "arg"}

\* Commands that scan a number get one, and a slot has some combination.
ASSUME CommandAssumption ==
    \A c \in Chans : \A m \in Commands[c] :
        /\ m.name \in Globals \cup Dirs \cup {"SETRXGAIN", "SETPOWER", "ADJPOWER"} =>
            m.arg \in Int
        /\ m.name = "SETSLOT" => m.arg \in Combinations

VARIABLES
    mOn,
    mHandover,          \* [TNs -> [SubSlots -> BOOLEAN]], of all channels
    global,             \* mMaxExpectedDelayAB/NB, mTSC, the burst mask
    freq,               \* mRxFreq and mTxFreq, of all channels
    chanType, fillerModulus, mPower,    \* TransceiverState, per channel
    tuned, gain,        \* what the device is set to, per channel
    ready,              \* channels whose TransceiverState::init is done
    pc, cmd, step,      \* each control thread, its command, its loop index
    rsp,                \* the response a thread has ready, NULL for none
    pending,            \* the command the BTS of a channel has no answer to
    sent, lost,         \* settings sent and answers lost so far
    told,               \* history: what a channel's BTS knows of the settings
    others              \* history: what other threads made of them since

shared == <<mOn, mHandover, global, freq>>
chanVars == <<chanType, fillerModulus, mPower, tuned, gain>>
bts == <<pending, sent, lost, told>>
vars == <<shared, chanVars, ready, pc, cmd, step, rsp, bts, others>>
-----------------------------------------------------------------------------
(* What a command sets, and what an answer to it says. A fact is a pair of *)
(* a setting and its value: told[c] has one of every setting that the last *)
(* answer to its BTS spoke of, and none while the BTS waits for an answer; *)
(* others[c] has those that another thread brought about since the         *)
(* channel's own thread last wrote the setting.                            *)

Key(of, ts, ss) == [of |-> of, ts |-> ts, ss |-> ss]

Handovers == {Key("handover", n, s) : n \in TNs, s \in SubSlots}

\* One per channel, in TransceiverState and in the device; and one for all.
Private == {Key(of, n, 0) : of \in {"slot", "modulus"}, n \in TNs}
           \cup {Key(of, 0, 0) : of \in Dirs \cup {"power", "gain"}}
Shared == {Key(of, 0, 0) : of \in Globals \cup {"on"}} \cup Handovers

Keys == Private \cup Shared

Setting(c, k) ==
    CASE k.of = "on" -> mOn
      [] k.of = "handover" -> mHandover[k.ts][k.ss]
      [] k.of \in Globals -> global[k.of]
      [] k.of = "slot" -> chanType[c][k.ts]
      [] k.of = "modulus" -> fillerModulus[c][k.ts]
      [] k.of \in Dirs -> tuned[c][k.of]
      [] k.of = "power" -> mPower[c]
      [] k.of = "gain" -> gain[c]

Refused(m) ==
    \/ m.name = "SETTSC" /\ m.arg > 7
    \/ m.name \in {"HANDOVER", "NOHANDOVER"} /\ ~(m.ts \in TNs /\ m.arg \in SubSlots)
    \/ m.name = "SETSLOT" /\ m.ts \notin TNs

\* The settings that a command may change.
Sets(m) ==
    IF Refused(m) THEN {} ELSE
    CASE m.name \in Globals \cup Dirs -> {Key(m.name, 0, 0)}
      [] m.name \in {"HANDOVER", "NOHANDOVER"} -> {Key("handover", m.ts, m.arg)}
      [] m.name \in {"SETPOWER", "ADJPOWER"} -> {Key("power", 0, 0)}
      [] m.name = "SETRXGAIN" -> {Key("gain", 0, 0)}
      [] m.name = "SETSLOT" -> {Key("slot", m.ts, 0)} \cup
            (IF FillerModulusOf[m.arg] = 0 THEN {} ELSE {Key("modulus", m.ts, 0)})
      [] m.name = "POWEROFF" -> {Key("on", 0, 0)}
      [] m.name = "POWERON" -> {Key("on", 0, 0)} \cup Handovers
      [] OTHER -> {}

\* What a positive answer to m, with the number val in it, says of k.
Says(m, val, k) ==
    CASE k.of = "on" -> m.name = "POWERON"
      [] k.of = "handover" -> m.name = "HANDOVER"
      [] k.of = "modulus" -> FillerModulusOf[m.arg]
      [] k.of \in {"power", "gain"} -> val
      [] OTHER -> m.arg

Answered(m, r) == {<<k, Says(m, r.val, k)>> : k \in {k \in Sets(m) : r.ok}}

\* Another thread's write of k matters to channel d: k is a member of
\* Transceiver, or the member through which d hands over its frequency.
Exposed(d, k) == k \in Shared \/ (pc[d] = "tune" /\ k.of = cmd[d].name)

\* The thread of channel c gives v to the settings ks.
Writes(c, ks, v) ==
    others' = [d \in Chans |->
        IF d = c THEN {fact \in others[c] : fact[1] \notin ks}
        ELSE others[d] \cup {<<k, v>> : k \in {k \in ks : Exposed(d, k)}}]
-----------------------------------------------------------------------------
Init ==
    /\ mOn = FALSE
    /\ mHandover = [n \in TNs |-> [s \in SubSlots |-> FALSE]]
    /\ global = [g \in Globals |-> 0]
    /\ freq = [d \in Dirs |-> 0]
    /\ chanType = [c \in Chans |-> [n \in TNs |-> "NONE"]]
    /\ fillerModulus = [c \in Chans |-> [n \in TNs |-> 26]]
    /\ mPower = [c \in Chans |-> 0]
    /\ tuned = [c \in Chans |-> [d \in Dirs |-> 0]]
    /\ gain = [c \in Chans |-> 0]
    /\ ready = {}
    /\ pc = [c \in Chans |-> "idle"] /\ cmd = [c \in Chans |-> NULL]
    /\ step = [c \in Chans |-> 0] /\ rsp = [c \in Chans |-> NULL]
    /\ pending = [c \in Chans |-> NULL] /\ sent = 0 /\ lost = 0
    /\ told = [c \in Chans |-> {}] /\ others = [c \in Chans |-> {}]

\* TransceiverState::init, in the main thread, after the control thread of
\* the channel was started: a random filler sets the channel combinations.
InitState(c) ==
    /\ c \notin ready /\ ready = 0 .. c - 1
    /\ ready' = ready \cup {c}
    /\ IF RandomFiller
       THEN /\ chanType' = [chanType EXCEPT ![c] = [n \in TNs |-> "I"]]
            /\ others' = [others EXCEPT ![c] = @ \cup {<<Key("slot", n, 0), "I">> : n \in TNs}]
       ELSE UNCHANGED <<chanType, others>>
    /\ UNCHANGED <<shared, fillerModulus, mPower, tuned, gain, pc, cmd, step, rsp, bts>>
-----------------------------------------------------------------------------
(* The BTS and the socket *)

\* A new command, or the last one again if the BTS has no answer to it.
Receive(c) ==
    /\ pc[c] = "idle"
    /\ \E m \in Commands[c] :
        /\ cmd' = [cmd EXCEPT ![c] = m]
        /\ \/ pending[c] = m /\ UNCHANGED bts
           \/ /\ pending[c] = NULL /\ pending' = [pending EXCEPT ![c] = m]
              /\ Sets(m) # {} => sent < MaxSent
              /\ sent' = IF Sets(m) = {} THEN sent ELSE sent + 1
              /\ told' = [told EXCEPT ![c] = {fact \in @ : fact[1] \notin Sets(m)}]
              /\ UNCHANGED lost
    /\ pc' = [pc EXCEPT ![c] = "run"]
    /\ UNCHANGED <<shared, chanVars, ready, step, rsp, others>>

\* The response is sent. The BTS takes it if it names the pending command.
Answer(c) ==
    /\ pc[c] = "answer"
    /\ \/ /\ IF pending[c].name = rsp[c].name
             THEN /\ pending' = [pending EXCEPT ![c] = NULL]
                  /\ told' = [told EXCEPT ![c] = @ \cup Answered(pending[c], rsp[c])]
             ELSE UNCHANGED <<pending, told>>
          /\ UNCHANGED lost
       \/ /\ lost < MaxLost /\ lost' = lost + 1
          /\ UNCHANGED <<pending, told>>
    /\ pc' = [pc EXCEPT ![c] = "idle"] /\ cmd' = [cmd EXCEPT ![c] = NULL]
    /\ rsp' = [rsp EXCEPT ![c] = NULL]
    /\ UNCHANGED <<shared, chanVars, ready, step, sent, others>>

\* The response is printed into the buffer: "RSP name status value".
Respond(c, name, ok, val) ==
    /\ pc' = [pc EXCEPT ![c] = "answer"]
    /\ rsp' = [rsp EXCEPT ![c] = [name |-> name, ok |-> ok, val |-> val]]
    /\ UNCHANGED <<cmd, bts, ready>>

\* No response: driveControl returns early.
NoAnswer(c) ==
    /\ pc' = [pc EXCEPT ![c] = "idle"] /\ cmd' = [cmd EXCEPT ![c] = NULL]
    /\ UNCHANGED <<rsp, bts, ready>>

\* On to the next step of the same command.
Goto(c, p) == pc' = [pc EXCEPT ![c] = p] /\ UNCHANGED <<cmd, rsp, bts, ready>>

Runs(c, names) == pc[c] = "run" /\ cmd[c].name \in names
-----------------------------------------------------------------------------
(* driveControl, one action per command *)

POWEROFF(c) ==
    /\ Runs(c, {"POWEROFF"})
    /\ mOn' = FALSE /\ Writes(c, Sets(cmd[c]), FALSE)
    /\ Respond(c, "POWEROFF", TRUE, NULL)
    /\ UNCHANGED <<mHandover, global, freq, chanVars, step>>

\* start() fails, or it succeeds and the handovers are cleared one by one.
POWERON(c) ==
    /\ Runs(c, {"POWERON"})
    /\ \/ /\ ~mOn
          /\ Respond(c, "POWERON", FALSE, NULL)
          /\ UNCHANGED <<mOn, step, others>>
       \/ /\ mOn' = TRUE /\ Writes(c, {Key("on", 0, 0)}, TRUE)
          /\ Goto(c, "clear") /\ step' = [step EXCEPT ![c] = 0]
    /\ UNCHANGED <<mHandover, global, freq, chanVars>>

\* Row step[c] of mHandover is cleared if there are more, and else the
\* command is answered. Inside a row the threads' writes commute.
ClearRow(c, more) ==
    /\ pc[c] = "clear"
    /\ IF more
       THEN /\ mHandover' = [mHandover EXCEPT ![step[c]] = [s \in SubSlots |-> FALSE]]
            /\ Writes(c, {Key("handover", step[c], s) : s \in SubSlots}, FALSE)
            /\ step' = [step EXCEPT ![c] = @ + 1] /\ Goto(c, "clear")
       ELSE /\ Respond(c, "POWERON", TRUE, NULL)
            /\ UNCHANGED <<step, mHandover, others>>
    /\ UNCHANGED <<mOn, global, freq, chanVars>>

\* Mutant of ClearHandover: the loop ends before the last row.
ClearHandoverButLast(c) == ClearRow(c, step[c] + 1 \in TNs)

\* The rows are cleared in order.
ClearHandover(c) == ClearRow(c, step[c] \in TNs)

\* HANDOVER and NOHANDOVER; bad parameters are answered as NOHANDOVER's.
HANDOVER(c) ==
    /\ Runs(c, {"HANDOVER", "NOHANDOVER"})
    /\ LET ts == cmd[c].ts  ss == cmd[c].arg  on == cmd[c].name = "HANDOVER" IN
        IF ts \notin TNs \/ ss \notin SubSlots
        THEN Respond(c, "NOHANDOVER", FALSE, NULL) /\ UNCHANGED <<mHandover, others>>
        ELSE /\ mHandover' = [mHandover EXCEPT ![ts][ss] = on]
             /\ Writes(c, Sets(cmd[c]), on)
             /\ Respond(c, cmd[c].name, TRUE, NULL)
    /\ UNCHANGED <<mOn, global, freq, chanVars, step>>

\* SETMAXDLY, SETMAXDLYNB, _SETBURSTTODISKMASK, and SETTSC with its check.
SetGlobal(c) ==
    /\ Runs(c, Globals)
    /\ LET name == cmd[c].name IN
        IF name = "SETTSC" /\ cmd[c].arg > 7
        THEN Respond(c, name, FALSE, NULL) /\ UNCHANGED <<global, others>>
        ELSE /\ global' = [global EXCEPT ![name] = cmd[c].arg]
             /\ Writes(c, Sets(cmd[c]), cmd[c].arg)
             /\ Respond(c, name, TRUE, NULL)
    /\ UNCHANGED <<mOn, mHandover, freq, chanVars, step>>

\* The device answers with the gain that it has set, not the one asked for.
SETRXGAIN(c) ==
    /\ Runs(c, {"SETRXGAIN"})
    /\ \E g \in Gains :
        /\ gain' = [gain EXCEPT ![c] = g]
        /\ Respond(c, "SETRXGAIN", TRUE, g)
    /\ Writes(c, Sets(cmd[c]), NULL)
    /\ UNCHANGED <<shared, chanType, fillerModulus, mPower, tuned, step>>

\* NOISELEV, which fails while the radio is off, and unknown commands: they
\* change nothing.
Query(c) ==
    /\ Runs(c, {"NOISELEV", "ERR"})
    /\ Respond(c, cmd[c].name, cmd[c].name = "NOISELEV" /\ mOn, NULL)
    /\ UNCHANGED <<shared, chanVars, step, others>>

\* SETPOWER and ADJPOWER; setPowerAttenuation does not go below zero.
SETPOWER(c) ==
    /\ Runs(c, {"SETPOWER", "ADJPOWER"})
    /\ LET want == IF cmd[c].name = "SETPOWER" THEN cmd[c].arg ELSE mPower[c] + cmd[c].arg
           power == IF want < 0 THEN 0 ELSE want
       IN  /\ mPower' = [mPower EXCEPT ![c] = power]
           /\ Respond(c, cmd[c].name, TRUE, power)
    /\ Writes(c, Sets(cmd[c]), NULL)
    /\ UNCHANGED <<shared, chanType, fillerModulus, tuned, gain, step>>

\* RXTUNE and TXTUNE first write the member that all channels share ...
TuneWrite(c) ==
    /\ Runs(c, Dirs)
    /\ freq' = [freq EXCEPT ![cmd[c].name] = cmd[c].arg]
    /\ Writes(c, Sets(cmd[c]), cmd[c].arg)
    /\ Goto(c, "tune")
    /\ UNCHANGED <<mOn, mHandover, global, chanVars, step>>

\* The frequency passed to the device: an optimised build still has it in a
\* register, another one reads the member again.
TuneFreqs(c) == {cmd[c].arg, freq[cmd[c].name]}

\* Mutant of Tune: a failure returns early.
TuneSilent(c) ==
    /\ pc[c] = "tune"
    /\ \/ /\ \E f \in TuneFreqs(c) : tuned' = [tuned EXCEPT ![c][cmd[c].name] = f]
          /\ Respond(c, cmd[c].name, TRUE, NULL)
       \/ NoAnswer(c) /\ UNCHANGED tuned
    /\ UNCHANGED <<shared, chanType, fillerModulus, mPower, gain, step, others>>

\* ... and then tune the channel, which may fail.
Tune(c) ==
    /\ pc[c] = "tune"
    /\ \/ /\ \E f \in TuneFreqs(c) : tuned' = [tuned EXCEPT ![c][cmd[c].name] = f]
          /\ Respond(c, cmd[c].name, TRUE, NULL)
       \/ Respond(c, cmd[c].name, FALSE, NULL) /\ UNCHANGED tuned
    /\ UNCHANGED <<shared, chanType, fillerModulus, mPower, gain, step, others>>

\* A timeslot out of range ends the call before the response is sent.
SETSLOT(c) ==
    /\ Runs(c, {"SETSLOT"})
    /\ LET ts == cmd[c].ts  type == cmd[c].arg IN
        IF ts \notin TNs
        THEN NoAnswer(c) /\ UNCHANGED <<chanType, fillerModulus, others>>
        ELSE /\ chanType' = [chanType EXCEPT ![c][ts] = type]
             /\ fillerModulus' = IF FillerModulusOf[type] = 0 THEN fillerModulus
                                 ELSE [fillerModulus EXCEPT ![c][ts] = FillerModulusOf[type]]
             /\ Writes(c, Sets(cmd[c]), NULL)
             /\ Respond(c, "SETSLOT", TRUE, NULL)
    /\ UNCHANGED <<shared, mPower, tuned, gain, step>>
-----------------------------------------------------------------------------
DriveControl(c) ==
    \/ POWEROFF(c) \/ POWERON(c) \/ ClearHandover(c) \/ HANDOVER(c)
    \/ SetGlobal(c) \/ SETRXGAIN(c) \/ Query(c) \/ SETPOWER(c)
    \/ TuneWrite(c) \/ Tune(c) \/ SETSLOT(c) \/ Answer(c)

Next == \E c \in Chans : InitState(c) \/ Receive(c) \/ DriveControl(c)

Spec == Init /\ [][Next]_vars

\* A control thread carries on with its command, and a BTS that has no
\* answer repeats its command. No step of either leaves pc and step alone.
FairSpec ==
    /\ Spec
    /\ \A c \in Chans : /\ WF_<<pc, step>>(DriveControl(c))
                        /\ WF_pc(pending[c] # NULL /\ Receive(c))
-----------------------------------------------------------------------------
(* Properties *)

\* Every variable has its type.
TypeOK ==
    /\ mOn \in BOOLEAN
    /\ mHandover \in [TNs -> [SubSlots -> BOOLEAN]]
    /\ global \in [Globals -> Int] /\ freq \in [Dirs -> Int]
    /\ chanType \in [Chans -> [TNs -> Combinations]]
    /\ fillerModulus \in [Chans -> [TNs -> {26, 51, 52, 102}]]
    /\ mPower \in [Chans -> Nat] /\ gain \in [Chans -> Int]
    /\ tuned \in [Chans -> [Dirs -> Int]]
    /\ ready \subseteq Chans
    /\ pc \in [Chans -> {"idle", "run", "clear", "tune", "answer"}]
    /\ \A c \in Chans : {cmd[c], pending[c]} \subseteq Commands[c] \cup {NULL}
    /\ step \in [Chans -> Nat] /\ sent \in 0 .. MaxSent /\ lost \in 0 .. MaxLost

\* What a channel's BTS was told of a setting is so, or the setting has a
\* value that another thread gave it after the channel's own thread had
\* written it: whatever answers were lost and commands repeated, whichever
\* tuning failed, and with the threads of other channels between two rows of
\* POWERON, between mRxFreq and tuneRx, and between a write and its answer.
AsTold ==
    \A c \in Chans : \A fact \in told[c] :
        LET now == Setting(c, fact[1]) IN now = fact[2] \/ <<fact[1], now>> \in others[c]

\* The settings of driveControl are in their ranges, and are what the answers
\* said of them.
SettingsInv == TypeOK /\ AsTold

\* A channel is tuned to the frequency that RXTUNE and TXTUNE answer.
\* Does not hold in a build that reads mRxFreq again: another channel's
\* thread may have written it in between.
TunedAsTold ==
    \A c \in Chans : \A fact \in told[c] :
        fact[1].of \in Dirs => Setting(c, fact[1]) = fact[2]

\* A timeslot has the combination that SETSLOT answers.
\* Does not hold with a random filler: TransceiverState::init comes after the
\* start of the channel's control thread.
SlotsAsTold ==
    \A c \in Chans : \A fact \in told[c] :
        fact[1].of = "slot" => Setting(c, fact[1]) = fact[2]

\* Commands on one channel's interface do not change which bursts another
\* channel's receiver expects.
\* Does not hold with HANDOVER among the commands: mHandover has no channel
\* index.
PerArfcn ==
    [][\A c, d \in Chans : c # d /\ pc'[c] # pc[c] =>
        \A n \in TNs, fn \in 0 .. 101 :
            LET Expects(type, handover) == ExpectedCorrType(type[d][n], fn, handover[n], FALSE)
            IN  Expects(chanType', mHandover') = Expects(chanType, mHandover)]_vars

\* Every command has a corresponding response (src/README), and the BTS gets
\* it, although answers are lost and other channels' commands are in between.
\* Does not hold for a SETSLOT with a timeslot out of range, which driveControl
\* leaves unanswered.
EveryCommandAnswered == \A c \in Chans : pending[c] # NULL ~> pending[c] = NULL
=============================================================================
