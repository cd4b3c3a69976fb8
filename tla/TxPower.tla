------------------------------ MODULE TxPower ------------------------------
(***************************************************************************)
(* Transmit power: SETPOWER and ADJPOWER (Transceiver::driveControl), the  *)
(* split of an attenuation into a gain of the device and a digital factor  *)
(* (RadioInterface::setPowerAttenuation), and the gains of the devices,    *)
(* which some set again at every start. Answers go by UDP and get lost; a  *)
(* command whose answer does not come is sent again. Powers are in dB.     *)
(***************************************************************************)
EXTENDS Integers

CONSTANTS
    Devices,            \* from UHD, MULTI (UHD with multi-ARFCN), LMS, USRP1
    NumChans,
    MinGain, MaxGain, GainStep,     \* gains the device can set
    Levels, Steps,      \* arguments of SETPOWER and of ADJPOWER
    MaxCmds, MaxTries, MaxStarts    \* bounds

\* What the constants are; assumed where the module is instantiated.
PowerAssumption ==
    /\ Devices \subseteq {"UHD", "MULTI", "LMS", "USRP1"}
    /\ {NumChans, GainStep} \subseteq Nat \ {0} /\ {MinGain, MaxGain} \subseteq Nat
    /\ MinGain % GainStep = 0 /\ MaxGain % GainStep = 0 /\ MinGain < MaxGain
    /\ Levels \subseteq Int /\ Steps \subseteq Nat

VARIABLES
    dev, on,
    gain,           \* the device's gain, per channel of the device
    digital,        \* powerScaling, as an attenuation
    mPower,
    xch,            \* channel -> the exchange of the base station
    fresh,          \* channel -> commanded since the device last set its gains
    cmds, starts

vars == <<dev, on, gain, digital, mPower, xch, fresh, cmds, starts>>

Chans == 0 .. NumChans - 1
DevChan(c) == IF dev = "MULTI" THEN 0 ELSE c
Mid == (MinGain + MaxGain) \div 2
NoXch == [st |-> "idle", cmd |-> "SETPOWER", arg |-> 0, before |-> 0, tries |-> 0]

\* What channel c is attenuated by. The multi-carrier pushBuffer() does not
\* use powerScaling.
Attenuation(c) == MaxGain - gain[DevChan(c)] + IF dev = "MULTI" THEN 0 ELSE digital[c]

\* init_gains() at open(), or start(): gains at the midpoint; TransceiverState:
\* mPower is 0.
Init ==
    /\ dev \in Devices /\ (dev = "USRP1" => NumChans = 1)
    /\ on = FALSE
    /\ gain = [c \in Chans |-> Mid] /\ digital = [c \in Chans |-> 0]
    /\ mPower = [c \in Chans |-> 0]
    /\ xch = [c \in Chans |-> NoXch] /\ fresh = [c \in Chans |-> FALSE]
    /\ cmds = 0 /\ starts = 0
-----------------------------------------------------------------------------
Clamped(db) == IF db > MaxGain THEN MaxGain ELSE IF db < MinGain THEN MinGain ELSE db

\* setTxGain(): what the device sets and returns. UHD takes a gain it can
\* set next to the one asked for.
setTxGain(db) ==
    IF dev \in {"LMS", "USRP1"} THEN {Clamped(db)}
    ELSE {g \in MinGain .. MaxGain :
            g % GainStep = 0 /\ g - Clamped(db) < GainStep /\ Clamped(db) - g < GainStep}

\* The part of the attenuation that the gain leaves, if it is 1 dB or more.
DigitalAttenuation(atten, rfGain) ==
    LET rest == atten - MaxGain + rfGain IN IF rest < 1 THEN 0 ELSE rest

\* setPowerAttenuation(): at least 0; it is what the answer reports.
setPowerAttenuation(level, c) ==
    LET atten == IF level < 0 THEN 0 ELSE level
    IN  \E g \in setTxGain(MaxGain - atten) :
            /\ gain' = [gain EXCEPT ![DevChan(c)] = g]
            /\ digital' = [digital EXCEPT ![c] = DigitalAttenuation(atten, g)]
            /\ mPower' = [mPower EXCEPT ![c] = atten]

\* The base station sends a command.
Send(c, cmd, arg) ==
    /\ xch[c].st # "sent" /\ cmds < MaxCmds /\ cmds' = cmds + 1
    /\ xch' = [xch EXCEPT ![c] = [st |-> "sent", cmd |-> cmd, arg |-> arg,
                                  before |-> Attenuation(c), tries |-> 0]]
    /\ UNCHANGED <<dev, on, gain, digital, mPower, fresh, starts>>

NewLevel(c) == IF xch[c].cmd = "SETPOWER" THEN xch[c].arg ELSE mPower[c] + xch[c].arg

\* driveControl(): the command is carried out, whether the transceiver is on
\* or not. Its answer arrives, or is lost and the command will come again.
Handle(c, arrives) ==
    /\ xch[c].st = "sent" /\ (arrives \/ xch[c].tries < MaxTries)
    /\ setPowerAttenuation(NewLevel(c), c)
    /\ xch' = [xch EXCEPT ![c].st = IF arrives THEN "done" ELSE "sent", ![c].tries = @ + 1]
    /\ fresh' = [fresh EXCEPT ![c] = TRUE]
    /\ UNCHANGED <<dev, on, cmds, starts>>

\* POWERON: start() of the LimeSDR and of the USRP1 sets the gains again.
PowerOn ==
    /\ ~on /\ on' = TRUE /\ starts < MaxStarts /\ starts' = starts + 1
    /\ IF dev \in {"LMS", "USRP1"}
       THEN gain' = [c \in Chans |-> Mid] /\ fresh' = [c \in Chans |-> FALSE]
       ELSE UNCHANGED <<gain, fresh>>
    /\ UNCHANGED <<dev, digital, mPower, xch, cmds>>

PowerOff ==
    /\ on /\ on' = FALSE
    /\ UNCHANGED <<dev, gain, digital, mPower, xch, fresh, cmds, starts>>

Next ==
    \/ \E c \in Chans :
        \/ \E arg \in Levels : Send(c, "SETPOWER", arg)
        \/ \E arg \in Steps : Send(c, "ADJPOWER", arg)
        \/ \E arrives \in BOOLEAN : Handle(c, arrives)
    \/ PowerOn \/ PowerOff

Spec == Init /\ [][Next]_vars
-----------------------------------------------------------------------------
Near(a, b) == a - b < GainStep /\ b - a < GainStep

\* The power of a channel is the level last reported for it, whatever was
\* repeated and whatever the other channels set, also beyond the range of
\* the gain; a device that sets its gains at a start is excepted until the
\* next command, and multi-ARFCN, where all channels have one gain.
PowerAsReported ==
    dev # "MULTI" => \A c \in Chans : fresh[c] => Near(Attenuation(c), mPower[c])

\* The power of every ARFCN is the level last reported for it.
\* Does not hold with multi-ARFCN, whose channels share one gain.
EachArfcnItsPower == \A c \in Chans : fresh[c] => Near(Attenuation(c), mPower[c])

\* When an exchange is over, a SETPOWER has set the level asked for.
SetIsLevel ==
    \A c \in Chans :
        dev # "MULTI" /\ fresh[c] /\ xch[c].st = "done" /\ xch[c].cmd = "SETPOWER" =>
            Near(Attenuation(c), IF xch[c].arg < 0 THEN 0 ELSE xch[c].arg)

\* When an exchange is over, an ADJPOWER has changed the power by its step.
\* Does not hold: mPower starts at 0 whatever the gain is, and a repetition
\* adds the step again.
AdjustIsStep ==
    \A c \in Chans :
        fresh[c] /\ xch[c].st = "done" /\ xch[c].cmd = "ADJPOWER" =>
            Near(Attenuation(c), xch[c].before + xch[c].arg)
=============================================================================
