------------------------------ MODULE TrxStart ------------------------------
(***************************************************************************)
(* trx_start() and trx_stop() (osmo-trx.cpp): the device is made and       *)
(* opened (UHDDevice.cpp; the other two devices by what make() refuses),   *)
(* the radio interface that its kind calls for is initialised, and the     *)
(* transceiver is attached to it. Each step can fail; what exists by then  *)
(* is deleted. Rates are in sixths of a hertz, so that they are integers.  *)
(***************************************************************************)
EXTENDS Integers, FiniteSets

CONSTANTS
    Devices,            \* from the UHD types, LMS and USRP1
    MaxChans,           \* channels of a configuration
    Versions            \* <<major, minor>> of the UHD library

UhdTypes == {"USRP2", "B100", "B200", "B210", "E1XX", "E3XX", "X3XX", "UMTRX", "LIMESDR"}

\* What the constants are; assumed where the module is instantiated.
StartAssumption ==
    Devices \subseteq UhdTypes \cup {"LMS", "USRP1"} /\ MaxChans \in Nat \ {0}

VARIABLES
    conf,       \* the configuration, and the device that is there
    pc,         \* where trx_start() and then main() are
    object,     \* usrp, radio, transceiver -> none, live, gone; a transceiver also half:
                \* without its threads
    usrp,       \* the open device: its streams and rates
    radio,      \* the radio interface: channels, buffers per transfer, resampling
    fifos,      \* channels of the transceiver that have a receive FIFO
    failed      \* history: something outside the process failed

vars == <<conf, pc, object, usrp, radio, fifos, failed>>

Objects == {"usrp", "radio", "transceiver"}
GSMRATE == 1625000
MCBTS_RATE == 6 * 4 * 800000
USRP2_RATE == 6 * 390625
B100_RATE == 6 * 400000

\* trx_validate_config() has passed: multi-ARFCN has 4/4 and up to 5 channels.
Configs ==
    {c \in [dev : Devices, multi : BOOLEAN, sps : {<<1, 1>>, <<1, 4>>, <<4, 1>>, <<4, 4>>},
            num_chans : 1 .. MaxChans, paths : SUBSET (0 .. MaxChans - 1), offset : {0, 1},
            version : Versions] :
        /\ c.multi => c.sps = <<4, 4>> /\ c.num_chans <= 5
        /\ \A p \in c.paths : p < c.num_chans}

Init ==
    /\ conf \in Configs
    /\ pc = "make" /\ object = [o \in Objects |-> "none"]
    /\ usrp = [chans |-> 0, tx |-> 0, rx |-> 0]
    /\ radio = [chans |-> 0, bufs |-> 0, in |-> 1, out |-> 1]
    /\ fifos = {} /\ failed = FALSE
-----------------------------------------------------------------------------
(* The UHD device *)

AllSps == {<<1, 1>>, <<4, 1>>, <<4, 4>>}
RxAtOne == {<<1, 1>>, <<4, 1>>}

\* The entries of the table: device, samples per symbol, channels, rate.
dev_param_map ==
    LET Rows(t, sps, n, r) == {[type |-> t, sps |-> s, channels |-> n, rate |-> r] : s \in sps}
    IN  Rows("USRP2", AllSps, 1, USRP2_RATE) \cup Rows("B100", RxAtOne, 1, B100_RATE)
        \cup Rows("B200", AllSps, 1, GSMRATE) \cup Rows("B210", AllSps, 2, GSMRATE)
        \cup Rows("E1XX", RxAtOne, 1, GSMRATE) \cup Rows("E3XX", RxAtOne, 2, GSMRATE)
        \cup Rows("X3XX", AllSps, 2, USRP2_RATE) \cup Rows("UMTRX", AllSps, 2, GSMRATE)
        \cup Rows("LIMESDR", {<<4, 4>>}, 1, GSMRATE)
        \cup Rows("B2XX_MCBTS", {<<4, 4>>}, 1, MCBTS_RATE)

dev_type == IF conf.multi THEN "B2XX_MCBTS" ELSE conf.dev
Desc == {d \in dev_param_map : d.type = dev_type /\ d.sps = conf.sps}

\* Frontends of the device, before a subdevice is chosen.
Frontends == IF conf.dev \in {"B210", "E3XX", "X3XX", "UMTRX"} THEN 2 ELSE 1

uhd_e3xx_version_chk == conf.version[1] >= 3 /\ conf.version[2] >= 9

DevChans == IF conf.multi THEN 1 ELSE conf.num_chans

\* set_channels() does not throw: multi-ARFCN on B200 and B210 only; the
\* table has the device and the channels.
set_channels ==
    /\ conf.multi => conf.dev \in {"B200", "B210"}
    /\ \E d \in Desc : DevChans <= d.channels

\* set_antennas(), for all channels of the configuration: UHD throws for a
\* frontend that it does not have, and nothing catches it. Where channels
\* were chosen, the chosen are those it has.
AntennaChans == IF conf.multi \/ Frontends = 1 THEN Frontends ELSE conf.num_chans
AntennaThrows == \E p \in conf.paths : p >= AntennaChans

\* Mutant of set_rates: the transmitter too has the rate of the receiver.
set_ratesRx ==
    LET r == (CHOOSE d \in Desc : TRUE).rate
    IN  [chans |-> DevChans,
         tx |-> IF dev_type = "B2XX_MCBTS" THEN r ELSE r * conf.sps[2],
         rx |-> IF dev_type = "B2XX_MCBTS" THEN r ELSE r * conf.sps[2]]

set_rates ==
    LET r == (CHOOSE d \in Desc : TRUE).rate
    IN  [chans |-> DevChans,
         tx |-> IF dev_type = "B2XX_MCBTS" THEN r ELSE r * conf.sps[1],
         rx |-> IF dev_type = "B2XX_MCBTS" THEN r ELSE r * conf.sps[2]]

\* The interface open() returns.
InterfaceType ==
    IF conf.multi /\ conf.dev \in UhdTypes THEN "MULTI_ARFCN"
    ELSE CASE conf.dev = "B100" -> "RESAMP_64M"
           [] conf.dev \in {"USRP2", "X3XX"} -> "RESAMP_100M"
           [] OTHER -> "NORMAL"
-----------------------------------------------------------------------------
(* trx_start() *)

\* RadioDevice::make(): two of the devices refuse with NULL.
MakeRefuses ==
    \/ conf.dev \in {"LMS", "USRP1"} /\ (conf.sps[1] # conf.sps[2] \/ conf.offset # 0)
    \/ conf.dev = "USRP1" /\ conf.num_chans # 1

\* Nothing checks for NULL before open() is called.
Make ==
    /\ pc = "make"
    /\ IF MakeRefuses THEN pc' = "null" /\ UNCHANGED object
       ELSE pc' = "open" /\ object' = [object EXCEPT !["usrp"] = "live"]
    /\ UNCHANGED <<conf, usrp, radio, fifos, failed>>

\* A device is not found, or a call of its driver fails.
OpenFails ==
    /\ pc = "open"
    /\ failed' = TRUE /\ pc' = "stop"
    /\ UNCHANGED <<conf, object, usrp, radio, fifos>>

OpenUhd ==
    /\ pc = "open" /\ conf.dev \in UhdTypes
    /\ \/ /\ conf.dev = "E3XX" /\ ~uhd_e3xx_version_chk
          /\ pc' = "stop" /\ UNCHANGED usrp
       \/ /\ conf.dev = "E3XX" => uhd_e3xx_version_chk
          /\ ~set_channels
          /\ pc' = "stop" /\ UNCHANGED usrp
       \/ /\ conf.dev = "E3XX" => uhd_e3xx_version_chk
          /\ set_channels /\ AntennaThrows
          /\ pc' = "thrown" /\ UNCHANGED usrp
       \/ /\ conf.dev = "E3XX" => uhd_e3xx_version_chk
          /\ set_channels /\ ~AntennaThrows
          /\ usrp' = set_rates /\ pc' = "radio"
    /\ UNCHANGED <<conf, object, radio, fifos, failed>>

\* LMS sets the rate it was made for; the USRP1 decimates 64 MHz, near it.
OpenOther ==
    /\ pc = "open" /\ conf.dev \in {"LMS", "USRP1"}
    /\ usrp' = [chans |-> conf.num_chans,
                tx |-> GSMRATE * conf.sps[1], rx |-> GSMRATE * conf.sps[2]]
    /\ pc' = "radio"
    /\ UNCHANGED <<conf, object, radio, fifos, failed>>

\* The constructor and init() of the interface for a type.
NewRadio(t) ==
    CASE t = "NORMAL" ->
           [chans |-> conf.num_chans, bufs |-> conf.num_chans, in |-> 1, out |-> 1]
      [] t = "RESAMP_64M" -> [chans |-> 1, bufs |-> 1, in |-> 65, out |-> 96]
      [] t = "RESAMP_100M" -> [chans |-> 1, bufs |-> 1, in |-> 52, out |-> 75]
      [] OTHER -> [chans |-> conf.num_chans, bufs |-> 1, in |-> 65, out |-> 48]

\* RadioInterfaceMulti::init: one branch of the four stays free.
MultiInit == conf.num_chans <= 4 - 1

\* makeRadioInterface(): an interface whose init() fails is not deleted.
MakeRadio ==
    /\ pc = "radio"
    /\ radio' = NewRadio(InterfaceType)
    /\ object' = [object EXCEPT !["radio"] = "live"]
    /\ pc' = IF InterfaceType = "MULTI_ARFCN" /\ ~MultiInit THEN "stop" ELSE "transceiver"
    /\ UNCHANGED <<conf, usrp, fifos, failed>>

\* The Transceiver, its sockets and its control threads: init() fails without
\* memory for the signal processing, before it has room for the threads; a
\* port in use throws, and nothing catches it.
MakeTransceiver ==
    /\ pc = "transceiver"
    /\ \/ /\ object' = [object EXCEPT !["transceiver"] = "live"]
          /\ pc' = "attach" /\ UNCHANGED failed
       \/ /\ object' = [object EXCEPT !["transceiver"] = "half"]
          /\ failed' = TRUE /\ pc' = "stop"
       \/ failed' = TRUE /\ pc' = "thrown" /\ UNCHANGED object
    /\ UNCHANGED <<conf, usrp, radio, fifos>>

\* The next channel, if the radio interface has a FIFO for it.
Attach ==
    /\ pc = "attach"
    /\ LET i == Cardinality(fifos)
       IN  IF i = conf.num_chans THEN pc' = "loop" /\ UNCHANGED fifos
           ELSE IF i < radio.chans THEN fifos' = fifos \cup {i} /\ UNCHANGED pc
           ELSE pc' = "stop" /\ UNCHANGED fifos
    /\ UNCHANGED <<conf, object, usrp, radio, failed>>

\* The main loop ends by a signal or because the transceiver asked for it.
Shutdown ==
    /\ pc = "loop"
    /\ failed' = TRUE /\ pc' = "stop"
    /\ UNCHANGED <<conf, object, usrp, radio, fifos>>

\* trx_stop(): delete transceiver, radio, usrp; the global radio is NULL when
\* its init() failed.
Owned(o) == object[o] = "live" /\ ~(o = "radio" /\ InterfaceType = "MULTI_ARFCN" /\ ~MultiInit)
Stop ==
    /\ pc = "stop" /\ object["transceiver"] # "half"
    /\ \/ \E o \in Objects :
             /\ Owned(o)
             /\ o = "radio" => ~Owned("transceiver")
             /\ o = "usrp" => ~Owned("transceiver") /\ ~Owned("radio")
             /\ object' = [object EXCEPT ![o] = "gone"]
             /\ UNCHANGED pc
       \/ /\ \A o \in Objects : ~Owned(o)
          /\ pc' = "exit" /\ UNCHANGED object
    /\ UNCHANGED <<conf, usrp, radio, fifos, failed>>

\* ~Transceiver() cancels the threads of all channels, there or not.
StopHalf ==
    /\ pc = "stop" /\ object["transceiver"] = "half"
    /\ pc' = "crashed"
    /\ UNCHANGED <<conf, object, usrp, radio, fifos, failed>>

Next ==
    \/ Make \/ OpenFails \/ OpenUhd \/ OpenOther \/ MakeRadio \/ MakeTransceiver
    \/ Attach \/ Shutdown \/ Stop \/ StopHalf

Spec == Init /\ [][Next]_vars
-----------------------------------------------------------------------------
(* Properties *)

\* A transceiver that runs has a receive FIFO for every channel it was made
\* for, no more channels than the manual allows with multi-ARFCN, and its
\* radio interface hands the device one buffer for each of its streams
\* (makeTransceiver, RadioInterfaceMulti::init, set_channels).
ChannelsAgree ==
    pc = "loop" => /\ fifos = 0 .. conf.num_chans - 1
                   /\ conf.multi /\ conf.dev \in UhdTypes => conf.num_chans <= 3
                   /\ radio.bufs = usrp.chans

\* Between the rate of the device and the resampler of the interface chosen
\* for it there is the GSM rate, in both directions; with multi-ARFCN it is
\* the rate of one of the four branches (dev_param_map, the constants of
\* radioInterfaceResamp.cpp and radioInterfaceMulti.cpp).
RatesAgree ==
    pc \in {"transceiver", "attach", "loop"} =>
        LET branches == IF conf.multi /\ conf.dev \in UhdTypes THEN 4 ELSE 1
        IN  /\ usrp.tx * radio.in = branches * GSMRATE * conf.sps[1] * radio.out
            /\ usrp.rx * radio.in = branches * GSMRATE * conf.sps[2] * radio.out

\* The transceiver uses the radio interface and that the device, up to their
\* destructors: none is deleted while its user lives (trx_stop).
UsersGoFirst ==
    /\ object["usrp"] = "gone" => object["transceiver"] # "live"
    /\ object["radio"] = "gone" => object["transceiver"] # "live"

\* The set-ups of the manual and of doc/examples.
Documented ==
    /\ conf.offset = 0 /\ conf.version = <<3, 9>>
    /\ \/ conf.dev \in {"B200", "B210"} /\ conf.multi /\ conf.num_chans <= 3 /\ conf.paths = {}
       \/ conf.dev \in {"B210", "UMTRX"} /\ ~conf.multi /\ conf.num_chans <= 2 /\ conf.sps = <<4, 4>>
       \/ conf.dev \in {"B200", "LIMESDR", "LMS"} /\ ~conf.multi /\ conf.num_chans = 1
          /\ conf.sps = <<4, 4>>

\* They run, unless something outside fails.
DocumentedRun == Documented /\ ~failed => pc \notin {"null", "thrown", "stop", "exit"}

\* "Failed to create radio device" (trx_start): a device that cannot be made
\* ends the process in order.
\* Does not hold: make() may return NULL, on which trx_start calls open(); and
\* a transceiver whose init() failed cannot be deleted.
FailsInOrder == pc \notin {"null", "crashed"}

\* "Check for UHD version > 3.9.0 for E3XX support" (uhd_e3xx_version_chk): a
\* later version is not refused.
\* Does not hold: the minor number is compared whatever the major one is.
LaterVersionsAccepted ==
    /\ conf.dev = "E3XX" /\ ~conf.multi /\ conf.sps = <<4, 1>> /\ conf.paths = {}
    /\ conf.num_chans <= 2 /\ ~failed
    /\ conf.version[1] > 3 \/ (conf.version[1] = 3 /\ conf.version[2] >= 9)
    => pc # "stop"
=============================================================================
