------------------------------ MODULE MCStart ------------------------------
(***************************************************************************)
(* The configuration (TrxConfig) with all options and commands, with one   *)
(* or two arguments each, and the start of a validated configuration       *)
(* (TrxStart). A behaviour is one of the two, as part says: TrxStart       *)
(* begins in every configuration that passes the validation, not only in   *)
(* the few that a bounded number of commands reaches.                      *)
(***************************************************************************)
EXTENDS Integers

CONSTANTS
    TRX_CHAN_MAX, MULTI_MAX, OptionNames, Commands, MaxCmds,    \* of TrxConfig
    TrxDevices, MaxChans, Versions                              \* of TrxStart

VARIABLES
    part,
    phase, cfg, paths, active, said, cmds,                      \* configuration
    conf, pc, object, usrp, radio, fifos, failed                \* start

Config == INSTANCE TrxConfig
configVars == <<phase, cfg, paths, active, said, cmds>>

Trx == INSTANCE TrxStart WITH Devices <- TrxDevices
trxVars == <<conf, pc, object, usrp, radio, fifos, failed>>

ASSUME ConfigAssumption == Config!ConfigAssumption
ASSUME TrxAssumption == Trx!StartAssumption
-----------------------------------------------------------------------------
(* The values of the constants *)

Switches == {"multi-arfcn", "swap-channels", "egprs", "ext-rach"} \X {"enable", "disable"}

MCCommands ==
    Switches
    \cup {<<"trx", "none">>, <<"bind-ip", "ip">>, <<"remote-ip", "ip">>, <<"base-port", 5900>>,
          <<"dev-args", "dev">>, <<"tx-sps", 1>>, <<"tx-sps", 4>>, <<"rx-sps", 1>>,
          <<"rx-sps", 4>>, <<"test rtsc", 0>>, <<"test rtsc", 7>>, <<"test rach-delay", 2>>,
          <<"clock-ref", "external">>, <<"clock-ref", "internal">>, <<"offset", 2>>,
          <<"rssi-offset", 2>>, <<"rt-prio", 10>>, <<"filler", "dummy">>,
          <<"rx-path", "LNAW">>, <<"tx-path", "BAND1">>}
    \cup ({"chan"} \X (0 .. TRX_CHAN_MAX))

MCVersions == {<<3, 8>>, <<3, 9>>}
-----------------------------------------------------------------------------
\* What is not looked at starts in one state.
StartInit ==
    /\ part \in {"config", "start"}
    /\ IF part = "start" THEN TRUE ELSE conf = CHOOSE c \in Trx!Configs : TRUE
    /\ Config!Init /\ Trx!Init

StartNext ==
    \/ part = "config" /\ Config!Next /\ UNCHANGED <<part, trxVars>>
    \/ part = "start" /\ Trx!Next /\ UNCHANGED <<part, configVars>>

StartSpec == StartInit /\ [][StartNext]_<<part, configVars, trxVars>>
-----------------------------------------------------------------------------
(* Properties *)

\* The configuration is what was asked for: all channels filled, valid when it
\* runs, the same when it is written and read back.
ConfigInv ==
    /\ Config!ChansFilled /\ Config!WrittenIsConfig
    /\ Config!ActiveIsValid /\ Config!FillerAskedFor

\* No VTY command makes the two test modes be set together
\* (cfg_test_rtsc, cfg_test_rach_delay).
VtyKeepsModesApart == Config!VtyKeepsModesApart

\* The start agrees: configuration, transceiver, radio interface and device
\* about channels and rates; no object is deleted while another uses it; the
\* set-ups of the manual run, unless something outside fails.
StartInv == Trx!ChannelsAgree /\ Trx!RatesAgree /\ Trx!UsersGoFirst /\ Trx!DocumentedRun
=============================================================================
