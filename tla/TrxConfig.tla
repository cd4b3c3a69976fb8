------------------------------ MODULE TrxConfig ------------------------------
(***************************************************************************)
(* The configuration of the process: the command line (handle_options),    *)
(* the VTY commands of the configuration file and of later sessions        *)
(* (trx_vty.c), what is checked before the start (trx_validate_config),    *)
(* and the configuration written back (config_write_trx). A command is a   *)
(* function from a configuration, with the node the VTY is in, to the      *)
(* next; a refused one changes nothing.                                    *)
(***************************************************************************)
EXTENDS Integers, Sequences

CONSTANTS
    TRX_CHAN_MAX,       \* 8 in the code
    MULTI_MAX,          \* the 5 of trx_validate_config
    OptionNames,        \* the command line options in use
    Commands,           \* the VTY commands in use, <<name, argument>>
    MaxCmds             \* bound on options and commands

AllOptions ==
    {"a", "i", "j", "p", "c", "m", "x", "g", "f", "o", "s", "b", "r", "A", "R",
     "S", "e", "t", "y", "z"}
AllCommands ==
    {"trx", "bind-ip", "remote-ip", "base-port", "dev-args", "tx-sps", "rx-sps", "test rtsc",
     "test rach-delay", "clock-ref", "multi-arfcn", "offset", "rssi-offset", "swap-channels",
     "egprs", "ext-rach", "rt-prio", "filler", "chan", "rx-path", "tx-path"}

\* What the constants are; assumed where the module is instantiated. The VTY
\* takes a number for a channel.
ConfigAssumption ==
    /\ TRX_CHAN_MAX \in Nat \ {0} /\ MULTI_MAX \in Nat \ {0} /\ MaxCmds \in Nat
    /\ OptionNames \subseteq AllOptions
    /\ \A cmd \in Commands : cmd[1] \in AllCommands
    /\ \A cmd \in Commands : cmd[1] = "chan" => cmd[2] \in Nat

NONE == "none"          \* a NULL string
Chans == 0 .. TRX_CHAN_MAX - 1

VARIABLES
    phase,      \* options, file, run, exited
    cfg,        \* trx_ctx, with the node and the index of the VTY
    paths,      \* tx_paths and rx_paths of handle_options: their sizes, -1 if not set
    active,     \* the configuration the transceiver was started with
    said,       \* history: the names of the VTY commands of the file
    cmds

vars == <<phase, cfg, paths, active, said, cmds>>

NoChan == [trx |-> FALSE, idx |-> 0, rx_path |-> NONE, tx_path |-> NONE]

\* vty_trx_ctx_alloc(): zeroed, then the defaults.
Default ==
    [bind_addr |-> "127.0.0.1", remote_addr |-> "127.0.0.1", base_port |-> 5700,
     dev_args |-> NONE, tx_sps |-> 4, rx_sps |-> 1, rtsc |-> 0, rtsc_set |-> FALSE,
     rach_delay |-> 0, rach_delay_set |-> FALSE, clock_ref |-> "internal",
     filler |-> "ZERO", multi_arfcn |-> FALSE, offset |-> 0, rssi_offset |-> 0,
     swap_channels |-> FALSE, ext_rach |-> FALSE, egprs |-> FALSE, sched_rr |-> 0,
     num_chans |-> 0, chans |-> [i \in Chans |-> NoChan], node |-> "CONFIG", index |-> 0]

Init ==
    /\ phase = "options" /\ cfg = Default /\ active = Default
    /\ paths = [tx |-> -1, rx |-> -1] /\ said = {} /\ cmds = 0
-----------------------------------------------------------------------------
(* The VTY commands, each from a configuration c and an argument a *)

cfg_trx(c) == [c EXCEPT !.node = "TRX"]
cfg_bind_ip(c, a) == [c EXCEPT !.bind_addr = a]
cfg_remote_ip(c, a) == [c EXCEPT !.remote_addr = a]
cfg_base_port(c, a) == [c EXCEPT !.base_port = a]
cfg_dev_args(c, a) == [c EXCEPT !.dev_args = a]
cfg_tx_sps(c, a) == [c EXCEPT !.tx_sps = a]
cfg_rx_sps(c, a) == [c EXCEPT !.rx_sps = a]
cfg_clock_ref(c, a) == [c EXCEPT !.clock_ref = a]
cfg_offset(c, a) == [c EXCEPT !.offset = a]
cfg_rssi_offset(c, a) == [c EXCEPT !.rssi_offset = a]
cfg_multi_arfcn(c, a) == [c EXCEPT !.multi_arfcn = (a = "enable")]
cfg_swap_channels(c, a) == [c EXCEPT !.swap_channels = (a = "enable")]
cfg_ext_rach(c, a) == [c EXCEPT !.ext_rach = (a = "enable")]
cfg_rt_prio(c, a) == [c EXCEPT !.sched_rr = a]
cfg_filler(c) == [c EXCEPT !.filler = "DUMMY"]

\* The test mode with normal bursts, of the command and of the option -r.
SetRtsc(c, a) ==
    [c EXCEPT !.rtsc_set = TRUE, !.rtsc = a,
              !.filler = IF c.egprs THEN @ ELSE "NORM_RAND"]
SetRachDelay(c, a) ==
    [c EXCEPT !.rach_delay_set = TRUE, !.rach_delay = a, !.filler = "ACCESS_RAND"]

\* Mutant of cfg_test_rtsc: it does not look at rach-delay.
cfg_test_rtscAlways(c, a) == SetRtsc(c, a)

cfg_test_rtsc(c, a) == IF c.rach_delay_set THEN c ELSE SetRtsc(c, a)
cfg_test_rach_delay(c, a) ==
    IF c.rtsc_set \/ c.egprs THEN c ELSE SetRachDelay(c, a)

\* Mutant of cfg_egprs: disable goes back to random normal bursts.
cfg_egprsBack(c, a) ==
    IF a = "enable" THEN [c EXCEPT !.egprs = TRUE, !.filler = "EDGE_RAND"]
                    ELSE [c EXCEPT !.egprs = FALSE, !.filler = "NORM_RAND"]

cfg_egprs(c, a) ==
    IF a = "enable" THEN [c EXCEPT !.egprs = TRUE, !.filler = "EDGE_RAND"]
                    ELSE [c EXCEPT !.egprs = FALSE]

NewChan(c, i) ==
    [c EXCEPT !.num_chans = @ + 1, !.chans[i].trx = TRUE, !.chans[i].idx = i]

\* The channel is selected, and created when it is the next one.
cfg_chan(c, i) ==
    IF i >= TRX_CHAN_MAX \/ c.num_chans < i THEN c
    ELSE [IF c.num_chans = i THEN NewChan(c, i) ELSE c EXCEPT !.node = "CHAN", !.index = i]

\* vty->index points to the channel.
cfg_chan_rx_path(c, a) == [c EXCEPT !.chans[c.index].rx_path = a]
cfg_chan_tx_path(c, a) == [c EXCEPT !.chans[c.index].tx_path = a]

\* trx_vty_go_parent()
GoParent(c) ==
    [c EXCEPT !.node = IF c.node = "CHAN" THEN "TRX" ELSE "CONFIG", !.index = 0]

ChanCommands == {"rx-path", "tx-path"}
NodeOf(name) ==
    IF name = "trx" THEN "CONFIG" ELSE IF name \in ChanCommands THEN "CHAN" ELSE "TRX"

\* A command that the node does not have is looked for in the parents.
At(c, name) ==
    CASE NodeOf(name) = c.node -> c
      [] c.node = "CHAN" /\ NodeOf(name) = "TRX" -> GoParent(c)
      [] c.node = "CHAN" /\ NodeOf(name) = "CONFIG" -> GoParent(GoParent(c))
      [] c.node = "TRX" /\ NodeOf(name) = "CONFIG" -> GoParent(c)
      [] OTHER -> c
Known(c, name) == At(c, name).node = NodeOf(name)

Handle(c, name, a) ==
    CASE name = "trx" -> cfg_trx(c)
      [] name = "bind-ip" -> cfg_bind_ip(c, a)
      [] name = "remote-ip" -> cfg_remote_ip(c, a)
      [] name = "base-port" -> cfg_base_port(c, a)
      [] name = "dev-args" -> cfg_dev_args(c, a)
      [] name = "tx-sps" -> cfg_tx_sps(c, a)
      [] name = "rx-sps" -> cfg_rx_sps(c, a)
      [] name = "test rtsc" -> cfg_test_rtsc(c, a)
      [] name = "test rach-delay" -> cfg_test_rach_delay(c, a)
      [] name = "clock-ref" -> cfg_clock_ref(c, a)
      [] name = "multi-arfcn" -> cfg_multi_arfcn(c, a)
      [] name = "offset" -> cfg_offset(c, a)
      [] name = "rssi-offset" -> cfg_rssi_offset(c, a)
      [] name = "swap-channels" -> cfg_swap_channels(c, a)
      [] name = "egprs" -> cfg_egprs(c, a)
      [] name = "ext-rach" -> cfg_ext_rach(c, a)
      [] name = "rt-prio" -> cfg_rt_prio(c, a)
      [] name = "filler" -> cfg_filler(c)
      [] name = "chan" -> cfg_chan(c, a)
      [] name = "rx-path" -> cfg_chan_rx_path(c, a)
      [] name = "tx-path" -> cfg_chan_tx_path(c, a)

Execute(c, cmd) ==
    IF Known(c, cmd[1]) THEN Handle(At(c, cmd[1]), cmd[1], cmd[2]) ELSE c

\* config_write_trx(): the lines written for c; onoff writes a flag.
onoff(b) == IF b THEN "enable" ELSE "disable"
WrittenIf(b, name, a) == IF b THEN <<<<name, a>>>> ELSE <<>>

WrittenTests(c) ==
    WrittenIf(c.rtsc_set, "test rtsc", c.rtsc)
    \o WrittenIf(c.rach_delay_set, "test rach-delay", c.rach_delay)

WrittenChan(ch) ==
    <<<<"chan", ch.idx>>>>
    \o WrittenIf(ch.rx_path # NONE, "rx-path", ch.rx_path)
    \o WrittenIf(ch.tx_path # NONE, "tx-path", ch.tx_path)

WrittenChans(c) ==
    LET lines[n \in 0 .. c.num_chans] ==
            IF n = 0 THEN <<>> ELSE lines[n - 1] \o WrittenChan(c.chans[n - 1])
    IN  lines[c.num_chans]

config_write_trx(c) ==
    <<<<"trx", NONE>>, <<"bind-ip", c.bind_addr>>, <<"remote-ip", c.remote_addr>>>>
    \o WrittenIf(c.base_port # Default.base_port, "base-port", c.base_port)
    \o WrittenIf(c.dev_args # NONE, "dev-args", c.dev_args)
    \o WrittenIf(c.tx_sps # Default.tx_sps, "tx-sps", c.tx_sps)
    \o WrittenIf(c.rx_sps # Default.rx_sps, "rx-sps", c.rx_sps)
    \o WrittenTests(c)
    \o WrittenIf(c.clock_ref # "internal", "clock-ref", c.clock_ref)
    \o <<<<"multi-arfcn", onoff(c.multi_arfcn)>>>>
    \o WrittenIf(c.offset # 0, "offset", c.offset)
    \o WrittenIf(c.rssi_offset # 0, "rssi-offset", c.rssi_offset)
    \o <<<<"swap-channels", onoff(c.swap_channels)>>, <<"egprs", onoff(c.egprs)>>,
         <<"ext-rach", onoff(c.ext_rach)>>>>
    \o WrittenIf(c.sched_rr # 0, "rt-prio", c.sched_rr)
    \o WrittenChans(c)

\* What a new process has after it has read these lines.
ReadBack(lines) ==
    LET read[n \in 0 .. Len(lines)] ==
            IF n = 0 THEN Default ELSE Execute(read[n - 1], lines[n])
    IN  read[Len(lines)]
-----------------------------------------------------------------------------
(* The command line *)

Set(c, f, a) == [c EXCEPT ![f] = a]

\* An option that sets one value.
SetOption(c, o) ==
    CASE o = "a" -> Set(c, "dev_args", "args")
      [] o = "i" -> Set(c, "remote_addr", "addr")
      [] o = "j" -> Set(c, "bind_addr", "addr")
      [] o = "p" -> Set(c, "base_port", 5800)
      [] o = "m" -> Set(c, "multi_arfcn", TRUE)
      [] o = "x" -> Set(c, "clock_ref", "external")
      [] o = "g" -> Set(c, "clock_ref", "gpsdo")
      [] o = "f" -> Set(c, "filler", "DUMMY")
      [] o = "o" -> Set(c, "offset", 1)
      [] o = "s" -> Set(c, "tx_sps", 1)
      [] o = "b" -> Set(c, "rx_sps", 4)
      [] o = "r" -> SetRtsc(c, 5)
      [] o = "A" -> SetRachDelay(c, 3)
      [] o = "R" -> Set(c, "rssi_offset", 1)
      [] o = "S" -> Set(c, "swap_channels", TRUE)
      [] o = "e" -> Set(c, "egprs", TRUE)
      [] o = "t" -> Set(c, "sched_rr", 18)

Option ==
    /\ phase = "options" /\ cmds < MaxCmds
    /\ \/ \E o \in OptionNames \ {"c", "y", "z"} : cfg' = SetOption(cfg, o) /\ UNCHANGED paths
       \/ \E n \in 0 .. TRX_CHAN_MAX + 1 :
             \/ "c" \in OptionNames /\ cfg' = [cfg EXCEPT !.num_chans = n] /\ UNCHANGED paths
             \/ "y" \in OptionNames /\ paths' = [paths EXCEPT !.tx = n] /\ UNCHANGED cfg
             \/ "z" \in OptionNames /\ paths' = [paths EXCEPT !.rx = n] /\ UNCHANGED cfg
    /\ cmds' = cmds + 1
    /\ UNCHANGED <<phase, active, said>>

\* The checks after the options, and the channels of -c.
OptionsDone ==
    /\ phase = "options"
    /\ IF \/ cfg.num_chans > TRX_CHAN_MAX
          \/ paths.tx # -1 /\ paths.tx # cfg.num_chans
          \/ paths.rx # -1 /\ paths.rx # cfg.num_chans
       THEN phase' = "exited" /\ UNCHANGED cfg
       ELSE /\ phase' = "file"
            /\ cfg' = [cfg EXCEPT !.chans = [i \in Chans |->
                         IF i >= cfg.num_chans THEN @[i]
                         ELSE [trx |-> TRUE, idx |-> i,
                               tx_path |-> IF paths.tx # -1 THEN "opt" ELSE @[i].tx_path,
                               rx_path |-> IF paths.rx # -1 THEN "opt" ELSE @[i].rx_path]]]
    /\ UNCHANGED <<paths, active, said, cmds>>
-----------------------------------------------------------------------------
(* The configuration file, the start, and the VTY of the running process *)

Vty(names) ==
    \E cmd \in Commands :
       /\ Known(cfg, cmd[1]) /\ cmds < MaxCmds
       /\ cfg' = Execute(cfg, cmd)
       /\ cmds' = cmds + 1
       /\ said' = said \cup ({cmd[1]} \cap names)
       /\ UNCHANGED <<phase, paths, active>>

FileCommand == phase = "file" /\ Vty({c[1] : c \in Commands})
VtyCommand == phase = "run" /\ Vty({})

\* One channel by default.
AtLeastOne(c) == IF c.num_chans = 0 THEN NewChan(c, 0) ELSE c

trx_validate_config(c) ==
    /\ ~(c.multi_arfcn /\ c.num_chans > MULTI_MAX)
    /\ ~((c.egprs \/ c.multi_arfcn) /\ (c.tx_sps # 4 \/ c.rx_sps # 4))

\* The end of the file: defaults, validation, the priority, the start.
Start ==
    /\ phase = "file"
    /\ LET c == GoParent(GoParent(AtLeastOne(cfg)))
       IN  /\ cfg' = c
           /\ \/ /\ ~trx_validate_config(c)
                 /\ phase' = "exited" /\ UNCHANGED active
              \/ /\ trx_validate_config(c) /\ c.sched_rr # 0      \* set_sched_rr fails
                 /\ phase' = "exited" /\ UNCHANGED active
              \/ /\ trx_validate_config(c)
                 /\ phase' = "run" /\ active' = c
    /\ UNCHANGED <<paths, said, cmds>>

Next == Option \/ OptionsDone \/ FileCommand \/ Start \/ VtyCommand

Spec == Init /\ [][Next]_vars
-----------------------------------------------------------------------------
(* Properties *)

Past == phase \in {"file", "run"}

\* The channel list: exactly the first num_chans entries are filled in, each
\* with its index and its back pointer, and the VTY points at one of them
\* (handle_options, cfg_chan and the default of main build the list).
ChansFilled ==
    Past => /\ cfg.num_chans <= TRX_CHAN_MAX
            /\ \A i \in Chans : cfg.chans[i].trx = (i < cfg.num_chans)
            /\ \A i \in Chans : i < cfg.num_chans => cfg.chans[i].idx = i
            /\ cfg.node = "CHAN" => cfg.index < cfg.num_chans

Settings(c) == [f \in (DOMAIN c) \ {"filler", "node", "index"} |-> c[f]]

\* A process that reads the written configuration has the settings of the
\* one that wrote it, whatever the order in which they were made, except for
\* the filler and for both test modes at once, which only options can set
\* (config_write_trx, read back through the commands' own checks).
WrittenIsConfig ==
    Past /\ ~(cfg.rtsc_set /\ cfg.rach_delay_set)
    => Settings(ReadBack(config_write_trx(cfg))) = Settings(cfg)

\* What runs was validated: EDGE and multi-carrier with four samples per
\* symbol, and between one channel and all (trx_validate_config, main).
ActiveIsValid ==
    phase = "run" =>
        /\ active.num_chans \in 1 .. TRX_CHAN_MAX
        /\ active.egprs \/ active.multi_arfcn => active.tx_sps = 4 /\ active.rx_sps = 4

\* A random filler is one that was asked for: normal bursts with rtsc, access
\* bursts with rach-delay (cfg_test_rtsc, cfg_test_rach_delay, cfg_egprs).
FillerAskedFor ==
    /\ cfg.filler = "NORM_RAND" => cfg.rtsc_set
    /\ cfg.filler = "ACCESS_RAND" => cfg.rach_delay_set

\* No VTY command makes the two test modes be set together.
VtyKeepsModesApart ==
    [][Past /\ cfg'.rtsc_set /\ cfg'.rach_delay_set
       => cfg.rtsc_set /\ cfg.rach_delay_set]_vars

\* "rach-delay and egprs options are mutual-exclusive" (cfg_test_rach_delay).
\* Does not hold: only cfg_test_rach_delay checks, "egprs enable" does not.
RachOrEgprs == ~(cfg.rach_delay_set /\ cfg.egprs)

\* "Force 4 SPS for EDGE" (trx_validate_config): EDGE bursts in the filler
\* table are made for four samples per symbol.
\* Does not hold: "egprs disable" leaves the filler that "egprs enable" chose.
EdgeFillerFits == phase = "run" /\ active.filler = "EDGE_RAND" => active.tx_sps = 4

\* "Write running configuration" (VTY reference): the written configuration
\* has the same filler.
\* Does not hold: config_write_trx writes no filler.
FillerWritten ==
    phase = "run" /\ cfg = active => ReadBack(config_write_trx(cfg)).filler = cfg.filler

\* "cmd line options are already being overriden by VTY options if set"
\* (print_deprecated): a test mode of the file is not refused because of the
\* command line.
\* Does not hold: with -r or -e the file's "test rach-delay" is refused.
FileOverrides ==
    phase = "run" /\ "test rach-delay" \in said /\ said \cap {"test rtsc", "egprs"} = {}
    => active.rach_delay_set
=============================================================================
