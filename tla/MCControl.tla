------------------------------ MODULE MCControl ------------------------------
(* Two channels, one timeslot, and the commands that they are given.      *)
EXTENDS Control, TLC

\* A command for every action, and on both channels some that write the same
\* members of Transceiver.
MCCommands ==
    (0 :> {Cmd("POWERON", NULL, NULL), Cmd("POWEROFF", NULL, NULL),
           Cmd("HANDOVER", 0, 0),
           Cmd("RXTUNE", NULL, 1), Cmd("SETTSC", NULL, 7)}) @@
    (1 :> {Cmd("POWERON", NULL, NULL), Cmd("NOHANDOVER", 0, 0), Cmd("NOHANDOVER", 0, 8),
           Cmd("SETSLOT", 0, "VII"), Cmd("RXTUNE", NULL, 2),
           Cmd("SETPOWER", NULL, 1), Cmd("ADJPOWER", NULL, -1),
           Cmd("SETTSC", NULL, 8), Cmd("SETRXGAIN", NULL, 1), Cmd("ERR", NULL, NULL)})
=============================================================================
