SPECIFICATION StartSpec
CONSTANTS
    TRX_CHAN_MAX = 3
    MULTI_MAX = 2
    OptionNames = {"a", "i", "j", "p", "c", "m", "x", "g", "f", "o", "s", "b", "r", "A", "R",
                   "S", "e", "t", "y", "z"}
    Commands <- MCCommands
    MaxCmds = 5
    TrxDevices = {"USRP2", "B100", "B200", "B210", "E1XX", "E3XX", "X3XX", "UMTRX", "LIMESDR",
                  "LMS", "USRP1"}
    MaxChans = 5
    Versions <- MCVersions
CHECK_DEADLOCK FALSE
INVARIANTS ConfigInv StartInv
PROPERTY VtyKeepsModesApart
