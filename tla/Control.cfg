SPECIFICATION FairSpec
CONSTANTS
    NChans = 2
    NULL = NULL
    TNs = {0}
    Commands <- MCCommands
    Gains = {0, 1}
    MaxSent = 3
    MaxLost = 1
    RandomFiller = TRUE
INVARIANT SettingsInv
PROPERTY EveryCommandAnswered
