SPECIFICATION FairSpec
CONSTANTS
    Hyperframe = 4
    Slots = 8
    Chans = {0, 1}
    SlotSymbols = 4
    NumChunks = 4
    FifoLimit = 2
    receiveOffset = 3
    NoiseCnt = 2
    IdleTNs = {0, 3, 6, 7}
    MaxSessions = 2
    MaxPulls = 2
CHECK_DEADLOCK FALSE
INVARIANT UplinkInv
PROPERTIES FifoDrains HandledInOrder
