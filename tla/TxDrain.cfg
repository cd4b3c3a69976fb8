SPECIFICATION FairSpec
CONSTANTS
    Hyperframe = 6
    Slots = 2
    NChans = 1
    Vecs = {v1, v2}
    NULL = NULL
    GEN = GEN
    NONE = NONE
    combVII = combVII
    loopback = loopback
    Types <- MCScheduledTypes
    ModulusOf <- MCScheduledModulusOf
    InitModulus = 1
    Rows = 2
    Retrans = {0}
    Offsets <- AheadOffsets

PROPERTY QueueDrains
