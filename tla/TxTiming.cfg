SPECIFICATION FairSpec
CONSTANTS
    Hyperframe = 14
    Slots = 2
    UsrpWindow = TRUE
    MinLatency <- MCMinLatency
    InitLatency <- MCInitLatency
    UpInterval <- MCUpInterval
    Second <- MCSecond
    ChunkBursts = 2
    MaxLag = 2
    MaxLatencyFN = 1
    MaxAge = 0
INVARIANT DeadlineInv
PROPERTIES IndicationForward DeadlineAdvances ClockIndicated
