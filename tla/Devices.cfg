SPECIFICATION MCSpec
CONSTANTS
    NONE = NONE
    TuneDevices = {"B200", "B210", "X3XX", "UMTRX"}
    TuneChanCounts = {1, 2}
    Freqs = {20, 26, 40}
    Mcr = 10
    LoOffset = 2
    MaxTunes = 2
    LmsChanCounts = {1, 2}
    FlushLen = 2
    LmsStarts = 3
    LmsReads = 3
    PowerDevices = {"UHD", "LMS", "MULTI"}
    NumChans = 2
    MinGain = 2
    MaxGain = 10
    GainStep = 2
    Levels = {0, 3, 12}
    Steps = {2, 5}
    MaxCmds = 3
    MaxTries = 1
    PowerStarts = 2
    DropPkts = 8
    MaxThreads = 3
    RxChans = {0, 1}
    BufLen = 6
    RxSpp = 2
    ReadLen = 3
    TsOffset = 1
    FlushPkts = 1
    StartDelay = 1
    MaxTick = 9
    ClockSteps = {3}
    RingLen = 12
    ClockWrap = 32
    PktLen = 3
    UsrpLen = 2
    MaxBatch = 3
    ClockDelay = 4
    UsrpStart = 5
    MaxTime = 60
    MaxPings = 1
    MaxLost = 2
    Payload = 126
    MaxPkts = 20
    Lens = {0, 1, 2, 125, 126, 127, 251, 252, 253, 625, 2499, 2500}
    TxWrap = 10000
    Stamps = {0, 7500, 9874, 9999, 12345}
    UsrpMaxStarts = 3
CHECK_DEADLOCK FALSE
INVARIANTS TransmitInv LmsInv UsrpInv SetAsAnswered
PROPERTIES Resynced UhdReadsInTime
