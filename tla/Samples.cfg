SPECIFICATION MCSpec
CONSTANTS
    Late <- MCLate
    MaxToa = {0, 1, 4, 63}
    Sizes = {1, 2, 3, 5, 8, 12, 14}
    Rooms = {0, 1, 4}
    Taps = {1, 2, 3, 4, 5, 8}
    Delays <- MCDelays
    DELAYFILTS = 4
    DelayTaps = 6
    Calls <- MCCalls
    Spare = 1
    MaxFloats = 33
    Half = 4
    MaxValue = 13
    Scales = {1, 2}
    MaxRate = 5
    MaxTaps = 3
    MaxBlock = 3
    MAX_OUTPUT_LEN = 12
    MaxBlocks = 3
    BankTaps = 3
    BankBlock = 4
    BankBlocks = 3
    MCHANS = 4
    SendTypes = {"NORMAL", "RESAMP_64M", "RESAMP_100M", "MULTI_ARFCN"}
    SendChans = {0, 1, 2, 3, 4}
    Failing = {"RESAMP_64M", "RESAMP_100M"}
    StartTimestamp = 200000
    SendBursts = 17
    MultiChans = {1, 2, 3, 4, 5}
    Freqs = {1, 2, 3, 4}
    CLen = 4
    HLen = 2
    MultiPulls = 3
CHECK_DEADLOCK FALSE
INVARIANTS DetectInv VectorsFit KernelsCompute BlocksAreStream SentInTime
