SPECIFICATION Spec
CONSTANTS
    a = a
    ZERO = ZERO
    JUNK = JUNK
    Samples <- MCSamples
    Inputs <- MCInputs
    NumSegments = 3
    SegmentLen = 2
    HistoryLen = 1
    MaxLen = 3
INVARIANTS RingInv
PROPERTIES HistoryIntact FifoSpec
