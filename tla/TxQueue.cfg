SPECIFICATION Spec
CONSTANTS
    Hyperframe = 8
    Slots = 1
    NChans = 2
    Vecs = {v1, v2}
    NULL = NULL
    GEN = GEN
    NONE = NONE
    combVII = combVII
    loopback = loopback
    Types <- MCTypes
    ModulusOf <- MCModulusOf
    InitModulus = 1
    Rows = 2
    Retrans = {0}
    Offsets <- RaceOffsets
SYMMETRY VecSymmetry
INVARIANTS TypeOK Ownership OnAir
PROPERTY StaleLoopDrains
