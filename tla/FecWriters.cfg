SPECIFICATION Spec
CONSTANTS
    Backends = {a, b}
    Writers = {w1, w2}
    K = 2
    MaxSeq = 4
    MaxPending = 2
    DoneSlots = 2
    RetireEvery = 2
    MaxCloses = 1
    MaxFull = 0
INVARIANTS
    ParityIsArithmetic
SYMMETRY AnySymmetry
CHECK_DEADLOCK FALSE
