SPECIFICATION Spec
CONSTANTS
    Backends = {a, b}
    Writers = {"tap"}
    K = 2
    MaxSeq = 6
    MaxPending = 2
    DoneSlots = 2
    RetireEvery = 2
    MaxCloses = 1
    MaxFull = 0
INVARIANTS
    SingleLossRepaired
SYMMETRY BackendSymmetry
CHECK_DEADLOCK FALSE
