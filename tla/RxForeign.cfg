SPECIFICATION Spec
CONSTANTS
    Conns = {c1, c2}
    MaxSeq = 3
    MaxEpoch = 2
    MaxJoins = 3
    MaxArrivals = 3
    DedupWindow = 2
    BatchCap = 2
INVARIANTS
    NoForeignEpoch
SYMMETRY ConnSymmetry
CHECK_DEADLOCK FALSE
