SPECIFICATION ResumeSpec
CONSTANTS
    Conns = {c1, c2}
    InitMac = 0
    PlainFec = FALSE
    MaxMac = 2
    MaxObj = 5
    MaxInst = 4
    MaxEpoch = 5
    MaxFaults = 3
INVARIANTS
    RejoinsRecreated
SYMMETRY ConnSymmetry
CHECK_DEADLOCK FALSE
