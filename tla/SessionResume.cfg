SPECIFICATION ResumeSpec
CONSTANTS
    Conns = {c1, c2}
    InitMac = 0
    PlainFec = FALSE
    MaxMac = 2
    MaxObj = 5
    MaxInst = 4
    MaxEpoch = 5
    MaxFaults = 2
INVARIANTS
    Rejoins
PROPERTIES
    Comes
CHECK_DEADLOCK FALSE
