SPECIFICATION ResumeSpec
CONSTANTS
    Conns = {c1}
    InitMac = 0
    PlainFec = TRUE
    MaxMac = 1
    MaxObj = 2
    MaxInst = 3
    MaxEpoch = 3
    MaxFaults = 1
PROPERTIES
    NewEpochFresh
CHECK_DEADLOCK FALSE
