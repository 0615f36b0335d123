SPECIFICATION ResumeSpec
CONSTANTS
    Conns = {c1}
    InitMac <- BadMac
    PlainFec = FALSE
    MaxMac = 1
    MaxObj = 2
    MaxInst = 2
    MaxEpoch = 2
    MaxFaults = 1
PROPERTIES
    Comes
CHECK_DEADLOCK FALSE
