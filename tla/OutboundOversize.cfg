SPECIFICATION Spec
CONSTANTS
    Producers = {"p1"}
    BatchProducers = {}
    FrameSizes = {9}
    Capacity = 4
    BatchFrames = 2
    BatchBytes = 4
    SoftLimit = 6
    Budget = 10
    Allowance = 2
    Header = 1
    PullLimit = 4
    Reads = TRUE
    MaxFrames = 2
PROPERTIES
    NoFrameHoldsUp
CHECK_DEADLOCK FALSE
