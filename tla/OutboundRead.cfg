SPECIFICATION Spec
CONSTANTS
    Producers = {"p1", "p2"}
    BatchProducers = {}
    FrameSizes = {1}
    Capacity = 6
    BatchFrames = 2
    BatchBytes = 4
    SoftLimit = 6
    Budget = 10
    Allowance = 2
    Header = 1
    PullLimit = 3
    Reads = TRUE
    MaxFrames = 4
INVARIANTS
    NoSilentBacklog
CHECK_DEADLOCK FALSE
