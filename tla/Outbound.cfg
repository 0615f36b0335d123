SPECIFICATION Spec
CONSTANTS
    Producers = {"p1", "p2"}
    BatchProducers = {"p1"}
    FrameSizes = {2, 9}
    Capacity = 4
    BatchFrames = 2
    BatchBytes = 4
    SoftLimit = 6
    Budget = 10
    Allowance = 2
    Header = 1
    PullLimit = 4
    Reads = TRUE
    MaxFrames = 3
INVARIANTS
    Fifo
    BacklogRemembered
PROPERTIES
    EveryFrameWritten
CHECK_DEADLOCK FALSE
