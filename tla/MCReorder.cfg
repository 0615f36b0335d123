SPECIFICATION Spec
CONSTANTS
    MaxSeq = 31
    InitialWindow = 2
    Doublings = 2
    MaxBatch = 2
    Sent <- MCSent
INVARIANTS
    WindowInv
    GapTracked
PROPERTIES
    SkipAccounting
    ImplementsOrderedDelivery
    NoFrameStuck
