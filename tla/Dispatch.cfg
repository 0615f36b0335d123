SPECIFICATION Spec
CONSTANTS
    Conns = {c1, c2}
    InputCap = 3
    Cap = 3
    MaxBatch = 4
    MaxSeq = 4
    MaxFrames = 5
    MaxEpoch = 2
    MaxJoins = 3
    Rtts = {1, 3}
    RttSlack = 2
    Sticky = 1
    CarryBonus = 1
    Pressure <- MCPressure
INVARIANTS
    ChargesMatch
    EpochPure
    RoomForFirst
SYMMETRY Symmetry
CHECK_DEADLOCK FALSE
