SPECIFICATION LinkSpec
CONSTANTS
    Names = 2
    MaxLen = 1
    MaxRate = 2
    Unit = 3
    MaxConns = 2
    Mss = 8
    Sizes = {1, 7}
    Overhead = 1
    Delay = 1
    Late = 1
    MaxTime = 5
INVARIANTS
    StreamReady
    RateReportTrue
    TailReleased
