SPECIFICATION Spec
CONSTANTS
    Clients = {"a"}
    Tap = "tap"
    Macs <- Addresses
    MacOf <- OwnMac
    Bcast = "bcast"
    Workers = {w1}
    Admins = {api}
    Reader = "reader"
    Burst = 1
    MaxObj = 2
    MaxTicks = 1
    MaxRun = 2
INVARIANTS
    RegisteredMacPinned
    NoWriteAfterRemoval
    FloodBudgetHeld
