SPECIFICATION Spec
CONSTANTS
    Clients = {"a"}
    Conns = {"c1", "c2"}
    Workers = {"w1", "w2"}
    WorkerOf <- TwoWorkers
    Admins = {}
    Instances = {1}
    Addrs4 = {1, 2}
    Addrs6 = {1, 2}
    MaxConns = 2
    SessionLimits = {2}
    CountMod = 8
    MaxHandshakes = 3
    MaxRare = 0
INVARIANTS
    ServedByLiveSession
CHECK_DEADLOCK FALSE
