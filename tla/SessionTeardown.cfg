SPECIFICATION Spec
CONSTANTS
    Clients = {"a"}
    Conns = {"c1", "c2"}
    Workers = {"w1"}
    WorkerOf <- OneWorker
    Admins = {"api"}
    Instances = {1}
    Addrs4 = {1, 2}
    Addrs6 = {1, 2}
    MaxConns = 2
    SessionLimits = {2}
    CountMod = 8
    MaxHandshakes = 3
    MaxRare = 1
INVARIANTS
    EverySessionReachable
CHECK_DEADLOCK FALSE
