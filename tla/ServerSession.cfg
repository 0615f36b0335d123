SPECIFICATION Spec
CONSTANTS
    Clients = {"a", "b"}
    Conns = {"c1", "c2"}
    Workers = {"w1"}
    WorkerOf <- OneWorker
    Admins = {"api"}
    Instances = {1, 2}
    Addrs4 = {1, 2}
    Addrs6 = {1, 2}
    MaxConns = 2
    SessionLimits = {1, 2}
    CountMod = 8
    MaxHandshakes = 2
    MaxRare = 1
INVARIANTS
    CountExact
    ServedByLiveSession
    LiveSessionReachable
    AddressAccounting
PROPERTIES
    RetentionEnds
CHECK_DEADLOCK FALSE
