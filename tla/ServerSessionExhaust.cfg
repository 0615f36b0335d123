SPECIFICATION Spec
CONSTANTS
    Clients = {"a"}
    Conns = {"c1", "c2"}
    Workers = {"w1"}
    WorkerOf <- OneWorker
    Admins = {}
    Instances = {1}
    Addrs4 = {1, 2}
    Addrs6 = {1, 2}
    MaxConns = 2
    SessionLimits = {2}
    CountMod = 8
    MaxHandshakes = 2
    MaxRare = 1
PROPERTIES
    AbandonedIsFreed
CHECK_DEADLOCK FALSE
