SPECIFICATION Spec
CONSTANTS
    Nodes = {n1}
    Values = {v0, v1}
    Gone = Gone
    Threads = {tick, http}
    Tick = tick
    Failing = {tick}
    Loaders = {http}
    NoThread = NoThread
    LogCap = 8
    RingCap = 8
    MaxTime = 4
    Sockets = {s1, s2}
    Instances = {i1, i2}
    Nobody = Nobody
    MaxSaid = 3
    Conns = {c1, c2}
    Senders = {c1}
    Capacity = 2
    MaxStamp = 5
    MaxJoins = 2
    MaxOrders = 1
SYMMETRY Symmetry
INVARIANTS
    PublishedOnce
    ConnectionsKeepTheirOwn
    ClientsInStep
CHECK_DEADLOCK FALSE
