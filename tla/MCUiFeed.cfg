SPECIFICATION OneProject
CONSTANTS
    Nodes = {n1, n2}
    Values = {v1, v2}
    Gone = Gone
    Threads = {tick}
    Tick = tick
    Failing = {}
    Loaders = {}
    NoThread = NoThread
    LogCap = 8
    RingCap = 2
    MaxTime = 6
INVARIANTS
    StoreFollowsEngine
PROPERTIES
    StaysInStep
    ClientCatchesUp
CHECK_DEADLOCK FALSE
