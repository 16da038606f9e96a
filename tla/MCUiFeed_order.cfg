SPECIFICATION FeedSpec
CONSTANTS
    Nodes = {n1}
    Values = {v1, v2}
    Gone = Gone
    Threads = {tick, http}
    Tick = tick
    Failing = {}
    Loaders = {}
    NoThread = NoThread
    LogCap = 8
    RingCap = 8
    MaxTime = 5
INVARIANTS
    RingInOrder
CHECK_DEADLOCK FALSE
