SPECIFICATION MultiplexSpec
CONSTANTS
    Lists = {"l1", "l2"}
    Counts = {0, 1, 2}
    MaxWrites = 3
INVARIANTS
    ListsHaveCount
CHECK_DEADLOCK FALSE
