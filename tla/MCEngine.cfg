SPECIFICATION Spec
CONSTANTS
    MaxTicks = 2
    MaxIssued = 3
    MaxPasses = 2
    Keys = {p, q}
    KeyValues = {0, 1}
    Clients = {"u", "v"}
    Behaviours = {"Append", "Coalesce"}
    MaxEdits = 4
    MaxBatch = 2
    MaxTick = 1
    k1 = k1
    k2 = k2
    k3 = k3
    g1 = g1
    g2 = g2
    KeyNodes = {k1, k2, k3}
    Ranges = {g1, g2, g3, g4}
    NoKey = NoKey
    Positions = {1, 3}
    Borders <- MCBorders
    Initial <- MCInitial
    Loaded <- MCLoaded
    MaxCurveEdits = 3
INVARIANTS
    EachEditOnce
    DispatchedStructureWaits
    CurveSettles
PROPERTIES
    LineOfContents
    IdsNameContents
CHECK_DEADLOCK FALSE
