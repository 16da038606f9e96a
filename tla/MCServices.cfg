SPECIFICATION ServicesSpec
CONSTANTS
    NodeId = {r, a, b, c}
    Nil = Nil
    Root = r
    A = a
    B = b
    MaxGen = 0
    StaleSiblings = TRUE
    MayReplace = FALSE
    MaxEdits = 2
    RuntimeEdits = TRUE
    MayFail = TRUE
    u1 = u1
    n2 = n2
    Refs = {p1}
    Targets = {n1, n2}
    Uuids = {u1, u2, u3}
    Hinted <- MCHinted
    Filed <- MCFiled
    NoNode = NoNode
    Messages = {1}
    Calm = 0
    MaxRequests = 2
    MaxBatches = 2
    Callers = {r1, r2}
    Paths = {"a"}
    PrefValues = {"v"}
    Default = "d"
    NoPath = NoPath
    MaxHostRequests = 2
    MaxHostEdits = 1
    MaxCrashes = 1
    Waves = {"sine", "square", "curve"}
    Curve = "curve"
    Plain = "sine"
    MaxId = 12
    MaxSets = 4
    Spots = {0, 1, 2, 4, 6}
    MaxKeys = 4
    MaxCalls = 5
    Points = 6
    MaxFit = 4
    Nodes = {"top", "s", "a", "b", "x"}
    Top = "top"
    Scope = "s"
    MaxDepth = 1
    ScopeValues = {"v", "w"}
    NotThere = "gone"
    Planted <- MCPlanted
    RingCap = 3
    MaxTime = 3
    MaxBatch = 2
INVARIANTS
    NeverPanics
    IndexesAgree
    ReferencesResolve
    WarningsAsAsked
    HostSettles
    PreferencesKept
    WaveFollowed
    SamplesAgree
    ScopeAgrees
CHECK_DEADLOCK FALSE
