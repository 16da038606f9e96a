SPECIFICATION ProjectSpec
CONSTANTS
    NodeId = {r, a, b, c}
    Nil = Nil
    Root = r
    A = a
    B = b
    MaxGen = 1
    StaleSiblings = FALSE
    MayReplace = TRUE
    MaxEdits = 2
    RuntimeEdits = FALSE
    MayFail = FALSE
    Nowhere = Nowhere
    Hearers <- MCHearers
    Above <- MCAbove
    Kindings <- MCKindings
    Asks <- MCAsks
    MaxEvents = 2
    MaxChanges = 2
    Symbols = {"s"}
    Types = {"int", "float"}
    AnyType = "any"
    MaxCached = 1
    Missing = Missing
    Host = "host"
    Scope = "scope"
    Entry = "entry"
    MaxNode = 7
    Seconds = {2}
    Consumers = {4}
    Wants = {"any", "int"}
    MaxBatches = 2
    Bins = {"b1", "b2"}
    Items = {"i1", "i2"}
    Gains = {0, 5, 7}
    GainDefault = 5
    Nothing = Nothing
    MaxProjectEdits = 3
    MaxStamps = 4
    t1 = t1
    Targets = {t1}
    Levels = {1, 2}
    None = None
    MaxMoves = 2
    Keys <- MCKeys
    Texts <- MCTexts
INVARIANTS
    UndoRestores
    KeysAccountedFor
    HeardAsPromised
    LookupsAreCurrent
    NodesKeepApart
    FollowsSource
    UpkeepAgrees
CHECK_DEADLOCK FALSE
