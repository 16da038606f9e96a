SPECIFICATION Spec
CONSTANTS
    root = root
    out = out
    w1 = w1
    w2 = w2
    n1 = n1
    a = a
    b = b
    c1 = c1
    editor = editor
    none = none
    Params = {a, b}
    Values = {0, 1}
    Copies <- MCCopies
    Swings = {b}
    Extras <- MCExtras
    Root = root
    Out = out
    Widgets = {w1, w2}
    Fresh = {n1}
    Clients = {c1}
    Own = editor
    Nobody = none
    Gestures = {"begin", "end", "setParam", "moveNode", "removeNodes", "create", "bind", "wrap"}
    Foreign <- MCForeign
    MaxPasses = 3
    MaxIntents = 2
    MaxReplays = 2
    MaxForeign = 1
    lost = lost
    unset = unset
    Controlled = {1, 2, 3}
    Top <- MCTop
    Lost = lost
    Unset = unset
    Modes <- MCModes
    Wires <- MCWires
    Mentions <- MCMentions
    NoRuntime = none
    Start <- MCStart
    MaxActs = 1
    MaxRounds = 1
    Starts <- MCStarts
    Inputs <- MCInputs
    Rules <- MCRules
    Free <- Unbounded
    Absent = Absent
    MaxSets = 3
    Direct = Direct
    Pairs <- MCPairs
    Settings <- MCSettings
    MaxSettings = 1
INVARIANTS
    ControlsSettle
    OwnSessionsClose
    ValueFitsRule
    BindingsSettle
PROPERTIES
    OneEntryPerGesture
    TravelRestores
CHECK_DEADLOCK FALSE
