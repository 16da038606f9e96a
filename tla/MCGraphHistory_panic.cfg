SPECIFICATION LoadedSpec
CONSTANTS
    NodeId = {r, a, b, c}
    Nil = Nil
    Root = r
    A = a
    B = b
    MaxGen = 1
    StaleSiblings = FALSE
    MayReplace = TRUE
    MaxEdits = 2
    RuntimeEdits = FALSE
    MayFail = FALSE
INVARIANTS
    NeverPanics
CHECK_DEADLOCK FALSE
