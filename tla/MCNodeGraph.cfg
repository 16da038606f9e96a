SPECIFICATION Spec
CONSTANTS
    NodeId = {r, a, b, c}
    Nil = Nil
    Root = r
    MaxGen = 1
    StaleSiblings = TRUE
    MayReplace = TRUE
SYMMETRY Symmetry
INVARIANTS
    TypeOK
    LinksConsistent
    NoParentCycle
    StoreClosed
    EffectiveAgrees
PROPERTIES
    EveryNodeInTree
CHECK_DEADLOCK FALSE
