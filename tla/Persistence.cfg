SPECIFICATION PersistenceSpec
CONSTANTS
    Bins = {"b1", "b2"}
    Items = {"i1", "i2"}
    Gains = {0, 5, 7}
    GainDefault = 5
    Nothing = Nothing
    MaxProjectEdits = 4
    MaxStamps = 4
INVARIANTS
    ValuesComeBack
CHECK_DEADLOCK FALSE
