SPECIFICATION SchedulerSpec
CONSTANTS
    Updating = {a, b, c}
    Intervals = {1, 2}
    OnDemand = OnDemand
    ZeroRate = ZeroRate
    Disabled = Disabled
    Absent = Absent
    MaxCatchUp = 2
    MaxStep = 3
    MaxElapsed = 3
    MaxRuleEdits = 1
SYMMETRY Symmetry
INVARIANTS
    CatchUpIsExact
CHECK_DEADLOCK FALSE
