SPECIFICATION Spec
CONSTANTS
    NumUnits = 2
    MaxFills = 1
    MaxOthers = 1
    NumPmc = 2
    NumPcu = 1
    Events = {e1, e2}
    Off = Off
    MaxConfigs = 1
    MaxCalls = 2
INVARIANTS
    ReadsBackAsSet
    NeighboursAsLastRead
    NoMixedCounts
CHECK_DEADLOCK FALSE
