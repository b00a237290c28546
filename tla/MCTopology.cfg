SPECIFICATION ClientsSpec
CONSTANTS
    MaxSockets = 2
    MaxCores = 3
    MaxThreads = 2
    Numberings = {"continuous", "discontinuous", "siblings"}
    MaxOffline = 1
    Avail = {4, 8}
    NoEntry = NoEntry
INVARIANTS
    CoordReachesIt
    MapIsTrue
    ClientsFit
    PointersReachTheirUnit
CHECK_DEADLOCK FALSE
