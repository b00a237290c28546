SPECIFICATION TrackerSpec
CONSTANTS
    Addr = {a1, a2, a3}
    NULL = NULL
    Pointer = {p1, p2, p3}
    InitialSize = 2
    MaxLast = 5
SYMMETRY Symmetry
INVARIANTS
    TrackerTypeOK
    ExactTracking
    TrackerInBounds
    NothingLeftAfterFinalize
CHECK_DEADLOCK FALSE
