SPECIFICATION Spec
CONSTANTS
    Socket = {0, 1}
    NoModel = NoModel
    Platforms <- AllPlatforms
    GarbageFlags <- SomeGarbage
    Refusals <- SomeRefusals
INVARIANTS
    NoWriteToLocked
    FirstInitReportsLocks
    ReadFirstIsSafe
PROPERTY LocksStayKnown
CHECK_DEADLOCK FALSE
