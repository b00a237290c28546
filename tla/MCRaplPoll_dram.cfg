SPECIFICATION PollSpec
CONSTANTS
    Socket = {s1}
    W = 3
    UnitsPerJoule = 2
    MaxEnergy = 6
    MaxTime = 2
    PollReadsFail = FALSE
    ClockSteps = FALSE
INVARIANT
    DramWithinUsage
