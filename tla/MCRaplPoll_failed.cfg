SPECIFICATION PollSpec
CONSTANTS
    Socket = {s1}
    W = 3
    UnitsPerJoule = 2
    MaxEnergy = 5
    MaxTime = 3
    PollReadsFail = TRUE
    ClockSteps = FALSE
INVARIANT
    PowerAfterRefusedRead
