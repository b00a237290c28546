SPECIFICATION PollSpec
CONSTANTS
    Socket = {s1}
    W = 2
    UnitsPerJoule = 2
    MaxEnergy = 5
    MaxTime = 1
    PollReadsFail = TRUE
    ClockSteps = TRUE
INVARIANTS
    EnergyAccounted
    PowerOverItsInterval
