SPECIFICATION Spec
CONSTANTS
    NumDevs = 2
    MaxFd = 5
    Disciplined = FALSE
INVARIANT SuccessMeansOpen
CHECK_DEADLOCK FALSE
