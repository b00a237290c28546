SPECIFICATION Spec
CONSTANTS
    NumDevs = 2
    MaxFd = 6
    Disciplined = FALSE
INVARIANTS
    TypeOK
    DescriptorsReady
    AccessReachesDevice
PROPERTY CallsReturn
CHECK_DEADLOCK FALSE
