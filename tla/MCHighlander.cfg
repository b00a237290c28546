SPECIFICATION FairElectionSpec
CONSTANTS
    Proc = {p1, p2, p3}
    Together = FALSE
    LogFails = TRUE
    MaxCleans = 1
INVARIANTS
    OneElected
    FoesNeverBlock
PROPERTY
    EndsUnlessTwoFoes
CHECK_DEADLOCK FALSE
