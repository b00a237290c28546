SPECIFICATION Spec
CONSTANTS
    t1 = t1
    t2 = t2
    Tool = {t1}
    Uses <- OneToolUses
    ReadsBack <- OneToolUses
    WattsBits = 2
    WindowBits = 1
    WattsValues = {{0}, {1}}
    WindowValues = {{0}}
    FreshLimits = TRUE
    ReadsFail = FALSE
INVARIANT
    DramZeroMeansSet
