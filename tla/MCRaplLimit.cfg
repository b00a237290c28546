SPECIFICATION Spec
CONSTANTS
    t1 = t1
    t2 = t2
    Tool = {t1, t2}
    Uses <- MixedUses
    ReadsBack <- MixedReads
    WattsBits = 2
    WindowBits = 1
    WattsValues = {{0}, {1}, {2}}
    WindowValues = {{0}}
    FreshLimits = TRUE
    ReadsFail = FALSE
INVARIANTS
    NoMixedLimit
    PkgZeroMeansSet
    FormsAgree
PROPERTY
    KeepsOther
