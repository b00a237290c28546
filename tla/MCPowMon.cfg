SPECIFICATION Spec
CONSTANTS
    Programs = {"powmon", "static", "dynamic"}
    Caps = {31, 35}
    Interval = 2
    AdjustEvery = 2
    Width = 64
    MaxNow = 9
    PromptThread = TRUE
INVARIANTS
    TotalsAddUp
    LibraryExclusive
    SummaryCoversRun
    CapKept
PROPERTY MonitorEnds
CHECK_DEADLOCK FALSE
