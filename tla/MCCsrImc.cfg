SPECIFICATION Spec
CONSTANTS
    Func = 2
    MaxSockets = 3
    CounterArgs = {0, 3, 5}
    MaxCalls = 2
INVARIANTS
    PrintsWhatWasAsked
    NothingBroken
    OwnDevice
CONSTRAINT WithinTerms
CHECK_DEADLOCK FALSE
