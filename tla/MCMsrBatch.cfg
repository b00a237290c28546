SPECIFICATION Spec
CONSTANTS
    NumBatches = 2
    MaxOps = 2
    MaxBlocks = 2
    Register = {r1, r2}
    Value = {0, 1}
    NoRegister = NoRegister
SYMMETRY RegisterSymmetry
INVARIANTS
    StaysInBlocks
    DestinationsStable
PROPERTY ImplementsPromise
