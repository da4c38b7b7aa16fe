SPECIFICATION Spec
CONSTANTS
    W = 64
    Positions <- Positions64
    MaxSetBits = 2
    MaxTypes = 1
INVARIANT ArrayScanMatchesLayout
CHECK_DEADLOCK FALSE
