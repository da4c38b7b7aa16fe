SPECIFICATION Spec
CONSTANTS
    W = 32
    Positions <- Positions32
    MaxSetBits = 2
    MaxTypes = 2
INVARIANT ObjectScanMatchesLayout
INVARIANT ComplexTableInterned
CHECK_DEADLOCK FALSE
