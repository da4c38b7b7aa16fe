SPECIFICATION Spec
CONSTANTS
    W = 32
    Positions <- Positions32
    MaxSetBits = 2
    MaxTypes = 1
INVARIANT DescriptorRoundTrip
CHECK_DEADLOCK FALSE
