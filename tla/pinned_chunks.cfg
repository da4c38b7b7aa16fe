CONSTANTS
    PageSize = 64
    NumPages = 2
    StartOffset = 24
    FreelistSizes <- MCFreelistSizes
    FirstSlotSize = 16
    MaxChunks = 2
    Requests <- MCRequests
    MaxOps = 5
SPECIFICATION Spec
INVARIANT HeapPartitioned
INVARIANT ObjectsRecognised
PROPERTY SweepFreesExactlyUnreachable
\* the entry points are library calls bounded by MaxOps; behaviours end there
CHECK_DEADLOCK FALSE
