CONSTANTS
    NurseryGranules = 12
    ScanStartGranules = 4
    TlabGranules = 3
    FragMinGranules = 2
    WordsPerGranule = 2
    ObjSizes = {1, 4}
    Threads = {t1, t2}
    RootWords = 3
    StackValues <- MCStackValues
    MaxAllocs = 6
    MaxCollections = 2
SPECIFICATION Spec
INVARIANT TypeOK
INVARIANT PinQueueIsContainingObjects
INVARIANT LiveObjectsIntact
\* behaviours end at the allocation and collection bounds
CHECK_DEADLOCK FALSE
