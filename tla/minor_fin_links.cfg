\* One mutator thread and the finalizer thread: finalizers, disappearing
\* links, the field, array-copy and clone barriers.  The nursery
\* holds one object, so a pinned object fills it and allocation falls back
\* to alloc_degraded.
CONSTANTS
    Threads = {t1}
    NurserySize = 1
    OldSize = 3
    MaxAllocs = 2
    DegradedLimit = 2
    Links = {l1}
    Barriers <- RuntimeBarriers
    Finalizers = TRUE
SPECIFICATION Spec
INVARIANT NoDanglingReference
PROPERTY CollectionPreservesReachableGraph PinnedObjectsNeverMove
