\* A two-cell nursery, two two-cell old sections (one becomes the to-space
\* while the other still holds a pinned object), two large-object
\* addresses with the large-object trigger at one object, one pinned-chunk
\* block, two stack words and two allocations (an old object and the
\* nursery or large object it points to).
CONSTANTS
    NurserySize = 2
    SectionSize = 2
    MaxSections = 2
    LosSlots = 2
    PinnedSlots = 1
    MaxAllocs = 2
    StackDepth = 2
    LosInit = 0
    LosHeadroom = 0
SPECIFICATION Spec
INVARIANT RememberedSetComplete
PROPERTY CollectionPreservesReachableGraph
\* behaviours end at the allocation bound, or when both section ids are in
\* use (alloc_section itself never fails)
CHECK_DEADLOCK FALSE
