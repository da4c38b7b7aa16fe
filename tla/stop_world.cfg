SPECIFICATION FairSpec
CONSTANTS
    Threads = {t1, t2, t3}
    NoThread = NoThread
    MaxGCs = 3
    MaxAllocs = 2
    Attached = {t1}
INVARIANT WorldStoppedForCollection
INVARIANT SemaphoreBalanced
PROPERTY CollectionCompletes
PROPERTY ThreadCreationCompletes
