\* A non-tracking link to an object with a finalizer.
CONSTANTS
    Threads = {t1}
    NurserySize = 2
    OldSize = 2
    MaxAllocs = 2
    DegradedLimit = 2
    Links = {l1}
    Barriers <- JitBarrier
    Finalizers = TRUE
SPECIFICATION Spec
PROPERTY ShortLinkNulledAtFinalization
