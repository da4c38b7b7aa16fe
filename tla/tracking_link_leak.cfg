\* Disappearing links, tracking or not, to objects without finalizers.
CONSTANTS
    Threads = {t1}
    NurserySize = 2
    OldSize = 2
    MaxAllocs = 2
    DegradedLimit = 2
    Links = {l1}
    Barriers <- JitBarrier
    Finalizers = FALSE
SPECIFICATION Spec
PROPERTY LinkDoesNotRetainObject
