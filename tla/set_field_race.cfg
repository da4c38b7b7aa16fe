\* Two mutator threads storing through mono_gc_wbarrier_set_field, which
\* logs the location before it stores: one thread can collect in between.
CONSTANTS
    Threads = {t1, t2}
    NurserySize = 2
    OldSize = 2
    MaxAllocs = 2
    DegradedLimit = 2
    Links = {}
    Barriers <- CBarrier
    Finalizers = FALSE
SYMMETRY ThreadSymmetry
SPECIFICATION Spec
INVARIANT NoDanglingReference
