\* Two mutator threads storing through mono_gc_wbarrier_generic_store and
\* into a write-barrier root through mono_gc_wbarrier_set_root.
CONSTANTS
    Threads = {t1, t2}
    NurserySize = 2
    OldSize = 2
    MaxAllocs = 2
    DegradedLimit = 2
    Links = {}
    Barriers <- JitObjectBarriers
    Finalizers = FALSE
SYMMETRY ThreadSymmetry
SPECIFICATION Spec
INVARIANT RememberedSetComplete
PROPERTY CollectionPreservesReachableGraph
