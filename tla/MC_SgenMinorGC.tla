--------------------------- MODULE MC_SgenMinorGC ---------------------------
(* Instantiation of SgenMinorGC for TLC: the constants the .cfg files name. *)
EXTENDS SgenMinorGC, TLC

\* the barriers the runtime's C code and the JIT use
JitBarrier == {"generic_store"}
CBarrier == {"set_field"}
\* the JIT's store barrier and the write-barrier root's
JitObjectBarriers == {"generic_store", "set_root"}
\* the runtime's field, array-copy and clone barriers
RuntimeBarriers == {"set_field", "arrayref_copy", "object"}

\* threads and link slots are interchangeable
ThreadSymmetry == Permutations(Threads)
LinkSymmetry == Permutations(Threads) \cup Permutations(Links)
=============================================================================
