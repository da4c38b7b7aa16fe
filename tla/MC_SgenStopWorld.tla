-------------------------- MODULE MC_SgenStopWorld --------------------------
EXTENDS SgenStopWorld, TLC

ThreadSymmetry == Permutations(Threads)
==============================================================================
