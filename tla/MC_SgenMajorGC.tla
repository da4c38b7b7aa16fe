---------------------------- MODULE MC_SgenMajorGC ----------------------------
EXTENDS SgenMajorGC
==============================================================================
