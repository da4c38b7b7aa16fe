---------------------------- MODULE MC_ThreadPool ----------------------------
EXTENDS ThreadPool

CONSTANTS j1, j2, d0, d1

\* j1 belongs to the domain being unloaded, j2 to the root domain
MCDomainOf == [j \in {j1, j2} |-> IF j = j1 THEN d1 ELSE d0]
==============================================================================
