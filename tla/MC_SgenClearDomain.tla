------------------------- MODULE MC_SgenClearDomain -------------------------
EXTENDS SgenClearDomain

\* two objects and two appdomains, one of which may be unloaded after the
\* other so that the second unload meets the first one's zeroed and freed
\* objects
MCObjs == {"o1", "o2"}
MCDomains == {"d1", "d2"}
==============================================================================
