\* Unloading either of two appdomains over every heap of two objects placed
\* in a section, a pinned chunk or the large-object space.
CONSTANTS
    Objs <- MCObjs
    Domains <- MCDomains
    OutSize = 1
SPECIFICATION Spec
INVARIANT NoFreedMemoryRead
\* once every domain is unloaded the runtime makes no further call
CHECK_DEADLOCK FALSE
