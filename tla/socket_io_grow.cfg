\* A receive and a send on one socket, remove_socket on that socket, two I/O
\* workers of which one may exit, a SetMaxThreads (1) that makes the next
\* state queue, and a pollfd array with no socket slot
\* (INITIAL_POLLFD_SIZE 1), so that the first install grows it.
CONSTANTS
    s1 = s1
    s2 = s2
    ka = ka
    States = {s1, s2}
    SockOf <- MCSockOf
    OpOf <- MCOpOf
    CloseSock = ka
    Ready <- MCReady
    Hungup = {}
    IOWorkers = {w1, w2}
    MinIO = 1
    MaxIO = 2
    MaxChoices = {1}
    CpuCount = 1
    InitialPollfdSize = 1
    NoState = NoState
SPECIFICATION Spec
CHECK_DEADLOCK FALSE
INVARIANT PollArrayNeverFreedInUse
