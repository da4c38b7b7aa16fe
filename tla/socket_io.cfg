\* A receive and a send on one socket, remove_socket on that socket, two I/O
\* workers of which one may exit, a SetMaxThreads (1) that makes the next
\* state queue, and a pollfd array with one socket slot: as with
\* INITIAL_POLLFD_SIZE 1024, there is a slot for every socket, so the array
\* is never grown (socket_io_grow.cfg checks the growth).
CONSTANTS
    s1 = s1
    s2 = s2
    ka = ka
    States = {s1, s2}
    SockOf <- MCSockOf
    OpOf <- MCOpOf
    CloseSock = ka
    Ready <- MCReady
    Hungup = {}
    IOWorkers = {w1, w2}
    MinIO = 1
    MaxIO = 2
    MaxChoices = {1}
    CpuCount = 1
    InitialPollfdSize = 2
    NoState = NoState
SPECIFICATION FairSpec
\* idle I/O workers wait on io_job_added and the poll thread in poll for ever
CHECK_DEADLOCK FALSE
INVARIANT TypeOK DispatchedAtMostOnce PollSetCoversTable
PROPERTY ReadyStatesDispatched
