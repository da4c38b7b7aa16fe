\* Two BeginInvoke clients, one in the domain being unloaded and one in the
\* root domain; one idle worker per cpu, at most one worker (so that a second job is queued), and a queue of
\* initial length 1 so that append_job slides and grows it.
CONSTANTS
    j1 = j1
    j2 = j2
    d0 = d0
    d1 = d1
    Jobs = {j1, j2}
    DomainOf <- MCDomainOf
    UnloadDomain = d1
    Workers = {w1, w2, w3}
    Idle = Idle
    NoJob = NoJob
    MinWorkers = 1
    MaxWorkers = 1
    InitialQueueLength = 1
    UnloadTimeout = TRUE
SPECIFICATION FairSpec
\* an empty pool blocks its idle workers on job_added for ever
CHECK_DEADLOCK FALSE
INVARIANT UnloadedJobsNotQueued JobsHaveWakeups
PROPERTY EndInvokeReturns
