------------------------------ MODULE ThreadPool ------------------------------
(***************************************************************************)
(* The asynchronous-delegate pool of threadpool.c: mono_thread_pool_add and *)
(* start_thread_or_queue, the start_idle_threads thread, the TPQueue        *)
(* async_call_queue (append_job, dequeue_job, clear_queue), the worker loop *)
(* async_invoke_thread with mono_async_invoke, mono_thread_pool_finish      *)
(* (EndInvoke), and mono_thread_pool_remove_domain_jobs run by a domain     *)
(* unload.  Every critical section and every Interlocked operation is one  *)
(* step; a plain read of a shared counter followed by a decision on it is  *)
(* two.  The socket I/O queue is not modelled.                              *)
(***************************************************************************)
EXTENDS Naturals, Sequences, FiniteSets

CONSTANTS
    Jobs,               \* the MonoAsyncResults, one client thread each
    DomainOf,           \* DomainOf[j]: the domain of job j
    UnloadDomain,       \* the domain that is unloaded
    Workers,            \* thread ids for async_invoke_thread threads
    Idle,               \* the start_idle_threads thread
    NoJob,              \* NULL
    MinWorkers,         \* mono_min_worker_threads
    MaxWorkers,         \* mono_max_worker_threads
    InitialQueueLength, \* INITIAL_QUEUE_LENGTH
    UnloadTimeout       \* remove_domain_jobs was given a timeout other than -1

Domains == {DomainOf[j] : j \in Jobs} \cup {UnloadDomain}
Callers == Jobs \cup {Idle}
Cells == Jobs \cup {NoJob}

VARIABLES
    dstate,       \* domain->state: "loaded", "unloading" or "unloaded"
    tp_jobs,      \* domain->threadpool_jobs
    cleanup,      \* domain->cleanup_semaphore # NULL
    csem,         \* count of the cleanup semaphore (maximum 1)
    upc,          \* the unloading thread's place in remove_domain_jobs
    q,            \* async_call_queue: [arr, first, next]; arr = <<>> is NULL
    job_added,    \* count of the job_added semaphore
    workers,      \* mono_worker_threads
    busy,         \* busy_worker_threads
    idle_started, \* tp_idle_started
    wpc,          \* wpc[w]: the place of worker w in async_invoke_thread
    wdata,        \* wdata[w]: its data / ar
    cpc,          \* cpc[c]: the place of caller c (a client or Idle)
    rd,           \* rd[c]: the busy and worker counts c read
    idata,        \* the data argument of start_idle_threads
    completed,    \* ares->completed
    handle,       \* ares->handle # NULL
    event         \* the wait_event of ares is set

vars == <<dstate, tp_jobs, cleanup, csem, upc, q, job_added, workers, busy,
          idle_started, wpc, wdata, cpc, rd, idata, completed, handle, event>>
pool == <<q, job_added, workers, busy, idle_started, wpc, wdata>>
dom == <<dstate, tp_jobs, cleanup, csem, upc>>
ares == <<completed, handle, event>>

Unloading(d) == dstate[d] \in {"unloading", "unloaded"}

-----------------------------------------------------------------------------
(* TPQueue.  Indices are 0-based as in the code: arr[i + 1] is element i. *)

At(a, i) == a[i + 1]

(* A new array of length len (mono_array_new_cached) holding the count     *)
(* elements of a from index from (mono_array_memcpy_refs).                 *)
Moved(a, from, count, len) ==
    [i \in 1..len |-> IF i <= count THEN a[from + i] ELSE NoJob]

Put(Q, j) == [Q EXCEPT !.arr[Q.next + 1] = j, !.next = @ + 1]

(* append_job, the part under the critical section.                       *)
AppendJob(Q, j) ==
    LET count == Q.next - Q.first
    IN CASE Q.arr # <<>> /\ Q.next < Len(Q.arr) -> Put(Q, j)
         [] Q.arr = <<>> ->
              Put([Q EXCEPT !.arr = [i \in 1..InitialQueueLength |-> NoJob]], j)
         [] Q.first > 0 ->   \* slide, then null the vacated tail
              Put([arr |-> [i \in 1..Len(Q.arr) |->
                              IF i <= count THEN Q.arr[Q.first + i]
                              ELSE IF i <= Q.next THEN NoJob ELSE Q.arr[i]],
                   first |-> 0, next |-> count], j)
         [] OTHER ->         \* a new array twice as long
              Put([arr |-> Moved(Q.arr, Q.first, count, 2 * Len(Q.arr)),
                   first |-> 0, next |-> count], j)

(* dequeue_job: the element at first_elem (NoJob when empty) and the queue *)
(* after it, shrunk to half when it is mostly empty.                      *)
DequeueJob(Q) ==
    IF Q.arr = <<>> \/ Q.first = Q.next THEN [job |-> NoJob, q |-> Q]
    ELSE LET Q1 == [Q EXCEPT !.arr[Q.first + 1] = NoJob, !.first = @ + 1]
             count == Q1.next - Q1.first
         IN [job |-> At(Q.arr, Q.first),
             q |-> IF Len(Q1.arr) > InitialQueueLength /\ count < Len(Q1.arr) \div 3
                   THEN [arr |-> Moved(Q1.arr, Q1.first, count, Len(Q1.arr) \div 2),
                         first |-> 0, next |-> count]
                   ELSE Q1]

(* clear_queue: null the elements of domain d, then compact the survivors *)
(* to the front; next_elem is set to the number of elements removed.      *)
Removed(Q, d) ==
    {i \in Q.first..Q.next - 1 : DomainOf[At(Q.arr, i)] = d}

ClearQueue(Q, d) ==
    LET R == Removed(Q, d)
        nulled == [i \in 1..Len(Q.arr) |-> IF i - 1 \in R THEN NoJob ELSE Q.arr[i]]
        kept == SelectSeq(SubSeq(nulled, Q.first + 1, Q.next), LAMBDA x : x # NoJob)
    IN IF R = {} THEN Q
       ELSE [arr |-> [i \in 1..Len(Q.arr) |-> IF i <= Len(kept) THEN kept[i] ELSE nulled[i]],
             first |-> 0, next |-> Cardinality(R)]

(* The jobs a dequeue can still return, in order. *)
Pending(Q) == IF Q.arr = <<>> THEN <<>>
              ELSE SelectSeq(SubSeq(Q.arr, Q.first + 1, Q.next), LAMBDA x : x # NoJob)

-----------------------------------------------------------------------------
(* threadpool_jobs_dec: the new counters, and whether the count reached    *)
(* zero while a cleanup semaphore is installed (it is then released).      *)
JobsDec(d) ==
    [tj |-> [tp_jobs EXCEPT ![d] = @ - 1],
     cs |-> IF tp_jobs[d] = 1 /\ cleanup[d] THEN [csem EXCEPT ![d] = 1] ELSE csem,
     last |-> tp_jobs[d] = 1 /\ cleanup[d]]

JobsInc(j) == IF j = NoJob THEN tp_jobs ELSE [tp_jobs EXCEPT ![DomainOf[j]] = @ + 1]

JobOf(c) == IF c = Idle THEN idata ELSE c

(* Where a caller goes when start_thread_or_queue returns. *)
Continue(c) == IF c = Idle THEN "idle_dec" ELSE "added"

FreeWorkers == {w \in Workers : wpc[w] \in {"none", "gone"}}

(* start_tpthread: count the thread as a worker and busy, then create it. *)
StartTpThread(j) ==
    /\ FreeWorkers # {}
    /\ workers' = workers + 1
    /\ busy' = busy + 1
    /\ LET w == CHOOSE x \in FreeWorkers : TRUE
       IN /\ wpc' = [wpc EXCEPT ![w] = "top"]
          /\ wdata' = [wdata EXCEPT ![w] = j]

Goto(c, l) == cpc' = [cpc EXCEPT ![c] = l]

-----------------------------------------------------------------------------
(* Callers: mono_thread_pool_add, start_thread_or_queue, append_job.       *)

(* mono_thread_pool_add: a job of an unloading domain is not started.     *)
Add(j) ==
    /\ cpc[j] = "init"
    /\ Goto(j, IF Unloading(DomainOf[j]) THEN "rejected" ELSE "stq")
    /\ UNCHANGED <<dom, pool, rd, idata, ares>>

(* start_thread_or_queue: the first call hands the job to a new            *)
(* start_idle_threads thread; later ones read busy and worker counts.      *)
StartThreadOrQueue(c) ==
    /\ cpc[c] = "stq"
    /\ \/ /\ idle_started = 0
          /\ idle_started' = 1
          /\ tp_jobs' = JobsInc(JobOf(c))
          /\ idata' = JobOf(c)
          /\ cpc' = [cpc EXCEPT ![c] = Continue(c), ![Idle] = "loop"]
          /\ UNCHANGED <<rd>>
       \/ /\ idle_started = 1
          /\ rd' = [rd EXCEPT ![c] = [busy |-> busy, worker |-> workers]]
          /\ Goto(c, "stq_act")
          /\ UNCHANGED <<idle_started, tp_jobs, idata>>
    /\ UNCHANGED <<dstate, cleanup, csem, upc, q, job_added, workers, busy, wpc, wdata, ares>>

(* worker <= ++busy && worker < mono_max_worker_threads: start a thread,   *)
(* else append_job and release job_added.                                  *)
StartOrAppend(c) ==
    /\ cpc[c] = "stq_act"
    /\ LET r == rd[c] IN
       \/ /\ r.worker <= r.busy + 1 /\ r.worker < MaxWorkers
          /\ StartTpThread(JobOf(c))
          /\ tp_jobs' = JobsInc(JobOf(c))
          /\ Goto(c, Continue(c))
       \/ /\ ~(r.worker <= r.busy + 1 /\ r.worker < MaxWorkers)
          /\ tp_jobs' = JobsInc(JobOf(c))     \* append_job's threadpool_jobs_inc
          /\ Goto(c, "app_cs")
          /\ UNCHANGED <<workers, busy, wpc, wdata>>
    /\ UNCHANGED <<dstate, cleanup, csem, upc, q, job_added, idle_started, rd, idata, ares>>

\* mutant: append_job without the domain state test
AppendUnderLockNoDomainTest(c) ==
    /\ cpc[c] = "app_cs"
    /\ q' = AppendJob(q, JobOf(c))
    /\ Goto(c, "app_rel")
    /\ UNCHANGED <<dom, job_added, workers, busy, idle_started, wpc, wdata, rd, idata, ares>>

\* mutant: start_thread_or_queue returns without ReleaseSemaphore (job_added)
AppendUnderLockNoRelease(c) ==
    /\ cpc[c] = "app_cs"
    /\ q' = IF Unloading(DomainOf[JobOf(c)]) THEN q ELSE AppendJob(q, JobOf(c))
    /\ Goto(c, Continue(c))
    /\ UNCHANGED <<dom, job_added, workers, busy, idle_started, wpc, wdata, rd, idata, ares>>

(* append_job under mono_delegate_section: nothing is queued once the      *)
(* domain is unloading (the count taken above is kept).                    *)
AppendUnderLock(c) ==
    /\ cpc[c] = "app_cs"
    /\ q' = IF Unloading(DomainOf[JobOf(c)]) THEN q ELSE AppendJob(q, JobOf(c))
    /\ Goto(c, "app_rel")
    /\ UNCHANGED <<dom, job_added, workers, busy, idle_started, wpc, wdata, rd, idata, ares>>

ReleaseJobAdded(c) ==
    /\ cpc[c] = "app_rel"
    /\ job_added' = job_added + 1
    /\ Goto(c, Continue(c))
    /\ UNCHANGED <<dom, q, workers, busy, idle_started, wpc, wdata, rd, idata, ares>>

\* mutant: the wait event is only created when the handle already exists
FinishNoEvent(j) ==
    /\ cpc[j] = "added"
    /\ IF completed[j]
       THEN Goto(j, "done") /\ UNCHANGED handle
       ELSE Goto(j, "fin_wait") /\ UNCHANGED handle
    /\ UNCHANGED <<dom, pool, rd, idata, completed, event>>

(* mono_thread_pool_finish: under the ares monitor, either the call has    *)
(* completed or a wait event is installed; then wait on it.                *)
Finish(j) ==
    /\ cpc[j] = "added"
    /\ IF completed[j]
       THEN Goto(j, "done") /\ UNCHANGED handle
       ELSE Goto(j, "fin_wait") /\ handle' = [handle EXCEPT ![j] = TRUE]
    /\ UNCHANGED <<dom, pool, rd, idata, completed, event>>

FinishWait(j) ==
    /\ cpc[j] = "fin_wait" /\ event[j]
    /\ Goto(j, "done")
    /\ UNCHANGED <<dom, pool, rd, idata, ares>>

(* start_idle_threads: start workers up to mono_min_worker_threads, the    *)
(* first one with the job; a job no thread took goes to                    *)
(* start_thread_or_queue.                                                  *)
IdleLoop ==
    /\ cpc[Idle] = "loop"
    /\ \/ /\ MinWorkers - workers > 0
          /\ StartTpThread(idata)   \* its threadpool_jobs_inc and _dec cancel
          /\ idata' = NoJob
          /\ UNCHANGED cpc
       \/ /\ MinWorkers - workers <= 0
          /\ Goto(Idle, IF idata # NoJob THEN "stq" ELSE "done")
          /\ UNCHANGED <<workers, busy, wpc, wdata, idata>>
    /\ UNCHANGED <<dom, q, job_added, idle_started, rd, ares>>

IdleJobsDec ==
    /\ cpc[Idle] = "idle_dec"
    /\ LET r == JobsDec(DomainOf[idata]) IN tp_jobs' = r.tj /\ csem' = r.cs
    /\ Goto(Idle, "done")
    /\ UNCHANGED <<dstate, cleanup, upc, pool, rd, idata, ares>>

-----------------------------------------------------------------------------
(* Workers: async_invoke_thread.                                           *)

WGoto(w, l) == wpc' = [wpc EXCEPT ![w] = l]

(* The head of the loop: a job of an unloading domain is dropped (its      *)
(* count released) without touching busy_worker_threads.                   *)
Top(w) ==
    /\ wpc[w] = "top"
    /\ LET j == wdata[w] IN
       \/ /\ j = NoJob
          /\ WGoto(w, "deq")
          /\ UNCHANGED <<tp_jobs, csem, wdata>>
       \/ /\ j # NoJob /\ Unloading(DomainOf[j])
          /\ LET r == JobsDec(DomainOf[j]) IN tp_jobs' = r.tj /\ csem' = r.cs
          /\ wdata' = [wdata EXCEPT ![w] = NoJob]
          /\ WGoto(w, "deq")
       \/ /\ j # NoJob /\ ~Unloading(DomainOf[j])
          /\ WGoto(w, "dec")
          /\ UNCHANGED <<tp_jobs, csem, wdata>>
    /\ UNCHANGED <<dstate, cleanup, upc, q, job_added, workers, busy, idle_started,
                   cpc, rd, idata, ares>>

(* mono_thread_push_appdomain_ref, then threadpool_jobs_dec: the thread    *)
(* that takes the count to zero for an unload skips the job.               *)
JobsDecBeforeInvoke(w) ==
    /\ wpc[w] = "dec"
    /\ LET r == JobsDec(DomainOf[wdata[w]])
       IN /\ tp_jobs' = r.tj /\ csem' = r.cs
          /\ IF r.last THEN WGoto(w, "deq") /\ wdata' = [wdata EXCEPT ![w] = NoJob]
             ELSE WGoto(w, "invoke") /\ UNCHANGED wdata
    /\ UNCHANGED <<dstate, cleanup, upc, q, job_added, workers, busy, idle_started,
                   cpc, rd, idata, ares>>

(* mono_domain_set (domain, FALSE) fails for an unloaded domain; else      *)
(* mono_async_invoke runs the call and sets ares->completed.               *)
Invoke(w) ==
    /\ wpc[w] = "invoke"
    /\ LET j == wdata[w] IN
       \/ /\ dstate[DomainOf[j]] = "unloaded"
          /\ busy' = busy - 1
          /\ WGoto(w, "deq")
          /\ UNCHANGED completed
       \/ /\ dstate[DomainOf[j]] # "unloaded"
          /\ completed' = [completed EXCEPT ![j] = TRUE]
          /\ WGoto(w, "notify")
          /\ UNCHANGED busy
    /\ UNCHANGED <<dom, q, job_added, workers, idle_started, wdata, cpc, rd, idata,
                   handle, event>>

(* mono_async_invoke under the ares monitor: set the wait event if         *)
(* EndInvoke installed one; then busy_worker_threads is decremented.       *)
Notify(w) ==
    /\ wpc[w] = "notify"
    /\ LET j == wdata[w]
       IN event' = IF handle[j] THEN [event EXCEPT ![j] = TRUE] ELSE event
    /\ busy' = busy - 1
    /\ WGoto(w, "deq")
    /\ UNCHANGED <<dom, q, job_added, workers, idle_started, wdata, cpc, rd, idata,
                   completed, handle>>

(* data = dequeue_job (...) *)
Dequeue(w) ==
    /\ wpc[w] = "deq"
    /\ LET r == DequeueJob(q)
       IN /\ q' = r.q
          /\ wdata' = [wdata EXCEPT ![w] = r.job]
          /\ WGoto(w, IF r.job # NoJob THEN "inc" ELSE "twait")
    /\ UNCHANGED <<dom, job_added, workers, busy, idle_started, cpc, rd, idata, ares>>

(* WaitForSingleObjectEx (job_added, timeout) returned signalled, then     *)
(* dequeue_job; the loop goes on while no job was found.                   *)
TimedWaitJob(w) ==
    /\ wpc[w] = "twait" /\ job_added > 0
    /\ job_added' = job_added - 1
    /\ LET r == DequeueJob(q)
       IN /\ q' = r.q
          /\ wdata' = [wdata EXCEPT ![w] = r.job]
          /\ WGoto(w, IF r.job # NoJob THEN "inc" ELSE "twait")
    /\ UNCHANGED <<dom, workers, busy, idle_started, cpc, rd, idata, ares>>

(* THREAD_EXIT_TIMEOUT elapsed with no job. *)
TimedWaitTimeout(w) ==
    /\ wpc[w] = "twait"
    /\ WGoto(w, "check")
    /\ UNCHANGED <<dom, q, job_added, workers, busy, idle_started, wdata, cpc, rd,
                   idata, ares>>

(* A thread beyond mono_min_worker_threads exits, the others wait. *)
CheckWorkers(w) ==
    /\ wpc[w] = "check"
    /\ WGoto(w, IF workers <= MinWorkers THEN "iwait" ELSE "exit")
    /\ UNCHANGED <<dom, q, job_added, workers, busy, idle_started, wdata, cpc, rd,
                   idata, ares>>

(* WaitForSingleObjectEx (job_added, INFINITE), dequeue_job, re-read the   *)
(* worker count.                                                           *)
IdleWaitJob(w) ==
    /\ wpc[w] = "iwait" /\ job_added > 0
    /\ job_added' = job_added - 1
    /\ LET r == DequeueJob(q)
       IN /\ q' = r.q
          /\ wdata' = [wdata EXCEPT ![w] = r.job]
          /\ WGoto(w, CASE r.job # NoJob -> "inc"
                        [] workers <= MinWorkers -> "iwait"
                        [] OTHER -> "exit")
    /\ UNCHANGED <<dom, workers, busy, idle_started, cpc, rd, idata, ares>>

WorkerExit(w) ==
    /\ wpc[w] = "exit"
    /\ workers' = workers - 1
    /\ WGoto(w, "gone")
    /\ UNCHANGED <<dom, q, job_added, busy, idle_started, wdata, cpc, rd, idata, ares>>

BusyInc(w) ==
    /\ wpc[w] = "inc"
    /\ busy' = busy + 1
    /\ WGoto(w, "top")
    /\ UNCHANGED <<dom, q, job_added, workers, idle_started, wdata, cpc, rd, idata, ares>>

-----------------------------------------------------------------------------
(* The unloading thread: mono_thread_pool_remove_domain_jobs.              *)

UGoto(l) == upc' = l

(* The domain is marked unloading before its jobs are removed. *)
BeginUnload ==
    /\ upc = "running"
    /\ dstate' = [dstate EXCEPT ![UnloadDomain] = "unloading"]
    /\ UGoto("clear")
    /\ UNCHANGED <<tp_jobs, cleanup, csem, pool, cpc, rd, idata, ares>>

(* clear_queue: each removed job releases its count (no semaphore yet). *)
ClearDomainJobs ==
    /\ upc = "clear"
    /\ q' = ClearQueue(q, UnloadDomain)
    /\ tp_jobs' = [tp_jobs EXCEPT ![UnloadDomain] = @ - Cardinality(Removed(q, UnloadDomain))]
    /\ UGoto("setsem")
    /\ UNCHANGED <<dstate, cleanup, csem, job_added, workers, busy, idle_started,
                   wpc, wdata, cpc, rd, idata, ares>>

(* domain->cleanup_semaphore = sem_handle; mono_memory_write_barrier (). *)
InstallCleanupSemaphore ==
    /\ upc = "setsem"
    /\ cleanup' = [cleanup EXCEPT ![UnloadDomain] = TRUE]
    /\ UGoto("check")
    /\ UNCHANGED <<dstate, tp_jobs, csem, pool, cpc, rd, idata, ares>>

(* while (domain->threadpool_jobs) *)
CheckJobs ==
    /\ upc = "check"
    /\ UGoto(IF tp_jobs[UnloadDomain] = 0 THEN "return" ELSE "wait")
    /\ UNCHANGED <<dstate, tp_jobs, cleanup, csem, pool, cpc, rd, idata, ares>>

(* WaitForSingleObject (sem_handle, timeout): the last job's release, or   *)
(* the timeout (result FALSE).                                             *)
WaitCleanup ==
    /\ upc = "wait"
    /\ \/ /\ csem[UnloadDomain] = 1
          /\ csem' = [csem EXCEPT ![UnloadDomain] = 0]
          /\ UGoto("check")
       \/ /\ UnloadTimeout
          /\ UGoto("return")
          /\ UNCHANGED csem
    /\ UNCHANGED <<dstate, tp_jobs, cleanup, pool, cpc, rd, idata, ares>>

(* cleanup_semaphore = NULL; the unload goes on and ends with the domain   *)
(* unloaded.                                                               *)
FinishUnload ==
    /\ upc = "return"
    /\ cleanup' = [cleanup EXCEPT ![UnloadDomain] = FALSE]
    /\ dstate' = [dstate EXCEPT ![UnloadDomain] = "unloaded"]
    /\ UGoto("done")
    /\ UNCHANGED <<tp_jobs, csem, pool, cpc, rd, idata, ares>>

-----------------------------------------------------------------------------
Init ==
    /\ dstate = [d \in Domains |-> "loaded"]
    /\ tp_jobs = [d \in Domains |-> 0]
    /\ cleanup = [d \in Domains |-> FALSE]
    /\ csem = [d \in Domains |-> 0]
    /\ upc = "running"
    /\ q = [arr |-> <<>>, first |-> 0, next |-> 0]
    /\ job_added = 0
    /\ workers = 0
    /\ busy = 0
    /\ idle_started = 0
    /\ wpc = [w \in Workers |-> "none"]
    /\ wdata = [w \in Workers |-> NoJob]
    /\ cpc = [c \in Callers |-> IF c = Idle THEN "none" ELSE "init"]
    /\ rd = [c \in Callers |-> [busy |-> 0, worker |-> 0]]
    /\ idata = NoJob
    /\ completed = [j \in Jobs |-> FALSE]
    /\ handle = [j \in Jobs |-> FALSE]
    /\ event = [j \in Jobs |-> FALSE]

Caller(c) == StartThreadOrQueue(c) \/ StartOrAppend(c) \/ AppendUnderLock(c)
             \/ ReleaseJobAdded(c)
Client(j) == Add(j) \/ Caller(j) \/ Finish(j) \/ FinishWait(j)
IdleThread == IdleLoop \/ Caller(Idle) \/ IdleJobsDec
Worker(w) == Top(w) \/ JobsDecBeforeInvoke(w) \/ Invoke(w) \/ Notify(w) \/ Dequeue(w)
             \/ TimedWaitJob(w) \/ TimedWaitTimeout(w) \/ CheckWorkers(w)
             \/ IdleWaitJob(w) \/ WorkerExit(w) \/ BusyInc(w)
Unloader == BeginUnload \/ ClearDomainJobs \/ InstallCleanupSemaphore \/ CheckJobs
            \/ WaitCleanup \/ FinishUnload

Next == (\E j \in Jobs : Client(j)) \/ IdleThread \/ (\E w \in Workers : Worker(w))
        \/ Unloader

(* Every thread that can take a step eventually does: the OS schedules     *)
(* each of them, and a timed wait eventually times out.                    *)
Fairness == /\ \A j \in Jobs : WF_vars(Client(j))
            /\ WF_vars(IdleThread)
            /\ \A w \in Workers : WF_vars(Worker(w))
            /\ WF_vars(Unloader)

Spec == Init /\ [][Next]_vars
FairSpec == Spec /\ Fairness

-----------------------------------------------------------------------------
Places == {"none", "top", "dec", "invoke", "notify", "deq", "twait", "check",
           "iwait", "exit", "inc", "gone"}

TypeOK ==
    /\ dstate \in [Domains -> {"loaded", "unloading", "unloaded"}]
    /\ tp_jobs \in [Domains -> Nat] /\ cleanup \in [Domains -> BOOLEAN]
    /\ csem \in [Domains -> 0..1]
    /\ q.first \in Nat /\ q.next \in q.first..Len(q.arr) /\ q.arr \in Seq(Cells)
    /\ job_added \in Nat /\ workers \in Nat /\ busy \in Nat
    /\ wpc \in [Workers -> Places] /\ wdata \in [Workers -> Cells]
    /\ idata \in Cells

(* Once remove_domain_jobs has cleared the queue, no job of the unloading  *)
(* domain is queued again: append_job tests the domain state under the     *)
(* same lock as clear_queue, after mono_thread_pool_add tested it without  *)
(* a lock.                                                                 *)
UnloadedJobsNotQueued ==
    upc \notin {"running", "clear"} =>
        \A i \in 1..Len(Pending(q)) : DomainOf[Pending(q)[i]] # UnloadDomain

(* Every queued job has a job_added release to wake a worker for it, or   *)
(* the caller that queued it is about to release one: start_thread_or_queue *)
(* releases after append_job, and a worker takes a release only together   *)
(* with a dequeue_job.                                                     *)
JobsHaveWakeups ==
    Len(Pending(q)) <= job_added + Cardinality({c \in Callers : cpc[c] = "app_rel"})

(* An EndInvoke on a call that has run returns: mono_async_invoke sets     *)
(* ares->completed outside the monitor and sets the wait event under it    *)
(* only if mono_thread_pool_finish installed one, so the two must not miss *)
(* each other.                                                             *)
EndInvokeReturns == \A j \in Jobs : completed[j] ~> cpc[j] = "done"
==============================================================================
