------------------------------- MODULE SocketIO -------------------------------
(***************************************************************************)
(* The socket asynchronous I/O pool of threadpool.c with the poll backend  *)
(* (socket_io_data.epoll_disabled, as on a build without HAVE_EPOLL):      *)
(* socket_io_init, socket_io_add_poll and its new_sem / pipe handshake     *)
(* with the poll thread socket_io_poll_main, process_io_event and          *)
(* start_io_thread_or_queue, mono_thread_pool_remove_socket, and the I/O   *)
(* worker loop async_invoke_io_thread over async_io_queue.                 *)
(*                                                                         *)
(* Each state (MonoSocketAsyncResult) is added by its own client thread.   *)
(* A critical section of io_lock or io_queue_lock and an Interlocked       *)
(* operation are one step each; the poll thread holds io_lock across its   *)
(* scan of the pollfd array, one slot per step.  A socket's readiness is   *)
(* fixed: poll reports the requested events in Ready and an error for a    *)
(* socket in Hungup, as poll (mono_poll) does for a level-triggered fd.    *)
(***************************************************************************)
EXTENDS Naturals, Sequences, FiniteSets, SequencesExt

CONSTANTS
    States,             \* the MonoSocketAsyncResults, one client thread each
    SockOf,             \* SockOf[s]: state->handle
    OpOf,               \* OpOf[s]: state->operation when it is added
    CloseSock,          \* the socket mono_thread_pool_remove_socket is called on
    Ready,              \* <<sock, "IN" or "OUT">>: the socket is ready for it
    Hungup,             \* sockets for which poll reports POLLHUP / POLLERR
    IOWorkers,          \* thread ids for async_invoke_io_thread threads
    MinIO,              \* mono_io_min_worker_threads
    MaxIO,              \* mono_io_max_worker_threads after mono_thread_pool_init
    MaxChoices,         \* completionPortThreads values SetMaxThreads is called with
    CpuCount,           \* mono_cpu_count ()
    InitialPollfdSize,  \* INITIAL_POLLFD_SIZE (slot 0 is the pipe)
    NoState             \* NULL

ASSUME /\ MinIO \in 1..MaxIO /\ CpuCount >= 1
       /\ \A c \in MaxChoices \cup {MaxIO} : c <= Cardinality(IOWorkers)

Socks == {SockOf[s] : s \in States}
NoFd == -1

VARIABLES
    inited,     \* socket_io_data.inited
    table,      \* sock_to_state: table[k] = <<>> when k has no list
    op,         \* op[s]: state->operation (remove_socket rewrites it)
    new_sem,    \* count of socket_io_data.new_sem (maximum 1)
    newpfd,     \* *socket_io_data.newpfd: [fd, events], or NoFd when NULL
    pipe,       \* bytes written to the pipe and not yet read
    pfds,       \* the poll thread's array, slots 1..allocated - 1
    pfds_mem,   \* the heap block pfds points to: "ok", or how it was freed
    maxfd,      \* its maxfd
    nsock,      \* its nsock
    si,         \* its loop index i while scanning
    ppc,        \* the poll thread's place: "none", "poll", "scan"
    apc,        \* apc[s]: the place of the client thread adding s
    cpc,        \* the place of the thread in remove_socket
    clist,      \* the list remove_socket took out of the table
    ioq,        \* async_io_queue, in dequeue order
    io_job_added, \* count of the io_job_added semaphore
    io_workers, \* io_worker_threads
    io_max,     \* mono_io_max_worker_threads
    setpc,      \* the place of the thread calling SetMaxThreads
    busy_io,    \* busy_io_worker_threads
    pending_io, \* pending_io_items
    wpc,        \* wpc[w]: the place of I/O worker w
    wdata,      \* wdata[w]: its data
    dispatched, \* dispatched[s]: times s was handed to start_io_thread_or_queue
    ran         \* ran[s]: times a worker ran s

vars == <<inited, table, op, new_sem, newpfd, pipe, pfds, pfds_mem, maxfd, nsock, si, ppc,
          apc, cpc, clist, ioq, io_job_added, io_workers, io_max, setpc, busy_io,
          pending_io, wpc, wdata, dispatched, ran>>
pollv == <<pfds, pfds_mem, maxfd, nsock, si, ppc>>
pool == <<ioq, io_job_added, io_workers, busy_io, pending_io, wpc, wdata,
          dispatched, ran, io_max, setpc>>

-----------------------------------------------------------------------------
(* get_event_from_state and get_events_from_list. *)
EventOfOp(o) ==
    IF o \in {"ACCEPT", "RECEIVE", "RECV_JUST_CALLBACK", "RECEIVEFROM", "READPIPE"}
    THEN "IN" ELSE "OUT"

EventsOf(L, o) == {EventOfOp(o[L[k]]) : k \in DOMAIN L}

(* process_io_event: the first state of the list waiting for event ev is  *)
(* removed and returned (NoState if there is none); o gives the states'   *)
(* operations.                                                            *)
ProcessIOEvent(L, ev, o) ==
    LET ks == {k \in DOMAIN L : EventOfOp(o[L[k]]) = ev}
        k == CHOOSE x \in ks : \A y \in ks : x <= y
    IN IF ks = {} THEN [list |-> L, st |-> NoState]
       ELSE [list |-> RemoveAt(L, k), st |-> L[k]]

(* The pool counters and queue a dispatch changes. *)
PoolRec == [ioq |-> ioq, sem |-> io_job_added, workers |-> io_workers,
            busy |-> busy_io, pending |-> pending_io, wpc |-> wpc,
            wdata |-> wdata, disp |-> dispatched]

FreeWorkers(p) == {w \in IOWorkers : p.wpc[w] \in {"none", "gone"}}

(* start_io_thread_or_queue, after process_io_event's pending_io_items++:  *)
(* a new thread takes the state while worker <= ++busy and worker < max,   *)
(* else it is appended to async_io_queue and io_job_added is released.     *)
StartIOThreadOrQueue(p, s) ==
    IF s = NoState THEN p
    ELSE LET q == [p EXCEPT !.pending = @ + 1, !.disp[s] = @ + 1]
         IN IF q.workers <= q.busy + 1 /\ q.workers < io_max
            THEN LET w == CHOOSE x \in FreeWorkers(q) : TRUE
                 IN [q EXCEPT !.busy = @ + 1, !.workers = @ + 1,
                              !.wpc[w] = "top", !.wdata[w] = s]
            ELSE [q EXCEPT !.ioq = Append(@, s), !.sem = @ + 1]

CommitPool(p) ==
    /\ ioq' = p.ioq /\ io_job_added' = p.sem /\ io_workers' = p.workers
    /\ busy_io' = p.busy /\ pending_io' = p.pending /\ wpc' = p.wpc
    /\ wdata' = p.wdata /\ dispatched' = p.disp
    /\ UNCHANGED <<ran, io_max, setpc>>

PollHoldsLock == ppc = "scan"

EmptySlot == [fd |-> NoFd, events |-> {}, revents |-> {}]

-----------------------------------------------------------------------------
(* A client thread: socket_io_add (state), with socket_io_init and         *)
(* socket_io_add_poll.                                                     *)

AGoto(s, l) == apc' = [apc EXCEPT ![s] = l]

(* socket_io_init.  Its unlocked test of inited is folded into the        *)
(* locked one, which has the same outcomes.  The first thread creates,     *)
(* under io_lock, the pipe, sock_to_state, new_sem (count 1), io_job_added *)
(* and the poll thread, whose pollfd array holds the pipe and empty slots. *)
AddInit(s) ==
    /\ apc[s] = "add" /\ ~PollHoldsLock
    /\ AGoto(s, "sem")
    /\ IF inited = 1
       THEN UNCHANGED <<inited, table, new_sem, pollv>>
       ELSE /\ inited' = 1
            /\ table' = [k \in Socks |-> <<>>]
            /\ new_sem' = 1
            /\ pfds' = [i \in 1..InitialPollfdSize - 1 |-> EmptySlot]
            /\ pfds_mem' = "ok"
            /\ maxfd' = 1 /\ nsock' = 0 /\ si' = 1
            /\ ppc' = "poll"
    /\ UNCHANGED <<op, newpfd, pipe, cpc, clist, pool>>

(* socket_io_add_poll: WaitForSingleObject (new_sem); newpfd is allocated  *)
(* on first use.                                                           *)
AddWaitSem(s) ==
    /\ apc[s] = "sem" /\ new_sem = 1
    /\ new_sem' = 0
    /\ AGoto(s, "lock")
    /\ UNCHANGED <<inited, table, op, newpfd, pipe, pollv, cpc, clist, pool>>

\* mutant: newpfd asks only for the new state's event
AddLockedStateEvent(s) ==
    /\ apc[s] = "lock" /\ ~PollHoldsLock
    /\ LET k == SockOf[s]
           L == Append(table[k], s)
       IN /\ table' = [table EXCEPT ![k] = L]
          /\ newpfd' = [fd |-> k, events |-> {EventOfOp(op[s])}]
    /\ AGoto(s, "write")
    /\ UNCHANGED <<inited, op, new_sem, pipe, pollv, cpc, clist, pool>>

(* Under io_lock: append the state to its socket's list and describe the   *)
(* socket's events in newpfd.                                              *)
AddLocked(s) ==
    /\ apc[s] = "lock" /\ ~PollHoldsLock
    /\ LET k == SockOf[s]
           L == Append(table[k], s)
       IN /\ table' = [table EXCEPT ![k] = L]
          /\ newpfd' = [fd |-> k, events |-> EventsOf(L, op)]
    /\ AGoto(s, "write")
    /\ UNCHANGED <<inited, op, new_sem, pipe, pollv, cpc, clist, pool>>

(* write (data->pipe [1], msg, 1) wakes the poll thread. *)
AddWritePipe(s) ==
    /\ apc[s] = "write"
    /\ pipe' = pipe + 1
    /\ AGoto(s, "done")
    /\ UNCHANGED <<inited, table, op, new_sem, newpfd, pollv, cpc, clist, pool>>

-----------------------------------------------------------------------------
(* mono_thread_pool_remove_socket (CloseSock). *)

RemoveCheck ==
    /\ cpc = "start"
    /\ cpc' = IF inited = 0 THEN "done" ELSE "lock"
    /\ UNCHANGED <<inited, table, op, new_sem, newpfd, pipe, pollv, apc, clist, pool>>

\* mutant: the list is looked up but left in the table
RemoveLockedKeepsList ==
    /\ cpc = "lock" /\ ~PollHoldsLock
    /\ clist' = table[CloseSock]
    /\ cpc' = "dispatch"
    /\ UNCHANGED <<inited, table, op, new_sem, newpfd, pipe, pollv, apc, pool>>

(* Under io_lock: the socket's list is looked up and removed. *)
RemoveLocked ==
    /\ cpc = "lock" /\ ~PollHoldsLock
    /\ clist' = table[CloseSock]
    /\ table' = [table EXCEPT ![CloseSock] = <<>>]
    /\ cpc' = "dispatch"
    /\ UNCHANGED <<inited, op, new_sem, newpfd, pipe, pollv, apc, pool>>

(* Outside the lock, one state per step: RECEIVE and SEND become the       *)
(* JUST_CALLBACK operations and the state, alone in its list, goes through *)
(* process_io_event for POLLIN and then POLLOUT.                           *)
JustCallback(o) ==
    CASE o = "RECEIVE" -> "RECV_JUST_CALLBACK"
      [] o = "SEND" -> "SEND_JUST_CALLBACK"
      [] OTHER -> o

RemoveDispatch ==
    /\ cpc = "dispatch"
    /\ IF clist = <<>>
       THEN cpc' = "done" /\ UNCHANGED <<op, clist, pool>>
       ELSE LET s == Head(clist)
                o == [op EXCEPT ![s] = JustCallback(@)]
                r1 == ProcessIOEvent(<<s>>, "IN", o)
                r2 == IF r1.list # <<>> THEN ProcessIOEvent(r1.list, "OUT", o)
                      ELSE [list |-> <<>>, st |-> NoState]
            IN /\ op' = o
               /\ clist' = Tail(clist)
               /\ CommitPool(StartIOThreadOrQueue(StartIOThreadOrQueue(PoolRec, r1.st), r2.st))
               /\ UNCHANGED cpc
    /\ UNCHANGED <<inited, table, new_sem, newpfd, pipe, pollv, apc>>

-----------------------------------------------------------------------------
(* The poll thread: socket_io_poll_main. *)

(* What mono_poll (poll) reports for a slot: the requested events the      *)
(* socket is ready for, and an error on a hung-up socket; nothing for a    *)
(* slot whose fd is -1.                                                    *)
PollRevents(sl) ==
    IF sl.fd = NoFd THEN {}
    ELSE {e \in sl.events : <<sl.fd, e>> \in Ready}
         \cup (IF sl.fd \in Hungup THEN {"ERR"} ELSE {})

(* The pipe handling when the pipe slot reports POLLIN: the first slot     *)
(* whose fd is -1 or newpfd's fd takes newpfd; the array is doubled when   *)
(* no slot is found.                                                       *)
NewSlotIndex(P) ==
    LET fit == {i \in DOMAIN P : P[i].fd = NoFd \/ P[i].fd = newpfd.fd}
    IN IF fit = {} THEN Len(P) + 1 ELSE CHOOSE i \in fit : \A j \in fit : i <= j

Grown(P) == IF NewSlotIndex(P) <= Len(P) THEN P
            ELSE P \o [i \in 1..Len(P) + 1 |-> EmptySlot]

(* oldfd = pfds; pfds = g_renew (mono_pollfd, oldfd, allocated);           *)
(* g_free (oldfd).  g_renew is realloc (eglib g_realloc): when it moves    *)
(* the block it has freed oldfd already and the g_free frees it twice;     *)
(* when it grows the block in place, pfds = oldfd and the g_free frees     *)
(* the array the thread goes on using.  Which happens is up to the         *)
(* allocator, so both outcomes are possible.                               *)
RenewedMem(P) ==
    IF NewSlotIndex(P) <= Len(P) THEN {pfds_mem}
    ELSE {"double_free", "freed_in_use"}

\* mutant: maxfd is left as it was
RaisedMaxfdKept(i) == maxfd

\* mutant: maxfd is raised one slot too far
RaisedMaxfdPastSlot(i) == IF i >= maxfd THEN i + 2 ELSE maxfd

(* if (i >= maxfd) maxfd = i + 1; *)
RaisedMaxfd(i) == IF i >= maxfd THEN i + 1 ELSE maxfd

(* mono_poll (pfds, maxfd, -1) blocks until some slot below maxfd or the   *)
(* pipe has an event; revents are set for the slots below maxfd.  A byte   *)
(* on the pipe installs newpfd (INIT_POLLFD clears its revents), releases  *)
(* new_sem and raises maxfd; the loop starts again when nothing else is    *)
(* ready, else io_lock is taken next.                                      *)
Poll ==
    /\ ppc = "poll"
    /\ LET P0 == [i \in DOMAIN pfds |->
                    IF i < maxfd THEN [pfds[i] EXCEPT !.revents = PollRevents(pfds[i])]
                    ELSE pfds[i]]
           n0 == Cardinality({i \in 1..maxfd - 1 : P0[i].revents # {}})
                 + (IF pipe > 0 THEN 1 ELSE 0)
           P1 == Grown(P0)
           i == NewSlotIndex(P0)
       IN /\ n0 > 0
          /\ IF pipe > 0
             THEN /\ pfds_mem' \in RenewedMem(P0)
                  /\ pfds' = [P1 EXCEPT ![i] = [fd |-> newpfd.fd,
                                                events |-> newpfd.events,
                                                revents |-> {}]]
                  /\ pipe' = pipe - 1
                  /\ new_sem' = 1
                  /\ maxfd' = RaisedMaxfd(i)
                  /\ nsock' = n0 - 1
                  /\ ppc' = IF n0 - 1 = 0 THEN "poll" ELSE "lock"
             ELSE /\ pfds' = P0 /\ nsock' = n0 /\ ppc' = "lock"
                  /\ UNCHANGED <<pipe, new_sem, maxfd, pfds_mem>>
    /\ UNCHANGED <<inited, table, op, newpfd, si, apc, cpc, clist, pool>>

(* EnterCriticalSection (&data->io_lock); inited is 1 (cleanup is not      *)
(* modelled); the scan starts at slot 1.                                   *)
ScanBegin ==
    /\ ppc = "lock"
    /\ ppc' = "scan" /\ si' = 1
    /\ UNCHANGED <<inited, table, op, new_sem, newpfd, pipe, pfds, pfds_mem, maxfd, nsock,
                   apc, cpc, clist, pool>>

(* One turn of the scan loop (i < maxfd && nsock > 0): a slot with events  *)
(* has its list looked up; POLLIN (or an error) dispatches the first state *)
(* waiting for input, POLLOUT (or an error) the first waiting for output.  *)
(* A list left non-empty is stored back and the slot polls for its events; *)
(* else the socket leaves sock_to_state and the slot is freed (maxfd drops *)
(* when it was the last one).                                              *)
ScanSlot ==
    /\ ppc = "scan" /\ si < maxfd /\ nsock > 0
    /\ si' = si + 1
    /\ LET sl == pfds[si]
           k == sl.fd
           L0 == table[k]
           r1 == IF L0 # <<>> /\ sl.revents \cap {"IN", "ERR"} # {}
                 THEN ProcessIOEvent(L0, "IN", op) ELSE [list |-> L0, st |-> NoState]
           r2 == IF r1.list # <<>> /\ sl.revents \cap {"OUT", "ERR"} # {}
                 THEN ProcessIOEvent(r1.list, "OUT", op)
                 ELSE [list |-> r1.list, st |-> NoState]
       IN IF k = NoFd \/ sl.revents = {}
          THEN UNCHANGED <<table, pfds, maxfd, nsock, pool>>
          ELSE /\ nsock' = nsock - 1
               /\ CommitPool(StartIOThreadOrQueue(StartIOThreadOrQueue(PoolRec, r1.st), r2.st))
               /\ IF r2.list # <<>>
                  THEN /\ table' = [table EXCEPT ![k] = r2.list]
                       /\ pfds' = [pfds EXCEPT ![si].events = EventsOf(r2.list, op)]
                       /\ UNCHANGED maxfd
                  ELSE /\ table' = [table EXCEPT ![k] = <<>>]
                       /\ pfds' = [pfds EXCEPT ![si].fd = NoFd]
                       /\ maxfd' = IF si = maxfd - 1 THEN maxfd - 1 ELSE maxfd
    /\ UNCHANGED <<inited, op, new_sem, newpfd, pipe, pfds_mem, ppc, apc, cpc, clist>>

(* LeaveCriticalSection (&data->io_lock) and back to mono_poll. *)
ScanEnd ==
    /\ ppc = "scan" /\ ~(si < maxfd /\ nsock > 0)
    /\ ppc' = "poll"
    /\ UNCHANGED <<inited, table, op, new_sem, newpfd, pipe, pfds, pfds_mem, maxfd, nsock, si,
                   apc, cpc, clist, pool>>

-----------------------------------------------------------------------------
(* The I/O workers: async_invoke_io_thread.  Every state's domain is       *)
(* loaded and threadpool_jobs_dec returns FALSE (see the README).          *)

WGoto(w, l) == wpc' = [wpc EXCEPT ![w] = l]
others == <<inited, table, op, new_sem, newpfd, pipe, pollv, apc, cpc, clist,
           io_max, setpc>>

(* pending_io_items--, the receive or send icall, mono_async_invoke, then  *)
(* busy_io_worker_threads--.                                               *)
IOInvoke(w) ==
    /\ wpc[w] = "top"
    /\ LET s == wdata[w]
       IN /\ pending_io' = pending_io - 1
          /\ ran' = [ran EXCEPT ![s] = @ + 1]
    /\ busy_io' = busy_io - 1
    /\ WGoto(w, "deq")
    /\ UNCHANGED <<others, ioq, io_job_added, io_workers, wdata, dispatched>>

(* data = dequeue_job (&io_queue_lock, &async_io_queue) *)
Dequeued(w) ==
    IF ioq = <<>> THEN /\ wdata' = [wdata EXCEPT ![w] = NoState] /\ UNCHANGED ioq
    ELSE /\ wdata' = [wdata EXCEPT ![w] = Head(ioq)] /\ ioq' = Tail(ioq)

IODequeue(w) ==
    /\ wpc[w] = "deq"
    /\ Dequeued(w)
    /\ WGoto(w, IF ioq # <<>> THEN "inc" ELSE "twait")
    /\ UNCHANGED <<others, io_job_added, io_workers, busy_io, pending_io, dispatched, ran>>

(* WaitForSingleObjectEx (io_job_added, timeout) signalled, dequeue_job;   *)
(* the loop goes on while there is no data.                                *)
IOTimedWaitJob(w) ==
    /\ wpc[w] = "twait" /\ io_job_added > 0
    /\ io_job_added' = io_job_added - 1
    /\ Dequeued(w)
    /\ WGoto(w, IF ioq # <<>> THEN "inc" ELSE "twait")
    /\ UNCHANGED <<others, io_workers, busy_io, pending_io, dispatched, ran>>

(* THREAD_EXIT_TIMEOUT elapsed. *)
IOTimedWaitTimeout(w) ==
    /\ wpc[w] = "twait"
    /\ WGoto(w, "check")
    /\ UNCHANGED <<others, ioq, io_job_added, io_workers, busy_io, pending_io,
                   wdata, dispatched, ran>>

(* workers_io and min_io are read; a thread beyond the minimum exits. *)
IOCheckWorkers(w) ==
    /\ wpc[w] = "check"
    /\ WGoto(w, IF io_workers <= MinIO THEN "iwait" ELSE "exit")
    /\ UNCHANGED <<others, ioq, io_job_added, io_workers, busy_io, pending_io,
                   wdata, dispatched, ran>>

(* WaitForSingleObjectEx (io_job_added, INFINITE), dequeue_job and the     *)
(* counts read again.                                                      *)
IOIdleWaitJob(w) ==
    /\ wpc[w] = "iwait" /\ io_job_added > 0
    /\ io_job_added' = io_job_added - 1
    /\ Dequeued(w)
    /\ WGoto(w, CASE ioq # <<>> -> "inc"
                  [] io_workers <= MinIO -> "iwait"
                  [] OTHER -> "exit")
    /\ UNCHANGED <<others, io_workers, busy_io, pending_io, dispatched, ran>>

IOWorkerExit(w) ==
    /\ wpc[w] = "exit"
    /\ io_workers' = io_workers - 1
    /\ WGoto(w, "gone")
    /\ UNCHANGED <<others, ioq, io_job_added, busy_io, pending_io, wdata, dispatched, ran>>

IOBusyInc(w) ==
    /\ wpc[w] = "inc"
    /\ busy_io' = busy_io + 1
    /\ WGoto(w, "top")
    /\ UNCHANGED <<others, ioq, io_job_added, io_workers, pending_io, wdata, dispatched, ran>>

-----------------------------------------------------------------------------
(* ves_icall_System_Threading_ThreadPool_SetMaxThreads, called once: a     *)
(* value below the minimum or the cpu count is refused.  The async pool's  *)
(* mono_max_worker_threads it also sets is not modelled here.              *)
SetMaxThreads ==
    /\ setpc = "start"
    /\ \E c \in MaxChoices :
          io_max' = IF c < MinIO \/ c < CpuCount THEN io_max ELSE c
    /\ setpc' = "done"
    /\ UNCHANGED <<inited, table, op, new_sem, newpfd, pipe, pollv, apc, cpc, clist,
                   ioq, io_job_added, io_workers, busy_io, pending_io, wpc, wdata,
                   dispatched, ran>>

-----------------------------------------------------------------------------
Init ==
    /\ inited = 0
    /\ table = [k \in Socks |-> <<>>]
    /\ op = OpOf
    /\ new_sem = 0
    /\ newpfd = [fd |-> NoFd, events |-> {}]
    /\ pipe = 0
    /\ pfds = <<>> /\ pfds_mem = "ok" /\ maxfd = 1 /\ nsock = 0 /\ si = 1
    /\ ppc = "none"
    /\ apc = [s \in States |-> "add"]
    /\ cpc = "start"
    /\ clist = <<>>
    /\ ioq = <<>> /\ io_job_added = 0 /\ io_workers = 0 /\ busy_io = 0
    /\ io_max = MaxIO /\ setpc = "start"
    /\ pending_io = 0
    /\ wpc = [w \in IOWorkers |-> "none"]
    /\ wdata = [w \in IOWorkers |-> NoState]
    /\ dispatched = [s \in States |-> 0]
    /\ ran = [s \in States |-> 0]

Client(s) == AddInit(s) \/ AddWaitSem(s) \/ AddLocked(s)
             \/ AddWritePipe(s)
Closer == RemoveCheck \/ RemoveLocked \/ RemoveDispatch
PollThread == Poll \/ ScanBegin \/ ScanSlot \/ ScanEnd
IOWorker(w) == IOInvoke(w) \/ IODequeue(w) \/ IOTimedWaitJob(w) \/ IOTimedWaitTimeout(w)
               \/ IOCheckWorkers(w) \/ IOIdleWaitJob(w) \/ IOWorkerExit(w) \/ IOBusyInc(w)

Next == (\E s \in States : Client(s)) \/ Closer \/ PollThread
        \/ (\E w \in IOWorkers : IOWorker(w)) \/ SetMaxThreads

(* The client threads and the poll thread are scheduled: each eventually  *)
(* takes a step it stays able to take.  Nothing is assumed of the I/O      *)
(* workers, of the thread in remove_socket or of the sockets beyond Ready: *)
(* dispatching a state depends on none of them.                            *)
Fairness == /\ \A s \in States : WF_vars(Client(s))
            /\ WF_vars(PollThread)

Spec == Init /\ [][Next]_vars
FairSpec == Spec /\ Fairness

-----------------------------------------------------------------------------
Slot == [fd : Socks \cup {NoFd}, events : SUBSET {"IN", "OUT"},
         revents : SUBSET {"IN", "OUT", "ERR"}]

TypeOK ==
    /\ inited \in {0, 1} /\ new_sem \in {0, 1} /\ pipe \in Nat
    /\ table \in [Socks -> Seq(States)] /\ clist \in Seq(States)
    /\ pfds \in Seq(Slot) /\ maxfd \in 1..Len(pfds) + 1
    /\ pfds_mem \in {"ok", "double_free", "freed_in_use"}
    /\ ioq \in Seq(States) /\ io_workers \in 0..Cardinality(IOWorkers)
    /\ wdata \in [IOWorkers -> States \cup {NoState}]
    /\ dispatched \in [States -> Nat] /\ ran \in [States -> Nat]

Listed(s) == \/ \E k \in Socks : s \in ToSet(table[k])
             \/ s \in ToSet(clist)

(* A state is handed to start_io_thread_or_queue at most once, and never   *)
(* while it is still in sock_to_state or in remove_socket's list: the poll *)
(* thread dispatches from the table under io_lock while remove_socket      *)
(* takes a socket's whole list out of the table under io_lock and          *)
(* dispatches it after the unlock, so the two must never both hold it.     *)
DispatchedAtMostOnce ==
    \A s \in States : dispatched[s] <= 1 /\ (dispatched[s] = 1 => ~Listed(s))

(* The poll thread's array covers sock_to_state: every event a socket's    *)
(* list waits for is polled for by a slot of that socket below maxfd, or a *)
(* socket_io_add_poll has put it in newpfd and the pipe byte that makes    *)
(* the poll thread install newpfd is written or about to be.  A slot       *)
(* search that misses a slot, an install past maxfd or a newpfd that lists *)
(* too few events leaves a state no poll will ever report.                 *)
PolledEvents(k) == UNION {pfds[i].events : i \in {j \in 1..maxfd - 1 : pfds[j].fd = k}}

HandshakeCovers(k) ==
    /\ newpfd.fd = k /\ EventsOf(table[k], op) \subseteq newpfd.events
    /\ (pipe > 0 \/ \E s \in States : apc[s] = "write")

PollSetCoversTable ==
    \A k \in Socks : table[k] # <<>> =>
        EventsOf(table[k], op) \subseteq PolledEvents(k) \/ HandshakeCovers(k)

(* Every state added for an event its socket is ready for (or on a hung-up *)
(* socket) eventually leaves sock_to_state: the poll thread dispatches it  *)
(* or remove_socket takes it.                                              *)
IsReady(s) == <<SockOf[s], EventOfOp(op[s])>> \in Ready \/ SockOf[s] \in Hungup

ReadyStatesDispatched ==
    \A s \in States : (IsReady(s) /\ \E k \in Socks : s \in ToSet(table[k]))
                          ~> \A k \in Socks : s \notin ToSet(table[k])


(* The poll thread's pollfd array is a live heap block for as long as the  *)
(* thread uses it: growing it when no slot is free for a new socket never  *)
(* frees a block twice or frees the block pfds still points to.            *)
PollArrayNeverFreedInUse == pfds_mem = "ok"

====
