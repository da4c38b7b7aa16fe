--------------------------- MODULE SgenStopWorld ---------------------------
(***************************************************************************)
(* The signal-based stop-the-world protocol of sgen-gc.c: the thread that *)
(* takes the GC lock to collect (mono_gc_collect) suspends every other     *)
(* registered thread with the suspend signal (stop_world,                  *)
(* thread_handshake), waits for one post per thread on the                 *)
(* suspend_ack semaphore (wait_for_suspend_ack), restarts and re-suspends  *)
(* threads that stopped inside the managed allocator                       *)
(* (restart_threads_until_none_in_managed_allocator), collects, and        *)
(* restarts the world (restart_world).  The other side is the signal       *)
(* handlers (suspend_handler, restart_handler), thread registration, and *)
(* thread creation through mono_gc_pthread_create, whose caller waits     *)
(* until the new thread has registered itself in gc_start_thread.         *)
(*                                                                         *)
(* Standard signals do not queue: a pending signal is one bit per thread.  *)
(* The suspend handler runs with every signal blocked (sa_mask is full)    *)
(* except inside sigsuspend, whose mask lets only the restart signal in.   *)
(***************************************************************************)
EXTENDS Naturals, FiniteSets

CONSTANTS
    Threads,     \* the threads of the process
    MaxGCs,      \* collections in one behaviour
    MaxAllocs,   \* managed-allocator entries per thread in one behaviour
    NoThread,    \* the GC lock is free
    Attached     \* the threads that start outside mono_gc_pthread_create

ASSUME NoThread \notin Threads /\ Attached \subseteq Threads

VARIABLES
    registered,  \* the threads in thread_table
    lock,        \* the holder of the GC lock, the collecting thread
    cpc,         \* where the collecting thread is
    need,        \* acks wait_for_suspend_ack still waits for
    restarting,  \* the threads restarted in this round of the allocator loop
    sem,         \* the value of suspend_ack_semaphore
    mpc,         \* "alloc" while in the managed allocator, else "mutator"
    hpc,         \* "none", or "sigsuspend" while parked in suspend_handler
    pend_suspend, pend_restart, \* pending (undelivered) signals
    stopped_ip,  \* info->stopped_ip: "null", "alloc" or "other"
    stack_start, \* info->stack_start is set
    allocs, gcs, \* bounds on allocator entries and collections
    creating,    \* the thread a mono_gc_pthread_create caller waits for
    tpc,         \* where a thread is in gc_start_thread
    start_sem    \* the value of the new thread's start_info->registered

vars == <<registered, lock, cpc, need, restarting, sem, mpc, hpc,
          pend_suspend, pend_restart, stopped_ip, stack_start, allocs, gcs,
          creating, tpc, start_sem>>

Creation == <<creating, tpc, start_sem>>

\* a thread blocked in sem_wait inside mono_gc_pthread_create
Creating(t) == creating[t] # NoThread

Others == registered \ {lock}

\* A thread runs its own code: it is not inside a signal handler.
Running(t) == hpc[t] = "none"

------------------------------------------------------------------------------
(* The collecting thread. *)

\* mono_gc_collect: LOCK_GC, then stop_world: update_current_thread_stack
\* records the collector's own stack, and thread_handshake sends the
\* suspend signal to every other registered thread.
StopWorld(t) ==
    /\ lock = NoThread /\ t \in registered /\ Running(t) /\ mpc[t] = "mutator"
    /\ ~Creating(t) /\ gcs < MaxGCs
    /\ lock' = t
    /\ stack_start' = [stack_start EXCEPT ![t] = TRUE]
    /\ pend_suspend' = [u \in Threads |-> pend_suspend[u] \/ u \in registered \ {t}]
    /\ need' = Cardinality(registered \ {t})
    /\ cpc' = "suspend_wait"
    /\ UNCHANGED <<registered, restarting, sem, mpc, hpc, pend_restart,
                   stopped_ip, allocs, gcs, Creation>>

\* One sem_wait of wait_for_suspend_ack.
SemWait ==
    /\ cpc \in {"suspend_wait", "loop_restart_wait", "loop_suspend_wait", "restart_wait"}
    /\ need > 0 /\ sem > 0
    /\ sem' = sem - 1 /\ need' = need - 1
    /\ UNCHANGED <<registered, lock, cpc, restarting, mpc, hpc, pend_suspend,
                   pend_restart, stopped_ip, stack_start, allocs, gcs, Creation>>

\* restart_threads_until_none_in_managed_allocator, one round: restart the
\* threads without a stack_start or stopped in the allocator, and clear
\* stopped_ip of the others; when there are none, the world is stopped.
ToRestartAll == Others
ToRestart == {u \in Others : ~stack_start[u] \/ stopped_ip[u] = "alloc"}

RestartLoopKeepIp ==
    /\ cpc = "suspend_wait" \/ cpc = "loop_suspend_wait"
    /\ need = 0
    /\ restarting' = ToRestart
    /\ pend_restart' = [u \in Threads |-> pend_restart[u] \/ u \in ToRestart]
    /\ need' = Cardinality(ToRestart)
    /\ cpc' = IF ToRestart = {} THEN "collect" ELSE "loop_restart_wait"
    /\ UNCHANGED <<registered, lock, sem, mpc, hpc, pend_suspend, stack_start,
                   allocs, gcs, stopped_ip, Creation>>

RestartLoop ==
    /\ cpc = "suspend_wait" \/ cpc = "loop_suspend_wait"
    /\ need = 0
    /\ restarting' = ToRestart
    /\ pend_restart' = [u \in Threads |-> pend_restart[u] \/ u \in ToRestart]
    /\ stopped_ip' = [u \in Threads |-> IF u \in Others \ ToRestart THEN "null"
                                        ELSE stopped_ip[u]]
    /\ need' = Cardinality(ToRestart)
    /\ cpc' = IF ToRestart = {} THEN "collect" ELSE "loop_restart_wait"
    /\ UNCHANGED <<registered, lock, sem, mpc, hpc, pend_suspend, stack_start,
                   allocs, gcs, Creation>>

\* After the restarted threads have acknowledged and the collector has
\* yielded or slept, it suspends again the threads whose stopped_ip is set.
Resuspend ==
    /\ cpc = "loop_restart_wait" /\ need = 0
    /\ pend_suspend' = [u \in Threads |->
                          pend_suspend[u] \/ (u \in Others /\ stopped_ip[u] # "null")]
    /\ need' = Cardinality(restarting)
    /\ cpc' = "loop_suspend_wait"
    /\ UNCHANGED <<registered, lock, restarting, sem, mpc, hpc, pend_restart,
                   stopped_ip, stack_start, allocs, gcs, Creation>>

\* collect_nursery runs (SgenMinorGC's collection step), then
\* restart_world clears every stack_start and sends the restart signal to
\* every other registered thread.
CollectAndRestart ==
    /\ cpc = "collect"
    /\ gcs' = gcs + 1
    /\ stack_start' = [u \in Threads |-> FALSE]
    /\ pend_restart' = [u \in Threads |-> pend_restart[u] \/ u \in Others]
    /\ need' = Cardinality(Others)
    /\ cpc' = "restart_wait"
    /\ UNCHANGED <<registered, lock, restarting, sem, mpc, hpc, pend_suspend,
                   stopped_ip, allocs, Creation>>

\* UNLOCK_GC once every restarted thread has acknowledged.
Unlock ==
    /\ cpc = "restart_wait" /\ need = 0
    /\ lock' = NoThread /\ cpc' = "idle"
    /\ UNCHANGED <<registered, need, restarting, sem, mpc, hpc, pend_suspend,
                   pend_restart, stopped_ip, stack_start, allocs, gcs, Creation>>

------------------------------------------------------------------------------
(* The other threads. *)

\* suspend_handler up to sigsuspend: record stopped_ip and, the stack
\* pointer being within the thread's stack, stack_start; sem_post; park.
DeliverSuspendNoIp(t) ==
    /\ pend_suspend[t] /\ Running(t)
    /\ pend_suspend' = [pend_suspend EXCEPT ![t] = FALSE]
    /\ stopped_ip' = [stopped_ip EXCEPT ![t] = "other"]
    /\ stack_start' = [stack_start EXCEPT ![t] = TRUE]
    /\ sem' = sem + 1
    /\ hpc' = [hpc EXCEPT ![t] = "sigsuspend"]
    /\ UNCHANGED <<registered, lock, cpc, need, restarting, mpc, pend_restart,
                   allocs, gcs, Creation>>

DeliverSuspend(t) ==
    /\ pend_suspend[t] /\ Running(t)
    /\ pend_suspend' = [pend_suspend EXCEPT ![t] = FALSE]
    /\ stopped_ip' = [stopped_ip EXCEPT ![t] = IF mpc[t] = "alloc" THEN "alloc" ELSE "other"]
    /\ stack_start' = [stack_start EXCEPT ![t] = TRUE]
    /\ sem' = sem + 1
    /\ hpc' = [hpc EXCEPT ![t] = "sigsuspend"]
    /\ UNCHANGED <<registered, lock, cpc, need, restarting, mpc, pend_restart,
                   allocs, gcs, Creation>>

\* restart_handler sets info->signal; if it interrupted the sigsuspend of
\* suspend_handler, the loop there ends, posts the semaphore and returns.
DeliverRestart(t) ==
    /\ pend_restart[t] /\ hpc[t] \in {"none", "sigsuspend"}
    /\ pend_restart' = [pend_restart EXCEPT ![t] = FALSE]
    /\ hpc' = [hpc EXCEPT ![t] = "none"]
    /\ sem' = IF hpc[t] = "sigsuspend" THEN sem + 1 ELSE sem
    /\ UNCHANGED <<registered, lock, cpc, need, restarting, mpc, pend_suspend,
                   stopped_ip, stack_start, allocs, gcs, Creation>>

\* A call of the managed allocator (create_allocator's method): the
\* thread's IP is in the allocator until it has stored the vtable.
EnterAlloc(t) ==
    /\ t \in registered /\ Running(t) /\ mpc[t] = "mutator" /\ lock # t
    /\ ~Creating(t) /\ allocs[t] < MaxAllocs
    /\ mpc' = [mpc EXCEPT ![t] = "alloc"]
    /\ allocs' = [allocs EXCEPT ![t] = allocs[t] + 1]
    /\ UNCHANGED <<registered, lock, cpc, need, restarting, sem, hpc, pend_suspend,
                   pend_restart, stopped_ip, stack_start, gcs, Creation>>

LeaveAlloc(t) ==
    /\ Running(t) /\ mpc[t] = "alloc"
    /\ mpc' = [mpc EXCEPT ![t] = "mutator"]
    /\ UNCHANGED <<registered, lock, cpc, need, restarting, sem, hpc, pend_suspend,
                   pend_restart, stopped_ip, stack_start, allocs, gcs, Creation>>

\* gc_register_current_thread, called with the GC lock held: a new
\* SgenThreadInfo with no stack_start and no stopped_ip in thread_table
Register(t) ==
    /\ registered' = registered \cup {t}
    /\ stack_start' = [stack_start EXCEPT ![t] = FALSE]
    /\ stopped_ip' = [stopped_ip EXCEPT ![t] = "null"]

\* mono_gc_register_thread: a thread that is not in thread_table (one the
\* runtime attaches, or one that has unregistered) registers under LOCK_GC
RegisterThread(t) ==
    /\ t \notin registered /\ lock = NoThread
    /\ \/ t \in Attached /\ tpc[t] = "none"
       \/ tpc[t] = "run"
    /\ Register(t)
    /\ UNCHANGED <<lock, cpc, need, restarting, sem, mpc, hpc, pend_suspend,
                   pend_restart, allocs, gcs, Creation>>

\* mono_gc_pthread_create: sem_init the registered semaphore to 0,
\* pthread_create the thread at gc_start_thread, and wait on the semaphore
PthreadCreate(c) ==
    /\ c \in registered /\ Running(c) /\ mpc[c] = "mutator" /\ lock # c
    /\ ~Creating(c)
    /\ \E t \in Threads \ registered :
          /\ t \notin Attached /\ tpc[t] = "none"
          /\ creating' = [creating EXCEPT ![c] = t]
          /\ tpc' = [tpc EXCEPT ![t] = "lock"]
          /\ start_sem' = [start_sem EXCEPT ![t] = 0]
    /\ UNCHANGED <<registered, lock, cpc, need, restarting, sem, mpc, hpc,
                   pend_suspend, pend_restart, stopped_ip, stack_start, allocs, gcs>>

\* gc_start_thread: LOCK_GC, gc_register_current_thread, UNLOCK_GC
GcStartThreadRegister(t) ==
    /\ tpc[t] = "lock" /\ lock = NoThread
    /\ Register(t)
    /\ tpc' = [tpc EXCEPT ![t] = "post"]
    /\ UNCHANGED <<lock, cpc, need, restarting, sem, mpc, hpc, pend_suspend,
                   pend_restart, allocs, gcs, creating, start_sem>>

\* mutation of GcStartThreadPost: the thread goes on to start_func
\* without posting the semaphore
GcStartThreadNoPost(t) ==
    /\ tpc[t] = "post" /\ Running(t)
    /\ tpc' = [tpc EXCEPT ![t] = "run"]
    /\ UNCHANGED <<registered, lock, cpc, need, restarting, sem, mpc, hpc,
                   pend_suspend, pend_restart, stopped_ip, stack_start, allocs,
                   gcs, creating, start_sem>>

\* gc_start_thread: sem_post (&start_info->registered), then start_func
GcStartThreadPost(t) ==
    /\ tpc[t] = "post" /\ Running(t)
    /\ start_sem' = [start_sem EXCEPT ![t] = @ + 1]
    /\ tpc' = [tpc EXCEPT ![t] = "run"]
    /\ UNCHANGED <<registered, lock, cpc, need, restarting, sem, mpc, hpc,
                   pend_suspend, pend_restart, stopped_ip, stack_start, allocs,
                   gcs, creating>>

\* mono_gc_pthread_create: sem_wait returns (it is retried when a signal
\* handler interrupts it), sem_destroy, free, return
PthreadCreateReturn(c) ==
    /\ Creating(c) /\ Running(c)
    /\ start_sem[creating[c]] > 0
    /\ start_sem' = [start_sem EXCEPT ![creating[c]] = @ - 1]
    /\ creating' = [creating EXCEPT ![c] = NoThread]
    /\ UNCHANGED <<registered, lock, cpc, need, restarting, sem, mpc, hpc,
                   pend_suspend, pend_restart, stopped_ip, stack_start, allocs,
                   gcs, tpc>>

\* unregister_thread (the thread-exit destructor) under the GC lock.
UnregisterThread(t) ==
    /\ t \in registered /\ Running(t) /\ mpc[t] = "mutator" /\ lock = NoThread
    /\ ~Creating(t) /\ tpc[t] \in {"none", "run"}
    /\ registered' = registered \ {t}
    /\ UNCHANGED <<lock, cpc, need, restarting, sem, mpc, hpc, pend_suspend,
                   pend_restart, stopped_ip, stack_start, allocs, gcs, Creation>>

------------------------------------------------------------------------------

Init ==
    /\ registered = {}
    /\ lock = NoThread /\ cpc = "idle" /\ need = 0 /\ restarting = {} /\ sem = 0
    /\ mpc = [t \in Threads |-> "mutator"]
    /\ hpc = [t \in Threads |-> "none"]
    /\ pend_suspend = [t \in Threads |-> FALSE]
    /\ pend_restart = [t \in Threads |-> FALSE]
    /\ stopped_ip = [t \in Threads |-> "null"]
    /\ stack_start = [t \in Threads |-> FALSE]
    /\ allocs = [t \in Threads |-> 0]
    /\ gcs = 0
    /\ creating = [t \in Threads |-> NoThread]
    /\ tpc = [t \in Threads |-> "none"]
    /\ start_sem = [t \in Threads |-> 0]

Collector == SemWait \/ RestartLoop \/ Resuspend \/ CollectAndRestart \/ Unlock

Next ==
    \/ \E t \in Threads : StopWorld(t)
    \/ Collector
    \/ \E t \in Threads :
          \/ DeliverSuspend(t) \/ DeliverRestart(t)
          \/ EnterAlloc(t) \/ LeaveAlloc(t)
          \/ RegisterThread(t) \/ UnregisterThread(t)
          \/ PthreadCreate(t) \/ PthreadCreateReturn(t)
          \/ GcStartThreadRegister(t) \/ GcStartThreadPost(t)

\* The kernel delivers a pending, unblocked signal to a thread that can
\* run, and the collector runs while it holds the lock.  A restarted thread
\* leaves the allocator eventually: the collector sleeps longer in every
\* round of its restart loop (sleep_duration += 10), so the few
\* instructions left in the allocator are run in some round.  A new thread
\* and a caller of mono_gc_pthread_create that can run do run (the lock
\* they need is free between the bounded collections).
Fairness ==
    /\ WF_vars(Collector)
    /\ \A t \in Threads :
          /\ WF_vars(DeliverSuspend(t)) /\ WF_vars(DeliverRestart(t))
          /\ SF_vars(LeaveAlloc(t))
          /\ WF_vars(GcStartThreadRegister(t)) /\ WF_vars(GcStartThreadPost(t))
          /\ WF_vars(PthreadCreateReturn(t))

Spec == Init /\ [][Next]_vars
FairSpec == Spec /\ Fairness

------------------------------------------------------------------------------
(* Properties. *)

TypeOK ==
    /\ registered \subseteq Threads
    /\ lock \in Threads \cup {NoThread}
    /\ cpc \in {"idle", "suspend_wait", "loop_restart_wait", "loop_suspend_wait",
               "collect", "restart_wait"}
    /\ need \in Nat /\ sem \in Nat /\ restarting \subseteq Threads
    /\ mpc \in [Threads -> {"mutator", "alloc"}]
    /\ hpc \in [Threads -> {"none", "sigsuspend"}]
    /\ pend_suspend \in [Threads -> BOOLEAN] /\ pend_restart \in [Threads -> BOOLEAN]
    /\ stopped_ip \in [Threads -> {"null", "alloc", "other"}]
    /\ stack_start \in [Threads -> BOOLEAN]
    /\ creating \in [Threads -> Threads \cup {NoThread}]
    /\ tpc \in [Threads -> {"none", "lock", "post", "run"}]
    /\ start_sem \in [Threads -> 0 .. 1]

\* When collect_nursery runs, every other registered thread is parked in
\* suspend_handler with its stack range recorded, and none is inside the
\* managed allocator between bumping tlab_next and storing the vtable:
\* what the conservative scan and the nursery walk rely on.
WorldStoppedForCollection ==
    cpc = "collect" =>
        \A u \in Others : hpc[u] = "sigsuspend" /\ stack_start[u] /\ mpc[u] = "mutator"

\* The suspend_ack semaphore never holds more posts than the collector is
\* waiting for: a stale post would let a later wait_for_suspend_ack return
\* before the thread it counts has stopped or restarted.
SemaphoreBalanced == sem <= need

\* A mono_gc_pthread_create caller returns: the new thread gets the GC
\* lock between collections, registers itself and posts the semaphore,
\* even if a collection suspends the caller or the new thread meanwhile.
ThreadCreationCompletes ==
    \A c \in Threads : Creating(c) ~> ~Creating(c)

\* Every collection ends: the world is stopped, the allocator loop ends,
\* the world restarts and the GC lock is released.
CollectionCompletes == (lock # NoThread) ~> (lock = NoThread)
==============================================================================
