# TLA+ models of the Mono SGen collector and thread pool (Unity 2018.2.8)

This directory holds the verification project for two files:

- `src/Unity-2018.2.8/mono/metadata/sgen-gc.c`: the SGen generational copying collector;
- `src/Unity-2018.2.8/mono/metadata/threadpool.c`: the thread pool for asynchronous delegate calls and asynchronous socket I/O.

The project has three kinds of file:

- TLA+ modules, one per component;
- `MC_*` modules and `.cfg` files that instantiate the modules for TLC;
- `PROJECT.json`, which records:
  - every component, and its status;
  - the runs and the mutants;
  - the map from each definition to the C lines it models;
  - the findings;
  - the hazards.

Every definition is written from the C source. The map names the lines a
reviewer should diff it against.

## 1. The system and how its parts interact

SGen has a nursery and an old generation:

- **Nursery.** New objects are bump-allocated in it.
- **Old generation.** Sections with a bump cursor (`next_data` / `to_space`).

Three more allocators sit beside them:

- **Pinned chunks.** Pages split into size classes. They serve `mono_gc_alloc_pinned_obj` and the collector's own `get_internal_mem`.
- **Large-object space.** Holds objects larger than 64 KB.
- **Registered roots.** Three hash tables of root records.

The parts interact as follows:

- **Mutators.** They allocate (`mono_gc_alloc_obj`). They store references through the write barriers, which log old→young locations in per-thread remembered sets.
- **Weak references.** Mutators register finalizers and disappearing links.
- **Collections.** `mono_gc_collect` takes the GC lock and stops the world with signals (`stop_world`, `suspend_handler`, `restart_world`). Then `collect_nursery` runs:
  1. pin from the stacks;
  2. replay the remsets;
  3. copy survivors;
  4. `finish_gray_stack`: finalizers, then links;
  5. rebuild the nursery fragments.
- **Finalizer thread.** It drains the fin-ready list under the lock and runs finalizers outside it.
- **Appdomain unload.** The runtime calls:
  - `mono_gc_finalizers_for_domain`;
  - `mono_gc_clear_domain`, which sweeps the domain's objects out of every area;
  - `mono_thread_pool_remove_domain_jobs` in `threadpool.c`, which drops the domain's queued jobs.
- **Socket I/O.** An asynchronous socket call (`mono_thread_pool_add` → `socket_io_add`) registers a state in `sock_to_state` under `io_lock`. It then hands the socket to the poll thread through the single `newpfd`, guarded by the `new_sem` semaphore, and wakes the thread with a byte on a pipe. The poll thread polls all sockets. Under `io_lock`, it passes each state whose event is ready to `start_io_thread_or_queue`, which starts an I/O worker or queues the state on `async_io_queue`. `mono_thread_pool_remove_socket` (socket close) takes a socket's whole list out of the table and dispatches it as callbacks.

## 2. Modules

| Module | Models | Concurrency |
|---|---|---|
| `SgenNurseryPinning` | the nursery as address ranges: TLABs, direct allocation, fragments, degraded mode, and conservative pinning inside `collect_nursery` | one step per allocation (under `LOCK_GC`) and per collection (world stopped) |
| `SgenMinorGC` | allocation, degraded mode, the write barriers, finalization, disappearing links and `collect_nursery` | threads interleave; a collection is one step (the world is stopped) |
| `SgenStopWorld` | the stop-the-world handshake, thread registration, exit and creation | the collector, the threads and signal delivery interleave |
| `SgenMajorGC` | `major_collection` with its callers `mono_gc_collect (1)` and `alloc_large_inner`, over nursery, section, large and pinned-chunk objects | mutator steps interleave; a collection is one step (the world is stopped) |
| `SgenPinnedChunks` | the pinned-chunk free-list allocator and the major collection's pinned sweep | one step per entry point (all run under `LOCK_GC`) |
| `SgenRoots` | the root hash tables | one step per entry point (under `LOCK_GC`) |
| `RootRegistry` | the abstract root map that `SgenRoots` refines | — |
| `SgenDescriptor` | GC descriptor encoding and the scanners that decode it | pure operators and type registration |
| `SgenClearDomain` | `mono_gc_finalizers_for_domain` and `mono_gc_clear_domain` | sequential under `LOCK_GC`, one object per step |
| `ThreadPool` | the async pool: clients, idle-thread start, workers, the job queue, domain unload | clients, workers and the unloader interleave |
| `SocketIO` | the socket I/O pool with the poll backend: init, add, the poll thread, remove_socket, the I/O workers | clients, the poll thread, the closing thread and the workers interleave |

### `SgenMinorGC`

**State.** The heap is a function from addresses to cells `[live, id, field]`:

- the nursery is addresses `1..NurserySize`;
- the old section follows it;
- each object has one reference field and a ghost `id`.

The other variables:

- `stack[t]`: the references a thread holds;
- `root`: one registered root;
- `remset[t]` and `global_remset`: typed entries (`location`, `object`, `root`);
- `wb[t]`: a barrier that is half done;
- `to_space` and `degraded_mode`;
- the finalizer tables, the fin-ready list and the finalizer's object;
- the disappearing links with their track bits and tables.

**Actions.** Each action is one entry point or one half of a two-step barrier:

- **Allocation and collection.** `AllocObj` has three disjuncts: degraded, nursery, and collect-then-allocate. `Collect` is the explicit collection.
- **Log-then-store barriers.** `WbarrierSetField`/`WbarrierSetFieldStore` and `WbarrierSetRoot`/`WbarrierSetRootStore`.
- **Store-then-log barrier.** `WbarrierGenericStore`/`WbarrierGenericNostore`.
- **Log-only barriers.** `WbarrierArrayrefCopy` and `WbarrierObject`.
- **Finalizers and links.** `RegisterForFinalization`, `WeakLinkAdd`, `WeakLinkRemove` and `WeakLinkGet`.
- **Finalizer thread.** `InvokeFinalizer` then `RunFinalize`.
- **Managed loads and stores.** `LoadField`, `DropRef`, `LoadRoot` and `StoreRoot` are outside `src/`, so they are `spec_modelled`.

`CollectNursery` composes the phases in `collect_nursery`'s order:

1. `PinnedSet`, then `RemsetLocs`, then `RootSurvivors` with `Drain`;
2. `FinishGrayStack`: `FinalizeInRange`, then `NullLinkInRange` in any hash order;
3. `Copied`, `NewAddr` and `GlobalRemsetAfter`;
4. `HeapAfter` (`build_nursery_fragments`).

`CheckConsistency` translates `check_consistency` and `find_in_remsets`.

### `SgenMajorGC`

**State.** One address space holds the nursery cells, `MaxSections` old sections of `SectionSize` cells, `LosSlots` large-object addresses and `PinnedSlots` pinned-chunk blocks. Each cell holds a live flag, a ghost id and one reference field. Beside the heap:

- `sections` (`section_list`) and `los_scanned` (each `LOSObject`'s `scanned` flag);
- `remset` (the threads' logs) and `global_remset`;
- `stack` (conservatively scanned registers and stack words) and `root` (one precise root);
- `los_memory_usage` and `next_los_collection`, counted in objects.

**Actions.** `AllocObj`, `AllocLargeInner` (with the major collection its trigger runs first), `AllocPinnedObj`, `WbarrierSetField`, `Collect` (`mono_gc_collect (1)`) and the mutator's `LoadRef`, `DropRef` and `StoreRoot`.

**The collection.** `MajorCollection` composes the phases of `major_collection` as operators on a state record:

1. `clear_remsets`;
2. `PinnedFromSections`, `LosPinned` and `ChunkMarked`: the three pinning loops;
3. `ToSpace`: `alloc_section`;
4. `ScanStart`, `ScanStep` and `ScanFrom`: the root scans and `finish_gray_stack`'s drain, looping on `scan_needed_big_objects`, which scans only a large object whose `scanned` flag is clear;
5. `Copied`, `NewAddr`, `NewField` and `GlobalRemsetAfter`: `copy_object` and `HANDLE_PTR`, which logs every scanned non-NULL slot outside the nursery, because the from-space is the whole address space;
6. `SweepLos`, `KeptSections` and `MemAfter`: the large-object sweep, the section-freeing loop, `sweep_pinned_objects` and the rebuilt fragments.

A large object keeps its address, so its `scanned` flag is what decides whether its field is updated.


**State and steps.**

- **The collector.** It takes the lock, sends suspend signals and waits on the `suspend_ack` semaphore. It then runs the restart loop of `restart_threads_until_none_in_managed_allocator`, and finally `restart_world`.
- **Threads.** A thread can be in the managed allocator's window. A suspend or restart signal is *pending*, not queued, as in the kernel. The handler's `sigsuspend` mask decides when a restart is let in.
- **Thread lifecycle.** Threads register and exit under the lock. A non-attached thread is created through `mono_gc_pthread_create`: the creator waits on a semaphore until `gc_start_thread` has registered it.

**Fairness.** The fairness conditions, and why the code justifies each:

- **Weak fairness on signal delivery:** the kernel delivers pending signals.
- **Weak fairness on the collector and on the registering and returning steps of thread creation:** each is a runnable thread once the lock is free.
- **Strong fairness on leaving the allocator:** a thread that is restarted repeatedly runs its few remaining allocator instructions in some round.

### `SgenPinnedChunks`

- **Memory.** A chunk is pages of `PageSize` bytes. `mem[a]` is the first word of each block: a free-list link or a vtable.
- **Actions.**
  - `GetInternalMem`/`AllocPinnedObj` carve pages and pop free lists.
  - `FreeInternalMem` pushes a block back.
  - `MajorCollection` runs `mark_pinned_from_addresses` with interior pointers, then `sweep_pinned_objects`.
  - `ClearDomain` is the free pass over pinned objects.

### `SgenRoots` and `RootRegistry`

`SgenRoots` models three bucket arrays with their sizes and counts, `rehash_roots`, `find_root`, register (plain and wbarrier) and deregister. `RootRegistry` is the promise: a partial map from start address to size and descriptor. `SgenRoots` instantiates it with a refinement mapping, and `RegistryRefined` checks `RootRegistry!Spec` as a property.

### `SgenNurseryPinning`

**State.** The nursery is `heap`, a function from granules (`ALLOC_ALIGN` bytes) to zero, an object header (its size in granules) or a body word. Beside it: `scan_starts` (one entry per `SCAN_START_SIZE` block), `nursery_fragments` as a sequence of `<<start, end>>`, `nursery_next`, `nursery_frag_real_end`, per-thread TLAB pointers, `degraded_mode` and the pin queue. Two ghost variables carry the properties: `objs` (the objects in the nursery and their sizes) and `containing` (the objects the scanned words point into).

**Steps.** `mono_gc_alloc_obj` is split by its branches:

- `AllocFast`: `new_next < TLAB_TEMP_END`.
- `AllocDegraded`: a retired TLAB while `0 < degraded_mode < DEFAULT_NURSERY_SIZE`.
- `AllocDirect`: an object larger than `tlab_size`, carved from the current fragment with no scan start.
- `AllocNewTlab`: a new zeroed TLAB whose first object becomes its block's scan start.

The last two include `search_fragment_for_size` (which zeroes the rest of the fragment it abandons) and `minor_collect_or_expand_inner` (`alloc_nursery` on first use, else a collection, a second search and degraded mode). `Collect` is `mono_gc_collect (0)`.

**Collection.** `CollectNursery` follows `collect_nursery` in order:

1. zero the current remainder and every listed fragment;
2. queue the stack words inside the nursery, aligned down (`conservatively_pin_objects_from`);
3. `optimize_pin_queue`: the comb sort (`new_gap`, the `gap == 1 && !swapped` exit) and the uniq loop, as RECURSIVE operators;
4. `pin_objects_from_addresses`: the scan-start lookup with its backward search, the `last_obj` shortcut and the walk over zero words and headers;
5. `build_nursery_fragments`: clear and reset `scan_starts`, turn the gaps between pinned objects into fragments (small ones zeroed), set degraded mode when none is left, clear every TLAB.

Copying is left out: an object that is not pinned leaves the nursery, and its memory stays as it was, as it does under the default `CLEAR_AT_TLAB_CREATION` policy.


- **Words.** A machine word is the set of its set bit positions, so 64-bit shifts stay exact.
- **Builders.** `mono_gc_make_descr_for_object`, `_for_array` and `_from_bitmap`, with the interned complex-descriptor table.
- **Decoders.** The `OBJ_*_FOREACH_PTR` scanners, `precisely_scan_objects_from` and `mono_gc_get_bitmap_for_descr`.
- **Reference definition.** Each is checked against the layout bitmap over every layout with at most two references at the edge slots of each encoding.

### `SgenClearDomain`

**Objects.** Each object has:

- an area: section, pinned chunk or large-object space;
- a domain;
- an optional proxy `unwrapped_server`;
- a first word `mem[o]`, one of:
  - `obj`;
  - `zero` (memset);
  - `freelist` (`free_pinned_object`);
  - `unmapped` (`free_large_object`).

**Links.** Disappearing links are monitor links or weak handles. `num_links` is kept as the code updates it.

**Steps.** `FinalizersForDomain` runs until it returns 0. After it, `Visit`, `Skip` and `NextPhase` walk the phases of `mono_gc_clear_domain` in code order:

1. sections;
2. the pinned process pass;
3. the large-object process pass;
4. the large-object free pass;
5. the pinned free pass;
6. `null_links_for_domain`.

**Reads of freed memory.** A header read of freed memory is undefined. The model gives every result the build can produce, and records the read in the history variable `read_freed`.

### `ThreadPool`

**Steps.** The pool is modelled as these steps:

- `mono_thread_pool_add` with `start_thread_or_queue`;
- the idle-thread start;
- `append_job`, `dequeue_job` and `clear_queue` on a growable queue;
- the worker loop `async_invoke_thread`, which runs `mono_async_invoke`, does a timed wait on `job_added`, and exits above the minimum;
- `mono_thread_pool_finish` (EndInvoke);
- `mono_thread_pool_remove_domain_jobs`, with its cleanup semaphore and timeout.

**Fairness.** There is weak fairness for every thread: the OS schedules runnable threads, and timed waits time out.

### `SocketIO`

**State.** The module's variables follow the C state:

- `table` is `sock_to_state`: per socket, the ordered list of states.
- `op` is each state's operation. `remove_socket` rewrites RECEIVE/SEND to the JUST_CALLBACK forms.
- `new_sem`, `newpfd` and `pipe` are the handshake between adders and the poll thread.
- `pfds`, `maxfd`, `nsock` and `si` are the poll thread's locals. Slot 0 (the pipe) is kept apart, and the array doubles as in the code.
- `pfds_mem` is the state of the heap block `pfds` points to. Growth runs `g_renew` (which is `realloc`) and then `g_free (oldfd)`. If the block moved, that frees it twice; if it grew in place, it frees the array still in use. Either outcome may happen.
- `ioq`, `io_job_added`, `io_workers`, `busy_io` and `pending_io` are the I/O pool.
- `io_max` is `mono_io_max_worker_threads`.
- `dispatched` and `ran` are history counters.

**Steps.** Each client thread runs `socket_io_init`, then `socket_io_add_poll` in three steps:

1. wait on `new_sem`;
2. update the table and `newpfd` under `io_lock`;
3. write the pipe byte.

The poll thread has four steps:

- `Poll`: the `poll` call, plus the pipe install (with growth and its `g_free`) and the `new_sem` release;
- `ScanBegin`: take `io_lock`;
- `ScanSlot`: one step per slot of the scan loop, with `process_io_event` for POLLIN, then POLLOUT;
- `ScanEnd`: release the lock.

`remove_socket` is three steps: the `inited` test, the locked lookup-and-remove, then one dispatch per state outside the lock. `async_invoke_io_thread` follows the same place structure as the async workers. `SetMaxThreads` is called once, with the icall's validation.

**Readiness.** A socket's readiness is a constant. Poll reports the ready events a slot asks for, plus an error on a hung-up socket. This is level-triggered poll on sockets that stay ready.

**Fairness.** Fairness is weak, and only for the client threads and the poll thread. These are the only threads whose progress dispatching depends on. Nothing is assumed of the workers, the closing thread or the sockets.

**Simplifications.**

- `socket_io_init`'s unlocked pre-test is folded into its locked test, which has the same outcomes.
- Every state's domain is loaded.

## 3. Runs

| Run | Bounds | Checks | Result |
|---|---|---|---|
| `minor_generic_store` | 2 threads (symmetric), nursery 2, old 2, 2 allocations, `generic_store` and `set_root` | `RememberedSetComplete`, `CollectionPreservesReachableGraph` | pass, 1.5M states |
| `minor_fin_links` | 1 thread, nursery 1 (degraded mode), 1 link, finalizers, `set_field`/`arrayref_copy`/`object` | `NoDanglingReference`, `CollectionPreservesReachableGraph`, `PinnedObjectsNeverMove` | pass, 1.2M states |
| `stop_world` | 3 threads, 1 attached and 2 created, 3 collections, 2 allocations | `WorldStoppedForCollection`, `SemaphoreBalanced`, `CollectionCompletes`, `ThreadCreationCompletes` | pass, 103k states |
| `pinned_chunks` | 2 chunks of 2 pages of 64 bytes, a 24-byte header, classes 16/24/32, 5 calls | `HeapPartitioned`, `ObjectsRecognised`, `SweepFreesExactlyUnreachable` | pass, 22k states |
| `roots` | 3 roots colliding in a 1-bucket table, rehash to 3 | `RootTablesConsistent`, `RootScanKind`, `RegistryRefined` | pass |
| `descr_codec` | 32-bit, 2 types, ≤2 references at edge slots | `ObjectScanMatchesLayout`, `ComplexTableInterned` | pass |
| `nursery_pinning` | nursery of 12 granules in 3 blocks, TLAB 3, objects of 1 and 4 granules, 2 threads, 3 stack words, 6 allocations, 2 collections | `TypeOK`, `PinQueueIsContainingObjects`, `LiveObjectsIntact` | pass, 4k states |
| `major_gc` | nursery 2, 2 sections of 2, 2 large objects (trigger after 1), 1 pinned block, 2 stack words, 2 allocations | `RememberedSetComplete`, `CollectionPreservesReachableGraph` | pass, 62k states |
| `clear_domain` | 2 objects in any area, 2 domains, out_size 1 | `NoFreedMemoryRead` | violation (finding) |
| `thread_pool` | 2 jobs in a live and an unloading domain, 3 workers, max 1 worker, queue of length 1 | `UnloadedJobsNotQueued`, `JobsHaveWakeups`, `EndInvokeReturns` | pass, 94k states |
| `socket_io` | a receive and a send on one socket, `remove_socket` on it, 2 I/O workers (min 1, max 2, `SetMaxThreads (1)`), one socket slot | `TypeOK`, `DispatchedAtMostOnce`, `PollSetCoversTable`, `ReadyStatesDispatched` | pass, 37k states |
| `socket_io_grow` | as `socket_io`, with no socket slot (`INITIAL_POLLFD_SIZE` 1) | `PollArrayNeverFreedInUse` | violation (finding) |

### What the passing runs show

- **Remembered sets and the object graph.**
  - Every old→young field is in a remembered set, except the one whose generic-store log half is still to run, which is the exemption `check_consistency` must allow.
  - Each collection keeps the reachable graph, with identities, across copying, pinning, finalization and link processing.
  - No stack, barrier argument, root, field, table, fin-ready entry or link ever points at a freed cell.
  - A conservatively referenced object never moves.
- **Stop-the-world.**
  - A collection runs only when every other registered thread is parked outside the allocator.
  - No stale post is left on the semaphore.
  - Under the fairness above, every collection completes and every thread creation returns.
- **Pinned chunks.**
  - The free lists and the handed-out blocks partition the chunk memory.
  - The sweep's vtable test finds exactly the live objects.
  - A major collection frees exactly the unreferenced ones.
- **Major collection.**
  - Every major collection keeps the reachable graph, with identities. This holds whether `mono_gc_collect (1)` or the LOS trigger runs it, and across copying, section pinning, the large-object sweep and its `scanned` flags.
  - After `clear_remsets`, every old slot that still points at a pinned nursery object is logged again in `global_remset`.
- **Nursery pinning.**
  - After every collection the pin queue holds exactly the objects some stack word points into, sorted and without repeats. No referenced object is left to be moved, and no zeroed or dead memory is taken for an object.
  - This depends on the zeroing in `search_fragment_for_size` and `collect_nursery`, on the scan starts reset by `build_nursery_fragments`, and on the comb sort.
  - No TLAB, direct allocation or fragment overlaps an object still in the nursery, through degraded mode and back.
- **Roots.** The root tables keep each record unique, findable and counted, and they implement `RootRegistry`.
- **Descriptors.** Object scans match the layout, and the complex table never holds a layout twice.
- **Thread pool.**
  - No job of an unloading domain stays queued after `clear_queue`.
  - Every queued job has a wakeup.
  - Every EndInvoke on a finished call returns.
- **Socket I/O.**
  - No state is handed to `start_io_thread_or_queue` twice, or while it is still in the table or in `remove_socket`'s list, across the race between `remove_socket` and the poll thread's scan.
  - Every event that a registered state waits for is polled by a slot of its socket below `maxfd`, or is in a pending `newpfd` handshake. This holds through slot reuse. It is checked with a slot for every socket, as `INITIAL_POLLFD_SIZE` 1024 gives; growth is undefined behaviour (see `socket_io_grow`), so nothing is claimed after it.
  - `start_io_thread_or_queue` is one step. Its two unlocked counter reads and its increments are not interleaved, so a poll thread and a `remove_socket` dispatch that both start a worker past the maximum are not modelled (a hazard in `PROJECT.json`).
  - Every state on a ready socket is eventually dispatched or taken by `remove_socket`.

### Findings (violation runs)

- `socket_io_grow`: when a socket is added and every pollfd slot is in use, `socket_io_poll_main` runs `pfds = g_renew (mono_pollfd, oldfd, allocated); g_free (oldfd);` (threadpool.c 545–546). `g_renew` is `realloc`, so the `g_free` either frees the old block a second time or frees the array the poll thread goes on using. TLC reaches it in six steps with one slot; in the program it takes 1024 polled sockets.
- `clear_domain`: the sequence is as follows:
  1. `mono_gc_clear_domain` frees the domain's large and pinned objects.
  2. It then runs `null_links_for_domain`, which reads each link object's vtable.
  3. `scan_area_for_domain` drops a removed section object's monitor link first, but a locked pinned or large object keeps its link. So its header is read after it was freed.

  This contradicts the comment above the two-pass loops.

Five more disagreements have no run, because the number of runs is limited:

- `finalize_in_range` forwards fin-ready objects before `null_link_in_range` tests `object_is_fin_ready`. So a short link survives its object's finalization, against the design's sections 4.8 and 8; the comment at sgen-gc.c 2333–2340 describes this order. `short_link_finalizable.cfg` shows the violation of `ShortLinkNulledAtFinalization`.

- `mono_gc_wbarrier_set_field` logs before storing. A collection in between consumes the entry, and the old field later dangles. The FIXME above the function names this window. `set_field_race.cfg` (two threads, `set_field`) shows the violation of `NoDanglingReference`.

- `mono_gc_make_descr_for_array` accepts `last_set == SMALL_BITMAP_SIZE`, whose bit `<< 16` shifts out of a 64-bit descriptor. `array_descr_bitmap.cfg` shows the violation of `ArrayScanMatchesLayout`. The function has no caller in this repository.
- `mono_gc_get_bitmap_for_descr` reads `num_set` from the `first_set` byte, so run-length descriptors do not round-trip. `descr_round_trip.cfg` shows the violation of `DescriptorRoundTrip`. The function has no caller in this repository.
- `null_link_in_range` computes a tracking link's new track bit after copying the object, so a tracking link keeps its object alive at every collection. `tracking_link_leak.cfg` shows the violation of `LinkDoesNotRetainObject`. Both are listed as hazards in `PROJECT.json`.

### Bounds

Each bound is the smallest at which the case under test occurs:

- **`SgenMinorGC`.**
  - A nursery of 2 gives an old→young edge and a full nursery.
  - A nursery of 1 lets one pinned object fill the nursery, which forces degraded mode.
  - The old section holds every allocation, because section growth is not modelled.
  - Two threads are needed for the barrier races.
- **`SgenMajorGC`.** Two allocations reach both hazards:
  - an old object pointing at a pinned nursery object;
  - a large object surviving two collections.

  Two sections let one section stay pinned while the other becomes the to-space. A third allocation exceeds the time limit.
- **`SgenStopWorld`.** Three threads give one creator, two created threads and a thread inside the allocator during a restart round.
- **`SgenPinnedChunks`.** The geometry makes page 0's header not a multiple of the first class, and leaves a page tail for class 24.
- **`SgenClearDomain`.** Two objects give every pair of areas. This includes a proxy and its server, and a second unload that meets the first unload's freed objects.
- **`SgenNurseryPinning`.** Eight granules cannot hold two fragments plus a pinned object with dead headers in the abandoned rest of one of them; twelve can. Sizes 1 and 4 against a TLAB of 3 give the fast path, a full TLAB and the direct path. Three stack words (one per block, or NULL) give an unsorted queue for the comb sort and repeats for the uniq loop. Behaviours end at the bounds, so deadlock is not checked.
- **`ThreadPool`.** A one-worker limit makes the second job queue.
- **`SocketIO`.** The checks need the following cases:
  - Two states of different events on one socket give a list whose `newpfd` must carry both events.
  - A slot for the one socket lets the first install raise `maxfd` without growth. `socket_io_grow` uses no socket slot, so the first install grows the array.
  - Two workers with minimum 1 reach the exit path.
  - `SetMaxThreads (1)` makes a state queue.

  A third state multiplies the state space about 35 times and runs for minutes, so duplicate slots and the two-worker exit race are left as hazards. Idle workers wait for ever at the end, so deadlock is not checked.

Larger bounds in the two `SgenMinorGC` runs exceed the time limit.

### Mutants

`PROJECT.json` gives one mutant per property of every passing run. Each mutant is a plausible bug in a mapped definition, and TLC finds the property violated under the run's own cfg. The mutants include:

- `GlobalRemsetCopiesOnly`;
- `NewAddrNoBump`;
- `FinalizeInRangeNoCopy`;
- `RootSurvivorsNoRoot`;
- `PinnedSetNone`;
- `DeliverSuspendNoIp`;
- `RestartLoopKeepIp`;
- `ToRestartAll`;
- `GcStartThreadNoPost`;
- `BuildCountOverrun`;
- `AllocBlockVTableFirst`;
- `MarkedFromAddressNoHeader`;
- `DeregisterRootKeepCount`;
- `DescKindKeptUnchecked`;
- `FindRootAnyInBucket`;
- `SmallBitmapFitsInclusive`;
- `AllocComplexTableNoSearch`;
- `AppendUnderLockNoDomainTest`;
- `AppendUnderLockNoRelease`;
- `FinishNoEvent`;
- `SweepLosKeepScanned`;
- `GlobalRemsetNoAdd`;
- `MakeRoomIgnoringSize`, `ClearRemainingKept`, `PinnedObjectEndAtStart`;
- `RaisedMaxfdPastSlot`, `RemoveLockedKeepsList`, `AddLockedStateEvent`, `RaisedMaxfdKept`.

## 4. Not modelled, and why

- **Major collection: finalization and links.** `SgenMajorGC` leaves out the finalization and disappearing-link processing of `finish_gray_stack`. These are modelled for the nursery collection in `SgenMinorGC`. The request for a major collection that `collect_nursery` returns is ignored by `mono_gc_collect (0)`, so it is not modelled either.
- **Allocator corners.** `alloc_large_inner` (objects above `MAX_SMALL_OBJ_SIZE`), the `tlab_temp_end` branch (unreachable while `tlab_size < SCAN_START_SIZE`), `collect_before_allocs` (a debug option) and the half-constructed-object skip of `build_nursery_fragments` (every modelled object gets its header in the step that allocates it) are not in `SgenNurseryPinning`. `SgenMinorGC` keeps allocation into any free cell so that it can check copying and finalization.
- **The JIT-generated managed allocator.** Its window is modelled in `SgenStopWorld`.
- **Remset entries.** `mono_gc_wbarrier_value_copy` (`REMSET_VTYPE`), remset buffer chaining and the remsets of exited threads are not modelled.
- **Parts of the socket I/O pool.** `SocketIO` models the poll backend. The following are not modelled:
  - the epoll backend (`socket_io_epoll_main`, `socket_io_add_epoll`), which is an alternative to the poll thread with the same table discipline;
  - `socket_io_cleanup` and runtime shutdown;
  - `socket_io_filter`'s class-name tests;
  - the blocking-CONNECT shortcut of Mac/BSD/Windows builds;
  - the Windows socket pipe;
  - appdomain unloading on the I/O side. Its code shape is checked for the async pool in `ThreadPool`.

  `SetMinThreads`, the async pool's `SetMaxThreads` limit and `mono_thread_pool_init`/`cleanup` are not modelled either.
- **Other files.** The platform glue, the type-system headers, eglib, the io-layer and Unity utilities add no state machine. Each is listed in `PROJECT.json` with its reason.
- **Known hazards without a property.** `PROJECT.json` lists them with notes. They include:
  - the `num_links` leak in `null_links_for_domain`;
  - `clear_queue`'s `next_elem`;
  - the `busy_worker_threads` drift;
  - `append_job`'s unbalanced `threadpool_jobs`;
  - duplicate pollfd slots for one socket.
