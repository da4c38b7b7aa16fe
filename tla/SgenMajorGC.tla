---------------------------- MODULE SgenMajorGC ----------------------------
(***************************************************************************)
(* The major collection of Mono's SGen collector, sgen-gc.c               *)
(* major_collection, with the allocations that feed it: nursery objects,   *)
(* large objects (alloc_large_inner, which itself starts a major           *)
(* collection when the large-object space has grown past                  *)
(* next_los_collection), pinned-chunk objects (mono_gc_alloc_pinned_obj),  *)
(* field stores through mono_gc_wbarrier_set_field, and mono_gc_collect.   *)
(*                                                                         *)
(* The heap is a set of cells holding one object with one reference field: *)
(* the nursery section, MaxSections old-generation sections (alloc_section *)
(* / free_mem_section), the addresses get_os_memory gives large objects    *)
(* and the blocks of the pinned chunks.  Every entry point runs under      *)
(* LOCK_GC and a collection with the world stopped, so each is one step;   *)
(* the phases of major_collection are the operators below, composed in    *)
(* the order the function runs them.  Stack words are exact object        *)
(* addresses (the resolution of interior pointers is                       *)
(* pin_objects_from_addresses', modelled with the nursery collection).    *)
(* Objects carry a ghost id, their allocation number.                     *)
(***************************************************************************)
EXTENDS Naturals, FiniteSets, FiniteSetsExt

CONSTANTS
    NurserySize,   \* object cells in the nursery section
    SectionSize,   \* object cells of an old-generation section
    MaxSections,   \* bound on the sections allocated at once
    LosSlots,      \* addresses get_os_memory can return for large objects
    PinnedSlots,   \* blocks of the pinned chunks
    MaxAllocs,     \* bound on allocations (ghost ids are 1..MaxAllocs)
    StackDepth,    \* bound on the words on the mutator's stack
    LosInit,       \* initial next_los_collection, in large-object units
    LosHeadroom    \* the 5 MB added to next_los_collection, in those units

\* alloc_section (copy_space_required) is sized by every section's data, so
\* the to-space holds every copy; a section of MaxAllocs cells does too.
ASSUME /\ SectionSize >= MaxAllocs /\ MaxSections >= 2
       /\ {NurserySize, LosSlots, PinnedSlots, StackDepth} \subseteq Nat \ {0}

Null == 0
Nursery == 1 .. NurserySize
SectionIds == 1 .. MaxSections
SecBase(s) == NurserySize + (s - 1) * SectionSize
SecCells(s) == SecBase(s) + 1 .. SecBase(s) + SectionSize
LosBase == NurserySize + MaxSections * SectionSize
Los == LosBase + 1 .. LosBase + LosSlots
Pinned == LosBase + LosSlots + 1 .. LosBase + LosSlots + PinnedSlots
Addr == Nursery \cup UNION {SecCells(s) : s \in SectionIds} \cup Los \cup Pinned

FreeCell == [live |-> FALSE, id |-> 0, field |-> Null]

VARIABLES
    mem,                  \* Addr -> cell
    sections,             \* section_list without the nursery section
    los_scanned,          \* large objects whose bigobj->scanned is TRUE
    remset,               \* the slots logged in the thread's RememberedSet
    global_remset,        \* the slots logged in global_remset
    stack,                \* the words on the mutator's stack and registers
    root,                 \* a registered ROOT_TYPE_NORMAL root slot
    los_memory_usage,     \* in large-object units
    next_los_collection,  \* in large-object units
    allocs,               \* objects allocated so far (the next ghost id)
    major_ran             \* history: the last step ran major_collection

vars == <<mem, sections, los_scanned, remset, global_remset, stack, root,
          los_memory_usage, next_los_collection, allocs, major_ran>>

Cur == [mem |-> mem, sections |-> sections, los_scanned |-> los_scanned,
        remset |-> remset, global_remset |-> global_remset, stack |-> stack,
        root |-> root, los_memory_usage |-> los_memory_usage,
        next_los_collection |-> next_los_collection, allocs |-> allocs]

Commit(h, ran) ==
    /\ mem' = h.mem /\ sections' = h.sections /\ los_scanned' = h.los_scanned
    /\ remset' = h.remset /\ global_remset' = h.global_remset
    /\ stack' = h.stack /\ root' = h.root
    /\ los_memory_usage' = h.los_memory_usage
    /\ next_los_collection' = h.next_los_collection
    /\ allocs' = h.allocs /\ major_ran' = ran

Live(h) == {a \in Addr : h.mem[a].live}
Fld(h, a) == h.mem[a].field
Targets(h, S) == {Fld(h, a) : a \in S} \ {Null}
SectionAddrs(h) == UNION {SecCells(s) : s \in h.sections}

(* Reachability in the mutator's view: the objects it can name from its   *)
(* stack and the registered root.                                         *)
RECURSIVE Closure(_, _)
Closure(h, S) ==
    LET T == S \cup Targets(h, S \cap Live(h))
    IN IF T = S THEN S ELSE Closure(h, T)

MutatorRefs(h) == (h.stack \cup {h.root}) \ {Null}
Reachable(h) == Closure(h, MutatorRefs(h))

-----------------------------------------------------------------------------
(* major_collection                                                        *)

\* The pinning loop over section_list (the nursery section included):
\* pin_from_roots, then pin_objects_from_addresses on the stack words.
PinnedFromSections(h) == h.stack \cap Live(h) \cap (Nursery \cup SectionAddrs(h))

\* The loop over los_object_list: a large object a stack word points into
\* is pinned.
LosPinned(h) == h.stack \cap Live(h) \cap Los

\* The loop over pinned_chunk_list: mark_pinned_from_addresses.
ChunkMarked(h) == h.stack \cap Live(h) \cap Pinned

\* alloc_section (copy_space_required): a section id not in section_list.
CanAllocSection(h) == SectionIds \ h.sections # {}
ToSpace(h) == Min(SectionIds \ h.sections)

\* copy_object with heap_start = NULL and heap_end = -1: a nursery or
\* section object is forwarded and scanned later from the gray stack; a
\* large object is pinned and scanned by scan_needed_big_objects unless its
\* scanned flag is set; a pinned-chunk object is only pinned.
ScannedWhenCopied(h, a) ==
    \/ a \in Nursery \cup SectionAddrs(h)
    \/ a \in Los /\ a \notin h.los_scanned

RootTargets(h) == {h.root} \ {Null}

\* The scans before finish_gray_stack: the pinned section objects of the
\* pin queue, scan_from_pinned_objects (every pinned-chunk object), and the
\* first scan_needed_big_objects.  (scan_thread_data with precise = TRUE
\* and no thread_mark_func scans nothing.)
ScanStart(h) ==
    PinnedFromSections(h) \cup (Live(h) \cap Pinned) \cup (LosPinned(h) \ h.los_scanned)

\* scan_from_registered_roots and the gray-stack drains of finish_gray_stack,
\* looping on scan_needed_big_objects until no large object is scanned.
ScanStep(h, S) ==
    S \cup {t \in Targets(h, S) \cup RootTargets(h) : ScannedWhenCopied(h, t)}

RECURSIVE ScanFrom(_, _)
ScanFrom(h, S) == IF ScanStep(h, S) = S THEN S ELSE ScanFrom(h, ScanStep(h, S))

Scanned(h) == ScanFrom(h, ScanStart(h))

\* The objects copy_object forwarded or pinned, and the pinned ones.
Reached(h) ==
    (Targets(h, Scanned(h)) \cup RootTargets(h) \cup PinnedFromSections(h)
       \cup LosPinned(h) \cup ChunkMarked(h)) \cap Live(h)

Copied(h) == (Reached(h) \cap (Nursery \cup SectionAddrs(h))) \ PinnedFromSections(h)

\* The forwarding address: copies are laid out from the start of the
\* to-space (the order of the gray stack is abstracted to address order).
NewAddr(h, a) ==
    IF a \in Copied(h)
    THEN SecBase(ToSpace(h)) + 1 + Cardinality({b \in Copied(h) : b < a})
    ELSE a

\* HANDLE_PTR: a scanned slot is overwritten with copy_object's result.
NewField(h, a) == IF a \in Scanned(h) THEN NewAddr(h, Fld(h, a)) ELSE Fld(h, a)

\* mutant: the sweep keeps bigobj->scanned of a surviving large object
SweepLosKeepScanned(h) ==
    [scanned |-> (h.los_scanned \cup (Scanned(h) \cap Los)) \cap Reached(h),
     usage |-> Cardinality(Reached(h) \cap Los)]

\* The sweep of los_object_list: a pinned large object is unpinned and its
\* scanned flag cleared, any other is freed (free_large_object).
SweepLos(h) ==
    [scanned |-> {}, usage |-> Cardinality(Reached(h) \cap Los)]

\* The loop freeing the sections: one without a pinned object is freed.
KeptSections(h) == {s \in h.sections : SecCells(s) \cap PinnedFromSections(h) # {}}

\* The heap after the collection: the copies in the to-space, the pinned
\* and marked objects in place (sweep_pinned_objects frees the unmarked
\* pinned-chunk objects), and build_section_fragments /
\* build_nursery_fragments zeroing everything else.
MemAfter(h) ==
    [c \in Addr |->
        IF c \in SecCells(ToSpace(h)) /\ \E a \in Copied(h) : NewAddr(h, a) = c
        THEN LET a == CHOOSE x \in Copied(h) : NewAddr(h, x) = c
             IN [h.mem[a] EXCEPT !.field = NewField(h, a)]
        ELSE IF c \in Reached(h) \ Copied(h)
        THEN [h.mem[c] EXCEPT !.field = NewField(h, c)]
        ELSE FreeCell]

\* mutant: HANDLE_PTR without add_to_global_remset
GlobalRemsetNoAdd(h) == {}

\* HANDLE_PTR's add_to_global_remset: with the whole address space as the
\* from-space, every non-NULL slot scanned outside the nursery is logged.
GlobalRemsetAfter(h) ==
    {NewAddr(h, a) : a \in {x \in Scanned(h) : Fld(h, x) # Null}} \ Nursery

MajorCollection(h) ==
    LET sw == SweepLos(h)
    IN [h EXCEPT !.mem = MemAfter(h),
                 !.sections = KeptSections(h) \cup {ToSpace(h)},
                 !.los_scanned = sw.scanned,
                 !.los_memory_usage = sw.usage,
                 !.remset = {},               \* clear_remsets
                 !.global_remset = GlobalRemsetAfter(h),
                 !.root = NewAddr(h, h.root)]

-----------------------------------------------------------------------------
(* Entry points                                                            *)

CanPush == Cardinality(stack) < StackDepth

\* A new object, its address left in a register.
NewObject(h, a) ==
    [h EXCEPT !.mem[a] = [live |-> TRUE, id |-> h.allocs + 1, field |-> Null],
              !.allocs = @ + 1,
              !.stack = @ \cup {a}]

\* mono_gc_alloc_obj's bump allocation in a nursery fragment.  With no
\* room left it would run collect_nursery, the nursery collection's step.
AllocObj ==
    /\ allocs < MaxAllocs /\ CanPush
    /\ Nursery \ Live(Cur) # {}
    /\ Commit(NewObject(Cur, Min(Nursery \ Live(Cur))), FALSE)

LosTrigger(h) == h.los_memory_usage > h.next_los_collection

\* alloc_large_inner: a major collection first when the large-object
\* space has outgrown next_los_collection, which then moves LosHeadroom
\* past the surviving usage; the LOSObject comes zeroed from get_os_memory.
AfterLosTrigger(h) ==
    IF LosTrigger(h)
    THEN LET m == MajorCollection(h)
         IN [m EXCEPT !.next_los_collection = m.los_memory_usage + LosHeadroom]
    ELSE h

AllocLargeInner ==
    /\ allocs < MaxAllocs /\ CanPush
    /\ LosTrigger(Cur) => CanAllocSection(Cur)
    /\ LET h == AfterLosTrigger(Cur)
       IN \E a \in Los \ Live(h) :
            Commit([NewObject(h, a) EXCEPT !.los_memory_usage = @ + 1,
                                           !.los_scanned = @ \ {a}],
                   LosTrigger(Cur))

\* mono_gc_alloc_pinned_obj: a zeroed block of a pinned chunk.
AllocPinnedObj ==
    /\ allocs < MaxAllocs /\ CanPush
    /\ Pinned \ Live(Cur) # {}
    /\ Commit(NewObject(Cur, Min(Pinned \ Live(Cur))), FALSE)

\* mono_gc_wbarrier_set_field: a slot outside the nursery is logged in
\* the thread's remembered set before the store.
WbarrierSetField(o, v) ==
    /\ o \in Reachable(Cur) \cap Live(Cur)
    /\ v \in Reachable(Cur) \cup {Null}
    /\ mem' = [mem EXCEPT ![o].field = v]
    /\ remset' = IF o \in Nursery THEN remset ELSE remset \cup {o}
    /\ major_ran' = FALSE
    /\ UNCHANGED <<sections, los_scanned, global_remset, stack, root,
                   los_memory_usage, next_los_collection, allocs>>

\* The mutator loads a reference into a register, drops one, or stores
\* one in the registered root (a plain store: ROOT_TYPE_NORMAL).
LoadRef(a) ==
    /\ a \in Reachable(Cur) /\ CanPush /\ a \notin stack
    /\ stack' = stack \cup {a}
    /\ major_ran' = FALSE
    /\ UNCHANGED <<mem, sections, los_scanned, remset, global_remset, root,
                   los_memory_usage, next_los_collection, allocs>>

DropRef(a) ==
    /\ a \in stack
    /\ stack' = stack \ {a}
    /\ major_ran' = FALSE
    /\ UNCHANGED <<mem, sections, los_scanned, remset, global_remset, root,
                   los_memory_usage, next_los_collection, allocs>>

StoreRoot(v) ==
    /\ v \in Reachable(Cur) \cup {Null} /\ v # root
    /\ root' = v
    /\ major_ran' = FALSE
    /\ UNCHANGED <<mem, sections, los_scanned, remset, global_remset, stack,
                   los_memory_usage, next_los_collection, allocs>>

\* mono_gc_collect (1)
Collect ==
    /\ CanAllocSection(Cur)
    /\ Commit(MajorCollection(Cur), TRUE)

Init ==
    /\ mem = [a \in Addr |-> FreeCell]
    /\ sections = {}
    /\ los_scanned = {}
    /\ remset = {} /\ global_remset = {}
    /\ stack = {} /\ root = Null
    /\ los_memory_usage = 0 /\ next_los_collection = LosInit
    /\ allocs = 0
    /\ major_ran = FALSE

Next ==
    \/ AllocObj \/ AllocLargeInner \/ AllocPinnedObj \/ Collect
    \/ \E o \in Addr, v \in Addr \cup {Null} : WbarrierSetField(o, v)
    \/ \E a \in Addr : LoadRef(a) \/ DropRef(a)
    \/ \E v \in Addr \cup {Null} : StoreRoot(v)

Spec == Init /\ [][Next]_vars

-----------------------------------------------------------------------------
(* Properties                                                              *)

TypeOK ==
    /\ mem \in [Addr -> [live : BOOLEAN, id : 0 .. MaxAllocs, field : Addr \cup {Null}]]
    /\ sections \subseteq SectionIds /\ los_scanned \subseteq Los
    /\ remset \subseteq Addr /\ global_remset \subseteq Addr
    /\ stack \subseteq Addr /\ root \in Addr \cup {Null}
    /\ los_memory_usage \in 0 .. LosSlots /\ next_los_collection \in Nat
    /\ allocs \in 0 .. MaxAllocs /\ major_ran \in BOOLEAN

\* The object graph the mutator can reach, by ghost id: an edge from each
\* reachable cell's object to its field's object (DeadId for a cell that
\* holds no object, NullId for NULL), and from RootId to each object a
\* stack word or the root names.
DeadId == 0
NullId == MaxAllocs + 1
RootId == MaxAllocs + 2
Node(h, a) == IF a = Null THEN NullId ELSE IF h.mem[a].live THEN h.mem[a].id ELSE DeadId
IdGraph(h) ==
    {<<Node(h, a), Node(h, Fld(h, a))>> : a \in Reachable(h)}
      \cup {<<RootId, Node(h, r)>> : r \in MutatorRefs(h)}

\* major_collection (run by mono_gc_collect or by alloc_large_inner) keeps
\* every object the mutator can reach, at its new address, with its field
\* naming the same object: no reachable object is freed, and no slot is
\* left pointing at a moved object's old cell.  The object a triggering
\* alloc_large_inner adds afterwards is left out of the comparison.
CollectionPreservesReachableGraph ==
    [][major_ran' =>
         {e \in IdGraph(Cur') : allocs' = allocs \/ allocs' \notin {e[1], e[2]}}
            = IdGraph(Cur)]_vars

\* Every slot outside the nursery that points into the nursery is in the
\* thread's remembered set (mono_gc_wbarrier_set_field) or in
\* global_remset: after clear_remsets, major_collection must log again,
\* through HANDLE_PTR, every old slot still pointing at a nursery object
\* that stayed pinned, or the next nursery collection misses it.
RememberedSetComplete ==
    \A a \in Live(Cur) \ Nursery :
        Fld(Cur, a) \in Nursery => a \in remset \cup global_remset

=============================================================================
