---------------------------- MODULE SgenMinorGC ----------------------------
(***************************************************************************)
(* The nursery (minor) collection of Mono's SGen collector, sgen-gc.c,    *)
(* with the mutator operations that feed it: allocation into the nursery *)
(* or, in degraded mode, into the old generation; loads and stores of     *)
(* object fields through the write barriers that log old-generation       *)
(* locations into the per-thread remembered sets; one precisely scanned   *)
(* registered root; finalizer registration, the finalizer thread, and     *)
(* disappearing (weak) links.                                              *)
(*                                                                         *)
(* The heap is a set of cells, each holding one object with one reference *)
(* field.  Addresses 1..NurserySize are the nursery section, the next     *)
(* OldSize addresses the old-generation section whose free tail is the    *)
(* to-space bump region (to_space).  A collection runs with the world     *)
(* stopped (mono_gc_collect and minor_collect_or_expand_inner call        *)
(* stop_world first), so it is one atomic step; its phases are the       *)
(* operators below, applied in the order collect_nursery runs them.       *)
(* Thread stacks and registers are sets of exact object addresses; the    *)
(* resolution of interior pointers to object headers is SgenPinning's.    *)
(* Every object carries a ghost id (its allocation number) so that a      *)
(* property can follow it when the collector moves it.                    *)
(***************************************************************************)
EXTENDS Naturals, FiniteSets, SequencesExt, Bitwise

CONSTANTS
    Threads,        \* registered mutator threads
    NurserySize,    \* object cells in the nursery section
    OldSize,        \* object cells in the old-generation section
    MaxAllocs,      \* bound on mono_gc_alloc_obj calls (ids are 1..MaxAllocs)
    DegradedLimit,  \* DEFAULT_NURSERY_SIZE, counted in objects
    Links,          \* disappearing-link slots (GC handles)
    Barriers,       \* write barriers the stores may use
    Finalizers      \* whether objects register finalizers

ASSUME /\ NurserySize \in Nat \ {0} /\ MaxAllocs \in Nat \ {0}
       \* every object reaches the old section at most once: it never fills
       /\ OldSize >= MaxAllocs
       /\ DegradedLimit \in Nat \ {0, 1}
       /\ Barriers \subseteq {"set_field", "generic_store", "arrayref_copy",
                              "object", "set_root"}
       /\ Finalizers \in BOOLEAN

Null == 0
Nursery == 1 .. NurserySize
Old == NurserySize + 1 .. NurserySize + OldSize
Addr == Nursery \cup Old

\* an unallocated cell: nursery memory is kept zeroed between objects
FreeCell == [live |-> FALSE, id |-> 0, field |-> Null]
NoStore == [kind |-> "none", obj |-> Null, val |-> Null]
NoLink == [obj |-> Null, track |-> FALSE]

\* Remembered-set entries: REMSET_LOCATION (a slot), REMSET_RANGE (count
\* slots from a slot; an object has one slot, so count is 1, and it is
\* recorded as the location entry it behaves as), REMSET_OBJECT
\* (every slot of an object) and REMSET_OTHER / REMSET_ROOT_LOCATION (a
\* slot of a root registered with mono_gc_register_root_wbarrier).  The
\* address of a slot entry is the object holding the slot.
Entry(type, a) == [type |-> type, addr |-> a]
RootEntry == Entry("root", Null)

VARIABLES
    mem,            \* Addr -> cell: the nursery and old sections
    stack,          \* thread -> addresses on its stack and in its registers
    root,           \* the registered ROOT_TYPE_NORMAL root slot
    remset,         \* thread -> the entries in its RememberedSet log
    global_remset,  \* the entries in global_remset
    wb,             \* thread -> the write barrier it is executing, if any
    to_space,       \* next_data of the old section: copies and degraded objects
    degraded_mode,  \* 0, or 1 + objects allocated in degraded mode
    allocs,         \* objects allocated so far (the next ghost id)
    minor_fin,      \* objects in minor_finalizable_hash
    major_fin,      \* objects in major_finalizable_hash
    fin_ready,      \* objects of the entries on fin_ready_list
    fin_obj,        \* the object the finalizer thread is finalizing, or Null
    link,           \* link slot -> the object it hides and its track bit
    minor_links,    \* slots in minor_disappearing_link_hash
    major_links,    \* slots in major_disappearing_link_hash
    gc_ran          \* history: the last step ran collect_nursery

vars == <<mem, stack, root, remset, global_remset, wb, to_space, degraded_mode,
          allocs, minor_fin, major_fin, fin_ready, fin_obj, link, minor_links,
          major_links, gc_ran>>

\* The state as a record, so that a collection and the allocation that
\* follows it in mono_gc_alloc_obj compose as functions.
Cur == [mem |-> mem, stack |-> stack, root |-> root, remset |-> remset,
        global_remset |-> global_remset, wb |-> wb, to_space |-> to_space,
        degraded_mode |-> degraded_mode, allocs |-> allocs,
        minor_fin |-> minor_fin, major_fin |-> major_fin,
        fin_ready |-> fin_ready, fin_obj |-> fin_obj, link |-> link,
        minor_links |-> minor_links, major_links |-> major_links]

Commit(h, ran) ==
    /\ mem' = h.mem /\ stack' = h.stack /\ root' = h.root
    /\ remset' = h.remset /\ global_remset' = h.global_remset /\ wb' = h.wb
    /\ to_space' = h.to_space /\ degraded_mode' = h.degraded_mode
    /\ allocs' = h.allocs /\ minor_fin' = h.minor_fin
    /\ major_fin' = h.major_fin /\ fin_ready' = h.fin_ready
    /\ fin_obj' = h.fin_obj /\ link' = h.link /\ minor_links' = h.minor_links
    /\ major_links' = h.major_links /\ gc_ran' = ran

-----------------------------------------------------------------------------
(* collect_nursery                                                         *)

LiveNursery(h) == {a \in Nursery : h.mem[a].live}

\* Words scanned conservatively: every thread's stack and saved registers,
\* where a thread inside a write barrier holds its obj and value arguments,
\* and the finalizer thread's local holding the object it finalizes.
ConsRefs(h) ==
    (UNION {h.stack[t] : t \in Threads}
       \cup {h.wb[t].obj : t \in Threads} \cup {h.wb[t].val : t \in Threads}
       \cup {h.fin_obj}) \ {Null}

\* mutation of PinnedSet: the PINNED bit is never set, as if copy_object
\* did not test object_is_pinned
PinnedSetNone(h) == {}

\* pin_from_roots then pin_objects_from_addresses: nursery objects that a
\* conservative word points to get the PINNED bit.
PinnedSet(h) == LiveNursery(h) \cap ConsRefs(h)

\* drain_gray_stack, with one step scanning only the objects found so far
DrainOnce(h, S) == S \cup ({h.mem[a].field : a \in S} \cap LiveNursery(h))

\* drain_gray_stack: copy_object applied to the fields of every copied or
\* pinned object until no object is added.  The result is the set of
\* nursery objects that are pinned or forwarded.
RECURSIVE Drain(_, _)
Drain(h, S) == IF DrainOnce(h, S) = S THEN S ELSE Drain(h, DrainOnce(h, S))

RemsetEntries(h) == h.global_remset \cup UNION {h.remset[t] : t \in Threads}

\* the objects whose slot scan_from_remsets updates: those of the slot
\* and object entries of the global log and of every thread's log;
\* handle_remset skips an entry whose address is in the nursery
RemsetLocs(h) ==
    {e.addr : e \in {e \in RemsetEntries(h) : e.type # "root"}} \ Nursery

\* mutation of RootSurvivors: scan_from_registered_roots is left out
RootSurvivorsNoRoot(h) ==
    Drain(h, PinnedSet(h)
             \cup ({h.mem[l].field : l \in RemsetLocs(h) \cup PinnedSet(h)}
                   \cap LiveNursery(h)))

\* The objects copied or pinned before finish_gray_stack handles the
\* finalizers: pinned objects, the targets of remembered locations, of the
\* pinned objects' fields and of the registered root, and their closure.
RootSurvivors(h) ==
    Drain(h, PinnedSet(h)
             \cup (({h.mem[l].field : l \in RemsetLocs(h) \cup PinnedSet(h)}
                    \cup {h.root}) \cap LiveNursery(h)))

\* finalize_in_range: entries whose object is neither pinned nor forwarded
\* (object_is_fin_ready) are the ready ones
FinReadySet(h, s1) == {a \in h.minor_fin : a \notin s1}

\* mutation of FinalizeInRange: the ready entries are queued but their
\* objects are not made to survive
FinalizeInRangeNoCopy(h, s1) == s1

\* finalize_in_range copies the ready objects (and forwards the others)
FinalizeInRange(h, s1) == s1 \cup FinReadySet(h, s1)

\* null_link_in_range: one pass over minor_disappearing_link_hash in hash
\* order.  A non-tracking link whose object is not (yet) pinned or
\* forwarded is nulled; any other link's object is copied, without the
\* gray stack being drained in between.
RECURSIVE NullLinkInRange(_, _, _)
NullLinkInRange(h, order, st) ==
    IF order = <<>> THEN st
    ELSE LET l == Head(order)
             o == h.link[l].obj
         IN  NullLinkInRange(h, Tail(order),
                IF ~h.link[l].track /\ o \notin st.alive
                THEN [st EXCEPT !.nulled = @ \cup {l}]
                ELSE [st EXCEPT !.alive = @ \cup {o}])

\* mutation of NewAddr: to_space is not bumped between two copies
NewAddrNoBump(h, copied, a) == h.to_space

\* copy_object returns a pinned object unchanged: the survivors that move
Copied(h, alive) == alive \ PinnedSet(h)

\* copy_object bumps to_space: the copies are laid out from h.to_space on
\* (in address order of the originals, standing for the gray-stack order)
NewAddr(h, copied, a) == h.to_space + Cardinality({b \in copied : b < a})

\* the value copy_object returns for a reference
Fwd(h, copied, a) == IF a \in copied THEN NewAddr(h, copied, a) ELSE a

\* add_to_global_remset: a slot, or a root location (two words)
AddToGlobalRemset(l, is_root) == IF is_root THEN RootEntry ELSE Entry("location", l)

\* mutation of GlobalRemsetAfter: handle_remset does not re-add a location
\* whose object stayed pinned in the nursery
GlobalRemsetCopiesOnly(h, copied) ==
    {AddToGlobalRemset(NewAddr(h, copied, b), FALSE) :
       b \in {c \in copied : Fwd(h, copied, h.mem[c].field) \in Nursery}}

\* scan_from_remsets and HANDLE_PTR: after the copy, a remembered slot
\* (global, or per-thread of any kind) that still points into the nursery,
\* a remembered root location that does, and a field of a copied object
\* that does, are kept in or (re)added to the global remset
GlobalRemsetAfter(h, copied) ==
    {AddToGlobalRemset(l, FALSE) :
       l \in {l \in RemsetLocs(h) : Fwd(h, copied, h.mem[l].field) \in Nursery}}
      \cup {AddToGlobalRemset(NewAddr(h, copied, b), FALSE) :
              b \in {c \in copied : Fwd(h, copied, h.mem[c].field) \in Nursery}}
      \cup {AddToGlobalRemset(Null, TRUE) :
              e \in {e \in RemsetEntries(h) :
                       e.type = "root" /\ Fwd(h, copied, h.root) \in Nursery}}

\* the cell at address a after the copy: pinned objects and remembered
\* locations have their field updated, the other nursery cells become
\* fragments and are zeroed, and the to-space cells receive the copies
HeapAfter(h, pinned, copied, a) ==
    CASE a \in pinned \cup RemsetLocs(h) ->
             [h.mem[a] EXCEPT !.field = Fwd(h, copied, @)]
      [] a \in Nursery -> FreeCell
      [] \E b \in copied : NewAddr(h, copied, b) = a ->
             LET b == CHOOSE c \in copied : NewAddr(h, copied, c) = a
             IN  [h.mem[b] EXCEPT !.field = Fwd(h, copied, @)]
      [] OTHER -> h.mem[a]

\* finish_gray_stack: drain the gray stack; then finalize_in_range with a
\* drain until no entry becomes ready (one pass suffices: an entry it does
\* not queue has a forwarded or pinned object, and stays so); then
\* null_link_in_range with a drain, until a pass copies nothing (after the
\* first pass every remaining link's object is forwarded or pinned).
FinishGrayStack(h, order, s0) ==
    LET s1 == Drain(h, s0)
        lk == NullLinkInRange(h, order,
                [alive |-> Drain(h, FinalizeInRange(h, s1)), nulled |-> {}])
    IN  [lk EXCEPT !.alive = Drain(h, @)]

\* collect_nursery: pin, scan the remembered sets, the pinned objects and
\* the registered root, finish_gray_stack (drain, finalizers, disappearing
\* links), build_nursery_fragments and clear the thread remsets.
CollectNursery(h, order) ==
    LET pinned == PinnedSet(h)
        s1 == RootSurvivors(h)
        ready == FinReadySet(h, s1)
        lk == FinishGrayStack(h, order, s1)
        copied == Copied(h, lk.alive)
        F(a) == Fwd(h, copied, a)
        kept == h.minor_links \ lk.nulled
        waiting == {F(a) : a \in h.minor_fin \ ready}
    IN  [h EXCEPT
           !.mem = [a \in Addr |-> HeapAfter(h, pinned, copied, a)],
           !.root = F(@),
           !.remset = [t \in Threads |-> {}],
           !.global_remset = GlobalRemsetAfter(h, copied),
           !.to_space = @ + Cardinality(copied),
           \* degraded_mode is reset, and set when no fragment is left
           !.degraded_mode = IF pinned = Nursery THEN 1 ELSE 0,
           !.minor_fin = waiting \cap Nursery,
           !.major_fin = @ \cup (waiting \cap Old),
           !.fin_ready = @ \cup {F(a) : a \in ready},
           !.link = [l \in Links |->
                       IF l \in lk.nulled THEN NoLink
                       ELSE IF l \in kept THEN [@[l] EXCEPT !.obj = F(@)]
                       ELSE @[l]],
           !.minor_links = {l \in kept : F(h.link[l].obj) \in Nursery},
           !.major_links = @ \cup {l \in kept : F(h.link[l].obj) \in Old}]

-----------------------------------------------------------------------------
(* mono_gc_alloc_obj                                                       *)

FreeNursery(h) == Nursery \ LiveNursery(h)

\* alloc_degraded is used while degraded_mode is set and below the limit
DegradedActive(h) == h.degraded_mode > 0 /\ h.degraded_mode < DegradedLimit

\* the object header is stored at a and the pointer returned to the caller
AllocAt(h, t, a) ==
    [h EXCEPT !.mem[a] = [live |-> TRUE, id |-> h.allocs + 1, field |-> Null],
              !.stack[t] = @ \cup {a},
              !.allocs = @ + 1]

\* alloc_degraded: bump next_data of the old section
AllocDegraded(h, t) ==
    [AllocAt(h, t, h.to_space) EXCEPT !.to_space = @ + 1,
                                      !.degraded_mode = @ + 1]

\* the slow path when no fragment fits: minor_collect_or_expand_inner, then
\* the nursery if the collection left a fragment, else degraded mode
AllocAfterCollect(g, t) ==
    IF FreeNursery(g) # {}
    THEN {AllocAt(g, t, a) : a \in FreeNursery(g)}
    ELSE {AllocDegraded([g EXCEPT !.degraded_mode = 1], t)}

Idle(t) == wb[t] = NoStore

AllocObj(t) ==
    /\ Idle(t) /\ allocs < MaxAllocs
    /\ \/ /\ DegradedActive(Cur)
          /\ Commit(AllocDegraded(Cur, t), FALSE)
       \/ /\ ~DegradedActive(Cur)
          /\ \E a \in FreeNursery(Cur) : Commit(AllocAt(Cur, t, a), FALSE)
       \/ /\ ~DegradedActive(Cur) /\ FreeNursery(Cur) = {}
          /\ \E order \in SetToSeqs(minor_links) :
               \E g \in AllocAfterCollect(CollectNursery(Cur, order), t) :
                  Commit(g, TRUE)

\* mono_gc_collect (0), called by an idle thread
Collect(t) ==
    /\ Idle(t)
    /\ \E order \in SetToSeqs(minor_links) :
          Commit(CollectNursery(Cur, order), TRUE)

-----------------------------------------------------------------------------
(* Mutator steps that only touch the thread's own references              *)

Mutator == <<remset, global_remset, to_space, degraded_mode, allocs,
             minor_fin, major_fin, fin_ready, fin_obj, link, minor_links,
             major_links>>

\* reading a reference field: no barrier
LoadField(t) ==
    /\ Idle(t)
    /\ \E a \in stack[t] :
          /\ mem[a].field # Null
          /\ stack' = [stack EXCEPT ![t] = @ \cup {mem[a].field}]
    /\ UNCHANGED <<mem, root, wb, Mutator>> /\ gc_ran' = FALSE

DropRef(t) ==
    /\ Idle(t)
    /\ \E a \in stack[t] : stack' = [stack EXCEPT ![t] = @ \ {a}]
    /\ UNCHANGED <<mem, root, wb, Mutator>> /\ gc_ran' = FALSE

\* the root is scanned precisely at every collection: stores need no
\* barrier, unless it was registered with mono_gc_register_root_wbarrier
LoadRoot(t) ==
    /\ Idle(t) /\ root # Null
    /\ stack' = [stack EXCEPT ![t] = @ \cup {root}]
    /\ UNCHANGED <<mem, root, wb, Mutator>> /\ gc_ran' = FALSE

StoreRoot(t) ==
    /\ "set_root" \notin Barriers /\ Idle(t)
    /\ \E v \in stack[t] \cup {Null} : root' = v
    /\ UNCHANGED <<mem, stack, wb, Mutator>> /\ gc_ran' = FALSE

-----------------------------------------------------------------------------
(* Write barriers                                                          *)

Stored(a, v) == [mem EXCEPT ![a].field = v]

\* mono_gc_wbarrier_set_field (and set_arrayref): a nursery location is
\* stored to at once; otherwise the location is logged first and the
\* store is a separate step
WbarrierSetField(t) ==
    /\ "set_field" \in Barriers /\ Idle(t)
    /\ \E a \in stack[t], v \in stack[t] \cup {Null} :
          \/ /\ a \in Nursery
             /\ mem' = Stored(a, v)
             /\ UNCHANGED <<remset, wb>>
          \/ /\ a \in Old
             /\ remset' = [remset EXCEPT ![t] = @ \cup {Entry("location", a)}]
             /\ wb' = [wb EXCEPT ![t] = [kind |-> "set_field", obj |-> a,
                                         val |-> v]]
             /\ UNCHANGED mem
    /\ UNCHANGED <<stack, root, global_remset, to_space, degraded_mode, allocs,
                   minor_fin, major_fin, fin_ready, fin_obj, link, minor_links,
                   major_links>>
    /\ gc_ran' = FALSE

\* *(void**)field_ptr = value, after the remset entry was written
WbarrierSetFieldStore(t) ==
    /\ wb[t].kind = "set_field"
    /\ mem' = Stored(wb[t].obj, wb[t].val)
    /\ wb' = [wb EXCEPT ![t] = NoStore]
    /\ UNCHANGED <<stack, root, remset, global_remset, to_space, degraded_mode,
                   allocs, minor_fin, major_fin, fin_ready, fin_obj, link,
                   minor_links, major_links>>
    /\ gc_ran' = FALSE

\* mono_gc_wbarrier_generic_store: the store comes first
WbarrierGenericStore(t) ==
    /\ "generic_store" \in Barriers /\ Idle(t)
    /\ \E a \in stack[t], v \in stack[t] \cup {Null} :
          /\ mem' = Stored(a, v)
          /\ wb' = [wb EXCEPT ![t] = [kind |-> "generic_store", obj |-> a,
                                      val |-> v]]
    /\ UNCHANGED <<stack, root, remset, global_remset, to_space, degraded_mode,
                   allocs, minor_fin, major_fin, fin_ready, fin_obj, link,
                   minor_links, major_links>>
    /\ gc_ran' = FALSE

\* then mono_gc_wbarrier_generic_nostore: log the location unless it is in
\* the nursery (ptr_in_nursery is tested now, after the store)
WbarrierGenericNostore(t) ==
    /\ wb[t].kind = "generic_store"
    /\ remset' = IF wb[t].obj \in Nursery THEN remset
                 ELSE [remset EXCEPT ![t] = @ \cup {Entry("location", wb[t].obj)}]
    /\ wb' = [wb EXCEPT ![t] = NoStore]
    /\ UNCHANGED <<mem, stack, root, global_remset, to_space, degraded_mode,
                   allocs, minor_fin, major_fin, fin_ready, fin_obj, link,
                   minor_links, major_links>>
    /\ gc_ran' = FALSE

Logged(t, e) == [remset EXCEPT ![t] = @ \cup {e}]

\* mono_gc_wbarrier_arrayref_copy, called once the caller has copied the
\* slots (mono_array_memcpy_refs): a range entry unless the destination is
\* in the nursery.  A range of one slot is handled (handle_remset) and
\* found (find_in_remset_loc) as a location entry is, so it is one.
WbarrierArrayrefCopy(t) ==
    /\ "arrayref_copy" \in Barriers /\ Idle(t)
    /\ \E a \in stack[t] :
          remset' = IF a \in Nursery THEN remset ELSE Logged(t, Entry("location", a))
    /\ UNCHANGED <<mem, stack, root, global_remset, wb, to_space, degraded_mode,
                   allocs, minor_fin, major_fin, fin_ready, fin_obj, link,
                   minor_links, major_links>>
    /\ gc_ran' = FALSE

\* mono_gc_wbarrier_object, called on a clone once its slots are copied:
\* an object entry, whatever the generation of the object
WbarrierObject(t) ==
    /\ "object" \in Barriers /\ Idle(t)
    /\ \E a \in stack[t] : remset' = Logged(t, Entry("object", a))
    /\ UNCHANGED <<mem, stack, root, global_remset, wb, to_space, degraded_mode,
                   allocs, minor_fin, major_fin, fin_ready, fin_obj, link,
                   minor_links, major_links>>
    /\ gc_ran' = FALSE

\* mono_gc_wbarrier_set_root: the root slot is outside the nursery, so the
\* root-location entry is logged, and the value stored in a later step
WbarrierSetRoot(t) ==
    /\ "set_root" \in Barriers /\ Idle(t)
    /\ \E v \in stack[t] \cup {Null} :
          wb' = [wb EXCEPT ![t] = [kind |-> "set_root", obj |-> Null, val |-> v]]
    /\ remset' = Logged(t, RootEntry)
    /\ UNCHANGED <<mem, stack, root, global_remset, to_space, degraded_mode,
                   allocs, minor_fin, major_fin, fin_ready, fin_obj, link,
                   minor_links, major_links>>
    /\ gc_ran' = FALSE

\* *(void**)ptr = value, after the root-location entry was written
WbarrierSetRootStore(t) ==
    /\ wb[t].kind = "set_root"
    /\ root' = wb[t].val
    /\ wb' = [wb EXCEPT ![t] = NoStore]
    /\ UNCHANGED <<mem, stack, remset, global_remset, to_space, degraded_mode,
                   allocs, minor_fin, major_fin, fin_ready, fin_obj, link,
                   minor_links, major_links>>
    /\ gc_ran' = FALSE

-----------------------------------------------------------------------------
(* Finalizers and disappearing links (all under LOCK_GC)                   *)

Toggle(S, a, on) == IF on THEN S \cup {a} ELSE S \ {a}

\* mono_gc_register_for_finalization: the table is chosen by ptr_in_nursery;
\* a NULL user_data (enable = FALSE) removes the entry
RegisterForFinalization(t) ==
    /\ Finalizers /\ Idle(t)
    /\ \E a \in stack[t], enable \in BOOLEAN :
          /\ minor_fin' = IF a \in Nursery THEN Toggle(minor_fin, a, enable)
                          ELSE minor_fin
          /\ major_fin' = IF a \in Old THEN Toggle(major_fin, a, enable)
                          ELSE major_fin
    /\ UNCHANGED <<mem, stack, root, remset, global_remset, wb, to_space,
                   degraded_mode, allocs, fin_ready, fin_obj, link,
                   minor_links, major_links>>
    /\ gc_ran' = FALSE

\* mono_gc_weak_link_add: mono_gc_register_disappearing_link removes the
\* slot from both tables, then adds it to the table of the object's
\* generation and stores HIDE_POINTER (obj, track) into the slot
WeakLinkAdd(t) ==
    /\ Idle(t)
    /\ \E l \in Links, a \in stack[t], track \in BOOLEAN :
          /\ link' = [link EXCEPT ![l] = [obj |-> a, track |-> track]]
          /\ minor_links' = Toggle(minor_links, l, a \in Nursery)
          /\ major_links' = Toggle(major_links, l, a \in Old)
    /\ UNCHANGED <<mem, stack, root, remset, global_remset, wb, to_space,
                   degraded_mode, allocs, minor_fin, major_fin, fin_ready,
                   fin_obj>>
    /\ gc_ran' = FALSE

\* mono_gc_weak_link_remove: a registered slot is unlinked and set to NULL
WeakLinkRemove(t) ==
    /\ Idle(t)
    /\ \E l \in minor_links \cup major_links :
          /\ link' = [link EXCEPT ![l] = NoLink]
          /\ minor_links' = minor_links \ {l}
          /\ major_links' = major_links \ {l}
    /\ UNCHANGED <<mem, stack, root, remset, global_remset, wb, to_space,
                   degraded_mode, allocs, minor_fin, major_fin, fin_ready,
                   fin_obj>>
    /\ gc_ran' = FALSE

\* mono_gc_weak_link_get: REVEAL_POINTER of a non-NULL slot, without lock
WeakLinkGet(t) ==
    /\ Idle(t)
    /\ \E l \in Links :
          /\ link[l].obj # Null
          /\ stack' = [stack EXCEPT ![t] = @ \cup {link[l].obj}]
    /\ UNCHANGED <<mem, root, wb, Mutator>> /\ gc_ran' = FALSE

\* mono_gc_invoke_finalizers: under the lock, take an entry off the ready
\* list and clear it; the object stays on the finalizer thread's stack
InvokeFinalizer ==
    /\ fin_obj = Null
    /\ \E a \in fin_ready : fin_obj' = a /\ fin_ready' = fin_ready \ {a}
    /\ UNCHANGED <<mem, stack, root, remset, global_remset, wb, to_space,
                   degraded_mode, allocs, minor_fin, major_fin, link,
                   minor_links, major_links>>
    /\ gc_ran' = FALSE

\* mono_gc_run_finalize returns; the finalizer may have stored the object
\* into a static field, resurrecting it
RunFinalize ==
    /\ fin_obj # Null
    /\ fin_obj' = Null
    /\ root' \in {root, fin_obj}
    /\ UNCHANGED <<mem, stack, remset, global_remset, wb, to_space,
                   degraded_mode, allocs, minor_fin, major_fin, fin_ready,
                   link, minor_links, major_links>>
    /\ gc_ran' = FALSE

-----------------------------------------------------------------------------

Init ==
    /\ mem = [a \in Addr |-> FreeCell]
    /\ stack = [t \in Threads |-> {}]
    /\ root = Null
    /\ remset = [t \in Threads |-> {}]
    /\ global_remset = {}
    /\ wb = [t \in Threads |-> NoStore]
    /\ to_space = NurserySize + 1
    /\ degraded_mode = 0
    /\ allocs = 0
    /\ minor_fin = {} /\ major_fin = {} /\ fin_ready = {} /\ fin_obj = Null
    /\ link = [l \in Links |-> NoLink]
    /\ minor_links = {} /\ major_links = {}
    /\ gc_ran = FALSE

Next ==
    \/ \E t \in Threads :
          \/ AllocObj(t) \/ Collect(t)
          \/ LoadField(t) \/ DropRef(t) \/ LoadRoot(t) \/ StoreRoot(t)
          \/ WbarrierSetField(t) \/ WbarrierSetFieldStore(t)
          \/ WbarrierGenericStore(t) \/ WbarrierGenericNostore(t)
          \/ WbarrierArrayrefCopy(t) \/ WbarrierObject(t)
          \/ WbarrierSetRoot(t) \/ WbarrierSetRootStore(t)
          \/ RegisterForFinalization(t)
          \/ WeakLinkAdd(t) \/ WeakLinkRemove(t) \/ WeakLinkGet(t)
    \/ InvokeFinalizer \/ RunFinalize

Spec == Init /\ [][Next]_vars

-----------------------------------------------------------------------------
(* check_consistency, the debugging check collect_nursery runs first when *)
(* consistency_check_at_minor_collection is set.                          *)

\* object layout on a 64-bit target: the two-word header (vtable and
\* synchronisation) and the one reference slot
WordBytes == 8
HeaderWords == 2
ObjectBytes == (HeaderWords + 1) * WordBytes
AllocAlign == 8

\* find_in_remset_loc: whether an entry covers the slot of the object at a.
\* A REMSET_OBJECT entry covers the first count words of its object, count
\* being the size rounded up, masked with ALLOC_ALIGN - 1 and divided by
\* the word size; a root location covers no heap slot.
ObjectEntryWords == ((ObjectBytes + (AllocAlign - 1)) & (AllocAlign - 1)) \div WordBytes

FindInRemsetLoc(e, a) ==
    \/ e.type = "location" /\ e.addr = a
    \/ e.type = "object" /\ e.addr = a /\ HeaderWords < ObjectEntryWords

\* find_in_remsets: the global log, then every thread's log
FindInRemsets(h, a) == \E e \in RemsetEntries(h) : FindInRemsetLoc(e, a)

\* check_remsets_for_area: the objects of the area whose slot points into
\* the nursery and is not found in the remembered sets (each one an
\* "Oldspace->newspace reference ... not found" assertion failure)
CheckRemsetsForArea(h, area) ==
    {o \in area : h.mem[o].live /\ h.mem[o].field \in Nursery
                  /\ ~FindInRemsets(h, o)}

\* check_consistency walks every section but the nursery
CheckConsistency(h) == CheckRemsetsForArea(h, Old)

-----------------------------------------------------------------------------
(* Properties                                                              *)

TypeOK ==
    /\ mem \in [Addr -> [live : BOOLEAN, id : 0 .. MaxAllocs,
                         field : Addr \cup {Null}]]
    /\ stack \in [Threads -> SUBSET Addr]
    /\ root \in Addr \cup {Null}
    /\ remset \in [Threads -> SUBSET ([type : {"location", "object"},
                                        addr : Addr] \cup {RootEntry})]
    /\ global_remset \subseteq [type : {"location"}, addr : Old] \cup {RootEntry}
    /\ wb \in [Threads -> {NoStore} \cup
                 [kind : {"set_field", "generic_store", "set_root"},
                  obj : Addr \cup {Null}, val : Addr \cup {Null}]]
    /\ to_space \in NurserySize + 1 .. NurserySize + OldSize + 1
    /\ degraded_mode \in 0 .. DegradedLimit
    /\ allocs \in 0 .. MaxAllocs
    /\ minor_fin \subseteq Nursery /\ major_fin \subseteq Old
    /\ fin_ready \subseteq Addr /\ fin_obj \in Addr \cup {Null}
    /\ link \in [Links -> {NoLink} \cup [obj : Addr, track : BOOLEAN]]
    /\ minor_links \cup major_links \subseteq Links
    /\ gc_ran \in BOOLEAN

LiveCells == {a \in Addr : mem[a].live}

\* the references the collector must keep valid
Roots == (ConsRefs(Cur) \cup {root} \cup minor_fin \cup major_fin
            \cup fin_ready) \ {Null}

RECURSIVE HeapReach(_)
HeapReach(S) ==
    LET n == S \cup ({mem[a].field : a \in S} \ {Null})
    IN  IF n = S THEN S ELSE HeapReach(n)

IdOf(m, a) == IF a = Null THEN 0 ELSE m[a].id

\* No reference held by a thread, the registered root, a live object's
\* field, a finalizer entry or a disappearing link points to a cell the
\* collector has freed: collect_nursery copies or pins every nursery
\* object that any of them reaches, the write barriers keep the
\* remembered sets complete, and build_nursery_fragments zeroes the rest.
NoDanglingReference ==
    \A a \in (ConsRefs(Cur) \cup {root} \cup {mem[c].field : c \in LiveCells}
               \cup minor_fin \cup major_fin \cup fin_ready
               \cup {link[l].obj : l \in Links}) \ {Null} :
        mem[a].live

\* Between two nursery collections check_consistency finds every
\* old-generation slot that points into the nursery in a remembered set
\* (global or per-thread), except a slot a generic_store barrier has
\* stored to and not yet logged: the write barriers log, and
\* scan_from_remsets keeps in global_remset every location still pointing
\* at a pinned nursery object.
RememberedSetComplete ==
    \A o \in CheckConsistency(Cur) :
        \E t \in Threads : wb[t].kind = "generic_store" /\ wb[t].obj = o

\* An object that a thread's stack or registers point to does not move:
\* no step changes the object at such an address (conservative pinning in
\* collect_nursery, and allocation only into free cells).
PinnedObjectsNeverMove ==
    [][\A a \in ConsRefs(Cur) : mem[a].live => mem'[a].id = mem[a].id]_vars

\* collect_nursery preserves the object graph reachable from the roots
\* (stacks, registers, the registered root, finalizer entries): every such
\* object is still live after the collection, possibly at a new address,
\* and its field still refers to the same object.
CollectionPreservesReachableGraph ==
    [][gc_ran' =>
         \A a \in HeapReach(Roots) :
            \E b \in Addr :
               /\ mem'[b].live /\ mem'[b].id = mem[a].id
               /\ IdOf(mem', mem'[b].field) = IdOf(mem, mem[a].field)]_vars

\* A non-tracking disappearing link is nulled no later than the collection
\* in which finalize_in_range queues its object for finalization (the
\* design: "a non-tracking link is nulled as soon as its target becomes
\* finalizable").
ShortLinkNulledAtFinalization ==
    [][gc_ran' =>
         \A l \in Links :
            link'[l].obj # Null /\ ~link'[l].track =>
               link'[l].obj \notin fin_ready' \ fin_ready]_vars

\* A disappearing link never keeps its object alive: after a nursery
\* collection a link still refers to an object that was reachable from the
\* roots, the finalizer tables or the old generation (which a nursery
\* collection treats as live).  null_link_in_range intends this for
\* tracking links too ("so that the object can be collected in the next
\* cycle").
LinkDoesNotRetainObject ==
    [][gc_ran' =>
         \A l \in Links :
            link'[l].obj # Null =>
               IdOf(mem', link'[l].obj)
                  \in {mem[a].id : a \in HeapReach(Roots \cup (LiveCells \cap Old))}]_vars
=============================================================================
