------------------------- MODULE SgenNurseryPinning -------------------------
(***************************************************************************)
(* Conservative pinning in the nursery of Mono's SGen collector, sgen-gc.c *)
(* with the allocator that lays the nursery out: mono_gc_alloc_obj's TLAB *)
(* path, the direct nursery path for objects larger than a TLAB, degraded *)
(* allocation, search_fragment_for_size, and the part of collect_nursery  *)
(* that decides what stays in the nursery: the clearing of the remaining  *)
(* fragments, pin_from_roots / conservatively_pin_objects_from,           *)
(* optimize_pin_queue (sort_addresses, a comb sort, and the uniq loop),    *)
(* pin_objects_from_addresses (the search from the scan starts and the     *)
(* walk over objects and zeroed words) and build_nursery_fragments.       *)
(*                                                                         *)
(* The nursery is an array of granules of ALLOC_ALIGN bytes holding zero,  *)
(* an object header (its size in granules) or a body word.  Stack words    *)
(* are pointer-sized words; conservatively_pin_objects_from's              *)
(* addr &= ~(ALLOC_ALIGN - 1) is the division by WordsPerGranule.  Every   *)
(* allocation runs under LOCK_GC and a collection with the world stopped,  *)
(* so each is one step.  The copying of the objects that are not pinned is *)
(* left out: they leave the nursery, and their memory stays as it was     *)
(* (nursery_clear_policy is CLEAR_AT_TLAB_CREATION).                       *)
(***************************************************************************)
EXTENDS Naturals, Sequences, SequencesExt, FiniteSets, Functions, TLC

CONSTANTS
    NurseryGranules,    \* nursery_size / ALLOC_ALIGN
    ScanStartGranules,  \* SCAN_START_SIZE / ALLOC_ALIGN
    TlabGranules,       \* tlab_size / ALLOC_ALIGN
    FragMinGranules,    \* FRAGMENT_MIN_SIZE / ALLOC_ALIGN
    WordsPerGranule,    \* ALLOC_ALIGN / sizeof (gpointer)
    ObjSizes,           \* object sizes (rounded to ALLOC_ALIGN), in granules
    Threads,
    RootWords,          \* words of the stacks and pinned roots scanned
    StackValues,        \* the values those words may hold
    MaxAllocs,          \* bound on allocations
    MaxCollections      \* bound on nursery collections

ASSUME /\ NurseryGranules % ScanStartGranules = 0
       /\ TlabGranules < ScanStartGranules    \* 4 KB < 8 KB
       /\ FragMinGranules <= TlabGranules     \* 512 B <= 4 KB
       /\ ObjSizes \subseteq 1 .. NurseryGranules

NULL == 0
NurseryStart == 1
NurseryEnd == NurseryStart + NurseryGranules     \* nursery_real_end
Granules == NurseryStart .. NurseryEnd - 1
Blocks == 0 .. NurseryGranules \div ScanStartGranules - 1
Block(g) == (g - NurseryStart) \div ScanStartGranules
DefaultNurserySize == NurseryGranules

Zero == 0
Body == NurseryGranules + 1          \* a non-zero word inside an object
\* safe_object_get_size of what a walk takes for a header; a body word read
\* as a header is given one granule.
HeaderSize(v) == IF v = Body THEN 1 ELSE v

NoTlab == [start |-> NULL, next |-> NULL, temp_end |-> NULL, real_end |-> NULL]

VARIABLES
    heap,            \* Granules -> Zero, a header size, or Body
    objs,            \* ghost: address -> size of the objects allocated in the
                     \* nursery since the last collection and of the ones
                     \* it left pinned
    scan_starts,     \* nursery_section->scan_starts
    fragments,       \* nursery_fragments, a list of <<start, end>>
    nursery_next,
    nursery_frag_real_end,
    tlab,            \* per thread: TLAB_START, _NEXT, _TEMP_END, _REAL_END
    degraded_mode,   \* in granules
    pin_queue,       \* pin_queue [0 .. last_num_pinned - 1]
    containing,      \* ghost: the objects a scanned word points into
    nursery_section, \* whether alloc_nursery has run
    allocs, collections

vars == <<nursery_section, heap, objs, scan_starts, fragments, nursery_next,
          nursery_frag_real_end, tlab, degraded_mode, pin_queue, containing,
          allocs, collections>>

Cur == [nursery_section |-> nursery_section, heap |-> heap, objs |-> objs, scan_starts |-> scan_starts,
        fragments |-> fragments, nursery_next |-> nursery_next,
        nursery_frag_real_end |-> nursery_frag_real_end, tlab |-> tlab,
        degraded_mode |-> degraded_mode, pin_queue |-> pin_queue,
        containing |-> containing, allocs |-> allocs,
        collections |-> collections]

Commit(h) ==
    /\ nursery_section' = h.nursery_section
    /\ heap' = h.heap /\ objs' = h.objs /\ scan_starts' = h.scan_starts
    /\ fragments' = h.fragments /\ nursery_next' = h.nursery_next
    /\ nursery_frag_real_end' = h.nursery_frag_real_end /\ tlab' = h.tlab
    /\ degraded_mode' = h.degraded_mode /\ pin_queue' = h.pin_queue
    /\ containing' = h.containing /\ allocs' = h.allocs
    /\ collections' = h.collections

\* memset (start, 0, end - start)
ZeroRange(hp, start, end) ==
    [g \in Granules |-> IF start <= g /\ g < end THEN Zero ELSE hp[g]]

\* The object at p: its header (the vtable store) and its body.
PlaceObject(hp, p, size) ==
    [g \in Granules |-> IF g = p THEN size
                        ELSE IF p < g /\ g < p + size THEN Body ELSE hp[g]]

Inside(hp, o, g) == o <= g /\ g < o + hp[o]

-----------------------------------------------------------------------------
(* optimize_pin_queue                                                      *)

\* new_gap: the comb sort's shrink by 10/13, with the comb-11 rule.
NewGap(gap) ==
    LET g == (gap * 10) \div 13
    IN IF g = 9 \/ g = 10 THEN 11 ELSE IF g < 1 THEN 1 ELSE g

\* One pass of sort_addresses: compare and swap array [i], array [i + gap]
\* for i < size - gap (sequence indexes are one more than array indexes).
RECURSIVE CombPass(_, _, _, _)
CombPass(a, gap, i, swapped) ==
    IF i >= Len(a) - gap THEN [arr |-> a, swapped |-> swapped]
    ELSE IF a[i + 1] > a[i + 1 + gap]
         THEN CombPass([a EXCEPT ![i + 1] = a[i + 1 + gap], ![i + 1 + gap] = a[i + 1]],
                       gap, i + 1, TRUE)
         ELSE CombPass(a, gap, i + 1, swapped)

\* while (TRUE) { ... if (gap == 1 && !swapped) break; }
SortDone(gap, swapped) == gap = 1 /\ ~swapped

RECURSIVE SortLoop(_, _)
SortLoop(a, gap) ==
    LET g == NewGap(gap)
        r == CombPass(a, g, 0, FALSE)
    IN IF SortDone(g, r.swapped) THEN r.arr ELSE SortLoop(r.arr, g)

SortAddresses(a) == SortLoop(a, Len(a))

\* The uniq loop: an entry equal to the last one kept is dropped.
UniqSorted(a) ==
    FoldLeft(LAMBDA acc, x : IF acc # <<>> /\ Last(acc) = x THEN acc ELSE Append(acc, x),
             <<>>, a)

OptimizePinQueue(q) ==
    UniqSorted(IF Len(q) > 1 THEN SortAddresses(q) ELSE q)

-----------------------------------------------------------------------------
(* pin_from_roots and pin_objects_from_addresses                           *)

\* conservatively_pin_objects_from over the pinned roots and the thread
\* stacks: a word inside [nursery_start, nursery_next) is queued, aligned
\* down to ALLOC_ALIGN.  collect_nursery has raised nursery_next to
\* nursery_real_end.
PinFromRoots(roots) ==
    LET inNursery == SelectSeq(roots, LAMBDA w : NurseryStart * WordsPerGranule <= w
                                                 /\ w < NurseryEnd * WordsPerGranule)
    IN [i \in DOMAIN inNursery |-> inNursery[i] \div WordsPerGranule]

\* A word read while walking; past the nursery end it reads as zero.
WordAt(hp, g) == IF g \in Granules THEN hp[g] ELSE Zero

\* The search start: scan_starts [idx] if set and not past addr, else the
\* nearest lower block whose entry is, else start_nursery.
ScanStartFor(ss, addr) ==
    LET idx == Block(addr)
        below == {i \in 0 .. idx - 1 : ss[i] # NULL /\ ss[i] <= addr}
    IN IF ss[idx] # NULL /\ ss[idx] <= addr THEN ss[idx]
       ELSE IF below = {} THEN NurseryStart
       ELSE ss[Max(below)]

\* The do-while walk: a zero word is skipped (p += sizeof (gpointer),
\* rounded up to ALLOC_ALIGN), anything else is taken for an object
\* header; the object holding addr is pinned.
RECURSIVE Walk(_, _, _, _)
Walk(hp, s, addr, acc) ==
    IF WordAt(hp, s) = Zero
    THEN IF s + 1 <= addr THEN Walk(hp, s + 1, addr, acc) ELSE acc
    ELSE LET size == HeaderSize(WordAt(hp, s))
             found == [acc EXCEPT !.last_obj = s, !.last_obj_size = size]
         IN IF s <= addr /\ addr < s + size
            THEN [found EXCEPT !.out = Append(@, s)]
            ELSE IF s + size <= addr THEN Walk(hp, s + size, addr, found)
            ELSE found

\* One address of the sorted queue.
PinAddress(hp, ss, acc, addr) ==
    IF addr = acc.last THEN acc
    ELSE IF acc.last_obj <= addr /\ addr < acc.last_obj + acc.last_obj_size
    THEN acc                                   \* another pointer into last_obj
    ELSE LET s0 == ScanStartFor(ss, addr)
             s == IF s0 < acc.last_obj THEN acc.last_obj + acc.last_obj_size ELSE s0
         IN [Walk(hp, s, addr, acc) EXCEPT !.last = addr]

\* The objects pinned, in the order definitely_pinned receives them.
PinObjectsFromAddresses(hp, ss, addrs) ==
    LET Step(acc, addr) == PinAddress(hp, ss, acc, addr)
    IN FoldLeft(Step, [last |-> NULL, last_obj |-> NULL, last_obj_size |-> 0,
                       out |-> <<>>], addrs).out

-----------------------------------------------------------------------------
(* build_nursery_fragments                                                 *)

\* add_nursery_frag: a fragment of FRAGMENT_MIN_SIZE or more is pushed on
\* nursery_fragments; a smaller one is only zeroed.
AddNurseryFrag(acc, start, end) ==
    IF end - start = 0 THEN acc
    ELSE IF end - start >= FragMinGranules
    THEN [acc EXCEPT !.frags = <<<<start, end>>>> \o @]
    ELSE [acc EXCEPT !.heap = ZeroRange(@, start, end)]

\* mutant: the next fragment starts at the pinned object, not past it
PinnedObjectEndAtStart(hp, p) == p

\* frag_start = pin_queue [i] + safe_object_get_size (pin_queue [i])
PinnedObjectEnd(hp, p) == p + HeaderSize(hp[p])

\* The scan starts are cleared and set to the pinned objects; the gaps
\* between pinned objects become the fragments.
BuildNurseryFragments(hp, pinned) ==
    LET Step(acc, p) ==
            LET a == AddNurseryFrag(acc, acc.frag_start, p)
            IN [a EXCEPT !.scan_starts[Block(p)] = p,
                         !.frag_start = PinnedObjectEnd(hp, p)]
        r == FoldLeft(Step, [frag_start |-> NurseryStart, frags |-> <<>>, heap |-> hp,
                             scan_starts |-> [i \in Blocks |-> NULL]], pinned)
    IN AddNurseryFrag(r, r.frag_start, NurseryEnd)

-----------------------------------------------------------------------------
(* collect_nursery                                                         *)

\* The objects a scanned word points into: what pinning must find.
ContainingObjects(h, addrs) ==
    {o \in DOMAIN h.objs : \E i \in DOMAIN addrs : o <= addrs[i] /\ addrs[i] < o + h.objs[o]}

\* "Clear all remaining nursery fragments, pinning depends on this": the
\* rest of the current fragment and every fragment still on the list.
ClearFragments(h) ==
    LET rest == ZeroRange(h.heap, h.nursery_next, h.nursery_frag_real_end)
    IN FoldLeft(LAMBDA hp, f : ZeroRange(hp, f[1], f[2]), rest, h.fragments)

\* collect_nursery (0) with the world stopped, for the words roots that
\* pin_from_roots reads.  Objects not pinned are copied out of the nursery
\* and leave their memory as it is.
CollectNursery(h, roots) ==
    LET hp == ClearFragments(h)
        addrs == PinFromRoots(roots)
        pinned == PinObjectsFromAddresses(hp, h.scan_starts, OptimizePinQueue(addrs))
        b == BuildNurseryFragments(hp, pinned)
    IN [h EXCEPT !.heap = b.heap,
                 !.objs = Restrict(h.objs, ToSet(pinned) \cap DOMAIN h.objs),
                 !.containing = ContainingObjects(h, addrs),
                 !.pin_queue = pinned,
                 !.scan_starts = b.scan_starts,
                 !.fragments = b.frags,
                 !.degraded_mode = IF b.frags = <<>> THEN 1 ELSE 0,
                 !.nursery_next = NULL,
                 !.nursery_frag_real_end = NULL,
                 !.tlab = [t \in Threads |-> NoTlab],      \* clear_tlabs
                 !.collections = @ + 1]

-----------------------------------------------------------------------------
(* search_fragment_for_size and minor_collect_or_expand_inner              *)

FitFragments(h, size) ==
    {i \in DOMAIN h.fragments : size <= h.fragments[i][2] - h.fragments[i][1]}

\* mutant: the rest of the current fragment is left as it is
ClearRemainingKept(h) == h.heap

\* "Clear the remaining space, pinning depends on this"
ClearRemaining(h) ==
    IF h.nursery_frag_real_end > h.nursery_next
    THEN ZeroRange(h.heap, h.nursery_next, h.nursery_frag_real_end)
    ELSE h.heap

\* The first listed fragment large enough, if any, is unlinked and becomes
\* the current one.
SearchFragmentForSize(h, size) ==
    LET hp == ClearRemaining(h)
        fit == FitFragments(h, size)
        i == Min(fit)
    IN IF fit = {} THEN [h EXCEPT !.heap = hp]
       ELSE [h EXCEPT !.heap = hp,
                      !.fragments = RemoveAt(@, i),
                      !.nursery_next = h.fragments[i][1],
                      !.nursery_frag_real_end = h.fragments[i][2]]

\* Called when no fragment fits: the first time it allocates the nursery
\* (one fragment, the whole of it, zeroed OS memory); after that it
\* collects and searches again, and falls back to degraded mode.
MinorCollectOrExpand(h, size, roots) ==
    IF ~h.nursery_section
    THEN [h EXCEPT !.nursery_section = TRUE, !.nursery_next = NurseryStart,
                   !.nursery_frag_real_end = NurseryEnd]
    ELSE LET c == CollectNursery(h, roots)
         IN IF FitFragments(c, size) # {} THEN SearchFragmentForSize(c, size)
            ELSE [SearchFragmentForSize(c, size) EXCEPT !.degraded_mode = 1]

\* mutant: the test forgets the size and only asks for a non-empty fragment
MakeRoomIgnoringSize(h, size, roots) ==
    IF h.nursery_next < h.nursery_frag_real_end THEN h
    ELSE IF FitFragments(h, size) # {} THEN SearchFragmentForSize(h, size)
    ELSE MinorCollectOrExpand(SearchFragmentForSize(h, size), size, roots)

\* The nursery_next + size >= nursery_frag_real_end test and what follows it:
\* the state from which the request is carved out of the current fragment,
\* or degraded_mode set.
MakeRoom(h, size, roots) ==
    IF h.nursery_next + size < h.nursery_frag_real_end THEN h
    ELSE IF FitFragments(h, size) # {} THEN SearchFragmentForSize(h, size)
    ELSE MinorCollectOrExpand(SearchFragmentForSize(h, size), size, roots)

\* Whether MakeRoom collects, so that the roots it reads matter.
Collects(h, size) ==
    h.nursery_next + size >= h.nursery_frag_real_end /\ FitFragments(h, size) = {}
    /\ h.nursery_section

-----------------------------------------------------------------------------
(* mono_gc_alloc_obj and mono_gc_collect                                   *)

\* Whether the slow path reaches minor_collect_or_expand_inner.
CallsMinor(h, size) ==
    h.nursery_next + size >= h.nursery_frag_real_end /\ FitFragments(h, size) = {}

NoRoots == [i \in 1 .. RootWords |-> NULL]

\* The words a collection reads: any stack contents when the step collects.
RootsFor(h, size) ==
    IF CallsMinor(h, size) /\ h.nursery_section
    THEN [1 .. RootWords -> StackValues] ELSE {NoRoots}

CanCollect(h, size) ==
    CallsMinor(h, size) /\ h.nursery_section => collections < MaxCollections

\* alloc_degraded: the object goes to an old-generation section.
AllocDegradedFrom(h, size) ==
    [h EXCEPT !.degraded_mode = @ + size, !.allocs = @ + 1]

\* TLAB_NEXT += size; new_next < TLAB_TEMP_END: the fast path.
AllocFast(t, s) ==
    LET p == tlab[t].next
    IN /\ allocs < MaxAllocs
       /\ p + s < tlab[t].temp_end
       /\ heap' = PlaceObject(heap, p, s)
       /\ objs' = objs @@ (p :> s)
       /\ tlab' = [tlab EXCEPT ![t].next = p + s]
       /\ allocs' = allocs + 1
       /\ UNCHANGED <<nursery_section, scan_starts, fragments, nursery_next,
                      nursery_frag_real_end, degraded_mode, pin_queue,
                      containing, collections>>

\* The slow path, TLAB_NEXT >= TLAB_REAL_END (TLAB_TEMP_END is
\* TLAB_REAL_END since tlab_size < SCAN_START_SIZE): the TLAB is retired.
SlowPath(t, s) ==
    /\ allocs < MaxAllocs
    /\ tlab[t].next + s >= tlab[t].temp_end

\* degraded_mode && degraded_mode < DEFAULT_NURSERY_SIZE: keep allocating
\* outside the nursery.
AllocDegraded(t, s) ==
    /\ SlowPath(t, s)
    /\ degraded_mode # 0 /\ degraded_mode < DefaultNurserySize
    /\ Commit(AllocDegradedFrom(Cur, s))

NotDegraded == degraded_mode = 0 \/ degraded_mode >= DefaultNurserySize

\* size > tlab_size: allocate directly from the nursery, with no scan start.
AllocDirect(t, s) ==
    /\ SlowPath(t, s) /\ NotDegraded /\ s > TlabGranules
    /\ CanCollect(Cur, s)
    /\ \E roots \in RootsFor(Cur, s) :
         LET r == MakeRoom(Cur, s, roots)
             p == r.nursery_next
         IN IF CallsMinor(Cur, s) /\ r.degraded_mode # 0
            THEN Commit(AllocDegradedFrom(r, s))
            ELSE Commit([r EXCEPT !.heap = PlaceObject(ZeroRange(@, p, p + s), p, s),
                                  !.nursery_next = p + s,
                                  !.objs = @ @@ (p :> s),
                                  !.allocs = @ + 1])

\* A new TLAB from the current fragment, zeroed, whose first object
\* becomes the scan start of its block.
AllocNewTlab(t, s) ==
    /\ SlowPath(t, s) /\ NotDegraded /\ s <= TlabGranules
    /\ CanCollect(Cur, TlabGranules)
    /\ \E roots \in RootsFor(Cur, TlabGranules) :
         LET r == MakeRoom(Cur, TlabGranules, roots)
             st == r.nursery_next
             end == st + TlabGranules
         IN IF CallsMinor(Cur, TlabGranules) /\ r.degraded_mode # 0
            THEN Commit(AllocDegradedFrom(r, s))
            ELSE Commit([r EXCEPT !.heap = PlaceObject(ZeroRange(@, st, end), st, s),
                                  !.nursery_next = end,
                                  !.tlab[t] = [start |-> st, next |-> st + s,
                                               temp_end |-> end, real_end |-> end],
                                  !.scan_starts[Block(st)] = st,
                                  !.objs = @ @@ (st :> s),
                                  !.allocs = @ + 1])

\* mono_gc_collect (0): a nursery collection with the world stopped.
Collect ==
    /\ nursery_section /\ collections < MaxCollections
    /\ \E roots \in [1 .. RootWords -> StackValues] :
         Commit(CollectNursery(Cur, roots))

Init ==
    /\ nursery_section = FALSE
    /\ heap = [g \in Granules |-> Zero]
    /\ objs = <<>>
    /\ scan_starts = [i \in Blocks |-> NULL]
    /\ fragments = <<>>
    /\ nursery_next = NULL /\ nursery_frag_real_end = NULL
    /\ tlab = [t \in Threads |-> NoTlab]
    /\ degraded_mode = 0
    /\ pin_queue = <<>> /\ containing = {}
    /\ allocs = 0 /\ collections = 0

Next ==
    \/ \E t \in Threads, s \in ObjSizes :
         \/ AllocFast(t, s)
         \/ AllocDegraded(t, s)
         \/ AllocDirect(t, s)
         \/ AllocNewTlab(t, s)
    \/ Collect

Spec == Init /\ [][Next]_vars

-----------------------------------------------------------------------------
(* Properties                                                              *)

TypeOK ==
    /\ nursery_section \in BOOLEAN
    /\ heap \in [Granules -> 0 .. Body]
    /\ DOMAIN objs \subseteq Granules /\ \A o \in DOMAIN objs : objs[o] \in ObjSizes
    /\ scan_starts \in [Blocks -> {NULL} \cup Granules]
    /\ nursery_next <= nursery_frag_real_end
    /\ degraded_mode \in Nat /\ allocs \in 0 .. MaxAllocs
    /\ collections \in 0 .. MaxCollections

\* After each nursery collection the pin queue (pin_objects_from_addresses's
\* definitely_pinned, sorted by optimize_pin_queue) holds, in increasing
\* order and once each, exactly the objects some scanned word points into:
\* no object referenced from a stack is left to be moved, and no zeroed or
\* stale memory is taken for an object.  It depends on the comb sort, on the
\* walk from the scan starts, and on every free byte of the nursery having
\* been zeroed by the allocator or the collector before the walk.
PinQueueIsContainingObjects ==
    /\ ToSet(pin_queue) = containing
    /\ IsSorted(pin_queue, LAMBDA a, b : a < b)

\* Every object allocated in the nursery, or pinned there by a collection,
\* keeps its header and fields: no TLAB, direct allocation or fragment
\* built by build_nursery_fragments overlaps an object still in use.
LiveObjectsIntact ==
    \A o \in DOMAIN objs :
        /\ o + objs[o] <= NurseryEnd
        /\ heap[o] = objs[o]
        /\ \A g \in o + 1 .. o + objs[o] - 1 : heap[g] = Body

=============================================================================
