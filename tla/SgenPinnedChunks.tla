--------------------------- MODULE SgenPinnedChunks ---------------------------
(***************************************************************************)
(* The page/size-class allocator of sgen-gc.c: PinnedChunk, build_freelist, *)
(* alloc_pinned_chunk, get_chunk_freelist, alloc_from_freelist,            *)
(* get_internal_mem, free_internal_mem, free_pinned_object, and the major   *)
(* collection's mark_pinned_from_addresses / sweep_pinned_objects over the  *)
(* pinned_chunk_list, with mono_gc_alloc_pinned_obj and the domain unload   *)
(* scan.  Every entry point runs under LOCK_GC or with the world stopped,   *)
(* so each is one atomic step.                                              *)
(*                                                                         *)
(* Memory is modelled by word address: mem[a] is the first word stored at   *)
(* a.  A chunk is NumPages pages of PageSize bytes at ChunkBase(c); page 0  *)
(* starts at start_data, StartOffset bytes into the chunk.  A free block's  *)
(* first word is the next pointer of its free list (0 is NULL); an object  *)
(* allocated by mono_gc_alloc_pinned_obj has its vtable there, an address  *)
(* outside every chunk.                                                    *)
(***************************************************************************)
EXTENDS Naturals, Sequences, FiniteSets

CONSTANTS
    PageSize,       \* FREELIST_PAGESIZE
    NumPages,       \* chunk->num_pages of every chunk (the chunk size is fixed by PINNED_CHUNK_MIN_SIZE)
    StartOffset,    \* start_data - chunk: the bookkeeping header in page 0
    FreelistSizes,  \* freelist_sizes, ascending
    FirstSlotSize,  \* PINNED_FIRST_SLOT_SIZE
    MaxChunks,      \* bound on get_os_memory calls for chunks
    Requests,       \* sizes passed to get_internal_mem / mono_gc_alloc_pinned_obj
    MaxOps          \* bound on the number of entry-point calls

Lists == {"pinned", "internal"}     \* pinned_chunk_list, internal_chunk_list
AllocAlign == 8                      \* ALLOC_ALIGN, also the word size
NumSlots == Len(FreelistSizes)
Slots == 1..NumSlots
Pages == 0..NumPages-1
ChunkIds == 1..MaxChunks
ChunkBytes == NumPages * PageSize
ChunkBase(c) == c * ChunkBytes
ChunkEnd(c) == ChunkBase(c) + ChunkBytes
Words == {a \in ChunkBase(1)..ChunkEnd(MaxChunks) - 1 : a % AllocAlign = 0}
\* a vtable lives outside every chunk
VTable == ChunkEnd(MaxChunks + 1)

VARIABLES
    chunk_list,   \* chunk_list[L]: the chunks of list L, head first
    next_chunk,   \* the next chunk get_os_memory would return
    page_sizes,   \* page_sizes[c][i]: 0 if page i is unused, else its block size
    free_list,    \* free_list[c][s]: head of the slot-s free list of chunk c, 0 if empty
    mem,          \* mem[a]: the first word at address a
    allocated,    \* allocated[L]: blocks handed out from list L and not freed (ghost)
    gcs,          \* number of major collections (ghost)
    roots,        \* the conservative addresses of the last major collection (ghost)
    precise,      \* the objects the last major collection reached precisely (ghost)
    ops           \* number of entry-point calls so far

vars == <<chunk_list, next_chunk, page_sizes, free_list, mem, allocated,
          gcs, roots, precise, ops>>

(* slot_for_size: the first size class that holds size bytes. *)
SlotForSize(size) ==
    CHOOSE s \in Slots : FreelistSizes[s] >= size /\ \A r \in 1..s-1 : FreelistSizes[r] < size

PageStart(c, i) == IF i = 0 THEN ChunkBase(c) + StartOffset ELSE ChunkBase(c) + i * PageSize
PageEnd(c, i) == ChunkBase(c) + (i + 1) * PageSize

(* build_freelist: the loop writes the next pointer of every block whose   *)
(* successor still fits below end = end_page - size, then NULL.            *)
\* mutant: the loop bound uses end_page instead of end_page - size
BuildCountOverrun(size, start, endp) ==
    IF endp >= start THEN (endp - start) \div size + 1 ELSE 1

BuildCount(size, start, endp) ==
    IF endp - size >= start THEN (endp - size - start) \div size + 1 ELSE 1

BuildFreelist(c, slot, size, start, endp, fl, m) ==
    LET n == BuildCount(size, start, endp)
        blk(k) == start + k * size
    IN [fl |-> [fl EXCEPT ![c][slot] = start],
        mem |-> [a \in Words |->
                   IF \E k \in 0..n-2 : a = blk(k) THEN a + size
                   ELSE IF a = blk(n - 1) THEN 0
                   ELSE m[a]]]

(* The chunk whose pages hold address a (free_internal_mem's range test). *)
ChunkOf(a) == CHOOSE c \in ChunkIds : ChunkBase(c) <= a /\ a < ChunkEnd(c)
PageOf(a) == (a - ChunkBase(ChunkOf(a))) \div PageSize

(* get_chunk_freelist's search: the first page with page_sizes[i] = 0.     *)
UnusedPages(c, ps) == {i \in Pages : ps[c][i] = 0}
FirstUnused(c, ps) == CHOOSE i \in UnusedPages(c, ps) : \A j \in UnusedPages(c, ps) : i <= j

(* get_chunk_freelist (c, slot) on a chunk whose slot list is empty: carve  *)
(* the first unused page, if any.                                          *)
CarvePage(c, slot, ps, fl, m) ==
    IF UnusedPages(c, ps) = {} THEN [ps |-> ps, fl |-> fl, mem |-> m]
    ELSE LET i == FirstUnused(c, ps)
             size == FreelistSizes[slot]
             b == BuildFreelist(c, slot, size, PageStart(c, i), PageEnd(c, i), fl, m)
         IN [ps |-> [ps EXCEPT ![c][i] = size], fl |-> b.fl, mem |-> b.mem]

(* alloc_pinned_chunk: a fresh zeroed chunk whose page 0 is carved for     *)
(* PINNED_FIRST_SLOT_SIZE.                                                 *)
NewChunk(c, ps, fl, m) ==
    LET fs == SlotForSize(FirstSlotSize)
        ps0 == [ps EXCEPT ![c] = [i \in Pages |-> IF i = 0 THEN FirstSlotSize ELSE 0]]
        b == BuildFreelist(c, fs, FirstSlotSize, PageStart(c, 0), PageEnd(c, 0),
                           [fl EXCEPT ![c] = [s \in Slots |-> 0]], m)
    IN [ps |-> ps0, fl |-> b.fl, mem |-> b.mem]

(* The three searches of alloc_from_freelist / get_internal_mem, in order: *)
(* a chunk of the list whose slot list is non-empty; else the first chunk  *)
(* with an unused page (get_chunk_freelist); else a new chunk, prepended.  *)
(* The result names the chunk to pop from and the state before the pop.    *)
FindBlock(L, slot) ==
    LET cs == chunk_list[L]
        withFree == {k \in 1..Len(cs) : free_list[cs[k]][slot] # 0}
        withPage == {k \in 1..Len(cs) : UnusedPages(cs[k], page_sizes) # {}}
        first(S) == CHOOSE k \in S : \A j \in S : k <= j
        cur == [ps |-> page_sizes, fl |-> free_list, mem |-> mem]
    IN CASE withFree # {} -> [c |-> cs[first(withFree)], st |-> cur, new |-> FALSE]
         [] withPage # {} -> [c |-> cs[first(withPage)], new |-> FALSE,
                              st |-> CarvePage(cs[first(withPage)], slot, page_sizes, free_list, mem)]
         [] next_chunk > MaxChunks -> [c |-> 0, new |-> TRUE, st |-> cur]
         [] OTHER -> LET n == NewChunk(next_chunk, page_sizes, free_list, mem)
                     IN [c |-> next_chunk, new |-> TRUE,
                         st |-> IF n.fl[next_chunk][slot] # 0 THEN n
                                ELSE CarvePage(next_chunk, slot, n.ps, n.fl, n.mem)]

(* Words of the block [p, p + size) that memset clears. *)
Span(p, size) == {a \in Words : p <= a /\ a < p + size}

\* mutant: the first word is stored before the memset instead of after it
AllocBlockVTableFirst(L, size, first) ==
    LET slot == SlotForSize(size)
        f == FindBlock(L, slot)
        c == f.c
        p == f.st.fl[c][slot]
    IN /\ c # 0
       /\ p # 0
       /\ chunk_list' = IF f.new THEN [chunk_list EXCEPT ![L] = <<c>> \o @] ELSE chunk_list
       /\ next_chunk' = IF f.new THEN next_chunk + 1 ELSE next_chunk
       /\ page_sizes' = f.st.ps
       /\ free_list' = [f.st.fl EXCEPT ![c][slot] = f.st.mem[p]]
       /\ mem' = [a \in Words |-> IF a \in Span(p, size) THEN 0 ELSE f.st.mem[a]]
       /\ allocated' = [allocated EXCEPT ![L] = @ \cup {p}]

(* The common tail of alloc_from_freelist and get_internal_mem: pop the    *)
(* head p of the slot list (free_list[slot] = *p), then memset (p, 0, size) *)
(* and store first as the block's first word (the vtable, or 0).           *)
AllocBlock(L, size, first) ==
    LET slot == SlotForSize(size)
        f == FindBlock(L, slot)
        c == f.c
        p == f.st.fl[c][slot]
    IN /\ c # 0
       /\ p # 0
       /\ chunk_list' = IF f.new THEN [chunk_list EXCEPT ![L] = <<c>> \o @] ELSE chunk_list
       /\ next_chunk' = IF f.new THEN next_chunk + 1 ELSE next_chunk
       /\ page_sizes' = f.st.ps
       /\ free_list' = [f.st.fl EXCEPT ![c][slot] = f.st.mem[p]]
       /\ mem' = [a \in Words |-> IF a = p THEN first
                                  ELSE IF a \in Span(p, size) THEN 0
                                  ELSE f.st.mem[a]]
       /\ allocated' = [allocated EXCEPT ![L] = @ \cup {p}]

AlignUp(size) == ((size + AllocAlign - 1) \div AllocAlign) * AllocAlign

(* get_internal_mem for a size that has a slot. *)
GetInternalMem(size) ==
    /\ ops < MaxOps
    /\ AllocBlock("internal", size, 0)
    /\ ops' = ops + 1
    /\ UNCHANGED <<gcs, roots, precise>>

(* mono_gc_alloc_pinned_obj for a size up to MAX_FREELIST_SIZE. *)
AllocPinnedObj(size) ==
    /\ ops < MaxOps
    /\ AllocBlock("pinned", AlignUp(size), VTable)
    /\ ops' = ops + 1
    /\ UNCHANGED <<gcs, roots, precise>>

(* free_internal_mem: find the internal chunk holding addr, push addr on   *)
(* the list of the slot of its page (with *p = free_list[slot]; free_list[slot] *)
(* = p).                                                                   *)
FreeInternalMem(a) ==
    /\ ops < MaxOps
    /\ a \in allocated["internal"]
    /\ LET c == ChunkOf(a)
           slot == SlotForSize(page_sizes[c][PageOf(a)])
       IN /\ mem' = [mem EXCEPT ![a] = free_list[c][slot]]
          /\ free_list' = [free_list EXCEPT ![c][slot] = a]
    /\ allocated' = [allocated EXCEPT !["internal"] = @ \ {a}]
    /\ ops' = ops + 1
    /\ UNCHANGED <<chunk_list, next_chunk, page_sizes, gcs, roots, precise>>

(* scan_pinned_objects: the blocks of every used page of chunk c; a block  *)
(* is reported as an object when its first word is non-NULL and outside    *)
(* the chunk (a vtable rather than a free-list link).                      *)
UsedPages(c) == {i \in Pages : page_sizes[c][i] # 0}
ScanBlocks(c) ==
    UNION {{PageStart(c, i) + k * page_sizes[c][i] :
              k \in 0..((PageEnd(c, i) - PageStart(c, i)) \div page_sizes[c][i]) - 1} :
           i \in UsedPages(c)}
ScannedObjects(c) ==
    {p \in ScanBlocks(c) :
        /\ mem[p] # 0
        /\ (mem[p] < ChunkBase(c) \/ mem[p] >= ChunkEnd(c))}

PinnedChunks == {chunk_list["pinned"][k] : k \in 1..Len(chunk_list["pinned"])}

(* free_pinned_object applied to every block of D in scan order (ascending *)
(* address): each push links the block to the previous head of its slot.   *)
PushAll(D) ==
    LET slotOf(b) == SlotForSize(page_sizes[ChunkOf(b)][PageOf(b)])
        same(b) == {d \in D : ChunkOf(d) = ChunkOf(b) /\ slotOf(d) = slotOf(b)}
        below(b) == {d \in same(b) : d < b}
        top(S) == CHOOSE d \in S : \A e \in S : e <= d
    IN [fl |-> [c \in ChunkIds |-> [s \in Slots |->
                  LET Ds == {d \in D : ChunkOf(d) = c /\ slotOf(d) = s}
                  IN IF Ds = {} THEN free_list[c][s] ELSE top(Ds)]],
        mem |-> [a \in Words |->
                  IF a \notin D THEN mem[a]
                  ELSE IF below(a) = {} THEN free_list[ChunkOf(a)][slotOf(a)]
                  ELSE top(below(a))]]

(* mark_pinned_from_addresses for one conservative address: round it down  *)
(* to the start of a block of its page (page 0 counts from start_data) and *)
(* pin that block if its first word lies outside [start_data, end].        *)
\* mutant: page 0 offsets are taken from the chunk, not from start_data
MarkedFromAddressNoHeader(c, addr) ==
    LET offset == addr - ChunkBase(c)
        page == offset \div PageSize
        slot_size == page_sizes[c][page]
        base == IF page = 0 THEN ChunkBase(c) + StartOffset ELSE ChunkBase(c) + page * PageSize
        blk == base + ((offset % PageSize) \div slot_size) * slot_size
    IN IF slot_size = 0 THEN {}
       ELSE IF mem[blk] # 0 /\ (mem[blk] < ChunkBase(c) + StartOffset \/ mem[blk] > ChunkEnd(c))
            THEN {blk} ELSE {}

MarkedFromAddress(c, addr) ==
    LET offset == addr - ChunkBase(c)
        page == offset \div PageSize
        slot_size == page_sizes[c][page]
        obj_offset == IF page = 0 THEN offset - StartOffset ELSE offset % PageSize
        base == IF page = 0 THEN ChunkBase(c) + StartOffset ELSE ChunkBase(c) + page * PageSize
        blk == base + (obj_offset \div slot_size) * slot_size
    IN IF slot_size = 0 THEN {}
       ELSE IF mem[blk] # 0 /\ (mem[blk] < ChunkBase(c) + StartOffset \/ mem[blk] > ChunkEnd(c))
            THEN {blk} ELSE {}

(* The addresses pin_from_roots can queue for chunk c: aligned, within     *)
(* [start_data, end).                                                      *)
ConservativeRange(c) == {a \in Words : ChunkBase(c) + StartOffset <= a /\ a < ChunkEnd(c)}

(* The pinned-chunk part of major_collection: pin the blocks hit by the    *)
(* conservative addresses r (mark_pinned_from_addresses), pin the objects  *)
(* copy_object reaches precisely (pr), then sweep_pinned_objects frees     *)
(* every object the scan reports that is not pinned.                       *)
MajorCollection(r, pr) ==
    LET marked == UNION {MarkedFromAddress(ChunkOf(a), a) : a \in r} \cup pr
        dead == UNION {ScannedObjects(c) : c \in PinnedChunks} \ marked
        pushed == PushAll(dead)
    IN /\ ops < MaxOps
       /\ free_list' = pushed.fl
       /\ mem' = pushed.mem
       /\ allocated' = [allocated EXCEPT !["pinned"] = @ \ dead]
       /\ gcs' = gcs + 1
       /\ roots' = r
       /\ precise' = pr
       /\ ops' = ops + 1
       /\ UNCHANGED <<chunk_list, next_chunk, page_sizes>>

(* mono_domain_finalize's scan_pinned_objects with                         *)
(* clear_domain_free_pinned_object_callback: the objects of the unloaded   *)
(* domain (any set d of the scanned objects) are freed.                    *)
ClearDomain(d) ==
    LET pushed == PushAll(d)
    IN /\ ops < MaxOps
       /\ d \subseteq UNION {ScannedObjects(c) : c \in PinnedChunks}
       /\ d # {}
       /\ free_list' = pushed.fl
       /\ mem' = pushed.mem
       /\ allocated' = [allocated EXCEPT !["pinned"] = @ \ d]
       /\ ops' = ops + 1
       /\ UNCHANGED <<chunk_list, next_chunk, page_sizes, gcs, roots, precise>>

Init ==
    /\ chunk_list = [L \in Lists |-> <<>>]
    /\ next_chunk = 1
    /\ page_sizes = [c \in ChunkIds |-> [i \in Pages |-> 0]]
    /\ free_list = [c \in ChunkIds |-> [s \in Slots |-> 0]]
    /\ mem = [a \in Words |-> 0]
    /\ allocated = [L \in Lists |-> {}]
    /\ gcs = 0
    /\ roots = {}
    /\ precise = {}
    /\ ops = 0

Next ==
    \/ \E size \in Requests : GetInternalMem(size) \/ AllocPinnedObj(size)
    \/ \E a \in Words : FreeInternalMem(a)
    \/ \E c \in PinnedChunks, a \in Words, pr \in SUBSET allocated["pinned"] :
          /\ a \in ConservativeRange(c)
          /\ MajorCollection({a}, pr)
    \/ \E d \in SUBSET allocated["pinned"] : ClearDomain(d)

Spec == Init /\ [][Next]_vars

-----------------------------------------------------------------------------
(* Properties *)

TypeOK ==
    /\ \A L \in Lists : chunk_list[L] \in Seq(ChunkIds)
    /\ next_chunk \in 1..MaxChunks + 1
    /\ page_sizes \in [ChunkIds -> [Pages -> {0} \cup {FreelistSizes[s] : s \in Slots}]]
    /\ free_list \in [ChunkIds -> [Slots -> {0} \cup Words]]
    /\ mem \in [Words -> {0, VTable} \cup Words \cup {a + s : a \in Words, s \in {FreelistSizes[t] : t \in Slots}}]
    /\ allocated \in [Lists -> SUBSET Words]
    /\ gcs \in Nat /\ ops \in 0..MaxOps

(* The blocks a used page really has room for: [p, p + size) inside it.   *)
FittingBlocks(c) ==
    {p \in Words :
        \E i \in Pages :
            /\ page_sizes[c][i] # 0
            /\ PageStart(c, i) <= p /\ p + page_sizes[c][i] <= PageEnd(c, i)
            /\ (p - PageStart(c, i)) % page_sizes[c][i] = 0}

(* Following the free list from head a, at most fuel links. *)
RECURSIVE Chain(_, _)
Chain(a, fuel) ==
    IF a = 0 \/ a \notin Words \/ fuel = 0 THEN <<>> ELSE <<a>> \o Chain(mem[a], fuel - 1)

ChainSet(c, s) == LET q == Chain(free_list[c][s], Cardinality(Words) + 1)
                  IN {q[k] : k \in 1..Len(q)}

ChunksOf(L) == {chunk_list[L][k] : k \in 1..Len(chunk_list[L])}

(* The free lists and the handed-out blocks partition the blocks of every  *)
(* used page (build_freelist, get_chunk_freelist, the pops of              *)
(* alloc_from_freelist / get_internal_mem, free_internal_mem and the       *)
(* sweep's free_pinned_object): every list ends in NULL without repeating  *)
(* a block, holds only blocks that fit in a page of its own size class,    *)
(* and no block is both free and handed out, or neither.                   *)
HeapPartitioned ==
    /\ \A L \in Lists : \A c \in ChunksOf(L) :
          LET free == UNION {ChainSet(c, s) : s \in Slots}
          IN /\ \A s \in Slots :
                  LET q == Chain(free_list[c][s], Cardinality(Words) + 1)
                  IN /\ Len(q) = Cardinality(ChainSet(c, s))
                     /\ Len(q) > 0 => mem[q[Len(q)]] = 0
                     /\ \A b \in ChainSet(c, s) :
                           b \in FittingBlocks(c) /\ page_sizes[c][PageOf(b)] = FreelistSizes[s]
             /\ free \cap allocated[L] = {}
             /\ free \cup (allocated[L] \cap FittingBlocks(c)) = FittingBlocks(c)
    /\ \A L \in Lists : allocated[L] \subseteq UNION {FittingBlocks(c) : c \in ChunksOf(L)}

(* scan_pinned_objects tells objects from free blocks by the first word:   *)
(* the objects it reports are exactly those mono_gc_alloc_pinned_obj       *)
(* handed out and nobody freed.                                            *)
ObjectsRecognised ==
    UNION {ScannedObjects(c) : c \in PinnedChunks} = allocated["pinned"]

(* A major collection frees exactly the pinned-chunk objects that neither  *)
(* a conservative address points into (mark_pinned_from_addresses) nor a   *)
(* precise reference reaches (copy_object's pin_object).                   *)
SweepFreesExactlyUnreachable ==
    [][gcs' = gcs + 1 =>
         allocated'["pinned"] =
            {o \in allocated["pinned"] :
                \/ o \in precise'
                \/ \E a \in roots' : o <= a /\ a < o + page_sizes[ChunkOf(o)][PageOf(o)]}]_vars

=============================================================================
