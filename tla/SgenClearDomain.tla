--------------------------- MODULE SgenClearDomain ---------------------------
(***************************************************************************)
(* Appdomain unloading in sgen-gc.c: mono_gc_finalizers_for_domain, which *)
(* hands the unloading domain's finalizable objects to the caller in       *)
(* batches, and mono_gc_clear_domain, which removes the domain's objects   *)
(* from every part of the heap.  Both run under LOCK_GC, so nothing else   *)
(* interleaves; clear_domain's loops are modelled one object per step, in  *)
(* the order the code runs them:                                           *)
(*   "sections"        scan_area_for_domain over section_list             *)
(*   "pinned_process"  scan_pinned_objects (process callback)             *)
(*   "los_process"     process_object_for_domain_clearing over the LOS    *)
(*   "los_free"        unlink and free_large_object                       *)
(*   "pinned_free"     scan_pinned_objects (free callback)                *)
(*   "links"           null_links_for_domain, nursery and old tables      *)
(*                                                                         *)
(* An object is a model value with the area it lives in, its domain and,  *)
(* for a System.Runtime.Remoting.Proxies.RealProxy, the unwrapped_server  *)
(* it points to.  mem[o] is what its first word (the vtable) holds:       *)
(*   "obj"       a vtable: the object is live                             *)
(*   "zero"      memset by scan_area_for_domain                           *)
(*   "freelist"  free_pinned_object stored the free-list link there       *)
(*   "unmapped"  free_large_object gave the pages back (free_os_memory)   *)
(* The last two are freed memory: reading an object header there is a    *)
(* read of freed memory, whose result the model leaves open.              *)
(* The calls are made by the runtime's unload code (appdomain.c), which   *)
(* is the environment here: Start picks a domain to unload.               *)
(***************************************************************************)
EXTENDS Naturals, Sequences, FiniteSets

CONSTANTS
    Objs,       \* the objects of the heap
    Domains,    \* the appdomains
    OutSize     \* out_size: the size of the caller's out_array

ASSUME OutSize \in Nat \ {0}

Null == "null"
Areas == {"section", "pinned", "los"}
Freed == {"freelist", "unmapped"}
LinkKinds == {"monitor", "handle"}
Phases == <<"sections", "pinned_process", "los_process", "los_free",
            "pinned_free", "links">>

VARIABLES
    order,      \* Objs in address order (sections, chunks, los_object_list)
    area,       \* object -> the area it was allocated in
    dom,        \* object -> mono_object_domain
    server,     \* object -> its proxy's unwrapped_server, or Null
    mem,        \* object -> what its first word holds
    links,      \* <<object, kind>>: the disappearing links in the dislink
                \* tables: an object's monitor weak link ("monitor") or a
                \* weak GC handle ("handle")
    num_links,  \* minor + major hash->num_links
    minor_fin,  \* objects in minor_finalizable_hash
    major_fin,  \* objects in major_finalizable_hash
    unloading,  \* the domain being unloaded, or Null
    pc,         \* "idle", "finalizers", or a phase of mono_gc_clear_domain
    i,          \* the loop's position in order
    unloaded,   \* domains already unloaded
    read_freed  \* history: some step read the header of freed memory

vars == <<order, area, dom, server, mem, links, num_links, minor_fin,
          major_fin, unloading, pc, i, unloaded, read_freed>>

N == Cardinality(Objs)
Cursor == 1 .. N + 1
Permutations == {s \in [1 .. N -> Objs] : \A o \in Objs : \E k \in 1 .. N : s[k] = o}

-----------------------------------------------------------------------------
(* The object helpers                                                      *)

\* need_remove_object_for_domain: mono_object_domain (start) == domain,
\* read from the vtable the object's first word points to
NeedRemove(o, d) == dom[o] = d

\* The test `!vtable || mono_object_domain (o) == domain` that both
\* process_object_for_domain_clearing (on a server) and null_links_for_domain
\* (on a link's object) make of o's header, as the set of its results.  A
\* zeroed header is NULL; a free-list link is NULL or an address inside the
\* chunk, whose "domain" word is garbage; unmapped pages have no value.
HeaderSaysRemove(o, d) ==
    CASE mem[o] = "obj" -> {NeedRemove(o, d)}
      [] mem[o] = "zero" -> {TRUE}
      [] OTHER -> BOOLEAN

\* process_object_for_domain_clearing: a proxy whose server is already
\* zeroed or belongs to the domain has its server set to NULL; the results
\* the step can have for server[o]
ProcessObject(o, d) ==
    IF server[o] = Null THEN {Null}
    ELSE {IF b THEN Null ELSE server[o] : b \in HeaderSaysRemove(server[o], d)}

\* the step reads the header of freed memory
ReadsFreed(o) == mem[o] \in Freed

ProcessReadsFreed(o) == server[o] # Null /\ ReadsFreed(server[o])

-----------------------------------------------------------------------------
(* mono_gc_finalizers_for_domain                                          *)

\* finalizers_for_domain over one table: the domain's entries in table
\* order, at most out_size of them
Batch(tbl, d, size) ==
    LET mine == {k \in 1 .. N : order[k] \in tbl /\ NeedRemove(order[k], d)}
        firsts == {k \in mine : Cardinality({j \in mine : j <= k}) <= size}
    IN  {order[k] : k \in firsts}

\* the runtime calls mono_gc_finalizers_for_domain until it returns 0; the
\* objects it returns are finalized by the caller
FinalizersForDomain ==
    LET d == unloading
        minor == Batch(minor_fin, d, OutSize)
        major == IF Cardinality(minor) < OutSize
                 THEN Batch(major_fin, d, OutSize - Cardinality(minor))
                 ELSE {}
    IN  /\ pc = "finalizers"
        /\ minor_fin' = minor_fin \ minor
        /\ major_fin' = major_fin \ major
        /\ pc' = IF minor \cup major = {} THEN "sections" ELSE "finalizers"
        /\ i' = 1
        /\ UNCHANGED <<order, area, dom, server, mem, links, num_links,
                       unloading, unloaded, read_freed>>

-----------------------------------------------------------------------------
(* mono_gc_clear_domain                                                    *)

\* the runtime unloads a domain: first its finalizers, then clear_domain
Start(d) ==
    /\ pc = "idle" /\ d \notin unloaded
    /\ unloading' = d /\ pc' = "finalizers"
    /\ UNCHANGED <<order, area, dom, server, mem, links, num_links, minor_fin,
                   major_fin, i, unloaded, read_freed>>

\* whether the loop of the current phase visits o
Visits(o) ==
    CASE pc = "sections" -> area[o] = "section" /\ mem[o] # "zero"
      [] pc \in {"pinned_process", "pinned_free"} ->
            area[o] = "pinned" /\ mem[o] = "obj"
      [] pc \in {"los_process", "los_free"} ->
            area[o] = "los" /\ mem[o] # "unmapped"
      [] pc = "links" -> \E k \in LinkKinds : <<o, k>> \in links

PhaseIndex == CHOOSE k \in 1 .. Len(Phases) : Phases[k] = pc

\* the end of a loop: the next phase, or UNLOCK_GC after the last one
NextPhase ==
    /\ pc \in {Phases[k] : k \in 1 .. Len(Phases)} /\ i = N + 1
    /\ IF PhaseIndex = Len(Phases)
       THEN /\ pc' = "idle" /\ unloading' = Null
            /\ unloaded' = unloaded \cup {unloading}
       ELSE /\ pc' = Phases[PhaseIndex + 1]
            /\ UNCHANGED <<unloading, unloaded>>
    /\ i' = 1
    /\ UNCHANGED <<order, area, dom, server, mem, links, num_links, minor_fin,
                   major_fin, read_freed>>

\* an object the current loop does not visit
Skip ==
    /\ pc \in {Phases[k] : k \in 1 .. Len(Phases)} /\ i <= N
    /\ ~Visits(order[i])
    /\ i' = i + 1
    /\ UNCHANGED <<order, area, dom, server, mem, links, num_links, minor_fin,
                   major_fin, unloading, pc, unloaded, read_freed>>

\* scan_area_for_domain on one object: process it, and if it belongs to
\* the domain drop its monitor's weak link (mono_gc_register_disappearing_link
\* with NULL, which decrements num_links) and memset it to 0
ScanAreaForDomain(o) ==
    LET d == unloading
        remove == NeedRemove(o, d)
    IN  /\ pc = "sections"
        /\ \E s \in ProcessObject(o, d) : server' = [server EXCEPT ![o] = s]
        /\ mem' = IF remove THEN [mem EXCEPT ![o] = "zero"] ELSE mem
        /\ links' = IF remove THEN links \ {<<o, "monitor">>} ELSE links
        /\ num_links' = IF remove /\ <<o, "monitor">> \in links
                        THEN num_links - 1 ELSE num_links
        /\ read_freed' = (read_freed \/ ProcessReadsFreed(o))

\* clear_domain_process_pinned_object_callback and the first LOS loop
ProcessPass(o) ==
    /\ pc \in {"pinned_process", "los_process"}
    /\ \E s \in ProcessObject(o, unloading) : server' = [server EXCEPT ![o] = s]
    /\ read_freed' = (read_freed \/ ProcessReadsFreed(o))
    /\ UNCHANGED <<mem, links, num_links>>

\* the second LOS loop: free_large_object returns the pages to the OS
FreeLargeObject(o) ==
    /\ pc = "los_free"
    /\ mem' = IF NeedRemove(o, unloading) THEN [mem EXCEPT ![o] = "unmapped"] ELSE mem
    /\ UNCHANGED <<server, links, num_links, read_freed>>

\* clear_domain_free_pinned_object_callback: free_pinned_object stores the
\* free-list link in the object's first word
FreePinnedObject(o) ==
    /\ pc = "pinned_free"
    /\ mem' = IF NeedRemove(o, unloading) THEN [mem EXCEPT ![o] = "freelist"] ELSE mem
    /\ UNCHANGED <<server, links, num_links, read_freed>>

\* null_links_for_domain on one entry: an object with no vtable or of the
\* domain has its link cleared and its entry unlinked; *(entry->link) is
\* non-NULL for every such entry, so the entry is never freed and num_links
\* is not decremented.  Both links of an object read the same header, so
\* one step handles them together.
NullLinksForDomain(o) ==
    /\ pc = "links"
    /\ \E remove \in HeaderSaysRemove(o, unloading) :
          links' = IF remove THEN links \ ({o} \X LinkKinds) ELSE links
    /\ read_freed' = (read_freed \/ ReadsFreed(o))
    /\ UNCHANGED <<server, mem, num_links>>

\* one iteration of the current loop over a visited object
Visit ==
    /\ pc \in {Phases[k] : k \in 1 .. Len(Phases)} /\ i <= N
    /\ Visits(order[i])
    /\ \/ ScanAreaForDomain(order[i])
       \/ ProcessPass(order[i])
       \/ FreeLargeObject(order[i])
       \/ FreePinnedObject(order[i])
       \/ NullLinksForDomain(order[i])
    /\ i' = i + 1
    /\ UNCHANGED <<order, area, dom, minor_fin, major_fin, unloading, pc, unloaded>>

-----------------------------------------------------------------------------

\* Any heap of live objects: a proxy may point to any object, every object
\* may have a locked monitor (whose weak link is registered) and a
\* finalizer in either table
Init ==
    /\ order \in Permutations
    /\ area \in [Objs -> Areas]
    /\ dom \in [Objs -> Domains]
    /\ server \in [Objs -> Objs \cup {Null}]
    /\ mem = [o \in Objs |-> "obj"]
    /\ links \in SUBSET (Objs \X LinkKinds)
    /\ num_links = Cardinality(links)
    /\ minor_fin \in SUBSET Objs
    /\ major_fin \in SUBSET (Objs \ minor_fin)
    /\ unloading = Null /\ pc = "idle" /\ i = 1
    /\ unloaded = {} /\ read_freed = FALSE

Next ==
    \/ \E d \in Domains : Start(d)
    \/ FinalizersForDomain
    \/ Visit
    \/ Skip
    \/ NextPhase

Spec == Init /\ [][Next]_vars

-----------------------------------------------------------------------------
(* Properties                                                              *)

TypeOK ==
    /\ order \in Permutations
    /\ area \in [Objs -> Areas] /\ dom \in [Objs -> Domains]
    /\ server \in [Objs -> Objs \cup {Null}]
    /\ mem \in [Objs -> {"obj", "zero"} \cup Freed]
    /\ links \subseteq Objs \X LinkKinds /\ num_links \in Nat
    /\ minor_fin \subseteq Objs /\ major_fin \subseteq Objs
    /\ unloading \in Domains \cup {Null} /\ i \in Cursor
    /\ pc \in {"idle", "finalizers"} \cup {Phases[k] : k \in 1 .. Len(Phases)}
    /\ unloaded \subseteq Domains /\ read_freed \in BOOLEAN

\* The comment above mono_gc_clear_domain's pinned and large-object loops
\* says they make two passes because freeing an object gives its memory
\* back to the OS or obliterates its vtable, while a later step may still
\* dereference it: no step of clear_domain reads the header of an object
\* that has already been freed.
NoFreedMemoryRead == ~read_freed
==============================================================================
