------------------------------ MODULE SgenRoots ------------------------------
(***************************************************************************)
(* The registered-root tables of sgen-gc.c: roots_hash[type] is a chained  *)
(* hash table of RootRecords per root type, with roots_hash_size,         *)
(* num_roots_entries and roots_size.  mono_gc_register_root_inner and     *)
(* mono_gc_deregister_root run under LOCK_GC and are atomic steps.  A      *)
(* RootRecord is [start, end, desc]; a bucket is a sequence, head first.   *)
(***************************************************************************)
EXTENDS Naturals, Sequences, SequencesExt, FiniteSets

CONSTANTS
    Addrs,        \* root start addresses (multiples of 8)
    Sizes,        \* root sizes in bytes
    Descs,        \* root descriptors other than NULL
    NoDesc,       \* the NULL descriptor
    NoRoot,       \* "not registered", for the refinement mapping
    PrimeTable    \* g_spaced_primes_closest's table, ascending

ROOT_TYPE_NORMAL == 0
ROOT_TYPE_PINNED == 1
ROOT_TYPE_WBARRIER == 2
Types == {ROOT_TYPE_NORMAL, ROOT_TYPE_PINNED, ROOT_TYPE_WBARRIER}

VARIABLES
    roots_hash,          \* roots_hash[t]: sequence of buckets; bucket h is roots_hash[t][h + 1]
    roots_hash_size,     \* roots_hash_size[t]
    num_roots_entries,   \* num_roots_entries[t]
    roots_size           \* total bytes of registered roots

vars == <<roots_hash, roots_hash_size, num_roots_entries, roots_size>>

(* mono_aligned_addr_hash: the address shifted right by 3. *)
AlignedAddrHash(a) == a \div 8

(* g_spaced_primes_closest: the first prime of the table above x, else the last. *)
SpacedPrimesClosest(x) ==
    LET above == {i \in 1..Len(PrimeTable) : PrimeTable[i] > x}
    IN IF above = {} THEN PrimeTable[Len(PrimeTable)]
       ELSE PrimeTable[CHOOSE i \in above : \A j \in above : i <= j]

(* rehash_roots: walk the old buckets in order, pushing every entry on the *)
(* head of its bucket in a table of g_spaced_primes_closest (num) buckets. *)
RehashTable(t, new_size) ==
    LET trav == FlattenSeq(roots_hash[t])
    IN [h \in 1..new_size |->
          Reverse(SelectSeq(trav, LAMBDA e : AlignedAddrHash(e.start) % new_size = h - 1))]

(* The rehash pass at the top of mono_gc_register_root_inner: every type   *)
(* whose table is at least half full (or absent) is rehashed.             *)
NeedsRehash(t) == num_roots_entries[t] >= roots_hash_size[t] * 2
SizesAfterRehash ==
    [t \in Types |-> IF NeedsRehash(t) THEN SpacedPrimesClosest(num_roots_entries[t])
                     ELSE roots_hash_size[t]]
TablesAfterRehash ==
    [t \in Types |-> IF NeedsRehash(t) THEN RehashTable(t, SizesAfterRehash[t])
                     ELSE roots_hash[t]]

Bucket(a, size) == (AlignedAddrHash(a) % size) + 1

\* mutant: find_root returns a record of the bucket without comparing start_root
FindRootAnyInBucket(hs, sz, t, a) == 1..Len(hs[t][Bucket(a, sz[t])])

(* find_root in table t of hs: the positions of records starting at a. *)
FindRoot(hs, sz, t, a) ==
    {k \in 1..Len(hs[t][Bucket(a, sz[t])]) : hs[t][Bucket(a, sz[t])][k].start = a}

\* mutant: the g_assert on the descriptor's NULL-ness is dropped
DescKindKeptUnchecked(old, descr) == TRUE

(* The g_assert of the update path: the descriptor keeps its NULL-ness. *)
DescKindKept(old, descr) ==
    (old.desc # NoDesc /\ descr # NoDesc) \/ (old.desc = NoDesc /\ descr = NoDesc)

(* The update path's new record: end_root = start_root + size, the new descriptor. *)
UpdatedRecord(old, start, size, descr) == [start |-> start, end |-> start + size, desc |-> descr]

(* mono_gc_register_root_inner (start, size, descr, root_type): rehash,    *)
(* then update a record with this start in any table (keeping its table),  *)
(* else push a new record on its bucket in the root_type table.  The      *)
(* g_assert that the descriptor keeps its NULL-ness aborts the process; a  *)
(* call that fails it has no successor state.                             *)
RegisterRootInner(start, size, descr, root_type) ==
    LET hs == TablesAfterRehash
        sz == SizesAfterRehash
        found == {t \in Types : FindRoot(hs, sz, t, start) # {}}
        ft == CHOOSE t \in found : \A u \in found : t <= u
        b == Bucket(start, sz[ft])
        k == CHOOSE i \in FindRoot(hs, sz, ft, start) : TRUE
        old == hs[ft][b][k]
    IN /\ roots_hash_size' = sz
       /\ IF found # {}
          THEN /\ DescKindKept(old, descr)
               /\ roots_hash' = [hs EXCEPT ![ft][b][k] = UpdatedRecord(old, start, size, descr)]
               /\ roots_size' = roots_size + size - (old.end - old.start)
               /\ UNCHANGED num_roots_entries
          ELSE LET nb == Bucket(start, sz[root_type])
               IN /\ roots_hash' = [hs EXCEPT ![root_type][nb] =
                                       <<[start |-> start, end |-> start + size, desc |-> descr]>> \o @]
                  /\ num_roots_entries' = [num_roots_entries EXCEPT ![root_type] = @ + 1]
                  /\ roots_size' = roots_size + size

(* mono_gc_register_root: a root without a descriptor is pinned. *)
RegisterRoot(start, size, descr) ==
    RegisterRootInner(start, size, descr,
                      IF descr # NoDesc THEN ROOT_TYPE_NORMAL ELSE ROOT_TYPE_PINNED)

(* mono_gc_register_root_wbarrier *)
RegisterRootWbarrier(start, size, descr) ==
    RegisterRootInner(start, size, descr, ROOT_TYPE_WBARRIER)

\* mutant: num_roots_entries is not decremented
DeregisterRootKeepCount(addr) ==
    LET hit(t) == FindRoot(roots_hash, roots_hash_size, t, addr)
        first(t) == CHOOSE k \in hit(t) : \A j \in hit(t) : k <= j
        b(t) == Bucket(addr, roots_hash_size[t])
    IN /\ \A t \in Types : roots_hash_size[t] > 0
       /\ roots_hash' = [t \in Types |->
                           IF hit(t) = {} THEN roots_hash[t]
                           ELSE [roots_hash[t] EXCEPT ![b(t)] = RemoveAt(@, first(t))]]
       /\ roots_size' = roots_size - MapThenSumSet(
                          LAMBDA t : LET e == roots_hash[t][b(t)][first(t)] IN e.end - e.start,
                          {t \in Types : hit(t) # {}})
       /\ UNCHANGED <<roots_hash_size, num_roots_entries>>

(* mono_gc_deregister_root: in every table, unlink the first record with   *)
(* this start from its bucket.  The bucket index is taken modulo           *)
(* roots_hash_size of each type, which traps while that size is 0, i.e.   *)
(* before the first registration; such a call has no successor state.     *)
DeregisterRoot(addr) ==
    LET hit(t) == FindRoot(roots_hash, roots_hash_size, t, addr)
        first(t) == CHOOSE k \in hit(t) : \A j \in hit(t) : k <= j
        b(t) == Bucket(addr, roots_hash_size[t])
    IN /\ \A t \in Types : roots_hash_size[t] > 0
       /\ roots_hash' = [t \in Types |->
                           IF hit(t) = {} THEN roots_hash[t]
                           ELSE [roots_hash[t] EXCEPT ![b(t)] = RemoveAt(@, first(t))]]
       /\ num_roots_entries' = [t \in Types |->
                                  IF hit(t) = {} THEN num_roots_entries[t]
                                  ELSE num_roots_entries[t] - 1]
       /\ roots_size' = roots_size - MapThenSumSet(
                          LAMBDA t : LET e == roots_hash[t][b(t)][first(t)] IN e.end - e.start,
                          {t \in Types : hit(t) # {}})
       /\ UNCHANGED roots_hash_size

Init ==
    /\ roots_hash = [t \in Types |-> <<>>]
    /\ roots_hash_size = [t \in Types |-> 0]
    /\ num_roots_entries = [t \in Types |-> 0]
    /\ roots_size = 0

Next ==
    \E a \in Addrs :
        \/ \E s \in Sizes, d \in Descs \cup {NoDesc} : RegisterRoot(a, s, d)
        \/ \E s \in Sizes, d \in Descs : RegisterRootWbarrier(a, s, d)
        \/ DeregisterRoot(a)

Spec == Init /\ [][Next]_vars

-----------------------------------------------------------------------------
(* Properties *)

Records == [start : Addrs, end : {a + s : a \in Addrs, s \in Sizes}, desc : Descs \cup {NoDesc}]

TypeOK ==
    /\ roots_hash_size \in [Types -> {0} \cup {PrimeTable[i] : i \in 1..Len(PrimeTable)}]
    /\ \A t \in Types : roots_hash[t] \in Seq(Seq(Records))
    /\ num_roots_entries \in [Types -> Nat]
    /\ roots_size \in Nat

(* Every record, as a (type, bucket, index) position. *)
Held == UNION {UNION {{<<t, h, k>> : k \in 1..Len(roots_hash[t][h])} : h \in 1..Len(roots_hash[t])} :
               t \in Types}
Entry(p) == roots_hash[p[1]][p[2]][p[3]]

(* The tables stay a well-formed index of the registered roots through      *)
(* registration, re-registration, rehash_roots and deregistration: every   *)
(* record sits in the bucket find_root and deregister compute for it, no   *)
(* start address is recorded twice (across all three tables), and          *)
(* num_roots_entries and roots_size agree with the records.                *)
RootTablesConsistent ==
    /\ \A t \in Types : Len(roots_hash[t]) = roots_hash_size[t]
    /\ \A p \in Held : Bucket(Entry(p).start, roots_hash_size[p[1]]) = p[2]
    /\ \A p, q \in Held : Entry(p).start = Entry(q).start => p = q
    /\ \A t \in Types : num_roots_entries[t] = Cardinality({p \in Held : p[1] = t})
    /\ roots_size = MapThenSumSet(LAMBDA p : Entry(p).end - Entry(p).start, Held)

(* pin_from_roots scans only the ROOT_TYPE_PINNED table conservatively and *)
(* scan_from_registered_roots scans the other two with the record's       *)
(* descriptor: a root registered without a descriptor must stay in the    *)
(* pinned table, and one with a descriptor outside it, whatever sequence   *)
(* of register, register_wbarrier and deregister calls led there.          *)
RootScanKind ==
    \A p \in Held : (p[1] = ROOT_TYPE_PINNED) <=> (Entry(p).desc = NoDesc)

(* The registered roots as the abstract registry sees them. *)
AbsRoots ==
    [a \in Addrs |->
        IF \E p \in Held : Entry(p).start = a
        THEN LET e == Entry(CHOOSE p \in Held : Entry(p).start = a)
             IN [size |-> e.end - e.start, desc |-> e.desc]
        ELSE NoRoot]

Registry == INSTANCE RootRegistry WITH roots <- AbsRoots

(* The hash tables implement the registry map: every register and          *)
(* deregister step of the code is a step of RootRegistry's specification   *)
(* under AbsRoots, so the collector scans exactly the registered extents.  *)
RegistryRefined == Registry!Spec

=============================================================================
