---------------------------- MODULE RootRegistry ----------------------------
(***************************************************************************)
(* What the root registry promises its callers and the collector: a map    *)
(* from a root's start address to its extent and descriptor.  Registering  *)
(* an address that is already registered replaces its size and            *)
(* descriptor; a root without a descriptor is scanned conservatively and  *)
(* cannot become a precise one, nor the reverse.  Deregistering removes   *)
(* the address, registered or not.                                         *)
(***************************************************************************)
CONSTANTS Addrs, Sizes, Descs, NoDesc, NoRoot

VARIABLE roots   \* roots[a]: [size, desc] of the root starting at a, or NoRoot

Present(a) == roots[a] # NoRoot

Init == roots = [a \in Addrs |-> NoRoot]

Register(a, s, d) ==
    /\ Present(a) => ((roots[a].desc = NoDesc) <=> (d = NoDesc))
    /\ roots' = [roots EXCEPT ![a] = [size |-> s, desc |-> d]]

Deregister(a) == roots' = [roots EXCEPT ![a] = NoRoot]

Next == \E a \in Addrs :
          \/ \E s \in Sizes, d \in Descs \cup {NoDesc} : Register(a, s, d)
          \/ Deregister(a)

Spec == Init /\ [][Next]_roots
=============================================================================
