----------------------- MODULE MC_SgenNurseryPinning -----------------------
(* A nursery of 12 granules in three scan-start blocks, TLABs of 3         *)
(* granules, objects of 1 granule (TLAB allocations) and 4 granules        *)
(* (direct allocations), and three scanned stack words whose values point  *)
(* into each block (words 9, 15, 23: granules 4, 7, 11) or are NULL.       *)
EXTENDS SgenNurseryPinning

MCStackValues == {NULL, 9, 15, 23}
=============================================================================
