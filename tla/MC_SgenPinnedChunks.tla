------------------------- MODULE MC_SgenPinnedChunks -------------------------
(* Scaled-down chunk geometry: two 64-byte pages per chunk, a 24-byte      *)
(* header in page 0 that is not a multiple of the first size class, and    *)
(* three size classes of which 24 leaves a tail in every page.             *)
EXTENDS SgenPinnedChunks

MCFreelistSizes == <<16, 24, 32>>
MCRequests == {16, 24}
=============================================================================
