------------------------------ MODULE MC_SgenRoots ------------------------------
(* Three root addresses and a scaled-down prime table: the first           *)
(* registration sizes every table at one bucket, so all addresses collide, *)
(* and the registration after two roots of one type rehashes that table to *)
(* three buckets.                                                          *)
EXTENDS SgenRoots

MCSizes == {8, 16}
MCAddrsSmall == {8, 16, 24}
MCPrimeTableSmall == <<1, 3>>
=============================================================================
