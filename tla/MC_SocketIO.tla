------------------------------ MODULE MC_SocketIO ------------------------------
EXTENDS SocketIO

CONSTANTS s1, s2, ka

\* s1 receives and s2 sends on socket ka
MCSockOf == [s \in {s1, s2} |-> ka]
MCOpOf == [s \in {s1, s2} |-> IF s = s2 THEN "SEND" ELSE "RECEIVE"]
\* ka is readable and writable
MCReady == {<<ka, "IN">>, <<ka, "OUT">>}
==============================================================================
