-------------------------- MODULE MC_SgenDescriptor --------------------------
EXTENDS SgenDescriptor, TLC

\* Slot indexes at the edges of each encoding on a 32-bit build: the header
\* words, the last small-bitmap slot (17) and the one past it (18), the last
\* root-bitmap slot (28), and slots past the large bitmap (31, 32).
Positions32 == {0, 1, 2, 16, 17, 18, 28, 31, 32}

\* The same edges on a 64-bit build.
Positions64 == {0, 2, 48, 49, 50, 60, 63, 64}
==============================================================================
