--------------------------- MODULE MC_ClientCache ---------------------------
(* Instances of ClientCache for TLC.                                        *)
EXTENDS ClientCache

\* Two blocks, as many as the cache of the flush runs holds, and four, one more than
\* the cache of the harvest run holds.
Blocks2 == {0, 1}
Blocks4 == {0, 1, 2, 3}
=============================================================================
