--------------------------- MODULE MC_FileServer ---------------------------
(* Instances of FileServer for TLC.                                         *)
EXTENDS FileServer

CONSTANTS t1, t2, t3

\* Neighbouring blocks: a full write of the first reaches into the second.
Blocks2 == {0, 1}

Symmetry == Permutations({t1, t2, t3})
=============================================================================
