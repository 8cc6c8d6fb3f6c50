---------------------------- MODULE MC_OpenFiles ----------------------------
(* Instances of OpenFiles for TLC.                                          *)
EXTENDS OpenFiles

CONSTANTS f1, f2, t1, t2

=============================================================================
