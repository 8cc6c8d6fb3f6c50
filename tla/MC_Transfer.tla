---------------------------- MODULE MC_Transfer ----------------------------
(* Instances of Transfer for TLC.                                           *)
EXTENDS Transfer

\* A file on one server, and one that may be spread over two.
UpToTwo == {1, 2}
=============================================================================
