-------------------------- MODULE MC_TokenProtocol --------------------------
(* Instances of TokenProtocol for TLC.                                      *)
EXTENDS TokenProtocol

CONSTANTS p1, p2, p3

\* Two that read and write, and one that only takes a port.
TwoOfThree == (p1 :> {"r", "w"}) @@ (p2 :> {"r", "w"}) @@ (p3 :> {})
=============================================================================
