---------------------------- MODULE MC_Messages ----------------------------
(* Instances of Messages for TLC.                                           *)
EXTENDS Messages

CONSTANTS x1, x2, x3

\* A call or a read, beside a write or what comes in for the revoker.
BesideRevocation == (x1 :> {"call", "read"}) @@ (x2 :> {"write", "revoke", "probe"}) @@ (x3 :> {"revoke"})
=============================================================================
