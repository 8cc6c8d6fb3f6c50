---------------------------- MODULE MC_TokenMap ----------------------------
(* Instances of TokenMap for TLC.                                           *)
EXTENDS TokenMap

CONSTANTS t1, t2

Blocks2(lo, hi, modes) == {[iv |-> [m_start |-> lo, m_end |-> hi], mode |-> m] : m \in modes}

\* One thread: ranges that leave gaps, touch and enclose each other.
SoloJobs == Blocks2(0, 3, Modes) \union Blocks2(1, 1, Modes) \union Blocks2(2, 3, Modes)

\* What another client's reads revoke.
ReaderRevocations == Blocks2(1, 2, {"r"}) \union Blocks2(0, 1, {"r"})

\* Two threads: a read of three blocks and writes of parts of it.
TeamJobs == Blocks2(0, 2, {"r"}) \union Blocks2(0, 1, {"w"}) \union Blocks2(1, 1, {"w"})

\* What another client's read and write revoke.
TeamRevocations == Blocks2(1, 2, Modes)
=============================================================================
