----------------------------- MODULE Intervals -----------------------------
(***************************************************************************)
(* Closed intervals of file blocks, and the ordered maps keyed by them     *)
(* that the metadata manager (MDWTokens) and every client (TOKEN_MAP) keep *)
(* their tokens in: mt_data_types.hh and data_types.hh.                    *)
(***************************************************************************)
EXTENDS Integers, Sequences

\* A range of blocks.  The callers only build ranges with m_start <= m_end.
Interval == {i \in [m_start : Nat, m_end : Nat] : i.m_start <= i.m_end}

\* The blocks an interval stands for.
Blocks(i) == i.m_start .. i.m_end

\* Mutant: ranges that touch are ordered.
Before_Touching(i, j) == i.m_end <= j.m_start

\* "mycomparison": i is ordered before j when it ends before j starts.
Before(i, j) == i.m_end < j.m_start

\* Two keys are the same key for std::map, and "is_equal", when neither is
\* before the other: when they share a block.
Overlaps(i, j) == ~Before(i, j) /\ ~Before(j, i)

\* Mutant: the remainders are built without looking whether they are empty.
Subtract_Unchecked(a, b) ==
  << [m_start |-> a.m_start, m_end |-> b.m_start - 1], [m_start |-> b.m_end + 1, m_end |-> a.m_end] >>

\* subtract_interval: what is left of interval a once b is taken out, the left
\* remainder first.  The four cases of the code differ only in which of the two
\* remainders exists.
Subtract(a, b) ==
  LET left  == IF a.m_start < b.m_start
               THEN << [m_start |-> a.m_start, m_end |-> b.m_start - 1] >>
               ELSE << >>
      right == IF b.m_end < a.m_end
               THEN << [m_start |-> b.m_end + 1, m_end |-> a.m_end] >>
               ELSE << >>
  IN IF Overlaps(a, b) THEN left \o right ELSE << a >>

\* std::map::find on a map given as a set of entries with a key field iv: the
\* entry (at most one, keys being disjoint) that overlaps i and is leftmost.
FirstOverlap(map, i) ==
  {e \in map : /\ Overlaps(e.iv, i)
               /\ \A d \in map : Overlaps(d.iv, i) => ~Before(d.iv, e.iv)}

\* std::map::insert: an entry whose key overlaps one already there is refused.
MapInsert(map, entries) ==
  map \union {e \in entries : \A d \in map : ~Overlaps(d.iv, e.iv)}
=============================================================================
