--------------------------- MODULE TokenMapProofs ---------------------------
(***************************************************************************)
(* The token map of an open file, for every set of threads, ranges and     *)
(* revocations, however the revoker interleaves with addPermission.        *)
(***************************************************************************)
EXTENDS TokenMap, SequencesExt, SequenceTheorems, WellFoundedInduction, TLAPS
-----------------------------------------------------------------------------
(* Ranges of blocks and their subtraction; sets of numbers.                 *)

\* Two intervals are the same key exactly when they share a block.
LEMMA OverlapsMeet ==
  ASSUME NEW a \in Interval, NEW b \in Interval
  PROVE  Overlaps(a, b) <=> Blocks(a) \intersect Blocks(b) # {}
<1>1. ASSUME Overlaps(a, b) PROVE Blocks(a) \intersect Blocks(b) # {}
  <2>1. CASE a.m_start <= b.m_start
    <3>1. b.m_start \in Blocks(a) \intersect Blocks(b)
      BY <1>1, <2>1 DEF Interval, Blocks, Overlaps, Before
    <3> QED BY <3>1
  <2>2. CASE b.m_start <= a.m_start
    <3>1. a.m_start \in Blocks(a) \intersect Blocks(b)
      BY <1>1, <2>2 DEF Interval, Blocks, Overlaps, Before
    <3> QED BY <3>1
  <2> QED BY <2>1, <2>2 DEF Interval
<1>2. ASSUME Blocks(a) \intersect Blocks(b) # {} PROVE Overlaps(a, b)
  BY <1>2 DEF Interval, Blocks, Overlaps, Before
<1> QED BY <1>1, <1>2

\* Short sequences, concatenated.
LEMMA ShortConcat ==
  ASSUME NEW x, NEW y
  PROVE  << x >> \o << y >> = << x, y >>
<1>1. << x >> \in Seq({x, y}) /\ << y >> \in Seq({x, y}) /\ << x, y >> \in Seq({x, y})
  OBVIOUS
<1>2. Len(<< x >> \o << y >>) = 2 /\ << x >> \o << y >> \in Seq({x, y})
  BY <1>1, ConcatProperties
<1>3. (<< x >> \o << y >>)[1] = x /\ (<< x >> \o << y >>)[2] = y
  BY <1>1, ConcatProperties
<1> DEFINE s == << x >> \o << y >>
           t == << x, y >>
<1>4. Len(t) = 2 /\ t[1] = x /\ t[2] = y
  OBVIOUS
<1>5. \A i \in 1 .. Len(s) : s[i] = t[i]
  <2> SUFFICES ASSUME NEW i \in 1 .. Len(s) PROVE s[i] = t[i]
    OBVIOUS
  <2>1. i = 1 \/ i = 2  BY <1>2
  <2> QED BY <1>3, <1>4, <2>1
<1>6. s \in Seq({x, y}) /\ t \in Seq({x, y}) /\ Len(s) = Len(t)
  BY <1>1, <1>2, <1>4
<1> HIDE DEF s, t
<1>7. s = t  BY <1>5, <1>6, SeqEqual
<1> QED BY <1>7 DEF s, t

\* What subtract_interval returns when the intervals overlap: one to four cases
\* by which remainders exist.
LEMMA SubtractCases ==
  ASSUME NEW a \in Interval, NEW b \in Interval, Overlaps(a, b)
  PROVE  LET left  == [m_start |-> a.m_start, m_end |-> b.m_start - 1]
             right == [m_start |-> b.m_end + 1, m_end |-> a.m_end]
         IN \/ a.m_start < b.m_start /\ b.m_end < a.m_end /\ Subtract(a, b) = << left, right >>
            \/ a.m_start < b.m_start /\ ~(b.m_end < a.m_end) /\ Subtract(a, b) = << left >>
            \/ ~(a.m_start < b.m_start) /\ b.m_end < a.m_end /\ Subtract(a, b) = << right >>
            \/ ~(a.m_start < b.m_start) /\ ~(b.m_end < a.m_end) /\ Subtract(a, b) = << >>
<1> DEFINE left  == [m_start |-> a.m_start, m_end |-> b.m_start - 1]
           right == [m_start |-> b.m_end + 1, m_end |-> a.m_end]
           l     == IF a.m_start < b.m_start THEN << left >> ELSE << >>
           r     == IF b.m_end < a.m_end THEN << right >> ELSE << >>
<1>1. Subtract(a, b) = l \o r
  BY DEF Subtract
<1>2. /\ << left >> \o << right >> = << left, right >>
      /\ << left >> \o << >> = << left >>
      /\ << >> \o << right >> = << right >>
      /\ << >> \o << >> = << >>
  <2>1. << left >> \in Seq({left, right}) /\ << right >> \in Seq({left, right})
        /\ << >> \in Seq({left, right})
    OBVIOUS
  <2> HIDE DEF left, right
  <2> QED BY <2>1, ShortConcat, ConcatEmptySeq
<1> HIDE DEF left, right
<1>3. CASE a.m_start < b.m_start /\ b.m_end < a.m_end
  <2>1. l = << left >> /\ r = << right >>  BY <1>3
  <2> QED BY <1>1, <1>2, <1>3, <2>1 DEF left, right
<1>4. CASE a.m_start < b.m_start /\ ~(b.m_end < a.m_end)
  <2>1. l = << left >> /\ r = << >>  BY <1>4
  <2> QED BY <1>1, <1>2, <1>4, <2>1 DEF left, right
<1>5. CASE ~(a.m_start < b.m_start) /\ b.m_end < a.m_end
  <2>1. l = << >> /\ r = << right >>  BY <1>5
  <2> QED BY <1>1, <1>2, <1>5, <2>1 DEF left, right
<1>6. CASE ~(a.m_start < b.m_start) /\ ~(b.m_end < a.m_end)
  <2>1. l = << >> /\ r = << >>  BY <1>6
  <2> QED BY <1>1, <1>2, <1>6, <2>1
<1> QED BY <1>3, <1>4, <1>5, <1>6

\* subtract_interval returns at most two intervals, disjoint from each other, and
\* they hold exactly the blocks of the first interval outside the second.
LEMMA SubtractCorrect ==
  ASSUME NEW a \in Interval, NEW b \in Interval, Overlaps(a, b)
  PROVE  LET s == Subtract(a, b)
         IN /\ s \in Seq(Interval)
            /\ Len(s) <= 2
            /\ \A i, j \in DOMAIN s : i # j => ~Overlaps(s[i], s[j])
            /\ \A i \in DOMAIN s : Blocks(s[i]) \subseteq Blocks(a) \ Blocks(b)
            /\ \A k \in Blocks(a) \ Blocks(b) : \E i \in DOMAIN s : k \in Blocks(s[i])
<1> DEFINE s     == Subtract(a, b)
           left  == [m_start |-> a.m_start, m_end |-> b.m_start - 1]
           right == [m_start |-> b.m_end + 1, m_end |-> a.m_end]
<1>1. CASE a.m_start < b.m_start /\ b.m_end < a.m_end /\ s = << left, right >>
  <2>1. left \in Interval /\ right \in Interval
    BY <1>1 DEF Interval, Overlaps, Before
  <2>2. s[1] = left /\ s[2] = right /\ DOMAIN s = {1, 2} /\ Len(s) = 2 /\ s \in Seq(Interval)
    BY <1>1, <2>1
  <2>3. ~Overlaps(left, right) /\ ~Overlaps(right, left)
    BY <1>1, <2>1 DEF Interval, Overlaps, Before
  <2>4. /\ Blocks(left) \subseteq Blocks(a) \ Blocks(b)
        /\ Blocks(right) \subseteq Blocks(a) \ Blocks(b)
        /\ \A k \in Blocks(a) \ Blocks(b) : k \in Blocks(left) \/ k \in Blocks(right)
    BY <1>1 DEF Interval, Blocks
  <2> HIDE DEF s, left, right
  <2> QED BY <2>1, <2>2, <2>3, <2>4 DEF s
<1>2. CASE a.m_start < b.m_start /\ ~(b.m_end < a.m_end) /\ s = << left >>
  <2>1. left \in Interval
    BY <1>2 DEF Interval
  <2>2. s[1] = left /\ DOMAIN s = {1} /\ Len(s) = 1 /\ s \in Seq(Interval)
    BY <1>2, <2>1
  <2>3. Blocks(left) = Blocks(a) \ Blocks(b)
    BY <1>2 DEF Interval, Blocks, Overlaps, Before
  <2> HIDE DEF s, left
  <2> QED BY <2>1, <2>2, <2>3 DEF s
<1>3. CASE ~(a.m_start < b.m_start) /\ b.m_end < a.m_end /\ s = << right >>
  <2>1. right \in Interval
    BY <1>3 DEF Interval
  <2>2. s[1] = right /\ DOMAIN s = {1} /\ Len(s) = 1 /\ s \in Seq(Interval)
    BY <1>3, <2>1
  <2>3. Blocks(right) = Blocks(a) \ Blocks(b)
    BY <1>3 DEF Interval, Blocks, Overlaps, Before
  <2> HIDE DEF s, right
  <2> QED BY <2>1, <2>2, <2>3 DEF s
<1>4. CASE ~(a.m_start < b.m_start) /\ ~(b.m_end < a.m_end) /\ s = << >>
  <2>1. Blocks(a) \ Blocks(b) = {}
    BY <1>4 DEF Interval, Blocks
  <2> QED BY <1>4, <2>1
<1> QED BY <1>1, <1>2, <1>3, <1>4, SubtractCases

\* A non-empty set of numbers has a least one.
LEMMA LeastIn ==
  ASSUME NEW S \in SUBSET Nat, S # {}
  PROVE  Min(S) \in S /\ \A y \in S : Min(S) <= y
<1>1. PICK x \in S : \A y \in S : ~(<< y, x >> \in OpToRel(<, Nat))
  BY WFMin, NatLessThanWellFounded
<1>2. \A y \in S : ~(y < x)
  BY <1>1 DEF OpToRel
<1>3. \A y \in S : x =< y
  BY <1>2
<1> QED
  BY <1>3 DEF Min
-----------------------------------------------------------------------------
\* The keys of a map share no block, and the mode a map has for a block.
Keyed(map) == \A d, e \in map : d # e => ~Overlaps(d.iv, e.iv)

EntryIn(map, b) == FirstOverlap(map, [m_start |-> b, m_end |-> b])
ModeIn(map, b)  == IF EntryIn(map, b) = {} THEN "none" ELSE (CHOOSE e \in EntryIn(map, b) : TRUE).mode

\* file_desc_mutex is held in required_token and addPermission and while the blocks are
\* used, and only there.
Inside(t) == Adding(t) \/ pc[t] \in {"scan", "io"}
MutexHeld == \A t \in Threads : Inside(t) <=> file_desc_mutex = t

\* Everything is about blocks the calls and the revocations are about.
InFile ==
  /\ \A e \in tok_map \union rest \union kept : Blocks(e.iv) \subseteq AllBlocks
  /\ \A t \in Threads : Blocks(job[t].iv) \subseteq AllBlocks /\ Blocks(token[t]) \subseteq AllBlocks
  /\ \A t \in Threads : Adding(t) => Blocks(Hull(token[t], bl_int)) \subseteq AllBlocks
  /\ Blocks(revoke.iv) \subseteq AllBlocks

\* required_token goes through the range of the call, and remembers a block of it.
ScanInRange ==
  \A t \in Threads : pc[t] = "scan" =>
    /\ job[t].iv.m_start <= block /\ block <= job[t].iv.m_end + 1
    /\ start # -1 => job[t].iv.m_start <= start /\ start < block

\* What is left of a token is there only between erasing it and inserting the last of it.
LeftoversUsed ==
  /\ rest # {} => \E t \in Threads : pc[t] = "reinsert"
  /\ kept # {} => rpc = "reinsert"

MapInv == /\ TypeOK /\ Keyed(tok_map) /\ MutexHeld /\ InFile /\ ScanInRange /\ LeftoversUsed
          /\ SurprisedByRevoker
-----------------------------------------------------------------------------
(* What the manager records covers what the client has and is about to have. *)

Covered(b, m) == Rank[m] <= Rank[record[b]]

\* Block b is in a grant of thread t on its way to the map, or in a local of addPermission.
Coming(t, b) == \/ pc[t] = "granted" /\ b \in Blocks(token[t])
                \/ Adding(t) /\ b \in Blocks(Hull(token[t], bl_int))

\* Whatever may come into the map for block b, and with which mode.
Loose(b, m) == \/ \E t \in Threads : Coming(t, b) /\ m = job[t].mode
               \/ \E e \in rest \union kept : b \in Blocks(e.iv) /\ m = e.mode

LooseCovered ==
  known => \A b \in AllBlocks \ missed : \A m \in Modes : Loose(b, m) => Covered(b, m)

\* When the revoker is through, nothing is left of what it revokes but what it missed.
RevokedGone ==
  rpc = "answer" /\ revoke.mode = "r" =>
    \A b \in Blocks(revoke.iv) \ missed : Held(b) = "none" /\ \A m \in Modes : ~Loose(b, m)

RecordInv == ExcessOnlyMissed /\ LooseCovered /\ RevokedGone
-----------------------------------------------------------------------------
(* addPermission, or removePermission, on its way from the map it found to  *)
(* the one it leaves, when the other is not there.                          *)

\* The map with what is left of an erased token.
Full       == tok_map \union rest \union kept
HeldAll(b) == ModeIn(Full, b)

Final(t, b) == IF b \in Blocks(token[t]) /\ before[b] # "w" THEN job[t].mode ELSE before[b]

\* Off the new interval the map is as it will be; in it, all but the write tokens go.
Outer(t) == \A b \in AllBlocks \ Blocks(bl_int) : HeldAll(b) = Final(t, b)
Inner(t) == \A b \in Blocks(bl_int) : Final(t, b) = IF HeldAll(b) = "w" THEN "w" ELSE job[t].mode

\* The token that made addPermission give up covers the new interval.
Given(t) == dont_add => \E o \in tok_map : /\ Covers(o.iv, bl_int)
                                           /\ o.mode \in {"w", job[t].mode}
                                           /\ o.iv # bl_int \/ o.mode # job[t].mode

\* What the new interval has beyond the token it has taken out of the map, ...
Beyond(t) == \A b \in Blocks(bl_int) \ Blocks(token[t]) : HeldAll(b) = "none"

\* ... and it loses blocks of the token only to a write token that was there.
Whole(t) == \/ \A x \in Blocks(token[t]) : x \in Blocks(bl_int)
            \/ job[t].mode = "r" /\ \E b \in Blocks(token[t]) : before[b] = "w"

Cleared(t) == \A b \in Blocks(bl_int) : HeldAll(b) = "none" /\ Final(t, b) = job[t].mode

AddInv(t) ==
  /\ rpc \notin {"remove", "reinsert"} /\ putback = {}
  /\ Whole(t)
  /\ pc[t] \in {"add", "reinsert"} => Beyond(t)
  /\ pc[t] \in {"add", "reinsert", "finish"} => Keyed(Full) /\ Outer(t) /\ Inner(t) /\ Given(t)
  /\ pc[t] \in {"right", "left", "insert"} /\ ~LosesTokens(t) => Outer(t) /\ Cleared(t)

\* Off the revocation the map is as it was.
RemoveInv == Keyed(Full) /\ \A b \in AllBlocks \ Blocks(revoke.iv) : HeldAll(b) = before[b]

ExactInv ==
  quiet => /\ \A t \in Threads : Adding(t) => AddInv(t)
           /\ rpc \in {"remove", "reinsert"} => RemoveInv

IInv == MapInv /\ RecordInv /\ ExactInv
-----------------------------------------------------------------------------
(* Facts about maps keyed by intervals.                                     *)

\* The block lookup finds the entry with the block, if there is one.
LEMMA EntryIs ==
  ASSUME NEW map \in SUBSET Access, Keyed(map), NEW b \in Nat
  PROVE  EntryIn(map, b) = {e \in map : b \in Blocks(e.iv)}
<1>1. ASSUME NEW e \in map PROVE Overlaps(e.iv, [m_start |-> b, m_end |-> b]) <=> b \in Blocks(e.iv)
  BY DEF Access, Interval, Overlaps, Before, Blocks
<1>2. ASSUME NEW d \in map, NEW e \in map, b \in Blocks(d.iv), b \in Blocks(e.iv)
      PROVE  ~Before(d.iv, e.iv)
  BY <1>2 DEF Access, Interval, Before, Blocks
<1> QED
  BY <1>1, <1>2 DEF EntryIn, FirstOverlap

LEMMA ModeIs ==
  ASSUME NEW map \in SUBSET Access, Keyed(map), NEW b \in Nat
  PROVE  /\ \A e \in map : b \in Blocks(e.iv) => ModeIn(map, b) = e.mode
         /\ (\A e \in map : b \notin Blocks(e.iv)) => ModeIn(map, b) = "none"
         /\ ModeIn(map, b) \in Modes \union {"none"}
<1>1. EntryIn(map, b) = {e \in map : b \in Blocks(e.iv)}
  BY EntryIs
<1>2. ASSUME NEW e \in map, b \in Blocks(e.iv) PROVE ModeIn(map, b) = e.mode /\ e.mode \in Modes
  <2>1. ASSUME NEW d \in map, b \in Blocks(d.iv) PROVE d = e
    <3>1. Overlaps(d.iv, e.iv)
      BY <1>2, <2>1 DEF Access, Interval, Overlaps, Before, Blocks
    <3> QED
      BY <3>1 DEF Keyed
  <2>2. EntryIn(map, b) = {e}
    BY <1>1, <1>2, <2>1
  <2> QED
    BY <2>2 DEF ModeIn, Access
<1>3. ASSUME \A e \in map : b \notin Blocks(e.iv) PROVE ModeIn(map, b) = "none"
  BY <1>1, <1>3 DEF ModeIn
<1> QED
  BY <1>2, <1>3

\* find fails only when no key overlaps: of several that do, one ends first.
LEMMA FindsFirst ==
  ASSUME NEW map \in SUBSET Access, NEW i \in Interval, FirstOverlap(map, i) = {}
  PROVE  \A e \in map : ~Overlaps(e.iv, i)
<1> SUFFICES ASSUME NEW x \in map, Overlaps(x.iv, i) PROVE FALSE
  OBVIOUS
<1> DEFINE S == {e.iv.m_end : e \in {d \in map : Overlaps(d.iv, i)}}
<1>1. S \in SUBSET Nat /\ S # {}
  BY DEF Access, Interval
<1>2. Min(S) \in S /\ \A y \in S : Min(S) <= y
  BY <1>1, LeastIn
<1>3. PICK e \in map : Overlaps(e.iv, i) /\ e.iv.m_end = Min(S)
  BY <1>2
<1>4. ASSUME NEW d \in map, Overlaps(d.iv, i) PROVE ~Before(d.iv, e.iv)
  <2>1. e.iv.m_end <= d.iv.m_end
    BY <1>2, <1>3, <1>4
  <2> QED
    BY <2>1 DEF Access, Interval, Before
<1> QED
  BY <1>3, <1>4 DEF FirstOverlap

\* erase.
LEMMA Erased ==
  ASSUME NEW map \in SUBSET Access, Keyed(map), NEW o \in map
  PROVE  /\ map \ {o} \in SUBSET Access
         /\ Keyed(map \ {o})
         /\ \A b \in Nat : /\ b \in Blocks(o.iv) => ModeIn(map \ {o}, b) = "none"
                           /\ b \notin Blocks(o.iv) => ModeIn(map \ {o}, b) = ModeIn(map, b)
<1>1. PICK fewer \in SUBSET Access : fewer = map \ {o}
  OBVIOUS
<1>2. Keyed(fewer)
  BY <1>1 DEF Keyed
<1>3. ASSUME NEW b \in Nat, b \in Blocks(o.iv) PROVE ModeIn(fewer, b) = "none"
  <2>1. ASSUME NEW e \in fewer PROVE b \notin Blocks(e.iv)
    <3>1. ~Overlaps(e.iv, o.iv)
      BY <1>1 DEF Keyed
    <3> QED
      BY <1>1, <1>3, <3>1 DEF Access, Interval, Overlaps, Before, Blocks
  <2> QED
    BY <1>2, <2>1, ModeIs
<1>4. ASSUME NEW b \in Nat, b \notin Blocks(o.iv) PROVE ModeIn(fewer, b) = ModeIn(map, b)
  <2>1. CASE \E e \in fewer : b \in Blocks(e.iv)
    BY <1>1, <1>2, <2>1, ModeIs
  <2>2. CASE \A e \in fewer : b \notin Blocks(e.iv)
    <3>1. \A e \in map : b \notin Blocks(e.iv)
      BY <1>1, <1>4, <2>2
    <3> QED
      BY <1>2, <2>2, <3>1, ModeIs
  <2> QED
    BY <2>1, <2>2
<1> QED
  BY <1>1, <1>2, <1>3, <1>4

\* insert of an interval no key overlaps; otherwise it changes nothing.
Insert(map, n) == MapInsert(map, {n})

LEMMA Inserted ==
  ASSUME NEW map \in SUBSET Access, Keyed(map), NEW n \in Access
  PROVE  /\ Insert(map, n) \in SUBSET Access
         /\ Keyed(Insert(map, n))
         /\ (\E d \in map : Overlaps(d.iv, n.iv)) => Insert(map, n) = map
         /\ (\A d \in map : ~Overlaps(d.iv, n.iv)) =>
              /\ Insert(map, n) = map \union {n}
              /\ \A b \in Nat : /\ b \in Blocks(n.iv) => ModeIn(Insert(map, n), b) = n.mode
                                /\ b \notin Blocks(n.iv) => ModeIn(Insert(map, n), b) = ModeIn(map, b)
<1>1. PICK more \in SUBSET Access : more = Insert(map, n)
  BY DEF Insert, MapInsert
<1>2. CASE \E d \in map : Overlaps(d.iv, n.iv)
  <2>1. more = map
    BY <1>1, <1>2 DEF Insert, MapInsert
  <2> QED
    BY <1>1, <1>2, <2>1
<1>3. CASE \A d \in map : ~Overlaps(d.iv, n.iv)
  <2>1. more = map \union {n}
    BY <1>1, <1>3 DEF Insert, MapInsert
  <2>2. Keyed(more)
    BY <1>3, <2>1 DEF Keyed, Overlaps
  <2>3. ASSUME NEW b \in Nat, b \in Blocks(n.iv) PROVE ModeIn(more, b) = n.mode
    BY <2>1, <2>2, <2>3, ModeIs
  <2>4. ASSUME NEW b \in Nat, b \notin Blocks(n.iv) PROVE ModeIn(more, b) = ModeIn(map, b)
    <3>1. CASE \E e \in map : b \in Blocks(e.iv)
      BY <2>1, <2>2, <3>1, ModeIs
    <3>2. CASE \A e \in map : b \notin Blocks(e.iv)
      <4>1. \A e \in more : b \notin Blocks(e.iv)
        BY <2>1, <2>4, <3>2
      <4> QED
        BY <2>2, <3>2, <4>1, ModeIs
    <3> QED
      BY <3>1, <3>2
  <2> QED
    BY <1>1, <1>3, <2>1, <2>2, <2>3, <2>4
<1> QED
  BY <1>2, <1>3

\* What is left of a token without an interval that overlaps it.
LEMMA RemaindersAre ==
  ASSUME NEW o \in Access, NEW i \in Interval, Overlaps(o.iv, i)
  PROVE  /\ Remainders(o, i) \subseteq Access
         /\ \A e \in Remainders(o, i) : e.mode = o.mode /\ Blocks(e.iv) \subseteq Blocks(o.iv) \ Blocks(i)
         /\ \A d, e \in Remainders(o, i) : d # e => ~Overlaps(d.iv, e.iv)
         /\ \A k \in Blocks(o.iv) \ Blocks(i) : \E e \in Remainders(o, i) : k \in Blocks(e.iv)
         /\ o.iv = i => Remainders(o, i) = {}
<1>1. PICK s \in Seq(Interval) :
        /\ s = Subtract(o.iv, i)
        /\ \A p, q \in DOMAIN s : p # q => ~Overlaps(s[p], s[q])
        /\ \A p \in DOMAIN s : Blocks(s[p]) \subseteq Blocks(o.iv) \ Blocks(i)
        /\ \A k \in Blocks(o.iv) \ Blocks(i) : \E p \in DOMAIN s : k \in Blocks(s[p])
  BY SubtractCorrect DEF Access
<1>2. PICK left : left = Remainders(o, i)
  OBVIOUS
<1>3. \A p \in DOMAIN s : s[p] \in Interval
  BY <1>1, ElementOfSeq
<1>4. left = {[iv |-> s[p], mode |-> o.mode] : p \in DOMAIN s}
  BY <1>1, <1>2 DEF Remainders
<1>5. \A p \in DOMAIN s : [iv |-> s[p], mode |-> o.mode] \in left
  BY <1>4
<1>6. ASSUME NEW e \in left PROVE \E p \in DOMAIN s : e.iv = s[p] /\ e.mode = o.mode /\ e \in Access
  BY <1>3, <1>4 DEF Access
<1>7. \A d, e \in left : d # e => ~Overlaps(d.iv, e.iv)
  <2> SUFFICES ASSUME NEW d \in left, NEW e \in left, d # e PROVE ~Overlaps(d.iv, e.iv)
    OBVIOUS
  <2>1. PICK p \in DOMAIN s : d = [iv |-> s[p], mode |-> o.mode]
    BY <1>4
  <2>2. PICK q \in DOMAIN s : e = [iv |-> s[q], mode |-> o.mode]
    BY <1>4
  <2>3. d.iv = s[p] /\ e.iv = s[q] /\ p # q
    BY <2>1, <2>2
  <2> QED
    BY <1>1, <2>3
<1>8. \A k \in Blocks(o.iv) \ Blocks(i) : \E e \in left : k \in Blocks(e.iv)
  BY <1>1, <1>5
<1>9. \A e \in left : e \in Access /\ e.mode = o.mode /\ Blocks(e.iv) \subseteq Blocks(o.iv) \ Blocks(i)
  BY <1>1, <1>6
<1>10. ASSUME o.iv = i, NEW e \in left PROVE FALSE
  <2>1. e.iv \in Interval /\ Blocks(e.iv) = {}
    BY <1>9, <1>10 DEF Access
  <2>2. e.iv.m_start \in Blocks(e.iv)
    BY <2>1 DEF Interval, Blocks
  <2> QED
    BY <2>1, <2>2
<1> QED
  BY <1>2, <1>7, <1>8, <1>9, <1>10

\* The map without a token, and what is left of the token without an interval.
Carve(map, o, i) == (map \ {o}) \union Remainders(o, i)

LEMMA Carved ==
  ASSUME NEW map \in SUBSET Access, Keyed(map), NEW o \in map, NEW i \in Interval, Overlaps(o.iv, i)
  PROVE  /\ Carve(map, o, i) \in SUBSET Access
         /\ Keyed(Carve(map, o, i))
         /\ \A b \in Nat :
              /\ b \in Blocks(o.iv) /\ b \in Blocks(i) => ModeIn(Carve(map, o, i), b) = "none"
              /\ ~(b \in Blocks(o.iv) /\ b \in Blocks(i)) => ModeIn(Carve(map, o, i), b) = ModeIn(map, b)
<1>2. PICK left : left = Remainders(o, i)
  OBVIOUS
<1>3. /\ left \subseteq Access
      /\ \A e \in left : e.mode = o.mode /\ Blocks(e.iv) \subseteq Blocks(o.iv) \ Blocks(i)
      /\ \A d, e \in left : d # e => ~Overlaps(d.iv, e.iv)
      /\ \A k \in Blocks(o.iv) \ Blocks(i) : \E e \in left : k \in Blocks(e.iv)
  BY <1>2, RemaindersAre
<1>4. ASSUME NEW d \in map \ {o}, NEW e \in left PROVE ~Overlaps(d.iv, e.iv) /\ ~Overlaps(e.iv, d.iv)
  <2>1. ~Overlaps(d.iv, o.iv) /\ Blocks(e.iv) \subseteq Blocks(o.iv)
    BY <1>3 DEF Keyed
  <2>2. d.iv \in Interval /\ e.iv \in Interval /\ o.iv \in Interval
    BY <1>3 DEF Access
  <2> QED
    BY <2>1, <2>2 DEF Interval, Overlaps, Before, Blocks
<1>5. PICK new \in SUBSET Access : new = (map \ {o}) \union left
  BY <1>3
<1>6. new = Carve(map, o, i)
  BY <1>2, <1>5 DEF Carve
<1>7. Keyed(new)
  BY <1>3, <1>4, <1>5 DEF Keyed
<1>8. ASSUME NEW b \in Nat, b \in Blocks(o.iv), b \in Blocks(i) PROVE ModeIn(new, b) = "none"
  <2>1. ASSUME NEW e \in new PROVE b \notin Blocks(e.iv)
    <3>1. CASE e \in left
      BY <1>3, <1>8, <3>1
    <3>2. CASE e \in map \ {o}
      <4>1. ~Overlaps(e.iv, o.iv) /\ e.iv \in Interval /\ o.iv \in Interval
        BY <3>2 DEF Keyed, Access
      <4> QED
        BY <1>8, <4>1 DEF Interval, Overlaps, Before, Blocks
    <3> QED
      BY <1>5, <3>1, <3>2
  <2> QED
    BY <1>7, <2>1, ModeIs
<1>9. ASSUME NEW b \in Nat, ~(b \in Blocks(o.iv) /\ b \in Blocks(i)) PROVE ModeIn(new, b) = ModeIn(map, b)
  <2>1. CASE b \in Blocks(o.iv)
    <3>1. PICK e \in left : b \in Blocks(e.iv)
      BY <1>3, <1>9, <2>1
    <3>2. e \in new /\ e.mode = o.mode
      BY <1>3, <1>5, <3>1
    <3> QED
      BY <1>7, <2>1, <3>1, <3>2, ModeIs
  <2>2. CASE b \notin Blocks(o.iv) /\ \E e \in map : b \in Blocks(e.iv)
    <3>1. PICK e \in map : b \in Blocks(e.iv)
      BY <2>2
    <3>2. e \in new
      BY <1>5, <2>2, <3>1
    <3> QED
      BY <1>7, <3>1, <3>2, ModeIs
  <2>3. CASE \A e \in map : b \notin Blocks(e.iv)
    <3>1. \A e \in new : b \notin Blocks(e.iv)
      BY <1>3, <1>5, <2>3
    <3> QED
      BY <1>7, <2>3, <3>1, ModeIs
  <2> QED
    BY <2>1, <2>2, <2>3
<1> QED
  BY <1>5, <1>6, <1>7, <1>8, <1>9
-----------------------------------------------------------------------------
(* What an iteration of addPermission's loop does to the map.               *)

LEMMA HeldIs     == \A b : Held(b) = ModeIn(tok_map, b)
  BY DEF Held, Entry, ModeIn, EntryIn

LEMMA HeldIsNext == \A b : Held(b)' = ModeIn(tok_map', b)
  BY DEF Held, Entry, ModeIn, EntryIn

\* The blocks of the file.
LEMMA BlocksOfFile ==
  /\ AllBlocks \subseteq Nat
  /\ 0 \in AllBlocks
  /\ \A j \in Jobs \union Revocations : j \in Access /\ Blocks(j.iv) \subseteq AllBlocks
<1>1. \A j \in Jobs \union Revocations : j \in Access
  BY JobsAssumption
<1>2. ASSUME NEW j \in Jobs \union Revocations PROVE Blocks(j.iv) \subseteq Nat
  <2>1. j.iv \in Interval
    BY <1>1 DEF Access
  <2> QED
    BY <2>1 DEF Interval, Blocks
<1>3. \A b \in AllBlocks : b = 0 \/ \E j \in Jobs \union Revocations : b \in Blocks(j.iv)
  BY Zenon DEF AllBlocks
<1>4. \A j \in Jobs \union Revocations : Blocks(j.iv) \subseteq AllBlocks
  BY Zenon DEF AllBlocks
<1>5. 0 \in AllBlocks
  BY Zenon DEF AllBlocks
<1> QED
  BY <1>1, <1>2, <1>3, <1>4, <1>5

\* The thread inside addPermission is the one that holds the mutex.
LEMMA OneInside ==
  ASSUME MutexHeld, NEW t \in Threads, Inside(t)
  PROVE  file_desc_mutex = t /\ \A u \in Threads : u # t => ~Inside(u) /\ ~Adding(u) /\ pc[u] # "scan"
  BY DEF MutexHeld, Inside

LEMMA NoneInside ==
  ASSUME MutexHeld, file_desc_mutex = Free
  PROVE  \A u \in Threads : ~Inside(u) /\ ~Adding(u) /\ pc[u] # "scan"
  BY FreeAssumption DEF MutexHeld, Inside

\* The token an iteration works on.
LEMMA FoundIs ==
  ASSUME NEW map \in SUBSET Access, NEW i \in Interval, NEW o \in FirstOverlap(map, i)
  PROVE  /\ o \in map /\ o.iv \in Interval /\ o.mode \in Modes /\ Overlaps(o.iv, i)
         /\ \A d \in map : Overlaps(d.iv, i) => ~Before(d.iv, o.iv)
  BY DEF FirstOverlap, Access

\* Two intervals lie in their hull; when they meet it has no other block.
LEMMA HullIs ==
  ASSUME NEW a \in Interval, NEW n \in Interval, NEW h, h = Hull(a, n)
  PROVE  /\ h \in Interval
         /\ h.m_start <= a.m_start /\ a.m_end <= h.m_end
         /\ h.m_start <= n.m_start /\ n.m_end <= h.m_end
         /\ \A b : b \in Blocks(a) \/ b \in Blocks(n) => b \in Blocks(h)
         /\ Overlaps(a, n) => \A b : b \in Blocks(h) => b \in Blocks(a) \/ b \in Blocks(n)
<1>1. /\ h \in Interval
      /\ h.m_start <= a.m_start /\ a.m_end <= h.m_end
      /\ h.m_start <= n.m_start /\ n.m_end <= h.m_end
  BY DEF Interval, Hull
<1>2. ASSUME NEW b, b \in Blocks(a) \/ b \in Blocks(n) PROVE b \in Blocks(h)
  BY <1>2 DEF Interval, Hull, Blocks
<1>3. ASSUME Overlaps(a, n), NEW b, b \in Blocks(h) PROVE b \in Blocks(a) \/ b \in Blocks(n)
  BY <1>3 DEF Interval, Overlaps, Before, Hull, Blocks
<1> QED
  BY <1>1, <1>2, <1>3

\* The hull with an interval that takes in another, or gives way.
LEMMA HullGrows ==
  ASSUME NEW k \in Interval, NEW o \in Interval, NEW n \in Interval, Overlaps(o, n),
         NEW h, h = Hull(o, n)
  PROVE  \A b \in Blocks(Hull(k, h)) : b \in Blocks(Hull(k, n)) \/ b \in Blocks(o)
  BY DEF Interval, Overlaps, Before, Hull, Blocks

LEMMA HullShrinks ==
  ASSUME NEW k \in Interval, NEW n \in Interval, NEW h \in Interval,
         n.m_start <= h.m_start, h.m_end <= n.m_end
  PROVE  \A b \in Blocks(Hull(k, h)) : b \in Blocks(Hull(k, n))
  BY DEF Interval, Hull, Blocks

\* A new interval that gives way to a token, on its right or on its left.
LEMMA CutRight ==
  ASSUME NEW a \in Interval, NEW n \in Interval, Overlaps(a, n), ~Covers(a, n), n.m_end <= a.m_end,
         NEW h, h = [m_start |-> n.m_start, m_end |-> a.m_start - 1]
  PROVE  /\ h \in Interval /\ h.m_start = n.m_start /\ h.m_end <= n.m_end
         /\ Blocks(h) \subseteq Blocks(n) \ Blocks(a)
         /\ \A b \in Blocks(n) : b \in Blocks(h) \/ b \in Blocks(a)
<1>1. h = [m_start |-> n.m_start, m_end |-> a.m_start - 1]
  OBVIOUS
<1>2. h \in Interval /\ h.m_start = n.m_start /\ h.m_end <= n.m_end
  BY <1>1 DEF Covers, Interval, Overlaps, Before
<1>3. /\ Blocks(h) \subseteq Blocks(n) \ Blocks(a)
      /\ \A b \in Blocks(n) : b \in Blocks(h) \/ b \in Blocks(a)
  BY <1>1 DEF Covers, Interval, Overlaps, Before, Blocks
<1> QED
  BY <1>2, <1>3

LEMMA CutLeft ==
  ASSUME NEW a \in Interval, NEW n \in Interval, Overlaps(a, n), a.m_end < n.m_end,
         NEW h, h = [m_start |-> a.m_end + 1, m_end |-> n.m_end]
  PROVE  /\ h \in Interval /\ h.m_end = n.m_end /\ n.m_start <= h.m_start
         /\ Blocks(h) \subseteq Blocks(n) \ Blocks(a)
         /\ n.m_start >= a.m_start => \A b \in Blocks(n) : b \in Blocks(h) \/ b \in Blocks(a)
<1>1. h = [m_start |-> a.m_end + 1, m_end |-> n.m_end]
  OBVIOUS
<1>2. h \in Interval /\ h.m_end = n.m_end /\ n.m_start <= h.m_start
  BY <1>1 DEF Interval, Overlaps, Before
<1>3. /\ Blocks(h) \subseteq Blocks(n) \ Blocks(a)
      /\ n.m_start >= a.m_start => \A b \in Blocks(n) : b \in Blocks(h) \/ b \in Blocks(a)
  BY <1>1 DEF Interval, Overlaps, Before, Blocks
<1> QED
  BY <1>2, <1>3

\* The state of the loop, as far as its shape goes.
LEMMA LoopFacts ==
  ASSUME MapInv, NEW t \in Threads, Adding(t)
  PROVE  /\ tok_map \in SUBSET Access /\ Keyed(tok_map) /\ bl_int \in Interval /\ token[t] \in Interval
         /\ \A e \in tok_map : e.iv \in Interval /\ e.mode \in Modes /\ Blocks(e.iv) \subseteq AllBlocks
         /\ Blocks(Hull(token[t], bl_int)) \subseteq AllBlocks
         /\ Blocks(bl_int) \subseteq Blocks(Hull(token[t], bl_int))
         /\ Blocks(token[t]) \subseteq Blocks(Hull(token[t], bl_int))
         /\ pc \in [Threads -> PCs] /\ dont_add \in BOOLEAN /\ rest \in SUBSET Access
         /\ job[t].mode \in Modes
<1>1. /\ tok_map \in SUBSET Access /\ Keyed(tok_map) /\ bl_int \in Interval /\ token[t] \in Interval
      /\ \A e \in tok_map : e.iv \in Interval /\ e.mode \in Modes /\ Blocks(e.iv) \subseteq AllBlocks
      /\ Blocks(Hull(token[t], bl_int)) \subseteq AllBlocks
      /\ pc \in [Threads -> PCs] /\ dont_add \in BOOLEAN /\ rest \in SUBSET Access
      /\ job[t].mode \in Modes
  BY DEF MapInv, TypeOK, InFile, Access
<1> QED
  BY <1>1, HullIs

\* Away from the insertion of what is left, nothing is.
LEMMA NoRest ==
  ASSUME MapInv, NEW t \in Threads, Inside(t), pc[t] # "reinsert"
  PROVE  rest = {}
<1>1. \A u \in Threads : pc[u] = "reinsert" => u = t
  BY OneInside DEF MapInv, Adding
<1> QED
  BY <1>1 DEF MapInv, LeftoversUsed

\* Where an iteration leaves the map and the new interval.
LoopResult(t) ==
  /\ tok_map' \in SUBSET Access /\ Keyed(tok_map') /\ rest' \in SUBSET Access
  /\ \A e \in tok_map' \union rest' : Blocks(e.iv) \subseteq AllBlocks
  /\ bl_int' \in Interval /\ Blocks(Hull(token[t], bl_int')) \subseteq AllBlocks
  /\ dont_add' \in BOOLEAN
  /\ pc'[t] \in {"add", "reinsert", "finish"} /\ pc' = [pc EXCEPT ![t] = pc'[t]]
  /\ rest' # {} => pc'[t] = "reinsert"
  /\ pc'[t] = "finish" /\ ~dont_add' => \A e \in tok_map' : ~Overlaps(e.iv, bl_int')

LEMMA WriteOverReadKeeps ==
  ASSUME MapInv, NEW t \in Threads, pc[t] = "add", NEW o \in FirstOverlap(tok_map, bl_int),
         WriteOverRead(t, o)
  PROVE  LoopResult(t)
<1>0. Adding(t)
  BY DEF Adding
<1>1. /\ o \in tok_map /\ o \in Access /\ o.iv \in Interval /\ o.mode \in Modes /\ Overlaps(o.iv, bl_int)
  BY <1>0, LoopFacts, FoundIs
<1>2. /\ tok_map' = tok_map \ {o} /\ rest' = Remainders(o, bl_int)
      /\ bl_int' = bl_int /\ dont_add' = dont_add
      /\ GoTo(t, IF o.iv = bl_int THEN "finish" ELSE IF rest' = {} THEN "add" ELSE "reinsert")
  BY DEF WriteOverRead
<1>3. tok_map' \in SUBSET Access /\ Keyed(tok_map')
  BY <1>0, <1>1, <1>2, LoopFacts, Erased
<1>4. /\ rest' \in SUBSET Access
      /\ \A e \in rest' : Blocks(e.iv) \subseteq Blocks(o.iv)
      /\ o.iv = bl_int => rest' = {}
  BY <1>0, <1>1, <1>2, LoopFacts, RemaindersAre
<1>5. \A e \in tok_map' \union rest' : Blocks(e.iv) \subseteq AllBlocks
  BY <1>0, <1>1, <1>2, <1>4, LoopFacts
<1>6. ASSUME pc'[t] = "finish", NEW e \in tok_map' PROVE ~Overlaps(e.iv, bl_int')
  <2>1. o.iv = bl_int
    BY <1>0, <1>2, <1>6, LoopFacts DEF GoTo
  <2> QED
    BY <1>0, <1>1, <1>2, <1>6, <2>1, LoopFacts DEF Keyed
<1>7. /\ pc'[t] \in {"add", "reinsert", "finish"} /\ pc' = [pc EXCEPT ![t] = pc'[t]]
      /\ rest' # {} => pc'[t] = "reinsert"
  BY <1>0, <1>2, <1>4, LoopFacts DEF GoTo
<1> QED
  BY <1>0, <1>2, <1>3, <1>4, <1>5, <1>6, <1>7, LoopFacts DEF LoopResult

LEMMA SameModeKeeps ==
  ASSUME MapInv, NEW t \in Threads, pc[t] = "add", NEW o \in FirstOverlap(tok_map, bl_int),
         SameMode(t, o)
  PROVE  LoopResult(t) /\ rest' = {}
<1>0. Adding(t) /\ Inside(t)
  BY DEF Adding, Inside
<1>1. /\ o \in tok_map /\ o.iv \in Interval /\ o.mode \in Modes /\ Overlaps(o.iv, bl_int)
  BY <1>0, LoopFacts, FoundIs
<1>2. rest' = {}
  BY <1>0, NoRest DEF SameMode
<1>3. CASE UNCHANGED << tok_map, bl_int >> /\ dont_add' = TRUE
           /\ GoTo(t, IF o.iv.m_start = bl_int.m_start THEN "finish" ELSE "add")
  <2>1. pc'[t] \in {"add", "finish"} /\ pc' = [pc EXCEPT ![t] = pc'[t]]
    BY <1>0, <1>3, LoopFacts DEF GoTo
  <2> QED
    BY <1>0, <1>2, <1>3, <2>1, LoopFacts DEF LoopResult
<1>4. CASE /\ ~Covers(o.iv, bl_int) \/ o.iv = bl_int
           /\ tok_map' = tok_map \ {o}
           /\ bl_int' = Hull(o.iv, bl_int)
           /\ GoTo(t, IF o.iv = bl_int THEN "finish" ELSE "add")
           /\ UNCHANGED dont_add
  <2>1. tok_map' \in SUBSET Access /\ Keyed(tok_map')
    BY <1>0, <1>1, <1>4, LoopFacts, Erased
  <2>2. /\ bl_int' \in Interval
        /\ \A b : b \in Blocks(bl_int') <=> b \in Blocks(o.iv) \/ b \in Blocks(bl_int)
    BY <1>0, <1>1, <1>4, LoopFacts, HullIs
  <2>3. Blocks(Hull(token[t], bl_int')) \subseteq AllBlocks
    BY <1>0, <1>1, <1>4, LoopFacts, HullGrows
  <2>4. ASSUME pc'[t] = "finish", NEW e \in tok_map' PROVE ~Overlaps(e.iv, bl_int')
    <3>1. o.iv = bl_int
      BY <1>0, <1>4, <2>4, LoopFacts DEF GoTo
    <3>2. \A b : b \in Blocks(bl_int') <=> b \in Blocks(o.iv)
      BY <2>2, <3>1
    <3>3. ~Overlaps(e.iv, o.iv) /\ e.iv \in Interval
      BY <1>0, <1>1, <1>4, <2>4, LoopFacts DEF Keyed
    <3>4. Blocks(e.iv) \intersect Blocks(bl_int') = {}
      BY <1>1, <3>2, <3>3, OverlapsMeet
    <3> QED
      BY <2>2, <3>3, <3>4, OverlapsMeet
  <2>5. pc'[t] \in {"add", "finish"} /\ pc' = [pc EXCEPT ![t] = pc'[t]]
    BY <1>0, <1>4, LoopFacts DEF GoTo
  <2>6. \A e \in tok_map' \union rest' : Blocks(e.iv) \subseteq AllBlocks
    BY <1>0, <1>2, <1>4, LoopFacts
  <2> QED
    BY <1>0, <1>2, <1>4, <2>1, <2>2, <2>3, <2>4, <2>5, <2>6, LoopFacts DEF LoopResult
<1> QED
  BY <1>2, <1>3, <1>4 DEF SameMode

LEMMA ReadOverWriteKeeps ==
  ASSUME MapInv, NEW t \in Threads, pc[t] = "add", NEW o \in FirstOverlap(tok_map, bl_int),
         ReadOverWrite(t, o)
  PROVE  LoopResult(t) /\ rest' = {}
<1>0. Adding(t) /\ Inside(t)
  BY DEF Adding, Inside
<1>1. /\ o \in tok_map /\ o.iv \in Interval /\ o.mode \in Modes /\ Overlaps(o.iv, bl_int)
  BY <1>0, LoopFacts, FoundIs
<1>2. rest' = {}
  BY <1>0, NoRest DEF ReadOverWrite
<1>3. CASE UNCHANGED << tok_map, bl_int >> /\ dont_add' = TRUE
           /\ GoTo(t, IF o.iv.m_start = bl_int.m_start THEN "finish" ELSE "add")
  <2>1. pc'[t] \in {"add", "finish"} /\ pc' = [pc EXCEPT ![t] = pc'[t]]
    BY <1>0, <1>3, LoopFacts DEF GoTo
  <2> QED
    BY <1>0, <1>2, <1>3, <2>1, LoopFacts DEF LoopResult
<1>4. CASE /\ ~Covers(o.iv, bl_int)
           /\ o.iv.m_end >= bl_int.m_end
           /\ bl_int' = [bl_int EXCEPT !.m_end = o.iv.m_start - 1]
           /\ UNCHANGED << tok_map, dont_add, pc >>
  <2>1. bl_int \in Interval
    BY <1>0, LoopFacts
  <2>2. bl_int' \in Interval /\ bl_int'.m_start = bl_int.m_start /\ bl_int'.m_end <= bl_int.m_end
    <3>1. o.iv \in Interval /\ Overlaps(o.iv, bl_int) /\ ~Covers(o.iv, bl_int)
      BY <1>1, <1>4
    <3>2. bl_int.m_end <= o.iv.m_end
      BY <1>1, <1>4, <2>1 DEF Interval
    <3>3. bl_int' = [m_start |-> bl_int.m_start, m_end |-> o.iv.m_start - 1]
      BY <1>4, <2>1 DEF Interval
    <3> QED
      BY <2>1, <3>1, <3>2, <3>3, CutRight
  <2>3. Blocks(Hull(token[t], bl_int')) \subseteq AllBlocks
    <3>1. bl_int.m_start <= bl_int'.m_start
      BY <2>1, <2>2 DEF Interval
    <3> QED
      BY <1>0, <2>2, <3>1, LoopFacts, HullShrinks
  <2>4. pc'[t] = "add" /\ pc' = [pc EXCEPT ![t] = pc'[t]]
    BY <1>0, <1>4, LoopFacts
  <2> QED
    BY <1>0, <1>2, <1>4, <2>2, <2>3, <2>4, LoopFacts DEF LoopResult
<1>5. CASE /\ o.iv.m_end < bl_int.m_end
           /\ bl_int' = [bl_int EXCEPT !.m_start = o.iv.m_end + 1]
           /\ tok_map' = IF bl_int.m_start < o.iv.m_start
                         THEN MapInsert(tok_map, {[iv |-> [bl_int EXCEPT !.m_end = o.iv.m_start - 1],
                                                   mode |-> "r"]})
                         ELSE tok_map
           /\ UNCHANGED << dont_add, pc >>
  <2>1. bl_int \in Interval
    BY <1>0, LoopFacts
  <2>2. bl_int' \in Interval /\ bl_int.m_start <= bl_int'.m_start /\ bl_int'.m_end = bl_int.m_end
    <3>1. bl_int' = [m_start |-> o.iv.m_end + 1, m_end |-> bl_int.m_end]
      BY <1>5, <2>1 DEF Interval
    <3> QED
      BY <1>1, <1>5, <2>1, <3>1, CutLeft
  <2>3. Blocks(Hull(token[t], bl_int')) \subseteq AllBlocks
    <3>1. bl_int'.m_end <= bl_int.m_end
      BY <2>1, <2>2 DEF Interval
    <3> QED
      BY <1>0, <2>2, <3>1, LoopFacts, HullShrinks
  <2>4. pc'[t] = "add" /\ pc' = [pc EXCEPT ![t] = pc'[t]]
    BY <1>0, <1>5, LoopFacts
  <2>5. /\ tok_map' \in SUBSET Access /\ Keyed(tok_map')
        /\ \A e \in tok_map' : Blocks(e.iv) \subseteq AllBlocks
    <3>1. CASE bl_int.m_start < o.iv.m_start
      <4>1. PICK n \in Access : /\ n.iv = [m_start |-> bl_int.m_start, m_end |-> o.iv.m_start - 1]
                                /\ n.mode = "r" /\ tok_map' = Insert(tok_map, n)
        <5>1. [bl_int EXCEPT !.m_end = o.iv.m_start - 1] = [m_start |-> bl_int.m_start, m_end |-> o.iv.m_start - 1]
          BY <1>0, LoopFacts DEF Interval
        <5>2. [m_start |-> bl_int.m_start, m_end |-> o.iv.m_start - 1] \in Interval
          BY <1>0, <1>1, <3>1, LoopFacts DEF Interval
        <5> QED
          BY <1>5, <3>1, <5>1, <5>2 DEF Insert, Access, Modes
      <4>2. \A b \in Blocks(n.iv) : b \in Blocks(bl_int)
        BY <1>0, <1>1, <1>5, <4>1, LoopFacts DEF Interval, Overlaps, Before, Blocks
      <4>3. tok_map' \in SUBSET Access /\ Keyed(tok_map')
        BY <1>0, <4>1, LoopFacts, Inserted
      <4>4. \A e \in tok_map' : e \in tok_map \/ e = n
        BY <4>1 DEF Insert, MapInsert
      <4> QED
        BY <1>0, <4>2, <4>3, <4>4, LoopFacts
    <3>2. CASE ~(bl_int.m_start < o.iv.m_start)
      BY <1>0, <1>5, <3>2, LoopFacts
    <3> QED
      BY <3>1, <3>2
  <2> QED
    BY <1>0, <1>2, <1>5, <2>2, <2>3, <2>4, <2>5, LoopFacts DEF LoopResult
<1> QED
  BY <1>2, <1>3, <1>4, <1>5 DEF ReadOverWrite

LEMMA AddStepKeeps ==
  ASSUME MapInv, NEW t \in Threads, AddStep(t)
  PROVE  LoopResult(t) /\ pc[t] = "add" /\ rest = {}
<1>1. pc[t] = "add" /\ rest = {} /\ Adding(t)
  BY NoRest DEF AddStep, At, Inside, Adding
<1>2. CASE \E o \in FirstOverlap(tok_map, bl_int) : WriteOverRead(t, o)
  BY <1>1, <1>2, WriteOverReadKeeps
<1>3. CASE \E o \in FirstOverlap(tok_map, bl_int) : SameMode(t, o)
  BY <1>1, <1>3, SameModeKeeps
<1>4. CASE \E o \in FirstOverlap(tok_map, bl_int) : ReadOverWrite(t, o)
  BY <1>1, <1>4, ReadOverWriteKeeps
<1>5. CASE FirstOverlap(tok_map, bl_int) = {} /\ GoTo(t, "finish") /\ UNCHANGED << tok_map, addVars >>
  <2>1. bl_int' = bl_int /\ dont_add' = dont_add /\ tok_map' = tok_map /\ rest' = {}
    BY <1>1, <1>5 DEF addVars
  <2>2. pc'[t] = "finish" /\ pc' = [pc EXCEPT ![t] = pc'[t]]
    BY <1>1, <1>5, LoopFacts DEF GoTo
  <2>3. \A e \in tok_map : ~Overlaps(e.iv, bl_int)
    BY <1>1, <1>5, LoopFacts, FindsFirst
  <2> QED
    BY <1>1, <2>1, <2>2, <2>3, LoopFacts DEF LoopResult
<1> QED
  BY <1>1, <1>2, <1>3, <1>4, <1>5 DEF AddStep
-----------------------------------------------------------------------------
(* What follows the loop, and what the revoker does.                        *)

LEMMA NeighbourIs ==
  ASSUME TypeOK, Keyed(tok_map), NEW t \in Threads, NEW b \in Nat
  PROVE  \A o \in Neighbour(t, b) : /\ o \in tok_map /\ o.iv \in Interval
                                    /\ b \in Blocks(o.iv) /\ o.mode = job[t].mode
<1>1. tok_map \in SUBSET Access
  BY DEF TypeOK
<1>2. Entry(b) = {e \in tok_map : b \in Blocks(e.iv)}
  BY <1>1, EntryIs DEF EntryIn, Entry
<1> QED
  BY <1>1, <1>2 DEF Neighbour, Access

\* A merge takes a neighbour of the same mode out of the map, into the new interval.
MergeResult(t, o) ==
  /\ o \in tok_map /\ o.iv \in Interval /\ o.mode = job[t].mode
  /\ tok_map' = tok_map \ {o}
  /\ bl_int' \in Interval
  /\ \A b \in Blocks(Hull(token[t], bl_int')) : b \in Blocks(Hull(token[t], bl_int)) \/ b \in Blocks(o.iv)

LEMMA MergeRightIs ==
  ASSUME MapInv, NEW t \in Threads, MergeRight(t)
  PROVE  \/ UNCHANGED << tok_map, bl_int, pc >>
         \/ GoTo(t, "left") /\ UNCHANGED << tok_map, bl_int >>
         \/ /\ GoTo(t, "left")
            /\ \E o \in tok_map : /\ MergeResult(t, o)
                                  /\ token[t].m_end + 1 \in Blocks(o.iv)
                                  /\ bl_int'.m_start = bl_int.m_start /\ bl_int'.m_end = o.iv.m_end
<1>1. TypeOK /\ Keyed(tok_map) /\ token[t] \in Interval /\ bl_int \in Interval /\ token[t].m_end + 1 \in Nat
  BY DEF MapInv, TypeOK, Interval
<1>2. ASSUME NEW o \in Neighbour(t, token[t].m_end + 1),
             Merge(t, o, [bl_int EXCEPT !.m_end = o.iv.m_end], "left"), ~UNCHANGED << tok_map, bl_int, pc >>
      PROVE  /\ GoTo(t, "left")
             /\ o \in tok_map /\ MergeResult(t, o) /\ token[t].m_end + 1 \in Blocks(o.iv)
             /\ bl_int'.m_start = bl_int.m_start /\ bl_int'.m_end = o.iv.m_end
  <2>1. o \in tok_map /\ o.iv \in Interval /\ token[t].m_end + 1 \in Blocks(o.iv) /\ o.mode = job[t].mode
    BY <1>1, NeighbourIs
  <2>2. [bl_int EXCEPT !.m_end = o.iv.m_end] = [m_start |-> bl_int.m_start, m_end |-> o.iv.m_end]
    BY <1>1 DEF Interval
  <2>3. GoTo(t, "left") /\ tok_map' = tok_map \ {o}
    BY <1>2 DEF Merge
  <2>4. bl_int' = [m_start |-> bl_int.m_start, m_end |-> o.iv.m_end] /\ bl_int.m_start <= o.iv.m_end
    BY <1>2, <2>2 DEF Merge
  <2>5. bl_int' \in Interval
    BY <1>1, <2>1, <2>4 DEF Interval
  <2>6. ASSUME NEW b \in Blocks(Hull(token[t], bl_int'))
        PROVE  b \in Blocks(Hull(token[t], bl_int)) \/ b \in Blocks(o.iv)
    BY <1>1, <2>1, <2>4, <2>6 DEF Interval, Hull, Blocks
  <2> QED
    BY <2>1, <2>3, <2>4, <2>5, <2>6 DEF MergeResult
<1> QED
  BY <1>2 DEF MergeRight

LEMMA MergeLeftIs ==
  ASSUME MapInv, NEW t \in Threads, MergeLeft(t)
  PROVE  \/ UNCHANGED << tok_map, bl_int, pc >>
         \/ GoTo(t, "insert") /\ UNCHANGED << tok_map, bl_int >>
         \/ /\ GoTo(t, "insert")
            /\ \E o \in tok_map : /\ MergeResult(t, o)
                                  /\ token[t].m_start # 0 /\ token[t].m_start - 1 \in Blocks(o.iv)
                                  /\ bl_int'.m_start = o.iv.m_start /\ bl_int'.m_end = bl_int.m_end
<1>1. TypeOK /\ Keyed(tok_map) /\ token[t] \in Interval /\ bl_int \in Interval
  BY DEF MapInv, TypeOK
<1>2. ASSUME NEW o \in LeftNeighbour(t),
             Merge(t, o, [bl_int EXCEPT !.m_start = o.iv.m_start], "insert"), ~UNCHANGED << tok_map, bl_int, pc >>
      PROVE  /\ GoTo(t, "insert")
             /\ o \in tok_map /\ MergeResult(t, o)
             /\ token[t].m_start # 0 /\ token[t].m_start - 1 \in Blocks(o.iv)
             /\ bl_int'.m_start = o.iv.m_start /\ bl_int'.m_end = bl_int.m_end
  <2>0. token[t].m_start # 0 /\ o \in Neighbour(t, token[t].m_start - 1) /\ token[t].m_start - 1 \in Nat
    BY <1>1, <1>2 DEF LeftNeighbour, Interval
  <2>1. o \in tok_map /\ o.iv \in Interval /\ token[t].m_start - 1 \in Blocks(o.iv) /\ o.mode = job[t].mode
    BY <1>1, <2>0, NeighbourIs
  <2>2. [bl_int EXCEPT !.m_start = o.iv.m_start] = [m_start |-> o.iv.m_start, m_end |-> bl_int.m_end]
    BY <1>1 DEF Interval
  <2>3. GoTo(t, "insert") /\ tok_map' = tok_map \ {o}
    BY <1>2 DEF Merge
  <2>4. bl_int' = [m_start |-> o.iv.m_start, m_end |-> bl_int.m_end] /\ o.iv.m_start <= bl_int.m_end
    BY <1>2, <2>2 DEF Merge
  <2>5. bl_int' \in Interval
    BY <1>1, <2>1, <2>4 DEF Interval
  <2>6. ASSUME NEW b \in Blocks(Hull(token[t], bl_int'))
        PROVE  b \in Blocks(Hull(token[t], bl_int)) \/ b \in Blocks(o.iv)
    BY <1>1, <2>0, <2>1, <2>4, <2>6 DEF Interval, Hull, Blocks
  <2> QED
    BY <2>0, <2>1, <2>3, <2>4, <2>5, <2>6 DEF MergeResult
<1> QED
  BY <1>2 DEF MergeLeft

\* What is inserted next is one of those that are left.
LEMMA FirstIs ==
  ASSUME NEW left, NEW e \in First(left)
  PROVE  e \in left
  BY DEF First

\* insert into the map of the file.
LEMMA MapInserts ==
  ASSUME MapInv, NEW n \in Access, Blocks(n.iv) \subseteq AllBlocks, tok_map' = Insert(tok_map, n)
  PROVE  /\ tok_map' \in SUBSET Access /\ Keyed(tok_map')
         /\ \A e \in tok_map' : e \in tok_map \/ e = n
         /\ \A e \in tok_map' : Blocks(e.iv) \subseteq AllBlocks
         /\ \A b \in Nat : Held(b)' = Held(b) \/ (b \in Blocks(n.iv) /\ Held(b)' = n.mode)
<1>1. tok_map \in SUBSET Access /\ Keyed(tok_map) /\ \A e \in tok_map : Blocks(e.iv) \subseteq AllBlocks
  BY DEF MapInv, TypeOK, InFile
<1>2. tok_map' \in SUBSET Access /\ Keyed(tok_map')
  BY <1>1, Inserted
<1>3. \A e \in tok_map' : e \in tok_map \/ e = n
  BY DEF Insert, MapInsert
<1>4. \A b \in Nat : Held(b)' = Held(b) \/ (b \in Blocks(n.iv) /\ Held(b)' = n.mode)
  <2>1. CASE \E d \in tok_map : Overlaps(d.iv, n.iv)
    <3>1. tok_map' = tok_map
      BY <1>1, <2>1, Inserted
    <3> QED
      BY <3>1, HeldIs, HeldIsNext
  <2>2. CASE \A d \in tok_map : ~Overlaps(d.iv, n.iv)
    <3>1. \A b \in Nat : /\ b \in Blocks(n.iv) => ModeIn(tok_map', b) = n.mode
                         /\ b \notin Blocks(n.iv) => ModeIn(tok_map', b) = ModeIn(tok_map, b)
      BY <1>1, <2>2, Inserted
    <3> QED
      BY <3>1, HeldIs, HeldIsNext
  <2> QED
    BY <2>1, <2>2
<1> QED
  BY <1>1, <1>2, <1>3, <1>4

\* erase from the map of the file.
LEMMA MapErases ==
  ASSUME MapInv, NEW o \in tok_map, tok_map' = tok_map \ {o}
  PROVE  /\ tok_map' \in SUBSET Access /\ Keyed(tok_map')
         /\ \A e \in tok_map' : Blocks(e.iv) \subseteq AllBlocks
         /\ \A b \in Nat : /\ b \in Blocks(o.iv) => Held(b)' = "none" /\ Held(b) = o.mode
                           /\ b \notin Blocks(o.iv) => Held(b)' = Held(b)
<1>1. tok_map \in SUBSET Access /\ Keyed(tok_map) /\ \A e \in tok_map : Blocks(e.iv) \subseteq AllBlocks
  BY DEF MapInv, TypeOK, InFile
<1>2. tok_map' \in SUBSET Access /\ Keyed(tok_map')
  BY <1>1, Erased
<1>3. \A b \in Nat : /\ b \in Blocks(o.iv) => ModeIn(tok_map', b) = "none"
                     /\ b \notin Blocks(o.iv) => ModeIn(tok_map', b) = ModeIn(tok_map, b)
  BY <1>1, Erased
<1>4. \A b \in Nat : b \in Blocks(o.iv) => ModeIn(tok_map, b) = o.mode
  BY <1>1, ModeIs
<1> QED
  BY <1>1, <1>2, <1>3, <1>4, HeldIs, HeldIsNext

\* The revoker takes a token it revokes out of the map, and keeps the rest of it.
LEMMA RemoveStepIs ==
  ASSUME MapInv, RemoveStep
  PROVE  /\ \E o \in tok_map : /\ o \in Access /\ Overlaps(o.iv, revoke.iv)
                               /\ tok_map' = tok_map \ {o} /\ kept' = Remainders(o, revoke.iv)
         /\ rpc = "remove" /\ kept = {} /\ revoke.iv \in Interval
<1>1. tok_map \in SUBSET Access /\ revoke.iv \in Interval
  BY DEF MapInv, TypeOK, Access
<1>2. rpc = "remove" /\ kept = {}
  BY DEF RemoveStep, RevokerAt, MapInv, LeftoversUsed
<1> QED
  BY <1>1, <1>2, FoundIs DEF RemoveStep
-----------------------------------------------------------------------------
(* MapInv is kept.                                                          *)

\* Steps that change neither the map nor what is left of a token, and bring no thread to
\* the end of the loop.
Calm ==
  /\ UNCHANGED << tok_map, rest, kept >>
  /\ rpc = "reinsert" => rpc' = "reinsert"
  /\ \A u \in Threads : /\ pc[u] = "reinsert" => pc'[u] = "reinsert"
                        /\ pc'[u] = "finish" => pc[u] = "finish" /\ UNCHANGED << bl_int, dont_add, putback >>

LEMMA CalmKeeps ==
  ASSUME MapInv, Calm, TypeOK', MutexHeld', InFile', ScanInRange'
  PROVE  MapInv'
<1>1. Keyed(tok_map)'
  BY DEF MapInv, Calm, Keyed
<1>2. LeftoversUsed'
  BY DEF MapInv, Calm, LeftoversUsed
<1>3. SurprisedByRevoker'
  <2> SUFFICES ASSUME NEW u \in Threads, Surprised(u)', NEW o \in tok_map, Overlaps(o.iv, bl_int')
               PROVE  Blocks(o.iv) \subseteq putback'
    BY DEF SurprisedByRevoker, Calm
  <2>1. pc[u] = "finish" /\ ~dont_add' /\ UNCHANGED << bl_int, dont_add, putback >> /\ tok_map' = tok_map
    BY DEF Surprised, Calm
  <2>2. Surprised(u)
    BY <2>1 DEF Surprised
  <2> QED
    BY <2>1, <2>2 DEF MapInv, SurprisedByRevoker
<1> QED
  BY <1>1, <1>2, <1>3 DEF MapInv

\* No other thread is in required_token than before.
LEMMA ScanKept ==
  ASSUME MapInv,
         \A u \in Threads : pc'[u] = "scan" => pc[u] = "scan" /\ job'[u] = job[u] /\ UNCHANGED << block, start >>
  PROVE  ScanInRange'
  BY DEF MapInv, ScanInRange

\* Steps of the threads and of the manager that leave the blocks in the file.
LEMMA FileKept ==
  ASSUME MapInv, UNCHANGED << tok_map, rest, kept, revoke >>,
         \A u \in Threads : /\ job'[u] = job[u] \/ Blocks(job'[u].iv) \subseteq AllBlocks
                            /\ token'[u] = token[u] \/ Blocks(token'[u]) \subseteq AllBlocks
                            /\ Adding(u)' => Adding(u) /\ token'[u] = token[u] /\ bl_int' = bl_int
  PROVE  InFile'
<1>1. \A u \in Threads : Blocks(job'[u].iv) \subseteq AllBlocks /\ Blocks(token'[u]) \subseteq AllBlocks
  BY DEF MapInv, InFile
<1>2. \A u \in Threads : Adding(u)' => Blocks(Hull(token'[u], bl_int')) \subseteq AllBlocks
  BY DEF MapInv, InFile
<1> QED
  BY <1>1, <1>2 DEF MapInv, InFile

\* A thread that goes from one label to another.
LEMMA Went ==
  ASSUME TypeOK, NEW t \in Threads, NEW l \in PCs, GoTo(t, l)
  PROVE  /\ pc' \in [Threads -> PCs] /\ pc'[t] = l
         /\ \A u \in Threads : u # t => pc'[u] = pc[u]
  BY DEF TypeOK, GoTo

\* Steps of thread t take and give up the mutex for itself.
LEMMA MutexKept ==
  ASSUME MapInv, NEW t \in Threads, \A u \in Threads : u # t => pc'[u] = pc[u],
         \/ file_desc_mutex = t /\ Inside(t)' /\ file_desc_mutex' = t
         \/ file_desc_mutex = t /\ ~Inside(t)' /\ file_desc_mutex' = Free
         \/ file_desc_mutex = Free /\ Inside(t)' /\ file_desc_mutex' = t
         \/ ~Inside(t) /\ ~Inside(t)' /\ file_desc_mutex' = file_desc_mutex
  PROVE  MutexHeld'
<1>1. \A u \in Threads : u # t => (Inside(u)' <=> Inside(u))
  BY DEF Inside, Adding
<1> QED
  BY <1>1, FreeAssumption DEF MapInv, MutexHeld

LEMMA CallKeeps ==
  ASSUME MapInv, NEW t \in Threads, NEW j \in Jobs, Call(t, j)
  PROVE  MapInv'
<1>1. /\ pc[t] = "idle" /\ job' = [job EXCEPT ![t] = j] /\ GoTo(t, "need") /\ calls' = calls + 1
      /\ UNCHANGED << tok_map, file_desc_mutex, token, block, start, bl_int, dont_add, rest, rpc, revoke, kept,
                      record, known, revokes, crashed, before, quiet, putback, missed >>
  BY DEF Call, At, scanVars, addVars, revokeVars, managerVars, historyVars
<1>2. /\ pc' \in [Threads -> PCs] /\ pc'[t] = "need"
      /\ \A u \in Threads : u # t => pc'[u] = pc[u]
  BY <1>1, Went DEF MapInv, PCs
<1>3. j \in Access /\ Blocks(j.iv) \subseteq AllBlocks
  BY BlocksOfFile
<1>4. /\ job' \in [Threads -> Access] /\ calls' \in Nat
      /\ job'[t] = j /\ \A u \in Threads : u # t => job'[u] = job[u]
  BY <1>1, <1>3 DEF MapInv, TypeOK
<1>5. TypeOK'
  BY <1>1, <1>2, <1>4 DEF MapInv, TypeOK
<1>6. MutexHeld'
  BY <1>1, <1>2, MutexKept DEF Inside, Adding
<1>7. InFile'
  BY <1>1, <1>2, <1>3, <1>4, FileKept DEF Adding
<1>8. ScanInRange'
  BY <1>1, <1>2, <1>4, ScanKept
<1>9. Calm
  BY <1>1, <1>2 DEF Calm
<1> QED
  BY <1>5, <1>6, <1>7, <1>8, <1>9, CalmKeeps

LEMMA CheckTokensKeeps ==
  ASSUME MapInv, NEW t \in Threads, CheckTokens(t)
  PROVE  MapInv'
<1>1. /\ pc[t] = "need" /\ file_desc_mutex = Free /\ file_desc_mutex' = t /\ GoTo(t, "scan")
      /\ block' = job[t].iv.m_start /\ start' = -1
      /\ UNCHANGED << tok_map, job, token, bl_int, dont_add, rest, rpc, revoke, kept, record, known, calls,
                      revokes, crashed, before, quiet, putback, missed >>
  BY DEF CheckTokens, At, addVars, revokeVars, managerVars, boundVars, historyVars
<1>2. /\ pc' \in [Threads -> PCs] /\ pc'[t] = "scan"
      /\ \A u \in Threads : u # t => pc'[u] = pc[u] /\ pc[u] # "scan"
  BY <1>1, Went, NoneInside DEF MapInv, PCs
<1>3. job[t].iv \in Interval
  BY DEF MapInv, TypeOK, Access
<1>4. block' \in Nat /\ start' \in Nat \union {-1}
  BY <1>1, <1>3 DEF Interval
<1>5. TypeOK'
  BY <1>1, <1>2, <1>4 DEF MapInv, TypeOK
<1>6. MutexHeld'
  BY <1>1, <1>2, MutexKept DEF Inside, Adding
<1>7. InFile'
  BY <1>1, <1>2, FileKept DEF Adding
<1>8. ScanInRange'
  <2>1. job[t].iv.m_start <= block' /\ block' <= job[t].iv.m_end + 1
    BY <1>1, <1>3 DEF Interval
  <2> QED
    BY <1>1, <1>2, <2>1 DEF ScanInRange
<1>9. Calm
  BY <1>1, <1>2 DEF Calm
<1> QED
  BY <1>5, <1>6, <1>7, <1>8, <1>9, CalmKeeps

\* The interval that is asked for lies in the range of the call.
LEMMA AskKeeps ==
  ASSUME MapInv, NEW t \in Threads, pc[t] = "scan", NEW last, Ask(t, last), start # -1,
         last = block - 1 \/ last = job[t].iv.m_end, last <= job[t].iv.m_end, start <= last,
         UNCHANGED << tok_map, job, addVars, revokeVars, managerVars, boundVars, crashed, historyVars >>
  PROVE  MapInv'
<1>1. /\ token' = [token EXCEPT ![t] = [m_start |-> start, m_end |-> last]]
      /\ file_desc_mutex' = Free /\ GoTo(t, "asked") /\ block' = 0 /\ start' = -1
      /\ UNCHANGED << tok_map, job, bl_int, dont_add, rest, rpc, revoke, kept, record, known, calls,
                      revokes, crashed, before, quiet, putback, missed >>
  BY DEF Ask, addVars, revokeVars, managerVars, boundVars, historyVars
<1>2. /\ pc' \in [Threads -> PCs] /\ pc'[t] = "asked"
      /\ \A u \in Threads : u # t => pc'[u] = pc[u] /\ pc[u] # "scan"
  BY <1>1, Went, OneInside DEF MapInv, PCs, Inside
<1>3. PICK i : i = [m_start |-> start, m_end |-> last]
  OBVIOUS
<1>4. i \in Interval /\ Blocks(i) \subseteq AllBlocks
  <2>1. /\ job[t].iv \in Interval /\ Blocks(job[t].iv) \subseteq AllBlocks
        /\ block \in Nat /\ start \in Nat
    BY DEF MapInv, TypeOK, InFile, Access
  <2>2. job[t].iv.m_start <= start
    BY DEF MapInv, ScanInRange
  <2>3. last \in Nat
    BY <2>1 DEF Interval
  <2>4. i \in Interval
    BY <1>3, <2>1, <2>3 DEF Interval
  <2>5. Blocks(i) \subseteq Blocks(job[t].iv)
    BY <1>3, <2>1, <2>2, <2>3 DEF Interval, Blocks
  <2> QED
    BY <2>1, <2>4, <2>5
<1>5. /\ token' \in [Threads -> Interval] /\ token'[t] = i
      /\ \A u \in Threads : u # t => token'[u] = token[u]
  BY <1>1, <1>3, <1>4 DEF MapInv, TypeOK
<1>6. TypeOK'
  BY <1>1, <1>2, <1>5 DEF MapInv, TypeOK
<1>7. MutexHeld'
  <2>1. file_desc_mutex = t
    BY OneInside DEF MapInv, Inside
  <2> QED
    BY <1>1, <1>2, <2>1, MutexKept DEF Inside, Adding
<1>8. InFile'
  BY <1>1, <1>2, <1>4, <1>5, FileKept DEF Adding
<1>9. ScanInRange'
  BY <1>2, ScanKept
<1>10. Calm
  BY <1>1, <1>2 DEF Calm
<1> QED
  BY <1>6, <1>7, <1>8, <1>9, <1>10, CalmKeeps

LEMMA ScanStepKeeps ==
  ASSUME MapInv, NEW t \in Threads, ScanStep(t)
  PROVE  MapInv'
<1>1. /\ pc[t] = "scan" /\ block <= job[t].iv.m_end
      /\ UNCHANGED << tok_map, job, bl_int, dont_add, rest, rpc, revoke, kept, record, known, calls,
                      revokes, crashed, before, quiet, putback, missed >>
  BY DEF ScanStep, At, addVars, revokeVars, managerVars, boundVars, historyVars
<1>2. /\ job[t].iv \in Interval /\ block \in Nat /\ start \in Nat \union {-1}
      /\ job[t].iv.m_start <= block /\ (start # -1 => job[t].iv.m_start <= start /\ start < block)
  BY <1>1 DEF MapInv, TypeOK, Access, ScanInRange
<1>3. CASE start # -1 /\ Ask(t, block - 1)
  <2>1. block - 1 <= job[t].iv.m_end /\ start <= block - 1
    BY <1>1, <1>2, <1>3 DEF Interval
  <2> QED
    BY <1>1, <1>3, <2>1, AskKeeps DEF ScanStep
<1>4. CASE /\ block' = block + 1 /\ start' \in {start, block}
           /\ UNCHANGED << token, file_desc_mutex, pc >>
  <2>1. /\ block' \in Nat /\ start' \in Nat \union {-1}
        /\ job[t].iv.m_start <= block' /\ block' <= job[t].iv.m_end + 1
        /\ start' # -1 => job[t].iv.m_start <= start' /\ start' < block'
    BY <1>1, <1>2, <1>4 DEF Interval
  <2>2. TypeOK'
    BY <1>1, <1>4, <2>1 DEF MapInv, TypeOK
  <2>3. MutexHeld'
    BY <1>4 DEF MapInv, MutexHeld, Inside, Adding
  <2>4. InFile'
    BY <1>1, <1>4, FileKept DEF Adding
  <2>5. ScanInRange'
    <3>1. \A u \in Threads : u # t => pc[u] # "scan"
      BY <1>1, OneInside DEF MapInv, Inside
    <3> QED
      BY <1>1, <1>4, <2>1, <3>1 DEF ScanInRange
  <2>6. Calm
    BY <1>1, <1>4 DEF Calm
  <2> QED
    BY <2>2, <2>3, <2>4, <2>5, <2>6, CalmKeeps
<1> QED
  BY <1>3, <1>4 DEF ScanStep

LEMMA ScanDoneKeeps ==
  ASSUME MapInv, NEW t \in Threads, ScanDone(t)
  PROVE  MapInv'
<1>1. /\ pc[t] = "scan" /\ block > job[t].iv.m_end
      /\ UNCHANGED << tok_map, job, bl_int, dont_add, rest, rpc, revoke, kept, record, known, calls,
                      revokes, crashed, before, quiet, putback, missed >>
  BY DEF ScanDone, At, addVars, revokeVars, managerVars, boundVars, historyVars
<1>2. CASE start # -1 /\ Ask(t, job[t].iv.m_end)
  <2>1. /\ job[t].iv \in Interval /\ block \in Nat /\ start \in Nat
        /\ start < block /\ block <= job[t].iv.m_end + 1
    BY <1>1, <1>2 DEF MapInv, TypeOK, Access, ScanInRange
  <2>2. job[t].iv.m_end <= job[t].iv.m_end /\ start <= job[t].iv.m_end
    BY <1>1, <2>1 DEF Interval
  <2> QED
    BY <1>1, <1>2, <2>2, AskKeeps DEF ScanDone
<1>3. CASE GoTo(t, "io") /\ block' = 0 /\ UNCHANGED << start, token, file_desc_mutex >>
  <2>1. /\ pc' \in [Threads -> PCs] /\ pc'[t] = "io"
        /\ \A u \in Threads : u # t => pc'[u] = pc[u] /\ pc[u] # "scan"
    BY <1>1, <1>3, Went, OneInside DEF MapInv, PCs, Inside
  <2>2. TypeOK'
    BY <1>1, <1>3, <2>1 DEF MapInv, TypeOK
  <2>3. MutexHeld'
    <3>1. file_desc_mutex = t
      BY <1>1, OneInside DEF MapInv, Inside
    <3> QED
      BY <1>3, <2>1, <3>1, MutexKept DEF Inside
  <2>4. InFile'
    BY <1>1, <1>3, <2>1, FileKept DEF Adding
  <2>5. ScanInRange'
    BY <2>1, ScanKept
  <2>6. Calm
    BY <1>1, <2>1 DEF Calm
  <2> QED
    BY <2>2, <2>3, <2>4, <2>5, <2>6, CalmKeeps
<1> QED
  BY <1>2, <1>3 DEF ScanDone

LEMMA FinishCallKeeps ==
  ASSUME MapInv, NEW t \in Threads, FinishCall(t)
  PROVE  MapInv'
<1>1. /\ pc[t] = "io" /\ file_desc_mutex' = Free /\ GoTo(t, "idle") /\ job' = [job EXCEPT ![t] = Idle]
      /\ UNCHANGED << tok_map, token, block, start, bl_int, dont_add, rest, rpc, revoke, kept, record, known,
                      calls, revokes, crashed, before, quiet, putback, missed >>
  BY DEF FinishCall, At, scanVars, addVars, revokeVars, managerVars, boundVars, historyVars
<1>2. /\ pc' \in [Threads -> PCs] /\ pc'[t] = "idle"
      /\ \A u \in Threads : u # t => pc'[u] = pc[u]
  BY <1>1, Went DEF MapInv, PCs
<1>3. Idle \in Access /\ Blocks(Idle.iv) \subseteq AllBlocks
  BY BlocksOfFile DEF None, Idle, Access, Modes, Interval, Blocks
<1>4. /\ job' \in [Threads -> Access]
      /\ job'[t] = Idle /\ \A u \in Threads : u # t => job'[u] = job[u]
  BY <1>1, <1>3 DEF MapInv, TypeOK
<1>5. TypeOK'
  BY <1>1, <1>2, <1>4 DEF MapInv, TypeOK
<1>6. MutexHeld'
  <2>1. file_desc_mutex = t
    BY <1>1, OneInside DEF MapInv, Inside
  <2> QED
    BY <1>1, <1>2, <2>1, MutexKept DEF Inside, Adding
<1>7. InFile'
  BY <1>1, <1>2, <1>3, <1>4, FileKept DEF Adding
<1>8. ScanInRange'
  BY <1>1, <1>2, <1>4, ScanKept
<1>9. Calm
  BY <1>1, <1>2 DEF Calm
<1> QED
  BY <1>5, <1>6, <1>7, <1>8, <1>9, CalmKeeps

\* A map as a function, and what is not yet or no longer held.
LEMMA HeldMapIs ==
  ASSUME MapInv
  PROVE  /\ HeldMap \in [AllBlocks -> Modes \union {"none"}]
         /\ NothingHeld \in [AllBlocks -> Modes \union {"none"}]
<1>1. \A b \in AllBlocks : Held(b) \in Modes \union {"none"}
  BY HeldIs, ModeIs, BlocksOfFile DEF MapInv, TypeOK
<1> QED
  BY <1>1 DEF HeldMap, NothingHeld

LEMMA NoneIs == None \in Interval /\ Blocks(None) \subseteq AllBlocks
  BY BlocksOfFile DEF None, Interval, Blocks

\* What a return from addPermission does besides the map.
LEMMA Returned ==
  ASSUME MapInv, NEW t \in Threads, Inside(t), pc[t] # "reinsert", Return(t)
  PROVE  /\ pc' \in [Threads -> PCs] /\ pc'[t] = "need"
         /\ \A u \in Threads : u # t => pc'[u] = pc[u] /\ token'[u] = token[u]
         /\ \A u \in Threads : ~Adding(u)' /\ pc'[u] # "scan"
         /\ token' \in [Threads -> Interval] /\ token'[t] = None
         /\ before' \in [AllBlocks -> Modes \union {"none"}] /\ putback' = {}
         /\ bl_int' \in Interval /\ dont_add' = FALSE
         /\ file_desc_mutex' = Free /\ MutexHeld' /\ rest = {}
<1>1. /\ pc' \in [Threads -> PCs] /\ pc'[t] = "need"
      /\ \A u \in Threads : u # t => pc'[u] = pc[u] /\ ~Adding(u) /\ pc[u] # "scan"
  BY Went, OneInside DEF MapInv, PCs, Return
<1>2. /\ token' \in [Threads -> Interval] /\ token'[t] = None
      /\ \A u \in Threads : u # t => token'[u] = token[u]
  BY NoneIs DEF MapInv, TypeOK, Return
<1>3. before' \in [AllBlocks -> Modes \union {"none"}]
  BY HeldMapIs DEF Return
<1>4. file_desc_mutex' = Free /\ MutexHeld'
  <2>1. file_desc_mutex = t
    BY OneInside DEF MapInv
  <2> QED
    BY <1>1, <2>1, MutexKept DEF Return, Inside, Adding
<1>5. \A u \in Threads : ~Adding(u)' /\ pc'[u] # "scan"
  BY <1>1 DEF Adding
<1> QED
  BY <1>1, <1>2, <1>3, <1>4, <1>5, NoneIs, NoRest DEF Return

LEMMA FinishAddKeeps ==
  ASSUME MapInv, NEW t \in Threads, FinishAdd(t)
  PROVE  MapInv'
<1>1. /\ pc[t] = "finish"
      /\ UNCHANGED << tok_map, job, block, start, rest, rpc, revoke, kept, record, known, calls, revokes,
                      crashed, quiet, missed >>
  BY DEF FinishAdd, At, scanVars, revokeVars, managerVars, boundVars
<1>2. CASE GoTo(t, "right") /\ UNCHANGED << token, file_desc_mutex, bl_int, dont_add, before, putback >>
  <2>1. /\ pc' \in [Threads -> PCs] /\ pc'[t] = "right"
        /\ \A u \in Threads : u # t => pc'[u] = pc[u]
    BY <1>2, Went DEF MapInv, PCs
  <2>2. TypeOK'
    BY <1>1, <1>2, <2>1 DEF MapInv, TypeOK
  <2>3. MutexHeld'
    BY <1>1, <1>2, <2>1 DEF MapInv, MutexHeld, Inside, Adding
  <2>4. InFile'
    BY <1>1, <1>2, <2>1, FileKept DEF Adding
  <2>5. ScanInRange'
    BY <1>1, <2>1, ScanKept
  <2>6. Calm
    BY <1>1, <1>2, <2>1 DEF Calm
  <2> QED
    BY <2>2, <2>3, <2>4, <2>5, <2>6, CalmKeeps
<1>3. CASE Return(t)
  <2>1. Inside(t) /\ pc[t] # "reinsert"
    BY <1>1 DEF Inside, Adding
  <2>2. TypeOK'
    BY <1>1, <1>3, <2>1, Returned DEF MapInv, TypeOK
  <2>3. InFile'
    BY <1>1, <1>3, <2>1, Returned, NoneIs, FileKept
  <2>4. ScanInRange'
    BY <1>3, <2>1, Returned, ScanKept
  <2>5. Calm
    BY <1>1, <1>3, <2>1, Returned DEF Calm, Adding
  <2> QED
    BY <1>3, <2>1, <2>2, <2>3, <2>4, <2>5, Returned, CalmKeeps
<1> QED
  BY <1>2, <1>3 DEF FinishAdd

LEMMA GrantKeeps ==
  ASSUME MapInv, NEW t \in Threads, Grant(t)
  PROVE  MapInv'
<1>1. /\ pc[t] = "asked" /\ GoTo(t, "granted")
      /\ record' = [b \in AllBlocks |-> IF b \in Blocks(token[t]) THEN job[t].mode ELSE record[b]]
      /\ UNCHANGED << tok_map, file_desc_mutex, job, token, block, start, bl_int, dont_add, rest, rpc, revoke, kept,
                      known, calls, revokes, crashed, before, quiet, putback, missed >>
  BY DEF Grant, At, scanVars, addVars, revokeVars, boundVars, historyVars
<1>2. /\ pc' \in [Threads -> PCs] /\ pc'[t] = "granted"
      /\ \A u \in Threads : u # t => pc'[u] = pc[u]
  BY <1>1, Went DEF MapInv, PCs
<1>3. TypeOK'
  <2>1. record' \in [AllBlocks -> Modes \union {"none"}]
    BY <1>1 DEF MapInv, TypeOK, Access
  <2> QED
    BY <1>1, <1>2, <2>1 DEF MapInv, TypeOK
<1>4. MutexHeld'
  BY <1>1, <1>2, MutexKept DEF Inside, Adding
<1>5. InFile'
  BY <1>1, <1>2, FileKept DEF Adding
<1>6. ScanInRange'
  BY <1>1, <1>2, ScanKept
<1>7. Calm
  BY <1>1, <1>2 DEF Calm
<1> QED
  BY <1>3, <1>4, <1>5, <1>6, <1>7, CalmKeeps

LEMMA NackKeeps ==
  ASSUME MapInv, NEW t \in Threads, Nack(t)
  PROVE  MapInv'
<1>1. /\ pc[t] = "asked" /\ GoTo(t, "granted") /\ token' = [token EXCEPT ![t] = None]
      /\ UNCHANGED << tok_map, file_desc_mutex, job, block, start, bl_int, dont_add, rest, rpc, revoke, kept,
                      record, known, calls, revokes, crashed, before, quiet, putback, missed >>
  BY DEF Nack, At, scanVars, addVars, revokeVars, managerVars, boundVars, historyVars
<1>2. /\ pc' \in [Threads -> PCs] /\ pc'[t] = "granted"
      /\ \A u \in Threads : u # t => pc'[u] = pc[u]
  BY <1>1, Went DEF MapInv, PCs
<1>3. /\ token' \in [Threads -> Interval] /\ token'[t] = None
      /\ \A u \in Threads : u # t => token'[u] = token[u]
  BY <1>1, NoneIs DEF MapInv, TypeOK
<1>4. TypeOK'
  BY <1>1, <1>2, <1>3 DEF MapInv, TypeOK
<1>5. MutexHeld'
  BY <1>1, <1>2, MutexKept DEF Inside, Adding
<1>6. InFile'
  BY <1>1, <1>2, <1>3, NoneIs, FileKept DEF Adding
<1>7. ScanInRange'
  BY <1>1, <1>2, ScanKept
<1>8. Calm
  BY <1>1, <1>2 DEF Calm
<1> QED
  BY <1>4, <1>5, <1>6, <1>7, <1>8, CalmKeeps

LEMMA HandleRevokerKeeps ==
  ASSUME MapInv, NEW v \in Access, Blocks(v.iv) \subseteq AllBlocks, HandleRevoker(v), revokes' \in Nat
  PROVE  MapInv'
<1>1. /\ revoke' = v /\ rpc = "idle"
      /\ UNCHANGED << tok_map, file_desc_mutex, pc, job, token, block, start, bl_int, dont_add, rest, kept,
                      record, known, calls, crashed, putback, missed >>
  BY DEF HandleRevoker, RevokerAt, appVars, scanVars, addVars, managerVars
<1>2. /\ rpc' \in {"remove", "answer"} /\ quiet' \in BOOLEAN
      /\ before' \in [AllBlocks -> Modes \union {"none"}]
  <2>1. CASE rpc' = "remove" /\ before' = HeldMap /\ quiet' = (\A t \in Threads : ~Adding(t))
    BY <2>1, HeldMapIs
  <2>2. CASE rpc' = "answer" /\ UNCHANGED << before, quiet >>
    BY <2>2 DEF MapInv, TypeOK
  <2> QED
    BY <2>1, <2>2 DEF HandleRevoker
<1>3. TypeOK'
  BY <1>1, <1>2 DEF MapInv, TypeOK, RPCs
<1>4. MutexHeld' /\ InFile' /\ Calm
  BY <1>1 DEF MapInv, MutexHeld, Inside, Adding, InFile, Calm
<1>5. ScanInRange'
  BY <1>1, ScanKept
<1> QED
  BY <1>3, <1>4, <1>5, CalmKeeps

LEMMA RevokeKeeps ==
  ASSUME MapInv
  PROVE  /\ \A v \in Revocations : RevokeForOther(v) => MapInv'
         /\ \A t \in Threads : RevokeForThread(t) => MapInv'
<1>1. ASSUME NEW v \in Revocations, RevokeForOther(v) PROVE MapInv'
  <2>1. revokes' \in Nat /\ HandleRevoker(v)
    BY <1>1 DEF RevokeForOther, MapInv, TypeOK
  <2>2. v \in Access /\ Blocks(v.iv) \subseteq AllBlocks
    BY BlocksOfFile
  <2> QED
    BY <2>1, <2>2, HandleRevokerKeeps
<1>2. ASSUME NEW t \in Threads, RevokeForThread(t) PROVE MapInv'
  <2>1. PICK v \in Access : v = [iv |-> token[t], mode |-> job[t].mode]
    BY DEF MapInv, TypeOK, Access
  <2>2. revokes' \in Nat /\ HandleRevoker(v)
    BY <1>2, <2>1 DEF RevokeForThread, MapInv, TypeOK
  <2>3. Blocks(v.iv) \subseteq AllBlocks
    BY <2>1 DEF MapInv, InFile
  <2> QED
    BY <2>2, <2>3, HandleRevokerKeeps
<1> QED
  BY <1>1, <1>2

LEMMA RemoveDoneKeeps ==
  ASSUME MapInv, RemoveDone
  PROVE  MapInv'
<1>1. /\ rpc = "remove" /\ rpc' = "answer" /\ before' = NothingHeld
      /\ missed' = missed \union (OnTheWay \intersect Blocks(revoke.iv))
      /\ UNCHANGED << tok_map, file_desc_mutex, pc, job, token, block, start, bl_int, dont_add, rest, revoke, kept,
                      record, known, calls, revokes, crashed, quiet, putback >>
  BY DEF RemoveDone, RevokerAt, appVars, scanVars, addVars, managerVars, boundVars
<1>2. missed' \subseteq AllBlocks
  BY <1>1 DEF MapInv, TypeOK, InFile
<1>3. TypeOK'
  BY <1>1, <1>2, HeldMapIs DEF MapInv, TypeOK, RPCs
<1>4. MutexHeld' /\ InFile' /\ Calm
  BY <1>1 DEF MapInv, MutexHeld, Inside, Adding, InFile, Calm
<1>5. ScanInRange'
  BY <1>1, ScanKept
<1> QED
  BY <1>3, <1>4, <1>5, CalmKeeps

LEMMA AnswerKeeps ==
  ASSUME MapInv, AnswerRevoke
  PROVE  MapInv'
<1>1. /\ rpc = "answer" /\ rpc' = "idle" /\ revoke' = Idle
      /\ UNCHANGED << tok_map, file_desc_mutex, pc, job, token, block, start, bl_int, dont_add, rest, kept,
                      known, calls, revokes, crashed, before, quiet, putback >>
  BY DEF AnswerRevoke, RevokerAt, appVars, scanVars, addVars, boundVars
<1>2. Idle \in Access /\ Blocks(Idle.iv) \subseteq AllBlocks
  BY BlocksOfFile DEF None, Idle, Access, Modes, Interval, Blocks
<1>3. missed' \subseteq AllBlocks
  BY DEF AnswerRevoke, Targets, MapInv, TypeOK, InFile
<1>4. record' \in [AllBlocks -> Modes \union {"none"}]
  <2>1. record' = [b \in AllBlocks |-> IF b \in Targets(revoke) THEN "none" ELSE record[b]]
    BY DEF AnswerRevoke
  <2> QED
    BY <2>1 DEF MapInv, TypeOK
<1>5. TypeOK'
  BY <1>1, <1>2, <1>3, <1>4 DEF MapInv, TypeOK, RPCs
<1>6. MutexHeld' /\ InFile' /\ Calm
  BY <1>1, <1>2 DEF MapInv, MutexHeld, Inside, Adding, InFile, Calm
<1>7. ScanInRange'
  BY <1>1, ScanKept
<1> QED
  BY <1>5, <1>6, <1>7, CalmKeeps

LEMMA EndKeeps ==
  ASSUME MapInv, (\E t \in Threads : RaceInMap(t)) \/ Delete \/ UNCHANGED vars
  PROVE  MapInv'
<1>1. UNCHANGED << tok_map, file_desc_mutex, pc, job, token, block, start, bl_int, dont_add, rest, rpc, revoke, kept,
                   calls, revokes, before, quiet, putback, missed >>
  BY DEF RaceInMap, Delete, vars, appVars, scanVars, addVars, revokeVars, managerVars, boundVars, historyVars
<1>2. /\ crashed' \in BOOLEAN /\ known' \in BOOLEAN
      /\ record' \in [AllBlocks -> Modes \union {"none"}]
  BY DEF MapInv, TypeOK, RaceInMap, Delete, vars, managerVars
<1>3. TypeOK'
  BY <1>1, <1>2 DEF MapInv, TypeOK
<1>4. MutexHeld' /\ InFile' /\ Calm
  BY <1>1 DEF MapInv, MutexHeld, Inside, Adding, InFile, Calm
<1>5. ScanInRange'
  BY <1>1, ScanKept
<1> QED
  BY <1>3, <1>4, <1>5, CalmKeeps

LEMMA StartAddKeeps ==
  ASSUME MapInv, NEW t \in Threads, StartAdd(t)
  PROVE  MapInv'
<1>1. /\ pc[t] = "granted" /\ file_desc_mutex = Free /\ file_desc_mutex' = t
      /\ bl_int' = token[t] /\ dont_add' = FALSE /\ GoTo(t, "add")
      /\ before' = HeldMap /\ quiet' = (rpc \notin {"remove", "reinsert"}) /\ putback' = {}
      /\ UNCHANGED << tok_map, job, token, block, start, rest, rpc, revoke, kept, record, known, calls, revokes,
                      crashed, missed >>
  BY DEF StartAdd, At, scanVars, revokeVars, managerVars, boundVars
<1>2. /\ pc' \in [Threads -> PCs] /\ pc'[t] = "add"
      /\ \A u \in Threads : u # t => pc'[u] = pc[u] /\ ~Adding(u)'
  BY <1>1, Went, NoneInside DEF MapInv, PCs, Adding
<1>3. token[t] \in Interval /\ Blocks(token[t]) \subseteq AllBlocks
  BY DEF MapInv, TypeOK, InFile
<1>4. TypeOK'
  BY <1>1, <1>2, <1>3, HeldMapIs DEF MapInv, TypeOK
<1>5. MutexHeld'
  BY <1>1, <1>2, MutexKept DEF Inside, Adding
<1>6. InFile'
  <2>1. Blocks(Hull(token[t], bl_int')) \subseteq AllBlocks
    <3>1. Hull(token[t], token[t]) = token[t]
      BY <1>3 DEF Interval, Hull
    <3> QED
      BY <1>1, <1>3, <3>1
  <2> QED
    BY <1>1, <1>2, <2>1 DEF MapInv, InFile
<1>7. ScanInRange'
  BY <1>1, <1>2, ScanKept
<1>8. Calm
  BY <1>1, <1>2 DEF Calm, Adding
<1> QED
  BY <1>4, <1>5, <1>6, <1>7, <1>8, CalmKeeps

LEMMA LoopKeeps ==
  ASSUME MapInv, NEW t \in Threads, AddStep(t)
  PROVE  MapInv'
<1>1. /\ LoopResult(t) /\ pc[t] = "add"
      /\ UNCHANGED << file_desc_mutex, job, token, block, start, rpc, revoke, kept, record, known, calls, revokes,
                      crashed, before, quiet, putback, missed >>
  BY AddStepKeeps DEF AddStep, scanVars, revokeVars, managerVars, boundVars, historyVars
<1>2. /\ pc' \in [Threads -> PCs] /\ pc'[t] \in {"add", "reinsert", "finish"}
      /\ \A u \in Threads : u # t => pc'[u] = pc[u] /\ ~Adding(u) /\ pc[u] # "scan"
  BY <1>1, OneInside DEF MapInv, TypeOK, LoopResult, PCs, Inside, Adding
<1>3. TypeOK'
  BY <1>1, <1>2 DEF MapInv, TypeOK, LoopResult
<1>4. MutexHeld'
  BY <1>1, <1>2 DEF MapInv, MutexHeld, Inside, Adding
<1>5. InFile' /\ Keyed(tok_map)'
  BY <1>1, <1>2 DEF MapInv, InFile, LoopResult, Keyed, Adding
<1>6. ScanInRange'
  BY <1>1, <1>2, ScanKept
<1>7. LeftoversUsed'
  BY <1>1, <1>2 DEF MapInv, LeftoversUsed, LoopResult
<1>8. SurprisedByRevoker'
  BY <1>1, <1>2 DEF LoopResult, SurprisedByRevoker, Surprised, Adding
<1> QED
  BY <1>3, <1>4, <1>5, <1>6, <1>7, <1>8 DEF MapInv

\* One of what is left of the erased token is inserted, or refused.
LEMMA ReinsertIs ==
  ASSUME MapInv, NEW t \in Threads, Reinsert(t)
  PROVE  /\ \E e \in rest : /\ e \in Access /\ Blocks(e.iv) \subseteq AllBlocks
                            /\ tok_map' = Insert(tok_map, e) /\ rest' = rest \ {e}
         /\ pc[t] = "reinsert" /\ Adding(t) /\ pc'[t] \in {"add", "reinsert"}
         /\ rest' # {} => pc'[t] = "reinsert"
         /\ \A u \in Threads : u # t => pc'[u] = pc[u] /\ ~Adding(u) /\ pc[u] # "scan"
         /\ pc' \in [Threads -> PCs]
         /\ UNCHANGED << file_desc_mutex, job, token, block, start, bl_int, dont_add, rpc, revoke, kept, record,
                         known, calls, revokes, crashed, before, quiet, putback, missed >>
<1>1. /\ pc[t] = "reinsert" /\ GoTo(t, IF rest' = {} THEN "add" ELSE "reinsert")
      /\ UNCHANGED << file_desc_mutex, job, token, block, start, bl_int, dont_add, rpc, revoke, kept, record,
                      known, calls, revokes, crashed, before, quiet, putback, missed >>
  BY DEF Reinsert, At, scanVars, revokeVars, managerVars, boundVars, historyVars
<1>2. PICK e \in rest : tok_map' = Insert(tok_map, e) /\ rest' = rest \ {e}
  BY FirstIs DEF Reinsert, Insert
<1>3. e \in Access /\ Blocks(e.iv) \subseteq AllBlocks
  BY DEF MapInv, TypeOK, InFile
<1>4. /\ pc' \in [Threads -> PCs] /\ pc'[t] = IF rest' = {} THEN "add" ELSE "reinsert"
      /\ \A u \in Threads : u # t => pc'[u] = pc[u] /\ ~Adding(u) /\ pc[u] # "scan"
  BY <1>1, Went, OneInside DEF MapInv, PCs, Inside, Adding
<1> QED
  BY <1>1, <1>2, <1>3, <1>4 DEF Adding

LEMMA ReinsertKeeps ==
  ASSUME MapInv, NEW t \in Threads, Reinsert(t)
  PROVE  MapInv'
<1>1. PICK e \in rest : /\ e \in Access /\ Blocks(e.iv) \subseteq AllBlocks
                        /\ tok_map' = Insert(tok_map, e) /\ rest' = rest \ {e}
  BY ReinsertIs
<1>2. /\ pc[t] = "reinsert" /\ Adding(t) /\ pc'[t] \in {"add", "reinsert"}
      /\ rest' # {} => pc'[t] = "reinsert"
      /\ \A u \in Threads : u # t => pc'[u] = pc[u] /\ ~Adding(u) /\ pc[u] # "scan"
      /\ pc' \in [Threads -> PCs]
      /\ UNCHANGED << file_desc_mutex, job, token, block, start, bl_int, dont_add, rpc, revoke, kept, record,
                      known, calls, revokes, crashed, before, quiet, putback, missed >>
  BY ReinsertIs
<1>3. /\ tok_map' \in SUBSET Access /\ Keyed(tok_map')
      /\ \A d \in tok_map' : Blocks(d.iv) \subseteq AllBlocks
  BY <1>1, MapInserts
<1>4. TypeOK'
  BY <1>1, <1>2, <1>3 DEF MapInv, TypeOK
<1>5. MutexHeld'
  BY <1>2 DEF MapInv, MutexHeld, Inside, Adding
<1>6. InFile'
  BY <1>1, <1>2, <1>3 DEF MapInv, InFile, Adding
<1>7. ScanInRange'
  BY <1>2, ScanKept
<1>8. LeftoversUsed'
  BY <1>2 DEF MapInv, LeftoversUsed
<1>9. SurprisedByRevoker'
  BY <1>2 DEF SurprisedByRevoker, Surprised, Adding
<1> QED
  BY <1>3, <1>4, <1>5, <1>6, <1>7, <1>8, <1>9 DEF MapInv, Keyed

LEMMA MergeKeeps ==
  ASSUME MapInv, NEW t \in Threads, MergeRight(t) \/ MergeLeft(t)
  PROVE  MapInv'
<1>1. /\ pc[t] \in {"right", "left"} /\ Adding(t) /\ Inside(t)
      /\ UNCHANGED << file_desc_mutex, job, token, block, start, dont_add, rest, rpc, revoke, kept, record, known,
                      calls, revokes, before, quiet, putback, missed >>
  BY DEF MergeRight, MergeLeft, At, Adding, Inside, scanVars, revokeVars, managerVars, boundVars, historyVars
<1>2. crashed' \in BOOLEAN
  BY DEF MergeRight, MergeLeft, Merge, MapInv, TypeOK
<1>3. /\ pc' \in [Threads -> PCs] /\ pc'[t] \in {"right", "left", "insert"}
      /\ \A u \in Threads : u # t => pc'[u] = pc[u] /\ ~Adding(u) /\ pc[u] # "scan"
  <2>1. UNCHANGED pc \/ GoTo(t, "left") \/ GoTo(t, "insert")
    BY MergeRightIs, MergeLeftIs
  <2> QED
    BY <1>1, <2>1, Went, OneInside DEF MapInv, TypeOK, PCs
<1>4. /\ tok_map' \subseteq tok_map
      /\ bl_int' \in Interval /\ Blocks(Hull(token[t], bl_int')) \subseteq AllBlocks
  <2>1. CASE UNCHANGED << tok_map, bl_int >>
    BY <1>1, <2>1, LoopFacts
  <2>2. ASSUME NEW o \in tok_map, MergeResult(t, o) PROVE <1>4
    BY <1>1, <2>2, LoopFacts DEF MergeResult
  <2> QED
    BY <2>1, <2>2, MergeRightIs, MergeLeftIs
<1>5. TypeOK'
  BY <1>1, <1>2, <1>3, <1>4 DEF MapInv, TypeOK
<1>6. MutexHeld'
  BY <1>1, <1>3 DEF MapInv, MutexHeld, Inside, Adding
<1>7. InFile' /\ Keyed(tok_map)'
  BY <1>1, <1>3, <1>4 DEF MapInv, InFile, Keyed, Adding
<1>8. ScanInRange'
  BY <1>1, <1>3, ScanKept
<1>9. LeftoversUsed' /\ SurprisedByRevoker'
  <2>1. rest = {}
    BY <1>1, NoRest
  <2> QED
    BY <1>1, <1>3, <2>1 DEF MapInv, LeftoversUsed, SurprisedByRevoker, Surprised, Adding
<1> QED
  BY <1>5, <1>6, <1>7, <1>8, <1>9 DEF MapInv

LEMMA InsertTokenKeeps ==
  ASSUME MapInv, NEW t \in Threads, InsertToken(t)
  PROVE  MapInv'
<1>1. /\ pc[t] = "insert" /\ Return(t)
      /\ tok_map' = MapInsert(tok_map, {[iv |-> bl_int, mode |-> job[t].mode]})
      /\ UNCHANGED << job, block, start, rest, rpc, revoke, kept, record, known, calls, revokes, crashed, quiet,
                      missed >>
  BY DEF InsertToken, At, scanVars, revokeVars, managerVars, boundVars
<1>2. Inside(t) /\ Adding(t) /\ pc[t] # "reinsert"
  BY <1>1 DEF Inside, Adding
<1>3. PICK n \in Access : n.iv = bl_int /\ tok_map' = Insert(tok_map, n)
  BY <1>1 DEF MapInv, TypeOK, Access, Insert
<1>4. /\ tok_map' \in SUBSET Access /\ Keyed(tok_map')
      /\ \A e \in tok_map' : Blocks(e.iv) \subseteq AllBlocks
  <2>1. Blocks(n.iv) \subseteq AllBlocks
    BY <1>2, <1>3, LoopFacts
  <2> QED
    BY <1>3, <2>1, MapInserts
<1>5. TypeOK'
  BY <1>1, <1>2, <1>4, Returned DEF MapInv, TypeOK
<1>6. InFile'
  <2>1. \A u \in Threads : Blocks(token'[u]) \subseteq AllBlocks
    BY <1>1, <1>2, Returned, NoneIs DEF MapInv, InFile
  <2> QED
    BY <1>1, <1>2, <1>4, <2>1, Returned DEF MapInv, InFile
<1>7. ScanInRange'
  BY <1>1, <1>2, Returned, ScanKept
<1>8. LeftoversUsed' /\ SurprisedByRevoker' /\ Keyed(tok_map)'
  BY <1>1, <1>2, <1>4, Returned DEF MapInv, LeftoversUsed, SurprisedByRevoker, Surprised, Adding, Keyed
<1> QED
  BY <1>1, <1>2, <1>5, <1>6, <1>7, <1>8, Returned DEF MapInv

\* Changes of the map by the revoker: what overlaps the new interval behind the loop was
\* there, or has been put back.
LEMMA RevokerKeepsMap ==
  ASSUME MapInv, tok_map' \in SUBSET Access, Keyed(tok_map'), kept' \in SUBSET Access,
         \A e \in tok_map' \union kept' : Blocks(e.iv) \subseteq AllBlocks,
         rpc' \in RPCs, kept' # {} => rpc' = "reinsert",
         putback \subseteq putback', putback' \subseteq AllBlocks,
         \A e \in tok_map' : e \in tok_map \/ Blocks(e.iv) \subseteq putback',
         UNCHANGED << file_desc_mutex, pc, job, token, block, start, bl_int, dont_add, rest, revoke, record, known,
                      calls, revokes, crashed, before, quiet, missed >>
  PROVE  MapInv'
<1>1. TypeOK'
  BY DEF MapInv, TypeOK
<1>2. MutexHeld' /\ InFile' /\ Keyed(tok_map)' /\ LeftoversUsed'
  BY DEF MapInv, MutexHeld, Inside, Adding, InFile, Keyed, LeftoversUsed
<1>3. ScanInRange'
  BY ScanKept
<1>4. SurprisedByRevoker'
  <2> SUFFICES ASSUME NEW u \in Threads, pc[u] = "finish", ~dont_add, NEW e \in tok_map', Overlaps(e.iv, bl_int)
               PROVE  Blocks(e.iv) \subseteq putback'
    BY DEF SurprisedByRevoker, Surprised
  <2>1. CASE e \in tok_map
    <3>1. FirstOverlap(tok_map, bl_int) # {}
      BY <2>1, FindsFirst DEF MapInv, TypeOK
    <3> QED
      BY <2>1, <3>1 DEF MapInv, SurprisedByRevoker, Surprised
  <2> QED
    BY <2>1
<1> QED
  BY <1>1, <1>2, <1>3, <1>4 DEF MapInv

LEMMA RemoveStepKeeps ==
  ASSUME MapInv, RemoveStep
  PROVE  MapInv'
<1>1. /\ UNCHANGED << file_desc_mutex, pc, job, token, block, start, bl_int, dont_add, rest, revoke, record, known,
                      calls, revokes, crashed, before, quiet, putback, missed >>
      /\ rpc' = IF kept' = {} THEN "remove" ELSE "reinsert"
  BY DEF RemoveStep, appVars, scanVars, addVars, managerVars, boundVars, historyVars
<1>2. PICK o \in tok_map : /\ o \in Access /\ Overlaps(o.iv, revoke.iv) /\ revoke.iv \in Interval
                           /\ tok_map' = tok_map \ {o} /\ kept' = Remainders(o, revoke.iv)
  BY RemoveStepIs
<1>3. /\ tok_map' \in SUBSET Access /\ Keyed(tok_map')
      /\ \A e \in tok_map' : Blocks(e.iv) \subseteq AllBlocks
  BY <1>2, MapErases
<1>4. kept' \in SUBSET Access /\ \A e \in kept' : Blocks(e.iv) \subseteq Blocks(o.iv)
  BY <1>2, RemaindersAre
<1>5. \A e \in kept' : Blocks(e.iv) \subseteq AllBlocks
  BY <1>2, <1>4 DEF MapInv, InFile
<1>6. rpc' \in RPCs /\ (kept' # {} => rpc' = "reinsert") /\ putback' \subseteq AllBlocks
  BY <1>1 DEF MapInv, TypeOK, RPCs
<1> QED
  BY <1>1, <1>2, <1>3, <1>4, <1>5, <1>6, RevokerKeepsMap

\* One of what is left of a revoked token is inserted, or refused.
LEMMA KeepRestIs ==
  ASSUME MapInv, KeepRest
  PROVE  /\ \E e \in kept : /\ e \in Access /\ Blocks(e.iv) \subseteq AllBlocks
                            /\ tok_map' = Insert(tok_map, e) /\ kept' = kept \ {e}
                            /\ putback' = putback \union Blocks(e.iv)
         /\ rpc = "reinsert" /\ rpc' = IF kept' = {} THEN "remove" ELSE "reinsert"
<1>1. PICK e \in kept : /\ tok_map' = Insert(tok_map, e) /\ kept' = kept \ {e}
                        /\ putback' = putback \union Blocks(e.iv)
  BY FirstIs DEF KeepRest, Insert
<1>2. e \in Access /\ Blocks(e.iv) \subseteq AllBlocks
  BY DEF MapInv, TypeOK, InFile
<1> QED
  BY <1>1, <1>2 DEF KeepRest, RevokerAt

LEMMA KeepRestKeeps ==
  ASSUME MapInv, KeepRest
  PROVE  MapInv'
<1>1. /\ UNCHANGED << file_desc_mutex, pc, job, token, block, start, bl_int, dont_add, rest, revoke, record, known,
                      calls, revokes, crashed, before, quiet, missed >>
      /\ rpc' = IF kept' = {} THEN "remove" ELSE "reinsert"
  BY DEF KeepRest, appVars, scanVars, addVars, managerVars, boundVars
<1>2. PICK e \in kept : /\ e \in Access /\ Blocks(e.iv) \subseteq AllBlocks
                        /\ tok_map' = Insert(tok_map, e) /\ kept' = kept \ {e}
                        /\ putback' = putback \union Blocks(e.iv)
  BY KeepRestIs
<1>3. /\ tok_map' \in SUBSET Access /\ Keyed(tok_map')
      /\ \A d \in tok_map' : d \in tok_map \/ d = e
      /\ \A d \in tok_map' : Blocks(d.iv) \subseteq AllBlocks
  BY <1>2, MapInserts
<1>4. /\ kept' \in SUBSET Access /\ \A d \in kept' : Blocks(d.iv) \subseteq AllBlocks
      /\ putback \subseteq putback' /\ putback' \subseteq AllBlocks
  BY <1>2 DEF MapInv, TypeOK, InFile
<1>5. rpc' \in RPCs /\ (kept' # {} => rpc' = "reinsert")
  BY <1>1 DEF RPCs
<1>6. \A d \in tok_map' : d \in tok_map \/ Blocks(d.iv) \subseteq putback'
  BY <1>2, <1>3
<1> QED
  BY <1>1, <1>3, <1>4, <1>5, <1>6, RevokerKeepsMap

LEMMA MapInvNext ==
  ASSUME MapInv, [Next]_vars
  PROVE  MapInv'
<1>1. ASSUME NEW t \in Threads, NEW j \in Jobs, Call(t, j) PROVE MapInv'
  BY <1>1, CallKeeps
<1>2. ASSUME NEW t \in Threads, Library(t) PROVE MapInv'
  BY <1>2, CheckTokensKeeps, ScanStepKeeps, ScanDoneKeeps, FinishCallKeeps, StartAddKeeps, LoopKeeps,
     ReinsertKeeps, FinishAddKeeps, MergeKeeps, InsertTokenKeeps DEF Library
<1>3. ASSUME NEW t \in Threads, Manager(t) PROVE MapInv'
  BY <1>3, RevokeKeeps, GrantKeeps, NackKeeps DEF Manager
<1>4. ASSUME NEW v \in Revocations, RevokeForOther(v) PROVE MapInv'
  BY <1>4, RevokeKeeps
<1>5. ASSUME Revoker PROVE MapInv'
  BY <1>5, RemoveStepKeeps, KeepRestKeeps, RemoveDoneKeeps, AnswerKeeps DEF Revoker
<1> QED
  BY <1>1, <1>2, <1>3, <1>4, <1>5, EndKeeps DEF Next

LEMMA MapInvInit ==
  ASSUME Init
  PROVE  MapInv
<1>1. None \in Interval /\ Idle \in Access /\ Blocks(None) \subseteq AllBlocks /\ Blocks(Idle.iv) \subseteq AllBlocks
  BY BlocksOfFile DEF None, Idle, Access, Modes, Interval, Blocks
<1>2. NothingHeld \in [AllBlocks -> Modes \union {"none"}]
  BY DEF NothingHeld
<1>3. TypeOK
  BY <1>1, <1>2 DEF Init, TypeOK, PCs, RPCs
<1>4. MutexHeld /\ InFile /\ ScanInRange /\ LeftoversUsed
  BY <1>1, FreeAssumption DEF Init, MutexHeld, Inside, Adding, InFile, ScanInRange, LeftoversUsed
<1> QED
  BY <1>3, <1>4 DEF Init, MapInv, Keyed, SurprisedByRevoker, Surprised

\* The token map is well formed whatever its threads do: its keys share no block, nothing
\* leaves the file, the mutex is held by the thread inside, what is left of an erased
\* token is used up before that thread goes on, and an overlap behind the loop is of what
\* the revoker has put back.
THEOREM MapShape == Spec => []MapInv
<1> QED
  BY MapInvInit, MapInvNext, PTL DEF Spec
-----------------------------------------------------------------------------
-----------------------------------------------------------------------------
(* An iteration of the loop, block by block.                                *)

\* Nothing overlaps.
NothingFound(t) ==
  /\ \A e \in tok_map : ~Overlaps(e.iv, bl_int)
  /\ UNCHANGED << tok_map, bl_int, dont_add >> /\ rest' = {}

\* The token found covers the new one, and stays.
KeepsCover(t) ==
  /\ UNCHANGED << tok_map, bl_int >> /\ dont_add' /\ rest' = {}
  /\ \E o \in tok_map : /\ Covers(o.iv, bl_int)
                        /\ \/ o.mode = job[t].mode /\ o.iv # bl_int
                           \/ job[t].mode = "r" /\ o.mode = "w"

\* A read token loses its blocks to a write token: the rest of it is to be inserted.
TakesFromReader(t, o) ==
  /\ job[t].mode = "w" /\ o.mode = "r"
  /\ UNCHANGED << bl_int, dont_add >>
  /\ tok_map' = tok_map \ {o} /\ rest' = Remainders(o, bl_int)

\* A token goes from the map into the new interval.
Absorbs(t, o) ==
  /\ o.mode = job[t].mode /\ (~Covers(o.iv, bl_int) \/ o.iv = bl_int)
  /\ UNCHANGED dont_add
  /\ tok_map' = tok_map \ {o} /\ rest' = {}
  /\ bl_int' = Hull(o.iv, bl_int)

\* The new interval gives way to a write token; what is left of that goes into the map.
GoesAround(t, o) ==
  /\ job[t].mode = "r" /\ o.mode = "w" /\ ~Covers(o.iv, bl_int)
  /\ UNCHANGED dont_add /\ rest' = {}
  /\ bl_int.m_start <= bl_int'.m_start /\ bl_int'.m_end <= bl_int.m_end
  /\ Blocks(bl_int') \subseteq Blocks(bl_int) \ Blocks(o.iv)
  /\ \A b \in Nat :
       /\ b \in Blocks(bl_int) /\ b \notin Blocks(bl_int') /\ b \notin Blocks(o.iv) =>
            Held(b) = "none" /\ Held(b)' = "r"
       /\ ~(b \in Blocks(bl_int) /\ b \notin Blocks(bl_int') /\ b \notin Blocks(o.iv)) => Held(b)' = Held(b)

LEMMA AbsorbsIs ==
  ASSUME MapInv, NEW t \in Threads, pc[t] = "add", NEW o \in FirstOverlap(tok_map, bl_int),
         job[t].mode = o.mode, SameMode(t, o)
  PROVE  KeepsCover(t) \/ Absorbs(t, o)
<1>1. o \in tok_map /\ rest = {}
  BY FoundIs, NoRest DEF MapInv, TypeOK, Inside, Adding
<1> QED
  BY <1>1 DEF SameMode, KeepsCover, Absorbs

LEMMA GoesAroundIs ==
  ASSUME MapInv, NEW t \in Threads, pc[t] = "add", NEW o \in FirstOverlap(tok_map, bl_int),
         job[t].mode = "r", o.mode = "w", ReadOverWrite(t, o)
  PROVE  KeepsCover(t) \/ GoesAround(t, o)
<1>0. rest = {} /\ rest' = {}
  BY NoRest DEF Inside, Adding, ReadOverWrite
<1>1. /\ tok_map \in SUBSET Access /\ Keyed(tok_map) /\ bl_int \in Interval
      /\ o \in tok_map /\ o.iv \in Interval /\ Overlaps(o.iv, bl_int)
      /\ \A d \in tok_map : Overlaps(d.iv, bl_int) => ~Before(d.iv, o.iv)
  BY FoundIs DEF MapInv, TypeOK
<1>2. CASE Covers(o.iv, bl_int) /\ dont_add' = TRUE /\ UNCHANGED << tok_map, bl_int >>
  BY <1>0, <1>1, <1>2 DEF KeepsCover
<1>3. CASE /\ ~Covers(o.iv, bl_int)
           /\ o.iv.m_end >= bl_int.m_end
           /\ bl_int' = [bl_int EXCEPT !.m_end = o.iv.m_start - 1]
           /\ UNCHANGED << tok_map, dont_add, pc >>
  <2>1. bl_int' = [m_start |-> bl_int.m_start, m_end |-> o.iv.m_start - 1]
    BY <1>1, <1>3 DEF Interval
  <2>2. bl_int.m_end <= o.iv.m_end
    BY <1>1, <1>3 DEF Interval
  <2>3. /\ bl_int'.m_start = bl_int.m_start /\ bl_int'.m_end <= bl_int.m_end
        /\ Blocks(bl_int') \subseteq Blocks(bl_int) \ Blocks(o.iv)
        /\ \A b \in Blocks(bl_int) : b \in Blocks(bl_int') \/ b \in Blocks(o.iv)
    BY <1>1, <1>3, <2>1, <2>2, CutRight
  <2>4. \A b : Held(b)' = Held(b)
    BY <1>3, HeldIs, HeldIsNext
  <2>5. bl_int.m_start <= bl_int'.m_start
    BY <1>1, <2>3 DEF Interval
  <2> QED
    BY <1>0, <1>1, <1>3, <2>3, <2>4, <2>5 DEF GoesAround
<1>4. CASE /\ o.iv.m_end < bl_int.m_end
           /\ bl_int' = [bl_int EXCEPT !.m_start = o.iv.m_end + 1]
           /\ tok_map' = IF bl_int.m_start < o.iv.m_start
                         THEN MapInsert(tok_map, {[iv |-> [bl_int EXCEPT !.m_end = o.iv.m_start - 1],
                                                   mode |-> "r"]})
                         ELSE tok_map
           /\ UNCHANGED << dont_add, pc >>
  <2>1. bl_int' = [m_start |-> o.iv.m_end + 1, m_end |-> bl_int.m_end]
    BY <1>1, <1>4 DEF Interval
  <2>2. /\ bl_int' \in Interval /\ bl_int'.m_end = bl_int.m_end /\ bl_int.m_start <= bl_int'.m_start
        /\ Blocks(bl_int') \subseteq Blocks(bl_int) \ Blocks(o.iv)
        /\ bl_int.m_start >= o.iv.m_start => \A b \in Blocks(bl_int) : b \in Blocks(bl_int') \/ b \in Blocks(o.iv)
    BY <1>1, <1>4, <2>1, CutLeft
  <2>3. ~Covers(o.iv, bl_int) /\ bl_int'.m_end <= bl_int.m_end
    BY <1>1, <1>4, <2>2 DEF Covers, Interval
  <2>4. CASE bl_int.m_start < o.iv.m_start
    <3>1. PICK n \in Access : /\ n.iv = [m_start |-> bl_int.m_start, m_end |-> o.iv.m_start - 1]
                              /\ n.mode = "r" /\ tok_map' = Insert(tok_map, n)
      <4>1. [bl_int EXCEPT !.m_end = o.iv.m_start - 1] = [m_start |-> bl_int.m_start, m_end |-> o.iv.m_start - 1]
        BY <1>1 DEF Interval
      <4>2. [m_start |-> bl_int.m_start, m_end |-> o.iv.m_start - 1] \in Interval
        BY <1>1, <2>4 DEF Interval
      <4> QED
        BY <1>4, <2>4, <4>1, <4>2 DEF Insert, Access, Modes
    <3>2. n.iv \in Interval
      BY DEF Access
    <3>3. \A b : b \in Blocks(n.iv) <=>
                   b \in Blocks(bl_int) /\ b \notin Blocks(bl_int') /\ b \notin Blocks(o.iv)
      BY <1>1, <1>4, <2>1, <2>4, <3>1 DEF Interval, Overlaps, Before, Blocks
    <3>4. ASSUME NEW d \in tok_map PROVE ~Overlaps(d.iv, n.iv)
      <4>1. d.iv \in Interval
        BY <1>1 DEF Access
      <4>2. CASE d = o
        BY <1>1, <3>1, <4>2 DEF Interval, Overlaps, Before
      <4>3. CASE d # o
        <5>1. ~Overlaps(d.iv, o.iv)
          BY <1>1, <4>3 DEF Keyed
        <5>2. Overlaps(d.iv, bl_int) => ~Before(d.iv, o.iv)
          BY <1>1
        <5> QED
          BY <1>1, <1>4, <2>4, <3>1, <4>1, <5>1, <5>2 DEF Interval, Overlaps, Before
      <4> QED
        BY <4>2, <4>3
    <3>5. \A b \in Nat : /\ b \in Blocks(n.iv) => ModeIn(tok_map', b) = n.mode
                         /\ b \notin Blocks(n.iv) => ModeIn(tok_map', b) = ModeIn(tok_map, b)
      BY <1>1, <3>1, <3>4, Inserted
    <3>6. ASSUME NEW b \in Nat, b \in Blocks(n.iv) PROVE ModeIn(tok_map, b) = "none"
      <4>1. ASSUME NEW d \in tok_map PROVE b \notin Blocks(d.iv)
        <5>1. d.iv \in Interval
          BY <1>1 DEF Access
        <5> QED
          BY <3>2, <3>4, <3>6, <5>1, OverlapsMeet
      <4> QED
        BY <1>1, <4>1, ModeIs
    <3>7. \A b \in Nat :
            /\ b \in Blocks(bl_int) /\ b \notin Blocks(bl_int') /\ b \notin Blocks(o.iv) =>
                 Held(b) = "none" /\ Held(b)' = "r"
            /\ ~(b \in Blocks(bl_int) /\ b \notin Blocks(bl_int') /\ b \notin Blocks(o.iv)) => Held(b)' = Held(b)
      BY <3>1, <3>3, <3>5, <3>6, HeldIs, HeldIsNext
    <3> QED
      BY <1>0, <1>1, <1>4, <2>2, <2>3, <3>7 DEF GoesAround
  <2>5. CASE ~(bl_int.m_start < o.iv.m_start)
    <3>1. bl_int.m_start >= o.iv.m_start
      BY <1>1, <2>5 DEF Interval
    <3>2. \A b : Held(b)' = Held(b)
      BY <1>4, <2>5, HeldIs, HeldIsNext
    <3> QED
      BY <1>0, <1>1, <1>4, <2>2, <2>3, <3>1, <3>2 DEF GoesAround
  <2> QED
    BY <2>4, <2>5
<1> QED
  BY <1>2, <1>3, <1>4 DEF ReadOverWrite

LEMMA LoopIs ==
  ASSUME MapInv, NEW t \in Threads, AddStep(t)
  PROVE  \/ NothingFound(t)
         \/ KeepsCover(t)
         \/ \E o \in tok_map : /\ Overlaps(o.iv, bl_int)
                               /\ TakesFromReader(t, o) \/ Absorbs(t, o) \/ GoesAround(t, o)
<1>0. pc[t] = "add" /\ rest = {}
  BY AddStepKeeps
<1>1. CASE FirstOverlap(tok_map, bl_int) = {} /\ UNCHANGED << tok_map, addVars >>
  BY <1>0, <1>1, FindsFirst DEF NothingFound, MapInv, TypeOK, addVars
<1>2. ASSUME NEW o \in FirstOverlap(tok_map, bl_int),
             \/ job[t].mode = "w" /\ o.mode = "r" /\ WriteOverRead(t, o)
             \/ job[t].mode = o.mode /\ SameMode(t, o)
             \/ job[t].mode = "r" /\ o.mode = "w" /\ ReadOverWrite(t, o)
      PROVE  \/ KeepsCover(t)
             \/ \E d \in tok_map : /\ Overlaps(d.iv, bl_int)
                                   /\ TakesFromReader(t, d) \/ Absorbs(t, d) \/ GoesAround(t, d)
  <2>1. o \in tok_map /\ Overlaps(o.iv, bl_int)
    BY FoundIs DEF MapInv, TypeOK
  <2>2. WriteOverRead(t, o) /\ job[t].mode = "w" /\ o.mode = "r" => TakesFromReader(t, o)
    BY DEF WriteOverRead, TakesFromReader
  <2> QED
    BY <1>0, <1>2, <2>1, <2>2, AbsorbsIs, GoesAroundIs
<1> QED
  BY <1>1, <1>2 DEF AddStep
-----------------------------------------------------------------------------
(* RecordInv is kept.                                                       *)

\* Rank orders the modes.
LEMMA Ranks ==
  ASSUME TypeOK, NEW b \in AllBlocks
  PROVE  /\ \A m \in Modes \union {"none"} : Rank[m] \in Nat
         /\ Rank["none"] = 0 /\ Rank["r"] = 1 /\ Rank["w"] = 2
         /\ record[b] \in Modes \union {"none"}
  BY DEF TypeOK, Modes, Rank

\* Steps that bring into the map, and into what is loose, only what is in either.
Steady ==
  /\ UNCHANGED << record, known, missed, revoke >>
  /\ rpc' = "answer" => rpc = "answer"
  /\ \A b \in AllBlocks : Held(b)' = Held(b) \/ Held(b)' = "none" \/ Loose(b, Held(b)')
  /\ \A b \in AllBlocks, m \in Modes : Loose(b, m)' => Loose(b, m) \/ Held(b) = m

LEMMA SteadyKeeps ==
  ASSUME MapInv, MapInv', RecordInv, Steady
  PROVE  RecordInv'
<1>0. \A b \in AllBlocks : Held(b) \in Modes \union {"none"} /\ Held(b)' \in Modes \union {"none"}
  <2>1. /\ tok_map \in SUBSET Access /\ Keyed(tok_map) /\ tok_map' \in SUBSET Access /\ Keyed(tok_map')
        /\ AllBlocks \subseteq Nat
    BY BlocksOfFile DEF MapInv, TypeOK, Keyed
  <2> QED
    BY <2>1, ModeIs, HeldIs, HeldIsNext
<1>1. ExcessOnlyMissed'
  <2> SUFFICES ASSUME known, NEW b \in AllBlocks, b \notin missed
               PROVE  Rank[Held(b)'] <= Rank[record[b]]
    BY DEF Steady, ExcessOnlyMissed
  <2>1. CASE Held(b)' = Held(b)
    BY <2>1 DEF RecordInv, ExcessOnlyMissed
  <2>2. CASE Held(b)' = "none"
    BY <2>2, Ranks DEF MapInv
  <2>3. CASE Held(b)' \in Modes /\ Loose(b, Held(b)')
    BY <2>3 DEF RecordInv, LooseCovered, Covered
  <2> QED
    BY <1>0, <2>1, <2>2, <2>3 DEF Steady
<1>2. LooseCovered'
  <2> SUFFICES ASSUME known, NEW b \in AllBlocks, b \notin missed, NEW m \in Modes, Loose(b, m)'
               PROVE  Rank[m] <= Rank[record[b]]
    BY DEF Steady, LooseCovered, Covered
  <2>1. Loose(b, m) \/ Held(b) = m
    BY DEF Steady
  <2> QED
    BY <2>1 DEF RecordInv, ExcessOnlyMissed, LooseCovered, Covered
<1>3. RevokedGone'
  <2> SUFFICES ASSUME rpc = "answer", revoke.mode = "r", NEW b \in Blocks(revoke.iv), b \notin missed
               PROVE  Held(b)' = "none" /\ \A m \in Modes : ~Loose(b, m)'
    BY DEF Steady, RevokedGone
  <2>1. b \in AllBlocks
    BY DEF MapInv, InFile
  <2>2. Held(b) = "none" /\ \A m \in Modes : ~Loose(b, m)
    BY DEF RecordInv, RevokedGone
  <2>3. "none" \notin Modes
    BY DEF Modes
  <2> QED
    BY <1>0, <2>1, <2>2, <2>3 DEF Steady
<1> QED
  BY <1>1, <1>2, <1>3 DEF RecordInv

\* Steps that leave the map alone, and bring nothing more to it.
LEMMA QuietSteady ==
  ASSUME UNCHANGED << tok_map, rest, kept, record, known, missed, revoke >>, rpc' = "answer" => rpc = "answer",
         \A u \in Threads, b \in AllBlocks : Coming(u, b)' => job'[u] = job[u] /\ Coming(u, b)
  PROVE  Steady
<1>1. \A b \in AllBlocks : Held(b)' = Held(b)
  BY HeldIs, HeldIsNext
<1>2. ASSUME NEW b \in AllBlocks, NEW m \in Modes, Loose(b, m)' PROVE Loose(b, m)
  BY <1>2 DEF Loose
<1> QED
  BY <1>1, <1>2 DEF Steady

\* Calls, and the steps of a thread outside the map.
LEMMA OutsideSteady ==
  ASSUME MapInv, NEW t \in Threads,
         \/ \E j \in Jobs : Call(t, j)
         \/ CheckTokens(t) \/ ScanStep(t) \/ ScanDone(t) \/ FinishCall(t) \/ StartAdd(t) \/ FinishAdd(t)
  PROVE  Steady
<1>1. UNCHANGED << tok_map, rest, kept, record, known, missed, rpc, revoke >>
  BY DEF Call, CheckTokens, ScanStep, ScanDone, FinishCall, StartAdd, FinishAdd, addVars, revokeVars,
         managerVars, historyVars
<1>2. \A u \in Threads, b \in AllBlocks : Coming(u, b)' => job'[u] = job[u] /\ Coming(u, b)
  <2>1. ASSUME NEW j \in Jobs, Call(t, j)
        PROVE  \A u \in Threads, b \in AllBlocks : Coming(u, b)' => job'[u] = job[u] /\ Coming(u, b)
    <3>1. /\ GoTo(t, "need") /\ job' = [job EXCEPT ![t] = j] /\ UNCHANGED << token, bl_int >>
      BY <2>1 DEF Call, addVars
    <3>2. pc'[t] = "need" /\ \A u \in Threads : u # t => pc'[u] = pc[u] /\ job'[u] = job[u]
      BY <3>1, Went DEF MapInv, TypeOK, PCs
    <3> QED
      BY <3>1, <3>2 DEF Coming, Adding
  <2>2. CASE CheckTokens(t)
    <3>1. GoTo(t, "scan") /\ UNCHANGED << job, token, bl_int >>
      BY <2>2 DEF CheckTokens, addVars
    <3>2. pc'[t] = "scan" /\ \A u \in Threads : u # t => pc'[u] = pc[u]
      BY <3>1, Went DEF MapInv, PCs
    <3> QED
      BY <3>1, <3>2 DEF Coming, Adding
  <2>3. CASE ScanStep(t) \/ ScanDone(t)
    <3>1. /\ UNCHANGED << job, bl_int >>
          /\ \A u \in Threads : u # t => token'[u] = token[u] /\ pc'[u] = pc[u]
          /\ pc'[t] \in {"scan", "asked", "io"}
      <4>1. pc[t] = "scan" /\ UNCHANGED << job, bl_int >>
        BY <2>3 DEF ScanStep, ScanDone, At, addVars
      <4>2. \/ UNCHANGED << token, pc >>
            \/ GoTo(t, "io") /\ UNCHANGED token
            \/ \E i : token' = [token EXCEPT ![t] = i] /\ GoTo(t, "asked")
        BY <2>3 DEF ScanStep, ScanDone, Ask
      <4>3. \A u \in Threads : u # t => token'[u] = token[u]
        BY <4>2 DEF MapInv, TypeOK
      <4> QED
        BY <4>1, <4>2, <4>3, Went DEF MapInv, PCs
    <3> QED
      BY <3>1 DEF Coming, Adding
  <2>4. CASE FinishCall(t)
    <3>1. GoTo(t, "idle") /\ job' = [job EXCEPT ![t] = Idle] /\ UNCHANGED << token, bl_int >>
      BY <2>4 DEF FinishCall, addVars
    <3>2. pc'[t] = "idle" /\ \A u \in Threads : u # t => pc'[u] = pc[u] /\ job'[u] = job[u]
      BY <3>1, Went DEF MapInv, TypeOK, PCs
    <3> QED
      BY <3>1, <3>2 DEF Coming, Adding
  <2>5. CASE StartAdd(t)
    <3>1. /\ GoTo(t, "add") /\ pc[t] = "granted" /\ bl_int' = token[t] /\ UNCHANGED << job, token >>
          /\ file_desc_mutex = Free
      BY <2>5 DEF StartAdd, At
    <3>2. pc'[t] = "add" /\ \A u \in Threads : u # t => pc'[u] = pc[u]
      BY <3>1, Went DEF MapInv, PCs
    <3>3. \A u \in Threads : ~Adding(u)
      BY <3>1, NoneInside DEF MapInv
    <3>4. \A b : b \in Blocks(Hull(token[t], token[t])) => b \in Blocks(token[t])
      BY DEF Hull, Blocks
    <3> QED
      BY <3>1, <3>2, <3>3, <3>4 DEF Coming, Adding
  <2>6. CASE FinishAdd(t)
    <3>1. pc[t] = "finish" /\ UNCHANGED job
      BY <2>6 DEF FinishAdd, At
    <3>2. CASE Return(t)
      <4>1. /\ pc'[t] = "need"
            /\ \A u \in Threads : u # t => pc'[u] = pc[u] /\ token'[u] = token[u]
            /\ \A u \in Threads : ~Adding(u)'
        BY <3>1, <3>2, Returned DEF Inside, Adding
      <4> QED
        BY <3>1, <4>1 DEF Coming
    <3>3. CASE GoTo(t, "right") /\ UNCHANGED << token, bl_int >>
      <4>1. pc'[t] = "right" /\ \A u \in Threads : u # t => pc'[u] = pc[u]
        BY <3>3, Went DEF MapInv, PCs
      <4> QED
        BY <3>1, <3>3, <4>1 DEF Coming, Adding
    <3> QED
      BY <2>6, <3>2, <3>3 DEF FinishAdd
  <2> QED
    BY <2>1, <2>2, <2>3, <2>4, <2>5, <2>6
<1> QED
  BY <1>1, <1>2, QuietSteady

LEMMA LoopSteady ==
  ASSUME MapInv, NEW t \in Threads, AddStep(t)
  PROVE  Steady
<1>1. /\ Adding(t) /\ pc[t] = "add" /\ rest = {} /\ LoopResult(t)
      /\ UNCHANGED << record, known, missed, rpc, revoke, kept, job, token >>
  BY AddStepKeeps DEF AddStep, Adding, revokeVars, managerVars, historyVars
<1>2. \A u \in Threads : u # t => pc'[u] = pc[u] /\ ~Adding(u) /\ ~Adding(u)'
  BY <1>1, OneInside DEF MapInv, TypeOK, LoopResult, Inside, Adding
<1>3. /\ \A b \in AllBlocks : \/ Held(b)' = Held(b) \/ Held(b)' = "none"
                              \/ b \in Blocks(bl_int) /\ Held(b)' = job[t].mode
      /\ \A b \in Blocks(Hull(token[t], bl_int')) : b \in Blocks(Hull(token[t], bl_int)) \/ Held(b) = job[t].mode
      /\ \A e \in rest' : \A b \in Blocks(e.iv) : Held(b) = e.mode
  <2>0. /\ \A o \in tok_map : o.iv \in Interval
        /\ bl_int \in Interval /\ token[t] \in Interval /\ bl_int' \in Interval
        /\ tok_map \in SUBSET Access /\ AllBlocks \subseteq Nat
        /\ \A o \in tok_map : Blocks(o.iv) \subseteq AllBlocks
    BY <1>1, LoopFacts, BlocksOfFile DEF LoopResult
  <2>1. CASE NothingFound(t) \/ KeepsCover(t)
    BY <2>1, HeldIs, HeldIsNext DEF NothingFound, KeepsCover
  <2>2. ASSUME NEW o \in tok_map, Overlaps(o.iv, bl_int), TakesFromReader(t, o)
        PROVE  <1>3!1 /\ <1>3!2 /\ <1>3!3
    <3>1. \A b \in Nat : /\ b \in Blocks(o.iv) => Held(b)' = "none" /\ Held(b) = o.mode
                         /\ b \notin Blocks(o.iv) => Held(b)' = Held(b)
      BY <2>2, MapErases DEF TakesFromReader
    <3>2. \A e \in rest' : e.mode = o.mode /\ Blocks(e.iv) \subseteq Blocks(o.iv)
      BY <2>0, <2>2, RemaindersAre DEF TakesFromReader
    <3>3. bl_int' = bl_int
      BY <2>2 DEF TakesFromReader
    <3>4. \A e \in rest' : \A b \in Blocks(e.iv) : Held(b) = e.mode
      BY <2>0, <3>1, <3>2
    <3> QED
      BY <2>0, <3>1, <3>3, <3>4
  <2>3. ASSUME NEW o \in tok_map, Overlaps(o.iv, bl_int), Absorbs(t, o)
        PROVE  <1>3!1 /\ <1>3!2 /\ <1>3!3
    <3>1. \A b \in Nat : /\ b \in Blocks(o.iv) => Held(b)' = "none" /\ Held(b) = o.mode
                         /\ b \notin Blocks(o.iv) => Held(b)' = Held(b)
      BY <2>3, MapErases DEF Absorbs
    <3>2. \A b \in Blocks(Hull(token[t], bl_int')) : b \in Blocks(Hull(token[t], bl_int)) \/ b \in Blocks(o.iv)
      BY <2>0, <2>3, HullGrows DEF Absorbs
    <3>3. o.mode = job[t].mode /\ rest' = {}
      BY <2>3 DEF Absorbs
    <3> QED
      BY <2>0, <3>1, <3>2, <3>3
  <2>4. ASSUME NEW o \in tok_map, Overlaps(o.iv, bl_int), GoesAround(t, o)
        PROVE  <1>3!1 /\ <1>3!2 /\ <1>3!3
    <3>1. \A b \in Blocks(Hull(token[t], bl_int')) : b \in Blocks(Hull(token[t], bl_int))
      BY <2>0, <2>4, HullShrinks DEF GoesAround
    <3>2. \A b \in Nat : Held(b)' = Held(b) \/ (b \in Blocks(bl_int) /\ Held(b)' = job[t].mode)
      BY <2>4 DEF GoesAround
    <3>3. rest' = {}
      BY <2>4 DEF GoesAround
    <3> QED
      BY <2>0, <3>1, <3>2, <3>3
  <2> QED
    BY <2>1, <2>2, <2>3, <2>4, LoopIs
<1>4. ASSUME NEW b \in AllBlocks, NEW m \in Modes, Loose(b, m)' PROVE Loose(b, m) \/ Held(b) = m
  <2>1. CASE \E u \in Threads : Coming(u, b)' /\ m = job'[u].mode
    <3>1. PICK u \in Threads : Coming(u, b)' /\ m = job[u].mode
      BY <1>1, <2>1
    <3>2. CASE u = t
      <4>1. b \in Blocks(Hull(token[t], bl_int'))
        BY <1>1, <3>1, <3>2 DEF Coming, LoopResult
      <4> QED
        BY <1>1, <1>3, <3>1, <3>2, <4>1 DEF Loose, Coming
    <3>3. CASE u # t
      BY <1>1, <1>2, <3>1, <3>3 DEF Loose, Coming
    <3> QED
      BY <3>2, <3>3
  <2>2. CASE \E e \in rest' \union kept' : b \in Blocks(e.iv) /\ m = e.mode
    BY <1>1, <1>3, <2>2 DEF Loose
  <2> QED
    BY <1>4, <2>1, <2>2 DEF Loose
<1>5. ASSUME NEW b \in AllBlocks PROVE Held(b)' = Held(b) \/ Held(b)' = "none" \/ Loose(b, Held(b)')
  BY <1>1, <1>3, LoopFacts DEF Loose, Coming
<1> QED
  BY <1>1, <1>4, <1>5 DEF Steady

LEMMA ReinsertSteady ==
  ASSUME MapInv, NEW t \in Threads, Reinsert(t)
  PROVE  Steady
<1>1. PICK e \in rest : /\ e \in Access /\ Blocks(e.iv) \subseteq AllBlocks
                        /\ tok_map' = Insert(tok_map, e) /\ rest' = rest \ {e}
  BY ReinsertIs
<1>2. /\ Adding(t) /\ pc'[t] \in {"add", "reinsert"} /\ \A u \in Threads : u # t => pc'[u] = pc[u]
      /\ UNCHANGED << job, token, bl_int, rpc, revoke, kept, record, known, missed >>
  BY ReinsertIs
<1>3. \A b \in Nat : Held(b)' = Held(b) \/ (b \in Blocks(e.iv) /\ Held(b)' = e.mode)
  BY <1>1, MapInserts
<1>4. \A u \in Threads : \A b : Coming(u, b)' => Coming(u, b)
  BY <1>2 DEF Coming, Adding
<1>5. ASSUME NEW b \in AllBlocks, NEW m \in Modes, Loose(b, m)' PROVE Loose(b, m)
  BY <1>1, <1>2, <1>4, <1>5 DEF Loose
<1>6. \A b \in AllBlocks : Held(b)' = Held(b) \/ Loose(b, Held(b)')
  BY <1>1, <1>3, BlocksOfFile DEF Loose
<1> QED
  BY <1>2, <1>5, <1>6 DEF Steady

LEMMA MergeSteady ==
  ASSUME MapInv, NEW t \in Threads, MergeRight(t) \/ MergeLeft(t)
  PROVE  Steady
<1>1. /\ Adding(t) /\ Inside(t)
      /\ UNCHANGED << record, known, missed, rpc, revoke, job, token, rest, kept >>
  BY DEF MergeRight, MergeLeft, At, Adding, Inside, revokeVars, managerVars, historyVars
<1>2. \A u \in Threads : u # t => pc'[u] = pc[u] /\ ~Adding(u) /\ ~Adding(u)'
  <2>1. UNCHANGED pc \/ GoTo(t, "left") \/ GoTo(t, "insert")
    BY MergeRightIs, MergeLeftIs
  <2>2. \A u \in Threads : u # t => pc'[u] = pc[u]
    BY <2>1, Went DEF MapInv, PCs
  <2> QED
    BY <1>1, <2>2, OneInside DEF MapInv, Adding
<1>3. /\ \A b \in AllBlocks : Held(b)' = Held(b) \/ Held(b)' = "none"
      /\ \A b \in AllBlocks : b \in Blocks(Hull(token[t], bl_int')) =>
           b \in Blocks(Hull(token[t], bl_int)) \/ Held(b) = job[t].mode
  <2>1. CASE UNCHANGED << tok_map, bl_int >>
    BY <2>1, HeldIs, HeldIsNext
  <2>2. ASSUME NEW o \in tok_map, MergeResult(t, o)
        PROVE  <1>3!1 /\ <1>3!2
    <3>1. \A b \in Nat : /\ b \in Blocks(o.iv) => Held(b)' = "none" /\ Held(b) = o.mode
                         /\ b \notin Blocks(o.iv) => Held(b)' = Held(b)
      BY <2>2, MapErases DEF MergeResult
    <3> QED
      BY <2>2, <3>1, BlocksOfFile DEF MergeResult
  <2> QED
    BY <2>1, <2>2, MergeRightIs, MergeLeftIs
<1>4. ASSUME NEW b \in AllBlocks, NEW m \in Modes, Loose(b, m)' PROVE Loose(b, m) \/ Held(b) = m
  <2>1. CASE \E u \in Threads : Coming(u, b)' /\ m = job'[u].mode
    <3>1. PICK u \in Threads : Coming(u, b)' /\ m = job[u].mode
      BY <1>1, <2>1
    <3>2. CASE u = t
      <4>1. pc'[t] # "granted"
        <5>1. UNCHANGED pc \/ GoTo(t, "left") \/ GoTo(t, "insert")
          BY MergeRightIs, MergeLeftIs
        <5>2. pc[t] # "granted"
          BY <1>1 DEF Adding
        <5> QED
          BY <5>1, <5>2, Went DEF MapInv, PCs
      <4>2. b \in Blocks(Hull(token[t], bl_int'))
        BY <1>1, <3>1, <3>2, <4>1 DEF Coming
      <4> QED
        BY <1>1, <1>3, <3>1, <3>2, <4>2 DEF Loose, Coming
    <3>3. CASE u # t
      BY <1>1, <1>2, <3>1, <3>3 DEF Loose, Coming
    <3> QED
      BY <3>2, <3>3
  <2>2. CASE \E e \in rest' \union kept' : b \in Blocks(e.iv) /\ m = e.mode
    BY <1>1, <2>2 DEF Loose
  <2> QED
    BY <1>4, <2>1, <2>2 DEF Loose
<1> QED
  BY <1>1, <1>3, <1>4 DEF Steady

LEMMA InsertSteady ==
  ASSUME MapInv, NEW t \in Threads, InsertToken(t)
  PROVE  Steady
<1>1. /\ Adding(t) /\ Inside(t) /\ pc[t] # "reinsert" /\ Return(t)
      /\ UNCHANGED << record, known, missed, rpc, revoke, job, rest, kept >>
  BY DEF InsertToken, At, Adding, Inside, revokeVars, managerVars
<1>2. /\ pc'[t] = "need"
      /\ \A u \in Threads : u # t => pc'[u] = pc[u] /\ token'[u] = token[u]
      /\ \A u \in Threads : ~Adding(u)'
  BY <1>1, Returned
<1>3. PICK n \in Access : n.iv = bl_int /\ n.mode = job[t].mode /\ tok_map' = Insert(tok_map, n)
  BY DEF MapInv, TypeOK, Access, Insert, InsertToken
<1>4. \A b \in Nat : Held(b)' = Held(b) \/ (b \in Blocks(bl_int) /\ Held(b)' = job[t].mode)
  <2>1. Blocks(n.iv) \subseteq AllBlocks
    BY <1>1, <1>3, LoopFacts
  <2> QED
    BY <1>3, <2>1, MapInserts
<1>5. \A u \in Threads : \A b : Coming(u, b)' => Coming(u, b)
  BY <1>2 DEF Coming
<1>6. ASSUME NEW b \in AllBlocks, NEW m \in Modes, Loose(b, m)' PROVE Loose(b, m)
  BY <1>1, <1>5, <1>6 DEF Loose
<1>7. \A b \in AllBlocks : Held(b)' = Held(b) \/ Loose(b, Held(b)')
  BY <1>1, <1>4, BlocksOfFile, LoopFacts DEF Loose, Coming
<1> QED
  BY <1>1, <1>6, <1>7 DEF Steady

LEMMA RemoveSteady ==
  ASSUME MapInv, RemoveStep
  PROVE  Steady
<1>1. UNCHANGED << record, known, missed, revoke, pc, job, token, bl_int, rest >> /\ rpc' # "answer"
  BY DEF RemoveStep, appVars, addVars, managerVars, historyVars
<1>2. PICK o \in tok_map : /\ o \in Access /\ Overlaps(o.iv, revoke.iv) /\ revoke.iv \in Interval
                           /\ tok_map' = tok_map \ {o} /\ kept' = Remainders(o, revoke.iv)
  BY RemoveStepIs
<1>3. \A b \in Nat : /\ b \in Blocks(o.iv) => Held(b)' = "none" /\ Held(b) = o.mode
                     /\ b \notin Blocks(o.iv) => Held(b)' = Held(b)
  BY <1>2, MapErases
<1>4. \A e \in kept' : e.mode = o.mode /\ Blocks(e.iv) \subseteq Blocks(o.iv)
  BY <1>2, RemaindersAre
<1>5. ASSUME NEW b \in AllBlocks, NEW m \in Modes, Loose(b, m)' PROVE Loose(b, m) \/ Held(b) = m
  <2>1. b \in Nat
    BY BlocksOfFile
  <2>2. CASE \E u \in Threads : Coming(u, b)' /\ m = job'[u].mode
    BY <1>1, <2>2 DEF Loose, Coming, Adding
  <2>3. CASE \E e \in rest' \union kept' : b \in Blocks(e.iv) /\ m = e.mode
    BY <1>1, <1>3, <1>4, <2>1, <2>3 DEF Loose
  <2> QED
    BY <1>5, <2>2, <2>3 DEF Loose
<1> QED
  BY <1>1, <1>3, <1>5, BlocksOfFile DEF Steady

LEMMA KeepRestSteady ==
  ASSUME MapInv, KeepRest
  PROVE  Steady
<1>1. UNCHANGED << record, known, missed, revoke, pc, job, token, bl_int, rest >> /\ rpc' # "answer"
  BY DEF KeepRest, appVars, addVars, managerVars
<1>2. PICK e \in kept : /\ e \in Access /\ Blocks(e.iv) \subseteq AllBlocks
                        /\ tok_map' = Insert(tok_map, e) /\ kept' = kept \ {e}
  BY KeepRestIs
<1>3. \A b \in Nat : Held(b)' = Held(b) \/ (b \in Blocks(e.iv) /\ Held(b)' = e.mode)
  BY <1>2, MapInserts
<1>4. \A u \in Threads : \A b : Coming(u, b)' => Coming(u, b)
  BY <1>1 DEF Coming, Adding
<1>5. ASSUME NEW b \in AllBlocks, NEW m \in Modes, Loose(b, m)' PROVE Loose(b, m)
  BY <1>1, <1>2, <1>4, <1>5 DEF Loose
<1>6. \A b \in AllBlocks : Held(b)' = Held(b) \/ Loose(b, Held(b)')
  BY <1>2, <1>3, BlocksOfFile DEF Loose
<1> QED
  BY <1>1, <1>5, <1>6 DEF Steady

LEMMA EndSteady ==
  ASSUME (\E t \in Threads : RaceInMap(t)) \/ UNCHANGED vars
  PROVE  Steady
<1>1. UNCHANGED << record, known, missed, rpc, revoke, tok_map, pc, job, token, bl_int, rest, kept >>
  BY DEF RaceInMap, vars, appVars, addVars, revokeVars, managerVars, historyVars
<1> QED
  BY <1>1, QuietSteady DEF Coming, Adding

LEMMA GrantCovers ==
  ASSUME MapInv, RecordInv, NEW t \in Threads, Grant(t)
  PROVE  RecordInv'
<1>1. /\ pc[t] = "asked" /\ GoTo(t, "granted") /\ rpc = "idle"
      /\ Targets([iv |-> token[t], mode |-> job[t].mode]) = {}
      /\ record' = [b \in AllBlocks |-> IF b \in Blocks(token[t]) THEN job[t].mode ELSE record[b]]
      /\ UNCHANGED << tok_map, job, token, bl_int, rest, kept, rpc, known, missed >>
  BY DEF Grant, At, addVars, revokeVars, historyVars
<1>2. pc'[t] = "granted" /\ \A u \in Threads : u # t => pc'[u] = pc[u]
  BY <1>1, Went DEF MapInv, PCs
\* The record never falls: what it grants was not recorded as a writer's, and a writer's
\* grant not at all.
<1>3. ASSUME NEW b \in AllBlocks
      PROVE  Rank[record[b]] <= Rank[record'[b]] /\ Rank[record[b]] \in Nat /\ Rank[record'[b]] \in Nat
  <2>1. CASE b \in Blocks(token[t])
    <3>1. record[b] # "w" /\ ~(job[t].mode = "w" /\ record[b] = "r")
      BY <1>1, <2>1 DEF Targets
    <3>2. record'[b] = job[t].mode /\ job[t].mode \in Modes
      BY <1>1, <2>1 DEF MapInv, TypeOK, Access
    <3> QED
      BY <3>1, <3>2, Ranks DEF MapInv, Modes
  <2>2. CASE b \notin Blocks(token[t])
    BY <1>1, <2>2, Ranks DEF MapInv
  <2> QED
    BY <2>1, <2>2
<1>4. \A b \in AllBlocks, m \in Modes \union {"none"} : Rank[m] <= Rank[record[b]] => Rank[m] <= Rank[record'[b]]
  <2> SUFFICES ASSUME NEW b \in AllBlocks, NEW m \in Modes \union {"none"}, Rank[m] <= Rank[record[b]]
               PROVE  Rank[m] <= Rank[record'[b]]
    OBVIOUS
  <2>1. Rank[m] \in Nat
    BY Ranks DEF MapInv
  <2> QED
    BY <1>3, <2>1
<1>5. ExcessOnlyMissed'
  <2> SUFFICES ASSUME known, NEW b \in AllBlocks, b \notin missed
               PROVE  Rank[Held(b)'] <= Rank[record'[b]]
    BY <1>1 DEF ExcessOnlyMissed
  <2>1. Held(b)' = Held(b) /\ Held(b) \in Modes \union {"none"}
    BY <1>1, HeldIs, HeldIsNext, ModeIs, BlocksOfFile DEF MapInv, TypeOK
  <2> QED
    BY <1>4, <2>1 DEF RecordInv, ExcessOnlyMissed
<1>6. LooseCovered'
  <2> SUFFICES ASSUME known, NEW b \in AllBlocks, b \notin missed, NEW m \in Modes, Loose(b, m)'
               PROVE  Rank[m] <= Rank[record'[b]]
    BY <1>1 DEF LooseCovered, Covered
  <2>1. CASE Loose(b, m)
    BY <1>4, <2>1 DEF RecordInv, LooseCovered, Covered
  <2>2. CASE ~Loose(b, m)
    <3>1. PICK u \in Threads : Coming(u, b)' /\ m = job[u].mode /\ ~Coming(u, b)
      BY <1>1, <2>2 DEF Loose
    <3>2. u = t /\ b \in Blocks(token[t])
      BY <1>1, <1>2, <3>1 DEF Coming, Adding
    <3>3. record'[b] = m /\ Rank[m] \in Nat
      BY <1>1, <3>1, <3>2, Ranks DEF MapInv
    <3> QED
      BY <3>3
  <2> QED
    BY <2>1, <2>2
<1>7. RevokedGone'
  BY <1>1 DEF RevokedGone
<1> QED
  BY <1>5, <1>6, <1>7 DEF RecordInv

LEMMA RefusalCovers ==
  ASSUME MapInv, RecordInv, (\E t \in Threads : Nack(t)) \/ Delete
  PROVE  RecordInv'
<1>1. ~known' /\ rpc' = "idle"
  BY DEF Nack, Delete, revokeVars, managerVars
<1> QED
  BY <1>1 DEF RecordInv, ExcessOnlyMissed, LooseCovered, RevokedGone

LEMMA HandleRevokerCovers ==
  ASSUME MapInv, RecordInv, NEW v \in Access, HandleRevoker(v)
  PROVE  RecordInv'
<1>1. /\ revoke' = v /\ (rpc' = "answer" => v.mode = "w")
      /\ UNCHANGED << tok_map, pc, job, token, bl_int, rest, kept, record, known, missed >>
  BY DEF HandleRevoker, appVars, addVars, managerVars
<1>2. RevokedGone'
  BY <1>1 DEF RevokedGone
<1>3. ExcessOnlyMissed'
  BY <1>1, HeldIs, HeldIsNext DEF RecordInv, ExcessOnlyMissed
<1>4. LooseCovered'
  BY <1>1 DEF RecordInv, LooseCovered, Covered, Loose, Coming, Adding
<1> QED
  BY <1>2, <1>3, <1>4 DEF RecordInv

LEMMA RemoveDoneCovers ==
  ASSUME MapInv, RecordInv, RemoveDone
  PROVE  RecordInv'
<1>1. /\ FirstOverlap(tok_map, revoke.iv) = {} /\ rpc = "remove"
      /\ missed' = missed \union (OnTheWay \intersect Blocks(revoke.iv))
      /\ UNCHANGED << tok_map, pc, job, token, bl_int, rest, kept, revoke, record, known >>
  BY DEF RemoveDone, RevokerAt, appVars, addVars, managerVars
<1>2. \A b, m : Loose(b, m)' <=> Loose(b, m)
  BY <1>1 DEF Loose, Coming, Adding
<1>3. \A b : Held(b)' = Held(b)
  BY <1>1, HeldIs, HeldIsNext
<1>4. ExcessOnlyMissed' /\ LooseCovered'
  BY <1>1, <1>2, <1>3 DEF RecordInv, ExcessOnlyMissed, LooseCovered, Covered
<1>5. RevokedGone'
  <2> SUFFICES ASSUME NEW b \in Blocks(revoke.iv), b \notin missed'
               PROVE  Held(b) = "none" /\ \A m \in Modes : ~Loose(b, m)
    BY <1>1, <1>2, <1>3 DEF RevokedGone
  <2>1. b \notin OnTheWay /\ kept = {}
    BY <1>1 DEF MapInv, LeftoversUsed
  <2>2. tok_map \in SUBSET Access /\ Keyed(tok_map) /\ revoke.iv \in Interval /\ b \in Nat
    BY BlocksOfFile DEF MapInv, TypeOK, InFile, Access
  <2>3. \A e \in tok_map : ~Overlaps(e.iv, revoke.iv)
    BY <1>1, <2>2, FindsFirst
  <2>4. ASSUME NEW e \in tok_map PROVE b \notin Blocks(e.iv)
    <3>1. e.iv \in Interval
      BY <2>2 DEF Access
    <3> QED
      BY <2>2, <2>3, <3>1, OverlapsMeet
  <2>5. Held(b) = "none"
    BY <2>2, <2>4, ModeIs, HeldIs
  <2>6. (\A u \in Threads : ~Coming(u, b)) /\ \A e \in rest : b \notin Blocks(e.iv)
    BY <2>1, Zenon DEF OnTheWay, Coming
  <2> QED
    BY <2>1, <2>5, <2>6 DEF Loose
<1> QED
  BY <1>4, <1>5 DEF RecordInv

LEMMA AnswerCovers ==
  ASSUME MapInv, RecordInv, AnswerRevoke
  PROVE  RecordInv'
<1>1. /\ rpc = "answer" /\ rpc' = "idle"
      /\ missed' = (IF revoke.mode = "w" THEN missed \union Targets(revoke) ELSE missed)
      /\ record' = [b \in AllBlocks |-> IF b \in Targets(revoke) THEN "none" ELSE record[b]]
      /\ UNCHANGED << tok_map, pc, job, token, bl_int, rest, kept, known >>
  BY DEF AnswerRevoke, RevokerAt, appVars, addVars
<1>2. revoke.mode \in Modes
  BY DEF MapInv, TypeOK, Access
\* Off the blocks it has missed, a revocation forgets what is neither held nor loose.
<1>3. ASSUME NEW b \in AllBlocks, b \notin missed'
      PROVE  /\ b \notin missed
             /\ \/ record'[b] = record[b]
                \/ record'[b] = "none" /\ Held(b) = "none" /\ \A m \in Modes : ~Loose(b, m)
  <2>1. CASE b \notin Targets(revoke)
    BY <1>1, <1>3, <2>1
  <2>2. CASE b \in Targets(revoke)
    <3>1. revoke.mode = "r" /\ b \notin missed
      BY <1>1, <1>2, <1>3, <2>2 DEF Modes
    <3>2. b \in Blocks(revoke.iv)
      BY <2>2 DEF Targets
    <3>3. Held(b) = "none" /\ \A m \in Modes : ~Loose(b, m)
      BY <1>1, <3>1, <3>2 DEF RecordInv, RevokedGone
    <3> QED
      BY <1>1, <2>2, <3>1, <3>3
  <2> QED
    BY <2>1, <2>2
<1>4. ExcessOnlyMissed'
  <2> SUFFICES ASSUME known, NEW b \in AllBlocks, b \notin missed'
               PROVE  Rank[Held(b)] <= Rank[record'[b]]
    BY <1>1, HeldIs, HeldIsNext DEF ExcessOnlyMissed
  <2>1. Rank["none"] = 0
    BY Ranks DEF MapInv
  <2> QED
    BY <1>3, <2>1 DEF RecordInv, ExcessOnlyMissed
<1>5. LooseCovered'
  <2> SUFFICES ASSUME known, NEW b \in AllBlocks, b \notin missed', NEW m \in Modes, Loose(b, m)
               PROVE  Rank[m] <= Rank[record'[b]]
    BY <1>1 DEF LooseCovered, Covered, Loose, Coming, Adding
  <2> QED
    BY <1>3 DEF RecordInv, LooseCovered, Covered
<1>6. RevokedGone'
  BY <1>1 DEF RevokedGone
<1> QED
  BY <1>4, <1>5, <1>6 DEF RecordInv

LEMMA RecordInvNext ==
  ASSUME MapInv, MapInv', RecordInv, [Next]_vars
  PROVE  RecordInv'
<1>1. ASSUME NEW t \in Threads, NEW j \in Jobs, Call(t, j) PROVE RecordInv'
  BY <1>1, OutsideSteady, SteadyKeeps
<1>2. ASSUME NEW t \in Threads, Library(t) PROVE RecordInv'
  BY <1>2, OutsideSteady, LoopSteady, ReinsertSteady, MergeSteady, InsertSteady, SteadyKeeps DEF Library
<1>3. ASSUME NEW t \in Threads, Manager(t) PROVE RecordInv'
  <2>1. CASE RevokeForThread(t)
    <3>1. PICK v \in Access : v = [iv |-> token[t], mode |-> job[t].mode]
      BY DEF MapInv, TypeOK, Access
    <3> QED
      BY <2>1, <3>1, HandleRevokerCovers DEF RevokeForThread
  <2> QED
    BY <1>3, <2>1, GrantCovers, RefusalCovers DEF Manager
<1>4. ASSUME NEW v \in Revocations, RevokeForOther(v) PROVE RecordInv'
  BY <1>4, HandleRevokerCovers, BlocksOfFile DEF RevokeForOther
<1>5. ASSUME Revoker PROVE RecordInv'
  BY <1>5, RemoveSteady, KeepRestSteady, SteadyKeeps, RemoveDoneCovers, AnswerCovers DEF Revoker
<1> QED
  BY <1>1, <1>2, <1>3, <1>4, <1>5, EndSteady, SteadyKeeps, RefusalCovers DEF Next

LEMMA RecordInvInit ==
  ASSUME Init
  PROVE  RecordInv
<1>1. \A b : Held(b) = "none"
  BY DEF Init, Held, Entry, FirstOverlap
<1>2. \A b \in AllBlocks : record[b] = "none"
  BY DEF Init
<1>3. Rank["none"] = 0
  BY DEF Rank
<1>4. ExcessOnlyMissed
  BY <1>1, <1>2, <1>3 DEF ExcessOnlyMissed
<1>5. LooseCovered
  BY DEF Init, LooseCovered, Loose, Coming, Adding
<1>6. RevokedGone
  BY DEF Init, RevokedGone
<1> QED
  BY <1>4, <1>5, <1>6 DEF RecordInv
-----------------------------------------------------------------------------
(* ExactInv is kept.                                                        *)

LEMMA HeldAllIs == \A b : HeldAll(b) = ModeIn(Full, b) /\ HeldAll(b)' = ModeIn(Full', b)
  BY DEF HeldAll, ModeIn, EntryIn

\* With nothing left to insert the map is all there is.
LEMMA NothingLeft ==
  /\ rest = {} /\ kept = {} => Full = tok_map /\ \A b : HeldAll(b) = Held(b)
  /\ rest' = {} /\ kept' = {} => Full' = tok_map' /\ \A b : HeldAll(b)' = Held(b)'
<1>1. rest = {} /\ kept = {} => Full = tok_map
  BY DEF Full
<1>2. rest' = {} /\ kept' = {} => Full' = tok_map'
  BY DEF Full
<1> QED
  BY <1>1, <1>2, HeldAllIs, HeldIs, HeldIsNext

\* Off the revoker's own steps, the revocation goes on as it was.
LEMMA RemoveFrame ==
  ASSUME RemoveInv, UNCHANGED << tok_map, rest, kept, before, revoke >>
  PROVE  RemoveInv'
<1>1. Full' = Full
  BY DEF Full
<1>2. \A b : HeldAll(b)' = HeldAll(b)
  BY <1>1, HeldAllIs
<1> QED
  BY <1>1, <1>2 DEF RemoveInv

\* Steps that are not about the thread that adds.
LEMMA ExactFrame ==
  ASSUME ExactInv,
         \A u \in Threads : Adding(u)' /\ quiet' =>
           /\ quiet /\ rpc' \notin {"remove", "reinsert"}
           /\ pc'[u] = pc[u] /\ job'[u] = job[u] /\ token'[u] = token[u]
           /\ UNCHANGED << tok_map, rest, kept, bl_int, dont_add, before, putback >>,
         quiet' /\ rpc' \in {"remove", "reinsert"} => RemoveInv'
  PROVE  ExactInv'
<1> SUFFICES ASSUME NEW u \in Threads, Adding(u)', quiet'
             PROVE  AddInv(u)'
  BY DEF ExactInv
<1>1. /\ quiet /\ rpc' \notin {"remove", "reinsert"}
      /\ pc'[u] = pc[u] /\ job'[u] = job[u] /\ token'[u] = token[u]
      /\ UNCHANGED << tok_map, rest, kept, bl_int, dont_add, before, putback >>
  OBVIOUS
<1>2. Adding(u)
  BY <1>1 DEF Adding
<1>3. Full' = Full
  BY <1>1 DEF Full
<1>4. \A b : HeldAll(b)' = HeldAll(b) /\ Final(u, b)' = Final(u, b)
  BY <1>1, <1>3, HeldAllIs DEF Final
<1>5. LosesTokens(u)' <=> LosesTokens(u)
  BY <1>1 DEF LosesTokens
<1>6. /\ Whole(u)' <=> Whole(u)
      /\ Outer(u)' <=> Outer(u)
      /\ Inner(u)' <=> Inner(u)
      /\ Given(u)' <=> Given(u)
      /\ Beyond(u)' <=> Beyond(u)
      /\ Cleared(u)' <=> Cleared(u)
      /\ Keyed(Full)' <=> Keyed(Full)
  BY <1>1, <1>3, <1>4 DEF Whole, Outer, Inner, Given, Beyond, Cleared, Keyed
<1>7. AddInv(u)
  BY <1>1, <1>2 DEF ExactInv
<1> QED
  BY <1>1, <1>5, <1>6, <1>7 DEF AddInv

\* Nothing but the steps of the thread that adds is about it.
LEMMA OthersExact ==
  ASSUME MapInv, ExactInv, NEW t \in Threads,
         \/ \E j \in Jobs : Call(t, j)
         \/ CheckTokens(t) \/ ScanStep(t) \/ ScanDone(t) \/ FinishCall(t) \/ Grant(t) \/ Nack(t)
  PROVE  ExactInv'
<1>1. UNCHANGED << tok_map, rest, kept, bl_int, dont_add, before, putback, quiet, rpc, revoke >>
  BY DEF Call, CheckTokens, ScanStep, ScanDone, FinishCall, Grant, Nack, addVars, revokeVars, historyVars
<1>2. ~Adding(t)' /\ \A u \in Threads : u # t => pc'[u] = pc[u] /\ job'[u] = job[u] /\ token'[u] = token[u]
  <2>1. \/ GoTo(t, "need") \/ GoTo(t, "scan") \/ GoTo(t, "asked") \/ GoTo(t, "io") \/ GoTo(t, "idle")
        \/ GoTo(t, "granted")
        \/ UNCHANGED pc /\ pc[t] = "scan"
    BY DEF Call, CheckTokens, ScanStep, ScanDone, Ask, FinishCall, Grant, Nack, At
  <2>2. /\ pc'[t] \in {"need", "scan", "asked", "io", "idle", "granted"}
        /\ \A u \in Threads : u # t => pc'[u] = pc[u]
    BY <2>1, Went DEF MapInv, PCs
  <2>3. \A u \in Threads : u # t => job'[u] = job[u] /\ token'[u] = token[u]
    BY DEF Call, CheckTokens, ScanStep, ScanDone, Ask, FinishCall, Grant, Nack, MapInv, TypeOK
  <2> QED
    BY <2>2, <2>3 DEF Adding
<1>3. \A u \in Threads : Adding(u)' /\ quiet' =>
        /\ quiet /\ rpc' \notin {"remove", "reinsert"}
        /\ pc'[u] = pc[u] /\ job'[u] = job[u] /\ token'[u] = token[u]
        /\ UNCHANGED << tok_map, rest, kept, bl_int, dont_add, before, putback >>
  BY <1>1, <1>2 DEF ExactInv, AddInv, Adding
<1>4. quiet' /\ rpc' \in {"remove", "reinsert"} => RemoveInv'
  BY <1>1, RemoveFrame DEF ExactInv
<1> QED
  BY <1>3, <1>4, ExactFrame

\* The revoker starts with the map as it is.
LEMMA HandleRevokerExact ==
  ASSUME MapInv, ExactInv, NEW v \in Access, HandleRevoker(v)
  PROVE  ExactInv'
<1>1. /\ rpc = "idle" /\ kept = {} /\ kept' = {}
      /\ UNCHANGED << tok_map, rest, pc, job, token, bl_int, dont_add, putback >>
  BY DEF HandleRevoker, RevokerAt, appVars, addVars, MapInv, LeftoversUsed
<1>2. CASE rpc' = "answer" /\ UNCHANGED << before, quiet >>
  BY <1>1, <1>2, ExactFrame DEF Adding
<1>3. CASE /\ rpc' = "remove" /\ before' = HeldMap
           /\ quiet' = (\A t \in Threads : ~Adding(t))
  <2>1. \A u \in Threads : quiet' => ~Adding(u)'
    BY <1>1, <1>3 DEF Adding
  <2>2. ASSUME quiet' PROVE RemoveInv'
    <3>1. rest = {} /\ rest' = {}
      BY <1>1, <1>3, <2>2 DEF MapInv, LeftoversUsed, Adding
    <3>2. Full' = tok_map /\ \A b : HeldAll(b)' = Held(b)
      BY <1>1, <3>1, NothingLeft, HeldIs, HeldIsNext
    <3>3. \A b \in AllBlocks : before'[b] = Held(b)
      BY <1>3 DEF HeldMap
    <3> QED
      BY <3>2, <3>3 DEF RemoveInv, MapInv, Keyed
  <2> QED
    BY <2>1, <2>2, ExactFrame
<1> QED
  BY <1>2, <1>3 DEF HandleRevoker

\* What it erases it takes up, and that is all of the map with what it has not put back.
LEMMA RemoveStepExact ==
  ASSUME MapInv, ExactInv, RemoveStep
  PROVE  ExactInv'
<1>1. /\ rpc = "remove" /\ kept = {} /\ UNCHANGED << pc, quiet, rest, before, revoke >>
  BY RemoveStepIs DEF RemoveStep, appVars, addVars, historyVars
<1>2. quiet => \A u \in Threads : ~Adding(u)
  BY <1>1 DEF ExactInv, AddInv
<1>3. ASSUME quiet PROVE RemoveInv'
  <2>1. rest = {} /\ rest' = {}
    BY <1>1, <1>2, <1>3 DEF MapInv, LeftoversUsed, Adding
  <2>2. RemoveInv /\ Full = tok_map
    BY <1>1, <1>3, <2>1, NothingLeft DEF ExactInv
  <2>3. PICK o \in tok_map : /\ o \in Access /\ Overlaps(o.iv, revoke.iv) /\ revoke.iv \in Interval
                             /\ tok_map' = tok_map \ {o} /\ kept' = Remainders(o, revoke.iv)
    BY RemoveStepIs
  <2>4. Full' = Carve(tok_map, o, revoke.iv)
    BY <2>1, <2>3 DEF Full, Carve
  <2>5. /\ Keyed(Full')
        /\ \A b \in Nat : b \notin Blocks(revoke.iv) => ModeIn(Full', b) = ModeIn(tok_map, b)
    BY <2>3, <2>4, Carved DEF MapInv, TypeOK
  <2>6. \A b \in AllBlocks \ Blocks(revoke.iv) : HeldAll(b)' = HeldAll(b)
    BY <2>2, <2>5, HeldAllIs, BlocksOfFile
  <2> QED
    BY <1>1, <2>2, <2>5, <2>6 DEF RemoveInv, Keyed
<1> QED
  BY <1>1, <1>2, <1>3, ExactFrame DEF Adding

\* Alone, it can put back what it has taken up.
LEMMA KeepRestExact ==
  ASSUME MapInv, ExactInv, KeepRest
  PROVE  ExactInv'
<1>1. /\ rpc = "reinsert" /\ UNCHANGED << pc, quiet, rest, before, revoke >>
  BY DEF KeepRest, RevokerAt, appVars, addVars
<1>2. quiet => \A u \in Threads : ~Adding(u)
  BY <1>1 DEF ExactInv, AddInv
<1>3. ASSUME quiet PROVE RemoveInv'
  <2>1. RemoveInv
    BY <1>1, <1>3 DEF ExactInv
  <2>2. PICK e \in kept : e \in Access /\ tok_map' = Insert(tok_map, e) /\ kept' = kept \ {e}
    BY KeepRestIs
  <2>3. Full' = Full
    <3>1. CASE e \in tok_map
      <4>1. Overlaps(e.iv, e.iv)
        BY <2>2 DEF Access, Interval, Overlaps, Before
      <4>2. tok_map' = tok_map
        BY <2>2, <3>1, <4>1, Inserted DEF MapInv, TypeOK
      <4> QED
        BY <1>1, <2>2, <3>1, <4>2 DEF Full
    <3>2. CASE e \notin tok_map
      <4>1. \A d \in tok_map : ~Overlaps(d.iv, e.iv)
        BY <2>1, <2>2, <3>2 DEF RemoveInv, Keyed, Full
      <4>2. tok_map' = tok_map \union {e}
        BY <2>2, <4>1, Inserted DEF MapInv, TypeOK
      <4> QED
        BY <1>1, <2>2, <4>2 DEF Full
    <3> QED
      BY <3>1, <3>2
  <2>4. \A b : HeldAll(b)' = HeldAll(b)
    BY <2>3, HeldAllIs
  <2> QED
    BY <1>1, <2>1, <2>3, <2>4 DEF RemoveInv
<1> QED
  BY <1>1, <1>2, <1>3, ExactFrame DEF Adding

\* The other steps of the revoker and of the manager.
LEMMA IdleExact ==
  ASSUME MapInv, ExactInv,
         \/ RemoveDone \/ AnswerRevoke \/ Delete \/ UNCHANGED vars
         \/ \E t \in Threads : RaceInMap(t)
  PROVE  ExactInv'
<1>1. UNCHANGED << pc, job, token, tok_map, rest, kept, bl_int, dont_add, putback, quiet >>
  BY DEF RemoveDone, AnswerRevoke, Delete, vars, RaceInMap, appVars, addVars, revokeVars, historyVars
<1>2. \/ rpc = "remove" /\ rpc' = "answer"
      \/ UNCHANGED before /\ rpc' = "idle"
      \/ UNCHANGED << before, rpc, revoke >>
  BY DEF RemoveDone, AnswerRevoke, RevokerAt, Delete, vars, RaceInMap, revokeVars, historyVars
<1>3. \A u \in Threads : Adding(u)' /\ quiet' =>
        /\ quiet /\ rpc' \notin {"remove", "reinsert"}
        /\ pc'[u] = pc[u] /\ job'[u] = job[u] /\ token'[u] = token[u]
        /\ UNCHANGED << tok_map, rest, kept, bl_int, dont_add, before, putback >>
  BY <1>1, <1>2 DEF ExactInv, AddInv, Adding
<1>4. quiet' /\ rpc' \in {"remove", "reinsert"} => RemoveInv'
  BY <1>1, <1>2, RemoveFrame DEF ExactInv
<1> QED
  BY <1>3, <1>4, ExactFrame

LEMMA StartExact ==
  ASSUME MapInv, ExactInv, NEW t \in Threads, StartAdd(t)
  PROVE  ExactInv'
<1>1. /\ file_desc_mutex = Free /\ GoTo(t, "add") /\ bl_int' = token[t] /\ dont_add' = FALSE
      /\ before' = HeldMap /\ quiet' = (rpc \notin {"remove", "reinsert"}) /\ putback' = {}
      /\ UNCHANGED << tok_map, rest, kept, job, token, rpc >>
  BY DEF StartAdd, revokeVars
<1>2. pc'[t] = "add" /\ \A u \in Threads : u # t => ~Adding(u)'
  BY <1>1, Went, NoneInside DEF MapInv, PCs, Adding
<1>3. Blocks(token[t]) \subseteq AllBlocks
  BY DEF MapInv, InFile
<1>4. rest = {} /\ (quiet' => kept = {})
  BY <1>1, NoneInside DEF MapInv, LeftoversUsed, Adding
<1>5. ASSUME quiet' PROVE AddInv(t)'
  <2>1. Full' = tok_map /\ \A b : HeldAll(b)' = Held(b)
    BY <1>1, <1>4, <1>5, NothingLeft, HeldIs, HeldIsNext
  <2>2. \A b \in AllBlocks : before'[b] = HeldAll(b)'
    BY <1>1, <2>1 DEF HeldMap
  <2>3. \A b : Final(t, b)' = IF b \in Blocks(token[t]) /\ before'[b] # "w" THEN job[t].mode ELSE before'[b]
    BY <1>1 DEF Final
  <2>4. Outer(t)'
    BY <1>1, <2>2, <2>3 DEF Outer
  <2>5. Inner(t)'
    BY <1>1, <1>3, <2>2, <2>3 DEF Inner
  <2>6. Whole(t)' /\ Beyond(t)' /\ Given(t)'
    BY <1>1 DEF Whole, Beyond, Given
  <2>7. Keyed(Full)'
    BY <2>1 DEF MapInv, Keyed
  <2> QED
    BY <1>1, <1>2, <1>5, <2>4, <2>5, <2>6, <2>7 DEF AddInv
<1> QED
  BY <1>1, <1>2, <1>5 DEF ExactInv, AddInv

\* What addPermission works with.
LEMMA AddFacts ==
  ASSUME MapInv, NEW t \in Threads, Adding(t)
  PROVE  /\ tok_map \in SUBSET Access /\ Keyed(tok_map) /\ bl_int \in Interval /\ token[t] \in Interval
         /\ job[t].mode \in Modes
         /\ AllBlocks \subseteq Nat /\ Blocks(bl_int) \subseteq AllBlocks /\ Blocks(token[t]) \subseteq AllBlocks
         /\ \A o \in tok_map : o.iv \in Interval /\ o.mode \in Modes /\ Blocks(o.iv) \subseteq AllBlocks
         /\ \A o \in tok_map : \A b \in Blocks(o.iv) : Held(b) = o.mode
<1>1. /\ tok_map \in SUBSET Access /\ Keyed(tok_map) /\ bl_int \in Interval /\ token[t] \in Interval
      /\ job[t].mode \in Modes
      /\ Blocks(bl_int) \subseteq AllBlocks /\ Blocks(token[t]) \subseteq AllBlocks
      /\ \A o \in tok_map : o.iv \in Interval /\ o.mode \in Modes /\ Blocks(o.iv) \subseteq AllBlocks
  BY LoopFacts
<1>2. AllBlocks \subseteq Nat
  BY BlocksOfFile
<1>3. \A o \in tok_map : \A b \in Blocks(o.iv) : Held(b) = o.mode
  BY <1>1, <1>2, ModeIs, HeldIs
<1> QED
  BY <1>1, <1>2, <1>3

\* Where an iteration leaves the new interval and the blocks.
LoopExactly(t) == Whole(t)' /\ Beyond(t)' /\ Outer(t)' /\ Inner(t)' /\ Given(t)' /\ Keyed(Full')

LEMMA LoopExact ==
  ASSUME MapInv, MapInv', ExactInv, NEW t \in Threads, AddStep(t), quiet
  PROVE  LoopExactly(t)
<1>1. /\ pc[t] = "add" /\ Adding(t) /\ rest = {} /\ UNCHANGED << job, token, before, kept, rpc >>
  BY AddStepKeeps DEF AddStep, revokeVars, historyVars, Adding
<1>2. Whole(t) /\ Outer(t) /\ Inner(t) /\ Given(t) /\ Beyond(t) /\ kept = {} /\ kept' = {}
  BY <1>1 DEF ExactInv, AddInv, MapInv, LeftoversUsed
<1>3. \A b : Final(t, b)' = Final(t, b)
  BY <1>1 DEF Final
<1>4. /\ \A b : HeldAll(b) = Held(b)
      /\ rest' = {} => Full' = tok_map' /\ \A b : HeldAll(b)' = Held(b)'
  BY <1>1, <1>2, NothingLeft
<1>5. rest' = {} => Keyed(Full')
  BY <1>4 DEF MapInv, Keyed
<1>6. CASE NothingFound(t) \/ KeepsCover(t)
  <2>1. rest' = {} /\ UNCHANGED << tok_map, bl_int >> /\ \A b : HeldAll(b)' = HeldAll(b)
    BY <1>4, <1>6, HeldIs, HeldIsNext DEF NothingFound, KeepsCover
  <2>2. Whole(t)' /\ Beyond(t)' /\ Outer(t)' /\ Inner(t)'
    BY <1>1, <1>2, <1>3, <2>1 DEF Whole, Beyond, Outer, Inner
  <2>3. Given(t)'
    <3>1. CASE UNCHANGED dont_add
      BY <1>1, <1>2, <2>1, <3>1 DEF Given
    <3>2. CASE KeepsCover(t)
      BY <1>1, <2>1, <3>2 DEF Given, KeepsCover
    <3> QED
      BY <1>6, <3>1, <3>2 DEF NothingFound
  <2> QED
    BY <1>5, <2>1, <2>2, <2>3 DEF LoopExactly
\* Once a token has been found to cover the new one, it is found every time.
<1>7. ASSUME NEW o \in tok_map, Overlaps(o.iv, bl_int), dont_add
      PROVE  ~TakesFromReader(t, o) /\ ~Absorbs(t, o) /\ ~GoesAround(t, o)
  <2>1. PICK c \in tok_map : /\ Covers(c.iv, bl_int) /\ c.mode \in {"w", job[t].mode}
                             /\ c.iv # bl_int \/ c.mode # job[t].mode
    BY <1>2, <1>7 DEF Given
  <2>2. Overlaps(c.iv, o.iv)
    BY <1>1, <1>7, <2>1, AddFacts DEF Covers, Interval, Overlaps, Before
  <2>3. c = o
    BY <1>1, <2>1, <2>2, AddFacts DEF Keyed
  <2> QED
    BY <2>1, <2>3 DEF TakesFromReader, Absorbs, GoesAround
<1>8. ASSUME NEW o \in tok_map, Overlaps(o.iv, bl_int), TakesFromReader(t, o)
      PROVE  LoopExactly(t)
  <2>1. Given(t)'
    BY <1>7, <1>8 DEF Given, TakesFromReader
  <2>2. bl_int' = bl_int /\ job[t].mode = "w" /\ o.mode = "r"
    BY <1>8 DEF TakesFromReader
  <2>3. Full' = Carve(tok_map, o, bl_int)
    BY <1>2, <1>8 DEF TakesFromReader, Full, Carve
  <2>4. /\ Keyed(Full')
        /\ \A b \in Nat :
             /\ b \in Blocks(o.iv) /\ b \in Blocks(bl_int) => ModeIn(Full', b) = "none"
             /\ ~(b \in Blocks(o.iv) /\ b \in Blocks(bl_int)) => ModeIn(Full', b) = ModeIn(tok_map, b)
    BY <1>1, <1>8, <2>3, AddFacts, Carved
  <2>5. \A b \in AllBlocks : HeldAll(b)' = HeldAll(b) \/ (b \in Blocks(bl_int) /\ HeldAll(b)' = "none")
    BY <1>1, <1>4, <2>4, AddFacts, HeldAllIs, HeldIs
  <2>6. Outer(t)'
    BY <1>2, <1>3, <2>2, <2>5 DEF Outer
  <2>7. Inner(t)'
    <3> SUFFICES ASSUME NEW b \in Blocks(bl_int) PROVE Final(t, b) = IF HeldAll(b)' = "w" THEN "w" ELSE job[t].mode
      BY <1>1, <1>3, <2>2 DEF Inner
    <3>1. Final(t, b) = "w"
      BY <1>2, <2>2 DEF Inner
    <3> QED
      BY <2>2, <3>1
  <2>8. Beyond(t)'
    BY <1>1, <1>2, <2>2, <2>5, AddFacts DEF Beyond
  <2> QED
    BY <1>1, <1>2, <2>1, <2>2, <2>4, <2>6, <2>7, <2>8 DEF Whole, LoopExactly
<1>9. ASSUME NEW o \in tok_map, Overlaps(o.iv, bl_int), Absorbs(t, o)
      PROVE  LoopExactly(t)
  <2>1. Given(t)' /\ rest' = {}
    BY <1>7, <1>9 DEF Given, Absorbs
  <2>2. o.mode = job[t].mode /\ \A b : b \in Blocks(bl_int') <=> b \in Blocks(o.iv) \/ b \in Blocks(bl_int)
    BY <1>1, <1>9, AddFacts, HullIs DEF Absorbs
  <2>3. \A b \in AllBlocks : /\ b \in Blocks(o.iv) => HeldAll(b)' = "none" /\ HeldAll(b) = job[t].mode
                             /\ b \notin Blocks(o.iv) => HeldAll(b)' = HeldAll(b)
    BY <1>1, <1>4, <1>9, <2>1, <2>2, MapErases, AddFacts DEF Absorbs
  <2>4. Outer(t)'
    <3> SUFFICES ASSUME NEW b \in AllBlocks, b \notin Blocks(bl_int') PROVE HeldAll(b)' = Final(t, b)
      BY <1>3 DEF Outer
    <3> QED
      BY <1>2, <2>2, <2>3 DEF Outer
  <2>5. Inner(t)'
    <3> SUFFICES ASSUME NEW b \in Blocks(bl_int') PROVE Final(t, b) = IF HeldAll(b)' = "w" THEN "w" ELSE job[t].mode
      BY <1>1, <1>3 DEF Inner
    <3>1. b \in AllBlocks
      BY <1>1, <2>2, AddFacts
    <3>2. CASE b \in Blocks(bl_int)
      BY <1>2, <2>2, <2>3, <3>1, <3>2 DEF Inner
    <3>3. CASE b \notin Blocks(bl_int)
      BY <1>2, <2>2, <2>3, <3>1, <3>3 DEF Outer
    <3> QED
      BY <3>2, <3>3
  <2>6. Whole(t)'
    BY <1>1, <1>2, <2>2 DEF Whole
  <2>7. Beyond(t)'
    <3> SUFFICES ASSUME NEW b \in Blocks(bl_int'), b \notin Blocks(token[t]) PROVE HeldAll(b)' = "none"
      BY <1>1 DEF Beyond
    <3>1. b \in AllBlocks
      BY <1>1, <2>2, AddFacts
    <3> QED
      BY <1>2, <2>2, <2>3, <3>1 DEF Beyond
  <2> QED
    BY <1>5, <2>1, <2>4, <2>5, <2>6, <2>7 DEF LoopExactly
<1>10. ASSUME NEW o \in tok_map, Overlaps(o.iv, bl_int), GoesAround(t, o)
       PROVE  LoopExactly(t)
  <2>1. Given(t)' /\ rest' = {}
    BY <1>7, <1>10 DEF Given, GoesAround
  <2>2. /\ o.mode = "w" /\ job[t].mode = "r"
        /\ Blocks(bl_int') \subseteq Blocks(bl_int) \ Blocks(o.iv)
    BY <1>10 DEF GoesAround
  <2>3. \A b \in AllBlocks :
          /\ b \in Blocks(bl_int) /\ b \notin Blocks(bl_int') /\ b \notin Blocks(o.iv) =>
               HeldAll(b) = "none" /\ HeldAll(b)' = "r"
          /\ ~(b \in Blocks(bl_int) /\ b \notin Blocks(bl_int') /\ b \notin Blocks(o.iv)) =>
               HeldAll(b)' = HeldAll(b)
    BY <1>1, <1>4, <1>10, <2>1, AddFacts DEF GoesAround
  <2>4. \A b \in Blocks(o.iv) : HeldAll(b) = "w"
    BY <1>1, <1>4, <2>2, AddFacts
  <2>5. Outer(t)'
    <3> SUFFICES ASSUME NEW b \in AllBlocks, b \notin Blocks(bl_int') PROVE HeldAll(b)' = Final(t, b)
      BY <1>3 DEF Outer
    <3>1. CASE b \notin Blocks(bl_int)
      BY <1>2, <2>2, <2>3, <3>1 DEF Outer
    <3>2. CASE b \in Blocks(bl_int) /\ b \in Blocks(o.iv)
      BY <1>2, <2>2, <2>3, <2>4, <3>2 DEF Inner
    <3>3. CASE b \in Blocks(bl_int) /\ b \notin Blocks(o.iv)
      BY <1>2, <2>2, <2>3, <3>3 DEF Inner
    <3> QED
      BY <3>1, <3>2, <3>3
  <2>6. \A b \in Blocks(bl_int') : b \in Blocks(bl_int) /\ HeldAll(b)' = HeldAll(b)
    BY <1>1, <2>2, <2>3, AddFacts
  <2>7. Inner(t)' /\ Beyond(t)'
    BY <1>1, <1>2, <1>3, <2>6 DEF Inner, Beyond
  <2>8. Whole(t)'
    <3>1. PICK b : b \in Blocks(o.iv) /\ b \in Blocks(bl_int)
      BY <1>1, <1>10, AddFacts, OverlapsMeet
    <3>2. HeldAll(b) = "w" /\ b \in Blocks(token[t])
      BY <1>2, <2>4, <3>1 DEF Beyond
    <3>3. before[b] = "w"
      BY <1>2, <2>2, <3>1, <3>2 DEF Inner, Final
    <3> QED
      BY <1>1, <2>2, <3>2, <3>3 DEF Whole
  <2> QED
    BY <1>5, <2>1, <2>5, <2>7, <2>8 DEF LoopExactly
<1> QED
  BY <1>6, <1>8, <1>9, <1>10, LoopIs

\* A step of the thread that adds is about nobody else.
LEMMA AdderExact ==
  ASSUME MapInv, NEW t \in Threads, Adding(t), \A u \in Threads : u # t => pc'[u] = pc[u],
         ExactInv, UNCHANGED << quiet, rpc >>,
         quiet /\ Adding(t)' => AddInv(t)'
  PROVE  ExactInv'
<1>1. \A u \in Threads : u # t => ~Adding(u)'
  BY OneInside DEF MapInv, Inside, Adding
<1>2. quiet => rpc \notin {"remove", "reinsert"}
  BY DEF ExactInv, AddInv
<1> QED
  BY <1>1, <1>2 DEF ExactInv

LEMMA LoopStepExact ==
  ASSUME MapInv, MapInv', ExactInv, NEW t \in Threads, AddStep(t)
  PROVE  ExactInv'
<1>1. Adding(t) /\ pc[t] = "add" /\ UNCHANGED << quiet, rpc, putback >>
  BY DEF AddStep, At, Adding, revokeVars, historyVars
<1>2. pc'[t] \in {"add", "reinsert", "finish"} /\ \A u \in Threads : u # t => pc'[u] = pc[u]
  <2>1. pc'[t] \in {"add", "reinsert", "finish"} /\ pc' = [pc EXCEPT ![t] = pc'[t]]
    BY AddStepKeeps DEF LoopResult
  <2> QED
    BY <2>1 DEF MapInv, TypeOK
<1>3. quiet => LoopExactly(t)
  BY LoopExact
<1>4. quiet => putback = {} /\ rpc \notin {"remove", "reinsert"}
  BY <1>1 DEF ExactInv, AddInv
<1>5. quiet => AddInv(t)'
  BY <1>1, <1>2, <1>3, <1>4 DEF LoopExactly, AddInv, Keyed
<1> QED
  BY <1>1, <1>2, <1>5, AdderExact

\* What is left of an erased token finds its place again: nothing else has changed.
LEMMA ReinsertExact ==
  ASSUME MapInv, ExactInv, NEW t \in Threads, Reinsert(t)
  PROVE  ExactInv'
<1>1. /\ pc[t] = "reinsert" /\ Adding(t) /\ pc'[t] \in {"add", "reinsert"}
      /\ \A u \in Threads : u # t => pc'[u] = pc[u]
      /\ UNCHANGED << job, token, bl_int, dont_add, rpc, kept, before, quiet, putback >>
  BY ReinsertIs
<1>2. ASSUME quiet PROVE AddInv(t)'
  <2>1. AddInv(t) /\ Keyed(Full)
    BY <1>1, <1>2 DEF ExactInv, AddInv
  <2>2. PICK e \in rest : e \in Access /\ tok_map' = Insert(tok_map, e) /\ rest' = rest \ {e}
    BY ReinsertIs
  <2>3. Full' = Full /\ tok_map \subseteq tok_map'
    <3>1. CASE e \in tok_map
      <4>1. Overlaps(e.iv, e.iv)
        BY <2>2 DEF Access, Interval, Overlaps, Before
      <4>2. tok_map' = tok_map
        BY <2>2, <3>1, <4>1, Inserted DEF MapInv, TypeOK
      <4> QED
        BY <1>1, <2>2, <3>1, <4>2 DEF Full
    <3>2. CASE e \notin tok_map
      <4>1. \A d \in tok_map : ~Overlaps(d.iv, e.iv)
        BY <2>1, <2>2, <3>2 DEF Keyed, Full
      <4>2. tok_map' = tok_map \union {e}
        BY <2>2, <4>1, Inserted DEF MapInv, TypeOK
      <4> QED
        BY <1>1, <2>2, <4>2 DEF Full
    <3> QED
      BY <3>1, <3>2
  <2>4. \A b : HeldAll(b)' = HeldAll(b) /\ Final(t, b)' = Final(t, b)
    BY <1>1, <2>3, HeldAllIs DEF Final
  <2>5. Whole(t)' /\ Beyond(t)' /\ Outer(t)' /\ Inner(t)' /\ Given(t)'
    BY <1>1, <2>1, <2>3, <2>4 DEF AddInv, Whole, Beyond, Outer, Inner, Given
  <2> QED
    BY <1>1, <2>1, <2>3, <2>5 DEF AddInv, Keyed
<1> QED
  BY <1>1, <1>2, AdderExact

\* The loop has left nothing in the way of the new token.
LEMMA FinishExact ==
  ASSUME MapInv, ExactInv, NEW t \in Threads, FinishAdd(t)
  PROVE  ExactInv'
<1>1. /\ Adding(t) /\ Inside(t) /\ pc[t] = "finish"
      /\ UNCHANGED << tok_map, job, rest, kept, rpc, quiet >>
  BY DEF FinishAdd, At, Inside, Adding, revokeVars
<1>2. CASE Return(t)
  <2>1. ~Adding(t)' /\ \A u \in Threads : u # t => pc'[u] = pc[u]
    BY <1>1, <1>2, Returned
  <2> QED
    BY <1>1, <2>1, AdderExact
<1>3. CASE /\ ~dont_add /\ ~Surprised(t) /\ GoTo(t, "right")
           /\ UNCHANGED << token, bl_int, dont_add, before, putback >>
  <2>1. pc'[t] = "right" /\ \A u \in Threads : u # t => pc'[u] = pc[u]
    BY <1>3, Went DEF MapInv, PCs
  <2>2. FirstOverlap(tok_map, bl_int) = {}
    BY <1>1, <1>3 DEF Surprised
  <2>3. \A o \in tok_map : ~Overlaps(o.iv, bl_int)
    BY <1>1, <2>2, AddFacts, FindsFirst
  <2>4. ASSUME NEW b \in Blocks(bl_int) PROVE Held(b) = "none"
    <3>1. \A o \in tok_map : b \notin Blocks(o.iv)
      BY <1>1, <2>3, AddFacts, OverlapsMeet
    <3> QED
      BY <1>1, <3>1, AddFacts, ModeIs, HeldIs
  <2>5. ASSUME quiet PROVE AddInv(t)'
    <3>1. AddInv(t) /\ Whole(t) /\ Outer(t) /\ Inner(t)
      BY <1>1, <2>5 DEF ExactInv, AddInv
    <3>2. rest = {} /\ kept = {}
      BY <1>1, <3>1, NoRest DEF AddInv, MapInv, LeftoversUsed
    <3>3. \A b : HeldAll(b) = Held(b) /\ HeldAll(b)' = HeldAll(b) /\ Final(t, b)' = Final(t, b)
      BY <1>1, <1>3, <3>2, NothingLeft, HeldIs, HeldIsNext DEF Final
    <3>4. Whole(t)' /\ Outer(t)'
      BY <1>1, <1>3, <3>1, <3>3 DEF Whole, Outer
    <3>5. Cleared(t)'
      BY <1>1, <1>3, <2>4, <3>1, <3>3 DEF Cleared, Inner
    <3> QED
      BY <1>1, <1>3, <2>1, <3>1, <3>4, <3>5 DEF AddInv
  <2> QED
    BY <1>1, <2>1, <2>5, AdderExact
<1> QED
  BY <1>2, <1>3 DEF FinishAdd

\* A merge changes no block: what it takes out of the map is in the new interval.
LEMMA Merged ==
  ASSUME MapInv, NEW t \in Threads, Adding(t), NEW o \in tok_map, MergeResult(t, o),
         UNCHANGED << job, token, before, rest, kept >>, rest = {}, kept = {},
         NEW e \in Blocks(o.iv), e \in {token[t].m_start - 1, token[t].m_end + 1},
         Outer(t), Cleared(t),
         \A b : b \in Blocks(bl_int') <=> b \in Blocks(bl_int) \/ b \in Blocks(o.iv)
  PROVE  Outer(t)' /\ Cleared(t)'
<1>1. tok_map' = tok_map \ {o} /\ o.mode = job[t].mode
  BY DEF MergeResult
<1>2. \A b \in AllBlocks : /\ b \in Blocks(o.iv) => HeldAll(b)' = "none"
                           /\ b \notin Blocks(o.iv) => HeldAll(b)' = HeldAll(b)
  BY <1>1, MapErases, AddFacts, NothingLeft
<1>3. /\ \A b \in Blocks(o.iv) : b \in AllBlocks /\ HeldAll(b) = job[t].mode
      /\ Blocks(bl_int) \subseteq AllBlocks /\ job[t].mode # "none"
  BY <1>1, AddFacts, NothingLeft DEF Modes
<1>4. \A b : Final(t, b)' = Final(t, b)
  BY DEF Final
<1>5. Outer(t)'
  <2> SUFFICES ASSUME NEW b \in AllBlocks, b \notin Blocks(bl_int') PROVE HeldAll(b)' = Final(t, b)
    BY <1>4 DEF Outer
  <2> QED
    BY <1>1, <1>2 DEF Outer
<1>6. Cleared(t)'
  <2> SUFFICES ASSUME NEW b \in Blocks(bl_int') PROVE HeldAll(b)' = "none" /\ Final(t, b) = job[t].mode
    BY <1>4 DEF Cleared
  <2>1. CASE b \in Blocks(o.iv)
    BY <1>2, <1>3, <2>1 DEF Cleared, Outer
  <2>2. CASE b \notin Blocks(o.iv)
    BY <1>1, <1>2, <1>3, <2>2 DEF Cleared
  <2> QED
    BY <2>1, <2>2
<1> QED
  BY <1>5, <1>6

\* Unless tokens are lost, the token is merged only when the loop has left all of it.
LEMMA MergesWhole ==
  ASSUME MapInv, NEW t \in Threads, Adding(t), NEW o \in tok_map, o.mode = job[t].mode, rest = {}, kept = {},
         NEW e \in Blocks(o.iv), e \in {token[t].m_start - 1, token[t].m_end + 1},
         Whole(t), ~LosesTokens(t), Outer(t), Cleared(t)
  PROVE  /\ \A b \in Blocks(token[t]) : b \in Blocks(bl_int)
         /\ ~Overlaps(o.iv, bl_int)
<1>1. /\ \A b \in Blocks(o.iv) : b \in AllBlocks /\ HeldAll(b) = job[t].mode
      /\ job[t].mode # "none" /\ token[t] \in Interval /\ bl_int \in Interval /\ o.iv \in Interval
  BY AddFacts, NothingLeft DEF Modes
<1>2. \A b \in Blocks(o.iv) : b \notin Blocks(bl_int)
  BY <1>1 DEF Cleared
<1>3. e \notin Blocks(token[t])
  BY <1>1 DEF Blocks, Interval
<1>4. before[e] = job[t].mode
  BY <1>1, <1>2, <1>3 DEF Outer, Final
<1>5. \A b \in Blocks(token[t]) : b \in Blocks(bl_int)
  BY <1>1, <1>4 DEF Whole, LosesTokens
<1>6. ~Overlaps(o.iv, bl_int)
  BY <1>1, <1>2, OverlapsMeet
<1> QED
  BY <1>5, <1>6

\* What both merges leave alone, and what they may use.
LEMMA MergeFrame ==
  ASSUME MapInv, ExactInv, NEW t \in Threads, MergeRight(t) \/ MergeLeft(t), quiet
  PROVE  /\ Adding(t) /\ rest = {} /\ kept = {} /\ putback = {} /\ rpc \notin {"remove", "reinsert"}
         /\ UNCHANGED << job, token, before, rest, kept, quiet, rpc, putback >>
         /\ Whole(t) /\ (~LosesTokens(t) => Outer(t) /\ Cleared(t))
         /\ LosesTokens(t)' <=> LosesTokens(t)
         /\ UNCHANGED << tok_map, bl_int >> => /\ Whole(t)'
                                               /\ ~LosesTokens(t) => Outer(t)' /\ Cleared(t)'
<1>1. /\ pc[t] \in {"right", "left"} /\ Adding(t) /\ Inside(t)
      /\ UNCHANGED << job, token, before, rest, kept, quiet, rpc, putback >>
  BY DEF MergeRight, MergeLeft, At, Adding, Inside, revokeVars, historyVars
<1>2. AddInv(t)
  BY <1>1 DEF ExactInv
<1>3. rest = {} /\ kept = {}
  BY <1>1, <1>2, NoRest DEF AddInv, MapInv, LeftoversUsed
<1>4. LosesTokens(t)' <=> LosesTokens(t)
  BY <1>1 DEF LosesTokens
<1>5. Whole(t) /\ (~LosesTokens(t) => Outer(t) /\ Cleared(t))
  BY <1>1, <1>2 DEF AddInv
<1>6. ASSUME UNCHANGED << tok_map, bl_int >>
      PROVE  Whole(t)' /\ (~LosesTokens(t) => Outer(t)' /\ Cleared(t)')
  <2>1. \A b : HeldAll(b)' = HeldAll(b) /\ Final(t, b)' = Final(t, b)
    BY <1>1, <1>3, <1>6, NothingLeft, HeldIs, HeldIsNext DEF Final
  <2> QED
    BY <1>1, <1>5, <1>6, <2>1 DEF Whole, Outer, Cleared
<1> QED
  BY <1>1, <1>2, <1>3, <1>4, <1>5, <1>6 DEF AddInv

LEMMA MergeRightExact ==
  ASSUME MapInv, ExactInv, NEW t \in Threads, MergeRight(t)
  PROVE  ExactInv'
<1>1. Adding(t) /\ pc[t] = "right" /\ UNCHANGED << job, token, before, quiet, rpc >>
  BY DEF MergeRight, At, Adding, revokeVars, historyVars
<1>2. pc'[t] \in {"right", "left"} /\ \A u \in Threads : u # t => pc'[u] = pc[u]
  BY <1>1, Went, MergeRightIs DEF MapInv, PCs
<1>3. ASSUME quiet PROVE Whole(t)' /\ (~LosesTokens(t) => Outer(t)' /\ Cleared(t)')
  <2>1. CASE UNCHANGED << tok_map, bl_int >>
    BY <1>3, <2>1, MergeFrame
  <2>2. ASSUME NEW o \in tok_map, MergeResult(t, o), token[t].m_end + 1 \in Blocks(o.iv),
               bl_int'.m_start = bl_int.m_start, bl_int'.m_end = o.iv.m_end
        PROVE  Whole(t)' /\ (~LosesTokens(t) => Outer(t)' /\ Cleared(t)')
    <3>1. /\ token[t] \in Interval /\ bl_int \in Interval /\ bl_int' \in Interval /\ o.iv \in Interval
          /\ o.mode = job[t].mode
      BY <1>1, <2>2, AddFacts DEF MergeResult
    <3>2. Whole(t)'
      <4>1. Whole(t)
        BY <1>3, MergeFrame
      <4> QED
        BY <1>1, <2>2, <3>1, <4>1 DEF Whole, Interval, Blocks
    <3>3. ASSUME ~LosesTokens(t) PROVE Outer(t)' /\ Cleared(t)'
      <4>1. (\A b \in Blocks(token[t]) : b \in Blocks(bl_int)) /\ ~Overlaps(o.iv, bl_int)
        BY <1>3, <2>2, <3>1, <3>3, MergeFrame, MergesWhole
      <4>2. \A b : b \in Blocks(bl_int') <=> b \in Blocks(bl_int) \/ b \in Blocks(o.iv)
        <5>1. token[t].m_end \in Blocks(bl_int)
          BY <3>1, <4>1 DEF Interval, Blocks
        <5>2. bl_int.m_end < o.iv.m_start /\ o.iv.m_start <= bl_int.m_end + 1
          BY <2>2, <3>1, <4>1, <5>1 DEF Interval, Blocks, Overlaps, Before
        <5> QED
          BY <2>2, <3>1, <5>2 DEF Interval, Blocks
      <4> QED
        BY <1>3, <2>2, <3>3, <4>2, MergeFrame, Merged
    <3> QED
      BY <3>2, <3>3
  <2> QED
    BY <2>1, <2>2, MergeRightIs
<1>4. quiet => AddInv(t)'
  BY <1>2, <1>3, MergeFrame DEF AddInv
<1> QED
  BY <1>1, <1>2, <1>4, AdderExact

LEMMA MergeLeftExact ==
  ASSUME MapInv, ExactInv, NEW t \in Threads, MergeLeft(t)
  PROVE  ExactInv'
<1>1. Adding(t) /\ pc[t] = "left" /\ UNCHANGED << job, token, before, quiet, rpc >>
  BY DEF MergeLeft, At, Adding, revokeVars, historyVars
<1>2. pc'[t] \in {"left", "insert"} /\ \A u \in Threads : u # t => pc'[u] = pc[u]
  BY <1>1, Went, MergeLeftIs DEF MapInv, PCs
<1>3. ASSUME quiet PROVE Whole(t)' /\ (~LosesTokens(t) => Outer(t)' /\ Cleared(t)')
  <2>1. CASE UNCHANGED << tok_map, bl_int >>
    BY <1>3, <2>1, MergeFrame
  <2>2. ASSUME NEW o \in tok_map, MergeResult(t, o), token[t].m_start # 0, token[t].m_start - 1 \in Blocks(o.iv),
               bl_int'.m_start = o.iv.m_start, bl_int'.m_end = bl_int.m_end
        PROVE  Whole(t)' /\ (~LosesTokens(t) => Outer(t)' /\ Cleared(t)')
    <3>1. /\ token[t] \in Interval /\ bl_int \in Interval /\ bl_int' \in Interval /\ o.iv \in Interval
          /\ o.mode = job[t].mode
      BY <1>1, <2>2, AddFacts DEF MergeResult
    <3>2. Whole(t)'
      <4>1. Whole(t)
        BY <1>3, MergeFrame
      <4> QED
        BY <1>1, <2>2, <3>1, <4>1 DEF Whole, Interval, Blocks
    <3>3. ASSUME ~LosesTokens(t) PROVE Outer(t)' /\ Cleared(t)'
      <4>1. (\A b \in Blocks(token[t]) : b \in Blocks(bl_int)) /\ ~Overlaps(o.iv, bl_int)
        BY <1>3, <2>2, <3>1, <3>3, MergeFrame, MergesWhole
      <4>2. \A b : b \in Blocks(bl_int') <=> b \in Blocks(bl_int) \/ b \in Blocks(o.iv)
        <5>1. token[t].m_start \in Blocks(bl_int)
          BY <3>1, <4>1 DEF Interval, Blocks
        <5>2. o.iv.m_end < bl_int.m_start /\ bl_int.m_start <= o.iv.m_end + 1
          BY <2>2, <3>1, <4>1, <5>1 DEF Interval, Blocks, Overlaps, Before
        <5> QED
          BY <2>2, <3>1, <5>2 DEF Interval, Blocks
      <4> QED
        BY <1>3, <2>2, <3>3, <4>2, MergeFrame, Merged
    <3> QED
      BY <3>2, <3>3
  <2> QED
    BY <2>1, <2>2, MergeLeftIs
<1>4. quiet => AddInv(t)'
  BY <1>2, <1>3, MergeFrame DEF AddInv
<1> QED
  BY <1>1, <1>2, <1>4, AdderExact

LEMMA InsertExact ==
  ASSUME MapInv, ExactInv, NEW t \in Threads, InsertToken(t)
  PROVE  ExactInv'
<1>1. Adding(t) /\ Inside(t) /\ pc[t] # "reinsert" /\ Return(t) /\ UNCHANGED << quiet, rpc >>
  BY DEF InsertToken, At, Inside, Adding, revokeVars
<1>2. ~Adding(t)' /\ \A u \in Threads : u # t => pc'[u] = pc[u]
  BY <1>1, Returned
<1> QED
  BY <1>1, <1>2, AdderExact

LEMMA ExactInvNext ==
  ASSUME MapInv, MapInv', ExactInv, [Next]_vars
  PROVE  ExactInv'
<1>1. ASSUME NEW t \in Threads, NEW j \in Jobs, Call(t, j) PROVE ExactInv'
  BY <1>1, OthersExact
<1>2. ASSUME NEW t \in Threads, Library(t) PROVE ExactInv'
  BY <1>2, OthersExact, StartExact, LoopStepExact, ReinsertExact, FinishExact, MergeRightExact, MergeLeftExact,
     InsertExact DEF Library
<1>3. ASSUME NEW t \in Threads, Manager(t) PROVE ExactInv'
  <2>1. CASE RevokeForThread(t)
    <3>1. PICK v \in Access : v = [iv |-> token[t], mode |-> job[t].mode]
      BY DEF MapInv, TypeOK, Access
    <3>2. HandleRevoker(v)
      BY <2>1, <3>1 DEF RevokeForThread
    <3> QED
      BY <3>2, HandleRevokerExact
  <2> QED
    BY <1>3, <2>1, OthersExact DEF Manager
<1>4. ASSUME NEW v \in Revocations, RevokeForOther(v) PROVE ExactInv'
  <2>1. v \in Access /\ HandleRevoker(v)
    BY <1>4, BlocksOfFile DEF RevokeForOther
  <2> QED
    BY <2>1, HandleRevokerExact
<1>5. ASSUME Revoker PROVE ExactInv'
  BY <1>5, RemoveStepExact, KeepRestExact, IdleExact DEF Revoker
<1> QED
  BY <1>1, <1>2, <1>3, <1>4, <1>5, IdleExact DEF Next

LEMMA IInvInit ==
  ASSUME Init
  PROVE  IInv
<1>1. ExactInv
  BY DEF Init, ExactInv, Adding
<1> QED
  BY <1>1, MapInvInit, RecordInvInit DEF IInv

LEMMA IInvNext ==
  ASSUME IInv, [Next]_vars
  PROVE  IInv'
<1>1. MapInv'
  BY MapInvNext DEF IInv
<1> QED
  BY <1>1, RecordInvNext, ExactInvNext DEF IInv

LEMMA Invariant == Spec => []IInv
<1> QED
  BY IInvInit, IInvNext, PTL DEF Spec
-----------------------------------------------------------------------------
(* What follows for every thread, range and revocation.                     *)

\* Every variable keeps its type, whatever the application threads, the revoker and the
\* manager do to the token map.
THEOREM TypeCorrect == Spec => []TypeOK
<1>1. IInv => TypeOK
  BY DEF IInv, MapInv
<1> QED
  BY <1>1, Invariant, PTL

\* The loop of addPermission leaves no overlap of its own: an overlap behind it, which
\* the code prints an error for, is of blocks removePermission has put back since.
THEOREM OverlapsArePutBack == Spec => []SurprisedByRevoker
<1>1. IInv => SurprisedByRevoker
  BY DEF IInv, MapInv
<1> QED
  BY <1>1, Invariant, PTL

\* The client holds nothing the manager does not record, but for the blocks whose
\* revocation crossed a grant or an insertion and those of a revocation that named no file.
THEOREM RecordCoversMap == Spec => []ExcessOnlyMissed
<1>1. IInv => ExcessOnlyMissed
  BY DEF IInv, RecordInv
<1> QED
  BY <1>1, Invariant, PTL

\* A step of a library thread moves no other thread.
LEMMA OneMoves ==
  ASSUME MapInv, NEW u \in Threads, Library(u)
  PROVE  \A t \in Threads : t # u => pc'[t] = pc[t]
<1>1. CASE AddStep(u)
  BY <1>1, AddStepKeeps DEF LoopResult, MapInv, TypeOK
<1>2. CASE Reinsert(u)
  BY <1>2, ReinsertIs
<1>3. CASE MergeRight(u) \/ MergeLeft(u)
  <2>1. UNCHANGED pc \/ GoTo(u, "left") \/ GoTo(u, "insert")
    BY <1>3, MergeRightIs, MergeLeftIs
  <2> QED
    BY <2>1 DEF GoTo, MapInv, TypeOK
<1>4. ASSUME UNCHANGED pc \/ \E l : GoTo(u, l) PROVE \A t \in Threads : t # u => pc'[t] = pc[t]
  BY <1>4 DEF GoTo, MapInv, TypeOK
<1> QED
  BY <1>1, <1>2, <1>3, <1>4
  DEF Library, CheckTokens, ScanStep, ScanDone, Ask, FinishCall, StartAdd, FinishAdd, InsertToken, Return

\* addPermission returns from the end of its loop or after the insertion.
LEMMA Returns ==
  ASSUME MapInv, [Next]_vars, NEW t \in Threads, pc[t] \in {"finish", "insert"}, pc'[t] = "need"
  PROVE  FinishAdd(t) \/ InsertToken(t)
<1>1. ASSUME NEW u \in Threads, NEW j \in Jobs, Call(u, j) PROVE FALSE
  <2>1. pc[u] = "idle" /\ GoTo(u, "need")
    BY <1>1 DEF Call, At
  <2> QED
    BY <2>1, Went DEF MapInv, PCs
<1>2. ASSUME NEW u \in Threads, Library(u) PROVE FinishAdd(t) \/ InsertToken(t)
  <2>1. u = t
    BY <1>2, OneMoves
  <2> QED
    BY <1>2, <2>1 DEF Library, CheckTokens, ScanStep, ScanDone, FinishCall, StartAdd, AddStep, Reinsert, MergeRight,
                      MergeLeft, At
<1>3. ASSUME NEW u \in Threads, Manager(u) PROVE FALSE
  <2>1. UNCHANGED pc \/ (pc[u] = "asked" /\ GoTo(u, "granted"))
    BY <1>3 DEF Manager, RevokeForThread, HandleRevoker, Grant, Nack, At, appVars
  <2> QED
    BY <2>1, Went DEF MapInv, PCs
<1>4. ASSUME \/ \E v \in Revocations : RevokeForOther(v)
             \/ \E u \in Threads : RaceInMap(u)
             \/ Revoker \/ Delete \/ UNCHANGED vars
      PROVE  FALSE
  BY <1>4 DEF RevokeForOther, HandleRevoker, RaceInMap, Revoker, RemoveStep, KeepRest, RemoveDone, AnswerRevoke,
              Delete, vars, appVars
<1> QED
  BY <1>1, <1>2, <1>3, <1>4 DEF Next

\* Where addPermission gives up, the token that covers the new one stands for it.
LEMMA GivesUp ==
  ASSUME IInv, NEW t \in Threads, FinishAdd(t), pc'[t] = "need", quiet
  PROVE  \A b \in AllBlocks : Held(b)' = Final(t, b)
<1>1. pc[t] = "finish" /\ Inside(t) /\ Adding(t) /\ UNCHANGED tok_map
  BY DEF FinishAdd, At, Inside, Adding
<1>2. MapInv /\ AddInv(t) /\ Outer(t) /\ Inner(t) /\ Given(t) /\ putback = {}
  BY <1>1 DEF IInv, ExactInv, AddInv
<1>3. \A b : HeldAll(b) = Held(b)
  BY <1>1, <1>2, NoRest, NothingLeft DEF AddInv, MapInv, LeftoversUsed
\* Nothing has been put back: there is no overlap behind the loop.
<1>4. ~Surprised(t)
  <2> SUFFICES ASSUME Surprised(t) PROVE FALSE
    OBVIOUS
  <2>1. PICK o \in tok_map : Overlaps(o.iv, bl_int) /\ o.iv \in Interval
    BY <1>2, FoundIs DEF Surprised, MapInv, TypeOK
  <2>2. Blocks(o.iv) = {}
    BY <1>2, <2>1 DEF MapInv, SurprisedByRevoker
  <2> QED
    BY <2>1, <2>2 DEF Interval, Blocks
<1>5. dont_add
  <2>1. CASE GoTo(t, "right")
    BY <1>2, <2>1, Went DEF MapInv, PCs
  <2> QED
    BY <1>4, <2>1 DEF FinishAdd
<1>6. PICK o \in tok_map : Covers(o.iv, bl_int) /\ o.mode \in {"w", job[t].mode}
  BY <1>2, <1>5 DEF Given
<1>7. \A b \in Blocks(bl_int) : Held(b) = o.mode
  <2>1. /\ o.iv \in Interval /\ bl_int \in Interval
        /\ \A b \in Blocks(o.iv) : Held(b) = o.mode
    BY <1>1, <1>2, AddFacts
  <2>2. \A b \in Blocks(bl_int) : b \in Blocks(o.iv)
    BY <1>6, <2>1 DEF Covers, Interval, Blocks
  <2> QED
    BY <2>1, <2>2
<1>8. \A b \in AllBlocks : Held(b) = Final(t, b)
  BY <1>2, <1>3, <1>6, <1>7 DEF Outer, Inner
<1> QED
  BY <1>1, <1>8, HeldIs, HeldIsNext

LEMMA Inserts ==
  ASSUME IInv, NEW t \in Threads, InsertToken(t), quiet, ~LosesTokens(t)
  PROVE  \A b \in AllBlocks : Held(b)' = Final(t, b)
<1>1. pc[t] = "insert" /\ Inside(t) /\ Adding(t)
  BY DEF InsertToken, At, Inside, Adding
<1>2. MapInv /\ AddInv(t) /\ Outer(t) /\ Cleared(t)
  BY <1>1 DEF IInv, ExactInv, AddInv
<1>3. \A b : HeldAll(b) = Held(b)
  BY <1>1, <1>2, NoRest, NothingLeft DEF AddInv, MapInv, LeftoversUsed
<1>4. ASSUME NEW d \in tok_map PROVE ~Overlaps(d.iv, bl_int)
  <2>1. /\ d.iv \in Interval /\ bl_int \in Interval /\ d.mode # "none"
        /\ \A b \in Blocks(d.iv) : Held(b) = d.mode
    BY <1>1, <1>2, AddFacts DEF Modes
  <2> QED
    BY <1>2, <1>3, <2>1, OverlapsMeet DEF Cleared
<1>5. \A b \in Nat : /\ b \in Blocks(bl_int) => Held(b)' = job[t].mode
                     /\ b \notin Blocks(bl_int) => Held(b)' = Held(b)
  <2>1. PICK n \in Access : n.iv = bl_int /\ n.mode = job[t].mode /\ tok_map' = Insert(tok_map, n)
    BY <1>2 DEF MapInv, TypeOK, Access, Insert, InsertToken
  <2>2. \A b \in Nat : /\ b \in Blocks(n.iv) => ModeIn(tok_map', b) = n.mode
                       /\ b \notin Blocks(n.iv) => ModeIn(tok_map', b) = ModeIn(tok_map, b)
    BY <1>2, <1>4, <2>1, Inserted DEF MapInv, TypeOK
  <2> QED
    BY <2>1, <2>2, HeldIs, HeldIsNext
<1> QED
  BY <1>2, <1>3, <1>5, BlocksOfFile DEF Outer, Cleared

\* addPermission gives the blocks of the token their mode, all but those with a write
\* token, and no other block a new one: whatever was in the map, whatever it overlaps
\* or touches, but for the merge that loses tokens.
THEOREM AddsExactly == Spec => AddIsExact
<1>1. ASSUME IInv, [Next]_vars, NEW t \in Threads,
             pc[t] \in {"finish", "insert"}, pc'[t] = "need", quiet, ~LosesTokens(t)
      PROVE  HeldMap' = [b \in AllBlocks |->
               IF b \in Blocks(token[t]) /\ before[b] # "w" THEN job[t].mode ELSE before[b]]
  <2>1. FinishAdd(t) \/ InsertToken(t)
    BY <1>1, Returns DEF IInv
  <2>2. \A b \in AllBlocks : Held(b)' = Final(t, b)
    BY <1>1, <2>1, GivesUp, Inserts
  <2> QED
    BY <2>2 DEF HeldMap, Final
<1>2. IInv /\ [Next]_vars =>
        [\A t \in Threads :
           (pc[t] \in {"finish", "insert"} /\ pc'[t] = "need" /\ quiet /\ ~LosesTokens(t)) =>
             HeldMap' = [b \in AllBlocks |->
               IF b \in Blocks(token[t]) /\ before[b] # "w" THEN job[t].mode ELSE before[b]]]_vars
  BY <1>1
<1> QED
  BY <1>2, Invariant, PTL DEF Spec, AddIsExact

\* The revoker is through when nothing overlaps the revocation any more.
LEMMA RemoveEnds ==
  ASSUME MapInv, [Next]_vars, rpc = "remove", rpc' = "answer"
  PROVE  RemoveDone
<1>1. ~RemoveStep
  BY DEF RemoveStep
<1>2. ASSUME \E t \in Threads : Library(t) \/ RaceInMap(t) PROVE FALSE
  BY <1>2 DEF Library, CheckTokens, ScanStep, ScanDone, FinishCall, StartAdd, AddStep, Reinsert, FinishAdd,
              MergeRight, MergeLeft, InsertToken, RaceInMap, revokeVars
<1>3. ASSUME \E t \in Threads : Manager(t) \/ \E j \in Jobs : Call(t, j) PROVE FALSE
  BY <1>3 DEF Manager, RevokeForThread, HandleRevoker, RevokerAt, Grant, Nack, Call, revokeVars
<1>4. ASSUME (\E v \in Revocations : RevokeForOther(v)) \/ KeepRest \/ AnswerRevoke \/ Delete \/ UNCHANGED vars
      PROVE  FALSE
  BY <1>4 DEF RevokeForOther, HandleRevoker, RevokerAt, KeepRest, AnswerRevoke, Delete, vars, revokeVars
<1> QED
  BY <1>1, <1>2, <1>3, <1>4 DEF Next, Revoker

\* removePermission, when no addPermission runs meanwhile, takes every block of the
\* revocation from the client and leaves it every other, however many tokens they are cut
\* out of: what it erases on the way it puts back.
THEOREM RevokesExactly == Spec => RevocationIsExact
<1>1. ASSUME IInv, [Next]_vars, rpc = "remove", rpc' = "answer", quiet
      PROVE  HeldMap = [b \in AllBlocks |-> IF b \in Blocks(revoke.iv) THEN "none" ELSE before[b]]
  <2>1. RemoveDone /\ RemoveInv /\ kept = {}
    BY <1>1, RemoveEnds DEF IInv, ExactInv, MapInv, LeftoversUsed
  <2>2. rest = {}
    BY <1>1 DEF IInv, ExactInv, AddInv, MapInv, LeftoversUsed, Adding
  <2>3. \A b : HeldAll(b) = Held(b)
    BY <2>1, <2>2, NothingLeft
  <2>4. /\ tok_map \in SUBSET Access /\ Keyed(tok_map) /\ revoke.iv \in Interval
        /\ FirstOverlap(tok_map, revoke.iv) = {}
    BY <1>1, <2>1 DEF RemoveDone, IInv, MapInv, TypeOK, Access
  <2>5. \A e \in tok_map : e.iv \in Interval /\ ~Overlaps(e.iv, revoke.iv)
    BY <2>4, FindsFirst DEF Access
  <2>6. ASSUME NEW b \in AllBlocks, b \in Blocks(revoke.iv) PROVE Held(b) = "none"
    <3>1. \A e \in tok_map : b \notin Blocks(e.iv)
      BY <2>4, <2>5, <2>6, OverlapsMeet
    <3> QED
      BY <2>4, <3>1, ModeIs, HeldIs, BlocksOfFile
  <2> QED
    BY <2>1, <2>3, <2>6 DEF RemoveInv, HeldMap
<1>2. IInv /\ [Next]_vars =>
        [(rpc = "remove" /\ rpc' = "answer" /\ quiet) =>
           HeldMap = [b \in AllBlocks |-> IF b \in Blocks(revoke.iv) THEN "none" ELSE before[b]]]_vars
  BY <1>1
<1> QED
  BY <1>2, Invariant, PTL DEF Spec, RevocationIsExact

\* Both: what a call or a revocation does to the map is what it is about, when the two
\* do not run at once.
THEOREM MapChangesAreExact == Spec => ChangesAreExact
<1> QED
  BY AddsExactly, RevokesExactly DEF ChangesAreExact
=============================================================================
