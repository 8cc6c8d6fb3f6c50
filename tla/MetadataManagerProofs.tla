----------------------- MODULE MetadataManagerProofs -----------------------
(***************************************************************************)
(* The invariants of the metadata manager, for every set of files,         *)
(* clients, threads and requests, every number of servers and any faults;  *)
(* and that its token table, intervals, map, vector and iterator,          *)
(* implements the one of TokenTable, block by block.                       *)
(***************************************************************************)
EXTENDS MetadataManager, SequenceTheorems, WellFoundedInduction, TLAPS
-----------------------------------------------------------------------------
(* Ranges of blocks and their subtraction; vectors.                         *)

\* Two intervals are the same key exactly when they share a block.
LEMMA OverlapsMeet ==
  ASSUME NEW a \in Interval, NEW b \in Interval
  PROVE  Overlaps(a, b) <=> Blocks(a) \intersect Blocks(b) # {}
<1>1. ASSUME Overlaps(a, b) PROVE Blocks(a) \intersect Blocks(b) # {}
  <2>1. CASE a.m_start <= b.m_start
    <3>1. b.m_start \in Blocks(a) \intersect Blocks(b)
      BY <1>1, <2>1 DEF Interval, Blocks, Overlaps, Before
    <3> QED BY <3>1
  <2>2. CASE b.m_start <= a.m_start
    <3>1. a.m_start \in Blocks(a) \intersect Blocks(b)
      BY <1>1, <2>2 DEF Interval, Blocks, Overlaps, Before
    <3> QED BY <3>1
  <2> QED BY <2>1, <2>2 DEF Interval
<1>2. ASSUME Blocks(a) \intersect Blocks(b) # {} PROVE Overlaps(a, b)
  BY <1>2 DEF Interval, Blocks, Overlaps, Before
<1> QED BY <1>1, <1>2

\* Short sequences, concatenated.
LEMMA ShortConcat ==
  ASSUME NEW x, NEW y
  PROVE  << x >> \o << y >> = << x, y >>
<1>1. << x >> \in Seq({x, y}) /\ << y >> \in Seq({x, y}) /\ << x, y >> \in Seq({x, y})
  OBVIOUS
<1>2. Len(<< x >> \o << y >>) = 2 /\ << x >> \o << y >> \in Seq({x, y})
  BY <1>1, ConcatProperties
<1>3. (<< x >> \o << y >>)[1] = x /\ (<< x >> \o << y >>)[2] = y
  BY <1>1, ConcatProperties
<1> DEFINE s == << x >> \o << y >>
           t == << x, y >>
<1>4. Len(t) = 2 /\ t[1] = x /\ t[2] = y
  OBVIOUS
<1>5. \A i \in 1 .. Len(s) : s[i] = t[i]
  <2> SUFFICES ASSUME NEW i \in 1 .. Len(s) PROVE s[i] = t[i]
    OBVIOUS
  <2>1. i = 1 \/ i = 2  BY <1>2
  <2> QED BY <1>3, <1>4, <2>1
<1>6. s \in Seq({x, y}) /\ t \in Seq({x, y}) /\ Len(s) = Len(t)
  BY <1>1, <1>2, <1>4
<1> HIDE DEF s, t
<1>7. s = t  BY <1>5, <1>6, SeqEqual
<1> QED BY <1>7 DEF s, t

\* What subtract_interval returns when the intervals overlap: one to four cases
\* by which remainders exist.
LEMMA SubtractCases ==
  ASSUME NEW a \in Interval, NEW b \in Interval, Overlaps(a, b)
  PROVE  LET left  == [m_start |-> a.m_start, m_end |-> b.m_start - 1]
             right == [m_start |-> b.m_end + 1, m_end |-> a.m_end]
         IN \/ a.m_start < b.m_start /\ b.m_end < a.m_end /\ Subtract(a, b) = << left, right >>
            \/ a.m_start < b.m_start /\ ~(b.m_end < a.m_end) /\ Subtract(a, b) = << left >>
            \/ ~(a.m_start < b.m_start) /\ b.m_end < a.m_end /\ Subtract(a, b) = << right >>
            \/ ~(a.m_start < b.m_start) /\ ~(b.m_end < a.m_end) /\ Subtract(a, b) = << >>
<1> DEFINE left  == [m_start |-> a.m_start, m_end |-> b.m_start - 1]
           right == [m_start |-> b.m_end + 1, m_end |-> a.m_end]
           l     == IF a.m_start < b.m_start THEN << left >> ELSE << >>
           r     == IF b.m_end < a.m_end THEN << right >> ELSE << >>
<1>1. Subtract(a, b) = l \o r
  BY DEF Subtract
<1>2. /\ << left >> \o << right >> = << left, right >>
      /\ << left >> \o << >> = << left >>
      /\ << >> \o << right >> = << right >>
      /\ << >> \o << >> = << >>
  <2>1. << left >> \in Seq({left, right}) /\ << right >> \in Seq({left, right})
        /\ << >> \in Seq({left, right})
    OBVIOUS
  <2> HIDE DEF left, right
  <2> QED BY <2>1, ShortConcat, ConcatEmptySeq
<1> HIDE DEF left, right
<1>3. CASE a.m_start < b.m_start /\ b.m_end < a.m_end
  <2>1. l = << left >> /\ r = << right >>  BY <1>3
  <2> QED BY <1>1, <1>2, <1>3, <2>1 DEF left, right
<1>4. CASE a.m_start < b.m_start /\ ~(b.m_end < a.m_end)
  <2>1. l = << left >> /\ r = << >>  BY <1>4
  <2> QED BY <1>1, <1>2, <1>4, <2>1 DEF left, right
<1>5. CASE ~(a.m_start < b.m_start) /\ b.m_end < a.m_end
  <2>1. l = << >> /\ r = << right >>  BY <1>5
  <2> QED BY <1>1, <1>2, <1>5, <2>1 DEF left, right
<1>6. CASE ~(a.m_start < b.m_start) /\ ~(b.m_end < a.m_end)
  <2>1. l = << >> /\ r = << >>  BY <1>6
  <2> QED BY <1>1, <1>2, <1>6, <2>1
<1> QED BY <1>3, <1>4, <1>5, <1>6

\* subtract_interval returns at most two intervals, disjoint from each other, and
\* they hold exactly the blocks of the first interval outside the second.
THEOREM SubtractCorrect ==
  ASSUME NEW a \in Interval, NEW b \in Interval, Overlaps(a, b)
  PROVE  LET s == Subtract(a, b)
         IN /\ s \in Seq(Interval)
            /\ Len(s) <= 2
            /\ \A i, j \in DOMAIN s : i # j => ~Overlaps(s[i], s[j])
            /\ \A i \in DOMAIN s : Blocks(s[i]) \subseteq Blocks(a) \ Blocks(b)
            /\ \A k \in Blocks(a) \ Blocks(b) : \E i \in DOMAIN s : k \in Blocks(s[i])
<1> DEFINE s     == Subtract(a, b)
           left  == [m_start |-> a.m_start, m_end |-> b.m_start - 1]
           right == [m_start |-> b.m_end + 1, m_end |-> a.m_end]
<1>1. CASE a.m_start < b.m_start /\ b.m_end < a.m_end /\ s = << left, right >>
  <2>1. left \in Interval /\ right \in Interval
    BY <1>1 DEF Interval, Overlaps, Before
  <2>2. s[1] = left /\ s[2] = right /\ DOMAIN s = {1, 2} /\ Len(s) = 2 /\ s \in Seq(Interval)
    BY <1>1, <2>1
  <2>3. ~Overlaps(left, right) /\ ~Overlaps(right, left)
    BY <1>1, <2>1 DEF Interval, Overlaps, Before
  <2>4. /\ Blocks(left) \subseteq Blocks(a) \ Blocks(b)
        /\ Blocks(right) \subseteq Blocks(a) \ Blocks(b)
        /\ \A k \in Blocks(a) \ Blocks(b) : k \in Blocks(left) \/ k \in Blocks(right)
    BY <1>1 DEF Interval, Blocks
  <2> HIDE DEF s, left, right
  <2> QED BY <2>1, <2>2, <2>3, <2>4 DEF s
<1>2. CASE a.m_start < b.m_start /\ ~(b.m_end < a.m_end) /\ s = << left >>
  <2>1. left \in Interval
    BY <1>2 DEF Interval
  <2>2. s[1] = left /\ DOMAIN s = {1} /\ Len(s) = 1 /\ s \in Seq(Interval)
    BY <1>2, <2>1
  <2>3. Blocks(left) = Blocks(a) \ Blocks(b)
    BY <1>2 DEF Interval, Blocks, Overlaps, Before
  <2> HIDE DEF s, left
  <2> QED BY <2>1, <2>2, <2>3 DEF s
<1>3. CASE ~(a.m_start < b.m_start) /\ b.m_end < a.m_end /\ s = << right >>
  <2>1. right \in Interval
    BY <1>3 DEF Interval
  <2>2. s[1] = right /\ DOMAIN s = {1} /\ Len(s) = 1 /\ s \in Seq(Interval)
    BY <1>3, <2>1
  <2>3. Blocks(right) = Blocks(a) \ Blocks(b)
    BY <1>3 DEF Interval, Blocks, Overlaps, Before
  <2> HIDE DEF s, right
  <2> QED BY <2>1, <2>2, <2>3 DEF s
<1>4. CASE ~(a.m_start < b.m_start) /\ ~(b.m_end < a.m_end) /\ s = << >>
  <2>1. Blocks(a) \ Blocks(b) = {}
    BY <1>4 DEF Interval, Blocks
  <2> QED BY <1>4, <2>1
<1> QED BY <1>1, <1>2, <1>3, <1>4, SubtractCases

\* What is left of a sequence without one element: its elements are those of the
\* sequence, and all others are still there.
LEMMA WithoutOne ==
  ASSUME NEW S, NEW s \in Seq(S), NEW n \in 1 .. Len(s)
  PROVE  /\ RemoveAt(s, n) \in Seq(S)
         /\ \A i \in DOMAIN RemoveAt(s, n) : \E j \in DOMAIN s : RemoveAt(s, n)[i] = s[j]
         /\ \A j \in DOMAIN s \ {n} : \E i \in DOMAIN RemoveAt(s, n) : RemoveAt(s, n)[i] = s[j]
<1> DEFINE a == SubSeq(s, 1, n - 1)
           b == SubSeq(s, n + 1, Len(s))
<1>1. Len(s) \in Nat /\ DOMAIN s = 1 .. Len(s) /\ \A i \in 1 .. Len(s) : s[i] \in S
  BY ElementOfSeq, LenProperties
<1>2. /\ a \in Seq(S) /\ Len(a) = n - 1
      /\ \A i \in 1 .. n - 1 : a[i] = s[i]
  BY <1>1, SubSeqProperties
<1>3. /\ b \in Seq(S) /\ Len(b) = Len(s) - n
      /\ \A i \in 1 .. Len(s) - n : b[i] = s[n + i]
  <2>1. \A i \in n + 1 .. Len(s) : s[i] \in S
    BY <1>1
  <2>2. n + 1 \in Int /\ Len(s) \in Int
    BY <1>1
  <2>3. /\ b \in Seq(S)
        /\ Len(b) = IF n + 1 <= Len(s) THEN Len(s) - (n + 1) + 1 ELSE 0
        /\ \A i \in 1 .. Len(s) - (n + 1) + 1 : b[i] = s[(n + 1) + i - 1]
    BY <2>1, <2>2, SubSeqProperties
  <2> HIDE DEF b
  <2>4. Len(s) - (n + 1) + 1 = Len(s) - n
    BY <1>1
  <2>5. ASSUME NEW i \in 1 .. Len(s) - n PROVE b[i] = s[n + i]
    <3>1. (n + 1) + i - 1 = n + i
      BY <1>1
    <3> QED
      BY <2>3, <2>4, <3>1
  <2>6. Len(b) = Len(s) - n
    <3>1. Len(s) \in Nat /\ Len(b) = IF n + 1 <= Len(s) THEN Len(s) - (n + 1) + 1 ELSE 0
      BY <1>1, <2>3
    <3> QED
      BY <3>1
  <2> QED
    BY <2>3, <2>5, <2>6
<1>4. RemoveAt(s, n) = a \o b
  BY DEF RemoveAt
<1> HIDE DEF a, b
<1>5. /\ a \o b \in Seq(S)
      /\ Len(a \o b) = Len(s) - 1
      /\ \A i \in 1 .. Len(s) - 1 : (a \o b)[i] = IF i <= n - 1 THEN s[i] ELSE s[i + 1]
  <2>1. /\ a \o b \in Seq(S)
        /\ Len(a \o b) = Len(a) + Len(b)
        /\ \A i \in 1 .. Len(a) + Len(b) : (a \o b)[i] = IF i <= Len(a) THEN a[i] ELSE b[i - Len(a)]
    BY <1>2, <1>3, ConcatProperties
  <2>2. Len(a) + Len(b) = Len(s) - 1
    BY <1>1, <1>2, <1>3
  <2>3. ASSUME NEW i \in 1 .. Len(s) - 1
        PROVE  (a \o b)[i] = IF i <= n - 1 THEN s[i] ELSE s[i + 1]
    <3>1. CASE i <= n - 1
      BY <1>1, <1>2, <2>1, <2>2, <2>3, <3>1
    <3>2. CASE ~(i <= n - 1)
      <4>1. i - (n - 1) \in 1 .. Len(s) - n /\ n + (i - (n - 1)) = i + 1
        BY <1>1, <2>3, <3>2
      <4>2. (a \o b)[i] = b[i - (n - 1)]
        BY <1>1, <1>2, <2>1, <2>2, <2>3, <3>2
      <4> QED
        BY <1>3, <3>2, <4>1, <4>2
    <3> QED
      BY <3>1, <3>2
  <2> QED
    BY <2>1, <2>2, <2>3
<1>6. DOMAIN (a \o b) = 1 .. Len(s) - 1
  BY <1>5, LenProperties
<1>7. ASSUME NEW i \in DOMAIN (a \o b) PROVE \E j \in DOMAIN s : (a \o b)[i] = s[j]
  <2>0. i \in 1 .. Len(s) - 1 /\ Len(s) \in Nat
    BY <1>1, <1>6
  <2>1. i \in 1 .. Len(s) - 1 /\ i \in DOMAIN s /\ i + 1 \in DOMAIN s
    BY <1>1, <2>0
  <2>2. (a \o b)[i] = s[i] \/ (a \o b)[i] = s[i + 1]
    BY <1>5, <2>1
  <2> QED
    BY <2>1, <2>2
<1>8. ASSUME NEW j \in DOMAIN s \ {n} PROVE \E i \in DOMAIN (a \o b) : (a \o b)[i] = s[j]
  <2>1. CASE j < n
    <3>1. j \in 1 .. Len(s) - 1 /\ j <= n - 1
      BY <1>1, <2>1
    <3> QED
      BY <1>5, <1>6, <3>1
  <2>2. CASE j > n
    <3>1. j - 1 \in 1 .. Len(s) - 1 /\ ~(j - 1 <= n - 1) /\ (j - 1) + 1 = j
      BY <1>1, <2>2
    <3> QED
      BY <1>5, <1>6, <3>1
  <2> QED
    BY <1>1, <2>1, <2>2
<1> QED
  BY <1>4, <1>5, <1>7, <1>8

\* A sequence with one more element.
LEMMA WithOneMore ==
  ASSUME NEW S, NEW s \in Seq(S), NEW x \in S, NEW t, t = Append(s, x)
  PROVE  /\ t \in Seq(S)
         /\ \A i \in DOMAIN t : t[i] = x \/ \E j \in DOMAIN s : t[i] = s[j]
         /\ \A j \in DOMAIN s : \E i \in DOMAIN t : t[i] = s[j]
         /\ \E i \in DOMAIN t : t[i] = x
<1>1. /\ t \in Seq(S) /\ Len(t) = Len(s) + 1
      /\ \A i \in 1 .. Len(s) : t[i] = s[i]
      /\ t[Len(s) + 1] = x
  BY AppendProperties
<1>2. DOMAIN s = 1 .. Len(s) /\ Len(s) \in Nat /\ DOMAIN t = 1 .. Len(s) + 1
  BY <1>1, LenProperties
<1>3. /\ \A i \in DOMAIN t : t[i] = x \/ \E j \in DOMAIN s : t[i] = s[j]
      /\ \A j \in DOMAIN s : \E i \in DOMAIN t : t[i] = s[j]
      /\ \E i \in DOMAIN t : t[i] = x
  BY <1>1, <1>2
<1> QED
  BY <1>1, <1>3

\* The elements of two sequences, one behind the other, are those of both.
LEMMA RangeConcat ==
  ASSUME NEW S, NEW s \in Seq(S), NEW t \in Seq(S)
  PROVE  Range(s \o t) = Range(s) \union Range(t)
<1>1. /\ s \o t \in Seq(S) /\ Len(s \o t) = Len(s) + Len(t)
      /\ \A i \in 1 .. Len(s) + Len(t) : (s \o t)[i] = IF i <= Len(s) THEN s[i] ELSE t[i - Len(s)]
  BY ConcatProperties
<1>2. /\ Len(s) \in Nat /\ Len(t) \in Nat
      /\ DOMAIN s = 1 .. Len(s) /\ DOMAIN t = 1 .. Len(t) /\ DOMAIN (s \o t) = 1 .. Len(s) + Len(t)
  BY <1>1, LenProperties
<1> DEFINE c == s \o t
<1> HIDE DEF c
<1>3. ASSUME NEW i \in DOMAIN c PROVE (\E j \in DOMAIN s : c[i] = s[j]) \/ (\E j \in DOMAIN t : c[i] = t[j])
  <2>1. i \in 1 .. Len(s) + Len(t)
    BY <1>2 DEF c
  <2>2. CASE i <= Len(s)
    BY <1>1, <1>2, <2>1, <2>2 DEF c
  <2>3. CASE ~(i <= Len(s))
    <3>1. i - Len(s) \in DOMAIN t
      BY <1>2, <2>1, <2>3
    <3>2. c[i] = t[i - Len(s)]
      BY <1>1, <2>1, <2>3 DEF c
    <3> QED
      BY <3>1, <3>2
  <2> QED
    BY <2>2, <2>3
<1>4. ASSUME NEW j \in DOMAIN s PROVE \E i \in DOMAIN c : c[i] = s[j]
  <2>1. j \in DOMAIN c /\ j \in 1 .. Len(s) + Len(t) /\ j <= Len(s)
    BY <1>2 DEF c
  <2>2. c[j] = s[j]
    BY <1>1, <2>1 DEF c
  <2> QED
    BY <2>1, <2>2
<1>5. ASSUME NEW j \in DOMAIN t PROVE \E i \in DOMAIN c : c[i] = t[j]
  <2>1. Len(s) + j \in DOMAIN c /\ Len(s) + j \in 1 .. Len(s) + Len(t)
        /\ ~(Len(s) + j <= Len(s)) /\ (Len(s) + j) - Len(s) = j
    BY <1>2 DEF c
  <2>2. c[Len(s) + j] = t[j]
    BY <1>1, <2>1 DEF c
  <2> QED
    BY <2>1, <2>2
<1>6. Range(c) = Range(s) \union Range(t)
  BY <1>3, <1>4, <1>5 DEF Range
<1> QED
  BY <1>6 DEF c
-----------------------------------------------------------------------------
\* A thread holds a request from the moment it has a connection, and it runs the
\* handler of that request's command.
RequestsMatch ==
  \A t \in Threads : /\ pc[t] # "idle" => req[t] \in Requests
                     /\ HasEntry(t) \/ pc[t] = "request_token" => req[t].op = "request_token"
                     /\ pc[t] = "create" => req[t].op = "create"

\* While a reader is being revoked the iterator points at its token, which meets
\* the wanted interval.
CursorOK ==
  \A t \in Threads : pc[t] = "rcall" => AtReader(t) /\ Overlaps(Wanted(t), Tokens(t)[it[t]].iv)

IInv == TypeOK /\ LocksNest /\ RequestsMatch /\ CursorOK /\ WriteTokensDisjoint
-----------------------------------------------------------------------------
(* Facts about the data.                                                    *)

\* What a request of each kind holds.
LEMMA RequestFields ==
  ASSUME NEW r \in Requests
  PROVE  /\ r.file \in Files
         /\ r.op \in {"request_token", "create", "open", "delete", "fstat"}
         /\ r.op = "request_token" => r.iv \in Interval /\ r.mode \in {"r", "w"} /\ r.cl \in Clients
         /\ r.op = "create" => r.width \in Nat
  BY RequestsAssumption DEF TokenRequest, CreateRequest, NameRequest

\* The pieces of a token are tokens of the same client, disjoint, inside it.
LEMMA PiecesOf ==
  ASSUME NEW t, NEW e \in Token, Wanted(t) \in Interval, Overlaps(e.iv, Wanted(t))
  PROVE  /\ Pieces(t, e) \in Seq(Token)
         /\ Range(Pieces(t, e)) \subseteq Token
         /\ \A p, q \in Range(Pieces(t, e)) : p # q => ~Overlaps(p.iv, q.iv)
         /\ \A p \in Range(Pieces(t, e)) : Blocks(p.iv) \subseteq Blocks(e.iv) \ Blocks(Wanted(t))
<1> DEFINE s == Subtract(e.iv, Wanted(t))
<1>1. e.iv \in Interval /\ e.cl \in Clients
  BY DEF Token
<1>2. /\ s \in Seq(Interval)
      /\ \A i, j \in DOMAIN s : i # j => ~Overlaps(s[i], s[j])
      /\ \A i \in DOMAIN s : Blocks(s[i]) \subseteq Blocks(e.iv) \ Blocks(Wanted(t))
  BY <1>1, SubtractCorrect
<1>3. DOMAIN s = 1 .. Len(s) /\ Len(s) \in Nat
  BY <1>2
<1>4. Pieces(t, e) = [i \in 1 .. Len(s) |-> [iv |-> s[i], cl |-> e.cl]]
  BY <1>3 DEF Pieces
<1> HIDE DEF s
<1>5. \A i \in 1 .. Len(s) : [iv |-> s[i], cl |-> e.cl] \in Token
  BY <1>1, <1>2, <1>3 DEF Token
<1>6. Pieces(t, e) \in Seq(Token)
  BY <1>3, <1>4, <1>5
<1>7. Range(Pieces(t, e)) = {[iv |-> s[i], cl |-> e.cl] : i \in 1 .. Len(s)}
  BY <1>4 DEF Range
<1> QED BY <1>2, <1>3, <1>5, <1>6, <1>7

\* Entries that are disjoint from each other leave a map with disjoint keys.
LEMMA InsertDisjoint ==
  ASSUME NEW map, NEW entries,
         \A d, e \in map : d # e => ~Overlaps(d.iv, e.iv),
         \A d, e \in entries : d # e => ~Overlaps(d.iv, e.iv)
  PROVE  \A d, e \in MapInsert(map, entries) : d # e => ~Overlaps(d.iv, e.iv)
  BY DEF MapInsert, Overlaps

\* Erasing an element of a sequence leaves a sequence.
LEMMA RemoveAtSeq ==
  ASSUME NEW S, NEW s \in Seq(S), NEW n \in 1 .. Len(s)
  PROVE  RemoveAt(s, n) \in Seq(S)
<1>1. SubSeq(s, 1, n - 1) \in Seq(S) /\ SubSeq(s, n + 1, Len(s)) \in Seq(S)
  BY SubSeqProperties
<1> QED BY <1>1, ConcatProperties DEF RemoveAt
-----------------------------------------------------------------------------
(* How a thread moves with respect to the locks.                            *)

\* Moving one thread leaves the others where they are.
LEMMA OneMoves ==
  ASSUME TypeOK, NEW t \in Threads, NEW label, GoTo(t, label)
  PROVE  /\ pc'[t] = label
         /\ \A u \in Threads \ {t} : pc'[u] = pc[u]
  BY DEF TypeOK, GoTo

\* A move within a region of the code, the locks untouched.
LEMMA LocksKept ==
  ASSUME TypeOK, LocksNest, NEW t \in Threads, NEW label, GoTo(t, label),
         Inside(t) <=> label \in InsidePCs,
         HasEntry(t) <=> label \in EntryPCs,
         \A u \in Threads : HasEntry(u) => req'[u] = req[u],
         UNCHANGED lockVars
  PROVE  LocksNest'
<1>1. \A u \in Threads : (Inside(u)' <=> Inside(u)) /\ (HasEntry(u)' <=> HasEntry(u))
  BY OneMoves DEF Inside, HasEntry
<1> QED BY <1>1 DEF LocksNest, lockVars

\* A move out of the locked region, which frees what the thread held.
LEMMA LocksLeft ==
  ASSUME TypeOK, LocksNest, NEW t \in Threads, NEW label, GoTo(t, label),
         Inside(t), label \notin InsidePCs, gft_lock' \notin Threads,
         HasEntry(t) => req[t].file \in Files /\ fe_lock' = [fe_lock EXCEPT ![req[t].file] = Free],
         ~HasEntry(t) => UNCHANGED fe_lock
  PROVE  LocksNest'
<1>1. gft_lock = t /\ \A u \in Threads \ {t} : ~Inside(u)
  BY DEF LocksNest
<1>2. EntryPCs \subseteq InsidePCs
  BY DEF InsidePCs
<1>3. \A u \in Threads : ~Inside(u)' /\ ~HasEntry(u)'
  BY <1>1, <1>2, OneMoves DEF Inside, HasEntry
<1>4. \A u \in Threads, f \in Files : fe_lock'[f] # u
  <2> SUFFICES ASSUME NEW u \in Threads, NEW f \in Files PROVE fe_lock'[f] # u
    OBVIOUS
  <2>1. CASE HasEntry(t) /\ f = req[t].file
    BY <2>1, NamesAssumption DEF TypeOK
  <2>2. CASE HasEntry(t) /\ f # req[t].file
    <3>1. fe_lock'[f] = fe_lock[f]  BY <2>2 DEF TypeOK
    <3>2. CASE u = t  BY <2>2, <3>1, <3>2 DEF LocksNest
    <3>3. CASE u # t  BY <1>1, <1>2, <3>1, <3>3 DEF LocksNest, Inside, HasEntry
    <3> QED BY <3>2, <3>3
  <2>3. CASE ~HasEntry(t)
    <3>1. fe_lock'[f] = fe_lock[f]  BY <2>3
    <3> QED BY <1>1, <1>2, <2>3, <3>1 DEF LocksNest, Inside, HasEntry
  <2> QED BY <2>1, <2>2, <2>3
<1> QED BY <1>3, <1>4 DEF LocksNest

\* Threads keep their requests, and the one that moves stays in its handler.
LEMMA RequestsKept ==
  ASSUME TypeOK, RequestsMatch, NEW t \in Threads, NEW label, GoTo(t, label),
         UNCHANGED req, pc[t] # "idle",
         label \in EntryPCs \union {"request_token"} => HasEntry(t) \/ pc[t] = "request_token",
         label = "create" => pc[t] = "create"
  PROVE  RequestsMatch'
  BY OneMoves DEF RequestsMatch, HasEntry

\* No other thread is at a reader while one is inside.
LEMMA CursorAlone ==
  ASSUME TypeOK, LocksNest, NEW t \in Threads, NEW label, GoTo(t, label),
         Inside(t), label # "rcall"
  PROVE  CursorOK'
<1>1. \A u \in Threads \ {t} : pc[u] # "rcall"
  BY DEF LocksNest, Inside, InsidePCs, EntryPCs
<1> QED BY <1>1, OneMoves DEF CursorOK

\* The readers are where they were.
LEMMA CursorKept ==
  ASSUME TypeOK, CursorOK, NEW t \in Threads, NEW label, GoTo(t, label), label # "rcall",
         UNCHANGED MDRTokens, \A u \in Threads \ {t} : req'[u] = req[u] /\ it'[u] = it[u]
  PROVE  CursorOK'
  BY OneMoves DEF CursorOK, AtReader, Tokens, Wanted
-----------------------------------------------------------------------------
(* Each action preserves the invariant.                                     *)

LEMMA AcceptStep ==
  ASSUME IInv, NEW t \in Threads, NEW r \in Requests, Accept(t, r)
  PROVE  IInv'
<1> USE DEF IInv, Accept, At, tableVars, lockVars
<1>1. TypeOK'  BY DEF TypeOK, PCs, GoTo
<1>2. LocksNest'
  <2>1. \A u \in Threads : HasEntry(u) => req'[u] = req[u]
    BY DEF TypeOK, HasEntry, EntryPCs
  <2> QED BY <2>1, LocksKept DEF Inside, HasEntry, InsidePCs, EntryPCs
<1>3. RequestsMatch'
  <2>1. req'[t] = r /\ \A u \in Threads \ {t} : req'[u] = req[u]  BY DEF TypeOK
  <2> QED BY <2>1, OneMoves DEF RequestsMatch, HasEntry, EntryPCs
<1>4. CursorOK'  BY CursorKept DEF TypeOK
<1>5. WriteTokensDisjoint'  BY DEF WriteTokensDisjoint
<1> QED BY <1>1, <1>2, <1>3, <1>4, <1>5

\* LockTable keeps the invariant.
LEMMA LockTableStep ==
  ASSUME IInv, NEW t \in Threads, LockTable(t)
  PROVE  IInv'
<1> USE DEF IInv, LockTable, At, tableVars, envVars
<1>0. req[t].op \in {"request_token", "create", "open", "delete", "fstat"}
  BY RequestFields DEF RequestsMatch
<1>1. TypeOK'  BY <1>0 DEF TypeOK, PCs, GoTo
<1>2. LocksNest'
  <2>1. \A u \in Threads : ~Inside(u)
    BY NamesAssumption DEF LocksNest
  <2>2. /\ pc'[t] = req[t].op
        /\ \A u \in Threads \ {t} : pc'[u] = pc[u]
    BY OneMoves
  <2>3. \A u \in Threads : HasEntry(u)' <=> HasEntry(u)
    BY <1>0, <2>1, <2>2 DEF HasEntry, Inside, InsidePCs, EntryPCs
  <2>4. \A u \in Threads : Inside(u)' <=> u = t
    BY <1>0, <2>1, <2>2 DEF Inside, InsidePCs, EntryPCs
  <2> QED BY <2>3, <2>4 DEF LocksNest
<1>3. RequestsMatch'  BY <1>0, OneMoves DEF RequestsMatch, HasEntry, EntryPCs
<1>4. CursorOK'  BY <1>0, CursorKept
<1>5. WriteTokensDisjoint'  BY DEF WriteTokensDisjoint
<1> QED BY <1>1, <1>2, <1>3, <1>4, <1>5

\* SendResponse keeps the invariant.
LEMMA SendResponseStep ==
  ASSUME IInv, NEW t \in Threads, SendResponse(t)
  PROVE  IInv'
<1> USE DEF IInv, SendResponse, At, tableVars, lockVars, envVars
<1>0. req'[t] = NoRequest /\ \A u \in Threads \ {t} : req'[u] = req[u] /\ it'[u] = it[u]
  BY DEF TypeOK
<1>1. TypeOK'  BY DEF TypeOK, PCs, Responses, GoTo
<1>2. LocksNest'
  <2>1. \A u \in Threads : HasEntry(u) => req'[u] = req[u]
    BY <1>0 DEF HasEntry, EntryPCs
  <2> QED BY <2>1, LocksKept DEF Inside, HasEntry, InsidePCs, EntryPCs
<1>3. RequestsMatch'
  <2>1. pc'[t] = "idle" /\ \A u \in Threads \ {t} : pc'[u] = pc[u]
    BY OneMoves
  <2>2. ASSUME NEW u \in Threads \ {t}
        PROVE  /\ pc'[u] # "idle" => req'[u] \in Requests
               /\ HasEntry(u)' \/ pc'[u] = "request_token" => req'[u].op = "request_token"
               /\ pc'[u] = "create" => req'[u].op = "create"
    BY <1>0, <2>1 DEF RequestsMatch, HasEntry
  <2> QED BY <2>1, <2>2 DEF RequestsMatch, HasEntry, EntryPCs
<1>4. CursorOK'  BY <1>0, CursorKept
<1>5. WriteTokensDisjoint'  BY DEF WriteTokensDisjoint
<1> QED BY <1>1, <1>2, <1>3, <1>4, <1>5

\* A call to a file server changes the disk of that server and the response; a
\* server that is not in the list does not serve.
LEMMA ServerCallType ==
  ASSUME TypeOK, NEW t \in Threads, NEW s, NEW outcome, outcome.answer \in Responses,
         s \in Servers => outcome.files \in SUBSET Files,
         ServerCall(t, s, outcome)
  PROVE  /\ disk' \in [Servers -> SUBSET Files]
         /\ serving' \subseteq Servers
         /\ response' \in [Threads -> Responses]
<1>1. "nack" \in Responses  BY DEF Responses
<1>2. s \in serving => s \in Servers  BY DEF TypeOK
<1> QED BY <1>1, <1>2 DEF ServerCall, TypeOK

\* What a file server is left with is a set of file names.
LEMMA Outcomes ==
  ASSUME TypeOK, NEW s, NEW f \in Files
  PROVE  \A outcome \in {ServerCreate(disk[s], f), ServerDelete(disk[s], f), ServerStat(disk[s], f)} :
           /\ outcome.answer \in Responses \ {"locking_failed"}
           /\ s \in Servers => outcome.files \in SUBSET Files
<1>1. s \in Servers => disk[s] \in SUBSET Files
  BY DEF TypeOK
<1>2. {"ack", "nack", "stat"} \subseteq Responses \ {"locking_failed"}
  BY DEF Responses
<1>3. /\ ServerCreate(disk[s], f).answer \in {"ack", "nack"}
      /\ ServerCreate(disk[s], f).files = disk[s] \union {f}
  BY DEF ServerCreate
<1>4. /\ ServerDelete(disk[s], f).answer \in {"ack", "nack"}
      /\ ServerDelete(disk[s], f).files = disk[s] \ {f}
  BY DEF ServerDelete
<1>5. /\ ServerStat(disk[s], f).answer \in {"stat", "nack"}
      /\ ServerStat(disk[s], f).files = disk[s]
  BY DEF ServerStat
<1> QED BY <1>1, <1>2, <1>3, <1>4, <1>5

\* The loops over the servers: pc, the locks and the tables stay.
LEMMA LoopStep ==
  ASSUME IInv, NEW t \in Threads, UNCHANGED << tableVars, lockVars, pc, req, it, up, arrived >>,
         disk' \in [Servers -> SUBSET Files], serving' \subseteq Servers,
         response' \in [Threads -> Responses], srv' \in [Threads -> Nat], crashed' \in BOOLEAN
  PROVE  IInv'
<1> USE DEF IInv, tableVars, lockVars
<1>1. TypeOK'  BY DEF TypeOK
<1>2. LocksNest'  BY DEF LocksNest, Inside, HasEntry
<1>3. RequestsMatch'  BY DEF RequestsMatch, HasEntry
<1>4. CursorOK'  BY DEF CursorOK, AtReader, Tokens, Wanted
<1>5. WriteTokensDisjoint'  BY DEF WriteTokensDisjoint
<1> QED BY <1>1, <1>2, <1>3, <1>4, <1>5

\* CreateOnServer keeps the invariant.
LEMMA CreateOnServerStep ==
  ASSUME IInv, NEW t \in Threads, CreateOnServer(t)
  PROVE  IInv'
<1> DEFINE f == req[t].file
           s == srv[t]
<1>1. f \in Files
  BY RequestFields DEF IInv, RequestsMatch, CreateOnServer, At
<1>2. s \in Nat /\ TypeOK
  BY DEF IInv, TypeOK
<1>3. CASE ServerCall(t, s, ServerCreate(disk[s], f))
           /\ srv' = [srv EXCEPT ![t] = s + 1] /\ UNCHANGED crashed
  <2>1. /\ disk' \in [Servers -> SUBSET Files]
        /\ serving' \subseteq Servers
        /\ response' \in [Threads -> Responses]
    BY <1>1, <1>2, <1>3, Outcomes, ServerCallType
  <2>2. srv' \in [Threads -> Nat] /\ crashed' \in BOOLEAN
    BY <1>2, <1>3 DEF TypeOK
  <2> QED BY <2>1, <2>2, LoopStep DEF CreateOnServer
<1>4. CASE crashed' = TRUE /\ UNCHANGED << disk, serving, response, srv >>
  <2>1. /\ disk' \in [Servers -> SUBSET Files]
        /\ serving' \subseteq Servers
        /\ response' \in [Threads -> Responses]
        /\ srv' \in [Threads -> Nat]
        /\ crashed' \in BOOLEAN
    BY <1>2, <1>4 DEF TypeOK
  <2> QED BY <2>1, LoopStep DEF CreateOnServer
<1> QED BY <1>3, <1>4 DEF CreateOnServer

\* DeleteOnServer keeps the invariant.
LEMMA DeleteOnServerStep ==
  ASSUME IInv, NEW t \in Threads, DeleteOnServer(t)
  PROVE  IInv'
<1> DEFINE f == req[t].file
           s == srv[t]
<1>1. f \in Files
  BY RequestFields DEF IInv, RequestsMatch, DeleteOnServer, At
<1>2. s \in Nat /\ TypeOK
  BY DEF IInv, TypeOK
<1>3. /\ disk' \in [Servers -> SUBSET Files]
      /\ serving' \subseteq Servers
      /\ response' \in [Threads -> Responses]
  BY <1>1, <1>2, Outcomes, ServerCallType DEF DeleteOnServer
<1>4. srv' \in [Threads -> Nat] /\ crashed' \in BOOLEAN
  BY <1>2 DEF DeleteOnServer, TypeOK
<1> QED BY <1>3, <1>4, LoopStep DEF DeleteOnServer

\* StatOnServer keeps the invariant.
LEMMA StatOnServerStep ==
  ASSUME IInv, NEW t \in Threads, StatOnServer(t)
  PROVE  IInv'
<1> DEFINE f == req[t].file
           s == srv[t]
<1>1. f \in Files
  BY RequestFields DEF IInv, RequestsMatch, StatOnServer, At
<1>2. s \in Nat /\ TypeOK
  BY DEF IInv, TypeOK
<1>3. /\ disk' \in [Servers -> SUBSET Files]
      /\ serving' \subseteq Servers
      /\ response' \in [Threads -> Responses]
  BY <1>1, <1>2, Outcomes, ServerCallType DEF StatOnServer
<1>4. srv' \in [Threads -> Nat] /\ crashed' \in BOOLEAN
  BY <1>2 DEF StatOnServer, TypeOK
<1> QED BY <1>3, <1>4, LoopStep DEF StatOnServer

\* CreateEntry keeps the invariant.
LEMMA CreateEntryStep ==
  ASSUME IInv, NEW t \in Threads, CreateEntry(t)
  PROVE  IInv'
<1>0. /\ TypeOK /\ LocksNest /\ RequestsMatch /\ CursorOK /\ WriteTokensDisjoint
      /\ pc[t] = "create" /\ GoTo(t, "reply") /\ UNCHANGED << req, it, fe_lock >>
      /\ gft_lock' = Free
      /\ req[t] \in Requests
  BY DEF IInv, CreateEntry, At, Reply, RequestsMatch
<1>1. TypeOK'
  BY <1>0, RequestFields DEF CreateEntry, Reply, GoTo, envVars, TypeOK, PCs, Responses
<1>2. LocksNest'  BY <1>0, LocksLeft, NamesAssumption DEF Inside, HasEntry, InsidePCs, EntryPCs
<1>3. RequestsMatch'  BY <1>0, RequestsKept DEF EntryPCs
<1>4. CursorOK'  BY <1>0, CursorAlone DEF Inside, InsidePCs
<1>5. WriteTokensDisjoint'  BY <1>0 DEF CreateEntry, WriteTokensDisjoint
<1> QED BY <1>1, <1>2, <1>3, <1>4, <1>5 DEF IInv

\* Open keeps the invariant.
LEMMA OpenStep ==
  ASSUME IInv, NEW t \in Threads, Open(t)
  PROVE  IInv'
<1>0. /\ TypeOK /\ LocksNest /\ RequestsMatch /\ CursorOK /\ WriteTokensDisjoint
      /\ pc[t] = "open" /\ GoTo(t, "reply") /\ UNCHANGED << req, it, fe_lock >>
      /\ gft_lock' = Free
      /\ req[t] \in Requests
  BY DEF IInv, Open, At, Reply, RequestsMatch
<1>1. TypeOK'
  BY <1>0 DEF Open, Reply, GoTo, tableVars, envVars, TypeOK, PCs, Responses
<1>2. LocksNest'  BY <1>0, LocksLeft, NamesAssumption DEF Inside, HasEntry, InsidePCs, EntryPCs
<1>3. RequestsMatch'  BY <1>0, RequestsKept DEF EntryPCs
<1>4. CursorOK'  BY <1>0, CursorAlone DEF Inside, InsidePCs
<1>5. WriteTokensDisjoint'  BY <1>0 DEF Open, tableVars, WriteTokensDisjoint
<1> QED BY <1>1, <1>2, <1>3, <1>4, <1>5 DEF IInv

\* DeleteEntry keeps the invariant.
LEMMA DeleteEntryStep ==
  ASSUME IInv, NEW t \in Threads, DeleteEntry(t)
  PROVE  IInv'
<1>0. /\ TypeOK /\ LocksNest /\ RequestsMatch /\ CursorOK /\ WriteTokensDisjoint
      /\ pc[t] = "deleting" /\ GoTo(t, "reply") /\ UNCHANGED << req, it, fe_lock >>
      /\ gft_lock' = Free
      /\ req[t] \in Requests
  BY DEF IInv, DeleteEntry, At, Reply, RequestsMatch
<1>1. TypeOK'
  BY <1>0, EmptySeq DEF DeleteEntry, Reply, GoTo, envVars, TypeOK, PCs, Responses
<1>2. LocksNest'  BY <1>0, LocksLeft, NamesAssumption DEF Inside, HasEntry, InsidePCs, EntryPCs
<1>3. RequestsMatch'  BY <1>0, RequestsKept DEF EntryPCs
<1>4. CursorOK'  BY <1>0, CursorAlone DEF Inside, InsidePCs
<1>5. WriteTokensDisjoint'  BY <1>0 DEF DeleteEntry, WriteTokensDisjoint, TypeOK
<1> QED BY <1>1, <1>2, <1>3, <1>4, <1>5 DEF IInv

\* StatDone keeps the invariant.
LEMMA StatDoneStep ==
  ASSUME IInv, NEW t \in Threads, StatDone(t)
  PROVE  IInv'
<1>0. /\ TypeOK /\ LocksNest /\ RequestsMatch /\ CursorOK /\ WriteTokensDisjoint
      /\ pc[t] = "stating" /\ GoTo(t, "reply") /\ UNCHANGED << req, it, fe_lock >>
      /\ gft_lock' = Free
      /\ req[t] \in Requests
  BY DEF IInv, StatDone, At, Reply, RequestsMatch
<1>1. TypeOK'
  BY <1>0 DEF StatDone, Reply, GoTo, tableVars, envVars, TypeOK, PCs, Responses
<1>2. LocksNest'  BY <1>0, LocksLeft, NamesAssumption DEF Inside, HasEntry, InsidePCs, EntryPCs
<1>3. RequestsMatch'  BY <1>0, RequestsKept DEF EntryPCs
<1>4. CursorOK'  BY <1>0, CursorAlone DEF Inside, InsidePCs
<1>5. WriteTokensDisjoint'  BY <1>0 DEF StatDone, tableVars, WriteTokensDisjoint
<1> QED BY <1>1, <1>2, <1>3, <1>4, <1>5 DEF IInv

\* The lookup of delete and fstat: on to the loop, or out with gft_lock orphaned.
LEMMA FindOrLeakStep ==
  ASSUME IInv, NEW t \in Threads, NEW loop \in {"deleting", "stating"},
         pc[t] \in {"delete", "fstat"}, FindOrLeak(t, loop)
  PROVE  IInv'
<1>0. /\ TypeOK /\ LocksNest /\ RequestsMatch /\ CursorOK /\ WriteTokensDisjoint
      /\ UNCHANGED << tableVars, fe_lock, req, srv, it, envVars, crashed >>
  BY DEF IInv, FindOrLeak
<1>1. CASE GoTo(t, loop) /\ UNCHANGED << gft_lock, response >>
  <2>1. TypeOK'  BY <1>0, <1>1 DEF GoTo, tableVars, envVars, TypeOK, PCs
  <2>2. LocksNest'  BY <1>0, <1>1, LocksKept DEF lockVars, Inside, HasEntry, InsidePCs, EntryPCs
  <2>3. RequestsMatch'  BY <1>0, <1>1, RequestsKept DEF EntryPCs
  <2>4. CursorOK'  BY <1>0, <1>1, CursorAlone DEF Inside, InsidePCs
  <2>5. WriteTokensDisjoint'  BY <1>0 DEF tableVars, WriteTokensDisjoint
  <2> QED BY <2>1, <2>2, <2>3, <2>4, <2>5 DEF IInv
<1>2. CASE gft_lock' = Orphan /\ Reply(t, "nack")
  <2>0. GoTo(t, "reply")  BY <1>2 DEF Reply
  <2>1. TypeOK'  BY <1>0, <1>2 DEF GoTo, Reply, tableVars, envVars, TypeOK, PCs, Responses
  <2>2. LocksNest'
    BY <1>0, <1>2, <2>0, LocksLeft, NamesAssumption DEF Inside, HasEntry, InsidePCs, EntryPCs
  <2>3. RequestsMatch'  BY <1>0, <2>0, RequestsKept DEF EntryPCs
  <2>4. CursorOK'  BY <1>0, <2>0, CursorAlone DEF Inside, InsidePCs
  <2>5. WriteTokensDisjoint'  BY <1>0 DEF tableVars, WriteTokensDisjoint
  <2> QED BY <2>1, <2>2, <2>3, <2>4, <2>5 DEF IInv
<1> QED BY <1>1, <1>2 DEF FindOrLeak
-----------------------------------------------------------------------------
(* The actions of request_token.                                            *)

\* What is known of a thread that serves a token request.
LEMMA Serving ==
  ASSUME IInv, NEW t \in Threads, HasEntry(t) \/ pc[t] = "request_token"
  PROVE  /\ req[t] \in Requests
         /\ req[t].file \in Files
         /\ Wanted(t) \in Interval
         /\ req[t].cl \in Clients
         /\ Tokens(t) \in Seq(Token)
         /\ \A e \in FoundWriter(t) : /\ e \in MDWTokens[req[t].file]
                                      /\ e \in Token
                                      /\ Overlaps(e.iv, Wanted(t))
<1>1. req[t] \in Requests /\ req[t].op = "request_token"
  BY DEF IInv, RequestsMatch, HasEntry, EntryPCs
<1>2. req[t].file \in Files /\ req[t].iv \in Interval /\ req[t].cl \in Clients
  BY <1>1, RequestFields
<1> QED BY <1>1, <1>2 DEF IInv, TypeOK, Wanted, Tokens, FoundWriter, FirstOverlap

\* Disjoint keys, said with the comparison of the map.
LEMMA DisjointKeys ==
  ASSUME NEW map \in SUBSET Token
  PROVE  (\A d, e \in map : d # e => Blocks(d.iv) \intersect Blocks(e.iv) = {})
         <=> (\A d, e \in map : d # e => ~Overlaps(d.iv, e.iv))
<1>1. \A d \in map : d.iv \in Interval  BY DEF Token
<1> QED BY <1>1, OverlapsMeet

\* A map of tokens in which the entries of one file change.
LEMMA DisjointUpdate ==
  ASSUME TypeOK, WriteTokensDisjoint, NEW f \in Files, NEW map \in SUBSET Token,
         \A d, e \in map : d # e => ~Overlaps(d.iv, e.iv),
         MDWTokens' = [MDWTokens EXCEPT ![f] = map]
  PROVE  MDWTokens' \in [Files -> SUBSET Token] /\ WriteTokensDisjoint'
<1>1. MDWTokens' \in [Files -> SUBSET Token]  BY DEF TypeOK
<1>2. MDWTokens'[f] = map /\ \A g \in Files \ {f} : MDWTokens'[g] = MDWTokens[g]
  BY DEF TypeOK
<1>3. \A d, e \in map : d # e => Blocks(d.iv) \intersect Blocks(e.iv) = {}
  BY DisjointKeys
<1> QED BY <1>1, <1>2, <1>3 DEF WriteTokensDisjoint

\* Taking a token from a writer leaves disjoint tokens.
LEMMA DropWriterTokens ==
  ASSUME IInv, NEW t \in Threads, HasEntry(t), NEW e \in FoundWriter(t), DropWriter(t, e)
  PROVE  MDWTokens' \in [Files -> SUBSET Token] /\ WriteTokensDisjoint'
<1> DEFINE f == req[t].file
           rest == MDWTokens[f] \ {e}
           map == MapInsert(rest, Range(Pieces(t, e)))
<1>1. /\ f \in Files /\ Wanted(t) \in Interval /\ e \in Token /\ Overlaps(e.iv, Wanted(t))
      /\ TypeOK /\ WriteTokensDisjoint
  BY Serving DEF IInv
<1>2. MDWTokens[f] \in SUBSET Token  BY <1>1 DEF TypeOK
<1>3. \A d, g \in rest : d # g => ~Overlaps(d.iv, g.iv)
  BY <1>1, <1>2, DisjointKeys DEF WriteTokensDisjoint
<1>4. /\ Range(Pieces(t, e)) \subseteq Token
      /\ \A d, g \in Range(Pieces(t, e)) : d # g => ~Overlaps(d.iv, g.iv)
  BY <1>1, PiecesOf
<1>5. map \in SUBSET Token  BY <1>2, <1>4 DEF MapInsert
<1>6. \A d, g \in map : d # g => ~Overlaps(d.iv, g.iv)
  <2> HIDE DEF rest
  <2> QED BY <1>3, <1>4, InsertDisjoint
<1>7. MDWTokens' = [MDWTokens EXCEPT ![f] = map]  BY DEF DropWriter
<1> HIDE DEF map
<1> QED BY <1>1, <1>5, <1>6, <1>7, DisjointUpdate

\* Erasing a reader and appending its pieces leaves a vector of tokens.
LEMMA DropReaderTokens ==
  ASSUME IInv, NEW t \in Threads, HasEntry(t), AtReader(t), Overlaps(Wanted(t), Tokens(t)[it[t]].iv),
         DropReader(t)
  PROVE  /\ MDRTokens' \in [Files -> Seq(Token)]
         /\ capacity' \in [Files -> Nat]
         /\ it' \in [Threads -> Nat]
<1> DEFINE f == req[t].file
           n == it[t]
           pieces == Pieces(t, Tokens(t)[n])
<1>1. f \in Files /\ Wanted(t) \in Interval /\ Tokens(t) \in Seq(Token) /\ TypeOK
  BY Serving DEF IInv
<1>2. n \in 1 .. Len(Tokens(t)) /\ Tokens(t)[n] \in Token
  BY <1>1 DEF AtReader
<1>3. Overlaps(Tokens(t)[n].iv, Wanted(t))
  BY DEF Overlaps
<1>4. pieces \in Seq(Token)  BY <1>1, <1>2, <1>3, PiecesOf
<1>5. RemoveAt(Tokens(t), n) \o pieces \in Seq(Token)
  BY <1>1, <1>2, <1>4, RemoveAtSeq, ConcatProperties
<1>6. MDRTokens' = [MDRTokens EXCEPT ![f] = RemoveAt(Tokens(t), n) \o pieces]
  BY DEF DropReader, Tokens
<1>7. MDRTokens' \in [Files -> Seq(Token)]  BY <1>1, <1>5, <1>6 DEF TypeOK
<1>8. capacity' \in [Files -> Nat]  BY <1>1 DEF DropReader, TypeOK
<1>9. it' \in [Threads -> Nat]  BY <1>1 DEF DropReader, TypeOK
<1> QED BY <1>7, <1>8, <1>9

\* Steps that stay in the region where both locks are held.
LEMMA ServeStep ==
  ASSUME IInv, NEW t \in Threads, HasEntry(t), NEW label \in EntryPCs \ {"rcall"}, GoTo(t, label),
         UNCHANGED << known, width, lockVars, req, srv, response, envVars, crashed >>,
         MDWTokens' \in [Files -> SUBSET Token], WriteTokensDisjoint',
         MDRTokens' \in [Files -> Seq(Token)], capacity' \in [Files -> Nat], it' \in [Threads -> Nat]
  PROVE  IInv'
<1>0. TypeOK /\ LocksNest /\ RequestsMatch /\ CursorOK /\ pc[t] # "idle"
      /\ label \in PCs /\ label # "create" /\ label # "rcall" /\ Inside(t)
      /\ label \in InsidePCs /\ label \in EntryPCs
  BY DEF IInv, HasEntry, EntryPCs, PCs, Inside, InsidePCs
<1>1. TypeOK'  BY <1>0 DEF TypeOK, GoTo, lockVars, envVars
<1>2. LocksNest'  BY <1>0, LocksKept
<1>3. RequestsMatch'  BY <1>0, RequestsKept
<1>4. CursorOK'  BY <1>0, CursorAlone
<1> QED BY <1>1, <1>2, <1>3, <1>4 DEF IInv

\* FindEntry keeps the invariant: the thread that locks the table finds fe_lock free.
LEMMA FindEntryStep ==
  ASSUME IInv, NEW t \in Threads, FindEntry(t)
  PROVE  IInv'
<1> DEFINE f == req[t].file
<1>0. /\ TypeOK /\ LocksNest /\ RequestsMatch /\ CursorOK /\ WriteTokensDisjoint
      /\ pc[t] = "request_token" /\ UNCHANGED << tableVars, req, srv, it, envVars, crashed >>
      /\ Inside(t) /\ ~HasEntry(t)
  BY DEF IInv, FindEntry, At, Inside, HasEntry, InsidePCs, EntryPCs
<1>1. f \in Files  BY <1>0, Serving
<1>2. WriteTokensDisjoint'  BY <1>0 DEF tableVars, WriteTokensDisjoint
<1>3. CASE gft_lock' = Free /\ UNCHANGED fe_lock /\ \E r \in Responses : Reply(t, r)
  <2>0. GoTo(t, "reply")  BY <1>3 DEF Reply
  <2>1. TypeOK'  BY <1>0, <1>3 DEF GoTo, Reply, tableVars, envVars, TypeOK, PCs
  <2>2. LocksNest'
    BY <1>0, <1>3, <2>0, LocksLeft, NamesAssumption DEF InsidePCs, EntryPCs
  <2>3. RequestsMatch'  BY <1>0, <2>0, RequestsKept DEF EntryPCs
  <2>4. CursorOK'  BY <1>0, <2>0, CursorAlone
  <2> QED BY <1>2, <2>1, <2>2, <2>3, <2>4 DEF IInv
<1>4. CASE fe_lock[f] = Free /\ fe_lock' = [fe_lock EXCEPT ![f] = t] /\ GoTo(t, "writers")
           /\ UNCHANGED << gft_lock, response >>
  <2>1. TypeOK'  BY <1>0, <1>1, <1>4 DEF GoTo, tableVars, envVars, TypeOK, PCs
  <2>2. LocksNest'
    <3>1. pc'[t] = "writers" /\ \A u \in Threads \ {t} : pc'[u] = pc[u]
      BY <1>0, <1>4, OneMoves
    <3>2. gft_lock = t /\ \A u \in Threads \ {t} : ~Inside(u)
      BY <1>0 DEF LocksNest
    <3>3. \A u \in Threads : Inside(u)' <=> u = t
      BY <3>1, <3>2 DEF Inside, InsidePCs, EntryPCs
    <3>4. \A u \in Threads : HasEntry(u)' <=> u = t
      BY <3>1, <3>2 DEF Inside, HasEntry, InsidePCs, EntryPCs
    <3>5. \A u \in Threads, g \in Files : fe_lock[g] # u
      BY <1>0, <3>2 DEF LocksNest, Inside, HasEntry, InsidePCs
    <3>6. fe_lock'[f] = t /\ \A g \in Files \ {f} : fe_lock'[g] = fe_lock[g]
      BY <1>0, <1>1, <1>4 DEF TypeOK
    <3> QED BY <1>0, <1>4, <3>2, <3>3, <3>4, <3>5, <3>6 DEF LocksNest
  <2>3. RequestsMatch'  BY <1>0, <1>4, RequestsKept
  <2>4. CursorOK'  BY <1>0, <1>4, CursorAlone
  <2> QED BY <1>2, <2>1, <2>2, <2>3, <2>4 DEF IInv
<1> QED BY <1>3, <1>4 DEF FindEntry, Responses

\* "nack", "exception" or consent: the tokens change or stay, the locks stay.
LEMMA RevokeWriterStep ==
  ASSUME IInv, NEW t \in Threads, RevokeWriter(t)
  PROVE  IInv'
<1>0. pc[t] = "writers" /\ HasEntry(t) /\ TypeOK /\ WriteTokensDisjoint
      /\ UNCHANGED << lockVars, req, srv, it, response, envVars, crashed >>
  BY DEF IInv, RevokeWriter, At, HasEntry, EntryPCs
<1>1. /\ MDRTokens \in [Files -> Seq(Token)] /\ capacity \in [Files -> Nat]
      /\ it \in [Threads -> Nat] /\ MDWTokens \in [Files -> SUBSET Token]
  BY <1>0 DEF TypeOK
<1>2. CASE GoTo(t, "wcall") /\ UNCHANGED tableVars
  <2>1. WriteTokensDisjoint'  BY <1>0, <1>2 DEF tableVars, WriteTokensDisjoint
  <2> QED BY <1>0, <1>1, <1>2, <2>1, ServeStep DEF tableVars, EntryPCs
<1>3. ASSUME NEW e \in FoundWriter(t), DropWriter(t, e), UNCHANGED pc PROVE IInv'
  <2>1. GoTo(t, "writers")  BY <1>0, <1>3 DEF TypeOK, GoTo
  <2>2. MDWTokens' \in [Files -> SUBSET Token] /\ WriteTokensDisjoint'
    BY <1>0, <1>3, DropWriterTokens
  <2> QED BY <1>0, <1>1, <1>3, <2>1, <2>2, ServeStep DEF DropWriter, EntryPCs
<1> QED BY <1>2, <1>3 DEF RevokeWriter

\* WriterAnswer keeps the invariant.
LEMMA WriterAnswerStep ==
  ASSUME IInv, NEW t \in Threads, WriterAnswer(t)
  PROVE  IInv'
<1>0. pc[t] = "wcall" /\ HasEntry(t) /\ TypeOK /\ WriteTokensDisjoint /\ GoTo(t, "writers")
      /\ UNCHANGED << lockVars, req, srv, it, response, envVars, crashed >>
  BY DEF IInv, WriterAnswer, At, HasEntry, EntryPCs
<1>1. /\ MDRTokens \in [Files -> Seq(Token)] /\ capacity \in [Files -> Nat]
      /\ it \in [Threads -> Nat] /\ MDWTokens \in [Files -> SUBSET Token]
  BY <1>0 DEF TypeOK
<1>2. CASE UNCHANGED tableVars
  <2>1. WriteTokensDisjoint'  BY <1>0, <1>2 DEF tableVars, WriteTokensDisjoint
  <2> QED BY <1>0, <1>1, <1>2, <2>1, ServeStep DEF tableVars, EntryPCs
<1>3. ASSUME NEW e \in FoundWriter(t), DropWriter(t, e) PROVE IInv'
  <2>1. MDWTokens' \in [Files -> SUBSET Token] /\ WriteTokensDisjoint'
    BY <1>0, <1>3, DropWriterTokens
  <2> QED BY <1>0, <1>1, <1>3, <2>1, ServeStep DEF DropWriter, EntryPCs
<1> QED BY <1>2, <1>3 DEF WriterAnswer

\* StartReaders keeps the invariant.
LEMMA StartReadersStep ==
  ASSUME IInv, NEW t \in Threads, StartReaders(t)
  PROVE  IInv'
<1>0. HasEntry(t) /\ TypeOK /\ WriteTokensDisjoint /\ GoTo(t, "readers")
      /\ UNCHANGED << tableVars, lockVars, req, srv, response, envVars, crashed >>
  BY DEF IInv, StartReaders, At, HasEntry, EntryPCs
<1>1. /\ MDRTokens \in [Files -> Seq(Token)] /\ capacity \in [Files -> Nat]
      /\ it' \in [Threads -> Nat] /\ MDWTokens \in [Files -> SUBSET Token]
  BY <1>0 DEF TypeOK, StartReaders
<1>2. WriteTokensDisjoint'  BY <1>0 DEF tableVars, WriteTokensDisjoint
<1> QED BY <1>0, <1>1, <1>2, ServeStep DEF tableVars, EntryPCs

\* The iterator moves past a reader that keeps its token.
LEMMA KeepReaderStep ==
  ASSUME IInv, NEW t \in Threads, HasEntry(t), KeepReader(t), GoTo(t, "readers"),
         UNCHANGED << lockVars, req, srv, response, envVars, crashed >>
  PROVE  IInv'
<1>0. TypeOK /\ WriteTokensDisjoint  BY DEF IInv
<1>1. /\ MDRTokens \in [Files -> Seq(Token)] /\ capacity \in [Files -> Nat]
      /\ it' \in [Threads -> Nat] /\ MDWTokens \in [Files -> SUBSET Token]
  BY <1>0 DEF TypeOK, KeepReader
<1>2. WriteTokensDisjoint'  BY <1>0 DEF KeepReader, tableVars, WriteTokensDisjoint
<1> QED BY <1>0, <1>1, <1>2, ServeStep DEF KeepReader, tableVars, EntryPCs

\* A reader is erased.
LEMMA DropReaderStep ==
  ASSUME IInv, NEW t \in Threads, HasEntry(t), AtReader(t), Overlaps(Wanted(t), Tokens(t)[it[t]].iv),
         DropReader(t), GoTo(t, "readers"),
         UNCHANGED << lockVars, req, srv, response, envVars, crashed >>
  PROVE  IInv'
<1>1. /\ MDRTokens' \in [Files -> Seq(Token)]
      /\ capacity' \in [Files -> Nat]
      /\ it' \in [Threads -> Nat]
  BY DropReaderTokens
<1>2. MDWTokens \in [Files -> SUBSET Token] /\ UNCHANGED << known, width, MDWTokens >>
  BY DEF IInv, TypeOK, DropReader
<1>3. WriteTokensDisjoint'  BY <1>2 DEF IInv, WriteTokensDisjoint
<1> QED BY <1>1, <1>2, <1>3, ServeStep DEF EntryPCs

\* ScanReader keeps the invariant.
LEMMA ScanReaderStep ==
  ASSUME IInv, NEW t \in Threads, ScanReader(t)
  PROVE  IInv'
<1> DEFINE e == Tokens(t)[it[t]]
<1>0. /\ TypeOK /\ LocksNest /\ RequestsMatch /\ CursorOK /\ WriteTokensDisjoint
      /\ pc[t] = "readers" /\ HasEntry(t) /\ AtReader(t)
      /\ UNCHANGED << lockVars, req, srv, response, envVars, crashed >>
  BY DEF IInv, ScanReader, At, HasEntry, EntryPCs
<1>1. UNCHANGED pc => GoTo(t, "readers")
  BY <1>0 DEF GoTo, TypeOK
<1>2. CASE KeepReader(t) /\ UNCHANGED pc
  BY <1>0, <1>1, <1>2, KeepReaderStep
<1>3. CASE Overlaps(Wanted(t), e.iv) /\ DropReader(t) /\ UNCHANGED pc
  BY <1>0, <1>1, <1>3, DropReaderStep
<1>4. CASE Overlaps(Wanted(t), e.iv) /\ GoTo(t, "rcall") /\ UNCHANGED << tableVars, it >>
  <2>1. TypeOK'  BY <1>0, <1>4 DEF GoTo, tableVars, lockVars, envVars, TypeOK, PCs
  <2>2. LocksNest'  BY <1>0, <1>4, LocksKept DEF Inside, InsidePCs, EntryPCs
  <2>3. RequestsMatch'  BY <1>0, <1>4, RequestsKept
  <2>4. CursorOK'
    <3>1. \A u \in Threads \ {t} : pc[u] # "rcall"
      BY <1>0 DEF LocksNest, Inside, HasEntry, InsidePCs, EntryPCs
    <3>2. pc'[t] = "rcall" /\ \A u \in Threads \ {t} : pc'[u] = pc[u]
      BY <1>0, <1>4, OneMoves
    <3>3. AtReader(t)' /\ Overlaps(Wanted(t), Tokens(t)[it[t]].iv)'
      BY <1>0, <1>4 DEF tableVars, AtReader, Tokens, Wanted
    <3> QED BY <3>1, <3>2, <3>3 DEF CursorOK
  <2>5. WriteTokensDisjoint'  BY <1>0, <1>4 DEF tableVars, WriteTokensDisjoint
  <2> QED BY <2>1, <2>2, <2>3, <2>4, <2>5 DEF IInv
<1> QED BY <1>2, <1>3, <1>4 DEF ScanReader

\* ReaderAnswer keeps the invariant.
LEMMA ReaderAnswerStep ==
  ASSUME IInv, NEW t \in Threads, ReaderAnswer(t)
  PROVE  IInv'
<1>0. /\ HasEntry(t) /\ AtReader(t) /\ Overlaps(Wanted(t), Tokens(t)[it[t]].iv)
      /\ GoTo(t, "readers")
      /\ UNCHANGED << lockVars, req, srv, response, envVars, crashed >>
  BY DEF IInv, ReaderAnswer, At, HasEntry, EntryPCs, CursorOK
<1>1. CASE DropReader(t)  BY <1>0, <1>1, DropReaderStep
<1>2. CASE KeepReader(t)  BY <1>0, <1>2, KeepReaderStep
<1> QED BY <1>1, <1>2 DEF ReaderAnswer

\* A grant leaves the locked region with both locks free.
LEMMA GrantStep ==
  ASSUME IInv, NEW t \in Threads, HasEntry(t), Unlock(t), Reply(t, "granted"),
         UNCHANGED << known, width, req, srv, it, envVars, crashed >>,
         MDWTokens' \in [Files -> SUBSET Token], WriteTokensDisjoint',
         MDRTokens' \in [Files -> Seq(Token)], capacity' \in [Files -> Nat]
  PROVE  IInv'
<1>0. /\ TypeOK /\ LocksNest /\ RequestsMatch /\ CursorOK /\ GoTo(t, "reply") /\ Inside(t)
      /\ pc[t] # "idle" /\ req[t].file \in Files /\ gft_lock' = Free
      /\ fe_lock' = [fe_lock EXCEPT ![req[t].file] = Free]
  BY Serving DEF IInv, Reply, Unlock, HasEntry, Inside, InsidePCs, EntryPCs
<1>1. TypeOK'  BY <1>0 DEF TypeOK, Reply, GoTo, envVars, PCs, Responses
<1>2. LocksNest'
  BY <1>0, LocksLeft, NamesAssumption DEF InsidePCs, EntryPCs
<1>3. RequestsMatch'  BY <1>0, RequestsKept DEF EntryPCs
<1>4. CursorOK'  BY <1>0, CursorAlone
<1> QED BY <1>1, <1>2, <1>3, <1>4 DEF IInv

\* GrantRead keeps the invariant: no write token is left that shares a block with the new read token.
LEMMA GrantReadStep ==
  ASSUME IInv, NEW t \in Threads, GrantRead(t)
  PROVE  IInv'
<1> DEFINE f == req[t].file
           new == [iv |-> Wanted(t), cl |-> req[t].cl]
<1>0. /\ HasEntry(t) /\ Unlock(t) /\ Reply(t, "granted") /\ TypeOK
      /\ UNCHANGED << known, width, MDWTokens, req, srv, it, envVars, crashed >>
  BY DEF IInv, GrantRead, At, HasEntry, EntryPCs
<1>1. f \in Files /\ new \in Token /\ Tokens(t) \in Seq(Token)
  BY <1>0, Serving DEF Token
<1>2. MDRTokens' = [MDRTokens EXCEPT ![f] = Append(Tokens(t), new)]
  BY DEF GrantRead, Tokens
<1>3. Append(Tokens(t), new) \in Seq(Token)
  <2> HIDE DEF new
  <2> QED BY <1>1, AppendProperties
<1>4. MDRTokens' \in [Files -> Seq(Token)]  BY <1>0, <1>1, <1>2, <1>3 DEF TypeOK
<1>5. capacity' \in [Files -> Nat]  BY <1>0, <1>1 DEF GrantRead, TypeOK
<1>6. MDWTokens' \in [Files -> SUBSET Token]  BY <1>0 DEF TypeOK
<1>7. WriteTokensDisjoint'  BY <1>0 DEF IInv, WriteTokensDisjoint
<1> QED BY <1>0, <1>4, <1>5, <1>6, <1>7, GrantStep

\* GrantWrite keeps the invariant: no write token is left that shares a block with the new one.
LEMMA GrantWriteStep ==
  ASSUME IInv, NEW t \in Threads, GrantWrite(t)
  PROVE  IInv'
<1> DEFINE f == req[t].file
           new == [iv |-> Wanted(t), cl |-> req[t].cl]
           map == MapInsert(MDWTokens[f], {new})
<1>0. /\ HasEntry(t) /\ Unlock(t) /\ Reply(t, "granted") /\ TypeOK /\ WriteTokensDisjoint
      /\ UNCHANGED << known, width, MDRTokens, capacity, req, srv, it, envVars, crashed >>
  BY DEF IInv, GrantWrite, At, HasEntry, EntryPCs
<1>1. f \in Files /\ new \in Token /\ MDWTokens[f] \in SUBSET Token
  BY <1>0, Serving DEF Token, TypeOK
<1>2. \A d, e \in MDWTokens[f] : d # e => ~Overlaps(d.iv, e.iv)
  BY <1>0, <1>1, DisjointKeys DEF WriteTokensDisjoint
<1>3. map \in SUBSET Token  BY <1>1 DEF MapInsert
<1>4. \A d, e \in map : d # e => ~Overlaps(d.iv, e.iv)
  <2> HIDE DEF new
  <2> QED BY <1>2, InsertDisjoint
<1>5. MDWTokens' = [MDWTokens EXCEPT ![f] = map]  BY DEF GrantWrite
<1>6. MDWTokens' \in [Files -> SUBSET Token] /\ WriteTokensDisjoint'
  <2> HIDE DEF map
  <2> QED BY <1>0, <1>1, <1>3, <1>4, <1>5, DisjointUpdate
<1>7. MDRTokens' \in [Files -> Seq(Token)] /\ capacity' \in [Files -> Nat]
  BY <1>0 DEF TypeOK
<1> QED BY <1>0, <1>6, <1>7, GrantStep

\* RunWild keeps the invariant.
LEMMA RunWildStep ==
  ASSUME IInv, NEW t \in Threads, RunWild(t)
  PROVE  IInv'
<1>0. /\ TypeOK /\ LocksNest /\ RequestsMatch /\ WriteTokensDisjoint
      /\ pc[t] = "readers" /\ UNCHANGED << tableVars, lockVars, pc, req, srv, response, envVars >>
  BY DEF IInv, RunWild, At
<1>1. it' \in [Threads -> Nat] /\ crashed' \in BOOLEAN
  <2>1. Tokens(t) \in Seq(Token)  BY <1>0, Serving DEF HasEntry, EntryPCs
  <2>2. Len(Tokens(t)) \in Nat  BY <2>1, LenProperties
  <2>3. it \in [Threads -> Nat] /\ crashed \in BOOLEAN  BY <1>0 DEF TypeOK
  <2>4. it' = it \/ it' = [it EXCEPT ![t] = Len(Tokens(t)) + 1]  BY DEF RunWild
  <2>5. crashed' = TRUE \/ crashed' = crashed  BY DEF RunWild
  <2>6. Len(Tokens(t)) + 1 \in Nat  BY <2>2
  <2>7. it' \in [Threads -> Nat]  BY <2>3, <2>4, <2>6
  <2>8. crashed' \in BOOLEAN  BY <2>3, <2>5
  <2> QED BY <2>7, <2>8
<1>2. TypeOK'  BY <1>0, <1>1 DEF TypeOK, tableVars, lockVars, envVars
<1>3. LocksNest'  BY <1>0 DEF LocksNest, Inside, HasEntry, lockVars
<1>4. RequestsMatch'  BY <1>0 DEF RequestsMatch, HasEntry
<1>5. CursorOK'
  <2>1. \A u \in Threads : pc'[u] # "rcall"
    BY <1>0 DEF LocksNest, Inside, InsidePCs, EntryPCs
  <2> QED BY <2>1 DEF CursorOK
<1>6. WriteTokensDisjoint'  BY <1>0 DEF WriteTokensDisjoint, tableVars
<1> QED BY <1>2, <1>3, <1>4, <1>5, <1>6 DEF IInv

\* Faults of the environment.
LEMMA EnvironmentStep ==
  ASSUME IInv,
         \/ \E s \in Fragile : ServerStop(s) \/ ServerRecover(s)
         \/ \E c \in Mortal : ClientExit(c)
  PROVE  IInv'
<1>0. UNCHANGED << tableVars, lockVars, threadVars, disk, arrived, crashed >>
  BY DEF ServerStop, ServerRecover, ClientExit
<1>1. serving' \subseteq Servers /\ up' \subseteq Clients
  BY FaultsAssumption DEF IInv, TypeOK, ServerStop, ServerRecover, ClientExit
<1> USE DEF IInv, tableVars, lockVars, threadVars
<1>2. TypeOK'  BY <1>0, <1>1 DEF TypeOK
<1>3. LocksNest'  BY <1>0 DEF LocksNest, Inside, HasEntry
<1>4. RequestsMatch'  BY <1>0 DEF RequestsMatch, HasEntry
<1>5. CursorOK'  BY <1>0 DEF CursorOK, AtReader, Tokens, Wanted
<1>6. WriteTokensDisjoint'  BY <1>0 DEF WriteTokensDisjoint
<1> QED BY <1>2, <1>3, <1>4, <1>5, <1>6
-----------------------------------------------------------------------------
(* The theorems.                                                            *)

LEMMA InitInvariant == Init => IInv
<1> SUFFICES ASSUME Init PROVE IInv
  OBVIOUS
<1>1. TypeOK  BY EmptySeq DEF Init, TypeOK, PCs, Responses
<1>2. LocksNest
  BY NamesAssumption DEF Init, LocksNest, Inside, HasEntry, InsidePCs, EntryPCs
<1>3. RequestsMatch  BY DEF Init, RequestsMatch, HasEntry, EntryPCs
<1>4. CursorOK  BY DEF Init, CursorOK
<1>5. WriteTokensDisjoint  BY DEF Init, WriteTokensDisjoint
<1> QED BY <1>1, <1>2, <1>3, <1>4, <1>5 DEF IInv

\* Every step of the specification keeps the invariant.
LEMMA NextInvariant == IInv /\ [Next]_vars => IInv'
<1> SUFFICES ASSUME IInv, [Next]_vars PROVE IInv'
  OBVIOUS
<1>1. CASE UNCHANGED vars
  <2> USE DEF vars, tableVars, lockVars, threadVars, envVars, IInv
  <2>1. TypeOK'  BY <1>1 DEF TypeOK
  <2>2. LocksNest'  BY <1>1 DEF LocksNest, Inside, HasEntry
  <2>3. RequestsMatch'  BY <1>1 DEF RequestsMatch, HasEntry
  <2>4. CursorOK'  BY <1>1 DEF CursorOK, AtReader, Tokens, Wanted
  <2>5. WriteTokensDisjoint'  BY <1>1 DEF WriteTokensDisjoint
  <2> QED BY <2>1, <2>2, <2>3, <2>4, <2>5
<1>2. ASSUME NEW t \in Threads, NEW r \in Requests, Accept(t, r) PROVE IInv'
  BY <1>2, AcceptStep
<1>3. ASSUME NEW t \in Threads, Handle(t) PROVE IInv'
  <2>1. CASE LockTable(t)  BY <2>1, LockTableStep
  <2>2. CASE SendResponse(t)  BY <2>2, SendResponseStep
  <2>3. CASE CreateOnServer(t)  BY <2>3, CreateOnServerStep
  <2>4. CASE CreateEntry(t)  BY <2>4, CreateEntryStep
  <2>5. CASE Open(t)  BY <2>5, OpenStep
  <2>6. CASE FindToDelete(t)  BY <2>6, FindOrLeakStep DEF FindToDelete, At
  <2>7. CASE DeleteOnServer(t)  BY <2>7, DeleteOnServerStep
  <2>8. CASE DeleteEntry(t)  BY <2>8, DeleteEntryStep
  <2>9. CASE FindToStat(t)  BY <2>9, FindOrLeakStep DEF FindToStat, At
  <2>10. CASE StatOnServer(t)  BY <2>10, StatOnServerStep
  <2>11. CASE StatDone(t)  BY <2>11, StatDoneStep
  <2>12. CASE FindEntry(t)  BY <2>12, FindEntryStep
  <2>13. CASE RevokeWriter(t)  BY <2>13, RevokeWriterStep
  <2>14. CASE WriterAnswer(t)  BY <2>14, WriterAnswerStep
  <2>15. CASE GrantRead(t)  BY <2>15, GrantReadStep
  <2>16. CASE StartReaders(t)  BY <2>16, StartReadersStep
  <2>17. CASE ScanReader(t)  BY <2>17, ScanReaderStep
  <2>18. CASE ReaderAnswer(t)  BY <2>18, ReaderAnswerStep
  <2>19. CASE GrantWrite(t)  BY <2>19, GrantWriteStep
  <2>20. CASE RunWild(t)  BY <2>20, RunWildStep
  <2> QED BY <1>3, <2>1, <2>2, <2>3, <2>4, <2>5, <2>6, <2>7, <2>8, <2>9, <2>10, <2>11, <2>12,
             <2>13, <2>14, <2>15, <2>16, <2>17, <2>18, <2>19, <2>20 DEF Handle
<1>4. CASE (\E s \in Fragile : ServerStop(s) \/ ServerRecover(s)) \/ (\E c \in Mortal : ClientExit(c))
  BY <1>4, EnvironmentStep
<1> QED BY <1>1, <1>2, <1>3, <1>4 DEF Next

\* The inductive invariant.
THEOREM Invariant == Spec => []IInv
<1> QED BY InitInvariant, NextInvariant, PTL DEF Spec

\* Every variable keeps its type: no handler leaves the state it is given.
THEOREM TypeCorrect == Spec => []TypeOK
<1>1. IInv => TypeOK  BY DEF IInv
<1> QED BY <1>1, Invariant, PTL

\* gft_lock and the fe_lock of a file nest, and are held by the thread inside.
THEOREM LockDiscipline == Spec => []LocksNest
<1>1. IInv => LocksNest  BY DEF IInv
<1> QED BY <1>1, Invariant, PTL

\* Write tokens of one file never share a block, whatever is requested, revoked
\* or lost: each revocation reinserts pieces that the map accepts.
THEOREM WritersExclusive == Spec => []WriteTokensDisjoint
<1>1. IInv => WriteTokensDisjoint  BY DEF IInv
<1> QED BY <1>1, Invariant, PTL

\* A thread that looks an entry up finds its fe_lock free.
LEMMA EntryFree ==
  ASSUME IInv, NEW t \in Threads, pc[t] = "request_token"
  PROVE  fe_lock[req[t].file] = Free
<1> DEFINE f == req[t].file
<1>1. TypeOK /\ LocksNest /\ f \in Files  BY Serving DEF IInv
<1>2. gft_lock = t /\ ~HasEntry(t)
  BY <1>1 DEF LocksNest, Inside, HasEntry, InsidePCs, EntryPCs
<1>3. \A u \in Threads : fe_lock[f] # u
  BY <1>1, <1>2 DEF LocksNest, Inside, HasEntry, InsidePCs
<1> QED BY <1>1, <1>3 DEF TypeOK

\* No step makes a request find fe_lock locked while it holds gft_lock.
LEMMA NextNeverLockingFailed ==
  ASSUME IInv, NeverLockingFailed, [Next]_vars
  PROVE  NeverLockingFailed'
<1>1. ASSUME NEW t \in Threads, NEW r, r # "locking_failed", response' = [response EXCEPT ![t] = r]
      PROVE  NeverLockingFailed'
  BY <1>1 DEF IInv, TypeOK, NeverLockingFailed
<1>2. CASE UNCHANGED response
  BY <1>2 DEF NeverLockingFailed
<1>3. ASSUME NEW t \in Threads, NEW s, NEW outcome, outcome.answer # "locking_failed",
             ServerCall(t, s, outcome)
      PROVE  NeverLockingFailed'
  BY <1>1, <1>3 DEF ServerCall
<1>4. ASSUME NEW t \in Threads, Handle(t) PROVE NeverLockingFailed'
  <2>1. CASE LockTable(t) \/ RevokeWriter(t) \/ WriterAnswer(t) \/ StartReaders(t)
             \/ ScanReader(t) \/ ReaderAnswer(t) \/ RunWild(t)
    <3>1. UNCHANGED response
      BY <2>1 DEF LockTable, RevokeWriter, WriterAnswer, StartReaders, ScanReader, ReaderAnswer,
         RunWild
    <3> QED BY <1>2, <3>1
  <2>2. CASE SendResponse(t)  BY <2>2, <1>1 DEF SendResponse
  <2>3. CASE CreateOnServer(t)
    <3>1. ServerCreate(disk[srv[t]], req[t].file).answer # "locking_failed"
      BY DEF ServerCreate
    <3> QED BY <2>3, <3>1, <1>2, <1>3 DEF CreateOnServer
  <2>4. CASE CreateEntry(t) \/ Open(t) \/ DeleteEntry(t) \/ StatDone(t)
    <3>1. PICK r \in {"failed", "success", "recipe", "", "nack", "stat"} :
            response' = [response EXCEPT ![t] = r]
      BY <2>4 DEF CreateEntry, Open, DeleteEntry, StatDone, Reply
    <3> QED BY <1>1, <3>1
  <2>5. CASE FindToDelete(t) \/ FindToStat(t)
    BY <2>5, <1>1, <1>2 DEF FindToDelete, FindToStat, FindOrLeak, Reply
  <2>6. CASE DeleteOnServer(t)
    <3>1. ServerDelete(disk[srv[t]], req[t].file).answer # "locking_failed"
      BY DEF ServerDelete
    <3> QED BY <2>6, <3>1, <1>3 DEF DeleteOnServer
  <2>7. CASE StatOnServer(t)
    <3>1. ServerStat(disk[srv[t]], req[t].file).answer # "locking_failed"
      BY DEF ServerStat
    <3> QED BY <2>7, <3>1, <1>3 DEF StatOnServer
  <2>8. CASE FindEntry(t)
    <3>1. fe_lock[req[t].file] = Free  BY <2>8, EntryFree DEF FindEntry, At
    <3> QED BY <2>8, <3>1, <1>1, <1>2 DEF FindEntry, Reply
  <2>9. CASE GrantRead(t) \/ GrantWrite(t)
    BY <2>9, <1>1 DEF GrantRead, GrantWrite, Reply
  <2> QED BY <1>4, <2>1, <2>2, <2>3, <2>4, <2>5, <2>6, <2>7, <2>8, <2>9 DEF Handle
<1>5. ASSUME NEW t \in Threads, NEW r \in Requests, Accept(t, r) PROVE NeverLockingFailed'
  BY <1>2, <1>5 DEF Accept
<1>6. CASE (\E s \in Fragile : ServerStop(s) \/ ServerRecover(s)) \/ (\E c \in Mortal : ClientExit(c))
  BY <1>2, <1>6 DEF ServerStop, ServerRecover, ClientExit, threadVars
<1>7. CASE UNCHANGED vars
  BY <1>2, <1>7 DEF vars, threadVars
<1> QED BY <1>4, <1>5, <1>6, <1>7 DEF Next

\* No client is ever told "locking_failed": a thread that reaches the trylock of
\* fe_lock holds gft_lock, and so the only thread that could hold fe_lock is itself.
THEOREM LockingNeverFails == Spec => []NeverLockingFailed
<1>1. Init => NeverLockingFailed  BY DEF Init, NeverLockingFailed
<1>2. IInv /\ NeverLockingFailed /\ [Next]_vars => NeverLockingFailed'
  BY NextNeverLockingFailed
<1> QED BY <1>1, <1>2, Invariant, PTL DEF Spec
-----------------------------------------------------------------------------
(* Files on the servers.                                                    *)

\* The servers that never fail.
Steady == Servers \ Fragile

\* A create has been to the servers before the one it calls next.
CreatesStored ==
  \A t \in Threads :
    /\ pc[t] \in {"idle", "lock"} => srv[t] = 0
    /\ pc[t] = "create" => /\ srv[t] <= NumServers
                           /\ \A s \in Steady : s < srv[t] => req[t].file \in disk[s]

\* A file of the table is on the servers of its stripe, but while it is being deleted.
FilesStored ==
  \A f \in known :
    /\ width[f] <= NumServers
    /\ \A s \in Steady : s < width[f] =>
         f \in disk[s] \/ \E t \in Threads : pc[t] = "deleting" /\ req[t].file = f

StoredInv == Steady \subseteq serving /\ CreatesStored /\ FilesStored

\* A thread with a connection has a request about a file.
LEMMA HandlesFile ==
  ASSUME IInv, NEW t \in Threads, pc[t] # "idle"
  PROVE  req[t].file \in Files
  BY RequestFields DEF IInv, RequestsMatch

\* No thread but the holder of gft_lock is in a create or a delete.
LEMMA OthersOutside ==
  ASSUME IInv, NEW t \in Threads, Inside(t), NEW u \in Threads, Inside(u)
  PROVE  u = t
  BY DEF IInv, LocksNest

\* Steps that go to no server, and neither start a create nor end a delete.
LEMMA StoredKept ==
  ASSUME StoredInv, UNCHANGED << known, width, disk, serving >>,
         \A u \in Threads : \/ UNCHANGED << pc[u], req[u], srv[u] >>
                            \/ pc[u] # "deleting" /\ pc'[u] \notin {"idle", "lock", "create"}
                            \/ pc[u] # "deleting" /\ srv'[u] = 0
  PROVE  StoredInv'
<1>1. CreatesStored'
  <2> SUFFICES ASSUME NEW u \in Threads
               PROVE  /\ pc'[u] \in {"idle", "lock"} => srv'[u] = 0
                      /\ pc'[u] = "create" =>
                           /\ srv'[u] <= NumServers
                           /\ \A s \in Steady : s < srv'[u] => req'[u].file \in disk[s]
    BY DEF CreatesStored, Steady, Servers
  <2>1. CASE UNCHANGED << pc[u], req[u], srv[u] >>
    BY <2>1 DEF StoredInv, CreatesStored
  <2>2. CASE pc'[u] \notin {"idle", "lock", "create"}
    BY <2>2
  <2>3. CASE srv'[u] = 0
    BY <2>3, BoundsAssumption DEF Steady, Servers
  <2> QED
    BY <2>1, <2>2, <2>3
<1>2. FilesStored'
  <2> SUFFICES ASSUME NEW f \in known
               PROVE  /\ width[f] <= NumServers
                      /\ \A s \in Steady : s < width[f] =>
                           f \in disk[s] \/ \E t \in Threads : pc'[t] = "deleting" /\ req'[t].file = f
    BY DEF FilesStored, Steady, Servers
  <2> QED
    BY DEF StoredInv, FilesStored
<1> QED
  BY <1>1, <1>2 DEF StoredInv, Steady, Servers

\* What a call to a server leaves on the servers.
LEMMA CallStores ==
  ASSUME TypeOK, Steady \subseteq serving, NEW t \in Threads, NEW s \in Servers, NEW outcome,
         outcome.files \subseteq Files, ServerCall(t, s, outcome)
  PROVE  /\ Steady \subseteq serving'
         /\ \A r \in Servers : disk'[r] = disk[r] \/ (r = s /\ disk'[r] = outcome.files)
         /\ s \in Steady => disk'[s] = outcome.files
<1>1. s \in Steady => s \in serving /\ s \notin Fragile
  BY DEF Steady
<1> QED
  BY <1>1 DEF ServerCall, TypeOK, Steady

\* A server that is called has the file then, whatever it answers.
LEMMA CreateStores ==
  ASSUME IInv, StoredInv, NEW t \in Threads, CreateOnServer(t)
  PROVE  StoredInv'
<1> DEFINE f == req[t].file
           s == srv[t]
<1>1. /\ pc[t] = "create" /\ UNCHANGED << known, width, pc, req >> /\ f \in Files /\ s \in Nat
  BY HandlesFile DEF CreateOnServer, At, IInv, TypeOK, tableVars
<1>2. CASE s \notin Servers
  <2>1. UNCHANGED << disk, serving, srv >>
    BY <1>2 DEF CreateOnServer, ServerCall
  <2> QED
    BY <1>1, <2>1, StoredKept
<1>3. CASE s \in Servers
  <2>1. ServerCall(t, s, ServerCreate(disk[s], f)) /\ srv' = [srv EXCEPT ![t] = s + 1]
    BY <1>3 DEF CreateOnServer
  <2>2. ServerCreate(disk[s], f).files = disk[s] \union {f} /\ disk[s] \union {f} \subseteq Files
    BY <1>1, <1>3 DEF ServerCreate, IInv, TypeOK
  <2>3. /\ Steady \subseteq serving'
        /\ \A r \in Servers : disk'[r] = disk[r] \/ (r = s /\ disk'[r] = disk[s] \union {f})
        /\ s \in Steady => disk'[s] = disk[s] \union {f}
    BY <1>3, <2>1, <2>2, CallStores DEF IInv, StoredInv
  <2>4. \A r \in Servers : disk[r] \subseteq disk'[r]
    BY <2>3
  <2>5. CreatesStored'
    <3> SUFFICES ASSUME NEW u \in Threads
                 PROVE  /\ pc[u] \in {"idle", "lock"} => srv'[u] = 0
                        /\ pc[u] = "create" =>
                             /\ srv'[u] <= NumServers
                             /\ \A r \in Steady : r < srv'[u] => req[u].file \in disk'[r]
      BY <1>1 DEF CreatesStored, Steady, Servers
    <3>1. CASE u # t
      BY <2>1, <2>4, <3>1 DEF StoredInv, CreatesStored, Steady, IInv, TypeOK
    <3>2. CASE u = t
      <4>1. srv'[t] = s + 1 /\ s + 1 <= NumServers
        BY <1>1, <1>3, <2>1, BoundsAssumption DEF IInv, TypeOK, Servers
      <4>2. ASSUME NEW r \in Steady, r < s + 1 PROVE f \in disk'[r]
        <5>1. r \in Nat /\ r \in Servers
          BY DEF Steady, Servers
        <5>2. CASE r = s
          BY <2>3, <4>2, <5>2
        <5>3. CASE r < s
          BY <1>1, <2>4, <4>2, <5>1, <5>3 DEF StoredInv, CreatesStored
        <5> QED
          BY <1>1, <4>2, <5>1, <5>2, <5>3
      <4> QED
        BY <1>1, <3>2, <4>1, <4>2
    <3> QED
      BY <3>1, <3>2
  <2>6. FilesStored'
    BY <1>1, <2>4 DEF StoredInv, FilesStored, Steady, Servers
  <2> QED
    BY <2>3, <2>5, <2>6 DEF StoredInv, Steady, Servers
<1> QED
  BY <1>2, <1>3

\* The entry is made when the loop has been to all servers of the stripe.
LEMMA EntryStored ==
  ASSUME IInv, StoredInv, NEW t \in Threads, CreateEntry(t)
  PROVE  StoredInv'
<1> DEFINE f == req[t].file
<1>1. /\ pc[t] = "create" /\ srv[t] = req[t].width /\ f \in Files
      /\ pc' = [pc EXCEPT ![t] = "reply"] /\ UNCHANGED << req, srv, disk, serving >>
      /\ \/ UNCHANGED << known, width >>
         \/ /\ known' = known \union {f} /\ f \notin known
            /\ width' = [width EXCEPT ![f] = req[t].width]
  BY HandlesFile DEF CreateEntry, At, IInv, GoTo, Reply, envVars
<1>2. pc \in [Threads -> PCs] /\ width \in [Files -> Nat] /\ known \subseteq Files
  BY DEF IInv, TypeOK
<1>3. CreatesStored'
  <2> SUFFICES ASSUME NEW u \in Threads
               PROVE  /\ pc'[u] \in {"idle", "lock"} => srv[u] = 0
                      /\ pc'[u] = "create" =>
                           /\ srv[u] <= NumServers
                           /\ \A r \in Steady : r < srv[u] => req[u].file \in disk[r]
    BY <1>1 DEF CreatesStored, Steady, Servers
  <2>1. pc'[u] = pc[u] \/ pc'[u] = "reply"
    BY <1>1, <1>2
  <2> QED
    BY <2>1 DEF StoredInv, CreatesStored
<1>4. FilesStored'
  <2> SUFFICES ASSUME NEW g \in known'
               PROVE  /\ width'[g] <= NumServers
                      /\ \A s \in Steady : s < width'[g] =>
                           g \in disk[s] \/ \E u \in Threads : pc'[u] = "deleting" /\ req[u].file = g
    BY <1>1 DEF FilesStored, Steady, Servers
  <2>1. CASE g \in known
    <3>1. width'[g] = width[g]
      BY <1>1, <1>2, <2>1
    <3>2. \A u \in Threads : pc[u] = "deleting" => pc'[u] = "deleting"
      BY <1>1, <1>2
    <3> QED
      BY <2>1, <3>1, <3>2 DEF StoredInv, FilesStored
  <2>2. CASE g \notin known
    <3>1. g = f /\ width'[g] = srv[t]
      BY <1>1, <1>2, <2>2
    <3> QED
      BY <1>1, <3>1 DEF StoredInv, CreatesStored
  <2> QED
    BY <2>1, <2>2
<1> QED
  BY <1>1, <1>3, <1>4 DEF StoredInv, Steady, Servers

\* The file that is being deleted goes from one server after the other.
LEMMA DeleteStores ==
  ASSUME IInv, StoredInv, NEW t \in Threads, DeleteOnServer(t)
  PROVE  StoredInv'
<1> DEFINE f == req[t].file
           s == srv[t]
<1>1. /\ pc[t] = "deleting" /\ UNCHANGED << known, width, pc, req >> /\ f \in Files /\ s \in Nat
      /\ ServerCall(t, s, ServerDelete(disk[s], f)) /\ srv' = [srv EXCEPT ![t] = s + 1]
  BY HandlesFile DEF DeleteOnServer, At, IInv, TypeOK, tableVars
<1>2. \A u \in Threads : pc[u] # "create"
  <2> SUFFICES ASSUME NEW u \in Threads, pc[u] = "create" PROVE FALSE
    OBVIOUS
  <2>1. Inside(t) /\ Inside(u)
    BY <1>1 DEF Inside, InsidePCs
  <2>2. u = t
    BY <2>1, OthersOutside
  <2> QED
    BY <1>1, <2>2
<1>3. CreatesStored'
  <2>1. \A u \in Threads : u # t => srv'[u] = srv[u]
    BY <1>1 DEF IInv, TypeOK
  <2> QED
    BY <1>1, <1>2, <2>1 DEF StoredInv, CreatesStored
<1>4. /\ Steady \subseteq serving'
      /\ \A r \in Steady, g \in Files : g # f /\ g \in disk[r] => g \in disk'[r]
  <2>1. CASE s \in Servers
    <3>1. ServerDelete(disk[s], f).files = disk[s] \ {f} /\ disk[s] \ {f} \subseteq Files
      BY <2>1 DEF ServerDelete, IInv, TypeOK
    <3>2. /\ Steady \subseteq serving'
          /\ \A r \in Servers : disk'[r] = disk[r] \/ (r = s /\ disk'[r] = disk[s] \ {f})
      BY <1>1, <2>1, <3>1, CallStores DEF IInv, StoredInv
    <3> QED
      BY <3>2 DEF Steady
  <2>2. CASE s \notin Servers
    BY <1>1, <2>2 DEF ServerCall, IInv, TypeOK, StoredInv, Steady
  <2> QED
    BY <2>1, <2>2
<1>5. FilesStored'
  <2> SUFFICES ASSUME NEW g \in known
               PROVE  /\ width[g] <= NumServers
                      /\ \A r \in Steady : r < width[g] =>
                           g \in disk'[r] \/ \E u \in Threads : pc[u] = "deleting" /\ req[u].file = g
    BY <1>1 DEF FilesStored, Steady, Servers
  <2>1. g \in Files
    BY DEF IInv, TypeOK
  <2>2. CASE g = f
    BY <1>1, <2>2 DEF StoredInv, FilesStored
  <2>3. CASE g # f
    BY <1>4, <2>1, <2>3 DEF StoredInv, FilesStored
  <2> QED
    BY <2>2, <2>3
<1> QED
  BY <1>3, <1>4, <1>5 DEF StoredInv, Steady, Servers

\* The entry goes with the delete, and no other thread deletes.
LEMMA EntryGone ==
  ASSUME IInv, StoredInv, NEW t \in Threads, DeleteEntry(t)
  PROVE  StoredInv'
<1> DEFINE f == req[t].file
<1>1. /\ pc[t] = "deleting" /\ f \in Files /\ UNCHANGED << req, srv, disk, serving >>
      /\ pc' = [pc EXCEPT ![t] = "reply"]
      /\ known' = known \ {f} /\ width' = [width EXCEPT ![f] = 0]
  BY HandlesFile DEF DeleteEntry, At, IInv, GoTo, Reply, envVars
<1>2. pc \in [Threads -> PCs] /\ width \in [Files -> Nat] /\ known \subseteq Files
  BY DEF IInv, TypeOK
<1>3. \A u \in Threads : pc'[u] = pc[u] \/ pc'[u] = "reply"
  BY <1>1, <1>2
<1>4. CreatesStored'
  BY <1>1, <1>3 DEF StoredInv, CreatesStored, Steady, Servers
<1>5. FilesStored'
  <2> SUFFICES ASSUME NEW g \in known'
               PROVE  /\ width'[g] <= NumServers
                      /\ \A s \in Steady : s < width'[g] =>
                           g \in disk[s] \/ \E u \in Threads : pc'[u] = "deleting" /\ req[u].file = g
    BY <1>1 DEF FilesStored, Steady, Servers
  <2>1. g \in known /\ g # f /\ width'[g] = width[g]
    BY <1>1, <1>2
  <2>2. \A u \in Threads : pc[u] = "deleting" /\ req[u].file = g => pc'[u] = "deleting"
    BY <1>1, <1>2, <2>1
  <2> QED
    BY <2>1, <2>2 DEF StoredInv, FilesStored
<1> QED
  BY <1>1, <1>4, <1>5 DEF StoredInv, Steady, Servers

\* fstat changes no file.
LEMMA StatStores ==
  ASSUME IInv, StoredInv, NEW t \in Threads, StatOnServer(t)
  PROVE  StoredInv'
<1> DEFINE f == req[t].file
           s == srv[t]
<1>1. /\ pc[t] = "stating" /\ UNCHANGED << known, width, pc, req >>
      /\ ServerCall(t, s, ServerStat(disk[s], f)) /\ srv' = [srv EXCEPT ![t] = s + 1]
  BY DEF StatOnServer, At, tableVars
<1>2. disk' = disk /\ Steady \subseteq serving'
  <2>1. ServerStat(disk[s], f).files = disk[s] /\ disk' = disk
    BY <1>1 DEF ServerStat, ServerCall, IInv, TypeOK
  <2> QED
    BY <1>1, <2>1 DEF ServerCall, StoredInv, Steady
<1>3. CreatesStored'
  <2>1. \A u \in Threads : u # t => srv'[u] = srv[u]
    BY <1>1 DEF IInv, TypeOK
  <2> QED
    BY <1>1, <1>2, <2>1 DEF StoredInv, CreatesStored, Steady, Servers
<1>4. FilesStored'
  BY <1>1, <1>2 DEF StoredInv, FilesStored, Steady, Servers
<1> QED
  BY <1>2, <1>3, <1>4 DEF StoredInv, Steady, Servers

\* The steps of the handlers that go to no server.
LEMMA HandlersKeepStored ==
  ASSUME IInv, StoredInv, NEW t \in Threads,
         \/ LockTable(t) \/ SendResponse(t) \/ Open(t) \/ FindToDelete(t) \/ FindToStat(t)
         \/ StatDone(t) \/ FindEntry(t) \/ RevokeWriter(t) \/ WriterAnswer(t) \/ GrantRead(t)
         \/ StartReaders(t) \/ ScanReader(t) \/ ReaderAnswer(t) \/ GrantWrite(t) \/ RunWild(t)
  PROVE  StoredInv'
<1> USE DEF At, GoTo, Reply, envVars, tableVars
<1>1. pc \in [Threads -> PCs] /\ srv \in [Threads -> Nat] /\ req \in [Threads -> Requests \union {NoRequest}]
  BY DEF IInv, TypeOK
<1>2. ASSUME pc[t] # "deleting", pc'[t] \notin {"idle", "lock", "create"},
             \A u \in Threads : u # t => pc'[u] = pc[u],
             UNCHANGED << req, srv, known, width, disk, serving >>
      PROVE  StoredInv'
  BY <1>2, StoredKept
<1>3. CASE LockTable(t)
  <2>1. pc[t] = "lock" /\ UNCHANGED << req, srv, known, width, disk, serving >>
        /\ pc' = [pc EXCEPT ![t] = req[t].op]
    BY <1>3 DEF LockTable
  <2>2. srv[t] = 0
    BY <2>1 DEF StoredInv, CreatesStored
  <2> QED
    BY <1>1, <2>1, <2>2, StoredKept
<1>4. CASE SendResponse(t)
  <2>1. /\ pc[t] = "reply" /\ UNCHANGED << known, width, disk, serving >>
        /\ pc' = [pc EXCEPT ![t] = "idle"] /\ srv' = [srv EXCEPT ![t] = 0]
        /\ req' = [req EXCEPT ![t] = NoRequest]
    BY <1>4 DEF SendResponse
  <2> QED
    BY <1>1, <2>1, StoredKept
<1>5. CASE Open(t)
  BY <1>1, <1>2, <1>5 DEF Open
<1>6. CASE FindToDelete(t)
  BY <1>1, <1>2, <1>6 DEF FindToDelete, FindOrLeak
<1>7. CASE FindToStat(t)
  BY <1>1, <1>2, <1>7 DEF FindToStat, FindOrLeak
<1>8. CASE StatDone(t)
  BY <1>1, <1>2, <1>8 DEF StatDone
<1>9. CASE FindEntry(t)
  BY <1>1, <1>2, <1>9 DEF FindEntry
<1>10. CASE RevokeWriter(t)
  BY <1>1, <1>2, <1>10 DEF RevokeWriter, DropWriter
<1>11. CASE WriterAnswer(t)
  BY <1>1, <1>2, <1>11 DEF WriterAnswer, DropWriter
<1>12. CASE GrantRead(t)
  BY <1>1, <1>2, <1>12 DEF GrantRead
<1>13. CASE StartReaders(t)
  BY <1>1, <1>2, <1>13 DEF StartReaders
<1>14. CASE ScanReader(t)
  BY <1>1, <1>2, <1>14 DEF ScanReader, DropReader, KeepReader
<1>15. CASE ReaderAnswer(t)
  BY <1>1, <1>2, <1>15 DEF ReaderAnswer, DropReader, KeepReader
<1>16. CASE GrantWrite(t)
  BY <1>1, <1>2, <1>16 DEF GrantWrite
<1>17. CASE RunWild(t)
  BY <1>1, <1>2, <1>17 DEF RunWild
<1> QED
  BY <1>3, <1>4, <1>5, <1>6, <1>7, <1>8, <1>9, <1>10, <1>11, <1>12, <1>13, <1>14, <1>15, <1>16, <1>17

LEMMA NextStored ==
  ASSUME IInv, StoredInv, [Next]_vars
  PROVE  StoredInv'
<1>1. ASSUME NEW t \in Threads, NEW r \in Requests, Accept(t, r) PROVE StoredInv'
  <2>1. /\ pc[t] = "idle" /\ pc' = [pc EXCEPT ![t] = "lock"] /\ req' = [req EXCEPT ![t] = r]
        /\ UNCHANGED << known, width, disk, serving, srv >>
    BY <1>1 DEF Accept, At, GoTo, tableVars
  <2>2. srv[t] = 0 /\ pc \in [Threads -> PCs] /\ req \in [Threads -> Requests \union {NoRequest}]
    BY <2>1 DEF StoredInv, CreatesStored, IInv, TypeOK
  <2> QED
    BY <2>1, <2>2, StoredKept
<1>2. ASSUME NEW t \in Threads, Handle(t) PROVE StoredInv'
  BY <1>2, CreateStores, EntryStored, DeleteStores, EntryGone, StatStores, HandlersKeepStored DEF Handle
<1>3. ASSUME NEW s \in Fragile, ServerStop(s) \/ ServerRecover(s) PROVE StoredInv'
  <2>1. /\ UNCHANGED << pc, req, srv, known, width, disk >>
        /\ serving \ {s} \subseteq serving'
    BY <1>3 DEF ServerStop, ServerRecover, tableVars, threadVars
  <2> QED
    BY <2>1 DEF StoredInv, CreatesStored, FilesStored, Steady, Servers
<1>4. CASE (\E c \in Mortal : ClientExit(c)) \/ UNCHANGED vars
  <2>1. UNCHANGED << pc, req, srv, known, width, disk, serving >>
    BY <1>4 DEF ClientExit, vars, tableVars, threadVars, envVars
  <2> QED
    BY <2>1, StoredKept
<1> QED
  BY <1>1, <1>2, <1>3, <1>4 DEF Next

\* Every server of the stripe that does not fail stores a file of the table, whatever
\* the other servers and answers: a create goes to all of them before it makes the entry,
\* a second create of the name, of another width, leaves entry and files alone, and
\* a delete, during which nobody else gets gft_lock, ends with the entry gone.
THEOREM FilesRecorded == Spec => []RecordedOnServers
<1>1. Init => StoredInv
  BY BoundsAssumption DEF Init, StoredInv, CreatesStored, FilesStored, Steady, Servers
<1>2. IInv /\ StoredInv /\ [Next]_vars => StoredInv'
  BY NextStored
<1>3. IInv /\ StoredInv => RecordedOnServers
  <2> SUFFICES ASSUME IInv, StoredInv, gft_lock \notin Threads, NEW f \in known,
                      NEW s \in (0 .. width[f] - 1) \ Fragile
               PROVE  f \in disk[s]
    BY DEF RecordedOnServers
  <2>1. width[f] \in Nat /\ width[f] <= NumServers
    BY DEF IInv, TypeOK, StoredInv, FilesStored
  <2>2. s \in Steady /\ s < width[f]
    BY <2>1, BoundsAssumption DEF Steady, Servers
  <2>3. \A t \in Threads : pc[t] # "deleting"
    BY DEF IInv, LocksNest, Inside, InsidePCs
  <2> QED
    BY <2>2, <2>3 DEF StoredInv, FilesStored
<1> QED
  BY <1>1, <1>2, <1>3, Invariant, PTL DEF Spec
-----------------------------------------------------------------------------
(* The refinement of TokenTable.                                            *)

ReaderPCs == {"readers", "rcall"}

\* The readers loop is that of a write request, and begins when no write token is left
\* in its interval.
WritersGone ==
  \A t \in Threads : pc[t] \in ReaderPCs =>
    /\ req[t].mode = "w"
    /\ \A e \in MDWTokens[req[t].file] : ~Overlaps(e.iv, Wanted(t))

TInv == IInv /\ WritersGone

\* The abstraction of one map and of one vector.
WriterIn(map, b) == IF \E e \in map : b \in Blocks(e.iv)
                    THEN (CHOOSE e \in map : b \in Blocks(e.iv)).cl
                    ELSE Free

ReadersIn(s, b) == {e.cl : e \in {d \in Range(s) : b \in Blocks(d.iv)}}

ClaimOf(t) == [file |-> req[t].file, blocks |-> Blocks(req[t].iv),
               mode |-> req[t].mode, cl |-> req[t].cl]
-----------------------------------------------------------------------------
(* Facts about the data.                                                    *)

\* Who has a block of a map with disjoint keys.
LEMMA WriterIs ==
  ASSUME NEW map, \A d, e \in map : d # e => Blocks(d.iv) \intersect Blocks(e.iv) = {}, NEW b
  PROVE  /\ \A e \in map : b \in Blocks(e.iv) => WriterIn(map, b) = e.cl
         /\ (\A e \in map : b \notin Blocks(e.iv)) => WriterIn(map, b) = Free
  BY DEF WriterIn

\* find returns an entry when some key overlaps: of those, the one that ends first.
LEMMA NoneFound ==
  ASSUME NEW map \in SUBSET Token, NEW i \in Interval, FirstOverlap(map, i) = {}
  PROVE  \A e \in map : ~Overlaps(e.iv, i)
<1> SUFFICES ASSUME NEW x \in map, Overlaps(x.iv, i) PROVE FALSE
  OBVIOUS
<1> DEFINE ends == {e.iv.m_end : e \in {d \in map : Overlaps(d.iv, i)}}
<1>1. \A e \in map : e.iv \in Interval
  BY DEF Token
<1>2. ends \in SUBSET Nat /\ ends # {}
  BY <1>1 DEF Interval
<1>3. PICK n \in ends : \A m \in ends : n <= m
  <2> HIDE DEF ends
  <2>1. PICK n \in ends : \A m \in ends : ~(<< m, n >> \in OpToRel(<, Nat))
    BY <1>2, WFMin, NatLessThanWellFounded
  <2>2. \A m \in ends : ~(m < n)
    BY <1>2, <2>1 DEF OpToRel
  <2> QED
    BY <1>2, <2>2
<1>4. PICK e \in map : Overlaps(e.iv, i) /\ e.iv.m_end = n
  BY <1>3
<1>5. \A d \in map : Overlaps(d.iv, i) => ~Before(d.iv, e.iv)
  <2> SUFFICES ASSUME NEW d \in map, Overlaps(d.iv, i) PROVE ~Before(d.iv, e.iv)
    OBVIOUS
  <2>1. e.iv.m_end <= d.iv.m_end
    BY <1>3, <1>4
  <2> QED
    BY <1>1, <2>1 DEF Before, Interval
<1> QED
  BY <1>4, <1>5 DEF FirstOverlap

\* A token is split in pieces: exactly its blocks outside the interval keep their client.
LEMMA PiecesAll ==
  ASSUME NEW t, NEW e \in Token, Wanted(t) \in Interval, Overlaps(e.iv, Wanted(t))
  PROVE  /\ \A p \in Range(Pieces(t, e)) : p.cl = e.cl
         /\ \A b \in Blocks(e.iv) \ Blocks(Wanted(t)) : \E p \in Range(Pieces(t, e)) : b \in Blocks(p.iv)
<1> DEFINE s == Subtract(e.iv, Wanted(t))
<1>1. \A b \in Blocks(e.iv) \ Blocks(Wanted(t)) : \E i \in DOMAIN s : b \in Blocks(s[i])
  BY SubtractCorrect DEF Token
<1>2. Pieces(t, e) = [i \in DOMAIN s |-> [iv |-> s[i], cl |-> e.cl]]
  BY DEF Pieces
<1> HIDE DEF s
<1>3. Range(Pieces(t, e)) = {[iv |-> s[i], cl |-> e.cl] : i \in DOMAIN s}
  BY <1>2 DEF Range
<1>4. ASSUME NEW b \in Blocks(e.iv) \ Blocks(Wanted(t))
      PROVE  \E p \in Range(Pieces(t, e)) : b \in Blocks(p.iv)
  <2>1. PICK i \in DOMAIN s : b \in Blocks(s[i])
    BY <1>1
  <2>2. [iv |-> s[i], cl |-> e.cl].iv = s[i] /\ [iv |-> s[i], cl |-> e.cl] \in Range(Pieces(t, e))
    BY <1>3
  <2> QED
    BY <2>1, <2>2
<1>5. \A p \in Range(Pieces(t, e)) : p.cl = e.cl
  BY <1>3
<1> QED
  BY <1>4, <1>5

\* The map after a write token is taken: its blocks in the interval are free, and
\* nothing else changes.
LEMMA WriterDropped ==
  ASSUME NEW t, NEW map \in SUBSET Token, NEW e \in map,
         \A d, g \in map : d # g => Blocks(d.iv) \intersect Blocks(g.iv) = {},
         Wanted(t) \in Interval, Overlaps(e.iv, Wanted(t)), NEW b
  PROVE  WriterIn(MapInsert(map \ {e}, Range(Pieces(t, e))), b)
           = IF b \in Blocks(e.iv) \intersect Blocks(Wanted(t)) THEN Free ELSE WriterIn(map, b)
<1> DEFINE rest == map \ {e}
           P == Range(Pieces(t, e))
           new == MapInsert(rest, P)
<1>1. /\ P \subseteq Token
      /\ \A p, q \in P : p # q => ~Overlaps(p.iv, q.iv)
      /\ \A p \in P : Blocks(p.iv) \subseteq Blocks(e.iv) \ Blocks(Wanted(t))
      /\ \A p \in P : p.cl = e.cl
      /\ \A k \in Blocks(e.iv) \ Blocks(Wanted(t)) : \E p \in P : k \in Blocks(p.iv)
  BY PiecesOf, PiecesAll
<1> HIDE DEF P
<1>2. \A p \in P, d \in rest : Blocks(d.iv) \intersect Blocks(p.iv) = {}
  BY <1>1
<1>3. \A d \in Token : d.iv \in Interval
  BY DEF Token
<1>4. \A p \in P, d \in rest : ~Overlaps(d.iv, p.iv)
  BY <1>1, <1>2, <1>3, OverlapsMeet
<1>5. new = rest \union P
  BY <1>4 DEF MapInsert
<1>6. \A p, q \in P : p # q => Blocks(p.iv) \intersect Blocks(q.iv) = {}
  BY <1>1, <1>3, OverlapsMeet
<1>7. \A d, g \in new : d # g => Blocks(d.iv) \intersect Blocks(g.iv) = {}
  BY <1>2, <1>5, <1>6
<1> HIDE DEF new
<1>8. CASE b \in Blocks(e.iv) \intersect Blocks(Wanted(t))
  <2>1. \A d \in new : b \notin Blocks(d.iv)
    BY <1>1, <1>5, <1>8
  <2>2. WriterIn(new, b) = Free
    BY <1>7, <2>1, WriterIs
  <2> QED
    BY <1>8, <2>2 DEF new, P
<1>9. CASE b \in Blocks(e.iv) \ Blocks(Wanted(t))
  <2>1. PICK p \in P : b \in Blocks(p.iv)
    BY <1>1, <1>9
  <2>2. WriterIn(new, b) = p.cl
    BY <1>5, <1>7, <2>1, WriterIs
  <2>3. WriterIn(map, b) = e.cl
    BY <1>9, WriterIs
  <2> QED
    BY <1>1, <1>9, <2>1, <2>2, <2>3 DEF new, P
<1>10. CASE b \notin Blocks(e.iv)
  <2>1. CASE \E d \in map : b \in Blocks(d.iv)
    <3>1. PICK d \in map : b \in Blocks(d.iv)
      BY <2>1
    <3>2. d \in new
      BY <1>5, <1>10, <3>1
    <3>3. WriterIn(new, b) = d.cl
      BY <1>7, <3>1, <3>2, WriterIs
    <3>4. WriterIn(map, b) = d.cl
      BY <3>1, WriterIs
    <3> QED
      BY <1>10, <3>3, <3>4 DEF new, P
  <2>2. CASE \A d \in map : b \notin Blocks(d.iv)
    <3>1. \A d \in new : b \notin Blocks(d.iv)
      BY <1>1, <1>5, <1>10, <2>2
    <3>2. WriterIn(new, b) = Free
      BY <1>7, <3>1, WriterIs
    <3>3. WriterIn(map, b) = Free
      BY <2>2, WriterIs
    <3> QED
      BY <1>10, <3>2, <3>3 DEF new, P
  <2> QED
    BY <2>1, <2>2
<1> QED
  BY <1>8, <1>9, <1>10

\* The map after a write token is inserted that no key overlaps.
LEMMA WriterInserted ==
  ASSUME NEW map \in SUBSET Token, NEW x \in Token,
         \A d, g \in map : d # g => Blocks(d.iv) \intersect Blocks(g.iv) = {},
         \A d \in map : ~Overlaps(d.iv, x.iv), NEW b
  PROVE  /\ WriterIn(MapInsert(map, {x}), b) = IF b \in Blocks(x.iv) THEN x.cl ELSE WriterIn(map, b)
         /\ b \in Blocks(x.iv) => WriterIn(map, b) = Free
<1> DEFINE new == MapInsert(map, {x})
<1>1. new = map \union {x}
  BY DEF MapInsert
<1>2. \A d \in map : Blocks(d.iv) \intersect Blocks(x.iv) = {}
  <2>1. \A d \in Token : d.iv \in Interval
    BY DEF Token
  <2> QED
    BY <2>1, OverlapsMeet
<1>3. \A d, g \in new : d # g => Blocks(d.iv) \intersect Blocks(g.iv) = {}
  BY <1>1, <1>2
<1> HIDE DEF new
<1>4. CASE b \in Blocks(x.iv)
  <2>1. WriterIn(new, b) = x.cl
    BY <1>1, <1>3, <1>4, WriterIs
  <2>2. WriterIn(map, b) = Free
    BY <1>2, <1>4, WriterIs
  <2> QED
    BY <1>4, <2>1, <2>2 DEF new
<1>5. CASE b \notin Blocks(x.iv)
  <2>1. CASE \E d \in map : b \in Blocks(d.iv)
    <3>1. PICK d \in map : b \in Blocks(d.iv)
      BY <2>1
    <3>2. d \in new
      BY <1>1, <3>1
    <3>3. WriterIn(new, b) = d.cl
      BY <1>1, <1>3, <3>1, <3>2, WriterIs
    <3>4. WriterIn(map, b) = d.cl
      BY <3>1, WriterIs
    <3> QED
      BY <1>5, <3>3, <3>4 DEF new
  <2>2. CASE \A d \in map : b \notin Blocks(d.iv)
    <3>1. WriterIn(new, b) = Free /\ WriterIn(map, b) = Free
      BY <1>1, <1>3, <1>5, <2>2, WriterIs
    <3> QED
      BY <1>5, <3>1 DEF new
  <2> QED
    BY <2>1, <2>2
<1> QED
  BY <1>4, <1>5

\* The vector after a read token is taken: its client loses some blocks of the interval,
\* those that no other read token of it covers.
LEMMA ReaderDropped ==
  ASSUME NEW t, NEW s \in Seq(Token), NEW n \in 1 .. Len(s), NEW e, e = s[n],
         Wanted(t) \in Interval, Overlaps(e.iv, Wanted(t)), NEW b
  PROVE  LET after == ReadersIn(RemoveAt(s, n) \o Pieces(t, e), b)
         IN /\ b \notin Blocks(Wanted(t)) => after = ReadersIn(s, b)
            /\ after = ReadersIn(s, b) \/ after = ReadersIn(s, b) \ {e.cl}
<1> DEFINE P == Range(Pieces(t, e))
           left == Range(RemoveAt(s, n))
           new == RemoveAt(s, n) \o Pieces(t, e)
<1>0. e \in Token /\ DOMAIN s = 1 .. Len(s)
  BY ElementOfSeq, LenProperties
<1>1. /\ Pieces(t, e) \in Seq(Token)
      /\ \A p \in P : Blocks(p.iv) \subseteq Blocks(e.iv) \ Blocks(Wanted(t))
      /\ \A p \in P : p.cl = e.cl
      /\ \A k \in Blocks(e.iv) \ Blocks(Wanted(t)) : \E p \in P : k \in Blocks(p.iv)
  <2>1. Pieces(t, e) \in Seq(Token) /\ \A p \in P : Blocks(p.iv) \subseteq Blocks(e.iv) \ Blocks(Wanted(t))
    BY <1>0, PiecesOf
  <2>2. /\ \A p \in P : p.cl = e.cl
        /\ \A k \in Blocks(e.iv) \ Blocks(Wanted(t)) : \E p \in P : k \in Blocks(p.iv)
    BY <1>0, PiecesAll
  <2> QED
    BY <2>1, <2>2
<1>2. /\ RemoveAt(s, n) \in Seq(Token)
      /\ \A x \in left : x \in Range(s)
      /\ \A j \in DOMAIN s \ {n} : s[j] \in left
  BY WithoutOne DEF Range
<1>3. Range(new) = left \union P
  BY <1>1, <1>2, RangeConcat
<1>4. Range(s) = {s[j] : j \in DOMAIN s}
  BY DEF Range
<1>5. \A x \in Range(s) : x \in left \/ x = e
  BY <1>2, <1>4
<1> HIDE DEF P, left, new
<1>6. ReadersIn(new, b) \subseteq ReadersIn(s, b)
  BY <1>0, <1>1, <1>2, <1>3, <1>4 DEF ReadersIn
<1>7. ReadersIn(s, b) \ {e.cl} \subseteq ReadersIn(new, b)
  BY <1>3, <1>5 DEF ReadersIn
<1>8. b \notin Blocks(Wanted(t)) => ReadersIn(s, b) \subseteq ReadersIn(new, b)
  BY <1>1, <1>3, <1>5 DEF ReadersIn
<1> QED
  BY <1>6, <1>7, <1>8 DEF new

\* The vector after a read token is appended.
LEMMA ReaderAppended ==
  ASSUME NEW s \in Seq(Token), NEW x \in Token, NEW b
  PROVE  /\ b \in Blocks(x.iv) => ReadersIn(Append(s, x), b) = ReadersIn(s, b) \union {x.cl}
         /\ b \notin Blocks(x.iv) => ReadersIn(Append(s, x), b) = ReadersIn(s, b)
<1>0. PICK new : new = Append(s, x)
  OBVIOUS
<1>1. /\ new \in Seq(Token)
      /\ \A i \in DOMAIN new : new[i] = x \/ \E j \in DOMAIN s : new[i] = s[j]
      /\ \A j \in DOMAIN s : \E i \in DOMAIN new : new[i] = s[j]
      /\ \E i \in DOMAIN new : new[i] = x
  BY <1>0, WithOneMore
<1>2. Range(new) = Range(s) \union {x}
  BY <1>1 DEF Range
<1>3. /\ b \in Blocks(x.iv) => ReadersIn(new, b) = ReadersIn(s, b) \union {x.cl}
      /\ b \notin Blocks(x.iv) => ReadersIn(new, b) = ReadersIn(s, b)
  BY <1>2 DEF ReadersIn
<1> QED
  BY <1>0, <1>3
-----------------------------------------------------------------------------
(* The abstract state.                                                      *)

\* What the token table is instantiated with.
W == [f \in Files |-> [b \in AllBlocks |-> Writer(f, b)]]
R == [f \in Files |-> [b \in AllBlocks |-> Readers(f, b)]]

\* The same, from the maps and the vectors.
LEMMA TableState ==
  /\ W = [f \in Files |-> [b \in AllBlocks |-> WriterIn(MDWTokens[f], b)]]
  /\ R = [f \in Files |-> [b \in AllBlocks |-> ReadersIn(MDRTokens[f], b)]]
  /\ W' = [f \in Files |-> [b \in AllBlocks |-> WriterIn(MDWTokens'[f], b)]]
  /\ R' = [f \in Files |-> [b \in AllBlocks |-> ReadersIn(MDRTokens'[f], b)]]
  BY DEF W, R, WriterIn, ReadersIn, Writer, Readers

\* The claim of the one thread that is between lock and unlock of fe_lock.
LEMMA OneClaim ==
  ASSUME LocksNest, NEW t \in Threads, HasEntry(t)
  PROVE  Claims = {ClaimOf(t)}
<1>1. \A u \in Threads : HasEntry(u) <=> u = t
  BY DEF LocksNest, Inside, HasEntry, InsidePCs
<1> QED
  BY <1>1 DEF Claims, ClaimOf

\* There is none when no thread is there.
LEMMA NoClaim ==
  ASSUME \A t \in Threads : ~HasEntry(t)
  PROVE  Claims = {}
  BY DEF Claims

\* A claim is one of the abstraction.
LEMMA ClaimFields ==
  ASSUME IInv, NEW t \in Threads, HasEntry(t) \/ pc[t] = "request_token"
  PROVE  /\ ClaimOf(t) \in Table!Claim
         /\ Blocks(Wanted(t)) \subseteq AllBlocks
         /\ req[t].mode \in {"r", "w"}
<1>1. req[t] \in Requests /\ req[t].op = "request_token"
  BY DEF IInv, RequestsMatch, HasEntry, EntryPCs
<1>2. req[t].file \in Files /\ req[t].mode \in {"r", "w"} /\ req[t].cl \in Clients
  BY <1>1, RequestFields
<1>3. Blocks(req[t].iv) \subseteq AllBlocks
  BY <1>1 DEF AllBlocks
<1> QED
  BY <1>2, <1>3 DEF ClaimOf, Wanted, Table!Claim

\* A step that leaves the tokens and the claim alone.
LEMMA TableKept ==
  ASSUME UNCHANGED << MDWTokens, MDRTokens >>,
         \A u \in Threads : (HasEntry(u)' <=> HasEntry(u)) /\ (HasEntry(u) => req'[u] = req[u])
  PROVE  UNCHANGED Table!vars
<1>1. UNCHANGED << W, R >>
  BY TableState
<1>2. Claims' = Claims
  BY DEF Claims
<1> QED
  BY <1>1, <1>2 DEF W, R, Table!vars

\* A step that does not lead into the readers loop either.
LEMMA Stutters ==
  ASSUME WritersGone, UNCHANGED << MDWTokens, MDRTokens >>,
         \A u \in Threads : /\ HasEntry(u)' <=> HasEntry(u)
                            /\ HasEntry(u) => req'[u] = req[u]
                            /\ pc'[u] \in ReaderPCs => pc[u] \in ReaderPCs
  PROVE  WritersGone' /\ UNCHANGED Table!vars
<1>1. UNCHANGED Table!vars
  BY TableKept
<1>2. \A u \in Threads : pc[u] \in ReaderPCs => HasEntry(u)
  BY DEF ReaderPCs, HasEntry, EntryPCs
<1>3. WritersGone'
  BY <1>2 DEF WritersGone, Wanted
<1> QED
  BY <1>1, <1>3

\* A thread that moves outside the token handler.
LEMMA Elsewhere ==
  ASSUME TInv, NEW t \in Threads, NEW label, GoTo(t, label),
         label \notin EntryPCs, pc[t] \notin EntryPCs,
         UNCHANGED << MDWTokens, MDRTokens >>, \A u \in Threads \ {t} : req'[u] = req[u]
  PROVE  WritersGone' /\ UNCHANGED Table!vars
<1>1. TypeOK /\ WritersGone
  BY DEF TInv, IInv
<1>2. pc'[t] = label /\ \A u \in Threads \ {t} : pc'[u] = pc[u]
  BY <1>1, OneMoves
<1>3. \A u \in Threads : /\ HasEntry(u)' <=> HasEntry(u)
                         /\ HasEntry(u) => req'[u] = req[u]
                         /\ pc'[u] \in ReaderPCs => pc[u] \in ReaderPCs
  BY <1>2 DEF HasEntry, EntryPCs, ReaderPCs
<1> QED
  BY <1>1, <1>3, Stutters

\* A thread that moves within it and does not enter the readers loop.
LEMMA Within ==
  ASSUME TInv, NEW t \in Threads, NEW label \in EntryPCs, GoTo(t, label), HasEntry(t),
         label \in ReaderPCs => pc[t] \in ReaderPCs,
         UNCHANGED << MDWTokens, MDRTokens, req >>
  PROVE  WritersGone' /\ UNCHANGED Table!vars
<1>1. TypeOK /\ WritersGone
  BY DEF TInv, IInv
<1>2. pc'[t] = label /\ \A u \in Threads \ {t} : pc'[u] = pc[u]
  BY <1>1, OneMoves
<1>3. \A u \in Threads : /\ HasEntry(u)' <=> HasEntry(u)
                         /\ pc'[u] \in ReaderPCs => pc[u] \in ReaderPCs
  BY <1>2 DEF HasEntry
<1> QED
  BY <1>1, <1>3, Stutters

\* Nobody moves.
LEMMA Still ==
  ASSUME TInv, UNCHANGED << MDWTokens, MDRTokens, req, pc >>
  PROVE  WritersGone' /\ UNCHANGED Table!vars
<1>1. \A u \in Threads : HasEntry(u)' <=> HasEntry(u)
  BY DEF HasEntry
<1> QED
  BY <1>1, Stutters DEF TInv

\* Nobody else is in the readers loop while a thread is inside.
LEMMA LoopAlone ==
  ASSUME IInv, NEW t \in Threads, Inside(t), NEW label, GoTo(t, label), label \notin ReaderPCs
  PROVE  WritersGone'
<1>1. \A u \in Threads \ {t} : pc[u] \notin ReaderPCs
  BY DEF IInv, LocksNest, Inside, InsidePCs, EntryPCs, ReaderPCs
<1>2. pc'[t] = label /\ \A u \in Threads \ {t} : pc'[u] = pc[u]
  BY OneMoves DEF IInv
<1> QED
  BY <1>1, <1>2 DEF WritersGone

\* The readers change and the writers do not.
LEMMA LoopKept ==
  ASSUME TInv, UNCHANGED << MDWTokens, req >>,
         \A u \in Threads : pc'[u] \in ReaderPCs => pc[u] \in ReaderPCs
  PROVE  WritersGone'
  BY DEF TInv, WritersGone, Wanted
-----------------------------------------------------------------------------
(* The steps of the abstraction.                                            *)

\* When one map changes, the write tokens of the abstraction change for its file alone.
LEMMA WritersUpdate ==
  ASSUME TypeOK, NEW f \in Files, NEW map, MDWTokens' = [MDWTokens EXCEPT ![f] = map]
  PROVE  W' = [W EXCEPT ![f] = [b \in AllBlocks |-> WriterIn(map, b)]]
<1>1. \A g \in Files : MDWTokens'[g] = IF g = f THEN map ELSE MDWTokens[g]
  BY DEF TypeOK
<1>2. W' = [g \in Files |-> [b \in AllBlocks |-> WriterIn(MDWTokens'[g], b)]]
  BY TableState
<1>3. W = [g \in Files |-> [b \in AllBlocks |-> WriterIn(MDWTokens[g], b)]]
  BY TableState
<1>4. W' = [g \in Files |-> IF g = f THEN [b \in AllBlocks |-> WriterIn(map, b)] ELSE W[g]]
  BY <1>1, <1>2, <1>3
<1> QED
  BY <1>3, <1>4

\* So do the read tokens, when one vector changes.
LEMMA ReadersUpdate ==
  ASSUME TypeOK, NEW f \in Files, NEW s, MDRTokens' = [MDRTokens EXCEPT ![f] = s]
  PROVE  R' = [R EXCEPT ![f] = [b \in AllBlocks |-> ReadersIn(s, b)]]
<1>1. \A g \in Files : MDRTokens'[g] = IF g = f THEN s ELSE MDRTokens[g]
  BY DEF TypeOK
<1>2. R' = [g \in Files |-> [b \in AllBlocks |-> ReadersIn(MDRTokens'[g], b)]]
  BY TableState
<1>3. R = [g \in Files |-> [b \in AllBlocks |-> ReadersIn(MDRTokens[g], b)]]
  BY TableState
<1>4. R' = [g \in Files |-> IF g = f THEN [b \in AllBlocks |-> ReadersIn(s, b)] ELSE R[g]]
  BY <1>1, <1>2, <1>3
<1> QED
  BY <1>3, <1>4

\* A writer loses blocks of the claim.
LEMMA AbstractRevokeWriter ==
  ASSUME NEW c, Claims = {c}, NEW w \in Clients, NEW lost \in SUBSET c.blocks,
         W' = [W EXCEPT ![c.file] =
                 [b \in AllBlocks |-> IF b \in lost /\ W[c.file][b] = w THEN Free ELSE W[c.file][b]]],
         UNCHANGED << R, Claims >>
  PROVE  Table!Next
<1>1. Table!RevokeWriter(c, w, lost)
  BY DEF W, R, Table!RevokeWriter
<1> QED
  BY <1>1 DEF Table!Next

\* A reader loses blocks of a write claim.
LEMMA AbstractRevokeReader ==
  ASSUME NEW c, Claims = {c}, c.mode = "w", NEW r \in Clients, NEW lost \in SUBSET c.blocks,
         R' = [R EXCEPT ![c.file] =
                 [b \in AllBlocks |-> IF b \in lost THEN R[c.file][b] \ {r} ELSE R[c.file][b]]],
         UNCHANGED << W, Claims >>
  PROVE  Table!Next
<1>1. Table!RevokeReader(c, r, lost)
  BY DEF W, R, Table!RevokeReader
<1> QED
  BY <1>1 DEF Table!Next

\* A claim is granted.
LEMMA AbstractGrant ==
  ASSUME NEW c, Claims = {c}, Claims' = {}, \A b \in c.blocks : W[c.file][b] = Free,
         \/ /\ c.mode = "w"
            /\ W' = [W EXCEPT ![c.file] =
                       [b \in AllBlocks |-> IF b \in c.blocks THEN c.cl ELSE W[c.file][b]]]
            /\ UNCHANGED R
         \/ /\ c.mode = "r"
            /\ R' = [R EXCEPT ![c.file] =
                       [b \in AllBlocks |-> IF b \in c.blocks THEN R[c.file][b] \union {c.cl}
                                                              ELSE R[c.file][b]]]
            /\ UNCHANGED W
  PROVE  Table!Next
<1>1. Table!Grant(c)
  BY DEF W, R, Table!Grant
<1> QED
  BY <1>1 DEF Table!Next

\* Taking a token from a writer, all blocks or none of it outside the interval.
LEMMA DropWriterTable ==
  ASSUME TInv, NEW t \in Threads, HasEntry(t), NEW e \in FoundWriter(t), DropWriter(t, e),
         UNCHANGED req, \A u \in Threads : HasEntry(u)' <=> HasEntry(u)
  PROVE  Table!Next
<1> DEFINE f == req[t].file
           lost == Blocks(e.iv) \intersect Blocks(Wanted(t))
           map == MapInsert(MDWTokens[f] \ {e}, Range(Pieces(t, e)))
<1>1. /\ f \in Files /\ Wanted(t) \in Interval /\ e \in MDWTokens[f] /\ e \in Token
      /\ Overlaps(e.iv, Wanted(t)) /\ TypeOK /\ LocksNest /\ MDWTokens[f] \in SUBSET Token
      /\ \A d, g \in MDWTokens[f] : d # g => Blocks(d.iv) \intersect Blocks(g.iv) = {}
  BY Serving DEF TInv, IInv, TypeOK, WriteTokensDisjoint
<1>2. Claims = {ClaimOf(t)} /\ Claims' = Claims
  <2>1. Claims = {ClaimOf(t)}
    BY <1>1, OneClaim
  <2>2. Claims' = Claims
    BY DEF Claims
  <2> QED
    BY <2>1, <2>2
<1>3. W' = [W EXCEPT ![f] = [b \in AllBlocks |-> WriterIn(map, b)]]
  <2>1. MDWTokens' = [MDWTokens EXCEPT ![f] = map]
    BY DEF DropWriter
  <2> HIDE DEF map
  <2> QED
    BY <1>1, <2>1, WritersUpdate
<1>4. \A b \in AllBlocks :
        WriterIn(map, b) = IF b \in lost /\ W[f][b] = e.cl THEN Free ELSE W[f][b]
  <2> SUFFICES ASSUME NEW b \in AllBlocks
               PROVE  WriterIn(map, b) = IF b \in lost /\ W[f][b] = e.cl THEN Free ELSE W[f][b]
    OBVIOUS
  <2>1. W[f][b] = WriterIn(MDWTokens[f], b)
    BY <1>1, TableState
  <2>2. WriterIn(map, b) = IF b \in lost THEN Free ELSE WriterIn(MDWTokens[f], b)
    <3>1. PICK m \in SUBSET Token : m = MDWTokens[f]
      BY <1>1
    <3>2. /\ e \in m /\ Wanted(t) \in Interval /\ Overlaps(e.iv, Wanted(t))
          /\ \A d, g \in m : d # g => Blocks(d.iv) \intersect Blocks(g.iv) = {}
      BY <1>1, <3>1
    <3>3. WriterIn(MapInsert(m \ {e}, Range(Pieces(t, e))), b)
            = IF b \in Blocks(e.iv) \intersect Blocks(Wanted(t)) THEN Free ELSE WriterIn(m, b)
      BY <3>2, WriterDropped
    <3> QED
      BY <3>1, <3>3
  <2>3. b \in lost => WriterIn(MDWTokens[f], b) = e.cl
    BY <1>1, WriterIs
  <2> HIDE DEF map, lost
  <2> QED
    BY <2>1, <2>2, <2>3
<1>5. W' = [W EXCEPT ![f] = [b \in AllBlocks |-> IF b \in lost /\ W[f][b] = e.cl THEN Free ELSE W[f][b]]]
  <2> HIDE DEF map, lost
  <2> QED
    BY <1>3, <1>4
<1>6. ClaimOf(t).file = f /\ ClaimOf(t).blocks = Blocks(Wanted(t)) /\ e.cl \in Clients
  BY <1>1 DEF ClaimOf, Wanted, Token
<1>7. R' = R
  BY TableState DEF DropWriter
<1>8. lost \in SUBSET Blocks(Wanted(t))
  OBVIOUS
<1> HIDE DEF map, lost, f
<1> QED
  BY <1>2, <1>5, <1>6, <1>7, <1>8, AbstractRevokeWriter

\* Erasing a reader and appending its pieces takes blocks of the interval from its client,
\* those which no other token of it covers.
LEMMA DropReaderTable ==
  ASSUME TInv, NEW t \in Threads, HasEntry(t), req[t].mode = "w", AtReader(t),
         Overlaps(Wanted(t), Tokens(t)[it[t]].iv), DropReader(t),
         UNCHANGED req, \A u \in Threads : HasEntry(u)' <=> HasEntry(u)
  PROVE  Table!Next
<1> DEFINE f == req[t].file
           n == it[t]
           e == Tokens(t)[n]
           s == RemoveAt(Tokens(t), n) \o Pieces(t, e)
           lost == {b \in Blocks(Wanted(t)) : ReadersIn(s, b) # ReadersIn(Tokens(t), b)}
<1>1. /\ f \in Files /\ Wanted(t) \in Interval /\ Tokens(t) \in Seq(Token) /\ TypeOK /\ LocksNest
      /\ n \in 1 .. Len(Tokens(t)) /\ Overlaps(e.iv, Wanted(t))
  BY Serving DEF TInv, IInv, AtReader, Overlaps
<1>2. Claims = {ClaimOf(t)} /\ Claims' = Claims
  <2>1. Claims = {ClaimOf(t)}
    BY <1>1, OneClaim
  <2>2. Claims' = Claims
    BY DEF Claims
  <2> QED
    BY <2>1, <2>2
<1>3. R' = [R EXCEPT ![f] = [b \in AllBlocks |-> ReadersIn(s, b)]]
  <2>1. MDRTokens' = [MDRTokens EXCEPT ![f] = s]
    BY DEF DropReader, Tokens
  <2> HIDE DEF s
  <2> QED
    BY <1>1, <2>1, ReadersUpdate
<1>4. \A b \in AllBlocks :
        ReadersIn(s, b) = IF b \in lost THEN R[f][b] \ {e.cl} ELSE R[f][b]
  <2> SUFFICES ASSUME NEW b \in AllBlocks
               PROVE  ReadersIn(s, b) = IF b \in lost THEN R[f][b] \ {e.cl} ELSE R[f][b]
    OBVIOUS
  <2>1. R[f][b] = ReadersIn(Tokens(t), b)
    BY <1>1, TableState DEF Tokens
  <2>2. /\ b \notin Blocks(Wanted(t)) => ReadersIn(s, b) = ReadersIn(Tokens(t), b)
        /\ \/ ReadersIn(s, b) = ReadersIn(Tokens(t), b)
           \/ ReadersIn(s, b) = ReadersIn(Tokens(t), b) \ {e.cl}
    BY <1>1, ReaderDropped
  <2> HIDE DEF s, e
  <2> QED
    BY <2>1, <2>2
<1>5. R' = [R EXCEPT ![f] = [b \in AllBlocks |-> IF b \in lost THEN R[f][b] \ {e.cl} ELSE R[f][b]]]
  <2> HIDE DEF s, lost, e
  <2> QED
    BY <1>3, <1>4
<1>6. /\ ClaimOf(t).file = f /\ ClaimOf(t).blocks = Blocks(Wanted(t)) /\ ClaimOf(t).mode = "w"
      /\ e.cl \in Clients
  <2>1. e \in Token
    BY <1>1, ElementOfSeq
  <2> QED
    BY <2>1 DEF ClaimOf, Wanted, Token
<1>7. W' = W
  BY TableState DEF DropReader
<1>8. lost \in SUBSET Blocks(Wanted(t))
  OBVIOUS
<1> HIDE DEF s, lost, e, f
<1> QED
  BY <1>2, <1>5, <1>6, <1>7, <1>8, AbstractRevokeReader

\* A thread that grants leaves no claim behind.
LEMMA ClaimServed ==
  ASSUME IInv, NEW t \in Threads, HasEntry(t), Reply(t, "granted")
  PROVE  Claims' = {} /\ Claims = {ClaimOf(t)} /\ GoTo(t, "reply") /\ Inside(t)
<1>1. TypeOK /\ LocksNest /\ GoTo(t, "reply") /\ Inside(t)
  BY DEF IInv, Reply, HasEntry, Inside, InsidePCs
<1>2. \A u \in Threads \ {t} : ~HasEntry(u)
  BY <1>1 DEF LocksNest, Inside, HasEntry, InsidePCs
<1>3. pc'[t] = "reply" /\ \A u \in Threads \ {t} : pc'[u] = pc[u]
  BY <1>1, OneMoves
<1>4. \A u \in Threads : ~HasEntry(u)'
  BY <1>2, <1>3 DEF HasEntry, EntryPCs
<1>5. Claims' = {}
  BY <1>4 DEF Claims
<1> QED
  BY <1>1, <1>5, OneClaim
-----------------------------------------------------------------------------
(* The steps of the manager.                                                *)

\* Steps of a thread outside the token handler, except for deletion.
LEMMA OutsideTable ==
  ASSUME TInv, NEW t \in Threads,
         \/ \E r \in Requests : Accept(t, r)
         \/ LockTable(t) \/ SendResponse(t) \/ CreateEntry(t) \/ Open(t)
         \/ FindToDelete(t) \/ FindToStat(t) \/ StatDone(t)
  PROVE  WritersGone' /\ UNCHANGED Table!vars
<1>1. ASSUME NEW r \in Requests, Accept(t, r) PROVE WritersGone' /\ UNCHANGED Table!vars
  <2>1. /\ GoTo(t, "lock") /\ pc[t] = "idle" /\ UNCHANGED << MDWTokens, MDRTokens >>
        /\ \A u \in Threads \ {t} : req'[u] = req[u]
    BY <1>1 DEF Accept, At, tableVars, TInv, IInv, TypeOK
  <2> QED
    BY <2>1, Elsewhere DEF EntryPCs
<1>2. CASE LockTable(t)
  <2>1. /\ GoTo(t, req[t].op) /\ pc[t] = "lock" /\ UNCHANGED << MDWTokens, MDRTokens, req >>
    BY <1>2 DEF LockTable, At, tableVars
  <2>2. req[t].op \in {"request_token", "create", "open", "delete", "fstat"}
    BY <2>1, RequestFields DEF TInv, IInv, RequestsMatch
  <2> QED
    BY <2>1, <2>2, Elsewhere DEF EntryPCs
<1>3. CASE SendResponse(t)
  <2>1. /\ GoTo(t, "idle") /\ pc[t] = "reply" /\ UNCHANGED << MDWTokens, MDRTokens >>
        /\ \A u \in Threads \ {t} : req'[u] = req[u]
    BY <1>3 DEF SendResponse, At, tableVars, TInv, IInv, TypeOK
  <2> QED
    BY <2>1, Elsewhere DEF EntryPCs
<1>4. CASE CreateEntry(t) \/ Open(t) \/ StatDone(t)
  <2>1. /\ GoTo(t, "reply") /\ pc[t] \in {"create", "open", "stating"}
        /\ UNCHANGED << MDWTokens, MDRTokens, req >>
    BY <1>4 DEF CreateEntry, Open, StatDone, Reply, At, tableVars
  <2> QED
    BY <2>1, Elsewhere DEF EntryPCs
<1>5. CASE FindToDelete(t) \/ FindToStat(t)
  <2>1. /\ \E label \in {"deleting", "stating", "reply"} : GoTo(t, label)
        /\ pc[t] \in {"delete", "fstat"}
        /\ UNCHANGED << MDWTokens, MDRTokens, req >>
    BY <1>5 DEF FindToDelete, FindToStat, FindOrLeak, Reply, At, tableVars
  <2> QED
    BY <2>1, Elsewhere DEF EntryPCs
<1> QED
  BY <1>1, <1>2, <1>3, <1>4, <1>5

\* Steps in which no thread moves and no token changes.
LEMMA StillTable ==
  ASSUME TInv,
         \/ \E t \in Threads : CreateOnServer(t) \/ DeleteOnServer(t) \/ StatOnServer(t) \/ RunWild(t)
         \/ \E s \in Fragile : ServerStop(s) \/ ServerRecover(s)
         \/ \E c \in Mortal : ClientExit(c)
         \/ UNCHANGED vars
  PROVE  WritersGone' /\ UNCHANGED Table!vars
<1>1. UNCHANGED << MDWTokens, MDRTokens, req, pc >>
  BY DEF CreateOnServer, DeleteOnServer, StatOnServer, RunWild, ServerStop, ServerRecover,
         ClientExit, vars, tableVars, threadVars
<1> QED
  BY <1>1, Still

\* The tokens of a deleted file are forgotten.
LEMMA DeleteEntryTable ==
  ASSUME TInv, NEW t \in Threads, DeleteEntry(t)
  PROVE  WritersGone' /\ Table!Next
<1> DEFINE f == req[t].file
<1>1. /\ IInv /\ TypeOK /\ LocksNest /\ pc[t] = "deleting" /\ GoTo(t, "reply")
      /\ MDWTokens' = [MDWTokens EXCEPT ![f] = {}]
      /\ MDRTokens' = [MDRTokens EXCEPT ![f] = << >>]
  BY DEF TInv, IInv, DeleteEntry, Reply, At
<1>2. f \in Files /\ Inside(t) /\ ~HasEntry(t)
  BY <1>1, RequestFields DEF IInv, RequestsMatch, Inside, HasEntry, InsidePCs, EntryPCs
<1>3. \A u \in Threads : ~HasEntry(u) /\ ~HasEntry(u)'
  <2>1. \A u \in Threads : ~HasEntry(u)
    BY <1>1, <1>2 DEF LocksNest, Inside, HasEntry, InsidePCs
  <2>2. pc'[t] = "reply" /\ \A u \in Threads \ {t} : pc'[u] = pc[u]
    BY <1>1, OneMoves
  <2> QED
    BY <2>1, <2>2 DEF HasEntry, EntryPCs
<1>4. Claims = {} /\ Claims' = {}
  BY <1>3 DEF Claims
<1>5. WritersGone'
  BY <1>1, <1>2, LoopAlone DEF ReaderPCs
<1>6. W' = [W EXCEPT ![f] = [b \in AllBlocks |-> Free]]
  <2>1. \A b : WriterIn({}, b) = Free
    BY DEF WriterIn
  <2>2. W' = [W EXCEPT ![f] = [b \in AllBlocks |-> WriterIn({}, b)]]
    BY <1>1, <1>2, WritersUpdate
  <2> QED
    BY <2>1, <2>2
<1>7. R' = [R EXCEPT ![f] = [b \in AllBlocks |-> {}]]
  <2>1. \A b : ReadersIn(<< >>, b) = {}
    BY DEF ReadersIn, Range
  <2>2. R' = [R EXCEPT ![f] = [b \in AllBlocks |-> ReadersIn(<< >>, b)]]
    BY <1>1, <1>2, ReadersUpdate
  <2> QED
    BY <2>1, <2>2
<1> HIDE DEF f
<1>8. Table!Forget(f)
  BY <1>4, <1>6, <1>7 DEF W, R, Table!Forget
<1> QED
  BY <1>2, <1>5, <1>8 DEF Table!Next

\* The claim begins when the entry is locked.
LEMMA FindEntryTable ==
  ASSUME TInv, NEW t \in Threads, FindEntry(t)
  PROVE  WritersGone' /\ [Table!Next]_(Table!vars)
<1>1. /\ IInv /\ TypeOK /\ LocksNest /\ pc[t] = "request_token"
      /\ UNCHANGED << MDWTokens, MDRTokens, req >>
  BY DEF TInv, IInv, FindEntry, At, tableVars
<1>2. CASE GoTo(t, "reply")
  BY <1>1, <1>2, Elsewhere DEF EntryPCs
<1>3. CASE GoTo(t, "writers")
  <2>1. Inside(t) /\ ~HasEntry(t)
    BY <1>1 DEF Inside, HasEntry, InsidePCs, EntryPCs
  <2>2. \A u \in Threads : ~HasEntry(u)
    BY <1>1, <2>1 DEF LocksNest, Inside, HasEntry, InsidePCs
  <2>3. pc'[t] = "writers" /\ \A u \in Threads \ {t} : pc'[u] = pc[u]
    BY <1>1, <1>3, OneMoves
  <2>4. \A u \in Threads : HasEntry(u)' <=> u = t
    BY <2>2, <2>3 DEF HasEntry, EntryPCs
  <2>5. Claims = {}
    BY <2>2, NoClaim
  <2>6. Claims' = {ClaimOf(t)}
    BY <1>1, <2>4 DEF Claims, ClaimOf
  <2>7. UNCHANGED << W, R >>
    BY <1>1, TableState
  <2>8. ClaimOf(t) \in Table!Claim
    BY <1>1, ClaimFields
  <2>9. Table!Serve(ClaimOf(t))
    BY <2>5, <2>6, <2>7 DEF W, R, Table!Serve
  <2>10. WritersGone'
    BY <1>1, <1>3, <2>1, LoopAlone DEF ReaderPCs
  <2> QED
    BY <2>8, <2>9, <2>10 DEF Table!Next
<1> QED
  BY <1>2, <1>3 DEF FindEntry, Reply

\* A writer is asked, or its token is taken.
LEMMA RevokeWriterTable ==
  ASSUME TInv, NEW t \in Threads, RevokeWriter(t) \/ WriterAnswer(t)
  PROVE  WritersGone' /\ [Table!Next]_(Table!vars)
<1>1. /\ IInv /\ TypeOK /\ HasEntry(t) /\ Inside(t) /\ pc[t] \in {"writers", "wcall"}
      /\ UNCHANGED req
  BY DEF TInv, IInv, RevokeWriter, WriterAnswer, At, HasEntry, Inside, InsidePCs, EntryPCs
<1>2. PICK label \in {"writers", "wcall"} : GoTo(t, label)
  BY <1>1 DEF RevokeWriter, WriterAnswer, GoTo, TypeOK
<1>3. CASE UNCHANGED tableVars
  BY <1>1, <1>2, <1>3, Within DEF tableVars, EntryPCs, ReaderPCs
<1>4. ASSUME NEW e \in FoundWriter(t), DropWriter(t, e)
      PROVE  WritersGone' /\ Table!Next
  <2>1. WritersGone'
    BY <1>1, <1>2, LoopAlone DEF ReaderPCs
  <2>2. pc'[t] = label /\ \A u \in Threads \ {t} : pc'[u] = pc[u]
    BY <1>1, <1>2, OneMoves
  <2>3. \A u \in Threads : HasEntry(u)' <=> HasEntry(u)
    BY <1>1, <2>2 DEF HasEntry, EntryPCs
  <2> QED
    BY <1>1, <1>4, <2>1, <2>3, DropWriterTable
<1> QED
  BY <1>3, <1>4 DEF RevokeWriter, WriterAnswer

\* The readers loop begins when find returns nothing.
LEMMA StartReadersTable ==
  ASSUME TInv, NEW t \in Threads, StartReaders(t)
  PROVE  WritersGone' /\ UNCHANGED Table!vars
<1>1. /\ IInv /\ TypeOK /\ LocksNest /\ HasEntry(t) /\ GoTo(t, "readers")
      /\ req[t].mode = "w" /\ FoundWriter(t) = {} /\ UNCHANGED << MDWTokens, MDRTokens, req >>
  BY DEF TInv, IInv, StartReaders, At, HasEntry, EntryPCs, tableVars
<1>2. pc'[t] = "readers" /\ \A u \in Threads \ {t} : pc'[u] = pc[u]
  BY <1>1, OneMoves
<1>3. \A u \in Threads : HasEntry(u)' <=> HasEntry(u)
  BY <1>1, <1>2 DEF HasEntry, EntryPCs
<1>4. \A e \in MDWTokens[req[t].file] : ~Overlaps(e.iv, Wanted(t))
  <2>1. MDWTokens[req[t].file] \in SUBSET Token /\ Wanted(t) \in Interval
    BY <1>1, Serving DEF TypeOK
  <2> QED
    BY <1>1, <2>1, NoneFound DEF FoundWriter
<1>5. WritersGone'
  <2>1. \A u \in Threads \ {t} : pc'[u] \notin ReaderPCs
    BY <1>1, <1>2 DEF LocksNest, Inside, HasEntry, InsidePCs, EntryPCs, ReaderPCs
  <2> QED
    BY <1>1, <1>4, <2>1 DEF WritersGone, Wanted
<1> QED
  BY <1>1, <1>3, <1>5, TableKept

\* A reader is passed by, asked, or its token is taken.
LEMMA ReadersLoopTable ==
  ASSUME TInv, NEW t \in Threads, ScanReader(t) \/ ReaderAnswer(t)
  PROVE  WritersGone' /\ [Table!Next]_(Table!vars)
<1>1. /\ IInv /\ TypeOK /\ HasEntry(t) /\ pc[t] \in ReaderPCs /\ req[t].mode = "w" /\ AtReader(t)
      /\ UNCHANGED req
  BY DEF TInv, IInv, WritersGone, CursorOK, ScanReader, ReaderAnswer, At, HasEntry, EntryPCs, ReaderPCs
<1>2. PICK label \in ReaderPCs : GoTo(t, label)
  BY <1>1 DEF ScanReader, ReaderAnswer, GoTo, TypeOK, ReaderPCs
<1>3. CASE UNCHANGED tableVars
  BY <1>1, <1>2, <1>3, Within DEF tableVars, EntryPCs, ReaderPCs
<1>4. CASE DropReader(t) /\ Overlaps(Wanted(t), Tokens(t)[it[t]].iv)
  <2>1. pc'[t] = label /\ \A u \in Threads \ {t} : pc'[u] = pc[u]
    BY <1>1, <1>2, OneMoves
  <2>2. \A u \in Threads : /\ HasEntry(u)' <=> HasEntry(u)
                           /\ pc'[u] \in ReaderPCs => pc[u] \in ReaderPCs
    BY <1>1, <2>1 DEF HasEntry, EntryPCs, ReaderPCs
  <2>3. WritersGone'
    BY <1>1, <1>4, <2>2, LoopKept DEF DropReader
  <2> QED
    BY <1>1, <1>4, <2>2, <2>3, DropReaderTable
<1>5. \/ UNCHANGED tableVars
      \/ DropReader(t) /\ Overlaps(Wanted(t), Tokens(t)[it[t]].iv)
  BY DEF ScanReader, ReaderAnswer, At, KeepReader, TInv, IInv, CursorOK
<1> QED
  BY <1>3, <1>4, <1>5

\* A read token is granted.
LEMMA GrantReadTable ==
  ASSUME TInv, NEW t \in Threads, GrantRead(t)
  PROVE  WritersGone' /\ Table!Next
<1> DEFINE f == req[t].file
           x == [iv |-> Wanted(t), cl |-> req[t].cl]
           s == Append(Tokens(t), x)
<1>1. /\ IInv /\ TypeOK /\ HasEntry(t) /\ Reply(t, "granted") /\ req[t].mode = "r"
      /\ FoundWriter(t) = {} /\ UNCHANGED MDWTokens
      /\ MDRTokens' = [MDRTokens EXCEPT ![f] = s]
  BY DEF TInv, IInv, GrantRead, At, HasEntry, EntryPCs, Tokens
<1>2. Claims' = {} /\ Claims = {ClaimOf(t)} /\ GoTo(t, "reply") /\ Inside(t)
  BY <1>1, ClaimServed
<1>3. WritersGone'
  BY <1>1, <1>2, LoopAlone DEF ReaderPCs
<1>4. /\ f \in Files /\ Wanted(t) \in Interval /\ Tokens(t) \in Seq(Token) /\ x \in Token
      /\ MDWTokens[f] \in SUBSET Token
      /\ \A d, g \in MDWTokens[f] : d # g => Blocks(d.iv) \intersect Blocks(g.iv) = {}
  BY <1>1, Serving DEF Token, TypeOK, IInv, WriteTokensDisjoint
<1>5. ASSUME NEW b \in AllBlocks, b \in Blocks(Wanted(t)) PROVE W[f][b] = Free
  <2>1. \A e \in MDWTokens[f] : ~Overlaps(e.iv, Wanted(t))
    BY <1>1, <1>4, NoneFound DEF FoundWriter
  <2>2. \A e \in MDWTokens[f] : b \notin Blocks(e.iv)
    BY <1>4, <1>5, <2>1, OverlapsMeet DEF Token
  <2>3. WriterIn(MDWTokens[f], b) = Free
    BY <1>4, <2>2, WriterIs
  <2> QED
    BY <1>4, <2>3, TableState
<1>6. R' = [R EXCEPT ![f] = [b \in AllBlocks |-> ReadersIn(s, b)]]
  <2> HIDE DEF s
  <2> QED
    BY <1>1, <1>4, ReadersUpdate
<1>7. \A b \in AllBlocks :
        ReadersIn(s, b) = IF b \in Blocks(Wanted(t)) THEN R[f][b] \union {req[t].cl} ELSE R[f][b]
  <2> SUFFICES ASSUME NEW b \in AllBlocks
               PROVE  ReadersIn(s, b) = IF b \in Blocks(Wanted(t)) THEN R[f][b] \union {req[t].cl} ELSE R[f][b]
    OBVIOUS
  <2>1. R[f][b] = ReadersIn(Tokens(t), b)
    BY <1>4, TableState DEF Tokens
  <2>2. x.iv = Wanted(t) /\ x.cl = req[t].cl
    OBVIOUS
  <2>3. PICK y \in Token, old \in Seq(Token) : y = x /\ old = Tokens(t)
    BY <1>4
  <2>4. /\ b \in Blocks(y.iv) => ReadersIn(Append(old, y), b) = ReadersIn(old, b) \union {y.cl}
        /\ b \notin Blocks(y.iv) => ReadersIn(Append(old, y), b) = ReadersIn(old, b)
    BY ReaderAppended
  <2>5. s = Append(old, y)
    BY <2>3
  <2> HIDE DEF s, x
  <2> QED
    BY <2>1, <2>2, <2>3, <2>4, <2>5
<1>8. R' = [R EXCEPT ![f] = [b \in AllBlocks |->
              IF b \in Blocks(Wanted(t)) THEN R[f][b] \union {req[t].cl} ELSE R[f][b]]]
  <2> HIDE DEF s, x
  <2> QED
    BY <1>6, <1>7
<1>9. /\ ClaimOf(t).file = f /\ ClaimOf(t).blocks = Blocks(Wanted(t)) /\ ClaimOf(t).mode = "r"
      /\ ClaimOf(t).cl = req[t].cl
  BY <1>1 DEF ClaimOf, Wanted
<1>10. W' = W
  BY <1>1, TableState
<1>11. \A b \in Blocks(Wanted(t)) : W[f][b] = Free
  BY <1>1, <1>5, ClaimFields
<1> HIDE DEF s, x, f
<1> QED
  BY <1>2, <1>3, <1>8, <1>9, <1>10, <1>11, AbstractGrant

\* A write token is granted: no key of the map overlaps it, so the map takes it.
LEMMA GrantWriteTable ==
  ASSUME TInv, NEW t \in Threads, GrantWrite(t)
  PROVE  WritersGone' /\ Table!Next
<1> DEFINE f == req[t].file
           x == [iv |-> Wanted(t), cl |-> req[t].cl]
           map == MapInsert(MDWTokens[f], {x})
<1>1. /\ IInv /\ TypeOK /\ HasEntry(t) /\ Reply(t, "granted") /\ req[t].mode = "w"
      /\ UNCHANGED MDRTokens /\ MDWTokens' = [MDWTokens EXCEPT ![f] = map]
      /\ \A e \in MDWTokens[f] : ~Overlaps(e.iv, Wanted(t))
  BY DEF TInv, IInv, WritersGone, GrantWrite, At, HasEntry, EntryPCs, ReaderPCs
<1>2. Claims' = {} /\ Claims = {ClaimOf(t)} /\ GoTo(t, "reply") /\ Inside(t)
  BY <1>1, ClaimServed
<1>3. WritersGone'
  BY <1>1, <1>2, LoopAlone DEF ReaderPCs
<1>4. /\ f \in Files /\ x \in Token /\ MDWTokens[f] \in SUBSET Token
      /\ \A d, g \in MDWTokens[f] : d # g => Blocks(d.iv) \intersect Blocks(g.iv) = {}
  BY <1>1, Serving DEF Token, TypeOK, IInv, WriteTokensDisjoint
<1>5. W' = [W EXCEPT ![f] = [b \in AllBlocks |-> WriterIn(map, b)]]
  <2> HIDE DEF map
  <2> QED
    BY <1>1, <1>4, WritersUpdate
<1>6. \A b \in AllBlocks :
        /\ WriterIn(map, b) = IF b \in Blocks(Wanted(t)) THEN req[t].cl ELSE W[f][b]
        /\ b \in Blocks(Wanted(t)) => W[f][b] = Free
  <2> SUFFICES ASSUME NEW b \in AllBlocks
               PROVE  /\ WriterIn(map, b) = IF b \in Blocks(Wanted(t)) THEN req[t].cl ELSE W[f][b]
                      /\ b \in Blocks(Wanted(t)) => W[f][b] = Free
    OBVIOUS
  <2>1. PICK m \in SUBSET Token, y \in Token : m = MDWTokens[f] /\ y = x
    BY <1>4
  <2>2. /\ \A d, g \in m : d # g => Blocks(d.iv) \intersect Blocks(g.iv) = {}
        /\ \A d \in m : ~Overlaps(d.iv, y.iv)
    BY <1>1, <1>4, <2>1
  <2>3. /\ WriterIn(MapInsert(m, {y}), b) = IF b \in Blocks(y.iv) THEN y.cl ELSE WriterIn(m, b)
        /\ b \in Blocks(y.iv) => WriterIn(m, b) = Free
    BY <2>2, WriterInserted
  <2>4. W[f][b] = WriterIn(m, b)
    BY <1>4, <2>1, TableState
  <2>5. y.iv = Wanted(t) /\ y.cl = req[t].cl /\ map = MapInsert(m, {y})
    BY <2>1
  <2> HIDE DEF map, x
  <2> QED
    BY <2>3, <2>4, <2>5
<1>7. W' = [W EXCEPT ![f] = [b \in AllBlocks |-> IF b \in Blocks(Wanted(t)) THEN req[t].cl ELSE W[f][b]]]
  <2> HIDE DEF map, x
  <2> QED
    BY <1>5, <1>6
<1>8. /\ ClaimOf(t).file = f /\ ClaimOf(t).blocks = Blocks(Wanted(t)) /\ ClaimOf(t).mode = "w"
      /\ ClaimOf(t).cl = req[t].cl
  BY <1>1 DEF ClaimOf, Wanted
<1>9. R' = R
  BY <1>1, TableState
<1>10. \A b \in Blocks(Wanted(t)) : W[f][b] = Free
  BY <1>1, <1>6, ClaimFields
<1> HIDE DEF map, x, f
<1> QED
  BY <1>2, <1>3, <1>7, <1>8, <1>9, <1>10, AbstractGrant
-----------------------------------------------------------------------------
(* The refinement.                                                          *)

\* The table starts empty, and no claim is served.
LEMMA InitTable == Init => WritersGone /\ Table!Init
<1> SUFFICES ASSUME Init PROVE WritersGone /\ Table!Init
  OBVIOUS
<1>1. WritersGone
  BY DEF Init, WritersGone, ReaderPCs
<1>2. Claims = {}
  BY DEF Init, Claims, HasEntry, EntryPCs
<1>3. \A f \in Files, b \in AllBlocks : Writer(f, b) = Free /\ Readers(f, b) = {}
  <2> SUFFICES ASSUME NEW f \in Files, NEW b \in AllBlocks
               PROVE  Writer(f, b) = Free /\ Readers(f, b) = {}
    OBVIOUS
  <2>1. MDWTokens[f] = {} /\ MDRTokens[f] = << >>
    BY DEF Init
  <2>2. Range(MDRTokens[f]) = {}
    BY <2>1 DEF Range
  <2> QED
    BY <2>1, <2>2, Zenon DEF Writer, Readers
<1> QED
  BY <1>1, <1>2, <1>3 DEF Table!Init

\* Every step of the manager is one of the abstraction, or leaves it alone.
LEMMA NextTable ==
  ASSUME TInv, [Next]_vars
  PROVE  WritersGone' /\ [Table!Next]_(Table!vars)
<1>1. ASSUME NEW t \in Threads, Handle(t) PROVE WritersGone' /\ [Table!Next]_(Table!vars)
  <2>1. CASE \/ LockTable(t) \/ SendResponse(t) \/ CreateEntry(t) \/ Open(t)
             \/ FindToDelete(t) \/ FindToStat(t) \/ StatDone(t)
    BY <2>1, OutsideTable
  <2>2. CASE CreateOnServer(t) \/ DeleteOnServer(t) \/ StatOnServer(t) \/ RunWild(t)
    BY <2>2, StillTable
  <2>3. CASE DeleteEntry(t)
    BY <2>3, DeleteEntryTable
  <2>4. CASE FindEntry(t)
    BY <2>4, FindEntryTable
  <2>5. CASE RevokeWriter(t) \/ WriterAnswer(t)
    BY <2>5, RevokeWriterTable
  <2>6. CASE StartReaders(t)
    BY <2>6, StartReadersTable
  <2>7. CASE ScanReader(t) \/ ReaderAnswer(t)
    BY <2>7, ReadersLoopTable
  <2>8. CASE GrantRead(t)
    BY <2>8, GrantReadTable
  <2>9. CASE GrantWrite(t)
    BY <2>9, GrantWriteTable
  <2> QED
    BY <1>1, <2>1, <2>2, <2>3, <2>4, <2>5, <2>6, <2>7, <2>8, <2>9 DEF Handle
<1>2. CASE \E t \in Threads, r \in Requests : Accept(t, r)
  BY <1>2, OutsideTable
<1>3. CASE \/ \E s \in Fragile : ServerStop(s) \/ ServerRecover(s)
           \/ \E c \in Mortal : ClientExit(c)
           \/ UNCHANGED vars
  BY <1>3, StillTable
<1> QED
  BY <1>1, <1>2, <1>3 DEF Next

\* The manager implements the block by block token table: every revocation takes blocks
\* of the claim it serves from one client, every grant gives all its blocks at once and
\* only when no writer has one, and nothing else touches a token.
THEOREM Implements == Spec => ImplementsTokenTable
<1>1. Init => WritersGone /\ Table!Init
  BY InitTable
<1>2. IInv /\ WritersGone /\ [Next]_vars => WritersGone' /\ [Table!Next]_(Table!vars)
  BY NextTable DEF TInv
<1> QED
  BY <1>1, <1>2, Invariant, PTL DEF Spec, ImplementsTokenTable, Table!Spec
=============================================================================
