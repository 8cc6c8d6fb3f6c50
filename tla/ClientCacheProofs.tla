-------------------------- MODULE ClientCacheProofs -------------------------
(***************************************************************************)
(* The safety properties of the client cache, for every number of blocks,   *)
(* every capacity and every pair of thresholds, and the scan of the          *)
(* harvester for every order of the hash table.                              *)
(***************************************************************************)
EXTENDS ClientCache, FiniteSetTheorems, WellFoundedInduction, TLAPS

CacheInv ==
  /\ Cached \subseteq Keys /\ IsFiniteSet(Cached)
  /\ usedSpace \in [Cached -> BlockT]
  /\ freeSpace \in Nat /\ freeSpace + Cardinality(Cached) <= BUFFER_CACHE_CAPACITY

\* Access times are read from a clock that goes on with every read: no two are the same.
ClockInv ==
  /\ LAST_ACCESS \in Nat
  /\ \A k \in Cached : usedSpace[k].access_time < LAST_ACCESS
  /\ \A j, k \in Cached : usedSpace[j].access_time = usedSpace[k].access_time => j = k

\* What is on its way into the cache is dirty, or empty.
AppInv ==
  /\ pc \in {"idle", "lookup", "fetch", "insert"}
  /\ block \in BlockNumbers /\ op \in {"read", "write"} /\ already_have_token \in BOOLEAN
  /\ bt \in BlockT /\ (bt.status = "C" => bt.data = 0)
  /\ tokens \subseteq BlockNumbers
  /\ latest \in [BlockNumbers -> Nat]
  /\ writes \in Nat /\ calls \in Nat /\ revokes \in Nat /\ crashed \in BOOLEAN

FlushShape ==
  /\ fpc \in [Flushers -> {"idle", "start", "send", "sent"}]
  /\ at \in [Flushers -> Keys \union {NoKey}]
  /\ copy \in [Flushers -> Nat]
  /\ ahead \in [Flushers -> SUBSET Keys]
  /\ iterator \in [Flushers -> {"valid", "rehashed", "freed"}]
  /\ sent \subseteq Keys \X Nat
  /\ raced \subseteq Keys /\ overlapped \in BOOLEAN

\* A flush has an ID under its iterator while it is without the mutex, and a block in the
\* cache unless the block was erased; what it still has to pass is in the cache.
FlushFits(f) ==
  /\ fpc[f] \in {"send", "sent"} <=> at[f] # NoKey
  /\ at[f] # NoKey /\ iterator[f] # "freed" => at[f] \in Cached
  /\ at[f] = NoKey => iterator[f] = "valid"
  /\ ahead[f] \subseteq Cached
  /\ fpc[f] = "sent" => << at[f], copy[f] >> \in sent

\* The flushes that will mark k clean.
Marking(k) == {f \in Flushers : at[f] = k /\ iterator[f] # "freed"}

Covered(k) ==
  \/ << k, usedSpace[k].data >> \in sent
  \/ \E f \in Sending(k) : copy[f] = usedSpace[k].data

\* A block that is clean, or that a flush is about to mark clean, has been sent or is
\* being sent as it is, unless it was written under a flush.
SentInv ==
  \A k \in Cached \ raced :
    (usedSpace[k].status = "C" \/ Marking(k) # {}) /\ usedSpace[k].data # 0 => Covered(k)

\* As long as no two flushes have overlapped, the block under an iterator is dirty.
AloneInv ==
  ~overlapped =>
    /\ \A f, g \in Flushers : at[f] # NoKey /\ at[g] # NoKey => f = g
    /\ \A f \in Flushers : at[f] # NoKey =>
         iterator[f] # "freed" /\ usedSpace[at[f]].status = "D"

\* On one server, where a block and its offset are the same number, a block is in the cache
\* only with its token until a token is revoked, and a thread that fetches one will not
\* find it there.
OneServer == \A b \in BlockNumbers : OffsetWithin(b, StripeWidth) = b

StaleInv ==
  OneServer /\ revokes = 0 =>
    /\ Cached \subseteq tokens
    /\ \A b \in Cached : usedSpace[b].data \in {0, latest[b]}
    /\ pc # "idle" => block \in tokens
    /\ pc \in {"fetch", "insert"} \/ (pc = "lookup" /\ ~already_have_token) => block \notin Cached
    /\ pc = "insert" => bt.data \in {0, latest[block]}

IInv == /\ CacheInv /\ ClockInv /\ AppInv /\ FlushShape
        /\ \A f \in Flushers : FlushFits(f)
        /\ SentInv /\ AloneInv /\ StaleInv
-----------------------------------------------------------------------------
(* The scan of the harvester.  Induction over its steps is the argument of    *)
(* the least step at which it would fail.                                    *)

LEMMA LeastNumber ==
  ASSUME NEW T, T \subseteq Nat, T # {}
  PROVE  \E x \in T : \A y \in T : x <= y
<1> DEFINE R == OpToRel(<, Nat)
<1>1. IsWellFoundedOn(R, Nat)
  BY NatLessThanWellFounded
<1> HIDE DEF R
<1>2. PICK x \in T : \A y \in T : ~(<< y, x >> \in R)
  BY <1>1, WFMin
<1>3. \A y \in T : y < x => << y, x >> \in R
  BY <1>2 DEF R, OpToRel
<1>4. \A y \in T : ~(y < x)
  BY <1>2, <1>3
<1>5. \A y \in T : x <= y
  BY <1>2, <1>4
<1> QED
  BY <1>2, <1>5

\* The first m steps of a scan.
IsScan(queue, order, n, m) ==
  queue = [i \in 0 .. m |-> IF i = 0 THEN {} ELSE Consider(queue[i - 1], order[i], n)]

LEMMA ScanExists ==
  ASSUME NEW order, NEW n, NEW m \in Nat
  PROVE  \E queue : IsScan(queue, order, n, m)
<1> DEFINE Failing == {k \in Nat : ~\E queue : IsScan(queue, order, n, k)}
<1>1. SUFFICES ASSUME Failing # {} PROVE FALSE
  OBVIOUS
<1>2. PICK k \in Failing : \A j \in Failing : k <= j
  BY <1>1, LeastNumber
<1>3. IsScan([i \in 0 .. 0 |-> {}], order, n, 0)
  BY DEF IsScan
<1>4. k # 0
  BY <1>2, <1>3
<1>5. k \in Nat /\ k - 1 \in Nat /\ k - 1 \notin Failing
  BY <1>2, <1>4
<1>6. PICK queue : IsScan(queue, order, n, k - 1)
  BY <1>5
<1> DEFINE longer == [i \in 0 .. k |-> IF i = k THEN Consider(queue[k - 1], order[k], n) ELSE queue[i]]
<1>7. ASSUME NEW i \in 0 .. k
      PROVE  longer[i] = IF i = 0 THEN {} ELSE Consider(longer[i - 1], order[i], n)
  <2>1. CASE i = k
    <3>1. k - 1 \in 0 .. k /\ k - 1 # k /\ i # 0
      BY <1>4, <1>5, <2>1
    <3> QED
      BY <2>1, <3>1
  <2>2. CASE i # k
    <3>1. i \in 0 .. (k - 1) /\ (i # 0 => i - 1 \in 0 .. k /\ i - 1 # k)
      BY <1>5, <2>2
    <3>2. queue[i] = IF i = 0 THEN {} ELSE Consider(queue[i - 1], order[i], n)
      BY <1>6, <3>1 DEF IsScan
    <3> QED
      BY <2>2, <3>1, <3>2
  <2> QED
    BY <2>1, <2>2
<1>8. IsScan(longer, order, n, k)
  BY <1>7 DEF IsScan
<1> QED
  BY <1>2, <1>8

LEMMA HarvestQueueIs ==
  ASSUME NEW order, Len(order) \in Nat
  PROVE  \E queue : /\ IsScan(queue, order, FREE_LIST_MAX_T - freeSpace, Len(order))
                    /\ HarvestQueue(order) = queue[Len(order)]
<1> DEFINE n == FREE_LIST_MAX_T - freeSpace
           scan == CHOOSE queue : IsScan(queue, order, n, Len(order))
<1>1. IsScan(scan, order, n, Len(order))
  BY ScanExists
<1>2. HarvestQueue(order) = scan[Len(order)]
  BY DEF HarvestQueue, IsScan
<1> QED
  BY <1>1, <1>2

\* What the queue is when the blocks of "seen" have been passed: clean blocks, at most n,
\* and a clean block that is not in it was used after all that are.
Clean(k) == usedSpace[k].status = "C"
QueueFits(queue, seen, n) ==
  /\ queue \subseteq seen /\ \A k \in queue : Clean(k)
  /\ IsFiniteSet(queue) /\ Cardinality(queue) <= n
  /\ \A k \in seen \ queue : Clean(k) =>
       Cardinality(queue) = n /\ \A j \in queue : AccessTime(j) < AccessTime(k)

LEMMA TimesDiffer ==
  ASSUME CacheInv, ClockInv
  PROVE  /\ \A k \in Cached : AccessTime(k) \in Nat
         /\ \A j, k \in Cached : AccessTime(j) = AccessTime(k) => j = k
  BY DEF CacheInv, ClockInv, BlockT, AccessTime

LEMMA TopIs ==
  ASSUME CacheInv, ClockInv, NEW queue, queue \subseteq Cached, queue # {}
  PROVE  Top(queue) \in queue /\ \A j \in queue : AccessTime(j) <= AccessTime(Top(queue))
<1> DEFINE T == {LAST_ACCESS - AccessTime(k) : k \in queue}
<1>1. \A k \in queue : AccessTime(k) \in Nat /\ AccessTime(k) < LAST_ACCESS
  BY TimesDiffer DEF ClockInv, AccessTime
<1>2. LAST_ACCESS \in Nat
  BY DEF ClockInv
<1>3. T \subseteq Nat /\ T # {}
  BY <1>1, <1>2
<1>4. PICK x \in T : \A y \in T : x <= y
  BY <1>3, LeastNumber
<1>5. PICK k \in queue : x = LAST_ACCESS - AccessTime(k)
  BY <1>4
<1>6. \A j \in queue : AccessTime(j) <= AccessTime(k)
  <2> SUFFICES ASSUME NEW j \in queue PROVE AccessTime(j) <= AccessTime(k)
    OBVIOUS
  <2>1. LAST_ACCESS - AccessTime(k) <= LAST_ACCESS - AccessTime(j)
    BY <1>4, <1>5
  <2> QED
    BY <1>1, <1>2, <2>1
<1> QED
  BY <1>5, <1>6 DEF Top

LEMMA ConsiderFits ==
  ASSUME CacheInv, ClockInv, NEW n \in Nat \ {0}, NEW queue, NEW seen, seen \subseteq Cached,
         QueueFits(queue, seen, n), NEW k \in Cached \ seen
  PROVE  QueueFits(Consider(queue, k, n), seen \union {k}, n)
<1> DEFINE c == Cardinality(queue)
           top == Top(queue)
<1>1. /\ c \in Nat /\ c <= n /\ k \notin queue
      /\ queue \subseteq seen /\ queue \subseteq Cached /\ IsFiniteSet(queue)
      /\ \A j \in queue : Clean(j)
      /\ \A j \in seen \ queue : Clean(j) => c = n /\ \A i \in queue : AccessTime(i) < AccessTime(j)
  BY FS_CardinalityType DEF QueueFits
<1>2. CASE ~Clean(k)
  BY <1>2 DEF Consider, QueueFits, Clean
<1>3. CASE Clean(k) /\ c < n
  <2>1. Consider(queue, k, n) = queue \union {k}
    BY <1>3 DEF Consider, Clean
  <2>2. IsFiniteSet(queue \union {k}) /\ Cardinality(queue \union {k}) = c + 1
    BY <1>1, FS_AddElement
  <2>3. \A j \in seen \ queue : ~Clean(j)
    BY <1>1, <1>3
  <2> QED
    BY <1>1, <1>3, <2>1, <2>2, <2>3 DEF QueueFits
<1>4. CASE Clean(k) /\ ~(c < n)
  <2>1. c = n /\ queue # {}
    BY <1>1, <1>4, FS_EmptySet
  <2>2. top \in queue /\ \A j \in queue : AccessTime(j) <= AccessTime(top)
    BY <1>1, <2>1, TopIs
  <2>3. \A j \in Cached : AccessTime(j) \in Nat
    BY TimesDiffer
  <2> HIDE DEF c, top
  <2>4. CASE AccessTime(k) < AccessTime(top)
    <3> DEFINE new == (queue \ {top}) \union {k}
    <3>1. Consider(queue, k, n) = new
      BY <1>4, <2>4 DEF Consider, Clean, c, top
    <3>2. IsFiniteSet(queue \ {top}) /\ Cardinality(queue \ {top}) = n - 1
      BY <1>1, <2>1, <2>2, FS_RemoveElement DEF c
    <3>3. IsFiniteSet(new) /\ Cardinality(new) = n
      <4> DEFINE rest == queue \ {top}
      <4>1. IsFiniteSet(rest) /\ Cardinality(rest) = n - 1 /\ k \notin rest
        BY <1>1, <3>2
      <4> HIDE DEF rest
      <4>2. IsFiniteSet(rest \union {k}) /\ Cardinality(rest \union {k}) = n - 1 + 1
        BY <4>1, FS_AddElement
      <4>3. new = rest \union {k}
        BY DEF rest
      <4> QED
        BY <4>2, <4>3
    <3>4. \A i \in new : AccessTime(i) < AccessTime(top)
      BY <1>1, <2>2, <2>3, <2>4, TimesDiffer
    <3>5. ASSUME NEW j \in (seen \union {k}) \ new, Clean(j), NEW i \in new
          PROVE  AccessTime(i) < AccessTime(j)
      <4>1. CASE j = top
        BY <3>4, <4>1
      <4>2. CASE j # top
        <5>1. j \in seen \ queue /\ j \in Cached
          BY <3>5, <4>2
        <5>2. AccessTime(top) < AccessTime(j)
          BY <1>1, <2>2, <3>5, <5>1
        <5>3. i \in Cached /\ top \in Cached
          BY <1>1, <2>2
        <5> QED
          BY <2>3, <3>4, <5>1, <5>2, <5>3
      <4> QED
        BY <4>1, <4>2
    <3> QED
      BY <1>1, <1>4, <3>1, <3>3, <3>5 DEF QueueFits
  <2>5. CASE ~(AccessTime(k) < AccessTime(top))
    <3>1. Consider(queue, k, n) = queue
      BY <1>4, <2>5 DEF Consider, Clean, c, top
    <3>2. AccessTime(top) < AccessTime(k)
      BY <1>1, <2>2, <2>3, <2>5, TimesDiffer
    <3>3. \A i \in queue : AccessTime(i) < AccessTime(k)
      BY <1>1, <2>2, <2>3, <3>2
    <3> QED
      BY <1>1, <2>1, <3>1, <3>3 DEF QueueFits, c
  <2> QED
    BY <2>4, <2>5
<1> QED
  BY <1>2, <1>3, <1>4

LEMMA ScanFits ==
  ASSUME CacheInv, ClockInv, NEW n \in Nat \ {0},
         NEW size \in Nat, NEW order \in [1 .. size -> Cached],
         \A i, j \in 1 .. size : i # j => order[i] # order[j],
         NEW queue, IsScan(queue, order, n, size)
  PROVE  QueueFits(queue[size], {order[i] : i \in 1 .. size}, n)
<1> DEFINE Seen(m) == {order[i] : i \in 1 .. m}
           Fits(m) == QueueFits(queue[m], Seen(m), n)
           Failing == {m \in 0 .. size : ~Fits(m)}
<1> HIDE DEF Fits
<1>1. SUFFICES ASSUME Failing # {} PROVE FALSE
  <2>1. size \in 0 .. size
    OBVIOUS
  <2>2. Fits(size)
    BY <1>1, <2>1
  <2> QED
    BY <2>2 DEF Fits
<1>2. PICK m \in Failing : \A j \in Failing : m <= j
  <2>1. Failing \subseteq Nat
    OBVIOUS
  <2> HIDE DEF Failing
  <2> QED
    BY <1>1, <2>1, LeastNumber
<1>3. Fits(0)
  <2>1. queue[0] = {} /\ Seen(0) = {}
    BY DEF IsScan
  <2> QED
    BY <2>1, FS_EmptySet DEF QueueFits, Fits
<1>4. m # 0
  BY <1>2, <1>3
<1>5. m \in 1 .. size /\ m - 1 \in 0 .. size /\ m - 1 \notin Failing
  <2>1. m \in 1 .. size /\ m - 1 \in 0 .. size /\ m - 1 < m
    BY <1>2, <1>4
  <2>2. \A j \in Failing : j \in Nat /\ ~(j < m)
    BY <1>2
  <2> QED
    BY <2>1, <2>2
<1>6. QueueFits(queue[m - 1], Seen(m - 1), n)
  BY <1>5 DEF Fits
<1>7. queue[m] = Consider(queue[m - 1], order[m], n)
  BY <1>4, <1>5 DEF IsScan
<1>8. Seen(m) = Seen(m - 1) \union {order[m]}
  <2>1. 1 .. m = (1 .. (m - 1)) \union {m}
    BY <1>5
  <2> QED
    BY <2>1
<1>9. Seen(m - 1) \subseteq Cached /\ order[m] \in Cached \ Seen(m - 1)
  <2>1. \A i \in 1 .. (m - 1) : i \in 1 .. size /\ i # m
    BY <1>5
  <2> QED
    BY <1>5, <2>1
<1> HIDE DEF Seen
<1>10. QueueFits(queue[m], Seen(m), n)
  BY <1>6, <1>7, <1>8, <1>9, ConsiderFits
<1> QED
  BY <1>2, <1>10 DEF Fits

\* Whatever the order of the hash table, the queue at the end of the scan holds the clean
\* blocks used longest ago, as many as bring the free list to its threshold if there are.
LEMMA HarvestQueueFits ==
  ASSUME CacheInv, ClockInv, freeSpace < FREE_LIST_MIN_T, NEW order \in SetToSeqs(Cached)
  PROVE  QueueFits(HarvestQueue(order), Cached, FREE_LIST_MAX_T - freeSpace)
<1> DEFINE size == Cardinality(Cached)
           n == FREE_LIST_MAX_T - freeSpace
<1>1. size \in Nat /\ IsFiniteSet(Cached)
  BY FS_CardinalityType DEF CacheInv
<1>2. n \in Nat \ {0}
  BY CapacityAssumption DEF CacheInv
<1>3. /\ order \in [1 .. size -> Cached]
      /\ \A i, j \in 1 .. size : i # j => order[i] # order[j]
  BY DEF SetToSeqs
<1> HIDE DEF size, n
<1>4. Len(order) = size
  BY <1>1, <1>3
<1>5. PICK queue : IsScan(queue, order, n, size) /\ HarvestQueue(order) = queue[size]
  BY <1>1, <1>4, HarvestQueueIs DEF n
<1>6. QueueFits(queue[size], {order[i] : i \in 1 .. size}, n)
  BY <1>1, <1>2, <1>3, <1>5, ScanFits
<1>7. {order[i] : i \in 1 .. size} = Cached
  <2>1. order \in Injection(1 .. size, Cached)
    BY <1>3 DEF Injection, IsInjective
  <2>2. IsFiniteSet(1 .. size) /\ Cardinality(1 .. size) = size
    BY <1>1, FS_Interval
  <2>3. order \in Surjection(1 .. size, Cached)
    BY <1>1, <2>1, <2>2, FS_Injection DEF size
  <2> QED
    BY <1>3, <2>3 DEF Surjection
<1> QED
  BY <1>5, <1>6, <1>7 DEF n
-----------------------------------------------------------------------------
(* What the actions that leave a part alone keep.                            *)

LEMMA Values ==
  /\ FirstBlock \in BlockNumbers /\ NoBlock \in BlockT
  /\ NoBlock.data = 0 /\ NoBlock.status = "C"
  /\ \A b \in BlockNumbers : b \in Keys /\ OffsetWithin(b, StripeWidth) \in Keys
  BY StripeAssumption DEF FirstBlock, NoBlock, BlockT, Keys

LEMMA SameCache ==
  ASSUME CacheInv, ClockInv, UNCHANGED cacheVars
  PROVE  CacheInv' /\ ClockInv'
  BY DEF CacheInv, ClockInv, cacheVars, Cached, Keys, BlockT

LEMMA SameFlush ==
  ASSUME FlushShape, \A f \in Flushers : FlushFits(f), SentInv, AloneInv,
         UNCHANGED << usedSpace, flushVars, sent, historyVars >>
  PROVE  FlushShape' /\ (\A f \in Flushers : FlushFits(f)') /\ SentInv' /\ AloneInv'
<1> USE DEF flushVars, historyVars
<1>1. Cached' = Cached
  BY DEF Cached
<1>2. FlushShape'
  BY DEF FlushShape, Keys, Flushers
<1>3. \A f \in Flushers : FlushFits(f)'
  BY <1>1 DEF FlushFits
<1>4. \A k : (Marking(k)' = Marking(k)) /\ (Covered(k)' <=> Covered(k))
  BY DEF Marking, Covered, Sending
<1>5. SentInv'
  BY <1>1, <1>4 DEF SentInv
<1>6. AloneInv'
  BY DEF AloneInv
<1> QED
  BY <1>2, <1>3, <1>5, <1>6

\* A thread that is done with its block has none.
LEMMA DoneIs ==
  ASSUME AppInv, AppDone,
         UNCHANGED << tokens, writes, boundVars, crashed >>, latest' \in [BlockNumbers -> Nat]
  PROVE  AppInv'
  BY Values DEF AppInv, AppDone, boundVars, BlockT

LEMMA InitInv == Init => IInv
<1> SUFFICES ASSUME Init PROVE IInv
  OBVIOUS
<1>1. Cached = {} /\ IsFiniteSet(Cached) /\ Cardinality(Cached) = 0
  BY FS_EmptySet DEF Init, Cached
<1>2. CacheInv /\ ClockInv
  BY <1>1, CapacityAssumption DEF Init, CacheInv, ClockInv, Cached
<1>3. AppInv
  BY Values DEF Init, AppInv, NoBlock, BlockT
<1>4. FlushShape
  BY DEF Init, FlushShape
<1>5. \A f \in Flushers : FlushFits(f)
  BY <1>1 DEF Init, FlushFits
<1>6. SentInv /\ AloneInv /\ StaleInv
  BY <1>1 DEF Init, SentInv, AloneInv, StaleInv
<1> QED
  BY <1>2, <1>3, <1>4, <1>5, <1>6 DEF IInv

LEMMA StutterKeeps == IInv /\ UNCHANGED vars => IInv'
<1> SUFFICES ASSUME IInv, UNCHANGED vars PROVE IInv'
  OBVIOUS
<1>1. UNCHANGED << cacheVars, appVars, tokens, flushVars, dataVars, boundVars, crashed, historyVars >>
  BY DEF vars
<1>2. CacheInv' /\ ClockInv'
  BY <1>1, SameCache DEF IInv
<1>3. FlushShape' /\ (\A f \in Flushers : FlushFits(f)') /\ SentInv' /\ AloneInv'
  BY <1>1, SameFlush DEF IInv, cacheVars, dataVars
<1>4. AppInv' /\ StaleInv'
  BY <1>1 DEF IInv, AppInv, StaleInv, appVars, cacheVars, dataVars, boundVars, Cached, BlockT
<1> QED
  BY <1>2, <1>3, <1>4 DEF IInv
-----------------------------------------------------------------------------
(* The application thread.                                                   *)

LEMMA StartBlockKeeps ==
  ASSUME IInv, NEW b \in BlockNumbers, NEW o \in {"read", "write"}, StartBlock(b, o)
  PROVE  IInv'
<1>1. /\ pc = "idle" /\ pc' = "lookup" /\ block' = b /\ op' = o
      /\ already_have_token' = (b \in tokens) /\ tokens' = tokens \union {b}
      /\ calls' = calls + 1 /\ writes' = IF o = "write" THEN writes + 1 ELSE writes
      /\ UNCHANGED << cacheVars, bt, flushVars, sent, latest, revokes, crashed, historyVars >>
  BY DEF StartBlock
<1>2. CacheInv' /\ ClockInv'
  BY <1>1, SameCache DEF IInv
<1>3. FlushShape' /\ (\A f \in Flushers : FlushFits(f)') /\ SentInv' /\ AloneInv'
  BY <1>1, SameFlush DEF IInv, cacheVars
<1>4. already_have_token' \in BOOLEAN /\ writes' \in Nat
  BY <1>1 DEF IInv, AppInv
<1>5. AppInv'
  BY <1>1, <1>4 DEF IInv, AppInv, BlockT
<1>6. StaleInv'
  BY <1>1 DEF IInv, StaleInv, cacheVars, Cached
<1> QED
  BY <1>2, <1>3, <1>5, <1>6 DEF IInv

LEMMA FetchKeeps ==
  ASSUME IInv, Fetch
  PROVE  IInv'
<1>1. /\ pc = "fetch" /\ pc' = "insert"
      /\ bt' = IF op = "write" THEN [NoBlock EXCEPT !.data = writes, !.status = "D"] ELSE NoBlock
      /\ latest' = IF op = "write" THEN [latest EXCEPT ![block] = writes] ELSE latest
      /\ UNCHANGED << cacheVars, block, op, already_have_token, tokens, flushVars, sent, writes, boundVars,
                      crashed, historyVars >>
  BY DEF Fetch
<1>2. CacheInv' /\ ClockInv'
  BY <1>1, SameCache DEF IInv
<1>3. FlushShape' /\ (\A f \in Flushers : FlushFits(f)') /\ SentInv' /\ AloneInv'
  BY <1>1, SameFlush DEF IInv, cacheVars
<1>4. bt' \in BlockT /\ (bt'.status = "C" => bt'.data = 0)
  BY <1>1, Values DEF IInv, AppInv, BlockT, NoBlock
<1>5. latest' \in [BlockNumbers -> Nat]
  BY <1>1 DEF IInv, AppInv
<1>6. AppInv'
  BY <1>1, <1>4, <1>5 DEF IInv, AppInv, boundVars, BlockT
<1>7. bt'.data \in {0, latest'[block]}
  BY <1>1 DEF IInv, AppInv, NoBlock
<1>8. StaleInv'
  <2> SUFFICES ASSUME OneServer, revokes = 0
               PROVE  /\ Cached \subseteq tokens /\ block \in tokens /\ block \notin Cached
                      /\ \A b \in Cached : usedSpace[b].data \in {0, latest'[b]}
    BY <1>1, <1>7 DEF StaleInv, cacheVars, Cached, boundVars, OneServer
  <2>1. /\ Cached \subseteq tokens /\ block \in tokens /\ block \notin Cached
        /\ \A b \in Cached : usedSpace[b].data \in {0, latest[b]}
    BY <1>1 DEF IInv, StaleInv
  <2>2. \A b \in Cached : latest'[b] = latest[b]
    BY <1>1, <2>1 DEF IInv, AppInv
  <2> QED
    BY <2>1, <2>2
<1> QED
  BY <1>2, <1>3, <1>6, <1>8 DEF IInv

\* The block found keeps its place; only its access time and, when it is written, its data
\* and its status change.
LEMMA HitIs ==
  ASSUME IInv, block \in Cached, LAST_ACCESS' = LAST_ACCESS + 1, freeSpace' = freeSpace,
         NEW new \in BlockT, new.access_time = LAST_ACCESS,
         usedSpace' = [usedSpace EXCEPT ![block] = new]
  PROVE  /\ Cached' = Cached /\ CacheInv' /\ ClockInv'
         /\ usedSpace'[block] = new
         /\ \A k \in Cached : k # block => usedSpace'[k] = usedSpace[k]
<1>1. usedSpace \in [Cached -> BlockT] /\ usedSpace' \in [Cached -> BlockT]
  BY DEF IInv, CacheInv
<1>2. /\ Cached' = Cached /\ usedSpace'[block] = new
      /\ \A k \in Cached : k # block => usedSpace'[k] = usedSpace[k]
  BY <1>1 DEF Cached
<1>3. CacheInv'
  BY <1>1, <1>2 DEF IInv, CacheInv, Keys, BlockT
<1>4. \A k \in Cached : usedSpace[k].access_time \in Nat
  BY <1>1 DEF BlockT
<1>5. ClockInv'
  BY <1>2, <1>4 DEF IInv, ClockInv
<1> QED
  BY <1>2, <1>3, <1>5

LEMMA LookupHitKeeps ==
  ASSUME IInv, pc = "lookup", block \in Cached,
         LAST_ACCESS' = LAST_ACCESS + 1,
         \/ /\ op = "write"
            /\ usedSpace' = [usedSpace EXCEPT ![block] = [Touched(@) EXCEPT !.data = writes, !.status = "D"]]
            /\ latest' = [latest EXCEPT ![block] = writes]
            /\ raced' = IF Sending(block) # {} THEN raced \union {block} ELSE raced
         \/ /\ op = "read"
            /\ usedSpace' = [usedSpace EXCEPT ![block] = Touched(@)]
            /\ UNCHANGED << latest, raced >>,
         AppDone,
         UNCHANGED << freeSpace, tokens, flushVars, sent, writes, boundVars, crashed, overlapped >>
  PROVE  IInv'
<1> DEFINE new == IF op = "write" THEN [Touched(usedSpace[block]) EXCEPT !.data = writes, !.status = "D"]
                                  ELSE Touched(usedSpace[block])
           old == usedSpace[block]
<1>1. old \in BlockT /\ block \in Keys /\ block \in BlockNumbers /\ writes \in Nat /\ LAST_ACCESS \in Nat
  BY DEF IInv, CacheInv, AppInv, ClockInv
<1>2. /\ new \in BlockT /\ new.access_time = LAST_ACCESS
      /\ op = "write" => new.data = writes /\ new.status = "D"
      /\ op # "write" => new.data = old.data /\ new.status = old.status
  BY <1>1 DEF Touched, BlockT
<1>3. usedSpace' = [usedSpace EXCEPT ![block] = new]
  <2>1. usedSpace \in [Cached -> BlockT]
    BY DEF IInv, CacheInv
  <2> QED
    BY <2>1
<1>4. /\ op = "write" => /\ latest' = [latest EXCEPT ![block] = writes]
                         /\ raced' = IF Sending(block) # {} THEN raced \union {block} ELSE raced
      /\ op # "write" => UNCHANGED << latest, raced >>
  OBVIOUS
<1> HIDE DEF new, old
<1>5. /\ Cached' = Cached /\ CacheInv' /\ ClockInv'
      /\ usedSpace'[block] = new
      /\ \A k \in Cached : k # block => usedSpace'[k] = usedSpace[k]
  BY <1>2, <1>3, HitIs
<1>6. latest' \in [BlockNumbers -> Nat]
  BY <1>1, <1>4 DEF IInv, AppInv
<1>7. AppInv'
  BY <1>6, DoneIs DEF IInv
<1>8. FlushShape' /\ raced \subseteq raced'
  BY <1>1, <1>4 DEF IInv, FlushShape, flushVars, Keys, Flushers
<1>9. \A f \in Flushers : FlushFits(f)'
  BY <1>5 DEF IInv, FlushFits, flushVars
<1>10. SentInv'
  <2>1. ASSUME NEW k \in Cached, k \notin raced', usedSpace'[k].status = "C" \/ Marking(k)' # {},
               usedSpace'[k].data # 0
        PROVE  Covered(k)'
    <3>1. /\ Marking(k)' = Marking(k) /\ Sending(k)' = Sending(k) /\ Marking(k) \subseteq Sending(k)
      <4>1. Marking(k)' = Marking(k) /\ Sending(k)' = Sending(k)
        BY DEF Marking, Sending, flushVars
      <4>2. k # NoKey
        BY NoKeyAssumption DEF IInv, CacheInv
      <4>3. Marking(k) \subseteq Sending(k)
        BY <4>2 DEF Marking, Sending, IInv, FlushFits
      <4> QED
        BY <4>1, <4>3
    <3>2. usedSpace'[k].data = usedSpace[k].data /\ usedSpace'[k].status = usedSpace[k].status
      <4>1. CASE k # block
        BY <1>5, <4>1
      <4>2. CASE k = block /\ op = "write"
        BY <1>2, <1>4, <1>5, <2>1, <3>1, <4>2
      <4>3. CASE k = block /\ op # "write"
        BY <1>2, <1>5, <4>3 DEF old
      <4> QED
        BY <4>1, <4>2, <4>3
    <3>3. Covered(k)
      BY <1>8, <2>1, <3>1, <3>2 DEF IInv, SentInv
    <3> QED
      BY <3>1, <3>2, <3>3 DEF Covered, flushVars
  <2> QED
    BY <1>5, <2>1 DEF SentInv
<1>11. AloneInv'
  <2>1. \A k \in Cached : usedSpace[k].status = "D" => usedSpace'[k].status = "D"
    BY <1>2, <1>5 DEF old
  <2>2. ASSUME ~overlapped, NEW f \in Flushers, at[f] # NoKey
        PROVE  at[f] \in Cached
    BY <2>2 DEF IInv, AloneInv, FlushFits
  <2> QED
    BY <2>1, <2>2 DEF IInv, AloneInv, flushVars
<1>12. StaleInv'
  <2> SUFFICES ASSUME OneServer, revokes = 0
               PROVE  Cached \subseteq tokens /\ \A b \in Cached : usedSpace'[b].data \in {0, latest'[b]}
    BY <1>5 DEF StaleInv, AppDone, boundVars, OneServer
  <2>1. Cached \subseteq tokens /\ \A b \in Cached : usedSpace[b].data \in {0, latest[b]}
    BY DEF IInv, StaleInv
  <2>2. tokens \subseteq BlockNumbers /\ latest \in [BlockNumbers -> Nat]
    BY DEF IInv, AppInv
  <2>3. ASSUME NEW b \in Cached
        PROVE  usedSpace'[b].data \in {0, latest'[b]}
    <3>1. CASE b # block
      BY <1>4, <1>5, <2>1, <2>2, <3>1
    <3>2. CASE b = block /\ op = "write"
      BY <1>1, <1>2, <1>4, <1>5, <2>2, <3>2
    <3>3. CASE b = block /\ op # "write"
      BY <1>2, <1>4, <1>5, <2>1, <3>3 DEF old
    <3> QED
      BY <3>1, <3>2, <3>3
  <2> QED
    BY <2>1, <2>3
<1> QED
  BY <1>5, <1>7, <1>8, <1>9, <1>10, <1>11, <1>12 DEF IInv

LEMMA LookupKeeps ==
  ASSUME IInv, Lookup
  PROVE  IInv'
<1>1. CASE already_have_token /\ block \in Cached
  BY <1>1, LookupHitKeeps DEF Lookup
<1>2. CASE ~already_have_token \/ block \notin Cached
  <2>1. /\ pc = "lookup" /\ pc' = "fetch"
        /\ UNCHANGED << usedSpace, LAST_ACCESS, latest, raced, block, op, already_have_token, bt, freeSpace,
                        tokens, flushVars, sent, writes, boundVars, crashed, overlapped >>
    BY <1>2 DEF Lookup
  <2>2. CacheInv' /\ ClockInv'
    BY <2>1, SameCache DEF IInv, cacheVars
  <2>3. FlushShape' /\ (\A f \in Flushers : FlushFits(f)') /\ SentInv' /\ AloneInv'
    BY <2>1, SameFlush DEF IInv, historyVars
  <2>4. AppInv'
    BY <2>1 DEF IInv, AppInv, boundVars, BlockT
  <2>5. StaleInv'
    BY <1>2, <2>1 DEF IInv, StaleInv, Cached, boundVars, OneServer
  <2> QED
    BY <2>2, <2>3, <2>4, <2>5 DEF IInv
<1> QED
  BY <1>1, <1>2

\* A block with the ID is there already: a free block is used up, and nothing comes of it.
LEMMA InsertOldKeeps ==
  ASSUME IInv, pc = "insert", freeSpace > 0, freeSpace' = freeSpace - 1,
         LAST_ACCESS' = LAST_ACCESS + 1, AppDone,
         UNCHANGED << usedSpace, raced, ahead, iterator, tokens, fpc, at, copy, dataVars, boundVars,
                      crashed, overlapped >>
  PROVE  IInv'
<1>1. CacheInv' /\ ClockInv'
  <2>1. Cached' = Cached /\ Cardinality(Cached) \in Nat
    BY FS_CardinalityType DEF Cached, IInv, CacheInv
  <2>2. \A k \in Cached : usedSpace[k].access_time \in Nat
    BY DEF IInv, CacheInv, BlockT
  <2>3. CacheInv'
    BY <2>1, CapacityAssumption DEF IInv, CacheInv, Keys, BlockT
  <2>4. ClockInv'
    BY <2>1, <2>2 DEF IInv, ClockInv
  <2> QED
    BY <2>3, <2>4
<1>2. FlushShape' /\ (\A f \in Flushers : FlushFits(f)') /\ SentInv' /\ AloneInv'
  BY SameFlush DEF IInv, flushVars, dataVars, historyVars
<1>3. AppInv'
  BY DoneIs DEF IInv, AppInv, dataVars
<1>4. StaleInv'
  BY DEF IInv, StaleInv, AppDone, Cached, boundVars, dataVars, OneServer
<1> QED
  BY <1>1, <1>2, <1>3, <1>4 DEF IInv

\* A new block: it may be behind an iterator or before it, and the table may be rehashed.
LEMMA InsertNewKeeps ==
  ASSUME IInv, pc = "insert", freeSpace > 0, freeSpace' = freeSpace - 1,
         LAST_ACCESS' = LAST_ACCESS + 1, AppDone,
         NEW k, k = OffsetWithin(block, StripeWidth), k \notin Cached,
         usedSpace' = [j \in Cached \union {k} |-> IF j = k THEN Touched(bt) ELSE usedSpace[j]],
         raced' = raced \ {k},
         NEW behind \in SUBSET Flushers, NEW rehash \in BOOLEAN,
         ahead' = [f \in Flushers |->
                     IF at[f] = NoKey \/ f \in behind THEN ahead[f] ELSE ahead[f] \union {k}],
         iterator' = [f \in Flushers |->
                        IF rehash /\ at[f] # NoKey /\ iterator[f] = "valid"
                        THEN "rehashed" ELSE iterator[f]],
         UNCHANGED << tokens, fpc, at, copy, dataVars, boundVars, crashed, overlapped >>
  PROVE  IInv'
<1>1. k \in Keys /\ k # NoKey
  BY Values, NoKeyAssumption DEF IInv, AppInv
<1>2. /\ Touched(bt) \in BlockT /\ Touched(bt).access_time = LAST_ACCESS
      /\ Touched(bt).status = bt.status /\ Touched(bt).data = bt.data
  BY DEF IInv, AppInv, ClockInv, BlockT, Touched
<1>3. /\ Cached' = Cached \union {k} /\ usedSpace'[k] = Touched(bt)
      /\ \A j \in Cached : usedSpace'[j] = usedSpace[j]
  BY DEF Cached
<1>4. CacheInv'
  <2>1. /\ IsFiniteSet(Cached \union {k}) /\ Cardinality(Cached \union {k}) = Cardinality(Cached) + 1
        /\ Cardinality(Cached) \in Nat
    BY FS_AddElement, FS_CardinalityType DEF IInv, CacheInv
  <2>2. usedSpace' \in [Cached \union {k} -> BlockT]
    BY <1>2 DEF IInv, CacheInv
  <2>3. freeSpace' \in Nat /\ freeSpace' + Cardinality(Cached \union {k}) <= BUFFER_CACHE_CAPACITY
    BY <2>1, CapacityAssumption DEF IInv, CacheInv
  <2> QED
    BY <1>1, <1>3, <2>1, <2>2, <2>3 DEF IInv, CacheInv, Keys, BlockT
<1>5. ClockInv'
  <2>1. \A j \in Cached : usedSpace[j].access_time \in Nat
    BY DEF IInv, CacheInv, BlockT
  <2> QED
    BY <1>2, <1>3, <2>1 DEF IInv, ClockInv
<1>6. AppInv'
  BY DoneIs DEF IInv, AppInv, dataVars
<1>7. FlushShape'
  <2>1. ahead' \in [Flushers -> SUBSET Keys]
    BY <1>1 DEF IInv, FlushShape
  <2>2. iterator' \in [Flushers -> {"valid", "rehashed", "freed"}]
    BY DEF IInv, FlushShape
  <2> QED
    BY <2>1, <2>2 DEF IInv, FlushShape, dataVars, Keys, Flushers
<1>8. ASSUME NEW f \in Flushers
      PROVE  /\ iterator'[f] = "freed" <=> iterator[f] = "freed"
             /\ at[f] = NoKey => iterator'[f] = iterator[f]
             /\ ahead'[f] \subseteq ahead[f] \union {k}
             /\ at[f] = k => iterator[f] = "freed"
  BY <1>1 DEF IInv, FlushFits
<1>9. \A f \in Flushers : FlushFits(f)'
  BY <1>3, <1>8 DEF IInv, FlushFits, dataVars
<1>10. SentInv'
  <2>1. ASSUME NEW j \in Cached \union {k}, j \notin raced', usedSpace'[j].status = "C" \/ Marking(j)' # {},
               usedSpace'[j].data # 0
        PROVE  Covered(j)'
    <3>1. Marking(j)' = Marking(j) /\ Sending(j)' = Sending(j)
      BY <1>8 DEF Marking, Sending
    <3>2. j # k
      BY <1>2, <1>3, <1>8, <2>1, <3>1 DEF IInv, AppInv, Marking
    <3>3. Covered(j)
      BY <1>3, <2>1, <3>1, <3>2 DEF IInv, SentInv
    <3> QED
      BY <1>3, <3>1, <3>2, <3>3 DEF Covered, dataVars
  <2> QED
    BY <1>3, <2>1 DEF SentInv
<1>11. AloneInv'
  <2>1. ASSUME ~overlapped, NEW f \in Flushers, at[f] # NoKey
        PROVE  at[f] \in Cached
    BY <2>1 DEF IInv, AloneInv, FlushFits
  <2> QED
    BY <1>3, <1>8, <2>1 DEF IInv, AloneInv
<1>12. StaleInv'
  <2> SUFFICES ASSUME OneServer, revokes = 0
               PROVE  /\ Cached \union {k} \subseteq tokens
                      /\ \A b \in Cached \union {k} : usedSpace'[b].data \in {0, latest[b]}
    BY <1>3 DEF StaleInv, AppDone, boundVars, dataVars, OneServer
  <2>1. k = block
    BY DEF OneServer, IInv, AppInv
  <2> QED
    BY <1>2, <1>3, <2>1 DEF IInv, StaleInv
<1> QED
  BY <1>4, <1>5, <1>6, <1>7, <1>9, <1>10, <1>11, <1>12 DEF IInv

\* A process that ends keeps what it has.
LEMMA CrashKeeps ==
  ASSUME IInv, crashed' = TRUE,
         UNCHANGED << cacheVars, appVars, tokens, flushVars, dataVars, boundVars, historyVars >>
  PROVE  IInv'
<1>1. CacheInv' /\ ClockInv'
  BY SameCache DEF IInv
<1>2. FlushShape' /\ (\A f \in Flushers : FlushFits(f)') /\ SentInv' /\ AloneInv'
  BY SameFlush DEF IInv, cacheVars, dataVars
<1>3. AppInv' /\ StaleInv'
  BY DEF IInv, AppInv, StaleInv, appVars, cacheVars, dataVars, boundVars, Cached, BlockT, OneServer
<1> QED
  BY <1>1, <1>2, <1>3 DEF IInv

LEMMA InsertSingleBlockKeeps ==
  ASSUME IInv, InsertSingleBlock
  PROVE  IInv'
<1> DEFINE k == OffsetWithin(block, StripeWidth)
<1>1. CASE freeSpace = 0
  BY <1>1, CrashKeeps DEF InsertSingleBlock, flushVars, historyVars, IInv, CacheInv
<1>2. CASE freeSpace > 0 /\ k \notin Cached
  <2>0. freeSpace # 0
    BY <1>2 DEF IInv, CacheInv
  <2>1. \E behind \in SUBSET Flushers, rehash \in BOOLEAN :
          /\ ahead' = [f \in Flushers |->
                         IF at[f] = NoKey \/ f \in behind THEN ahead[f] ELSE ahead[f] \union {k}]
          /\ iterator' = [f \in Flushers |->
                            IF rehash /\ at[f] # NoKey /\ iterator[f] = "valid"
                            THEN "rehashed" ELSE iterator[f]]
    BY <1>2, <2>0, Zenon DEF InsertSingleBlock
  <2>2. /\ pc = "insert" /\ freeSpace' = freeSpace - 1 /\ LAST_ACCESS' = LAST_ACCESS + 1 /\ AppDone
        /\ usedSpace' = [j \in Cached \union {k} |-> IF j = k THEN Touched(bt) ELSE usedSpace[j]]
        /\ raced' = raced \ {k}
        /\ UNCHANGED << tokens, fpc, at, copy, dataVars, boundVars, crashed, overlapped >>
    BY <1>2 DEF InsertSingleBlock
  <2> QED
    <3>1. k \notin Cached /\ freeSpace > 0 /\ k = OffsetWithin(block, StripeWidth)
      BY <1>2
    <3> HIDE DEF k
    <3>2. PICK behind \in SUBSET Flushers, rehash \in BOOLEAN :
            /\ ahead' = [f \in Flushers |->
                           IF at[f] = NoKey \/ f \in behind THEN ahead[f] ELSE ahead[f] \union {k}]
            /\ iterator' = [f \in Flushers |->
                              IF rehash /\ at[f] # NoKey /\ iterator[f] = "valid"
                              THEN "rehashed" ELSE iterator[f]]
      BY <2>1
    <3> QED
      BY <2>2, <3>1, <3>2, InsertNewKeeps
<1>3. CASE freeSpace > 0 /\ k \in Cached
  BY <1>3, InsertOldKeeps DEF InsertSingleBlock
<1> QED
  BY <1>1, <1>2, <1>3 DEF IInv, CacheInv
-----------------------------------------------------------------------------
(* The harvester.                                                            *)

LEMMA EvictIs ==
  ASSUME IInv, NEW S, S \subseteq Cached, Evict(S)
  PROVE  /\ Cached' = Cached \ S
         /\ \A k \in Cached' : usedSpace'[k] = usedSpace[k]
         /\ CacheInv'
         /\ freeSpace' = freeSpace + Cardinality(S)
<1>1. /\ usedSpace' = [k \in Cached \ S |-> usedSpace[k]] /\ freeSpace' = freeSpace + Cardinality(S)
  BY DEF Evict
<1>2. Cached' = Cached \ S /\ \A k \in Cached \ S : usedSpace'[k] = usedSpace[k]
  BY <1>1 DEF Cached
<1>3. usedSpace' \in [Cached \ S -> BlockT]
  BY <1>1 DEF IInv, CacheInv
<1>4. /\ IsFiniteSet(S) /\ Cardinality(S) \in Nat
      /\ IsFiniteSet(Cached \ S) /\ Cardinality(Cached \ S) = Cardinality(Cached) - Cardinality(S)
      /\ Cardinality(Cached) \in Nat /\ Cardinality(Cached \ S) \in Nat
  <2>1. IsFiniteSet(Cached) /\ Cached \intersect S = S
    BY DEF IInv, CacheInv
  <2>2. IsFiniteSet(S)
    BY <2>1, FS_Subset
  <2>3. IsFiniteSet(Cached \ S) /\ Cardinality(Cached \ S) = Cardinality(Cached) - Cardinality(S)
    BY <2>1, FS_Difference
  <2> QED
    BY <2>1, <2>2, <2>3, FS_CardinalityType
<1>5. freeSpace' \in Nat /\ freeSpace' + Cardinality(Cached \ S) <= BUFFER_CACHE_CAPACITY
  BY <1>1, <1>4, CapacityAssumption DEF IInv, CacheInv
<1> QED
  BY <1>1, <1>2, <1>3, <1>4, <1>5 DEF IInv, CacheInv, Keys, BlockT

LEMMA HarvestKeeps ==
  ASSUME IInv, Harvest
  PROVE  IInv'
<1>1. PICK order \in SetToSeqs(Cached) : Evict(HarvestQueue(order))
  BY DEF Harvest
<1> DEFINE S == HarvestQueue(order)
<1>2. /\ freeSpace < FREE_LIST_MIN_T
      /\ UNCHANGED << LAST_ACCESS, appVars, tokens, fpc, at, copy, dataVars, boundVars, crashed, historyVars >>
  BY DEF Harvest
<1>3. S \subseteq Cached /\ \A k \in S : usedSpace[k].status = "C"
  BY <1>2, HarvestQueueFits DEF IInv, QueueFits, Clean
<1>4. Evict(S)
  BY <1>1
<1> HIDE DEF S
<1>5. /\ Cached' = Cached \ S /\ CacheInv'
      /\ \A k \in Cached' : usedSpace'[k] = usedSpace[k]
  BY <1>3, <1>4, EvictIs
<1>6. ClockInv'
  BY <1>2, <1>5 DEF IInv, ClockInv
<1>7. AppInv'
  BY <1>2 DEF IInv, AppInv, appVars, dataVars, boundVars, BlockT
<1>8. /\ ahead' = [f \in Flushers |-> ahead[f] \ S]
      /\ iterator' = [f \in Flushers |-> IF at[f] \in S THEN "freed" ELSE iterator[f]]
  BY <1>4 DEF Evict
<1>9. FlushShape'
  <2>1. ahead' \in [Flushers -> SUBSET Keys]
    BY <1>8 DEF IInv, FlushShape
  <2>2. iterator' \in [Flushers -> {"valid", "rehashed", "freed"}]
    BY <1>8 DEF IInv, FlushShape
  <2> QED
    BY <1>2, <2>1, <2>2 DEF IInv, FlushShape, dataVars, historyVars, Keys, Flushers
<1>10. NoKey \notin S
  BY <1>3, NoKeyAssumption DEF IInv, CacheInv
<1>11. \A f \in Flushers : FlushFits(f)'
  BY <1>2, <1>5, <1>8, <1>10 DEF IInv, FlushFits, dataVars
<1>12. SentInv'
  <2>1. ASSUME NEW k \in Cached', k \notin raced, usedSpace'[k].status = "C" \/ Marking(k)' # {},
               usedSpace'[k].data # 0
        PROVE  Covered(k)'
    <3>1. Marking(k)' = Marking(k) /\ Sending(k)' = Sending(k)
      BY <1>2, <1>5, <1>8, <2>1 DEF Marking, Sending
    <3>2. Covered(k)
      BY <1>5, <2>1, <3>1 DEF IInv, SentInv
    <3> QED
      BY <1>2, <1>5, <2>1, <3>1, <3>2 DEF Covered, dataVars
  <2> QED
    BY <1>2, <2>1 DEF SentInv, historyVars
<1>13. AloneInv'
  <2>1. ASSUME ~overlapped, NEW f \in Flushers, at[f] # NoKey
        PROVE  at[f] \in Cached' /\ at[f] \notin S
    BY <1>3, <1>5, <2>1 DEF IInv, AloneInv, FlushFits
  <2> QED
    BY <1>2, <1>5, <1>8, <2>1 DEF IInv, AloneInv, historyVars
<1>14. StaleInv'
  BY <1>2, <1>5 DEF IInv, StaleInv, appVars, dataVars, boundVars, OneServer
<1> QED
  BY <1>5, <1>6, <1>7, <1>9, <1>11, <1>12, <1>13, <1>14 DEF IInv
-----------------------------------------------------------------------------
(* The flushes.                                                              *)

\* A flush that is not at a block starts; the revoker may have given a token up.
LEMMA WakeKeeps ==
  ASSUME IInv, NEW f \in Flushers, fpc[f] = "idle", fpc' = [fpc EXCEPT ![f] = "start"],
         tokens' \subseteq tokens, revokes' \in Nat,
         revokes' = 0 => UNCHANGED << revokes, tokens >>,
         UNCHANGED << cacheVars, appVars, at, copy, ahead, iterator, dataVars, calls, crashed, historyVars >>
  PROVE  IInv'
<1>1. CacheInv' /\ ClockInv'
  BY SameCache DEF IInv
<1>2. AppInv'
  BY DEF IInv, AppInv, appVars, dataVars, BlockT
<1>3. FlushShape'
  BY DEF IInv, FlushShape, dataVars, historyVars, Keys, Flushers
<1>4. fpc'[f] = "start" /\ \A g \in Flushers : g # f => fpc'[g] = fpc[g]
  BY DEF IInv, FlushShape
<1>5. \A g \in Flushers : FlushFits(g)'
  BY <1>4 DEF IInv, FlushFits, cacheVars, dataVars, Cached
<1>6. \A k : Marking(k)' = Marking(k) /\ Sending(k)' = Sending(k)
  BY <1>4 DEF Marking, Sending
<1>7. SentInv'
  BY <1>6 DEF IInv, SentInv, Covered, cacheVars, dataVars, historyVars, Cached
<1>8. AloneInv'
  BY DEF IInv, AloneInv, cacheVars, historyVars
<1>9. StaleInv'
  BY DEF IInv, StaleInv, cacheVars, appVars, dataVars, Cached, OneServer
<1> QED
  BY <1>1, <1>2, <1>3, <1>5, <1>7, <1>8, <1>9 DEF IInv

LEMMA WakeFlusherKeeps ==
  ASSUME IInv, WakeFlusher
  PROVE  IInv'
<1>1. "flusher" \in Flushers /\ revokes \in Nat
  BY DEF Flushers, IInv, AppInv
<1> QED
  BY <1>1, WakeKeeps DEF WakeFlusher, boundVars

LEMMA HandleRevokerKeeps ==
  ASSUME IInv, NEW b \in BlockNumbers, HandleRevoker(b)
  PROVE  IInv'
<1>1. "revoker" \in Flushers /\ revokes' \in Nat /\ revokes' # 0 /\ tokens' \subseteq tokens
  BY DEF Flushers, IInv, AppInv, HandleRevoker
<1> QED
  BY <1>1, WakeKeeps DEF HandleRevoker

LEMMA FlushSendKeeps ==
  ASSUME IInv, NEW f \in Flushers, FlushSend(f)
  PROVE  IInv'
<1>1. /\ fpc[f] = "send" /\ fpc' = [fpc EXCEPT ![f] = "sent"]
      /\ sent' = sent \union {<< at[f], copy[f] >>}
      /\ UNCHANGED << cacheVars, appVars, tokens, at, copy, ahead, iterator, latest, writes, boundVars,
                      crashed, historyVars >>
  BY DEF FlushSend
<1>2. CacheInv' /\ ClockInv'
  BY <1>1, SameCache DEF IInv
<1>3. AppInv'
  BY <1>1 DEF IInv, AppInv, appVars, boundVars, BlockT
<1>4. at[f] \in Keys /\ copy[f] \in Nat
  BY <1>1 DEF IInv, FlushShape, FlushFits
<1>5. FlushShape'
  BY <1>1, <1>4 DEF IInv, FlushShape, historyVars, Keys, Flushers
<1>6. fpc'[f] = "sent" /\ \A g \in Flushers : g # f => fpc'[g] = fpc[g]
  BY <1>1 DEF IInv, FlushShape
<1>7. \A g \in Flushers : FlushFits(g)'
  BY <1>1, <1>6 DEF IInv, FlushFits, cacheVars, Cached
<1>8. \A k : Marking(k)' = Marking(k) /\ Sending(k)' = Sending(k)
  BY <1>1, <1>6 DEF Marking, Sending
<1>9. SentInv'
  BY <1>1, <1>8 DEF IInv, SentInv, Covered, cacheVars, historyVars, Cached
<1>10. AloneInv'
  BY <1>1 DEF IInv, AloneInv, cacheVars, historyVars
<1>11. StaleInv'
  BY <1>1 DEF IInv, StaleInv, cacheVars, appVars, boundVars, Cached, OneServer
<1> QED
  BY <1>2, <1>3, <1>5, <1>7, <1>9, <1>10, <1>11 DEF IInv

\* Where the iterator of a flush stops: at the end, or at a dirty block, which it copies.
LEMMA WalkIs ==
  ASSUME IInv, NEW f \in Flushers, NEW u \in [Cached -> BlockT], NEW S, S \subseteq Cached,
         Walk(f, u, S)
  PROVE  /\ fpc' \in [Flushers -> {"idle", "start", "send", "sent"}]
         /\ at' \in [Flushers -> Keys \union {NoKey}]
         /\ copy' \in [Flushers -> Nat]
         /\ ahead' \in [Flushers -> SUBSET Keys]
         /\ raced' \subseteq raced /\ ahead'[f] \subseteq S
         /\ \/ fpc'[f] = "idle" /\ at'[f] = NoKey /\ raced' = raced
            \/ /\ fpc'[f] = "send" /\ at'[f] \in Cached /\ at'[f] # NoKey
               /\ u[at'[f]].status = "D" /\ copy'[f] = u[at'[f]].data
               /\ raced' = raced \ {at'[f]}
         /\ \A g \in Flushers : g # f =>
              fpc'[g] = fpc[g] /\ at'[g] = at[g] /\ copy'[g] = copy[g] /\ ahead'[g] = ahead[g]
<1> USE DEF IInv, FlushShape
<1>1. Cached \subseteq Keys /\ NoKey \notin Cached
  BY NoKeyAssumption DEF CacheInv
<1>2. CASE /\ Dirty(u, S) = {}
           /\ fpc' = [fpc EXCEPT ![f] = "idle"]
           /\ at' = [at EXCEPT ![f] = NoKey]
           /\ copy' = [copy EXCEPT ![f] = 0]
           /\ ahead' = [ahead EXCEPT ![f] = {}]
           /\ UNCHANGED raced
  BY <1>2
<1>3. CASE \E k \in Dirty(u, S) : \E rest \in SUBSET (S \ {k}) :
             /\ Dirty(u, S) \ {k} \subseteq rest
             /\ fpc' = [fpc EXCEPT ![f] = "send"]
             /\ at' = [at EXCEPT ![f] = k]
             /\ copy' = [copy EXCEPT ![f] = u[k].data]
             /\ ahead' = [ahead EXCEPT ![f] = rest]
             /\ raced' = raced \ {k}
  <2>1. PICK k \in Dirty(u, S), rest \in SUBSET S :
             /\ fpc' = [fpc EXCEPT ![f] = "send"]
             /\ at' = [at EXCEPT ![f] = k]
             /\ copy' = [copy EXCEPT ![f] = u[k].data]
             /\ ahead' = [ahead EXCEPT ![f] = rest]
             /\ raced' = raced \ {k}
    BY <1>3
  <2>2. k \in Cached /\ k \in Keys /\ u[k].status = "D" /\ u[k].data \in Nat /\ rest \in SUBSET Keys
    BY <1>1, <2>1 DEF Dirty, BlockT
  <2>3. copy' \in [Flushers -> Nat] /\ copy'[f] = u[k].data
    BY <2>1, <2>2
  <2>4. ahead' \in [Flushers -> SUBSET Keys] /\ ahead'[f] \subseteq S
    BY <2>1, <2>2
  <2> QED
    BY <1>1, <2>1, <2>2, <2>3, <2>4
<1> QED
  BY <1>2, <1>3 DEF Walk

\* The mark: it makes one block clean, which the flush has sent, or none.
Marks(f) ==
  \/ usedSpace' = usedSpace
  \/ f \in Marking(at[f]) /\ at[f] # NoKey /\ usedSpace' = [usedSpace EXCEPT ![at[f]].status = "C"]

LEMMA MarksIs ==
  ASSUME IInv, NEW f \in Flushers, Marks(f)
  PROVE  /\ Cached' = Cached /\ usedSpace' \in [Cached -> BlockT]
         /\ \A k \in Cached :
              /\ usedSpace'[k].data = usedSpace[k].data
              /\ usedSpace'[k].access_time = usedSpace[k].access_time
              /\ usedSpace'[k].status = usedSpace[k].status \/ f \in Marking(k)
              /\ at[f] # k => usedSpace'[k] = usedSpace[k]
<1>1. usedSpace \in [Cached -> BlockT]
  BY DEF IInv, CacheInv
<1>2. CASE usedSpace' = usedSpace
  BY <1>1, <1>2 DEF Cached
<1>3. CASE f \in Marking(at[f]) /\ at[f] # NoKey /\ usedSpace' = [usedSpace EXCEPT ![at[f]].status = "C"]
  <2>1. at[f] \in Cached
    BY <1>3 DEF Marking, IInv, FlushFits
  <2> DEFINE k == at[f]
             new == [usedSpace[k] EXCEPT !.status = "C"]
  <2>2. new \in BlockT /\ new.data = usedSpace[k].data /\ new.access_time = usedSpace[k].access_time
    BY <1>1, <2>1 DEF BlockT
  <2>3. usedSpace' = [usedSpace EXCEPT ![k] = new]
    BY <1>1, <1>3, <2>1
  <2> HIDE DEF new
  <2>4. /\ usedSpace' \in [Cached -> BlockT] /\ usedSpace'[k] = new
        /\ \A j \in Cached : j # k => usedSpace'[j] = usedSpace[j]
    BY <1>1, <2>1, <2>2, <2>3
  <2>5. Cached' = Cached
    BY <1>1, <2>3 DEF Cached
  <2> QED
    BY <1>3, <2>2, <2>4, <2>5
<1> QED
  BY <1>2, <1>3 DEF Marks

\* A section of flush() that ends where the iterator stops.
LEMMA WalkKeeps ==
  ASSUME IInv, NEW f \in Flushers, fpc[f] \in {"start", "sent"}, Marks(f),
         NEW S, S \subseteq Cached, Walk(f, usedSpace', S),
         iterator' \in [Flushers -> {"valid", "rehashed", "freed"}], iterator'[f] = "valid",
         \A g \in Flushers : g # f => iterator'[g] = iterator[g],
         overlapped' \in BOOLEAN,
         ~overlapped' => ~overlapped /\ \A g \in Flushers : g # f => at[g] = NoKey,
         UNCHANGED << freeSpace, LAST_ACCESS, appVars, tokens, dataVars, boundVars, crashed >>
  PROVE  IInv'
<1>1. /\ Cached' = Cached /\ usedSpace' \in [Cached -> BlockT]
      /\ \A k \in Cached :
           /\ usedSpace'[k].data = usedSpace[k].data
           /\ usedSpace'[k].access_time = usedSpace[k].access_time
           /\ usedSpace'[k].status = usedSpace[k].status \/ f \in Marking(k)
           /\ at[f] # k => usedSpace'[k] = usedSpace[k]
  BY MarksIs
<1>2. /\ fpc' \in [Flushers -> {"idle", "start", "send", "sent"}]
      /\ at' \in [Flushers -> Keys \union {NoKey}]
      /\ copy' \in [Flushers -> Nat]
      /\ ahead' \in [Flushers -> SUBSET Keys]
      /\ raced' \subseteq raced /\ ahead'[f] \subseteq S
      /\ \/ fpc'[f] = "idle" /\ at'[f] = NoKey /\ raced' = raced
         \/ /\ fpc'[f] = "send" /\ at'[f] \in Cached /\ at'[f] # NoKey
            /\ usedSpace'[at'[f]].status = "D" /\ copy'[f] = usedSpace'[at'[f]].data
            /\ raced' = raced \ {at'[f]}
      /\ \A g \in Flushers : g # f =>
           fpc'[g] = fpc[g] /\ at'[g] = at[g] /\ copy'[g] = copy[g] /\ ahead'[g] = ahead[g]
  BY <1>1, WalkIs
<1>3. CacheInv' /\ ClockInv'
  BY <1>1 DEF IInv, CacheInv, ClockInv, Keys, BlockT
<1>4. AppInv'
  BY DEF IInv, AppInv, appVars, dataVars, boundVars, BlockT
<1>5. FlushShape'
  BY <1>2 DEF IInv, FlushShape, dataVars, Keys, Flushers
<1>6. FlushFits(f)'
  BY <1>1, <1>2 DEF FlushFits
<1>7. ASSUME NEW g \in Flushers, g # f
      PROVE  FlushFits(g)'
  BY <1>1, <1>2, <1>7 DEF IInv, FlushFits, dataVars
<1>8. SentInv'
  <2>1. ASSUME NEW k \in Cached, k \notin raced', usedSpace'[k].status = "C" \/ Marking(k)' # {},
               usedSpace'[k].data # 0
        PROVE  Covered(k)'
    <3>1. k # NoKey
      BY NoKeyAssumption DEF IInv, CacheInv
    <3>2. CASE at'[f] = k
      BY <1>2, <3>1, <3>2 DEF Covered, Sending
    <3>3. CASE at'[f] # k
      <4>1. k \notin raced
        BY <1>2, <2>1, <3>3
      <4>2. usedSpace[k].status = "C" \/ Marking(k) # {}
        BY <1>1, <1>2, <2>1, <3>3 DEF Marking
      <4>3. Covered(k)
        BY <1>1, <2>1, <4>1, <4>2 DEF IInv, SentInv
      <4>4. CASE << k, usedSpace[k].data >> \in sent
        BY <1>1, <4>4 DEF Covered, dataVars
      <4>5. CASE \E g \in Sending(k) : copy[g] = usedSpace[k].data
        <5>1. PICK g \in Sending(k) : copy[g] = usedSpace[k].data
          BY <4>5
        <5>2. CASE g = f
          BY <1>1, <5>1, <5>2 DEF Covered, Sending, IInv, FlushFits, dataVars
        <5>3. CASE g # f
          BY <1>1, <1>2, <5>1, <5>3 DEF Covered, Sending
        <5> QED
          BY <5>2, <5>3
      <4> QED
        BY <4>3, <4>4, <4>5 DEF Covered
    <3> QED
      BY <3>2, <3>3
  <2> QED
    BY <1>1, <2>1 DEF SentInv
<1>9. AloneInv'
  BY <1>2 DEF AloneInv
<1>10. StaleInv'
  BY <1>1 DEF IInv, StaleInv, appVars, dataVars, boundVars, OneServer
<1> QED
  BY <1>3, <1>4, <1>5, <1>6, <1>7, <1>8, <1>9, <1>10 DEF IInv

LEMMA FlushStartKeeps ==
  ASSUME IInv, NEW f \in Flushers, FlushStart(f)
  PROVE  IInv'
<1>1. /\ fpc[f] = "start" /\ Walk(f, usedSpace, Cached)
      /\ overlapped' = (overlapped \/ \E g \in Flushers \ {f} : at[g] # NoKey)
      /\ UNCHANGED << cacheVars, appVars, tokens, iterator, dataVars, boundVars, crashed >>
  BY DEF FlushStart
<1>2. UNCHANGED << usedSpace, freeSpace, LAST_ACCESS >> /\ Marks(f)
  BY <1>1 DEF cacheVars, Marks
<1>3. iterator' \in [Flushers -> {"valid", "rehashed", "freed"}] /\ iterator'[f] = "valid"
  BY <1>1 DEF IInv, FlushShape, FlushFits
<1>4. overlapped' \in BOOLEAN /\ (~overlapped' => ~overlapped /\ \A g \in Flushers : g # f => at[g] = NoKey)
  BY <1>1 DEF IInv, FlushShape
<1>5. Walk(f, usedSpace', Cached)
  BY <1>1, <1>2
<1> QED
  BY <1>1, <1>2, <1>3, <1>4, <1>5, WalkKeeps

\* As long as no two flushes have overlapped, the one at a block is the only one.
LEMMA OnlyOne ==
  ASSUME IInv, NEW f \in Flushers, at[f] # NoKey, ~overlapped
  PROVE  \A g \in Flushers : g # f => at[g] = NoKey
  BY DEF IInv, AloneInv

LEMMA FlushMarkKeeps ==
  ASSUME IInv, NEW f \in Flushers, FlushMark(f)
  PROVE  IInv'
<1>1. /\ fpc[f] = "sent" /\ iterator[f] = "valid"
      /\ usedSpace' = [usedSpace EXCEPT ![at[f]].status = "C"]
      /\ Walk(f, usedSpace', ahead[f])
      /\ UNCHANGED << freeSpace, LAST_ACCESS, appVars, tokens, iterator, dataVars, boundVars, crashed,
                      overlapped >>
  BY DEF FlushMark
<1>2. at[f] # NoKey /\ ahead[f] \subseteq Cached /\ Marks(f)
  BY <1>1 DEF IInv, FlushFits, Marks, Marking
<1>3. iterator' \in [Flushers -> {"valid", "rehashed", "freed"}] /\ overlapped' \in BOOLEAN
  BY <1>1 DEF IInv, FlushShape
<1> QED
  BY <1>1, <1>2, <1>3, OnlyOne, WalkKeeps

LEMMA FlushWildKeeps ==
  ASSUME IInv, NEW f \in Flushers, FlushWild(f)
  PROVE  IInv'
<1> DEFINE marked == IF iterator[f] = "rehashed" THEN [usedSpace EXCEPT ![at[f]].status = "C"] ELSE usedSpace
<1>1. /\ fpc[f] = "sent" /\ at[f] # NoKey
      /\ UNCHANGED << freeSpace, LAST_ACCESS, appVars, tokens, dataVars, boundVars, overlapped >>
  BY DEF FlushWild, IInv, FlushFits
<1>2. CASE /\ usedSpace' = marked
           /\ \E S \in SUBSET Cached : Walk(f, marked, S)
           /\ iterator' = [iterator EXCEPT ![f] = "valid"]
           /\ UNCHANGED crashed
  <2>1. PICK S \in SUBSET Cached : Walk(f, marked, S)
    BY <1>2
  <2>2. Marks(f)
    BY <1>1, <1>2 DEF Marks, Marking
  <2> HIDE DEF marked
  <2>3. Walk(f, usedSpace', S)
    BY <1>2, <2>1
  <2>4. /\ iterator' \in [Flushers -> {"valid", "rehashed", "freed"}] /\ iterator'[f] = "valid"
        /\ \A g \in Flushers : g # f => iterator'[g] = iterator[g]
        /\ overlapped' \in BOOLEAN
    BY <1>1, <1>2 DEF IInv, FlushShape
  <2> QED
    BY <1>1, <1>2, <2>2, <2>3, <2>4, OnlyOne, WalkKeeps
<1>3. CASE crashed' = TRUE /\ UNCHANGED << usedSpace, fpc, at, copy, ahead, iterator, raced >>
  BY <1>1, <1>3, CrashKeeps DEF cacheVars, flushVars, historyVars
<1> QED
  BY <1>2, <1>3 DEF FlushWild

LEMMA ExitKeeps ==
  ASSUME IInv, ExitOnSocketError
  PROVE  IInv'
  BY CrashKeeps DEF ExitOnSocketError
-----------------------------------------------------------------------------
(* The theorems.                                                             *)

\* The invariant: the cache, its clock, the threads that use it, and what has been sent.
THEOREM Invariant == Spec => []IInv
<1>1. IInv /\ [Next]_vars => IInv'
  <2> SUFFICES ASSUME IInv, Next PROVE IInv'
    BY StutterKeeps
  <2>1. ASSUME NEW b \in BlockNumbers, NEW o \in {"read", "write"}, StartBlock(b, o)
        PROVE  IInv'
    BY <2>1, StartBlockKeeps
  <2>2. CASE Application
    BY <2>2, LookupKeeps, FetchKeeps, InsertSingleBlockKeeps DEF Application
  <2>3. CASE Harvest \/ WakeFlusher \/ ExitOnSocketError
    BY <2>3, HarvestKeeps, WakeFlusherKeeps, ExitKeeps
  <2>4. ASSUME NEW f \in Flushers, Flush(f)
        PROVE  IInv'
    BY <2>4, FlushStartKeeps, FlushSendKeeps, FlushMarkKeeps, FlushWildKeeps DEF Flush
  <2>5. ASSUME NEW b \in BlockNumbers, HandleRevoker(b)
        PROVE  IInv'
    BY <2>5, HandleRevokerKeeps
  <2> QED
    BY <2>1, <2>2, <2>3, <2>4, <2>5 DEF Next
<1> QED
  BY <1>1, InitInv, PTL DEF Spec

\* Whatever its capacity, the cache never has more blocks than it was given: the assertion
\* commented out in insertSingleBlockIntoCache holds.
THEOREM NeverTooManyBlocks == Spec => []TypeOK
<1>1. IInv => TypeOK
  BY DEF IInv, CacheInv, ClockInv, AppInv, FlushShape, TypeOK
<1> QED
  BY <1>1, Invariant, PTL

\* A clean block has been sent, or is being sent as it is, unless it was written while a
\* flush was sending it, for every number of blocks and every order of the hash table.
THEOREM CleanIsSent == Spec => []CleanWasSent
<1>1. IInv => CleanWasSent
  BY DEF IInv, SentInv, CleanWasSent, Covered
<1> QED
  BY <1>1, Invariant, PTL

\* The harvester never erases the block under the iterator of a flush, as long as the
\* flusher and the revoker have not been in flush() together.
THEOREM IteratorsStayLive == Spec => []IteratorsLive
<1>1. IInv => IteratorsLive
  BY DEF IInv, AloneInv, FlushFits, IteratorsLive
<1> QED
  BY <1>1, Invariant, PTL

LEMMA WidthOne == StripeWidth = 1 => OneServer
<1> SUFFICES ASSUME StripeWidth = 1, NEW b \in BlockNumbers
             PROVE  OffsetWithin(b, StripeWidth) = b
  BY DEF OneServer
<1>1. b \in Nat /\ STRIP_SIZE \in Nat \ {0}
  BY StripeAssumption, StripAssumption
<1>2. (b \div STRIP_SIZE) \div 1 = b \div STRIP_SIZE
  BY <1>1
<1>3. b = STRIP_SIZE * (b \div STRIP_SIZE) + (b % STRIP_SIZE)
  BY <1>1
<1> QED
  BY <1>1, <1>2, <1>3 DEF OffsetWithin

\* A file on one server, where the two ways to make the ID of a block agree: as long as
\* nothing was revoked, the cache holds of a block its last write or what was fetched.
THEOREM FreshUntilRevoked == StripeWidth = 1 => (Spec => []StaleOnlyAfterRevoke)
<1> SUFFICES ASSUME StripeWidth = 1 PROVE Spec => []StaleOnlyAfterRevoke
  OBVIOUS
<1>1. IInv => StaleOnlyAfterRevoke
  BY WidthOne DEF IInv, StaleInv, StaleOnlyAfterRevoke
<1> QED
  BY <1>1, Invariant, PTL

\* Only the harvester takes blocks out of the cache.
LEMMA OthersKeepBlocks ==
  ASSUME IInv, Next, ~Harvest
  PROVE  Cached \subseteq Cached'
<1> USE DEF Cached
<1>1. ASSUME NEW b \in BlockNumbers, NEW o \in {"read", "write"}, StartBlock(b, o)
      PROVE  Cached \subseteq Cached'
  BY <1>1 DEF StartBlock, cacheVars
<1>2. ASSUME Application
      PROVE  Cached \subseteq Cached'
  <2>1. CASE Lookup
    BY <2>1 DEF Lookup
  <2>2. CASE Fetch
    BY <2>2 DEF Fetch, cacheVars
  <2>3. CASE InsertSingleBlock
    BY <2>3 DEF InsertSingleBlock, cacheVars
  <2> QED
    BY <1>2, <2>1, <2>2, <2>3 DEF Application
<1>3. ASSUME WakeFlusher \/ ExitOnSocketError
      PROVE  Cached \subseteq Cached'
  BY <1>3 DEF WakeFlusher, ExitOnSocketError, cacheVars
<1>4. ASSUME NEW f \in Flushers, Flush(f)
      PROVE  Cached \subseteq Cached'
  <2>1. CASE FlushStart(f)
    BY <2>1 DEF FlushStart, cacheVars
  <2>2. CASE FlushSend(f)
    BY <2>2 DEF FlushSend, cacheVars
  <2>3. CASE FlushMark(f)
    BY <2>3 DEF FlushMark
  <2>4. CASE FlushWild(f)
    BY <2>4 DEF FlushWild
  <2> QED
    BY <1>4, <2>1, <2>2, <2>3, <2>4 DEF Flush
<1>5. ASSUME NEW b \in BlockNumbers, HandleRevoker(b)
      PROVE  Cached \subseteq Cached'
  BY <1>5 DEF HandleRevoker, cacheVars
<1> QED
  BY <1>1, <1>2, <1>3, <1>4, <1>5 DEF Next

\* What goes is clean and was used before every clean block that stays, and the free list
\* does not pass its upper threshold, for every capacity and every order of the hash table.
THEOREM OldestBlocksGo == Spec => HarvestsOldest
<1>1. IInv /\ [Next]_vars => [OldestGo]_vars
  <2> SUFFICES ASSUME IInv, Next PROVE OldestGo
    OBVIOUS
  <2>1. CASE ~Harvest
    BY <2>1, OthersKeepBlocks DEF OldestGo, Cached
  <2>2. CASE Harvest
    <3>1. PICK order \in SetToSeqs(Cached) : Evict(HarvestQueue(order))
      BY <2>2 DEF Harvest
    <3> DEFINE S == HarvestQueue(order)
               n == FREE_LIST_MAX_T - freeSpace
    <3>2. QueueFits(S, Cached, n)
      BY <2>2, HarvestQueueFits DEF IInv, Harvest
    <3>3. Evict(S)
      BY <3>1
    <3> HIDE DEF S
    <3>4. S \subseteq Cached /\ IsFiniteSet(S) /\ Cardinality(S) <= n
      BY <3>2 DEF QueueFits
    <3>5. /\ Cached \ DOMAIN usedSpace' = S
          /\ freeSpace' = freeSpace + Cardinality(S)
      BY <3>3, <3>4, EvictIs DEF Cached
    <3>6. freeSpace' <= FREE_LIST_MAX_T
      BY <3>4, <3>5, CapacityAssumption, FS_CardinalityType DEF IInv, CacheInv
    <3>7. /\ \A k \in S : usedSpace[k].status = "C"
          /\ \A k \in S, j \in Cached \ S :
               usedSpace[j].status = "C" => AccessTime(k) < AccessTime(j)
      BY <3>2 DEF QueueFits, Clean
    <3> QED
      BY <3>5, <3>6, <3>7 DEF OldestGo
  <2> QED
    BY <2>1, <2>2
<1> QED
  BY <1>1, Invariant, PTL DEF Spec, HarvestsOldest
=============================================================================
