---------------------------- MODULE ClientCache ----------------------------
(***************************************************************************)
(* The block cache of a client (ClientCache.cc): the application thread    *)
(* that looks blocks up and inserts them from pfs_read and pfs_write        *)
(* (pfs.cc), the harvester, the periodic flusher and the revoker, all under *)
(* cache_mutex.  flush() releases the mutex in the middle of its iteration  *)
(* while it sends a block.  One action per section between a lock and the   *)
(* next unlock of cache_mutex.                                              *)
(*                                                                          *)
(* One application thread at a time is in the sections modelled: they run   *)
(* under file_desc_mutex.  The data of a block is the number of the write   *)
(* that produced it; 0 is an empty block.                                   *)
(***************************************************************************)
EXTENDS Striping, SequencesExt

CONSTANTS
  BlockNumbers,          \* the blocks of the file, as pfs_read and pfs_write count them
  StripeWidth,           \* the stripe width of the file
  BUFFER_CACHE_CAPACITY, FREE_LIST_MIN_T, FREE_LIST_MAX_T,
  MaxCalls,              \* bound: blocks read or written
  MaxWrites,             \* bound: blocks written
  MaxRevokes,            \* bound: revocations
  NoKey                  \* usedSpace.end()

ASSUME CapacityAssumption ==
  /\ FREE_LIST_MIN_T \in Nat /\ FREE_LIST_MAX_T \in Nat /\ BUFFER_CACHE_CAPACITY \in Nat
  /\ FREE_LIST_MIN_T <= FREE_LIST_MAX_T /\ FREE_LIST_MAX_T <= BUFFER_CACHE_CAPACITY
ASSUME StripeAssumption ==
  BlockNumbers \subseteq Nat /\ BlockNumbers # {} /\ StripeWidth \in Nat \ {0}
ASSUME BoundsAssumption == MaxCalls \in Nat /\ MaxWrites \in Nat /\ MaxRevokes \in Nat

Flushers == {"flusher", "revoker"}

\* readFromFileServer makes the block ID from the offset within the server;
\* lookupBlockInCache and getBlockFromCache from the block number.
Keys == BlockNumbers \union {OffsetWithin(b, StripeWidth) : b \in BlockNumbers}

ASSUME NoKeyAssumption == NoKey \notin Keys

VARIABLES
  \* freeSpace.size(), the blocks in usedSpace, and the clock of their access times
  freeSpace, usedSpace, LAST_ACCESS,
  \* the application thread: its block, what it does with it, whether it had the
  \* token before the call, and the block it has fetched
  pc, block, op, already_have_token, bt,
  \* the blocks this client has a token for
  tokens,
  \* the locals of flush(): the ID under the iterator, the copy being sent, the
  \* IDs the iterator has not passed, and whether the iterator is still good
  fpc, at, copy, ahead, iterator,
  \* what has been sent to the file servers, and the last write of each block
  sent, latest,
  writes, calls, revokes, crashed,
  \* history: the IDs written while flush() was sending them, and whether two
  \* flushes have overlapped
  raced, overlapped

cacheVars   == << freeSpace, usedSpace, LAST_ACCESS >>
appVars     == << pc, block, op, already_have_token, bt >>
flushVars   == << fpc, at, copy, ahead, iterator >>
dataVars    == << sent, latest, writes >>
boundVars   == << calls, revokes >>
historyVars == << raced, overlapped >>
vars == << cacheVars, appVars, tokens, flushVars, dataVars, boundVars, crashed, historyVars >>

Cached == DOMAIN usedSpace

BlockT == [data : Nat, status : {"C", "D"}, access_time : Nat]

TypeOK ==
  \* the assertion commented out in insertSingleBlockIntoCache: no more blocks than
  \* the cache was given
  /\ freeSpace \in Nat /\ freeSpace + Cardinality(Cached) <= BUFFER_CACHE_CAPACITY
  /\ Cached \subseteq Keys /\ \A k \in Cached : usedSpace[k] \in BlockT
  /\ LAST_ACCESS \in Nat
  /\ pc \in {"idle", "lookup", "fetch", "insert"}
  /\ block \in BlockNumbers
  /\ op \in {"read", "write"}
  /\ already_have_token \in BOOLEAN
  /\ bt \in BlockT
  /\ tokens \subseteq BlockNumbers
  /\ fpc \in [Flushers -> {"idle", "start", "send", "sent"}]
  /\ at \in [Flushers -> Keys \union {NoKey}]
  /\ copy \in [Flushers -> Nat]
  /\ ahead \in [Flushers -> SUBSET Keys]
  /\ iterator \in [Flushers -> {"valid", "rehashed", "freed"}]
  /\ sent \subseteq Keys \X Nat
  /\ latest \in [BlockNumbers -> Nat]
  /\ writes \in Nat /\ calls \in Nat /\ revokes \in Nat
  /\ crashed \in BOOLEAN
  /\ raced \subseteq Keys
  /\ overlapped \in BOOLEAN

FirstBlock == CHOOSE b \in BlockNumbers : TRUE
NoBlock == [data |-> 0, status |-> "C", access_time |-> 0]

Init ==
  /\ freeSpace = BUFFER_CACHE_CAPACITY
  /\ usedSpace = [k \in {} |-> NoBlock]
  /\ LAST_ACCESS = 0
  /\ pc = "idle" /\ block = FirstBlock /\ op = "read" /\ already_have_token = FALSE
  /\ bt = NoBlock
  /\ tokens = {}
  /\ fpc = [f \in Flushers |-> "idle"]
  /\ at = [f \in Flushers |-> NoKey]
  /\ copy = [f \in Flushers |-> 0]
  /\ ahead = [f \in Flushers |-> {}]
  /\ iterator = [f \in Flushers |-> "valid"]
  /\ sent = {}
  /\ latest = [b \in BlockNumbers |-> 0]
  /\ writes = 0 /\ calls = 0 /\ revokes = 0
  /\ crashed = FALSE
  /\ raced = {}
  /\ overlapped = FALSE
-----------------------------------------------------------------------------
Dirty(u, S) == {k \in S : u[k].status = "D"}

\* The flushes that have let go of the mutex at ID k.
Sending(k) == {f \in Flushers : fpc[f] \in {"send", "sent"} /\ at[f] = k}

\* The block found gets the highest access time.
Touched(b) == [b EXCEPT !.access_time = LAST_ACCESS]

\* An empty block for the locals of a thread that is not using them.
AppDone == /\ pc' = "idle"
           /\ block' = FirstBlock /\ op' = "read" /\ already_have_token' = FALSE
           /\ bt' = NoBlock
-----------------------------------------------------------------------------
(* pfs_read and pfs_write, once they have their tokens: one block.          *)

\* already_have_token is what the call found before it asked for tokens.
StartBlock(b, o) ==
  /\ ~crashed
  /\ pc = "idle"
  /\ calls < MaxCalls
  /\ o = "write" => writes < MaxWrites
  /\ calls' = calls + 1
  /\ pc' = "lookup" /\ block' = b /\ op' = o
  /\ already_have_token' = (b \in tokens)
  /\ tokens' = tokens \union {b}
  /\ writes' = IF o = "write" THEN writes + 1 ELSE writes
  /\ UNCHANGED << cacheVars, bt, flushVars, sent, latest, revokes, crashed, historyVars >>

\* Mutant: pfs_write changes a copy of the cached block.
Lookup_Copy ==
  /\ ~crashed
  /\ pc = "lookup"
  /\ \/ /\ already_have_token
        /\ block \in Cached
        /\ LAST_ACCESS' = LAST_ACCESS + 1
        /\ usedSpace' = [usedSpace EXCEPT ![block] = Touched(@)]
        /\ \/ op = "write" /\ latest' = [latest EXCEPT ![block] = writes]
           \/ op = "read" /\ UNCHANGED latest
        /\ AppDone
     \/ /\ ~already_have_token \/ block \notin Cached
        /\ pc' = "fetch"
        /\ UNCHANGED << usedSpace, LAST_ACCESS, latest, block, op, already_have_token, bt >>
  /\ UNCHANGED << freeSpace, tokens, flushVars, sent, writes, boundVars, crashed, historyVars >>

\* The block is looked up, when the token was there before, and changed in place.
Lookup ==
  /\ ~crashed
  /\ pc = "lookup"
  /\ \/ /\ already_have_token
        /\ block \in Cached
        /\ LAST_ACCESS' = LAST_ACCESS + 1
        /\ \/ /\ op = "write"
              /\ usedSpace' = [usedSpace EXCEPT ![block] = [Touched(@) EXCEPT !.data = writes, !.status = "D"]]
              /\ latest' = [latest EXCEPT ![block] = writes]
              /\ raced' = IF Sending(block) # {} THEN raced \union {block} ELSE raced
           \/ /\ op = "read"
              /\ usedSpace' = [usedSpace EXCEPT ![block] = Touched(@)]
              /\ UNCHANGED << latest, raced >>
        /\ AppDone
     \/ /\ ~already_have_token \/ block \notin Cached
        /\ pc' = "fetch"
        /\ UNCHANGED << usedSpace, LAST_ACCESS, latest, raced, block, op, already_have_token, bt >>
  /\ UNCHANGED << freeSpace, tokens, flushVars, sent, writes, boundVars, crashed, overlapped >>

\* Mutant: pfs_write does not mark the new block dirty.
Fetch_Clean ==
  /\ ~crashed
  /\ pc = "fetch"
  /\ bt' = [NoBlock EXCEPT !.data = IF op = "write" THEN writes ELSE 0]
  /\ latest' = IF op = "write" THEN [latest EXCEPT ![block] = writes] ELSE latest
  /\ pc' = "insert"
  /\ UNCHANGED << cacheVars, block, op, already_have_token, tokens, flushVars, sent, writes, boundVars,
                  crashed, historyVars >>

\* readFromFileServer: the data received is cut to the length of the string in the
\* new block, which is zero; then pfs_write puts its own data in.
Fetch ==
  /\ ~crashed
  /\ pc = "fetch"
  /\ bt' = IF op = "write" THEN [NoBlock EXCEPT !.data = writes, !.status = "D"] ELSE NoBlock
  /\ latest' = IF op = "write" THEN [latest EXCEPT ![block] = writes] ELSE latest
  /\ pc' = "insert"
  /\ UNCHANGED << cacheVars, block, op, already_have_token, tokens, flushVars, sent, writes, boundVars,
                  crashed, historyVars >>

\* Mutant: the free list is not looked at.
InsertSingleBlock_NoCheck ==
  LET k == OffsetWithin(block, StripeWidth)
  IN /\ ~crashed
     /\ pc = "insert"
     /\ freeSpace' = freeSpace - 1
     /\ LAST_ACCESS' = LAST_ACCESS + 1
     /\ usedSpace' = [j \in Cached \union {k} |-> IF j \in Cached THEN usedSpace[j] ELSE Touched(bt)]
     /\ AppDone
     /\ UNCHANGED << tokens, flushVars, dataVars, boundVars, crashed, historyVars >>

\* insertSingleBlockIntoCache: a free block is used up, and unordered_map::insert
\* keeps a block already there.  A new block may land before or behind an iterator,
\* and may make the table rehash.  Without a free block it throws, in a thread with
\* no handler: the process is terminated.
InsertSingleBlock ==
  LET k == OffsetWithin(block, StripeWidth)
      isNew == k \notin Cached
  IN /\ ~crashed
     /\ pc = "insert"
     /\ \/ /\ freeSpace > 0
           /\ freeSpace' = freeSpace - 1
           /\ LAST_ACCESS' = LAST_ACCESS + 1
           /\ \/ /\ isNew
                 /\ usedSpace' = [j \in Cached \union {k} |-> IF j = k THEN Touched(bt) ELSE usedSpace[j]]
                 /\ raced' = raced \ {k}
                 /\ \E behind \in SUBSET Flushers, rehash \in BOOLEAN :
                      /\ ahead' = [f \in Flushers |->
                                     IF at[f] = NoKey \/ f \in behind THEN ahead[f] ELSE ahead[f] \union {k}]
                      /\ iterator' = [f \in Flushers |->
                                        IF rehash /\ at[f] # NoKey /\ iterator[f] = "valid"
                                        THEN "rehashed" ELSE iterator[f]]
              \/ /\ ~isNew
                 /\ UNCHANGED << usedSpace, raced, ahead, iterator >>
           /\ AppDone
           /\ UNCHANGED crashed
        \/ /\ freeSpace = 0
           /\ crashed' = TRUE
           /\ UNCHANGED << cacheVars, appVars, raced, ahead, iterator >>
     /\ UNCHANGED << tokens, fpc, at, copy, dataVars, boundVars, overlapped >>
-----------------------------------------------------------------------------
(* The harvester.                                                           *)

AccessTime(k) == usedSpace[k].access_time

\* The block harvest_queue.top() returns: the queue orders blocks by access time
\* and its top is the one used last.
Top(queue) == CHOOSE k \in queue : \A j \in queue : AccessTime(j) <= AccessTime(k)

\* Mutant: a full queue takes blocks used later than its top.
Consider_Reversed(queue, k, n) ==
  IF usedSpace[k].status # "C" THEN queue
  ELSE IF Cardinality(queue) < n THEN queue \union {k}
  ELSE IF AccessTime(k) > AccessTime(Top(queue)) THEN (queue \ {Top(queue)}) \union {k}
  ELSE queue

\* Mutant: the status of the block is not looked at.
Consider_AnyStatus(queue, k, n) ==
  IF Cardinality(queue) < n THEN queue \union {k}
  ELSE IF AccessTime(k) < AccessTime(Top(queue)) THEN (queue \ {Top(queue)}) \union {k}
  ELSE queue

\* The body of the scan: a clean block joins a queue that is not full, or takes the
\* place of the top when it was used earlier.
Consider(queue, k, n) ==
  IF usedSpace[k].status # "C" THEN queue
  ELSE IF Cardinality(queue) < n THEN queue \union {k}
  ELSE IF AccessTime(k) < AccessTime(Top(queue)) THEN (queue \ {Top(queue)}) \union {k}
  ELSE queue

\* The queue after a scan of the blocks in some order of the hash table.
HarvestQueue(order) ==
  LET queue[i \in 0 .. Len(order)] ==
        IF i = 0 THEN {} ELSE Consider(queue[i - 1], order[i], FREE_LIST_MAX_T - freeSpace)
  IN queue[Len(order)]

Evict(S) ==
  /\ usedSpace' = [k \in Cached \ S |-> usedSpace[k]]
  /\ freeSpace' = freeSpace + Cardinality(S)
  /\ ahead' = [f \in Flushers |-> ahead[f] \ S]
  /\ iterator' = [f \in Flushers |-> IF at[f] \in S THEN "freed" ELSE iterator[f]]

Harvest ==
  /\ ~crashed
  /\ freeSpace < FREE_LIST_MIN_T
  /\ \E order \in SetToSeqs(Cached) :
       HarvestQueue(order) # {} /\ Evict(HarvestQueue(order))
  /\ UNCHANGED << LAST_ACCESS, appVars, tokens, fpc, at, copy, dataVars, boundVars, crashed, historyVars >>
-----------------------------------------------------------------------------
(* flush(), called by the flusher and by the revoker.                       *)

\* The iterator moves on over S: to a dirty block, with the clean ones it passes
\* behind it, or to the end.  The block found is copied and the mutex released.
Walk(f, u, S) ==
  \/ /\ Dirty(u, S) = {}
     /\ fpc' = [fpc EXCEPT ![f] = "idle"]
     /\ at' = [at EXCEPT ![f] = NoKey]
     /\ copy' = [copy EXCEPT ![f] = 0]
     /\ ahead' = [ahead EXCEPT ![f] = {}]
     /\ UNCHANGED raced
  \/ \E k \in Dirty(u, S) : \E rest \in SUBSET (S \ {k}) :
       /\ Dirty(u, S) \ {k} \subseteq rest
       /\ fpc' = [fpc EXCEPT ![f] = "send"]
       /\ at' = [at EXCEPT ![f] = k]
       /\ copy' = [copy EXCEPT ![f] = u[k].data]
       /\ ahead' = [ahead EXCEPT ![f] = rest]
       /\ raced' = raced \ {k}

\* usleep ends.
WakeFlusher ==
  /\ ~crashed
  /\ fpc["flusher"] = "idle"
  /\ fpc' = [fpc EXCEPT !["flusher"] = "start"]
  /\ UNCHANGED << cacheVars, appVars, tokens, at, copy, ahead, iterator, dataVars, boundVars, crashed,
                  historyVars >>

FlushStart(f) ==
  /\ ~crashed
  /\ fpc[f] = "start"
  /\ Walk(f, usedSpace, Cached)
  /\ overlapped' = (overlapped \/ \E g \in Flushers \ {f} : at[g] # NoKey)
  /\ UNCHANGED << cacheVars, appVars, tokens, iterator, dataVars, boundVars, crashed >>

\* writeToFileServer, without the mutex.
FlushSend(f) ==
  /\ ~crashed
  /\ fpc[f] = "send"
  /\ fpc' = [fpc EXCEPT ![f] = "sent"]
  /\ sent' = sent \union {<< at[f], copy[f] >>}
  /\ UNCHANGED << cacheVars, appVars, tokens, at, copy, ahead, iterator, latest, writes, boundVars,
                  crashed, historyVars >>

\* Mutant: the block keeps its status.
FlushMark_Forgets(f) ==
  /\ ~crashed
  /\ fpc[f] = "sent"
  /\ iterator[f] = "valid"
  /\ Walk(f, usedSpace, ahead[f])
  /\ UNCHANGED << cacheVars, appVars, tokens, iterator, dataVars, boundVars, crashed, overlapped >>

\* The mutex is locked again, the block under the iterator marked clean, and the
\* loop goes on.
FlushMark(f) ==
  LET marked == [usedSpace EXCEPT ![at[f]].status = "C"]
  IN /\ ~crashed
     /\ fpc[f] = "sent"
     /\ iterator[f] = "valid"
     /\ usedSpace' = marked
     /\ Walk(f, marked, ahead[f])
     /\ UNCHANGED << freeSpace, LAST_ACCESS, appVars, tokens, iterator, dataVars, boundVars, crashed,
                     overlapped >>

\* The table was rehashed or the block erased under the iterator: the mark goes to
\* the block, or to freed memory, and the loop goes on from anywhere, or the process
\* is terminated.
FlushWild(f) ==
  LET marked == IF iterator[f] = "rehashed" THEN [usedSpace EXCEPT ![at[f]].status = "C"] ELSE usedSpace
  IN /\ ~crashed
     /\ fpc[f] = "sent"
     /\ iterator[f] # "valid"
     /\ \/ /\ usedSpace' = marked
           /\ \E S \in SUBSET Cached : Walk(f, marked, S)
           /\ iterator' = [iterator EXCEPT ![f] = "valid"]
           /\ UNCHANGED crashed
        \/ /\ crashed' = TRUE
           /\ UNCHANGED << usedSpace, fpc, at, copy, ahead, iterator, raced >>
     /\ UNCHANGED << freeSpace, LAST_ACCESS, appVars, tokens, dataVars, boundVars, overlapped >>

\* A file server that cannot be reached ends the process, with what is in its cache.
ExitOnSocketError ==
  /\ ~crashed
  /\ pc = "fetch" \/ \E f \in Flushers : fpc[f] = "send"
  /\ crashed' = TRUE
  /\ UNCHANGED << cacheVars, appVars, tokens, flushVars, dataVars, boundVars, historyVars >>

\* HandleRevoker: the token is given up, or kept when the message has no file name,
\* the manager is answered, and then flush() called.
HandleRevoker(b) ==
  /\ ~crashed
  /\ fpc["revoker"] = "idle"
  /\ revokes < MaxRevokes
  /\ b \in tokens
  /\ revokes' = revokes + 1
  /\ tokens' \in {tokens \ {b}, tokens}
  /\ fpc' = [fpc EXCEPT !["revoker"] = "start"]
  /\ UNCHANGED << cacheVars, appVars, at, copy, ahead, iterator, dataVars, calls, crashed, historyVars >>

Application == Lookup \/ Fetch \/ InsertSingleBlock

Flush(f) == FlushStart(f) \/ FlushSend(f) \/ FlushMark(f) \/ FlushWild(f)

Next ==
  \/ \E b \in BlockNumbers, o \in {"read", "write"} : StartBlock(b, o)
  \/ Application
  \/ Harvest
  \/ WakeFlusher
  \/ \E f \in Flushers : Flush(f)
  \/ \E b \in BlockNumbers : HandleRevoker(b)
  \/ ExitOnSocketError

Spec == Init /\ [][Next]_vars

\* The threads are scheduled, and every usleep ends.
FairSpec == /\ Spec
            /\ WF_vars(Application)
            /\ WF_vars(WakeFlusher)
            /\ \A f \in Flushers : WF_vars(Flush(f))
-----------------------------------------------------------------------------
\* A step that takes the blocks "gone" out of the cache.
OldestGo ==
  LET gone == Cached \ DOMAIN usedSpace'
  IN gone # {} =>
       /\ \A k \in gone : usedSpace[k].status = "C"
       /\ \A k \in gone, j \in Cached \ gone :
            usedSpace[j].status = "C" => AccessTime(k) < AccessTime(j)
       /\ freeSpace' <= FREE_LIST_MAX_T

\* Whatever the order of the hash table, the harvester takes clean blocks only, the
\* ones used longest ago, and no more than bring the free list to its upper threshold.
HarvestsOldest == [][OldestGo]_vars

\* A clean block has been sent, or is about to be by a flush that has copied it,
\* unless it was written again while a flush was sending it.
CleanWasSent ==
  \A k \in Cached \ raced :
    usedSpace[k].status = "C" /\ usedSpace[k].data # 0 =>
      \/ << k, usedSpace[k].data >> \in sent
      \/ \E f \in Sending(k) : copy[f] = usedSpace[k].data

\* No block is erased under the iterator of a flush unless two flushes overlapped:
\* a block being sent is dirty, and the harvester leaves it.
IteratorsLive == ~overlapped => \A f \in Flushers : iterator[f] # "freed"

\* Until a token is revoked, the cache holds the last write of a block, or what came
\* from a server after an eviction, and never an earlier write.
StaleOnlyAfterRevoke ==
  revokes = 0 => \A b \in Cached \intersect tokens : pc # "insert" => usedSpace[b].data \in {0, latest[b]}

\* A dirty block is sent in the end, and marked clean.
DirtyIsFlushed ==
  \A k \in Keys : (k \in Cached /\ usedSpace[k].status = "D") ~>
                    (crashed \/ (k \in Cached /\ usedSpace[k].status = "C"))
=============================================================================
