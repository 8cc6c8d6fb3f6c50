------------------------------ MODULE TokenMap ------------------------------
(***************************************************************************)
(* The tokens a client holds on one open file (FileDesc.cc), and the two    *)
(* kinds of thread that change them: application threads inside pfs_read    *)
(* and pfs_write (pfs.cc), which hold file_desc_mutex, and the revoker      *)
(* thread (ClientCache.cc), which does not.                                 *)
(*                                                                          *)
(* The manager appears as its record of what this client holds, block by    *)
(* block: it grants, revokes and forgets.  MetadataManager is its model.    *)
(***************************************************************************)
EXTENDS Intervals

CONSTANTS
  Threads,      \* application threads
  Jobs,         \* the ranges of blocks pfs_read ("r") and pfs_write ("w") may touch
  MaxCalls,     \* bound: calls of pfs_read and pfs_write
  Revocations,  \* the revocations other clients' requests may cause
  MaxRevokes,   \* bound: revocations
  Deletable,    \* whether another client may delete the file
  Free          \* file_desc_mutex when nobody holds it

Modes == {"r", "w"}
Access == [iv : Interval, mode : Modes]

ASSUME JobsAssumption   == Jobs \subseteq Access /\ Revocations \subseteq Access
ASSUME BoundsAssumption == MaxCalls \in Nat /\ MaxRevokes \in Nat /\ Deletable \in BOOLEAN
ASSUME FreeAssumption   == Free \notin Threads

AllBlocks == {0} \union (UNION {Blocks(j.iv) : j \in Jobs \union Revocations})

VARIABLES
  tok_map, file_desc_mutex,
  \* application threads: where they are, the range they work on, the interval
  \* they asked for and then were given
  pc, job, token,
  \* locals of required_token and of addPermission, which only the holder of the mutex
  \* runs: the block that is looked at and the first missing one (or -1); the new
  \* interval, and what is left of an erased token and has still to be inserted
  block, start,
  bl_int, dont_add, rest,
  \* the revoker thread, the revocation it serves, and what removePermission has still
  \* to insert
  rpc, revoke, kept,
  \* the manager: what it records for this client, whether it knows the file
  record, known,
  calls, revokes, crashed,
  \* history: what was held when addPermission or removePermission last started, whether
  \* it has had the map to itself, the blocks removePermission has put back since
  \* addPermission started, and those whose revocation missed the token
  before, quiet, putback, missed

appVars     == << pc, job, token >>
scanVars    == << block, start >>
addVars     == << bl_int, dont_add, rest >>
revokeVars  == << rpc, revoke, kept >>
managerVars == << record, known >>
boundVars   == << calls, revokes >>
historyVars == << before, quiet, putback, missed >>
vars == << tok_map, file_desc_mutex, appVars, scanVars, addVars, revokeVars, managerVars, boundVars,
           crashed, historyVars >>

NothingHeld == [b \in AllBlocks |-> "none"]

None == [m_start |-> 0, m_end |-> 0]
Idle == [iv |-> None, mode |-> "r"]

PCs  == {"idle", "need", "scan", "asked", "granted", "add", "reinsert", "finish", "right", "left",
         "insert", "io"}
RPCs == {"idle", "remove", "reinsert", "answer"}

TypeOK ==
  /\ tok_map \subseteq Access
  /\ file_desc_mutex \in Threads \union {Free}
  /\ pc \in [Threads -> PCs]
  /\ job \in [Threads -> Access]
  /\ token \in [Threads -> Interval]
  /\ block \in Nat /\ start \in Nat \union {-1}
  /\ bl_int \in Interval
  /\ dont_add \in BOOLEAN
  /\ rest \subseteq Access
  /\ rpc \in RPCs
  /\ revoke \in Access
  /\ kept \subseteq Access
  /\ record \in [AllBlocks -> Modes \union {"none"}]
  /\ known \in BOOLEAN
  /\ calls \in Nat /\ revokes \in Nat /\ crashed \in BOOLEAN
  /\ before \in [AllBlocks -> Modes \union {"none"}]
  /\ quiet \in BOOLEAN
  /\ putback \subseteq AllBlocks
  /\ missed \subseteq AllBlocks

Init ==
  /\ tok_map = {}
  /\ file_desc_mutex = Free
  /\ pc = [t \in Threads |-> "idle"]
  /\ job = [t \in Threads |-> Idle]
  /\ token = [t \in Threads |-> None]
  /\ block = 0 /\ start = -1
  /\ bl_int = None
  /\ dont_add = FALSE
  /\ rest = {}
  /\ rpc = "idle"
  /\ revoke = Idle
  /\ kept = {}
  /\ record = [b \in AllBlocks |-> "none"]
  /\ known = TRUE
  /\ calls = 0 /\ revokes = 0 /\ crashed = FALSE
  /\ before = NothingHeld
  /\ quiet = TRUE
  /\ putback = {}
  /\ missed = {}
-----------------------------------------------------------------------------
(* What the map means.                                                      *)

Entry(b) == FirstOverlap(tok_map, [m_start |-> b, m_end |-> b])

\* checkPermission: the mode of the token on block b.
Held(b) == IF Entry(b) = {} THEN "none" ELSE (CHOOSE e \in Entry(b) : TRUE).mode

HeldMap == [b \in AllBlocks |-> Held(b)]

At(t, label) == ~crashed /\ pc[t] = label
RevokerAt(label) == ~crashed /\ rpc = label

GoTo(t, label) == pc' = [pc EXCEPT ![t] = label]
-----------------------------------------------------------------------------
(* pfs_read and pfs_write up to the point where they have their tokens.     *)

Call(t, j) ==
  /\ At(t, "idle")
  /\ calls < MaxCalls
  /\ calls' = calls + 1
  /\ job' = [job EXCEPT ![t] = j]
  /\ GoTo(t, "need")
  /\ UNCHANGED << tok_map, file_desc_mutex, token, scanVars, addVars, revokeVars, managerVars, revokes,
                  crashed, historyVars >>

\* The head of the loop: required_token runs under the mutex.
CheckTokens(t) ==
  /\ At(t, "need")
  /\ file_desc_mutex = Free
  /\ file_desc_mutex' = t
  /\ block' = job[t].iv.m_start
  /\ start' = -1
  /\ GoTo(t, "scan")
  /\ UNCHANGED << tok_map, job, token, addVars, revokeVars, managerVars, boundVars, crashed,
                  historyVars >>

\* The first interval of missing blocks is found: it is asked for without the mutex.
Ask(t, last) ==
  /\ token' = [token EXCEPT ![t] = [m_start |-> start, m_end |-> last]]
  /\ file_desc_mutex' = Free
  /\ GoTo(t, "asked")
  /\ block' = 0 /\ start' = -1

\* required_token looks at one block after the other, and at 'r' whatever the caller is
\* going to do; the revoker may change the map in between.  Of the intervals it
\* returns the callers use the first.
ScanStep(t) ==
  /\ At(t, "scan")
  /\ block <= job[t].iv.m_end
  /\ \/ /\ Held(block) = "none"
        /\ start' = IF start = -1 THEN block ELSE start
        /\ block' = block + 1
        /\ UNCHANGED << token, file_desc_mutex, pc >>
     \/ /\ Held(block) # "none" /\ start = -1
        /\ block' = block + 1
        /\ UNCHANGED << start, token, file_desc_mutex, pc >>
     \/ /\ Held(block) # "none" /\ start # -1
        /\ Ask(t, block - 1)
  /\ UNCHANGED << tok_map, job, addVars, revokeVars, managerVars, boundVars, crashed, historyVars >>

\* With nothing missing the loop is left with the mutex held.
ScanDone(t) ==
  /\ At(t, "scan")
  /\ block > job[t].iv.m_end
  /\ \/ /\ start = -1
        /\ GoTo(t, "io")
        /\ block' = 0
        /\ UNCHANGED << start, token, file_desc_mutex >>
     \/ /\ start # -1
        /\ Ask(t, job[t].iv.m_end)
  /\ UNCHANGED << tok_map, job, addVars, revokeVars, managerVars, boundVars, crashed, historyVars >>

\* The blocks are read or written, and the mutex is released.
FinishCall(t) ==
  /\ At(t, "io")
  /\ file_desc_mutex' = Free
  /\ job' = [job EXCEPT ![t] = Idle]
  /\ GoTo(t, "idle")
  /\ UNCHANGED << tok_map, token, scanVars, addVars, revokeVars, managerVars, boundVars, crashed,
                  historyVars >>

\* The response is there: addPermission is called under the mutex.
StartAdd(t) ==
  /\ At(t, "granted")
  /\ file_desc_mutex = Free
  /\ file_desc_mutex' = t
  /\ bl_int' = token[t]
  /\ dont_add' = FALSE
  /\ GoTo(t, "add")
  /\ before' = HeldMap
  /\ quiet' = (rpc \notin {"remove", "reinsert"})
  /\ putback' = {}
  /\ UNCHANGED << tok_map, job, token, scanVars, rest, revokeVars, managerVars, boundVars, crashed,
                  missed >>
-----------------------------------------------------------------------------
(* addPermission(start, end, mode): the loop over the overlapping tokens.   *)

Covers(o, n) == o.m_start <= n.m_start /\ n.m_end <= o.m_end

\* From the first to the last block of two intervals.
Hull(i, n) == [m_start |-> IF i.m_start < n.m_start THEN i.m_start ELSE n.m_start,
               m_end   |-> IF i.m_end > n.m_end THEN i.m_end ELSE n.m_end]

Remainders(o, n) == {[iv |-> Subtract(o.iv, n)[i], mode |-> o.mode] : i \in DOMAIN Subtract(o.iv, n)}

\* The leftmost of the intervals still to be inserted.
First(left) == {e \in left : \A d \in left : ~Before(d.iv, e.iv)}

\* Mutant: the loop is left without erasing the equal read token.
WriteOverRead_NoErase(t, o) ==
  /\ tok_map' = IF o.iv = bl_int THEN tok_map ELSE tok_map \ {o}
  /\ rest' = Remainders(o, bl_int)
  /\ GoTo(t, IF o.iv = bl_int THEN "finish" ELSE IF rest' = {} THEN "add" ELSE "reinsert")
  /\ UNCHANGED << bl_int, dont_add >>

\* A write token replaces what it covers of a read token, which is erased; the rest of
\* the read token is inserted after that.
WriteOverRead(t, o) ==
  /\ tok_map' = tok_map \ {o}
  /\ rest' = Remainders(o, bl_int)
  /\ GoTo(t, IF o.iv = bl_int THEN "finish" ELSE IF rest' = {} THEN "add" ELSE "reinsert")
  /\ UNCHANGED << bl_int, dont_add >>

\* A token of the same mode is absorbed.  One that covers the new one is kept: the
\* loop is left when they start together, and goes on with the same token when not.
SameMode(t, o) ==
  \/ /\ ~Covers(o.iv, bl_int) \/ o.iv = bl_int
     /\ tok_map' = tok_map \ {o}
     /\ bl_int' = Hull(o.iv, bl_int)
     /\ GoTo(t, IF o.iv = bl_int THEN "finish" ELSE "add")
     /\ UNCHANGED << dont_add, rest >>
  \/ /\ Covers(o.iv, bl_int) /\ o.iv # bl_int
     /\ dont_add' = TRUE
     /\ GoTo(t, IF o.iv.m_start = bl_int.m_start THEN "finish" ELSE "add")
     /\ UNCHANGED << tok_map, bl_int, rest >>

\* Mutant: what is left starts on the last block of the write token.
ReadOverWrite_OffByOne(t, o) ==
  LET n == bl_int
  IN \/ /\ Covers(o.iv, n)
        /\ dont_add' = TRUE
        /\ GoTo(t, IF o.iv.m_start = n.m_start THEN "finish" ELSE "add")
        /\ UNCHANGED << tok_map, bl_int, rest >>
     \/ /\ ~Covers(o.iv, n)
        /\ bl_int' = IF o.iv.m_end >= n.m_end THEN [n EXCEPT !.m_end = o.iv.m_start - 1]
                     ELSE [n EXCEPT !.m_start = o.iv.m_end]
        /\ UNCHANGED << tok_map, dont_add, rest, pc >>

\* A read token goes around a write token: what is left of it is inserted, and the
\* loop goes on with what is right of it.
ReadOverWrite(t, o) ==
  LET n == bl_int
  IN \/ /\ Covers(o.iv, n)
        /\ dont_add' = TRUE
        /\ GoTo(t, IF o.iv.m_start = n.m_start THEN "finish" ELSE "add")
        /\ UNCHANGED << tok_map, bl_int, rest >>
     \/ /\ ~Covers(o.iv, n)
        /\ o.iv.m_end >= n.m_end
        /\ bl_int' = [n EXCEPT !.m_end = o.iv.m_start - 1]
        /\ UNCHANGED << tok_map, dont_add, rest, pc >>
     \/ /\ o.iv.m_end < n.m_end
        /\ bl_int' = [n EXCEPT !.m_start = o.iv.m_end + 1]
        /\ tok_map' = IF n.m_start < o.iv.m_start
                      THEN MapInsert(tok_map, {[iv |-> [n EXCEPT !.m_end = o.iv.m_start - 1], mode |-> "r"]})
                      ELSE tok_map
        /\ UNCHANGED << dont_add, rest, pc >>

AddStep(t) ==
  /\ At(t, "add")
  /\ \/ \E o \in FirstOverlap(tok_map, bl_int) :
          \/ job[t].mode = "w" /\ o.mode = "r" /\ WriteOverRead(t, o)
          \/ job[t].mode = o.mode /\ SameMode(t, o)
          \/ job[t].mode = "r" /\ o.mode = "w" /\ ReadOverWrite(t, o)
     \/ /\ FirstOverlap(tok_map, bl_int) = {}
        /\ GoTo(t, "finish")
        /\ UNCHANGED << tok_map, addVars >>
  /\ UNCHANGED << file_desc_mutex, job, token, scanVars, revokeVars, managerVars, boundVars, crashed,
                  historyVars >>

\* What is left of the erased token is inserted; the map refuses it if it overlaps
\* what the revoker has inserted meanwhile.
Reinsert(t) ==
  /\ At(t, "reinsert")
  /\ \E e \in First(rest) :
       /\ tok_map' = MapInsert(tok_map, {e})
       /\ rest' = rest \ {e}
  /\ GoTo(t, IF rest' = {} THEN "add" ELSE "reinsert")
  /\ UNCHANGED << file_desc_mutex, job, token, scanVars, bl_int, dont_add, revokeVars, managerVars,
                  boundVars, crashed, historyVars >>

\* addPermission returns: its locals, the response and its history are gone.
Return(t) ==
  /\ before' = NothingHeld
  /\ putback' = {}
  /\ token' = [token EXCEPT ![t] = None]
  /\ bl_int' = None
  /\ dont_add' = FALSE
  /\ file_desc_mutex' = Free
  /\ GoTo(t, "need")

\* After the loop.  An overlap here is what the code prints an error for.
Surprised(t) == pc[t] = "finish" /\ ~dont_add /\ FirstOverlap(tok_map, bl_int) # {}

FinishAdd(t) ==
  /\ At(t, "finish")
  /\ \/ /\ ~dont_add
        /\ ~Surprised(t)
        /\ GoTo(t, "right")
        /\ UNCHANGED << token, file_desc_mutex, bl_int, dont_add, before, putback >>
     \/ /\ dont_add \/ Surprised(t)
        /\ Return(t)
  /\ UNCHANGED << tok_map, job, scanVars, rest, revokeVars, managerVars, boundVars, crashed, quiet,
                  missed >>

\* Mutant: the mode of the neighbour is not compared.
Neighbour_AnyMode(t, b) == Entry(b)

\* The neighbours of the interval that was asked for are absorbed when they have
\* the same mode.
Neighbour(t, b) == {o \in Entry(b) : o.mode = job[t].mode}

\* The neighbour leaves the map, and the new interval ends where it does.  After a race
\* the new interval need not touch the token any more: one that ends before it starts
\* damages the order of the map.
Merge(t, o, n, label) ==
  \/ /\ n.m_start <= n.m_end
     /\ bl_int' = n
     /\ tok_map' = tok_map \ {o}
     /\ GoTo(t, label)
     /\ UNCHANGED crashed
  \/ /\ n.m_start > n.m_end
     /\ crashed' = TRUE
     /\ UNCHANGED << bl_int, tok_map, pc >>

MergeRight(t) ==
  /\ At(t, "right")
  /\ \/ \E o \in Neighbour(t, token[t].m_end + 1) :
          Merge(t, o, [bl_int EXCEPT !.m_end = o.iv.m_end], "left")
     \/ /\ Neighbour(t, token[t].m_end + 1) = {}
        /\ GoTo(t, "left")
        /\ UNCHANGED << bl_int, tok_map, crashed >>
  /\ UNCHANGED << file_desc_mutex, job, token, scanVars, dont_add, rest, revokeVars, managerVars,
                  boundVars, historyVars >>

LeftNeighbour(t) == IF token[t].m_start = 0 THEN {} ELSE Neighbour(t, token[t].m_start - 1)

MergeLeft(t) ==
  /\ At(t, "left")
  /\ \/ \E o \in LeftNeighbour(t) :
          Merge(t, o, [bl_int EXCEPT !.m_start = o.iv.m_start], "insert")
     \/ /\ LeftNeighbour(t) = {}
        /\ GoTo(t, "insert")
        /\ UNCHANGED << bl_int, tok_map, crashed >>
  /\ UNCHANGED << file_desc_mutex, job, token, scanVars, dont_add, rest, revokeVars, managerVars,
                  boundVars, historyVars >>

\* Mutant: file_desc_mutex is not unlocked after addPermission.
InsertToken_NoUnlock(t) ==
  /\ At(t, "insert")
  /\ tok_map' = MapInsert(tok_map, {[iv |-> bl_int, mode |-> job[t].mode]})
  /\ GoTo(t, "need")
  /\ UNCHANGED << file_desc_mutex, job, token, scanVars, addVars, revokeVars, managerVars, boundVars,
                  crashed, historyVars >>

InsertToken(t) ==
  /\ At(t, "insert")
  /\ tok_map' = MapInsert(tok_map, {[iv |-> bl_int, mode |-> job[t].mode]})
  /\ Return(t)
  /\ UNCHANGED << job, scanVars, rest, revokeVars, managerVars, boundVars, crashed, quiet, missed >>
-----------------------------------------------------------------------------
(* The revoker: HandleRevoker, revokePermission and removePermission.       *)

\* The threads inside addPermission: at most one, it holds the mutex.
Adding(t) == pc[t] \in {"add", "reinsert", "finish", "right", "left", "insert"}

\* Blocks a grant is bringing to the map, or that addPermission has in a local: it
\* works on the token and on the new interval, which the merges may extend over the token.
OnTheWay ==
  (UNION {Blocks(token[t]) : t \in {u \in Threads : pc[u] = "granted"}})
    \union (UNION {Blocks(Hull(token[t], bl_int)) : t \in {u \in Threads : Adding(u)}})
    \union (UNION {Blocks(e.iv) : e \in rest})

\* What a revocation of v is about, for the manager: a reader's request revokes
\* writers, a writer's request everybody.
Targets(v) == {b \in Blocks(v.iv) : record[b] = "w" \/ (v.mode = "w" /\ record[b] = "r")}

\* HandleRevoker receives the revocation.  The message of a writer's request leaves
\* out the file name: the client takes the first number for it, finds no such file,
\* and answers all the same.
HandleRevoker(v) ==
  /\ RevokerAt("idle")
  /\ known
  /\ Targets(v) # {}
  /\ revoke' = v
  /\ \/ /\ v.mode = "r"
        /\ rpc' = "remove"
        /\ before' = HeldMap
        /\ quiet' = (\A t \in Threads : ~Adding(t))
     \/ /\ v.mode = "w"
        /\ rpc' = "answer"
        /\ UNCHANGED << before, quiet >>
  /\ UNCHANGED << tok_map, file_desc_mutex, appVars, scanVars, addVars, kept, managerVars, calls, crashed,
                  putback, missed >>

\* The request of another client, or of a thread of this one.
RevokeForOther(v) == revokes < MaxRevokes /\ revokes' = revokes + 1 /\ HandleRevoker(v)

RevokeForThread(t) == /\ pc[t] = "asked"
                      /\ HandleRevoker([iv |-> token[t], mode |-> job[t].mode])
                      /\ UNCHANGED revokes

\* Mutant: one overlapping token is removed, not all.
RemoveStep_Once ==
  /\ RevokerAt("remove")
  /\ \E o \in FirstOverlap(tok_map, revoke.iv) : tok_map' = tok_map \ {o}
  /\ rpc' = "answer"
  /\ UNCHANGED << file_desc_mutex, appVars, scanVars, addVars, revoke, kept, managerVars, boundVars,
                  crashed, historyVars >>

\* removePermission: a token that overlaps is erased, and what it has outside the
\* interval is inserted after that.
RemoveStep ==
  /\ RevokerAt("remove")
  /\ \E o \in FirstOverlap(tok_map, revoke.iv) :
       /\ tok_map' = tok_map \ {o}
       /\ kept' = Remainders(o, revoke.iv)
  /\ rpc' = IF kept' = {} THEN "remove" ELSE "reinsert"
  /\ UNCHANGED << file_desc_mutex, appVars, scanVars, addVars, revoke, managerVars, boundVars, crashed,
                  historyVars >>

\* The map refuses what overlaps a token addPermission has inserted meanwhile.
KeepRest ==
  /\ RevokerAt("reinsert")
  /\ \E e \in First(kept) :
       /\ tok_map' = MapInsert(tok_map, {e})
       /\ kept' = kept \ {e}
       /\ putback' = putback \union Blocks(e.iv)
  /\ rpc' = IF kept' = {} THEN "remove" ELSE "reinsert"
  /\ UNCHANGED << file_desc_mutex, appVars, scanVars, addVars, revoke, managerVars, boundVars, crashed,
                  before, quiet, missed >>

RemoveDone ==
  /\ RevokerAt("remove")
  /\ FirstOverlap(tok_map, revoke.iv) = {}
  /\ rpc' = "answer"
  /\ missed' = missed \union (OnTheWay \intersect Blocks(revoke.iv))
  /\ before' = NothingHeld
  /\ UNCHANGED << tok_map, file_desc_mutex, appVars, scanVars, addVars, revoke, kept, managerVars,
                  boundVars, crashed, quiet, putback >>

\* The manager receives the answer and forgets what it has revoked, a writer's request
\* without any token having been removed.
AnswerRevoke ==
  /\ RevokerAt("answer")
  /\ missed' = IF revoke.mode = "w" THEN missed \union Targets(revoke) ELSE missed
  /\ record' = [b \in AllBlocks |-> IF b \in Targets(revoke) THEN "none" ELSE record[b]]
  /\ rpc' = "idle"
  /\ revoke' = Idle
  /\ UNCHANGED << tok_map, file_desc_mutex, appVars, scanVars, addVars, kept, known, boundVars,
                  crashed, before, quiet, putback >>

\* Both threads are inside the map at once, one of them without the mutex: besides
\* the interleavings of the other actions, the tree may be damaged.
RaceInMap(t) ==
  /\ pc[t] = "scan" \/ Adding(t)
  /\ RevokerAt("remove") \/ RevokerAt("reinsert")
  /\ crashed' = TRUE
  /\ UNCHANGED << tok_map, file_desc_mutex, appVars, scanVars, addVars, revokeVars, managerVars, boundVars,
                  historyVars >>
-----------------------------------------------------------------------------
(* The manager, which serves one request at a time.                         *)

\* A read token needs no writer, a write token nobody else: this client's own
\* tokens are revoked like another's.
Grant(t) ==
  LET i == token[t]
  IN /\ At(t, "asked")
     /\ rpc = "idle"
     /\ known
     /\ Targets([iv |-> i, mode |-> job[t].mode]) = {}
     /\ record' = [b \in AllBlocks |-> IF b \in Blocks(i) THEN job[t].mode ELSE record[b]]
     /\ GoTo(t, "granted")
     /\ UNCHANGED << tok_map, file_desc_mutex, job, token, scanVars, addVars, revokeVars, known,
                     boundVars, crashed, historyVars >>

\* "nack" is none of the responses the client knows, and reads as the interval (0, 0).
Nack(t) ==
  /\ At(t, "asked")
  /\ rpc = "idle"
  /\ ~known
  /\ token' = [token EXCEPT ![t] = None]
  /\ GoTo(t, "granted")
  /\ UNCHANGED << tok_map, file_desc_mutex, job, scanVars, addVars, revokeVars, managerVars, boundVars,
                  crashed, historyVars >>

\* Another client deletes the file: the tokens go with the entry, nobody is told.
Delete ==
  /\ ~crashed
  /\ Deletable
  /\ rpc = "idle"
  /\ known
  /\ known' = FALSE
  /\ record' = [b \in AllBlocks |-> "none"]
  /\ UNCHANGED << tok_map, file_desc_mutex, appVars, scanVars, addVars, revokeVars, boundVars, crashed,
                  historyVars >>

Library(t) == \/ CheckTokens(t) \/ ScanStep(t) \/ ScanDone(t) \/ FinishCall(t)
              \/ StartAdd(t) \/ AddStep(t) \/ Reinsert(t) \/ FinishAdd(t)
              \/ MergeRight(t) \/ MergeLeft(t) \/ InsertToken(t)

Revoker == RemoveStep \/ KeepRest \/ RemoveDone \/ AnswerRevoke

Manager(t) == RevokeForThread(t) \/ Grant(t) \/ Nack(t)

Next ==
  \/ \E t \in Threads, j \in Jobs : Call(t, j)
  \/ \E t \in Threads : Library(t) \/ Manager(t) \/ RaceInMap(t)
  \/ \E v \in Revocations : RevokeForOther(v)
  \/ Revoker
  \/ Delete

Spec == Init /\ [][Next]_vars

\* Threads are scheduled and the manager answers; no call, revocation or delete has
\* to happen.  The calls are finitely many: weak fairness suffices for the mutex.
FairSpec == /\ Spec
            /\ \A t \in Threads : WF_vars(Library(t)) /\ WF_vars(Manager(t))
            /\ WF_vars(Revoker)
-----------------------------------------------------------------------------
(* The map as a function from blocks to modes.                              *)

\* A read token goes around a write token and next to a read token: the merge with that
\* one takes the write token in again, the map refuses the result, and both are lost.
LosesTokens(t) ==
  /\ job[t].mode = "r"
  /\ \E b \in Blocks(token[t]) : before[b] = "w"
  /\ \E b \in AllBlocks \intersect {token[t].m_start - 1, token[t].m_end + 1} : before[b] = "r"

\* addPermission, left alone by the revoker, changes the blocks it was given and no
\* other, and never turns a write token into a read token: the nine ways two
\* intervals overlap, times four pairs of modes, and the merging with neighbours.
AddIsExact ==
  [][\A t \in Threads :
       (pc[t] \in {"finish", "insert"} /\ pc'[t] = "need" /\ quiet /\ ~LosesTokens(t)) =>
         HeldMap' = [b \in AllBlocks |->
                       IF b \in Blocks(token[t]) /\ before[b] # "w" THEN job[t].mode ELSE before[b]]]_vars

\* removePermission, left alone by addPermission, takes the blocks of the revocation and
\* no other, however many tokens they are cut out of.
RevocationIsExact ==
  [][(rpc = "remove" /\ rpc' = "answer" /\ quiet) =>
       HeldMap = [b \in AllBlocks |-> IF b \in Blocks(revoke.iv) THEN "none" ELSE before[b]]]_vars

\* What a call does to the map, and what a revocation does, is what it is about, when
\* they do not meet.  When they do, a token is lost that the map refuses.
ChangesAreExact == AddIsExact /\ RevocationIsExact

\* "it's not supposed to find overlap any more": the loop of addPermission leaves no
\* overlap.  One that is found behind it the revoker has put back in the meantime.
SurprisedByRevoker ==
  \A t \in Threads : Surprised(t) => \A o \in tok_map : Overlaps(o.iv, bl_int) => Blocks(o.iv) \subseteq putback

\* As long as the file exists, what the manager does not record the client does not
\* hold, but for blocks revoked while a grant of them was on its way to the map or
\* addPermission had them in a local, and for those a writer's request revoked, whose
\* message does not name the file.
Rank == [none |-> 0, r |-> 1, w |-> 2]
ExcessOnlyMissed ==
  known => \A b \in AllBlocks \ missed : Rank[Held(b)] <= Rank[record[b]]

\* The loop of addPermission meets a token that covers the new one and starts
\* before it: nothing changes any more but by a revocation.
Stuck(t) == /\ pc[t] = "add"
            /\ \E o \in FirstOverlap(tok_map, bl_int) :
                 Covers(o.iv, bl_int) /\ o.iv.m_start < bl_int.m_start

\* Nothing else keeps addPermission from returning.
InLoop(t) == pc[t] \in {"add", "reinsert"}
AddEnds == \A t \in Threads : InLoop(t) ~> (~InLoop(t) \/ Stuck(t) \/ crashed)

\* A call gets its tokens in the end, unless the file is deleted: it asks again for
\* what was revoked meanwhile, one missing interval after the other.  One it asks for
\* because removePermission has its token in a local at that moment leaves it stuck.
GetsTokens ==
  \A t \in Threads : pc[t] = "need" ~> (pc[t] = "io" \/ ~known \/ crashed \/ \E u \in Threads : Stuck(u))
=============================================================================
