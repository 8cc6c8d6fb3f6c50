-------------------------- MODULE MetadataManager --------------------------
(***************************************************************************)
(* The metadata manager process (MetadataManager.cc, mt_data_types.hh): one *)
(* thread per connection, the general file table under gft_lock, the write  *)
(* and read tokens of every file under its fe_lock, and the calls the       *)
(* threads make while they hold those locks: to the file servers for        *)
(* create, delete and fstat, to the clients' revokers for tokens.           *)
(*                                                                          *)
(* The file servers (FileServer.cc) appear as the sets of files they store; *)
(* a client appears as a revoker that answers, or has exited.               *)
(***************************************************************************)
EXTENDS Intervals, SequencesExt

CONSTANTS
  Files,        \* file names
  Clients,      \* client processes, named by the (IP, revoker port) they send
  Threads,      \* request handling threads
  NumServers,   \* NUM_FILE_SERVERS
  Requests,     \* the requests clients may send
  MaxRequests,  \* bound: how many requests arrive in one behaviour
  Fragile,      \* file servers that may stop, and come back with their disk, or be refused
                \* a call by their operating system
  Mortal,       \* clients that may exit
  Free,         \* a mutex nobody holds
  Orphan,       \* a mutex left locked by a thread that has returned
  NoRequest     \* a thread that has not been handed a connection

Servers == 0 .. NumServers - 1

TokenRequest  == [op : {"request_token"}, file : Files, iv : Interval,
                  mode : {"r", "w"}, cl : Clients]
CreateRequest == [op : {"create"}, file : Files, width : Nat]
NameRequest   == [op : {"open", "delete", "fstat"}, file : Files]

ASSUME RequestsAssumption == Requests \subseteq TokenRequest \union CreateRequest \union NameRequest
ASSUME BoundsAssumption   == NumServers \in Nat /\ MaxRequests \in Nat
ASSUME FaultsAssumption   == Fragile \subseteq Servers /\ Mortal \subseteq Clients
ASSUME NamesAssumption    == /\ Free \notin Threads /\ Orphan \notin Threads /\ Free # Orphan
                             /\ NoRequest \notin Requests /\ Free \notin Clients

VARIABLES
  \* general_file_table: the names in it, and the fields of each entry
  known, width, MDWTokens, MDRTokens, capacity,
  \* the two levels of mutexes
  gft_lock, fe_lock,
  \* the locals of each thread: where it is, its arguments, the server it
  \* calls next, the reader iterator (0 once invalidated), its response
  pc, req, srv, it, response,
  \* the environment: files on each server, servers and clients that answer,
  \* and the number of requests so far
  disk, serving, up, arrived,
  \* the process has been terminated
  crashed

tableVars  == << known, width, MDWTokens, MDRTokens, capacity >>
lockVars   == << gft_lock, fe_lock >>
threadVars == << pc, req, srv, it, response >>
envVars    == << disk, serving, up, arrived >>
vars == << tableVars, lockVars, threadVars, envVars, crashed >>

Token == [iv : Interval, cl : Clients]

PCs == {"idle", "lock", "create", "open", "delete", "deleting", "fstat", "stating",
        "request_token", "writers", "wcall", "readers", "rcall", "reply"}

Responses == {"", "ack", "nack", "stat", "success", "failed", "recipe", "granted",
              "locking_failed"}

TypeOK ==
  /\ known \subseteq Files
  /\ width \in [Files -> Nat]
  /\ MDWTokens \in [Files -> SUBSET Token]
  /\ MDRTokens \in [Files -> Seq(Token)]
  /\ capacity \in [Files -> Nat]
  /\ gft_lock \in Threads \union {Free, Orphan}
  /\ fe_lock \in [Files -> Threads \union {Free}]
  /\ pc \in [Threads -> PCs]
  /\ req \in [Threads -> Requests \union {NoRequest}]
  /\ srv \in [Threads -> Nat]
  /\ it \in [Threads -> Nat]
  /\ response \in [Threads -> Responses]
  /\ disk \in [Servers -> SUBSET Files]
  /\ serving \subseteq Servers
  /\ up \subseteq Clients
  /\ arrived \in Nat
  /\ crashed \in BOOLEAN

Init ==
  /\ known = {}
  /\ width = [f \in Files |-> 0]
  /\ MDWTokens = [f \in Files |-> {}]
  /\ MDRTokens = [f \in Files |-> << >>]
  /\ capacity = [f \in Files |-> 0]
  /\ gft_lock = Free
  /\ fe_lock = [f \in Files |-> Free]
  /\ pc = [t \in Threads |-> "idle"]
  /\ req = [t \in Threads |-> NoRequest]
  /\ srv = [t \in Threads |-> 0]
  /\ it = [t \in Threads |-> 0]
  /\ response = [t \in Threads |-> ""]
  /\ disk = [s \in Servers |-> {}]
  /\ serving = Servers
  /\ up = Clients
  /\ arrived = 0
  /\ crashed = FALSE
-----------------------------------------------------------------------------
(* Connections and the general file table lock.                             *)

\* Nothing happens any more once the process is gone.
At(t, label) == ~crashed /\ pc[t] = label

GoTo(t, label) == pc' = [pc EXCEPT ![t] = label]

Reply(t, r) == GoTo(t, "reply") /\ response' = [response EXCEPT ![t] = r]

\* main and HandleTCPClient: a connection is accepted, its command read.
Accept(t, r) ==
  /\ At(t, "idle")
  /\ arrived < MaxRequests
  /\ r.op = "request_token" => r.cl \in up
  /\ req' = [req EXCEPT ![t] = r]
  /\ arrived' = arrived + 1
  /\ GoTo(t, "lock")
  /\ UNCHANGED << tableVars, lockVars, srv, it, response, disk, serving, up, crashed >>

\* Every handler starts by taking gft_lock.
LockTable(t) ==
  /\ At(t, "lock")
  /\ gft_lock = Free
  /\ gft_lock' = t
  /\ GoTo(t, req[t].op)
  /\ UNCHANGED << tableVars, fe_lock, req, srv, it, response, envVars, crashed >>

\* The response is sent, the thread ends and its locals vanish.
SendResponse(t) ==
  /\ At(t, "reply")
  /\ GoTo(t, "idle")
  /\ req' = [req EXCEPT ![t] = NoRequest]
  /\ srv' = [srv EXCEPT ![t] = 0]
  /\ it' = [it EXCEPT ![t] = 0]
  /\ response' = [response EXCEPT ![t] = ""]
  /\ UNCHANGED << tableVars, lockVars, envVars, crashed >>
-----------------------------------------------------------------------------
(* create, open, delete, fstat.                                             *)

\* What a file server that stores "files" does with a command about f: the files
\* it stores afterwards and its answer (create, remove and stat of FileServer.cc).
ServerCreate(files, f) == [files |-> files \union {f}, answer |-> IF f \in files THEN "nack" ELSE "ack"]
ServerDelete(files, f) == [files |-> files \ {f}, answer |-> IF f \in files THEN "ack" ELSE "nack"]
ServerStat(files, f)   == [files |-> files, answer |-> IF f \in files THEN "stat" ELSE "nack"]

\* One call of a handler to server s with that outcome.  A server that is down, or
\* whose creat or remove fails, gives "nack"; one that stops before its answer is
\* received has done the work and gives "nack" too.
ServerCall(t, s, outcome) ==
  \/ /\ s \in serving
     /\ disk' = [disk EXCEPT ![s] = outcome.files]
     /\ response' = [response EXCEPT ![t] = outcome.answer]
     /\ UNCHANGED serving
  \/ /\ s \in serving \intersect Fragile
     /\ disk' = [disk EXCEPT ![s] = outcome.files]
     /\ response' = [response EXCEPT ![t] = "nack"]
     /\ serving' = serving \ {s}
  \/ /\ s \notin serving \/ s \in Fragile
     /\ response' = [response EXCEPT ![t] = "nack"]
     /\ UNCHANGED << disk, serving >>

\* The body of the loop of execFunc_create.  stripeMask.set(i) throws for an i
\* beyond the mask, and nothing catches it: the process is terminated.
CreateOnServer(t) ==
  LET f == req[t].file
      s == srv[t]
  IN /\ At(t, "create")
     /\ s < req[t].width
     /\ \/ /\ s \in Servers
           /\ ServerCall(t, s, ServerCreate(disk[s], f))
           /\ srv' = [srv EXCEPT ![t] = s + 1]
           /\ UNCHANGED crashed
        \/ /\ s \notin Servers
           /\ crashed' = TRUE
           /\ UNCHANGED << disk, serving, response, srv >>
     /\ UNCHANGED << tableVars, lockVars, pc, req, it, up, arrived >>

\* After the loop: the last answer decides.  "insert" keeps an older entry.
CreateEntry(t) ==
  LET f == req[t].file
      new == response[t] = "ack" /\ f \notin known
  IN /\ At(t, "create")
     /\ srv[t] = req[t].width
     /\ known' = IF new THEN known \union {f} ELSE known
     /\ width' = IF new THEN [width EXCEPT ![f] = req[t].width] ELSE width
     /\ gft_lock' = Free
     /\ Reply(t, IF response[t] = "nack" THEN "failed" ELSE "success")
     /\ UNCHANGED << MDWTokens, MDRTokens, capacity, fe_lock, req, srv, it, envVars, crashed >>

Open(t) ==
  /\ At(t, "open")
  /\ gft_lock' = Free
  /\ Reply(t, IF req[t].file \in known THEN "recipe" ELSE "")
  /\ UNCHANGED << tableVars, fe_lock, req, srv, it, envVars, crashed >>

\* execFunc_delete and execFunc_fstat look the name up.  When it is missing they
\* return without unlocking gft_lock.
FindOrLeak(t, loop) ==
  /\ \/ /\ req[t].file \in known
        /\ GoTo(t, loop)
        /\ UNCHANGED << gft_lock, response >>
     \/ /\ req[t].file \notin known
        /\ gft_lock' = Orphan
        /\ Reply(t, "nack")
  /\ UNCHANGED << tableVars, fe_lock, req, srv, it, envVars, crashed >>

FindToDelete(t) == At(t, "delete") /\ FindOrLeak(t, "deleting")

FindToStat(t) == At(t, "fstat") /\ FindOrLeak(t, "stating")

\* The servers in the stripe mask of a file are the first "width" ones.
DeleteOnServer(t) ==
  LET f == req[t].file
      s == srv[t]
  IN /\ At(t, "deleting")
     /\ s < width[f]
     /\ ServerCall(t, s, ServerDelete(disk[s], f))
     /\ srv' = [srv EXCEPT ![t] = s + 1]
     /\ UNCHANGED << tableVars, lockVars, pc, req, it, up, arrived, crashed >>

\* Mutant: the entry stays in the table.
DeleteEntry_Kept(t) ==
  /\ At(t, "deleting")
  /\ srv[t] = width[req[t].file]
  /\ gft_lock' = Free
  /\ Reply(t, "success")
  /\ UNCHANGED << tableVars, fe_lock, req, srv, it, envVars, crashed >>

\* The entry goes, with its tokens, whatever the servers answered.
DeleteEntry(t) ==
  LET f == req[t].file
  IN /\ At(t, "deleting")
     /\ srv[t] = width[f]
     /\ known' = known \ {f}
     /\ width' = [width EXCEPT ![f] = 0]
     /\ MDWTokens' = [MDWTokens EXCEPT ![f] = {}]
     /\ MDRTokens' = [MDRTokens EXCEPT ![f] = << >>]
     /\ capacity' = [capacity EXCEPT ![f] = 0]
     /\ gft_lock' = Free
     /\ Reply(t, IF response[t] = "nack" THEN "failed" ELSE "success")
     /\ UNCHANGED << fe_lock, req, srv, it, envVars, crashed >>

\* fstat stops at the first "nack"; the sums and maxima it builds are left out.
StatOnServer(t) ==
  LET f == req[t].file
      s == srv[t]
  IN /\ At(t, "stating")
     /\ s < width[f]
     /\ response[t] # "nack"
     /\ ServerCall(t, s, ServerStat(disk[s], f))
     /\ srv' = [srv EXCEPT ![t] = s + 1]
     /\ UNCHANGED << tableVars, lockVars, pc, req, it, up, arrived, crashed >>

\* Mutant: gft_lock is not unlocked on the way out.
StatDone_NoUnlock(t) ==
  /\ At(t, "stating")
  /\ srv[t] = width[req[t].file] \/ response[t] = "nack"
  /\ Reply(t, IF response[t] = "nack" THEN "nack" ELSE "stat")
  /\ UNCHANGED << tableVars, lockVars, req, srv, it, envVars, crashed >>

StatDone(t) ==
  /\ At(t, "stating")
  /\ srv[t] = width[req[t].file] \/ response[t] = "nack"
  /\ gft_lock' = Free
  /\ Reply(t, IF response[t] = "nack" THEN "nack" ELSE "stat")
  /\ UNCHANGED << tableVars, fe_lock, req, srv, it, envVars, crashed >>
-----------------------------------------------------------------------------
(* request_token.                                                           *)

Wanted(t) == req[t].iv
Tokens(t) == MDRTokens[req[t].file]

\* The entry MDWTokens.find(interval) returns: a set of at most one token.
FoundWriter(t) == FirstOverlap(MDWTokens[req[t].file], Wanted(t))

\* What a revoked token keeps: the pieces of it outside the wanted interval.
Pieces(t, e) == [i \in DOMAIN Subtract(e.iv, Wanted(t)) |->
                   [iv |-> Subtract(e.iv, Wanted(t))[i], cl |-> e.cl]]

\* Mutant: gft_lock is released once fe_lock is held.
FindEntry_EarlyUnlock(t) ==
  LET f == req[t].file
      locked == f \in known /\ fe_lock[f] = Free
  IN /\ At(t, "request_token")
     /\ gft_lock' = Free
     /\ fe_lock' = IF locked THEN [fe_lock EXCEPT ![f] = t] ELSE fe_lock
     /\ IF locked
        THEN GoTo(t, "writers") /\ UNCHANGED response
        ELSE Reply(t, IF f \in known THEN "locking_failed" ELSE "nack")
     /\ UNCHANGED << tableVars, req, srv, it, envVars, crashed >>

\* The file is looked up, and its lock tried: a thread never waits for fe_lock.
FindEntry(t) ==
  LET f == req[t].file
  IN /\ At(t, "request_token")
     /\ \/ /\ f \notin known
           /\ gft_lock' = Free
           /\ Reply(t, "nack")
           /\ UNCHANGED fe_lock
        \/ /\ f \in known
           /\ fe_lock[f] # Free
           /\ gft_lock' = Free
           /\ Reply(t, "locking_failed")
           /\ UNCHANGED fe_lock
        \/ /\ f \in known
           /\ fe_lock[f] = Free
           /\ fe_lock' = [fe_lock EXCEPT ![f] = t]
           /\ GoTo(t, "writers")
           /\ UNCHANGED << gft_lock, response >>
     /\ UNCHANGED << tableVars, req, srv, it, envVars, crashed >>

\* Mutant: the pieces outside the interval are not put back.
DropWriter_Whole(t, e) ==
  /\ MDWTokens' = [MDWTokens EXCEPT ![req[t].file] = @ \ {e}]
  /\ UNCHANGED << known, width, MDRTokens, capacity >>

\* Any response but "nack" takes the token from the writer.
DropWriter(t, e) ==
  /\ MDWTokens' = [MDWTokens EXCEPT ![req[t].file] =
                     MapInsert(@ \ {e}, Range(Pieces(t, e)))]
  /\ UNCHANGED << known, width, MDRTokens, capacity >>

\* The writer that is found is sent "revoke": it is connected to, or its process
\* is gone and the "exception" counts as consent.
RevokeWriter(t) ==
  /\ At(t, "writers")
  /\ \E e \in FoundWriter(t) :
       \/ e.cl \in up /\ GoTo(t, "wcall") /\ UNCHANGED tableVars
       \/ e.cl \notin up /\ DropWriter(t, e) /\ UNCHANGED pc
  /\ UNCHANGED << lockVars, req, srv, it, response, envVars, crashed >>

\* Its answer.  A client that exits during the call gives "nack" or "exception".
WriterAnswer(t) ==
  /\ At(t, "wcall")
  /\ GoTo(t, "writers")
  /\ \E e \in FoundWriter(t) : \/ DropWriter(t, e)
                               \/ e.cl \notin up /\ UNCHANGED tableVars
  /\ UNCHANGED << lockVars, req, srv, it, response, envVars, crashed >>

Unlock(t) == /\ fe_lock' = [fe_lock EXCEPT ![req[t].file] = Free]
             /\ gft_lock' = Free

\* No writer is left: a reader is appended to the vector, which doubles its
\* capacity when it is full.
GrantRead(t) ==
  LET f == req[t].file
  IN /\ At(t, "writers")
     /\ req[t].mode = "r"
     /\ FoundWriter(t) = {}
     /\ MDRTokens' = [MDRTokens EXCEPT ![f] = Append(@, [iv |-> Wanted(t), cl |-> req[t].cl])]
     /\ capacity' = IF Len(Tokens(t)) = capacity[f]
                    THEN [capacity EXCEPT ![f] = IF @ = 0 THEN 1 ELSE 2 * @]
                    ELSE capacity
     /\ Unlock(t)
     /\ Reply(t, "granted")
     /\ UNCHANGED << known, width, MDWTokens, req, srv, it, envVars, crashed >>

StartReaders(t) ==
  /\ At(t, "writers")
  /\ req[t].mode = "w"
  /\ FoundWriter(t) = {}
  /\ it' = [it EXCEPT ![t] = 1]
  /\ GoTo(t, "readers")
  /\ UNCHANGED << tableVars, lockVars, req, srv, response, envVars, crashed >>

\* The reader under the iterator is erased, which leaves the iterator on the
\* next one; the pieces are appended; and the loop increments the iterator.  An
\* append that reallocates the vector leaves the iterator dangling.
DropReader(t) ==
  LET f == req[t].file
      n == it[t]
      pieces == Pieces(t, Tokens(t)[n])
      realloc == Len(Tokens(t)) - 1 + Len(pieces) > capacity[f]
  IN /\ MDRTokens' = [MDRTokens EXCEPT ![f] = RemoveAt(@, n) \o pieces]
     /\ capacity' = IF realloc THEN [capacity EXCEPT ![f] = 2 * @] ELSE capacity
     /\ it' = [it EXCEPT ![t] = IF realloc THEN 0 ELSE n + 1]
     /\ UNCHANGED << known, width, MDWTokens >>

KeepReader(t) == it' = [it EXCEPT ![t] = @ + 1] /\ UNCHANGED tableVars

\* The iterator points into the vector.
AtReader(t) == it[t] \in 1 .. Len(Tokens(t))

ScanReader(t) ==
  /\ At(t, "readers")
  /\ AtReader(t)
  /\ LET e == Tokens(t)[it[t]]
     IN \/ ~Overlaps(Wanted(t), e.iv) /\ KeepReader(t) /\ UNCHANGED pc
        \/ Overlaps(Wanted(t), e.iv) /\ e.cl \in up /\ GoTo(t, "rcall") /\ UNCHANGED << tableVars, it >>
        \/ Overlaps(Wanted(t), e.iv) /\ e.cl \notin up /\ DropReader(t) /\ UNCHANGED pc
  /\ UNCHANGED << lockVars, req, srv, response, envVars, crashed >>

\* After a "nack" the loop goes on and the reader keeps its token.
ReaderAnswer(t) ==
  /\ At(t, "rcall")
  /\ GoTo(t, "readers")
  /\ \/ DropReader(t)
     \/ Tokens(t)[it[t]].cl \notin up /\ KeepReader(t)
  /\ UNCHANGED << lockVars, req, srv, response, envVars, crashed >>

\* The iterator is MDRTokens.end().
GrantWrite(t) ==
  LET f == req[t].file
  IN /\ At(t, "readers")
     /\ it[t] = Len(Tokens(t)) + 1
     /\ MDWTokens' = [MDWTokens EXCEPT ![f] =
                        MapInsert(@, {[iv |-> Wanted(t), cl |-> req[t].cl]})]
     /\ Unlock(t)
     /\ Reply(t, "granted")
     /\ UNCHANGED << known, width, MDRTokens, capacity, req, srv, it, envVars, crashed >>

\* The iterator is beyond the end of the vector, or dangles: the program reads
\* memory it does not own until it is terminated; a dangling one may also happen
\* to compare equal to the end.
RunWild(t) ==
  /\ At(t, "readers")
  /\ ~AtReader(t)
  /\ \/ /\ it[t] # Len(Tokens(t)) + 1
        /\ crashed' = TRUE
        /\ UNCHANGED it
     \/ /\ it[t] = 0
        /\ it' = [it EXCEPT ![t] = Len(Tokens(t)) + 1]
        /\ UNCHANGED crashed
  /\ UNCHANGED << tableVars, lockVars, pc, req, srv, response, envVars >>
-----------------------------------------------------------------------------
(* The environment: file servers stop and come back, clients exit.          *)

ServerStop(s) ==
  /\ serving' = serving \ {s}
  /\ UNCHANGED << tableVars, lockVars, threadVars, disk, up, arrived, crashed >>

ServerRecover(s) ==
  /\ serving' = serving \union {s}
  /\ UNCHANGED << tableVars, lockVars, threadVars, disk, up, arrived, crashed >>

ClientExit(c) ==
  /\ up' = up \ {c}
  /\ UNCHANGED << tableVars, lockVars, threadVars, disk, serving, arrived, crashed >>

\* What a thread does once it has a connection.
Handle(t) ==
  \/ LockTable(t) \/ SendResponse(t)
  \/ CreateOnServer(t) \/ CreateEntry(t)
  \/ Open(t)
  \/ FindToDelete(t) \/ DeleteOnServer(t) \/ DeleteEntry(t)
  \/ FindToStat(t) \/ StatOnServer(t) \/ StatDone(t)
  \/ FindEntry(t)
  \/ RevokeWriter(t) \/ WriterAnswer(t) \/ GrantRead(t)
  \/ StartReaders(t) \/ ScanReader(t) \/ ReaderAnswer(t) \/ GrantWrite(t) \/ RunWild(t)

Next ==
  \/ \E t \in Threads, r \in Requests : Accept(t, r)
  \/ \E t \in Threads : Handle(t)
  \/ \E s \in Fragile : ServerStop(s) \/ ServerRecover(s)
  \/ \E c \in Mortal : ClientExit(c)

Spec == Init /\ [][Next]_vars

\* Threads are scheduled; nothing makes a request arrive.  Requests are finitely
\* many, so weak fairness is enough for a thread that waits for gft_lock.
FairSpec == Spec /\ \A t \in Threads : WF_vars(Handle(t))
-----------------------------------------------------------------------------
(* Locking.                                                                 *)

EntryPCs  == {"writers", "wcall", "readers", "rcall"}
InsidePCs == EntryPCs \union {"create", "open", "delete", "deleting", "fstat", "stating",
                              "request_token"}

HasEntry(t) == pc[t] \in EntryPCs
Inside(t)   == pc[t] \in InsidePCs

\* The locks nest: a thread between lock and unlock of gft_lock is its holder, and
\* fe_lock is held only by the holder of gft_lock that serves a token request for
\* that file.  All the table is accessed between those (MetadataManager.cc).
LocksNest ==
  \A t \in Threads : /\ Inside(t) <=> gft_lock = t
                     /\ \A f \in Files : fe_lock[f] = t <=> HasEntry(t) /\ req[t].file = f

\* No request is ever turned away with "locking_failed", for which the client
\* library retries (pfs.cc): gft_lock is held as long as any fe_lock is.
NeverLockingFailed == \A t \in Threads : response[t] # "locking_failed"

(* Tokens.                                                                  *)

\* Two write tokens of a file never share a block: the keys of MDWTokens stay
\* disjoint although std::map compares them with an order that is total only then.
WriteTokensDisjoint ==
  \A f \in Files : \A d, e \in MDWTokens[f] : d # e => Blocks(d.iv) \intersect Blocks(e.iv) = {}

AllBlocks == UNION {Blocks(r.iv) : r \in {q \in Requests : q.op = "request_token"}}

Writer(f, b) == IF \E e \in MDWTokens[f] : b \in Blocks(e.iv)
                THEN (CHOOSE e \in MDWTokens[f] : b \in Blocks(e.iv)).cl
                ELSE Free

Readers(f, b) == {e.cl : e \in {d \in Range(MDRTokens[f]) : b \in Blocks(d.iv)}}

Claims == {[file |-> req[t].file, blocks |-> Blocks(req[t].iv),
            mode |-> req[t].mode, cl |-> req[t].cl] : t \in {u \in Threads : HasEntry(u)}}

Table == INSTANCE TokenTable WITH
           NoWriter <- Free,
           writer  <- [f \in Files |-> [b \in AllBlocks |-> Writer(f, b)]],
           readers <- [f \in Files |-> [b \in AllBlocks |-> Readers(f, b)]],
           claims  <- Claims

\* The intervals, the map and the vector implement the block by block table: a
\* revocation takes blocks of the request only, a grant covers all of them and no
\* block with a writer, for any interleaving of requests and exits of clients.
ImplementsTokenTable == Table!Spec

\* A write token excludes the readers: once the "readers" loop of a write request
\* is over and the request granted, no read token shares a block with it.
WriterExcludesReaders ==
  gft_lock = Free =>
    \A f \in Files : \A e \in MDWTokens[f], d \in Range(MDRTokens[f]) : ~Overlaps(e.iv, d.iv)

(* Files on the servers.                                                    *)

\* A file of the table is stored by every server of its stripe, so that the fstat
\* and the delete of it, which ask each of them, can succeed; all but the servers that
\* may have been down when it was created, for only the last answer counts.
RecordedOnServers ==
  gft_lock \notin Threads =>
    \A f \in known : \A s \in (0 .. width[f] - 1) \ Fragile : f \in disk[s]

(* Service.                                                                 *)

\* A request that arrives is answered, unless gft_lock has been left locked or the
\* process is gone: handlers call revokers and servers while they hold the locks,
\* and neither a dead writer nor a stopped server blocks them.
RequestsServed ==
  \A t \in Threads : pc[t] = "lock" ~> (pc[t] = "reply" \/ gft_lock = Orphan \/ crashed)
=============================================================================
