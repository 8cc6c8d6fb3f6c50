----------------------------- MODULE FileServer -----------------------------
(***************************************************************************)
(* One file on one file server (FileServer.cc).  Every connection gets a   *)
(* thread, there is no lock, and a client does not wait for its writes: the *)
(* handlers interleave at their calls of the operating system.  One action  *)
(* per such call.                                                           *)
(*                                                                          *)
(* A write is known by the number of its connection.  Its data is a part    *)
(* of a block from its start on, or fills it: then the client sends one     *)
(* byte more, since writeToFileServer takes a block without a terminator    *)
(* for a string.  Or it is empty: a block that was fetched is all NUL, and  *)
(* stays an empty string when what was written into it starts further on.   *)
(***************************************************************************)
EXTENDS Integers, Sequences, FiniteSetsExt, TLC

CONSTANTS Threads, Blocks,
          MaxRequests          \* bound: connections

ASSUME ThreadsAssumption == IsFiniteSet(Threads)
ASSUME BlocksAssumption == Blocks \subseteq Nat
ASSUME BoundAssumption == MaxRequests \in Nat

Writes == [op : {"write"}, block : Blocks, data : {"empty", "part", "full"}]
Requests == Writes \union
            [op : {"read"}, block : Blocks] \union
            [op : {"create", "delete", "fstat"}]
NoRequest == [op |-> "none"]

VARIABLES
  \* the directory entry of the file, and the files on disk, named or not
  name, disk,
  \* each thread: where it is, its request, the number of its write, the file it has
  \* opened, and the write whose first byte it has read
  pc, req, number, pfs_file, answer,
  \* the writes so far, and the number of requests
  log, requests,
  \* history: the writes that may be in the file, and the last write to open it
  live, last

diskVars    == << name, disk >>
threadVars  == << req, number, pfs_file, answer >>
logVars     == << log, requests >>
historyVars == << live, last >>
vars == << diskVars, pc, threadVars, logVars, historyVars >>

None == 0
Mixed == MaxRequests + 1     \* a block whose first byte another write has replaced
Numbers == 1 .. MaxRequests
\* The file with the name, and those without one that a handler has open.
Inodes == 1 .. Cardinality(Threads) + 1

\* The size in half blocks, and for each block written the write its first byte is of.
Empty == [size |-> 0, data |-> [b \in {} |-> Mixed]]

TypeOK ==
  /\ name \in Inodes \union {None}
  /\ \A i \in Inodes : LET data == disk[i].data IN
       /\ disk[i].size \in Nat
       /\ DOMAIN data \subseteq Nat
       /\ \A b \in DOMAIN data : data[b] \in Numbers \union {Mixed} /\ 2 * b < disk[i].size
  /\ pc \in [Threads -> {"idle", "create", "creat", "write", "receive", "read", "reading", "answer",
                         "delete", "remove", "fstat"}]
  /\ req \in [Threads -> Requests \union {NoRequest}]
  /\ number \in [Threads -> Numbers \union {None}]
  /\ pfs_file \in [Threads -> Inodes \union {None}]
  /\ answer \in [Threads -> Numbers \union {None, Mixed}]
  /\ log \in Seq(Writes) /\ requests \in 0 .. MaxRequests
  /\ live \subseteq Numbers
  /\ last \in Numbers \union {None}

\* The server starts with an empty directory.
Init ==
  /\ name = None
  /\ disk = [i \in Inodes |-> Empty]
  /\ pc = [t \in Threads |-> "idle"]
  /\ req = [t \in Threads |-> NoRequest]
  /\ number = [t \in Threads |-> None]
  /\ pfs_file = [t \in Threads |-> None]
  /\ answer = [t \in Threads |-> None]
  /\ log = << >> /\ requests = 0
  /\ live = {} /\ last = None
-----------------------------------------------------------------------------
GoTo(t, label) == pc' = [pc EXCEPT ![t] = label]

\* The answer is sent, the connection closed, and the thread ends.
Finish(t) ==
  /\ GoTo(t, "idle")
  /\ req' = [req EXCEPT ![t] = NoRequest]
  /\ number' = [number EXCEPT ![t] = None]
  /\ pfs_file' = [pfs_file EXCEPT ![t] = None]
  /\ answer' = [answer EXCEPT ![t] = None]

\* A connection is accepted, its command read.
Accept(t, r) ==
  /\ pc[t] = "idle"
  /\ requests < MaxRequests
  /\ requests' = requests + 1
  /\ req' = [req EXCEPT ![t] = r]
  /\ \/ /\ r.op = "write"
        /\ log' = Append(log, r)
        /\ number' = [number EXCEPT ![t] = Len(log')]
     \/ /\ r.op # "write"
        /\ UNCHANGED << log, number >>
  /\ GoTo(t, r.op)
  /\ UNCHANGED << diskVars, pfs_file, answer, historyVars >>

\* The writes that have the file open.
Writing == {number[t] : t \in {u \in Threads : pc[u] = "receive" /\ name # None /\ pfs_file[u] = name}}

InUse(i) == i = name \/ \E t \in Threads : pfs_file[t] = i

\* The space of a file without a name that nobody has open is given back.
Reclaimed(d) ==
  [i \in Inodes |-> IF i = name' \/ \E t \in Threads : pfs_file'[t] = i THEN d[i] ELSE Empty]

NewFile == CHOOSE i \in Inodes : ~InUse(i)

\* Mutant: the file keeps what is in it.
OpenEmpty_Append ==
  /\ name' = IF name = None THEN NewFile ELSE name
  /\ UNCHANGED disk

\* O_CREAT with O_TRUNC: the file is made, or the one of that name emptied.
OpenEmpty ==
  /\ name' = IF name = None THEN NewFile ELSE name
  /\ disk' = [disk EXCEPT ![name'] = Empty]
-----------------------------------------------------------------------------
(* create, delete, fstat: "stat" first, and then the call that may fail or   *)
(* find that another thread was faster.                                      *)

StatToCreate(t) ==
  /\ pc[t] = "create"
  /\ \/ /\ name # None
        /\ Finish(t)
     \/ /\ name = None
        /\ GoTo(t, "creat")
        /\ UNCHANGED threadVars
  /\ UNCHANGED << diskVars, logVars, historyVars >>

Creat(t) ==
  /\ pc[t] = "creat"
  /\ \/ /\ OpenEmpty
        /\ live' = Writing /\ last' = None
     \/ UNCHANGED << diskVars, historyVars >>
  /\ Finish(t)
  /\ UNCHANGED logVars

StatToDelete(t) ==
  /\ pc[t] = "delete"
  /\ \/ /\ name = None
        /\ Finish(t)
     \/ /\ name # None
        /\ GoTo(t, "remove")
        /\ UNCHANGED threadVars
  /\ UNCHANGED << diskVars, logVars, historyVars >>

\* The name goes; who has the file open keeps it.
Remove(t) ==
  /\ pc[t] = "remove"
  /\ name' = None
  /\ live' = {} /\ last' = None
  /\ Finish(t)
  /\ disk' = Reclaimed(disk)
  /\ UNCHANGED logVars

Fstat(t) ==
  /\ pc[t] = "fstat"
  /\ Finish(t)
  /\ UNCHANGED << diskVars, logVars, historyVars >>
-----------------------------------------------------------------------------
(* write: the file is opened with "w" before the data has arrived.          *)

OpenToWrite(t) ==
  /\ pc[t] = "write"
  /\ \/ /\ OpenEmpty
        /\ pfs_file' = [pfs_file EXCEPT ![t] = name']
        /\ live' = Writing \union {number[t]}
        /\ last' = number[t]
        /\ GoTo(t, "receive")
        /\ UNCHANGED << req, number, answer >>
     \/ /\ Finish(t)
        /\ UNCHANGED << diskVars, historyVars >>
  /\ UNCHANGED logVars

\* The blocks whose first byte write w is on, the end of it in half blocks, and the
\* data of the file with it written.
Reached(w) == CASE w.data = "full" -> {w.block, w.block + 1}
                [] w.data = "part" -> {w.block}
                [] w.data = "empty" -> {}
End(w) == CASE w.data = "full" -> 2 * w.block + 3
            [] w.data = "part" -> 2 * w.block + 1
            [] w.data = "empty" -> 0
Overwritten(data, w, n) ==
  [c \in DOMAIN data \union Reached(w) |->
     IF c \notin Reached(w) THEN data[c] ELSE IF c = w.block THEN n ELSE Mixed]

\* Mutant: "new" replaces the data the file had.
AfterWrite_Whole(file, w, n) == [size |-> End(w), data |-> [c \in Reached(w) |-> n]]

\* Mutant: the file ends with the data written last.
AfterWrite_Shrink(file, w, n) == [size |-> End(w), data |-> Overwritten(file.data, w, n)]

\* A write starts at its block, and reaches into the next one when it is full; an empty
\* one leaves the file as it is since it was opened, and no longer.
AfterWrite(file, w, n) ==
  [size |-> Max({file.size, End(w)}), data |-> Overwritten(file.data, w, n)]

\* The client has sent everything and closed the connection.  Nobody is answered.
WriteData(t) ==
  /\ pc[t] = "receive"
  /\ UNCHANGED << name, logVars, historyVars >>
  /\ Finish(t)
  /\ disk' = Reclaimed([disk EXCEPT ![pfs_file[t]] = AfterWrite(@, req[t], number[t])])
-----------------------------------------------------------------------------
(* read.                                                                    *)

OpenToRead(t) ==
  /\ pc[t] = "read"
  /\ \/ /\ name # None
        /\ pfs_file' = [pfs_file EXCEPT ![t] = name]
        /\ GoTo(t, "reading")
        /\ UNCHANGED << req, number, answer >>
     \/ /\ name = None
        /\ Finish(t)
  /\ UNCHANGED << diskVars, logVars, historyVars >>

\* Mutant: fseek is left out.
FirstByte_NoSeek(file, b) ==
  IF 2 <= file.size /\ 0 \in DOMAIN file.data THEN file.data[0] ELSE None

\* fread counts blocks, and the answer is cut at that number of bytes: it is the
\* first byte of a block the file holds to its end, or nothing.
FirstByte(file, b) ==
  IF 2 * b + 2 <= file.size /\ b \in DOMAIN file.data THEN file.data[b] ELSE None

ReadData(t) ==
  /\ pc[t] = "reading"
  /\ answer' = [answer EXCEPT ![t] = FirstByte(disk[pfs_file[t]], req[t].block)]
  /\ GoTo(t, "answer")
  /\ UNCHANGED << diskVars, req, number, pfs_file, logVars, historyVars >>

SendData(t) ==
  /\ pc[t] = "answer"
  /\ UNCHANGED << name, logVars, historyVars >>
  /\ Finish(t)
  /\ disk' = Reclaimed(disk)
-----------------------------------------------------------------------------
Handle(t) == \/ StatToCreate(t) \/ Creat(t) \/ StatToDelete(t) \/ Remove(t) \/ Fstat(t)
             \/ OpenToWrite(t) \/ WriteData(t)
             \/ OpenToRead(t) \/ ReadData(t) \/ SendData(t)

Next == \/ \E t \in Threads, r \in Requests : Accept(t, r)
        \/ \E t \in Threads : Handle(t)

Spec == Init /\ [][Next]_vars
-----------------------------------------------------------------------------
Contents == {disk[name].data[b] : b \in DOMAIN disk[name].data}

\* A file holds only what the last write to open it, or the last create, has let in:
\* its own data and that of the writes which had the file open at that time.
OnlyLiveWrites == name # None => Contents \subseteq live \union {Mixed}

Pending(n) == \E t \in Threads : number[t] = n

\* The write that was the last to open the file is not lost, if it has data: once it is
\* through, its block is there, with its data or with those of a write that overlapped
\* it.  One without data leaves the file, but not its block: no block there is its.
KeepsLastWrite ==
  last # None /\ ~Pending(last) =>
    /\ name # None
    /\ IF log[last].data = "empty" THEN last \notin Contents
       ELSE log[last].block \in DOMAIN disk[name].data

\* A byte a read sends is the first of a write to that block, or the excess byte of
\* a write to the one before.
ReadsItsBlock ==
  \A t \in Threads : pc[t] = "answer" /\ answer[t] \in Numbers => log[answer[t]].block = req[t].block

=============================================================================
