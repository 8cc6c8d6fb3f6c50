-------------------------- MODULE FileServerProofs --------------------------
(***************************************************************************)
(* The safety properties of the file server, for every number of threads,   *)
(* blocks and connections.                                                  *)
(*                                                                          *)
(* The properties are about the file of the name; the invariant is about    *)
(* every file a handler has open, since it may be given the name by nobody, *)
(* but a handler that has it open still writes to it and reads from it.     *)
(* "live" and "last" are tied to the threads that are still receiving: what *)
(* has not been written yet is as much a part of the argument as what has.  *)
(***************************************************************************)
EXTENDS FileServer, FunctionTheorems, FiniteSetTheorems, TLAPS

\* A write whose connection was accepted, and its block.
IsRequest(n, w) == n \in 1 .. Len(log) /\ log[n] = w
IsWrite(n, b) == n \in 1 .. Len(log) /\ log[n].block = b

\* A file holds blocks that lie in it, and each starts with a byte of a write to it,
\* or with the excess byte of a write to the block before.
Holds(file) ==
  /\ file.size \in Nat
  /\ DOMAIN file.data \subseteq Nat
  /\ \A b \in DOMAIN file.data :
       /\ 2 * b < file.size
       /\ file.data[b] = Mixed \/ IsWrite(file.data[b], b)

DiskInv ==
  /\ name \in Inodes \union {None}
  /\ disk = [i \in Inodes |-> disk[i]]
  /\ \A i \in Inodes : Holds(disk[i])

LogInv ==
  /\ requests \in 0 .. MaxRequests
  /\ log \in Seq(Writes)
  /\ Len(log) <= requests

ShapeInv ==
  /\ pc \in [Threads -> {"idle", "create", "creat", "write", "receive", "read", "reading", "answer",
                         "delete", "remove", "fstat"}]
  /\ req \in [Threads -> Requests \union {NoRequest}]
  /\ number \in [Threads -> Numbers \union {None}]
  /\ pfs_file \in [Threads -> Inodes \union {None}]
  /\ answer \in [Threads -> Numbers \union {None, Mixed}]

\* Where a thread is says what it has: a write its number, and from the call of
\* "fopen" on its file; a read the file, and at last the answer.
ThreadFits(t) ==
  /\ pc[t] \in {"write", "receive"} =>
       /\ req[t] \in Writes
       /\ IsRequest(number[t], req[t])
  /\ pc[t] \in {"read", "reading", "answer"} => req[t] \in [op : {"read"}, block : Blocks]
  /\ pc[t] \notin {"write", "receive"} => number[t] = None
  /\ pc[t] \in {"receive", "reading", "answer"} <=> pfs_file[t] # None
  /\ pc[t] = "answer" /\ answer[t] \in Numbers => IsWrite(answer[t], req[t].block)

\* Every connection has its own number.
NumbersInv ==
  \A t, u \in Threads : number[t] # None /\ number[t] = number[u] => t = u

\* A write that is still receiving, with the file of the name open.
Receives(t) == pc[t] = "receive" /\ name # None /\ pfs_file[t] = name

LiveInv ==
  /\ live \subseteq Numbers
  /\ \A t \in Threads : Receives(t) => number[t] \in live
  /\ name # None => \A b \in DOMAIN disk[name].data : disk[name].data[b] \in live \union {Mixed}

\* The last write to open the file has its block in it, or is still receiving; none is
\* its if it has no data.
LastInv ==
  last # None =>
    /\ name # None
    /\ last \in 1 .. Len(log)
    /\ log[last].data = "empty" => \A b \in DOMAIN disk[name].data : disk[name].data[b] # last
    /\ log[last].data # "empty" =>
         \/ log[last].block \in DOMAIN disk[name].data
         \/ \E t \in Threads : Receives(t) /\ number[t] = last

IInv == /\ DiskInv /\ LogInv /\ ShapeInv
        /\ \A t \in Threads : ThreadFits(t)
        /\ NumbersInv /\ LiveInv /\ LastInv
-----------------------------------------------------------------------------
(* The constants, the inodes and the writes.                                 *)

LEMMA Values ==
  /\ None \notin Inodes /\ None \notin Numbers /\ Mixed \notin Numbers /\ None # Mixed
  /\ 1 \in Inodes /\ Cardinality(Threads) \in Nat /\ IsFiniteSet(Inodes)
  /\ Cardinality(Inodes) = Cardinality(Threads) + 1
<1>1. Cardinality(Threads) \in Nat
  BY ThreadsAssumption, FS_CardinalityType
<1>2. /\ IsFiniteSet(1 .. Cardinality(Threads) + 1)
      /\ Cardinality(1 .. Cardinality(Threads) + 1) = Cardinality(Threads) + 1
  BY <1>1, FS_Interval
<1> QED
  BY <1>1, <1>2, BoundAssumption DEF None, Inodes, Numbers, Mixed

\* There is always an inode for a new file: the threads have at most one open each.
LEMMA FreeInode ==
  ASSUME ShapeInv, name = None
  PROVE  NewFile \in Inodes /\ ~InUse(NewFile)
<1>1. SUFFICES \E i \in Inodes : ~InUse(i)
  BY <1>1 DEF NewFile
<1>2. SUFFICES ASSUME \A i \in Inodes : InUse(i)
               PROVE  FALSE
  BY <1>2
<1> DEFINE g == [t \in Threads |-> IF pfs_file[t] = None THEN 1 ELSE pfs_file[t]]
<1>3. g \in [Threads -> Inodes]
  BY Values DEF ShapeInv
<1>4. ASSUME NEW i \in Inodes
      PROVE  \E t \in Threads : g[t] = i
  <2>1. PICK t \in Threads : pfs_file[t] = i
    BY <1>2, Values DEF InUse
  <2>2. g[t] = i
    BY <2>1, Values
  <2> QED
    BY <2>2
<1>5. g \in Surjection(Threads, Inodes)
  BY <1>3, <1>4 DEF Surjection
<1>6. Cardinality(Inodes) <= Cardinality(Threads)
  BY <1>5, FS_Surjection, ThreadsAssumption
<1> QED
  BY <1>6, Values

LEMMA WriteIs ==
  ASSUME NEW w \in Writes
  PROVE  /\ w.block \in Blocks /\ w.block \in Nat
         /\ w.data \in {"empty", "part", "full"}
  BY BlocksAssumption DEF Writes

LEMMA NumberIs ==
  ASSUME LogInv, NEW n, NEW b, IsWrite(n, b)
  PROVE  n \in Numbers /\ n # None /\ n # Mixed /\ b \in Blocks /\ b \in Nat
<1>1. Len(log) \in Nat /\ log \in [1 .. Len(log) -> Writes]
  BY DEF LogInv
<1>2. b \in Blocks /\ b \in Nat
  BY <1>1, WriteIs DEF IsWrite
<1>3. n \in 1 .. Len(log) /\ Len(log) <= MaxRequests
  BY <1>1, BoundAssumption DEF LogInv, IsWrite
<1>4. n \in Numbers
  BY <1>1, <1>3, BoundAssumption DEF Numbers
<1> QED
  BY <1>2, <1>4, Values

LEMMA RequestIs ==
  ASSUME LogInv, NEW n, NEW w \in Writes, IsRequest(n, w)
  PROVE  IsWrite(n, w.block) /\ n \in Numbers /\ n # None /\ n # Mixed
<1>1. IsWrite(n, w.block)
  BY DEF IsRequest, IsWrite
<1> QED
  BY <1>1, NumberIs

LEMMA EmptyHolds == Holds(Empty) /\ Empty.data = [b \in {} |-> Mixed]
  BY DEF Holds, Empty

\* Without a new connection the writes are the same.
LEMMA SameHolds ==
  ASSUME UNCHANGED logVars, NEW file
  PROVE  Holds(file)' <=> Holds(file)
  BY DEF Holds, IsWrite, logVars

\* A new connection numbers its write after all the others.
LEMMA AppendHolds ==
  ASSUME LogInv, NEW b \in Writes, log' = Append(log, b)
  PROVE  /\ log' \in Seq(Writes) /\ Len(log') = Len(log) + 1
         /\ \A n, c : IsWrite(n, c) => IsWrite(n, c)'
         /\ \A n, w : IsRequest(n, w) => IsRequest(n, w)'
         /\ Len(log) + 1 \in 1 .. Len(log') /\ log'[Len(log) + 1] = b
         /\ Len(log) + 1 \notin 1 .. Len(log)
         /\ \A i \in 1 .. Len(log) : i \in 1 .. Len(log') /\ log'[i] = log[i]
<1>1. /\ log' \in Seq(Writes) /\ Len(log') = Len(log) + 1 /\ Len(log) \in Nat
      /\ \A i \in 1 .. Len(log) : log'[i] = log[i]
      /\ log'[Len(log) + 1] = b
  BY DEF LogInv
<1>2. ASSUME NEW n, NEW c, IsWrite(n, c)
      PROVE  IsWrite(n, c)'
  BY <1>1, <1>2 DEF IsWrite
<1>6. ASSUME NEW n, NEW w, IsRequest(n, w)
      PROVE  IsRequest(n, w)'
  BY <1>1, <1>6 DEF IsRequest
<1>3. Len(log) + 1 \in 1 .. Len(log')
  BY <1>1
<1>4. Len(log) + 1 \notin 1 .. Len(log)
  BY <1>1
<1>5. \A i \in 1 .. Len(log) : i \in 1 .. Len(log')
  BY <1>1
<1> QED
  BY <1>1, <1>2, <1>3, <1>4, <1>5, <1>6 DEF IsWrite

LEMMA MaxOfTwo ==
  ASSUME NEW a \in Nat, NEW b \in Nat
  PROVE  Max({a, b}) \in Nat /\ a <= Max({a, b}) /\ b <= Max({a, b})
<1>1. \E x \in {a, b} : \A y \in {a, b} : x >= y
  OBVIOUS
<1>2. Max({a, b}) \in {a, b} /\ \A y \in {a, b} : Max({a, b}) >= y
  BY <1>1 DEF Max
<1> QED
  BY <1>2

\* What a write leaves: its block, Mixed where it reaches into, and what was there; one
\* without data leaves all as it was.
LEMMA AfterWriteHolds ==
  ASSUME LogInv, NEW file, Holds(file), NEW w \in Writes, NEW n, IsRequest(n, w)
  PROVE  LET after == AfterWrite(file, w, n) IN
         /\ Holds(after)
         /\ w.data # "empty" => w.block \in DOMAIN after.data
         /\ DOMAIN file.data \subseteq DOMAIN after.data
         /\ \A c \in DOMAIN after.data :
              \/ after.data[c] = Mixed
              \/ after.data[c] = n /\ w.data # "empty"
              \/ c \in DOMAIN file.data /\ after.data[c] = file.data[c]
<1> DEFINE data == Overwritten(file.data, w, n)
           after == AfterWrite(file, w, n)
           b == w.block
<1>1. after.data = data /\ after.size = Max({file.size, End(w)})
  BY DEF AfterWrite
<1>2. b \in Nat /\ file.size \in Nat /\ DOMAIN file.data \subseteq Nat
  BY WriteIs DEF Holds
<1>3. /\ Reached(w) \subseteq Nat /\ (w.data # "empty" <=> b \in Reached(w))
      /\ w.data = "empty" => Reached(w) = {}
      /\ End(w) \in Nat
      /\ \A c \in Reached(w) : 2 * c < End(w)
  <2>1. CASE w.data = "empty"
    BY <2>1 DEF Reached, End
  <2>2. CASE w.data = "part"
    BY <1>2, <2>2 DEF Reached, End
  <2>3. CASE w.data = "full"
    BY <1>2, <2>3 DEF Reached, End
  <2> QED
    BY <2>1, <2>2, <2>3, WriteIs
<1>4. /\ after.size \in Nat /\ file.size <= after.size /\ End(w) <= after.size
  BY <1>1, <1>2, <1>3, MaxOfTwo
<1>5. DOMAIN data = DOMAIN file.data \union Reached(w)
  BY DEF Overwritten
<1>6. /\ \A c \in DOMAIN data : \/ c = b /\ c \in Reached(w) /\ data[c] = n
                                \/ c \in Reached(w) /\ data[c] = Mixed
                                \/ c \in DOMAIN file.data /\ data[c] = file.data[c]
  BY <1>5 DEF Overwritten
<1>7. \A c \in DOMAIN data : 2 * c < after.size
  <2>1. ASSUME NEW c \in Reached(w)
        PROVE  2 * c < after.size
    BY <2>1, <1>3, <1>4
  <2>2. ASSUME NEW c \in DOMAIN file.data
        PROVE  2 * c < after.size
    BY <2>2, <1>2, <1>4 DEF Holds
  <2> QED
    BY <2>1, <2>2, <1>5
<1>8. \A c \in DOMAIN data : data[c] = Mixed \/ IsWrite(data[c], c)
  BY <1>6, RequestIs DEF Holds
<1> HIDE DEF data, after
<1>9. Holds(after)
  BY <1>1, <1>2, <1>3, <1>4, <1>5, <1>7, <1>8 DEF Holds
<1> QED
  BY <1>1, <1>3, <1>5, <1>6, <1>9 DEF after
-----------------------------------------------------------------------------
(* The threads.                                                              *)

LEMMA GoToIs ==
  ASSUME ShapeInv, NEW t \in Threads, NEW label, GoTo(t, label)
  PROVE  /\ pc'[t] = label
         /\ \A u \in Threads : u # t => pc'[u] = pc[u]
         /\ label \in {"idle", "create", "creat", "write", "receive", "read", "reading", "answer",
                       "delete", "remove", "fstat"} =>
              pc' \in [Threads -> {"idle", "create", "creat", "write", "receive", "read", "reading",
                                   "answer", "delete", "remove", "fstat"}]
  BY DEF ShapeInv, GoTo

\* A thread that ends has nothing, and the others keep what they have.
LEMMA FinishIs ==
  ASSUME ShapeInv, NEW t \in Threads, Finish(t)
  PROVE  /\ ShapeInv'
         /\ pc'[t] = "idle" /\ number'[t] = None /\ pfs_file'[t] = None
         /\ \A u \in Threads : u # t =>
              /\ pc'[u] = pc[u] /\ req'[u] = req[u] /\ number'[u] = number[u]
              /\ pfs_file'[u] = pfs_file[u] /\ answer'[u] = answer[u]
<1>1. /\ pc'[t] = "idle"
      /\ \A u \in Threads : u # t => pc'[u] = pc[u]
      /\ pc' \in [Threads -> {"idle", "create", "creat", "write", "receive", "read", "reading",
                              "answer", "delete", "remove", "fstat"}]
  BY GoToIs DEF Finish
<1>2. req' \in [Threads -> Requests \union {NoRequest}]
  BY DEF Finish, ShapeInv
<1>3. number' \in [Threads -> Numbers \union {None}] /\ pfs_file' \in [Threads -> Inodes \union {None}]
      /\ answer' \in [Threads -> Numbers \union {None, Mixed}]
  BY DEF Finish, ShapeInv
<1>4. ShapeInv'
  BY <1>1, <1>2, <1>3 DEF ShapeInv
<1> QED
  BY <1>1, <1>4 DEF Finish, ShapeInv

\* What a thread has fits where it is as long as it keeps both, and no write is added.
LEMMA SameFits ==
  ASSUME NEW t \in Threads, ThreadFits(t), UNCHANGED logVars,
         pc'[t] = pc[t], req'[t] = req[t], number'[t] = number[t],
         pfs_file'[t] = pfs_file[t], answer'[t] = answer[t]
  PROVE  ThreadFits(t)'
  BY DEF ThreadFits, IsWrite, IsRequest, logVars

LEMMA FinishFits ==
  ASSUME ShapeInv, NumbersInv, \A u \in Threads : ThreadFits(u),
         NEW t \in Threads, Finish(t), UNCHANGED logVars
  PROVE  (\A u \in Threads : ThreadFits(u)') /\ NumbersInv'
<1>1. ThreadFits(t)'
  BY FinishIs DEF ThreadFits
<1>2. ASSUME NEW u \in Threads, u # t
      PROVE  ThreadFits(u)'
  BY <1>2, FinishIs, SameFits
<1>3. NumbersInv'
  BY FinishIs DEF NumbersInv
<1> QED
  BY <1>1, <1>2, <1>3
-----------------------------------------------------------------------------
(* The file.                                                                 *)

LEMMA SameDisk ==
  ASSUME DiskInv, UNCHANGED << diskVars, logVars >>
  PROVE  DiskInv'
  BY SameHolds DEF DiskInv, diskVars, Inodes, None

\* The threads that are receiving stay, with their numbers and their files.
SameReceivers ==
  \A t \in Threads :
    /\ pc'[t] = "receive" <=> pc[t] = "receive"
    /\ pc[t] = "receive" => number'[t] = number[t] /\ pfs_file'[t] = pfs_file[t]

LEMMA SameHistory ==
  ASSUME LiveInv, LastInv, UNCHANGED << diskVars, logVars, historyVars >>, SameReceivers
  PROVE  LiveInv' /\ LastInv'
<1>1. \A t \in Threads : /\ Receives(t)' <=> Receives(t)
                         /\ Receives(t) => number'[t] = number[t]
  BY DEF SameReceivers, Receives, diskVars
<1>2. LiveInv'
  BY <1>1 DEF LiveInv, diskVars, historyVars, Numbers
<1>3. LastInv'
  BY <1>1 DEF LastInv, diskVars, logVars, historyVars
<1> QED
  BY <1>2, <1>3

\* A thread that is not receiving ends, or goes on to another call that is not "recv".
LEMMA FinishReceivers ==
  ASSUME ShapeInv, NEW t \in Threads, pc[t] # "receive", Finish(t)
  PROVE  SameReceivers
  BY FinishIs DEF SameReceivers

LEMMA GoToReceivers ==
  ASSUME ShapeInv, NEW t \in Threads, pc[t] # "receive", NEW label, label # "receive",
         GoTo(t, label),
         \A u \in Threads : u # t => number'[u] = number[u] /\ pfs_file'[u] = pfs_file[u]
  PROVE  SameReceivers
  BY GoToIs DEF SameReceivers

\* What the end of a thread that has not changed the file leaves.
LEMMA QuietFinish ==
  ASSUME IInv, NEW t \in Threads, pc[t] # "receive", Finish(t),
         UNCHANGED << diskVars, logVars, historyVars >>
  PROVE  IInv'
<1>1. DiskInv' /\ LogInv'
  BY SameDisk DEF IInv, LogInv, logVars
<1>2. ShapeInv' /\ (\A u \in Threads : ThreadFits(u)') /\ NumbersInv'
  BY FinishIs, FinishFits DEF IInv
<1>3. LiveInv' /\ LastInv'
  BY FinishReceivers, SameHistory DEF IInv
<1> QED
  BY <1>1, <1>2, <1>3 DEF IInv

\* The same of a thread that goes on and keeps what it has.
LEMMA QuietGoTo ==
  ASSUME IInv, NEW t \in Threads, pc[t] # "receive", NEW label, label # "receive",
         GoTo(t, label), UNCHANGED << diskVars, logVars, historyVars >>,
         ShapeInv', ThreadFits(t)', number' = number,
         \A u \in Threads : u # t =>
           req'[u] = req[u] /\ pfs_file'[u] = pfs_file[u] /\ answer'[u] = answer[u]
  PROVE  IInv'
<1>1. DiskInv' /\ LogInv'
  BY SameDisk DEF IInv, LogInv, logVars
<1>2. ASSUME NEW u \in Threads, u # t
      PROVE  ThreadFits(u)'
  BY <1>2, GoToIs, SameFits DEF IInv
<1>3. NumbersInv'
  BY DEF IInv, NumbersInv
<1>4. LiveInv' /\ LastInv'
  BY GoToReceivers, SameHistory DEF IInv
<1> QED
  BY <1>1, <1>2, <1>3, <1>4 DEF IInv
-----------------------------------------------------------------------------
(* Every action keeps the invariant.                                         *)

LEMMA InitInv == Init => IInv
<1> SUFFICES ASSUME Init PROVE IInv
  OBVIOUS
<1>1. DiskInv
  BY EmptyHolds DEF Init, DiskInv
<1>2. LogInv /\ ShapeInv /\ NumbersInv
  BY BoundAssumption DEF Init, LogInv, ShapeInv, NumbersInv, NoRequest
<1>3. ASSUME NEW t \in Threads
      PROVE  ThreadFits(t)
  BY DEF Init, ThreadFits
<1>4. LiveInv /\ LastInv
  BY DEF Init, LiveInv, LastInv, Receives
<1> QED
  BY <1>1, <1>2, <1>3, <1>4 DEF IInv

LEMMA StatToCreateKeeps ==
  ASSUME IInv, NEW t \in Threads, StatToCreate(t)
  PROVE  IInv'
<1>1. CASE name # None
  BY <1>1, QuietFinish DEF StatToCreate
<1>2. CASE name = None
  <2>1. GoTo(t, "creat") /\ UNCHANGED threadVars
    BY <1>2 DEF StatToCreate
  <2>2. ShapeInv'
    BY <2>1, GoToIs DEF IInv, ShapeInv, threadVars
  <2>3. ThreadFits(t)'
    BY <2>1, GoToIs DEF StatToCreate, IInv, ThreadFits, IsWrite, IsRequest, logVars, threadVars
  <2> QED
    BY <2>1, <2>2, <2>3, QuietGoTo DEF StatToCreate, threadVars
<1> QED
  BY <1>1, <1>2

LEMMA StatToDeleteKeeps ==
  ASSUME IInv, NEW t \in Threads, StatToDelete(t)
  PROVE  IInv'
<1>1. CASE name = None
  BY <1>1, QuietFinish DEF StatToDelete
<1>2. CASE name # None
  <2>1. GoTo(t, "remove") /\ UNCHANGED threadVars
    BY <1>2 DEF StatToDelete
  <2>2. ShapeInv'
    BY <2>1, GoToIs DEF IInv, ShapeInv, threadVars
  <2>3. ThreadFits(t)'
    BY <2>1, GoToIs DEF StatToDelete, IInv, ThreadFits, IsWrite, IsRequest, logVars, threadVars
  <2> QED
    BY <2>1, <2>2, <2>3, QuietGoTo DEF StatToDelete, threadVars
<1> QED
  BY <1>1, <1>2

LEMMA FstatKeeps ==
  ASSUME IInv, NEW t \in Threads, Fstat(t)
  PROVE  IInv'
  BY QuietFinish DEF Fstat

LEMMA OpenToReadKeeps ==
  ASSUME IInv, NEW t \in Threads, OpenToRead(t)
  PROVE  IInv'
<1>1. CASE name = None
  BY <1>1, QuietFinish DEF OpenToRead
<1>2. CASE name # None
  <2>1. /\ GoTo(t, "reading") /\ UNCHANGED << req, number, answer >>
        /\ pfs_file' = [pfs_file EXCEPT ![t] = name]
    BY <1>2 DEF OpenToRead
  <2>2. name \in Inodes
    BY <1>2 DEF IInv, DiskInv
  <2>3. ShapeInv'
    BY <2>1, <2>2, GoToIs DEF IInv, ShapeInv
  <2>4. /\ pc[t] = "read" /\ pc'[t] = "reading" /\ pfs_file'[t] = name
        /\ \A u \in Threads : u # t => pfs_file'[u] = pfs_file[u]
    BY <2>1, GoToIs DEF OpenToRead, IInv, ShapeInv
  <2>5. ThreadFits(t)'
    BY <1>2, <2>1, <2>4 DEF IInv, ThreadFits
  <2> QED
    BY <2>1, <2>3, <2>4, <2>5, QuietGoTo DEF OpenToRead
<1> QED
  BY <1>1, <1>2

LEMMA ReadDataKeeps ==
  ASSUME IInv, NEW t \in Threads, ReadData(t)
  PROVE  IInv'
<1> DEFINE b == req[t].block
           a == FirstByte(disk[pfs_file[t]], b)
<1>1. /\ pc[t] = "reading" /\ pfs_file[t] \in Inodes
      /\ req[t] \in [op : {"read"}, block : Blocks]
  BY DEF ReadData, IInv, ThreadFits, ShapeInv
<1>2. a = None \/ a = Mixed \/ IsWrite(a, b)
  <2>1. Holds(disk[pfs_file[t]])
    BY <1>1 DEF IInv, DiskInv
  <2> QED
    BY <2>1 DEF Holds, FirstByte
<1>3. a \in Numbers \union {None, Mixed} /\ (a \in Numbers => IsWrite(a, b))
  BY <1>2, NumberIs, Values DEF IInv
<1>4. /\ answer' = [answer EXCEPT ![t] = a] /\ GoTo(t, "answer")
      /\ UNCHANGED << diskVars, req, number, pfs_file, logVars, historyVars >>
  BY DEF ReadData
<1> HIDE DEF a
<1>5. ShapeInv'
  BY <1>3, <1>4, GoToIs DEF IInv, ShapeInv
<1>6. /\ pc'[t] = "answer" /\ answer'[t] = a
      /\ \A u \in Threads : u # t => answer'[u] = answer[u]
  BY <1>4, GoToIs DEF IInv, ShapeInv
<1>7. ThreadFits(t)'
  BY <1>1, <1>3, <1>4, <1>6 DEF IInv, ThreadFits, IsWrite, IsRequest, logVars
<1> QED
  BY <1>1, <1>4, <1>5, <1>6, <1>7, QuietGoTo
-----------------------------------------------------------------------------
(* The actions that change the file.                                         *)

\* The files that are left when a handler has closed its own.
LEMMA ReclaimedIs ==
  ASSUME NEW d, disk' = Reclaimed(d), \A i \in Inodes : Holds(d[i]),
         name' \in Inodes \union {None}, UNCHANGED logVars
  PROVE  /\ DiskInv'
         /\ name' # None => disk'[name'] = d[name']
<1>1. /\ disk' = [i \in Inodes |-> disk'[i]]
      /\ \A i \in Inodes : disk'[i] = d[i] \/ disk'[i] = Empty
      /\ name' # None => disk'[name'] = d[name']
  BY DEF Reclaimed
<1>2. \A i \in Inodes : Holds(disk'[i])
  BY <1>1, EmptyHolds
<1>3. \A i \in Inodes : Holds(disk[i])'
  BY <1>2 DEF Holds, IsWrite, logVars
<1> QED
  BY <1>1, <1>3 DEF DiskInv, Inodes, None

LEMMA SendDataKeeps ==
  ASSUME IInv, NEW t \in Threads, SendData(t)
  PROVE  IInv'
<1>1. /\ pc[t] # "receive" /\ Finish(t) /\ disk' = Reclaimed(disk)
      /\ UNCHANGED << name, logVars, historyVars >>
  BY DEF SendData
<1>2. DiskInv' /\ (name # None => disk'[name] = disk[name]) /\ LogInv'
  BY <1>1, ReclaimedIs DEF IInv, DiskInv, LogInv, logVars
<1>3. ShapeInv' /\ (\A u \in Threads : ThreadFits(u)') /\ NumbersInv'
  BY <1>1, FinishIs, FinishFits DEF IInv
<1>4. \A u \in Threads : /\ Receives(u)' <=> Receives(u)
                         /\ Receives(u) => number'[u] = number[u]
  BY <1>1, FinishReceivers DEF IInv, SameReceivers, Receives
<1>5. LiveInv'
  BY <1>1, <1>2, <1>4 DEF IInv, LiveInv, historyVars, Numbers
<1>6. LastInv'
  BY <1>1, <1>2, <1>4 DEF IInv, LastInv, historyVars, logVars
<1> QED
  BY <1>2, <1>3, <1>5, <1>6 DEF IInv

LEMMA RemoveKeeps ==
  ASSUME IInv, NEW t \in Threads, Remove(t)
  PROVE  IInv'
<1>1. /\ Finish(t) /\ disk' = Reclaimed(disk) /\ name' = None
      /\ live' = {} /\ last' = None /\ UNCHANGED logVars
  BY DEF Remove
<1>2. DiskInv' /\ LogInv'
  BY <1>1, ReclaimedIs DEF IInv, DiskInv, LogInv, logVars
<1>3. ShapeInv' /\ (\A u \in Threads : ThreadFits(u)') /\ NumbersInv'
  BY <1>1, FinishIs, FinishFits DEF IInv
<1>4. LiveInv' /\ LastInv'
  BY <1>1 DEF LiveInv, LastInv, Receives, None
<1> QED
  BY <1>2, <1>3, <1>4 DEF IInv

\* A file that is opened to be written has a name and an inode, and nothing in it.  If it
\* is new then no handler has it open.
LEMMA OpenEmptyIs ==
  ASSUME DiskInv, ShapeInv, OpenEmpty, UNCHANGED logVars
  PROVE  /\ name' \in Inodes /\ name' # None
         /\ name # None => name' = name
         /\ name = None => \A t \in Threads : pfs_file[t] # name'
         /\ DiskInv' /\ disk'[name'] = Empty
<1>1. /\ name' \in Inodes /\ name' # None
      /\ name # None => name' = name
      /\ name = None => \A t \in Threads : pfs_file[t] # name'
  <2>1. CASE name = None
    BY <2>1, FreeInode, Values DEF OpenEmpty, InUse
  <2>2. CASE name # None
    BY <2>2 DEF OpenEmpty, DiskInv
  <2> QED
    BY <2>1, <2>2
<1>2. /\ disk' = [i \in Inodes |-> disk'[i]]
      /\ disk'[name'] = Empty
      /\ \A i \in Inodes : disk'[i] = disk[i] \/ disk'[i] = Empty
  <2>1. disk' = [disk EXCEPT ![name'] = Empty]
    BY DEF OpenEmpty
  <2>2. disk = [i \in Inodes |-> disk[i]]
    BY DEF DiskInv
  <2> QED
    BY <1>1, <2>1, <2>2
<1>3. \A i \in Inodes : Holds(disk'[i])
  BY <1>2, EmptyHolds DEF DiskInv
<1>4. \A i \in Inodes : Holds(disk[i])'
  BY <1>3 DEF Holds, IsWrite, logVars
<1> QED
  BY <1>1, <1>2, <1>4 DEF DiskInv, Inodes, None

LEMMA WritingIs ==
  ASSUME IInv
  PROVE  /\ Writing \subseteq Numbers
         /\ \A t \in Threads : Receives(t) => number[t] \in Writing
<1>1. ASSUME NEW t \in Threads, Receives(t)
      PROVE  number[t] \in Numbers
  BY <1>1, RequestIs DEF IInv, ThreadFits, Receives
<1> QED
  BY <1>1 DEF Writing, Receives

LEMMA CreatKeeps ==
  ASSUME IInv, NEW t \in Threads, Creat(t)
  PROVE  IInv'
<1>1. CASE UNCHANGED << diskVars, historyVars >>
  BY <1>1, QuietFinish DEF Creat
<1>2. CASE OpenEmpty /\ live' = Writing /\ last' = None
  <2>1. pc[t] # "receive" /\ Finish(t) /\ UNCHANGED logVars
    BY DEF Creat
  <2>2. /\ DiskInv' /\ LogInv' /\ disk'[name'] = Empty /\ name' # None
        /\ name # None => name' = name
        /\ name = None => \A u \in Threads : pfs_file[u] # name'
    BY <1>2, <2>1, OpenEmptyIs DEF IInv, LogInv, logVars
  <2>3. ShapeInv' /\ (\A u \in Threads : ThreadFits(u)') /\ NumbersInv'
    BY <2>1, FinishIs, FinishFits DEF IInv
  <2>4. \A u \in Threads : Receives(u)' => Receives(u) /\ number'[u] = number[u]
    BY <2>1, <2>2, FinishReceivers DEF IInv, SameReceivers, Receives
  <2>5. LiveInv'
    BY <1>2, <2>2, <2>4, WritingIs, EmptyHolds DEF LiveInv, Numbers
  <2>6. LastInv'
    BY <1>2 DEF LastInv, None
  <2> QED
    BY <2>2, <2>3, <2>5, <2>6 DEF IInv
<1> QED
  BY <1>1, <1>2 DEF Creat

LEMMA OpenToWriteKeeps ==
  ASSUME IInv, NEW t \in Threads, OpenToWrite(t)
  PROVE  IInv'
<1>1. CASE Finish(t) /\ UNCHANGED << diskVars, historyVars >>
  BY <1>1, QuietFinish DEF OpenToWrite
<1>2. CASE /\ OpenEmpty
           /\ pfs_file' = [pfs_file EXCEPT ![t] = name']
           /\ live' = Writing \union {number[t]}
           /\ last' = number[t]
           /\ GoTo(t, "receive")
           /\ UNCHANGED << req, number, answer >>
  <2>1. pc[t] = "write" /\ UNCHANGED logVars
    BY DEF OpenToWrite
  <2>2. /\ DiskInv' /\ LogInv' /\ disk'[name'] = Empty
        /\ name' \in Inodes /\ name' # None
        /\ name # None => name' = name
        /\ name = None => \A u \in Threads : pfs_file[u] # name'
    BY <1>2, <2>1, OpenEmptyIs DEF IInv, LogInv, logVars
  <2>3. ShapeInv'
    BY <1>2, <2>2, GoToIs DEF IInv, ShapeInv
  <2>4. /\ pc'[t] = "receive" /\ pfs_file'[t] = name'
        /\ \A u \in Threads : u # t => pc'[u] = pc[u] /\ pfs_file'[u] = pfs_file[u]
    BY <1>2, GoToIs DEF IInv, ShapeInv
  <2>5. ThreadFits(t)'
    BY <1>2, <2>1, <2>2, <2>4 DEF IInv, ThreadFits, IsWrite, IsRequest, logVars
  <2>6. ASSUME NEW u \in Threads, u # t
        PROVE  ThreadFits(u)'
    BY <1>2, <2>1, <2>4, <2>6, SameFits DEF IInv
  <2>7. NumbersInv'
    BY <1>2 DEF IInv, NumbersInv
  <2>8. /\ number[t] \in Numbers /\ number[t] \in 1 .. Len(log)
    BY <2>1, RequestIs DEF IInv, ThreadFits, IsRequest
  <2>9. \A u \in Threads : Receives(u)' => u = t \/ Receives(u)
    BY <2>2, <2>4 DEF Receives
  <2>10. LiveInv'
    BY <1>2, <2>2, <2>8, <2>9, WritingIs, EmptyHolds DEF LiveInv, Numbers
  <2>11. LastInv'
    <3>1. Receives(t)' /\ number'[t] = last'
      BY <1>2, <2>2, <2>4 DEF Receives
    <3>2. DOMAIN disk'[name'].data = {}
      BY <2>2, EmptyHolds
    <3>3. last' = number[t] /\ log' = log /\ name' # None
      BY <1>2, <2>1, <2>2 DEF logVars
    <3>4. \A b \in DOMAIN disk'[name'].data : disk'[name'].data[b] # last'
      BY <3>2
    <3> QED
      BY <2>8, <3>1, <3>2, <3>3, <3>4 DEF LastInv
  <2> QED
    BY <2>2, <2>3, <2>5, <2>6, <2>7, <2>10, <2>11 DEF IInv
<1> QED
  BY <1>1, <1>2 DEF OpenToWrite

LEMMA WriteDataKeeps ==
  ASSUME IInv, NEW t \in Threads, WriteData(t)
  PROVE  IInv'
<1> DEFINE i == pfs_file[t]
           w == req[t]
           n == number[t]
           after == AfterWrite(disk[i], w, n)
           d == [disk EXCEPT ![i] = after]
<1>1. /\ pc[t] = "receive" /\ Finish(t) /\ UNCHANGED << name, logVars, historyVars >>
      /\ disk' = Reclaimed([disk EXCEPT ![i] = AfterWrite(@, w, n)])
  BY DEF WriteData
<1>2. i \in Inodes /\ w \in Writes /\ IsRequest(n, w)
  BY <1>1 DEF IInv, ThreadFits, ShapeInv
<1>3. Holds(disk[i]) /\ disk = [j \in Inodes |-> disk[j]]
  BY <1>2 DEF IInv, DiskInv
<1>4. /\ Holds(after)
      /\ w.data # "empty" => w.block \in DOMAIN after.data
      /\ DOMAIN disk[i].data \subseteq DOMAIN after.data
      /\ \A c \in DOMAIN after.data :
           \/ after.data[c] = Mixed
           \/ after.data[c] = n /\ w.data # "empty"
           \/ c \in DOMAIN disk[i].data /\ after.data[c] = disk[i].data[c]
  BY <1>2, <1>3, AfterWriteHolds DEF IInv
<1>5. disk' = Reclaimed(d)
  BY <1>1, <1>2, <1>3
<1> HIDE DEF after
<1>6. /\ d[i] = after
      /\ \A j \in Inodes : j # i => d[j] = disk[j]
      /\ \A j \in Inodes : Holds(d[j])
  BY <1>2, <1>3, <1>4 DEF IInv, DiskInv
<1> HIDE DEF d
<1>7. DiskInv' /\ LogInv' /\ (name # None => disk'[name] = d[name] /\ name \in Inodes)
  BY <1>1, <1>5, <1>6, ReclaimedIs DEF IInv, DiskInv, LogInv, logVars
<1>8. ShapeInv' /\ (\A u \in Threads : ThreadFits(u)') /\ NumbersInv'
  BY <1>1, FinishIs, FinishFits DEF IInv
<1>9. \A u \in Threads : u # t =>
        /\ Receives(u)' <=> Receives(u)
        /\ number'[u] = number[u]
  BY <1>1, FinishIs DEF IInv, Receives
<1>10. ~Receives(t)'
  BY <1>1, FinishIs DEF IInv, Receives
<1>11. LiveInv'
  <2>1. \A u \in Threads : Receives(u)' => number'[u] \in live
    BY <1>9, <1>10 DEF IInv, LiveInv
  <2>2. ASSUME name # None, NEW c \in DOMAIN disk'[name].data
        PROVE  disk'[name].data[c] \in live \union {Mixed}
    <3>1. CASE name = i
      <4>1. n \in live
        BY <1>1, <2>2, <3>1 DEF IInv, LiveInv, Receives
      <4> QED
        BY <1>4, <1>6, <1>7, <2>2, <3>1, <4>1 DEF IInv, LiveInv
    <3>2. CASE name # i
      BY <1>6, <1>7, <2>2, <3>2 DEF IInv, LiveInv
    <3> QED
      BY <3>1, <3>2
  <2> QED
    BY <1>1, <2>1, <2>2 DEF IInv, LiveInv, historyVars, Numbers
<1>12. LastInv'
  <2> SUFFICES ASSUME last # None
               PROVE  /\ log[last].data = "empty" =>
                           \A c \in DOMAIN disk'[name].data : disk'[name].data[c] # last
                      /\ log[last].data # "empty" =>
                           \/ log[last].block \in DOMAIN disk'[name].data
                           \/ \E u \in Threads : Receives(u)' /\ number'[u] = last
    BY <1>1 DEF IInv, LastInv, historyVars, logVars
  <2>1. name # None /\ last \in 1 .. Len(log)
    BY DEF IInv, LastInv
  <2>2. DOMAIN disk[name].data \subseteq DOMAIN disk'[name].data
    <3>1. CASE name = i
      BY <1>4, <1>6, <1>7, <2>1, <3>1
    <3>2. CASE name # i
      BY <1>6, <1>7, <2>1, <3>2
    <3> QED
      BY <3>1, <3>2
  <2>3. CASE log[last].data = "empty"
    <3>1. SUFFICES ASSUME NEW c \in DOMAIN disk'[name].data PROVE disk'[name].data[c] # last
      BY <2>3
    <3>2. last # Mixed /\ (n = last => w.data = "empty")
      <4>1. IsWrite(last, log[last].block)
        BY <2>1 DEF IsWrite
      <4> QED
        BY <1>2, <2>3, <4>1, NumberIs DEF IInv, IsRequest
    <3>3. c \in DOMAIN disk[name].data => disk[name].data[c] # last
      BY <2>3 DEF IInv, LastInv
    <3>4. CASE name = i
      BY <1>4, <1>6, <1>7, <2>1, <3>1, <3>2, <3>3, <3>4
    <3>5. CASE name # i
      BY <1>6, <1>7, <2>1, <3>1, <3>3, <3>5
    <3> QED
      BY <3>4, <3>5
  <2>4. CASE log[last].data # "empty" /\ log[last].block \in DOMAIN disk[name].data
    BY <2>2, <2>4
  <2>5. CASE log[last].data # "empty" /\ \E u \in Threads : Receives(u) /\ number[u] = last
    <3>1. PICK u \in Threads : Receives(u) /\ number[u] = last
      BY <2>5
    <3>2. CASE u # t
      BY <1>9, <2>5, <3>1, <3>2
    <3>3. CASE u = t
      <4>1. name = i /\ log[last] = w
        BY <1>2, <3>1, <3>3 DEF Receives, IsRequest
      <4> QED
        BY <1>4, <1>6, <1>7, <2>1, <2>5, <4>1
    <3> QED
      BY <3>2, <3>3
  <2> QED
    BY <2>3, <2>4, <2>5 DEF IInv, LastInv
<1> QED
  BY <1>7, <1>8, <1>11, <1>12 DEF IInv

LEMMA AcceptKeeps ==
  ASSUME IInv, NEW t \in Threads, NEW r \in Requests, Accept(t, r)
  PROVE  IInv'
<1>1. /\ pc[t] = "idle" /\ requests < MaxRequests /\ requests' = requests + 1
      /\ req' = [req EXCEPT ![t] = r] /\ GoTo(t, r.op)
      /\ UNCHANGED << diskVars, pfs_file, answer, historyVars >>
  BY DEF Accept
<1>2. \/ /\ r.op = "write" /\ log' = Append(log, r)
         /\ number' = [number EXCEPT ![t] = Len(log')]
      \/ r.op # "write" /\ UNCHANGED << log, number >>
  BY DEF Accept
<1>3. /\ r.op \in {"write", "read", "create", "delete", "fstat"}
      /\ r.op = "write" => r \in Writes
      /\ r.op = "read" => r \in [op : {"read"}, block : Blocks]
  BY DEF Requests, Writes
<1>4. /\ pc'[t] = r.op /\ req'[t] = r
      /\ pc' \in [Threads -> {"idle", "create", "creat", "write", "receive", "read", "reading",
                              "answer", "delete", "remove", "fstat"}]
      /\ \A u \in Threads : u # t => pc'[u] = pc[u] /\ req'[u] = req[u]
  BY <1>1, <1>3, GoToIs DEF IInv, ShapeInv
<1>5. pfs_file[t] = None /\ number[t] = None
  BY <1>1 DEF IInv, ThreadFits
<1>6. /\ log' \in Seq(Writes) /\ Len(log') \in Nat /\ Len(log') <= Len(log) + 1
      /\ Len(log) <= Len(log')
      /\ \A n, c : IsWrite(n, c) => IsWrite(n, c)'
      /\ \A n, w : IsRequest(n, w) => IsRequest(n, w)'
      /\ \A j \in 1 .. Len(log) : j \in 1 .. Len(log') /\ log'[j] = log[j]
  <2>1. CASE r.op = "write"
    <3>1. r \in Writes /\ log' = Append(log, r)
      BY <1>2, <1>3, <2>1
    <3>2. Len(log) \in Nat
      BY DEF IInv, LogInv
    <3> QED
      BY <3>1, <3>2, AppendHolds DEF IInv
  <2>2. CASE r.op # "write"
    BY <1>2, <2>2 DEF IInv, LogInv, IsWrite, IsRequest
  <2> QED
    BY <2>1, <2>2
<1>7. LogInv'
  BY <1>1, <1>6, BoundAssumption DEF IInv, LogInv
<1>8. /\ number' \in [Threads -> Numbers \union {None}]
      /\ \A u \in Threads : u # t => number'[u] = number[u]
      /\ r.op # "write" => number'[t] = None
      /\ r.op = "write" => IsRequest(number[t], r)' /\ number'[t] = Len(log) + 1
  <2>1. CASE r.op = "write"
    <3>1. r \in Writes /\ log' = Append(log, r)
      BY <1>2, <1>3, <2>1
    <3>2. /\ number' = [number EXCEPT ![t] = Len(log')] /\ Len(log') = Len(log) + 1
          /\ Len(log) + 1 \in 1 .. Len(log') /\ log'[Len(log) + 1] = r
      BY <1>2, <2>1, <3>1, AppendHolds DEF IInv
    <3>3. Len(log') \in Numbers
      BY <1>6, <1>7, <3>2, BoundAssumption DEF LogInv, Numbers, IInv
    <3>4. /\ number' \in [Threads -> Numbers \union {None}] /\ number'[t] = Len(log) + 1
          /\ \A u \in Threads : u # t => number'[u] = number[u]
      BY <3>2, <3>3 DEF IInv, ShapeInv
    <3> QED
      BY <2>1, <3>2, <3>4 DEF IsRequest
  <2>2. CASE r.op # "write"
    BY <1>2, <1>5, <2>2 DEF IInv, ShapeInv
  <2> QED
    BY <2>1, <2>2
<1>9. ShapeInv'
  BY <1>1, <1>4, <1>8 DEF IInv, ShapeInv
<1>10. DiskInv'
  BY <1>1, <1>6 DEF IInv, DiskInv, Holds, diskVars, Inodes, None, Mixed
<1>11. ThreadFits(t)'
  BY <1>1, <1>3, <1>4, <1>5, <1>8 DEF ThreadFits
<1>12. ASSUME NEW u \in Threads, u # t
       PROVE  ThreadFits(u)'
  <2>1. /\ pc'[u] = pc[u] /\ req'[u] = req[u] /\ number'[u] = number[u]
        /\ pfs_file'[u] = pfs_file[u] /\ answer'[u] = answer[u]
    BY <1>1, <1>4, <1>8, <1>12
  <2> QED
    BY <1>6, <2>1 DEF IInv, ThreadFits, Numbers, None
<1>13. NumbersInv'
  <2>1. ASSUME NEW u \in Threads, number[u] # None
        PROVE  number[u] \in 1 .. Len(log)
    BY <2>1 DEF IInv, ThreadFits, IsRequest
  <2>2. Len(log) \in Nat /\ Len(log) + 1 \notin 1 .. Len(log)
    BY DEF IInv, LogInv
  <2>3. ASSUME NEW u \in Threads, NEW v \in Threads, number'[u] # None, number'[u] = number'[v]
        PROVE  u = v
    BY <1>8, <2>1, <2>2, <2>3 DEF IInv, NumbersInv
  <2> QED
    BY <2>3 DEF NumbersInv, None
<1>14. \A u \in Threads : /\ Receives(u)' <=> Receives(u)
                          /\ Receives(u) => number'[u] = number[u]
  BY <1>1, <1>3, <1>4, <1>8 DEF Receives, diskVars
<1>15. LiveInv'
  BY <1>1, <1>14 DEF IInv, LiveInv, diskVars, historyVars, Numbers
<1>16. LastInv'
  BY <1>1, <1>6, <1>14 DEF IInv, LastInv, diskVars, historyVars
<1> QED
  BY <1>7, <1>9, <1>10, <1>11, <1>12, <1>13, <1>15, <1>16 DEF IInv

LEMMA HandleKeeps ==
  ASSUME IInv, NEW t \in Threads, Handle(t)
  PROVE  IInv'
  BY StatToCreateKeeps, CreatKeeps, StatToDeleteKeeps, RemoveKeeps, FstatKeeps, OpenToWriteKeeps,
     WriteDataKeeps, OpenToReadKeeps, ReadDataKeeps, SendDataKeeps DEF Handle

LEMMA StutterKeeps == IInv /\ UNCHANGED vars => IInv'
<1> SUFFICES ASSUME IInv, UNCHANGED vars PROVE IInv'
  OBVIOUS
<1> USE DEF vars, diskVars, threadVars, historyVars
<1>1. UNCHANGED logVars
  OBVIOUS
<1>2. DiskInv' /\ LogInv'
  BY <1>1, SameDisk DEF IInv, LogInv, logVars
<1>3. ShapeInv' /\ NumbersInv'
  BY DEF IInv, ShapeInv, NumbersInv
<1>4. ASSUME NEW t \in Threads
      PROVE  ThreadFits(t)'
  BY <1>1, SameFits DEF IInv
<1>5. LiveInv' /\ LastInv'
  BY <1>1, SameHistory DEF IInv, SameReceivers
<1> QED
  BY <1>2, <1>3, <1>4, <1>5 DEF IInv

\* The invariant: the files, the writes so far and the threads always fit together.
THEOREM Invariant == Spec => []IInv
<1>1. IInv /\ [Next]_vars => IInv'
  BY AcceptKeeps, HandleKeeps, StutterKeeps DEF Next
<1> QED
  BY <1>1, InitInv, PTL DEF Spec

\* Every file ends behind the blocks that are in it, and what the threads, the log and the
\* disk hold is of its kind, for every number of threads and connections.
THEOREM TypeCorrect == Spec => []TypeOK
<1>1. IInv => TypeOK
  <2> SUFFICES ASSUME IInv PROVE TypeOK
    OBVIOUS
  <2>1. ASSUME NEW i \in Inodes
        PROVE  LET data == disk[i].data IN
               /\ disk[i].size \in Nat
               /\ DOMAIN data \subseteq Nat
               /\ \A b \in DOMAIN data : data[b] \in Numbers \union {Mixed} /\ 2 * b < disk[i].size
    <3>1. Holds(disk[i])
      BY DEF IInv, DiskInv
    <3> QED
      BY <3>1, NumberIs DEF IInv, Holds
  <2>2. last \in Numbers \union {None}
    <3>1. CASE last = None
      BY <3>1
    <3>2. CASE last # None
      <4>1. IsWrite(last, log[last].block)
        BY <3>2 DEF IInv, LastInv, IsWrite
      <4> QED
        BY <4>1, NumberIs DEF IInv
    <3> QED
      BY <3>1, <3>2
  <2> QED
    BY <2>1, <2>2 DEF IInv, DiskInv, ShapeInv, LogInv, LiveInv, TypeOK
<1> QED
  BY <1>1, Invariant, PTL

\* Whoever cuts the file ("fopen" with "w", "creat") leaves nothing of what it held: in it
\* is only what the last to cut it, and the writes it overlapped, have put there.
THEOREM HoldsOnlyLive == Spec => []OnlyLiveWrites
<1>1. IInv => OnlyLiveWrites
  BY DEF IInv, LiveInv, OnlyLiveWrites, Contents
<1> QED
  BY <1>1, Invariant, PTL

\* The write that was the last to open the file is not lost once its connection is closed,
\* if it has data, whatever the writes that had the file open before do after it: its block
\* is there.  If it has none, it leaves no block.
THEOREM LastWriteIsKept == Spec => []KeepsLastWrite
<1>1. IInv => KeepsLastWrite
  BY DEF IInv, LastInv, KeepsLastWrite, Pending, Receives, Contents
<1> QED
  BY <1>1, Invariant, PTL

\* A read sends the first byte of a write to the block it was asked for, whatever is
\* written, cut or removed between its calls.
THEOREM ReadsTheBlock == Spec => []ReadsItsBlock
<1>1. IInv => ReadsItsBlock
  BY DEF IInv, ThreadFits, IsWrite, ReadsItsBlock
<1> QED
  BY <1>1, Invariant, PTL
=============================================================================
