--------------------------- MODULE OpenFilesProofs ---------------------------
(***************************************************************************)
(* The open file table, for every number of threads, files, descriptors    *)
(* and calls.  All rests on what pfs_close does to file_desc_mutex: until   *)
(* the first close no entry is ever taken back, and after it no entry is    *)
(* ever given out, for nobody gets the mutex any more.                      *)
(***************************************************************************)
EXTENDS OpenFiles, WellFoundedInduction, TLAPS
-----------------------------------------------------------------------------
(* Sets of numbers.                                                         *)

\* A non-empty set of numbers has a least one.
LEMMA LeastIn ==
  ASSUME NEW S \in SUBSET Nat, S # {}
  PROVE  Min(S) \in S /\ \A y \in S : Min(S) <= y
<1>1. PICK x \in S : \A y \in S : ~(<< y, x >> \in OpToRel(<, Nat))
  BY WFMin, NatLessThanWellFounded
<1>2. \A y \in S : ~(y < x)
  BY <1>1 DEF OpToRel
<1>3. \A y \in S : x =< y
  BY <1>2
<1> QED
  BY <1>3 DEF Min
-----------------------------------------------------------------------------
\* No close has kept the mutex so far.
Usable == file_desc_mutex # Orphan

\* What has never been opened is as it was.
Unused == Usable => \A d \in Descriptors : ~OFDT[d].open => OFDT[d].name = NoFile /\ OFDT[d].tokens = {}

\* The manager knows the files that are open, or knew them before they were deleted.
NamesKnown == \A d \in Descriptors : OFDT[d].open => OFDT[d].name \in known \union deleted

\* w is the stripe width of file f, or was when it was deleted.
WidthOf(w, f) == w # 0 /\ (f \in deleted \/ (f \in known /\ width[f] = w))

HandlesGiven ==
  \A d \in Descriptors : handles[d] # NoFile =>
    /\ OFDT[d].open /\ OFDT[d].name = handles[d]
    /\ WidthOf(OFDT[d].width, handles[d])

RecordsKnown == recorded \subseteq known /\ \A f \in known : width[f] # 0

TableInv == /\ Unused /\ NamesKnown /\ HandlesGiven /\ TokensOfOwnFile
            /\ RecordsKnown /\ LostOnlyBehindDescriptor
-----------------------------------------------------------------------------
(* The threads.                                                             *)

\* Thread t goes on with a descriptor, and has read the name of its file.
UsesTable(t) == \/ pc[t] \in {"fetch", "need", "granted", "io", "close"}
                \/ pc[t] = "ask" /\ call[t].op \in {"transfer", "fstat"}
KnowsName(t) == pc[t] \in {"need", "granted", "io"} \/ (pc[t] = "ask" /\ call[t].op = "transfer")

\* Its descriptor is open under that name, whatever other threads do; a grant on its way
\* is recorded, or the file has been deleted or the grant overtaken since.
UsesOpen(t) ==
  /\ UsesTable(t) => OFDT[call[t].fd].open
  /\ KnowsName(t) => file_name[t] = OFDT[call[t].fd].name
  /\ pc[t] = "close" => handles[call[t].fd] = NoFile
  /\ pc[t] = "granted" => file_name[t] \in recorded \union deleted \union overtaken

ThreadFits(t) ==
  /\ pc[t] \in {"opening", "io"} => file_desc_mutex = t
  /\ UsesTable(t) => call[t] \in TableCalls
  /\ pc[t] = "ask" /\ call[t] \in FileCalls => file_name[t] = call[t].file
  /\ Usable => UsesOpen(t)
  /\ ~crashed /\ pc[t] \in {"insert", "opening"} => file_name[t] \in Files /\ WidthOf(fr[t], file_name[t])

CoreInv == TypeOK /\ TableInv /\ \A t \in Threads : ThreadFits(t)

\* The revoker searches for a file.
Searching == rpc = "search" => revoked \in Files

IInv == CoreInv /\ Searching
-----------------------------------------------------------------------------
(* The table.                                                               *)

LEMMA SlotIs ==
  ASSUME TypeOK, NEW i \in Descriptors
  PROVE  Slot(i) \in Descriptors /\ AfterSlot(i) \in Descriptors
<1>1. MAX_NUM_FILES \in Nat \ {0} /\ next_file_descriptor + i \in Nat /\ i + 1 \in Nat
  BY SizesAssumption DEF TypeOK, Descriptors
<1>2. \A n \in Nat : n % MAX_NUM_FILES \in 0 .. MAX_NUM_FILES - 1
  BY <1>1
<1> QED
  BY <1>1, <1>2 DEF Slot, AfterSlot, Descriptors

\* The search finds an entry that is free.
LEMMA SearchFinds ==
  ASSUME TypeOK, FreeSlots # {}
  PROVE  Slot(Min(FreeSlots)) \in Descriptors /\ ~OFDT[Slot(Min(FreeSlots))].open
<1>1. FreeSlots \in SUBSET Nat
  BY DEF FreeSlots, Descriptors
<1>2. Min(FreeSlots) \in FreeSlots
  BY <1>1, LeastIn
<1>3. \A i \in FreeSlots : i \in Descriptors /\ ~OFDT[Slot(i)].open
  BY DEF FreeSlots
<1> QED
  BY <1>2, <1>3, SlotIs

\* The revoker finds the last entry with the name.
LEMMA LastNamed ==
  ASSUME NEW f, NEW d \in Named(f)
  PROVE  Max(Named(f)) \in Named(f) /\ \A e \in Named(f) : e <= Max(Named(f))
<1> DEFINE Rest == {MAX_NUM_FILES - e : e \in Named(f)}
<1>1. MAX_NUM_FILES \in Nat /\ \A e \in Named(f) : e \in Nat /\ e < MAX_NUM_FILES
  BY SizesAssumption DEF Named, Descriptors
<1>2. Rest \in SUBSET Nat /\ Rest # {}
  BY <1>1
<1>3. Min(Rest) \in Rest /\ \A y \in Rest : Min(Rest) <= y
  BY <1>2, LeastIn
<1>4. PICK m \in Named(f) : Min(Rest) = MAX_NUM_FILES - m
  BY <1>3
<1>5. \A e \in Named(f) : e <= m
  <2> SUFFICES ASSUME NEW e \in Named(f) PROVE e <= m
    OBVIOUS
  <2>1. MAX_NUM_FILES - e \in Rest
    OBVIOUS
  <2>2. MAX_NUM_FILES - m <= MAX_NUM_FILES - e
    BY <1>3, <1>4, <2>1
  <2> QED
    BY <1>1, <2>2
<1> QED
  BY <1>1, <1>5 DEF Max

\* What the type invariant says of an entry.
LEMMA EntryIs ==
  ASSUME TypeOK, NEW d \in Descriptors
  PROVE  /\ OFDT[d] \in [open : BOOLEAN, name : FileNames, width : Nat, tokens : SUBSET FileNames]
         /\ OFDT[d].open \in BOOLEAN /\ OFDT[d].name \in FileNames /\ OFDT[d].width \in Nat
         /\ OFDT[d].tokens \subseteq FileNames
<1>1. OFDT[d] \in [open : BOOLEAN, name : FileNames, width : Nat, tokens : SUBSET FileNames]
  BY DEF TypeOK
<1> QED
  BY <1>1

LEMMA CallIs ==
  /\ \A c \in TableCalls : c.fd \in Descriptors /\ c.op \in {"transfer", "fstat", "close"}
  /\ \A c \in FileCalls : c.file \in Files /\ c.op \in {"open", "delete", "create"}
  /\ \A c \in FileCalls : c.op = "create" => c.width \in Nat \ {0}
  /\ NoCall.op = "none"
  BY SizesAssumption DEF TableCalls, FileCalls, NoCall
-----------------------------------------------------------------------------
(* What a step leaves as it is.                                             *)

Labels == {"idle", "ask", "insert", "opening", "fetch", "need", "granted", "io", "parse", "close"}

LEMMA Went ==
  ASSUME TypeOK, NEW t \in Threads, NEW l \in Labels, GoTo(t, l)
  PROVE  /\ pc' \in [Threads -> Labels] /\ pc'[t] = l
         /\ \A u \in Threads : u # t => pc'[u] = pc[u]
  BY DEF TypeOK, GoTo, Labels

\* Thread u is where it was, with what it had.
Same(u) == pc'[u] = pc[u] /\ call'[u] = call[u] /\ file_name'[u] = file_name[u] /\ fr'[u] = fr[u]

LEMMA Returned ==
  ASSUME TypeOK, NEW t \in Threads, Return(t)
  PROVE  /\ pc' \in [Threads -> Labels] /\ pc'[t] = "idle"
         /\ call' \in [Threads -> FileCalls \union TableCalls \union {NoCall}]
         /\ file_name' \in [Threads -> FileNames]
         /\ fr' \in [Threads -> Nat]
         /\ had' \in [Threads -> BOOLEAN]
         /\ \A u \in Threads : u # t => Same(u)
<1>1. GoTo(t, "idle")
  BY DEF Return
<1>2. pc' \in [Threads -> Labels] /\ pc'[t] = "idle" /\ \A u \in Threads : u # t => pc'[u] = pc[u]
  BY <1>1, Went DEF Labels
<1>3. /\ call' \in [Threads -> FileCalls \union TableCalls \union {NoCall}]
      /\ file_name' \in [Threads -> FileNames]
      /\ fr' \in [Threads -> Nat]
      /\ had' \in [Threads -> BOOLEAN]
      /\ \A u \in Threads : u # t => call'[u] = call[u] /\ file_name'[u] = file_name[u] /\ fr'[u] = fr[u]
  BY DEF Return, TypeOK, FileNames
<1> QED
  BY <1>2, <1>3 DEF Same

\* What a step leaves to the threads it is not about.
Leaves ==
  /\ Usable' => \A d \in Descriptors : OFDT[d].open =>
                  /\ OFDT'[d].open /\ OFDT'[d].name = OFDT[d].name
                  /\ handles[d] = NoFile => handles'[d] = NoFile
  /\ \A u \in Threads : pc[u] = "granted" /\ file_name[u] \in recorded \union deleted \union overtaken =>
                          file_name[u] \in recorded' \union deleted' \union overtaken'
  /\ crashed => crashed'
  /\ \A w, f : WidthOf(w, f) => WidthOf(w, f)'

LEMMA OthersFit ==
  ASSUME Leaves, NEW u \in Threads, ThreadFits(u), Same(u),
         file_desc_mutex' = file_desc_mutex \/ (file_desc_mutex # u /\ file_desc_mutex # Orphan)
  PROVE  ThreadFits(u)'
<1>1. Usable' => Usable
  BY DEF Usable
<1>2. /\ UsesTable(u)' <=> UsesTable(u)
      /\ KnowsName(u)' <=> KnowsName(u)
  BY DEF UsesTable, KnowsName, Same
<1>3. /\ UsesTable(u) => call[u] \in TableCalls /\ call[u].fd \in Descriptors
      /\ KnowsName(u) => UsesTable(u)
      /\ pc[u] = "close" => UsesTable(u)
  BY CallIs DEF ThreadFits, UsesTable, KnowsName
<1>4. Usable' => UsesOpen(u)'
  <2> SUFFICES ASSUME Usable', Usable PROVE UsesOpen(u)'
    BY <1>1
  <2>1. UsesOpen(u)
    BY DEF ThreadFits
  <2>2. /\ UsesTable(u) => OFDT'[call[u].fd].open /\ OFDT'[call[u].fd].name = OFDT[call[u].fd].name
        /\ pc[u] = "close" => handles'[call[u].fd] = NoFile
    BY <1>3, <2>1 DEF UsesOpen, Leaves
  <2>3. pc[u] = "granted" => file_name[u] \in recorded' \union deleted' \union overtaken'
    BY <2>1 DEF UsesOpen, Leaves
  <2> QED
    BY <1>2, <1>3, <2>1, <2>2, <2>3 DEF UsesOpen, Same
<1>5. ~crashed' /\ pc[u] \in {"insert", "opening"} => file_name[u] \in Files /\ WidthOf(fr[u], file_name[u])'
  <2> SUFFICES ASSUME ~crashed', pc[u] \in {"insert", "opening"}
               PROVE  file_name[u] \in Files /\ WidthOf(fr[u], file_name[u])'
    OBVIOUS
  <2>1. file_name[u] \in Files /\ WidthOf(fr[u], file_name[u])
    BY DEF ThreadFits, Leaves
  <2> QED
    BY <2>1 DEF Leaves, Same, WidthOf
<1>6. pc[u] \in {"opening", "io"} => file_desc_mutex' = u
  BY DEF ThreadFits
<1> QED
  BY <1>2, <1>3, <1>4, <1>5, <1>6 DEF ThreadFits, Same

\* A thread that has returned.
LEMMA IdleFits ==
  ASSUME NEW t \in Threads, pc'[t] \in {"idle", "parse"}
  PROVE  ThreadFits(t)'
BY DEF ThreadFits, UsesTable, KnowsName, UsesOpen

\* All threads fit when the one that moves does.
LEMMA ThreadsFit ==
  ASSUME Leaves, \A u \in Threads : ThreadFits(u), NEW t \in Threads, ThreadFits(t)',
         \A u \in Threads : u # t => Same(u),
         file_desc_mutex' = file_desc_mutex \/ file_desc_mutex \in {Free, t}
  PROVE  \A u \in Threads : ThreadFits(u)'
<1> SUFFICES ASSUME NEW u \in Threads, u # t PROVE ThreadFits(u)'
  OBVIOUS
<1>1. file_desc_mutex' = file_desc_mutex \/ (file_desc_mutex # u /\ file_desc_mutex # Orphan)
  BY ThreadsAssumption
<1> QED
  BY <1>1, OthersFit

\* Steps that leave the table, and what the manager knows, as they are.
TableSame ==
  /\ UNCHANGED << OFDT, known, width, recorded, deleted, overtaken, unnamed >>
  /\ Usable' => Usable
  /\ crashed => crashed'
  /\ \A d \in Descriptors : handles'[d] = handles[d] \/ handles'[d] = NoFile

LEMMA TableSameKeeps ==
  ASSUME TableInv, TableSame
  PROVE  TableInv' /\ Leaves
<1>1. \A w, f : WidthOf(w, f)' <=> WidthOf(w, f)
  BY DEF TableSame, WidthOf
<1>2. Unused' /\ NamesKnown' /\ TokensOfOwnFile' /\ RecordsKnown'
  BY DEF TableInv, TableSame, Unused, NamesKnown, TokensOfOwnFile, RecordsKnown
<1>3. HandlesGiven'
  <2> SUFFICES ASSUME NEW d \in Descriptors, handles'[d] # NoFile
               PROVE  OFDT'[d].open /\ OFDT'[d].name = handles'[d] /\ WidthOf(OFDT[d].width, handles[d])'
    BY DEF HandlesGiven
  <2>1. handles'[d] = handles[d]
    BY DEF TableSame
  <2>2. OFDT[d].open /\ OFDT[d].name = handles[d] /\ WidthOf(OFDT[d].width, handles[d])
    BY <2>1 DEF TableInv, HandlesGiven
  <2> QED
    BY <2>1, <2>2 DEF TableSame, WidthOf
<1>4. LostOnlyBehindDescriptor'
  BY DEF TableInv, TableSame, LostOnlyBehindDescriptor, Named
<1>5. Leaves
  BY <1>1 DEF TableSame, Leaves
<1> QED
  BY <1>2, <1>3, <1>4, <1>5 DEF TableInv
-----------------------------------------------------------------------------
(* Every step keeps CoreInv.                                                *)

LEMMA CallKeeps ==
  ASSUME CoreInv, NEW t \in Threads, NEW c \in FileCalls \union TableCalls, Call(t, c)
  PROVE  CoreInv'
<1>1. /\ pc[t] = "idle" /\ calls < MaxCalls /\ calls' = calls + 1 /\ call' = [call EXCEPT ![t] = c]
      /\ UNCHANGED << next_file_descriptor, OFDT, file_desc_mutex, fr, had, rpc, revoked, named, known, width, recorded,
                      serving, cached, revokes, crashed, deleted, overtaken, unnamed >>
  BY DEF Call, At, tableVars, revokeVars, managerVars, historyVars
<1>2. TypeOK /\ TableInv /\ \A u \in Threads : ThreadFits(u)
  BY DEF CoreInv
<1>3. call' \in [Threads -> FileCalls \union TableCalls \union {NoCall}] /\ call'[t] = c
      /\ \A u \in Threads : u # t => call'[u] = call[u]
  BY <1>1, <1>2 DEF TypeOK
<1>4. calls' \in 0 .. MaxCalls
  BY <1>1, <1>2, SizesAssumption DEF TypeOK
<1>5. CASE /\ c \in FileCalls /\ GoTo(t, "ask")
           /\ file_name' = [file_name EXCEPT ![t] = c.file] /\ UNCHANGED handles
  <2>1. pc' \in [Threads -> Labels] /\ pc'[t] = "ask" /\ \A u \in Threads : u # t => pc'[u] = pc[u]
    BY <1>2, <1>5, Went DEF Labels
  <2>2. file_name' \in [Threads -> FileNames] /\ file_name'[t] = c.file
        /\ \A u \in Threads : u # t => file_name'[u] = file_name[u]
    BY <1>2, <1>5, CallIs DEF TypeOK, FileNames
  <2>3. TypeOK'
    BY <1>1, <1>2, <1>3, <1>4, <1>5, <2>1, <2>2 DEF TypeOK, Labels
  <2>4. TableInv' /\ Leaves
    BY <1>1, <1>2, <1>5, TableSameKeeps DEF TableSame, Usable
  <2>5. ThreadFits(t)'
    BY <1>3, <1>5, <2>1, <2>2, CallIs DEF ThreadFits, UsesTable, KnowsName, UsesOpen
  <2>6. \A u \in Threads : ThreadFits(u)'
    BY <1>1, <1>2, <1>3, <2>1, <2>2, <2>4, <2>5, ThreadsFit DEF Same
  <2> QED
    BY <2>3, <2>4, <2>6 DEF CoreInv
<1>6. CASE /\ c \in TableCalls /\ handles[c.fd] # NoFile
           /\ GoTo(t, IF c.op = "close" THEN "close" ELSE "fetch")
           /\ handles' = IF c.op = "close" THEN [handles EXCEPT ![c.fd] = NoFile] ELSE handles
           /\ UNCHANGED file_name
  <2>1. /\ pc' \in [Threads -> Labels] /\ pc'[t] = (IF c.op = "close" THEN "close" ELSE "fetch")
        /\ \A u \in Threads : u # t => pc'[u] = pc[u]
    BY <1>2, <1>6, Went DEF Labels
  <2>2. /\ handles' \in [Descriptors -> FileNames]
        /\ \A d \in Descriptors : handles'[d] = handles[d] \/ handles'[d] = NoFile
        /\ c.op = "close" => handles'[c.fd] = NoFile
    BY <1>2, <1>6, CallIs DEF TypeOK, FileNames
  <2>3. TypeOK'
    BY <1>1, <1>2, <1>3, <1>4, <1>6, <2>1, <2>2 DEF TypeOK, Labels
  <2>4. TableInv' /\ Leaves
    BY <1>1, <1>2, <2>2, TableSameKeeps DEF TableSame, Usable
  <2>5. OFDT[c.fd].open
    BY <1>2, <1>6, CallIs DEF TableInv, HandlesGiven
  <2>6. ThreadFits(t)'
    <3>1. UsesOpen(t)'
      BY <1>1, <1>3, <2>1, <2>2, <2>5 DEF UsesOpen, KnowsName
    <3> QED
      BY <1>3, <1>6, <2>1, <3>1, CallIs DEF ThreadFits
  <2>7. \A u \in Threads : ThreadFits(u)'
    BY <1>1, <1>2, <1>3, <1>6, <2>1, <2>4, <2>6, ThreadsFit DEF Same
  <2> QED
    BY <2>3, <2>4, <2>7 DEF CoreInv
<1> QED
  BY <1>5, <1>6 DEF Call

\* The process ends, or a revocation begins.
LEMMA EndKeeps ==
  ASSUME CoreInv, (\E t \in Threads : ExitOnSocketError(t) \/ RaceInTable(t)) \/ (\E f \in Files : Revoke(f))
               \/ UNCHANGED vars
  PROVE  CoreInv'
<1>1. /\ UNCHANGED << next_file_descriptor, OFDT, file_desc_mutex, pc, call, file_name, fr, had, known, width,
                      recorded, serving, cached, handles, calls, deleted, overtaken, unnamed >>
      /\ crashed' \in BOOLEAN /\ (crashed => crashed')
  BY DEF CoreInv, TypeOK, ExitOnSocketError, RaceInTable, Revoke, At, vars, tableVars, threadVars, revokeVars, managerVars,
         boundVars, historyVars
<1>2. rpc' \in {"idle", "search"} /\ revoked' \in FileNames /\ named' \in BOOLEAN /\ revokes' \in 0 .. MaxRevokes
  BY SizesAssumption DEF CoreInv, TypeOK, ExitOnSocketError, RaceInTable, Revoke, vars, revokeVars, boundVars, FileNames
<1>3. TypeOK'
  BY <1>1, <1>2 DEF CoreInv, TypeOK
<1>4. TableInv' /\ Leaves
  BY <1>1, TableSameKeeps DEF CoreInv, TableSame, Usable
<1>5. \A u \in Threads : ThreadFits(u)'
  BY <1>1, <1>4, OthersFit DEF CoreInv, Same
<1> QED
  BY <1>3, <1>4, <1>5 DEF CoreInv

\* Steps of the manager, which change what it knows and records.
ManagerStep ==
  /\ UNCHANGED << OFDT, handles, file_desc_mutex, overtaken, unnamed >>
  /\ crashed => crashed'
  /\ \A f : f \in known \union deleted => f \in known' \union deleted'
  /\ \A f : f \in recorded \union deleted => f \in recorded' \union deleted'
  /\ \A w, f : WidthOf(w, f) => WidthOf(w, f)'
  /\ RecordsKnown'

LEMMA ManagerStepKeeps ==
  ASSUME TableInv, ManagerStep
  PROVE  TableInv' /\ Leaves
<1>1. Unused' /\ NamesKnown' /\ TokensOfOwnFile'
  BY DEF TableInv, ManagerStep, Unused, NamesKnown, TokensOfOwnFile, Usable
<1>2. HandlesGiven'
  <2> SUFFICES ASSUME NEW d \in Descriptors, handles[d] # NoFile
               PROVE  OFDT[d].open /\ OFDT[d].name = handles[d] /\ WidthOf(OFDT[d].width, handles[d])'
    BY DEF HandlesGiven, ManagerStep
  <2>1. OFDT[d].open /\ OFDT[d].name = handles[d] /\ WidthOf(OFDT[d].width, handles[d])
    BY DEF TableInv, HandlesGiven
  <2> QED
    BY <2>1 DEF ManagerStep, WidthOf
<1>3. LostOnlyBehindDescriptor'
  <2> SUFFICES ASSUME NEW d \in Descriptors,
                      NEW f \in OFDT[d].tokens \ (recorded' \union deleted' \union overtaken' \union unnamed'), OFDT[d].open
               PROVE  \E e \in Named(f) : e > d
    BY DEF LostOnlyBehindDescriptor, ManagerStep, Named
  <2>1. f \notin recorded \union deleted \union overtaken \union unnamed
    BY DEF ManagerStep
  <2> QED
    BY <2>1 DEF TableInv, LostOnlyBehindDescriptor
<1>4. Leaves
  BY DEF ManagerStep, Leaves
<1> QED
  BY <1>1, <1>2, <1>3, <1>4 DEF TableInv, ManagerStep

LEMMA CreateKeeps ==
  ASSUME CoreInv, NEW t \in Threads, Create(t)
  PROVE  CoreInv'
<1>1. /\ call[t].op = "create" /\ Return(t)
      /\ UNCHANGED << next_file_descriptor, OFDT, file_desc_mutex, rpc, revoked, named, recorded, serving, cached, handles,
                      calls, revokes, crashed, deleted, overtaken, unnamed >>
  BY DEF Create, Asks, tableVars, revokeVars, boundVars, historyVars
<1>2. TypeOK /\ TableInv /\ \A u \in Threads : ThreadFits(u)
  BY DEF CoreInv
<1>3. call[t].file \in Files /\ call[t].width \in Nat \ {0}
  <2>1. call[t] \in FileCalls
    BY <1>1, <1>2, CallIs DEF TypeOK
  <2> QED
    BY <1>1, <2>1, CallIs
<1>4. /\ known' \subseteq Files /\ width' \in [Files -> Nat] /\ known \subseteq known'
      /\ \A f \in known : width'[f] = width[f]
      /\ \A f \in known' : width'[f] # 0
  BY <1>2, <1>3 DEF Create, TypeOK, TableInv, RecordsKnown
<1>5. ManagerStep
  <2>1. \A w, f : WidthOf(w, f) => WidthOf(w, f)'
    BY <1>1, <1>4 DEF WidthOf
  <2>2. RecordsKnown'
    BY <1>1, <1>2, <1>4 DEF TableInv, RecordsKnown
  <2> QED
    BY <1>1, <1>4, <2>1, <2>2 DEF ManagerStep
<1>6. TypeOK'
  BY <1>1, <1>2, <1>4, Returned DEF TypeOK, Labels
<1>7. \A u \in Threads : ThreadFits(u)'
  BY <1>1, <1>2, <1>5, Returned, IdleFits, ThreadsFit, ManagerStepKeeps
<1> QED
  BY <1>2, <1>5, <1>6, <1>7, ManagerStepKeeps DEF CoreInv

LEMMA DeleteKeeps ==
  ASSUME CoreInv, NEW t \in Threads, Delete(t)
  PROVE  CoreInv'
<1>1. /\ call[t].op = "delete" /\ Return(t)
      /\ serving' = (call[t].file \in known)
      /\ known' = known \ {call[t].file} /\ recorded' = recorded \ {call[t].file}
      /\ width' = [width EXCEPT ![call[t].file] = 0]
      /\ deleted' = IF call[t].file \in known THEN deleted \union {call[t].file} ELSE deleted
      /\ UNCHANGED << next_file_descriptor, OFDT, file_desc_mutex, rpc, revoked, named, cached, handles,
                      calls, revokes, crashed, overtaken, unnamed >>
  BY DEF Delete, Asks, tableVars, revokeVars, boundVars
<1>2. TypeOK /\ TableInv /\ \A u \in Threads : ThreadFits(u)
  BY DEF CoreInv
<1>3. call[t].file \in Files
  <2>1. call[t] \in FileCalls
    BY <1>1, <1>2, CallIs DEF TypeOK
  <2> QED
    BY <2>1, CallIs
<1>4. /\ width' \in [Files -> Nat] /\ deleted' \subseteq Files
      /\ \A f \in Files : f # call[t].file => width'[f] = width[f]
  BY <1>1, <1>2, <1>3 DEF TypeOK
<1>5. recorded \subseteq known /\ known \subseteq Files
  BY <1>2 DEF TableInv, RecordsKnown, TypeOK
<1>6. ManagerStep
  <2>1. \A w, f : WidthOf(w, f) => WidthOf(w, f)'
    BY <1>1, <1>4, <1>5 DEF WidthOf
  <2>2. RecordsKnown'
    BY <1>1, <1>2, <1>4, <1>5 DEF TableInv, RecordsKnown
  <2> QED
    BY <1>1, <1>5, <2>1, <2>2 DEF ManagerStep
<1>7. TypeOK'
  BY <1>1, <1>2, <1>4, Returned DEF TypeOK, Labels
<1>8. \A u \in Threads : ThreadFits(u)'
  BY <1>1, <1>2, <1>6, Returned, IdleFits, ThreadsFit, ManagerStepKeeps
<1> QED
  BY <1>2, <1>6, <1>7, <1>8, ManagerStepKeeps DEF CoreInv

LEMMA FstatKeeps ==
  ASSUME CoreInv, NEW t \in Threads, Fstat(t) \/ ParseFstat(t)
  PROVE  CoreInv'
<1>1. UNCHANGED << next_file_descriptor, OFDT, file_desc_mutex, rpc, revoked, named, known, width, recorded, cached, handles,
                   calls, revokes, crashed, deleted, overtaken, unnamed >>
  BY DEF Fstat, ParseFstat, tableVars, revokeVars, managerVars, boundVars, historyVars
<1>2. TypeOK /\ TableInv /\ \A u \in Threads : ThreadFits(u)
  BY DEF CoreInv
<1>s. serving' \in BOOLEAN
  <2>1. serving' = serving \/ serving' = (file_name[t] \in known)
    BY DEF Fstat, ParseFstat, managerVars
  <2>2. CASE serving' = serving
    BY <1>2, <2>2 DEF TypeOK
  <2>3. CASE serving' = (file_name[t] \in known)
    BY <2>3
  <2> QED
    BY <2>1, <2>2, <2>3
<1>3. /\ pc' \in [Threads -> Labels] /\ pc'[t] \in {"idle", "parse"}
      /\ call' \in [Threads -> FileCalls \union TableCalls \union {NoCall}]
      /\ file_name' \in [Threads -> FileNames] /\ fr' \in [Threads -> Nat] /\ had' \in [Threads -> BOOLEAN]
      /\ \A u \in Threads : u # t => Same(u)
  <2>1. CASE Return(t)
    BY <1>2, <2>1, Returned
  <2>2. CASE GoTo(t, "parse") /\ UNCHANGED threadVars
    <3>1. pc' \in [Threads -> Labels] /\ pc'[t] = "parse" /\ \A u \in Threads : u # t => pc'[u] = pc[u]
      BY <1>2, <2>2, Went DEF Labels
    <3> QED
      BY <1>2, <2>2, <3>1 DEF TypeOK, threadVars, Same
  <2> QED
    BY <2>1, <2>2 DEF Fstat, ParseFstat
<1>4. TypeOK'
  BY <1>1, <1>2, <1>s, <1>3 DEF TypeOK, Labels
<1>5. TableInv' /\ Leaves
  BY <1>1, <1>2, TableSameKeeps DEF TableSame, Usable
<1>6. \A u \in Threads : ThreadFits(u)'
  BY <1>1, <1>2, <1>3, <1>5, IdleFits, ThreadsFit
<1> QED
  BY <1>4, <1>5, <1>6 DEF CoreInv

LEMMA OpenKeeps ==
  ASSUME CoreInv, NEW t \in Threads, Open(t)
  PROVE  CoreInv'
<1>1. /\ pc[t] = "ask" /\ call[t].op = "open" /\ ~crashed /\ GoTo(t, "insert")
      /\ fr' = [fr EXCEPT ![t] = width[call[t].file]]
      /\ crashed' = (call[t].file \notin known)
      /\ UNCHANGED << next_file_descriptor, OFDT, file_desc_mutex, call, file_name, had, rpc, revoked, named, known, width,
                      recorded, serving, cached, handles, calls, revokes, deleted, overtaken, unnamed >>
  BY DEF Open, Asks, At, tableVars, revokeVars, managerVars, boundVars, historyVars
<1>2. TypeOK /\ TableInv /\ \A u \in Threads : ThreadFits(u)
  BY DEF CoreInv
<1>3. pc' \in [Threads -> Labels] /\ pc'[t] = "insert" /\ \A u \in Threads : u # t => pc'[u] = pc[u]
  BY <1>1, <1>2, Went DEF Labels
<1>4. call[t].file \in Files /\ file_name[t] = call[t].file
  <2>1. call[t] \in FileCalls
    BY <1>1, <1>2, CallIs DEF TypeOK
  <2> QED
    BY <1>1, <1>2, <2>1, CallIs DEF ThreadFits
<1>5. /\ fr' \in [Threads -> Nat] /\ fr'[t] = width[call[t].file]
      /\ \A u \in Threads : u # t => fr'[u] = fr[u]
  BY <1>1, <1>2, <1>4 DEF TypeOK
<1>6. TypeOK'
  BY <1>1, <1>2, <1>3, <1>5 DEF TypeOK, Labels
<1>7. TableInv' /\ Leaves
  BY <1>1, <1>2, TableSameKeeps DEF TableSame, Usable
<1>8. ThreadFits(t)'
  <2>1. ~crashed' => width'[file_name'[t]] # 0 /\ file_name'[t] \in known'
    BY <1>1, <1>2, <1>4 DEF TableInv, RecordsKnown
  <2> QED
    BY <1>1, <1>3, <1>4, <1>5, <2>1 DEF ThreadFits, UsesTable, KnowsName, UsesOpen, WidthOf
<1>9. \A u \in Threads : ThreadFits(u)'
  BY <1>1, <1>2, <1>3, <1>5, <1>7, <1>8, ThreadsFit DEF Same
<1> QED
  BY <1>6, <1>7, <1>9 DEF CoreInv

LEMMA RequestTokenKeeps ==
  ASSUME CoreInv, NEW t \in Threads, RequestToken(t)
  PROVE  CoreInv'
<1>1. /\ pc[t] = "ask" /\ call[t].op = "transfer" /\ GoTo(t, "granted")
      /\ recorded' = IF file_name[t] \in known THEN recorded \union {file_name[t]} ELSE recorded
      /\ UNCHANGED << next_file_descriptor, OFDT, file_desc_mutex, call, file_name, fr, had, rpc, revoked, named, known, width,
                      serving, cached, handles, calls, revokes, crashed, deleted, overtaken, unnamed >>
  BY DEF RequestToken, Asks, At, tableVars, threadVars, revokeVars, boundVars, historyVars
<1>2. TypeOK /\ TableInv /\ \A u \in Threads : ThreadFits(u)
  BY DEF CoreInv
<1>3. pc' \in [Threads -> Labels] /\ pc'[t] = "granted" /\ \A u \in Threads : u # t => pc'[u] = pc[u]
  BY <1>1, <1>2, Went DEF Labels
<1>4. recorded \subseteq recorded' /\ recorded' \subseteq known /\ recorded' \subseteq Files
  BY <1>1, <1>2 DEF TypeOK, TableInv, RecordsKnown
<1>5. ManagerStep
  BY <1>1, <1>2, <1>4 DEF ManagerStep, TableInv, RecordsKnown, WidthOf
<1>6. TypeOK'
  BY <1>1, <1>2, <1>3, <1>4 DEF TypeOK, Labels
<1>7. TableInv' /\ Leaves
  BY <1>2, <1>5, ManagerStepKeeps
<1>8. ThreadFits(t)'
  <2>1. UsesTable(t) /\ KnowsName(t) /\ call[t] \in TableCalls /\ call[t].fd \in Descriptors
    BY <1>1, <1>2, CallIs DEF UsesTable, KnowsName, ThreadFits
  <2>2. Usable => UsesOpen(t)
    BY <1>2 DEF ThreadFits
  <2>3. Usable => /\ OFDT[call[t].fd].open /\ file_name[t] = OFDT[call[t].fd].name
                  /\ file_name[t] \in known \union deleted
    BY <1>2, <2>1, <2>2 DEF UsesOpen, TableInv, NamesKnown
  <2>4. Usable' => UsesOpen(t)'
    BY <1>1, <1>3, <2>3 DEF Usable, UsesOpen
  <2> QED
    BY <1>1, <1>3, <2>1, <2>4 DEF ThreadFits
<1>9. \A u \in Threads : ThreadFits(u)'
  BY <1>1, <1>2, <1>3, <1>7, <1>8, ThreadsFit DEF Same
<1> QED
  BY <1>6, <1>7, <1>9 DEF CoreInv

LEMMA LockTableKeeps ==
  ASSUME CoreInv, NEW t \in Threads, LockTable(t)
  PROVE  CoreInv'
<1>1. /\ pc[t] = "insert" /\ file_desc_mutex = Free /\ file_desc_mutex' = t /\ GoTo(t, "opening")
      /\ UNCHANGED << next_file_descriptor, OFDT, call, file_name, fr, had, rpc, revoked, named, known, width, recorded,
                      serving, cached, handles, calls, revokes, crashed, deleted, overtaken, unnamed >>
  BY DEF LockTable, At, tableVars, threadVars, revokeVars, managerVars, boundVars, historyVars
<1>2. TypeOK /\ TableInv /\ \A u \in Threads : ThreadFits(u)
  BY DEF CoreInv
<1>3. pc' \in [Threads -> Labels] /\ pc'[t] = "opening" /\ \A u \in Threads : u # t => pc'[u] = pc[u]
  BY <1>1, <1>2, Went DEF Labels
<1>4. TypeOK'
  BY <1>1, <1>2, <1>3 DEF TypeOK, Labels
<1>5. TableInv' /\ Leaves
  BY <1>1, <1>2, ThreadsAssumption, TableSameKeeps DEF TableSame, Usable
<1>6. ThreadFits(t)'
  <2>1. ~crashed => file_name[t] \in Files /\ WidthOf(fr[t], file_name[t])
    BY <1>1, <1>2 DEF ThreadFits
  <2> QED
    BY <1>1, <1>3, <2>1 DEF ThreadFits, UsesTable, KnowsName, UsesOpen, WidthOf
<1>7. \A u \in Threads : ThreadFits(u)'
  BY <1>1, <1>2, <1>3, <1>5, <1>6, ThreadsFit DEF Same
<1> QED
  BY <1>4, <1>5, <1>7 DEF CoreInv

LEMMA FetchEntryKeeps ==
  ASSUME CoreInv, NEW t \in Threads, FetchEntry(t)
  PROVE  CoreInv'
<1> DEFINE e == OFDT[call[t].fd]
           n == IF e.open THEN e.name ELSE NoFile
           w == IF e.open THEN e.width ELSE 0
           l == IF call[t].op = "fstat" THEN "ask" ELSE "need"
<1>1. /\ pc[t] = "fetch" /\ GoTo(t, l)
      /\ file_name' = [file_name EXCEPT ![t] = n] /\ fr' = [fr EXCEPT ![t] = w]
      /\ had' = [had EXCEPT ![t] = TRUE]
      /\ UNCHANGED << next_file_descriptor, OFDT, file_desc_mutex, call, rpc, revoked, named, known, width, recorded,
                      serving, cached, handles, calls, revokes, crashed, deleted, overtaken, unnamed >>
  BY DEF FetchEntry, At, tableVars, revokeVars, managerVars, boundVars, historyVars
<1>2. TypeOK /\ TableInv /\ \A u \in Threads : ThreadFits(u)
  BY DEF CoreInv
<1>3. call[t] \in TableCalls /\ call[t].fd \in Descriptors /\ UsesTable(t)
  BY <1>1, <1>2, CallIs DEF ThreadFits, UsesTable
<1>4. n \in FileNames /\ w \in Nat /\ l \in Labels
  BY <1>2, <1>3, EntryIs DEF FileNames, Labels
<1>5. pc' \in [Threads -> Labels] /\ pc'[t] = l /\ \A u \in Threads : u # t => pc'[u] = pc[u]
  BY <1>1, <1>2, <1>4, Went
<1>6. /\ file_name' \in [Threads -> FileNames] /\ fr' \in [Threads -> Nat] /\ had' \in [Threads -> BOOLEAN]
      /\ file_name'[t] = n
      /\ \A u \in Threads : u # t => file_name'[u] = file_name[u] /\ fr'[u] = fr[u]
  BY <1>1, <1>2, <1>4 DEF TypeOK
<1>7. TypeOK'
  BY <1>1, <1>2, <1>5, <1>6 DEF TypeOK, Labels
<1>8. TableInv' /\ Leaves
  BY <1>1, <1>2, TableSameKeeps DEF TableSame, Usable
<1>9. ThreadFits(t)'
  <2>1. Usable => e.open
    BY <1>2, <1>3 DEF ThreadFits, UsesOpen
  <2>2. Usable' => UsesOpen(t)'
    BY <1>1, <1>5, <1>6, <2>1 DEF Usable, UsesOpen
  <2>3. call[t] \notin FileCalls
    BY <1>3, CallIs DEF FileCalls, TableCalls
  <2> QED
    BY <1>1, <1>3, <1>5, <2>2, <2>3 DEF ThreadFits
<1>10. \A u \in Threads : ThreadFits(u)'
  BY <1>1, <1>2, <1>5, <1>6, <1>8, <1>9, ThreadsFit DEF Same
<1> QED
  BY <1>7, <1>8, <1>10 DEF CoreInv

LEMMA CheckTokensKeeps ==
  ASSUME CoreInv, NEW t \in Threads, CheckTokens(t)
  PROVE  CoreInv'
<1>1. /\ pc[t] = "need" /\ file_desc_mutex = Free
      /\ UNCHANGED << next_file_descriptor, OFDT, call, file_name, fr, rpc, revoked, named, known, width, recorded,
                      serving, cached, handles, calls, revokes, crashed, deleted, overtaken, unnamed >>
  BY DEF CheckTokens, At, tableVars, revokeVars, managerVars, boundVars, historyVars
<1>2. TypeOK /\ TableInv /\ \A u \in Threads : ThreadFits(u)
  BY DEF CoreInv
<1>3. /\ pc' \in [Threads -> Labels] /\ had' \in [Threads -> BOOLEAN]
      /\ (pc'[t] = "io" /\ file_desc_mutex' = t) \/ (pc'[t] = "ask" /\ file_desc_mutex' = Free)
      /\ \A u \in Threads : u # t => pc'[u] = pc[u]
  <2>1. CASE GoTo(t, "io") /\ file_desc_mutex' = t /\ UNCHANGED had
    BY <1>2, <2>1, Went DEF Labels, TypeOK
  <2>2. CASE GoTo(t, "ask") /\ had' = [had EXCEPT ![t] = FALSE] /\ UNCHANGED file_desc_mutex
    <3>1. had' \in [Threads -> BOOLEAN]
      BY <1>2, <2>2 DEF TypeOK
    <3> QED
      BY <1>1, <1>2, <2>2, <3>1, Went DEF Labels
  <2> QED
    BY <2>1, <2>2 DEF CheckTokens
<1>4. TypeOK'
  BY <1>1, <1>2, <1>3 DEF TypeOK, Labels
<1>5. TableInv' /\ Leaves
  BY <1>1, <1>2, <1>3, ThreadsAssumption, TableSameKeeps DEF TableSame, Usable
<1>6. ThreadFits(t)'
  <2>1. call[t] \in TableCalls /\ UsesTable(t) /\ KnowsName(t)
    BY <1>1, <1>2 DEF ThreadFits, UsesTable, KnowsName
  <2>2. UsesOpen(t)
    BY <1>1, <1>2, ThreadsAssumption DEF ThreadFits, Usable
  <2>3. call[t] \notin FileCalls
    BY <2>1, CallIs DEF FileCalls, TableCalls
  <2>4. UsesOpen(t)'
    BY <1>1, <1>3, <2>1, <2>2 DEF UsesOpen
  <2> QED
    BY <1>1, <1>3, <2>1, <2>3, <2>4 DEF ThreadFits
<1>7. \A u \in Threads : ThreadFits(u)'
  BY <1>1, <1>2, <1>3, <1>5, <1>6, ThreadsFit DEF Same
<1> QED
  BY <1>4, <1>5, <1>7 DEF CoreInv

LEMMA TransferKeeps ==
  ASSUME CoreInv, NEW t \in Threads, Transfer(t)
  PROVE  CoreInv'
<1>1. /\ pc[t] = "io" /\ ~crashed /\ file_desc_mutex' = Free /\ Return(t)
      /\ UNCHANGED << next_file_descriptor, OFDT, rpc, revoked, named, known, width, recorded,
                      serving, handles, calls, revokes, deleted, overtaken, unnamed >>
      /\ crashed' = crashed \/ crashed' = (fr[t] = 0)
      /\ cached' = cached \/ cached' = cached \union {file_name[t]}
  BY DEF Transfer, At, tableVars, revokeVars, managerVars, boundVars, historyVars
<1>2. TypeOK /\ TableInv /\ \A u \in Threads : ThreadFits(u)
  BY DEF CoreInv
<1>3. file_desc_mutex = t /\ Usable
  BY <1>1, <1>2, ThreadsAssumption DEF ThreadFits, Usable
<1>4. crashed' \in BOOLEAN /\ cached' \subseteq FileNames
  BY <1>1, <1>2 DEF TypeOK
<1>5. TypeOK'
  BY <1>1, <1>2, <1>4, Returned DEF TypeOK, Labels
<1>6. TableInv' /\ Leaves
  BY <1>1, <1>2, <1>3, TableSameKeeps DEF TableSame
<1>7. \A u \in Threads : ThreadFits(u)'
  BY <1>1, <1>2, <1>3, <1>6, Returned, IdleFits, ThreadsFit
<1> QED
  BY <1>5, <1>6, <1>7 DEF CoreInv

\* The tokens of an entry change: what it is open for does not.
LEMMA AddPermissionKeeps ==
  ASSUME CoreInv, NEW t \in Threads, AddPermission(t)
  PROVE  CoreInv'
<1> DEFINE fd == call[t].fd
<1>1. /\ pc[t] = "granted" /\ file_desc_mutex = Free /\ GoTo(t, "need")
      /\ OFDT' = [OFDT EXCEPT ![fd].tokens = @ \union {file_name[t]}]
      /\ UNCHANGED << next_file_descriptor, file_desc_mutex, call, file_name, fr, had, rpc, revoked, named, known, width,
                      recorded, serving, cached, handles, calls, revokes, crashed, deleted, overtaken, unnamed >>
  BY DEF AddPermission, At, threadVars, revokeVars, managerVars, boundVars, historyVars
<1>2. TypeOK /\ TableInv /\ \A u \in Threads : ThreadFits(u)
  BY DEF CoreInv
<1>3. pc' \in [Threads -> Labels] /\ pc'[t] = "need" /\ \A u \in Threads : u # t => pc'[u] = pc[u]
  BY <1>1, <1>2, Went DEF Labels
<1>4. call[t] \in TableCalls /\ fd \in Descriptors /\ UsesTable(t) /\ KnowsName(t) /\ file_name[t] \in FileNames
  BY <1>1, <1>2, CallIs DEF ThreadFits, UsesTable, KnowsName, TypeOK
<1>5. /\ OFDT[fd].open /\ file_name[t] = OFDT[fd].name
      /\ file_name[t] \in recorded \union deleted \union overtaken
  BY <1>1, <1>2, <1>4, ThreadsAssumption DEF ThreadFits, Usable, UsesOpen
<1>6. /\ OFDT' \in [Descriptors -> [open : BOOLEAN, name : FileNames, width : Nat, tokens : SUBSET FileNames]]
      /\ \A d \in Descriptors : /\ OFDT'[d].open = OFDT[d].open /\ OFDT'[d].name = OFDT[d].name
                                /\ OFDT'[d].width = OFDT[d].width
                                /\ d # fd => OFDT'[d].tokens = OFDT[d].tokens
      /\ OFDT'[fd].tokens = OFDT[fd].tokens \union {file_name[t]}
  BY <1>1, <1>2, <1>4 DEF TypeOK
<1>7. TypeOK'
  BY <1>1, <1>2, <1>3, <1>6 DEF TypeOK, Labels
<1>8. Unused' /\ NamesKnown' /\ HandlesGiven' /\ RecordsKnown'
  <2>1. Unused'
    BY <1>1, <1>2, <1>5, <1>6 DEF TableInv, Unused, Usable
  <2>2. NamesKnown' /\ RecordsKnown'
    BY <1>1, <1>2, <1>6 DEF TableInv, NamesKnown, RecordsKnown
  <2>3. HandlesGiven'
    BY <1>1, <1>2, <1>6 DEF TableInv, HandlesGiven, WidthOf
  <2> QED
    BY <2>1, <2>2, <2>3
<1>9. TokensOfOwnFile'
  BY <1>2, <1>5, <1>6 DEF TableInv, TokensOfOwnFile
<1>10. LostOnlyBehindDescriptor'
  <2> SUFFICES ASSUME NEW d \in Descriptors, NEW f \in OFDT'[d].tokens,
                      f \notin recorded \union deleted \union overtaken \union unnamed, OFDT[d].open
               PROVE  \E e \in Named(f)' : e > d
    BY <1>1, <1>6 DEF LostOnlyBehindDescriptor
  <2>1. f \in OFDT[d].tokens
    BY <1>5, <1>6
  <2>2. Named(f)' = Named(f)
    BY <1>6 DEF Named
  <2> QED
    BY <1>2, <2>1, <2>2 DEF TableInv, LostOnlyBehindDescriptor
<1>11. Leaves
  BY <1>1, <1>6 DEF Leaves, WidthOf
<1>12. ThreadFits(t)'
  <2>1. UsesOpen(t)'
    BY <1>1, <1>3, <1>4, <1>5, <1>6 DEF UsesOpen
  <2> QED
    BY <1>1, <1>3, <1>4, <2>1 DEF ThreadFits
<1>13. \A u \in Threads : ThreadFits(u)'
  BY <1>1, <1>2, <1>3, <1>11, <1>12, ThreadsFit DEF Same
<1> QED
  BY <1>7, <1>8, <1>9, <1>10, <1>13 DEF CoreInv, TableInv

\* The one entry that is taken back: nobody is given another after it.
LEMMA CloseKeeps ==
  ASSUME CoreInv, NEW t \in Threads, Close(t)
  PROVE  CoreInv'
<1> DEFINE fd == call[t].fd
<1>1. /\ pc[t] = "close" /\ file_desc_mutex = Free /\ file_desc_mutex' = Orphan /\ Return(t)
      /\ OFDT' = [OFDT EXCEPT ![fd].open = FALSE]
      /\ UNCHANGED << next_file_descriptor, rpc, revoked, named, known, width, recorded, serving, cached, handles, calls,
                      revokes, crashed, deleted, overtaken, unnamed >>
  BY DEF Close, At, revokeVars, managerVars, boundVars, historyVars
<1>2. TypeOK /\ TableInv /\ \A u \in Threads : ThreadFits(u)
  BY DEF CoreInv
<1>3. fd \in Descriptors /\ handles[fd] = NoFile
  BY <1>1, <1>2, ThreadsAssumption, CallIs DEF ThreadFits, UsesTable, UsesOpen, Usable
<1>4. /\ OFDT' \in [Descriptors -> [open : BOOLEAN, name : FileNames, width : Nat, tokens : SUBSET FileNames]]
      /\ \A d \in Descriptors : /\ OFDT'[d].name = OFDT[d].name
                                /\ OFDT'[d].width = OFDT[d].width
                                /\ OFDT'[d].tokens = OFDT[d].tokens
                                /\ OFDT'[d].open => OFDT[d].open
                                /\ d # fd => OFDT'[d].open = OFDT[d].open
  BY <1>1, <1>2, <1>3 DEF TypeOK
<1>5. TypeOK'
  BY <1>1, <1>2, <1>4, Returned DEF TypeOK, Labels
<1>6. Unused' /\ NamesKnown' /\ TokensOfOwnFile' /\ RecordsKnown'
  BY <1>1, <1>2, <1>4 DEF TableInv, Unused, Usable, NamesKnown, TokensOfOwnFile, RecordsKnown
<1>7. HandlesGiven'
  BY <1>1, <1>2, <1>3, <1>4 DEF TableInv, HandlesGiven, WidthOf
<1>8. LostOnlyBehindDescriptor'
  <2> SUFFICES ASSUME NEW d \in Descriptors, NEW f \in OFDT[d].tokens,
                      f \notin recorded \union deleted \union overtaken \union unnamed, OFDT[d].open
               PROVE  \E e \in Named(f)' : e > d
    BY <1>1, <1>4 DEF LostOnlyBehindDescriptor
  <2>1. Named(f)' = Named(f)
    BY <1>4 DEF Named
  <2> QED
    BY <1>2, <2>1 DEF TableInv, LostOnlyBehindDescriptor
<1>9. Leaves
  BY <1>1 DEF Leaves, Usable, WidthOf
<1>10. \A u \in Threads : ThreadFits(u)'
  BY <1>1, <1>2, <1>9, Returned, IdleFits, ThreadsFit
<1> QED
  BY <1>5, <1>6, <1>7, <1>8, <1>10 DEF CoreInv, TableInv

\* A file is opened in an entry that has never been used.
LEMMA OpenFileKeeps ==
  ASSUME CoreInv, NEW t \in Threads, OpenFile(t)
  PROVE  CoreInv'
<1>1. /\ pc[t] = "opening" /\ ~crashed /\ file_desc_mutex' = Free /\ Return(t)
      /\ UNCHANGED << rpc, revoked, named, known, width, recorded, serving, cached, calls, revokes, deleted, overtaken, unnamed >>
  BY DEF OpenFile, At, revokeVars, managerVars, boundVars, historyVars
<1>2. TypeOK /\ TableInv /\ \A u \in Threads : ThreadFits(u)
  BY DEF CoreInv
<1>3. /\ file_desc_mutex = t /\ Usable /\ Usable'
      /\ file_name[t] \in Files /\ WidthOf(fr[t], file_name[t]) /\ fr[t] \in Nat
  BY <1>1, <1>2, ThreadsAssumption DEF ThreadFits, Usable, TypeOK
<1>4. CASE FreeSlots = {} /\ next_file_descriptor' \in Descriptors /\ crashed' \in BOOLEAN /\ UNCHANGED << OFDT, handles >>
  <2>1. TypeOK'
    BY <1>1, <1>2, <1>4, Returned DEF TypeOK, Labels
  <2>2. TableInv' /\ Leaves
    BY <1>1, <1>2, <1>3, <1>4, TableSameKeeps DEF TableSame
  <2>3. \A u \in Threads : ThreadFits(u)'
    BY <1>1, <1>2, <1>3, <2>2, Returned, IdleFits, ThreadsFit
  <2> QED
    BY <2>1, <2>2, <2>3 DEF CoreInv
<1>5. CASE FreeSlots # {} /\ UNCHANGED crashed
  <2>1. PICK d \in Descriptors : /\ ~OFDT[d].open
                                 /\ OFDT' = [OFDT EXCEPT ![d] = OpenedEntry(t, @)]
                                 /\ handles' = [handles EXCEPT ![d] = file_name[t]]
                                 /\ next_file_descriptor' = AfterSlot(d)
    BY <1>2, <1>5, SearchFinds DEF OpenFile
  <2>2. OFDT[d].tokens = {} /\ OFDT[d].name = NoFile
    BY <1>2, <1>3, <2>1 DEF TableInv, Unused
  <2>3. /\ OFDT' \in [Descriptors -> [open : BOOLEAN, name : FileNames, width : Nat, tokens : SUBSET FileNames]]
        /\ OFDT'[d].open /\ OFDT'[d].name = file_name[t] /\ OFDT'[d].width = fr[t] /\ OFDT'[d].tokens = {}
        /\ \A e \in Descriptors : e # d => OFDT'[e] = OFDT[e]
    <3>1. PICK o \in [open : BOOLEAN, name : FileNames, width : Nat, tokens : SUBSET FileNames] : o = OFDT[d]
      BY <1>2 DEF TypeOK
    <3>2. PICK n \in [open : BOOLEAN, name : FileNames, width : Nat, tokens : SUBSET FileNames] :
            /\ n = OpenedEntry(t, o)
            /\ n.open /\ n.name = file_name[t] /\ n.width = fr[t] /\ n.tokens = o.tokens
      <4>1. file_name[t] \in FileNames /\ fr[t] \in Nat
        BY <1>3 DEF FileNames
      <4>2. OpenedEntry(t, o) \in [open : BOOLEAN, name : FileNames, width : Nat, tokens : SUBSET FileNames]
        BY <3>1, <4>1 DEF OpenedEntry
      <4>3. /\ OpenedEntry(t, o).open /\ OpenedEntry(t, o).name = file_name[t]
            /\ OpenedEntry(t, o).width = fr[t] /\ OpenedEntry(t, o).tokens = o.tokens
        BY <3>1, <4>1 DEF OpenedEntry
      <4> QED
        BY <4>2, <4>3
    <3>3. OFDT' = [OFDT EXCEPT ![d] = n]
      BY <2>1, <3>1, <3>2
    <3> QED
      BY <1>2, <2>2, <3>1, <3>2, <3>3 DEF TypeOK
  <2>4. /\ handles' \in [Descriptors -> FileNames] /\ handles'[d] = file_name[t]
        /\ \A e \in Descriptors : e # d => handles'[e] = handles[e]
    BY <1>2, <1>3, <2>1 DEF TypeOK, FileNames
  <2>5. TypeOK'
    BY <1>1, <1>2, <1>5, <2>1, <2>3, <2>4, SlotIs, Returned DEF TypeOK, Labels
  <2>6. file_name[t] \in known \union deleted
    BY <1>3 DEF WidthOf
  <2>7. Unused' /\ NamesKnown' /\ TokensOfOwnFile' /\ RecordsKnown'
    BY <1>1, <1>2, <1>3, <2>3, <2>6 DEF TableInv, Unused, NamesKnown, TokensOfOwnFile, RecordsKnown
  <2>8. HandlesGiven'
    BY <1>1, <1>2, <1>3, <2>3, <2>4 DEF TableInv, HandlesGiven, WidthOf
  <2>9. LostOnlyBehindDescriptor'
    <3> SUFFICES ASSUME NEW e \in Descriptors, NEW f \in OFDT'[e].tokens,
                        f \notin recorded \union deleted \union overtaken \union unnamed, OFDT'[e].open
                 PROVE  \E g \in Named(f)' : g > e
      BY <1>1 DEF LostOnlyBehindDescriptor
    <3>1. e # d /\ OFDT'[e] = OFDT[e]
      BY <2>3
    <3>2. f = OFDT[e].name /\ f \in known \union deleted
      BY <1>2, <3>1 DEF TableInv, TokensOfOwnFile, NamesKnown
    <3>3. f # NoFile
      BY <1>2, <3>2, FilesAssumption DEF TypeOK
    <3>4. PICK g \in Named(f) : g > e
      BY <1>2, <3>1 DEF TableInv, LostOnlyBehindDescriptor
    <3>5. g # d /\ g \in Named(f)'
      BY <2>2, <2>3, <3>3, <3>4 DEF Named
    <3> QED
      BY <3>4, <3>5
  <2>10. Leaves
    BY <1>1, <1>5, <2>1, <2>3, <2>4 DEF Leaves, WidthOf
  <2>11. \A u \in Threads : ThreadFits(u)'
    BY <1>1, <1>2, <1>3, <2>10, Returned, IdleFits, ThreadsFit
  <2> QED
    BY <2>5, <2>7, <2>8, <2>9, <2>11 DEF CoreInv, TableInv
<1> QED
  BY <1>4, <1>5 DEF OpenFile

\* A token goes out of the last entry with the name; another entry keeps it only when
\* that one comes after it.
LEMMA RevokePermissionKeeps ==
  ASSUME CoreInv, Searching, RevokePermission
  PROVE  CoreInv'
<1>1. /\ rpc = "search" /\ rpc' = "idle" /\ revoked' = NoFile /\ named' = FALSE
      /\ OFDT' = [d \in Descriptors |-> IF named /\ d \in FoundEntry(revoked)
                                        THEN [OFDT[d] EXCEPT !.tokens = @ \ {revoked}] ELSE OFDT[d]]
      /\ recorded' = recorded \ {revoked}
      /\ overtaken' = IF \E t \in Threads : pc[t] = "granted" /\ file_name[t] = revoked
                      THEN overtaken \union {revoked} ELSE overtaken
      /\ unnamed' = IF named THEN unnamed \ {revoked} ELSE unnamed \union {revoked}
      /\ UNCHANGED << next_file_descriptor, file_desc_mutex, pc, call, file_name, fr, had, known, width, serving,
                      cached, handles, calls, revokes, crashed, deleted >>
  BY DEF RevokePermission, threadVars, boundVars
<1>2. TypeOK /\ TableInv /\ \A u \in Threads : ThreadFits(u)
  BY DEF CoreInv
<1>3. /\ OFDT' \in [Descriptors -> [open : BOOLEAN, name : FileNames, width : Nat, tokens : SUBSET FileNames]]
      /\ \A d \in Descriptors : /\ OFDT'[d].open = OFDT[d].open /\ OFDT'[d].name = OFDT[d].name
                                /\ OFDT'[d].width = OFDT[d].width
                                /\ OFDT'[d].tokens \subseteq OFDT[d].tokens
                                /\ named /\ d \in FoundEntry(revoked) => revoked \notin OFDT'[d].tokens
  BY <1>1, <1>2 DEF TypeOK
<1>4. TypeOK'
  <2>1. revoked \in Files /\ overtaken' \subseteq Files /\ unnamed' \subseteq Files
    BY <1>1, <1>2 DEF TypeOK, Searching
  <2> QED
    BY <1>1, <1>2, <1>3, <2>1 DEF TypeOK, FileNames
<1>5. Unused' /\ NamesKnown' /\ HandlesGiven' /\ TokensOfOwnFile' /\ RecordsKnown'
  <2>1. Unused' /\ NamesKnown'
    BY <1>1, <1>2, <1>3 DEF TableInv, Unused, Usable, NamesKnown
  <2>2. HandlesGiven'
    BY <1>1, <1>2, <1>3 DEF TableInv, HandlesGiven, WidthOf
  <2>3. TokensOfOwnFile' /\ RecordsKnown'
    BY <1>1, <1>2, <1>3 DEF TableInv, TokensOfOwnFile, RecordsKnown
  <2> QED
    BY <2>1, <2>2, <2>3
<1>6. LostOnlyBehindDescriptor'
  <2> SUFFICES ASSUME NEW d \in Descriptors, NEW f \in OFDT'[d].tokens,
                      f \notin recorded' \union deleted \union overtaken' \union unnamed', OFDT[d].open
               PROVE  \E e \in Named(f)' : e > d
    BY <1>1, <1>3 DEF LostOnlyBehindDescriptor
  <2>1. f \in OFDT[d].tokens /\ f = OFDT[d].name /\ Named(f)' = Named(f) /\ d \in Named(f)
    BY <1>2, <1>3 DEF TableInv, TokensOfOwnFile, Named
  <2>2. CASE f = revoked
    <3>1. d \notin FoundEntry(f)
      BY <1>1, <1>3, <2>2
    <3>2. PICK m \in Named(f) : m = Max(Named(f)) /\ \A e \in Named(f) : e <= m
      BY <2>1, LastNamed
    <3>3. d # m
      BY <2>1, <3>1, <3>2 DEF FoundEntry
    <3>4. d <= m /\ d \in Int /\ m \in Int
      BY <2>1, <3>2 DEF Named, Descriptors
    <3> QED
      BY <2>1, <3>3, <3>4
  <2>3. CASE f # revoked
    <3>1. f \notin recorded \union deleted \union overtaken \union unnamed
      BY <1>1, <2>3
    <3> QED
      BY <1>2, <2>1, <3>1 DEF TableInv, LostOnlyBehindDescriptor
  <2> QED
    BY <2>2, <2>3
<1>7. Leaves
  <2>1. \A u \in Threads : pc[u] = "granted" /\ file_name[u] \in recorded \union deleted \union overtaken =>
                             file_name[u] \in recorded' \union deleted' \union overtaken'
    BY <1>1
  <2> QED
    BY <1>1, <1>3, <2>1 DEF Leaves, WidthOf
<1>8. \A u \in Threads : ThreadFits(u)'
  BY <1>1, <1>2, <1>7, OthersFit DEF Same
<1> QED
  BY <1>4, <1>5, <1>6, <1>8 DEF CoreInv, TableInv

LEMMA SearchingKeeps ==
  ASSUME CoreInv, Searching, [Next]_vars
  PROVE  Searching'
<1>1. (rpc' = rpc /\ revoked' = revoked) \/ rpc' = "idle" \/ \E f \in Files : revoked' = f
  BY DEF Next, Call, Manager, Create, Delete, Fstat, Open, RequestToken, Library, LockTable, OpenFile, FetchEntry,
         CheckTokens, AddPermission, Transfer, ParseFstat, Close, ExitOnSocketError, RaceInTable, Revoke,
         RevokePermission, revokeVars, vars
<1> QED
  BY <1>1 DEF Searching

LEMMA IInvNext ==
  ASSUME IInv, [Next]_vars
  PROVE  IInv'
<1>1. CoreInv /\ Searching
  BY DEF IInv
<1>2. ASSUME NEW t \in Threads, NEW c \in FileCalls \union TableCalls, Call(t, c) PROVE CoreInv'
  BY <1>1, <1>2, CallKeeps
<1>3. ASSUME NEW t \in Threads, Manager(t) PROVE CoreInv'
  BY <1>1, <1>3, CreateKeeps, DeleteKeeps, FstatKeeps, OpenKeeps, RequestTokenKeeps DEF Manager
<1>4. ASSUME NEW t \in Threads, Library(t) PROVE CoreInv'
  BY <1>1, <1>4, LockTableKeeps, OpenFileKeeps, FetchEntryKeeps, CheckTokensKeeps, AddPermissionKeeps, TransferKeeps,
     FstatKeeps, CloseKeeps DEF Library
<1>5. CoreInv'
  BY <1>1, <1>2, <1>3, <1>4, EndKeeps, RevokePermissionKeeps DEF Next
<1> QED
  BY <1>1, <1>5, SearchingKeeps DEF IInv

LEMMA IInvInit ==
  ASSUME Init
  PROVE  IInv
<1>1. /\ OFDT = [d \in Descriptors |-> [open |-> FALSE, name |-> NoFile, width |-> 0, tokens |-> {}]]
      /\ pc = [t \in Threads |-> "idle"] /\ handles = [d \in Descriptors |-> NoFile]
      /\ recorded = {} /\ rpc = "idle"
  BY DEF Init
<1>2. known \subseteq Files /\ width \in [Files -> Nat] /\ \A f \in known : width[f] # 0
  BY SizesAssumption DEF Init
<1>3. TypeOK
  <2>1. 0 \in Descriptors /\ 0 \in 0 .. MaxCalls /\ 0 \in 0 .. MaxRevokes
    BY SizesAssumption DEF Descriptors
  <2>2. OFDT \in [Descriptors -> [open : BOOLEAN, name : FileNames, width : Nat, tokens : SUBSET FileNames]]
    BY <1>1 DEF FileNames
  <2> QED
    BY <1>1, <1>2, <2>1, <2>2 DEF Init, TypeOK, FileNames
<1>4. TableInv
  <2>1. Unused /\ NamesKnown /\ HandlesGiven /\ TokensOfOwnFile
    BY <1>1 DEF Unused, NamesKnown, HandlesGiven, TokensOfOwnFile
  <2>2. RecordsKnown
    BY <1>1, <1>2 DEF RecordsKnown
  <2>3. LostOnlyBehindDescriptor
    BY <1>1 DEF LostOnlyBehindDescriptor
  <2> QED
    BY <2>1, <2>2, <2>3 DEF TableInv
<1>5. \A t \in Threads : ThreadFits(t)
  BY <1>1 DEF ThreadFits, UsesTable, KnowsName, UsesOpen
<1> QED
  BY <1>1, <1>3, <1>4, <1>5 DEF IInv, CoreInv, Searching

\* The inductive invariant of the table, its calls and the revoker.
THEOREM Invariant == Spec => []IInv
<1> QED
  BY IInvInit, IInvNext, PTL DEF Spec
-----------------------------------------------------------------------------
(* What follows for every table and every number of threads.                *)

\* Every variable keeps its type.
THEOREM TypeCorrect == Spec => []TypeOK
<1>1. IInv => TypeOK
  BY DEF IInv, CoreInv
<1> QED
  BY <1>1, Invariant, PTL

\* A descriptor stands for the file it was given for, with its servers and its tokens,
\* until it is closed: however the search has gone round, whoever opens and deletes.
THEOREM HandlesStayGood == Spec => []DescriptorsStand
<1>1. ASSUME IInv PROVE DescriptorsStand
  <2>1. HandlesGiven /\ TokensOfOwnFile
    BY <1>1 DEF IInv, CoreInv, TableInv
  <2>2. HandlesStand /\ RecipeStands
    BY <2>1 DEF HandlesGiven, HandlesStand, RecipeStands, WidthOf
  <2> QED
    BY <2>1, <2>2 DEF DescriptorsStand
<1> QED
  BY <1>1, Invariant, PTL

\* A token taken back by the name of its file stays only in an entry the revoker does not
\* look at, for any number of revocations with a name and without, of any files.
THEOREM LostTokensHidden == Spec => []LostOnlyBehindDescriptor
<1>1. IInv => LostOnlyBehindDescriptor
  BY DEF IInv, CoreInv, TableInv
<1> QED
  BY <1>1, Invariant, PTL

\* pfs_close is the end of the library: once a thread has closed a file, file_desc_mutex
\* is nobody's and never free again.
THEOREM CloseKeepsMutex == Spec => [][file_desc_mutex = Orphan => file_desc_mutex' = Orphan]_vars
<1>1. ASSUME IInv, [Next]_vars, file_desc_mutex = Orphan PROVE file_desc_mutex' = Orphan
  <2>1. \A t \in Threads : pc[t] \notin {"opening", "io"}
    BY <1>1, ThreadsAssumption DEF IInv, CoreInv, ThreadFits
  <2>2. Orphan # Free
    BY ThreadsAssumption
  <2> QED
    BY <1>1, <2>1, <2>2 DEF Next, Call, Manager, Create, Delete, Fstat, Open, RequestToken, Library, LockTable,
      OpenFile, FetchEntry, CheckTokens, AddPermission, Transfer, ParseFstat, Close, ExitOnSocketError, RaceInTable,
      Revoke, RevokePermission, At, vars
<1>2. IInv /\ [Next]_vars => [file_desc_mutex = Orphan => file_desc_mutex' = Orphan]_vars
  BY <1>1
<1> QED
  BY <1>2, Invariant, PTL DEF Spec
=============================================================================
