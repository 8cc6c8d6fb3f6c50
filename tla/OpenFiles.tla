----------------------------- MODULE OpenFiles -----------------------------
(***************************************************************************)
(* The open file table of a client (FileDesc.cc), the calls of the library *)
(* that go through it (pfs.cc), and the revoker's search for the file a     *)
(* revocation is about.  The calls share file_desc_mutex; the revoker does  *)
(* not take it.  One action per stretch between two points where a thread   *)
(* waits for the mutex or for the metadata manager.                         *)
(*                                                                          *)
(* Reads and writes are about the first block of a file, so that a file is  *)
(* either covered by the tokens of a descriptor or is not; TokenMap has the *)
(* ranges and the modes.  The manager answers a command in one step, as     *)
(* MetadataManager does while it holds its locks.                           *)
(***************************************************************************)
EXTENDS Integers, FiniteSetsExt

CONSTANTS
  Files, NoFile,
  Threads, Free, Orphan,   \* a mutex is free, held by a thread, or by one that has left
  MAX_NUM_FILES,
  Widths,                  \* the stripe widths files are created with
  MaxCalls, MaxRevokes     \* bounds: calls of the library, revocations

ASSUME FilesAssumption == NoFile \notin Files
ASSUME ThreadsAssumption == Free \notin Threads /\ Orphan \notin Threads /\ Free # Orphan
ASSUME SizesAssumption == /\ MAX_NUM_FILES \in Nat \ {0}
                          /\ Widths \subseteq Nat \ {0}
                          /\ MaxCalls \in Nat /\ MaxRevokes \in Nat

Descriptors == 0 .. MAX_NUM_FILES - 1

FileCalls == [op : {"open", "delete"}, file : Files] \union
             [op : {"create"}, file : Files, width : Widths]
TableCalls == [op : {"transfer", "fstat", "close"}, fd : Descriptors]
NoCall == [op |-> "none"]

VARIABLES
  \* FileDescriptor's static members
  next_file_descriptor, OFDT, file_desc_mutex,
  \* each thread: where it is, its call, the name and the recipe it has read, and
  \* whether it has the tokens without having asked (already_have_token)
  pc, call, file_name, fr, had,
  \* the revoker, the file that is revoked, and whether the revocation says so
  rpc, revoked, named,
  \* the metadata manager: the files and their widths, the files this client is
  \* recorded to hold tokens of, and whether it answers
  known, width, recorded, serving,
  \* the files with their first block in the cache, and the descriptors the
  \* application has been given and has not closed, with what it asked for
  cached, handles,
  calls, revokes, crashed,
  \* history: the files deleted so far, those revoked before a grant was inserted, and
  \* those last revoked without their name
  deleted, overtaken, unnamed

tableVars   == << next_file_descriptor, OFDT >>
threadVars  == << call, file_name, fr, had >>
revokeVars  == << rpc, revoked, named >>
managerVars == << known, width, recorded, serving >>
boundVars   == << calls, revokes >>
historyVars == << deleted, overtaken, unnamed >>
vars == << tableVars, file_desc_mutex, pc, threadVars, revokeVars, managerVars, cached, handles,
           boundVars, crashed, historyVars >>

FileNames == Files \union {NoFile}

TypeOK ==
  /\ next_file_descriptor \in Descriptors
  /\ OFDT \in [Descriptors -> [open : BOOLEAN, name : FileNames, width : Nat, tokens : SUBSET FileNames]]
  /\ file_desc_mutex \in Threads \union {Free, Orphan}
  /\ pc \in [Threads -> {"idle", "ask", "insert", "opening", "fetch", "need", "granted", "io",
                         "parse", "close"}]
  /\ call \in [Threads -> FileCalls \union TableCalls \union {NoCall}]
  /\ file_name \in [Threads -> FileNames]
  /\ fr \in [Threads -> Nat]
  /\ had \in [Threads -> BOOLEAN]
  /\ rpc \in {"idle", "search"}
  /\ revoked \in FileNames /\ named \in BOOLEAN
  /\ known \subseteq Files
  /\ width \in [Files -> Nat]
  /\ recorded \subseteq Files
  /\ serving \in BOOLEAN
  /\ cached \subseteq FileNames
  /\ handles \in [Descriptors -> FileNames]
  /\ calls \in 0 .. MaxCalls /\ revokes \in 0 .. MaxRevokes
  /\ crashed \in BOOLEAN
  /\ deleted \subseteq Files /\ overtaken \subseteq Files /\ unnamed \subseteq Files

\* The client starts; files may exist already.
Init ==
  /\ next_file_descriptor = 0
  /\ OFDT = [d \in Descriptors |-> [open |-> FALSE, name |-> NoFile, width |-> 0, tokens |-> {}]]
  /\ file_desc_mutex = Free
  /\ pc = [t \in Threads |-> "idle"]
  /\ call = [t \in Threads |-> NoCall]
  /\ file_name = [t \in Threads |-> NoFile]
  /\ fr = [t \in Threads |-> 0]
  /\ had = [t \in Threads |-> FALSE]
  /\ rpc = "idle" /\ revoked = NoFile /\ named = FALSE
  /\ known \in SUBSET Files
  /\ \E w \in Widths : width = [f \in Files |-> IF f \in known THEN w ELSE 0]
  /\ recorded = {} /\ serving = TRUE
  /\ cached = {}
  /\ handles = [d \in Descriptors |-> NoFile]
  /\ calls = 0 /\ revokes = 0
  /\ crashed = FALSE
  /\ deleted = {} /\ overtaken = {} /\ unnamed = {}
-----------------------------------------------------------------------------
At(t, label) == ~crashed /\ pc[t] = label

GoTo(t, label) == pc' = [pc EXCEPT ![t] = label]

\* The call returns and its locals vanish.
Return(t) == /\ GoTo(t, "idle")
             /\ call' = [call EXCEPT ![t] = NoCall]
             /\ file_name' = [file_name EXCEPT ![t] = NoFile]
             /\ fr' = [fr EXCEPT ![t] = 0]
             /\ had' = [had EXCEPT ![t] = FALSE]

\* The application calls the library, with a descriptor it was given and has not
\* closed.  pfs_create, pfs_open and pfs_delete go to the manager, the others to the
\* table first.
Call(t, c) ==
  /\ At(t, "idle")
  /\ calls < MaxCalls
  /\ calls' = calls + 1
  /\ call' = [call EXCEPT ![t] = c]
  /\ \/ /\ c \in FileCalls
        /\ GoTo(t, "ask")
        /\ file_name' = [file_name EXCEPT ![t] = c.file]
        /\ UNCHANGED handles
     \/ /\ c \in TableCalls
        /\ handles[c.fd] # NoFile
        /\ GoTo(t, IF c.op = "close" THEN "close" ELSE "fetch")
        /\ handles' = IF c.op = "close" THEN [handles EXCEPT ![c.fd] = NoFile] ELSE handles
        /\ UNCHANGED file_name
  /\ UNCHANGED << tableVars, file_desc_mutex, fr, had, revokeVars, managerVars, cached, revokes,
                  crashed, historyVars >>

\* sendToServer ends the process when the manager cannot be reached.
ExitOnSocketError(t) ==
  /\ At(t, "ask")
  /\ crashed' = TRUE
  /\ UNCHANGED << tableVars, file_desc_mutex, pc, threadVars, revokeVars, managerVars, cached,
                  handles, boundVars, historyVars >>
-----------------------------------------------------------------------------
(* pfs_create, pfs_delete and pfs_fstat.                                    *)

\* The manager serves one command at a time, and none during a revocation.
Asks(t, op) == At(t, "ask") /\ call[t].op = op /\ serving /\ rpc = "idle"

\* A new file is recorded, unless a server refuses; an older entry is kept.
Create(t) ==
  LET f == call[t].file
  IN /\ Asks(t, "create")
     /\ \/ /\ f \notin known
           /\ known' = known \union {f}
           /\ width' = [width EXCEPT ![f] = call[t].width]
        \/ UNCHANGED << known, width >>
     /\ Return(t)
     /\ UNCHANGED << tableVars, file_desc_mutex, revokeVars, recorded, serving, cached, handles,
                     boundVars, crashed, historyVars >>

\* The tokens go with the entry, and this client's descriptors stay as they are.  The
\* manager does not survive a name it does not know.
Delete(t) ==
  LET f == call[t].file
  IN /\ Asks(t, "delete")
     /\ serving' = (f \in known)
     /\ known' = known \ {f}
     /\ width' = [width EXCEPT ![f] = 0]
     /\ recorded' = recorded \ {f}
     /\ deleted' = IF f \in known THEN deleted \union {f} ELSE deleted
     /\ Return(t)
     /\ UNCHANGED << tableVars, file_desc_mutex, revokeVars, cached, handles, boundVars, crashed,
                     overtaken, unnamed >>

\* "nack" when a server has lost the file, or nobody knows it.
Fstat(t) ==
  /\ Asks(t, "fstat")
  /\ \/ /\ file_name[t] \in known
        /\ GoTo(t, "parse")
        /\ UNCHANGED << threadVars, serving >>
     \/ /\ serving' = (file_name[t] \in known)
        /\ Return(t)
  /\ UNCHANGED << tableVars, file_desc_mutex, revokeVars, known, width, recorded, cached, handles,
                  boundVars, crashed, historyVars >>

\* The answer is taken apart under the mutex.
ParseFstat(t) ==
  /\ At(t, "parse")
  /\ file_desc_mutex = Free
  /\ Return(t)
  /\ UNCHANGED << tableVars, file_desc_mutex, revokeVars, managerVars, cached, handles, boundVars,
                  crashed, historyVars >>
-----------------------------------------------------------------------------
(* pfs_open.                                                                *)

\* The manager answers with the recipe.  For a name it does not know the answer is
\* empty, which sendToServer takes for a failure and ends the process.
Open(t) ==
  LET f == call[t].file
  IN /\ Asks(t, "open")
     /\ GoTo(t, "insert")
     /\ fr' = [fr EXCEPT ![t] = width[f]]
     /\ crashed' = (f \notin known)
     /\ UNCHANGED << tableVars, file_desc_mutex, call, file_name, had, revokeVars, managerVars,
                     cached, handles, boundVars, historyVars >>

LockTable(t) ==
  /\ At(t, "insert")
  /\ file_desc_mutex = Free
  /\ file_desc_mutex' = t
  /\ GoTo(t, "opening")
  /\ UNCHANGED << tableVars, threadVars, revokeVars, managerVars, cached, handles, boundVars,
                  crashed, historyVars >>

\* The slots the search visits, in its order.
Slot(i) == (next_file_descriptor + i) % MAX_NUM_FILES

FreeSlots == {i \in Descriptors : ~OFDT[Slot(i)].open}

\* The entry for a file that is opened: the tokens of its last use are still in it.
OpenedEntry(t, e) == [e EXCEPT !.open = TRUE, !.name = file_name[t], !.width = fr[t]]

\* Mutant: the next search starts behind the table.
AfterSlot_NoWrap(d) == d + 1

AfterSlot(d) == (d + 1) % MAX_NUM_FILES

\* ofdt_open_file.  When every entry is in use the search ends where it began, and
\* OFDT[-1] is written, which is memory of next_file_descriptor or of anything else.
OpenFile(t) ==
  /\ At(t, "opening")
  /\ \/ /\ FreeSlots # {}
        /\ LET d == Slot(Min(FreeSlots))
           IN /\ OFDT' = [OFDT EXCEPT ![d] = OpenedEntry(t, @)]
              /\ handles' = [handles EXCEPT ![d] = file_name[t]]
              /\ next_file_descriptor' = AfterSlot(d)
        /\ UNCHANGED crashed
     \/ /\ FreeSlots = {}
        /\ next_file_descriptor' \in Descriptors
        /\ crashed' \in BOOLEAN
        /\ UNCHANGED << OFDT, handles >>
  /\ file_desc_mutex' = Free
  /\ Return(t)
  /\ UNCHANGED << revokeVars, managerVars, cached, boundVars, historyVars >>
-----------------------------------------------------------------------------
(* pfs_read and pfs_write.                                                  *)

\* The name and the recipe are read from the table.  An entry that has been closed
\* gives an empty name and no recipe.
FetchEntry(t) ==
  LET e == OFDT[call[t].fd]
  IN /\ At(t, "fetch")
     /\ file_desc_mutex = Free
     /\ file_name' = [file_name EXCEPT ![t] = IF e.open THEN e.name ELSE NoFile]
     /\ fr' = [fr EXCEPT ![t] = IF e.open THEN e.width ELSE 0]
     /\ had' = [had EXCEPT ![t] = TRUE]
     /\ GoTo(t, IF call[t].op = "fstat" THEN "ask" ELSE "need")
     /\ UNCHANGED << tableVars, file_desc_mutex, call, revokeVars, managerVars, cached, handles,
                     boundVars, crashed, historyVars >>

\* With the tokens, the thread leaves the loop and keeps the mutex.
CheckTokens(t) ==
  /\ At(t, "need")
  /\ file_desc_mutex = Free
  /\ \/ /\ OFDT[call[t].fd].tokens # {}
        /\ file_desc_mutex' = t
        /\ GoTo(t, "io")
        /\ UNCHANGED had
     \/ /\ OFDT[call[t].fd].tokens = {}
        /\ GoTo(t, "ask")
        /\ had' = [had EXCEPT ![t] = FALSE]
        /\ UNCHANGED file_desc_mutex
  /\ UNCHANGED << tableVars, call, file_name, fr, revokeVars, managerVars, cached, handles,
                  boundVars, crashed, historyVars >>

\* A token is granted and recorded; for a file the manager does not know its "nack"
\* is taken for the first block.
RequestToken(t) ==
  /\ Asks(t, "transfer")
  /\ recorded' = IF file_name[t] \in known THEN recorded \union {file_name[t]} ELSE recorded
  /\ GoTo(t, "granted")
  /\ UNCHANGED << tableVars, file_desc_mutex, threadVars, revokeVars, known, width, serving, cached,
                  handles, boundVars, crashed, historyVars >>

AddPermission(t) ==
  /\ At(t, "granted")
  /\ file_desc_mutex = Free
  /\ OFDT' = [OFDT EXCEPT ![call[t].fd].tokens = @ \union {file_name[t]}]
  /\ GoTo(t, "need")
  /\ UNCHANGED << next_file_descriptor, file_desc_mutex, threadVars, revokeVars, managerVars,
                  cached, handles, boundVars, crashed, historyVars >>

\* Mutant: the mutex is not unlocked after a hit.
Transfer_KeepMutex(t) ==
  /\ At(t, "io")
  /\ \/ /\ had[t] /\ file_name[t] \in cached
        /\ UNCHANGED << cached, crashed, file_desc_mutex >>
     \/ /\ crashed' = (fr[t] = 0)
        /\ cached' = cached \union {file_name[t]}
        /\ file_desc_mutex' = Free
  /\ Return(t)
  /\ UNCHANGED << tableVars, revokeVars, managerVars, handles, boundVars, historyVars >>

\* The block is in the cache, or is fetched from the server the width leads to: there
\* is none for the width 0.  The harvester may have evicted any block.
Transfer(t) ==
  /\ At(t, "io")
  /\ \/ /\ had[t] /\ file_name[t] \in cached
        /\ UNCHANGED << cached, crashed >>
     \/ /\ crashed' = (fr[t] = 0)
        /\ cached' = cached \union {file_name[t]}
  /\ file_desc_mutex' = Free
  /\ Return(t)
  /\ UNCHANGED << tableVars, revokeVars, managerVars, handles, boundVars, historyVars >>
-----------------------------------------------------------------------------
(* pfs_close.                                                               *)

\* Mutant: the mutex is unlocked, as the line after "return" has it.
Close_Unlock(t) ==
  /\ At(t, "close")
  /\ file_desc_mutex = Free
  /\ OFDT' = [OFDT EXCEPT ![call[t].fd].open = FALSE]
  /\ Return(t)
  /\ UNCHANGED << next_file_descriptor, file_desc_mutex, revokeVars, managerVars, cached, handles,
                  boundVars, crashed, historyVars >>

\* The entry keeps its name and tokens.  pfs_close returns before it unlocks.
Close(t) ==
  /\ At(t, "close")
  /\ file_desc_mutex = Free
  /\ file_desc_mutex' = Orphan
  /\ OFDT' = [OFDT EXCEPT ![call[t].fd].open = FALSE]
  /\ Return(t)
  /\ UNCHANGED << next_file_descriptor, revokeVars, managerVars, cached, handles, boundVars, crashed,
                  historyVars >>
-----------------------------------------------------------------------------
(* The revoker.                                                             *)

\* The manager takes the token back, for another client or for a thread of this one.
\* What it sends for a read has the name of the file, for a write it has none.  A grant
\* that is still on its way is overtaken.
Revoke(f) ==
  /\ ~crashed /\ serving /\ rpc = "idle"
  /\ revokes < MaxRevokes
  /\ f \in recorded
  /\ revokes' = revokes + 1
  /\ rpc' = "search" /\ revoked' = f /\ named' \in BOOLEAN
  /\ UNCHANGED << tableVars, file_desc_mutex, pc, threadVars, managerVars, cached, handles, calls,
                  crashed, historyVars >>

Named(f) == {d \in Descriptors : OFDT[d].name = f}

\* Mutant: the search stops at the first entry with the name.
FoundEntry_First(f) == {d \in Named(f) : d = Min(Named(f)) /\ OFDT[d].open}

\* The entry revokePermission finds: the last one with the name, if it is open.
FoundEntry(f) == {d \in Named(f) : d = Max(Named(f)) /\ OFDT[d].open}

\* The token is removed from the entry found, if any, and the manager is answered.
\* Without a name, the start of the range is taken for one, and no entry has it.
RevokePermission ==
  /\ ~crashed /\ rpc = "search"
  /\ OFDT' = [d \in Descriptors |-> IF named /\ d \in FoundEntry(revoked)
                                    THEN [OFDT[d] EXCEPT !.tokens = @ \ {revoked}]
                                    ELSE OFDT[d]]
  /\ recorded' = recorded \ {revoked}
  /\ overtaken' = IF \E t \in Threads : pc[t] = "granted" /\ file_name[t] = revoked
                  THEN overtaken \union {revoked} ELSE overtaken
  /\ unnamed' = IF named THEN unnamed \ {revoked} ELSE unnamed \union {revoked}
  /\ rpc' = "idle" /\ revoked' = NoFile /\ named' = FALSE
  /\ UNCHANGED << next_file_descriptor, file_desc_mutex, pc, threadVars, known, width, serving,
                  cached, handles, boundVars, crashed, deleted >>

\* A name is compared while ofdt_open_file assigns it.
RaceInTable(t) ==
  /\ At(t, "opening")
  /\ rpc = "search"
  /\ crashed' = TRUE
  /\ UNCHANGED << tableVars, file_desc_mutex, pc, threadVars, revokeVars, managerVars, cached,
                  handles, boundVars, historyVars >>
-----------------------------------------------------------------------------
Manager(t) == Create(t) \/ Delete(t) \/ Fstat(t) \/ Open(t) \/ RequestToken(t)

Library(t) == \/ LockTable(t) \/ OpenFile(t) \/ FetchEntry(t) \/ CheckTokens(t)
              \/ AddPermission(t) \/ Transfer(t) \/ ParseFstat(t) \/ Close(t)

Next ==
  \/ \E t \in Threads, c \in FileCalls \union TableCalls : Call(t, c)
  \/ \E t \in Threads : Manager(t) \/ Library(t) \/ ExitOnSocketError(t) \/ RaceInTable(t)
  \/ \E f \in Files : Revoke(f)
  \/ RevokePermission

Spec == Init /\ [][Next]_vars

\* Threads are scheduled and the manager answers, if it can.  The calls are finitely
\* many, so weak fairness suffices for the mutex.
FairSpec == /\ Spec
            /\ \A t \in Threads : WF_vars(Manager(t)) /\ WF_vars(Library(t))
            /\ WF_vars(RevokePermission)
-----------------------------------------------------------------------------
\* A descriptor stays open under the name it was given for, however the search has
\* gone round the table.
HandlesStand ==
  \A d \in Descriptors : handles[d] # NoFile => OFDT[d].open /\ OFDT[d].name = handles[d]

\* An open descriptor leads to the servers the manager has spread the file over,
\* unless the file was deleted since; it never divides by a width of 0.
RecipeStands ==
  \A d \in Descriptors : handles[d] # NoFile =>
    /\ OFDT[d].width # 0
    /\ handles[d] \in deleted \/ OFDT[d].width = width[handles[d]]

\* The tokens of an open descriptor are those of its file: no read or write goes on
\* under what another file's use has left in the entry.
TokensOfOwnFile == \A d \in Descriptors : OFDT[d].open => OFDT[d].tokens \subseteq {OFDT[d].name}

\* What the application was given stays what it asked for: the name, the servers, and
\* no token but those of that file, for any calls of other threads.
DescriptorsStand == HandlesStand /\ RecipeStands /\ TokensOfOwnFile

\* A token the manager has taken back by the name of its file, and does not record,
\* stays only in an entry the revoker does not look at: one with a later entry of the
\* same name, or a closed one.  A revocation without the name, which is the one a write
\* request sends, leaves it wherever it is.
LostOnlyBehindDescriptor ==
  \A d \in Descriptors : \A f \in OFDT[d].tokens \ (recorded \union deleted \union overtaken \union unnamed) :
    ~OFDT[d].open \/ \E e \in Named(f) : e > d

\* Every call of the library returns, unless a close has kept the mutex, the manager
\* has kept its lock, or the process has ended.
CallsReturn ==
  \A t \in Threads : pc[t] # "idle" ~> (pc[t] = "idle" \/ file_desc_mutex = Orphan \/ ~serving \/ crashed)
=============================================================================
