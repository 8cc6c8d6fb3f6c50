--------------------------- MODULE TokenProtocol ---------------------------
(***************************************************************************)
(* The parts of the system together, on one block of one file: processes    *)
(* that link the client library (pfs.cc, ClientCache.cc) on one host, the    *)
(* metadata manager (MetadataManager.cc).                                   *)
(*                                                                          *)
(* A client is to the manager the revoker port it sends with its request.   *)
(* Each process picks that port when its revoker thread starts, may exit at *)
(* any time, and another one may be started and take its port over.  Tokens  *)
(* are asked for, granted and revoked; a revocation is answered before the   *)
(* dirty block is flushed.                                                  *)
(*                                                                          *)
(* Each part is coarser here than in its own module: the manager serves one  *)
(* request at a time (MetadataManager: gft_lock), a token is the mode held   *)
(* on the block (TokenMap), a cached block is its status (ClientCache).      *)
(***************************************************************************)
EXTENDS Integers, SequencesExt

CONSTANTS
  Clients,     \* processes; each one runs once
  Mortal,      \* those that may exit
  Ops,         \* of each process, whether it reads, writes or both
  NumPorts,    \* the length of revoker_ports
  MaxCalls,    \* bound: calls of pfs_read and pfs_write
  NoCall       \* the manager when it serves nobody

ASSUME MortalAssumption == Mortal \subseteq Clients
ASSUME OpsAssumption    == Ops \in [Clients -> SUBSET {"r", "w"}]
ASSUME PortsAssumption  == NumPorts \in Nat \ {0} /\ MaxCalls \in Nat

Ports == 1 .. NumPorts

\* Port 0 is what a request carries before the revoker thread has set revoker_port.
\* A record of the manager is that port; the process is kept beside it to say whose
\* it is.
Holder == [port : Ports \union {0}, cl : Clients]
Request == [port : Ports \union {0}, cl : Clients, mode : {"r", "w"}]

VARIABLES
  life,          \* of each process: "up" or "gone"; one that has done nothing is as good as
                 \* not there yet
  \* its revoker thread: where it is, revoker_port, and whether it is serving the
  \* manager or flushing
  rstate, revoker_port, rpc,
  \* its application thread: where it is, what it does, whether it had to ask
  pc, op, asked,
  tok, cache,    \* the mode it holds on the block, and the block in its cache
  \* the manager: requests that have arrived, the one it serves, where it is, the
  \* reader iterator, the process whose answer it waits for, its two tables
  inbox, serving, phase, it, whom, writer, readers, dead,
  calls,
  \* history: processes that hold what is not recorded for them, and those whose
  \* block was dirtied under a read token, or under one revoked since the check
  excused, rogue

clientVars  == << life, rstate, revoker_port, rpc, pc, op, asked, tok, cache >>
managerVars == << inbox, serving, phase, it, whom, writer, readers, dead >>
vars == << clientVars, managerVars, calls, excused, rogue >>

TypeOK ==
  /\ life \in [Clients -> {"up", "gone"}]
  /\ rstate \in [Clients -> {"start", "bind", "listen", "none"}]
  /\ revoker_port \in [Clients -> Ports \union {0}]
  /\ rpc \in [Clients -> {"idle", "answer", "flush"}]
  /\ pc \in [Clients -> {"idle", "check", "ask", "wait", "granted", "use"}]
  /\ op \in [Clients -> {"r", "w"}]
  /\ asked \in [Clients -> BOOLEAN]
  /\ tok \in [Clients -> {"none", "r", "w"}]
  /\ cache \in [Clients -> {"absent", "C", "D"}]
  /\ inbox \subseteq Request
  /\ serving \in Request \union {NoCall}
  /\ phase \in {"idle", "writers", "wcall", "readers", "rcall"}
  /\ it \in Nat
  /\ whom \in Clients \union {NoCall}
  /\ writer \subseteq Holder /\ Cardinality(writer) <= 1
  /\ readers \in Seq(Holder)
  /\ dead \in BOOLEAN
  /\ calls \in 0 .. MaxCalls
  /\ excused \subseteq Clients
  /\ rogue \subseteq Clients

Init ==
  /\ life = [c \in Clients |-> "up"]
  /\ rstate = [c \in Clients |-> "start"]
  /\ revoker_port = [c \in Clients |-> 0]
  /\ rpc = [c \in Clients |-> "idle"]
  /\ pc = [c \in Clients |-> "idle"]
  /\ op = [c \in Clients |-> "r"]
  /\ asked = [c \in Clients |-> FALSE]
  /\ tok = [c \in Clients |-> "none"]
  /\ cache = [c \in Clients |-> "absent"]
  /\ inbox = {} /\ serving = NoCall /\ phase = "idle" /\ it = 0 /\ whom = NoCall
  /\ writer = {} /\ readers = << >> /\ dead = FALSE
  /\ calls = 0
  /\ excused = {} /\ rogue = {}
-----------------------------------------------------------------------------
(* Processes and their revoker ports.                                       *)

\* Who accepts connections on a port.
Listening(p) == {c \in Clients : rstate[c] = "listen" /\ revoker_port[c] = p}

\* exit: the cache and the tokens are gone; what was sent is still delivered, and
\* requests of the process are still served.
Exited(c) ==
  /\ life' = [life EXCEPT ![c] = "gone"]
  /\ rstate' = [rstate EXCEPT ![c] = "none"]
  /\ rpc' = [rpc EXCEPT ![c] = "idle"]
  /\ pc' = [pc EXCEPT ![c] = "idle"]
  /\ op' = [op EXCEPT ![c] = "r"]
  /\ asked' = [asked EXCEPT ![c] = FALSE]
  /\ tok' = [tok EXCEPT ![c] = "none"]
  /\ cache' = [cache EXCEPT ![c] = "absent"]
  /\ excused' = excused \ {c}
  /\ rogue' = rogue \ {c}
  /\ UNCHANGED << revoker_port, managerVars, calls >>

Exit(c) == life[c] = "up" /\ Exited(c)

\* revokingFunc: the first of revoker_ports that does not answer becomes revoker_port,
\* before the socket is bound to it.  When all answer there is no revoker.
ChoosePort(c) ==
  LET free == {p \in Ports : Listening(p) = {}}
  IN /\ life[c] = "up"
     /\ rstate[c] = "start"
     /\ \/ /\ free # {}
           /\ revoker_port' = [revoker_port EXCEPT ![c] = Min(free)]
           /\ rstate' = [rstate EXCEPT ![c] = "bind"]
        \/ /\ free = {}
           /\ rstate' = [rstate EXCEPT ![c] = "none"]
           /\ UNCHANGED revoker_port
     /\ UNCHANGED << life, rpc, pc, op, asked, tok, cache, managerVars, calls, excused, rogue >>

\* Mutant: two sockets may be bound to one port.
Bind_Shared(c) ==
  /\ life[c] = "up"
  /\ rstate[c] = "bind"
  /\ rstate' = [rstate EXCEPT ![c] = "listen"]
  /\ UNCHANGED << life, revoker_port, rpc, pc, op, asked, tok, cache, managerVars, calls,
                  excused, rogue >>

\* TCPServerSocket: a port somebody has taken meanwhile throws, and the process exits.
Bind(c) ==
  /\ life[c] = "up"
  /\ rstate[c] = "bind"
  /\ \/ /\ Listening(revoker_port[c]) = {}
        /\ rstate' = [rstate EXCEPT ![c] = "listen"]
        /\ UNCHANGED << life, revoker_port, rpc, pc, op, asked, tok, cache, managerVars, calls, excused, rogue >>
     \/ /\ Listening(revoker_port[c]) # {}
        /\ Exited(c)
-----------------------------------------------------------------------------
(* pfs_read and pfs_write.                                                  *)

GoTo(c, label) == pc' = [pc EXCEPT ![c] = label]

Call(c, o) ==
  /\ life[c] = "up"
  /\ pc[c] = "idle"
  /\ calls < MaxCalls
  /\ calls' = calls + 1
  /\ GoTo(c, "check")
  /\ op' = [op EXCEPT ![c] = o]
  /\ asked' = [asked EXCEPT ![c] = FALSE]
  /\ UNCHANGED << life, rstate, revoker_port, rpc, tok, cache, managerVars, excused, rogue >>

\* required_token: any token will do, for a write too.
CheckToken(c) ==
  /\ pc[c] = "check"
  /\ \/ /\ tok[c] # "none"
        /\ GoTo(c, "use")
        /\ UNCHANGED asked
     \/ /\ tok[c] = "none"
        /\ GoTo(c, "ask")
        /\ asked' = [asked EXCEPT ![c] = TRUE]
  /\ UNCHANGED << life, rstate, revoker_port, rpc, op, tok, cache, managerVars, calls,
                  excused, rogue >>

\* Mutant: pfs_write asks for a read token.
RequestToken_Read(c) ==
  /\ pc[c] = "ask"
  /\ ~dead
  /\ inbox' = inbox \union {[port |-> revoker_port[c], cl |-> c, mode |-> "r"]}
  /\ GoTo(c, "wait")
  /\ UNCHANGED << life, rstate, revoker_port, rpc, op, asked, tok, cache, serving, phase, it, whom,
                  writer, readers, dead, calls, excused, rogue >>

\* requestToken: the message has the value revoker_port has now.
RequestToken(c) ==
  /\ pc[c] = "ask"
  /\ ~dead
  /\ inbox' = inbox \union {[port |-> revoker_port[c], cl |-> c, mode |-> op[c]]}
  /\ GoTo(c, "wait")
  /\ UNCHANGED << life, rstate, revoker_port, rpc, op, asked, tok, cache, serving, phase, it, whom,
                  writer, readers, dead, calls, excused, rogue >>

\* sendToServer: the manager is gone, and so is the process.
ManagerGone(c) == pc[c] \in {"ask", "wait"} /\ dead /\ Exited(c)

\* addPermission, and back to the head of the loop.
AddPermission(c) ==
  /\ pc[c] = "granted"
  /\ tok' = [tok EXCEPT ![c] = op[c]]
  /\ GoTo(c, "check")
  /\ UNCHANGED << life, rstate, revoker_port, rpc, op, asked, cache, managerVars, calls,
                  excused, rogue >>

\* A block that is cached is used if the token was there before the call; else a new
\* one is fetched, empty, and inserted unless a block is there.
UseBlock(c) ==
  LET hit == ~asked[c] /\ cache[c] # "absent"
      new == IF op[c] = "w" THEN "D" ELSE "C"
      put == (hit /\ op[c] = "w") \/ cache[c] = "absent"
  IN /\ pc[c] = "use"
     /\ cache' = IF put THEN [cache EXCEPT ![c] = new] ELSE cache
     /\ rogue' = IF put /\ op[c] = "w" /\ tok[c] # "w" THEN rogue \union {c} ELSE rogue
     /\ GoTo(c, "idle")
     /\ op' = [op EXCEPT ![c] = "r"] /\ asked' = [asked EXCEPT ![c] = FALSE]
     /\ UNCHANGED << life, rstate, revoker_port, rpc, tok, managerVars, calls, excused >>
-----------------------------------------------------------------------------
(* flush().                                                                 *)

\* A dirty block is copied, sent and marked clean.
SendDirty(c) ==
  \/ /\ cache[c] = "D"
     /\ cache' = [cache EXCEPT ![c] = "C"]
     /\ rogue' = rogue \ {c}
  \/ /\ cache[c] # "D"
     /\ UNCHANGED << cache, rogue >>

\* The periodic flush.
Flush(c) ==
  /\ life[c] = "up"
  /\ cache[c] = "D"
  /\ SendDirty(c)
  /\ UNCHANGED << life, rstate, revoker_port, rpc, pc, op, asked, tok, managerVars, calls, excused >>

\* Mutant: the revoker does not flush.
FlushRevoked_Skip(c) ==
  /\ rpc[c] = "flush"
  /\ rpc' = [rpc EXCEPT ![c] = "idle"]
  /\ UNCHANGED << life, rstate, revoker_port, pc, op, asked, tok, cache, managerVars, calls,
                  excused, rogue >>

\* The flush at the end of HandleRevoker.
FlushRevoked(c) ==
  /\ rpc[c] = "flush"
  /\ rpc' = [rpc EXCEPT ![c] = "idle"]
  /\ SendDirty(c)
  /\ UNCHANGED << life, rstate, revoker_port, pc, op, asked, tok, managerVars, calls, excused >>
-----------------------------------------------------------------------------
(* The manager: request_token (MetadataManager), one request at a time.     *)

Manager(label) == ~dead /\ phase = label

Serve(r) ==
  /\ Manager("idle")
  /\ r \in inbox
  /\ inbox' = inbox \ {r}
  /\ serving' = r
  /\ phase' = "writers"
  /\ UNCHANGED << clientVars, it, whom, writer, readers, dead, calls, excused, rogue >>

\* The lock is released and the answer sent; nobody reads that of a process that is
\* gone.
Granted ==
  /\ phase' = "idle" /\ serving' = NoCall /\ it' = 0
  /\ pc' = IF pc[serving.cl] = "wait" THEN [pc EXCEPT ![serving.cl] = "granted"] ELSE pc
  /\ excused' = excused \ {serving.cl}

\* The processes that hold, or are about to hold, a token of that record.
Believers(h) == {c \in {h.cl} : life[c] = "up" /\ (tok[c] # "none" \/ pc[c] = "granted")}

\* Mutant: the message of a writer's request names the file too.
Named_Always == TRUE

\* Only the message of a reader's request names the file.
Named == serving.mode = "r"

\* A revocation reaches whoever listens on the port of the record: the token is
\* removed when the message names the file.  A grant that is on its way, and the
\* token of a client the message does not reach, stay.
Deliver(h, d) ==
  /\ rpc[d] = "idle"
  /\ rpc' = [rpc EXCEPT ![d] = "answer"]
  /\ whom' = d
  /\ tok' = IF Named THEN [tok EXCEPT ![d] = "none"] ELSE tok
  /\ excused' = (excused \union Believers(h)) \ (IF Named /\ pc[d] # "granted" THEN {d} ELSE {})

DropWriter == writer' = {} /\ UNCHANGED readers

RevokeWriter ==
  /\ Manager("writers")
  /\ \E h \in writer :
       \/ /\ \E d \in Listening(h.port) : Deliver(h, d)
          /\ phase' = "wcall"
          /\ UNCHANGED << writer, readers >>
       \/ /\ Listening(h.port) = {}
          /\ DropWriter
          /\ excused' = excused \union Believers(h)
          /\ UNCHANGED << rpc, whom, tok, phase >>
  /\ UNCHANGED << life, rstate, revoker_port, pc, op, asked, cache, inbox, serving, it, dead,
                  calls, rogue >>

\* The answer; a process that exits before it gives none ("nack" or "exception").
\* Then the revoker flushes.
Answered == /\ whom' = NoCall
            /\ rpc' = IF rpc[whom] = "answer" THEN [rpc EXCEPT ![whom] = "flush"] ELSE rpc

WriterAnswer ==
  /\ Manager("wcall")
  /\ Answered
  /\ phase' = "writers"
  /\ \/ DropWriter
     \/ life[whom] = "gone" /\ UNCHANGED << writer, readers >>
  /\ UNCHANGED << life, rstate, revoker_port, pc, op, asked, tok, cache, inbox, serving, it, dead,
                  calls, excused, rogue >>

GrantRead ==
  /\ Manager("writers")
  /\ writer = {}
  /\ serving.mode = "r"
  /\ readers' = Append(readers, [port |-> serving.port, cl |-> serving.cl])
  /\ Granted
  /\ UNCHANGED << life, rstate, revoker_port, rpc, op, asked, tok, cache, inbox, whom, writer, dead,
                  calls, rogue >>

\* Mutant: a request goes on to the readers while there is a writer.
StartReaders_Writer ==
  /\ Manager("writers")
  /\ serving.mode = "w"
  /\ phase' = "readers"
  /\ it' = 1
  /\ UNCHANGED << clientVars, inbox, serving, whom, writer, readers, dead, calls, excused,
                  rogue >>

StartReaders ==
  /\ Manager("writers")
  /\ writer = {}
  /\ serving.mode = "w"
  /\ phase' = "readers"
  /\ it' = 1
  /\ UNCHANGED << clientVars, inbox, serving, whom, writer, readers, dead, calls, excused,
                  rogue >>

\* The reader is erased, the iterator is on the next one and is incremented.
DropReader == /\ readers' = RemoveAt(readers, it)
              /\ it' = it + 1
              /\ UNCHANGED writer

RevokeReader ==
  /\ Manager("readers")
  /\ it \in DOMAIN readers
  /\ LET h == readers[it]
     IN \/ /\ \E d \in Listening(h.port) : Deliver(h, d)
           /\ phase' = "rcall"
           /\ UNCHANGED << writer, readers, it >>
        \/ /\ Listening(h.port) = {}
           /\ DropReader
           /\ excused' = excused \union Believers(h)
           /\ UNCHANGED << rpc, whom, tok, phase >>
  /\ UNCHANGED << life, rstate, revoker_port, pc, op, asked, cache, inbox, serving, dead, calls, rogue >>

ReaderAnswer ==
  /\ Manager("rcall")
  /\ Answered
  /\ phase' = "readers"
  /\ \/ DropReader
     \/ life[whom] = "gone" /\ it' = it + 1 /\ UNCHANGED << writer, readers >>
  /\ UNCHANGED << life, rstate, revoker_port, pc, op, asked, tok, cache, inbox, serving, dead,
                  calls, excused, rogue >>

GrantWrite ==
  /\ Manager("readers")
  /\ it = Len(readers) + 1
  /\ writer' = writer \union {[port |-> serving.port, cl |-> serving.cl]}
  /\ Granted
  /\ UNCHANGED << life, rstate, revoker_port, rpc, op, asked, tok, cache, inbox, whom, readers, dead,
                  calls, rogue >>

\* The iterator has passed the end of the vector: the manager is terminated.  (Of one block
\* nothing is left that would be appended, so that the vector is never reallocated under
\* the iterator, and an iterator into freed memory, as in MetadataManager, does not arise.)
RunWild ==
  /\ Manager("readers")
  /\ it > Len(readers) + 1
  /\ dead' = TRUE
  /\ UNCHANGED << clientVars, inbox, serving, phase, it, whom, writer, readers, calls,
                  excused, rogue >>

HandleRequest ==
  \/ \E r \in inbox : Serve(r)
  \/ RevokeWriter \/ WriterAnswer \/ GrantRead \/ StartReaders \/ RevokeReader \/ ReaderAnswer
  \/ GrantWrite \/ RunWild

Library(c) == CheckToken(c) \/ RequestToken(c) \/ ManagerGone(c) \/ AddPermission(c) \/ UseBlock(c)

Revoker(c) == ChoosePort(c) \/ Bind(c) \/ FlushRevoked(c)

Next ==
  \/ \E c \in Clients : Library(c) \/ Revoker(c) \/ Flush(c)
  \/ \E c \in Clients : \E o \in Ops[c] : Call(c, o)
  \/ \E c \in Mortal : Exit(c)
  \/ HandleRequest

Spec == Init /\ [][Next]_vars

\* The threads of the clients and the handlers of the manager are scheduled.  Nothing
\* makes a process call or exit.
FairSpec == /\ Spec
            /\ WF_vars(HandleRequest)
            /\ \A c \in Clients : WF_vars(Library(c)) /\ WF_vars(Revoker(c))
-----------------------------------------------------------------------------
\* The manager has the token the process holds.
Recorded(c) == /\ tok[c] = "r" => \E i \in DOMAIN readers : readers[i].cl = c
               /\ tok[c] = "w" => \E h \in writer : h.cl = c
               /\ tok[c] # "none"

\* A token a process believes to hold is recorded for it by the manager, unless a
\* revocation of it was sent without the file's name, met the grant on its way, or
\* went to a port the process does not listen on.
BelievesRecorded ==
  ~dead => \A c \in Clients \ excused : tok[c] # "none" => Recorded(c)

\* The revocation is answered before the flush, and a write asks for a read token
\* only.  A dirty block of a process the manager does not record as the writer is
\* about to be flushed by its revoker, or was written under a read token or one
\* revoked since the check, or its process is excused as above.
DirtyHasReason ==
  ~dead => \A c \in Clients \ (excused \union rogue) :
    cache[c] = "D" => rpc[c] # "idle" \/ \E h \in writer : h.cl = c

\* The record the next revocation is about.
Revoked == IF phase = "readers" THEN {readers[it]} ELSE writer

\* A revocation reaches the process it is about, unless that one is gone and another
\* has its port, or has put a port in its request that another was the first to bind.
RevokesOwner ==
  [][whom = NoCall /\ whom' # NoCall =>
       \A h \in Revoked : whom' = h.cl \/ life[h.cl] = "gone" \/ rstate[h.cl] = "bind"]_vars

\* Every call returns, or its process ends: nobody takes tokens from one another for
\* ever, and no revocation waits for a process that waits for the manager.
CallsEnd == \A c \in {d \in Clients : Ops[d] # {}} : pc[c] = "check" ~> pc[c] = "idle"
=============================================================================
