# Verification of the CSE 511 parallel file system

A TLA+ development of the file system in `src/`: a metadata manager, up to five
file servers, and a client library with a block cache, which talk over one TCP
connection per command. Everything here is written from the code; the
repository's own README is three lines long.

## The system

| Component | Source | State | Operations |
|---|---|---|---|
| Metadata manager | `MetadataManager.cc`, `mt_data_types.hh` | `general_file_table` (name, stripe, `MDWTokens`, `MDRTokens`) under `gft_lock`; a `fe_lock` per file | `create`, `open`, `delete`, `fstat`, `request_token`, one thread per connection |
| Intervals | `mt_data_types.hh`, `data_types.hh` | none | comparison, `is_equal`, `subtract_interval` |
| Open file table | `FileDesc.cc` | `OFDT`, `next_file_descriptor`, under `file_desc_mutex` | open, close, fetch |
| Token map of a file | `FileDesc.cc`, `pfs.cc` | `TOKEN_MAP` of each open file | `addPermission`, `removePermission`, `revokePermission`, `checkPermission`, `required_token` |
| Block cache | `ClientCache.cc` | `freeSpace`, `usedSpace`, `LAST_ACCESS`, under `cache_mutex` | insert, lookup, get; the harvester, flusher and revoker threads |
| Client library | `pfs.cc` | none of its own | `pfs_create`, `pfs_open`, `pfs_read`, `pfs_write`, `pfs_close`, `pfs_delete`, `pfs_fstat` |
| Striping | `net_addresses.hh`, `pfs.cc` | none | `corresponding_server`, `find_buf_offset` |
| File server | `FileServer.cc` | files in its directory | `create`, `read`, `write`, `delete`, `fstat` |
| Messages | `StringFunctions.hh`, the parts of `PracticalSocket.cc` in use | sockets and descriptors | `send`, `recv`, `accept`, `connect`, close; `nextToken`, `trim`, `toLower` |
| Vendored | the rest of `PracticalSocket.*`, `TCPEcho*`, `cache_impl.hh` | | not part of the system's logic |

**Interaction.** The library asks the manager for tokens (`request_token`) and
waits. The manager, inside that request and holding `gft_lock` and `fe_lock`,
calls the revoker port of every client that holds an overlapping token, and the
file servers for `create`, `delete` and `fstat`. The revoker thread changes the
token map, answers, and flushes the cache. Data goes from the cache to the file
servers without an acknowledgement. Application threads, the revoker, the
harvester and the flusher of a client share the token maps and the cache.

**What is hard.** The token map is changed by threads that do not share a lock.
A grant can be overtaken by its own revocation. `flush()` unlocks in the middle
of an iteration. The manager calls out while it holds every lock it has. Ranges
are kept in ordered maps whose order is only an order while the ranges are
disjoint. The revocation loop changes the vector it iterates over. Servers and
clients stop at any point. Commands are taken from one `recv` of a byte stream, and a
client is known by a port that others may take over. `PROJECT.json` lists the hazards
line by line.

**What makes each part correct.**
Manager: no two clients have a write token for a block, a writer excludes readers,
a revocation takes what was asked for and no more, the locks nest and are given
back, every request is answered, a file in the table is on its servers.
Token map: an add or a remove changes exactly its blocks; what the client believes
is what the manager has recorded; the loop ends. Cache: blocks are neither
duplicated nor lost, only clean and old blocks are evicted, clean means sent,
iterators are valid, dirty blocks are sent in the end. Transfers: a call changes the
bytes of its own range, and what was written is read. All together: who uses a block
is who the manager has recorded, revocations reach their owner, calls end. Messages:
what one side acts on is what the other has sent, nobody waits for ever, and
descriptors are given back.

## Modules

| Module | What it is |
|---|---|
| `Intervals` | intervals of blocks, `Subtract`, and `std::map` as a set of entries: `FirstOverlap` is `find`, `MapInsert` is `insert` |
| `TokenTable` | the abstract specification: for each file and block a writer and a set of readers; requests are served by revoking one holder at a time |
| `MetadataManager` | the manager: one action per stretch of a handler between two calls to another process |
| `TokenMap` | one file's token map in one client: `addPermission` loop iteration by loop iteration, the revoker, and the manager as its record of this client |
| `ClientCache` | the cache of one client: one action per section under `cache_mutex` |
| `OpenFiles` | the open file table and every call of the library, under `file_desc_mutex`, with the revoker's search |
| `FileServer` | one file on a file server: one action per call of the operating system |
| `Striping` | `corresponding_server` as an operator: the server of a block and its offset there |
| `Transfer` | the loops of `pfs_read` and `pfs_write` over blocks and bytes, on the cache of one client |
| `TokenProtocol` | the composition: several processes with their tokens, caches and revoker ports, and the manager, on one block |
| `Messages` | connections as byte streams: commands, answers, revocations and port probes, with descriptors and processes that end |
| `MC_...` | instances for TLC |
| `MetadataManagerProofs`, `TokenMapProofs`, `ClientCacheProofs`, `OpenFilesProofs`, `FileServerProofs`, `TransferProofs`, `TokenProtocolProofs`, `MessagesProofs` | the theorems about the module of that name |

`MetadataManager`, `TokenMap`, `ClientCache`, `OpenFiles` and `FileServer` each have one
part in detail and the others as far as it needs them. `TokenProtocol` puts the
parts together, each as coarse as the question allows; `Transfer` EXTENDS `Striping`;
`MetadataManager` and `TokenMap` share `Intervals`.

### MetadataManager

`known`, `width`, `MDWTokens`, `MDRTokens`, `capacity` are `general_file_table`:
the names, the stripe width, the ordered map of writers (a set of entries), the
vector of readers and the vector's capacity, which decides whether `push_back`
moves it. `gft_lock` and `fe_lock` are the mutexes; `Orphan` is a mutex whose
holder has returned without unlocking it. Each thread has a `pc`, its request, the
next server of a `create`, `delete` or `fstat` (`srv`), the reader iterator (`it`,
0 once it dangles) and its response.

A handler is cut where it calls another process, so that crashes of clients
(`ClientExit`) and servers (`ServerStop`, `ServerRecover`) come between calls, and
a server may stop before or after it has done its work. A client that is gone is
an `exception` to the manager, which counts as consent; one that exits during the
call may also give `nack`; so may a server whose `creat` or `remove` fails. The stripe mask holds `NumServers` bits: a wider stripe
throws, which terminates the process (`crashed`). Dereferencing the reader
iterator where it is not valid is undefined: `RunWild` lets the process end, or
the comparison with `end()` succeed by chance.

Abstracted: message text, the sums of `fstat`, and the data in the files.

### TokenMap

`tok_map` is the `TOKEN_MAP` of the file, a set of entries with disjoint keys.
`CheckTokens` is the head of the loop in `pfs_read` and `pfs_write`, `ScanStep` one
iteration of `required_token`, which looks at one block after the other. `AddStep` is one iteration of the loop in
`addPermission`: its thirty-six branches are `WriteOverRead`, `SameMode` and
`ReadOverWrite`. `MergeRight`, `MergeLeft` and `InsertToken` are what follows the
loop. `RemoveStep` is one iteration of `removePermission`. Either loop erases a token
and inserts what is left of it after that, in calls of their own: `rest` and
`Reinsert`, `kept` and `KeepRest`. All of this proceeds side by side, since the revoker
does not take `file_desc_mutex`. So `addPermission` may find the overlap its error
message is about (`Surprised`). The map may refuse what the revoker has left over of a
token, when `addPermission` has inserted over it: it is lost although nobody has revoked
it. And a scan may miss a token the revoker has in a local: the call asks for what it
has, and `addPermission` meets a token that covers the new one and goes round for ever
(`Stuck`). `RaceInMap` is the outcome where `std::map` itself is damaged; a merge that
makes an interval end before it starts damages it too. `record` is what the manager records
for this client, block by block; it serves one request at a time, so nothing is
granted during a revocation.

Two facts about messages matter: the revocation of a write request has no file
name, so the client finds no such file and answers; and `nack` is read as the
interval (0, 0). Four history variables: `before` is what was held when `addPermission`
or `removePermission` last started, `quiet` whether the other was not there then,
`putback` the blocks `removePermission` has put back since `addPermission` started, and
`missed` the blocks whose revocation missed the token, because the grant was on its way,
`addPermission` had it in a local, or no file was named.

### ClientCache

`freeSpace` is the length of the free list, `usedSpace` the hash table, `LAST_ACCESS`
the clock and `access_time` what each lookup takes from it. `HarvestQueue` is the
harvester's pass over the hash table with its queue of candidates, in any order of the
table. A block's data is the number of the write
that made it. `readFromFileServer` cuts what it receives to the length of an
empty string, so a fetched block is empty (0). `flush()` is `FlushStart`,
`FlushSend` (without the mutex) and `FlushMark`; `ahead` are the blocks its
iterator has not passed, in any order of the hash table. An insert may put a block
before or behind the iterator and may rehash the table; an eviction may free the
node under it. Both are undefined behaviour afterwards: `FlushWild` continues from
anywhere or ends the process. `ExitOnSocketError` is `exit(1)` on a failing call.
One application thread is enough: these sections run under `file_desc_mutex`.

### OpenFiles

`OFDT`, `next_file_descriptor` and `file_desc_mutex` are those of `FileDesc.cc`; an
entry's `tokens` are the names of the files it has tokens of, since a call is about
the first block of a file (`TokenMap` has ranges and modes). `file_name` and `fr` are
the locals of a call, `handles` the descriptors the application has been given. The
manager answers in one step; it stops answering (`serving`) after a `delete` or
`fstat` of a name it does not know. An `open` of such a name is answered with an
empty message, which `sendToServer` takes for a failure: the process exits.
`pfs_close` returns before it unlocks, so at most one entry is ever closed and none
is used again. The revocation a read request sends names its file, the one a write
request sends does not (`named`): no entry has the name that is read in its place, nothing
is removed, and the answer is the same. That an entry has no tokens and no recipe of an earlier file
(`DescriptorsStand`) rests on this. Its mutant unlocks the mutex, and the property fails.

### FileServer

`name` is the directory entry of the file and `disk` the files themselves, so that a
handler goes on with a file whose name is gone. A file is its size and, for each
block, the write its first byte is of. The data of a write is a part of a block, a whole
one, with a byte of the next, or empty: the client sends the string of a block, and that
of a fetched block, which is all `NUL`, stays empty when it is written to further on.
`stat` and `creat`, `stat` and `remove`,
`fopen` and the write of the data are separate steps; `fopen(..., "w")` cuts the file
before the data has arrived. `fread` counts blocks and the answer is cut at that
number of bytes, so a read sends one byte at most (`FirstByte`).

### Striping and Transfer

`Place(b, w)` is the server of block `b` of a file of width `w` and the offset there;
`Transfer` uses the offset, as `readFromFileServer` does, as the block's ID in the
cache. `usedSpace` maps IDs to blocks; a block is its bytes, its status and, as
history, the number it was fetched for (`origin`). A byte is `NUL`, one that the write
number `n` put there from index `i` of its buffer, or `Junk` from beyond a buffer. A fetched
block is empty (see `ClientCache`). `BufStart`, `BufEnd` are `find_buf_offset`, `BufIndex` is
the index `i - block_offset + j`, which does not multiply by the block size. A read
takes each block as a C string: up to its first zero byte, or, when there is none, on
into the status behind it and, by the padding of the struct, perhaps one byte more
(`CString`); then `substr` throws where it would start behind the end (`Return`).
`pfs_write` too takes the caller's buffer for a C string, before its loop (`StartCall`)
and after it (`Return`), and uses neither: when no zero byte is behind the bytes of the
call (`terminated`), both read beyond the caller's memory, and the process may end there. Each
pass of the loop is a step, and between any two the cache may be flushed or harvested.

### TokenProtocol

Processes on one host link the library. Each takes the first of `revoker_ports` that
does not answer (`ChoosePort`), binds it (`Bind`; somebody may have taken it
meanwhile, and the process exits), calls (`CheckToken` ... `UseBlock`), flushes, and
may exit at any time; another one may then take its port. To the manager a client is
the port in its request; a `Holder` keeps the process beside the port only to say whose the
record is. The manager serves one request at a time: `RevokeWriter`,
`RevokeReader`, `GrantRead`, `GrantWrite`, with the skipped reader and the iterator
beyond the end (`RunWild`) of `MetadataManager`. `Deliver` takes the revocation to
whoever listens on the port, if anybody; only the requests of readers name the
file (`Named`). The answer comes before the flush (`Answered`, `FlushRevoked`).

Two history variables hold what the code lets happen. `excused` are the processes that
were sent a revocation which took nothing: it had no name, met the grant on its way, or
went to a port nobody or somebody else listens on. `rogue` are those
that dirtied their block under a read token, or after the token had gone.
A process leaves `excused` when its next request is granted, or a named revocation takes
its token; it leaves `rogue` when its block is sent.

### Messages

An exchange is one connection: a `call` to the manager, a `read` or `write` to a file
server, a `revoke` from the manager, a `probe` of a port by another client. `up` and
`down` are the bytes on their way; every receive takes any beginning of them that fits its buffer.
Words are sequences of one or two symbols, enough for a word to be cut into another.
A command is parsed from one `recv` (`ReceiveCommand`, `Parse`), the data of a write
from all of them to the end of the connection (`ReceiveData`), the answer to a read
likewise (`ReceiveToEnd`), any other answer from one `recv` (`ReceiveAnswer`). A server that
closes with data unread may reset the connection (`reset`), so that the client loses the
answer. The terminator behind a full buffer is undefined
behaviour: nothing, or the end of the process (`Terminate`). What a read receives never
reaches the cache, since `readFromFileServer` cuts it to the length of an empty string:
that is in `ClientCache` and `Transfer`, and `ReceiveToEnd` ends before it. A probe that is
refused keeps its socket, as `port_is_open` closes it only when the connection was made
(`Refused`). Each process has `MaxDescriptors` sockets; `accept` and `socket` fail when they are used up.

## Runs

| Run | Instance | Shows |
|---|---|---|
| `tokens` | 2 threads, 2 clients that may exit, 2 servers, 4 requests: tokens for three ranges that touch, overlap and enclose each other, creates of widths 1 to 3, opens, deletes, fstats | `LocksNest`, `WriteTokensDisjoint`, `RecordedOnServers`, and `ImplementsTokenTable`: the manager refines `TokenTable` |
| `service` | a server and a client that may stop, 4 requests, fairness | `RequestsServed` |
| `solo_tokens` | 1 application thread, 3 calls on ranges of 4 blocks, 2 revocations, a delete, fairness | `GetsTokens` |
| `team_tokens` | 2 application threads, 3 calls, a read of 3 blocks and writes of parts of it, a revocation by a read or a write, fairness | `ChangesAreExact`, `ExcessOnlyMissed`, `SurprisedByRevoker`, `AddEnds` |
| `harvest` | 4 blocks, a cache of 3, 5 calls, 2 writes | `HarvestsOldest` |
| `flush` | 2 blocks, a cache of 2, 4 calls, 2 writes, a revocation, fairness | `CleanWasSent`, `IteratorsLive`, `StaleOnlyAfterRevoke`, `DirtyIsFlushed` |
| `open_files` | 2 threads, 2 files, 2 descriptors, 5 calls, a revocation, fairness | `DescriptorsStand`, `LostOnlyBehindDescriptor`, `CallsReturn` |
| `file_server` | 3 threads, 2 blocks, 4 requests | `OnlyLiveWrites`, `KeepsLastWrite`, `ReadsItsBlock` |
| `transfer` | widths 1 and 2, 3 blocks of 2 bytes, 3 calls of up to 4 bytes, with a terminated buffer and without | `KeepsToBuffer`, `ReadsBack`, `OwnBlock`, `WritesInRange` |
| `protocol` | 3 processes, one of them mortal, 2 ports, 3 calls, fairness | `BelievesRecorded`, `DirtyHasReason`, `RevokesOwner`, `CallsEnd` |
| `messages` | 3 connections, one of them a revocation, a buffer of 9 symbols, 2 descriptors, fairness | `ReceivedAsSent`, `DescriptorsReturned`, `ExchangesEnd` |

Each of them but `service`, `team_tokens` and `harvest` checks the `TypeOK` of its module too.

The bounds: three ranges of four blocks contain every way two intervals can overlap. In
`team_tokens`, a read of three blocks and writes of two of them and of the middle one,
with a revocation of two, reach the overlap the error message is about and a remainder
of the revoker that the map refuses; with `solo_tokens` they reach thirty of the
thirty-six cases of position and mode in the loop of `addPermission`, and the proofs have
all of them. In `tokens`, with two threads and two clients there is a holder, a requester and a request that
waits; four requests are needed for a grant, a revocation that splits it, and a
request for what is left. In the cache, the thresholds are scaled so that the
harvester has to choose (one more block than fits) and so that the cache fills up.
Two descriptors are enough for a file opened twice, a full table and a search that
goes round; five calls for an open, a read, a close and two opens. Three handlers on
a server are a create or delete between the two calls of another while a write has
the file open, and a fourth request is one that comes when one of them is through. In
the cache, five calls are a fill, an eviction and a second fetch.
In `transfer`, a call of four bytes covers a whole block and parts of two others, or
starts in the middle of one; three calls are a write, one over it, and a read. In
`protocol`, three processes on two ports are a port that two want, one that is taken
over, and a process without a revoker; three calls are two that take the block from each
other and one that takes it back, or two readers and a writer. In `messages`, nine symbols hold every message but
that of a write, whose data comes in a second `recv`; two descriptors are used up by
two revocations, or by one and a call. Counters (`arrived`, `calls`, `revokes`,
`writes`, `requests`) only bound the runs.

One run ends in a violation, of something the source says of itself: in `stale_readers`,
`WriterExcludesReaders` fails because the loop over the readers skips the one after an
erased one, and a client keeps its read token beside a writer.

Other things the code does not do well are in properties that hold: each says that
it goes wrong in one way and in no other.

| Property | The way it goes wrong |
|---|---|
| `ExcessOnlyMissed` | a revocation is answered while the grant it revokes is on its way into the token map or in a local of `addPermission`, or names no file |
| `SurprisedByRevoker` | the revoker puts back what is left of a token between the loop of `addPermission` and its insert: the overlap of the error message, and the grant is not added |
| `ChangesAreExact` | a read token that goes around a write token, next to another read token, is merged with that one and refused by the map: both are lost. Of an add and a remove at once it says nothing |
| `CleanWasSent` | a block written while `flush()` is sending it is marked clean |
| `IteratorsLive` | two flushes at once: a block is freed under the iterator of one |
| `StaleOnlyAfterRevoke` | blocks stay cached when their token is revoked, and the next insert is ignored |
| `AddEnds` | `addPermission` meets a token that covers the new one and starts earlier |
| `GetsTokens` | it meets one because the revoker had the token in a local when the call looked for it |
| `LostOnlyBehindDescriptor` | a file opened twice: the revoker looks at the last descriptor only; or the revocation has no name |
| `CallsReturn` | `pfs_close` keeps the mutex, or the manager its lock |
| `OnlyLiveWrites` | a write throws away the other blocks of the file |
| `KeepsLastWrite` | a write without data cuts the file and leaves no block |
| `RequestsServed` | a `delete` or `fstat` of an unknown name returns with `gft_lock` locked |
| `BelievesRecorded` | the revocation of a write request has no file name, or goes to a port that is not the holder's, or meets the grant on its way: the client keeps a token that is recorded for another or for nobody |
| `DirtyHasReason` | the block is sent after the answer to the revocation; a write under a read token asks nobody |
| `RevokesOwner` | the holder is gone and another process has its port, or it asked before its port was bound and another was first |
| `KeepsToBuffer` | a write that starts inside a block stores bytes that are not of the call and reads beyond the caller's memory; so does, without storing anything, one whose buffer is not terminated |
| `DescriptorsReturned` | the revoker never closes what it accepts, and a client not the socket of a refused probe |
| `ExchangesEnd` | a revocation of which the first `recv` returned a part of the command word is neither answered nor closed |

Some properties hold under a restriction of the instance or of the states they speak
of, which is part of what they say. `RecordedOnServers` speaks of the servers that never
fail (outside `Fragile`): of a server that was down during a `create` nothing is known,
since only the last answer decides. `ChangesAreExact` speaks of an `addPermission` and
a `removePermission` that do not meet: when they do, tokens of any block they work on may be
lost. `ExcessOnlyMissed` speaks of the time while the file exists. `OwnBlock`, `ReadsBack` and
`WritesInRange` speak of files on one server (`width = 1`), and `StaleOnlyAfterRevoke` is
checked and proved for such a file: on two, blocks of different
servers share an ID. `ReadsBack` speaks of a read within one block, of bytes written by calls
that start with the block: elsewhere the index into the buffer is wrong. `BelievesRecorded`
and `DirtyHasReason` speak of the time while the manager runs.

**Fairness.** Threads are scheduled by the operating system, so each thread's steps
are weakly fair; a mutex is passed on because requests and calls are finitely many
in a run. The periodic flusher wakes up because `usleep` ends. In `TokenProtocol` the library
and the revoker of each process and the handlers of the manager are scheduled; in
`Messages` both sides of a connection are, and TCP delivers what was sent. No request, call,
revocation, fault, exit, delete or eviction is ever forced. `CHECK_DEADLOCK FALSE` is
there because every instance ends when its requests are used up.

## Proofs

Every theorem is for all values of the constants the named assumptions of its module
allow: any number of threads, clients, servers, files, blocks, calls and faults.

| Module | Theorems | Inductive invariant |
|---|---|---|
| `MetadataManagerProofs` | `SubtractCorrect`, `TypeCorrect`, `LockDiscipline`, `WritersExclusive`, `FilesRecorded`, `LockingNeverFails`, `Implements` | `IInv`, with `StoredInv` for the files, with `WritersGone` for the refinement |
| `TokenMapProofs` | `MapShape`, `TypeCorrect`, `OverlapsArePutBack`, `RecordCoversMap`, `MapChangesAreExact`, `AddsExactly`, `RevokesExactly` | `MapInv`, `RecordInv`, `ExactInv` |
| `ClientCacheProofs` | `NeverTooManyBlocks`, `CleanIsSent`, `IteratorsStayLive`, `FreshUntilRevoked`, `OldestBlocksGo` | `IInv` |
| `OpenFilesProofs` | `TypeCorrect`, `HandlesStayGood`, `LostTokensHidden`, `CloseKeepsMutex` | `IInv` |
| `FileServerProofs` | `TypeCorrect`, `HoldsOnlyLive`, `LastWriteIsKept`, `ReadsTheBlock` | `IInv` |
| `TransferProofs` | `PlacesApart`, `OneServer`, `TypeCorrect`, `LookupsFindOwn`, `BufferRespected`, `WritesStayInRange`, `WrittenIsRead` | `IInv`, with `DataInv` for what is read |
| `TokenProtocolProofs` | `TypeCorrect`, `TokensRecorded`, `DirtyExplained`, `RevocationsReachOwner` | `IInv` |
| `MessagesProofs` | `TypeCorrect`, `ActsOnWhatWasSent`, `SocketsReturned` | `IInv` |

`Invariant` is the theorem that the inductive invariant always holds. A run checks a
small instance of nearly every property; TLC checked the strengthenings on the same
instances before they were proved.

**Intervals.** `SubtractCorrect`: the pieces `Subtract` returns are intervals, disjoint,
and hold exactly the blocks of the first interval that are not in the second. It rests
on the order of the integers only; the lemmas on the maps of the manager and of the
clients rest on it.

**The manager.** `IInv` adds to types, nested locks and disjoint writers that a thread
runs the handler of its own request (`RequestsMatch`), and that the iterator is valid
while its reader is being revoked (`CursorOK`). `LocksNest` makes the table private to
one thread, so that the entry `FoundWriter` found is still there when the answer
arrives. `WriteTokensDisjoint` is kept by `DropWriter`, since the pieces lie inside the
token they replace, and by `GrantWrite`, since no overlapping entry is left.
`LockingNeverFails` follows from `LocksNest`: who holds `gft_lock` finds `fe_lock` free.

`FilesRecorded` is `RecordedOnServers`, for the servers outside `Fragile`, whatever the
others do. A create holds `gft_lock` from its first call to the entry it makes, and has
stored the file on every server before the next it calls (`CreatesStored`); a file of
the table is on its servers except while a thread is deleting it (`FilesStored`), which
ends with the entry gone. That a second create of the name leaves its files alone is what
keeps the second part; that a create wider than the servers ends the process is what
keeps the stripe within them.

`Implements` is `ImplementsTokenTable`. The claim the abstraction serves is the request
of the one thread that holds `fe_lock` (`OneClaim`). `DropWriter` is
the loss of the blocks of the request by the writer that was found (`WriterDropped`);
`DropReader` the loss of those
blocks of the request that no other read token of the same client covers
(`ReaderDropped`: a client may be in the vector several times); a scan, a call or a
refused revocation is a stutter. `IInv` is strengthened by `WritersGone`: the readers
loop is a write request's, and no key of the map overlaps its interval from the moment
`find` returned nothing until the insert, so `GrantWrite` grants blocks that have no
writer and the map never refuses the key.

**The token map.** `MapInv`: the keys are disjoint, since the map refuses what
overlaps; whoever is inside holds the mutex (`MutexHeld`); leftovers are used up before
their thread goes on (`LeftoversUsed`). An overlap behind the loop of `addPermission` was put
there after it looked, and only the revoker inserts then (`OverlapsArePutBack`).
`RecordInv`: what is held, what is granted and what is in the locals of `addPermission`
and `removePermission` is recorded with that mode or a stronger one, but for `missed`
(`LooseCovered`); the revoker leaves nothing of its interval before it answers
(`RevokedGone`), so that the manager's next grant to another client takes nothing from
this one. `ExactInv` is about a thread that is alone in the map. It looks at the map
together with what is left over (`Full`), which no `Reinsert` or `KeepRest` changes. It
goes through `addPermission` with the map it is to end in (`Final`): outside `bl_int` the
map is that already (`Outer`), inside it differs by the mode of the token only (`Inner`),
and when the loop gives up a token covers the interval (`Given`). The merges keep it
unless the interval was cut at a write token (`Whole`) and a read token is next to it, which is
the case `LosesTokens` excludes. Of `removePermission`, what is outside its interval is
in `Full` as it was found (`RemoveInv`).

**The block cache.** A block that is clean, or that a flush is about to mark clean
(`Marking`), has been sent or is being sent as it is, unless it was written under a flush
(`SentInv`): clean blocks alone are not enough, because `FlushMark` comes one step after
the send. `AloneInv`: without two flushes at once the block under an iterator is dirty,
and the harvester takes clean blocks. `StaleInv` is about a file on one server, where the
IDs of the lookup and the insert agree (`OffsetWithin` is the identity): a block fetched is one that is not in the
cache, which `already_have_token` does not say by itself. `OldestBlocksGo` is about
the harvester's pass, a recursive function on the order of the hash table: after each
element the queue holds the clean blocks used longest ago among those it has passed, as many as the
threshold allows (`QueueFits`), and the smallest length at which that fails does not
exist.

**The open file table.** Before the first `pfs_close` nothing is ever taken back, so an
unused entry is as it was constructed; after it nobody gets the mutex, and what needs the
mutex no longer happens (`Usable`, `CloseKeepsMutex`). In between, a thread that uses the
table holds a descriptor that is open under the name it has read (`UsesOpen`), although it
has given up the mutex while the manager answered. A token missed by a revocation with a name is
behind a descriptor the search did not stop at, because the search stops at the last open one of
the name; a file revoked without its name is in `unnamed` until it is revoked by it.

**The file server.** The invariant speaks of every file on the disk, named or not: a
handler goes on with a file whose name is gone. Each connection's write has a number of
its own (`NumbersInv`). What is in the named file was put there by a live write, and a write
that still receives with that file open is live (`LiveInv`); the last write to open
the file has its block in it or is still receiving, or is empty and has no block
(`LastInv`). That `creat` and `fopen`
find an unused inode is a matter of counting: there is one more than threads
(`ThreadsAssumption`).

**Transfers.** `PlacesApart`: no two blocks of a file have the same server and
the same offset there, for every strip size and width. `IInv` is types, `OwnBlock`,
`KeepsToBuffer` and `InCall`: the range of a
call lies in the file and the loop is at a block between its first and the one behind
its last. The lemmas on `div` and `%` (`InBlocks`, `Ends`, `PartInRange`,
`IndexInBuffer`) say that the part of a block `find_buf_offset` computes is the part
of the call's range in that block, and that a call which starts with a block indexes
less than `nbyte`; the index, smaller than it should be, never leaves the buffer then.

`WrittenIsRead` is `ReadsBack`. Only blocks with a token are in the cache, and what was
cached when a call asked for its tokens is looked up and not fetched (`TokensCover`), so an
empty fetched block never replaces a written one. The bytes a reader may rely on
are in the cache, at the index of their block (`WrittenKept`). At the end of a read the
response is the string made of that one block, and no zero byte ends it before the range
does (`StringHasRange`); so `substr` starts inside it and returns what was written.

**The composition.** A token is a grant first, so `Believed` speaks of granted
processes too; that a grant is of the mode that was recorded needs `Outstanding`: each
process has one request at most, and waits for it with the mode the request has. A
record is dropped when the answer arrives, one step after the revocation was delivered
and its process excused; `Turns` carries that from one step to the other, through any
step of a process between them. `PortsOwned` says that a port in a request or a record
is the port of its process or 0, that nobody changes ports, and that no two processes
listen on one; a revocation that reaches somebody else then has a process that is gone
or has not bound its port. `Dirtied` needs the writer's token or a revoker that is not
idle, from which `DirtyHasReason` follows by `Believed`.

**Messages.** Three invariants of each exchange. `SocketsFit` is `DescriptorsReturned` (with the refused probe), and
that nobody else has a socket for the exchange, so that a process that ends, or another
exchange, disturbs none. `AnswerFits`: what the client has and what is on its way make up the
answer; who reads to the end of the connection is done only when nothing is on its way and no
more can be sent. `CommandFits`: before the first `recv` the message is on its way as it was
sent; after it the command, name and offset are words of the beginning that was received,
and while a write receives, its data and what is on its way make up the data that was sent.
What a beginning of a message is cut into (`WordsOfPart`) is a matter of where it ends: all
messages are beginnings of one text with a command of their own (`MessageIs`), and
`nextToken` on a part of it stops at the next space (`TextParsed`). A write with its
whole header always has a name, so it goes on to receive.

**Assumed** are the named assumptions only: sizes are numbers, and positive where the code
divides by them; the capacity and thresholds of the cache are in their order; the values that
stand for "nobody" are none of the threads or keys; a file server has finitely many threads.
`FreshUntilRevoked` has the hypothesis `StripeWidth = 1`.

**Model-checked only:** liveness under fairness, which is beyond the prover (`RequestsServed`,
`GetsTokens`, `AddEnds`, `DirtyIsFlushed`, `CallsReturn`, `CallsEnd`, `ExchangesEnd`);
and that `WriterExcludesReaders` is violated.

## Plan

Every invariant the runs check is proved. What is left for the prover is the part of the
liveness properties that is not temporal: which step each of them waits for, and that it
is the only one that can be taken, as an invariant (who waits for a lock, for an answer,
for the end of a connection). Then the values `fstat` returns.

## Not modelled

The manager keeps its table in memory only: a restart begins with an empty table, and no
property of tokens survives it; no module restarts the manager. Not modelled either:

- a process that writes zero bytes: in `Transfer` the application's bytes are not zero, so
  the strings made of its buffer end behind the call;
- clients on several hosts: `TokenProtocol` puts its processes on one host, where they
  compete for ports; on hosts of their own each has the first port, and the manager
  tells them apart by address;
- calls of zero bytes (`offset + nbyte - 1` lies before the call, and at offset 0 wraps
  round) and reads past the end of the file;
- threads running out, and the constructor of the cache failing;
- the values returned by `fstat`, and messages on the terminals;
- functions nothing calls (`putBlockIntoCache`, `insertMultipleBlocksIntoCache`), UDP
  sockets and the address functions of `PracticalSocket`;
- the test programs, the socket samples and `cache_impl.hh`, a file of another program
  that nothing includes.
