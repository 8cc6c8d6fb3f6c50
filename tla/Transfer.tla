------------------------------ MODULE Transfer ------------------------------
(***************************************************************************)
(* The bytes of pfs_read and pfs_write (pfs.cc): the loop over the blocks of *)
(* a call, the part of each block it is about, the index into the caller's   *)
(* buffer, and the C strings a read is put together from.  One application   *)
(* thread, as the loops run under file_desc_mutex; meanwhile the flusher     *)
(* and the harvester work on the cache (ClientCache has their steps).        *)
(*                                                                          *)
(* Nobody revokes here.  A block comes empty from its server (ClientCache),  *)
(* so the servers have no part in what a read returns.  pfs_write also       *)
(* treats its buffer as a C string, before and after its loop; the           *)
(* application writes no zero bytes, so such a string ends behind the bytes  *)
(* of the call: at a terminator the application has put there, or wherever    *)
(* the memory of the process has a zero byte.                               *)
(***************************************************************************)
EXTENDS Striping, SequencesExt

CONSTANTS
  BlockSize,   \* PFS_BLOCK_SIZE * ONEKB, in bytes
  Widths,      \* the stripe widths a file may be created with
  NumBlocks,   \* bound: calls stay within the first NumBlocks blocks
  MaxLen,      \* bound: bytes of a call
  MaxCalls     \* bound: calls

ASSUME SizeAssumption == BlockSize \in Nat \ {0} /\ Widths \subseteq Nat \ {0}
ASSUME BoundsAssumption == NumBlocks \in Nat \ {0} /\ MaxLen \in Nat \ {0} /\ MaxCalls \in Nat

Blocks == 0 .. NumBlocks - 1
Positions == 0 .. NumBlocks * BlockSize - 1

\* Bytes: the terminator, a byte of memory next to a buffer, the status of a block,
\* and the bytes the application writes, each of them another number.
NUL == 0
Junk == -1
Status == -2
Byte(call, k) == 1 + call * MaxLen + k

VARIABLES
  width, tokens,
  usedSpace,          \* the cache: blocks by their IDs
  \* the call: where it is, its arguments, whether its buffer is terminated, its number,
  \* the block the loop is at, already_have_token, and the string a read builds
  pc, op, offset, nbyte, terminated, calls, block, already_have_token, response,
  crashed,
  \* history: the bytes written from the start of a block and cached since, whether the
  \* call has read beyond the caller's memory, and whether it has put bytes that are not
  \* of the call into a block
  written, overread, foreign

callVars == << pc, op, offset, nbyte, terminated, calls, already_have_token >>
bufferVars == << overread, foreign >>
vars == << width, tokens, usedSpace, callVars, block, response, crashed, written, bufferVars >>

Cached == DOMAIN usedSpace

Bytes == {NUL, Junk, Status} \union {Byte(c, k) : c \in 1 .. MaxCalls, k \in 0 .. MaxLen - 1}
BlockT == [data : [0 .. BlockSize - 1 -> Bytes], status : {"C", "D"}, origin : Blocks]

TypeOK ==
  /\ width \in Widths
  /\ tokens \subseteq Blocks
  /\ Cached \subseteq Nat /\ \A k \in Cached : usedSpace[k] \in BlockT
  /\ pc \in {"idle", "loop"}
  /\ op \in {"read", "write"}
  /\ offset \in Positions
  /\ nbyte \in 1 .. MaxLen
  /\ calls \in 0 .. MaxCalls
  /\ block \in 0 .. NumBlocks
  /\ already_have_token \subseteq Blocks
  /\ response \in Seq(Bytes)
  /\ crashed \in BOOLEAN
  /\ written \in [Positions -> Bytes]
  /\ terminated \in BOOLEAN /\ overread \in BOOLEAN /\ foreign \in BOOLEAN

Empty(i) == [data |-> [j \in 0 .. BlockSize - 1 |-> NUL], status |-> "C", origin |-> i]

Init ==
  /\ width \in Widths
  /\ tokens = {}
  /\ usedSpace = [k \in {} |-> Empty(0)]
  /\ pc = "idle" /\ op = "read" /\ offset = 0 /\ nbyte = 1 /\ calls = 0 /\ block = 0
  /\ already_have_token = {}
  /\ response = << >>
  /\ crashed = FALSE
  /\ written = [p \in Positions |-> NUL]
  /\ terminated = FALSE /\ overread = FALSE /\ foreign = FALSE
-----------------------------------------------------------------------------
(* Offsets.                                                                 *)

\* The first and the last block of a call.
BlockOffset == offset \div BlockSize
EndBlockOffset == (offset + nbyte - 1) \div BlockSize

\* Mutant: every block is written from its start.
BufStart_Zero(i) == 0

\* find_buf_offset: the first and the last position in block i.
BufStart(i) == IF i = BlockOffset THEN offset % BlockSize ELSE 0

\* Mutant: the last block is written one byte too far.
BufEnd_OneMore(i) ==
  IF i = EndBlockOffset THEN (offset + nbyte) % BlockSize ELSE BlockSize - 1

\* Mutant: the position is in the file, not in the block.
BufEnd_NoModulo(i) == IF i = EndBlockOffset THEN offset + nbyte - 1 ELSE BlockSize - 1

BufEnd(i) == IF i = EndBlockOffset THEN (offset + nbyte - 1) % BlockSize ELSE BlockSize - 1

\* The byte of the buffer that goes to position j of block i.
BufIndex(i, j) == i - BlockOffset + j

\* What the buffer has at an index: the bytes of the call, their terminator, and what lies
\* beyond.
Buffer(n, beyond) ==
  CASE n < nbyte -> Byte(calls, n)
    [] n = nbyte /\ terminated -> NUL
    [] OTHER -> beyond

\* The block's data once pfs_write has been over it.
Overwritten(data, i, beyond) ==
  [j \in DOMAIN data \union (BufStart(i) .. BufEnd(i)) |->
     IF j \in BufStart(i) .. BufEnd(i) THEN Buffer(BufIndex(i, j), beyond) ELSE data[j]]

\* The loop over block i comes to an index of the buffer from n on.
Copies(i, n) == \E j \in BufStart(i) .. BufEnd(i) : BufIndex(i, j) >= n

\* The first index that is not the caller's.
BufferEnd == IF terminated THEN nbyte + 1 ELSE nbyte

\* A block read as a C string: up to the terminator, and in a block without one on
\* into its status and the padding after it.
CString(b, padding) ==
  LET full == [n \in 1 .. BlockSize |-> b.data[n - 1]]
      ends == {n \in 1 .. BlockSize : full[n] = NUL}
  IN IF ends = {} THEN full \o << Status >> \o padding ELSE SubSeq(full, 1, Min(ends) - 1)
-----------------------------------------------------------------------------
(* The calls.                                                               *)

\* The call has its tokens; already_have_token is what it found before it asked.  A write
\* makes a string of its buffer, as far as the next zero byte, and uses it for nothing: if
\* that is not the caller's, the process may end there.
StartCall(o, from, n, term) ==
  LET range == (from \div BlockSize) .. ((from + n - 1) \div BlockSize)
  IN /\ ~crashed
     /\ pc = "idle"
     /\ calls < MaxCalls
     /\ range \subseteq Blocks
     /\ pc' = "loop" /\ op' = o /\ offset' = from /\ nbyte' = n /\ calls' = calls + 1
     /\ terminated' = term
     /\ block' = from \div BlockSize
     /\ already_have_token' = tokens \intersect range
     /\ tokens' = tokens \union range
     /\ response' = << >>
     /\ overread' = (o = "write" /\ ~term) /\ foreign' = FALSE
     /\ crashed' \in {FALSE, overread'}
     /\ UNCHANGED << width, usedSpace, written >>

Hit == block \in already_have_token /\ block \in Cached

AtBlock(o) == ~crashed /\ pc = "loop" /\ op = o /\ block <= EndBlockOffset

\* insertSingleBlockIntoCache: a block with that ID stays.
Insert(b) ==
  LET k == OffsetWithin(block, width)
  IN usedSpace' = [j \in Cached \union {k} |-> IF j \in Cached THEN usedSpace[j] ELSE b]

\* A block that is not looked up, or not found, is fetched, and is empty.
ReadBlock ==
  /\ AtBlock("read")
  /\ \/ /\ Hit
        /\ \E padding \in {<< >>, << Junk >>} :
             response' = response \o CString(usedSpace[block], padding)
        /\ UNCHANGED usedSpace
     \/ /\ ~Hit
        /\ Insert(Empty(block))
        /\ UNCHANGED response
  /\ block' = block + 1
  /\ UNCHANGED << width, tokens, callVars, crashed, written, bufferVars >>

\* The bytes a write puts where a reader will find them: those of the first block of
\* a call that starts with the block.
NowWritten ==
  [p \in Positions |->
     IF p \div BlockSize # block \/ p \notin offset .. offset + nbyte - 1 THEN written[p]
     ELSE IF block = BlockOffset /\ offset % BlockSize = 0 THEN Byte(calls, p - offset)
     ELSE NUL]

\* Mutant: pfs_write changes a copy of the cached block.
WriteBlock_Copy ==
  /\ AtBlock("write")
  /\ \E beyond \in {NUL, Junk} :
       \/ Hit /\ UNCHANGED usedSpace
       \/ ~Hit /\ Insert([Empty(block) EXCEPT !.data = Overwritten(@, block, beyond), !.status = "D"])
  /\ overread' = (overread \/ Copies(block, BufferEnd))
  /\ foreign' = (foreign \/ Copies(block, nbyte))
  /\ crashed' \in {FALSE, Copies(block, BufferEnd)}
  /\ written' = NowWritten
  /\ block' = block + 1
  /\ UNCHANGED << width, tokens, callVars, response >>

WriteBlock ==
  /\ AtBlock("write")
  /\ \E beyond \in {NUL, Junk} :
       \/ /\ Hit
          /\ usedSpace' = [usedSpace EXCEPT ![block].data = Overwritten(@, block, beyond),
                                            ![block].status = "D"]
       \/ /\ ~Hit
          /\ Insert([Empty(block) EXCEPT !.data = Overwritten(@, block, beyond), !.status = "D"])
  /\ overread' = (overread \/ Copies(block, BufferEnd))
  /\ foreign' = (foreign \/ Copies(block, nbyte))
  /\ crashed' \in {FALSE, Copies(block, BufferEnd)}
  /\ written' = NowWritten
  /\ block' = block + 1
  /\ UNCHANGED << width, tokens, callVars, response >>

\* What a read gives the caller: substr of the string, from the offset in the first
\* block on, up to nbyte bytes.
Start == offset % BlockSize
Result == SubSeq(response, Start + 1, Min({Start + nbyte, Len(response)}))

\* The loop is over.  A read's substr throws when it is to start behind the end of the
\* string, and nothing catches that: the process is terminated.  A write returns the
\* length of its buffer as a string, and reads that far once more.
Return ==
  /\ ~crashed
  /\ pc = "loop"
  /\ block > EndBlockOffset
  /\ pc' = "idle"
  /\ \/ /\ op = "read"
        /\ crashed' = (Start > Len(response))
        /\ UNCHANGED overread
     \/ /\ op = "write"
        /\ overread' = (overread \/ ~terminated)
        /\ crashed' \in {FALSE, ~terminated}
  /\ UNCHANGED << width, tokens, usedSpace, op, offset, nbyte, terminated, calls, block,
                  already_have_token, response, written, foreign >>
-----------------------------------------------------------------------------
(* The cache, under cache_mutex, between any two blocks.                    *)

\* A flush has sent a dirty block.
Flush(k) ==
  /\ ~crashed
  /\ usedSpace[k].status = "D"
  /\ usedSpace' = [usedSpace EXCEPT ![k].status = "C"]
  /\ UNCHANGED << width, tokens, callVars, block, response, crashed, written, bufferVars >>

\* The harvester takes a clean one.
Evict(k) ==
  /\ ~crashed
  /\ usedSpace[k].status = "C"
  /\ usedSpace' = [j \in Cached \ {k} |-> usedSpace[j]]
  /\ written' = [p \in Positions |-> IF p \div BlockSize = usedSpace[k].origin THEN NUL ELSE written[p]]
  /\ UNCHANGED << width, tokens, callVars, block, response, crashed, bufferVars >>

Next ==
  \/ \E from \in Positions, n \in 1 .. MaxLen :
       StartCall("read", from, n, FALSE) \/ \E term \in BOOLEAN : StartCall("write", from, n, term)
  \/ ReadBlock \/ WriteBlock \/ Return
  \/ \E k \in Cached : Flush(k) \/ Evict(k)

Spec == Init /\ [][Next]_vars
-----------------------------------------------------------------------------
\* A write changes no byte of the cached blocks outside its own range, whichever of
\* its blocks the loop is at, and a read changes none (file on one server).
WritesInRange ==
  [][width = 1 =>
       \A k \in Cached \intersect DOMAIN usedSpace' : \A j \in 0 .. BlockSize - 1 :
         usedSpace'[k].data[j] # usedSpace[k].data[j] =>
           op = "write" /\ usedSpace[k].origin * BlockSize + j \in offset .. offset + nbyte - 1]_vars

\* find_buf_offset and the index into the buffer go together: only a write that starts
\* inside a block puts bytes into the cache that are not of the call, however many blocks
\* it is about.  Beyond the caller's memory it reads then, or if its buffer is not
\* terminated, and for no other reason.
KeepsToBuffer ==
  /\ foreign => Start # 0
  /\ overread => Start # 0 \/ ~terminated

\* The call is about one block, and every byte from the start of that block to the
\* end of its range was last written by a call that started with the block.
OnWritten ==
  /\ BlockOffset = EndBlockOffset
  /\ \A p \in BlockOffset * BlockSize .. offset + nbyte - 1 : written[p] # NUL

\* Such a read returns what was written, byte for byte, and is not terminated, after
\* whatever other reads and writes, flushes and evictions of other blocks.
ReadsBack ==
  op = "read" /\ width = 1 /\ pc = "loop" /\ block > EndBlockOffset /\ OnWritten =>
    Result = [n \in 1 .. nbyte |-> written[offset + n - 1]]

\* "create logical block ID + server" (readFromFileServer): what a lookup of a block
\* finds is that block.  The ID has no server in it, so this takes a file on one
\* server: the offset within the server tells its blocks apart.
OwnBlock == width = 1 => \A k \in Cached : usedSpace[k].origin = k
=============================================================================
