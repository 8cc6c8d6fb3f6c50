--------------------------- MODULE TransferProofs ---------------------------
(***************************************************************************)
(* Striping, and the offsets of pfs_read and pfs_write, for every block and *)
(* strip size, every stripe width and calls of any length.                  *)
(***************************************************************************)
EXTENDS Transfer, SequenceTheorems, WellFoundedInduction, TLAPS

\* Division with remainder.
LEMMA DivMod ==
  ASSUME NEW n \in Nat \ {0}, NEW a \in Nat
  PROVE  /\ a \div n \in Nat
         /\ a % n \in 0 .. n - 1
         /\ a = n * (a \div n) + (a % n)
<1>1. a \div n \in Int /\ a % n \in 0 .. n - 1
  BY SMTT(30)
<1>2. a = n * (a \div n) + (a % n)
  BY SMTT(30)
<1>3. a \div n \in Nat
  BY SMTT(30)
<1> QED
  BY <1>1, <1>2, <1>3

\* A multiple of n and a remainder determine each other.
LEMMA Unique ==
  ASSUME NEW n \in Nat \ {0}, NEW p \in Nat, NEW q \in Nat,
         NEW r \in 0 .. n - 1, NEW s \in 0 .. n - 1,
         n * p + r = n * q + s
  PROVE  p = q /\ r = s
<1>1. CASE p < q
  <2>1. p + 1 <= q
    BY <1>1
  <2>2. n * (p + 1) <= n * q
    BY <2>1, SMTT(30)
  <2>3. n * (p + 1) = n * p + n
    BY SMTT(30)
  <2> QED
    BY <2>2, <2>3
<1>2. CASE q < p
  <2>1. q + 1 <= p
    BY <1>2
  <2>2. n * (q + 1) <= n * p
    BY <2>1, SMTT(30)
  <2>3. n * (q + 1) = n * q + n
    BY SMTT(30)
  <2> QED
    BY <2>2, <2>3
<1>3. CASE p = q
  BY <1>3
<1> QED
  BY <1>1, <1>2, <1>3

\* No two blocks of a file share a server and an offset there: what corresponding_server
\* computes identifies the block, though the offset alone, of which the cache makes its
\* block ID, does not.
THEOREM PlacesApart ==
  ASSUME NEW n \in Nat \ {0}, NEW a \in Nat, NEW b \in Nat,
         Place(a, n) = Place(b, n)
  PROVE  a = b
<1> DEFINE p == a \div STRIP_SIZE
           q == b \div STRIP_SIZE
           r == a % STRIP_SIZE
           s == b % STRIP_SIZE
<1>1. /\ p \in Nat /\ r \in 0 .. STRIP_SIZE - 1 /\ a = STRIP_SIZE * p + r
      /\ q \in Nat /\ s \in 0 .. STRIP_SIZE - 1 /\ b = STRIP_SIZE * q + s
  BY DivMod, StripAssumption
<1>2. p % n = q % n /\ (p \div n) * STRIP_SIZE + r = (q \div n) * STRIP_SIZE + s
  BY DEF Place, ServerNumber, OffsetWithin
<1> HIDE DEF p, q, r, s
<1>3. /\ p \div n \in Nat /\ p = n * (p \div n) + (p % n)
      /\ q \div n \in Nat /\ q = n * (q \div n) + (q % n)
  BY <1>1, DivMod
<1>4. p \div n = q \div n /\ r = s
  <2> DEFINE x == p \div n
             y == q \div n
  <2>1. x \in Nat /\ y \in Nat
    BY <1>3
  <2>2. x * STRIP_SIZE + r = y * STRIP_SIZE + s
    BY <1>2
  <2> HIDE DEF x, y
  <2>3. STRIP_SIZE * x + r = STRIP_SIZE * y + s
    BY <2>1, <2>2, <1>1, StripAssumption, SMTT(30)
  <2>4. x = y /\ r = s
    BY <2>1, <2>3, <1>1, StripAssumption, Unique
  <2> QED
    BY <2>4 DEF x, y
<1>5. p = q
  BY <1>2, <1>3, <1>4
<1> QED
  BY <1>1, <1>4, <1>5

\* On one server the offset is the block number, so that there the block ID is the
\* same for the lookup and for the insert.
THEOREM OneServer ==
  ASSUME NEW b \in Nat
  PROVE  OffsetWithin(b, 1) = b
<1> DEFINE p == b \div STRIP_SIZE
           r == b % STRIP_SIZE
<1>1. p \in Nat /\ r \in 0 .. STRIP_SIZE - 1 /\ b = STRIP_SIZE * p + r
  BY DivMod, StripAssumption
<1>2. OffsetWithin(b, 1) = (p \div 1) * STRIP_SIZE + r
  BY DEF OffsetWithin
<1> HIDE DEF p, r
<1>3. p \div 1 = p
  BY <1>1, SMTT(30)
<1>4. p * STRIP_SIZE = STRIP_SIZE * p
  BY <1>1, StripAssumption, SMTT(30)
<1> QED
  BY <1>1, <1>2, <1>3, <1>4
-----------------------------------------------------------------------------

\* The range of a call lies in the file, the loop in the blocks of the call.
InCall ==
  /\ offset + nbyte - 1 \in Positions
  /\ pc = "loop" => calls > 0 /\ block \in BlockOffset .. EndBlockOffset + 1

IInv == TypeOK /\ InCall /\ OwnBlock /\ KeepsToBuffer
-----------------------------------------------------------------------------
(* Facts about offsets.                                                     *)

\* A position in the file is in one of its blocks.
LEMMA InBlocks ==
  ASSUME NEW p \in Positions
  PROVE  /\ p \div BlockSize \in Blocks
         /\ p % BlockSize \in 0 .. BlockSize - 1
         /\ p = BlockSize * (p \div BlockSize) + (p % BlockSize)
<1>1. p \in Nat /\ p < NumBlocks * BlockSize
  BY SizeAssumption, BoundsAssumption DEF Positions
<1>2. /\ p \div BlockSize \in Nat
      /\ p % BlockSize \in 0 .. BlockSize - 1
      /\ p = BlockSize * (p \div BlockSize) + (p % BlockSize)
  BY <1>1, SizeAssumption, DivMod
<1>3. p \div BlockSize < NumBlocks
  <2> DEFINE q == p \div BlockSize
             r == p % BlockSize
  <2>1. SUFFICES ASSUME q >= NumBlocks PROVE FALSE
    BY <1>2, BoundsAssumption
  <2>2. q \in Nat /\ r \in Nat /\ p = BlockSize * q + r
    BY <1>2, SizeAssumption
  <2> HIDE DEF q, r
  <2>3. BlockSize * q >= NumBlocks * BlockSize
    BY <2>1, <2>2, SizeAssumption, BoundsAssumption, SMTT(30)
  <2>4. BlockSize * q \in Nat /\ NumBlocks * BlockSize \in Nat
    BY <2>2, SizeAssumption, BoundsAssumption
  <2> QED
    BY <1>1, <2>2, <2>3, <2>4
<1> QED
  BY <1>2, <1>3, BoundsAssumption DEF Blocks

\* The first and the last byte of a call.
LEMMA Ends ==
  ASSUME TypeOK, InCall
  PROVE  /\ BlockOffset \in Blocks /\ EndBlockOffset \in Blocks
         /\ BlockOffset \in Nat /\ EndBlockOffset \in Nat
         /\ Start \in 0 .. BlockSize - 1
         /\ (offset + nbyte - 1) % BlockSize \in 0 .. BlockSize - 1
         /\ offset = BlockSize * BlockOffset + Start
         /\ offset + nbyte - 1 = BlockSize * EndBlockOffset + ((offset + nbyte - 1) % BlockSize)
<1>1. offset \in Positions /\ offset + nbyte - 1 \in Positions
  BY DEF TypeOK, InCall
<1>2. Blocks \subseteq Nat
  BY DEF Blocks
<1> QED
  BY <1>1, <1>2, InBlocks DEF BlockOffset, EndBlockOffset, Start

\* The part of a block that find_buf_offset gives lies in the block.
LEMMA PartInBlock ==
  ASSUME TypeOK, InCall, NEW i \in Nat
  PROVE  BufStart(i) \in 0 .. BlockSize - 1 /\ BufEnd(i) \in 0 .. BlockSize - 1
  BY Ends, SizeAssumption DEF BufStart, BufEnd, Start

\* The part of a block is the part of the range of the call that lies in it.
LEMMA PartInRange ==
  ASSUME TypeOK, InCall, NEW i \in BlockOffset .. EndBlockOffset,
         NEW j \in BufStart(i) .. BufEnd(i)
  PROVE  i * BlockSize + j \in offset .. offset + nbyte - 1
<1> DEFINE first == BlockOffset
           end == EndBlockOffset
           last == (offset + nbyte - 1) % BlockSize
<1>1. /\ first \in Nat /\ end \in Nat /\ i \in Nat /\ first <= i /\ i <= end
      /\ Start \in 0 .. BlockSize - 1 /\ last \in 0 .. BlockSize - 1
      /\ offset = BlockSize * first + Start
      /\ offset + nbyte - 1 = BlockSize * end + last
  BY Ends
<1>2. /\ BufStart(i) = IF i = first THEN Start ELSE 0
      /\ BufEnd(i) = IF i = end THEN last ELSE BlockSize - 1
  BY DEF BufStart, BufEnd, Start
<1>3. j \in 0 .. BlockSize - 1
  <2>1. BufStart(i) \in 0 .. BlockSize - 1 /\ BufEnd(i) \in 0 .. BlockSize - 1
    BY <1>1, PartInBlock
  <2> QED
    BY <2>1, SizeAssumption
<1>4. offset \in Nat /\ nbyte \in Nat
  BY SizeAssumption, BoundsAssumption DEF TypeOK, Positions
<1> HIDE DEF first, end, last
<1>5. BlockSize \in Nat \ {0}
  BY SizeAssumption
<1>6. i * BlockSize = BlockSize * i
  BY <1>1, <1>5, SMTT(30)
<1>7. BlockSize * first + Start <= BlockSize * i + j
  <2>1. CASE i = first
    BY <1>1, <1>2, <1>3, <2>1, <1>5
  <2>2. CASE i # first
    <3>1. BlockSize * (first + 1) <= BlockSize * i
      BY <1>1, <2>2, <1>5, SMTT(30)
    <3>2. BlockSize * (first + 1) = BlockSize * first + BlockSize
      BY <1>1, <1>5, SMTT(30)
    <3> QED
      BY <1>1, <1>3, <1>5, <3>1, <3>2
  <2> QED
    BY <2>1, <2>2
<1>8. BlockSize * i + j <= BlockSize * end + last
  <2>1. CASE i = end
    BY <1>1, <1>2, <1>3, <2>1, <1>5
  <2>2. CASE i # end
    <3>1. BlockSize * (i + 1) <= BlockSize * end
      BY <1>1, <2>2, <1>5, SMTT(30)
    <3>2. BlockSize * (i + 1) = BlockSize * i + BlockSize
      BY <1>1, <1>5, SMTT(30)
    <3> QED
      BY <1>1, <1>3, <1>5, <3>1, <3>2
  <2> QED
    BY <2>1, <2>2
<1>9. BlockSize * first \in Nat /\ BlockSize * i \in Nat /\ BlockSize * end \in Nat
  BY <1>1, <1>5
<1> QED
  BY <1>1, <1>3, <1>4, <1>6, <1>7, <1>8, <1>9

\* A call that starts with a block indexes the caller's buffer only.
LEMMA IndexInBuffer ==
  ASSUME TypeOK, InCall, Start = 0,
         NEW i \in BlockOffset .. EndBlockOffset, NEW j \in BufStart(i) .. BufEnd(i)
  PROVE  BufIndex(i, j) < nbyte
<1> DEFINE first == BlockOffset
           d == i - first
<1>1. first \in Nat /\ i \in Nat /\ first <= i /\ offset = BlockSize * first
      /\ j \in 0 .. BlockSize - 1
  BY Ends, PartInBlock, SizeAssumption
<1>2. i * BlockSize + j <= offset + nbyte - 1
  BY PartInRange, <1>1, SizeAssumption
<1>3. offset \in Nat /\ nbyte \in Nat /\ BlockSize \in Nat \ {0}
  BY SizeAssumption, BoundsAssumption DEF TypeOK, Positions
<1>4. BufIndex(i, j) = d + j
  BY DEF BufIndex
<1> HIDE DEF first
<1>5. d \in Nat /\ i = first + d
  BY <1>1
<1> HIDE DEF d
<1>6. i * BlockSize = BlockSize * first + d * BlockSize
  BY <1>1, <1>3, <1>5, SMTT(30)
<1>7. d <= d * BlockSize /\ d * BlockSize \in Nat
  BY <1>3, <1>5, SMTT(30)
<1>8. BlockSize * first \in Nat
  BY <1>1, <1>3
<1> QED
  BY <1>1, <1>2, <1>3, <1>4, <1>5, <1>6, <1>7, <1>8
-----------------------------------------------------------------------------
(* Facts about blocks and strings.                                          *)

\* A non-empty set of numbers has a least one.
LEMMA MinIn ==
  ASSUME NEW S \in SUBSET Nat, S # {}
  PROVE  Min(S) \in S
<1>1. PICK x \in S : \A y \in S : ~(<< y, x >> \in OpToRel(<, Nat))
  BY WFMin, NatLessThanWellFounded
<1>2. \A y \in S : ~(y < x)
  BY <1>1 DEF OpToRel
<1>3. \A y \in S : x =< y
  BY <1>2
<1> QED
  BY <1>3 DEF Min

\* A block of the cache keeps its length and its origin when a write has been over
\* it, and holds bytes only.
LEMMA OverwrittenBlock ==
  ASSUME TypeOK, InCall, NEW beyond \in {NUL, Junk}, NEW i \in BlockOffset .. EndBlockOffset,
         calls > 0, NEW data \in [0 .. BlockSize - 1 -> Bytes]
  PROVE  Overwritten(data, i, beyond) \in [0 .. BlockSize - 1 -> Bytes]
<1>1. BlockOffset \in Nat /\ i \in Nat /\ i >= BlockOffset
  BY Ends
<1>2. BufStart(i) .. BufEnd(i) \subseteq 0 .. BlockSize - 1
  <2>1. BufStart(i) \in 0 .. BlockSize - 1 /\ BufEnd(i) \in 0 .. BlockSize - 1
    BY <1>1, PartInBlock
  <2> QED
    BY <2>1, SizeAssumption
<1>3. ASSUME NEW j \in BufStart(i) .. BufEnd(i), BufIndex(i, j) < nbyte
      PROVE  Byte(calls, BufIndex(i, j)) \in Bytes
  <2>1. j \in Nat
    BY <1>2, <1>3
  <2>2. BufIndex(i, j) \in 0 .. MaxLen - 1 /\ calls \in 1 .. MaxCalls
    BY <1>1, <1>3, <2>1, BoundsAssumption DEF TypeOK, BufIndex
  <2> QED
    BY <2>2 DEF Bytes
<1>4. beyond \in Bytes /\ NUL \in Bytes
  BY DEF Bytes
<1>5. ASSUME NEW j \in BufStart(i) .. BufEnd(i)
      PROVE  Buffer(BufIndex(i, j), beyond) \in Bytes
  BY <1>3, <1>4, <1>5 DEF Buffer
<1> QED
  BY <1>2, <1>5 DEF Overwritten

\* What a read takes from a block is a string of bytes.
LEMMA StringOfBlock ==
  ASSUME NEW b \in BlockT, NEW padding \in {<< >>, << Junk >>}
  PROVE  CString(b, padding) \in Seq(Bytes)
<1> DEFINE full == [n \in 1 .. BlockSize |-> b.data[n - 1]]
           ends == {n \in 1 .. BlockSize : full[n] = NUL}
<1>1. full \in Seq(Bytes) /\ Len(full) = BlockSize
  BY SizeAssumption DEF BlockT
<1>2. CASE ends = {}
  <2>1. << Status >> \in Seq(Bytes) /\ padding \in Seq(Bytes)
    <3>1. Status \in Bytes /\ Junk \in Bytes
      BY DEF Bytes
    <3>2. \A x \in Bytes : << x >> \in Seq(Bytes)
      OBVIOUS
    <3>3. << >> \in Seq(Bytes)
      OBVIOUS
    <3> QED BY <3>1, <3>2, <3>3
  <2>2. full \o << Status >> \o padding \in Seq(Bytes)
    <3> HIDE DEF full
    <3> QED BY <1>1, <2>1
  <2>3. CString(b, padding) = full \o << Status >> \o padding
    BY <1>2 DEF CString
  <2> QED
    BY <2>2, <2>3
<1>3. CASE ends # {}
  <2>1. Min(ends) \in ends
    <3>1. ends \in SUBSET Nat
      BY SizeAssumption
    <3> HIDE DEF ends
    <3> QED BY <1>3, <3>1, MinIn
  <2>2. Min(ends) \in 1 .. BlockSize
    BY <1>1, <2>1
  <2>3. CString(b, padding) = SubSeq(full, 1, Min(ends) - 1)
    BY <1>3, <2>2, SizeAssumption DEF CString
  <2>4. \A m \in 1 .. Min(ends) - 1 : full[m] \in Bytes
    <3> HIDE DEF ends
    <3> QED BY <1>1, <2>2, SizeAssumption
  <2>5. SubSeq(full, 1, Min(ends) - 1) \in Seq(Bytes)
    <3> HIDE DEF full, ends
    <3> QED BY <2>2, <2>4, SubSeqProperties, SizeAssumption
  <2> QED
    BY <2>3, <2>5
<1> QED
  BY <1>2, <1>3
-----------------------------------------------------------------------------
(* The invariant.                                                           *)

\* The offset of a block within its server is a number, and on one server it is the
\* number of the block.
LEMMA OffsetTyped ==
  ASSUME NEW b \in Nat, NEW w \in Nat \ {0}
  PROVE  OffsetWithin(b, w) \in Nat /\ (w = 1 => OffsetWithin(b, w) = b)
<1> DEFINE p == b \div STRIP_SIZE
           q == p \div w
           r == b % STRIP_SIZE
<1>1. p \in Nat /\ r \in Nat
  BY DivMod, StripAssumption
<1> HIDE DEF p
<1>2. q \in Nat
  BY <1>1, DivMod
<1>3. OffsetWithin(b, w) = q * STRIP_SIZE + r
  BY DEF OffsetWithin, p
<1> HIDE DEF q, r
<1>4. q * STRIP_SIZE \in Nat
  BY <1>2, StripAssumption
<1> QED
  BY <1>1, <1>3, <1>4, OneServer

\* A block of this number may be inserted.
LEMMA InsertKeeps ==
  ASSUME TypeOK, OwnBlock, block \in Blocks, width' = width,
         NEW b \in BlockT, b.origin = block, Insert(b)
  PROVE  OwnBlock' /\ Cached' \subseteq Nat /\ \A k \in Cached' : usedSpace'[k] \in BlockT
<1>1. block \in Nat /\ width \in Nat \ {0}
  BY SizeAssumption DEF TypeOK, Blocks
<1>2. OffsetWithin(block, width) \in Nat /\ (width = 1 => OffsetWithin(block, width) = block)
  BY <1>1, OffsetTyped
<1> QED
  BY <1>2 DEF Insert, TypeOK, OwnBlock, Cached

\* The states the program starts in satisfy the invariant.
LEMMA InitInv == Init => IInv
<1> SUFFICES ASSUME Init PROVE IInv
  OBVIOUS
<1>1. 0 \in Positions /\ 0 \in Blocks
  <2>1. NumBlocks * BlockSize \in Nat \ {0}
    BY SizeAssumption, BoundsAssumption, SMTT(30)
  <2> QED
    BY <2>1, BoundsAssumption DEF Positions, Blocks
<1>2. TypeOK
  <2>1. NUL \in Bytes
    BY DEF Bytes
  <2> QED
    BY <1>1, <2>1, BoundsAssumption DEF Init, TypeOK, Cached
<1>3. InCall
  BY <1>1 DEF Init, InCall
<1>4. OwnBlock /\ KeepsToBuffer
  BY DEF Init, OwnBlock, KeepsToBuffer, Cached
<1> QED
  BY <1>2, <1>3, <1>4 DEF IInv

\* Division keeps the order.
LEMMA DivMonotone ==
  ASSUME NEW n \in Nat \ {0}, NEW a \in Nat, NEW b \in Nat, a <= b
  PROVE  a \div n <= b \div n
<1> DEFINE p == a \div n
           q == b \div n
           r == a % n
           s == b % n
<1>1. /\ p \in Nat /\ r \in 0 .. n - 1 /\ a = n * p + r
      /\ q \in Nat /\ s \in 0 .. n - 1 /\ b = n * q + s
  BY DivMod
<1> HIDE DEF p, q, r, s
<1>2. SUFFICES ASSUME q + 1 <= p PROVE FALSE
  BY <1>1 DEF p, q
<1>3. n * (q + 1) <= n * p
  BY <1>1, <1>2, SMTT(30)
<1>4. n * (q + 1) = n * q + n
  BY <1>1, SMTT(30)
<1>5. n * p \in Nat /\ n * q \in Nat
  BY <1>1
<1> QED
  BY <1>1, <1>3, <1>4, <1>5

\* A position whose block is in the file is in the file.
LEMMA InFile ==
  ASSUME NEW z \in Nat, z \div BlockSize \in Blocks
  PROVE  z \in Positions
<1> DEFINE q == z \div BlockSize
           r == z % BlockSize
<1>1. BlockSize \in Nat \ {0} /\ NumBlocks \in Nat \ {0}
  BY SizeAssumption, BoundsAssumption
<1>2. q \in 0 .. NumBlocks - 1
  BY DEF Blocks
<1>3. r \in 0 .. BlockSize - 1 /\ z = BlockSize * q + r
  BY <1>1, DivMod
<1> HIDE DEF q, r
<1>4. BlockSize * (q + 1) <= NumBlocks * BlockSize
  BY <1>1, <1>2, SMTT(30)
<1>5. BlockSize * (q + 1) = BlockSize * q + BlockSize
  BY <1>1, <1>2, SMTT(30)
<1>6. NumBlocks * BlockSize \in Nat /\ BlockSize * q \in Nat
  BY <1>1, <1>2
<1> QED
  BY <1>1, <1>3, <1>4, <1>5, <1>6 DEF Positions

\* A call starts with its range and its first block in the file.
LEMMA StartCallInv ==
  ASSUME IInv, NEW o \in {"read", "write"}, NEW from \in Positions, NEW n \in 1 .. MaxLen,
         NEW term \in BOOLEAN, StartCall(o, from, n, term)
  PROVE  IInv'
<1> DEFINE first == from \div BlockSize
           last == (from + n - 1) \div BlockSize
<1>1. from \in Nat /\ from + n - 1 \in Nat /\ from <= from + n - 1 /\ BlockSize \in Nat \ {0}
  BY SizeAssumption, BoundsAssumption DEF Positions
<1>2. first \in Nat /\ last \in Nat /\ first <= last
  BY <1>1, DivMod, DivMonotone
<1>3. first .. last \subseteq Blocks
  BY DEF StartCall
<1>4. from + n - 1 \in Positions
  BY <1>1, <1>2, <1>3, InFile
<1>5. BlockOffset' = first /\ EndBlockOffset' = last /\ block' = first
  BY DEF StartCall, BlockOffset, EndBlockOffset
<1> HIDE DEF first, last
<1>6. first \in 0 .. NumBlocks /\ calls + 1 \in 1 .. MaxCalls
  BY <1>2, <1>3, BoundsAssumption DEF Blocks, IInv, TypeOK, StartCall
<1>7. TypeOK'
  <2>1. /\ tokens' \subseteq Blocks /\ already_have_token' \subseteq Blocks /\ calls' \in 0 .. MaxCalls
    <3>1. already_have_token' \subseteq tokens /\ tokens' = tokens \union (first .. last)
      BY DEF StartCall, first, last
    <3>2. calls' = calls + 1
      BY DEF StartCall
    <3> QED
      BY <1>3, <1>6, <3>1, <3>2 DEF IInv, TypeOK
  <2>2. /\ pc' = "loop" /\ op' = o /\ offset' = from /\ nbyte' = n /\ response' = << >>
        /\ terminated' = term /\ overread' = (o = "write" /\ ~term) /\ foreign' = FALSE
        /\ crashed' \in {FALSE, overread'} /\ block' \in 0 .. NumBlocks
        /\ UNCHANGED << width, usedSpace, written >>
    BY <1>5, <1>6 DEF StartCall
  <2>3. response' \in Seq(Bytes)
    BY <2>2
  <2>4. overread' \in BOOLEAN /\ crashed' \in BOOLEAN
    BY <2>2
  <2> QED
    BY <2>1, <2>2, <2>3, <2>4 DEF IInv, TypeOK, Cached
<1>8. InCall'
  BY <1>2, <1>4, <1>5, <1>6 DEF InCall, StartCall
<1>9. OwnBlock' /\ KeepsToBuffer'
  BY DEF IInv, OwnBlock, KeepsToBuffer, StartCall, Cached
<1> QED
  BY <1>7, <1>8, <1>9 DEF IInv

\* What a step that leaves the call alone keeps.
LEMMA SameCall ==
  ASSUME InCall, UNCHANGED callVars, block' \in BlockOffset .. EndBlockOffset + 1 \/ pc # "loop"
  PROVE  /\ InCall' /\ BlockOffset' = BlockOffset /\ EndBlockOffset' = EndBlockOffset /\ Start' = Start
  BY DEF InCall, callVars, BlockOffset, EndBlockOffset, Start

\* Where the loop is, its block is one of the call's.
LEMMA AtBlockFacts ==
  ASSUME IInv, NEW o, AtBlock(o)
  PROVE  /\ block \in BlockOffset .. EndBlockOffset /\ block \in Blocks
         /\ block + 1 \in BlockOffset .. EndBlockOffset + 1 /\ block + 1 \in 0 .. NumBlocks
         /\ calls > 0
<1>1. BlockOffset \in Nat /\ EndBlockOffset \in Blocks
  BY Ends DEF IInv
<1> QED
  BY <1>1, BoundsAssumption DEF IInv, InCall, AtBlock, Blocks

\* An empty block is a block.
LEMMA EmptyBlock ==
  ASSUME NEW i \in Blocks
  PROVE  Empty(i) \in BlockT /\ Empty(i).origin = i
         /\ Empty(i).data \in [0 .. BlockSize - 1 -> Bytes]
<1>1. NUL \in Bytes
  BY DEF Bytes
<1> QED
  BY <1>1 DEF Empty, BlockT

\* Reading a block changes the cache by an insert at most.
LEMMA ReadBlockInv ==
  ASSUME IInv, ReadBlock
  PROVE  IInv'
<1>1. UNCHANGED callVars /\ AtBlock("read")
  BY DEF ReadBlock
<1>2. block \in Blocks /\ block' \in BlockOffset .. EndBlockOffset + 1 /\ block' \in 0 .. NumBlocks
  BY <1>1, AtBlockFacts DEF ReadBlock
<1>3. InCall' /\ Start' = Start
  BY <1>1, <1>2, SameCall DEF IInv
<1>4. /\ OwnBlock' /\ Cached' \subseteq Nat /\ \A k \in Cached' : usedSpace'[k] \in BlockT
      /\ response' \in Seq(Bytes)
  <2>1. CASE Hit /\ UNCHANGED usedSpace
    <3>1. PICK padding \in {<< >>, << Junk >>} :
            response' = response \o CString(usedSpace[block], padding)
      BY <2>1 DEF ReadBlock
    <3>2. usedSpace[block] \in BlockT
      BY <2>1 DEF Hit, IInv, TypeOK
    <3>3. response' \in Seq(Bytes)
      BY <3>1, <3>2, StringOfBlock, ConcatProperties DEF IInv, TypeOK
    <3>4. UNCHANGED width
      BY DEF ReadBlock
    <3> QED
      BY <2>1, <3>3, <3>4 DEF IInv, TypeOK, OwnBlock, Cached
  <2>2. CASE Insert(Empty(block)) /\ UNCHANGED response
    <3>1. UNCHANGED width
      BY DEF ReadBlock
    <3> QED
      BY <2>2, <1>2, <3>1, EmptyBlock, InsertKeeps DEF IInv, TypeOK
  <2> QED
    BY <2>1, <2>2 DEF ReadBlock
<1>5. TypeOK'
  BY <1>1, <1>2, <1>4 DEF IInv, TypeOK, ReadBlock, callVars, bufferVars
<1>6. KeepsToBuffer'
  BY <1>1, <1>3 DEF IInv, KeepsToBuffer, ReadBlock, callVars, bufferVars
<1> QED
  BY <1>3, <1>4, <1>5, <1>6 DEF IInv

\* The block pfs_write makes is one of the right kind.
LEMMA WrittenBlock ==
  ASSUME IInv, AtBlock("write"), NEW beyond \in {NUL, Junk}, NEW b \in BlockT
  PROVE  LET c == [b EXCEPT !.data = Overwritten(@, block, beyond), !.status = "D"]
         IN c \in BlockT /\ c.origin = b.origin
<1>1. b.data \in [0 .. BlockSize - 1 -> Bytes]
  BY DEF BlockT
<1>2. Overwritten(b.data, block, beyond) \in [0 .. BlockSize - 1 -> Bytes]
  BY <1>1, AtBlockFacts, OverwrittenBlock DEF IInv
<1> QED
  BY <1>2 DEF BlockT

\* Writing a block comes to what lies beyond the bytes of the call only when the call
\* starts inside a block.
LEMMA WriteBlockInv ==
  ASSUME IInv, WriteBlock
  PROVE  IInv'
<1>1. UNCHANGED << callVars, width >> /\ AtBlock("write")
  BY DEF WriteBlock
<1>2. /\ block \in Blocks /\ block' \in BlockOffset .. EndBlockOffset + 1 /\ block' \in 0 .. NumBlocks
      /\ block \in BlockOffset .. EndBlockOffset
  BY <1>1, AtBlockFacts DEF WriteBlock
<1>3. InCall' /\ Start' = Start
  BY <1>1, <1>2, SameCall DEF IInv
<1>4. OwnBlock' /\ Cached' \subseteq Nat /\ \A k \in Cached' : usedSpace'[k] \in BlockT
  <2>1. ASSUME NEW beyond \in {NUL, Junk}, Hit,
               usedSpace' = [usedSpace EXCEPT ![block].data = Overwritten(@, block, beyond),
                                              ![block].status = "D"]
        PROVE  OwnBlock' /\ Cached' \subseteq Nat /\ \A k \in Cached' : usedSpace'[k] \in BlockT
    <3> DEFINE c == [usedSpace[block] EXCEPT !.data = Overwritten(@, block, beyond), !.status = "D"]
    <3>1. block \in Cached /\ usedSpace[block] \in BlockT
      BY <2>1 DEF Hit, IInv, TypeOK
    <3>2. c \in BlockT /\ c.origin = usedSpace[block].origin
      BY <1>1, <3>1, WrittenBlock
    <3>3. usedSpace' = [usedSpace EXCEPT ![block] = c]
      BY <2>1, <3>1
    <3> HIDE DEF c
    <3> QED
      BY <1>1, <3>1, <3>2, <3>3 DEF IInv, TypeOK, OwnBlock, Cached
  <2>2. ASSUME NEW beyond \in {NUL, Junk},
               Insert([Empty(block) EXCEPT !.data = Overwritten(@, block, beyond), !.status = "D"])
        PROVE  OwnBlock' /\ Cached' \subseteq Nat /\ \A k \in Cached' : usedSpace'[k] \in BlockT
    <3> DEFINE c == [Empty(block) EXCEPT !.data = Overwritten(@, block, beyond), !.status = "D"]
    <3>1. c \in BlockT /\ c.origin = block
      BY <1>1, <1>2, EmptyBlock, WrittenBlock
    <3>2. Insert(c)
      BY <2>2
    <3> HIDE DEF c
    <3> QED
      BY <1>1, <1>2, <3>1, <3>2, InsertKeeps DEF IInv
  <2> QED
    BY <2>1, <2>2 DEF WriteBlock
<1>5. written' \in [Positions -> Bytes]
  <2>1. ASSUME NEW p \in Positions, block = BlockOffset, offset % BlockSize = 0,
               p \div BlockSize = block, p \in offset .. offset + nbyte - 1
        PROVE  Byte(calls, p - offset) \in Bytes
    <3>1. p - offset \in 0 .. MaxLen - 1 /\ calls \in 1 .. MaxCalls
      BY <1>1, <2>1, AtBlockFacts, SizeAssumption, BoundsAssumption DEF IInv, TypeOK, Positions
    <3> QED
      BY <3>1 DEF Bytes
  <2>2. NUL \in Bytes
    BY DEF Bytes
  <2> QED
    BY <2>1, <2>2 DEF WriteBlock, NowWritten, IInv, TypeOK
<1>6. overread' \in BOOLEAN /\ foreign' \in BOOLEAN /\ crashed' \in BOOLEAN /\ KeepsToBuffer'
  <2>1. Start = 0 => ~Copies(block, nbyte) /\ ~Copies(block, BufferEnd)
    <3>1. SUFFICES ASSUME Start = 0, NEW j \in BufStart(block) .. BufEnd(block)
                   PROVE  ~(BufIndex(block, j) >= nbyte) /\ ~(BufIndex(block, j) >= BufferEnd)
      BY DEF Copies
    <3>2. BufIndex(block, j) < nbyte
      BY <1>2, <3>1, IndexInBuffer DEF IInv
    <3>3. BufIndex(block, j) \in Int /\ nbyte \in Int
      <4>1. block \in Nat /\ BlockOffset \in Nat
        BY <1>2, Ends DEF Blocks, IInv
      <4>2. BufStart(block) \in Nat /\ BufEnd(block) \in Nat
        BY <4>1, PartInBlock, SizeAssumption DEF IInv
      <4> QED
        BY <4>1, <4>2, BoundsAssumption DEF BufIndex, IInv, TypeOK
    <3> QED
      BY <3>2, <3>3 DEF BufferEnd
  <2>2. /\ overread' = (overread \/ Copies(block, BufferEnd))
        /\ foreign' = (foreign \/ Copies(block, nbyte))
        /\ crashed' \in {FALSE, Copies(block, BufferEnd)}
        /\ terminated' = terminated
    BY <1>1 DEF WriteBlock, callVars
  <2>3. Copies(block, BufferEnd) \in BOOLEAN /\ Copies(block, nbyte) \in BOOLEAN
    BY DEF Copies
  <2> QED
    BY <1>3, <2>1, <2>2, <2>3 DEF IInv, KeepsToBuffer
<1>7. TypeOK'
  BY <1>1, <1>2, <1>4, <1>5, <1>6 DEF IInv, TypeOK, WriteBlock, callVars
<1> QED
  BY <1>3, <1>4, <1>6, <1>7 DEF IInv

\* A call that returns leaves its range and the cache alone.
LEMMA ReturnInv ==
  ASSUME IInv, Return
  PROVE  IInv'
<1>1. crashed' \in BOOLEAN /\ overread' \in BOOLEAN
  <2>1. CASE op = "read"
    BY <2>1 DEF IInv, TypeOK, Return
  <2>2. CASE op = "write"
    <3>1. overread' = (overread \/ ~terminated) /\ crashed' \in {FALSE, ~terminated}
      BY <2>2 DEF Return
    <3> QED
      BY <3>1
  <2> QED
    BY <2>1, <2>2 DEF Return
<1>2. TypeOK'
  BY <1>1 DEF IInv, TypeOK, Return, Cached
<1> QED
  BY <1>2 DEF IInv, TypeOK, InCall, OwnBlock, KeepsToBuffer, Return, Cached, BlockOffset, EndBlockOffset,
     Start

\* The flusher and the harvester.
LEMMA CacheStepInv ==
  ASSUME IInv, NEW k \in Cached, Flush(k) \/ Evict(k)
  PROVE  IInv'
<1>1. /\ UNCHANGED << width, tokens, callVars, block, response, crashed, bufferVars >>
      /\ OwnBlock' /\ Cached' \subseteq Nat /\ \A j \in Cached' : usedSpace'[j] \in BlockT
  <2>1. CASE Flush(k)
    <3> DEFINE c == [usedSpace[k] EXCEPT !.status = "C"]
    <3>1. usedSpace[k] \in BlockT
      BY DEF IInv, TypeOK
    <3>2. c \in BlockT /\ c.origin = usedSpace[k].origin
      BY <3>1 DEF BlockT
    <3>3. usedSpace' = [usedSpace EXCEPT ![k] = c]
      BY <2>1 DEF Flush
    <3> HIDE DEF c
    <3> QED
      BY <2>1, <3>2, <3>3 DEF Flush, IInv, TypeOK, OwnBlock, Cached
  <2>2. CASE Evict(k)
    BY <2>2 DEF Evict, IInv, TypeOK, OwnBlock, Cached
  <2> QED
    BY <2>1, <2>2
<1>2. written' \in [Positions -> Bytes]
  <2>1. NUL \in Bytes
    BY DEF Bytes
  <2> QED
    BY <2>1 DEF Flush, Evict, IInv, TypeOK
<1>3. TypeOK'
  BY <1>1, <1>2 DEF IInv, TypeOK, callVars, bufferVars
<1>4. InCall' /\ KeepsToBuffer'
  BY <1>1 DEF IInv, InCall, KeepsToBuffer, callVars, bufferVars, BlockOffset, EndBlockOffset, Start
<1> QED
  BY <1>1, <1>3, <1>4 DEF IInv

\* Every step of the specification keeps the invariant.
LEMMA NextInv ==
  ASSUME IInv, [Next]_vars
  PROVE  IInv'
<1>1. CASE UNCHANGED vars
  <2>1. TypeOK'
    BY <1>1 DEF IInv, TypeOK, vars, callVars, bufferVars, Cached
  <2> QED
    BY <1>1, <2>1 DEF IInv, InCall, OwnBlock, KeepsToBuffer, vars, callVars, bufferVars, Cached, BlockOffset,
       EndBlockOffset, Start
<1> QED
  BY <1>1, StartCallInv, ReadBlockInv, WriteBlockInv, ReturnInv, CacheStepInv DEF Next

\* The inductive invariant: types, the range of the call and the place of the loop in it,
\* block IDs, what is read beyond the buffer and stored of it.
THEOREM Invariant == Spec => []IInv
<1>1. IInv /\ [Next]_vars => IInv'
  BY NextInv
<1> QED
  BY <1>1, InitInv, PTL DEF Spec

\* Every part of a block that pfs_read and pfs_write compute lies in the block, so that
\* the blocks of the cache keep their length.
THEOREM TypeCorrect == Spec => []TypeOK
<1>1. IInv => TypeOK
  BY DEF IInv
<1> QED
  BY <1>1, Invariant, PTL

\* On one server a lookup finds the block it is for.
THEOREM LookupsFindOwn == Spec => []OwnBlock
<1>1. IInv => OwnBlock
  BY DEF IInv
<1> QED
  BY <1>1, Invariant, PTL

\* Only a write that starts inside a block stores bytes that are not of the call, and only
\* such a write, or one whose buffer is not terminated, reads beyond the caller's memory:
\* the strings pfs_write makes of its buffer and the index of its loop come to nothing else.
THEOREM BufferRespected == Spec => []KeepsToBuffer
<1>1. IInv => KeepsToBuffer
  BY DEF IInv
<1> QED
  BY <1>1, Invariant, PTL
-----------------------------------------------------------------------------
(* Writes.                                                                  *)

\* Of a block that stays in the cache, a step changes bytes in the range of a write
\* only.
LEMMA NextWrites ==
  ASSUME IInv, [Next]_vars, width = 1,
         NEW k \in Cached \intersect DOMAIN usedSpace', NEW j \in 0 .. BlockSize - 1,
         usedSpace'[k].data[j] # usedSpace[k].data[j]
  PROVE  op = "write" /\ usedSpace[k].origin * BlockSize + j \in offset .. offset + nbyte - 1
<1>1. ASSUME NEW b, Insert(b) PROVE usedSpace'[k] = usedSpace[k]
  BY <1>1 DEF Insert, Cached
<1>2. usedSpace[k] \in BlockT
  BY DEF IInv, TypeOK
<1>3. CASE WriteBlock
  <2>1. PICK beyond \in {NUL, Junk} :
          usedSpace' = [usedSpace EXCEPT ![block].data = Overwritten(@, block, beyond),
                                         ![block].status = "D"]
    BY <1>1, <1>3 DEF WriteBlock
  <2>2. k = block /\ usedSpace'[k].data = Overwritten(usedSpace[k].data, block, beyond)
    BY <1>2, <2>1 DEF BlockT, Cached
  <2>3. j \in BufStart(block) .. BufEnd(block)
    BY <1>2, <2>2 DEF Overwritten, BlockT
  <2>4. AtBlock("write")
    BY <1>3 DEF WriteBlock
  <2>5. block * BlockSize + j \in offset .. offset + nbyte - 1
    BY <2>3, <2>4, AtBlockFacts, PartInRange DEF IInv
  <2> QED
    BY <2>2, <2>4, <2>5 DEF AtBlock, IInv, OwnBlock
<1>4. CASE ReadBlock
  BY <1>1, <1>4 DEF ReadBlock
<1>5. CASE \E l \in Cached : Flush(l) \/ Evict(l)
  <2>1. PICK l \in Cached : Flush(l) \/ Evict(l)
    BY <1>5
  <2>2. CASE Flush(l)
    <3>1. usedSpace' = [usedSpace EXCEPT ![l].status = "C"]
      BY <2>2 DEF Flush
    <3> QED
      BY <1>2, <3>1 DEF Cached, BlockT
  <2>3. CASE Evict(l)
    BY <2>3 DEF Evict, Cached
  <2> QED
    BY <2>1, <2>2, <2>3
<1> QED
  BY <1>3, <1>4, <1>5 DEF Next, vars, StartCall, Return

\* However many blocks a write is about, it changes no byte outside its range.
THEOREM WritesStayInRange == Spec => WritesInRange
<1>1. IInv /\ [Next]_vars =>
        [width = 1 =>
           \A k \in Cached \intersect DOMAIN usedSpace' : \A j \in 0 .. BlockSize - 1 :
             usedSpace'[k].data[j] # usedSpace[k].data[j] =>
               op = "write" /\ usedSpace[k].origin * BlockSize + j \in offset .. offset + nbyte - 1]_vars
  BY NextWrites
<1> QED
  BY <1>1, Invariant, PTL DEF Spec, WritesInRange
-----------------------------------------------------------------------------
(* What a read returns.                                                     *)

\* Only blocks with a token are cached, and what the loop has still to come to was
\* cached before the call asked for its tokens: it is looked up, and not fetched.
TokensCover ==
  width = 1 =>
    /\ Cached \subseteq tokens
    /\ pc = "loop" => /\ BlockOffset .. EndBlockOffset \subseteq tokens
                      /\ Cached \intersect (block .. EndBlockOffset) \subseteq already_have_token

\* The bytes a reader may rely on are in the cache.
WrittenKept ==
  width = 1 =>
    \A p \in Positions : written[p] # NUL =>
      /\ p \div BlockSize \in Cached
      /\ usedSpace[p \div BlockSize].data[p % BlockSize] = written[p]

NothingYet == pc = "loop" /\ op = "read" /\ block = BlockOffset => response = << >>

\* The string has them from the start of the block to the end of the range.
StringHasRange ==
  op = "read" /\ width = 1 /\ pc = "loop" /\ block > EndBlockOffset /\ OnWritten =>
    /\ Len(response) >= Start + nbyte
    /\ \A q \in 0 .. Start + nbyte - 1 : response[q + 1] = written[BlockOffset * BlockSize + q]

DataInv == TokensCover /\ WrittenKept /\ NothingYet /\ StringHasRange

\* A C string has the bytes of its block up to the first zero byte.
LEMMA StringKeeps ==
  ASSUME NEW b \in BlockT, NEW padding \in {<< >>, << Junk >>}, NEW m \in 0 .. BlockSize,
         \A q \in 0 .. m - 1 : b.data[q] # NUL
  PROVE  /\ Len(CString(b, padding)) >= m
         /\ \A q \in 0 .. m - 1 : CString(b, padding)[q + 1] = b.data[q]
<1> DEFINE full == [n \in 1 .. BlockSize |-> b.data[n - 1]]
           ends == {n \in 1 .. BlockSize : full[n] = NUL}
<1>1. BlockSize \in Nat \ {0} /\ m \in Nat /\ m <= BlockSize
  BY SizeAssumption
<1>2. full \in Seq(Bytes) /\ Len(full) = BlockSize /\ \A q \in 0 .. m - 1 : full[q + 1] = b.data[q]
  BY <1>1 DEF BlockT
<1>3. CASE ends = {}
  <2> DEFINE t == << Status >> \o padding
  <2>1. << Status >> \in Seq(Bytes) /\ padding \in Seq(Bytes)
    <3>1. Status \in Bytes /\ Junk \in Bytes
      BY DEF Bytes
    <3>2. \A x \in Bytes : << x >> \in Seq(Bytes)
      OBVIOUS
    <3>3. << >> \in Seq(Bytes)
      OBVIOUS
    <3> QED BY <3>1, <3>2, <3>3
  <2>2. CString(b, padding) = (full \o << Status >>) \o padding
    BY <1>3 DEF CString
  <2> HIDE DEF full
  <2>3. /\ full \o << Status >> \in Seq(Bytes) /\ Len(full \o << Status >>) >= BlockSize
        /\ \A i \in 1 .. BlockSize : (full \o << Status >>)[i] = full[i]
    <3>1. Len(<< Status >>) \in Nat
      BY <2>1, LenProperties
    <3> QED
      BY <1>1, <1>2, <2>1, <3>1, ConcatProperties
  <2> DEFINE u == full \o << Status >>
  <2>4. Len(u) \in Nat /\ Len(padding) \in Nat
    BY <2>1, <2>3, LenProperties
  <2> HIDE DEF u
  <2>5. Len(u \o padding) >= BlockSize /\ \A i \in 1 .. BlockSize : (u \o padding)[i] = full[i]
    <3>1. u \in Seq(Bytes) /\ Len(u) >= BlockSize /\ \A i \in 1 .. BlockSize : u[i] = full[i]
      BY <2>3 DEF u
    <3> QED
      BY <1>1, <2>1, <2>4, <3>1, ConcatProperties
  <2>6. CString(b, padding) = u \o padding
    BY <2>2 DEF u
  <2>7. Len(u \o padding) \in Nat
    BY <2>1, <2>3, ConcatProperties, LenProperties DEF u
  <2>8. \A q \in 0 .. m - 1 : q + 1 \in 1 .. BlockSize
    BY <1>1
  <2> QED
    BY <1>1, <1>2, <2>5, <2>6, <2>7, <2>8
<1>4. CASE ends # {}
  <2>1. Min(ends) \in ends
    <3>1. ends \in SUBSET Nat
      BY <1>1
    <3> HIDE DEF ends
    <3> QED BY <1>4, <3>1, MinIn
  <2>2. Min(ends) \in 1 .. BlockSize /\ full[Min(ends)] = NUL
    BY <2>1
  <2>3. CString(b, padding) = SubSeq(full, 1, Min(ends) - 1)
    BY <1>4, <2>2, <1>1 DEF CString
  <2> DEFINE e == Min(ends)
  <2> HIDE DEF full, ends, e
  <2>4. e > m
    <3>1. SUFFICES ASSUME e <= m PROVE FALSE
      BY <1>1, <2>2 DEF e
    <3>2. e - 1 \in 0 .. m - 1 /\ (e - 1) + 1 = e
      BY <1>1, <2>2, <3>1 DEF e
    <3>3. full[e] = b.data[e - 1]
      BY <1>2, <3>2
    <3> QED
      BY <2>2, <3>2, <3>3 DEF e
  <2>5. \A i \in 1 .. e - 1 : full[i] \in Bytes
    BY <1>1, <1>2, <2>2 DEF e
  <2>6. /\ Len(SubSeq(full, 1, e - 1)) = e - 1
        /\ \A i \in 1 .. e - 1 : SubSeq(full, 1, e - 1)[i] = full[i]
    <3>1. 1 \in Int /\ e - 1 \in Int /\ (1 <= e - 1 \/ e - 1 = 0)
      BY <1>1, <2>2 DEF e
    <3>2. /\ Len(SubSeq(full, 1, e - 1)) = IF 1 <= e - 1 THEN (e - 1) - 1 + 1 ELSE 0
          /\ \A i \in 1 .. (e - 1) - 1 + 1 : SubSeq(full, 1, e - 1)[i] = full[1 + i - 1]
      BY <2>5, <3>1, SubSeqProperties
    <3>3. (e - 1) - 1 + 1 = e - 1
      BY <3>1
    <3>4. \A i \in 1 .. e - 1 : 1 + i - 1 = i
      BY <3>1
    <3> QED
      BY <3>1, <3>2, <3>3, <3>4
  <2>7. CString(b, padding) = SubSeq(full, 1, e - 1)
    BY <2>3 DEF e
  <2>8. e \in Nat
    BY <1>1, <2>2 DEF e
  <2>9. \A q \in 0 .. m - 1 : q + 1 \in 1 .. e - 1
    BY <1>1, <2>4, <2>8
  <2> QED
    BY <1>1, <1>2, <2>4, <2>6, <2>7, <2>8, <2>9
<1> QED
  BY <1>3, <1>4

\* The position of a byte, and its block and place there, determine each other.
LEMMA PlaceOf ==
  ASSUME NEW i \in Nat, NEW j \in 0 .. BlockSize - 1
  PROVE  /\ (i * BlockSize + j) \div BlockSize = i
         /\ (i * BlockSize + j) % BlockSize = j
         /\ i * BlockSize + j \in Nat /\ i * BlockSize = BlockSize * i
<1> DEFINE p == i * BlockSize + j
<1>1. BlockSize \in Nat \ {0} /\ j \in Nat
  BY SizeAssumption
<1>2. i * BlockSize \in Nat /\ i * BlockSize = BlockSize * i
  BY <1>1, SMTT(30)
<1>3. p \in Nat
  BY <1>1, <1>2
<1> HIDE DEF p
<1>4. p \div BlockSize \in Nat /\ p % BlockSize \in 0 .. BlockSize - 1
      /\ p = BlockSize * (p \div BlockSize) + (p % BlockSize)
  BY <1>1, <1>3, DivMod
<1>5. p = BlockSize * i + j
  BY <1>2 DEF p
<1>6. p \div BlockSize = i /\ p % BlockSize = j
  BY <1>1, <1>4, <1>5, Unique
<1> QED
  BY <1>2, <1>3, <1>6 DEF p

LEMMA InitData == Init => DataInv
<1> SUFFICES ASSUME Init PROVE DataInv
  OBVIOUS
<1>1. TokensCover
  BY DEF Init, TokensCover, Cached
<1>2. WrittenKept
  BY DEF Init, WrittenKept
<1>3. NothingYet /\ StringHasRange
  BY DEF Init, NothingYet, StringHasRange
<1> QED
  BY <1>1, <1>2, <1>3 DEF DataInv

\* A call asks for the tokens of all its blocks.
LEMMA StartCallData ==
  ASSUME IInv, DataInv, NEW o \in {"read", "write"}, NEW from \in Positions, NEW n \in 1 .. MaxLen,
         NEW term \in BOOLEAN, StartCall(o, from, n, term)
  PROVE  DataInv'
<1> DEFINE first == from \div BlockSize
           last == (from + n - 1) \div BlockSize
<1>1. BlockOffset' = first /\ EndBlockOffset' = last /\ block' = first
  BY DEF StartCall, BlockOffset, EndBlockOffset
<1>2. first \in Nat /\ last \in Nat /\ first <= last
  <2>1. from \in Nat /\ from + n - 1 \in Nat /\ from <= from + n - 1 /\ BlockSize \in Nat \ {0}
    BY SizeAssumption, BoundsAssumption DEF Positions
  <2> QED
    BY <2>1, DivMod, DivMonotone
<1>3. /\ already_have_token' = tokens \intersect (first .. last)
      /\ tokens' = tokens \union (first .. last)
      /\ response' = << >>
      /\ UNCHANGED << width, usedSpace, written >>
  BY DEF StartCall
<1> HIDE DEF first, last
<1>4. TokensCover'
  BY <1>1, <1>3 DEF TokensCover, DataInv, Cached
<1>5. WrittenKept'
  BY <1>3 DEF WrittenKept, DataInv, Cached
<1>6. NothingYet'
  BY <1>3 DEF NothingYet
<1>7. StringHasRange'
  <2>1. ~(block' > EndBlockOffset')
    BY <1>1, <1>2
  <2> QED
    BY <2>1 DEF StringHasRange
<1> QED
  BY <1>4, <1>5, <1>6, <1>7 DEF DataInv

\* A block of the call that is cached is looked up.
LEMMA CachedIsHit ==
  ASSUME IInv, DataInv, width = 1, NEW o, AtBlock(o), block \in Cached
  PROVE  Hit
<1>1. block \in block .. EndBlockOffset
  <2>1. block \in BlockOffset .. EndBlockOffset /\ BlockOffset \in Nat /\ EndBlockOffset \in Nat
    BY AtBlockFacts, Ends DEF IInv
  <2> QED
    BY <2>1
<1> QED
  BY <1>1 DEF DataInv, TokensCover, AtBlock, Hit

\* On one server a block that is inserted is found under its own number.
LEMMA InsertOnOne ==
  ASSUME width = 1, block \in Blocks, NEW b, Insert(b)
  PROVE  usedSpace' = [j \in Cached \union {block} |-> IF j \in Cached THEN usedSpace[j] ELSE b]
<1>1. OffsetWithin(block, width) = block
  BY OneServer DEF Blocks
<1> QED
  BY <1>1 DEF Insert

\* What the loop does to the cache keeps the blocks it has still to come to.
LEMMA LoopKeepsTokens ==
  ASSUME IInv, DataInv, NEW o, AtBlock(o), UNCHANGED << width, tokens, callVars >>,
         block' = block + 1, width = 1 => Cached' \subseteq Cached \union {block}
  PROVE  TokensCover'
<1>1. /\ block \in BlockOffset .. EndBlockOffset /\ BlockOffset \in Nat /\ EndBlockOffset \in Nat
  BY AtBlockFacts, Ends DEF IInv
<1>2. BlockOffset' = BlockOffset /\ EndBlockOffset' = EndBlockOffset
  BY DEF callVars, BlockOffset, EndBlockOffset
<1>3. SUFFICES ASSUME width = 1
               PROVE  /\ Cached' \subseteq tokens
                      /\ BlockOffset .. EndBlockOffset \subseteq tokens
                      /\ Cached' \intersect (block + 1 .. EndBlockOffset) \subseteq already_have_token
  BY <1>2 DEF TokensCover, callVars
<1>4. /\ Cached \subseteq tokens /\ BlockOffset .. EndBlockOffset \subseteq tokens
      /\ Cached \intersect (block .. EndBlockOffset) \subseteq already_have_token
  BY <1>3 DEF DataInv, TokensCover, AtBlock
<1>5. block + 1 .. EndBlockOffset \subseteq block .. EndBlockOffset /\ block \notin block + 1 .. EndBlockOffset
  BY <1>1
<1> QED
  BY <1>1, <1>3, <1>4, <1>5

\* The only block of a read was written as far as the range goes: it is looked up, and
\* its string is as long as that.
LEMMA ReadsString ==
  ASSUME IInv, DataInv, ReadBlock, width = 1, block = EndBlockOffset, OnWritten
  PROVE  /\ Len(response') >= Start + nbyte
         /\ \A q \in 0 .. Start + nbyte - 1 : response'[q + 1] = written[BlockOffset * BlockSize + q]
<1> DEFINE m == Start + nbyte
           data == usedSpace[block].data
<1>1. /\ AtBlock("read") /\ block = BlockOffset /\ BlockOffset \in Nat
      /\ response = << >>
  BY Ends DEF ReadBlock, OnWritten, DataInv, NothingYet, AtBlock, IInv
<1>2. /\ BlockSize \in Nat \ {0} /\ nbyte \in Nat \ {0} /\ Start \in 0 .. BlockSize - 1
      /\ offset + nbyte - 1 = BlockSize * BlockOffset + ((offset + nbyte - 1) % BlockSize)
      /\ (offset + nbyte - 1) % BlockSize \in 0 .. BlockSize - 1
      /\ offset = BlockSize * BlockOffset + Start
      /\ offset + nbyte - 1 \in Positions /\ offset \in Nat
  BY <1>1, Ends, SizeAssumption, BoundsAssumption DEF IInv, TypeOK, OnWritten, InCall, Positions
<1>3. BlockSize * BlockOffset \in Nat /\ BlockOffset * BlockSize = BlockSize * BlockOffset
  BY <1>1, <1>2, SMTT(30)
<1>4. m \in 1 .. BlockSize /\ offset + nbyte - 1 = BlockOffset * BlockSize + (m - 1)
  BY <1>2, <1>3
<1>5. ASSUME NEW q \in 0 .. m - 1
      PROVE  /\ written[BlockOffset * BlockSize + q] # NUL
             /\ block \in Cached /\ data[q] = written[BlockOffset * BlockSize + q]
  <2>1. q \in 0 .. BlockSize - 1 /\ q \in Nat
    BY <1>2, <1>4
  <2> DEFINE p == BlockOffset * BlockSize + q
  <2>2. p \in BlockOffset * BlockSize .. offset + nbyte - 1
    BY <1>2, <1>3, <1>4, <2>1
  <2>3. p \div BlockSize = block /\ p % BlockSize = q /\ p \in Nat
    BY <1>1, <2>1, PlaceOf
  <2>4. p \in Positions
    <3>1. offset + nbyte - 1 < NumBlocks * BlockSize /\ NumBlocks * BlockSize \in Nat
      BY <1>2, BoundsAssumption DEF Positions
    <3> QED
      BY <1>2, <1>3, <2>2, <2>3, <3>1 DEF Positions
  <2> HIDE DEF p
  <2>5. written[p] # NUL
    BY <2>2 DEF OnWritten
  <2>6. block \in Cached /\ data[q] = written[p]
    BY <2>3, <2>4, <2>5 DEF DataInv, WrittenKept
  <2> QED
    BY <2>5, <2>6 DEF p
<1>6. Hit
  <2>1. 0 \in 0 .. m - 1
    BY <1>4, <1>2
  <2>2. block \in Cached
    BY <1>5, <2>1
  <2> QED
    BY <1>1, <2>2, CachedIsHit
<1>7. PICK padding \in {<< >>, << Junk >>} : response' = response \o CString(usedSpace[block], padding)
  BY <1>6 DEF ReadBlock
<1>8. usedSpace[block] \in BlockT
  BY <1>6 DEF Hit, IInv, TypeOK
<1> HIDE DEF m
<1>9. /\ Len(CString(usedSpace[block], padding)) >= m
      /\ \A q \in 0 .. m - 1 : CString(usedSpace[block], padding)[q + 1] = data[q]
  <2>1. m \in 0 .. BlockSize
    BY <1>2, <1>4
  <2>2. \A q \in 0 .. m - 1 : data[q] # NUL
    BY <1>5
  <2> QED
    BY <1>8, <2>1, <2>2, StringKeeps
<1>10. response' = CString(usedSpace[block], padding)
  BY <1>1, <1>7, <1>8, StringOfBlock, ConcatEmptySeq
<1> HIDE DEF data
<1>11. /\ Len(response') >= m
       /\ \A q \in 0 .. m - 1 : response'[q + 1] = written[BlockOffset * BlockSize + q]
  <2>1. \A q \in 0 .. m - 1 : data[q] = written[BlockOffset * BlockSize + q]
    BY <1>5
  <2>2. \A q \in 0 .. m - 1 : response'[q + 1] = data[q]
    BY <1>9, <1>10
  <2>3. Len(response') >= m
    BY <1>9, <1>10
  <2> QED
    BY <2>1, <2>2, <2>3
<1>12. m = Start + nbyte
  BY DEF m
<1>13. 0 .. m - 1 = 0 .. Start + nbyte - 1
  BY <1>2, <1>4, <1>12
<1> QED
  BY <1>11, <1>12, <1>13

LEMMA ReadBlockData ==
  ASSUME IInv, DataInv, ReadBlock
  PROVE  DataInv'
<1>1. /\ AtBlock("read") /\ UNCHANGED << width, tokens, callVars, written >> /\ block' = block + 1
  BY DEF ReadBlock
<1>2. /\ block \in BlockOffset .. EndBlockOffset /\ BlockOffset \in Nat /\ EndBlockOffset \in Nat
      /\ block \in Blocks
  BY <1>1, AtBlockFacts, Ends DEF IInv
<1>3. /\ BlockOffset' = BlockOffset /\ EndBlockOffset' = EndBlockOffset /\ Start' = Start
      /\ UNCHANGED << op, offset, nbyte, pc >>
  BY <1>1 DEF callVars, BlockOffset, EndBlockOffset, Start
<1>4. ASSUME width = 1
      PROVE  /\ Cached \subseteq Cached' /\ Cached' \subseteq Cached \union {block}
             /\ \A k \in Cached : usedSpace'[k] = usedSpace[k]
  <2>1. CASE UNCHANGED usedSpace
    BY <2>1 DEF Cached
  <2>2. CASE Insert(Empty(block))
    BY <1>2, <1>4, <2>2, InsertOnOne DEF Cached
  <2> QED
    BY <2>1, <2>2 DEF ReadBlock
<1>5. TokensCover'
  BY <1>1, <1>4, LoopKeepsTokens
<1>6. WrittenKept'
  BY <1>1, <1>4 DEF WrittenKept, DataInv
<1>7. NothingYet'
  BY <1>1, <1>2, <1>3 DEF NothingYet
<1>8. StringHasRange'
  <2>1. SUFFICES ASSUME width = 1, block + 1 > EndBlockOffset, OnWritten'
                 PROVE  /\ Len(response') >= Start + nbyte
                        /\ \A q \in 0 .. Start + nbyte - 1 :
                             response'[q + 1] = written[BlockOffset * BlockSize + q]
    BY <1>1, <1>3 DEF StringHasRange
  <2>2. block = EndBlockOffset /\ OnWritten
    BY <1>1, <1>2, <1>3, <2>1 DEF OnWritten
  <2> QED
    BY <2>1, <2>2, ReadsString
<1> QED
  BY <1>5, <1>6, <1>7, <1>8 DEF DataInv

\* A position in the block the loop is at is in the range of the call exactly when the
\* write changes it.
LEMMA RangeInPart ==
  ASSUME IInv, NEW p \in Positions, p \div BlockSize = BlockOffset, offset % BlockSize = 0,
         p \in offset .. offset + nbyte - 1
  PROVE  /\ p % BlockSize \in BufStart(BlockOffset) .. BufEnd(BlockOffset)
         /\ BufIndex(BlockOffset, p % BlockSize) = p - offset /\ p - offset < nbyte
<1> DEFINE first == BlockOffset
           end == EndBlockOffset
           last == (offset + nbyte - 1) % BlockSize
           j == p % BlockSize
<1>1. /\ first \in Nat /\ end \in Nat /\ last \in 0 .. BlockSize - 1
      /\ offset = BlockSize * first + 0
      /\ offset + nbyte - 1 = BlockSize * end + last
  BY Ends DEF IInv, Start
<1>2. /\ BlockSize \in Nat \ {0} /\ offset \in Nat /\ nbyte \in Nat \ {0} /\ p \in Nat
  BY SizeAssumption, BoundsAssumption DEF IInv, TypeOK, Positions
<1>3. j \in 0 .. BlockSize - 1 /\ p = BlockSize * first + j
  BY InBlocks
<1>4. BufStart(first) = 0 /\ BufEnd(first) = IF first = end THEN last ELSE BlockSize - 1
  BY DEF BufStart, BufEnd
<1>5. BufIndex(first, j) = first - first + j
  BY DEF BufIndex
<1> HIDE DEF first, end, last, j
<1>6. BlockSize * first \in Nat
  BY <1>1, <1>2
<1>7. j \in 0 .. BufEnd(first)
  BY <1>1, <1>2, <1>3, <1>4, <1>6
<1>8. BufIndex(first, j) = p - offset /\ p - offset < nbyte
  BY <1>1, <1>2, <1>3, <1>5, <1>6
<1> QED
  BY <1>4, <1>7, <1>8 DEF first, j

\* pfs_write puts the bytes of the caller where they are looked up.
LEMMA WriteBlockData ==
  ASSUME IInv, DataInv, WriteBlock
  PROVE  DataInv'
<1>1. /\ AtBlock("write") /\ UNCHANGED << width, tokens, callVars >> /\ block' = block + 1
      /\ written' = NowWritten
  BY DEF WriteBlock
<1>2. /\ block \in BlockOffset .. EndBlockOffset /\ BlockOffset \in Nat /\ EndBlockOffset \in Nat
      /\ block \in Blocks /\ block \in Nat
  BY <1>1, AtBlockFacts, Ends DEF IInv
\* On one server the block is in the cache afterwards: the one that was there, or an
\* empty one, with the bytes of the call.
<1>3. ASSUME width = 1
      PROVE  \E beyond \in {NUL, Junk}, b \in BlockT :
               /\ block \in Cached => b = usedSpace[block]
               /\ Cached' = Cached \union {block}
               /\ \A k \in Cached : k # block => usedSpace'[k] = usedSpace[k]
               /\ usedSpace'[block].data = Overwritten(b.data, block, beyond)
  <2>1. ASSUME NEW beyond \in {NUL, Junk}, Hit,
               usedSpace' = [usedSpace EXCEPT ![block].data = Overwritten(@, block, beyond),
                                              ![block].status = "D"]
        PROVE  /\ usedSpace[block] \in BlockT
               /\ Cached' = Cached \union {block}
               /\ \A k \in Cached : k # block => usedSpace'[k] = usedSpace[k]
               /\ usedSpace'[block].data = Overwritten(usedSpace[block].data, block, beyond)
    <3>1. block \in Cached /\ usedSpace[block] \in BlockT
      BY <2>1 DEF Hit, IInv, TypeOK
    <3> QED
      BY <2>1, <3>1 DEF Cached, BlockT
  <2>2. ASSUME NEW beyond \in {NUL, Junk}, ~Hit,
               Insert([Empty(block) EXCEPT !.data = Overwritten(@, block, beyond), !.status = "D"])
        PROVE  /\ Empty(block) \in BlockT /\ block \notin Cached
               /\ Cached' = Cached \union {block}
               /\ \A k \in Cached : k # block => usedSpace'[k] = usedSpace[k]
               /\ usedSpace'[block].data = Overwritten(Empty(block).data, block, beyond)
    <3> DEFINE c == [Empty(block) EXCEPT !.data = Overwritten(@, block, beyond), !.status = "D"]
    <3>1. c.data = Overwritten(Empty(block).data, block, beyond) /\ Empty(block) \in BlockT
      BY <1>2, EmptyBlock DEF Empty
    <3>2. block \notin Cached
      BY <1>1, <1>3, <2>2, CachedIsHit
    <3>3. Insert(c)
      BY <2>2
    <3> HIDE DEF c
    <3>4. usedSpace' = [j \in Cached \union {block} |-> IF j \in Cached THEN usedSpace[j] ELSE c]
      BY <1>2, <1>3, <3>3, InsertOnOne
    <3> QED
      BY <3>1, <3>2, <3>4 DEF Cached
  <2>3. CASE \E beyond \in {NUL, Junk} : Hit /\
               usedSpace' = [usedSpace EXCEPT ![block].data = Overwritten(@, block, beyond),
                                              ![block].status = "D"]
    BY <2>1, <2>3
  <2>4. CASE \E beyond \in {NUL, Junk} : ~Hit /\
               Insert([Empty(block) EXCEPT !.data = Overwritten(@, block, beyond), !.status = "D"])
    <3>1. PICK beyond \in {NUL, Junk} : ~Hit /\
            Insert([Empty(block) EXCEPT !.data = Overwritten(@, block, beyond), !.status = "D"])
      BY <2>4
    <3>2. /\ Empty(block) \in BlockT /\ block \notin Cached
          /\ Cached' = Cached \union {block}
          /\ \A k \in Cached : k # block => usedSpace'[k] = usedSpace[k]
          /\ usedSpace'[block].data = Overwritten(Empty(block).data, block, beyond)
      BY <2>2, <3>1
    <3> QED
      BY <3>2
  <2> QED
    BY <2>3, <2>4 DEF WriteBlock
<1>4. TokensCover'
  BY <1>1, <1>3, LoopKeepsTokens
<1>5. WrittenKept'
  <2>1. SUFFICES ASSUME width = 1, NEW p \in Positions, NowWritten[p] # NUL
                 PROVE  /\ p \div BlockSize \in Cached'
                        /\ usedSpace'[p \div BlockSize].data[p % BlockSize] = NowWritten[p]
    BY <1>1 DEF WrittenKept
  <2>2. PICK beyond \in {NUL, Junk}, b \in BlockT :
               /\ block \in Cached => b = usedSpace[block]
               /\ Cached' = Cached \union {block}
               /\ \A k \in Cached : k # block => usedSpace'[k] = usedSpace[k]
               /\ usedSpace'[block].data = Overwritten(b.data, block, beyond)
    BY <1>3, <2>1
  <2>3. /\ p \div BlockSize \in Blocks /\ p % BlockSize \in 0 .. BlockSize - 1
        /\ p = BlockSize * (p \div BlockSize) + (p % BlockSize)
    BY InBlocks
  <2>4. ASSUME written[p] # NUL
        PROVE  p \div BlockSize \in Cached
               /\ usedSpace[p \div BlockSize].data[p % BlockSize] = written[p]
    BY <2>1, <2>4 DEF DataInv, WrittenKept
  <2>5. CASE p \div BlockSize # block
    <3>1. NowWritten[p] = written[p]
      BY <2>5 DEF NowWritten
    <3> QED
      BY <2>1, <2>2, <2>4, <2>5, <3>1
  <2>6. CASE p \div BlockSize = block /\ p \notin offset .. offset + nbyte - 1
    <3>1. NowWritten[p] = written[p]
      BY <2>6 DEF NowWritten
    <3>2. block \in Cached /\ b.data[p % BlockSize] = written[p]
      BY <2>1, <2>2, <2>4, <2>6, <3>1
    <3>3. p % BlockSize \notin BufStart(block) .. BufEnd(block)
      <4>1. SUFFICES ASSUME p % BlockSize \in BufStart(block) .. BufEnd(block) PROVE FALSE
        OBVIOUS
      <4>2. block * BlockSize + (p % BlockSize) \in offset .. offset + nbyte - 1
        BY <1>2, <4>1, PartInRange DEF IInv
      <4>3. block * BlockSize + (p % BlockSize) = p
        BY <1>2, <2>3, <2>6, PlaceOf
      <4> QED
        BY <2>6, <4>2, <4>3
    <3>4. Overwritten(b.data, block, beyond)[p % BlockSize] = b.data[p % BlockSize]
      BY <2>3, <3>3 DEF Overwritten, BlockT
    <3> QED
      BY <2>2, <2>6, <3>1, <3>2, <3>4
  <2>7. CASE p \div BlockSize = block /\ p \in offset .. offset + nbyte - 1
    <3>1. block = BlockOffset /\ offset % BlockSize = 0 /\ NowWritten[p] = Byte(calls, p - offset)
      BY <2>1, <2>7 DEF NowWritten
    <3>2. /\ p % BlockSize \in BufStart(block) .. BufEnd(block)
          /\ BufIndex(block, p % BlockSize) = p - offset /\ p - offset < nbyte
      BY <2>7, <3>1, RangeInPart
    <3>3. Overwritten(b.data, block, beyond)[p % BlockSize] = Byte(calls, p - offset)
      <4>1. p - offset \in Int /\ nbyte \in Int
        BY SizeAssumption, BoundsAssumption DEF IInv, TypeOK, Positions
      <4>2. Buffer(p - offset, beyond) = Byte(calls, p - offset)
        BY <3>2, <4>1 DEF Buffer
      <4> QED
        BY <2>3, <3>2, <4>2 DEF Overwritten, BlockT
    <3> QED
      BY <2>2, <2>7, <3>1, <3>3
  <2> QED
    BY <2>5, <2>6, <2>7
<1>6. NothingYet' /\ StringHasRange'
  <2>1. op' # "read"
    BY <1>1 DEF AtBlock, callVars
  <2> QED
    BY <2>1 DEF NothingYet, StringHasRange
<1> QED
  BY <1>4, <1>5, <1>6 DEF DataInv

\* The flusher changes no byte; what the harvester takes, no reader relies on any more.
LEMMA CacheStepData ==
  ASSUME IInv, DataInv, NEW k \in Cached, Flush(k) \/ Evict(k)
  PROVE  DataInv'
<1>1. /\ UNCHANGED << width, tokens, callVars, block, response >>
      /\ Cached' \subseteq Cached
      /\ width = 1 =>
           \A p \in Positions : written'[p] # NUL =>
             /\ written'[p] = written[p]
             /\ p \div BlockSize \in Cached =>
                  /\ p \div BlockSize \in Cached'
                  /\ usedSpace'[p \div BlockSize].data = usedSpace[p \div BlockSize].data
  <2>1. CASE Flush(k)
    <3>1. usedSpace' = [usedSpace EXCEPT ![k].status = "C"] /\ UNCHANGED written
      BY <2>1 DEF Flush
    <3>2. usedSpace[k] \in BlockT
      BY DEF IInv, TypeOK
    <3>3. Cached' = Cached /\ \A j \in Cached : usedSpace'[j].data = usedSpace[j].data
      BY <3>1, <3>2 DEF Cached, BlockT
    <3> QED
      BY <2>1, <3>1, <3>3 DEF Flush
  <2>2. CASE Evict(k)
    <3>1. usedSpace' = [j \in Cached \ {k} |-> usedSpace[j]] /\ Cached' = Cached \ {k}
      BY <2>2 DEF Evict, Cached
    <3>2. ASSUME width = 1, NEW p \in Positions, written'[p] # NUL
          PROVE  written'[p] = written[p] /\ p \div BlockSize # k
      <4>1. usedSpace[k].origin = k
        BY <3>2 DEF IInv, OwnBlock
      <4> QED
        BY <2>2, <3>2, <4>1 DEF Evict
    <3> QED
      BY <2>2, <3>1, <3>2 DEF Evict
  <2> QED
    BY <2>1, <2>2
<1>2. /\ BlockOffset' = BlockOffset /\ EndBlockOffset' = EndBlockOffset /\ Start' = Start
  BY <1>1 DEF callVars, BlockOffset, EndBlockOffset, Start
<1>3. TokensCover'
  BY <1>1, <1>2 DEF DataInv, TokensCover, callVars
<1>4. WrittenKept'
  BY <1>1 DEF DataInv, WrittenKept
<1>5. NothingYet'
  BY <1>1, <1>2 DEF DataInv, NothingYet, callVars
<1>6. StringHasRange'
  <2>1. SUFFICES ASSUME op = "read", width = 1, pc = "loop", block > EndBlockOffset, OnWritten'
                 PROVE  /\ Len(response) >= Start + nbyte
                        /\ \A q \in 0 .. Start + nbyte - 1 :
                             response[q + 1] = written'[BlockOffset * BlockSize + q]
    BY <1>1, <1>2 DEF StringHasRange, callVars
  <2>2. \A p \in BlockOffset * BlockSize .. offset + nbyte - 1 :
           written'[p] # NUL /\ written'[p] = written[p]
    <3>1. BlockOffset * BlockSize .. offset + nbyte - 1 \subseteq Positions
      <4>1. /\ offset + nbyte - 1 \in Positions /\ BlockOffset * BlockSize \in Nat
        <5>1. BlockOffset \in Nat /\ BlockSize \in Nat
          BY Ends, SizeAssumption DEF IInv
        <5> QED
          BY <5>1, SMTT(30) DEF IInv, InCall
      <4>2. NumBlocks * BlockSize \in Nat
        BY SizeAssumption, BoundsAssumption
      <4> QED
        BY <4>1, <4>2 DEF Positions
    <3> QED
      BY <1>1, <1>2, <2>1, <3>1 DEF OnWritten, callVars
  <2>3. OnWritten
    BY <1>1, <1>2, <2>1, <2>2 DEF OnWritten
  <2>4. \A q \in 0 .. Start + nbyte - 1 :
          BlockOffset * BlockSize + q \in BlockOffset * BlockSize .. offset + nbyte - 1
    <3>1. /\ BlockOffset \in Nat /\ Start \in Nat /\ offset = BlockSize * BlockOffset + Start
          /\ BlockSize \in Nat /\ nbyte \in Nat /\ offset \in Nat
      BY Ends, SizeAssumption, BoundsAssumption DEF IInv, TypeOK, Positions
    <3>2. BlockOffset * BlockSize = BlockSize * BlockOffset /\ BlockSize * BlockOffset \in Nat
      BY <3>1, SMTT(30)
    <3> QED
      BY <3>1, <3>2
  <2> QED
    BY <2>1, <2>2, <2>3, <2>4 DEF DataInv, StringHasRange
<1> QED
  BY <1>3, <1>4, <1>5, <1>6 DEF DataInv

LEMMA NextData ==
  ASSUME IInv, DataInv, [Next]_vars
  PROVE  DataInv'
<1>1. CASE UNCHANGED << width, tokens, usedSpace, op, offset, nbyte, block, already_have_token,
                        response, written, calls >> /\ (pc' = pc \/ pc' = "idle")
  <2>1. /\ BlockOffset' = BlockOffset /\ EndBlockOffset' = EndBlockOffset /\ Start' = Start
    BY <1>1 DEF BlockOffset, EndBlockOffset, Start
  <2>2. OnWritten' = OnWritten
    BY <1>1, <2>1 DEF OnWritten
  <2>3. TokensCover' /\ WrittenKept'
    BY <1>1, <2>1 DEF DataInv, TokensCover, WrittenKept, Cached
  <2>4. NothingYet' /\ StringHasRange'
    BY <1>1, <2>1, <2>2 DEF DataInv, NothingYet, StringHasRange
  <2> QED
    BY <2>3, <2>4 DEF DataInv
<1>2. CASE Return
  BY <1>1, <1>2 DEF Return
<1>3. CASE UNCHANGED vars
  BY <1>1, <1>3 DEF vars, callVars
<1> QED
  BY <1>2, <1>3, StartCallData, ReadBlockData, WriteBlockData, CacheStepData DEF Next

\* A read within one block, of bytes that calls from the start of the block on have
\* written, returns those bytes: the string is made of the block they are in, no zero
\* byte ends it before them, and "substr" starts within it.
THEOREM WrittenIsRead == Spec => []ReadsBack
<1>1. IInv /\ DataInv /\ [Next]_vars => DataInv'
  BY NextData
<1>2. IInv /\ DataInv => ReadsBack
  <2> SUFFICES ASSUME IInv, DataInv, op = "read", width = 1, pc = "loop",
                      block > EndBlockOffset, OnWritten
               PROVE  Result = [n \in 1 .. nbyte |-> written[offset + n - 1]]
    BY DEF ReadsBack
  <2>1. /\ Len(response) >= Start + nbyte
        /\ \A q \in 0 .. Start + nbyte - 1 : response[q + 1] = written[BlockOffset * BlockSize + q]
    BY DEF DataInv, StringHasRange
  <2>2. /\ BlockOffset \in Nat /\ Start \in Nat /\ offset = BlockSize * BlockOffset + Start
        /\ BlockSize \in Nat /\ nbyte \in Nat \ {0} /\ offset \in Nat
        /\ response \in Seq(Bytes) /\ Len(response) \in Nat
    BY Ends, SizeAssumption, BoundsAssumption, LenProperties DEF IInv, TypeOK, Positions
  <2>3. BlockOffset * BlockSize = BlockSize * BlockOffset /\ BlockSize * BlockOffset \in Nat
    BY <2>2, SMTT(30)
  <2> DEFINE S == {Start + nbyte, Len(response)}
             e == Start + nbyte
  <2>4. Min(S) = e
    <3>1. S \in SUBSET Nat /\ S # {}
      BY <2>2
    <3>2. e \in S /\ \A y \in S : e <= y
      BY <2>1, <2>2
    <3>3. \A x \in S : (\A y \in S : x <= y) => x = e
      BY <2>1, <2>2
    <3> HIDE DEF S, e
    <3> QED
      BY <3>1, <3>2, <3>3 DEF Min
  <2>5. Result = SubSeq(response, Start + 1, e)
    BY <2>4 DEF Result
  <2> HIDE DEF e
  <2>6. e = Start + nbyte /\ e \in Nat /\ Start + 1 <= e /\ e <= Len(response)
    BY <2>1, <2>2 DEF e
  <2>7. \A i \in Start + 1 .. e : response[i] \in Bytes
    BY <2>2, <2>6, ElementOfSeq
  <2>8. /\ SubSeq(response, Start + 1, e) \in Seq(Bytes)
        /\ Len(SubSeq(response, Start + 1, e)) = nbyte
        /\ \A i \in 1 .. nbyte : SubSeq(response, Start + 1, e)[i] = response[Start + i]
    <3>1. Start + 1 \in Int /\ e \in Int /\ e - (Start + 1) + 1 = nbyte
      BY <2>2, <2>6
    <3>2. /\ SubSeq(response, Start + 1, e) \in Seq(Bytes)
          /\ Len(SubSeq(response, Start + 1, e)) = e - (Start + 1) + 1
          /\ \A i \in 1 .. e - (Start + 1) + 1 :
               SubSeq(response, Start + 1, e)[i] = response[(Start + 1) + i - 1]
      BY <2>2, <2>6, <2>7, <3>1, SubSeqProperties
    <3>3. \A i \in 1 .. nbyte : (Start + 1) + i - 1 = Start + i
      BY <2>2
    <3> QED
      BY <3>1, <3>2, <3>3
  <2>9. ASSUME NEW i \in 1 .. nbyte PROVE response[Start + i] = written[offset + i - 1]
    <3>1. Start + i - 1 \in 0 .. Start + nbyte - 1 /\ (Start + i - 1) + 1 = Start + i
          /\ BlockOffset * BlockSize + (Start + i - 1) = offset + i - 1
      BY <2>2, <2>3
    <3>2. response[(Start + i - 1) + 1] = written[BlockOffset * BlockSize + (Start + i - 1)]
      BY <2>1, <3>1
    <3> QED
      BY <3>1, <3>2
  <2> DEFINE r == SubSeq(response, Start + 1, e)
  <2>10. r = [i \in 1 .. nbyte |-> r[i]]
    BY <2>2, <2>8, LenProperties
  <2>11. \A i \in 1 .. nbyte : r[i] = written[offset + i - 1]
    BY <2>8, <2>9
  <2> HIDE DEF r
  <2>12. r = [n \in 1 .. nbyte |-> written[offset + n - 1]]
    BY <2>10, <2>11
  <2> QED
    BY <2>5, <2>12 DEF r
<1> QED
  BY <1>1, <1>2, Invariant, InitData, PTL DEF Spec
=============================================================================
