------------------------------ MODULE Striping ------------------------------
(***************************************************************************)
(* Where the blocks of a file are: corresponding_server (net_addresses.hh). *)
(* Strips of STRIP_SIZE blocks go round the servers of the file.  Operators  *)
(* only: ClientCache and Transfer use them, TransferProofs shows that no two *)
(* blocks of a file share a place.                                          *)
(***************************************************************************)
EXTENDS Integers

CONSTANT STRIP_SIZE   \* in blocks

ASSUME StripAssumption == STRIP_SIZE \in Nat \ {0}

ServerNumber(b, width) == (b \div STRIP_SIZE) % width

\* Mutant: the position in the strip is lost.
OffsetWithin_Strip(b, width) == ((b \div STRIP_SIZE) \div width) * STRIP_SIZE

\* The offset of a block within its server, in blocks.
OffsetWithin(b, width) == ((b \div STRIP_SIZE) \div width) * STRIP_SIZE + (b % STRIP_SIZE)

Place(b, width) == << ServerNumber(b, width), OffsetWithin(b, width) >>
=============================================================================
