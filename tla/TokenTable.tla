----------------------------- MODULE TokenTable -----------------------------
(***************************************************************************)
(* What the token table of the metadata manager promises, block by block   *)
(* and without intervals, maps, vectors, locks or messages: it serves one  *)
(* claim at a time, takes tokens away only on the blocks of the claim it   *)
(* is serving, grants only blocks that have no writer, and grants all the  *)
(* blocks of the claim at once.                                            *)
(***************************************************************************)
CONSTANTS Files, Clients, AllBlocks, NoWriter

VARIABLES writer,   \* writer[f][b]: the client with the write token, or NoWriter
          readers,  \* readers[f][b]: the clients with a read token
          claims    \* the claim being served: a set of at most one record

vars == << writer, readers, claims >>

Claim == [file : Files, blocks : SUBSET AllBlocks, mode : {"r", "w"}, cl : Clients]

Init == /\ writer = [f \in Files |-> [b \in AllBlocks |-> NoWriter]]
        /\ readers = [f \in Files |-> [b \in AllBlocks |-> {}]]
        /\ claims = {}

Serve(c) == /\ claims = {}
            /\ claims' = {c}
            /\ UNCHANGED << writer, readers >>

\* The writer w loses its tokens on some of the blocks of the claim.
RevokeWriter(c, w, lost) ==
  /\ claims = {c} /\ lost \subseteq c.blocks
  /\ writer' = [writer EXCEPT ![c.file] =
       [b \in AllBlocks |-> IF b \in lost /\ @[b] = w THEN NoWriter ELSE @[b]]]
  /\ UNCHANGED << readers, claims >>

\* The reader r loses its tokens on some of them, on a write claim only.
RevokeReader(c, r, lost) ==
  /\ claims = {c} /\ c.mode = "w" /\ lost \subseteq c.blocks
  /\ readers' = [readers EXCEPT ![c.file] =
       [b \in AllBlocks |-> IF b \in lost THEN @[b] \ {r} ELSE @[b]]]
  /\ UNCHANGED << writer, claims >>

Grant(c) ==
  /\ claims = {c}
  /\ \A b \in c.blocks : writer[c.file][b] = NoWriter
  /\ IF c.mode = "w"
     THEN /\ writer' = [writer EXCEPT ![c.file] =
               [b \in AllBlocks |-> IF b \in c.blocks THEN c.cl ELSE @[b]]]
          /\ UNCHANGED readers
     ELSE /\ readers' = [readers EXCEPT ![c.file] =
               [b \in AllBlocks |-> IF b \in c.blocks THEN @[b] \union {c.cl} ELSE @[b]]]
          /\ UNCHANGED writer
  /\ claims' = {}

\* The file is deleted: all its tokens are forgotten.
Forget(f) ==
  /\ claims = {}
  /\ writer' = [writer EXCEPT ![f] = [b \in AllBlocks |-> NoWriter]]
  /\ readers' = [readers EXCEPT ![f] = [b \in AllBlocks |-> {}]]
  /\ UNCHANGED claims

Next ==
  \/ \E c \in Claim : Serve(c)
  \/ \E c \in claims : \/ Grant(c)
                       \/ \E cl \in Clients, lost \in SUBSET c.blocks :
                            RevokeWriter(c, cl, lost) \/ RevokeReader(c, cl, lost)
  \/ \E f \in Files : Forget(f)

Spec == Init /\ [][Next]_vars
=============================================================================
