------------------------------ MODULE Messages ------------------------------
(***************************************************************************)
(* The bytes that go over the connections: a client of the library, the      *)
(* metadata manager and a file server, each of which sends commands to       *)
(* another one over a TCP connection of its own (PracticalSocket.cc) and     *)
(* splits what it receives into words (StringFunctions.hh).                  *)
(*                                                                          *)
(* TCP carries bytes, not messages: recv returns any beginning of what has   *)
(* been sent.  A command is taken from one recv; its answer from one recv    *)
(* too, or from all of them up to the end of the connection.                 *)
(***************************************************************************)
EXTENDS Integers, SequencesExt

CONSTANTS
  Exchanges,       \* bound: connections, each used once
  Makes,           \* the kinds of exchange each may be
  RCVBUFSIZE,      \* of the file servers, the manager and the revoker, in symbols
  MaxDescriptors   \* sockets a process may have open

AllKinds == {"call", "read", "write", "revoke", "probe"}

ASSUME KindsAssumption  == Makes \in [Exchanges -> SUBSET AllKinds]
ASSUME BufferAssumption == RCVBUFSIZE \in Nat \ {0} /\ MaxDescriptors \in Nat

(* Who talks to whom: the library to the manager (create, open, delete, fstat, *)
(* request_token) and to a file server, the manager to a client's revoker; and *)
(* a client that looks for a free revoker port connects to that of another.    *)
Processes == {"client", "manager", "server", "other"}

From(k) == CASE k = "revoke" -> "manager" [] k = "probe" -> "other" [] OTHER -> "client"
To(k) == CASE k = "call" -> "manager" [] k \in {"read", "write"} -> "server" [] OTHER -> "client"

\* Words.  Two symbols make a word that can be cut into another word.
SP == "_"
Symbols == {SP, "c", "r", "w", "v", "f", "1", "2", "d", "a"}
Command == [call |-> << "c", "c" >>, read |-> << "r", "r" >>, write |-> << "w", "w" >>,
            revoke |-> << "v", "v" >>, probe |-> << >>]
Name == << "f" >>
Offset == << "1", "2" >>
Data == << "d", SP, "d" >>

\* What is sent: the words, with a space between them; a write ends its header with
\* a space, and the data follows.
Header(k) ==
  CASE k \in {"call", "revoke"} -> Command[k] \o << SP >> \o Name
    [] k = "read" -> Command[k] \o << SP >> \o Name \o << SP >> \o Offset
    [] k = "write" -> Command[k] \o << SP >> \o Name \o << SP >> \o Offset \o << SP >>
    [] k = "probe" -> << >>

Message(k) == Header(k) \o (IF k = "write" THEN Data ELSE << >>)

VARIABLES
  kind,      \* of each exchange
  cl, sv,    \* where the two sides are
  up, down,  \* what has been sent to the server and to the client, and not received
  acts,      \* the command, name, offset and data the server acts on
  answer,    \* what it has sent
  response,  \* what the client has
  first,     \* history: how much the first recv of the server returned
  reset,     \* exchanges whose connection the server closed with data unread
  open,      \* the sockets of each process, by the exchanges they are for
  ended      \* processes that have ended

vars == << kind, cl, sv, up, down, acts, answer, response, first, reset, open, ended >>

Strings == Seq(Symbols)
Acts == [command : Strings, name : Strings, offset : Strings, data : Strings]

TypeOK ==
  /\ kind \in [Exchanges -> AllKinds \union {"none"}]
  /\ cl \in [Exchanges -> {"new", "sent", "done", "failed"}]
  /\ sv \in [Exchanges -> {"none", "refused", "recv", "loop", "answer", "close", "done"}]
  /\ up \in [Exchanges -> Strings] /\ down \in [Exchanges -> Strings]
  /\ acts \in [Exchanges -> Acts]
  /\ answer \in [Exchanges -> Strings] /\ response \in [Exchanges -> Strings]
  /\ first \in [Exchanges -> Nat]
  /\ reset \subseteq Exchanges
  /\ open \in [Processes -> SUBSET Exchanges]
  /\ \A p \in Processes : Cardinality(open[p]) <= MaxDescriptors
  /\ ended \subseteq Processes

NoActs == [command |-> << >>, name |-> << >>, offset |-> << >>, data |-> << >>]

Init ==
  /\ kind = [e \in Exchanges |-> "none"]
  /\ cl = [e \in Exchanges |-> "new"]
  /\ sv = [e \in Exchanges |-> "none"]
  /\ up = [e \in Exchanges |-> << >>] /\ down = [e \in Exchanges |-> << >>]
  /\ acts = [e \in Exchanges |-> NoActs]
  /\ answer = [e \in Exchanges |-> << >>] /\ response = [e \in Exchanges |-> << >>]
  /\ first = [e \in Exchanges |-> 0]
  /\ reset = {}
  /\ open = [p \in Processes |-> {}]
  /\ ended = {}
-----------------------------------------------------------------------------
(* Words of what was received.                                              *)

\* nextToken: the word up to the first space, and what is behind that space.
NextToken(str) ==
  LET n == SelectInSeq(str, LAMBDA x : x = SP)
  IN IF n = 0 THEN [token |-> str, rest |-> << >>]
     ELSE [token |-> SubSeq(str, 1, n - 1), rest |-> SubSeq(str, n + 1, Len(str))]

\* Mutant: the data that came with the header is dropped.
Parse_NoRest(str) ==
  LET c == NextToken(str)  n == NextToken(c.rest)  o == NextToken(n.rest)
  IN [command |-> c.token, name |-> n.token, offset |-> o.token, data |-> << >>]

\* The words the handlers take; what is left is the beginning of the data.
Parse(str) ==
  LET c == NextToken(str)  n == NextToken(c.rest)  o == NextToken(n.rest)
  IN [command |-> c.token, name |-> n.token, offset |-> o.token, data |-> o.rest]
-----------------------------------------------------------------------------
(* Processes, sockets.                                                      *)

Alive(p) == p \notin ended

Sockets(p, e) == [open EXCEPT ![p] = @ \union {e}]
Closed(p, e) == [open EXCEPT ![p] = @ \ {e}]

\* A process is gone, its sockets with it.
End(p) == /\ ended' = ended \union {p}
          /\ open' = [open EXCEPT ![p] = {}]

\* Mutant: one descriptor more than there are.
Full_OneMore(p) == Cardinality(open[p]) > MaxDescriptors

\* socket and accept fail.
Full(p) == Cardinality(open[p]) >= MaxDescriptors

\* The other side will send no more.
ClientClosed(e) == cl[e] \in {"done", "failed"} \/ ~Alive(From(kind[e]))
ServerClosed(e) == (sv[e] = "done" /\ e \notin open[To(kind[e])]) \/ ~Alive(To(kind[e]))
-----------------------------------------------------------------------------
(* The side that connects.                                                  *)

\* Mutant: a write waits for an acknowledgement until the connection ends.
Waits_Ack(k) == k # "probe"

\* writeToFileServer does not wait for the "ack" it expects, and the probe of a port
\* only connects.
Waits(k) == k \notin {"write", "probe"}

\* No connection: the library exits, the manager goes on with "exception", its socket
\* closed by the destructor, and to a probe the port is free: port_is_open returns
\* without closing the socket it has made, if it could make one.
Refused(e, k) ==
  /\ Full(From(k)) \/ ~Alive(To(k))
  /\ cl' = [cl EXCEPT ![e] = "failed"]
  /\ sv' = [sv EXCEPT ![e] = "refused"]
  /\ IF From(k) = "client" THEN End("client")
     ELSE /\ open' = IF k = "probe" /\ ~Full(From(k)) THEN Sockets(From(k), e) ELSE open
          /\ UNCHANGED ended
  /\ UNCHANGED up

Connected(e, k) ==
  /\ ~Full(From(k)) /\ Alive(To(k))
  /\ up' = [up EXCEPT ![e] = Message(k)]
  /\ cl' = [cl EXCEPT ![e] = IF Waits(k) THEN "sent" ELSE "done"]
  /\ open' = IF Waits(k) THEN Sockets(From(k), e) ELSE open
  /\ UNCHANGED << sv, ended >>

Send(e, k) ==
  /\ kind[e] = "none"
  /\ Alive(From(k))
  /\ kind' = [kind EXCEPT ![e] = k]
  /\ Refused(e, k) \/ Connected(e, k)
  /\ UNCHANGED << down, acts, answer, response, first, reset >>

Waiting(e) == cl[e] = "sent" /\ Alive(From(kind[e]))

Finish(e) == /\ cl' = [cl EXCEPT ![e] = "done"]
             /\ open' = Closed(From(kind[e]), e)
             /\ UNCHANGED ended

\* recv has failed, or returned nothing where an answer is due.
Unanswered(e) ==
  /\ cl' = [cl EXCEPT ![e] = "failed"]
  /\ IF From(kind[e]) = "client" THEN End("client")
     ELSE open' = Closed(From(kind[e]), e) /\ UNCHANGED ended
  /\ UNCHANGED << down, response >>

\* The connection may break when the server closes it with data unread.
Broken(e) == e \in reset \/ ~Alive(To(kind[e]))

Received(e, n) ==
  /\ response' = [response EXCEPT ![e] = @ \o SubSeq(down[e], 1, n)]
  /\ down' = [down EXCEPT ![e] = SubSeq(@, n + 1, Len(@))]

\* sendToServer: one recv.
ReceiveAnswer(e) ==
  /\ Waiting(e)
  /\ kind[e] \in {"call", "revoke"}
  /\ \/ \E n \in 1 .. Len(down[e]) : Received(e, n) /\ Finish(e)
     \/ down[e] = << >> /\ ServerClosed(e) /\ Unanswered(e)
     \/ Broken(e) /\ Unanswered(e)
  /\ UNCHANGED << kind, sv, up, acts, answer, first, reset >>

\* readFromFileServer: recv until the connection ends.  What it then puts into the
\* block is nothing: it cuts the response to the length of the new block's string,
\* which is empty, and no state of this module comes of it (ClientCache and Transfer
\* have the empty block).
ReceiveToEnd(e) ==
  /\ Waiting(e)
  /\ kind[e] \in {"read", "write"}
  /\ \/ /\ \E n \in 1 .. Len(down[e]) : Received(e, n)
        /\ UNCHANGED << cl, open, ended >>
     \/ /\ down[e] = << >> /\ ServerClosed(e)
        /\ Finish(e)
        /\ UNCHANGED << down, response >>
     \/ Broken(e) /\ Unanswered(e)
  /\ UNCHANGED << kind, sv, up, acts, answer, first, reset >>
-----------------------------------------------------------------------------
(* The side that accepts.                                                   *)

Revoker(k) == k \in {"revoke", "probe"}

\* The servers and the manager have a thread per connection; the revoker handles one
\* connection after the other.  accept fails when the table of descriptors is full,
\* and the process exits.
Accept(e) ==
  /\ kind[e] # "none" /\ sv[e] = "none"
  /\ Alive(To(kind[e]))
  /\ Revoker(kind[e]) =>
       \A d \in Exchanges : Revoker(kind[d]) => sv[d] \in {"none", "refused", "done"}
  /\ \/ /\ ~Full(To(kind[e]))
        /\ sv' = [sv EXCEPT ![e] = "recv"]
        /\ open' = Sockets(To(kind[e]), e)
        /\ UNCHANGED ended
     \/ /\ Full(To(kind[e]))
        /\ End(To(kind[e]))
        /\ UNCHANGED sv
  /\ UNCHANGED << kind, cl, up, down, acts, answer, response, first, reset >>

Handling(e, label) == sv[e] = label /\ Alive(To(kind[e]))

\* The terminator is written behind the n received symbols; behind a full buffer that
\* is undefined: nothing comes of it, or the process is terminated.
Terminate(e, n) == \/ UNCHANGED << open, ended >>
                   \/ n = RCVBUFSIZE /\ End(To(kind[e]))

Take(e, n) == up' = [up EXCEPT ![e] = SubSeq(@, n + 1, Len(@))]

Pieces(e) == 1 .. Min({Len(up[e]), RCVBUFSIZE})

\* The first recv: the command and its words.  One that is not known is not answered;
\* a write opens its file, if it has the name of one, and goes on to receive.
ReceiveCommand(e) ==
  /\ Handling(e, "recv")
  /\ \/ \E n \in Pieces(e) :
          LET a == Parse(SubSeq(up[e], 1, n))
          IN /\ acts' = [acts EXCEPT ![e] = a]
             /\ first' = [first EXCEPT ![e] = n]
             /\ Take(e, n)
             /\ Terminate(e, n)
             /\ sv' = [sv EXCEPT ![e] = IF a.command # Command[kind[e]] THEN "close"
                                        ELSE IF kind[e] # "write" THEN "answer"
                                        ELSE IF a.name = << >> THEN "close" ELSE "loop"]
     \/ /\ up[e] = << >> /\ ClientClosed(e)
        /\ sv' = [sv EXCEPT ![e] = "close"]
        /\ UNCHANGED << acts, first, up, open, ended >>
  /\ UNCHANGED << kind, cl, down, answer, response, reset >>

\* The loop of a write, until the client closes the connection.
ReceiveData(e) ==
  /\ Handling(e, "loop")
  /\ \/ \E n \in Pieces(e) :
          /\ acts' = [acts EXCEPT ![e].data = @ \o SubSeq(up[e], 1, n)]
          /\ Take(e, n)
          /\ Terminate(e, n)
          /\ UNCHANGED sv
     \/ /\ up[e] = << >> /\ ClientClosed(e)
        /\ sv' = [sv EXCEPT ![e] = "close"]
        /\ UNCHANGED << acts, up, open, ended >>
  /\ UNCHANGED << kind, cl, down, answer, response, first, reset >>

\* An answer may be empty, except that to a revocation: an open of an unknown file, a
\* read of a file that is not there.
SendAnswer(e) ==
  /\ Handling(e, "answer")
  /\ \E a \in {<< >>, << "a", "a" >>} :
       /\ kind[e] = "revoke" => a # << >>
       /\ answer' = [answer EXCEPT ![e] = a]
       /\ down' = [down EXCEPT ![e] = a]
  /\ sv' = [sv EXCEPT ![e] = "close"]
  /\ UNCHANGED << kind, cl, up, acts, response, first, reset, open, ended >>

\* Mutant: the thread does not delete the socket.
Close_Kept(e) ==
  /\ Handling(e, "close")
  /\ sv' = [sv EXCEPT ![e] = "done"]
  /\ UNCHANGED << kind, cl, up, down, acts, answer, response, first, reset, open, ended >>

\* The thread deletes its socket, which closes it; the revoker never does.
Close(e) ==
  /\ Handling(e, "close")
  /\ sv' = [sv EXCEPT ![e] = "done"]
  /\ IF Revoker(kind[e]) THEN UNCHANGED << open, reset >>
     ELSE /\ open' = Closed(To(kind[e]), e)
          /\ reset' = IF up[e] # << >> THEN reset \union {e} ELSE reset
  /\ UNCHANGED << kind, cl, up, down, acts, answer, response, first, ended >>

Serve(e) == \/ Accept(e) \/ ReceiveCommand(e) \/ ReceiveData(e) \/ SendAnswer(e) \/ Close(e)

Receive(e) == ReceiveAnswer(e) \/ ReceiveToEnd(e)

Next == \E e \in Exchanges : (\E k \in Makes[e] : Send(e, k)) \/ Serve(e) \/ Receive(e)

Spec == Init /\ [][Next]_vars

\* The threads of both sides are scheduled, and what was sent arrives.
FairSpec == Spec /\ \A e \in Exchanges : WF_vars(Serve(e)) /\ WF_vars(Receive(e))
-----------------------------------------------------------------------------
Whole(e) == first[e] >= Len(Header(kind[e]))

Words(k) == [name |-> Name,
             offset |-> IF k \in {"read", "write"} THEN Offset ELSE << >>,
             data |-> IF k = "write" THEN Data ELSE << >>]

\* A server acts on the name, the offset and the data it was sent, in however many
\* pieces they came, if the first recv had the header.  If not, the name and the
\* offset are beginnings of those sent.
ActsAsAsked ==
  \A e \in Exchanges :
    LET a == acts[e]  w == Words(kind[e])
    IN first[e] > 0 /\ sv[e] \in {"answer", "close", "done"} /\ a.command = Command[kind[e]] =>
         /\ IsPrefix(a.name, w.name) /\ IsPrefix(a.offset, w.offset)
         /\ Whole(e) => a.name = w.name /\ a.offset = w.offset /\ a.data = w.data

\* The loop of a read has received everything the server has sent when the connection
\* ends, whatever is made of it then; a call has received the beginning of its answer,
\* but never nothing.
ReceivesAnswer ==
  \A e \in Exchanges : cl[e] = "done" /\ Waits(kind[e]) =>
    IF kind[e] \in {"call", "revoke"} THEN response[e] # << >> /\ IsPrefix(response[e], answer[e])
    ELSE response[e] = answer[e]

\* What a server acts on, and what a client has received when it is done, is what the
\* other side has sent.
ReceivedAsSent == ActsAsAsked /\ ReceivesAnswer

\* Sockets are closed by both sides of an exchange on every way out, with two
\* exceptions: those the revoker accepts stay open, answered or not, and so does the
\* one a refused probe was made with.
DescriptorsReturned ==
  \A e \in Exchanges :
    /\ Alive(From(kind[e])) =>
         /\ cl[e] = "sent" => e \in open[From(kind[e])]
         /\ e \in open[From(kind[e])] => cl[e] = "sent" \/ (kind[e] = "probe" /\ cl[e] = "failed")
    /\ Alive(To(kind[e])) =>
         (e \in open[To(kind[e])] <=>
            sv[e] \notin {"none", "refused", "done"} \/ (Revoker(kind[e]) /\ sv[e] = "done"))

\* Every exchange comes to an end on both sides, or the process ends: nobody waits for
\* the end of a connection the other one waits to end.  The exception is a revocation of
\* which the first recv returned a part of the command word: it is not answered and its
\* socket stays open.
ExchangesEnd ==
  \A e \in Exchanges :
    kind[e] # "none" ~>
      \/ ~Waiting(e) /\ (sv[e] \in {"refused", "done"} \/ ~Alive(To(kind[e])))
      \/ kind[e] = "revoke" /\ first[e] \in 1 .. Len(Command[kind[e]]) - 1
=============================================================================
