------------------------ MODULE TokenProtocolProofs ------------------------
(***************************************************************************)
(* Who believes to hold a token, and whom a revocation reaches, for any     *)
(* number of processes, ports and calls, whoever exits.                     *)
(***************************************************************************)
EXTENDS TokenProtocol, SequenceTheorems, FiniteSetTheorems, WellFoundedInduction, TLAPS
-----------------------------------------------------------------------------
(* Sets of numbers; vectors.                                                *)

\* A non-empty set of numbers has a least one.
LEMMA LeastIn ==
  ASSUME NEW S \in SUBSET Nat, S # {}
  PROVE  Min(S) \in S /\ \A y \in S : Min(S) <= y
<1>1. PICK x \in S : \A y \in S : ~(<< y, x >> \in OpToRel(<, Nat))
  BY WFMin, NatLessThanWellFounded
<1>2. \A y \in S : ~(y < x)
  BY <1>1 DEF OpToRel
<1>3. \A y \in S : x =< y
  BY <1>2
<1> QED
  BY <1>3 DEF Min

\* What is left of a sequence without one element: its elements are those of the
\* sequence, and all others are still there.
LEMMA WithoutOne ==
  ASSUME NEW S, NEW s \in Seq(S), NEW n \in 1 .. Len(s)
  PROVE  /\ RemoveAt(s, n) \in Seq(S)
         /\ \A i \in DOMAIN RemoveAt(s, n) : \E j \in DOMAIN s : RemoveAt(s, n)[i] = s[j]
         /\ \A j \in DOMAIN s \ {n} : \E i \in DOMAIN RemoveAt(s, n) : RemoveAt(s, n)[i] = s[j]
<1> DEFINE a == SubSeq(s, 1, n - 1)
           b == SubSeq(s, n + 1, Len(s))
<1>1. Len(s) \in Nat /\ DOMAIN s = 1 .. Len(s) /\ \A i \in 1 .. Len(s) : s[i] \in S
  BY ElementOfSeq, LenProperties
<1>2. /\ a \in Seq(S) /\ Len(a) = n - 1
      /\ \A i \in 1 .. n - 1 : a[i] = s[i]
  BY <1>1, SubSeqProperties
<1>3. /\ b \in Seq(S) /\ Len(b) = Len(s) - n
      /\ \A i \in 1 .. Len(s) - n : b[i] = s[n + i]
  <2>1. \A i \in n + 1 .. Len(s) : s[i] \in S
    BY <1>1
  <2>2. n + 1 \in Int /\ Len(s) \in Int
    BY <1>1
  <2>3. /\ b \in Seq(S)
        /\ Len(b) = IF n + 1 <= Len(s) THEN Len(s) - (n + 1) + 1 ELSE 0
        /\ \A i \in 1 .. Len(s) - (n + 1) + 1 : b[i] = s[(n + 1) + i - 1]
    BY <2>1, <2>2, SubSeqProperties
  <2> HIDE DEF b
  <2>4. Len(s) - (n + 1) + 1 = Len(s) - n
    BY <1>1
  <2>5. ASSUME NEW i \in 1 .. Len(s) - n PROVE b[i] = s[n + i]
    <3>1. (n + 1) + i - 1 = n + i
      BY <1>1
    <3> QED
      BY <2>3, <2>4, <3>1
  <2>6. Len(b) = Len(s) - n
    <3>1. Len(s) \in Nat /\ Len(b) = IF n + 1 <= Len(s) THEN Len(s) - (n + 1) + 1 ELSE 0
      BY <1>1, <2>3
    <3> QED
      BY <3>1
  <2> QED
    BY <2>3, <2>5, <2>6
<1>4. RemoveAt(s, n) = a \o b
  BY DEF RemoveAt
<1> HIDE DEF a, b
<1>5. /\ a \o b \in Seq(S)
      /\ Len(a \o b) = Len(s) - 1
      /\ \A i \in 1 .. Len(s) - 1 : (a \o b)[i] = IF i <= n - 1 THEN s[i] ELSE s[i + 1]
  <2>1. /\ a \o b \in Seq(S)
        /\ Len(a \o b) = Len(a) + Len(b)
        /\ \A i \in 1 .. Len(a) + Len(b) : (a \o b)[i] = IF i <= Len(a) THEN a[i] ELSE b[i - Len(a)]
    BY <1>2, <1>3, ConcatProperties
  <2>2. Len(a) + Len(b) = Len(s) - 1
    BY <1>1, <1>2, <1>3
  <2>3. ASSUME NEW i \in 1 .. Len(s) - 1
        PROVE  (a \o b)[i] = IF i <= n - 1 THEN s[i] ELSE s[i + 1]
    <3>1. CASE i <= n - 1
      BY <1>1, <1>2, <2>1, <2>2, <2>3, <3>1
    <3>2. CASE ~(i <= n - 1)
      <4>1. i - (n - 1) \in 1 .. Len(s) - n /\ n + (i - (n - 1)) = i + 1
        BY <1>1, <2>3, <3>2
      <4>2. (a \o b)[i] = b[i - (n - 1)]
        BY <1>1, <1>2, <2>1, <2>2, <2>3, <3>2
      <4> QED
        BY <1>3, <3>2, <4>1, <4>2
    <3> QED
      BY <3>1, <3>2
  <2> QED
    BY <2>1, <2>2, <2>3
<1>6. DOMAIN (a \o b) = 1 .. Len(s) - 1
  BY <1>5, LenProperties
<1>7. ASSUME NEW i \in DOMAIN (a \o b) PROVE \E j \in DOMAIN s : (a \o b)[i] = s[j]
  <2>0. i \in 1 .. Len(s) - 1 /\ Len(s) \in Nat
    BY <1>1, <1>6
  <2>1. i \in 1 .. Len(s) - 1 /\ i \in DOMAIN s /\ i + 1 \in DOMAIN s
    BY <1>1, <2>0
  <2>2. (a \o b)[i] = s[i] \/ (a \o b)[i] = s[i + 1]
    BY <1>5, <2>1
  <2> QED
    BY <2>1, <2>2
<1>8. ASSUME NEW j \in DOMAIN s \ {n} PROVE \E i \in DOMAIN (a \o b) : (a \o b)[i] = s[j]
  <2>1. CASE j < n
    <3>1. j \in 1 .. Len(s) - 1 /\ j <= n - 1
      BY <1>1, <2>1
    <3> QED
      BY <1>5, <1>6, <3>1
  <2>2. CASE j > n
    <3>1. j - 1 \in 1 .. Len(s) - 1 /\ ~(j - 1 <= n - 1) /\ (j - 1) + 1 = j
      BY <1>1, <2>2
    <3> QED
      BY <1>5, <1>6, <3>1
  <2> QED
    BY <1>1, <2>1, <2>2
<1> QED
  BY <1>4, <1>5, <1>7, <1>8

\* A sequence with one more element.
LEMMA WithOneMore ==
  ASSUME NEW S, NEW s \in Seq(S), NEW x \in S, NEW t, t = Append(s, x)
  PROVE  /\ t \in Seq(S)
         /\ \A i \in DOMAIN t : t[i] = x \/ \E j \in DOMAIN s : t[i] = s[j]
         /\ \A j \in DOMAIN s : \E i \in DOMAIN t : t[i] = s[j]
         /\ \E i \in DOMAIN t : t[i] = x
<1>1. /\ t \in Seq(S) /\ Len(t) = Len(s) + 1
      /\ \A i \in 1 .. Len(s) : t[i] = s[i]
      /\ t[Len(s) + 1] = x
  BY AppendProperties
<1>2. DOMAIN s = 1 .. Len(s) /\ Len(s) \in Nat /\ DOMAIN t = 1 .. Len(s) + 1
  BY <1>1, LenProperties
<1>3. /\ \A i \in DOMAIN t : t[i] = x \/ \E j \in DOMAIN s : t[i] = s[j]
      /\ \A j \in DOMAIN s : \E i \in DOMAIN t : t[i] = s[j]
      /\ \E i \in DOMAIN t : t[i] = x
  BY <1>1, <1>2
<1> QED
  BY <1>1, <1>3
-----------------------------------------------------------------------------
\* A process that is gone does nothing and holds nothing; one that asks for a token
\* has none.
Processes ==
  \A c \in Clients :
    /\ life[c] = "gone" => /\ pc[c] = "idle" /\ tok[c] = "none" /\ cache[c] = "absent"
                           /\ rstate[c] = "none" /\ rpc[c] = "idle"
    /\ pc[c] \in {"ask", "wait", "granted"} => tok[c] = "none"

\* A request is that of a process that waits for it, or that is gone.
Awaited(r) == life[r.cl] = "up" => pc[r.cl] = "wait" /\ r.mode = op[r.cl]

\* Each process has at most one request on its way or being served.
Outstanding ==
  /\ \A r \in inbox : Awaited(r)
  /\ \A r, s \in inbox : r.cl = s.cl /\ life[r.cl] = "up" => r = s
  /\ phase # "idle" => /\ serving \in Request
                       /\ Awaited(serving)
                       /\ \A r \in inbox : r.cl = serving.cl => life[r.cl] = "gone"

\* A port in a request or a record is 0, or the port of its process.
OwnPort(r) == r.port \in {0, revoker_port[r.cl]}

\* Nobody shares a port, and no process changes its own.
PortsOwned ==
  /\ \A c \in Clients : rstate[c] = "start" => revoker_port[c] = 0
  /\ \A c \in Clients : revoker_port[c] = 0 => rstate[c] \notin {"bind", "listen"}
  /\ \A c \in Clients : life[c] = "up" /\ rstate[c] = "none" => revoker_port[c] = 0
  /\ \A c, d \in Clients :
       rstate[c] = "listen" /\ rstate[d] = "listen" /\ revoker_port[c] = revoker_port[d] => c = d
  /\ \A r \in inbox \union writer : OwnPort(r)
  /\ phase # "idle" => OwnPort(serving)
  /\ \A i \in DOMAIN readers : OwnPort(readers[i])

\* The process whose record is about to be dropped is excused when it still believes.
BelieverExcused(h) ==
  life[h.cl] = "up" /\ (tok[h.cl] # "none" \/ pc[h.cl] = "granted") => h.cl \in excused

\* The manager drops the one writer there is, or a reader, when the answer arrives.
Turns ==
  /\ writer = {} \/ \E h \in Holder : writer = {h}
  /\ phase \in {"readers", "rcall"} => writer = {} /\ serving.mode = "w" /\ it # 0
  /\ phase = "wcall" => whom \in Clients /\ \A h \in writer : BelieverExcused(h)
  /\ phase = "rcall" => whom \in Clients /\ it \in DOMAIN readers /\ BelieverExcused(readers[it])

HasRead(c) == \E i \in DOMAIN readers : readers[i].cl = c
HasWrite(c) == \E h \in writer : h.cl = c

\* A token that is held, or granted and on its way, is recorded.
Believed ==
  ~dead => \A c \in Clients \ excused :
    /\ tok[c] = "r" \/ (pc[c] = "granted" /\ op[c] = "r") => HasRead(c)
    /\ tok[c] = "w" \/ (pc[c] = "granted" /\ op[c] = "w") => HasWrite(c)

\* A block is dirty under a write token, or until its revoker has flushed.
Dirtied == \A c \in Clients \ rogue : cache[c] = "D" => tok[c] = "w" \/ rpc[c] # "idle"

IInv == TypeOK /\ Processes /\ Outstanding /\ PortsOwned /\ Turns /\ Believed /\ Dirtied
-----------------------------------------------------------------------------
(* Facts about the manager's tables and the ports.                          *)

\* The table of writers has at most one entry.
LEMMA FewWriters ==
  ASSUME NEW W, W = {} \/ \E h \in Holder : W = {h}
  PROVE  W \subseteq Holder /\ Cardinality(W) <= 1
<1>1. CASE W = {}
  BY <1>1, FS_EmptySet
<1>2. ASSUME NEW h \in Holder, W = {h} PROVE W \subseteq Holder /\ Cardinality(W) <= 1
  <2>1. Cardinality({h}) = 1
    BY FS_Singleton
  <2> QED
    BY <1>2, <2>1
<1> QED
  BY <1>1, <1>2
-----------------------------------------------------------------------------
(* Steps of the processes.                                                  *)

\* The states the program starts in satisfy the invariant.
LEMMA InitStep == Init => IInv
<1> SUFFICES ASSUME Init PROVE IInv
  OBVIOUS
<1>1. TypeOK
  <2>1. readers \in Seq(Holder)
    BY EmptySeq DEF Init
  <2>2. writer \subseteq Holder /\ Cardinality(writer) <= 1
    BY FewWriters DEF Init
  <2>3. calls \in 0 .. MaxCalls /\ it \in Nat
    BY PortsAssumption DEF Init
  <2>4. asked \in [Clients -> BOOLEAN]
    BY DEF Init
  <2> QED
    BY <2>1, <2>2, <2>3, <2>4 DEF Init, TypeOK
<1>2. Processes /\ Outstanding /\ PortsOwned /\ Dirtied
  BY DEF Init, Processes, Outstanding, PortsOwned, Dirtied
<1>3. Turns
  BY DEF Init, Turns
<1>4. Believed
  BY DEF Init, Believed
<1> QED
  BY <1>1, <1>2, <1>3, <1>4 DEF IInv

\* A process that exits takes its tokens and its block with it.
LEMMA ExitedStep ==
  ASSUME IInv, NEW c \in Clients, life[c] = "up", Exited(c)
  PROVE  IInv'
<1> USE DEF IInv
<1>1. TypeOK'
  BY DEF TypeOK, Exited, managerVars
<1>2. Processes'
  BY DEF TypeOK, Processes, Exited
<1>3. Outstanding'
  BY DEF TypeOK, Outstanding, Awaited, Exited, managerVars, Request
<1>4. PortsOwned'
  BY DEF TypeOK, PortsOwned, OwnPort, Exited, managerVars
<1>5. Turns'
  BY DEF TypeOK, Turns, BelieverExcused, Exited, managerVars, Holder
<1>6. Believed'
  BY DEF TypeOK, Believed, HasRead, HasWrite, Exited, managerVars
<1>7. Dirtied'
  BY DEF TypeOK, Dirtied, Exited
<1> QED
  BY <1>1, <1>2, <1>3, <1>4, <1>5, <1>6, <1>7
\* A port of the list is a port, the least free one too.
LEMMA FreePort ==
  ASSUME NEW free \in SUBSET Ports, free # {}
  PROVE  Min(free) \in free /\ Min(free) # 0
<1>1. free \in SUBSET Nat /\ 0 \notin free
  BY PortsAssumption DEF Ports
<1> QED
  BY <1>1, LeastIn

\* A process takes a port, which no request has had before.
LEMMA ChoosePortStep ==
  ASSUME IInv, NEW c \in Clients, ChoosePort(c)
  PROVE  IInv'
<1> USE DEF IInv
<1>0. /\ rstate[c] = "start" /\ revoker_port[c] = 0
      /\ \/ \E p \in Ports : /\ p # 0
                             /\ revoker_port' = [revoker_port EXCEPT ![c] = p]
                             /\ rstate' = [rstate EXCEPT ![c] = "bind"]
         \/ /\ rstate' = [rstate EXCEPT ![c] = "none"]
            /\ UNCHANGED revoker_port
  <2>1. rstate[c] = "start" /\ revoker_port[c] = 0
    BY DEF ChoosePort, PortsOwned
  <2> DEFINE free == {p \in Ports : Listening(p) = {}}
  <2>2. free # {} => Min(free) \in Ports /\ Min(free) # 0
    <3>1. free \in SUBSET Ports
      OBVIOUS
    <3> HIDE DEF free
    <3>2. free # {} => Min(free) \in free /\ Min(free) # 0
      BY <3>1, FreePort
    <3> QED
      BY <3>1, <3>2
  <2>3. \/ /\ free # {}
           /\ revoker_port' = [revoker_port EXCEPT ![c] = Min(free)]
           /\ rstate' = [rstate EXCEPT ![c] = "bind"]
        \/ rstate' = [rstate EXCEPT ![c] = "none"] /\ UNCHANGED revoker_port
    BY DEF ChoosePort
  <2> HIDE DEF free
  <2> QED
    BY <2>1, <2>2, <2>3
<1>1. TypeOK'
  BY <1>0 DEF TypeOK, ChoosePort, managerVars
<1>2. Processes'
  BY DEF TypeOK, Processes, ChoosePort, managerVars
<1>3. Outstanding'
  BY DEF TypeOK, Outstanding, Awaited, Request, ChoosePort, managerVars
<1>4. PortsOwned'
  <2>0. /\ \A d \in Clients \ {c} : rstate'[d] = rstate[d] /\ revoker_port'[d] = revoker_port[d]
        /\ rstate'[c] \in {"bind", "none"}
        /\ rstate'[c] = "bind" => revoker_port'[c] # 0
        /\ rstate'[c] = "none" => revoker_port'[c] = 0
    <3>1. CASE \E p \in Ports : /\ p # 0
                                /\ revoker_port' = [revoker_port EXCEPT ![c] = p]
                                /\ rstate' = [rstate EXCEPT ![c] = "bind"]
      BY <3>1 DEF TypeOK
    <3>2. CASE rstate' = [rstate EXCEPT ![c] = "none"] /\ UNCHANGED revoker_port
      BY <1>0, <3>2 DEF TypeOK
    <3> QED
      BY <1>0, <3>1, <3>2
  <2>1. ASSUME NEW r, r.cl \in Clients, OwnPort(r) PROVE OwnPort(r)'
    <3>1. CASE r.cl = c
      BY <1>0, <2>1, <3>1 DEF OwnPort
    <3>2. CASE r.cl # c
      BY <2>0, <2>1, <3>2 DEF OwnPort
    <3> QED
      BY <3>1, <3>2
  <2>2. \A r \in inbox \union writer : r.cl \in Clients
    BY DEF TypeOK, Request, Holder
  <2>3. \A i \in DOMAIN readers : readers[i].cl \in Clients
    <3>1. \A i \in DOMAIN readers : readers[i] \in Holder
      BY ElementOfSeq DEF TypeOK
    <3> QED
      BY <3>1 DEF Holder
  <2>4. phase # "idle" => serving.cl \in Clients
    BY DEF Outstanding, Request
  <2>5. UNCHANGED << life, inbox, serving, phase, writer, readers >>
    BY DEF ChoosePort, managerVars
  <2>6. /\ \A r \in (inbox \union writer)' : OwnPort(r)'
        /\ (phase # "idle" => OwnPort(serving))'
        /\ (\A i \in DOMAIN readers : OwnPort(readers[i]))'
    BY <2>1, <2>2, <2>3, <2>4, <2>5 DEF PortsOwned
  <2>7. /\ \A d \in Clients : rstate'[d] = "start" => revoker_port'[d] = 0
        /\ \A d \in Clients : revoker_port'[d] = 0 => rstate'[d] \notin {"bind", "listen"}
        /\ \A d \in Clients : life[d] = "up" /\ rstate'[d] = "none" => revoker_port'[d] = 0
        /\ \A d, e \in Clients : rstate'[d] = "listen" /\ rstate'[e] = "listen"
                               /\ revoker_port'[d] = revoker_port'[e] => d = e
    <3>1. \A d \in Clients : rstate'[d] = "start" => d # c
      BY <2>0
    <3>2. \A d \in Clients : rstate'[d] = "listen" => d # c
      BY <2>0
    <3> QED
      BY <2>0, <3>1, <3>2 DEF PortsOwned
  <2> QED
    BY <2>5, <2>6, <2>7 DEF PortsOwned
<1>5. Turns'
  BY DEF TypeOK, Turns, BelieverExcused, Holder, ChoosePort, managerVars
<1>6. Believed'
  BY DEF TypeOK, Believed, HasRead, HasWrite, ChoosePort, managerVars
<1>7. Dirtied'
  BY DEF TypeOK, Dirtied, ChoosePort, managerVars
<1> QED
  BY <1>1, <1>2, <1>3, <1>4, <1>5, <1>6, <1>7

\* A port is bound, or the process exits.
LEMMA BindStep ==
  ASSUME IInv, NEW c \in Clients, Bind(c)
  PROVE  IInv'
<1> USE DEF IInv
<1>1. CASE Exited(c)
  BY <1>1, ExitedStep DEF Bind
<1>2. CASE /\ Listening(revoker_port[c]) = {}
           /\ rstate' = [rstate EXCEPT ![c] = "listen"]
           /\ UNCHANGED << life, revoker_port, rpc, pc, op, asked, tok, cache, managerVars, calls,
                           excused, rogue >>
  <2>1. TypeOK'
    BY <1>2 DEF TypeOK, Bind, managerVars
  <2>2. Processes'
    BY <1>2 DEF TypeOK, Processes, Bind, managerVars
  <2>3. Outstanding'
    BY <1>2 DEF TypeOK, Outstanding, Awaited, Bind, managerVars
  <2>4. PortsOwned'
    BY <1>2 DEF TypeOK, PortsOwned, OwnPort, Listening, Bind, managerVars
  <2>5. Turns'
    BY <1>2 DEF TypeOK, Turns, BelieverExcused, Bind, managerVars
  <2>6. Believed'
    BY <1>2 DEF Believed, HasRead, HasWrite, Bind, managerVars
  <2>7. Dirtied'
    BY <1>2 DEF Dirtied, Bind, managerVars
  <2> QED
    BY <2>1, <2>2, <2>3, <2>4, <2>5, <2>6, <2>7
<1> QED
  BY <1>1, <1>2 DEF Bind

\* A call begins.
LEMMA CallStep ==
  ASSUME IInv, NEW c \in Clients, NEW o \in {"r", "w"}, Call(c, o)
  PROVE  IInv'
<1> USE DEF IInv
<1>1. TypeOK'
  <2>1. calls' \in 0 .. MaxCalls
    BY PortsAssumption DEF TypeOK, Call
  <2> QED
    BY <2>1 DEF TypeOK, Call, managerVars, GoTo
<1>2. Processes'
  BY DEF TypeOK, Processes, Call, managerVars, GoTo
<1>3. Outstanding'
  BY DEF TypeOK, Outstanding, Awaited, Request, Call, managerVars, GoTo
<1>4. PortsOwned'
  BY DEF TypeOK, PortsOwned, OwnPort, Call, managerVars, GoTo
<1>5. Turns'
  BY DEF TypeOK, Turns, BelieverExcused, Holder, Call, managerVars, GoTo
<1>6. Believed'
  BY DEF TypeOK, Believed, HasRead, HasWrite, Call, managerVars, GoTo
<1>7. Dirtied'
  BY DEF TypeOK, Dirtied, Call, managerVars, GoTo
<1> QED
  BY <1>1, <1>2, <1>3, <1>4, <1>5, <1>6, <1>7

\* The token is checked.
LEMMA CheckTokenStep ==
  ASSUME IInv, NEW c \in Clients, CheckToken(c)
  PROVE  IInv'
<1> USE DEF IInv
<1>1. TypeOK'
  BY DEF TypeOK, CheckToken, managerVars, GoTo
<1>2. Processes'
  BY DEF TypeOK, Processes, CheckToken, managerVars, GoTo
<1>3. Outstanding'
  BY DEF TypeOK, Outstanding, Awaited, Request, CheckToken, managerVars, GoTo
<1>4. PortsOwned'
  BY DEF TypeOK, PortsOwned, OwnPort, CheckToken, managerVars, GoTo
<1>5. Turns'
  <2>1. /\ pc[c] = "check" /\ pc'[c] # "granted" /\ \A d \in Clients \ {c} : pc'[d] = pc[d]
        /\ UNCHANGED << life, tok, managerVars, excused >>
    BY DEF TypeOK, CheckToken, GoTo
  <2>2. \A h \in Holder : BelieverExcused(h) => BelieverExcused(h)'
    BY <2>1 DEF BelieverExcused, Holder
  <2>3. writer \subseteq Holder /\ \A i \in DOMAIN readers : readers[i] \in Holder
    BY ElementOfSeq DEF TypeOK
  <2> QED
    BY <2>1, <2>2, <2>3 DEF Turns, managerVars
<1>6. Believed'
  BY DEF TypeOK, Believed, HasRead, HasWrite, CheckToken, managerVars, GoTo
<1>7. Dirtied'
  BY DEF TypeOK, Dirtied, CheckToken, managerVars, GoTo
<1> QED
  BY <1>1, <1>2, <1>3, <1>4, <1>5, <1>6, <1>7

\* A request is sent: its process waits for it, and had none on its way.
LEMMA RequestTokenStep ==
  ASSUME IInv, NEW c \in Clients, RequestToken(c)
  PROVE  IInv'
<1> USE DEF IInv
<1>1. TypeOK'
  <2>1. [port |-> revoker_port[c], cl |-> c, mode |-> op[c]] \in Request
    BY DEF TypeOK, Request
  <2>2. inbox' \subseteq Request
    BY <2>1 DEF TypeOK, RequestToken
  <2> QED
    BY <2>2 DEF TypeOK, RequestToken, managerVars, GoTo
<1>2. Processes'
  BY DEF TypeOK, Processes, RequestToken, managerVars, GoTo
<1>3. Outstanding'
  BY DEF TypeOK, Outstanding, Awaited, Request, RequestToken, managerVars, GoTo
<1>4. PortsOwned'
  BY DEF TypeOK, PortsOwned, OwnPort, RequestToken, managerVars, GoTo
<1>5. Turns'
  BY DEF TypeOK, Turns, BelieverExcused, Holder, RequestToken, managerVars, GoTo
<1>6. Believed'
  BY DEF TypeOK, Believed, HasRead, HasWrite, RequestToken, managerVars, GoTo
<1>7. Dirtied'
  BY DEF TypeOK, Dirtied, RequestToken, managerVars, GoTo
<1> QED
  BY <1>1, <1>2, <1>3, <1>4, <1>5, <1>6, <1>7

\* A grant becomes a token, of the mode it was recorded with.
LEMMA AddPermissionStep ==
  ASSUME IInv, NEW c \in Clients, AddPermission(c)
  PROVE  IInv'
<1> USE DEF IInv
<1>1. TypeOK'
  BY DEF TypeOK, AddPermission, managerVars, GoTo
<1>2. Processes'
  BY DEF TypeOK, Processes, AddPermission, managerVars, GoTo
<1>3. Outstanding'
  BY DEF TypeOK, Outstanding, Awaited, Request, AddPermission, managerVars, GoTo
<1>4. PortsOwned'
  BY DEF TypeOK, PortsOwned, OwnPort, AddPermission, managerVars, GoTo
<1>5. Turns'
  BY DEF TypeOK, Turns, BelieverExcused, Holder, AddPermission, managerVars, GoTo
<1>6. Believed'
  BY DEF TypeOK, Believed, HasRead, HasWrite, AddPermission, managerVars, GoTo
<1>7. Dirtied'
  BY DEF TypeOK, Processes, Dirtied, AddPermission, managerVars, GoTo
<1> QED
  BY <1>1, <1>2, <1>3, <1>4, <1>5, <1>6, <1>7

\* A block is used; when a write finds no write token, its process is rogue.
LEMMA UseBlockStep ==
  ASSUME IInv, NEW c \in Clients, UseBlock(c)
  PROVE  IInv'
<1> USE DEF IInv
<1>1. TypeOK'
  BY DEF TypeOK, UseBlock, managerVars, GoTo
<1>2. Processes'
  BY DEF TypeOK, Processes, UseBlock, managerVars, GoTo
<1>3. Outstanding'
  BY DEF TypeOK, Outstanding, Awaited, Request, UseBlock, managerVars, GoTo
<1>4. PortsOwned'
  BY DEF TypeOK, PortsOwned, OwnPort, UseBlock, managerVars, GoTo
<1>5. Turns'
  BY DEF TypeOK, Turns, BelieverExcused, Holder, UseBlock, managerVars, GoTo
<1>6. Believed'
  BY DEF TypeOK, Believed, HasRead, HasWrite, UseBlock, managerVars, GoTo
<1>7. Dirtied'
  BY DEF TypeOK, Dirtied, UseBlock, managerVars, GoTo
<1> QED
  BY <1>1, <1>2, <1>3, <1>4, <1>5, <1>6, <1>7

\* A dirty block is sent.
LEMMA FlushStep ==
  ASSUME IInv, NEW c \in Clients, Flush(c)
  PROVE  IInv'
<1> USE DEF IInv
<1>1. TypeOK'
  BY DEF TypeOK, Flush, managerVars, SendDirty
<1>2. Processes'
  BY DEF TypeOK, Processes, Flush, managerVars, SendDirty
<1>3. Outstanding'
  BY DEF TypeOK, Outstanding, Awaited, Request, Flush, managerVars, SendDirty
<1>4. PortsOwned'
  BY DEF TypeOK, PortsOwned, OwnPort, Flush, managerVars, SendDirty
<1>5. Turns'
  BY DEF TypeOK, Turns, BelieverExcused, Holder, Flush, managerVars, SendDirty
<1>6. Believed'
  BY DEF TypeOK, Believed, HasRead, HasWrite, Flush, managerVars, SendDirty
<1>7. Dirtied'
  BY DEF TypeOK, Dirtied, Flush, managerVars, SendDirty
<1> QED
  BY <1>1, <1>2, <1>3, <1>4, <1>5, <1>6, <1>7

\* The revoker flushes.
LEMMA FlushRevokedStep ==
  ASSUME IInv, NEW c \in Clients, FlushRevoked(c)
  PROVE  IInv'
<1> USE DEF IInv
<1>1. TypeOK'
  BY DEF TypeOK, FlushRevoked, managerVars, SendDirty
<1>2. Processes'
  BY DEF TypeOK, Processes, FlushRevoked, managerVars, SendDirty
<1>3. Outstanding'
  BY DEF TypeOK, Outstanding, Awaited, Request, FlushRevoked, managerVars, SendDirty
<1>4. PortsOwned'
  BY DEF TypeOK, PortsOwned, OwnPort, FlushRevoked, managerVars, SendDirty
<1>5. Turns'
  BY DEF TypeOK, Turns, BelieverExcused, Holder, FlushRevoked, managerVars, SendDirty
<1>6. Believed'
  BY DEF TypeOK, Believed, HasRead, HasWrite, FlushRevoked, managerVars, SendDirty
<1>7. Dirtied'
  BY DEF TypeOK, Dirtied, FlushRevoked, managerVars, SendDirty
<1> QED
  BY <1>1, <1>2, <1>3, <1>4, <1>5, <1>6, <1>7
-----------------------------------------------------------------------------
(* Steps of the manager.                                                    *)

\* A request is taken up: it is the only one of its process.
LEMMA ServeStep ==
  ASSUME IInv, NEW r \in inbox, Serve(r)
  PROVE  IInv'
<1> USE DEF IInv
<1>1. TypeOK'
  BY DEF TypeOK, Serve, clientVars
<1>2. Processes'
  BY DEF Processes, Serve, clientVars
<1>3. Outstanding'
  <2>1. r \in Request /\ Awaited(r)
    BY DEF TypeOK, Outstanding
  <2>2. /\ inbox' = inbox \ {r} /\ serving' = r
        /\ UNCHANGED << life, pc, op >>
    BY DEF Serve, clientVars
  <2>3. \A q \in inbox' : Awaited(q)'
    BY <2>2 DEF Outstanding, Awaited
  <2>4. Awaited(serving)'
    BY <2>1, <2>2 DEF Awaited
  <2>5. \A q \in inbox' : q.cl = r.cl => life[q.cl] = "gone"
    <3>1. r.cl \in Clients
      BY <2>1 DEF Request
    <3> QED
      BY <2>2, <3>1 DEF TypeOK, Outstanding
  <2>6. \A q, s \in inbox' : q.cl = s.cl /\ life[q.cl] = "up" => q = s
    BY <2>2 DEF Outstanding
  <2> QED
    BY <2>1, <2>2, <2>3, <2>4, <2>5, <2>6 DEF Outstanding
<1>4. PortsOwned'
  BY DEF PortsOwned, OwnPort, Serve, clientVars
<1>5. Turns'
  BY DEF Turns, Serve, clientVars
<1>6. Believed'
  BY DEF Believed, HasRead, HasWrite, Serve, clientVars
<1>7. Dirtied'
  BY DEF Dirtied, Serve, clientVars
<1> QED
  BY <1>1, <1>2, <1>3, <1>4, <1>5, <1>6, <1>7

\* A revocation that is delivered: who loses the token is no longer excused, whose
\* record it is about is, if that process keeps its token.
LEMMA DeliverStep ==
  ASSUME IInv, NEW h \in Holder, NEW d \in Listening(h.port), Deliver(h, d),
         UNCHANGED << life, rstate, pc, op, cache, writer, readers, dead, rogue >>
  PROVE  /\ d \in Clients /\ whom' = d
         /\ rpc' \in [Clients -> {"idle", "answer", "flush"}]
         /\ tok' \in [Clients -> {"none", "r", "w"}]
         /\ excused' \subseteq Clients
         /\ BelieverExcused(h)' /\ Processes' /\ Believed' /\ Dirtied'
<1> USE DEF IInv
<1>1. /\ d \in Clients /\ rstate[d] = "listen" /\ h.cl \in Clients
      /\ rpc' = [rpc EXCEPT ![d] = "answer"] /\ whom' = d
      /\ tok' = IF Named THEN [tok EXCEPT ![d] = "none"] ELSE tok
      /\ excused' = (excused \union Believers(h)) \ (IF Named /\ pc[d] # "granted" THEN {d} ELSE {})
  BY DEF Listening, Deliver, Holder
<1>2. /\ rpc' \in [Clients -> {"idle", "answer", "flush"}]
      /\ tok' \in [Clients -> {"none", "r", "w"}]
      /\ excused' \subseteq Clients
  BY <1>1 DEF TypeOK, Believers
<1>3. \A c \in Clients : tok'[c] \in {"none", tok[c]} /\ (c # d => tok'[c] = tok[c])
  BY <1>1 DEF TypeOK
<1>4. Named => tok'[d] = "none"
  BY <1>1 DEF TypeOK
<1>5. \A c \in Clients : rpc'[c] = IF c = d THEN "answer" ELSE rpc[c]
  BY <1>1 DEF TypeOK
<1>6. BelieverExcused(h)'
  <2> SUFFICES ASSUME life[h.cl] = "up", tok'[h.cl] # "none" \/ pc[h.cl] = "granted"
               PROVE  h.cl \in excused'
    BY DEF BelieverExcused
  <2>1. h.cl \in Believers(h)
    BY <1>1, <1>3 DEF Believers
  <2>2. ~(h.cl = d /\ Named /\ pc[d] # "granted")
    BY <1>4
  <2> QED
    BY <1>1, <2>1, <2>2
<1>7. Processes'
  BY <1>1, <1>3, <1>5 DEF Processes
<1>8. Believed'
  <2> SUFFICES ASSUME ~dead, NEW c \in Clients, c \notin excused'
               PROVE  /\ tok'[c] = "r" \/ (pc[c] = "granted" /\ op[c] = "r") => HasRead(c)
                      /\ tok'[c] = "w" \/ (pc[c] = "granted" /\ op[c] = "w") => HasWrite(c)
    BY DEF Believed, HasRead, HasWrite
  <2>1. CASE c \notin excused
    BY <1>3, <2>1 DEF Believed
  <2>2. CASE c \in excused
    <3>1. c = d /\ Named /\ pc[c] # "granted"
      BY <1>1, <2>2
    <3> QED
      BY <1>4, <3>1
  <2> QED
    BY <2>1, <2>2
<1>9. Dirtied'
  BY <1>3, <1>5 DEF Dirtied
<1> QED
  BY <1>1, <1>2, <1>6, <1>7, <1>8, <1>9

\* The record of the writer is dropped: its process is excused.
LEMMA DropWriterStep ==
  ASSUME IInv, DropWriter, UNCHANGED << life, pc, op, tok, dead >>,
         excused \subseteq excused',
         \A h \in writer : BelieverExcused(h)'
  PROVE  Believed'
<1> USE DEF IInv
<1> SUFFICES ASSUME ~dead, NEW c \in Clients, c \notin excused'
             PROVE  /\ tok[c] = "r" \/ (pc[c] = "granted" /\ op[c] = "r") => HasRead(c)
                    /\ ~(tok[c] = "w" \/ (pc[c] = "granted" /\ op[c] = "w"))
  BY DEF Believed, HasRead, DropWriter
<1>1. c \notin excused
  OBVIOUS
<1>2. tok[c] = "r" \/ (pc[c] = "granted" /\ op[c] = "r") => HasRead(c)
  BY <1>1 DEF Believed
<1>3. ASSUME tok[c] = "w" \/ (pc[c] = "granted" /\ op[c] = "w") PROVE FALSE
  <2>1. PICK h \in writer : h.cl = c
    BY <1>1, <1>3 DEF Believed, HasWrite
  <2>2. life[c] = "up"
    BY <1>3 DEF Processes, TypeOK
  <2> QED
    BY <1>3, <2>1, <2>2 DEF BelieverExcused
<1> QED
  BY <1>2, <1>3

\* A revocation is sent to the writer, or its record is dropped.
LEMMA RevokeWriterStep ==
  ASSUME IInv, RevokeWriter
  PROVE  IInv'
<1> USE DEF IInv
<1>0. /\ phase = "writers"
      /\ UNCHANGED << life, rstate, revoker_port, pc, op, asked, cache, inbox, serving, it, dead,
                      calls, rogue >>
  BY DEF RevokeWriter, Manager
<1>1. PICK h \in writer :
        \/ /\ \E d \in Listening(h.port) : Deliver(h, d)
           /\ phase' = "wcall"
           /\ UNCHANGED << writer, readers >>
        \/ /\ Listening(h.port) = {}
           /\ DropWriter
           /\ excused' = excused \union Believers(h)
           /\ UNCHANGED << rpc, whom, tok, phase >>
  BY DEF RevokeWriter
<1>2. h \in Holder /\ h.cl \in Clients /\ writer = {h}
  BY DEF TypeOK, Holder, Turns
<1>3. Outstanding'
  BY <1>0, <1>1 DEF Outstanding, Awaited
<1>4. CASE /\ \E d \in Listening(h.port) : Deliver(h, d)
           /\ phase' = "wcall"
           /\ UNCHANGED << writer, readers >>
  <2>1. PICK d \in Listening(h.port) : Deliver(h, d)
    BY <1>4
  <2>2. /\ d \in Clients /\ whom' = d
        /\ rpc' \in [Clients -> {"idle", "answer", "flush"}]
        /\ tok' \in [Clients -> {"none", "r", "w"}]
        /\ excused' \subseteq Clients
        /\ BelieverExcused(h)' /\ Processes' /\ Believed' /\ Dirtied'
    BY <1>0, <1>2, <1>4, <2>1, DeliverStep
  <2>3. TypeOK'
    BY <1>0, <1>4, <2>2 DEF TypeOK
  <2>4. PortsOwned'
    BY <1>0, <1>4 DEF PortsOwned, OwnPort
  <2>5. Turns'
    BY <1>0, <1>2, <1>4, <2>2 DEF Turns
  <2> QED
    BY <1>3, <2>2, <2>3, <2>4, <2>5
<1>5. CASE /\ Listening(h.port) = {}
           /\ DropWriter
           /\ excused' = excused \union Believers(h)
           /\ UNCHANGED << rpc, whom, tok, phase >>
  <2>1. writer' = {} /\ UNCHANGED readers
    BY <1>5 DEF DropWriter
  <2>2. TypeOK'
    <3>1. writer' \subseteq Holder /\ Cardinality(writer') <= 1
      BY <2>1, FewWriters
    <3>2. excused' \subseteq Clients
      BY <1>2, <1>5 DEF TypeOK, Believers
    <3> QED
      BY <1>0, <1>5, <2>1, <3>1, <3>2 DEF TypeOK
  <2>3. Processes' /\ Dirtied'
    BY <1>0, <1>5 DEF Processes, Dirtied
  <2>4. PortsOwned'
    BY <1>0, <1>5, <2>1 DEF PortsOwned, OwnPort
  <2>5. Turns'
    BY <1>0, <1>5, <2>1 DEF Turns
  <2>6. BelieverExcused(h)'
    BY <1>0, <1>5 DEF BelieverExcused, Believers
  <2>7. Believed'
    BY <1>0, <1>2, <1>5, <2>6, DropWriterStep
  <2> QED
    BY <1>3, <2>2, <2>3, <2>4, <2>5, <2>7
<1> QED
  BY <1>1, <1>4, <1>5

\* An answer changes neither who holds what nor who is excused.
LEMMA AnsweredStep ==
  ASSUME IInv, Answered, whom \in Clients,
         UNCHANGED << life, rstate, pc, op, tok, cache, rogue >>
  PROVE  /\ whom' = NoCall
         /\ rpc' \in [Clients -> {"idle", "answer", "flush"}]
         /\ Processes' /\ Dirtied'
<1> USE DEF IInv
<1>1. /\ rpc' \in [Clients -> {"idle", "answer", "flush"}]
      /\ \A c \in Clients : rpc[c] = "idle" <=> rpc'[c] = "idle"
  BY DEF Answered, TypeOK
<1>2. Processes' /\ Dirtied'
  BY <1>1 DEF Processes, Dirtied
<1> QED
  BY <1>1, <1>2 DEF Answered

\* The writer has answered, or nobody has.
LEMMA WriterAnswerStep ==
  ASSUME IInv, WriterAnswer
  PROVE  IInv'
<1> USE DEF IInv
<1>0. /\ phase = "wcall" /\ phase' = "writers" /\ Answered
      /\ whom \in Clients /\ \A h \in writer : BelieverExcused(h)
      /\ UNCHANGED << life, rstate, revoker_port, pc, op, asked, tok, cache, inbox, serving, it, dead,
                      calls, excused, rogue >>
  BY DEF WriterAnswer, Manager, Turns
<1>1. /\ whom' = NoCall
      /\ rpc' \in [Clients -> {"idle", "answer", "flush"}]
      /\ Processes' /\ Dirtied'
  BY <1>0, AnsweredStep
<1>2. DropWriter \/ UNCHANGED << writer, readers >>
  BY DEF WriterAnswer
<1>3. UNCHANGED readers /\ writer' \in {{}, writer}
  BY <1>2 DEF DropWriter
<1>4. TypeOK'
  <2>1. writer' \subseteq Holder /\ Cardinality(writer') <= 1
    BY <1>3, FewWriters DEF TypeOK
  <2> QED
    BY <1>0, <1>1, <1>3, <2>1 DEF TypeOK
<1>5. Outstanding'
  BY <1>0 DEF Outstanding, Awaited
<1>6. PortsOwned'
  BY <1>0, <1>3 DEF PortsOwned, OwnPort
<1>7. Turns'
  BY <1>0, <1>3 DEF Turns
<1>8. Believed'
  <2>1. CASE DropWriter
    <3>1. \A h \in writer : BelieverExcused(h)'
      BY <1>0 DEF BelieverExcused
    <3> QED
      BY <1>0, <2>1, <3>1, DropWriterStep
  <2>2. CASE UNCHANGED << writer, readers >>
    BY <1>0, <2>2 DEF Believed, HasRead, HasWrite
  <2> QED
    BY <1>2, <2>1, <2>2
<1> QED
  BY <1>1, <1>4, <1>5, <1>6, <1>7, <1>8

\* The request is granted: its process waits for it without a token, or is gone.
LEMMA GrantedStep ==
  ASSUME IInv, phase # "idle", Granted,
         UNCHANGED << life, rstate, op, tok, cache, rpc, inbox, rogue >>
  PROVE  /\ pc' \in [Clients -> {"idle", "check", "ask", "wait", "granted", "use"}]
         /\ serving.cl \in Clients /\ tok[serving.cl] = "none"
         /\ pc'[serving.cl] = "granted" => op[serving.cl] = serving.mode
         /\ \A c \in Clients \ {serving.cl} : pc'[c] = pc[c]
         /\ excused' = excused \ {serving.cl}
         /\ phase' = "idle" /\ serving' = NoCall /\ it' = 0
         /\ Processes' /\ Outstanding' /\ Dirtied'
<1> USE DEF IInv
<1>1. serving.cl \in Clients /\ Awaited(serving)
  BY DEF Outstanding, Request
<1>2. /\ pc' = IF pc[serving.cl] = "wait" THEN [pc EXCEPT ![serving.cl] = "granted"] ELSE pc
      /\ excused' = excused \ {serving.cl}
      /\ phase' = "idle" /\ serving' = NoCall /\ it' = 0
  BY DEF Granted
<1>3. /\ pc' \in [Clients -> {"idle", "check", "ask", "wait", "granted", "use"}]
      /\ \A c \in Clients \ {serving.cl} : pc'[c] = pc[c]
      /\ pc'[serving.cl] = IF pc[serving.cl] = "wait" THEN "granted" ELSE pc[serving.cl]
  BY <1>1, <1>2 DEF TypeOK
<1>4. /\ life[serving.cl] = "gone" => pc[serving.cl] = "idle"
      /\ tok[serving.cl] = "none"
      /\ pc'[serving.cl] = "granted" => life[serving.cl] = "up"
  BY <1>1, <1>3 DEF TypeOK, Processes, Awaited
<1>5. pc'[serving.cl] = "granted" => op[serving.cl] = serving.mode
  BY <1>1, <1>4 DEF Awaited
<1>6. Processes'
  BY <1>1, <1>3, <1>4 DEF Processes
<1>7. Outstanding'
  <2>1. \A r \in inbox : r.cl \in Clients
    BY DEF TypeOK, Request
  <2>2. ASSUME NEW r \in inbox PROVE Awaited(r)'
    <3>1. CASE r.cl = serving.cl
      BY <2>2, <3>1 DEF Outstanding, Awaited
    <3>2. CASE r.cl # serving.cl
      BY <1>3, <2>1, <2>2, <3>2 DEF Outstanding, Awaited
    <3> QED
      BY <3>1, <3>2
  <2> QED
    BY <1>2, <2>2 DEF Outstanding
<1>8. Dirtied'
  BY DEF Dirtied
<1> QED
  BY <1>1, <1>2, <1>3, <1>4, <1>5, <1>6, <1>7, <1>8

\* A reader is added to the vector.
LEMMA ReaderAdded ==
  ASSUME NEW new \in Holder, readers \in Seq(Holder), readers' = Append(readers, new)
  PROVE  /\ readers' \in Seq(Holder)
         /\ \A i \in DOMAIN readers' : readers'[i] = new \/ \E j \in DOMAIN readers : readers'[i] = readers[j]
         /\ \A j \in DOMAIN readers : \E i \in DOMAIN readers' : readers'[i] = readers[j]
         /\ \E i \in DOMAIN readers' : readers'[i] = new
  BY WithOneMore

\* A reader is recorded, and its process told.
LEMMA GrantReadStep ==
  ASSUME IInv, GrantRead
  PROVE  IInv'
<1> USE DEF IInv
<1> DEFINE new == [port |-> serving.port, cl |-> serving.cl]
<1>0. /\ phase = "writers" /\ writer = {} /\ serving.mode = "r"
      /\ readers' = Append(readers, new)
      /\ Granted
      /\ UNCHANGED << life, rstate, revoker_port, rpc, op, asked, tok, cache, inbox, whom, writer,
                      dead, calls, rogue >>
  BY DEF GrantRead, Manager
<1>1. /\ pc' \in [Clients -> {"idle", "check", "ask", "wait", "granted", "use"}]
      /\ serving.cl \in Clients /\ tok[serving.cl] = "none"
      /\ pc'[serving.cl] = "granted" => op[serving.cl] = serving.mode
      /\ \A c \in Clients \ {serving.cl} : pc'[c] = pc[c]
      /\ excused' = excused \ {serving.cl}
      /\ phase' = "idle" /\ serving' = NoCall /\ it' = 0
      /\ Processes' /\ Outstanding' /\ Dirtied'
  BY <1>0, GrantedStep
<1>2. new \in Holder /\ OwnPort(new) /\ new.cl = serving.cl
  <2>1. serving \in Request /\ OwnPort(serving)
    BY <1>0 DEF Outstanding, PortsOwned
  <2> QED
    BY <2>1 DEF Request, Holder, OwnPort
<1>3. /\ readers' \in Seq(Holder)
      /\ \A i \in DOMAIN readers' : readers'[i] = new \/ \E j \in DOMAIN readers : readers'[i] = readers[j]
      /\ \A j \in DOMAIN readers : \E i \in DOMAIN readers' : readers'[i] = readers[j]
      /\ \E i \in DOMAIN readers' : readers'[i] = new
  <2>1. readers \in Seq(Holder)
    BY DEF TypeOK
  <2>2. new \in Holder /\ readers' = Append(readers, new)
    BY <1>0, <1>2
  <2> HIDE DEF new
  <2> QED
    BY ONLY <2>1, <2>2, ReaderAdded
<1> HIDE DEF new
<1>4. TypeOK'
  BY <1>0, <1>1, <1>3 DEF TypeOK
<1>5. PortsOwned'
  <2>1. \A i \in DOMAIN readers' : OwnPort(readers'[i])
    BY <1>2, <1>3 DEF PortsOwned
  <2> QED
    BY <1>0, <1>1, <2>1 DEF PortsOwned, OwnPort
<1>6. Turns'
  BY <1>0, <1>1 DEF Turns
<1>7. Believed'
  <2> SUFFICES ASSUME ~dead, NEW c \in Clients, c \notin excused'
               PROVE  /\ tok[c] = "r" \/ (pc'[c] = "granted" /\ op[c] = "r") => HasRead(c)'
                      /\ tok[c] = "w" \/ (pc'[c] = "granted" /\ op[c] = "w") => HasWrite(c)
    BY <1>0 DEF Believed, HasWrite
  <2>1. CASE c = serving.cl
    <3>1. HasRead(c)'
      BY <1>2, <1>3, <2>1 DEF HasRead
    <3>2. ~(tok[c] = "w" \/ (pc'[c] = "granted" /\ op[c] = "w"))
      BY <1>0, <1>1, <2>1
    <3> QED
      BY <3>1, <3>2
  <2>2. CASE c # serving.cl
    <3>1. c \notin excused /\ pc'[c] = pc[c]
      BY <1>1, <2>2
    <3>2. HasRead(c) => HasRead(c)'
      BY <1>3 DEF HasRead
    <3> QED
      BY <3>1, <3>2 DEF Believed
  <2> QED
    BY <2>1, <2>2
<1> QED
  BY <1>1, <1>4, <1>5, <1>6, <1>7

\* The readers are next.
LEMMA StartReadersStep ==
  ASSUME IInv, StartReaders
  PROVE  IInv'
<1> USE DEF IInv
<1>1. TypeOK'
  BY DEF TypeOK, StartReaders, clientVars
<1>2. Processes' /\ Dirtied'
  BY DEF Processes, Dirtied, StartReaders, clientVars
<1>3. Outstanding'
  BY DEF Outstanding, Awaited, StartReaders, Manager, clientVars
<1>4. PortsOwned'
  BY DEF PortsOwned, OwnPort, StartReaders, Manager, clientVars
<1>5. Turns'
  BY DEF Turns, StartReaders, clientVars
<1>6. Believed'
  BY DEF Believed, HasRead, HasWrite, StartReaders, clientVars
<1> QED
  BY <1>1, <1>2, <1>3, <1>4, <1>5, <1>6

\* A reader is erased: its process is excused, and the others are still recorded.
LEMMA DropReaderStep ==
  ASSUME IInv, it \in DOMAIN readers, DropReader, it # 0,
         UNCHANGED << life, revoker_port, pc, op, tok, dead >>,
         excused \subseteq excused',
         NEW h, h = readers[it], BelieverExcused(h)'
  PROVE  /\ readers' \in Seq(Holder)
         /\ (\A i \in DOMAIN readers : OwnPort(readers[i]))'
         /\ it' \in Nat \ {0} /\ UNCHANGED writer
         /\ Believed'
<1> USE DEF IInv
<1>0. /\ readers \in Seq(Holder) /\ it \in 1 .. Len(readers)
      /\ readers' = RemoveAt(readers, it) /\ it' = it + 1 /\ UNCHANGED writer
  <2>1. readers \in Seq(Holder)
    BY DEF TypeOK
  <2>2. it \in 1 .. Len(readers)
    BY <2>1, LenProperties
  <2> QED
    BY <2>1, <2>2 DEF DropReader
<1>1. /\ readers' \in Seq(Holder)
      /\ \A i \in DOMAIN readers' : \E j \in DOMAIN readers : readers'[i] = readers[j]
      /\ \A j \in DOMAIN readers \ {it} : \E i \in DOMAIN readers' : readers'[i] = readers[j]
  BY <1>0, WithoutOne
<1>2. (\A i \in DOMAIN readers : OwnPort(readers[i]))'
  <2>1. \A i \in DOMAIN readers' : OwnPort(readers'[i])
    BY <1>1 DEF PortsOwned
  <2> QED
    BY <2>1 DEF OwnPort
<1>3. it' \in Nat \ {0}
  BY <1>0 DEF TypeOK
<1>4. Believed'
  <2> SUFFICES ASSUME ~dead, NEW c \in Clients, c \notin excused'
               PROVE  /\ tok[c] = "r" \/ (pc[c] = "granted" /\ op[c] = "r") => HasRead(c)'
                      /\ tok[c] = "w" \/ (pc[c] = "granted" /\ op[c] = "w") => HasWrite(c)
    BY <1>0 DEF Believed, HasWrite
  <2>1. c \notin excused
    OBVIOUS
  <2>2. ASSUME tok[c] = "r" \/ (pc[c] = "granted" /\ op[c] = "r") PROVE HasRead(c)'
    <3>1. PICK j \in DOMAIN readers : readers[j].cl = c
      BY <2>1, <2>2 DEF Believed, HasRead
    <3>2. life[c] = "up"
      BY <2>2 DEF Processes, TypeOK
    <3>3. j # it
      BY <2>2, <3>1, <3>2 DEF BelieverExcused
    <3> QED
      BY <1>1, <3>1, <3>3 DEF HasRead
  <2> QED
    BY <2>1, <2>2 DEF Believed
<1> QED
  BY <1>0, <1>1, <1>2, <1>3, <1>4

\* A revocation is sent to the next reader, or its record is erased.
LEMMA RevokeReaderStep ==
  ASSUME IInv, RevokeReader
  PROVE  IInv'
<1> USE DEF IInv
<1>h. PICK h : h = readers[it]
  OBVIOUS
<1>0. /\ phase = "readers" /\ it \in DOMAIN readers
      /\ writer = {} /\ serving.mode = "w" /\ it # 0
      /\ UNCHANGED << life, rstate, revoker_port, pc, op, asked, cache, inbox, serving, dead, calls,
                      rogue >>
  BY DEF RevokeReader, Manager, Turns
<1>1. \/ /\ \E d \in Listening(h.port) : Deliver(h, d)
         /\ phase' = "rcall"
         /\ UNCHANGED << writer, readers, it >>
      \/ /\ Listening(h.port) = {}
         /\ DropReader
         /\ excused' = excused \union Believers(h)
         /\ UNCHANGED << rpc, whom, tok, phase >>
  BY <1>h DEF RevokeReader
<1>2. h \in Holder /\ h.cl \in Clients
  <2>1. h \in Holder
    BY <1>0, <1>h, ElementOfSeq DEF TypeOK
  <2> QED
    BY <2>1 DEF Holder
<1>3. Outstanding'
  BY <1>0, <1>1 DEF Outstanding, Awaited
<1>4. CASE /\ \E d \in Listening(h.port) : Deliver(h, d)
           /\ phase' = "rcall"
           /\ UNCHANGED << writer, readers, it >>
  <2>1. PICK d \in Listening(h.port) : Deliver(h, d)
    BY <1>4
  <2>2. /\ d \in Clients /\ whom' = d
        /\ rpc' \in [Clients -> {"idle", "answer", "flush"}]
        /\ tok' \in [Clients -> {"none", "r", "w"}]
        /\ excused' \subseteq Clients
        /\ BelieverExcused(h)' /\ Processes' /\ Believed' /\ Dirtied'
    BY <1>0, <1>2, <1>4, <2>1, DeliverStep
  <2>3. TypeOK'
    BY <1>0, <1>4, <2>2 DEF TypeOK
  <2>4. PortsOwned'
    BY <1>0, <1>4 DEF PortsOwned, OwnPort
  <2>5. Turns'
    BY <1>0, <1>4, <1>h, <2>2 DEF Turns
  <2> QED
    BY <1>3, <2>2, <2>3, <2>4, <2>5
<1>5. CASE /\ Listening(h.port) = {}
           /\ DropReader
           /\ excused' = excused \union Believers(h)
           /\ UNCHANGED << rpc, whom, tok, phase >>
  <2>1. BelieverExcused(h)'
    BY <1>0, <1>5 DEF BelieverExcused, Believers
  <2>2. /\ readers' \in Seq(Holder)
        /\ (\A i \in DOMAIN readers : OwnPort(readers[i]))'
        /\ it' \in Nat \ {0} /\ UNCHANGED writer
        /\ Believed'
    BY <1>0, <1>5, <1>h, <2>1, DropReaderStep
  <2>3. TypeOK'
    <3>1. excused' \subseteq Clients
      BY <1>2, <1>5 DEF TypeOK, Believers
    <3> QED
      BY <1>0, <1>5, <2>2, <3>1 DEF TypeOK
  <2>4. Processes' /\ Dirtied'
    BY <1>0, <1>5 DEF Processes, Dirtied
  <2>5. PortsOwned'
    BY <1>0, <1>5, <2>2 DEF PortsOwned, OwnPort
  <2>6. Turns'
    BY <1>0, <1>5, <2>2 DEF Turns
  <2> QED
    BY <1>3, <2>2, <2>3, <2>4, <2>5, <2>6
<1> QED
  BY <1>1, <1>4, <1>5

\* The reader has answered, or nobody has; the iterator is on the next one or past it.
LEMMA ReaderAnswerStep ==
  ASSUME IInv, ReaderAnswer
  PROVE  IInv'
<1> USE DEF IInv
<1>0. /\ phase = "rcall" /\ phase' = "readers" /\ Answered
      /\ writer = {} /\ serving.mode = "w" /\ it # 0
      /\ whom \in Clients /\ it \in DOMAIN readers /\ BelieverExcused(readers[it])
      /\ UNCHANGED << life, rstate, revoker_port, pc, op, asked, tok, cache, inbox, serving, dead,
                      calls, excused, rogue >>
  BY DEF ReaderAnswer, Manager, Turns
<1>1. /\ whom' = NoCall
      /\ rpc' \in [Clients -> {"idle", "answer", "flush"}]
      /\ Processes' /\ Dirtied'
  BY <1>0, AnsweredStep
<1>2. Outstanding'
  BY <1>0 DEF Outstanding, Awaited
<1>3. /\ readers' \in Seq(Holder)
      /\ (\A i \in DOMAIN readers : OwnPort(readers[i]))'
      /\ it' \in Nat \ {0} /\ UNCHANGED writer
      /\ Believed'
  <2>1. CASE DropReader
    <3>1. PICK h : h = readers[it]
      OBVIOUS
    <3>2. BelieverExcused(h)'
      BY <1>0, <3>1 DEF BelieverExcused
    <3> QED
      BY <1>0, <2>1, <3>1, <3>2, DropReaderStep
  <2>2. CASE it' = it + 1 /\ UNCHANGED << writer, readers >>
    <3>1. Believed'
      BY <1>0, <2>2 DEF Believed, HasRead, HasWrite
    <3>2. (\A i \in DOMAIN readers : OwnPort(readers[i]))'
      BY <1>0, <2>2 DEF PortsOwned, OwnPort
    <3> QED
      BY <1>0, <2>2, <3>1, <3>2 DEF TypeOK
  <2> QED
    BY <2>1, <2>2 DEF ReaderAnswer
<1>4. TypeOK'
  BY <1>0, <1>1, <1>3 DEF TypeOK
<1>5. PortsOwned'
  BY <1>0, <1>3 DEF PortsOwned, OwnPort
<1>6. Turns'
  BY <1>0, <1>3 DEF Turns
<1> QED
  BY <1>1, <1>2, <1>3, <1>4, <1>5, <1>6

\* The writer is recorded when there is none, and its process told.
LEMMA GrantWriteStep ==
  ASSUME IInv, GrantWrite
  PROVE  IInv'
<1> USE DEF IInv
<1> DEFINE new == [port |-> serving.port, cl |-> serving.cl]
<1>0. /\ phase = "readers" /\ writer = {} /\ serving.mode = "w"
      /\ writer' = writer \union {new}
      /\ Granted
      /\ UNCHANGED << life, rstate, revoker_port, rpc, op, asked, tok, cache, inbox, whom, readers,
                      dead, calls, rogue >>
  BY DEF GrantWrite, Manager, Turns
<1>1. /\ pc' \in [Clients -> {"idle", "check", "ask", "wait", "granted", "use"}]
      /\ serving.cl \in Clients /\ tok[serving.cl] = "none"
      /\ pc'[serving.cl] = "granted" => op[serving.cl] = serving.mode
      /\ \A c \in Clients \ {serving.cl} : pc'[c] = pc[c]
      /\ excused' = excused \ {serving.cl}
      /\ phase' = "idle" /\ serving' = NoCall /\ it' = 0
      /\ Processes' /\ Outstanding' /\ Dirtied'
  BY <1>0, GrantedStep
<1>2. new \in Holder /\ OwnPort(new) /\ new.cl = serving.cl
  <2>1. serving \in Request /\ OwnPort(serving)
    BY <1>0 DEF Outstanding, PortsOwned
  <2> QED
    BY <2>1 DEF Request, Holder, OwnPort
<1> HIDE DEF new
<1>3. writer' = {new}
  BY <1>0
<1>4. TypeOK'
  <2>1. writer' \subseteq Holder /\ Cardinality(writer') <= 1
    BY <1>2, <1>3, FewWriters
  <2> QED
    BY <1>0, <1>1, <2>1 DEF TypeOK
<1>5. PortsOwned'
  BY <1>0, <1>1, <1>2, <1>3 DEF PortsOwned, OwnPort
<1>6. Turns'
  BY <1>1, <1>2, <1>3 DEF Turns
<1>7. Believed'
  <2> SUFFICES ASSUME ~dead, NEW c \in Clients, c \notin excused'
               PROVE  /\ tok[c] = "r" \/ (pc'[c] = "granted" /\ op[c] = "r") => HasRead(c)
                      /\ tok[c] = "w" \/ (pc'[c] = "granted" /\ op[c] = "w") => HasWrite(c)'
    BY <1>0 DEF Believed, HasRead
  <2>1. CASE c = serving.cl
    <3>1. HasWrite(c)'
      BY <1>2, <1>3, <2>1 DEF HasWrite
    <3>2. ~(tok[c] = "r" \/ (pc'[c] = "granted" /\ op[c] = "r"))
      BY <1>0, <1>1, <2>1
    <3> QED
      BY <3>1, <3>2
  <2>2. CASE c # serving.cl
    <3>1. c \notin excused /\ pc'[c] = pc[c]
      BY <1>1, <2>2
    <3> QED
      BY <1>0, <3>1 DEF Believed, HasWrite
  <2> QED
    BY <2>1, <2>2
<1> QED
  BY <1>1, <1>4, <1>5, <1>6, <1>7

\* The manager is terminated.
LEMMA RunWildStep ==
  ASSUME IInv, RunWild
  PROVE  IInv'
<1> USE DEF IInv
<1>1. TypeOK'
  BY DEF TypeOK, RunWild, clientVars
<1>2. Processes' /\ Dirtied'
  BY DEF Processes, Dirtied, RunWild, clientVars
<1>3. Outstanding'
  BY DEF Outstanding, Awaited, RunWild, clientVars
<1>4. PortsOwned'
  BY DEF PortsOwned, OwnPort, RunWild, clientVars
<1>5. Turns'
  BY DEF Turns, BelieverExcused, RunWild, clientVars
<1>6. Believed'
  BY DEF Believed, RunWild
<1> QED
  BY <1>1, <1>2, <1>3, <1>4, <1>5, <1>6
-----------------------------------------------------------------------------
(* The specification.                                                       *)

\* Every step of the application thread keeps the invariant.
LEMMA LibraryStep ==
  ASSUME IInv, NEW c \in Clients, Library(c)
  PROVE  IInv'
<1>1. CASE ManagerGone(c)
  <2>1. life[c] = "up" /\ Exited(c)
    BY <1>1 DEF IInv, TypeOK, Processes, ManagerGone
  <2> QED
    BY <2>1, ExitedStep
<1> QED
  BY <1>1, CheckTokenStep, RequestTokenStep, AddPermissionStep, UseBlockStep DEF Library

\* Every step of the manager keeps it.
LEMMA ManagerStep ==
  ASSUME IInv, HandleRequest
  PROVE  IInv'
  BY ServeStep, RevokeWriterStep, WriterAnswerStep, GrantReadStep, StartReadersStep,
     RevokeReaderStep, ReaderAnswerStep, GrantWriteStep, RunWildStep DEF HandleRequest

\* Every step keeps it.
LEMMA NextStep ==
  ASSUME IInv, [Next]_vars
  PROVE  IInv'
<1>1. CASE UNCHANGED vars
  <2>1. UNCHANGED << life, rstate, revoker_port, rpc, pc, op, asked, tok, cache, inbox, serving,
                     phase, it, whom, writer, readers, dead, calls, excused, rogue >>
    BY <1>1 DEF vars, clientVars, managerVars
  <2> QED
    BY <2>1 DEF IInv, TypeOK, Processes, Outstanding, Awaited, PortsOwned, OwnPort, Turns,
                BelieverExcused, Believed, HasRead, HasWrite, Dirtied
<1>2. ASSUME NEW c \in Clients, Library(c) \/ Revoker(c) \/ Flush(c) PROVE IInv'
  BY <1>2, LibraryStep, ChoosePortStep, BindStep, FlushRevokedStep, FlushStep DEF Revoker
<1>3. ASSUME NEW c \in Clients, NEW o \in Ops[c], Call(c, o) PROVE IInv'
  <2>1. o \in {"r", "w"}
    BY OpsAssumption
  <2> QED
    BY <1>3, <2>1, CallStep
<1>4. ASSUME NEW c \in Mortal, Exit(c) PROVE IInv'
  BY <1>4, MortalAssumption, ExitedStep DEF Exit
<1> QED
  BY <1>1, <1>2, <1>3, <1>4, ManagerStep DEF Next

\* The invariant, of any number of processes, ports and calls.
THEOREM Invariant == Spec => []IInv
<1>1. Init => IInv
  BY InitStep
<1>2. IInv /\ [Next]_vars => IInv'
  BY NextStep
<1> QED
  BY <1>1, <1>2, PTL DEF Spec

\* Every variable keeps its type; there is never a second writer.
THEOREM TypeCorrect == Spec => []TypeOK
<1>1. IInv => TypeOK
  BY DEF IInv
<1> QED
  BY <1>1, Invariant, PTL

\* A token a process believes to hold is recorded for it, unless a revocation went past
\* it.
THEOREM TokensRecorded == Spec => []BelievesRecorded
<1>1. IInv => BelievesRecorded
  BY DEF IInv, Believed, HasRead, HasWrite, BelievesRecorded, Recorded
<1> QED
  BY <1>1, Invariant, PTL

\* A block is dirty at the recorded writer, or until its revoker has flushed, or because
\* it was written without a write token.
THEOREM DirtyExplained == Spec => []DirtyHasReason
<1>1. IInv => DirtyHasReason
  BY DEF IInv, Believed, HasWrite, Dirtied, DirtyHasReason
<1> QED
  BY <1>1, Invariant, PTL

\* Who listens on the port of a record is its process, or took the port of one that is
\* gone or has not bound it.
LEMMA ListenerOfRecord ==
  ASSUME IInv, NEW h \in Holder, OwnPort(h), NEW d \in Listening(h.port)
  PROVE  d = h.cl \/ life[h.cl] = "gone" \/ rstate[h.cl] = "bind"
<1>1. /\ d \in Clients /\ rstate[d] = "listen" /\ revoker_port[d] = h.port /\ h.cl \in Clients
  BY DEF Listening, Holder
<1>2. h.port # 0 /\ h.port = revoker_port[h.cl]
  BY <1>1 DEF IInv, PortsOwned, OwnPort
<1>3. rstate[h.cl] # "start"
  BY <1>1, <1>2 DEF IInv, PortsOwned
<1>4. life[h.cl] = "gone" \/ rstate[h.cl] # "none"
  BY <1>1, <1>2 DEF IInv, TypeOK, PortsOwned
<1>5. rstate[h.cl] = "listen" => d = h.cl
  BY <1>1, <1>2 DEF IInv, PortsOwned
<1> QED
  BY <1>1, <1>3, <1>4, <1>5 DEF IInv, TypeOK

\* Only a revocation that is delivered makes the manager wait for a process.
LEMMA WaitsForListener ==
  ASSUME IInv, Next, whom = NoCall, whom' # NoCall
  PROVE  \A h \in Revoked : h \in Holder /\ OwnPort(h) /\ whom' \in Listening(h.port)
<1> USE DEF IInv
<1>1. RevokeWriter \/ RevokeReader
  <2>1. ~ UNCHANGED whom
    OBVIOUS
  <2>2. ~ \E c \in Clients : Library(c) \/ Revoker(c) \/ Flush(c)
    BY <2>1 DEF Library, Revoker, CheckToken, RequestToken, ManagerGone, AddPermission, UseBlock,
                ChoosePort, Bind, FlushRevoked, Flush, Exited, managerVars
  <2>3. ~ \E c \in Clients : \E o \in Ops[c] : Call(c, o)
    BY <2>1 DEF Call, managerVars
  <2>4. ~ \E c \in Mortal : Exit(c)
    BY <2>1 DEF Exit, Exited, managerVars
  <2>5. ~ \E r \in inbox : Serve(r)
    BY <2>1 DEF Serve
  <2>6. ~ (WriterAnswer \/ ReaderAnswer)
    BY DEF WriterAnswer, ReaderAnswer, Answered
  <2>7. ~ (GrantRead \/ StartReaders \/ GrantWrite \/ RunWild)
    BY <2>1 DEF GrantRead, StartReaders, GrantWrite, RunWild
  <2> QED
    BY <2>2, <2>3, <2>4, <2>5, <2>6, <2>7 DEF Next, HandleRequest
<1>2. CASE RevokeWriter
  <2>1. phase = "writers" /\ Revoked = writer
    BY <1>2 DEF RevokeWriter, Manager, Revoked
  <2>2. \E h \in writer : whom' \in Listening(h.port)
    BY <1>2 DEF RevokeWriter, Deliver
  <2>3. \A g, h \in writer : g = h
    BY DEF Turns
  <2> QED
    BY <2>1, <2>2, <2>3 DEF TypeOK, PortsOwned
<1>3. CASE RevokeReader
  <2>1. phase = "readers" /\ it \in DOMAIN readers /\ Revoked = {readers[it]}
    BY <1>3 DEF RevokeReader, Manager, Revoked
  <2>2. whom' \in Listening(readers[it].port)
    BY <1>3 DEF RevokeReader, Deliver
  <2>3. readers[it] \in Holder
    BY <2>1, ElementOfSeq DEF TypeOK
  <2> QED
    BY <2>1, <2>2, <2>3 DEF PortsOwned
<1> QED
  BY <1>1, <1>2, <1>3

\* A revocation reaches the process it is about, unless that one is gone or another was
\* the first to bind the port.
THEOREM RevocationsReachOwner == Spec => RevokesOwner
<1>1. IInv /\ [Next]_vars
        => [whom = NoCall /\ whom' # NoCall =>
              \A h \in Revoked : whom' = h.cl \/ life[h.cl] = "gone" \/ rstate[h.cl] = "bind"]_vars
  <2> SUFFICES ASSUME IInv, Next, whom = NoCall, whom' # NoCall, NEW h \in Revoked
               PROVE  whom' = h.cl \/ life[h.cl] = "gone" \/ rstate[h.cl] = "bind"
    OBVIOUS
  <2>1. h \in Holder /\ OwnPort(h) /\ whom' \in Listening(h.port)
    BY WaitsForListener
  <2>2. PICK d \in Listening(h.port) : whom' = d
    BY <2>1
  <2> QED
    BY <2>1, <2>2, ListenerOfRecord
<1> QED
  BY <1>1, Invariant, PTL DEF Spec, RevokesOwner
=============================================================================
