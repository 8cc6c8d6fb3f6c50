--------------------------- MODULE MessagesProofs ---------------------------
(***************************************************************************)
(* The safety properties of the connections, for every number of            *)
(* exchanges, every size of the buffers and of the descriptor tables.       *)
(*                                                                          *)
(* Three invariants of each exchange, one on top of the other: whose its    *)
(* sockets are, how far its answer has come, and how far its command has    *)
(* come.  The last one says that what a server has received and what is on  *)
(* its way make up the message; so it acts on the words of a beginning of   *)
(* it.                                                                      *)
(***************************************************************************)
EXTENDS Messages, SequenceTheorems, FiniteSetTheorems, TLAPS

TypesInv ==
  /\ kind \in [Exchanges -> AllKinds \union {"none"}]
  /\ cl \in [Exchanges -> {"new", "sent", "done", "failed"}]
  /\ sv \in [Exchanges -> {"none", "refused", "recv", "loop", "answer", "close", "done"}]
  /\ up \in [Exchanges -> Strings] /\ down \in [Exchanges -> Strings]
  /\ acts \in [Exchanges -> Acts]
  /\ answer \in [Exchanges -> Strings] /\ response \in [Exchanges -> Strings]
  /\ first \in [Exchanges -> Nat]
  /\ reset \subseteq Exchanges
  /\ open \in [Processes -> SUBSET Exchanges]
  /\ ended \subseteq Processes

\* A process has no more sockets than descriptors, and none when it has ended.
TablesInv ==
  \A p \in Processes :
    /\ IsFiniteSet(open[p]) /\ Cardinality(open[p]) <= MaxDescriptors
    /\ p \in ended => open[p] = {}

\* A socket is for an exchange its process takes part in, as long as DescriptorsReturned
\* says.
SocketsFit(e) ==
  /\ \A p \in Processes : e \in open[p] => kind[e] # "none" /\ p \in {From(kind[e]), To(kind[e])}
  /\ kind[e] = "none" => cl[e] = "new" /\ sv[e] = "none"
  /\ Alive(From(kind[e])) =>
       /\ cl[e] = "sent" => e \in open[From(kind[e])]
       /\ e \in open[From(kind[e])] => cl[e] = "sent" \/ (kind[e] = "probe" /\ cl[e] = "failed")
  /\ Alive(To(kind[e])) =>
       (e \in open[To(kind[e])] <=>
          sv[e] \notin {"none", "refused", "done"} \/ (Revoker(kind[e]) /\ sv[e] = "done"))

\* The answer is what the client has of it and what is on its way; who is done has had
\* all of it, or the beginning of it.
AnswerFits(e) ==
  /\ answer[e] = response[e] \o down[e]
  /\ sv[e] \notin {"close", "done"} => answer[e] = << >>
  /\ cl[e] = "done" /\ Waits(kind[e]) =>
       IF kind[e] \in {"call", "revoke"} THEN response[e] # << >>
       ELSE down[e] = << >> /\ (sv[e] = "done" \/ ~Alive(To(kind[e])))

\* Before the first recv the message is on its way as it was sent; after it, what the
\* server acts on are the words of its beginning.
Known(e) == first[e] > 0 /\ acts[e].command = Command[kind[e]]

CommandFits(e) ==
  /\ sv[e] \in {"none", "refused", "recv"} => first[e] = 0
  /\ sv[e] \in {"none", "recv"} /\ kind[e] # "none" => up[e] = Message(kind[e])
  /\ sv[e] = "loop" => kind[e] = "write" /\ Known(e)
  /\ Known(e) =>
       LET a == acts[e]  w == Words(kind[e])
       IN /\ IsPrefix(a.name, w.name) /\ IsPrefix(a.offset, w.offset)
          /\ Whole(e) => /\ a.name = w.name /\ a.offset = w.offset
                         /\ IF sv[e] = "loop" THEN a.data \o up[e] = w.data ELSE a.data = w.data

IInv == /\ TypesInv /\ TablesInv
        /\ \A e \in Exchanges : SocketsFit(e) /\ AnswerFits(e) /\ CommandFits(e)
-----------------------------------------------------------------------------
(* Strings.                                                                 *)

LEMMA PartIsString ==
  ASSUME NEW s \in Strings, NEW i \in 1 .. Len(s) + 1, NEW n \in 0 .. Len(s)
  PROVE  /\ SubSeq(s, i, n) \in Strings
         /\ Len(SubSeq(s, i, n)) = IF i <= n THEN n - i + 1 ELSE 0
         /\ \A j \in 1 .. n - i + 1 : SubSeq(s, i, n)[j] = s[i + j - 1]
<1>1. \A j \in i .. n : s[j] \in Symbols
  BY DEF Strings
<1> QED
  BY <1>1, SubSeqProperties DEF Strings

LEMMA PartOfPart ==
  ASSUME NEW s \in Strings, NEW i \in 1 .. Len(s) + 1, NEW n \in i - 1 .. Len(s),
         NEW j \in 1 .. n - i + 2, NEW m \in 0 .. n - i + 1
  PROVE  SubSeq(SubSeq(s, i, n), j, m) = SubSeq(s, i + j - 1, i + m - 1)
<1> DEFINE p == SubSeq(s, i, n)
<1>1. p \in Strings /\ Len(p) = n - i + 1 /\ \A k \in 1 .. n - i + 1 : p[k] = s[i + k - 1]
  BY PartIsString
<1>2. CASE m < j
  BY <1>2, SubSeqEmpty
<1>3. CASE j <= m
  <2>1. /\ SubSeq(p, j, m) \in Strings /\ Len(SubSeq(p, j, m)) = m - j + 1
        /\ \A k \in 1 .. m - j + 1 : SubSeq(p, j, m)[k] = p[j + k - 1]
    <3>1. j \in 1 .. Len(p) + 1 /\ m \in 0 .. Len(p)
      BY <1>1, <1>3
    <3> HIDE DEF p
    <3> QED
      BY <1>1, <1>3, <3>1, PartIsString
  <2>2. /\ SubSeq(s, i + j - 1, i + m - 1) \in Strings /\ Len(SubSeq(s, i + j - 1, i + m - 1)) = m - j + 1
        /\ \A k \in 1 .. m - j + 1 : SubSeq(s, i + j - 1, i + m - 1)[k] = s[i + j - 1 + k - 1]
    BY <1>3, PartIsString DEF Strings
  <2>3. \A k \in 1 .. m - j + 1 : p[j + k - 1] = s[i + j - 1 + k - 1]
    BY <1>1, <1>3
  <2> QED
    BY <2>1, <2>2, <2>3, SeqEqual DEF Strings
<1> QED
  BY <1>2, <1>3

LEMMA LeastOf ==
  ASSUME NEW S \in SUBSET Int, NEW x \in S, \A y \in S : x <= y
  PROVE  Min(S) = x
<1>1. \A c \in S : (\A y \in S : c <= y) => c = x
  OBVIOUS
<1> QED
  BY <1>1 DEF Min

\* nextToken: the word up to the first space.
LEMMA TokenIs ==
  ASSUME NEW p, NEW I, I = {j \in 1 .. Len(p) : p[j] = SP}
  PROVE  /\ I = {} => NextToken(p) = [token |-> p, rest |-> << >>]
         /\ \A k \in I : k # 0 /\ Min(I) = k =>
              NextToken(p) = [token |-> SubSeq(p, 1, k - 1), rest |-> SubSeq(p, k + 1, Len(p))]
<1>1. SelectInSeq(p, LAMBDA x : x = SP) = IF {j \in 1 .. Len(p) : p[j] = SP} # {} THEN Min({j \in 1 .. Len(p) : p[j] = SP}) ELSE 0
  BY DEF SelectInSeq
<1> QED
  BY <1>1 DEF NextToken

\* nextToken on a part of a string in which the next space is known.
LEMMA TokenOfPart ==
  ASSUME NEW s \in Strings, NEW i \in 1 .. Len(s) + 1, NEW n \in i - 1 .. Len(s),
         NEW k \in i .. Len(s), s[k] = SP, NEW l, l = k - 1, NEW m, m = k + 1,
         \A j \in i .. l : s[j] # SP
  PROVE  NextToken(SubSeq(s, i, n)) =
           IF n < k THEN [token |-> SubSeq(s, i, n), rest |-> << >>]
           ELSE [token |-> SubSeq(s, i, l), rest |-> SubSeq(s, m, n)]
<1> DEFINE p == SubSeq(s, i, n)
           I == {j \in 1 .. Len(p) : p[j] = SP}
<1>1. p \in Strings /\ Len(p) = n - i + 1 /\ \A j \in 1 .. n - i + 1 : p[j] = s[i + j - 1]
  BY PartIsString
<1> HIDE DEF p
<1>2. CASE n < k
  <2>1. I = {}
    BY <1>1, <1>2
  <2> QED
    BY <1>2, <2>1, TokenIs DEF p
<1>3. CASE k <= n
  <2>1. k - i + 1 \in I
    BY <1>1, <1>3
  <2>2. \A j \in I : k - i + 1 <= j
    BY <1>1, <1>3
  <2>3. I \in SUBSET Int
    OBVIOUS
  <2>4. Min(I) = k - i + 1
    <3> HIDE DEF I
    <3> QED
      BY <2>1, <2>2, <2>3, LeastOf
  <2>5. SubSeq(p, 1, (k - i + 1) - 1) = SubSeq(s, i, l)
    BY <1>3, PartOfPart, SubSeqEmpty DEF p
  <2>6. SubSeq(p, (k - i + 1) + 1, Len(p)) = SubSeq(s, m, n)
    BY <1>1, <1>3, PartOfPart DEF p
  <2>7. \A q \in I : q # 0 /\ Min(I) = q =>
          NextToken(p) = [token |-> SubSeq(p, 1, q - 1), rest |-> SubSeq(p, q + 1, Len(p))]
    BY TokenIs
  <2>8. k - i + 1 # 0
    BY <1>3
  <2>9. NextToken(p) = [token |-> SubSeq(s, i, l), rest |-> SubSeq(s, m, n)]
    <3> HIDE DEF I
    <3> QED
      BY <2>1, <2>4, <2>5, <2>6, <2>7, <2>8
  <2>10. ~(n < k)
    BY <1>3
  <2> QED
    BY <2>9, <2>10 DEF p
<1> QED
  BY <1>2, <1>3

LEMMA TokenOfNothing == NextToken(<< >>) = [token |-> << >>, rest |-> << >>]
<1>1. {j \in 1 .. Len(<< >>) : << >>[j] = SP} = {}
  OBVIOUS
<1> QED
  BY <1>1, TokenIs

LEMMA PartIs ==
  ASSUME NEW s \in Strings, NEW i \in 1 .. Len(s) + 1, NEW n \in i - 1 .. Len(s),
         NEW t \in Strings, Len(t) = n - i + 1, \A j \in 1 .. Len(t) : t[j] = s[i + j - 1]
  PROVE  SubSeq(s, i, n) = t
<1>1. /\ SubSeq(s, i, n) \in Strings /\ Len(SubSeq(s, i, n)) = n - i + 1
      /\ \A j \in 1 .. n - i + 1 : SubSeq(s, i, n)[j] = s[i + j - 1]
  BY PartIsString
<1> QED
  BY <1>1, SeqEqual DEF Strings

LEMMA PartsJoin ==
  ASSUME NEW s \in Strings, NEW k \in 0 .. Len(s), NEW n \in k .. Len(s)
  PROVE  SubSeq(s, 1, k) \o SubSeq(s, k + 1, n) = SubSeq(s, 1, n)
BY ConcatAdjacentSubSeq DEF Strings
-----------------------------------------------------------------------------
(* The messages.  Each is a beginning of one text, but for its command.     *)

Text(c) == << c, c, SP, "f", SP, "1", "2", SP, "d", SP, "d" >>

LEMMA TextIs ==
  ASSUME NEW c \in Symbols
  PROVE  /\ Text(c) \in Strings /\ Len(Text(c)) = 11
         /\ \A j \in 1 .. 11 : Text(c)[j] = SP <=> j \in {3, 5, 8, 10} \/ (c = SP /\ j \in {1, 2})
         /\ SubSeq(Text(c), 1, 2) = << c, c >> /\ SubSeq(Text(c), 3, 3) = << SP >>
         /\ SubSeq(Text(c), 4, 4) = Name /\ SubSeq(Text(c), 5, 5) = << SP >>
         /\ SubSeq(Text(c), 6, 7) = Offset /\ SubSeq(Text(c), 8, 8) = << SP >>
         /\ SubSeq(Text(c), 9, 11) = Data
<1> DEFINE s == Text(c)
<1>1. s \in Strings /\ Len(s) = 11
  <2>1. SP \in Symbols /\ "f" \in Symbols /\ "1" \in Symbols /\ "2" \in Symbols /\ "d" \in Symbols
    BY DEF Symbols
  <2> QED
    BY <2>1 DEF Text, Strings
<1>2. /\ s[1] = c /\ s[2] = c /\ s[3] = SP /\ s[4] = "f" /\ s[5] = SP /\ s[6] = "1" /\ s[7] = "2"
      /\ s[8] = SP /\ s[9] = "d" /\ s[10] = SP /\ s[11] = "d"
  BY DEF Text
<1> HIDE DEF s
<1>3. \A j \in 1 .. 11 : s[j] = SP <=> j \in {3, 5, 8, 10} \/ (c = SP /\ j \in {1, 2})
  <2>1. "f" # SP /\ "1" # SP /\ "2" # SP /\ "d" # SP
    BY DEF SP
  <2>2. \A j \in 1 .. 11 : \/ j = 1 \/ j = 2 \/ j = 3 \/ j = 4 \/ j = 5 \/ j = 6
                           \/ j = 7 \/ j = 8 \/ j = 9 \/ j = 10 \/ j = 11
    OBVIOUS
  <2> QED
    BY <1>2, <2>1, <2>2
<1>4. ASSUME NEW i \in 1 .. 11, NEW x \in Symbols, s[i] = x
      PROVE  SubSeq(s, i, i) = << x >>
  <2>1. << x >> \in Strings /\ Len(<< x >>) = 1 /\ Len(<< x >>) = i - i + 1 /\ << x >>[1] = s[i + 1 - 1]
    BY <1>4 DEF Strings
  <2> DEFINE t == << x >>
  <2>2. \A j \in 1 .. Len(t) : t[j] = s[i + j - 1]
    BY <2>1
  <2> HIDE DEF t
  <2>3. SubSeq(s, i, i) = t
    <3>1. i \in 1 .. Len(s) + 1 /\ i \in i - 1 .. Len(s)
      BY <1>1
    <3>2. t \in Strings /\ Len(t) = i - i + 1
      BY <2>1 DEF t
    <3> QED
      BY <1>1, <2>2, <3>1, <3>2, PartIs
  <2> QED
    BY <2>3 DEF t
<1>5. ASSUME NEW i \in 1 .. 10, NEW x \in Symbols, NEW y \in Symbols, s[i] = x, s[i + 1] = y
      PROVE  SubSeq(s, i, i + 1) = << x, y >>
  <2> DEFINE t == << x, y >>
  <2>1. t \in Strings /\ Len(t) = 2 /\ Len(t) = (i + 1) - i + 1 /\ t[1] = s[i + 1 - 1] /\ t[2] = s[i + 2 - 1]
    BY <1>5 DEF Strings
  <2> HIDE DEF t
  <2>2. \A j \in 1 .. Len(t) : t[j] = s[i + j - 1]
    BY <2>1
  <2>3. SubSeq(s, i, i + 1) = t
    <3>1. i \in 1 .. Len(s) + 1 /\ i + 1 \in i - 1 .. Len(s)
      BY <1>1
    <3> QED
      BY <1>1, <2>1, <2>2, <3>1, PartIs
  <2> QED
    BY <2>3 DEF t
<1>6. SubSeq(s, 9, 11) = Data
  <2>1. Data \in Strings /\ Len(Data) = 3 /\ Data[1] = "d" /\ Data[2] = SP /\ Data[3] = "d"
    BY DEF Data, Strings, Symbols
  <2>2. \A j \in 1 .. Len(Data) : Data[j] = s[9 + j - 1]
    BY <1>2, <2>1
  <2>3. Len(Data) = 11 - 9 + 1
    BY <2>1
  <2> QED
    BY <1>1, <2>1, <2>2, <2>3, PartIs
<1>7. SP \in Symbols /\ "f" \in Symbols /\ "1" \in Symbols /\ "2" \in Symbols
  BY DEF Symbols
<1>8. SubSeq(s, 1, 2) = << c, c >> /\ SubSeq(s, 6, 7) = << "1", "2" >>
  BY <1>2, <1>5, <1>7
<1>9. /\ SubSeq(s, 3, 3) = << SP >> /\ SubSeq(s, 4, 4) = << "f" >>
      /\ SubSeq(s, 5, 5) = << SP >> /\ SubSeq(s, 8, 8) = << SP >>
  BY <1>2, <1>4, <1>7
<1> QED
  BY <1>1, <1>3, <1>6, <1>8, <1>9 DEF s, Name, Offset

LEMMA TextJoins ==
  ASSUME NEW c \in Symbols
  PROVE  /\ << c, c >> \o << SP >> \o Name = SubSeq(Text(c), 1, 4)
         /\ << c, c >> \o << SP >> \o Name \o << SP >> \o Offset = SubSeq(Text(c), 1, 7)
         /\ << c, c >> \o << SP >> \o Name \o << SP >> \o Offset \o << SP >> = SubSeq(Text(c), 1, 8)
         /\ << c, c >> \o << SP >> \o Name \o << SP >> \o Offset \o << SP >> \o Data = SubSeq(Text(c), 1, 11)
<1> DEFINE s == Text(c)
           w == << c, c >>
           p == << SP >>
<1>1. s \in Strings /\ Len(s) = 11
  BY TextIs
<1>2. /\ SubSeq(s, 1, 2) = w /\ SubSeq(s, 3, 3) = p /\ SubSeq(s, 4, 4) = Name /\ SubSeq(s, 5, 5) = p
      /\ SubSeq(s, 6, 7) = Offset /\ SubSeq(s, 8, 8) = p /\ SubSeq(s, 9, 11) = Data
  BY TextIs
<1> HIDE DEF s, w, p
<1>3. /\ SubSeq(s, 1, 2) \o SubSeq(s, 3, 3) = SubSeq(s, 1, 3)
      /\ SubSeq(s, 1, 3) \o SubSeq(s, 4, 4) = SubSeq(s, 1, 4)
      /\ SubSeq(s, 1, 4) \o SubSeq(s, 5, 5) = SubSeq(s, 1, 5)
      /\ SubSeq(s, 1, 5) \o SubSeq(s, 6, 7) = SubSeq(s, 1, 7)
      /\ SubSeq(s, 1, 7) \o SubSeq(s, 8, 8) = SubSeq(s, 1, 8)
      /\ SubSeq(s, 1, 8) \o SubSeq(s, 9, 11) = SubSeq(s, 1, 11)
  <2>1. \A k \in 0 .. 11 : \A n \in k .. 11 : SubSeq(s, 1, k) \o SubSeq(s, k + 1, n) = SubSeq(s, 1, n)
    BY <1>1, PartsJoin
  <2> QED
    BY <2>1
<1>4. /\ w \o p \o Name = SubSeq(s, 1, 4)
      /\ w \o p \o Name \o p \o Offset = SubSeq(s, 1, 7)
      /\ w \o p \o Name \o p \o Offset \o p = SubSeq(s, 1, 8)
      /\ w \o p \o Name \o p \o Offset \o p \o Data = SubSeq(s, 1, 11)
  BY <1>2, <1>3
<1> QED
  BY <1>4 DEF s, w, p

\* The text cut into its words, in whatever beginning of it has arrived.
LEMMA TextParsed ==
  ASSUME NEW c \in Symbols \ {SP}, NEW n \in 0 .. 11
  PROVE  LET a == Parse(SubSeq(Text(c), 1, n))
         IN /\ n \in 0 .. 2 => a.name = << >> /\ a.offset = << >> /\ a.data = << >>
            /\ n \in 3 .. 4 => a.name = SubSeq(Text(c), 4, n) /\ a.offset = << >> /\ a.data = << >>
            /\ n \in 5 .. 7 => a.name = Name /\ a.offset = SubSeq(Text(c), 6, n) /\ a.data = << >>
            /\ n \in 8 .. 11 => a.name = Name /\ a.offset = Offset /\ a.data = SubSeq(Text(c), 9, n)
            /\ a \in Acts
<1> DEFINE s == Text(c)
<1>1. s \in Strings /\ Len(s) = 11 /\ \A j \in 1 .. 11 : s[j] = SP <=> j \in {3, 5, 8, 10}
  BY TextIs
<1>2. SubSeq(s, 4, 4) = Name /\ SubSeq(s, 6, 7) = Offset
  BY TextIs
<1> HIDE DEF s
<1>3. NextToken(SubSeq(s, 1, n)) =
        IF n < 3 THEN [token |-> SubSeq(s, 1, n), rest |-> << >>]
        ELSE [token |-> SubSeq(s, 1, 2), rest |-> SubSeq(s, 4, n)]
  <2>1. ASSUME NEW i, NEW k, NEW l, NEW m, i = 1, k = 3, l = 2, m = 4
        PROVE  NextToken(SubSeq(s, i, n)) =
                 IF n < k THEN [token |-> SubSeq(s, i, n), rest |-> << >>]
                 ELSE [token |-> SubSeq(s, i, l), rest |-> SubSeq(s, m, n)]
    <3>1. /\ i \in 1 .. Len(s) + 1 /\ n \in i - 1 .. Len(s) /\ k \in i .. Len(s)
          /\ l = k - 1 /\ m = k + 1 /\ s[k] = SP /\ \A j \in i .. l : s[j] # SP
      BY <1>1, <2>1
    <3>2. s \in Strings
      BY <1>1
    <3> QED
      BY ONLY <3>1, <3>2, TokenOfPart
  <2> QED
    BY <2>1
<1>4. n >= 3 => NextToken(SubSeq(s, 4, n)) =
        IF n < 5 THEN [token |-> SubSeq(s, 4, n), rest |-> << >>]
        ELSE [token |-> SubSeq(s, 4, 4), rest |-> SubSeq(s, 6, n)]
  <2>1. ASSUME NEW i, NEW k, NEW l, NEW m, i = 4, k = 5, l = 4, m = 6, n >= 3
        PROVE  NextToken(SubSeq(s, i, n)) =
                 IF n < k THEN [token |-> SubSeq(s, i, n), rest |-> << >>]
                 ELSE [token |-> SubSeq(s, i, l), rest |-> SubSeq(s, m, n)]
    <3>1. /\ i \in 1 .. Len(s) + 1 /\ n \in i - 1 .. Len(s) /\ k \in i .. Len(s)
          /\ l = k - 1 /\ m = k + 1 /\ s[k] = SP /\ \A j \in i .. l : s[j] # SP
      BY <1>1, <2>1
    <3>2. s \in Strings
      BY <1>1
    <3> QED
      BY ONLY <3>1, <3>2, TokenOfPart
  <2> QED
    BY <2>1
<1>5. n >= 5 => NextToken(SubSeq(s, 6, n)) =
        IF n < 8 THEN [token |-> SubSeq(s, 6, n), rest |-> << >>]
        ELSE [token |-> SubSeq(s, 6, 7), rest |-> SubSeq(s, 9, n)]
  <2>1. ASSUME NEW i, NEW k, NEW l, NEW m, i = 6, k = 8, l = 7, m = 9, n >= 5
        PROVE  NextToken(SubSeq(s, i, n)) =
                 IF n < k THEN [token |-> SubSeq(s, i, n), rest |-> << >>]
                 ELSE [token |-> SubSeq(s, i, l), rest |-> SubSeq(s, m, n)]
    <3>1. /\ i \in 1 .. Len(s) + 1 /\ n \in i - 1 .. Len(s) /\ k \in i .. Len(s)
          /\ l = k - 1 /\ m = k + 1 /\ s[k] = SP /\ \A j \in i .. l : s[j] # SP
      BY <1>1, <2>1
    <3>2. s \in Strings
      BY <1>1
    <3> QED
      BY ONLY <3>1, <3>2, TokenOfPart
  <2> QED
    BY <2>1
<1> DEFINE p == SubSeq(s, 1, n)
           t1 == NextToken(p)
           t2 == NextToken(t1.rest)
           t3 == NextToken(t2.rest)
           a == Parse(p)
<1>6. a.name = t2.token /\ a.offset = t3.token /\ a.data = t3.rest
  BY DEF Parse
<1>7. n \in 0 .. 2 => t1 = [token |-> p, rest |-> << >>]
  BY <1>3
<1>8. n \in 3 .. 11 => t1 = [token |-> SubSeq(s, 1, 2), rest |-> SubSeq(s, 4, n)]
  BY <1>3
<1>9. n \in 3 .. 4 => NextToken(SubSeq(s, 4, n)) = [token |-> SubSeq(s, 4, n), rest |-> << >>]
  BY <1>4
<1>10. n \in 5 .. 11 => NextToken(SubSeq(s, 4, n)) = [token |-> Name, rest |-> SubSeq(s, 6, n)]
  <2>1. n \in 5 .. 11 => NextToken(SubSeq(s, 4, n)) = [token |-> SubSeq(s, 4, 4), rest |-> SubSeq(s, 6, n)]
    BY <1>4
  <2> QED
    BY <1>2, <2>1, Zenon
<1>11. n \in 5 .. 7 => NextToken(SubSeq(s, 6, n)) = [token |-> SubSeq(s, 6, n), rest |-> << >>]
  BY <1>5
<1>12. n \in 8 .. 11 => NextToken(SubSeq(s, 6, n)) = [token |-> Offset, rest |-> SubSeq(s, 9, n)]
  <2>1. n \in 8 .. 11 => NextToken(SubSeq(s, 6, n)) = [token |-> SubSeq(s, 6, 7), rest |-> SubSeq(s, 9, n)]
    BY <1>5
  <2> QED
    BY <1>2, <2>1, Zenon
<1> HIDE DEF p, a
<1>13. ASSUME n \in 0 .. 2
       PROVE  a.name = << >> /\ a.offset = << >> /\ a.data = << >>
  BY <1>6, <1>7, <1>13, TokenOfNothing
<1>14. ASSUME n \in 3 .. 4
       PROVE  a.name = SubSeq(s, 4, n) /\ a.offset = << >> /\ a.data = << >>
  <2>1. t1.rest = SubSeq(s, 4, n)
    BY <1>8, <1>14
  <2>2. t2.token = SubSeq(s, 4, n) /\ t2.rest = << >>
    BY <1>9, <1>14, <2>1
  <2> QED
    BY <1>6, <2>2, TokenOfNothing
<1>15. ASSUME n \in 5 .. 11
       PROVE  a.name = Name /\ t3 = NextToken(SubSeq(s, 6, n))
  <2>1. t1.rest = SubSeq(s, 4, n)
    BY <1>8, <1>15
  <2>2. t2.token = Name /\ t2.rest = SubSeq(s, 6, n)
    BY <1>10, <1>15, <2>1
  <2> QED
    BY <1>6, <2>2
<1>16. ASSUME n \in 5 .. 7
       PROVE  a.name = Name /\ a.offset = SubSeq(s, 6, n) /\ a.data = << >>
  BY <1>6, <1>11, <1>15, <1>16
<1>17. ASSUME n \in 8 .. 11
       PROVE  a.name = Name /\ a.offset = Offset /\ a.data = SubSeq(s, 9, n)
  BY <1>6, <1>12, <1>15, <1>17
<1>18. a \in Acts
  <2>1. a.command = t1.token /\ a = [command |-> a.command, name |-> a.name, offset |-> a.offset, data |-> a.data]
    BY DEF Parse, a
  <2>2. ASSUME NEW i \in 1 .. 11
        PROVE  SubSeq(s, i, n) \in Strings
    <3>1. i \in 1 .. Len(s) + 1 /\ n \in 0 .. Len(s) /\ s \in Strings
      BY <1>1
    <3> QED
      BY ONLY <3>1, PartIsString
  <2>3. SubSeq(s, 1, 2) \in Strings
    <3>1. ASSUME NEW i, NEW m, i = 1, m = 2
          PROVE  SubSeq(s, i, m) \in Strings
      <4>1. i \in 1 .. Len(s) + 1 /\ m \in 0 .. Len(s) /\ s \in Strings
        BY <1>1, <3>1
      <4> QED
        BY ONLY <4>1, PartIsString
    <3> QED
      BY <3>1
  <2>4. << >> \in Strings /\ Name \in Strings /\ Offset \in Strings
    BY DEF Strings, Symbols, Name, Offset
  <2>5. SubSeq(s, 4, n) \in Strings /\ SubSeq(s, 6, n) \in Strings /\ SubSeq(s, 9, n) \in Strings
    BY <2>2
  <2>6. n \in 0 .. 2 \/ n \in 3 .. 4 \/ n \in 5 .. 7 \/ n \in 8 .. 11
    OBVIOUS
  <2>7. a.name \in Strings /\ a.offset \in Strings /\ a.data \in Strings
    BY <1>13, <1>14, <1>16, <1>17, <2>4, <2>5, <2>6
  <2>8. p \in Strings
    BY <2>2 DEF p
  <2>9. n \in 0 .. 2 \/ n \in 3 .. 11
    OBVIOUS
  <2>10. a.command \in Strings
    <3>1. n \in 0 .. 2 => t1.token = p
      BY <1>7
    <3>2. n \in 3 .. 11 => t1.token = SubSeq(s, 1, 2)
      BY <1>8
    <3> HIDE DEF t1
    <3> QED
      BY <2>1, <2>3, <2>8, <2>9, <3>1, <3>2
  <2> QED
    BY <2>1, <2>7, <2>10 DEF Acts
<1> QED
  BY <1>13, <1>14, <1>16, <1>17, <1>18 DEF s, p, a

LEMMA PartPrefix ==
  ASSUME NEW s \in Strings, NEW i \in 1 .. Len(s) + 1, NEW n \in i - 1 .. Len(s), NEW m \in i - 1 .. n
  PROVE  IsPrefix(SubSeq(s, i, m), SubSeq(s, i, n))
<1> DEFINE p == SubSeq(s, i, m)
           q == SubSeq(s, i, n)
<1>1. /\ p \in Strings /\ Len(p) = m - i + 1
      /\ q \in Strings /\ Len(q) = n - i + 1
  BY PartIsString
<1>2. SubSeq(p, 1, m - i + 1) = SubSeq(s, i, m)
  BY PartOfPart
<1>3. SubSeq(q, 1, m - i + 1) = SubSeq(s, i, m)
  BY PartOfPart
<1>4. Len(p) <= Len(q)
  BY <1>1
<1> HIDE DEF p, q
<1>5. SubSeq(p, 1, Len(p)) = SubSeq(q, 1, Len(p))
  BY <1>1, <1>2, <1>3
<1> QED
  BY <1>4, <1>5 DEF IsPrefix, p, q

LEMMA NothingIsPrefix ==
  ASSUME NEW s \in Strings
  PROVE  IsPrefix(<< >>, s)
<1>1. SubSeq(<< >>, 1, 0) = << >> /\ SubSeq(s, 1, 0) = << >>
  BY SubSeqEmpty
<1>2. Len(<< >>) = 0 /\ Len(s) \in Nat
  BY LenProperties DEF Strings
<1> QED
  BY <1>1, <1>2 DEF IsPrefix

HeaderLength(k)  == IF k \in {"call", "revoke"} THEN 4 ELSE IF k = "read" THEN 7 ELSE 8
MessageLength(k) == IF k = "write" THEN 11 ELSE HeaderLength(k)

\* Each message is a beginning of the text, with its command.
LEMMA MessageIs ==
  ASSUME NEW k \in AllKinds \ {"probe"}
  PROVE  \E c \in Symbols \ {SP} :
           /\ Command[k] = << c, c >>
           /\ Header(k) = SubSeq(Text(c), 1, HeaderLength(k))
           /\ Message(k) = SubSeq(Text(c), 1, MessageLength(k))
<1>1. \A s \in Strings : s \o << >> = s
  BY ConcatEmptySeq DEF Strings
<1>2. \A c \in Symbols : \A n \in 0 .. 11 : SubSeq(Text(c), 1, n) \in Strings
  <2> SUFFICES ASSUME NEW c \in Symbols, NEW n \in 0 .. 11 PROVE SubSeq(Text(c), 1, n) \in Strings
    OBVIOUS
  <2>1. Text(c) \in Strings /\ 1 \in 1 .. Len(Text(c)) + 1 /\ n \in 0 .. Len(Text(c))
    BY TextIs
  <2> QED
    BY <2>1, PartIsString
<1>3. {"c", "r", "w", "v"} \subseteq Symbols \ {SP}
  BY DEF Symbols, SP
<1>4. CASE k = "call"
  <2>1. Command[k] = << "c", "c" >> /\ Header(k) = << "c", "c" >> \o << SP >> \o Name
    BY <1>4 DEF Command, Header
  <2>2. Header(k) = SubSeq(Text("c"), 1, 4) /\ HeaderLength(k) = 4 /\ MessageLength(k) = 4
    BY <1>3, <1>4, <2>1, TextJoins DEF HeaderLength, MessageLength
  <2>3. Message(k) = Header(k)
    BY <1>1, <1>2, <1>3, <1>4, <2>2 DEF Message
  <2> QED
    BY <1>3, <2>1, <2>2, <2>3
<1>5. CASE k = "revoke"
  <2>1. Command[k] = << "v", "v" >> /\ Header(k) = << "v", "v" >> \o << SP >> \o Name
    BY <1>5 DEF Command, Header
  <2>2. Header(k) = SubSeq(Text("v"), 1, 4) /\ HeaderLength(k) = 4 /\ MessageLength(k) = 4
    BY <1>3, <1>5, <2>1, TextJoins DEF HeaderLength, MessageLength
  <2>3. Message(k) = Header(k)
    BY <1>1, <1>2, <1>3, <1>5, <2>2 DEF Message
  <2> QED
    BY <1>3, <2>1, <2>2, <2>3
<1>6. CASE k = "read"
  <2>1. Command[k] = << "r", "r" >> /\ Header(k) = << "r", "r" >> \o << SP >> \o Name \o << SP >> \o Offset
    BY <1>6 DEF Command, Header
  <2>2. Header(k) = SubSeq(Text("r"), 1, 7) /\ HeaderLength(k) = 7 /\ MessageLength(k) = 7
    BY <1>3, <1>6, <2>1, TextJoins DEF HeaderLength, MessageLength
  <2>3. Message(k) = Header(k)
    BY <1>1, <1>2, <1>3, <1>6, <2>2 DEF Message
  <2> QED
    BY <1>3, <2>1, <2>2, <2>3
<1>7. CASE k = "write"
  <2>1. /\ Command[k] = << "w", "w" >>
        /\ Header(k) = << "w", "w" >> \o << SP >> \o Name \o << SP >> \o Offset \o << SP >>
    BY <1>7 DEF Command, Header
  <2>2. Header(k) = SubSeq(Text("w"), 1, 8) /\ HeaderLength(k) = 8 /\ MessageLength(k) = 11
    BY <1>3, <1>7, <2>1, TextJoins DEF HeaderLength, MessageLength
  <2>3. Message(k) = Header(k) \o Data
    BY <1>7 DEF Message
  <2>4. Message(k) = SubSeq(Text("w"), 1, 11)
    BY <1>3, <2>1, <2>3, TextJoins
  <2> QED
    BY <1>3, <2>1, <2>2, <2>4
<1> QED
  BY <1>4, <1>5, <1>6, <1>7 DEF AllKinds

\* The words taken from a beginning of a message are beginnings of its words; from one
\* that has the header they are its words, and what is left of it is the rest of the data.
LEMMA WordsOfPart ==
  ASSUME NEW k \in AllKinds \ {"probe"}, NEW n \in 1 .. Len(Message(k))
  PROVE  LET a == Parse(SubSeq(Message(k), 1, n))
         IN /\ IsPrefix(a.name, Words(k).name) /\ IsPrefix(a.offset, Words(k).offset)
            /\ n >= Len(Header(k)) =>
                 /\ a.name = Words(k).name /\ a.offset = Words(k).offset
                 /\ IF k = "write" THEN a.data \o SubSeq(Message(k), n + 1, Len(Message(k))) = Data
                    ELSE a.data = << >>
            /\ a \in Acts
<1>1. PICK c \in Symbols \ {SP} : /\ Command[k] = << c, c >>
                                  /\ Header(k) = SubSeq(Text(c), 1, HeaderLength(k))
                                  /\ Message(k) = SubSeq(Text(c), 1, MessageLength(k))
  BY MessageIs
<1> DEFINE s == Text(c)
<1>2. s \in Strings /\ Len(s) = 11
  BY TextIs
<1>3. SubSeq(s, 4, 4) = Name /\ SubSeq(s, 6, 7) = Offset /\ SubSeq(s, 9, 11) = Data
  BY TextIs
<1>4. HeaderLength(k) \in 0 .. 11 /\ MessageLength(k) \in 0 .. 11
  BY DEF HeaderLength, MessageLength
<1> HIDE DEF s
<1>5. Len(Header(k)) = HeaderLength(k) /\ Len(Message(k)) = MessageLength(k)
  <2>1. \A m \in 0 .. 11 : Len(SubSeq(s, 1, m)) = m
    BY <1>2, PartIsString
  <2> QED
    BY <1>1, <1>4, <2>1 DEF s
<1>6. SubSeq(Message(k), 1, n) = SubSeq(s, 1, n)
  <2>1. n \in 0 .. MessageLength(k)
    BY <1>5, <1>4
  <2>2. \A m \in 0 .. 11 : \A j \in 0 .. m : SubSeq(SubSeq(s, 1, m), 1, j) = SubSeq(s, 1, j)
    BY <1>2, PartOfPart
  <2> QED
    BY <1>1, <1>4, <2>1, <2>2 DEF s
<1> DEFINE a == Parse(SubSeq(s, 1, n))
<1>7. n \in 1 .. 11 /\ n <= MessageLength(k)
  BY <1>4, <1>5
<1>8. /\ n \in 0 .. 2 => a.name = << >> /\ a.offset = << >> /\ a.data = << >>
      /\ n \in 3 .. 4 => a.name = SubSeq(s, 4, n) /\ a.offset = << >> /\ a.data = << >>
      /\ n \in 5 .. 7 => a.name = Name /\ a.offset = SubSeq(s, 6, n) /\ a.data = << >>
      /\ n \in 8 .. 11 => a.name = Name /\ a.offset = Offset /\ a.data = SubSeq(s, 9, n)
      /\ a \in Acts
  <2>1. n \in 0 .. 11
    BY <1>7
  <2> QED
    BY <2>1, TextParsed DEF s
<1>9. Name \in Strings /\ Offset \in Strings
  BY DEF Name, Offset, Strings, Symbols
<1>10. IsPrefix(Name, Name) /\ IsPrefix(Offset, Offset)
  BY <1>9 DEF IsPrefix, Strings
<1>11. IsPrefix(a.name, Name)
  <2>1. ASSUME NEW i, NEW m, i = 4, m = 4, n \in 3 .. 4
        PROVE  IsPrefix(SubSeq(s, i, n), SubSeq(s, i, m))
    <3>1. i \in 1 .. Len(s) + 1 /\ m \in i - 1 .. Len(s) /\ n \in i - 1 .. m /\ s \in Strings
      BY <1>2, <2>1
    <3> QED
      BY ONLY <3>1, PartPrefix
  <2>2. CASE n \in 0 .. 2
    BY <1>8, <1>9, <2>2, NothingIsPrefix
  <2>3. CASE n \in 3 .. 4
    <3>1. IsPrefix(SubSeq(s, 4, n), SubSeq(s, 4, 4))
      BY <2>1, <2>3
    <3> QED
      BY <1>3, <1>8, <2>3, <3>1
  <2>4. CASE n \in 5 .. 11
    <3>1. n \in 5 .. 7 \/ n \in 8 .. 11
      BY <2>4
    <3> QED
      BY <1>8, <1>10, <3>1
  <2> QED
    BY <1>7, <2>2, <2>3, <2>4
<1>12. k \in {"read", "write"} => IsPrefix(a.offset, Offset)
  <2>1. ASSUME NEW i, NEW m, i = 6, m = 7, n \in 5 .. 7
        PROVE  IsPrefix(SubSeq(s, i, n), SubSeq(s, i, m))
    <3>1. i \in 1 .. Len(s) + 1 /\ m \in i - 1 .. Len(s) /\ n \in i - 1 .. m /\ s \in Strings
      BY <1>2, <2>1
    <3> QED
      BY ONLY <3>1, PartPrefix
  <2>2. CASE n \in 0 .. 4
    <3>1. n \in 0 .. 2 \/ n \in 3 .. 4
      BY <2>2
    <3> QED
      BY <1>8, <1>9, <3>1, NothingIsPrefix
  <2>3. CASE n \in 5 .. 7
    <3>1. IsPrefix(SubSeq(s, 6, n), SubSeq(s, 6, 7))
      BY <2>1, <2>3
    <3> QED
      BY <1>3, <1>8, <2>3, <3>1
  <2>4. CASE n \in 8 .. 11
    BY <1>8, <1>10, <2>4
  <2> QED
    BY <1>7, <2>2, <2>3, <2>4
<1>13. ASSUME k \notin {"read", "write"}
       PROVE  a.offset = << >> /\ a.data = << >> /\ IsPrefix(<< >>, << >>)
  <2>1. IsPrefix(<< >>, << >>)
    BY DEF IsPrefix
  <2>2. MessageLength(k) = 4
    BY <1>13 DEF MessageLength, HeaderLength, AllKinds
  <2>3. n \in 0 .. 2 \/ n \in 3 .. 4
    BY <1>7, <2>2
  <2> QED
    BY <1>8, <2>1, <2>3
<1>14. ASSUME n >= HeaderLength(k)
       PROVE  /\ a.name = Name
              /\ k \in {"read", "write"} => a.offset = Offset
              /\ k # "write" => a.data = << >>
              /\ k = "write" => n >= 8 /\ a.data = SubSeq(s, 9, n)
  <2>1. CASE k \notin {"read", "write"}
    <3>1. HeaderLength(k) = 4 /\ MessageLength(k) = 4 /\ k # "write"
      BY <2>1 DEF MessageLength, HeaderLength, AllKinds
    <3>2. n = 4 /\ n \in 3 .. 4
      BY <1>7, <1>14, <3>1
    <3> QED
      BY <1>3, <1>8, <2>1, <3>2
  <2>2. CASE k = "read"
    <3>1. HeaderLength(k) = 7 /\ MessageLength(k) = 7
      BY <2>2 DEF MessageLength, HeaderLength
    <3>2. n = 7 /\ n \in 5 .. 7
      BY <1>7, <1>14, <3>1
    <3> QED
      BY <1>3, <1>8, <2>2, <3>2
  <2>3. CASE k = "write"
    <3>1. HeaderLength(k) = 8
      BY <2>3 DEF HeaderLength
    <3>2. n >= 8 /\ n \in 8 .. 11
      BY <1>7, <1>14, <3>1
    <3> QED
      BY <1>8, <2>3, <3>2
  <2> QED
    BY <2>1, <2>2, <2>3
<1>15. ASSUME k = "write", n >= 8
       PROVE  SubSeq(s, 9, n) \o SubSeq(Message(k), n + 1, Len(Message(k))) = Data
  <2>1. Message(k) = SubSeq(s, 1, 11) /\ Len(Message(k)) = 11
    BY <1>1, <1>5, <1>15 DEF s, MessageLength
  <2>2. SubSeq(s, 1, 11) = s
    BY <1>2, SubSeqFull DEF Strings
  <2>3. SubSeq(s, 9, n) \o SubSeq(s, n + 1, 11) = SubSeq(s, 9, 11)
    <3>1. 9 \in 1 .. Len(s) + 1 /\ n \in 9 - 1 .. Len(s) /\ 11 \in n .. Len(s)
      BY <1>2, <1>7, <1>15
    <3> QED
      BY <1>2, <3>1, ConcatAdjacentSubSeq DEF Strings
  <2> QED
    BY <1>3, <2>1, <2>2, <2>3
<1>16. /\ Words(k).name = Name
       /\ Words(k).offset = IF k \in {"read", "write"} THEN Offset ELSE << >>
  BY DEF Words
<1> QED
  BY <1>5, <1>6, <1>8, <1>11, <1>12, <1>13, <1>14, <1>15, <1>16 DEF a

LEMMA MessageType ==
  ASSUME NEW k \in AllKinds
  PROVE  Message(k) \in Strings /\ (k = "probe" => Message(k) = << >>)
<1>1. CASE k = "probe"
  <2>1. Message(k) = << >>
    BY <1>1 DEF Message, Header
  <2> QED
    BY <2>1 DEF Strings
<1>2. CASE k # "probe"
  <2>1. PICK c \in Symbols \ {SP} : Message(k) = SubSeq(Text(c), 1, MessageLength(k))
    BY <1>2, MessageIs
  <2>2. Text(c) \in Strings /\ Len(Text(c)) = 11
    BY TextIs
  <2>3. MessageLength(k) \in 0 .. 11
    BY DEF MessageLength, HeaderLength
  <2>4. 1 \in 1 .. Len(Text(c)) + 1 /\ MessageLength(k) \in 0 .. Len(Text(c))
    BY <2>2, <2>3
  <2> QED
    BY <1>2, <2>1, <2>2, <2>4, PartIsString
<1> QED
  BY <1>1, <1>2

\* What is received and what is not are the string.
LEMMA TakenAndLeft ==
  ASSUME NEW s \in Strings, NEW n \in 1 .. Len(s), NEW r \in Strings
  PROVE  /\ SubSeq(s, 1, n) \in Strings /\ SubSeq(s, n + 1, Len(s)) \in Strings
         /\ r \o SubSeq(s, 1, n) \in Strings /\ r \o SubSeq(s, 1, n) # << >>
         /\ (r \o SubSeq(s, 1, n)) \o SubSeq(s, n + 1, Len(s)) = r \o s
<1> DEFINE p == SubSeq(s, 1, n)
           q == SubSeq(s, n + 1, Len(s))
<1>1. Len(s) \in Nat /\ Len(r) \in Nat
  BY LenProperties DEF Strings
<1>2. p \in Strings /\ Len(p) = n
  <2>1. 1 \in 1 .. Len(s) + 1 /\ n \in 0 .. Len(s)
    BY <1>1
  <2>2. Len(p) = IF 1 <= n THEN n - 1 + 1 ELSE 0
    BY <2>1, PartIsString
  <2>3. p \in Strings
    BY <2>1, PartIsString
  <2> QED
    BY <2>2, <2>3
<1>3. q \in Strings
  <2>1. n + 1 \in 1 .. Len(s) + 1 /\ Len(s) \in 0 .. Len(s)
    BY <1>1
  <2> QED
    BY <2>1, PartIsString
<1>4. p \o q = s
  <2>1. n \in 0 .. Len(s) /\ Len(s) \in n .. Len(s)
    BY <1>1
  <2>2. p \o q = SubSeq(s, 1, Len(s))
    BY <2>1, PartsJoin
  <2> QED
    BY <2>2, SubSeqFull DEF Strings
<1> HIDE DEF p, q
<1>5. r \o p \in Strings /\ Len(r \o p) = Len(r) + Len(p)
  BY <1>2, ConcatProperties DEF Strings
<1>6. r \o p # << >>
  BY <1>1, <1>2, <1>5
<1>7. (r \o p) \o q = r \o s
  <2>1. p \in Seq(Symbols) /\ q \in Seq(Symbols) /\ r \in Seq(Symbols)
    BY <1>2, <1>3 DEF Strings
  <2>2. (r \o p) \o q = r \o (p \o q)
    BY ONLY <2>1, ConcatAssociative
  <2> QED
    BY <1>4, <2>2
<1> QED
  BY <1>2, <1>3, <1>5, <1>6, <1>7 DEF p, q

LEMMA PieceIs ==
  ASSUME IInv, NEW e \in Exchanges, NEW n \in Pieces(e)
  PROVE  n \in 1 .. Len(up[e]) /\ up[e] \in Strings
<1>1. up[e] \in Strings /\ Len(up[e]) \in Nat
  BY LenProperties DEF IInv, TypesInv, Strings
<1> DEFINE S == {Len(up[e]), RCVBUFSIZE}
<1>2. Min(S) <= Len(up[e])
  <2>1. S \in SUBSET Int
    BY <1>1, BufferAssumption
  <2>2. CASE Len(up[e]) <= RCVBUFSIZE
    <3>1. Len(up[e]) \in S /\ \A y \in S : Len(up[e]) <= y
      BY <1>1, <2>2
    <3>2. Min(S) = Len(up[e])
      BY <2>1, <3>1, LeastOf
    <3> QED
      BY <1>1, <3>2
  <2>3. CASE RCVBUFSIZE <= Len(up[e])
    <3>1. RCVBUFSIZE \in S /\ \A y \in S : RCVBUFSIZE <= y
      BY <1>1, <2>3, BufferAssumption
    <3>2. Min(S) = RCVBUFSIZE
      BY <2>1, <3>1, LeastOf
    <3> QED
      BY <2>3, <3>2
  <2> QED
    BY <1>1, <2>2, <2>3, BufferAssumption
<1>3. Min(S) \in Int
  <2>1. S \in SUBSET Int
    BY <1>1, BufferAssumption
  <2>2. CASE Len(up[e]) <= RCVBUFSIZE
    <3>1. Len(up[e]) \in S /\ \A y \in S : Len(up[e]) <= y
      BY <1>1, <2>2
    <3> QED
      BY <2>1, <3>1, LeastOf
  <2>3. CASE RCVBUFSIZE <= Len(up[e])
    <3>1. RCVBUFSIZE \in S /\ \A y \in S : RCVBUFSIZE <= y
      BY <1>1, <2>3, BufferAssumption
    <3> QED
      BY <2>1, <3>1, LeastOf
  <2> QED
    BY <1>1, <2>2, <2>3, BufferAssumption
<1> HIDE DEF S
<1>4. Pieces(e) = 1 .. Min(S)
  BY DEF Pieces, S
<1> QED
  BY <1>1, <1>2, <1>3, <1>4
-----------------------------------------------------------------------------
(* Steps.                                                                   *)

LEMMA EndsOf ==
  ASSUME NEW k \in AllKinds \union {"none"}
  PROVE  /\ From(k) \in Processes /\ To(k) \in Processes
         /\ k # "none" => From(k) # To(k)
BY DEF AllKinds, From, To, Processes

\* What a step at exchange e does to the sockets and the processes.
SocketsOf(e) ==
  \/ UNCHANGED << open, ended >>
  \/ \E p \in Processes :
       \/ End(p)
       \/ ~Full(p) /\ Alive(p) /\ open' = Sockets(p, e) /\ UNCHANGED ended
       \/ open' = Closed(p, e) /\ UNCHANGED ended

\* What a step leaves alone at exchange d.
Same(d) ==
  /\ kind'[d] = kind[d] /\ cl'[d] = cl[d] /\ sv'[d] = sv[d] /\ up'[d] = up[d] /\ down'[d] = down[d]
  /\ acts'[d] = acts[d] /\ answer'[d] = answer[d] /\ response'[d] = response[d] /\ first'[d] = first[d]

LEMMA TablesKept ==
  ASSUME IInv, NEW e \in Exchanges, SocketsOf(e)
  PROVE  TablesInv' /\ open' \in [Processes -> SUBSET Exchanges] /\ ended' \subseteq Processes
<1>1. /\ open \in [Processes -> SUBSET Exchanges] /\ ended \subseteq Processes
      /\ \A p \in Processes : /\ IsFiniteSet(open[p]) /\ Cardinality(open[p]) <= MaxDescriptors
                              /\ p \in ended => open[p] = {}
  BY DEF IInv, TypesInv, TablesInv
<1>2. MaxDescriptors \in Nat /\ \A p \in Processes : Cardinality(open[p]) \in Nat
  BY <1>1, FS_CardinalityType, BufferAssumption
<1>3. CASE UNCHANGED << open, ended >>
  BY <1>1, <1>3 DEF TablesInv
<1>4. ASSUME NEW p \in Processes, End(p)
      PROVE  TablesInv' /\ open' \in [Processes -> SUBSET Exchanges] /\ ended' \subseteq Processes
  <2>1. IsFiniteSet({}) /\ Cardinality({}) = 0
    BY FS_EmptySet
  <2> QED
    BY <1>1, <1>2, <1>4, <2>1 DEF TablesInv, End
<1>5. ASSUME NEW p \in Processes, ~Full(p), Alive(p), open' = Sockets(p, e), UNCHANGED ended
      PROVE  TablesInv' /\ open' \in [Processes -> SUBSET Exchanges] /\ ended' \subseteq Processes
  <2>1. open' = [open EXCEPT ![p] = open[p] \union {e}]
    BY <1>5 DEF Sockets
  <2>2. /\ IsFiniteSet(open[p] \union {e})
        /\ Cardinality(open[p] \union {e}) = IF e \in open[p] THEN Cardinality(open[p]) ELSE Cardinality(open[p]) + 1
    BY <1>1, FS_AddElement
  <2>3. Cardinality(open[p]) + 1 <= MaxDescriptors
    BY <1>2, <1>5 DEF Full
  <2>4. Cardinality(open[p] \union {e}) <= MaxDescriptors
    BY <1>1, <1>2, <2>2, <2>3
  <2> QED
    BY <1>1, <1>5, <2>1, <2>2, <2>4 DEF TablesInv, Alive
<1>6. ASSUME NEW p \in Processes, open' = Closed(p, e), UNCHANGED ended
      PROVE  TablesInv' /\ open' \in [Processes -> SUBSET Exchanges] /\ ended' \subseteq Processes
  <2>1. open' = [open EXCEPT ![p] = open[p] \ {e}]
    BY <1>6 DEF Closed
  <2>2. /\ IsFiniteSet(open[p] \ {e})
        /\ Cardinality(open[p] \ {e}) = IF e \in open[p] THEN Cardinality(open[p]) - 1 ELSE Cardinality(open[p])
    BY <1>1, FS_RemoveElement
  <2>3. Cardinality(open[p] \ {e}) <= MaxDescriptors
    BY <1>1, <1>2, <2>2
  <2> QED
    BY <1>1, <1>6, <2>1, <2>2, <2>3 DEF TablesInv
<1> QED
  BY <1>3, <1>4, <1>5, <1>6 DEF SocketsOf

\* The other exchanges are as they were, but for processes that have ended.
LEMMA OthersFit ==
  ASSUME IInv, NEW e \in Exchanges, SocketsOf(e), NEW d \in Exchanges \ {e}, Same(d)
  PROVE  SocketsFit(d)' /\ AnswerFits(d)' /\ CommandFits(d)'
<1> DEFINE k == kind[d]
<1>1. k \in AllKinds \union {"none"} /\ open \in [Processes -> SUBSET Exchanges] /\ ended \subseteq Processes
  BY DEF IInv, TypesInv
<1>2. From(k) \in Processes /\ To(k) \in Processes
  BY <1>1, EndsOf
<1>3. \A p \in Processes : p \in ended => p \in ended'
  BY DEF SocketsOf, End
<1>4. \A p \in Processes : d \in open'[p] => d \in open[p]
  BY <1>1 DEF SocketsOf, End, Sockets, Closed
<1>5. \A p \in Processes : p \notin ended' => p \notin ended /\ (d \in open'[p] <=> d \in open[p])
  BY <1>1 DEF SocketsOf, End, Sockets, Closed
<1>6. SocketsFit(d) /\ AnswerFits(d) /\ CommandFits(d)
  BY DEF IInv
<1>7. SocketsFit(d)'
  BY <1>2, <1>4, <1>5, <1>6 DEF SocketsFit, Same, Alive
<1>8. AnswerFits(d)'
  BY <1>2, <1>3, <1>6 DEF AnswerFits, Same, Alive
<1>9. CommandFits(d)'
  BY <1>6 DEF CommandFits, Same, Known, Whole
<1> QED
  BY <1>7, <1>8, <1>9

\* What a step has to show.
LEMMA StepFits ==
  ASSUME IInv, NEW e \in Exchanges, SocketsOf(e), \A d \in Exchanges \ {e} : Same(d),
         kind' \in [Exchanges -> AllKinds \union {"none"}],
         cl' \in [Exchanges -> {"new", "sent", "done", "failed"}],
         sv' \in [Exchanges -> {"none", "refused", "recv", "loop", "answer", "close", "done"}],
         up' \in [Exchanges -> Strings], down' \in [Exchanges -> Strings],
         acts' \in [Exchanges -> Acts],
         answer' \in [Exchanges -> Strings], response' \in [Exchanges -> Strings],
         first' \in [Exchanges -> Nat], reset' \subseteq Exchanges,
         SocketsFit(e)', AnswerFits(e)', CommandFits(e)'
  PROVE  IInv'
<1>1. \A d \in Exchanges \ {e} : SocketsFit(d)' /\ AnswerFits(d)' /\ CommandFits(d)'
  BY OthersFit
<1>2. TablesInv' /\ open' \in [Processes -> SUBSET Exchanges] /\ ended' \subseteq Processes
  BY TablesKept
<1>3. TypesInv'
  BY <1>2 DEF TypesInv
<1> QED
  BY <1>1, <1>2, <1>3 DEF IInv

LEMMA SendKeeps ==
  ASSUME IInv, NEW e \in Exchanges, NEW k \in Makes[e], Send(e, k)
  PROVE  IInv'
<1>1. TypesInv /\ SocketsFit(e) /\ AnswerFits(e) /\ CommandFits(e)
  BY DEF IInv
<1>2. k \in AllKinds
  BY KindsAssumption
<1>3. /\ From(k) \in Processes /\ To(k) \in Processes /\ From(k) # To(k)
  BY <1>2, EndsOf DEF AllKinds
<1>4. kind[e] = "none" /\ cl[e] = "new" /\ sv[e] = "none" /\ first[e] = 0
  BY <1>1 DEF Send, SocketsFit, CommandFits
<1>5. \A p \in Processes : e \notin open[p]
  BY <1>1, <1>4 DEF SocketsFit
<1>6. /\ kind' = [kind EXCEPT ![e] = k]
      /\ UNCHANGED << down, acts, answer, response, first, reset >>
      /\ kind'[e] = k
  BY <1>1 DEF Send, TypesInv
<1>7. answer'[e] = << >> /\ answer'[e] = response'[e] \o down'[e]
  BY <1>1, <1>4, <1>6 DEF AnswerFits
<1>8. ~Known(e)' /\ first'[e] = 0
  BY <1>4, <1>6 DEF Known
<1>9. CASE Connected(e, k)
  <2>1. /\ up' = [up EXCEPT ![e] = Message(k)] /\ up'[e] = Message(k)
        /\ cl' = [cl EXCEPT ![e] = IF Waits(k) THEN "sent" ELSE "done"]
        /\ cl'[e] = IF Waits(k) THEN "sent" ELSE "done"
        /\ open' = IF Waits(k) THEN Sockets(From(k), e) ELSE open
        /\ sv' = sv /\ ended' = ended
    BY <1>1, <1>9 DEF Connected, TypesInv
  <2>2. SocketsOf(e)
    BY <1>3, <1>6, <1>9, <2>1 DEF SocketsOf, Connected, Send
  <2>3. \A d \in Exchanges \ {e} : Same(d)
    BY <1>1, <1>6, <2>1 DEF Same, TypesInv
  <2>4. SocketsFit(e)'
    <3>1. \A p \in Processes : e \in open'[p] <=> Waits(k) /\ p = From(k)
      BY <1>1, <1>3, <1>5, <2>1 DEF Sockets, TypesInv
    <3> QED
      BY <1>2, <1>3, <1>4, <1>6, <2>1, <3>1 DEF SocketsFit, AllKinds
  <2>5. AnswerFits(e)'
    <3>1. ~(cl'[e] = "done" /\ Waits(kind'[e]))
      BY <1>6, <2>1
    <3> QED
      BY <1>7, <3>1 DEF AnswerFits
  <2>6. CommandFits(e)'
    BY <1>4, <1>6, <1>8, <2>1 DEF CommandFits
  <2>7. Message(k) \in Strings
    BY <1>2, MessageType
  <2> QED
    BY <1>1, <1>2, <1>6, <2>1, <2>2, <2>3, <2>4, <2>5, <2>6, <2>7, StepFits DEF TypesInv
<1>10. CASE Refused(e, k)
  <2>1. /\ cl' = [cl EXCEPT ![e] = "failed"] /\ cl'[e] = "failed"
        /\ sv' = [sv EXCEPT ![e] = "refused"] /\ sv'[e] = "refused"
        /\ up' = up
        /\ \/ End("client") \/ UNCHANGED << open, ended >>
           \/ /\ k = "probe" /\ ~Full(From(k))
              /\ open' = Sockets(From(k), e) /\ UNCHANGED ended
    BY <1>1, <1>10 DEF Refused, TypesInv
  <2>2. SocketsOf(e)
    BY <1>3, <2>1 DEF SocketsOf, Processes, Send
  <2>3. \A d \in Exchanges \ {e} : Same(d)
    BY <1>1, <1>6, <2>1 DEF Same, TypesInv
  <2>4. SocketsFit(e)'
    <3>1. \A p \in Processes : e \in open'[p] => k = "probe" /\ p = From(k)
      BY <1>1, <1>3, <1>5, <2>1 DEF End, Sockets, TypesInv
    <3> QED
      BY <1>2, <1>3, <1>6, <2>1, <3>1 DEF SocketsFit, AllKinds
  <2>5. AnswerFits(e)'
    BY <1>6, <1>7, <2>1 DEF AnswerFits
  <2>6. CommandFits(e)'
    BY <1>4, <1>6, <1>8, <2>1 DEF CommandFits
  <2> QED
    BY <1>1, <1>2, <1>6, <2>1, <2>2, <2>3, <2>4, <2>5, <2>6, StepFits DEF TypesInv
<1> QED
  BY <1>9, <1>10 DEF Send

LEMMA WaitingIs ==
  ASSUME IInv, NEW e \in Exchanges, Waiting(e)
  PROVE  /\ kind[e] \in AllKinds /\ cl[e] = "sent"
         /\ From(kind[e]) \in Processes /\ To(kind[e]) \in Processes /\ From(kind[e]) # To(kind[e])
<1>1. TypesInv /\ SocketsFit(e)
  BY DEF IInv
<1>2. kind[e] # "none"
  BY <1>1 DEF SocketsFit, Waiting
<1>3. kind[e] \in AllKinds \union {"none"}
  BY <1>1 DEF TypesInv
<1> QED
  BY <1>2, <1>3, EndsOf DEF Waiting

\* What both ways to wait come to: more of the answer, its end, or none.
LEMMA AnswerKeeps ==
  ASSUME IInv, NEW e \in Exchanges, Waiting(e),
         UNCHANGED << kind, sv, up, acts, answer, first, reset >>,
         \/ \E n \in 1 .. Len(down[e]) : Received(e, n)
         \/ UNCHANGED << down, response >>,
         \/ UNCHANGED << cl, open, ended >>
         \/ Unanswered(e)
         \/ Finish(e) /\ (Waits(kind[e]) =>
              IF kind[e] \in {"call", "revoke"} THEN \E n \in 1 .. Len(down[e]) : Received(e, n)
              ELSE down'[e] = << >> /\ (sv[e] = "done" \/ ~Alive(To(kind[e]))))
  PROVE  IInv'
<1>1. TypesInv /\ SocketsFit(e) /\ AnswerFits(e) /\ CommandFits(e)
  BY DEF IInv
<1> DEFINE k == kind[e]
<1>2. k \in AllKinds /\ cl[e] = "sent" /\ From(k) \in Processes /\ To(k) \in Processes /\ From(k) # To(k)
  BY WaitingIs
<1>3. kind' = kind /\ sv' = sv /\ up' = up /\ acts' = acts /\ answer' = answer /\ first' = first /\ reset' = reset
  OBVIOUS
<1>4. /\ down' \in [Exchanges -> Strings] /\ response' \in [Exchanges -> Strings]
      /\ \A d \in Exchanges \ {e} : down'[d] = down[d] /\ response'[d] = response[d]
      /\ answer[e] = response'[e] \o down'[e]
      /\ (\E n \in 1 .. Len(down[e]) : Received(e, n)) => response'[e] # << >>
  <2>1. CASE UNCHANGED << down, response >> /\ ~\E n \in 1 .. Len(down[e]) : Received(e, n)
    BY <1>1, <2>1 DEF TypesInv, AnswerFits
  <2>2. ASSUME NEW n \in 1 .. Len(down[e]), Received(e, n)
        PROVE  /\ down' \in [Exchanges -> Strings] /\ response' \in [Exchanges -> Strings]
               /\ \A d \in Exchanges \ {e} : down'[d] = down[d] /\ response'[d] = response[d]
               /\ answer[e] = response'[e] \o down'[e]
               /\ response'[e] # << >>
    <3>1. down[e] \in Strings /\ response[e] \in Strings
      BY <1>1 DEF TypesInv
    <3> DEFINE x == response[e] \o SubSeq(down[e], 1, n)
               y == SubSeq(down[e], n + 1, Len(down[e]))
    <3>2. x \in Strings /\ y \in Strings /\ x # << >> /\ x \o y = response[e] \o down[e]
      BY <3>1, TakenAndLeft
    <3>3. response' = [response EXCEPT ![e] = x] /\ down' = [down EXCEPT ![e] = y]
      BY <2>2 DEF Received
    <3> HIDE DEF x, y
    <3>4. response'[e] = x /\ down'[e] = y
      BY <1>1, <3>3 DEF TypesInv
    <3> QED
      BY <1>1, <3>2, <3>3, <3>4 DEF TypesInv, AnswerFits
  <2> QED
    BY <2>1, <2>2
<1>5. SocketsOf(e)
  <2>1. CASE Unanswered(e)
    BY <1>2, <2>1 DEF SocketsOf, Unanswered, Processes
  <2>2. CASE Finish(e)
    BY <1>2, <2>2 DEF SocketsOf, Finish
  <2> QED
    BY <2>1, <2>2 DEF SocketsOf
<1>6. /\ cl' \in [Exchanges -> {"new", "sent", "done", "failed"}]
      /\ \A d \in Exchanges \ {e} : cl'[d] = cl[d]
  BY <1>1 DEF Unanswered, Finish, TypesInv
<1>7. \A d \in Exchanges \ {e} : Same(d)
  BY <1>3, <1>4, <1>6 DEF Same
<1>8. SocketsFit(e)'
  <2>1. e \in open[From(k)]
    BY <1>1, <1>2 DEF SocketsFit, Waiting
  <2>2. CASE UNCHANGED << cl, open, ended >>
    BY <1>1, <1>3, <2>2 DEF SocketsFit, Alive
  <2>3. CASE open' = Closed(From(k), e) /\ ended' = ended /\ cl'[e] # "sent"
    <3>1. \A p \in Processes : e \in open'[p] <=> e \in open[p] /\ p # From(k)
      BY <1>1, <2>3 DEF Closed, TypesInv
    <3> QED
      BY <1>1, <1>2, <1>3, <2>3, <3>1 DEF SocketsFit, Alive, AllKinds
  <2>4. CASE End(From(k)) /\ cl'[e] # "sent"
    <3>1. /\ \A p \in Processes : e \in open'[p] <=> e \in open[p] /\ p # From(k)
          /\ ended' = ended \union {From(k)}
      BY <1>1, <1>2, <2>4 DEF End, TypesInv
    <3> QED
      BY <1>1, <1>2, <1>3, <2>4, <3>1 DEF SocketsFit, Alive, AllKinds
  <2>5. Finish(e) => cl'[e] = "done"
    BY <1>1 DEF Finish, TypesInv
  <2>6. Unanswered(e) => cl'[e] = "failed"
    BY <1>1 DEF Unanswered, TypesInv
  <2> QED
    BY <2>2, <2>3, <2>4, <2>5, <2>6 DEF Finish, Unanswered
<1>9. AnswerFits(e)'
  <2>1. cl'[e] = "done" =>
          /\ ended' = ended
          /\ Waits(k) => IF k \in {"call", "revoke"} THEN response'[e] # << >>
                         ELSE down'[e] = << >> /\ (sv[e] = "done" \/ ~Alive(To(k)))
    <3>1. Unanswered(e) => cl'[e] = "failed"
      BY <1>1 DEF Unanswered, TypesInv
    <3> QED
      BY <1>2, <1>4, <3>1 DEF Finish
  <2> QED
    BY <1>1, <1>3, <1>4, <2>1 DEF AnswerFits, Alive
<1>10. CommandFits(e)'
  BY <1>1, <1>3 DEF CommandFits, Known, Whole
<1> QED
  BY <1>1, <1>3, <1>4, <1>5, <1>6, <1>7, <1>8, <1>9, <1>10, StepFits DEF TypesInv

\* The server has a socket for the exchange.
HasSocket(e) == sv[e] \notin {"none", "refused", "done"} \/ (Revoker(kind[e]) /\ sv[e] = "done")

\* What a step of the server does to its socket.
LEMMA ServeSockets ==
  ASSUME IInv, NEW e \in Exchanges, kind[e] # "none", Alive(To(kind[e])), UNCHANGED << kind, cl >>,
         \/ UNCHANGED << open, ended >> /\ (HasSocket(e)' <=> HasSocket(e))
         \/ End(To(kind[e]))
         \/ ~Full(To(kind[e])) /\ open' = Sockets(To(kind[e]), e) /\ UNCHANGED ended /\ HasSocket(e)'
         \/ open' = Closed(To(kind[e]), e) /\ UNCHANGED ended /\ ~HasSocket(e)'
  PROVE  SocketsOf(e) /\ SocketsFit(e)'
<1> DEFINE k == kind[e]
<1>1. TypesInv /\ SocketsFit(e)
  BY DEF IInv
<1>2. k \in AllKinds /\ From(k) \in Processes /\ To(k) \in Processes /\ From(k) # To(k)
  <2>1. k \in AllKinds \union {"none"}
    BY <1>1 DEF TypesInv
  <2> QED
    BY <2>1, EndsOf
<1>3. /\ \A p \in Processes : e \in open[p] => p \in {From(k), To(k)}
      /\ Alive(From(k)) =>
           /\ cl[e] = "sent" => e \in open[From(k)]
           /\ e \in open[From(k)] => cl[e] = "sent" \/ (k = "probe" /\ cl[e] = "failed")
      /\ e \in open[To(k)] <=> HasSocket(e)
  BY <1>1 DEF SocketsFit, HasSocket
<1>4. kind'[e] = k /\ cl'[e] = cl[e]
  OBVIOUS
<1>5. ASSUME /\ \A p \in Processes : e \in open'[p] => p \in {From(k), To(k)}
             /\ Alive(From(k))' =>
                  /\ cl[e] = "sent" => e \in open'[From(k)]
                  /\ e \in open'[From(k)] => cl[e] = "sent" \/ (k = "probe" /\ cl[e] = "failed")
             /\ Alive(To(k))' => (e \in open'[To(k)] <=> HasSocket(e)')
      PROVE  SocketsFit(e)'
  BY <1>4, <1>5 DEF SocketsFit, HasSocket
<1>6. CASE UNCHANGED << open, ended >> /\ (HasSocket(e)' <=> HasSocket(e))
  BY <1>3, <1>5, <1>6 DEF SocketsOf, Alive
<1>7. CASE End(To(k))
  <2>1. /\ \A p \in Processes : e \in open'[p] <=> e \in open[p] /\ p # To(k)
        /\ ended' = ended \union {To(k)}
    BY <1>1, <1>2, <1>7 DEF End, TypesInv
  <2> QED
    BY <1>2, <1>3, <1>5, <1>7, <2>1 DEF SocketsOf, Alive
<1>8. CASE ~Full(To(k)) /\ open' = Sockets(To(k), e) /\ UNCHANGED ended /\ HasSocket(e)'
  <2>1. \A p \in Processes : e \in open'[p] <=> e \in open[p] \/ p = To(k)
    BY <1>1, <1>2, <1>8 DEF Sockets, TypesInv
  <2> QED
    BY <1>2, <1>3, <1>5, <1>8, <2>1 DEF SocketsOf, Alive
<1>9. CASE open' = Closed(To(k), e) /\ UNCHANGED ended /\ ~HasSocket(e)'
  <2>1. \A p \in Processes : e \in open'[p] <=> e \in open[p] /\ p # To(k)
    BY <1>1, <1>2, <1>9 DEF Closed, TypesInv
  <2> QED
    BY <1>2, <1>3, <1>5, <1>9, <2>1 DEF SocketsOf, Alive
<1> QED
  BY <1>6, <1>7, <1>8, <1>9

\* As long as the server has not closed the connection, who has had his answer is one who
\* takes the beginning of it.
LEMMA ServeAnswer ==
  ASSUME IInv, NEW e \in Exchanges, sv[e] # "done", Alive(To(kind[e])),
         UNCHANGED << kind, cl, response >>, answer'[e] = response[e] \o down'[e],
         sv'[e] \notin {"close", "done"} => answer'[e] = << >>
  PROVE  AnswerFits(e)'
<1>1. cl[e] = "done" /\ Waits(kind[e]) => kind[e] \in {"call", "revoke"} /\ response[e] # << >>
  BY DEF IInv, AnswerFits
<1> QED
  BY <1>1 DEF AnswerFits

LEMMA AcceptKeeps ==
  ASSUME IInv, NEW e \in Exchanges, Accept(e)
  PROVE  IInv'
<1>1. TypesInv /\ SocketsFit(e) /\ AnswerFits(e) /\ CommandFits(e)
  BY DEF IInv
<1>2. /\ kind[e] # "none" /\ sv[e] = "none" /\ Alive(To(kind[e]))
      /\ UNCHANGED << kind, cl, up, down, acts, answer, response, first, reset >>
  BY DEF Accept
<1>3. sv'[e] \in {"none", "recv"} /\ sv' \in [Exchanges -> {"none", "refused", "recv", "loop", "answer", "close", "done"}]
      /\ \A d \in Exchanges \ {e} : sv'[d] = sv[d]
  BY <1>1, <1>2 DEF Accept, TypesInv
<1>4. SocketsOf(e) /\ SocketsFit(e)'
  <2>1. CASE ~Full(To(kind[e])) /\ sv' = [sv EXCEPT ![e] = "recv"] /\ open' = Sockets(To(kind[e]), e) /\ UNCHANGED ended
    <3>1. HasSocket(e)'
      BY <1>1, <2>1 DEF HasSocket, TypesInv
    <3> QED
      BY <1>2, <2>1, <3>1, ServeSockets
  <2>2. CASE End(To(kind[e]))
    BY <1>2, <2>2, ServeSockets
  <2> QED
    BY <2>1, <2>2 DEF Accept
<1>5. AnswerFits(e)'
  BY <1>1, <1>2, <1>3, ServeAnswer DEF AnswerFits
<1>6. CommandFits(e)'
  BY <1>1, <1>2, <1>3 DEF CommandFits, Known, Whole
<1>7. \A d \in Exchanges \ {e} : Same(d)
  BY <1>2, <1>3 DEF Same
<1> QED
  BY <1>1, <1>2, <1>3, <1>4, <1>5, <1>6, <1>7, StepFits DEF TypesInv

LEMMA SendAnswerKeeps ==
  ASSUME IInv, NEW e \in Exchanges, SendAnswer(e)
  PROVE  IInv'
<1>1. TypesInv /\ SocketsFit(e) /\ AnswerFits(e) /\ CommandFits(e)
  BY DEF IInv
<1>2. /\ sv[e] = "answer" /\ Alive(To(kind[e])) /\ kind[e] # "none"
      /\ UNCHANGED << kind, cl, up, acts, response, first, reset, open, ended >>
      /\ sv' = [sv EXCEPT ![e] = "close"] /\ sv'[e] = "close"
  BY <1>1 DEF SendAnswer, Handling, SocketsFit, TypesInv
<1>3. PICK a \in {<< >>, << "a", "a" >>} : answer' = [answer EXCEPT ![e] = a] /\ down' = [down EXCEPT ![e] = a]
  BY DEF SendAnswer
<1>4. a \in Strings
  <2>1. << >> \in Strings /\ << "a", "a" >> \in Strings
    BY DEF Strings, Symbols
  <2> QED
    BY <1>3, <2>1
<1>5. answer'[e] = a /\ down'[e] = a
  BY <1>1, <1>3 DEF TypesInv
<1>6. response[e] = << >>
  <2>1. response[e] \o down[e] = << >>
    BY <1>1, <1>2 DEF AnswerFits
  <2>2. response[e] \in Seq(Symbols) /\ down[e] \in Seq(Symbols)
    BY <1>1 DEF TypesInv, Strings
  <2> QED
    BY <2>1, <2>2, ConcatEqualIffEmpty
<1>7. answer'[e] = response[e] \o down'[e]
  <2>1. << >> \o a = a
    BY <1>4, ConcatEmptySeq DEF Strings
  <2> QED
    BY <1>5, <1>6, <2>1
<1>8. SocketsOf(e) /\ SocketsFit(e)'
  <2>1. HasSocket(e) /\ HasSocket(e)'
    BY <1>2 DEF HasSocket
  <2> QED
    BY <1>2, <2>1, ServeSockets
<1>9. AnswerFits(e)'
  BY <1>2, <1>7, ServeAnswer
<1>10. CommandFits(e)'
  BY <1>1, <1>2 DEF CommandFits, Known, Whole
<1>11. \A d \in Exchanges \ {e} : Same(d)
  BY <1>1, <1>2, <1>3 DEF Same, TypesInv
<1> QED
  BY <1>1, <1>2, <1>3, <1>4, <1>8, <1>9, <1>10, <1>11, StepFits DEF TypesInv

LEMMA CloseKeeps ==
  ASSUME IInv, NEW e \in Exchanges, Close(e)
  PROVE  IInv'
<1>1. TypesInv /\ SocketsFit(e) /\ AnswerFits(e) /\ CommandFits(e)
  BY DEF IInv
<1>2. /\ sv[e] = "close" /\ Alive(To(kind[e])) /\ kind[e] # "none"
      /\ UNCHANGED << kind, cl, up, down, acts, answer, response, first, ended >>
      /\ sv' = [sv EXCEPT ![e] = "done"] /\ sv'[e] = "done" /\ reset' \subseteq Exchanges
  BY <1>1 DEF Close, Handling, SocketsFit, TypesInv
<1>3. SocketsOf(e) /\ SocketsFit(e)'
  <2>1. CASE Revoker(kind[e])
    <3>1. HasSocket(e) /\ HasSocket(e)' /\ open' = open
      BY <1>2, <2>1 DEF HasSocket, Close
    <3> QED
      BY <1>2, <3>1, ServeSockets
  <2>2. CASE ~Revoker(kind[e])
    <3>1. ~HasSocket(e)' /\ open' = Closed(To(kind[e]), e)
      BY <1>2, <2>2 DEF HasSocket, Close
    <3> QED
      BY <1>2, <3>1, ServeSockets
  <2> QED
    BY <2>1, <2>2
<1>4. AnswerFits(e)'
  BY <1>1, <1>2, ServeAnswer DEF AnswerFits
<1>5. CommandFits(e)'
  BY <1>1, <1>2 DEF CommandFits, Known, Whole
<1>6. \A d \in Exchanges \ {e} : Same(d)
  BY <1>1, <1>2 DEF Same, TypesInv
<1> QED
  BY <1>1, <1>2, <1>3, <1>4, <1>5, <1>6, StepFits DEF TypesInv

\* The first recv.
LEMMA FirstPiece ==
  ASSUME IInv, NEW e \in Exchanges, sv[e] = "recv", kind[e] # "none", NEW n \in Pieces(e)
  PROVE  /\ kind[e] \in AllKinds \ {"probe"} /\ up[e] = Message(kind[e])
         /\ n \in Nat \ {0} /\ n \in 1 .. Len(Message(kind[e]))
<1>1. TypesInv /\ CommandFits(e)
  BY DEF IInv
<1>2. up[e] = Message(kind[e])
  BY <1>1 DEF CommandFits
<1>3. n \in 1 .. Len(up[e]) /\ Len(up[e]) \in Nat
  BY PieceIs, LenProperties DEF Strings
<1>4. kind[e] # "probe"
  <2>1. kind[e] = "probe" => up[e] = << >>
    BY <1>2, MessageType DEF AllKinds
  <2>2. Len(<< >>) = 0
    OBVIOUS
  <2> QED
    BY <1>3, <2>1, <2>2
<1>5. kind[e] \in AllKinds
  BY <1>1 DEF TypesInv
<1> QED
  BY <1>2, <1>3, <1>4, <1>5

LEMMA ReceiveCommandKeeps ==
  ASSUME IInv, NEW e \in Exchanges, ReceiveCommand(e)
  PROVE  IInv'
<1> DEFINE k == kind[e]
<1>1. TypesInv /\ SocketsFit(e) /\ AnswerFits(e) /\ CommandFits(e)
  BY DEF IInv
<1>2. /\ sv[e] = "recv" /\ Alive(To(k)) /\ k # "none" /\ first[e] = 0
      /\ UNCHANGED << kind, cl, down, answer, response, reset >>
  BY <1>1 DEF ReceiveCommand, Handling, SocketsFit, CommandFits
<1>3. ASSUME sv'[e] \in {"close", "answer", "loop"}
      PROVE  AnswerFits(e)'
  <2>1. sv[e] # "done" /\ answer[e] = << >> /\ answer[e] = response[e] \o down[e]
    BY <1>1, <1>2 DEF AnswerFits
  <2> QED
    BY <1>2, <2>1, ServeAnswer
<1>4. ASSUME sv'[e] \in {"close", "answer", "loop"}, UNCHANGED << open, ended >> \/ End(To(k))
      PROVE  SocketsOf(e) /\ SocketsFit(e)'
  <2>1. HasSocket(e) /\ HasSocket(e)'
    BY <1>2, <1>4 DEF HasSocket
  <2> QED
    BY <1>2, <1>4, <2>1, ServeSockets
<1>5. CASE up[e] = << >> /\ sv' = [sv EXCEPT ![e] = "close"] /\ UNCHANGED << acts, first, up, open, ended >>
  <2>1. sv'[e] = "close"
    BY <1>1, <1>5 DEF TypesInv
  <2>2. CommandFits(e)'
    <3>1. ~Known(e)'
      BY <1>2, <1>5 DEF Known
    <3> QED
      BY <2>1, <3>1 DEF CommandFits
  <2>3. \A d \in Exchanges \ {e} : Same(d)
    BY <1>1, <1>2, <1>5 DEF Same, TypesInv
  <2> QED
    BY <1>1, <1>2, <1>3, <1>4, <1>5, <2>1, <2>2, <2>3, StepFits DEF TypesInv
<1>6. ASSUME NEW n \in Pieces(e), NEW a, a = Parse(SubSeq(up[e], 1, n)),
             acts' = [acts EXCEPT ![e] = a], first' = [first EXCEPT ![e] = n], Take(e, n), Terminate(e, n),
             sv' = [sv EXCEPT ![e] = IF a.command # Command[k] THEN "close"
                                     ELSE IF k # "write" THEN "answer"
                                     ELSE IF a.name = << >> THEN "close" ELSE "loop"]
      PROVE  IInv'
  <2>1. /\ k \in AllKinds \ {"probe"} /\ up[e] = Message(k)
        /\ n \in Nat \ {0} /\ n \in 1 .. Len(Message(k))
    BY <1>2, FirstPiece
  <2>2. /\ IsPrefix(a.name, Words(k).name) /\ IsPrefix(a.offset, Words(k).offset)
        /\ n >= Len(Header(k)) =>
             /\ a.name = Words(k).name /\ a.offset = Words(k).offset
             /\ IF k = "write" THEN a.data \o SubSeq(Message(k), n + 1, Len(Message(k))) = Data
                ELSE a.data = << >>
        /\ a \in Acts
    BY <1>6, <2>1, WordsOfPart
  <2>3. /\ acts'[e] = a /\ first'[e] = n
        /\ sv'[e] = IF a.command # Command[k] THEN "close"
                    ELSE IF k # "write" THEN "answer"
                    ELSE IF a.name = << >> THEN "close" ELSE "loop"
    BY <1>1, <1>6 DEF TypesInv
  <2> DEFINE y == SubSeq(Message(k), n + 1, Len(Message(k)))
  <2>4. up' = [up EXCEPT ![e] = y] /\ y \in Strings
    <3>1. Message(k) \in Strings
      BY <2>1, MessageType
    <3>2. y \in Strings
      BY <2>1, <3>1, TakenAndLeft
    <3> QED
      BY <1>1, <2>1, <3>2, <1>6 DEF Take, TypesInv
  <2> HIDE DEF y
  <2>5. up'[e] = y
    BY <1>1, <2>4 DEF TypesInv
  <2>6. sv'[e] \in {"close", "answer", "loop"}
    BY <2>3
  <2>7. SocketsOf(e) /\ SocketsFit(e)'
    BY <1>4, <1>6, <2>6 DEF Terminate
  <2>8. CommandFits(e)'
    <3>1. kind'[e] = k
      BY <1>2
    <3>2. sv'[e] = "loop" => k = "write" /\ a.command = Command[k]
      BY <2>3
    <3>3. Known(e)' <=> a.command = Command[k]
      BY <2>1, <2>3, <3>1 DEF Known
    <3>4. Whole(e)' <=> n >= Len(Header(k))
      BY <2>3, <3>1 DEF Whole
    <3>5. Words(k).name = Name /\ Words(k).data = IF k = "write" THEN Data ELSE << >>
      BY DEF Words
    <3>6. ASSUME Known(e)', Whole(e)'
          PROVE  IF sv'[e] = "loop" THEN a.data \o y = Words(k).data ELSE a.data = Words(k).data
      <4>1. CASE k = "write"
        <5>1. a.name # << >>
          <6>1. a.name = Name
            BY <2>2, <3>4, <3>5, <3>6
          <6>2. Len(Name) = 1 /\ Len(<< >>) = 0
            BY DEF Name
          <6> QED
            BY <6>1, <6>2
        <5>2. sv'[e] = "loop"
          BY <2>3, <3>3, <3>6, <4>1, <5>1
        <5> QED
          BY <2>2, <3>4, <3>5, <3>6, <4>1, <5>2 DEF y
      <4>2. CASE k # "write"
        BY <2>2, <3>2, <3>4, <3>5, <3>6, <4>2
      <4> QED
        BY <4>1, <4>2
    <3>7. sv'[e] \notin {"none", "refused", "recv"}
      BY <2>6
    <3> QED
      BY <2>2, <2>3, <2>5, <3>1, <3>2, <3>3, <3>4, <3>6, <3>7 DEF CommandFits
  <2>9. \A d \in Exchanges \ {e} : Same(d)
    BY <1>1, <1>2, <1>6, <2>4 DEF Same, TypesInv
  <2>10. /\ up' \in [Exchanges -> Strings] /\ acts' \in [Exchanges -> Acts] /\ first' \in [Exchanges -> Nat]
         /\ sv' \in [Exchanges -> {"none", "refused", "recv", "loop", "answer", "close", "done"}]
    <3>1. sv' = [sv EXCEPT ![e] = sv'[e]]
      BY <1>6, <2>3
    <3> QED
      BY <1>1, <1>6, <2>1, <2>2, <2>4, <2>6, <3>1 DEF TypesInv
  <2>11. AnswerFits(e)'
    BY <1>3, <2>6
  <2> QED
    BY <1>1, <1>2, <2>7, <2>8, <2>9, <2>10, <2>11, StepFits DEF TypesInv
<1> QED
  BY <1>5, <1>6 DEF ReceiveCommand

LEMMA ReceiveDataKeeps ==
  ASSUME IInv, NEW e \in Exchanges, ReceiveData(e)
  PROVE  IInv'
<1> DEFINE k == kind[e]
<1>1. TypesInv /\ SocketsFit(e) /\ AnswerFits(e) /\ CommandFits(e)
  BY DEF IInv
<1>2. /\ sv[e] = "loop" /\ Alive(To(k)) /\ k = "write" /\ Known(e)
      /\ UNCHANGED << kind, cl, down, answer, response, first, reset >>
  BY <1>1 DEF ReceiveData, Handling, SocketsFit, CommandFits
<1>3. acts[e] \in Acts /\ acts[e].data \in Strings /\ acts[e].name \in Strings /\ acts[e].offset \in Strings
  BY <1>1 DEF TypesInv, Acts
<1>4. ASSUME sv'[e] \in {"close", "loop"}
      PROVE  AnswerFits(e)'
  <2>1. sv[e] # "done" /\ answer[e] = << >> /\ answer[e] = response[e] \o down[e]
    BY <1>1, <1>2 DEF AnswerFits
  <2> QED
    BY <1>2, <2>1, ServeAnswer
<1>5. ASSUME sv'[e] \in {"close", "loop"}, UNCHANGED << open, ended >> \/ End(To(k))
      PROVE  SocketsOf(e) /\ SocketsFit(e)'
  <2>1. HasSocket(e) /\ HasSocket(e)'
    BY <1>2, <1>5 DEF HasSocket
  <2> QED
    BY <1>2, <1>5, <2>1, ServeSockets
<1>6. CASE up[e] = << >> /\ sv' = [sv EXCEPT ![e] = "close"] /\ UNCHANGED << acts, up, open, ended >>
  <2>1. sv'[e] = "close"
    BY <1>1, <1>6 DEF TypesInv
  <2>2. CommandFits(e)'
    <3>1. acts[e].data \o up[e] = acts[e].data
      BY <1>3, <1>6, ConcatEmptySeq DEF Strings
    <3> QED
      BY <1>1, <1>2, <1>6, <2>1, <3>1 DEF CommandFits, Known, Whole
  <2>3. \A d \in Exchanges \ {e} : Same(d)
    BY <1>1, <1>2, <1>6 DEF Same, TypesInv
  <2> QED
    BY <1>1, <1>2, <1>4, <1>5, <1>6, <2>1, <2>2, <2>3, StepFits DEF TypesInv
<1>7. ASSUME NEW n \in Pieces(e), acts' = [acts EXCEPT ![e].data = @ \o SubSeq(up[e], 1, n)],
             Take(e, n), Terminate(e, n), UNCHANGED sv
      PROVE  IInv'
  <2> DEFINE x == acts[e].data \o SubSeq(up[e], 1, n)
             y == SubSeq(up[e], n + 1, Len(up[e]))
  <2>1. x \in Strings /\ y \in Strings /\ x \o y = acts[e].data \o up[e]
    BY <1>3, PieceIs, TakenAndLeft
  <2>2. acts' = [acts EXCEPT ![e] = [acts[e] EXCEPT !.data = x]] /\ up' = [up EXCEPT ![e] = y]
    BY <1>7 DEF Take
  <2> HIDE DEF x, y
  <2> DEFINE a == [acts[e] EXCEPT !.data = x]
  <2>3. a \in Acts /\ a.data = x /\ a.name = acts[e].name /\ a.offset = acts[e].offset /\ a.command = acts[e].command
    BY <1>3, <2>1 DEF Acts
  <2> HIDE DEF a
  <2>4. acts'[e] = a /\ up'[e] = y
    BY <1>1, <2>2 DEF TypesInv, a
  <2>5. sv'[e] = "loop"
    BY <1>2, <1>7
  <2>6. SocketsOf(e) /\ SocketsFit(e)'
    BY <1>5, <1>7, <2>5 DEF Terminate
  <2>7. CommandFits(e)'
    <3>1. Known(e)' /\ (Whole(e)' <=> Whole(e)) /\ kind'[e] = k
      BY <1>2, <2>3, <2>4 DEF Known, Whole
    <3>2. /\ IsPrefix(a.name, Words(k).name) /\ IsPrefix(a.offset, Words(k).offset)
          /\ Whole(e) => a.name = Words(k).name /\ a.offset = Words(k).offset /\ a.data \o y = Words(k).data
      BY <1>1, <1>2, <2>1, <2>3 DEF CommandFits
    <3> QED
      BY <1>2, <2>4, <2>5, <3>1, <3>2 DEF CommandFits
  <2>8. \A d \in Exchanges \ {e} : Same(d)
    BY <1>1, <1>2, <1>7, <2>2 DEF Same, TypesInv
  <2>9. up' \in [Exchanges -> Strings] /\ acts' \in [Exchanges -> Acts]
    BY <1>1, <2>1, <2>2, <2>3 DEF TypesInv, a
  <2> QED
    BY <1>1, <1>2, <1>4, <1>7, <2>5, <2>6, <2>7, <2>8, <2>9, StepFits DEF TypesInv
<1> QED
  BY <1>6, <1>7 DEF ReceiveData

LEMMA ReceiveKeeps ==
  ASSUME IInv, NEW e \in Exchanges, Receive(e)
  PROVE  IInv'
<1>1. TypesInv
  BY DEF IInv
<1>2. CASE ReceiveAnswer(e)
  BY <1>2, AnswerKeeps DEF ReceiveAnswer, Unanswered
<1>3. CASE ReceiveToEnd(e)
  <2>1. kind[e] \notin {"call", "revoke"}
    BY <1>3 DEF ReceiveToEnd
  <2>2. CASE down[e] = << >> /\ ServerClosed(e) /\ Finish(e) /\ UNCHANGED << down, response >>
    <3>1. down'[e] = << >> /\ (sv[e] = "done" \/ ~Alive(To(kind[e])))
      BY <2>2 DEF ServerClosed
    <3> QED
      BY <1>3, <2>1, <2>2, <3>1, AnswerKeeps DEF ReceiveToEnd
  <2>3. CASE (\E n \in 1 .. Len(down[e]) : Received(e, n)) /\ UNCHANGED << cl, open, ended >>
    BY <1>3, <2>3, AnswerKeeps DEF ReceiveToEnd
  <2>4. CASE Unanswered(e)
    BY <1>3, <2>4, AnswerKeeps DEF ReceiveToEnd, Unanswered
  <2> QED
    BY <1>3, <2>2, <2>3, <2>4 DEF ReceiveToEnd
<1> QED
  BY <1>2, <1>3 DEF Receive
-----------------------------------------------------------------------------
(* The invariant, and what follows from it.                                 *)

LEMMA InitFits == Init => IInv
<1> SUFFICES ASSUME Init PROVE IInv
  OBVIOUS
<1>1. << >> \in Strings /\ NoActs \in Acts
  BY DEF Strings, NoActs, Acts
<1>2. TypesInv
  BY <1>1 DEF Init, TypesInv
<1>3. TablesInv
  <2>1. IsFiniteSet({}) /\ Cardinality({}) = 0
    BY FS_EmptySet
  <2>2. \A p \in Processes : open[p] = {}
    BY DEF Init
  <2> QED
    BY <2>1, <2>2, BufferAssumption DEF TablesInv
<1>4. ASSUME NEW e \in Exchanges
      PROVE  SocketsFit(e) /\ AnswerFits(e) /\ CommandFits(e)
  <2>1. /\ kind[e] = "none" /\ cl[e] = "new" /\ sv[e] = "none" /\ first[e] = 0
        /\ answer[e] = << >> /\ response[e] = << >> /\ down[e] = << >>
        /\ \A p \in Processes : e \notin open[p]
    BY DEF Init
  <2>2. From("none") \in Processes /\ To("none") \in Processes
    BY EndsOf
  <2>3. << >> \o << >> = << >>
    BY <1>1, ConcatEmptySeq DEF Strings
  <2>4. SocketsFit(e)
    BY <2>1, <2>2 DEF SocketsFit
  <2>5. AnswerFits(e)
    BY <2>1, <2>3 DEF AnswerFits
  <2>6. ~Known(e)
    BY <2>1 DEF Known
  <2>7. CommandFits(e)
    BY <2>1, <2>6 DEF CommandFits
  <2> QED
    BY <2>4, <2>5, <2>7
<1> QED
  BY <1>2, <1>3, <1>4 DEF IInv

LEMMA NextKeeps == IInv /\ [Next]_vars => IInv'
<1> SUFFICES ASSUME IInv, [Next]_vars PROVE IInv'
  OBVIOUS
<1>1. ASSUME NEW e \in Exchanges, NEW k \in Makes[e], Send(e, k)
      PROVE  IInv'
  BY <1>1, SendKeeps
<1>2. ASSUME NEW e \in Exchanges, Serve(e)
      PROVE  IInv'
  BY <1>2, AcceptKeeps, ReceiveCommandKeeps, ReceiveDataKeeps, SendAnswerKeeps, CloseKeeps DEF Serve
<1>3. ASSUME NEW e \in Exchanges, Receive(e)
      PROVE  IInv'
  BY <1>3, ReceiveKeeps
<1>4. CASE UNCHANGED vars
  BY <1>4 DEF vars, IInv, TypesInv, TablesInv, SocketsFit, AnswerFits, CommandFits, Known, Whole, Alive
<1> QED
  BY <1>1, <1>2, <1>3, <1>4 DEF Next

\* Every reachable state satisfies the inductive invariant.
THEOREM Invariant == Spec => []IInv
<1> QED
  BY InitFits, NextKeeps, PTL DEF Spec

\* The states of the connections have their types, and no process has more sockets open
\* than it has descriptors.
THEOREM TypeCorrect == Spec => []TypeOK
<1>1. IInv => TypeOK
  BY DEF IInv, TypesInv, TablesInv, TypeOK
<1> QED
  BY <1>1, Invariant, PTL

LEMMA BeginningOf ==
  ASSUME NEW r \in Strings, NEW d \in Strings
  PROVE  IsPrefix(r, r \o d)
<1>1. /\ Len(r) \in Nat /\ Len(d) \in Nat /\ r \o d \in Strings /\ Len(r \o d) = Len(r) + Len(d)
      /\ \A i \in 1 .. Len(r) + Len(d) : (r \o d)[i] = IF i <= Len(r) THEN r[i] ELSE d[i - Len(r)]
  BY LenProperties, ConcatProperties DEF Strings
<1> DEFINE s == r \o d
<1>2. \A i \in 1 .. Len(r) : r[i] = s[1 + i - 1]
  BY <1>1
<1>3. s \in Strings /\ Len(s) \in Nat /\ Len(r) <= Len(s)
  BY <1>1
<1> HIDE DEF s
<1>4. SubSeq(s, 1, Len(r)) = r
  <2>1. 1 \in 1 .. Len(s) + 1 /\ Len(r) \in 1 - 1 .. Len(s) /\ Len(r) = Len(r) - 1 + 1
    BY <1>1, <1>3
  <2> QED
    BY <1>2, <1>3, <2>1, PartIs
<1>5. SubSeq(r, 1, Len(r)) = r
  BY SubSeqFull DEF Strings
<1> QED
  BY <1>3, <1>4, <1>5 DEF IsPrefix, s

\* A server acts on the name, the offset and the data it was sent, in however many pieces
\* they came, once its first recv had the header, and else on the beginnings of them; the
\* loop of a read has received the whole answer of the server, and a call the beginning of
\* it, never nothing.
THEOREM ActsOnWhatWasSent == Spec => []ReceivedAsSent
<1>1. IInv => ReceivedAsSent
  <2> SUFFICES ASSUME IInv PROVE ReceivedAsSent
    OBVIOUS
  <2>1. ActsAsAsked
    <3> SUFFICES ASSUME NEW e \in Exchanges,
                        first[e] > 0, sv[e] \in {"answer", "close", "done"},
                        acts[e].command = Command[kind[e]]
                 PROVE  LET a == acts[e]  w == Words(kind[e])
                        IN /\ IsPrefix(a.name, w.name) /\ IsPrefix(a.offset, w.offset)
                           /\ Whole(e) => a.name = w.name /\ a.offset = w.offset /\ a.data = w.data
      BY DEF ActsAsAsked
    <3>1. CommandFits(e) /\ Known(e) /\ sv[e] # "loop"
      BY DEF IInv, Known
    <3> QED
      BY <3>1 DEF CommandFits
  <2>2. ReceivesAnswer
    <3> SUFFICES ASSUME NEW e \in Exchanges, cl[e] = "done", Waits(kind[e])
                 PROVE  IF kind[e] \in {"call", "revoke"} THEN response[e] # << >> /\ IsPrefix(response[e], answer[e])
                        ELSE response[e] = answer[e]
      BY DEF ReceivesAnswer
    <3>1. response[e] \in Strings /\ down[e] \in Strings /\ AnswerFits(e)
      BY DEF IInv, TypesInv
    <3>2. IsPrefix(response[e], answer[e])
      BY <3>1, BeginningOf DEF AnswerFits
    <3>3. response[e] \o << >> = response[e]
      BY <3>1, ConcatEmptySeq DEF Strings
    <3> QED
      BY <3>1, <3>2, <3>3 DEF AnswerFits
  <2> QED
    BY <2>1, <2>2 DEF ReceivedAsSent
<1> QED
  BY <1>1, Invariant, PTL

\* Each side of an exchange has a socket for it until it is done with it and no longer,
\* but for the revoker, which keeps those it accepts, and a refused probe, which keeps the
\* one it was made with.
THEOREM SocketsReturned == Spec => []DescriptorsReturned
<1>1. IInv => DescriptorsReturned
  BY DEF IInv, SocketsFit, DescriptorsReturned
<1> QED
  BY <1>1, Invariant, PTL
=============================================================================
