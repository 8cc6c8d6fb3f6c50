------------------------ MODULE MC_MetadataManager ------------------------
(* Instances of MetadataManager for TLC.                                    *)
EXTENDS MetadataManager, TLC

CONSTANTS f1, c1, c2, c3, t1, t2

Range2(lo, hi) == [m_start |-> lo, m_end |-> hi]

Ranges == {Range2(0, 1), Range2(1, 2), Range2(0, 3)}

TokenRequests(files, clients, ranges) ==
  {[op |-> "request_token", file |-> f, iv |-> i, mode |-> m, cl |-> c] :
     f \in files, i \in ranges, m \in {"r", "w"}, c \in clients}

NameRequests(files, ops) == {[op |-> o, file |-> f] : o \in ops, f \in files}

CreateRequests(files, widths) == {[op |-> "create", file |-> f, width |-> w] : f \in files, w \in widths}

\* Tokens: every kind of overlap of two ranges, two clients that may exit, and every
\* other operation, with two servers and a stripe that is too wide.
TokenInstance == TokenRequests({f1}, {c1, c2}, Ranges) \union CreateRequests({f1}, {1, 2, 3})
                   \union NameRequests({f1}, {"open", "delete", "fstat"})

\* Service: a writer that may exit, a server that may stop.
ServiceInstance == TokenRequests({f1}, {c1, c2}, {Range2(0, 0)}) \union CreateRequests({f1}, {1})
                     \union NameRequests({f1}, {"delete", "fstat"})

\* Three clients that all want block 0.
ReadersInstance == TokenRequests({f1}, {c1, c2, c3}, {Range2(0, 0)}) \union CreateRequests({f1}, {1})

Symmetry == Permutations({c1, c2}) \union Permutations({t1, t2})
=============================================================================
