SPECIFICATION Spec
CONSTANTS
  f1 = f1
  c1 = c1
  c2 = c2
  c3 = c3
  t1 = t1
  t2 = t2
  Free = Free
  Orphan = Orphan
  NoRequest = NoRequest
  Files = {f1}
  Clients = {c1, c2}
  Threads = {t1, t2}
  NumServers = 2
  MaxRequests = 4
  Fragile = {}
  Mortal = {c1, c2}
  Requests <- TokenInstance
INVARIANTS TypeOK LocksNest WriteTokensDisjoint RecordedOnServers
PROPERTY ImplementsTokenTable
SYMMETRY Symmetry
CHECK_DEADLOCK FALSE
