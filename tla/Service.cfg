SPECIFICATION FairSpec
CONSTANTS
  f1 = f1
  c1 = c1
  c2 = c2
  c3 = c3
  t1 = t1
  t2 = t2
  Free = Free
  Orphan = Orphan
  NoRequest = NoRequest
  Files = {f1}
  Clients = {c1, c2}
  Threads = {t1, t2}
  NumServers = 1
  MaxRequests = 4
  Fragile = {0}
  Mortal = {c1}
  Requests <- ServiceInstance
PROPERTY RequestsServed
CHECK_DEADLOCK FALSE
