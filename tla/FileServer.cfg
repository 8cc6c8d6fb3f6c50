SPECIFICATION Spec
CONSTANTS
  t1 = t1
  t2 = t2
  t3 = t3
  Threads = {t1, t2, t3}
  Blocks <- Blocks2
  MaxRequests = 4
INVARIANTS TypeOK OnlyLiveWrites KeepsLastWrite ReadsItsBlock
SYMMETRY Symmetry
CHECK_DEADLOCK FALSE
