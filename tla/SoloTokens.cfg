SPECIFICATION FairSpec
CONSTANTS
  t1 = t1
  t2 = t2
  Free = Free
  Threads = {t1}
  Jobs <- SoloJobs
  MaxCalls = 3
  Revocations <- ReaderRevocations
  MaxRevokes = 2
  Deletable = TRUE
INVARIANT TypeOK
PROPERTY GetsTokens
CHECK_DEADLOCK FALSE
