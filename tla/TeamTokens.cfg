SPECIFICATION FairSpec
CONSTANTS
  t1 = t1
  t2 = t2
  Free = Free
  Threads = {t1, t2}
  Jobs <- TeamJobs
  MaxCalls = 3
  Revocations <- TeamRevocations
  MaxRevokes = 1
  Deletable = FALSE
INVARIANTS ExcessOnlyMissed SurprisedByRevoker
PROPERTIES ChangesAreExact AddEnds
CHECK_DEADLOCK FALSE
