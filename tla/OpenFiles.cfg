SPECIFICATION FairSpec
CONSTANTS
  f1 = f1
  f2 = f2
  t1 = t1
  t2 = t2
  NoFile = NoFile
  Free = Free
  Orphan = Orphan
  Files = {f1, f2}
  Threads = {t1, t2}
  MAX_NUM_FILES = 2
  Widths = {2}
  MaxCalls = 5
  MaxRevokes = 1
INVARIANTS TypeOK DescriptorsStand LostOnlyBehindDescriptor
PROPERTY CallsReturn
CHECK_DEADLOCK FALSE
