SPECIFICATION Spec
CONSTANTS
  NoKey = NoKey
  BlockNumbers <- Blocks4
  StripeWidth = 1
  STRIP_SIZE = 2
  BUFFER_CACHE_CAPACITY = 3
  FREE_LIST_MIN_T = 1
  FREE_LIST_MAX_T = 2
  MaxCalls = 5
  MaxWrites = 2
  MaxRevokes = 0
PROPERTY HarvestsOldest
CHECK_DEADLOCK FALSE
