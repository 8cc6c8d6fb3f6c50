SPECIFICATION FairSpec
CONSTANTS
  NoKey = NoKey
  BlockNumbers <- Blocks2
  StripeWidth = 1
  STRIP_SIZE = 1
  BUFFER_CACHE_CAPACITY = 2
  FREE_LIST_MIN_T = 1
  FREE_LIST_MAX_T = 2
  MaxCalls = 4
  MaxWrites = 2
  MaxRevokes = 1
INVARIANTS TypeOK CleanWasSent IteratorsLive StaleOnlyAfterRevoke
PROPERTY DirtyIsFlushed
CHECK_DEADLOCK FALSE
