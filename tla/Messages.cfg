SPECIFICATION FairSpec
CONSTANTS
  x1 = x1
  x2 = x2
  x3 = x3
  Exchanges = {x1, x2, x3}
  Makes <- BesideRevocation
  RCVBUFSIZE = 9
  MaxDescriptors = 2
INVARIANTS TypeOK ReceivedAsSent DescriptorsReturned
PROPERTY ExchangesEnd
CHECK_DEADLOCK FALSE
