SPECIFICATION FairSpec
CONSTANTS
  p1 = p1
  p2 = p2
  p3 = p3
  Clients = {p1, p2, p3}
  Mortal = {p1}
  Ops <- TwoOfThree
  NumPorts = 2
  MaxCalls = 3
  NoCall = NoCall
INVARIANTS TypeOK BelievesRecorded DirtyHasReason
PROPERTIES RevokesOwner CallsEnd
CHECK_DEADLOCK FALSE
