SPECIFICATION FairSpec
CONSTANTS
  Node = {1, 2}
  a1 = a1
  a2 = a2
  b2 = b2
  Address = {a1, a2}
  HostOf <- OneEach
  Conn = {c1, c2, c3}
  MaxRetries = 1
  MaxTroubles = 1
  None = None
INVARIANTS TypeOK OnePerPeer NobodyIsForgotten SameConnection
PROPERTIES PairConnects
CHECK_DEADLOCK FALSE
