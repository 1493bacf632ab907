SPECIFICATION FairSpec
CONSTANTS
  Namespace = {x, y}
  Request = {r1, r2}
  Conn = {c1, c2}
  MaxSwarm = 3
  MaxTrouble = 1
  None = None
INVARIANTS TypeOK OneSwarm PoolIsOfNamespace
PROPERTIES ChangeIsAnswered CloseEnds
CHECK_DEADLOCK FALSE
