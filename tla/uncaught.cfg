SPECIFICATION Spec
CONSTANTS
  Peer = {p1}
  Single = {s1}
  Multi = {m1}
  MaxRetry = 1
  MaxSafe = 1
  MaxChange = 1
  None = None
INVARIANTS ErrorsAreCaught
CHECK_DEADLOCK FALSE
