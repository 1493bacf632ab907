SPECIFICATION Spec
CONSTANTS
  Peer = {p1, p2}
  Single = {s1, s2}
  Multi = {m1}
  MaxRetry = 1
  MaxSafe = 3
  MaxChange = 1
  None = None
INVARIANTS TypeOK TurnsAreEven CrashHasCause BroadcastComplete ProcessingIsTrue
  NoCallIsForgotten
PROPERTIES RouterKeepsPromise
SYMMETRY Symmetry
CHECK_DEADLOCK FALSE
