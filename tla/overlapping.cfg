SPECIFICATION Spec
CONSTANTS
  Node = {n1, n2}
  Operators = {n1}
  Version = {v1, v2}
  Task = {t1}
  TasksOf <- AllTasks
  Small = {}
  Gone = t2
  Request = {r1, r2}
  MaxConn = 1
  MaxRestart = 0
  Allowed = {"init", "sync", "join", "overlap", "spread", "close", "drop", "clear"}
  None = None
  Torn = Torn
INVARIANTS TypeOK StallHasCause LinkFollowsDigest
SYMMETRY Symmetry
CHECK_DEADLOCK FALSE
