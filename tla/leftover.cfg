SPECIFICATION Spec
CONSTANTS
  Node = {n1, n2}
  Operators = {n1}
  Version = {v1, v2}
  Task = {t1, t2}
  TasksOf <- ShrinkingTasks
  Small = {v2}
  Gone = t2
  Request = {r1, r2}
  MaxConn = 1
  MaxRestart = 0
  Allowed = {}
  None = None
  Torn = Torn
INVARIANTS RoutedPeersAreCurrent
CHECK_DEADLOCK FALSE
