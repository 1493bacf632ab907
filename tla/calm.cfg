SPECIFICATION DeliverySpec
CONSTANTS
  Node = {n1, n2, n3}
  Operators = {n1}
  Version = {v1, v2}
  Task = {t1}
  TasksOf <- AllTasks
  Small = {}
  Gone = t2
  Request = {r1, r2, r3}
  MaxConn = 3
  MaxRestart = 0
  Allowed = {}
  None = None
  Torn = Torn
INVARIANTS RoutedPeersAreCurrent
PROPERTIES Converges IsRollout
CHECK_DEADLOCK FALSE
