SPECIFICATION DeliverySpec
CONSTANTS
  Node = {n1, n2}
  Operators = {n1}
  Version = {v1, v2}
  Task = {t1, t2}
  TasksOf <- AllTasks
  Small = {}
  Gone = t3
  Request = {r1, r2}
  MaxConn = 2
  MaxRestart = 1
  Allowed = {"init", "spread", "sync", "close", "restart", "clear"}
  None = None
  Torn = Torn
INVARIANTS OnlyWholeTasksRun OneContentRuns RoutedPeersAreCurrent
PROPERTIES LoopMovesOn IsRollout
CHECK_DEADLOCK FALSE
