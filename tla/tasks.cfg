SPECIFICATION FairSpec
CONSTANTS
  Task = {t1, t2}
  Call = {i1, i2}
  Query = {q1}
  PortOffset = 10001
  Concurrency = 1
  MaxRetry = 1
  None = None
INVARIANTS TypeOK RightTask ListedPortRuns
PROPERTIES EveryQueryEnds
CHECK_DEADLOCK FALSE
