CONSTANTS
  t1 = t1
  t2 = t2
  id1 = id1
  admin = admin
  Threads <- TwoThreads
  Ids <- OneId
  Attributes <- OneAttribute
  PoolSize = 2
  Timeout = 1
  TicksPerSecond = 2
  MaxTime = 3
  CommandsFail = FALSE
SPECIFICATION FairSpec
PROPERTY CallsReturn
CHECK_DEADLOCK FALSE
