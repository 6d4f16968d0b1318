CONSTANTS
  t1 = t1
  t2 = t2
  t3 = t3
  Threads <- TwoThreads
  PoolSize = 1
  ConnectFailures <- MysqlFailures
  PingRevives = FALSE
  CleanupMayReconnect = TRUE
SPECIFICATION Spec
INVARIANT BorrowedNotNull
