CONSTANTS
  t1 = t1
  t2 = t2
  t3 = t3
  Threads <- ThreeThreads
  PoolSize = 2
  ConnectFailures <- MysqlFailures
  PingRevives = FALSE
  CleanupMayReconnect = TRUE
SPECIFICATION FairSpec
INVARIANTS TypeOK ExclusiveOwner NoneLost NoLostWakeup
PROPERTIES ImplementsResourcePool CallsServed
