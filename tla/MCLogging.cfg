CONSTANTS
  t1 = t1
  t2 = t2
  t3 = t3
  root = root
  http = http
  b1 = b1
  Null = Null
  Threads <- ThreeThreads
  Loggers <- TwoLoggers
  Buckets <- OneBucket
  Calls <- SomeCalls
  Patterns <- SomePatterns
  PageBytes = 5
  ObjSize = 2
  MaxSize = 6
  MaxTime = 1
  MaxRestarts = 1
SPECIFICATION Spec
INVARIANTS TypeOK ObjectsExclusive NoLostWakeup LineIsRight FilesBounded
CHECK_DEADLOCK FALSE
