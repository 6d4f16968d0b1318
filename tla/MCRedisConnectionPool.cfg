CONSTANTS
  t1 = t1
  t2 = t2
  t3 = t3
  Threads <- ThreeThreads
  PoolSize = 1
SPECIFICATION FairSpec
PROPERTY CallsServed
