CONSTANTS
  p1 = p1
  p2 = p2
  p3 = p3
  Producers <- ThreeProducers
  Scripts <- MixedScripts
  BufferSize = 4
  Threshold = 8
  Increment = 2
SPECIFICATION FairSpec
INVARIANTS TypeOK BuffersHold NoProducerStranded
PROPERTIES ImplementsLogChannel FlushedWhileBounded PushReturnsWhileBounded StopReturnsWhileBounded
CHECK_DEADLOCK FALSE
