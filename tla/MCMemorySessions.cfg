CONSTANTS
  t1 = t1
  t2 = t2
  t3 = t3
  id1 = id1
  id2 = id2
  NoId = none
  Threads <- ThreeThreads
  Ids <- TwoIds
  Timeout = 1
  MaxTime = 2
SYMMETRY Symmetry
CONSTRAINT NoRaceYet
SPECIFICATION Spec
INVARIANTS TypeOK UsedIsStored DestroyedIsGoneIfUnshared
CHECK_DEADLOCK FALSE
