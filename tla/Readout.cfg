SPECIFICATION FairSpec
CONSTANTS
  NumLanes = 2
  NumWorkers = 2
  DmaCount = 4
  RetSize = 2
  TrBuffers = 1
  BatchSize = 2
  CntMod = 8
  WordMod = 16
  MaxEvents = 5
  Starts = {6}
  MaxLost = 1
  MaxConfigs = 2
  Skew = 1
  Faults = {"reset"}
CHECK_DEADLOCK FALSE
INVARIANT InSequence
INVARIANT SlotsIntact
INVARIANT BuffersAccounted
PROPERTY NeverStuck
