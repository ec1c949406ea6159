SPECIFICATION Spec
CONSTANTS
  MaxRun = 2
  MaxSent = 10
  MaxEvents = 3
  Depth = 1
  Thresh = 1
  Faults = {"open", "phase2", "reopen"}
  MaxFaults = 1
CHECK_DEADLOCK FALSE
 
INVARIANT ChunksChained
INVARIANT OffsetsFindDgrams
 
