SPECIFICATION Spec
CONSTANTS
  x = x
  y = y
  Drps = {x, y}
  Common = x
  Contractors = {x, y}
  NumTebs = 2
  MaxPid = 4
  Kinds = {"l1accept", "slowupdate", "transition"}
  MaxEntries = 2
  NumBuffers = 5
  DrpStart = 2
  TebStart = 4
  Window = 4
  TrBuffers = 2
CHECK_DEADLOCK FALSE
INVARIANT DeliveredInSequence
