SPECIFICATION FairSpec
CONSTANTS
  x = x
  y = y
  Drps = {x, y}
  Common = x
  Contractors = {x, y}
  NumTebs = 2
  MaxPid = 4
  Kinds = {"l1accept", "transition"}
  MaxEntries = 2
  NumBuffers = 5
  DrpStart = 2
  TebStart = 4
  Window = 4
  TrBuffers = 1
CHECK_DEADLOCK FALSE
INVARIANT DeliveredInSequence
INVARIANT DeferredApart
INVARIANT NoneForgotten
PROPERTY AllDelivered
