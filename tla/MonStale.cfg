SPECIFICATION Spec
CONSTANTS
  x = x
  y = y
  Drps = {x, y}
  Common = x
  NumTebs = 2
  NumMebs = 1
  NumBufs = 2
  TrBuffers = 1
  Reserved = 0
  Wants = {{0}}
  MaxPid = 4
  MaxFails = 0
  MaxConfigs = 2
  Ways = {"configure"}
CHECK_DEADLOCK FALSE
INVARIANT FreedOnce
