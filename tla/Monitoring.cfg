SPECIFICATION FairSpec
CONSTANTS
  x = x
  y = y
  Drps = {x, y}
  Common = x
  NumTebs = 2
  NumMebs = 2
  NumBufs = 1
  TrBuffers = 1
  Reserved = 0
  Wants = {{0, 1}}
  MaxPid = 3
  MaxFails = 2
  MaxConfigs = 2
  Ways = {"connect"}
CHECK_DEADLOCK FALSE
INVARIANT BuffersApart
INVARIANT HeldIntact
INVARIANT RequestsMatched
PROPERTY PulseIdAdvances
PROPERTY MonitoredArrive
