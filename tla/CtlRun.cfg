SPECIFICATION FairSpec
CONSTANTS
  d = d
  t = t
  Drps = {d}
  Tebs = {t}
  Mebs = {}
  Firsts = {"reset", "configured"}
  Records = TRUE
  Goals = {"running", "unallocated"}
  PutFaults = {"refused"}
  MaxSent = 5
  MaxSlow = 6
  MaxFaults = 1
CHECK_DEADLOCK FALSE
INVARIANT TypeOK
INVARIANT TriggersNeedEnable
INVARIANT SlowUpdatesEnabled
PROPERTY InsertedWhenHandled
PROPERTY QuietTransitions
PROPERTY RequestsEnd
