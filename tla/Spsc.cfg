SPECIFICATION FairSpec
CONSTANTS
  Capacity = 2
  MaxPush = 5
  Null = Null
INVARIANT TypeOK
INVARIANT NoLostWakeup
INVARIANT SlotsKept
PROPERTY IsFifo
