SPECIFICATION Spec
CONSTANTS
  Sources = {x, y}
  x = x
  y = y
  MaxPid = 4
  Contracts = {{x}, {x, y}}
  Duration = 2
  NumEpochs = 2
  NumEvents = 2
  Window = 3
  Lossy = TRUE
  Late = TRUE
CHECK_DEADLOCK FALSE
INVARIANT NoDoubleDelivery
INVARIANT LutSound
INVARIANT EpochsHoldEvents
INVARIANT NoSourceThrow
PROPERTY FixupOnlyWhenLost
