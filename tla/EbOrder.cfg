SPECIFICATION FairSpec
CONSTANTS
  Sources = {x, y}
  x = x
  y = y
  MaxPid = 5
  Contracts = {{x}, {x, y}}
  Duration = 2
  NumEpochs = 4
  NumEvents = 4
  Window = 2
  Lossy = FALSE
  Late = FALSE
CHECK_DEADLOCK FALSE
INVARIANT InOrder
INVARIANT PoolSuffices
PROPERTY StuckOnlyBehindEmptyEpoch
