SPECIFICATION FairSpec
CONSTANTS
    NumEbs = 1
    NumBds = 3
    NumEvents = 6
    StepSets = {{1, 6}, {1, 3}}
    ChunkSize = 2
    BatchSizes = {1}
    Destined = {TRUE}
    Mixed = FALSE
    Eager = {TRUE, FALSE}
    MayTerminate = TRUE
INVARIANT EventsPlaced
INVARIANT EventsDelivered
PROPERTY EveryRankEnds
CHECK_DEADLOCK FALSE
