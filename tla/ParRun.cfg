SPECIFICATION FairSpec
CONSTANTS
    NumEbs = 2
    NumBds = 3
    NumEvents = 4
    StepSets = {{1, 4}}
    ChunkSize = 2
    BatchSizes = {1, 2}
    Destined = {FALSE}
    Mixed = FALSE
    Eager = {FALSE}
    MayTerminate = TRUE
INVARIANT StepsInContext
PROPERTY EveryRankEnds
CHECK_DEADLOCK FALSE
