SPECIFICATION Spec
CONSTANTS
    LastBlock = 7
    GapLists <- MCGapLists
    TimedOut <- MCTimedOut
    MaxBlocksPerJob = 3
    ChunkSize = 2
    SmallSize = 1
    MediumSize = 2
    Concurrency = 2
    Rate = 1
    MaxStalled = 1
    MaxMishaps = 2
    MaxFollowed = 3
INVARIANTS
    TypeOK
    JobsPartition
    PiecesAsSpecified
    QuietExit
PROPERTIES
    ShutdownEnds
    JobsDrain
