SPECIFICATION FairSpec
CONSTANTS
    a1 = a1
    a2 = a2
    t1 = t1
    t2 = t2
    h1 = h1
    h2 = h2
    s1 = s1
    s2 = s2
    none = none
    NoSlot <- none
    Address <- OneAddress
    Tx <- NoTx
    BlockOf <- NoBlocks
    PartiesOf <- NoBlocks
    CreatedAt <- NoContract
    FirstHead = 2
    MaxBlock = 2
    Handler <- OneHandler
    Query <- OpenQuery
    Slot <- OneSlot
    MaxBlocksPerJob = 3
    BatchSize = 3
    ChunkSize = 2
    MaxAttempts = 2
    MaxStalled = 1
    TimeoutBlocks = 3
    Outages = FALSE
    JobFaults = TRUE
    RpcFaults = FALSE
    MaxMishaps = 1
    Evicting = FALSE
INVARIANTS
    CompletedJobsAccounted
PROPERTIES
    GapsClosed
