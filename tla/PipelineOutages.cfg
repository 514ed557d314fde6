SPECIFICATION Spec
CONSTANTS
    a1 = a1
    a2 = a2
    t1 = t1
    t2 = t2
    h1 = h1
    h2 = h2
    s1 = s1
    s2 = s2
    none = none
    NoSlot <- none
    Address <- OneAddress
    Tx <- MCTx
    BlockOf <- MCBlockOf
    PartiesOf <- OwnTxs
    CreatedAt <- NoContract
    FirstHead = 1
    MaxBlock = 1
    Handler <- OneHandler
    Query <- OpenQuery
    Slot <- OneSlot
    MaxBlocksPerJob = 2
    BatchSize = 1
    ChunkSize = 2
    MaxAttempts = 2
    MaxStalled = 1
    TimeoutBlocks = 9
    Outages = TRUE
    JobFaults = TRUE
    RpcFaults = FALSE
    MaxMishaps = 1
    Evicting = FALSE
INVARIANTS
    DatabaseRepliesComplete
PROPERTIES
    ImplementsIndex
