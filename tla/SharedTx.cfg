SPECIFICATION Spec
CONSTANTS
    a1 = a1
    a2 = a2
    t1 = t1
    t2 = t2
    h1 = h1
    h2 = h2
    s1 = s1
    s2 = s2
    none = none
    NoSlot <- none
    Address <- TwoAddresses
    Tx <- MCTx
    BlockOf <- MCBlockOf
    PartiesOf <- SharedTxs
    CreatedAt <- NoContract
    FirstHead = 2
    MaxBlock = 2
    Handler <- OneHandler
    Query <- OpenQuery
    Slot <- OneSlot
    MaxBlocksPerJob = 2
    BatchSize = 3
    ChunkSize = 1
    MaxAttempts = 2
    MaxStalled = 1
    TimeoutBlocks = 9
    Outages = FALSE
    JobFaults = FALSE
    RpcFaults = FALSE
    MaxMishaps = 0
    Evicting = FALSE
INVARIANTS
    CoverageSound
