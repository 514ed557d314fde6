---------------------------- MODULE TxPipeline ----------------------------
(***************************************************************************)
(* The transaction subsystem end to end: API handlers that serve           *)
(* getTransactions, the PostgreSQL tables they read, the Redis result      *)
(* cache, the BullMQ queue they put gaps on, and the worker that takes     *)
(* jobs from it, pages through Etherscan and writes the tables.  One       *)
(* action per stretch of code between two awaits whose order another       *)
(* process can notice.  Pages, limits and the fields of a transaction are  *)
(* left out: a reply carries the set of transactions it is built from.     *)
(***************************************************************************)
EXTENDS Ranges, AddressInfo

CONSTANTS
    Address,
    Tx,
    BlockOf,            \* the block a transaction is in
    PartiesOf,          \* the addresses whose history it belongs to
    CreatedAt,          \* the block an address became a contract, or NoBlock
    FirstHead,          \* the chain's latest block at the start
    MaxBlock,           \* bound: the chain grows up to this block
    Handler,            \* bound: requests in flight at once
    Query,              \* the queries clients send
    Slot,               \* the worker's concurrency
    NoSlot,
    MaxBlocksPerJob,    \* JOB_CONFIG.GAP_PROCESSING.MAX_BLOCKS_PER_JOB
    BatchSize,          \* JOB_CONFIG.GAP_PROCESSING.MAX_TRANSACTIONS_PER_BATCH
    ChunkSize,          \* createSmallerChunks' maxChunkSize
    MaxAttempts,        \* RETRY_ATTEMPTS
    MaxStalled,         \* BullMQ's maxStalledCount
    TimeoutBlocks,      \* txlist over this many blocks, or more, may time out
    Outages,            \* whether Etherscan, PostgreSQL and Redis may fail a request
    JobFaults,          \* whether they, and anything else, may fail a job
    RpcFaults,          \* whether getCode may fail during discovery
    MaxMishaps,         \* bound: worker crashes and lost locks
    Evicting            \* whether finished jobs are removed from the queue

ASSUME ChainAssumption ==
    /\ IsFiniteSet(Tx)
    /\ BlockOf \in [Tx -> Nat]
    /\ PartiesOf \in [Tx -> SUBSET Address]
    /\ CreatedAt \in [Address -> Nat \cup {NoBlock}]
    /\ FirstHead \in Nat /\ MaxBlock \in Nat
    /\ FirstHead <= MaxBlock

\* A contract has no transactions before its creation (tx.service.ts:148-150).
ASSUME CreationAssumption ==
    \A t \in Tx : \A a \in PartiesOf[t] : CreatedAt[a] <= BlockOf[t]

\* What GetTransactionsQuerySchema and validateBlockRange let through.
ASSUME QueryAssumption ==
    /\ Query \subseteq [from : Nat, to : Nat \cup {NoBlock},
                        order : {"asc", "desc"}]
    /\ \A q \in Query : q.to = NoBlock \/ q.from <= q.to

ASSUME QueueAssumption ==
    /\ NoSlot \notin Slot
    /\ MaxBlocksPerJob \in Nat \ {0} /\ BatchSize \in Nat \ {0}
    /\ ChunkSize \in Nat \ {0} /\ TimeoutBlocks \in Nat \ {0}
    /\ MaxAttempts \in Nat \ {0} /\ MaxStalled \in Nat /\ MaxMishaps \in Nat
    /\ Outages \in BOOLEAN /\ JobFaults \in BOOLEAN
    /\ RpcFaults \in BOOLEAN /\ Evicting \in BOOLEAN

VARIABLES
    head,           \* the latest block
    addressInfo,    \* table AddressInfo
    infoCache,      \* Redis: address info
    coverage,       \* table Coverage: ranges by address
    transactions,   \* table Transaction: rows [hash, address]
    cache,          \* Redis: paginated query results
    request,        \* the handlers
    jobs,           \* the queue, by state
    slot,           \* the worker's job processors
    mishaps         \* crashes and lost locks so far

infoVars   == <<addressInfo, infoCache>>
dbVars     == <<addressInfo, infoCache, coverage, transactions>>
workerVars == <<slot, mishaps>>
vars == <<head, addressInfo, infoCache, coverage, transactions, cache, request,
          jobs, slot, mishaps>>

---------------------------------------------------------------------------
(* The chain, and what Etherscan knows of it. *)

TxsOf(a) == {t \in Tx : a \in PartiesOf[t] /\ BlockOf[t] <= head}

TxsIn(a, from, to) == InRange(TxsOf(a), BlockOf, from, to)

NewBlock ==
    /\ head < MaxBlock
    /\ head' = head + 1
    /\ UNCHANGED <<dbVars, cache, request, jobs, workerVars>>

---------------------------------------------------------------------------
(* Types *)

Row == [hash : Tx, address : Address]

Reply == [source : {"database", "etherscan"}, from : Int, to : Int,
          txs : SUBSET Tx, incomplete : BOOLEAN]
NoReply == [source |-> "none", from |-> 0, to |-> 0, txs |-> {},
            incomplete |-> FALSE]

Key == [address : Address, from : Nat, to : Nat, order : {"asc", "desc"}]
Entry == [key : Key, reply : Reply]

Step == {"resolve", "discover", "head", "cache", "markAll", "markPrefix",
         "coverage", "database", "etherscan", "half", "fallback", "store",
         "reply", "enqueue"}
Idle == [pc |-> "idle"]
Request == [pc : Step, address : Address, query : Query, info : Info,
            from : Nat, to : Nat, gaps : SUBSET BlockRange,
            reply : Reply \cup {NoReply}]

JobId == [address : Address, fromBlock : Int, toBlock : Int]
Job == [id : JobId, state : {"waiting", "active", "completed", "failed"},
        attempts : 0 .. MaxAttempts, stalls : 0 .. MaxStalled,
        lock : Slot \cup {NoSlot}]

IdleSlot == [phase |-> "idle"]
Busy == [phase : {"claimed", "fetched", "splitting", "finishing", "failing"},
         job : JobId, got : SUBSET Tx, end : Int]

TypeOK ==
    /\ head \in FirstHead .. MaxBlock
    /\ addressInfo \in [Address -> Info \cup {Unknown}]
    /\ infoCache \in [Address -> Info \cup {Unknown}]
    /\ coverage \in [Address -> SUBSET BlockRange]
    /\ transactions \subseteq Row
    /\ cache \subseteq Entry
    /\ request \in [Handler -> Request \cup {Idle}]
    /\ jobs \subseteq Job
    /\ slot \in [Slot -> Busy \cup {IdleSlot}]
    /\ mishaps \in 0 .. MaxMishaps

Init ==
    /\ head = FirstHead
    /\ addressInfo = [a \in Address |-> Unknown]
    /\ infoCache = [a \in Address |-> Unknown]
    /\ coverage = [a \in Address |-> {}]
    /\ transactions = {}
    /\ cache = {}
    /\ request = [h \in Handler |-> Idle]
    /\ jobs = {}
    /\ slot = [s \in Slot |-> IdleSlot]
    /\ mishaps = 0

---------------------------------------------------------------------------
(* The database *)

(***************************************************************************)
(* saveTransactionBatch: createMany with skipDuplicates on the primary key *)
(* hash, then the coverage row, in one database transaction.               *)
(***************************************************************************)
SaveTransactionBatch(a, from, to, txs) ==
    /\ transactions' = transactions \cup
          {[hash |-> t, address |-> a] :
              t \in {u \in txs : \A r \in transactions : r.hash # u}}
    /\ coverage' = [coverage EXCEPT ![a] = @ \cup {Range2(from, to)}]

\* getExistingTransactionsPaginated
RowsIn(a, from, to) ==
    {t \in Tx : /\ [hash |-> t, address |-> a] \in transactions
                /\ BlockOf[t] \in from .. to}

---------------------------------------------------------------------------
(* The queue *)

JobIdOf(a, r) == [address |-> a, fromBlock |-> r.fromBlock, toBlock |-> r.toBlock]

(***************************************************************************)
(* queueGapsForProcessing: gaps are cut into jobs; addBulk ignores a job   *)
(* whose id is in the queue already, finished jobs that were kept included.*)
(***************************************************************************)
QueueGapsForProcessing(a, gaps) ==
    LET pieces == UNION {Pieces(g, MaxBlocksPerJob) : g \in gaps}
        ids    == {JobIdOf(a, p) : p \in pieces}
    IN  jobs' = jobs \cup
           {[id |-> id, state |-> "waiting", attempts |-> 0, stalls |-> 0,
             lock |-> NoSlot] : id \in {x \in ids : \A j \in jobs : j.id # x}}

Update(j, k) == jobs' = (jobs \ {j}) \cup {k}

\* removeOnComplete and removeOnFail, once enough younger jobs are finished.
EvictJob ==
    /\ Evicting
    /\ \E j \in jobs :
          /\ j.state \in {"completed", "failed"}
          /\ jobs' = jobs \ {j}
    /\ UNCHANGED <<head, dbVars, cache, request, workerVars>>

---------------------------------------------------------------------------
(* getTransactions *)

At(h, step) == request[h].pc = step

Continue(h, r) == request' = [request EXCEPT ![h] = r]

Goto(h, step) == Continue(h, [request[h] EXCEPT !.pc = step])

Begin(h, a, q) ==
    /\ At(h, "idle")
    /\ Continue(h, [pc |-> "resolve", address |-> a, query |-> q, info |-> EOA,
                    from |-> 0, to |-> 0, gaps |-> {}, reply |-> NoReply])
    /\ UNCHANGED <<head, dbVars, cache, jobs, workerVars>>

(***************************************************************************)
(* resolveStartingBlock: Redis, else AddressInfo, else a blockchain scan;  *)
(* what a lower tier answers is stored in the tiers above it.  Reads and   *)
(* writes of the tiers that fail are logged and count as misses.           *)
(***************************************************************************)
InfoMissing(tier, h) == tier[request[h].address] = Unknown \/ Outages

Written(tier, h, info) ==
    {[tier EXCEPT ![request[h].address] = info]} \cup IF Outages THEN {tier} ELSE {}

Resolved(h, info) == Continue(h, [request[h] EXCEPT !.pc = "head", !.info = info])

ResolveCached(h) ==
    /\ At(h, "resolve")
    /\ infoCache[request[h].address] # Unknown
    /\ Resolved(h, infoCache[request[h].address])
    /\ UNCHANGED <<head, dbVars, cache, jobs, workerVars>>

ResolveStored(h) ==
    /\ At(h, "resolve")
    /\ InfoMissing(infoCache, h)
    /\ LET info == addressInfo[request[h].address]
       IN  /\ info # Unknown
           /\ infoCache' \in Written(infoCache, h, info)
           /\ Resolved(h, info)
    /\ UNCHANGED <<head, addressInfo, coverage, transactions, cache, jobs, workerVars>>

ResolveUnknown(h) ==
    /\ At(h, "resolve")
    /\ InfoMissing(infoCache, h) /\ InfoMissing(addressInfo, h)
    /\ Goto(h, "discover")
    /\ UNCHANGED <<head, dbVars, cache, jobs, workerVars>>

\* discoverAddressInfo, by the contract ContractSearch meets.
Discover(h) ==
    /\ At(h, "discover")
    /\ \E info \in Discoverable(CreatedAt[request[h].address], head, RpcFaults) :
          /\ addressInfo' \in Written(addressInfo, h, info)
          /\ infoCache' \in Written(infoCache, h, info)
          /\ Resolved(h, info)
    /\ UNCHANGED <<head, coverage, transactions, cache, jobs, workerVars>>

\* Mutant: a query without an end is not given one.
ClampTo_NoDefault(q) == Lesser(q.to, head)

\* A toBlock of 0 counts as none.
ClampTo(q) == IF q.to \in {NoBlock, 0} THEN head ELSE Lesser(q.to, head)

\* getBlockNumber, then actualFrom and actualTo.
ReadHead(h) ==
    /\ At(h, "head")
    /\ LET q     == request[h].query
           start == StartingBlock(request[h].info)
       IN  Continue(h, [request[h] EXCEPT
              !.pc = "cache",
              !.from = IF q.from = 0 THEN start ELSE Greater(q.from, start),
              !.to = ClampTo(q)])
    /\ UNCHANGED <<head, dbVars, cache, jobs, workerVars>>

KeyOf(h) == [address |-> request[h].address, from |-> request[h].query.from,
             to |-> request[h].to, order |-> request[h].query.order]

CacheHit(h) ==
    /\ At(h, "cache")
    /\ \E e \in cache :
          /\ e.key = KeyOf(h)
          /\ Continue(h, [request[h] EXCEPT !.pc = "reply", !.reply = e.reply])
    /\ UNCHANGED <<head, dbVars, cache, jobs, workerVars>>

\* The step behind a cache miss: the two pre-creation cases, or neither.
AfterMiss(r) ==
    IF ~r.info.isContract \/ r.info.creationBlock = 0 THEN "coverage"
    ELSE IF r.to < r.info.creationBlock               THEN "markAll"
    ELSE IF r.query.from < r.info.creationBlock       THEN "markPrefix"
    ELSE "coverage"

\* A failing Redis counts as a miss: getCachedPaginatedTransactionQuery.
CacheMiss(h) ==
    /\ At(h, "cache")
    /\ Outages \/ \A e \in cache : e.key # KeyOf(h)
    /\ Goto(h, AfterMiss(request[h]))
    /\ UNCHANGED <<head, dbVars, cache, jobs, workerVars>>

\* Mutant: the creation block counts as before the creation.
MarkAll_ThroughCreation(h) ==
    /\ At(h, "markAll")
    /\ SaveTransactionBatch(request[h].address, 0, request[h].info.creationBlock, {})
    /\ Continue(h, [request[h] EXCEPT
          !.pc = "store",
          !.reply = [source |-> "database", from |-> request[h].query.from,
                     to |-> request[h].to, txs |-> {}, incomplete |-> FALSE]])
    /\ UNCHANGED <<head, infoVars, cache, jobs, workerVars>>

\* Case 1: the whole range is before the contract's creation.
MarkAll(h) ==
    /\ At(h, "markAll")
    /\ SaveTransactionBatch(request[h].address, 0,
                            request[h].info.creationBlock - 1, {})
    /\ Continue(h, [request[h] EXCEPT
          !.pc = "store",
          !.reply = [source |-> "database", from |-> request[h].query.from,
                     to |-> request[h].to, txs |-> {}, incomplete |-> FALSE]])
    /\ UNCHANGED <<head, infoVars, cache, jobs, workerVars>>

\* Case 2: the range starts before the creation and ends behind it.
MarkPrefix(h) ==
    /\ At(h, "markPrefix")
    /\ LET creation == request[h].info.creationBlock
       IN  /\ SaveTransactionBatch(request[h].address, request[h].query.from,
                                   creation - 1, {})
           /\ Continue(h, [request[h] EXCEPT !.pc = "coverage", !.from = creation])
    /\ UNCHANGED <<head, infoVars, cache, jobs, workerVars>>

\* getCoverageRanges and findGapsInCoverage
ReadCoverage(h) ==
    /\ At(h, "coverage")
    /\ LET r    == request[h]
           gaps == GapsBetween(coverage[r.address], r.from, r.to)
       IN  Continue(h, [r EXCEPT
              !.gaps = gaps,
              !.pc = IF gaps = {} THEN "database" ELSE "etherscan"])
    /\ UNCHANGED <<head, dbVars, cache, jobs, workerVars>>

\* fetchTransactionsFromDatabase
ReplyFromDatabase(h, incomplete) ==
    LET r == request[h]
    IN  Continue(h, [r EXCEPT
           !.pc = "store",
           !.reply = [source |-> "database", from |-> r.from, to |-> r.to,
                      txs |-> RowsIn(r.address, r.from, r.to),
                      incomplete |-> incomplete]])

ServeDatabase(h) ==
    /\ At(h, "database")
    /\ ReplyFromDatabase(h, FALSE)
    /\ UNCHANGED <<head, dbVars, cache, jobs, workerVars>>

\* Mutant: the fallback does not say that it may be incomplete.
ServeFallback_Silent(h) ==
    /\ At(h, "fallback")
    /\ ReplyFromDatabase(h, FALSE)
    /\ UNCHANGED <<head, dbVars, cache, jobs, workerVars>>

ServeFallback(h) ==
    /\ At(h, "fallback")
    /\ ReplyFromDatabase(h, TRUE)
    /\ UNCHANGED <<head, dbVars, cache, jobs, workerVars>>

(***************************************************************************)
(* fetchTransactionsFromEtherscan: the full range, after a timeout the     *)
(* half of it the first page would come from, else nothing.  The reply     *)
(* names the full range either way.                                        *)
(***************************************************************************)
ReplyFromEtherscan(h, range) ==
    LET r == request[h]
    IN  Continue(h, [r EXCEPT
           !.pc = "store",
           !.reply = [source |-> "etherscan", from |-> r.from, to |-> r.to,
                      txs |-> TxsIn(r.address, range.fromBlock, range.toBlock),
                      incomplete |-> FALSE]])

\* Mutant: the end block is taken for the first one not wanted.
Asked_Exclusive(h) == Range2(request[h].from, request[h].to - 1)

Asked(h) == Range2(request[h].from, request[h].to)

\* isEtherscanTimeoutError: too many blocks to query, or any server error.
MayTimeOut(r) == Size(r) >= TimeoutBlocks \/ Outages

ServeEtherscan(h) ==
    /\ At(h, "etherscan")
    /\ ReplyFromEtherscan(h, Asked(h))
    /\ UNCHANGED <<head, dbVars, cache, jobs, workerVars>>

EtherscanTimesOut(h) ==
    /\ At(h, "etherscan")
    /\ MayTimeOut(Asked(h))
    /\ Goto(h, "half")
    /\ UNCHANGED <<head, dbVars, cache, jobs, workerVars>>

ServeHalf(h) ==
    /\ At(h, "half")
    /\ ReplyFromEtherscan(h, HalfRange(Asked(h), request[h].query.order))
    /\ UNCHANGED <<head, dbVars, cache, jobs, workerVars>>

EtherscanFails(h) ==
    /\ \/ At(h, "etherscan") /\ Outages
       \/ At(h, "half") /\ MayTimeOut(HalfRange(Asked(h), request[h].query.order))
    /\ Goto(h, "fallback")
    /\ UNCHANGED <<head, dbVars, cache, jobs, workerVars>>

\* setCachedPaginatedTransactionQuery: one setEx over whatever was there.
StoreInCache(h) ==
    /\ At(h, "store")
    /\ cache' = {e \in cache : e.key # KeyOf(h)}
                   \cup {[key |-> KeyOf(h), reply |-> request[h].reply]}
    /\ Goto(h, "reply")
    /\ UNCHANGED <<head, dbVars, jobs, workerVars>>

\* The reply is sent; setImmediate leaves the gaps for later.
SendReply(h) ==
    /\ At(h, "reply")
    /\ IF request[h].gaps = {} THEN Continue(h, Idle) ELSE Goto(h, "enqueue")
    /\ UNCHANGED <<head, dbVars, cache, jobs, workerVars>>

\* Mutant: the gaps are dropped once the reply is sent.
ProcessGapsInBackground_Drops(h) ==
    /\ At(h, "enqueue")
    /\ Continue(h, Idle)
    /\ UNCHANGED <<head, dbVars, cache, jobs, workerVars>>

\* processGapsInBackground
ProcessGapsInBackground(h) ==
    /\ At(h, "enqueue")
    /\ QueueGapsForProcessing(request[h].address, request[h].gaps)
    /\ Continue(h, Idle)
    /\ UNCHANGED <<head, dbVars, cache, workerVars>>

\* A call throws and catchAsync answers with an error, or the API process dies:
\* the request is over, and gaps it had found are dropped.
RequestThrows(h) ==
    /\ Outages
    /\ request[h].pc \in Step \ {"enqueue"}
    /\ Continue(h, Idle)
    /\ UNCHANGED <<head, dbVars, cache, jobs, workerVars>>

\* Nothing is queued: the error is logged, nobody hands the gaps over again.
HandOverFails(h) ==
    /\ Outages
    /\ At(h, "enqueue")
    /\ Continue(h, Idle)
    /\ UNCHANGED <<head, dbVars, cache, jobs, workerVars>>

AbortRequest(h) == RequestThrows(h) \/ HandOverFails(h)

\* An entry's TTL ends (or its setEx failed and it never was).
ExpireEntry ==
    /\ \E e \in cache : cache' = cache \ {e}
    /\ UNCHANGED <<head, dbVars, request, jobs, workerVars>>

ExpireInfo ==
    /\ \E a \in Address : /\ infoCache[a] # Unknown
                          /\ infoCache' = [infoCache EXCEPT ![a] = Unknown]
    /\ UNCHANGED <<head, addressInfo, coverage, transactions, cache, request, jobs,
                   workerVars>>

Proceed(h) ==
    \/ ResolveCached(h) \/ ResolveStored(h) \/ ResolveUnknown(h) \/ Discover(h)
    \/ ReadHead(h)
    \/ CacheHit(h) \/ CacheMiss(h) \/ MarkAll(h) \/ MarkPrefix(h)
    \/ ReadCoverage(h) \/ ServeDatabase(h) \/ ServeFallback(h)
    \/ ServeEtherscan(h) \/ EtherscanTimesOut(h) \/ ServeHalf(h)
    \/ EtherscanFails(h) \/ StoreInCache(h) \/ SendReply(h)
    \/ ProcessGapsInBackground(h)

---------------------------------------------------------------------------
(* The worker *)

InPhase(s, phase) == slot[s].phase = phase

Process(s, busy) == slot' = [slot EXCEPT ![s] = busy]

Phase(s, phase) == Process(s, [slot[s] EXCEPT !.phase = phase])

\* The job a slot processes, as long as the slot holds its lock.
HoldsLock(s, j) == j.id = slot[s].job /\ j.state = "active" /\ j.lock = s

\* Some delayed job's time comes; any of them, priorities being a hint.
ClaimJob(s, j) ==
    /\ InPhase(s, "idle")
    /\ j.state = "waiting"
    /\ Update(j, [j EXCEPT !.state = "active", !.lock = s])
    /\ Process(s, [phase |-> "claimed", job |-> j.id, got |-> {}, end |-> 0])
    /\ UNCHANGED <<head, dbVars, cache, request, mishaps>>

\* etherscanLimiter, maxConcurrent 1: held from the fetch to the save.
LimiterFree(s) == \A x \in Slot \ {s} : ~InPhase(x, "fetched")

(***************************************************************************)
(* processTransactionGap up to its save, by the contract GapFetch meets.   *)
(***************************************************************************)
FetchGap(s) ==
    /\ InPhase(s, "claimed")
    /\ LimiterFree(s)
    /\ LET j == slot[s].job
       IN  \E got \in SUBSET TxsOf(j.address),
              end \in (j.fromBlock - 1) .. j.toBlock :
              /\ FetchAllowed(TxsOf(j.address), BlockOf, j, BatchSize, got, end)
              /\ Process(s, [slot[s] EXCEPT !.phase = "fetched", !.got = got,
                                            !.end = end])
    /\ UNCHANGED <<head, dbVars, cache, request, jobs, mishaps>>

\* Mutant: the coverage row names the job's range, not the one got.
SaveGap_WholeJob(s) ==
    /\ InPhase(s, "fetched")
    /\ SaveTransactionBatch(slot[s].job.address, slot[s].job.fromBlock,
                            slot[s].job.toBlock, slot[s].got)
    /\ Phase(s, "finishing")
    /\ UNCHANGED <<head, infoVars, cache, request, jobs, mishaps>>

\* saveTransactionBatch, the end of processTransactionGap.
SaveGap(s) ==
    /\ InPhase(s, "fetched")
    /\ SaveTransactionBatch(slot[s].job.address, slot[s].job.fromBlock,
                            slot[s].end, slot[s].got)
    /\ Phase(s, "finishing")
    /\ UNCHANGED <<head, infoVars, cache, request, jobs, mishaps>>

\* The job's Etherscan query times out: isEtherscanTimeoutError.
FetchTimesOut(s) ==
    /\ InPhase(s, "claimed")
    /\ LimiterFree(s)
    /\ MayTimeOut(slot[s].job)
    /\ Phase(s, "splitting")
    /\ UNCHANGED <<head, dbVars, cache, request, jobs, mishaps>>

\* Mutant: the last chunk is lost.
RequeueChunks_LosesLast(s) ==
    /\ InPhase(s, "splitting")
    /\ QueueGapsForProcessing(slot[s].job.address,
          {p \in Pieces(slot[s].job, ChunkSize) : p.toBlock < slot[s].job.toBlock})
    /\ Phase(s, "finishing")
    /\ UNCHANGED <<head, dbVars, cache, request, mishaps>>

\* createSmallerChunks, queueGapsForProcessing, then return as if done.
RequeueChunks(s) ==
    /\ InPhase(s, "splitting")
    /\ QueueGapsForProcessing(slot[s].job.address, Pieces(slot[s].job, ChunkSize))
    /\ Phase(s, "finishing")
    /\ UNCHANGED <<head, dbVars, cache, request, mishaps>>

\* Any other error, before, in or after the save, or while re-queueing.
JobThrows(s) ==
    /\ JobFaults
    /\ slot[s].phase \in {"claimed", "fetched", "splitting", "finishing"}
    /\ Phase(s, "failing")
    /\ UNCHANGED <<head, dbVars, cache, request, jobs, mishaps>>

\* The handler returns; the result counts only under the job's lock.
CompleteJob(s) ==
    /\ InPhase(s, "finishing")
    /\ \/ \E j \in jobs : HoldsLock(s, j) /\ Update(j, [j EXCEPT
              !.state = "completed", !.lock = NoSlot])
       \/ (\A j \in jobs : ~HoldsLock(s, j)) /\ UNCHANGED jobs
    /\ Process(s, IdleSlot)
    /\ UNCHANGED <<head, dbVars, cache, request, mishaps>>

\* Mutant: an attempt that failed is not counted.
FailJob_Forever(s) ==
    /\ InPhase(s, "failing")
    /\ \/ \E j \in jobs : HoldsLock(s, j) /\ Update(j, [j EXCEPT
              !.state = "waiting", !.lock = NoSlot])
       \/ (\A j \in jobs : ~HoldsLock(s, j)) /\ UNCHANGED jobs
    /\ Process(s, IdleSlot)
    /\ UNCHANGED <<head, dbVars, cache, request, mishaps>>

\* The handler throws: back to the queue while attempts are left.
FailJob(s) ==
    /\ InPhase(s, "failing")
    /\ \/ \E j \in jobs : HoldsLock(s, j) /\ Update(j, [j EXCEPT
              !.state = IF j.attempts + 1 < MaxAttempts THEN "waiting" ELSE "failed",
              !.attempts = j.attempts + 1, !.lock = NoSlot])
       \/ (\A j \in jobs : ~HoldsLock(s, j)) /\ UNCHANGED jobs
    /\ Process(s, IdleSlot)
    /\ UNCHANGED <<head, dbVars, cache, request, mishaps>>

\* The worker process dies; its active jobs stay active, without a worker.
WorkerCrash ==
    /\ mishaps < MaxMishaps
    /\ \E s \in Slot : ~InPhase(s, "idle")
    /\ slot' = [s \in Slot |-> IdleSlot]
    /\ mishaps' = mishaps + 1
    /\ UNCHANGED <<head, dbVars, cache, request, jobs>>

\* A job whose lock ran out goes back to the queue, or fails for good.
Unlock(j) ==
    Update(j, IF j.stalls < MaxStalled
              THEN [j EXCEPT !.state = "waiting", !.lock = NoSlot, !.stalls = @ + 1]
              ELSE [j EXCEPT !.state = "failed", !.lock = NoSlot])

Abandoned(j) == ~(slot[j.lock].phase # "idle" /\ slot[j.lock].job = j.id)

\* BullMQ's stalled check finds a job whose worker is gone.
RecoverJob(j) ==
    /\ j.state = "active"
    /\ Abandoned(j)
    /\ Unlock(j)
    /\ UNCHANGED <<head, dbVars, cache, request, workerVars>>

\* A live worker fails to renew its lock in time and does not notice.
LoseLock(j) ==
    /\ mishaps < MaxMishaps
    /\ j.state = "active"
    /\ ~Abandoned(j)
    /\ Unlock(j)
    /\ mishaps' = mishaps + 1
    /\ UNCHANGED <<head, dbVars, cache, request, slot>>

ProcessJob(s) ==
    \/ FetchGap(s) \/ SaveGap(s) \/ FetchTimesOut(s) \/ RequeueChunks(s)
    \/ JobThrows(s) \/ CompleteJob(s) \/ FailJob(s)

---------------------------------------------------------------------------
Next ==
    \/ NewBlock
    \/ \E h \in Handler, a \in Address, q \in Query : Begin(h, a, q)
    \/ \E h \in Handler : Proceed(h) \/ AbortRequest(h)
    \/ ExpireEntry \/ ExpireInfo
    \/ \E s \in Slot, j \in jobs : ClaimJob(s, j)
    \/ \E s \in Slot : ProcessJob(s)
    \/ WorkerCrash
    \/ \E j \in jobs : RecoverJob(j) \/ LoseLock(j)
    \/ EvictJob

Spec == Init /\ [][Next]_vars

(***************************************************************************)
(* Fairness: Node's event loop runs a handler whose call has returned, an  *)
(* idle worker takes a job that waits, a job processor that got an answer  *)
(* goes on, and BullMQ runs its stalled check.  Nothing makes a client     *)
(* ask, the chain grow, an entry expire or a fault happen.                 *)
(***************************************************************************)
Fairness ==
    /\ \A h \in Handler : WF_vars(Proceed(h))
    /\ \A s \in Slot : WF_vars(\E j \in jobs : ClaimJob(s, j))
    /\ \A s \in Slot : WF_vars(ProcessJob(s))
    /\ WF_vars(\E j \in jobs : RecoverJob(j))

FairSpec == Spec /\ Fairness
---------------------------------------------------------------------------
(* Properties *)

StoredFor(a) == {t \in Tx : [hash |-> t, address |-> a] \in transactions}

(***************************************************************************)
(* A covered block is a fetched block: every transaction of the address in *)
(* it is in the table under that address, transactions of blocks still to  *)
(* come included (toBlock is cut to the latest block for this reason).     *)
(***************************************************************************)
CoverageSound ==
    \A t \in Tx : \A a \in PartiesOf[t] :
        IsCovered(coverage[a], BlockOf[t]) => t \in StoredFor(a)

IsComplete(a, reply) ==
    reply.txs = TxsIn(a, reply.from, reply.to)

(***************************************************************************)
(* A reply from the database that does not say incomplete is complete for  *)
(* the range it names, when it is built and for as long as it is cached,   *)
(* whatever handlers and worker did between the coverage read, the row     *)
(* read and the cache write.                                               *)
(***************************************************************************)
DatabaseRepliesComplete ==
    LET Good(a, reply) ==
            reply.source = "database" /\ ~reply.incomplete => IsComplete(a, reply)
    IN  /\ \A h \in Handler : request[h] # Idle =>
               Good(request[h].address, request[h].reply)
        /\ \A e \in cache : Good(e.key.address, e.reply)

(***************************************************************************)
(* As long as Etherscan answers for the range it is asked for, a reply that *)
(* is not marked incomplete holds the transactions of the range its         *)
(* metadata names, Etherscan's replies included, when it is built and for   *)
(* as long as it is cached (README:514 knows one reply that is not          *)
(* complete, the fallback's).  After a timeout ServeHalf breaks it.         *)
(***************************************************************************)
RepliesMatchRange ==
    LET Good(a, reply) == reply = NoReply \/ reply.incomplete \/ IsComplete(a, reply)
    IN  /\ \A h \in Handler : request[h] # Idle =>
               Good(request[h].address, request[h].reply)
        /\ \A e \in cache : Good(e.key.address, e.reply)

(***************************************************************************)
(* A job that counts as completed has left nothing behind: each of its     *)
(* blocks is covered or on a job that waits, runs or is known to have      *)
(* failed.  ("All gaps are queued for background processing", README:660.) *)
(***************************************************************************)
CompletedJobsAccounted ==
    \A j \in jobs : j.state = "completed" =>
        \A b \in BlocksOf(j.id) :
            \/ IsCovered(coverage[j.id.address], b)
            \/ \E k \in jobs : /\ k.id.address = j.id.address
                              /\ k.state # "completed"
                              /\ b \in BlocksOf(k.id)

(***************************************************************************)
(* TxPipeline implements TxIndex: handlers, caches, retries, timeouts and  *)
(* crashes are invisible there; what is visible is that the index grows.   *)
(***************************************************************************)
Index == INSTANCE TxIndex WITH
            complete <- [a \in Address |-> {b \in 0 .. MaxBlock :
                                              IsCovered(coverage[a], b)}],
            known <- [a \in Address |-> StoredFor(a)]

ImplementsIndex == Index!Spec

\* A job over the block used up its attempts, or was found stalled too often.
GivenUp(a, b) ==
    \E j \in jobs : j.id.address = a /\ j.state = "failed" /\ b \in BlocksOf(j.id)

(***************************************************************************)
(* A gap handed over by a request whose calls succeed is closed in the     *)
(* end, by this request's job, by one that was queued for the same blocks  *)
(* before, or by a chunk of either, though attempts may fail at any point  *)
(* and the worker may die; unless a job over it failed for good, which     *)
(* nobody retries and whose id makes the queue ignore later ones.  (With   *)
(* Outages a hand-over may fail, too, and the gap waits for a request.)    *)
(***************************************************************************)
GapsClosed ==
    \A h \in Handler, a \in Address, b \in 0 .. MaxBlock :
        (/\ request[h].pc = "enqueue"
         /\ request[h].address = a
         /\ IsCovered(request[h].gaps, b)) ~> IsCovered(coverage[a], b) \/ GivenUp(a, b)
============================================================================
