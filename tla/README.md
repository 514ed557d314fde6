# A formal model of the Ethereum transaction API

TLA+ models of this repository's back end (`src/src`): the subsystem that
indexes, caches and serves the transactions of Ethereum addresses, the two
cached figures it serves besides (balances and stored counts), the login
sessions and the user accounts. TLC checks the models on small instances; TLAPS
proves their safety for every instance, and that the transaction subsystem
implements its abstract specification. Paths below are relative to the
repository's `src/`, so `src/modules/...` there is `src/src/modules/...` here.

- [Parts of the system](#parts-of-the-system)
- [What is hard about it](#what-is-hard-about-it)
- [The modules](#the-modules)
- [Abstractions](#abstractions)
- [The runs](#the-runs)
- [Fairness](#fairness)
- [The proofs](#the-proofs)
- [Where code and documentation disagree](#where-code-and-documentation-disagree)
- [What is not modelled](#what-is-not-modelled)
- [Plan](#plan)

## Parts of the system

| Part | State it keeps | Operations | Talks to |
|---|---|---|---|
| transaction queries, `eth/tx/v1/tx.service.ts` | none of its own; many requests at once | `getTransactions`: address info, latest block, result cache, pre-creation cases, coverage, database or Etherscan, reply, hand-over of the gaps | everything below |
| address info, `eth/core/address-info.repository.ts` | table `AddressInfo`, Redis keys `blockchain:address_info:*` | read Redis, else the table, else detect; write back | contract detector |
| contract detector, `eth/core/contract-detector.ts` | none | `getCode` at the latest block, then a binary search for the creation block | RPC provider |
| transaction repository, `eth/tx/v1/tx.repository.ts` | tables `Transaction` (key `hash`), `Coverage` (ranges by address) and `Balance` | `getCoverageRanges`, `getExistingTransactionsPaginated`, `saveTransactionBatch` (one database transaction), `saveBalance` | PostgreSQL |
| gap finder, `eth/core/gap-finder.ts` | none | `findGapsInCoverage`: the uncovered ranges of a request | |
| result cache, `core/cache/cache.service.ts` | Redis keys with a life: replies, balances, counts, address info | get and set; failures are logged and count as misses | Redis |
| background processor, `eth/core/background-processor.ts` | none | a `setImmediate` behind the reply that queues the gaps | queue client |
| queue client, `queue/client.ts` | the BullMQ queue in Redis | `queueGapsForProcessing`: cuts gaps into jobs with a delay, a priority and an id of address and range; known ids are ignored | BullMQ |
| worker, `queue/worker.ts`, `queue/handlers/gap-processing.handler.ts` | jobs: state, attempts, stalls, lock; the limiter's reservoir; whether it is shutting down | take a job, wait for the limiter, page through Etherscan, save; on a timeout queue smaller chunks and count as done; on an error retry; on a signal or an exception finish the running jobs and exit | queue, service, Etherscan |
| balances and counts, `tx.service.ts` | table `Balance`, two Redis entries per address | `getBalance`, `getStoredTransactionCount` | provider, PostgreSQL, Redis |
| sessions, `modules/auth/v1/auth.service.ts`, `core/auth/*` | table `refresh_tokens`, Redis keys `revoked:sid:*`; tokens the clients hold | login (evicts the oldest session at the maximum), refresh, logout, logout everywhere, change of password | PostgreSQL, Redis |
| users, `modules/users/v1`, `registerUser` and `loginUser` in `auth.service.ts` | table `users` (e-mail and name unique) | registration, profile and password changes, the password check of a login | sessions |
| HTTP layer, schemas, configuration | none | routing, validation, connections, logging | |

The API process and the worker process share PostgreSQL and Redis and nothing
else. A request never waits for the worker: it answers from the database when
the coverage rows say that the range is complete, otherwise from Etherscan, and
hands the gaps to the queue behind the reply. The coverage table is thus the contract between
the two: what it claims, requests believe without looking again.

What makes each part correct:

- *Coverage*: a covered block is one all of whose transactions are stored for
  the address. This is the invariant the design stands on.
- *Replies*: one that does not call itself incomplete holds all transactions of
  the range it names, for as long as it is cached.
- *Gaps*: exactly the uncovered blocks of the request, none twice; each one
  found is closed in the end, unless calls fail.
- *Jobs*: the pieces of a gap lose no block and share none; a job that counts as
  completed left nothing behind; no job stays in the queue for ever.
- *Pages*: what a client has read page by page is the whole query, wherever the
  pages came from.
- *Worker*: it can be stopped, killed and started again without losing a job.
- *Detection*: without failures the true creation block; with failures an error
  on the known side.
- *Balances and counts*: an entry has an end; at rest the cached figures become
  the true ones. (That an amount is labelled with its own block, the code does not
  keep: [below](#where-code-and-documentation-disagree).)
- *Sessions*: a session that was ended stays ended; a revocation holds until the
  last token it is about has expired; the cap holds.
- *Users*: e-mails and names are unique, a conflict is reported as one and only
  when there is one; a change of password ends the sessions opened before it.

## What is hard about it

`PROJECT.json` lists the hazards line by line. The kinds that matter here:

- **Interleaving.** A request reads head, cache, coverage and rows in separate
  awaits while the worker saves and other requests mark ranges; two processors
  may run the same job; two logins count sessions before either creates one;
  registrations and profile updates check for a name and write later.
- **Stale state.** The latest block and the address info are read first and used
  last; cached replies and counts outlive what they were computed from; a
  refresh signs for a row it read before it was revoked.
- **Crash and retry.** The worker may die between fetch and save or between save
  and completion; a lock may be lost unnoticed, and the job runs twice; finished
  jobs keep their ids and swallow later ones. A shutdown waits for running jobs
  while signals and exceptions go on.
- **Partial failure.** Pages end in the middle of a block; a job saves less than
  it was asked for; a timeout turns a job into chunks; Redis is told of an
  eviction inside a database transaction that may be rolled back.
- **Ordering.** Each page of a query is a request of its own, from a store of its
  own, while the chain grows; jobs wait for delays, priorities and the limiter.
- **Boundaries.** Rows inverted by one, blocks that fill a whole page, ranges of
  exactly the job size, contracts created in block 0 or at the latest block.

## The modules

| Module | Models | Correspondence |
|---|---|---|
| `Ranges` | ranges, gaps, pieces, halves, and `FetchAllowed`, the contract of a fetch | what the loops compute, as sets; the loops are checked against it |
| `AddressInfo` | address info, and `Discoverable`, the contract of a detection | |
| `TxIndex` | the abstract specification: per address, a growing set of blocks known completely | what README:511 promises of the database |
| `GapFinder` | `findGapsInCoverage`, fed by `getCoverageRanges` | one step per row; `Sorted` is the query's ORDER BY with its ties |
| `GapFetch` | `processTransactionGap` | one step per page; `Save` is `saveTransactionBatch` |
| `JobSplitter` | `createSmallerChunks`, `queueGapsForProcessing` | one step per iteration of each of the three loops |
| `JobQueue` | extends `JobSplitter`: the jobs on their way through queue, limiter and worker process | below |
| `ContractSearch` | `discoverAddressInfo`, `findContractCreationBlock` | one step per provider call |
| `TxPages` | extends `ContractSearch`: a client that reads a query page by page | below |
| `TxPipeline` | the composition: requests, tables, cache, queue, worker | below |
| `Sessions` | login, refresh, logout, logout everywhere, end of sessions on a change of password | below |
| `Users` | registration, profile updates, logins and password changes | below |
| `BalanceCache` | `getBalance`, `getStoredTransactionCount` | one step per call to a store or the provider |
| `*Proofs` | theorems about `TxPipeline` with `TxIndex` and `Ranges`, `TxPages` with `ContractSearch`, `JobQueue` with `JobSplitter`, `GapFinder`, `GapFetch`, `Sessions`, `BalanceCache`, `Users` | [below](#the-proofs) |
| `MC*` | constants for the model checker | |

**How the transaction modules fit together.** `TxPipeline` does not repeat the loops. It
uses what they compute: `GapsBetween` for the gap finder, `Pieces` for both splitters,
`FetchAllowed` for a fetch and `Discoverable` for a detection. Each of these is a
property of the module with the loop (`GapsAsSpecified`, `PiecesAsSpecified`,
`FetchContract`, `AnswerAsSpecified`), checked there and proved. `TxPipeline` in turn
implements `TxIndex`. `JobSplitter` and `ContractSearch` have a next-state relation but
no specification of their own: `JobQueue` and `TxPages` begin with their steps and go on
with what becomes of the jobs and of the address info.

**TxPipeline.** Variables: `head` (the chain), `addressInfo` and `infoCache` (the
two tiers), `coverage`, `transactions` (pairs of hash and address, at most one
per hash), `cache` (replies by key), `request` (a program counter and the local
variables of `getTransactions` per request), `jobs` (the queue: id, state,
attempts, stalls, lock), `slot` (job processors), `mishaps` (a counter that
bounds crashes and lost locks). Actions follow the code from await to await:

| Code | Actions |
|---|---|
| `resolveStartingBlock` | `ResolveCached`, `ResolveStored`, `ResolveUnknown`, `Discover` |
| `getBlockNumber`, `actualFrom`, `actualTo` | `ReadHead` (with `ClampTo`) |
| cached reply | `CacheHit`, `CacheMiss` |
| both pre-creation cases | `MarkAll`, `MarkPrefix` |
| coverage and gaps | `ReadCoverage` |
| reply from the database, also as fallback | `ServeDatabase`, `ServeFallback` |
| reply from Etherscan, timeout, half range | `ServeEtherscan`, `EtherscanTimesOut`, `ServeHalf`, `EtherscanFails` |
| caching the reply, sending it, queueing the gaps | `StoreInCache`, `SendReply`, `ProcessGapsInBackground` |
| handler of a gap job | `ClaimJob`, `FetchGap`, `SaveGap`, `FetchTimesOut`, `RequeueChunks`, `JobThrows`, `CompleteJob`, `FailJob` |
| errors of a request, of the hand-over | `RequestThrows`, `HandOverFails` (`AbortRequest`) |
| BullMQ and what befalls the processes | `WorkerCrash`, `RecoverJob`, `LoseLock`, `EvictJob` |
| Redis entries that end | `ExpireEntry`, `ExpireInfo` |

**TxPages.** `pc` and the other variables of `ContractSearch` first run through the
discovery of the address; then `walk` holds the client's progress and the request in
flight, `blockOf` says where the transactions are, `indexed`, `stored` and `wanted` are
coverage, rows and the gaps on the queue, `cache` the cached pages; `dropped` records
that a hand-over was lost or a job given up. A page is `AskPage` (the head is read
again), then `CacheHit`, or `ServeEmpty` or `ReadCoverage`, then `ServeDatabase`,
`ServeEtherscan` or, after `EtherscanFails`, `ServeHalf` or `ServeFallback`; the last
four cache what they send and hand the gaps over (`HandOver`, which may lose them).
`EtherscanPage` and `DatabasePages` are the two orders of rows: the database sorts by
block only, anew for each page, so ties fall as they like. Meanwhile `IndexBlock`,
`GiveUp` (a job that fails for good), `ExpireEntry`, `NewBlock`; `Again` is the client
starting over.

**JobQueue.** `Enqueue` is `addBulk` with the jobs `JobSplitter` has built. `queue` holds
state, rest of the delay and stalls of each job; `held`, `running` and `tokens` are
in the worker's memory: the jobs its processors hold, the one the limiter has let
through and the limiter's reservoir. `Claim` takes the ready job of the lowest
number (`Priority`; recovered ones go first), `Schedule` and `FinishJob` are the two
ends of `etherscanLimiter.schedule`, `Tick` is the second after which delays have
run and the reservoir is full. `Stop`, `Throw`, `Exit`, `Kill`, `Restart`, `StartAgain` are the
life of the process (`gracefulShutdown`, `restart: unless-stopped`), `Recover` BullMQ's
stalled check.

**Users.** `email`, `username`, `password` are the columns of `users`, `session` the
owner of each active `refresh_tokens` row, `op` the requests. A registration is
`Register`, then `CreateUser` or `CreateRefused`; a profile update `UpdateProfile`,
`CheckEmail` and `CheckName` as far as the row read first makes them necessary,
`UpdateUser` or `UpdateRefused`; a login `Login`, `OpenSession`; a change of password
`ChangePassword`, `RevokeAll` and `ReplacePassword`, the last two in one transaction:
its rows are locked and their change is not seen before the commit. `taken`,
`overtaken`, `raced` and `outlived` are history.

**Sessions.** One user. `row`, `created`, `expires` are the `refresh_tokens` rows,
`denied` the Redis revocations, `access` the newest access token of each session; `op`
holds the requests. A login is `StartLogin` (both tokens are signed before the
transaction), `Count`, `FindOldest`/`NoOldest`, `LockVictim`, `DenyVictim`, `Create`:
the last one commits. Its update of the evicted row is invisible until then but blocks
other updates of it (`Locked`), as PostgreSQL's row lock does under Read Committed. A
refresh is `StartRefresh`, `Sign`; a logout `StartLogout`, `LogoutRow`, `DenyList`; a
logout everywhere `StartLogoutAll`, `RevokeAllRows`, `DenyList`. `changeUserPassword`
makes the same calls in the same order on its own, the update of the rows inside its
transaction, so the same steps stand for it; that it forgives a failure of Redis is
`Fail` after the rows. Lives are counted down together by `Tick`. The variables
`refused`, `late`, `rolledBack`, `overlapped`, `since` are history: no action reads
them.

**BalanceCache.** One address. `row` is the balances row, `entry`/`left` the Redis
hash and its life (0: none), `count`/`countLeft` the cached count, `head` and
`stored` what the provider and the table would answer. `setCachedBalance` is two
commands, so two steps (`HSet`, `Expire`); the provider's two calls answer in any
order, blocks apart (`ProviderAnswers`).

## Abstractions

In `TxPipeline`:

- A reply carries the set of transactions it is built from. Pages, limits and sort
  order within a reply are left to `TxPages`, the fields of a transaction are left
  out; the order of the query is kept, since it decides which half is fetched
  after a timeout.
- One `Discover` stands for the search; its latest block is read once. A chain
  that grows while the search runs makes no difference to the first block with
  code at or below that latest block.
- A transaction is in one block for good: the code handles no reorganisation.
- Delays, priorities and the limiter's reservoir are left to `JobQueue`: any
  waiting job may be next, and the limiter is the one slot between fetch and save.
- `RequestThrows` and `HandOverFails` stand for every throw, before the reply and
  behind it, and for the death of the API process.
- Cached replies are dropped at any time (`ExpireEntry`), which includes a write
  that failed; the Redis side of an outage is `CacheMiss`.

In `TxPages`:

- One client, one query, pages in sequence. What concurrent requests do to the
  stores is `TxPipeline`'s; here the worker's saves come in between as single
  blocks (`IndexBlock`), each sound by itself.
- A job is a block on the queue (`wanted`). Jobs that fail for good, that complete
  without a block, or whose ids keep later ones out are `GiveUp` and a `HandOver`
  that loses blocks; which ids these are is `TxPipeline`'s. Once a job was given up
  any hand-over may lose any block, which is more than the code does.
- Coverage is a set of blocks. The coverage is read and the rows are read after it,
  in two steps; the two pre-creation cases mark their blocks at once.
- The search is on chains of up to ten blocks; only chains of up to three are read.

In `JobQueue`:

- A job runs and ends; retries, timeouts and chunks are `TxPipeline`'s.
- A second is one step: a delay of n seconds is n `Tick`s. Jobs take no time unless
  `Tick` comes in between.
- Kill, stop and exception are bounded together (`MaxMishaps`).

In `Users`:

- The table holds passwords where the code holds hashes; two hashes are as equal
  as their passwords.
- Sessions are rows with an owner. Tokens and what Redis is told are `Sessions`'; the
  cap is left out.
- Requests that change nothing (400, 401, 404, reading a profile) are left out, and
  so is the deletion of users, which the code does not have.

In `Sessions`:

- Ids are new. One handed out by a login that was rolled back may be used again,
  because nobody ever held it; this keeps the instance small.
- `created` is the rank of the commit. The code takes the time inside the
  transaction; two logins in flight at once may differ in that order.
- Refresh token and row expire together: both get the same life in one function.
- A unit of time is far longer than a request. A refresh signs before time
  passes (`Tick` waits for it): otherwise `RevokedRunsOut` could be late by the
  length of a call. Calls of a login or logout may take as long as they like.
- Signatures, passwords, IP addresses and user agents are left out.

In `BalanceCache`:

- A balance stands for the block whose state it is.
- Requests that are answered from a store, or that fall back on the row after the
  provider has failed, change nothing and are left out.
- Zero as a cached count is taken for a miss, as in the code.

## The runs

All instances are small enough to be complete; the state counts are distinct
states.

| Run (cfg) | Instance | Question | States |
|---|---|---|---|
| `gap_finder` | blocks 0..3, every set of up to 3 rows, every request, every order of ties | exact, disjoint, as `GapsBetween` says | 29,309 |
| `gap_fetch` | 6 transactions over 5 blocks in every way, pages of 3, limit of 5 | soundness of the saved range, the contract, progress | 109,643 |
| `tx_pages` | the search on chains of 1..10 blocks, every creation block, failures anywhere; then 3 transactions in every place on chains of up to 3 blocks, pages of 2, a query up to block 1 in either order, one cached reply | the search is exact without failures and errs upwards only with them; pages add up; walks end, flags clear | 711,630 |
| `job_queue` | every cut of up to two gaps in blocks 0..7 into jobs of 3, or chunks of 2; lists of up to 3 jobs, two processors, one token a second, two mishaps | partition, as `Pieces` says, shutdown costs nothing and ends, jobs drain | 445,879 |
| `users` | 2 users, 2 of each value, 2 sessions, 2 requests, failures, symmetry | a refusal by the database was raced, conflicts are true, sessions end with their password | 145,238 |
| `pipeline_requests` | 2 requests, open-ended or up to block 1; a contract created in block 2, which appears while the system runs; 2 processors, finished jobs evicted; symmetry | replies complete, `TxIndex` implemented, types | 2,078,638 |
| `pipeline_outages` | 1 request, every call may fail, pages of 1, 2 attempts, 1 mishap | `TxIndex` implemented, replies from the database complete | 2,785,328 |
| `pipeline_liveness` | 1 request, a job of 3 blocks that may time out into chunks of 2 and 1, no transactions, attempts that fail anywhere, 2 attempts, 1 mishap | gaps close or their jobs are given up, completed jobs left nothing | 818,407 |
| `sessions` | 3 sessions, 2 requests, maximum 2, lives 1 and 2, failures, symmetry | the five session properties | 1,085,265 |
| `balance_cache` | 2 requests, 1 new block, 1 new transaction, lives 2 and 2, failures | ends, convergence | 235,678 |
| `shared_tx` | 2 addresses, a transfer between them | *violated*: see below | |
| `chunk_is_itself` | a job no larger than a chunk times out | *violated*: see below | |

Why the bounds are enough:

- *gap_finder.* The loop compares a row with the cursor only; three rows give every
  pair of neighbours (nested, touching, overlapping, apart, inverted) with
  something before or after it. The theorems have no bound.
- *gap_fetch.* Six transactions and pages of three: an exact page, a block split
  by a page, two neighbouring blocks that fill one (the loop stands still), and
  the safety limit. The theorems have no bound.
- *tx_pages.* Ten blocks: both parities of the middle at every depth of the search.
  Three transactions and pages of two: a full page and a rest, a full last page
  (two rows) before an empty one, ties within a block that straddle the page
  boundary, a block that appears behind the pages (ascending) or before them
  (descending), a range that ends before the creation. Two blocks in the range, so
  that a hand-over may be lost in part and a job given up beside one that is not. An
  open query differs from this one only in what is clamped (`ClampTo`). One cached
  reply (`MaxEntries`): a page from the cache next to one from elsewhere. A client
  that would need a third page (`MaxPage`), because blocks appeared meanwhile, starts
  over.
- *job_queue.* Eight blocks with sizes 3 and 2: last pieces of every length, and
  small and large gaps in either order. Three jobs, two processors and one token:
  a job waits behind the limiter while another waits for a processor. Two mishaps:
  a kill after a kill exceeds `maxStalledCount`, a kill may hit a shutdown. Longer
  lists are built and not followed (`MaxFollowed`). The theorems have no bound.
- *users.* Two users and two of everything: the second value is what a request can
  lose to the other user. The theorems have no bound.
- *pipeline_\*.* Two or three blocks with one transaction in each of two: a range that
  is covered, a gap, and a boundary between them. Each run opens one set of
  difficulties, because all at once is out of reach: growth, creation and two processors
  (`requests`), failures and lost locks (`outages`), timeouts, chunks and failed
  attempts (`liveness`; it needs no transactions, since a batch larger than all there
  are is never cut short). After a lost lock the job runs again in the one slot; two
  slots in the same job at once are not in these runs, and the limiter would serialise
  their fetch and save anyway; the theorems allow for any number of slots, and for all
  difficulties at once. `RpcFaults` is FALSE throughout: a wrong creation block refutes
  soundness, see below; `ContractSearch` has the faults.
- *sessions.* Three sessions over a maximum of two: one eviction, and one more in
  the race. Larger instances were run to the end outside of the listed runs,
  clean as well: lives 2 and 2 (90 s), 2 and 3 with a maximum of 2 (4 min).
- *balance_cache.* Two fetches that may answer at different blocks and write in
  either order; a life of two, so that a late write can renew an entry that is
  about to end.

Deadlock is checked where something is always left to do. `sessions` and
`balance_cache` switch it off: once the ids are used up, or chain and table are at
their bounds with every figure cached for good, nothing need happen.

Each property of a passing run has a mutant in `PROJECT.json`: a definition
changed as a plausible bug would, with which TLC finds the property violated.
The changed definitions stand beside the right ones, marked `Mutant`.

What the less obvious properties say:

- `DatabaseRepliesComplete` holds under every failure, `RepliesMatchRange` covers
  Etherscan's replies too and holds only while Etherscan does not time out.
- `CompletedJobsAccounted` is the job-level counterpart of `GapsClosed`: completion
  of a job must not hide blocks that nobody is going to fetch.
- `NothingMissed` counts rows per block, because ties may come in any order; it is
  for walks in which no reply was incomplete or of half the range, ascending
  exactly, descending at least (new blocks push rows to the next page).
- `GapsClosed` is for requests whose calls succeed; the calls of jobs may fail at any
  point. It ends with the gap closed or with a job over it given up, because nobody
  retries a failed job, and its id makes BullMQ ignore a later hand-over of the
  same range until it forgets it. With failing requests (`Outages`) a gap may also
  stay open because its hand-over failed, which is logged and nothing else.
- `FlagsClear` says that the flag of a cached fallback reply does not come back for
  ever, unless Etherscan goes on failing *and* a hand-over was lost or a job given
  up: otherwise each fallback hands its gaps over and they are indexed.
- `QuietExit` counts the stalls of a job against the kills under it: any other end of
  the worker leaves no job active.
- `ErrorsOnlyWhenTaken`, `ConflictsTruthful`: which of the two answers a request for a
  taken value gets, 409 or 500, and that a user's own value never counts as taken.
- `OutlivedOnlyIfRaced` is to a change of password what `CapUnlessRaced` is to the cap.
- `PagesAdvance` says that only two neighbouring blocks that fill a page keep the
  paging loop in place.
- `CapUnlessRaced` is the cap as the code enforces it: it can be exceeded only by
  logins that overlap.
- `DeniedAreRevoked` allows for the one exception the code has, a login that told
  Redis and was rolled back.
- `EndlessOnlyAfterFailure`: an entry without a life is a step away from getting
  one, or its EXPIRE failed. `FiguresConverge` has the same premise.

## Fairness

- `TxPipeline`: weak fairness of every request that has begun (`Proceed`: the
  event loop runs whatever has its answer), of an idle processor's `ClaimJob`, of
  a processor that holds a job (`ProcessJob`), and of `RecoverJob` (BullMQ's
  stalled check runs on a timer). None for clients, new blocks, ends of entries,
  failures or mishaps. In `pipeline_liveness` attempts may fail as often
  as they like (`JobFaults`), which ends when they are used up.
- `TxPages`: weak fairness of the search, of a client's next page, of a request's
  answer (`Respond`, each call returns or throws), of the jobs handed over, which
  end (`Index \/ GiveUp`: succeeding is not promised), and of the end of each
  entry (300 seconds unless configured otherwise). None for failures, for new blocks
  or for a client starting over. That jobs end in
  one of the two ways is `GapsClosed` of the pipeline.
- `JobQueue`: weak fairness of building and adding the jobs, of time, of a job that
  has a processor, of an idle processor, of the stalled check, of an exit that has
  nothing left to wait for, and of `Restart` (the container's `restart:
  unless-stopped`). None for `StartAgain`: `JobsDrain` allows for a container that stays
  stopped.
- `BalanceCache`: weak fairness of a request that has begun (each call answers or
  fails) and of time.
- `GapFinder`: weak fairness of the loop. `Sessions`, `Users` and `GapFetch` state safety
  only.

## The proofs

`tlapm` checks every proof from nothing. Each `*Proofs` module has an inductive
invariant, a lemma or step per action, and the theorems as consequences. TLC has
checked each inductive invariant on a run's instance.

**`TxPipelineProofs`.** What the transaction subsystem is for, for every chain, any
number of requests, processors and queries, any limits, and with failures,
crashes, lost locks and evictions wherever the theorem does not exclude them:

| Theorem | Says | Provided that |
|---|---|---|
| `PipelineTypes` | type correctness; a job in the queue has an attempt left | |
| `CoveredIsStored` | the transactions of a covered block are in the table, perhaps as another address's rows | |
| `CoverageIsSound` | they are there under the address (`CoverageSound`) | `Exclusive`, `AllSighted` |
| `PipelineIsIndex` | `ImplementsIndex` | `Exclusive`, `AllSighted` |
| `DatabaseRepliesAreComplete` | `DatabaseRepliesComplete` | `Exclusive`, `AllSighted` |
| `RepliesAreComplete` | `RepliesMatchRange` | the same and `NeverTimesOut` |
| `CompletedAreAccounted` | `CompletedJobsAccounted` | `NothingCutShort` |
| `GapsHoldTheUncovered` | `Ranges` alone: a block that no row covers is in a gap, whatever rows there are | |

Each proviso names a way in which the code does not keep the promise, and holds in
the runs that check the property:

- `Exclusive`: no transaction belongs to two indexed addresses. `shared_tx` shows
  that it is needed.
- `AllSighted`: no contract's creation block is misjudged after a failed provider
  call (`RpcFaults` with contracts). `CoveredIsStored` asks it of the address at hand only.
- `NeverTimesOut`: Etherscan answers for every range; else `ServeHalf` names more
  than it has.
- `NothingCutShort`: only long ranges time out (attempts may fail), no finished job
  forgotten, fewer transactions than a batch, chunks smaller than what times out. What
  an evicted job did not fetch is left to the next request that finds the gap; what a
  job left that failed for good or completed with a partial range is found again as
  well, but handed over in vain if it is cut into the same job again, as long as the
  queue keeps that job's id. `chunk_is_itself` shows what the last condition is for.

"A covered block is stored" is not inductive: a request marks blocks on the
strength of an info it read earlier, a slot saves what it fetched earlier. The
invariant `Inv` therefore says what each of them may still rely on: infos stored,
cached or held are true of the chain and remain so as it grows (`InfosTrue`), a
request's range and gaps lie below the head, before the creation where it acts on
that, and are covered where it is about to read rows (`RequestsSound`), and what a
slot holds satisfies `FetchAllowed` (`SlotsSound`). That coverage and rows only
grow makes the steps of the others harmless. For the refinement, `WhatSteps` shows
that nothing but the three saves changes the tables, and `SaveIsLearn` that each is
`Learn`; every other step stutters. `RepliesHold` adds that a reply holds what
there will ever be in its range: the reason why a cached one does not go stale
before its life ends. `CompletedJobsAccounted` is not inductive either, since the
jobs that took a block over may have been in the queue before: `Accounted` asks
for a job *smaller* than the completed one (`HandedOn`), which rules out the circle
of a job that is its own chunk, and carries the promise while a slot is between
`RequeueChunks` and `CompleteJob`. The lemmas about gaps and pieces in front (pieces
lose no block, stay inside and are smaller than the whole) rest on least elements
of sets of integers; the few that `GapFinderProofs` and `JobQueueProofs` need as well
stand there again.

**`TxPagesProofs`.** `NothingIsMissed`, `LoneRowsComeOnce`, `AnswersAreDiscoverable` and
`TxPagesTypes`, for any chain, any transactions and placement of them in blocks, any
page size, any size of the cache, whatever fails. `LoneRowsComeOnce` is about the rows
themselves: one that is alone in its block comes, and ascending only once.
`NothingMissed` speaks of the end of a walk. Its invariant says of every page
before it what the client has got: of each block as many rows as the first
`(page - 1) * Limit` rows of the range hold that would be asked *now* (`Reached`, in
`WalkInv`). Four steps lead there.

1. How ties fall does not matter to numbers: of any first *n* rows sorted by block,
   block *b* has the rest of *n* behind the blocks before it, or all its rows
   (`Taken`, `LeadingTakes`). A page of the database, cut from two sorts that may
   disagree, therefore holds the difference of two such numbers (`PageTakes`), and
   one that is not full is the last (`ShortPageIsLast`).
2. Etherscan's page is one the database could have given (`EtherscanIsAPage`):
   counting who comes before numbers the rows 0, 1, 2, ... (`FrontSize`, a pigeonhole
   argument). So it does not matter from which of the two a page comes.
3. Every reply that is not marked is such a page of the range it is asked for: the
   coverage names no block from the creation on whose rows are not stored, and a
   request at the database has its whole range covered (`StoreInv`); a cached reply
   was such a page and still is, since blocks that appear lie outside its range
   (`CacheInv`).
4. A new block comes behind all pages, or, against the order of the chain, in front
   of them: then the first *n* rows hold the less of the older blocks, and the client
   has got at least that (`TakenLater`).

For the search the invariant says that the two bounds close in on the creation,
`low` from below as long as no call has thrown, `high` from above (`Closing`), and that
nothing is read before it has ended (`SearchFirst`). `Delivered` is the size of a set of
numbered copies, which can be reasoned about where a sum over a function cannot.

**`JobQueueProofs`.** For any gaps, sizes, rates, processors and mishaps:
`JobsArePartition`, `LoopsComputePieces`, `ShutdownIsQuiet`, `JobQueueTypes`. The
loops are shown to number their pieces: the chunk made next is piece `Len(gaps)`
(`Chunked`), the job built next is piece `c` of gap `k`, all before it are built and
in order (`BuiltUpTo`). That the second pass builds as many jobs as the first
counted would take a recursive sum; instead the invariant says that *there is* a
function that adds up the jobs gap by gap (`AddsUp`), and the counting pass
constructs it one value at a time. The queue's invariant adds to `QuietExit` that a
job held by a processor is active and that no job was lost more often than the
process was killed.

**`GapFinderProofs`.** For every table of rows inverted by one at most, every request
and every order of ties: `GapsAreExact`, `GapsAreDisjoint`, `GapsMatchSpecification`,
`GapFinderTypes`. "Every block is in a gap or covered" is not inductive: the invariant
adds that the rows behind the loop end before the cursor (`CursorPast`), that gaps lie
behind the cursor and before the rows ahead (`GapsBehind`, where the ORDER BY is
needed), that no gap meets any row, and that every block behind the cursor is accounted
for. For `GapsMatchSpecification` the gaps are compared with `GapsBetween` end by end: a
block starts, or ends, a gap of the loop exactly if it does one of the definition.

**`GapFetchProofs`.** For every chain, gap, page size, limit and failure:
`FetchCoverageSound`, `FetchMeetsContract`, `FetchAdvances`, `GapFetchTypes`. The
invariant: everything up to `actualEndBlock` has been collected, the next page
starts no later than one block after it (`NoHole`), and a second page exists only
if the gap holds a page (`Full`). The step to a full page is where the code's
"one block before the last one" is needed and suffices.

**`SessionsProofs`.** For any sessions, requests, lives, maximum and failures:
`RefusalLasts`, `RevocationEnds`, `RefusedAreRevoked`, `CapHoldsUnlessRaced`,
`SessionsTypes`. The invariant adds that a
login's id is its own (`LoginsFresh`), that whatever a request holds has a row
and what it is about to tell Redis is revoked (`HeldHaveRows`), that a revocation
in Redis outlasts the tokens signed before it (`RefusedCovers`), and that time
since the revocation and life of the newest token add up to one life at most
(`RevokedShrinks`). For the cap it adds that, as long as no two logins have
overlapped, each still has the room it counted (`RoomLeft`), with its victim
reckoned as there even if it has ended by itself meanwhile.

**`BalanceCacheProofs`.** `EntriesEnd` and `BalanceCacheTypes`, for any requests, lives
and failures; `EndlessOnlyAfterFailure` is inductive beside the types.

**`UsersProofs`.** `RefusalsWereRaced`, `OutlivedWereRaced`, `ConflictsNameOthers` and
`UsersTypes`, for any users, values, sessions and requests. The invariant adds that
a request about to write holds all it needs (`HeldComplete`), that the columns are
unique (`Unique`), that what a request's checks have shown still holds unless it was
taken since (`ChecksHold`: this is where the look-ups that are skipped because a
value did not change turn out to be harmless), and that sessions a change under
way will not revoke were opened during it (`MissedAreRaced`).

The assumptions are the `ASSUME`s of the modules; TLC evaluates them in the runs.
They say what configuration and validation let through, with one exception:
`CreationAssumption`, that a contract has no transactions before its creation, is
the code's own premise (`tx.service.ts:148-150`).

A note on form. Two habits of the prover's translation to SMT were found to make
hypotheses contradictory, and the modules keep clear of both:
`[f EXCEPT ![p].a = x, ![p].b = y]` is written `[f EXCEPT ![p] = [@ EXCEPT !.a = x,
!.b = y]]` or with a helper, and a function on `Nat` is not used next to a sequence (its
axioms take every function's domain to be `1 .. n`), which is why `AddsUp` asks for
values and not for a domain. Proofs were probed for contradictions by replacing
the goals of their leaves with FALSE; what then still goes through are cases that are
impossible indeed.

Every invariant and every safety property of steps that a run checks is a theorem
too, some with the provisos above. Only model-checked, since the prover has no
ENABLED, are the liveness properties: `GapsClosed`, `WalkEnds`,
`FlagsClear`, `JobsDrain`, `ShutdownEnds`, `FiguresConverge`.

## Where code and documentation disagree

Two runs end in a violation and are the findings of `PROJECT.json`:

- **`shared_tx`.** `Transaction.hash` is the primary key and `createMany` skips
  duplicates (`tx.repository.ts:177`). A transfer between two indexed addresses is
  stored for the first one; the second one's range is marked as covered all the
  same. "No gaps: serve directly from the database (complete coverage)"
  (README:511) then serves a reply that lacks it. Every other run therefore gives
  a transaction one indexed party.
- **`chunk_is_itself`.** A job of at most 1000 blocks that times out is cut into
  one chunk with its own range, hence its own id. BullMQ ignores the add, since
  that job is active, and the handler returns: the job is completed, nothing was
  fetched, nothing queued. As long as its id is kept, later hand-overs of the same
  gap are ignored too. `pipeline_liveness` uses timeouts on larger ranges only.
Seen while modelling, without a run of their own:

- `getBalance` asks the provider for the balance and for the latest block at once
  (`tx.service.ts:371`). If a block comes between the two answers, table and Redis
  keep the balance of one block under the number of the next, until the next fetch.
  "Block number when balance was fetched" (`tx.repository.ts:291`) is then off by
  what came in between; `BalanceCache` has both answers as steps, and
  `row.at = row.block` does not hold in it.
- A provider error in the binary search moves the lower bound
  (`contract-detector.ts:96`), one around it is stored as "EOA" for good
  (`:58`). With a creation block that is too high, `getTransactions` marks blocks
  that have transactions as covered (`tx.service.ts:175`): `RpcFaults = TRUE`
  refutes `CoverageSound`.
- After a timeout half of the range is fetched, and the reply, which is cached,
  names the whole range and is not marked incomplete (`tx.service.ts:957`).
  `RepliesMatchRange` fails with a `TimeoutBlocks` that a request reaches.
- An incomplete reply is cached like any other and served after its gaps are
  closed; README:703 speaks of automatic invalidation.
- A job that failed for good keeps its id (`config.ts:34`): until 500 others have
  failed, hand-overs of the same range are ignored (`client.ts:137`) and a fallback
  reply for it is marked incomplete again and again (`FlagsClear` names this).
- `toBlock=0` counts as no end, though the documentation calls it a block
  (`tx.docs.ts:29`).
- Five sessions (README:595): two logins that overlap can leave six. The excess
  does not heal: a later login evicts one and adds one (`auth.service.ts:104`).
- Small gaps get priority 10 as the high one (`queue/client.ts:150`); BullMQ takes
  the lowest number first, so they come last. `JobsDrain`: none is starved by it.
- The documentation promises a 409 for an e-mail or a name in use
  (`auth.docs.ts:27`, `user.docs.ts:89`). Two requests at once both pass the check, and
  the loser gets a 500, since `error.middleware.ts` does not know the database's
  error; `Users` shows that this needs a race (`ErrorsOnlyWhenTaken`).
- A session opened by a login that overlaps a change of password outlives the old
  password (`OutlivedOnlyIfRaced` names the only way).
- The limiter is to keep to "5 requests per second"
  (`gap-processing.handler.ts:22`) but counts jobs: the pages of a job and the API's
  own requests go to Etherscan past it.
- With ties in a block, pages from the database may repeat one row and never show
  another (`tx.repository.ts:124`); how many rows of a block come is right
  (`NothingMissed`).
- A logout everywhere finds sessions by rows that have not expired; the access
  token of a session whose row ran out keeps working for the rest of its life.
- Overlapping fetches of a balance may leave the older one in table and cache.

## What is not modelled

The HTTP layer, request schemas, configuration and documentation: input and
output without state, apart from what validation lets through, which is assumed,
and from which errors become a 409, which is in `Users`. `getAllCoverageRanges`,
`deleteAddressData`, `clearAddressCache`, the whole-query cache entries and the two
session clean-up functions are called nowhere; `getQueueStats` only reads.
Formatting of amounts and dates, checksums of addresses, logging and the fields of
a transaction are data the properties do not tell apart.

## Plan

Done, in this order: `Ranges`, `GapFinder`, `GapFetch` and their proofs; `TxIndex`;
`TxPipeline` and its refinement; `JobSplitter`; `ContractSearch`; `Sessions` and
its proofs; `BalanceCache` and its proofs; `Users` and its proofs; `TxPages` on top of
`ContractSearch`; `JobQueue` on top of `JobSplitter`.

Proofs done since: `TxPipeline` from its types to the refinement, its replies and
its completed jobs; `GapsAsSpecified`; `JobQueue` on top of `JobSplitter`; the
contract detector; the cap on sessions; `TxPages` with `NothingMissed`; the types of all
of these.

Left, proofs: none of the safety properties; `RepliesMatchRange` with a weaker proviso
than that nothing times out.

Left, models: two clients reading the same query at once (`TxPages` has one); two
processors in one job at the same moment together with outages.
