---------------------------- MODULE BalanceCache ----------------------------
(***************************************************************************)
(* getBalance and getStoredTransactionCount of one address                 *)
(* (eth/tx/v1/tx.service.ts) over the balances table, two Redis entries    *)
(* (core/cache/cache.service.ts) and the provider.  A balance stands for   *)
(* the block whose state it is.  Every call to a store or to the provider  *)
(* is a step and may fail; answers that come from a store change nothing   *)
(* and are left out.                                                       *)
(***************************************************************************)
EXTENDS Integers

CONSTANTS
    Handler,        \* requests in flight
    MaxBlock,       \* bound: the chain's last block
    MaxCount,       \* bound: transactions ever stored
    BalanceTTL,     \* appConfig.eth.balanceCacheTtl
    CountTTL,       \* appConfig.eth.transactionCountCacheTtl
    Faults          \* whether calls may fail

ASSUME BalanceCacheAssumption ==
    /\ MaxBlock \in Nat /\ MaxCount \in Nat
    /\ BalanceTTL \in Nat \ {0} /\ CountTTL \in Nat \ {0}
    /\ Faults \in BOOLEAN

VARIABLES
    head,           \* the latest block
    stored,         \* transactions in the database
    row,            \* the balances row
    entry,          \* the balance in Redis
    left,           \* what is left of the entry, 0 if it does not expire
    count,          \* the count in Redis
    countLeft,      \* what is left of the count
    op,             \* the requests
    expireFailed    \* history: an entry was left without an expiry

vars == <<head, stored, row, entry, left, count, countLeft, op, expireFailed>>

none == -1
NoBalance == [at |-> none, block |-> none]
Idle == [pc |-> "idle", balance |-> NoBalance, count |-> none]

Init ==
    /\ head = 0
    /\ stored = 0
    /\ row = NoBalance
    /\ entry = NoBalance
    /\ left = 0
    /\ count = none
    /\ countLeft = 0
    /\ op = [h \in Handler |-> Idle]
    /\ expireFailed = FALSE

-----------------------------------------------------------------------------
(* getBalance                                                              *)

\* getCachedBalance: no entry, or an error.
NoCachedBalance == entry = NoBalance \/ Faults

StartFetch(h) ==
    /\ op[h] = Idle
    /\ NoCachedBalance
    /\ op' = [op EXCEPT ![h].pc = "fetch"]
    /\ UNCHANGED <<head, stored, row, entry, left, count, countLeft, expireFailed>>

\* The two calls of Promise.all answer in any order, blocks apart.
ProviderAnswers(h, field) ==
    /\ op[h].pc = "fetch"
    /\ op[h].balance[field] = none
    /\ op' = [op EXCEPT ![h].balance[field] = head]
    /\ UNCHANGED <<head, stored, row, entry, left, count, countLeft, expireFailed>>

\* The row, if there is one, is the answer.
ProviderFails(h) ==
    /\ Faults
    /\ op[h].pc = "fetch"
    /\ op' = [op EXCEPT ![h] = Idle]
    /\ UNCHANGED <<head, stored, row, entry, left, count, countLeft, expireFailed>>

\* saveBalance: the answer goes on without it if it fails.
SaveBalance(h) ==
    /\ op[h].pc = "fetch"
    /\ none \notin {op[h].balance.at, op[h].balance.block}
    /\ \/ row' = op[h].balance
       \/ Faults /\ UNCHANGED row
    /\ op' = [op EXCEPT ![h].pc = "hset"]
    /\ UNCHANGED <<head, stored, entry, left, count, countLeft, expireFailed>>

\* setCachedBalance, first command: HSET keeps the expiry the key has.
HSet(h) ==
    /\ op[h].pc = "hset"
    /\ entry' = op[h].balance
    /\ op' = [op EXCEPT ![h].pc = "expire"]
    /\ UNCHANGED <<head, stored, row, left, count, countLeft, expireFailed>>

HSetFails(h) ==
    /\ Faults
    /\ op[h].pc = "hset"
    /\ op' = [op EXCEPT ![h] = Idle]
    /\ UNCHANGED <<head, stored, row, entry, left, count, countLeft, expireFailed>>

\* Mutant: the life is only set on keys that have one.
Expire_Renews(h) ==
    /\ op[h].pc = "expire"
    /\ left' = IF left = 0 THEN 0 ELSE BalanceTTL
    /\ op' = [op EXCEPT ![h] = Idle]
    /\ UNCHANGED <<head, stored, row, entry, count, countLeft, expireFailed>>

\* Mutant: the life is added to what is left.
Expire_Adds(h) ==
    /\ op[h].pc = "expire"
    /\ left' = IF entry = NoBalance THEN 0 ELSE left + BalanceTTL
    /\ op' = [op EXCEPT ![h] = Idle]
    /\ UNCHANGED <<head, stored, row, entry, count, countLeft, expireFailed>>

\* Second command: EXPIRE has no effect on a key that is gone.
Expire(h) ==
    /\ op[h].pc = "expire"
    /\ left' = IF entry = NoBalance THEN 0 ELSE BalanceTTL
    /\ op' = [op EXCEPT ![h] = Idle]
    /\ UNCHANGED <<head, stored, row, entry, count, countLeft, expireFailed>>

ExpireFails(h) ==
    /\ Faults
    /\ op[h].pc = "expire"
    /\ op' = [op EXCEPT ![h] = Idle]
    /\ expireFailed' = TRUE
    /\ UNCHANGED <<head, stored, row, entry, left, count, countLeft>>

-----------------------------------------------------------------------------
(* getStoredTransactionCount                                               *)

\* getCachedTransactionCount: no count, or an error; zero is taken for none.
NoCachedCount == count \in {none, 0} \/ Faults

GetTransactionCount(h) ==
    /\ op[h] = Idle
    /\ NoCachedCount
    /\ op' = [op EXCEPT ![h] = [pc |-> "cacheCount", balance |-> NoBalance,
                                count |-> stored]]
    /\ UNCHANGED <<head, stored, row, entry, left, count, countLeft, expireFailed>>

\* Mutant: a count that is cached already is kept alive.
SetCount_Kept(h) ==
    /\ op[h].pc = "cacheCount"
    /\ count' = IF count = none THEN op[h].count ELSE count
    /\ countLeft' = CountTTL
    /\ op' = [op EXCEPT ![h] = Idle]
    /\ UNCHANGED <<head, stored, row, entry, left, expireFailed>>

\* setCachedTransactionCount: value and life in one command
SetCount(h) ==
    /\ op[h].pc = "cacheCount"
    /\ count' = op[h].count
    /\ countLeft' = CountTTL
    /\ op' = [op EXCEPT ![h] = Idle]
    /\ UNCHANGED <<head, stored, row, entry, left, expireFailed>>

SetCountFails(h) ==
    /\ Faults
    /\ op[h].pc = "cacheCount"
    /\ op' = [op EXCEPT ![h] = Idle]
    /\ UNCHANGED <<head, stored, row, entry, left, count, countLeft, expireFailed>>

-----------------------------------------------------------------------------
NewBlock ==
    /\ head < MaxBlock
    /\ head' = head + 1
    /\ UNCHANGED <<stored, row, entry, left, count, countLeft, op, expireFailed>>

\* The worker saves a transaction; it does not touch the cached count.
StoreTransaction ==
    /\ stored < MaxCount
    /\ stored' = stored + 1
    /\ UNCHANGED <<head, row, entry, left, count, countLeft, op, expireFailed>>

\* Redis: what has a life loses a unit of it, and goes with the last.
Tick ==
    /\ left + countLeft > 0
    /\ left' = IF left = 0 THEN 0 ELSE left - 1
    /\ entry' = IF left = 1 THEN NoBalance ELSE entry
    /\ countLeft' = IF countLeft = 0 THEN 0 ELSE countLeft - 1
    /\ count' = IF countLeft = 1 THEN none ELSE count
    /\ UNCHANGED <<head, stored, row, op, expireFailed>>

\* What a request does once it has begun, if no call fails
Answer(h) ==
    \/ \E field \in {"at", "block"} : ProviderAnswers(h, field)
    \/ SaveBalance(h) \/ HSet(h) \/ Expire(h) \/ SetCount(h)

Break(h) == ProviderFails(h) \/ HSetFails(h) \/ ExpireFails(h) \/ SetCountFails(h)

Next ==
    \/ \E h \in Handler : \/ StartFetch(h) \/ GetTransactionCount(h)
                          \/ Answer(h) \/ Break(h)
    \/ NewBlock \/ StoreTransaction \/ Tick

\* Requests go on and time passes.
Spec == /\ Init /\ [][Next]_vars
        /\ \A h \in Handler : WF_vars(Answer(h) \/ Break(h))
        /\ WF_vars(Tick)

-----------------------------------------------------------------------------
(* Properties                                                              *)

BalanceType == [at : none .. MaxBlock, block : none .. MaxBlock]

\* Every variable has its type.
TypeOK ==
    /\ head \in 0 .. MaxBlock
    /\ stored \in 0 .. MaxCount
    /\ row \in BalanceType
    /\ entry \in BalanceType
    /\ left \in 0 .. BalanceTTL
    /\ count \in none .. MaxCount
    /\ countLeft \in 0 .. CountTTL
    /\ op \in [Handler -> [pc : {"idle", "fetch", "hset", "expire", "cacheCount"},
                           balance : BalanceType, count : none .. MaxCount]]
    /\ expireFailed \in BOOLEAN

\* A cached balance without an end is one whose request is about to give it
\* one, unless that very command has failed (setCachedBalance is two
\* commands; README:700, "30-second TTL for ETH balances").
EndlessOnlyAfterFailure ==
    entry # NoBalance /\ left = 0 =>
        expireFailed \/ \E h \in Handler : op[h].pc = "expire"

\* When the chain and the table come to rest, so do the cached figures: an
\* answer computed before is not kept for good, though requests that read
\* before may write after those that read later.
FiguresConverge ==
    /\ [](~expireFailed) => <>[](entry \in {NoBalance, [at |-> head, block |-> head]})
    /\ <>[](count \in {none, stored})
=============================================================================
