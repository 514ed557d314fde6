------------------------------ MODULE TxPages ------------------------------
(***************************************************************************)
(* A client reads a whole query page by page.  Every page is a request of  *)
(* its own (getTransactions, tx.service.ts): it reads the latest block     *)
(* again, and may come from the result cache, the database, Etherscan, or, *)
(* after failures, half of the range or an incomplete database.  Meanwhile *)
(* the worker indexes the gaps handed over, entries expire and the chain   *)
(* grows.  The first request has found out about the address               *)
(* (ContractSearch).  What each store does by itself is in TxPipeline; here *)
(* it is about the order of rows and what the pages are together.          *)
(***************************************************************************)
EXTENDS ContractSearch, Ranges

CONSTANTS
    Query,      \* [to, order]; fromBlock is the default 0
    Tx,         \* the address's transactions, numbered along the chain
    Limit,      \* rows per page
    LastBlock,  \* bound: the chain grows up to here, longer ones are not read
    MaxEntries, \* bound: replies in the cache; further ones are not kept
    MaxPage     \* bound: pages a client asks for

ASSUME PagesAssumption ==
    /\ Query \subseteq [to : Nat \cup {NoBlock}, order : {"asc", "desc"}]
    /\ Tx \subseteq Nat /\ IsFiniteSet(Tx)
    /\ Limit \in Nat \ {0} /\ LastBlock \in Nat
    /\ MaxEntries \in Nat /\ MaxPage \in Nat \ {0}

VARIABLES
    blockOf,    \* the block of each transaction, those still to come included
    query,
    walk,       \* the client's progress and the request in flight
    indexed,    \* blocks the coverage table names
    stored,     \* rows of the transaction table
    wanted,     \* blocks on jobs that wait or run
    dropped,    \* whether a hand-over was lost or a job given up
    cache       \* replies by end block and page

pagesVars == <<blockOf, query, walk, indexed, stored, wanted, dropped, cache>>
vars == <<created, head, low, high, creationBlock, info, faulted, pc,
          blockOf, query, walk, indexed, stored, wanted, dropped, cache>>

\* first (the end block of the first page), doubt (some reply was incomplete or
\* of half the range) and seen (how often each transaction was delivered, as
\* long as there is no doubt) are history.
NewWalk == [step |-> "rest", page |-> 1, to |-> 0, gaps |-> {},
            first |-> NoBlock, seen |-> [t \in Tx |-> 0], doubt |-> FALSE]

\* The chain lists the transactions in order, a contract's after its creation.
Placed(b) == /\ \A t, u \in Tx : t < u => b[t] <= b[u]
             /\ \A t \in Tx : created <= b[t]

Init ==
    /\ SearchInit
    /\ query \in Query
    /\ blockOf \in IF head > LastBlock THEN {[t \in Tx |-> head]}
                   ELSE {b \in [Tx -> 0 .. LastBlock] : Placed(b)}
    /\ walk = NewWalk
    /\ indexed = {}
    /\ stored = {}
    /\ wanted = {}
    /\ dropped = FALSE
    /\ cache = {}

----------------------------------------------------------------------------
(* The two orders of rows *)

TxsIn(from, to) == {t \in Tx : blockOf[t] \in from .. to}

PageSlots(page) == (page - 1) * Limit .. page * Limit - 1

\* Etherscan: a page of txs in the order of the chain, or against it.
EtherscanPage(txs, page) ==
    {t \in txs : Cardinality({u \in txs : IF query.order = "asc" THEN u < t ELSE u > t})
                    \in PageSlots(page)}

\* The first n of rows, sorted by block only: ties fall as they fall.
Leading(rows, n) ==
    {P \in SUBSET rows :
        /\ Cardinality(P) = Lesser(n, Cardinality(rows))
        /\ \A t \in P, u \in rows \ P :
              IF query.order = "asc" THEN blockOf[t] <= blockOf[u]
                                     ELSE blockOf[t] >= blockOf[u]}

\* Mutant: skip is page * limit.
DatabasePages_SkipsOne(rows, page) ==
    {Q \ P : P \in Leading(rows, page * Limit), Q \in Leading(rows, (page + 1) * Limit)}

\* skip and take, on a sort that is a new one for every page.
DatabasePages(rows, page) ==
    UNION {{Q \ P : Q \in {Q \in Leading(rows, page * Limit) : P \subseteq Q}} :
              P \in Leading(rows, (page - 1) * Limit)}

----------------------------------------------------------------------------
(* One request *)

At(step) == walk.step = step

\* half is history: the reply does not say so.
Reply(txs, incomplete, half) == [txs |-> txs, incomplete |-> incomplete, half |-> half]

\* Mutant: a page is never longer than the limit, so there is always more.
HasMore_Always(reply) == Cardinality(reply.txs) <= Limit

HasMore(reply) == Cardinality(reply.txs) = Limit

\* The reply is sent; the client asks for the next page if there is more.
Deliver(reply) ==
    LET more  == HasMore(reply)
        doubt == walk.doubt \/ reply.incomplete \/ reply.half
    IN  walk' = [walk EXCEPT
           !.step = IF more THEN "rest" ELSE "end",
           !.page = IF more THEN @ + 1 ELSE @,
           !.to = 0,
           !.gaps = {},
           !.first = IF @ = NoBlock THEN walk.to ELSE @,
           !.seen = [t \in Tx |-> IF doubt THEN 0
                                  ELSE @[t] + IF t \in reply.txs THEN 1 ELSE 0],
           !.doubt = doubt]

KeyNow == [to |-> walk.to, page |-> walk.page]

Cached == {e \in cache : e.key = KeyNow}

(***************************************************************************)
(* The gaps are handed to the queue behind the reply.  What is lost: all   *)
(* of them when that fails, which is logged and nothing else, and jobs     *)
(* whose ids the queue keeps from jobs it has given up.                    *)
(***************************************************************************)
HandOver ==
    LET gaps == walk.gaps \ indexed
    IN  \E lost \in {{}} \cup (IF Faults THEN {gaps} ELSE {})
                         \cup (IF dropped THEN SUBSET gaps ELSE {}) :
           /\ wanted' = wanted \cup (gaps \ lost)
           /\ dropped' = (dropped \/ lost # {})

\* The reply is cached whatever its flag, then the gaps are handed over.
CacheAndDeliver(reply) ==
    /\ LET others == cache \ Cached
       IN  cache' = IF Cardinality(others) < MaxEntries
                    THEN others \cup {[key |-> KeyNow, reply |-> reply]} ELSE others
    /\ HandOver
    /\ Deliver(reply)

\* A toBlock of 0 counts as none.
ClampTo == IF query.to \in {NoBlock, 0} THEN head ELSE Lesser(query.to, head)

AskPage ==
    /\ pc = "done"
    /\ head <= LastBlock
    /\ At("rest")
    /\ walk.page <= MaxPage
    /\ walk' = [walk EXCEPT !.step = "cache", !.to = ClampTo]
    /\ UNCHANGED <<searchVars, blockOf, query, indexed, stored, wanted, dropped, cache>>

CacheHit ==
    /\ At("cache")
    /\ \E e \in Cached : Deliver(e.reply)
    /\ UNCHANGED <<searchVars, blockOf, query, indexed, stored, wanted, dropped, cache>>

\* A Redis that fails counts as a miss.
Missed == At("cache") /\ (Cached = {} \/ Faults)

\* Blocks marked as covered without a look: none if the creation is block 0.
BeforeCreation == IF info.isContract THEN 0 .. info.creationBlock - 1 ELSE {}

\* Case 1: the range ends before the creation.
ServeEmpty ==
    /\ Missed
    /\ walk.to \in BeforeCreation
    /\ indexed' = indexed \cup BeforeCreation
    /\ CacheAndDeliver(Reply({}, FALSE, FALSE))
    /\ UNCHANGED <<searchVars, blockOf, query, stored>>

\* Case 2 marks what is before the creation; then the coverage is read.
ReadCoverage ==
    /\ Missed
    /\ walk.to \notin BeforeCreation
    /\ indexed' = indexed \cup BeforeCreation
    /\ LET gaps == (StartingBlock(info) .. walk.to) \ indexed
       IN  walk' = [walk EXCEPT !.step = IF gaps = {} THEN "database" ELSE "etherscan",
                                !.gaps = gaps]
    /\ UNCHANGED <<searchVars, blockOf, query, stored, wanted, dropped, cache>>

RowsAsked == stored \cap TxsIn(StartingBlock(info), walk.to)

ServeDatabase ==
    /\ At("database")
    /\ \E txs \in DatabasePages(RowsAsked, walk.page) :
          CacheAndDeliver(Reply(txs, FALSE, FALSE))
    /\ UNCHANGED <<searchVars, blockOf, query, indexed, stored>>

ServeEtherscan ==
    /\ At("etherscan")
    /\ CacheAndDeliver(Reply(
          EtherscanPage(TxsIn(StartingBlock(info), walk.to), walk.page), FALSE, FALSE))
    /\ UNCHANGED <<searchVars, blockOf, query, indexed, stored>>

\* The full range times out; any other error leads to the fallback at once.
EtherscanFails ==
    /\ Faults
    /\ \/ At("etherscan") /\ \E s \in {"half", "fallback"} : walk' = [walk EXCEPT !.step = s]
       \/ At("half") /\ walk' = [walk EXCEPT !.step = "fallback"]
    /\ UNCHANGED <<searchVars, blockOf, query, indexed, stored, wanted, dropped, cache>>

\* The page is counted in the half, and called one of the full range.
ServeHalf ==
    /\ At("half")
    /\ LET half == HalfRange(Range2(StartingBlock(info), walk.to), query.order)
       IN  CacheAndDeliver(Reply(
              EtherscanPage(TxsIn(half.fromBlock, half.toBlock), walk.page), FALSE, TRUE))
    /\ UNCHANGED <<searchVars, blockOf, query, indexed, stored>>

\* Mutant: the gaps behind a fallback are not handed over.
ServeFallback_KeepsGaps ==
    /\ At("fallback")
    /\ \E txs \in DatabasePages(RowsAsked, walk.page) :
          /\ cache' = (cache \ Cached)
                \cup {[key |-> KeyNow, reply |-> Reply(txs, TRUE, FALSE)]}
          /\ Deliver(Reply(txs, TRUE, FALSE))
    /\ UNCHANGED <<searchVars, blockOf, query, indexed, stored, wanted, dropped>>

ServeFallback ==
    /\ At("fallback")
    /\ \E txs \in DatabasePages(RowsAsked, walk.page) :
          CacheAndDeliver(Reply(txs, TRUE, FALSE))
    /\ UNCHANGED <<searchVars, blockOf, query, indexed, stored>>

\* The client reads the query once more, or gives up and starts again.
Again ==
    /\ At("end") \/ (At("rest") /\ walk.page > MaxPage)
    /\ walk' = NewWalk
    /\ UNCHANGED <<searchVars, blockOf, query, indexed, stored, wanted, dropped, cache>>

----------------------------------------------------------------------------
(* Meanwhile *)

\* saveTransactionBatch of a job: a block and its transactions, at once.
IndexBlock(b) ==
    /\ wanted' = wanted \ {b}
    /\ indexed' = indexed \cup {b}
    /\ stored' = stored \cup TxsIn(b, b)
    /\ UNCHANGED <<searchVars, blockOf, query, walk, dropped, cache>>

Index == \E b \in wanted : IndexBlock(b)

\* The job of block b fails for good after its attempts, or completes without
\* b (a partial range, a chunk that is the job itself); nobody tries it again.
GiveUp ==
    /\ Faults
    /\ \E b \in wanted : wanted' = wanted \ {b}
    /\ dropped' = TRUE
    /\ UNCHANGED <<searchVars, blockOf, query, walk, indexed, stored, cache>>

ExpireEntry(page) ==
    /\ \E e \in cache : e.key.page = page /\ cache' = cache \ {e}
    /\ UNCHANGED <<searchVars, blockOf, query, walk, indexed, stored, wanted, dropped>>

NewBlock ==
    /\ pc = "done"
    /\ head < LastBlock
    /\ head' = head + 1
    /\ UNCHANGED <<created, low, high, creationBlock, info, faulted, pc, pagesVars>>

Search == SearchNext /\ UNCHANGED pagesVars

Terminated == pc = "done" /\ head > LastBlock /\ UNCHANGED vars

\* What a request does when its calls return.
Respond == \/ CacheHit \/ ServeEmpty \/ ReadCoverage \/ ServeDatabase
           \/ ServeEtherscan \/ ServeHalf \/ ServeFallback

Next == \/ Search \/ AskPage \/ Respond \/ EtherscanFails \/ Again
        \/ Index \/ GiveUp \/ (\E page \in 1 .. MaxPage : ExpireEntry(page)) \/ NewBlock
        \/ Terminated

(***************************************************************************)
(* Calls return in the end, the client reads on to the last page, a job    *)
(* that was queued ends, be it given up, and so does the life of an entry  *)
(* (300 seconds).  Nothing makes jobs succeed, calls fail, blocks appear   *)
(* or the client read again.                                               *)
(***************************************************************************)
Spec == /\ Init /\ [][Next]_vars
        /\ WF_vars(SearchStep /\ UNCHANGED pagesVars)
        /\ WF_vars(AskPage) /\ WF_vars(Respond)
        /\ WF_vars(Index \/ GiveUp)
        /\ \A page \in 1 .. MaxPage : WF_vars(ExpireEntry(page))

----------------------------------------------------------------------------
(* Properties *)

Replies == [txs : SUBSET Tx, incomplete : BOOLEAN, half : BOOLEAN]

TypeOK ==
    /\ SearchTypeOK
    /\ blockOf \in [Tx -> Nat]
    /\ query \in Query
    /\ walk \in [step : {"rest", "cache", "database", "etherscan", "half",
                         "fallback", "end"},
                 page : 1 .. MaxPage + 1, to : 0 .. head, gaps : SUBSET (0 .. head),
                 first : {NoBlock} \cup 0 .. head, seen : [Tx -> Nat],
                 doubt : BOOLEAN]
    /\ indexed \subseteq 0 .. head
    /\ stored \subseteq Tx
    /\ wanted \subseteq 0 .. head
    /\ dropped \in BOOLEAN
    /\ cache \subseteq [key : [to : 0 .. head, page : 1 .. MaxPage], reply : Replies]
    /\ \A e, f \in cache : e.key = f.key => e = f

\* The rows of block b the client got; one that came twice counts twice.
Delivered(b) == Cardinality(UNION {{t} \X (1 .. walk.seen[t]) : t \in TxsIn(b, b)})

(***************************************************************************)
(* A client that has read all pages, none of them incomplete or of half    *)
(* the range, got as many rows of each block as the block has transactions *)
(* of the address, whatever mixture of cache, database and Etherscan the   *)
(* pages came from and whatever was indexed in between.  Ascending, it got *)
(* no more: blocks that appear meanwhile come behind.  Descending they     *)
(* come in front and push rows already seen to the next page.  It is       *)
(* about numbers, not rows: with ties in the order by block only           *)
(* (getExistingTransactionsPaginated) a row may come twice and another one *)
(* of its block not at all.  A creation block above the true one (calls    *)
(* failed during the search) loses what is below it.                       *)
(***************************************************************************)
NothingMissed ==
    LET Finished == At("end") /\ ~walk.doubt
        Misled   == created < StartingBlock(info) /\ created # NoBlock
    IN  Finished /\ ~Misled =>
            \A b \in 0 .. walk.first :
                LET all == Cardinality(TxsIn(b, b))
                IN  IF query.order = "asc" THEN Delivered(b) = all ELSE Delivered(b) >= all

(***************************************************************************)
(* The search ends, and a client that reads on until hasMore is false      *)
(* comes to an end each time, also when the last page is full, and though  *)
(* pages come from several sources.                                        *)
(***************************************************************************)
WalkEnds == []<>(pc = "done" /\ (At("end") \/ head > LastBlock))

(***************************************************************************)
(* The flag of a fallback reply is cached with it and outlives the gaps it *)
(* was raised for, but not for ever.  It comes back again and again only   *)
(* if Etherscan goes on failing and, besides, a hand-over was lost or a    *)
(* job given up: else each fallback hands its gaps over, they are indexed, *)
(* and from then on the query is the database's (getTransactions,          *)
(* processGapsInBackground).                                               *)
(***************************************************************************)
FlagsClear ==
    \/ []<><<EtherscanFails>>_vars /\ <>dropped
    \/ <>[](\A e \in cache : ~e.reply.incomplete)
============================================================================
