----------------------------- MODULE GapFetch -----------------------------
(***************************************************************************)
(* processTransactionGap (modules/eth/tx/v1/tx.service.ts): the loop that  *)
(* pages through Etherscan by block number and then saves what it found,   *)
(* together with the coverage row [fromBlock, actualEndBlock], in one      *)
(* database transaction.  The address is fixed; Tx are its transactions.   *)
(* The chain below the requested end does not change while the loop runs   *)
(* (no reorganisation is handled by the code, and none is modelled).       *)
(***************************************************************************)
EXTENDS Ranges

CONSTANTS
    Tx,             \* the transactions of the address
    Chains,         \* the ways they may be spread over blocks
    Gap,            \* the ranges a job may be about
    BatchSize,      \* maxTransactionsPerBatch, 5000 in the code
    MaxIterations   \* the loop's safety limit, 100 in the code

ASSUME TxAssumption == IsFiniteSet(Tx) /\ Chains \subseteq [Tx -> Nat]

ASSUME GapAssumption ==
    /\ Gap \subseteq [fromBlock : Nat, toBlock : Nat]
    /\ \A g \in Gap : g.fromBlock <= g.toBlock

ASSUME BatchAssumption == BatchSize \in Nat \ {0} /\ MaxIterations \in Nat

VARIABLES
    blockOf,            \* the block each transaction is in; never changes
    gap,                \* fromBlock and toBlock, the job's range
    currentStartBlock,  \* where the next page starts
    iterationCount,
    actualEndBlock,     \* the last block believed fully fetched
    allTransactions,    \* what the pages returned so far
    stored,             \* transactions in the database
    coverage,           \* coverage rows in the database
    pc                  \* "fetching", "saving", "done", "failed"

vars == <<blockOf, gap, currentStartBlock, iterationCount, actualEndBlock,
          allTransactions, stored, coverage, pc>>

InBlocks(from, to) == InRange(Tx, blockOf, from, to)

(***************************************************************************)
(* What Etherscan answers to txlist with sort asc and page 1: the first    *)
(* BatchSize transactions of the range by block; which ones of the last    *)
(* block make it into a full page is its choice.                           *)
(***************************************************************************)
Pages(from, to) ==
    LET found == InBlocks(from, to)
    IN  {P \in SUBSET found :
            /\ \A t \in P, u \in found \ P : blockOf[t] <= blockOf[u]
            /\ \/ P = found /\ Cardinality(P) <= BatchSize
               \/ Cardinality(P) = BatchSize}

Init ==
    /\ blockOf \in Chains
    /\ gap \in Gap
    /\ currentStartBlock = gap.fromBlock
    /\ iterationCount = 0
    /\ actualEndBlock = gap.fromBlock - 1
    /\ allTransactions = {}
    /\ stored = {}
    /\ coverage = {}
    /\ pc = "fetching"

\* Mutant: a page is the last one although it is full.
LastPage_Full ==
    /\ pc = "fetching"
    /\ currentStartBlock <= gap.toBlock
    /\ \E page \in Pages(currentStartBlock, gap.toBlock) :
          allTransactions' = allTransactions \cup page
    /\ iterationCount' = iterationCount + 1
    /\ actualEndBlock' = gap.toBlock
    /\ pc' = "saving"
    /\ UNCHANGED <<blockOf, gap, currentStartBlock, stored, coverage>>

(***************************************************************************)
(* The page is not full (an empty one included): the range is exhausted.   *)
(***************************************************************************)
LastPage ==
    /\ pc = "fetching"
    /\ currentStartBlock <= gap.toBlock
    /\ \E page \in Pages(currentStartBlock, gap.toBlock) :
          /\ Cardinality(page) < BatchSize
          /\ allTransactions' = allTransactions \cup page
    /\ iterationCount' = iterationCount + 1
    /\ actualEndBlock' = gap.toBlock
    /\ pc' = "saving"
    /\ UNCHANGED <<blockOf, gap, currentStartBlock, stored, coverage>>

\* Mutant: two blocks back, so that three that hold a page are enough to stay.
NextStart_TwoBack(last) == blockOf[last] - 2

\* "Continue from the last block number - 1 (as per Etherscan docs)"
NextStart(last) == blockOf[last] - 1

\* Mutant: there is no safety limit.
LimitHit_Never(count) == FALSE

LimitHit(count) == count > MaxIterations

(***************************************************************************)
(* The page is full: only the blocks before its last one are known to be   *)
(* complete, and the next page starts one block before its last one.       *)
(***************************************************************************)
FullPage ==
    /\ pc = "fetching"
    /\ currentStartBlock <= gap.toBlock
    /\ \E page \in Pages(currentStartBlock, gap.toBlock) :
          /\ Cardinality(page) = BatchSize
          /\ allTransactions' = allTransactions \cup page
          /\ \E last \in page :
                /\ \A t \in page : blockOf[t] <= blockOf[last]
                /\ actualEndBlock' = Greater(actualEndBlock, blockOf[last] - 1)
                /\ currentStartBlock' = NextStart(last)
    /\ iterationCount' = iterationCount + 1
    /\ pc' = IF LimitHit(iterationCount') THEN "saving" ELSE "fetching"
    /\ UNCHANGED <<blockOf, gap, stored, coverage>>

\* Mutant: the coverage row names the range asked for, not the one got.
Save_WholeGap ==
    /\ pc = "saving"
    /\ stored' = stored \cup allTransactions
    /\ coverage' = coverage \cup {gap}
    /\ pc' = "done"
    /\ UNCHANGED <<blockOf, gap, currentStartBlock, iterationCount, actualEndBlock,
                   allTransactions>>

(***************************************************************************)
(* saveTransactionBatch: rows and coverage in one database transaction.    *)
(***************************************************************************)
Save ==
    /\ pc = "saving"
    /\ stored' = stored \cup allTransactions
    /\ coverage' = coverage \cup {Range2(gap.fromBlock, actualEndBlock)}
    /\ pc' = "done"
    /\ UNCHANGED <<blockOf, gap, currentStartBlock, iterationCount, actualEndBlock,
                   allTransactions>>

(***************************************************************************)
(* Etherscan, the progress callback or the database throws; the queue      *)
(* retries the job from the start, over whatever is stored by then.        *)
(***************************************************************************)
Fail ==
    /\ pc \in {"fetching", "saving"}
    /\ pc' = "failed"
    /\ UNCHANGED <<blockOf, gap, currentStartBlock, iterationCount, actualEndBlock,
                   allTransactions, stored, coverage>>

Retry ==
    /\ pc = "failed"
    /\ currentStartBlock' = gap.fromBlock
    /\ iterationCount' = 0
    /\ actualEndBlock' = gap.fromBlock - 1
    /\ allTransactions' = {}
    /\ pc' = "fetching"
    /\ UNCHANGED <<blockOf, gap, stored, coverage>>

Terminated == pc = "done" /\ UNCHANGED vars

Next == LastPage \/ FullPage \/ Save \/ Fail \/ Retry \/ Terminated

Spec == Init /\ [][Next]_vars

---------------------------------------------------------------------------
TypeOK ==
    /\ blockOf \in Chains
    /\ gap \in Gap
    /\ currentStartBlock \in Int
    /\ iterationCount \in 0 .. MaxIterations + 1
    /\ actualEndBlock \in (gap.fromBlock - 1) .. gap.toBlock
    /\ allTransactions \subseteq Tx
    /\ stored \subseteq Tx
    /\ coverage \subseteq BlockRange
    /\ pc \in {"fetching", "saving", "done", "failed"}

(***************************************************************************)
(* The coverage row processTransactionGap writes is a promise: every       *)
(* transaction in a covered block is in the table.  Holds however pages    *)
(* cut blocks, however often the job fails and wherever the loop stops.    *)
(***************************************************************************)
CoverageSound ==
    \A b \in UNION {BlocksOf(r) : r \in coverage} :
        InBlocks(b, b) \subseteq stored

\* Two neighbouring blocks that fill a page by themselves.
Dense == \E t \in Tx :
            Cardinality(InBlocks(blockOf[t] - 1, blockOf[t])) >= BatchSize

(***************************************************************************)
(* Stepping back one block after a full page still gets somewhere unless   *)
(* two neighbouring blocks fill a page: the number of pages is bounded by  *)
(* the blocks gone through, so the loop's safety limit is never what ends  *)
(* it for a range of fewer than MaxIterations blocks.                      *)
(***************************************************************************)
PagesAdvance ==
    ~Dense /\ pc = "fetching" =>
        iterationCount <= actualEndBlock - gap.fromBlock + 1

(***************************************************************************)
(* What one run hands to saveTransactionBatch is what TxPipeline takes a   *)
(* fetch to be: complete up to the end it claims, and up to the end of the *)
(* gap when the gap holds less than a page.                                *)
(***************************************************************************)
FetchContract ==
    pc = "saving" =>
        FetchAllowed(Tx, blockOf, gap, BatchSize, allTransactions, actualEndBlock)

===========================================================================
