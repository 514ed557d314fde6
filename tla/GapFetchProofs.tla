-------------------------- MODULE GapFetchProofs ---------------------------
(***************************************************************************)
(* processTransactionGap for every history of an address, every gap, every *)
(* page size and iteration limit: the coverage it writes is sound, what it *)
(* writes is within the contract TxPipeline relies on, and only a stretch  *)
(* of two blocks that fills a page can keep it from getting on.            *)
(***************************************************************************)
EXTENDS GapFetch, FiniteSetTheorems, TLAPS

Running == pc \in {"fetching", "saving"}

\* Everything up to actualEndBlock has been collected.
Collected == \A t \in Tx :
                blockOf[t] \in gap.fromBlock .. actualEndBlock => t \in allTransactions

\* The next page starts where the last one is complete, or before.
NoHole == currentStartBlock <= actualEndBlock + 1

\* The gap holds a page or more.
Full == Cardinality(InBlocks(gap.fromBlock, gap.toBlock)) >= BatchSize

\* Without dense blocks the next page starts at the last complete block.
Advancing == ~Dense /\ iterationCount > 0 => currentStartBlock = actualEndBlock

Inv ==
    /\ TypeOK
    /\ Running => Collected
    /\ pc = "fetching" =>
          /\ NoHole /\ Advancing
          /\ iterationCount <= MaxIterations
          /\ IF iterationCount = 0
             THEN currentStartBlock = gap.fromBlock /\ actualEndBlock = gap.fromBlock - 1
             ELSE Full
    /\ pc = "saving" => actualEndBlock = gap.toBlock \/ Full
    /\ PagesAdvance
    /\ CoverageSound

---------------------------------------------------------------------------
(***************************************************************************)
(* The constants' assumptions in the form the steps use.                   *)
(***************************************************************************)
LEMMA Shape ==
    ASSUME TypeOK
    PROVE  /\ \A t \in Tx : blockOf[t] \in Nat
           /\ gap.fromBlock \in Nat /\ gap.toBlock \in Nat
           /\ gap.fromBlock <= gap.toBlock
           /\ currentStartBlock \in Int /\ actualEndBlock \in Int
           /\ actualEndBlock >= gap.fromBlock - 1 /\ actualEndBlock <= gap.toBlock
           /\ iterationCount \in Nat
           /\ BatchSize \in Nat \ {0} /\ MaxIterations \in Nat
  BY TxAssumption, GapAssumption, BatchAssumption DEF TypeOK

(***************************************************************************)
(* A page holds transactions of its range; one left out is in no earlier   *)
(* block than one that is on it; a page that is not full leaves none out.  *)
(***************************************************************************)
LEMMA PageFacts ==
    ASSUME NEW from, NEW to, NEW page \in Pages(from, to)
    PROVE  /\ page \subseteq Tx
           /\ \A t \in page : blockOf[t] \in from .. to
           /\ \A u \in Tx : blockOf[u] \in from .. to /\ u \notin page =>
                 \A t \in page : blockOf[t] <= blockOf[u]
           /\ Cardinality(page) # BatchSize =>
                 \A u \in Tx : blockOf[u] \in from .. to => u \in page
  BY DEF Pages, InBlocks, InRange

(***************************************************************************)
(* Transactions in a range of blocks are finite and, if they include a     *)
(* full page, no fewer than BatchSize.                                     *)
(***************************************************************************)
LEMMA AtLeastAPage ==
    ASSUME NEW from, NEW to, NEW page \in SUBSET InBlocks(from, to),
           Cardinality(page) = BatchSize
    PROVE  Cardinality(InBlocks(from, to)) >= BatchSize
  <1>1. InBlocks(from, to) \in SUBSET Tx
    BY DEF InBlocks, InRange
  <1>2. IsFiniteSet(InBlocks(from, to))
    BY <1>1, FS_Subset, TxAssumption
  <1>3. /\ Cardinality(page) <= Cardinality(InBlocks(from, to))
        /\ Cardinality(InBlocks(from, to)) \in Nat
    BY <1>2, FS_Subset, FS_CardinalityType
  <1>. QED  BY <1>3, BatchAssumption

(***************************************************************************)
(* Coverage and stored transactions are all CoverageSound depends on.      *)
(***************************************************************************)
LEMMA CoverageSoundUnchanged ==
    CoverageSound /\ UNCHANGED <<blockOf, stored, coverage>> => CoverageSound'
  BY DEF CoverageSound, InBlocks, InRange, BlocksOf

LEMMA InitInv == Init => Inv
<1>. SUFFICES ASSUME Init PROVE Inv
  OBVIOUS
<1>1. TypeOK
  BY GapAssumption, BatchAssumption DEF Init, TypeOK, BlockRange
<1>2. Collected /\ NoHole
  BY <1>1, Shape DEF Init, Collected, NoHole
<1>3. PagesAdvance /\ CoverageSound
  BY <1>1, Shape DEF Init, PagesAdvance, CoverageSound
<1>4. Advancing /\ iterationCount <= MaxIterations
  BY <1>1, Shape DEF Init, Advancing
<1>. QED  BY <1>1, <1>2, <1>3, <1>4 DEF Init, Inv

LEMMA LastPageInv == Inv /\ LastPage => Inv'
<1>. SUFFICES ASSUME Inv, LastPage PROVE Inv'
  OBVIOUS
<1>1. PICK page \in Pages(currentStartBlock, gap.toBlock) :
         /\ Cardinality(page) < BatchSize
         /\ allTransactions' = allTransactions \cup page
  BY DEF LastPage
<1>2. /\ TypeOK /\ Collected /\ NoHole /\ iterationCount <= MaxIterations
      /\ actualEndBlock' = gap.toBlock /\ gap' = gap /\ blockOf' = blockOf
      /\ iterationCount' = iterationCount + 1 /\ pc' = "saving"
  BY DEF LastPage, Inv, Running
<1>3. /\ page \subseteq Tx
      /\ \A u \in Tx : blockOf[u] \in currentStartBlock .. gap.toBlock => u \in page
  <2>1. Cardinality(page) # BatchSize
    <3>1. CASE Cardinality(page) = BatchSize
      BY <1>1, <3>1, BatchAssumption
    <3>. QED  BY <3>1
  <2>. QED  BY <2>1, PageFacts
<1>4. TypeOK'
  BY <1>1, <1>2, <1>3, Shape DEF LastPage, TypeOK
<1>5. Collected'
  <2>. SUFFICES ASSUME NEW t \in Tx, blockOf[t] \in gap.fromBlock .. gap.toBlock
                PROVE  t \in allTransactions \cup page
    BY <1>1, <1>2 DEF Collected
  <2>1. CASE blockOf[t] <= actualEndBlock
    BY <2>1, <1>2, Shape DEF Collected
  <2>2. CASE blockOf[t] > actualEndBlock
    BY <2>2, <1>2, <1>3, Shape DEF NoHole
  <2>. QED  BY <2>1, <2>2, <1>2, Shape
<1>6. CoverageSound'
  BY CoverageSoundUnchanged DEF Inv, LastPage
<1>. QED  BY <1>2, <1>4, <1>5, <1>6 DEF Inv, PagesAdvance

(***************************************************************************)
(* A full page: what is left out of it is in its last block or behind.     *)
(***************************************************************************)
LEMMA FullPageInv == Inv /\ FullPage => Inv'
<1>. SUFFICES ASSUME Inv, FullPage PROVE Inv'
  OBVIOUS
<1>1. PICK page \in Pages(currentStartBlock, gap.toBlock) :
         /\ Cardinality(page) = BatchSize
         /\ allTransactions' = allTransactions \cup page
         /\ \E last \in page :
               /\ \A t \in page : blockOf[t] <= blockOf[last]
               /\ actualEndBlock' = Greater(actualEndBlock, blockOf[last] - 1)
               /\ currentStartBlock' = blockOf[last] - 1
  BY DEF FullPage, NextStart, LimitHit
<1>2. PICK last \in page :
         /\ \A t \in page : blockOf[t] <= blockOf[last]
         /\ actualEndBlock' = Greater(actualEndBlock, blockOf[last] - 1)
         /\ currentStartBlock' = blockOf[last] - 1
  BY <1>1
<1>3. /\ TypeOK /\ Collected /\ NoHole /\ Advancing
      /\ iterationCount <= MaxIterations
      /\ iterationCount = 0 => /\ currentStartBlock = gap.fromBlock
                               /\ actualEndBlock = gap.fromBlock - 1
      /\ iterationCount > 0 => Full
      /\ ~Dense => iterationCount <= actualEndBlock - gap.fromBlock + 1
      /\ gap' = gap /\ blockOf' = blockOf
      /\ iterationCount' = iterationCount + 1
      /\ pc' \in {"fetching", "saving"}
      /\ pc' = "fetching" => iterationCount' <= MaxIterations
  <2>1. TypeOK /\ pc = "fetching"
    BY DEF FullPage, NextStart, LimitHit, Inv
  <2>. QED  BY <2>1, Shape DEF FullPage, NextStart, LimitHit, Inv, Running, PagesAdvance
<1>4. /\ page \subseteq Tx /\ last \in Tx
      /\ \A t \in page : blockOf[t] \in currentStartBlock .. gap.toBlock
      /\ \A u \in Tx : blockOf[u] \in currentStartBlock .. gap.toBlock /\ u \notin page =>
            \A t \in page : blockOf[t] <= blockOf[u]
  BY PageFacts
<1>5. /\ blockOf[last] \in Nat /\ blockOf[last] \in currentStartBlock .. gap.toBlock
      /\ actualEndBlock' \in Int
      /\ actualEndBlock' >= actualEndBlock /\ actualEndBlock' >= blockOf[last] - 1
      /\ actualEndBlock' = actualEndBlock \/ actualEndBlock' = blockOf[last] - 1
  BY <1>2, <1>3, <1>4, Shape DEF Greater
<1>6. TypeOK'
  BY <1>1, <1>2, <1>3, <1>4, <1>5, Shape DEF FullPage, NextStart, LimitHit, TypeOK
<1>7. Collected'
  <2>. SUFFICES ASSUME NEW t \in Tx, blockOf[t] \in gap.fromBlock .. actualEndBlock'
                PROVE  t \in allTransactions \cup page
    BY <1>1, <1>3 DEF Collected
  <2>1. CASE blockOf[t] <= actualEndBlock
    BY <2>1, <1>3, Shape DEF Collected
  <2>2. CASE blockOf[t] > actualEndBlock
    <3>1. blockOf[t] < blockOf[last] /\ blockOf[t] \in currentStartBlock .. gap.toBlock
      BY <2>2, <1>3, <1>5, Shape DEF NoHole
    <3>. QED  BY <3>1, <1>3, <1>4, <1>5, Shape
  <2>. QED  BY <2>1, <2>2, <1>3, Shape
<1>8. NoHole'
  BY <1>2, <1>3, <1>5 DEF NoHole
<1>9. Full'
  <2>1. CASE iterationCount = 0
    <3>1. page \in SUBSET InBlocks(gap.fromBlock, gap.toBlock)
      BY <2>1, <1>3, <1>4 DEF InBlocks, InRange
    <3>2. Full
      BY <3>1, <1>1, AtLeastAPage DEF Full
    <3>. QED  BY <3>2, <1>3 DEF Full, InBlocks, InRange
  <2>2. CASE iterationCount > 0
    BY <2>2, <1>3 DEF Full, InBlocks, InRange
  <2>. QED  BY <2>1, <2>2, <1>3, Shape
<1>10. Dense' <=> Dense
  BY <1>3 DEF Dense, InBlocks, InRange
<1>11. ASSUME ~Dense
       PROVE  blockOf[last] > currentStartBlock + 1
  <2>. SUFFICES ASSUME blockOf[last] <= currentStartBlock + 1 PROVE FALSE
    BY <1>3, <1>5, Shape
  <2>1. \A t \in page : t \in Tx /\ blockOf[t] \in (blockOf[last] - 1) .. blockOf[last]
    BY <1>2, <1>3, <1>4, <1>5, Shape
  <2>2. page \in SUBSET InBlocks(blockOf[last] - 1, blockOf[last])
    BY <2>1 DEF InBlocks, InRange
  <2>. QED  BY <2>2, <1>1, <1>4, <1>11, AtLeastAPage DEF Dense
<1>12. Advancing' /\ PagesAdvance'
  <2>. SUFFICES ASSUME ~Dense
                PROVE  /\ currentStartBlock' = actualEndBlock'
                       /\ iterationCount' <= actualEndBlock' - gap.fromBlock + 1
    BY <1>3, <1>10 DEF Advancing, PagesAdvance
  <2>1. blockOf[last] > currentStartBlock + 1
    BY <1>11
  <2>2. CASE iterationCount = 0
    BY <2>1, <2>2, <1>2, <1>3, <1>5, Shape DEF Greater
  <2>3. CASE iterationCount > 0
    <3>1. currentStartBlock = actualEndBlock
      BY <2>3, <1>3 DEF Advancing
    <3>. QED  BY <2>1, <3>1, <1>2, <1>3, <1>5, Shape DEF Greater
  <2>. QED  BY <2>2, <2>3, <1>3, Shape
<1>13. CoverageSound'
  BY CoverageSoundUnchanged DEF Inv, FullPage
<1>14. iterationCount' # 0
  BY <1>3, Shape
<1>. QED  BY <1>3, <1>6, <1>7, <1>8, <1>9, <1>12, <1>13, <1>14 DEF Inv

LEMMA SaveInv == Inv /\ Save => Inv'
<1>. SUFFICES ASSUME Inv, Save PROVE Inv'
  OBVIOUS
<1>1. /\ TypeOK /\ Collected /\ CoverageSound
      /\ gap' = gap /\ blockOf' = blockOf /\ pc' = "done"
      /\ stored' = stored \cup allTransactions
      /\ coverage' = coverage \cup {Range2(gap.fromBlock, actualEndBlock)}
  BY DEF Inv, Save, Running
<1>2. TypeOK'
  BY <1>1, Shape DEF Save, TypeOK, Range2, BlockRange
<1>3. CoverageSound'
  <2>. SUFFICES ASSUME NEW r \in coverage', NEW b \in BlocksOf(r),
                       NEW t \in Tx, blockOf[t] \in b .. b
                PROVE  t \in stored'
    BY <1>1 DEF CoverageSound, InBlocks, InRange, BlocksOf
  <2>1. CASE r \in coverage
    BY <2>1, <1>1 DEF CoverageSound, InBlocks, InRange
  <2>2. CASE r = Range2(gap.fromBlock, actualEndBlock)
    <3>1. b \in gap.fromBlock .. actualEndBlock /\ blockOf[t] = b
      BY <2>2, <1>1, Shape DEF BlocksOf, Range2
    <3>. QED  BY <3>1, <1>1 DEF Collected
  <2>. QED  BY <2>1, <2>2, <1>1
<1>. QED  BY <1>1, <1>2, <1>3 DEF Inv, Running, PagesAdvance

LEMMA FailInv == Inv /\ Fail => Inv'
<1>. SUFFICES ASSUME Inv, Fail PROVE Inv'
  OBVIOUS
<1>1. TypeOK' /\ pc' = "failed"
  BY DEF Inv, Fail, TypeOK
<1>2. CoverageSound'
  BY CoverageSoundUnchanged DEF Inv, Fail
<1>. QED  BY <1>1, <1>2 DEF Inv, Running, PagesAdvance

LEMMA RetryInv == Inv /\ Retry => Inv'
<1>. SUFFICES ASSUME Inv, Retry PROVE Inv'
  OBVIOUS
<1>1. /\ TypeOK /\ gap' = gap /\ blockOf' = blockOf /\ pc' = "fetching"
      /\ currentStartBlock' = gap.fromBlock /\ iterationCount' = 0
      /\ actualEndBlock' = gap.fromBlock - 1
  BY DEF Inv, Retry
<1>2. TypeOK'
  BY <1>1, Shape DEF Retry, TypeOK
<1>3. Collected' /\ NoHole' /\ Advancing' /\ PagesAdvance' /\ iterationCount' <= MaxIterations
  BY <1>1, Shape DEF Collected, NoHole, Advancing, PagesAdvance
<1>4. CoverageSound'
  BY CoverageSoundUnchanged DEF Inv, Retry
<1>. QED  BY <1>1, <1>2, <1>3, <1>4 DEF Inv

LEMMA StutterInv == Inv /\ UNCHANGED vars => Inv'
  BY DEF Inv, vars, TypeOK, Running, Collected, NoHole, Full, Advancing, Dense,
         PagesAdvance, CoverageSound, InBlocks, InRange, BlocksOf

LEMMA Invariance == Spec => []Inv
<1>1. Init => Inv
  BY InitInv
<1>2. Inv /\ [Next]_vars => Inv'
  <2>. SUFFICES ASSUME Inv, [Next]_vars PROVE Inv'
    OBVIOUS
  <2>1. CASE LastPage  BY <2>1, LastPageInv
  <2>2. CASE FullPage  BY <2>2, FullPageInv
  <2>3. CASE Save      BY <2>3, SaveInv
  <2>4. CASE Fail      BY <2>4, FailInv
  <2>5. CASE Retry     BY <2>5, RetryInv
  <2>6. CASE Terminated \/ UNCHANGED vars
    BY <2>6, StutterInv DEF Terminated
  <2>. QED  BY <2>1, <2>2, <2>3, <2>4, <2>5, <2>6 DEF Next
<1>. QED  BY <1>1, <1>2, PTL DEF Spec

(***************************************************************************)
(* Whatever pages Etherscan cuts, and however often the job fails and is   *)
(* retried: a block of a coverage row has all its transactions stored.     *)
(***************************************************************************)
THEOREM FetchCoverageSound == Spec => []CoverageSound
<1>1. Inv => CoverageSound
  BY DEF Inv
<1>. QED  BY <1>1, Invariance, PTL

(***************************************************************************)
(* What is handed to saveTransactionBatch keeps the contract TxPipeline    *)
(* assumes of a fetch: complete up to the end it names, and up to the end  *)
(* of the gap if the gap holds less than a page.                           *)
(***************************************************************************)
THEOREM FetchMeetsContract == Spec => []FetchContract
<1>1. Inv => FetchContract
  <2>. SUFFICES ASSUME Inv, pc = "saving"
                PROVE  FetchAllowed(Tx, blockOf, gap, BatchSize, allTransactions,
                                    actualEndBlock)
    BY DEF FetchContract
  <2>1. /\ TypeOK /\ Collected
        /\ actualEndBlock = gap.toBlock \/ Full
    BY DEF Inv, Running
  <2>2. InRange(Tx, blockOf, gap.fromBlock, gap.toBlock) \in SUBSET Tx
    BY DEF InRange
  <2>3. Cardinality(InRange(Tx, blockOf, gap.fromBlock, gap.toBlock)) \in Nat
    BY <2>2, FS_Subset, FS_CardinalityType, TxAssumption
  <2>4. Cardinality(InRange(Tx, blockOf, gap.fromBlock, gap.toBlock)) < BatchSize
           => actualEndBlock = gap.toBlock
    BY <2>1, <2>3, BatchAssumption DEF Full, InBlocks
  <2>5. InRange(Tx, blockOf, gap.fromBlock, actualEndBlock) \subseteq allTransactions
    BY <2>1 DEF Collected, InRange
  <2>. QED  BY <2>1, <2>4, <2>5 DEF FetchAllowed, TypeOK
<1>. QED  BY <1>1, Invariance, PTL

(***************************************************************************)
(* Unless two neighbouring blocks fill a page, each page gets at least one *)
(* block further, so the loop needs no more pages than the gap has blocks. *)
(***************************************************************************)
THEOREM FetchAdvances == Spec => []PagesAdvance
<1>1. Inv => PagesAdvance
  BY DEF Inv
<1>. QED  BY <1>1, Invariance, PTL

(***************************************************************************)
(* The loop's variables keep their types; actualEndBlock never leaves the  *)
(* gap, its first block's predecessor included.                            *)
(***************************************************************************)
THEOREM GapFetchTypes == Spec => []TypeOK
<1>1. Inv => TypeOK
  BY DEF Inv
<1>. QED  BY <1>1, Invariance, PTL
============================================================================
