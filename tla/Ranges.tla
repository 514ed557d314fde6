------------------------------ MODULE Ranges ------------------------------
(***************************************************************************)
(* Block ranges, the currency of the transaction subsystem: coverage rows, *)
(* gaps, queue jobs and timeout chunks are all inclusive ranges            *)
(* [fromBlock, toBlock].  The operators here say WHAT the loops of the     *)
(* code compute; GapFinder and JobSplitter model the loops themselves and  *)
(* are checked against them.  A range may be inverted by one,              *)
(* [k, k - 1]: processTransactionGap saves such a row when it could not    *)
(* finish its first block.                                                 *)
(***************************************************************************)
EXTENDS Integers, FiniteSets

BlockRange == [fromBlock : Int, toBlock : Int]

Range2(from, to) == [fromBlock |-> from, toBlock |-> to]

Lesser(m, n)  == IF m <= n THEN m ELSE n
Greater(m, n) == IF m >= n THEN m ELSE n

BlocksOf(r) == r.fromBlock .. r.toBlock

\* Number of blocks of a range, as the code computes it.
Size(r) == r.toBlock - r.fromBlock + 1

IsCovered(ranges, b) == \E r \in ranges : b \in BlocksOf(r)

(***************************************************************************)
(* getCoverageRanges: the rows of one address that overlap [from, to].     *)
(***************************************************************************)
Overlapping(ranges, from, to) ==
    {r \in ranges : r.toBlock >= from /\ r.fromBlock <= to}

(***************************************************************************)
(* findGapsInCoverage.  A gap starts at an uncovered block that is the     *)
(* first one requested or that follows the end of a row, ends at one that  *)
(* is the last one requested or that precedes the start of a row, and      *)
(* holds no other starting point.  An inverted row covers nothing and yet  *)
(* cuts a gap in two.                                                      *)
(***************************************************************************)
GapStarts(ranges, from, to) ==
    {b \in from .. to : /\ ~IsCovered(ranges, b)
                        /\ b = from \/ \E r \in ranges : r.toBlock + 1 = b}

GapEnds(ranges, from, to) ==
    {b \in from .. to : /\ ~IsCovered(ranges, b)
                        /\ b = to \/ \E r \in ranges : r.fromBlock - 1 = b}

GapsBetween(ranges, from, to) ==
    LET rows   == Overlapping(ranges, from, to)
        starts == GapStarts(rows, from, to)
        ends   == GapEnds(rows, from, to)
    IN  {g \in {Range2(s, e) : s \in starts, e \in ends} :
            /\ g.fromBlock <= g.toBlock
            /\ \A b \in BlocksOf(g) : ~IsCovered(rows, b)
            /\ \A b \in starts : b \in BlocksOf(g) => b = g.fromBlock}

(***************************************************************************)
(* The cut of a range in consecutive pieces of at most n blocks:           *)
(* queueGapsForProcessing cuts gaps into jobs, createSmallerChunks cuts a  *)
(* job that timed out into chunks.                                         *)
(***************************************************************************)
Pieces(r, n) ==
    {Range2(r.fromBlock + k * n,
            Lesser(r.fromBlock + (k + 1) * n - 1, r.toBlock)) :
        k \in 0 .. ((Size(r) - 1) \div n)}

(***************************************************************************)
(* splitBlockRange: the half that holds the first page of the answer.      *)
(***************************************************************************)
HalfRange(r, order) ==
    LET mid == (r.fromBlock + r.toBlock) \div 2
    IN  IF order = "asc" THEN Range2(r.fromBlock, mid)
                         ELSE Range2(mid + 1, r.toBlock)

(***************************************************************************)
(* What one run of processTransactionGap over range r may hand to the      *)
(* database for an address whose transactions are txs: the transactions    *)
(* got and the last block end it claims to be complete up to.  GapFetch is *)
(* checked to keep to it; TxPipeline relies on no more than this.          *)
(***************************************************************************)
InRange(txs, blockOf, from, to) == {t \in txs : blockOf[t] \in from .. to}

FetchAllowed(txs, blockOf, r, batch, got, end) ==
    /\ got \subseteq txs
    /\ end \in (r.fromBlock - 1) .. r.toBlock
    /\ InRange(txs, blockOf, r.fromBlock, end) \subseteq got
    /\ Cardinality(InRange(txs, blockOf, r.fromBlock, r.toBlock)) < batch
          => end = r.toBlock
===========================================================================
