---------------------------- MODULE JobSplitter ----------------------------
(***************************************************************************)
(* From ranges to queue jobs: createSmallerChunks (etherscan-helpers.ts)   *)
(* for a job whose Etherscan query timed out, and queueGapsForProcessing   *)
(* (queue/client.ts) for its chunks or for the gaps of a request.  The     *)
(* second makes two passes: one counts the jobs, one builds them, and each *)
(* job is numbered and delayed by its number.  One Next step is one        *)
(* iteration of one of the loops.  JobQueue goes on from the jobs.         *)
(***************************************************************************)
EXTENDS Ranges, Sequences

CONSTANTS
    GapLists,           \* what findGapsInCoverage may hand over
    TimedOut,           \* ranges of jobs that may time out
    MaxBlocksPerJob,
    ChunkSize

ASSUME SizesAssumption ==
    /\ MaxBlocksPerJob \in Nat \ {0}
    /\ ChunkSize \in Nat \ {0}

\* What GapFinder guarantees of the gaps of one request.
ASSUME GapListsAssumption ==
    /\ GapLists \subseteq Seq(BlockRange)
    /\ \A gs \in GapLists :
          /\ \A k \in 1 .. Len(gs) : gs[k].fromBlock <= gs[k].toBlock
          /\ \A j, k \in 1 .. Len(gs) :
                j < k => gs[j].toBlock < gs[k].fromBlock

ASSUME TimedOutAssumption ==
    /\ TimedOut \subseteq BlockRange
    /\ \A r \in TimedOut : r.fromBlock <= r.toBlock

VARIABLES
    source,             \* the range that timed out, <<>> for a request's gaps
    gaps,               \* the gaps to queue, or the chunks made so far
    k,                  \* the gap a pass looks at
    currentFromBlock,   \* where the next chunk or piece starts
    totalJobs,
    jobs,               \* built so far: range and number (currentJob)
    pc                  \* "chunk", "count", "build", "done"

splitVars == <<source, gaps, k, currentFromBlock, totalJobs, jobs, pc>>

Job == [fromBlock : Int, toBlock : Int, currentJob : Nat]

SplitInit ==
    /\ \/ /\ source = <<>>
          /\ gaps \in GapLists
          /\ currentFromBlock = 0
          /\ pc = "count"
       \/ \E r \in TimedOut :
          /\ source = <<r>>
          /\ gaps = <<>>
          /\ currentFromBlock = r.fromBlock
          /\ pc = "chunk"
    /\ k = 1
    /\ totalJobs = 0
    /\ jobs = <<>>

\* Mutant: a piece ends where the next one starts.
NextPiece_Shared(n, end) == Range2(currentFromBlock, Lesser(currentFromBlock + n, end))

\* One piece of at most n blocks from currentFromBlock, up to block end.
NextPiece(n, end) == Range2(currentFromBlock, Lesser(currentFromBlock + n - 1, end))

MakeChunk ==
    /\ pc = "chunk"
    /\ currentFromBlock <= source[1].toBlock
    /\ gaps' = Append(gaps, NextPiece(ChunkSize, source[1].toBlock))
    /\ currentFromBlock' = NextPiece(ChunkSize, source[1].toBlock).toBlock + 1
    /\ UNCHANGED <<source, k, totalJobs, jobs, pc>>

EndChunks ==
    /\ pc = "chunk"
    /\ currentFromBlock > source[1].toBlock
    /\ pc' = "count"
    /\ UNCHANGED <<source, gaps, k, currentFromBlock, totalJobs, jobs>>

\* Math.ceil(gapSize / MAX_BLOCKS_PER_JOB)
JobsFor(g) == (Size(g) + MaxBlocksPerJob - 1) \div MaxBlocksPerJob

CountGap ==
    /\ pc = "count"
    /\ k <= Len(gaps)
    /\ totalJobs' = totalJobs + JobsFor(gaps[k])
    /\ k' = k + 1
    /\ UNCHANGED <<source, gaps, currentFromBlock, jobs, pc>>

\* What the second pass starts the k-th gap with.
EnterGap(n) == IF n <= Len(gaps) THEN gaps[n].fromBlock ELSE 0

\* Mutant: the second pass goes on where the first one ended.
EndCount_KeepsIndex ==
    /\ pc = "count"
    /\ k > Len(gaps)
    /\ currentFromBlock' = EnterGap(1)
    /\ pc' = "build"
    /\ UNCHANGED <<source, gaps, k, totalJobs, jobs>>

\* Mutant: the second pass starts before the first gap.
EndCount_FromZero ==
    /\ pc = "count"
    /\ k > Len(gaps)
    /\ k' = 0
    /\ currentFromBlock' = EnterGap(1)
    /\ pc' = "build"
    /\ UNCHANGED <<source, gaps, totalJobs, jobs>>

EndCount ==
    /\ pc = "count"
    /\ k > Len(gaps)
    /\ k' = 1
    /\ currentFromBlock' = EnterGap(1)
    /\ pc' = "build"
    /\ UNCHANGED <<source, gaps, totalJobs, jobs>>

AddJob(r) == jobs' = Append(jobs, [fromBlock |-> r.fromBlock, toBlock |-> r.toBlock,
                                   currentJob |-> Len(jobs) + 1])

SmallGap ==
    /\ pc = "build"
    /\ k <= Len(gaps)
    /\ Size(gaps[k]) <= MaxBlocksPerJob
    /\ AddJob(gaps[k])
    /\ k' = k + 1
    /\ currentFromBlock' = EnterGap(k + 1)
    /\ UNCHANGED <<source, gaps, totalJobs, pc>>

LargeGapPiece ==
    /\ pc = "build"
    /\ k <= Len(gaps)
    /\ Size(gaps[k]) > MaxBlocksPerJob
    /\ LET piece == NextPiece(MaxBlocksPerJob, gaps[k].toBlock)
           more  == piece.toBlock + 1 <= gaps[k].toBlock
       IN  /\ AddJob(piece)
           /\ k' = IF more THEN k ELSE k + 1
           /\ currentFromBlock' = IF more THEN piece.toBlock + 1 ELSE EnterGap(k + 1)
    /\ UNCHANGED <<source, gaps, totalJobs, pc>>

AddBulk ==
    /\ pc = "build"
    /\ k > Len(gaps)
    /\ pc' = "done"
    /\ UNCHANGED <<source, gaps, k, currentFromBlock, totalJobs, jobs>>

SplitNext == \/ MakeChunk \/ EndChunks \/ CountGap \/ EndCount
             \/ SmallGap \/ LargeGapPiece

---------------------------------------------------------------------------
SplitTypeOK ==
    /\ source \in {<<>>} \cup {<<r>> : r \in TimedOut}
    /\ gaps \in Seq(BlockRange)
    /\ k \in 1 .. Len(gaps) + 1
    /\ currentFromBlock \in Int
    /\ totalJobs \in Nat
    /\ jobs \in Seq(Job)
    /\ pc \in {"chunk", "count", "build", "done"}

\* What was asked for: the gaps, or the one range that timed out.
Asked == IF source = <<>> THEN {gaps[n] : n \in 1 .. Len(gaps)} ELSE {source[1]}

(***************************************************************************)
(* The jobs cut what was asked for into pieces: no block is lost, none is  *)
(* given to two jobs (job ids stay distinct), no job is empty or above the *)
(* limit.  The two passes over the gaps agree on the number of jobs,       *)
(* however small and large gaps alternate.                                 *)
(***************************************************************************)
JobsPartition ==
    pc = "done" =>
        /\ UNION {BlocksOf(jobs[n]) : n \in 1 .. Len(jobs)}
              = UNION {BlocksOf(r) : r \in Asked}
        /\ \A m, n \in 1 .. Len(jobs) :
              m < n => jobs[m].toBlock < jobs[n].fromBlock
        /\ \A n \in 1 .. Len(jobs) :
              1 <= Size(jobs[n]) /\ Size(jobs[n]) <= MaxBlocksPerJob
        /\ totalJobs = Len(jobs)

(***************************************************************************)
(* The loops compute Pieces, the operator TxPipeline uses for them.        *)
(***************************************************************************)
PiecesAsSpecified ==
    pc = "done" =>
        /\ {Range2(jobs[n].fromBlock, jobs[n].toBlock) : n \in 1 .. Len(jobs)}
              = UNION {Pieces(gaps[n], MaxBlocksPerJob) : n \in 1 .. Len(gaps)}
        /\ source # <<>> =>
              {gaps[n] : n \in 1 .. Len(gaps)} = Pieces(source[1], ChunkSize)
============================================================================
