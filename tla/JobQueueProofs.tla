--------------------------- MODULE JobQueueProofs ---------------------------
(***************************************************************************)
(* What holds of JobSplitter and JobQueue for every list of gaps, every    *)
(* range that times out, all sizes, rates and numbers of mishaps.          *)
(***************************************************************************)
EXTENDS JobQueue, FiniteSetTheorems, SequenceTheorems, TLAPS

-----------------------------------------------------------------------------
(* Pieces by their number *)

\* Piece i of range r, counted from 0, where pieces have n blocks.
Piece(r, n, i) ==
    Range2(r.fromBlock + i * n, Lesser(r.fromBlock + (i + 1) * n - 1, r.toBlock))

\* A range with blocks in it.
IsRange(r) == r \in BlockRange /\ r.fromBlock <= r.toBlock

(***************************************************************************)
(* Division by a block count, the one fact about it that is needed.        *)
(***************************************************************************)
LEMMA Division ==
    ASSUME NEW n \in Nat \ {0}, NEW d \in Nat
    PROVE  /\ d \div n \in Nat
           /\ (d \div n) * n <= d /\ d < (d \div n) * n + n
  OBVIOUS

(***************************************************************************)
(* Of a range of s blocks piece i exists if it starts within the range.    *)
(***************************************************************************)
LEMMA PieceNumbers ==
    ASSUME NEW n \in Nat \ {0}, NEW s \in Nat \ {0}, NEW i \in Nat
    PROVE  i \in 0 .. ((s - 1) \div n) <=> i * n < s
  <1>. DEFINE q == (s - 1) \div n
  <1>1. q \in Nat /\ q * n <= s - 1 /\ s - 1 < q * n + n
    <2>1. s - 1 \in Nat
      OBVIOUS
    <2>. QED  BY <2>1, Division
  <1>. HIDE DEF q
  <1>2. i * n \in Nat /\ q * n \in Nat /\ (q + 1) * n = q * n + n
    BY <1>1
  <1>3. i <= q => i * n <= q * n
    BY <1>1
  <1>4. q + 1 <= i => (q + 1) * n <= i * n
    BY <1>1
  <1>5. i <= q <=> i * n < s
    BY <1>1, <1>2, <1>3, <1>4
  <1>. QED  BY <1>1, <1>5 DEF q

(***************************************************************************)
(* Math.ceil: a range whose last piece is piece c - 1 counts as c jobs.    *)
(***************************************************************************)
LEMMA CeilCounts ==
    ASSUME NEW n \in Nat \ {0}, NEW s \in Nat \ {0}, NEW c \in Nat \ {0},
           (c - 1) * n < s, s <= c * n
    PROVE  (s + n - 1) \div n = c
  <1>. DEFINE q == (s + n - 1) \div n
  <1>1. q \in Nat /\ q * n <= s + n - 1 /\ s + n - 1 < q * n + n
    <2>1. s + n - 1 \in Nat
      OBVIOUS
    <2>. QED  BY <2>1, Division
  <1>. HIDE DEF q
  <1>2. (c - 1) * n = c * n - n /\ c * n \in Nat /\ q * n \in Nat
        /\ (q + 1) * n = q * n + n /\ (c + 1) * n = c * n + n
    BY <1>1
  <1>3. q + 1 <= c => (q + 1) * n <= c * n
    BY <1>1
  <1>4. c + 1 <= q => (c + 1) * n <= q * n
    BY <1>1
  <1>5. q = c
    <2>1. ~ (q + 1 <= c)
      <3>. SUFFICES ASSUME q + 1 <= c PROVE FALSE
        OBVIOUS
      <3>1. q * n + n <= c * n
        BY <1>2, <1>3
      <3>. QED  BY <1>1, <1>2, <3>1
    <2>2. ~ (c + 1 <= q)
      BY <1>1, <1>2, <1>4
    <2>. QED  BY <1>1, <2>1, <2>2
  <1>. QED  BY <1>5 DEF q

(***************************************************************************)
(* Pieces are the numbered pieces.                                         *)
(***************************************************************************)
LEMMA PiecesByNumber ==
    ASSUME NEW r, IsRange(r), NEW n \in Nat \ {0}, NEW p
    PROVE  p \in Pieces(r, n) <=>
              \E i \in Nat : i * n < Size(r) /\ p = Piece(r, n, i)
  <1>1. Size(r) \in Nat \ {0}
    BY DEF IsRange, BlockRange, Size
  <1>2. \A i \in Nat : i \in 0 .. ((Size(r) - 1) \div n) <=> i * n < Size(r)
    BY <1>1, PieceNumbers
  <1>. DEFINE Numbers == 0 .. ((Size(r) - 1) \div n)
  <1>3. Numbers \subseteq Nat
    OBVIOUS
  <1>4. p \in Pieces(r, n) <=> \E i \in Numbers : p = Piece(r, n, i)
    BY DEF Pieces, Piece
  <1>. HIDE DEF Numbers
  <1>. QED  BY <1>2, <1>3, <1>4 DEF Numbers

(***************************************************************************)
(* Where piece i starts and ends, that it is not empty nor too large, and  *)
(* that the next one starts behind it.                                     *)
(***************************************************************************)
LEMMA PieceBounds ==
    ASSUME NEW r, IsRange(r), NEW n \in Nat \ {0}, NEW i \in Nat, i * n < Size(r)
    PROVE  LET p == Piece(r, n, i)
           IN  /\ IsRange(p)
               /\ p.fromBlock = r.fromBlock + i * n
               /\ p.toBlock < r.fromBlock + (i + 1) * n
               /\ p.toBlock <= r.toBlock
               /\ 1 <= Size(p) /\ Size(p) <= n
               /\ p.toBlock + 1 <= r.toBlock <=> (i + 1) * n < Size(r)
               /\ (i + 1) * n < Size(r) => p.toBlock + 1 = r.fromBlock + (i + 1) * n
               /\ Size(r) <= (i + 1) * n => p.toBlock = r.toBlock
  <1>1. i * n \in Nat /\ (i + 1) * n = i * n + n
    OBVIOUS
  <1>. DEFINE x == i * n
              y == (i + 1) * n
  <1>2. x \in Nat /\ y = x + n /\ x < Size(r)
    BY <1>1
  <1>3. /\ Piece(r, n, i).fromBlock = r.fromBlock + x
        /\ Piece(r, n, i).toBlock = Lesser(r.fromBlock + y - 1, r.toBlock)
        /\ Piece(r, n, i) = Range2(r.fromBlock + x, Lesser(r.fromBlock + y - 1, r.toBlock))
    BY DEF Piece, Range2
  <1>. HIDE DEF x, y
  <1>. QED  BY <1>2, <1>3 DEF IsRange, BlockRange, Size, Lesser, Range2, x, y
-----------------------------------------------------------------------------
(* The inductive invariant of the splitter *)

\* Ranges that do not overlap, in order.
InOrder(list) ==
    /\ \A n \in 1 .. Len(list) : IsRange(list[n])
    /\ \A m, n \in 1 .. Len(list) : m < n => list[m].toBlock < list[n].fromBlock

\* The chunks are the first pieces of the range that timed out, and all of
\* them once the loop is left.
Chunked ==
    source # <<>> =>
        LET r == source[1]
        IN  /\ \A n \in 1 .. Len(gaps) : gaps[n] = Piece(r, ChunkSize, n - 1)
            /\ (Len(gaps) - 1) * ChunkSize < Size(r)
            /\ IF pc = "chunk"
               THEN currentFromBlock
                       = Lesser(r.fromBlock + Len(gaps) * ChunkSize, r.toBlock + 1)
               ELSE Size(r) <= Len(gaps) * ChunkSize

\* sum adds up the jobs of the first n gaps, as the first pass counts them.
AddsUp(sum, n) ==
    /\ sum[0] = 0
    /\ \A j \in Nat : sum[j] \in Nat
    /\ \A j \in 1 .. n : sum[j] = sum[j - 1] + JobsFor(gaps[j])

\* Piece i of gap j has its job once c pieces of gap k have one.
IsBuilt(j, i, c) ==
    /\ i * MaxBlocksPerJob < Size(gaps[j])
    /\ j < k \/ (j = k /\ i < c)

RangeOf(job) == Range2(job.fromBlock, job.toBlock)

\* The second pass has built the pieces of the gaps before k and the first c
\* pieces of gap k, in order, and stands at the next one.
BuiltUpTo(c) ==
    /\ \A n \in 1 .. Len(jobs) : \E j \in 1 .. Len(gaps), i \in Nat :
          IsBuilt(j, i, c) /\ RangeOf(jobs[n]) = Piece(gaps[j], MaxBlocksPerJob, i)
    /\ \A j \in 1 .. Len(gaps), i \in Nat : IsBuilt(j, i, c) =>
          \E n \in 1 .. Len(jobs) :
             RangeOf(jobs[n]) = Piece(gaps[j], MaxBlocksPerJob, i)
    /\ \A m, n \in 1 .. Len(jobs) : m < n => jobs[m].toBlock < jobs[n].fromBlock
    /\ IF k <= Len(gaps)
       THEN /\ c * MaxBlocksPerJob < Size(gaps[k])
            /\ currentFromBlock = gaps[k].fromBlock + c * MaxBlocksPerJob
       ELSE c = 0

\* Both passes count the same jobs.
Counted ==
    \E sum : /\ AddsUp(sum, IF pc \in {"chunk", "count"} THEN k - 1 ELSE Len(gaps))
             /\ pc \in {"chunk", "count"} => totalJobs = sum[k - 1] /\ jobs = <<>>
             /\ pc \in {"build", "done"} =>
                   /\ totalJobs = sum[Len(gaps)]
                   /\ \E c \in Nat : Len(jobs) = sum[k - 1] + c /\ BuiltUpTo(c)

SplitInv ==
    /\ SplitTypeOK
    /\ pc = "chunk" => k = 1 /\ source # <<>>
    /\ pc = "done" => k = Len(gaps) + 1
    /\ pc # "chunk" => InOrder(gaps)
    /\ Chunked
    /\ Counted
\* The sums start from nothing.
LEMMA NothingYet == \E none : \A j \in Nat : none[j] = 0
  <1>. DEFINE none == [j \in Nat |-> 0]
  <1>1. \A j \in Nat : none[j] = 0
    OBVIOUS
  <1>. QED  BY <1>1

\* What the splitter starts from is of the kind it needs.
LEMMA SplitStarts ==
    ASSUME SplitInit
    PROVE  SplitInv
  <1>1. PICK none : AddsUp(none, 0) /\ none[0] = 0
    BY NothingYet DEF AddsUp
  <1>2. k = 1 /\ totalJobs = 0 /\ jobs = <<>>
    BY DEF SplitInit
  <1>3. ASSUME source = <<>>, gaps \in GapLists, currentFromBlock = 0, pc = "count"
        PROVE  SplitInv
    <2>1. gaps \in Seq(BlockRange) /\ Len(gaps) \in Nat
      BY <1>3, GapListsAssumption
    <2>2. InOrder(gaps)
      BY <1>3, <2>1, GapListsAssumption, ElementOfSeq DEF InOrder, IsRange
    <2>3. SplitTypeOK
      BY <1>2, <1>3, <2>1 DEF SplitTypeOK
    <2>4. Counted
      BY <1>1, <1>2, <1>3 DEF Counted
    <2>. QED  BY <1>2, <1>3, <2>2, <2>3, <2>4 DEF SplitInv, Chunked
  <1>4. ASSUME NEW r \in TimedOut, source = <<r>>, gaps = <<>>,
               currentFromBlock = r.fromBlock, pc = "chunk"
        PROVE  SplitInv
    <2>1. IsRange(r) /\ r.fromBlock \in Int /\ r.toBlock \in Int
      BY TimedOutAssumption DEF IsRange, BlockRange
    <2>2. gaps \in Seq(BlockRange) /\ Len(gaps) = 0 /\ source[1] = r /\ source # <<>>
      BY <1>4
    <2>3. SplitTypeOK
      BY <1>2, <1>4, <2>1, <2>2 DEF SplitTypeOK
    <2>4. Chunked
      <3>1. (0 - 1) * ChunkSize < Size(r) /\ 0 * ChunkSize = 0
        BY <2>1, SizesAssumption DEF Size, IsRange
      <3>2. r.fromBlock = Lesser(r.fromBlock + 0, r.toBlock + 1)
        BY <2>1 DEF Lesser, IsRange
      <3>. QED  BY <1>4, <2>1, <2>2, <3>1, <3>2 DEF Chunked
    <2>5. Counted
      BY <1>1, <1>2, <1>4 DEF Counted
    <2>. QED  BY <1>2, <1>4, <2>2, <2>3, <2>4, <2>5 DEF SplitInv
  <1>. QED  BY <1>3, <1>4 DEF SplitInit

\* What the types say of a step.
LEMMA SplitFacts ==
    ASSUME SplitTypeOK
    PROVE  /\ Len(gaps) \in Nat /\ Len(jobs) \in Nat
           /\ \A n \in 1 .. Len(gaps) : gaps[n] \in BlockRange
           /\ \A n \in 1 .. Len(jobs) : jobs[n] \in Job
           /\ source # <<>> => IsRange(source[1]) /\ source[1] \in TimedOut
  <1>1. source # <<>> => source[1] \in TimedOut
    BY DEF SplitTypeOK
  <1>. QED  BY <1>1, TimedOutAssumption, ElementOfSeq DEF SplitTypeOK, IsRange

\* The gaps counted so far are counted as before when the list grows behind
\* them.
LEMMA MakeChunkKeeps ==
    ASSUME SplitInv, MakeChunk
    PROVE  SplitInv'
  <1>. DEFINE r == source[1]
              c == Len(gaps)
              at == c * ChunkSize
              p == Piece(r, ChunkSize, c)
  <1>1. /\ IsRange(r) /\ c \in Nat /\ ChunkSize \in Nat \ {0}
        /\ source # <<>> /\ pc = "chunk" /\ k = 1
        /\ r.fromBlock \in Int /\ r.toBlock \in Int
    BY SplitFacts, SizesAssumption DEF SplitInv, MakeChunk, IsRange, BlockRange
  <1>2. at \in Nat /\ (c + 1) * ChunkSize = at + ChunkSize
    BY <1>1
  <1>3. /\ currentFromBlock = Lesser(r.fromBlock + at, r.toBlock + 1)
        /\ currentFromBlock <= r.toBlock
    BY <1>1 DEF SplitInv, Chunked, MakeChunk
  <1>4. currentFromBlock = r.fromBlock + at /\ at < Size(r)
    BY <1>1, <1>2, <1>3 DEF Lesser, Size
  <1>5. NextPiece(ChunkSize, r.toBlock) = p
    BY <1>1, <1>2, <1>4 DEF NextPiece, Piece
  <1>6. /\ gaps' = Append(gaps, p)
        /\ currentFromBlock' = p.toBlock + 1
        /\ UNCHANGED <<source, k, totalJobs, jobs, pc>>
    BY <1>5 DEF MakeChunk
  <1>7. p \in BlockRange /\ IsRange(p) /\ p.toBlock \in Int
    BY <1>1, <1>4, PieceBounds DEF IsRange, BlockRange
  <1>8. /\ gaps' \in Seq(BlockRange) /\ Len(gaps') = c + 1
        /\ \A n \in 1 .. c : gaps'[n] = gaps[n]
        /\ gaps'[c + 1] = p
    BY <1>6, <1>7, AppendProperties DEF SplitInv, SplitTypeOK
  <1>9. SplitTypeOK'
    BY <1>1, <1>6, <1>7, <1>8 DEF SplitInv, SplitTypeOK
  <1>10. Chunked'
    <2>1. \A n \in 1 .. Len(gaps') : gaps'[n] = Piece(r, ChunkSize, n - 1)
      <3>1. \A n \in 1 .. c : gaps[n] = Piece(r, ChunkSize, n - 1)
        BY <1>1 DEF SplitInv, Chunked
      <3>2. \A n \in 1 .. c + 1 : n \in 1 .. c \/ n = c + 1
        BY <1>1
      <3>3. (c + 1) - 1 = c
        BY <1>1
      <3>. HIDE DEF c, p
      <3>. QED  BY <1>8, <3>1, <3>2, <3>3 DEF p
    <2>2. (Len(gaps') - 1) * ChunkSize < Size(r)
      <3>1. Len(gaps') - 1 = c
        BY <1>1, <1>8
      <3>. QED  BY <1>4, <3>1
    <2>3. p.toBlock + 1 = Lesser(r.fromBlock + (c + 1) * ChunkSize, r.toBlock + 1)
      <3>1. p.toBlock = Lesser(r.fromBlock + (c + 1) * ChunkSize - 1, r.toBlock)
        BY DEF Piece, Range2
      <3>. QED  BY <1>1, <1>2, <3>1 DEF Lesser
    <2>. HIDE DEF p, c
    <2>. QED  BY <1>1, <1>6, <1>8, <2>1, <2>2, <2>3 DEF Chunked
  <1>11. Counted'
    <2>1. PICK sum : AddsUp(sum, k - 1) /\ totalJobs = sum[k - 1] /\ jobs = <<>>
      BY <1>1 DEF SplitInv, Counted
    <2>2. AddsUp(sum, k - 1)'
      BY <1>1, <1>6, <2>1 DEF AddsUp
    <2>. QED  BY <1>1, <1>6, <2>1, <2>2 DEF Counted
  <1>. QED  BY <1>1, <1>6, <1>9, <1>10, <1>11 DEF SplitInv

\* The chunks are in order, as pieces are.
LEMMA EndChunksKeeps ==
    ASSUME SplitInv, EndChunks
    PROVE  SplitInv'
  <1>. DEFINE r == source[1]
              c == Len(gaps)
              at == c * ChunkSize
  <1>1. /\ IsRange(r) /\ c \in Nat /\ ChunkSize \in Nat \ {0}
        /\ source # <<>> /\ pc = "chunk" /\ k = 1
        /\ r.fromBlock \in Int /\ r.toBlock \in Int
    BY SplitFacts, SizesAssumption DEF SplitInv, EndChunks, IsRange, BlockRange
  <1>2. /\ pc' = "count" /\ UNCHANGED <<source, gaps, k, currentFromBlock, totalJobs, jobs>>
    BY DEF EndChunks
  <1>3. at \in Nat
    BY <1>1
  <1>4. /\ currentFromBlock = Lesser(r.fromBlock + at, r.toBlock + 1)
        /\ currentFromBlock > r.toBlock
        /\ (c - 1) * ChunkSize < Size(r)
        /\ \A n \in 1 .. c : gaps[n] = Piece(r, ChunkSize, n - 1)
    BY <1>1 DEF SplitInv, Chunked, EndChunks
  <1>5. Size(r) <= at
    BY <1>1, <1>3, <1>4 DEF Lesser, Size
  <1>6. Chunked'
    BY <1>1, <1>2, <1>4, <1>5 DEF Chunked
  <1>7. InOrder(gaps')
    <2>1. ASSUME NEW n \in 1 .. c
          PROVE  /\ IsRange(gaps[n])
                 /\ gaps[n].fromBlock = r.fromBlock + (n - 1) * ChunkSize
                 /\ gaps[n].toBlock < r.fromBlock + n * ChunkSize
      <3>1. n - 1 \in Nat /\ (n - 1) + 1 = n
        BY <1>1
      <3>2. (n - 1) * ChunkSize <= (c - 1) * ChunkSize
        BY <1>1
      <3>3. (n - 1) * ChunkSize < Size(r)
        <4>1. (n - 1) * ChunkSize \in Int /\ (c - 1) * ChunkSize \in Int /\ Size(r) \in Int
          BY <1>1 DEF Size
        <4>. QED  BY <1>4, <3>2, <4>1
      <3>4. gaps[n] = Piece(r, ChunkSize, n - 1)
        BY <1>4
      <3>5. /\ IsRange(Piece(r, ChunkSize, n - 1))
            /\ Piece(r, ChunkSize, n - 1).fromBlock = r.fromBlock + (n - 1) * ChunkSize
            /\ Piece(r, ChunkSize, n - 1).toBlock < r.fromBlock + ((n - 1) + 1) * ChunkSize
        BY <1>1, <3>1, <3>3, PieceBounds
      <3>. QED  BY <3>1, <3>4, <3>5
    <2>2. ASSUME NEW m \in 1 .. c, NEW n \in 1 .. c, m < n
          PROVE  gaps[m].toBlock < gaps[n].fromBlock
      <3>1. m * ChunkSize <= (n - 1) * ChunkSize
        BY <1>1, <2>2
      <3>2. m * ChunkSize \in Int /\ (n - 1) * ChunkSize \in Int
        BY <1>1
      <3>3. gaps[m].toBlock \in Int
        BY <2>1 DEF IsRange, BlockRange
      <3>. DEFINE x == m * ChunkSize
                  y == (n - 1) * ChunkSize
      <3>4. /\ x \in Int /\ y \in Int /\ x <= y
            /\ gaps[m].toBlock < r.fromBlock + x
            /\ gaps[n].fromBlock = r.fromBlock + y
        BY <2>1, <3>1, <3>2
      <3>. HIDE DEF x, y, r
      <3>. QED  BY <1>1, <3>3, <3>4
    <2>. QED  BY <1>2, <2>1, <2>2 DEF InOrder
  <1>8. SplitTypeOK'
    BY <1>2 DEF SplitInv, SplitTypeOK
  <1>9. Counted'
    <2>1. PICK sum : AddsUp(sum, k - 1) /\ totalJobs = sum[k - 1] /\ jobs = <<>>
      BY <1>1 DEF SplitInv, Counted
    <2>. QED  BY <1>2, <2>1 DEF Counted, AddsUp
  <1>. QED  BY <1>1, <1>2, <1>6, <1>7, <1>8, <1>9 DEF SplitInv

\* A sum of the gaps' jobs is one as long as the gaps stay.
LEMMA SumStays ==
    ASSUME NEW sum, NEW n, AddsUp(sum, n), UNCHANGED gaps
    PROVE  AddsUp(sum, n)'
  BY DEF AddsUp, JobsFor, Size

\* The first pass adds the jobs of one more gap.
LEMMA CountGapKeeps ==
    ASSUME SplitInv, CountGap
    PROVE  SplitInv'
  <1>1. /\ Len(gaps) \in Nat /\ k \in Nat \ {0} /\ k <= Len(gaps)
        /\ pc = "count" /\ InOrder(gaps)
        /\ totalJobs' = totalJobs + JobsFor(gaps[k]) /\ k' = k + 1
        /\ UNCHANGED <<source, gaps, currentFromBlock, jobs, pc>>
    BY SplitFacts DEF SplitInv, SplitTypeOK, CountGap
  <1>2. JobsFor(gaps[k]) \in Nat
    <2>1. Size(gaps[k]) + MaxBlocksPerJob - 1 \in Nat /\ MaxBlocksPerJob \in Nat \ {0}
      BY <1>1, SizesAssumption DEF InOrder, IsRange, BlockRange, Size
    <2>. QED  BY <2>1, Division DEF JobsFor
  <1>3. PICK sum : AddsUp(sum, k - 1) /\ totalJobs = sum[k - 1] /\ jobs = <<>>
    BY <1>1 DEF SplitInv, Counted
  <1>4. totalJobs \in Nat
    BY DEF SplitInv, SplitTypeOK
  <1>5. PICK m \in Nat \ {0}, total \in Nat :
           /\ m = k /\ total = totalJobs'
           /\ total = sum[m - 1] + JobsFor(gaps[m])
    <2>1. PICK count \in Nat : count = JobsFor(gaps[k])
      BY <1>2, Zenon
    <2>2. totalJobs' = totalJobs + count
      BY <1>1, <2>1, Zenon
    <2>3. totalJobs' \in Nat
      BY <1>4, <2>2
    <2>4. totalJobs' = sum[k - 1] + JobsFor(gaps[k])
      BY <1>1, <1>3, Zenon
    <2>. QED  BY <1>1, <2>3, <2>4, Zenon
  <1>10. PICK more : more[m] = total /\ \A j \in Nat \ {m} : more[j] = sum[j]
    <2>. DEFINE f == [j \in Nat |-> IF j = m THEN total ELSE sum[j]]
    <2>1. f[m] = total /\ \A j \in Nat \ {m} : f[j] = sum[j]
      OBVIOUS
    <2>. HIDE DEF f
    <2>. QED  BY <2>1
  <1>6. AddsUp(more, m)
    <2>1. /\ \A j \in Nat : more[j] \in Nat
          /\ more[m] = total /\ \A j \in Nat : j # m => more[j] = sum[j]
      <3>1. \A j \in Nat : sum[j] \in Nat
        BY <1>3 DEF AddsUp
      <3>2. ASSUME NEW j \in Nat
            PROVE  more[j] \in Nat
        <4>1. CASE j = m
          BY <1>5, <1>10, <4>1
        <4>2. CASE j # m
          BY <1>10, <3>1, <4>2
        <4>. QED  BY <4>1, <4>2
      <3>. QED  BY <1>10, <3>2
    <2>2. ASSUME NEW j \in 1 .. m
          PROVE  more[j] = more[j - 1] + JobsFor(gaps[j])
      <3>1. j \in Nat /\ j - 1 \in Nat /\ j - 1 # m
        OBVIOUS
      <3>2. CASE j = m
        BY <1>5, <2>1, <3>1, <3>2
      <3>3. CASE j # m
        <4>1. j \in 1 .. k - 1
          BY <1>5, <3>3
        <4>. QED  BY <1>3, <2>1, <3>1, <3>3, <4>1 DEF AddsUp
      <3>. QED  BY <3>2, <3>3
    <2>3. more[0] = 0
      BY <1>3, <2>1 DEF AddsUp
    <2>. QED  BY <2>1, <2>2, <2>3 DEF AddsUp
  <1>7. Counted'
    <2>1. k' - 1 = m /\ more[m] = totalJobs'
      BY <1>1, <1>4, <1>5, <1>10
    <2>2. AddsUp(more, m)'
      BY <1>1, <1>6, SumStays
    <2>3. AddsUp(more, k - 1)'
      BY <2>1, <2>2 DEF AddsUp
    <2>4. totalJobs' = more[k' - 1] /\ jobs' = <<>>
      BY <1>1, <1>3, <2>1
    <2>. QED  BY <1>1, <2>3, <2>4 DEF Counted
  <1>8. SplitTypeOK'
    <2>1. totalJobs' \in Nat /\ k' \in 1 .. Len(gaps) + 1
      BY <1>1, <1>5
    <2>. QED  BY <1>1, <2>1 DEF SplitInv, SplitTypeOK
  <1>9. Chunked' /\ InOrder(gaps')
    BY <1>1 DEF SplitInv, Chunked
  <1>. QED  BY <1>1, <1>7, <1>8, <1>9 DEF SplitInv

\* The second pass starts from the first gap again.
LEMMA EndCountKeeps ==
    ASSUME SplitInv, EndCount
    PROVE  SplitInv'
  <1>1. /\ Len(gaps) \in Nat /\ k = Len(gaps) + 1
        /\ pc = "count" /\ InOrder(gaps)
        /\ k' = 1 /\ pc' = "build" /\ currentFromBlock' = EnterGap(1)
        /\ UNCHANGED <<source, gaps, totalJobs, jobs>>
    BY SplitFacts DEF SplitInv, SplitTypeOK, EndCount
  <1>2. PICK sum : AddsUp(sum, k - 1) /\ totalJobs = sum[k - 1] /\ jobs = <<>>
    BY <1>1 DEF SplitInv, Counted
  <1>3. BuiltUpTo(0)'
    <2>1. Len(jobs') = 0
      BY <1>1, <1>2
    <2>2. \A j \in 1 .. Len(gaps), i \in Nat : ~ (j < 1 \/ (j = 1 /\ i < 0))
      BY <1>1
    <2>3. \A j \in 1 .. Len(gaps'), i \in Nat : ~ IsBuilt(j, i, 0)'
      BY <1>1, <2>2 DEF IsBuilt
    <2>4. ASSUME 1 <= Len(gaps)
          PROVE  /\ 0 * MaxBlocksPerJob < Size(gaps[1])
                 /\ EnterGap(1) = gaps[1].fromBlock + 0 * MaxBlocksPerJob
      <3>1. IsRange(gaps[1])
        BY <1>1, <2>4 DEF InOrder
      <3>. QED  BY <2>4, <3>1, SizesAssumption DEF IsRange, BlockRange, Size, EnterGap
    <2>. QED  BY <1>1, <2>1, <2>3, <2>4 DEF BuiltUpTo
  <1>4. Counted'
    <2>1. k - 1 = Len(gaps) /\ k' - 1 = 0 /\ Len(jobs) = 0
      BY <1>1, <1>2
    <2>2. AddsUp(sum, Len(gaps))'
      BY <1>1, <1>2, <2>1 DEF AddsUp
    <2>3. Len(jobs') = sum[k' - 1] + 0
      BY <1>1, <1>2, <2>1 DEF AddsUp
    <2>. QED  BY <1>1, <1>2, <1>3, <2>1, <2>2, <2>3 DEF Counted
  <1>5. SplitTypeOK'
    <2>1. currentFromBlock' \in Int
      BY <1>1 DEF EnterGap, InOrder, IsRange, BlockRange
    <2>. QED  BY <1>1, <2>1 DEF SplitInv, SplitTypeOK
  <1>6. Chunked' /\ InOrder(gaps')
    BY <1>1 DEF SplitInv, Chunked
  <1>. QED  BY <1>1, <1>4, <1>5, <1>6 DEF SplitInv
\* Both branches of the second pass build the next piece, the small gap as a
\* whole being its only one, and go on to the next gap after the last piece.
LEMMA NextJob ==
    ASSUME SplitInv, SmallGap \/ LargeGapPiece,
           NEW c \in Nat, BuiltUpTo(c), k <= Len(gaps)
    PROVE  LET g == gaps[k]
               p == Piece(g, MaxBlocksPerJob, c)
           IN  /\ IsRange(g) /\ c * MaxBlocksPerJob < Size(g)
               /\ jobs' = Append(jobs, [fromBlock |-> p.fromBlock, toBlock |-> p.toBlock,
                                        currentJob |-> Len(jobs) + 1])
               /\ UNCHANGED <<source, gaps, totalJobs, pc>>
               /\ pc = "build"
               /\ IF (c + 1) * MaxBlocksPerJob < Size(g)
                  THEN /\ k' = k
                       /\ currentFromBlock' = g.fromBlock + (c + 1) * MaxBlocksPerJob
                  ELSE k' = k + 1 /\ currentFromBlock' = EnterGap(k + 1)
  <1>. DEFINE g == gaps[k]
              p == Piece(g, MaxBlocksPerJob, c)
              at == c * MaxBlocksPerJob
              next == (c + 1) * MaxBlocksPerJob
  <1>1. MaxBlocksPerJob \in Nat \ {0} /\ pc = "build"
    BY SizesAssumption DEF SmallGap, LargeGapPiece
  <1>2. IsRange(g) /\ at < Size(g) /\ currentFromBlock = g.fromBlock + at
    BY <1>1, SplitFacts DEF SplitInv, SplitTypeOK, InOrder, BuiltUpTo
  <1>3. at \in Nat /\ next = at + MaxBlocksPerJob
        /\ g.fromBlock \in Int /\ g.toBlock \in Int
    BY <1>1, <1>2 DEF IsRange, BlockRange
  <1>4. CASE SmallGap
    <2>1. Size(g) <= MaxBlocksPerJob /\ Size(g) \in Nat
      BY <1>2, <1>4 DEF SmallGap, IsRange, BlockRange, Size
    <2>2. c = 0
      <3>1. 1 <= c => MaxBlocksPerJob <= at
        BY <1>1
      <3>. QED  BY <1>1, <1>2, <1>3, <2>1, <3>1
    <2>3. at = 0 /\ next = MaxBlocksPerJob
      BY <1>1, <2>2
    <2>4. p.fromBlock = g.fromBlock /\ p.toBlock = g.toBlock
      BY <1>1, <1>3, <2>1, <2>3 DEF Piece, Range2, Lesser, Size
    <2>. QED  BY <1>1, <1>2, <1>4, <2>1, <2>3, <2>4 DEF SmallGap, AddJob
  <1>5. CASE LargeGapPiece
    <2>1. NextPiece(MaxBlocksPerJob, g.toBlock) = p
      <3>1. p = Range2(g.fromBlock + at, Lesser(g.fromBlock + next - 1, g.toBlock))
        BY DEF Piece
      <3>. HIDE DEF p, at, next, g
      <3>2. currentFromBlock + MaxBlocksPerJob - 1 = g.fromBlock + next - 1
        BY <1>1, <1>2, <1>3
      <3>. QED  BY <1>2, <3>1, <3>2 DEF NextPiece
    <2>2. /\ p.toBlock + 1 <= g.toBlock <=> next < Size(g)
          /\ next < Size(g) => p.toBlock + 1 = g.fromBlock + next
      BY <1>1, <1>2, PieceBounds
    <2>3. /\ AddJob(p)
          /\ k' = IF p.toBlock + 1 <= g.toBlock THEN k ELSE k + 1
          /\ currentFromBlock' = IF p.toBlock + 1 <= g.toBlock THEN p.toBlock + 1
                                                             ELSE EnterGap(k + 1)
          /\ UNCHANGED <<source, gaps, totalJobs, pc>>
      BY <1>5, <2>1 DEF LargeGapPiece
    <2>. HIDE DEF p, g, next
    <2>4. next < Size(g) => k' = k /\ currentFromBlock' = g.fromBlock + next
      BY <2>2, <2>3
    <2>5. ~ (next < Size(g)) => k' = k + 1 /\ currentFromBlock' = EnterGap(k + 1)
      BY <2>2, <2>3
    <2>6. jobs' = Append(jobs, [fromBlock |-> p.fromBlock, toBlock |-> p.toBlock,
                                currentJob |-> Len(jobs) + 1])
      BY <2>3 DEF AddJob
    <2>. QED  BY <1>1, <1>2, <2>3, <2>4, <2>5, <2>6 DEF p, g, next
  <1>. QED  BY <1>4, <1>5

\* One more piece has its job, and no other.
LEMMA OneMoreBuilt ==
    ASSUME NEW c \in Nat, NEW d \in Nat, k \in Nat, UNCHANGED gaps,
           IsRange(gaps[k]), c * MaxBlocksPerJob < Size(gaps[k]),
           IF (c + 1) * MaxBlocksPerJob < Size(gaps[k])
              THEN k' = k /\ d = c + 1
              ELSE k' = k + 1 /\ d = 0,
           NEW j \in Nat, NEW i \in Nat
    PROVE  IsBuilt(j, i, d)' <=> (IsBuilt(j, i, c) \/ (j = k /\ i = c))
  <1>1. MaxBlocksPerJob \in Nat \ {0}
    BY SizesAssumption
  <1>2. IsBuilt(j, i, d)' <=> /\ i * MaxBlocksPerJob < Size(gaps[j])
                              /\ j < k' \/ (j = k' /\ i < d)
    BY DEF IsBuilt, Size
  <1>3. CASE (c + 1) * MaxBlocksPerJob < Size(gaps[k])
    BY <1>2, <1>3 DEF IsBuilt
  <1>4. CASE ~ ((c + 1) * MaxBlocksPerJob < Size(gaps[k]))
    <2>1. j = k /\ i * MaxBlocksPerJob < Size(gaps[j]) => i <= c
      <3>. SUFFICES ASSUME j = k, i * MaxBlocksPerJob < Size(gaps[k]), c + 1 <= i
                    PROVE  FALSE
        OBVIOUS
      <3>. DEFINE x == i * MaxBlocksPerJob
                  y == (c + 1) * MaxBlocksPerJob
      <3>1. x \in Nat /\ y \in Nat /\ y <= x
        BY <1>1
      <3>2. Size(gaps[k]) \in Nat /\ Size(gaps[k]) <= y /\ x < Size(gaps[k])
        BY <1>4, <3>1 DEF IsRange, BlockRange, Size
      <3>. HIDE DEF x, y
      <3>. QED  BY <3>1, <3>2
    <2>2. k' = k + 1 /\ d = 0
      BY <1>4
    <2>3. j < k + 1 \/ (j = k + 1 /\ i < 0) <=> j < k \/ j = k
      OBVIOUS
    <2>. QED  BY <1>2, <2>1, <2>2, <2>3 DEF IsBuilt
  <1>. QED  BY <1>3, <1>4

\* What is built ends before the next piece starts.
LEMMA BuiltEndsBefore ==
    ASSUME InOrder(gaps), k \in 1 .. Len(gaps), Len(gaps) \in Nat,
           NEW c \in Nat, NEW j \in 1 .. Len(gaps), NEW i \in Nat, IsBuilt(j, i, c)
    PROVE  Piece(gaps[j], MaxBlocksPerJob, i).toBlock
              < gaps[k].fromBlock + c * MaxBlocksPerJob
  <1>. DEFINE p == Piece(gaps[j], MaxBlocksPerJob, i)
              at == c * MaxBlocksPerJob
              next == (i + 1) * MaxBlocksPerJob
  <1>1. MaxBlocksPerJob \in Nat \ {0}
    BY SizesAssumption
  <1>2. IsRange(gaps[j]) /\ IsRange(gaps[k])
    BY DEF InOrder
  <1>3. i * MaxBlocksPerJob < Size(gaps[j])
    BY DEF IsBuilt
  <1>4. /\ IsRange(p)
        /\ p.toBlock < gaps[j].fromBlock + next
        /\ p.toBlock <= gaps[j].toBlock
    BY <1>1, <1>2, <1>3, PieceBounds
  <1>5. p.toBlock \in Int /\ gaps[j].toBlock \in Int /\ gaps[k].fromBlock \in Int
    BY <1>2, <1>4 DEF IsRange, BlockRange
  <1>6. at \in Nat /\ next \in Nat
    BY <1>1
  <1>7. CASE j < k
    <2>1. gaps[j].toBlock < gaps[k].fromBlock
      BY <1>7 DEF InOrder
    <2>. HIDE DEF p, at
    <2>. QED  BY <1>4, <1>5, <1>6, <2>1 DEF p, at
  <1>8. CASE j = k /\ i < c
    <2>1. next <= at
      BY <1>1, <1>8
    <2>. HIDE DEF p, at, next
    <2>2. p.toBlock < gaps[k].fromBlock + next
      BY <1>4, <1>8
    <2>3. p.toBlock < gaps[k].fromBlock + at
      BY <1>5, <1>6, <2>1, <2>2
    <2>. QED  BY <2>3 DEF p, at
  <1>. QED  BY <1>7, <1>8 DEF IsBuilt
\* The second pass builds one more job, behind the others.
LEMMA NextJobKeeps ==
    ASSUME SplitInv, SmallGap \/ LargeGapPiece
    PROVE  SplitInv'
  <1>. MaxBlocksPerJob \in Nat \ {0}
    BY SizesAssumption
  <1>1. /\ Len(gaps) \in Nat /\ Len(jobs) \in Nat /\ k \in Nat \ {0}
        /\ k <= Len(gaps) /\ pc = "build" /\ InOrder(gaps)
        /\ jobs \in Seq(Job)
    BY SplitFacts DEF SplitInv, SplitTypeOK, SmallGap, LargeGapPiece
  <1>2. PICK sum : /\ AddsUp(sum, Len(gaps)) /\ totalJobs = sum[Len(gaps)]
                   /\ \E c \in Nat : Len(jobs) = sum[k - 1] + c /\ BuiltUpTo(c)
    BY <1>1 DEF SplitInv, Counted
  <1>3. PICK c \in Nat : Len(jobs) = sum[k - 1] + c /\ BuiltUpTo(c)
    BY <1>2
  <1>4. PICK g, p, next, m : /\ g = gaps[k] /\ m = k
                             /\ p = Piece(gaps[k], MaxBlocksPerJob, c)
                             /\ next = (c + 1) * MaxBlocksPerJob
    OBVIOUS
  <1>5. /\ IsRange(g) /\ c * MaxBlocksPerJob < Size(g)
        /\ jobs' = Append(jobs, [fromBlock |-> p.fromBlock, toBlock |-> p.toBlock,
                                 currentJob |-> Len(jobs) + 1])
        /\ UNCHANGED <<source, gaps, totalJobs, pc>>
        /\ IF next < Size(g)
           THEN k' = k /\ currentFromBlock' = g.fromBlock + next
           ELSE k' = k + 1 /\ currentFromBlock' = EnterGap(k + 1)
    BY <1>1, <1>3, <1>4, NextJob
  <1>6. /\ IsRange(p) /\ p \in BlockRange
        /\ p.fromBlock = g.fromBlock + c * MaxBlocksPerJob
        /\ p.fromBlock \in Int /\ p.toBlock \in Int
    BY <1>4, <1>5, PieceBounds DEF IsRange, BlockRange
  <1>7. /\ jobs' \in Seq(Job) /\ Len(jobs') = Len(jobs) + 1
        /\ \A n \in 1 .. Len(jobs) : jobs'[n] = jobs[n]
        /\ RangeOf(jobs'[Len(jobs) + 1]) = p
    <2>. DEFINE job == [fromBlock |-> p.fromBlock, toBlock |-> p.toBlock,
                        currentJob |-> Len(jobs) + 1]
    <2>1. job \in Job
      BY <1>1, <1>6 DEF Job
    <2>2. RangeOf(job) = p
      BY <1>6 DEF RangeOf, Range2, BlockRange
    <2>3. jobs' = Append(jobs, job)
      BY <1>5
    <2>. HIDE DEF job
    <2>. QED  BY <1>1, <2>1, <2>2, <2>3, AppendProperties
  <1>8. PICK d \in Nat : d = IF next < Size(g) THEN c + 1 ELSE 0
    OBVIOUS
  <1>9. \A j, i \in Nat : IsBuilt(j, i, d)' <=> (IsBuilt(j, i, c) \/ (j = k /\ i = c))
    <2>1. IF (c + 1) * MaxBlocksPerJob < Size(gaps[k])
             THEN k' = k /\ d = c + 1
             ELSE k' = k + 1 /\ d = 0
      BY <1>4, <1>5, <1>8
    <2>. QED  BY <1>1, <1>4, <1>5, <2>1, OneMoreBuilt
  <1>10. \A n \in 1 .. Len(jobs') : n \in 1 .. Len(jobs) \/ n = Len(jobs) + 1
    BY <1>1, <1>7
  <1>11. ASSUME NEW n \in 1 .. Len(jobs')
         PROVE  \E j \in 1 .. Len(gaps), i \in Nat :
                   /\ IsBuilt(j, i, d)'
                   /\ RangeOf(jobs'[n]) = Piece(gaps[j], MaxBlocksPerJob, i)
    <2>1. CASE n \in 1 .. Len(jobs)
      <3>1. PICK j \in 1 .. Len(gaps), i \in Nat :
               IsBuilt(j, i, c) /\ RangeOf(jobs[n]) = Piece(gaps[j], MaxBlocksPerJob, i)
        BY <1>3, <2>1 DEF BuiltUpTo
      <3>2. IsBuilt(j, i, d)'
        BY <1>1, <1>9, <3>1
      <3>3. RangeOf(jobs'[n]) = Piece(gaps[j], MaxBlocksPerJob, i)
        BY <1>7, <2>1, <3>1
      <3>. QED  BY <3>2, <3>3
    <2>2. CASE n = Len(jobs) + 1
      <3>1. m \in 1 .. Len(gaps) /\ IsBuilt(m, c, d)'
        BY <1>1, <1>4, <1>9
      <3>2. RangeOf(jobs'[n]) = Piece(gaps[m], MaxBlocksPerJob, c)
        BY <1>4, <1>7, <2>2
      <3>. QED  BY <3>1, <3>2
    <2>. QED  BY <1>10, <2>1, <2>2
  <1>12. ASSUME NEW j \in 1 .. Len(gaps), NEW i \in Nat, IsBuilt(j, i, d)'
         PROVE  \E n \in 1 .. Len(jobs') :
                   RangeOf(jobs'[n]) = Piece(gaps[j], MaxBlocksPerJob, i)
    <2>1. IsBuilt(j, i, c) \/ (j = k /\ i = c)
      BY <1>1, <1>9, <1>12
    <2>2. CASE IsBuilt(j, i, c)
      <3>1. PICK n \in 1 .. Len(jobs) : RangeOf(jobs[n]) = Piece(gaps[j], MaxBlocksPerJob, i)
        BY <1>3, <2>2 DEF BuiltUpTo
      <3>2. n \in 1 .. Len(jobs') /\ jobs'[n] = jobs[n]
        BY <1>1, <1>7
      <3>. QED  BY <3>1, <3>2
    <2>3. CASE j = k /\ i = c
      <3>1. Len(jobs) + 1 \in 1 .. Len(jobs')
        BY <1>1, <1>7
      <3>. QED  BY <1>4, <1>7, <2>3, <3>1
    <2>. QED  BY <2>1, <2>2, <2>3
  <1>13. ASSUME NEW l \in 1 .. Len(jobs'), NEW n \in 1 .. Len(jobs'), l < n
         PROVE  jobs'[l].toBlock < jobs'[n].fromBlock
    <2>1. l \in 1 .. Len(jobs)
      BY <1>1, <1>7, <1>13
    <2>2. CASE n \in 1 .. Len(jobs)
      BY <1>3, <1>7, <1>13, <2>1, <2>2 DEF BuiltUpTo
    <2>3. CASE n = Len(jobs) + 1
      <3>1. PICK j \in 1 .. Len(gaps), i \in Nat :
               IsBuilt(j, i, c) /\ RangeOf(jobs[l]) = Piece(gaps[j], MaxBlocksPerJob, i)
        BY <1>3, <2>1 DEF BuiltUpTo
      <3>2. Piece(gaps[j], MaxBlocksPerJob, i).toBlock < p.fromBlock
        BY <1>1, <1>4, <1>6, <3>1, BuiltEndsBefore
      <3>3. jobs'[l].toBlock = Piece(gaps[j], MaxBlocksPerJob, i).toBlock
        BY <1>7, <2>1, <3>1 DEF RangeOf, Range2
      <3>4. jobs'[n].fromBlock = p.fromBlock
        BY <1>7, <2>3 DEF RangeOf, Range2
      <3>. QED  BY <3>2, <3>3, <3>4
    <2>. QED  BY <1>10, <2>2, <2>3
  <1>14. IF k' <= Len(gaps)
         THEN /\ d * MaxBlocksPerJob < Size(gaps[k'])
              /\ currentFromBlock' = gaps[k'].fromBlock + d * MaxBlocksPerJob
         ELSE d = 0
    <2>1. CASE next < Size(g)
      BY <1>1, <1>4, <1>5, <1>8, <2>1
    <2>2. CASE ~ (next < Size(g))
      <3>1. k' = k + 1 /\ d = 0 /\ currentFromBlock' = EnterGap(k + 1)
        BY <1>5, <1>8, <2>2
      <3>2. ASSUME k + 1 <= Len(gaps)
            PROVE  /\ 0 * MaxBlocksPerJob < Size(gaps[k + 1])
                   /\ EnterGap(k + 1) = gaps[k + 1].fromBlock + 0 * MaxBlocksPerJob
        <4>1. IsRange(gaps[k + 1])
          BY <1>1, <3>2 DEF InOrder
        <4>2. gaps[k + 1].fromBlock \in Int /\ 0 < Size(gaps[k + 1])
          BY <4>1 DEF IsRange, BlockRange, Size
        <4>3. 0 * MaxBlocksPerJob = 0
          OBVIOUS
        <4>. QED  BY <3>2, <4>2, <4>3 DEF EnterGap
      <3>. QED  BY <3>1, <3>2
    <2>. QED  BY <2>1, <2>2
  <1>15. BuiltUpTo(d)'
    <2>1. \A j \in 1 .. Len(gaps), i \in Nat :
             Piece(gaps[j], MaxBlocksPerJob, i)' = Piece(gaps[j], MaxBlocksPerJob, i)
      BY <1>5 DEF Piece, Range2, Lesser
    <2>2. /\ gaps' = gaps
          /\ \A n \in 1 .. Len(jobs') : RangeOf(jobs[n])' = RangeOf(jobs'[n])
          /\ \A n \in 1 .. Len(gaps') : Size(gaps[n])' = Size(gaps[n])
      BY <1>5 DEF RangeOf, Range2, Size
    <2>. QED  BY <1>11, <1>12, <1>13, <1>14, <2>1, <2>2 DEF BuiltUpTo
  <1>16. Len(jobs') = sum[k' - 1] + d
    <2>1. sum[k - 1] \in Nat
      BY <1>1, <1>2 DEF AddsUp
    <2>2. CASE next < Size(g)
      BY <1>3, <1>5, <1>7, <1>8, <2>1, <2>2
    <2>3. CASE ~ (next < Size(g))
      <3>1. sum[k] = sum[k - 1] + JobsFor(g)
        BY <1>1, <1>2, <1>4 DEF AddsUp
      <3>2. JobsFor(g) = c + 1
        <4>1. Size(g) \in Nat \ {0} /\ next \in Nat
          BY <1>4, <1>5 DEF IsRange, BlockRange, Size
        <4>2. Size(g) <= (c + 1) * MaxBlocksPerJob
          BY <1>4, <2>3, <4>1
        <4>3. ((c + 1) - 1) * MaxBlocksPerJob < Size(g)
          BY <1>5
        <4>4. (Size(g) + MaxBlocksPerJob - 1) \div MaxBlocksPerJob = c + 1
          <5>1. PICK s \in Nat \ {0} : s = Size(g)
            BY <4>1, Zenon
          <5>2. (s + MaxBlocksPerJob - 1) \div MaxBlocksPerJob = c + 1
            <6>1. c + 1 \in Nat \ {0}
              OBVIOUS
            <6>. QED  BY <4>2, <4>3, <5>1, <6>1, CeilCounts
          <5>. QED  BY <5>1, <5>2, Zenon
        <4>. QED  BY <4>4 DEF JobsFor
      <3>3. k' - 1 = k /\ d = 0
        BY <1>1, <1>5, <1>8, <2>3
      <3>4. sum[k] = sum[k - 1] + (c + 1)
        BY <3>1, <3>2, Zenon
      <3>5. sum[k' - 1] = sum[k]
        BY <3>3
      <3>6. Len(jobs') = sum[k - 1] + (c + 1) /\ sum[k] + 0 = sum[k]
        BY <1>3, <1>7, <2>1, <3>4
      <3>. QED  BY <3>3, <3>4, <3>5, <3>6
    <2>. QED  BY <2>2, <2>3
  <1>17. Counted'
    <2>1. AddsUp(sum, Len(gaps))'
      <3>1. AddsUp(sum, Len(gaps)) /\ gaps' = gaps
        BY <1>2, <1>5
      <3>. QED  BY <3>1 DEF AddsUp, JobsFor, Size
    <2>2. totalJobs' = sum[Len(gaps')] /\ pc' = "build"
      BY <1>1, <1>2, <1>5
    <2>. QED  BY <1>15, <1>16, <2>1, <2>2 DEF Counted
  <1>18. SplitTypeOK'
    <2>1. k' \in 1 .. Len(gaps) + 1
      BY <1>1, <1>5
    <2>2. currentFromBlock' \in Int
      <3>1. \A n \in 1 .. Len(gaps) : gaps[n].fromBlock \in Int
        BY <1>1 DEF InOrder, IsRange, BlockRange
      <3>2. EnterGap(k + 1) \in Int
        BY <1>1, <3>1 DEF EnterGap
      <3>3. next \in Int /\ g.fromBlock \in Int
        BY <1>4, <1>5 DEF IsRange, BlockRange
      <3>. QED  BY <1>5, <3>2, <3>3
    <2>. QED  BY <1>5, <1>7, <2>1, <2>2 DEF SplitInv, SplitTypeOK
  <1>19. Chunked' /\ InOrder(gaps')
    BY <1>1, <1>5 DEF SplitInv, Chunked
  <1>. QED  BY <1>1, <1>5, <1>17, <1>18, <1>19 DEF SplitInv
\* The loops keep the invariant.
LEMMA SplitKeeps ==
    ASSUME SplitInv, SplitNext \/ AddBulk \/ UNCHANGED splitVars
    PROVE  SplitInv'
  <1>1. CASE AddBulk
    <2>1. /\ pc = "build" /\ pc' = "done" /\ k = Len(gaps) + 1
          /\ UNCHANGED <<source, gaps, k, currentFromBlock, totalJobs, jobs>>
      BY <1>1, SplitFacts DEF AddBulk, SplitInv, SplitTypeOK
    <2>2. SplitTypeOK' /\ Chunked' /\ InOrder(gaps')
      BY <2>1 DEF SplitInv, SplitTypeOK, Chunked
    <2>3. PICK sum : /\ AddsUp(sum, Len(gaps)) /\ totalJobs = sum[Len(gaps)]
                     /\ \E c \in Nat : Len(jobs) = sum[k - 1] + c /\ BuiltUpTo(c)
      BY <2>1 DEF SplitInv, Counted
    <2>4. PICK c \in Nat : Len(jobs) = sum[k - 1] + c /\ BuiltUpTo(c)
      BY <2>3
    <2>5. BuiltUpTo(c)'
      BY <2>1, <2>4 DEF BuiltUpTo, IsBuilt
    <2>6. AddsUp(sum, Len(gaps))'
      BY <2>1, <2>3 DEF AddsUp, JobsFor, Size
    <2>7. Counted'
      BY <2>1, <2>3, <2>4, <2>5, <2>6 DEF Counted
    <2>. QED  BY <2>1, <2>2, <2>7 DEF SplitInv
  <1>2. CASE UNCHANGED splitVars
    <2>1. UNCHANGED <<source, gaps, k, currentFromBlock, totalJobs, jobs, pc>>
      BY <1>2 DEF splitVars
    <2>2. SplitTypeOK' /\ Chunked' /\ (pc' # "chunk" => InOrder(gaps'))
      BY <2>1 DEF SplitInv, SplitTypeOK, Chunked
    <2>3. Counted'
      <3>1. PICK sum : /\ AddsUp(sum, IF pc \in {"chunk", "count"} THEN k - 1 ELSE Len(gaps))
                       /\ pc \in {"chunk", "count"} => totalJobs = sum[k - 1] /\ jobs = <<>>
                       /\ pc \in {"build", "done"} =>
                             /\ totalJobs = sum[Len(gaps)]
                             /\ \E c \in Nat : Len(jobs) = sum[k - 1] + c /\ BuiltUpTo(c)
        BY DEF SplitInv, Counted
      <3>2. AddsUp(sum, IF pc \in {"chunk", "count"} THEN k - 1 ELSE Len(gaps))'
        BY <2>1, <3>1 DEF AddsUp, JobsFor, Size
      <3>3. ASSUME NEW c \in Nat, BuiltUpTo(c)
            PROVE  BuiltUpTo(c)'
        BY <2>1, <3>3 DEF BuiltUpTo, IsBuilt
      <3>. QED  BY <2>1, <3>1, <3>2, <3>3 DEF Counted
    <2>. QED  BY <2>1, <2>2, <2>3 DEF SplitInv
  <1>. QED  BY <1>1, <1>2, MakeChunkKeeps, EndChunksKeeps, CountGapKeeps,
               EndCountKeeps, NextJobKeeps DEF SplitNext

-----------------------------------------------------------------------------
(* What the splitter hands over *)

\* When it is done, the jobs are the pieces of the gaps, and the gaps, if they
\* are chunks, those of the range that timed out.
LEMMA JobsArePieces ==
    ASSUME SplitInv, pc = "done"
    PROVE  /\ \A n \in 1 .. Len(jobs) : \E j \in 1 .. Len(gaps) :
                 RangeOf(jobs[n]) \in Pieces(gaps[j], MaxBlocksPerJob)
           /\ \A j \in 1 .. Len(gaps) : \A p \in Pieces(gaps[j], MaxBlocksPerJob) :
                 \E n \in 1 .. Len(jobs) : RangeOf(jobs[n]) = p
           /\ \A m, n \in 1 .. Len(jobs) : m < n => jobs[m].toBlock < jobs[n].fromBlock
           /\ totalJobs = Len(jobs)
  <1>. MaxBlocksPerJob \in Nat \ {0}
    BY SizesAssumption
  <1>1. k = Len(gaps) + 1 /\ Len(gaps) \in Nat /\ InOrder(gaps)
    BY SplitFacts DEF SplitInv
  <1>2. PICK sum, c : /\ AddsUp(sum, Len(gaps)) /\ totalJobs = sum[Len(gaps)]
                      /\ c \in Nat /\ Len(jobs) = sum[k - 1] + c /\ BuiltUpTo(c)
    BY DEF SplitInv, Counted
  <1>3. c = 0
    BY <1>1, <1>2 DEF BuiltUpTo
  <1>4. totalJobs = Len(jobs)
    <2>1. k - 1 = Len(gaps) /\ sum[Len(gaps)] \in Nat
      BY <1>1, <1>2 DEF AddsUp
    <2>. QED  BY <1>2, <1>3, <2>1
  <1>5. \A j \in 1 .. Len(gaps) : \A p :
           p \in Pieces(gaps[j], MaxBlocksPerJob) <=>
              \E i \in Nat : IsBuilt(j, i, c) /\ p = Piece(gaps[j], MaxBlocksPerJob, i)
    <2>. SUFFICES ASSUME NEW j \in 1 .. Len(gaps), NEW p
                  PROVE  p \in Pieces(gaps[j], MaxBlocksPerJob) <=>
                            \E i \in Nat : IsBuilt(j, i, c)
                                           /\ p = Piece(gaps[j], MaxBlocksPerJob, i)
      OBVIOUS
    <2>1. IsRange(gaps[j]) /\ j < k
      BY <1>1 DEF InOrder
    <2>2. p \in Pieces(gaps[j], MaxBlocksPerJob) <=>
             \E i \in Nat : i * MaxBlocksPerJob < Size(gaps[j])
                            /\ p = Piece(gaps[j], MaxBlocksPerJob, i)
      BY <2>1, PiecesByNumber
    <2>3. \A i \in Nat : IsBuilt(j, i, c) <=> i * MaxBlocksPerJob < Size(gaps[j])
      BY <2>1 DEF IsBuilt
    <2>. QED  BY <2>2, <2>3
  <1>6. ASSUME NEW n \in 1 .. Len(jobs)
        PROVE  \E j \in 1 .. Len(gaps) :
                  RangeOf(jobs[n]) \in Pieces(gaps[j], MaxBlocksPerJob)
    BY <1>2, <1>5 DEF BuiltUpTo
  <1>7. ASSUME NEW j \in 1 .. Len(gaps), NEW p \in Pieces(gaps[j], MaxBlocksPerJob)
        PROVE  \E n \in 1 .. Len(jobs) : RangeOf(jobs[n]) = p
    <2>1. PICK i \in Nat : IsBuilt(j, i, c) /\ p = Piece(gaps[j], MaxBlocksPerJob, i)
      BY <1>5
    <2>. QED  BY <1>2, <2>1 DEF BuiltUpTo
  <1>. QED  BY <1>2, <1>4, <1>6, <1>7 DEF BuiltUpTo

LEMMA ChunksArePieces ==
    ASSUME SplitInv, pc = "done", source # <<>>
    PROVE  /\ IsRange(source[1])
           /\ {gaps[n] : n \in 1 .. Len(gaps)} = Pieces(source[1], ChunkSize)
  <1>. DEFINE r == source[1]
  <1>1. IsRange(r) /\ ChunkSize \in Nat \ {0} /\ Len(gaps) \in Nat
    BY SplitFacts, SizesAssumption DEF SplitInv
  <1>2. /\ \A n \in 1 .. Len(gaps) : gaps[n] = Piece(r, ChunkSize, n - 1)
        /\ (Len(gaps) - 1) * ChunkSize < Size(r)
        /\ Size(r) <= Len(gaps) * ChunkSize
    BY DEF SplitInv, Chunked
  <1>3. \A p : p \in Pieces(r, ChunkSize) <=>
           \E i \in Nat : i * ChunkSize < Size(r) /\ p = Piece(r, ChunkSize, i)
    BY <1>1, PiecesByNumber
  <1>4. Size(r) \in Nat
    BY <1>1 DEF IsRange, BlockRange, Size
  <1>5. ASSUME NEW i \in Nat
        PROVE  i * ChunkSize < Size(r) <=> i + 1 \in 1 .. Len(gaps)
    <2>. DEFINE x == i * ChunkSize
                y == Len(gaps) * ChunkSize
                z == (Len(gaps) - 1) * ChunkSize
    <2>1. x \in Int /\ y \in Int /\ z \in Int
      BY <1>1
    <2>2. Len(gaps) <= i => y <= x
      BY <1>1
    <2>3. i <= Len(gaps) - 1 => x <= z
      BY <1>1
    <2>4. z < Size(r) /\ Size(r) <= y
      BY <1>2
    <2>5. i + 1 \in 1 .. Len(gaps) <=> i <= Len(gaps) - 1
      BY <1>1
    <2>6. Len(gaps) <= i \/ i <= Len(gaps) - 1
      BY <1>1
    <2>. HIDE DEF x, y, z
    <2>7. x < Size(r) <=> i <= Len(gaps) - 1
      BY <1>1, <1>4, <2>1, <2>2, <2>3, <2>4, <2>6
    <2>. QED  BY <2>5, <2>7 DEF x
  <1>6. ASSUME NEW n \in 1 .. Len(gaps)
        PROVE  gaps[n] \in Pieces(r, ChunkSize)
    <2>1. n - 1 \in Nat /\ (n - 1) + 1 = n
      BY <1>1
    <2>2. (n - 1) * ChunkSize < Size(r)
      BY <1>5, <2>1
    <2>. QED  BY <1>2, <1>3, <2>1, <2>2
  <1>7. ASSUME NEW p \in Pieces(r, ChunkSize)
        PROVE  p \in {gaps[n] : n \in 1 .. Len(gaps)}
    <2>1. PICK i \in Nat : i * ChunkSize < Size(r) /\ p = Piece(r, ChunkSize, i)
      BY <1>3
    <2>2. i + 1 \in 1 .. Len(gaps) /\ (i + 1) - 1 = i
      BY <1>5, <2>1
    <2>3. gaps[i + 1] = p
      BY <1>2, <2>1, <2>2
    <2>. QED  BY <2>2, <2>3
  <1>. QED  BY <1>1, <1>6, <1>7

\* A range has the blocks of its pieces.
LEMMA PiecesTogether ==
    ASSUME NEW r, IsRange(r), NEW n \in Nat \ {0}
    PROVE  /\ \A p \in Pieces(r, n) : IsRange(p) /\ BlocksOf(p) \subseteq BlocksOf(r)
           /\ \A b \in BlocksOf(r) : \E p \in Pieces(r, n) : b \in BlocksOf(p)
  <1>1. r.fromBlock \in Int /\ r.toBlock \in Int
    BY DEF IsRange, BlockRange
  <1>2. ASSUME NEW p \in Pieces(r, n)
        PROVE  IsRange(p) /\ BlocksOf(p) \subseteq BlocksOf(r)
    <2>1. PICK i \in Nat : i * n < Size(r) /\ p = Piece(r, n, i)
      BY PiecesByNumber
    <2>2. IsRange(p) /\ p.fromBlock = r.fromBlock + i * n /\ p.toBlock <= r.toBlock
      BY <2>1, PieceBounds
    <2>3. r.fromBlock <= p.fromBlock
      BY <1>1, <2>2
    <2>4. p.fromBlock \in Int /\ p.toBlock \in Int
      BY <2>2 DEF IsRange, BlockRange
    <2>. QED  BY <1>1, <2>2, <2>3, <2>4 DEF BlocksOf
  <1>3. ASSUME NEW b \in BlocksOf(r)
        PROVE  \E p \in Pieces(r, n) : b \in BlocksOf(p)
    <2>1. b - r.fromBlock \in Nat /\ b \in Int /\ b <= r.toBlock
      BY <1>1 DEF BlocksOf
    <2>2. PICK i \in Nat : i * n <= b - r.fromBlock /\ b - r.fromBlock < i * n + n
      BY <2>1, Division
    <2>3. i * n < Size(r)
      BY <1>1, <2>1, <2>2 DEF Size
    <2>4. Piece(r, n, i) \in Pieces(r, n)
      BY <2>3, PiecesByNumber
    <2>5. b \in BlocksOf(Piece(r, n, i))
      <3>1. (i + 1) * n = i * n + n /\ i * n \in Nat
        OBVIOUS
      <3>. QED  BY <1>1, <2>1, <2>2, <3>1 DEF BlocksOf, Piece, Range2, Lesser
    <2>. QED  BY <2>4, <2>5
  <1>. QED  BY <1>2, <1>3

\* What the two properties of the splitter say, once it is done.
LEMMA JobsPartitionHolds ==
    ASSUME SplitInv
    PROVE  JobsPartition
  <1>. SUFFICES ASSUME pc = "done" PROVE JobsPartition
    BY DEF JobsPartition
  <1>. MaxBlocksPerJob \in Nat \ {0} /\ ChunkSize \in Nat \ {0}
    BY SizesAssumption
  <1>1. /\ \A n \in 1 .. Len(jobs) : \E j \in 1 .. Len(gaps) :
              RangeOf(jobs[n]) \in Pieces(gaps[j], MaxBlocksPerJob)
        /\ \A j \in 1 .. Len(gaps) : \A p \in Pieces(gaps[j], MaxBlocksPerJob) :
              \E n \in 1 .. Len(jobs) : RangeOf(jobs[n]) = p
        /\ \A m, n \in 1 .. Len(jobs) : m < n => jobs[m].toBlock < jobs[n].fromBlock
        /\ totalJobs = Len(jobs)
    BY JobsArePieces
  <1>2. \A j \in 1 .. Len(gaps) : IsRange(gaps[j])
    BY DEF SplitInv, InOrder
  <1>3. \A n \in 1 .. Len(jobs) : BlocksOf(RangeOf(jobs[n])) = BlocksOf(jobs[n])
                                  /\ Size(RangeOf(jobs[n])) = Size(jobs[n])
    BY DEF RangeOf, Range2, BlocksOf, Size
  <1>. DEFINE OfJobs == UNION {BlocksOf(jobs[n]) : n \in 1 .. Len(jobs)}
              OfGaps == UNION {BlocksOf(gaps[j]) : j \in 1 .. Len(gaps)}
              OfAsked == UNION {BlocksOf(r) : r \in Asked}
  <1>4. OfJobs = OfGaps
    <2>1. ASSUME NEW n \in 1 .. Len(jobs), NEW b \in BlocksOf(jobs[n])
          PROVE  b \in OfGaps
      <3>1. PICK j \in 1 .. Len(gaps) :
               RangeOf(jobs[n]) \in Pieces(gaps[j], MaxBlocksPerJob)
        BY <1>1
      <3>2. BlocksOf(RangeOf(jobs[n])) \subseteq BlocksOf(gaps[j])
        BY <1>2, <3>1, PiecesTogether
      <3>. QED  BY <1>3, <2>1, <3>2
    <2>2. ASSUME NEW j \in 1 .. Len(gaps), NEW b \in BlocksOf(gaps[j])
          PROVE  b \in OfJobs
      <3>1. PICK p \in Pieces(gaps[j], MaxBlocksPerJob) : b \in BlocksOf(p)
        BY <1>2, <2>2, PiecesTogether
      <3>2. PICK n \in 1 .. Len(jobs) : RangeOf(jobs[n]) = p
        BY <1>1, <3>1
      <3>. QED  BY <1>3, <3>1, <3>2
    <2>. QED  BY <2>1, <2>2
  <1>5. OfGaps = OfAsked
    <2>1. CASE source = <<>>
      BY <2>1 DEF Asked
    <2>2. CASE source # <<>>
      <3>1. /\ IsRange(source[1])
            /\ {gaps[n] : n \in 1 .. Len(gaps)} = Pieces(source[1], ChunkSize)
            /\ Asked = {source[1]}
        BY <2>2, ChunksArePieces DEF Asked
      <3>2. OfAsked = BlocksOf(source[1])
        BY <3>1
      <3>3. OfGaps = UNION {BlocksOf(p) : p \in Pieces(source[1], ChunkSize)}
        BY <3>1
      <3>4. UNION {BlocksOf(p) : p \in Pieces(source[1], ChunkSize)} = BlocksOf(source[1])
        BY <3>1, PiecesTogether
      <3>. QED  BY <3>2, <3>3, <3>4
    <2>. QED  BY <2>1, <2>2
  <1>6. ASSUME NEW n \in 1 .. Len(jobs)
        PROVE  1 <= Size(jobs[n]) /\ Size(jobs[n]) <= MaxBlocksPerJob
    <2>1. PICK j \in 1 .. Len(gaps) : RangeOf(jobs[n]) \in Pieces(gaps[j], MaxBlocksPerJob)
      BY <1>1
    <2>2. PICK i \in Nat : /\ i * MaxBlocksPerJob < Size(gaps[j])
                           /\ RangeOf(jobs[n]) = Piece(gaps[j], MaxBlocksPerJob, i)
      BY <1>2, <2>1, PiecesByNumber
    <2>3. 1 <= Size(RangeOf(jobs[n])) /\ Size(RangeOf(jobs[n])) <= MaxBlocksPerJob
      BY <1>2, <2>2, PieceBounds
    <2>. QED  BY <1>3, <2>3
  <1>. HIDE DEF OfJobs, OfGaps, OfAsked
  <1>7. OfJobs = OfAsked
    BY <1>4, <1>5
  <1>. QED  BY <1>1, <1>6, <1>7 DEF JobsPartition, OfJobs, OfAsked

LEMMA PiecesAsSpecifiedHolds ==
    ASSUME SplitInv
    PROVE  PiecesAsSpecified
  <1>. SUFFICES ASSUME pc = "done" PROVE PiecesAsSpecified
    BY DEF PiecesAsSpecified
  <1>1. /\ \A n \in 1 .. Len(jobs) : \E j \in 1 .. Len(gaps) :
              RangeOf(jobs[n]) \in Pieces(gaps[j], MaxBlocksPerJob)
        /\ \A j \in 1 .. Len(gaps) : \A p \in Pieces(gaps[j], MaxBlocksPerJob) :
              \E n \in 1 .. Len(jobs) : RangeOf(jobs[n]) = p
    BY JobsArePieces
  <1>2. {RangeOf(jobs[n]) : n \in 1 .. Len(jobs)}
           = UNION {Pieces(gaps[n], MaxBlocksPerJob) : n \in 1 .. Len(gaps)}
    <2>1. ASSUME NEW p \in {RangeOf(jobs[n]) : n \in 1 .. Len(jobs)}
          PROVE  \E j \in 1 .. Len(gaps) : p \in Pieces(gaps[j], MaxBlocksPerJob)
      BY <1>1, <2>1
    <2>2. ASSUME NEW j \in 1 .. Len(gaps), NEW p \in Pieces(gaps[j], MaxBlocksPerJob)
          PROVE  p \in {RangeOf(jobs[n]) : n \in 1 .. Len(jobs)}
      BY <1>1, <2>2
    <2>. QED  BY <2>1, <2>2
  <1>3. source # <<>> => {gaps[n] : n \in 1 .. Len(gaps)} = Pieces(source[1], ChunkSize)
    BY ChunksArePieces
  <1>. QED  BY <1>2, <1>3 DEF PiecesAsSpecified, RangeOf
-----------------------------------------------------------------------------
(* The queue and the worker *)

Entry == [state : {"waiting", "active", "finished", "failed"},
          due : Nat, stalls : Nat, lost : 0 .. MaxMishaps]

QueueTypes ==
    /\ queue \in Seq(Entry)
    /\ held \subseteq DOMAIN queue
    /\ Cardinality(held) <= Concurrency
    /\ running \in held \cup {0}
    /\ tokens \in 0 .. Rate
    /\ worker \in {"up", "closing", "down"}
    /\ stopped \in BOOLEAN
    /\ mishaps \in 0 .. MaxMishaps

(***************************************************************************)
(* QuietExit alone is not inductive: that the next kill is the reason for  *)
(* the next stall needs that held jobs are active ones.  No job is lost    *)
(* more often than the process was killed.                                 *)
(***************************************************************************)
QueueInv ==
    /\ QueueTypes
    /\ pc # "done" => queue = <<>>
    /\ \A n \in held : queue[n].state = "active"
    /\ \A n \in DOMAIN queue : queue[n].lost <= mishaps
    /\ QuietExit

\* The queue is a list of entries and keeps its length.
LEMMA QueueIsList ==
    ASSUME queue \in Seq(Entry)
    PROVE  /\ Len(queue) \in Nat /\ DOMAIN queue = 1 .. Len(queue)
           /\ queue \in [DOMAIN queue -> Entry]
           /\ \A q \in [DOMAIN queue -> Entry] : q \in Seq(Entry)
           /\ IsFiniteSet(DOMAIN queue)
  <1>1. Len(queue) \in Nat /\ DOMAIN queue = 1 .. Len(queue)
        /\ queue \in [1 .. Len(queue) -> Entry]
    BY LenProperties
  <1>2. [1 .. Len(queue) -> Entry] \subseteq Seq(Entry)
    BY <1>1, SeqDef
  <1>3. IsFiniteSet(1 .. Len(queue))
    BY <1>1, FS_Interval
  <1>. QED  BY <1>1, <1>2, <1>3

\* The jobs in hand are finitely many; fewer of them stay within the limit.
LEMMA FewerHeld ==
    ASSUME QueueTypes, NEW S, S \subseteq held
    PROVE  /\ IsFiniteSet(held) /\ Cardinality(held) \in Nat
           /\ Cardinality(S) <= Concurrency
  <1>1. IsFiniteSet(DOMAIN queue)
    BY QueueIsList DEF QueueTypes
  <1>2. IsFiniteSet(held)
    BY <1>1, FS_Subset DEF QueueTypes
  <1>3. IsFiniteSet(S) /\ Cardinality(S) <= Cardinality(held)
    BY <1>2, FS_Subset
  <1>4. Cardinality(S) \in Nat /\ Cardinality(held) \in Nat
    BY <1>2, <1>3, FS_CardinalityType
  <1>. QED  BY <1>2, <1>3, <1>4, QueueAssumption DEF QueueTypes

\* The jobs enter the queue, none of them held or stalled.
LEMMA EnqueueKeeps ==
    ASSUME SplitInv, QueueInv, Enqueue
    PROVE  QueueInv'
  <1>1. /\ pc = "build" /\ pc' = "done" /\ queue = <<>> /\ held = {}
        /\ UNCHANGED <<held, running, tokens, worker, stopped, mishaps>>
    BY DEF Enqueue, AddBulk, QueueInv, QueueTypes, processVars
  <1>2. Len(jobs) \in Nat /\ \A n \in 1 .. Len(jobs) : jobs[n].currentJob \in Nat
    BY SplitFacts DEF SplitInv, Job
  <1>3. queue' = [n \in 1 .. Len(jobs) |->
          [state |-> "waiting", due |-> jobs[n].currentJob, stalls |-> 0, lost |-> 0]]
    BY DEF Enqueue
  <1>4. queue' \in [1 .. Len(jobs) -> Entry]
    BY <1>2, <1>3, QueueAssumption DEF Entry
  <1>5. queue' \in Seq(Entry)
    BY <1>2, <1>4, SeqDef
  <1>6. \A n \in DOMAIN queue' : /\ queue'[n].state = "waiting"
                                 /\ queue'[n].stalls = 0 /\ queue'[n].lost = 0
    BY <1>3
  <1>7. mishaps \in Nat
    BY DEF QueueInv, QueueTypes
  <1>8. QuietExit'
    BY <1>6 DEF QuietExit
  <1>. QED  BY <1>1, <1>5, <1>6, <1>7, <1>8 DEF QueueInv, QueueTypes

\* Only delays run out.
LEMMA TickKeeps ==
    ASSUME QueueInv, Tick
    PROVE  QueueInv'
  <1>1. /\ pc' = pc /\ pc = "done" /\ tokens' = Rate
        /\ UNCHANGED <<held, running, worker, stopped, mishaps>>
    BY DEF Tick, splitVars, Followed
  <1>2. queue' = [n \in DOMAIN queue |->
                    [queue[n] EXCEPT !.due = IF queue[n].due > 0 THEN queue[n].due - 1 ELSE 0]]
    BY DEF Tick
  <1>3. queue \in [DOMAIN queue -> Entry]
    BY QueueIsList DEF QueueInv, QueueTypes
  <1>4. DOMAIN queue' = DOMAIN queue
        /\ \A n \in DOMAIN queue : /\ queue'[n].state = queue[n].state
                                   /\ queue'[n].stalls = queue[n].stalls
                                   /\ queue'[n].lost = queue[n].lost
                                   /\ queue'[n] \in Entry
    BY <1>2, <1>3 DEF Entry
  <1>5. queue' \in Seq(Entry)
    <2>1. queue' \in [DOMAIN queue -> Entry]
      BY <1>2, <1>4
    <2>. QED  BY <2>1, QueueIsList DEF QueueInv, QueueTypes
  <1>6. QuietExit'
    BY <1>1, <1>4 DEF QueueInv, QuietExit
  <1>7. tokens' \in 0 .. Rate
    BY <1>1, QueueAssumption
  <1>. QED  BY <1>1, <1>4, <1>5, <1>6, <1>7 DEF QueueInv, QueueTypes

\* One entry changes.
LEMMA SetEntry ==
    ASSUME queue \in Seq(Entry), NEW n \in DOMAIN queue, NEW e \in Entry,
           queue' = [queue EXCEPT ![n] = e]
    PROVE  /\ queue' \in Seq(Entry) /\ DOMAIN queue' = DOMAIN queue
           /\ queue'[n] = e
           /\ \A m \in DOMAIN queue : m # n => queue'[m] = queue[m]
  <1>1. queue \in [DOMAIN queue -> Entry]
    BY QueueIsList
  <1>2. queue' \in [DOMAIN queue -> Entry]
    BY <1>1
  <1>. QED  BY <1>1, <1>2, QueueIsList

\* A job is taken, and held from then on.
LEMMA ClaimKeeps ==
    ASSUME QueueInv, NEW n \in DOMAIN queue, Claim(n)
    PROVE  QueueInv'
  <1>1. /\ pc' = pc /\ pc = "done" /\ held' = held \cup {n}
        /\ UNCHANGED <<running, tokens, worker, stopped, mishaps>>
        /\ Cardinality(held) < Concurrency
        /\ queue[n].state = "waiting"
    BY DEF Claim, splitVars, Followed, Ready
  <1>2. PICK e : e = [queue[n] EXCEPT !.state = "active"]
    OBVIOUS
  <1>3. queue' = [queue EXCEPT ![n] = e]
    BY <1>2 DEF Claim, Set
  <1>4. queue[n] \in Entry
    BY QueueIsList DEF QueueInv, QueueTypes
  <1>5. e \in Entry /\ e.state = "active" /\ e.stalls = queue[n].stalls
        /\ e.lost = queue[n].lost
    BY <1>2, <1>4 DEF Entry
  <1>6. /\ queue' \in Seq(Entry) /\ DOMAIN queue' = DOMAIN queue
        /\ queue'[n] = e
        /\ \A m \in DOMAIN queue : m # n => queue'[m] = queue[m]
    BY <1>3, <1>5, SetEntry DEF QueueInv, QueueTypes
  <1>7. Cardinality(held') <= Concurrency
    <2>1. IsFiniteSet(held) /\ Cardinality(held) \in Nat
      BY FewerHeld DEF QueueInv
    <2>2. n \notin held
      BY <1>1 DEF QueueInv
    <2>3. Cardinality(held \cup {n}) = Cardinality(held) + 1
      BY <2>1, <2>2, FS_AddElement
    <2>. QED  BY <1>1, <2>1, <2>3, QueueAssumption
  <1>8. QuietExit'
    BY <1>1, <1>5, <1>6 DEF QueueInv, QuietExit
  <1>9. QueueTypes'
    BY <1>1, <1>6, <1>7 DEF QueueInv, QueueTypes
  <1>10. \A m \in DOMAIN queue' : queue'[m].lost <= mishaps'
    BY <1>1, <1>5, <1>6 DEF QueueInv
  <1>11. \A m \in held' : queue'[m].state = "active"
    <2>1. held \subseteq DOMAIN queue
      BY DEF QueueInv, QueueTypes
    <2>. QED  BY <1>1, <1>5, <1>6, <2>1 DEF QueueInv
  <1>. QED  BY <1>1, <1>8, <1>9, <1>10, <1>11 DEF QueueInv

\* A job that the worker holds ends, and is held no longer.
LEMMA FinishKeeps ==
    ASSUME QueueInv, NEW n \in DOMAIN queue, FinishJob(n)
    PROVE  QueueInv'
  <1>1. /\ pc' = pc /\ running = n /\ held' = held \ {n} /\ running' = 0
        /\ UNCHANGED <<tokens, worker, stopped, mishaps>>
    BY DEF FinishJob, splitVars
  <1>2. PICK e : e = [queue[n] EXCEPT !.state = "finished"]
    OBVIOUS
  <1>3. queue' = [queue EXCEPT ![n] = e]
    BY <1>2 DEF FinishJob, Set
  <1>4. queue[n] \in Entry
    BY QueueIsList DEF QueueInv, QueueTypes
  <1>5. e \in Entry /\ e.state = "finished" /\ e.stalls = queue[n].stalls
        /\ e.lost = queue[n].lost
    BY <1>2, <1>4 DEF Entry
  <1>6. /\ queue' \in Seq(Entry) /\ DOMAIN queue' = DOMAIN queue
        /\ queue'[n] = e
        /\ \A m \in DOMAIN queue : m # n => queue'[m] = queue[m]
    BY <1>3, <1>5, SetEntry DEF QueueInv, QueueTypes
  <1>7. Cardinality(held') <= Concurrency
    BY <1>1, FewerHeld DEF QueueInv
  <1>8. QuietExit'
    BY <1>1, <1>5, <1>6 DEF QueueInv, QuietExit
  <1>9. QueueTypes'
    BY <1>1, <1>6, <1>7 DEF QueueInv, QueueTypes
  <1>10. \A m \in DOMAIN queue' : queue'[m].lost <= mishaps'
    BY <1>1, <1>5, <1>6 DEF QueueInv
  <1>11. \A m \in held' : queue'[m].state = "active"
    <2>1. held \subseteq DOMAIN queue
      BY DEF QueueInv, QueueTypes
    <2>. QED  BY <1>1, <1>6, <2>1 DEF QueueInv
  <1>12. pc = "done"
    BY DEF QueueInv
  <1>. QED  BY <1>1, <1>8, <1>9, <1>10, <1>11, <1>12 DEF QueueInv

\* What the stalled check makes of an entry.
LEMMA StalledEntry ==
    ASSUME NEW j \in Entry
    PROVE  /\ Stalled(j) \in Entry /\ Stalled(j).state \in {"waiting", "failed"}
           /\ Stalled(j).stalls = j.stalls + 1 /\ Stalled(j).lost = j.lost
  <1>1. PICK s \in {"waiting", "failed"} :
           s = IF j.stalls < MaxStalled THEN "waiting" ELSE "failed"
    OBVIOUS
  <1>2. PICK f, g : f = [j EXCEPT !.state = s] /\ g = [f EXCEPT !.stalls = j.stalls + 1]
    OBVIOUS
  <1>3. f \in Entry /\ f.state = s /\ f.stalls = j.stalls /\ f.lost = j.lost
    BY <1>2 DEF Entry
  <1>4. g \in Entry /\ g.state = s /\ g.stalls = j.stalls + 1 /\ g.lost = j.lost
    <2>1. PICK n \in Nat : n = j.stalls + 1
      BY DEF Entry
    <2>2. g = [f EXCEPT !.stalls = n]
      BY <1>2, <2>1
    <2>3. g \in Entry /\ g.state = f.state /\ g.stalls = n /\ g.lost = f.lost
      BY <1>3, <2>2 DEF Entry
    <2>. QED  BY <1>3, <2>1, <2>3
  <1>5. Stalled(j) = [j EXCEPT !.state = s, !.stalls = @ + 1]
    BY <1>1, Zenon DEF Stalled
  <1>6. Stalled(j) = g
    BY <1>2, <1>3, <1>5 DEF Entry
  <1>. QED  BY <1>4, <1>6

\* A stalled job has been lost once more than it was found.
LEMMA RecoverKeeps ==
    ASSUME QueueInv, NEW n \in DOMAIN queue, Recover(n)
    PROVE  QueueInv'
  <1>1. /\ pc' = pc /\ pc = "done" /\ n \notin held /\ queue[n].state = "active"
        /\ UNCHANGED <<held, running, tokens, worker, stopped, mishaps>>
    BY DEF Recover, splitVars, processVars, Followed
  <1>2. PICK e : e = Stalled(queue[n])
    OBVIOUS
  <1>3. queue' = [queue EXCEPT ![n] = e]
    BY <1>2, Zenon DEF Recover
  <1>4. queue[n] \in Entry
    BY QueueIsList DEF QueueInv, QueueTypes
  <1>5. /\ e \in Entry /\ e.state \in {"waiting", "failed"}
        /\ e.stalls = queue[n].stalls + 1 /\ e.lost = queue[n].lost
    BY <1>2, <1>4, StalledEntry
  <1>6. /\ queue' \in Seq(Entry) /\ DOMAIN queue' = DOMAIN queue
        /\ queue'[n] = e
        /\ \A m \in DOMAIN queue : m # n => queue'[m] = queue[m]
    BY <1>3, <1>5, SetEntry DEF QueueInv, QueueTypes
  <1>7. queue[n].stalls + 1 <= queue[n].lost
    BY <1>1, <1>4 DEF QueueInv, QuietExit, Entry
  <1>8. QuietExit'
    BY <1>1, <1>5, <1>6, <1>7 DEF QueueInv, QuietExit
  <1>9. QueueTypes'
    BY <1>1, <1>6 DEF QueueInv, QueueTypes
  <1>10. \A m \in DOMAIN queue' : queue'[m].lost <= mishaps'
    BY <1>1, <1>5, <1>6 DEF QueueInv
  <1>11. \A m \in held' : queue'[m].state = "active"
    <2>1. held \subseteq DOMAIN queue
      BY DEF QueueInv, QueueTypes
    <2>. QED  BY <1>1, <1>6, <2>1 DEF QueueInv
  <1>. QED  BY <1>1, <1>8, <1>9, <1>10, <1>11 DEF QueueInv

\* A kill loses the jobs in hand.
LEMMA KillKeeps ==
    ASSUME QueueInv, Kill
    PROVE  QueueInv'
  <1>1. /\ pc' = pc /\ pc = "done" /\ held' = {} /\ running' = 0 /\ tokens' = Rate
        /\ worker' = "down" /\ stopped' = stopped
        /\ mishaps' = mishaps + 1 /\ mishaps < MaxMishaps
    BY DEF Kill, Mishap, Followed, ProcessEnds, splitVars
  <1>2. mishaps \in Nat /\ mishaps' \in 0 .. MaxMishaps
    BY <1>1, QueueAssumption DEF QueueInv, QueueTypes
  <1>3. queue' = [n \in DOMAIN queue |->
           [queue[n] EXCEPT !.lost = IF n \in held THEN queue[n].lost + 1 ELSE queue[n].lost]]
    BY DEF Kill
  <1>4. queue \in [DOMAIN queue -> Entry]
    BY QueueIsList DEF QueueInv, QueueTypes
  <1>5. ASSUME NEW n \in DOMAIN queue
        PROVE  /\ queue'[n].state = queue[n].state
               /\ queue'[n].stalls = queue[n].stalls
               /\ queue'[n].lost = IF n \in held THEN queue[n].lost + 1 ELSE queue[n].lost
               /\ queue'[n].lost <= mishaps'
               /\ queue'[n] \in Entry
    <2>1. queue[n] \in Entry /\ queue[n].lost \in Nat /\ queue[n].lost <= mishaps
      BY <1>4 DEF QueueInv, Entry
    <2>2. PICK l \in 0 .. MaxMishaps :
             l = IF n \in held THEN queue[n].lost + 1 ELSE queue[n].lost
      BY <1>1, <1>2, <2>1, QueueAssumption
    <2>3. queue'[n] = [queue[n] EXCEPT !.lost = l]
      BY <1>3, <2>2
    <2>4. l <= mishaps'
      BY <1>1, <1>2, <2>1, <2>2
    <2>. QED  BY <2>1, <2>2, <2>3, <2>4 DEF Entry
  <1>6. DOMAIN queue' = DOMAIN queue
    BY <1>3
  <1>7. queue' \in Seq(Entry)
    <2>1. queue' \in [DOMAIN queue -> Entry]
      BY <1>3, <1>5
    <2>. QED  BY <2>1, QueueIsList DEF QueueInv, QueueTypes
  <1>8. QuietExit'
    <2>. SUFFICES ASSUME NEW n \in DOMAIN queue
                  PROVE  /\ queue'[n].stalls <= queue'[n].lost
                         /\ queue'[n].state = "active" =>
                               queue'[n].stalls < queue'[n].lost
      BY <1>1, <1>6 DEF QuietExit
    <2>1. queue[n].stalls \in Nat /\ queue[n].lost \in Nat
      BY <1>4 DEF Entry
    <2>. QED  BY <1>5, <2>1 DEF QueueInv, QuietExit
  <1>9. Cardinality(held') <= Concurrency
    BY <1>1, FewerHeld DEF QueueInv
  <1>10. QueueTypes'
    BY <1>1, <1>2, <1>7, <1>9, QueueAssumption DEF QueueInv, QueueTypes
  <1>. QED  BY <1>1, <1>5, <1>6, <1>8, <1>10 DEF QueueInv

\* What happens to the process alone: the queue stays, and an exit holds
\* nothing.
LEMMA ProcessKeeps ==
    ASSUME QueueInv,
           \/ \E n \in DOMAIN queue : Schedule(n)
           \/ Stop \/ Throw \/ Exit \/ Restart \/ StartAgain
           \/ UNCHANGED queueVars /\ (pc' = pc \/ {pc, pc'} \cap {"done"} = {})
    PROVE  QueueInv'
  <1>1. /\ queue' = queue /\ held' = held
        /\ pc' = pc \/ (pc' # "done" /\ pc # "done")
    BY DEF Schedule, Stop, Throw, Exit, ProcessEnds, Restart, StartAgain,
       processVars, queueVars, splitVars
  <1>2. /\ running' \in held \cup {0}
        /\ tokens' \in 0 .. Rate
    <2>1. CASE \E n \in DOMAIN queue : Schedule(n)
      BY <2>1, QueueAssumption DEF QueueInv, QueueTypes, Schedule
    <2>2. CASE Exit
      BY <2>2, QueueAssumption DEF Exit, ProcessEnds
    <2>3. CASE \/ Stop \/ Throw \/ Restart \/ StartAgain
               \/ UNCHANGED queueVars
      BY <2>3 DEF QueueInv, QueueTypes, Stop, Throw, Restart, StartAgain,
         processVars, queueVars
    <2>. QED  BY <2>1, <2>2, <2>3
  <1>3. /\ worker' \in {"up", "closing", "down"}
        /\ stopped' \in BOOLEAN
    <2>1. CASE \/ \E n \in DOMAIN queue : Schedule(n)
               \/ Exit \/ Restart \/ StartAgain \/ UNCHANGED queueVars
      BY <2>1 DEF QueueInv, QueueTypes, Schedule, Exit, ProcessEnds, Restart,
         StartAgain, queueVars
    <2>2. CASE Stop \/ Throw
      BY <2>2 DEF QueueInv, QueueTypes, Stop, Throw, Close
    <2>. QED  BY <2>1, <2>2
  <1>4. mishaps' \in 0 .. MaxMishaps /\ mishaps <= mishaps' /\ mishaps \in Nat
    <2>1. CASE \/ \E n \in DOMAIN queue : Schedule(n)
               \/ Exit \/ Restart \/ StartAgain \/ UNCHANGED queueVars
      BY <2>1 DEF QueueInv, QueueTypes, Schedule, Exit, Restart, StartAgain,
         queueVars
    <2>2. CASE Stop \/ Throw
      BY <2>2, QueueAssumption DEF QueueInv, QueueTypes, Stop, Throw, Mishap
    <2>. QED  BY <2>1, <2>2
  <1>5. \A n \in DOMAIN queue : queue[n].lost \in Nat
    BY QueueIsList DEF QueueInv, QueueTypes, Entry
  <1>6. QueueTypes'
    BY <1>1, <1>2, <1>3, <1>4 DEF QueueInv, QueueTypes
  <1>7. QuietExit'
    BY <1>1 DEF QueueInv, QuietExit
  <1>8. \A n \in DOMAIN queue : queue[n].lost <= mishaps'
    BY <1>4, <1>5 DEF QueueInv
  <1>. QED  BY <1>1, <1>6, <1>7, <1>8 DEF QueueInv
-----------------------------------------------------------------------------
(* The theorems *)

\* The splitter and the queue each keep their invariant.
LEMMA StepKeeps ==
    ASSUME SplitInv, QueueInv, [Next]_vars
    PROVE  SplitInv' /\ QueueInv'
  <1>1. CASE Split
    <2>1. SplitInv'
      BY <1>1, SplitKeeps DEF Split
    <2>2. pc # "done" /\ pc' # "done"
      BY <1>1 DEF Split, SplitNext, MakeChunk, EndChunks, CountGap, EndCount,
         SmallGap, LargeGapPiece
    <2>3. QueueInv'
      BY <1>1, <2>2, ProcessKeeps DEF Split
    <2>. QED  BY <2>1, <2>3
  <1>2. CASE Enqueue
    BY <1>2, SplitKeeps, EnqueueKeeps DEF Enqueue
  <1>3. CASE Tick
    <2>1. UNCHANGED splitVars
      BY <1>3 DEF Tick
    <2>. QED  BY <1>3, <2>1, SplitKeeps, TickKeeps
  <1>4. ASSUME NEW n \in DOMAIN queue, Schedule(n)
        PROVE  SplitInv' /\ QueueInv'
    <2>1. UNCHANGED splitVars
      BY <1>4 DEF Schedule
    <2>. QED  BY <1>4, <2>1, SplitKeeps, ProcessKeeps
  <1>5. ASSUME NEW n \in DOMAIN queue, FinishJob(n)
        PROVE  SplitInv' /\ QueueInv'
    <2>1. UNCHANGED splitVars
      BY <1>5 DEF FinishJob
    <2>. QED  BY <1>5, <2>1, SplitKeeps, FinishKeeps
  <1>6. ASSUME NEW n \in DOMAIN queue, Claim(n)
        PROVE  SplitInv' /\ QueueInv'
    <2>1. UNCHANGED splitVars
      BY <1>6 DEF Claim
    <2>. QED  BY <1>6, <2>1, SplitKeeps, ClaimKeeps
  <1>7. ASSUME NEW n \in DOMAIN queue, Recover(n)
        PROVE  SplitInv' /\ QueueInv'
    <2>1. UNCHANGED splitVars
      BY <1>7 DEF Recover
    <2>. QED  BY <1>7, <2>1, SplitKeeps, RecoverKeeps
  <1>8. CASE Kill
    <2>1. UNCHANGED splitVars
      BY <1>8 DEF Kill
    <2>. QED  BY <1>8, <2>1, SplitKeeps, KillKeeps
  <1>9. CASE Stop \/ Throw \/ Exit \/ Restart \/ StartAgain
    <2>1. UNCHANGED splitVars
      BY <1>9 DEF Stop, Throw, Exit, Restart, StartAgain
    <2>. QED  BY <1>9, <2>1, SplitKeeps, ProcessKeeps
  <1>10. CASE UNCHANGED vars
    <2>1. UNCHANGED splitVars /\ UNCHANGED queueVars /\ pc' = pc
      BY <1>10 DEF vars, splitVars, queueVars
    <2>. QED  BY <2>1, SplitKeeps, ProcessKeeps
  <1>. QED  BY <1>1, <1>2, <1>3, <1>4, <1>5, <1>6, <1>7, <1>8, <1>9, <1>10
            DEF Next, JobStep, Terminated

(***************************************************************************)
(* The invariants of splitter and queue are inductive, for every instance. *)
(***************************************************************************)
THEOREM Invariance == Spec => [](SplitInv /\ QueueInv)
  <1>1. Init => SplitInv /\ QueueInv
    <2>. SUFFICES ASSUME Init PROVE SplitInv /\ QueueInv
      OBVIOUS
    <2>1. SplitInv
      BY SplitStarts DEF Init
    <2>2. queue = <<>> /\ DOMAIN queue = {} /\ queue \in Seq(Entry)
      BY DEF Init
    <2>3. Cardinality(held) = 0
      BY FS_EmptySet DEF Init
    <2>4. QueueTypes
      <3>1. Cardinality(held) <= Concurrency
        BY <2>3, QueueAssumption
      <3>2. Rate \in 0 .. Rate /\ 0 \in 0 .. MaxMishaps
        BY QueueAssumption
      <3>3. /\ held = {} /\ running = 0 /\ tokens = Rate /\ worker = "up"
            /\ stopped = FALSE /\ mishaps = 0
        BY DEF Init
      <3>. QED  BY <2>2, <3>1, <3>2, <3>3 DEF QueueTypes
    <2>. QED  BY <2>1, <2>2, <2>4 DEF Init, QueueInv, QuietExit
  <1>2. SplitInv /\ QueueInv /\ [Next]_vars => SplitInv' /\ QueueInv'
    BY StepKeeps
  <1>. QED  BY <1>1, <1>2, PTL DEF Spec

(***************************************************************************)
(* Every variable has its type; in particular the worker never holds more  *)
(* jobs than its concurrency, nor a job that is not in the queue.          *)
(***************************************************************************)
THEOREM JobQueueTypes == Spec => []TypeOK
  <1>1. SplitInv /\ QueueInv => TypeOK
    BY DEF SplitInv, QueueInv, QueueTypes, Entry, TypeOK
  <1>. QED  BY <1>1, Invariance, PTL

(***************************************************************************)
(* For any gaps, any range that times out and any sizes, the two passes    *)
(* lose no block, give none to two jobs, build no empty and no oversized   *)
(* job and agree on the number of jobs.                                    *)
(***************************************************************************)
THEOREM JobsArePartition == Spec => []JobsPartition
  <1>1. SplitInv => JobsPartition
    BY JobsPartitionHolds
  <1>. QED  BY <1>1, Invariance, PTL

(***************************************************************************)
(* The loops of queueGapsForProcessing and createSmallerChunks compute     *)
(* Pieces: what TxPipeline takes them to do is what they do.               *)
(***************************************************************************)
THEOREM LoopsComputePieces == Spec => []PiecesAsSpecified
  <1>1. SplitInv => PiecesAsSpecified
    BY PiecesAsSpecifiedHolds
  <1>. QED  BY <1>1, Invariance, PTL

(***************************************************************************)
(* However many jobs, stops, exceptions and kills: a job stalls only as    *)
(* often as its process was killed under it, so that shutting down and     *)
(* restarting costs no job one of its attempts.                            *)
(***************************************************************************)
THEOREM ShutdownIsQuiet == Spec => []QuietExit
  <1>1. SplitInv /\ QueueInv => QuietExit
    BY DEF QueueInv
  <1>. QED  BY <1>1, Invariance, PTL
============================================================================
