----------------------------- MODULE GapFinder -----------------------------
(***************************************************************************)
(* findGapsInCoverage (modules/eth/core/gap-finder.ts) as the loop it is,  *)
(* fed by getCoverageRanges (tx.repository.ts): the coverage rows of one   *)
(* address that overlap the requested range, sorted by fromBlock alone, so *)
(* rows with the same fromBlock come in any order.  One Next step is one   *)
(* iteration; rows may overlap, nest, touch or be inverted by one.         *)
(***************************************************************************)
EXTENDS Ranges, Sequences

CONSTANTS
    Rows,       \* the coverage rows the table may hold
    Requests,   \* the ranges a request may ask for
    MaxRows     \* bound: rows in the table at once

ASSUME RowsAssumption ==
    /\ Rows \subseteq BlockRange
    /\ \A r \in Rows : r.fromBlock <= r.toBlock + 1

ASSUME RequestsAssumption == Requests \subseteq BlockRange /\ MaxRows \in Nat

VARIABLES
    table,           \* the coverage rows of the address
    request,         \* requestedFrom, requestedTo
    coverageRanges,  \* the sorted rows the query returned
    i,               \* the row the loop looks at
    cursor,          \* the first block not yet accounted for
    gaps,            \* the gaps found so far
    pc               \* "scan" in the loop, "tail" behind it, "done"

vars == <<table, request, coverageRanges, i, cursor, gaps, pc>>

\* Mutant: the query without its ORDER BY.
Sorted_Unordered(S) ==
    {s \in [1 .. Cardinality(S) -> S] :
        \A r \in S : \E j \in 1 .. Cardinality(S) : s[j] = r}

\* Every order the database may return the overlapping rows in.
Sorted(S) ==
    {s \in [1 .. Cardinality(S) -> S] :
        /\ \A r \in S : \E j \in 1 .. Cardinality(S) : s[j] = r
        /\ \A j, k \in 1 .. Cardinality(S) :
              j < k => s[j].fromBlock <= s[k].fromBlock}

Init ==
    /\ table \in {T \in SUBSET Rows : IsFiniteSet(T) /\ Cardinality(T) <= MaxRows}
    /\ request \in Requests
    /\ coverageRanges \in
          Sorted(Overlapping(table, request.fromBlock, request.toBlock))
    /\ i = 1
    /\ cursor = request.fromBlock
    /\ gaps = <<>>
    /\ pc = "scan"

\* Mutant: a row that starts at the cursor leaves an empty gap.
ScanRow_EmptyGaps ==
    /\ pc = "scan"
    /\ i <= Len(coverageRanges)
    /\ LET row == coverageRanges[i]
       IN  /\ gaps' = IF cursor <= row.fromBlock
                      THEN Append(gaps, Range2(cursor, row.fromBlock - 1))
                      ELSE gaps
           /\ cursor' = Greater(cursor, row.toBlock + 1)
    /\ i' = i + 1
    /\ UNCHANGED <<table, request, coverageRanges, pc>>

ScanRow ==
    /\ pc = "scan"
    /\ i <= Len(coverageRanges)
    /\ LET row == coverageRanges[i]
       IN  /\ gaps' = IF cursor < row.fromBlock
                      THEN Append(gaps, Range2(cursor, row.fromBlock - 1))
                      ELSE gaps
           /\ cursor' = Greater(cursor, row.toBlock + 1)
    /\ i' = i + 1
    /\ UNCHANGED <<table, request, coverageRanges, pc>>

\* Mutant: a last gap of one block is lost.
EndScan_LosesLast ==
    /\ pc = "scan"
    /\ i > Len(coverageRanges)
    /\ gaps' = IF cursor < request.toBlock
               THEN Append(gaps, Range2(cursor, request.toBlock))
               ELSE gaps
    /\ pc' = "done"
    /\ UNCHANGED <<table, request, coverageRanges, i, cursor>>

\* Mutant: the index moves on although there is no row left.
EndScan_Counts ==
    /\ pc = "scan"
    /\ i > Len(coverageRanges)
    /\ gaps' = gaps
    /\ i' = i + 1
    /\ pc' = "done"
    /\ UNCHANGED <<table, request, coverageRanges, cursor>>

EndScan ==
    /\ pc = "scan"
    /\ i > Len(coverageRanges)
    /\ gaps' = IF cursor <= request.toBlock
               THEN Append(gaps, Range2(cursor, request.toBlock))
               ELSE gaps
    /\ pc' = "done"
    /\ UNCHANGED <<table, request, coverageRanges, i, cursor>>

Terminated == pc = "done" /\ UNCHANGED vars

Next == ScanRow \/ EndScan \/ Terminated

Spec == Init /\ [][Next]_vars /\ WF_vars(ScanRow \/ EndScan)

---------------------------------------------------------------------------
TypeOK ==
    /\ table \subseteq Rows
    /\ request \in Requests
    /\ coverageRanges \in Seq(Rows)
    /\ i \in 1 .. Len(coverageRanges) + 1
    /\ cursor \in Int
    /\ gaps \in Seq(BlockRange)
    /\ pc \in {"scan", "done"}

InGaps(b) == \E k \in 1 .. Len(gaps) : b \in BlocksOf(gaps[k])

(***************************************************************************)
(* The gaps are exactly the requested blocks no coverage row holds: a      *)
(* block left out would never be fetched and the request would be served   *)
(* from an incomplete table; a block outside the request, or one already   *)
(* covered, would be fetched for nothing (findGapsInCoverage's contract).  *)
(***************************************************************************)
GapsExact ==
    pc = "done" =>
        /\ \A b \in BlocksOf(request) : InGaps(b) <=> ~IsCovered(table, b)
        /\ \A k \in 1 .. Len(gaps) : BlocksOf(gaps[k]) \subseteq BlocksOf(request)

(***************************************************************************)
(* Gaps are not empty, ascend and never share a block, so that the jobs    *)
(* cut from them have distinct job ids (queueGapsForProcessing names a job *)
(* by its range) and no block is fetched by two jobs of one request.       *)
(***************************************************************************)
GapsDisjoint ==
    /\ \A k \in 1 .. Len(gaps) : gaps[k].fromBlock <= gaps[k].toBlock
    /\ \A j, k \in 1 .. Len(gaps) :
          j < k => gaps[j].toBlock < gaps[k].fromBlock

(***************************************************************************)
(* The loop computes GapsBetween, the operator TxPipeline uses for it,     *)
(* whatever order rows with equal fromBlock come in.                       *)
(***************************************************************************)
GapsAsSpecified ==
    pc = "done" =>
        {gaps[k] : k \in 1 .. Len(gaps)}
            = GapsBetween(table, request.fromBlock, request.toBlock)
============================================================================
