-------------------------- MODULE GapFinderProofs --------------------------
(***************************************************************************)
(* findGapsInCoverage is right for every table and every request: the gaps *)
(* are exactly the requested blocks without coverage, never overlap, and   *)
(* are the ones the operator GapsBetween says.                             *)
(***************************************************************************)
EXTENDS GapFinder, FiniteSetTheorems, SequenceTheorems, TLAPS

---------------------------------------------------------------------------
(* The gaps the operator GapsBetween says *)

(***************************************************************************)
(* Rows are ranges over the integers, inverted by one block at most.       *)
(***************************************************************************)
AreRows(ranges) ==
    /\ ranges \subseteq BlockRange
    /\ \A r \in ranges : r.fromBlock <= r.toBlock + 1

(***************************************************************************)
(* The rows that overlap a request cover what the table covers of it.      *)
(***************************************************************************)
LEMMA OverlappingCovers ==
    ASSUME NEW ranges, AreRows(ranges), NEW from \in Int, NEW to \in Int,
           NEW b \in from .. to
    PROVE  IsCovered(Overlapping(ranges, from, to), b) <=> IsCovered(ranges, b)
  BY DEF AreRows, BlockRange, IsCovered, Overlapping, BlocksOf

(***************************************************************************)
(* GapsBetween: a gap lies in the request and holds no covered block.      *)
(***************************************************************************)
LEMMA GapsAreRanges ==
    ASSUME NEW ranges, NEW from \in Int, NEW to \in Int,
           NEW g \in GapsBetween(ranges, from, to)
    PROVE  /\ g \in BlockRange
           /\ from <= g.fromBlock /\ g.fromBlock <= g.toBlock /\ g.toBlock <= to
  BY DEF GapsBetween, GapStarts, GapEnds, Range2, BlockRange

(***************************************************************************)
(* GapsBetween: a gap that starts in another one is that one; gaps are     *)
(* apart, and an uncovered block is in exactly one.                        *)
(***************************************************************************)
LEMMA GapsAreApart ==
    ASSUME NEW ranges, AreRows(ranges), NEW from \in Int, NEW to \in Int,
           NEW g \in GapsBetween(ranges, from, to), NEW h \in GapsBetween(ranges, from, to),
           g.fromBlock \in BlocksOf(h)
    PROVE  g = h
  <1>. DEFINE rows == Overlapping(ranges, from, to)
              starts == GapStarts(rows, from, to)
              ends == GapEnds(rows, from, to)
  <1>1. AreRows(rows)
    BY DEF AreRows, Overlapping
  <1>2. \A x \in {g, h} :
           /\ x \in BlockRange /\ x.fromBlock \in Int /\ x.toBlock \in Int
           /\ x.fromBlock <= x.toBlock
           /\ x.fromBlock \in starts /\ x.toBlock \in ends
           /\ \A b \in BlocksOf(x) : ~ IsCovered(rows, b)
           /\ \A b \in starts : b \in BlocksOf(x) => b = x.fromBlock
    <2>1. \A x \in {g, h} : \E s \in starts, e \in ends : x = Range2(s, e)
      BY DEF GapsBetween
    <2>2. \A x \in {g, h} : x.fromBlock \in starts /\ x.toBlock \in ends
      BY <2>1 DEF Range2
    <2>3. starts \subseteq Int /\ ends \subseteq Int
      BY DEF GapStarts, GapEnds
    <2>4. \A x \in {g, h} : x \in BlockRange
      BY GapsAreRanges
    <2>5. \A x \in {g, h} :
             /\ x.fromBlock <= x.toBlock
             /\ \A b \in BlocksOf(x) : ~ IsCovered(rows, b)
             /\ \A b \in starts : b \in BlocksOf(x) => b = x.fromBlock
      BY DEF GapsBetween
    <2>. HIDE DEF rows, starts, ends
    <2>. QED  BY <2>2, <2>3, <2>4, <2>5
  <1>3. g.fromBlock = h.fromBlock
    BY <1>2
  \* Of two gaps with the same start neither ends before the other.
  <1>4. ASSUME NEW x \in {g, h}, NEW y \in {g, h}, x.fromBlock = y.fromBlock,
               x.toBlock < y.toBlock
        PROVE  FALSE
    <2>. DEFINE e == x.toBlock
    <2>1. e \in from .. to /\ y.toBlock \in from .. to
      BY <1>2 DEF GapEnds
    <2>2. e # to
      BY <1>4, <2>1
    <2>3. PICK r \in rows : r.fromBlock - 1 = e
      BY <1>2, <2>2 DEF GapEnds
    <2>4. r.fromBlock \in Int /\ r.toBlock \in Int /\ r.fromBlock <= r.toBlock + 1
      BY <1>1 DEF AreRows, BlockRange
    <2>5. e + 1 \in BlocksOf(y) /\ e + 1 \in from .. to
      BY <1>2, <1>4, <2>1 DEF BlocksOf
    <2>6. ~ IsCovered(rows, e + 1)
      BY <1>2, <2>5
    <2>7. r.toBlock + 1 = e + 1
      BY <2>1, <2>3, <2>4, <2>6 DEF IsCovered, BlocksOf
    <2>8. e + 1 \in starts
      BY <2>5, <2>6, <2>7 DEF GapStarts
    <2>. QED  BY <1>2, <1>4, <2>1, <2>5, <2>8
  <1>5. g.toBlock = h.toBlock
    BY <1>2, <1>3, <1>4
  <1>. QED  BY <1>2, <1>3, <1>5 DEF BlockRange

---------------------------------------------------------------------------
(* The pass over the rows *)

row(j) == coverageRanges[j]

\* The query's answer: the overlapping rows, all of them, in order.
Answered ==
    /\ \A j \in 1 .. Len(coverageRanges) :
          /\ row(j) \in table
          /\ row(j).toBlock >= request.fromBlock
          /\ row(j).fromBlock <= request.toBlock
    /\ \A r \in table :
          r.toBlock >= request.fromBlock /\ r.fromBlock <= request.toBlock
             => \E j \in 1 .. Len(coverageRanges) : row(j) = r
    /\ \A j, m \in 1 .. Len(coverageRanges) :
          j < m => row(j).fromBlock <= row(m).fromBlock

\* Rows behind the loop end before the cursor.
CursorPast ==
    /\ cursor >= request.fromBlock
    /\ \A j \in 1 .. i - 1 : row(j).toBlock < cursor

\* A gap lies in the request, behind the cursor and before the rows ahead.
GapsBehind ==
    \A n \in 1 .. Len(gaps) :
        /\ gaps[n].fromBlock >= request.fromBlock
        /\ gaps[n].toBlock <= request.toBlock
        /\ gaps[n].toBlock < cursor
        /\ \A j \in i .. Len(coverageRanges) : gaps[n].toBlock < row(j).fromBlock

\* No gap shares a block with a row.
GapsUncovered ==
    \A n \in 1 .. Len(gaps) : \A j \in 1 .. Len(coverageRanges) :
        \/ gaps[n].toBlock < row(j).fromBlock
        \/ row(j).toBlock < gaps[n].fromBlock

\* Every block behind the cursor is in a gap or in a row behind the loop.
BehindAccounted ==
    \A b \in request.fromBlock .. cursor - 1 :
        \/ \E n \in 1 .. Len(gaps) : b \in gaps[n].fromBlock .. gaps[n].toBlock
        \/ \E j \in 1 .. i - 1 : b \in row(j).fromBlock .. row(j).toBlock

\* Where a gap may start, and where it may end.
StartsGap(b) ==
    b = request.fromBlock \/ \E j \in 1 .. Len(coverageRanges) : row(j).toBlock + 1 = b

EndsGap(b) ==
    b = request.toBlock \/ \E j \in 1 .. Len(coverageRanges) : row(j).fromBlock - 1 = b

Edges ==
    /\ StartsGap(cursor)
    /\ \A n \in 1 .. Len(gaps) : StartsGap(gaps[n].fromBlock) /\ EndsGap(gaps[n].toBlock)

Inv ==
    /\ TypeOK
    /\ Answered
    /\ GapsDisjoint /\ GapsUncovered /\ Edges
    /\ pc = "scan" => CursorPast /\ GapsBehind /\ BehindAccounted
    /\ GapsExact

---------------------------------------------------------------------------
(***************************************************************************)
(* The element of a sequence extended by one, at each place.               *)
(***************************************************************************)
LEMMA AppendElements ==
    ASSUME NEW S, NEW s \in Seq(S), NEW e \in S
    PROVE  /\ Append(s, e) \in Seq(S)
           /\ Len(Append(s, e)) = Len(s) + 1
           /\ \A n \in 1 .. Len(s) : Append(s, e)[n] = s[n]
           /\ Append(s, e)[Len(s) + 1] = e
  OBVIOUS

(***************************************************************************)
(* Rows and requests are ranges over the integers; rows are inverted by    *)
(* one at most (the constants' assumptions, in the form steps use).        *)
(***************************************************************************)
LEMMA RowShape ==
    ASSUME TypeOK
    PROVE  /\ \A r \in table : /\ r.fromBlock \in Int /\ r.toBlock \in Int
                               /\ r.fromBlock <= r.toBlock + 1
           /\ request.fromBlock \in Int /\ request.toBlock \in Int
           /\ \A n \in 1 .. Len(gaps) :
                 gaps[n].fromBlock \in Int /\ gaps[n].toBlock \in Int
           /\ Len(gaps) \in Nat /\ Len(coverageRanges) \in Nat
  <1>1. \A r \in table : /\ r.fromBlock \in Int /\ r.toBlock \in Int
                         /\ r.fromBlock <= r.toBlock + 1
    BY RowsAssumption DEF TypeOK, BlockRange
  <1>2. request.fromBlock \in Int /\ request.toBlock \in Int
    BY RequestsAssumption DEF TypeOK, BlockRange
  <1>3. gaps \in Seq(BlockRange) /\ coverageRanges \in Seq(Rows)
    BY DEF TypeOK
  <1>4. \A n \in 1 .. Len(gaps) : gaps[n] \in BlockRange
    BY <1>3, ElementOfSeq
  <1>5. Len(gaps) \in Nat /\ Len(coverageRanges) \in Nat
    BY <1>3, LenProperties
  <1>. QED  BY <1>1, <1>2, <1>4, <1>5 DEF BlockRange

(***************************************************************************)
(* A sorted enumeration of a finite set is a sequence of all its elements. *)
(***************************************************************************)
LEMMA SortedSequence ==
    ASSUME NEW S, IsFiniteSet(S), NEW s \in Sorted(S)
    PROVE  /\ s \in Seq(S)
           /\ Len(s) = Cardinality(S)
  <1>1. Cardinality(S) \in Nat
    BY FS_CardinalityType
  <1>2. s \in [1 .. Cardinality(S) -> S]
    BY DEF Sorted
  <1>. QED  BY <1>1, <1>2

LEMMA InitInv == Init => Inv
<1>. SUFFICES ASSUME Init PROVE Inv
  OBVIOUS
<1>. DEFINE S == Overlapping(table, request.fromBlock, request.toBlock)
<1>1. IsFiniteSet(S) /\ S \subseteq table
  BY FS_Subset DEF Init, Overlapping
<1>2. /\ coverageRanges \in Seq(S)
      /\ Len(coverageRanges) = Cardinality(S)
      /\ Len(coverageRanges) \in Nat
  BY <1>1, SortedSequence, FS_CardinalityType DEF Init
<1>3. coverageRanges \in Seq(Rows)
  BY <1>1, <1>2, SeqMonotonic DEF Init
<1>4. TypeOK
  BY <1>2, <1>3, RequestsAssumption DEF Init, TypeOK, BlockRange
<1>5. Answered
  BY <1>1, <1>2 DEF Init, Answered, Sorted, Overlapping, row
<1>6. GapsDisjoint /\ GapsExact
  BY DEF Init, GapsDisjoint, GapsExact
<1>7. CursorPast /\ GapsBehind /\ GapsUncovered /\ BehindAccounted /\ Edges
  BY <1>4, RowShape
     DEF Init, CursorPast, GapsBehind, GapsUncovered, BehindAccounted, Edges, StartsGap
<1>. QED  BY <1>4, <1>5, <1>6, <1>7 DEF Inv

(***************************************************************************)
(* One iteration: the row under the loop either starts behind the cursor,  *)
(* or leaves a gap in front of it that no later row can reach back into.   *)
(***************************************************************************)
LEMMA ScanRowInv == Inv /\ ScanRow => Inv'
<1>. SUFFICES ASSUME Inv, ScanRow PROVE Inv'
  OBVIOUS
<1>. DEFINE r == coverageRanges[i]
            g == Range2(cursor, r.fromBlock - 1)
<1>1. /\ TypeOK /\ Answered /\ GapsDisjoint /\ Edges
      /\ CursorPast /\ GapsBehind /\ GapsUncovered /\ BehindAccounted
  BY DEF Inv, ScanRow
<1>2. /\ i \in 1 .. Len(coverageRanges) /\ i' = i + 1
      /\ pc = "scan" /\ pc' = "scan"
      /\ table' = table /\ request' = request
      /\ coverageRanges' = coverageRanges
      /\ cursor \in Int /\ gaps \in Seq(BlockRange)
  BY <1>1 DEF ScanRow, TypeOK
<1>3. /\ r \in table
      /\ r.fromBlock \in Int /\ r.toBlock \in Int
      /\ r.fromBlock <= r.toBlock + 1
      /\ request.fromBlock \in Int /\ request.toBlock \in Int
      /\ r.fromBlock <= request.toBlock
      /\ Len(gaps) \in Nat /\ Len(coverageRanges) \in Nat
      /\ \A n \in 1 .. Len(gaps) :
            gaps[n].fromBlock \in Int /\ gaps[n].toBlock \in Int
      /\ \A j \in 1 .. Len(coverageRanges) :
            row(j).fromBlock \in Int /\ row(j).toBlock \in Int
  BY <1>1, <1>2, RowShape DEF Answered, row
<1>4. /\ cursor' \in Int /\ cursor' >= cursor /\ cursor' >= r.toBlock + 1
      /\ cursor' = cursor \/ cursor' = r.toBlock + 1
      /\ r.fromBlock <= cursor'
  BY <1>2, <1>3 DEF ScanRow, Greater
<1>5. g \in BlockRange /\ g.fromBlock = cursor /\ g.toBlock = r.fromBlock - 1
  BY <1>2, <1>3 DEF Range2, BlockRange
<1>6. \/ cursor >= r.fromBlock /\ gaps' = gaps
      \/ /\ cursor < r.fromBlock
         /\ gaps' = Append(gaps, g)
         /\ gaps' \in Seq(BlockRange)
         /\ Len(gaps') = Len(gaps) + 1
         /\ \A n \in 1 .. Len(gaps) : gaps'[n] = gaps[n]
         /\ gaps'[Len(gaps) + 1] = g
  <2>1. CASE cursor < r.fromBlock
    BY <2>1, <1>2, <1>5, AppendElements DEF ScanRow
  <2>2. CASE ~(cursor < r.fromBlock)
    BY <2>2, <1>2, <1>3 DEF ScanRow
  <2>. QED  BY <2>1, <2>2
<1>7. TypeOK'
  BY <1>1, <1>2, <1>3, <1>4, <1>6 DEF TypeOK
<1>8. Answered'
  BY <1>1, <1>2 DEF Answered, row
<1>9. GapsDisjoint'
  <2>1. CASE cursor >= r.fromBlock /\ gaps' = gaps
    BY <2>1, <1>1 DEF GapsDisjoint
  <2>2. CASE cursor < r.fromBlock /\ gaps' # gaps
    <3>1. \A n \in 1 .. Len(gaps) : gaps[n].toBlock < cursor
      BY <1>1 DEF GapsBehind
    <3>2. \A n \in 1 .. Len(gaps') :
             \/ n \in 1 .. Len(gaps) /\ gaps'[n] = gaps[n]
             \/ n = Len(gaps) + 1 /\ gaps'[n] = g
      BY <2>2, <1>3, <1>6
    <3>3. ASSUME NEW n \in 1 .. Len(gaps')
          PROVE  gaps'[n].fromBlock <= gaps'[n].toBlock
      <4>1. CASE n \in 1 .. Len(gaps) /\ gaps'[n] = gaps[n]
        BY <4>1, <1>1 DEF GapsDisjoint
      <4>2. CASE n = Len(gaps) + 1 /\ gaps'[n] = g
        BY <2>2, <4>2, <1>2, <1>3, <1>5
      <4>. QED  BY <3>2, <4>1, <4>2
    <3>4. ASSUME NEW m \in 1 .. Len(gaps'), NEW n \in 1 .. Len(gaps'), m < n
          PROVE  gaps'[m].toBlock < gaps'[n].fromBlock
      <4>1. m \in 1 .. Len(gaps) /\ gaps'[m] = gaps[m]
        BY <3>2, <3>4, <2>2, <1>3, <1>6
      <4>2. CASE n \in 1 .. Len(gaps) /\ gaps'[n] = gaps[n]
        BY <3>4, <4>1, <4>2, <1>1 DEF GapsDisjoint
      <4>3. CASE n = Len(gaps) + 1 /\ gaps'[n] = g
        BY <4>1, <4>3, <3>1, <1>5
      <4>. QED  BY <3>2, <4>2, <4>3
    <3>. QED  BY <3>3, <3>4 DEF GapsDisjoint
  <2>. QED  BY <2>1, <2>2, <1>1, <1>6 DEF GapsDisjoint
<1>10. CursorPast'
  BY <1>1, <1>2, <1>3, <1>4 DEF CursorPast, row
<1>11. \A j \in i .. Len(coverageRanges) : r.fromBlock <= row(j).fromBlock
  BY <1>1, <1>2, <1>3 DEF Answered, row
<1>12. GapsBehind'
  <2>. SUFFICES ASSUME NEW n \in 1 .. Len(gaps')
                PROVE  /\ gaps'[n].fromBlock >= request.fromBlock
                       /\ gaps'[n].toBlock <= request.toBlock
                       /\ gaps'[n].toBlock < cursor'
                       /\ \A j \in i + 1 .. Len(coverageRanges) :
                             gaps'[n].toBlock < row(j).fromBlock
    BY <1>2 DEF GapsBehind, row
  <2>1. CASE n \in 1 .. Len(gaps)
    <3>1. gaps'[n] = gaps[n]
      BY <2>1, <1>6
    <3>2. /\ gaps[n].fromBlock >= request.fromBlock
          /\ gaps[n].toBlock <= request.toBlock
          /\ gaps[n].toBlock < cursor
      BY <2>1, <1>1 DEF GapsBehind
    <3>3. \A j \in i .. Len(coverageRanges) : gaps[n].toBlock < row(j).fromBlock
      BY <2>1, <1>1 DEF GapsBehind
    <3>4. gaps[n].toBlock < cursor'
      BY <2>1, <3>2, <1>2, <1>3, <1>4
    <3>5. i + 1 .. Len(coverageRanges) \subseteq i .. Len(coverageRanges)
      BY <1>2, <1>3
    <3>. QED  BY <3>1, <3>2, <3>3, <3>4, <3>5
  <2>2. CASE n = Len(gaps) + 1 /\ gaps'[n] = g
    <3>1. cursor < r.fromBlock
      BY <2>2, <1>3, <1>6
    <3>2. cursor >= request.fromBlock
      BY <1>1 DEF CursorPast
    <3>3. \A j \in i + 1 .. Len(coverageRanges) :
             row(j).fromBlock \in Int /\ r.fromBlock <= row(j).fromBlock
      BY <1>2, <1>3, <1>11
    <3>4. /\ cursor \in Int /\ cursor' \in Int /\ cursor <= cursor'
          /\ r.fromBlock \in Int /\ r.fromBlock <= cursor'
          /\ request.fromBlock \in Int /\ request.toBlock \in Int
          /\ r.fromBlock <= request.toBlock
      BY <1>2, <1>3, <1>4
    <3>5. gaps'[n].fromBlock = cursor /\ gaps'[n].toBlock = r.fromBlock - 1
      BY <2>2, <1>5
    <3>. HIDE DEF r
    <3>. QED  BY <3>1, <3>2, <3>3, <3>4, <3>5
  <2>. QED  BY <2>1, <2>2, <1>3, <1>6
<1>13. GapsUncovered'
  <2>. SUFFICES ASSUME NEW n \in 1 .. Len(gaps'),
                       NEW j \in 1 .. Len(coverageRanges)
                PROVE  \/ gaps'[n].toBlock < row(j).fromBlock
                       \/ row(j).toBlock < gaps'[n].fromBlock
    BY <1>2 DEF GapsUncovered, row
  <2>1. CASE n \in 1 .. Len(gaps)
    BY <2>1, <1>1, <1>6 DEF GapsUncovered
  <2>2. CASE n = Len(gaps) + 1 /\ gaps'[n] = g
    <3>1. CASE j < i
      BY <3>1, <2>2, <1>1, <1>2, <1>5 DEF CursorPast
    <3>2. CASE j >= i
      BY <3>2, <2>2, <1>2, <1>3, <1>5, <1>11
    <3>. QED  BY <3>1, <3>2, <1>2
  <2>. QED  BY <2>1, <2>2, <1>3, <1>6
<1>14. BehindAccounted'
  <2>. SUFFICES ASSUME NEW b \in request.fromBlock .. cursor' - 1
                PROVE  \/ \E n \in 1 .. Len(gaps') :
                             b \in gaps'[n].fromBlock .. gaps'[n].toBlock
                       \/ \E j \in 1 .. i : b \in row(j).fromBlock .. row(j).toBlock
    <3>1. i' - 1 = i
      BY <1>2, <1>3
    <3>. QED  BY <1>2, <3>1 DEF BehindAccounted, row
  <2>. b \in Int /\ b < cursor'
    BY <1>3, <1>4
  <2>1. CASE b < cursor
    <3>1. \/ \E n \in 1 .. Len(gaps) : b \in gaps[n].fromBlock .. gaps[n].toBlock
          \/ \E j \in 1 .. i - 1 : b \in row(j).fromBlock .. row(j).toBlock
      <4>1. b \in request.fromBlock .. cursor - 1
        BY <2>1, <1>2, <1>3, <1>4
      <4>. QED  BY <4>1, <1>1 DEF BehindAccounted
    <3>2. ASSUME NEW n \in 1 .. Len(gaps),
                 b \in gaps[n].fromBlock .. gaps[n].toBlock
          PROVE  n \in 1 .. Len(gaps') /\ gaps'[n] = gaps[n]
      BY <1>3, <1>6
    <3>3. \A j \in 1 .. i - 1 : j \in 1 .. i
      BY <1>2, <1>3
    <3>. QED  BY <3>1, <3>2, <3>3
  <2>2. CASE b >= cursor /\ b < r.fromBlock
    <3>1. cursor < r.fromBlock
      BY <2>2, <1>2, <1>3
    <3>2. Len(gaps) + 1 \in 1 .. Len(gaps') /\ gaps'[Len(gaps) + 1] = g
      BY <3>1, <1>2, <1>3, <1>6
    <3>3. b \in g.fromBlock .. g.toBlock
      BY <2>2, <1>2, <1>3, <1>5
    <3>. QED  BY <3>2, <3>3
  <2>3. CASE b >= cursor /\ b >= r.fromBlock
    <3>1. b \in row(i).fromBlock .. row(i).toBlock
      <4>1. cursor' = r.toBlock + 1 /\ b < cursor'
        <5>1. cursor' \in Int /\ cursor \in Int /\ request.fromBlock \in Int
          BY <1>2, <1>3, <1>4
        <5>2. cursor' # cursor
          BY <2>3, <5>1
        <5>. QED  BY <5>2, <1>4
      <4>2. b \in r.fromBlock .. r.toBlock
        BY <2>3, <4>1, <1>3
      <4>. QED  BY <4>2 DEF row
    <3>. QED  BY <3>1, <1>2
  <2>. QED  BY <2>1, <2>2, <2>3, <1>2, <1>3, <1>4
<1>15. Edges'
  <2>1. \A b : StartsGap(b)' <=> StartsGap(b)
    BY <1>2 DEF StartsGap, row
  <2>2. \A b : EndsGap(b)' <=> EndsGap(b)
    BY <1>2 DEF EndsGap, row
  <2>3. StartsGap(cursor')
    BY <1>1, <1>2, <1>4 DEF Edges, StartsGap, row
  <2>4. EndsGap(r.fromBlock - 1)
    BY <1>2 DEF EndsGap, row
  <2>5. ASSUME NEW n \in 1 .. Len(gaps')
        PROVE  StartsGap(gaps'[n].fromBlock) /\ EndsGap(gaps'[n].toBlock)
    <3>1. CASE n \in 1 .. Len(gaps)
      BY <3>1, <1>1, <1>6 DEF Edges
    <3>2. CASE n = Len(gaps) + 1 /\ gaps'[n] = g
      BY <3>2, <1>1, <1>5, <2>4 DEF Edges
    <3>. QED  BY <3>1, <3>2, <1>3, <1>6
  <2>. QED  BY <2>1, <2>2, <2>3, <2>5 DEF Edges
<1>. QED
  BY <1>2, <1>7, <1>8, <1>9, <1>10, <1>12, <1>13, <1>14, <1>15 DEF Inv, GapsExact

(***************************************************************************)
(* Behind the loop: what is left of the request is the last gap.           *)
(***************************************************************************)
LEMMA EndScanInv == Inv /\ EndScan => Inv'
<1>. SUFFICES ASSUME Inv, EndScan PROVE Inv'
  OBVIOUS
<1>. DEFINE g == Range2(cursor, request.toBlock)
            N == Len(coverageRanges)
<1>1. /\ TypeOK /\ Answered /\ GapsDisjoint /\ Edges
      /\ CursorPast /\ GapsBehind /\ GapsUncovered /\ BehindAccounted
  BY DEF Inv, EndScan
<1>2. /\ i = N + 1 /\ pc' = "done" /\ i' = i /\ cursor' = cursor
      /\ table' = table /\ request' = request /\ coverageRanges' = coverageRanges
      /\ cursor \in Int /\ gaps \in Seq(BlockRange) /\ N \in Nat
  BY <1>1, RowShape DEF EndScan, TypeOK
<1>3. /\ request.fromBlock \in Int /\ request.toBlock \in Int
      /\ Len(gaps) \in Nat
      /\ \A n \in 1 .. Len(gaps) :
            gaps[n].fromBlock \in Int /\ gaps[n].toBlock \in Int
      /\ \A r \in table : r.fromBlock \in Int /\ r.toBlock \in Int
      /\ \A j \in 1 .. N : row(j) \in table
  BY <1>1, RowShape DEF Answered
<1>4. g \in BlockRange /\ g.fromBlock = cursor /\ g.toBlock = request.toBlock
  BY <1>2, <1>3 DEF Range2, BlockRange
<1>5. \/ cursor > request.toBlock /\ gaps' = gaps
      \/ /\ cursor <= request.toBlock
         /\ gaps' = Append(gaps, g)
         /\ gaps' \in Seq(BlockRange)
         /\ Len(gaps') = Len(gaps) + 1
         /\ \A n \in 1 .. Len(gaps) : gaps'[n] = gaps[n]
         /\ gaps'[Len(gaps) + 1] = g
  <2>1. CASE cursor <= request.toBlock
    BY <2>1, <1>2, <1>4, AppendElements DEF EndScan
  <2>2. CASE ~(cursor <= request.toBlock)
    BY <2>2, <1>2, <1>3 DEF EndScan
  <2>. QED  BY <2>1, <2>2
<1>6. \A n \in 1 .. Len(gaps') :
         \/ n \in 1 .. Len(gaps) /\ gaps'[n] = gaps[n]
         \/ n = Len(gaps) + 1 /\ gaps'[n] = g /\ cursor <= request.toBlock
  BY <1>3, <1>5
<1>7. TypeOK'
  BY <1>1, <1>2, <1>5 DEF TypeOK
<1>8. Answered'
  BY <1>1, <1>2 DEF Answered, row
<1>9. GapsDisjoint'
  <2>1. \A n \in 1 .. Len(gaps') : gaps'[n].fromBlock <= gaps'[n].toBlock
    BY <1>1, <1>4, <1>6 DEF GapsDisjoint
  <2>2. ASSUME NEW m \in 1 .. Len(gaps'), NEW n \in 1 .. Len(gaps'), m < n
        PROVE  gaps'[m].toBlock < gaps'[n].fromBlock
    <3>1. m \in 1 .. Len(gaps) /\ gaps'[m] = gaps[m]
      BY <1>3, <1>5, <1>6, <2>2
    <3>2. CASE n \in 1 .. Len(gaps) /\ gaps'[n] = gaps[n]
      BY <2>2, <3>1, <3>2, <1>1 DEF GapsDisjoint
    <3>3. CASE n = Len(gaps) + 1 /\ gaps'[n] = g
      BY <3>1, <3>3, <1>1, <1>4 DEF GapsBehind
    <3>. QED  BY <1>6, <3>2, <3>3
  <2>. QED  BY <2>1, <2>2 DEF GapsDisjoint
<1>10. \A n \in 1 .. Len(gaps') : \A j \in 1 .. N :
          \/ gaps'[n].toBlock < row(j).fromBlock
          \/ row(j).toBlock < gaps'[n].fromBlock
  <2>. SUFFICES ASSUME NEW n \in 1 .. Len(gaps'), NEW j \in 1 .. N
                PROVE  \/ gaps'[n].toBlock < row(j).fromBlock
                       \/ row(j).toBlock < gaps'[n].fromBlock
    OBVIOUS
  <2>1. CASE n \in 1 .. Len(gaps) /\ gaps'[n] = gaps[n]
    BY <2>1, <1>1 DEF GapsUncovered
  <2>2. CASE gaps'[n] = g
    BY <2>2, <1>1, <1>2, <1>4 DEF CursorPast
  <2>. QED  BY <2>1, <2>2, <1>6
<1>11. \A n \in 1 .. Len(gaps') :
          /\ gaps'[n].fromBlock \in Int /\ gaps'[n].toBlock \in Int
          /\ gaps'[n].fromBlock >= request.fromBlock
          /\ gaps'[n].toBlock <= request.toBlock
  BY <1>1, <1>2, <1>3, <1>4, <1>6 DEF GapsBehind, CursorPast
<1>12. ASSUME NEW b \in request.fromBlock .. request.toBlock
       PROVE  (\E n \in 1 .. Len(gaps') : b \in gaps'[n].fromBlock .. gaps'[n].toBlock)
                 <=> ~\E r \in table : b \in r.fromBlock .. r.toBlock
  <2>. b \in Int
    BY <1>3
  <2>1. ASSUME NEW n \in 1 .. Len(gaps'), b \in gaps'[n].fromBlock .. gaps'[n].toBlock,
               NEW r \in table, b \in r.fromBlock .. r.toBlock
        PROVE  FALSE
    <3>1. r.toBlock >= request.fromBlock /\ r.fromBlock <= request.toBlock
      BY <2>1, <1>3
    <3>2. PICK j \in 1 .. N : row(j) = r
      BY <3>1, <1>1 DEF Answered
    <3>3. /\ gaps'[n].fromBlock \in Int /\ gaps'[n].toBlock \in Int
          /\ r.fromBlock \in Int /\ r.toBlock \in Int
      BY <1>3, <1>11
    <3>4. gaps'[n].toBlock < r.fromBlock \/ r.toBlock < gaps'[n].fromBlock
      BY <3>2, <1>10
    <3>5. /\ gaps'[n].fromBlock <= b /\ b <= gaps'[n].toBlock
          /\ r.fromBlock <= b /\ b <= r.toBlock
      BY <2>1, <3>3
    <3>. QED  BY <3>3, <3>4, <3>5
  <2>2. ASSUME ~\E r \in table : b \in r.fromBlock .. r.toBlock
        PROVE  \E n \in 1 .. Len(gaps') : b \in gaps'[n].fromBlock .. gaps'[n].toBlock
    <3>1. CASE b < cursor
      <4>1. \/ \E n \in 1 .. Len(gaps) : b \in gaps[n].fromBlock .. gaps[n].toBlock
            \/ \E j \in 1 .. N : b \in row(j).fromBlock .. row(j).toBlock
        <5>1. b \in request.fromBlock .. cursor - 1
          BY <3>1, <1>2, <1>3
        <5>2. i - 1 = N
          BY <1>2
        <5>. QED  BY <5>1, <5>2, <1>1 DEF BehindAccounted
      <4>2. PICK n \in 1 .. Len(gaps) : b \in gaps[n].fromBlock .. gaps[n].toBlock
        BY <4>1, <2>2, <1>3
      <4>3. n \in 1 .. Len(gaps') /\ gaps'[n] = gaps[n]
        BY <1>3, <1>5
      <4>. QED  BY <4>2, <4>3
    <3>2. CASE b >= cursor
      <4>1. cursor <= request.toBlock
        BY <3>2, <1>2, <1>3
      <4>2. Len(gaps) + 1 \in 1 .. Len(gaps') /\ gaps'[Len(gaps) + 1] = g
        BY <4>1, <1>2, <1>3, <1>5
      <4>3. b \in g.fromBlock .. g.toBlock
        BY <3>2, <1>2, <1>3, <1>4
      <4>. QED  BY <4>2, <4>3
    <3>. QED  BY <3>1, <3>2, <1>2
  <2>. QED  BY <2>1, <2>2
<1>13. GapsExact'
  <2>1. \A b \in BlocksOf(request)' : InGaps(b)' <=> ~IsCovered(table, b)'
    BY <1>2, <1>12 DEF BlocksOf, InGaps, IsCovered
  <2>2. \A n \in 1 .. Len(gaps') : BlocksOf(gaps'[n]) \subseteq BlocksOf(request')
    BY <1>2, <1>3, <1>11 DEF BlocksOf
  <2>. QED  BY <2>1, <2>2 DEF GapsExact
<1>14. GapsUncovered'
  BY <1>2, <1>10 DEF GapsUncovered, row
<1>15. Edges'
  <2>1. \A b : StartsGap(b)' <=> StartsGap(b)
    BY <1>2 DEF StartsGap, row
  <2>2. \A b : EndsGap(b)' <=> EndsGap(b)
    BY <1>2 DEF EndsGap, row
  <2>3. StartsGap(cursor) /\ EndsGap(request.toBlock)
    BY <1>1 DEF Edges, EndsGap
  <2>4. ASSUME NEW n \in 1 .. Len(gaps')
        PROVE  StartsGap(gaps'[n].fromBlock) /\ EndsGap(gaps'[n].toBlock)
    <3>1. CASE n \in 1 .. Len(gaps) /\ gaps'[n] = gaps[n]
      BY <3>1, <1>1 DEF Edges
    <3>2. CASE gaps'[n] = g
      BY <3>2, <1>4, <2>3
    <3>. QED  BY <3>1, <3>2, <1>6
  <2>. QED  BY <2>1, <2>2, <2>3, <2>4, <1>2 DEF Edges
<1>. QED  BY <1>2, <1>7, <1>8, <1>9, <1>13, <1>14, <1>15 DEF Inv

LEMMA StutterInv == Inv /\ UNCHANGED vars => Inv'
<1>. SUFFICES ASSUME Inv, UNCHANGED vars PROVE Inv'
  OBVIOUS
<1>1. UNCHANGED <<table, request, coverageRanges, i, cursor, gaps, pc>>
  BY DEF vars
<1>2. TypeOK'
  BY <1>1 DEF Inv, TypeOK
<1>3. Answered'
  BY <1>1 DEF Inv, Answered, row
<1>4. GapsDisjoint'
  BY <1>1 DEF Inv, GapsDisjoint
<1>5. (pc = "scan" => CursorPast)'
  BY <1>1 DEF Inv, CursorPast, row
<1>6. (pc = "scan" => GapsBehind)'
  BY <1>1 DEF Inv, GapsBehind, row
<1>7. GapsUncovered'
  BY <1>1 DEF Inv, GapsUncovered, row
<1>8. (pc = "scan" => BehindAccounted)'
  BY <1>1 DEF Inv, BehindAccounted, row
<1>9. GapsExact'
  BY <1>1 DEF Inv, GapsExact, InGaps, BlocksOf, IsCovered
<1>10. Edges'
  BY <1>1 DEF Inv, Edges, StartsGap, EndsGap, row
<1>. QED
  BY <1>2, <1>3, <1>4, <1>5, <1>6, <1>7, <1>8, <1>9, <1>10 DEF Inv

LEMMA Invariance == Spec => []Inv
<1>1. Init => Inv
  BY InitInv
<1>2. Inv /\ [Next]_vars => Inv'
  <2>. SUFFICES ASSUME Inv, [Next]_vars PROVE Inv'
    OBVIOUS
  <2>1. CASE ScanRow
    BY <2>1, ScanRowInv
  <2>2. CASE EndScan
    BY <2>2, EndScanInv
  <2>3. CASE Terminated \/ UNCHANGED vars
    BY <2>3, StutterInv DEF Terminated
  <2>. QED  BY <2>1, <2>2, <2>3 DEF Next
<1>. QED  BY <1>1, <1>2, PTL DEF Spec

(***************************************************************************)
(* For every set of coverage rows, in any order getCoverageRanges may      *)
(* return them, and every request: findGapsInCoverage returns exactly the  *)
(* requested blocks without coverage.                                      *)
(***************************************************************************)
THEOREM GapsAreExact == Spec => []GapsExact
<1>1. Inv => GapsExact
  BY DEF Inv
<1>. QED  BY <1>1, Invariance, PTL

(***************************************************************************)
(* ... as gaps that are not empty, ascend and share no block, at every     *)
(* point of the loop.                                                      *)
(***************************************************************************)
THEOREM GapsAreDisjoint == Spec => []GapsDisjoint
<1>1. Inv => GapsDisjoint
  BY DEF Inv
<1>. QED  BY <1>1, Invariance, PTL

(***************************************************************************)
(* The loop's variables keep their types.                                  *)
(***************************************************************************)
THEOREM GapFinderTypes == Spec => []TypeOK
<1>1. Inv => TypeOK
  BY DEF Inv
<1>. QED  BY <1>1, Invariance, PTL

(***************************************************************************)
(* What the loop has found when it ends are gaps in the sense of           *)
(* GapsBetween ...                                                         *)
(***************************************************************************)
LEMMA FoundAreGaps ==
    ASSUME Inv, pc = "done", NEW n \in 1 .. Len(gaps)
    PROVE  gaps[n] \in GapsBetween(table, request.fromBlock, request.toBlock)
<1>. DEFINE g == gaps[n]
            from == request.fromBlock
            to == request.toBlock
            rows == Overlapping(table, from, to)
            starts == GapStarts(rows, from, to)
            ends == GapEnds(rows, from, to)
<1>0. TypeOK /\ Answered /\ GapsDisjoint /\ GapsUncovered /\ Edges /\ GapsExact
  BY DEF Inv
<1>1. /\ from \in Int /\ to \in Int
      /\ g.fromBlock \in Int /\ g.toBlock \in Int /\ g.fromBlock <= g.toBlock
      /\ g \in BlockRange
      /\ \A r \in table : /\ r.fromBlock \in Int /\ r.toBlock \in Int
                          /\ r.fromBlock <= r.toBlock + 1
  <2>1. gaps \in Seq(BlockRange)
    BY <1>0 DEF TypeOK
  <2>2. g \in BlockRange
    BY <2>1, ElementOfSeq
  <2>. QED  BY <1>0, <2>2, RowShape DEF GapsDisjoint
<1>2. \A r \in rows : g.toBlock < r.fromBlock \/ r.toBlock < g.fromBlock
  <2>1. ASSUME NEW r \in rows
        PROVE  \E j \in 1 .. Len(coverageRanges) : row(j) = r
    BY <1>0, <2>1 DEF Answered, Overlapping
  <2>. QED  BY <1>0, <2>1 DEF GapsUncovered
<1>3. from <= g.fromBlock /\ g.toBlock <= to
  BY <1>0, <1>1 DEF GapsExact, BlocksOf
<1>4. \A r \in rows : r \in table
  BY DEF Overlapping
<1>5. \A b \in BlocksOf(g) : ~ IsCovered(rows, b)
  BY <1>1, <1>2, <1>4 DEF BlocksOf, IsCovered
<1>6. g.fromBlock \in starts
  <2>1. g.fromBlock = from \/ \E r \in rows : r.toBlock + 1 = g.fromBlock
    <3>1. \A j \in 1 .. Len(coverageRanges) : row(j) \in rows
      BY <1>0 DEF Answered, Overlapping
    <3>. QED  BY <1>0, <3>1 DEF Edges, StartsGap
  <2>2. g.fromBlock \in BlocksOf(g) /\ g.fromBlock \in from .. to
    BY <1>1, <1>3 DEF BlocksOf
  <2>. QED  BY <1>5, <2>1, <2>2 DEF GapStarts
<1>7. g.toBlock \in ends
  <2>1. g.toBlock = to \/ \E r \in rows : r.fromBlock - 1 = g.toBlock
    <3>1. \A j \in 1 .. Len(coverageRanges) : row(j) \in rows
      BY <1>0 DEF Answered, Overlapping
    <3>. QED  BY <1>0, <3>1 DEF Edges, EndsGap
  <2>2. g.toBlock \in BlocksOf(g) /\ g.toBlock \in from .. to
    BY <1>1, <1>3 DEF BlocksOf
  <2>. QED  BY <1>5, <2>1, <2>2 DEF GapEnds
<1>8. ASSUME NEW b \in starts, b \in BlocksOf(g)
      PROVE  b = g.fromBlock
  <2>1. CASE b = from
    BY <1>1, <1>3, <1>8, <2>1 DEF BlocksOf
  <2>2. CASE \E r \in rows : r.toBlock + 1 = b
    BY <1>1, <1>2, <1>4, <1>8, <2>2 DEF BlocksOf
  <2>. QED  BY <1>8, <2>1, <2>2 DEF GapStarts
<1>9. g = Range2(g.fromBlock, g.toBlock)
  BY <1>1 DEF Range2, BlockRange
<1>. HIDE DEF g, rows, starts, ends
<1>10. g \in {Range2(s, e) : s \in starts, e \in ends}
  BY <1>6, <1>7, <1>9
<1>. QED  BY <1>1, <1>5, <1>8, <1>10 DEF GapsBetween, g, rows, starts, ends

(***************************************************************************)
(* ... and all of them: findGapsInCoverage computes GapsBetween, which is  *)
(* what the model of the whole subsystem uses in its place.                *)
(***************************************************************************)
THEOREM GapsMatchSpecification == Spec => []GapsAsSpecified
<1>1. ASSUME Inv, pc = "done"
      PROVE  {gaps[n] : n \in 1 .. Len(gaps)}
                = GapsBetween(table, request.fromBlock, request.toBlock)
  <2>1. ASSUME NEW g \in GapsBetween(table, request.fromBlock, request.toBlock)
        PROVE  \E n \in 1 .. Len(gaps) : gaps[n] = g
    <3>1. AreRows(table) /\ request.fromBlock \in Int /\ request.toBlock \in Int
      BY <1>1, RowShape, RowsAssumption DEF Inv, TypeOK, AreRows
    <3>2. /\ g \in BlockRange
          /\ request.fromBlock <= g.fromBlock /\ g.fromBlock <= g.toBlock
          /\ g.toBlock <= request.toBlock
      BY <3>1, GapsAreRanges
    <3>3. g.fromBlock \in BlocksOf(request) /\ g.fromBlock \in BlocksOf(g)
      BY <3>1, <3>2 DEF BlockRange, BlocksOf
    <3>4. ~ IsCovered(table, g.fromBlock)
      <4>1. ~ IsCovered(Overlapping(table, request.fromBlock, request.toBlock),
                        g.fromBlock)
        BY <3>3 DEF GapsBetween
      <4>. QED  BY <3>1, <3>3, <4>1, OverlappingCovers DEF BlocksOf
    <3>5. PICK n \in 1 .. Len(gaps) : g.fromBlock \in BlocksOf(gaps[n])
      BY <1>1, <3>3, <3>4 DEF Inv, GapsExact, InGaps
    <3>6. gaps[n] \in GapsBetween(table, request.fromBlock, request.toBlock)
      BY <1>1, FoundAreGaps
    <3>. QED  BY <3>1, <3>5, <3>6, GapsAreApart
  <2>. QED  BY <1>1, <2>1, FoundAreGaps
<1>2. Inv => GapsAsSpecified
  BY <1>1 DEF GapsAsSpecified
<1>. QED  BY <1>2, Invariance, PTL
============================================================================
