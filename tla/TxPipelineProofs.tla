-------------------------- MODULE TxPipelineProofs -------------------------
(***************************************************************************)
(* The transaction subsystem keeps its promises for any chain, any number  *)
(* of handlers, worker slots and queries, any limits and any faults: what  *)
(* counts as covered is stored, replies are complete where they say so,    *)
(* and the database grows as TxIndex says.                                 *)
(***************************************************************************)
EXTENDS TxPipeline, FiniteSetTheorems, NaturalsInduction, WellFoundedInduction, TLAPS

---------------------------------------------------------------------------
(* What the operators on block ranges compute *)

(***************************************************************************)
(* A set of naturals has a least element, a set of integers with a bound   *)
(* below one as well, and with a bound above a greatest one.               *)
(***************************************************************************)
LEMMA LeastNatural ==
    ASSUME NEW T, T \subseteq Nat, T # {}
    PROVE  \E m \in T : \A n \in T : m <= n
  <1>1. \E m \in T : \A n \in T : ~ (n < m)
    <2>. DEFINE R == OpToRel(<, Nat)
    <2>1. IsWellFoundedOn(R, Nat)
      BY NatLessThanWellFounded
    <2>2. PICK m \in T : \A n \in T : <<n, m>> \notin R
      BY <2>1, WFMin, Zenon
    <2>3. \A x, y \in T : x < y => <<x, y>> \in R
      BY SMT DEF OpToRel
    <2>. HIDE DEF R
    <2>. QED  BY <2>2, <2>3, Zenon
  <1>. QED  BY <1>1

LEMMA LeastInteger ==
    ASSUME NEW T, T \subseteq Int, T # {},
           NEW lo \in Int, \A x \in T : lo <= x
    PROVE  \E m \in T : \A n \in T : m <= n
  <1>. DEFINE U == {x - lo : x \in T}
  <1>1. U \subseteq Nat /\ U # {}
    <2>1. PICK x \in T : TRUE
      OBVIOUS
    <2>2. x - lo \in U
      BY <2>1
    <2>3. \A y \in T : y - lo \in Nat
      OBVIOUS
    <2>. QED  BY <2>2, <2>3
  <1>2. PICK u \in U : \A v \in U : u <= v
    BY <1>1, LeastNatural, Zenon
  <1>3. PICK m \in T : u = m - lo
    OBVIOUS
  <1>4. \A n \in T : n - lo \in U
    OBVIOUS
  <1>5. \A n \in T : m - lo <= n - lo
    BY <1>2, <1>3, <1>4
  <1>. QED  BY <1>5

LEMMA GreatestInteger ==
    ASSUME NEW T, T \subseteq Int, T # {},
           NEW hi \in Int, \A x \in T : x <= hi
    PROVE  \E m \in T : \A n \in T : n <= m
  <1>. DEFINE U == {hi - x : x \in T}
  <1>1. U \subseteq Nat /\ U # {}
    <2>1. PICK x \in T : TRUE
      OBVIOUS
    <2>2. hi - x \in U
      BY <2>1
    <2>3. \A y \in T : hi - y \in Nat
      OBVIOUS
    <2>. QED  BY <2>2, <2>3
  <1>2. PICK u \in U : \A v \in U : u <= v
    BY <1>1, LeastNatural, Zenon
  <1>3. PICK m \in T : u = hi - m
    OBVIOUS
  <1>4. \A n \in T : hi - n \in U
    OBVIOUS
  <1>5. \A n \in T : hi - m <= hi - n
    BY <1>2, <1>3, <1>4
  <1>. QED  BY <1>5

(***************************************************************************)
(* Rows are ranges over the integers, inverted by one block at most.       *)
(***************************************************************************)
AreRows(ranges) ==
    /\ ranges \subseteq BlockRange
    /\ \A r \in ranges : r.fromBlock <= r.toBlock + 1

(***************************************************************************)
(* The rows that overlap a request cover what the table covers of it.      *)
(***************************************************************************)
LEMMA OverlappingCovers ==
    ASSUME NEW ranges, AreRows(ranges), NEW from \in Int, NEW to \in Int,
           NEW b \in from .. to
    PROVE  IsCovered(Overlapping(ranges, from, to), b) <=> IsCovered(ranges, b)
  BY DEF AreRows, BlockRange, IsCovered, Overlapping, BlocksOf

(***************************************************************************)
(* GapsBetween: a gap lies in the request and holds no covered block.      *)
(***************************************************************************)
LEMMA GapsAreRanges ==
    ASSUME NEW ranges, NEW from \in Int, NEW to \in Int,
           NEW g \in GapsBetween(ranges, from, to)
    PROVE  /\ g \in BlockRange
           /\ from <= g.fromBlock /\ g.fromBlock <= g.toBlock /\ g.toBlock <= to
  BY DEF GapsBetween, GapStarts, GapEnds, Range2, BlockRange

(***************************************************************************)
(* Around an uncovered block of a request a gap starts ...                 *)
(***************************************************************************)
LEMMA GapStartsBelow ==
    ASSUME NEW rows, AreRows(rows), NEW from \in Int, NEW to \in Int,
           NEW b \in from .. to, ~IsCovered(rows, b)
    PROVE  \E s \in GapStarts(rows, from, to) :
              /\ s <= b
              /\ \A x \in s .. b : ~IsCovered(rows, x)
  <1>. DEFINE U == {s \in from .. b : \A x \in s .. b : ~IsCovered(rows, x)}
  <1>1. U \subseteq Int /\ U # {} /\ \A x \in U : from <= x
    <2>1. b \in U
      BY DEF IsCovered
    <2>. QED  BY <2>1
  <1>2. PICK s \in U : \A x \in U : s <= x
    BY <1>1, LeastInteger, Zenon
  <1>3. s \in from .. to /\ ~IsCovered(rows, s)
    BY <1>2
  <1>4. CASE s = from
    BY <1>2, <1>3, <1>4 DEF GapStarts
  <1>5. CASE s # from
    <2>1. s - 1 \in from .. b /\ s - 1 \notin U
      BY <1>2, <1>5
    <2>2. IsCovered(rows, s - 1)
      BY <1>2, <2>1
    <2>3. PICK r \in rows : s - 1 \in BlocksOf(r)
      BY <2>2 DEF IsCovered
    <2>4. r.toBlock + 1 = s
      BY <1>3, <2>3 DEF IsCovered, BlocksOf, AreRows, BlockRange
    <2>. QED  BY <1>2, <1>3, <2>4 DEF GapStarts
  <1>. QED  BY <1>4, <1>5

(***************************************************************************)
(* ... and one ends.                                                       *)
(***************************************************************************)
LEMMA GapEndsAbove ==
    ASSUME NEW rows, AreRows(rows), NEW from \in Int, NEW to \in Int,
           NEW b \in from .. to, ~IsCovered(rows, b)
    PROVE  \E e \in GapEnds(rows, from, to) :
              /\ b <= e
              /\ \A x \in b .. e : ~IsCovered(rows, x)
  <1>. DEFINE U == {e \in b .. to : \A x \in b .. e : ~IsCovered(rows, x)}
  <1>1. U \subseteq Int /\ U # {} /\ \A x \in U : x <= to
    <2>1. b \in U
      BY DEF IsCovered
    <2>. QED  BY <2>1
  <1>2. PICK e \in U : \A x \in U : x <= e
    BY <1>1, GreatestInteger, Zenon
  <1>3. e \in from .. to /\ ~IsCovered(rows, e)
    BY <1>2
  <1>4. CASE e = to
    BY <1>2, <1>3, <1>4 DEF GapEnds
  <1>5. CASE e # to
    <2>1. e + 1 \in b .. to /\ e + 1 \notin U
      BY <1>2, <1>5
    <2>2. IsCovered(rows, e + 1)
      BY <1>2, <2>1
    <2>3. PICK r \in rows : e + 1 \in BlocksOf(r)
      BY <2>2 DEF IsCovered
    <2>4. r.fromBlock - 1 = e
      BY <1>3, <2>3 DEF IsCovered, BlocksOf, AreRows, BlockRange
    <2>. QED  BY <1>2, <1>3, <2>4 DEF GapEnds
  <1>. QED  BY <1>4, <1>5

(***************************************************************************)
(* GapsBetween: every block of the request the table does not cover is in  *)
(* a gap, a row inverted by one cutting the gap but losing no block.       *)
(***************************************************************************)
THEOREM GapsHoldTheUncovered ==
    ASSUME NEW ranges, AreRows(ranges), NEW from \in Int, NEW to \in Int,
           NEW b \in from .. to, ~IsCovered(ranges, b)
    PROVE  IsCovered(GapsBetween(ranges, from, to), b)
  <1>. DEFINE rows == Overlapping(ranges, from, to)
              starts == GapStarts(rows, from, to)
              ends == GapEnds(rows, from, to)
              S == {s \in starts : s <= b /\ \A x \in s .. b : ~IsCovered(rows, x)}
              E == {e \in ends : b <= e /\ \A x \in b .. e : ~IsCovered(rows, x)}
  <1>1. AreRows(rows) /\ ~IsCovered(rows, b)
    BY OverlappingCovers DEF AreRows, Overlapping
  <1>2. PICK s \in S : \A x \in S : x <= s
    <2>1. S \subseteq Int /\ b \in Int /\ \A x \in S : x <= b
      BY DEF GapStarts
    <2>2. S # {}
      BY <1>1, GapStartsBelow
    <2>. QED  BY <2>1, <2>2, GreatestInteger, Zenon
  <1>3. PICK e \in E : \A x \in E : e <= x
    <2>1. E \subseteq Int /\ b \in Int /\ \A x \in E : b <= x
      BY DEF GapEnds
    <2>2. E # {}
      BY <1>1, GapEndsAbove
    <2>. QED  BY <2>1, <2>2, LeastInteger, Zenon
  <1>. DEFINE g == Range2(s, e)
  <1>4. /\ s \in Int /\ e \in Int /\ s <= b /\ b <= e
        /\ s \in starts /\ e \in ends
        /\ g.fromBlock = s /\ g.toBlock = e
    BY <1>2, <1>3 DEF GapStarts, GapEnds, Range2
  <1>5. \A x \in BlocksOf(g) : ~IsCovered(rows, x)
    BY <1>2, <1>3, <1>4 DEF BlocksOf
  <1>6. ASSUME NEW x \in starts, x \in BlocksOf(g), x # s
        PROVE  FALSE
    <2>1. x \in Int /\ s < x /\ x <= e
      BY <1>4, <1>6 DEF BlocksOf
    <2>2. CASE x <= b
      <3>1. \A y \in x .. b : ~IsCovered(rows, y)
        BY <1>2, <1>4, <2>1
      <3>. QED  BY <1>2, <2>1, <2>2, <3>1
    <2>3. CASE b < x
      <3>1. PICK r \in rows : r.toBlock + 1 = x
        BY <1>6, <2>1, <2>3 DEF GapStarts
      <3>2. /\ r.fromBlock \in Int /\ r.toBlock \in Int
            /\ r.fromBlock <= r.toBlock + 1
        BY <1>1 DEF AreRows, BlockRange
      <3>3. x - 1 \in BlocksOf(g)
        BY <1>4, <2>1, <2>3 DEF BlocksOf
      <3>4. ~IsCovered(rows, x - 1)
        BY <1>5, <3>3
      <3>5. r.fromBlock - 1 = x - 1
        BY <3>1, <3>2, <3>4, <2>1 DEF IsCovered, BlocksOf
      <3>6. x - 1 \in E
        <4>1. x - 1 \in from .. to /\ b <= x - 1
          BY <2>1, <2>3 DEF GapStarts
        <4>2. \A y \in b .. x - 1 : ~IsCovered(rows, y)
          BY <1>3, <1>4, <2>1
        <4>. QED  BY <4>1, <4>2, <3>4, <3>5 DEF GapEnds
      <3>. QED  BY <1>3, <1>4, <2>1, <3>6
    <2>. QED  BY <1>4, <2>1, <2>2, <2>3
  <1>7. g \in GapsBetween(ranges, from, to)
    BY <1>4, <1>5, <1>6 DEF GapsBetween
  <1>. QED  BY <1>4, <1>7 DEF IsCovered, BlocksOf

(***************************************************************************)
(* Pieces: a piece of a range is a range that ends no later.               *)
(***************************************************************************)
LEMMA PiecesAreRanges ==
    ASSUME NEW r, r.fromBlock \in Int, r.toBlock \in Int,
           NEW n \in Nat \ {0}, NEW p \in Pieces(r, n)
    PROVE  p \in BlockRange /\ p.toBlock <= r.toBlock
  <1>1. PICK k \in Int : p = Range2(r.fromBlock + k * n,
                                   Lesser(r.fromBlock + (k + 1) * n - 1, r.toBlock))
    BY DEF Pieces
  <1>2. k * n \in Int /\ (k + 1) * n \in Int
    OBVIOUS
  <1>. QED  BY <1>1, <1>2 DEF Range2, Lesser, BlockRange

(***************************************************************************)
(* Division by a block count, the one fact about it that is needed.        *)
(***************************************************************************)
LEMMA Division ==
    ASSUME NEW n \in Nat \ {0}, NEW d \in Nat
    PROVE  /\ d \div n \in Nat
           /\ (d \div n) * n <= d /\ d < (d \div n) * n + n
  OBVIOUS

LEMMA DivisionMonotonic ==
    ASSUME NEW n \in Nat \ {0}, NEW d \in Nat, NEW e \in Nat, d <= e
    PROVE  d \div n <= e \div n
  <1>. DEFINE p == d \div n
              q == e \div n
  <1>1. p \in Nat /\ q \in Nat /\ p * n <= d /\ e < q * n + n
    BY Division
  <1>. HIDE DEF p, q
  <1>2. SUFFICES ASSUME q < p PROVE FALSE
    BY <1>1 DEF p, q
  <1>3. (q + 1) * n <= p * n
    BY <1>1, <1>2
  <1>4. (q + 1) * n = q * n + n
    BY <1>1
  <1>. QED  BY <1>1, <1>3, <1>4

(***************************************************************************)
(* Pieces: the pieces of a range have at most n blocks, lie in the range   *)
(* and hold all of it.                                                     *)
(***************************************************************************)
LEMMA PiecesFit ==
    ASSUME NEW r, r.fromBlock \in Int, r.toBlock \in Int,
           NEW n \in Nat \ {0}, NEW p \in Pieces(r, n)
    PROVE  /\ r.fromBlock <= p.fromBlock /\ p.toBlock <= r.toBlock
           /\ Size(p) <= n
  <1>1. PICK k \in 0 .. ((Size(r) - 1) \div n) :
           p = Range2(r.fromBlock + k * n,
                      Lesser(r.fromBlock + (k + 1) * n - 1, r.toBlock))
    BY DEF Pieces
  <1>2. k \in Nat
    OBVIOUS
  <1>3. k * n \in Nat /\ (k + 1) * n = k * n + n
    BY <1>2
  <1>. QED  BY <1>1, <1>3 DEF Range2, Lesser, Size

LEMMA PiecesCover ==
    ASSUME NEW r, r.fromBlock \in Int, r.toBlock \in Int,
           NEW n \in Nat \ {0}, NEW b \in BlocksOf(r)
    PROVE  \E p \in Pieces(r, n) : b \in BlocksOf(p)
  <1>. DEFINE d == b - r.fromBlock
              k == d \div n
              p == Range2(r.fromBlock + k * n,
                          Lesser(r.fromBlock + (k + 1) * n - 1, r.toBlock))
  <1>1. d \in Nat /\ Size(r) - 1 \in Nat /\ d <= Size(r) - 1 /\ b \in Int
    BY DEF BlocksOf, Size
  <1>2. k \in Nat /\ k * n <= d /\ d < k * n + n /\ k <= (Size(r) - 1) \div n
    BY <1>1, Division, DivisionMonotonic
  <1>3. (Size(r) - 1) \div n \in Nat
    BY <1>1, Division
  <1>. HIDE DEF k
  <1>4. (k + 1) * n = k * n + n /\ k * n \in Nat
    BY <1>2
  <1>5. p \in Pieces(r, n)
    BY <1>2, <1>3 DEF Pieces
  <1>6. b \in BlocksOf(p)
    BY <1>1, <1>2, <1>4 DEF BlocksOf, Range2, Lesser
  <1>. QED  BY <1>5, <1>6

---------------------------------------------------------------------------
(* Type correctness *)

\* A job that waits or runs has an attempt left.
AttemptsLeft ==
    \A j \in jobs : j.state \in {"waiting", "active"} => j.attempts < MaxAttempts

\* A request that is to be cached has its reply.
Requested ==
    /\ request \in [Handler -> Request \cup {Idle}]
    /\ \A h \in Handler : request[h].pc = "store" => request[h].reply \in Reply

Typed == TypeOK /\ AttemptsLeft /\ Requested

(***************************************************************************)
(* A handler behind its first step has a request, a busy slot has a job.   *)
(***************************************************************************)
LEMMA BusyHandler ==
    ASSUME TypeOK, NEW h \in Handler, request[h].pc # "idle"
    PROVE  request[h] \in Request
  BY DEF TypeOK, Idle

LEMMA BusySlot ==
    ASSUME TypeOK, NEW s \in Slot, slot[s].phase # "idle"
    PROVE  slot[s] \in Busy
  BY DEF TypeOK, IdleSlot

LEMMA ContinueTyped ==
    ASSUME Typed, NEW h \in Handler, NEW r \in Request \cup {Idle},
           r.pc = "store" => r.reply \in Reply, Continue(h, r)
    PROVE  Requested'
  BY DEF Typed, Requested, Continue

LEMMA GotoTyped ==
    ASSUME Typed, NEW h \in Handler, NEW step \in Step \ {"store"},
           request[h].pc # "idle", Goto(h, step)
    PROVE  Requested'
  <1>. DEFINE r == [request[h] EXCEPT !.pc = step]
  <1>1. r \in Request /\ r.pc # "store"
    BY BusyHandler DEF Typed, Request
  <1>. QED  BY <1>1, ContinueTyped DEF Goto

LEMMA ProcessTyped ==
    ASSUME TypeOK, NEW s \in Slot, NEW b \in Busy \cup {IdleSlot}, Process(s, b)
    PROVE  slot' \in [Slot -> Busy \cup {IdleSlot}]
  BY DEF TypeOK, Process

LEMMA PhaseTyped ==
    ASSUME TypeOK, NEW s \in Slot, slot[s].phase # "idle",
           NEW phase \in {"claimed", "fetched", "splitting", "finishing", "failing"},
           Phase(s, phase)
    PROVE  slot' \in [Slot -> Busy \cup {IdleSlot}]
  <1>1. [slot[s] EXCEPT !.phase = phase] \in Busy
    BY BusySlot DEF Busy
  <1>. QED  BY <1>1, ProcessTyped DEF Phase

LEMMA SaveTyped ==
    ASSUME TypeOK, NEW a \in Address, NEW from \in Int, NEW to \in Int,
           NEW txs \in SUBSET Tx, SaveTransactionBatch(a, from, to, txs)
    PROVE  /\ transactions' \subseteq Row
           /\ coverage' \in [Address -> SUBSET BlockRange]
  BY DEF TypeOK, SaveTransactionBatch, Row, Range2, BlockRange

LEMMA QueueTyped ==
    ASSUME Typed, NEW a \in Address, NEW gaps \in SUBSET BlockRange,
           QueueGapsForProcessing(a, gaps)
    PROVE  jobs' \subseteq Job /\ AttemptsLeft'
  <1>. DEFINE ids == {JobIdOf(a, p) : p \in UNION {Pieces(g, MaxBlocksPerJob) : g \in gaps}}
  <1>1. \A g \in gaps : \A p \in Pieces(g, MaxBlocksPerJob) : p \in BlockRange
    BY QueueAssumption, PiecesAreRanges DEF BlockRange
  <1>2. ids \subseteq JobId
    BY <1>1 DEF JobIdOf, JobId, BlockRange
  <1>3. \A id \in ids :
           [id |-> id, state |-> "waiting", attempts |-> 0, stalls |-> 0,
            lock |-> NoSlot] \in Job
    BY <1>2, QueueAssumption DEF Job
  <1>. HIDE DEF ids
  <1>4. \A j \in jobs' : j \in jobs \/ (\E id \in ids : j =
           [id |-> id, state |-> "waiting", attempts |-> 0, stalls |-> 0,
            lock |-> NoSlot])
    BY DEF QueueGapsForProcessing, ids
  <1>. QED  BY <1>3, <1>4, QueueAssumption DEF Typed, TypeOK, AttemptsLeft, Requested

LEMMA UpdateTyped ==
    ASSUME Typed, NEW j \in jobs, NEW k \in Job, Update(j, k),
           k.state \in {"waiting", "active"} => k.attempts < MaxAttempts
    PROVE  jobs' \subseteq Job /\ AttemptsLeft'
  BY DEF Typed, TypeOK, AttemptsLeft, Update

LEMMA UnlockTyped ==
    ASSUME Typed, NEW j \in jobs, j.state = "active", Unlock(j)
    PROVE  jobs' \subseteq Job /\ AttemptsLeft'
  <1>. DEFINE again == [j EXCEPT !.state = "waiting", !.lock = NoSlot, !.stalls = @ + 1]
              over  == [j EXCEPT !.state = "failed", !.lock = NoSlot]
  <1>1. j \in Job /\ j.attempts < MaxAttempts
    BY DEF Typed, TypeOK, AttemptsLeft, Requested
  <1>2. over \in Job /\ over.state = "failed"
    BY <1>1 DEF Job
  <1>3. ASSUME j.stalls < MaxStalled PROVE again \in Job
    <2>1. j.stalls + 1 \in 0 .. MaxStalled
      BY <1>1, <1>3, QueueAssumption DEF Job
    <2>2. again = [j EXCEPT !.state = "waiting", !.lock = NoSlot,
                            !.stalls = j.stalls + 1]
      BY <1>1 DEF Job
    <2>. QED  BY <1>1, <2>1, <2>2 DEF Job
  <1>4. again.attempts = j.attempts
    BY <1>1 DEF Job
  <1>5. CASE j.stalls < MaxStalled
    BY <1>1, <1>3, <1>4, <1>5, UpdateTyped DEF Unlock
  <1>6. CASE ~ (j.stalls < MaxStalled)
    BY <1>2, <1>6, UpdateTyped DEF Unlock
  <1>. QED  BY <1>5, <1>6

LEMMA ReplyTyped ==
    ASSUME Typed, NEW h \in Handler, request[h].pc # "idle",
           NEW reply \in Reply, NEW pc \in Step,
           Continue(h, [request[h] EXCEPT !.pc = pc, !.reply = reply])
    PROVE  Requested'
  <1>. DEFINE r == [request[h] EXCEPT !.pc = pc, !.reply = reply]
  <1>1. request[h] \in Request
    BY BusyHandler DEF Typed
  <1>2. r \in Request /\ r.reply = reply
    BY <1>1 DEF Request
  <1>. QED  BY <1>2, ContinueTyped

LEMMA InfoTyped ==
    ASSUME Typed, NEW h \in Handler, request[h].pc # "idle", NEW info \in Info
    PROVE  /\ Resolved(h, info) => Requested'
           /\ \A t \in Written(addressInfo, h, info) : t \in [Address -> Info \cup {Unknown}]
           /\ \A t \in Written(infoCache, h, info) : t \in [Address -> Info \cup {Unknown}]
  <1>1. request[h] \in Request /\ request[h].address \in Address
    BY BusyHandler DEF Typed, Request
  <1>. DEFINE r == [request[h] EXCEPT !.pc = "head", !.info = info]
  <1>2. r \in Request /\ r.pc # "store"
    BY <1>1 DEF Request, Step
  <1>3. Resolved(h, info) => Requested'
    BY <1>2, ContinueTyped DEF Resolved
  <1>. QED  BY <1>1, <1>3 DEF Written, Typed, TypeOK

LEMMA DiscoverableTyped ==
    ASSUME Typed, NEW a \in Address,
           NEW info \in Discoverable(CreatedAt[a], head, RpcFaults)
    PROVE  info \in Info
  <1>. DEFINE created == CreatedAt[a]
  <1>1. created \in Nat \cup {NoBlock} /\ head \in Nat
    BY ChainAssumption DEF Typed, TypeOK
  <1>2. EOA \in Info /\ \A b \in Nat : Contract(b) \in Info
    BY DEF EOA, Contract, Info
  <1>3. HasCode(created, head) => created \in Nat
    BY <1>1 DEF HasCode
  <1>4. \A b \in {0} \cup created .. head : HasCode(created, head) => Contract(b) \in Info
    BY <1>1, <1>2, <1>3
  <1>5. CASE HasCode(created, head)
    <2>1. Truth(created, head) \in Info
      BY <1>2, <1>3, <1>5 DEF Truth
    <2>2. info = Truth(created, head) \/ info = EOA
             \/ info \in {Contract(b) : b \in {0} \cup created .. head}
      BY <1>5 DEF Discoverable
    <2>. QED  BY <1>2, <1>4, <1>5, <2>1, <2>2
  <1>6. CASE ~ HasCode(created, head)
    BY <1>2, <1>6 DEF Discoverable, Truth
  <1>. QED  BY <1>5, <1>6

LEMMA QueryTyped ==
    ASSUME Typed, NEW h \in Handler, request[h].pc # "idle"
    PROVE  /\ request[h].query.from \in Nat
           /\ request[h].query.to \in Nat \cup {NoBlock}
           /\ request[h].query.order \in {"asc", "desc"}
           /\ ClampTo(request[h].query) \in Nat
           /\ ClampTo(request[h].query) <= head
           /\ StartingBlock(request[h].info) \in Nat
           /\ request[h].info \in Info
           /\ request[h].address \in Address
           /\ request[h].from \in Nat /\ request[h].to \in Nat
  <1>1. request[h] \in Request
    BY BusyHandler DEF Typed
  <1>2. /\ request[h].query \in Query /\ request[h].info \in Info
        /\ request[h].address \in Address
        /\ request[h].from \in Nat /\ request[h].to \in Nat
    BY <1>1 DEF Request
  <1>3. head \in Nat
    BY ChainAssumption DEF Typed, TypeOK
  <1>4. /\ request[h].query.from \in Nat
        /\ request[h].query.to \in Nat \cup {NoBlock}
        /\ request[h].query.order \in {"asc", "desc"}
    BY <1>2, QueryAssumption
  <1>5. ClampTo(request[h].query) \in Nat /\ ClampTo(request[h].query) <= head
    BY <1>3, <1>4 DEF ClampTo, Lesser, NoBlock
  <1>6. StartingBlock(request[h].info) \in Nat
    BY <1>2 DEF StartingBlock, Info
  <1>. QED  BY <1>2, <1>4, <1>5, <1>6

(***************************************************************************)
(* One lemma per part of the system: a handler's step keeps the types ...  *)
(***************************************************************************)
LEMMA ProceedTyped ==
    ASSUME Typed, NEW h \in Handler, Proceed(h)
    PROVE  Typed'
  <1>. USE DEF dbVars, infoVars, workerVars, At
  <1>0. TypeOK
    BY DEF Typed
  <1>1. CASE ResolveCached(h)
    <2>1. request[h].pc # "idle" /\ infoCache[request[h].address] \in Info
      BY <1>1, QueryTyped DEF ResolveCached, Typed, TypeOK, Requested
    <2>2. Requested'
      BY <1>1, <2>1, InfoTyped DEF ResolveCached
    <2>. QED  BY <1>1, <2>2 DEF ResolveCached, Typed, TypeOK, AttemptsLeft, Requested
  <1>2. CASE ResolveStored(h)
    <2>. DEFINE info == addressInfo[request[h].address]
    <2>1. request[h].pc # "idle" /\ info \in Info
      BY <1>2, QueryTyped DEF ResolveStored, Typed, TypeOK, Requested
    <2>2. Requested' /\ infoCache' \in [Address -> Info \cup {Unknown}]
      BY <1>2, <2>1, InfoTyped DEF ResolveStored
    <2>. QED  BY <1>2, <2>2 DEF ResolveStored, Typed, TypeOK, AttemptsLeft, Requested
  <1>3. CASE ResolveUnknown(h)
    <2>1. Requested'
      BY <1>3, <1>0, GotoTyped DEF ResolveUnknown, Step
    <2>. QED  BY <1>3, <2>1 DEF ResolveUnknown, Typed, TypeOK, AttemptsLeft, Requested
  <1>4. CASE Discover(h)
    <2>1. PICK info \in Discoverable(CreatedAt[request[h].address], head, RpcFaults) :
             /\ addressInfo' \in Written(addressInfo, h, info)
             /\ infoCache' \in Written(infoCache, h, info)
             /\ Resolved(h, info)
      BY <1>4 DEF Discover
    <2>2. request[h].pc # "idle" /\ info \in Info
      BY <1>4, QueryTyped, DiscoverableTyped DEF Discover
    <2>3. /\ Requested'
          /\ addressInfo' \in [Address -> Info \cup {Unknown}]
          /\ infoCache' \in [Address -> Info \cup {Unknown}]
      BY <2>1, <2>2, InfoTyped
    <2>. QED  BY <1>4, <2>3 DEF Discover, Typed, TypeOK, AttemptsLeft, Requested
  <1>5. CASE ReadHead(h)
    <2>. DEFINE q == request[h].query
                from == IF q.from = 0 THEN StartingBlock(request[h].info)
                        ELSE Greater(q.from, StartingBlock(request[h].info))
                r == [request[h] EXCEPT !.pc = "cache", !.from = from, !.to = ClampTo(q)]
    <2>1. request[h] \in Request
      BY <1>5, <1>0, BusyHandler DEF ReadHead
    <2>2. from \in Nat /\ ClampTo(q) \in Nat
      BY <1>5, QueryTyped DEF ReadHead, Greater
    <2>3. Continue(h, r)
      BY <1>5 DEF ReadHead
    <2>. HIDE DEF from
    <2>4. r \in Request /\ r.pc # "store"
      BY <2>1, <2>2 DEF Request, Step
    <2>5. Requested'
      BY <1>0, <2>3, <2>4, ContinueTyped
    <2>. QED  BY <1>5, <2>5 DEF ReadHead, Typed, TypeOK, AttemptsLeft, Requested
  <1>6. CASE CacheHit(h)
    <2>1. PICK e \in cache :
             Continue(h, [request[h] EXCEPT !.pc = "reply", !.reply = e.reply])
      BY <1>6 DEF CacheHit
    <2>2. e.reply \in Reply
      BY DEF Typed, TypeOK, Entry
    <2>3. Requested'
      BY <1>6, <2>1, <2>2, ReplyTyped DEF CacheHit, Step
    <2>. QED  BY <1>6, <2>3 DEF CacheHit, Typed, TypeOK, AttemptsLeft, Requested
  <1>7. CASE CacheMiss(h)
    <2>1. AfterMiss(request[h]) \in Step \ {"store"}
      BY DEF AfterMiss, Step
    <2>2. Requested'
      BY <1>7, <1>0, <2>1, GotoTyped DEF CacheMiss
    <2>. QED  BY <1>7, <2>2 DEF CacheMiss, Typed, TypeOK, AttemptsLeft, Requested
  <1>8. CASE MarkAll(h)
    <2>1. /\ request[h].pc # "idle" /\ request[h].address \in Address
          /\ request[h].info.creationBlock - 1 \in Int
          /\ request[h].query.from \in Int /\ request[h].to \in Int
      BY <1>8, QueryTyped DEF MarkAll, Info
    <2>2. /\ transactions' \subseteq Row
          /\ coverage' \in [Address -> SUBSET BlockRange]
      BY <1>8, <1>0, <2>1, SaveTyped DEF MarkAll
    <2>. DEFINE reply == [source |-> "database", from |-> request[h].query.from,
                          to |-> request[h].to, txs |-> {}, incomplete |-> FALSE]
    <2>3. reply \in Reply
      BY <2>1 DEF Reply
    <2>4. Continue(h, [request[h] EXCEPT !.pc = "store", !.reply = reply])
      BY <1>8 DEF MarkAll
    <2>. HIDE DEF reply
    <2>5. Requested'
      BY <2>1, <2>3, <2>4, ReplyTyped DEF Step
    <2>. QED  BY <1>8, <2>2, <2>5 DEF MarkAll, Typed, TypeOK, AttemptsLeft, Requested
  <1>9. CASE MarkPrefix(h)
    <2>. DEFINE creation == request[h].info.creationBlock
    <2>1. /\ request[h] \in Request /\ request[h].address \in Address
          /\ creation \in Nat /\ creation - 1 \in Int /\ request[h].query.from \in Int
      BY <1>9, <1>0, QueryTyped, BusyHandler DEF MarkPrefix, Info
    <2>2. /\ transactions' \subseteq Row
          /\ coverage' \in [Address -> SUBSET BlockRange]
      BY <1>9, <1>0, <2>1, SaveTyped DEF MarkPrefix
    <2>. DEFINE r == [request[h] EXCEPT !.pc = "coverage", !.from = creation]
    <2>3. r \in Request /\ r.pc # "store"
      BY <2>1 DEF Request, Step
    <2>4. Requested'
      BY <1>9, <2>3, ContinueTyped DEF MarkPrefix
    <2>. QED  BY <1>9, <2>2, <2>4 DEF MarkPrefix, Typed, TypeOK, AttemptsLeft, Requested
  <1>10. CASE ReadCoverage(h)
    <2>. DEFINE r == request[h]
                found == GapsBetween(coverage[r.address], r.from, r.to)
                next == IF found = {} THEN "database" ELSE "etherscan"
    <2>1. r \in Request /\ r.from \in Int /\ r.to \in Int
      BY <1>10, <1>0, BusyHandler, QueryTyped DEF ReadCoverage
    <2>2. found \subseteq BlockRange
      BY <2>1, GapsAreRanges
    <2>3. Continue(h, [r EXCEPT !.gaps = found, !.pc = next])
      BY <1>10 DEF ReadCoverage
    <2>4. next \in Step \ {"store"}
      BY DEF Step
    <2>. DEFINE q == [r EXCEPT !.gaps = found, !.pc = next]
    <2>. HIDE DEF found, next
    <2>5. q \in Request /\ q.pc # "store"
      BY <2>1, <2>2, <2>4 DEF Request
    <2>6. Requested'
      BY <2>3, <2>5, ContinueTyped
    <2>7. UNCHANGED <<head, dbVars, cache, jobs, workerVars>>
      BY <1>10 DEF ReadCoverage
    <2>. QED  BY <2>6, <2>7 DEF Typed, TypeOK, AttemptsLeft, Requested
  <1>11. CASE ServeDatabase(h) \/ ServeFallback(h)
    <2>0. request[h].pc # "idle"
      BY <1>11 DEF ServeDatabase, ServeFallback
    <2>1. request[h].from \in Int /\ request[h].to \in Int
      BY <2>0, QueryTyped
    <2>2. RowsIn(request[h].address, request[h].from, request[h].to) \in SUBSET Tx
      BY DEF RowsIn
    <2>3. PICK reply \in Reply :
             Continue(h, [request[h] EXCEPT !.pc = "store", !.reply = reply])
      BY <1>11, <2>1, <2>2 DEF ServeDatabase, ServeFallback, ReplyFromDatabase, Reply
    <2>4. Requested'
      BY <2>0, <2>3, ReplyTyped DEF Step
    <2>. QED  BY <1>11, <2>4 DEF ServeDatabase, ServeFallback, Typed, TypeOK, AttemptsLeft, Requested
  <1>12. CASE ServeEtherscan(h) \/ ServeHalf(h)
    <2>0. request[h].pc # "idle"
      BY <1>12 DEF ServeEtherscan, ServeHalf
    <2>1. request[h].from \in Int /\ request[h].to \in Int
      BY <2>0, QueryTyped
    <2>2. \A from, to : TxsIn(request[h].address, from, to) \in SUBSET Tx
      BY DEF TxsIn, TxsOf, InRange
    <2>3. PICK reply \in Reply :
             Continue(h, [request[h] EXCEPT !.pc = "store", !.reply = reply])
      BY <1>12, <2>1, <2>2 DEF ServeEtherscan, ServeHalf, ReplyFromEtherscan, Reply
    <2>4. Requested'
      BY <2>0, <2>3, ReplyTyped DEF Step
    <2>. QED  BY <1>12, <2>4 DEF ServeEtherscan, ServeHalf, Typed, TypeOK, AttemptsLeft, Requested
  <1>13. CASE EtherscanTimesOut(h) \/ EtherscanFails(h)
    <2>1. Requested'
      BY <1>13, <1>0, GotoTyped DEF EtherscanTimesOut, EtherscanFails, Step
    <2>. QED  BY <1>13, <2>1
              DEF EtherscanTimesOut, EtherscanFails, Typed, TypeOK, AttemptsLeft, Requested
  <1>14. CASE StoreInCache(h)
    <2>1. request[h] \in Request
      BY <1>14, <1>0, BusyHandler DEF StoreInCache
    <2>2. KeyOf(h) \in Key
      BY <1>14, QueryTyped DEF StoreInCache, KeyOf, Key
    <2>3. request[h].reply \in Reply
      BY <1>14 DEF StoreInCache, Typed, Requested
    <2>4. cache' \subseteq Entry
      BY <1>14, <2>2, <2>3 DEF StoreInCache, Typed, TypeOK, Entry
    <2>5. Requested'
      BY <1>14, GotoTyped DEF StoreInCache, Step
    <2>. QED  BY <1>14, <2>4, <2>5 DEF StoreInCache, Typed, TypeOK, AttemptsLeft, Requested
  <1>15. CASE SendReply(h)
    <2>1. Requested'
      BY <1>15, GotoTyped, ContinueTyped DEF SendReply, Step, Idle
    <2>. QED  BY <1>15, <2>1 DEF SendReply, Typed, TypeOK, AttemptsLeft, Requested
  <1>16. CASE ProcessGapsInBackground(h)
    <2>1. request[h] \in Request
      BY <1>16, <1>0, BusyHandler DEF ProcessGapsInBackground
    <2>2. request[h].address \in Address /\ request[h].gaps \in SUBSET BlockRange
      BY <2>1 DEF Request
    <2>3. jobs' \subseteq Job /\ AttemptsLeft'
      BY <1>16, <2>2, QueueTyped DEF ProcessGapsInBackground
    <2>4. Requested'
      BY <1>16, ContinueTyped DEF ProcessGapsInBackground, Idle
    <2>. QED  BY <1>16, <2>3, <2>4 DEF ProcessGapsInBackground, Typed, TypeOK, Requested
  <1>. QED  BY <1>1, <1>2, <1>3, <1>4, <1>5, <1>6, <1>7, <1>8, <1>9, <1>10, <1>11,
               <1>12, <1>13, <1>14, <1>15, <1>16 DEF Proceed

(***************************************************************************)
(* ... and so does a step of the worker, ...                               *)
(***************************************************************************)
LEMMA ProcessJobTyped ==
    ASSUME Typed, NEW s \in Slot, ProcessJob(s)
    PROVE  Typed'
  <1>. USE DEF dbVars, infoVars, InPhase
  <1>. DEFINE Slots == [Slot -> Busy \cup {IdleSlot}]
  <1>0. TypeOK
    BY DEF Typed
  <1>1. CASE FetchGap(s)
    <2>. DEFINE j == slot[s].job
    <2>1. slot[s] \in Busy
      BY <1>0, <1>1, BusySlot DEF FetchGap
    <2>2. PICK got \in SUBSET TxsOf(j.address), end \in (j.fromBlock - 1) .. j.toBlock :
             Process(s, [slot[s] EXCEPT !.phase = "fetched", !.got = got, !.end = end])
      BY <1>1 DEF FetchGap
    <2>3. got \in SUBSET Tx /\ end \in Int
      BY DEF TxsOf
    <2>4. [slot[s] EXCEPT !.phase = "fetched", !.got = got, !.end = end] \in Busy
      BY <2>1, <2>3 DEF Busy
    <2>5. slot' \in Slots
      BY <1>0, <2>2, <2>4, ProcessTyped
    <2>6. UNCHANGED <<head, dbVars, cache, request, jobs, mishaps>>
      BY <1>1 DEF FetchGap
    <2>. QED  BY <2>5, <2>6 DEF Typed, TypeOK, AttemptsLeft, Requested
  <1>2. CASE SaveGap(s)
    <2>1. slot[s] \in Busy
      BY <1>0, <1>2, BusySlot DEF SaveGap
    <2>2. /\ slot[s].job.address \in Address
          /\ slot[s].job.fromBlock \in Int /\ slot[s].end \in Int
          /\ slot[s].got \in SUBSET Tx
      BY <2>1 DEF Busy, JobId
    <2>3. /\ transactions' \subseteq Row
          /\ coverage' \in [Address -> SUBSET BlockRange]
      BY <1>0, <1>2, <2>2, SaveTyped DEF SaveGap
    <2>4. slot' \in Slots
      BY <1>0, <1>2, PhaseTyped DEF SaveGap
    <2>. QED  BY <1>2, <2>3, <2>4 DEF SaveGap, Typed, TypeOK, AttemptsLeft, Requested
  <1>3. CASE FetchTimesOut(s) \/ JobThrows(s)
    <2>1. slot' \in Slots
      BY <1>0, <1>3, PhaseTyped DEF FetchTimesOut, JobThrows
    <2>. QED  BY <1>3, <2>1
              DEF FetchTimesOut, JobThrows, Typed, TypeOK, AttemptsLeft, Requested
  <1>4. CASE RequeueChunks(s)
    <2>1. slot[s] \in Busy
      BY <1>0, <1>4, BusySlot DEF RequeueChunks
    <2>2. /\ slot[s].job.address \in Address
          /\ \A p \in Pieces(slot[s].job, ChunkSize) : p \in BlockRange
      <3>1. slot[s].job.address \in Address /\ slot[s].job \in JobId
        BY <2>1 DEF Busy, JobId
      <3>2. slot[s].job.fromBlock \in Int /\ slot[s].job.toBlock \in Int
        BY <3>1 DEF JobId
      <3>. QED  BY <3>1, <3>2, QueueAssumption, PiecesAreRanges
    <2>3. Pieces(slot[s].job, ChunkSize) \in SUBSET BlockRange
      BY <2>2
    <2>4. jobs' \subseteq Job /\ AttemptsLeft'
      BY <1>4, <2>2, <2>3, QueueTyped DEF RequeueChunks
    <2>5. slot' \in Slots
      BY <1>0, <1>4, PhaseTyped DEF RequeueChunks
    <2>. QED  BY <1>4, <2>4, <2>5 DEF RequeueChunks, Typed, TypeOK, Requested
  <1>5. CASE CompleteJob(s)
    <2>1. slot' \in Slots
      BY <1>0, <1>5, ProcessTyped DEF CompleteJob
    <2>2. jobs' \subseteq Job /\ AttemptsLeft'
      <3>1. CASE UNCHANGED jobs
        BY <3>1 DEF Typed, TypeOK, AttemptsLeft
      <3>2. ASSUME NEW j \in jobs,
                   Update(j, [j EXCEPT !.state = "completed", !.lock = NoSlot])
            PROVE  jobs' \subseteq Job /\ AttemptsLeft'
        <4>. DEFINE k == [j EXCEPT !.state = "completed", !.lock = NoSlot]
        <4>1. j \in Job
          BY <1>0 DEF TypeOK
        <4>2. k \in Job /\ k.state = "completed"
          BY <4>1 DEF Job
        <4>. QED  BY <3>2, <4>2, UpdateTyped
      <3>. QED  BY <1>5, <3>1, <3>2 DEF CompleteJob
    <2>. QED  BY <1>5, <2>1, <2>2 DEF CompleteJob, Typed, TypeOK, Requested
  <1>6. CASE FailJob(s)
    <2>1. slot' \in Slots
      BY <1>0, <1>6, ProcessTyped DEF FailJob
    <2>2. jobs' \subseteq Job /\ AttemptsLeft'
      <3>1. CASE UNCHANGED jobs
        BY <3>1 DEF Typed, TypeOK, AttemptsLeft
      <3>2. ASSUME NEW j \in jobs, HoldsLock(s, j),
                   Update(j, [j EXCEPT
                     !.state = IF j.attempts + 1 < MaxAttempts THEN "waiting" ELSE "failed",
                     !.attempts = j.attempts + 1, !.lock = NoSlot])
            PROVE  jobs' \subseteq Job /\ AttemptsLeft'
        <4>. DEFINE state == IF j.attempts + 1 < MaxAttempts THEN "waiting" ELSE "failed"
                    k == [j EXCEPT !.state = state, !.attempts = j.attempts + 1,
                                   !.lock = NoSlot]
        <4>1. j \in Job /\ j.attempts < MaxAttempts
          BY <1>0, <3>2 DEF TypeOK, HoldsLock, Typed, AttemptsLeft
        <4>2. j.attempts \in Nat /\ j.attempts + 1 \in 0 .. MaxAttempts
          BY <4>1, QueueAssumption DEF Job
        <4>3. k \in Job /\ (k.state = "waiting" => k.attempts < MaxAttempts)
                /\ k.state # "active"
          BY <4>1, <4>2 DEF Job
        <4>. QED  BY <3>2, <4>3, UpdateTyped
      <3>. QED  BY <1>6, <3>1, <3>2 DEF FailJob
    <2>. QED  BY <1>6, <2>1, <2>2 DEF FailJob, Typed, TypeOK, Requested
  <1>. QED  BY <1>1, <1>2, <1>3, <1>4, <1>5, <1>6 DEF ProcessJob

LEMMA TypedInit == Init => Typed
  BY ChainAssumption, QueueAssumption
     DEF Init, Typed, TypeOK, AttemptsLeft, Requested, Idle, IdleSlot

(***************************************************************************)
(* ... and every other step.                                               *)
(***************************************************************************)
LEMMA TypedStep == Typed /\ [Next]_vars => Typed'
  <1>. SUFFICES ASSUME Typed, [Next]_vars PROVE Typed'
    OBVIOUS
  <1>. USE DEF dbVars, infoVars, workerVars
  <1>0. TypeOK
    BY DEF Typed
  <1>1. CASE NewBlock
    BY <1>1, ChainAssumption DEF NewBlock, Typed, TypeOK, AttemptsLeft, Requested
  <1>2. ASSUME NEW h \in Handler, NEW a \in Address, NEW q \in Query, Begin(h, a, q)
        PROVE  Typed'
    <2>. DEFINE r == [pc |-> "resolve", address |-> a, query |-> q, info |-> EOA,
                      from |-> 0, to |-> 0, gaps |-> {}, reply |-> NoReply]
    <2>1. r \in Request /\ r.pc # "store"
      BY DEF Request, Step, EOA, Info
    <2>2. Requested'
      BY <1>2, <2>1, ContinueTyped DEF Begin
    <2>. QED  BY <1>2, <2>2 DEF Begin, Typed, TypeOK, AttemptsLeft, Requested
  <1>3. ASSUME NEW h \in Handler, Proceed(h)
        PROVE  Typed'
    BY <1>3, ProceedTyped
  <1>4. ASSUME NEW h \in Handler, AbortRequest(h)
        PROVE  Typed'
    <2>1. Requested'
      BY <1>4, ContinueTyped DEF AbortRequest, RequestThrows, HandOverFails, Idle
    <2>. QED  BY <1>4, <2>1 DEF AbortRequest, RequestThrows, HandOverFails, Typed, TypeOK,
                            AttemptsLeft, Requested
  <1>5. CASE ExpireEntry
    BY <1>5 DEF ExpireEntry, Typed, TypeOK, AttemptsLeft, Requested
  <1>6. CASE ExpireInfo
    BY <1>6 DEF ExpireInfo, Typed, TypeOK, AttemptsLeft, Requested
  <1>7. ASSUME NEW s \in Slot, NEW j \in jobs, ClaimJob(s, j)
        PROVE  Typed'
    <2>. DEFINE k == [j EXCEPT !.state = "active", !.lock = s]
                b == [phase |-> "claimed", job |-> j.id, got |-> {}, end |-> 0]
    <2>1. j \in Job /\ j.attempts < MaxAttempts
      BY <1>7 DEF ClaimJob, Typed, TypeOK, AttemptsLeft
    <2>2. k \in Job /\ k.attempts = j.attempts
      BY <2>1 DEF Job
    <2>3. jobs' \subseteq Job /\ AttemptsLeft'
      BY <1>7, <2>1, <2>2, UpdateTyped DEF ClaimJob
    <2>4. b \in Busy
      BY <2>1 DEF Busy, Job
    <2>5. slot' \in [Slot -> Busy \cup {IdleSlot}]
      BY <1>0, <1>7, <2>4, ProcessTyped DEF ClaimJob
    <2>. QED  BY <1>7, <2>3, <2>5 DEF ClaimJob, Typed, TypeOK, Requested
  <1>8. ASSUME NEW s \in Slot, ProcessJob(s)
        PROVE  Typed'
    BY <1>8, ProcessJobTyped
  <1>9. CASE WorkerCrash
    <2>1. mishaps' \in 0 .. MaxMishaps
      BY <1>9, QueueAssumption DEF WorkerCrash, Typed, TypeOK
    <2>. QED  BY <1>9, <2>1 DEF WorkerCrash, Typed, TypeOK, AttemptsLeft, Requested
  <1>10. ASSUME NEW j \in jobs, RecoverJob(j) \/ LoseLock(j)
         PROVE  Typed'
    <2>1. jobs' \subseteq Job /\ AttemptsLeft'
      BY <1>10, UnlockTyped DEF RecoverJob, LoseLock
    <2>2. mishaps' \in 0 .. MaxMishaps
      BY <1>10, QueueAssumption DEF RecoverJob, LoseLock, Typed, TypeOK
    <2>3. UNCHANGED <<head, dbVars, cache, request, slot>>
      BY <1>10 DEF RecoverJob, LoseLock
    <2>. QED  BY <2>1, <2>2, <2>3 DEF Typed, TypeOK, Requested
  <1>11. CASE EvictJob
    BY <1>11 DEF EvictJob, Typed, TypeOK, AttemptsLeft, Requested
  <1>12. CASE UNCHANGED vars
    BY <1>12 DEF vars, Typed, TypeOK, AttemptsLeft, Requested
  <1>. QED  BY <1>1, <1>2, <1>3, <1>4, <1>5, <1>6, <1>7, <1>8, <1>9, <1>10, <1>11,
               <1>12 DEF Next

(***************************************************************************)
(* Type correctness of the whole subsystem; retries end, for a job that    *)
(* waits or runs has an attempt left, and nothing but a reply is cached.   *)
(***************************************************************************)
THEOREM PipelineTypes == Spec => [](TypeOK /\ AttemptsLeft)
  <1>1. Typed => TypeOK /\ AttemptsLeft
    BY DEF Typed
  <1>. QED  BY <1>1, TypedInit, TypedStep, PTL DEF Spec

---------------------------------------------------------------------------
(* Coverage *)

(***************************************************************************)
(* The detector cannot be wrong about an address: getCode does not fail    *)
(* during its search, or the address never becomes a contract.             *)
(***************************************************************************)
Sighted(a) == RpcFaults => CreatedAt[a] = NoBlock

\* What is remembered of an address names its creation, which has happened.
TrueInfo(a, info, latest) ==
    info.isContract => /\ info.creationBlock <= latest
                       /\ Sighted(a) => info.creationBlock = CreatedAt[a]

(***************************************************************************)
(* What a handler has found out so far still holds: the chain has reached  *)
(* the end of its range and of its gaps, the range is before the creation  *)
(* or around it where it acts on that, and covered where it reads rows.    *)
(***************************************************************************)
SoundRequest(r, latest, covered) ==
    r # Idle =>
        /\ TrueInfo(r.address, r.info, latest)
        /\ r.pc \notin {"resolve", "discover", "head"} => r.to <= latest
        /\ \A g \in r.gaps : g.toBlock <= latest
        /\ r.pc = "markAll" => r.info.isContract /\ r.to < r.info.creationBlock
        /\ r.pc = "markPrefix" =>
              r.info.isContract /\ r.query.from < r.info.creationBlock
        /\ r.pc = "database" =>
              \A b \in r.from .. r.to : IsCovered(covered[r.address], b)

\* What a slot is about to save is complete for the range it will claim.
SoundSlot(busy, latest) ==
    busy.phase # "idle" =>
        /\ busy.job.toBlock <= latest
        /\ busy.phase = "fetched" =>
              /\ busy.job.fromBlock - 1 <= busy.end /\ busy.end <= busy.job.toBlock
              /\ \A t \in busy.got : busy.job.address \in PartiesOf[t]
              /\ \A t \in Tx : /\ busy.job.address \in PartiesOf[t]
                               /\ BlockOf[t] \in busy.job.fromBlock .. busy.end
                               => t \in busy.got

InfosTrue ==
    \A a \in Address : /\ TrueInfo(a, addressInfo[a], head)
                       /\ TrueInfo(a, infoCache[a], head)

RequestsSound == \A h \in Handler : SoundRequest(request[h], head, coverage)

SlotsSound == \A s \in Slot : SoundSlot(slot[s], head)

\* No job is for blocks that do not exist yet.
JobsReached == \A j \in jobs : j.id.toBlock <= head

\* A row is of a transaction its address takes part in.
RowsTrue == \A r \in transactions : r.address \in PartiesOf[r.hash]

(***************************************************************************)
(* Every transaction of a covered block is in the table, though perhaps as *)
(* the row of another address that takes part in it.                       *)
(***************************************************************************)
CoveredStored ==
    \A t \in Tx : \A a \in PartiesOf[t] :
        Sighted(a) /\ IsCovered(coverage[a], BlockOf[t])
           => \E r \in transactions : r.hash = t

TableSound ==
    /\ RowsTrue
    /\ CoveredStored
    /\ \A a \in Address : AreRows(coverage[a])

Inv ==
    /\ Typed
    /\ InfosTrue
    /\ RequestsSound
    /\ SlotsSound
    /\ JobsReached
    /\ TableSound

\* What no step takes back.
Grows ==
    /\ head <= head'
    /\ \A a \in Address : coverage[a] \subseteq coverage'[a]

(***************************************************************************)
(* What held of a handler, a slot or an info holds when the system has     *)
(* grown.                                                                  *)
(***************************************************************************)
LEMMA InfoStaysTrue ==
    ASSUME NEW a \in Address, NEW info \in Info \cup {Unknown},
           NEW n \in Nat, NEW m \in Nat, n <= m, TrueInfo(a, info, n)
    PROVE  TrueInfo(a, info, m)
  BY DEF TrueInfo, Info, Unknown, NoBlock

LEMMA RequestStaysSound ==
    ASSUME NEW r \in Request \cup {Idle}, NEW n \in Nat, NEW m \in Nat, n <= m,
           NEW C, NEW D, \A a \in Address : C[a] \subseteq D[a],
           SoundRequest(r, n, C)
    PROVE  SoundRequest(r, m, D)
  <1>1. CASE r # Idle
    <2>1. /\ r.address \in Address /\ r.info \in Info /\ r.to \in Nat
          /\ r.gaps \in SUBSET BlockRange
      BY <1>1 DEF Request
    <2>2. TrueInfo(r.address, r.info, m)
      BY <1>1, <2>1, InfoStaysTrue DEF SoundRequest
    <2>3. \A g \in r.gaps : g.toBlock \in Int
      BY <2>1 DEF BlockRange
    <2>4. \A b \in r.from .. r.to :
             IsCovered(C[r.address], b) => IsCovered(D[r.address], b)
      BY <2>1 DEF IsCovered
    <2>. QED  BY <1>1, <2>1, <2>2, <2>3, <2>4 DEF SoundRequest
  <1>. QED  BY <1>1 DEF SoundRequest

LEMMA SlotStaysSound ==
    ASSUME NEW b \in Busy \cup {IdleSlot}, NEW n \in Nat, NEW m \in Nat, n <= m,
           SoundSlot(b, n)
    PROVE  SoundSlot(b, m)
  BY DEF SoundSlot, Busy, JobId, IdleSlot

LEMMA HeadIsNat ==
    ASSUME TypeOK
    PROVE  head \in Nat /\ head <= MaxBlock
  BY ChainAssumption DEF TypeOK

(***************************************************************************)
(* A step that leaves a part of the system alone keeps what holds of it.   *)
(***************************************************************************)
LEMMA KeepInfos ==
    ASSUME Inv, Typed', head <= head', UNCHANGED infoVars
    PROVE  InfosTrue'
  <1>1. head \in Nat /\ head' \in Nat
    BY HeadIsNat, ChainAssumption DEF Inv, Typed, TypeOK
  <1>. QED  BY <1>1, InfoStaysTrue DEF Inv, InfosTrue, Typed, TypeOK, infoVars

LEMMA KeepRequests ==
    ASSUME Inv, Typed', Grows, UNCHANGED request
    PROVE  RequestsSound'
  <1>1. head \in Nat /\ head' \in Nat
    BY HeadIsNat, ChainAssumption DEF Inv, Typed, TypeOK
  <1>2. ASSUME NEW h \in Handler
        PROVE  SoundRequest(request[h], head', coverage')
    <2>1. request[h] \in Request \cup {Idle}
      BY DEF Inv, Typed, TypeOK
    <2>. QED  BY <1>1, <2>1, RequestStaysSound DEF Inv, RequestsSound, Grows
  <1>. QED  BY <1>2 DEF RequestsSound

LEMMA MoveRequest ==
    ASSUME Inv, Typed', Grows, NEW h \in Handler, NEW r \in Request \cup {Idle},
           Continue(h, r), SoundRequest(r, head', coverage')
    PROVE  RequestsSound'
  <1>1. head \in Nat /\ head' \in Nat
    BY HeadIsNat, ChainAssumption DEF Inv, Typed, TypeOK
  <1>2. ASSUME NEW x \in Handler
        PROVE  SoundRequest(request'[x], head', coverage')
    <2>1. request[x] \in Request \cup {Idle}
      BY DEF Inv, Typed, TypeOK
    <2>2. CASE x = h
      BY <2>2 DEF Continue, Inv, Typed, TypeOK
    <2>3. CASE x # h
      <3>1. request'[x] = request[x]
        BY <2>3 DEF Continue, Inv, Typed, TypeOK
      <3>. QED  BY <1>1, <2>1, <3>1, RequestStaysSound DEF Inv, RequestsSound, Grows
    <2>. QED  BY <2>2, <2>3
  <1>. QED  BY <1>2 DEF RequestsSound

LEMMA KeepSlots ==
    ASSUME Inv, Typed', head <= head', UNCHANGED slot
    PROVE  SlotsSound'
  <1>1. head \in Nat /\ head' \in Nat
    BY HeadIsNat, ChainAssumption DEF Inv, Typed, TypeOK
  <1>2. ASSUME NEW s \in Slot
        PROVE  SoundSlot(slot[s], head')
    <2>1. slot[s] \in Busy \cup {IdleSlot}
      BY DEF Inv, Typed, TypeOK
    <2>. QED  BY <1>1, <2>1, SlotStaysSound DEF Inv, SlotsSound
  <1>. QED  BY <1>2 DEF SlotsSound

LEMMA MoveSlot ==
    ASSUME Inv, Typed', UNCHANGED head, NEW s \in Slot, NEW b,
           Process(s, b), SoundSlot(b, head)
    PROVE  SlotsSound'
  BY DEF Process, SlotsSound, Inv, Typed, TypeOK

LEMMA KeepJobs ==
    ASSUME Inv, Typed', head <= head', jobs' \subseteq jobs
    PROVE  JobsReached'
  <1>1. head \in Nat /\ head' \in Nat
    BY HeadIsNat, ChainAssumption DEF Inv, Typed, TypeOK
  <1>2. \A j \in jobs : j.id.toBlock \in Int
    BY DEF Inv, Typed, TypeOK, Job, JobId
  <1>. QED  BY <1>1, <1>2 DEF Inv, JobsReached

LEMMA MoveJob ==
    ASSUME Inv, UNCHANGED head, NEW j \in jobs, NEW k, k.id = j.id, Update(j, k)
    PROVE  JobsReached'
  BY DEF Inv, JobsReached, Update

LEMMA UnlockKeeps ==
    ASSUME Inv, UNCHANGED head, NEW j \in jobs, Unlock(j)
    PROVE  JobsReached'
  <1>1. j \in Job
    BY DEF Inv, Typed, TypeOK
  <1>2. PICK k : k.id = j.id /\ Update(j, k)
    <2>1. CASE j.stalls < MaxStalled
      <3>1. [j EXCEPT !.state = "waiting", !.lock = NoSlot, !.stalls = @ + 1].id = j.id
        BY <1>1 DEF Job
      <3>. QED  BY <2>1, <3>1 DEF Unlock
    <2>2. CASE ~ (j.stalls < MaxStalled)
      <3>1. [j EXCEPT !.state = "failed", !.lock = NoSlot].id = j.id
        BY <1>1 DEF Job
      <3>. QED  BY <2>2, <3>1 DEF Unlock
    <2>. QED  BY <2>1, <2>2
  <1>. QED  BY <1>2, MoveJob

LEMMA QueueReached ==
    ASSUME Inv, UNCHANGED head, NEW a, NEW gaps \in SUBSET BlockRange,
           \A g \in gaps : g.toBlock <= head, QueueGapsForProcessing(a, gaps)
    PROVE  JobsReached'
  <1>. DEFINE ids == {JobIdOf(a, p) : p \in UNION {Pieces(g, MaxBlocksPerJob) : g \in gaps}}
  <1>1. \A g \in gaps : \A p \in Pieces(g, MaxBlocksPerJob) : p.toBlock <= head
    <2>1. head \in Nat
      BY HeadIsNat DEF Inv, Typed
    <2>2. ASSUME NEW g \in gaps, NEW p \in Pieces(g, MaxBlocksPerJob)
          PROVE  p.toBlock <= head
      <3>1. g.fromBlock \in Int /\ g.toBlock \in Int
        BY DEF BlockRange
      <3>2. p \in BlockRange /\ p.toBlock <= g.toBlock
        BY <3>1, QueueAssumption, PiecesAreRanges
      <3>. QED  BY <2>1, <3>1, <3>2 DEF BlockRange
    <2>. QED  BY <2>2
  <1>2. \A id \in ids : id.toBlock <= head
    BY <1>1 DEF JobIdOf
  <1>. HIDE DEF ids
  <1>3. \A j \in jobs' : j \in jobs \/ j.id \in ids
    BY DEF QueueGapsForProcessing, ids
  <1>. QED  BY <1>2, <1>3 DEF Inv, JobsReached

LEMMA KeepTable ==
    ASSUME Inv, UNCHANGED <<coverage, transactions>>
    PROVE  TableSound'
  BY DEF Inv, TableSound, RowsTrue, CoveredStored

(***************************************************************************)
(* What saveTransactionBatch is given holds every transaction of the range *)
(* it claims, which exists.                                                *)
(***************************************************************************)
Whole(a, from, to, txs) ==
    /\ from <= to + 1 /\ to <= head
    /\ \A t \in txs : a \in PartiesOf[t]
    /\ \A t \in Tx : /\ Sighted(a) /\ a \in PartiesOf[t]
                     /\ BlockOf[t] \in from .. to
                     => t \in txs

SavesWhole ==
    \E a \in Address, from \in Int, to \in Int, txs \in SUBSET Tx :
        Whole(a, from, to, txs) /\ SaveTransactionBatch(a, from, to, txs)

(***************************************************************************)
(* Such a save keeps the table sound: it skips a transaction only if there *)
(* is a row of it.                                                         *)
(***************************************************************************)
LEMMA SaveSound ==
    ASSUME Inv, SavesWhole
    PROVE  /\ TableSound'
           /\ \A x \in Address : coverage[x] \subseteq coverage'[x]
  <1>. PICK a \in Address, from \in Int, to \in Int, txs \in SUBSET Tx :
          Whole(a, from, to, txs) /\ SaveTransactionBatch(a, from, to, txs)
    BY DEF SavesWhole
  <1>. DEFINE added == {t \in txs : \A r \in transactions : r.hash # t}
              new == Range2(from, to)
  <1>1. /\ transactions' = transactions \cup {[hash |-> t, address |-> a] : t \in added}
        /\ coverage' = [coverage EXCEPT ![a] = @ \cup {new}]
    BY DEF SaveTransactionBatch
  <1>2. \A x \in Address : coverage'[x] = IF x = a THEN coverage[x] \cup {new}
                                                   ELSE coverage[x]
    BY <1>1 DEF Inv, Typed, TypeOK
  <1>3. RowsTrue'
    BY <1>1 DEF Inv, TableSound, RowsTrue, Whole
  <1>4. \A x \in Address : AreRows(coverage'[x])
    <2>1. new \in BlockRange /\ new.fromBlock <= new.toBlock + 1
      BY DEF Range2, BlockRange, Whole
    <2>. HIDE DEF new
    <2>. QED  BY <1>2, <2>1 DEF Inv, TableSound, AreRows
  <1>5. ASSUME NEW t \in txs
        PROVE  \E r \in transactions' : r.hash = t
    <2>1. CASE t \in added
      <3>1. [hash |-> t, address |-> a] \in transactions'
        BY <1>1, <2>1
      <3>. QED  BY <3>1
    <2>2. CASE t \notin added
      BY <1>1, <2>2
    <2>. QED  BY <2>1, <2>2
  <1>6. ASSUME NEW t \in Tx, NEW x \in PartiesOf[t], Sighted(x),
               IsCovered(coverage'[x], BlockOf[t])
        PROVE  \E r \in transactions' : r.hash = t
    <2>1. x \in Address
      BY ChainAssumption
    <2>2. CASE IsCovered(coverage[x], BlockOf[t])
      <3>1. \E r \in transactions : r.hash = t
        BY <1>6, <2>2 DEF Inv, TableSound, CoveredStored
      <3>. QED  BY <1>1, <3>1
    <2>3. CASE ~ IsCovered(coverage[x], BlockOf[t])
      <3>1. x = a /\ BlockOf[t] \in BlocksOf(new)
        BY <1>2, <1>6, <2>1, <2>3 DEF IsCovered
      <3>2. t \in txs
        BY <1>6, <3>1 DEF BlocksOf, Range2, Whole
      <3>. QED  BY <1>5, <3>2
    <2>. QED  BY <2>2, <2>3
  <1>7. CoveredStored'
    BY <1>6 DEF CoveredStored
  <1>. QED  BY <1>2, <1>3, <1>4, <1>7 DEF TableSound

---------------------------------------------------------------------------
LEMMA InvInit == Init => Inv
  <1>. SUFFICES ASSUME Init PROVE Inv
    OBVIOUS
  <1>1. Typed
    BY TypedInit
  <1>2. InfosTrue
    BY DEF Init, InfosTrue, TrueInfo, Unknown
  <1>3. RequestsSound /\ SlotsSound /\ JobsReached
    BY DEF Init, RequestsSound, SlotsSound, JobsReached, SoundRequest, SoundSlot, IdleSlot
  <1>4. TableSound
    <2>1. \A t \in Tx : PartiesOf[t] \subseteq Address
      BY ChainAssumption
    <2>. QED  BY <2>1 DEF Init, TableSound, RowsTrue, CoveredStored, IsCovered, AreRows
  <1>. QED  BY <1>1, <1>2, <1>3, <1>4 DEF Inv

(***************************************************************************)
(* What discovery answers is true.                                         *)
(***************************************************************************)
LEMMA DiscoveredTrue ==
    ASSUME Typed, NEW a \in Address,
           NEW info \in Discoverable(CreatedAt[a], head, RpcFaults)
    PROVE  TrueInfo(a, info, head)
  <1>. DEFINE created == CreatedAt[a]
  <1>1. created \in Nat \cup {NoBlock} /\ head \in Nat
    BY ChainAssumption, HeadIsNat DEF Typed
  <1>2. CASE info.isContract
    <2>1. ~ EOA.isContract /\ \A b : Contract(b).creationBlock = b
      BY DEF EOA, Contract
    <2>2. HasCode(created, head)
      <3>1. SUFFICES ASSUME ~ HasCode(created, head) PROVE FALSE
        OBVIOUS
      <3>2. info = EOA
        BY <3>1 DEF Discoverable, Truth
      <3>. QED  BY <1>2, <2>1, <3>2
    <2>3. created \in Nat /\ created <= head
      BY <1>1, <2>2 DEF HasCode
    <2>4. Truth(created, head) = Contract(created)
      BY <2>2 DEF Truth
    <2>5. CASE info = Contract(created)
      BY <2>1, <2>3, <2>5 DEF TrueInfo
    <2>6. CASE info # Contract(created)
      <3>1. /\ RpcFaults
            /\ info \in {EOA} \cup {Contract(b) : b \in {0} \cup created .. head}
        BY <2>2, <2>4, <2>6 DEF Discoverable
      <3>2. info \in {Contract(b) : b \in {0} \cup created .. head}
        BY <1>2, <2>1, <3>1
      <3>3. PICK b \in {0} \cup created .. head : info = Contract(b)
        BY <3>2
      <3>4. info.creationBlock <= head
        BY <1>1, <2>1, <2>3, <3>3
      <3>5. ~ Sighted(a)
        BY <2>3, <3>1 DEF Sighted, NoBlock
      <3>. QED  BY <3>4, <3>5 DEF TrueInfo
    <2>. QED  BY <2>5, <2>6
  <1>3. CASE ~ info.isContract
    BY <1>3 DEF TrueInfo
  <1>. QED  BY <1>2, <1>3

(***************************************************************************)
(* A step of a handler that leaves the database and the queue alone keeps  *)
(* the invariant if what the handler has found out holds.                  *)
(***************************************************************************)
LEMMA HandlerStep ==
    ASSUME Inv, Typed', NEW h \in Handler, NEW r \in Request \cup {Idle},
           Continue(h, r), SoundRequest(r, head, coverage),
           UNCHANGED <<head, dbVars, jobs, slot>>
    PROVE  Inv'
  <1>. USE DEF dbVars, infoVars
  <1>1. Grows /\ head <= head'
    BY HeadIsNat DEF Grows, Inv, Typed
  <1>2. RequestsSound'
    BY <1>1, MoveRequest
  <1>3. InfosTrue' /\ SlotsSound' /\ JobsReached' /\ TableSound'
    BY <1>1, KeepInfos, KeepSlots, KeepJobs, KeepTable
  <1>. QED  BY <1>2, <1>3 DEF Inv

(***************************************************************************)
(* A tier that was written, or failed to be, differs at the address only.  *)
(***************************************************************************)
LEMMA WrittenAt ==
    ASSUME NEW tier \in [Address -> Info \cup {Unknown}], NEW h \in Handler, NEW info,
           NEW t \in Written(tier, h, info), NEW x \in Address
    PROVE  t[x] = tier[x] \/ (x = request[h].address /\ t[x] = info)
  <1>1. t = tier \/ t = [tier EXCEPT ![request[h].address] = info]
    BY DEF Written
  <1>. QED  BY <1>1

(***************************************************************************)
(* The same if the step says what it has learned of the address.           *)
(***************************************************************************)
LEMMA ResolvedStep ==
    ASSUME Inv, Typed', NEW h \in Handler, request[h].pc # "idle",
           NEW info \in Info, TrueInfo(request[h].address, info, head),
           \/ UNCHANGED addressInfo
           \/ addressInfo' \in Written(addressInfo, h, info),
           \/ UNCHANGED infoCache
           \/ infoCache' \in Written(infoCache, h, info),
           Resolved(h, info), UNCHANGED <<head, coverage, transactions, jobs, slot>>
    PROVE  Inv'
  <1>. DEFINE a == request[h].address
              r == [request[h] EXCEPT !.pc = "head", !.info = info]
  <1>1. Grows /\ head <= head'
    BY HeadIsNat DEF Grows, Inv, Typed
  <1>2. /\ request[h] \in Request /\ a \in Address
        /\ SoundRequest(request[h], head, coverage)
    BY BusyHandler DEF Inv, Typed, RequestsSound, Request
  <1>3. r \in Request /\ r.pc = "head" /\ r.info = info /\ r.address = a
        /\ r.gaps = request[h].gaps
    BY <1>2 DEF Request, Step
  <1>4. request[h] # Idle
    BY DEF Idle
  <1>. HIDE DEF r
  <1>5. SoundRequest(r, head', coverage')
    BY <1>2, <1>3, <1>4 DEF SoundRequest
  <1>6. RequestsSound'
    BY <1>1, <1>3, <1>5, MoveRequest DEF Resolved, r
  <1>7. \A x \in Address :
           /\ addressInfo'[x] = addressInfo[x] \/ (x = a /\ addressInfo'[x] = info)
           /\ infoCache'[x] = infoCache[x] \/ (x = a /\ infoCache'[x] = info)
    <2>1. /\ addressInfo \in [Address -> Info \cup {Unknown}]
          /\ infoCache \in [Address -> Info \cup {Unknown}]
      BY DEF Inv, Typed, TypeOK
    <2>. QED  BY <2>1, WrittenAt
  <1>8. InfosTrue'
    BY <1>7 DEF InfosTrue, Inv
  <1>9. SlotsSound' /\ JobsReached' /\ TableSound'
    BY <1>1, KeepSlots, KeepJobs, KeepTable
  <1>. QED  BY <1>6, <1>8, <1>9 DEF Inv

LEMMA HandlerFacts ==
    ASSUME Inv, NEW h \in Handler, request[h].pc # "idle"
    PROVE  /\ request[h] \in Request /\ request[h] # Idle
           /\ request[h].address \in Address /\ request[h].info \in Info
           /\ request[h].from \in Nat /\ request[h].to \in Nat
           /\ request[h].query.from \in Nat
           /\ request[h].gaps \in SUBSET BlockRange
           /\ TrueInfo(request[h].address, request[h].info, head)
           /\ request[h].pc \notin {"resolve", "discover", "head"} => request[h].to <= head
           /\ \A g \in request[h].gaps : g.toBlock <= head
           /\ SoundRequest(request[h], head, coverage)
           /\ head \in Nat
  <1>1. request[h] \in Request /\ request[h] # Idle /\ head \in Nat
    BY BusyHandler, HeadIsNat DEF Inv, Typed, Idle
  <1>2. request[h].query.from \in Nat
    BY QueryTyped DEF Inv
  <1>3. SoundRequest(request[h], head, coverage)
    BY DEF Inv, RequestsSound
  <1>. QED  BY <1>1, <1>2, <1>3 DEF Request, SoundRequest

LEMMA SlotFacts ==
    ASSUME Inv, NEW s \in Slot, slot[s].phase # "idle"
    PROVE  /\ slot[s] \in Busy /\ SoundSlot(slot[s], head)
           /\ slot[s].job.address \in Address
           /\ slot[s].job.fromBlock \in Int /\ slot[s].job.toBlock \in Int
           /\ slot[s].job.toBlock <= head
           /\ slot[s].end \in Int /\ slot[s].got \in SUBSET Tx
           /\ head \in Nat
  <1>1. slot[s] \in Busy /\ head \in Nat
    BY BusySlot, HeadIsNat DEF Inv, Typed
  <1>2. SoundSlot(slot[s], head)
    BY DEF Inv, SlotsSound
  <1>. QED  BY <1>1, <1>2 DEF Busy, JobId, SoundSlot

(***************************************************************************)
(* The three steps that save save no less than they claim.                 *)
(***************************************************************************)
LEMMA MarkAllSaves ==
    ASSUME Inv, NEW h \in Handler, MarkAll(h)
    PROVE  SavesWhole
  <1>. DEFINE a == request[h].address
              creation == request[h].info.creationBlock
  <1>1. request[h].pc = "markAll"
    BY DEF MarkAll, At
  <1>2. /\ creation \in Nat /\ request[h].info.isContract /\ head \in Nat
        /\ TrueInfo(a, request[h].info, head) /\ a \in Address
    BY <1>1, HandlerFacts DEF Info, SoundRequest
  <1>3. Whole(a, 0, creation - 1, {})
    BY <1>2, CreationAssumption, ChainAssumption DEF Whole, TrueInfo
  <1>4. SaveTransactionBatch(a, 0, creation - 1, {})
    BY DEF MarkAll
  <1>5. 0 \in Int /\ creation - 1 \in Int /\ {} \in SUBSET Tx
    BY <1>2
  <1>. HIDE DEF a, creation
  <1>. QED  BY <1>2, <1>3, <1>4, <1>5 DEF SavesWhole

LEMMA MarkPrefixSaves ==
    ASSUME Inv, NEW h \in Handler, MarkPrefix(h)
    PROVE  SavesWhole
  <1>. DEFINE a == request[h].address
              creation == request[h].info.creationBlock
              from == request[h].query.from
  <1>1. request[h].pc = "markPrefix"
    BY DEF MarkPrefix, At
  <1>2. /\ creation \in Nat /\ request[h].info.isContract /\ head \in Nat
        /\ TrueInfo(a, request[h].info, head) /\ a \in Address
        /\ from \in Nat /\ from < creation
    BY <1>1, HandlerFacts DEF Info, SoundRequest
  <1>3. Whole(a, from, creation - 1, {})
    BY <1>2, CreationAssumption, ChainAssumption DEF Whole, TrueInfo
  <1>4. SaveTransactionBatch(a, from, creation - 1, {})
    BY DEF MarkPrefix
  <1>5. from \in Int /\ creation - 1 \in Int /\ {} \in SUBSET Tx
    BY <1>2
  <1>. HIDE DEF a, creation, from
  <1>. QED  BY <1>2, <1>3, <1>4, <1>5 DEF SavesWhole

LEMMA SaveGapSaves ==
    ASSUME Inv, NEW s \in Slot, SaveGap(s)
    PROVE  SavesWhole
  <1>. DEFINE j == slot[s].job
  <1>1. slot[s].phase = "fetched"
    BY DEF SaveGap, InPhase
  <1>2. /\ j.address \in Address /\ j.fromBlock \in Int /\ slot[s].end \in Int
        /\ slot[s].got \in SUBSET Tx /\ j.toBlock \in Int /\ head \in Nat
        /\ j.toBlock <= head /\ SoundSlot(slot[s], head)
    BY <1>1, SlotFacts
  <1>3. Whole(j.address, j.fromBlock, slot[s].end, slot[s].got)
    BY <1>1, <1>2 DEF SoundSlot, Whole
  <1>4. SaveTransactionBatch(j.address, j.fromBlock, slot[s].end, slot[s].got)
    BY DEF SaveGap
  <1>. QED  BY <1>2, <1>3, <1>4 DEF SavesWhole

(***************************************************************************)
(* A handler that goes on to a step nothing is known of.                   *)
(***************************************************************************)
LEMMA GotoStep ==
    ASSUME Inv, Typed', NEW h \in Handler, request[h].pc # "idle",
           NEW step \in Step \ {"markAll", "markPrefix", "database"}, Goto(h, step),
           request[h].pc \in {"resolve", "discover", "head"}
              => step \in {"resolve", "discover", "head"},
           UNCHANGED <<head, dbVars, jobs, slot>>
    PROVE  Inv'
  <1>. DEFINE r == [request[h] EXCEPT !.pc = step]
  <1>1. /\ r \in Request /\ r.pc = step /\ r.info = request[h].info
        /\ r.address = request[h].address /\ r.gaps = request[h].gaps
        /\ r.to = request[h].to
    BY HandlerFacts DEF Request
  <1>2. SoundRequest(r, head, coverage)
    BY <1>1, HandlerFacts DEF SoundRequest
  <1>. QED  BY <1>1, <1>2, HandlerStep DEF Goto

(***************************************************************************)
(* A handler that has built its reply.                                     *)
(***************************************************************************)
LEMMA ReplyStep ==
    ASSUME Inv, Typed', NEW h \in Handler, NEW reply \in Reply,
           request[h].pc \notin {"idle", "resolve", "discover", "head"},
           NEW pc \in {"store", "reply"},
           Continue(h, [request[h] EXCEPT !.pc = pc, !.reply = reply])
    PROVE  /\ \E r \in Request :
                 Continue(h, r) /\ SoundRequest(r, head, coverage)
           /\ Grows /\ UNCHANGED head => RequestsSound'
  <1>. DEFINE r == [request[h] EXCEPT !.pc = pc, !.reply = reply]
  <1>1. /\ r \in Request /\ r.pc = pc /\ r.info = request[h].info
        /\ r.address = request[h].address /\ r.gaps = request[h].gaps
        /\ r.to = request[h].to
    BY HandlerFacts DEF Request, Step
  <1>. HIDE DEF r
  <1>2. \A C : SoundRequest(r, head, C)
    BY <1>1, HandlerFacts DEF SoundRequest
  <1>3. Continue(h, r)
    BY DEF r
  <1>. QED  BY <1>1, <1>2, <1>3, MoveRequest

LEMMA ProceedInv ==
    ASSUME Inv, Typed', NEW h \in Handler, Proceed(h)
    PROVE  Inv'
  <1>. USE DEF dbVars, infoVars, workerVars, At
  <1>0. Typed /\ TypeOK
    BY DEF Inv, Typed
  <1>1. CASE ResolveCached(h)
    <2>. DEFINE info == infoCache[request[h].address]
    <2>1. request[h].pc # "idle" /\ info # Unknown
      BY <1>1 DEF ResolveCached
    <2>2. info \in Info /\ TrueInfo(request[h].address, info, head)
      BY <2>1, HandlerFacts, <1>0 DEF TypeOK, Inv, InfosTrue
    <2>. QED  BY <1>1, <2>1, <2>2, ResolvedStep DEF ResolveCached
  <1>2. CASE ResolveStored(h)
    <2>. DEFINE info == addressInfo[request[h].address]
    <2>1. request[h].pc # "idle" /\ info # Unknown
      BY <1>2 DEF ResolveStored
    <2>2. info \in Info /\ TrueInfo(request[h].address, info, head)
      BY <2>1, HandlerFacts, <1>0 DEF TypeOK, Inv, InfosTrue
    <2>. QED  BY <1>2, <2>1, <2>2, ResolvedStep DEF ResolveStored
  <1>3. CASE ResolveUnknown(h)
    BY <1>3, GotoStep DEF ResolveUnknown, Step
  <1>4. CASE Discover(h)
    <2>1. PICK info \in Discoverable(CreatedAt[request[h].address], head, RpcFaults) :
             /\ addressInfo' \in Written(addressInfo, h, info)
             /\ infoCache' \in Written(infoCache, h, info)
             /\ Resolved(h, info)
      BY <1>4 DEF Discover
    <2>2. request[h].pc # "idle"
      BY <1>4 DEF Discover
    <2>3. info \in Info /\ TrueInfo(request[h].address, info, head)
      BY <1>0, <2>2, HandlerFacts, DiscoverableTyped, DiscoveredTrue
    <2>. QED  BY <1>4, <2>1, <2>2, <2>3, ResolvedStep DEF Discover
  <1>5. CASE ReadHead(h)
    <2>. DEFINE q == request[h].query
                from == IF q.from = 0 THEN StartingBlock(request[h].info)
                        ELSE Greater(q.from, StartingBlock(request[h].info))
                r == [request[h] EXCEPT !.pc = "cache", !.from = from, !.to = ClampTo(q)]
    <2>1. request[h].pc # "idle"
      BY <1>5 DEF ReadHead
    <2>2. from \in Nat /\ ClampTo(q) \in Nat /\ ClampTo(q) <= head
      BY <1>0, <2>1, QueryTyped DEF Greater
    <2>3. Continue(h, r)
      BY <1>5 DEF ReadHead
    <2>. HIDE DEF from
    <2>4. /\ r \in Request /\ r.pc = "cache" /\ r.info = request[h].info
          /\ r.address = request[h].address /\ r.gaps = request[h].gaps
          /\ r.to = ClampTo(q)
      BY <2>1, <2>2, HandlerFacts DEF Request, Step
    <2>5. SoundRequest(r, head, coverage)
      BY <2>1, <2>2, <2>4, HandlerFacts DEF SoundRequest
    <2>. QED  BY <1>5, <2>3, <2>4, <2>5, HandlerStep DEF ReadHead
  <1>6. CASE CacheHit(h)
    <2>1. PICK e \in cache :
             Continue(h, [request[h] EXCEPT !.pc = "reply", !.reply = e.reply])
      BY <1>6 DEF CacheHit
    <2>2. e.reply \in Reply
      BY <1>0 DEF TypeOK, Entry
    <2>3. PICK r \in Request : Continue(h, r) /\ SoundRequest(r, head, coverage)
      BY <1>6, <2>1, <2>2, ReplyStep DEF CacheHit
    <2>. QED  BY <1>6, <2>3, HandlerStep DEF CacheHit
  <1>7. CASE CacheMiss(h)
    <2>. DEFINE step == AfterMiss(request[h])
                r == [request[h] EXCEPT !.pc = step]
    <2>1. request[h].pc = "cache"
      BY <1>7 DEF CacheMiss
    <2>2. step \in {"coverage", "markAll", "markPrefix"}
      BY DEF AfterMiss
    <2>3. /\ r \in Request /\ r.pc = step /\ r.info = request[h].info
          /\ r.address = request[h].address /\ r.gaps = request[h].gaps
          /\ r.to = request[h].to /\ r.query = request[h].query
      BY <2>1, <2>2, HandlerFacts DEF Request, Step
    <2>4. /\ step = "markAll" => r.info.isContract /\ r.to < r.info.creationBlock
          /\ step = "markPrefix" =>
                r.info.isContract /\ r.query.from < r.info.creationBlock
      BY <2>3 DEF AfterMiss
    <2>5. Continue(h, r)
      BY <1>7 DEF CacheMiss, Goto
    <2>. HIDE DEF r, step
    <2>6. SoundRequest(r, head, coverage)
      BY <2>1, <2>2, <2>3, <2>4, HandlerFacts DEF SoundRequest
    <2>. QED  BY <1>7, <2>3, <2>5, <2>6, HandlerStep DEF CacheMiss
  <1>8. CASE MarkAll(h)
    <2>. DEFINE reply == [source |-> "database", from |-> request[h].query.from,
                          to |-> request[h].to, txs |-> {}, incomplete |-> FALSE]
    <2>1. request[h].pc = "markAll"
      BY <1>8 DEF MarkAll
    <2>4. TableSound' /\ \A x \in Address : coverage[x] \subseteq coverage'[x]
      BY <1>8, MarkAllSaves, SaveSound
    <2>5. UNCHANGED <<head, infoVars, cache, jobs, workerVars>>
      BY <1>8 DEF MarkAll
    <2>6. Grows /\ head <= head'
      BY <2>1, <2>4, <2>5, HandlerFacts DEF Grows
    <2>7. reply \in Reply
      BY <2>1, HandlerFacts DEF Reply
    <2>8. Continue(h, [request[h] EXCEPT !.pc = "store", !.reply = reply])
      BY <1>8 DEF MarkAll
    <2>. HIDE DEF reply
    <2>9. RequestsSound'
      BY <2>1, <2>5, <2>6, <2>7, <2>8, ReplyStep
    <2>10. InfosTrue' /\ SlotsSound' /\ JobsReached'
      BY <2>5, <2>6, KeepInfos, KeepSlots, KeepJobs
    <2>. QED  BY <2>4, <2>9, <2>10 DEF Inv
  <1>9. CASE MarkPrefix(h)
    <2>. DEFINE a == request[h].address
                creation == request[h].info.creationBlock
                r == [request[h] EXCEPT !.pc = "coverage", !.from = creation]
    <2>1. request[h].pc = "markPrefix"
      BY <1>9 DEF MarkPrefix
    <2>2. creation \in Nat
      BY <2>1, HandlerFacts DEF Info
    <2>4. TableSound' /\ \A x \in Address : coverage[x] \subseteq coverage'[x]
      BY <1>9, MarkPrefixSaves, SaveSound
    <2>5. UNCHANGED <<head, infoVars, cache, jobs, workerVars>>
      BY <1>9 DEF MarkPrefix
    <2>6. Grows /\ head <= head'
      BY <2>1, <2>4, <2>5, HandlerFacts DEF Grows
    <2>7. /\ r \in Request /\ r.pc = "coverage" /\ r.info = request[h].info
          /\ r.address = a /\ r.gaps = request[h].gaps /\ r.to = request[h].to
      BY <2>1, <2>2, HandlerFacts DEF Request, Step
    <2>8. Continue(h, r)
      BY <1>9 DEF MarkPrefix
    <2>. HIDE DEF r
    <2>9. SoundRequest(r, head', coverage')
      BY <2>1, <2>5, <2>7, HandlerFacts DEF SoundRequest
    <2>10. RequestsSound'
      BY <2>6, <2>7, <2>8, <2>9, MoveRequest
    <2>11. InfosTrue' /\ SlotsSound' /\ JobsReached'
      BY <2>5, <2>6, KeepInfos, KeepSlots, KeepJobs
    <2>. QED  BY <2>4, <2>10, <2>11 DEF Inv
  <1>10. CASE ReadCoverage(h)
    <2>. DEFINE q == request[h]
                found == GapsBetween(coverage[q.address], q.from, q.to)
                next == IF found = {} THEN "database" ELSE "etherscan"
                r == [q EXCEPT !.gaps = found, !.pc = next]
    <2>1. request[h].pc = "coverage"
      BY <1>10 DEF ReadCoverage
    <2>2. AreRows(coverage[q.address]) /\ q.to <= head /\ q.from \in Int /\ q.to \in Int
      BY <2>1, HandlerFacts DEF Inv, TableSound
    <2>3. /\ found \subseteq BlockRange
          /\ \A g \in found : g.toBlock <= head
      BY <2>1, <2>2, HandlerFacts, GapsAreRanges DEF BlockRange
    <2>4. found = {} => \A b \in q.from .. q.to : IsCovered(coverage[q.address], b)
      <3>1. ASSUME NEW b \in q.from .. q.to, ~ IsCovered(coverage[q.address], b)
            PROVE  found # {}
        <4>1. IsCovered(found, b)
          BY <2>2, <3>1, GapsHoldTheUncovered
        <4>. QED  BY <4>1 DEF IsCovered
      <3>. QED  BY <3>1
    <2>5. Continue(h, r) /\ UNCHANGED <<head, dbVars, cache, jobs, workerVars>>
      BY <1>10 DEF ReadCoverage
    <2>6. next \in {"database", "etherscan"} /\ (next = "database" => found = {})
      OBVIOUS
    <2>. HIDE DEF found, next
    <2>7. /\ r \in Request /\ r.pc = next /\ r.info = q.info /\ r.address = q.address
          /\ r.gaps = found /\ r.to = q.to /\ r.from = q.from
      BY <2>1, <2>3, <2>6, HandlerFacts DEF Request, Step
    <2>. HIDE DEF r
    <2>8. SoundRequest(r, head, coverage)
      BY <2>1, <2>3, <2>4, <2>6, <2>7, HandlerFacts DEF SoundRequest
    <2>. QED  BY <2>5, <2>7, <2>8, HandlerStep
  <1>11. CASE ServeDatabase(h) \/ ServeFallback(h)
    <2>1. request[h].pc \in {"database", "fallback"}
      BY <1>11 DEF ServeDatabase, ServeFallback
    <2>2. RowsIn(request[h].address, request[h].from, request[h].to) \in SUBSET Tx
      BY DEF RowsIn
    <2>3. request[h].from \in Int /\ request[h].to \in Int
      BY <2>1, HandlerFacts
    <2>4. PICK reply \in Reply :
             Continue(h, [request[h] EXCEPT !.pc = "store", !.reply = reply])
      BY <1>11, <2>2, <2>3 DEF ServeDatabase, ServeFallback, ReplyFromDatabase, Reply
    <2>5. PICK r \in Request : Continue(h, r) /\ SoundRequest(r, head, coverage)
      BY <2>1, <2>4, ReplyStep
    <2>. QED  BY <1>11, <2>5, HandlerStep DEF ServeDatabase, ServeFallback
  <1>12. CASE ServeEtherscan(h) \/ ServeHalf(h)
    <2>1. request[h].pc \in {"etherscan", "half"}
      BY <1>12 DEF ServeEtherscan, ServeHalf
    <2>2. \A from, to : TxsIn(request[h].address, from, to) \in SUBSET Tx
      BY DEF TxsIn, TxsOf, InRange
    <2>3. request[h].from \in Int /\ request[h].to \in Int
      BY <2>1, HandlerFacts
    <2>4. PICK reply \in Reply :
             Continue(h, [request[h] EXCEPT !.pc = "store", !.reply = reply])
      BY <1>12, <2>2, <2>3 DEF ServeEtherscan, ServeHalf, ReplyFromEtherscan, Reply
    <2>5. PICK r \in Request : Continue(h, r) /\ SoundRequest(r, head, coverage)
      BY <2>1, <2>4, ReplyStep
    <2>. QED  BY <1>12, <2>5, HandlerStep DEF ServeEtherscan, ServeHalf
  <1>13. CASE EtherscanTimesOut(h) \/ EtherscanFails(h)
    BY <1>13, GotoStep DEF EtherscanTimesOut, EtherscanFails, Step
  <1>14. CASE StoreInCache(h)
    BY <1>14, GotoStep DEF StoreInCache, Step
  <1>15. CASE SendReply(h)
    <2>1. CASE request[h].gaps = {}
      BY <1>15, <2>1, HandlerStep DEF SendReply, SoundRequest
    <2>2. CASE request[h].gaps # {}
      BY <1>15, <2>2, GotoStep DEF SendReply, Step
    <2>. QED  BY <2>1, <2>2
  <1>16. CASE ProcessGapsInBackground(h)
    <2>1. request[h].pc = "enqueue"
      BY <1>16 DEF ProcessGapsInBackground
    <2>2. UNCHANGED <<head, dbVars, cache, workerVars>>
      BY <1>16 DEF ProcessGapsInBackground
    <2>3. JobsReached'
      BY <1>16, <2>1, <2>2, HandlerFacts, QueueReached DEF ProcessGapsInBackground
    <2>4. Grows /\ head <= head'
      BY <2>1, <2>2, HandlerFacts DEF Grows
    <2>5. RequestsSound'
      BY <1>16, <2>4, MoveRequest DEF ProcessGapsInBackground, SoundRequest
    <2>. QED  BY <2>2, <2>3, <2>4, <2>5, KeepInfos, KeepSlots, KeepTable DEF Inv
  <1>. QED  BY <1>1, <1>2, <1>3, <1>4, <1>5, <1>6, <1>7, <1>8, <1>9, <1>10, <1>11,
               <1>12, <1>13, <1>14, <1>15, <1>16 DEF Proceed

(***************************************************************************)
(* A step of a slot that holds nothing to save keeps the invariant.        *)
(***************************************************************************)
LEMMA PhaseStep ==
    ASSUME Inv, Typed', NEW s \in Slot, slot[s].phase # "idle",
           NEW phase \in {"splitting", "finishing", "failing"}, Phase(s, phase),
           UNCHANGED head
    PROVE  SlotsSound'
  <1>. DEFINE b == [slot[s] EXCEPT !.phase = phase]
  <1>1. b.phase = phase /\ b.job = slot[s].job
    BY SlotFacts DEF Busy
  <1>2. SoundSlot(b, head)
    BY <1>1, SlotFacts DEF SoundSlot
  <1>. QED  BY <1>2, MoveSlot DEF Phase

LEMMA IdleStep ==
    ASSUME Inv, Typed', NEW s \in Slot, Process(s, IdleSlot), UNCHANGED head
    PROVE  SlotsSound'
  BY MoveSlot DEF SoundSlot, IdleSlot

LEMMA ProcessJobInv ==
    ASSUME Inv, Typed', NEW s \in Slot, ProcessJob(s)
    PROVE  Inv'
  <1>. USE DEF dbVars, infoVars, InPhase
  <1>1. CASE FetchGap(s)
    <2>. DEFINE j == slot[s].job
    <2>1. slot[s].phase = "claimed"
      BY <1>1 DEF FetchGap
    <2>2. PICK got \in SUBSET TxsOf(j.address), end \in (j.fromBlock - 1) .. j.toBlock :
             /\ FetchAllowed(TxsOf(j.address), BlockOf, j, BatchSize, got, end)
             /\ Process(s, [slot[s] EXCEPT !.phase = "fetched", !.got = got, !.end = end])
      BY <1>1 DEF FetchGap
    <2>. DEFINE b == [slot[s] EXCEPT !.phase = "fetched", !.got = got, !.end = end]
    <2>3. b.phase = "fetched" /\ b.job = j /\ b.got = got /\ b.end = end
      BY <2>1, SlotFacts DEF Busy
    <2>4. /\ end \in Int /\ j.fromBlock - 1 <= end /\ end <= j.toBlock
          /\ \A t \in got : j.address \in PartiesOf[t]
      BY <2>1, SlotFacts DEF TxsOf
    <2>5. ASSUME NEW t \in Tx, j.address \in PartiesOf[t],
                 BlockOf[t] \in j.fromBlock .. end
          PROVE  t \in got
      <3>1. BlockOf[t] <= head
        BY <2>1, <2>4, <2>5, SlotFacts
      <3>2. t \in InRange(TxsOf(j.address), BlockOf, j.fromBlock, end)
        BY <2>5, <3>1 DEF InRange, TxsOf
      <3>. QED  BY <2>2, <3>2 DEF FetchAllowed
    <2>. HIDE DEF b
    <2>6. SoundSlot(b, head)
      BY <2>1, <2>3, <2>4, <2>5, SlotFacts DEF SoundSlot
    <2>7. UNCHANGED <<head, dbVars, cache, request, jobs, mishaps>>
      BY <1>1 DEF FetchGap
    <2>8. SlotsSound'
      BY <2>2, <2>6, <2>7, MoveSlot DEF b
    <2>9. Grows /\ head <= head'
      BY <2>1, <2>7, SlotFacts DEF Grows
    <2>. QED  BY <2>7, <2>8, <2>9, KeepInfos, KeepRequests, KeepJobs, KeepTable DEF Inv
  <1>2. CASE SaveGap(s)
    <2>1. slot[s].phase = "fetched"
      BY <1>2 DEF SaveGap
    <2>5. TableSound' /\ \A x \in Address : coverage[x] \subseteq coverage'[x]
      BY <1>2, SaveGapSaves, SaveSound
    <2>6. UNCHANGED <<head, infoVars, cache, request, jobs, mishaps>>
      BY <1>2 DEF SaveGap
    <2>7. Grows /\ head <= head'
      BY <2>1, <2>5, <2>6, SlotFacts DEF Grows
    <2>8. SlotsSound'
      BY <1>2, <2>1, <2>6, PhaseStep DEF SaveGap
    <2>. QED  BY <2>5, <2>6, <2>7, <2>8, KeepInfos, KeepRequests, KeepJobs DEF Inv
  <1>3. CASE FetchTimesOut(s) \/ JobThrows(s)
    <2>1. SlotsSound'
      BY <1>3, PhaseStep DEF FetchTimesOut, JobThrows
    <2>2. UNCHANGED <<head, dbVars, cache, request, jobs, mishaps>>
      BY <1>3 DEF FetchTimesOut, JobThrows
    <2>3. Grows /\ head <= head'
      BY <2>2, HeadIsNat DEF Grows, Inv, Typed
    <2>. QED  BY <2>1, <2>2, <2>3, KeepInfos, KeepRequests, KeepJobs, KeepTable DEF Inv
  <1>4. CASE RequeueChunks(s)
    <2>. DEFINE chunks == Pieces(slot[s].job, ChunkSize)
    <2>1. slot[s].phase = "splitting"
      BY <1>4 DEF RequeueChunks
    <2>2. UNCHANGED <<head, dbVars, cache, request, mishaps>>
      BY <1>4 DEF RequeueChunks
    <2>3. \A p \in chunks : p \in BlockRange /\ p.toBlock <= head
      <3>1. \A p \in chunks : p \in BlockRange /\ p.toBlock <= slot[s].job.toBlock
        BY <2>1, SlotFacts, QueueAssumption, PiecesAreRanges
      <3>2. \A p \in chunks : p.toBlock \in Int
        BY <3>1 DEF BlockRange
      <3>. QED  BY <2>1, <3>1, <3>2, SlotFacts
    <2>4. chunks \in SUBSET BlockRange /\ \A g \in chunks : g.toBlock <= head
      BY <2>3
    <2>5. QueueGapsForProcessing(slot[s].job.address, chunks)
      BY <1>4 DEF RequeueChunks
    <2>. HIDE DEF chunks
    <2>6. JobsReached'
      BY <2>2, <2>4, <2>5, QueueReached
    <2>7. SlotsSound'
      BY <1>4, <2>1, <2>2, PhaseStep DEF RequeueChunks
    <2>8. Grows /\ head <= head'
      BY <2>1, <2>2, SlotFacts DEF Grows
    <2>. QED  BY <2>2, <2>6, <2>7, <2>8, KeepInfos, KeepRequests, KeepTable DEF Inv
  <1>5. CASE CompleteJob(s) \/ FailJob(s)
    <2>1. UNCHANGED <<head, dbVars, cache, request, mishaps>> /\ Process(s, IdleSlot)
      BY <1>5 DEF CompleteJob, FailJob
    <2>2. Grows /\ head <= head'
      BY <2>1, HeadIsNat DEF Grows, Inv, Typed
    <2>3. JobsReached'
      <3>1. CASE UNCHANGED jobs
        BY <2>2, <3>1, KeepJobs
      <3>2. CASE ~ UNCHANGED jobs
        <4>1. PICK j \in jobs : \E k : k.id = j.id /\ Update(j, k)
          <5>1. \A j \in jobs : \A state, lock :
                   [j EXCEPT !.state = state, !.lock = lock].id = j.id
            BY DEF Inv, Typed, TypeOK, Job
          <5>2. \A j \in jobs : \A state, n, lock :
                   [j EXCEPT !.state = state, !.attempts = n, !.lock = lock].id = j.id
            BY DEF Inv, Typed, TypeOK, Job
          <5>3. CASE CompleteJob(s)
            <6>1. PICK j \in jobs :
                     Update(j, [j EXCEPT !.state = "completed", !.lock = NoSlot])
              BY <3>2, <5>3 DEF CompleteJob
            <6>. QED  BY <6>1, <5>1
          <5>4. CASE FailJob(s)
            <6>1. PICK j \in jobs : Update(j, [j EXCEPT
                     !.state = IF j.attempts + 1 < MaxAttempts THEN "waiting" ELSE "failed",
                     !.attempts = j.attempts + 1, !.lock = NoSlot])
              BY <3>2, <5>4 DEF FailJob
            <6>. DEFINE state == IF j.attempts + 1 < MaxAttempts THEN "waiting" ELSE "failed"
                        n == j.attempts + 1
                        k == [j EXCEPT !.state = state, !.attempts = n, !.lock = NoSlot]
            <6>2. Update(j, k)
              BY <6>1
            <6>. HIDE DEF state, n
            <6>3. k.id = j.id
              BY <5>2
            <6>. HIDE DEF k
            <6>. QED  BY <6>2, <6>3
          <5>. QED  BY <1>5, <5>3, <5>4
        <4>. QED  BY <2>1, <4>1, MoveJob
      <3>. QED  BY <3>1, <3>2
    <2>4. SlotsSound'
      BY <2>1, IdleStep
    <2>. QED  BY <2>1, <2>2, <2>3, <2>4, KeepInfos, KeepRequests, KeepTable DEF Inv
  <1>. QED  BY <1>1, <1>2, <1>3, <1>4, <1>5 DEF ProcessJob

LEMMA InvStep == Inv /\ [Next]_vars => Inv'
  <1>. SUFFICES ASSUME Inv, [Next]_vars PROVE Inv'
    OBVIOUS
  <1>. USE DEF dbVars, infoVars, workerVars
  <1>0. Typed' /\ Typed /\ TypeOK /\ head \in Nat
    BY TypedStep, HeadIsNat DEF Inv, Typed
  <1>1. CASE NewBlock
    <2>1. Grows /\ head <= head' /\ UNCHANGED <<dbVars, cache, request, jobs, workerVars>>
      BY <1>0, <1>1 DEF NewBlock, Grows
    <2>. QED  BY <1>0, <2>1, KeepInfos, KeepRequests, KeepSlots, KeepJobs, KeepTable DEF Inv
  <1>2. ASSUME NEW h \in Handler, NEW a \in Address, NEW q \in Query, Begin(h, a, q)
        PROVE  Inv'
    <2>. DEFINE r == [pc |-> "resolve", address |-> a, query |-> q, info |-> EOA,
                      from |-> 0, to |-> 0, gaps |-> {}, reply |-> NoReply]
    <2>1. r \in Request
      BY DEF Request, Step, EOA, Info
    <2>2. SoundRequest(r, head, coverage)
      BY DEF SoundRequest, TrueInfo, EOA
    <2>3. Continue(h, r) /\ UNCHANGED <<head, dbVars, cache, jobs, workerVars>>
      BY <1>2 DEF Begin
    <2>. HIDE DEF r
    <2>. QED  BY <1>0, <2>1, <2>2, <2>3, HandlerStep
  <1>3. ASSUME NEW h \in Handler, Proceed(h)
        PROVE  Inv'
    BY <1>0, <1>3, ProceedInv
  <1>4. ASSUME NEW h \in Handler, AbortRequest(h)
        PROVE  Inv'
    BY <1>0, <1>4, HandlerStep DEF AbortRequest, RequestThrows, HandOverFails, SoundRequest
  <1>5. CASE ExpireEntry
    <2>1. Grows /\ head <= head' /\ UNCHANGED <<head, dbVars, request, jobs, workerVars>>
      BY <1>0, <1>5 DEF ExpireEntry, Grows
    <2>. QED  BY <1>0, <2>1, KeepInfos, KeepRequests, KeepSlots, KeepJobs, KeepTable DEF Inv
  <1>6. CASE ExpireInfo
    <2>1. /\ Grows /\ head <= head'
          /\ UNCHANGED <<head, addressInfo, coverage, transactions, request, jobs, slot>>
      BY <1>0, <1>6 DEF ExpireInfo, Grows
    <2>2. ASSUME NEW x \in Address
          PROVE  infoCache'[x] = infoCache[x] \/ infoCache'[x] = Unknown
      BY <1>0, <1>6 DEF ExpireInfo, TypeOK
    <2>3. InfosTrue'
      BY <2>1, <2>2 DEF Inv, InfosTrue, TrueInfo, Unknown
    <2>. QED  BY <1>0, <2>1, <2>3, KeepRequests, KeepSlots, KeepJobs, KeepTable DEF Inv
  <1>7. ASSUME NEW s \in Slot, NEW j \in jobs, ClaimJob(s, j)
        PROVE  Inv'
    <2>. DEFINE k == [j EXCEPT !.state = "active", !.lock = s]
                b == [phase |-> "claimed", job |-> j.id, got |-> {}, end |-> 0]
    <2>1. /\ Grows /\ head <= head' /\ UNCHANGED <<head, dbVars, cache, request>>
          /\ Update(j, k) /\ Process(s, b)
      BY <1>0, <1>7 DEF ClaimJob, Grows
    <2>2. k.id = j.id
      BY <1>0 DEF TypeOK, Job
    <2>3. JobsReached'
      BY <2>1, <2>2, MoveJob
    <2>4. SoundSlot(b, head)
      BY DEF SoundSlot, Inv, JobsReached
    <2>. HIDE DEF b
    <2>5. SlotsSound'
      BY <1>0, <2>1, <2>4, MoveSlot
    <2>. QED  BY <1>0, <2>1, <2>3, <2>5, KeepInfos, KeepRequests, KeepTable DEF Inv
  <1>8. ASSUME NEW s \in Slot, ProcessJob(s)
        PROVE  Inv'
    BY <1>0, <1>8, ProcessJobInv
  <1>9. CASE WorkerCrash
    <2>1. Grows /\ head <= head' /\ UNCHANGED <<head, dbVars, cache, request, jobs>>
      BY <1>0, <1>9 DEF WorkerCrash, Grows
    <2>2. SlotsSound'
      BY <1>9 DEF WorkerCrash, SlotsSound, SoundSlot, IdleSlot
    <2>. QED  BY <1>0, <2>1, <2>2, KeepInfos, KeepRequests, KeepJobs, KeepTable DEF Inv
  <1>10. ASSUME NEW j \in jobs, RecoverJob(j) \/ LoseLock(j)
         PROVE  Inv'
    <2>1. /\ Grows /\ head <= head' /\ UNCHANGED <<head, dbVars, cache, request, slot>>
          /\ Unlock(j)
      BY <1>0, <1>10 DEF RecoverJob, LoseLock, Grows
    <2>. QED  BY <1>0, <2>1, UnlockKeeps, KeepInfos, KeepRequests, KeepSlots, KeepTable
              DEF Inv
  <1>11. CASE EvictJob
    <2>1. /\ Grows /\ head <= head' /\ UNCHANGED <<head, dbVars, cache, request, slot>>
          /\ jobs' \subseteq jobs
      BY <1>0, <1>11 DEF EvictJob, Grows
    <2>. QED  BY <1>0, <2>1, KeepInfos, KeepRequests, KeepSlots, KeepJobs, KeepTable DEF Inv
  <1>12. CASE UNCHANGED vars
    <2>1. /\ Grows /\ head <= head' /\ UNCHANGED <<head, dbVars, cache, request, slot, jobs>>
      BY <1>0, <1>12 DEF vars, Grows
    <2>. QED  BY <1>0, <2>1, KeepInfos, KeepRequests, KeepSlots, KeepJobs, KeepTable DEF Inv
  <1>. QED  BY <1>1, <1>2, <1>3, <1>4, <1>5, <1>6, <1>7, <1>8, <1>9, <1>10, <1>11,
               <1>12 DEF Next

LEMMA Invariance == Spec => []Inv
  BY InvInit, InvStep, PTL DEF Spec

(***************************************************************************)
(* Whatever fails and whoever shares transactions, a transaction of a      *)
(* block that counts as covered is in the table, except of an address a    *)
(* failing getCode was misread for.  (saveTransactionBatch keys rows by    *)
(* hash alone: it may be the row of the other party.)                      *)
(***************************************************************************)
THEOREM CoveredIsStored == Spec => []CoveredStored
  <1>1. Inv => CoveredStored
    BY DEF Inv, TableSound
  <1>. QED  BY <1>1, Invariance, PTL

---------------------------------------------------------------------------
(* Replies *)

\* No transaction belongs to the history of two addresses.
Exclusive == \A t \in Tx : \A a, b \in PartiesOf[t] : a = b

AllSighted == \A a \in Address : Sighted(a)

\* Etherscan answers for every range there is.
NeverTimesOut == ~ Outages /\ MaxBlock + 1 < TimeoutBlocks

(***************************************************************************)
(* As long as no two addresses share a transaction, a covered block is one *)
(* whose transactions are in the table under the address.  The run         *)
(* shared_tx shows that the assumption is needed.                          *)
(***************************************************************************)
LEMMA CoveredAreOwn ==
    ASSUME Exclusive, AllSighted, Inv
    PROVE  CoverageSound
  <1>1. ASSUME NEW t \in Tx, NEW a \in PartiesOf[t], IsCovered(coverage[a], BlockOf[t])
        PROVE  t \in StoredFor(a)
    <2>1. a \in Address /\ Sighted(a)
      BY ChainAssumption DEF AllSighted
    <2>2. PICK r \in transactions : r.hash = t
      BY <1>1, <2>1 DEF Inv, TableSound, CoveredStored
    <2>3. r \in Row /\ r.address \in PartiesOf[t]
      BY <2>2 DEF Inv, Typed, TypeOK, TableSound, RowsTrue
    <2>4. r = [hash |-> t, address |-> a]
      BY <2>2, <2>3 DEF Exclusive, Row
    <2>. QED  BY <2>2, <2>4 DEF StoredFor
  <1>. QED  BY <1>1 DEF CoverageSound

THEOREM CoverageIsSound ==
    ASSUME Exclusive, AllSighted
    PROVE  Spec => []CoverageSound
  <1>1. Inv => CoverageSound
    BY CoveredAreOwn
  <1>. QED  BY <1>1, Invariance, PTL

\* A reply holds what there will ever be in the range it names.
ReplyHolds(a, reply, latest) ==
    /\ reply.to <= latest
    /\ reply.txs = {t \in Tx : /\ a \in PartiesOf[t]
                               /\ BlockOf[t] \in reply.from .. reply.to}

\* The replies it is promised of.
Promised(reply) ==
    /\ ~ reply.incomplete
    /\ reply.source = "database" \/ (reply.source = "etherscan" /\ NeverTimesOut)

RepliesHold ==
    /\ \A h \in Handler :
          request[h] # Idle /\ Promised(request[h].reply)
             => ReplyHolds(request[h].address, request[h].reply, head)
    /\ \A e \in cache : Promised(e.reply) => ReplyHolds(e.key.address, e.reply, head)
    /\ NeverTimesOut => \A h \in Handler : request[h].pc \notin {"half", "fallback"}

LEMMA ReplyStays ==
    ASSUME NEW reply \in Reply \cup {NoReply}, NEW a, NEW n \in Nat, NEW m \in Nat, n <= m,
           Promised(reply) => ReplyHolds(a, reply, n)
    PROVE  Promised(reply) => ReplyHolds(a, reply, m)
  BY DEF ReplyHolds, Promised, Reply, NoReply

(***************************************************************************)
(* A step of a handler keeps the replies true if the reply it has then is, *)
(* whatever the cache forgets.                                             *)
(***************************************************************************)
LEMMA MoveReply ==
    ASSUME Inv, Inv', RepliesHold, NEW h \in Handler, NEW r \in Request \cup {Idle},
           Continue(h, r), UNCHANGED head,
           r # Idle /\ Promised(r.reply) => ReplyHolds(r.address, r.reply, head),
           NeverTimesOut => r.pc \notin {"half", "fallback"},
           \A e \in cache' :
              \/ e \in cache
              \/ /\ request[h] # Idle
                 /\ e.reply = request[h].reply /\ e.key.address = request[h].address
    PROVE  RepliesHold'
  <1>1. \A x \in Handler : request'[x] = IF x = h THEN r ELSE request[x]
    BY DEF Continue, Inv, Typed, TypeOK
  <1>. QED  BY <1>1 DEF RepliesHold, ReplyHolds, Promised, NeverTimesOut

LEMMA SameReply ==
    ASSUME Inv, Inv', RepliesHold, NEW h \in Handler, request[h].pc # "idle",
           NEW r \in Request, Continue(h, r), UNCHANGED head, cache' \subseteq cache,
           r.reply = request[h].reply, r.address = request[h].address,
           NeverTimesOut => r.pc \notin {"half", "fallback"}
    PROVE  RepliesHold'
  <1>1. request[h] # Idle
    BY DEF Idle
  <1>2. Promised(r.reply) => ReplyHolds(r.address, r.reply, head)
    BY <1>1 DEF RepliesHold
  <1>. QED  BY <1>2, MoveReply

LEMMA SameReplyGoto ==
    ASSUME Inv, Inv', RepliesHold, NEW h \in Handler, request[h].pc # "idle",
           NEW step \in Step, Goto(h, step), UNCHANGED head, cache' \subseteq cache,
           NeverTimesOut => step \notin {"half", "fallback"}
    PROVE  RepliesHold'
  <1>. DEFINE r == [request[h] EXCEPT !.pc = step]
  <1>1. /\ r \in Request /\ r.pc = step
        /\ r.reply = request[h].reply /\ r.address = request[h].address
    BY HandlerFacts DEF Request
  <1>2. Continue(h, r)
    BY DEF Goto
  <1>. HIDE DEF r
  <1>. QED  BY <1>1, <1>2, SameReply

LEMMA NewReply ==
    ASSUME Inv, Inv', RepliesHold, NEW h \in Handler, request[h].pc # "idle",
           NEW reply \in Reply, NEW pc \in {"store", "reply"},
           Continue(h, [request[h] EXCEPT !.pc = pc, !.reply = reply]),
           UNCHANGED <<head, cache>>,
           Promised(reply) => ReplyHolds(request[h].address, reply, head)
    PROVE  RepliesHold'
  <1>. DEFINE r == [request[h] EXCEPT !.pc = pc, !.reply = reply]
  <1>1. /\ r \in Request /\ r.pc = pc
        /\ r.reply = reply /\ r.address = request[h].address
    BY HandlerFacts DEF Request, Step
  <1>2. Continue(h, r)
    OBVIOUS
  <1>. HIDE DEF r
  <1>. QED  BY <1>1, <1>2, MoveReply

LEMMA KeepReplies ==
    ASSUME Inv, Inv', RepliesHold, head <= head', UNCHANGED request,
           cache' \subseteq cache
    PROVE  RepliesHold'
  <1>1. head \in Nat /\ head' \in Nat
    BY HeadIsNat, ChainAssumption DEF Inv, Typed, TypeOK
  <1>2. ASSUME NEW h \in Handler, request[h] # Idle
        PROVE  Promised(request[h].reply)
                  => ReplyHolds(request[h].address, request[h].reply, head')
    <2>1. request[h].reply \in Reply \cup {NoReply}
      BY <1>2 DEF Inv, Typed, TypeOK, Request
    <2>. QED  BY <1>1, <1>2, <2>1, ReplyStays DEF RepliesHold
  <1>3. ASSUME NEW e \in cache
        PROVE  Promised(e.reply) => ReplyHolds(e.key.address, e.reply, head')
    <2>1. e.reply \in Reply \cup {NoReply}
      BY DEF Inv, Typed, TypeOK, Entry
    <2>. QED  BY <1>1, <2>1, ReplyStays DEF RepliesHold
  <1>. QED  BY <1>2, <1>3 DEF RepliesHold, Promised, NeverTimesOut

(***************************************************************************)
(* Each step of a handler keeps the replies true, ...                      *)
(***************************************************************************)
LEMMA ProceedReplies ==
    ASSUME Exclusive, AllSighted, Inv, Inv', RepliesHold,
           NEW h \in Handler, Proceed(h)
    PROVE  RepliesHold'
  <1>. USE DEF dbVars, infoVars, workerVars, At
  <1>. DEFINE q == request[h]
              a == request[h].address
  <1>1. CASE ResolveCached(h) \/ ResolveStored(h) \/ Discover(h)
    <2>1. q.pc # "idle" /\ UNCHANGED <<head, cache>>
      BY <1>1 DEF ResolveCached, ResolveStored, Discover
    <2>2. PICK info \in Info : Resolved(h, info)
      <3>1. CASE ResolveCached(h)
        BY <3>1, <2>1, HandlerFacts DEF ResolveCached, Inv, Typed, TypeOK
      <3>2. CASE ResolveStored(h)
        BY <3>2, <2>1, HandlerFacts DEF ResolveStored, Inv, Typed, TypeOK
      <3>3. CASE Discover(h)
        <4>1. PICK info \in Discoverable(CreatedAt[a], head, RpcFaults) : Resolved(h, info)
          BY <3>3 DEF Discover
        <4>2. info \in Info
          BY <2>1, HandlerFacts, DiscoverableTyped DEF Inv
        <4>. QED  BY <4>1, <4>2
      <3>. QED  BY <1>1, <3>1, <3>2, <3>3
    <2>. DEFINE r == [request[h] EXCEPT !.pc = "head", !.info = info]
    <2>3. r \in Request /\ r.pc = "head" /\ r.reply = q.reply /\ r.address = a
      BY <2>1, HandlerFacts DEF Request, Step
    <2>4. Continue(h, r)
      BY <2>2 DEF Resolved
    <2>. HIDE DEF r
    <2>. QED  BY <2>1, <2>3, <2>4, SameReply
  <1>2. CASE ResolveUnknown(h)
    BY <1>2, SameReplyGoto DEF ResolveUnknown, Step
  <1>3. CASE ReadHead(h)
    <2>. DEFINE start == StartingBlock(q.info)
                from == IF q.query.from = 0 THEN start ELSE Greater(q.query.from, start)
                r == [request[h] EXCEPT !.pc = "cache", !.from = from,
                                        !.to = ClampTo(q.query)]
    <2>1. q.pc # "idle" /\ Continue(h, r) /\ UNCHANGED <<head, cache>>
      BY <1>3 DEF ReadHead
    <2>2. from \in Nat /\ ClampTo(q.query) \in Nat
      BY <2>1, QueryTyped DEF Greater, Inv
    <2>. HIDE DEF from
    <2>3. r \in Request /\ r.pc = "cache" /\ r.reply = q.reply /\ r.address = a
      BY <2>1, <2>2, HandlerFacts DEF Request, Step
    <2>. HIDE DEF r
    <2>. QED  BY <2>1, <2>3, SameReply
  <1>4. CASE CacheHit(h)
    <2>1. PICK e \in cache :
             /\ e.key = KeyOf(h)
             /\ Continue(h, [request[h] EXCEPT !.pc = "reply", !.reply = e.reply])
      BY <1>4 DEF CacheHit
    <2>2. e.reply \in Reply
      BY DEF Inv, Typed, TypeOK, Entry
    <2>3. Promised(e.reply) => ReplyHolds(a, e.reply, head)
      BY <2>1 DEF RepliesHold, KeyOf
    <2>. QED  BY <1>4, <2>1, <2>2, <2>3, NewReply DEF CacheHit
  <1>5. CASE CacheMiss(h)
    <2>1. AfterMiss(q) \in Step \ {"half", "fallback"}
      BY DEF AfterMiss, Step
    <2>. QED  BY <1>5, <2>1, SameReplyGoto DEF CacheMiss
  <1>6. CASE MarkAll(h)
    <2>. DEFINE reply == [source |-> "database", from |-> q.query.from,
                          to |-> q.to, txs |-> {}, incomplete |-> FALSE]
    <2>1. q.pc = "markAll" /\ UNCHANGED <<head, cache>>
      BY <1>6 DEF MarkAll
    <2>2. /\ q.query.from \in Nat /\ q.to \in Nat /\ a \in Address
          /\ q.info \in Info /\ q.to < q.info.creationBlock /\ q.to <= head
          /\ q.info.isContract /\ TrueInfo(a, q.info, head)
      BY <2>1, HandlerFacts DEF SoundRequest
    <2>3. q.info.creationBlock = CreatedAt[a] /\ CreatedAt[a] \in Int
      BY <2>2 DEF TrueInfo, AllSighted, Info
    <2>4. \A t \in Tx : a \in PartiesOf[t] => ~ (BlockOf[t] \in q.query.from .. q.to)
      BY <2>2, <2>3, CreationAssumption, ChainAssumption
    <2>5. /\ reply \in Reply /\ reply.txs = {} /\ reply.from = q.query.from
          /\ reply.to = q.to
      BY <2>2 DEF Reply
    <2>6. Continue(h, [request[h] EXCEPT !.pc = "store", !.reply = reply])
      BY <1>6 DEF MarkAll
    <2>. HIDE DEF reply
    <2>7. ReplyHolds(a, reply, head)
      BY <2>2, <2>4, <2>5 DEF ReplyHolds
    <2>. QED  BY <2>1, <2>5, <2>6, <2>7, NewReply
  <1>7. CASE MarkPrefix(h)
    <2>. DEFINE r == [request[h] EXCEPT !.pc = "coverage",
                                        !.from = q.info.creationBlock]
    <2>1. q.pc # "idle" /\ Continue(h, r) /\ UNCHANGED <<head, cache>>
      BY <1>7 DEF MarkPrefix
    <2>2. q.info.creationBlock \in Nat
      BY <2>1, HandlerFacts, <1>7 DEF MarkPrefix, Info
    <2>3. r \in Request /\ r.pc = "coverage" /\ r.reply = q.reply /\ r.address = a
      BY <2>1, <2>2, HandlerFacts DEF Request, Step
    <2>. HIDE DEF r
    <2>. QED  BY <2>1, <2>3, SameReply
  <1>8. CASE ReadCoverage(h)
    <2>. DEFINE found == GapsBetween(coverage[a], q.from, q.to)
                next == IF found = {} THEN "database" ELSE "etherscan"
                r == [request[h] EXCEPT !.gaps = found, !.pc = next]
    <2>1. q.pc # "idle" /\ Continue(h, r) /\ UNCHANGED <<head, cache>>
      BY <1>8 DEF ReadCoverage
    <2>2. q.from \in Int /\ q.to \in Int
      BY <2>1, HandlerFacts
    <2>3. found \subseteq BlockRange /\ next \in Step \ {"half", "fallback"}
      BY <2>2, GapsAreRanges DEF Step
    <2>. HIDE DEF found, next
    <2>4. r \in Request /\ r.pc = next /\ r.reply = q.reply /\ r.address = a
      BY <2>1, <2>3, HandlerFacts DEF Request
    <2>. HIDE DEF r
    <2>. QED  BY <2>1, <2>3, <2>4, SameReply
  <1>9. CASE ServeDatabase(h)
    <2>. DEFINE rows == RowsIn(a, q.from, q.to)
                reply == [source |-> "database", from |-> q.from, to |-> q.to,
                          txs |-> rows, incomplete |-> FALSE]
    <2>1. q.pc = "database" /\ UNCHANGED <<head, cache>>
      BY <1>9 DEF ServeDatabase
    <2>2. /\ q.from \in Nat /\ q.to \in Nat /\ a \in Address /\ q.to <= head
          /\ \A b \in q.from .. q.to : IsCovered(coverage[a], b)
      BY <2>1, HandlerFacts DEF SoundRequest
    <2>3. rows = {t \in Tx : a \in PartiesOf[t] /\ BlockOf[t] \in q.from .. q.to}
      <3>1. CoverageSound /\ RowsTrue
        BY CoveredAreOwn DEF Inv, TableSound
      <3>2. \A t \in Tx : [hash |-> t, address |-> a] \in transactions => a \in PartiesOf[t]
        BY <3>1 DEF RowsTrue
      <3>3. \A t \in Tx : a \in PartiesOf[t] /\ BlockOf[t] \in q.from .. q.to
                             => [hash |-> t, address |-> a] \in transactions
        BY <2>2, <3>1 DEF CoverageSound, StoredFor
      <3>. QED  BY <3>2, <3>3 DEF RowsIn
    <2>4. /\ reply \in Reply /\ reply.txs = rows /\ reply.from = q.from
          /\ reply.to = q.to
      <3>1. rows \in SUBSET Tx
        BY DEF RowsIn
      <3>. HIDE DEF rows
      <3>. QED  BY <2>2, <3>1 DEF Reply
    <2>5. Continue(h, [request[h] EXCEPT !.pc = "store", !.reply = reply])
      BY <1>9 DEF ServeDatabase, ReplyFromDatabase
    <2>. HIDE DEF reply
    <2>6. ReplyHolds(a, reply, head)
      BY <2>2, <2>3, <2>4 DEF ReplyHolds
    <2>. QED  BY <2>1, <2>4, <2>5, <2>6, NewReply
  <1>10. CASE ServeFallback(h)
    <2>. DEFINE rows == RowsIn(a, q.from, q.to)
                reply == [source |-> "database", from |-> q.from, to |-> q.to,
                          txs |-> rows, incomplete |-> TRUE]
    <2>1. q.pc = "fallback" /\ UNCHANGED <<head, cache>>
      BY <1>10 DEF ServeFallback
    <2>2. rows \in SUBSET Tx /\ q.from \in Int /\ q.to \in Int
      BY <2>1, HandlerFacts DEF RowsIn
    <2>3. Continue(h, [request[h] EXCEPT !.pc = "store", !.reply = reply])
      BY <1>10 DEF ServeFallback, ReplyFromDatabase
    <2>. HIDE DEF rows
    <2>4. reply \in Reply /\ ~ Promised(reply)
      BY <2>2 DEF Reply, Promised
    <2>. HIDE DEF reply
    <2>. QED  BY <2>1, <2>3, <2>4, NewReply
  <1>11. CASE ServeEtherscan(h) \/ ServeHalf(h)
    <2>1. q.pc \in {"etherscan", "half"} /\ UNCHANGED <<head, cache>>
      BY <1>11 DEF ServeEtherscan, ServeHalf
    <2>2. /\ q.from \in Nat /\ q.to \in Nat /\ a \in Address /\ q.to <= head
          /\ head \in Nat
      BY <2>1, HandlerFacts
    <2>3. PICK range :
             /\ q.pc = "etherscan" => range = Asked(h)
             /\ ReplyFromEtherscan(h, range)
      BY <1>11, <2>1 DEF ServeEtherscan, ServeHalf
    <2>. DEFINE got == TxsIn(a, range.fromBlock, range.toBlock)
                reply == [source |-> "etherscan", from |-> q.from, to |-> q.to,
                          txs |-> got, incomplete |-> FALSE]
    <2>4. Continue(h, [request[h] EXCEPT !.pc = "store", !.reply = reply])
      BY <2>3 DEF ReplyFromEtherscan
    <2>5. got \in SUBSET Tx
      BY DEF TxsIn, TxsOf, InRange
    <2>6. q.pc = "etherscan" =>
             got = {t \in Tx : a \in PartiesOf[t] /\ BlockOf[t] \in q.from .. q.to}
      BY <2>2, <2>3, ChainAssumption DEF Asked, Range2, TxsIn, TxsOf, InRange
    <2>. HIDE DEF got
    <2>7. /\ reply \in Reply /\ reply.txs = got /\ reply.from = q.from
          /\ reply.to = q.to /\ reply.source = "etherscan"
      BY <2>2, <2>5 DEF Reply
    <2>. HIDE DEF reply
    <2>8. Promised(reply) => ReplyHolds(a, reply, head)
      BY <2>1, <2>2, <2>6, <2>7 DEF Promised, ReplyHolds, RepliesHold
    <2>. QED  BY <2>1, <2>4, <2>7, <2>8, NewReply
  <1>12. CASE EtherscanTimesOut(h) \/ EtherscanFails(h)
    <2>1. q.pc \in {"etherscan", "half"}
      BY <1>12 DEF EtherscanTimesOut, EtherscanFails
    <2>2. ~ NeverTimesOut
      <3>1. /\ q.from \in Nat /\ q.to \in Nat /\ q.to <= head /\ head \in Nat
            /\ head <= MaxBlock
        BY <2>1, HandlerFacts, HeadIsNat DEF Inv, Typed
      <3>2. CASE EtherscanTimesOut(h)
        BY <3>1, <3>2, ChainAssumption, QueueAssumption
           DEF EtherscanTimesOut, MayTimeOut, Asked, Range2, Size, NeverTimesOut
      <3>3. CASE EtherscanFails(h)
        BY <3>3 DEF EtherscanFails, NeverTimesOut, RepliesHold
      <3>. QED  BY <1>12, <3>2, <3>3
    <2>. QED  BY <1>12, <2>1, <2>2, SameReplyGoto DEF EtherscanTimesOut, EtherscanFails, Step
  <1>13. CASE StoreInCache(h)
    <2>. DEFINE r == [request[h] EXCEPT !.pc = "reply"]
    <2>1. q.pc = "store" /\ Continue(h, r) /\ UNCHANGED head
      BY <1>13 DEF StoreInCache, Goto
    <2>2. q # Idle
      BY <2>1 DEF Idle
    <2>3. r \in Request /\ r.pc = "reply" /\ r.reply = q.reply /\ r.address = a
      BY <2>1, HandlerFacts DEF Request, Step
    <2>4. Promised(r.reply) => ReplyHolds(r.address, r.reply, head)
      BY <2>2, <2>3 DEF RepliesHold
    <2>5. \A e \in cache' : e \in cache \/ (e.reply = q.reply /\ e.key.address = a)
      BY <1>13 DEF StoreInCache, KeyOf
    <2>. HIDE DEF r
    <2>. QED  BY <2>1, <2>2, <2>3, <2>4, <2>5, MoveReply
  <1>14. CASE SendReply(h)
    <2>1. CASE q.gaps = {}
      BY <1>14, <2>1, MoveReply DEF SendReply, Idle
    <2>2. CASE q.gaps # {}
      BY <1>14, <2>2, SameReplyGoto DEF SendReply, Step
    <2>. QED  BY <2>1, <2>2
  <1>15. CASE ProcessGapsInBackground(h)
    BY <1>15, MoveReply DEF ProcessGapsInBackground, Idle
  <1>. QED  BY <1>1, <1>2, <1>3, <1>4, <1>5, <1>6, <1>7, <1>8, <1>9, <1>10, <1>11,
               <1>12, <1>13, <1>14, <1>15 DEF Proceed

(***************************************************************************)
(* ... and so does every other step.                                       *)
(***************************************************************************)
LEMMA RepliesStep ==
    ASSUME Exclusive, AllSighted, Inv, Inv', RepliesHold, [Next]_vars
    PROVE  RepliesHold'
  <1>. USE DEF dbVars, infoVars, workerVars
  <1>0. head \in Nat
    BY HeadIsNat DEF Inv, Typed
  <1>1. CASE NewBlock
    BY <1>0, <1>1, KeepReplies DEF NewBlock
  <1>2. ASSUME NEW h \in Handler, NEW a \in Address, NEW q \in Query, Begin(h, a, q)
        PROVE  RepliesHold'
    <2>. DEFINE r == [pc |-> "resolve", address |-> a, query |-> q, info |-> EOA,
                      from |-> 0, to |-> 0, gaps |-> {}, reply |-> NoReply]
    <2>1. r \in Request /\ r.pc = "resolve" /\ ~ Promised(r.reply)
      BY DEF Request, Step, EOA, Info, NoReply, Promised
    <2>2. Continue(h, r) /\ UNCHANGED <<head, cache>>
      BY <1>2 DEF Begin
    <2>. HIDE DEF r
    <2>. QED  BY <2>1, <2>2, MoveReply
  <1>3. ASSUME NEW h \in Handler, Proceed(h)
        PROVE  RepliesHold'
    BY <1>3, ProceedReplies
  <1>4. ASSUME NEW h \in Handler, AbortRequest(h)
        PROVE  RepliesHold'
    BY <1>4, MoveReply DEF AbortRequest, RequestThrows, HandOverFails, Idle
  <1>5. CASE ExpireEntry
    BY <1>0, <1>5, KeepReplies DEF ExpireEntry
  <1>6. CASE ExpireInfo
    BY <1>0, <1>6, KeepReplies DEF ExpireInfo
  <1>7. ASSUME NEW s \in Slot, NEW j \in jobs, ClaimJob(s, j)
        PROVE  RepliesHold'
    BY <1>0, <1>7, KeepReplies DEF ClaimJob
  <1>8. ASSUME NEW s \in Slot, ProcessJob(s)
        PROVE  RepliesHold'
    <2>1. UNCHANGED <<head, cache, request>>
      <3>1. CASE FetchGap(s) \/ SaveGap(s) \/ FetchTimesOut(s)
        BY <3>1 DEF FetchGap, SaveGap, FetchTimesOut
      <3>2. CASE RequeueChunks(s) \/ JobThrows(s)
        BY <3>2 DEF RequeueChunks, JobThrows
      <3>3. CASE CompleteJob(s) \/ FailJob(s)
        BY <3>3 DEF CompleteJob, FailJob
      <3>. QED  BY <1>8, <3>1, <3>2, <3>3 DEF ProcessJob
    <2>. QED  BY <1>0, <2>1, KeepReplies
  <1>9. CASE WorkerCrash
    BY <1>0, <1>9, KeepReplies DEF WorkerCrash
  <1>10. ASSUME NEW j \in jobs, RecoverJob(j) \/ LoseLock(j)
         PROVE  RepliesHold'
    BY <1>0, <1>10, KeepReplies DEF RecoverJob, LoseLock
  <1>11. CASE EvictJob
    BY <1>0, <1>11, KeepReplies DEF EvictJob
  <1>12. CASE UNCHANGED vars
    BY <1>0, <1>12, KeepReplies DEF vars
  <1>. QED  BY <1>1, <1>2, <1>3, <1>4, <1>5, <1>6, <1>7, <1>8, <1>9, <1>10, <1>11,
               <1>12 DEF Next

LEMMA RepliesInvariance ==
    ASSUME Exclusive, AllSighted
    PROVE  Spec => [](Inv /\ RepliesHold)
  <1>1. Init => Inv /\ RepliesHold
    <2>1. Init => RepliesHold
      BY DEF Init, RepliesHold, Idle
    <2>. QED  BY <2>1, InvInit
  <1>2. (Inv /\ RepliesHold) /\ [Next]_vars => (Inv /\ RepliesHold)'
    BY InvStep, RepliesStep
  <1>. QED  BY <1>1, <1>2, PTL DEF Spec

(***************************************************************************)
(* A reply that holds what there will ever be in its range holds what      *)
(* there is.                                                               *)
(***************************************************************************)
LEMMA HoldingIsComplete ==
    ASSUME NEW a, NEW reply \in Reply \cup {NoReply}, head \in Nat,
           ReplyHolds(a, reply, head)
    PROVE  IsComplete(a, reply)
  BY ChainAssumption DEF ReplyHolds, IsComplete, TxsIn, TxsOf, InRange, Reply, NoReply

(***************************************************************************)
(* Whatever crashes, times out, retries or expires, a reply built from the *)
(* database that does not say incomplete is complete for the range its     *)
(* metadata names, and stays so while the chain grows and it is cached.    *)
(***************************************************************************)
THEOREM DatabaseRepliesAreComplete ==
    ASSUME Exclusive, AllSighted
    PROVE  Spec => []DatabaseRepliesComplete
  <1>1. ASSUME Inv, RepliesHold
        PROVE  DatabaseRepliesComplete
    <2>0. head \in Nat
      BY <1>1, HeadIsNat DEF Inv, Typed
    <2>1. ASSUME NEW h \in Handler, request[h] # Idle,
                 request[h].reply.source = "database", ~ request[h].reply.incomplete
          PROVE  IsComplete(request[h].address, request[h].reply)
      <3>1. request[h].reply \in Reply \cup {NoReply}
        BY <1>1, <2>1 DEF Inv, Typed, TypeOK, Request
      <3>2. ReplyHolds(request[h].address, request[h].reply, head)
        BY <1>1, <2>1 DEF RepliesHold, Promised
      <3>. QED  BY <2>0, <3>1, <3>2, HoldingIsComplete
    <2>2. ASSUME NEW e \in cache, e.reply.source = "database", ~ e.reply.incomplete
          PROVE  IsComplete(e.key.address, e.reply)
      <3>1. e.reply \in Reply \cup {NoReply}
        BY <1>1 DEF Inv, Typed, TypeOK, Entry
      <3>2. ReplyHolds(e.key.address, e.reply, head)
        BY <1>1, <2>2 DEF RepliesHold, Promised
      <3>. QED  BY <2>0, <3>1, <3>2, HoldingIsComplete
    <2>. QED  BY <2>1, <2>2 DEF DatabaseRepliesComplete
  <1>. QED  BY <1>1, RepliesInvariance, PTL

(***************************************************************************)
(* As long as Etherscan answers for every range, the replies built from it *)
(* are complete for the range they name as well.                           *)
(***************************************************************************)
THEOREM RepliesAreComplete ==
    ASSUME Exclusive, AllSighted, NeverTimesOut
    PROVE  Spec => []RepliesMatchRange
  <1>1. ASSUME Inv, RepliesHold
        PROVE  RepliesMatchRange
    <2>0. head \in Nat
      BY <1>1, HeadIsNat DEF Inv, Typed
    <2>1. \A reply \in Reply : reply.incomplete \/ Promised(reply)
      BY DEF Reply, Promised
    <2>2. ASSUME NEW h \in Handler, request[h] # Idle
          PROVE  \/ request[h].reply = NoReply \/ request[h].reply.incomplete
                 \/ IsComplete(request[h].address, request[h].reply)
      <3>1. request[h].reply \in Reply \cup {NoReply}
        BY <1>1, <2>2 DEF Inv, Typed, TypeOK, Request
      <3>2. Promised(request[h].reply) =>
               ReplyHolds(request[h].address, request[h].reply, head)
        BY <1>1, <2>2 DEF RepliesHold
      <3>. QED  BY <2>0, <2>1, <3>1, <3>2, HoldingIsComplete
    <2>3. ASSUME NEW e \in cache
          PROVE  e.reply.incomplete \/ IsComplete(e.key.address, e.reply)
      <3>1. e.reply \in Reply
        BY <1>1 DEF Inv, Typed, TypeOK, Entry
      <3>2. Promised(e.reply) => ReplyHolds(e.key.address, e.reply, head)
        BY <1>1 DEF RepliesHold
      <3>. QED  BY <2>0, <2>1, <3>1, <3>2, HoldingIsComplete
    <2>. QED  BY <2>2, <2>3 DEF RepliesMatchRange
  <1>. QED  BY <1>1, RepliesInvariance, PTL

---------------------------------------------------------------------------
(* Refinement *)

(***************************************************************************)
(* Nothing but the three saves changes the table, and nothing but a new    *)
(* block the head.                                                         *)
(***************************************************************************)
LEMMA WhatSteps ==
    ASSUME Inv, [Next]_vars
    PROVE  \/ NewBlock
           \/ SavesWhole /\ UNCHANGED head
           \/ UNCHANGED <<head, coverage, transactions>>
  <1>. USE DEF dbVars, infoVars, workerVars
  <1>1. ASSUME NEW h \in Handler, Proceed(h)
        PROVE  \/ SavesWhole /\ UNCHANGED head
               \/ UNCHANGED <<head, coverage, transactions>>
    <2>1. CASE MarkAll(h)
      BY <2>1, MarkAllSaves DEF MarkAll
    <2>2. CASE MarkPrefix(h)
      BY <2>2, MarkPrefixSaves DEF MarkPrefix
    <2>3. CASE ResolveCached(h) \/ ResolveStored(h) \/ ResolveUnknown(h) \/ Discover(h)
      BY <2>3 DEF ResolveCached, ResolveStored, ResolveUnknown, Discover
    <2>4. CASE ReadHead(h) \/ CacheHit(h) \/ CacheMiss(h) \/ ReadCoverage(h)
      BY <2>4 DEF ReadHead, CacheHit, CacheMiss, ReadCoverage
    <2>5. CASE ServeDatabase(h) \/ ServeFallback(h) \/ ServeEtherscan(h) \/ ServeHalf(h)
      BY <2>5 DEF ServeDatabase, ServeFallback, ServeEtherscan, ServeHalf
    <2>6. CASE EtherscanTimesOut(h) \/ EtherscanFails(h) \/ StoreInCache(h)
      BY <2>6 DEF EtherscanTimesOut, EtherscanFails, StoreInCache
    <2>7. CASE SendReply(h) \/ ProcessGapsInBackground(h)
      BY <2>7 DEF SendReply, ProcessGapsInBackground
    <2>. QED  BY <1>1, <2>1, <2>2, <2>3, <2>4, <2>5, <2>6, <2>7 DEF Proceed
  <1>2. ASSUME NEW s \in Slot, ProcessJob(s)
        PROVE  \/ SavesWhole /\ UNCHANGED head
               \/ UNCHANGED <<head, coverage, transactions>>
    <2>1. CASE SaveGap(s)
      BY <2>1, SaveGapSaves DEF SaveGap
    <2>2. CASE FetchGap(s) \/ FetchTimesOut(s) \/ RequeueChunks(s)
      BY <2>2 DEF FetchGap, FetchTimesOut, RequeueChunks
    <2>3. CASE JobThrows(s) \/ CompleteJob(s) \/ FailJob(s)
      BY <2>3 DEF JobThrows, CompleteJob, FailJob
    <2>. QED  BY <1>2, <2>1, <2>2, <2>3 DEF ProcessJob
  <1>3. ASSUME NEW h \in Handler, (\E a \in Address, q \in Query : Begin(h, a, q)) \/ AbortRequest(h)
        PROVE  UNCHANGED <<head, coverage, transactions>>
    BY <1>3 DEF Begin, AbortRequest, RequestThrows,
                    HandOverFails
  <1>4. CASE ExpireEntry \/ ExpireInfo \/ WorkerCrash \/ EvictJob
    BY <1>4 DEF ExpireEntry, ExpireInfo, WorkerCrash, EvictJob
  <1>5. ASSUME NEW j \in jobs,
               (\E s \in Slot : ClaimJob(s, j)) \/ RecoverJob(j) \/ LoseLock(j)
        PROVE  UNCHANGED <<head, coverage, transactions>>
    BY <1>5 DEF ClaimJob, RecoverJob, LoseLock
  <1>6. CASE UNCHANGED vars
    BY <1>6 DEF vars
  <1>. QED  BY <1>1, <1>2, <1>3, <1>4, <1>5, <1>6 DEF Next

(***************************************************************************)
(* A save teaches the index the blocks it claims.                          *)
(***************************************************************************)
LEMMA SaveIsLearn ==
    ASSUME Exclusive, Inv, Typed', AllSighted, SavesWhole, UNCHANGED head
    PROVE  \E a \in Address : Index!Learn(a)
  <1>. PICK a \in Address, from \in Int, to \in Int, txs \in SUBSET Tx :
          Whole(a, from, to, txs) /\ SaveTransactionBatch(a, from, to, txs)
    BY DEF SavesWhole
  <1>. DEFINE added == {t \in txs : \A r \in transactions : r.hash # t}
              blocks == {b \in 0 .. MaxBlock : b \in from .. to}
              complete == [x \in Address |-> {b \in 0 .. MaxBlock :
                                                 IsCovered(coverage[x], b)}]
              known == [x \in Address |-> StoredFor(x)]
  <1>1. /\ transactions' = transactions \cup {[hash |-> t, address |-> a] : t \in added}
        /\ coverage' = [coverage EXCEPT ![a] = @ \cup {Range2(from, to)}]
    BY DEF SaveTransactionBatch
  <1>2. head \in Nat /\ head <= MaxBlock /\ MaxBlock \in Nat
    BY HeadIsNat, ChainAssumption DEF Inv, Typed
  <1>3. complete' = [complete EXCEPT ![a] = @ \cup blocks]
    <2>1. ASSUME NEW x \in Address, NEW b \in Int
          PROVE  IsCovered(coverage'[x], b)
                    <=> IsCovered(coverage[x], b) \/ (x = a /\ b \in from .. to)
      <3>1. BlocksOf(Range2(from, to)) = from .. to
        BY DEF BlocksOf, Range2
      <3>2. coverage'[x] = IF x = a THEN coverage[x] \cup {Range2(from, to)}
                                    ELSE coverage[x]
        BY <1>1 DEF Inv, Typed, TypeOK
      <3>. HIDE DEF complete
      <3>. QED  BY <3>1, <3>2 DEF IsCovered
    <2>2. \A x \in Address : complete'[x] = IF x = a THEN complete[x] \cup blocks
                                                     ELSE complete[x]
      BY <2>1
    <2>. QED  BY <2>2
  <1>4. known' = [known EXCEPT ![a] = @ \cup added]
    <2>1. ASSUME NEW x \in Address
          PROVE  known'[x] = IF x = a THEN known[x] \cup added ELSE known[x]
      <3>1. \A t \in Tx : [hash |-> t, address |-> x] \in transactions'
               <=> \/ [hash |-> t, address |-> x] \in transactions
                   \/ x = a /\ t \in added
        BY <1>1
      <3>. QED  BY <3>1 DEF StoredFor
    <2>. QED  BY <2>1
  <1>5. ASSUME NEW t \in Index!TxsOf(a), BlockOf[t] \in blocks
        PROVE  t \in known[a] \cup added
    <2>1. t \in Tx /\ a \in PartiesOf[t] /\ t \in txs
      BY <1>5 DEF Index!TxsOf, Whole, AllSighted
    <2>2. ASSUME t \notin added
          PROVE  t \in StoredFor(a)
      <3>1. PICK r \in transactions : r.hash = t
        BY <2>1, <2>2
      <3>2. r \in Row /\ r.address = a
        BY <2>1, <3>1 DEF Inv, Typed, TypeOK, TableSound, RowsTrue, Exclusive, Row
      <3>3. r = [hash |-> t, address |-> a]
        BY <3>1, <3>2 DEF Row
      <3>. QED  BY <2>1, <3>1, <3>3 DEF StoredFor
    <2>. QED  BY <2>2
  <1>6. blocks \in SUBSET (0 .. head) /\ added \in SUBSET Index!TxsOf(a)
    BY <1>2 DEF Whole, Index!TxsOf
  <1>. HIDE DEF added, blocks
  <1>. QED  BY <1>3, <1>4, <1>5, <1>6 DEF Index!Learn

(***************************************************************************)
(* The whole subsystem is an index that grows: handlers, caches, queue,    *)
(* worker, crashes and retries taken together do to the table what TxIndex *)
(* does, and nothing else.                                                 *)
(***************************************************************************)
THEOREM PipelineIsIndex ==
    ASSUME Exclusive, AllSighted
    PROVE  Spec => ImplementsIndex
  <1>1. Init => Index!Init
    BY ChainAssumption DEF Init, Index!Init, IsCovered, StoredFor
  <1>2. Inv /\ Inv' /\ [Next]_vars => [Index!Next]_Index!vars
    <2>. SUFFICES ASSUME Inv, Inv', [Next]_vars
                  PROVE  Index!Next \/ UNCHANGED Index!vars
      OBVIOUS
    <2>1. CASE NewBlock
      <3>1. head \in Nat /\ head' = head + 1 /\ UNCHANGED <<coverage, transactions>>
        BY <2>1, HeadIsNat DEF NewBlock, dbVars, Inv, Typed
      <3>. QED  BY <3>1 DEF Index!Next, Index!Grow, StoredFor
    <2>2. CASE SavesWhole /\ UNCHANGED head
      BY <2>2, SaveIsLearn DEF Index!Next, Inv
    <2>3. CASE UNCHANGED <<head, coverage, transactions>>
      BY <2>3 DEF Index!vars, StoredFor
    <2>. QED  BY <2>1, <2>2, <2>3, WhatSteps
  <1>. QED  BY <1>1, <1>2, Invariance, PTL DEF Spec, ImplementsIndex, Index!Spec

---------------------------------------------------------------------------
(* Completed jobs *)

(***************************************************************************)
(* No job is cut short: only long ranges time out, finished jobs stay, an   *)
(* address has fewer transactions than a batch, and a chunk of a range     *)
(* that may time out is smaller than the range.  Attempts may fail.        *)
(***************************************************************************)
NothingCutShort ==
    ~ Outages /\ ~ Evicting /\ Cardinality(Tx) < BatchSize /\ ChunkSize < TimeoutBlocks

(***************************************************************************)
(* Block b of the job is covered or on a smaller job that waits, runs or   *)
(* is known to have failed.  Smaller, because a job could not be a job of  *)
(* its own chunk otherwise.                                                *)
(***************************************************************************)
HandedOn(id, b, covered, queue) ==
    \/ IsCovered(covered[id.address], b)
    \/ \E k \in queue : /\ k.id.address = id.address
                        /\ k.state # "completed"
                        /\ Size(k.id) < Size(id)
                        /\ b \in BlocksOf(k.id)

DoneWith(id, covered, queue) == \A b \in BlocksOf(id) : HandedOn(id, b, covered, queue)

SlotAccounted(busy, covered, queue) ==
    /\ busy.phase = "finishing" => DoneWith(busy.job, covered, queue)
    /\ busy.phase = "fetched" => busy.end = busy.job.toBlock
    /\ busy.phase = "splitting" => TimeoutBlocks <= Size(busy.job)

Accounted ==
    /\ \A j \in jobs : j.state = "completed" => DoneWith(j.id, coverage, jobs)
    /\ \A s \in Slot : SlotAccounted(slot[s], coverage, jobs)

\* The unfinished jobs that there are, there are in the next state.
KeepsUnfinished ==
    \A k \in jobs : k.state # "completed" =>
        \E m \in jobs' : m.id = k.id /\ m.state # "completed"

CoverageGrows == \A a \in Address : coverage[a] \subseteq coverage'[a]

LEMMA CoverageOnlyGrows ==
    ASSUME Inv, [Next]_vars
    PROVE  CoverageGrows
  <1>1. CASE NewBlock
    BY <1>1 DEF NewBlock, dbVars, CoverageGrows
  <1>2. CASE SavesWhole
    BY <1>2, SaveSound DEF CoverageGrows
  <1>3. CASE UNCHANGED coverage
    BY <1>3 DEF CoverageGrows
  <1>. QED  BY <1>1, <1>2, <1>3, WhatSteps

LEMMA DoneStays ==
    ASSUME CoverageGrows, KeepsUnfinished, NEW id \in JobId,
           DoneWith(id, coverage, jobs)
    PROVE  DoneWith(id, coverage', jobs')
  <1>1. ASSUME NEW b \in BlocksOf(id)
        PROVE  HandedOn(id, b, coverage', jobs')
    <2>1. CASE IsCovered(coverage[id.address], b)
      BY <2>1 DEF CoverageGrows, JobId, IsCovered, HandedOn
    <2>2. CASE ~ IsCovered(coverage[id.address], b)
      <3>1. PICK k \in jobs : /\ k.id.address = id.address /\ k.state # "completed"
                              /\ Size(k.id) < Size(id) /\ b \in BlocksOf(k.id)
        BY <2>2 DEF DoneWith, HandedOn
      <3>2. PICK m \in jobs' : m.id = k.id /\ m.state # "completed"
        BY <3>1 DEF KeepsUnfinished
      <3>. QED  BY <3>1, <3>2 DEF HandedOn
    <2>. QED  BY <2>1, <2>2
  <1>. QED  BY <1>1 DEF DoneWith

(***************************************************************************)
(* A step that completes no job and finishes no unaccounted one keeps the  *)
(* account.                                                                *)
(***************************************************************************)
LEMMA AccountStays ==
    ASSUME Inv, Accounted, CoverageGrows, KeepsUnfinished,
           \A j \in jobs' : j.state = "completed" => j \in jobs,
           \A s \in Slot : \/ slot'[s] = slot[s]
                           \/ SlotAccounted(slot'[s], coverage', jobs')
    PROVE  Accounted'
  <1>1. ASSUME NEW j \in jobs', j.state = "completed"
        PROVE  DoneWith(j.id, coverage', jobs')
    <2>1. j \in jobs /\ j.id \in JobId
      BY <1>1 DEF Inv, Typed, TypeOK, Job
    <2>. QED  BY <1>1, <2>1, DoneStays DEF Accounted
  <1>2. ASSUME NEW s \in Slot
        PROVE  SlotAccounted(slot'[s], coverage', jobs')
    <2>1. CASE slot'[s] = slot[s]
      <3>1. slot[s].phase = "finishing" => slot[s].job \in JobId
        BY SlotFacts DEF Busy
      <3>. QED  BY <2>1, <3>1, DoneStays DEF Accounted, SlotAccounted
    <2>. QED  BY <2>1
  <1>. QED  BY <1>1, <1>2 DEF Accounted

LEMMA UpdateKeeps ==
    ASSUME NEW j \in jobs, NEW k, k.id = j.id, k.state # "completed", Update(j, k)
    PROVE  /\ KeepsUnfinished
           /\ \A m \in jobs' : m.state = "completed" => m \in jobs
  BY DEF Update, KeepsUnfinished

LEMMA UnlockKeepsUnfinished ==
    ASSUME Inv, NEW j \in jobs, Unlock(j)
    PROVE  /\ KeepsUnfinished
           /\ \A m \in jobs' : m.state = "completed" => m \in jobs
  <1>1. j \in Job
    BY DEF Inv, Typed, TypeOK
  <1>2. CASE j.stalls < MaxStalled
    <2>. DEFINE k == [j EXCEPT !.state = "waiting", !.lock = NoSlot, !.stalls = @ + 1]
    <2>1. k.id = j.id /\ k.state # "completed"
      BY <1>1 DEF Job
    <2>2. Update(j, k)
      BY <1>2 DEF Unlock
    <2>. HIDE DEF k
    <2>. QED  BY <2>1, <2>2, UpdateKeeps
  <1>3. CASE ~ (j.stalls < MaxStalled)
    <2>. DEFINE k == [j EXCEPT !.state = "failed", !.lock = NoSlot]
    <2>1. k.id = j.id /\ k.state # "completed"
      BY <1>1 DEF Job
    <2>2. Update(j, k)
      BY <1>3 DEF Unlock
    <2>. HIDE DEF k
    <2>. QED  BY <2>1, <2>2, UpdateKeeps
  <1>. QED  BY <1>2, <1>3

LEMMA QueueKeeps ==
    ASSUME NEW a, NEW gaps, QueueGapsForProcessing(a, gaps)
    PROVE  /\ jobs \subseteq jobs'
           /\ KeepsUnfinished
           /\ \A m \in jobs' : m.state = "completed" => m \in jobs
  BY DEF QueueGapsForProcessing, KeepsUnfinished

(***************************************************************************)
(* Chunks: every block of a job that was split is on a job of a chunk; if  *)
(* that one was completed before, then it has handed the block on.         *)
(***************************************************************************)
LEMMA ChunksAccounted ==
    ASSUME NothingCutShort, Inv, Typed', Accounted, NEW id \in JobId, CoverageGrows,
           TimeoutBlocks <= Size(id),
           QueueGapsForProcessing(id.address, Pieces(id, ChunkSize))
    PROVE  DoneWith(id, coverage', jobs')
  <1>. DEFINE chunks == Pieces(id, ChunkSize)
              pieces == UNION {Pieces(c, MaxBlocksPerJob) : c \in chunks}
  <1>0. /\ id.fromBlock \in Int /\ id.toBlock \in Int /\ id.address \in Address
        /\ ChunkSize \in Nat \ {0} /\ MaxBlocksPerJob \in Nat \ {0}
        /\ TimeoutBlocks \in Nat
    BY QueueAssumption DEF JobId
  <1>1. jobs \subseteq jobs' /\ KeepsUnfinished
    BY QueueKeeps
  <1>2. ASSUME NEW b \in BlocksOf(id)
        PROVE  HandedOn(id, b, coverage', jobs')
    <2>1. PICK c \in chunks : b \in BlocksOf(c)
      BY <1>0, PiecesCover
    <2>2. c \in BlockRange /\ Size(c) <= ChunkSize
      BY <1>0, PiecesAreRanges, PiecesFit
    <2>3. c.fromBlock \in Int /\ c.toBlock \in Int
      BY <2>2 DEF BlockRange
    <2>4. PICK p \in Pieces(c, MaxBlocksPerJob) : b \in BlocksOf(p)
      BY <1>0, <2>1, <2>3, PiecesCover
    <2>5. p \in BlockRange /\ c.fromBlock <= p.fromBlock /\ p.toBlock <= c.toBlock
      BY <1>0, <2>3, PiecesAreRanges, PiecesFit
    <2>6. p.fromBlock \in Int /\ p.toBlock \in Int
      BY <2>5 DEF BlockRange
    <2>. DEFINE x == JobIdOf(id.address, p)
    <2>7. /\ x \in JobId /\ x.address = id.address /\ Size(x) = Size(p)
          /\ BlocksOf(x) = BlocksOf(p)
      BY <1>0, <2>6 DEF JobIdOf, JobId, Size, BlocksOf
    <2>8. Size(x) < Size(id)
      <3>1. Size(p) <= Size(c)
        BY <2>3, <2>5, <2>6 DEF Size
      <3>. QED  BY <1>0, <2>2, <2>3, <2>6, <2>7, <3>1 DEF Size, NothingCutShort
    <2>9. PICK m \in jobs' : m.id = x
      <3>1. p \in pieces
        BY <2>4
      <3>. HIDE DEF pieces
      <3>2. x \in {JobIdOf(id.address, y) : y \in pieces}
        BY <3>1
      <3>3. jobs' = jobs \cup
               {[id |-> y, state |-> "waiting", attempts |-> 0, stalls |-> 0,
                 lock |-> NoSlot] :
                   y \in {z \in {JobIdOf(id.address, y) : y \in pieces} :
                             \A j \in jobs : j.id # z}}
        BY DEF QueueGapsForProcessing, pieces
      <3>. HIDE DEF x
      <3>4. CASE \E j \in jobs : j.id = x
        BY <3>3, <3>4
      <3>5. CASE \A j \in jobs : j.id # x
        <4>. DEFINE new == [id |-> x, state |-> "waiting", attempts |-> 0, stalls |-> 0,
                            lock |-> NoSlot]
        <4>1. new \in jobs'
          BY <3>2, <3>3, <3>5
        <4>2. new.id = x
          OBVIOUS
        <4>. HIDE DEF new
        <4>. QED  BY <4>1, <4>2
      <3>. QED  BY <3>4, <3>5
    <2>10. CASE m.state # "completed"
      BY <2>4, <2>7, <2>8, <2>9, <2>10 DEF HandedOn
    <2>11. CASE m.state = "completed"
      <3>1. m \in jobs
        BY <2>11, QueueKeeps
      <3>2. DoneWith(x, coverage, jobs)
        BY <2>9, <2>11, <3>1 DEF Accounted
      <3>3. DoneWith(x, coverage', jobs')
        BY <1>1, <2>7, <3>2, DoneStays
      <3>4. HandedOn(x, b, coverage', jobs')
        BY <2>4, <2>7, <3>3 DEF DoneWith
      <3>5. \A k \in jobs' : Size(k.id) \in Int
        <4>1. \A k \in jobs' : k.id \in JobId
          BY DEF Typed, TypeOK, Job
        <4>. QED  BY <4>1 DEF JobId, Size
      <3>. QED  BY <2>7, <2>8, <3>4, <3>5 DEF HandedOn, JobId, Size
    <2>. QED  BY <2>10, <2>11
  <1>. QED  BY <1>2 DEF DoneWith

(***************************************************************************)
(* Completion: a job counts as completed only with its blocks handed on,   *)
(* and what was handed on to it is where its own blocks are.               *)
(***************************************************************************)
LEMMA CompleteAccounted ==
    ASSUME Inv, Inv', Accounted, NEW s \in Slot, slot[s].phase = "finishing",
           NEW j \in jobs, j.id = slot[s].job,
           Update(j, [j EXCEPT !.state = "completed", !.lock = NoSlot]),
           Process(s, IdleSlot), UNCHANGED coverage
    PROVE  Accounted'
  <1>. DEFINE k == [j EXCEPT !.state = "completed", !.lock = NoSlot]
  <1>1. j \in Job /\ j.id \in JobId /\ k.id = j.id
    BY DEF Inv, Typed, TypeOK, Job
  <1>2. jobs' = (jobs \ {j}) \cup {k}
    BY DEF Update
  <1>3. k.state = "completed"
    BY <1>1 DEF Job
  <1>. HIDE DEF k
  <1>4. DoneWith(j.id, coverage, jobs)
    BY DEF Accounted, SlotAccounted
  <1>5. \A m \in jobs : m.id \in JobId
    BY DEF Inv, Typed, TypeOK, Job
  <1>6. \A id \in JobId : Size(id) \in Int
    BY DEF JobId, Size
  <1>7. \A b \in BlocksOf(j.id) : HandedOn(j.id, b, coverage, jobs')
    <2>. SUFFICES ASSUME NEW b \in BlocksOf(j.id), ~ IsCovered(coverage[j.id.address], b)
                  PROVE  HandedOn(j.id, b, coverage, jobs')
      BY DEF HandedOn
    <2>1. PICK m \in jobs : /\ m.id.address = j.id.address /\ m.state # "completed"
                            /\ Size(m.id) < Size(j.id) /\ b \in BlocksOf(m.id)
      BY <1>4 DEF DoneWith, HandedOn
    <2>2. m # j
      BY <1>1, <1>6, <2>1
    <2>. QED  BY <1>2, <2>1, <2>2 DEF HandedOn
  <1>8. ASSUME NEW id \in JobId, DoneWith(id, coverage, jobs)
        PROVE  DoneWith(id, coverage, jobs')
    <2>1. ASSUME NEW b \in BlocksOf(id), ~ IsCovered(coverage[id.address], b)
          PROVE  HandedOn(id, b, coverage, jobs')
      <3>1. PICK m \in jobs : /\ m.id.address = id.address /\ m.state # "completed"
                              /\ Size(m.id) < Size(id) /\ b \in BlocksOf(m.id)
        BY <1>8, <2>1 DEF DoneWith, HandedOn
      <3>2. CASE m # j
        BY <1>2, <3>1, <3>2 DEF HandedOn
      <3>3. CASE m = j
        <4>1. HandedOn(j.id, b, coverage, jobs')
          BY <1>7, <3>1, <3>3
        <4>2. PICK x \in jobs' : /\ x.id.address = j.id.address /\ x.state # "completed"
                                 /\ Size(x.id) < Size(j.id) /\ b \in BlocksOf(x.id)
          BY <2>1, <3>1, <3>3, <4>1 DEF HandedOn
        <4>3. Size(x.id) \in Int /\ Size(j.id) \in Int /\ Size(id) \in Int
          BY <1>1, <1>2, <1>5, <1>6
        <4>. QED  BY <3>1, <3>3, <4>2, <4>3 DEF HandedOn
      <3>. QED  BY <3>2, <3>3
    <2>. QED  BY <2>1 DEF DoneWith, HandedOn
  <1>9. ASSUME NEW m \in jobs', m.state = "completed"
        PROVE  DoneWith(m.id, coverage, jobs')
    <2>1. CASE m = k
      BY <1>1, <1>7, <2>1 DEF DoneWith
    <2>2. CASE m # k
      BY <1>2, <1>5, <1>8, <1>9, <2>2 DEF Accounted
    <2>. QED  BY <2>1, <2>2
  <1>10. ASSUME NEW x \in Slot
         PROVE  SlotAccounted(slot'[x], coverage, jobs')
    <2>1. slot'[x] = slot[x] \/ slot'[x] = IdleSlot
      BY DEF Process, Inv, Typed, TypeOK
    <2>2. CASE slot'[x] = slot[x]
      <3>1. slot[x].phase = "finishing" => slot[x].job \in JobId
        BY SlotFacts DEF Busy
      <3>. QED  BY <1>8, <2>2, <3>1 DEF Accounted, SlotAccounted
    <2>3. CASE slot'[x] = IdleSlot
      BY <2>3 DEF SlotAccounted, IdleSlot
    <2>. QED  BY <2>1, <2>2, <2>3
  <1>. QED  BY <1>9, <1>10 DEF Accounted

LEMMA SlotMoves ==
    ASSUME Inv, NEW s \in Slot, NEW b, Process(s, b),
           SlotAccounted(b, coverage', jobs')
    PROVE  \A x \in Slot : \/ slot'[x] = slot[x]
                           \/ SlotAccounted(slot'[x], coverage', jobs')
  BY DEF Process, Inv, Typed, TypeOK

LEMMA ProcessJobAccounted ==
    ASSUME NothingCutShort, Inv, Inv', Accounted, CoverageGrows,
           NEW s \in Slot, ProcessJob(s)
    PROVE  Accounted'
  <1>. USE DEF dbVars, infoVars, InPhase
  <1>. DEFINE j == slot[s].job
  <1>0. UNCHANGED jobs => KeepsUnfinished /\ \A m \in jobs' : m \in jobs
    BY DEF KeepsUnfinished
  <1>1. CASE FetchGap(s)
    <2>1. slot[s].phase = "claimed" /\ UNCHANGED jobs
      BY <1>1 DEF FetchGap
    <2>2. PICK got \in SUBSET TxsOf(j.address), end \in (j.fromBlock - 1) .. j.toBlock :
             /\ FetchAllowed(TxsOf(j.address), BlockOf, j, BatchSize, got, end)
             /\ Process(s, [slot[s] EXCEPT !.phase = "fetched", !.got = got, !.end = end])
      BY <1>1 DEF FetchGap
    <2>3. end = j.toBlock
      <3>. DEFINE inside == InRange(TxsOf(j.address), BlockOf, j.fromBlock, j.toBlock)
      <3>1. inside \subseteq Tx
        BY DEF InRange, TxsOf
      <3>2. /\ Cardinality(inside) <= Cardinality(Tx)
            /\ Cardinality(inside) \in Nat /\ Cardinality(Tx) \in Nat
        BY <3>1, ChainAssumption, FS_Subset, FS_CardinalityType
      <3>3. Cardinality(inside) < BatchSize
        BY <3>2, QueueAssumption DEF NothingCutShort
      <3>. QED  BY <2>2, <3>3 DEF FetchAllowed
    <2>. DEFINE b == [slot[s] EXCEPT !.phase = "fetched", !.got = got, !.end = end]
    <2>4. b.phase = "fetched" /\ b.job = j /\ b.end = end
      BY <2>1, SlotFacts DEF Busy
    <2>. HIDE DEF b
    <2>5. SlotAccounted(b, coverage', jobs')
      BY <2>3, <2>4 DEF SlotAccounted
    <2>. QED  BY <1>0, <2>1, <2>2, <2>5, SlotMoves, AccountStays DEF b
  <1>2. CASE SaveGap(s)
    <2>1. slot[s].phase = "fetched" /\ UNCHANGED jobs
      BY <1>2 DEF SaveGap
    <2>2. /\ slot[s] \in Busy /\ j.address \in Address
          /\ slot[s].end = j.toBlock
      BY <2>1, SlotFacts DEF Accounted, SlotAccounted
    <2>3. Range2(j.fromBlock, j.toBlock) \in coverage'[j.address]
      BY <1>2, <2>2 DEF SaveGap, SaveTransactionBatch, Inv, Typed, TypeOK
    <2>4. DoneWith(j, coverage', jobs')
      BY <2>3 DEF DoneWith, HandedOn, IsCovered, BlocksOf, Range2
    <2>. DEFINE b == [slot[s] EXCEPT !.phase = "finishing"]
    <2>5. b.phase = "finishing" /\ b.job = j
      BY <2>2 DEF Busy
    <2>6. Process(s, b)
      BY <1>2 DEF SaveGap, Phase
    <2>. HIDE DEF b
    <2>7. SlotAccounted(b, coverage', jobs')
      BY <2>4, <2>5 DEF SlotAccounted
    <2>. QED  BY <1>0, <2>1, <2>6, <2>7, SlotMoves, AccountStays
  <1>3. CASE FetchTimesOut(s)
    <2>1. slot[s].phase = "claimed" /\ UNCHANGED jobs /\ TimeoutBlocks <= Size(j)
      <3>1. MayTimeOut(j) /\ slot[s].phase = "claimed" /\ UNCHANGED jobs
        BY <1>3 DEF FetchTimesOut
      <3>2. Size(j) \in Int /\ TimeoutBlocks \in Nat
        BY <3>1, SlotFacts, QueueAssumption DEF Size
      <3>. QED  BY <3>1, <3>2 DEF MayTimeOut, NothingCutShort
    <2>. DEFINE b == [slot[s] EXCEPT !.phase = "splitting"]
    <2>2. b.phase = "splitting" /\ b.job = j
      BY <2>1, SlotFacts DEF Busy
    <2>3. Process(s, b)
      BY <1>3 DEF FetchTimesOut, Phase
    <2>. HIDE DEF b
    <2>4. SlotAccounted(b, coverage', jobs')
      BY <2>1, <2>2 DEF SlotAccounted
    <2>. QED  BY <1>0, <2>1, <2>3, <2>4, SlotMoves, AccountStays
  <1>4. CASE RequeueChunks(s)
    <2>1. /\ slot[s].phase = "splitting"
          /\ QueueGapsForProcessing(j.address, Pieces(j, ChunkSize))
      BY <1>4 DEF RequeueChunks
    <2>2. slot[s] \in Busy /\ j \in JobId /\ TimeoutBlocks <= Size(j)
      BY <2>1, SlotFacts DEF Accounted, SlotAccounted, Busy
    <2>3. DoneWith(j, coverage', jobs')
      BY <2>1, <2>2, ChunksAccounted DEF Inv
    <2>. DEFINE b == [slot[s] EXCEPT !.phase = "finishing"]
    <2>4. b.phase = "finishing" /\ b.job = j
      BY <2>2 DEF Busy
    <2>5. Process(s, b)
      BY <1>4 DEF RequeueChunks, Phase
    <2>. HIDE DEF b
    <2>6. SlotAccounted(b, coverage', jobs')
      BY <2>3, <2>4 DEF SlotAccounted
    <2>. QED  BY <2>1, <2>5, <2>6, SlotMoves, QueueKeeps, AccountStays
  <1>5. CASE JobThrows(s)
    <2>1. UNCHANGED <<jobs, coverage>> /\ slot[s].phase # "idle"
      BY <1>5 DEF JobThrows, dbVars
    <2>. DEFINE b == [slot[s] EXCEPT !.phase = "failing"]
    <2>2. b.phase = "failing"
      BY <2>1, SlotFacts DEF Busy
    <2>3. Process(s, b)
      BY <1>5 DEF JobThrows, Phase
    <2>. HIDE DEF b
    <2>4. SlotAccounted(b, coverage', jobs')
      BY <2>2 DEF SlotAccounted
    <2>. QED  BY <1>0, <2>1, <2>3, <2>4, SlotMoves, AccountStays
  <1>6. CASE CompleteJob(s)
    <2>1. /\ slot[s].phase = "finishing" /\ Process(s, IdleSlot) /\ UNCHANGED coverage
      BY <1>6 DEF CompleteJob
    <2>2. SlotAccounted(IdleSlot, coverage', jobs')
      BY DEF SlotAccounted, IdleSlot
    <2>3. CASE UNCHANGED jobs
      BY <1>0, <2>1, <2>2, <2>3, SlotMoves, AccountStays
    <2>4. CASE \E k \in jobs : HoldsLock(s, k) /\ Update(k, [k EXCEPT
                  !.state = "completed", !.lock = NoSlot])
      BY <2>1, <2>4, CompleteAccounted DEF HoldsLock
    <2>. QED  BY <1>6, <2>3, <2>4 DEF CompleteJob
  <1>7. CASE FailJob(s)
    <2>1. Process(s, IdleSlot)
      BY <1>7 DEF FailJob
    <2>2. SlotAccounted(IdleSlot, coverage', jobs')
      BY DEF SlotAccounted, IdleSlot
    <2>3. CASE UNCHANGED jobs
      BY <1>0, <2>1, <2>2, <2>3, SlotMoves, AccountStays
    <2>4. ASSUME NEW k \in jobs, Update(k, [k EXCEPT
                  !.state = IF k.attempts + 1 < MaxAttempts THEN "waiting" ELSE "failed",
                  !.attempts = k.attempts + 1, !.lock = NoSlot])
          PROVE  Accounted'
      <3>. DEFINE state == IF k.attempts + 1 < MaxAttempts THEN "waiting" ELSE "failed"
                  n == k.attempts + 1
                  m == [k EXCEPT !.state = state, !.attempts = n, !.lock = NoSlot]
      <3>1. state # "completed" /\ k \in Job
        BY DEF Inv, Typed, TypeOK
      <3>2. Update(k, m)
        BY <2>4
      <3>. HIDE DEF state, n
      <3>3. m.id = k.id /\ m.state = state
        BY <3>1 DEF Job
      <3>. HIDE DEF m
      <3>. QED  BY <2>1, <2>2, <3>1, <3>2, <3>3, SlotMoves, UpdateKeeps, AccountStays
    <2>. QED  BY <1>7, <2>3, <2>4 DEF FailJob
  <1>. QED  BY <1>1, <1>2, <1>3, <1>4, <1>5, <1>6, <1>7 DEF ProcessJob

LEMMA AccountedStep ==
    ASSUME NothingCutShort, Inv, Inv', Accounted, [Next]_vars
    PROVE  Accounted'
  <1>. USE DEF dbVars, infoVars, workerVars
  <1>0. CoverageGrows
    BY CoverageOnlyGrows
  <1>1. CASE UNCHANGED <<jobs, slot>>
    BY <1>0, <1>1, AccountStays DEF KeepsUnfinished
  <1>2. ASSUME NEW h \in Handler, Proceed(h)
        PROVE  Accounted'
    <2>1. CASE ProcessGapsInBackground(h)
      BY <1>0, <2>1, QueueKeeps, AccountStays DEF ProcessGapsInBackground
    <2>2. CASE ResolveCached(h) \/ ResolveStored(h) \/ ResolveUnknown(h) \/ Discover(h)
      BY <1>1, <2>2 DEF ResolveCached, ResolveStored, ResolveUnknown, Discover
    <2>3. CASE ReadHead(h) \/ CacheHit(h) \/ CacheMiss(h) \/ ReadCoverage(h)
      BY <1>1, <2>3 DEF ReadHead, CacheHit, CacheMiss, ReadCoverage
    <2>4. CASE ServeDatabase(h) \/ ServeFallback(h) \/ ServeEtherscan(h) \/ ServeHalf(h)
      BY <1>1, <2>4 DEF ServeDatabase, ServeFallback, ServeEtherscan, ServeHalf
    <2>5. CASE EtherscanTimesOut(h) \/ EtherscanFails(h) \/ StoreInCache(h) \/ SendReply(h)
      BY <1>1, <2>5 DEF EtherscanTimesOut, EtherscanFails, StoreInCache, SendReply
    <2>6. CASE MarkAll(h) \/ MarkPrefix(h)
      BY <1>1, <2>6 DEF MarkAll, MarkPrefix
    <2>. QED  BY <1>2, <2>1, <2>2, <2>3, <2>4, <2>5, <2>6 DEF Proceed
  <1>3. ASSUME NEW h \in Handler, (\E a \in Address, q \in Query : Begin(h, a, q)) \/ AbortRequest(h)
        PROVE  Accounted'
    BY <1>1, <1>3 DEF Begin, AbortRequest, RequestThrows,
                    HandOverFails
  <1>4. CASE NewBlock \/ ExpireEntry \/ ExpireInfo \/ UNCHANGED vars
    BY <1>1, <1>4 DEF NewBlock, ExpireEntry, ExpireInfo, vars
  <1>5. ASSUME NEW s \in Slot, NEW j \in jobs, ClaimJob(s, j)
        PROVE  Accounted'
    <2>. DEFINE k == [j EXCEPT !.state = "active", !.lock = s]
                b == [phase |-> "claimed", job |-> j.id, got |-> {}, end |-> 0]
    <2>1. Update(j, k) /\ Process(s, b)
      BY <1>5 DEF ClaimJob
    <2>2. j \in Job
      BY DEF Inv, Typed, TypeOK
    <2>3. k.id = j.id /\ k.state # "completed"
      BY <2>2 DEF Job
    <2>. HIDE DEF k
    <2>4. SlotAccounted(b, coverage', jobs')
      BY DEF SlotAccounted
    <2>. HIDE DEF b
    <2>. QED  BY <1>0, <2>1, <2>3, <2>4, SlotMoves, UpdateKeeps, AccountStays
  <1>6. ASSUME NEW s \in Slot, ProcessJob(s)
        PROVE  Accounted'
    BY <1>0, <1>6, ProcessJobAccounted
  <1>7. CASE WorkerCrash
    <2>1. UNCHANGED jobs /\ slot' = [s \in Slot |-> IdleSlot]
      BY <1>7 DEF WorkerCrash
    <2>2. SlotAccounted(IdleSlot, coverage', jobs')
      BY DEF SlotAccounted, IdleSlot
    <2>. QED  BY <1>0, <2>1, <2>2, AccountStays DEF KeepsUnfinished
  <1>8. ASSUME NEW j \in jobs, RecoverJob(j) \/ LoseLock(j)
        PROVE  Accounted'
    BY <1>0, <1>8, UnlockKeepsUnfinished, AccountStays DEF RecoverJob, LoseLock
  <1>9. CASE EvictJob
    BY <1>9 DEF EvictJob, NothingCutShort
  <1>. QED  BY <1>2, <1>3, <1>4, <1>5, <1>6, <1>7, <1>8, <1>9 DEF Next

(***************************************************************************)
(* "All gaps are queued for background processing": as long as nothing     *)
(* cuts a job short, no block of a completed job is left behind, however   *)
(* often workers crash, locks are lost and chunks meet jobs that were in   *)
(* the queue before.  The run chunk_is_itself shows what the assumption on *)
(* ChunkSize is for.                                                       *)
(***************************************************************************)
THEOREM CompletedAreAccounted ==
    ASSUME NothingCutShort
    PROVE  Spec => []CompletedJobsAccounted
  <1>1. Init => Inv /\ Accounted
    <2>1. Init => Accounted
      BY DEF Init, Accounted, SlotAccounted, IdleSlot
    <2>. QED  BY <2>1, InvInit
  <1>2. (Inv /\ Accounted) /\ [Next]_vars => (Inv /\ Accounted)'
    BY InvStep, AccountedStep
  <1>3. Inv /\ Accounted => CompletedJobsAccounted
    BY DEF Accounted, DoneWith, HandedOn, CompletedJobsAccounted
  <1>. QED  BY <1>1, <1>2, <1>3, PTL DEF Spec
============================================================================
