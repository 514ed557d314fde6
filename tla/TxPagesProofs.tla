---------------------------- MODULE TxPagesProofs ----------------------------
(***************************************************************************)
(* What holds of ContractSearch and TxPages for every chain, every set of  *)
(* transactions and placement of them in blocks, every page size and every *)
(* size of the cache.                                                      *)
(***************************************************************************)
EXTENDS TxPages, FiniteSetTheorems, FunctionTheorems, TLAPS

-----------------------------------------------------------------------------
(* Places in an order *)

\* The members of S that come before t, in the order of the chain or against it.
Ahead(S, asc, t) == {u \in S : IF asc THEN u < t ELSE u > t}

\* The members of S among the first n.
Front(S, asc, n) == {t \in S : Cardinality(Ahead(S, asc, t)) < n}

LEMMA PlacesSize ==
    ASSUME NEW n \in Nat
    PROVE  IsFiniteSet(0 .. n - 1) /\ Cardinality(0 .. n - 1) = n
  <1>1. PICK b \in Int : b = n - 1
    OBVIOUS
  <1>2. /\ IsFiniteSet(0 .. b)
        /\ Cardinality(0 .. b) = IF 0 > b THEN 0 ELSE b - 0 + 1
    BY FS_Interval
  <1>3. IsFiniteSet(0 .. b) /\ Cardinality(0 .. b) = n
    BY <1>1, <1>2
  <1>. QED  BY <1>1, <1>3

LEMMA AheadFacts ==
    ASSUME NEW S, IsFiniteSet(S), S \subseteq Nat, NEW asc \in BOOLEAN,
           NEW t \in S
    PROVE  /\ Cardinality(Ahead(S, asc, t)) \in 0 .. Cardinality(S) - 1
           /\ Cardinality(Ahead(S, asc, t)) \in Int
           /\ \A u \in Ahead(S, asc, t) :
                 Cardinality(Ahead(S, asc, u)) < Cardinality(Ahead(S, asc, t))
  <1>1. \A T \in SUBSET S : IsFiniteSet(T) /\ Cardinality(T) \in Nat
                               /\ Cardinality(T) <= Cardinality(S)
    BY FS_Subset, FS_CardinalityType
  <1>2. Ahead(S, asc, t) \in SUBSET S /\ t \notin Ahead(S, asc, t)
    BY DEF Ahead
  <1>3. Cardinality(Ahead(S, asc, t)) # Cardinality(S)
    <2>. DEFINE A == Ahead(S, asc, t)
    <2>. HIDE DEF A
    <2>1. A \in SUBSET S /\ A # S
      BY <1>2 DEF A
    <2>. QED  BY <2>1, FS_Subset DEF A
  <1>4. ASSUME NEW u \in Ahead(S, asc, t)
        PROVE  Cardinality(Ahead(S, asc, u)) < Cardinality(Ahead(S, asc, t))
    <2>1. u \in S /\ u \notin Ahead(S, asc, u)
      BY DEF Ahead
    <2>2. Ahead(S, asc, u) \in SUBSET Ahead(S, asc, t)
      <3>1. t \in Int /\ u \in Int /\ \A v \in S : v \in Int
        BY <2>1
      <3>2. CASE asc = TRUE
        <4>1. u < t /\ \A v \in S : v < u => v < t
          BY <3>1, <3>2 DEF Ahead
        <4>. QED  BY <3>2, <4>1 DEF Ahead
      <3>3. CASE asc = FALSE
        <4>1. u > t /\ \A v \in S : v > u => v > t
          BY <3>1, <3>3 DEF Ahead
        <4>. QED  BY <3>3, <4>1 DEF Ahead
      <3>. QED  BY <3>2, <3>3
    <2>3. Ahead(S, asc, u) # Ahead(S, asc, t)
      BY <2>1
    <2>4. Cardinality(Ahead(S, asc, u)) <= Cardinality(Ahead(S, asc, t))
             /\ Cardinality(Ahead(S, asc, u)) # Cardinality(Ahead(S, asc, t))
      BY <1>1, <1>2, <2>2, <2>3, FS_Subset
    <2>5. Ahead(S, asc, u) \in SUBSET S
      BY DEF Ahead
    <2>. QED  BY <1>1, <1>2, <2>4, <2>5
  <1>5. Cardinality(S) \in Nat
    BY <1>1
  <1>. QED  BY <1>1, <1>2, <1>3, <1>4, <1>5

(***************************************************************************)
(* Counting who comes before gives the members of a set the places 0, 1,   *)
(* 2, ..., each of them once: so as many as there are, n are among the     *)
(* first n.                                                                *)
(***************************************************************************)
LEMMA FrontSize ==
    ASSUME NEW S, IsFiniteSet(S), S \subseteq Nat, NEW asc \in BOOLEAN,
           NEW n \in Nat
    PROVE  Cardinality(Front(S, asc, n)) = Lesser(n, Cardinality(S))
  <1>. DEFINE c == Cardinality(S)
              place == [t \in S |-> Cardinality(Ahead(S, asc, t))]
              m == Lesser(n, c)
              F == Front(S, asc, n)
              short == [t \in F |-> place[t]]
  <1>1. c \in Nat /\ m \in Nat /\ m <= c /\ m <= n /\ (m = n \/ m = c)
    BY FS_CardinalityType DEF Lesser
  <1>2. place \in [S -> 0 .. c - 1]
    BY AheadFacts
  <1>3. ASSUME NEW t \in S, NEW u \in S, t # u
        PROVE  place[t] # place[u]
    <2>1. t \in Ahead(S, asc, u) \/ u \in Ahead(S, asc, t)
      BY <1>3 DEF Ahead
    <2>2. place[t] < place[u] \/ place[u] < place[t]
      BY <2>1, AheadFacts
    <2>3. place[t] \in Int /\ place[u] \in Int
      BY <1>2
    <2>. HIDE DEF place
    <2>. QED  BY <2>2, <2>3
  <1>4. place \in Injection(S, 0 .. c - 1)
    <2>. HIDE DEF place
    <2>. QED  BY <1>2, <1>3 DEF Injection, IsInjective
  <1>5. IsFiniteSet(0 .. c - 1) /\ Cardinality(0 .. c - 1) = c
    <2>. HIDE DEF c
    <2>. QED  BY <1>1, PlacesSize
  <1>6. place \in Surjection(S, 0 .. c - 1)
    <2>. HIDE DEF place
    <2>. QED  BY <1>4, <1>5, FS_Injection
  <1>7. short \in Bijection(F, 0 .. m - 1)
    <2>1. F = {t \in S : place[t] < n}
      BY DEF Front
    <2>. HIDE DEF F, place, c, m
    <2>2. \A t \in F : t \in S /\ place[t] \in 0 .. m - 1
      BY <1>1, <1>2, <2>1
    <2>3. ASSUME NEW k \in 0 .. m - 1
          PROVE  \E t \in F : place[t] = k
      <3>1. k \in 0 .. c - 1
        BY <1>1
      <3>2. PICK t \in S : place[t] = k
        BY <1>6, <3>1 DEF Surjection
      <3>. QED  BY <1>1, <2>1, <3>2
    <2>4. short \in [F -> 0 .. m - 1]
      BY <2>2
    <2>5. \A t \in F, u \in F : short[t] = short[u] => t = u
      BY <1>3, <2>2
    <2>6. \A k \in 0 .. m - 1 : \E t \in F : short[t] = k
      BY <2>3
    <2>. HIDE DEF short
    <2>. QED  BY <2>4, <2>5, <2>6 DEF Bijection, Injection, Surjection, IsInjective
  <1>8. IsFiniteSet(F)
    <2>1. F \in SUBSET S
      BY DEF Front
    <2>. QED  BY <2>1, FS_Subset
  <1>9. IsFiniteSet(0 .. m - 1) /\ Cardinality(0 .. m - 1) = m
    <2>. HIDE DEF m
    <2>. QED  BY <1>1, PlacesSize
  <1>10. ExistsBijection(F, 0 .. m - 1)
    BY <1>7 DEF ExistsBijection
  <1>. HIDE DEF F, m
  <1>11. Cardinality(F) = m
    BY <1>8, <1>9, <1>10, FS_Bijection
  <1>. QED  BY <1>11 DEF F, m

-----------------------------------------------------------------------------
(* Rows of one block in a page *)

\* What a request to block to is about.
Asked(to) == TxsIn(StartingBlock(info), to)

InBlock(rows, b) == {t \in rows : blockOf[t] = b}

\* The rows in blocks that the query's order puts before block b.
Before(rows, b) ==
    {t \in rows : IF query.order = "asc" THEN blockOf[t] < b ELSE blockOf[t] > b}

\* So many rows of block b are among the first n.
Taken(rows, b, n) ==
    Lesser(Cardinality(InBlock(rows, b)), Greater(0, n - Cardinality(Before(rows, b))))

\* The blocks of transactions are numbers, and a query has an order.
Shaped == blockOf \in [Tx -> Nat] /\ query \in Query

LEMMA RowsFinite ==
    ASSUME NEW rows \in SUBSET Tx
    PROVE  /\ IsFiniteSet(rows) /\ Cardinality(rows) \in Nat
           /\ \A T \in SUBSET rows : /\ IsFiniteSet(T) /\ Cardinality(T) \in Nat
                                     /\ Cardinality(T) <= Cardinality(rows)
  <1>1. IsFiniteSet(rows)
    BY FS_Subset, PagesAssumption
  <1>. QED  BY <1>1, FS_Subset, FS_CardinalityType

\* Rows before block b and rows of block b are apart.
LEMMA BeforeAndIn ==
    ASSUME Shaped, NEW rows \in SUBSET Tx, NEW b \in Int
    PROVE  /\ Before(rows, b) \in SUBSET rows /\ InBlock(rows, b) \in SUBSET rows
           /\ Cardinality(Before(rows, b)) \in Nat
           /\ Cardinality(InBlock(rows, b)) \in Nat
           /\ Cardinality(Before(rows, b)) + Cardinality(InBlock(rows, b))
                 <= Cardinality(rows)
           /\ Cardinality(Before(rows, b) \cup InBlock(rows, b))
                 = Cardinality(Before(rows, b)) + Cardinality(InBlock(rows, b))
  <1>. DEFINE A == Before(rows, b)
              B == InBlock(rows, b)
  <1>1. A \in SUBSET rows /\ B \in SUBSET rows
    BY DEF Before, InBlock
  <1>2. \A t \in rows : blockOf[t] \in Int
    BY DEF Shaped
  <1>3. A \cap B = {}
    <2>1. ASSUME NEW t \in A, t \in B
          PROVE  FALSE
      BY <1>2, <2>1 DEF Before, InBlock
    <2>. QED  BY <2>1
  <1>. HIDE DEF A, B
  <1>4. Cardinality(A \cup B) = Cardinality(A) + Cardinality(B) - Cardinality(A \cap B)
    BY <1>1, RowsFinite, FS_Union
  <1>5. Cardinality(A) \in Nat /\ Cardinality(B) \in Nat
    BY <1>1, RowsFinite
  <1>6. Cardinality(A \cup B) = Cardinality(A) + Cardinality(B)
    BY <1>3, <1>4, <1>5, FS_EmptySet
  <1>7. Cardinality(A \cup B) <= Cardinality(rows)
    BY <1>1, RowsFinite
  <1>. QED  BY <1>1, <1>5, <1>6, <1>7 DEF A, B

(***************************************************************************)
(* Whatever way ties fall, the first n rows hold the same number of rows   *)
(* of each block.                                                          *)
(***************************************************************************)
LEMMA LeadingTakes ==
    ASSUME Shaped, NEW rows \in SUBSET Tx, NEW n \in Nat, NEW b \in Int,
           NEW P \in Leading(rows, n)
    PROVE  Cardinality(InBlock(P, b)) = Taken(rows, b, n)
  <1>. DEFINE A == Before(rows, b)
              B == InBlock(rows, b)
              PB == InBlock(P, b)
  <1>1. P \in SUBSET rows /\ Cardinality(P) = Lesser(n, Cardinality(rows))
    BY DEF Leading
  <1>2. \A t \in rows : blockOf[t] \in Int
    BY DEF Shaped
  <1>3. PB = P \cap B /\ B \in SUBSET rows /\ A \in SUBSET rows
    BY <1>1 DEF InBlock, Before
  \* Who comes before a row of P, or with it, is in P or comes with it.
  <1>4. ASSUME NEW t \in P, NEW u \in A, t \notin A
        PROVE  u \in P
    BY <1>1, <1>2, <1>4 DEF Leading, Before
  <1>5. ASSUME NEW t \in P, NEW u \in A \cup B, t \notin A \cup B
        PROVE  u \in P
    BY <1>1, <1>2, <1>5 DEF Leading, Before, InBlock
  <1>6. /\ Cardinality(A) \in Nat /\ Cardinality(B) \in Nat
        /\ Cardinality(A) + Cardinality(B) <= Cardinality(rows)
        /\ Cardinality(A \cup B) = Cardinality(A) + Cardinality(B)
    BY BeforeAndIn
  <1>7. A \cap B = {}
    <2>1. ASSUME NEW t \in A, t \in B
          PROVE  FALSE
      BY <1>2, <2>1 DEF Before, InBlock
    <2>. QED  BY <2>1
  <1>. HIDE DEF A, B, PB
  <1>8. /\ Cardinality(rows) \in Nat /\ Cardinality(P) \in Nat /\ Cardinality(PB) \in Nat
        /\ IsFiniteSet(A) /\ IsFiniteSet(B) /\ IsFiniteSet(P) /\ IsFiniteSet(PB)
        /\ Cardinality(PB) <= Cardinality(B)
    BY <1>1, <1>3, RowsFinite
  <1>9. \/ Cardinality(P) = n
        \/ Cardinality(P) = Cardinality(rows) /\ Cardinality(rows) < n
    BY <1>1, <1>8 DEF Lesser
  <1>10. Cardinality(P) <= n
    BY <1>8, <1>9
  <1>11. Cardinality(PB) = Lesser(Cardinality(B), Greater(0, n - Cardinality(A)))
    <2>1. CASE A \cup B \subseteq P
      <3>1. PB = B
        BY <1>3, <2>1
      <3>2. Cardinality(A \cup B) <= Cardinality(P)
        BY <2>1, <1>8, FS_Subset
      <3>3. Cardinality(B) <= n - Cardinality(A)
        BY <1>6, <1>8, <1>10, <3>2
      <3>. QED  BY <1>6, <3>1, <3>3 DEF Lesser, Greater
    <2>2. CASE P \subseteq A \cup B /\ A \subseteq P
      <3>1. P = A \cup PB /\ A \cap PB = {}
        BY <1>3, <1>7, <2>2
      <3>2. Cardinality(P) = Cardinality(A) + Cardinality(PB) - Cardinality(A \cap PB)
        BY <1>8, <3>1, FS_Union
      <3>3. Cardinality(A \cap PB) = 0
        BY <3>1, FS_EmptySet
      <3>4. Cardinality(P) = Cardinality(A) + Cardinality(PB)
        BY <1>6, <1>8, <3>2, <3>3
      <3>. QED  BY <1>6, <1>8, <1>9, <3>4 DEF Lesser, Greater
    <2>3. CASE P \subseteq A
      <3>1. PB = {}
        BY <1>3, <1>7, <2>3
      <3>2. Cardinality(PB) = 0
        BY <3>1, FS_EmptySet
      <3>3. Cardinality(P) <= Cardinality(A)
        BY <1>8, <2>3, FS_Subset
      <3>. QED  BY <1>6, <1>8, <1>9, <3>2, <3>3 DEF Lesser, Greater
    <2>. QED  BY <1>4, <1>5, <2>1, <2>2, <2>3
  <1>. QED  BY <1>11 DEF Taken, A, B, PB

\* Where nothing is taken nothing is counted, and taking more takes no less.
LEMMA TakenBounds ==
    ASSUME Shaped, NEW rows \in SUBSET Tx, NEW b \in Int,
           NEW m \in Nat, NEW n \in Nat, m <= n
    PROVE  /\ Taken(rows, b, 0) = 0
           /\ Taken(rows, b, n) \in Nat
           /\ Taken(rows, b, m) <= Taken(rows, b, n)
           /\ Taken(rows, b, n) <= Cardinality(InBlock(rows, b))
           /\ Cardinality(rows) <= n => Taken(rows, b, n) = Cardinality(InBlock(rows, b))
  <1>1. PICK c \in Nat, d \in Nat, e \in Nat :
           /\ c = Cardinality(Before(rows, b))
           /\ d = Cardinality(InBlock(rows, b))
           /\ e = Cardinality(rows)
           /\ c + d <= e
    <2>1. /\ Cardinality(Before(rows, b)) \in Nat
          /\ Cardinality(InBlock(rows, b)) \in Nat
          /\ Cardinality(Before(rows, b)) + Cardinality(InBlock(rows, b))
                <= Cardinality(rows)
      BY BeforeAndIn
    <2>2. Cardinality(rows) \in Nat
      BY RowsFinite
    <2>. QED  BY <2>1, <2>2
  <1>2. \A k \in Nat : Taken(rows, b, k) = Lesser(d, Greater(0, k - c))
    BY <1>1 DEF Taken
  <1>. QED  BY <1>1, <1>2 DEF Lesser, Greater

(***************************************************************************)
(* A page holds of each block what the first pages hold and the ones       *)
(* before it do not.                                                       *)
(***************************************************************************)
LEMMA PageTakes ==
    ASSUME Shaped, NEW rows \in SUBSET Tx, NEW page \in Nat \ {0}, NEW b \in Int,
           NEW txs \in DatabasePages(rows, page)
    PROVE  /\ txs \in SUBSET rows
           /\ Cardinality(InBlock(txs, b))
                 = Taken(rows, b, page * Limit) - Taken(rows, b, (page - 1) * Limit)
  <1>1. PICK P \in Leading(rows, (page - 1) * Limit), Q \in Leading(rows, page * Limit) :
           P \subseteq Q /\ txs = Q \ P
    BY DEF DatabasePages
  <1>2. (page - 1) * Limit \in Nat /\ page * Limit \in Nat
    BY PagesAssumption
  <1>3. /\ Cardinality(InBlock(P, b)) = Taken(rows, b, (page - 1) * Limit)
        /\ Cardinality(InBlock(Q, b)) = Taken(rows, b, page * Limit)
    BY <1>2, LeadingTakes
  <1>4. P \in SUBSET rows /\ Q \in SUBSET rows
    BY DEF Leading
  <1>5. /\ InBlock(txs, b) = InBlock(Q, b) \ InBlock(P, b)
        /\ InBlock(Q, b) \cap InBlock(P, b) = InBlock(P, b)
    BY <1>1 DEF InBlock
  <1>6. InBlock(Q, b) \in SUBSET rows
    BY <1>4 DEF InBlock
  <1>7. IsFiniteSet(InBlock(Q, b))
    BY <1>6, RowsFinite
  <1>8. Cardinality(InBlock(txs, b))
           = Cardinality(InBlock(Q, b)) - Cardinality(InBlock(P, b))
    BY <1>5, <1>7, FS_Difference
  <1>. QED  BY <1>1, <1>3, <1>4, <1>8

\* Behind a page that is not full there are no rows left.
LEMMA ShortPageIsLast ==
    ASSUME NEW rows \in SUBSET Tx, NEW page \in Nat \ {0},
           NEW txs \in DatabasePages(rows, page), Cardinality(txs) # Limit
    PROVE  Cardinality(rows) <= page * Limit
  <1>1. PICK P \in Leading(rows, (page - 1) * Limit), Q \in Leading(rows, page * Limit) :
           P \subseteq Q /\ txs = Q \ P
    BY DEF DatabasePages
  <1>2. PICK m \in Nat, n \in Nat : /\ m = (page - 1) * Limit /\ n = page * Limit
                                    /\ n = m + Limit
    BY PagesAssumption
  <1>3. /\ P \in SUBSET rows /\ Cardinality(P) = Lesser(m, Cardinality(rows))
        /\ Q \in SUBSET rows /\ Cardinality(Q) = Lesser(n, Cardinality(rows))
    BY <1>2 DEF Leading
  <1>4. IsFiniteSet(Q) /\ Q \cap P = P
    BY <1>1, <1>3, RowsFinite
  <1>5. Cardinality(txs) = Cardinality(Q) - Cardinality(P)
    BY <1>1, <1>4, FS_Difference
  <1>6. Limit \in Nat /\ Cardinality(rows) \in Nat
    BY PagesAssumption, RowsFinite
  <1>7. Cardinality(rows) <= n
    BY <1>2, <1>3, <1>5, <1>6 DEF Lesser
  <1>. QED  BY <1>2, <1>7

(***************************************************************************)
(* A page in the order of the chain is one of those the database may       *)
(* answer, whose order is by block only.                                   *)
(***************************************************************************)
LEMMA FrontLeads ==
    ASSUME Shaped, Placed(blockOf), NEW rows \in SUBSET Tx, NEW n \in Nat
    PROVE  Front(rows, query.order = "asc", n) \in Leading(rows, n)
  <1>. DEFINE asc == query.order = "asc"
              F == Front(rows, asc, n)
  <1>1. IsFiniteSet(rows) /\ rows \subseteq Nat /\ asc \in BOOLEAN
    BY RowsFinite, PagesAssumption
  <1>2. F \in SUBSET rows
    BY DEF Front
  <1>3. Cardinality(F) = Lesser(n, Cardinality(rows))
    <2>. HIDE DEF asc
    <2>. QED  BY <1>1, FrontSize
  <1>4. ASSUME NEW t \in F, NEW u \in rows \ F
        PROVE  IF asc THEN t < u ELSE t > u
    <2>1. /\ t \in rows /\ t \in Int /\ u \in Int
          /\ Cardinality(Ahead(rows, asc, t)) < n
          /\ ~ (Cardinality(Ahead(rows, asc, u)) < n)
      BY <1>1, <1>2 DEF Front
    <2>2. Cardinality(Ahead(rows, asc, t)) \in Int /\ Cardinality(Ahead(rows, asc, u)) \in Int
      <3>1. t \in rows /\ u \in rows
        BY <1>2
      <3>. HIDE DEF asc, F
      <3>. QED  BY <1>1, <3>1, AheadFacts
    <2>3. u \notin Ahead(rows, asc, t) /\ u # t
      <3>1. u # t
        BY <1>4
      <3>2. ASSUME u \in Ahead(rows, asc, t) PROVE FALSE
        <4>1. Cardinality(Ahead(rows, asc, u)) < Cardinality(Ahead(rows, asc, t))
          <5>. HIDE DEF asc
          <5>. QED  BY <1>1, <1>2, <3>2, AheadFacts
        <4>. QED  BY <2>1, <2>2, <4>1
      <3>. QED  BY <3>1, <3>2
    <2>. QED  BY <2>1, <2>3 DEF Ahead
  <1>5. ASSUME NEW t \in F, NEW u \in rows \ F
        PROVE  IF asc THEN blockOf[t] <= blockOf[u] ELSE blockOf[t] >= blockOf[u]
    <2>1. /\ t \in Tx /\ u \in Tx
          /\ t \in Int /\ u \in Int
      <3>1. t \in rows /\ u \in rows
        BY <1>2
      <3>. QED  BY <3>1, PagesAssumption
    <2>2. \A x \in Tx, y \in Tx : x < y => blockOf[x] <= blockOf[y]
      BY DEF Placed
    <2>3. blockOf[t] \in Int /\ blockOf[u] \in Int
      BY <2>1 DEF Shaped
    <2>. QED  BY <1>4, <2>1, <2>2, <2>3
  <1>. QED  BY <1>2, <1>3, <1>5 DEF Leading

LEMMA EtherscanIsAPage ==
    ASSUME Shaped, Placed(blockOf), NEW rows \in SUBSET Tx, NEW page \in Nat \ {0}
    PROVE  EtherscanPage(rows, page) \in DatabasePages(rows, page)
  <1>. DEFINE asc == query.order = "asc"
              m == (page - 1) * Limit
              n == page * Limit
  <1>1. m \in Nat /\ n \in Nat /\ m <= n
    BY PagesAssumption
  <1>2. Front(rows, asc, m) \in Leading(rows, m) /\ Front(rows, asc, n) \in Leading(rows, n)
    BY <1>1, FrontLeads
  <1>3. \A t \in rows : Cardinality(Ahead(rows, asc, t)) \in Int
    <2>1. IsFiniteSet(rows) /\ rows \subseteq Nat /\ asc \in BOOLEAN
      BY RowsFinite, PagesAssumption
    <2>. HIDE DEF asc
    <2>. QED  BY <2>1, AheadFacts
  <1>4. EtherscanPage(rows, page)
           = {t \in rows : Cardinality(Ahead(rows, asc, t)) \in m .. n - 1}
    BY DEF EtherscanPage, PageSlots, Ahead
  <1>. HIDE DEF m, n
  <1>5. EtherscanPage(rows, page) = Front(rows, asc, n) \ Front(rows, asc, m)
    BY <1>1, <1>3, <1>4 DEF Front
  <1>6. Front(rows, asc, m) \subseteq Front(rows, asc, n)
    BY <1>1, <1>3 DEF Front
  <1>. QED  BY <1>2, <1>5, <1>6 DEF DatabasePages, m, n

-----------------------------------------------------------------------------
(* The search for the creation block *)

(***************************************************************************)
(* The contract's creation is at or above low, unless a call has thrown,   *)
(* and at or below the last block found with code, which high is right     *)
(* below of; before one is found, high is still where it was.              *)
(***************************************************************************)
Closing ==
    /\ low \in 0 .. head + 1 /\ high \in -1 .. head
    /\ creationBlock \in {0} \cup created .. head
    /\ ~ faulted => low <= created
    /\ high = head \/ (creationBlock = high + 1 /\ created <= creationBlock)

SearchInv ==
    /\ head \in Nat
    /\ created \in 0 .. head \cup {NoBlock}
    /\ faulted \in BOOLEAN /\ (faulted => Faults)
    /\ pc \in {"code", "latest", "search", "done"}
    /\ pc \in {"latest", "search"} => created # NoBlock
    /\ pc = "search" => Closing
    /\ pc # "search" => low = 0 /\ high = 0 /\ creationBlock = 0
    /\ pc # "done" => info = Unknown
    /\ pc = "done" => info \in Discoverable(created, head, faulted)

LEMMA MidIsBetween ==
    ASSUME NEW l \in Nat, NEW h \in Nat, l <= h
    PROVE  (l + h) \div 2 \in Nat /\ l <= (l + h) \div 2 /\ (l + h) \div 2 <= h
  <1>1. PICK q \in Nat : q = (l + h) \div 2 /\ q * 2 <= l + h /\ l + h < q * 2 + 2
    OBVIOUS
  <1>2. l <= q /\ q <= h
    BY <1>1
  <1>. QED  BY <1>1, <1>2

\* What is found when the bounds have met is the creation, or a call has thrown.
LEMMA SearchEnds ==
    ASSUME SearchInv, Answer
    PROVE  SearchInv'
  <1>1. /\ pc = "search" /\ high < low /\ low \in Int /\ high \in Int
        /\ created \in 0 .. head /\ Closing
        /\ info' = Contract(creationBlock) /\ pc' = "done"
        /\ low' = 0 /\ high' = 0 /\ creationBlock' = 0
        /\ UNCHANGED <<created, head, faulted>>
    BY DEF SearchInv, Answer, Searching, Closing, NoBlock
  <1>2. HasCode(created, head)
    BY <1>1 DEF HasCode, NoBlock, SearchInv
  <1>3. ASSUME ~ faulted
        PROVE  creationBlock = created
    BY <1>1, <1>3 DEF Closing, SearchInv
  <1>4. Contract(creationBlock) \in Discoverable(created, head, faulted)
    <2>1. CASE ~ faulted
      BY <1>2, <1>3, <2>1 DEF Discoverable, Truth
    <2>2. CASE faulted
      BY <1>1, <1>2, <2>2 DEF Discoverable, Closing
    <2>. QED  BY <2>1, <2>2
  <1>. QED  BY <1>1, <1>4 DEF SearchInv

\* A look at the middle brings the bounds closer, and past the creation on
\* neither side.
LEMMA SearchCloses ==
    ASSUME SearchInv, NoCodeAtMid \/ CodeAtMid \/ GetCodeFails
    PROVE  SearchInv'
  <1>1. /\ pc = "search" /\ low <= high /\ low \in Nat /\ high \in Nat
        /\ created \in 0 .. head /\ head \in Nat /\ Closing
        /\ UNCHANGED <<created, head, info, pc>>
    BY DEF SearchInv, Closing, NoBlock, NoCodeAtMid, CodeAtMid, GetCodeFails, Searching
  <1>2. PICK mid \in Nat : mid = (low + high) \div 2 /\ low <= mid /\ mid <= high
    BY <1>1, MidIsBetween
  <1>3. CASE NoCodeAtMid
    <2>1. low' = mid + 1 /\ mid < created /\ UNCHANGED <<high, creationBlock, faulted>>
      BY <1>1, <1>2, <1>3 DEF NoCodeAtMid, Mid, HasCode, NoBlock
    <2>2. Closing'
      BY <1>1, <1>2, <2>1 DEF Closing
    <2>. QED  BY <1>1, <2>1, <2>2 DEF SearchInv
  <1>4. CASE CodeAtMid
    <2>1. creationBlock' = mid /\ high' = mid - 1 /\ created <= mid /\ UNCHANGED <<low, faulted>>
      BY <1>1, <1>2, <1>4 DEF CodeAtMid, Mid, HasCode
    <2>2. Closing'
      BY <1>1, <1>2, <2>1 DEF Closing
    <2>. QED  BY <1>1, <2>1, <2>2 DEF SearchInv
  <1>5. CASE GetCodeFails
    <2>1. low' = mid + 1 /\ faulted' = TRUE /\ Faults /\ UNCHANGED <<high, creationBlock>>
      BY <1>2, <1>5 DEF GetCodeFails, Mid
    <2>2. Closing'
      BY <1>1, <1>2, <2>1 DEF Closing
    <2>. QED  BY <1>1, <2>1, <2>2 DEF SearchInv
  <1>. QED  BY <1>3, <1>4, <1>5

LEMMA SearchKeeps ==
    ASSUME SearchInv, [SearchNext]_searchVars
    PROVE  SearchInv'
  <1>1. CASE CheckCode
    <2>1. /\ pc = "code" /\ UNCHANGED <<created, head, low, high, creationBlock, faulted>>
          /\ IF HasCode(created, head) THEN pc' = "latest" /\ info' = info
                                       ELSE pc' = "done" /\ info' = EOA
      BY <1>1 DEF CheckCode
    <2>2. CASE HasCode(created, head)
      BY <2>1, <2>2 DEF SearchInv, HasCode
    <2>3. CASE ~ HasCode(created, head)
      BY <2>1, <2>3 DEF SearchInv, Discoverable, Truth
    <2>. QED  BY <2>2, <2>3
  <1>2. CASE StartSearch
    <2>1. /\ pc = "latest" /\ pc' = "search"
          /\ low' = 0 /\ high' = head /\ creationBlock' = 0
          /\ UNCHANGED <<created, head, info, faulted>>
      BY <1>2 DEF StartSearch
    <2>2. created \in 0 .. head
      BY <2>1 DEF SearchInv
    <2>3. Closing'
      BY <2>1, <2>2 DEF Closing, SearchInv
    <2>. QED  BY <2>1, <2>3 DEF SearchInv
  <1>3. CASE DetectionFails
    <2>1. EOA \in Discoverable(created, head, TRUE)
      BY DEF Discoverable, Truth
    <2>2. /\ info' = EOA /\ faulted' = TRUE /\ pc' = "done" /\ Faults /\ pc # "search"
          /\ UNCHANGED <<created, head, low, high, creationBlock>>
      BY <1>3 DEF DetectionFails
    <2>. QED  BY <2>1, <2>2 DEF SearchInv
  <1>4. CASE UNCHANGED searchVars
    BY <1>4 DEF SearchInv, Closing, searchVars
  <1>. QED  BY <1>1, <1>2, <1>3, <1>4, SearchEnds, SearchCloses
            DEF SearchNext, SearchStep

\* The chain goes on behind the answer.
LEMMA NewBlockKeepsAnswer ==
    ASSUME SearchInv, NewBlock
    PROVE  SearchInv'
  <1>1. /\ pc = "done" /\ head' = head + 1 /\ head \in Nat
        /\ UNCHANGED <<created, low, high, creationBlock, info, faulted, pc>>
        /\ created \in 0 .. head \cup {NoBlock}
    BY DEF NewBlock, SearchInv
  <1>2. HasCode(created, head') <=> HasCode(created, head)
    BY <1>1 DEF HasCode, NoBlock
  <1>3. created .. head \subseteq created .. head'
    BY <1>1 DEF NoBlock
  <1>4. Discoverable(created, head, faulted) \subseteq Discoverable(created, head', faulted)
    BY <1>2, <1>3 DEF Discoverable, Truth
  <1>. QED  BY <1>1, <1>4 DEF SearchInv, NoBlock

\* What the answer of a search is like.
LEMMA AnswerShape ==
    ASSUME SearchInv
    PROVE  /\ SearchTypeOK
           /\ pc = "done" => /\ info \in Info
                             /\ info.creationBlock \in 0 .. head
                             /\ StartingBlock(info) \in 0 .. head
  <1>1. ASSUME pc = "done"
        PROVE  info \in Info /\ info.creationBlock \in 0 .. head
    <2>1. \/ info = EOA
          \/ \E b \in 0 .. head : info = Contract(b)
      <3>1. head \in Nat /\ info \in Discoverable(created, head, faulted)
        BY <1>1 DEF SearchInv
      <3>2. HasCode(created, head) => created \in 0 .. head
        BY DEF SearchInv, HasCode, NoBlock
      <3>3. 0 \in 0 .. head /\ \A b \in created .. head : HasCode(created, head) => b \in 0 .. head
        BY <3>1, <3>2
      <3>4. CASE info = Truth(created, head)
        BY <3>2, <3>4 DEF Truth
      <3>5. CASE info # Truth(created, head)
        BY <3>1, <3>2, <3>3, <3>5 DEF Discoverable
      <3>. QED  BY <3>4, <3>5
    <2>2. head \in Nat
      BY DEF SearchInv
    <2>3. EOA \in Info /\ EOA.creationBlock \in 0 .. head
      BY <2>2 DEF Info, EOA
    <2>4. ASSUME NEW b \in 0 .. head
          PROVE  Contract(b) \in Info /\ Contract(b).creationBlock = b
      BY DEF Info, Contract
    <2>. QED  BY <2>1, <2>3, <2>4
  <1>2. pc = "done" => StartingBlock(info) \in 0 .. head
    BY <1>1 DEF StartingBlock, SearchInv
  <1>3. /\ low \in 0 .. head + 1 /\ high \in -1 .. head /\ creationBlock \in 0 .. head
        /\ created \in Nat \cup {NoBlock}
    BY DEF SearchInv, Closing, NoBlock
  <1>4. SearchTypeOK
    BY <1>1, <1>3 DEF SearchTypeOK, SearchInv
  <1>. QED  BY <1>1, <1>2, <1>4

-----------------------------------------------------------------------------
(* The inductive invariant *)

\* A request is on its way.
InFlight == walk.step \in {"cache", "database", "etherscan", "half", "fallback"}

\* The end block of the page on its way, or of the next one if it were asked now.
Target == IF InFlight THEN walk.to ELSE ClampTo

\* The rows of block b that requests are about.
Own(b) == {t \in Tx : blockOf[t] = b /\ StartingBlock(info) <= b}

\* The client has got of block b what the pages so far hold, by today's count.
\* Against the order of the chain new blocks push rows behind those pages.
Reached(b) ==
    LET taken == Taken(Asked(Target), b, (walk.page - 1) * Limit)
    IN  IF query.order = "asc" THEN Delivered(b) = taken ELSE Delivered(b) >= taken

\* Who searches does not read, and nothing is known of the address before.
SearchFirst ==
    pc # "done" => walk = NewWalk /\ indexed = {} /\ wanted = {} /\ cache = {}

WalkInv ==
    /\ InFlight => pc = "done" /\ walk.page <= MaxPage /\ walk.to <= ClampTo
    /\ walk.first = NoBlock =>
          ~ At("end") /\ walk.page = 1 /\ walk.seen = [t \in Tx |-> 0]
    /\ ~ At("end") /\ walk.first # NoBlock => walk.first <= Target
    /\ ~ walk.doubt /\ ~ At("end") =>
          \A b \in 0 .. Target : (walk.first # NoBlock => b <= walk.first) => Reached(b)
    /\ ~ walk.doubt /\ At("end") =>
          \A b \in 0 .. walk.first :
             IF query.order = "asc" THEN Delivered(b) = Cardinality(Own(b))
                                    ELSE Delivered(b) >= Cardinality(Own(b))

\* What the coverage names is stored, as far as requests look at it.
StoreInv ==
    /\ \A b \in indexed : StartingBlock(info) <= b => TxsIn(b, b) \subseteq stored
    /\ At("database") => StartingBlock(info) .. walk.to \subseteq indexed

\* A complete reply of the full range in the cache is a page as good as any.
CacheInv ==
    \A e \in cache : ~ e.reply.incomplete /\ ~ e.reply.half =>
        e.reply.txs \in DatabasePages(Asked(e.key.to), e.key.page)

Inv ==
    /\ TypeOK
    /\ SearchInv
    /\ Placed(blockOf)
    /\ SearchFirst
    /\ WalkInv
    /\ StoreInv
    /\ CacheInv

-----------------------------------------------------------------------------
(* What the client has got *)

\* The copies of a row the client got, numbered: Delivered counts them.
Copies(t) == {t} \X (1 .. walk.seen[t])

LEMMA DeliveredFinite ==
    ASSUME walk.seen \in [Tx -> Nat], NEW b
    PROVE  /\ IsFiniteSet(UNION {Copies(t) : t \in TxsIn(b, b)})
           /\ Delivered(b) = Cardinality(UNION {Copies(t) : t \in TxsIn(b, b)})
           /\ Delivered(b) \in Nat
  <1>. DEFINE S == TxsIn(b, b)
              T == {Copies(t) : t \in S}
              f == [t \in S |-> Copies(t)]
  <1>1. IsFiniteSet(S) /\ S \subseteq Tx
    BY FS_Subset, PagesAssumption DEF TxsIn
  <1>2. IsFiniteSet(T)
    <2>. HIDE DEF S
    <2>1. f \in Surjection(S, T)
      <3>1. f \in [S -> T]
        OBVIOUS
      <3>2. ASSUME NEW U \in T
            PROVE  \E t \in S : f[t] = U
        <4>1. PICK t \in S : U = Copies(t)
          OBVIOUS
        <4>. QED  BY <4>1
      <3>. HIDE DEF T, f
      <3>. QED  BY <3>1, <3>2 DEF Surjection
    <2>. HIDE DEF T, f
    <2>. QED  BY <1>1, <2>1, FS_Surjection
  <1>3. ASSUME NEW t \in S
        PROVE  IsFiniteSet(Copies(t))
    <2>1. PICK n \in Int : n = walk.seen[t]
      BY <1>1
    <2>2. IsFiniteSet(1 .. n)
      BY FS_Interval
    <2>3. IsFiniteSet({t})
      BY FS_Singleton
    <2>. QED  BY <2>1, <2>2, <2>3, FS_Product DEF Copies
  <1>4. IsFiniteSet(UNION T)
    <2>1. \A U \in T : IsFiniteSet(U)
      BY <1>3
    <2>. HIDE DEF T
    <2>. QED  BY <1>2, <2>1, FS_UNION
  <1>5. Delivered(b) = Cardinality(UNION T)
    BY DEF Delivered, Copies
  <1>. QED  BY <1>4, <1>5, FS_CardinalityType

LEMMA NothingDelivered ==
    ASSUME walk.seen = [t \in Tx |-> 0], NEW b
    PROVE  Delivered(b) = 0
  <1>1. \A t \in TxsIn(b, b) : {t} \X (1 .. walk.seen[t]) = {}
    BY DEF TxsIn
  <1>2. UNION {{t} \X (1 .. walk.seen[t]) : t \in TxsIn(b, b)} = {}
    BY <1>1
  <1>. QED  BY <1>2, FS_EmptySet DEF Delivered

\* A page adds as many rows of a block as it holds.
LEMMA PageDelivered ==
    ASSUME walk.seen \in [Tx -> Nat], NEW txs \in SUBSET Tx, NEW b \in Int, Shaped,
           walk'.seen = [t \in Tx |-> walk.seen[t] + IF t \in txs THEN 1 ELSE 0],
           blockOf' = blockOf
    PROVE  Delivered(b)' = Delivered(b) + Cardinality(InBlock(txs, b))
  <1>. DEFINE S == TxsIn(b, b)
              B == InBlock(txs, b)
              U == UNION {Copies(t) : t \in S}
              f == [t \in B |-> <<t, walk.seen[t] + 1>>]
              N == {<<t, walk.seen[t] + 1>> : t \in B}
  <1>1. S = {t \in Tx : blockOf[t] = b} /\ TxsIn(b, b)' = S
    BY DEF TxsIn, Shaped
  <1>2. B \subseteq S /\ B = S \cap txs /\ B \in SUBSET Tx
    BY <1>1 DEF InBlock
  <1>3. \A t \in S : walk.seen[t] \in Nat
    BY <1>1
  <1>4. \A t \in S : walk'.seen[t] = walk.seen[t] + IF t \in B THEN 1 ELSE 0
    BY <1>1, <1>2
  <1>. HIDE DEF S, B
  <1>5. Delivered(b)' = Cardinality(U \cup N)
    <2>1. Delivered(b)' = Cardinality(UNION {{t} \X (1 .. walk'.seen[t]) : t \in S})
      BY <1>1 DEF Delivered
    <2>2. \A t \in S : {t} \X (1 .. walk'.seen[t])
                          = Copies(t) \cup IF t \in B THEN {<<t, walk.seen[t] + 1>>} ELSE {}
      <3>1. ASSUME NEW t \in S
            PROVE  {t} \X (1 .. walk'.seen[t])
                      = Copies(t) \cup IF t \in B THEN {<<t, walk.seen[t] + 1>>} ELSE {}
        <4>1. CASE t \in B
          <5>1. 1 .. walk'.seen[t] = (1 .. walk.seen[t]) \cup {walk.seen[t] + 1}
            BY <1>3, <1>4, <4>1
          <5>. QED  BY <4>1, <5>1 DEF Copies
        <4>2. CASE t \notin B
          <5>1. walk'.seen[t] = walk.seen[t]
            BY <1>3, <1>4, <4>2
          <5>. QED  BY <4>2, <5>1 DEF Copies
        <4>. QED  BY <4>1, <4>2
      <3>. QED  BY <3>1
    <2>3. UNION {{t} \X (1 .. walk'.seen[t]) : t \in S} = U \cup N
      <3>1. UNION {{t} \X (1 .. walk'.seen[t]) : t \in S}
               = UNION {Copies(t) \cup IF t \in B THEN {<<t, walk.seen[t] + 1>>} ELSE {} : t \in S}
        BY <2>2
      <3>2. UNION {Copies(t) \cup IF t \in B THEN {<<t, walk.seen[t] + 1>>} ELSE {} : t \in S}
               = U \cup N
        BY <1>2
      <3>. QED  BY <3>1, <3>2
    <2>. QED  BY <2>1, <2>3
  <1>6. U \cap N = {}
    BY <1>2, <1>3 DEF Copies
  <1>7. IsFiniteSet(U) /\ Delivered(b) = Cardinality(U)
    BY DeliveredFinite DEF S
  <1>8. IsFiniteSet(N) /\ Cardinality(N) = Cardinality(B)
    <2>1. f \in Bijection(B, N)
      <3>1. f \in [B -> N] /\ (\A t \in B, u \in B : f[t] = f[u] => t = u)
        OBVIOUS
      <3>2. \A n \in N : \E t \in B : f[t] = n
        OBVIOUS
      <3>. HIDE DEF f, N
      <3>. QED  BY <3>1, <3>2 DEF Bijection, Injection, Surjection, IsInjective
    <2>2. IsFiniteSet(B)
      BY <1>2, RowsFinite
    <2>3. ExistsBijection(B, N)
      BY <2>1 DEF ExistsBijection
    <2>. HIDE DEF N
    <2>. QED  BY <2>2, <2>3, FS_Bijection
  <1>9. Cardinality(U \cap N) = 0
    BY <1>6, FS_EmptySet
  <1>10. /\ Cardinality(U) \in Nat /\ Cardinality(N) \in Nat
         /\ Cardinality(U \cup N) = Cardinality(U) + Cardinality(N) - Cardinality(U \cap N)
    <2>. HIDE DEF U, N
    <2>. QED  BY <1>7, <1>8, FS_Union, FS_CardinalityType
  <1>11. Cardinality(U \cup N) = Cardinality(U) + Cardinality(N)
    <2>. HIDE DEF U, N
    <2>. QED  BY <1>9, <1>10
  <1>. QED  BY <1>5, <1>7, <1>8, <1>11 DEF B

-----------------------------------------------------------------------------
(* Requests about the same blocks, now and later *)

LEMMA ShapedHolds ==
    ASSUME TypeOK
    PROVE  Shaped /\ walk.seen \in [Tx -> Nat] /\ \A to : Asked(to) \in SUBSET Tx
  BY DEF TypeOK, Shaped, Asked, TxsIn

\* What a request is about depends on the address and its transactions only.
LEMMA SameRows ==
    ASSUME UNCHANGED <<info, blockOf, query>>
    PROVE  /\ \A to : Asked(to)' = Asked(to)
           /\ \A rows, page : DatabasePages(rows, page)' = DatabasePages(rows, page)
           /\ \A rows, b, n : Taken(rows, b, n)' = Taken(rows, b, n)
           /\ \A b : Own(b)' = Own(b) /\ TxsIn(b, b)' = TxsIn(b, b)
           /\ (query.order = "asc")' <=> query.order = "asc"
  <1>1. \A rows, n : Leading(rows, n)' = Leading(rows, n)
    BY DEF Leading
  <1>2. \A rows, page : DatabasePages(rows, page)' = DatabasePages(rows, page)
    BY <1>1 DEF DatabasePages
  <1>3. \A to : Asked(to)' = Asked(to)
    BY DEF Asked, TxsIn
  <1>4. \A rows, b, n : Taken(rows, b, n)' = Taken(rows, b, n)
    BY DEF Taken, InBlock, Before
  <1>5. \A b : Own(b)' = Own(b) /\ TxsIn(b, b)' = TxsIn(b, b)
    BY DEF Own, TxsIn
  <1>. QED  BY <1>2, <1>3, <1>4, <1>5

LEMMA OwnIsAsked ==
    ASSUME Shaped, NEW to \in Int, NEW b \in Int, b <= to, StartingBlock(info) \in Int
    PROVE  InBlock(Asked(to), b) = Own(b)
  <1>1. \A t \in Tx : blockOf[t] \in Int
    BY DEF Shaped
  <1>. QED  BY <1>1 DEF InBlock, Asked, TxsIn, Own

(***************************************************************************)
(* When the chain has grown the first rows hold as many of an old block in *)
(* the order of the chain, and no more of it against that order.           *)
(***************************************************************************)
LEMMA TakenLater ==
    ASSUME Shaped, StartingBlock(info) \in Int, NEW to \in Int, NEW later \in Int, to <= later,
           NEW b \in Int, b <= to, NEW n \in Nat
    PROVE  /\ Taken(Asked(to), b, n) \in Nat /\ Taken(Asked(later), b, n) \in Nat
           /\ Taken(Asked(later), b, n) <= Taken(Asked(to), b, n)
           /\ query.order = "asc" => Taken(Asked(later), b, n) = Taken(Asked(to), b, n)
  <1>1. \A t \in Tx : blockOf[t] \in Int
    BY DEF Shaped
  <1>2. Asked(to) \in SUBSET Tx /\ Asked(later) \in SUBSET Tx
    BY DEF Asked, TxsIn
  <1>3. InBlock(Asked(to), b) = Own(b) /\ InBlock(Asked(later), b) = Own(b)
    BY OwnIsAsked
  <1>4. ASSUME query.order = "asc"
        PROVE  Before(Asked(later), b) = Before(Asked(to), b)
    BY <1>1, <1>4 DEF Before, Asked, TxsIn
  <1>5. Before(Asked(to), b) \subseteq Before(Asked(later), b)
    BY <1>1 DEF Before, Asked, TxsIn
  <1>6. PICK c \in Nat, d \in Nat, e \in Nat :
           /\ c = Cardinality(Before(Asked(to), b)) /\ d = Cardinality(Before(Asked(later), b))
           /\ e = Cardinality(Own(b))
    BY <1>2, <1>3, BeforeAndIn
  <1>7. c <= d
    <2>1. Before(Asked(later), b) \in SUBSET Tx
      BY <1>2 DEF Before
    <2>. QED  BY <1>5, <1>6, <2>1, RowsFinite
  <1>8. /\ Taken(Asked(to), b, n) = Lesser(e, Greater(0, n - c))
        /\ Taken(Asked(later), b, n) = Lesser(e, Greater(0, n - d))
    BY <1>3, <1>6 DEF Taken
  <1>9. query.order = "asc" => c = d
    BY <1>4, <1>6
  <1>. HIDE DEF Taken
  <1>. QED  BY <1>7, <1>8, <1>9 DEF Lesser, Greater

\* ClampTo is a block of the chain, and grows with it.
LEMMA ClampToBounds ==
    ASSUME TypeOK, SearchInv
    PROVE  /\ ClampTo \in 0 .. head /\ head \in Nat
           /\ head' \in Nat /\ head <= head' /\ query' = query => ClampTo <= ClampTo'
  <1>1. head \in Nat /\ query.to \in Nat \cup {NoBlock}
    BY PagesAssumption DEF SearchInv, TypeOK
  <1>. QED  BY <1>1 DEF ClampTo, Lesser, NoBlock

LEMMA ClampToTypes == TypeOK /\ SearchInv => ClampTo \in Int
  <1>. SUFFICES ASSUME TypeOK, SearchInv PROVE ClampTo \in Int
    OBVIOUS
  <1>. QED  BY ClampToBounds

LEMMA ClampToBoundsNext == (TypeOK /\ SearchInv)' => (ClampTo \in Int)'
  BY ClampToTypes, PTL

\* Somebody who starts to read has got nothing, as is right.
LEMMA NewWalkIsSound == TypeOK /\ SearchInv /\ walk = NewWalk => WalkInv
  <1>. SUFFICES ASSUME TypeOK, SearchInv, walk = NewWalk PROVE WalkInv
    OBVIOUS
  <1>1. /\ walk.step = "rest" /\ walk.page = 1 /\ walk.first = NoBlock
        /\ walk.seen = [t \in Tx |-> 0]
    BY DEF NewWalk
  <1>2. ASSUME NEW b \in 0 .. Target
        PROVE  Reached(b)
    <2>1. Delivered(b) = 0
      BY <1>1, NothingDelivered
    <2>2. (walk.page - 1) * Limit = 0
      BY <1>1, PagesAssumption
    <2>3. Taken(Asked(Target), b, 0) = 0
      <3>1. Shaped /\ Asked(Target) \in SUBSET Tx
        BY ShapedHolds
      <3>. QED  BY <3>1, TakenBounds
    <2>. QED  BY <2>1, <2>2, <2>3 DEF Reached
  <1>. QED  BY <1>1, <1>2 DEF WalkInv, InFlight, At

LEMMA NewWalkIsSoundNext == (TypeOK /\ SearchInv /\ walk = NewWalk)' => WalkInv'
  BY NewWalkIsSound, PTL

-----------------------------------------------------------------------------
(* A reply *)

\* What a reply may be: a page of the whole range unless it is known not to be.
Honest(reply, to, page) ==
    /\ reply \in Replies
    /\ ~ reply.incomplete /\ ~ reply.half => reply.txs \in DatabasePages(Asked(to), page)

\* The client's progress has its types, apart from those that depend on the head.
WalkTypes ==
    walk \in [step : {"rest", "cache", "database", "etherscan", "half", "fallback", "end"},
              page : 1 .. MaxPage + 1, to : 0 .. head, gaps : SUBSET (0 .. head),
              first : {NoBlock} \cup 0 .. head, seen : [Tx -> Nat], doubt : BOOLEAN]

\* What Deliver writes, field by field.
LEMMA DeliverForm ==
    ASSUME TypeOK, NEW reply \in Replies, Deliver(reply)
    PROVE  /\ walk'.step = IF HasMore(reply) THEN "rest" ELSE "end"
           /\ walk'.page = IF HasMore(reply) THEN walk.page + 1 ELSE walk.page
           /\ walk'.to = 0 /\ walk'.gaps = {}
           /\ walk'.first = IF walk.first = NoBlock THEN walk.to ELSE walk.first
           /\ walk'.doubt = (walk.doubt \/ reply.incomplete \/ reply.half)
           /\ walk'.seen \in [Tx -> Nat]
           /\ ~ walk'.doubt =>
                 walk'.seen = [t \in Tx |-> walk.seen[t] + IF t \in reply.txs THEN 1 ELSE 0]
           /\ walk' \in [step : {"rest", "end"}, page : {walk.page, walk.page + 1},
                         to : {0}, gaps : {{}}, first : {walk.to, walk.first},
                         seen : [Tx -> Nat], doubt : BOOLEAN]
  <1>. DEFINE more == HasMore(reply)
              doubt == walk.doubt \/ reply.incomplete \/ reply.half
              seen == [t \in Tx |-> IF doubt THEN 0
                                    ELSE walk.seen[t] + IF t \in reply.txs THEN 1 ELSE 0]
  <1>1. /\ walk.seen \in [Tx -> Nat] /\ doubt \in BOOLEAN
        /\ DOMAIN walk = {"step", "page", "to", "gaps", "first", "seen", "doubt"}
    BY DEF TypeOK, Replies
  <1>2. seen \in [Tx -> Nat]
    BY <1>1
  <1>3. walk' = [walk EXCEPT
           !.step = IF more THEN "rest" ELSE "end",
           !.page = IF more THEN walk.page + 1 ELSE walk.page,
           !.to = 0,
           !.gaps = {},
           !.first = IF walk.first = NoBlock THEN walk.to ELSE walk.first,
           !.seen = seen,
           !.doubt = doubt]
    BY DEF Deliver
  <1>4. ~ doubt => seen = [t \in Tx |-> walk.seen[t] + IF t \in reply.txs THEN 1 ELSE 0]
    OBVIOUS
  <1>. HIDE DEF seen, doubt, more
  <1>5. /\ walk'.step = IF more THEN "rest" ELSE "end"
        /\ walk'.page = IF more THEN walk.page + 1 ELSE walk.page
        /\ walk'.to = 0 /\ walk'.gaps = {}
        /\ walk'.first = IF walk.first = NoBlock THEN walk.to ELSE walk.first
        /\ walk'.doubt = doubt
        /\ walk'.seen = seen
    BY <1>1, <1>3 DEF TypeOK
  <1>6. walk' = [step |-> walk'.step, page |-> walk'.page, to |-> walk'.to,
                 gaps |-> walk'.gaps, first |-> walk'.first, seen |-> walk'.seen,
                 doubt |-> walk'.doubt]
    BY <1>3 DEF TypeOK
  <1>7. walk' \in [step : {"rest", "end"}, page : {walk.page, walk.page + 1},
                   to : {0}, gaps : {{}}, first : {walk.to, walk.first},
                   seen : [Tx -> Nat], doubt : BOOLEAN]
    BY <1>1, <1>2, <1>5, <1>6
  <1>. QED  BY <1>2, <1>4, <1>5, <1>7 DEF more, doubt

(***************************************************************************)
(* With an honest page the client has what the pages so far hold; with one *)
(* that is not full, everything.                                           *)
(***************************************************************************)
LEMMA DeliverKeeps ==
    ASSUME Inv, InFlight, NEW reply, Honest(reply, walk.to, walk.page), Deliver(reply),
           UNCHANGED <<searchVars, blockOf, query>>
    PROVE  WalkTypes' /\ WalkInv'
  <1>. DEFINE rows == Asked(walk.to)
              k == walk.page
  <1>1. /\ TypeOK /\ SearchInv /\ WalkInv /\ Shaped /\ reply \in Replies
        /\ pc = "done" /\ k <= MaxPage /\ walk.to <= ClampTo
        /\ head' = head /\ UNCHANGED <<info, blockOf, query, pc>>
        /\ rows \in SUBSET Tx
    BY ShapedHolds DEF Inv, WalkInv, Honest, searchVars
  <1>2. /\ walk.to \in 0 .. head /\ head \in Nat /\ ClampTo \in 0 .. head
        /\ k \in 1 .. MaxPage /\ k \in Nat \ {0} /\ MaxPage \in Nat \ {0}
        /\ walk.first \in {NoBlock} \cup 0 .. head
        /\ StartingBlock(info) \in Int
        /\ ClampTo' = ClampTo
    BY <1>1, ClampToBounds, AnswerShape, PagesAssumption DEF TypeOK, ClampTo
  <1>3. /\ walk'.step = IF HasMore(reply) THEN "rest" ELSE "end"
        /\ walk'.page = IF HasMore(reply) THEN k + 1 ELSE k
        /\ walk'.first = IF walk.first = NoBlock THEN walk.to ELSE walk.first
        /\ walk'.doubt = (walk.doubt \/ reply.incomplete \/ reply.half)
        /\ ~ walk'.doubt =>
              walk'.seen = [t \in Tx |-> walk.seen[t] + IF t \in reply.txs THEN 1 ELSE 0]
    BY <1>1, DeliverForm
  <1>4. WalkTypes'
    <2>1. walk' \in [step : {"rest", "end"}, page : {walk.page, walk.page + 1},
                     to : {0}, gaps : {{}}, first : {walk.to, walk.first},
                     seen : [Tx -> Nat], doubt : BOOLEAN]
      BY <1>1, DeliverForm
    <2>2. walk.page + 1 \in 1 .. MaxPage + 1 /\ walk.page \in 1 .. MaxPage + 1
      BY <1>2
    <2>3. 0 \in 0 .. head' /\ {} \in SUBSET (0 .. head')
      BY <1>1, <1>2
    <2>. QED  BY <1>1, <1>2, <2>1, <2>2, <2>3 DEF WalkTypes
  <1>5. /\ walk'.first # NoBlock /\ walk'.first \in 0 .. walk.to
        /\ walk.first # NoBlock => walk'.first = walk.first
        /\ InFlight' = FALSE /\ Target' = ClampTo'
    <2>1. walk.first # NoBlock => walk.first <= walk.to
      BY <1>1 DEF WalkInv, At, InFlight, Target
    <2>2. walk'.step \in {"rest", "end"}
      BY <1>3
    <2>. QED  BY <1>2, <1>3, <2>1, <2>2 DEF NoBlock, InFlight, Target
  <1>6. PICK m \in Nat, n \in Nat : m = (k - 1) * Limit /\ n = k * Limit
    BY <1>2, PagesAssumption
  <1>7. ASSUME ~ walk'.doubt, NEW b \in 0 .. walk'.first
        PROVE  IF query.order = "asc" THEN Delivered(b)' = Taken(rows, b, n)
                                      ELSE Delivered(b)' >= Taken(rows, b, n)
    <2>1. ~ walk.doubt /\ reply.txs \in DatabasePages(rows, k)
      BY <1>1, <1>3, <1>7 DEF Honest, Replies, TypeOK
    <2>2. /\ b \in Int /\ b \in 0 .. walk.to
          /\ walk.first # NoBlock => b <= walk.first
      BY <1>2, <1>5
    <2>3. IF query.order = "asc" THEN Delivered(b) = Taken(rows, b, m)
                                 ELSE Delivered(b) >= Taken(rows, b, m)
      <3>1. ~ At("end") /\ Target = walk.to
        BY DEF InFlight, At, Target
      <3>2. Reached(b)
        BY <1>1, <2>1, <2>2, <3>1 DEF WalkInv
      <3>. QED  BY <1>6, <3>1, <3>2 DEF Reached
    <2>4. /\ reply.txs \in SUBSET rows
          /\ Cardinality(InBlock(reply.txs, b)) = Taken(rows, b, n) - Taken(rows, b, m)
      <3>1. /\ rows \in SUBSET Tx /\ k \in Nat \ {0} /\ Shaped
            /\ reply.txs \in DatabasePages(rows, k)
        BY <1>1, <1>2, <2>1
      <3>. HIDE DEF rows, k
      <3>2. PICK R \in SUBSET Tx, p \in Nat \ {0} : R = rows /\ p = k
        BY <3>1
      <3>3. PICK txs \in DatabasePages(R, p) : txs = reply.txs
        BY <3>1, <3>2
      <3>4. /\ txs \in SUBSET R
            /\ Cardinality(InBlock(txs, b))
                  = Taken(R, b, p * Limit) - Taken(R, b, (p - 1) * Limit)
        BY <2>2, <3>1, PageTakes
      <3>. QED  BY <1>6, <3>2, <3>3, <3>4
    <2>5. Delivered(b)' = Delivered(b) + Cardinality(InBlock(reply.txs, b))
      <3>1. walk.seen \in [Tx -> Nat] /\ reply.txs \in SUBSET Tx
        BY <1>1, <2>4, ShapedHolds
      <3>. QED  BY <1>1, <1>3, <1>7, <2>2, <3>1, PageDelivered
    <2>6. Delivered(b) \in Nat /\ Taken(rows, b, m) \in Nat /\ Taken(rows, b, n) \in Nat
      <3>1. walk.seen \in [Tx -> Nat]
        BY <1>1, ShapedHolds
      <3>2. Delivered(b) \in Nat
        BY <3>1, DeliveredFinite
      <3>3. rows \in SUBSET Tx /\ Shaped /\ b \in Int
        BY <1>1, <2>2
      <3>. HIDE DEF rows
      <3>4. \A x \in Nat : Taken(rows, b, x) \in Nat
        BY <3>3, TakenBounds
      <3>. QED  BY <3>2, <3>4
    <2>. HIDE DEF rows
    <2>. QED  BY <2>3, <2>4, <2>5, <2>6
  <1>8. ASSUME ~ walk'.doubt, HasMore(reply), NEW b \in 0 .. Target', b <= walk'.first
        PROVE  Reached(b)'
    <2>1. b \in 0 .. walk'.first /\ b \in Int /\ b <= walk.to
      BY <1>2, <1>5, <1>8
    <2>2. /\ Taken(Asked(ClampTo), b, n) \in Nat /\ Taken(rows, b, n) \in Nat
          /\ Taken(Asked(ClampTo), b, n) <= Taken(rows, b, n)
          /\ query.order = "asc" => Taken(Asked(ClampTo), b, n) = Taken(rows, b, n)
      <3>1. /\ walk.to \in Int /\ ClampTo \in Int /\ walk.to <= ClampTo
            /\ Shaped /\ StartingBlock(info) \in Int
        BY <1>1, <1>2
      <3>2. PICK to \in Int, later \in Int : to = walk.to /\ later = ClampTo
        BY <3>1
      <3>3. to <= later /\ b <= to
        BY <2>1, <3>1, <3>2
      <3>4. /\ Taken(Asked(later), b, n) \in Nat /\ Taken(Asked(to), b, n) \in Nat
            /\ Taken(Asked(later), b, n) <= Taken(Asked(to), b, n)
            /\ query.order = "asc" => Taken(Asked(later), b, n) = Taken(Asked(to), b, n)
        <4>1. b \in Int /\ n \in Nat /\ Shaped /\ StartingBlock(info) \in Int
          BY <2>1, <3>1
        <4>. HIDE DEF rows, k
        <4>2. /\ Taken(Asked(later), b, n) \in Nat /\ Taken(Asked(to), b, n) \in Nat
              /\ Taken(Asked(later), b, n) <= Taken(Asked(to), b, n)
          BY <3>3, <4>1, TakenLater
        <4>3. query.order = "asc" => Taken(Asked(later), b, n) = Taken(Asked(to), b, n)
          BY <3>3, <4>1, TakenLater
        <4>. QED  BY <4>2, <4>3
      <3>. QED  BY <3>2, <3>4
    <2>3. Taken(Asked(Target), b, (walk.page - 1) * Limit)' = Taken(Asked(ClampTo), b, n)
      <3>1. (walk'.page - 1) * Limit = n
        <4>1. walk'.page - 1 = k
          BY <1>2, <1>3, <1>8
        <4>. QED  BY <1>6, <4>1
      <3>2. Asked(Target)' = Asked(ClampTo)
        BY <1>1, <1>2, <1>5 DEF Asked, TxsIn
      <3>3. \A R, c, d : Taken(R, c, d)' = Taken(R, c, d)
        BY <1>1, SameRows
      <3>. QED  BY <3>1, <3>2, <3>3
    <2>4. Delivered(b)' \in Nat
      <3>1. walk'.seen \in [Tx -> Nat]
        BY <1>4 DEF WalkTypes
      <3>2. walk.seen \in [Tx -> Nat]
        BY <1>1, ShapedHolds
      <3>3. Delivered(b) \in Nat /\ reply.txs \in SUBSET Tx
        BY <1>1, <3>2, DeliveredFinite DEF Replies
      <3>4. Delivered(b)' = Delivered(b) + Cardinality(InBlock(reply.txs, b))
        BY <1>1, <1>3, <1>8, <2>1, <3>2, <3>3, PageDelivered
      <3>5. InBlock(reply.txs, b) \in SUBSET Tx
        BY <3>3 DEF InBlock
      <3>. QED  BY <3>3, <3>4, <3>5, RowsFinite
    <2>. HIDE DEF rows
    <2>. QED  BY <1>1, <1>7, <1>8, <2>1, <2>2, <2>3, <2>4 DEF Reached
  <1>9. ASSUME ~ walk'.doubt, ~ HasMore(reply), NEW b \in 0 .. walk'.first
        PROVE  (IF query.order = "asc" THEN Delivered(b) = Cardinality(Own(b))
                                       ELSE Delivered(b) >= Cardinality(Own(b)))'
    <2>1. reply.txs \in DatabasePages(rows, k) /\ Cardinality(reply.txs) # Limit
      BY <1>1, <1>3, <1>9 DEF Honest, Replies, TypeOK, HasMore
    <2>2. Cardinality(rows) <= n
      BY <1>1, <1>2, <1>6, <2>1, ShortPageIsLast
    <2>3. b \in Int /\ b <= walk.to /\ walk.to \in Int
      BY <1>2, <1>5
    <2>4. Taken(rows, b, n) = Cardinality(Own(b))
      <3>1. Taken(rows, b, n) = Cardinality(InBlock(rows, b))
        BY <1>1, <2>2, <2>3, TakenBounds
      <3>2. InBlock(rows, b) = Own(b)
        BY <1>1, <1>2, <2>3, OwnIsAsked
      <3>. QED  BY <3>1, <3>2
    <2>5. Own(b)' = Own(b)
      BY <1>1, SameRows
    <2>. QED  BY <1>1, <1>7, <1>9, <2>4, <2>5
  <1>10. WalkInv'
    <2>1. ~ At("end")' /\ ~ walk'.doubt => HasMore(reply)
      BY <1>3 DEF At
    <2>2. At("end")' => ~ HasMore(reply)
      BY <1>3 DEF At
    <2>3. (~ At("end") /\ walk.first # NoBlock => walk.first <= Target)'
      BY <1>1, <1>2, <1>5
    <2>4. (InFlight => pc = "done" /\ walk.page <= MaxPage /\ walk.to <= ClampTo)'
      BY <1>5
    <2>5. (walk.first = NoBlock => ~ At("end") /\ walk.page = 1 /\ walk.seen = [t \in Tx |-> 0])'
      BY <1>5
    <2>6. (~ walk.doubt /\ ~ At("end") =>
             \A b \in 0 .. Target : (walk.first # NoBlock => b <= walk.first) => Reached(b))'
      BY <1>5, <1>8, <2>1
    <2>7. (~ walk.doubt /\ At("end") =>
             \A b \in 0 .. walk.first :
                IF query.order = "asc" THEN Delivered(b) = Cardinality(Own(b))
                                       ELSE Delivered(b) >= Cardinality(Own(b)))'
      BY <1>9, <2>2
    <2>. QED  BY <2>3, <2>4, <2>5, <2>6, <2>7 DEF WalkInv
  <1>. QED  BY <1>4, <1>10

-----------------------------------------------------------------------------
(* What steps leave alone *)

\* The types of the stores and of the cache.
StoreTypes ==
    /\ indexed \subseteq 0 .. head /\ stored \subseteq Tx /\ wanted \subseteq 0 .. head
    /\ dropped \in BOOLEAN

CacheTypes ==
    /\ cache \subseteq [key : [to : 0 .. head, page : 1 .. MaxPage], reply : Replies]
    /\ \A e, f \in cache : e.key = f.key => e = f

LEMMA TypesSplit ==
    TypeOK <=> SearchTypeOK /\ Shaped /\ WalkTypes /\ StoreTypes /\ CacheTypes
  BY DEF TypeOK, Shaped, WalkTypes, StoreTypes, CacheTypes

LEMMA TypesSplitNext ==
    TypeOK' <=> (SearchTypeOK /\ Shaped /\ WalkTypes /\ StoreTypes /\ CacheTypes)'
  BY TypesSplit, PTL

\* Nothing of the address, the chain and the query changes.
LEMMA SameAddress ==
    ASSUME Inv, UNCHANGED <<searchVars, blockOf, query>>
    PROVE  /\ SearchTypeOK' /\ Shaped' /\ SearchInv' /\ Placed(blockOf)'
           /\ head' = head /\ UNCHANGED <<info, blockOf, query, pc>>
           /\ ClampTo' = ClampTo /\ (BeforeCreation)' = BeforeCreation
  <1>1. /\ SearchTypeOK /\ Shaped /\ SearchInv /\ Placed(blockOf)
        /\ UNCHANGED <<created, head, low, high, creationBlock, info, faulted, pc>>
        /\ UNCHANGED <<blockOf, query>>
    BY TypesSplit DEF Inv, searchVars
  <1>2. SearchTypeOK'
    BY <1>1 DEF SearchTypeOK
  <1>3. SearchInv'
    BY <1>1 DEF SearchInv, Closing
  <1>4. Shaped' /\ Placed(blockOf)'
    BY <1>1 DEF Shaped, Placed
  <1>. QED  BY <1>1, <1>2, <1>3, <1>4 DEF ClampTo, BeforeCreation

\* A request on its way or just asked has the rows of the pages before it.
LEMMA WalkGoesOn ==
    ASSUME Inv, ~ At("end"), pc = "done", InFlight', walk'.to = Target,
           walk.page <= MaxPage, walk'.page = walk.page, walk'.first = walk.first,
           walk'.seen = walk.seen, walk'.doubt = walk.doubt,
           UNCHANGED <<searchVars, blockOf, query>>
    PROVE  WalkInv'
  <1>1. /\ WalkInv /\ TypeOK /\ SearchInv
        /\ UNCHANGED <<info, blockOf, query, pc>> /\ ClampTo' = ClampTo
        /\ Target' = Target /\ ~ At("end")'
    BY SameAddress DEF Inv, Target, InFlight, At
  <1>2. Target \in 0 .. head /\ Target <= ClampTo
    <2>1. ClampTo \in 0 .. head /\ head \in Nat
      BY <1>1, ClampToBounds
    <2>2. walk.to \in 0 .. head
      BY <1>1, TypesSplit DEF WalkTypes
    <2>. QED  BY <1>1, <2>1, <2>2 DEF Target, WalkInv
  <1>3. ASSUME NEW b
        PROVE  Reached(b)' <=> Reached(b)
    <2>1. Delivered(b)' = Delivered(b)
      BY <1>1 DEF Delivered, TxsIn
    <2>2. Taken(Asked(Target), b, (walk.page - 1) * Limit)'
             = Taken(Asked(Target), b, (walk.page - 1) * Limit)
      BY <1>1 DEF Taken, InBlock, Before, Asked, TxsIn
    <2>. QED  BY <1>1, <2>1, <2>2 DEF Reached
  <1>4. walk.first = NoBlock => walk.page = 1 /\ walk.seen = [t \in Tx |-> 0]
    BY <1>1 DEF WalkInv
  <1>5. walk.first # NoBlock => walk.first <= Target
    BY <1>1 DEF WalkInv
  <1>6. ASSUME ~ walk.doubt, NEW b \in 0 .. Target, walk.first # NoBlock => b <= walk.first
        PROVE  Reached(b)'
    BY <1>1, <1>3, <1>6 DEF WalkInv
  <1>. QED  BY <1>1, <1>2, <1>4, <1>5, <1>6 DEF WalkInv

LEMMA SameWalk ==
    ASSUME Inv, UNCHANGED <<searchVars, blockOf, query, walk>>
    PROVE  WalkInv' /\ WalkTypes'
  <1>1. /\ WalkInv /\ WalkTypes /\ walk' = walk /\ head' = head
        /\ UNCHANGED <<info, blockOf, query, pc>> /\ ClampTo' = ClampTo
    BY SameAddress, TypesSplit DEF Inv
  <1>2. Target' = Target /\ (InFlight' <=> InFlight) /\ (At("end")' <=> At("end"))
    BY <1>1 DEF Target, InFlight, At
  <1>3. ASSUME NEW b
        PROVE  Delivered(b)' = Delivered(b) /\ Own(b)' = Own(b)
    BY <1>1 DEF Delivered, TxsIn, Own
  <1>4. ASSUME NEW b
        PROVE  Reached(b)' <=> Reached(b)
    <2>1. Taken(Asked(Target), b, (walk.page - 1) * Limit)'
             = Taken(Asked(Target), b, (walk.page - 1) * Limit)
      BY <1>1, <1>2 DEF Taken, InBlock, Before, Asked, TxsIn
    <2>. QED  BY <1>1, <1>3, <2>1 DEF Reached
  <1>5. WalkInv'
    BY <1>1, <1>2, <1>3, <1>4 DEF WalkInv
  <1>. QED  BY <1>1, <1>5 DEF WalkTypes

-----------------------------------------------------------------------------
(* The replies *)

(***************************************************************************)
(* Whoever caches an honest reply, hands the gaps over and delivers it,    *)
(* keeps the invariant, if the blocks marked on the way are stored.        *)
(***************************************************************************)
LEMMA ReplyKeeps ==
    ASSUME Inv, InFlight, NEW reply, Honest(reply, walk.to, walk.page),
           CacheAndDeliver(reply), UNCHANGED <<searchVars, blockOf, query, stored>>,
           indexed' \subseteq indexed \cup BeforeCreation
    PROVE  Inv'
  <1>1. /\ SearchTypeOK' /\ Shaped' /\ SearchInv' /\ Placed(blockOf)'
        /\ head' = head /\ UNCHANGED <<info, blockOf, query, pc, stored>>
    BY SameAddress
  <1>2. WalkTypes' /\ WalkInv'
    BY DeliverKeeps DEF CacheAndDeliver
  <1>3. /\ pc = "done" /\ SearchInv /\ WalkTypes /\ StoreTypes /\ CacheTypes
        /\ walk.page \in 1 .. MaxPage /\ walk.to \in 0 .. head /\ head \in Nat
        /\ info \in Info /\ info.creationBlock \in 0 .. head
    <2>1. pc = "done" /\ walk.page <= MaxPage /\ SearchInv /\ TypeOK
      BY DEF Inv, WalkInv
    <2>2. info \in Info /\ info.creationBlock \in 0 .. head /\ head \in Nat
      BY <2>1, AnswerShape DEF SearchInv
    <2>3. WalkTypes /\ StoreTypes /\ CacheTypes
      BY <2>1, TypesSplit
    <2>. QED  BY <2>1, <2>2, <2>3, PagesAssumption DEF WalkTypes
  <1>4. BeforeCreation \subseteq 0 .. head
    BY <1>3 DEF BeforeCreation
  <1>5. StoreTypes'
    <2>1. wanted' \subseteq wanted \cup walk.gaps /\ dropped' \in BOOLEAN
      BY <1>3 DEF CacheAndDeliver, HandOver, StoreTypes
    <2>2. walk.gaps \subseteq 0 .. head
      BY <1>3 DEF WalkTypes
    <2>. QED  BY <1>1, <1>3, <1>4, <2>1, <2>2 DEF StoreTypes
  <1>6. /\ cache' \subseteq (cache \ Cached) \cup {[key |-> KeyNow, reply |-> reply]}
        /\ \A e \in cache \ Cached : e.key # KeyNow
    BY DEF CacheAndDeliver, Cached
  <1>7. CacheTypes'
    <2>1. [key |-> KeyNow, reply |-> reply] \in [key : [to : 0 .. head, page : 1 .. MaxPage],
                                                 reply : Replies]
      BY <1>3 DEF KeyNow, Honest
    <2>. HIDE DEF KeyNow, Cached, Honest
    <2>. QED  BY <1>1, <1>3, <1>6, <2>1 DEF CacheTypes
  <1>8. TypeOK'
    BY <1>1, <1>2, <1>5, <1>7, TypesSplitNext
  <1>9. SearchFirst'
    BY <1>1, <1>3 DEF SearchFirst
  <1>10. StoreInv'
    <2>1. ~ At("database")'
      <3>1. walk'.step = IF HasMore(reply) THEN "rest" ELSE "end"
        BY DeliverForm DEF CacheAndDeliver, Inv, Honest
      <3>. QED  BY <3>1 DEF At
    <2>2. ASSUME NEW b \in indexed', StartingBlock(info) <= b
          PROVE  TxsIn(b, b) \subseteq stored
      <3>1. b \in indexed
        <4>1. \A c \in BeforeCreation : ~ (StartingBlock(info) <= c)
          BY <1>3 DEF BeforeCreation, StartingBlock
        <4>. QED  BY <2>2, <4>1
      <3>. QED  BY <2>2, <3>1 DEF Inv, StoreInv
    <2>3. \A b : TxsIn(b, b)' = TxsIn(b, b)
      BY <1>1 DEF TxsIn
    <2>. QED  BY <1>1, <2>1, <2>2, <2>3 DEF StoreInv
  <1>11. CacheInv'
    <2>1. \A to, page : DatabasePages(Asked(to), page)' = DatabasePages(Asked(to), page)
      <3>1. UNCHANGED <<info, blockOf, query>>
        BY <1>1
      <3>. QED  BY <3>1 DEF DatabasePages, Leading, Asked, TxsIn
    <2>2. ASSUME NEW e \in cache', ~ e.reply.incomplete, ~ e.reply.half
          PROVE  e.reply.txs \in DatabasePages(Asked(e.key.to), e.key.page)
      <3>1. CASE e \in cache
        BY <2>2, <3>1 DEF Inv, CacheInv
      <3>2. CASE e = [key |-> KeyNow, reply |-> reply]
        BY <2>2, <3>2 DEF Honest, KeyNow
      <3>. QED  BY <1>6, <3>1, <3>2
    <2>. QED  BY <2>1, <2>2 DEF CacheInv
  <1>. QED  BY <1>1, <1>2, <1>8, <1>9, <1>10, <1>11 DEF Inv

\* Any page of a set of rows is a part of it.
LEMMA PageIsRows ==
    ASSUME NEW rows \in SUBSET Tx, NEW page, NEW txs \in DatabasePages(rows, page)
    PROVE  txs \in SUBSET Tx
  BY DEF DatabasePages, Leading

LEMMA CacheHitKeeps ==
    ASSUME Inv, CacheHit
    PROVE  Inv'
  <1>1. PICK e \in Cached : Deliver(e.reply)
    BY DEF CacheHit
  <1>2. /\ InFlight /\ UNCHANGED <<searchVars, blockOf, query, indexed, stored, wanted, dropped, cache>>
        /\ e \in cache /\ e.key = KeyNow
    BY DEF CacheHit, At, InFlight, Cached
  <1>3. Honest(e.reply, walk.to, walk.page)
    <2>1. e.reply \in Replies
      BY <1>2 DEF Inv, TypeOK
    <2>2. e.key.to = walk.to /\ e.key.page = walk.page
      BY <1>2 DEF KeyNow
    <2>. QED  BY <1>2, <2>1, <2>2 DEF Honest, Inv, CacheInv
  <1>4. WalkTypes' /\ WalkInv'
    BY <1>1, <1>2, <1>3, DeliverKeeps
  <1>5. /\ SearchTypeOK' /\ Shaped' /\ SearchInv' /\ Placed(blockOf)'
        /\ head' = head /\ UNCHANGED <<info, blockOf, query, pc>>
    BY <1>2, SameAddress
  <1>6. StoreTypes' /\ CacheTypes'
    <2>1. StoreTypes /\ CacheTypes
      BY TypesSplit DEF Inv
    <2>. QED  BY <1>2, <1>5, <2>1 DEF StoreTypes, CacheTypes
  <1>7. TypeOK'
    BY <1>4, <1>5, <1>6, TypesSplitNext
  <1>8. SearchFirst' /\ ~ At("database")'
    <2>1. pc = "done"
      BY <1>2 DEF Inv, WalkInv
    <2>2. walk'.step = IF HasMore(e.reply) THEN "rest" ELSE "end"
      BY <1>1, <1>3, DeliverForm DEF Inv, Honest
    <2>. QED  BY <1>5, <2>1, <2>2 DEF SearchFirst, At
  <1>9. StoreInv'
    <2>1. \A b : TxsIn(b, b)' = TxsIn(b, b)
      BY <1>5 DEF TxsIn
    <2>. QED  BY <1>2, <1>5, <1>8, <2>1 DEF StoreInv, Inv
  <1>10. CacheInv'
    <2>1. \A to, page : DatabasePages(Asked(to), page)' = DatabasePages(Asked(to), page)
      BY <1>5 DEF DatabasePages, Leading, Asked, TxsIn
    <2>. QED  BY <1>2, <2>1 DEF CacheInv, Inv
  <1>. QED  BY <1>4, <1>5, <1>7, <1>8, <1>9, <1>10 DEF Inv

\* What a request on its way may rely on.
LEMMA OnItsWay ==
    ASSUME Inv, InFlight
    PROVE  /\ pc = "done" /\ Shaped /\ Placed(blockOf)
           /\ walk.to \in 0 .. head /\ head \in Nat /\ walk.page \in Nat \ {0}
           /\ walk.page \in 1 .. MaxPage /\ MaxPage \in Nat /\ walk.to <= ClampTo
           /\ info \in Info /\ info.creationBlock \in 0 .. head
           /\ StartingBlock(info) \in 0 .. head
           /\ Asked(walk.to) \in SUBSET Tx /\ RowsAsked \in SUBSET Tx
  <1>1. /\ pc = "done" /\ walk.page <= MaxPage /\ walk.to <= ClampTo
        /\ SearchInv /\ TypeOK /\ Placed(blockOf)
    BY DEF Inv, WalkInv
  <1>2. /\ info \in Info /\ info.creationBlock \in 0 .. head
        /\ StartingBlock(info) \in 0 .. head /\ head \in Nat
    BY <1>1, AnswerShape DEF SearchInv
  <1>3. Shaped /\ WalkTypes
    BY <1>1, TypesSplit
  <1>4. walk.to \in 0 .. head /\ walk.page \in Nat \ {0} /\ walk.page \in 1 .. MaxPage
    BY <1>1, <1>3, PagesAssumption DEF WalkTypes
  <1>5. \A from, to : TxsIn(from, to) \in SUBSET Tx
    BY DEF TxsIn
  <1>. QED  BY <1>1, <1>2, <1>3, <1>4, <1>5, PagesAssumption DEF Asked, RowsAsked

LEMMA ServeEmptyKeeps ==
    ASSUME Inv, ServeEmpty
    PROVE  Inv'
  <1>. DEFINE reply == Reply({}, FALSE, FALSE)
  <1>1. /\ InFlight /\ walk.to \in BeforeCreation /\ CacheAndDeliver(reply)
        /\ indexed' \subseteq indexed \cup BeforeCreation
        /\ UNCHANGED <<searchVars, blockOf, query, stored>>
    BY DEF ServeEmpty, Missed, At, InFlight
  <1>2. Shaped /\ Placed(blockOf) /\ walk.page \in Nat \ {0} /\ info \in Info
    BY <1>1, OnItsWay
  <1>3. Asked(walk.to) = {}
    <2>1. \A t \in Tx : ~ (blockOf[t] \in StartingBlock(info) .. walk.to)
      BY <1>1, <1>2 DEF BeforeCreation, StartingBlock, Shaped, Info
    <2>. QED  BY <2>1 DEF Asked, TxsIn
  <1>4. {} \in DatabasePages({}, walk.page)
    <2>1. EtherscanPage({}, walk.page) \in DatabasePages({}, walk.page)
      BY <1>2, EtherscanIsAPage
    <2>. QED  BY <2>1 DEF EtherscanPage
  <1>5. Honest(reply, walk.to, walk.page)
    BY <1>3, <1>4 DEF Honest, Reply, Replies
  <1>. QED  BY <1>1, <1>5, ReplyKeeps

\* Where the whole range is indexed, the rows asked for are all stored.
LEMMA DatabaseHasAll ==
    ASSUME Inv, At("database")
    PROVE  RowsAsked = Asked(walk.to)
  <1>1. /\ StartingBlock(info) .. walk.to \subseteq indexed
        /\ \A b \in indexed : StartingBlock(info) <= b => TxsIn(b, b) \subseteq stored
    BY DEF Inv, StoreInv
  <1>2. Shaped /\ walk.to \in Int /\ StartingBlock(info) \in Int
    BY OnItsWay DEF At, InFlight
  <1>3. ASSUME NEW t \in Asked(walk.to)
        PROVE  t \in stored
    <2>1. /\ t \in Tx /\ blockOf[t] \in Int /\ StartingBlock(info) <= blockOf[t]
          /\ blockOf[t] \in StartingBlock(info) .. walk.to
      BY <1>2, <1>3 DEF Asked, TxsIn, Shaped
    <2>2. t \in TxsIn(blockOf[t], blockOf[t])
      BY <2>1 DEF TxsIn
    <2>. QED  BY <1>1, <2>1, <2>2
  <1>. QED  BY <1>3 DEF RowsAsked, Asked

LEMMA ServeDatabaseKeeps ==
    ASSUME Inv, ServeDatabase
    PROVE  Inv'
  <1>1. /\ InFlight /\ indexed' \subseteq indexed \cup BeforeCreation
        /\ UNCHANGED <<searchVars, blockOf, query, stored>>
    BY DEF ServeDatabase, At, InFlight
  <1>2. PICK txs \in DatabasePages(RowsAsked, walk.page) :
           CacheAndDeliver(Reply(txs, FALSE, FALSE))
    BY DEF ServeDatabase
  <1>3. Honest(Reply(txs, FALSE, FALSE), walk.to, walk.page)
    <2>1. RowsAsked = Asked(walk.to) /\ RowsAsked \in SUBSET Tx
      BY <1>1, OnItsWay, DatabaseHasAll DEF ServeDatabase
    <2>2. txs \in SUBSET Tx
      BY <2>1, PageIsRows
    <2>. QED  BY <2>1, <2>2 DEF Honest, Reply, Replies
  <1>. QED  BY <1>1, <1>2, <1>3, ReplyKeeps

LEMMA ServeEtherscanKeeps ==
    ASSUME Inv, ServeEtherscan
    PROVE  Inv'
  <1>. DEFINE txs == EtherscanPage(Asked(walk.to), walk.page)
              reply == Reply(txs, FALSE, FALSE)
  <1>1. /\ InFlight /\ indexed' \subseteq indexed \cup BeforeCreation
        /\ UNCHANGED <<searchVars, blockOf, query, stored>>
        /\ CacheAndDeliver(reply)
    BY DEF ServeEtherscan, At, InFlight, Asked
  <1>2. txs \in DatabasePages(Asked(walk.to), walk.page)
    BY <1>1, OnItsWay, EtherscanIsAPage
  <1>3. Honest(reply, walk.to, walk.page)
    <2>1. txs \in SUBSET Tx
      BY <1>1, OnItsWay DEF EtherscanPage
    <2>. HIDE DEF txs
    <2>. QED  BY <1>2, <2>1 DEF Honest, Reply, Replies
  <1>. QED  BY <1>1, <1>3, ReplyKeeps

LEMMA ServeHalfKeeps ==
    ASSUME Inv, ServeHalf
    PROVE  Inv'
  <1>. DEFINE half == HalfRange(Range2(StartingBlock(info), walk.to), query.order)
              txs == EtherscanPage(TxsIn(half.fromBlock, half.toBlock), walk.page)
              reply == Reply(txs, FALSE, TRUE)
  <1>1. /\ InFlight /\ indexed' \subseteq indexed \cup BeforeCreation
        /\ UNCHANGED <<searchVars, blockOf, query, stored>>
        /\ CacheAndDeliver(reply)
    BY DEF ServeHalf, At, InFlight
  <1>2. Honest(reply, walk.to, walk.page)
    <2>1. txs \in SUBSET Tx
      BY DEF EtherscanPage, TxsIn
    <2>. HIDE DEF txs
    <2>. QED  BY <2>1 DEF Honest, Reply, Replies
  <1>. QED  BY <1>1, <1>2, ReplyKeeps

LEMMA ServeFallbackKeeps ==
    ASSUME Inv, ServeFallback
    PROVE  Inv'
  <1>1. /\ InFlight /\ indexed' \subseteq indexed \cup BeforeCreation
        /\ UNCHANGED <<searchVars, blockOf, query, stored>>
    BY DEF ServeFallback, At, InFlight
  <1>2. PICK txs \in DatabasePages(RowsAsked, walk.page) :
           CacheAndDeliver(Reply(txs, TRUE, FALSE))
    BY DEF ServeFallback
  <1>3. Honest(Reply(txs, TRUE, FALSE), walk.to, walk.page)
    <2>1. txs \in SUBSET Tx
      BY <1>1, OnItsWay, PageIsRows
    <2>. QED  BY <2>1 DEF Honest, Reply, Replies
  <1>. QED  BY <1>1, <1>2, <1>3, ReplyKeeps

-----------------------------------------------------------------------------
(* The other steps *)

\* The stores and the cache as they are go on to hold what they should.
LEMMA SameStores ==
    ASSUME Inv, UNCHANGED <<searchVars, blockOf, query, indexed, stored, wanted, dropped, cache>>,
           At("database")' => At("database") /\ walk'.to = walk.to
    PROVE  StoreTypes' /\ CacheTypes' /\ StoreInv' /\ CacheInv'
  <1>1. head' = head /\ UNCHANGED <<info, blockOf, query, pc>>
    BY SameAddress
  <1>2. StoreTypes /\ CacheTypes /\ StoreInv /\ CacheInv
    BY TypesSplit DEF Inv
  <1>3. StoreTypes' /\ CacheTypes'
    BY <1>1, <1>2 DEF StoreTypes, CacheTypes
  <1>4. StoreInv'
    BY <1>1, <1>2 DEF StoreInv, TxsIn
  <1>5. CacheInv'
    <2>1. \A to, page : DatabasePages(Asked(to), page)' = DatabasePages(Asked(to), page)
      BY <1>1 DEF DatabasePages, Leading, Asked, TxsIn
    <2>. QED  BY <1>2, <2>1 DEF CacheInv
  <1>. QED  BY <1>3, <1>4, <1>5

LEMMA AskPageKeeps ==
    ASSUME Inv, AskPage
    PROVE  Inv'
  <1>1. /\ pc = "done" /\ At("rest") /\ walk.page <= MaxPage
        /\ walk' = [walk EXCEPT !.step = "cache", !.to = ClampTo]
        /\ UNCHANGED <<searchVars, blockOf, query, indexed, stored, wanted, dropped, cache>>
    BY DEF AskPage
  <1>2. /\ SearchTypeOK' /\ Shaped' /\ SearchInv' /\ Placed(blockOf)'
        /\ head' = head /\ pc' = pc
    BY <1>1, SameAddress
  <1>3. WalkTypes /\ ClampTo \in 0 .. head
    BY TypesSplit, ClampToBounds DEF Inv
  <1>4. /\ walk'.step = "cache" /\ walk'.to = ClampTo /\ walk'.page = walk.page
        /\ walk'.first = walk.first /\ walk'.seen = walk.seen /\ walk'.doubt = walk.doubt
    BY <1>1, <1>3 DEF WalkTypes
  <1>5. WalkTypes'
    BY <1>1, <1>2, <1>3 DEF WalkTypes
  <1>6. WalkInv'
    <2>1. ~ At("end") /\ Target = ClampTo /\ InFlight'
      BY <1>1, <1>4 DEF At, Target, InFlight
    <2>. QED  BY <1>1, <1>4, <2>1, WalkGoesOn
  <1>7. StoreTypes' /\ CacheTypes' /\ StoreInv' /\ CacheInv'
    BY <1>1, <1>4, SameStores DEF At
  <1>8. TypeOK' /\ SearchFirst'
    BY <1>1, <1>2, <1>5, <1>7, TypesSplitNext DEF SearchFirst
  <1>. QED  BY <1>2, <1>6, <1>7, <1>8 DEF Inv

\* Marking what is before the creation leaves what is from it on as it is.
LEMMA ReadCoverageKeeps ==
    ASSUME Inv, ReadCoverage
    PROVE  Inv'
  <1>. DEFINE gaps == (StartingBlock(info) .. walk.to) \ indexed
  <1>1. /\ At("cache") /\ InFlight /\ indexed' = indexed \cup BeforeCreation
        /\ walk' = [walk EXCEPT !.step = IF gaps = {} THEN "database" ELSE "etherscan",
                                !.gaps = gaps]
        /\ UNCHANGED <<searchVars, blockOf, query, stored, wanted, dropped, cache>>
    BY DEF ReadCoverage, Missed, At, InFlight
  <1>2. /\ SearchTypeOK' /\ Shaped' /\ SearchInv' /\ Placed(blockOf)'
        /\ head' = head /\ UNCHANGED <<info, blockOf, query, pc>>
    BY <1>1, SameAddress
  <1>3. /\ pc = "done" /\ walk.page <= MaxPage /\ walk.to \in 0 .. head /\ head \in Nat
        /\ StartingBlock(info) \in 0 .. head
        /\ info \in Info /\ info.creationBlock \in 0 .. head
    BY <1>1, OnItsWay DEF Inv, WalkInv
  <1>4. WalkTypes /\ StoreTypes /\ CacheTypes /\ StoreInv /\ CacheInv
    BY TypesSplit DEF Inv
  <1>5. gaps \in SUBSET (0 .. head)
    BY <1>3
  <1>. HIDE DEF gaps
  <1>6. /\ walk'.step = IF gaps = {} THEN "database" ELSE "etherscan"
        /\ walk'.to = walk.to /\ walk'.page = walk.page
        /\ walk'.first = walk.first /\ walk'.seen = walk.seen /\ walk'.doubt = walk.doubt
    BY <1>1, <1>4 DEF WalkTypes
  <1>7. WalkTypes'
    BY <1>1, <1>2, <1>4, <1>5 DEF WalkTypes
  <1>8. WalkInv'
    <2>1. ~ At("end") /\ Target = walk.to /\ InFlight'
      BY <1>1, <1>6 DEF At, Target, InFlight
    <2>. QED  BY <1>1, <1>3, <1>6, <2>1, WalkGoesOn
  <1>9. StoreTypes' /\ CacheTypes'
    <2>1. BeforeCreation \subseteq 0 .. head
      BY <1>3 DEF BeforeCreation
    <2>. QED  BY <1>1, <1>2, <1>4, <2>1 DEF StoreTypes, CacheTypes
  <1>10. StoreInv'
    <2>1. ASSUME NEW b \in indexed', StartingBlock(info) <= b
          PROVE  TxsIn(b, b) \subseteq stored
      <3>1. \A c \in BeforeCreation : ~ (StartingBlock(info) <= c)
        BY <1>3 DEF BeforeCreation, StartingBlock
      <3>. QED  BY <1>1, <1>4, <2>1, <3>1 DEF StoreInv
    <2>2. At("database")' => StartingBlock(info) .. walk.to \subseteq indexed'
      BY <1>1, <1>6 DEF At, gaps
    <2>3. \A b : TxsIn(b, b)' = TxsIn(b, b)
      BY <1>2 DEF TxsIn
    <2>. QED  BY <1>1, <1>2, <1>6, <2>1, <2>2, <2>3 DEF StoreInv
  <1>11. CacheInv'
    <2>1. \A to, page : DatabasePages(Asked(to), page)' = DatabasePages(Asked(to), page)
      BY <1>2 DEF DatabasePages, Leading, Asked, TxsIn
    <2>. QED  BY <1>1, <1>4, <2>1 DEF CacheInv
  <1>12. TypeOK' /\ SearchFirst'
    BY <1>2, <1>3, <1>7, <1>9, TypesSplitNext DEF SearchFirst
  <1>. QED  BY <1>2, <1>8, <1>10, <1>11, <1>12 DEF Inv

LEMMA EtherscanFailsKeeps ==
    ASSUME Inv, EtherscanFails
    PROVE  Inv'
  <1>1. /\ At("etherscan") \/ At("half")
        /\ UNCHANGED <<searchVars, blockOf, query, indexed, stored, wanted, dropped, cache>>
    BY DEF EtherscanFails
  <1>2. PICK step \in {"half", "fallback"} : walk' = [walk EXCEPT !.step = step]
    BY DEF EtherscanFails
  <1>3. /\ InFlight /\ pc = "done" /\ walk.page <= MaxPage
    BY <1>1 DEF Inv, WalkInv, InFlight, At
  <1>4. /\ SearchTypeOK' /\ Shaped' /\ SearchInv' /\ Placed(blockOf)'
        /\ head' = head /\ pc' = pc
    BY <1>1, SameAddress
  <1>5. WalkTypes
    BY TypesSplit DEF Inv
  <1>6. /\ walk'.step = step /\ walk'.to = walk.to /\ walk'.page = walk.page
        /\ walk'.first = walk.first /\ walk'.seen = walk.seen /\ walk'.doubt = walk.doubt
    BY <1>2, <1>5 DEF WalkTypes
  <1>7. WalkTypes'
    BY <1>2, <1>4, <1>5 DEF WalkTypes
  <1>8. WalkInv'
    <2>1. ~ At("end") /\ Target = walk.to /\ InFlight'
      BY <1>3, <1>6 DEF At, Target, InFlight
    <2>. QED  BY <1>1, <1>3, <1>6, <2>1, WalkGoesOn
  <1>9. StoreTypes' /\ CacheTypes' /\ StoreInv' /\ CacheInv'
    BY <1>1, <1>6, SameStores DEF At
  <1>10. TypeOK' /\ SearchFirst'
    BY <1>3, <1>4, <1>7, <1>9, TypesSplitNext DEF SearchFirst
  <1>. QED  BY <1>4, <1>8, <1>9, <1>10 DEF Inv

LEMMA AgainKeeps ==
    ASSUME Inv, Again
    PROVE  Inv'
  <1>1. /\ At("end") \/ At("rest")
        /\ walk' = NewWalk
        /\ UNCHANGED <<searchVars, blockOf, query, indexed, stored, wanted, dropped, cache>>
    BY DEF Again
  <1>2. /\ SearchTypeOK' /\ Shaped' /\ SearchInv' /\ Placed(blockOf)'
        /\ head' = head /\ pc' = pc /\ head \in Nat
    BY <1>1, SameAddress DEF Inv, SearchInv
  <1>3. WalkTypes' /\ ~ At("database")'
    BY <1>1, <1>2, PagesAssumption DEF WalkTypes, NewWalk, At
  <1>4. StoreTypes' /\ CacheTypes' /\ StoreInv' /\ CacheInv'
    BY <1>1, <1>3, SameStores
  <1>5. TypeOK'
    BY <1>2, <1>3, <1>4, TypesSplitNext
  <1>6. WalkInv'
    <2>1. (NewWalk)' = NewWalk
      BY DEF NewWalk
    <2>2. (TypeOK /\ SearchInv /\ walk = NewWalk)'
      BY <1>1, <1>2, <1>5, <2>1
    <2>. QED  BY <2>2, NewWalkIsSoundNext
  <1>7. SearchFirst'
    <2>1. (NewWalk)' = NewWalk
      BY DEF NewWalk
    <2>. QED  BY <1>1, <1>2, <2>1 DEF Inv, SearchFirst
  <1>. QED  BY <1>2, <1>4, <1>5, <1>6, <1>7 DEF Inv

\* The worker stores a block before the coverage names it.
LEMMA IndexKeeps ==
    ASSUME Inv, Index
    PROVE  Inv'
  <1>1. PICK c \in wanted : IndexBlock(c)
    BY DEF Index
  <1>2. /\ wanted' = wanted \ {c} /\ indexed' = indexed \cup {c}
        /\ stored' = stored \cup TxsIn(c, c)
        /\ UNCHANGED <<searchVars, blockOf, query, walk, dropped, cache>>
    BY <1>1 DEF IndexBlock
  <1>3. /\ SearchTypeOK' /\ Shaped' /\ SearchInv' /\ Placed(blockOf)'
        /\ head' = head /\ UNCHANGED <<info, blockOf, query, pc>>
    BY <1>2, SameAddress
  <1>4. WalkTypes' /\ WalkInv'
    BY <1>2, SameWalk
  <1>5. StoreTypes /\ CacheTypes /\ StoreInv /\ CacheInv /\ SearchFirst
    BY TypesSplit DEF Inv
  <1>6. StoreTypes' /\ CacheTypes'
    <2>1. c \in 0 .. head /\ TxsIn(c, c) \subseteq Tx
      BY <1>1, <1>5 DEF StoreTypes, TxsIn
    <2>. QED  BY <1>2, <1>3, <1>5, <2>1 DEF StoreTypes, CacheTypes
  <1>7. StoreInv'
    <2>1. \A b \in indexed' : StartingBlock(info) <= b => TxsIn(b, b) \subseteq stored'
      BY <1>2, <1>5 DEF StoreInv
    <2>2. \A b : TxsIn(b, b)' = TxsIn(b, b)
      BY <1>3 DEF TxsIn
    <2>3. At("database")' => StartingBlock(info) .. walk.to \subseteq indexed'
      BY <1>2, <1>5 DEF StoreInv, At
    <2>. QED  BY <1>2, <1>3, <2>1, <2>2, <2>3 DEF StoreInv
  <1>8. CacheInv'
    <2>1. \A to, page : DatabasePages(Asked(to), page)' = DatabasePages(Asked(to), page)
      BY <1>3 DEF DatabasePages, Leading, Asked, TxsIn
    <2>. QED  BY <1>2, <1>5, <2>1 DEF CacheInv
  <1>9. TypeOK' /\ SearchFirst'
    <2>1. pc = "done"
      BY <1>1, <1>5 DEF SearchFirst
    <2>. QED  BY <1>3, <1>4, <1>6, <2>1, TypesSplitNext DEF SearchFirst
  <1>. QED  BY <1>3, <1>4, <1>7, <1>8, <1>9 DEF Inv

\* A cache that loses an entry, a job given up, and a step that changes nothing.
LEMMA LosingKeeps ==
    ASSUME Inv, cache' \subseteq cache, wanted' \subseteq wanted, dropped' \in BOOLEAN,
           UNCHANGED <<searchVars, blockOf, query, walk, indexed, stored>>
    PROVE  Inv'
  <1>1. /\ SearchTypeOK' /\ Shaped' /\ SearchInv' /\ Placed(blockOf)'
        /\ head' = head /\ UNCHANGED <<info, blockOf, query, pc>>
    BY SameAddress
  <1>2. WalkTypes' /\ WalkInv'
    BY SameWalk
  <1>3. StoreTypes /\ CacheTypes /\ StoreInv /\ CacheInv /\ SearchFirst
    BY TypesSplit DEF Inv
  <1>4. StoreTypes' /\ CacheTypes'
    BY <1>1, <1>3 DEF StoreTypes, CacheTypes
  <1>5. StoreInv'
    BY <1>1, <1>3 DEF StoreInv, At, TxsIn
  <1>6. CacheInv'
    <2>1. \A to, page : DatabasePages(Asked(to), page)' = DatabasePages(Asked(to), page)
      BY <1>1 DEF DatabasePages, Leading, Asked, TxsIn
    <2>. QED  BY <1>3, <2>1 DEF CacheInv
  <1>7. SearchFirst'
    <2>1. (NewWalk)' = NewWalk
      BY DEF NewWalk
    <2>. QED  BY <1>1, <1>3, <2>1 DEF SearchFirst
  <1>8. TypeOK'
    BY <1>1, <1>2, <1>4, TypesSplitNext
  <1>. QED  BY <1>1, <1>2, <1>5, <1>6, <1>7, <1>8 DEF Inv

LEMMA SearchTypes == SearchInv => SearchTypeOK
  BY AnswerShape

LEMMA SearchTypesNext == SearchInv' => SearchTypeOK'
  BY SearchTypes, PTL

\* Until the search has ended nobody reads.
LEMMA SearchStepKeeps ==
    ASSUME Inv, Search
    PROVE  Inv'
  <1>1. /\ SearchNext /\ pc # "done"
        /\ UNCHANGED <<blockOf, query, walk, indexed, stored, wanted, dropped, cache>>
        /\ created' = created /\ head' = head
    BY DEF Search, pagesVars, SearchNext, SearchStep, CheckCode, StartSearch, NoCodeAtMid,
           CodeAtMid, Answer, GetCodeFails, DetectionFails
  <1>2. /\ walk = NewWalk /\ indexed = {} /\ wanted = {} /\ cache = {}
        /\ (NewWalk)' = NewWalk
    BY <1>1 DEF Inv, SearchFirst, NewWalk
  <1>3. SearchInv'
    BY <1>1, SearchKeeps DEF Inv
  <1>4. SearchTypeOK'
    BY <1>3, SearchTypesNext
  <1>5. Shaped /\ WalkTypes /\ StoreTypes /\ CacheTypes
    BY TypesSplit DEF Inv
  <1>6. Shaped' /\ WalkTypes' /\ StoreTypes' /\ CacheTypes'
    BY <1>1, <1>5 DEF Shaped, WalkTypes, StoreTypes, CacheTypes
  <1>7. TypeOK'
    BY <1>4, <1>6, TypesSplitNext
  <1>8. WalkInv'
    BY <1>1, <1>2, <1>3, <1>7, NewWalkIsSoundNext
  <1>9. StoreInv' /\ CacheInv' /\ SearchFirst'
    BY <1>1, <1>2 DEF StoreInv, CacheInv, SearchFirst, At, NewWalk
  <1>10. Placed(blockOf)'
    BY <1>1 DEF Inv, Placed
  <1>. QED  BY <1>3, <1>7, <1>8, <1>9, <1>10 DEF Inv

(***************************************************************************)
(* A new block.  In the order of the chain it comes behind all pages; in   *)
(* the other one it leaves the rows of the pages so far, or pushes some of *)
(* them to a later page, and the client has got them none the less.        *)
(***************************************************************************)
LEMMA NewBlockKeeps ==
    ASSUME Inv, NewBlock
    PROVE  Inv'
  <1>1. /\ pc = "done" /\ pc' = "done" /\ head' = head + 1
        /\ UNCHANGED <<created, info, blockOf, query, walk, indexed, stored, wanted, dropped, cache>>
    BY DEF NewBlock, pagesVars
  <1>2. /\ TypeOK /\ SearchInv /\ WalkInv /\ Shaped /\ WalkTypes /\ StoreTypes /\ CacheTypes
        /\ head \in Nat
    BY TypesSplit DEF Inv, SearchInv
  <1>3. SearchInv' /\ SearchTypeOK'
    BY <1>2, NewBlockKeepsAnswer, SearchTypesNext
  <1>4. Shaped' /\ Placed(blockOf)'
    BY <1>1, <1>2 DEF Inv, Shaped, Placed
  <1>5. 0 .. head \subseteq 0 .. head' /\ head' \in Nat /\ head <= head'
    BY <1>1, <1>2
  <1>6. WalkTypes'
    <2>. HIDE DEF NoBlock
    <2>. QED  BY <1>1, <1>2, <1>5 DEF WalkTypes
  <1>7. StoreTypes' /\ CacheTypes'
    BY <1>1, <1>2, <1>5 DEF StoreTypes, CacheTypes
  <1>8. TypeOK'
    BY <1>3, <1>4, <1>6, <1>7, TypesSplitNext
  <1>9. /\ ClampTo \in 0 .. head /\ ClampTo <= ClampTo' /\ ClampTo' \in Int
        /\ walk.to \in 0 .. head /\ walk.first \in {NoBlock} \cup 0 .. head
        /\ walk.page \in Nat \ {0} /\ StartingBlock(info) \in Int
    <2>1. ClampTo \in 0 .. head /\ ClampTo <= ClampTo'
      BY <1>1, <1>2, <1>5, ClampToBounds
    <2>2. ClampTo' \in Int
      BY <1>3, <1>8, ClampToBoundsNext
    <2>3. StartingBlock(info) \in Int
      BY <1>1, <1>2, AnswerShape
    <2>. QED  BY <1>2, <2>1, <2>2, <2>3, PagesAssumption DEF WalkTypes
  <1>10. /\ (InFlight' <=> InFlight) /\ (At("end")' <=> At("end"))
         /\ Target' = IF InFlight THEN walk.to ELSE ClampTo'
    BY <1>1 DEF InFlight, At, Target
  <1>11. Target \in Int /\ Target' \in Int /\ Target <= Target'
    BY <1>9, <1>10 DEF Target
  <1>12. \A b : Delivered(b)' = Delivered(b) /\ Own(b)' = Own(b)
    BY <1>1 DEF Delivered, TxsIn, Own
  <1>13. PICK n \in Nat : n = (walk.page - 1) * Limit
    BY <1>9, PagesAssumption
  <1>14. ASSUME NEW b \in 0 .. Target'
         PROVE  Reached(b)' <=>
                  IF query.order = "asc" THEN Delivered(b) = Taken(Asked(Target'), b, n)
                                         ELSE Delivered(b) >= Taken(Asked(Target'), b, n)
    <2>1. Taken(Asked(Target), b, (walk.page - 1) * Limit)' = Taken(Asked(Target'), b, n)
      <3>1. Taken(Asked(Target), b, (walk.page - 1) * Limit)'
               = Taken(Asked(Target'), b, (walk.page - 1) * Limit)
        BY <1>1 DEF Taken, InBlock, Before, Asked, TxsIn
      <3>. QED  BY <1>13, <3>1
    <2>. QED  BY <1>1, <1>12, <2>1 DEF Reached
  <1>15. ASSUME ~ walk.doubt, ~ At("end"), NEW b \in 0 .. Target',
                walk.first # NoBlock => b <= walk.first
         PROVE  Reached(b)'
    <2>1. CASE walk.first # NoBlock
      <3>1. b \in 0 .. Target /\ b \in Int /\ b <= Target
        BY <1>2, <1>9, <1>11, <1>15, <2>1 DEF WalkInv
      <3>2. Reached(b)
        BY <1>2, <1>15, <2>1, <3>1 DEF WalkInv
      <3>3. /\ Taken(Asked(Target), b, n) \in Nat /\ Taken(Asked(Target'), b, n) \in Nat
            /\ Taken(Asked(Target'), b, n) <= Taken(Asked(Target), b, n)
            /\ query.order = "asc" =>
                  Taken(Asked(Target'), b, n) = Taken(Asked(Target), b, n)
        <4>1. PICK to \in Int, later \in Int : to = Target /\ later = Target'
          BY <1>11
        <4>2. /\ to <= later /\ b <= to /\ b \in Int /\ n \in Nat /\ Shaped
              /\ StartingBlock(info) \in Int
          BY <1>2, <1>9, <1>11, <3>1, <4>1
        <4>3. /\ Taken(Asked(later), b, n) \in Nat /\ Taken(Asked(to), b, n) \in Nat
              /\ Taken(Asked(later), b, n) <= Taken(Asked(to), b, n)
          BY <4>2, TakenLater
        <4>4. query.order = "asc" => Taken(Asked(later), b, n) = Taken(Asked(to), b, n)
          BY <4>2, TakenLater
        <4>. QED  BY <4>1, <4>3, <4>4
      <3>4. Delivered(b) \in Nat
        BY <1>2, DeliveredFinite DEF WalkTypes
      <3>5. IF query.order = "asc" THEN Delivered(b) = Taken(Asked(Target), b, n)
                                   ELSE Delivered(b) >= Taken(Asked(Target), b, n)
        BY <1>13, <3>2 DEF Reached
      <3>. QED  BY <1>14, <3>3, <3>4, <3>5
    <2>2. CASE walk.first = NoBlock
      <3>1. walk.page = 1 /\ walk.seen = [t \in Tx |-> 0]
        BY <1>2, <2>2 DEF WalkInv
      <3>2. n = 0 /\ Delivered(b) = 0
        BY <1>13, <3>1, NothingDelivered, PagesAssumption
      <3>3. Taken(Asked(Target'), b, 0) = 0
        <4>1. Asked(Target') \in SUBSET Tx /\ b \in Int
          BY <1>11 DEF Asked, TxsIn
        <4>. QED  BY <1>2, <4>1, TakenBounds
      <3>. QED  BY <1>14, <3>2, <3>3
    <2>. QED  BY <2>1, <2>2
  <1>16. WalkInv'
    <2>1. (InFlight => pc = "done" /\ walk.page <= MaxPage /\ walk.to <= ClampTo)'
      BY <1>1, <1>2, <1>9, <1>10 DEF WalkInv
    <2>2. (walk.first = NoBlock =>
             ~ At("end") /\ walk.page = 1 /\ walk.seen = [t \in Tx |-> 0])'
      BY <1>1, <1>2, <1>10 DEF WalkInv
    <2>3. (~ At("end") /\ walk.first # NoBlock => walk.first <= Target)'
      BY <1>1, <1>2, <1>9, <1>10, <1>11 DEF WalkInv
    <2>4. (~ walk.doubt /\ ~ At("end") =>
             \A b \in 0 .. Target : (walk.first # NoBlock => b <= walk.first) => Reached(b))'
      BY <1>1, <1>10, <1>15
    <2>5. (~ walk.doubt /\ At("end") =>
             \A b \in 0 .. walk.first :
                IF query.order = "asc" THEN Delivered(b) = Cardinality(Own(b))
                                       ELSE Delivered(b) >= Cardinality(Own(b)))'
      BY <1>1, <1>2, <1>10, <1>12 DEF WalkInv
    <2>. QED  BY <2>1, <2>2, <2>3, <2>4, <2>5 DEF WalkInv
  <1>17. StoreInv'
    BY <1>1 DEF Inv, StoreInv, At, TxsIn
  <1>18. CacheInv'
    <2>1. \A to, page : DatabasePages(Asked(to), page)' = DatabasePages(Asked(to), page)
      BY <1>1 DEF DatabasePages, Leading, Asked, TxsIn
    <2>. QED  BY <1>1, <2>1 DEF Inv, CacheInv
  <1>19. SearchFirst'
    BY <1>1 DEF SearchFirst
  <1>. QED  BY <1>3, <1>4, <1>8, <1>16, <1>17, <1>18, <1>19 DEF Inv

-----------------------------------------------------------------------------
(* What always holds *)

LEMMA InitInv == Init => Inv
  <1>. SUFFICES ASSUME Init PROVE Inv
    OBVIOUS
  <1>1. /\ head \in Nat /\ created \in 0 .. head \cup {NoBlock}
        /\ low = 0 /\ high = 0 /\ creationBlock = 0
        /\ info = Unknown /\ faulted = FALSE /\ pc = "code"
        /\ query \in Query /\ walk = NewWalk
        /\ indexed = {} /\ stored = {} /\ wanted = {} /\ dropped = FALSE /\ cache = {}
    BY HeadAssumption DEF Init, SearchInit
  <1>2. SearchInv
    BY <1>1 DEF SearchInv
  <1>3. blockOf \in [Tx -> Nat] /\ Placed(blockOf)
    <2>1. CASE head > LastBlock
      <3>1. blockOf = [t \in Tx |-> head]
        BY <2>1 DEF Init
      <3>2. created <= head
        BY <1>1 DEF NoBlock
      <3>. QED  BY <1>1, <3>1, <3>2 DEF Placed
    <2>2. CASE ~ (head > LastBlock)
      <3>1. blockOf \in [Tx -> 0 .. LastBlock] /\ Placed(blockOf)
        BY <2>2 DEF Init
      <3>2. 0 .. LastBlock \subseteq Nat
        BY PagesAssumption
      <3>. QED  BY <3>1, <3>2
    <2>. QED  BY <2>1, <2>2
  <1>4. WalkTypes
    BY <1>1, PagesAssumption DEF WalkTypes, NewWalk
  <1>5. TypeOK
    BY <1>1, <1>2, <1>3, <1>4, SearchTypes, TypesSplit DEF Shaped, StoreTypes, CacheTypes
  <1>6. WalkInv
    BY <1>1, <1>2, <1>5, NewWalkIsSound
  <1>7. SearchFirst /\ StoreInv /\ CacheInv
    BY <1>1 DEF SearchFirst, StoreInv, CacheInv, At, NewWalk
  <1>. QED  BY <1>2, <1>3, <1>5, <1>6, <1>7 DEF Inv

LEMMA NextInv == Inv /\ [Next]_vars => Inv'
  <1>. SUFFICES ASSUME Inv, [Next]_vars PROVE Inv'
    OBVIOUS
  <1>0. dropped \in BOOLEAN
    BY DEF Inv, TypeOK
  <1>1. CASE Search
    BY <1>1, SearchStepKeeps
  <1>2. CASE AskPage
    BY <1>2, AskPageKeeps
  <1>3. CASE Respond
    BY <1>3, CacheHitKeeps, ServeEmptyKeeps, ReadCoverageKeeps, ServeDatabaseKeeps,
       ServeEtherscanKeeps, ServeHalfKeeps, ServeFallbackKeeps DEF Respond
  <1>4. CASE EtherscanFails
    BY <1>4, EtherscanFailsKeeps
  <1>5. CASE Again
    BY <1>5, AgainKeeps
  <1>6. CASE Index
    BY <1>6, IndexKeeps
  <1>7. CASE \E page \in 1 .. MaxPage : ExpireEntry(page)
    <2>1. /\ cache' \subseteq cache /\ wanted' \subseteq wanted /\ dropped' \in BOOLEAN
          /\ UNCHANGED <<searchVars, blockOf, query, walk, indexed, stored>>
      BY <1>0, <1>7 DEF ExpireEntry
    <2>. QED  BY <2>1, LosingKeeps
  <1>8. CASE NewBlock
    BY <1>8, NewBlockKeeps
  <1>9. CASE GiveUp
    <2>1. /\ cache' \subseteq cache /\ wanted' \subseteq wanted /\ dropped' \in BOOLEAN
          /\ UNCHANGED <<searchVars, blockOf, query, walk, indexed, stored>>
      BY <1>9 DEF GiveUp
    <2>. QED  BY <2>1, LosingKeeps
  <1>10. CASE UNCHANGED vars
    <2>1. /\ cache' \subseteq cache /\ wanted' \subseteq wanted /\ dropped' \in BOOLEAN
          /\ UNCHANGED <<searchVars, blockOf, query, walk, indexed, stored>>
      BY <1>0, <1>10 DEF vars, searchVars
    <2>. QED  BY <2>1, LosingKeeps
  <1>. QED
    BY <1>1, <1>2, <1>3, <1>4, <1>5, <1>6, <1>7, <1>8, <1>9, <1>10 DEF Next, Terminated

LEMMA AlwaysInv == Spec => []Inv
  BY InitInv, NextInv, PTL DEF Spec

(***************************************************************************)
(* The variables of a search and of the requests that go on from it keep   *)
(* their types; the cache has one entry for a key at most.                 *)
(***************************************************************************)
THEOREM TxPagesTypes == Spec => []TypeOK
  <1>1. Inv => TypeOK
    BY DEF Inv
  <1>. QED  BY <1>1, AlwaysInv, PTL

(***************************************************************************)
(* Whenever calls throw during the search and however the binary search    *)
(* goes on after them (findContractCreationBlock), the answer is among     *)
(* those TxPipeline takes a discovery to have, also when the chain has     *)
(* grown since; and it is the truth if no call has thrown.                 *)
(***************************************************************************)
THEOREM AnswersAreDiscoverable == Spec => []AnswerAsSpecified
  <1>1. Inv => AnswerAsSpecified
    BY DEF Inv, SearchInv, AnswerAsSpecified
  <1>. QED  BY <1>1, AlwaysInv, PTL

LEMMA ReadAll ==
    ASSUME Inv
    PROVE  NothingMissed
  <1>. SUFFICES ASSUME At("end"), ~ walk.doubt,
                       ~ (created < StartingBlock(info) /\ created # NoBlock),
                       NEW b \in 0 .. walk.first
                PROVE  IF query.order = "asc"
                       THEN Delivered(b) = Cardinality(TxsIn(b, b))
                       ELSE Delivered(b) >= Cardinality(TxsIn(b, b))
    BY DEF NothingMissed
  <1>1. /\ SearchInv /\ Shaped /\ Placed(blockOf) /\ WalkInv /\ WalkTypes /\ SearchFirst
    BY TypesSplit DEF Inv
  <1>2. pc = "done"
    BY <1>1 DEF SearchFirst, NewWalk, At
  <1>3. ASSUME NEW t \in Tx
        PROVE  StartingBlock(info) <= blockOf[t]
    <2>1. blockOf[t] \in Nat /\ StartingBlock(info) \in Int
      BY <1>1, <1>2, AnswerShape DEF Shaped, SearchInv
    <2>2. CASE created = NoBlock
      <3>1. info = EOA
        BY <1>1, <1>2, <2>2 DEF SearchInv, Discoverable, Truth, HasCode
      <3>. QED  BY <2>1, <3>1 DEF StartingBlock, EOA
    <2>3. CASE created # NoBlock
      <3>1. created \in Int /\ StartingBlock(info) <= created /\ created <= blockOf[t]
        BY <1>1, <2>1, <2>3 DEF SearchInv, Placed
      <3>. QED  BY <2>1, <3>1
    <2>. QED  BY <2>2, <2>3
  <1>4. Own(b) = TxsIn(b, b)
    <2>1. b \in Int /\ \A t \in Tx : blockOf[t] \in Int
      BY <1>1 DEF Shaped, WalkTypes
    <2>2. \A t \in Tx : blockOf[t] = b => StartingBlock(info) <= b
      BY <1>3
    <2>. QED  BY <2>1, <2>2 DEF Own, TxsIn
  <1>5. IF query.order = "asc" THEN Delivered(b) = Cardinality(Own(b))
                               ELSE Delivered(b) >= Cardinality(Own(b))
    BY <1>1 DEF WalkInv
  <1>. QED  BY <1>4, <1>5

(***************************************************************************)
(* The client of getTransactions who reads until hasMore is false misses   *)
(* nothing, page by page from whatever source: not for any number of       *)
(* transactions, however they lie in the blocks and however a sort breaks  *)
(* the ties of a block from one page to the next.                          *)
(***************************************************************************)
THEOREM NothingIsMissed == Spec => []NothingMissed
  <1>1. Inv => NothingMissed
    BY ReadAll
  <1>. QED  BY <1>1, AlwaysInv, PTL

\* The rows themselves, of blocks with a single one: there the sort has no tie.
LoneRowsRead ==
    LET Finished == At("end") /\ ~walk.doubt
        Misled   == created < StartingBlock(info) /\ created # NoBlock
        Alone(t) == \A u \in Tx : blockOf[u] = blockOf[t] => u = t
    IN  Finished /\ ~Misled =>
            \A t \in Tx : Alone(t) /\ blockOf[t] <= walk.first =>
                IF query.order = "asc" THEN walk.seen[t] = 1 ELSE walk.seen[t] >= 1

(***************************************************************************)
(* A transaction that is the address's only one in its block reaches the   *)
(* client itself, and only once in the order of the chain: that pages from *)
(* the database may repeat one row and never show another                  *)
(* (getExistingTransactionsPaginated) takes a tie.                         *)
(***************************************************************************)
THEOREM LoneRowsComeOnce == Spec => []LoneRowsRead
  <1>1. ASSUME Inv
        PROVE  LoneRowsRead
    <2>. SUFFICES ASSUME At("end"), ~ walk.doubt,
                         ~ (created < StartingBlock(info) /\ created # NoBlock),
                         NEW t \in Tx, \A u \in Tx : blockOf[u] = blockOf[t] => u = t,
                         blockOf[t] <= walk.first
                  PROVE  IF query.order = "asc" THEN walk.seen[t] = 1 ELSE walk.seen[t] >= 1
      BY DEF LoneRowsRead
    <2>1. PICK b \in Nat, n \in Nat : b = blockOf[t] /\ n = walk.seen[t]
      BY <1>1, ShapedHolds DEF Inv, Shaped
    <2>2. TxsIn(b, b) = {t}
      <3>1. \A u \in Tx : blockOf[u] \in Int
        BY <1>1, ShapedHolds DEF Inv, Shaped
      <3>. QED  BY <2>1, <3>1 DEF TxsIn
    <2>3. Cardinality(TxsIn(b, b)) = 1
      BY <2>2, FS_Singleton
    <2>4. Delivered(b) = n
      <3>1. IsFiniteSet({t}) /\ Cardinality({t}) = 1
        BY FS_Singleton
      <3>2. IsFiniteSet(1 .. n) /\ Cardinality(1 .. n) = n
        BY FS_Interval
      <3>3. Cardinality({t} \X (1 .. n)) = n
        <4>1. ASSUME NEW S, IsFiniteSet(S), Cardinality(S) = 1,
                     NEW T, IsFiniteSet(T), Cardinality(T) = n
              PROVE  Cardinality(S \X T) = n
          <5>1. Cardinality(S \X T) = Cardinality(S) * Cardinality(T)
            BY <4>1, FS_Product
          <5>2. 1 * n = n
            BY <2>1
          <5>. QED  BY <4>1, <5>1, <5>2
        <4>. QED  BY <3>1, <3>2, <4>1
      <3>4. UNION {{u} \X (1 .. walk.seen[u]) : u \in TxsIn(b, b)} = {t} \X (1 .. n)
        BY <2>1, <2>2
      <3>. QED  BY <3>3, <3>4 DEF Delivered
    <2>5. b \in 0 .. walk.first
      <3>1. walk.first \in Int
        BY <1>1, TypesSplit, SearchTypes DEF Inv, WalkTypes, NoBlock, SearchInv
      <3>. QED  BY <2>1, <3>1
    <2>6. IF query.order = "asc" THEN Delivered(b) = 1 ELSE Delivered(b) >= 1
      BY <1>1, <2>3, <2>5, ReadAll DEF NothingMissed
    <2>. QED  BY <2>1, <2>4, <2>6
  <1>2. Inv => LoneRowsRead
    BY <1>1
  <1>. QED  BY <1>2, AlwaysInv, PTL
============================================================================
