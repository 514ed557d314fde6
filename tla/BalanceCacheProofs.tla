------------------------- MODULE BalanceCacheProofs -------------------------
(***************************************************************************)
(* What holds of BalanceCache for any number of requests, any lives of the *)
(* entries and any bounds, with failing calls.                             *)
(***************************************************************************)
EXTENDS BalanceCache, TLAPS

\* Inductive as it stands, the types given.
IInv == TypeOK /\ EndlessOnlyAfterFailure

\* Every variable stays within its bound.
LEMMA TypesKept ==
    ASSUME TypeOK, Next
    PROVE  TypeOK'
  <1>1. ASSUME NEW h \in Handler, StartFetch(h)
        PROVE  TypeOK'
    BY <1>1 DEF StartFetch, TypeOK
  <1>2. ASSUME NEW h \in Handler, NEW field \in {"at", "block"},
               ProviderAnswers(h, field)
        PROVE  TypeOK'
    BY <1>2 DEF ProviderAnswers, TypeOK, none, BalanceType
  <1>3. ASSUME NEW h \in Handler, SaveBalance(h)
        PROVE  TypeOK'
    BY <1>3 DEF SaveBalance, TypeOK
  <1>4. ASSUME NEW h \in Handler, HSet(h)
        PROVE  TypeOK'
    BY <1>4 DEF HSet, TypeOK
  <1>5. ASSUME NEW h \in Handler, Expire(h)
        PROVE  TypeOK'
    BY <1>5, BalanceCacheAssumption DEF Expire, TypeOK, none, BalanceType,
       NoBalance, Idle
  <1>6. ASSUME NEW h \in Handler, GetTransactionCount(h)
        PROVE  TypeOK'
    <2>. DEFINE Steps == {"idle", "fetch", "hset", "expire", "cacheCount"}
                Kept  == [pc |-> "cacheCount", balance |-> NoBalance,
                          count |-> stored]
    <2>1. Kept \in [pc : Steps, balance : BalanceType, count : none .. MaxCount]
      <3>1. NoBalance \in BalanceType
        BY BalanceCacheAssumption DEF NoBalance, BalanceType, none
      <3>2. stored \in none .. MaxCount
        BY BalanceCacheAssumption DEF TypeOK, none
      <3>. QED  BY <3>1, <3>2
    <2>. QED  BY <1>6, <2>1 DEF GetTransactionCount, TypeOK
  <1>7. ASSUME NEW h \in Handler, SetCount(h)
        PROVE  TypeOK'
    BY <1>7, BalanceCacheAssumption DEF SetCount, TypeOK, none, BalanceType,
       Idle, NoBalance
  <1>8. ASSUME NEW h \in Handler, ProviderFails(h)
        PROVE  TypeOK'
    BY <1>8, BalanceCacheAssumption DEF ProviderFails, TypeOK, none,
       BalanceType, Idle, NoBalance
  <1>9. ASSUME NEW h \in Handler, HSetFails(h)
        PROVE  TypeOK'
    BY <1>9, BalanceCacheAssumption DEF HSetFails, TypeOK, none, BalanceType,
       Idle, NoBalance
  <1>10. ASSUME NEW h \in Handler, ExpireFails(h)
        PROVE  TypeOK'
    BY <1>10, BalanceCacheAssumption DEF ExpireFails, TypeOK, none,
       BalanceType, Idle, NoBalance
  <1>11. ASSUME NEW h \in Handler, SetCountFails(h)
        PROVE  TypeOK'
    BY <1>11, BalanceCacheAssumption DEF SetCountFails, TypeOK, none,
       BalanceType, Idle, NoBalance
  <1>12. CASE NewBlock
    BY <1>12, BalanceCacheAssumption DEF NewBlock, TypeOK
  <1>13. CASE StoreTransaction
    BY <1>13, BalanceCacheAssumption DEF StoreTransaction, TypeOK
  <1>14. CASE Tick
    BY <1>14, BalanceCacheAssumption DEF Tick, TypeOK, none, BalanceType,
       NoBalance
  <1>. QED  BY <1>1, <1>2, <1>3, <1>4, <1>5, <1>6, <1>7, <1>8, <1>9, <1>10,
               <1>11, <1>12, <1>13, <1>14 DEF Next, Answer, Break

\* Only a request that goes on to EXPIRE leaves an entry without an end.
LEMMA EndlessKept ==
    ASSUME TypeOK, EndlessOnlyAfterFailure, Next
    PROVE  EndlessOnlyAfterFailure'
  <1>1. ASSUME NEW h \in Handler, StartFetch(h)
        PROVE  EndlessOnlyAfterFailure'
    BY <1>1 DEF StartFetch, EndlessOnlyAfterFailure, Idle
  <1>2. ASSUME NEW h \in Handler, NEW field \in {"at", "block"},
               ProviderAnswers(h, field)
        PROVE  EndlessOnlyAfterFailure'
    BY <1>2 DEF ProviderAnswers, EndlessOnlyAfterFailure
  <1>3. ASSUME NEW h \in Handler, SaveBalance(h)
        PROVE  EndlessOnlyAfterFailure'
    BY <1>3 DEF SaveBalance, EndlessOnlyAfterFailure
  <1>4. ASSUME NEW h \in Handler, HSet(h)
        PROVE  EndlessOnlyAfterFailure'
    BY <1>4 DEF HSet, TypeOK, EndlessOnlyAfterFailure
  <1>5. ASSUME NEW h \in Handler, Expire(h)
        PROVE  EndlessOnlyAfterFailure'
    BY <1>5, BalanceCacheAssumption DEF Expire, EndlessOnlyAfterFailure
  <1>6. ASSUME NEW h \in Handler, GetTransactionCount(h)
        PROVE  EndlessOnlyAfterFailure'
    BY <1>6 DEF GetTransactionCount, EndlessOnlyAfterFailure, Idle
  <1>7. ASSUME NEW h \in Handler, SetCount(h)
        PROVE  EndlessOnlyAfterFailure'
    BY <1>7 DEF SetCount, EndlessOnlyAfterFailure
  <1>8. ASSUME NEW h \in Handler, ProviderFails(h)
        PROVE  EndlessOnlyAfterFailure'
    BY <1>8 DEF ProviderFails, EndlessOnlyAfterFailure
  <1>9. ASSUME NEW h \in Handler, HSetFails(h)
        PROVE  EndlessOnlyAfterFailure'
    BY <1>9 DEF HSetFails, EndlessOnlyAfterFailure
  <1>10. ASSUME NEW h \in Handler, ExpireFails(h)
        PROVE  EndlessOnlyAfterFailure'
    BY <1>10 DEF ExpireFails, EndlessOnlyAfterFailure
  <1>11. ASSUME NEW h \in Handler, SetCountFails(h)
        PROVE  EndlessOnlyAfterFailure'
    BY <1>11 DEF SetCountFails, EndlessOnlyAfterFailure
  <1>12. CASE NewBlock
    BY <1>12 DEF NewBlock, EndlessOnlyAfterFailure
  <1>13. CASE StoreTransaction
    BY <1>13 DEF StoreTransaction, EndlessOnlyAfterFailure
  <1>14. CASE Tick
    BY <1>14 DEF Tick, EndlessOnlyAfterFailure
  <1>. QED  BY <1>1, <1>2, <1>3, <1>4, <1>5, <1>6, <1>7, <1>8, <1>9, <1>10,
               <1>11, <1>12, <1>13, <1>14 DEF Next, Answer, Break

(***************************************************************************)
(* The invariant is inductive, for every instance.                         *)
(***************************************************************************)
THEOREM Invariance == Spec => []IInv
  <1>1. Init => IInv
    <2>. SUFFICES ASSUME Init PROVE IInv
      OBVIOUS
    <2>. none \in none .. MaxCount /\ none \in none .. MaxBlock
      BY BalanceCacheAssumption DEF none
    <2>1. NoBalance \in BalanceType
      BY DEF NoBalance, BalanceType
    <2>2. TypeOK
      <3>1. Idle \in [pc : {"idle", "fetch", "hset", "expire", "cacheCount"},
                     balance : BalanceType, count : none .. MaxCount]
        BY <2>1 DEF Idle
      <3>2. /\ 0 \in 0 .. MaxBlock /\ 0 \in 0 .. MaxCount
            /\ 0 \in 0 .. BalanceTTL /\ 0 \in 0 .. CountTTL
        BY BalanceCacheAssumption
      <3>. QED  BY <2>1, <3>1, <3>2 DEF Init, TypeOK
    <2>3. EndlessOnlyAfterFailure
      BY DEF Init, EndlessOnlyAfterFailure
    <2>. QED  BY <2>2, <2>3 DEF IInv
  <1>2. IInv /\ [Next]_vars => IInv'
    <2>. SUFFICES ASSUME IInv, [Next]_vars
                  PROVE  IInv'
      OBVIOUS
    <2>1. CASE Next
      BY <2>1, TypesKept, EndlessKept DEF IInv
    <2>2. CASE UNCHANGED vars
      BY <2>2 DEF vars, IInv, TypeOK, EndlessOnlyAfterFailure
    <2>. QED  BY <2>1, <2>2
  <1>. QED  BY <1>1, <1>2, PTL DEF Spec

(***************************************************************************)
(* A cached balance without an end is about to get one, unless an EXPIRE   *)
(* has failed.                                                             *)
(***************************************************************************)
THEOREM EntriesEnd == Spec => []EndlessOnlyAfterFailure
  <1>1. IInv => EndlessOnlyAfterFailure
    BY DEF IInv
  <1>. QED  BY <1>1, Invariance, PTL

(***************************************************************************)
(* Every variable stays within its bound, the labels of balances and the   *)
(* lives of entries among them.                                            *)
(***************************************************************************)
THEOREM BalanceCacheTypes == Spec => []TypeOK
  <1>1. IInv => TypeOK
    BY DEF IInv
  <1>. QED  BY <1>1, Invariance, PTL
=============================================================================
