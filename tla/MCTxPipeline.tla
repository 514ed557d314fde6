--------------------------- MODULE MCTxPipeline ----------------------------
(* Small instances of TxPipeline: blocks 0 .. 1 or 0 .. 2, a transaction in  *)
(* block 1 and one in block 2, which may appear while the system runs, or   *)
(* none, where it is about jobs only.                                       *)
EXTENDS TxPipeline, TLC

CONSTANTS a1, a2, t1, t2, h1, h2, s1, s2, none

OneAddress   == {a1}
TwoAddresses == {a1, a2}

MCTx      == {t1, t2}
NoTx      == {}
NoBlocks  == << >>
MCBlockOf == t1 :> 1 @@ t2 :> 2

\* All transactions are a1's.
OwnTxs == [t \in MCTx |-> {a1}]
\* Nobody modelled takes part in t1.
LateTxs == t1 :> {} @@ t2 :> {a1}
\* t2 is a transfer between a1 and a2.
SharedTxs == t1 :> {a1} @@ t2 :> {a1, a2}

NoContract    == [a \in Address |-> NoBlock]
ContractAtTwo == [a \in Address |-> IF a = a1 THEN 2 ELSE NoBlock]

Q(f, t, o) == [from |-> f, to |-> t, order |-> o]

OpenQuery   == {Q(0, NoBlock, "asc")}
EarlyQuery  == {Q(0, NoBlock, "asc"), Q(0, 1, "asc")}

OneHandler  == {h1}
TwoHandlers == {h1, h2}
OneSlot     == {s1}
TwoSlots    == {s1, s2}

\* The two handlers and the two slots are alike.
Alike == Permutations(TwoHandlers) \cup Permutations(TwoSlots)
============================================================================
