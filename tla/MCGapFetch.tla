---------------------------- MODULE MCGapFetch -----------------------------
(* GapFetch over every gap of blocks 0 .. LastBlock and every way to spread  *)
(* the transactions over those blocks, up to their names: t1 .. t6 in block  *)
(* order.                                                                   *)
EXTENDS GapFetch

CONSTANTS t1, t2, t3, t4, t5, t6, LastBlock

MCTx == {t1, t2, t3, t4, t5, t6}

MCChains == {c \in [MCTx -> 0 .. LastBlock] :
               /\ c[t1] <= c[t2] /\ c[t2] <= c[t3] /\ c[t3] <= c[t4]
               /\ c[t4] <= c[t5] /\ c[t5] <= c[t6]}

MCGap == {g \in [fromBlock : 0 .. LastBlock, toBlock : 0 .. LastBlock] :
            g.fromBlock <= g.toBlock}
============================================================================
