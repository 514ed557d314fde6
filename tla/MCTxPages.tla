----------------------------- MODULE MCTxPages -----------------------------
(* The search on chains of up to MaxHead + 1 blocks, powers of two and their  *)
(* neighbours among them; pages of the shorter ones, for every placement of   *)
(* the transactions in their blocks.                                          *)
EXTENDS TxPages

CONSTANTS MaxHead, MaxTx

MCHead == 0 .. MaxHead

MCTx == 1 .. MaxTx

\* Block 1 may come behind the pages (ascending) or in front of them; blocks after
\* it are out of the range, and so is the whole history if it begins in block 2.
MCQuery == [to : {1}, order : {"asc", "desc"}]
============================================================================
