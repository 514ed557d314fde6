--------------------------- MODULE MCBalanceCache ---------------------------
(* Two requests for one address, of a balance or a count each, while a block *)
(* and a transaction arrive.                                                 *)
EXTENDS BalanceCache

CONSTANTS h1, h2

TwoHandlers == {h1, h2}
=============================================================================
