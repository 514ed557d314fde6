---------------------------- MODULE MCGapFinder ----------------------------
(* GapFinder over blocks 0 .. LastBlock: every set of up to MaxRows rows,    *)
(* inverted ones included, against every request, an empty range included   *)
(* (a request that starts above the chain's head).                          *)
EXTENDS GapFinder

CONSTANT LastBlock

MCRows == {r \in {Range2(f, t) : f \in 0 .. LastBlock, t \in -1 .. LastBlock} :
             r.fromBlock <= r.toBlock + 1}

MCRequests == {Range2(f, t) : f \in 0 .. LastBlock, t \in 0 .. LastBlock}
============================================================================
