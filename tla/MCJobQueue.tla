----------------------------- MODULE MCJobQueue -----------------------------
(* JobSplitter for every list of up to two gaps in blocks 0 .. LastBlock and  *)
(* every range in them; LastBlock + 1 is not a multiple of the sizes, so     *)
(* that last pieces come out short, exact and of one block.  Jobs of one,    *)
(* two and three blocks have the three priorities.                           *)
EXTENDS JobQueue

CONSTANT LastBlock

MCRanges == {Range2(f, t) : f \in 0 .. LastBlock, t \in 0 .. LastBlock}

MCTimedOut == {r \in MCRanges : r.fromBlock <= r.toBlock}

MCGapLists == {<<g>> : g \in MCTimedOut} \cup
              {gs \in MCTimedOut \X MCTimedOut : gs[1].toBlock < gs[2].fromBlock}
=============================================================================
