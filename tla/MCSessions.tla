----------------------------- MODULE MCSessions -----------------------------
(* Sessions of one user with two requests in flight. *)
EXTENDS Sessions, TLC

Symmetry == Permutations(Session) \cup Permutations(Proc)
=============================================================================
