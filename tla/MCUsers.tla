------------------------------ MODULE MCUsers -------------------------------
(* Two users, two of every value, two requests in flight. *)
EXTENDS Users, TLC

Symmetry == Permutations(User) \cup Permutations(Email) \cup Permutations(Name)
              \cup Permutations(Password) \cup Permutations(Session)
              \cup Permutations(Proc)
=============================================================================
