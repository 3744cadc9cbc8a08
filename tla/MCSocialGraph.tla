--------------------------- MODULE MCSocialGraph ---------------------------
(* Model-checking instance of SocialGraph. *)
EXTENDS SocialGraph, TLC

Symmetry == Permutations(User) \cup Permutations(Worker)
=============================================================================
