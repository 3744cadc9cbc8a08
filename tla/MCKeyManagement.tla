-------------------------- MODULE MCKeyManagement --------------------------
(* Model-checking instance of KeyManagement. *)
EXTENDS KeyManagement, TLC

Symmetry == Permutations(User) \cup Permutations(Worker)
=============================================================================
