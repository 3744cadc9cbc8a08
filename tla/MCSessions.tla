----------------------------- MODULE MCSessions -----------------------------
(* Model-checking instance of Sessions: bounds are in the .cfg files. *)
EXTENDS Sessions, TLC

\* For the runs without liveness properties.
Symmetry == Permutations(Worker)
=============================================================================
