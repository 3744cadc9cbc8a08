----------------------------- MODULE MCReports -----------------------------
(* Reports on small instances: two threads, one post, one message. *)
EXTENDS Reports, TLC

Symmetry == Permutations(Worker)
=============================================================================
