------------------------------ MODULE MCPhotos ------------------------------
(* Model-checking instance of Photos and Profiles. *)
EXTENDS Photos, TLC

Symmetry == Permutations(Worker)
=============================================================================
