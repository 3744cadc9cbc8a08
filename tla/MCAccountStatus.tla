-------------------------- MODULE MCAccountStatus --------------------------
(* Model-checking instance of AccountStatus: bounds are in the .cfg files. *)
EXTENDS AccountStatus
=============================================================================
