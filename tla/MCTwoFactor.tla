---------------------------- MODULE MCTwoFactor ----------------------------
(* Model-checking instance of TwoFactor: bounds are in the .cfg files. *)
EXTENDS TwoFactor
=============================================================================
