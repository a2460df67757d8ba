----------------------------- MODULE MCGuarded ------------------------------
(* Instance of Guarded for TLC. *)
EXTENDS Guarded
=============================================================================
