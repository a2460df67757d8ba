----------------------------- MODULE MCCleanup ------------------------------
(* Instance of Cleanup for TLC. *)
EXTENDS Cleanup
=============================================================================
