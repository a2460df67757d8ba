----------------------------- MODULE MCAtomicGc -----------------------------
(* Instance of AtomicGc for TLC. *)
EXTENDS AtomicGc
=============================================================================
