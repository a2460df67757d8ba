------------------------------ MODULE MCValues -------------------------------
(* Values of at most MaxParts parts. *)
EXTENDS Values
==============================================================================
