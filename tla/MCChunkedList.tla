---------------------------- MODULE MCChunkedList ----------------------------
(* Instance of ChunkedList for TLC. *)
EXTENDS ChunkedList
=============================================================================
