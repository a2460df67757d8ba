---------------------------- MODULE MCCollector -----------------------------
(* Instance of Collector for TLC. *)
EXTENDS Collector, TLC

\* The collections are those of number 2 and, where there is a second one, 3.
AllOperations == Operation
Unrestricted  == [n \in 2 .. 3 |-> Operation]
NoMutators    == [n \in 2 .. 3 |-> {}]
NoClones      == [n \in 2 .. 3 |-> Operation \ {"clone"}]
DropsOrClones == [n \in 2 .. 3 |-> Operation \ (IF n = 2 THEN {"drop"} ELSE {"clone"})]

Symmetry == Permutations(Data) \cup Permutations(Handle)
=============================================================================
