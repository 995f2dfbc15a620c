--------------------------- MODULE MCExecutorTree ---------------------------
(* Instances of ExecutorTree for TLC. *)
EXTENDS ExecutorTree

Symmetry == Permutations(State \ {InitialState}) \cup Permutations(Seeds)
=============================================================================
