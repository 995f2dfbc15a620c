-------------------------- MODULE MCAddressSpaceCow --------------------------
(* Three address spaces for TLC. *)
EXTENDS AddressSpaceCow, TLC

\* Sound for the invariants and the refinement: no name plays a part.
CowSymmetry == Permutations(Space) \cup Permutations(Object) \cup
               Permutations(Cell) \cup Permutations(Value)
=============================================================================
