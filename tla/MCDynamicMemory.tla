-------------------------- MODULE MCDynamicMemory --------------------------
(* A small instance of DynamicMemory for TLC. *)
EXTENDS DynamicMemory, TLC

Symmetry == Permutations(Root)
=============================================================================
