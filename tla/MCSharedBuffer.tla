---------------------------- MODULE MCSharedBuffer ----------------------------
(* Small instances of SharedBuffer for TLC. *)
EXTENDS SharedBuffer, TLC

Symmetry == Permutations(Addr) \cup Permutations(Session)
=============================================================================
