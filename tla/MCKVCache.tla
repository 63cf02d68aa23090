------------------------------ MODULE MCKVCache ------------------------------
(* A .cfg cannot write a negative number. *)
EXTENDS KVCache

NoLimitOfSize == NoLimit
=============================================================================
