---------------------------- MODULE MCModelStore ----------------------------
(* A small instance of ModelStore for TLC: two files, of which the first is   *)
(* read in two pieces, and two tasks, which are alike.                        *)
EXTENDS ModelStore, TLC

MCSize == <<2, 1>>
Tasks == Permutations(Task)

(* A bound: two tasks run at a time only while nothing but the first file has *)
(* been downloaded and no chat is being loaded.                               *)
TwoOnFirst ==
    \/ \E t \in Task : \A u \in Task \ {t} : ~Running(u)
    \/ /\ \A f \in File \ {1} : part[f] = <<>> /\ blob[f] = "none" /\ f \notin link
       /\ stage = "none"
=============================================================================
