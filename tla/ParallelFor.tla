---------------------------- MODULE ParallelFor ----------------------------
(***************************************************************************)
(* What ThreadPool::enqueue promises: a caller hands over a function and a *)
(* number of items; every item is executed exactly once, by anyone and in  *)
(* any order, before the call returns.                                     *)
(***************************************************************************)
EXTENDS Naturals

CONSTANTS Clients, MaxWork

VARIABLES
  size,  \* items of each client's call under way, 0 when it has none
  times  \* how often each of them was executed so far

vars == <<size, times>>

Items == 0 .. MaxWork - 1
Zero  == [v \in Items |-> 0]

Init ==
  /\ size = [c \in Clients |-> 0]
  /\ times = [c \in Clients |-> Zero]

Call(c) ==
  /\ size[c] = 0
  /\ \E n \in 1 .. MaxWork : size' = [size EXCEPT ![c] = n]
  /\ UNCHANGED times

Execute(c, S) ==
  /\ \A v \in S : v < size[c] /\ times[c][v] = 0
  /\ times' = [times EXCEPT ![c] = [v \in Items |-> IF v \in S THEN 1 ELSE times[c][v]]]
  /\ UNCHANGED size

Return(c) ==
  /\ size[c] > 0
  /\ \A v \in Items : v < size[c] => times[c][v] = 1
  /\ size' = [size EXCEPT ![c] = 0]
  /\ times' = [times EXCEPT ![c] = Zero]

Next == \E c \in Clients :
          Call(c) \/ Return(c) \/ \E S \in SUBSET Items : Execute(c, S)

Spec == Init /\ [][Next]_vars
=============================================================================
