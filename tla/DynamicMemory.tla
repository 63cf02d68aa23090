--------------------------- MODULE DynamicMemory ---------------------------
(***************************************************************************)
(* CPURuntime::createDynamicBufferAlloctor: the hint memoryAllocatorType   *)
(* says whether the dynamic memory of a backend is planned by a            *)
(* DeferBufferAllocator or handed out by an EagerBufferAllocator, which    *)
(* also holds the weights.  A backend keeps the allocator it was made      *)
(* with.                                                                   *)
(***************************************************************************)
EXTENDS DeferAllocator

CONSTANTS
  Root, NoNode, Unit, MinAllocs, MaxUsed, Aligns, \* of EagerAllocator
  EagerSizes                                      \* its Sizes

VARIABLES
  type,       \* hint().memoryAllocatorType when the backend was made
  minAlloc, tree, used, free, groups, cur, owned, \* of EagerAllocator
  eagerTotal                                      \* its total

Eager == INSTANCE EagerAllocator
           WITH Nil <- NoNode, Sizes <- EagerSizes, total <- eagerTotal

ASSUME EagerAssumption == Eager!EagerAssumption

eagerVars == <<minAlloc, tree, used, free, groups, cur, eagerTotal, owned>>
memoryVars == <<type, vars, eagerVars>>

MemoryInit ==
  /\ type \in {"Allocator_Defer", "Allocator_Eager"}
  /\ Init /\ Eager!Init
  /\ type = "Allocator_Defer" => minAlloc = 0

MemoryNext ==
  \/ type = "Allocator_Defer" /\ Next /\ UNCHANGED <<type, eagerVars>>
  \/ type = "Allocator_Eager" /\ Eager!Next /\ UNCHANGED <<type, vars>>

MemorySpec == MemoryInit /\ [][MemoryNext]_memoryVars

-----------------------------------------------------------------------------
(* Every variable has its type. *)
MemoryTypeOK == TypeOK /\ Eager!TypeOK

(* The properties of EagerAllocator. *)
NoOverlap     == Eager!NoOverlap
Conserved     == Eager!Conserved
WholeWhenIdle == Eager!WholeWhenIdle
GroupsApart   == Eager!GroupsApart
=============================================================================
