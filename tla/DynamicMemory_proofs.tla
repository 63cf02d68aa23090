----------------------- MODULE DynamicMemory_proofs ------------------------
(***************************************************************************)
(* Theorems about DynamicMemory.  A backend whose hint asks for a          *)
(* DeferBufferAllocator only takes steps of DeferAllocator, and any other  *)
(* only steps of EagerAllocator: whatever holds of the two holds here.     *)
(***************************************************************************)
EXTENDS DynamicMemory, DeferAllocator_proofs

(* What DeferAllocator does in a backend are steps of DeferAllocator. *)
LEMMA MemoryImplementsDefer == MemorySpec => Spec
<1>1. MemoryInit => Init BY DEF MemoryInit
<1>2. [MemoryNext]_memoryVars => [Next]_vars BY DEF MemoryNext, memoryVars
<1> QED BY <1>1, <1>2, PTL DEF MemorySpec, Spec

(* In whatever order chunks are allocated and freed, between barriers or   *)
(* not, the nodes form one list, planning succeeds once all are freed, and *)
(* chunks that are in use together get places apart.                       *)
THEOREM MemoryAlwaysPlanned ==
  MemorySpec => [](ListWellFormed /\ AllFreeComputes /\ LifetimesDisjoint)
BY MemoryImplementsDefer, ListAlwaysWellFormed, FreedAlwaysComputes,
   LifetimesAlwaysDisjoint, PTL

-----------------------------------------------------------------------------
(* What is proved of EagerAllocator is proved here under another name of   *)
(* the same instance; the two have the same actions.                       *)
Planned == INSTANCE EagerAllocator_proofs
             WITH Nil <- NoNode, Sizes <- EagerSizes, total <- eagerTotal

(* Nodes and the places of their parts are the same.                        *)
LEMMA SameNodes ==
  /\ \A root, level, off, n : Eager!Node(root, level, off, n) = Planned!Node(root, level, off, n)
  /\ \A m, off, n : Eager!Part(m, off, n) = Planned!Part(m, off, n)
BY DEF Eager!Node, Planned!Node, Eager!Part, Planned!Part

(* Trees are changed in the same way.                                       *)
LEMMA SameTrees ==
  /\ \A t, parts, p : Eager!WithParts(t, parts, p) = Planned!WithParts(t, parts, p)
  /\ \A t, n, d : Eager!Counted(t, n, d) = Planned!Counted(t, n, d)
BY DEF Eager!WithParts, Planned!WithParts, Eager!Counted, Planned!Counted

(* Sizes and places are computed in the same way.                           *)
LEMMA SamePlaces ==
  /\ \A n, unit : Eager!RoundUp(n, unit) = Planned!RoundUp(n, unit)
  /\ \A n, align : Eager!Need(n, align) = Planned!Need(n, align)
  /\ \A list, need : Eager!Best(list, need) = Planned!Best(list, need)
  /\ \A n, align : Eager!At(n, align) = Planned!At(n, align)
  /\ \A n, at, k : Eager!Taken(n, at, k) = Planned!Taken(n, at, k)
<1>1. \A n, unit : Eager!RoundUp(n, unit) = Planned!RoundUp(n, unit)
  BY DEF Eager!RoundUp, Planned!RoundUp
<1>2. \A n, align : Eager!Need(n, align) = Planned!Need(n, align)
  BY DEF Eager!Need, Planned!Need
<1>3. \A list, need : Eager!Best(list, need) = Planned!Best(list, need)
  BY DEF Eager!Best, Planned!Best
<1>4. \A n, align : Eager!At(n, align) = Planned!At(n, align)
  BY <1>1 DEF Eager!At, Planned!At
<1>5. \A n, at, k : Eager!Taken(n, at, k) = Planned!Taken(n, at, k)
  BY <1>1 DEF Eager!Taken, Planned!Taken
<1> QED BY <1>1, <1>2, <1>3, <1>4, <1>5

(* Handing out a node is the same under both names.                         *)
LEMMA SameHand == \A n, at, k : Eager!Hand(n, at, k) => Planned!Hand(n, at, k)
<1>1. \A c : Eager!Memory(c) = Planned!Memory(c) BY DEF Eager!Memory, Planned!Memory
<1>2. \A S : Eager!Cardinality(S) = Planned!Cardinality(S)
  BY DEF Eager!Cardinality, Planned!Cardinality
<1>3. ASSUME NEW n, NEW at, NEW k, Eager!Hand(n, at, k) PROVE Planned!Hand(n, at, k)
  <2> DEFINE chunk == [node |-> n, at |-> at, size |-> k, group |-> cur]
  <2>1. /\ Eager!Cardinality(used) < MaxUsed
        /\ used' = used \cup {chunk}
        /\ owned' = IF cur = 0 THEN owned
                    ELSE [owned EXCEPT ![cur] = @ \cup Eager!Memory(chunk)]
    BY <1>3, Zenon DEF Eager!Hand
  <2>2. Eager!Memory(chunk) = Planned!Memory(chunk) BY <1>1
  <2> HIDE DEF chunk
  <2>3. owned' = IF cur = 0 THEN owned
                 ELSE [owned EXCEPT ![cur] = @ \cup Planned!Memory(chunk)]
    BY <2>1, <2>2, Zenon
  <2> QED BY <1>2, <2>1, <2>3, Zenon DEF Planned!Hand, chunk
<1> QED BY <1>3

(* So is each way out of alloc.                                             *)
LEMMA SameAlloc ==
  ASSUME NEW n, NEW separate, NEW align, Eager!Alloc(n, separate, align)
  PROVE  Planned!Alloc(n, separate, align)
<1>1. Eager!ReuseInGroup(n, align) => Planned!ReuseInGroup(n, align)
  BY SamePlaces, SameHand DEF Eager!ReuseInGroup, Planned!ReuseInGroup
<1>2. Eager!Reuse(n, align) => Planned!Reuse(n, align)
  BY SameNodes, SameTrees, SamePlaces, SameHand DEF Eager!Reuse, Planned!Reuse
<1>3. Eager!Fresh(n) => Planned!Fresh(n)
  BY SameNodes, SameTrees, SamePlaces, SameHand DEF Eager!Fresh, Planned!Fresh
<1> QED BY <1>1, <1>2, <1>3, SamePlaces DEF Eager!Alloc, Planned!Alloc

(* So is free.                                                              *)
LEMMA SameFree == ASSUME NEW c, Eager!Free(c) PROVE Planned!Free(c)
BY DEF Eager!Free, Planned!Free, Eager!Referred, Planned!Referred, Eager!Above,
       Planned!Above, Eager!Returned, Planned!Returned, Eager!Restrict, Planned!Restrict

(* So is every behaviour.                                                   *)
LEMMA SameSpec == Eager!Spec => Planned!Spec
<1>1. Eager!Init => Planned!Init BY DEF Eager!Init, Planned!Init
<1>2. Eager!BeginGroup => Planned!BeginGroup BY DEF Eager!BeginGroup, Planned!BeginGroup
<1>3. Eager!EndGroup => Planned!EndGroup BY DEF Eager!EndGroup, Planned!EndGroup
<1>4. Eager!BarrierEnd => Planned!BarrierEnd
  BY DEF Eager!BarrierEnd, Planned!BarrierEnd, Eager!Referred, Planned!Referred,
       Eager!Above, Planned!Above, Eager!Returned, Planned!Returned, Eager!FoldSet,
       Planned!FoldSet, Eager!MapThenFoldSet, Planned!MapThenFoldSet, Eager!Range,
       Planned!Range, Eager!Restrict, Planned!Restrict
<1>5. Eager!Collect => Planned!Collect
  BY DEF Eager!Collect, Planned!Collect, Eager!Referred, Planned!Referred, Eager!Above,
       Planned!Above, Eager!Restrict, Planned!Restrict, Eager!MapThenSumSet,
       Planned!MapThenSumSet, Eager!MapThenFoldSet, Planned!MapThenFoldSet
<1>6. Eager!ReleaseAll => Planned!ReleaseAll BY DEF Eager!ReleaseAll, Planned!ReleaseAll
<1>7. Eager!Next => Planned!Next
  BY <1>2, <1>3, <1>4, <1>5, <1>6, SameAlloc, SameFree DEF Eager!Next, Planned!Next
<1>8. [Eager!Next]_(Eager!vars) => [Planned!Next]_(Planned!vars)
  <2>1. UNCHANGED Eager!vars => UNCHANGED Planned!vars BY DEF Eager!vars, Planned!vars
  <2> QED BY <1>7, <2>1
<1> QED BY <1>1, <1>8, PTL DEF Eager!Spec, Planned!Spec

(* What EagerAllocator does there are steps of EagerAllocator. *)
LEMMA MemoryImplementsEager == MemorySpec => Eager!Spec
<1>1. MemoryInit => Eager!Init BY DEF MemoryInit
<1>2. [MemoryNext]_memoryVars => [Eager!Next]_(Eager!vars)
  BY DEF MemoryNext, memoryVars, eagerVars, Eager!vars
<1> QED BY <1>1, <1>2, PTL DEF MemorySpec, Eager!Spec

(* So is what is assumed of the constants.                                  *)
LEMMA Assumed == Planned!EagerAssumption
BY EagerAssumption, SamePlaces DEF Eager!EagerAssumption, Planned!EagerAssumption

(* Every variable has its type. *)
THEOREM MemoryAlwaysTyped == MemorySpec => []MemoryTypeOK
<1>1. Planned!Spec => []Planned!TypeOK BY Assumed, Planned!TypeCorrect
<1>2. Planned!TypeOK => Eager!TypeOK
  BY DEF Eager!TypeOK, Planned!TypeOK, Eager!Leaves, Planned!Leaves, Eager!Held,
       Planned!Held, Eager!InGroups, Planned!InGroups, Eager!Range, Planned!Range
<1>3. MemorySpec => []TypeOK BY MemoryImplementsDefer, TypeCorrect, PTL
<1> QED BY <1>1, <1>2, <1>3, MemoryImplementsEager, SameSpec, PTL DEF MemoryTypeOK

(* In a backend that hands memory out at once, no two chunks in use share  *)
(* memory, and none is in memory that a free list would hand out again.    *)
THEOREM MemoryNeverOverlaps == MemorySpec => []NoOverlap
<1>1. Planned!Spec => []Planned!NoOverlap BY Assumed, Planned!NeverOverlaps
<1>2. Planned!NoOverlap => NoOverlap
  BY DEF NoOverlap, Eager!NoOverlap, Planned!NoOverlap, Eager!Leaves, Planned!Leaves, Eager!Held,
       Planned!Held, Eager!InGroups, Planned!InGroups, Eager!Range, Planned!Range,
       Eager!NodesApart, Planned!NodesApart, Eager!Apart, Planned!Apart
<1> QED BY <1>1, <1>2, MemoryImplementsEager, SameSpec, PTL

(* What is in use or free there always adds up to what totalSize reports.  *)
THEOREM MemoryConserved == MemorySpec => []Conserved
<1>1. Planned!Spec => []Planned!Conserved BY Assumed, Planned!AlwaysConserved
<1>2. Planned!Conserved => Conserved
  BY DEF Conserved, Eager!Conserved, Planned!Conserved, Eager!Leaves, Planned!Leaves, Eager!Held,
       Planned!Held, Eager!InGroups, Planned!InGroups, Eager!Range, Planned!Range,
       Eager!Blocks, Planned!Blocks, Eager!Bytes, Planned!Bytes, Eager!MapThenSumSet,
       Planned!MapThenSumSet, Eager!MapThenFoldSet, Planned!MapThenFoldSet
<1> QED BY <1>1, <1>2, MemoryImplementsEager, SameSpec, PTL

(* Whenever nothing is in use there, every split has been undone, and a    *)
(* garbage collection gives all memory back.                               *)
THEOREM MemoryAlwaysWhole == MemorySpec => []WholeWhenIdle
<1>1. Planned!Spec => []Planned!WholeWhenIdle BY Assumed, Planned!AlwaysWhole
<1>2. Planned!WholeWhenIdle => WholeWhenIdle
  BY DEF WholeWhenIdle, Eager!WholeWhenIdle, Planned!WholeWhenIdle, Eager!Blocks, Planned!Blocks
<1> QED BY <1>1, <1>2, MemoryImplementsEager, SameSpec, PTL

(* Threads that plan their buffers in groups of their own get memory of    *)
(* their own.                                                              *)
THEOREM MemoryGroupsApart == MemorySpec => []GroupsApart
<1>1. Planned!Spec => []Planned!GroupsApart BY Assumed, Planned!GroupsAlwaysApart
<1>2. Planned!GroupsApart => GroupsApart
  BY DEF GroupsApart, Eager!GroupsApart, Planned!GroupsApart
<1> QED BY <1>1, <1>2, MemoryImplementsEager, SameSpec, PTL
=============================================================================
