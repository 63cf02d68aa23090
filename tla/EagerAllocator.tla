--------------------------- MODULE EagerAllocator ---------------------------
(***************************************************************************)
(* EagerBufferAllocator: memory for weights and caches, handed out at      *)
(* once, in blocks that come from a parent allocator.  A free node is      *)
(* split when less than it is asked for; a node that was split counts its  *)
(* parts in use (useCount) and becomes whole again when the count is zero. *)
(* While the buffers of several threads are planned, each thread has a     *)
(* group: what is freed in it can only be reused in it until the barrier   *)
(* ends.                                                                   *)
(*                                                                         *)
(* A node is identified by its block, its place in it and its depth in the *)
(* tree of splits.  The parent allocator (external: the system's, or       *)
(* another allocator of this kind) provides blocks that are apart.         *)
(***************************************************************************)
EXTENDS Integers, Sequences, FiniteSets, FiniteSetsExt, Functions

CONSTANTS
  Root,       \* bound: the blocks that exist at a time
  Nil,        \* no node
  Unit,       \* mAlign
  MinAllocs,  \* values of mMinAllocSize
  MaxUsed,    \* bound: chunks in use at a time
  Sizes,      \* bound: sizes asked for
  Aligns      \* alignments asked for

RoundUp(n, unit) == ((n + unit - 1) \div unit) * unit

(* Of MinAllocs: the assertion after a block of the minimal size was       *)
(* allocated, that the part asked for leaves something of it.              *)
EagerAssumption ==
  /\ Unit \in Nat \ {0} /\ Aligns \subseteq Nat \ {0}
  /\ Sizes \subseteq Nat \ {0} /\ MinAllocs \subseteq Nat
  /\ Nil \notin [root : Root, level : Nat, off : Nat, size : Nat \ {0}]
  /\ \A min \in MinAllocs, size \in Sizes : size < min => RoundUp(size, Unit) < min

VARIABLES
  minAlloc,  \* mMinAllocSize
  tree,      \* the live nodes: parent and useCount of each
  used,      \* mUsedList: the node, place and size of each chunk, and the
             \* group it was allocated in
  free,      \* mFreeList
  groups,    \* mGroups: the free list of each
  cur,       \* the group whose list is mCurrentFreeList, 0 for none
  total,     \* mTotalSize
  owned      \* history: the memory that each group was given

vars == <<minAlloc, tree, used, free, groups, cur, total, owned>>

Init ==
  /\ minAlloc \in MinAllocs
  /\ tree = <<>> /\ used = {} /\ free = {}
  /\ groups = <<>> /\ cur = 0
  /\ total = 0 /\ owned = <<>>

Node(root, level, off, size) == [root |-> root, level |-> level, off |-> off, size |-> size]
Part(n, off, size) == Node(n.root, n.level + 1, off, size)

(* The nodes that a node is a part of *)
Above(t) ==
  LET above[n \in DOMAIN t] ==
        IF t[n].parent = Nil THEN {} ELSE {t[n].parent} \cup above[t[n].parent]
  IN  above

(* Mutant: a part does not keep the node it is part of. *)
ReferredWeakly(t, leaves) == Restrict(t, leaves)

(* What remains of the nodes when only leaves are referred to *)
Referred(t, leaves) ==
  LET above == Above(t) IN Restrict(t, leaves \cup UNION {above[n] : n \in leaves})

(* useCount of n, if it is a node, changes by d. *)
Counted(t, n, d) == IF n = Nil THEN t ELSE [t EXCEPT ![n].uses = @ + d]

(* The nodes n are now parts of parent. *)
WithParts(t, parts, parent) ==
  [n \in DOMAIN t \cup parts |->
     IF n \in parts THEN [parent |-> parent, uses |-> 0] ELSE t[n]]

-----------------------------------------------------------------------------
(* lower_bound on the sizes in a free list *)
Need(size, align) == IF Unit % align = 0 THEN size ELSE size + align - 1
Best(list, need) ==
  {n \in list : n.size >= need /\ \A m \in list : m.size >= need => n.size <= m.size}

(* Where in n a chunk begins, and the size of the part that it takes *)
At(n, align) == IF Unit % align = 0 THEN n.off ELSE RoundUp(n.off, align)

(* Mutant: what the alignment skips is not taken. *)
TakenUnpadded(n, at, size) == RoundUp(size, Unit)

Taken(n, at, size) == RoundUp(size + at - n.off, Unit)

Memory(chunk) == {<<chunk.node.root, byte>> : byte \in chunk.at .. chunk.at + chunk.size - 1}

Hand(n, at, size) ==
  LET chunk == [node |-> n, at |-> at, size |-> size, group |-> cur] IN
  /\ Cardinality(used) < MaxUsed
  /\ used' = used \cup {chunk}
  /\ owned' = IF cur = 0 THEN owned ELSE [owned EXCEPT ![cur] = @ \cup Memory(chunk)]

(* getFromFreeList without permission to split: the list of the group *)
ReuseInGroup(size, align) ==
  \E n \in Best(groups[cur], Need(size, align)) :
    /\ Hand(n, At(n, align), size)
    /\ groups' = [groups EXCEPT ![cur] = @ \ {n}]
    /\ UNCHANGED <<minAlloc, tree, free, cur, total>>

(* getFromFreeList with permission to split: mFreeList *)
Reuse(size, align) ==
  \E n \in Best(free, Need(size, align)) :
    LET at == At(n, align)
        taken == Taken(n, at, size)
        counted == Counted(tree, tree[n].parent, 1)
        first == Part(n, n.off, taken)
        second == Part(n, n.off + taken, n.size - taken)
    IN  /\ IF taken >= n.size
           THEN /\ Hand(n, at, size)
                /\ tree' = counted
                /\ free' = free \ {n}
           ELSE /\ Hand(first, at, size)
                /\ tree' = WithParts(Counted(counted, n, 1), {first, second}, n)
                /\ free' = (free \ {n}) \cup {second}
        /\ UNCHANGED <<minAlloc, groups, cur, total>>

(* A new block, split if only the minimal size made it that large *)
Fresh(size) ==
  \E root \in Root \ {n.root : n \in DOMAIN tree} :
    LET alloc == IF size < minAlloc THEN minAlloc ELSE size
        block == Node(root, 0, 0, alloc)
        whole == WithParts(tree, {block}, Nil)
        first == Part(block, 0, RoundUp(size, Unit))
        second == Part(block, RoundUp(size, Unit), alloc - RoundUp(size, Unit))
    IN  /\ IF alloc = size
           THEN Hand(block, 0, size) /\ tree' = whole /\ UNCHANGED <<free, groups>>
           ELSE /\ Hand(first, 0, size)
                /\ tree' = WithParts(Counted(whole, block, 1), {first, second}, block)
                /\ IF cur = 0 THEN free' = free \cup {second} /\ UNCHANGED groups
                   ELSE /\ groups' = [groups EXCEPT ![cur] = @ \cup {second}]
                        /\ UNCHANGED free
        /\ total' = total + alloc
        /\ UNCHANGED <<minAlloc, cur>>

Alloc(size, separate, align) ==
  LET inGroup == cur # 0 /\ Best(groups[cur], Need(size, align)) # {}
      inFree == Best(free, Need(size, align)) # {}
  IN  \/ ~separate /\ inGroup /\ ReuseInGroup(size, align)
      \/ ~separate /\ ~inGroup /\ inFree /\ Reuse(size, align)
      \/ (separate \/ (~inGroup /\ ~inFree)) /\ Fresh(size)

-----------------------------------------------------------------------------
(* Mutant: only the parent becomes whole, and not what it is a part of. *)
ReturnedOneLevel(s, n) ==
  LET p == s.tree[n].parent
      whole == IF p # Nil /\ s.tree[p].uses = 1 THEN {p} ELSE {}
  IN  [tree |-> Counted(s.tree, p, -1),
       list |-> {m \in s.list \cup {n} \cup whole : s.tree[m].parent \notin whole}]

(* returnMemory: n joins the list; a parent whose count comes to zero      *)
(* replaces its parts, and then counts as one part less itself.            *)
Returned(s, n) ==
  LET above == Above(s.tree)[n]
      last(p) == \A q \in above : q.size < p.size => s.tree[q].uses = 1
      whole == {p \in above : last(p) /\ s.tree[p].uses = 1}
  IN  [tree |-> [m \in DOMAIN s.tree |->
                   IF m \in above /\ last(m) THEN [s.tree[m] EXCEPT !.uses = @ - 1]
                   ELSE s.tree[m]],
       list |-> {m \in s.list \cup {n} \cup whole : s.tree[m].parent \notin whole}]

(* Mutant: the group's list is not used. *)
FreeForAll(chunk) ==
  /\ groups = <<>> \/ (cur # 0 /\ chunk.group \in {0, cur})
  /\ used' = used \ {chunk}
  /\ LET s == Returned([tree |-> tree, list |-> free], chunk.node) IN
     /\ free' = s.list
     /\ tree' = Referred(s.tree, s.list \cup {c.node : c \in used'})
  /\ UNCHANGED <<minAlloc, groups, cur, total, owned>>

(* The chunks of a group are freed in the group, or after the barrier. *)
Free(chunk) ==
  /\ groups = <<>> \/ (cur # 0 /\ chunk.group \in {0, cur})
  /\ used' = used \ {chunk}
  /\ IF cur # 0
     THEN /\ groups' = [groups EXCEPT ![cur] = @ \cup {chunk.node}]
          /\ UNCHANGED <<tree, free>>
     ELSE LET s == Returned([tree |-> tree, list |-> free], chunk.node) IN
          /\ free' = s.list
          /\ tree' = Referred(s.tree, s.list \cup {c.node : c \in used'})
          /\ UNCHANGED groups
  /\ UNCHANGED <<minAlloc, cur, total, owned>>

(* Groups are used on allocators without a minimal size only: those of the *)
(* dynamic memory.                                                         *)
BeginGroup ==
  /\ minAlloc = 0 /\ cur = 0 /\ Len(groups) < 2
  /\ groups' = Append(groups, {})
  /\ cur' = Len(groups')
  /\ owned' = Append(owned, {})
  /\ UNCHANGED <<minAlloc, tree, used, free, total>>

EndGroup ==
  /\ cur # 0
  /\ cur' = 0
  /\ UNCHANGED <<minAlloc, tree, used, free, groups, total, owned>>

BarrierEnd ==
  /\ cur = 0 /\ groups # <<>>
  /\ LET s == FoldSet(LAMBDA n, acc : Returned(acc, n),
                      [tree |-> tree, list |-> free], UNION Range(groups))
     IN  /\ free' = s.list
         /\ tree' = Referred(s.tree, s.list \cup {c.node : c \in used})
  /\ used' = {[c EXCEPT !.group = 0] : c \in used}
  /\ groups' = <<>> /\ owned' = <<>>
  /\ UNCHANGED <<minAlloc, cur, total>>

(* Mutant: parts of blocks are given back too. *)
CollectParts ==
  /\ groups = <<>>
  /\ free' = {}
  /\ tree' = Referred(tree, {c.node : c \in used})
  /\ total' = total - MapThenSumSet(LAMBDA n : n.size, free)
  /\ UNCHANGED <<minAlloc, used, groups, cur, owned>>

(* release(false): whole free blocks go back to the parent. *)
Collect ==
  /\ groups = <<>>
  /\ LET blocks == {n \in free : tree[n].parent = Nil} IN
     /\ free' = free \ blocks
     /\ tree' = Referred(tree, free' \cup {c.node : c \in used})
     /\ total' = total - MapThenSumSet(LAMBDA n : n.size, blocks)
  /\ UNCHANGED <<minAlloc, used, groups, cur, owned>>

(* release(true) *)
ReleaseAll ==
  /\ groups = <<>>
  /\ used' = {} /\ free' = {} /\ tree' = <<>> /\ total' = 0
  /\ UNCHANGED <<minAlloc, groups, cur, owned>>

Next ==
  \/ \E size \in Sizes, separate \in BOOLEAN, align \in Aligns : Alloc(size, separate, align)
  \/ \E chunk \in used : Free(chunk)
  \/ BeginGroup \/ EndGroup \/ BarrierEnd
  \/ Collect \/ ReleaseAll

Spec == Init /\ [][Next]_vars

-----------------------------------------------------------------------------
InGroups == UNION Range(groups)
Held == {c.node : c \in used}
Leaves == Held \cup free \cup InGroups
Blocks == {n \in DOMAIN tree : tree[n].parent = Nil}
Bytes(nodes) == MapThenSumSet(LAMBDA n : n.size, nodes)

(* Every variable has its type. *)
TypeOK ==
  /\ minAlloc \in MinAllocs /\ total \in Nat
  /\ \A n \in DOMAIN tree : n.root \in Root /\ n.size > 0
                            /\ tree[n].parent \in DOMAIN tree \cup {Nil}
  /\ Leaves \subseteq DOMAIN tree
  /\ cur \in 0 .. Len(groups) /\ Len(owned) = Len(groups)

Apart(root1, from1, to1, root2, from2, to2) ==
  root1 = root2 => to1 <= from2 \/ to2 <= from1
NodesApart(n, m) == Apart(n.root, n.off, n.off + n.size, m.root, m.off, m.off + m.size)

(* No two chunks in use share memory, and none is in memory that a free    *)
(* list would hand out again: each lies in a node of its own.              *)
NoOverlap ==
  /\ \A n, m \in Leaves : n # m => NodesApart(n, m)
  /\ \A c, d \in used : c # d => c.node # d.node
  /\ \A c \in used : c.node.off <= c.at /\ c.at + c.size <= c.node.off + c.node.size
  /\ \A i, j \in DOMAIN groups : i # j => groups[i] \cap groups[j] = {}
  /\ Held \cap (free \cup InGroups) = {} /\ free \cap InGroups = {}

(* No memory is lost: what is in use or free adds up to the blocks held    *)
(* from the parent, which is what totalSize reports.                       *)
Conserved == Bytes(Leaves) = total /\ Bytes(Blocks) = total

(* When nothing is in use every split has been undone, so that a garbage   *)
(* collection gives all memory back: the counts of returnMemory and        *)
(* getFromFreeList match, also through the groups, which count otherwise.  *)
WholeWhenIdle == used = {} /\ groups = <<>> => free = Blocks

(* What the header says of groups: "different group must use different     *)
(* memory", whatever was freed meanwhile.                                  *)
GroupsApart == \A i, j \in DOMAIN owned : i # j => owned[i] \cap owned[j] = {}
=============================================================================
