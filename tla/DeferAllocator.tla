--------------------------- MODULE DeferAllocator ---------------------------
(***************************************************************************)
(* DeferBufferAllocator (source/core/BufferAllocator.cpp): the dynamic     *)
(* memory of one backend.  While a network is resized, alloc and free only *)
(* record lifetimes on a doubly linked list of nodes; once everything is   *)
(* free again, compute assigns the offsets for all of them at once.        *)
(*                                                                         *)
(* Sizes count units of mAlign bytes, to which alloc rounds them.  The     *)
(* buffer behind the offsets is the subject of module SharedBuffer.        *)
(***************************************************************************)
EXTENDS Integers, Sequences, FiniteSets

CONSTANTS
  MaxNodes,    \* bound: nodes created between two resets
  MaxAllocs,   \* bound: allocations between two resets
  Sizes        \* sizes that are asked for

ASSUME DeferAssumption ==
  MaxNodes \in Nat /\ MaxAllocs \in Nat /\ Sizes \subseteq Nat

Nil   == 0
Node  == 1 .. MaxNodes
Alloc == 1 .. MaxAllocs

VARIABLES
  count,       \* mChunks.size(): nodes 1 .. count exist
  head, tail,  \* mHead, mTail
  left, right, \* MemNode::left, right
  size, offset, usage, children,
  freeList,    \* mFreeList; its order among equal sizes is left open
  barrier,     \* mBarrrier: "off", "on"; "ending" within barrierEnd
  pending,     \* mBarrrierFreeChunks
  total,       \* mTotalSize
  nallocs,     \* history: allocations made so far
  nodeOf,      \* history: the node behind each allocation
  sizeOf,      \* history: the size each was made with
  live,        \* allocations that were not freed
  busy,        \* history: those, and the ones freed in the current barrier
  together     \* history: pairs that were busy at the same time

listVars  == <<count, head, tail, left, right, size, offset, usage, children,
               freeList>>
allocVars == <<nallocs, nodeOf, sizeOf, together>>
vars == <<listVars, barrier, pending, total, allocVars, live, busy>>

None == [n \in Node |-> Nil]

Empty ==
  /\ count = 0 /\ head = Nil /\ tail = Nil
  /\ left = None /\ right = None /\ size = None /\ offset = None
  /\ usage = [n \in Node |-> FALSE]
  /\ children = [n \in Node |-> {}]
  /\ freeList = {}
  /\ barrier = "off" /\ pending = <<>> /\ total = 0
  /\ nallocs = 0 /\ live = {} /\ busy = {} /\ together = {}
  /\ nodeOf = [a \in Alloc |-> Nil] /\ sizeOf = [a \in Alloc |-> 0]

Init == Empty

-----------------------------------------------------------------------------
(* The list a free works on: its pointers, sizes and free nodes, as a      *)
(* record, so that the fusions of one call can follow each other.          *)
List == [head |-> head, tail |-> tail, left |-> left, right |-> right,
         size |-> size, offset |-> offset, children |-> children,
         free |-> freeList]

(* The pointers end on the side of a nil neighbour. *)
Link(f, n, m) == IF n = Nil THEN f ELSE [f EXCEPT ![n] = m]

(* erase_node *)
EraseNode(l, n) ==
  LET a == l.left[n]
      b == l.right[n] IN
  [l EXCEPT !.right = Link(@, a, b), !.left = Link(@, b, a),
            !.tail = IF b = Nil THEN a ELSE @, !.head = IF a = Nil THEN b ELSE @]

(* fuse_to_left *)
FuseNoOffset(l, a, b) ==
  EraseNode([l EXCEPT !.size[a] = @ + l.size[b],
                      !.children[a] = @ \cup {b}], b)
FuseToLeft(l, a, b) ==
  EraseNode([l EXCEPT !.offset[b] = l.size[a],
                      !.size[a] = @ + l.size[b],
                      !.children[a] = @ \cup {b}], b)

(* free of a node, outside of a barrier: fused with the unused neighbours  *)
(* it had when the call began.                                             *)
FusedLeft(l, n) ==
  LET a == l.left[n] IN
  IF a # Nil /\ ~ usage[a]
    THEN [list |-> FuseToLeft([l EXCEPT !.free = @ \ {a}], a, n), node |-> a]
    ELSE [list |-> l, node |-> n]

FusedRightNever(l, n, b) == l
FusedRight(l, n, b) ==
  IF b # Nil /\ ~ usage[b]
    THEN FuseToLeft([l EXCEPT !.free = @ \ {b}], n, b)
    ELSE l

FreeNode(l, n) ==
  LET f == FusedLeft(l, n)
      g == FusedRight(f.list, f.node, l.right[n]) IN
  [list |-> [g EXCEPT !.free = @ \cup {f.node}], node |-> f.node]

Become(l) ==
  /\ head' = l.head /\ tail' = l.tail /\ left' = l.left /\ right' = l.right
  /\ size' = l.size /\ offset' = l.offset /\ children' = l.children
  /\ freeList' = l.free

-----------------------------------------------------------------------------
(* The allocation a that alloc returns with node n.                        *)
Record(n, s) ==
  LET a == nallocs + 1 IN
  /\ nallocs' = a
  /\ nodeOf' = [nodeOf EXCEPT ![a] = n]
  /\ sizeOf' = [sizeOf EXCEPT ![a] = s]
  /\ live' = live \cup {a}
  /\ busy' = busy \cup {a}
  /\ together' = together \cup {{a, b} : b \in busy}

(* A new node at the tail of the list. *)
AllocNew(s) ==
  LET n == count + 1 IN
  /\ count < MaxNodes
  /\ count' = n
  /\ left' = [left EXCEPT ![n] = tail]
  /\ right' = Link(right, tail, n)
  /\ tail' = n
  /\ head' = IF tail = Nil THEN n ELSE head
  /\ size' = [size EXCEPT ![n] = s]
  /\ usage' = [usage EXCEPT ![n] = TRUE]
  /\ Record(n, s)
  /\ UNCHANGED <<offset, children, freeList>>

(* The smallest free node that is large enough, else the largest one.      *)
BestFit(n, s) ==
  /\ n \in freeList
  /\ IF \E m \in freeList : size[m] >= s
       THEN size[n] >= s /\ \A m \in freeList : size[m] >= s => size[n] <= size[m]
       ELSE \A m \in freeList : size[m] <= size[n]

(* The rest of a free node that is larger than needed becomes a free node  *)
(* of its own, to its right.                                               *)
AllocSplitStaleLeft(n, s) ==
  LET r == count + 1 IN
  /\ count < MaxNodes
  /\ count' = r
  /\ right' = [right EXCEPT ![r] = right[n], ![n] = r]
  /\ left' = [left EXCEPT ![r] = n]
  /\ tail' = IF tail = n THEN r ELSE tail
  /\ size' = [size EXCEPT ![r] = size[n] - s, ![n] = s]
  /\ usage' = [usage EXCEPT ![n] = TRUE]
  /\ freeList' = (freeList \ {n}) \cup {r}
  /\ UNCHANGED <<head, offset, children>>
AllocSplit(n, s) ==
  LET r == count + 1 IN
  /\ count < MaxNodes
  /\ count' = r
  /\ right' = [right EXCEPT ![r] = right[n], ![n] = r]
  /\ left' = [Link(left, right[n], r) EXCEPT ![r] = n]
  /\ tail' = IF tail = n THEN r ELSE tail
  /\ size' = [size EXCEPT ![r] = size[n] - s, ![n] = s]
  /\ usage' = [usage EXCEPT ![n] = TRUE]
  /\ freeList' = (freeList \ {n}) \cup {r}
  /\ UNCHANGED <<head, offset, children>>

(* A free node of the wanted size, or one that is made larger. *)
AllocWhole(n, s) ==
  /\ size' = [size EXCEPT ![n] = s]
  /\ usage' = [usage EXCEPT ![n] = TRUE]
  /\ freeList' = freeList \ {n}
  /\ UNCHANGED <<count, head, tail, left, right, offset, children>>

AllocReuseAlwaysSplit(s) ==
  \E n \in freeList : BestFit(n, s) /\ AllocSplit(n, s) /\ Record(n, s)
AllocReuse(s) ==
  \E n \in freeList :
    /\ BestFit(n, s)
    /\ IF size[n] > s THEN AllocSplit(n, s) ELSE AllocWhole(n, s)
    /\ Record(n, s)

(* Backends reset the allocator before they resize again (CPUBackend::     *)
(* onResizeBegin), so nothing is allocated once the offsets are computed.  *)
DoAlloc(s, separate) ==
  /\ total = 0 /\ barrier # "ending"
  /\ nallocs < MaxAllocs
  /\ IF freeList = {} \/ separate THEN AllocNew(s) ELSE AllocReuse(s)
  /\ UNCHANGED <<barrier, pending, total>>

(* A chunk is freed at once, or when the barrier ends. *)
FreeNow(a) ==
  LET f == FreeNode(List, nodeOf[a]) IN
  /\ Become(f.list)
  /\ usage' = [usage EXCEPT ![f.node] = FALSE]
  /\ UNCHANGED count

(* Mutant: a barrier holds nothing back. *)
FreeIgnoringBarrier(a) ==
  /\ total = 0 /\ barrier # "ending"
  /\ a \in live
  /\ live' = live \ {a}
  /\ busy' = IF barrier = "on" THEN busy ELSE live'
  /\ FreeNow(a)
  /\ UNCHANGED <<barrier, pending, total, allocVars>>
Free(a) ==
  /\ total = 0 /\ barrier # "ending"
  /\ a \in live
  /\ live' = live \ {a}
  /\ busy' = IF barrier = "on" THEN busy ELSE live'
  /\ IF barrier = "on"
       THEN pending' = Append(pending, a) /\ UNCHANGED listVars
       ELSE FreeNow(a) /\ UNCHANGED pending
  /\ UNCHANGED <<barrier, total, allocVars>>

BarrierBegin ==
  /\ total = 0
  /\ barrier = "off"
  /\ barrier' = "on"
  /\ UNCHANGED <<listVars, pending, total, allocVars, live, busy>>

(* barrierEnd, then its loop over the deferred chunks. *)
BarrierEnd ==
  /\ barrier = "on"
  /\ barrier' = "ending"
  /\ UNCHANGED <<listVars, pending, total, allocVars, live, busy>>

FreeDeferred ==
  /\ barrier = "ending"
  /\ IF pending = <<>>
       THEN barrier' = "off" /\ busy' = live /\ UNCHANGED <<listVars, pending>>
       ELSE /\ FreeNow(Head(pending))
            /\ pending' = Tail(pending)
            /\ UNCHANGED <<barrier, busy>>
  /\ UNCHANGED <<total, allocVars, live>>

(* reset, and release(true). *)
Reset ==
  /\ barrier # "ending"
  /\ count > 0
  /\ count' = 0 /\ head' = Nil /\ tail' = Nil
  /\ left' = None /\ right' = None /\ size' = None /\ offset' = None
  /\ usage' = [n \in Node |-> FALSE]
  /\ children' = [n \in Node |-> {}]
  /\ freeList' = {}
  /\ barrier' = "off" /\ pending' = <<>> /\ total' = 0
  /\ nallocs' = 0 /\ live' = {} /\ busy' = {} /\ together' = {}
  /\ nodeOf' = [a \in Alloc |-> Nil] /\ sizeOf' = [a \in Alloc |-> 0]

-----------------------------------------------------------------------------
(* visiChildren: the offset of a fused node is relative to the node it was *)
(* fused to.                                                               *)
Absolute ==
  LET at[n \in Node] ==
        IF \E m \in Node : n \in children[m]
          THEN offset[n] + at[CHOOSE m \in Node : n \in children[m]]
          ELSE 0
  IN at

(* What compute insists on: one free node, and nothing else on the list.   *)
ComputeAccepts == Cardinality(freeList) = 1 /\ head = tail

(* compute.  Its early returns change nothing: the offsets are there       *)
(* already, nothing was allocated, or the check fails.  The loop over the  *)
(* list runs once, since it holds one node.                                *)
Compute ==
  /\ total = 0 /\ barrier # "ending"
  /\ freeList # {}
  /\ ComputeAccepts
  /\ offset' = [n \in Node |-> IF n <= count THEN Absolute[n] ELSE 0]
  /\ total' = size[head]
  /\ UNCHANGED <<count, head, tail, left, right, size, usage, children, freeList,
                 barrier, pending, allocVars, live, busy>>

Next ==
  \/ \E s \in Sizes, separate \in BOOLEAN : DoAlloc(s, separate)
  \/ \E a \in Alloc : Free(a)
  \/ BarrierBegin \/ BarrierEnd \/ FreeDeferred
  \/ Compute \/ Reset

Spec == Init /\ [][Next]_vars

-----------------------------------------------------------------------------
(* Every variable has its type. *)
TypeOK ==
  /\ count \in 0 .. MaxNodes
  /\ head \in Node \cup {Nil} /\ tail \in Node \cup {Nil}
  /\ left \in [Node -> Node \cup {Nil}] /\ right \in [Node -> Node \cup {Nil}]
  /\ size \in [Node -> Nat] /\ offset \in [Node -> Nat]
  /\ usage \in [Node -> BOOLEAN]
  /\ children \in [Node -> SUBSET Node]
  /\ freeList \subseteq Node
  /\ barrier \in {"off", "on", "ending"}
  /\ pending \in Seq(Alloc)
  /\ total \in Nat
  /\ nallocs \in 0 .. MaxAllocs
  /\ nodeOf \in [Alloc -> Node \cup {Nil}] /\ sizeOf \in [Alloc -> Nat]
  /\ live \subseteq busy /\ busy \subseteq Alloc
  /\ together \subseteq SUBSET Alloc

(* The nodes on the list: created and not fused into another one. *)
Listed == {n \in Node : n <= count /\ \A m \in Node : n \notin children[m]}

(* The pointers of the list agree with each other, the nodes at its ends   *)
(* are the only ones without a neighbour, the free list holds exactly its  *)
(* unused nodes, and no two of those are neighbours.                       *)
ListWellFormed ==
  /\ \A n \in Listed :
       /\ right[n] = Nil <=> n = tail
       /\ left[n] = Nil <=> n = head
       /\ right[n] # Nil => right[n] \in Listed /\ left[right[n]] = n
       /\ left[n] # Nil => left[n] \in Listed /\ right[left[n]] = n
       /\ ~ usage[n] <=> n \in freeList
       /\ ~ usage[n] /\ right[n] # Nil => usage[right[n]]
  /\ freeList \subseteq Listed
  /\ head = Nil <=> Listed = {}
  /\ head # Nil => head \in Listed /\ tail \in Listed

(* Chunks that were in use at the same time do not overlap in the buffer   *)
(* whose offsets compute assigns, and all of them lie within it.  A chunk  *)
(* freed inside a barrier counts as in use until the barrier ends, since   *)
(* the threads of the barrier run at the same time.                        *)
Disjoint(a, b) ==
  \/ offset[nodeOf[a]] + sizeOf[a] <= offset[nodeOf[b]]
  \/ offset[nodeOf[b]] + sizeOf[b] <= offset[nodeOf[a]]

LifetimesDisjoint ==
  total > 0 =>
    /\ \A a, b \in 1 .. nallocs : {a, b} \in together /\ a # b => Disjoint(a, b)
    /\ \A a \in 1 .. nallocs : offset[nodeOf[a]] + sizeOf[a] <= total

(* compute cannot fail its own check once every chunk was freed            *)
(* (MNN_ASSERT(mFreeList.size() == 1), MNN_ASSERT(mHead == mTail)).        *)
AllFreeComputes ==
  nallocs > 0 /\ live = {} /\ pending = <<>> => ComputeAccepts
=============================================================================
