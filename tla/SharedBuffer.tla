---------------------------- MODULE SharedBuffer ----------------------------
(***************************************************************************)
(* The dynamic memory that the sessions of one CPU runtime share.  The     *)
(* runtime owns two growing buffers (SingleBufferWithAllocator); every     *)
(* session's backend has an allocator on buffer 0, and after               *)
(* Session_Resize_Fix a second one on buffer 1 for the tensors whose shape *)
(* never changes.  An allocator plans offsets when the session is resized  *)
(* (module DeferAllocator) and DeferBufferAllocator::apply turns them into *)
(* pointers before each use, for another session may have replaced the     *)
(* buffer meanwhile.                                                       *)
(*                                                                         *)
(* Sessions are used one at a time (docs/inference/session.md), so that    *)
(* each call of the interface (Interpreter, StaticModule) is one step.     *)
(* Session::mNeedMalloc is left out: on the CPU a resize that was asked    *)
(* for by it alone changes nothing (Pipeline::allocMemory).                *)
(***************************************************************************)
EXTENDS Integers, FiniteSets

CONSTANTS
  Session,
  Nil,         \* a null pointer, or no session
  Tensor,
  Input,       \* the tensor that the user fills
  Addr,        \* bound: addresses the heap hands out, again once freed
  Sizes,       \* sizes that plans need
  NoFit,       \* a shape of the input for which encode fails
  MayFail,     \* whether the system can run out of memory
  RunAfterFix  \* whether a session is used after Session_Resize_Fix without
               \* being resized

ASSUME SharedBufferAssumption ==
  /\ Input \in Tensor
  /\ Nil \notin Session \cup Addr
  /\ Sizes \subseteq Nat \ {0}
  /\ NoFit \in Nat \ Sizes
  /\ MayFail \in BOOLEAN /\ RunAfterFix \in BOOLEAN

Index == 0 .. 1   \* MNN_CPU_MAX_BUFFER_INDEX

(* The shapes of the input, by the size of the plan that they ask for. *)
Shape == Sizes \cup {NoFit}

VARIABLES
  heap,     \* the size of the live block at each address, 0 if there is none
  buf,      \* CPURuntime::mDynamic: current.first and currentSize
  plan,     \* of each allocator: its tensors, mTotalSize and mPtr
  host,     \* where each tensor points: address, the plan that put it there,
            \* and whether that plan is still the allocator's
  group,    \* InsideDescribe::group, 1 once fixed
  backup,   \* mDynamicAllocatorBackup exists
  shape,    \* the shape that the user gave the input
  needResize,  \* mNeedResize
  sized,    \* history: the shape that the session was last resized for
  using,    \* history: the session whose tensors the last step accessed
  filled    \* history: where the last step wrote the input of a session

vars == <<heap, buf, plan, host, group, backup, shape, needResize, sized, using,
          filled>>

Nowhere == [addr |-> Nil, of |-> 0, fresh |-> FALSE]
Unplanned == [tensors |-> {}, total |-> 0, ptr |-> Nil]
NotFilled == [session |-> Nil, addr |-> Nil]

Init ==
  /\ heap = [a \in Addr |-> 0]
  /\ buf = [i \in Index |-> [base |-> Nil, size |-> 0]]
  /\ plan = [s \in Session |-> [i \in Index |-> Unplanned]]
  /\ host = [s \in Session |-> [t \in Tensor |-> Nowhere]]
  /\ group = [s \in Session |-> [t \in Tensor |-> 0]]
  /\ backup = [s \in Session |-> FALSE]
  /\ shape \in [Session -> Shape] /\ needResize = [s \in Session |-> TRUE]
  /\ sized = [s \in Session |-> NoFit]
  /\ using = Nil /\ filled = NotFilled

-----------------------------------------------------------------------------
(* What one call changes of the memory: the heap, the buffers, and the     *)
(* plans and pointers of the session that calls.                           *)
Memory(s) == [heap |-> heap, buf |-> buf, plan |-> plan[s], host |-> host[s]]

Freed(h, a) == IF a = Nil THEN h ELSE [h EXCEPT ![a] = 0]

(* The memory with another heap and other buffers, or with other plans and *)
(* pointers of the session.                                                *)
Holding(m, h, b) == [heap |-> h, buf |-> b, plan |-> m.plan, host |-> m.host]
Pointing(m, p, o) == [heap |-> m.heap, buf |-> m.buf, plan |-> p, host |-> o]

(* SingleBufferWithAllocator::release *)
Release(m, i) ==
  Holding(m, Freed(m.heap, m.buf[i].base),
          [m.buf EXCEPT ![i] =
             [base |-> Nil, size |-> IF @.base = Nil THEN @.size ELSE 0]])

(* SingleBufferWithAllocator::realloc: the outcomes.  A failure leaves     *)
(* currentSize as it was.                                                  *)
Reallocated(m, i, total) ==
  LET h == Freed(m.heap, m.buf[i].base) IN
  {[ok |-> TRUE, mem |-> Holding(m, [h EXCEPT ![a] = total],
                                 [m.buf EXCEPT ![i] = [base |-> a, size |-> total]])]
     : a \in {b \in Addr : h[b] = 0}}
  \cup (IF MayFail THEN {[ok |-> FALSE, mem |-> Holding(m, h, [m.buf EXCEPT ![i].base = Nil])]}
                   ELSE {})

(* The tensors of a plan are pointed into the buffer. *)
Placed(m, i) ==
  LET base == m.buf[i].base IN
  Pointing(m, [m.plan EXCEPT ![i].ptr = base],
           [t \in Tensor |->
              IF t \in m.plan[i].tensors
                THEN [addr |-> base, of |-> i, fresh |-> TRUE] ELSE m.host[t]])

(* DeferBufferAllocator::apply: the outcomes. *)
Moved(m, i) ==
  {IF r.ok THEN [ok |-> TRUE, mem |-> Placed(r.mem, i)] ELSE r
     : r \in Reallocated(m, i, m.plan[i].total)}
AppliedWhenGrown(m, i) ==
  IF m.plan[i].tensors = {} \/ m.buf[i].size >= m.plan[i].total
    THEN {[ok |-> TRUE, mem |-> m]}
    ELSE Moved(m, i)
Applied(m, i) ==
  IF m.plan[i].tensors = {}
    THEN {[ok |-> TRUE, mem |-> m]}
    ELSE IF m.buf[i].size < m.plan[i].total
      THEN Moved(m, i)
      ELSE {[ok |-> TRUE,
             mem |-> IF m.plan[i].ptr # m.buf[i].base THEN Placed(m, i) ELSE m]}

(* CPUBackend::_resetDynamicMemory: both allocators, unless the first one  *)
(* fails.                                                                  *)
ResetDynamicMemory(m, both) ==
  UNION {IF r.ok /\ both THEN Applied(r.mem, 1) ELSE {r} : r \in Applied(m, 0)}

(* DeferBufferAllocator::reset, and the plan made after it: the pointers   *)
(* of tensors stay as they are.                                            *)
Replanned(m, i, new) ==
  Pointing(m, [m.plan EXCEPT ![i] = new],
           [t \in Tensor |-> IF m.host[t].of = i
                               THEN [addr |-> m.host[t].addr, of |-> i, fresh |-> FALSE]
                               ELSE m.host[t]])
Forgotten(m, i) == Replanned(m, i, Unplanned)

(* A plan for the tensors of group i, and its first apply (compute).       *)
PlanFor(tensors, total) ==
  IF tensors = {} THEN Unplanned
    ELSE [tensors |-> tensors, total |-> total, ptr |-> Nil]
PlannedFor(m, i, tensors, total) == Applied(Replanned(m, i, PlanFor(tensors, total)), i)

Remember(s, m) ==
  /\ heap' = m.heap /\ buf' = m.buf
  /\ plan' = [plan EXCEPT ![s] = m.plan]
  /\ host' = [host EXCEPT ![s] = m.host]

-----------------------------------------------------------------------------
(* A session is created, or destroyed and another one created. *)
Create(s) ==
  /\ plan' = [plan EXCEPT ![s] = [i \in Index |-> Unplanned]]
  /\ host' = [host EXCEPT ![s] = [t \in Tensor |-> Nowhere]]
  /\ group' = [group EXCEPT ![s] = [t \in Tensor |-> 0]]
  /\ backup' = [backup EXCEPT ![s] = FALSE]
  /\ \E d \in Shape : shape' = [shape EXCEPT ![s] = d]
  /\ needResize' = [needResize EXCEPT ![s] = TRUE]
  /\ sized' = [sized EXCEPT ![s] = NoFit]
  /\ using' = Nil /\ filled' = NotFilled
  /\ UNCHANGED <<heap, buf>>

(* Interpreter::resizeTensor; _resizeTensor of StaticModule. *)
ResizeTensor(s, d) ==
  /\ d # shape[s]
  /\ shape' = [shape EXCEPT ![s] = d]
  /\ needResize' = [needResize EXCEPT ![s] = TRUE]
  /\ using' = Nil /\ filled' = NotFilled
  /\ UNCHANGED <<heap, buf, plan, host, group, backup, sized>>

(* The tensors that are planned whenever the session is resized. *)
Mutable(s) == {t \in Tensor : group[s][t] = 0}

(* What the plan for some tensors of a session takes: of all, what the     *)
(* shape asks for, of some, not more.                                      *)
Takes(s, tensors, total) ==
  total \in Sizes /\ IF tensors = Tensor THEN total = shape[s] ELSE total <= shape[s]

(* Mutant: the flag is cleared before encode can fail. *)
ResizeFailsCleared(s) ==
  /\ needResize[s] /\ shape[s] = NoFit
  /\ Remember(s, Forgotten(Memory(s), 0))
  /\ needResize' = [needResize EXCEPT ![s] = FALSE]
  /\ using' = Nil /\ filled' = NotFilled
  /\ UNCHANGED <<group, backup, shape, sized>>

(* Session::resize when encode fails, which has cleared the plan (the      *)
(* backend's onClearBuffer) before it computed shapes.                     *)
ResizeFails(s) ==
  /\ needResize[s] /\ shape[s] = NoFit
  /\ Remember(s, Forgotten(Memory(s), 0))
  /\ using' = Nil /\ filled' = NotFilled
  /\ UNCHANGED <<group, backup, shape, needResize, sized>>

(* Session::resize: the tensors that are not fixed are planned again.      *)
Resize(s) ==
  /\ needResize[s] /\ shape[s] # NoFit
  /\ \E total \in Sizes :
       /\ Takes(s, Mutable(s), total)
       /\ \E r \in PlannedFor(Memory(s), 0, Mutable(s), total) :
            /\ Remember(s, r.mem)
            /\ needResize' = [needResize EXCEPT ![s] = ~r.ok]
            /\ sized' = [sized EXCEPT ![s] = IF r.ok THEN shape[s] ELSE @]
  /\ using' = Nil /\ filled' = NotFilled
  /\ UNCHANGED <<group, backup, shape>>

(* Pipeline::fixResizeCache: the first plan is dropped, more tensors are   *)
(* found to be fixed and planned on buffer 1 (an error is ignored), and    *)
(* buffer 0 is released.  It does not ask for a resize: see Loose.         *)
FixKeepsBuffer(s, fixed, total) ==
  LET g == [t \in Tensor |-> IF t \in fixed THEN 1 ELSE group[s][t]] IN
  /\ ~needResize[s] /\ Takes(s, {t \in Tensor : g[t] = 1}, total)
  /\ \E r \in PlannedFor(Forgotten(Memory(s), 0), 1, {t \in Tensor : g[t] = 1}, total) :
       Remember(s, [r.mem EXCEPT !.buf[0] = [base |-> Nil, size |-> 0]])
  /\ group' = [group EXCEPT ![s] = g]
  /\ backup' = [backup EXCEPT ![s] = TRUE]
  /\ using' = Nil /\ filled' = NotFilled
  /\ UNCHANGED <<shape, needResize, sized>>
FixSwapsIndex(s, fixed, total) ==
  LET g == [t \in Tensor |-> IF t \in fixed THEN 2 ELSE group[s][t]] IN
  /\ ~needResize[s] /\ Takes(s, {t \in Tensor : g[t] = 1}, total)
  /\ \E r \in PlannedFor(Forgotten(Memory(s), 0), 1, {t \in Tensor : g[t] = 1}, total) :
       Remember(s, Release(r.mem, 0))
  /\ group' = [group EXCEPT ![s] = g]
  /\ backup' = [backup EXCEPT ![s] = TRUE]
  /\ using' = Nil /\ filled' = NotFilled
  /\ UNCHANGED <<shape, needResize, sized>>
Fix(s, fixed, total) ==
  LET g == [t \in Tensor |-> IF t \in fixed THEN 1 ELSE group[s][t]] IN
  /\ ~needResize[s] /\ Takes(s, {t \in Tensor : g[t] = 1}, total)
  /\ \E r \in PlannedFor(Forgotten(Memory(s), 0), 1, {t \in Tensor : g[t] = 1}, total) :
       Remember(s, Release(r.mem, 0))
  /\ group' = [group EXCEPT ![s] = g]
  /\ backup' = [backup EXCEPT ![s] = TRUE]
  /\ using' = Nil /\ filled' = NotFilled
  /\ UNCHANGED <<shape, needResize, sized>>

(* A fix dropped the plan of tensors that are not fixed, and the session   *)
(* was not resized since.                                                  *)
Loose(s) == plan[s][0].tensors # Mutable(s)

Ready(s) == ~needResize[s] /\ (Loose(s) => RunAfterFix)

(* Session::run and Pipeline::execute, which returns the error of          *)
(* onExecuteBegin.                                                         *)
Execute(s) ==
  /\ Ready(s)
  /\ \E r \in ResetDynamicMemory(Memory(s), backup[s]) :
       /\ Remember(s, r.mem)
       /\ using' = IF r.ok THEN s ELSE Nil
  /\ filled' = NotFilled
  /\ UNCHANGED <<group, backup, shape, needResize, sized>>

(* onCopyBuffer and onMapTensor: the input is filled by a copy or through  *)
(* a map.  Neither looks at the error.                                     *)
FillWithoutReset(s) ==
  /\ Ready(s)
  /\ using' = s
  /\ filled' = [session |-> s, addr |-> host[s][Input].addr]
  /\ UNCHANGED <<heap, buf, plan, host, group, backup, shape, needResize, sized>>
Fill(s) ==
  /\ Ready(s)
  /\ \E r \in ResetDynamicMemory(Memory(s), backup[s]) : Remember(s, r.mem)
  /\ using' = s
  /\ filled' = [session |-> s, addr |-> host'[s][Input].addr]
  /\ UNCHANGED <<group, backup, shape, needResize, sized>>

(* Executor::gc with FULL: CPURuntime::onGabageCollect(100). *)
GarbageCollect ==
  /\ heap' = [a \in Addr |-> 0]
  /\ buf' = [i \in Index |->
               [base |-> Nil, size |-> IF buf[i].base = Nil THEN buf[i].size ELSE 0]]
  /\ using' = Nil /\ filled' = NotFilled
  /\ UNCHANGED <<plan, host, group, backup, shape, needResize, sized>>

Next ==
  \/ \E s \in Session : Create(s) \/ Resize(s) \/ ResizeFails(s) \/ Execute(s) \/ Fill(s)
  \/ \E s \in Session, d \in Shape : ResizeTensor(s, d)
  \/ \E s \in Session, fixed \in SUBSET Tensor, total \in Sizes : Fix(s, fixed, total)
  \/ GarbageCollect

Spec == Init /\ [][Next]_vars

-----------------------------------------------------------------------------
Buffer == [base : Addr \cup {Nil}, size : Nat]
Plan == [tensors : SUBSET Tensor, total : Nat, ptr : Addr \cup {Nil}]
Pointer == [addr : Addr \cup {Nil}, of : Index, fresh : BOOLEAN]

(* Every variable has its type. *)
TypeOK ==
  /\ heap \in [Addr -> Nat]
  /\ buf \in [Index -> Buffer]
  /\ plan \in [Session -> [Index -> Plan]]
  /\ host \in [Session -> [Tensor -> Pointer]]
  /\ group \in [Session -> [Tensor -> Index]]
  /\ backup \in [Session -> BOOLEAN] /\ needResize \in [Session -> BOOLEAN]
  /\ {shape, sized} \subseteq [Session -> Shape]
  /\ using \in Session \cup {Nil}
  /\ filled \in [session : Session \cup {Nil}, addr : Addr \cup {Nil}]

(* A tensor points into the block its allocator's buffer holds now, at the *)
(* place the allocator's plan gave it, and the plan fits into the block.   *)
Valid(s, t) ==
  LET h == host[s][t] IN
  /\ h.fresh
  /\ h.addr # Nil /\ h.addr = buf[h.of].base
  /\ plan[s][h.of].total <= heap[h.addr]

(* Whenever a session's tensors are accessed, by an execution that did not *)
(* return an error, a copy or a map, the session was resized for the shape *)
(* that its input has now, and every one of them is valid: what            *)
(* docs/inference/session.md promises of sessions that share a runtime.    *)
AccessValid ==
  using # Nil => sized[using] = shape[using] /\ \A t \in Tensor : Valid(using, t)

(* No block is leaked, freed while a buffer still holds it, or held twice. *)
BlocksOwned ==
  /\ \A a \in Addr : heap[a] > 0 <=> \E i \in Index : buf[i].base = a
  /\ buf[0].base = buf[1].base => buf[0].base = Nil
  /\ \A i \in Index : buf[i].base # Nil => heap[buf[i].base] = buf[i].size

(* An input that was filled right before is where the execution looks for  *)
(* it: beginning to execute never moves the tensors again.                 *)
InputSurvives ==
  [][filled.session # Nil /\ using' = filled.session
       => host'[using'][Input].addr = filled.addr]_vars
=============================================================================
