------------------------- MODULE SharedBuffer_proofs -------------------------
(***************************************************************************)
(* Proofs about SharedBuffer, for any numbers of sessions, tensors,        *)
(* addresses and sizes.                                                    *)
(***************************************************************************)
EXTENDS SharedBuffer, TLAPS

(* What one call sees and changes of the memory. *)
MemoryType == [heap : [Addr -> Nat], buf : [Index -> Buffer],
               plan : [Index -> Plan], host : [Tensor -> Pointer]]

LEMMA MemoryOf ==
  ASSUME NEW m \in MemoryType
  PROVE  /\ m.heap \in [Addr -> Nat] /\ m.buf \in [Index -> Buffer]
         /\ m.plan \in [Index -> Plan] /\ m.host \in [Tensor -> Pointer]
BY DEF MemoryType

LEMMA HoldingIs ==
  ASSUME NEW m \in MemoryType, NEW h \in [Addr -> Nat], NEW b \in [Index -> Buffer]
  PROVE  /\ Holding(m, h, b) \in MemoryType
         /\ Holding(m, h, b).heap = h /\ Holding(m, h, b).buf = b
         /\ Holding(m, h, b).plan = m.plan /\ Holding(m, h, b).host = m.host
BY DEF Holding, MemoryType

LEMMA PointingIs ==
  ASSUME NEW m \in MemoryType, NEW p \in [Index -> Plan], NEW o \in [Tensor -> Pointer]
  PROVE  /\ Pointing(m, p, o) \in MemoryType
         /\ Pointing(m, p, o).heap = m.heap /\ Pointing(m, p, o).buf = m.buf
         /\ Pointing(m, p, o).plan = p /\ Pointing(m, p, o).host = o
BY DEF Pointing, MemoryType

LEMMA FreedIs ==
  ASSUME NEW h \in [Addr -> Nat], NEW a \in Addr \cup {Nil}
  PROVE  /\ Freed(h, a) \in [Addr -> Nat]
         /\ \A b \in Addr : Freed(h, a)[b] = IF b = a THEN 0 ELSE h[b]
BY SharedBufferAssumption DEF Freed

-----------------------------------------------------------------------------
(* What the operators on the memory return. *)

LEMMA ReleaseIs ==
  ASSUME NEW m \in MemoryType, NEW i \in Index
  PROVE  LET n == Release(m, i) IN
         /\ n \in MemoryType
         /\ n.heap = Freed(m.heap, m.buf[i].base)
         /\ n.buf = [m.buf EXCEPT ![i] =
                      [base |-> Nil, size |-> IF m.buf[i].base = Nil
                                                THEN m.buf[i].size ELSE 0]]
         /\ n.plan = m.plan /\ n.host = m.host
<1> DEFINE b == [m.buf EXCEPT ![i] =
             [base |-> Nil, size |-> IF @.base = Nil THEN @.size ELSE 0]]
           h == Freed(m.heap, m.buf[i].base)
<1>1. m.buf \in [Index -> Buffer] /\ m.heap \in [Addr -> Nat] BY MemoryOf
<1>2. m.buf[i].base \in Addr \cup {Nil} /\ m.buf[i].size \in Nat BY <1>1 DEF Buffer
<1>3. h \in [Addr -> Nat] BY <1>1, <1>2, FreedIs
<1>4. b \in [Index -> Buffer] BY <1>1, <1>2 DEF Buffer
<1>5. Release(m, i) = Holding(m, h, b) BY DEF Release
<1> HIDE DEF h, b
<1>6. /\ Holding(m, h, b) \in MemoryType
      /\ Holding(m, h, b).heap = h /\ Holding(m, h, b).buf = b
      /\ Holding(m, h, b).plan = m.plan /\ Holding(m, h, b).host = m.host
  BY <1>3, <1>4, HoldingIs
<1> QED BY <1>5, <1>6 DEF h, b

(* A block at a was had. *)
Got(m, n, i, a, total) ==
  /\ n \in MemoryType
  /\ Freed(m.heap, m.buf[i].base)[a] = 0
  /\ n.heap = [Freed(m.heap, m.buf[i].base) EXCEPT ![a] = total]
  /\ n.buf = [m.buf EXCEPT ![i] = [base |-> a, size |-> total]]
  /\ n.plan = m.plan /\ n.host = m.host

(* None was had, and the former one was freed. *)
Lost(m, n, i) ==
  /\ n \in MemoryType
  /\ n.heap = Freed(m.heap, m.buf[i].base)
  /\ n.buf = [m.buf EXCEPT ![i] = [base |-> Nil, size |-> m.buf[i].size]]
  /\ n.plan = m.plan /\ n.host = m.host

LEMMA ReallocatedIs ==
  ASSUME NEW m \in MemoryType, NEW i \in Index, NEW total \in Nat,
         NEW r \in Reallocated(m, i, total)
  PROVE  \/ r.ok = TRUE /\ \E a \in Addr : Got(m, r.mem, i, a, total)
         \/ r.ok = FALSE /\ MayFail /\ Lost(m, r.mem, i)
<1> DEFINE h == Freed(m.heap, m.buf[i].base)
           got(a) == Holding(m, [h EXCEPT ![a] = total],
                             [m.buf EXCEPT ![i] = [base |-> a, size |-> total]])
           lost == Holding(m, h, [m.buf EXCEPT ![i].base = Nil])
<1>1. m.buf \in [Index -> Buffer] /\ m.heap \in [Addr -> Nat] BY MemoryOf
<1>2. m.buf[i].base \in Addr \cup {Nil} /\ m.buf[i].size \in Nat
      /\ m.buf[i] = [base |-> m.buf[i].base, size |-> m.buf[i].size]
  BY <1>1 DEF Buffer
<1>3. h \in [Addr -> Nat] BY <1>1, <1>2, FreedIs
<1>4. ASSUME NEW a \in Addr, h[a] = 0 PROVE Got(m, got(a), i, a, total)
  <2> DEFINE g == [h EXCEPT ![a] = total]
             b == [m.buf EXCEPT ![i] = [base |-> a, size |-> total]]
  <2>1. g \in [Addr -> Nat] BY <1>3
  <2>2. b \in [Index -> Buffer] BY <1>1 DEF Buffer
  <2> HIDE DEF g, b
  <2>3. /\ Holding(m, g, b) \in MemoryType
        /\ Holding(m, g, b).heap = g /\ Holding(m, g, b).buf = b
        /\ Holding(m, g, b).plan = m.plan /\ Holding(m, g, b).host = m.host
    BY <2>1, <2>2, HoldingIs
  <2> QED BY <1>4, <2>3 DEF Got, g, b
<1>5. Lost(m, lost, i)
  <2> DEFINE b == [m.buf EXCEPT ![i].base = Nil]
             c == [m.buf EXCEPT ![i] = [base |-> Nil, size |-> m.buf[i].size]]
  <2>1. [m.buf[i] EXCEPT !.base = Nil] = [base |-> Nil, size |-> m.buf[i].size]
    BY <1>2
  <2>2. b = c BY <2>1
  <2>3. c \in [Index -> Buffer] BY <1>1, <1>2 DEF Buffer
  <2> HIDE DEF h, b, c
  <2>4. /\ Holding(m, h, c) \in MemoryType
        /\ Holding(m, h, c).heap = h /\ Holding(m, h, c).buf = c
        /\ Holding(m, h, c).plan = m.plan /\ Holding(m, h, c).host = m.host
    BY <1>3, <2>3, HoldingIs
  <2>5. lost = Holding(m, h, c) BY <2>2 DEF b
  <2> QED BY <2>4, <2>5 DEF Lost, h, c
<1>6. \/ r \in {[ok |-> TRUE, mem |-> got(a)] : a \in {b \in Addr : h[b] = 0}}
      \/ MayFail /\ r = [ok |-> FALSE, mem |-> lost]
  BY DEF Reallocated
<1> HIDE DEF h, got, lost
<1> QED BY <1>4, <1>5, <1>6

(* The tensors of plan i were pointed into buffer i. *)
Pointed(m, n, i) ==
  /\ n \in MemoryType
  /\ n.heap = m.heap /\ n.buf = m.buf
  /\ n.plan = [m.plan EXCEPT ![i] = [tensors |-> m.plan[i].tensors,
                                     total |-> m.plan[i].total, ptr |-> m.buf[i].base]]
  /\ n.host = [t \in Tensor |->
                IF t \in m.plan[i].tensors
                  THEN [addr |-> m.buf[i].base, of |-> i, fresh |-> TRUE]
                  ELSE m.host[t]]

LEMMA PlacedIs ==
  ASSUME NEW m \in MemoryType, NEW i \in Index
  PROVE  Pointed(m, Placed(m, i), i)
<1> DEFINE p == [m.plan EXCEPT ![i].ptr = m.buf[i].base]
           q == [m.plan EXCEPT ![i] = [tensors |-> m.plan[i].tensors,
                                       total |-> m.plan[i].total, ptr |-> m.buf[i].base]]
           o == [t \in Tensor |->
                IF t \in m.plan[i].tensors
                  THEN [addr |-> m.buf[i].base, of |-> i, fresh |-> TRUE]
                  ELSE m.host[t]]
<1>1. /\ m.buf \in [Index -> Buffer] /\ m.plan \in [Index -> Plan]
      /\ m.host \in [Tensor -> Pointer]
  BY MemoryOf
<1>2. m.buf[i].base \in Addr \cup {Nil} BY <1>1 DEF Buffer
<1>3. m.plan[i] = [tensors |-> m.plan[i].tensors, total |-> m.plan[i].total,
                   ptr |-> m.plan[i].ptr]
  BY <1>1 DEF Plan
<1>4. [m.plan[i] EXCEPT !.ptr = m.buf[i].base]
        = [tensors |-> m.plan[i].tensors, total |-> m.plan[i].total, ptr |-> m.buf[i].base]
  BY <1>3
<1>5. p = q BY <1>4
<1>6. q \in [Index -> Plan] BY <1>1, <1>2 DEF Plan
<1>7. o \in [Tensor -> Pointer] BY <1>1, <1>2 DEF Pointer
<1>8. Placed(m, i) = Pointing(m, p, o) BY DEF Placed
<1> HIDE DEF p, q, o
<1>9. /\ Pointing(m, q, o) \in MemoryType
      /\ Pointing(m, q, o).heap = m.heap /\ Pointing(m, q, o).buf = m.buf
      /\ Pointing(m, q, o).plan = q /\ Pointing(m, q, o).host = o
  BY <1>6, <1>7, PointingIs
<1> QED BY <1>5, <1>8, <1>9 DEF Pointed, q, o

(* Nothing is planned, the buffer must grow, or it is large enough. *)
LEMMA AppliedCases ==
  ASSUME NEW m \in MemoryType, NEW i \in Index, NEW r \in Applied(m, i)
  PROVE  \/ m.plan[i].tensors = {} /\ r.ok = TRUE /\ r.mem = m
         \/ /\ m.plan[i].tensors # {} /\ m.buf[i].size < m.plan[i].total
            /\ \/ /\ r.ok = TRUE
                  /\ \E a \in Addr, n \in MemoryType :
                       Got(m, n, i, a, m.plan[i].total) /\ Pointed(n, r.mem, i)
               \/ r.ok = FALSE /\ MayFail /\ Lost(m, r.mem, i)
         \/ /\ m.plan[i].tensors # {} /\ m.plan[i].total <= m.buf[i].size /\ r.ok = TRUE
            /\ \/ m.plan[i].ptr # m.buf[i].base /\ Pointed(m, r.mem, i)
               \/ m.plan[i].ptr = m.buf[i].base /\ r.mem = m
<1>1. m.buf[i].size \in Nat /\ m.plan[i].total \in Nat
  BY MemoryOf DEF Buffer, Plan
<1>2. CASE m.plan[i].tensors = {} BY <1>2 DEF Applied
<1>3. CASE m.plan[i].tensors # {} /\ m.buf[i].size < m.plan[i].total
  <2>1. PICK q \in Reallocated(m, i, m.plan[i].total) :
          r = IF q.ok THEN [ok |-> TRUE, mem |-> Placed(q.mem, i)] ELSE q
    BY <1>3 DEF Applied, Moved
  <2>2. CASE q.ok = TRUE /\ \E a \in Addr : Got(m, q.mem, i, a, m.plan[i].total)
    <3>1. r.ok = TRUE /\ r.mem = Placed(q.mem, i) BY <2>1, <2>2
    <3>2. q.mem \in MemoryType BY <2>2 DEF Got
    <3>3. Pointed(q.mem, r.mem, i) BY <3>1, <3>2, PlacedIs
    <3> QED BY <1>3, <2>2, <3>1, <3>2, <3>3
  <2>3. CASE q.ok = FALSE /\ MayFail /\ Lost(m, q.mem, i)
    BY <1>3, <2>1, <2>3
  <2> QED BY <1>1, <2>2, <2>3, ReallocatedIs
<1>4. CASE m.plan[i].tensors # {} /\ ~(m.buf[i].size < m.plan[i].total)
  <2>1. r = [ok |-> TRUE,
             mem |-> IF m.plan[i].ptr # m.buf[i].base THEN Placed(m, i) ELSE m]
    BY <1>4 DEF Applied
  <2>2. m.plan[i].total <= m.buf[i].size BY <1>1, <1>4
  <2> QED BY <1>4, <2>1, <2>2, PlacedIs
<1> QED BY <1>2, <1>3, <1>4

(* The plan was replaced. *)
Renewed(m, n, i, new) ==
  /\ n \in MemoryType
  /\ n.heap = m.heap /\ n.buf = m.buf
  /\ n.plan = [m.plan EXCEPT ![i] = new]
  /\ n.host = [t \in Tensor |->
                IF m.host[t].of = i
                  THEN [addr |-> m.host[t].addr, of |-> i, fresh |-> FALSE]
                  ELSE m.host[t]]

LEMMA ReplannedIs ==
  ASSUME NEW m \in MemoryType, NEW i \in Index, NEW new \in Plan
  PROVE  Renewed(m, Replanned(m, i, new), i, new)
<1> DEFINE p == [m.plan EXCEPT ![i] = new]
           o == [t \in Tensor |->
                IF m.host[t].of = i
                  THEN [addr |-> m.host[t].addr, of |-> i, fresh |-> FALSE]
                  ELSE m.host[t]]
<1>1. m.plan \in [Index -> Plan] /\ m.host \in [Tensor -> Pointer]
  BY MemoryOf
<1>2. p \in [Index -> Plan] BY <1>1
<1>3. o \in [Tensor -> Pointer] BY <1>1 DEF Pointer
<1>4. Replanned(m, i, new) = Pointing(m, p, o) BY DEF Replanned
<1> HIDE DEF p, o
<1>5. /\ Pointing(m, p, o) \in MemoryType
      /\ Pointing(m, p, o).heap = m.heap /\ Pointing(m, p, o).buf = m.buf
      /\ Pointing(m, p, o).plan = p /\ Pointing(m, p, o).host = o
  BY <1>2, <1>3, PointingIs
<1> QED BY <1>4, <1>5 DEF Renewed, p, o

LEMMA PlanForType ==
  ASSUME NEW tensors \in SUBSET Tensor, NEW total \in Nat
  PROVE  PlanFor(tensors, total) \in Plan /\ Unplanned \in Plan
BY DEF PlanFor, Plan, Unplanned

LEMMA AppliedType ==
  ASSUME NEW m \in MemoryType, NEW i \in Index, NEW r \in Applied(m, i)
  PROVE  r.ok \in BOOLEAN /\ r.mem \in MemoryType
BY AppliedCases DEF Pointed, Lost

LEMMA PlannedForIs ==
  ASSUME NEW m \in MemoryType, NEW i \in Index, NEW tensors \in SUBSET Tensor,
         NEW total \in Nat, NEW r \in PlannedFor(m, i, tensors, total)
  PROVE  \E n \in MemoryType : /\ Renewed(m, n, i, PlanFor(tensors, total))
                              /\ r \in Applied(n, i)
<1> DEFINE n == Replanned(m, i, PlanFor(tensors, total))
<1>1. Renewed(m, n, i, PlanFor(tensors, total)) BY ReplannedIs, PlanForType
<1>2. r \in Applied(n, i) BY DEF PlannedFor
<1> HIDE DEF n
<1> QED BY <1>1, <1>2 DEF Renewed

LEMMA PlannedForType ==
  ASSUME NEW m \in MemoryType, NEW i \in Index, NEW tensors \in SUBSET Tensor,
         NEW total \in Nat, NEW r \in PlannedFor(m, i, tensors, total)
  PROVE  r.ok \in BOOLEAN /\ r.mem \in MemoryType
BY PlannedForIs, AppliedType

LEMMA ResetIs ==
  ASSUME NEW m \in MemoryType, NEW both \in BOOLEAN,
         NEW r \in ResetDynamicMemory(m, both)
  PROVE  \E q \in Applied(m, 0) :
           \/ both /\ q.ok = TRUE /\ r \in Applied(q.mem, 1)
           \/ ~(q.ok /\ both) /\ r = q
BY AppliedType DEF ResetDynamicMemory, Index

LEMMA ResetType ==
  ASSUME NEW m \in MemoryType, NEW both \in BOOLEAN,
         NEW r \in ResetDynamicMemory(m, both)
  PROVE  r.ok \in BOOLEAN /\ r.mem \in MemoryType
<1>1. 0 \in Index /\ 1 \in Index BY DEF Index
<1> QED BY <1>1, ResetIs, AppliedType

-----------------------------------------------------------------------------
(* Types. *)

LEMMA MemoryTyped ==
  ASSUME TypeOK, NEW s \in Session
  PROVE  /\ Memory(s) \in MemoryType
         /\ Memory(s).heap = heap /\ Memory(s).buf = buf
         /\ Memory(s).plan = plan[s] /\ Memory(s).host = host[s]
BY DEF TypeOK, Memory, MemoryType

(* The part of the type that a call changes by Remember. *)
MemoryTypeOK ==
  /\ heap \in [Addr -> Nat] /\ buf \in [Index -> Buffer]
  /\ plan \in [Session -> [Index -> Plan]]
  /\ host \in [Session -> [Tensor -> Pointer]]

LEMMA RememberType ==
  ASSUME TypeOK, NEW s \in Session, NEW m \in MemoryType, Remember(s, m)
  PROVE  MemoryTypeOK'
BY MemoryOf DEF TypeOK, Remember, MemoryTypeOK

LEMMA TypeNext == TypeOK /\ [Next]_vars => TypeOK'
<1> SUFFICES ASSUME TypeOK, [Next]_vars PROVE TypeOK'
  OBVIOUS
<1> USE DEF TypeOK
<1>1. 0 \in Index /\ 1 \in Index BY DEF Index
<1>2. NoFit \in Shape /\ Nil \notin Session /\ Sizes \subseteq Nat
  BY SharedBufferAssumption DEF Shape
<1>3. NotFilled \in [session : Session \cup {Nil}, addr : Addr \cup {Nil}]
  BY DEF NotFilled
<1>4. ASSUME NEW s \in Session, Create(s) PROVE TypeOK'
  <2>1. Unplanned \in Plan /\ Nowhere \in Pointer
    BY <1>1 DEF Unplanned, Plan, Nowhere, Pointer
  <2> QED BY <1>1, <1>2, <1>3, <1>4, <2>1 DEF Create
<1>5. ASSUME NEW s \in Session, NEW d \in Shape, ResizeTensor(s, d) PROVE TypeOK'
  BY <1>3, <1>5 DEF ResizeTensor
<1>6. ASSUME NEW s \in Session, ResizeFails(s) PROVE TypeOK'
  <2>1. Forgotten(Memory(s), 0) \in MemoryType
    BY <1>1, MemoryTyped, ReplannedIs, PlanForType DEF Forgotten, Renewed
  <2>2. MemoryTypeOK' BY <1>6, <2>1, RememberType DEF ResizeFails
  <2> QED BY <1>3, <1>6, <2>2 DEF ResizeFails, MemoryTypeOK
<1>7. ASSUME NEW s \in Session, Resize(s) PROVE TypeOK'
  <2>0. PICK total \in Sizes :
          \E r \in PlannedFor(Memory(s), 0, Mutable(s), total) :
            /\ Remember(s, r.mem)
            /\ needResize' = [needResize EXCEPT ![s] = ~r.ok]
            /\ sized' = [sized EXCEPT ![s] = IF r.ok THEN shape[s] ELSE @]
    BY <1>7 DEF Resize
  <2>1. PICK r \in PlannedFor(Memory(s), 0, Mutable(s), total) :
          /\ Remember(s, r.mem)
          /\ needResize' = [needResize EXCEPT ![s] = ~r.ok]
          /\ sized' = [sized EXCEPT ![s] = IF r.ok THEN shape[s] ELSE @]
    BY <2>0
  <2>2. r.ok \in BOOLEAN /\ r.mem \in MemoryType
    <3>1. Mutable(s) \in SUBSET Tensor BY DEF Mutable
    <3> QED BY <1>1, <1>2, <2>1, <3>1, MemoryTyped, PlannedForType
  <2>3. MemoryTypeOK' BY <2>1, <2>2, RememberType
  <2>4. (~r.ok) \in BOOLEAN OBVIOUS
  <2>5. needResize' \in [Session -> BOOLEAN] BY <2>1, <2>4
  <2>6. sized' \in [Session -> Shape] BY <2>1, <2>2
  <2> QED BY <1>3, <1>7, <2>3, <2>5, <2>6 DEF Resize, MemoryTypeOK
<1>8. ASSUME NEW s \in Session, NEW fixed \in SUBSET Tensor, NEW total \in Sizes,
             Fix(s, fixed, total)
      PROVE  TypeOK'
  <2> DEFINE g == [t \in Tensor |-> IF t \in fixed THEN 1 ELSE group[s][t]]
             tensors == {t \in Tensor : g[t] = 1}
  <2>1. PICK r \in PlannedFor(Forgotten(Memory(s), 0), 1, tensors, total) :
          Remember(s, Release(r.mem, 0))
    BY <1>8 DEF Fix
  <2>2. Forgotten(Memory(s), 0) \in MemoryType
    BY <1>1, MemoryTyped, ReplannedIs, PlanForType DEF Forgotten, Renewed
  <2>3. r.mem \in MemoryType BY <1>1, <1>2, <2>1, <2>2, PlannedForType
  <2>4. Release(r.mem, 0) \in MemoryType BY <1>1, <2>3, ReleaseIs
  <2>5. MemoryTypeOK' BY <2>1, <2>4, RememberType
  <2>6. g \in [Tensor -> Index] BY <1>1
  <2>7. group' = [group EXCEPT ![s] = g] /\ backup' = [backup EXCEPT ![s] = TRUE]
        /\ using' = Nil /\ filled' = NotFilled /\ UNCHANGED <<shape, needResize, sized>>
    BY <1>8 DEF Fix
  <2>8. group' \in [Session -> [Tensor -> Index]] BY <2>6, <2>7
  <2> QED BY <1>3, <2>5, <2>7, <2>8 DEF MemoryTypeOK
<1>9. ASSUME NEW s \in Session, Execute(s) PROVE TypeOK'
  <2>1. PICK r \in ResetDynamicMemory(Memory(s), backup[s]) :
          Remember(s, r.mem) /\ using' = IF r.ok THEN s ELSE Nil
    BY <1>9 DEF Execute
  <2>2. r.mem \in MemoryType BY <2>1, MemoryTyped, ResetType
  <2>3. MemoryTypeOK' BY <2>1, <2>2, RememberType
  <2> QED BY <1>3, <1>9, <2>1, <2>3 DEF Execute, MemoryTypeOK
<1>10. ASSUME NEW s \in Session, Fill(s) PROVE TypeOK'
  <2>1. PICK r \in ResetDynamicMemory(Memory(s), backup[s]) : Remember(s, r.mem)
    BY <1>10 DEF Fill
  <2>2. r.mem \in MemoryType BY <2>1, MemoryTyped, ResetType
  <2>3. MemoryTypeOK' BY <2>1, <2>2, RememberType
  <2>4. host'[s][Input].addr \in Addr \cup {Nil}
    BY <2>3, SharedBufferAssumption DEF MemoryTypeOK, Pointer
  <2> QED BY <1>10, <2>3, <2>4 DEF Fill, MemoryTypeOK
<1>11. CASE GarbageCollect
  <2>1. buf' \in [Index -> Buffer] BY <1>11 DEF GarbageCollect, Buffer
  <2> QED BY <1>3, <1>11, <2>1 DEF GarbageCollect
<1>12. CASE UNCHANGED vars BY <1>12 DEF vars
<1> QED
  BY <1>4, <1>5, <1>6, <1>7, <1>8, <1>9, <1>10, <1>11, <1>12 DEF Next

LEMMA TypeInit == Init => TypeOK
<1> SUFFICES ASSUME Init PROVE TypeOK
  OBVIOUS
<1>1. Unplanned \in Plan /\ Nowhere \in Pointer
  BY DEF Unplanned, Plan, Nowhere, Pointer, Index
<1>2. \A i \in Index : [base |-> Nil, size |-> 0] \in Buffer BY DEF Buffer
<1>3. NotFilled \in [session : Session \cup {Nil}, addr : Addr \cup {Nil}]
  BY DEF NotFilled
<1>4. NoFit \in Shape /\ 0 \in Index BY DEF Shape, Index
<1> QED BY <1>1, <1>2, <1>3, <1>4 DEF Init, TypeOK

(* Every variable has its type, whatever sessions do and whether or not the *)
(* system runs out of memory.                                               *)
THEOREM TypeCorrect == Spec => []TypeOK
<1>1. Init => TypeOK BY TypeInit
<1>2. TypeOK /\ [Next]_vars => TypeOK' BY TypeNext
<1> QED BY <1>1, <1>2, PTL DEF Spec

-----------------------------------------------------------------------------
(* The blocks of the heap. *)

(* BlocksOwned, of a heap and buffers. *)
Owned(h, b) ==
  /\ \A a \in Addr : h[a] > 0 <=> \E i \in Index : b[i].base = a
  /\ b[0].base = b[1].base => b[0].base = Nil
  /\ \A i \in Index : b[i].base # Nil => h[b[i].base] = b[i].size

LEMMA OwnedIs == BlocksOwned <=> Owned(heap, buf)
BY DEF BlocksOwned, Owned

LEMMA FreedOwned ==
  ASSUME NEW m \in MemoryType, NEW i \in Index, NEW j \in Index, j # i,
         Owned(m.heap, m.buf)
  PROVE  LET h == Freed(m.heap, m.buf[i].base) IN
         /\ h \in [Addr -> Nat]
         /\ \A a \in Addr : h[a] > 0 <=> m.buf[j].base = a
         /\ m.buf[j].base # Nil => h[m.buf[j].base] = m.buf[j].size
<1> DEFINE h == Freed(m.heap, m.buf[i].base)
<1>1. /\ m.buf[0] \in Buffer /\ m.buf[1] \in Buffer
      /\ m.heap \in [Addr -> Nat]
  BY MemoryOf DEF Index
<1>2. m.buf[i].base \in Addr \cup {Nil} /\ m.buf[j].base \in Addr \cup {Nil}
  BY <1>1 DEF Buffer, Index
<1>3. /\ h \in [Addr -> Nat]
      /\ \A b \in Addr : h[b] = IF b = m.buf[i].base THEN 0 ELSE m.heap[b]
  BY <1>1, <1>2, FreedIs
<1>4. m.buf[i].base = m.buf[j].base => m.buf[i].base = Nil
  BY DEF Owned, Index
<1>5. \A k \in Index : k = i \/ k = j BY DEF Index
<1>6. ASSUME NEW a \in Addr PROVE h[a] > 0 <=> m.buf[j].base = a
  <2>1. a # Nil BY SharedBufferAssumption
  <2>2. m.heap[a] > 0 <=> (m.buf[i].base = a \/ m.buf[j].base = a)
    BY <1>5 DEF Owned
  <2>3. h[a] = IF a = m.buf[i].base THEN 0 ELSE m.heap[a] BY <1>3
  <2> QED BY <1>4, <2>1, <2>2, <2>3
<1>7. m.buf[j].base # Nil => h[m.buf[j].base] = m.buf[j].size
  BY <1>2, <1>3, <1>4 DEF Owned
<1> QED BY <1>3, <1>6, <1>7

LEMMA ReleaseOwned ==
  ASSUME NEW m \in MemoryType, NEW i \in Index, Owned(m.heap, m.buf)
  PROVE  Owned(Release(m, i).heap, Release(m, i).buf)
<1> DEFINE n == Release(m, i)
<1>1. PICK j \in Index : j # i /\ \A k \in Index : k = i \/ k = j
  BY DEF Index
<1>2. /\ n.heap = Freed(m.heap, m.buf[i].base)
      /\ n.buf[i].base = Nil /\ n.buf[j] = m.buf[j]
  <2> DEFINE empty == [base |-> Nil, size |-> IF m.buf[i].base = Nil
                                               THEN m.buf[i].size ELSE 0]
  <2>1. n.heap = Freed(m.heap, m.buf[i].base) /\ n.buf = [m.buf EXCEPT ![i] = empty]
    BY ReleaseIs
  <2>2. empty.base = Nil OBVIOUS
  <2> HIDE DEF n, empty
  <2> QED BY <1>1, <2>1, <2>2, MemoryOf
<1>3. /\ \A a \in Addr : n.heap[a] > 0 <=> m.buf[j].base = a
      /\ m.buf[j].base # Nil => n.heap[m.buf[j].base] = m.buf[j].size
  BY <1>1, <1>2, FreedOwned
<1> HIDE DEF n
<1>4. ASSUME NEW a \in Addr
      PROVE n.heap[a] > 0 <=> \E k \in Index : n.buf[k].base = a
  BY <1>1, <1>2, <1>3, SharedBufferAssumption
<1>5. n.buf[0].base = n.buf[1].base => n.buf[0].base = Nil
  BY <1>1, <1>2 DEF Index
<1>6. \A k \in Index : n.buf[k].base # Nil => n.heap[n.buf[k].base] = n.buf[k].size
  BY <1>1, <1>2, <1>3
<1> QED BY <1>4, <1>5, <1>6 DEF Owned, n

LEMMA GotOwned ==
  ASSUME NEW m \in MemoryType, NEW n \in MemoryType, NEW i \in Index,
         NEW a \in Addr, NEW total \in Nat \ {0},
         Owned(m.heap, m.buf), Got(m, n, i, a, total)
  PROVE  Owned(n.heap, n.buf)
<1> DEFINE h == Freed(m.heap, m.buf[i].base)
<1>1. PICK j \in Index : j # i /\ \A k \in Index : k = i \/ k = j
  BY DEF Index
<1>2. /\ h \in [Addr -> Nat]
      /\ \A b \in Addr : h[b] > 0 <=> m.buf[j].base = b
      /\ m.buf[j].base # Nil => h[m.buf[j].base] = m.buf[j].size
  BY <1>1, FreedOwned
<1>3. /\ h[a] = 0 /\ n.heap = [h EXCEPT ![a] = total]
      /\ n.buf[i] = [base |-> a, size |-> total] /\ n.buf[j] = m.buf[j]
  BY <1>1, MemoryOf DEF Got
<1> HIDE DEF h
<1>4. m.buf[j].base # a /\ a # Nil BY <1>2, <1>3, SharedBufferAssumption
<1>5. ASSUME NEW b \in Addr
      PROVE n.heap[b] > 0 <=> \E k \in Index : n.buf[k].base = b
  <2>1. CASE b = a BY <1>2, <1>3, <2>1
  <2>2. CASE b # a
    <3>1. n.heap[b] = h[b] BY <1>2, <1>3, <2>2
    <3> QED BY <1>1, <1>2, <1>3, <2>2, <3>1
  <2> QED BY <2>1, <2>2
<1>6. n.buf[0].base = n.buf[1].base => n.buf[0].base = Nil
  BY <1>1, <1>3, <1>4 DEF Index
<1>7. n.buf[i].base # Nil => n.heap[n.buf[i].base] = n.buf[i].size
  BY <1>2, <1>3
<1>8. n.buf[j].base # Nil => n.heap[n.buf[j].base] = n.buf[j].size
  <2>1. m.buf[j].base \in Addr \cup {Nil}
    BY MemoryOf DEF Buffer
  <2> QED BY <1>2, <1>3, <1>4, <2>1
<1> QED BY <1>1, <1>5, <1>6, <1>7, <1>8 DEF Owned

LEMMA LostOwned ==
  ASSUME NEW m \in MemoryType, NEW n \in MemoryType, NEW i \in Index,
         Owned(m.heap, m.buf), Lost(m, n, i)
  PROVE  Owned(n.heap, n.buf)
<1>1. PICK j \in Index : j # i /\ \A k \in Index : k = i \/ k = j
  BY DEF Index
<1>2. /\ n.heap = Freed(m.heap, m.buf[i].base)
      /\ n.buf[i].base = Nil /\ n.buf[j] = m.buf[j]
  BY <1>1, MemoryOf DEF Lost
<1>3. /\ \A a \in Addr : n.heap[a] > 0 <=> m.buf[j].base = a
      /\ m.buf[j].base # Nil => n.heap[m.buf[j].base] = m.buf[j].size
  BY <1>1, <1>2, FreedOwned
<1>4. ASSUME NEW a \in Addr
      PROVE n.heap[a] > 0 <=> \E k \in Index : n.buf[k].base = a
  BY <1>1, <1>2, <1>3, SharedBufferAssumption
<1>5. n.buf[0].base = n.buf[1].base => n.buf[0].base = Nil
  BY <1>1, <1>2 DEF Index
<1>6. \A k \in Index : n.buf[k].base # Nil => n.heap[n.buf[k].base] = n.buf[k].size
  BY <1>1, <1>2, <1>3
<1> QED BY <1>4, <1>5, <1>6 DEF Owned

LEMMA AppliedOwned ==
  ASSUME NEW m \in MemoryType, NEW i \in Index, NEW r \in Applied(m, i),
         Owned(m.heap, m.buf)
  PROVE  Owned(r.mem.heap, r.mem.buf)
<1>1. m.buf[i].size \in Nat /\ m.plan[i].total \in Nat
  BY MemoryOf DEF Buffer, Plan
<1>2. CASE r.mem = m BY <1>2
<1>3. CASE Pointed(m, r.mem, i) BY <1>3 DEF Pointed
<1>4. CASE MayFail /\ Lost(m, r.mem, i) BY <1>4, LostOwned DEF Lost
<1>5. ASSUME m.buf[i].size < m.plan[i].total, NEW a \in Addr, NEW n \in MemoryType,
             Got(m, n, i, a, m.plan[i].total), Pointed(n, r.mem, i)
      PROVE  Owned(r.mem.heap, r.mem.buf)
  <2>1. m.plan[i].total \in Nat \ {0} BY <1>1, <1>5
  <2>2. Owned(n.heap, n.buf) BY <1>5, <2>1, GotOwned
  <2> QED BY <1>5, <2>2 DEF Pointed
<1> QED BY ZenonT(40), <1>2, <1>3, <1>4, <1>5, AppliedCases

LEMMA PlannedForOwned ==
  ASSUME NEW m \in MemoryType, NEW i \in Index, NEW tensors \in SUBSET Tensor,
         NEW total \in Nat, NEW r \in PlannedFor(m, i, tensors, total),
         Owned(m.heap, m.buf)
  PROVE  Owned(r.mem.heap, r.mem.buf)
<1>1. PICK n \in MemoryType : /\ Renewed(m, n, i, PlanFor(tensors, total))
                              /\ r \in Applied(n, i)
  BY PlannedForIs
<1>2. Owned(n.heap, n.buf) BY <1>1 DEF Renewed
<1> QED BY <1>1, <1>2, AppliedOwned

LEMMA ResetOwned ==
  ASSUME NEW m \in MemoryType, NEW both \in BOOLEAN,
         NEW r \in ResetDynamicMemory(m, both), Owned(m.heap, m.buf)
  PROVE  Owned(r.mem.heap, r.mem.buf)
<1>1. 0 \in Index /\ 1 \in Index BY DEF Index
<1>2. PICK q \in Applied(m, 0) :
        \/ both /\ q.ok = TRUE /\ r \in Applied(q.mem, 1)
        \/ ~(q.ok /\ both) /\ r = q
  BY ResetIs
<1>3. q.mem \in MemoryType /\ Owned(q.mem.heap, q.mem.buf)
  BY <1>1, AppliedType, AppliedOwned
<1> QED BY <1>1, <1>2, <1>3, AppliedOwned

LEMMA RememberOwned ==
  ASSUME NEW s \in Session, NEW m \in MemoryType, Remember(s, m),
         Owned(m.heap, m.buf)
  PROVE  BlocksOwned'
BY DEF Remember, BlocksOwned, Owned

(* Every step keeps the accounting of blocks.                               *)
LEMMA OwnedNext == TypeOK /\ BlocksOwned /\ [Next]_vars => BlocksOwned'
<1> SUFFICES ASSUME TypeOK, BlocksOwned, [Next]_vars PROVE BlocksOwned'
  OBVIOUS
<1>1. 0 \in Index /\ 1 \in Index /\ Sizes \subseteq Nat
  BY SharedBufferAssumption DEF Index
<1>2. CASE UNCHANGED <<heap, buf>> BY <1>2 DEF BlocksOwned
<1>3. \A s \in Session : /\ Memory(s) \in MemoryType
                         /\ Owned(Memory(s).heap, Memory(s).buf)
  BY MemoryTyped, OwnedIs
<1>4. ASSUME NEW s \in Session
      PROVE  /\ Forgotten(Memory(s), 0) \in MemoryType
             /\ Owned(Forgotten(Memory(s), 0).heap, Forgotten(Memory(s), 0).buf)
  <2>1. Renewed(Memory(s), Forgotten(Memory(s), 0), 0, Unplanned)
    BY <1>1, <1>3, ReplannedIs, PlanForType DEF Forgotten
  <2> QED BY <1>3, <2>1 DEF Renewed
<1>5. ASSUME NEW s \in Session, ResizeFails(s) PROVE BlocksOwned'
  BY <1>4, <1>5, RememberOwned DEF ResizeFails
<1>6. ASSUME NEW s \in Session, Resize(s) PROVE BlocksOwned'
  <2>1. PICK total \in Sizes :
          \E r \in PlannedFor(Memory(s), 0, Mutable(s), total) : Remember(s, r.mem)
    BY <1>6 DEF Resize
  <2>2. PICK r \in PlannedFor(Memory(s), 0, Mutable(s), total) : Remember(s, r.mem)
    BY <2>1
  <2>3. Mutable(s) \in SUBSET Tensor /\ total \in Nat BY <1>1 DEF Mutable
  <2>4. r.mem \in MemoryType /\ Owned(r.mem.heap, r.mem.buf)
    BY <1>1, <1>3, <2>3, PlannedForType, PlannedForOwned
  <2> QED BY <2>2, <2>4, RememberOwned
<1>7. ASSUME NEW s \in Session, NEW fixed \in SUBSET Tensor, NEW total \in Sizes,
             Fix(s, fixed, total)
      PROVE  BlocksOwned'
  <2> DEFINE g == [t \in Tensor |-> IF t \in fixed THEN 1 ELSE group[s][t]]
             tensors == {t \in Tensor : g[t] = 1}
  <2>1. PICK r \in PlannedFor(Forgotten(Memory(s), 0), 1, tensors, total) :
          Remember(s, Release(r.mem, 0))
    BY <1>7 DEF Fix
  <2>2. total \in Nat /\ tensors \in SUBSET Tensor BY <1>1
  <2>3. r.mem \in MemoryType /\ Owned(r.mem.heap, r.mem.buf)
    BY <1>1, <1>4, <2>2, PlannedForType, PlannedForOwned
  <2>4. /\ Release(r.mem, 0) \in MemoryType
        /\ Owned(Release(r.mem, 0).heap, Release(r.mem, 0).buf)
    BY <1>1, <2>3, ReleaseIs, ReleaseOwned
  <2> QED BY <2>1, <2>4, RememberOwned
<1>8. ASSUME NEW s \in Session, Execute(s) \/ Fill(s) PROVE BlocksOwned'
  <2>1. PICK r \in ResetDynamicMemory(Memory(s), backup[s]) : Remember(s, r.mem)
    BY <1>8 DEF Execute, Fill
  <2>2. backup[s] \in BOOLEAN BY DEF TypeOK
  <2>3. r.mem \in MemoryType /\ Owned(r.mem.heap, r.mem.buf)
    BY <1>3, <2>2, ResetType, ResetOwned
  <2> QED BY <2>1, <2>3, RememberOwned
<1>9. CASE GarbageCollect
  <2>1. \A i \in Index : buf'[i].base = Nil BY <1>9 DEF GarbageCollect
  <2>2. \A a \in Addr : heap'[a] = 0 BY <1>9 DEF GarbageCollect
  <2> QED BY <1>1, <2>1, <2>2, SharedBufferAssumption DEF BlocksOwned
<1>10. ASSUME NEW s \in Session, Create(s) \/ \E d \in Shape : ResizeTensor(s, d)
       PROVE BlocksOwned'
  BY <1>2, <1>10 DEF Create, ResizeTensor
<1>11. CASE UNCHANGED vars BY <1>2, <1>11 DEF vars
<1> QED
  BY <1>5, <1>6, <1>7, <1>8, <1>9, <1>10, <1>11 DEF Next

LEMMA OwnedInit == Init => BlocksOwned
<1> SUFFICES ASSUME Init PROVE BlocksOwned
  OBVIOUS
<1>1. \A i \in Index : buf[i].base = Nil BY DEF Init
<1>2. \A a \in Addr : heap[a] = 0 /\ a # Nil BY SharedBufferAssumption DEF Init
<1> QED BY <1>1, <1>2 DEF BlocksOwned, Index

(* No block leaks, is freed under a buffer or is held twice: the accounting *)
(* of SingleBufferWithAllocator, also when allocations fail.                *)
THEOREM BlocksAlwaysOwned == Spec => []BlocksOwned
<1>1. Init => BlocksOwned BY OwnedInit
<1>2. TypeOK /\ BlocksOwned /\ [Next]_vars => BlocksOwned' BY OwnedNext
<1> QED BY <1>1, <1>2, TypeCorrect, PTL DEF Spec

-----------------------------------------------------------------------------
(* The plans and the pointers of a session, when no allocation fails. *)

Based(m) == \A i \in Index : m.buf[i].base = Nil => m.buf[i].size = 0

(* The tensors of plan i point where the plan was applied last. *)
PointedAt(m, i) ==
  /\ m.plan[i].tensors # {} => m.plan[i].total > 0
  /\ \A t \in m.plan[i].tensors :
       m.host[t] = [addr |-> m.plan[i].ptr, of |-> i, fresh |-> TRUE]

(* That is the buffer of now, which is large enough. *)
Fits(m, i) ==
  m.plan[i].tensors # {} =>
    /\ m.plan[i].ptr = m.buf[i].base /\ m.buf[i].base # Nil
    /\ m.plan[i].total <= m.buf[i].size

Apart(m) == m.plan[0].tensors \cap m.plan[1].tensors = {}

LEMMA PointedFits ==
  ASSUME NEW m \in MemoryType, NEW n \in MemoryType, NEW i \in Index, NEW j \in Index,
         j # i, Apart(m), Based(m), PointedAt(m, j), Pointed(m, n, i),
         m.plan[i].tensors # {}, m.plan[i].total > 0, m.plan[i].total <= m.buf[i].size
  PROVE  /\ Based(n) /\ PointedAt(n, i) /\ PointedAt(n, j) /\ Fits(n, i)
         /\ n.buf = m.buf /\ n.plan[j] = m.plan[j]
         /\ n.plan[i].tensors = m.plan[i].tensors
<1>1. m.buf[i].size \in Nat /\ m.plan[i].total \in Nat
  BY MemoryOf DEF Buffer, Plan
<1>2. n.buf = m.buf BY DEF Pointed
<1>3. /\ n.plan[i] = [tensors |-> m.plan[i].tensors, total |-> m.plan[i].total,
                      ptr |-> m.buf[i].base]
      /\ n.plan[j] = m.plan[j]
  BY MemoryOf DEF Pointed
<1>4. m.buf[i].base # Nil BY <1>1 DEF Based
<1>5. m.plan[i].tensors \subseteq Tensor /\ m.plan[j].tensors \subseteq Tensor
  BY MemoryOf DEF Plan
<1>6. \A t \in m.plan[i].tensors : n.host[t] = [addr |-> m.buf[i].base, of |-> i, fresh |-> TRUE]
  BY <1>5 DEF Pointed
<1>7. \A t \in m.plan[j].tensors : n.host[t] = m.host[t]
  <2>1. m.plan[j].tensors \cap m.plan[i].tensors = {} BY DEF Apart, Index
  <2> QED BY <1>5, <2>1 DEF Pointed
<1>8. Based(n) BY <1>2 DEF Based
<1>9. PointedAt(n, i)
  <2>1. /\ n.plan[i].tensors = m.plan[i].tensors /\ n.plan[i].total = m.plan[i].total
        /\ n.plan[i].ptr = m.buf[i].base
    BY <1>3
  <2> QED BY <1>6, <2>1 DEF PointedAt
<1>10. PointedAt(n, j) BY <1>3, <1>7 DEF PointedAt
<1>11. Fits(n, i) BY <1>2, <1>3, <1>4 DEF Fits
<1> QED BY <1>2, <1>3, <1>8, <1>9, <1>10, <1>11

(* Whatever another session did to the buffers, apply settles the tensors  *)
(* of plan i, and leaves those of the other plan alone.                    *)
Plans(m, i, j) ==
  /\ Apart(m) /\ Based(m) /\ PointedAt(m, j)
  /\ m.plan[i].tensors # {} => m.plan[i].total > 0
  /\ m.plan[i].ptr = Nil \/ PointedAt(m, i)

Settled(m, n, i, j) ==
  /\ n \in MemoryType
  /\ Based(n) /\ PointedAt(n, i) /\ PointedAt(n, j) /\ Fits(n, i)
  /\ n.buf[j] = m.buf[j] /\ n.plan[j] = m.plan[j]
  /\ n.plan[i].tensors = m.plan[i].tensors

LEMMA AppliedFits ==
  ASSUME ~MayFail, NEW m \in MemoryType, NEW i \in Index, NEW j \in Index, j # i,
         NEW r \in Applied(m, i), Plans(m, i, j)
  PROVE  r.ok = TRUE /\ Settled(m, r.mem, i, j)
<1> USE DEF Plans
<1>1. m.buf[i].size \in Nat /\ m.plan[i].total \in Nat
  BY MemoryOf DEF Buffer, Plan
<1>2. CASE m.plan[i].tensors = {} /\ r.ok = TRUE /\ r.mem = m
  BY <1>2 DEF PointedAt, Fits, Settled
<1>3. ASSUME m.plan[i].tensors # {}, r.ok = TRUE, NEW a \in Addr, NEW n \in MemoryType,
             Got(m, n, i, a, m.plan[i].total), Pointed(n, r.mem, i)
      PROVE  Settled(m, r.mem, i, j)
  <2>1. /\ n.plan = m.plan /\ n.host = m.host
        /\ n.buf[i] = [base |-> a, size |-> m.plan[i].total] /\ n.buf[j] = m.buf[j]
    BY <1>3, MemoryOf DEF Got
  <2>2. \A k \in Index : k = i \/ k = j BY DEF Index
  <2>3. Apart(n) /\ PointedAt(n, j) BY <2>1 DEF Apart, PointedAt
  <2>4. Based(n) BY <2>1, <2>2, SharedBufferAssumption DEF Based
  <2>5. n.plan[i].total <= n.buf[i].size BY <1>1, <2>1
  <2>6. r.mem \in MemoryType BY <1>3 DEF Pointed
  <2>7. n.plan[i].tensors # {} /\ n.plan[i].total > 0 BY <1>3, <2>1
  <2>8. /\ Based(r.mem) /\ PointedAt(r.mem, i) /\ PointedAt(r.mem, j)
        /\ Fits(r.mem, i)
        /\ r.mem.buf = n.buf /\ r.mem.plan[j] = n.plan[j]
        /\ r.mem.plan[i].tensors = n.plan[i].tensors
    BY <1>3, <2>3, <2>4, <2>5, <2>6, <2>7, PointedFits
  <2> QED BY <2>1, <2>6, <2>8 DEF Settled
<1>4. CASE /\ m.plan[i].tensors # {} /\ m.plan[i].total <= m.buf[i].size /\ r.ok = TRUE
           /\ m.plan[i].ptr # m.buf[i].base /\ Pointed(m, r.mem, i)
  <2>1. r.mem \in MemoryType BY <1>4 DEF Pointed
  <2> QED BY <1>4, <2>1, PointedFits DEF Settled
<1>5. CASE /\ m.plan[i].tensors # {} /\ m.plan[i].total <= m.buf[i].size /\ r.ok = TRUE
           /\ m.plan[i].ptr = m.buf[i].base /\ r.mem = m
  <2>1. m.buf[i].base # Nil BY <1>1, <1>5 DEF Based
  <2> QED BY <1>5, <2>1 DEF Fits, Settled
<1>6. \/ m.plan[i].tensors = {} /\ r.ok = TRUE /\ r.mem = m
      \/ /\ m.plan[i].tensors # {} /\ r.ok = TRUE
         /\ \E a \in Addr, n \in MemoryType :
              Got(m, n, i, a, m.plan[i].total) /\ Pointed(n, r.mem, i)
      \/ /\ m.plan[i].tensors # {} /\ m.plan[i].total <= m.buf[i].size /\ r.ok = TRUE
         /\ \/ m.plan[i].ptr # m.buf[i].base /\ Pointed(m, r.mem, i)
            \/ m.plan[i].ptr = m.buf[i].base /\ r.mem = m
  BY AppliedCases
<1>7. CASE /\ m.plan[i].tensors # {} /\ r.ok = TRUE
           /\ \E a \in Addr, n \in MemoryType :
                Got(m, n, i, a, m.plan[i].total) /\ Pointed(n, r.mem, i)
  BY <1>3, <1>7
<1> QED BY <1>2, <1>4, <1>5, <1>6, <1>7

(* What fits stays where it is. *)
LEMMA AppliedStays ==
  ASSUME NEW m \in MemoryType, NEW i \in Index, NEW r \in Applied(m, i), Fits(m, i)
  PROVE  r.ok = TRUE /\ r.mem = m
<1>1. m.buf[i].size \in Nat /\ m.plan[i].total \in Nat
  BY MemoryOf DEF Buffer, Plan
<1>2. m.plan[i].tensors # {} => /\ ~(m.buf[i].size < m.plan[i].total)
                               /\ m.plan[i].ptr = m.buf[i].base
  BY <1>1 DEF Fits
<1>3. \/ m.plan[i].tensors = {} /\ r.ok = TRUE /\ r.mem = m
      \/ m.plan[i].tensors # {} /\ m.buf[i].size < m.plan[i].total
      \/ m.plan[i].ptr # m.buf[i].base /\ m.plan[i].tensors # {}
      \/ r.ok = TRUE /\ r.mem = m
  BY AppliedCases
<1> QED BY <1>2, <1>3

LEMMA ResetFits ==
  ASSUME ~MayFail, NEW m \in MemoryType, NEW both \in BOOLEAN,
         NEW r \in ResetDynamicMemory(m, both), Apart(m), Based(m),
         PointedAt(m, 0), PointedAt(m, 1)
  PROVE  /\ r.ok = TRUE /\ r.mem \in MemoryType
         /\ Based(r.mem) /\ PointedAt(r.mem, 0) /\ PointedAt(r.mem, 1)
         /\ Fits(r.mem, 0) /\ (both => Fits(r.mem, 1))
         /\ r.mem.plan[0].tensors = m.plan[0].tensors
         /\ r.mem.plan[1].tensors = m.plan[1].tensors
<1>1. 0 \in Index /\ 1 \in Index /\ 0 # 1 /\ 1 # 0 BY DEF Index
<1>2. PICK q \in Applied(m, 0) :
        \/ both /\ q.ok = TRUE /\ r \in Applied(q.mem, 1)
        \/ ~(q.ok /\ both) /\ r = q
  BY ResetIs
<1>3. Plans(m, 0, 1) BY DEF Plans, PointedAt
<1>4. q.ok = TRUE /\ Settled(m, q.mem, 0, 1) BY <1>1, <1>2, <1>3, AppliedFits
<1>5. CASE ~both /\ r = q BY <1>4, <1>5 DEF Settled
<1>6. CASE both /\ r \in Applied(q.mem, 1)
  <2>1. q.mem \in MemoryType BY <1>4 DEF Settled
  <2>2. Plans(q.mem, 1, 0) BY <1>4 DEF Plans, Settled, Apart, PointedAt
  <2>3. r.ok = TRUE /\ Settled(q.mem, r.mem, 1, 0)
    BY <1>1, <1>6, <2>1, <2>2, AppliedFits
  <2>4. Fits(r.mem, 0) BY <1>4, <2>3 DEF Fits, Settled
  <2> QED BY <1>4, <2>3, <2>4 DEF Settled
<1> QED BY <1>2, <1>4, <1>5, <1>6

LEMMA ResetStays ==
  ASSUME NEW m \in MemoryType, NEW both \in BOOLEAN,
         NEW r \in ResetDynamicMemory(m, both), Fits(m, 0), both => Fits(m, 1)
  PROVE  r.mem = m
<1>1. 0 \in Index /\ 1 \in Index BY DEF Index
<1>2. PICK q \in Applied(m, 0) :
        \/ both /\ q.ok = TRUE /\ r \in Applied(q.mem, 1)
        \/ ~(q.ok /\ both) /\ r = q
  BY ResetIs
<1>3. q.ok = TRUE /\ q.mem = m BY <1>1, <1>2, AppliedStays
<1> QED BY <1>1, <1>2, <1>3, AppliedStays

(* A plan that replaces another one is settled by its first apply. *)
Replaced(m, n, i, j, tensors) ==
  /\ n \in MemoryType
  /\ Based(n) /\ PointedAt(n, i) /\ PointedAt(n, j)
  /\ n.plan[j] = m.plan[j] /\ n.plan[i].tensors = tensors

LEMMA PlannedForFits ==
  ASSUME ~MayFail, NEW m \in MemoryType, NEW i \in Index, NEW j \in Index, j # i,
         NEW tensors \in SUBSET Tensor, NEW total \in Nat \ {0},
         NEW r \in PlannedFor(m, i, tensors, total), Based(m), PointedAt(m, j),
         tensors \cap m.plan[j].tensors = {}
  PROVE  r.ok = TRUE /\ Replaced(m, r.mem, i, j, tensors)
<1>1. PICK n \in MemoryType : /\ Renewed(m, n, i, PlanFor(tensors, total))
                              /\ r \in Applied(n, i)
  BY PlannedForIs
<1>2. /\ n.plan[i].tensors = tensors /\ n.plan[i].ptr = Nil
      /\ (tensors # {} => n.plan[i].total = total) /\ n.plan[j] = m.plan[j]
  BY <1>1, MemoryOf DEF Renewed, PlanFor, Unplanned
<1>3. Based(n) BY <1>1 DEF Based, Renewed
<1>4. PointedAt(n, j)
  <2>1. \A t \in m.plan[j].tensors : t \in Tensor /\ m.host[t].of = j
    BY MemoryOf DEF PointedAt, Plan
  <2>2. \A t \in m.plan[j].tensors : n.host[t] = m.host[t]
    BY <1>1, <2>1 DEF Renewed
  <2> QED BY <1>2, <2>2 DEF PointedAt
<1>5. Apart(n) BY <1>2 DEF Apart, Index
<1>6. Plans(n, i, j) BY <1>2, <1>3, <1>4, <1>5 DEF Plans
<1>7. r.ok = TRUE /\ Settled(n, r.mem, i, j) BY <1>1, <1>6, AppliedFits
<1> QED BY <1>2, <1>7 DEF Settled, Replaced

-----------------------------------------------------------------------------
(* The invariant of all sessions. *)

(* A session that is not to be resized was resized for the shape of now. *)
ShapesOK == \A s \in Session : ~needResize[s] => sized[s] = shape[s]

(* What is planned where: the fixed tensors by the second allocator, and   *)
(* all or none of the others by the first one.                             *)
Grouped(s) ==
  /\ plan[s][1].tensors = {t \in Tensor : group[s][t] = 1}
  /\ plan[s][0].tensors = {} \/ plan[s][0].tensors = Mutable(s)
  /\ ~backup[s] => plan[s][1].tensors = {}
GroupsOK == \A s \in Session : Grouped(s)

PointersOK == \A s \in Session : \A i \in Index : PointedAt(Memory(s), i)
BasesOK == \A i \in Index : buf[i].base = Nil => buf[i].size = 0

(* After an input was filled, all its session's plans fit. *)
FilledOK ==
  filled.session # Nil =>
    LET s == filled.session IN
    /\ filled.addr = host[s][Input].addr
    /\ Fits(Memory(s), 0) /\ (backup[s] => Fits(Memory(s), 1))

SharingInv ==
  /\ ShapesOK /\ GroupsOK /\ PointersOK /\ BasesOK
  /\ FilledOK /\ AccessValid

LEMMA Remembered ==
  ASSUME TypeOK, NEW s \in Session, NEW m \in MemoryType, Remember(s, m)
  PROVE  /\ heap' = m.heap /\ buf' = m.buf /\ plan'[s] = m.plan /\ host'[s] = m.host
         /\ \A u \in Session : u # s => plan'[u] = plan[u] /\ host'[u] = host[u]
BY DEF TypeOK, Remember

LEMMA RememberPointers ==
  ASSUME TypeOK, NEW s \in Session, NEW m \in MemoryType, Remember(s, m),
         PointersOK, PointedAt(m, 0), PointedAt(m, 1)
  PROVE  PointersOK'
<1>1. \A i \in Index : PointedAt(m, i) BY DEF Index
<1> QED BY <1>1, Remembered DEF PointersOK, PointedAt, Memory

(* A tensor of a plan that fits is valid. *)
LEMMA PlannedValid ==
  ASSUME NEW m \in MemoryType, Owned(m.heap, m.buf), NEW i \in Index,
         PointedAt(m, i), Fits(m, i), NEW t \in m.plan[i].tensors
  PROVE  /\ m.host[t].fresh = TRUE /\ m.host[t].addr # Nil
         /\ m.host[t].addr = m.buf[m.host[t].of].base
         /\ m.plan[m.host[t].of].total <= m.heap[m.host[t].addr]
<1>1. m.host[t] = [addr |-> m.plan[i].ptr, of |-> i, fresh |-> TRUE]
  BY DEF PointedAt
<1>2. /\ m.plan[i].ptr = m.buf[i].base /\ m.buf[i].base # Nil
      /\ m.plan[i].total <= m.buf[i].size
  BY DEF Fits
<1>3. m.heap[m.buf[i].base] = m.buf[i].size BY <1>2 DEF Owned
<1> QED BY <1>1, <1>2, <1>3

(* Every tensor of a session that may be used belongs to one of its plans. *)
LEMMA AllPlanned ==
  ASSUME TypeOK, NEW s \in Session, Grouped(s), ~Loose(s), NEW t \in Tensor
  PROVE  \/ t \in plan[s][0].tensors
         \/ backup[s] /\ t \in plan[s][1].tensors
<1>1. group[s][t] = 0 \/ group[s][t] = 1 BY DEF TypeOK, Index
<1> QED BY <1>1 DEF Grouped, Loose, Mutable

(* What Execute and Fill make of the memory of their session. *)
LEMMA UseSettles ==
  ASSUME ~MayFail, TypeOK, BlocksOwned, SharingInv, NEW s \in Session,
         NEW r \in ResetDynamicMemory(Memory(s), backup[s])
  PROVE  /\ r.ok = TRUE /\ r.mem \in MemoryType /\ Owned(r.mem.heap, r.mem.buf)
         /\ Based(r.mem) /\ PointedAt(r.mem, 0) /\ PointedAt(r.mem, 1)
         /\ Fits(r.mem, 0) /\ (backup[s] => Fits(r.mem, 1))
         /\ r.mem.plan[0].tensors = plan[s][0].tensors
         /\ r.mem.plan[1].tensors = plan[s][1].tensors
<1>1. /\ Memory(s) \in MemoryType /\ backup[s] \in BOOLEAN
      /\ Memory(s).plan = plan[s] /\ Memory(s).buf = buf
  BY MemoryTyped DEF TypeOK
<1>2. Owned(Memory(s).heap, Memory(s).buf) BY MemoryTyped, OwnedIs
<1>3. Based(Memory(s)) BY <1>1 DEF SharingInv, BasesOK, Based
<1>4. PointedAt(Memory(s), 0) /\ PointedAt(Memory(s), 1)
  BY DEF SharingInv, PointersOK, Index
<1>5. Apart(Memory(s))
  <2>1. /\ plan[s][1].tensors = {t \in Tensor : group[s][t] = 1}
        /\ plan[s][0].tensors = {} \/ plan[s][0].tensors = {t \in Tensor : group[s][t] = 0}
    BY DEF SharingInv, GroupsOK, Grouped, Mutable
  <2> QED BY <1>1, <2>1 DEF Apart
<1>6. Owned(r.mem.heap, r.mem.buf) BY <1>1, <1>2, ResetOwned
<1>7. /\ r.ok = TRUE /\ r.mem \in MemoryType
      /\ Based(r.mem) /\ PointedAt(r.mem, 0) /\ PointedAt(r.mem, 1)
      /\ Fits(r.mem, 0) /\ (backup[s] => Fits(r.mem, 1))
      /\ r.mem.plan[0].tensors = Memory(s).plan[0].tensors
      /\ r.mem.plan[1].tensors = Memory(s).plan[1].tensors
  BY ZenonT(40), <1>1, <1>3, <1>4, <1>5, ResetFits
<1> QED BY <1>1, <1>6, <1>7

LEMMA UseKeeps ==
  ASSUME ~MayFail, ~RunAfterFix, TypeOK, BlocksOwned, SharingInv, NEW s \in Session,
         NEW r \in ResetDynamicMemory(Memory(s), backup[s]), Ready(s), Remember(s, r.mem),
         using' = s, UNCHANGED <<group, backup, shape, needResize, sized>>,
         filled' = NotFilled \/ filled' = [session |-> s, addr |-> host'[s][Input].addr]
  PROVE  SharingInv'
<1> DEFINE m == r.mem
<1>1. /\ r.ok = TRUE /\ m \in MemoryType /\ Owned(m.heap, m.buf)
      /\ Based(m) /\ PointedAt(m, 0) /\ PointedAt(m, 1)
      /\ Fits(m, 0) /\ (backup[s] => Fits(m, 1))
      /\ m.plan[0].tensors = plan[s][0].tensors
      /\ m.plan[1].tensors = plan[s][1].tensors
  BY UseSettles
<1> HIDE DEF m
<1>2. /\ heap' = m.heap /\ buf' = m.buf /\ plan'[s] = m.plan /\ host'[s] = m.host
      /\ \A u \in Session : u # s => plan'[u] = plan[u] /\ host'[u] = host[u]
  BY <1>1, Remembered DEF m
<1>3. ShapesOK' BY DEF SharingInv, ShapesOK
<1>4. GroupsOK'
  <2>1. \A u \in Session : Grouped(u) BY DEF SharingInv, GroupsOK
  <2>2. \A u \in Session : /\ plan'[u][0].tensors = plan[u][0].tensors
                           /\ plan'[u][1].tensors = plan[u][1].tensors
    BY <1>1, <1>2
  <2> QED BY <2>1, <2>2 DEF GroupsOK, Grouped, Mutable
<1>5. PointersOK' BY <1>1, RememberPointers DEF SharingInv, m
<1>6. BasesOK' BY <1>1, <1>2 DEF BasesOK, Based
<1>7. FilledOK'
  <2>1. Fits(Memory(s)', 0) /\ (backup[s] => Fits(Memory(s)', 1))
    BY <1>1, <1>2 DEF Fits, Memory
  <2>2. Nil \notin Session BY SharedBufferAssumption
  <2>3. CASE filled' = NotFilled BY <2>3 DEF FilledOK, NotFilled
  <2>4. CASE filled' = [session |-> s, addr |-> host'[s][Input].addr]
    <3>1. filled'.session = s /\ filled'.addr = host'[s][Input].addr BY <2>4
    <3> QED BY <2>1, <3>1 DEF FilledOK
  <2> QED BY <2>3, <2>4
<1>8. AccessValid'
  <2>1. sized[s] = shape[s] BY DEF Ready, SharingInv, ShapesOK
  <2>2. ASSUME NEW t \in Tensor PROVE Valid(s, t)'
    <3>1. Grouped(s) /\ ~Loose(s) BY DEF SharingInv, GroupsOK, Ready
    <3>2. \/ t \in m.plan[0].tensors
          \/ backup[s] /\ t \in m.plan[1].tensors
      BY <1>1, <3>1, AllPlanned
    <3>3. 0 \in Index /\ 1 \in Index BY DEF Index
    <3>4. /\ m.host[t].fresh = TRUE /\ m.host[t].addr # Nil
          /\ m.host[t].addr = m.buf[m.host[t].of].base
          /\ m.plan[m.host[t].of].total <= m.heap[m.host[t].addr]
      BY <1>1, <3>2, <3>3, PlannedValid
    <3> QED BY <1>2, <3>4 DEF Valid
  <2> QED BY <2>1, <2>2 DEF AccessValid
<1> QED BY <1>3, <1>4, <1>5, <1>6, <1>7, <1>8 DEF SharingInv

(* Forgetting the first plan. *)
LEMMA ForgottenSettles ==
  ASSUME TypeOK, SharingInv, NEW s \in Session
  PROVE  LET m == Forgotten(Memory(s), 0) IN
         /\ m \in MemoryType /\ Based(m) /\ PointedAt(m, 0) /\ PointedAt(m, 1)
         /\ m.buf = buf /\ m.plan[0].tensors = {} /\ m.plan[1] = plan[s][1]
<1> DEFINE m == Forgotten(Memory(s), 0)
<1>1. 0 \in Index /\ 1 \in Index BY DEF Index
<1>2. /\ Memory(s) \in MemoryType /\ Memory(s).buf = buf
      /\ Memory(s).plan = plan[s] /\ Memory(s).host = host[s]
      /\ plan[s] \in [Index -> Plan] /\ host[s] \in [Tensor -> Pointer]
  BY MemoryTyped DEF TypeOK
<1>3. Renewed(Memory(s), m, 0, Unplanned)
  BY <1>1, <1>2, ReplannedIs, PlanForType DEF Forgotten
<1> HIDE DEF m
<1>4. /\ m \in MemoryType /\ m.buf = buf
      /\ m.plan[0] = Unplanned /\ m.plan[1] = plan[s][1]
  BY <1>1, <1>2, <1>3 DEF Renewed
<1>5. Based(m) BY <1>4 DEF SharingInv, BasesOK, Based
<1>6. PointedAt(m, 0) /\ m.plan[0].tensors = {} BY <1>4 DEF PointedAt, Unplanned
<1>7. PointedAt(Memory(s), 1) BY <1>1 DEF SharingInv, PointersOK
<1>8. \A t \in plan[s][1].tensors : t \in Tensor /\ host[s][t].of = 1
  BY <1>1, <1>2, <1>7 DEF PointedAt, Plan
<1>9. \A t \in plan[s][1].tensors : m.host[t] = host[s][t]
  BY <1>2, <1>3, <1>8 DEF Renewed
<1>10. PointedAt(m, 1) BY <1>2, <1>4, <1>7, <1>9 DEF PointedAt
<1> QED BY <1>4, <1>5, <1>6, <1>10 DEF m

LEMMA CreateKeeps ==
  ASSUME TypeOK, SharingInv, NEW s \in Session, Create(s)
  PROVE  SharingInv'
<1>1. /\ plan' = [plan EXCEPT ![s] = [i \in Index |-> Unplanned]]
      /\ group' = [group EXCEPT ![s] = [t \in Tensor |-> 0]]
      /\ host' = [host EXCEPT ![s] = [t \in Tensor |-> Nowhere]]
      /\ backup' = [backup EXCEPT ![s] = FALSE]
      /\ needResize' = [needResize EXCEPT ![s] = TRUE]
      /\ sized' = [sized EXCEPT ![s] = NoFit]
      /\ \E d \in Shape : shape' = [shape EXCEPT ![s] = d]
      /\ using' = Nil /\ filled' = NotFilled /\ UNCHANGED <<heap, buf>>
  BY DEF Create
<1>2. ShapesOK' BY <1>1 DEF TypeOK, SharingInv, ShapesOK
<1>3. GroupsOK'
  <2>1. \A u \in Session : Grouped(u) BY DEF SharingInv, GroupsOK
  <2>2. ASSUME NEW u \in Session, u # s PROVE Grouped(u)'
    BY <1>1, <2>1, <2>2 DEF TypeOK, Grouped, Mutable
  <2>3. 0 \in Index /\ 1 \in Index BY DEF Index
  <2>4. /\ plan'[s][0] = Unplanned /\ plan'[s][1] = Unplanned
        /\ \A t \in Tensor : group'[s][t] = 0
    BY <1>1, <2>3 DEF TypeOK
  <2>5. Grouped(s)' BY <2>4 DEF Grouped, Unplanned
  <2> QED BY <2>2, <2>5 DEF GroupsOK
<1>4. PointersOK'
  <2>1. \A u \in Session : u # s => plan'[u] = plan[u] /\ host'[u] = host[u]
    BY <1>1 DEF TypeOK
  <2>2. \A i \in Index : plan'[s][i] = Unplanned BY <1>1 DEF TypeOK
  <2>3. \A i \in Index : plan'[s][i].tensors = {} BY <2>2 DEF Unplanned
  <2>4. \A i \in Index : PointedAt(Memory(s)', i) BY <2>3 DEF PointedAt, Memory
  <2>5. ASSUME NEW u \in Session, u # s, NEW i \in Index PROVE PointedAt(Memory(u)', i)
    BY <2>1, <2>5 DEF SharingInv, PointersOK, PointedAt, Memory
  <2> QED BY <2>4, <2>5 DEF PointersOK
<1>5. BasesOK' BY <1>1 DEF SharingInv, BasesOK
<1>6. FilledOK' /\ AccessValid' BY <1>1 DEF FilledOK, NotFilled, AccessValid
<1> QED BY <1>2, <1>3, <1>4, <1>5, <1>6 DEF SharingInv

LEMMA ResizeTensorKeeps ==
  ASSUME TypeOK, SharingInv, NEW s \in Session, NEW d \in Shape, ResizeTensor(s, d)
  PROVE  SharingInv'
<1>1. /\ shape' = [shape EXCEPT ![s] = d]
      /\ needResize' = [needResize EXCEPT ![s] = TRUE]
      /\ using' = Nil /\ filled' = NotFilled
      /\ UNCHANGED <<heap, buf, plan, host, group, backup, sized>>
  BY DEF ResizeTensor
<1>2. ShapesOK' BY <1>1 DEF TypeOK, SharingInv, ShapesOK
<1>3. GroupsOK' BY <1>1 DEF SharingInv, GroupsOK, Grouped, Mutable
<1>4. PointersOK' BY <1>1 DEF SharingInv, PointersOK, PointedAt, Memory
<1>5. BasesOK' BY <1>1 DEF SharingInv, BasesOK
<1>6. FilledOK' /\ AccessValid' BY <1>1 DEF FilledOK, NotFilled, AccessValid
<1> QED BY <1>2, <1>3, <1>4, <1>5, <1>6 DEF SharingInv

LEMMA ResizeFailsKeeps ==
  ASSUME TypeOK, SharingInv, NEW s \in Session, ResizeFails(s)
  PROVE  SharingInv'
<1> DEFINE m == Forgotten(Memory(s), 0)
<1>1. /\ m \in MemoryType /\ Based(m) /\ PointedAt(m, 0) /\ PointedAt(m, 1)
      /\ m.buf = buf /\ m.plan[0].tensors = {} /\ m.plan[1] = plan[s][1]
  BY ForgottenSettles
<1>2. /\ Remember(s, m) /\ using' = Nil /\ filled' = NotFilled
      /\ UNCHANGED <<group, backup, shape, needResize, sized>>
  BY DEF ResizeFails
<1> HIDE DEF m
<1>3. /\ buf' = m.buf /\ plan'[s] = m.plan
      /\ \A u \in Session : u # s => plan'[u] = plan[u]
  BY <1>1, <1>2, Remembered
<1>4. ShapesOK' BY <1>2 DEF SharingInv, ShapesOK
<1>5. GroupsOK'
  <2>1. \A u \in Session : Grouped(u) BY DEF SharingInv, GroupsOK
  <2>2. ASSUME NEW u \in Session, u # s PROVE Grouped(u)'
    BY <1>2, <1>3, <2>1, <2>2 DEF Grouped, Mutable
  <2>3. Grouped(s)' BY <1>1, <1>2, <1>3, <2>1 DEF Grouped, Mutable
  <2> QED BY <2>2, <2>3 DEF GroupsOK
<1>6. PointersOK' BY <1>1, <1>2, RememberPointers DEF SharingInv
<1>7. BasesOK' BY <1>1, <1>3 DEF SharingInv, BasesOK
<1>8. FilledOK' /\ AccessValid' BY <1>2 DEF FilledOK, NotFilled, AccessValid
<1> QED BY <1>4, <1>5, <1>6, <1>7, <1>8 DEF SharingInv

LEMMA ResizeKeeps ==
  ASSUME ~MayFail, TypeOK, SharingInv, NEW s \in Session, Resize(s)
  PROVE  SharingInv'
<1>0. PICK total \in Sizes :
        \E r \in PlannedFor(Memory(s), 0, Mutable(s), total) :
          /\ Remember(s, r.mem)
          /\ needResize' = [needResize EXCEPT ![s] = ~r.ok]
          /\ sized' = [sized EXCEPT ![s] = IF r.ok THEN shape[s] ELSE @]
  BY DEF Resize
<1>1. PICK r \in PlannedFor(Memory(s), 0, Mutable(s), total) :
        /\ Remember(s, r.mem)
        /\ needResize' = [needResize EXCEPT ![s] = ~r.ok]
        /\ sized' = [sized EXCEPT ![s] = IF r.ok THEN shape[s] ELSE @]
  BY <1>0
<1>2. /\ using' = Nil /\ filled' = NotFilled
      /\ UNCHANGED <<group, backup, shape>>
  BY DEF Resize
<1> DEFINE m == r.mem
<1>3. 0 \in Index /\ 1 \in Index /\ 1 # 0 BY DEF Index
<1>4. /\ Memory(s) \in MemoryType /\ Memory(s).buf = buf /\ Memory(s).plan = plan[s]
  BY MemoryTyped
<1>5. Grouped(s) /\ PointedAt(Memory(s), 1)
  BY <1>3 DEF SharingInv, GroupsOK, PointersOK
<1>6. Based(Memory(s)) BY <1>4 DEF SharingInv, BasesOK, Based
<1>7. Mutable(s) \in SUBSET Tensor /\ total \in Nat \ {0}
  BY SharedBufferAssumption DEF Mutable
<1>8. Mutable(s) \cap Memory(s).plan[1].tensors = {} BY <1>4, <1>5 DEF Grouped, Mutable
<1>9. /\ r.ok = TRUE /\ m \in MemoryType
      /\ Based(m) /\ PointedAt(m, 0) /\ PointedAt(m, 1)
      /\ m.plan[1] = Memory(s).plan[1] /\ m.plan[0].tensors = Mutable(s)
  <2>1. r.ok = TRUE /\ Replaced(Memory(s), m, 0, 1, Mutable(s))
    BY <1>1, <1>3, <1>4, <1>5, <1>6, <1>7, <1>8, PlannedForFits
  <2> QED BY <2>1 DEF Replaced
<1> HIDE DEF m
<1>10. /\ buf' = m.buf /\ plan'[s] = m.plan
       /\ \A u \in Session : u # s => plan'[u] = plan[u]
  BY <1>1, <1>9, Remembered DEF m
<1>11. ShapesOK' BY <1>1, <1>2, <1>9 DEF TypeOK, SharingInv, ShapesOK
<1>12. GroupsOK'
  <2>1. \A u \in Session : Grouped(u) BY DEF SharingInv, GroupsOK
  <2>2. ASSUME NEW u \in Session, u # s PROVE Grouped(u)'
    BY <1>2, <1>10, <2>1, <2>2 DEF Grouped, Mutable
  <2>3. Grouped(s)' BY <1>2, <1>4, <1>9, <1>10, <2>1 DEF Grouped, Mutable
  <2> QED BY <2>2, <2>3 DEF GroupsOK
<1>13. PointersOK' BY <1>1, <1>9, RememberPointers DEF SharingInv, m
<1>14. BasesOK' BY <1>9, <1>10 DEF BasesOK, Based
<1>15. FilledOK' /\ AccessValid' BY <1>2 DEF FilledOK, NotFilled, AccessValid
<1> QED BY <1>11, <1>12, <1>13, <1>14, <1>15 DEF SharingInv

LEMMA FixKeeps ==
  ASSUME ~MayFail, TypeOK, SharingInv, NEW s \in Session,
         NEW fixed \in SUBSET Tensor, NEW total \in Sizes, Fix(s, fixed, total)
  PROVE  SharingInv'
<1> DEFINE g == [t \in Tensor |-> IF t \in fixed THEN 1 ELSE group[s][t]]
           tensors == {t \in Tensor : g[t] = 1}
           f == Forgotten(Memory(s), 0)
<1>1. PICK r \in PlannedFor(f, 1, tensors, total) : Remember(s, Release(r.mem, 0))
  BY DEF Fix
<1>2. /\ group' = [group EXCEPT ![s] = g] /\ backup' = [backup EXCEPT ![s] = TRUE]
      /\ using' = Nil /\ filled' = NotFilled
      /\ UNCHANGED <<shape, needResize, sized>>
  BY DEF Fix
<1>3. /\ f \in MemoryType /\ Based(f) /\ PointedAt(f, 0) /\ PointedAt(f, 1)
      /\ f.plan[0].tensors = {}
  BY ForgottenSettles
<1>4. /\ tensors \in SUBSET Tensor /\ tensors \cap f.plan[0].tensors = {}
      /\ total \in Nat \ {0}
  BY <1>3, SharedBufferAssumption
<1>5. 0 \in Index /\ 1 \in Index /\ 0 # 1 BY DEF Index
<1> HIDE DEF f, tensors, g
<1>6. r.ok = TRUE /\ Replaced(f, r.mem, 1, 0, tensors)
  BY <1>1, <1>3, <1>4, <1>5, PlannedForFits
<1>7. /\ r.mem \in MemoryType /\ Based(r.mem)
      /\ PointedAt(r.mem, 0) /\ PointedAt(r.mem, 1)
      /\ r.mem.plan[0].tensors = {} /\ r.mem.plan[1].tensors = tensors
  BY <1>3, <1>6 DEF Replaced
<1> DEFINE m == Release(r.mem, 0)
<1>8. /\ m \in MemoryType
      /\ m.buf = [r.mem.buf EXCEPT ![0] =
                    [base |-> Nil, size |-> IF r.mem.buf[0].base = Nil
                                              THEN r.mem.buf[0].size ELSE 0]]
      /\ m.plan = r.mem.plan /\ m.host = r.mem.host
  BY <1>5, <1>7, ReleaseIs
<1> HIDE DEF m
<1>9. r.mem.buf \in [Index -> Buffer] BY <1>7, MemoryOf
<1>10. Based(m) BY <1>5, <1>7, <1>8, <1>9 DEF Based
<1>11. PointedAt(m, 0) /\ PointedAt(m, 1) BY <1>7, <1>8 DEF PointedAt
<1>12. /\ buf' = m.buf /\ plan'[s] = m.plan
       /\ \A u \in Session : u # s => plan'[u] = plan[u]
  BY <1>1, <1>8, Remembered DEF m
<1>13. ShapesOK' BY <1>2 DEF SharingInv, ShapesOK
<1>14. GroupsOK'
  <2>1. \A u \in Session : Grouped(u) BY DEF SharingInv, GroupsOK
  <2>2. ASSUME NEW u \in Session, u # s PROVE Grouped(u)'
    <3>1. group'[u] = group[u] /\ backup'[u] = backup[u] /\ plan'[u] = plan[u]
      BY <1>2, <1>12, <2>2 DEF TypeOK
    <3> QED BY <2>1, <3>1 DEF Grouped, Mutable
  <2>3. group'[s] = g /\ backup'[s] = TRUE BY <1>2 DEF TypeOK
  <2>4. plan'[s][0].tensors = {} /\ plan'[s][1].tensors = tensors BY <1>7, <1>8, <1>12
  <2>5. Grouped(s)' BY <2>3, <2>4 DEF Grouped, tensors
  <2> QED BY <2>2, <2>5 DEF GroupsOK
<1>15. PointersOK' BY <1>1, <1>8, <1>11, RememberPointers DEF SharingInv, m
<1>16. BasesOK' BY <1>10, <1>12 DEF BasesOK, Based
<1>17. FilledOK' /\ AccessValid' BY <1>2 DEF FilledOK, NotFilled, AccessValid
<1> QED BY <1>13, <1>14, <1>15, <1>16, <1>17 DEF SharingInv

LEMMA CollectKeeps == TypeOK /\ SharingInv /\ GarbageCollect => SharingInv'
<1> SUFFICES ASSUME TypeOK, SharingInv, GarbageCollect PROVE SharingInv'
  OBVIOUS
<1>1. /\ buf' = [i \in Index |->
                  [base |-> Nil, size |-> IF buf[i].base = Nil THEN buf[i].size ELSE 0]]
      /\ using' = Nil /\ filled' = NotFilled
      /\ UNCHANGED <<plan, host, group, backup, shape, needResize, sized>>
  BY DEF GarbageCollect
<1>2. ShapesOK' BY <1>1 DEF SharingInv, ShapesOK
<1>3. GroupsOK' BY <1>1 DEF SharingInv, GroupsOK, Grouped, Mutable
<1>4. PointersOK' BY <1>1 DEF SharingInv, PointersOK, PointedAt, Memory
<1>5. BasesOK' BY <1>1 DEF SharingInv, BasesOK
<1>6. FilledOK' /\ AccessValid' BY <1>1 DEF FilledOK, NotFilled, AccessValid
<1> QED BY <1>2, <1>3, <1>4, <1>5, <1>6 DEF SharingInv

(* Every step keeps the invariant of sharing.                               *)
LEMMA SharingNext ==
  ASSUME ~MayFail, ~RunAfterFix
  PROVE  TypeOK /\ BlocksOwned /\ SharingInv /\ [Next]_vars => SharingInv'
<1> SUFFICES ASSUME TypeOK, BlocksOwned, SharingInv, [Next]_vars PROVE SharingInv'
  OBVIOUS
<1>1. ASSUME NEW s \in Session, Execute(s) PROVE SharingInv'
  <2>1. PICK r \in ResetDynamicMemory(Memory(s), backup[s]) :
          Remember(s, r.mem) /\ using' = IF r.ok THEN s ELSE Nil
    BY <1>1 DEF Execute
  <2>2. r.ok = TRUE BY UseSettles
  <2>3. /\ Ready(s) /\ filled' = NotFilled
        /\ UNCHANGED <<group, backup, shape, needResize, sized>>
    BY <1>1 DEF Execute
  <2> QED BY <2>1, <2>2, <2>3, UseKeeps
<1>2. ASSUME NEW s \in Session, Fill(s) PROVE SharingInv'
  <2>1. PICK r \in ResetDynamicMemory(Memory(s), backup[s]) : Remember(s, r.mem)
    BY <1>2 DEF Fill
  <2>2. /\ Ready(s) /\ using' = s
        /\ filled' = [session |-> s, addr |-> host'[s][Input].addr]
        /\ UNCHANGED <<group, backup, shape, needResize, sized>>
    BY <1>2 DEF Fill
  <2> QED BY <2>1, <2>2, UseKeeps
<1>3. CASE UNCHANGED vars
  <2>1. ShapesOK' BY <1>3 DEF vars, SharingInv, ShapesOK
  <2>2. GroupsOK' BY <1>3 DEF vars, SharingInv, GroupsOK, Grouped, Mutable
  <2>3. PointersOK' BY <1>3 DEF vars, SharingInv, PointersOK, Memory
  <2>4. BasesOK' BY <1>3 DEF vars, SharingInv, BasesOK
  <2>5. FilledOK' BY <1>3 DEF vars, SharingInv, FilledOK, Memory
  <2>6. AccessValid' BY <1>3 DEF vars, SharingInv, AccessValid, Valid
  <2> QED BY <2>1, <2>2, <2>3, <2>4, <2>5, <2>6 DEF SharingInv
<1> QED
  BY <1>1, <1>2, <1>3, CreateKeeps, ResizeTensorKeeps, ResizeFailsKeeps, ResizeKeeps,
     FixKeeps, CollectKeeps DEF Next

LEMMA SharingInit == Init => SharingInv
<1> SUFFICES ASSUME Init PROVE SharingInv
  OBVIOUS
<1>1. ShapesOK BY DEF Init, ShapesOK
<1>2. \A s \in Session : \A i \in Index : plan[s][i].tensors = {}
  BY DEF Init, Unplanned
<1>3. GroupsOK
  <2>1. \A s \in Session : plan[s][0].tensors = {} /\ plan[s][1].tensors = {}
    BY <1>2 DEF Index
  <2>2. \A s \in Session : {t \in Tensor : group[s][t] = 1} = {} BY DEF Init
  <2> QED BY <2>1, <2>2 DEF GroupsOK, Grouped
<1>4. PointersOK BY <1>2 DEF PointersOK, PointedAt, Memory
<1>5. BasesOK BY DEF Init, BasesOK
<1>6. FilledOK /\ AccessValid BY DEF Init, FilledOK, NotFilled, AccessValid
<1> QED BY <1>1, <1>3, <1>4, <1>5, <1>6 DEF SharingInv

(* What sessions of one runtime keep, under the two hypotheses below.       *)
THEOREM SharingInvariant ==
  ASSUME ~MayFail, ~RunAfterFix
  PROVE  Spec => []SharingInv
<1>1. Init => SharingInv BY SharingInit
<1>2. TypeOK /\ BlocksOwned /\ SharingInv /\ [Next]_vars => SharingInv'
  BY SharingNext
<1> QED BY <1>1, <1>2, TypeCorrect, BlocksAlwaysOwned, PTL DEF Spec

(* Sessions that share a runtime never meet in its buffers: whenever one is *)
(* executed, filled or mapped, all its tensors lie in the blocks of now, for *)
(* any number of sessions that replaced them meanwhile.  Two hypotheses: the *)
(* heap does not fail (a copy ignores the error), and a session that was    *)
(* fixed is resized before it is used (what happens otherwise is what run   *)
(* shared_fixrun shows).                                                    *)
THEOREM AccessesValid ==
  ASSUME ~MayFail, ~RunAfterFix
  PROVE  Spec => []AccessValid
<1>1. SharingInv => AccessValid BY DEF SharingInv
<1> QED BY <1>1, SharingInvariant, PTL

(* The input that a user filled is read where it was written: between the  *)
(* copy and the execution that follows it no tensor moves.                 *)
THEOREM InputsSurvive ==
  ASSUME ~MayFail, ~RunAfterFix
  PROVE  Spec => InputSurvives
<1> DEFINE Survives == filled.session # Nil /\ using' = filled.session
                         => host'[using'][Input].addr = filled.addr
<1>1. ASSUME TypeOK, SharingInv, [Next]_vars PROVE Survives \/ UNCHANGED vars
  <2> SUFFICES ASSUME filled.session # Nil, using' = filled.session, ~UNCHANGED vars
               PROVE host'[using'][Input].addr = filled.addr
    OBVIOUS
  <2>1. Next /\ using' # Nil BY <1>1 DEF TypeOK
  <2>2. PICK s \in Session : (Execute(s) \/ Fill(s)) /\ using' = s
    <3>1. PICK s \in Session : Execute(s) \/ Fill(s)
      BY <2>1 DEF Next, Create, Resize, ResizeFails, ResizeTensor, Fix, GarbageCollect
    <3>2. using' = s BY <2>1, <3>1 DEF Execute, Fill
    <3> QED BY <3>1, <3>2
  <2>3. PICK r \in ResetDynamicMemory(Memory(s), backup[s]) : Remember(s, r.mem)
    BY <2>2 DEF Execute, Fill
  <2>4. /\ Fits(Memory(s), 0) /\ (backup[s] => Fits(Memory(s), 1))
        /\ filled.addr = host[s][Input].addr
    BY <1>1, <2>2 DEF SharingInv, FilledOK
  <2>5. Memory(s) \in MemoryType /\ backup[s] \in BOOLEAN /\ Memory(s).host = host[s]
    BY <1>1, MemoryTyped DEF TypeOK
  <2>6. r.mem = Memory(s) BY <2>4, <2>5, ResetStays
  <2>7. host'[s] = host[s] BY <1>1, <2>3, <2>5, <2>6, Remembered
  <2> QED BY <2>2, <2>4, <2>7
<1>2. TypeOK /\ SharingInv /\ [Next]_vars => [Survives]_vars BY <1>1
<1> QED BY <1>2, TypeCorrect, SharingInvariant, PTL DEF Spec, InputSurvives
=============================================================================
