-------------------------- MODULE ThreadPool_proofs --------------------------
(***************************************************************************)
(* Proofs about ThreadPool, for every number of runtimes, threads, slots   *)
(* and items, with backends that outlive resets and with leaked brackets.  *)
(***************************************************************************)
EXTENDS ThreadPool, FiniteSetTheorems, TLAPS

LEMMA ParticipantRange ==
  ASSUME NEW v \in Nat, NEW parts \in Nat \ {0}
  PROVE  Participant(v, parts) \in 0 .. parts - 1
BY DEF Participant

LEMMA ClampRange == ASSUME NEW n \in Int PROVE Clamp(n) \in 1 .. MaxThreads
BY ConstantsAssumption DEF Clamp, ALIMIN

(* A run of a share counts up, and only for the task's owner. *)
LEMMA RunShareType ==
  ASSUME runs \in [Clients -> [Items -> Nat]], NEW STATE x, NEW p,
         RunShare(x, p)
  PROVE  runs' \in [Clients -> [Items -> Nat]]
<1> DEFINE f == [v \in Items |-> IF v \in Share(x.size, x.parts, p)
                                   THEN runs[x.owner][v] + 1
                                   ELSE runs[x.owner][v]]
<1>1. runs' = [runs EXCEPT ![x.owner] = f] BY DEF RunShare
<1>2. x.owner \in Clients => f \in [Items -> Nat] OBVIOUS
<1> QED BY <1>1, <1>2

(* A worker that moves on looks at the next slot or leaves the loop. *)
LEMMA NextSlotType ==
  ASSUME TypeOK, NEW w \in Workers, NextSlot(w)
  PROVE  /\ wpc' = [wpc EXCEPT ![w] = "scan"] \/ wpc' = [wpc EXCEPT ![w] = "busy"]
         /\ wslot' \in [Workers -> Slots]
<1> USE ConstantsAssumption DEF NextSlot
<1>1. wslot \in [Workers -> Slots] BY DEF TypeOK
<1>2. wslot[w] \in Slots BY <1>1
<1>3. CASE wslot[w] + 1 < MaxTasks
  <2>1. wslot[w] + 1 \in Slots BY <1>2, <1>3 DEF Slots
  <2>2. wslot' = [wslot EXCEPT ![w] = wslot[w] + 1] BY <1>3
  <2> QED BY <1>1, <1>3, <2>1, <2>2
<1>4. CASE ~ (wslot[w] + 1 < MaxTasks)
  <2>1. 0 \in Slots BY DEF Slots
  <2>2. wslot' = [wslot EXCEPT ![w] = 0] BY <1>4
  <2> QED BY <1>1, <1>4, <2>1, <2>2
<1> QED BY <1>3, <1>4

LEMMA TypeInit == Init => TypeOK
BY ConstantsAssumption
   DEF Init, TypeOK, WorkerPlaces, ClientPlaces, TaskType, NoRuns, NoJob, Slots, Threads,
       Workers, Items

LEMMA TypeWorker ==
  ASSUME TypeOK, NEW w \in Workers, Worker(w) \/ SpuriousWake(w) PROVE TypeOK'
<1> USE ConstantsAssumption
        DEF TypeOK, WorkerPlaces, poolVars, workerVars, rtVars, jobVars, Slots
<1>1. CASE WorkerTop(w)
  <2>1. CASE pool = "up" BY <1>1, <2>1 DEF WorkerTop
  <2>2. CASE pool # "up" BY <1>1, <2>2 DEF WorkerTop
  <2> QED BY <2>1, <2>2
<1>2. CASE WorkerBusy(w)
  <2>1. wpc' \in [Workers -> WorkerPlaces] /\ wslot' \in [Workers -> Slots]
    <3>1. CASE activeCount[w] > 0 BY <1>2, <3>1 DEF WorkerBusy
    <3>2. CASE ~ (activeCount[w] > 0) BY <1>2, <3>2 DEF WorkerBusy
    <3> QED BY <3>1, <3>2
  <2> QED BY <1>2, <2>1 DEF WorkerBusy
<1>3. CASE WorkerScan(w)
  <2>1. CASE flag[wslot[w]][w] BY <1>3, <2>1 DEF WorkerScan
  <2>2. CASE ~ flag[wslot[w]][w]
    BY <1>3, <2>2, NextSlotType DEF WorkerScan
  <2> QED BY <2>1, <2>2
<1>4. CASE WorkerRun(w)
  <2>1. runs' \in [Clients -> [Items -> Nat]]
    BY <1>4, RunShareType DEF WorkerRun
  <2> QED BY <1>4, <2>1 DEF WorkerRun
<1>5. CASE WorkerClear(w)
  <2>1. flag' \in [Slots -> [Threads -> BOOLEAN]]
    BY <1>5 DEF WorkerClear
  <2> QED BY <1>5, <2>1, NextSlotType DEF WorkerClear
<1>6. CASE WorkerWait(w) BY <1>6 DEF WorkerWait
<1>7. CASE SpuriousWake(w) BY <1>7 DEF SpuriousWake
<1> QED BY <1>1, <1>2, <1>3, <1>4, <1>5, <1>6, <1>7 DEF Worker

LEMMA TypeLife ==
  ASSUME TypeOK, NEW c \in Clients,
         \/ \E n \in Requests : Reset(c, n)
         \/ Acquire(c) \/ NewBackend(c) \/ Delete(c)
  PROVE  TypeOK'
<1> USE ConstantsAssumption
        DEF TypeOK, WorkerPlaces, ClientPlaces, poolVars, workerVars, rtVars, jobVars
<1>1. CASE \E n \in Requests : Reset(c, n)
  BY <1>1, ClampRange DEF Reset, ReleaseWorkIndex
<1>2. CASE Acquire(c)
  <2> DEFINE n == threadNumber[c]
  <2>1. SystemThreadNumber(n) \in Nat BY DEF SystemThreadNumber
  <2>2. Granted(n) \in Int /\ Granted(n) <= MaxThreads
    BY <2>1 DEF ALIMIN, InitResult, Granted
  <2>3. /\ pool' \in {"none", "up", "stopped", "joining"}
        /\ poolSize' \in Nat
        /\ wpc' \in [Workers -> WorkerPlaces]
    BY <1>2, <2>1 DEF Acquire, InitPool
  <2>4. /\ taskIndex' \in [Clients -> Slots \cup {-1}]
        /\ threadNumber' \in [Clients -> 1 .. MaxThreads]
        /\ taskAvailable' \in [Slots -> BOOLEAN]
    <3>1. CASE Granted(n) > 1 /\ TakeSlot(c, Granted(n))
      BY <2>2, <3>1 DEF TakeSlot
    <3>2. CASE NoSlot(c) BY <3>2 DEF NoSlot
    <3> QED BY <1>2, <3>1, <3>2 DEF Acquire
  <2>5. /\ backend' \in [Clients -> 0 .. MaxThreads]
        /\ cpc' = [cpc EXCEPT ![c] = "idle"]
        /\ UNCHANGED <<activeCount, flag, task, wslot, threadOpen, depth,
                       binding, job, cnext, runs>>
    <3>1. backend' = [backend EXCEPT ![c] = IF KeepBackends THEN backend[c] ELSE 0]
      BY <1>2 DEF Acquire
    <3> QED BY <1>2, <3>1 DEF Acquire
  <2> QED BY <2>3, <2>4, <2>5
<1>3. CASE NewBackend(c) BY <1>3 DEF NewBackend
<1>4. CASE Delete(c) BY <1>4 DEF Delete, ReleaseWorkIndex
<1> QED BY <1>1, <1>2, <1>3, <1>4

(* Active and deactive keep the counts integers. *)
LEMMA ActiveType ==
  ASSUME TypeOK, NEW STATE n, Active(n) \/ Deactive(n)
  PROVE  activeCount' \in [Threads -> Int]
BY DEF TypeOK, Active, Deactive

LEMMA NotifyType ==
  ASSUME TypeOK, NotifyAll
  PROVE  wpc' \in [Workers -> WorkerPlaces]
BY DEF TypeOK, NotifyAll, WorkerPlaces

LEMMA EnqueueType ==
  ASSUME TypeOK, NEW c \in Clients, NEW STATE size, NEW STATE threads,
         size \in 0 .. MaxWork, threads \in 0 .. MaxThreads,
         Enqueue(c, size, threads)
  PROVE  TypeOK'
<1> DEFINE parts == ALIMIN(size, threads)
<1>1. parts \in 0 .. MaxThreads BY ConstantsAssumption DEF ALIMIN
<1>2. taskIndex[c] \in Slots BY DEF TypeOK, Enqueue, Slots
<1>3. task' = [task EXCEPT ![taskIndex[c]] =
                 [owner |-> c, size |-> size, parts |-> parts]]
  BY DEF Enqueue
<1>4. [owner |-> c, size |-> size, parts |-> parts] \in TaskType
  BY <1>1 DEF TaskType
<1> HIDE DEF parts
<1>5. task' \in [Slots -> TaskType] BY <1>2, <1>3, <1>4 DEF TypeOK
<1>6. job' \in [Clients -> [size : 0 .. MaxWork, parts : 0 .. MaxThreads]]
  BY <1>1 DEF TypeOK, Enqueue, parts
<1> QED
  BY <1>5, <1>6
     DEF TypeOK, ClientPlaces, Enqueue, poolVars, workerVars, rtVars, jobVars

LEMMA TypeBracket ==
  ASSUME TypeOK, NEW c \in Clients, Begin(c) \/ End(c) \/ EarlyReturn(c)
  PROVE  TypeOK'
<1>1. /\ threadOpen \in [Clients -> Nat]
      /\ activeCount \in [Threads -> Int]
      /\ depth \in [Clients -> Int]
      /\ cpc \in [Clients -> ClientPlaces]
  BY DEF TypeOK
<1>2. CASE Begin(c)
  <2>1. activeCount' \in [Threads -> Int] BY <1>1, <1>2, ActiveType DEF Begin
  <2>2. threadOpen' = threadOpen \/ threadOpen' = [threadOpen EXCEPT ![c] = threadOpen[c] + 1]
    BY <1>2 DEF Begin
  <2>3. threadOpen' \in [Clients -> Nat] BY <1>1, <2>2
  <2>4. depth' \in [Clients -> Int] BY <1>1, <1>2 DEF Begin
  <2>5. cpc' = [cpc EXCEPT ![c] = "notify"] \/ cpc' = [cpc EXCEPT ![c] = "bind"]
    BY <1>2 DEF Begin
  <2>6. cpc' \in [Clients -> ClientPlaces] BY <1>1, <2>5 DEF ClientPlaces
  <2> QED BY <1>2, <2>1, <2>3, <2>4, <2>6
             DEF Begin, TypeOK, poolVars, workerVars, jobVars
<1>3. CASE End(c)
  <2>1. activeCount' \in [Threads -> Int] BY <1>1, <1>3, ActiveType DEF End
  <2>2. \/ threadOpen' = threadOpen
        \/ threadOpen' = [threadOpen EXCEPT ![c] =
                            IF threadOpen[c] > 0 THEN threadOpen[c] - 1 ELSE 0]
    BY <1>3 DEF End
  <2>3. threadOpen' \in [Clients -> Nat] BY <1>1, <2>2
  <2>4. depth' \in [Clients -> Int] BY <1>1, <1>3 DEF End
  <2>5. cpc' = [cpc EXCEPT ![c] = "idle"] \/ cpc' = [cpc EXCEPT ![c] = "open"]
    BY <1>3 DEF End
  <2>6. cpc' \in [Clients -> ClientPlaces] BY <1>1, <2>5 DEF ClientPlaces
  <2> QED BY <1>3, <2>1, <2>3, <2>4, <2>6
             DEF End, TypeOK, poolVars, workerVars, jobVars
<1>4. CASE EarlyReturn(c)
  <2>1. depth' \in [Clients -> Int] BY <1>1, <1>4 DEF EarlyReturn
  <2>2. cpc' \in [Clients -> ClientPlaces]
    BY <1>1, <1>4 DEF EarlyReturn, ClientPlaces
  <2> QED BY <1>4, <2>1, <2>2
             DEF EarlyReturn, TypeOK, poolVars, workerVars, jobVars
<1> QED BY <1>2, <1>3, <1>4

LEMMA FlagType ==
  ASSUME flag \in [Slots -> [Threads -> BOOLEAN]], NEW STATE s, NEW STATE t,
         NEW b \in BOOLEAN, flag' = [flag EXCEPT ![s][t] = b]
  PROVE  flag' \in [Slots -> [Threads -> BOOLEAN]]
<1>1. CASE s \in Slots BY <1>1
<1>2. CASE s \notin Slots BY <1>2
<1> QED BY <1>1, <1>2

LEMMA TypePoll == ASSUME TypeOK, NEW c \in Clients, Poll(c) PROVE TypeOK'
<1>1. /\ cnext \in [Clients -> Nat]
      /\ job \in [Clients -> [size : 0 .. MaxWork, parts : 0 .. MaxThreads]]
      /\ runs \in [Clients -> [Items -> Nat]]
      /\ cpc \in [Clients -> ClientPlaces]
  BY DEF TypeOK
<1>2. NoJob \in [size : 0 .. MaxWork, parts : 0 .. MaxThreads]
  BY ConstantsAssumption DEF NoJob
<1>3. NoRuns \in [Items -> Nat] BY DEF NoRuns
<1>4. \/ cnext' = [cnext EXCEPT ![c] = 1]
      \/ cnext' = [cnext EXCEPT ![c] = cnext[c] + 1]
  BY DEF Poll
<1>5. cnext' \in [Clients -> Nat] BY <1>1, <1>4
<1>6. \/ UNCHANGED <<cpc, job, runs>>
      \/ /\ job' = [job EXCEPT ![c] = NoJob]
         /\ runs' = [runs EXCEPT ![c] = NoRuns]
         /\ \/ cpc' = [cpc EXCEPT ![c] = "unbind"]
            \/ cpc' = [cpc EXCEPT ![c] = "open"]
  BY DEF Poll
<1>7. /\ job' \in [Clients -> [size : 0 .. MaxWork, parts : 0 .. MaxThreads]]
      /\ runs' \in [Clients -> [Items -> Nat]]
      /\ cpc' \in [Clients -> ClientPlaces]
  <2>1. CASE UNCHANGED <<cpc, job, runs>> BY <1>1, <2>1
  <2>2. CASE job' = [job EXCEPT ![c] = NoJob] /\ runs' = [runs EXCEPT ![c] = NoRuns]
             /\ (\/ cpc' = [cpc EXCEPT ![c] = "unbind"]
                 \/ cpc' = [cpc EXCEPT ![c] = "open"])
    <3>1. job' \in [Clients -> [size : 0 .. MaxWork, parts : 0 .. MaxThreads]]
      BY <1>1, <1>2, <2>2
    <3>2. runs' \in [Clients -> [Items -> Nat]] BY <1>1, <1>3, <2>2
    <3>3. cpc' \in [Clients -> ClientPlaces] BY <1>1, <2>2 DEF ClientPlaces
    <3> QED BY <3>1, <3>2, <3>3
  <2> QED BY <1>6, <2>1, <2>2
<1> QED BY <1>5, <1>7 DEF Poll, TypeOK, poolVars, workerVars, rtVars

LEMMA TypeFinish == ASSUME TypeOK, NEW c \in Clients, Finish(c) PROVE TypeOK'
<1> USE ConstantsAssumption DEF TypeOK, ClientPlaces, poolVars, workerVars, rtVars, jobVars
<1>1. CASE Notify(c)
  <2>1. wpc' \in [Workers -> WorkerPlaces]
    BY <1>1, NotifyType DEF Notify
  <2> QED BY <1>1, <2>1 DEF Notify
<1>2. CASE SetFlag(c)
  <2>1. flag' \in [Slots -> [Threads -> BOOLEAN]] BY <1>2, FlagType DEF SetFlag
  <2>2. cnext' = cnext \/ cnext' = [cnext EXCEPT ![c] = cnext[c] + 1]
    BY <1>2 DEF SetFlag
  <2>3. cnext' \in [Clients -> Nat] BY <2>2
  <2>4. cpc' = cpc \/ cpc' = [cpc EXCEPT ![c] = "own"] BY <1>2 DEF SetFlag
  <2>5. cpc' \in [Clients -> ClientPlaces] BY <2>4
  <2> QED BY <1>2, <2>1, <2>3, <2>5 DEF SetFlag
<1>3. CASE RunOwn(c)
  <2>1. runs' \in [Clients -> [Items -> Nat]]
    BY <1>3, RunShareType DEF RunOwn
  <2> QED BY <1>3, <2>1 DEF RunOwn
<1>4. CASE Poll(c) BY <1>4, TypePoll
<1>5. CASE EndBinding(c)
  <2>1. activeCount' \in [Threads -> Int] BY <1>5, ActiveType DEF EndBinding
  <2> QED BY <1>5, <2>1 DEF EndBinding
<1>6. CASE EnqueueBinding(c)
  <2>1. threadNumber[c] \in 0 .. MaxWork /\ threadNumber[c] \in 0 .. MaxThreads
    OBVIOUS
  <2> QED BY <1>6, <2>1, EnqueueType DEF EnqueueBinding
<1>7. CASE SkipBinding(c) BY <1>7 DEF SkipBinding
<1>8. CASE StartBinding(c)
  <2>1. activeCount' \in [Threads -> Int] BY <1>8, ActiveType DEF StartBinding
  <2> QED BY <1>8, <2>1 DEF StartBinding
<1> QED BY <1>1, <1>2, <1>3, <1>4, <1>5, <1>6, <1>7, <1>8 DEF Finish

LEMMA TypeOp ==
  ASSUME TypeOK, NEW c \in Clients, NEW size \in 2 .. MaxWork, EnqueueOp(c, size)
  PROVE  TypeOK'
<1> DEFINE threads == IF threadOpen[c] > 0 THEN backend[c] ELSE 1
<1>1. threads \in 0 .. MaxThreads BY ConstantsAssumption DEF TypeOK
<1>2. size \in 0 .. MaxWork BY ConstantsAssumption
<1>3. Enqueue(c, size, threads) BY DEF EnqueueOp
<1> QED BY <1>1, <1>2, <1>3, EnqueueType

LEMMA TypePool == ASSUME TypeOK, Stop \/ NotifyStop \/ Join PROVE TypeOK'
<1> USE ConstantsAssumption
        DEF TypeOK, WorkerPlaces, ClientPlaces, poolVars, workerVars, rtVars, jobVars
<1>1. CASE Stop BY <1>1 DEF Stop
<1>2. CASE NotifyStop BY <1>2, NotifyType DEF NotifyStop
<1>3. CASE Join BY <1>3 DEF Join, TaskType, Slots
<1> QED BY <1>1, <1>2, <1>3

LEMMA TypeNext == TypeOK /\ [Next]_vars => TypeOK'
<1> SUFFICES ASSUME TypeOK, [Next]_vars PROVE TypeOK'
  OBVIOUS
<1>1. ASSUME NEW c \in Clients, Client(c) PROVE TypeOK'
  BY <1>1, TypeLife, TypeBracket, TypeOp, TypeFinish DEF Client
<1>2. ASSUME NEW w \in Workers, Worker(w) \/ SpuriousWake(w) PROVE TypeOK'
  BY <1>2, TypeWorker
<1>3. CASE Stop \/ NotifyStop \/ Join BY <1>3, TypePool
<1>4. CASE UNCHANGED vars
  BY <1>4 DEF TypeOK, vars, poolVars, workerVars, rtVars, jobVars
<1> QED BY <1>1, <1>2, <1>3, <1>4 DEF Next

(* Type correctness of the thread pool and of its runtimes. *)
THEOREM TypeCorrect == Spec => []TypeOK
<1>1. TypeOK /\ [Next]_vars => TypeOK' BY TypeNext
<1> QED BY <1>1, TypeInit, PTL DEF Spec

-----------------------------------------------------------------------------
(* Slots. *)

SlotInv == SlotExclusive /\ PoolInv

LEMMA SlotInit == Init => SlotInv
BY DEF Init, SlotInv, SlotExclusive, PoolInv, Holds, Slots

(* A step that leaves the pool up or down, the slots, and every client's   *)
(* hold on them as they were.                                              *)
SlotSame ==
  /\ UNCHANGED <<pool, taskAvailable, taskIndex>>
  /\ \A c \in Clients : /\ cpc'[c] = "reset" <=> cpc[c] = "reset"
                        /\ cpc'[c] = "gone" => cpc[c] = "gone"

LEMMA SlotStutter == SlotInv /\ SlotSame => SlotInv'
BY DEF SlotInv, SlotSame, SlotExclusive, PoolInv, Holds

LEMMA SlotReset ==
  ASSUME TypeOK, SlotInv, NEW c \in Clients, NEW n \in Requests, Reset(c, n)
  PROVE  SlotInv'
<1>1. /\ taskIndex' = taskIndex /\ pool' = pool
      /\ cpc' = [cpc EXCEPT ![c] = "reset"]
      /\ cpc[c] \in {"gone", "idle"}
      /\ taskAvailable' = [u \in Slots |-> (u = taskIndex[c] /\ pool # "none")
                                             \/ taskAvailable[u]]
  BY DEF Reset, ReleaseWorkIndex
<1>2. cpc \in [Clients -> ClientPlaces] BY DEF TypeOK
<1>3. pool = "none" => taskIndex[c] \notin Slots BY DEF SlotInv, PoolInv, Slots
<1>4. \A d \in Clients : cpc'[d] = IF d = c THEN "reset" ELSE cpc[d]
  BY <1>1, <1>2
<1>5. PoolInv' BY <1>1, <1>4 DEF SlotInv, PoolInv
<1>6. \A s \in Slots : taskAvailable'[s] <=> taskAvailable[s] \/ taskIndex[c] = s
  BY <1>1, <1>3
<1>7. \A d \in Clients, s \in Slots : Holds(d, s)' <=> d # c /\ Holds(d, s)
  BY <1>1, <1>4 DEF Holds
<1>8. \A s \in Slots : Holds(c, s) <=> taskIndex[c] = s
  BY <1>1 DEF Holds
<1> QED BY <1>5, <1>6, <1>7, <1>8 DEF SlotInv, SlotExclusive

LEMMA SlotAcquire ==
  ASSUME TypeOK, SlotInv, NEW c \in Clients, Acquire(c) PROVE SlotInv'
<1>1. /\ cpc' = [cpc EXCEPT ![c] = "idle"]
      /\ cpc[c] = "reset"
  BY DEF Acquire
<1>2. /\ cpc \in [Clients -> ClientPlaces]
      /\ taskIndex \in [Clients -> Slots \cup {-1}]
      /\ taskAvailable \in [Slots -> BOOLEAN]
  BY DEF TypeOK
<1>3. \A d \in Clients : cpc'[d] = IF d = c THEN "idle" ELSE cpc[d]
  BY <1>1, <1>2
<1>4. \A s \in Slots : ~ Holds(c, s) BY <1>1 DEF Holds
<1>5. CASE NoSlot(c)
  <2>1. /\ taskAvailable' = taskAvailable
        /\ \A d \in Clients : taskIndex'[d] = IF d = c THEN -1 ELSE taskIndex[d]
    BY <1>2, <1>5 DEF NoSlot
  <2>2. \A d \in Clients, s \in Slots : Holds(d, s)' <=> Holds(d, s)
    BY <1>3, <1>4, <2>1 DEF Holds, Slots
  <2>3. pool' # "up" => pool # "up" BY DEF Acquire, InitPool
  <2>4. PoolInv' BY <1>3, <2>1, <2>3 DEF SlotInv, PoolInv
  <2> QED BY <2>1, <2>2, <2>4 DEF SlotInv, SlotExclusive
<1>6. CASE Granted(threadNumber[c]) > 1 /\ TakeSlot(c, Granted(threadNumber[c]))
  <2>1. PICK s \in Slots :
          /\ FirstFree(s)
          /\ taskIndex' = [taskIndex EXCEPT ![c] = s]
          /\ taskAvailable' = [taskAvailable EXCEPT ![s] = FALSE]
    BY <1>6 DEF TakeSlot
  <2>2. \A d \in Clients : taskIndex'[d] = IF d = c THEN s ELSE taskIndex[d]
    BY <1>2, <2>1
  <2>3. \A u \in Slots : taskAvailable'[u] <=> taskAvailable[u] /\ u # s
    BY <1>2, <2>1
  <2>4. \A d \in Clients, u \in Slots :
          Holds(d, u)' <=> IF d = c THEN u = s ELSE Holds(d, u)
    BY <1>3, <2>2 DEF Holds
  <2>5. \A d \in Clients : ~ Holds(d, s)
    BY <2>1 DEF FirstFree, SlotInv, SlotExclusive
  <2>6. pool' = "up"
    <3>1. threadNumber[c] > 1
      BY <1>6 DEF Granted
    <3>2. threadNumber[c] \in Nat BY DEF TypeOK
    <3>3. SystemThreadNumber(threadNumber[c]) > 1
      BY <1>6, <3>1, <3>2, ConstantsAssumption
         DEF Granted, ALIMIN, InitResult, SystemThreadNumber
    <3> QED BY <3>1, <3>3 DEF Acquire, InitPool
  <2>7. PoolInv' BY <1>3, <2>2, <2>6 DEF SlotInv, PoolInv
  <2>8. ASSUME NEW d \in Clients, NEW e \in Clients, NEW u \in Slots,
               Holds(d, u)', Holds(e, u)'
        PROVE  d = e
    BY <2>4, <2>5, <2>8 DEF SlotInv, SlotExclusive
  <2>9. ASSUME NEW u \in Slots
        PROVE  taskAvailable'[u] <=> ~ \E d \in Clients : Holds(d, u)'
    <3>1. CASE u = s BY <2>3, <2>4, <3>1
    <3>2. CASE u # s
      BY <1>4, <2>3, <2>4, <3>2 DEF SlotInv, SlotExclusive
    <3> QED BY <3>1, <3>2
  <2>10. SlotExclusive' BY <2>8, <2>9 DEF SlotExclusive
  <2> QED BY <2>7, <2>10 DEF SlotInv
<1> QED BY <1>5, <1>6 DEF Acquire

LEMMA SlotDelete ==
  ASSUME TypeOK, SlotInv, NEW c \in Clients, Delete(c) PROVE SlotInv'
<1>1. /\ taskIndex' = [taskIndex EXCEPT ![c] = -1] /\ pool' = pool
      /\ cpc' = [cpc EXCEPT ![c] = "gone"] /\ cpc[c] = "idle"
      /\ taskAvailable' = [u \in Slots |-> (u = taskIndex[c] /\ pool # "none")
                                             \/ taskAvailable[u]]
  BY DEF Delete, ReleaseWorkIndex
<1>2. /\ cpc \in [Clients -> ClientPlaces]
      /\ taskIndex \in [Clients -> Slots \cup {-1}]
  BY DEF TypeOK
<1>3. pool = "none" => taskIndex[c] \notin Slots BY DEF SlotInv, PoolInv, Slots
<1>4. \A d \in Clients : /\ cpc'[d] = IF d = c THEN "gone" ELSE cpc[d]
                         /\ taskIndex'[d] = IF d = c THEN -1 ELSE taskIndex[d]
  BY <1>1, <1>2
<1>5. PoolInv' BY <1>1, <1>4 DEF SlotInv, PoolInv
<1>6. \A s \in Slots : taskAvailable'[s] <=> taskAvailable[s] \/ taskIndex[c] = s
  BY <1>1, <1>3
<1>7. \A d \in Clients, s \in Slots : Holds(d, s)' <=> d # c /\ Holds(d, s)
  BY <1>4 DEF Holds, Slots
<1>8. \A s \in Slots : Holds(c, s) <=> taskIndex[c] = s
  BY <1>1 DEF Holds
<1> QED BY <1>5, <1>6, <1>7, <1>8 DEF SlotInv, SlotExclusive

LEMMA SlotPool ==
  ASSUME TypeOK, SlotInv, Stop \/ NotifyStop \/ Join PROVE SlotInv'
<1>1. CASE Stop
  BY <1>1 DEF Stop, rtVars, SlotInv, SlotExclusive, PoolInv, Holds
<1>2. CASE NotifyStop
  BY <1>2 DEF NotifyStop, rtVars, SlotInv, SlotExclusive, PoolInv, Holds
<1>3. CASE Join
  <2>1. \A c \in Clients : taskIndex[c] = -1
    BY <1>3 DEF Join, SlotInv, PoolInv
  <2> QED BY <1>3, <2>1
          DEF Join, rtVars, SlotInv, SlotExclusive, PoolInv, Holds, Slots
<1> QED BY <1>1, <1>2, <1>3

(* Every step keeps the invariant of slots.                                 *)
LEMMA SlotNext == TypeOK /\ SlotInv /\ [Next]_vars => SlotInv'
<1> SUFFICES ASSUME TypeOK, SlotInv, [Next]_vars PROVE SlotInv'
  OBVIOUS
<1>1. ASSUME NEW c \in Clients, Client(c) PROVE SlotInv'
  <2> USE DEF poolVars, rtVars, SlotSame
  <2>0. cpc \in [Clients -> ClientPlaces] BY DEF TypeOK
  <2>1. CASE NewBackend(c) BY <2>1, SlotStutter DEF NewBackend
  <2>2. CASE Begin(c) BY <2>0, <2>2, SlotStutter DEF Begin
  <2>3. CASE End(c) BY <2>0, <2>3, SlotStutter DEF End
  <2>4. CASE EarlyReturn(c) BY <2>0, <2>4, SlotStutter DEF EarlyReturn
  <2>5. ASSUME NEW size \in 2 .. MaxWork, EnqueueOp(c, size) PROVE SlotInv'
    BY <2>0, <2>5, SlotStutter DEF EnqueueOp, Enqueue
  <2>6. CASE EnqueueBinding(c)
    BY <2>0, <2>6, SlotStutter DEF EnqueueBinding, Enqueue
  <2>7. CASE Notify(c) BY <2>0, <2>7, SlotStutter DEF Notify
  <2>8. CASE SetFlag(c) BY <2>0, <2>8, SlotStutter DEF SetFlag
  <2>9. CASE RunOwn(c) BY <2>0, <2>9, SlotStutter DEF RunOwn
  <2>10. CASE Poll(c) BY <2>0, <2>10, SlotStutter DEF Poll
  <2>11. CASE EndBinding(c) BY <2>0, <2>11, SlotStutter DEF EndBinding
  <2>12. CASE SkipBinding(c) BY <2>0, <2>12, SlotStutter DEF SkipBinding
  <2>13. CASE StartBinding(c) BY <2>0, <2>13, SlotStutter DEF StartBinding
  <2> QED
    BY <1>1, <2>1, <2>2, <2>3, <2>4, <2>5, <2>6, <2>7, <2>8, <2>9, <2>10, <2>11,
       <2>12, <2>13, SlotReset, SlotAcquire, SlotDelete
       DEF Client, Finish
<1>2. ASSUME NEW w \in Workers, Worker(w) \/ SpuriousWake(w) PROVE SlotInv'
  <2>1. SlotSame
    BY <1>2 DEF Worker, WorkerTop, WorkerBusy, WorkerScan, WorkerRun, WorkerClear,
                WorkerWait, SpuriousWake, SlotSame, poolVars, rtVars
  <2> QED BY <2>1, SlotStutter
<1>3. CASE Stop \/ NotifyStop \/ Join BY <1>3, SlotPool
<1>4. CASE UNCHANGED vars
  <2>1. SlotSame BY <1>4 DEF vars, poolVars, rtVars, SlotSame
  <2> QED BY <2>1, SlotStutter
<1> QED BY <1>1, <1>2, <1>3, <1>4 DEF Next

LEMMA SlotInvariance == Spec => []SlotInv
<1>1. TypeOK /\ SlotInv /\ [Next]_vars => SlotInv' BY SlotNext
<1> QED BY <1>1, SlotInit, TypeCorrect, PTL DEF Spec

(* However runtimes are created, reset and destroyed, a task slot belongs  *)
(* to one of them at a time and is never lost.                             *)
THEOREM SlotsExclusive == Spec => []SlotExclusive
<1>1. SlotInv => SlotExclusive BY DEF SlotInv
<1> QED BY <1>1, SlotInvariance, PTL
-----------------------------------------------------------------------------
(* Tasks, flags and executions. *)

DataInv == JobInv /\ FlagInv /\ WorkerInv /\ RunInv

LEMMA DataInit == Init => DataInv
BY ConstantsAssumption
   DEF Init, DataInv, JobInv, FlagInv, WorkerInv, RunInv, InJob, NoJob, NoRuns

(* A slot tells its holder. *)
LEMMA OneHolder ==
  ASSUME SlotInv, NEW c \in Clients, NEW d \in Clients,
         cpc[c] # "reset", cpc[d] # "reset",
         taskIndex[c] \in Slots, taskIndex[c] = taskIndex[d]
  PROVE  c = d
BY DEF SlotInv, SlotExclusive, Holds

(* Without a running pool there is no task, no flag and no worker inside a *)
(* task.                                                                   *)
LEMMA NoPoolNoTask ==
  ASSUME TypeOK, SlotInv, DataInv, pool # "up"
  PROVE  /\ \A c \in Clients : ~ InJob(c)
         /\ \A s \in Slots, t \in Threads : ~ flag[s][t]
         /\ \A w \in Workers : wpc[w] \notin {"run", "clear"}
<1>1. \A c \in Clients : ~ InJob(c)
  <2>1. -1 \notin Slots BY DEF Slots
  <2> QED BY <2>1 DEF SlotInv, PoolInv, DataInv, JobInv
<1>2. \A s \in Slots, t \in Threads : ~ flag[s][t]
  BY <1>1 DEF DataInv, FlagInv
<1>3. ASSUME NEW w \in Workers PROVE wpc[w] \notin {"run", "clear"}
  <2>1. w \in Threads /\ wslot[w] \in Slots
    BY ConstantsAssumption DEF TypeOK, Workers, Threads
  <2> QED BY <1>2, <2>1 DEF DataInv, WorkerInv
<1> QED BY <1>1, <1>2, <1>3

(* A step outside of every enqueue: tasks, flags and the clients inside    *)
(* enqueue stay, and no worker enters a task but on its flag.              *)
DataSame ==
  /\ UNCHANGED <<task, flag, job, cnext, runs>>
  /\ \A c \in Clients :
       /\ InJob(c) => cpc'[c] = cpc[c] /\ taskIndex'[c] = taskIndex[c]
       /\ InJob(c)' => InJob(c)
  /\ \A w \in Workers :
       /\ wpc'[w] \in {"run", "clear"} => flag[wslot'[w]][w]
       /\ wpc'[w] = "clear" <=> wpc[w] = "clear"
       /\ wpc[w] = "clear" => wslot'[w] = wslot[w]

(* The participants other than the caller are workers. *)
LEMMA Participants ==
  ASSUME TypeOK, DataInv, NEW c \in Clients, InJob(c), NEW v \in Items
  PROVE  /\ Participant(v, job[c].parts) \in 0 .. job[c].parts - 1
         /\ \A p \in 1 .. job[c].parts - 1 : p \in Workers /\ p \in Threads
<1>1. job[c].parts \in 2 .. MaxThreads
  <2>1. job[c].parts \in 0 .. MaxThreads BY DEF TypeOK
  <2>2. 2 <= job[c].parts BY DEF DataInv, JobInv
  <2> QED BY <2>1, <2>2, ConstantsAssumption
<1>2. v \in Nat BY DEF Items
<1>3. Participant(v, job[c].parts) \in 0 .. job[c].parts - 1
  <2>1. job[c].parts \in Nat \ {0} BY <1>1, ConstantsAssumption
  <2> QED BY <1>2, <2>1, ParticipantRange
<1>4. \A p \in 1 .. job[c].parts - 1 : p \in Workers /\ p \in Threads
  BY <1>1, ConstantsAssumption DEF Workers, Threads
<1> QED BY <1>3, <1>4

LEMMA DataStutter ==
  ASSUME TypeOK, DataInv, DataSame PROVE DataInv'
<1>1. JobInv' BY DEF DataInv, DataSame, JobInv, InJob
<1>2. FlagInv' BY DEF DataInv, DataSame, FlagInv, InJob
<1>3. WorkerInv' BY DEF DataSame, WorkerInv
<1>4. RunInv'
  <2>1. SUFFICES ASSUME NEW c \in Clients, InJob(c)', NEW v \in Items
                 PROVE  (runs[c][v] = IF /\ v < job[c].size
                                         /\ ShareDone(c, Participant(v, job[c].parts))
                                        THEN 1 ELSE 0)'
    BY DEF RunInv
  <2>2. InJob(c) /\ cpc'[c] = cpc[c] /\ taskIndex'[c] = taskIndex[c]
    BY <2>1 DEF DataSame
  <2>3. UNCHANGED <<flag, job, cnext, runs>> BY DEF DataSame
  <2> DEFINE p == Participant(v, job[c].parts)
  <2>4. p = 0 \/ p \in Workers BY <2>2, Participants
  <2>5. p # 0 => ((wpc[p] = "clear" /\ wslot[p] = taskIndex[c])'
                    <=> (wpc[p] = "clear" /\ wslot[p] = taskIndex[c]))
    BY <2>2, <2>4 DEF DataSame
  <2>6. ShareDone(c, p)' <=> ShareDone(c, p)
    BY <2>2, <2>3, <2>5 DEF ShareDone, Participant
  <2> HIDE DEF p
  <2>7. runs[c][v] = IF v < job[c].size /\ ShareDone(c, p) THEN 1 ELSE 0
    BY <2>2 DEF DataInv, RunInv, p
  <2> QED BY <2>3, <2>6, <2>7 DEF p
<1> QED BY <1>1, <1>2, <1>3, <1>4 DEF DataInv
(* Raising a flag: the participant was not asked before, so its share is   *)
(* as undone as it was.                                                    *)
LEMMA DataSetFlag ==
  ASSUME TypeOK, SlotInv, DataInv, NEW c \in Clients, SetFlag(c)
  PROVE  DataInv'
<1> DEFINE s == taskIndex[c]
           i == cnext[c]
<1>1. /\ cpc[c] = "flag"
      /\ flag' = [flag EXCEPT ![s][i] = TRUE]
      /\ UNCHANGED <<task, wpc, wslot, job, runs, taskIndex>>
  BY DEF SetFlag, workerVars, rtVars
<1>2. /\ cpc \in [Clients -> ClientPlaces]
      /\ cnext \in [Clients -> Nat]
      /\ flag \in [Slots -> [Threads -> BOOLEAN]]
      /\ job[c].parts \in Nat
  BY ConstantsAssumption DEF TypeOK
<1>3. InJob(c) BY <1>1 DEF InJob
<1>4. /\ s \in Slots /\ i \in 1 .. job[c].parts - 1 /\ 2 <= job[c].parts
      /\ task[s] = [owner |-> c, size |-> job[c].size, parts |-> job[c].parts]
  BY <1>3 DEF DataInv, JobInv
<1>5. i \in Threads /\ i \in Nat
  <2>1. job[c].parts <= MaxThreads BY ConstantsAssumption DEF TypeOK
  <2> QED BY <1>2, <1>4, <2>1, ConstantsAssumption DEF Threads
<1> HIDE DEF s, i
<1>6. /\ cpc'[c] \in {"flag", "own"}
      /\ \A d \in Clients : d # c => cpc'[d] = cpc[d] /\ cnext'[d] = cnext[d]
      /\ cnext'[c] \in 1 .. job[c].parts - 1
      /\ cpc'[c] = "flag" => cnext'[c] = i + 1
      /\ cpc'[c] = "own" => i + 1 = job[c].parts
  <2>1. CASE i + 1 < job[c].parts
    <3>1. cnext' = [cnext EXCEPT ![c] = i + 1] /\ cpc' = cpc
      BY <2>1 DEF SetFlag, i
    <3> QED BY <1>1, <1>2, <1>4, <1>5, <2>1, <3>1
  <2>2. CASE ~ (i + 1 < job[c].parts)
    <3>1. cpc' = [cpc EXCEPT ![c] = "own"] /\ cnext' = cnext
      BY <2>2 DEF SetFlag, i
    <3>2. cnext'[c] = i BY <3>1 DEF i
    <3> QED BY <1>2, <1>4, <1>5, <2>2, <3>1, <3>2
  <2> QED BY <2>1, <2>2
<1>7. \A d \in Clients : InJob(d)' <=> InJob(d) BY <1>1, <1>6 DEF InJob
<1>8. \A u \in Slots, t \in Threads :
        flag'[u][t] = IF u = s /\ t = i THEN TRUE ELSE flag[u][t]
  BY <1>1, <1>2, <1>4, <1>5
<1>9. JobInv'
  <2>1. SUFFICES ASSUME NEW d \in Clients
                 PROVE  (IF InJob(d)
                          THEN /\ taskIndex[d] \in Slots
                               /\ 2 <= job[d].parts /\ job[d].parts <= job[d].size
                               /\ task[taskIndex[d]] =
                                    [owner |-> d, size |-> job[d].size,
                                     parts |-> job[d].parts]
                               /\ cnext[d] \in 1 .. job[d].parts - 1
                          ELSE job[d] = NoJob /\ runs[d] = NoRuns)'
    BY DEF JobInv
  <2>2. CASE d = c BY <1>1, <1>3, <1>6, <1>7, <2>2 DEF DataInv, JobInv
  <2>3. CASE d # c BY <1>1, <1>6, <1>7, <2>3 DEF DataInv, JobInv
  <2> QED BY <2>2, <2>3
<1>10. FlagInv'
  <2>1. SUFFICES ASSUME NEW u \in Slots, NEW t \in Threads, flag'[u][t]
                 PROVE  LET d == task[u].owner IN
                          /\ d \in Clients /\ InJob(d)' /\ taskIndex[d] = u
                          /\ t \in 1 .. job[d].parts - 1
                          /\ cpc'[d] = "flag" => t < cnext'[d]
                          /\ cpc'[d] = "poll" => t >= cnext'[d]
    BY <1>1 DEF FlagInv
  <2>2. CASE u = s /\ t = i
    BY <1>1, <1>3, <1>4, <1>5, <1>6, <1>7, <2>2 DEF s
  <2>3. CASE ~ (u = s /\ t = i)
    <3> DEFINE d == task[u].owner
    <3>1. /\ d \in Clients /\ InJob(d) /\ taskIndex[d] = u
          /\ t \in 1 .. job[d].parts - 1
          /\ cpc[d] = "flag" => t < cnext[d]
          /\ cpc[d] = "poll" => t >= cnext[d]
      BY <1>8, <2>1, <2>3 DEF DataInv, FlagInv
    <3>2. CASE d = c
      BY <1>1, <1>5, <1>6, <1>7, <3>1, <3>2 DEF i
    <3>3. CASE d # c BY <1>1, <1>6, <1>7, <3>1, <3>3
    <3> QED BY <3>2, <3>3
  <2> QED BY <2>2, <2>3
<1>11. WorkerInv'
  <2>1. \A w \in Workers : w \in Threads /\ wslot[w] \in Slots
    BY ConstantsAssumption DEF TypeOK, Workers, Threads
  <2> QED BY <1>1, <1>8, <2>1 DEF DataInv, WorkerInv
<1>12. RunInv'
  <2>1. SUFFICES ASSUME NEW d \in Clients, InJob(d), NEW v \in Items
                 PROVE  ShareDone(d, Participant(v, job[d].parts))'
                          <=> ShareDone(d, Participant(v, job[d].parts))
    BY <1>1, <1>7 DEF DataInv, RunInv
  <2> DEFINE p == Participant(v, job[d].parts)
  <2>2. p' = p BY <1>1 DEF Participant
  <2>3. p = 0 \/ (p \in 1 .. job[d].parts - 1 /\ p \in Workers /\ p \in Threads)
    BY <2>1, Participants
  <2>4. taskIndex[d] \in Slots BY <2>1 DEF DataInv, JobInv
  <2> HIDE DEF p
  <2>5. CASE p = 0 BY <1>1, <1>6, <2>2, <2>5 DEF ShareDone, p
  <2>6. CASE p # 0 /\ d # c
    <3>1. taskIndex[d] # s
      BY <1>1, <1>4, <2>1, <2>6, OneHolder DEF InJob, s
    <3>2. flag'[taskIndex[d]][p] = flag[taskIndex[d]][p]
      BY <1>8, <2>3, <2>4, <2>6, <3>1
    <3>3. cpc'[d] = cpc[d] /\ cnext'[d] = cnext[d] BY <1>6, <2>6
    <3>4. ShareDone(d, p)' <=> ShareDone(d, p)
      BY <1>1, <2>2, <2>6, <3>2, <3>3 DEF ShareDone
    <3> QED BY <2>2, <3>4 DEF p
  <2>7. CASE p # 0 /\ d = c /\ p # i
    <3>1. flag'[s][p] = flag[s][p] BY <1>4, <1>8, <2>3, <2>7
    <3>2. (cpc'[c] = "flag" => p < cnext'[c]) <=> (cpc[c] = "flag" => p < cnext[c])
      <4>1. i = cnext[c] /\ p \in 1 .. job[c].parts - 1 BY <2>3, <2>7 DEF i
      <4>2. CASE cpc'[c] = "flag"
        <5>1. p < i + 1 <=> p < i BY <1>5, <2>7, <4>1
        <5> QED BY <1>1, <1>6, <4>1, <4>2, <5>1
      <4>3. CASE cpc'[c] = "own"
        <5>1. i + 1 = job[c].parts BY <1>6, <4>3
        <5>2. p < i BY <1>5, <2>7, <4>1, <5>1
        <5> QED BY <1>1, <4>1, <4>3, <5>2
      <4> QED BY <1>6, <4>2, <4>3
    <3>3. ShareDone(d, p)' <=> ShareDone(d, p)
      BY <1>1, <2>2, <2>7, <3>1, <3>2 DEF ShareDone, s
    <3> QED BY <2>2, <3>3 DEF p
  <2>8. CASE p # 0 /\ d = c /\ p = i
    <3>1. ~ ShareDone(c, p) BY <1>1, <1>2, <2>8 DEF ShareDone, i
    <3>2. ~ (wpc[p] = "clear" /\ wslot[p] = s)
      <4>1. SUFFICES ASSUME wpc[p] = "clear", wslot[p] = s PROVE FALSE
        OBVIOUS
      <4>2. flag[s][i] BY <2>3, <2>8, <4>1 DEF DataInv, WorkerInv
      <4>3. i < cnext[c] BY <1>1, <1>4, <1>5, <4>2 DEF DataInv, FlagInv
      <4> QED BY <1>5, <4>3 DEF i
    <3>3. flag'[s][i] BY <1>4, <1>5, <1>8
    <3>4. ~ ShareDone(c, p)'
      BY <1>1, <2>2, <2>8, <3>2, <3>3 DEF ShareDone, s
    <3> QED BY <2>2, <2>8, <3>1, <3>4 DEF p
  <2> QED BY <2>5, <2>6, <2>7, <2>8
<1> QED BY <1>9, <1>10, <1>11, <1>12 DEF DataInv
(* What a participant's run of its share does to the counts of a client in *)
(* enqueue.                                                                *)
LEMMA RunShareCounts ==
  ASSUME TypeOK, DataInv, NEW c \in Clients, InJob(c), NEW p,
         RunShare(task[taskIndex[c]], p)
  PROVE  \A d \in Clients, v \in Items :
           runs'[d][v] = IF /\ d = c
                            /\ v < job[c].size
                            /\ Participant(v, job[c].parts) = p
                           THEN runs[d][v] + 1 ELSE runs[d][v]
<1>1. task[taskIndex[c]] = [owner |-> c, size |-> job[c].size, parts |-> job[c].parts]
  BY DEF DataInv, JobInv
<1>2. runs \in [Clients -> [Items -> Nat]] BY DEF TypeOK
<1> DEFINE f == [v \in Items |-> IF v \in Share(job[c].size, job[c].parts, p)
                                   THEN runs[c][v] + 1 ELSE runs[c][v]]
<1>3. runs' = [runs EXCEPT ![c] = f] BY <1>1 DEF RunShare
<1>4. ASSUME NEW v \in Items
      PROVE  f[v] = IF v < job[c].size /\ Participant(v, job[c].parts) = p
                      THEN runs[c][v] + 1 ELSE runs[c][v]
  BY DEF Share
<1> HIDE DEF f
<1>5. \A d \in Clients : runs'[d] = IF d = c THEN f ELSE runs[d] BY <1>2, <1>3
<1> QED BY <1>4, <1>5

(* The caller runs participant 0. *)
LEMMA DataRunOwn ==
  ASSUME TypeOK, SlotInv, DataInv, NEW c \in Clients, RunOwn(c)
  PROVE  DataInv'
<1>1. /\ cpc[c] = "own"
      /\ cpc' = [cpc EXCEPT ![c] = "poll"]
      /\ cnext' = [cnext EXCEPT ![c] = 1]
      /\ UNCHANGED <<task, flag, wpc, wslot, job, taskIndex>>
  BY DEF RunOwn, workerVars, rtVars
<1>2. InJob(c) BY <1>1 DEF InJob
<1>3. /\ cpc \in [Clients -> ClientPlaces]
      /\ cnext \in [Clients -> Nat]
      /\ job[c].parts \in Nat
  BY ConstantsAssumption DEF TypeOK
<1>4. \A d \in Clients : /\ cpc'[d] = IF d = c THEN "poll" ELSE cpc[d]
                         /\ cnext'[d] = IF d = c THEN 1 ELSE cnext[d]
  BY <1>1, <1>3
<1>5. \A d \in Clients : InJob(d)' <=> InJob(d) BY <1>2, <1>4 DEF InJob
<1>6. 2 <= job[c].parts BY <1>2 DEF DataInv, JobInv
<1>7. \A d \in Clients, v \in Items :
        runs'[d][v] = IF /\ d = c
                         /\ v < job[c].size
                         /\ Participant(v, job[c].parts) = 0
                        THEN runs[d][v] + 1 ELSE runs[d][v]
  BY <1>2, RunShareCounts DEF RunOwn
<1>8. \A d \in Clients : d # c => runs'[d] = runs[d]
  <2>1. runs \in [Clients -> [Items -> Nat]] BY DEF TypeOK
  <2>2. task[taskIndex[c]].owner = c
    <3>1. task[taskIndex[c]] =
            [owner |-> c, size |-> job[c].size, parts |-> job[c].parts]
      BY <1>2 DEF DataInv, JobInv
    <3> QED BY <3>1
  <2> QED BY <2>1, <2>2 DEF RunOwn, RunShare
<1>9. JobInv'
  <2>1. SUFFICES ASSUME NEW d \in Clients
                 PROVE  (IF InJob(d)
                          THEN /\ taskIndex[d] \in Slots
                               /\ 2 <= job[d].parts /\ job[d].parts <= job[d].size
                               /\ task[taskIndex[d]] =
                                    [owner |-> d, size |-> job[d].size,
                                     parts |-> job[d].parts]
                               /\ cnext[d] \in 1 .. job[d].parts - 1
                          ELSE job[d] = NoJob /\ runs[d] = NoRuns)'
    BY DEF JobInv
  <2>2. CASE d = c
    <3>1. 1 \in 1 .. job[c].parts - 1 BY <1>3, <1>6
    <3> QED BY <1>1, <1>2, <1>4, <1>5, <2>2, <3>1 DEF DataInv, JobInv
  <2>3. CASE d # c
    BY <1>1, <1>4, <1>5, <1>8, <2>3 DEF DataInv, JobInv
  <2> QED BY <2>2, <2>3
<1>10. FlagInv'
  <2>1. SUFFICES ASSUME NEW u \in Slots, NEW t \in Threads, flag[u][t]
                 PROVE  LET d == task[u].owner IN
                          /\ d \in Clients /\ InJob(d)' /\ taskIndex[d] = u
                          /\ t \in 1 .. job[d].parts - 1
                          /\ cpc'[d] = "flag" => t < cnext'[d]
                          /\ cpc'[d] = "poll" => t >= cnext'[d]
    BY <1>1 DEF FlagInv
  <2> DEFINE d == task[u].owner
  <2>2. /\ d \in Clients /\ InJob(d) /\ taskIndex[d] = u
        /\ t \in 1 .. job[d].parts - 1
        /\ cpc[d] = "flag" => t < cnext[d]
        /\ cpc[d] = "poll" => t >= cnext[d]
    BY <2>1 DEF DataInv, FlagInv
  <2>3. CASE d = c
    <3>1. t >= 1 BY <2>2
    <3> QED BY <1>1, <1>4, <1>5, <2>2, <2>3, <3>1
  <2>4. CASE d # c BY <1>1, <1>4, <1>5, <2>2, <2>4
  <2> QED BY <2>3, <2>4
<1>11. WorkerInv' BY <1>1 DEF DataInv, WorkerInv
<1>12. RunInv'
  <2>1. SUFFICES ASSUME NEW d \in Clients, InJob(d), NEW v \in Items
                 PROVE  runs'[d][v] =
                          IF /\ v < job[d].size
                             /\ ShareDone(d, Participant(v, job[d].parts))'
                            THEN 1 ELSE 0
    BY <1>1, <1>5 DEF RunInv
  <2> DEFINE p == Participant(v, job[d].parts)
  <2>2. p' = p BY <1>1 DEF Participant
  <2>3. runs[d][v] = IF v < job[d].size /\ ShareDone(d, p) THEN 1 ELSE 0
    BY <2>1 DEF DataInv, RunInv
  <2>4. runs'[d][v] = IF d = c /\ v < job[c].size /\ p = 0
                        THEN runs[d][v] + 1 ELSE runs[d][v]
    BY <1>7
  <2> HIDE DEF p
  <2>5. CASE d # c
    <3>1. ShareDone(d, p)' <=> ShareDone(d, p)
      BY <1>1, <1>4, <2>2, <2>5 DEF ShareDone
    <3> QED BY <2>2, <2>3, <2>4, <2>5, <3>1 DEF p
  <2>6. CASE d = c /\ p = 0
    <3>1. ~ ShareDone(d, p) /\ ShareDone(d, p)'
      BY <1>1, <1>4, <2>2, <2>6 DEF ShareDone
    <3> QED BY <2>2, <2>3, <2>4, <2>6, <3>1 DEF p
  <2>7. CASE d = c /\ p # 0
    <3>1. ShareDone(d, p)' <=> ShareDone(d, p)
      BY <1>1, <1>4, <2>2, <2>7 DEF ShareDone
    <3> QED BY <2>2, <2>3, <2>4, <2>7, <3>1 DEF p
  <2> QED BY <2>5, <2>6, <2>7
<1> QED BY <1>9, <1>10, <1>11, <1>12 DEF DataInv
(* When a pass of the spin meets no raised flag, every participant is done. *)
LEMMA PollDone ==
  ASSUME TypeOK, DataInv, NEW c \in Clients, cpc[c] = "poll",
         ~ flag[taskIndex[c]][cnext[c]], ~ (cnext[c] + 1 < job[c].parts)
  PROVE  /\ \A t \in Threads : ~ flag[taskIndex[c]][t]
         /\ \A v \in Items : runs[c][v] = IF v < job[c].size THEN 1 ELSE 0
<1> DEFINE s == taskIndex[c]
<1>1. InJob(c) BY DEF InJob
<1>2. /\ s \in Slots /\ cnext[c] \in 1 .. job[c].parts - 1
      /\ task[s] = [owner |-> c, size |-> job[c].size, parts |-> job[c].parts]
  BY <1>1 DEF DataInv, JobInv
<1>3. job[c].parts \in Nat /\ cnext[c] \in Nat
  BY ConstantsAssumption DEF TypeOK
<1>4. cnext[c] = job[c].parts - 1 BY <1>2, <1>3
<1>5. ASSUME NEW t \in Threads PROVE ~ flag[s][t]
  <2>1. SUFFICES ASSUME flag[s][t] PROVE FALSE OBVIOUS
  <2>2. t \in 1 .. job[c].parts - 1 /\ t >= cnext[c]
    BY <1>2, <2>1 DEF DataInv, FlagInv
  <2>3. t = cnext[c] BY <1>3, <1>4, <2>2
  <2> QED BY <2>1, <2>3
<1>6. ASSUME NEW v \in Items
      PROVE  runs[c][v] = IF v < job[c].size THEN 1 ELSE 0
  <2> DEFINE p == Participant(v, job[c].parts)
  <2>1. p = 0 \/ p \in Threads BY <1>1, Participants
  <2>2. ShareDone(c, p) BY <1>5, <2>1 DEF ShareDone
  <2> HIDE DEF p
  <2>3. runs[c][v] = IF v < job[c].size /\ ShareDone(c, p) THEN 1 ELSE 0
    BY <1>1 DEF DataInv, RunInv, p
  <2> QED BY <2>2, <2>3
<1> QED BY <1>5, <1>6

LEMMA DataPoll ==
  ASSUME TypeOK, SlotInv, DataInv, NEW c \in Clients, Poll(c)
  PROVE  DataInv'
<1> DEFINE s == taskIndex[c]
           i == cnext[c]
<1>1. /\ cpc[c] = "poll"
      /\ UNCHANGED <<task, flag, wpc, wslot, taskIndex>>
  BY DEF Poll, workerVars, rtVars
<1>2. /\ cpc \in [Clients -> ClientPlaces]
      /\ cnext \in [Clients -> Nat]
      /\ job \in [Clients -> [size : 0 .. MaxWork, parts : 0 .. MaxThreads]]
      /\ runs \in [Clients -> [Items -> Nat]]
      /\ job[c].parts \in Nat
  BY ConstantsAssumption DEF TypeOK
<1>3. InJob(c) BY <1>1 DEF InJob
<1>4. i \in 1 .. job[c].parts - 1 /\ 2 <= job[c].parts
  BY <1>3 DEF DataInv, JobInv
<1>5. CASE flag[s][i] \/ i + 1 < job[c].parts
  <2>1. /\ UNCHANGED <<cpc, job, runs>>
        /\ cnext' = [cnext EXCEPT ![c] = IF flag[s][i] THEN 1 ELSE i + 1]
    <3>1. CASE flag[s][i] BY <3>1 DEF Poll
    <3>2. CASE ~ flag[s][i] BY <1>5, <3>2 DEF Poll
    <3> QED BY <3>1, <3>2
  <2>2. \A d \in Clients : cnext'[d] =
          IF d = c THEN IF flag[s][i] THEN 1 ELSE i + 1 ELSE cnext[d]
    BY <1>2, <2>1
  <2>3. cnext'[c] \in 1 .. job[c].parts - 1 BY <1>2, <1>4, <1>5, <2>2
  <2>4. JobInv' BY <1>1, <2>1, <2>2, <2>3 DEF DataInv, JobInv, InJob
  <2>5. FlagInv'
    <3>1. SUFFICES ASSUME NEW u \in Slots, NEW t \in Threads, flag[u][t]
                   PROVE  LET d == task[u].owner IN
                            /\ d \in Clients /\ InJob(d) /\ taskIndex[d] = u
                            /\ t \in 1 .. job[d].parts - 1
                            /\ cpc[d] = "flag" => t < cnext'[d]
                            /\ cpc[d] = "poll" => t >= cnext'[d]
      BY <1>1, <2>1 DEF FlagInv, InJob
    <3> DEFINE d == task[u].owner
    <3>2. /\ d \in Clients /\ InJob(d) /\ taskIndex[d] = u
          /\ t \in 1 .. job[d].parts - 1
          /\ cpc[d] = "flag" => t < cnext[d]
          /\ cpc[d] = "poll" => t >= cnext[d]
      BY <3>1 DEF DataInv, FlagInv
    <3>3. CASE d # c BY <2>2, <3>2, <3>3
    <3>4. CASE d = c
      <4>1. t >= i /\ t \in 1 .. job[c].parts - 1 BY <1>1, <3>2, <3>4
      <4>2. CASE flag[s][i]
        <5>1. t >= 1 BY <4>1
        <5> QED BY <1>1, <2>2, <3>2, <3>4, <4>2, <5>1
      <4>3. CASE ~ flag[s][i]
        <5>1. t # i BY <3>1, <3>2, <3>4, <4>3
        <5>2. t \in Int /\ i \in Nat BY <1>2, <4>1
        <5>3. t >= i + 1 BY <4>1, <5>1, <5>2
        <5> QED BY <1>1, <2>2, <3>2, <3>4, <4>3, <5>3
      <4> QED BY <4>2, <4>3
    <3> QED BY <3>3, <3>4
  <2>6. WorkerInv' BY <1>1 DEF DataInv, WorkerInv
  <2>7. RunInv'
    <3>1. ASSUME NEW d \in Clients, NEW p
          PROVE  (cpc[d] = "flag" => p < cnext'[d]) <=> (cpc[d] = "flag" => p < cnext[d])
      BY <1>1, <2>2
    <3>2. ASSUME NEW d \in Clients, NEW v \in Items
          PROVE  ShareDone(d, Participant(v, job[d].parts))'
                   <=> ShareDone(d, Participant(v, job[d].parts))
      BY <1>1, <2>1, <3>1 DEF ShareDone, Participant
    <3> QED BY <2>1, <3>2 DEF DataInv, RunInv, InJob
  <2> QED BY <2>4, <2>5, <2>6, <2>7 DEF DataInv
<1>6. CASE ~ flag[s][i] /\ ~ (i + 1 < job[c].parts)
  <2>1. /\ cnext' = [cnext EXCEPT ![c] = 1]
        /\ cpc' = [cpc EXCEPT ![c] = IF binding[c] THEN "unbind" ELSE "open"]
        /\ job' = [job EXCEPT ![c] = NoJob]
        /\ runs' = [runs EXCEPT ![c] = NoRuns]
    BY <1>6 DEF Poll
  <2>2. /\ cpc'[c] \in {"unbind", "open"}
        /\ job'[c] = NoJob /\ runs'[c] = NoRuns
        /\ \A d \in Clients : d # c => /\ cpc'[d] = cpc[d] /\ cnext'[d] = cnext[d]
                                       /\ job'[d] = job[d] /\ runs'[d] = runs[d]
    BY <1>2, <2>1
  <2>3. ~ InJob(c)' /\ \A d \in Clients : d # c => (InJob(d)' <=> InJob(d))
    BY <2>2 DEF InJob
  <2>4. \A t \in Threads : ~ flag[s][t] BY <1>1, <1>6, PollDone
  <2>5. JobInv'
    <3>1. SUFFICES ASSUME NEW d \in Clients
                   PROVE  (IF InJob(d)
                            THEN /\ taskIndex[d] \in Slots
                                 /\ 2 <= job[d].parts /\ job[d].parts <= job[d].size
                                 /\ task[taskIndex[d]] =
                                      [owner |-> d, size |-> job[d].size,
                                       parts |-> job[d].parts]
                                 /\ cnext[d] \in 1 .. job[d].parts - 1
                            ELSE job[d] = NoJob /\ runs[d] = NoRuns)'
      BY DEF JobInv
    <3>2. CASE d = c
      <4>1. NoJob' = NoJob /\ NoRuns' = NoRuns BY DEF NoJob, NoRuns
      <4> QED BY <2>2, <2>3, <3>2, <4>1
    <3>3. CASE d # c
      BY <1>1, <2>2, <2>3, <3>3 DEF DataInv, JobInv, NoJob, NoRuns
    <3> QED BY <3>2, <3>3
  <2>6. FlagInv'
    <3>1. SUFFICES ASSUME NEW u \in Slots, NEW t \in Threads, flag[u][t]
                   PROVE  LET d == task[u].owner IN
                            /\ d \in Clients /\ InJob(d)' /\ taskIndex[d] = u
                            /\ t \in 1 .. job'[d].parts - 1
                            /\ cpc'[d] = "flag" => t < cnext'[d]
                            /\ cpc'[d] = "poll" => t >= cnext'[d]
      BY <1>1 DEF FlagInv
    <3> DEFINE d == task[u].owner
    <3>2. /\ d \in Clients /\ InJob(d) /\ taskIndex[d] = u
          /\ t \in 1 .. job[d].parts - 1
          /\ cpc[d] = "flag" => t < cnext[d]
          /\ cpc[d] = "poll" => t >= cnext[d]
      BY <3>1 DEF DataInv, FlagInv
    <3>3. d # c BY <2>4, <3>1, <3>2
    <3> QED BY <1>1, <2>2, <2>3, <3>2, <3>3
  <2>7. WorkerInv' BY <1>1 DEF DataInv, WorkerInv
  <2>8. RunInv'
    <3>1. SUFFICES ASSUME NEW d \in Clients, InJob(d), d # c, NEW v \in Items
                   PROVE  runs[d][v] =
                            IF /\ v < job[d].size
                               /\ ShareDone(d, Participant(v, job[d].parts))'
                              THEN 1 ELSE 0
      BY <2>2, <2>3 DEF RunInv
    <3>2. ShareDone(d, Participant(v, job[d].parts))'
            <=> ShareDone(d, Participant(v, job[d].parts))
      BY <1>1, <2>2, <3>1 DEF ShareDone, Participant
    <3> QED BY <3>1, <3>2 DEF DataInv, RunInv
  <2> QED BY <2>5, <2>6, <2>7, <2>8 DEF DataInv
<1> QED BY <1>5, <1>6
(* The client whose task a worker is inside of. *)
LEMMA TaskOfWorker ==
  ASSUME TypeOK, DataInv, NEW w \in Workers, wpc[w] \in {"run", "clear"}
  PROVE  /\ w \in Threads /\ wslot[w] \in Slots /\ flag[wslot[w]][w]
         /\ \E c \in Clients :
              /\ InJob(c) /\ taskIndex[c] = wslot[w]
              /\ task[wslot[w]].owner = c
              /\ w \in 1 .. job[c].parts - 1
              /\ cpc[c] = "flag" => w < cnext[c]
<1>1. w \in Threads /\ wslot[w] \in Slots
  BY ConstantsAssumption DEF TypeOK, Workers, Threads
<1>2. flag[wslot[w]][w] BY DEF DataInv, WorkerInv
<1> QED BY <1>1, <1>2 DEF DataInv, FlagInv

(* A worker executes its share of the task of its slot. *)
LEMMA DataWorkerRun ==
  ASSUME TypeOK, SlotInv, DataInv, NEW w \in Workers, WorkerRun(w)
  PROVE  DataInv'
<1>1. /\ wpc[w] = "run" /\ wpc' = [wpc EXCEPT ![w] = "clear"]
      /\ UNCHANGED <<task, flag, wslot, cpc, job, cnext, taskIndex>>
  BY DEF WorkerRun, rtVars
<1>2. wpc \in [Workers -> WorkerPlaces] BY DEF TypeOK
<1>3. \A x \in Workers : wpc'[x] = IF x = w THEN "clear" ELSE wpc[x]
  BY <1>1, <1>2
<1>4. PICK c \in Clients : /\ InJob(c) /\ taskIndex[c] = wslot[w]
                           /\ w \in 1 .. job[c].parts - 1
                           /\ cpc[c] = "flag" => w < cnext[c]
  BY <1>1, TaskOfWorker
<1>5. flag[taskIndex[c]][w] BY <1>1, <1>4, TaskOfWorker
<1>6. \A d \in Clients, v \in Items :
        runs'[d][v] = IF /\ d = c
                         /\ v < job[c].size
                         /\ Participant(v, job[c].parts) = w
                        THEN runs[d][v] + 1 ELSE runs[d][v]
  <2>1. RunShare(task[taskIndex[c]], w) BY <1>4 DEF WorkerRun
  <2> QED BY <1>4, <2>1, RunShareCounts
<1>7. \A d \in Clients : d # c => runs'[d] = runs[d]
  <2>1. runs \in [Clients -> [Items -> Nat]] BY DEF TypeOK
  <2>2. task[taskIndex[c]] =
          [owner |-> c, size |-> job[c].size, parts |-> job[c].parts]
    BY <1>4 DEF DataInv, JobInv
  <2>3. task[taskIndex[c]].owner = c BY <2>2
  <2> QED BY <1>4, <2>1, <2>3 DEF WorkerRun, RunShare
<1>8. JobInv' BY <1>1, <1>4, <1>7 DEF DataInv, JobInv, InJob
<1>9. FlagInv' BY <1>1 DEF DataInv, FlagInv, InJob
<1>10. WorkerInv' BY <1>1, <1>3 DEF DataInv, WorkerInv
<1>11. RunInv'
  <2>1. SUFFICES ASSUME NEW d \in Clients, InJob(d), NEW v \in Items
                 PROVE  runs'[d][v] =
                          IF /\ v < job[d].size
                             /\ ShareDone(d, Participant(v, job[d].parts))'
                            THEN 1 ELSE 0
    BY <1>1 DEF RunInv, InJob
  <2> DEFINE p == Participant(v, job[d].parts)
  <2>2. p' = p BY <1>1 DEF Participant
  <2>3. runs[d][v] = IF v < job[d].size /\ ShareDone(d, p) THEN 1 ELSE 0
    BY <2>1 DEF DataInv, RunInv
  <2>4. p = 0 \/ p \in Workers BY <2>1, Participants
  <2>5. 0 \notin Workers BY DEF Workers
  <2>6. runs'[d][v] = IF d = c /\ v < job[c].size /\ p = w
                        THEN runs[d][v] + 1 ELSE runs[d][v]
    BY <1>6
  <2> HIDE DEF p
  <2>7. CASE p # w
    <3>1. ShareDone(d, p)' <=> ShareDone(d, p)
      BY <1>1, <1>3, <2>2, <2>4, <2>7 DEF ShareDone
    <3> QED BY <2>2, <2>3, <2>6, <2>7, <3>1 DEF p
  <2>8. CASE p = w /\ d = c
    <3>1. ~ ShareDone(d, p) BY <1>1, <1>5, <2>5, <2>8 DEF ShareDone
    <3>2. ShareDone(d, p)'
      BY <1>1, <1>3, <1>4, <2>2, <2>5, <2>8 DEF ShareDone
    <3> QED BY <2>2, <2>3, <2>6, <2>8, <3>1, <3>2 DEF p
  <2>9. CASE p = w /\ d # c
    <3>1. taskIndex[d] # wslot[w]
      <4>1. taskIndex[d] \in Slots BY <2>1 DEF DataInv, JobInv
      <4> QED BY <1>4, <2>1, <2>9, <4>1, OneHolder DEF InJob
    <3>2. ShareDone(d, p)' <=> ShareDone(d, p)
      BY <1>1, <2>2, <2>5, <2>9, <3>1 DEF ShareDone
    <3> QED BY <2>2, <2>3, <2>6, <2>9, <3>2 DEF p
  <2> QED BY <2>7, <2>8, <2>9
<1> QED BY <1>8, <1>9, <1>10, <1>11 DEF DataInv

(* A worker takes its flag down. *)
LEMMA DataWorkerClear ==
  ASSUME TypeOK, SlotInv, DataInv, NEW w \in Workers, WorkerClear(w)
  PROVE  DataInv'
<1> DEFINE s == wslot[w]
<1>1. /\ wpc[w] = "clear"
      /\ flag' = [flag EXCEPT ![s][w] = FALSE]
      /\ UNCHANGED <<task, cpc, job, cnext, runs, taskIndex>>
  BY DEF WorkerClear, rtVars, jobVars
<1>2. /\ wpc'[w] \in {"scan", "busy"}
      /\ \A x \in Workers : x # w => wpc'[x] = wpc[x] /\ wslot'[x] = wslot[x]
  <2>1. /\ wpc \in [Workers -> WorkerPlaces]
        /\ wslot \in [Workers -> Slots]
    BY DEF TypeOK
  <2>2. \/ /\ wpc' = [wpc EXCEPT ![w] = "scan"]
           /\ wslot' = [wslot EXCEPT ![w] = wslot[w] + 1]
        \/ /\ wpc' = [wpc EXCEPT ![w] = "busy"]
           /\ wslot' = [wslot EXCEPT ![w] = 0]
    BY DEF WorkerClear, NextSlot
  <2> QED BY <2>1, <2>2
<1>3. s \in Slots /\ w \in Threads BY <1>1, TaskOfWorker
<1>4. PICK c \in Clients : /\ InJob(c) /\ taskIndex[c] = s
                           /\ w \in 1 .. job[c].parts - 1
                           /\ cpc[c] = "flag" => w < cnext[c]
  BY <1>1, TaskOfWorker
<1> HIDE DEF s
<1>5. \A u \in Slots, t \in Threads :
        flag'[u][t] = IF u = s /\ t = w THEN FALSE ELSE flag[u][t]
  <2>1. flag \in [Slots -> [Threads -> BOOLEAN]] BY DEF TypeOK
  <2> QED BY <1>1, <1>3, <2>1
<1>6. JobInv' BY <1>1 DEF DataInv, JobInv, InJob
<1>7. FlagInv' BY <1>1, <1>5 DEF DataInv, FlagInv, InJob
<1>8. WorkerInv'
  <2>1. SUFFICES ASSUME NEW x \in Workers, wpc'[x] \in {"run", "clear"}
                 PROVE  flag'[wslot'[x]][x]
    BY DEF WorkerInv
  <2>2. x # w BY <1>2, <2>1
  <2>3. wpc[x] = wpc'[x] /\ wslot'[x] = wslot[x] BY <1>2, <2>2
  <2>4. x \in Threads /\ wslot[x] \in Slots /\ flag[wslot[x]][x]
    BY <2>1, <2>3, TaskOfWorker
  <2> QED BY <1>5, <2>2, <2>3, <2>4
<1>9. RunInv'
  <2>1. SUFFICES ASSUME NEW d \in Clients, InJob(d), NEW v \in Items
                 PROVE  ShareDone(d, Participant(v, job[d].parts))'
                          <=> ShareDone(d, Participant(v, job[d].parts))
    BY <1>1 DEF DataInv, RunInv, InJob
  <2> DEFINE p == Participant(v, job[d].parts)
  <2>2. p' = p BY <1>1 DEF Participant
  <2>3. p = 0 \/ (p \in Workers /\ p \in Threads) BY <2>1, Participants
  <2>4. 0 \notin Workers BY DEF Workers
  <2>5. taskIndex[d] \in Slots BY <2>1 DEF DataInv, JobInv
  <2> HIDE DEF p
  <2>6. CASE p # w
    <3>1. p # 0 => flag'[taskIndex[d]][p] = flag[taskIndex[d]][p]
      BY <1>5, <2>3, <2>5, <2>6
    <3>2. ShareDone(d, p)' <=> ShareDone(d, p)
      BY <1>1, <1>2, <2>2, <2>3, <2>6, <3>1 DEF ShareDone
    <3> QED BY <2>2, <3>2 DEF p
  <2>7. CASE p = w /\ d = c
    <3>1. ShareDone(d, p) BY <1>1, <1>4, <2>4, <2>7 DEF ShareDone, s
    <3>2. ~ flag'[taskIndex[c]][w] BY <1>3, <1>4, <1>5
    <3>3. ShareDone(d, p)'
      BY <1>1, <1>4, <2>2, <2>4, <2>7, <3>2 DEF ShareDone
    <3> QED BY <2>2, <3>1, <3>3 DEF p
  <2>8. CASE p = w /\ d # c
    <3>1. taskIndex[d] # s
      BY <1>4, <2>1, <2>5, <2>8, OneHolder DEF InJob
    <3>2. flag'[taskIndex[d]][w] = flag[taskIndex[d]][w]
      BY <1>3, <1>5, <2>5, <3>1
    <3>3. ShareDone(d, p)' <=> ShareDone(d, p)
      BY <1>1, <1>2, <2>2, <2>4, <2>8, <3>1, <3>2 DEF ShareDone, s
    <3> QED BY <2>2, <3>3 DEF p
  <2> QED BY <2>6, <2>7, <2>8
<1> QED BY <1>6, <1>7, <1>8, <1>9 DEF DataInv
(* A call of enqueue finds every flag of its slot down. *)
LEMMA DataEnqueue ==
  ASSUME TypeOK, SlotInv, DataInv, NEW c \in Clients, NEW size \in 0 .. MaxWork,
         NEW threads \in 0 .. MaxThreads,
         cpc[c] \in {"open", "bound"}, Enqueue(c, size, threads)
  PROVE  /\ DataInv'
         /\ job[c] = NoJob /\ runs' = runs
         /\ size \in 1 .. MaxWork
         /\ \A d \in Clients : job'[d].size = IF d = c THEN size ELSE job[d].size
<1> DEFINE s == taskIndex[c]
           n == ALIMIN(size, threads)
<1>1. /\ 2 <= size /\ 2 <= threads /\ ~ (s < 0)
      /\ job' = [job EXCEPT ![c] = [size |-> size, parts |-> n]]
      /\ task' = [task EXCEPT ![s] = [owner |-> c, size |-> size, parts |-> n]]
      /\ cnext' = [cnext EXCEPT ![c] = 1]
      /\ cpc' = [cpc EXCEPT ![c] = "flag"]
      /\ UNCHANGED <<flag, wpc, wslot, taskIndex, runs>>
  BY ConstantsAssumption DEF Enqueue, workerVars, rtVars
<1>2. /\ cpc \in [Clients -> ClientPlaces]
      /\ cnext \in [Clients -> Nat]
      /\ job \in [Clients -> [size : 0 .. MaxWork, parts : 0 .. MaxThreads]]
      /\ task \in [Slots -> TaskType]
      /\ taskIndex[c] \in Slots \cup {-1}
  BY DEF TypeOK
<1>3. s \in Slots BY <1>1, <1>2
<1>4. n \in Nat /\ 2 <= n /\ n <= size BY <1>1, ConstantsAssumption DEF ALIMIN
<1>5. ~ InJob(c) BY DEF InJob
<1> HIDE DEF s, n
<1>6. /\ cpc'[c] = "flag" /\ cnext'[c] = 1
      /\ job'[c] = [size |-> size, parts |-> n]
      /\ \A d \in Clients : d # c => /\ cpc'[d] = cpc[d] /\ cnext'[d] = cnext[d]
                                     /\ job'[d] = job[d]
  BY <1>1, <1>2
<1>7. InJob(c)' /\ \A d \in Clients : d # c => (InJob(d)' <=> InJob(d))
  BY <1>6 DEF InJob
<1>8. \A u \in Slots : task'[u] = IF u = s
                                   THEN [owner |-> c, size |-> size, parts |-> n]
                                   ELSE task[u]
  BY <1>1, <1>2, <1>3
<1>9. ASSUME NEW t \in Threads PROVE ~ flag[s][t]
  <2>1. SUFFICES ASSUME flag[s][t] PROVE FALSE OBVIOUS
  <2>2. PICK d \in Clients : InJob(d) /\ taskIndex[d] = s
    BY <1>3, <2>1 DEF DataInv, FlagInv
  <2>3. d = c BY <1>3, <2>2, OneHolder DEF InJob, s
  <2> QED BY <1>5, <2>2, <2>3
<1>10. \A d \in Clients : InJob(d) => taskIndex[d] \in Slots /\ taskIndex[d] # s
  <2>1. SUFFICES ASSUME NEW d \in Clients, InJob(d)
                 PROVE  taskIndex[d] \in Slots /\ taskIndex[d] # s
    OBVIOUS
  <2>2. taskIndex[d] \in Slots BY <2>1 DEF DataInv, JobInv
  <2> QED BY <1>3, <1>5, <2>1, <2>2, OneHolder DEF InJob, s
<1>11. JobInv'
  <2>1. SUFFICES ASSUME NEW d \in Clients
                 PROVE  (IF InJob(d)
                          THEN /\ taskIndex[d] \in Slots
                               /\ 2 <= job[d].parts /\ job[d].parts <= job[d].size
                               /\ task[taskIndex[d]] =
                                    [owner |-> d, size |-> job[d].size,
                                     parts |-> job[d].parts]
                               /\ cnext[d] \in 1 .. job[d].parts - 1
                          ELSE job[d] = NoJob /\ runs[d] = NoRuns)'
    BY DEF JobInv
  <2>2. CASE d = c
    <3>1. 1 \in 1 .. n - 1 BY <1>4
    <3>2. taskIndex'[c] = s BY <1>1 DEF s
    <3> QED BY <1>3, <1>4, <1>6, <1>7, <1>8, <2>2, <3>1, <3>2
  <2>3. CASE d # c
    BY <1>1, <1>6, <1>7, <1>8, <1>10, <2>3 DEF DataInv, JobInv, NoJob, NoRuns
  <2> QED BY <2>2, <2>3
<1>12. FlagInv'
  <2>1. SUFFICES ASSUME NEW u \in Slots, NEW t \in Threads, flag[u][t],
                        NEW d, d = task'[u].owner
                 PROVE  /\ d \in Clients /\ InJob(d)' /\ taskIndex[d] = u
                        /\ t \in 1 .. job'[d].parts - 1
                        /\ cpc'[d] = "flag" => t < cnext'[d]
                        /\ cpc'[d] = "poll" => t >= cnext'[d]
    BY <1>1 DEF FlagInv, InJob
  <2>4. task'[u] = task[u] BY <1>8, <1>9, <2>1
  <2>2. /\ d \in Clients /\ InJob(d) /\ taskIndex[d] = u
        /\ t \in 1 .. job[d].parts - 1
        /\ cpc[d] = "flag" => t < cnext[d]
        /\ cpc[d] = "poll" => t >= cnext[d]
    BY <2>1, <2>4 DEF DataInv, FlagInv
  <2>3. d # c BY <1>5, <2>2
  <2> QED BY <1>6, <1>7, <2>2, <2>3
<1>13. WorkerInv' BY <1>1 DEF DataInv, WorkerInv
<1>14. RunInv'
  <2>1. SUFFICES ASSUME NEW d \in Clients, InJob(d)', NEW v \in Items
                 PROVE  (runs[d][v] = IF /\ v < job[d].size
                                         /\ ShareDone(d, Participant(v, job[d].parts))
                                        THEN 1 ELSE 0)'
    BY DEF RunInv
  <2>2. CASE d # c
    <3>1. ShareDone(d, Participant(v, job[d].parts))'
            <=> ShareDone(d, Participant(v, job[d].parts))
      BY <1>1, <1>6, <2>2 DEF ShareDone, Participant
    <3>2. InJob(d) BY <1>7, <2>1, <2>2
    <3>3. runs[d][v] = IF v < job[d].size /\ ShareDone(d, Participant(v, job[d].parts))
                         THEN 1 ELSE 0
      BY <3>2 DEF DataInv, RunInv
    <3> QED BY <1>1, <1>6, <2>2, <3>1, <3>3
  <2>3. CASE d = c
    <3>1. runs'[c][v] = 0 BY <1>1, <1>5 DEF DataInv, JobInv, NoRuns
    <3> DEFINE p == Participant(v, n)
    <3>2. p \in Nat
      <4>1. v \in Nat /\ n \in Nat \ {0} BY <1>4 DEF Items
      <4> QED BY <4>1, ParticipantRange
    <3>3. Participant(v, job[c].parts)' = p BY <1>6 DEF Participant
    <3> HIDE DEF p
    <3>4. ~ (IF p = 0 THEN cpc'[c] = "poll" ELSE cpc'[c] = "flag" => p < cnext'[c])
      BY <1>6, <3>2
    <3>5. ~ ShareDone(c, Participant(v, job[c].parts))'
      BY <3>3, <3>4 DEF ShareDone
    <3> QED BY <2>3, <3>1, <3>5
  <2> QED BY <2>2, <2>3
<1>15. job[c] = NoJob BY <1>5 DEF DataInv, JobInv
<1>16. \A d \in Clients : job'[d].size = IF d = c THEN size ELSE job[d].size
  BY <1>6
<1> QED BY <1>1, <1>11, <1>12, <1>13, <1>14, <1>15, <1>16 DEF DataInv
(* Steps of a client outside of enqueue that touch no worker, or only the  *)
(* sleeping ones.                                                          *)
ClientAside(c) ==
  /\ UNCHANGED <<task, flag, job, cnext, runs, wslot>>
  /\ ~ InJob(c) /\ ~ InJob(c)'
  /\ \A d \in Clients : d # c => cpc'[d] = cpc[d] /\ taskIndex'[d] = taskIndex[d]
  /\ wpc' = wpc \/ NotifyAll

LEMMA ClientAsideSame ==
  ASSUME TypeOK, DataInv, NEW c \in Clients, ClientAside(c) PROVE DataSame
<1>1. \A w \in Workers : /\ wpc'[w] \in {"run", "clear"} => wpc'[w] = wpc[w]
                         /\ wpc[w] = "clear" => wpc'[w] = "clear"
  BY DEF ClientAside, NotifyAll
<1> QED BY <1>1 DEF ClientAside, DataSame, DataInv, WorkerInv, InJob

LEMMA DataAcquire ==
  ASSUME TypeOK, SlotInv, DataInv, NEW c \in Clients, Acquire(c) PROVE DataSame
<1>1. /\ cpc[c] = "reset" /\ cpc' = [cpc EXCEPT ![c] = "idle"]
      /\ UNCHANGED <<task, flag, job, cnext, runs, wslot>>
  BY DEF Acquire, jobVars
<1>2. cpc \in [Clients -> ClientPlaces] /\ taskIndex \in [Clients -> Slots \cup {-1}]
  BY DEF TypeOK
<1>3. \A d \in Clients : cpc'[d] = IF d = c THEN "idle" ELSE cpc[d]
  BY <1>1, <1>2
<1>4. \A d \in Clients : d # c => taskIndex'[d] = taskIndex[d]
  <2>1. \E s : taskIndex' = [taskIndex EXCEPT ![c] = s]
    BY DEF Acquire, TakeSlot, NoSlot
  <2> QED BY <1>2, <2>1
<1>5. CASE wpc' = wpc
  <2>1. ClientAside(c) BY <1>1, <1>3, <1>4, <1>5 DEF ClientAside, InJob
  <2> QED BY <2>1, ClientAsideSame
<1>6. CASE wpc' # wpc
  <2>1. PICK n : pool = "none" /\ wpc' = [w \in Workers |-> IF w < n THEN "top" ELSE "none"]
    BY <1>6 DEF Acquire, InitPool
  <2>2. \A w \in Workers : /\ wpc[w] \notin {"run", "clear"}
                           /\ wpc'[w] \notin {"run", "clear"}
    BY <2>1, NoPoolNoTask
  <2> QED BY <1>1, <1>3, <1>4, <2>2 DEF DataSame, InJob
<1> QED BY <1>5, <1>6

LEMMA DataClient ==
  ASSUME TypeOK, NEW c \in Clients,
         \/ \E n \in Requests : Reset(c, n)
         \/ NewBackend(c) \/ Delete(c) \/ Begin(c) \/ Notify(c) \/ SkipBinding(c)
         \/ StartBinding(c) \/ EndBinding(c) \/ End(c) \/ EarlyReturn(c)
  PROVE  ClientAside(c)
<1> USE DEF ClientAside, InJob, workerVars, rtVars, jobVars
<1>0. cpc \in [Clients -> ClientPlaces] /\ taskIndex \in [Clients -> Slots \cup {-1}]
  BY DEF TypeOK
<1>1. CASE \E n \in Requests : Reset(c, n) BY <1>0, <1>1 DEF Reset
<1>2. CASE NewBackend(c) BY <1>0, <1>2 DEF NewBackend
<1>3. CASE Delete(c) BY <1>0, <1>3 DEF Delete
<1>4. CASE Begin(c) BY <1>0, <1>4 DEF Begin
<1>5. CASE Notify(c) BY <1>0, <1>5 DEF Notify
<1>6. CASE SkipBinding(c) BY <1>0, <1>6 DEF SkipBinding
<1>7. CASE StartBinding(c) BY <1>0, <1>7 DEF StartBinding
<1>8. CASE EndBinding(c) BY <1>0, <1>8 DEF EndBinding
<1>9. CASE End(c) BY <1>0, <1>9 DEF End
<1>10. CASE EarlyReturn(c) BY <1>0, <1>10 DEF EarlyReturn
<1> QED BY <1>1, <1>2, <1>3, <1>4, <1>5, <1>6, <1>7, <1>8, <1>9, <1>10

(* A worker outside of a task, or one that finds its flag raised. *)
LEMMA DataWorker ==
  ASSUME TypeOK, DataInv, NEW w \in Workers,
         \/ WorkerTop(w) \/ WorkerBusy(w) \/ WorkerScan(w) \/ WorkerWait(w)
         \/ SpuriousWake(w)
  PROVE  DataSame
<1>1. /\ UNCHANGED <<task, flag, job, cnext, runs, cpc, taskIndex>>
      /\ wpc[w] \notin {"run", "clear"}
      /\ \E x : wpc' = [wpc EXCEPT ![w] = x]
      /\ wslot' = wslot \/ \E x : wslot' = [wslot EXCEPT ![w] = x]
  BY DEF WorkerTop, WorkerBusy, WorkerScan, WorkerWait, SpuriousWake, NextSlot,
         rtVars, jobVars
<1>2. /\ wpc \in [Workers -> WorkerPlaces]
      /\ wslot \in [Workers -> Slots]
  BY DEF TypeOK
<1>3. \A x \in Workers : x # w => wpc'[x] = wpc[x] /\ wslot'[x] = wslot[x]
  BY <1>1, <1>2
<1>4. /\ wpc'[w] # "clear"
      /\ wpc'[w] = "run" => flag[wslot'[w]][w]
  <2>1. CASE WorkerTop(w) BY <1>2, <2>1 DEF WorkerTop
  <2>2. CASE WorkerBusy(w) BY <1>2, <2>2 DEF WorkerBusy
  <2>3. CASE WorkerScan(w)
    <3>1. CASE flag[wslot[w]][w] BY <1>2, <2>3, <3>1 DEF WorkerScan
    <3>2. CASE ~ flag[wslot[w]][w]
      BY <1>2, <2>3, <3>2 DEF WorkerScan, NextSlot
    <3> QED BY <3>1, <3>2
  <2>4. CASE WorkerWait(w) BY <1>2, <2>4 DEF WorkerWait
  <2>5. CASE SpuriousWake(w) BY <1>2, <2>5 DEF SpuriousWake
  <2> QED BY <2>1, <2>2, <2>3, <2>4, <2>5
<1> QED BY <1>1, <1>3, <1>4 DEF DataSame, DataInv, WorkerInv, InJob

LEMMA DataPool ==
  ASSUME TypeOK, SlotInv, DataInv, Stop \/ NotifyStop \/ Join
  PROVE  DataInv' /\ runs' = runs /\ job' = job
<1>1. CASE Stop
  <2>1. DataSame
    BY <1>1 DEF Stop, DataSame, DataInv, WorkerInv, InJob, workerVars, rtVars, jobVars
  <2> QED BY <1>1, <2>1, DataStutter DEF Stop, jobVars
<1>2. CASE NotifyStop
  <2>1. \A w \in Workers : /\ wpc'[w] \in {"run", "clear"} => wpc'[w] = wpc[w]
                           /\ wpc[w] = "clear" => wpc'[w] = "clear"
    BY <1>2 DEF NotifyStop, NotifyAll
  <2>2. DataSame
    BY <1>2, <2>1 DEF NotifyStop, DataSame, DataInv, WorkerInv, InJob, rtVars, jobVars
  <2> QED BY <1>2, <2>2, DataStutter DEF NotifyStop, jobVars
<1>3. CASE Join
  <2>1. /\ UNCHANGED <<cpc, job, cnext, runs>>
        /\ \A s \in Slots, t \in Threads : ~ flag'[s][t]
        /\ \A w \in Workers : wpc'[w] = "none"
    BY <1>3 DEF Join, jobVars
  <2>2. \A c \in Clients : ~ InJob(c) /\ ~ InJob(c)'
    BY <1>3, <2>1, NoPoolNoTask DEF Join, InJob
  <2>3. JobInv' BY <2>1, <2>2 DEF DataInv, JobInv, NoJob, NoRuns
  <2>4. FlagInv' BY <2>1 DEF FlagInv
  <2>5. WorkerInv' BY <2>1 DEF WorkerInv
  <2>6. RunInv' BY <2>2 DEF RunInv
  <2> QED BY <2>1, <2>3, <2>4, <2>5, <2>6 DEF DataInv
<1> QED BY <1>1, <1>2, <1>3
LEMMA FlagsDown ==
  ASSUME SlotInv, DataInv, NEW c \in Clients, cpc[c] \in {"open", "bound"},
         taskIndex[c] \in Slots
  PROVE  \A t \in Threads : ~ flag[taskIndex[c]][t]
<1> DEFINE s == taskIndex[c]
<1>1. SUFFICES ASSUME NEW t \in Threads, flag[s][t] PROVE FALSE OBVIOUS
<1>2. PICK d \in Clients : InJob(d) /\ taskIndex[d] = s
  BY <1>1 DEF DataInv, FlagInv
<1>3. d = c BY <1>2, OneHolder DEF InJob
<1> QED BY <1>2, <1>3 DEF InJob

(* The thread numbers enqueue is called with. *)
LEMMA EnqueueArguments ==
  ASSUME TypeOK, NEW c \in Clients,
         (\E size \in 2 .. MaxWork : EnqueueOp(c, size)) \/ EnqueueBinding(c)
  PROVE  \E size \in 0 .. MaxWork, threads \in 0 .. MaxThreads :
           cpc[c] \in {"open", "bound"} /\ Enqueue(c, size, threads)
<1>1. threadNumber[c] \in 0 .. MaxThreads /\ backend[c] \in 0 .. MaxThreads
      /\ threadNumber[c] \in 0 .. MaxWork /\ 1 \in 0 .. MaxThreads
  BY ConstantsAssumption DEF TypeOK
<1>2. CASE EnqueueBinding(c) BY <1>1, <1>2 DEF EnqueueBinding
<1>3. CASE \E size \in 2 .. MaxWork : EnqueueOp(c, size)
  <2>1. PICK size \in 2 .. MaxWork : EnqueueOp(c, size) BY <1>3
  <2>2. size \in 0 .. MaxWork BY <2>1, ConstantsAssumption
  <2> QED BY <1>1, <2>1, <2>2 DEF EnqueueOp
<1> QED BY <1>2, <1>3

(* Every step keeps the invariant of tasks, flags and runs.                 *)
LEMMA DataNext == TypeOK /\ SlotInv /\ DataInv /\ [Next]_vars => DataInv'
<1> SUFFICES ASSUME TypeOK, SlotInv, DataInv, [Next]_vars PROVE DataInv'
  OBVIOUS
<1>1. ASSUME NEW c \in Clients, Client(c) PROVE DataInv'
  <2>1. CASE Acquire(c) BY <2>1, DataAcquire, DataStutter
  <2>2. CASE (\E size \in 2 .. MaxWork : EnqueueOp(c, size)) \/ EnqueueBinding(c)
    BY <2>2, EnqueueArguments, DataEnqueue
  <2>3. CASE SetFlag(c) BY <2>3, DataSetFlag
  <2>4. CASE RunOwn(c) BY <2>4, DataRunOwn
  <2>5. CASE Poll(c) BY <2>5, DataPoll
  <2>6. CASE ClientAside(c) BY <2>6, ClientAsideSame, DataStutter
  <2> QED
    BY <1>1, <2>1, <2>2, <2>3, <2>4, <2>5, <2>6, DataClient DEF Client, Finish
<1>2. ASSUME NEW w \in Workers, Worker(w) \/ SpuriousWake(w) PROVE DataInv'
  <2>1. CASE WorkerRun(w) BY <2>1, DataWorkerRun
  <2>2. CASE WorkerClear(w) BY <2>2, DataWorkerClear
  <2> QED BY <1>2, <2>1, <2>2, DataWorker, DataStutter DEF Worker
<1>3. CASE Stop \/ NotifyStop \/ Join BY <1>3, DataPool
<1>4. CASE UNCHANGED vars
  <2>1. DataSame
    BY <1>4 DEF vars, workerVars, rtVars, jobVars, DataSame, InJob, DataInv, WorkerInv
  <2> QED BY <2>1, DataStutter
<1> QED BY <1>1, <1>2, <1>3, <1>4 DEF Next

LEMMA DataInvariance == Spec => []DataInv
<1>1. TypeOK /\ SlotInv /\ DataInv /\ [Next]_vars => DataInv' BY DataNext
<1> QED BY <1>1, DataInit, TypeCorrect, SlotInvariance, PTL DEF Spec

(* Reset, creation and destruction of other runtimes included, no enqueue  *)
(* replaces the std::function of a slot while a worker is inside it.       *)
LEMMA StableStep ==
  ASSUME TypeOK, SlotInv, DataInv, [Next]_vars
  PROVE  \A w \in Workers : wpc[w] \in {"run", "clear"} =>
           task'[wslot[w]] = task[wslot[w]]
<1>1. CASE task' = task BY <1>1
<1>2. CASE Join
  BY <1>2, NoPoolNoTask DEF Join
<1>3. ASSUME NEW c \in Clients, NEW size, NEW threads,
             cpc[c] \in {"open", "bound"}, Enqueue(c, size, threads)
      PROVE  \A w \in Workers : wpc[w] \in {"run", "clear"} =>
               task'[wslot[w]] = task[wslot[w]]
  <2>1. /\ ~ (taskIndex[c] < 0)
        /\ \E x : task' = [task EXCEPT ![taskIndex[c]] = x]
    BY <1>3 DEF Enqueue
  <2>2. task \in [Slots -> TaskType] /\ taskIndex[c] \in Slots \cup {-1}
    BY DEF TypeOK
  <2>3. taskIndex[c] \in Slots BY <2>1, <2>2
  <2>4. \A t \in Threads : ~ flag[taskIndex[c]][t] BY <1>3, <2>3, FlagsDown
  <2> QED BY <2>1, <2>2, <2>4, TaskOfWorker
<1> QED
  <2>1. CASE \E c \in Clients : (\E size \in 2 .. MaxWork : EnqueueOp(c, size))
                                 \/ EnqueueBinding(c)
    BY <1>3, <2>1, EnqueueArguments
  <2>2. CASE \E w \in Workers : Worker(w) \/ SpuriousWake(w)
    BY <1>1, <2>2 DEF Worker, WorkerTop, WorkerBusy, WorkerScan, WorkerRun,
                      WorkerClear, WorkerWait, SpuriousWake
  <2>3. CASE Stop \/ NotifyStop BY <1>1, <2>3 DEF Stop, NotifyStop
  <2>4. CASE UNCHANGED vars BY <1>1, <2>4 DEF vars
  <2>5. CASE \E c \in Clients :
               \/ \E n \in Requests : Reset(c, n)
               \/ Acquire(c) \/ NewBackend(c) \/ Delete(c) \/ Begin(c) \/ End(c)
               \/ EarlyReturn(c) \/ Notify(c) \/ SetFlag(c) \/ RunOwn(c) \/ Poll(c)
               \/ EndBinding(c) \/ SkipBinding(c) \/ StartBinding(c)
    BY <1>1, <2>5 DEF Reset, Acquire, NewBackend, Delete, Begin, End, EarlyReturn,
         Notify, SetFlag, RunOwn, Poll, EndBinding, SkipBinding, StartBinding
  <2> QED BY <1>2, <2>1, <2>2, <2>3, <2>4, <2>5 DEF Next, Client, Finish

(* The task of a slot is not replaced while a worker is inside of it.       *)
THEOREM TasksStable == Spec => TaskStable
<1>1. TypeOK /\ SlotInv /\ DataInv /\ [Next]_vars =>
        [\A w \in Workers : wpc[w] \in {"run", "clear"} =>
           task'[wslot[w]] = task[wslot[w]]]_vars
  BY StableStep
<1> QED BY <1>1, TypeCorrect, SlotInvariance, DataInvariance, PTL DEF Spec, TaskStable
-----------------------------------------------------------------------------
(* enqueue implements the parallel for of module ParallelFor.              *)

Sizes == [d \in Clients |-> job[d].size]

LEMMA RefineInit == Init => PF!Init
BY DEF Init, PF!Init, PF!Zero, PF!Items, NoJob, NoRuns, Items

LEMMA RefineStutter ==
  ASSUME job' = job, runs' = runs PROVE UNCHANGED PF!vars
BY DEF PF!vars

LEMMA RefineCall ==
  ASSUME NEW c \in Clients, NEW n \in 1 .. MaxWork, job[c] = NoJob, runs' = runs,
         \A d \in Clients : job'[d].size = IF d = c THEN n ELSE job[d].size
  PROVE  PF!Next
<1>1. Sizes[c] = 0 BY DEF Sizes, NoJob
<1>2. Sizes' = [Sizes EXCEPT ![c] = n] BY DEF Sizes
<1>3. PF!Call(c) BY <1>1, <1>2 DEF PF!Call, Sizes
<1> QED BY <1>3 DEF PF!Next

LEMMA RefineExecute ==
  ASSUME TypeOK, DataInv, NEW c \in Clients, InJob(c), NEW p, job' = job,
         RunShare(task[taskIndex[c]], p), ~ ShareDone(c, p)
  PROVE  PF!Next
<1> DEFINE S == Share(job[c].size, job[c].parts, p)
           f == [v \in Items |-> IF v \in S THEN runs[c][v] + 1 ELSE runs[c][v]]
<1>1. S \in SUBSET PF!Items BY DEF Share, PF!Items, Items
<1>2. task[taskIndex[c]] = [owner |-> c, size |-> job[c].size, parts |-> job[c].parts]
  BY DEF DataInv, JobInv
<1>3. runs' = [runs EXCEPT ![c] = f] BY <1>2 DEF RunShare
<1>4. ASSUME NEW v \in S PROVE v \in Items /\ v < job[c].size /\ runs[c][v] = 0
  <2>1. v \in Items /\ v < job[c].size /\ Participant(v, job[c].parts) = p
    BY DEF Share
  <2> QED BY <2>1 DEF DataInv, RunInv
<1>5. f = [v \in PF!Items |-> IF v \in S THEN 1 ELSE runs[c][v]]
  BY <1>4 DEF PF!Items, Items
<1> HIDE DEF S, f
<1>6. PF!Execute(c, S) BY <1>3, <1>4, <1>5 DEF PF!Execute
<1> QED BY <1>1, <1>6 DEF PF!Next

LEMMA RefinePoll ==
  ASSUME TypeOK, DataInv, NEW c \in Clients, Poll(c)
  PROVE  PF!Next \/ UNCHANGED PF!vars
<1> DEFINE s == taskIndex[c]
           i == cnext[c]
<1>1. cpc[c] = "poll" BY DEF Poll
<1>2. InJob(c) BY <1>1 DEF InJob
<1>3. CASE flag[s][i] \/ i + 1 < job[c].parts
  <2>1. UNCHANGED <<job, runs>> BY <1>3 DEF Poll
  <2> QED BY <2>1, RefineStutter
<1>4. CASE ~ flag[s][i] /\ ~ (i + 1 < job[c].parts)
  <2>1. /\ job' = [job EXCEPT ![c] = NoJob]
        /\ runs' = [runs EXCEPT ![c] = NoRuns]
    BY <1>4 DEF Poll
  <2>2. job \in [Clients -> [size : 0 .. MaxWork, parts : 0 .. MaxThreads]]
    BY DEF TypeOK
  <2>3. \A v \in Items : v < job[c].size => runs[c][v] = 1
    BY <1>1, <1>4, PollDone
  <2>4. Sizes' = [Sizes EXCEPT ![c] = 0] BY <2>1, <2>2 DEF Sizes, NoJob
  <2>5. job[c].size > 0
    <3>1. 2 <= job[c].parts /\ job[c].parts <= job[c].size
      BY <1>2 DEF DataInv, JobInv
    <3>2. job[c].parts \in Int /\ job[c].size \in Int
      BY <2>2, ConstantsAssumption
    <3> QED BY <3>1, <3>2
  <2>6. NoRuns = PF!Zero BY DEF NoRuns, PF!Zero, PF!Items, Items
  <2>7. PF!Return(c)
    BY <2>1, <2>3, <2>4, <2>5, <2>6 DEF PF!Return, PF!Items, Items, Sizes
  <2> QED BY <2>7 DEF PF!Next
<1> QED BY <1>3, <1>4

LEMMA RefineWorkerRun ==
  ASSUME TypeOK, DataInv, NEW w \in Workers, WorkerRun(w) PROVE PF!Next
<1>1. wpc[w] = "run" /\ job' = job BY DEF WorkerRun
<1>2. PICK c \in Clients : InJob(c) /\ taskIndex[c] = wslot[w]
  BY <1>1, TaskOfWorker
<1>3. RunShare(task[taskIndex[c]], w) BY <1>2 DEF WorkerRun
<1>4. ~ ShareDone(c, w)
  <2>1. w # 0 BY DEF Workers
  <2> QED BY <1>1, <1>2, <2>1, TaskOfWorker DEF ShareDone
<1> QED BY <1>1, <1>2, <1>3, <1>4, RefineExecute

(* Every step is one of ParallelFor or changes nothing of it.               *)
LEMMA RefineNext ==
  TypeOK /\ SlotInv /\ DataInv /\ [Next]_vars => [PF!Next]_(PF!vars)
<1> SUFFICES ASSUME TypeOK, SlotInv, DataInv, [Next]_vars
             PROVE  PF!Next \/ UNCHANGED PF!vars
  OBVIOUS
<1>1. ASSUME NEW c \in Clients, Client(c) PROVE PF!Next \/ UNCHANGED PF!vars
  <2>1. CASE (\E size \in 2 .. MaxWork : EnqueueOp(c, size)) \/ EnqueueBinding(c)
    BY <2>1, EnqueueArguments, DataEnqueue, RefineCall
  <2>2. CASE RunOwn(c)
    <3>1. InJob(c) /\ ~ ShareDone(c, 0) /\ job' = job
      BY <2>2 DEF RunOwn, InJob, ShareDone
    <3>2. RunShare(task[taskIndex[c]], 0) BY <2>2 DEF RunOwn
    <3> QED BY <3>1, <3>2, RefineExecute
  <2>3. CASE Poll(c) BY <2>3, RefinePoll
  <2>4. CASE Acquire(c)
    <3>1. UNCHANGED <<job, runs>> BY <2>4 DEF Acquire, jobVars
    <3> QED BY <3>1, RefineStutter
  <2>5. CASE SetFlag(c)
    <3>1. UNCHANGED <<job, runs>> BY <2>5 DEF SetFlag
    <3> QED BY <3>1, RefineStutter
  <2>6. CASE ClientAside(c) BY <2>6, RefineStutter DEF ClientAside
  <2> QED
    BY <1>1, <2>1, <2>2, <2>3, <2>4, <2>5, <2>6, DataClient DEF Client, Finish
<1>2. ASSUME NEW w \in Workers, Worker(w) \/ SpuriousWake(w)
      PROVE  PF!Next \/ UNCHANGED PF!vars
  <2>1. CASE WorkerRun(w) BY <2>1, RefineWorkerRun
  <2>2. CASE WorkerClear(w) BY <2>2, RefineStutter DEF WorkerClear, jobVars
  <2> QED BY <1>2, <2>1, <2>2, DataWorker, RefineStutter DEF Worker, DataSame
<1>3. CASE Stop \/ NotifyStop \/ Join BY <1>3, DataPool, RefineStutter
<1>4. CASE UNCHANGED vars BY <1>4, RefineStutter DEF vars, jobVars
<1> QED BY <1>1, <1>2, <1>3, <1>4 DEF Next

(* Every item handed to enqueue is executed exactly once between the call  *)
(* and its return, whatever the other runtimes and the workers do.         *)
THEOREM EnqueueIsParallelFor == Spec => ParallelForSpec
<1>1. TypeOK /\ SlotInv /\ DataInv /\ [Next]_vars => [PF!Next]_(PF!vars)
  BY RefineNext
<1> QED BY <1>1, RefineInit, TypeCorrect, SlotInvariance, DataInvariance, PTL
        DEF Spec, ParallelForSpec, PF!Spec

-----------------------------------------------------------------------------
(* The numbers that the pool and its runtimes agree on: how many threads a *)
(* call may use, and how many brackets and bindings keep a worker active.  *)
(* Bounds. *)

LEMMA BoundsInit == Init => BoundsInv
BY DEF Init, BoundsInv, InJob

(* A step that grants nothing and begins no enqueue. *)
BoundsSame ==
  /\ UNCHANGED <<pool, poolSize, threadNumber, backend>>
  /\ \A c \in Clients : /\ cpc'[c] = "reset" <=> cpc[c] = "reset"
                        /\ cpc'[c] = "gone" => cpc[c] = "gone"
                        /\ InJob(c)' => InJob(c) /\ job'[c] = job[c]

LEMMA BoundsStutter == BoundsInv /\ BoundsSame => BoundsInv'
BY DEF BoundsInv, BoundsSame

LEMMA BoundsReset ==
  ASSUME TypeOK, BoundsInv, NEW c \in Clients, NEW n \in Requests, Reset(c, n)
  PROVE  BoundsInv'
<1>1. /\ pool' = pool /\ poolSize' = poolSize /\ backend' = backend /\ job' = job
      /\ threadNumber' = [threadNumber EXCEPT ![c] = Clamp(n)]
      /\ cpc' = [cpc EXCEPT ![c] = "reset"]
  BY DEF Reset, jobVars
<1>2. \A d \in Clients : cpc'[d] = IF d = c THEN "reset" ELSE cpc[d]
  BY <1>1 DEF TypeOK
<1>3. \A d \in Clients : d # c => threadNumber'[d] = threadNumber[d]
  BY <1>1 DEF TypeOK
<1> QED BY <1>1, <1>2, <1>3 DEF BoundsInv, InJob

(* Whatever is granted, the pool that runs then has as many threads. *)
LEMMA GrantedFits ==
  ASSUME TypeOK, NEW n \in 1 .. MaxThreads, n > 1 => pool \in {"none", "up"},
         InitPool(IF n > 1 THEN SystemThreadNumber(n) ELSE n), Granted(n) > 1
  PROVE  pool' = "up" /\ Granted(n) <= poolSize'
<1> USE ConstantsAssumption
<1>1. n > 1 BY DEF Granted
<1>2. PICK m \in Nat : m = SystemThreadNumber(n) BY DEF SystemThreadNumber
<1>3. Granted(n) = ALIMIN(InitResult(m), n) BY <1>1, <1>2 DEF Granted
<1>4. m > 1 BY <1>1, <1>3 DEF InitResult, ALIMIN
<1>5. InitPool(m) BY <1>1, <1>2
<1>6. CASE pool = "none" BY <1>3, <1>4, <1>5, <1>6 DEF InitPool, InitResult, ALIMIN
<1>7. CASE pool = "up"
  <2>1. pool' = "up" /\ poolSize' = poolSize /\ poolSize \in Nat
    BY <1>5, <1>7 DEF InitPool, TypeOK
  <2>2. InitResult(m) = IF poolSize < m THEN poolSize ELSE m
    BY <1>4, <1>7 DEF InitResult
  <2> QED BY <1>3, <2>1, <2>2 DEF ALIMIN
<1> QED BY <1>1, <1>6, <1>7

LEMMA BoundsAcquire ==
  ASSUME TypeOK, SlotInv, DataInv, BoundsInv, NEW c \in Clients, Acquire(c)
  PROVE  BoundsInv'
<1> USE ConstantsAssumption
<1>1. PICK n \in 1 .. MaxThreads : n = threadNumber[c] BY DEF TypeOK
<1>2. /\ cpc[c] = "reset" /\ cpc' = [cpc EXCEPT ![c] = "idle"]
      /\ n > 1 => pool \in {"none", "up"}
      /\ InitPool(IF n > 1 THEN SystemThreadNumber(n) ELSE n)
      /\ \/ Granted(n) > 1 /\ TakeSlot(c, Granted(n))
         \/ NoSlot(c)
      /\ backend' = [backend EXCEPT ![c] = IF KeepBackends THEN backend[c] ELSE 0]
      /\ job' = job
  BY <1>1 DEF Acquire, jobVars
<1>3. \A d \in Clients : cpc'[d] = IF d = c THEN "idle" ELSE cpc[d]
  BY <1>2 DEF TypeOK
<1>4. \A d \in Clients : backend'[d] = backend[d] \/ backend'[d] = 0
  BY <1>2 DEF TypeOK
<1>5. \A d \in Clients : d # c => threadNumber'[d] = threadNumber[d]
  BY <1>2 DEF TakeSlot, NoSlot, TypeOK
<1>6. threadNumber'[c] > 1 => pool' = "up" /\ threadNumber'[c] <= poolSize'
  <2>1. CASE NoSlot(c)
    <3>1. threadNumber'[c] = 1 BY <2>1 DEF NoSlot, TypeOK
    <3> QED BY <3>1
  <2>2. CASE Granted(n) > 1 /\ TakeSlot(c, Granted(n))
    <3>1. threadNumber'[c] = Granted(n) BY <2>2 DEF TakeSlot, TypeOK
    <3>2. pool' = "up" /\ Granted(n) <= poolSize' BY <1>2, <2>2, GrantedFits
    <3> QED BY <3>1, <3>2
  <2> QED BY <1>2, <2>1, <2>2
<1>7. pool = "up" => pool' = "up" /\ poolSize' = poolSize BY <1>2 DEF InitPool
<1>8. \A d \in Clients : InJob(d)' => InJob(d) BY <1>3 DEF InJob
<1>9. \A d \in Clients : InJob(d) => pool = "up" BY NoPoolNoTask
<1>10. \A d \in Clients : InJob(d)' => job'[d].parts <= poolSize'
  BY <1>2, <1>7, <1>8, <1>9 DEF BoundsInv
<1>11. \A d \in Clients : backend'[d] > 1 => pool' = "up" /\ backend'[d] <= poolSize'
  BY <1>4, <1>7 DEF BoundsInv
<1>12. \A d \in Clients : cpc'[d] # "reset" /\ threadNumber'[d] > 1 =>
           pool' = "up" /\ threadNumber'[d] <= poolSize'
  BY <1>3, <1>5, <1>6, <1>7 DEF BoundsInv
<1>13. \A d \in Clients : cpc'[d] = "gone" => backend'[d] = 0 /\ threadNumber'[d] = 1
  BY <1>3, <1>4, <1>5 DEF BoundsInv
<1> QED BY <1>10, <1>11, <1>12, <1>13 DEF BoundsInv

LEMMA BoundsNewBackend ==
  ASSUME TypeOK, BoundsInv, NEW c \in Clients, NewBackend(c) PROVE BoundsInv'
<1>1. /\ cpc[c] = "idle" /\ backend' = [backend EXCEPT ![c] = threadNumber[c]]
      /\ UNCHANGED <<pool, poolSize, threadNumber, cpc, job>>
  BY DEF NewBackend, poolVars, jobVars
<1>2. \A d \in Clients : backend'[d] = IF d = c THEN threadNumber[c] ELSE backend[d]
  BY <1>1 DEF TypeOK
<1> QED BY <1>1, <1>2 DEF BoundsInv, InJob

LEMMA BoundsDelete ==
  ASSUME TypeOK, BoundsInv, NEW c \in Clients, Delete(c) PROVE BoundsInv'
<1>1. /\ cpc[c] = "idle" /\ cpc' = [cpc EXCEPT ![c] = "gone"]
      /\ threadNumber' = [threadNumber EXCEPT ![c] = 1]
      /\ backend' = [backend EXCEPT ![c] = 0]
      /\ UNCHANGED <<pool, poolSize, job>>
  BY DEF Delete, jobVars
<1>2. \A d \in Clients : /\ cpc'[d] = IF d = c THEN "gone" ELSE cpc[d]
                         /\ threadNumber'[d] = IF d = c THEN 1 ELSE threadNumber[d]
                         /\ backend'[d] = IF d = c THEN 0 ELSE backend[d]
  BY <1>1 DEF TypeOK
<1> QED BY <1>1, <1>2 DEF BoundsInv, InJob

(* An operator counts on its backend's threads, a binding on its runtime's.*)
LEMMA BoundsEnqueue ==
  ASSUME TypeOK, BoundsInv, NEW c \in Clients, NEW size \in Nat, NEW threads \in Nat,
         threads > 1 => threads <= poolSize,
         cpc[c] \in {"open", "bound"}, Enqueue(c, size, threads)
  PROVE  BoundsInv'
<1>1. /\ threads > 1
      /\ cpc' = [cpc EXCEPT ![c] = "flag"]
      /\ job' = [job EXCEPT ![c] = [size |-> size, parts |-> ALIMIN(size, threads)]]
      /\ UNCHANGED <<pool, poolSize, threadNumber, backend>>
  BY DEF Enqueue, poolVars, rtVars
<1>2. \A d \in Clients : cpc'[d] = IF d = c THEN "flag" ELSE cpc[d]
  BY <1>1 DEF TypeOK
<1>3. \A d \in Clients : d # c => job'[d] = job[d] BY <1>1 DEF TypeOK
<1>4. job'[c].parts = ALIMIN(size, threads) BY <1>1 DEF TypeOK
<1>5. ALIMIN(size, threads) <= poolSize BY <1>1 DEF ALIMIN, TypeOK
<1> QED BY <1>1, <1>2, <1>3, <1>4, <1>5 DEF BoundsInv, InJob

LEMMA BoundsEnqueues ==
  ASSUME TypeOK, BoundsInv, NEW c \in Clients,
         (\E size \in 2 .. MaxWork : EnqueueOp(c, size)) \/ EnqueueBinding(c)
  PROVE  BoundsInv'
<1> USE ConstantsAssumption
<1>1. CASE EnqueueBinding(c)
  <2>1. PICK n \in Nat : n = threadNumber[c] BY DEF TypeOK
  <2>2. cpc[c] = "bound" /\ Enqueue(c, n, n) BY <1>1, <2>1 DEF EnqueueBinding
  <2>3. n > 1 => n <= poolSize BY <2>1, <2>2 DEF BoundsInv
  <2> QED BY <2>2, <2>3, BoundsEnqueue
<1>2. CASE \E size \in 2 .. MaxWork : EnqueueOp(c, size)
  <2>1. PICK size \in Nat : EnqueueOp(c, size) BY <1>2
  <2>2. PICK n \in Nat : n = IF threadOpen[c] > 0 THEN backend[c] ELSE 1
    BY DEF TypeOK
  <2>3. cpc[c] = "open" /\ Enqueue(c, size, n) BY <2>1, <2>2 DEF EnqueueOp
  <2>4. n > 1 => n <= poolSize BY <2>2 DEF BoundsInv
  <2> QED BY <2>3, <2>4, BoundsEnqueue
<1> QED BY <1>1, <1>2

(* When the last runtime is gone nothing that was granted is left. *)
LEMMA BoundsPool ==
  ASSUME TypeOK, SlotInv, DataInv, BoundsInv, Stop \/ NotifyStop \/ Join
  PROVE  BoundsInv'
<1>1. UNCHANGED <<cpc, threadNumber, backend, job>>
  BY DEF Stop, NotifyStop, Join, rtVars, jobVars
<1>2. CASE Stop
  <2>1. \A c \in Clients : cpc[c] = "gone" BY <1>2 DEF Stop
  <2>2. \A c \in Clients : backend[c] = 0 /\ threadNumber[c] = 1 /\ ~ InJob(c)
    BY <2>1 DEF BoundsInv, InJob
  <2> QED BY <1>1, <2>2 DEF BoundsInv, InJob
<1>3. CASE NotifyStop \/ Join
  <2>1. pool # "up" BY <1>3 DEF NotifyStop, Join
  <2>2. \A c \in Clients : ~ InJob(c) BY <2>1, NoPoolNoTask
  <2> QED BY <1>1, <2>1, <2>2 DEF BoundsInv, InJob
<1> QED BY <1>2, <1>3

(* Every step keeps the invariant of thread numbers.                        *)
LEMMA BoundsNext ==
  TypeOK /\ SlotInv /\ DataInv /\ BoundsInv /\ [Next]_vars => BoundsInv'
<1> SUFFICES ASSUME TypeOK, SlotInv, DataInv, BoundsInv, [Next]_vars PROVE BoundsInv'
  OBVIOUS
<1>1. ASSUME NEW c \in Clients, Client(c) PROVE BoundsInv'
  <2> USE DEF poolVars, rtVars, jobVars, BoundsSame, InJob
  <2>0. /\ cpc \in [Clients -> ClientPlaces]
        /\ job \in [Clients -> [size : 0 .. MaxWork, parts : 0 .. MaxThreads]]
    BY DEF TypeOK
  <2>1. CASE Begin(c) BY <2>0, <2>1, BoundsStutter DEF Begin
  <2>2. CASE End(c) BY <2>0, <2>2, BoundsStutter DEF End
  <2>3. CASE EarlyReturn(c) BY <2>0, <2>3, BoundsStutter DEF EarlyReturn
  <2>4. CASE Notify(c) BY <2>0, <2>4, BoundsStutter DEF Notify
  <2>5. CASE SetFlag(c) BY <2>0, <2>5, BoundsStutter DEF SetFlag
  <2>6. CASE RunOwn(c) BY <2>0, <2>6, BoundsStutter DEF RunOwn
  <2>7. CASE Poll(c) BY <2>0, <2>7, BoundsStutter DEF Poll
  <2>8. CASE EndBinding(c) BY <2>0, <2>8, BoundsStutter DEF EndBinding
  <2>9. CASE SkipBinding(c) BY <2>0, <2>9, BoundsStutter DEF SkipBinding
  <2>10. CASE StartBinding(c) BY <2>0, <2>10, BoundsStutter DEF StartBinding
  <2> QED
    BY <1>1, <2>1, <2>2, <2>3, <2>4, <2>5, <2>6, <2>7, <2>8, <2>9, <2>10, BoundsReset,
       BoundsAcquire, BoundsNewBackend, BoundsDelete, BoundsEnqueues
       DEF Client, Finish
<1>2. ASSUME NEW w \in Workers, Worker(w) \/ SpuriousWake(w) PROVE BoundsInv'
  <2>1. BoundsSame
    BY <1>2 DEF Worker, WorkerTop, WorkerBusy, WorkerScan, WorkerRun, WorkerClear,
                WorkerWait, SpuriousWake, BoundsSame, InJob, poolVars, rtVars, jobVars
  <2> QED BY <2>1, BoundsStutter
<1>3. CASE Stop \/ NotifyStop \/ Join BY <1>3, BoundsPool
<1>4. CASE UNCHANGED vars
  <2>1. BoundsSame BY <1>4 DEF vars, poolVars, rtVars, jobVars, BoundsSame, InJob
  <2> QED BY <2>1, BoundsStutter
<1> QED BY <1>1, <1>2, <1>3, <1>4 DEF Next

LEMMA BoundsInvariance == Spec => []BoundsInv
<1>1. TypeOK /\ SlotInv /\ DataInv /\ BoundsInv /\ [Next]_vars => BoundsInv'
  BY BoundsNext
<1> QED BY <1>1, BoundsInit, TypeCorrect, SlotInvariance, DataInvariance, PTL DEF Spec

(* No call uses more threads than the pool has, with backends that outlive *)
(* resets, pools that are destroyed and created anew and any number of     *)
(* cores (ThreadPool::init, CPURuntime::_resetThreadPool, enqueue).        *)
THEOREM AlwaysInBounds == Spec => []InBounds
<1>1. BoundsInv => InBounds BY DEF BoundsInv, InBounds
<1> QED BY <1>1, BoundsInvariance, PTL

-----------------------------------------------------------------------------
(* Brackets. *)

Outside == {"gone", "reset", "idle"}
Pinning == {"notify", "bound", "flag", "own", "poll", "unbind"}

LEMMA BracketInit == Init => BracketInv
BY DEF Init, BracketInv

(* A step that opens, closes and grants nothing. *)
BracketSame ==
  /\ UNCHANGED <<threadNumber, taskIndex, threadOpen, depth, binding>>
  /\ \A c \in Clients : /\ cpc'[c] \in Outside <=> cpc[c] \in Outside
                        /\ cpc'[c] = "reset" <=> cpc[c] = "reset"
                        /\ binding[c] => cpc'[c] \in Pinning
                        /\ cpc'[c] \in {"bound", "unbind"} => binding[c]

LEMMA BracketStutter == BracketInv /\ BracketSame => BracketInv'
BY DEF BracketInv, BracketSame, Outside, Pinning

LEMMA BracketReset ==
  ASSUME TypeOK, BracketInv, NEW c \in Clients, NEW n \in Requests, Reset(c, n)
  PROVE  BracketInv'
<1>1. /\ cpc[c] \in {"gone", "idle"} /\ cpc' = [cpc EXCEPT ![c] = "reset"]
      /\ threadNumber' = [threadNumber EXCEPT ![c] = Clamp(n)]
      /\ UNCHANGED <<taskIndex, threadOpen, depth, binding>>
  BY DEF Reset
<1>2. \A d \in Clients : /\ cpc'[d] = IF d = c THEN "reset" ELSE cpc[d]
                         /\ d # c => threadNumber'[d] = threadNumber[d]
  BY <1>1 DEF TypeOK
<1> QED BY <1>1, <1>2 DEF BracketInv

LEMMA BracketAcquire ==
  ASSUME TypeOK, BracketInv, NEW c \in Clients, Acquire(c) PROVE BracketInv'
<1>1. PICK m \in Int : m = Granted(threadNumber[c])
  BY ConstantsAssumption DEF Granted, ALIMIN, InitResult, SystemThreadNumber, TypeOK
<1>2. /\ cpc[c] = "reset" /\ cpc' = [cpc EXCEPT ![c] = "idle"]
      /\ (m > 1 /\ TakeSlot(c, m)) \/ NoSlot(c)
      /\ UNCHANGED <<threadOpen, depth, binding>>
  BY <1>1 DEF Acquire
<1>3. \A d \in Clients : cpc'[d] = IF d = c THEN "idle" ELSE cpc[d]
  BY <1>2 DEF TypeOK
<1>4. \A d \in Clients : d # c => /\ threadNumber'[d] = threadNumber[d]
                                  /\ taskIndex'[d] = taskIndex[d]
  BY <1>2 DEF TakeSlot, NoSlot, TypeOK
<1>5. taskIndex'[c] >= 0 => threadNumber'[c] > 1
  BY <1>2 DEF TakeSlot, NoSlot, TypeOK
<1>6. depth[c] = 0 /\ threadOpen[c] = 0 /\ ~ binding[c] BY <1>2 DEF BracketInv
<1>7. \A d \in Clients : threadOpen'[d] = IF taskIndex'[d] >= 0 THEN depth'[d] ELSE 0
  BY <1>2, <1>4, <1>6 DEF BracketInv
<1>8. \A d \in Clients : cpc'[d] \in Outside <=> depth'[d] = 0
  BY <1>2, <1>3, <1>6 DEF BracketInv, Outside
<1>9. \A d \in Clients : binding'[d] => cpc'[d] \in Pinning
  BY <1>2, <1>3, <1>6 DEF BracketInv, Pinning
<1>10. \A d \in Clients : taskIndex'[d] >= 0 /\ cpc'[d] # "reset" => threadNumber'[d] > 1
  BY <1>3, <1>4, <1>5 DEF BracketInv
<1>11. \A d \in Clients : depth'[d] \in Nat BY <1>2 DEF BracketInv
<1>12. \A d \in Clients : cpc'[d] \in {"bound", "unbind"} => binding'[d]
  BY <1>2, <1>3 DEF BracketInv
<1> QED BY <1>7, <1>8, <1>9, <1>10, <1>11, <1>12 DEF BracketInv, Outside, Pinning

LEMMA BracketDelete ==
  ASSUME TypeOK, BracketInv, NEW c \in Clients, Delete(c) PROVE BracketInv'
<1>1. /\ cpc[c] = "idle" /\ cpc' = [cpc EXCEPT ![c] = "gone"]
      /\ threadNumber' = [threadNumber EXCEPT ![c] = 1]
      /\ taskIndex' = [taskIndex EXCEPT ![c] = -1]
      /\ threadOpen' = [threadOpen EXCEPT ![c] = 0]
      /\ UNCHANGED <<depth, binding>>
  BY DEF Delete
<1>2. \A d \in Clients : /\ cpc'[d] = IF d = c THEN "gone" ELSE cpc[d]
                         /\ threadNumber'[d] = IF d = c THEN 1 ELSE threadNumber[d]
                         /\ taskIndex'[d] = IF d = c THEN -1 ELSE taskIndex[d]
                         /\ threadOpen'[d] = IF d = c THEN 0 ELSE threadOpen[d]
  BY <1>1 DEF TypeOK
<1> QED BY <1>1, <1>2 DEF BracketInv

LEMMA BracketBegin ==
  ASSUME TypeOK, BracketInv, NEW c \in Clients, Begin(c) PROVE BracketInv'
<1>1. /\ cpc[c] \in {"idle", "open"}
      /\ depth' = [depth EXCEPT ![c] = @ + 1]
      /\ cpc' = [cpc EXCEPT ![c] = "notify"] \/ cpc' = [cpc EXCEPT ![c] = "bind"]
      /\ threadOpen' = IF taskIndex[c] >= 0 THEN [threadOpen EXCEPT ![c] = @ + 1]
                       ELSE threadOpen
      /\ UNCHANGED <<threadNumber, taskIndex, binding>>
  BY DEF Begin
<1>2. \A d \in Clients :
        /\ d # c => cpc'[d] = cpc[d]
        /\ depth'[d] = IF d = c THEN depth[c] + 1 ELSE depth[d]
        /\ threadOpen'[d] = IF d = c /\ taskIndex[c] >= 0 THEN threadOpen[c] + 1
                            ELSE threadOpen[d]
  BY <1>1 DEF TypeOK
<1>3. cpc'[c] \in {"notify", "bind"} BY <1>1 DEF TypeOK
<1>4. ~ binding[c] BY <1>1 DEF BracketInv
<1> QED BY <1>1, <1>2, <1>3, <1>4 DEF BracketInv

LEMMA BracketEnd ==
  ASSUME TypeOK, BracketInv, NEW c \in Clients, End(c) PROVE BracketInv'
<1>1. /\ cpc[c] = "open"
      /\ depth' = [depth EXCEPT ![c] = @ - 1]
      /\ cpc' = [cpc EXCEPT ![c] = IF depth[c] = 1 THEN "idle" ELSE "open"]
      /\ threadOpen' = IF taskIndex[c] >= 0
                       THEN [threadOpen EXCEPT ![c] = IF @ > 0 THEN @ - 1 ELSE 0]
                       ELSE threadOpen
      /\ UNCHANGED <<threadNumber, taskIndex, binding>>
  BY DEF End
<1>2. \A d \in Clients :
        /\ cpc'[d] = IF d = c THEN IF depth[c] = 1 THEN "idle" ELSE "open" ELSE cpc[d]
        /\ depth'[d] = IF d = c THEN depth[c] - 1 ELSE depth[d]
        /\ threadOpen'[d] = IF d = c /\ taskIndex[c] >= 0
                            THEN IF threadOpen[c] > 0 THEN threadOpen[c] - 1 ELSE 0
                            ELSE threadOpen[d]
  BY <1>1 DEF TypeOK
<1>3. depth[c] > 0 /\ ~ binding[c] BY <1>1 DEF BracketInv
<1> QED BY <1>1, <1>2, <1>3 DEF BracketInv

(* A bracket is left by an error only where it counts for nothing: a       *)
(* runtime with a slot keeps worker 1 active.                              *)
LEMMA BracketEarlyReturn ==
  ASSUME MaxLeak = 0, TypeOK, BracketInv, BalanceInv, NEW c \in Clients, EarlyReturn(c)
  PROVE  BracketInv'
<1>1. /\ cpc[c] = "open"
      /\ depth' = [depth EXCEPT ![c] = @ - 1]
      /\ cpc' = [cpc EXCEPT ![c] = IF depth[c] = 1 THEN "idle" ELSE "open"]
      /\ UNCHANGED <<threadNumber, taskIndex, threadOpen, binding>>
      /\ \A t \in Threads : activeCount[t] <= 0
  BY DEF EarlyReturn
<1>2. \A d \in Clients :
        /\ cpc'[d] = IF d = c THEN IF depth[c] = 1 THEN "idle" ELSE "open" ELSE cpc[d]
        /\ depth'[d] = IF d = c THEN depth[c] - 1 ELSE depth[d]
  BY <1>1 DEF TypeOK
<1>3. depth[c] > 0 /\ ~ binding[c] BY <1>1 DEF BracketInv
<1>4. ASSUME taskIndex[c] >= 0 PROVE FALSE
  <2>1. threadOpen[c] > 0 /\ threadNumber[c] > 1 BY <1>1, <1>3, <1>4 DEF BracketInv
  <2>2. 1 \in Workers /\ 1 \in Threads
    BY <2>1, ConstantsAssumption DEF TypeOK, Workers, Threads
  <2>3. c \in OpenFor(1) BY <2>1 DEF OpenFor
  <2>4. PICK S, T : S = OpenFor(1) /\ T = BoundFor(1) OBVIOUS
  <2>5. IsFiniteSet(S) /\ IsFiniteSet(T) /\ activeCount[1] = Cardinality(S) + Cardinality(T)
    BY <2>2, <2>4 DEF BalanceInv
  <2>6. Cardinality(S) \in Nat /\ Cardinality(T) \in Nat BY <2>5, FS_CardinalityType
  <2>7. Cardinality(S) # 0 BY <2>3, <2>4, <2>5, FS_EmptySet
  <2> QED BY <1>1, <2>2, <2>5, <2>6, <2>7
<1> QED BY <1>1, <1>2, <1>3, <1>4 DEF BracketInv, TypeOK

LEMMA BracketBinding ==
  ASSUME TypeOK, BracketInv, NEW c \in Clients, StartBinding(c) \/ EndBinding(c)
  PROVE  BracketInv'
<1>1. UNCHANGED <<threadNumber, taskIndex, threadOpen, depth>>
  BY DEF StartBinding, EndBinding, rtVars
<1>2. CASE StartBinding(c)
  <2>1. /\ cpc[c] = "bind" /\ cpc' = [cpc EXCEPT ![c] = "notify"]
        /\ binding' = [binding EXCEPT ![c] = TRUE]
    BY <1>2 DEF StartBinding
  <2>2. \A d \in Clients : /\ cpc'[d] = IF d = c THEN "notify" ELSE cpc[d]
                           /\ d # c => (binding'[d] <=> binding[d])
    BY <2>1 DEF TypeOK
  <2> QED BY <1>1, <2>1, <2>2 DEF BracketInv
<1>3. CASE EndBinding(c)
  <2>1. /\ cpc[c] \in {"unbind", "bound"} /\ cpc' = [cpc EXCEPT ![c] = "open"]
        /\ binding' = [binding EXCEPT ![c] = FALSE]
    BY <1>3 DEF EndBinding
  <2>2. \A d \in Clients : /\ cpc'[d] = IF d = c THEN "open" ELSE cpc[d]
                           /\ d # c => (binding'[d] <=> binding[d])
                           /\ ~ binding'[c]
    BY <2>1 DEF TypeOK
  <2> QED BY <1>1, <2>1, <2>2 DEF BracketInv
<1> QED BY <1>2, <1>3

(* Every step keeps the invariant of brackets.                              *)
LEMMA BracketNext ==
  MaxLeak = 0 /\ TypeOK /\ BracketInv /\ BalanceInv /\ [Next]_vars => BracketInv'
<1> SUFFICES ASSUME MaxLeak = 0, TypeOK, BracketInv, BalanceInv, [Next]_vars
             PROVE  BracketInv'
  OBVIOUS
<1>1. ASSUME NEW c \in Clients, Client(c) PROVE BracketInv'
  <2> USE DEF rtVars, BracketSame, Outside, Pinning
  <2>0. cpc \in [Clients -> ClientPlaces] BY DEF TypeOK
  <2>1. CASE NewBackend(c)
    BY <2>0, <2>1, BracketStutter DEF NewBackend, BracketInv
  <2>2. CASE Notify(c) BY <2>0, <2>2, BracketStutter DEF Notify, BracketInv
  <2>3. CASE SetFlag(c) BY <2>0, <2>3, BracketStutter DEF SetFlag, BracketInv
  <2>4. CASE RunOwn(c) BY <2>0, <2>4, BracketStutter DEF RunOwn, BracketInv
  <2>5. CASE Poll(c) BY <2>0, <2>5, BracketStutter DEF Poll, BracketInv
  <2>6. CASE SkipBinding(c) BY <2>0, <2>6, BracketStutter DEF SkipBinding, BracketInv
  <2>7. CASE (\E size \in 2 .. MaxWork : EnqueueOp(c, size)) \/ EnqueueBinding(c)
    <3>1. PICK size, threads : cpc[c] \in {"open", "bound"} /\ Enqueue(c, size, threads)
      BY <2>7, EnqueueArguments
    <3> QED BY <2>0, <3>1, BracketStutter DEF Enqueue, BracketInv
  <2> QED
    BY <1>1, <2>1, <2>2, <2>3, <2>4, <2>5, <2>6, <2>7, BracketReset, BracketAcquire,
       BracketDelete, BracketBegin, BracketEnd, BracketEarlyReturn, BracketBinding
       DEF Client, Finish
<1>2. ASSUME NEW w \in Workers, Worker(w) \/ SpuriousWake(w) PROVE BracketInv'
  <2>1. UNCHANGED <<cpc, threadNumber, taskIndex, threadOpen, depth, binding>>
    BY <1>2 DEF Worker, WorkerTop, WorkerBusy, WorkerScan, WorkerRun, WorkerClear,
                WorkerWait, SpuriousWake, rtVars
  <2> QED BY <2>1 DEF BracketInv
<1>3. CASE Stop \/ NotifyStop \/ Join
  <2>1. UNCHANGED <<cpc, threadNumber, taskIndex, threadOpen, depth, binding>>
    BY <1>3 DEF Stop, NotifyStop, Join, rtVars
  <2> QED BY <2>1 DEF BracketInv
<1>4. CASE UNCHANGED vars BY <1>4 DEF vars, rtVars, BracketInv
<1> QED BY <1>1, <1>2, <1>3, <1>4 DEF Next

-----------------------------------------------------------------------------
(* The balance of active and deactive. *)

LEMMA BalanceInit == Init => BalanceInv
<1> SUFFICES ASSUME Init, NEW w \in Workers
             PROVE  /\ IsFiniteSet(OpenFor(w)) /\ IsFiniteSet(BoundFor(w))
                    /\ activeCount[w] = Cardinality(OpenFor(w)) + Cardinality(BoundFor(w))
  BY DEF BalanceInv
<1>1. OpenFor(w) = {} /\ BoundFor(w) = {} BY DEF Init, OpenFor, BoundFor
<1>2. activeCount[w] = 0 BY DEF Init, Workers, Threads
<1> QED BY <1>1, <1>2, FS_EmptySet

LEMMA CountUp ==
  ASSUME NEW S, NEW c, IsFiniteSet(S), c \notin S
  PROVE  /\ IsFiniteSet(S \cup {c}) /\ Cardinality(S \cup {c}) = Cardinality(S) + 1
         /\ Cardinality(S) \in Nat
BY FS_AddElement, FS_CardinalityType

LEMMA CountDown ==
  ASSUME NEW S, NEW c, IsFiniteSet(S), c \in S
  PROVE  /\ IsFiniteSet(S \ {c}) /\ Cardinality(S \ {c}) = Cardinality(S) - 1
         /\ Cardinality(S) \in Nat
BY FS_RemoveElement, FS_CardinalityType

(* A step that leaves what counts on the workers, and their counts. *)
BalanceSame ==
  \A w \in Workers : /\ OpenFor(w)' = OpenFor(w) /\ BoundFor(w)' = BoundFor(w)
                     /\ activeCount'[w] = activeCount[w]

LEMMA BalanceStutter == BalanceInv /\ BalanceSame => BalanceInv'
BY DEF BalanceInv, BalanceSame

LEMMA BalanceUnchanged ==
  UNCHANGED <<activeCount, threadOpen, threadNumber, binding>> => BalanceSame
BY DEF BalanceSame, OpenFor, BoundFor

(* Only what counts on nobody is reset, granted a number or deleted. *)
LEMMA BalanceLife ==
  ASSUME TypeOK, BracketInv, BalanceInv, NEW c \in Clients,
         (\E n \in Requests : Reset(c, n)) \/ Acquire(c) \/ Delete(c)
  PROVE  BalanceInv'
<1>1. /\ cpc[c] \in {"gone", "idle", "reset"}
      /\ activeCount' = activeCount /\ binding' = binding
      /\ threadOpen' = threadOpen \/ threadOpen' = [threadOpen EXCEPT ![c] = 0]
  BY DEF Reset, Acquire, Delete
<1>2. \A d \in Clients : d # c => threadNumber'[d] = threadNumber[d]
  BY DEF Reset, Acquire, TakeSlot, NoSlot, Delete, TypeOK
<1>3. threadOpen[c] = 0 /\ ~ binding[c] BY <1>1 DEF BracketInv
<1>4. \A d \in Clients : threadOpen'[d] = threadOpen[d]
  BY <1>1, <1>3 DEF TypeOK
<1>5. BalanceSame BY <1>1, <1>2, <1>3, <1>4 DEF BalanceSame, OpenFor, BoundFor
<1> QED BY <1>5, BalanceStutter

(* The first bracket is counted when it opens, the last when it closes. *)
LEMMA BalanceBegin ==
  ASSUME TypeOK, SlotInv, BracketInv, BalanceInv, NEW c \in Clients, Begin(c)
  PROVE  BalanceInv'
<1>1. binding' = binding /\ threadNumber' = threadNumber BY DEF Begin
<1>2. \A d \in Clients : d # c => threadOpen'[d] = threadOpen[d] BY DEF Begin, TypeOK
<1>3. CASE taskIndex[c] >= 0 /\ threadOpen[c] = 0
  <2>1. Active(threadNumber[c]) /\ threadOpen'[c] = 1 BY <1>3 DEF Begin, TypeOK
  <2>2. pool = "up" BY <1>3 DEF SlotInv, PoolInv
  <2>3. ASSUME NEW w \in Workers
        PROVE  /\ IsFiniteSet(OpenFor(w))' /\ IsFiniteSet(BoundFor(w))'
               /\ activeCount'[w] = Cardinality(OpenFor(w)') + Cardinality(BoundFor(w)')
    <3>1. w \in Threads BY DEF Workers, Threads
    <3>2. activeCount'[w] = IF w < threadNumber[c] THEN activeCount[w] + 1 ELSE activeCount[w]
      BY <2>1, <2>2, <3>1 DEF Active
    <3>3. PICK S, T : S = OpenFor(w) /\ T = BoundFor(w) OBVIOUS
    <3>4. IsFiniteSet(S) /\ IsFiniteSet(T) /\ activeCount[w] = Cardinality(S) + Cardinality(T)
      BY <3>3 DEF BalanceInv
    <3>5. BoundFor(w)' = T BY <1>1, <3>3 DEF BoundFor
    <3>6. c \notin S BY <1>3, <3>3 DEF OpenFor
    <3>7. OpenFor(w)' = IF w < threadNumber[c] THEN S \cup {c} ELSE S
      BY <1>1, <1>2, <1>3, <2>1, <3>3 DEF OpenFor
    <3>8. /\ IsFiniteSet(S \cup {c}) /\ Cardinality(S \cup {c}) = Cardinality(S) + 1
          /\ Cardinality(S) \in Nat /\ Cardinality(T) \in Nat
      BY <3>4, <3>6, CountUp, FS_CardinalityType
    <3> QED BY <3>2, <3>4, <3>5, <3>7, <3>8
  <2> QED BY <2>3 DEF BalanceInv
<1>4. CASE ~ (taskIndex[c] >= 0 /\ threadOpen[c] = 0)
  <2>1. activeCount' = activeCount BY <1>4 DEF Begin
  <2>2. threadOpen'[c] > 0 <=> threadOpen[c] > 0 BY <1>4 DEF Begin, TypeOK
  <2>3. BalanceSame BY <1>1, <1>2, <2>1, <2>2 DEF BalanceSame, OpenFor, BoundFor
  <2> QED BY <2>3, BalanceStutter
<1> QED BY <1>3, <1>4

LEMMA BalanceEnd ==
  ASSUME TypeOK, SlotInv, BracketInv, BalanceInv, NEW c \in Clients, End(c)
  PROVE  BalanceInv'
<1>1. binding' = binding /\ threadNumber' = threadNumber /\ cpc[c] = "open" BY DEF End
<1>2. \A d \in Clients : d # c => threadOpen'[d] = threadOpen[d] BY DEF End, TypeOK
<1>3. CASE taskIndex[c] >= 0 /\ threadOpen[c] <= 1
  <2>1. Deactive(threadNumber[c]) /\ threadOpen'[c] = 0 BY <1>3 DEF End, TypeOK
  <2>2. pool = "up" BY <1>3 DEF SlotInv, PoolInv
  <2>3. threadOpen[c] > 0 BY <1>1, <1>3 DEF BracketInv
  <2>4. ASSUME NEW w \in Workers
        PROVE  /\ IsFiniteSet(OpenFor(w))' /\ IsFiniteSet(BoundFor(w))'
               /\ activeCount'[w] = Cardinality(OpenFor(w)') + Cardinality(BoundFor(w)')
    <3>1. w \in Threads BY DEF Workers, Threads
    <3>2. activeCount'[w] = IF w < threadNumber[c] THEN activeCount[w] - 1 ELSE activeCount[w]
      BY <2>1, <2>2, <3>1 DEF Deactive
    <3>3. PICK S, T : S = OpenFor(w) /\ T = BoundFor(w) OBVIOUS
    <3>4. IsFiniteSet(S) /\ IsFiniteSet(T) /\ activeCount[w] = Cardinality(S) + Cardinality(T)
      BY <3>3 DEF BalanceInv
    <3>5. BoundFor(w)' = T BY <1>1, <3>3 DEF BoundFor
    <3>6. c \in S <=> w < threadNumber[c] BY <2>3, <3>3 DEF OpenFor
    <3>7. OpenFor(w)' = IF w < threadNumber[c] THEN S \ {c} ELSE S
      BY <1>1, <1>2, <2>1, <3>3, <3>6 DEF OpenFor
    <3>8. /\ c \in S => IsFiniteSet(S \ {c}) /\ Cardinality(S \ {c}) = Cardinality(S) - 1
          /\ Cardinality(S) \in Nat /\ Cardinality(T) \in Nat
      BY <3>4, CountDown, FS_CardinalityType
    <3> QED BY <3>2, <3>4, <3>5, <3>6, <3>7, <3>8
  <2> QED BY <2>4 DEF BalanceInv
<1>4. CASE ~ (taskIndex[c] >= 0 /\ threadOpen[c] <= 1)
  <2>1. activeCount' = activeCount BY <1>4 DEF End
  <2>2. threadOpen'[c] > 0 <=> threadOpen[c] > 0 BY <1>4 DEF End, TypeOK
  <2>3. BalanceSame BY <1>1, <1>2, <2>1, <2>2 DEF BalanceSame, OpenFor, BoundFor
  <2> QED BY <2>3, BalanceStutter
<1> QED BY <1>3, <1>4

(* Without a pool nothing is counted, and a binding counts on no worker. *)
LEMMA NoPoolOneThread ==
  ASSUME TypeOK, BoundsInv, NEW c \in Clients, cpc[c] # "reset", pool # "up"
  PROVE  threadNumber[c] = 1
BY DEF BoundsInv, TypeOK

LEMMA BalanceStartBinding ==
  ASSUME TypeOK, BoundsInv, BracketInv, BalanceInv, NEW c \in Clients, StartBinding(c)
  PROVE  BalanceInv'
<1>1. /\ threadOpen' = threadOpen /\ threadNumber' = threadNumber /\ cpc[c] = "bind"
      /\ binding' = [binding EXCEPT ![c] = TRUE] /\ Active(threadNumber[c])
  BY DEF StartBinding, rtVars
<1>2. \A d \in Clients : binding'[d] <=> d = c \/ binding[d] BY <1>1 DEF TypeOK
<1>3. ~ binding[c] BY <1>1 DEF BracketInv
<1>4. ASSUME NEW w \in Workers
      PROVE  /\ IsFiniteSet(OpenFor(w))' /\ IsFiniteSet(BoundFor(w))'
             /\ activeCount'[w] = Cardinality(OpenFor(w)') + Cardinality(BoundFor(w)')
  <2>1. w \in Threads /\ w \in Nat /\ w >= 1
    BY ConstantsAssumption DEF Workers, Threads
  <2>2. w < threadNumber[c] => pool # "none" BY <1>1, <2>1, NoPoolOneThread
  <2>3. activeCount'[w] = IF w < threadNumber[c] THEN activeCount[w] + 1 ELSE activeCount[w]
    BY <1>1, <2>1, <2>2 DEF Active
  <2>4. PICK S, T : S = OpenFor(w) /\ T = BoundFor(w) OBVIOUS
  <2>5. IsFiniteSet(S) /\ IsFiniteSet(T) /\ activeCount[w] = Cardinality(S) + Cardinality(T)
    BY <2>4 DEF BalanceInv
  <2>6. OpenFor(w)' = S BY <1>1, <2>4 DEF OpenFor
  <2>7. c \notin T BY <1>3, <2>4 DEF BoundFor
  <2>8. BoundFor(w)' = IF w < threadNumber[c] THEN T \cup {c} ELSE T
    BY <1>1, <1>2, <1>3, <2>4 DEF BoundFor
  <2>9. /\ IsFiniteSet(T \cup {c}) /\ Cardinality(T \cup {c}) = Cardinality(T) + 1
        /\ Cardinality(S) \in Nat /\ Cardinality(T) \in Nat
    BY <2>5, <2>7, CountUp, FS_CardinalityType
  <2> QED BY <2>3, <2>5, <2>6, <2>8, <2>9
<1> QED BY <1>4 DEF BalanceInv

LEMMA BalanceEndBinding ==
  ASSUME TypeOK, BoundsInv, BracketInv, BalanceInv, NEW c \in Clients, EndBinding(c)
  PROVE  BalanceInv'
<1>1. /\ threadOpen' = threadOpen /\ threadNumber' = threadNumber
      /\ cpc[c] \in {"unbind", "bound"}
      /\ binding' = [binding EXCEPT ![c] = FALSE] /\ Deactive(threadNumber[c])
  BY DEF EndBinding, rtVars
<1>2. \A d \in Clients : binding'[d] <=> d # c /\ binding[d] BY <1>1 DEF TypeOK
<1>3. binding[c] BY <1>1 DEF BracketInv
<1>4. ASSUME NEW w \in Workers
      PROVE  /\ IsFiniteSet(OpenFor(w))' /\ IsFiniteSet(BoundFor(w))'
             /\ activeCount'[w] = Cardinality(OpenFor(w)') + Cardinality(BoundFor(w)')
  <2>1. w \in Threads /\ w \in Nat /\ w >= 1
    BY ConstantsAssumption DEF Workers, Threads
  <2>2. w < threadNumber[c] => pool # "none" BY <1>1, <2>1, NoPoolOneThread
  <2>3. activeCount'[w] = IF w < threadNumber[c] THEN activeCount[w] - 1 ELSE activeCount[w]
    BY <1>1, <2>1, <2>2 DEF Deactive
  <2>4. PICK S, T : S = OpenFor(w) /\ T = BoundFor(w) OBVIOUS
  <2>5. IsFiniteSet(S) /\ IsFiniteSet(T) /\ activeCount[w] = Cardinality(S) + Cardinality(T)
    BY <2>4 DEF BalanceInv
  <2>6. OpenFor(w)' = S BY <1>1, <2>4 DEF OpenFor
  <2>7. c \in T <=> w < threadNumber[c] BY <1>3, <2>4 DEF BoundFor
  <2>8. BoundFor(w)' = IF w < threadNumber[c] THEN T \ {c} ELSE T
    BY <1>1, <1>2, <2>4, <2>7 DEF BoundFor
  <2>9. /\ c \in T => IsFiniteSet(T \ {c}) /\ Cardinality(T \ {c}) = Cardinality(T) - 1
        /\ Cardinality(S) \in Nat /\ Cardinality(T) \in Nat
    BY <2>5, CountDown, FS_CardinalityType
  <2> QED BY <2>3, <2>5, <2>6, <2>7, <2>8, <2>9
<1> QED BY <1>4 DEF BalanceInv

LEMMA BalancePool ==
  ASSUME TypeOK, BoundsInv, BracketInv, BalanceInv, Stop \/ NotifyStop \/ Join
  PROVE  BalanceInv'
<1>1. UNCHANGED <<threadOpen, threadNumber, binding>>
  BY DEF Stop, NotifyStop, Join, rtVars
<1>2. CASE Stop \/ NotifyStop
  <2>1. activeCount' = activeCount BY <1>2 DEF Stop, NotifyStop
  <2> QED BY <1>1, <2>1, BalanceUnchanged, BalanceStutter
<1>3. CASE Join
  <2>1. pool # "up" BY <1>3 DEF Join
  <2>2. ASSUME NEW w \in Workers
        PROVE  /\ IsFiniteSet(OpenFor(w))' /\ IsFiniteSet(BoundFor(w))'
               /\ activeCount'[w] = Cardinality(OpenFor(w)') + Cardinality(BoundFor(w)')
    <3>1. w \in Threads /\ w \in Nat /\ w >= 1
      BY ConstantsAssumption DEF Workers, Threads
    <3>2. ASSUME NEW c \in Clients, w < threadNumber[c]
          PROVE  threadOpen[c] = 0 /\ ~ binding[c]
      <4>1. cpc[c] = "reset" BY <2>1, <3>1, <3>2, NoPoolOneThread
      <4> QED BY <4>1 DEF BracketInv
    <3>3. OpenFor(w)' = {} /\ BoundFor(w)' = {}
      BY <1>1, <3>2 DEF OpenFor, BoundFor
    <3>4. activeCount'[w] = 0 BY <1>3, <3>1 DEF Join
    <3> QED BY <3>3, <3>4, FS_EmptySet
  <2> QED BY <2>2 DEF BalanceInv
<1> QED BY <1>2, <1>3

(* Every step keeps the counts of active workers.                           *)
LEMMA BalanceNext ==
  TypeOK /\ SlotInv /\ BoundsInv /\ BracketInv /\ BalanceInv /\ [Next]_vars => BalanceInv'
<1> SUFFICES ASSUME TypeOK, SlotInv, BoundsInv, BracketInv, BalanceInv, [Next]_vars
             PROVE  BalanceInv'
  OBVIOUS
<1>1. ASSUME NEW c \in Clients, Client(c) PROVE BalanceInv'
  <2>1. CASE \/ NewBackend(c) \/ EarlyReturn(c) \/ Notify(c) \/ SetFlag(c) \/ RunOwn(c)
             \/ Poll(c) \/ SkipBinding(c) \/ EnqueueBinding(c)
             \/ \E size \in 2 .. MaxWork : EnqueueOp(c, size)
    <3>1. UNCHANGED <<activeCount, threadOpen, threadNumber, binding>>
      BY <2>1 DEF NewBackend, EarlyReturn, Notify, SetFlag, RunOwn, Poll, SkipBinding,
                  EnqueueBinding, EnqueueOp, Enqueue, rtVars
    <3> QED BY <3>1, BalanceUnchanged, BalanceStutter
  <2> QED
    BY <1>1, <2>1, BalanceLife, BalanceBegin, BalanceEnd, BalanceStartBinding,
       BalanceEndBinding
       DEF Client, Finish
<1>2. ASSUME NEW w \in Workers, Worker(w) \/ SpuriousWake(w) PROVE BalanceInv'
  <2>1. UNCHANGED <<activeCount, threadOpen, threadNumber, binding>>
    BY <1>2 DEF Worker, WorkerTop, WorkerBusy, WorkerScan, WorkerRun, WorkerClear,
                WorkerWait, SpuriousWake, rtVars
  <2> QED BY <2>1, BalanceUnchanged, BalanceStutter
<1>3. CASE Stop \/ NotifyStop \/ Join BY <1>3, BalancePool
<1>4. CASE UNCHANGED vars
  BY <1>4, BalanceUnchanged, BalanceStutter DEF vars, rtVars
<1> QED BY <1>1, <1>2, <1>3, <1>4 DEF Next

-----------------------------------------------------------------------------
(* Wake-ups. *)

LEMMA WakeInit == Init => WakeInv
BY DEF Init, WakeInv

(* A step of a client that is not to notify leaves the workers alone, and  *)
(* if it activates some, it is to notify them next. *)
LEMMA WakeClient ==
  ASSUME TypeOK, WakeInv, NEW c \in Clients, Client(c), ~ Acquire(c), ~ Notify(c)
  PROVE  WakeInv'
<1>1. UNCHANGED <<pool, poolSize, wpc>>
  BY DEF Client, Finish, Reset, NewBackend, Delete, Begin, End, EarlyReturn, EnqueueOp,
         SetFlag, RunOwn, Poll, EndBinding, EnqueueBinding, Enqueue, SkipBinding,
         StartBinding, poolVars, workerVars
<1>2. \A d \in Clients : d # c => cpc'[d] = cpc[d]
  BY DEF Client, Finish, Reset, NewBackend, Delete, Begin, End, EarlyReturn, EnqueueOp,
         SetFlag, RunOwn, Poll, EndBinding, EnqueueBinding, Enqueue, SkipBinding,
         StartBinding, TypeOK
<1>3. cpc[c] # "notify"
  BY DEF Client, Finish, Reset, NewBackend, Delete, Begin, End, EarlyReturn, EnqueueOp,
         SetFlag, RunOwn, Poll, EndBinding, EnqueueBinding, Enqueue, SkipBinding,
         StartBinding
<1>4. ASSUME NEW w \in Workers
      PROVE  cpc'[c] = "notify" \/ activeCount'[w] <= activeCount[w]
  <2>1. w \in Threads /\ activeCount[w] \in Int
    BY ConstantsAssumption DEF Workers, Threads, TypeOK
  <2>2. CASE Begin(c)
    BY <2>1, <2>2 DEF Begin, Active, TypeOK
  <2>3. CASE End(c) \/ EndBinding(c)
    BY <2>1, <2>3 DEF End, EndBinding, Deactive
  <2>4. CASE StartBinding(c)
    BY <2>4 DEF StartBinding, TypeOK
  <2>5. CASE \/ \E n \in Requests : Reset(c, n)
             \/ NewBackend(c) \/ Delete(c) \/ EarlyReturn(c) \/ SetFlag(c) \/ RunOwn(c)
             \/ Poll(c) \/ SkipBinding(c) \/ EnqueueBinding(c)
             \/ \E size \in 2 .. MaxWork : EnqueueOp(c, size)
    <3>1. activeCount' = activeCount
      BY <2>5 DEF Reset, NewBackend, Delete, EarlyReturn, EnqueueOp, SetFlag, RunOwn, Poll,
                  EnqueueBinding, Enqueue, SkipBinding
    <3> QED BY <2>1, <3>1
  <2> QED BY <2>2, <2>3, <2>4, <2>5 DEF Client, Finish
<1>5. ASSUME NEW w \in Workers, wpc'[w] = "asleep", activeCount'[w] > 0
      PROVE  \E d \in Clients : cpc'[d] = "notify"
  <2>1. activeCount[w] \in Int /\ activeCount'[w] \in Int
    <3>1. Next BY DEF Next
    <3>2. TypeOK' BY <3>1, TypeNext
    <3>3. w \in Threads BY ConstantsAssumption DEF Workers, Threads
    <3>4. activeCount \in [Threads -> Int] /\ activeCount' \in [Threads -> Int]
      BY <3>2 DEF TypeOK
    <3> QED BY <3>3, <3>4
  <2>2. CASE activeCount'[w] <= activeCount[w]
    <3>1. PICK d \in Clients : cpc[d] = "notify"
      BY <1>1, <1>5, <2>1, <2>2 DEF WakeInv
    <3> QED BY <1>2, <1>3, <3>1
  <2> QED BY <1>4, <2>2
<1> QED BY <1>1, <1>5 DEF WakeInv

LEMMA WakeAcquire ==
  ASSUME TypeOK, WakeInv, NEW c \in Clients, Acquire(c) PROVE WakeInv'
<1>1. PICK n \in Int : n = IF threadNumber[c] > 1 THEN SystemThreadNumber(threadNumber[c])
                           ELSE threadNumber[c]
  <2>1. threadNumber[c] \in Int /\ CpuNumber \in Int BY ConstantsAssumption DEF TypeOK
  <2> QED BY <2>1 DEF SystemThreadNumber
<1>2. /\ InitPool(n) /\ activeCount' = activeCount /\ cpc[c] = "reset"
      /\ cpc' = [cpc EXCEPT ![c] = "idle"]
  BY <1>1 DEF Acquire
<1>3. \A d \in Clients : cpc[d] = "notify" => cpc'[d] = "notify" BY <1>2 DEF TypeOK
<1>4. CASE n > 1 /\ pool = "none"
  <2>1. /\ pool' = "up" /\ poolSize' = n
        /\ \A w \in Workers : wpc'[w] = IF w < n THEN "top" ELSE "none"
    BY <1>2, <1>4 DEF InitPool
  <2> QED BY <2>1 DEF WakeInv
<1>5. CASE ~ (n > 1 /\ pool = "none")
  <2>1. UNCHANGED <<pool, poolSize, wpc>> BY <1>2, <1>5 DEF InitPool
  <2> QED BY <1>2, <1>3, <2>1 DEF WakeInv
<1> QED BY <1>4, <1>5

LEMMA WakeNotify ==
  ASSUME TypeOK, WakeInv, NEW c \in Clients, Notify(c) PROVE WakeInv'
<1>1. UNCHANGED <<pool, poolSize>> BY DEF Notify, poolVars
<1>2. \A w \in Workers : wpc'[w] # "asleep"
  BY DEF Notify, NotifyAll, WakeInv
<1>3. \A w \in Workers : wpc'[w] = wpc[w] \/ wpc'[w] = "lock"
  BY DEF Notify, NotifyAll
<1> QED BY <1>1, <1>2, <1>3 DEF WakeInv

(* A worker sleeps only when it is not asked to stop and not active. *)
LEMMA WakeWorker ==
  ASSUME TypeOK, WakeInv, NEW w \in Workers, Worker(w) \/ SpuriousWake(w)
  PROVE  WakeInv'
<1>1. UNCHANGED <<pool, poolSize, activeCount, cpc>>
  BY DEF Worker, WorkerTop, WorkerBusy, WorkerScan, WorkerRun, WorkerClear, WorkerWait,
         SpuriousWake, poolVars
<1>2. \A u \in Workers : u # w => wpc'[u] = wpc[u]
  BY DEF Worker, WorkerTop, WorkerBusy, WorkerScan, WorkerRun, WorkerClear, WorkerWait,
         SpuriousWake, NextSlot, TypeOK
<1>3. wpc'[w] = "asleep" => pool = "up" /\ ~ (activeCount[w] > 0)
  BY DEF Worker, WorkerTop, WorkerBusy, WorkerScan, WorkerRun, WorkerClear, WorkerWait,
         SpuriousWake, NextSlot, TypeOK
<1>4. wpc'[w] # "none" /\ (pool = "up" => wpc'[w] # "exited")
  BY DEF Worker, WorkerTop, WorkerBusy, WorkerScan, WorkerRun, WorkerClear, WorkerWait,
         SpuriousWake, NextSlot, TypeOK
<1> QED BY <1>1, <1>2, <1>3, <1>4 DEF WakeInv

LEMMA WakePool ==
  ASSUME WakeInv, Stop \/ NotifyStop \/ Join PROVE WakeInv'
<1>1. pool' # "up" BY DEF Stop, NotifyStop, Join
<1>2. CASE Stop BY <1>2 DEF Stop, workerVars, WakeInv
<1>3. CASE NotifyStop \/ Join
  <2>1. \A w \in Workers : wpc'[w] # "asleep" BY <1>3 DEF NotifyStop, Join, NotifyAll
  <2> QED BY <1>1, <2>1 DEF WakeInv
<1> QED BY <1>2, <1>3

LEMMA WakeNext == TypeOK /\ WakeInv /\ [Next]_vars => WakeInv'
<1> SUFFICES ASSUME TypeOK, WakeInv, [Next]_vars PROVE WakeInv' OBVIOUS
<1>1. CASE UNCHANGED vars BY <1>1 DEF vars, poolVars, workerVars, WakeInv
<1> QED BY <1>1, WakeClient, WakeAcquire, WakeNotify, WakeWorker, WakePool DEF Next

-----------------------------------------------------------------------------
(* What a bracket covers, when no backend outlives a reset. *)

LEMMA CoverInit == Init => CoverInv
BY DEF Init, CoverInv, InJob

LEMMA CoverLife ==
  ASSUME KeepBackends = FALSE, TypeOK, CoverInv, NEW c \in Clients,
         \/ \E n \in Requests : Reset(c, n)
         \/ Acquire(c) \/ NewBackend(c) \/ Delete(c)
  PROVE  CoverInv'
<1>1. /\ cpc'[c] \in {"gone", "idle", "reset"}
      /\ cpc'[c] = "reset" \/ backend'[c] = 0 \/ backend'[c] = threadNumber'[c]
  BY DEF Reset, Acquire, NewBackend, Delete, TypeOK
<1>2. \A d \in Clients : d # c => /\ cpc'[d] = cpc[d] /\ backend'[d] = backend[d]
                                  /\ threadNumber'[d] = threadNumber[d]
                                  /\ threadOpen'[d] = threadOpen[d]
  BY DEF Reset, Acquire, TakeSlot, NoSlot, NewBackend, Delete, TypeOK
<1>3. job' = job /\ binding' = binding
  BY DEF Reset, Acquire, NewBackend, Delete, jobVars
<1> QED BY <1>1, <1>2, <1>3 DEF CoverInv, InJob

LEMMA CoverEnqueue ==
  ASSUME TypeOK, BracketInv, CoverInv, NEW c \in Clients,
         (\E size \in 2 .. MaxWork : EnqueueOp(c, size)) \/ EnqueueBinding(c)
  PROVE  CoverInv'
<1>1. PICK size \in Int, threads \in Int :
        /\ Enqueue(c, size, threads) /\ threads <= threadNumber[c]
        /\ cpc[c] # "reset" /\ (binding[c] \/ threadOpen[c] > 0)
  <2>1. CASE EnqueueBinding(c)
    BY <2>1 DEF EnqueueBinding, BracketInv, TypeOK
  <2>2. CASE \E size \in 2 .. MaxWork : EnqueueOp(c, size)
    <3>1. PICK size \in 2 .. MaxWork : EnqueueOp(c, size) BY <2>2
    <3>2. PICK threads \in Int : threads = IF threadOpen[c] > 0 THEN backend[c] ELSE 1
      BY DEF TypeOK
    <3>3. Enqueue(c, size, threads) /\ cpc[c] = "open" BY <3>1, <3>2 DEF EnqueueOp
    <3>4. threads > 1 BY <3>2, <3>3 DEF Enqueue
    <3>5. threadOpen[c] > 0 /\ backend[c] = threads BY <3>2, <3>4
    <3>6. threads = threadNumber[c] BY <3>3, <3>4, <3>5 DEF CoverInv
    <3> QED BY <3>3, <3>5, <3>6, ConstantsAssumption DEF TypeOK
  <2> QED BY <2>1, <2>2
<1>2. PICK parts \in Int : parts = ALIMIN(size, threads) /\ parts <= threads
  BY <1>1 DEF ALIMIN
<1>3. /\ UNCHANGED <<threadNumber, threadOpen, backend, binding>>
      /\ \A d \in Clients : d # c => cpc'[d] = cpc[d] /\ job'[d] = job[d]
      /\ job'[c].parts = parts
  BY <1>1, <1>2 DEF Enqueue, rtVars, TypeOK
<1>4. parts <= threadNumber[c] BY <1>1, <1>2 DEF TypeOK
<1> QED BY <1>1, <1>3, <1>4 DEF CoverInv, InJob

(* Within a task nothing of the bracket changes, outside it need not cover. *)
LEMMA CoverBracket ==
  ASSUME TypeOK, CoverInv, NEW c \in Clients,
         \/ Begin(c) \/ End(c) \/ EarlyReturn(c) \/ Notify(c) \/ SetFlag(c) \/ RunOwn(c)
         \/ Poll(c) \/ EndBinding(c) \/ SkipBinding(c) \/ StartBinding(c)
  PROVE  CoverInv'
<1>1. UNCHANGED <<threadNumber, backend>>
  BY DEF Begin, End, EarlyReturn, Notify, SetFlag, RunOwn, Poll, EndBinding, SkipBinding,
         StartBinding, rtVars
<1>2. \A d \in Clients : d # c => /\ cpc'[d] = cpc[d] /\ job'[d] = job[d]
                                  /\ threadOpen'[d] = threadOpen[d]
                                  /\ (binding'[d] <=> binding[d])
  BY DEF Begin, End, EarlyReturn, Notify, SetFlag, RunOwn, Poll, EndBinding, SkipBinding,
         StartBinding, rtVars, jobVars, TypeOK
<1>3. cpc[c] # "reset"
  BY DEF Begin, End, EarlyReturn, Notify, SetFlag, RunOwn, Poll, EndBinding, SkipBinding,
         StartBinding
<1>4. InJob(c)' => /\ InJob(c) /\ job'[c] = job[c] /\ threadOpen'[c] = threadOpen[c]
                   /\ (binding'[c] <=> binding[c])
  <2>1. CASE SetFlag(c) \/ RunOwn(c) \/ Poll(c)
    BY <2>1 DEF SetFlag, RunOwn, Poll, InJob, rtVars, TypeOK
  <2>2. CASE ~ (SetFlag(c) \/ RunOwn(c) \/ Poll(c))
    BY <2>2 DEF Begin, End, EarlyReturn, Notify, EndBinding, SkipBinding, StartBinding,
                InJob, TypeOK
  <2> QED BY <2>1, <2>2
<1> QED BY <1>1, <1>2, <1>3, <1>4 DEF CoverInv, InJob

LEMMA CoverNext ==
  KeepBackends = FALSE /\ TypeOK /\ BracketInv /\ CoverInv /\ [Next]_vars => CoverInv'
<1> SUFFICES ASSUME KeepBackends = FALSE, TypeOK, BracketInv, CoverInv, [Next]_vars
             PROVE  CoverInv'
  OBVIOUS
<1>1. ASSUME NEW c \in Clients, Client(c) PROVE CoverInv'
  BY <1>1, CoverLife, CoverEnqueue, CoverBracket DEF Client, Finish
<1>2. CASE ~ \E c \in Clients : Client(c)
  <2>1. UNCHANGED <<cpc, threadNumber, threadOpen, backend, binding, job>>
    BY <1>2 DEF Next, Worker, WorkerTop, WorkerBusy, WorkerScan, WorkerRun, WorkerClear,
                WorkerWait, SpuriousWake, Stop, NotifyStop, Join, vars, rtVars, jobVars
  <2> QED BY <2>1 DEF CoverInv, InJob
<1> QED BY <1>1, <1>2

(* Who helps with a task that is under way is counted by its bracket. *)
LEMMA HelpersActive ==
  ASSUME TypeOK, BalanceInv, CoverInv, BoundsInv, WakeInv,
         NEW c \in Clients, InJob(c), NEW w \in 1 .. job[c].parts - 1
  PROVE  activeCount[w] > 0 /\ wpc[w] \notin {"none", "exited"}
<1>1. /\ job[c].parts \in Nat /\ threadNumber[c] \in 1 .. MaxThreads /\ poolSize \in Nat
      /\ job[c].parts <= threadNumber[c] /\ (binding[c] \/ threadOpen[c] > 0)
      /\ cpc[c] # "reset" /\ job[c].parts <= poolSize
  BY DEF TypeOK, CoverInv, BoundsInv, InJob
<1>2. w \in Workers /\ w < threadNumber[c] /\ w < poolSize /\ pool = "up"
  BY <1>1, ConstantsAssumption DEF Workers, BoundsInv
<1>3. PICK S, T : S = OpenFor(w) /\ T = BoundFor(w) OBVIOUS
<1>4. IsFiniteSet(S) /\ IsFiniteSet(T) /\ activeCount[w] = Cardinality(S) + Cardinality(T)
  BY <1>2, <1>3 DEF BalanceInv
<1>5. Cardinality(S) \in Nat /\ Cardinality(T) \in Nat BY <1>4, FS_CardinalityType
<1>6. c \in S \/ c \in T BY <1>1, <1>2, <1>3 DEF OpenFor, BoundFor
<1>7. Cardinality(S) # 0 \/ Cardinality(T) # 0 BY <1>4, <1>6, FS_EmptySet
<1> QED BY <1>2, <1>4, <1>5, <1>7 DEF WakeInv

-----------------------------------------------------------------------------
(* No wake-up is lost: a worker that is active and sleeps will be notified *)
(* by the thread that made it active, and one that sleeps when the pool is *)
(* destroyed by the thread that destroys it (ThreadPool::active, destroy), *)
(* also when brackets are leaked and backends outlive resets.              *)
THEOREM NoWakeUpLost == Spec => []WakeInv
<1> QED BY WakeInit, WakeNext, TypeCorrect, PTL DEF Spec

(* Every worker is kept active once by each open bracket and each binding  *)
(* that counts on it (ThreadPool::active, deactive), so that it sleeps     *)
(* only when nobody needs it, or is about to be woken, and the helpers of  *)
(* a task are awake unless a backend outlived a reset, for any number of   *)
(* runtimes, threads and levels of nesting, unless ComputeCache::compute   *)
(* leaves a bracket by an error.                                           *)
THEOREM AlwaysBalanced == ASSUME MaxLeak = 0 PROVE Spec => []ActiveBalanced
<1> DEFINE Inv == BracketInv /\ BalanceInv /\ (KeepBackends = FALSE => CoverInv)
<1>1. Init => Inv BY BracketInit, BalanceInit, CoverInit
<1>2. TypeOK /\ SlotInv /\ BoundsInv /\ Inv /\ [Next]_vars => Inv'
  BY BracketNext, BalanceNext, CoverNext
<1>3. TypeOK /\ BoundsInv /\ WakeInv /\ Inv => ActiveBalanced
  <2> SUFFICES ASSUME TypeOK, BoundsInv, WakeInv, Inv PROVE ActiveBalanced OBVIOUS
  <2>1. \A w \in Workers :
          /\ activeCount[w] =
               Cardinality({c \in Clients : threadOpen[c] > 0 /\ w < threadNumber[c]})
               + Cardinality({c \in Clients : binding[c] /\ w < threadNumber[c]})
          /\ wpc[w] = "asleep" /\ activeCount[w] > 0
             => \E c \in Clients : cpc[c] = "notify"
    BY DEF BalanceInv, OpenFor, BoundFor, WakeInv
  <2>2. ~ KeepBackends => \A c \in Clients : InJob(c) =>
          \A w \in 1 .. job[c].parts - 1 :
            activeCount[w] > 0 /\ wpc[w] \notin {"none", "exited"}
    BY HelpersActive, ConstantsAssumption
  <2> QED BY <2>1, <2>2 DEF ActiveBalanced
<1> QED
  BY <1>1, <1>2, <1>3, NoWakeUpLost, TypeCorrect, SlotInvariance, BoundsInvariance, PTL
     DEF Spec
=============================================================================
