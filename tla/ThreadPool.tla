----------------------------- MODULE ThreadPool -----------------------------
(***************************************************************************)
(* The CPU backend's thread pool (source/backend/cpu/ThreadPool.cpp) with  *)
(* the CPURuntimes that use it (source/backend/cpu/CPUBackend.cpp).        *)
(*                                                                         *)
(* A runtime (a client) owns at most one of the pool's task slots.  Inside *)
(* a concurrency bracket it publishes a task in its slot, raises one flag  *)
(* per helping worker, runs its own share and spins until every flag is    *)
(* down.  Workers of the pool serve every slot, spin while some bracket    *)
(* keeps them active, and sleep on a condition variable otherwise.         *)
(*                                                                         *)
(* One runtime is driven by one thread at a time (docs/inference/          *)
(* module.md:8); different runtimes run concurrently.  Atomics are         *)
(* sequentially consistent; a critical section of mQueueMutex is a step.   *)
(***************************************************************************)
EXTENDS Integers, FiniteSets

CONSTANTS
  Clients,       \* the CPURuntimes
  NoClient,      \* owner of a slot whose function was never assigned
  MaxThreads,    \* MAX_THREAD_NUMBER
  MaxTasks,      \* MNN_THREAD_POOL_MAX_TASKS
  CpuNumber,     \* cores MNNGetCPUInfo reports, 0 when it cannot tell
  Requests,      \* thread numbers users ask for
  MaxWork,       \* bound: largest task.second
  MaxOpen,       \* bound: nesting of concurrency brackets
  KeepBackends,  \* may a CPUBackend outlive a reset of its runtime?
  MaxLeak        \* bound: ComputeCache::compute returns between Begin and End
                 \* only while no active count exceeds it

ASSUME ConstantsAssumption ==
  /\ NoClient \notin Clients
  /\ MaxThreads \in Nat \ {0}
  /\ MaxTasks \in Nat \ {0}
  /\ CpuNumber \in Nat
  /\ Requests \subseteq Int
  /\ MaxWork \in Nat /\ MaxWork >= MaxThreads
  /\ MaxOpen \in Nat \ {0}
  /\ KeepBackends \in BOOLEAN
  /\ MaxLeak \in Nat

Slots   == 0 .. MaxTasks - 1
Threads == 0 .. MaxThreads - 1
Workers == 1 .. MaxThreads - 1
Items   == 0 .. MaxWork - 1

ALIMIN(a, b) == IF a < b THEN a ELSE b
ClampNoCeiling(n) == IF n < 1 THEN 1 ELSE n
Clamp(n)     == ALIMIN(IF n < 1 THEN 1 ELSE n, MaxThreads)

VARIABLES
  pool,          \* gInstance: "none", "up"; or in its destructor: "stopped", "joining"
  poolSize,      \* mNumberThread
  taskAvailable, \* mTaskAvailable
  activeCount,   \* mActiveCount
  flag,          \* mTasks[s].second
  task,          \* mTasks[s].first
  wpc, wslot,    \* each worker: where it is, the slot it looks at
  cpc,           \* each client: where it is
  threadNumber,  \* CPURuntime::mThreadNumber
  taskIndex,     \* CPURuntime::mTaskIndex
  threadOpen,    \* CPURuntime::mThreadOpen
  backend,       \* CPUBackend::mThreadNumber of the client's backend, 0: none
  depth,         \* brackets the client's thread is inside of
  binding,       \* is the client in _bindCPUCore's own bracket?
  job,           \* the enqueue call under way: its size and its participants
  cnext,         \* its loop counter
  runs           \* history: how often each item of that call was executed

poolVars   == <<pool, poolSize, taskAvailable>>
workerVars == <<wpc, wslot>>
rtVars     == <<threadNumber, taskIndex, threadOpen, backend, depth>>
jobVars    == <<job, cnext, runs>>
vars == <<poolVars, activeCount, flag, task, workerVars, cpc, rtVars, binding,
          jobVars>>

InJob(c)      == cpc[c] \in {"flag", "own", "poll"}
Holds(c, s)   == cpc[c] # "reset" /\ taskIndex[c] = s
NoRuns        == [v \in Items |-> 0]
NoJob         == [size |-> 0, parts |-> 0]

Init ==
  /\ pool = "none"
  /\ poolSize = 0
  /\ taskAvailable = [s \in Slots |-> TRUE]
  /\ activeCount = [t \in Threads |-> 0]
  /\ flag = [s \in Slots |-> [t \in Threads |-> FALSE]]
  /\ task = [s \in Slots |-> [owner |-> NoClient, size |-> 0, parts |-> 0]]
  /\ wpc = [w \in Workers |-> "none"]
  /\ wslot = [w \in Workers |-> 0]
  /\ cpc = [c \in Clients |-> "gone"]
  /\ threadNumber = [c \in Clients |-> 1]
  /\ taskIndex = [c \in Clients |-> -1]
  /\ threadOpen = [c \in Clients |-> 0]
  /\ backend = [c \in Clients |-> 0]
  /\ depth = [c \in Clients |-> 0]
  /\ binding = [c \in Clients |-> FALSE]
  /\ job = [c \in Clients |-> NoJob]
  /\ cnext = [c \in Clients |-> 1]
  /\ runs = [c \in Clients |-> NoRuns]

-----------------------------------------------------------------------------
(* The strided share of participant p: v = p; v < size; v += parts.        *)
Participant(v, parts)  == v % parts
ShareNoStride(size, parts, p) == {v \in Items : v < size /\ v = p}
Share(size, parts, p)  == {v \in Items : v < size /\ Participant(v, parts) = p}

(* Participant p of the task x executes its share. *)
RunShare(x, p) ==
  runs' = [runs EXCEPT ![x.owner] =
             [v \in Items |-> IF v \in Share(x.size, x.parts, p)
                                THEN runs[x.owner][v] + 1
                                ELSE runs[x.owner][v]]]

-----------------------------------------------------------------------------
(* The pool's workers. *)

(* while (!mStop) *)
WorkerTop(w) ==
  /\ wpc[w] = "top"
  /\ wpc' = [wpc EXCEPT ![w] = IF pool = "up" THEN "busy" ELSE "exited"]
  /\ UNCHANGED <<poolVars, activeCount, flag, task, wslot, cpc, rtVars,
                 binding, jobVars>>

(* while (mActiveCount[threadIndex] > 0) *)
WorkerBusy(w) ==
  /\ wpc[w] = "busy"
  /\ wpc' = [wpc EXCEPT ![w] = IF activeCount[w] > 0 THEN "scan" ELSE "lock"]
  /\ wslot' = [wslot EXCEPT ![w] = 0]
  /\ UNCHANGED <<poolVars, activeCount, flag, task, cpc, rtVars, binding,
                 jobVars>>

NextSlot(w) ==
  IF wslot[w] + 1 < MaxTasks
    THEN /\ wpc' = [wpc EXCEPT ![w] = "scan"]
         /\ wslot' = [wslot EXCEPT ![w] = wslot[w] + 1]
    ELSE /\ wpc' = [wpc EXCEPT ![w] = "busy"]
         /\ wslot' = [wslot EXCEPT ![w] = 0]

WorkerScan(w) ==
  /\ wpc[w] = "scan"
  /\ IF flag[wslot[w]][w]
       THEN wpc' = [wpc EXCEPT ![w] = "run"] /\ UNCHANGED wslot
       ELSE NextSlot(w)
  /\ UNCHANGED <<poolVars, activeCount, flag, task, cpc, rtVars, binding,
                 jobVars>>

(* mTasks[i].first.first(threadIndex) *)
WorkerRun(w) ==
  /\ wpc[w] = "run"
  /\ RunShare(task[wslot[w]], w)
  /\ wpc' = [wpc EXCEPT ![w] = "clear"]
  /\ UNCHANGED <<poolVars, activeCount, flag, task, wslot, cpc, rtVars,
                 binding, job, cnext>>

WorkerClear(w) ==
  /\ wpc[w] = "clear"
  /\ flag' = [flag EXCEPT ![wslot[w]][w] = FALSE]
  /\ NextSlot(w)
  /\ UNCHANGED <<poolVars, activeCount, task, cpc, rtVars, binding, jobVars>>

WorkerWaitNoPredicate(w) ==
  /\ wpc[w] = "lock"
  /\ wpc' = [wpc EXCEPT ![w] = IF pool # "up" THEN "top" ELSE "asleep"]
  /\ UNCHANGED <<poolVars, activeCount, flag, task, wslot, cpc, rtVars,
                 binding, jobVars>>

WorkerWaitNoStop(w) ==
  /\ wpc[w] = "lock"
  /\ wpc' = [wpc EXCEPT ![w] = IF activeCount[w] > 0 THEN "top" ELSE "asleep"]
  /\ UNCHANGED <<poolVars, activeCount, flag, task, wslot, cpc, rtVars,
                 binding, jobVars>>

(* With mQueueMutex held, mCondition.wait evaluates its predicate and      *)
(* either lets the worker go or puts it to sleep.                          *)
WorkerWait(w) ==
  /\ wpc[w] = "lock"
  /\ wpc' = [wpc EXCEPT ![w] = IF pool # "up" \/ activeCount[w] > 0
                                 THEN "top" ELSE "asleep"]
  /\ UNCHANGED <<poolVars, activeCount, flag, task, wslot, cpc, rtVars,
                 binding, jobVars>>

(* A condition variable may wake a thread that nobody notified. *)
SpuriousWake(w) ==
  /\ wpc[w] = "asleep"
  /\ wpc' = [wpc EXCEPT ![w] = "lock"]
  /\ UNCHANGED <<poolVars, activeCount, flag, task, wslot, cpc, rtVars,
                 binding, jobVars>>

Worker(w) ==
  \/ WorkerTop(w) \/ WorkerBusy(w) \/ WorkerScan(w)
  \/ WorkerRun(w) \/ WorkerClear(w) \/ WorkerWait(w)

NotifyAll == wpc' = [w \in Workers |-> IF wpc[w] = "asleep" THEN "lock" ELSE wpc[w]]

-----------------------------------------------------------------------------
(* ThreadPool::active and deactive: no effect without a pool.              *)
Active(n) ==
  activeCount' = [t \in Threads |-> IF t < n /\ pool # "none"
                                      THEN activeCount[t] + 1 ELSE activeCount[t]]
Deactive(n) ==
  activeCount' = [t \in Threads |-> IF t < n /\ pool # "none"
                                      THEN activeCount[t] - 1 ELSE activeCount[t]]

ReleaseButFirst(s) ==
  taskAvailable' = [u \in Slots |-> (u = s /\ s > 0 /\ pool # "none")
                                      \/ taskAvailable[u]]

(* ThreadPool::releaseWorkIndex: no effect on an index out of range.       *)
ReleaseWorkIndex(s) ==
  taskAvailable' = [u \in Slots |-> (u = s /\ pool # "none") \/ taskAvailable[u]]

-----------------------------------------------------------------------------
(* A runtime's life: created or reset, in the two halves of                *)
(* _resetThreadPool, and destroyed.                                        *)

Reset(c, n) ==
  /\ cpc[c] \in {"gone", "idle"}
  /\ ReleaseWorkIndex(taskIndex[c])
  /\ threadNumber' = [threadNumber EXCEPT ![c] = Clamp(n)]
  /\ cpc' = [cpc EXCEPT ![c] = "reset"]
  /\ UNCHANGED <<pool, poolSize, activeCount, flag, task, workerVars,
                 taskIndex, threadOpen, backend, depth, binding, jobVars>>

(* The pool has as many threads as there are cores, or as the first        *)
(* request asks for when the number of cores is unknown.                   *)
SystemThreadNumber(n) == IF CpuNumber = 0 THEN n ELSE CpuNumber

InitResultUnclamped(n) == IF n <= 1 THEN 1 ELSE n

(* ThreadPool::init: what it returns, and the pool it leaves. *)
InitResult(n) ==
  IF n <= 1 THEN 1
  ELSE IF pool = "up" /\ poolSize < n THEN poolSize ELSE n

InitPool(n) ==
  IF n > 1 /\ pool = "none"
    THEN /\ pool' = "up"
         /\ poolSize' = n
         /\ wpc' = [w \in Workers |-> IF w < n THEN "top" ELSE "none"]
    ELSE UNCHANGED <<pool, poolSize, wpc>>

(* ThreadPool::acquireWorkIndex takes the first free slot, if any. *)
FirstFree(s) == taskAvailable[s] /\ \A u \in Slots : u < s => ~ taskAvailable[u]

TakeSlot(c, m) ==
  \E s \in Slots :
    /\ FirstFree(s)
    /\ taskIndex' = [taskIndex EXCEPT ![c] = s]
    /\ taskAvailable' = [taskAvailable EXCEPT ![s] = FALSE]
    /\ threadNumber' = [threadNumber EXCEPT ![c] = m]

NoSlot(c) ==
  /\ taskIndex' = [taskIndex EXCEPT ![c] = -1]
  /\ threadNumber' = [threadNumber EXCEPT ![c] = 1]
  /\ UNCHANGED taskAvailable

(* The thread number _resetThreadPool settles on, before it gets a slot.   *)
Granted(n) == IF n > 1 THEN ALIMIN(InitResult(SystemThreadNumber(n)), n) ELSE n

Acquire(c) ==
  LET n == threadNumber[c] IN
  /\ cpc[c] = "reset"
  /\ n > 1 => pool \in {"none", "up"}     \* gInitMutex is held by destroy
  /\ InitPool(IF n > 1 THEN SystemThreadNumber(n) ELSE n)
  /\ \/ Granted(n) > 1 /\ TakeSlot(c, Granted(n))
     \/ Granted(n) > 1 /\ (\A s \in Slots : ~ taskAvailable[s]) /\ NoSlot(c)
     \/ Granted(n) <= 1 /\ NoSlot(c)
  /\ backend' = [backend EXCEPT ![c] = IF KeepBackends THEN @ ELSE 0]
  /\ cpc' = [cpc EXCEPT ![c] = "idle"]
  /\ UNCHANGED <<activeCount, flag, task, wslot, threadOpen, depth, binding,
                 jobVars>>

(* CPUBackend's constructor copies the runtime's thread number. *)
NewBackend(c) ==
  /\ cpc[c] = "idle"
  /\ backend[c] # threadNumber[c]
  /\ backend' = [backend EXCEPT ![c] = threadNumber[c]]
  /\ UNCHANGED <<poolVars, activeCount, flag, task, workerVars, cpc,
                 threadNumber, taskIndex, threadOpen, depth, binding, jobVars>>

(* ~CPURuntime, after the backends that point to it. *)
Delete(c) ==
  /\ cpc[c] = "idle"
  /\ ReleaseWorkIndex(taskIndex[c])
  /\ cpc' = [cpc EXCEPT ![c] = "gone"]
  /\ threadNumber' = [threadNumber EXCEPT ![c] = 1]
  /\ taskIndex' = [taskIndex EXCEPT ![c] = -1]
  /\ threadOpen' = [threadOpen EXCEPT ![c] = 0]
  /\ backend' = [backend EXCEPT ![c] = 0]
  /\ UNCHANGED <<pool, poolSize, activeCount, flag, task, workerVars, depth,
                 binding, jobVars>>

-----------------------------------------------------------------------------
(* A concurrency bracket. *)

(* onConcurrencyBegin up to the notify_all of active. *)
Begin(c) ==
  /\ cpc[c] \in {"idle", "open"}
  /\ backend[c] # 0
  /\ threadOpen[c] < MaxOpen /\ depth[c] < MaxOpen
  /\ depth' = [depth EXCEPT ![c] = @ + 1]
  /\ IF taskIndex[c] >= 0
       THEN /\ threadOpen' = [threadOpen EXCEPT ![c] = @ + 1]
            /\ IF threadOpen[c] = 0
                 THEN /\ Active(threadNumber[c])
                      /\ cpc' = [cpc EXCEPT ![c] = "notify"]
                 ELSE /\ UNCHANGED activeCount
                      /\ cpc' = [cpc EXCEPT ![c] = "bind"]
       ELSE /\ UNCHANGED <<threadOpen, activeCount>>
            /\ cpc' = [cpc EXCEPT ![c] = "bind"]
  /\ UNCHANGED <<poolVars, flag, task, workerVars, threadNumber, taskIndex,
                 backend, binding, jobVars>>

(* mCondition.notify_all() of active, called by Begin or by the binding.   *)
Notify(c) ==
  /\ cpc[c] = "notify"
  /\ IF pool = "none" THEN UNCHANGED wpc ELSE NotifyAll
  /\ cpc' = [cpc EXCEPT ![c] = IF binding[c] THEN "bound" ELSE "bind"]
  /\ UNCHANGED <<poolVars, activeCount, flag, task, wslot, rtVars, binding,
                 jobVars>>

(* _bindCPUCore returns at once (Power_Normal, or the same thread as last  *)
(* time) or opens a bracket of its own to pin every thread.                *)
SkipBinding(c) ==
  /\ cpc[c] = "bind"
  /\ cpc' = [cpc EXCEPT ![c] = "open"]
  /\ UNCHANGED <<poolVars, activeCount, flag, task, workerVars, rtVars,
                 binding, jobVars>>

StartBinding(c) ==
  /\ cpc[c] = "bind"
  /\ Active(threadNumber[c])
  /\ binding' = [binding EXCEPT ![c] = TRUE]
  /\ cpc' = [cpc EXCEPT ![c] = "notify"]
  /\ UNCHANGED <<poolVars, flag, task, workerVars, rtVars, jobVars>>

(* ThreadPool::enqueue of size items.  A call that cannot use the pool     *)
(* runs every item in the caller's loop: nothing shared changes.           *)
Enqueue(c, size, threads) ==
  /\ ~ (size <= 1 \/ taskIndex[c] < 0 \/ threads <= 1)
  /\ LET parts == ALIMIN(size, threads) IN
     /\ job' = [job EXCEPT ![c] = [size |-> size, parts |-> parts]]
     /\ task' = [task EXCEPT ![taskIndex[c]] =
                   [owner |-> c, size |-> size, parts |-> parts]]
  /\ cnext' = [cnext EXCEPT ![c] = 1]
  /\ cpc' = [cpc EXCEPT ![c] = "flag"]
  /\ UNCHANGED <<poolVars, activeCount, flag, workerVars, rtVars, binding, runs>>

(* MNN_CONCURRENCY_END: an operator of the backend's threads. *)
EnqueueOp(c, size) ==
  /\ cpc[c] = "open"
  /\ Enqueue(c, size, IF threadOpen[c] > 0 THEN backend[c] ELSE 1)

EnqueueBinding(c) ==
  /\ cpc[c] = "bound"
  /\ Enqueue(c, threadNumber[c], threadNumber[c])

(* mTasks[index].second[i] = true *)
SetFlag(c) ==
  /\ cpc[c] = "flag"
  /\ flag' = [flag EXCEPT ![taskIndex[c]][cnext[c]] = TRUE]
  /\ IF cnext[c] + 1 < job[c].parts
       THEN cnext' = [cnext EXCEPT ![c] = @ + 1] /\ UNCHANGED cpc
       ELSE cpc' = [cpc EXCEPT ![c] = "own"] /\ UNCHANGED cnext
  /\ UNCHANGED <<poolVars, activeCount, task, workerVars, rtVars, binding, job,
                 runs>>

(* mTasks[index].first.first(0) *)
RunOwn(c) ==
  /\ cpc[c] = "own"
  /\ RunShare(task[taskIndex[c]], 0)
  /\ cnext' = [cnext EXCEPT ![c] = 1]
  /\ cpc' = [cpc EXCEPT ![c] = "poll"]
  /\ UNCHANGED <<poolVars, activeCount, flag, task, workerVars, rtVars, binding,
                 job>>

(* A spin whose pass ignores all flags but the last one it looks at. *)
PollLastOnly(c) ==
  /\ cpc[c] = "poll"
  /\ IF cnext[c] + 1 < job[c].parts
       THEN cnext' = [cnext EXCEPT ![c] = @ + 1] /\ UNCHANGED <<cpc, job, runs>>
       ELSE IF flag[taskIndex[c]][cnext[c]]
         THEN cnext' = [cnext EXCEPT ![c] = 1] /\ UNCHANGED <<cpc, job, runs>>
         ELSE /\ cnext' = [cnext EXCEPT ![c] = 1]
              /\ cpc' = [cpc EXCEPT ![c] = IF binding[c] THEN "unbind" ELSE "open"]
              /\ job' = [job EXCEPT ![c] = NoJob]
              /\ runs' = [runs EXCEPT ![c] = NoRuns]
  /\ UNCHANGED <<poolVars, activeCount, flag, task, workerVars, rtVars, binding>>

(* The spin: from the first flag again after one that is still up.  The    *)
(* call returns when a pass finds every flag down.                         *)
Poll(c) ==
  /\ cpc[c] = "poll"
  /\ IF flag[taskIndex[c]][cnext[c]]
       THEN cnext' = [cnext EXCEPT ![c] = 1] /\ UNCHANGED <<cpc, job, runs>>
       ELSE IF cnext[c] + 1 < job[c].parts
         THEN cnext' = [cnext EXCEPT ![c] = @ + 1] /\ UNCHANGED <<cpc, job, runs>>
         ELSE /\ cnext' = [cnext EXCEPT ![c] = 1]
              /\ cpc' = [cpc EXCEPT ![c] = IF binding[c] THEN "unbind" ELSE "open"]
              /\ job' = [job EXCEPT ![c] = NoJob]
              /\ runs' = [runs EXCEPT ![c] = NoRuns]
  /\ UNCHANGED <<poolVars, activeCount, flag, task, workerVars, rtVars, binding>>

(* A binding that is never taken back. *)
EndBindingNoDeactive(c) ==
  /\ \/ cpc[c] = "unbind"
     \/ cpc[c] = "bound" /\ (taskIndex[c] < 0 \/ threadNumber[c] <= 1)
  /\ binding' = [binding EXCEPT ![c] = FALSE]
  /\ cpc' = [cpc EXCEPT ![c] = "open"]
  /\ UNCHANGED <<poolVars, activeCount, flag, task, workerVars, rtVars, jobVars>>

(* The deactive of _bindCPUCore, after its parallel or its inline enqueue. *)
EndBinding(c) ==
  /\ \/ cpc[c] = "unbind"
     \/ cpc[c] = "bound" /\ (taskIndex[c] < 0 \/ threadNumber[c] <= 1)
  /\ Deactive(threadNumber[c])
  /\ binding' = [binding EXCEPT ![c] = FALSE]
  /\ cpc' = [cpc EXCEPT ![c] = "open"]
  /\ UNCHANGED <<poolVars, flag, task, workerVars, rtVars, jobVars>>

(* An onConcurrencyEnd that deactivates at every level of nesting. *)
EndEachLevel(c) ==
  /\ cpc[c] = "open"
  /\ depth' = [depth EXCEPT ![c] = @ - 1]
  /\ cpc' = [cpc EXCEPT ![c] = IF depth[c] = 1 THEN "idle" ELSE "open"]
  /\ IF taskIndex[c] >= 0
       THEN /\ threadOpen' = [threadOpen EXCEPT ![c] = IF @ > 0 THEN @ - 1 ELSE 0]
            /\ Deactive(threadNumber[c])
       ELSE UNCHANGED <<threadOpen, activeCount>>
  /\ UNCHANGED <<poolVars, flag, task, workerVars, threadNumber, taskIndex,
                 backend, binding, jobVars>>

(* onConcurrencyEnd *)
End(c) ==
  /\ cpc[c] = "open"
  /\ depth' = [depth EXCEPT ![c] = @ - 1]
  /\ cpc' = [cpc EXCEPT ![c] = IF depth[c] = 1 THEN "idle" ELSE "open"]
  /\ IF taskIndex[c] >= 0
       THEN /\ threadOpen' = [threadOpen EXCEPT ![c] = IF @ > 0 THEN @ - 1 ELSE 0]
            /\ IF threadOpen[c] <= 1 THEN Deactive(threadNumber[c])
                                     ELSE UNCHANGED activeCount
       ELSE UNCHANGED <<threadOpen, activeCount>>
  /\ UNCHANGED <<poolVars, flag, task, workerVars, threadNumber, taskIndex,
                 backend, binding, jobVars>>

(* An error return of ComputeCache::compute: it leaves the bracket it      *)
(* opened without the matching onConcurrencyEnd.                           *)
EarlyReturn(c) ==
  /\ \A t \in Threads : activeCount[t] <= MaxLeak
  /\ cpc[c] = "open"
  /\ depth' = [depth EXCEPT ![c] = @ - 1]
  /\ cpc' = [cpc EXCEPT ![c] = IF depth[c] = 1 THEN "idle" ELSE "open"]
  /\ UNCHANGED <<poolVars, activeCount, flag, task, workerVars, threadNumber,
                 taskIndex, threadOpen, backend, binding, jobVars>>

-----------------------------------------------------------------------------
(* ThreadPool::destroy, once no runtime is left: stop, notify, join.       *)
Stop ==
  /\ pool = "up"
  /\ \A c \in Clients : cpc[c] = "gone"
  /\ pool' = "stopped"
  /\ UNCHANGED <<poolSize, taskAvailable, activeCount, flag, task, workerVars,
                 cpc, rtVars, binding, jobVars>>

NotifyStop ==
  /\ pool = "stopped"
  /\ pool' = "joining"
  /\ NotifyAll
  /\ UNCHANGED <<poolSize, taskAvailable, activeCount, flag, task, wslot, cpc,
                 rtVars, binding, jobVars>>

Join ==
  /\ pool = "joining"
  /\ \A w \in Workers : wpc[w] \in {"none", "exited"}
  /\ pool' = "none"
  /\ poolSize' = 0
  /\ taskAvailable' = [s \in Slots |-> TRUE]
  /\ activeCount' = [t \in Threads |-> 0]
  /\ flag' = [s \in Slots |-> [t \in Threads |-> FALSE]]
  /\ task' = [s \in Slots |-> [owner |-> NoClient, size |-> 0, parts |-> 0]]
  /\ wpc' = [w \in Workers |-> "none"]
  /\ wslot' = [w \in Workers |-> 0]
  /\ UNCHANGED <<cpc, rtVars, binding, jobVars>>

-----------------------------------------------------------------------------
Finish(c) ==
  \/ Notify(c) \/ SetFlag(c) \/ RunOwn(c) \/ Poll(c) \/ EndBinding(c)
  \/ EnqueueBinding(c) \/ SkipBinding(c) \/ StartBinding(c)

Client(c) ==
  \/ \E n \in Requests : Reset(c, n)
  \/ Acquire(c) \/ NewBackend(c) \/ Delete(c)
  \/ Begin(c) \/ End(c) \/ EarlyReturn(c)
  \/ \E size \in 2 .. MaxWork : EnqueueOp(c, size)
  \/ Finish(c)

Next ==
  \/ \E c \in Clients : Client(c)
  \/ \E w \in Workers : Worker(w) \/ SpuriousWake(w)
  \/ Stop \/ NotifyStop \/ Join

Spec == Init /\ [][Next]_vars

(* The operating system runs every thread; nothing forces a user to open   *)
(* a bracket, to enqueue or to close it.                                   *)
Fairness ==
  /\ \A w \in Workers : WF_vars(Worker(w))
  /\ \A c \in Clients : WF_vars(Finish(c)) /\ WF_vars(Acquire(c))
  /\ WF_vars(NotifyStop) /\ WF_vars(Join)

FairSpec == Spec /\ Fairness

-----------------------------------------------------------------------------
TaskType == [owner : Clients \cup {NoClient}, size : 0 .. MaxWork,
             parts : 0 .. MaxThreads]

WorkerPlaces == {"none", "top", "busy", "scan", "run", "clear", "lock", "asleep",
                 "exited"}
ClientPlaces == {"gone", "reset", "idle", "notify", "bind", "bound", "open",
                 "flag", "own", "poll", "unbind"}

(* Every variable has its type. *)
TypeOK ==
  /\ pool \in {"none", "up", "stopped", "joining"}
  /\ poolSize \in Nat
  /\ taskAvailable \in [Slots -> BOOLEAN]
  /\ activeCount \in [Threads -> Int]
  /\ flag \in [Slots -> [Threads -> BOOLEAN]]
  /\ task \in [Slots -> TaskType]
  /\ wpc \in [Workers -> WorkerPlaces]
  /\ wslot \in [Workers -> Slots]
  /\ cpc \in [Clients -> ClientPlaces]
  /\ threadNumber \in [Clients -> 1 .. MaxThreads]
  /\ taskIndex \in [Clients -> Slots \cup {-1}]
  /\ threadOpen \in [Clients -> Nat]
  /\ backend \in [Clients -> 0 .. MaxThreads]
  /\ depth \in [Clients -> Int]
  /\ binding \in [Clients -> BOOLEAN]
  /\ job \in [Clients -> [size : 0 .. MaxWork, parts : 0 .. MaxThreads]]
  /\ cnext \in [Clients -> Nat]
  /\ runs \in [Clients -> [Items -> Nat]]

-----------------------------------------------------------------------------
(* A slot is never shared and never lost: acquireWorkIndex,                *)
(* releaseWorkIndex and the resets of several runtimes, in any order, hand *)
(* a slot to one runtime at a time, mark it taken while it is held, and    *)
(* leave no slot taken that nobody holds.                                  *)
SlotExclusive ==
  /\ \A c, d \in Clients : \A s \in Slots : Holds(c, s) /\ Holds(d, s) => c = d
  /\ \A s \in Slots : taskAvailable[s] <=> ~ \E c \in Clients : Holds(c, s)

(* A task's flags and the active counts are indexed inside the pool's own  *)
(* vectors: no call uses more threads than the pool was created with.      *)
InBounds ==
  \A c \in Clients :
    /\ cpc[c] # "reset" /\ threadNumber[c] > 1 => threadNumber[c] <= poolSize
    /\ InJob(c) => job[c].parts <= poolSize

(* Every worker is kept active once by each open bracket and each binding  *)
(* that counts on it: active and deactive balance over all runtimes, and   *)
(* resets change no count that a later deactive will take down.  So nobody *)
(* waits in vain: the wake-up of a worker that is active and sleeps is     *)
(* still to come, and unless a backend outlives the reset of its runtime,  *)
(* the helpers of a task that is under way are there and active.           *)
ActiveBalanced ==
  /\ \A w \in Workers :
       activeCount[w] =
         Cardinality({c \in Clients : threadOpen[c] > 0 /\ w < threadNumber[c]})
         + Cardinality({c \in Clients : binding[c] /\ w < threadNumber[c]})
  /\ \A w \in Workers :
       wpc[w] = "asleep" /\ activeCount[w] > 0 => \E c \in Clients : cpc[c] = "notify"
  /\ ~ KeepBackends => \A c \in Clients : InJob(c) =>
       \A w \in 1 .. job[c].parts - 1 :
         activeCount[w] > 0 /\ wpc[w] \notin {"none", "exited"}

(* No enqueue replaces a slot's std::function while a worker is inside it. *)
TaskStable ==
  [][\A w \in Workers : wpc[w] \in {"run", "clear"} =>
       task'[wslot[w]] = task[wslot[w]]]_vars

(* What enqueue promises its caller: each item is executed exactly once    *)
(* between the call and the return (module ParallelFor).                   *)
PF == INSTANCE ParallelFor WITH size <- [c \in Clients |-> job[c].size],
                                times <- runs
ParallelForSpec == PF!Spec

(* Every enqueue returns to its caller. *)
EnqueueReturns == \A c \in Clients : InJob(c) ~> ~ InJob(c)

(* ThreadPool::destroy joins every worker, asleep or not when it began. *)
DestroyReturns == pool = "stopped" ~> pool = "none"

(* When no bracket is open any more the workers stop spinning. *)
AllIdle   == \A c \in Clients : cpc[c] \in {"gone", "idle"}
Spinning  == \E w \in Workers : wpc[w] \in {"busy", "scan", "run", "clear"}
WorkersRest == <>[]AllIdle => <>[]~Spinning

-----------------------------------------------------------------------------
(* The inductive invariant behind the safety properties. *)

(* A client inside enqueue owns the task of its slot. *)
JobInv ==
  \A c \in Clients :
    IF InJob(c)
      THEN /\ taskIndex[c] \in Slots
           /\ 2 <= job[c].parts /\ job[c].parts <= job[c].size
           /\ task[taskIndex[c]] = [owner |-> c, size |-> job[c].size,
                                    parts |-> job[c].parts]
           /\ cnext[c] \in 1 .. job[c].parts - 1
      ELSE job[c] = NoJob /\ runs[c] = NoRuns

(* A flag is up only for a participant of an enqueue under way that was    *)
(* already asked and that the caller has not yet seen done.                *)
FlagInv ==
  \A s \in Slots, t \in Threads : flag[s][t] =>
    LET c == task[s].owner IN
      /\ c \in Clients /\ InJob(c) /\ taskIndex[c] = s
      /\ t \in 1 .. job[c].parts - 1
      /\ cpc[c] = "flag" => t < cnext[c]
      /\ cpc[c] = "poll" => t >= cnext[c]

(* Inside a task, a worker's flag is up. *)
WorkerInv ==
  \A w \in Workers : wpc[w] \in {"run", "clear"} => flag[wslot[w]][w]

(* Has participant p of the client's task executed its share? *)
ShareDone(c, p) ==
  IF p = 0 THEN cpc[c] = "poll"
  ELSE /\ cpc[c] = "flag" => p < cnext[c]
       /\ flag[taskIndex[c]][p] => wpc[p] = "clear" /\ wslot[p] = taskIndex[c]

RunInv ==
  \A c \in Clients : InJob(c) => \A v \in Items :
    runs[c][v] = IF /\ v < job[c].size
                    /\ ShareDone(c, Participant(v, job[c].parts))
                   THEN 1 ELSE 0

(* Without a running pool, or before it is reset first, a runtime has no   *)
(* slot.                                                                   *)
PoolInv ==
  \A c \in Clients : pool # "up" \/ cpc[c] = "gone" => taskIndex[c] = -1

(* What is granted, to a runtime or to a backend that outlives its reset,  *)
(* was the running pool's to give, and nothing is left of it when the last *)
(* runtime is gone.                                                        *)
BoundsInv ==
  \A c \in Clients :
    /\ cpc[c] # "reset" /\ threadNumber[c] > 1 => pool = "up" /\ threadNumber[c] <= poolSize
    /\ backend[c] > 1 => pool = "up" /\ backend[c] <= poolSize
    /\ InJob(c) => job[c].parts <= poolSize
    /\ cpc[c] = "gone" => backend[c] = 0 /\ threadNumber[c] = 1

(* A client's brackets, unless one of them was left by an error: its       *)
(* thread's depth is the runtime's count, and a binding ends before the    *)
(* bracket that it prepares.                                               *)
BracketInv ==
  \A c \in Clients :
    /\ depth[c] \in Nat
    /\ cpc[c] \in {"gone", "reset", "idle"} <=> depth[c] = 0
    /\ threadOpen[c] = IF taskIndex[c] >= 0 THEN depth[c] ELSE 0
    /\ binding[c] => cpc[c] \in {"notify", "bound", "flag", "own", "poll", "unbind"}
    /\ cpc[c] \in {"bound", "unbind"} => binding[c]
    /\ taskIndex[c] >= 0 /\ cpc[c] # "reset" => threadNumber[c] > 1

(* Who sleeps was there when the pool was up, will be woken if it is asked *)
(* to stop, and is not needed or about to be woken.  The workers of a pool *)
(* that is up are there.                                                   *)
WakeInv ==
  \A w \in Workers :
    /\ wpc[w] = "asleep" => pool \in {"up", "stopped"}
    /\ wpc[w] = "asleep" /\ activeCount[w] > 0 => \E c \in Clients : cpc[c] = "notify"
    /\ pool = "up" /\ w < poolSize => wpc[w] \notin {"none", "exited"}

(* A bracket covers what is enqueued in it, unless backends outlive resets.*)
CoverInv ==
  \A c \in Clients :
    /\ cpc[c] # "reset" /\ backend[c] # 0 => backend[c] = threadNumber[c]
    /\ InJob(c) => job[c].parts <= threadNumber[c] /\ (binding[c] \/ threadOpen[c] > 0)

(* The clients whose brackets and bindings count on a worker.              *)
OpenFor(w)  == {c \in Clients : threadOpen[c] > 0 /\ w < threadNumber[c]}
BoundFor(w) == {c \in Clients : binding[c] /\ w < threadNumber[c]}
BalanceInv ==
  \A w \in Workers :
    /\ IsFiniteSet(OpenFor(w)) /\ IsFiniteSet(BoundFor(w))
    /\ activeCount[w] = Cardinality(OpenFor(w)) + Cardinality(BoundFor(w))

=============================================================================
