# Verification of MNN

MNN is an inference engine: an expression API and an interpreter build sessions out of a model,
a session plans memory and runs operators on a backend, and a language-model engine is built on
top, which the Android application MnnLlmChat uses.  This directory holds TLA+ models of the
parts whose correctness depends on the order in which things happen, the TLC runs that check
them, and theorems that TLAPS checks.  Paths are those of the repository, and below `src/`.

    tlc -workers 2 -config MCDynamicMemory.cfg MCDynamicMemory       (a run)
    tlapm ThreadPool_proofs.tla                                      (proofs; so for each *_proofs)

## 1. The system

### Inventory

| component | state it keeps | operations | module |
|---|---|---|---|
| CPU thread pool, `source/backend/cpu/ThreadPool.cpp`, and its use by `CPURuntime` | workers, task slots with a function and a flag per thread, active counts, stop flag; per runtime: thread number, slot, nesting of brackets | `init`, `destroy`, `acquireWorkIndex`, `releaseWorkIndex`, `active`, `deactive`, `enqueue`, the workers' loop; `_resetThreadPool`, `onConcurrencyBegin/End`, `_bindCPUCore` | `ThreadPool` |
| Deferred dynamic memory, `DeferBufferAllocator` in `source/core/BufferAllocator.cpp` | a doubly linked list of nodes, a free list, the frees that a barrier holds back | `alloc`, `free`, `barrierBegin/End`, `compute`, `reset` | `DeferAllocator` |
| Memory shared by sessions, `SingleBufferWithAllocator`, `CPUBackend`, `Pipeline` | two growing buffers per runtime; per session: plans, the pointer that they were applied to, tensors' pointers | resize, fix, execute, copy, map, garbage collection | `SharedBuffer` |
| Static memory, `EagerBufferAllocator` | a tree of split nodes with counts, used and free lists, groups | `alloc`, `free`, `release`, barriers and groups | `EagerAllocator` |
| KV cache of language models, `KVCacheManager`, `KVMeta`, `Llm` | entries, length and capacity, where the cache lives (memory or file); previous, remove, reserve | prompts, generation, `eraseHistory`, `reset`, `tuning`; `onAlloc`, `onRealloc`, `onClear`, `onPushBack` | `KVCache` |
| Lazy expressions, `express/Expr.cpp`, `Executor.cpp`, `Utils.cpp` | a graph with validity and dirty flags, and the sessions compiled for parts of it | `getInfo`, `readMap`, `writeMap`, `resize`, `input`, `prepareCompute`, `compute`, `fix` | `ExprGraph` |
| Lookahead decoding, `speculative_decoding/lookahead.cpp` | what a round of drafts leaves in the cache, the position of the next token | `speculativeGenerate` | `KVCache` |
| Mapped weight cache, `MmapAllocator`, with `use_cached_mmap` | files by number, a marker that they are complete, whether a process trusts them | `onAlloc`, `sync`, the filling of weights, the end of a session or process, `clearMmapCache` | `WeightCache`, `ModelStore` |
| MnnLlmChat: a chat, `LlmSession.kt`, `ChatPresenter.kt`, `llm_session.cpp` | fields and monitor of the session object, the native session, its history, rows of the database | load, prompt, stop, new chat, close, release, end of the process | `ChatSession` |
| MnnLlmChat: HTTP service, `RequestQueueManager.kt`, `MNNChatService.kt` | a channel, the request that runs, a mutex | submit, take and put back, run, statistics, clear | `RequestQueue`, `ChatApp` |
| MnnLlmChat: models on disk, `ModelDownloadManager.kt`, `ModelFileDownloader.kt` | partial files, blobs, links, the state shown | start, pause, the downloading thread, delete, restart | `ModelDownload`, `ModelStore` |
| `Interpreter`, `Session`, `Pipeline`, `Schedule` | mode, sessions, needs-resize flags, cache file | create, resize, run, update cache, release | `SharedBuffer` (life of a session; not the schedule and the cache file) |
| `WorkerThread` | queue, stop flag | `postTask`, destructor | its only use is compiled out |
| Executors and runtimes, modules, backends for accelerators, kernels, shape and geometry functions, tokenizers, converters, bindings, WeloAvatar | see `PROJECT.json` | | not modelled |

### How they interact

`ExprGraph`'s sessions, and those of `Interpreter`, run pipelines.  A pipeline that is resized
asks `DeferAllocator` for a plan (offsets), which `SharedBuffer` turns into pointers whenever a
session is used; weights come from `EagerAllocator`, whose parent may be a memory mapping.  The
operators of all sessions run on `ThreadPool`: `ComputeCache::compute` and `Pipeline::execute`
open a bracket around a run, each operator enqueues parallel loops.  The attention operator
keeps its entries in a `KVCache`, which the loop of `Llm` drives through a shared `KVMeta`.

MnnLlmChat keeps one session object per open chat.  The user interface, a loading, a generating,
a resetting and a cleaning coroutine and the processor of the HTTP queue meet in it (`ChatApp`
composes `ChatSession` and `RequestQueue`).  A chat is opened with a model that was downloaded;
loading it makes or finds the mapped weights, which are removed with the model (`ModelStore`
composes `ModelDownload` and `WeightCache`).

### What is hard, and what correct means

* *Thread pool.*  Several runtimes share lock-free counts and flags; waiting is split between
  spinning and a condition variable.  Correct: every item of an `enqueue` is executed exactly
  once before it returns (the closure lives on the caller's stack); a closure is not replaced
  while a worker runs it; a slot belongs to one runtime; every `enqueue` and the destruction
  return; workers do not spin for nobody.
* *Deferred memory.*  Splits, fusions and growth in any order on a linked list, with offsets
  assigned at the end.  Correct: whatever lives at the same time is apart, also the threads of
  a barrier, and planning succeeds.
* *Shared memory.*  Sessions of a runtime use the same two buffers one after the other, and
  each keeps pointers.  Correct: whenever a session is used, its tensors are in live memory at
  the planned place; what the user filled is where the operators look; no leak, no double free.
* *Static memory.*  Counts that are changed in four places and must match.  Correct: chunks are
  apart, no memory is lost, splits are undone, groups stay apart.
* *KV cache.*  Two sides compute the length separately; entries are moved in blocks, between
  memory and disk.  Correct: the cache is the conversation, the accounts agree.
* *Expressions.*  Caches behind caches with two kinds of dirtiness, cut off at what is dirty
  already.  Correct: what is read is what the expression means now.
* *Weight cache.*  Files are found by the order in which they are asked for, and whether they
  are complete is known only by a marker.  Correct: after any number of processes that died at
  any point, a loaded model computes with its own weights.
* *Chat.*  Loading does not take the monitor, clean-up waits for it, the HTTP service uses the
  same native session.  Correct: a native session is used by one thread at a time and never
  after it is deleted; a closed chat gives it back; the model remembers what the user sees.
* *HTTP queue.*  The size is found by taking a request out and sending it again.  Correct: no
  request is lost or doubled, and each gets an answer.
* *Download.*  A file is put together by several attempts of several processes.  Correct: what
  is shown as complete is complete, a blob is the whole file, and to its user a model comes and
  goes as a whole.

The hazards in `PROJECT.json` name the line at which each of these can go wrong.

## 2. The modules

Conventions.  A definition has the name of the function that it models where there is one.
Each call of a serial interface is one action, with everything it calls.  `ThreadPool` and the
modules of MnnLlmChat have smaller steps, one for each critical section and each access or file
operation that another thread or process can observe.
A call that changes several structures is written with an operator that takes them as a record
and returns them (`List`, `Memory`, `graph`), so that the sequence in the code is the nesting of
operators.  Variables marked *history* are only read by properties.  Right before some
definitions stands a mutated form of it (named for what it changes, such as `ShareNoStride`
before `Share`); no definition refers to it.  It is one mistake that the property listed with it
in `PROJECT.json` detects.  A module `M_proofs` has the theorems about `M`: `ThreadPool_proofs`,
`DeferAllocator_proofs`, `EagerAllocator_proofs`, `DynamicMemory_proofs`, `SharedBuffer_proofs`,
`KVCache_proofs`, `ChatApp_proofs` (session and queue) and `ModelStore_proofs` (download and
weight cache).  `MCM` has the constants of the runs of `M`.

### ThreadPool, ParallelFor

`Worker(w)` is the loop of a worker thread: `WorkerTop` (`while (!mStop)`), `WorkerBusy` (the
active count), `WorkerScan` (a flag), `WorkerRun`, `WorkerClear`, and `WorkerWait`, the
evaluation of the predicate under `mQueueMutex`.  `Client(c)` is a runtime with the thread that
drives it: `Reset`/`Acquire` are the two halves of `_resetThreadPool`, between which another
runtime may take the slot; `Begin`, `Notify`, `StartBinding`, `EnqueueBinding`, `EndBinding` and
`End` are the brackets; `EnqueueOp`, `SetFlag`, `RunOwn`, `Poll` are `enqueue`.  `EarlyReturn`
is an error return of `ComputeCache::compute`, which leaves its bracket open.  `Stop`,
`NotifyStop`, `Join` are the destructor.  `runs` counts executions.  `ParallelFor` is what
`enqueue` promises; `ParallelForSpec` says that `ThreadPool` implements it.

Atomics are taken as sequentially consistent: the code uses the default order of
`std::atomic`, except that `taskAvailable` and the runtime's members are guarded by a mutex or
by the rule that a runtime is driven by one thread at a time (`docs/inference/module.md:8`).

### DeferAllocator, EagerAllocator, DynamicMemory

Nodes are numbers, pointers are functions from nodes.  `alloc` has one action per way out
(reuse, split, growth of the last node, a new node), `free` one inside and one outside of a
barrier, `barrierEnd` replays what was held back, `compute` assigns offsets from the head and
applies children's relative ones.  Sizes are counted in units of the alignment, for `alloc`
rounds them up.  Among free nodes of one size any may be found first.

In `EagerAllocator` a node is identified by its block, place and depth.  `Taken` is the split of
a node, `Returned` the way up through `useCount`, with and without merging; groups have their
own free lists.  The parent allocator is external: it gives blocks that are apart.

`DynamicMemory` is `createDynamicBufferAlloctor`: a backend gets one or the other and keeps it.

### SharedBuffer

`heap` hands out addresses again, also the one that was just freed, since only a comparison of
pointers tells a session that the buffer moved.  The plan of a session is its total (the offsets
are `DeferAllocator`'s).  `host` says for each tensor which block it points into and whether the
plan that put it there is still in force.

The life of a session is in the same module, since what can go wrong in it shows in memory.
`ResizeTensor` gives the input another shape and sets `needResize`; `Resize` plans for that shape
and clears the flag; `ResizeFails` is a shape for which shapes can not be computed (`NoFit`),
where the plan is gone and the flag stays.  `sized` remembers the shape of the last resize that
succeeded, so that `AccessValid` also says that nothing runs on a plan for another shape.  A
shape stands for the size of the plan it asks for.  `Session_Resize_Fix` (`Fix`) does not set
the flag: until the next resize the session is `Loose`, and whether it is used then is
`RunAfterFix`.  The user fills inputs after the resize, as `resizeTensor` asks.  Left out:
`mNeedMalloc`, since on the CPU a resize that is asked for by it alone changes nothing, and
`releaseModel`, which only makes later resizes impossible.

### KVCache

An entry is the number of the token it was computed from.  `Forward` is what one forward pass
does in the cache (`onClear`/`onRealloc`, `onPushBack`) and in `KVMeta` (`sync`).  One layer
stands for all: they see the same `KVMeta` and hold the same number of entries.  `kept` is the
conversation as the user meant it, maintained without looking at the cache.

`Speculate(accepted, n)` is one round of lookahead: a pass over the current token and `n - 1`
drafts, of which all but the first `accepted` are given up.  Their entries stay until the next
pass removes them, but `all_seq_len` is reduced at once; `cut` is what the next pass has to
drop, and `PositionsFollow` relates the two lengths.  After an erasure the positions leave a gap
(`skipped`), since `eraseHistory` does not change `all_seq_len`.

Observed and not modelled, since no property depends on it: `speculativeGenerate` takes a token
off `history_tokens` and `output_tokens` on every call, the first of which may be empty after
`response(..., 0)`; the text of the answer lacks the accepted drafts, and `end_with` is printed
twice; `getCurrentHistory` counts rejected drafts.

### ExprGraph

Shapes and contents are symbolic: the content of an operator is the tuple of what it was
computed from, so that anything stale shows as a difference.  `RequireInfo` and `Read` are
`Expr::requireInfo` and `Variable::readInternal`, which call each other; `MakeCache` is
`Executor::_makeCache`; `Resized`, `Run`, `Computed` are `ComputeCache::resize`, `resizeImpl`
and `compute`; `Spread` and `Inform` are the two ways in which changes spread (`setInfoDirty`
with `visitOutputs`, `informDirty`).  `ShapeOf` and `DataOf` are the reference: what an
expression means, computed without any cache.  `Graphs` are the shapes of graph that the tests
in `test/expr` use.  The module has recursive operators and is for TLC only.

### ChatSession, RequestQueue, ChatApp

`pc` says where each of the five threads is that the code starts beside the user interface, and
`owner` who is inside the monitor of `LlmSession`.  `LoadStart` to `LoadCheck` are `load`, which
sets `modelLoading` and asks at its end whether it was released meanwhile, but takes the monitor
for that alone; `Release` to `ReleaseEnd` are `release`, which waits while a model is loaded;
`GenStart` to `GenExit` answer a prompt of the user, `ApiBegin` to `ApiExit` one of the service.
`hist` is the history of the native session, with the role that it gives each row, `db` what the
user sees.  `ChatKill` is the end of the process: memory is gone, the rows stay.

A prompt may be sent while the model still loads, for the send button asks
`ChatActivity.isLoading`, which nothing sets (`ChatActivity.kt:52`).  It finds no session, the user
sees it with an empty answer, and the session does not know of it until the chat is opened anew.
`missed` has such rows, and the answers that were cut off; `HistoryAgrees` says that the session
knows exactly the others.

`RequestQueue` has the channel, the processor and `hand`: the request that a party has taken out
to find the size.  `Deliver` is Kotlin's rendezvous: a suspended receiver gets the element at
once.  The mutex is the code's; taking out and putting back by the processor and by the
statistics is not under it.

`ChatApp` lets the task of the queue be an answer of the session.  Exception: `late` holds
sessions whose loading began when the clean-up had already found nothing to release.  Then the
native session is never deleted (`LlmSession.kt:47`), and `Released` does not hold.

Observed in the code: `getSystemPrompt`, the updates of settings and `getDebugInfo` use
`nativePtr` outside of the monitor; `release` never has to wait for `generating`, and `generate`
never finds a request to release at its end, for `generating` is only true while the monitor is
held; `submitNative` returns a string where a map is expected if there is no session;
a new chat while a model is loading keeps the saved rows; an answer that is lost with its
activity shifts the roles of the rows after it, since roles are told by position (`Label`); the
size of the queue reorders requests, contrary to `RequestQueueManager.kt:12` and
`MNNChatService.kt:22`; `isProcessing` is never set; `clearQueue` leaves those who wait waiting.

### ModelDownload, WeightCache, ModelStore, AbstractStore

`ModelDownload` has the files of one repository: `part` (`.incomplete`), `blob`, `link`,
`snapshot` (the folder of links) and `folder` (the link that makes the model complete); `state`
is what is shown.  A task goes from `Begin` over `FileBegin`, `Connect`, `Read`, `Validate` and
`Link` to `Finish`.  A read that is good or wrong stands for any number of bytes.  `deleteModel`
removes the tree file by file, in any order of the blobs and the links, and then the link.

A click starts a task whenever the state allows it (`Start`), and the executor has ten threads.
As long as only downloads change the state, one task runs at a time, which is proved.  But the
end of a deletion sets `NOT_START` under a task that was resumed meanwhile
(`ModelDownloadManager.kt:314`), and then a second one may start.  Each has its own count of each
file (`done`) and its own open file, and `handle` follows what becomes of the file that is open:
it may be deleted, or moved by the other task and then be written to as a blob.  Exception: `torn`
means that a deletion was cut short by the end of the process, or overlapped with another use of
the model; the link can then stay without files (`MsModelDownloader.kt:53`), and a blob may be
wrong.  `BlobsWhole` and the promise below claim nothing until the model is deleted again.

Observed: two tasks on one file can make a blob of anything, and the link of a model complete
while a blob is wrong; a stale entry of `pausedSet` makes the next download pause itself (modelled); an HTTP
error ends the task in an exception that the executor keeps, so that the state stays that of a
download (`ListFails`); a file of size zero can not be downloaded; the total size that was saved
survives a deletion.

`WeightCache` follows a process from `LoadModel`, where a runtime looks for the marker, over one
`AllocOpen`, or `AllocCreate` and `AllocSize`, and one `Fill` for each block, to `Forward` or
`Unload`, which make the marker if this process created a file.  `Dies` may come between any two
of these.  A file that was created and did not get its size cannot be mapped by the next process.
Most operators are refused then and ask again for the second backend (`CPULayerNorm.cpp:50`); a
dense int8 convolution prints an error, returns from its constructor and is kept, without its
weights (`ConvInt8TiledExecutor.cpp:334`).  `Kept` are the blocks that such an operator asks for
first, and `lacking` those of which one was kept; `WeightsRight` excepts them.  `ModelStore` composes it with `ModelDownload`: a click loads the model, `deleteModel`
removes the repository and then the weights, and a later download may bring another revision.

`AbstractStore` is what the user of the application may rely on: a model is on the shelf or not,
comes and goes in one step, and a chat computes with the weights of the revision that is there.
`StorePromise` says that `ModelStore` implements it.  `Shelf` maps the disk and the manager to the
shelf: a model is `here` if it is shown as complete and its folder, links and blobs are all
there, `absent` if it is not shown as complete and its folder is not there, `going` while it is
deleted, `doubtful` after a deletion that was cut short (`torn`).  All other states, such as a
model that is shown as complete without a file, are `broken` or `hidden`, values that no step of
`AbstractStore` makes, so that `StorePromise` implies `CompleteWhole`.  It says more: no end of
the process takes a complete model away, a download makes a model complete only where none was,
and a chat is never loaded from a model that is not here.  Two ends of the process leave something
to be seen: the doubt, and a `scar`, a file of weights without its size, after which a chat may
lack weights (0 in `chat`) until the weights are removed.

Observed: a process that dies after it created the last file leaves a cache that no later one
marks (`mNewMmap` is false there), so that weights are read and written at every load; a file
without its size is never given one, so that a kept int8 convolution lacks its weights at every
load until the cache is cleared.  Exceptions, with the places that name them: two files
without size (`MaxEmpty`, `Dies`); loading after a removal that was cut short (`cleft`).

## 3. The runs

All runs but `kv_disk`, `kv_rollback` and `chat` check for deadlock.  In the first two the number
of tokens is bounded (`MaxToken`), so that a sequence of calls ends there; in `chat` the numbers
of openings, prompts and requests are, and a user may simply go.

| run | instance | shows |
|---|---|---|
| `threadpool_safety` | 2 runtimes, 1 slot, 3 threads, unknown core count, up to 4 items, backends that outlive resets, leaked brackets | types, `TaskStable`, `SlotExclusive`, `InBounds`, `ParallelForSpec` |
| `threadpool_live` | 2 runtimes, 2 slots, 2 threads, nested brackets, fairness | `ActiveBalanced`, `EnqueueReturns`, `DestroyReturns`, `WorkersRest` |
| `dynamic_memory` | deferred: 5 nodes, 4 allocations of 0 to 3 units, barriers; eager: 2 blocks, 3 chunks, alignments at and above the allocator's, 2 minimal sizes | types; `ListWellFormed`, `LifetimesDisjoint`, `AllFreeComputes`; `NoOverlap`, `Conserved`, `WholeWhenIdle`, `GroupsApart` |
| `shared_sessions` | 2 sessions, 2 tensors, 3 addresses, 2 shapes that fit and one that does not | types, `AccessValid`, `BlocksOwned`, `InputSurvives` |
| `kv_disk` | blocks of 2, prompts of up to 4 tokens, rounds of 3 with drafts, 11 tokens, a limit of 4 | types, `HistoryKept`, `KVLengthAgrees`, `FitsBuffer`, `PositionsFollow` |
| `expr` | 4 graphs of up to 5 expressions, 2 shapes, 2 contents | types, `ReadsFresh`, `InfoFresh`, `ReadsAnswer` |
| `chat` | a chat opened twice, 2 prompts, answers of up to 2 tokens, 2 requests of the service, ends of the process, fairness | types, `NativeGuarded`, `HistoryAgrees`, `EachInOnePlace`, `Released`, `Answered` |
| `model_store` | 2 files of 2 and 1 reads, 2 tasks, 2 attempts, 2 blocks of weights of which one may be kept, 2 revisions, any number of processes | types, `BlobsWhole`, `StorePromise`, `WeightsRight` |

Why the bounds are enough for the cases that matter: three threads are the fewest for which a
caller has two helpers in different states (with two slots as well only the theorems cover
them); one slot
for two runtimes makes every acquisition contended; more items than threads make shares longer
than one; four allocations and five nodes reach a split, both fusions, the growth of the last
node and a fusion of fused nodes, within a barrier and outside; three addresses let one buffer
move and another session come back to the old address; a limit of four entries is crossed in
both directions within eleven tokens, blocks of two make every range aligned or not, and rounds
of three can have any number of drafts rejected; five expressions allow a session between two
others, a diamond, and a shape that depends on a content that depends on a shape; two openings
are what it takes for a late clean-up to meet a new chat, two prompts for an answer that is
continued, two requests for one that waits while another runs; two files make a model that is
partly there, two reads a file that is, two tasks a file with two writers, two blocks weights that
are partly written, and two revisions weights that are stale.  `model_store` has a constraint,
`TwoOnFirst`: two tasks run at the same time only while nothing but the first file has been
downloaded and no chat is being loaded.  What two tasks do to one file they do to the first; the
theorems cover the behaviours without the constraint, and any number of tasks.

### Disagreements with the documentation and tests

Four runs end in a violation.  Each checks one property that a comment, a test or a document
states of the program; `PROJECT.json` quotes the line.

* `threadpool_hang_stale`: a `CPUBackend` copies the thread number of its runtime.  A runtime
  that is reset to fewer threads then activates fewer workers than `enqueue` of the older
  backend waits for, and `enqueue` spins for ever (`EnqueueReturns`).
* `shared_fixrun`: after `Session_Resize_Fix`, a forward pass with unchanged shapes uses memory
  that the fix released (`AccessValid`).
* `kv_rollback`: `eraseHistory` with a kept tail, followed by `response` without `reuse_kv`, by
  `reset`, or by an erasure that reaches the end, leaves `KVMeta` counting a tail that the cache
  has cleared (`KVLengthAgrees`).
* `expr_pack`: `setInfoDirty` stops at an expression that is dirty already, but the session of
  that expression may have been resized for another session since; after the next resize a read
  gives the value for the former shape (`ReadsFresh`).

The passing runs assume that these do not happen: `KeepBackends` or `MaxLeak` is off where
`EnqueueReturns` is checked, `RunAfterFix` is off, `Uses` is empty, and the graph with packed
variables is not resized.

### Fairness

In `ThreadPool`, `Fairness` is weak fairness of every worker's next step, of the steps by which
a runtime's thread finishes a call it is in (`Finish`, `Acquire`), and of the steps of the
destructor: the operating system runs every thread that can run.  Nothing is assumed about the
user: no fairness forces a bracket to be opened or closed or an item to be enqueued.  Spurious
wake-ups are allowed and not fair.

In `ChatApp` it is weak fairness of the loading, cleaning and generating coroutines, of the
processor of the queue and of whoever has taken a request out: dispatchers run what can go on.
Weak fairness is enough for the monitor, since its users are finitely many and each leaves it.
Answers end: `max_new_tokens_` bounds them.  Nothing is assumed of the user, of the thread that
resets, of the sender of a request or of the system, which need not end the process.

### Preconditions of use

What the code does not handle, and what its users do not do, is excluded by guards or constants,
each named where it stands:

* sessions of one runtime are used one at a time, and so are the calls of one `Llm`;
* `MayFail = FALSE`: the system does not run out of memory.  With `TRUE`, `AccessValid` is
  violated: `SingleBufferWithAllocator` remembers the size of a block that it failed to get;
* erasures of the KV cache are aligned to blocks, as the code asks; `eraseHistory` from 0 with a
  kept tail is excluded (`Uses` without `"head"`), and so is one that keeps entries which a
  reset or a round of lookahead gave up (without `"dirty"`; with it the count of
  skipped positions goes below zero, so that `TypeOK` fails, but nothing else does, as the
  theorems show); no token is generated between an erasure and the response; a forward
  pass does not fail in the middle, which nothing in the code would repair; the cache is not
  quantized when it is compacted or moved to disk (`moveKVCacheFromMemToDisk` has no `else`
  between the modes and reads a tensor that it has released);
* in `KVCache`, the files of keys and of values stay below 2 GiB: `expandKVCacheInDisk` takes
  their sizes as `int` (`KVCacheManager.cpp:247`), which the model does not narrow;
* in `ChatSession`, the user waits for the model before a new chat, and for a new chat before
  the next prompt (`Uses` is empty); the first prompt need not wait for the model.  With `"resetLoading"` the saved rows come back into the
  history; with `"sendResetting"` a prompt is answered with the old conversation and then
  forgotten: `HistoryAgrees` fails in both cases.  The settings are not changed meanwhile;
* in `ModelStore`, a model is not deleted while it is loaded, nor are its weights cleared while
  it is loading or answers; one configuration of the runtime and one session use the weights;
  revisions change while nothing of the model is on disk; the disk does not lose what was
  written (power failure);
* `EagerAssumption` is the assertion of the code on minimal sizes; groups have none, as in
  `CPUBackend`;
* in `ExprGraph`: `Input` reads a source that is readable and shares no session with what
  depends on the destination, and does not change the shape of an input before its first
  content; `Compute` is called when shapes are up to date; `Fix` only of what no surviving
  session computes or refers to; a list of `prepareCompute` holds no variable whose content
  another one of it needs for its shape.

## 4. The proofs

`M_proofs` has the theorems about `M` and the modules that `M` composes.  Nothing is bounded in
them: where a run has two sessions or five nodes, a theorem has any number.  All rest on an
inductive invariant, for no property but a few types is inductive by itself, and have the same
layout: lemmas on the operators of the model, one lemma for each action or group of actions
(`...Keeps`, `...Inv`, `Plan...`, `Type...`, `Slot...`), one that puts them together
(`...Next`), and the theorems at the end.  None depends on fairness.

| module | theorems | assumed of the constants |
|---|---|---|
| `ThreadPool_proofs` | `TypeCorrect`, `SlotsExclusive`, `TasksStable`, `EnqueueIsParallelFor`, `AlwaysInBounds`, `NoWakeUpLost`; `AlwaysBalanced` | `ConstantsAssumption`; `AlwaysBalanced`: no leaked bracket (`MaxLeak = 0`) |
| `DeferAllocator_proofs` | `TypeCorrect`, `ListAlwaysWellFormed`, `FreedAlwaysComputes`, `LifetimesAlwaysDisjoint` | `DeferAssumption` (types) |
| `EagerAllocator_proofs` | `InvariantHolds`, `TypeCorrect`, `NeverOverlaps`, `AlwaysConserved`, `AlwaysWhole`, `GroupsAlwaysApart` | `EagerAssumption` |
| `DynamicMemory_proofs` | `MemoryAlwaysPlanned`, `MemoryAlwaysTyped`, `MemoryNeverOverlaps`, `MemoryConserved`, `MemoryAlwaysWhole`, `MemoryGroupsApart` | those two |
| `SharedBuffer_proofs` | `TypeCorrect`, `BlocksAlwaysOwned`; `AccessesValid`, `InputsSurvive` | `SharedBufferAssumption`; the last two: allocations do not fail (`~MayFail`), a fixed session is resized before it is used (`~RunAfterFix`) |
| `KVCache_proofs` | `TypeCorrect`; `HistoryAlwaysKept`, `LengthAlwaysAgrees`, `AlwaysFits`, `PositionsAlwaysFollow`; lemma `RemovedSound` | `KVCacheAssumption`; `TypeCorrect`: a careful user (`Uses = {}`); the others: one who may keep entries that were given up (`Uses \subseteq {"dirty"}`) |
| `ChatApp_proofs` | `TypeCorrect`, `NativeAlwaysGuarded`, `EachAlwaysInOnePlace`; `HistoryAlwaysAgrees` | `ChatAssumption`, `QueueAssumption`; the last: no new chat before the model is loaded, no prompt during a new chat (`Uses = {}`) |
| `ModelStore_proofs` | `TypeCorrect`, `BlobsAlwaysWhole`, `CompleteAlwaysWhole`, `WeightsAlwaysRight`, `StoreImplementsPromise` | `DownloadAssumption`, `CacheAssumption` |

The hypotheses in the third column are those under which the runs check the same properties, or
weaker ones, and runs `threadpool_live`, `shared_fixrun` and `kv_rollback` show what they are for.  The bounds of
the models (`MaxNodes`, `MaxUsed`, `MaxToken`, `MaxOpen`, ...) are constants, so that a theorem
holds for each of their values.

### ThreadPool

`SlotExclusive` is not inductive: the pool forgets its slots when it is destroyed, so `PoolInv`
adds that no runtime has a slot then; `SlotInv` is the conjunction.  `TaskStable` and
`ParallelForSpec` rest on `DataInv`:

* `JobInv`: the task of a slot is that of the client inside `enqueue` that holds the slot;
* `FlagInv`: a flag is up only for a participant of an `enqueue` under way whom the caller has
  asked already and has not seen done (the position of `SetFlag` and of `Poll` bound it);
* `WorkerInv`: a worker inside a task has its flag up;
* `RunInv`: the history `runs` of each item is 1 exactly if the participant that it belongs to
  has executed its share.

From these, a replaced closure would need a flag up in a slot whose holder is not inside
`enqueue`, which `FlagInv` and `SlotExclusive` exclude; and when `Poll` has passed every flag,
`RunInv` says that every item was executed once.  `EnqueueIsParallelFor` maps each step to one of
`ParallelFor` or to a stutter.

`InBounds` needs `BoundsInv`: what a runtime, or a backend made before the last reset, was
granted was the running pool's to give.  `ActiveBalanced` needs `BracketInv` (the depth of a
client's brackets is what its runtime counts, and a binding ends before the bracket that it
prepares) and `BalanceInv`, which counts the clients that count on a worker as the cardinality
of two sets, so that a step changes the count by one because it puts one client in or takes it
out.  That nobody waits in vain is the other half of `ActiveBalanced`, and what `EnqueueReturns`
rests on.  `WakeInv` holds under any history: a worker that is active and asleep will be notified
by a client that is in between raising a count and notifying, because a worker goes to sleep
only under `mQueueMutex` and with a count of zero.  `CoverInv` says that a task is divided into
no more shares than the open bracket or binding of its client keeps workers active for; it needs
that no backend outlives a reset (`~KeepBackends`), and `threadpool_hang_stale` shows why.

### DeferAllocator

While a network is resized no chunk has a place: `compute` makes places up, afterwards, from the
fusions that happened meanwhile.  `PlanInv` says that places exist all along.  It quantifies over
an assignment (`root`, `pos`, `ord`, `dep`, `end`) of the nodes to the node on the list that has
swallowed them, to a place, to a position in the list and to a depth in the tree of fusions, for
which

* the nodes on the list follow each other without a gap, in both directions (`Chain`);
* the fused nodes form trees (`Trees`), within the place of their root (`Within`), at the offsets
  that `children` remember (`Offsets`);
* the free list holds exactly the unused nodes, and no two unused nodes are neighbours (`Kept`);
* each chunk in use has a node of its own and of its size (`Chunks`), and any two that were ever
  in use together are apart (`Spread`).

`alloc` and `free` keep the places of all nodes that exist, but a growth of the last node or a new
one moves `end`.  That no place ever moves is what makes `LifetimesDisjoint` true, for `compute`
then finds `pos` again; that no two unused nodes are neighbours is why one node is left once all
are freed, which `compute` demands (`AllFreeComputes`).  Chunks freed inside a barrier are still
`Holding` until `barrierEnd` replays them.

### EagerAllocator

`EagerInv` has three parts.  `Lists` and `Owners` say where nodes are: in one chunk, on the free
list or on that of one group, and memory that a group was ever given is in its chunks or on its
list.  `Trees` is about `useCount`.  `Shape`: nodes that were split have two parts that make them
up, and any two nodes are apart or one lies in the other.  `Counts`: the nodes on the free list
and those that are taken (`L` and `B`) are apart, and every other node that is needed was split,
with a count of the number of its parts that are not on the free list, which is not zero.
`Full`: no other node exists, so that no `shared_ptr` is left over.

The count is thus exact after each operation, although the code changes it in four places and
skips it inside of groups.  `returnMemory` goes up while counts become zero: `ReturnTop` finds the
node where it stops, and `ReturnCounts` shows that the parts below it are those that it takes off
the free list.  `barrierEnd` returns the nodes of all groups one after the other; `FoldGood` is
that fold.  `LeavesSize` (the leaves in a node are as large as it is) gives `Conserved`, and with
nothing in use `FullWhole` gives `WholeWhenIdle`.  `NoOverlap` follows since leaves are apart and
chunks lie in their nodes; `GroupsApart` since what two groups were given lies in different
leaves.

The library's induction theorems take operators, so `NatInduct`, `SetInduct` and `FoldExists`
state what is needed for sets: induction along the elements that a fold takes out, and that a
function defined by such a recursion exists.

`EagerAssumption` is the assertion of the code about the minimal size with the types of the
constants.  Its last conjunct but one says that the null pointer is not a node, which TLC has by
the model value.  `DynamicMemory` assumes it, so that the theorems about it have no hypothesis.

### DynamicMemory

By construction each step of a backend is one of the allocator that it was made with and leaves
the other alone.  The lemmas `MemoryImplementsDefer` and `MemoryImplementsEager` say this and no
more; they carry what is proved of the allocators over to the backend.  `Planned` names the instance of `EagerAllocator` a second
time, with its theorems; the lemmas `Same...` say that it is the same.

### SharedBuffer

Types and `BlocksOwned` need no hypothesis.  `SharingInv` has: a session whose flag is down was
resized for the shape of now (`ShapesOK`); the fixed tensors are planned by the second allocator
and all or none of the others by the first (`GroupsOK`); each tensor points where its plan puts
it, in the block that the plan remembers (`PointersOK`); a buffer without block has no size
(`BasesOK`); and once an input was filled, its session's plans fit (`FilledOK`).  A copy that
ignores a failed allocation breaks `PointersOK`, hence the hypothesis.

### KVCache

`HistoryInv`: the cache holds the conversation in order, in a buffer that is long enough and in
the file exactly when it exceeds the limit (`Holds`, `Sound`); what `KVMeta` announces is the
range that is to go, at the end or in whole blocks before a tail (`Announces`); and lengths and
positions agree (`CountsOK`).  The positions are counted with integers there: an erasure that keeps
entries which were given up brings them back, by which the count of skipped positions may go
below zero.  `SkippedOK`, a part only for a user who does not do this, says that it does not,
which `TypeCorrect` needs and nothing else.  `RemovedSound` is the lemma behind it: `onRealloc` with such an
announcement keeps each other entry, in its order.

### ChatApp

`NativeGuarded` needs that whoever is inside the monitor is where one is inside (`MonitorOK`),
and that a session that is decoded exists (`DecodeOK`): only the owner of the monitor deletes.
`EachInOnePlace` needs that no request is in two places (`Apart`), that those who wait are those
that are somewhere (`WaitsOK`), and that whoever takes a request out has empty hands (`ProcOK`,
`HandsOK`).  `AppInv` ties the two: an answer of the service is under way only while the queue
has its task (`ApiOK`).

That no native session is forgotten (the last conjunct of `NativeGuarded`) needs `LeakInv`: where
threads can be and what their flags say of it (`StagesOK`), that only the session which
`nativePtr` names is still to be deleted (`KeptOK`), and that once the chat is closed somebody
will look at it, the clean-up or `load` at its end (`ClosedOK`).  It is the safety part of
`Released`.  That the processor sleeps only at an empty channel (`ProcOK`) is that of `Answered`.

`HistoryAgrees` needs what each thread still has to add to the database or to the history:
between a prompt and its answer the two differ by a row, which `KnownOK` names for each place of
the generating coroutine.  While the model loads, the history to come is that of the rows that the
session is made with, and every row since is in `missed` or belongs to the turn under way.  Around it, `HistoryInv` has what rows there are (`RowsOK`), that
loading, answers and resets of an open chat come one after the other (`OrderOK`), that the prompt
which is answered is the last row (`PromptOK`), and the roles (`LabelsOK`).  `Known` is a
recursive function; `NatInduct` stands for the induction theorems of the library, so that the
lemmas about it (a row is added, an answer is cut off, a conversation is reset) hold for rows of
any number.

### ModelStore

`DownloadInv` says where tasks are and what they count (`CurOK`), that unless a deletion met a
download a single task runs, and only while the state is that of a download (`BusyOK`), that what a
task has open is then still the `.incomplete` file (`HandleOK`), and that the files before its
current one are there (`DoneOK`).  `BlobsWhole` follows, for only what was just checked is moved and
nobody writes to it afterwards.  With two tasks none of these holds, hence its exception.
`CacheInv` says which file a process that loads stands at (`LoadOK`): its number is that of the
block, or one more if a file without size comes before.  `MarkerOK`: a marker means that every file
that a loading process will open holds the weights of the block that it will take it for.
`LackOK`: a block lacks weights only while a file without its size is there, which is the scar of
the promise.

`StoreImplementsPromise` needs two facts more (`ShelfInv`): a model is shown as complete exactly
when its folder is there, and the folder leads to a snapshot (`FolderOK`); what is loaded is here
(`UsedOK`).  With these, `Shelf` is never `broken` or `hidden` (`ShelfOf`), and each step is mapped:
the end of a download to `Arrive`, the beginning and the end of a deletion to `Leave` and `Left`,
the end of the process and another use in between to `CutShort`, the end of loading to `Load`,
`Unload` and `Kill` to `Close`, the end of the process before a file got its size to `Scar`, the
removal of such a file to `Heal`, `PublishRevision` to `Publish`.  All others are stutters: what they
change of files, links and markers is not to be seen.

### Model-checked only

Liveness (`EnqueueReturns`, `DestroyReturns`, `WorkersRest`, `Released`, `Answered`) is out of the
prover's reach.  What is proved is its safety part, the state in which somebody would wait for
ever: `WakeInv` and `CoverInv` for `EnqueueReturns` and `DestroyReturns`, `LeakInv` for `Released`,
the conjunct on the sleeping processor for `Answered`.

The properties of `ExprGraph` are about recursive operators, which TLAPS does not take, and a
recursive function in their place would not be enough.  `RequireInfo` and `Read` call each other
and each hands on the state that the other has changed, so that what they compute needs an
induction over the graph with an operator of the state, and `ReadsFresh` is not true of every
graph: packed variables that are resized violate it (`expr_pack`).

Where a run ends in a violation, nothing is proved: the theorems exclude that case by the
hypothesis named in the table.

For the proofs some definitions were given an equivalent form or a name of its own: `Places` in
`ChatApp`, `RowsOf`, `Known` and `Paired` in `ChatSession` (instead of a selection of a sequence),
`Ending` in `KVCache`; `CacheAssumption` and the conjuncts on types in `EagerAssumption` were
added.

## 5. Not modelled

Memory order weaker than sequential consistency; numeric code; the byte layout of tensors; the
failures excluded above.  Of `MmapAllocator`: files that are removed with the process,
`onRelease`, which resets the number of the next file while others are mapped
(`BufferAllocator.cpp:138`, reached from `onGabageCollect`), a second backend in the same process,
and where inside a block a tensor is: a process that trusts the files skips temporary buffers
that the writer allocated (`Convolution1x1Strassen.cpp:44`).  Of MnnLlmChat: pictures and audio,
answers as a stream, settings, the other two sources of models.  WeloAvatar is an application
around an older copy of the same sources.  Of the expressions: `Variable::replace` by the user, `input(nullptr)`,
several outputs, empty or unknown dimensions, and the eager mode.  Of `Pipeline`: the choice of
backends, the copies between them, and the tuning thread.  Components that are left out are
listed with the reason in `PROJECT.json`.

## 6. Plan

The order follows how much of the system depends on a part: thread pool (every operator), dynamic
memory, the memory that sessions share, the KV cache, expressions, then the weight cache and the
application.  These are modelled, and the invariants and action properties that the runs check
are all proved but those of `ExprGraph`.  What is left:

1. `ExprGraph`: theorems for graphs of one kind, such as chains, where `RequireInfo` and `Read`
   are loops; `InfoFresh` from the fact that an expression is clean only if what it depends on is.
2. `SharedBuffer`: which clauses of `SharingInv` survive a failed allocation.
3. `ModelStore`: removals that are cut short (`cleft`), after which a marker may be left without
   files; loading is excluded then, and the promise has no word for it.
