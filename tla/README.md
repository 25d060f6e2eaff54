# A TLA+ model of kt-kernel's concurrent core

This directory holds the specification of the parts of the repository whose
correctness depends on the order in which threads, processes, device streams and
callers act: kt-kernel's CPU backend (`src/kt-kernel/cpu_backend`), the per-layer
expert pipeline that drives it from Python (`src/kt-kernel/python/experts_base.py`),
the transport that streams FP8 expert weights to the GPUs of a tensor-parallel
group (`src/kt-kernel/fp8_layerwise_transport.cpp`), the training step of the
fine-tuning runtime and its ephemeral weights (`src/kt-kernel/python/sft`). TLC checks
small instances of every module; TLAPS proves the safety of the transport, the task queue, the
worker pools, the expert pipeline, the callback worker, the training step and the ephemeral
weights for all sizes.
`PROJECT.json` is the index: components, runs, the definition-to-source map,
hazards, findings and theorems.

## 1. Inventory of the system

kt-kernel runs the experts of a Mixture-of-Experts layer on the CPU while the
device computes the rest. A layer's call travels

    Python (experts_base.py)            one call per layer: submit_forward, sync_forward
      -> CPUInfer (cpuinfer.h)          directly, or as a host callback on a device stream
        -> TaskQueue (task_queue.cpp)   FIFO of tasks, one worker thread
          -> NumaJobDistributor         one thread per NUMA node
            -> InNumaPool               the threads of one node steal tasks

and, for layerwise prefill, the weights of whole layers travel from the CPU
buffers of rank 0 through shared host slots to the GPU of every rank
(FP8LayerwiseTransport), written by a producer that uses the same worker pool.

| Component | State it keeps | Operations | What is hard | What makes it correct |
|---|---|---|---|---|
| FP8 layerwise transport | control block in shared memory (epochs, slot generations, acknowledgements, poison), staging slots, a consumer thread and a copy stream per rank | constructor, `join`, `wait`, `run_producer`, the consumer loop, `close` | lock-free hand-over between processes, timeouts, a rank that dies, a copy that outlives the thread that started it, callers that disagree | no copy reads a slot being rewritten; a successful `wait` means the layer is on the GPU; every call ends |
| TaskQueue | linked list, `pending`, first exception, mutex and one condition variable | `enqueue`, `sync`, the worker, destructor | lock-free multi-producer list, sleeping without losing a wakeup, exceptions | FIFO, no use after free, sync drains, first failure reported once |
| InNumaPool | per-thread status cells, shared task counter, the fields of the present job | `do_work_stealing_job`, `set_restricted_worker_count`, worker loop, destructor | stealing, late workers, sleeping workers, reuse of the job fields | each task once, the caller returns after the last thread has left |
| NumaJobDistributor | status cell per node, barrier | constructor, `do_numa_job`, worker loop, destructor | cells allocated by the workers themselves | each node once per job, no cell used before it exists |
| WorkerPool | the pools of the nodes | forwarding | a stealing job nested in a NUMA job; not re-entrant | one job at a time per pool |
| CPUInfer | queue, worker pool, `device_callback_error_` | `submit`, `sync`, stream variants and their callbacks, destructor | callbacks on a device thread, errors that have no caller | an error reaches the host; callback arguments live long enough |
| Expert pipeline | two pinned slots per buffer key, `_layer_has_pending_deferred` | `submit_forward`, `sync_forward`, `run_pinned_forward_sync`, `copy_*` | deferred experts that run into the next layer, several device modes, CUDA graphs | each output is the sum of exactly its experts |
| ACL callback worker | report thread, subscribed streams | ensure, subscribe, shutdown | start-up and shutdown races | no callback is lost, shutdown ends |
| Shared scratch memory | one buffer, its users' requests | `alloc`, `dealloc` | relocation of users | no dangling pointer |
| SFT runtime | per layer a checkpoint cache, a forward cache, an optimizer window of gradients; shared packed weights for the backward; a forward task in flight | `KTMoELayer.forward`, `KTMoEFunction.forward` and `backward`, the repack thread, weight reload | failures of one rank between collective operations, what a failed batch leaves behind, buffers shared by layers, a thread beside the task queue | no rank is stranded; every pass uses this batch and these weights; gradients are of exactly the batches of the window |
| SFT ephemeral weights | a staging and a ready tree in `/dev/shm`, lease, manifest with a state per layer | prepare, reclaim, publish, open, consume, finish, cleanup | several drivers of one run id, everything by path, signals inside any operation, kills | a published tree is complete; a layer is whole while it is loaded; nothing is left behind |
| SFT artifacts and checkpoints | files on disk | save, load, merge | formats and key mappings | (not modelled) |
| CI GPU reservation | lock files | reserve, wait, release | two jobs on one machine | mutual exclusion |
| MoE operators, weight loading, CLI, archived framework | | | data and I/O | (not modelled) |

The calls nest as in the picture; the shared state that crosses a boundary is the
pinned slots (host, stream and worker), the callback arguments (host and stream
thread), the job fields of the pools (caller and workers) and the control block
(all ranks). The hazards that follow are listed in `PROJECT.json`, each at its
line, with the properties that would catch it.

## 2. Modules

| Module | Models | Kind |
|---|---|---|
| `LayerwiseTransport` | `fp8_layerwise_transport.cpp` | one step per access that another thread can see |
| `TaskQueue` | `task_queue.cpp` | one step per atomic access or critical section |
| `FifoExecutor` | | what a task queue promises: tasks run once, in order |
| `InNumaPool` | `worker_pool.cpp`, the pool of one node | one step per atomic access |
| `NumaJobDistributor` | `worker_pool.cpp`, one thread per node | one step per atomic access |
| `ForkJoin` | | what both pools promise: a job's items each run once before the call returns |
| `ExpertPipeline` | `experts_base.py` and `cpuinfer.h` | one step per host call, stream operation and task |
| `EphemeralStore` | `sft/ephemeral.py`, `scripts/prepare_ephemeral_int8.py` and their use in `sft/wrapper.py` | one step per operation on the file system that another process can see |
| `SftStep` | `sft/layer.py`, `sft/autograd.py`, `sft/dist_utils.py`, `sft/base.py` and the C++ behind them | one step per collective operation, per step of rank 0 between two of them, per task and per thread |
| `CallbackWorker` | `ascend_callback_worker.cpp` and its users in `experts_base.py` and `ascend_npu.h` | one step per critical section, per wait in it and per step of the worker |
| `LayerwiseTransportProof`, `TaskQueueProof`, `InNumaPoolProof`, `NumaJobDistributorProof`, `ExpertPipelineProof`, `CallbackWorkerProof`, `SftStepProof`, `EphemeralStoreProof` | the module each is named after, which it extends | inductive invariant and proofs (section 5) |

`TaskQueue` implements `FifoExecutor` and the two pools implement `ForkJoin`; these
refinements (`RunsInOrder`, `JobsComplete`) are checked and proved. `ExpertPipeline` stands on
them: its queue is the FIFO that `TaskQueue` implements.
Definitions that begin with `\* Mutant` are plausible mistakes in the definition
that follows; substituting one for it makes the property named in `PROJECT.json`
fail, which shows that the property depends on that code.

### 2.1 LayerwiseTransport

A group of `TP` processes; rank 0 stages the experts of a layer (an *epoch*) one
after the other in `HostSlots` slots. The fields of `FP8LayerwiseControl` are the
first block of variables, with their C++ names shortened. Per rank there are the
thread that calls `join` and `wait` (`mpc`), the consumer thread (`cpc`) and its
asynchronous copy (`dma`); rank 0 also has the thread in `run_producer` (`ppc`).

* `join`: `JoinCall` (arguments and `ensure_open`), then rank 0 waits until every rank
  has returned from the previous layer (`JoinWaited`) and publishes `PublishCount`,
  `PublishEpoch`; the others wait for the epoch and compare (`CheckLayer`). `StoreJoin`
  ends both.
* `run_producer`: `ProducerCall`, `Gathered` (all have joined), then per expert
  `BeginWrite` (all acknowledgements of the slot's last generation are there),
  `EndWrite`, `PublishMeta`, `PublishSequence`; then `Drained` and `ProducerReturn`.
* consumer: `BeginLayer`, then per expert `BeginCopy` (the slot's new generation is
  seen), `DmaComplete` (the device), `Acknowledge`; then `EndLayer`.
* `wait`: `WaitCall`, `WaitDone`, `WaitReturn`. `close`: `CloseCall` (which poisons the group when
  the rank is inside a layer), `CloseStop` (the store to `stopping_`, which the consumer polls),
  `CloseReturn` (the join of the thread).
* `ConstructFails`: the consumer thread reports that it cannot initialise and poisons the group,
  unless the constructor, which throws, has set `stopping_` before the thread looks; then the
  peers find out by their timeouts. `CallRejected`, `ProducerRejected`: a call that throws before
  it has an effect (a closed or poisoned transport, invalid arguments).
* every exit of `wait_until` is an action: predicate, poison, stop, timeout.
  Poisoning is a compare-and-swap followed by the error fields (`Claim`,
  `FinishPoison`), and the first error wins.

Abstractions. Weights are the pair (layer, expert), and a slot that is being
written holds neither the old nor the new pair. `expertCount` stands for the pair
(layer_id, expert_count). Time is not modelled: a wait whose predicate is false may
time out at any moment, so the safety results hold for every timeout value. Memory
is sequentially consistent: the code publishes with release stores and reads
with acquire loads on the cells that carry the protocol. A crashed process
executes nothing more; a copy it has started may still be in flight. Callers that respect
the protocol use consecutive epochs, wait for each, and pass the same arguments for the same
epoch. Under `misuse` they pass any arguments in any order, with two restrictions on the
environment: no rank joins the epoch it is in a second time, and nobody runs the producer of an
epoch twice. The code accepts both. Between rank 0's stores of the next layer's description
and of its epoch (`PublishCount`, `PublishEpoch`) the repeated call compares its arguments with the
next layer's and is taken for it; `Delivered` and `GroupDelivered` do not hold then.

### 2.2 TaskQueue

`enqueue` is `EnqueueCall` (count), `Exchange` (tail), `Link` (next of the predecessor),
`Fence` (lock and unlock) and the notification; the worker alternates between taking
a linked node, running it, recording an exception, announcing, and
sleeping. A waiter of `cv` may wake up spuriously; `notify_one` picks any waiter.
Nodes are model numbers, so a freed node that is touched is visible. The destructor
(`DestroyCall`, `DestroyNotify`, `DestroyJoin`, and `DestroyNode` for each node that is left) starts
when no `enqueue` is in progress, as its owner guarantees; a `sync` may still be waiting.

### 2.3 InNumaPool and NumaJobDistributor

A job sets its fields, releases the workers through their status cells and waits for
every cell to be `WAITING` again. Workers that have idled sleep on a condition variable
of their own (`asleep`); the 50 ms threshold is a free choice. `ClaimTask` is the
`fetch_add` after the cheap look at the counter. Thread affinity, names, and
memory policy are left out. Destruction starts between jobs.

### 2.4 ExpertPipeline

Three actors: the host thread runs layers and passes, the device stream executes
its operations in order, the worker runs the FIFO. `mode` is chosen initially:
`host` (the bypass branch), `npu` (host submission after waiting for the device), `cuda`
(stream callbacks), `graph` (callbacks captured in the first pass and replayed with
frozen arguments), `pinned` (`run_pinned_forward_sync` in one callback). The value
of an output slot is the *set* of contributions that were summed into it, tagged with
pass and layer, so a missing, stale or foreign contribution is visible. Every operation of
the stream carries its pass and layer too; for a submission, a sync and a pinned run these are
history (`run_pinned_forward_sync` gets its layer as an argument, the other callbacks use their
task or their allowance only).

Abstractions. All layers share one set of buffers (one batch size and output
type). A router's decision is whether some expert of a layer is deferred. The caller
configures no deferral in the last layer, because nobody would add it. A failing
launch of a callback is not modelled; in `pinned` mode an exception goes to an
external caller, so tasks do not fail there.

In the model a failing task is counted (`failures`, at most `MaxFailures`): the results and
the slots are claimed up to the first failure, `FailureSurfaces` after it.

### 2.5 EphemeralStore

All processes use one run id, so there are two paths. A *driver* looks at the staging path
(`Start`, `Probe`), may reclaim what is there, makes the
directory, writes the lease, starts the converter, writes the lease again with the converter's
pid, waits, and publishes: `Discover`, `Unlease`, `Scan`, `WriteManifest`, `Rename`. Reclaiming and
cleaning up are the same bottom-up walk: `ListRoot` lists the root, `WalkLayer` empties one of the
listed layers, and `WalkRoot` unlinks the files of the root, removes the listed directories and the
root itself; it raises at the first entry that is gone or not empty, with what it has deleted until
then gone. A signal ends a driver that has no handlers installed (until the first lease is written,
and at exit); with them it is noted, forwarded to a converter that has been assigned to
`child`, and looked at once, after the wait. A *training
process* opens the ready tree (`ReadManifest`, `Validate`) and for each layer loads it
(`LoadBegin`, `LoadEnd`), marks it in the manifest by a temporary file and a rename (`Consume`,
`WriteTemporary`, `Replace`), deletes its files (`Unlink`, `RemoveLayer`) and marks it again.
`cleanup` runs after an exception or on top of any of these steps in a signal handler
(`cleaning`). The converter creates the directories it misses, which is why a tree that was
deleted under it comes back in part.

Abstractions. A layer is absent, an empty directory, partial or complete; its files are deleted in
one step, except by the training process, whose deletions have the partial state in between. The
rename of the lease and the pid's reuse are left out: a pid names one process. The two training
processes run one after the other, as the trainer owns the machine; which processes take part is
the constant `Casts`. Every directory has an inode of its own, for the properties only. `trespass`
records when a driver deletes while another produces or deletes too; the properties about
completeness are claimed where that has not happened, and `ReclaimSafe` says that a reclaim never
does it.

### 2.6 SftStep

Each rank has a place (`pc`), a layer and a phase: forward with or without checkpointing,
recompute, backward. A collective operation is one action that needs all ranks at the same
place and moves them together (`Agree`, `Gather`, `Submitted`, `GpuSync`, `Collected`,
`RecomputeSync`, `GatherGrads`, `Computed`, `RepackSubmitted`); ranks at different collective
operations are stuck, which is what `NobodyStranded` looks for. Between them rank 0 refreshes
the weights and validates the cache (`Prepare`), submits the forward (`Submit`), takes its
result (`CollectTask`, `CollectCached`), and in the backward joins the repack thread
(`Compute`), pops the forward cache and packs the weights (`Pop`), writes the gradients (`Gemm`)
and starts the repack of the layer below (`SubmitRepack`). `RunTask` is the task queue,
`RepackEnds` the thread. An error of rank 0 is kept in `err` until the broadcast. The training
loop takes the next batch, steps the optimizer, or drops a batch that failed.

The data is the identity of a batch and the version of the weights: an output is a layer and a
batch, gradients are the set of batches that were added up, and the packed weights are a
layer and a version. A failure can happen in every step that can raise; there are at most
`MaxFailures` of them. Each rank's policy is free, so ranks that disagree are included.

Abstractions. Full-weight training with authoritative gradients and `share_backward_bb`, a shared
expert on the GPU, at least one row per rank. A failed collective operation, after which the
process group is unusable, is modelled only for the scatter of the gradients, where the code
handles it, and there it raises on all ranks; the scatter of the forward
(`src/kt-kernel/python/sft/autograd.py:211`) does not fail. Gradients are sets, so a batch that is
added twice to one layer would not show. The FP8 backend, which packs in the backward under a lock
and never in a thread (`src/kt-kernel/operators/amx/sft_moe.hpp:1691`), is not distinguished. The
optimizer steps after a complete batch only: `update_kt_lora_pointers` has no such condition, but
a step after a dropped batch leaves alone the weights of every layer without a gradient (section
5). The state `alone` marks the two places where a rank can fail without any code to tell its
peers (a recompute that fails outside the experts), `broken` a pack that failed; the hazards list
says what happens then.

### 2.7 CallbackWorker

On the NPU a callback that is launched into a stream runs only on a thread that has subscribed to
the stream and processes reports. `ascend_callback_worker.cpp` keeps one such thread for the
process. The host threads hold `g_mu` (`mtx`) during each call: `InitWorker` and `InitReturn` are
`ensure_callback_worker`, `EnsureStream`, `EnsureReturn` and `Subscribe` are
`ensure_stream_subscribed`, `Shutdown` and `Joined` are `shutdown_callback_worker`; the barrier of
`start_worker_locked` and the join are steps that wait for the worker with the mutex held.
`Launch` is `aclrtLaunchCallback`, after the mutex was released. The worker goes through
`SetContext`, `CheckStop`, `Process`, `Drain` and `Unsubscribe` and never takes the mutex. `Probe`
is the Python side, which asks once whether the worker runs and remembers the answer (`degraded`).

ACL is external and modelled from its use: `Reached` is the device that comes to a callback,
`Report` runs everything that was reported to the thread, provided that it has a context. Whether
`aclrtProcessReport` takes one or all of the waiting reports is not visible in the code; the comment
on the drain counts on all.

## 3. Runs

| Run | Instance | Checks |
|---|---|---|
| `transport_faults` | 2 ranks, 1 or 3 experts, 2 slots, 2 layers; timeouts, death, hangs, writer, copy and initialisation failures, misuse | `TypeOK`, `CopyIntact`, `Delivered`, `GroupDelivered`, `Lockstep` |
| `transport_live` | 2 ranks, 2 experts, 1 slot; no fault, or timeouts with death and hangs, or timeouts with a failing initialisation, or close with hangs | `NeverPoisoned`, `AllLayersDelivered`, `CallsEnd`, `CloseEnds` |
| `task_queue` | two enqueuers, one of which syncs, 3 tasks, destruction | `NodeLifetimes`, `FirstFailure`, `SyncDrains`, `RunsInOrder`, `TasksRunApart`, `SyncReturns` |
| `task_queue_two_clients` | one enqueuer, one syncer, 2 tasks | `TasksRun` is **violated** (finding 1) |
| `in_numa_pool` | 3 threads, two jobs of 0, 2 or 4 tasks, restriction | `TasksDistinct`, `Quiescent`, `JobsComplete`, `CallsEnd` |
| `numa_job_distributor` | 3 nodes, two jobs, destruction | `StatusAllocated`, `JobsComplete`, `CallsEnd` |
| `pipeline` | all modes, 3 passes of 3 layers, layers 0 and 1 may defer, one task may throw | `ResultCorrect`, `NoBufferRace`, `FailureSurfaces`, `PipelineDrains` |
| `pipeline_graph_args` | graph, 3 passes | `CallbackArgsLive` is **violated** (finding 2) |
| `ephemeral_lifecycle` | two drivers, or one driver and two training processes; 2 layers, one SIGKILL, two signals | `PublishedComplete`, `LoadUndisturbed`, `NothingLeft` |
| `ephemeral_reclaim` | two drivers, 1 layer, no fault | `ReclaimSafe` is **violated** (finding 3) |
| `callback_worker` | 2 host threads, 2 streams and the null stream, 2 callbacks, one failing ACL call, callers with and without a context | `SubscriptionsLive`, `ReportsServed`, `CallsEnd` |
| `sft_step` | 3 ranks, 3 layers, 3 batches, 2 failures, all policies | `NobodyStranded`, `ResultMatches`, `BackwardMatches`, `BackwardFresh`, `WindowClean`, `GradsExact`, `PoolExclusive`, `StepEnds` |

Every module has a type invariant `TypeOK` that says what its variables hold. Only that of the
transport, on which the proofs rest, is an invariant of a run; the others document their
variables and hold on the same instances.

The bounds have names: `MaxEpoch` and `MaxExitEpoch` (layers a caller asks for, and the last one
after which it may close), `MaxTasks`, `MaxJobs`, `MaxPasses`, `MaxFailures`, `MaxKills`,
`MaxSignals`, `MaxBatches`; `FaultSets` and `Casts` list the alternatives of which a behaviour
takes one from its first state on.

Why the bounds are enough. Three experts in two slots make the ring wrap and end on
a slot that is used once and one that is used twice, which is what the draining of
`run_producer` has to get right; two layers reach the hand-over between epochs, where
generations of an earlier layer are still in the slots; two ranks are one producer
and one rank without a producer, and the proof covers larger groups and a rank that
dies in a later layer than the first. Three tasks
in the queue let two enqueues overlap while the worker deletes the node both
depend on. Three threads in a pool give two workers that race with each other
and with the caller, and zero, two and four tasks are none, fewer than and more than
the threads; the second job reuses fields that a late worker of the first could
still read. Three layers use one of the two pinned slots twice in a pass; two deferring
layers in a row followed by one without deferral reach every combination of the two
flags, and the third pass is the second replay of a graph. Two layers of ephemeral weights give a
tree that is partly consumed; two signals are one that starts a cleanup and one that hits it.
Three expert layers are a top layer, which packs its own weights, one in the middle, whose
thread may outlive a failed pass, and the last one; three batches are a failed one, its
successor with what it left behind, and one after an optimizer step or in the same window;
with two failures the second can hit the retry. A second host thread can launch during and after
the shutdown that the main thread runs, and so start a second worker.

Deadlock is not checked: every one of these systems ends in a state where its
callers have nothing more to do (bounded passes, jobs, tasks), and a wait that never
ends is caught by the liveness properties instead.

### Fairness

* `LayerwiseTransport!FairSpec`: every thread of a live process runs. Waits
  poll in a loop that checks a deadline, hence "a wait that makes no progress times out"
  is a step of the thread that polls. That copies complete is assumed only where the
  chosen faults have no hang; `CallsEnd` and `CloseEnds` hold with a device that never answers,
  because the consumer polls the event instead of synchronising.
* `TaskQueue!Fairness`: threads inside the queue run; strong fairness for locking the
  mutex, as its critical sections are short and a contender gets it at some time. No
  spurious wakeup is promised, no client has to call anything.
* the pools: weak fairness per thread; the status loops spin.
* `ExpertPipeline`: the caller runs all its passes, the device runs its stream, the worker
  its queue. The last is what `TasksRunApart` shows for a queue whose enqueues do not overlap
  another thread's `sync`.
* `SftStep!FairSpec`: every rank, the task queue and the repack threads keep running, and a
  collective operation that all ranks have entered ends. The training loop promises nothing.
* `CallbackWorker!Spec`: the worker and a host thread inside a call keep running; nobody has to
  launch or to shut down.
* `EphemeralStore` has no liveness property: processes may be killed at any point.

## 4. Findings

1. **Lost wakeup in `TaskQueue::enqueue`** (`src/kt-kernel/cpu_backend/task_queue.cpp:50`).
   The worker and the callers of `sync` sleep on one condition variable, and `enqueue`
   calls `notify_one`. If another thread already sleeps in `sync` (a second thread's
   `enqueue` has incremented `pending`), the notification may wake that one; it sees tasks
   pending and sleeps again, and so does the worker. One client thread per queue is safe
   (`TasksRunApart` in `task_queue`), as in the host modes; two threads arise when the host thread
   syncs while callbacks of a stream submit.
2. **Callback arguments and CUDA graphs** (`src/kt-kernel/cpu_backend/cpuinfer.h:100`).
   `submit_callback_` and `sync_callback_` delete their arguments when they first run; a
   graph that captured them runs them once per launch. The run shows the second launch
   reading deleted arguments. `ResultCorrect` in `graph` mode shows that everything else
   about capture is right: the frozen flags stay valid for every replay.

3. **A staging tree is reclaimed under its live driver**
   (`src/kt-kernel/python/sft/ephemeral.py:320`). The lease names the converter; between
   `child.wait()` and the rename the driver works on the tree while the recorded process is gone. A
   second driver with the same run id deletes the tree then. A lease that names the driver to the end
   would close the gap.

Two more observations come from the models without a run of their own:

* **Stale weights in the backward of a model with one expert layer**
  (`src/kt-kernel/operators/amx/sft_moe.hpp:1699`). The shared packed weights are taken for valid
  when their owner is the layer. An optimizer step changes the weights and not the owner; only
  another layer that takes the buffer in between makes the pack happen. `BackwardFresh` holds in
  `sft_step`, with three layers; with `NumLayers = 1` and no failure TLC finds the second backward
  using the weights from before the optimizer step.
* **Ready without a context** (`src/kt-kernel/cpu_backend/ascend_callback_worker.cpp:39`).
  The comment on `g_worker_ready` promises a usable ACL context; the worker announces itself also
  when it could not set one, or was started with none. The probe then says that the worker runs,
  and the fallback to the synchronous path, which exists for this case, is not taken.

## 5. Proofs

Each proof module extends the module it is about and TLAPS. A theorem holds for every value of the
constants that the module's assumptions allow: any number of ranks, threads, tasks, layers,
failures. All have the form `Init => IInv`, `IInv /\ [Next]_vars => IInv'`, `IInv => property`, with
one step per action and under it one per conjunct that the action can disturb. None of the
properties is inductive by itself; what `IInv` adds, and why, is said below.

| Module | Theorem | States |
|---|---|---|
| `LayerwiseTransportProof` | `Invariance` | `Spec => []IInv` |
| | `TypeCorrect` | `Spec => []TypeOK` |
| | `CopiesIntact` | `Spec => []CopyIntact` |
| | `LayersDelivered` | `Spec => []Delivered` |
| | `GroupIsDelivered` | `Spec => []GroupDelivered` |
| | `RanksInLockstep` | `Spec => []Lockstep` |
| | `ConsumersNotOverrun` | `Spec => []NoOverrun` |
| | `NobodyPoisons` | `Spec => []NeverPoisoned` |
| `TaskQueueProof` | `NodesUsedWhileLive` | `Spec => []NodeLifetimes` |
| | `FirstFailureKept` | `Spec => []FirstFailure` |
| | `SyncWaits` | `Spec => SyncDrains`, an action property |
| | `QueueIsFifo` | `Spec => RunsInOrder`, the refinement of `FifoExecutor` |
| | `TypesKept` | `Spec => []TypeOK` |
| `InNumaPoolProof` | `NoTaskTwice` | `Spec => []TasksDistinct` |
| | `PoolQuiescent` | `Spec => []Quiescent` |
| | `PoolForksAndJoins` | `Spec => JobsComplete`, the refinement of `ForkJoin` |
| | `CounterBounded` | `Spec => []TypeOK` |
| `NumaJobDistributorProof` | `StatusCellsExist` | `Spec => []StatusAllocated` |
| | `DistributorForksAndJoins` | `Spec => JobsComplete`, the refinement of `ForkJoin` |
| `ExpertPipelineProof` | `Invariance` | `Spec => []IInv` |
| | `OutputsCorrect` | `Spec => []ResultCorrect` |
| | `BuffersNotRaced` | `Spec => []NoBufferRace` |
| | `FailuresSurface` | `Spec => []FailureSurfaces` |
| | `TypesKept` | `Spec => []TypeOK` |
| `CallbackWorkerProof` | `SubscriptionsServed` | `Spec => []SubscriptionsLive` |
| | `TypesKept` | `Spec => []TypeOK` |
| `SftStepProof` | `RanksStayTogether` | `Spec => []NobodyStranded` |
| | `ScatterIsCurrent` | `Spec => []ResultMatches` |
| | `ActivationsCurrent` | `Spec => []BackwardMatches` |
| | `WindowStaysClean` | `Spec => []WindowClean` |
| | `WeightsFresh` | `NumLayers > 1` implies `Spec => []BackwardFresh` |
| | `GradientsExact` | `Spec => []GradsExact` |
| | `PoolHasOneUser` | `Spec => []PoolExclusive` |
| | `TypesKept` | `Spec => []TypeOK` |
| `EphemeralStoreProof` | `TreesPublishedComplete` | `Spec => []PublishedComplete` |
| | `LoadsUndisturbed` | `Spec => []LoadUndisturbed` |
| | `NothingStays` | `Spec => []NothingLeft` |
| | `TypesKept` | `Spec => []TypeOK` |

The assumptions are those of the modules and nothing else: positive numbers of ranks, threads,
nodes, layers, batches, slots; natural bounds; expert counts between one and the room of the GPU
buffer (the code rejects others) and a known set of faults in the transport; names of threads and
streams that differ from the names of the special ones (`ClientAssumption`, `NamesAssumption`).

### The transport

That a copy in flight reads the right bytes depends on the producer not having passed the slot's
acknowledgements, which depends on sequence numbers meaning the expert they were published for,
which depends on the epoch not having advanced, which depends on every rank having returned. `IInv`
states this chain in named parts:

* `EpochOrder`: for each rank `waitReturned <= consumerDone <= cEpoch <= joinEpoch <= active`,
  and a rank that is behind the active epoch has returned from the one it joined;
* `MainInv`, `RankZeroInv`, `ProducerInv`, `ConsumerInv`: what each program
  counter has established;
* `CountInv`: ranks that work on a layer agree on its number of experts;
* `SequenceInv`: a rank's last seen generation differs from a slot's generation exactly
  while the slot holds a published expert it has not acknowledged;
* `WindowInv`, the heart: every expert between what a rank has acknowledged (`Got`) and what
  the producer has published (`Sent`) is intact in its slot, described by the slot's
  generation, and unacknowledged. As the slot is determined by the expert modulo the
  number of slots, no two of them share a slot;
* `FillingInv`: the slot being filled is awaited by nobody;
* `CopyInv`: what a rank has copied, and that a copy in flight is inside the window, also
  after its thread has given up.

`NoOverrun` (the protocol error "active epoch advanced" is never raised) is proved only; the runs
check `Lockstep`, which is its reason.

`NeverPoisoned` needs a second invariant, `Quiet`, that holds in the environment without faults
only and is inductive relative to `IInv`: the callers use consecutive epochs, the active epoch is at
most one ahead of what a rank has joined, and two ranks in the same epoch have the same
arguments. From it follows that none of the checks in `join`, `wait` and `run_producer` can fire: a
rank that compares its arguments does so while rank 0 is still in that layer.

### The task queue

The order of the list is the order of the exchanges on `tail`, recorded in `order`; the links are
stored later and in any order. `OrderInv` says that `order` is a sequence of distinct nodes of which
the worker has run a prefix, and that the threads between exchange and link hold distinct
positions; `LinkInv` that the link of each position is stored, or null while a thread is still to
store it; `LiveInv` that the nodes alive are those from the worker's position on, which is why an
enqueuer's predecessor cannot have been deleted: the worker cannot pass a node whose link is
missing. `CountInv` says that `pending` counts the tasks that were counted by an `enqueue` and not
yet reported by the worker, `FailureInv` that the stored exception is the first of those that no
`sync` has seen.

### The pools

`JobInv` and `WorkerInv` describe every worker by the caller's position in its loops: not yet
released, given the job, or through with it. With that, `BarrierInv` of the distributor counts
the workers that have allocated their cell, and `TaskInv` of the pool splits the tasks at the shared
counter: those from `curr` on are untouched, those before it are done or in the hands of exactly
one thread, and nobody is through before the counter has reached the end. Both refinements
follow: the last thread to leave is after the last task.

### The expert pipeline

The five modes differ in who does a step (the host, a callback, the pinned callback, a replay) but
not in the steps of a layer: copy in, submit the immediate task, submit the deferred one, sync,
copy out. `IsAt(st, p, l)` says at which stage `st` of which pass and layer the *execution* is: at
the first operation of the stream, or at the host's own stage when the stream is empty. All
knowledge of tasks and slots is attached to that place:

* `StreamInv`: the stream is a chain. Every operation is followed by the one that comes after it
  in the layer, the layer or the pass, the last one by what the host does next; the exception is a
  pass in which the host has raised, which is followed by the next pass. Its operations have the
  arguments of their layer (`Formed`) and the router's choice of their pass (`Fits`), and the host
  is past them;
* `GraphInv`: the captured graph is such a chain for exactly one pass, so a replay continues the
  stream;
* `HostInv`, `ErrorInv`: `_layer_has_pending_deferred` tells of the layers behind the host which
  ones defer, and every error comes from a task that has thrown;
* `TaskInv`: `QueueAt` gives the pending tasks from the number of tasks this layer has submitted
  (`Fresh`) and the length of the queue: they are the newest of those, before them at most
  the deferred task of the layer before. `Good` gives the contents of the slots from the same two
  numbers, as long as no exception is pending, recorded or thrown in this pass or a later one;
* `ResultInv`: the last output copied is the expected one under the same condition.

What one stage does to `QueueAt` and `Good` is a lemma per stage (`CopyInStep`, `ImmediateStep`,
`DeferredStep`, `SyncStep`, `CopyOutStep`, `PinnedSubmitStep`, `PinnedReturnStep`, `TaskEndStep`,
`TaskThrowsStep`, `RaiseStep`), used by the host's action and by the stream's alike.
`BuffersNotRaced` is read off `QueueAt`: at a copy in, the only task that can be pending is the
deferred one of the layer before, which reads the other slot; at a copy out, it is the deferred
one of this layer, which writes the other slot.

### The callback worker

`MutexInv` says who is inside a critical section. `WorkerInv` says that the globals describe the
present worker or that there is none and nothing is left of the last; a worker that has not yet
announced itself has a host thread waiting for it with the mutex held. `SubscribedInv` gives the
subscriptions as a function of these: the streams that were asked for, less those that ACL
refused, with the present thread.

### The training step

`IInv` has one part per question, each inductive together with the ones before it:

* `SyncInv`: where the ranks are. They are in one layer, and either before the comparison of
  their policies, inside the experts, in a recompute around them, in the backward, or all
  have raised; in each case rank 0 may be ahead of the others by its local steps only. A rank
  that fails by itself in a recompute without a retained cache is the exception (`alone`);
* `DataInv`: what is in the caches and in the queue. The task of this layer is the last of the
  queue or has run, and tasks of an earlier batch are gone once the first layer has its
  result. From this follow `ResultMatches` and `BackwardMatches`;
* `WindowInv`: an open window is not torn, and the present batch is in it only after its
  backward;
* `BufferInv`: which layer may have a repack thread running, that weights are clean from their
  refresh on, and whose weights, of which version, `bb_owner` vouches for;
* `CleanInv`: without failures, the exact contents of caches and windows, from which
  `GradientsExact` and `PoolHasOneUser` follow.

The attempt to prove `BackwardFresh` for all sizes failed for one layer and TLC confirmed the
counterexample (section 4); hence the hypothesis `NumLayers > 1` of `WeightsFresh`. With two
layers or more the top layer takes the buffer over in every backward, and the version in it is
current. A failed batch may leave the top layer as the owner. An optimizer step right after it,
which the model leaves out, would not make its packed weights stale: the failure has closed the
window of that layer, so that its gradient is `None` and the optimizer leaves its weights alone,
or it was a pack that failed, which `BackwardFresh` excludes (`broken`).

### The ephemeral weights

The properties are about files that several processes create, rename, load and delete, so the
invariant says who may touch a directory at each moment:

* `TreeInv`: every directory has an inode of its own, so a tree that is gone never comes back
  under the same name as the same tree;
* `ChildInv`, `ProducerInv`: with no trespasser there is one producer at a time, and the staging
  tree holds exactly what that producer has written (`Progress`); from the removal of the lease on
  this is every layer, which gives `PublishedComplete`;
* `LeftInv`: a staging tree has a producer, or a cleanup that has listed all its entries and
  emptied the layers it has walked;
* `PhaseInv`, `HoldInv`: one training process is active, and its position determines the
  state of its layers in memory, on disk and in the manifest, which gives `LoadUndisturbed`;
* `CleanInv`: the tree of a closed store is being cleaned or is gone for good, which gives
  `NothingLeft`;
* `ManifestInv`: what a manifest that can be read says of its tree.

### What is only model-checked

* All liveness properties (`AllLayersDelivered`, `CallsEnd`, `CloseEnds`, `TasksRunApart`,
  `SyncReturns`, `PipelineDrains`, `ReportsServed`, `StepEnds`): fairness and ENABLED are outside
  the prover's reach.
* The properties of the three violation runs, which are false of the code (section 4).

## 6. What is not modelled

* MoE operators: numerical kernels; only the contract of a task (reads an input slot,
  writes or adds to an output slot) is used.
* Weight loading and formats: files and tensor layouts.
* CLI, archived framework: option parsing, process launching, code that is not built.
* Statistics, timings, logging, affinity, memory policy.
* After a failing task the buffers of the pipeline may be raced on: when a pass was aborted by an
  exception and the caller starts another one, the leftover tasks of the first still use
  the slots. Their results are discarded and `FailureSurfaces` holds; `NoBufferRace` is
  therefore claimed only up to the first failure.
* SFT: LoRA gradients and their reduction, backends without authoritative gradients,
  `submit_backward_async`, the inference forward, the single-process path; artifacts and
  checkpoints (formats, hashes, key mappings).
* Most of the repository's lines are outside the model for good: model definitions, numerical
  kernels, the archived framework, option parsing, and tables carry data and arithmetic but no
  protocol, and a TLA+ module of them would restate them.
* The transport's progress function folds only the two completion epochs into the
  deadline; whether a timeout is *justified* is outside a model without time.

## 7. Plan

Done: the transport, the queue, the two pools, the pipeline, the ephemeral store, the training
step and the callback worker, each with its proof.

Next, in order:

1. `CPUInfer` as a composition: `~CPUInfer` deletes the worker pool before the queue whose
   worker may be inside a job; queue, distributor, layerwise producer and repack thread as
   callers of one pool (`do_numa_job` is not re-entrant).
2. Buffer replacement in `KExpertsCPUBuffer` with tasks pending, and
   `forward_on_pinned_buffers`, where one task is submitted by the host and the other by a
   stream callback.
3. Shared scratch memory: growth and relocation.

Every invariant and action property that a passing run checks and that is true of all sizes has a
theorem, except those listed under "What is only model-checked"; new modules bring their own.
