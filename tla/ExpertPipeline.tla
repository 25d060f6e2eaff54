--------------------------- MODULE ExpertPipeline ---------------------------
(***************************************************************************)
(* The per-layer CPU expert pipeline of kt-kernel (experts_base.py on top  *)
(* of CPUInfer).  For every layer the host copies the inputs to a pinned   *)
(* slot, submits the "immediate" experts (written to the layer's output    *)
(* slot) and the "deferred" experts (written to the next layer's output    *)
(* slot, where the next layer's immediate experts are added), and fetches  *)
(* the layer's output once at most the deferred task is pending.  There    *)
(* are two slots, used alternately.                                        *)
(*                                                                         *)
(* The actors are the host thread, the device stream, which runs copies    *)
(* and host callbacks in order, and the worker of the task queue (module   *)
(* TaskQueue), which is represented by what it implements: a FIFO of       *)
(* tasks.  All layers of a forward pass use the same pinned buffers (one   *)
(* batch size and output type).                                            *)
(***************************************************************************)
EXTENDS Integers, Sequences

CONSTANTS
    Modes,       \* the ways submit_forward and sync_forward reach the task
                 \* queue that are considered:
                 \*   "host"   bypass: directly, on the host thread
                 \*   "npu"    directly, after waiting for the device
                 \*   "cuda"   by callbacks on the stream
                 \*   "graph"  as "cuda", the first pass captured and replayed
                 \*   "pinned" run_pinned_forward_sync in one stream callback
    NumLayers,
    Defers,      \* the layers with max_deferred_experts_per_token > 0
    MaxFailures, \* bound: tasks that throw
    MaxPasses    \* bound: forward passes

ASSUME ModeAssumption == Modes \subseteq {"host", "npu", "cuda", "graph", "pinned"}
ASSUME SizeAssumption == NumLayers \in Nat \ {0} /\ MaxPasses \in Nat \ {0}
\* The caller configures no deferral in the last layer: nobody would add it.
ASSUME DefersAssumption == Defers \subseteq 0 .. NumLayers - 2
ASSUME FailAssumption == MaxFailures \in Nat

Layers == 0 .. NumLayers - 1
Passes == 1 .. MaxPasses

\* KExpertsCPUBuffer.buffer_depth, and the slots of a layer.
BufferDepth == 2
SlotOf(l) == l % BufferDepth
\* Mutant: the deferred experts go to the layer's own slot.
NextSlotSame(l) == SlotOf(l)

NextSlot(l) == (SlotOf(l) + 1) % BufferDepth

VARIABLES
    mode,              \* the device and the entry points, one for the whole run
    pc, pass, layer,   \* the host thread
    pendingDeferred,   \* _layer_has_pending_deferred[layer]
    input,             \* input[slot]: the inputs and expert ids copied last
    output,            \* output_cpu[slot]: the set of contributions summed up
    stream,            \* the operations queued on the device stream
    graph,             \* the operations captured in the first pass
    callback,          \* run_pinned_forward_sync has submitted its tasks
    queue,             \* the tasks that are pending, the oldest first
    running,           \* the worker is running the oldest
    exception,         \* TaskQueue::first_exception is set
    deviceError,       \* CPUInfer::device_callback_error_ is set
    launched,          \* number of SubmitArgs and SyncArgs allocated
    freed,             \* the ones that have been deleted
    \* history
    chose,             \* chose[pass][layer]: some expert was deferred
    result,            \* the last output copied to the device
    raised,            \* the passes in which the host got an exception
    failures           \* number of tasks that have thrown

OnHost == mode \in {"host", "npu"}
OnStream == mode \in {"cuda", "graph"}

host == <<pc, pass, layer>>
buffers == <<input, output>>
worker == <<queue, running, exception>>
args == <<launched, freed>>
vars == <<mode, host, pendingDeferred, buffers, stream, graph, callback, worker, deviceError,
          args, chose, result, raised, failures>>

\* What an input slot holds, and what a task adds to an output slot.
Inputs(p, l, d) == [pass |-> p, layer |-> l, deferred |-> d]
Part(kind, in) == [kind |-> kind, pass |-> in.pass, layer |-> in.layer]
Torn == [kind |-> "torn", pass |-> 0, layer |-> 0]

\* The output of a layer: its immediate experts and the deferred experts of
\* the layer before it, in the same pass.
Expected(p, l) ==
    {Part("immediate", Inputs(p, l, FALSE))} \cup
    IF l > 0 /\ chose[p][l - 1] THEN {Part("deferred", Inputs(p, l - 1, TRUE))} ELSE {}

Init ==
    /\ mode \in Modes
    /\ pc = "start" /\ pass = 1 /\ layer = 0
    /\ pendingDeferred = [l \in Layers |-> FALSE]
    /\ input = [s \in 0 .. BufferDepth - 1 |-> Inputs(0, 0, FALSE)]
    /\ output = [s \in 0 .. BufferDepth - 1 |-> {}]
    /\ stream = << >> /\ graph = << >> /\ callback = FALSE
    /\ queue = << >> /\ running = FALSE /\ exception = FALSE
    /\ deviceError = FALSE /\ launched = 0 /\ freed = {}
    /\ chose = [p \in Passes |-> [l \in Layers |-> FALSE]]
    /\ result = [pass |-> 0, layer |-> 0, value |-> {}]
    /\ raised = {} /\ failures = 0

-----------------------------------------------------------------------------
(* The tasks of a layer *)

\* The immediate experts are added to what the layer before has deferred.
Incremental(l) == l > 0 /\ pendingDeferred[l - 1]

Immediate(l) == [kind |-> "immediate", slot |-> SlotOf(l), out |-> SlotOf(l),
                 incremental |-> Incremental(l)]
Deferred(l) == [kind |-> "deferred", slot |-> SlotOf(l), out |-> NextSlot(l),
                incremental |-> FALSE]

\* Mutant: a pending task is always allowed.
AllowPendingAlways(l) == 1

\* sync returns when at most this many tasks are pending.
AllowPending(l) == IF pendingDeferred[l] THEN 1 ELSE 0
\* Mutant: sync waits for one task too many.
DrainedStrictly(n) == Len(queue) < n

Drained(n) == Len(queue) <= n

\* The operations of the stream.  What the callbacks of a submission and of a
\* sync do depends on their arguments only; their pass and layer are history.
CopyIn(l, d) == [op |-> "d2h", pass |-> pass, layer |-> l, deferred |-> d]
CopyOut(l) == [op |-> "h2d", pass |-> pass, layer |-> l]
Submit(l, task, a) == [op |-> "submit", pass |-> pass, layer |-> l, task |-> task, args |-> a]
Sync(l, n, a) == [op |-> "sync", pass |-> pass, layer |-> l, allow |-> n, args |-> a]
RunPinned(l) == [op |-> "run", pass |-> pass, layer |-> l]

\* The host queues operations on the stream, or captures them.
Capturing == mode = "graph" /\ pass = 1
Enqueue(ops) ==
    IF Capturing THEN graph' = graph \o ops /\ UNCHANGED stream
                 ELSE stream' = stream \o ops /\ UNCHANGED graph

\* _wait_device: everything on the stream has run.
DeviceIdle == stream = << >>

\* The host goes on with the next layer, or the next pass.
Advance ==
    IF layer + 1 < NumLayers
    THEN layer' = layer + 1 /\ pass' = pass /\ pc' = "start"
    ELSE layer' = 0 /\ pass' = pass + 1 /\ pc' = IF pass < MaxPasses THEN "start" ELSE "done"

\* The exception ends the pass; the caller may start another one.
Raise ==
    /\ raised' = raised \cup {pass}
    /\ layer' = 0 /\ pass' = pass + 1
    /\ pc' = IF pass < MaxPasses THEN "start" ELSE "done"

-----------------------------------------------------------------------------
(* submit_forward *)

\* _prepare_forward_cpu_buffers; d tells whether the router's choice leaves
\* some expert to defer.
Prepare(d) ==
    /\ OnHost /\ pc = "start"
    /\ d => layer \in Defers
    /\ chose' = [chose EXCEPT ![pass][layer] = d]
    /\ Enqueue(<<CopyIn(layer, d)>>)
    /\ pc' = "immediate"
    /\ UNCHANGED <<pass, layer, pendingDeferred, buffers, callback, worker, deviceError,
                   args, result, raised>>

SubmitImmediate ==
    /\ pc = "immediate" /\ DeviceIdle
    /\ queue' = Append(queue, Immediate(layer))
    /\ pendingDeferred' = [pendingDeferred EXCEPT ![layer] = FALSE]
    /\ pc' = IF layer \in Defers THEN "deferred" ELSE "sync"
    /\ UNCHANGED <<pass, layer, buffers, stream, graph, callback, running, exception,
                   deviceError, args, chose, result, raised>>

SubmitDeferred ==
    /\ pc = "deferred" /\ DeviceIdle
    /\ queue' = Append(queue, Deferred(layer))
    /\ pendingDeferred' = [pendingDeferred EXCEPT ![layer] = TRUE]
    /\ pc' = "sync"
    /\ UNCHANGED <<pass, layer, buffers, stream, graph, callback, running, exception,
                   deviceError, args, chose, result, raised>>

\* With callbacks nothing waits: the copies and the submissions are queued.
SubmitOnStream(d) ==
    LET a == launched + 1 IN
    /\ OnStream /\ pc = "start" /\ (mode = "graph" => Capturing)
    /\ d => layer \in Defers
    /\ chose' = [chose EXCEPT ![pass][layer] = d]
    /\ Enqueue(<<CopyIn(layer, d), Submit(layer, Immediate(layer), a)>> \o
               IF layer \in Defers THEN <<Submit(layer, Deferred(layer), a + 1)>> ELSE << >>)
    /\ launched' = IF layer \in Defers THEN a + 1 ELSE a
    /\ pendingDeferred' = [pendingDeferred EXCEPT ![layer] = layer \in Defers]
    /\ pc' = "sync"
    /\ UNCHANGED <<pass, layer, buffers, callback, worker, deviceError, freed, result, raised>>

-----------------------------------------------------------------------------
(* sync_forward and copy_forward_output_to_device *)

SyncForward ==
    /\ OnHost /\ pc = "sync"
    /\ mode = "npu" => DeviceIdle
    /\ Drained(AllowPending(layer))
    /\ exception' = FALSE
    /\ IF exception THEN Raise /\ UNCHANGED <<stream, graph>>
                    ELSE Advance /\ Enqueue(<<CopyOut(layer)>>) /\ UNCHANGED raised
    /\ UNCHANGED <<pendingDeferred, buffers, callback, queue, running, deviceError, args,
                   chose, result>>

\* sync_with_cuda_stream first rethrows what a callback has recorded.
SyncOnStream ==
    /\ OnStream /\ pc = "sync"
    /\ deviceError' = FALSE
    /\ IF deviceError
       THEN Raise /\ UNCHANGED <<stream, graph, launched>>
       ELSE /\ Advance
            /\ launched' = launched + 1
            /\ Enqueue(<<Sync(layer, AllowPending(layer), launched + 1), CopyOut(layer)>>)
            /\ UNCHANGED raised
    /\ UNCHANGED <<pendingDeferred, buffers, callback, worker, freed, chose, result>>

\* A captured operation that is launched again: the choices ds of the router are
\* new, the flags and arguments are those of the capture.
Again(o, ds) ==
    IF o.op = "d2h" THEN [o EXCEPT !.pass = pass, !.deferred = ds[o.layer]]
                    ELSE [o EXCEPT !.pass = pass]

\* The captured operations are launched again, as the next pass.
Replay(ds) ==
    /\ mode = "graph" /\ pc = "start" /\ ~Capturing
    /\ \A l \in Layers : ds[l] => l \in Defers
    /\ stream' = stream \o [i \in DOMAIN graph |-> Again(graph[i], ds)]
    /\ chose' = [chose EXCEPT ![pass] = ds]
    /\ pass' = pass + 1
    /\ pc' = IF pass < MaxPasses THEN "start" ELSE "done"
    /\ UNCHANGED <<layer, pendingDeferred, buffers, graph, callback, worker, deviceError,
                   args, result, raised>>

\* copy_inputs_to_cpu_buffers, the launch of run_pinned_forward_sync as a host
\* callback, and copy_forward_output_to_device.
LaunchPinned(d) ==
    /\ mode = "pinned" /\ pc = "start"
    /\ d => layer \in Defers
    /\ chose' = [chose EXCEPT ![pass][layer] = d]
    /\ Enqueue(<<CopyIn(layer, d), RunPinned(layer), CopyOut(layer)>>)
    /\ Advance
    /\ UNCHANGED <<pendingDeferred, buffers, callback, worker, deviceError, args, result,
                   raised>>

-----------------------------------------------------------------------------
(* The device stream *)

StreamStep(op) == stream # << >> /\ Head(stream).op = op /\ stream' = Tail(stream)

StreamCopyIn ==
    LET o == Head(stream) IN
    /\ StreamStep("d2h")
    /\ input' = [input EXCEPT ![SlotOf(o.layer)] = Inputs(o.pass, o.layer, o.deferred)]
    /\ UNCHANGED <<host, pendingDeferred, output, graph, callback, worker, deviceError,
                   args, chose, result, raised>>

\* submit_callback_ deletes its arguments when it is done.
StreamSubmit ==
    LET o == Head(stream) IN
    /\ StreamStep("submit")
    /\ queue' = Append(queue, o.task)
    /\ freed' = freed \cup {o.args}
    /\ UNCHANGED <<host, pendingDeferred, buffers, graph, callback, running, exception,
                   deviceError, launched, chose, result, raised>>

\* Mutant: the callback swallows the exception.
StreamSyncSilent ==
    LET o == Head(stream) IN
    /\ StreamStep("sync")
    /\ Drained(o.allow)
    /\ exception' = FALSE
    /\ freed' = freed \cup {o.args}
    /\ UNCHANGED <<host, pendingDeferred, buffers, graph, callback, queue, running,
                   deviceError, launched, chose, result, raised>>

\* sync_callback_ keeps the exception for the host, and the stream goes on.
StreamSync ==
    LET o == Head(stream) IN
    /\ StreamStep("sync")
    /\ Drained(o.allow)
    /\ deviceError' = (deviceError \/ exception)
    /\ exception' = FALSE
    /\ freed' = freed \cup {o.args}
    /\ UNCHANGED <<host, pendingDeferred, buffers, graph, callback, queue, running,
                   launched, chose, result, raised>>

StreamCopyOut ==
    LET o == Head(stream) IN
    /\ StreamStep("h2d")
    /\ result' = [pass |-> o.pass, layer |-> o.layer, value |-> output[SlotOf(o.layer)]]
    /\ UNCHANGED <<host, pendingDeferred, buffers, graph, callback, worker, deviceError,
                   args, chose, raised>>

\* run_pinned_forward_sync: submits the deferred task only if the copied ids
\* have one, ...
PinnedSubmit ==
    LET l == Head(stream).layer
        hasDeferred == l \in Defers /\ input[SlotOf(l)].deferred IN
    /\ stream # << >> /\ Head(stream).op = "run" /\ ~callback
    /\ callback' = TRUE
    /\ queue' = queue \o <<Immediate(l)>> \o IF hasDeferred THEN <<Deferred(l)>> ELSE << >>
    /\ pendingDeferred' = [pendingDeferred EXCEPT ![l] = hasDeferred]
    /\ UNCHANGED <<host, buffers, stream, graph, running, exception, deviceError, args,
                   chose, result, raised>>

\* ... then waits for the immediate one.
PinnedReturn ==
    /\ callback
    /\ Drained(AllowPending(Head(stream).layer))
    /\ StreamStep("run")
    /\ callback' = FALSE
    /\ UNCHANGED <<host, pendingDeferred, buffers, graph, worker, deviceError, args, chose,
                   result, raised>>

-----------------------------------------------------------------------------
(* The worker of the task queue *)

TaskBegin ==
    /\ queue # << >> /\ ~running
    /\ running' = TRUE
    /\ UNCHANGED <<host, pendingDeferred, buffers, stream, graph, callback, queue,
                   exception, deviceError, args, chose, result, raised>>

\* A deferred task whose ids are all -1 writes zeros.
TaskEnd ==
    LET t == Head(queue)
        in == input[t.slot]
        sum == IF t.kind = "deferred" /\ ~in.deferred THEN {} ELSE {Part(t.kind, in)} IN
    /\ running
    /\ running' = FALSE /\ queue' = Tail(queue)
    /\ output' = [output EXCEPT ![t.out] = IF t.incremental THEN @ \cup sum ELSE sum]
    /\ UNCHANGED <<host, pendingDeferred, input, stream, graph, callback, exception,
                   deviceError, args, chose, result, raised>>

\* The task throws with its output half written; the queue keeps the exception.
\* (In the callback of the pinned mode it would go to an external caller.)
TaskThrows ==
    /\ failures < MaxFailures /\ mode # "pinned" /\ running
    /\ failures' = failures + 1
    /\ running' = FALSE /\ queue' = Tail(queue)
    /\ output' = [output EXCEPT ![Head(queue).out] = {Torn}]
    /\ exception' = TRUE
    /\ UNCHANGED <<host, pendingDeferred, input, stream, graph, callback, deviceError,
                   args, chose, result, raised>>

-----------------------------------------------------------------------------

HostNext ==
    /\ UNCHANGED <<mode, failures>>
    /\ \/ \E d \in BOOLEAN : Prepare(d) \/ SubmitOnStream(d) \/ LaunchPinned(d)
       \/ SubmitImmediate \/ SubmitDeferred \/ SyncForward \/ SyncOnStream
       \/ \E ds \in [Layers -> BOOLEAN] : Replay(ds)

StreamNext ==
    /\ UNCHANGED <<mode, failures>>
    /\ \/ StreamCopyIn \/ StreamSubmit \/ StreamSync \/ StreamCopyOut
       \/ PinnedSubmit \/ PinnedReturn

WorkerNext ==
    /\ UNCHANGED mode
    /\ \/ (TaskBegin \/ TaskEnd) /\ UNCHANGED failures
       \/ TaskThrows

Next == HostNext \/ StreamNext \/ WorkerNext

Spec == Init /\ [][Next]_vars

\* The caller runs all its passes, the device runs its stream, the worker its
\* queue (module TaskQueue: TasksRun).
FairSpec == Spec /\ WF_vars(HostNext) /\ WF_vars(StreamNext) /\ WF_vars(WorkerNext)

-----------------------------------------------------------------------------
(* Properties *)

Slots == 0 .. BufferDepth - 1
Parts == [kind : {"immediate", "deferred", "torn"}, pass : 0 .. MaxPasses, layer : Layers]
Tasks == [kind : {"immediate", "deferred"}, slot : Slots, out : Slots, incremental : BOOLEAN]
Ops == [op : {"d2h"}, pass : Passes, layer : Layers, deferred : BOOLEAN] \cup
       [op : {"h2d", "run"}, pass : Passes, layer : Layers] \cup
       [op : {"submit"}, pass : Passes, layer : Layers, task : Tasks, args : Nat] \cup
       [op : {"sync"}, pass : Passes, layer : Layers, allow : {0, 1}, args : Nat]

\* Every variable of the pipeline holds a value of its kind.
TypeOK ==
    /\ mode \in Modes
    /\ pc \in {"start", "immediate", "deferred", "sync", "done"}
    /\ pass \in 1 .. MaxPasses + 1 /\ layer \in Layers
    /\ pendingDeferred \in [Layers -> BOOLEAN]
    /\ input \in [Slots -> [pass : 0 .. MaxPasses, layer : Layers, deferred : BOOLEAN]]
    /\ output \in [Slots -> SUBSET Parts]
    /\ stream \in Seq(Ops) /\ graph \in Seq(Ops) /\ queue \in Seq(Tasks)
    /\ callback \in BOOLEAN /\ running \in BOOLEAN /\ exception \in BOOLEAN
    /\ running => queue # << >>
    /\ deviceError \in BOOLEAN /\ launched \in Nat /\ freed \subseteq Nat
    /\ chose \in [Passes -> [Layers -> BOOLEAN]]
    /\ result \in [pass : 0 .. MaxPasses, layer : Layers, value : SUBSET Parts]
    /\ raised \subseteq Passes /\ failures \in 0 .. MaxFailures

\* Every output that is copied to the device is the sum of exactly the
\* immediate experts of its layer and the deferred experts of the layer
\* before: nothing missing, twice, stale or of another pass, although a
\* deferred task may run while the next layers are already under way.
ResultCorrect == failures = 0 /\ result.pass # 0 => result.value = Expected(result.pass, result.layer)

\* The stream never copies into an input slot that a running task reads, nor
\* out of an output slot that a running task writes.  (After a failed immediate
\* task the deferred one of that layer still runs when the next pass begins.)
NoBufferRace ==
    failures = 0 /\ running /\ stream # << >> =>
        LET o == Head(stream)  t == Head(queue) IN
        /\ o.op = "d2h" => SlotOf(o.layer) # t.slot
        /\ o.op = "h2d" => SlotOf(o.layer) # t.out

\* When a task throws, the host paths copy no wrong output to the device.  With
\* callbacks one can get there, but then the error is kept for the host or has
\* been thrown, in that pass or in a later one.
FailureSurfaces ==
    result.pass # 0 /\ result.value # Expected(result.pass, result.layer) =>
        OnStream /\ (deviceError \/ \E p \in raised : p >= result.pass)

\* Every pass ends and leaves nothing behind: no wait of the host, of a
\* callback or of the stream is for something that never comes.
PipelineDrains == <>(pc = "done" /\ stream = << >> /\ queue = << >>)

\* A host callback that the stream reaches still has its arguments.
CallbackArgsLive ==
    stream # << >> /\ Head(stream).op \in {"submit", "sync"} => Head(stream).args \notin freed
=============================================================================
