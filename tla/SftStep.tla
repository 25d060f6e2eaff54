------------------------------ MODULE SftStep -------------------------------
(***************************************************************************)
(* A training step of kt-kernel's fine-tuning runtime over several ranks   *)
(* (sft/layer.py, sft/autograd.py, sft/dist_utils.py, sft/base.py and the  *)
(* C++ backend in operators/moe-sft-tp.hpp and operators/amx/sft_moe.hpp). *)
(*                                                                         *)
(* Every rank goes forward through the expert layers and backward through  *)
(* them again, with a recompute of each layer when activations are         *)
(* checkpointed.  Rank 0 owns the experts: the others send it their rows,  *)
(* and a failure of rank 0 is broadcast to them before the next collective *)
(* operation.  The backend of a layer keeps the output of the first        *)
(* forward for the recompute (policy "retain"), the forward activations    *)
(* for the backward, and the gradients of the optimizer window.  All       *)
(* layers share the packed weights that the backward needs (BufferB);      *)
(* those of the next layer are packed by a thread of their own.            *)
(*                                                                         *)
(* The full-weight mode with C++-authoritative gradients is modelled, with *)
(* share_backward_bb and a shared expert on the GPU; every rank has rows.  *)
(***************************************************************************)
EXTENDS Naturals, Sequences

CONSTANTS
    NumRanks,      \* processes of the group
    NumLayers,     \* expert layers
    MaxBatches,    \* bound: forward and backward passes
    MaxFailures    \* bound: failures of any kind

ASSUME SizeAssumption == NumRanks \in Nat \ {0} /\ NumLayers \in Nat \ {0}
ASSUME BoundAssumption == MaxBatches \in Nat \ {0} /\ MaxFailures \in Nat

Ranks == 0 .. NumRanks - 1
Layers == 1 .. NumLayers
Batches == 0 .. MaxBatches   \* 0: none

\* KTActivationPolicy: "retain" keeps the CPU side and recomputes the GPU side,
\* "recompute" recomputes both, "none" keeps both (no checkpointing).
Policies == {"retain", "recompute", "none"}

VARIABLES
    policy,             \* per rank
    pc, at, phase,      \* per rank: where it is, the layer, and in which pass
    err,                \* per rank: it has failed and not yet said so
    \* the backends of rank 0, per layer
    cache, kept,        \* state of the checkpoint cache, and the batch in it
    depth,              \* _cache_depth
    saved, popped,      \* the batch in the C++ forward cache; the one popped last
    shared,             \* the layer and batch in the cache pool that layers share
    queue, fault,       \* CPUInfer: forward tasks, and the exception of one
    output, result,     \* the layer and batch in the output buffer; in what rank 0 scatters
    open, adding,       \* Parameter.grad is the C++ buffer; the task adds to it
    grads, torn,        \* the batches in the buffer; a task failed half way
    \* BufferB of the backward
    bb,                 \* its owner, and what it really holds
    repack, waits,      \* per layer: the thread; _backward_repack_pending
    version,            \* of the weights, after so many optimizer steps
    packed, dirty,      \* per layer: that of the C++ weights; _base_weights_dirty
    \* history
    batch, since,       \* the current batch; those since the last optimizer step
    failures,
    alone,              \* a rank failed where its peers cannot learn of it
    broken              \* a pack of BufferB failed, and none has succeeded since

ranks == <<pc, at, phase, err>>
caches == <<cache, kept, depth, saved, popped, shared>>
tasks == <<queue, fault, output, result>>
window == <<open, adding, grads, torn>>
buffer == <<bb, repack, waits>>
weights == <<version, packed, dirty>>
history == <<batch, since, failures, alone, broken>>
vars == <<policy, ranks, caches, tasks, window, buffer, weights, history>>

First(r) == IF policy[r] = "none" THEN "none" ELSE "first"

Init ==
    /\ policy \in [Ranks -> Policies]
    /\ pc = [r \in Ranks |-> "enter"]
    /\ at = [r \in Ranks |-> 1]
    /\ phase = [r \in Ranks |-> First(r)]
    /\ err = [r \in Ranks |-> FALSE]
    /\ cache = [l \in Layers |-> "EMPTY"]
    /\ kept = [l \in Layers |-> 0]
    /\ depth = [l \in Layers |-> 0]
    /\ saved = [l \in Layers |-> 0]
    /\ popped = 0
    /\ shared = <<0, 0>>
    /\ queue = <<>> /\ fault = FALSE
    /\ output = <<0, 0>> /\ result = <<0, 0>>
    /\ open = [l \in Layers |-> FALSE]
    /\ adding = FALSE
    /\ grads = [l \in Layers |-> {}]
    /\ torn = [l \in Layers |-> FALSE]
    /\ bb = [owner |-> 0, holds |-> 0, version |-> 0]
    /\ repack = [l \in Layers |-> "off"]
    /\ waits = [l \in Layers |-> FALSE]
    /\ version = 1
    /\ packed = [l \in Layers |-> 1]
    /\ dirty = [l \in Layers |-> FALSE]
    /\ batch = 1 /\ since = {} /\ failures = 0
    /\ alone = FALSE /\ broken = FALSE

-----------------------------------------------------------------------------
(* Ranks and collective operations *)

\* _activation_checkpoint_action
Caches(r) == policy[r] = "retain" /\ phase[r] = "first"
Reuses(r) == policy[r] = "retain" /\ phase[r] = "recompute"

\* The submitted forward keeps its activations for the backward.
Saves == phase[0] # "first" \/ Caches(0)

\* An exception ends the pass, or the recompute inside the backward.
Thrown(r) == IF phase[r] = "recompute" THEN "recomputed" ELSE "raised"

Fails == failures < MaxFailures /\ failures' = failures + 1
NoFailure == UNCHANGED failures

\* All ranks are at the collective operation, and leave it together: rank 0 for
\* one place, the others for another.
Meet(from, rank0, others) ==
    /\ \A r \in Ranks : pc[r] = from
    /\ pc' = [r \in Ranks |-> IF r = 0 THEN rank0 ELSE others]

MeetAndRaise(from) ==
    /\ \A r \in Ranks : pc[r] = from
    /\ pc' = [r \in Ranks |-> Thrown(r)]
    /\ err' = [r \in Ranks |-> phase[r] = "recompute"]

\* A step of rank 0 alone, which may end with an error for the peers.
Rank0(from, to, failed) ==
    /\ pc[0] = from
    /\ pc' = [pc EXCEPT ![0] = to]
    /\ err' = [err EXCEPT ![0] = failed]
    /\ UNCHANGED <<policy, at, phase>>

\* poison_checkpoint_output, under a condition
PoisonWhen(cond, l) ==
    /\ cache' = IF cond THEN [cache EXCEPT ![l] = "POISONED"] ELSE cache
    /\ kept' = IF cond THEN [kept EXCEPT ![l] = 0] ELSE kept

\* The rest of the decoder layer, up to the experts; in a recompute it may fail
\* on one rank, whose peers are on the way to the next collective operation.
Enter(r) ==
    /\ pc[r] = "enter"
    /\ \/ /\ pc' = [pc EXCEPT ![r] = "agree"]
          /\ UNCHANGED <<err, failures, alone>>
       \/ /\ phase[r] = "recompute" /\ Fails
          /\ pc' = [pc EXCEPT ![r] = "recomputed"]
          /\ err' = [err EXCEPT ![r] = TRUE]
          /\ alone' = TRUE
    /\ UNCHANGED <<policy, at, phase, caches, tasks, window, buffer, weights, batch, since,
                   broken>>

\* _all_gather_checkpoint_state: layer, phase and policy are the same, or all raise.
Agree ==
    /\ LET controls(r) == <<at[r], phase[r], policy[r]>>
           same == \A r \in Ranks : controls(r) = controls(0)
       IN \/ same /\ Meet("agree", "prepare", IF Reuses(0) THEN "submitted" ELSE "gather")
                  /\ UNCHANGED err
          \/ ~same /\ MeetAndRaise("agree")
    /\ UNCHANGED <<policy, at, phase, caches, tasks, window, buffer, weights, history>>

-----------------------------------------------------------------------------
(* Forward *)

\* _refresh_backend_weights: after an optimizer step the weights are loaded anew
\* by a task; the exception of an earlier task comes out of its sync.
Refresh(l, failed) ==
    \/ /\ ~dirty[l] /\ ~failed
       /\ UNCHANGED <<fault, weights, failures>>
    \/ /\ dirty[l] /\ queue = <<>>
       /\ packed' = [packed EXCEPT ![l] = version]
       /\ failed = fault
       /\ fault' = FALSE
       /\ dirty' = [dirty EXCEPT ![l] = failed]
       /\ UNCHANGED <<version, failures>>
    \/ /\ dirty[l] /\ queue = <<>> /\ failed /\ Fails
       /\ UNCHANGED <<fault, weights>>

\* validate_checkpoint_cache_empty before a first forward; validate_checkpoint_output
\* before the output is used again.
Prepare ==
    /\ \E failed \in BOOLEAN :
         LET l == at[0]
             invalid == \/ Caches(0) /\ cache[l] # "EMPTY"
                        \/ Reuses(0) /\ cache[l] # "READY"
             bad == failed \/ invalid
         IN /\ Refresh(l, failed)
            /\ Rank0("prepare", IF Reuses(0) THEN "submitted" ELSE "gather", bad)
            /\ PoisonWhen(bad /\ (Reuses(0) \/ ~failed), l)
    /\ UNCHANGED <<depth, saved, popped, shared, queue, output, result, window, buffer, batch,
                   since, alone, broken>>

\* _dist_gather_varlen_to_rank0, for the rows, the expert ids and the weights
Gather ==
    /\ Meet("gather", "submit", "submitted")
    /\ UNCHANGED <<policy, at, phase, err, caches, tasks, window, buffer, weights, history>>

\* Mutant: a thread that failed is never joined.
JoinRepackForever(l, failed) ==
    /\ waits[l] => repack[l] = "off"
    /\ ~failed
    /\ waits' = [waits EXCEPT ![l] = FALSE]
    /\ UNCHANGED repack

\* _wait_for_pending_backward_repack: the exception of the thread comes out of the
\* join, and _backward_repack_pending is then left as it is.
JoinRepack(l, failed) ==
    /\ waits[l] => repack[l] # "running"
    /\ failed = (waits[l] /\ repack[l] = "failed")
    /\ repack' = [repack EXCEPT ![l] = IF waits[l] THEN "off" ELSE @]
    /\ waits' = [waits EXCEPT ![l] = @ /\ failed]

ForwardTask == [layer |-> at[0], batch |-> batch, save |-> Saves]

SubmitError == Rank0("submit", "submitted", TRUE) /\ PoisonWhen(Caches(0), at[0])

\* Mutant: the forward does not wait for the repack.
SubmitUnwaited ==
    /\ pc[0] = "submit"
    /\ Rank0("submit", "submitted", err[0])
    /\ queue' = IF err[0] THEN queue ELSE Append(queue, ForwardTask)
    /\ PoisonWhen(err[0] /\ Caches(0), at[0])
    /\ NoFailure
    /\ UNCHANGED <<depth, saved, popped, shared, fault, output, result, window, buffer,
                   weights, batch, since, alone, broken>>

\* submit_forward, unless rank 0 has already failed
Submit ==
    /\ \/ /\ err[0] /\ SubmitError /\ NoFailure
          /\ UNCHANGED <<queue, repack, waits>>
       \/ /\ ~err[0]
          /\ \E failed \in BOOLEAN :
               /\ JoinRepack(at[0], failed)
               /\ \/ /\ ~failed /\ NoFailure
                     /\ Rank0("submit", "submitted", FALSE)
                     /\ queue' = Append(queue, ForwardTask)
                     /\ PoisonWhen(FALSE, at[0])
                  \/ /\ SubmitError
                     /\ IF failed THEN NoFailure ELSE Fails
                     /\ UNCHANGED queue
    /\ UNCHANGED <<depth, saved, popped, shared, fault, output, result, window, bb, weights,
                   batch, since, alone, broken>>

\* _sync_rank0_exception after the validation or the submission
Submitted ==
    /\ \/ ~err[0] /\ Meet("submitted", "gpu", "gpu") /\ UNCHANGED err
       \/ err[0] /\ MeetAndRaise("submitted")
    /\ UNCHANGED <<policy, at, phase, caches, tasks, window, buffer, weights, history>>

\* The shared expert on the GPU of a rank
Gpu(r) ==
    /\ pc[r] = "gpu"
    /\ pc' = [pc EXCEPT ![r] = "sync2"]
    /\ \/ NoFailure /\ UNCHANGED err
       \/ Fails /\ err' = [err EXCEPT ![r] = TRUE]
    /\ UNCHANGED <<policy, at, phase, caches, tasks, window, buffer, weights, batch, since,
                   alone, broken>>

\* _sync_any_rank_exception after it
GpuSync ==
    /\ \/ /\ \A r \in Ranks : ~err[r]
          /\ Meet("sync2", "collect", "sync3")
          /\ UNCHANGED <<err, cache, kept>>
       \/ /\ \E r \in Ranks : err[r]
          /\ MeetAndRaise("sync2")
          /\ PoisonWhen(Caches(0) \/ Reuses(0), at[0])
    /\ UNCHANGED <<policy, at, phase, depth, saved, popped, shared, tasks, window, buffer,
                   weights, history>>

\* Mutant: an entry that is there already is kept.
RunTaskKeeps ==
    /\ queue # <<>>
    /\ LET t == Head(queue)
       IN /\ output' = <<t.layer, t.batch>>
          /\ saved' = [saved EXCEPT ![t.layer] = IF t.save /\ @ = 0 THEN t.batch ELSE @]
          /\ shared' = IF t.save THEN <<t.layer, saved'[t.layer]>> ELSE shared
    /\ queue' = Tail(queue)
    /\ NoFailure
    /\ UNCHANGED <<policy, ranks, cache, kept, depth, popped, fault, result, window, buffer,
                   weights, batch, since, alone, broken>>

\* CPUInfer runs a forward task.  An entry of the forward cache that is there already
\* is overwritten.  A task that fails has written it or not.
RunTask ==
    /\ queue # <<>>
    /\ queue' = Tail(queue)
    /\ LET t == Head(queue)
           save == /\ saved' = [saved EXCEPT ![t.layer] = t.batch]
                   /\ shared' = <<t.layer, t.batch>>
       IN /\ \/ NoFailure /\ output' = <<t.layer, t.batch>> /\ UNCHANGED fault
             \/ Fails /\ fault' = TRUE /\ UNCHANGED output
          /\ \/ t.save /\ save
             \/ (~t.save \/ failures' # failures) /\ UNCHANGED <<saved, shared>>
    /\ UNCHANGED <<policy, ranks, cache, kept, depth, popped, result, window, buffer, weights,
                   batch, since, alone, broken>>

\* sync_forward has returned: _cache_depth counts the entry once.
Counted(l) == [depth EXCEPT ![l] = IF Saves /\ @ = 0 THEN 1 ELSE @]

\* cache_checkpoint_output
CacheOutput(l) ==
    /\ cache' = [cache EXCEPT ![l] = "READY"]
    /\ kept' = [kept EXCEPT ![l] = output[2]]

\* The result of a forward: from the checkpoint cache, or from the task.
CollectCached ==
    /\ Reuses(0)
    /\ LET l == at[0]
       IN \/ /\ cache[l] = "READY" /\ NoFailure
             /\ Rank0("collect", "sync3", FALSE)
             /\ result' = <<l, kept[l]>>
             /\ PoisonWhen(FALSE, l)
          \/ /\ IF cache[l] = "READY" THEN Fails ELSE NoFailure
             /\ Rank0("collect", "sync3", TRUE)
             /\ PoisonWhen(TRUE, l)
             /\ UNCHANGED result
    /\ UNCHANGED <<depth, saved, popped, shared, queue, fault, output, window, buffer, weights,
                   batch, since, alone, broken>>

\* Mutant: the buffer is read without a sync.
CollectUnsynced ==
    /\ ~Reuses(0)
    /\ Rank0("collect", "sync3", FALSE)
    /\ depth' = Counted(at[0])
    /\ result' = output
    /\ IF Caches(0) THEN CacheOutput(at[0]) ELSE UNCHANGED <<cache, kept>>
    /\ NoFailure
    /\ UNCHANGED <<saved, popped, shared, queue, fault, output, window, buffer, weights,
                   batch, since, alone, broken>>

\* Mutant: rank 0 raises without telling its peers.
CollectLocal ==
    /\ ~Reuses(0) /\ queue = <<>>
    /\ Rank0("collect", IF fault THEN Thrown(0) ELSE "sync3", FALSE)
    /\ depth' = Counted(at[0])
    /\ result' = output /\ fault' = FALSE
    /\ IF Caches(0) /\ ~fault THEN CacheOutput(at[0]) ELSE PoisonWhen(Caches(0), at[0])
    /\ NoFailure
    /\ UNCHANGED <<saved, popped, shared, queue, output, window, buffer, weights,
                   batch, since, alone, broken>>

CollectTask ==
    /\ ~Reuses(0) /\ queue = <<>>
    /\ fault' = FALSE
    /\ LET l == at[0]
       IN /\ depth' = IF fault THEN depth ELSE Counted(l)
          /\ \/ /\ ~fault /\ NoFailure
                /\ Caches(0) => cache[l] = "EMPTY"
                /\ Rank0("collect", "sync3", FALSE)
                /\ result' = output
                /\ IF Caches(0) THEN CacheOutput(l) ELSE UNCHANGED <<cache, kept>>
             \/ /\ IF fault \/ (Caches(0) /\ cache[l] # "EMPTY") THEN NoFailure ELSE Fails
                /\ Rank0("collect", "sync3", TRUE)
                /\ PoisonWhen(Caches(0), l)
                /\ UNCHANGED result
    /\ UNCHANGED <<saved, popped, shared, queue, output, window, buffer, weights, batch, since,
                   alone, broken>>

\* _sync_rank0_exception and the scatter.  A forward goes on with the next layer, or
\* turns back at the last; a recompute ends here.
Turns == at[0] = NumLayers

Collected ==
    /\ \/ err[0] /\ MeetAndRaise("sync3") /\ UNCHANGED <<at, phase>>
       \/ /\ ~err[0] /\ UNCHANGED err
          /\ LET to == CASE phase[0] = "recompute"        -> "recomputed"
                         [] Turns /\ phase[0] = "none" -> "grad"
                         [] OTHER                      -> "enter"
             IN Meet("sync3", to, to)
          /\ at' = [r \in Ranks |-> IF phase[r] = "recompute" \/ Turns THEN at[r]
                                                                       ELSE at[r] + 1]
          /\ phase' = [r \in Ranks |-> IF ~Turns \/ phase[r] = "recompute" THEN phase[r]
                                       ELSE IF phase[r] = "none" THEN "backward"
                                                                 ELSE "recompute"]
    /\ UNCHANGED <<policy, caches, tasks, window, buffer, weights, history>>

-----------------------------------------------------------------------------
(* Backward *)

\* The recompute has ended, with an exception or without; what follows the experts
\* in it may fail too.  Only with a retained cache are the others told.
Recomputed(r) ==
    /\ pc[r] = "recomputed"
    /\ phase' = [phase EXCEPT ![r] = "backward"]
    /\ \E late \in BOOLEAN :
         /\ IF late THEN ~err[r] /\ Fails ELSE NoFailure
         /\ \/ /\ policy[r] = "retain"
               /\ pc' = [pc EXCEPT ![r] = "sync4"]
               /\ err' = [err EXCEPT ![r] = @ \/ late]
               /\ UNCHANGED alone
            \/ /\ policy[r] # "retain"
               /\ pc' = [pc EXCEPT ![r] = IF err[r] \/ late THEN "raised" ELSE "grad"]
               /\ err' = [err EXCEPT ![r] = FALSE]
               /\ alone' = (alone \/ late)
    /\ UNCHANGED <<policy, at, caches, tasks, window, buffer, weights, batch, since, broken>>

\* _sync_any_rank_exception after the recompute
RecomputeSync ==
    /\ \/ /\ \A r \in Ranks : ~err[r]
          /\ Meet("sync4", "grad", "grad")
          /\ UNCHANGED <<err, cache, kept>>
       \/ /\ \E r \in Ranks : err[r]
          /\ MeetAndRaise("sync4")
          /\ PoisonWhen(TRUE, at[0])
    /\ UNCHANGED <<policy, at, phase, depth, saved, popped, shared, tasks, window, buffer,
                   weights, history>>

\* The gradients of the output are gathered on rank 0.
GatherGrads ==
    /\ Meet("grad", "compute", "sync5")
    /\ UNCHANGED <<policy, at, phase, err, caches, tasks, window, buffer, weights, history>>

\* clear_checkpoint_output, in every case; a failure has poisoned a retained cache before.
ClearOutput(l, failed) ==
    /\ cache' = [cache EXCEPT ![l] = IF \/ @ = "POISONED"
                                        \/ failed /\ policy[0] = "retain"
                                     THEN "POISONED" ELSE "EMPTY"]
    /\ kept' = [kept EXCEPT ![l] = 0]

\* Mutant: the window stays open.
AbortKeepsWindow(from, l) ==
    /\ Rank0(from, "sync5", TRUE)
    /\ depth' = [depth EXCEPT ![l] = 0]
    /\ ClearOutput(l, TRUE)
    /\ adding' = FALSE /\ popped' = 0
    /\ UNCHANGED open

\* _abort_authoritative_optimizer_grad_write closes the window, so that the next task
\* overwrites; _cache_depth counts one entry less.
AbortBackward(from, l) ==
    /\ Rank0(from, "sync5", TRUE)
    /\ open' = [open EXCEPT ![l] = FALSE]
    /\ depth' = [depth EXCEPT ![l] = 0]
    /\ ClearOutput(l, TRUE)
    /\ adding' = FALSE /\ popped' = 0

\* backward of the wrapper, up to the submission of the task: the task adds to the
\* gradients when the window is open.
Compute ==
    /\ LET l == at[0]
       IN \/ /\ depth[l] = 0
             /\ Rank0("compute", "sync5", TRUE)
             /\ ClearOutput(l, TRUE)
             /\ UNCHANGED <<depth, popped, open, adding, repack, waits>>
          \/ /\ depth[l] > 0
             /\ \E failed \in BOOLEAN :
                  /\ JoinRepack(l, failed)
                  /\ \/ failed /\ AbortBackward("compute", l)
                     \/ /\ ~failed
                        /\ Rank0("compute", "pop", FALSE)
                        /\ adding' = open[l]
                        /\ UNCHANGED <<cache, kept, depth, popped, open>>
    /\ UNCHANGED <<saved, shared, tasks, grads, torn, bb, weights, history>>

Packed(l) == [owner |-> l, holds |-> l, version |-> packed[l]]

\* Mutant: the thread is relied on, the owner is not looked at.
PopUnchecked ==
    /\ pc[0] = "pop" /\ saved[at[0]] # 0
    /\ Rank0("pop", "gemm", FALSE)
    /\ popped' = saved[at[0]]
    /\ saved' = [saved EXCEPT ![at[0]] = 0]
    /\ NoFailure
    /\ UNCHANGED <<cache, kept, depth, shared, tasks, window, buffer, weights, batch, since,
                   alone, broken>>

\* The task takes the entry of the forward cache and packs the weights into BufferB,
\* unless its owner says that they are there.  A pack that fails leaves the owner.
Pop ==
    /\ pc[0] = "pop" /\ queue = <<>>
    /\ LET l == at[0]
       IN /\ saved' = [saved EXCEPT ![l] = 0]
          /\ \/ /\ saved[l] # 0 /\ NoFailure
                /\ Rank0("pop", "gemm", FALSE)
                /\ popped' = saved[l]
                /\ bb' = IF bb.owner = l THEN bb ELSE Packed(l)
                /\ broken' = (broken /\ bb.owner = l)
                /\ UNCHANGED <<cache, kept, depth, open, adding>>
             \/ /\ saved[l] = 0 /\ NoFailure
                /\ AbortBackward("pop", l)
                /\ UNCHANGED <<bb, broken>>
             \/ /\ saved[l] # 0 /\ bb.owner # l /\ Fails
                /\ AbortBackward("pop", l)
                /\ bb' = [bb EXCEPT !.holds = 0]
                /\ broken' = TRUE
    /\ UNCHANGED <<shared, tasks, grads, torn, repack, waits, weights, batch, since, alone>>

\* The task writes the gradients, and the window is published; or it fails, and may
\* have modified some of them.
Gemm ==
    /\ LET l == at[0]
       IN \/ /\ NoFailure
             /\ Rank0("gemm", "sync5", FALSE)
             /\ grads' = [grads EXCEPT ![l] = {popped} \cup IF adding THEN @ ELSE {}]
             /\ torn' = [torn EXCEPT ![l] = @ /\ adding]
             /\ open' = [open EXCEPT ![l] = TRUE]
             /\ depth' = [depth EXCEPT ![l] = @ - 1]
             /\ ClearOutput(l, FALSE)
             /\ adding' = FALSE /\ popped' = 0
          \/ /\ Fails
             /\ AbortBackward("gemm", l)
             /\ \E half \in BOOLEAN : torn' = [torn EXCEPT ![l] = @ \/ half]
             /\ UNCHANGED grads
    /\ UNCHANGED <<saved, shared, tasks, buffer, weights, batch, since, alone, broken>>

\* _sync_rank0_exception and the scatter, whose failure closes the window again
Computed ==
    /\ \/ ~err[0] /\ Meet("sync5", "repack", "sync6") /\ NoFailure /\ UNCHANGED <<err, open>>
       \/ err[0] /\ MeetAndRaise("sync5") /\ NoFailure /\ UNCHANGED open
       \/ /\ ~err[0] /\ MeetAndRaise("sync5") /\ Fails
          /\ open' = [open EXCEPT ![at[0]] = FALSE]
    /\ UNCHANGED <<policy, at, phase, caches, tasks, adding, grads, torn, buffer, weights, batch,
                   since, alone, broken>>

\* release_authoritative_optimizer_grads, when the thread cannot be submitted
ReleaseAfterRepackError(l) == open' = [open EXCEPT ![l] = FALSE]

\* submit_backward_repack of the layer below: it joins the thread before it starts
\* another, which overwrites BufferB from here on.
SubmitRepack ==
    /\ pc[0] = "repack"
    /\ LET l == at[0]
           below == l - 1
       IN \/ /\ l = 1 /\ NoFailure
             /\ Rank0("repack", "sync6", FALSE)
             /\ UNCHANGED <<buffer, open>>
          \/ /\ l > 1 /\ repack[below] = "off" /\ NoFailure
             /\ Rank0("repack", "sync6", FALSE)
             /\ repack' = [repack EXCEPT ![below] = "running"]
             /\ waits' = [waits EXCEPT ![below] = TRUE]
             /\ bb' = [bb EXCEPT !.holds = 0]
             /\ UNCHANGED open
          \/ /\ l > 1 /\ repack[below] # "running"
             /\ IF repack[below] = "failed" THEN NoFailure ELSE Fails
             /\ Rank0("repack", "sync6", TRUE)
             /\ repack' = [repack EXCEPT ![below] = "off"]
             /\ ReleaseAfterRepackError(l)
             /\ UNCHANGED <<bb, waits>>
    /\ UNCHANGED <<caches, tasks, adding, grads, torn, weights, batch, since, alone, broken>>

\* The thread ends: the layer owns BufferB, or the owner is left and the content is torn.
RepackEnds(l) ==
    /\ repack[l] = "running"
    /\ \/ /\ NoFailure
          /\ repack' = [repack EXCEPT ![l] = "off"]
          /\ bb' = Packed(l)
          /\ broken' = FALSE
       \/ /\ Fails
          /\ repack' = [repack EXCEPT ![l] = "failed"]
          /\ broken' = TRUE
          /\ UNCHANGED bb
    /\ UNCHANGED <<policy, ranks, caches, tasks, window, waits, weights, batch, since, alone>>

\* _sync_rank0_exception after it, and the way down to the next layer
RepackSubmitted ==
    /\ \/ err[0] /\ MeetAndRaise("sync6") /\ UNCHANGED <<at, phase>>
       \/ /\ ~err[0] /\ at[0] = 1
          /\ Meet("sync6", "end", "end")
          /\ UNCHANGED <<at, phase, err>>
       \/ /\ ~err[0] /\ at[0] > 1
          /\ LET to == IF policy[0] = "none" THEN "grad" ELSE "enter" IN Meet("sync6", to, to)
          /\ at' = [r \in Ranks |-> at[r] - 1]
          /\ phase' = [r \in Ranks |-> IF policy[r] = "none" THEN "backward" ELSE "recompute"]
          /\ UNCHANGED err
    /\ UNCHANGED <<policy, caches, tasks, window, buffer, weights, history>>

-----------------------------------------------------------------------------
(* The training loop *)

Ended == \A r \in Ranks : pc[r] = "end"

StartBatch ==
    /\ batch < MaxBatches
    /\ batch' = batch + 1
    /\ pc' = [r \in Ranks |-> "enter"]
    /\ at' = [r \in Ranks |-> 1]
    /\ phase' = [r \in Ranks |-> First(r)]
    /\ UNCHANGED <<policy, err, caches, tasks, adding, grads, torn, buffer, packed, failures,
                   alone, broken>>

\* The next batch of the same optimizer window
Accumulate ==
    /\ Ended /\ StartBatch
    /\ since' = since \cup {batch}
    /\ UNCHANGED <<open, version, dirty>>

\* Mutant: the window stays open.
OptimizerStepKeepsWindow ==
    /\ Ended /\ StartBatch
    /\ version' = version + 1
    /\ dirty' = [l \in Layers |-> TRUE]
    /\ since' = {}
    /\ UNCHANGED open

\* An optimizer step, then update_kt_lora_pointers: the weights have to be loaded again
\* and the window is closed.  A restriction on the training loop: it steps only after a
\* batch that has ended on every rank, never after one that it has dropped.
OptimizerStep ==
    /\ Ended /\ StartBatch
    /\ version' = version + 1
    /\ dirty' = [l \in Layers |-> TRUE]
    /\ open' = [l \in Layers |-> FALSE]
    /\ since' = {}

\* The trainer drops a batch that failed on every rank, and takes the next.
Retry ==
    /\ \A r \in Ranks : pc[r] = "raised"
    /\ StartBatch
    /\ UNCHANGED <<open, since, version, dirty>>

-----------------------------------------------------------------------------
Local(r) == Enter(r) \/ Gpu(r) \/ Recomputed(r)

OwnerStep ==
    \/ Prepare \/ Submit \/ CollectCached \/ CollectTask
    \/ Compute \/ Pop \/ Gemm \/ SubmitRepack

Collective ==
    \/ Agree \/ Gather \/ Submitted \/ GpuSync \/ Collected
    \/ RecomputeSync \/ GatherGrads \/ Computed \/ RepackSubmitted

Next ==
    \/ \E r \in Ranks : Local(r)
    \/ OwnerStep
    \/ Collective
    \/ RunTask
    \/ \E l \in Layers : RepackEnds(l)
    \/ Accumulate \/ OptimizerStep \/ Retry

Spec == Init /\ [][Next]_vars

\* Every process, the task queue's thread and the repack threads keep running, and a
\* collective operation that all ranks have entered ends.
FairSpec ==
    /\ Spec
    /\ \A r \in Ranks : WF_vars(Local(r))
    /\ WF_vars(OwnerStep)
    /\ WF_vars(Collective)
    /\ WF_vars(RunTask)
    /\ \A l \in Layers : WF_vars(RepackEnds(l))

-----------------------------------------------------------------------------
(* Properties *)

Collectives ==
    {"agree", "gather", "submitted", "sync2", "sync3", "sync4", "grad", "sync5", "sync6"}
Tasks == [layer : Layers, batch : Batches, save : BOOLEAN]

\* Every variable has its type.  In particular _cache_depth counts at most one entry,
\* as the C++ cache holds at most one, also after a batch without a backward.
TypeOK ==
    /\ policy \in [Ranks -> Policies]
    /\ pc \in [Ranks -> Collectives \cup {"enter", "prepare", "submit", "gpu", "collect",
                                          "recomputed", "compute", "pop", "gemm", "repack",
                                          "end", "raised"}]
    /\ at \in [Ranks -> Layers]
    /\ phase \in [Ranks -> {"first", "none", "recompute", "backward"}]
    /\ err \in [Ranks -> BOOLEAN]
    /\ cache \in [Layers -> {"EMPTY", "READY", "POISONED"}]
    /\ kept \in [Layers -> Batches]
    /\ depth \in [Layers -> 0 .. 1]
    /\ saved \in [Layers -> Batches] /\ popped \in Batches
    /\ shared \in (0 .. NumLayers) \X Batches
    /\ queue \in Seq(Tasks) /\ fault \in BOOLEAN
    /\ output \in (0 .. NumLayers) \X Batches /\ result \in (0 .. NumLayers) \X Batches
    /\ open \in [Layers -> BOOLEAN] /\ adding \in BOOLEAN
    /\ grads \in [Layers -> SUBSET Batches] /\ torn \in [Layers -> BOOLEAN]
    /\ bb \in [owner : 0 .. NumLayers, holds : 0 .. NumLayers, version : 0 .. MaxBatches]
    /\ repack \in [Layers -> {"off", "running", "failed"}] /\ waits \in [Layers -> BOOLEAN]
    /\ version \in 1 .. MaxBatches
    /\ packed \in [Layers -> 1 .. MaxBatches] /\ dirty \in [Layers -> BOOLEAN]
    /\ batch \in Batches /\ since \subseteq Batches /\ failures \in 0 .. MaxFailures
    /\ alone \in BOOLEAN /\ broken \in BOOLEAN

\* When every rank waits for its peers or has left the pass, all are at the same place:
\* a failure of rank 0, or of a rank's GPU work, is told before the next collective
\* operation, and no rank waits in one that another has skipped.
NobodyStranded ==
    (~alone /\ \A r \in Ranks : pc[r] \in Collectives \cup {"raised", "end"})
        => \A r \in Ranks : pc[r] = pc[0]

\* What rank 0 scatters is the output of this layer for this batch, although a batch
\* that failed may have left its task in the queue, its result in the buffer that all
\* layers share, or a live checkpoint cache.
ResultMatches == (pc[0] = "sync3" /\ ~err[0]) => result = <<at[0], batch>>

\* The backward of a layer uses the activations of this batch: the entry it pops is of
\* this batch, and no other layer has overwritten the pool that layers share when they
\* are recomputed.
BackwardMatches ==
    pc[0] = "gemm" => /\ popped = batch
                      /\ policy[0] = "recompute" => shared = <<at[0], batch>>

\* The backward of a layer uses this layer's weights, as they are after the last
\* optimizer step, unless a pack of BufferB has failed and none has succeeded since.
BackwardFresh ==
    (pc[0] = "gemm" /\ ~broken) =>
        bb.holds = at[0] /\ bb.version = version /\ packed[at[0]] = version

\* Gradients that a failed task may have left half written are never in an open window,
\* where the next task would add to them, and a batch that has failed at a layer leaves
\* nothing in the open window of that layer.
WindowClean ==
    /\ \A l \in Layers : open[l] => ~torn[l]
    /\ (\A r \in Ranks : pc[r] = "raised") => (open[at[0]] => batch \notin grads[at[0]])

\* Without failures every layer holds, at the end of a batch, the gradients of exactly
\* the batches since the last optimizer step.
GradsExact ==
    (failures = 0 /\ Ended) => \A l \in Layers : open[l] /\ grads[l] = since \cup {batch}

\* Without failures no repack thread runs while the task queue runs a task: both use the
\* one job slot of the NUMA worker pool.
PoolExclusive ==
    (failures = 0 /\ \E l \in Layers : repack[l] = "running") => queue = <<>> /\ pc[0] # "gemm"

\* Every pass ends, on all ranks or with an error on all ranks.
StepEnds == []<>(alone \/ Ended \/ \A r \in Ranks : pc[r] = "raised")
=============================================================================
