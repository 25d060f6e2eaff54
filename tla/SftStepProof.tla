---------------------------- MODULE SftStepProof ----------------------------
(***************************************************************************)
(* The safety of a training step, proved for any number of ranks, layers,  *)
(* batches and failures.  The invariant has one part per question: where   *)
(* the ranks are (SyncInv), what is in the caches and in the task queue    *)
(* (DataInv), in the window of the optimizer (WindowInv), in BufferB       *)
(* (BufferInv), and how far a run without failures has got (CleanInv).     *)
(* Each part is inductive together with the ones before it.                *)
(***************************************************************************)
EXTENDS SftStep, Integers, TLAPS

-----------------------------------------------------------------------------
(* Where the ranks are *)

Others == Ranks \ {0}
Same(f) == \A r \in Ranks : f[r] = f[0]
All(S) == \A r \in Ranks : pc[r] \in S
Apart(S, p) == pc[0] \in S /\ \A r \in Others : pc[r] = p

\* Forward of a layer, up to the comparison of the ranks
Starting == \A r \in Ranks : pc[r] \in {"enter", "agree"} /\ phase[r] = First(r)

\* Inside the experts of a layer, in a forward or a recompute
Inside ==
    /\ Same(policy) /\ Same(phase) /\ phase[0] # "backward"
    /\ \/ ~Reuses(0) /\ Apart({"prepare", "gather"}, "gather")
       \/ Reuses(0) /\ Apart({"prepare", "submitted"}, "submitted")
       \/ ~Reuses(0) /\ Apart({"submit", "submitted"}, "submitted")
       \/ All({"gpu", "sync2"})
       \/ Apart({"collect", "sync3"}, "sync3")

\* A recompute before and after the experts.  A rank that has failed alone is
\* anywhere in it; otherwise all ranks take the same way out.
Ways ==
    \/ All({"enter", "agree"})
    \/ policy[0] = "retain" /\ All({"recomputed", "sync4"})
    \/ policy[0] # "retain" /\ All({"recomputed", "grad"}) /\ \A r \in Ranks : ~err[r]
    \/ /\ policy[0] # "retain" /\ All({"recomputed", "raised"})
       /\ \A r \in Ranks : pc[r] = "recomputed" => err[r]
Recomputing ==
    /\ Same(policy) /\ policy[0] # "none"
    /\ All({"enter", "agree", "recomputed"} \cup
           (IF policy[0] = "retain" THEN {"sync4"} ELSE {"grad", "raised"}))
    /\ \A r \in Ranks :
         phase[r] = IF pc[r] \in {"enter", "agree", "recomputed"} THEN "recompute" ELSE "backward"
    /\ ~alone => Ways

\* The backward of a layer
Backward ==
    /\ Same(policy) /\ Same(phase) /\ phase[0] = "backward"
    /\ \/ All({"grad"})
       \/ Apart({"compute", "pop", "gemm", "sync5"}, "sync5")
       \/ Apart({"repack", "sync6"}, "sync6")
       \/ All({"end"})

SyncInv ==
    /\ Same(at)
    /\ \A r \in Ranks : phase[r] \in IF policy[r] = "none" THEN {"none", "backward"}
                                     ELSE {"first", "recompute", "backward"}
    /\ \A r \in Ranks : err[r] =>
         \/ pc[r] \in {"sync2", "recomputed", "sync4"}
         \/ r = 0 /\ pc[r] \in {"gather", "submit", "submitted", "sync3", "sync5", "sync6"}
    /\ Starting \/ Inside \/ Recomputing \/ Backward \/ All({"raised"})
    /\ pc[0] = "end" => at[0] = 1
    /\ pc[0] \in {"pop", "gemm"} => depth[at[0]] = 1
    /\ version <= batch

-----------------------------------------------------------------------------
(* Results and activations *)

Fore == phase[0] \in {"first", "none"}
Tasked == {"submitted", "gpu", "sync2", "collect"}

\* The task of this layer has been submitted, and its result not yet fetched.
TaskOut == pc[0] \in Tasked /\ ~Reuses(0) /\ (pc[0] = "submitted" => ~err[0])

\* The forward of layer l is over in this batch.
Passed(l) == l < at[0] \/ (l = at[0] /\ pc[0] = "sync3" /\ ~err[0])

CacheInv ==
    policy[0] = "retain" =>
        \A l \in Layers : /\ Fore => l < at[0] \/ (l = at[0] /\ pc[0] = "sync3")
                          /\ cache[l] = "READY"
                          => kept[l] = batch

\* The task is the last of the queue, or it has run, or a task has failed.
TaskInv ==
    TaskOut => IF queue = << >>
               THEN \/ fault
                    \/ /\ output = <<at[0], batch>>
                       /\ Saves => saved[at[0]] = batch /\ shared = <<at[0], batch>>
               ELSE queue[Len(queue)] = ForwardTask

\* Tasks of an earlier batch are gone when the first layer has its result.
QueueInv ==
    /\ at[0] > 1 \/ ~Fore =>
         \/ queue = << >>
         \/ TaskOut /\ Len(queue) = 1
         \/ pc[0] = "raised"
         \/ pc[0] = "recomputed" /\ err[0] /\ policy[0] # "retain"
    /\ pc[0] = "sync3" => queue = << >>

SavedInv ==
    /\ policy[0] # "recompute" /\ pc[0] # "raised" =>
         \A l \in Layers :
           \/ Fore /\ Passed(l)
           \/ ~Fore /\ (l < at[0] \/ (l = at[0] /\ pc[0] \notin {"gemm", "sync5", "repack", "sync6", "end"}))
           => saved[l] = batch
    /\ policy[0] = "recompute" /\ ~Fore =>
         /\ (pc[0] \in {"sync3", "recomputed"} /\ ~err[0]) \/ pc[0] \in {"grad", "compute", "pop"} =>
              saved[at[0]] = batch /\ shared = <<at[0], batch>>
         /\ pc[0] = "gemm" => shared = <<at[0], batch>>

DataInv == CacheInv /\ TaskInv /\ QueueInv /\ SavedInv /\ ResultMatches /\ BackwardMatches

-----------------------------------------------------------------------------
(* The optimizer window *)

WindowInv ==
    /\ \A l \in Layers : open[l] => ~torn[l]
    /\ pc[0] \in {"pop", "gemm"} /\ adding => open[at[0]]
    /\ \A l \in Layers : \A b \in grads[l] : b <= batch
    /\ \A l \in Layers : Fore \/ l < at[0] => batch \notin grads[l]
    /\ open[at[0]] /\ batch \in grads[at[0]] => pc[0] \in {"sync5", "repack", "sync6", "end"} /\ ~err[0]

-----------------------------------------------------------------------------
(* BufferB and the threads that fill it *)

Popped == pc[0] \in {"gemm", "repack", "end"} \/ (pc[0] = "sync5" /\ ~err[0])

RepackInv ==
    /\ \A l \in Layers : repack[l] = "running" => waits[l] /\ ~dirty[l]
    /\ pc[0] # "raised" =>
         \A l \in Layers : repack[l] = "running" =>
            IF Fore THEN l > at[0] \/ (l = at[0] /\ ~TaskOut /\ pc[0] # "sync3")
            ELSE \/ /\ l = at[0] /\ ~TaskOut /\ ~Popped
                    /\ pc[0] \notin {"pop", "sync6"}
                 \/ l = at[0] - 1 /\ pc[0] = "sync6"

WeightInv ==
    /\ \A l \in Layers : ~dirty[l] => packed[l] = version
    /\ pc[0] # "raised" =>
         \A l \in Layers :
           \/ ~Fore \/ l < at[0]
           \/ /\ l = at[0]
              /\ pc[0] \in {"gpu", "sync2", "collect", "sync3"} \/
                 (pc[0] \in {"gather", "submit", "submitted"} /\ ~err[0])
           => ~dirty[l]

OwnerInv ==
    /\ ~broken /\ (\A l \in Layers : repack[l] # "running") => bb.holds = bb.owner
    /\ Popped \/ (pc[0] = "sync6" /\ at[0] = 1) => bb.owner = at[0]
    /\ NumLayers > 1 =>
         \/ bb.version = version
         \/ bb.owner = 0 /\ ~Popped /\ (Fore \/ at[0] = NumLayers) /\ pc[0] # "sync6"
         \/ bb.owner = 1 /\ (Fore \/ (at[0] = NumLayers /\ ~Popped /\ pc[0] # "sync6"))

BufferInv == RepackInv /\ WeightInv /\ OwnerInv

-----------------------------------------------------------------------------
(* Runs without failures *)

\* The backward of layer l is over in this batch.
Written(l) == ~Fore /\ (l > at[0] \/ (l = at[0] /\ pc[0] \in {"sync5", "repack", "sync6", "end"}))

\* The backend has its output and its activations: the forward of layer l is over, and its
\* backward is not.
Live(l) == IF Fore THEN Passed(l) ELSE l <= at[0] /\ ~Written(l)

NoErrors ==
    /\ ~alone /\ ~fault
    /\ \A r \in Ranks : ~err[r]
    /\ \A l \in Layers : repack[l] # "failed"

\* Ranks that do not have the same policy stop at the first comparison, the others go on.
Agreed ==
    /\ ~Same(policy) => All({"enter", "agree", "raised"}) /\ Fore /\ at[0] = 1
    /\ Same(policy) => \A r \in Ranks : pc[r] # "raised"

Idle ==
    /\ Fore => \A l \in Layers : repack[l] # "running"
    /\ at[0] = 1 /\ Fore => queue = << >> \/ TaskOut

CachesExact ==
    /\ \A l \in Layers :
         cache[l] = IF policy[0] = "retain" /\ Live(l) THEN "READY" ELSE "EMPTY"
    /\ \A l \in Layers :
         \/ policy[0] # "recompute" /\ Live(l)
         \/ ~Fore /\ l = at[0] /\ pc[0] \in {"sync3", "recomputed", "grad", "compute"}
         => depth[l] = 1

WindowExact ==
    /\ pc[0] \in {"pop", "gemm"} => adding = open[at[0]]
    /\ \A l \in Layers : IF Written(l) THEN open[l] /\ grads[l] = since \cup {batch}
                         ELSE (open[l] <=> since # {}) /\ (open[l] => grads[l] = since)

Clean == NoErrors /\ Agreed /\ Idle /\ CachesExact /\ WindowExact
CleanInv == failures = 0 => Clean

IInv == TypeOK /\ SyncInv /\ DataInv /\ WindowInv /\ BufferInv /\ CleanInv

-----------------------------------------------------------------------------
(* Types *)

\* Rank 0 is a rank, and there is a first and a last layer.
LEMMA Facts ==
    /\ 0 \in Ranks /\ NumRanks \in Nat /\ Ranks \subseteq Nat
    /\ NumLayers \in Nat /\ NumLayers > 0 /\ 1 \in Layers /\ NumLayers \in Layers
    /\ \A l \in Layers : l \in Nat /\ l > 0 /\ l <= NumLayers /\ l \in 0 .. NumLayers
    /\ MaxBatches \in Nat /\ MaxBatches > 0 /\ MaxFailures \in Nat /\ 0 \in Batches
BY SizeAssumption, BoundAssumption DEF Ranks, Layers, Batches

\* A failure is counted.
LEMMA FailureCount ==
    ASSUME TypeOK, Fails
    PROVE  failures' \in 0 .. MaxFailures /\ failures' # failures /\ failures' > 0
BY BoundAssumption DEF TypeOK, Fails

Places == Collectives \cup {"enter", "prepare", "submit", "gpu", "collect", "recomputed",
                            "compute", "pop", "gemm", "repack", "end", "raised"}

\* A step of rank 0 alone changes only its place and its error.
LEMMA Rank0Type ==
    ASSUME TypeOK, NEW from, NEW to \in Places, NEW failed \in BOOLEAN, Rank0(from, to, failed)
    PROVE  /\ policy' \in [Ranks -> Policies]
           /\ pc' \in [Ranks -> Places]
           /\ at' \in [Ranks -> Layers]
           /\ phase' \in [Ranks -> {"first", "none", "recompute", "backward"}]
           /\ err' \in [Ranks -> BOOLEAN]
BY DEF Rank0, TypeOK, Places

\* A poisoned cache is empty.
LEMMA PoisonType ==
    ASSUME TypeOK, NEW cond, NEW l \in Layers, PoisonWhen(cond, l)
    PROVE  /\ cache' \in [Layers -> {"EMPTY", "READY", "POISONED"}]
           /\ kept' \in [Layers -> Batches]
<1>1. CASE cond BY <1>1, Facts DEF PoisonWhen, TypeOK
<1>2. CASE ~cond BY <1>2 DEF PoisonWhen, TypeOK
<1> QED BY <1>1, <1>2

\* So is one that is cleared.
LEMMA ClearType ==
    ASSUME TypeOK, NEW failed, NEW l \in Layers, ClearOutput(l, failed)
    PROVE  /\ cache' \in [Layers -> {"EMPTY", "READY", "POISONED"}]
           /\ kept' \in [Layers -> Batches]
BY Facts DEF ClearOutput, TypeOK

\* The join of a thread
LEMMA JoinType ==
    ASSUME TypeOK, NEW failed \in BOOLEAN, NEW l \in Layers, JoinRepack(l, failed)
    PROVE  /\ repack' \in [Layers -> {"off", "running", "failed"}]
           /\ waits' \in [Layers -> BOOLEAN]
BY DEF JoinRepack, TypeOK

\* A backward that is given up
LEMMA AbortType ==
    ASSUME TypeOK, NEW from, NEW l \in Layers, AbortBackward(from, l)
    PROVE  /\ policy' \in [Ranks -> Policies]
           /\ pc' \in [Ranks -> Places]
           /\ at' \in [Ranks -> Layers]
           /\ phase' \in [Ranks -> {"first", "none", "recompute", "backward"}]
           /\ err' \in [Ranks -> BOOLEAN]
           /\ cache' \in [Layers -> {"EMPTY", "READY", "POISONED"}]
           /\ kept' \in [Layers -> Batches]
           /\ depth' \in [Layers -> 0 .. 1]
           /\ open' \in [Layers -> BOOLEAN]
           /\ popped' \in Batches /\ adding' \in BOOLEAN
<1>1. Rank0(from, "sync5", TRUE) /\ "sync5" \in Places BY DEF AbortBackward, Places, Collectives
<1>2. ClearOutput(l, TRUE) BY DEF AbortBackward
<1>3. depth' \in [Layers -> 0 .. 1] BY DEF AbortBackward, TypeOK
<1>4. open' \in [Layers -> BOOLEAN] BY DEF AbortBackward, TypeOK
<1>5. popped' \in Batches /\ adding' \in BOOLEAN BY Facts DEF AbortBackward
<1> QED BY <1>1, <1>2, <1>3, <1>4, <1>5, Rank0Type, ClearType

\* A collective operation moves every rank.
LEMMA MeetType ==
    ASSUME TypeOK, NEW from,
           \/ MeetAndRaise(from)
           \/ /\ \E rank0, others \in Places : Meet(from, rank0, others)
              /\ err' = err
    PROVE  pc' \in [Ranks -> Places] /\ err' \in [Ranks -> BOOLEAN]
<1>1. CASE MeetAndRaise(from)
  <2>1. \A r \in Ranks : Thrown(r) \in Places BY DEF Thrown, Places
  <2> QED BY <1>1, <2>1 DEF MeetAndRaise
<1>2. CASE \E rank0, others \in Places : Meet(from, rank0, others) /\ err' = err
  BY <1>2 DEF Meet, TypeOK
<1> QED BY <1>1, <1>2

\* The local steps of a rank keep the types.
LEMMA LocalType ==
    ASSUME TypeOK, NEW r \in Ranks, Local(r)
    PROVE  TypeOK'
<1>0. \A p \in {"agree", "recomputed", "sync2", "sync4", "raised", "grad"} : p \in Places
  BY DEF Places, Collectives
<1>1. CASE Enter(r)
  <2>1. pc' \in [Ranks -> Places] /\ err' \in [Ranks -> BOOLEAN] /\ alone' \in BOOLEAN
    <3>1. pc' \in [Ranks -> Places] BY <1>0, <1>1 DEF Enter, TypeOK, Places
    <3>2. err' \in [Ranks -> BOOLEAN] BY <1>1 DEF Enter, TypeOK
    <3>3. alone' \in BOOLEAN BY <1>1 DEF Enter, TypeOK
    <3> QED BY <3>1, <3>2, <3>3
  <2>2. failures' \in 0 .. MaxFailures BY <1>1, FailureCount DEF Enter, TypeOK
  <2> QED BY <1>1, <2>1, <2>2
      DEF Enter, TypeOK, caches, tasks, window, buffer, weights, Places
<1>2. CASE Gpu(r)
  <2>1. pc' \in [Ranks -> Places] /\ err' \in [Ranks -> BOOLEAN]
    BY <1>0, <1>2 DEF Gpu, TypeOK, Places
  <2>2. failures' \in 0 .. MaxFailures BY <1>2, FailureCount DEF Gpu, TypeOK, NoFailure
  <2> QED BY <1>2, <2>1, <2>2
      DEF Gpu, TypeOK, caches, tasks, window, buffer, weights, Places
<1>3. CASE Recomputed(r)
  <2>1. phase' \in [Ranks -> {"first", "none", "recompute", "backward"}]
    BY <1>3 DEF Recomputed, TypeOK
  <2>2. pc' \in [Ranks -> Places] /\ err' \in [Ranks -> BOOLEAN] /\ alone' \in BOOLEAN
    <3>1. PICK late \in BOOLEAN :
            \/ /\ pc' = [pc EXCEPT ![r] = "sync4"]
               /\ err' = [err EXCEPT ![r] = @ \/ late]
               /\ UNCHANGED alone
            \/ /\ pc' = [pc EXCEPT ![r] = IF err[r] \/ late THEN "raised" ELSE "grad"]
               /\ err' = [err EXCEPT ![r] = FALSE]
               /\ alone' = (alone \/ late)
      BY <1>3 DEF Recomputed
    <3>2. pc' \in [Ranks -> Places] BY <1>0, <3>1 DEF TypeOK, Places
    <3>3. (err[r] \/ late) \in BOOLEAN /\ (alone \/ late) \in BOOLEAN OBVIOUS
    <3>4. err' \in [Ranks -> BOOLEAN] BY <3>1, <3>3 DEF TypeOK
    <3>5. alone' \in BOOLEAN BY <3>1, <3>3 DEF TypeOK
    <3> QED BY <3>2, <3>4, <3>5
  <2>3. failures' \in 0 .. MaxFailures
    <3>1. Fails \/ NoFailure BY <1>3 DEF Recomputed
    <3> QED BY <3>1, FailureCount DEF TypeOK, NoFailure
  <2> QED BY <1>3, <2>1, <2>2, <2>3
      DEF Recomputed, TypeOK, caches, tasks, window, buffer, weights, Places
<1> QED BY <1>1, <1>2, <1>3 DEF Local

\* So do the collective operations.
LEMMA CollectiveType ==
    ASSUME TypeOK, Collective, SyncInv
    PROVE  TypeOK'
<1>0. /\ \A p \in {"prepare", "submitted", "gather", "submit", "gpu", "collect", "sync3", "grad",
                   "compute", "sync5", "repack", "sync6", "end", "enter", "recomputed"} : p \in Places
      /\ at[0] \in Layers
  BY Facts DEF Places, Collectives, TypeOK
<1>1. CASE Agree
  <2>1. pc' \in [Ranks -> Places] /\ err' \in [Ranks -> BOOLEAN]
    BY <1>0, <1>1, MeetType DEF Agree
  <2> QED BY <1>1, <2>1
      DEF Agree, TypeOK, caches, tasks, window, buffer, weights, history, Places
<1>2. CASE Gather \/ GatherGrads
  <2>1. pc' \in [Ranks -> Places] /\ err' \in [Ranks -> BOOLEAN]
    BY <1>0, <1>2, MeetType DEF Gather, GatherGrads
  <2> QED BY <1>2, <2>1
      DEF Gather, GatherGrads, TypeOK, caches, tasks, window, buffer, weights, history, Places
<1>3. CASE Submitted
  <2>1. pc' \in [Ranks -> Places] /\ err' \in [Ranks -> BOOLEAN]
    BY <1>0, <1>3, MeetType DEF Submitted
  <2> QED BY <1>3, <2>1
      DEF Submitted, TypeOK, caches, tasks, window, buffer, weights, history, Places
<1>4. CASE GpuSync
  <2>1. pc' \in [Ranks -> Places] /\ err' \in [Ranks -> BOOLEAN]
    BY <1>0, <1>4, MeetType DEF GpuSync
  <2>2. /\ cache' \in [Layers -> {"EMPTY", "READY", "POISONED"}]
        /\ kept' \in [Layers -> Batches]
    BY <1>0, <1>4, PoisonType DEF GpuSync, TypeOK
  <2> QED BY <1>4, <2>1, <2>2
      DEF GpuSync, TypeOK, tasks, window, buffer, weights, history, Places
<1>5. CASE Collected
  <2>1. pc' \in [Ranks -> Places] /\ err' \in [Ranks -> BOOLEAN]
    BY <1>0, <1>5, MeetType DEF Collected
  <2>2. at' \in [Ranks -> Layers]
    <3>1. CASE UNCHANGED at BY <3>1 DEF TypeOK
    <3>2. CASE at' = [r \in Ranks |-> IF phase[r] = "recompute" \/ Turns THEN at[r] ELSE at[r] + 1]
      <4>1. \A r \in Ranks : at[r] \in Layers /\ at[r] = at[0] BY DEF TypeOK, SyncInv, Same
      <4>2. ~Turns => at[0] + 1 \in Layers BY <1>0, Facts DEF Turns, Layers
      <4> QED BY <3>2, <4>1, <4>2
    <3> QED BY <1>5, <3>1, <3>2 DEF Collected
  <2>3. phase' \in [Ranks -> {"first", "none", "recompute", "backward"}]
    BY <1>5 DEF Collected, TypeOK
  <2> QED BY <1>5, <2>1, <2>2, <2>3
      DEF Collected, TypeOK, caches, tasks, window, buffer, weights, history, Places
<1>6. CASE RecomputeSync
  <2>1. pc' \in [Ranks -> Places] /\ err' \in [Ranks -> BOOLEAN]
    BY <1>0, <1>6, MeetType DEF RecomputeSync
  <2>2. /\ cache' \in [Layers -> {"EMPTY", "READY", "POISONED"}]
        /\ kept' \in [Layers -> Batches]
    BY <1>0, <1>6, PoisonType DEF RecomputeSync, TypeOK
  <2> QED BY <1>6, <2>1, <2>2
      DEF RecomputeSync, TypeOK, tasks, window, buffer, weights, history, Places
<1>7. CASE Computed
  <2>1. pc' \in [Ranks -> Places] /\ err' \in [Ranks -> BOOLEAN]
    BY <1>0, <1>7, MeetType DEF Computed
  <2>2. open' \in [Layers -> BOOLEAN] BY <1>7 DEF Computed, TypeOK
  <2>3. failures' \in 0 .. MaxFailures BY <1>7, FailureCount DEF Computed, TypeOK, NoFailure
  <2> QED BY <1>7, <2>1, <2>2, <2>3
      DEF Computed, TypeOK, caches, tasks, buffer, weights, Places
<1>8. CASE RepackSubmitted
  <2>1. pc' \in [Ranks -> Places] /\ err' \in [Ranks -> BOOLEAN]
    BY <1>0, <1>8, MeetType DEF RepackSubmitted
  <2>2. at' \in [Ranks -> Layers]
    <3>1. CASE UNCHANGED at BY <3>1 DEF TypeOK
    <3>2. CASE at[0] > 1 /\ at' = [r \in Ranks |-> at[r] - 1]
      <4>1. \A r \in Ranks : at[r] \in Layers /\ at[r] = at[0] BY DEF TypeOK, SyncInv, Same
      <4>2. at[0] - 1 \in Layers BY <1>0, <3>2, Facts DEF Layers
      <4> QED BY <3>2, <4>1, <4>2
    <3> QED BY <1>8, <3>1, <3>2 DEF RepackSubmitted
  <2>3. phase' \in [Ranks -> {"first", "none", "recompute", "backward"}]
    BY <1>8 DEF RepackSubmitted, TypeOK
  <2> QED BY <1>8, <2>1, <2>2, <2>3
      DEF RepackSubmitted, TypeOK, caches, tasks, window, buffer, weights, history, Places
<1> QED BY <1>1, <1>2, <1>3, <1>4, <1>5, <1>6, <1>7, <1>8 DEF Collective

\* Forward steps of rank 0
LEMMA ForwardType ==
    ASSUME TypeOK, Prepare \/ Submit \/ CollectCached \/ CollectTask
    PROVE  TypeOK'
<1>0. /\ \A p \in {"submitted", "gather", "sync3"} : p \in Places
      /\ at[0] \in Layers /\ batch \in Batches
  BY Facts DEF Places, Collectives, TypeOK
<1> DEFINE RankTypes ==
      /\ policy' \in [Ranks -> Policies]
      /\ pc' \in [Ranks -> Places]
      /\ at' \in [Ranks -> Layers]
      /\ phase' \in [Ranks -> {"first", "none", "recompute", "backward"}]
      /\ err' \in [Ranks -> BOOLEAN]
<1> DEFINE CacheTypes ==
      /\ cache' \in [Layers -> {"EMPTY", "READY", "POISONED"}]
      /\ kept' \in [Layers -> Batches]
<1>1. CASE Prepare
  <2>1. PICK failed \in BOOLEAN :
          /\ Refresh(at[0], failed)
          /\ \E bad \in BOOLEAN :
               Rank0("prepare", IF Reuses(0) THEN "submitted" ELSE "gather", bad)
          /\ \E cond : PoisonWhen(cond, at[0])
    BY <1>1 DEF Prepare
  <2>2. RankTypes BY <1>0, <2>1, Rank0Type
  <2>3. CacheTypes BY <1>0, <2>1, PoisonType
  <2>4. failures' \in 0 .. MaxFailures BY <2>1, FailureCount DEF Refresh, TypeOK
  <2>5. fault' \in BOOLEAN /\ version' = version BY <2>1 DEF Refresh, TypeOK, weights
  <2>6. packed' \in [Layers -> 1 .. MaxBatches] BY <2>1 DEF Refresh, TypeOK, weights
  <2>7. dirty' \in [Layers -> BOOLEAN] BY <2>1 DEF Refresh, TypeOK, weights
  <2> QED BY <1>1, <2>2, <2>3, <2>4, <2>5, <2>6, <2>7
      DEF Prepare, TypeOK, window, buffer, Places
<1>2. CASE Submit
  <2>1. \E failed \in BOOLEAN : Rank0("submit", "submitted", failed) BY <1>2 DEF Submit, SubmitError
  <2>2. RankTypes BY <1>0, <2>1, Rank0Type
  <2>3. \E cond : PoisonWhen(cond, at[0]) BY <1>2 DEF Submit, SubmitError
  <2>4. CacheTypes BY <1>0, <2>3, PoisonType
  <2>5. Fails \/ NoFailure BY <1>2 DEF Submit
  <2>6. failures' \in 0 .. MaxFailures BY <2>5, FailureCount DEF TypeOK, NoFailure
  <2>7. /\ repack' \in [Layers -> {"off", "running", "failed"}]
        /\ waits' \in [Layers -> BOOLEAN]
    <3>1. UNCHANGED <<repack, waits>> \/ \E failed \in BOOLEAN : JoinRepack(at[0], failed)
      BY <1>2 DEF Submit
    <3> QED BY <1>0, <3>1, JoinType DEF TypeOK
  <2>8. queue' \in Seq(Tasks)
    <3>1. ForwardTask \in Tasks
      <4>1. Saves \in BOOLEAN BY DEF Saves
      <4> QED BY <1>0, <4>1 DEF ForwardTask, Tasks
    <3>2. queue' = queue \/ queue' = Append(queue, ForwardTask) BY <1>2 DEF Submit
    <3>3. queue \in Seq(Tasks) BY DEF TypeOK
    <3> QED BY <3>1, <3>2, <3>3
  <2> QED BY <1>2, <2>2, <2>4, <2>6, <2>7, <2>8
      DEF Submit, TypeOK, window, weights, Places
<1>3. CASE CollectCached
  <2>1. \E failed \in BOOLEAN : Rank0("collect", "sync3", failed) BY <1>3 DEF CollectCached
  <2>2. RankTypes BY <1>0, <2>1, Rank0Type
  <2>3. \E cond : PoisonWhen(cond, at[0]) BY <1>3 DEF CollectCached
  <2>4. CacheTypes BY <1>0, <2>3, PoisonType
  <2>5. Fails \/ NoFailure BY <1>3 DEF CollectCached
  <2>6. failures' \in 0 .. MaxFailures BY <2>5, FailureCount DEF TypeOK, NoFailure
  <2>7. result' \in (0 .. NumLayers) \X Batches
    <3>1. kept[at[0]] \in Batches /\ at[0] \in 0 .. NumLayers BY <1>0, Facts DEF TypeOK
    <3>2. result' = <<at[0], kept[at[0]]>> \/ result' = result BY <1>3 DEF CollectCached
    <3> QED BY <3>1, <3>2 DEF TypeOK
  <2> QED BY <1>3, <2>2, <2>4, <2>6, <2>7
      DEF CollectCached, TypeOK, window, buffer, weights, Places
<1>4. CASE CollectTask
  <2>1. \E failed \in BOOLEAN : Rank0("collect", "sync3", failed) BY <1>4 DEF CollectTask
  <2>2. RankTypes BY <1>0, <2>1, Rank0Type
  <2>3. \/ \E cond : PoisonWhen(cond, at[0])
        \/ CacheOutput(at[0])
        \/ UNCHANGED <<cache, kept>>
    BY <1>4 DEF CollectTask
  <2>4. CacheTypes
    <3>1. CASE CacheOutput(at[0])
      <4>1. output[2] \in Batches BY DEF TypeOK
      <4> QED BY <3>1, <4>1 DEF CacheOutput, TypeOK
    <3> QED BY <1>0, <2>3, <3>1, PoisonType DEF TypeOK
  <2>5. Fails \/ NoFailure BY <1>4 DEF CollectTask
  <2>6. failures' \in 0 .. MaxFailures BY <2>5, FailureCount DEF TypeOK, NoFailure
  <2>7. result' \in (0 .. NumLayers) \X Batches BY <1>4 DEF CollectTask, TypeOK
  <2>8. depth' \in [Layers -> 0 .. 1] BY <1>0, <1>4 DEF CollectTask, TypeOK, Counted
  <2> QED BY <1>4, <2>2, <2>4, <2>6, <2>7, <2>8
      DEF CollectTask, TypeOK, window, buffer, weights, Places
<1> QED BY <1>1, <1>2, <1>3, <1>4

\* Backward steps of rank 0
LEMMA BackwardType ==
    ASSUME TypeOK, SyncInv, Compute \/ Pop \/ Gemm \/ SubmitRepack
    PROVE  TypeOK'
<1>0. /\ \A p \in {"pop", "gemm", "sync5", "sync6"} : p \in Places
      /\ at[0] \in Layers /\ batch \in Batches
  BY Facts DEF Places, Collectives, TypeOK
<1> DEFINE RankTypes ==
      /\ policy' \in [Ranks -> Policies]
      /\ pc' \in [Ranks -> Places]
      /\ at' \in [Ranks -> Layers]
      /\ phase' \in [Ranks -> {"first", "none", "recompute", "backward"}]
      /\ err' \in [Ranks -> BOOLEAN]
<1> DEFINE CacheTypes ==
      /\ cache' \in [Layers -> {"EMPTY", "READY", "POISONED"}]
      /\ kept' \in [Layers -> Batches]
      /\ depth' \in [Layers -> 0 .. 1]
      /\ popped' \in Batches
<1> DEFINE OpenTypes == open' \in [Layers -> BOOLEAN] /\ adding' \in BOOLEAN
<1>a. ASSUME NEW from, AbortBackward(from, at[0]) PROVE RankTypes /\ CacheTypes /\ OpenTypes
  BY <1>0, <1>a, AbortType
<1>1. CASE Compute
  <2>1. RankTypes /\ CacheTypes /\ OpenTypes
    <3>1. CASE /\ Rank0("compute", "sync5", TRUE)
               /\ ClearOutput(at[0], TRUE)
               /\ UNCHANGED <<depth, popped, open, adding>>
      <4>1. RankTypes BY <1>0, <3>1, Rank0Type
      <4>2. CacheTypes BY <1>0, <3>1, ClearType DEF TypeOK
      <4> QED BY <3>1, <4>1, <4>2 DEF TypeOK
    <3>2. CASE AbortBackward("compute", at[0]) BY <1>a, <3>2
    <3>3. CASE /\ Rank0("compute", "pop", FALSE)
               /\ adding' = open[at[0]]
               /\ UNCHANGED <<cache, kept, depth, popped, open>>
      <4>1. RankTypes BY <1>0, <3>3, Rank0Type
      <4>2. CacheTypes /\ OpenTypes BY <1>0, <3>3 DEF TypeOK
      <4> QED BY <4>1, <4>2
    <3> QED BY <1>1, <3>1, <3>2, <3>3 DEF Compute
  <2>2. /\ repack' \in [Layers -> {"off", "running", "failed"}]
        /\ waits' \in [Layers -> BOOLEAN]
    <3>1. UNCHANGED <<repack, waits>> \/ \E failed \in BOOLEAN : JoinRepack(at[0], failed)
      BY <1>1 DEF Compute
    <3> QED BY <1>0, <3>1, JoinType DEF TypeOK
  <2> QED BY <1>1, <2>1, <2>2 DEF Compute, TypeOK, tasks, weights, history, Places
<1>2. CASE Pop
  <2>1. RankTypes /\ CacheTypes /\ OpenTypes
    <3>1. CASE /\ Rank0("pop", "gemm", FALSE)
               /\ popped' = saved[at[0]]
               /\ UNCHANGED <<cache, kept, depth, open, adding>>
      <4>1. RankTypes BY <1>0, <3>1, Rank0Type
      <4>2. CacheTypes /\ OpenTypes BY <1>0, <3>1 DEF TypeOK
      <4> QED BY <4>1, <4>2
    <3>2. CASE AbortBackward("pop", at[0]) BY <1>a, <3>2
    <3> QED BY <1>2, <3>1, <3>2 DEF Pop
  <2>2. saved' \in [Layers -> Batches] BY <1>2, Facts DEF Pop, TypeOK
  <2>3. bb' \in [owner : 0 .. NumLayers, holds : 0 .. NumLayers, version : 0 .. MaxBatches]
    <3>1. Packed(at[0]) \in [owner : 0 .. NumLayers, holds : 0 .. NumLayers, version : 0 .. MaxBatches]
      <4>0. packed[at[0]] \in 1 .. MaxBatches BY <1>0 DEF TypeOK
      <4>1. packed[at[0]] \in 0 .. MaxBatches BY <4>0, Facts
      <4> QED BY <1>0, <4>1, Facts DEF Packed
    <3>2. bb' = bb \/ bb' = Packed(at[0]) \/ bb' = [bb EXCEPT !.holds = 0]
      BY <1>2 DEF Pop
    <3>3. bb \in [owner : 0 .. NumLayers, holds : 0 .. NumLayers, version : 0 .. MaxBatches]
      BY DEF TypeOK
    <3> QED BY <3>1, <3>2, <3>3, Facts
  <2>4. Fails \/ NoFailure BY <1>2 DEF Pop
  <2>5. failures' \in 0 .. MaxFailures BY <2>4, FailureCount DEF TypeOK, NoFailure
  <2>6. broken' \in BOOLEAN BY <1>2 DEF Pop, TypeOK
  <2> QED BY <1>2, <2>1, <2>2, <2>3, <2>5, <2>6 DEF Pop, TypeOK, tasks, weights, Places
<1>3. CASE Gemm
  <2>0. Fails \/ NoFailure BY <1>3 DEF Gemm
  <2>5. failures' \in 0 .. MaxFailures BY <2>0, FailureCount DEF TypeOK, NoFailure
  <2>1. CASE /\ Rank0("gemm", "sync5", FALSE)
             /\ grads' = [grads EXCEPT ![at[0]] = {popped} \cup IF adding THEN @ ELSE {}]
             /\ torn' = [torn EXCEPT ![at[0]] = @ /\ adding]
             /\ open' = [open EXCEPT ![at[0]] = TRUE]
             /\ depth' = [depth EXCEPT ![at[0]] = @ - 1]
             /\ ClearOutput(at[0], FALSE)
             /\ adding' = FALSE /\ popped' = 0
    <3>1. RankTypes BY <1>0, <2>1, Rank0Type
    <3>2. depth[at[0]] = 1 BY <2>1 DEF Rank0, SyncInv
    <3>3. CacheTypes
      <4>0. depth' = [depth EXCEPT ![at[0]] = 0] /\ depth \in [Layers -> 0 .. 1]
        BY <2>1, <3>2 DEF TypeOK
      <4>3. 0 \in 0 .. 1 OBVIOUS
      <4>1. depth' \in [Layers -> 0 .. 1] BY <1>0, <4>0, <4>3, Zenon
      <4>2. popped' \in Batches BY <2>1, Facts
      <4> QED BY <1>0, <2>1, <4>1, <4>2, ClearType
    <3>4. OpenTypes BY <1>0, <2>1 DEF TypeOK
    <3>5. grads' \in [Layers -> SUBSET Batches] BY <1>0, <2>1 DEF TypeOK
    <3>6. torn' \in [Layers -> BOOLEAN] BY <1>0, <2>1 DEF TypeOK
    <3> QED BY <1>3, <2>5, <3>1, <3>3, <3>4, <3>5, <3>6
        DEF Gemm, TypeOK, tasks, buffer, weights, Places
  <2>2. CASE /\ AbortBackward("gemm", at[0])
             /\ \E half \in BOOLEAN : torn' = [torn EXCEPT ![at[0]] = @ \/ half]
             /\ UNCHANGED grads
    <3>1. RankTypes /\ CacheTypes /\ OpenTypes BY <1>a, <2>2
    <3>2. torn' \in [Layers -> BOOLEAN] BY <1>0, <2>2 DEF TypeOK
    <3> QED BY <1>3, <2>2, <2>5, <3>1, <3>2 DEF Gemm, TypeOK, tasks, buffer, weights, Places
  <2> QED BY <1>3, <2>1, <2>2 DEF Gemm
<1>4. CASE SubmitRepack
  <2>1. \E failed \in BOOLEAN : Rank0("repack", "sync6", failed) BY <1>4 DEF SubmitRepack
  <2>2. RankTypes BY <1>0, <2>1, Rank0Type
  <2>3. Fails \/ NoFailure BY <1>4 DEF SubmitRepack
  <2>4. failures' \in 0 .. MaxFailures BY <2>3, FailureCount DEF TypeOK, NoFailure
  <2>5. open' \in [Layers -> BOOLEAN] BY <1>4 DEF SubmitRepack, ReleaseAfterRepackError, TypeOK
  <2>6. repack' \in [Layers -> {"off", "running", "failed"}]
    <3>1. \/ repack' = repack
          \/ repack' = [repack EXCEPT ![at[0] - 1] = "running"]
          \/ repack' = [repack EXCEPT ![at[0] - 1] = "off"]
      BY <1>4 DEF SubmitRepack, buffer
    <3> QED BY <3>1 DEF TypeOK
  <2>7. waits' \in [Layers -> BOOLEAN] BY <1>4 DEF SubmitRepack, TypeOK, buffer
  <2>8. bb' \in [owner : 0 .. NumLayers, holds : 0 .. NumLayers, version : 0 .. MaxBatches]
    <3>1. bb' = bb \/ bb' = [bb EXCEPT !.holds = 0] BY <1>4 DEF SubmitRepack, buffer
    <3> QED BY <3>1, Facts DEF TypeOK
  <2> QED BY <1>4, <2>2, <2>4, <2>5, <2>6, <2>7, <2>8
      DEF SubmitRepack, TypeOK, caches, tasks, weights, Places
<1> QED BY <1>1, <1>2, <1>3, <1>4

\* The task queue, the repack threads and the training loop
LEMMA OtherType ==
    ASSUME TypeOK, SyncInv,
           \/ RunTask \/ (\E l \in Layers : RepackEnds(l))
           \/ Accumulate \/ OptimizerStep \/ Retry \/ UNCHANGED vars
    PROVE  TypeOK'
<1>1. CASE RunTask
  <2>0. queue \in Seq(Tasks) /\ queue # << >> BY <1>1 DEF RunTask, TypeOK
  <2>1. Head(queue) \in Tasks /\ Tail(queue) \in Seq(Tasks) BY <2>0
  <2>2. Head(queue).layer \in Layers /\ Head(queue).batch \in Batches BY <2>1 DEF Tasks
  <2>3. <<Head(queue).layer, Head(queue).batch>> \in (0 .. NumLayers) \X Batches
    BY <2>2, Facts
  <2>4. saved' \in [Layers -> Batches] BY <1>1, <2>2 DEF RunTask, TypeOK
  <2>5. shared' \in (0 .. NumLayers) \X Batches BY <1>1, <2>3 DEF RunTask, TypeOK
  <2>6. output' \in (0 .. NumLayers) \X Batches BY <1>1, <2>3 DEF RunTask, TypeOK
  <2>7. fault' \in BOOLEAN BY <1>1 DEF RunTask, TypeOK
  <2>8. Fails \/ NoFailure BY <1>1 DEF RunTask
  <2>9. failures' \in 0 .. MaxFailures BY <2>8, FailureCount DEF TypeOK, NoFailure
  <2>10. queue' \in Seq(Tasks) BY <1>1, <2>1 DEF RunTask
  <2> QED BY <1>1, <2>4, <2>5, <2>6, <2>7, <2>9, <2>10
      DEF RunTask, TypeOK, ranks, window, buffer, weights
<1>2. ASSUME NEW l \in Layers, RepackEnds(l) PROVE TypeOK'
  <2>1. Fails \/ NoFailure BY <1>2 DEF RepackEnds
  <2>2. failures' \in 0 .. MaxFailures BY <2>1, FailureCount DEF TypeOK, NoFailure
  <2>3. repack' \in [Layers -> {"off", "running", "failed"}]
    <3>1. repack' = [repack EXCEPT ![l] = "off"] \/ repack' = [repack EXCEPT ![l] = "failed"]
      BY <1>2 DEF RepackEnds
    <3> QED BY <3>1 DEF TypeOK
  <2>4. bb' \in [owner : 0 .. NumLayers, holds : 0 .. NumLayers, version : 0 .. MaxBatches]
    <3>1. packed[l] \in 1 .. MaxBatches BY DEF TypeOK
    <3>2. packed[l] \in 0 .. MaxBatches BY <3>1, Facts
    <3>3. Packed(l) \in [owner : 0 .. NumLayers, holds : 0 .. NumLayers, version : 0 .. MaxBatches]
      BY <3>2, Facts DEF Packed
    <3>4. bb' = bb \/ bb' = Packed(l) BY <1>2 DEF RepackEnds
    <3> QED BY <3>3, <3>4 DEF TypeOK
  <2>5. broken' \in BOOLEAN BY <1>2 DEF RepackEnds
  <2> QED BY <1>2, <2>2, <2>3, <2>4, <2>5
      DEF RepackEnds, TypeOK, ranks, caches, tasks, window, weights
<1>3. ASSUME StartBatch, since' = {} \/ since' = since \/ since' = since \cup {batch},
             version' \in 1 .. MaxBatches, open' \in [Layers -> BOOLEAN], dirty' \in [Layers -> BOOLEAN]
      PROVE  TypeOK'
  <2>1. batch' \in Batches /\ batch \in Batches BY <1>3, Facts DEF StartBatch, TypeOK, Batches
  <2>2. pc' \in [Ranks -> Places] /\ at' \in [Ranks -> Layers]
    BY <1>3, Facts DEF StartBatch, Places
  <2>3. phase' \in [Ranks -> {"first", "none", "recompute", "backward"}]
    BY <1>3 DEF StartBatch, First
  <2>4. since' \subseteq Batches BY <1>3, <2>1 DEF TypeOK
  <2>5. /\ UNCHANGED <<policy, err, cache, kept, depth, saved, popped, shared, queue, fault,
                       output, result, adding, grads, torn, bb, repack, waits, packed, failures>>
        /\ UNCHANGED <<alone, broken>>
    BY <1>3 DEF StartBatch, caches, tasks, buffer
  <2> QED BY <1>3, <2>1, <2>2, <2>3, <2>4, <2>5 DEF TypeOK, Places
<1>4. CASE Accumulate
  BY <1>3, <1>4 DEF Accumulate, TypeOK
<1>5. CASE Retry
  BY <1>3, <1>5 DEF Retry, TypeOK
<1>6. CASE OptimizerStep
  <2>1. version + 1 \in 1 .. MaxBatches
    BY <1>6, Facts DEF OptimizerStep, StartBatch, SyncInv, TypeOK, Batches
  <2> QED BY <1>3, <1>6, <2>1 DEF OptimizerStep
<1>7. CASE UNCHANGED vars
  BY <1>7 DEF vars, ranks, caches, tasks, window, buffer, weights, history, TypeOK
<1> QED BY <1>1, <1>2, <1>4, <1>5, <1>6, <1>7

\* Every step keeps the types.
LEMMA TypeStep ==
    ASSUME TypeOK, SyncInv, [Next]_vars
    PROVE  TypeOK'
BY LocalType, CollectiveType, ForwardType, BackwardType, OtherType DEF Next, OwnerStep

-----------------------------------------------------------------------------
(* The ranks stay together *)

\* The steps of rank 0 alone: from where to where it goes.
OwnerMove(from, to, failed) ==
    \/ from = "prepare" /\ to = IF Reuses(0) THEN "submitted" ELSE "gather"
    \/ from = "submit" /\ to = "submitted"
    \/ from = "collect" /\ to = "sync3"
    \/ from = "compute" /\ to = "pop" /\ ~failed /\ depth[at[0]] > 0 /\ depth' = depth
    \/ from = "pop" /\ to = "gemm" /\ ~failed /\ depth' = depth
    \/ from \in {"compute", "pop"} /\ to = "sync5" /\ failed
    \/ from = "gemm" /\ to = "sync5"
    \/ from = "repack" /\ to = "sync6"

\* Every step of rank 0 alone is one of these.
LEMMA OwnerMoves ==
    ASSUME OwnerStep
    PROVE  /\ UNCHANGED <<alone, version, batch>>
           /\ \E from, to : \E failed \in BOOLEAN :
                Rank0(from, to, failed) /\ OwnerMove(from, to, failed)
<1> DEFINE Goal ==
      /\ UNCHANGED <<alone, version, batch>>
      /\ \E from, to : \E failed \in BOOLEAN :
           Rank0(from, to, failed) /\ OwnerMove(from, to, failed)
<1>1. CASE Prepare
  <2>1. \E bad \in BOOLEAN : Rank0("prepare", IF Reuses(0) THEN "submitted" ELSE "gather", bad)
    BY <1>1 DEF Prepare
  <2>2. UNCHANGED <<alone, version, batch>> BY <1>1 DEF Prepare, Refresh, weights
  <2> QED BY <2>1, <2>2 DEF OwnerMove
<1>2. CASE Submit
  <2>1. \E bad \in BOOLEAN : Rank0("submit", "submitted", bad) BY <1>2 DEF Submit, SubmitError
  <2> QED BY <1>2, <2>1 DEF Submit, OwnerMove, weights
<1>3. CASE CollectCached \/ CollectTask
  <2>1. \E bad \in BOOLEAN : Rank0("collect", "sync3", bad) BY <1>3 DEF CollectCached, CollectTask
  <2> QED BY <1>3, <2>1 DEF CollectCached, CollectTask, OwnerMove, weights
<1>4. CASE Compute
  <2>1. \/ Rank0("compute", "sync5", TRUE)
        \/ Rank0("compute", "pop", FALSE) /\ depth[at[0]] > 0 /\ depth' = depth
    BY <1>4 DEF Compute, AbortBackward
  <2> QED BY <1>4, <2>1 DEF Compute, OwnerMove, weights, history
<1>5. CASE Pop
  <2>1. \/ Rank0("pop", "sync5", TRUE)
        \/ Rank0("pop", "gemm", FALSE) /\ depth' = depth
    BY <1>5 DEF Pop, AbortBackward
  <2> QED BY <1>5, <2>1 DEF Pop, OwnerMove, weights
<1>6. CASE Gemm
  <2>1. \E bad \in BOOLEAN : Rank0("gemm", "sync5", bad) BY <1>6 DEF Gemm, AbortBackward
  <2> QED BY <1>6, <2>1 DEF Gemm, OwnerMove, weights
<1>7. CASE SubmitRepack
  <2>1. \E bad \in BOOLEAN : Rank0("repack", "sync6", bad) BY <1>7 DEF SubmitRepack
  <2> QED BY <1>7, <2>1 DEF SubmitRepack, OwnerMove, weights
<1> QED BY <1>1, <1>2, <1>3, <1>4, <1>5, <1>6, <1>7 DEF OwnerStep

\* The place of rank 0 tells in which part of the pass all ranks are.
LEMMA Where ==
    ASSUME TypeOK, SyncInv
    PROVE  /\ pc[0] \in {"prepare", "submit", "gather", "submitted", "gpu", "sync2", "collect", "sync3"}
                <=> Inside
           /\ pc[0] \in {"recomputed", "sync4"} => Recomputing
           /\ pc[0] \in {"compute", "pop", "gemm", "sync5", "repack", "sync6", "end"} => Backward
           /\ pc[0] \in {"enter", "agree"} => Starting \/ Recomputing
           /\ pc[0] = "grad" => Recomputing \/ Backward
           /\ pc[0] = "raised" => Recomputing \/ All({"raised"})
BY Facts DEF SyncInv, Starting, Inside, Recomputing, Backward, All, Apart

\* The other ranks wait where the next collective operation of rank 0 is.
LEMMA OwnerSync ==
    ASSUME TypeOK, SyncInv, OwnerStep
    PROVE  SyncInv'
<1>1. PICK from, to : \E failed \in BOOLEAN :
         Rank0(from, to, failed) /\ OwnerMove(from, to, failed)
  BY OwnerMoves
<1>2. PICK failed \in BOOLEAN : Rank0(from, to, failed) /\ OwnerMove(from, to, failed)
  BY <1>1
<1>3. /\ pc[0] = from /\ pc'[0] = to /\ err'[0] = failed
      /\ \A r \in Others : pc'[r] = pc[r] /\ err'[r] = err[r] /\ r \in Ranks
      /\ \A r \in Ranks : r = 0 \/ r \in Others
      /\ UNCHANGED <<policy, at, phase, alone, version, batch>>
  BY <1>2, OwnerMoves, Facts DEF Rank0, TypeOK, Others
<1>4. Reuses(0)' <=> Reuses(0) BY <1>3 DEF Reuses
<1>5. Inside' \/ Backward'
  <2>1. CASE from \in {"prepare", "submit", "collect"}
    <3>1. Inside BY <1>3, <2>1, Where
    <3>2. \/ ~Reuses(0) /\ Apart({"prepare", "gather"}, "gather")'
          \/ Reuses(0) /\ Apart({"prepare", "submitted"}, "submitted")'
          \/ ~Reuses(0) /\ Apart({"submit", "submitted"}, "submitted")'
          \/ Apart({"collect", "sync3"}, "sync3")'
      BY <1>2, <1>3, <2>1, <3>1, Facts DEF Inside, Apart, All, OwnerMove
    <3> QED BY <1>3, <1>4, <3>1, <3>2 DEF Inside, Same
  <2>2. CASE from \in {"compute", "pop", "gemm", "repack"}
    <3>1. Backward BY <1>3, <2>2, Where
    <3>2. \/ Apart({"compute", "pop", "gemm", "sync5"}, "sync5")'
          \/ Apart({"repack", "sync6"}, "sync6")'
      BY <1>2, <1>3, <2>2, <3>1, Facts DEF Backward, Apart, All, OwnerMove
    <3> QED BY <1>3, <3>1, <3>2 DEF Backward, Same
  <2> QED BY <1>2, <2>1, <2>2 DEF OwnerMove
<1>6. \A r \in Ranks : err'[r] =>
         \/ pc'[r] \in {"sync2", "recomputed", "sync4"}
         \/ r = 0 /\ pc'[r] \in {"gather", "submit", "submitted", "sync3", "sync5", "sync6"}
  BY <1>2, <1>3 DEF OwnerMove, SyncInv
<1>7. pc'[0] # "end" BY <1>2, <1>3 DEF OwnerMove
<1>8. pc'[0] \in {"pop", "gemm"} => depth'[at'[0]] = 1
  <2>1. depth[at[0]] \in 0 .. 1 BY Facts DEF TypeOK
  <2> QED BY <1>2, <1>3, <2>1 DEF OwnerMove, SyncInv
<1> QED BY <1>3, <1>5, <1>6, <1>7, <1>8 DEF SyncInv, Same

\* A local step of a rank keeps it in the part of the pass where its peers are, unless
\* it fails alone in a recompute.
LEMMA LocalSync ==
    ASSUME TypeOK, SyncInv, NEW r \in Ranks, Local(r)
    PROVE  SyncInv'
<1>0. /\ UNCHANGED <<policy, at, depth, version, batch>>
      /\ \A q \in Ranks : q # r => pc'[q] = pc[q] /\ err'[q] = err[q] /\ phase'[q] = phase[q]
  BY DEF Local, Enter, Gpu, Recomputed, TypeOK, caches, weights
<1>p. First(r) # "recompute" /\ \A q \in Ranks : First(q)' = First(q) BY <1>0 DEF First
<1>1. CASE Enter(r)
  <2>1. /\ pc[r] = "enter" /\ phase' = phase
        /\ \/ pc'[r] = "agree" /\ err' = err /\ alone' = alone
           \/ phase[r] = "recompute" /\ pc'[r] = "recomputed" /\ err'[r] = TRUE /\ alone'
    BY <1>1 DEF Enter, TypeOK
  <2>2. Starting \/ Recomputing BY <2>1 DEF SyncInv, Inside, Backward, All, Apart, Others
  <2>3. CASE Starting
    <3>1. Starting' BY <1>0, <1>p, <2>1, <2>3 DEF Starting
    <3> QED BY <1>0, <2>1, <3>1, Facts DEF SyncInv, Same, Starting
  <2>4. CASE Recomputing
    <3>1. All({"enter", "agree", "recomputed"} \cup
               (IF policy[0] = "retain" THEN {"sync4"} ELSE {"grad", "raised"}))'
      BY <1>0, <2>1, <2>4 DEF Recomputing, All
    <3>2. \A q \in Ranks :
            phase'[q] = IF pc'[q] \in {"enter", "agree", "recomputed"} THEN "recompute" ELSE "backward"
      BY <1>0, <2>1, <2>4 DEF Recomputing
    <3>3. ~alone' => Ways'
      <4>1. SUFFICES ASSUME ~alone' PROVE Ways' OBVIOUS
      <4>2. Ways /\ All({"enter", "agree"}) BY <2>1, <2>4, <4>1 DEF Recomputing, Ways, All
      <4> QED BY <1>0, <2>1, <4>1, <4>2 DEF Ways, All
    <3>4. Recomputing' BY <1>0, <2>4, <3>1, <3>2, <3>3 DEF Recomputing, Same
    <3>5. pc'[0] \notin {"pop", "gemm", "end"} BY <3>1, Facts DEF All
    <3>6. \A q \in Ranks : err'[q] =>
            \/ pc'[q] \in {"sync2", "recomputed", "sync4"}
            \/ q = 0 /\ pc'[q] \in {"gather", "submit", "submitted", "sync3", "sync5", "sync6"}
      BY <1>0, <2>1 DEF SyncInv
    <3> QED BY <1>0, <2>1, <3>4, <3>5, <3>6 DEF SyncInv, Same
  <2> QED BY <2>2, <2>3, <2>4
<1>2. CASE Gpu(r)
  <2>1. pc[r] = "gpu" /\ pc'[r] = "sync2" /\ phase' = phase /\ alone' = alone
    BY <1>2 DEF Gpu, TypeOK
  <2>2. Inside /\ All({"gpu", "sync2"})
    BY <2>1 DEF SyncInv, Starting, Inside, Recomputing, Backward, All, Apart, Others
  <2>3. All({"gpu", "sync2"})' BY <1>0, <2>1, <2>2 DEF All
  <2>4. Inside' BY <1>0, <2>1, <2>2, <2>3 DEF Inside, Same
  <2>5. \A q \in Ranks : err'[q] =>
          \/ pc'[q] \in {"sync2", "recomputed", "sync4"}
          \/ q = 0 /\ pc'[q] \in {"gather", "submit", "submitted", "sync3", "sync5", "sync6"}
    BY <1>0, <2>1 DEF SyncInv
  <2> QED BY <1>0, <2>1, <2>3, <2>4, <2>5, Facts DEF SyncInv, Same, All
<1>3. CASE Recomputed(r)
  <2>1. pc[r] = "recomputed" /\ phase'[r] = "backward" BY <1>3 DEF Recomputed, TypeOK
  <2>2. Recomputing /\ Same(policy) /\ policy[r] = policy[0]
    BY <2>1 DEF SyncInv, Starting, Inside, Recomputing, Backward, All, Apart, Others, Same
  <2>3. \/ /\ policy[0] = "retain" /\ pc'[r] = "sync4" /\ alone' = alone
        \/ /\ policy[0] # "retain" /\ pc'[r] = "grad" /\ ~err[r] /\ err'[r] = FALSE
           /\ alone' = alone
        \/ /\ policy[0] # "retain" /\ pc'[r] = "raised" /\ (err[r] \/ alone') /\ err'[r] = FALSE
           /\ (~alone' => ~alone)
    <3>1. PICK late \in BOOLEAN :
            \/ /\ policy[r] = "retain"
               /\ pc' = [pc EXCEPT ![r] = "sync4"]
               /\ UNCHANGED alone
            \/ /\ policy[r] # "retain"
               /\ pc' = [pc EXCEPT ![r] = IF err[r] \/ late THEN "raised" ELSE "grad"]
               /\ err' = [err EXCEPT ![r] = FALSE]
               /\ alone' = (alone \/ late)
      BY <1>3 DEF Recomputed
    <3> QED BY <2>2, <3>1 DEF TypeOK
  <2>4. All({"enter", "agree", "recomputed"} \cup
             (IF policy[0] = "retain" THEN {"sync4"} ELSE {"grad", "raised"}))'
    BY <1>0, <2>1, <2>2, <2>3 DEF Recomputing, All
  <2>5. \A q \in Ranks :
          phase'[q] = IF pc'[q] \in {"enter", "agree", "recomputed"} THEN "recompute" ELSE "backward"
    BY <1>0, <2>1, <2>2, <2>3 DEF Recomputing
  <2>6. ~alone' => Ways'
    <3>1. SUFFICES ASSUME ~alone' PROVE Ways' OBVIOUS
    <3>2. Ways BY <2>2, <2>3, <3>1 DEF Recomputing
    <3>3. CASE policy[0] = "retain"
      <4>1. All({"recomputed", "sync4"})' BY <1>0, <2>1, <2>3, <3>2, <3>3 DEF Ways, All
      <4> QED BY <1>0, <3>3, <4>1 DEF Ways
    <3>4. CASE policy[0] # "retain" /\ ~err[r]
      <4>1. All({"recomputed", "grad"})' /\ \A q \in Ranks : ~err'[q]
        BY <1>0, <2>1, <2>3, <3>1, <3>2, <3>4 DEF Ways, All
      <4> QED BY <1>0, <3>4, <4>1 DEF Ways
    <3>5. CASE policy[0] # "retain" /\ err[r]
      <4>1. All({"recomputed", "raised"})' /\ \A q \in Ranks : pc'[q] = "recomputed" => err'[q]
        BY <1>0, <2>1, <2>3, <3>2, <3>5 DEF Ways, All
      <4> QED BY <1>0, <3>5, <4>1 DEF Ways
    <3> QED BY <3>3, <3>4, <3>5
  <2>7. Recomputing' BY <1>0, <2>2, <2>4, <2>5, <2>6 DEF Recomputing, Same
  <2>8. pc'[0] \notin {"pop", "gemm", "end"} BY <2>4, Facts DEF All
  <2>9. \A q \in Ranks : err'[q] =>
          \/ pc'[q] \in {"sync2", "recomputed", "sync4"}
          \/ q = 0 /\ pc'[q] \in {"gather", "submit", "submitted", "sync3", "sync5", "sync6"}
    BY <1>0, <2>1, <2>3 DEF SyncInv
  <2>10. \A q \in Ranks : phase'[q] \in IF policy'[q] = "none" THEN {"none", "backward"}
                                     ELSE {"first", "recompute", "backward"}
    BY <1>0, <2>1, Zenon DEF SyncInv
  <2> QED BY <1>0, <2>7, <2>8, <2>9, <2>10 DEF SyncInv, Same
<1> QED BY <1>1, <1>2, <1>3 DEF Local

\* Who has failed, and where
ErrPlaces(p, r) ==
    \/ p \in {"sync2", "recomputed", "sync4"}
    \/ r = 0 /\ p \in {"gather", "submit", "submitted", "sync3", "sync5", "sync6"}

\* An exception that every rank learns of ends the pass, or the recompute, on all of them.
LEMMA RaiseSync ==
    ASSUME TypeOK, SyncInv, NEW from, MeetAndRaise(from),
           from \in {"agree", "submitted", "sync2", "sync3", "sync4", "sync5", "sync6"},
           UNCHANGED <<policy, at, phase, version, batch>>
    PROVE  SyncInv'
<1>0. /\ \A r \in Ranks : pc[r] = from
      /\ \A r \in Ranks : pc'[r] = (IF phase[r] = "recompute" THEN "recomputed" ELSE "raised")
      /\ \A r \in Ranks : err'[r] = (phase[r] = "recompute")
  BY DEF MeetAndRaise, Thrown
<1>1. \/ \A r \in Ranks : phase[r] # "recompute"
      \/ (\A r \in Ranks : phase[r] = "recompute") /\ Same(policy) /\ policy[0] # "none"
  <2>1. CASE Starting BY <2>1 DEF Starting, First
  <2>2. CASE Inside BY <2>2, Facts DEF Inside, Same, SyncInv
  <2>3. CASE Recomputing
    <3>1. Same(policy) /\ policy[0] # "none" BY <2>3 DEF Recomputing
    <3>2. \A r \in Ranks : phase[r] = IF from = "agree" THEN "recompute" ELSE "backward"
      BY <1>0, <2>3 DEF Recomputing
    <3> QED BY <3>1, <3>2
  <2>4. CASE Backward BY <2>4, Facts DEF Backward, Same
  <2>5. ~All({"raised"}) BY <1>0, Facts DEF All
  <2> QED BY <2>1, <2>2, <2>3, <2>4, <2>5 DEF SyncInv
<1>2. pc'[0] \notin {"end", "pop", "gemm"} BY <1>0, Facts
<1>3. \A r \in Ranks : err'[r] => pc'[r] = "recomputed" BY <1>0
<1>4. Recomputing' \/ All({"raised"})'
  <2>1. CASE \A r \in Ranks : phase[r] # "recompute" BY <1>0, <2>1 DEF All
  <2>2. CASE (\A r \in Ranks : phase[r] = "recompute") /\ Same(policy) /\ policy[0] # "none"
    <3>1. \A r \in Ranks : pc'[r] = "recomputed" /\ err'[r] /\ phase'[r] = "recompute"
      BY <1>0, <2>2
    <3>2. Same(policy)' /\ policy'[0] # "none" BY <2>2 DEF Same
    <3>3. Ways' BY <3>1 DEF Ways, All
    <3> QED BY <3>1, <3>2, <3>3 DEF Recomputing, All
  <2> QED BY <1>1, <2>1, <2>2
<1> QED BY <1>2, <1>3, <1>4 DEF SyncInv, Same

\* A collective operation takes all ranks from one place to the next.
LEMMA CollectiveSync ==
    ASSUME TypeOK, SyncInv, Collective
    PROVE  SyncInv'
<1>u. UNCHANGED <<policy, version, batch, depth, alone>>
  BY DEF Collective, Agree, Gather, Submitted, GpuSync, Collected, RecomputeSync, GatherGrads,
         Computed, RepackSubmitted, caches, weights, history
<1>a. ASSUME UNCHANGED <<at, phase, err>>, NEW from, NEW p, NEW q,
             Meet(from, p, q), p \notin {"end", "pop", "gemm"},
             \A r \in Ranks : err[r] => ErrPlaces(IF r = 0 THEN p ELSE q, r),
             Starting' \/ Inside' \/ Recomputing' \/ Backward'
      PROVE  SyncInv'
  <2>1. \A r \in Ranks : pc'[r] = IF r = 0 THEN p ELSE q BY <1>a DEF Meet
  <2>2. \A r \in Ranks : err'[r] => ErrPlaces(pc'[r], r) BY <1>a, <2>1
  <2> QED BY <1>a, <1>u, <2>1, <2>2, Facts DEF SyncInv, Same, ErrPlaces
<1>b. ASSUME NEW from, NEW p, NEW q, Meet(from, p, q)
      PROVE  /\ pc[0] = from /\ \A r \in Ranks : pc[r] = from
             /\ pc'[0] = p /\ \A r \in Others : pc'[r] = q
             /\ p = q => \A r \in Ranks : pc'[r] = p
  BY <1>b, Facts DEF Meet, Others
<1>1. CASE Agree
  <2>1. CASE MeetAndRaise("agree") BY <1>1, <1>u, <2>1, RaiseSync DEF Agree
  <2>2. CASE /\ \A r \in Ranks : <<at[r], phase[r], policy[r]>> = <<at[0], phase[0], policy[0]>>
             /\ Meet("agree", "prepare", IF Reuses(0) THEN "submitted" ELSE "gather")
             /\ UNCHANGED err
    <3>1. Same(policy) /\ Same(phase) BY <2>2 DEF Same
    <3>2. \A r \in Ranks : pc[r] = "agree" /\ ~err[r] BY <2>2 DEF Meet, SyncInv
    <3>3. Starting \/ Recomputing BY <3>2, Where, Facts
    <3>4. phase[0] # "backward" BY <3>2, <3>3, Facts DEF Starting, Recomputing, First
    <3>5. Reuses(0)' <=> Reuses(0) BY <1>1, <1>u DEF Agree, Reuses
    <3>6. IF Reuses(0) THEN Apart({"prepare", "submitted"}, "submitted")'
                       ELSE Apart({"prepare", "gather"}, "gather")'
      BY <2>2, <1>b DEF Apart
    <3>7. Inside' BY <1>1, <1>u, <3>1, <3>4, <3>5, <3>6 DEF Agree, Inside, Same
    <3> QED BY <1>1, <1>a, <2>2, <3>2, <3>7 DEF Agree
  <2> QED BY <1>1, <2>1, <2>2 DEF Agree
<1>2. CASE Gather
  <2>1. Meet("gather", "submit", "submitted") BY <1>2 DEF Gather
  <2>2. \A r \in Ranks : pc[r] = "gather" BY <2>1 DEF Meet
  <2>3. Inside /\ ~Reuses(0) BY <2>2, Where, Facts DEF Inside, Apart, All
  <2>4. Reuses(0)' <=> Reuses(0) BY <1>2, <1>u DEF Gather, Reuses
  <2>5. Apart({"submit", "submitted"}, "submitted")' BY <2>1, <1>b DEF Apart
  <2>6. Inside' BY <1>2, <1>u, <2>3, <2>4, <2>5 DEF Gather, Inside, Same
  <2>7. \A r \in Ranks : err[r] => r = 0 BY <2>2 DEF SyncInv
  <2> QED BY <1>2, <1>a, <2>1, <2>6, <2>7 DEF Gather, ErrPlaces
<1>3. CASE Submitted
  <2>1. CASE MeetAndRaise("submitted") BY <1>3, <1>u, <2>1, RaiseSync DEF Submitted
  <2>2. CASE ~err[0] /\ Meet("submitted", "gpu", "gpu") /\ UNCHANGED err
    <3>1. \A r \in Ranks : pc[r] = "submitted" /\ ~err[r] BY <2>2 DEF Meet, SyncInv
    <3>2. Inside BY <3>1, Where, Facts
    <3>3. All({"gpu", "sync2"})' BY <2>2, <1>b DEF All
    <3>4. Inside' BY <1>3, <1>u, <3>2, <3>3 DEF Submitted, Inside, Same
    <3> QED BY <1>3, <1>a, <2>2, <3>1, <3>4 DEF Submitted
  <2> QED BY <1>3, <2>1, <2>2 DEF Submitted
<1>4. CASE GpuSync
  <2>1. CASE MeetAndRaise("sync2") BY <1>4, <1>u, <2>1, RaiseSync DEF GpuSync
  <2>2. CASE (\A r \in Ranks : ~err[r]) /\ Meet("sync2", "collect", "sync3") /\ UNCHANGED err
    <3>1. \A r \in Ranks : pc[r] = "sync2" BY <2>2 DEF Meet
    <3>2. Inside BY <3>1, Where, Facts
    <3>3. Apart({"collect", "sync3"}, "sync3")' BY <2>2, <1>b DEF Apart
    <3>4. Inside' BY <1>4, <1>u, <3>2, <3>3 DEF GpuSync, Inside, Same
    <3> QED BY <1>4, <1>a, <2>2, <3>4 DEF GpuSync
  <2> QED BY <1>4, <2>1, <2>2 DEF GpuSync
<1>5. CASE RecomputeSync
  <2>1. CASE MeetAndRaise("sync4") BY <1>5, <1>u, <2>1, RaiseSync DEF RecomputeSync
  <2>2. CASE (\A r \in Ranks : ~err[r]) /\ Meet("sync4", "grad", "grad") /\ UNCHANGED err
    <3>1. \A r \in Ranks : pc[r] = "sync4" BY <2>2 DEF Meet
    <3>2. Recomputing BY <3>1, Where, Facts
    <3>3. \A r \in Ranks : phase[r] = "backward" BY <3>1, <3>2 DEF Recomputing
    <3>4. All({"grad"})' BY <2>2, <1>b DEF All
    <3>5. Backward' BY <1>5, <1>u, <3>2, <3>3, <3>4, Facts
          DEF RecomputeSync, Backward, Recomputing, Same
    <3> QED BY <1>5, <1>a, <2>2, <3>5 DEF RecomputeSync
  <2> QED BY <1>5, <2>1, <2>2 DEF RecomputeSync
<1>6. CASE GatherGrads
  <2>1. Meet("grad", "compute", "sync5") BY <1>6 DEF GatherGrads
  <2>2. \A r \in Ranks : pc[r] = "grad" /\ ~err[r] BY <2>1 DEF Meet, SyncInv
  <2>3. Recomputing \/ Backward BY <2>2, Where, Facts
  <2>4. Same(policy) /\ Same(phase) /\ phase[0] = "backward"
    BY <2>2, <2>3, Facts DEF Recomputing, Backward, Same
  <2>5. Apart({"compute", "pop", "gemm", "sync5"}, "sync5")' BY <2>1, <1>b DEF Apart
  <2>6. Backward' BY <1>6, <1>u, <2>4, <2>5 DEF GatherGrads, Backward, Same
  <2> QED BY <1>6, <1>a, <2>1, <2>2, <2>6 DEF GatherGrads
<1>7. CASE Computed
  <2>1. CASE MeetAndRaise("sync5") BY <1>7, <1>u, <2>1, RaiseSync DEF Computed
  <2>2. CASE ~err[0] /\ Meet("sync5", "repack", "sync6") /\ UNCHANGED err
    <3>1. \A r \in Ranks : pc[r] = "sync5" /\ ~err[r] BY <2>2 DEF Meet, SyncInv
    <3>2. Backward BY <3>1, Where, Facts
    <3>3. Apart({"repack", "sync6"}, "sync6")' BY <2>2, <1>b DEF Apart
    <3>4. Backward' BY <1>7, <1>u, <3>2, <3>3 DEF Computed, Backward, Same
    <3> QED BY <1>7, <1>a, <2>2, <3>1, <3>4 DEF Computed
  <2> QED BY <1>7, <2>1, <2>2 DEF Computed
<1>8. CASE Collected
  <2>1. CASE MeetAndRaise("sync3") /\ UNCHANGED <<at, phase>>
    BY <1>8, <1>u, <2>1, RaiseSync DEF Collected
  <2>2. CASE ~(MeetAndRaise("sync3") /\ UNCHANGED <<at, phase>>)
    <3>0. /\ \A r \in Ranks : pc[r] = "sync3"
          /\ UNCHANGED err /\ ~err[0]
          /\ \A r \in Ranks : pc'[r] = (CASE phase[0] = "recompute"        -> "recomputed"
                                          [] Turns /\ phase[0] = "none" -> "grad"
                                          [] OTHER                      -> "enter")
          /\ \A r \in Ranks : at'[r] = IF phase[r] = "recompute" \/ Turns THEN at[r] ELSE at[r] + 1
          /\ \A r \in Ranks : phase'[r] = IF ~Turns \/ phase[r] = "recompute" THEN phase[r]
                                          ELSE IF phase[r] = "none" THEN "backward" ELSE "recompute"
      BY <1>8, <2>2 DEF Collected, Meet
    <3>1. Inside BY <3>0, Where, Facts
    <3>2. Same(policy) /\ Same(phase) /\ phase[0] # "backward" BY <3>1 DEF Inside
    <3>3. \A r \in Ranks : ~err'[r] BY <3>0 DEF SyncInv
    <3>4. Same(at)' BY <3>0, <3>2, Facts DEF Same, SyncInv
    <3>5. \A r \in Ranks : phase[r] = phase[0] /\ policy[r] = policy[0] BY <3>2 DEF Same
    <3>6. phase[0] \in IF policy[0] = "none" THEN {"none"} ELSE {"first", "recompute"}
      BY <3>2, Facts DEF SyncInv
    <3>7. \A r \in Ranks : phase'[r] \in IF policy[r] = "none" THEN {"none", "backward"}
                                     ELSE {"first", "recompute", "backward"}
      BY <3>0, <3>5, <3>6
    <3>8. pc'[0] \notin {"end", "pop", "gemm"} BY <3>0, Facts
    <3>9. Starting' \/ Recomputing' \/ Backward'
      <4>1. CASE phase[0] = "recompute"
        <5>1. \A r \in Ranks : pc'[r] = "recomputed" /\ phase'[r] = "recompute" BY <3>0, <3>5, <4>1
        <5>2. Ways' BY <3>3, <5>1 DEF Ways, All
        <5> QED BY <1>u, <3>2, <3>6, <4>1, <5>1, <5>2 DEF Recomputing, All, Same
      <4>2. CASE phase[0] = "none" /\ Turns
        <5>1. \A r \in Ranks : pc'[r] = "grad" /\ phase'[r] = "backward" BY <3>0, <3>5, <4>2
        <5> QED BY <1>u, <3>2, <5>1, Facts DEF Backward, All, Same
      <4>3. CASE phase[0] = "first" /\ Turns
        <5>1. \A r \in Ranks : pc'[r] = "enter" /\ phase'[r] = "recompute" BY <3>0, <3>5, <4>3
        <5>2. Ways' BY <5>1 DEF Ways, All
        <5> QED BY <1>u, <3>2, <3>6, <4>3, <5>1, <5>2 DEF Recomputing, All, Same
      <4>4. CASE phase[0] \in {"first", "none"} /\ ~Turns
        <5>1. \A r \in Ranks : pc'[r] = "enter" /\ phase'[r] = phase[0] BY <3>0, <3>5, <4>4
        <5>2. \A r \in Ranks : First(r)' = phase[0] BY <1>u, <3>5, <3>6, <4>4 DEF First
        <5> QED BY <5>1, <5>2 DEF Starting
      <4> QED BY <3>6, <4>1, <4>2, <4>3, <4>4
    <3> QED BY <1>u, <3>3, <3>4, <3>7, <3>8, <3>9 DEF SyncInv
  <2> QED BY <2>1, <2>2
<1>9. CASE RepackSubmitted
  <2>1. CASE MeetAndRaise("sync6") /\ UNCHANGED <<at, phase>>
    BY <1>9, <1>u, <2>1, RaiseSync DEF RepackSubmitted
  <2>2. CASE ~err[0] /\ at[0] = 1 /\ Meet("sync6", "end", "end") /\ UNCHANGED <<at, phase, err>>
    <3>1. \A r \in Ranks : pc[r] = "sync6" /\ ~err[r] BY <2>2 DEF Meet, SyncInv
    <3>2. Backward BY <3>1, Where, Facts
    <3>3. \A r \in Ranks : pc'[r] = "end" BY <2>2, <1>b
    <3>4. Backward' BY <1>u, <2>2, <3>2, <3>3 DEF Backward, Same, All
    <3> QED BY <1>u, <2>2, <3>1, <3>3, <3>4, Facts DEF SyncInv, Same
  <2>3. CASE /\ ~err[0] /\ at[0] > 1
             /\ LET to == IF policy[0] = "none" THEN "grad" ELSE "enter" IN Meet("sync6", to, to)
             /\ at' = [r \in Ranks |-> at[r] - 1]
             /\ phase' = [r \in Ranks |-> IF policy[r] = "none" THEN "backward" ELSE "recompute"]
             /\ UNCHANGED err
    <3>1. \A r \in Ranks : pc[r] = "sync6" /\ ~err[r] BY <2>3 DEF Meet, SyncInv
    <3>2. Backward /\ Same(policy) BY <3>1, Where, Facts DEF Backward
    <3>3. \A r \in Ranks : pc'[r] = IF policy[0] = "none" THEN "grad" ELSE "enter" BY <2>3, <1>b
    <3>4. \A r \in Ranks : phase'[r] = IF policy[0] = "none" THEN "backward" ELSE "recompute"
      BY <2>3, <3>2 DEF Same
    <3>5. Same(at)' BY <2>3, Facts DEF SyncInv, Same
    <3>6. Recomputing' \/ Backward'
      <4>1. CASE policy[0] = "none" BY <1>u, <3>2, <3>3, <3>4, <4>1, Facts DEF Backward, All, Same
      <4>2. CASE policy[0] # "none"
        <5>1. Ways' BY <3>3, <4>2 DEF Ways, All
        <5> QED BY <1>u, <3>2, <3>3, <3>4, <4>2, <5>1 DEF Recomputing, All, Same
      <4> QED BY <4>1, <4>2
    <3>7. \A r \in Ranks : phase'[r] \in IF policy[r] = "none" THEN {"none", "backward"}
                                     ELSE {"first", "recompute", "backward"}
      BY <2>3
    <3> QED BY <1>u, <2>3, <3>1, <3>3, <3>5, <3>6, <3>7, Facts DEF SyncInv
  <2> QED BY <1>9, <2>1, <2>2, <2>3 DEF RepackSubmitted
<1> QED BY <1>1, <1>2, <1>3, <1>4, <1>5, <1>6, <1>7, <1>8, <1>9 DEF Collective

\* The other steps leave the ranks alone, or start all of them on a new batch.
LEMMA OtherSync ==
    ASSUME TypeOK, SyncInv,
           \/ RunTask \/ (\E l \in Layers : RepackEnds(l))
           \/ Accumulate \/ OptimizerStep \/ Retry \/ UNCHANGED vars
    PROVE  SyncInv'
<1>1. CASE RunTask \/ (\E l \in Layers : RepackEnds(l)) \/ UNCHANGED vars
  <2>1. UNCHANGED <<policy, pc, at, phase, err, depth, version, batch, alone>>
    BY <1>1 DEF RunTask, RepackEnds, vars, ranks, caches, weights, history
  <2>2. /\ Starting' <=> Starting
        /\ Inside' <=> Inside
        /\ Recomputing' <=> Recomputing
        /\ Backward' <=> Backward
        /\ All({"raised"})' <=> All({"raised"})
    BY <2>1 DEF Starting, First, Inside, Recomputing, Ways, Backward, All, Apart, Same, Reuses
  <2> QED BY <2>1, <2>2 DEF SyncInv, Same
<1>2. CASE Accumulate \/ OptimizerStep \/ Retry
  <2>1. StartBatch /\ (version' = version \/ version' = version + 1)
    BY <1>2 DEF Accumulate, OptimizerStep, Retry
  <2>2. \A r \in Ranks : pc[r] \in {"end", "raised"} /\ ~err[r]
    BY <1>2 DEF Accumulate, OptimizerStep, Retry, Ended, SyncInv
  <2>3. /\ \A r \in Ranks : pc'[r] = "enter" /\ at'[r] = 1 /\ phase'[r] = First(r)
        /\ UNCHANGED <<policy, err>> /\ batch' = batch + 1
    BY <2>1 DEF StartBatch
  <2>4. \A r \in Ranks : First(r)' = First(r) BY <2>3 DEF First
  <2>5. Starting' BY <2>3, <2>4 DEF Starting
  <2>6. \A r \in Ranks : phase'[r] \in IF policy'[r] = "none" THEN {"none", "backward"}
                                     ELSE {"first", "recompute", "backward"}
    BY <2>3 DEF First
  <2>7. version' <= batch' BY <2>1, <2>3, Facts DEF SyncInv, TypeOK, Batches
  <2> QED BY <2>2, <2>3, <2>5, <2>6, <2>7, Facts DEF SyncInv, Same
<1> QED BY <1>1, <1>2

\* Every step keeps the ranks together.
LEMMA SyncStep ==
    ASSUME TypeOK, SyncInv, [Next]_vars
    PROVE  SyncInv'
BY OwnerSync, LocalSync, CollectiveSync, OtherSync DEF Next

\* All ranks start together.
LEMMA InitSync == Init => TypeOK /\ SyncInv
<1> SUFFICES ASSUME Init PROVE TypeOK /\ SyncInv OBVIOUS
<1>1. TypeOK
  <2>1. /\ \A r \in Ranks : First(r) \in {"first", "none"}
        /\ 1 \in 1 .. MaxBatches /\ 1 \in Batches /\ 0 \in 0 .. NumLayers /\ 0 \in 0 .. MaxBatches
        /\ 0 \in 0 .. MaxFailures
    BY Facts DEF First, Batches
  <2>2. policy \in [Ranks -> Policies] /\ at \in [Ranks -> Layers] /\ err \in [Ranks -> BOOLEAN]
    BY Facts DEF Init
  <2>3. pc \in [Ranks -> Places] BY DEF Init, Places
  <2>4. phase \in [Ranks -> {"first", "none", "recompute", "backward"}] BY <2>1 DEF Init
  <2>5. /\ shared \in (0 .. NumLayers) \X Batches /\ output \in (0 .. NumLayers) \X Batches
        /\ result \in (0 .. NumLayers) \X Batches
    BY <2>1, Facts DEF Init
  <2>6. bb \in [owner : 0 .. NumLayers, holds : 0 .. NumLayers, version : 0 .. MaxBatches]
    BY <2>1 DEF Init
  <2>7. /\ cache \in [Layers -> {"EMPTY", "READY", "POISONED"}]
        /\ kept \in [Layers -> Batches] /\ depth \in [Layers -> 0 .. 1]
        /\ saved \in [Layers -> Batches] /\ popped \in Batches
    BY Facts DEF Init
  <2>8. /\ open \in [Layers -> BOOLEAN] /\ adding \in BOOLEAN
        /\ torn \in [Layers -> BOOLEAN] /\ waits \in [Layers -> BOOLEAN]
        /\ dirty \in [Layers -> BOOLEAN] /\ fault \in BOOLEAN
        /\ alone \in BOOLEAN /\ broken \in BOOLEAN
    BY DEF Init
  <2>9. /\ grads \in [Layers -> SUBSET Batches] /\ since \subseteq Batches
        /\ repack \in [Layers -> {"off", "running", "failed"}]
        /\ queue \in Seq(Tasks)
    BY DEF Init
  <2>10. /\ version \in 1 .. MaxBatches /\ packed \in [Layers -> 1 .. MaxBatches]
         /\ batch \in Batches /\ failures \in 0 .. MaxFailures
    BY <2>1 DEF Init
  <2> QED BY <2>2, <2>3, <2>4, <2>5, <2>6, <2>7, <2>8, <2>9, <2>10 DEF TypeOK, Places
<1>2. \A r \in Ranks : pc[r] = "enter" /\ at[r] = 1 /\ phase[r] = First(r) /\ ~err[r]
  BY DEF Init
<1>3. Starting BY <1>2 DEF Starting
<1>4. version <= batch BY DEF Init
<1> QED BY <1>1, <1>2, <1>3, <1>4, Facts DEF SyncInv, Same, First

\* Every variable keeps its type, and the ranks stay together, in every state.
THEOREM Together == Spec => [](TypeOK /\ SyncInv)
<1>1. TypeOK /\ SyncInv /\ [Next]_vars => (TypeOK /\ SyncInv)' BY TypeStep, SyncStep
<1> QED BY <1>1, InitSync, PTL DEF Spec

\* _cache_depth of base.py never counts more than the one entry that the C++ cache holds.
THEOREM TypesKept == Spec => []TypeOK
BY Together, PTL

\* No rank waits in a collective operation that another has skipped: the broadcasts of
\* _sync_rank0_exception and _sync_any_rank_exception come before each of them, unless a
\* rank fails in a recompute before or after the experts, with no cache to retain.
THEOREM RanksStayTogether == Spec => []NobodyStranded
<1>1. TypeOK /\ SyncInv => NobodyStranded
  <2>1. SUFFICES ASSUME TypeOK, SyncInv, ~alone,
                        \A r \in Ranks : pc[r] \in Collectives \cup {"raised", "end"}
                 PROVE  \A r \in Ranks : pc[r] = pc[0]
    BY DEF NobodyStranded
  <2>2. CASE Starting BY <2>1, <2>2, Facts DEF Starting, Collectives
  <2>3. CASE Inside BY <2>1, <2>3, Facts DEF Inside, Collectives, All, Apart, Others
  <2>4. CASE Recomputing
    <3>1. Ways BY <2>1, <2>4 DEF Recomputing
    <3> QED BY <2>1, <3>1, Facts DEF Ways, Collectives, All
  <2>5. CASE Backward BY <2>1, <2>5, Facts DEF Backward, Collectives, All, Apart, Others
  <2>6. CASE All({"raised"}) BY <2>6, Facts DEF All
  <2> QED BY <2>1, <2>2, <2>3, <2>4, <2>5, <2>6 DEF SyncInv
<1> QED BY <1>1, Together, PTL

-----------------------------------------------------------------------------
(* What the steps of all ranks do to rank 0 *)

\* Rank 0 goes from one place to another, at the same layer and in the same phase.
Goes(from, to) ==
    pc[0] = from /\ pc'[0] = to /\ at'[0] = at[0] /\ phase'[0] = phase[0]

\* It keeps its error.
Keeps(from, to) == Goes(from, to) /\ err'[0] = err[0]

RaiseMove ==
    /\ pc[0] \in {"agree", "submitted", "sync2", "sync3", "sync4", "sync5", "sync6"}
    /\ Goes(pc[0], Thrown(0))
    /\ err'[0] = (phase[0] = "recompute")

ForwardMove ==
    \/ Keeps("enter", "agree")
    \/ Goes("enter", "recomputed") /\ phase[0] = "recompute" /\ err'[0]
    \/ Keeps("agree", "prepare") /\ phase[0] # "backward"
    \/ Keeps("gather", "submit")
    \/ Keeps("submitted", "gpu") /\ ~err[0]
    \/ Goes("gpu", "sync2")
    \/ Keeps("sync2", "collect") /\ ~err[0]

\* A forward goes on, turns back, or ends a recompute.
TurnMove ==
    /\ pc[0] = "sync3" /\ ~err[0] /\ ~err'[0]
    /\ \/ Goes("sync3", "recomputed") /\ phase[0] = "recompute"
       \/ /\ Turns /\ at'[0] = at[0] /\ phase[0] = "none"
          /\ pc'[0] = "grad" /\ phase'[0] = "backward"
       \/ /\ Turns /\ at'[0] = at[0] /\ phase[0] = "first"
          /\ pc'[0] = "enter" /\ phase'[0] = "recompute"
       \/ /\ ~Turns /\ at'[0] = at[0] + 1 /\ at[0] < NumLayers
          /\ phase[0] \in {"first", "none"} /\ phase'[0] = phase[0]
          /\ pc'[0] = "enter"

BackMove ==
    \/ /\ pc[0] = "recomputed" /\ at'[0] = at[0]
       /\ phase[0] = "recompute" /\ phase'[0] = "backward"
       /\ \/ pc'[0] = "sync4" /\ policy[0] = "retain" /\ (err[0] => err'[0])
          \/ pc'[0] = "raised" /\ policy[0] = "recompute" /\ ~err'[0]
             /\ (err[0] \/ failures' # failures)
          \/ pc'[0] = "grad" /\ policy[0] = "recompute" /\ ~err[0] /\ ~err'[0]
    \/ Keeps("sync4", "grad") /\ ~err[0] /\ policy[0] = "retain"
    \/ Keeps("grad", "compute") /\ ~err[0]
    \/ Keeps("sync5", "repack") /\ ~err[0]
    \/ Keeps("sync6", "end") /\ ~err[0] /\ at[0] = 1
    \/ /\ pc[0] = "sync6" /\ ~err[0] /\ ~err'[0] /\ at[0] > 1 /\ at'[0] = at[0] - 1
       /\ \/ pc'[0] = "grad" /\ policy[0] = "none" /\ phase'[0] = "backward"
          \/ pc'[0] = "enter" /\ policy[0] # "none" /\ phase'[0] = "recompute"

Move == RaiseMove \/ ForwardMove \/ TurnMove \/ BackMove

\* What rank 0 is doing, by its place
LEMMA Phases ==
    ASSUME TypeOK, SyncInv
    PROVE  /\ phase[0] = "recompute" => policy[0] # "none"
           /\ phase[0] = "none" <=> (policy[0] = "none" /\ phase[0] # "backward")
           /\ pc[0] \in {"prepare", "submit", "gather", "submitted", "gpu", "sync2", "collect", "sync3"}
                => phase[0] # "backward"
           /\ pc[0] \in {"gather", "submit"} => ~Reuses(0)
           /\ pc[0] = "recomputed" => phase[0] = "recompute"
           /\ pc[0] \in {"sync4", "grad", "compute", "pop", "gemm", "sync5", "repack", "sync6", "end"}
                => phase[0] = "backward"
           /\ pc[0] = "sync4" => policy[0] = "retain"
           /\ pc[0] = "enter" => phase[0] # "backward"
           /\ pc[0] = "agree" => phase[0] # "backward"
           /\ pc[0] = "end" => at[0] = 1
           /\ err[0] => pc[0] \in {"sync2", "recomputed", "sync4", "gather", "submit", "submitted",
                                   "sync3", "sync5", "sync6"}
           /\ at[0] \in Nat /\ at[0] \in Layers /\ at[0] > 0 /\ at[0] <= NumLayers
<1>1. /\ pc[0] \in {"sync4", "recomputed"} =>
           policy[0] # "none" /\ (pc[0] = "sync4" => policy[0] = "retain" /\ phase[0] = "backward")
                              /\ (pc[0] = "recomputed" => phase[0] = "recompute")
      /\ pc[0] = "grad" => phase[0] = "backward"
  BY Where, Facts DEF Recomputing, All, Backward
<1>2. pc[0] \in {"prepare", "submit", "gather", "submitted", "gpu", "sync2", "collect", "sync3"}
        => phase[0] # "backward" /\ (pc[0] \in {"gather", "submit"} => ~Reuses(0))
  BY Where, Facts DEF Inside, Apart, All
<1>3. pc[0] \in {"compute", "pop", "gemm", "sync5", "repack", "sync6", "end"} => phase[0] = "backward"
  BY Where, Facts DEF Backward
<1>4. pc[0] \in {"enter", "agree"} => phase[0] # "backward"
  BY Where, Facts DEF Starting, First, Recomputing
<1>5. phase[0] \in IF policy[0] = "none" THEN {"none", "backward"} ELSE {"first", "recompute", "backward"}
  BY Facts DEF SyncInv
<1>6. /\ pc[0] = "end" => at[0] = 1
      /\ err[0] => pc[0] \in {"sync2", "recomputed", "sync4", "gather", "submit", "submitted",
                              "sync3", "sync5", "sync6"}
      /\ at[0] \in Nat /\ at[0] \in Layers /\ at[0] > 0 /\ at[0] <= NumLayers
  BY Facts DEF SyncInv, TypeOK
<1> QED BY <1>1, <1>2, <1>3, <1>4, <1>5, <1>6

\* An exception that every rank learns of
LEMMA RaiseMoves ==
    ASSUME TypeOK, NEW from, MeetAndRaise(from), UNCHANGED <<at, phase>>,
           from \in {"agree", "submitted", "sync2", "sync3", "sync4", "sync5", "sync6"}
    PROVE  RaiseMove
BY Facts DEF MeetAndRaise, RaiseMove, Goes, Thrown

\* The collective operations and the local steps move rank 0 in one of these ways, or
\* leave it where it is.
LEMMA Moves ==
    ASSUME TypeOK, SyncInv, Collective \/ \E r \in Ranks : Local(r)
    PROVE  \/ Move
           \/ pc'[0] = pc[0] /\ at'[0] = at[0] /\ phase'[0] = phase[0] /\ err'[0] = err[0]
<1>m. ASSUME NEW from, NEW p, NEW q, Meet(from, p, q) PROVE pc[0] = from /\ pc'[0] = p
  BY <1>m, Facts DEF Meet
<1>1. CASE Agree
  BY <1>1, <1>m, RaiseMoves, Phases DEF Agree, Move, ForwardMove, Keeps, Goes
<1>2. CASE Gather BY <1>2, <1>m DEF Gather, Move, ForwardMove, Keeps, Goes
<1>3. CASE Submitted
  BY <1>3, <1>m, RaiseMoves DEF Submitted, Move, ForwardMove, Keeps, Goes
<1>4. CASE GpuSync
  BY <1>4, <1>m, RaiseMoves, Facts DEF GpuSync, Move, ForwardMove, Keeps, Goes
<1>5. CASE Collected
  <2>1. CASE MeetAndRaise("sync3") /\ UNCHANGED <<at, phase>> BY <2>1, RaiseMoves DEF Move
  <2>2. CASE ~(MeetAndRaise("sync3") /\ UNCHANGED <<at, phase>>)
    <3>1. /\ pc[0] = "sync3" /\ UNCHANGED err /\ ~err[0]
          /\ pc'[0] = (CASE phase[0] = "recompute"        -> "recomputed"
                         [] Turns /\ phase[0] = "none" -> "grad"
                         [] OTHER                      -> "enter")
          /\ at'[0] = IF phase[0] = "recompute" \/ Turns THEN at[0] ELSE at[0] + 1
          /\ phase'[0] = IF ~Turns \/ phase[0] = "recompute" THEN phase[0]
                         ELSE IF phase[0] = "none" THEN "backward" ELSE "recompute"
      BY <1>5, <2>2, Facts DEF Collected, Meet
    <3>2. phase[0] \in {"first", "none", "recompute"} BY <3>1, Phases, Facts DEF TypeOK
    <3>3. ~Turns => at[0] < NumLayers BY Phases, Facts DEF Turns
    <3> QED BY <3>1, <3>2, <3>3 DEF Move, TurnMove, Goes
  <2> QED BY <2>1, <2>2
<1>6. CASE RecomputeSync
  <2>1. pc[0] = "sync4" /\ policy[0] = "retain" BY <1>6, <1>m, Phases, Facts DEF RecomputeSync, MeetAndRaise
  <2> QED BY <1>6, <1>m, <2>1, RaiseMoves, Facts DEF RecomputeSync, Move, BackMove, Keeps, Goes
<1>7. CASE GatherGrads
  <2>1. pc[0] = "grad" BY <1>7, <1>m DEF GatherGrads
  <2> QED BY <1>7, <1>m, <2>1, Phases DEF GatherGrads, Move, BackMove, Keeps, Goes
<1>8. CASE Computed
  BY <1>8, <1>m, RaiseMoves DEF Computed, Move, BackMove, Keeps, Goes
<1>9. CASE RepackSubmitted
  <2>1. CASE MeetAndRaise("sync6") /\ UNCHANGED <<at, phase>> BY <2>1, RaiseMoves DEF Move
  <2>2. CASE ~err[0] /\ at[0] = 1 /\ Meet("sync6", "end", "end") /\ UNCHANGED <<at, phase, err>>
    BY <2>2, <1>m DEF Move, BackMove, Keeps, Goes
  <2>3. CASE /\ ~err[0] /\ at[0] > 1
             /\ LET to == IF policy[0] = "none" THEN "grad" ELSE "enter" IN Meet("sync6", to, to)
             /\ at' = [r \in Ranks |-> at[r] - 1]
             /\ phase' = [r \in Ranks |-> IF policy[r] = "none" THEN "backward" ELSE "recompute"]
             /\ UNCHANGED err
    BY <2>3, <1>m, Facts DEF Move, BackMove
  <2> QED BY <1>9, <2>1, <2>2, <2>3 DEF RepackSubmitted
<1>10. ASSUME NEW r \in Ranks, Local(r)
       PROVE  \/ Move
              \/ pc'[0] = pc[0] /\ at'[0] = at[0] /\ phase'[0] = phase[0] /\ err'[0] = err[0]
  <2>1. CASE r # 0 BY <1>10, <2>1, Facts DEF Local, Enter, Gpu, Recomputed, TypeOK
  <2>2. CASE r = 0 /\ Enter(0) BY <2>2, Facts DEF Enter, Move, ForwardMove, Keeps, Goes, TypeOK
  <2>3. CASE r = 0 /\ Gpu(0) BY <2>3, Facts DEF Gpu, Move, ForwardMove, Goes, TypeOK
  <2>4. CASE r = 0 /\ Recomputed(0)
    <3>1. pc[0] = "recomputed" /\ phase'[0] = "backward" /\ at'[0] = at[0] /\ phase[0] = "recompute"
      BY <2>4, Phases, Facts DEF Recomputed, TypeOK
    <3>2. \/ pc'[0] = "sync4" /\ policy[0] = "retain" /\ (err[0] => err'[0])
          \/ pc'[0] = "raised" /\ policy[0] # "retain" /\ ~err'[0] /\ (err[0] \/ failures' # failures)
          \/ pc'[0] = "grad" /\ policy[0] # "retain" /\ ~err[0] /\ ~err'[0]
      <4>1. PICK late \in BOOLEAN :
            /\ late => Fails
            /\ \/ /\ policy[0] = "retain"
                  /\ pc' = [pc EXCEPT ![0] = "sync4"]
                  /\ err' = [err EXCEPT ![0] = @ \/ late]
               \/ /\ policy[0] # "retain"
                  /\ pc' = [pc EXCEPT ![0] = IF err[0] \/ late THEN "raised" ELSE "grad"]
                  /\ err' = [err EXCEPT ![0] = FALSE]
        BY <2>4 DEF Recomputed
      <4> QED BY <4>1, FailureCount, Facts DEF TypeOK
    <3>3. policy[0] \in {"retain", "recompute"} BY <3>1, Phases, Facts DEF TypeOK, Policies
    <3> QED BY <3>1, <3>2, <3>3 DEF Move, BackMove
  <2> QED BY <1>10, <2>1, <2>2, <2>3, <2>4 DEF Local
<1> QED BY <1>1, <1>2, <1>3, <1>4, <1>5, <1>6, <1>7, <1>8, <1>9, <1>10 DEF Collective

-----------------------------------------------------------------------------
(* Results and activations are of this layer and this batch *)

\* A poisoned cache is not ready.
LEMMA PoisonReady ==
    ASSUME TypeOK, NEW cond, NEW k \in Layers, PoisonWhen(cond, k)
    PROVE  \A l \in Layers : cache'[l] = "READY" => cache[l] = "READY" /\ kept'[l] = kept[l]
<1>1. CASE cond BY <1>1 DEF PoisonWhen, TypeOK
<1>2. CASE ~cond BY <1>2 DEF PoisonWhen
<1> QED BY <1>1, <1>2

\* Nor is one that is cleared.
LEMMA ClearReady ==
    ASSUME TypeOK, NEW failed, NEW k \in Layers, ClearOutput(k, failed)
    PROVE  \A l \in Layers : cache'[l] = "READY" => cache[l] = "READY" /\ kept'[l] = kept[l]
BY DEF ClearOutput, TypeOK

\* Steps that move the ranks leave the tasks and the forward caches as they are.
LEMMA MoveData ==
    ASSUME TypeOK, SyncInv, DataInv, Collective \/ \E r \in Ranks : Local(r)
    PROVE  DataInv'
<1>0. UNCHANGED <<policy, batch, queue, fault, output, result, saved, shared, popped>>
  BY DEF Collective, Agree, Gather, Submitted, GpuSync, Collected, RecomputeSync, GatherGrads,
         Computed, RepackSubmitted, Local, Enter, Gpu, Recomputed, caches, tasks, history
<1>1. \A l \in Layers : cache'[l] = "READY" => cache[l] = "READY" /\ kept'[l] = kept[l]
  <2>1. UNCHANGED <<cache, kept>> \/ \E c \in BOOLEAN : PoisonWhen(c, at[0])
    BY DEF Collective, Agree, Gather, Submitted, GpuSync, Collected, RecomputeSync, GatherGrads,
           Computed, RepackSubmitted, Local, Enter, Gpu, Recomputed, caches, Caches, Reuses
  <2> QED BY <2>1, PoisonReady, Phases
<1>2. CASE pc'[0] = pc[0] /\ at'[0] = at[0] /\ phase'[0] = phase[0] /\ err'[0] = err[0]
  <2>1. /\ Fore' <=> Fore
        /\ TaskOut' <=> TaskOut
        /\ Saves' = Saves
        /\ ForwardTask' = ForwardTask
        /\ \A l \in Layers : Passed(l)' <=> Passed(l)
    <3>1. Saves' = Saves BY <1>0, <1>2 DEF Saves, Caches
    <3> QED BY <1>0, <1>2, <3>1 DEF Fore, TaskOut, Reuses, ForwardTask, Passed
  <2> QED BY <1>0, <1>1, <1>2, <2>1
      DEF DataInv, CacheInv, TaskInv, QueueInv, SavedInv, ResultMatches, BackwardMatches
<1>3. CASE Move
  <2>t. /\ at[0] \in Nat /\ at[0] > 0 /\ at[0] <= NumLayers /\ NumLayers \in Nat
        /\ \A l \in Layers : l \in Nat /\ l <= NumLayers
    BY Phases, Facts
  <2>0. pc'[0] \notin {"sync3", "gemm"}
    BY <1>3 DEF Move, RaiseMove, ForwardMove, TurnMove, BackMove, Goes, Keeps, Thrown
  <2>1. CacheInv'
    <3>1. SUFFICES ASSUME policy[0] = "retain", NEW l \in Layers, Fore' => l < at'[0], cache[l] = "READY"
                   PROVE  kept[l] = batch
      BY <1>0, <1>1, <2>0 DEF CacheInv
    <3>2. Fore => l < at[0] \/ (l = at[0] /\ pc[0] = "sync3")
      BY <1>3, <2>t, <3>1, Phases DEF Fore, Move, RaiseMove, ForwardMove, TurnMove, BackMove, Goes, Keeps, Turns
    <3> QED BY <3>1, <3>2 DEF DataInv, CacheInv
  <2>2. TaskInv'
    <3>1. TaskOut' => TaskOut /\ at'[0] = at[0] /\ phase'[0] = phase[0]
      BY <1>0, <1>3, Phases DEF TaskOut, Tasked, Reuses, Move, RaiseMove, ForwardMove, TurnMove, BackMove,
         Goes, Keeps, Thrown
    <3> QED BY <1>0, <3>1 DEF DataInv, TaskInv, ForwardTask, Saves, Caches
  <2>3. QueueInv'
    <3>1. CASE pc[0] = "sync3" BY <1>0, <2>0, <3>1 DEF DataInv, QueueInv
    <3>2. CASE pc[0] # "sync3"
      <4>1. at'[0] > 1 \/ ~Fore' => at[0] > 1 \/ ~Fore
        BY <1>3, <2>t, <3>2, Phases DEF Fore, Move, RaiseMove, ForwardMove, TurnMove, BackMove, Goes, Keeps
      <4>2. (pc[0] = "recomputed" /\ err[0] /\ policy[0] # "retain") \/ pc[0] = "raised" => pc'[0] = "raised"
        BY <1>3, Phases DEF Move, RaiseMove, ForwardMove, TurnMove, BackMove, Goes, Keeps
      <4>3. TaskOut => \/ TaskOut'
                       \/ pc'[0] = "raised"
                       \/ pc'[0] = "recomputed" /\ err'[0] /\ policy[0] # "retain"
        BY <1>0, <1>3, Phases DEF TaskOut, Tasked, Reuses, Move, RaiseMove, ForwardMove, TurnMove, BackMove,
           Goes, Keeps, Thrown
      <4> QED BY <1>0, <2>0, <4>1, <4>2, <4>3 DEF DataInv, QueueInv
    <3> QED BY <3>1, <3>2
  <2>4. SavedInv'
    <3>1. ASSUME policy[0] # "recompute", pc'[0] # "raised", NEW l \in Layers,
                 \/ Fore' /\ Passed(l)'
                 \/ ~Fore' /\ (l < at'[0] \/ (l = at'[0] /\ pc'[0] \notin {"gemm", "sync5", "repack", "sync6", "end"}))
          PROVE  saved[l] = batch
      <4>1. /\ pc[0] # "raised"
            /\ \/ Fore /\ Passed(l)
               \/ ~Fore /\ (l < at[0] \/ (l = at[0] /\ pc[0] \notin {"gemm", "sync5", "repack", "sync6", "end"}))
        BY <1>3, <2>t, <2>0, <3>1, Phases DEF Fore, Passed, Move, RaiseMove, ForwardMove, TurnMove, BackMove,
           Goes, Keeps, Thrown, Turns
      <4> QED BY <3>1, <4>1 DEF DataInv, SavedInv
    <3>2. ASSUME policy[0] = "recompute", ~Fore',
                 (pc'[0] = "recomputed" /\ ~err'[0]) \/ pc'[0] \in {"grad", "compute", "pop"}
          PROVE  saved[at[0]] = batch /\ shared = <<at[0], batch>> /\ at'[0] = at[0]
      <4>1. /\ ~Fore /\ at'[0] = at[0]
            /\ (pc[0] \in {"sync3", "recomputed"} /\ ~err[0]) \/ pc[0] \in {"grad", "compute", "pop"}
        BY <1>3, <3>2, Phases DEF Fore, Move, RaiseMove, ForwardMove, TurnMove, BackMove, Goes, Keeps, Thrown
      <4> QED BY <3>2, <4>1 DEF DataInv, SavedInv
    <3> QED BY <1>0, <2>0, <3>1, <3>2 DEF SavedInv
  <2>5. ResultMatches' /\ BackwardMatches' BY <2>0 DEF ResultMatches, BackwardMatches
  <2> QED BY <2>1, <2>2, <2>3, <2>4, <2>5 DEF DataInv
<1> QED BY <1>2, <1>3, Moves

\* A step of rank 0 alone keeps its layer and its phase.
LEMMA Rank0Facts ==
    ASSUME TypeOK, NEW from, NEW to, NEW failed \in BOOLEAN, Rank0(from, to, failed)
    PROVE  /\ pc[0] = from /\ pc'[0] = to /\ err'[0] = failed
           /\ UNCHANGED <<policy, at, phase>>
           /\ Fore' = Fore
           /\ Reuses(0)' = Reuses(0)
           /\ Saves' = Saves
BY Facts DEF Rank0, TypeOK, Fore, Reuses, Saves, Caches

\* The forward of rank 0
LEMMA ForwardData ==
    ASSUME TypeOK, SyncInv, DataInv, Prepare \/ Submit \/ CollectCached \/ CollectTask
    PROVE  DataInv'
<1>0. /\ UNCHANGED <<policy, batch, output, saved, shared, popped, at, phase>>
      /\ Fore' = Fore
      /\ Reuses(0)' = Reuses(0)
      /\ Saves' = Saves
      /\ at[0] \in Layers
  <2>1. \E from, to : \E failed \in BOOLEAN : Rank0(from, to, failed)
    BY DEF Prepare, Submit, SubmitError, CollectCached, CollectTask
  <2>2. UNCHANGED <<batch, output, saved, shared, popped>>
    BY DEF Prepare, Submit, CollectCached, CollectTask, weights
  <2> QED BY <2>1, <2>2, Rank0Facts, Phases DEF Rank0
<1>t. /\ at[0] \in Nat /\ at[0] > 0 /\ at[0] <= NumLayers /\ NumLayers \in Nat
      /\ \A l \in Layers : l \in Nat /\ l <= NumLayers
  BY Phases, Facts
<1>s. queue \in Seq(Tasks) BY DEF TypeOK
<1>1. CASE Prepare
  <2>1. PICK bad \in BOOLEAN : Rank0("prepare", IF Reuses(0) THEN "submitted" ELSE "gather", bad)
    BY <1>1 DEF Prepare
  <2>2. \A l \in Layers : cache'[l] = "READY" => cache[l] = "READY" /\ kept'[l] = kept[l]
    <3>1. \E c \in BOOLEAN : PoisonWhen(c, at[0]) BY <1>1 DEF Prepare, Reuses
    <3> QED BY <1>0, <3>1, PoisonReady
  <2>3. queue' = queue BY <1>1 DEF Prepare
  <2>4. pc[0] = "prepare" /\ pc'[0] = IF Reuses(0) THEN "submitted" ELSE "gather"
    BY <2>1, Rank0Facts
  <2>5. CacheInv' BY <1>0, <2>2, <2>4 DEF DataInv, CacheInv
  <2>6. TaskInv' BY <1>0, <2>4 DEF TaskInv, TaskOut, Tasked
  <2>7. QueueInv' BY <1>0, <2>3, <2>4 DEF DataInv, QueueInv, TaskOut, Tasked
  <2>8. SavedInv' BY <1>0, <2>4 DEF DataInv, SavedInv, Passed
  <2> QED BY <2>4, <2>5, <2>6, <2>7, <2>8 DEF DataInv, ResultMatches, BackwardMatches
<1>2. CASE Submit
  <2>1. \/ Rank0("submit", "submitted", TRUE) /\ queue' = queue
        \/ Rank0("submit", "submitted", FALSE) /\ queue' = Append(queue, ForwardTask)
    BY <1>2 DEF Submit, SubmitError
  <2>2. \A l \in Layers : cache'[l] = "READY" => cache[l] = "READY" /\ kept'[l] = kept[l]
    <3>1. \E c \in BOOLEAN : PoisonWhen(c, at[0]) BY <1>2 DEF Submit, SubmitError, Caches
    <3> QED BY <1>0, <3>1, PoisonReady
  <2>4. /\ pc[0] = "submit" /\ pc'[0] = "submitted"
        /\ err'[0] => queue' = queue
        /\ ~err'[0] => queue' = Append(queue, ForwardTask)
    BY <2>1, Rank0Facts
  <2>5. CacheInv' BY <1>0, <2>2, <2>4 DEF DataInv, CacheInv
  <2>f. ForwardTask' = ForwardTask BY <1>0 DEF ForwardTask
  <2>a. ~err'[0] => /\ queue' # << >> /\ Len(queue') = Len(queue) + 1
                    /\ queue'[Len(queue')] = ForwardTask
    <3>1. ForwardTask \in Tasks
      <4>1. Saves \in BOOLEAN BY DEF Saves, Caches
      <4> QED BY <1>0, <4>1 DEF ForwardTask, Tasks, TypeOK
    <3> QED BY <1>s, <2>4, <3>1
  <2>6. TaskInv' BY <2>4, <2>a, <2>f DEF TaskInv, TaskOut
  <2>7. QueueInv'
    <3>1. at[0] > 1 \/ ~Fore => queue = << >>
      BY <2>4 DEF DataInv, QueueInv, TaskOut, Tasked
    <3>2. ~Reuses(0) BY <2>4, Phases
    <3>3. ~err'[0] => TaskOut' BY <1>0, <2>4, <3>2 DEF TaskOut, Tasked
    <3>4. queue = << >> => queue' = << >> \/ (~err'[0] /\ Len(queue') = 1)
      <4>1. queue = << >> => Len(queue) = 0 OBVIOUS
      <4> QED BY <2>4, <2>a, <4>1
    <3>5. (at[0] > 1 \/ ~Fore) => queue' = << >> \/ (TaskOut' /\ Len(queue') = 1) BY <3>1, <3>3, <3>4
    <3> QED BY <1>0, <2>4, <3>5 DEF QueueInv
  <2>8. SavedInv' BY <1>0, <2>4 DEF DataInv, SavedInv, Passed
  <2> QED BY <2>4, <2>5, <2>6, <2>7, <2>8 DEF DataInv, ResultMatches, BackwardMatches
<1>3. CASE CollectCached
  <2>1. PICK failed \in BOOLEAN :
          /\ Rank0("collect", "sync3", failed)
          /\ ~failed => cache[at[0]] = "READY" /\ result' = <<at[0], kept[at[0]]>>
          /\ \E c \in BOOLEAN : PoisonWhen(c, at[0])
          /\ queue' = queue
    BY <1>3 DEF CollectCached
  <2>2. \A l \in Layers : cache'[l] = "READY" => cache[l] = "READY" /\ kept'[l] = kept[l]
    BY <1>0, <2>1, PoisonReady
  <2>3. pc[0] = "collect" /\ pc'[0] = "sync3" /\ err'[0] = failed BY <2>1, Rank0Facts
  <2>4. Reuses(0) /\ policy[0] = "retain" /\ ~Fore BY <1>3 DEF CollectCached, Reuses, Fore
  <2>5. CacheInv' BY <1>0, <2>2, <2>4 DEF DataInv, CacheInv
  <2>6. TaskInv' BY <2>3 DEF TaskInv, TaskOut, Tasked
  <2>7. queue = << >> BY <2>3, <2>4 DEF DataInv, QueueInv, TaskOut, Tasked
  <2>8. QueueInv' BY <2>1, <2>7 DEF QueueInv
  <2>9. SavedInv' BY <1>0, <2>3, <2>4 DEF DataInv, SavedInv
  <2>10. ResultMatches' BY <1>0, <2>1, <2>3, <2>4 DEF ResultMatches, DataInv, CacheInv
  <2> QED BY <2>3, <2>5, <2>6, <2>8, <2>9, <2>10 DEF DataInv, BackwardMatches
<1>4. CASE CollectTask
  <2>1. PICK failed \in BOOLEAN :
          /\ Rank0("collect", "sync3", failed)
          /\ ~failed => /\ ~fault /\ result' = output
                        /\ IF Caches(0) THEN CacheOutput(at[0]) ELSE UNCHANGED <<cache, kept>>
          /\ failed => \E c \in BOOLEAN : PoisonWhen(c, at[0])
          /\ queue' = queue /\ queue = << >> /\ ~Reuses(0)
    BY <1>4 DEF CollectTask, Caches
  <2>3. pc[0] = "collect" /\ pc'[0] = "sync3" /\ err'[0] = failed BY <2>1, Rank0Facts
  <2>4. TaskOut BY <2>1, <2>3 DEF TaskOut, Tasked
  <2>5. ~failed => /\ output = <<at[0], batch>>
                   /\ Saves => saved[at[0]] = batch /\ shared = <<at[0], batch>>
    BY <2>1, <2>4 DEF DataInv, TaskInv
  <2>6. CacheInv'
    <3>1. CASE failed
      <4>1. \A l \in Layers : cache'[l] = "READY" => cache[l] = "READY" /\ kept'[l] = kept[l]
        BY <1>0, <2>1, <3>1, PoisonReady
      <4>2. Fore /\ policy[0] = "retain" => cache'[at[0]] # "READY"
        <5>1. SUFFICES ASSUME Fore, policy[0] = "retain" PROVE cache'[at[0]] # "READY" OBVIOUS
        <5>2. Caches(0) BY <5>1, Phases DEF Caches, Fore
        <5>3. PoisonWhen(Caches(0), at[0]) BY <1>4, <2>1, <2>3, <3>1, Facts DEF CollectTask, Rank0, TypeOK
        <5> QED BY <1>0, <5>2, <5>3 DEF PoisonWhen, TypeOK
      <4> QED BY <1>0, <2>3, <4>1, <4>2 DEF DataInv, CacheInv
    <3>2. CASE ~failed /\ Caches(0)
      <4>1. /\ kept'[at[0]] = batch
            /\ \A l \in Layers : l # at[0] => cache'[l] = cache[l] /\ kept'[l] = kept[l]
        BY <1>0, <2>1, <2>5, <3>2 DEF CacheOutput, TypeOK
      <4> QED BY <1>0, <2>3, <4>1 DEF DataInv, CacheInv
    <3>3. CASE ~failed /\ ~Caches(0)
      <4>1. policy[0] = "retain" => FALSE
        BY <2>1, <2>3, <3>3, Phases, Facts DEF Caches, Reuses, TypeOK
      <4> QED BY <1>0, <4>1 DEF CacheInv
    <3> QED BY <3>1, <3>2, <3>3
  <2>7. TaskInv' BY <2>3 DEF TaskInv, TaskOut, Tasked
  <2>8. QueueInv' BY <2>1 DEF QueueInv
  <2>9. SavedInv'
    <3>1. ~failed /\ (policy[0] # "recompute" \/ ~Fore) => Saves
      BY <2>3, Phases, Facts DEF Saves, Caches, Fore, TypeOK, Policies
    <3> QED BY <1>0, <2>3, <2>5, <3>1 DEF DataInv, SavedInv, Passed
  <2>10. ResultMatches' BY <1>0, <2>1, <2>3, <2>5 DEF ResultMatches
  <2> QED BY <2>3, <2>6, <2>7, <2>8, <2>9, <2>10 DEF DataInv, BackwardMatches
<1> QED BY <1>1, <1>2, <1>3, <1>4

\* The backward of rank 0
LEMMA BackwardData ==
    ASSUME TypeOK, SyncInv, DataInv, Compute \/ Pop \/ Gemm \/ SubmitRepack
    PROVE  DataInv'
<1>0. /\ UNCHANGED <<policy, batch, output, shared, at, phase, queue, fault, result>>
      /\ Fore' = Fore
      /\ at[0] \in Layers
  <2>1. \E from, to : \E failed \in BOOLEAN : Rank0(from, to, failed)
    BY DEF Compute, Pop, Gemm, SubmitRepack, AbortBackward
  <2>2. UNCHANGED <<batch, output, shared, queue, fault, result>>
    BY DEF Compute, Pop, Gemm, SubmitRepack, caches, tasks, history
  <2> QED BY <2>1, <2>2, Rank0Facts, Phases DEF Rank0
<1>1. \A l \in Layers : cache'[l] = "READY" => cache[l] = "READY" /\ kept'[l] = kept[l]
  <2>1. UNCHANGED <<cache, kept>> \/ \E c \in BOOLEAN : ClearOutput(at[0], c)
    BY DEF Compute, Pop, Gemm, SubmitRepack, AbortBackward, caches
  <2> QED BY <1>0, <2>1, ClearReady
<1>2. \/ /\ pc[0] \in {"compute", "pop", "gemm", "repack"} /\ saved' = saved
         /\ pc'[0] \in {"sync5", "sync6"} \/ (pc[0] = "compute" /\ pc'[0] = "pop")
      \/ /\ pc[0] = "pop" /\ saved' = [saved EXCEPT ![at[0]] = 0]
         /\ pc'[0] = "sync5" \/ (pc'[0] = "gemm" /\ popped' = saved[at[0]])
  <2>1. CASE Compute
    <3>1. \/ Rank0("compute", "sync5", TRUE)
          \/ Rank0("compute", "pop", FALSE)
      BY <2>1 DEF Compute, AbortBackward
    <3> QED BY <2>1, <3>1, Rank0Facts DEF Compute
  <2>2. CASE Pop
    <3>1. \/ Rank0("pop", "sync5", TRUE)
          \/ Rank0("pop", "gemm", FALSE) /\ popped' = saved[at[0]]
      BY <2>2 DEF Pop, AbortBackward
    <3> QED BY <2>2, <3>1, Rank0Facts DEF Pop
  <2>3. CASE Gemm
    <3>1. \E failed \in BOOLEAN : Rank0("gemm", "sync5", failed) BY <2>3 DEF Gemm, AbortBackward
    <3> QED BY <2>3, <3>1, Rank0Facts DEF Gemm
  <2>4. CASE SubmitRepack
    <3>1. \E failed \in BOOLEAN : Rank0("repack", "sync6", failed) BY <2>4 DEF SubmitRepack
    <3> QED BY <2>4, <3>1, Rank0Facts DEF SubmitRepack, caches
  <2> QED BY <2>1, <2>2, <2>3, <2>4
<1>3. ~Fore BY <1>2, Phases DEF Fore
<1>4. CacheInv' BY <1>0, <1>1, <1>3 DEF DataInv, CacheInv
<1>5. TaskInv' BY <1>2 DEF TaskInv, TaskOut, Tasked
<1>6. QueueInv'
  <2>1. queue = << >> BY <1>2, <1>3 DEF DataInv, QueueInv, TaskOut, Tasked
  <2> QED BY <1>0, <2>1 DEF QueueInv
<1>7. SavedInv'
  <2>1. \A l \in Layers : l < at[0] => saved'[l] = saved[l]
    <3>1. \A l \in Layers : l < at[0] => l # at[0] BY Phases, Facts
    <3> QED BY <1>2, <3>1 DEF TypeOK
  <2>2. pc'[0] = "pop" => saved' = saved /\ pc[0] = "compute" BY <1>2
  <2>3. pc'[0] = "gemm" => pc[0] = "pop" BY <1>2
  <2>4. policy[0] # "recompute" => \A l \in Layers : l < at[0] => saved[l] = batch
    BY <1>2, <1>3 DEF DataInv, SavedInv
  <2>5. pc'[0] \in {"pop", "gemm", "sync5", "sync6"} BY <1>2
  <2> QED BY <1>0, <1>3, <2>1, <2>2, <2>3, <2>4, <2>5 DEF DataInv, SavedInv
<1>8. BackwardMatches'
  <2>1. SUFFICES ASSUME pc'[0] = "gemm" PROVE BackwardMatches' BY DEF BackwardMatches
  <2>2. pc[0] = "pop" /\ popped' = saved[at[0]] BY <1>2, <2>1
  <2>3. saved[at[0]] = batch /\ (policy[0] = "recompute" => shared = <<at[0], batch>>)
    BY <1>0, <1>3, <2>2 DEF DataInv, SavedInv
  <2> QED BY <1>0, <2>2, <2>3 DEF BackwardMatches
<1>9. ResultMatches' BY <1>2 DEF ResultMatches
<1> QED BY <1>4, <1>5, <1>6, <1>7, <1>8, <1>9 DEF DataInv

\* A forward task that runs is of this layer and this batch, or nobody relies on what it
\* writes: the pass has failed, or it has not got past its first task.
LEMMA TaskData ==
    ASSUME TypeOK, SyncInv, DataInv, RunTask
    PROVE  DataInv'
<1>0. /\ UNCHANGED <<policy, batch, at, phase, pc, err, result, popped, cache, kept>>
      /\ Fore' = Fore
      /\ ForwardTask' = ForwardTask
      /\ TaskOut' = TaskOut
  <2>1. UNCHANGED <<policy, batch, at, phase, pc, err, result, popped, cache, kept>>
    BY DEF RunTask, ranks
  <2>2. Saves' = Saves BY <2>1 DEF Saves, Caches
  <2> QED BY <2>1, <2>2 DEF Fore, ForwardTask, TaskOut, Reuses
<1> DEFINE t == Head(queue)
<1>1. /\ queue \in Seq(Tasks) /\ queue # << >> /\ queue' = Tail(queue)
      /\ t \in Tasks /\ t.layer \in Layers
  <2>1. queue \in Seq(Tasks) /\ queue # << >> /\ queue' = Tail(queue) BY DEF RunTask, TypeOK
  <2>2. t \in Tasks BY <2>1
  <2> QED BY <2>1, <2>2 DEF Tasks
<1>2. /\ Len(queue) \in Nat /\ Len(queue) > 0
      /\ Len(queue) = 1 => queue' = << >> /\ t = queue[Len(queue)]
      /\ Len(queue) # 1 => queue' # << >> /\ queue'[Len(queue')] = queue[Len(queue)]
  <2>1. Len(queue) \in Nat /\ Len(queue) > 0 /\ Len(Tail(queue)) = Len(queue) - 1 /\ t = queue[1]
    BY <1>1
  <2>2. CASE Len(queue) = 1
    <3>1. Tail(queue) \in Seq(Tasks) /\ Len(Tail(queue)) = 0 BY <1>1, <2>1, <2>2
    <3> QED BY <1>1, <2>1, <2>2, <3>1
  <2>3. CASE Len(queue) # 1
    <3>1. Len(queue) > 1 BY <2>1, <2>3
    <3>2. Tail(queue)[Len(queue) - 1] = queue[Len(queue)] BY <1>1, <3>1
    <3>3. Tail(queue) # << >>
      <4>1. ASSUME NEW s, s = << >> PROVE Len(s) = 0 BY <4>1
      <4>2. queue' = << >> => Len(queue') = 0 BY <4>1
      <4>3. Len(queue') = Len(queue) - 1 BY <1>1, <2>1
      <4>4. Len(queue') # 0 BY <2>1, <3>1, <4>3
      <4> QED BY <1>1, <4>2, <4>4
    <3> QED BY <1>1, <2>1, <2>3, <3>2, <3>3
  <2> QED BY <2>2, <2>3
<1>3. \/ saved' = saved /\ shared' = shared
      \/ saved' = [saved EXCEPT ![t.layer] = t.batch] /\ shared' = <<t.layer, t.batch>>
  BY DEF RunTask
<1>4. \/ fault'
      \/ /\ output' = <<t.layer, t.batch>>
         /\ t.save => saved' = [saved EXCEPT ![t.layer] = t.batch] /\ shared' = <<t.layer, t.batch>>
  BY DEF RunTask, NoFailure
<1>5. CacheInv' BY <1>0 DEF DataInv, CacheInv
<1>6. TaskInv'
  <2>1. SUFFICES ASSUME TaskOut
                 PROVE  IF queue' = << >>
                        THEN \/ fault'
                             \/ /\ output' = <<at[0], batch>>
                                /\ Saves' => saved'[at[0]] = batch /\ shared' = <<at[0], batch>>
                        ELSE queue'[Len(queue')] = ForwardTask
    BY <1>0 DEF TaskInv
  <2>2. queue[Len(queue)] = ForwardTask BY <1>1, <2>1 DEF DataInv, TaskInv
  <2>3. CASE Len(queue) = 1
    <3>1. t = ForwardTask /\ queue' = << >> BY <1>2, <2>2, <2>3
    <3>2. t.layer = at[0] /\ t.batch = batch /\ t.save = Saves BY <3>1 DEF ForwardTask
    <3>3. Saves' = Saves BY <1>0 DEF Saves, Caches
    <3> HIDE DEF t
    <3> QED BY <1>1, <1>4, <3>1, <3>2, <3>3 DEF TypeOK
  <2>4. CASE Len(queue) # 1
    <3>1. queue' # << >> /\ queue'[Len(queue')] = queue[Len(queue)] BY <1>2, <2>4
    <3> QED BY <2>2, <3>1
  <2> QED BY <2>3, <2>4
<1>7. QueueInv'
  <2>1. ~(pc[0] = "sync3") BY <1>1 DEF DataInv, QueueInv
  <2>2. Len(queue) = 1 => queue' = << >> BY <1>2
  <2> QED BY <1>0, <1>1, <2>1, <2>2 DEF DataInv, QueueInv
<1>8. \/ at[0] = 1 /\ Fore
      \/ TaskOut /\ t.layer = at[0] /\ t.batch = batch
      \/ pc[0] = "raised"
      \/ pc[0] = "recomputed" /\ err[0] /\ policy[0] = "recompute"
  <2>1. \/ at[0] = 1 /\ Fore
        \/ TaskOut /\ Len(queue) = 1
        \/ pc[0] = "raised"
        \/ pc[0] = "recomputed" /\ err[0] /\ policy[0] # "retain"
    BY <1>1, Phases DEF DataInv, QueueInv
  <2>2. TaskOut /\ Len(queue) = 1 => t = ForwardTask BY <1>1, <1>2 DEF DataInv, TaskInv
  <2>3. pc[0] = "recomputed" /\ policy[0] # "retain" => policy[0] = "recompute"
    BY Phases, Facts DEF TypeOK, Policies
  <2> QED BY <2>1, <2>2, <2>3 DEF ForwardTask
<1>9. SavedInv'
  <2>1. CASE at[0] = 1 /\ Fore
    <3>1. \A l \in Layers : ~Passed(l)
      <4>1. pc[0] # "sync3" BY <1>1 DEF DataInv, QueueInv
      <4> QED BY <2>1, <4>1, Facts DEF Passed
    <3>2. \A l \in Layers : Passed(l)' <=> Passed(l) BY <1>0 DEF Passed
    <3> QED BY <1>0, <2>1, <3>1, <3>2 DEF SavedInv
  <2>2. CASE TaskOut /\ t.layer = at[0] /\ t.batch = batch
    <3>1. pc[0] \in Tasked BY <2>2 DEF TaskOut
    <3>2. \A l \in Layers : saved'[l] = saved[l] \/ saved'[l] = batch
      <4> HIDE DEF t
      <4> QED BY <1>1, <1>3, <2>2 DEF TypeOK
    <3>3. \A l \in Layers : Passed(l)' <=> Passed(l) BY <1>0 DEF Passed
    <3> QED BY <1>0, <3>1, <3>2, <3>3 DEF DataInv, SavedInv, Tasked
  <2>3. CASE pc[0] = "raised" BY <1>0, <2>3 DEF SavedInv
  <2>4. CASE pc[0] = "recomputed" /\ err[0] /\ policy[0] = "recompute" BY <1>0, <2>4 DEF SavedInv
  <2> QED BY <1>8, <2>1, <2>2, <2>3, <2>4
<1>10. BackwardMatches'
  <2>1. pc[0] # "gemm"
    <3>1. pc[0] = "gemm" => ~Fore BY Phases DEF Fore
    <3> QED BY <1>8, <3>1 DEF TaskOut, Tasked
  <2> QED BY <1>0, <2>1 DEF BackwardMatches
<1>11. ResultMatches' BY <1>0 DEF DataInv, ResultMatches
<1> QED BY <1>5, <1>6, <1>7, <1>9, <1>10, <1>11 DEF DataInv

\* What every step keeps: the results and the activations of this batch
LEMMA DataStep ==
    ASSUME TypeOK, SyncInv, DataInv, [Next]_vars
    PROVE  DataInv'
<1>1. CASE (\E l \in Layers : RepackEnds(l)) \/ UNCHANGED vars
  <2>0. UNCHANGED <<policy, batch, at, phase, pc, err, result, popped, cache, kept, queue, fault,
                    output, saved, shared>>
    BY <1>1 DEF RepackEnds, vars, ranks, caches, tasks, history
  <2>1. Saves' = Saves BY <2>0 DEF Saves, Caches
  <2>2. /\ Fore' <=> Fore
        /\ TaskOut' <=> TaskOut
        /\ ForwardTask' = ForwardTask
        /\ \A l \in Layers : Passed(l)' <=> Passed(l)
    BY <2>0, <2>1 DEF Fore, TaskOut, Reuses, ForwardTask, Passed
  <2> QED BY <2>0, <2>1, <2>2
      DEF DataInv, CacheInv, TaskInv, QueueInv, SavedInv, ResultMatches, BackwardMatches
<1>2. CASE Accumulate \/ OptimizerStep \/ Retry
  <2>0. StartBatch BY <1>2 DEF Accumulate, OptimizerStep, Retry
  <2>1. /\ pc'[0] = "enter" /\ at'[0] = 1 /\ phase'[0] = First(0)
    BY <2>0, Facts DEF StartBatch
  <2>2. Fore' /\ ~TaskOut' BY <2>1 DEF Fore, First, TaskOut, Tasked
  <2>3. \A l \in Layers : ~Passed(l)' /\ ~(l < at'[0]) BY <2>1, Facts DEF Passed
  <2> QED BY <2>1, <2>2, <2>3
      DEF DataInv, CacheInv, TaskInv, QueueInv, SavedInv, ResultMatches, BackwardMatches
<1> QED BY <1>1, <1>2, MoveData, ForwardData, BackwardData, TaskData DEF Next, OwnerStep

\* There is nothing in the caches at first.
LEMMA InitData == Init => DataInv
<1> SUFFICES ASSUME Init PROVE DataInv OBVIOUS
<1>1. pc[0] = "enter" /\ at[0] = 1 /\ phase[0] = First(0) /\ queue = << >> BY Facts DEF Init
<1>2. Fore BY <1>1 DEF Fore, First
<1>3. \A l \in Layers : ~Passed(l) /\ ~(l < at[0]) BY <1>1, Facts DEF Passed
<1> QED BY <1>1, <1>2, <1>3
    DEF DataInv, CacheInv, TaskInv, TaskOut, Tasked, QueueInv, SavedInv, ResultMatches, BackwardMatches

-----------------------------------------------------------------------------
(* The window of the optimizer holds whole gradients *)

\* A backward that is given up closes the window of its layer.
LEMMA AbortFacts ==
    ASSUME TypeOK, NEW from, NEW k \in Layers, AbortBackward(from, k)
    PROVE  /\ pc[0] = from /\ pc'[0] = "sync5" /\ err'[0] /\ UNCHANGED <<policy, at, phase>>
           /\ ~open'[k]
           /\ \A l \in Layers : l # k => open'[l] = open[l]
           /\ \A l \in Layers : open'[l] => open[l]
<1>1. Rank0(from, "sync5", TRUE) /\ open' = [open EXCEPT ![k] = FALSE] BY DEF AbortBackward
<1>2. /\ ~open'[k]
      /\ \A l \in Layers : l # k => open'[l] = open[l]
      /\ \A l \in Layers : open'[l] => open[l]
  BY <1>1 DEF TypeOK
<1> QED BY <1>1, <1>2, Rank0Facts

\* Every step keeps the window.
LEMMA WindowStep ==
    ASSUME TypeOK, SyncInv, DataInv, WindowInv, [Next]_vars
    PROVE  WindowInv'
<1>t. /\ at[0] \in Nat /\ at[0] \in Layers /\ at[0] > 0 /\ at[0] <= NumLayers /\ NumLayers \in Nat
      /\ \A l \in Layers : l \in Nat /\ l <= NumLayers
      /\ batch \in Nat
  <2>1. batch \in Nat BY Facts DEF TypeOK, Batches
  <2> QED BY <2>1, Phases, Facts
<1>1. CASE Collective \/ \E r \in Ranks : Local(r)
  <2>1. UNCHANGED <<policy, batch, torn, grads, adding>>
    BY <1>1 DEF Collective, Agree, Gather, Submitted, GpuSync, Collected, RecomputeSync, GatherGrads,
       Computed, RepackSubmitted, Local, Enter, Gpu, Recomputed, window, history
  <2>2. /\ open' = open \/ (open' = [open EXCEPT ![at[0]] = FALSE] /\ pc[0] = "sync5")
        /\ pc[0] \in {"sync5", "sync6"} /\ RaiseMove => err[0] \/ ~open'[at[0]]
    <3>1. CASE Computed
      <4>1. \/ ~err[0] /\ Meet("sync5", "repack", "sync6") /\ open' = open
            \/ err[0] /\ MeetAndRaise("sync5") /\ open' = open
            \/ MeetAndRaise("sync5") /\ open' = [open EXCEPT ![at[0]] = FALSE]
        BY <3>1 DEF Computed
      <4>2. CASE ~err[0] /\ Meet("sync5", "repack", "sync6") /\ open' = open
        BY <4>2, Facts DEF Meet, RaiseMove, Goes, Thrown
      <4>3. CASE MeetAndRaise("sync5") /\ open' = [open EXCEPT ![at[0]] = FALSE]
        BY <1>t, <4>3, Facts DEF MeetAndRaise, TypeOK
      <4> QED BY <4>1, <4>2, <4>3
    <3>2. CASE RepackSubmitted
      <4>1. err[0] \/ \E p : Meet("sync6", p, p) /\ p \in {"end", "grad", "enter"}
        BY <3>2 DEF RepackSubmitted
      <4>2. ASSUME NEW p, Meet("sync6", p, p), p \in {"end", "grad", "enter"} PROVE ~RaiseMove
        BY <4>2, Facts DEF Meet, RaiseMove, Goes, Thrown
      <4> QED BY <3>2, <4>1, <4>2 DEF RepackSubmitted, window
    <3>3. CASE ~Computed /\ ~RepackSubmitted
      <4>1. open' = open
        BY <1>1, <3>3 DEF Collective, Agree, Gather, Submitted, GpuSync, Collected, RecomputeSync, GatherGrads,
           Local, Enter, Gpu, Recomputed, window
      <4>2. pc[0] \in {"sync5", "sync6"} => pc'[0] = pc[0]
        <5>1. ASSUME pc[0] \in {"sync5", "sync6"} PROVE ~Collective
          BY <3>3, <5>1, Facts DEF Collective, Agree, Gather, Submitted, GpuSync, Collected, RecomputeSync,
             GatherGrads, Meet, MeetAndRaise
        <5>2. ASSUME NEW r \in Ranks, Local(r), pc[0] \in {"sync5", "sync6"} PROVE pc'[0] = pc[0]
          BY <5>2, Facts DEF Local, Enter, Gpu, Recomputed, TypeOK
        <5> QED BY <1>1, <5>1, <5>2
      <4> QED BY <4>1, <4>2 DEF RaiseMove, Goes, Thrown
    <3> QED BY <3>1, <3>2, <3>3
  <2>3. \A l \in Layers : open'[l] => open[l] BY <2>2 DEF TypeOK
  <2>4. CASE pc'[0] = pc[0] /\ at'[0] = at[0] /\ phase'[0] = phase[0] /\ err'[0] = err[0]
    <3>1. open' = open \/ pc[0] = "sync5" BY <2>2
    <3> QED BY <1>t, <2>1, <2>3, <2>4, <3>1 DEF WindowInv, Fore
  <2>5. CASE Move
    <3>1. pc'[0] \notin {"pop", "gemm"}
      BY <2>5 DEF Move, RaiseMove, ForwardMove, TurnMove, BackMove, Goes, Keeps, Thrown
    <3>2. \A l \in Layers : Fore' \/ l < at'[0] => Fore \/ l < at[0]
      BY <1>t, <2>5, Phases DEF Fore, Move, RaiseMove, ForwardMove, TurnMove, BackMove, Goes, Keeps
    <3>3. open'[at'[0]] /\ batch \in grads[at'[0]] =>
            pc'[0] \in {"sync5", "repack", "sync6", "end"} /\ ~err'[0]
      <4>1. SUFFICES ASSUME open'[at'[0]], batch \in grads[at'[0]]
                     PROVE  pc'[0] \in {"repack", "end"} /\ ~err'[0]
        OBVIOUS
      <4>2. at'[0] \in Layers BY Facts, TypeStep DEF TypeOK
      <4>3. ~Fore /\ at'[0] >= at[0] /\ at'[0] \in Nat BY <1>t, <4>1, <4>2 DEF WindowInv
      <4>4. at'[0] = at[0]
        BY <1>t, <2>5, <4>3 DEF Fore, Move, RaiseMove, ForwardMove, TurnMove, BackMove, Goes, Keeps
      <4>5. open[at[0]] /\ pc[0] \in {"sync5", "sync6"} /\ ~err[0] /\ ~RaiseMove
        <5>1. pc[0] \in {"sync5", "repack", "sync6", "end"} /\ ~err[0]
          BY <1>t, <2>3, <4>1, <4>4 DEF WindowInv
        <5>2. ~RaiseMove BY <2>2, <4>1, <4>4, <5>1 DEF RaiseMove
        <5>3. pc[0] \in {"sync5", "sync6"}
          BY <2>5, <5>1 DEF Move, RaiseMove, ForwardMove, TurnMove, BackMove, Goes, Keeps
        <5> QED BY <1>t, <2>3, <4>1, <4>4, <5>1, <5>2, <5>3
      <4> QED BY <2>5, <4>4, <4>5, <1>t DEF Move, ForwardMove, TurnMove, BackMove, Goes, Keeps
    <3> QED BY <2>1, <2>3, <3>1, <3>2, <3>3 DEF WindowInv
  <2> QED BY <1>1, <2>4, <2>5, Moves
<1>2. CASE Prepare \/ Submit \/ CollectCached \/ CollectTask
  <2>1. UNCHANGED <<batch, open, torn, grads, adding>>
    BY <1>2 DEF Prepare, Submit, CollectCached, CollectTask, window
  <2>2. \E from \in {"prepare", "submit", "collect"}, to \in {"gather", "submitted", "sync3"} :
          \E failed \in BOOLEAN : Rank0(from, to, failed)
    BY <1>2 DEF Prepare, Submit, SubmitError, CollectCached, CollectTask
  <2>3. /\ pc[0] \in {"prepare", "submit", "collect"} /\ pc'[0] \in {"gather", "submitted", "sync3"}
        /\ UNCHANGED <<policy, at, phase>>
    BY <2>2, Rank0Facts
  <2> QED BY <1>t, <2>1, <2>3 DEF WindowInv, Fore
<1>3. CASE Compute
  <2>1. UNCHANGED <<batch, torn, grads>> BY <1>3 DEF Compute, history
  <2>2. \/ Rank0("compute", "sync5", TRUE) /\ open' = open
        \/ AbortBackward("compute", at[0])
        \/ Rank0("compute", "pop", FALSE) /\ open' = open /\ adding' = open[at[0]]
    BY <1>3 DEF Compute
  <2>3. /\ pc[0] = "compute" /\ UNCHANGED <<policy, at, phase>>
        /\ pc'[0] \in {"sync5", "pop"}
        /\ pc'[0] = "pop" => open' = open /\ adding' = open[at[0]]
        /\ \A l \in Layers : open'[l] => open[l]
    <3>1. CASE AbortBackward("compute", at[0]) BY <1>t, <3>1, AbortFacts
    <3>2. CASE Rank0("compute", "sync5", TRUE) /\ open' = open
      <4>1. pc[0] = "compute" /\ pc'[0] = "sync5" /\ UNCHANGED <<policy, at, phase>>
        BY <3>2, Rank0Facts
      <4> QED BY <3>2, <4>1
    <3>3. CASE Rank0("compute", "pop", FALSE) /\ open' = open /\ adding' = open[at[0]]
      BY <3>3, Rank0Facts
    <3> QED BY <2>2, <3>1, <3>2, <3>3
  <2> QED BY <1>t, <2>1, <2>3 DEF WindowInv, Fore
<1>4. CASE Pop
  <2>1. UNCHANGED <<batch, torn, grads>> BY <1>4 DEF Pop
  <2>2. \/ AbortBackward("pop", at[0])
        \/ Rank0("pop", "gemm", FALSE) /\ open' = open /\ adding' = adding
    BY <1>4 DEF Pop
  <2>3. /\ pc[0] = "pop" /\ UNCHANGED <<policy, at, phase>>
        /\ pc'[0] \in {"sync5", "gemm"}
        /\ pc'[0] = "gemm" => open' = open /\ adding' = adding
        /\ \A l \in Layers : open'[l] => open[l]
    BY <1>t, <2>2, Rank0Facts, AbortFacts
  <2> QED BY <1>t, <2>1, <2>3 DEF WindowInv, Fore
<1>5. CASE Gemm
  <2>0. batch' = batch BY <1>5 DEF Gemm
  <2>1. CASE /\ Rank0("gemm", "sync5", FALSE)
             /\ grads' = [grads EXCEPT ![at[0]] = {popped} \cup IF adding THEN @ ELSE {}]
             /\ torn' = [torn EXCEPT ![at[0]] = @ /\ adding]
             /\ open' = [open EXCEPT ![at[0]] = TRUE]
    <3>1. /\ pc[0] = "gemm" /\ pc'[0] = "sync5" /\ ~err'[0] /\ UNCHANGED <<policy, at, phase>>
      BY <2>1, Rank0Facts
    <3>2. popped = batch /\ ~Fore BY <3>1, Phases DEF DataInv, BackwardMatches, Fore
    <3>3. \A l \in Layers : l # at[0] => open'[l] = open[l] /\ torn'[l] = torn[l] /\ grads'[l] = grads[l]
      BY <2>1 DEF TypeOK
    <3>4. ~torn'[at[0]]
      <4>1. adding => ~torn[at[0]] BY <1>t, <3>1 DEF WindowInv
      <4>2. torn'[at[0]] = (torn[at[0]] /\ adding) BY <1>t, <2>1 DEF TypeOK
      <4> QED BY <4>1, <4>2
    <3>5. \A b \in grads'[at[0]] : b = batch \/ b \in grads[at[0]]
      <4>1. grads'[at[0]] = {popped} \cup IF adding THEN grads[at[0]] ELSE {} BY <1>t, <2>1 DEF TypeOK
      <4> QED BY <3>2, <4>1
    <3>6. \A l \in Layers : open'[l] => ~torn'[l] BY <3>3, <3>4 DEF WindowInv
    <3>7. \A l \in Layers : \A b \in grads'[l] : b <= batch BY <1>t, <3>3, <3>5 DEF WindowInv
    <3>8. \A l \in Layers : Fore' \/ l < at'[0] => batch \notin grads'[l]
      BY <1>t, <3>1, <3>2, <3>3 DEF WindowInv, Fore
    <3> QED BY <2>0, <3>1, <3>6, <3>7, <3>8 DEF WindowInv
  <2>2. CASE /\ AbortBackward("gemm", at[0])
             /\ \E half \in BOOLEAN : torn' = [torn EXCEPT ![at[0]] = @ \/ half]
             /\ UNCHANGED grads
    <3>1. /\ pc[0] = "gemm" /\ pc'[0] = "sync5" /\ UNCHANGED <<policy, at, phase>>
          /\ ~open'[at[0]]
          /\ \A l \in Layers : l # at[0] => open'[l] = open[l] /\ torn'[l] = torn[l]
      <4>1. \A l \in Layers : l # at[0] => torn'[l] = torn[l] BY <2>2 DEF TypeOK
      <4> QED BY <1>t, <2>2, <4>1, AbortFacts
    <3> QED BY <1>t, <2>0, <2>2, <3>1 DEF WindowInv, Fore
  <2> QED BY <1>5, <2>1, <2>2 DEF Gemm
<1>6. CASE SubmitRepack
  <2>1. UNCHANGED <<batch, torn, grads, adding>> BY <1>6 DEF SubmitRepack
  <2>2. \/ Rank0("repack", "sync6", FALSE) /\ open' = open
        \/ Rank0("repack", "sync6", TRUE) /\ open' = [open EXCEPT ![at[0]] = FALSE]
    BY <1>6 DEF SubmitRepack, ReleaseAfterRepackError
  <2>3. /\ pc[0] = "repack" /\ pc'[0] = "sync6" /\ UNCHANGED <<policy, at, phase>>
        /\ ~err'[0] \/ ~open'[at[0]]
        /\ \A l \in Layers : open'[l] => open[l]
    BY <1>t, <2>2, Rank0Facts DEF TypeOK
  <2> QED BY <1>t, <2>1, <2>3 DEF WindowInv, Fore
<1>7. CASE RunTask \/ (\E l \in Layers : RepackEnds(l)) \/ UNCHANGED vars
  <2>1. UNCHANGED <<batch, pc, at, phase, err, open, torn, grads, adding>>
    BY <1>7 DEF RunTask, RepackEnds, vars, ranks, window, history
  <2> QED BY <2>1 DEF WindowInv, Fore
<1>8. CASE Accumulate \/ OptimizerStep \/ Retry
  <2>1. /\ StartBatch
        /\ open' = open \/ open' = [l \in Layers |-> FALSE]
    BY <1>8 DEF Accumulate, OptimizerStep, Retry
  <2>2. /\ pc'[0] = "enter" /\ at'[0] = 1 /\ batch' = batch + 1
        /\ UNCHANGED <<torn, grads>>
        /\ \A l \in Layers : open'[l] => open[l]
    BY <2>1, Facts DEF StartBatch
  <2>3. \A l \in Layers : batch' \notin grads[l]
    <3>1. SUFFICES ASSUME NEW l \in Layers, batch' \in grads[l] PROVE FALSE OBVIOUS
    <3>2. batch' <= batch BY <3>1 DEF WindowInv
    <3> QED BY <1>t, <2>2, <3>2
  <2>4. \A l \in Layers : \A b \in grads[l] : b <= batch'
    <3>1. SUFFICES ASSUME NEW l \in Layers, NEW b \in grads[l] PROVE b <= batch' OBVIOUS
    <3>2. b <= batch /\ b \in Nat BY <3>1, Facts DEF WindowInv, TypeOK, Batches
    <3> QED BY <1>t, <2>2, <3>2
  <2> QED BY <2>2, <2>3, <2>4, Facts DEF WindowInv
<1> QED BY <1>1, <1>2, <1>3, <1>4, <1>5, <1>6, <1>7, <1>8 DEF Next, OwnerStep

\* The gradients are empty at first.
LEMMA InitWindow == Init => WindowInv
BY Facts DEF Init, WindowInv

-----------------------------------------------------------------------------
(* BufferB holds the weights of the layer that uses it *)

Running(l) == repack[l] = "running"

\* A thread that has been joined does not run, and no other is concerned.
LEMMA Joined ==
    ASSUME TypeOK, RepackInv, NEW k \in Layers, NEW failed \in BOOLEAN, JoinRepack(k, failed)
    PROVE  /\ ~Running(k) /\ ~Running(k)'
           /\ \A l \in Layers : Running(l)' <=> Running(l)
           /\ \A l \in Layers : Running(l)' => waits'[l] = waits[l]
<1>1. ~Running(k) BY DEF JoinRepack, RepackInv, Running
<1>2. repack'[k] = repack[k] \/ repack'[k] = "off" BY DEF JoinRepack, TypeOK
<1>3. \A l \in Layers : l # k => repack'[l] = repack[l] /\ waits'[l] = waits[l]
  BY DEF JoinRepack, TypeOK
<1> QED BY <1>1, <1>2, <1>3 DEF Running

\* Steps that only move the ranks leave the threads to the layer that has to wait for them.
LEMMA MoveBuffer ==
    ASSUME TypeOK, SyncInv, BufferInv, Collective \/ \E r \in Ranks : Local(r)
    PROVE  BufferInv'
<1>0. UNCHANGED <<policy, batch, bb, repack, waits, version, packed, dirty, broken>>
  BY DEF Collective, Agree, Gather, Submitted, GpuSync, Collected, RecomputeSync, GatherGrads,
         Computed, RepackSubmitted, Local, Enter, Gpu, Recomputed, buffer, weights, history
<1>t. /\ at[0] \in Nat /\ at[0] \in Layers /\ at[0] > 0 /\ at[0] <= NumLayers /\ NumLayers \in Nat
      /\ \A l \in Layers : l \in Nat /\ l > 0 /\ l <= NumLayers
  BY Phases, Facts
<1>1. CASE pc'[0] = pc[0] /\ at'[0] = at[0] /\ phase'[0] = phase[0] /\ err'[0] = err[0]
  <2>1. /\ Fore' <=> Fore
        /\ TaskOut' <=> TaskOut
        /\ Popped' <=> Popped
    BY <1>0, <1>1 DEF Fore, TaskOut, Reuses, Popped
  <2> QED BY <1>0, <1>1, <2>1 DEF BufferInv, RepackInv, WeightInv, OwnerInv
<1>2. CASE Move
  <2>1. ASSUME pc'[0] # "raised", NEW l \in Layers, Running(l)
        PROVE  IF Fore' THEN l > at'[0] \/ (l = at'[0] /\ ~TaskOut' /\ pc'[0] # "sync3")
               ELSE \/ /\ l = at'[0] /\ ~TaskOut' /\ ~Popped'
                       /\ pc'[0] \notin {"pop", "sync6"}
                    \/ l = at'[0] - 1 /\ pc'[0] = "sync6"
    <3>0. pc[0] # "raised"
      BY <1>2 DEF Move, RaiseMove, ForwardMove, TurnMove, BackMove, Goes, Keeps
    <3>1. IF Fore THEN l > at[0] \/ (l = at[0] /\ ~TaskOut /\ pc[0] # "sync3")
          ELSE \/ /\ l = at[0] /\ ~TaskOut /\ ~Popped
                  /\ pc[0] \notin {"pop", "sync6"}
               \/ l = at[0] - 1 /\ pc[0] = "sync6"
      BY <2>1, <3>0 DEF BufferInv, RepackInv, Running
    <3>2. CASE RaiseMove
      <4>1. pc'[0] = "recomputed" /\ ~Fore /\ ~Fore' /\ at'[0] = at[0] /\ pc[0] # "sync6"
        BY <2>1, <3>2, Phases DEF RaiseMove, Goes, Thrown, Fore
      <4> QED BY <3>1, <4>1 DEF TaskOut, Tasked, Popped
    <3>3. CASE ForwardMove
      <4>1. /\ Fore' <=> Fore
            /\ at'[0] = at[0]
            /\ TaskOut' => TaskOut
            /\ ~Popped' /\ pc'[0] \notin {"pop", "sync6", "sync3"} /\ pc[0] # "sync6"
        BY <1>0, <3>3, Phases DEF ForwardMove, Goes, Keeps, Fore, TaskOut, Tasked, Reuses, Popped
      <4> QED BY <3>1, <4>1
    <3>4. CASE TurnMove
      <4>1. ~TaskOut' /\ ~Popped' /\ pc'[0] \notin {"pop", "sync6", "sync3"} /\ pc[0] = "sync3"
        BY <3>4 DEF TurnMove, Goes, TaskOut, Tasked, Popped
      <4>2. CASE phase[0] = "recompute"
        BY <3>1, <3>4, <4>1, <4>2 DEF TurnMove, Goes, Fore
      <4>3. CASE phase[0] # "recompute"
        <5>1. Fore /\ l > at[0] BY <3>1, <3>4, <4>1, <4>3 DEF TurnMove, Goes, Fore
        <5>2. at'[0] = at[0] + 1 /\ Fore' BY <1>t, <3>4, <4>3, <5>1 DEF TurnMove, Goes, Fore, Turns
        <5> QED BY <1>t, <4>1, <5>1, <5>2
      <4> QED BY <4>2, <4>3
    <3>5. CASE BackMove
      <4>1. ~Fore /\ ~Fore' BY <3>5, Phases DEF BackMove, Goes, Keeps, Fore
      <4>2. /\ ~TaskOut'
            /\ pc'[0] \notin {"pop", "sync6"}
            /\ Popped' => Popped \/ (pc[0] = "sync6" /\ at[0] = 1)
            /\ pc[0] # "sync6" => at'[0] = at[0]
            /\ pc[0] = "sync6" => at'[0] = at[0] - 1 \/ at[0] = 1
        BY <3>5 DEF BackMove, Goes, Keeps, TaskOut, Tasked, Popped
      <4>3. CASE pc[0] = "sync6"
        <5>1. l = at[0] - 1 /\ at[0] # 1 BY <1>t, <3>1, <4>1, <4>3
        <5>2. ~Popped BY <4>3 DEF Popped
        <5> QED BY <4>1, <4>2, <4>3, <5>1, <5>2
      <4>4. CASE pc[0] # "sync6" BY <3>1, <4>1, <4>2, <4>4
      <4> QED BY <4>3, <4>4
    <3> QED BY <1>2, <3>2, <3>3, <3>4, <3>5 DEF Move
  <2>2. RepackInv' BY <1>0, <2>1 DEF BufferInv, RepackInv, Running
  <2>3. WeightInv'
    <3>1. SUFFICES ASSUME pc'[0] # "raised", NEW l \in Layers,
                          \/ ~Fore' \/ l < at'[0]
                          \/ /\ l = at'[0]
                             /\ pc'[0] \in {"gpu", "sync2", "collect", "sync3"} \/
                                (pc'[0] \in {"gather", "submit", "submitted"} /\ ~err'[0])
                   PROVE  ~dirty[l]
      BY <1>0 DEF BufferInv, WeightInv
    <3>2. /\ pc[0] # "raised"
          /\ \/ ~Fore \/ l < at[0]
             \/ /\ l = at[0]
                /\ pc[0] \in {"gpu", "sync2", "collect", "sync3"} \/
                   (pc[0] \in {"gather", "submit", "submitted"} /\ ~err[0])
      BY <1>2, <1>t, <3>1, Phases DEF Move, RaiseMove, ForwardMove, TurnMove, BackMove, Goes, Keeps, Thrown,
         Fore, Turns
    <3> QED BY <3>2 DEF BufferInv, WeightInv
  <2>4. OwnerInv'
    <3>1. Popped' => at'[0] = at[0] /\ (Popped \/ (pc[0] = "sync6" /\ at[0] = 1)) /\ ~Fore
      BY <1>2, Phases DEF Move, RaiseMove, ForwardMove, TurnMove, BackMove, Goes, Keeps, Thrown, Popped, Fore
    <3>2. pc'[0] # "sync6"
      BY <1>2 DEF Move, RaiseMove, ForwardMove, TurnMove, BackMove, Goes, Keeps, Thrown
    <3>3. ASSUME NumLayers > 1, bb.version # version
          PROVE  \/ bb.owner = 0 /\ ~Popped' /\ (Fore' \/ at'[0] = NumLayers)
                 \/ bb.owner = 1 /\ (Fore' \/ (at'[0] = NumLayers /\ ~Popped'))
      <4>1. \/ bb.owner = 0 /\ ~Popped /\ (Fore \/ at[0] = NumLayers) /\ pc[0] # "sync6"
            \/ bb.owner = 1 /\ (Fore \/ (at[0] = NumLayers /\ ~Popped /\ pc[0] # "sync6"))
        BY <3>3 DEF BufferInv, OwnerInv
      <4>2. ~Popped'
        <5>1. SUFFICES ASSUME Popped' PROVE FALSE OBVIOUS
        <5>2. bb.owner = at[0] /\ ~Fore BY <3>1, <5>1 DEF BufferInv, OwnerInv
        <5>3. at[0] = 1 /\ at[0] = NumLayers BY <1>t, <4>1, <5>2
        <5> QED BY <3>3, <5>3
      <4>3. Fore' \/ at'[0] = NumLayers
        <5>1. CASE Fore
          BY <1>2, <5>1, Phases DEF Move, RaiseMove, ForwardMove, TurnMove, BackMove, Goes, Keeps, Fore, Turns
        <5>2. CASE ~Fore
          <6>1. at[0] = NumLayers /\ pc[0] # "sync6" BY <4>1, <5>2
          <6> QED BY <1>2, <5>2, <6>1 DEF Move, RaiseMove, ForwardMove, TurnMove, BackMove, Goes, Keeps, Fore
        <5> QED BY <5>1, <5>2
      <4> QED BY <4>1, <4>2, <4>3
    <3> QED BY <1>0, <3>1, <3>2, <3>3 DEF BufferInv, OwnerInv
  <2> QED BY <2>2, <2>3, <2>4 DEF BufferInv
<1> QED BY <1>1, <1>2, Moves

\* In the forward of rank 0 a layer is loaded and its thread is joined before its task.
LEMMA ForwardBuffer ==
    ASSUME TypeOK, SyncInv, BufferInv, Prepare \/ Submit \/ CollectCached \/ CollectTask
    PROVE  BufferInv'
<1>t. /\ at[0] \in Nat /\ at[0] \in Layers /\ at[0] > 0 /\ at[0] <= NumLayers /\ NumLayers \in Nat
      /\ \A l \in Layers : l \in Nat /\ l > 0 /\ l <= NumLayers
  BY Phases, Facts
<1>a. ASSUME pc[0] \in {"prepare", "submit", "collect"}, pc'[0] \in {"gather", "submitted", "sync3"},
             UNCHANGED <<policy, at, phase, bb, version, broken>>,
             \A l \in Layers : Running(l)' <=> Running(l)
      PROVE  OwnerInv'
  <2>1. (Fore' <=> Fore) /\ ~Popped /\ ~Popped' BY <1>a DEF Fore, Popped
  <2> QED BY <1>a, <2>1 DEF BufferInv, OwnerInv, Running
<1>1. CASE Prepare
  <2>1. PICK failed \in BOOLEAN, bad \in BOOLEAN :
          /\ Rank0("prepare", IF Reuses(0) THEN "submitted" ELSE "gather", bad)
          /\ ~bad => ~failed
          /\ Refresh(at[0], failed)
    BY <1>1 DEF Prepare
  <2>2. /\ pc[0] = "prepare" /\ pc'[0] = (IF Reuses(0) THEN "submitted" ELSE "gather")
        /\ err'[0] = bad /\ UNCHANGED <<policy, at, phase>>
        /\ Fore' = Fore /\ Reuses(0)' = Reuses(0)
    BY <2>1, Rank0Facts
  <2>3. UNCHANGED <<bb, repack, waits, broken>> BY <1>1 DEF Prepare, buffer
  <2>4. \/ ~dirty[at[0]] /\ UNCHANGED <<version, packed, dirty>>
        \/ /\ dirty[at[0]] /\ packed' = [packed EXCEPT ![at[0]] = version]
           /\ dirty' = [dirty EXCEPT ![at[0]] = failed] /\ UNCHANGED version
        \/ dirty[at[0]] /\ failed /\ UNCHANGED <<version, packed, dirty>>
    BY <2>1 DEF Refresh, weights
  <2>5. /\ version' = version
        /\ \A l \in Layers : l # at[0] => packed'[l] = packed[l] /\ dirty'[l] = dirty[l]
        /\ ~dirty'[at[0]] => \/ ~dirty[at[0]] /\ packed'[at[0]] = packed[at[0]]
                             \/ packed'[at[0]] = version
        /\ ~dirty[at[0]] => ~dirty'[at[0]]
        /\ ~failed => ~dirty'[at[0]]
    <3>1. CASE ~dirty[at[0]] /\ UNCHANGED <<version, packed, dirty>> BY <3>1
    <3>3. CASE dirty[at[0]] /\ failed /\ UNCHANGED <<version, packed, dirty>> BY <3>3
    <3>2. CASE /\ dirty[at[0]] /\ packed' = [packed EXCEPT ![at[0]] = version]
               /\ dirty' = [dirty EXCEPT ![at[0]] = failed] /\ UNCHANGED version
      BY <1>t, <3>2 DEF TypeOK
    <3> QED BY <2>4, <3>1, <3>2, <3>3
  <2>6. \A l \in Layers : ~dirty[l] => ~dirty'[l] BY <2>5
  <2>7. ~TaskOut /\ ~TaskOut' /\ ~Popped' /\ ~Popped BY <2>2 DEF TaskOut, Tasked, Popped
  <2>8. RepackInv' BY <2>2, <2>3, <2>6, <2>7 DEF BufferInv, RepackInv
  <2>9. WeightInv'
    <3>1. \A l \in Layers : ~dirty'[l] => packed'[l] = version' BY <2>5 DEF BufferInv, WeightInv
    <3>2. \A l \in Layers : ~Fore \/ l < at[0] => ~dirty'[l]
      BY <2>2, <2>6 DEF BufferInv, WeightInv
    <3>3. ~err'[0] => ~dirty'[at[0]] BY <2>1, <2>2, <2>5
    <3>4. pc'[0] \notin {"gpu", "sync2", "collect", "sync3"} BY <2>2
    <3> QED BY <2>2, <3>1, <3>2, <3>3, <3>4 DEF WeightInv
  <2>10. OwnerInv' BY <1>a, <2>2, <2>3, <2>5 DEF Running
  <2> QED BY <2>8, <2>9, <2>10 DEF BufferInv
<1>2. CASE Submit
  <2>1. UNCHANGED <<bb, version, packed, dirty, broken>> BY <1>2 DEF Submit, weights
  <2>2. PICK failed \in BOOLEAN :
          /\ Rank0("submit", "submitted", failed)
          /\ ~failed => ~err[0]
          /\ \/ failed /\ UNCHANGED <<repack, waits>>
             \/ \E f \in BOOLEAN : JoinRepack(at[0], f)
    BY <1>2 DEF Submit, SubmitError
  <2>3. /\ pc[0] = "submit" /\ pc'[0] = "submitted" /\ err'[0] = failed /\ UNCHANGED <<policy, at, phase>>
        /\ Fore' = Fore
    BY <2>2, Rank0Facts
  <2>4. /\ \A l \in Layers : Running(l)' <=> Running(l)
        /\ \A l \in Layers : Running(l)' => waits'[l] = waits[l]
        /\ ~err'[0] => ~Running(at[0])
    <3>1. CASE failed /\ UNCHANGED <<repack, waits>> BY <2>3, <3>1 DEF Running
    <3>2. ASSUME NEW f \in BOOLEAN, JoinRepack(at[0], f)
          PROVE  /\ \A l \in Layers : Running(l)' <=> Running(l)
                 /\ \A l \in Layers : Running(l)' => waits'[l] = waits[l]
                 /\ ~Running(at[0])
      BY <1>t, <3>2, Joined DEF BufferInv
    <3> QED BY <2>2, <3>1, <3>2
  <2>5. RepackInv'
    <3>1. \A l \in Layers : Running(l)' => waits'[l] /\ ~dirty'[l]
      BY <2>1, <2>4 DEF BufferInv, RepackInv, Running
    <3>2. \A l \in Layers : Running(l)' =>
            IF Fore THEN l > at[0] \/ (l = at[0] /\ err'[0]) ELSE l = at[0] /\ err'[0]
      BY <2>3, <2>4 DEF BufferInv, RepackInv, Running
    <3>3. err'[0] => ~TaskOut' BY <2>3 DEF TaskOut
    <3>4. ~Popped' BY <2>3 DEF Popped
    <3> QED BY <2>3, <3>1, <3>2, <3>3, <3>4 DEF RepackInv, Running
  <2>6. WeightInv' BY <2>1, <2>2, <2>3 DEF BufferInv, WeightInv
  <2>7. OwnerInv' BY <1>a, <2>1, <2>3, <2>4
  <2> QED BY <2>5, <2>6, <2>7 DEF BufferInv
<1>3. CASE CollectCached \/ CollectTask
  <2>1. UNCHANGED <<bb, repack, waits, version, packed, dirty, broken>>
    BY <1>3 DEF CollectCached, CollectTask, weights, buffer
  <2>2. \E failed \in BOOLEAN : Rank0("collect", "sync3", failed) BY <1>3 DEF CollectCached, CollectTask
  <2>3. /\ pc[0] = "collect" /\ pc'[0] = "sync3" /\ UNCHANGED <<policy, at, phase>>
        /\ Fore' = Fore
    BY <2>2, Rank0Facts
  <2>4. Fore => TaskOut
    BY <1>3, <2>3 DEF CollectCached, CollectTask, TaskOut, Tasked, Fore, Reuses
  <2>5. ~TaskOut' /\ ~Popped' BY <2>3 DEF TaskOut, Tasked, Popped
  <2>6. RepackInv' BY <2>1, <2>3, <2>4, <2>5 DEF BufferInv, RepackInv
  <2>7. WeightInv' BY <2>1, <2>3 DEF BufferInv, WeightInv
  <2>8. OwnerInv' BY <1>a, <2>1, <2>3 DEF Running
  <2> QED BY <2>6, <2>7, <2>8 DEF BufferInv
<1> QED BY <1>1, <1>2, <1>3

\* The backward of rank 0 packs the weights itself unless the owner says that they are there,
\* and it starts the thread of the layer below when it is done with BufferB.
LEMMA BackwardBuffer ==
    ASSUME TypeOK, SyncInv, BufferInv, Compute \/ Pop \/ Gemm \/ SubmitRepack
    PROVE  BufferInv'
<1>t. /\ at[0] \in Nat /\ at[0] \in Layers /\ at[0] > 0 /\ at[0] <= NumLayers /\ NumLayers \in Nat
      /\ \A l \in Layers : l \in Nat /\ l > 0 /\ l <= NumLayers
  BY Phases, Facts
<1>w. UNCHANGED <<version, packed, dirty>> BY DEF Compute, Pop, Gemm, SubmitRepack, weights
<1>p. /\ pc[0] \in {"compute", "pop", "gemm", "repack"}
      /\ UNCHANGED <<policy, at, phase>> /\ ~Fore /\ ~Fore'
      /\ pc'[0] \in {"pop", "gemm", "sync5", "sync6"}
  <2>1. \E from \in {"compute", "pop", "gemm", "repack"}, to \in {"pop", "gemm", "sync5", "sync6"} :
          \E failed \in BOOLEAN : Rank0(from, to, failed)
    BY DEF Compute, Pop, Gemm, SubmitRepack, AbortBackward
  <2>2. /\ pc[0] \in {"compute", "pop", "gemm", "repack"}
        /\ UNCHANGED <<policy, at, phase>> /\ Fore' = Fore
        /\ pc'[0] \in {"pop", "gemm", "sync5", "sync6"}
    BY <2>1, Rank0Facts
  <2> QED BY <2>2, Phases DEF Fore
<1>v. WeightInv' /\ \A l \in Layers : ~dirty[l] /\ packed[l] = version
  BY <1>p, <1>w DEF BufferInv, WeightInv
<1>n. pc[0] # "compute" => \A l \in Layers : ~Running(l)
  BY <1>p DEF BufferInv, RepackInv, Popped, Running
<1>1. CASE Compute
  <2>1. UNCHANGED <<bb, broken>> BY <1>1 DEF Compute, history
  <2>2. PICK failed \in BOOLEAN :
          /\ IF failed THEN Rank0("compute", "sync5", TRUE) ELSE Rank0("compute", "pop", FALSE)
          /\ \/ failed /\ UNCHANGED <<repack, waits>>
             \/ \E f \in BOOLEAN : JoinRepack(at[0], f)
    BY <1>1 DEF Compute, AbortBackward
  <2>3. /\ pc[0] = "compute"
        /\ IF failed THEN pc'[0] = "sync5" /\ err'[0] ELSE pc'[0] = "pop"
    BY <2>2, Rank0Facts
  <2>4. /\ \A l \in Layers : Running(l)' <=> Running(l)
        /\ \A l \in Layers : Running(l)' => waits'[l] = waits[l]
        /\ ~failed => ~Running(at[0])
    <3>1. CASE failed /\ UNCHANGED <<repack, waits>> BY <2>3, <3>1 DEF Running
    <3>2. ASSUME NEW f \in BOOLEAN, JoinRepack(at[0], f)
          PROVE  /\ \A l \in Layers : Running(l)' <=> Running(l)
                 /\ \A l \in Layers : Running(l)' => waits'[l] = waits[l]
                 /\ ~Running(at[0])
      BY <1>t, <3>2, Joined DEF BufferInv
    <3> QED BY <2>2, <3>1, <3>2
  <2>5. ~Popped /\ ~Popped' /\ ~TaskOut' BY <2>3 DEF Popped, TaskOut, Tasked
  <2>6. RepackInv'
    <3>1. \A l \in Layers : Running(l)' => waits'[l] /\ ~dirty'[l]
      BY <1>w, <2>4 DEF BufferInv, RepackInv, Running
    <3>2. \A l \in Layers : Running(l)' => l = at[0] /\ failed
      BY <1>p, <2>3, <2>4 DEF BufferInv, RepackInv, Running
    <3> QED BY <1>p, <2>3, <2>5, <3>1, <3>2 DEF RepackInv, Running
  <2>7. OwnerInv' BY <1>p, <1>w, <2>1, <2>3, <2>4, <2>5 DEF BufferInv, OwnerInv, Running
  <2> QED BY <1>v, <2>6, <2>7 DEF BufferInv
<1>2. CASE Pop
  <2>1. UNCHANGED <<repack, waits>> BY <1>2 DEF Pop
  <2>2. \A l \in Layers : ~Running(l) /\ ~Running(l)'
    <3>1. pc[0] = "pop" BY <1>2 DEF Pop
    <3> QED BY <1>n, <2>1, <3>1 DEF Running
  <2>3. RepackInv' BY <2>2 DEF RepackInv, Running
  <2>4. ASSUME Rank0("pop", "gemm", FALSE),
               bb' = IF bb.owner = at[0] THEN bb ELSE Packed(at[0]),
               broken' = (broken /\ bb.owner = at[0])
        PROVE  OwnerInv'
    <3>1. pc[0] = "pop" /\ pc'[0] = "gemm" BY <2>4, Rank0Facts
    <3>2. CASE bb.owner = at[0]
      <4>1. bb' = bb /\ (broken' <=> broken) BY <2>4, <3>2
      <4>2. NumLayers > 1 => bb.version = version
        BY <1>p, <1>t, <3>1, <3>2 DEF BufferInv, OwnerInv
      <4>3. ~broken => bb.holds = bb.owner BY <2>2 DEF BufferInv, OwnerInv, Running
      <4> QED BY <1>p, <1>w, <3>2, <4>1, <4>2, <4>3 DEF OwnerInv
    <3>3. CASE bb.owner # at[0]
      <4>1. bb'.owner = at[0] /\ bb'.holds = at[0] /\ bb'.version = version BY <1>t, <1>v, <2>4, <3>3 DEF Packed
      <4> QED BY <1>p, <1>w, <4>1 DEF OwnerInv
    <3> QED BY <3>2, <3>3
  <2>5. ASSUME AbortBackward("pop", at[0]), UNCHANGED <<bb, broken>> PROVE OwnerInv'
    <3>1. pc[0] = "pop" /\ pc'[0] = "sync5" /\ err'[0] BY <1>t, <2>5, AbortFacts
    <3>2. ~Popped' /\ ~Popped BY <3>1 DEF Popped
    <3> QED BY <1>p, <1>w, <2>2, <2>5, <3>1, <3>2 DEF BufferInv, OwnerInv, Running
  <2>6. ASSUME AbortBackward("pop", at[0]), bb' = [bb EXCEPT !.holds = 0], broken' PROVE OwnerInv'
    <3>1. pc[0] = "pop" /\ pc'[0] = "sync5" /\ err'[0] BY <1>t, <2>6, AbortFacts
    <3>2. ~Popped' /\ ~Popped BY <3>1 DEF Popped
    <3>3. bb'.owner = bb.owner /\ bb'.version = bb.version BY <2>6 DEF TypeOK
    <3> QED BY <1>p, <1>w, <2>6, <3>1, <3>2, <3>3 DEF BufferInv, OwnerInv
  <2>7. OwnerInv' BY <1>2, <2>4, <2>5, <2>6 DEF Pop
  <2> QED BY <1>v, <2>3, <2>7 DEF BufferInv
<1>3. CASE Gemm
  <2>1. UNCHANGED <<bb, repack, waits, broken>> BY <1>3 DEF Gemm, buffer
  <2>2. \E failed \in BOOLEAN : Rank0("gemm", "sync5", failed) BY <1>3 DEF Gemm, AbortBackward
  <2>3. pc[0] = "gemm" /\ pc'[0] = "sync5" BY <2>2, Rank0Facts
  <2>4. \A l \in Layers : ~Running(l) /\ ~Running(l)' BY <1>n, <2>1, <2>3 DEF Running
  <2>5. RepackInv' BY <2>4 DEF RepackInv, Running
  <2>6. Popped BY <2>3 DEF Popped
  <2>7. OwnerInv' BY <1>p, <1>t, <1>w, <2>1, <2>3, <2>6 DEF BufferInv, OwnerInv
  <2> QED BY <1>v, <2>5, <2>7 DEF BufferInv
<1>4. CASE SubmitRepack
  <2>1. \E failed \in BOOLEAN : Rank0("repack", "sync6", failed) BY <1>4 DEF SubmitRepack
  <2>2. pc[0] = "repack" /\ pc'[0] = "sync6" /\ Popped /\ ~Popped' BY <2>1, Rank0Facts DEF Popped
  <2>3. bb.owner = at[0] /\ (NumLayers > 1 => bb.version = version)
    BY <1>p, <1>t, <2>2 DEF BufferInv, OwnerInv
  <2>4. \A l \in Layers : ~Running(l) BY <1>n, <2>2
  <2>5. broken' = broken BY <1>4 DEF SubmitRepack
  <2>6. CASE /\ at[0] > 1
             /\ repack' = [repack EXCEPT ![at[0] - 1] = "running"]
             /\ waits' = [waits EXCEPT ![at[0] - 1] = TRUE]
             /\ bb' = [bb EXCEPT !.holds = 0]
    <3>1. at[0] - 1 \in Layers BY <1>t, <2>6 DEF Layers
    <3>2. /\ repack'[at[0] - 1] = "running" /\ waits'[at[0] - 1]
          /\ \A l \in Layers : Running(l)' => l = at[0] - 1
      <4>1. repack'[at[0] - 1] = "running" /\ waits'[at[0] - 1] BY <2>6, <3>1 DEF TypeOK
      <4>2. \A l \in Layers : l # at[0] - 1 => repack'[l] = repack[l] BY <2>6 DEF TypeOK
      <4> QED BY <2>4, <4>1, <4>2 DEF Running
    <3>3. RepackInv' BY <1>p, <1>v, <1>w, <2>2, <3>1, <3>2 DEF RepackInv, Running
    <3>4. bb'.owner = bb.owner /\ bb'.version = bb.version BY <2>6 DEF TypeOK
    <3>5. OwnerInv' BY <1>p, <1>t, <1>w, <2>2, <2>3, <2>6, <3>1, <3>2, <3>4 DEF OwnerInv, Running
    <3> QED BY <1>v, <3>3, <3>5 DEF BufferInv
  <2>7. CASE bb' = bb /\ (repack' = repack \/ (at[0] > 1 /\ repack' = [repack EXCEPT ![at[0] - 1] = "off"]))
    <3>1. \A l \in Layers : ~Running(l)' BY <2>4, <2>7 DEF Running, TypeOK
    <3>2. RepackInv' BY <3>1 DEF RepackInv, Running
    <3>3. ~broken => bb.holds = bb.owner BY <2>4 DEF BufferInv, OwnerInv, Running
    <3>4. OwnerInv' BY <1>p, <1>w, <2>2, <2>3, <2>5, <2>7, <3>3 DEF OwnerInv
    <3> QED BY <1>v, <3>2, <3>4 DEF BufferInv
  <2> QED BY <1>4, <2>6, <2>7 DEF SubmitRepack, buffer
<1> QED BY <1>1, <1>2, <1>3, <1>4

\* A thread ends while nobody reads BufferB; an optimizer step comes when none is running.
LEMMA BufferStep ==
    ASSUME TypeOK, SyncInv, BufferInv, [Next]_vars
    PROVE  BufferInv'
<1>t. /\ at[0] \in Nat /\ at[0] \in Layers /\ at[0] > 0 /\ at[0] <= NumLayers /\ NumLayers \in Nat
      /\ \A l \in Layers : l \in Nat /\ l > 0 /\ l <= NumLayers
  BY Phases, Facts
<1>1. CASE RunTask \/ UNCHANGED vars
  <2>1. UNCHANGED <<policy, pc, at, phase, err, bb, repack, waits, version, packed, dirty, broken>>
    BY <1>1 DEF RunTask, vars, ranks, buffer, weights, history
  <2>2. /\ Fore' <=> Fore
        /\ TaskOut' <=> TaskOut
        /\ Popped' <=> Popped
    BY <2>1 DEF Fore, TaskOut, Reuses, Popped
  <2> QED BY <2>1, <2>2 DEF BufferInv, RepackInv, WeightInv, OwnerInv
<1>2. ASSUME NEW k \in Layers, RepackEnds(k) PROVE BufferInv'
  <2>1. UNCHANGED <<policy, pc, at, phase, err, waits, version, packed, dirty>>
    BY <1>2 DEF RepackEnds, ranks, weights
  <2>2. /\ Fore' <=> Fore
        /\ TaskOut' <=> TaskOut
        /\ Popped' <=> Popped
    BY <2>1 DEF Fore, TaskOut, Reuses, Popped
  <2>3. Running(k) /\ \A l \in Layers : Running(l)' => Running(l)
    <3>1. repack[k] = "running" BY <1>2 DEF RepackEnds
    <3>2. \A l \in Layers : l # k => repack'[l] = repack[l] BY <1>2 DEF RepackEnds, TypeOK
    <3> QED BY <3>1, <3>2 DEF Running
  <2>4. RepackInv' BY <2>1, <2>2, <2>3 DEF BufferInv, RepackInv, Running
  <2>5. WeightInv' BY <2>1, <2>2 DEF BufferInv, WeightInv
  <2>6. ~(Popped \/ (pc[0] = "sync6" /\ at[0] = 1))
    <3>1. SUFFICES ASSUME Popped \/ (pc[0] = "sync6" /\ at[0] = 1) PROVE FALSE OBVIOUS
    <3>2. pc[0] # "raised" /\ ~Fore BY <3>1, Phases DEF Popped, Fore
    <3>3. k = at[0] - 1 /\ pc[0] = "sync6" BY <2>3, <3>1, <3>2 DEF BufferInv, RepackInv, Running
    <3> QED BY <1>t, <3>1, <3>3 DEF Popped
  <2>7. packed[k] = version BY <2>3 DEF BufferInv, RepackInv, WeightInv, Running
  <2>8. OwnerInv'
    <3>1. CASE bb' = Packed(k)
      <4>1. bb'.owner = k /\ bb'.holds = k /\ bb'.version = version BY <2>7, <3>1 DEF Packed
      <4> QED BY <2>1, <2>2, <2>6, <4>1 DEF OwnerInv
    <3>2. CASE bb' = bb /\ broken' BY <2>1, <2>2, <2>6, <3>2 DEF BufferInv, OwnerInv
    <3> QED BY <1>2, <3>1, <3>2 DEF RepackEnds
  <2> QED BY <2>4, <2>5, <2>8 DEF BufferInv
<1>3. CASE Accumulate \/ OptimizerStep \/ Retry
  <2>1. StartBatch /\ pc[0] \in {"end", "raised"}
    BY <1>3, Facts DEF Accumulate, OptimizerStep, Retry, Ended
  <2>2. /\ pc'[0] = "enter" /\ at'[0] = 1 /\ Fore' /\ ~TaskOut' /\ ~Popped'
        /\ UNCHANGED <<bb, repack, waits, packed, broken>>
    <3>1. pc'[0] = "enter" /\ at'[0] = 1 /\ phase'[0] = First(0) BY <2>1, Facts DEF StartBatch
    <3> QED BY <2>1, <3>1 DEF StartBatch, Fore, First, TaskOut, Tasked, Popped, buffer
  <2>3. \/ version' = version /\ dirty' = dirty
        \/ pc[0] = "end" /\ dirty' = [l \in Layers |-> TRUE]
    BY <1>3, Facts DEF Accumulate, OptimizerStep, Retry, Ended
  <2>4. pc[0] = "end" => /\ \A l \in Layers : ~Running(l)
                         /\ bb.owner = 1
    <3>1. SUFFICES ASSUME pc[0] = "end" PROVE (\A l \in Layers : ~Running(l)) /\ bb.owner = 1 OBVIOUS
    <3>2. Popped /\ ~Fore /\ at[0] = 1 BY <3>1, Phases DEF Popped, Fore
    <3> QED BY <3>1, <3>2 DEF BufferInv, RepackInv, OwnerInv, Running
  <2>5. RepackInv'
    <3>1. \A l \in Layers : Running(l)' => waits'[l] /\ ~dirty'[l]
      <4>1. CASE dirty' = dirty BY <2>2, <4>1 DEF BufferInv, RepackInv, Running
      <4>2. CASE pc[0] = "end" BY <2>2, <2>4, <4>2 DEF Running
      <4> QED BY <2>3, <4>1, <4>2
    <3>2. \A l \in Layers : l > 1 \/ l = 1 BY <1>t
    <3> QED BY <2>2, <3>1, <3>2 DEF RepackInv, Running
  <2>6. WeightInv'
    <3>1. \A l \in Layers : ~dirty'[l] => packed'[l] = version'
      BY <2>2, <2>3 DEF BufferInv, WeightInv
    <3>2. \A l \in Layers : ~(l < 1) BY <1>t
    <3> QED BY <2>2, <3>1, <3>2 DEF WeightInv
  <2>7. OwnerInv'
    <3>1. NumLayers > 1 => bb.version = version' \/ bb.owner \in {0, 1}
      BY <2>3, <2>4 DEF BufferInv, OwnerInv
    <3> QED BY <2>2, <3>1 DEF BufferInv, OwnerInv
  <2> QED BY <2>5, <2>6, <2>7 DEF BufferInv
<1> QED BY <1>1, <1>2, <1>3, MoveBuffer, ForwardBuffer, BackwardBuffer DEF Next, OwnerStep

\* No thread runs at first, and BufferB has no owner.
LEMMA InitBuffer == Init => BufferInv
<1> SUFFICES ASSUME Init PROVE BufferInv OBVIOUS
<1>1. pc[0] = "enter" /\ at[0] = 1 /\ phase[0] = First(0) BY Facts DEF Init
<1>2. Fore /\ ~Popped BY <1>1 DEF Fore, First, Popped
<1>3. \A l \in Layers : ~(l < 1) /\ repack[l] = "off" /\ packed[l] = version BY Facts DEF Init
<1>4. bb.owner = 0 /\ bb.holds = 0 BY DEF Init
<1> QED BY <1>1, <1>2, <1>3, <1>4 DEF BufferInv, RepackInv, WeightInv, OwnerInv

-----------------------------------------------------------------------------
(* Runs without failures *)

\* A step that fails is counted, so that a run in which none is counted has had none.
LEMMA CleanCount ==
    ASSUME TypeOK, failures' = 0
    PROVE  ~Fails
BY FailureCount

\* Without failures the ranks raise only when they compare different policies.
LEMMA CleanRanks ==
    ASSUME TypeOK, SyncInv, NoErrors, Agreed, failures' = 0, Collective \/ \E r \in Ranks : Local(r)
    PROVE  /\ NoErrors' /\ Agreed'
           /\ UNCHANGED <<policy, queue, fault, cache, depth, open, adding, grads, repack, batch, since>>
           /\ RaiseMove => pc[0] = "agree" /\ Fore /\ at[0] = 1
           /\ pc'[0] = "raised" => pc[0] \in {"agree", "raised"}
<1>f. ~Fails BY CleanCount
<1>0. UNCHANGED <<policy, queue, fault, depth, adding, grads, repack, batch, since>>
  BY DEF Collective, Agree, Gather, Submitted, GpuSync, Collected, RecomputeSync, GatherGrads,
         Computed, RepackSubmitted, Local, Enter, Gpu, Recomputed, caches, tasks, window, buffer, history
<1>s. Same(policy)' <=> Same(policy) BY <1>0 DEF Same
<1>d. pc[0] \notin {"enter", "agree", "raised"} => Same(policy) BY Facts DEF Agreed, All
<1> DEFINE Goal ==
      /\ NoErrors' /\ Agreed'
      /\ UNCHANGED <<policy, queue, fault, cache, depth, open, adding, grads, repack, batch, since>>
      /\ RaiseMove => pc[0] = "agree" /\ Fore /\ at[0] = 1
      /\ pc'[0] = "raised" => pc[0] \in {"agree", "raised"}
<1>a. ASSUME UNCHANGED <<err, alone, cache, open>>, NEW from, NEW p, NEW q, Meet(from, p, q),
             from \notin {"enter", "agree", "raised"} \/ Same(policy), p # "raised", q # "raised"
      PROVE  Goal
  <2>1. pc[0] = from /\ pc'[0] = p /\ \A r \in Ranks : pc'[r] # "raised" BY <1>a, Facts DEF Meet
  <2>2. Same(policy) BY <1>a, <1>d, <2>1
  <2>3. ~RaiseMove
    <3>1. SUFFICES ASSUME RaiseMove PROVE FALSE OBVIOUS
    <3>2. pc'[0] = "recomputed" /\ err'[0] BY <1>a, <2>1, <3>1 DEF RaiseMove, Goes, Thrown
    <3> QED BY <1>a, <3>2, Facts DEF NoErrors
  <2>4. NoErrors' BY <1>0, <1>a DEF NoErrors
  <2>5. Agreed' BY <1>s, <2>1, <2>2 DEF Agreed
  <2> QED BY <1>0, <1>a, <2>1, <2>3, <2>4, <2>5
<1>1. CASE Agree
  <2>u. UNCHANGED <<at, phase, alone, cache, open>> BY <1>1 DEF Agree, caches, window, history
  <2>1. CASE /\ \A r \in Ranks : <<at[r], phase[r], policy[r]>> = <<at[0], phase[0], policy[0]>>
             /\ Meet("agree", "prepare", IF Reuses(0) THEN "submitted" ELSE "gather")
             /\ UNCHANGED err
    <3>1. Same(policy) BY <2>1 DEF Same
    <3> QED BY <1>a, <2>1, <2>u, <3>1
  <2>2. CASE /\ ~(\A r \in Ranks : <<at[r], phase[r], policy[r]>> = <<at[0], phase[0], policy[0]>>)
             /\ MeetAndRaise("agree")
    <3>1. \A r \in Ranks : pc[r] = "agree" BY <2>2 DEF MeetAndRaise
    <3>2. Starting \/ Recomputing BY <3>1, Where, Facts
    <3>3. ~Same(policy)
      <4>1. SUFFICES ASSUME Same(policy) PROVE FALSE OBVIOUS
      <4>2. Same(phase)
        BY <3>1, <3>2, <4>1, Facts DEF Starting, First, Recomputing, Same
      <4> QED BY <2>2, <4>1, <4>2 DEF SyncInv, Same
    <3>4. Fore /\ at[0] = 1 BY <3>3 DEF Agreed
    <3>5. \A r \in Ranks : phase[r] # "recompute"
      BY <3>2, <3>3 DEF Starting, First, Recomputing
    <3>6. \A r \in Ranks : pc'[r] = "raised" /\ ~err'[r] BY <2>2, <3>5 DEF MeetAndRaise, Thrown
    <3>7. NoErrors' BY <1>0, <2>u, <3>6 DEF NoErrors
    <3>8. Agreed' BY <1>s, <2>u, <3>3, <3>4, <3>6 DEF Agreed, All, Fore
    <3> QED BY <1>0, <2>u, <3>1, <3>4, <3>7, <3>8, Facts
  <2> QED BY <1>1, <2>1, <2>2 DEF Agree
<1>e. 0 \in Ranks /\ \A r \in Ranks : ~err[r] BY Facts DEF NoErrors
<1>2. CASE Gather
  <2>1. Meet("gather", "submit", "submitted") /\ UNCHANGED <<err, alone, cache, open>>
    BY <1>2 DEF Gather, caches, window, history
  <2> QED BY <1>a, <2>1
<1>3. CASE Submitted
  <2>1. Meet("submitted", "gpu", "gpu") /\ UNCHANGED <<err, alone, cache, open>>
    BY <1>3, <1>e DEF Submitted, caches, window, history
  <2> QED BY <1>a, <2>1
<1>4. CASE GpuSync
  <2>1. Meet("sync2", "collect", "sync3") /\ UNCHANGED <<err, alone, cache, open>>
    BY <1>4, <1>e DEF GpuSync, window, history
  <2> QED BY <1>a, <2>1
<1>5. CASE Collected
  <2>1. /\ \E p \in {"recomputed", "grad", "enter"} : Meet("sync3", p, p)
        /\ UNCHANGED <<err, alone, cache, open>>
    BY <1>5, <1>e DEF Collected, caches, window, history
  <2> QED BY <1>a, <1>e, <2>1
<1>6. CASE RecomputeSync
  <2>1. Meet("sync4", "grad", "grad") /\ UNCHANGED <<err, alone, cache, open>>
    BY <1>6, <1>e DEF RecomputeSync, window, history
  <2> QED BY <1>a, <2>1
<1>7. CASE GatherGrads
  <2>1. Meet("grad", "compute", "sync5") /\ UNCHANGED <<err, alone, cache, open>>
    BY <1>7 DEF GatherGrads, caches, window, history
  <2> QED BY <1>a, <2>1
<1>8. CASE Computed
  <2>1. Meet("sync5", "repack", "sync6") /\ UNCHANGED <<err, alone, cache, open>>
    BY <1>8, <1>e, <1>f DEF Computed, caches
  <2> QED BY <1>a, <2>1
<1>9. CASE RepackSubmitted
  <2>1. /\ \E p \in {"end", "grad", "enter"} : Meet("sync6", p, p)
        /\ UNCHANGED <<err, alone, cache, open>>
    BY <1>9, <1>e DEF RepackSubmitted, caches, window, history
  <2> QED BY <1>a, <2>1
<1>10. ASSUME NEW r \in Ranks, Local(r) PROVE Goal
  <2>u. UNCHANGED <<cache, open>> BY <1>10 DEF Local, Enter, Gpu, Recomputed, caches, window
  <2>1. CASE Enter(r)
    <3>1. pc[r] = "enter" /\ pc' = [pc EXCEPT ![r] = "agree"] /\ UNCHANGED <<at, phase, err, alone>>
      BY <1>f, <2>1 DEF Enter
    <3>2. \A q \in Ranks : pc'[q] = IF q = r THEN "agree" ELSE pc[q] BY <3>1 DEF TypeOK
    <3>3. NoErrors' BY <1>0, <3>1 DEF NoErrors
    <3>4. Agreed' BY <1>s, <3>1, <3>2 DEF Agreed, All, Fore
    <3>5. ~RaiseMove /\ (pc'[0] = "raised" => pc[0] = "raised")
      BY <3>1, <3>2, Facts DEF RaiseMove, Goes, Thrown
    <3> QED BY <1>0, <2>u, <3>3, <3>4, <3>5
  <2>2. CASE Gpu(r)
    <3>1. pc[r] = "gpu" /\ pc' = [pc EXCEPT ![r] = "sync2"] /\ UNCHANGED <<at, phase, err, alone>>
      BY <1>f, <2>2 DEF Gpu
    <3>2. \A q \in Ranks : pc'[q] = IF q = r THEN "sync2" ELSE pc[q] BY <3>1 DEF TypeOK
    <3>3. NoErrors' BY <1>0, <3>1 DEF NoErrors
    <3>4. Agreed' BY <1>s, <3>1, <3>2 DEF Agreed, All
    <3>5. ~RaiseMove /\ (pc'[0] = "raised" => pc[0] = "raised")
      BY <3>1, <3>2, Facts DEF RaiseMove, Goes, Thrown
    <3> QED BY <1>0, <2>u, <3>3, <3>4, <3>5
  <2>3. CASE Recomputed(r)
    <3>1. /\ pc[r] = "recomputed"
          /\ pc' = [pc EXCEPT ![r] = "sync4"] \/ pc' = [pc EXCEPT ![r] = "grad"]
          /\ UNCHANGED <<err, alone>>
      <4>1. /\ pc[r] = "recomputed" /\ ~err[r]
            /\ \/ pc' = [pc EXCEPT ![r] = "sync4"] /\ err' = [err EXCEPT ![r] = @] /\ alone' = alone
               \/ pc' = [pc EXCEPT ![r] = "grad"] /\ err' = [err EXCEPT ![r] = FALSE] /\ alone' = alone
        <5>1. pc[r] = "recomputed" /\ ~err[r] BY <1>e, <2>3 DEF Recomputed
        <5>2. PICK late \in BOOLEAN :
                /\ IF late THEN ~err[r] /\ Fails ELSE NoFailure
                /\ \/ /\ pc' = [pc EXCEPT ![r] = "sync4"]
                      /\ err' = [err EXCEPT ![r] = @ \/ late]
                      /\ UNCHANGED alone
                   \/ /\ pc' = [pc EXCEPT ![r] = IF err[r] \/ late THEN "raised" ELSE "grad"]
                      /\ err' = [err EXCEPT ![r] = FALSE]
                      /\ alone' = (alone \/ late)
          BY <2>3 DEF Recomputed
        <5>3. ~late BY <1>f, <5>2
        <5>4. (err[r] \/ late) = err[r] /\ (alone \/ late) = alone BY <5>3 DEF TypeOK
        <5> QED BY <5>1, <5>2, <5>3, <5>4
      <4>2. [err EXCEPT ![r] = FALSE] = err /\ [err EXCEPT ![r] = @] = err BY <4>1 DEF TypeOK
      <4> QED BY <4>1, <4>2
    <3>2. \A q \in Ranks : pc'[q] # "raised" \/ (q # r /\ pc'[q] = pc[q]) BY <3>1 DEF TypeOK
    <3>3. NoErrors' BY <1>0, <3>1 DEF NoErrors
    <3>4. Same(policy) BY <3>1 DEF Agreed, All
    <3>5. Agreed' BY <1>s, <3>2, <3>4 DEF Agreed
    <3>6. ~RaiseMove
      <4>1. pc[0] = "recomputed" \/ pc'[0] = pc[0] BY <3>1, Facts DEF TypeOK
      <4> QED BY <4>1 DEF RaiseMove, Goes, Thrown
    <3> QED BY <1>0, <2>u, <3>2, <3>3, <3>5, <3>6, Facts
  <2> QED BY <1>10, <2>1, <2>2, <2>3 DEF Local
<1> QED BY <1>1, <1>2, <1>3, <1>4, <1>5, <1>6, <1>7, <1>8, <1>9, <1>10 DEF Collective

\* The steps that move the ranks keep what the backend holds.
LEMMA MoveClean ==
    ASSUME TypeOK, SyncInv, DataInv, Clean, failures' = 0, Collective \/ \E r \in Ranks : Local(r)
    PROVE  Clean'
<1>0. /\ NoErrors' /\ Agreed'
      /\ UNCHANGED <<policy, queue, fault, cache, depth, open, adding, grads, repack, batch, since>>
      /\ RaiseMove => pc[0] = "agree" /\ Fore /\ at[0] = 1
      /\ pc'[0] = "raised" => pc[0] \in {"agree", "raised"}
  BY CleanRanks DEF Clean
<1>t. /\ at[0] \in Nat /\ at[0] \in Layers /\ at[0] > 0 /\ at[0] <= NumLayers /\ NumLayers \in Nat
      /\ \A l \in Layers : l \in Nat /\ l > 0 /\ l <= NumLayers
  BY Phases, Facts
<1>e. ~err[0] /\ ~err'[0] BY <1>0, Facts DEF Clean, NoErrors
<1>1. CASE pc'[0] = pc[0] /\ at'[0] = at[0] /\ phase'[0] = phase[0] /\ err'[0] = err[0]
  <2>1. /\ Fore' <=> Fore
        /\ TaskOut' <=> TaskOut
        /\ \A l \in Layers : Live(l)' <=> Live(l)
        /\ \A l \in Layers : Written(l)' <=> Written(l)
    BY <1>0, <1>1 DEF Fore, TaskOut, Reuses, Live, Passed, Written
  <2>2. Idle' BY <1>0, <1>1, <2>1 DEF Clean, Idle
  <2>3. CachesExact' BY <1>0, <1>1, <2>1 DEF Clean, CachesExact
  <2>4. WindowExact' BY <1>0, <1>1, <2>1 DEF Clean, WindowExact
  <2> QED BY <1>0, <2>2, <2>3, <2>4 DEF Clean
<1>2. CASE Move
  <2>1. /\ Fore' => Fore
        /\ at'[0] = 1 /\ Fore' => at[0] = 1 /\ pc[0] # "sync3"
        /\ pc'[0] \notin {"sync3", "pop", "gemm"}
    BY <1>0, <1>2, <1>t, Phases
       DEF Move, RaiseMove, ForwardMove, TurnMove, BackMove, Goes, Keeps, Thrown, Fore
  <2>2. \A l \in Layers : (Live(l)' <=> Live(l)) /\ (Written(l)' <=> Written(l))
    <3>1. CASE RaiseMove
      <4>1. /\ pc[0] = "agree" /\ pc'[0] \in {"raised", "recomputed"} /\ at'[0] = at[0]
            /\ Fore /\ Fore'
        BY <1>0, <3>1 DEF RaiseMove, Goes, Thrown, Fore
      <4> QED BY <4>1 DEF Live, Passed, Written
    <3>2. CASE ForwardMove
      <4>1. /\ at'[0] = at[0] /\ (Fore' <=> Fore)
            /\ pc[0] \notin {"sync3", "sync5", "repack", "sync6", "end"}
            /\ pc'[0] \notin {"sync3", "sync5", "repack", "sync6", "end"}
        BY <3>2 DEF ForwardMove, Goes, Keeps, Fore
      <4> QED BY <4>1 DEF Live, Passed, Written
    <3>3. CASE TurnMove
      <4>0. pc[0] = "sync3" /\ pc'[0] \in {"recomputed", "grad", "enter"}
        BY <3>3 DEF TurnMove, Goes
      <4>1. \A l \in Layers : Written(l)' <=> Written(l)
        BY <1>t, <3>3, <4>0 DEF TurnMove, Goes, Written, Fore, Turns
      <4>2. CASE Fore /\ Fore'
        <5>1. at'[0] = at[0] + 1 BY <3>3, <4>2 DEF TurnMove, Goes, Fore
        <5> QED BY <1>e, <1>t, <4>0, <4>1, <4>2, <5>1 DEF Live, Passed
      <4>3. CASE Fore /\ ~Fore'
        <5>1. at'[0] = at[0] /\ at[0] = NumLayers BY <3>3, <4>3 DEF TurnMove, Goes, Fore, Turns
        <5>2. \A l \in Layers : ~Written(l) BY <4>3 DEF Written
        <5> QED BY <1>e, <1>t, <4>0, <4>1, <4>3, <5>1, <5>2 DEF Live, Passed
      <4>4. CASE ~Fore
        <5>1. at'[0] = at[0] /\ ~Fore' BY <3>3, <4>4 DEF TurnMove, Goes, Fore
        <5> QED BY <4>1, <4>4, <5>1 DEF Live
      <4> QED BY <4>2, <4>3, <4>4
    <3>4. CASE BackMove
      <4>1. ~Fore /\ ~Fore' BY <3>4, Phases DEF BackMove, Goes, Keeps, Fore
      <4>2. \A l \in Layers : Written(l)' <=> Written(l)
        BY <1>t, <3>4, <4>1 DEF BackMove, Goes, Keeps, Written
      <4>3. at'[0] = at[0] \/ (pc[0] = "sync6" /\ at'[0] = at[0] - 1)
        BY <3>4 DEF BackMove, Goes, Keeps
      <4>4. pc[0] = "sync6" => \A l \in Layers : Written(l) <=> l >= at[0]
        BY <1>t, <4>1 DEF Written
      <4> QED BY <1>t, <4>1, <4>2, <4>3, <4>4 DEF Live
    <3> QED BY <1>2, <3>1, <3>2, <3>3, <3>4 DEF Move
  <2>3. Idle'
    <3>1. ASSUME at'[0] = 1, Fore' PROVE queue' = << >> \/ TaskOut'
      <4>1. queue = << >> \/ TaskOut BY <2>1, <3>1 DEF Clean, Idle
      <4>2. TaskOut => TaskOut'
        <5>1. SUFFICES ASSUME TaskOut PROVE TaskOut' OBVIOUS
        <5>2. ForwardMove
          BY <1>0, <1>2, <2>1, <3>1, <5>1, Phases DEF Move, TurnMove, BackMove, Goes, Keeps, Fore, TaskOut, Tasked
        <5> QED BY <1>0, <1>e, <5>1, <5>2 DEF ForwardMove, Goes, Keeps, TaskOut, Tasked, Reuses
      <4> QED BY <1>0, <4>1, <4>2
    <3> QED BY <1>0, <2>1, <3>1 DEF Clean, Idle
  <2>4. CachesExact'
    <3>1. ASSUME NEW l \in Layers,
                 \/ policy[0] # "recompute" /\ Live(l)'
                 \/ ~Fore' /\ l = at'[0] /\ pc'[0] \in {"recomputed", "grad", "compute"}
          PROVE  depth[l] = 1
      <4>1. CASE policy[0] # "recompute" /\ Live(l)' BY <2>2, <4>1 DEF Clean, CachesExact
      <4>2. CASE /\ policy[0] = "recompute" \/ ~Live(l)'
                 /\ ~Fore' /\ l = at'[0] /\ pc'[0] \in {"recomputed", "grad", "compute"}
        <5>1. ~Written(l)' BY <1>t, <4>2 DEF Written
        <5>2. Live(l)' BY <1>t, <4>2, <5>1 DEF Live
        <5>3. policy[0] = "recompute" BY <4>2, <5>2
        <5>4. ~Fore /\ at'[0] = at[0] /\ pc[0] \in {"sync3", "recomputed", "grad", "compute"}
          BY <1>e, <1>2, <1>0, <4>2, <5>3, Phases
             DEF Move, RaiseMove, ForwardMove, TurnMove, BackMove, Goes, Keeps, Thrown, Fore
        <5> QED BY <4>2, <5>4 DEF Clean, CachesExact
      <4> QED BY <3>1, <4>1, <4>2
    <3>2. \A l \in Layers :
            cache'[l] = IF policy'[0] = "retain" /\ Live(l)' THEN "READY" ELSE "EMPTY"
      BY <1>0, <2>2 DEF Clean, CachesExact
    <3> QED BY <1>0, <2>1, <3>1, <3>2 DEF CachesExact
  <2>5. WindowExact' BY <1>0, <2>1, <2>2 DEF Clean, WindowExact
  <2> QED BY <1>0, <2>3, <2>4, <2>5 DEF Clean
<1> QED BY <1>1, <1>2, Moves

\* Rank 0 alone goes on without an error.
LEMMA OwnerClean ==
    ASSUME TypeOK, SyncInv, NoErrors, Agreed, NEW from, NEW to, Rank0(from, to, FALSE),
           from \notin {"enter", "agree", "raised"}, to # "raised",
           ~fault', UNCHANGED alone, \A l \in Layers : repack'[l] # "failed"
    PROVE  NoErrors' /\ Agreed'
<1>1. pc[0] = from /\ pc'[0] = to /\ UNCHANGED <<policy, at, phase>> BY Rank0Facts
<1>2. \A r \in Ranks : ~err'[r] BY Facts DEF Rank0, NoErrors, TypeOK
<1>3. Same(policy) BY <1>1, Facts DEF Agreed, All
<1>4. Same(policy)' BY <1>1, <1>3 DEF Same
<1>5. \A r \in Ranks : pc'[r] # "raised" BY <1>3 DEF Rank0, Agreed, TypeOK
<1> QED BY <1>2, <1>4, <1>5 DEF NoErrors, Agreed

\* The checks of the forward hold, and it leaves a whole entry in the caches.
LEMMA ForwardClean ==
    ASSUME TypeOK, SyncInv, DataInv, BufferInv, Clean, failures' = 0,
           Prepare \/ Submit \/ CollectCached \/ CollectTask
    PROVE  Clean'
<1>f. ~Fails BY CleanCount
<1>t. /\ at[0] \in Nat /\ at[0] \in Layers /\ at[0] > 0 /\ at[0] <= NumLayers /\ NumLayers \in Nat
      /\ \A l \in Layers : l \in Nat /\ l > 0 /\ l <= NumLayers
  BY Phases, Facts
<1>c. NoErrors /\ Agreed /\ Idle /\ CachesExact /\ WindowExact /\ ~fault /\ ~err[0]
  BY Facts DEF Clean, NoErrors
<1>u. UNCHANGED <<alone, open, adding, grads, batch, since>>
  BY DEF Prepare, Submit, CollectCached, CollectTask, window
<1>1. CASE Prepare
  <2>0. pc[0] = "prepare" BY <1>1 DEF Prepare, Rank0
  <2>1. /\ Caches(0) => cache[at[0]] = "EMPTY"
        /\ Reuses(0) => cache[at[0]] = "READY"
    <3>1. Caches(0) => Fore /\ ~Live(at[0])
      BY <1>t, <2>0 DEF Caches, Fore, Live, Passed
    <3>2. Reuses(0) => Live(at[0]) BY <1>t, <2>0 DEF Reuses, Live, Fore, Written
    <3> QED BY <1>c, <1>t, <3>1, <3>2 DEF CachesExact, Reuses
  <2>2. /\ Rank0("prepare", IF Reuses(0) THEN "submitted" ELSE "gather", FALSE)
        /\ UNCHANGED cache /\ ~fault'
    <3>1. PICK failed \in BOOLEAN :
            LET bad == \/ failed
                       \/ Caches(0) /\ cache[at[0]] # "EMPTY"
                       \/ Reuses(0) /\ cache[at[0]] # "READY"
            IN /\ Refresh(at[0], failed)
               /\ Rank0("prepare", IF Reuses(0) THEN "submitted" ELSE "gather", bad)
               /\ PoisonWhen(bad /\ (Reuses(0) \/ ~failed), at[0])
      BY <1>1 DEF Prepare
    <3>2. ~failed BY <1>c, <1>f, <3>1 DEF Refresh
    <3>3. ~fault' BY <1>c, <3>1, <3>2 DEF Refresh
    <3> QED BY <2>1, <3>1, <3>2, <3>3 DEF PoisonWhen
  <2>3. UNCHANGED <<queue, depth, repack>> BY <1>1 DEF Prepare, buffer
  <2>4. /\ pc'[0] \in {"submitted", "gather"} /\ UNCHANGED <<policy, at, phase>>
        /\ Fore' = Fore /\ Reuses(0)' = Reuses(0)
    BY <2>2, Rank0Facts
  <2>5. NoErrors' /\ Agreed' BY <1>c, <1>u, <2>2, <2>3, OwnerClean DEF NoErrors
  <2>6. \A l \in Layers : (Live(l)' <=> Live(l)) /\ (Written(l)' <=> Written(l))
    BY <2>0, <2>4 DEF Live, Passed, Written
  <2>7. ~TaskOut BY <2>0 DEF TaskOut, Tasked
  <2>8. Idle' BY <1>c, <2>3, <2>4, <2>7 DEF Idle
  <2>9. CachesExact' BY <1>c, <2>2, <2>3, <2>4, <2>6 DEF CachesExact
  <2>10. WindowExact' BY <1>c, <1>u, <2>4, <2>6 DEF WindowExact
  <2> QED BY <2>5, <2>8, <2>9, <2>10 DEF Clean
<1>2. CASE Submit
  <2>1. /\ Rank0("submit", "submitted", FALSE)
        /\ UNCHANGED <<cache, depth, fault>>
        /\ \A l \in Layers : repack'[l] = repack[l] \/ repack'[l] = "off"
    <3>1. PICK failed \in BOOLEAN :
            /\ JoinRepack(at[0], failed)
            /\ \/ /\ ~failed
                  /\ Rank0("submit", "submitted", FALSE)
                  /\ PoisonWhen(FALSE, at[0])
               \/ IF failed THEN NoFailure ELSE Fails
      BY <1>2, <1>c DEF Submit
    <3>2. ~failed BY <1>t, <1>c, <3>1 DEF JoinRepack, NoErrors
    <3>3. \A l \in Layers : repack'[l] = repack[l] \/ repack'[l] = "off" BY <3>1 DEF JoinRepack, TypeOK
    <3> QED BY <1>2, <1>f, <3>1, <3>2, <3>3 DEF PoisonWhen, Submit
  <2>2. /\ pc[0] = "submit" /\ pc'[0] = "submitted" /\ UNCHANGED <<policy, at, phase>> /\ ~err'[0]
        /\ Fore' = Fore /\ Reuses(0)' = Reuses(0)
    BY <2>1, Rank0Facts
  <2>3. NoErrors' /\ Agreed' BY <1>c, <1>u, <2>1, OwnerClean DEF NoErrors
  <2>4. \A l \in Layers : (Live(l)' <=> Live(l)) /\ (Written(l)' <=> Written(l))
    BY <2>2 DEF Live, Passed, Written
  <2>5. TaskOut' BY <2>2, Phases DEF TaskOut, Tasked
  <2>6. Idle' BY <1>c, <2>1, <2>2, <2>5 DEF Idle
  <2>7. CachesExact' BY <1>c, <2>1, <2>2, <2>4 DEF CachesExact
  <2>8. WindowExact' BY <1>c, <1>u, <2>2, <2>4 DEF WindowExact
  <2> QED BY <2>3, <2>6, <2>7, <2>8 DEF Clean
<1>3. CASE CollectCached
  <2>0. pc[0] = "collect" /\ Reuses(0) /\ ~Fore BY <1>3 DEF CollectCached, Rank0, Reuses, Fore
  <2>1. Live(at[0]) /\ cache[at[0]] = "READY"
    <3>1. Live(at[0]) BY <1>t, <2>0 DEF Live, Written
    <3> QED BY <1>c, <1>t, <2>0, <3>1 DEF CachesExact, Reuses
  <2>2. Rank0("collect", "sync3", FALSE) /\ UNCHANGED <<cache, depth, queue, fault, repack>>
    BY <1>3, <1>f, <2>1 DEF CollectCached, PoisonWhen, buffer
  <2>3. /\ pc'[0] = "sync3" /\ UNCHANGED <<policy, at, phase>> /\ Fore' = Fore
    BY <2>2, Rank0Facts
  <2>4. NoErrors' /\ Agreed' BY <1>c, <1>u, <2>2, OwnerClean DEF NoErrors
  <2>5. \A l \in Layers : (Live(l)' <=> Live(l)) /\ (Written(l)' <=> Written(l))
    BY <2>0, <2>3 DEF Live, Written
  <2>6. Idle' BY <2>0, <2>3 DEF Idle
  <2>7. CachesExact'
    <3>1. depth[at[0]] = 1 BY <1>c, <1>t, <2>0, <2>1 DEF CachesExact, Reuses
    <3> QED BY <1>c, <2>2, <2>3, <2>5, <3>1 DEF CachesExact
  <2>8. WindowExact' BY <1>c, <1>u, <2>3, <2>5 DEF WindowExact
  <2> QED BY <2>4, <2>6, <2>7, <2>8 DEF Clean
<1>4. CASE CollectTask
  <2>0. pc[0] = "collect" /\ ~Reuses(0) /\ queue = << >> BY <1>4 DEF CollectTask, Rank0
  <2>a. Caches(0) => Fore /\ cache[at[0]] = "EMPTY"
    <3>1. Caches(0) => Fore /\ ~Live(at[0])
      BY <1>t, <2>0 DEF Caches, Fore, Live, Passed
    <3> QED BY <1>c, <1>t, <3>1 DEF CachesExact
  <2>1. /\ Rank0("collect", "sync3", FALSE) /\ ~fault'
        /\ depth' = Counted(at[0])
        /\ cache' = IF Caches(0) THEN [cache EXCEPT ![at[0]] = "READY"] ELSE cache
        /\ UNCHANGED <<queue, repack>>
    BY <1>4, <1>c, <1>f, <2>a DEF CollectTask, CacheOutput, buffer
  <2>2. /\ pc'[0] = "sync3" /\ UNCHANGED <<policy, at, phase>> /\ Fore' = Fore /\ ~err'[0]
    BY <2>1, Rank0Facts
  <2>3. NoErrors' /\ Agreed' BY <1>c, <1>u, <2>1, OwnerClean DEF NoErrors
  <2>4. \A l \in Layers : Written(l)' <=> Written(l) BY <2>0, <2>2 DEF Written
  <2>5. \A l \in Layers : Live(l)' <=> Live(l) \/ (l = at[0])
    BY <1>t, <2>0, <2>2, <2>4 DEF Live, Passed, Written
  <2>6. Idle' BY <1>c, <2>0, <2>1, <2>2 DEF Idle
  <2>7. ~Fore => policy[0] = "recompute"
    BY <2>0, Phases, Facts DEF Fore, Reuses, TypeOK, Policies
  <2>8. Fore /\ policy[0] = "retain" => Caches(0) BY Phases DEF Fore, Caches
  <2>9. \A l \in Layers :
          cache'[l] = IF policy'[0] = "retain" /\ Live(l)' THEN "READY" ELSE "EMPTY"
    <3>1. CASE Caches(0)
      <4>1. \A l \in Layers : cache'[l] = IF l = at[0] THEN "READY" ELSE cache[l]
        BY <2>1, <3>1 DEF TypeOK
      <4>2. policy[0] = "retain" BY <3>1 DEF Caches
      <4> QED BY <1>c, <2>2, <2>5, <4>1, <4>2 DEF CachesExact
    <3>2. CASE ~Caches(0)
      <4>1. policy[0] # "retain" BY <2>7, <2>8, <3>2
      <4> QED BY <1>c, <2>1, <2>2, <3>2, <4>1 DEF CachesExact
    <3> QED BY <3>1, <3>2
  <2>10. \A l \in Layers :
          \/ policy'[0] # "recompute" /\ Live(l)'
          \/ ~Fore' /\ l = at'[0] /\ pc'[0] \in {"sync3", "recomputed", "grad", "compute"}
          => depth'[l] = 1
    <3>1. \A l \in Layers : l # at[0] => depth'[l] = depth[l] BY <2>1 DEF Counted, TypeOK
    <3>2. policy[0] # "recompute" \/ ~Fore => Saves
      BY <2>0, <2>8, Phases, Facts DEF Saves, Fore, TypeOK, Policies
    <3>3. Saves => depth'[at[0]] = 1
      <4>1. depth[at[0]] \in 0 .. 1 BY <1>t DEF TypeOK
      <4>2. depth'[at[0]] = IF Saves /\ depth[at[0]] = 0 THEN 1 ELSE depth[at[0]]
        BY <1>t, <2>1 DEF Counted, TypeOK
      <4> QED BY <4>1, <4>2
    <3> QED BY <1>c, <2>2, <2>5, <3>1, <3>2, <3>3 DEF CachesExact
  <2>11. CachesExact' BY <2>9, <2>10 DEF CachesExact
  <2>12. WindowExact' BY <1>c, <1>u, <2>2, <2>4 DEF WindowExact
  <2> QED BY <2>3, <2>6, <2>11, <2>12 DEF Clean
<1> QED BY <1>1, <1>2, <1>3, <1>4

\* The backward finds its entry and adds the gradients of this batch.
LEMMA BackwardClean ==
    ASSUME TypeOK, SyncInv, DataInv, BufferInv, Clean, failures' = 0,
           Compute \/ Pop \/ Gemm \/ SubmitRepack
    PROVE  Clean'
<1>f. ~Fails BY CleanCount
<1>t. /\ at[0] \in Nat /\ at[0] \in Layers /\ at[0] > 0 /\ at[0] <= NumLayers /\ NumLayers \in Nat
      /\ \A l \in Layers : l \in Nat /\ l > 0 /\ l <= NumLayers
  BY Phases, Facts
<1>c. NoErrors /\ Agreed /\ CachesExact /\ WindowExact /\ ~fault
  BY DEF Clean, NoErrors
<1>u. UNCHANGED <<alone, fault, batch, since, queue>>
  BY DEF Compute, Pop, Gemm, SubmitRepack, tasks, history
<1>1. CASE Compute
  <2>0. pc[0] = "compute" BY <1>1 DEF Compute, Rank0, AbortBackward
  <2>a. ~Fore BY <2>0, Phases DEF Fore
  <2>1. depth[at[0]] = 1 BY <1>c, <1>t, <2>0, <2>a DEF CachesExact
  <2>2. /\ Rank0("compute", "pop", FALSE)
        /\ adding' = open[at[0]] /\ UNCHANGED <<cache, depth, open, grads>>
        /\ \A l \in Layers : repack'[l] = repack[l] \/ repack'[l] = "off"
    <3>1. PICK failed \in BOOLEAN :
            /\ JoinRepack(at[0], failed)
            /\ \/ failed
               \/ /\ Rank0("compute", "pop", FALSE)
                  /\ adding' = open[at[0]] /\ UNCHANGED <<cache, depth, open>>
      <4>1. depth[at[0]] # 0 BY <2>1
      <4> QED BY <1>1, <4>1, Zenon DEF Compute
    <3>2. ~failed BY <1>t, <1>c, <3>1 DEF JoinRepack, NoErrors
    <3>3. \A l \in Layers : repack'[l] = repack[l] \/ repack'[l] = "off" BY <3>1 DEF JoinRepack, TypeOK
    <3> QED BY <1>1, <3>1, <3>2, <3>3 DEF Compute
  <2>3. /\ pc'[0] = "pop" /\ UNCHANGED <<policy, at, phase>> /\ Fore' = Fore
    BY <2>2, Rank0Facts
  <2>4. NoErrors' /\ Agreed' BY <1>c, <1>u, <2>2, OwnerClean DEF NoErrors
  <2>5. \A l \in Layers : (Live(l)' <=> Live(l)) /\ (Written(l)' <=> Written(l))
    BY <2>0, <2>a, <2>3 DEF Live, Written
  <2>6. Idle' BY <2>a, <2>3 DEF Idle
  <2>7. CachesExact' BY <1>c, <2>2, <2>3, <2>5 DEF CachesExact
  <2>8. WindowExact' BY <1>c, <1>u, <2>2, <2>3, <2>5 DEF WindowExact
  <2> QED BY <2>4, <2>6, <2>7, <2>8 DEF Clean
<1>2. CASE Pop
  <2>0. pc[0] = "pop" BY <1>2 DEF Pop
  <2>a. ~Fore BY <2>0, Phases DEF Fore
  <2>1. saved[at[0]] # 0
    <3>1. saved[at[0]] = batch
      BY <1>t, <2>0, <2>a DEF DataInv, SavedInv
    <3>2. batch # 0 BY Facts DEF SyncInv, TypeOK, Batches
    <3> QED BY <3>1, <3>2
  <2>2. /\ Rank0("pop", "gemm", FALSE)
        /\ UNCHANGED <<cache, depth, open, adding, grads, repack>>
    BY <1>2, <1>f, <2>1 DEF Pop
  <2>3. /\ pc'[0] = "gemm" /\ UNCHANGED <<policy, at, phase>> /\ Fore' = Fore
    BY <2>2, Rank0Facts
  <2>4. NoErrors' /\ Agreed' BY <1>c, <1>u, <2>2, OwnerClean DEF NoErrors
  <2>5. \A l \in Layers : (Live(l)' <=> Live(l)) /\ (Written(l)' <=> Written(l))
    BY <2>0, <2>a, <2>3 DEF Live, Written
  <2>6. Idle' BY <2>a, <2>3 DEF Idle
  <2>7. CachesExact' BY <1>c, <2>2, <2>3, <2>5 DEF CachesExact
  <2>8. WindowExact' BY <1>c, <1>u, <2>0, <2>2, <2>3, <2>5 DEF WindowExact
  <2> QED BY <2>4, <2>6, <2>7, <2>8 DEF Clean
<1>3. CASE Gemm
  <2>1. /\ Rank0("gemm", "sync5", FALSE)
        /\ grads' = [grads EXCEPT ![at[0]] = {popped} \cup IF adding THEN @ ELSE {}]
        /\ open' = [open EXCEPT ![at[0]] = TRUE]
        /\ depth' = [depth EXCEPT ![at[0]] = @ - 1]
        /\ cache' = [cache EXCEPT ![at[0]] = IF \/ @ = "POISONED"
                                                \/ FALSE /\ policy[0] = "retain"
                                             THEN "POISONED" ELSE "EMPTY"]
        /\ UNCHANGED repack
    BY <1>3, <1>f DEF Gemm, ClearOutput, buffer
  <2>2. /\ pc[0] = "gemm" /\ pc'[0] = "sync5" /\ UNCHANGED <<policy, at, phase>> /\ Fore' = Fore
    BY <2>1, Rank0Facts
  <2>a. ~Fore BY <2>2, Phases DEF Fore
  <2>3. NoErrors' /\ Agreed' BY <1>c, <1>u, <2>1, OwnerClean DEF NoErrors
  <2>4. \A l \in Layers : /\ Written(l)' <=> Written(l) \/ l = at[0]
                          /\ Live(l)' <=> Live(l) /\ l # at[0]
                          /\ l = at[0] => ~Written(l) /\ Live(l)
    BY <1>t, <2>2, <2>a DEF Live, Written
  <2>5. Idle' BY <2>a, <2>2 DEF Idle
  <2>6. CachesExact'
    <3>1. \A l \in Layers : l # at[0] => cache'[l] = cache[l] /\ depth'[l] = depth[l]
      BY <2>1 DEF TypeOK
    <3>2. cache'[at[0]] = "EMPTY"
      <4>1. cache[at[0]] # "POISONED" BY <1>c, <1>t DEF CachesExact
      <4> QED BY <1>t, <2>1, <4>1 DEF TypeOK
    <3>3. \A l \in Layers :
            cache'[l] = IF policy'[0] = "retain" /\ Live(l)' THEN "READY" ELSE "EMPTY"
      BY <1>c, <2>2, <2>4, <3>1, <3>2 DEF CachesExact
    <3>4. \A l \in Layers : policy'[0] # "recompute" /\ Live(l)' => depth'[l] = 1
      BY <1>c, <2>2, <2>4, <3>1 DEF CachesExact
    <3> QED BY <2>2, <3>3, <3>4 DEF CachesExact
  <2>7. WindowExact'
    <3>1. \A l \in Layers : l # at[0] => open'[l] = open[l] /\ grads'[l] = grads[l]
      BY <2>1 DEF TypeOK
    <3>2. popped = batch BY <2>2 DEF DataInv, BackwardMatches
    <3>3. adding = open[at[0]] /\ (open[at[0]] <=> since # {}) /\ (open[at[0]] => grads[at[0]] = since)
      BY <1>c, <1>t, <2>2, <2>4 DEF WindowExact
    <3>4. open'[at[0]] /\ grads'[at[0]] = {popped} \cup IF adding THEN grads[at[0]] ELSE {}
      BY <1>t, <2>1 DEF TypeOK
    <3>5. grads'[at[0]] = since \cup {batch}
      <4>1. CASE open[at[0]]
        <5>1. adding /\ grads[at[0]] = since BY <3>3, <4>1
        <5> QED BY <3>2, <3>4, <5>1
      <4>2. CASE ~open[at[0]]
        <5>1. ~adding /\ since = {} BY <3>3, <4>2
        <5> QED BY <3>2, <3>4, <5>1
      <4> QED BY <4>1, <4>2
    <3> QED BY <1>c, <1>u, <2>2, <2>4, <3>1, <3>4, <3>5 DEF WindowExact
  <2> QED BY <2>3, <2>5, <2>6, <2>7 DEF Clean
<1>4. CASE SubmitRepack
  <2>0. pc[0] = "repack" BY <1>4 DEF SubmitRepack
  <2>a. ~Fore BY <2>0, Phases DEF Fore
  <2>1. /\ Rank0("repack", "sync6", FALSE)
        /\ UNCHANGED <<cache, depth, open, grads>>
        /\ \A l \in Layers : repack'[l] # "failed"
    <3>1. at[0] > 1 => at[0] - 1 \in Layers BY <1>t DEF Layers
    <3>2. at[0] > 1 => repack[at[0] - 1] # "failed" BY <1>c, <3>1 DEF NoErrors
    <3>3. /\ Rank0("repack", "sync6", FALSE) /\ open' = open
          /\ repack' = repack \/ repack' = [repack EXCEPT ![at[0] - 1] = "running"]
      BY <1>4, <1>f, <3>2 DEF SubmitRepack, buffer
    <3>4. \A l \in Layers : repack'[l] # "failed" BY <1>c, <3>3 DEF NoErrors, TypeOK
    <3> QED BY <1>4, <3>3, <3>4 DEF SubmitRepack, caches
  <2>2. /\ pc'[0] = "sync6" /\ UNCHANGED <<policy, at, phase>> /\ Fore' = Fore
    BY <2>1, Rank0Facts
  <2>3. NoErrors' /\ Agreed' BY <1>c, <1>u, <2>1, OwnerClean DEF NoErrors
  <2>4. \A l \in Layers : (Live(l)' <=> Live(l)) /\ (Written(l)' <=> Written(l))
    BY <2>0, <2>a, <2>2 DEF Live, Written
  <2>5. Idle' BY <2>a, <2>2 DEF Idle
  <2>6. CachesExact' BY <1>c, <2>1, <2>2, <2>4 DEF CachesExact
  <2>7. WindowExact' BY <1>c, <1>u, <2>1, <2>2, <2>4 DEF WindowExact
  <2> QED BY <2>3, <2>5, <2>6, <2>7 DEF Clean
<1> QED BY <1>1, <1>2, <1>3, <1>4

\* A run without failures stays clean.
LEMMA CleanStep ==
    ASSUME TypeOK, SyncInv, DataInv, BufferInv, CleanInv, [Next]_vars
    PROVE  CleanInv'
<1> SUFFICES ASSUME failures' = 0 PROVE Clean' BY DEF CleanInv
<1>f. ~Fails BY CleanCount
<1>t. /\ at[0] \in Nat /\ at[0] \in Layers /\ at[0] > 0 /\ at[0] <= NumLayers
      /\ \A l \in Layers : l \in Nat /\ l > 0 /\ l <= NumLayers
  BY Phases, Facts
<1>0. Clean
  <2>1. failures' = failures \/ Fails
    BY DEF Next, vars, Collective, Agree, Gather, Submitted, GpuSync, Collected, RecomputeSync, GatherGrads,
       Computed, RepackSubmitted, Local, Enter, Gpu, Recomputed, OwnerStep, Prepare, Refresh, Submit,
       CollectCached, CollectTask, Compute, Pop, Gemm, SubmitRepack, RunTask, RepackEnds, Accumulate,
       OptimizerStep, Retry, StartBatch, NoFailure, history
  <2> QED BY <1>f, <2>1 DEF CleanInv
<1>1. CASE RunTask \/ (\E l \in Layers : RepackEnds(l)) \/ UNCHANGED vars
  <2>1. UNCHANGED <<policy, pc, at, phase, err, alone, cache, depth, open, adding, grads, batch, since>>
    BY <1>1 DEF RunTask, RepackEnds, vars, ranks, caches, window, history
  <2>2. /\ Fore' <=> Fore
        /\ TaskOut' <=> TaskOut
        /\ Same(policy)' <=> Same(policy)
        /\ \A l \in Layers : (Live(l)' <=> Live(l)) /\ (Written(l)' <=> Written(l))
    BY <2>1 DEF Fore, TaskOut, Reuses, Live, Passed, Written, Same
  <2>3. /\ ~fault'
        /\ \A l \in Layers : repack'[l] = repack[l] \/ repack'[l] = "off"
        /\ queue = << >> => queue' = << >>
    <3>1. CASE RunTask BY <1>0, <1>f, <3>1 DEF RunTask, buffer, Clean, NoErrors
    <3>2. ASSUME NEW l \in Layers, RepackEnds(l)
          PROVE  /\ UNCHANGED <<fault, queue>>
                 /\ \A k \in Layers : repack'[k] = repack[k] \/ repack'[k] = "off"
      <4>1. repack' = [repack EXCEPT ![l] = "off"] BY <1>f, <3>2 DEF RepackEnds
      <4> QED BY <3>2, <4>1 DEF RepackEnds, tasks, TypeOK
    <3>3. CASE UNCHANGED vars BY <1>0, <3>3 DEF vars, tasks, buffer, Clean, NoErrors
    <3> QED BY <1>1, <1>0, <3>1, <3>2, <3>3 DEF Clean, NoErrors
  <2>4. NoErrors' BY <1>0, <2>1, <2>3 DEF Clean, NoErrors
  <2>5. Agreed' BY <1>0, <2>1, <2>2 DEF Clean, Agreed, All
  <2>6. Idle' BY <1>0, <2>1, <2>2, <2>3 DEF Clean, Idle
  <2>7. CachesExact' BY <1>0, <2>1, <2>2 DEF Clean, CachesExact
  <2>8. WindowExact' BY <1>0, <2>1, <2>2 DEF Clean, WindowExact
  <2> QED BY <2>4, <2>5, <2>6, <2>7, <2>8 DEF Clean
<1>2. CASE Accumulate \/ OptimizerStep \/ Retry
  <2>1. StartBatch BY <1>2 DEF Accumulate, OptimizerStep, Retry
  <2>2. /\ UNCHANGED <<policy, err, alone, fault, queue, cache, grads, repack>>
        /\ \A r \in Ranks : pc'[r] = "enter"
        /\ at'[0] = 1 /\ phase'[0] = First(0)
    BY <2>1, Facts DEF StartBatch, caches, tasks, buffer
  <2>3. /\ Fore' /\ pc'[0] = "enter"
        /\ \A l \in Layers : ~Live(l)' /\ ~Written(l)'
    <3>1. Fore' /\ pc'[0] = "enter" BY <2>2, Facts DEF Fore, First
    <3> QED BY <1>t, <2>2, <3>1 DEF Live, Passed, Written
  <2>4. NoErrors' BY <1>0, <2>2 DEF Clean, NoErrors
  <2>5. Agreed'
    <3>1. Same(policy)' <=> Same(policy) BY <2>2 DEF Same
    <3> QED BY <2>2, <2>3, <3>1 DEF Agreed, All
  <2>6. CASE Ended
    <3>1. pc[0] = "end" /\ ~Fore /\ at[0] = 1 BY <2>6, Phases, Facts DEF Ended, Fore
    <3>2. \A l \in Layers : Written(l) /\ ~Live(l) BY <1>t, <3>1 DEF Written, Live
    <3>3. Idle'
      <4>1. queue = << >> BY <3>1 DEF DataInv, QueueInv, TaskOut, Tasked
      <4>2. \A l \in Layers : repack[l] # "running" BY <3>1 DEF BufferInv, RepackInv, Popped
      <4> QED BY <2>2, <4>1, <4>2 DEF Idle
    <3>4. CachesExact' BY <1>0, <2>2, <2>3, <3>2 DEF Clean, CachesExact
    <3>5. \A l \in Layers : open[l] /\ grads[l] = since \cup {batch}
      BY <1>0, <3>2 DEF Clean, WindowExact
    <3>6. \/ since' = since \cup {batch} /\ open' = open
          \/ since' = {} /\ open' = [l \in Layers |-> FALSE]
      <4>1. ~Retry BY <3>1, Facts DEF Retry
      <4> QED BY <1>2, <4>1 DEF Accumulate, OptimizerStep
    <3>7. WindowExact' BY <2>2, <2>3, <3>5, <3>6 DEF WindowExact
    <3> QED BY <2>4, <2>5, <3>3, <3>4, <3>7 DEF Clean
  <2>7. CASE Retry
    <3>1. pc[0] = "raised" /\ Fore /\ at[0] = 1
      <4>1. \A r \in Ranks : pc[r] = "raised" BY <2>7 DEF Retry
      <4> QED BY <1>0, <4>1, Facts DEF Clean, Agreed
    <3>2. \A l \in Layers : ~Written(l) /\ ~Live(l) BY <1>t, <3>1 DEF Written, Live, Passed
    <3>3. Idle'
      <4>1. queue = << >> BY <1>0, <3>1 DEF Clean, Idle, TaskOut, Tasked
      <4> QED BY <1>0, <2>2, <3>1, <4>1 DEF Clean, Idle
    <3>4. CachesExact' BY <1>0, <2>2, <2>3, <3>2 DEF Clean, CachesExact
    <3>5. UNCHANGED <<open, since>> BY <2>7 DEF Retry
    <3>6. WindowExact' BY <1>0, <2>2, <2>3, <3>2, <3>5 DEF Clean, WindowExact
    <3> QED BY <2>4, <2>5, <3>3, <3>4, <3>6 DEF Clean
  <2> QED BY <1>2, <2>6, <2>7 DEF Accumulate, OptimizerStep
<1> QED BY <1>0, <1>1, <1>2, MoveClean, ForwardClean, BackwardClean DEF Next, OwnerStep

\* Nothing has failed at first.
LEMMA InitClean == Init => CleanInv
<1> SUFFICES ASSUME Init PROVE Clean BY DEF CleanInv
<1>1. /\ pc[0] = "enter" /\ at[0] = 1 /\ phase[0] = First(0)
      /\ \A r \in Ranks : pc[r] = "enter" /\ ~err[r]
  BY Facts DEF Init
<1>2. Fore BY <1>1 DEF Fore, First
<1>3. \A l \in Layers : ~Live(l) /\ ~Written(l) BY <1>1, <1>2, Facts DEF Live, Passed, Written
<1>4. NoErrors BY <1>1 DEF Init, NoErrors
<1>5. Agreed BY <1>1, <1>2 DEF Agreed, All
<1>6. Idle BY DEF Init, Idle
<1>7. CachesExact BY <1>1, <1>2, <1>3 DEF Init, CachesExact
<1>8. WindowExact BY <1>1, <1>3 DEF Init, WindowExact
<1> QED BY <1>4, <1>5, <1>6, <1>7, <1>8 DEF Clean

-----------------------------------------------------------------------------
(* The theorems *)

\* The whole invariant holds in every state.
THEOREM Invariance == Spec => []IInv
<1>1. Init => IInv BY InitSync, InitData, InitWindow, InitBuffer, InitClean DEF IInv
<1>2. IInv /\ [Next]_vars => IInv'
  BY TypeStep, SyncStep, DataStep, WindowStep, BufferStep, CleanStep DEF IInv
<1> QED BY <1>1, <1>2, PTL DEF Spec

\* What rank 0 scatters is the output of this layer for this batch, whatever a failed batch has
\* left in the task queue, in the shared output buffer or in a checkpoint cache.
THEOREM ScatterIsCurrent == Spec => []ResultMatches
<1>1. IInv => ResultMatches BY DEF IInv, DataInv
<1> QED BY <1>1, Invariance, PTL

\* The backward of a layer uses the activations that the forward of this batch has left.
THEOREM ActivationsCurrent == Spec => []BackwardMatches
<1>1. IInv => BackwardMatches BY DEF IInv, DataInv
<1> QED BY <1>1, Invariance, PTL

\* A window never holds gradients that a failed task may have left half written.
THEOREM WindowStaysClean == Spec => []WindowClean
<1>1. IInv => WindowClean BY Facts DEF IInv, WindowInv, WindowClean
<1> QED BY <1>1, Invariance, PTL

\* With at least two expert layers the backward uses this layer's weights of the last optimizer
\* step.  With one layer nobody else ever takes bwd_bb_owner_layer over, and the weights of an
\* earlier step stay in BufferB.
THEOREM WeightsFresh ==
    ASSUME NumLayers > 1
    PROVE  Spec => []BackwardFresh
<1>1. IInv => BackwardFresh
  <2> SUFFICES ASSUME IInv, pc[0] = "gemm", ~broken
               PROVE  bb.holds = at[0] /\ bb.version = version /\ packed[at[0]] = version
    BY DEF BackwardFresh
  <2>1. Popped /\ ~Fore /\ at[0] \in Layers BY Phases DEF IInv, Popped, Fore
  <2>2. \A l \in Layers : repack[l] # "running" BY <2>1 DEF IInv, BufferInv, RepackInv
  <2>3. bb.holds = bb.owner /\ bb.owner = at[0] BY <2>1, <2>2 DEF IInv, BufferInv, OwnerInv
  <2>4. bb.version = version BY <2>1 DEF IInv, BufferInv, OwnerInv
  <2>5. packed[at[0]] = version BY <2>1 DEF IInv, BufferInv, WeightInv
  <2> QED BY <2>3, <2>4, <2>5
<1> QED BY <1>1, Invariance, PTL

\* Without failures every layer holds the gradients of exactly the batches of the window.
THEOREM GradientsExact == Spec => []GradsExact
<1>1. IInv => GradsExact
  <2> SUFFICES ASSUME IInv, failures = 0, Ended
               PROVE  \A l \in Layers : open[l] /\ grads[l] = since \cup {batch}
    BY DEF GradsExact
  <2>1. pc[0] = "end" /\ ~Fore /\ at[0] = 1 BY Phases, Facts DEF IInv, Ended, Fore
  <2>2. \A l \in Layers : Written(l) BY <2>1, Facts DEF Written
  <2> QED BY <2>2 DEF IInv, CleanInv, Clean, WindowExact
<1> QED BY <1>1, Invariance, PTL

\* Without failures the threads and the task queue never use the worker pool at the same time.
THEOREM PoolHasOneUser == Spec => []PoolExclusive
<1>1. IInv => PoolExclusive
  <2> SUFFICES ASSUME IInv, failures = 0, NEW l \in Layers, repack[l] = "running"
               PROVE  queue = << >> /\ pc[0] # "gemm"
    BY DEF PoolExclusive
  <2>1. Clean BY DEF IInv, CleanInv
  <2>2. ~Fore BY <2>1 DEF Clean, Idle
  <2>3. pc[0] # "raised" /\ ~err[0] BY <2>1, <2>2, Facts DEF Clean, Agreed, NoErrors
  <2>4. ~TaskOut /\ ~Popped
    BY <2>2, <2>3 DEF IInv, BufferInv, RepackInv, TaskOut, Tasked, Popped
  <2> QED BY <2>2, <2>3, <2>4 DEF IInv, DataInv, QueueInv, Popped
<1> QED BY <1>1, Invariance, PTL
=============================================================================
