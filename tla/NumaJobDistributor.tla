------------------------- MODULE NumaJobDistributor -------------------------
(***************************************************************************)
(* NumaJobDistributor (cpu_backend/worker_pool.cpp): one worker thread per *)
(* NUMA node; do_numa_job(f) has each of them run f(node) and returns when *)
(* all have.  The workers allocate their own status cell on their node, so *)
(* the constructor waits at a barrier until every cell exists.  (The       *)
(* variant under USE_NUMA_JOB_DIRECT_WORK is not built.)                   *)
(***************************************************************************)
EXTENDS Integers

CONSTANTS
    NumaCount,    \* numa_count
    MaxJobs       \* bound: jobs in the life of the distributor

ASSUME SizeAssumption == NumaCount \in Nat \ {0} /\ MaxJobs \in Nat

Nodes == 0 .. NumaCount - 1

VARIABLES
    status,       \* status[n]: null until the worker has allocated it
    asleep,       \* the workers that wait on their condition variable
    arrived,      \* number of threads at the barrier ready_bar
    pc, cpc,      \* of the workers, of the thread that owns the distributor
    i,            \* the owner's loop variable
    jobs,         \* number of jobs called
    todo          \* history: the nodes that have still to run compute_func

vars == <<status, asleep, arrived, pc, cpc, i, jobs, todo>>

Init ==
    /\ status = [n \in Nodes |-> "null"] /\ asleep = {} /\ arrived = 0
    /\ pc = [n \in Nodes |-> "start"] /\ cpc = "init"
    /\ i = 0 /\ jobs = 0 /\ todo = {}

Step(n, from, to) == pc[n] = from /\ pc' = [pc EXCEPT ![n] = to]
OwnerStep(from, to) == cpc = from /\ cpc' = to

-----------------------------------------------------------------------------
(* The barrier of the constructor *)

Arrive == arrived' = arrived + 1

\* Mutant: the barrier does not count the owner's thread.
BarrierOpenEarly == arrived >= NumaCount

BarrierOpen == arrived = NumaCount + 1

InitArrive ==
    /\ OwnerStep("init", "barrier") /\ Arrive
    /\ UNCHANGED <<status, asleep, pc, i, jobs, todo>>

InitReturn ==
    /\ BarrierOpen /\ OwnerStep("barrier", "idle")
    /\ UNCHANGED <<status, asleep, arrived, pc, i, jobs, todo>>

\* The worker allocates its status, then goes to the barrier.
WorkerArrive(n) ==
    /\ Step(n, "start", "barrier") /\ Arrive
    /\ status' = [status EXCEPT ![n] = "WAITING"]
    /\ UNCHANGED <<asleep, cpc, i, jobs, todo>>

WorkerReady(n) ==
    /\ BarrierOpen /\ Step(n, "barrier", "loop")
    /\ UNCHANGED <<status, asleep, arrived, cpc, i, jobs, todo>>

-----------------------------------------------------------------------------
(* do_numa_job *)

JobCall ==
    /\ jobs < MaxJobs
    /\ OwnerStep("idle", "dispatch")
    /\ jobs' = jobs + 1 /\ i' = 0 /\ todo' = Nodes
    /\ UNCHANGED <<status, asleep, arrived, pc>>

Dispatch ==
    /\ IF i < NumaCount
       THEN OwnerStep("dispatch", "notify") /\ status' = [status EXCEPT ![i] = "WORKING"] /\ i' = i
       ELSE OwnerStep("dispatch", "wait") /\ i' = 0 /\ UNCHANGED status
    /\ UNCHANGED <<asleep, arrived, pc, jobs, todo>>

\* Mutant: the sleeping worker is not notified.
NotifyForgotten ==
    /\ OwnerStep("notify", "dispatch")
    /\ i' = i + 1
    /\ UNCHANGED <<status, asleep, arrived, pc, jobs, todo>>

Notify ==
    /\ OwnerStep("notify", "dispatch")
    /\ asleep' = asleep \ {i}
    /\ i' = i + 1
    /\ UNCHANGED <<status, arrived, pc, jobs, todo>>

WaitNext ==
    /\ cpc = "wait" /\ i < NumaCount /\ status[i] # "WORKING"
    /\ i' = i + 1
    /\ UNCHANGED <<status, asleep, arrived, pc, cpc, jobs, todo>>

JobReturn ==
    /\ i = NumaCount
    /\ OwnerStep("wait", "idle")
    /\ UNCHANGED <<status, asleep, arrived, pc, i, jobs, todo>>

-----------------------------------------------------------------------------
(* worker_thread *)

\* Mutant: the status is reset before compute_func has run.
StartWorkResets(n) ==
    /\ status[n] = "WORKING" /\ n \notin asleep
    /\ Step(n, "loop", "compute")
    /\ status' = [status EXCEPT ![n] = "WAITING"]
    /\ UNCHANGED <<asleep, arrived, cpc, i, jobs, todo>>

StartWork(n) ==
    /\ status[n] = "WORKING" /\ n \notin asleep
    /\ Step(n, "loop", "compute")
    /\ UNCHANGED <<status, asleep, arrived, cpc, i, jobs, todo>>

Compute(n) ==
    /\ Step(n, "compute", "leave")
    /\ todo' = todo \ {n}
    /\ UNCHANGED <<status, asleep, arrived, cpc, i, jobs>>

Leave(n) ==
    /\ Step(n, "leave", "loop")
    /\ status' = [status EXCEPT ![n] = "WAITING"]
    /\ UNCHANGED <<asleep, arrived, cpc, i, jobs, todo>>

\* Idle for more than 50 ms; status is checked, and stored by the owner, under
\* the worker's mutex.
FallAsleep(n) ==
    /\ pc[n] = "loop" /\ status[n] = "WAITING" /\ n \notin asleep
    /\ asleep' = asleep \cup {n}
    /\ UNCHANGED <<status, arrived, pc, cpc, i, jobs, todo>>

SpuriousWakeup(n) ==
    /\ n \in asleep
    /\ asleep' = asleep \ {n}
    /\ UNCHANGED <<status, arrived, pc, cpc, i, jobs, todo>>

WorkerExit(n) ==
    /\ status[n] = "EXIT" /\ n \notin asleep
    /\ Step(n, "loop", "exit")
    /\ UNCHANGED <<status, asleep, arrived, cpc, i, jobs, todo>>

-----------------------------------------------------------------------------
(* The destructor, when no job is in progress *)

DestroyCall ==
    /\ OwnerStep("idle", "destroy")
    /\ i' = 0
    /\ UNCHANGED <<status, asleep, arrived, pc, jobs, todo>>

StoreExit ==
    /\ IF i < NumaCount
       THEN OwnerStep("destroy", "destroyNotify") /\ status' = [status EXCEPT ![i] = "EXIT"]
       ELSE OwnerStep("destroy", "join") /\ UNCHANGED status
    /\ UNCHANGED <<asleep, arrived, pc, i, jobs, todo>>

NotifyExit ==
    /\ OwnerStep("destroyNotify", "destroy")
    /\ asleep' = asleep \ {i}
    /\ i' = i + 1
    /\ UNCHANGED <<status, arrived, pc, jobs, todo>>

Destroyed ==
    /\ \A n \in Nodes : pc[n] = "exit"
    /\ OwnerStep("join", "destroyed")
    /\ UNCHANGED <<status, asleep, arrived, pc, i, jobs, todo>>

-----------------------------------------------------------------------------

OwnerNext ==
    \/ InitArrive \/ InitReturn
    \/ Dispatch \/ Notify \/ WaitNext \/ JobReturn
    \/ StoreExit \/ NotifyExit \/ Destroyed

WorkerNext(n) ==
    WorkerArrive(n) \/ WorkerReady(n) \/ StartWork(n) \/ Compute(n) \/ Leave(n) \/ WorkerExit(n)

Next ==
    \/ JobCall \/ DestroyCall \/ OwnerNext
    \/ \E n \in Nodes : WorkerNext(n) \/ FallAsleep(n) \/ SpuriousWakeup(n)

Spec == Init /\ [][Next]_vars

\* Every thread that has something to do is scheduled.
FairSpec == Spec /\ WF_vars(OwnerNext) /\ \A n \in Nodes : WF_vars(WorkerNext(n))

-----------------------------------------------------------------------------
(* Properties *)

\* After the constructor's barrier no status cell is null: neither do_numa_job
\* nor the destructor dereferences one that its worker has not allocated.
StatusAllocated ==
    cpc \notin {"init", "barrier"} => \A n \in Nodes : status[n] # "null"

\* do_numa_job implements the fork-join contract: every node runs the function
\* exactly once, between the call and its return.
Fork == INSTANCE ForkJoin
          WITH Parts <- Nodes, todo <- todo, busy <- cpc \in {"dispatch", "notify", "wait"}
JobsComplete == Fork!Spec

\* The constructor, every job and the destructor end: no notification is lost
\* and nobody stays at the barrier.
CallsEnd ==
    /\ <>(cpc \notin {"init", "barrier"})
    /\ cpc = "dispatch" ~> cpc = "idle"
    /\ cpc = "destroy" ~> cpc = "destroyed"
=============================================================================
