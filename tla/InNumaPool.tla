----------------------------- MODULE InNumaPool -----------------------------
(***************************************************************************)
(* The work-stealing pool of one NUMA node (cpu_backend/worker_pool.cpp).  *)
(* The caller of do_work_stealing_job is thread 0 of the pool; it sets up  *)
(* the job, wakes the first worker_count - 1 worker threads, takes tasks   *)
(* from the shared counter curr_ like they do, and spins until every one   *)
(* of them has left the job.  A worker that has been idle for a while      *)
(* sleeps on its own condition variable.                                   *)
(***************************************************************************)
EXTENDS Integers

CONSTANTS
    Total,        \* total_worker_count, the caller included
    TaskNums,     \* the values of task_num that callers pass
    Restricted,   \* the values given to set_restricted_worker_count
    MaxJobs       \* bound: jobs in the life of the pool

ASSUME TotalAssumption == Total \in Nat \ {0}
ASSUME TaskAssumption == TaskNums \subseteq Nat /\ MaxJobs \in Nat
ASSUME RestrictedAssumption == Restricted \subseteq 1 .. Total

Threads == 0 .. Total - 1
Workers == Threads \ {0}
Caller == 0
Tasks == UNION {0 .. n - 1 : n \in TaskNums}

VARIABLES
    status,       \* status[i]: WORKING, WAITING or EXIT
    asleep,       \* the workers that wait on their condition variable
    restricted, workerCount,
    curr, end,    \* the next task, the number of tasks
    pc,           \* per thread
    claimed,      \* the task a thread has taken
    i,            \* the caller's loop variable
    jobs,         \* number of jobs called
    \* history of the present job
    todo,         \* the tasks whose compute_func has not run
    inits, finals \* the threads that have run init_func, finalize_func

job == <<restricted, workerCount, end, jobs>>
history == <<todo, inits, finals>>
vars == <<status, asleep, job, curr, pc, claimed, i, history>>

Init ==
    /\ status = [t \in Threads |-> "WAITING"] /\ asleep = {}
    /\ restricted = Total /\ workerCount = 0 /\ curr = 0 /\ end = 0
    /\ pc = [t \in Threads |-> IF t = Caller THEN "idle" ELSE "loop"]
    /\ claimed = [t \in Threads |-> 0]
    /\ i = 0 /\ jobs = 0
    /\ todo = {} /\ inits = {} /\ finals = {}

Step(t, from, to) == pc[t] = from /\ pc' = [pc EXCEPT ![t] = to]

-----------------------------------------------------------------------------
(* The caller *)

SetRestrictedWorkerCount(n) ==
    /\ pc[Caller] = "idle" /\ n # restricted
    /\ restricted' = n
    /\ UNCHANGED <<status, asleep, workerCount, curr, end, jobs, pc, claimed, i, history>>

\* do_work_stealing_job(_async): the fields of the job.
JobCall(n) ==
    /\ jobs < MaxJobs
    /\ Step(Caller, "idle", "dispatch")
    /\ jobs' = jobs + 1
    /\ workerCount' = IF n < restricted THEN n ELSE restricted
    /\ curr' = 0 /\ end' = n /\ i' = 0
    /\ todo' = 0 .. n - 1 /\ inits' = {} /\ finals' = {}
    /\ UNCHANGED <<status, asleep, restricted, claimed>>

\* The loop over the threads: status under the mutex, then notify_one.
Dispatch ==
    /\ IF i < workerCount
       THEN /\ Step(Caller, "dispatch", "notify")
            /\ status' = [status EXCEPT ![i] = "WORKING"]
       ELSE Step(Caller, "dispatch", "init") /\ UNCHANGED status
    /\ UNCHANGED <<asleep, job, curr, claimed, i, history>>

\* Mutant: the sleeping worker is not notified.
NotifyForgotten ==
    /\ Step(Caller, "notify", "dispatch")
    /\ i' = i + 1
    /\ UNCHANGED <<status, asleep, job, curr, claimed, history>>

Notify ==
    /\ Step(Caller, "notify", "dispatch")
    /\ asleep' = asleep \ {i}
    /\ i' = i + 1
    /\ UNCHANGED <<status, job, curr, claimed, history>>

\* Mutant: wait looks at the counter, not at the workers.
StillWorkingByCounter(t) == status[t] = "WORKING" /\ curr < end

\* wait: spins on one thread after the other.
StillWorking(t) == status[t] = "WORKING"

WaitNext ==
    /\ pc[Caller] = "wait" /\ i < workerCount /\ ~StillWorking(i)
    /\ i' = i + 1
    /\ UNCHANGED <<status, asleep, job, curr, pc, claimed, history>>

\* Mutant: the last worker is not waited for.
JobReturnOneShort ==
    /\ i >= workerCount - 1
    /\ Step(Caller, "wait", "idle")
    /\ UNCHANGED <<status, asleep, job, curr, claimed, i, history>>

JobReturn ==
    /\ i >= workerCount
    /\ Step(Caller, "wait", "idle")
    /\ UNCHANGED <<status, asleep, job, curr, claimed, i, history>>

-----------------------------------------------------------------------------
(* process_tasks, by the caller and by the workers *)

InitFunc(t) ==
    /\ Step(t, "init", "fetch")
    /\ inits' = inits \cup {t}
    /\ UNCHANGED <<status, asleep, job, curr, claimed, i, todo, finals>>

\* The cheap look at the counter, then the fetch_add.
Fetch(t) ==
    /\ Step(t, "fetch", IF end - curr <= 0 THEN "finalize" ELSE "claim")
    /\ UNCHANGED <<status, asleep, job, curr, claimed, i, history>>

\* Mutant: the result of the fetch_add is not compared with the end.
ClaimTaskUnchecked(t) ==
    /\ Step(t, "claim", "compute")
    /\ claimed' = [claimed EXCEPT ![t] = curr]
    /\ curr' = curr + 1
    /\ UNCHANGED <<status, asleep, job, i, history>>

ClaimTask(t) ==
    /\ Step(t, "claim", IF curr >= end THEN "finalize" ELSE "compute")
    /\ claimed' = [claimed EXCEPT ![t] = curr]
    /\ curr' = curr + 1
    /\ UNCHANGED <<status, asleep, job, i, history>>

Compute(t) ==
    /\ Step(t, "compute", "fetch")
    /\ todo' = todo \ {claimed[t]}
    /\ UNCHANGED <<status, asleep, job, curr, claimed, i, inits, finals>>

Finalize(t) ==
    /\ Step(t, "finalize", "leave")
    /\ finals' = finals \cup {t}
    /\ UNCHANGED <<status, asleep, job, curr, claimed, i, todo, inits>>

\* The last store.  The caller goes on to wait().
Leave(t) ==
    /\ Step(t, "leave", IF t = Caller THEN "wait" ELSE "loop")
    /\ status' = [status EXCEPT ![t] = "WAITING"]
    /\ i' = IF t = Caller THEN 0 ELSE i
    /\ UNCHANGED <<asleep, job, curr, claimed, history>>

-----------------------------------------------------------------------------
(* worker_thread.  A worker that spins on WAITING takes no step. *)

StartWork(t) ==
    /\ status[t] = "WORKING" /\ t \notin asleep
    /\ Step(t, "loop", "init")
    /\ UNCHANGED <<status, asleep, job, curr, claimed, i, history>>

\* Idle for more than 50 ms: it holds the mutex from its check of the status
\* until it sleeps, and the others store the status under the same mutex.
FallAsleep(t) ==
    /\ pc[t] = "loop" /\ status[t] = "WAITING" /\ t \notin asleep
    /\ asleep' = asleep \cup {t}
    /\ UNCHANGED <<status, job, curr, pc, claimed, i, history>>

\* The standard allows a wait to return without a notification; a worker whose
\* status is still WAITING goes back to sleep.
SpuriousWakeup(t) ==
    /\ t \in asleep
    /\ asleep' = asleep \ {t}
    /\ UNCHANGED <<status, job, curr, pc, claimed, i, history>>

WorkerExit(t) ==
    /\ status[t] = "EXIT" /\ t \notin asleep
    /\ Step(t, "loop", "exit")
    /\ UNCHANGED <<status, asleep, job, curr, claimed, i, history>>

-----------------------------------------------------------------------------
(* The destructor, when no job is in progress *)

DestroyCall ==
    /\ Step(Caller, "idle", "destroy")
    /\ i' = 0
    /\ UNCHANGED <<status, asleep, job, curr, claimed, history>>

StoreExit ==
    /\ IF i < Total
       THEN Step(Caller, "destroy", "destroyNotify") /\ status' = [status EXCEPT ![i] = "EXIT"]
       ELSE Step(Caller, "destroy", "join") /\ UNCHANGED status
    /\ UNCHANGED <<asleep, job, curr, claimed, i, history>>

NotifyExit ==
    /\ Step(Caller, "destroyNotify", "destroy")
    /\ asleep' = asleep \ {i}
    /\ i' = i + 1
    /\ UNCHANGED <<status, job, curr, claimed, history>>

Destroyed ==
    /\ \A t \in Workers : pc[t] = "exit"
    /\ Step(Caller, "join", "destroyed")
    /\ UNCHANGED <<status, asleep, job, curr, claimed, i, history>>

-----------------------------------------------------------------------------

ProcessTasks(t) ==
    InitFunc(t) \/ Fetch(t) \/ ClaimTask(t) \/ Compute(t) \/ Finalize(t) \/ Leave(t)

CallerStep ==
    \/ Dispatch \/ Notify \/ ProcessTasks(Caller) \/ WaitNext \/ JobReturn
    \/ StoreExit \/ NotifyExit \/ Destroyed

WorkerStep(t) == StartWork(t) \/ ProcessTasks(t) \/ WorkerExit(t)

Next ==
    \/ \E n \in Restricted : SetRestrictedWorkerCount(n)
    \/ \E n \in TaskNums : JobCall(n)
    \/ DestroyCall
    \/ CallerStep
    \/ \E t \in Workers : WorkerStep(t) \/ FallAsleep(t) \/ SpuriousWakeup(t)

Spec == Init /\ [][Next]_vars

\* Every thread that has something to do is scheduled.
FairSpec == Spec /\ WF_vars(CallerStep) /\ \A t \in Workers : WF_vars(WorkerStep(t))

-----------------------------------------------------------------------------
(* Properties *)

InJob == {"init", "fetch", "claim", "compute", "finalize", "leave"}

\* Every variable holds a value of its kind; the shared counter overshoots the
\* number of tasks by at most one per thread.
TypeOK ==
    /\ status \in [Threads -> {"WORKING", "WAITING", "EXIT"}]
    /\ asleep \subseteq Workers
    /\ restricted \in 1 .. Total /\ workerCount \in 0 .. Total
    /\ end \in Nat /\ curr \in 0 .. end + Total
    /\ pc \in [Threads -> InJob \cup {"idle", "dispatch", "notify", "wait", "loop", "exit",
                                      "destroy", "destroyNotify", "join", "destroyed"}]
    /\ claimed \in [Threads -> Nat] /\ i \in 0 .. Total /\ jobs \in 0 .. MaxJobs
    /\ todo \subseteq 0 .. end - 1 /\ inits \subseteq Threads /\ finals \subseteq Threads

\* Two threads never compute the same task, and none computes a task past the
\* end of the job or a task of another job.
TasksDistinct ==
    \A t \in Threads : pc[t] = "compute" =>
        /\ claimed[t] \in todo
        /\ \A u \in Threads \ {t} : pc[u] = "compute" => claimed[u] # claimed[t]

\* While the caller sets up a job or has none, no worker is inside one: the
\* plain fields of the job are never written while somebody reads them.  And
\* when a job has returned, every thread that was given it has run init_func
\* and finalize_func, also one that woke up after the last task was taken.
Quiescent ==
    /\ pc[Caller] \in {"idle", "destroy", "destroyNotify", "join", "destroyed"} =>
          \A t \in Workers : pc[t] \notin InJob /\ status[t] # "WORKING"
    /\ pc[Caller] = "idle" /\ jobs > 0 =>
          inits = finals /\ inits = {Caller} \cup 0 .. workerCount - 1

\* The pool implements the fork-join contract: every task of a job runs
\* exactly once, between the call and its return.
Fork == INSTANCE ForkJoin
          WITH Parts <- Tasks, todo <- todo,
               busy <- pc[Caller] \in InJob \cup {"dispatch", "notify", "wait"}
JobsComplete == Fork!Spec

\* Every job and the destructor end: no notification is lost.
CallsEnd ==
    /\ pc[Caller] = "dispatch" ~> pc[Caller] = "idle"
    /\ pc[Caller] = "destroy" ~> pc[Caller] = "destroyed"
=============================================================================
