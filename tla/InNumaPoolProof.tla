--------------------------- MODULE InNumaPoolProof ---------------------------
(***************************************************************************)
(* The safety of InNumaPool, proved for every number of threads, every set *)
(* of task counts, every restriction of the workers and any number of      *)
(* jobs: no task is computed twice, no worker is inside a job that nobody  *)
(* runs, and do_work_stealing_job implements the fork-join contract.       *)
(***************************************************************************)
EXTENDS InNumaPool, FiniteSetTheorems, TLAPS

-----------------------------------------------------------------------------
(* The inductive invariant *)

InCall == {"dispatch", "notify", "wait"}
InDestroy == {"destroy", "destroyNotify", "join", "destroyed"}

\* TypeOK without the bound on the counter, and the range of the caller's loops.
TypeInv ==
    /\ status \in [Threads -> {"WORKING", "WAITING", "EXIT"}]
    /\ asleep \subseteq Workers
    /\ restricted \in 1 .. Total /\ workerCount \in 0 .. Total
    /\ end \in Nat /\ curr \in Nat
    /\ pc \in [Threads -> InJob \cup {"idle", "loop", "exit"} \cup InCall \cup InDestroy]
    /\ claimed \in [Threads -> Nat] /\ i \in 0 .. Total /\ jobs \in 0 .. MaxJobs
    /\ todo \subseteq 0 .. end - 1 /\ inits \subseteq Threads /\ finals \subseteq Threads
    /\ pc[Caller] \in InJob \cup {"idle"} \cup InCall \cup InDestroy
    /\ pc[Caller] = "dispatch" => i <= workerCount
    /\ pc[Caller] = "notify" => i < workerCount
    /\ pc[Caller] = "destroyNotify" => i < Total

\* What thread t has run of the job, by its position in process_tasks.
Ran(t) ==
    /\ pc[t] = "init" => t \notin inits /\ t \notin finals
    /\ pc[t] \in {"fetch", "claim", "compute", "finalize"} => t \in inits /\ t \notin finals
    /\ pc[t] = "leave" => t \in inits /\ t \in finals

\* A worker outside the job, with the job, or through with it.
Out(w) == status[w] = "WAITING" /\ pc[w] = "loop" /\ w \notin inits /\ w \notin finals
Given(w) ==
    /\ status[w] = "WORKING"
    /\ \/ pc[w] = "loop" /\ w \notin inits /\ w \notin finals
       \/ pc[w] \in InJob /\ Ran(w)
Done(w) == status[w] = "WAITING" /\ pc[w] = "loop" /\ w \in inits /\ w \in finals

WorkerOf(w) ==
    /\ pc[Caller] = "idle" =>
         IF jobs = 0 \/ w >= workerCount THEN Out(w) ELSE Done(w)
    /\ pc[Caller] = "dispatch" => IF w < i THEN Given(w) \/ Done(w) ELSE Out(w)
    /\ pc[Caller] = "notify" => IF w <= i THEN Given(w) \/ Done(w) ELSE Out(w)
    /\ pc[Caller] \in InJob => IF w < workerCount THEN Given(w) \/ Done(w) ELSE Out(w)
    /\ pc[Caller] = "wait" =>
         IF w >= workerCount THEN Out(w)
         ELSE IF w < i THEN Done(w) ELSE Given(w) \/ Done(w)
    /\ pc[Caller] \in InDestroy =>
         status[w] \in {"WAITING", "EXIT"} /\ pc[w] \in {"loop", "exit"}

WorkerInv == \A w \in Workers : WorkerOf(w)

CallerInv ==
    /\ Ran(Caller)
    /\ pc[Caller] \in {"dispatch", "notify"} => Caller \notin inits /\ Caller \notin finals
    /\ pc[Caller] = "wait" \/ (pc[Caller] = "idle" /\ jobs > 0) =>
         Caller \in inits /\ Caller \in finals
    /\ pc[Caller] \in InJob \cup InCall => jobs > 0

\* The counter splits the tasks: those from curr on have been taken by nobody,
\* those before it are done or in the hands of one thread; and nobody
\* finishes before the counter has reached the end.
TaskInv ==
    /\ todo \subseteq Tasks
    /\ \A k \in 0 .. end - 1 : k >= curr => k \in todo
    /\ \A k \in todo : k < curr =>
         \E t \in Threads : pc[t] = "compute" /\ claimed[t] = k
    /\ \A t \in Threads :
         pc[t] = "compute" => claimed[t] \in todo /\ claimed[t] < curr
    /\ \A t, u \in Threads :
         pc[t] = "compute" /\ pc[u] = "compute" /\ t # u => claimed[t] # claimed[u]
    /\ \A t \in Threads : pc[t] = "finalize" \/ t \in finals => curr >= end
    /\ pc[Caller] \in {"idle"} \cup InDestroy => todo = {}

\* A thread takes the counter past the end at most once in a job.
Through == {t \in Threads : pc[t] = "finalize" \/ t \in finals}
CounterInv == curr <= end + Cardinality(Through)

IInv == TypeInv /\ CallerInv /\ WorkerInv /\ TaskInv /\ CounterInv

-----------------------------------------------------------------------------
(* The parts of the next-state relation *)

\* The steps of one thread inside process_tasks, of the caller alone and of a
\* worker alone.
LEMMA NextCases ==
    ASSUME [Next]_vars
    PROVE  \/ \E n \in Restricted : SetRestrictedWorkerCount(n)
           \/ \E n \in TaskNums : JobCall(n)
           \/ DestroyCall \/ Dispatch \/ Notify \/ WaitNext \/ JobReturn
           \/ StoreExit \/ NotifyExit \/ Destroyed
           \/ \E t \in Threads : ProcessTasks(t)
           \/ \E w \in Workers : StartWork(w) \/ WorkerExit(w) \/ FallAsleep(w) \/ SpuriousWakeup(w)
           \/ UNCHANGED vars
<1>1. Caller \in Threads /\ Workers \subseteq Threads
  BY TotalAssumption DEF Caller, Threads, Workers
<1> QED BY <1>1 DEF Next, CallerStep, WorkerStep

\* Every step keeps the variables in their sets and the caller's loops in range.
LEMMA TypeStep == ASSUME IInv, [Next]_vars PROVE TypeInv'
<1> USE TotalAssumption, TaskAssumption, RestrictedAssumption
    DEF IInv, TypeInv, Threads, Workers, Caller, InJob, InCall, InDestroy, job, history
<1>1. ASSUME NEW n \in Restricted, SetRestrictedWorkerCount(n) PROVE TypeInv'
  BY <1>1 DEF SetRestrictedWorkerCount
<1>2. ASSUME NEW n \in TaskNums, JobCall(n) PROVE TypeInv'
  BY <1>2 DEF JobCall, Step
<1>3. CASE DestroyCall BY <1>3 DEF DestroyCall, Step
<1>4. CASE Dispatch
  <2>1. status' \in [Threads -> {"WORKING", "WAITING", "EXIT"}] BY <1>4 DEF Dispatch
  <2>2. \/ pc' = [pc EXCEPT ![Caller] = "notify"] /\ i < workerCount
        \/ pc' = [pc EXCEPT ![Caller] = "init"]
    BY <1>4 DEF Dispatch, Step
  <2>3. UNCHANGED <<asleep, restricted, workerCount, end, jobs, curr, claimed, i, todo, inits, finals>>
    BY <1>4 DEF Dispatch
  <2>4. pc'[Caller] \in {"notify", "init"} /\ (pc'[Caller] = "notify" => i < workerCount)
    BY <2>2
  <2>5. pc' \in [Threads -> InJob \cup {"idle", "loop", "exit"} \cup InCall \cup InDestroy]
    BY <2>2
  <2> QED BY <2>1, <2>3, <2>4, <2>5
<1>5. CASE Notify BY <1>5 DEF Notify, Step
<1>6. CASE WaitNext BY <1>6 DEF WaitNext
<1>7. CASE JobReturn BY <1>7 DEF JobReturn, Step
<1>8. CASE StoreExit
  <2>1. status' \in [Threads -> {"WORKING", "WAITING", "EXIT"}] BY <1>8 DEF StoreExit
  <2>2. \/ pc' = [pc EXCEPT ![Caller] = "destroyNotify"] /\ i < Total
        \/ pc' = [pc EXCEPT ![Caller] = "join"]
    BY <1>8 DEF StoreExit, Step
  <2>3. UNCHANGED <<asleep, restricted, workerCount, end, jobs, curr, claimed, i, todo, inits, finals>>
    BY <1>8 DEF StoreExit
  <2>4. pc'[Caller] \in {"destroyNotify", "join"} /\ (pc'[Caller] = "destroyNotify" => i < Total)
    BY <2>2
  <2>5. pc' \in [Threads -> InJob \cup {"idle", "loop", "exit"} \cup InCall \cup InDestroy]
    BY <2>2
  <2> QED BY <2>1, <2>3, <2>4, <2>5
<1>9. CASE NotifyExit BY <1>9 DEF NotifyExit, Step
<1>10. CASE Destroyed BY <1>10 DEF Destroyed, Step
<1>11. ASSUME NEW t \in Threads, ProcessTasks(t) PROVE TypeInv'
  <2>1. CASE InitFunc(t) BY <2>1 DEF InitFunc, Step
  <2>2. CASE Fetch(t) BY <2>2 DEF Fetch, Step
  <2>3. CASE ClaimTask(t) BY <2>3 DEF ClaimTask, Step
  <2>4. CASE Compute(t)
    <3>1. todo' \subseteq 0 .. end' - 1 BY <2>4 DEF Compute
    <3> QED BY <2>4, <3>1 DEF Compute, Step
  <2>5. CASE Finalize(t) BY <2>5 DEF Finalize, Step
  <2>6. CASE Leave(t) BY <2>6 DEF Leave, Step
  <2> QED BY <1>11, <2>1, <2>2, <2>3, <2>4, <2>5, <2>6 DEF ProcessTasks
<1>12. ASSUME NEW w \in Workers,
              StartWork(w) \/ WorkerExit(w) \/ FallAsleep(w) \/ SpuriousWakeup(w)
       PROVE  TypeInv'
  <2>1. CASE StartWork(w) BY <2>1 DEF StartWork, Step
  <2>2. CASE WorkerExit(w) BY <2>2 DEF WorkerExit, Step
  <2>3. CASE FallAsleep(w) BY <2>3 DEF FallAsleep
  <2>4. CASE SpuriousWakeup(w) BY <2>4 DEF SpuriousWakeup
  <2> QED BY <1>12, <2>1, <2>2, <2>3, <2>4
<1>13. CASE UNCHANGED vars BY <1>13 DEF vars
<1> QED BY <1>1, <1>2, <1>3, <1>4, <1>5, <1>6, <1>7, <1>8, <1>9, <1>10, <1>11, <1>12, <1>13,
           NextCases

\* Every step keeps what the caller has run of the job in line with where it is.
LEMMA CallerStepInv == ASSUME IInv, [Next]_vars PROVE CallerInv'
<1> USE TotalAssumption, TaskAssumption
    DEF IInv, TypeInv, CallerInv, Ran, Threads, Workers, Caller, InJob, InCall, InDestroy, job, history
<1>1. ASSUME NEW n \in Restricted, SetRestrictedWorkerCount(n) PROVE CallerInv'
  BY <1>1 DEF SetRestrictedWorkerCount
<1>2. ASSUME NEW n \in TaskNums, JobCall(n) PROVE CallerInv'
  BY <1>2 DEF JobCall, Step
<1>3. CASE DestroyCall BY <1>3 DEF DestroyCall, Step
<1>4. CASE Dispatch BY <1>4 DEF Dispatch, Step
<1>5. CASE Notify BY <1>5 DEF Notify, Step
<1>6. CASE WaitNext BY <1>6 DEF WaitNext
<1>7. CASE JobReturn BY <1>7 DEF JobReturn, Step
<1>8. CASE StoreExit BY <1>8 DEF StoreExit, Step
<1>9. CASE NotifyExit BY <1>9 DEF NotifyExit, Step
<1>10. CASE Destroyed BY <1>10 DEF Destroyed, Step
<1>11. ASSUME NEW t \in Threads, ProcessTasks(t) PROVE CallerInv'
  <2>1. CASE InitFunc(t) BY <2>1 DEF InitFunc, Step
  <2>2. CASE Fetch(t) BY <2>2 DEF Fetch, Step
  <2>3. CASE ClaimTask(t) BY <2>3 DEF ClaimTask, Step
  <2>4. CASE Compute(t) BY <2>4 DEF Compute, Step
  <2>5. CASE Finalize(t) BY <2>5 DEF Finalize, Step
  <2>6. CASE Leave(t) BY <2>6 DEF Leave, Step
  <2> QED BY <1>11, <2>1, <2>2, <2>3, <2>4, <2>5, <2>6 DEF ProcessTasks
<1>12. ASSUME NEW w \in Workers,
              StartWork(w) \/ WorkerExit(w) \/ FallAsleep(w) \/ SpuriousWakeup(w)
       PROVE  CallerInv'
  BY <1>12 DEF StartWork, WorkerExit, FallAsleep, SpuriousWakeup, Step
<1>13. CASE UNCHANGED vars BY <1>13 DEF vars
<1> QED BY <1>1, <1>2, <1>3, <1>4, <1>5, <1>6, <1>7, <1>8, <1>9, <1>10, <1>11, <1>12, <1>13,
           NextCases

\* Every step leaves every worker outside the job, with it or through with it,
\* as the caller's position says.
LEMMA WorkerStepInv == ASSUME IInv, [Next]_vars PROVE WorkerInv'
<1> SUFFICES ASSUME NEW v \in Workers PROVE WorkerOf(v)'
  BY DEF WorkerInv
<1> USE TotalAssumption, TaskAssumption
    DEF IInv, TypeInv, CallerInv, WorkerInv, WorkerOf, Out, Given, Done, Ran,
        Threads, Workers, Caller, InJob, InCall, InDestroy, job, history
<1>1. ASSUME NEW n \in Restricted, SetRestrictedWorkerCount(n) PROVE WorkerOf(v)'
  BY <1>1 DEF SetRestrictedWorkerCount
<1>2. ASSUME NEW n \in TaskNums, JobCall(n) PROVE WorkerOf(v)'
  BY <1>2 DEF JobCall, Step
<1>3. CASE DestroyCall BY <1>3 DEF DestroyCall, Step
<1>4. CASE Dispatch BY <1>4 DEF Dispatch, Step
<1>5. CASE Notify BY <1>5 DEF Notify, Step
<1>6. CASE WaitNext BY <1>6 DEF WaitNext, StillWorking
<1>7. CASE JobReturn BY <1>7 DEF JobReturn, Step
<1>8. CASE StoreExit BY <1>8 DEF StoreExit, Step
<1>9. CASE NotifyExit BY <1>9 DEF NotifyExit, Step
<1>10. CASE Destroyed BY <1>10 DEF Destroyed, Step
<1>11. ASSUME NEW t \in Threads, ProcessTasks(t) PROVE WorkerOf(v)'
  <2>1. CASE InitFunc(t) BY <2>1 DEF InitFunc, Step
  <2>2. CASE Fetch(t) BY <2>2 DEF Fetch, Step
  <2>3. CASE ClaimTask(t) BY <2>3 DEF ClaimTask, Step
  <2>4. CASE Compute(t) BY <2>4 DEF Compute, Step
  <2>5. CASE Finalize(t) BY <2>5 DEF Finalize, Step
  <2>6. CASE Leave(t) BY <2>6 DEF Leave, Step
  <2> QED BY <1>11, <2>1, <2>2, <2>3, <2>4, <2>5, <2>6 DEF ProcessTasks
<1>12. ASSUME NEW w \in Workers,
              StartWork(w) \/ WorkerExit(w) \/ FallAsleep(w) \/ SpuriousWakeup(w)
       PROVE  WorkerOf(v)'
  <2>1. CASE StartWork(w) BY <2>1 DEF StartWork, Step
  <2>2. CASE WorkerExit(w) BY <2>2 DEF WorkerExit, Step
  <2>3. CASE FallAsleep(w) \/ SpuriousWakeup(w) BY <2>3 DEF FallAsleep, SpuriousWakeup
  <2> QED BY <1>12, <2>1, <2>2, <2>3
<1>13. CASE UNCHANGED vars BY <1>13 DEF vars
<1> QED BY <1>1, <1>2, <1>3, <1>4, <1>5, <1>6, <1>7, <1>8, <1>9, <1>10, <1>11, <1>12, <1>13,
           NextCases

\* A step that touches neither the tasks nor the threads that hold one keeps
\* the split of the tasks.
LEMMA TaskFrame ==
    ASSUME IInv, TypeInv', UNCHANGED <<curr, end, todo, claimed, finals>>,
           \A t \in Threads :
               /\ (pc'[t] = "compute") <=> (pc[t] = "compute")
               /\ pc'[t] = "finalize" => pc[t] = "finalize",
           pc'[Caller] \in {"idle"} \cup InDestroy => pc[Caller] \in {"idle"} \cup InDestroy
    PROVE  TaskInv'
BY DEF IInv, TaskInv

\* Every step keeps the split of the tasks.
LEMMA TaskStep == ASSUME IInv, [Next]_vars PROVE TaskInv'
<1>t. TypeInv' BY TypeStep
<1>c. Caller \in Threads /\ Workers \subseteq Threads /\ Caller \notin Workers
  BY TotalAssumption DEF Caller, Threads, Workers
<1>n. curr \in Nat /\ end \in Nat BY DEF IInv, TypeInv
<1>1. ASSUME NEW n \in Restricted, SetRestrictedWorkerCount(n) PROVE TaskInv'
  BY <1>1, <1>t, TaskFrame DEF SetRestrictedWorkerCount, history
<1>2. ASSUME NEW n \in TaskNums, JobCall(n) PROVE TaskInv'
  <2>1. pc[Caller] = "idle" /\ pc' = [pc EXCEPT ![Caller] = "dispatch"]
    BY <1>2 DEF JobCall, Step
  <2>2. \A t \in Threads : pc[t] \in {"idle", "loop"}
    BY <2>1 DEF IInv, WorkerInv, WorkerOf, Out, Done, Workers, Caller
  <2>3. \A t \in Threads : pc'[t] \notin {"compute", "finalize"}
    BY <1>c, <2>1, <2>2 DEF IInv, TypeInv
  <2>4. pc'[Caller] = "dispatch" BY <1>c, <2>1 DEF IInv, TypeInv
  <2>5. curr' = 0 /\ end' = n /\ todo' = 0 .. n - 1 /\ finals' = {} /\ n \in Nat
    BY <1>2, TaskAssumption DEF JobCall
  <2>6. todo' \subseteq Tasks BY <2>5 DEF Tasks
  <2> QED BY <2>3, <2>4, <2>5, <2>6 DEF TaskInv, InDestroy
<1>3. CASE DestroyCall \/ Dispatch \/ Notify \/ StoreExit \/ NotifyExit \/ Destroyed
  <2>1. UNCHANGED <<curr, end, todo, claimed, finals>>
    BY <1>3 DEF DestroyCall, Dispatch, Notify, StoreExit, NotifyExit, Destroyed, job, history
  <2>2. \E to \in {"destroy", "notify", "init", "dispatch", "destroyNotify", "join", "destroyed"} :
           pc' = [pc EXCEPT ![Caller] = to]
    BY <1>3 DEF DestroyCall, Dispatch, Notify, StoreExit, NotifyExit, Destroyed, Step
  <2>3. pc[Caller] \notin {"compute", "finalize"}
    BY <1>3 DEF DestroyCall, Dispatch, Notify, StoreExit, NotifyExit, Destroyed, Step
  <2>4. pc'[Caller] \in {"idle"} \cup InDestroy => pc[Caller] \in {"idle"} \cup InDestroy
    BY <1>c, <1>3 DEF DestroyCall, Dispatch, Notify, StoreExit, NotifyExit, Destroyed, Step,
                      InDestroy, IInv, TypeInv
  <2>5. \A t \in Threads :
               /\ (pc'[t] = "compute") <=> (pc[t] = "compute")
               /\ pc'[t] = "finalize" => pc[t] = "finalize"
    BY <1>c, <2>2, <2>3 DEF IInv, TypeInv
  <2> QED BY <1>t, <2>1, <2>4, <2>5, TaskFrame
<1>4. CASE WaitNext
  BY <1>4, <1>t, TaskFrame DEF WaitNext, job, history
<1>5. CASE JobReturn
  <2>1. pc[Caller] = "wait" /\ pc' = [pc EXCEPT ![Caller] = "idle"] /\ i >= workerCount
    BY <1>5 DEF JobReturn, Step
  <2>2. \A t \in Threads : pc[t] \in {"wait", "loop"}
    BY <2>1 DEF IInv, TypeInv, WorkerInv, WorkerOf, Out, Done, Workers, Threads, Caller
  <2>3. curr >= end
    BY <1>c, <2>1 DEF IInv, CallerInv, TaskInv
  <2>4. todo = {}
    BY <2>2, <2>3 DEF IInv, TypeInv, TaskInv
  <2>5. \A t \in Threads : pc'[t] \notin {"compute", "finalize"}
    BY <1>c, <2>1, <2>2 DEF IInv, TypeInv
  <2>6. UNCHANGED <<curr, end, todo, claimed, finals>>
    BY <1>5 DEF JobReturn, job, history
  <2> QED BY <2>3, <2>4, <2>5, <2>6 DEF IInv, TypeInv, TaskInv
<1>6. ASSUME NEW t \in Threads, ProcessTasks(t) PROVE TaskInv'
  <2>1. pc[t] \in InJob
    BY <1>6 DEF ProcessTasks, InitFunc, Fetch, ClaimTask, Compute, Finalize, Leave, Step, InJob
  <2>2. CASE InitFunc(t) \/ Leave(t)
    <3>1. UNCHANGED <<curr, end, todo, claimed, finals>>
      BY <2>2 DEF InitFunc, Leave, job, history
    <3>2. pc[t] \in {"init", "leave"} /\ \E to \in {"fetch", "wait", "loop"} : pc' = [pc EXCEPT ![t] = to]
      BY <2>2 DEF InitFunc, Leave, Step
    <3> QED BY <1>c, <1>t, <3>1, <3>2, TaskFrame DEF IInv, TypeInv, InDestroy
  <2>3. CASE Fetch(t)
    <3>1. UNCHANGED <<curr, end, todo, claimed, finals>> BY <2>3 DEF Fetch, job, history
    <3>2. /\ pc[t] = "fetch"
          /\ \/ pc' = [pc EXCEPT ![t] = "claim"]
             \/ pc' = [pc EXCEPT ![t] = "finalize"] /\ curr >= end
      <4>1. CASE end - curr <= 0 BY <2>3, <1>n, <4>1 DEF Fetch, Step
      <4>2. CASE ~(end - curr <= 0) BY <2>3, <4>2 DEF Fetch, Step
      <4> QED BY <4>1, <4>2
    <3> QED BY <1>c, <3>1, <3>2 DEF IInv, TypeInv, TaskInv, InDestroy
  <2>4. CASE ClaimTask(t)
    <3>1. /\ pc[t] = "claim" /\ curr' = curr + 1 /\ claimed' = [claimed EXCEPT ![t] = curr]
          /\ \/ pc' = [pc EXCEPT ![t] = "compute"] /\ curr < end
             \/ pc' = [pc EXCEPT ![t] = "finalize"] /\ curr >= end
          /\ UNCHANGED <<end, todo, finals>>
      <4>1. CASE curr >= end BY <2>4, <4>1 DEF ClaimTask, Step, job, history
      <4>2. CASE ~(curr >= end) BY <2>4, <1>n, <4>2 DEF ClaimTask, Step, job, history
      <4> QED BY <4>1, <4>2
    <3>2. curr \in Nat /\ end \in Nat /\ todo \subseteq 0 .. end - 1
      BY DEF IInv, TypeInv
    <3>3. \A u \in Threads : u # t => pc'[u] = pc[u] /\ claimed'[u] = claimed[u]
      BY <3>1 DEF IInv, TypeInv
    <3>4. claimed'[t] = curr /\ claimed \in [Threads -> Nat]
      BY <3>1 DEF IInv, TypeInv
    <3>5. \/ pc'[t] = "compute" /\ curr < end
          \/ pc'[t] = "finalize" /\ curr >= end
      <4>1. t \in DOMAIN pc BY DEF IInv, TypeInv
      <4> QED BY <3>1, <4>1
    <3>6. \A k \in 0 .. end - 1 : k >= curr' => k \in todo
      BY <3>1, <3>2 DEF IInv, TaskInv
    <3>7. \A k \in todo : k < curr' => \E u \in Threads : pc'[u] = "compute" /\ claimed'[u] = k
      <4> SUFFICES ASSUME NEW k \in todo, k < curr'
                   PROVE  \E u \in Threads : pc'[u] = "compute" /\ claimed'[u] = k
        OBVIOUS
      <4>1. CASE k = curr BY <3>2, <3>4, <3>5, <4>1
      <4>2. CASE k < curr
        <5>1. PICK u \in Threads : pc[u] = "compute" /\ claimed[u] = k
          BY <4>2 DEF IInv, TaskInv
        <5> QED BY <3>1, <3>3, <5>1
      <4> QED BY <3>1, <3>2, <4>1, <4>2
    <3>8. \A u \in Threads : pc'[u] = "compute" => claimed'[u] \in todo /\ claimed'[u] < curr'
      <4> SUFFICES ASSUME NEW u \in Threads, pc'[u] = "compute"
                   PROVE  claimed'[u] \in todo /\ claimed'[u] < curr'
        OBVIOUS
      <4>1. CASE u = t BY <3>1, <3>2, <3>4, <3>5, <4>1 DEF IInv, TaskInv
      <4>2. CASE u # t BY <3>1, <3>2, <3>3, <3>4, <4>2 DEF IInv, TaskInv
      <4> QED BY <4>1, <4>2
    <3>9. \A u, v \in Threads :
            pc'[u] = "compute" /\ pc'[v] = "compute" /\ u # v => claimed'[u] # claimed'[v]
      BY <3>2, <3>3, <3>4 DEF IInv, TaskInv
    <3>10. \A u \in Threads : pc'[u] = "finalize" \/ u \in finals => curr' >= end
      <4>1. \A u \in Threads : pc[u] = "finalize" \/ u \in finals => curr >= end
        BY DEF IInv, TaskInv
      <4> QED BY <3>1, <3>2, <3>3, <3>5, <4>1
    <3>11. pc'[Caller] \in {"idle"} \cup InDestroy => todo = {}
      BY <1>c, <3>3, <3>5 DEF IInv, TaskInv, InDestroy
    <3> QED BY <3>1, <3>6, <3>7, <3>8, <3>9, <3>10, <3>11 DEF IInv, TaskInv
  <2>5. CASE Compute(t)
    <3>1. /\ pc[t] = "compute" /\ pc' = [pc EXCEPT ![t] = "fetch"]
          /\ todo' = todo \ {claimed[t]}
          /\ UNCHANGED <<curr, end, claimed, finals>>
      BY <2>5 DEF Compute, Step, job
    <3>2. \A u \in Threads : u # t => pc'[u] = pc[u]
      BY <3>1 DEF IInv, TypeInv
    <3>3. pc'[t] = "fetch" BY <3>1 DEF IInv, TypeInv
    <3>4. claimed[t] < curr /\ curr \in Nat /\ end \in Nat /\ claimed[t] \in Nat
      BY <3>1 DEF IInv, TypeInv, TaskInv
    <3>5. \A k \in 0 .. end - 1 : k >= curr => k \in todo'
      BY <3>1, <3>4 DEF IInv, TaskInv
    <3>6. \A k \in todo' : k < curr => \E u \in Threads : pc'[u] = "compute" /\ claimed[u] = k
      <4> SUFFICES ASSUME NEW k \in todo', k < curr
                   PROVE  \E u \in Threads : pc'[u] = "compute" /\ claimed[u] = k
        OBVIOUS
      <4>1. PICK u \in Threads : pc[u] = "compute" /\ claimed[u] = k
        BY <3>1 DEF IInv, TaskInv
      <4> QED BY <3>1, <3>2, <4>1
    <3>7. \A u \in Threads : pc'[u] = "compute" => claimed[u] \in todo' /\ claimed[u] < curr
      BY <3>1, <3>2, <3>3 DEF IInv, TaskInv
    <3>8. \A u, v \in Threads :
            pc'[u] = "compute" /\ pc'[v] = "compute" /\ u # v => claimed[u] # claimed[v]
      BY <3>2, <3>3 DEF IInv, TaskInv
    <3>9. \A u \in Threads : pc'[u] = "finalize" \/ u \in finals => curr >= end
      BY <3>2, <3>3 DEF IInv, TaskInv
    <3>10. pc'[Caller] \in {"idle"} \cup InDestroy => todo' = {}
      BY <1>c, <3>1, <3>2, <3>3 DEF IInv, TaskInv, InDestroy
    <3>11. todo' \subseteq Tasks BY <3>1 DEF IInv, TaskInv
    <3> QED BY <3>1, <3>5, <3>6, <3>7, <3>8, <3>9, <3>10, <3>11 DEF TaskInv
  <2>6. CASE Finalize(t)
    <3>1. /\ pc[t] = "finalize" /\ pc' = [pc EXCEPT ![t] = "leave"]
          /\ finals' = finals \cup {t}
          /\ UNCHANGED <<curr, end, todo, claimed>>
      BY <2>6 DEF Finalize, Step, job
    <3> QED BY <1>c, <3>1 DEF IInv, TypeInv, TaskInv, InDestroy
  <2> QED BY <1>6, <2>2, <2>3, <2>4, <2>5, <2>6 DEF ProcessTasks
<1>7. ASSUME NEW w \in Workers,
             StartWork(w) \/ WorkerExit(w) \/ FallAsleep(w) \/ SpuriousWakeup(w)
      PROVE  TaskInv'
  <2>1. UNCHANGED <<curr, end, todo, claimed, finals>>
    BY <1>7 DEF StartWork, WorkerExit, FallAsleep, SpuriousWakeup, job, history
  <2>2. \/ pc' = pc
        \/ pc[w] = "loop" /\ \E to \in {"init", "exit"} : pc' = [pc EXCEPT ![w] = to]
    BY <1>7 DEF StartWork, WorkerExit, FallAsleep, SpuriousWakeup, Step
  <2> QED BY <1>c, <1>t, <2>1, <2>2, TaskFrame DEF IInv, TypeInv
<1>8. CASE UNCHANGED vars
  BY <1>8, <1>t, TaskFrame DEF vars, job, history
<1> QED BY <1>1, <1>2, <1>3, <1>4, <1>5, <1>6, <1>7, <1>8, NextCases

-----------------------------------------------------------------------------
(* The overshoot of the counter *)

\* The threads are finitely many, and so are those that are through.
LEMMA ThroughFinite ==
    /\ IsFiniteSet(Threads) /\ Cardinality(Threads) = Total
    /\ IsFiniteSet(Through) /\ Cardinality(Through) \in 0 .. Total
<1>1. IsFiniteSet(Threads) /\ Cardinality(Threads) = Total
  <2>1. 0 \in Int /\ Total - 1 \in Int /\ Total > 0
    BY TotalAssumption
  <2> QED BY <2>1, FS_Interval, TotalAssumption DEF Threads
<1>2. Through \in SUBSET Threads BY DEF Through
<1>3. IsFiniteSet(Through) /\ Cardinality(Through) <= Total
  BY <1>1, <1>2, FS_Subset
<1>4. Cardinality(Through) \in Nat BY <1>3, FS_CardinalityType
<1> QED BY <1>1, <1>3, <1>4, TotalAssumption

\* As long as the job stays and nobody comes back, more threads are through.
LEMMA ThroughGrows ==
    ASSUME Through \subseteq Through'
    PROVE  Cardinality(Through) <= Cardinality(Through')
<1>1. IsFiniteSet(Through')
  <2>1. Through' \in SUBSET Threads BY DEF Through
  <2> QED BY <2>1, ThroughFinite, FS_Subset
<1> QED BY <1>1, FS_Subset

\* Only fetch_add moves the counter, and a thread that takes it past the end
\* goes to finalize and takes no more.
LEMMA CounterStep == ASSUME IInv, [Next]_vars PROVE CounterInv'
<1>t. TypeInv' BY TypeStep
<1>n. curr \in Nat /\ end \in Nat /\ curr' \in Nat /\ end' \in Nat
  BY <1>t DEF IInv, TypeInv
<1>c. Caller \in Threads /\ Workers \subseteq Threads
  BY TotalAssumption DEF Caller, Threads, Workers
<1>f. Cardinality(Through) \in Nat /\ Cardinality(Through') \in Nat
  <2>1. Through' \in SUBSET Threads BY DEF Through
  <2>2. IsFiniteSet(Through') BY <2>1, ThroughFinite, FS_Subset
  <2> QED BY <2>2, ThroughFinite, FS_CardinalityType
<1>1. ASSUME UNCHANGED <<curr, end>>, Through \subseteq Through' PROVE CounterInv'
  BY <1>1, <1>n, <1>f, ThroughGrows DEF IInv, CounterInv
<1>2. ASSUME NEW n \in TaskNums, JobCall(n) PROVE CounterInv'
  BY <1>2, <1>n, <1>f DEF JobCall, CounterInv
<1>3. CASE DestroyCall \/ Dispatch \/ Notify \/ WaitNext \/ JobReturn \/ StoreExit \/ NotifyExit
           \/ Destroyed
  <2>1. UNCHANGED <<curr, end, finals>>
    BY <1>3 DEF DestroyCall, Dispatch, Notify, WaitNext, JobReturn, StoreExit, NotifyExit,
                Destroyed, job, history
  <2>2. pc[Caller] # "finalize" /\ (pc' = pc \/ \E to : pc' = [pc EXCEPT ![Caller] = to])
    BY <1>3 DEF DestroyCall, Dispatch, Notify, WaitNext, JobReturn, StoreExit, NotifyExit,
                Destroyed, Step
  <2>3. Through \subseteq Through'
    BY <1>c, <2>1, <2>2 DEF Through, IInv, TypeInv
  <2> QED BY <1>1, <2>1, <2>3
<1>4. ASSUME NEW t \in Threads, ProcessTasks(t) PROVE CounterInv'
  <2>1. CASE InitFunc(t) \/ Fetch(t) \/ Compute(t) \/ Leave(t)
    <3>1. UNCHANGED <<curr, end, finals>>
      BY <2>1 DEF InitFunc, Fetch, Compute, Leave, job, history
    <3>2. pc[t] # "finalize" /\ \E to : pc' = [pc EXCEPT ![t] = to]
      BY <2>1 DEF InitFunc, Fetch, Compute, Leave, Step
    <3>3. Through \subseteq Through'
      BY <3>1, <3>2 DEF Through, IInv, TypeInv
    <3> QED BY <1>1, <3>1, <3>3
  <2>2. CASE ClaimTask(t)
    <3>1. /\ pc[t] = "claim" /\ curr' = curr + 1
          /\ pc' = [pc EXCEPT ![t] = IF curr >= end THEN "finalize" ELSE "compute"]
          /\ UNCHANGED <<end, finals>>
      BY <2>2 DEF ClaimTask, Step, job, history
    <3>2. CASE curr < end
      BY <1>n, <1>f, <3>1, <3>2 DEF CounterInv
    <3>3. CASE curr >= end
      <4>1. t \notin finals
        <5>1. CASE t = Caller BY <3>1, <5>1 DEF IInv, CallerInv, Ran
        <5>2. CASE t # Caller
          <6>1. t \in Workers BY <5>2 DEF Workers, Caller
          <6> QED BY <3>1, <6>1 DEF IInv, TypeInv, WorkerInv, WorkerOf, Out, Given, Done, Ran,
                                    InJob, InCall, InDestroy
        <5> QED BY <5>1, <5>2
      <4>2. t \in DOMAIN pc /\ pc \in [Threads -> InJob \cup {"idle", "loop", "exit"} \cup InCall \cup InDestroy]
        BY DEF IInv, TypeInv
      <4>3. pc' = [pc EXCEPT ![t] = "finalize"] BY <3>1, <3>3
      <4>4. Through' = Through \cup {t} /\ t \notin Through
        BY <3>1, <4>1, <4>2, <4>3 DEF Through
      <4>5. Cardinality(Through') = Cardinality(Through) + 1
        BY <4>4, ThroughFinite, FS_AddElement
      <4> QED BY <1>n, <1>f, <3>1, <4>5 DEF IInv, CounterInv
    <3> QED BY <1>n, <3>2, <3>3
  <2>3. CASE Finalize(t)
    <3>1. UNCHANGED <<curr, end>> /\ finals' = finals \cup {t}
      BY <2>3 DEF Finalize, job
    <3>2. pc' = [pc EXCEPT ![t] = "leave"] BY <2>3 DEF Finalize, Step
    <3>3. Through \subseteq Through'
      BY <3>1, <3>2 DEF Through, IInv, TypeInv
    <3> QED BY <1>1, <3>1, <3>3
  <2> QED BY <1>4, <2>1, <2>2, <2>3 DEF ProcessTasks
<1>5. ASSUME NEW w \in Workers,
             StartWork(w) \/ WorkerExit(w) \/ FallAsleep(w) \/ SpuriousWakeup(w)
      PROVE  CounterInv'
  <2>1. UNCHANGED <<curr, end, finals>>
    BY <1>5 DEF StartWork, WorkerExit, FallAsleep, SpuriousWakeup, job, history
  <2>2. pc' = pc \/ (pc[w] = "loop" /\ \E to : pc' = [pc EXCEPT ![w] = to])
    BY <1>5 DEF StartWork, WorkerExit, FallAsleep, SpuriousWakeup, Step
  <2>3. Through \subseteq Through'
    BY <1>c, <2>1, <2>2 DEF Through, IInv, TypeInv
  <2> QED BY <1>1, <2>1, <2>3
<1>6. CASE (\E n \in Restricted : SetRestrictedWorkerCount(n)) \/ UNCHANGED vars
  <2>1. UNCHANGED <<curr, end, finals, pc>>
    BY <1>6 DEF SetRestrictedWorkerCount, vars, job, history
  <2>2. Through' = Through BY <2>1 DEF Through
  <2> QED BY <1>1, <2>1, <2>2
<1> QED BY <1>2, <1>3, <1>4, <1>5, <1>6, NextCases

-----------------------------------------------------------------------------
(* The results *)

\* The invariant holds when the pool has been built.
LEMMA InitIInv == ASSUME Init PROVE IInv
<1>c. 0 \in Threads BY TotalAssumption DEF Threads
<1>1. TypeInv
  BY <1>c, TotalAssumption, TaskAssumption
     DEF Init, TypeInv, Caller, InJob, InCall, InDestroy
<1>2. CallerInv BY <1>c DEF Init, CallerInv, Ran, Caller, InJob, InCall
<1>3. WorkerInv
  BY <1>c DEF Init, WorkerInv, WorkerOf, Out, Caller, Workers, InJob, InDestroy
<1>4. TaskInv BY <1>c DEF Init, TaskInv, Caller
<1>5. CounterInv BY ThroughFinite DEF Init, CounterInv
<1> QED BY <1>1, <1>2, <1>3, <1>4, <1>5 DEF IInv

\* The inductive invariant holds in every reachable state.
THEOREM Invariance == Spec => []IInv
<1>1. Init => IInv BY InitIInv
<1>2. IInv /\ [Next]_vars => IInv'
  BY TypeStep, CallerStepInv, WorkerStepInv, TaskStep, CounterStep DEF IInv
<1> QED BY <1>1, <1>2, PTL DEF Spec

\* The variables keep their types, and the shared counter curr_ exceeds the
\* number of tasks by at most one per thread however the fetch_adds fall.
THEOREM CounterBounded == Spec => []TypeOK
<1>1. IInv => TypeOK
  <2> SUFFICES ASSUME IInv PROVE TypeOK
    OBVIOUS
  <2>1. curr \in 0 .. end + Total
    BY ThroughFinite, TotalAssumption DEF IInv, TypeInv, CounterInv
  <2> QED BY <2>1 DEF IInv, TypeInv, TypeOK, InCall, InDestroy
<1> QED BY <1>1, Invariance, PTL

\* No task is computed by two threads, after it is done, or past the end.
THEOREM NoTaskTwice == Spec => []TasksDistinct
<1>1. IInv => TasksDistinct
  BY DEF IInv, TaskInv, TasksDistinct
<1> QED BY <1>1, Invariance, PTL

\* No worker reads the fields of the job while the caller writes them, and a
\* job returns only when everybody it was given to is through with it.
THEOREM PoolQuiescent == Spec => []Quiescent
<1>1. IInv => Quiescent
  <2> SUFFICES ASSUME IInv PROVE Quiescent
    OBVIOUS
  <2>1. ASSUME pc[Caller] \in {"idle", "destroy", "destroyNotify", "join", "destroyed"},
               NEW t \in Workers
        PROVE  pc[t] \notin InJob /\ status[t] # "WORKING"
    BY <2>1 DEF IInv, WorkerInv, WorkerOf, Out, Done, InJob, InDestroy
  <2>2. ASSUME pc[Caller] = "idle", jobs > 0
        PROVE  inits = finals /\ inits = {Caller} \cup 0 .. workerCount - 1
    <3>1. workerCount \in 0 .. Total /\ inits \subseteq Threads /\ finals \subseteq Threads /\ jobs \in Nat
      BY TaskAssumption DEF IInv, TypeInv
    <3>2. Caller \in inits /\ Caller \in finals
      BY <2>2 DEF IInv, CallerInv
    <3>3. \A w \in Workers : IF w >= workerCount THEN Out(w) ELSE Done(w)
      BY <2>2, <3>1 DEF IInv, WorkerInv, WorkerOf
    <3>4. \A t \in Threads \ {Caller} : /\ t \in inits <=> t < workerCount
                                        /\ t \in finals <=> t < workerCount
      BY <3>1, <3>3 DEF Out, Done, Workers, Caller, Threads
    <3> DEFINE Mine == {Caller} \cup 0 .. workerCount - 1
    <3>5. \A t \in Threads : t \in Mine <=> (t = Caller \/ t < workerCount)
      BY <3>1, TotalAssumption DEF Threads, Caller
    <3>6. Mine \subseteq Threads
      BY <3>1, TotalAssumption DEF Threads, Caller
    <3> HIDE DEF Mine
    <3>7. inits = Mine BY <3>1, <3>2, <3>4, <3>5, <3>6
    <3>8. finals = Mine BY <3>1, <3>2, <3>4, <3>5, <3>6
    <3> QED BY <3>7, <3>8 DEF Mine
  <2> QED BY <2>1, <2>2 DEF Quiescent
<1> QED BY <1>1, Invariance, PTL

\* do_work_stealing_job implements ForkJoin: every step of the pool is the
\* fork, one task, the join, or invisible to the caller.
THEOREM PoolForksAndJoins == Spec => JobsComplete
<1> DEFINE busy == pc[Caller] \in InJob \cup {"dispatch", "notify", "wait"}
<1>c. Caller \in Threads /\ Workers \subseteq Threads /\ Caller \notin Workers
  BY TotalAssumption DEF Caller, Threads, Workers
<1>1. Init => Fork!Init
  BY <1>c DEF Init, Fork!Init, InJob
<1>2. ASSUME IInv, [Next]_vars
      PROVE  [Fork!Next]_<<busy, todo>>
  <2>p. pc \in [Threads -> InJob \cup {"idle", "loop", "exit"} \cup InCall \cup InDestroy]
    BY <1>2 DEF IInv, TypeInv
  <2>1. ASSUME NEW n \in TaskNums, JobCall(n) PROVE Fork!Next
    <3>1. 0 .. n - 1 \in SUBSET Tasks BY DEF Tasks
    <3>2. Fork!Fork(0 .. n - 1)
      BY <1>c, <2>1, <2>p DEF JobCall, Step, Fork!Fork, InJob
    <3> QED BY <3>1, <3>2 DEF Fork!Next
  <2>2. CASE JobReturn
    <3>1. TaskInv' BY <1>2, TaskStep
    <3>2. pc[Caller] = "wait" /\ pc'[Caller] = "idle" /\ todo' = todo
      BY <1>c, <2>2, <2>p DEF JobReturn, Step, history
    <3>3. todo = {} BY <3>1, <3>2 DEF TaskInv
    <3>4. Fork!Join BY <3>2, <3>3 DEF Fork!Join, InJob
    <3> QED BY <3>4 DEF Fork!Next
  <2>3. ASSUME NEW t \in Threads, Compute(t) PROVE Fork!Next
    <3>1. pc[t] = "compute" /\ pc' = [pc EXCEPT ![t] = "fetch"] /\ todo' = todo \ {claimed[t]}
      BY <2>3 DEF Compute, Step
    <3>2. claimed[t] \in todo /\ claimed[t] \in Tasks BY <1>2, <3>1 DEF IInv, TaskInv
    <3>3. pc[Caller] \in InJob \cup {"dispatch", "notify", "wait"}
      <4>1. CASE t = Caller BY <3>1, <4>1 DEF InJob
      <4>2. CASE t # Caller
        <5>1. t \in Workers BY <4>2 DEF Workers, Caller
        <5> QED BY <1>2, <3>1, <5>1 DEF IInv, TypeInv, WorkerInv, WorkerOf, Out, Done, InJob,
                                        InCall, InDestroy
      <4> QED BY <4>1, <4>2
    <3>4. pc'[Caller] \in InJob \cup {"dispatch", "notify", "wait"}
      BY <1>c, <2>p, <3>1, <3>3 DEF InJob
    <3>5. Fork!Do(claimed[t])
      BY <3>1, <3>2, <3>3, <3>4 DEF Fork!Do
    <3> QED BY <3>2, <3>5 DEF Fork!Next
  <2>4. ASSUME \/ DestroyCall \/ Dispatch \/ Notify \/ WaitNext \/ StoreExit \/ NotifyExit \/ Destroyed
               \/ \E n \in Restricted : SetRestrictedWorkerCount(n)
        PROVE  UNCHANGED <<busy, todo>>
    BY <1>c, <2>4, <2>p DEF DestroyCall, Dispatch, Notify, WaitNext, StoreExit, NotifyExit, Destroyed,
                            SetRestrictedWorkerCount, Step, InJob, history
  <2>5. ASSUME NEW t \in Threads,
               InitFunc(t) \/ Fetch(t) \/ ClaimTask(t) \/ Finalize(t) \/ Leave(t)
        PROVE  UNCHANGED <<busy, todo>>
    BY <1>c, <2>5, <2>p DEF InitFunc, Fetch, ClaimTask, Finalize, Leave, Step, InJob, history
  <2>6. ASSUME NEW w \in Workers,
               StartWork(w) \/ WorkerExit(w) \/ FallAsleep(w) \/ SpuriousWakeup(w)
        PROVE  UNCHANGED <<busy, todo>>
    BY <1>c, <2>6, <2>p DEF StartWork, WorkerExit, FallAsleep, SpuriousWakeup, Step, history
  <2>7. CASE UNCHANGED vars BY <2>7 DEF vars, history
  <2>8. \/ Fork!Next \/ UNCHANGED <<busy, todo>>
    BY <1>2, <2>1, <2>2, <2>3, <2>4, <2>5, <2>6, <2>7, NextCases DEF ProcessTasks
  <2> QED BY <2>8
<1> QED BY <1>1, <1>2, Invariance, PTL DEF Spec, JobsComplete, Fork!Spec
=============================================================================
