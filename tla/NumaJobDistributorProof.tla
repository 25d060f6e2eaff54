----------------------- MODULE NumaJobDistributorProof -----------------------
(***************************************************************************)
(* The safety of NumaJobDistributor, proved for every number of NUMA nodes *)
(* and of jobs: no status cell is used before it exists, and do_numa_job   *)
(* implements the fork-join contract.                                      *)
(***************************************************************************)
EXTENDS NumaJobDistributor, FiniteSetTheorems, TLAPS

-----------------------------------------------------------------------------
(* The inductive invariant *)

InCall == {"dispatch", "notify", "wait"}
InDestroy == {"destroy", "destroyNotify", "join", "destroyed"}

TypeInv ==
    /\ status \in [Nodes -> {"null", "WAITING", "WORKING", "EXIT"}]
    /\ asleep \subseteq Nodes /\ arrived \in Nat
    /\ pc \in [Nodes -> {"start", "barrier", "loop", "compute", "leave", "exit"}]
    /\ cpc \in {"init", "barrier", "idle"} \cup InCall \cup InDestroy
    /\ i \in 0 .. NumaCount
    /\ cpc \in {"notify", "destroyNotify"} => i < NumaCount
    /\ todo \subseteq Nodes

\* The barrier counts the workers that have left their start, and the owner.
Past == {n \in Nodes : pc[n] # "start"}
OwnerPast == IF cpc = "init" THEN 0 ELSE 1

BarrierInv ==
    /\ arrived = Cardinality(Past) + OwnerPast
    /\ \A n \in Nodes : (pc[n] = "start") <=> (status[n] = "null")
    /\ cpc \notin {"init", "barrier"} => Past = Nodes

\* What a job has made of node n: not started, given to the worker, or done.
Fresh(n) == n \in todo /\ status[n] = "WAITING" /\ pc[n] \in {"barrier", "loop"}
Given(n) ==
    /\ status[n] = "WORKING"
    /\ \/ n \in todo /\ pc[n] \in {"barrier", "loop", "compute"}
       \/ n \notin todo /\ pc[n] = "leave"
Done(n) == n \notin todo /\ status[n] = "WAITING" /\ pc[n] \in {"barrier", "loop"}

JobOf(n) ==
    /\ cpc \in {"init", "barrier"} =>
         n \notin todo /\ status[n] \in {"null", "WAITING"} /\ pc[n] \in {"start", "barrier", "loop"}
    /\ cpc = "idle" => Done(n)
    /\ cpc = "dispatch" => IF n < i THEN Given(n) \/ Done(n) ELSE Fresh(n)
    /\ cpc = "notify" => IF n <= i THEN Given(n) \/ Done(n) ELSE Fresh(n)
    /\ cpc = "wait" => IF n < i THEN Done(n) ELSE Given(n) \/ Done(n)
    /\ cpc \in InDestroy =>
         /\ n \notin todo
         /\ status[n] \in {"WAITING", "EXIT"} /\ pc[n] \in {"barrier", "loop", "exit"}

JobInv == \A n \in Nodes : JobOf(n)

IInv == TypeInv /\ BarrierInv /\ JobInv

-----------------------------------------------------------------------------
(* The barrier *)

\* The nodes are a finite set of NumaCount elements, and so is every part of it.
LEMMA NodesFinite ==
    /\ IsFiniteSet(Nodes) /\ Cardinality(Nodes) = NumaCount
    /\ IsFiniteSet(Past) /\ Cardinality(Past) \in 0 .. NumaCount
    /\ Cardinality(Past) = NumaCount => Past = Nodes
<1>1. IsFiniteSet(Nodes) /\ Cardinality(Nodes) = NumaCount
  <2>1. 0 \in Int /\ NumaCount - 1 \in Int /\ NumaCount > 0
    BY SizeAssumption
  <2> QED BY <2>1, FS_Interval, SizeAssumption DEF Nodes
<1>2. Past \in SUBSET Nodes
  BY DEF Past
<1>3. /\ IsFiniteSet(Past) /\ Cardinality(Past) <= NumaCount
      /\ Cardinality(Past) = NumaCount => Past = Nodes
  BY <1>1, <1>2, FS_Subset
<1>4. Cardinality(Past) \in Nat
  BY <1>3, FS_CardinalityType
<1> QED BY <1>1, <1>3, <1>4, SizeAssumption

\* The barrier of the constructor opens only when the owner has arrived and
\* every worker has allocated its status.
LEMMA BarrierOpens ==
    ASSUME TypeInv, BarrierInv, BarrierOpen
    PROVE  cpc # "init" /\ Past = Nodes
BY NodesFinite, SizeAssumption DEF BarrierInv, BarrierOpen, OwnerPast, TypeInv

\* A worker that arrives is counted once.
LEMMA ArriveCounts ==
    ASSUME TypeInv, NEW n \in Nodes, Step(n, "start", "barrier")
    PROVE  Cardinality(Past') = Cardinality(Past) + 1
<1>1. Past' = Past \cup {n} /\ n \notin Past
  BY DEF TypeInv, Past, Step
<1> QED BY <1>1, NodesFinite, FS_AddElement

\* A step that leaves start or stays away from it changes nothing that the
\* barrier counts.
LEMMA PastSame ==
    ASSUME TypeInv, NEW n \in Nodes, NEW from, NEW to,
           Step(n, from, to), from # "start", to # "start"
    PROVE  Past' = Past
BY DEF TypeInv, Past, Step

-----------------------------------------------------------------------------
(* The steps *)

\* Every step keeps the variables in their sets and the owner's loops in range.
LEMMA TypeStep == ASSUME IInv, [Next]_vars PROVE TypeInv'
<1> USE SizeAssumption DEF IInv, TypeInv, Nodes, InCall, InDestroy
<1>1. CASE InitArrive BY <1>1 DEF InitArrive, OwnerStep, Arrive
<1>2. CASE InitReturn BY <1>2 DEF InitReturn, OwnerStep
<1>3. CASE JobCall BY <1>3 DEF JobCall, OwnerStep
<1>4. CASE Dispatch BY <1>4 DEF Dispatch, OwnerStep
<1>5. CASE Notify BY <1>5 DEF Notify, OwnerStep
<1>6. CASE WaitNext BY <1>6 DEF WaitNext
<1>7. CASE JobReturn BY <1>7 DEF JobReturn, OwnerStep
<1>8. CASE DestroyCall BY <1>8 DEF DestroyCall, OwnerStep
<1>9. CASE StoreExit BY <1>9 DEF StoreExit, OwnerStep
<1>10. CASE NotifyExit BY <1>10 DEF NotifyExit, OwnerStep
<1>11. CASE Destroyed BY <1>11 DEF Destroyed, OwnerStep
<1>12. ASSUME NEW n \in Nodes, WorkerNext(n) \/ FallAsleep(n) \/ SpuriousWakeup(n)
       PROVE  TypeInv'
  <2>1. CASE WorkerArrive(n) BY <2>1 DEF WorkerArrive, Step, Arrive
  <2>4. CASE Leave(n) BY <2>4 DEF Leave, Step
  <2>2. CASE WorkerReady(n) \/ StartWork(n) \/ Compute(n) \/ WorkerExit(n)
    BY <2>2 DEF WorkerReady, StartWork, Compute, WorkerExit, Step
  <2>3. CASE FallAsleep(n) \/ SpuriousWakeup(n)
    BY <1>12, <2>3 DEF FallAsleep, SpuriousWakeup
  <2> QED BY <1>12, <2>1, <2>2, <2>3, <2>4 DEF WorkerNext
<1>13. CASE UNCHANGED vars BY <1>13 DEF vars
<1> QED BY <1>1, <1>2, <1>3, <1>4, <1>5, <1>6, <1>7, <1>8, <1>9, <1>10, <1>11, <1>12, <1>13
        DEF Next, OwnerNext

\* Every step keeps the count of the barrier exact.
LEMMA BarrierStep == ASSUME IInv, [Next]_vars PROVE BarrierInv'
<1> USE DEF IInv, BarrierInv
<1>t. TypeInv' BY TypeStep
<1>c. Cardinality(Past) \in Nat BY NodesFinite
<1>1. CASE InitArrive
  <2>1. Past' = Past BY <1>1 DEF InitArrive, Past
  <2> QED BY <1>1, <1>c, <2>1 DEF InitArrive, OwnerStep, Arrive, OwnerPast, TypeInv
<1>2. CASE InitReturn
  <2>1. Past' = Past BY <1>2 DEF InitReturn, Past
  <2> QED BY <1>2, <2>1, BarrierOpens DEF InitReturn, OwnerStep, OwnerPast
<1>3. CASE JobCall \/ Notify \/ WaitNext \/ JobReturn \/ DestroyCall \/ NotifyExit \/ Destroyed
  <2>1. Past' = Past
    BY <1>3 DEF JobCall, Notify, WaitNext, JobReturn, DestroyCall, NotifyExit, Destroyed, Past
  <2> QED BY <1>3, <2>1 DEF JobCall, Notify, WaitNext, JobReturn, DestroyCall, NotifyExit,
                            Destroyed, OwnerStep, OwnerPast
<1>4. CASE Dispatch \/ StoreExit
  <2>1. Past' = Past BY <1>4 DEF Dispatch, StoreExit, Past
  <2>2. \A n \in Nodes : pc[n] # "start"
    BY <1>4 DEF Dispatch, StoreExit, OwnerStep, Past
  <2> QED BY <1>4, <2>1, <2>2 DEF Dispatch, StoreExit, OwnerStep, OwnerPast, TypeInv
<1>5. ASSUME NEW n \in Nodes, WorkerArrive(n) PROVE BarrierInv'
  <2>1. Cardinality(Past') = Cardinality(Past) + 1
    BY <1>5, ArriveCounts DEF WorkerArrive
  <2>2. cpc \in {"init", "barrier"}
    BY <1>5 DEF WorkerArrive, Step, Past
  <2> QED BY <1>5, <1>c, <2>1, <2>2 DEF WorkerArrive, Step, Arrive, OwnerPast, TypeInv
<1>6. ASSUME NEW n \in Nodes,
             WorkerReady(n) \/ StartWork(n) \/ Compute(n) \/ WorkerExit(n)
      PROVE  BarrierInv'
  <2>1. Past' = Past
    BY <1>6, PastSame DEF WorkerReady, StartWork, Compute, WorkerExit
  <2> QED BY <1>6, <2>1 DEF WorkerReady, StartWork, Compute, WorkerExit, Step, OwnerPast, TypeInv
<1>7. ASSUME NEW n \in Nodes, Leave(n) PROVE BarrierInv'
  <2>1. Past' = Past BY <1>7, PastSame DEF Leave
  <2> QED BY <1>7, <2>1 DEF Leave, Step, OwnerPast, TypeInv
<1>8. ASSUME NEW n \in Nodes, FallAsleep(n) \/ SpuriousWakeup(n) PROVE BarrierInv'
  <2>1. Past' = Past BY <1>8 DEF FallAsleep, SpuriousWakeup, Past
  <2> QED BY <1>8, <2>1 DEF FallAsleep, SpuriousWakeup, OwnerPast
<1>9. CASE UNCHANGED vars
  <2>1. Past' = Past BY <1>9 DEF vars, Past
  <2> QED BY <1>9, <2>1 DEF vars, OwnerPast
<1> QED BY <1>1, <1>2, <1>3, <1>4, <1>5, <1>6, <1>7, <1>8, <1>9 DEF Next, OwnerNext, WorkerNext

\* Every step leaves every node either not started, given or done, as the
\* owner's position says.
LEMMA JobStep == ASSUME IInv, [Next]_vars PROVE JobInv'
<1> SUFFICES ASSUME NEW n \in Nodes PROVE JobOf(n)'
  BY DEF JobInv
<1> USE SizeAssumption DEF IInv, TypeInv, JobInv, JobOf, Fresh, Given, Done, Nodes, InCall, InDestroy
<1>1. CASE InitArrive BY <1>1 DEF InitArrive, OwnerStep
<1>2. CASE InitReturn
  <2>1. pc[n] # "start" /\ status[n] # "null"
    BY <1>2, BarrierOpens DEF InitReturn, BarrierInv, Past
  <2> QED BY <1>2, <2>1 DEF InitReturn, OwnerStep
<1>3. CASE JobCall BY <1>3 DEF JobCall, OwnerStep
<1>4. CASE Dispatch BY <1>4 DEF Dispatch, OwnerStep
<1>5. CASE Notify BY <1>5 DEF Notify, OwnerStep
<1>6. CASE WaitNext BY <1>6 DEF WaitNext
<1>7. CASE JobReturn BY <1>7 DEF JobReturn, OwnerStep
<1>8. CASE DestroyCall BY <1>8 DEF DestroyCall, OwnerStep
<1>9. CASE StoreExit BY <1>9 DEF StoreExit, OwnerStep
<1>10. CASE NotifyExit BY <1>10 DEF NotifyExit, OwnerStep
<1>11. CASE Destroyed BY <1>11 DEF Destroyed, OwnerStep
<1>12. ASSUME NEW m \in Nodes, WorkerNext(m) \/ FallAsleep(m) \/ SpuriousWakeup(m)
       PROVE  JobOf(n)'
  <2>1. CASE m # n
    BY <1>12, <2>1 DEF WorkerNext, WorkerArrive, WorkerReady, StartWork, Compute, Leave,
                       WorkerExit, FallAsleep, SpuriousWakeup, Step
  <2>2. CASE m = n /\ WorkerArrive(m)
    <3>1. cpc \in {"init", "barrier"}
      BY <2>2 DEF WorkerArrive, Step, BarrierInv, Past
    <3> QED BY <2>2, <3>1 DEF WorkerArrive, Step
  <2>3. CASE m = n /\ (WorkerReady(m) \/ StartWork(m))
    BY <2>3 DEF WorkerReady, StartWork, Step
  <2>4. CASE m = n /\ (Compute(m) \/ Leave(m))
    BY <2>4 DEF Compute, Leave, Step
  <2>5. CASE m = n /\ (WorkerExit(m) \/ FallAsleep(m) \/ SpuriousWakeup(m))
    BY <2>5 DEF WorkerExit, FallAsleep, SpuriousWakeup, Step
  <2> QED BY <1>12, <2>1, <2>2, <2>3, <2>4, <2>5 DEF WorkerNext
<1>13. CASE UNCHANGED vars BY <1>13 DEF vars
<1> QED BY <1>1, <1>2, <1>3, <1>4, <1>5, <1>6, <1>7, <1>8, <1>9, <1>10, <1>11, <1>12, <1>13
        DEF Next, OwnerNext

\* The invariant holds before the constructor.
LEMMA InitIInv == ASSUME Init PROVE IInv
<1>1. TypeInv BY SizeAssumption DEF Init, TypeInv, Nodes, InCall, InDestroy
<1>2. Past = {} BY DEF Init, Past
<1>3. BarrierInv BY <1>2, FS_EmptySet DEF Init, BarrierInv, OwnerPast
<1>4. JobInv BY DEF Init, JobInv, JobOf, InDestroy
<1> QED BY <1>1, <1>3, <1>4 DEF IInv

\* The inductive invariant holds in every reachable state.
THEOREM Invariance == Spec => []IInv
<1>1. Init => IInv BY InitIInv
<1>2. IInv /\ [Next]_vars => IInv' BY TypeStep, BarrierStep, JobStep DEF IInv
<1> QED BY <1>1, <1>2, PTL DEF Spec

-----------------------------------------------------------------------------
(* The results *)

\* Neither do_numa_job nor the destructor uses a status cell that its worker
\* has not allocated: the barrier opens for the owner only when every worker
\* has passed its allocation, whatever the number of nodes.
THEOREM StatusCellsExist == Spec => []StatusAllocated
<1>1. IInv => StatusAllocated
  BY DEF IInv, BarrierInv, StatusAllocated, Past
<1> QED BY <1>1, Invariance, PTL

\* do_numa_job implements ForkJoin: every step of the distributor is the fork,
\* the part of one node, the join, or invisible to the caller.
THEOREM DistributorForksAndJoins == Spec => JobsComplete
<1>1. Init => Fork!Init
  BY DEF Init, Fork!Init
<1>2. ASSUME IInv, [Next]_vars
      PROVE  [Fork!Next]_<<cpc \in {"dispatch", "notify", "wait"}, todo>>
  <2> USE DEF Fork!Next, Fork!Fork, Fork!Do, Fork!Join
  <2>1. CASE JobCall BY <2>1 DEF JobCall, OwnerStep
  <2>2. CASE JobReturn
    <3>1. todo = {}
      BY <1>2, <2>2 DEF JobReturn, OwnerStep, IInv, TypeInv, JobInv, JobOf, Done, Nodes
    <3> QED BY <2>2, <3>1 DEF JobReturn, OwnerStep
  <2>3. ASSUME NEW n \in Nodes, Compute(n)
        PROVE  [Fork!Next]_<<cpc \in {"dispatch", "notify", "wait"}, todo>>
    <3>1. n \in todo /\ cpc \in {"dispatch", "notify", "wait"}
      BY <1>2, <2>3 DEF Compute, Step, IInv, TypeInv, JobInv, JobOf, Fresh, Given, Done,
                       InCall, InDestroy
    <3>2. Fork!Do(n) BY <2>3, <3>1 DEF Compute
    <3> QED BY <3>2
  <2>4. CASE UNCHANGED vars BY <2>4 DEF vars
  <2>5. ASSUME InitArrive \/ InitReturn \/ Dispatch \/ Notify \/ WaitNext
               \/ DestroyCall \/ StoreExit \/ NotifyExit \/ Destroyed
        PROVE  UNCHANGED <<cpc \in {"dispatch", "notify", "wait"}, todo>>
    BY <2>5 DEF InitArrive, InitReturn, Dispatch, Notify, WaitNext, DestroyCall, StoreExit,
                NotifyExit, Destroyed, OwnerStep
  <2>6. ASSUME NEW n \in Nodes,
               WorkerArrive(n) \/ WorkerReady(n) \/ StartWork(n) \/ Leave(n) \/ WorkerExit(n)
               \/ FallAsleep(n) \/ SpuriousWakeup(n)
        PROVE  UNCHANGED <<cpc \in {"dispatch", "notify", "wait"}, todo>>
    BY <2>6 DEF WorkerArrive, WorkerReady, StartWork, Leave, WorkerExit, FallAsleep,
                SpuriousWakeup
  <2> QED BY <1>2, <2>1, <2>2, <2>3, <2>4, <2>5, <2>6 DEF Next, OwnerNext, WorkerNext
<1> QED BY <1>1, <1>2, Invariance, PTL DEF Spec, JobsComplete, Fork!Spec
=============================================================================
