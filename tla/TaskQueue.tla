----------------------------- MODULE TaskQueue -----------------------------
(***************************************************************************)
(* kt-kernel's TaskQueue (cpu_backend/task_queue.cpp): a linked list of    *)
(* tasks with many producers, one worker thread that runs them, and sync,  *)
(* which blocks until at most allow_n_pending tasks are left.  Producers   *)
(* touch only two atomics (pending, tail) and the next pointer of the node *)
(* they were given; the worker and every caller of sync sleep on the same  *)
(* condition variable, which enqueue notifies with notify_one.             *)
(*                                                                         *)
(* Nodes are numbered in allocation order; node 0 is the dummy that the    *)
(* constructor allocates, and as a next pointer 0 stands for nullptr (the  *)
(* dummy is nobody's successor).                                           *)
(***************************************************************************)
EXTENDS Naturals, FiniteSets, Sequences

CONSTANTS
    Enqueuers,   \* the threads that call enqueue
    Syncers,     \* the threads that call sync
    Allowed,     \* the values of allow_n_pending they pass
    MaxTasks     \* bound: tasks enqueued in all

ASSUME SizeAssumption == MaxTasks \in Nat /\ Allowed \subseteq Nat

Clients == Enqueuers \cup Syncers
Tasks == 1 .. MaxTasks
Nodes == 0 .. MaxTasks
Worker == "worker"
Owner == "owner"             \* the thread that destroys the queue
Threads == Clients \cup {Worker}
Nobody == "nobody"

ASSUME ClientAssumption == Clients \cap {Worker, Owner, Nobody} = {}

VARIABLES
    next,        \* next[n]: the successor of node n, 0 for nullptr
    live,        \* the nodes that are allocated
    tail, head,  \* head is also the worker's curr
    pending, done,
    mtx,         \* who holds the mutex
    waiters,     \* the threads that sleep on cv
    firstException,   \* first_exception: the task that threw it, 0 for nullptr
    pc,          \* per thread
    node, prev,  \* enqueue: the new node and the one it was exchanged for
    allow,       \* sync: its argument
    threw,       \* the task that the worker has just run threw
    owner,       \* how far the destructor is
    cursor,      \* its local variable node
    \* history
    allocated,   \* number of nodes allocated by enqueue
    order,       \* tasks in the order in which they entered the list
    ran,         \* tasks in the order in which they ran
    before,      \* sync: the tasks whose enqueue had returned when it started
    returned,    \* tasks whose enqueue has returned
    unreported   \* tasks that threw and whose exception no sync has seen yet

list == <<next, live, tail, head>>
lock == <<mtx, waiters>>
enq == <<node, prev>>
dtor == <<owner, cursor>>
history == <<allocated, order, ran, before, returned, unreported>>
vars == <<list, pending, done, lock, firstException, pc, enq, allow, threw, dtor, history>>

Init ==
    /\ next = [n \in Nodes |-> 0] /\ live = {0} /\ tail = 0 /\ head = 0
    /\ pending = 0 /\ done = FALSE
    /\ mtx = Nobody /\ waiters = {}
    /\ firstException = 0
    /\ pc = [t \in Threads |-> IF t = Worker THEN "loop" ELSE "idle"]
    /\ node = [c \in Clients |-> 0] /\ prev = [c \in Clients |-> 0]
    /\ allow = [c \in Clients |-> 0]
    /\ threw = FALSE /\ owner = "alive" /\ cursor = 0
    /\ allocated = 0 /\ order = << >> /\ ran = << >>
    /\ before = [c \in Clients |-> {}] /\ returned = {} /\ unreported = << >>

Step(t, from, to) == pc[t] = from /\ pc' = [pc EXCEPT ![t] = to]

Finished == {ran[i] : i \in DOMAIN ran}

-----------------------------------------------------------------------------
(* The mutex and the condition variable. *)

Acquire(t) == mtx = Nobody /\ mtx' = t

\* A critical section without a wait is one step: it needs the mutex free.
LockFree == mtx = Nobody

\* cv.wait puts the thread to sleep and releases the mutex.
Sleep(t) ==
    /\ Step(t, "park", "asleep")
    /\ mtx' = Nobody
    /\ waiters' = waiters \cup {t}
    /\ UNCHANGED <<list, pending, done, firstException, enq, allow, threw, dtor, history>>

\* A thread that is no longer among the waiters reacquires the mutex.
Relock(t) ==
    /\ t \notin waiters
    /\ Step(t, "asleep", "check")
    /\ Acquire(t)
    /\ UNCHANGED <<list, pending, done, waiters, firstException, enq, allow, threw,
                   dtor, history>>

\* The standard allows a wait to return without a notification.
SpuriousWakeup(t) ==
    /\ t \in waiters
    /\ waiters' = waiters \ {t}
    /\ UNCHANGED <<list, pending, done, mtx, firstException, pc, enq, allow, threw,
                   dtor, history>>

\* notify_one wakes one waiter, whichever; notify_all wakes them all.
NotifyOne == IF waiters = {} THEN waiters' = {}
                             ELSE \E t \in waiters : waiters' = waiters \ {t}
NotifyAll == waiters' = {}

-----------------------------------------------------------------------------
(* enqueue *)

EnqueueCall(c) ==
    /\ owner = "alive" /\ allocated < MaxTasks
    /\ Step(c, "idle", "exchange")
    /\ pending' = pending + 1
    /\ allocated' = allocated + 1
    /\ node' = [node EXCEPT ![c] = allocated + 1]
    /\ live' = live \cup {allocated + 1}
    /\ UNCHANGED <<next, tail, head, done, lock, firstException, prev, allow, threw,
                   dtor, order, ran, before, returned, unreported>>

Exchange(c) ==
    /\ Step(c, "exchange", "link")
    /\ prev' = [prev EXCEPT ![c] = tail]
    /\ tail' = node[c]
    /\ order' = Append(order, node[c])
    /\ UNCHANGED <<next, live, head, pending, done, lock, firstException, node, allow,
                   threw, dtor, allocated, ran, before, returned, unreported>>

\* Mutant: the node is linked where the worker is, not to the one it replaced.
LinkToHead(c) ==
    /\ Step(c, "link", "fence")
    /\ next' = [next EXCEPT ![head] = node[c]]
    /\ UNCHANGED <<live, tail, head, pending, done, lock, firstException, enq, allow,
                   threw, dtor, history>>

Link(c) ==
    /\ Step(c, "link", "fence")
    /\ next' = [next EXCEPT ![prev[c]] = node[c]]
    /\ UNCHANGED <<live, tail, head, pending, done, lock, firstException, enq, allow,
                   threw, dtor, history>>

\* Mutant: notify without the empty critical section.
FenceUnlocked(c) ==
    /\ Step(c, "fence", "notify")
    /\ UNCHANGED <<list, pending, done, lock, firstException, enq, allow, threw, dtor,
                   history>>

\* The empty critical section: it cannot fall between a waiter's check of its
\* predicate and its going to sleep.
Fence(c) ==
    /\ LockFree
    /\ Step(c, "fence", "notify")
    /\ UNCHANGED <<list, pending, done, lock, firstException, enq, allow, threw, dtor,
                   history>>

EnqueueReturn(c) ==
    /\ Step(c, "notify", "idle")
    /\ NotifyOne
    /\ returned' = returned \cup {node[c]}
    /\ UNCHANGED <<list, pending, done, mtx, firstException, enq, allow, threw, dtor,
                   allocated, order, ran, before, unreported>>

-----------------------------------------------------------------------------
(* sync *)

SyncCall(c, n) ==
    /\ owner = "alive"
    /\ Step(c, "idle", "check")
    /\ Acquire(c)
    /\ allow' = [allow EXCEPT ![c] = n]
    /\ before' = [before EXCEPT ![c] = returned]
    /\ UNCHANGED <<list, pending, done, waiters, firstException, enq, threw, dtor,
                   allocated, order, ran, returned, unreported>>

\* Mutant: one task too many may be pending.
SyncReadyOneMore(c) == pending <= allow[c] + 1 \/ done

SyncReady(c) == pending <= allow[c] \/ done

SyncPark(c) ==
    /\ ~SyncReady(c)
    /\ Step(c, "check", "park")
    /\ UNCHANGED <<list, pending, done, lock, firstException, enq, allow, threw, dtor,
                   history>>

\* sync takes the stored exception with it (and rethrows it).
SyncReturn(c) ==
    /\ SyncReady(c)
    /\ Step(c, "check", "idle")
    /\ mtx' = Nobody
    /\ firstException' = 0
    /\ unreported' = << >>
    /\ UNCHANGED <<list, pending, done, waiters, enq, allow, threw, dtor,
                   allocated, order, ran, before, returned>>

-----------------------------------------------------------------------------
(* worker *)

WorkerLoop ==
    /\ Step(Worker, "loop", IF done THEN "exit" ELSE IF next[head] # 0 THEN "run" ELSE "lock")
    /\ UNCHANGED <<list, pending, done, lock, firstException, enq, allow, threw, dtor,
                   history>>

\* Mutant: the worker deletes the node of the task, not the one before it.
RunTaskDeletesTask(fails) ==
    /\ Step(Worker, "run", "report")
    /\ live' = live \ {next[head]}
    /\ head' = next[head]
    /\ ran' = Append(ran, next[head])
    /\ threw' = fails
    /\ UNCHANGED <<next, tail, pending, done, lock, firstException, enq, allow, dtor,
                   allocated, order, before, returned, unreported>>

\* The task runs, and may throw; then the node before it is deleted.
RunTask(fails) ==
    /\ Step(Worker, "run", "report")
    /\ live' = live \ {head}
    /\ head' = next[head]
    /\ ran' = Append(ran, next[head])
    /\ threw' = fails
    /\ UNCHANGED <<next, tail, pending, done, lock, firstException, enq, allow, dtor,
                   allocated, order, before, returned, unreported>>

\* Mutant: the last exception is kept.
ReportLast ==
    /\ LockFree
    /\ Step(Worker, "report", "announce")
    /\ firstException' = IF threw THEN head ELSE firstException
    /\ unreported' = IF threw THEN Append(unreported, head) ELSE unreported
    /\ pending' = pending - 1
    /\ UNCHANGED <<list, done, lock, enq, allow, threw, dtor,
                   allocated, order, ran, before, returned>>

\* Only the first exception since the last sync is kept.
Report ==
    /\ LockFree
    /\ Step(Worker, "report", "announce")
    /\ firstException' = IF threw /\ firstException = 0 THEN head ELSE firstException
    /\ unreported' = IF threw THEN Append(unreported, head) ELSE unreported
    /\ pending' = pending - 1
    /\ UNCHANGED <<list, done, lock, enq, allow, threw, dtor,
                   allocated, order, ran, before, returned>>

\* Mutant: the callers of sync are not notified.
AnnounceSilent ==
    /\ Step(Worker, "announce", "loop")
    /\ UNCHANGED <<list, pending, done, lock, firstException, enq, allow, threw, dtor,
                   history>>

Announce ==
    /\ Step(Worker, "announce", "loop")
    /\ NotifyAll
    /\ UNCHANGED <<list, pending, done, mtx, firstException, enq, allow, threw, dtor,
                   history>>

WorkerLock ==
    /\ Step(Worker, "lock", "check")
    /\ Acquire(Worker)
    /\ UNCHANGED <<list, pending, done, waiters, firstException, enq, allow, threw,
                   dtor, history>>

WorkerReady == next[head] # 0 \/ done

WorkerPark ==
    /\ ~WorkerReady
    /\ Step(Worker, "check", "park")
    /\ UNCHANGED <<list, pending, done, lock, firstException, enq, allow, threw, dtor,
                   history>>

WorkerUnlock ==
    /\ WorkerReady
    /\ Step(Worker, "check", "loop")
    /\ mtx' = Nobody
    /\ UNCHANGED <<list, pending, done, waiters, firstException, enq, allow, threw,
                   dtor, history>>

-----------------------------------------------------------------------------
(* The destructor, when no enqueue is in progress. *)

DestroyCall ==
    /\ owner = "alive" /\ LockFree
    /\ \A c \in Clients : pc[c] \notin {"exchange", "link", "fence", "notify"}
    /\ done' = TRUE
    /\ owner' = "notify"
    /\ UNCHANGED <<list, pending, lock, firstException, pc, enq, allow, threw, cursor, history>>

DestroyNotify ==
    /\ owner = "notify"
    /\ NotifyAll
    /\ owner' = "join"
    /\ UNCHANGED <<list, pending, done, mtx, firstException, pc, enq, allow, threw, cursor,
                   history>>

\* The worker is joined, and the loop starts at head.
DestroyJoin ==
    /\ owner = "join" /\ pc[Worker] = "exit"
    /\ cursor' = head
    /\ owner' = "free"
    /\ UNCHANGED <<list, pending, done, lock, firstException, pc, enq, allow, threw, history>>

\* One round of the loop: the node is deleted, its task unrun.
DestroyNode ==
    /\ owner = "free"
    /\ live' = live \ {cursor}
    /\ cursor' = next[cursor]
    /\ owner' = IF next[cursor] = 0 THEN "freed" ELSE "free"
    /\ UNCHANGED <<next, tail, head, pending, done, lock, firstException, pc, enq, allow,
                   threw, history>>

-----------------------------------------------------------------------------

EnqueueNext(c) ==
    EnqueueCall(c) \/ Exchange(c) \/ Link(c) \/ Fence(c) \/ EnqueueReturn(c)

SyncNext(c) == (\E n \in Allowed : SyncCall(c, n)) \/ SyncPark(c) \/ SyncReturn(c)

WaitNext(t) == Sleep(t) \/ Relock(t)

WorkerNext ==
    \/ WorkerLoop \/ (\E fails \in BOOLEAN : RunTask(fails)) \/ Report \/ Announce
    \/ WorkerLock \/ WorkerPark \/ WorkerUnlock

DestroyNext == DestroyCall \/ DestroyNotify \/ DestroyJoin \/ DestroyNode

Next ==
    \/ \E c \in Enqueuers : EnqueueNext(c)
    \/ \E c \in Syncers : SyncNext(c)
    \/ \E t \in Threads : WaitNext(t) \/ SpuriousWakeup(t)
    \/ WorkerNext
    \/ DestroyNext

Spec == Init /\ [][Next]_vars

\* The steps of a thread inside the queue that need the mutex, and the others.
LockSteps(t) ==
    \/ Relock(t)
    \/ t \in Enqueuers /\ Fence(t)
    \/ t = Worker /\ (Report \/ WorkerLock)
FreeSteps(t) ==
    \/ Sleep(t)
    \/ t \in Enqueuers /\ (Exchange(t) \/ Link(t) \/ EnqueueReturn(t))
    \/ t \in Syncers /\ (SyncPark(t) \/ SyncReturn(t))
    \/ /\ t = Worker
       /\ \/ WorkerLoop \/ (\E fails \in BOOLEAN : RunTask(fails)) \/ Announce
          \/ WorkerPark \/ WorkerUnlock

\* Every thread that is inside the queue is scheduled, and a thread that keeps
\* trying to lock the mutex gets it at some time.  Nobody has to call enqueue,
\* sync or the destructor, and no spurious wakeup is owed.
Fairness ==
    /\ \A t \in Threads : WF_vars(FreeSteps(t)) /\ SF_vars(LockSteps(t))
    /\ WF_vars(DestroyNotify \/ DestroyJoin \/ DestroyNode)

LiveSpec == Spec /\ Fairness

-----------------------------------------------------------------------------
(* Properties *)

ClientStates == {"idle", "exchange", "link", "fence", "notify", "check", "park", "asleep"}
WorkerStates == {"loop", "run", "report", "announce", "lock", "check", "park", "asleep", "exit"}

\* Every variable of the queue holds a value of its kind; pending, a size_t,
\* does not wrap below zero.
TypeOK ==
    /\ next \in [Nodes -> Nodes] /\ live \subseteq Nodes /\ tail \in Nodes /\ head \in Nodes
    /\ pending \in 0 .. MaxTasks /\ done \in BOOLEAN
    /\ mtx \in Threads \cup {Nobody} /\ waiters \subseteq Threads
    /\ firstException \in Nodes
    /\ pc \in [Threads -> ClientStates \cup WorkerStates]
    /\ node \in [Clients -> Nodes] /\ prev \in [Clients -> Nodes]
    /\ allow \in [Clients -> Allowed \cup {0}]
    /\ threw \in BOOLEAN /\ owner \in {"alive", "notify", "join", "free", "freed"} /\ cursor \in Nodes
    /\ allocated \in Nodes
    /\ order \in Seq(Tasks) /\ ran \in Seq(Tasks)
    /\ before \in [Clients -> SUBSET Tasks] /\ returned \subseteq Tasks
    /\ unreported \in Seq(Tasks)

\* No thread uses a node after the worker has deleted it: an enqueue still
\* holds the node it has been exchanged for until it has linked its own, and
\* the worker reads next and task of allocated nodes only.  The destructor
\* deletes no node twice, and when it has returned every node is deleted.
NodeLifetimes ==
    /\ \A c \in Enqueuers : pc[c] = "link" => prev[c] \in live /\ node[c] \in live
    /\ pc[Worker] \in {"loop", "run", "check", "park"} => head \in live
    /\ pc[Worker] = "run" => next[head] \in live
    /\ owner = "free" => cursor \in live
    /\ owner = "freed" => live = {}

\* The exception that the next sync will rethrow is the first one since the
\* last sync, and none of the failures since then goes unnoticed.
FirstFailure ==
    firstException = IF unreported = << >> THEN 0 ELSE unreported[1]

\* When sync(n) returns and the queue is not being destroyed, at most n of the
\* tasks that had been enqueued before the call have still to run.
SyncDrains ==
    [][\A c \in Syncers : SyncReturn(c) /\ ~done =>
          Cardinality(before[c] \ Finished) <= allow[c]]_vars

\* The queue implements a FIFO executor: the tasks run one after the other in
\* the order in which they entered the list.
Fifo == INSTANCE FifoExecutor WITH submitted <- order, completed <- ran, shutdown <- done
RunsInOrder == Fifo!Spec

\* A client is inside sync while another is inside enqueue.
Overlap ==
    \E c \in Syncers : /\ pc[c] \in {"check", "park", "asleep"}
                       /\ \E e \in Enqueuers : pc[e] \in {"exchange", "link", "fence", "notify"}

\* A task whose enqueue has returned is run, unless the queue is destroyed.
TasksRun == \A t \in Tasks : t \in returned ~> t \in Finished \/ done

\* ... at least when no thread enqueues while another waits in sync.
TasksRunApart == []~Overlap => TasksRun

\* ... and then every call of sync returns.
SyncReturns ==
    []~Overlap => \A c \in Syncers : pc[c] \in {"check", "park", "asleep"} ~> pc[c] = "idle"
=============================================================================
