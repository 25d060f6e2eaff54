--------------------------- MODULE TaskQueueProof ---------------------------
(***************************************************************************)
(* The safety of TaskQueue, proved for any number of enqueuing and         *)
(* synchronising threads and of tasks: nobody uses a deleted node, tasks   *)
(* run in the order of the list, sync waits for what it promises, and the  *)
(* first exception is the one that is kept.                                *)
(***************************************************************************)
EXTENDS TaskQueue, Integers, FiniteSetTheorems, TLAPS

-----------------------------------------------------------------------------
(* The inductive invariant *)

\* The node at position k of the list s, with the dummy at position 0.  The
\* nodes before position Done have been deleted by the worker.
Last == Len(order)
Done == Len(ran)
At(s, k) == IF k = 0 THEN 0 ELSE s[k]

EnqueueStates == {"exchange", "link", "fence", "notify"}
New == {c \in Enqueuers : pc[c] = "exchange"}
Linking == {c \in Enqueuers : pc[c] = "link"}

PlaceInv ==
    /\ pc[Worker] \in WorkerStates
    /\ \A c \in Clients : pc[c] \in ClientStates /\ (pc[c] \in EnqueueStates => c \in Enqueuers)
    /\ owner # "alive" => \A c \in Clients : pc[c] \notin EnqueueStates
    /\ owner \in {"free", "freed"} => pc[Worker] = "exit"
    /\ pc[Worker] = "report" => Done > 0

\* The tasks enter the list once each, in the order in which they will run.
OrderInv ==
    /\ \A k \in 1 .. Last : order[k] \in 1 .. allocated
    /\ Done <= Last
    /\ \A k \in 1 .. Done : ran[k] = order[k]
    /\ \A j, k \in 1 .. Last : order[j] = order[k] => j = k
    /\ \A c \in New : node[c] \in 1 .. allocated /\ \A k \in 1 .. Last : order[k] # node[c]
    /\ \A c, d \in New \cup Linking : node[c] = node[d] => c = d

\* The links: the successor of a node is its successor in the list, or null as
\* long as the enqueue that replaced it as tail has not linked its own node.
Owes(p, n, s, k) == p = At(s, k) /\ n = At(s, k + 1)

LinkInv ==
    /\ head = At(order, Done) /\ tail = At(order, Last)
    /\ \A k \in 0 .. Last - 1 :
         \/ next[At(order, k)] = At(order, k + 1)
         \/ next[At(order, k)] = 0 /\ k >= Done /\ \E c \in Linking : Owes(prev[c], node[c], order, k)
    /\ next[At(order, Last)] = 0
    /\ \A c \in Linking : \E k \in Done .. Last - 1 : Owes(prev[c], node[c], order, k) /\ next[At(order, k)] = 0
    /\ \A c \in New : next[node[c]] = 0
    /\ \A n \in Nodes : n > allocated => next[n] = 0
    /\ pc[Worker] = "run" => next[head] # 0

\* Exactly the nodes from head on are allocated, and those not yet in the list.
LiveInv ==
    /\ owner \in {"alive", "notify", "join"} =>
         live = {At(order, k) : k \in Done .. Last} \cup {node[c] : c \in New}
    /\ owner = "free" =>
         \E j \in Done .. Last : cursor = At(order, j) /\ live = {At(order, k) : k \in j .. Last}
    /\ owner = "freed" => live = {}

\* pending counts the tasks that have not run, and the one that has run and is
\* not yet reported.
Unfinished == (1 .. allocated) \ Finished
CountInv ==
    /\ pending = Cardinality(Unfinished) + IF pc[Worker] = "report" THEN 1 ELSE 0
    /\ returned \subseteq 1 .. allocated
    /\ \A c \in Clients : before[c] \subseteq returned
    /\ \A c \in Clients : pc[c] \in EnqueueStates => node[c] \in 1 .. allocated

FailureInv ==
    /\ \A k \in DOMAIN unreported : unreported[k] # 0
    /\ FirstFailure

IInv == TypeOK /\ PlaceInv /\ OrderInv /\ LinkInv /\ LiveInv /\ CountInv /\ FailureInv

-----------------------------------------------------------------------------
(* Facts about the invariant *)

\* The cases of a step: the steps that leave the list alone, and the others.
Quiet ==
    \/ \E c \in Enqueuers : Fence(c) \/ EnqueueReturn(c)
    \/ \E c \in Syncers : (\E n \in Allowed : SyncCall(c, n)) \/ SyncPark(c) \/ SyncReturn(c)
    \/ \E t \in Threads : Sleep(t) \/ Relock(t) \/ SpuriousWakeup(t)
    \/ WorkerLoop \/ Report \/ Announce \/ WorkerLock \/ WorkerPark \/ WorkerUnlock
    \/ DestroyCall \/ DestroyNotify
    \/ UNCHANGED vars

\* Every step of the queue is one of these.
LEMMA NextCases ==
    ASSUME [Next]_vars
    PROVE  \/ Quiet
           \/ \E c \in Enqueuers : EnqueueCall(c) \/ Exchange(c) \/ Link(c)
           \/ \E fails \in BOOLEAN : RunTask(fails)
           \/ DestroyJoin \/ DestroyNode
BY DEF Next, EnqueueNext, SyncNext, WaitNext, WorkerNext, DestroyNext, Quiet

\* The worker is no client.
LEMMA ThreadSets ==
    /\ Enqueuers \subseteq Clients /\ Syncers \subseteq Clients
    /\ Clients \subseteq Threads /\ Worker \in Threads /\ Worker \notin Clients
BY ClientAssumption DEF Clients, Threads

\* The positions of the list are the nodes of the tasks that have entered it,
\* no node occurs twice, and the new nodes are not among them.
LEMMA AtFacts ==
    ASSUME IInv
    PROVE  /\ Last \in Nat /\ Done \in Nat /\ Done <= Last
           /\ allocated \in Nat /\ allocated <= MaxTasks
           /\ At(order, 0) = 0
           /\ \A k \in 1 .. Last : At(order, k) = order[k] /\ At(order, k) \in 1 .. allocated
           /\ \A k \in 0 .. Last : At(order, k) \in Nodes /\ At(order, k) <= allocated
           /\ \A j, k \in 0 .. Last : At(order, j) = At(order, k) => j = k
           /\ \A c \in New : \A k \in 0 .. Last : node[c] # At(order, k)
<1>1. /\ Last \in Nat /\ Done \in Nat /\ Done <= Last
      /\ allocated \in Nat /\ allocated <= MaxTasks
  BY SizeAssumption DEF IInv, TypeOK, OrderInv, Last, Done, Nodes
<1>2. At(order, 0) = 0 BY DEF At
<1>3. \A k \in 1 .. Last : At(order, k) = order[k] /\ At(order, k) \in 1 .. allocated
  BY <1>1 DEF At, IInv, OrderInv, Last
<1>4. \A k \in 0 .. Last : k = 0 \/ k \in 1 .. Last
  BY <1>1
<1>5. \A k \in 0 .. Last : At(order, k) \in Nodes /\ At(order, k) <= allocated
  BY <1>1, <1>2, <1>3, <1>4, SizeAssumption DEF Nodes
<1>6. \A j, k \in 0 .. Last : At(order, j) = At(order, k) => j = k
  <2>1. \A j, k \in 1 .. Last : At(order, j) = At(order, k) => j = k
    BY <1>3 DEF IInv, OrderInv
  <2> QED BY <1>1, <1>2, <1>3, <1>4, <2>1
<1>7. \A c \in New : \A k \in 0 .. Last : node[c] # At(order, k)
  BY <1>1, <1>2, <1>3, <1>4 DEF IInv, OrderInv
<1> QED BY <1>1, <1>2, <1>3, <1>5, <1>6, <1>7

\* Where the successor of a node is known, it is the next one of the list: the
\* worker never follows a link to anything else.
LEMMA NextOfHead ==
    ASSUME IInv
    PROVE  /\ head \in Nodes
           /\ next[head] # 0 => Done < Last /\ next[head] = At(order, Done + 1)
           /\ pc[Worker] = "report" => head \in Tasks
<1>1. head = At(order, Done) /\ head \in Nodes BY DEF IInv, LinkInv, TypeOK
<1>2. ASSUME next[head] # 0 PROVE Done < Last /\ next[head] = At(order, Done + 1)
  <2>1. Done # Last BY <1>1, <1>2 DEF IInv, LinkInv
  <2>2. Done \in 0 .. Last - 1 BY <2>1, AtFacts
  <2> QED BY <1>1, <1>2, <2>2, AtFacts DEF IInv, LinkInv
<1>3. ASSUME pc[Worker] = "report" PROVE head \in Tasks
  <2>1. Done \in 1 .. Last BY <1>3, AtFacts DEF IInv, PlaceInv
  <2>2. At(order, Done) \in 1 .. allocated BY <2>1, AtFacts
  <2> QED BY <1>1, <2>2, AtFacts, SizeAssumption DEF Tasks
<1> QED BY <1>1, <1>2, <1>3

\* The tasks that have not run are finitely many, and pending is their number,
\* or one more while the worker has not reported.
LEMMA PendingFacts ==
    ASSUME IInv
    PROVE  /\ IsFiniteSet(Unfinished) /\ Cardinality(Unfinished) \in Nat
           /\ pending \in Nat /\ pending <= allocated
           /\ pc[Worker] = "report" => pending > 0
<1>0. allocated \in Nat BY AtFacts
<1>1. IsFiniteSet(1 .. allocated) /\ Cardinality(1 .. allocated) = allocated
  BY <1>0, FS_Interval
<1>2. Unfinished \in SUBSET (1 .. allocated) BY DEF Unfinished
<1>3. IsFiniteSet(Unfinished) /\ Cardinality(Unfinished) <= allocated
  BY <1>1, <1>2, FS_Subset
<1>4. Cardinality(Unfinished) \in Nat BY <1>3, FS_CardinalityType
<1>5. pc[Worker] = "report" => Cardinality(Unfinished) + 1 <= allocated
  <2> SUFFICES ASSUME pc[Worker] = "report" PROVE Cardinality(Unfinished) + 1 <= allocated
    OBVIOUS
  <2>1. Done \in 1 .. Done /\ ran[Done] \in 1 .. allocated
    BY AtFacts DEF IInv, PlaceInv, OrderInv
  <2>2. ran[Done] \in Finished
    <3>1. DOMAIN ran = 1 .. Done BY DEF IInv, TypeOK, Done
    <3> QED BY <2>1, <3>1 DEF Finished
  <2> DEFINE Others == (1 .. allocated) \ {ran[Done]}
  <2>3. Unfinished \in SUBSET Others
    BY <2>2 DEF Unfinished
  <2>4. IsFiniteSet(Others) /\ Cardinality(Others) = allocated - 1
    BY <1>1, <2>1, FS_RemoveElement
  <2> HIDE DEF Others
  <2>5. Cardinality(Unfinished) <= Cardinality(Others)
    BY <2>3, <2>4, FS_Subset
  <2> QED BY <1>0, <1>4, <2>4, <2>5
<1>6. pending = Cardinality(Unfinished) + IF pc[Worker] = "report" THEN 1 ELSE 0
  BY DEF IInv, CountInv
<1> QED BY <1>0, <1>3, <1>4, <1>5, <1>6

-----------------------------------------------------------------------------
(* Steps that leave the list alone *)

\* A thread that moves outside the two states in which it owns an unlinked node
\* changes neither set.
LEMMA SetsSame ==
    ASSUME TypeOK, NEW t \in Threads, NEW to,
           pc' = [pc EXCEPT ![t] = to],
           pc[t] \notin {"exchange", "link"}, to \notin {"exchange", "link"}
    PROVE  New' = New /\ Linking' = Linking
BY ThreadSets DEF TypeOK, New, Linking

\* A quiet step changes neither the list nor who is about to extend it, and the
\* worker goes to run a task only when it has seen one.
LEMMA QuietFacts ==
    ASSUME IInv, Quiet
    PROVE  /\ UNCHANGED <<next, live, tail, head, node, prev, cursor, allocated, order, ran>>
           /\ New' = New /\ Linking' = Linking
           /\ pc'[Worker] = "run" => next[head] # 0
           /\ owner' = owner \/ {owner, owner'} \subseteq {"alive", "notify", "join"}
<1>t. TypeOK BY DEF IInv
<1>r. pc[Worker] = "run" => next[head] # 0 BY DEF IInv, LinkInv
<1> DEFINE Goal ==
      /\ UNCHANGED <<next, live, tail, head, node, prev, cursor, allocated, order, ran>>
      /\ New' = New /\ Linking' = Linking
      /\ pc'[Worker] = "run" => next[head] # 0
      /\ owner' = owner \/ {owner, owner'} \subseteq {"alive", "notify", "join"}
<1>0. ASSUME NEW t \in Threads, NEW from, NEW to, Step(t, from, to),
             from \notin {"exchange", "link"}, to \notin {"exchange", "link"},
             to = "run" => next[head] # 0,
             UNCHANGED <<list, enq, dtor, allocated, order, ran>>
      PROVE  Goal
  <2>1. New' = New /\ Linking' = Linking BY <1>0, <1>t, SetsSame DEF Step
  <2>2. pc'[Worker] = "run" => next[head] # 0 BY <1>0, <1>t, <1>r DEF Step, TypeOK
  <2> QED BY <1>0, <2>1, <2>2 DEF list, enq, dtor
<1>1. ASSUME NEW c \in Enqueuers, Fence(c) \/ EnqueueReturn(c) PROVE Goal
  BY <1>1, <1>0, ThreadSets DEF Fence, EnqueueReturn, history
<1>2. ASSUME NEW c \in Syncers, NEW n \in Allowed, SyncCall(c, n) PROVE Goal
  BY <1>2, <1>0, ThreadSets DEF SyncCall, history
<1>3. ASSUME NEW c \in Syncers, SyncPark(c) \/ SyncReturn(c) PROVE Goal
  BY <1>3, <1>0, ThreadSets DEF SyncPark, SyncReturn, history
<1>4. ASSUME NEW t \in Threads, Sleep(t) \/ Relock(t) PROVE Goal
  BY <1>4, <1>0 DEF Sleep, Relock, history
<1>5. CASE WorkerLoop
  <2>1. CASE done BY <1>5, <1>0, <2>1, ThreadSets DEF WorkerLoop, history
  <2>2. CASE ~done /\ next[head] # 0 BY <1>5, <1>0, <2>2, ThreadSets DEF WorkerLoop, history
  <2>3. CASE ~done /\ next[head] = 0 BY <1>5, <1>0, <2>3, ThreadSets DEF WorkerLoop, history
  <2> QED BY <2>1, <2>2, <2>3
<1>6. CASE Report \/ Announce
  BY <1>6, <1>0, ThreadSets DEF Report, Announce, history
<1>7. CASE WorkerLock \/ WorkerPark \/ WorkerUnlock
  BY <1>7, <1>0, ThreadSets DEF WorkerLock, WorkerPark, WorkerUnlock, history
<1>8. ASSUME (\E t \in Threads : SpuriousWakeup(t)) \/ UNCHANGED vars PROVE Goal
  <2>1. UNCHANGED <<list, enq, dtor, allocated, order, ran, pc>>
    BY <1>8 DEF SpuriousWakeup, vars, history
  <2> QED BY <2>1, <1>r DEF New, Linking, list, enq, dtor
<1>9. CASE DestroyCall \/ DestroyNotify
  <2>1. UNCHANGED <<list, enq, cursor, allocated, order, ran, pc>>
    BY <1>9 DEF DestroyCall, DestroyNotify, history
  <2>2. {owner, owner'} \subseteq {"alive", "notify", "join"}
    BY <1>9 DEF DestroyCall, DestroyNotify
  <2> QED BY <2>1, <2>2, <1>r DEF New, Linking, list, enq
<1> QED BY <1>1, <1>2, <1>3, <1>4, <1>5, <1>6, <1>7, <1>8, <1>9 DEF Quiet

\* ... and so it keeps what the invariant says of the list.
LEMMA QuietStep ==
    ASSUME IInv, Quiet
    PROVE  OrderInv' /\ LinkInv' /\ LiveInv'
<1>0. /\ UNCHANGED <<next, live, tail, head, node, prev, cursor, allocated, order, ran>>
      /\ New' = New /\ Linking' = Linking
      /\ pc'[Worker] = "run" => next[head] # 0
      /\ owner' = owner \/ {owner, owner'} \subseteq {"alive", "notify", "join"}
  BY QuietFacts
<1>1. Last' = Last /\ Done' = Done /\ order' = order BY <1>0 DEF Last, Done, At
<1>2. OrderInv' BY <1>0, <1>1 DEF IInv, OrderInv
<1>3. LinkInv' BY <1>0, <1>1 DEF IInv, LinkInv, Owes
<1>4. LiveInv' BY <1>0, <1>1 DEF IInv, LiveInv
<1> QED BY <1>2, <1>3, <1>4

-----------------------------------------------------------------------------
(* enqueue *)

\* A new node is nobody's and in nobody's list.
LEMMA EnqueueCallStep ==
    ASSUME IInv, NEW c \in Enqueuers, EnqueueCall(c)
    PROVE  OrderInv' /\ LinkInv' /\ LiveInv'
<1>a. /\ pc[c] = "idle" /\ pc' = [pc EXCEPT ![c] = "exchange"] /\ owner = "alive"
      /\ allocated' = allocated + 1 /\ allocated < MaxTasks
      /\ node' = [node EXCEPT ![c] = allocated + 1]
      /\ live' = live \cup {allocated + 1}
      /\ UNCHANGED <<next, tail, head, prev, owner, cursor, order, ran>>
  BY DEF EnqueueCall, Step, dtor
<1>c. c \in Clients /\ c \in Threads /\ c # Worker /\ \A d \in Enqueuers : d \in Clients /\ d \in Threads
  BY ThreadSets
<1>p. pc \in [Threads -> ClientStates \cup WorkerStates] /\ node \in [Clients -> Nodes] /\ allocated \in Nat
  BY AtFacts DEF IInv, TypeOK
<1>1. New' = New \cup {c} /\ c \notin New /\ Linking' = Linking /\ c \notin Linking
  BY <1>a, <1>c, <1>p DEF New, Linking
<1>2. node'[c] = allocated + 1 /\ \A d \in Clients : d # c => node'[d] = node[d]
  BY <1>a, <1>c, <1>p
<1>3. Last' = Last /\ Done' = Done /\ order' = order
  BY <1>a DEF Last, Done, At
<1>4. \A d \in New \cup Linking : d # c /\ node'[d] = node[d] /\ node[d] \in 1 .. allocated
  BY <1>1, <1>2, <1>c DEF New, Linking, IInv, CountInv, EnqueueStates
<1>5. OrderInv'
  <2>1. \A k \in 1 .. Last' : order'[k] \in 1 .. allocated'
    BY <1>a, <1>p, <1>3 DEF IInv, OrderInv
  <2>2. \A d \in New' : node'[d] \in 1 .. allocated' /\ \A k \in 1 .. Last' : order'[k] # node'[d]
    <3>1. ASSUME NEW d \in New
          PROVE  node'[d] \in 1 .. allocated' /\ \A k \in 1 .. Last' : order'[k] # node'[d]
      BY <1>a, <1>p, <1>3, <1>4, <3>1 DEF IInv, OrderInv
    <3>2. node'[c] \in 1 .. allocated' /\ \A k \in 1 .. Last' : order'[k] # node'[c]
      BY <1>a, <1>p, <1>2, <1>3, AtFacts
    <3> QED BY <1>1, <3>1, <3>2
  <2>3. \A d, e \in New' \cup Linking' : node'[d] = node'[e] => d = e
    BY <1>1, <1>2, <1>4, <1>p DEF IInv, OrderInv
  <2> QED BY <1>a, <1>3, <2>1, <2>2, <2>3 DEF IInv, OrderInv
<1>6. LinkInv'
  <2>1. \A k, d : d \in Linking => (Owes(prev'[d], node'[d], order', k) <=> Owes(prev[d], node[d], order, k))
    BY <1>a, <1>3, <1>4 DEF Owes
  <2>2. \A d \in New' : next'[node'[d]] = 0
    <3>1. allocated + 1 \in Nodes /\ allocated + 1 > allocated
      BY <1>a, <1>p, SizeAssumption DEF Nodes
    <3> QED BY <1>a, <1>1, <1>2, <1>4, <3>1 DEF IInv, LinkInv
  <2>3. \A n \in Nodes : n > allocated' => next'[n] = 0
    BY <1>a, <1>p, SizeAssumption DEF IInv, LinkInv, Nodes
  <2>4. pc'[Worker] = pc[Worker] BY <1>a, <1>c, <1>p
  <2>5. /\ \A k \in 0 .. Last - 1 :
             \/ next'[At(order, k)] = At(order, k + 1)
             \/ next'[At(order, k)] = 0 /\ k >= Done /\ \E d \in Linking : Owes(prev'[d], node'[d], order', k)
        /\ \A d \in Linking : \E k \in Done .. Last - 1 : Owes(prev'[d], node'[d], order', k) /\ next'[At(order, k)] = 0
    BY <1>a, <2>1 DEF IInv, LinkInv
  <2> QED BY <1>a, <1>1, <1>3, <2>2, <2>3, <2>4, <2>5 DEF IInv, LinkInv
<1>7. LiveInv'
  <2>1. live = {At(order, k) : k \in Done .. Last} \cup {node[d] : d \in New}
    BY <1>a DEF IInv, LiveInv
  <2>2. {node'[d] : d \in New'} = {node[d] : d \in New} \cup {allocated + 1}
    BY <1>1, <1>2, <1>4
  <2> QED BY <1>a, <1>3, <2>1, <2>2 DEF LiveInv
<1> QED BY <1>5, <1>6, <1>7

\* The exchange of tail puts the node into the list behind the last one, whose
\* link this thread now owes.
LEMMA ExchangeStep ==
    ASSUME IInv, NEW c \in Enqueuers, Exchange(c)
    PROVE  OrderInv' /\ LinkInv' /\ LiveInv'
<1>a. /\ pc[c] = "exchange" /\ pc' = [pc EXCEPT ![c] = "link"]
      /\ prev' = [prev EXCEPT ![c] = tail] /\ tail' = node[c]
      /\ order' = Append(order, node[c])
      /\ UNCHANGED <<next, live, head, node, owner, cursor, allocated, ran>>
  BY DEF Exchange, Step, dtor
<1>c. c \in Clients /\ c \in Threads /\ c # Worker /\ \A d \in Enqueuers : d \in Clients /\ d \in Threads
  BY ThreadSets
<1>p. pc \in [Threads -> ClientStates \cup WorkerStates] /\ prev \in [Clients -> Nodes] /\ allocated \in Nat
  BY AtFacts DEF IInv, TypeOK
<1>1. /\ New' = New \ {c} /\ c \in New
      /\ Linking' = Linking \cup {c} /\ c \notin Linking
  BY <1>a, <1>c, <1>p DEF New, Linking
<1>2. prev'[c] = tail /\ \A d \in Linking : prev'[d] = prev[d]
  BY <1>a, <1>1, <1>c, <1>p DEF Linking
<1>n. node[c] \in 1 .. allocated /\ \A k \in 1 .. Last : order[k] # node[c]
  BY <1>1 DEF IInv, OrderInv
<1>m. PICK m \in Nat : m = Last BY AtFacts
<1>r. PICK r \in Nat : r = Done /\ r <= m BY <1>m, AtFacts
<1>3. /\ Last' = m + 1 /\ Done' = r
      /\ order'[m + 1] = node[c] /\ \A k \in 1 .. m : order'[k] = order[k]
  <2>1. order \in Seq(Tasks) /\ Len(order) = m BY <1>m DEF IInv, TypeOK, Last
  <2>2. Done' = r BY <1>a, <1>r DEF Done
  <2> QED BY <1>a, <1>n, <2>1, <2>2 DEF Last
<1>4. At(order', m + 1) = node[c] /\ \A k \in 0 .. m : At(order', k) = At(order, k)
  BY <1>3 DEF At
<1>o. /\ \A k \in 1 .. m : order[k] \in 1 .. allocated
      /\ \A k \in 1 .. r : ran[k] = order[k]
      /\ \A j, k \in 1 .. m : order[j] = order[k] => j = k
      /\ \A d \in New : node[d] \in 1 .. allocated /\ \A k \in 1 .. m : order[k] # node[d]
      /\ \A d, e \in New \cup Linking : node[d] = node[e] => d = e
  BY <1>m, <1>r DEF IInv, OrderInv
<1>l. /\ head = At(order, r) /\ tail = At(order, m) /\ next[At(order, m)] = 0
      /\ \A k \in 0 .. m - 1 :
           \/ next[At(order, k)] = At(order, k + 1)
           \/ next[At(order, k)] = 0 /\ k >= r /\ \E d \in Linking : Owes(prev[d], node[d], order, k)
      /\ \A d \in Linking : \E k \in r .. m - 1 :
           Owes(prev[d], node[d], order, k) /\ next[At(order, k)] = 0
  BY <1>m, <1>r DEF IInv, LinkInv
<1>5. OrderInv'
  <2>1. \A j, k \in 1 .. Last' : order'[j] = order'[k] => j = k
    BY <1>3, <1>n, <1>m, <1>o
  <2>2. \A d \in New' : node'[d] \in 1 .. allocated' /\ \A k \in 1 .. Last' : order'[k] # node'[d]
    <3> SUFFICES ASSUME NEW d \in New', NEW k \in 1 .. Last'
                 PROVE  node'[d] \in 1 .. allocated' /\ order'[k] # node'[d]
      BY <1>a, <1>1, <1>3, <1>o
    <3>1. d \in New /\ d # c BY <1>1
    <3>2. node[d] # node[c] BY <1>1, <1>o, <3>1
    <3>3. k = m + 1 \/ k \in 1 .. m BY <1>3
    <3> QED BY <1>a, <1>3, <1>o, <3>1, <3>2, <3>3
  <2>3. New' \cup Linking' = New \cup Linking BY <1>1
  <2>4. \A k \in 1 .. Done' : ran'[k] = order'[k]
    <3>1. \A k \in 1 .. r : k \in 1 .. m BY <1>r
    <3> QED BY <1>a, <1>3, <1>o, <3>1
  <2>5. Done' <= Last' BY <1>3, <1>m, <1>r
  <2>6. \A d, e \in New' \cup Linking' : node'[d] = node'[e] => d = e
    BY <1>a, <1>o, <2>3
  <2>7. \A k \in 1 .. Last' : order'[k] \in 1 .. allocated'
    <3>1. \A k \in 1 .. Last' : k = m + 1 \/ k \in 1 .. m BY <1>3
    <3> QED BY <1>a, <1>3, <1>n, <1>o, <3>1
  <2> QED BY <2>1, <2>2, <2>4, <2>5, <2>6, <2>7 DEF OrderInv
<1>6. LinkInv'
  <2>l. At(order, m) = tail /\ next[At(order, m)] = 0 /\ head = At(order, r) BY <1>l
  <2>0. r \in 0 .. m /\ m \in 0 .. m BY <1>m, <1>r
  <2>1. head' = At(order', r) /\ tail' = At(order', m + 1)
    <3>1. head' = head /\ At(order', r) = At(order, r) BY <1>a, <1>4, <2>0
    <3>2. tail' = node[c] /\ At(order', m + 1) = node[c] BY <1>a, <1>3, <1>4
    <3> QED BY <2>l, <3>1, <3>2, <1>3
  <2>2. \A k \in 0 .. m - 1, d \in Linking : Owes(prev'[d], node'[d], order', k) <=> Owes(prev[d], node[d], order, k)
    <3> SUFFICES ASSUME NEW k \in 0 .. m - 1, NEW d \in Linking
                 PROVE  Owes(prev'[d], node'[d], order', k) <=> Owes(prev[d], node[d], order, k)
      OBVIOUS
    <3>1. k \in 0 .. m /\ k + 1 \in 0 .. m BY <1>3
    <3>2. At(order', k) = At(order, k) /\ At(order', k + 1) = At(order, k + 1) BY <1>4, <3>1
    <3> QED BY <1>a, <1>2, <3>2 DEF Owes
  <2>3. Owes(prev'[c], node'[c], order', m)
    <3>1. At(order', m) = tail BY <1>4, <2>0, <2>l
    <3> QED BY <1>a, <1>2, <1>4, <3>1 DEF Owes
  <2>4. \A k \in 0 .. Last' - 1 :
          \/ next'[At(order', k)] = At(order', k + 1)
          \/ next'[At(order', k)] = 0 /\ k >= Done' /\ \E d \in Linking' : Owes(prev'[d], node'[d], order', k)
    <3> SUFFICES ASSUME NEW k \in 0 .. Last' - 1
                 PROVE  \/ next'[At(order', k)] = At(order', k + 1)
                        \/ next'[At(order', k)] = 0 /\ k >= Done' /\ \E d \in Linking' : Owes(prev'[d], node'[d], order', k)
      OBVIOUS
    <3>1. CASE k = m
      BY <1>a, <1>1, <1>3, <1>4, <2>0, <2>l, <2>3, <3>1, <1>m, <1>r
    <3>2. CASE k \in 0 .. m - 1
      <4>1. At(order', k) = At(order, k) /\ At(order', k + 1) = At(order, k + 1) BY <1>3, <1>4, <3>2
      <4>2. \/ next[At(order, k)] = At(order, k + 1)
            \/ next[At(order, k)] = 0 /\ k >= r /\ \E d \in Linking : Owes(prev[d], node[d], order, k)
        BY <1>l, <3>2
      <4> QED BY <1>a, <1>1, <1>3, <2>2, <3>2, <4>1, <4>2
    <3> QED BY <1>3, <3>1, <3>2
  <2>5. next'[At(order', m + 1)] = 0
    BY <1>a, <1>1, <1>3, <1>4 DEF IInv, LinkInv
  <2>6. \A d \in Linking' : \E k \in Done' .. Last' - 1 : Owes(prev'[d], node'[d], order', k) /\ next'[At(order', k)] = 0
    <3> SUFFICES ASSUME NEW d \in Linking'
                 PROVE  \E k \in Done' .. Last' - 1 : Owes(prev'[d], node'[d], order', k) /\ next'[At(order', k)] = 0
      OBVIOUS
    <3>1. CASE d = c
      <4>1. m \in Done' .. Last' - 1 BY <1>3, <1>m, <1>r
      <4>2. next'[At(order', m)] = 0 BY <1>a, <1>4, <2>0, <2>l
      <4> QED BY <2>3, <3>1, <4>1, <4>2
    <3>2. CASE d # c
      <4>0. d \in Linking BY <1>1, <3>2
      <4>1. PICK k \in r .. m - 1 : Owes(prev[d], node[d], order, k) /\ next[At(order, k)] = 0
        BY <1>l, <4>0
      <4>2. k \in 0 .. m - 1 /\ k \in 0 .. m /\ k \in Done' .. Last' - 1 BY <1>3, <1>m, <1>r
      <4>3. Owes(prev'[d], node'[d], order', k) BY <2>2, <4>0, <4>1, <4>2
      <4>4. next'[At(order', k)] = 0 BY <1>a, <1>4, <4>1, <4>2
      <4> QED BY <4>2, <4>3, <4>4
    <3> QED BY <3>1, <3>2
  <2>7. \A d \in New' : next'[node'[d]] = 0 BY <1>a, <1>1 DEF IInv, LinkInv
  <2>8. pc'[Worker] = pc[Worker] BY <1>a, <1>c, <1>p
  <2> QED BY <1>a, <1>3, <2>1, <2>4, <2>5, <2>6, <2>7, <2>8 DEF IInv, LinkInv
<1>7. LiveInv'
  <2>1. owner = "alive"
    BY <1>a, <1>c DEF IInv, PlaceInv, EnqueueStates
  <2>2. live = {At(order, k) : k \in r .. m} \cup {node[d] : d \in New}
    BY <1>m, <1>r, <2>1 DEF IInv, LiveInv
  <2>3. {node[d] : d \in New} = {node[d] : d \in New'} \cup {node[c]}
    BY <1>1
  <2>4. {At(order', k) : k \in r .. m + 1} = {At(order, k) : k \in r .. m} \cup {node[c]}
    <3>1. \A k \in r .. m + 1 : k = m + 1 \/ k \in r .. m BY <1>3, <1>m, <1>r
    <3>2. m + 1 \in r .. m + 1 /\ \A k \in r .. m : k \in r .. m + 1 /\ k \in 0 .. m
      BY <1>3, <1>m, <1>r
    <3> QED BY <1>4, <3>1, <3>2
  <2> QED BY <1>a, <1>3, <2>1, <2>2, <2>3, <2>4 DEF LiveInv
<1> QED BY <1>5, <1>6, <1>7

\* The store of next closes the gap that this thread's exchange has left, and
\* no other.
LEMMA LinkStep ==
    ASSUME IInv, NEW c \in Enqueuers, Link(c)
    PROVE  OrderInv' /\ LinkInv' /\ LiveInv'
<1>a. /\ pc[c] = "link" /\ pc' = [pc EXCEPT ![c] = "fence"]
      /\ next' = [next EXCEPT ![prev[c]] = node[c]]
      /\ UNCHANGED <<live, tail, head, node, prev, owner, cursor, allocated, order, ran>>
  BY DEF Link, Step, dtor, enq, history
<1>c. c \in Clients /\ c \in Threads /\ c # Worker /\ \A d \in Enqueuers : d \in Clients /\ d \in Threads
  BY ThreadSets
<1>p. /\ pc \in [Threads -> ClientStates \cup WorkerStates] /\ next \in [Nodes -> Nodes]
      /\ Last \in Nat /\ Done \in Nat /\ Done <= Last
  BY AtFacts DEF IInv, TypeOK
<1>1. New' = New /\ Linking' = Linking \ {c} /\ c \in Linking
  BY <1>a, <1>c, <1>p DEF New, Linking
<1>2. PICK q \in Done .. Last - 1 : Owes(prev[c], node[c], order, q) /\ next[At(order, q)] = 0
  BY <1>1 DEF IInv, LinkInv
<1>3. q \in 0 .. Last - 1 /\ q \in 0 .. Last /\ q + 1 \in 1 .. Last BY <1>p
<1>4. prev[c] = At(order, q) /\ node[c] = At(order, q + 1) BY <1>2 DEF Owes
<1>5. prev[c] \in Nodes /\ next'[prev[c]] = node[c] /\ \A n \in Nodes : n # prev[c] => next'[n] = next[n]
  BY <1>a, <1>p, <1>3, <1>4, AtFacts
<1>6. \A k \in 0 .. Last : k # q => next'[At(order, k)] = next[At(order, k)]
  BY <1>3, <1>4, <1>5, AtFacts
<1>7. Last' = Last /\ Done' = Done BY <1>a DEF Last, Done
<1>8. OrderInv'
  <2>1. New' \cup Linking' \subseteq New \cup Linking BY <1>1
  <2> QED BY <1>a, <1>1, <1>7, <2>1 DEF IInv, OrderInv
<1>9. \A k \in 0 .. Last - 1 :
         \/ next'[At(order, k)] = At(order, k + 1)
         \/ next'[At(order, k)] = 0 /\ k >= Done /\ \E d \in Linking' : Owes(prev[d], node[d], order, k)
  <2> SUFFICES ASSUME NEW k \in 0 .. Last - 1
               PROVE  \/ next'[At(order, k)] = At(order, k + 1)
                      \/ /\ next'[At(order, k)] = 0 /\ k >= Done
                         /\ \E d \in Linking' : Owes(prev[d], node[d], order, k)
    OBVIOUS
  <2>1. CASE k = q BY <1>4, <1>5, <2>1
  <2>2. CASE k # q
    <3>1. k \in 0 .. Last BY <1>p
    <3>2. next'[At(order, k)] = next[At(order, k)] BY <1>6, <2>2, <3>1
    <3>3. CASE next[At(order, k)] = At(order, k + 1) BY <3>2, <3>3
    <3>4. CASE next[At(order, k)] = 0 /\ k >= Done /\ \E d \in Linking : Owes(prev[d], node[d], order, k)
      <4>1. PICK d \in Linking : Owes(prev[d], node[d], order, k) BY <3>4
      <4>2. d # c
        <5>1. prev[d] = At(order, k) BY <4>1 DEF Owes
        <5> QED BY <1>3, <1>4, <2>2, <3>1, <5>1, AtFacts
      <4> QED BY <1>1, <3>2, <3>4, <4>1, <4>2
    <3> QED BY <3>3, <3>4 DEF IInv, LinkInv
  <2> QED BY <2>1, <2>2
<1>10. \A d \in Linking' : \E k \in Done .. Last - 1 :
          Owes(prev[d], node[d], order, k) /\ next'[At(order, k)] = 0
  <2> SUFFICES ASSUME NEW d \in Linking'
               PROVE  \E k \in Done .. Last - 1 :
                        Owes(prev[d], node[d], order, k) /\ next'[At(order, k)] = 0
    OBVIOUS
  <2>1. d \in Linking /\ d # c BY <1>1
  <2>2. PICK k \in Done .. Last - 1 : Owes(prev[d], node[d], order, k) /\ next[At(order, k)] = 0
    BY <2>1 DEF IInv, LinkInv
  <2>3. k # q
    <3>1. node[d] # node[c] BY <1>1, <2>1 DEF IInv, OrderInv
    <3> QED BY <1>4, <2>2, <3>1 DEF Owes
  <2> QED BY <1>6, <1>p, <2>2, <2>3
<1>11. LinkInv'
  <2>1. next'[At(order, Last)] = 0
    <3>1. Last \in 0 .. Last /\ Last # q BY <1>p, <1>3
    <3> QED BY <1>6, <3>1 DEF IInv, LinkInv
  <2>2. \A d \in New : next'[node[d]] = 0
    <3> SUFFICES ASSUME NEW d \in New PROVE next'[node[d]] = 0
      OBVIOUS
    <3>1. node[d] # prev[c] BY <1>3, <1>4, AtFacts
    <3>2. node[d] \in Nodes BY <1>c DEF New, IInv, TypeOK
    <3> QED BY <1>5, <3>1, <3>2 DEF IInv, LinkInv
  <2>3. \A n \in Nodes : n > allocated => next'[n] = 0
    <3>1. prev[c] <= allocated /\ prev[c] \in Nat BY <1>3, <1>4, <1>5, AtFacts, SizeAssumption DEF Nodes
    <3>2. \A n \in Nodes : n > allocated => n # prev[c] BY <3>1, AtFacts, SizeAssumption DEF Nodes
    <3> QED BY <1>5, <3>2 DEF IInv, LinkInv
  <2>4. pc'[Worker] = "run" => next'[head'] # 0
    <3>1. pc'[Worker] = pc[Worker] BY <1>a, <1>c, <1>p
    <3>2. ASSUME pc[Worker] = "run" PROVE next'[head] # 0
      <4>1. next[head] # 0 /\ head = At(order, Done) BY <3>2 DEF IInv, LinkInv
      <4>2. Done # q BY <1>2, <4>1
      <4>3. Done \in 0 .. Last BY <1>p
      <4> QED BY <1>6, <4>1, <4>2, <4>3
    <3> QED BY <1>a, <3>1, <3>2
  <2> QED BY <1>a, <1>1, <1>7, <1>9, <1>10, <2>1, <2>2, <2>3, <2>4 DEF IInv, LinkInv
<1>12. LiveInv' BY <1>a, <1>1, <1>7 DEF IInv, LiveInv
<1> QED BY <1>8, <1>11, <1>12

-----------------------------------------------------------------------------
(* The worker and the destructor *)

\* The worker runs the task behind head, which is the next one of the list, and
\* deletes head, which nobody needs any more.
LEMMA RunTaskStep ==
    ASSUME IInv, NEW fails, RunTask(fails)
    PROVE  OrderInv' /\ LinkInv' /\ LiveInv'
<1>a. /\ pc[Worker] = "run" /\ pc' = [pc EXCEPT ![Worker] = "report"]
      /\ live' = live \ {head} /\ head' = next[head]
      /\ ran' = Append(ran, next[head])
      /\ UNCHANGED <<next, tail, node, prev, owner, cursor, allocated, order>>
  BY DEF RunTask, Step, dtor, enq
<1>1. New' = New /\ Linking' = Linking
  BY <1>a, ThreadSets, SetsSame DEF IInv
<1>2. Done < Last /\ next[head] = At(order, Done + 1) /\ next[head] # 0 /\ head = At(order, Done)
  BY <1>a, NextOfHead DEF IInv, LinkInv
<1>m. PICK m \in Nat : m = Last BY AtFacts
<1>r. PICK r \in Nat : r = Done /\ r < m BY <1>2, <1>m, AtFacts
<1>3. /\ Last' = m /\ Done' = r + 1
      /\ ran'[r + 1] = next[head] /\ \A k \in 1 .. r : ran'[k] = ran[k]
  <2>1. ran \in Seq(Tasks) /\ Len(ran) = r BY <1>r DEF IInv, TypeOK, Done
  <2>2. next[head] \in Tasks
    <3>1. next[head] \in Nodes BY NextOfHead DEF IInv, TypeOK
    <3> QED BY <1>2, <3>1, SizeAssumption DEF Nodes, Tasks
  <2> QED BY <1>a, <1>m, <2>1, <2>2 DEF Last, Done
<1>4. OrderInv'
  <2>1. \A k \in 1 .. Done' : ran'[k] = order'[k]
    <3>1. r + 1 \in 1 .. m BY <1>r
    <3>2. ran'[r + 1] = order[r + 1] BY <1>2, <1>m, <1>r, <1>3, <3>1, AtFacts
    <3>3. \A k \in 1 .. r : ran[k] = order[k] BY <1>r DEF IInv, OrderInv
    <3>4. \A k \in 1 .. Done' : k = r + 1 \/ k \in 1 .. r BY <1>3
    <3> QED BY <1>a, <1>3, <3>2, <3>3, <3>4
  <2>2. Done' <= Last' BY <1>r, <1>3
  <2> QED BY <1>a, <1>1, <1>m, <1>3, <2>1, <2>2 DEF IInv, OrderInv
<1>5. LinkInv'
  <2>1. head' = At(order', Done') BY <1>a, <1>2, <1>r, <1>3
  <2>2. \A k \in 0 .. m - 1 :
          \/ next[At(order, k)] = At(order, k + 1)
          \/ next[At(order, k)] = 0 /\ k >= r + 1 /\ \E d \in Linking : Owes(prev[d], node[d], order, k)
    <3> SUFFICES ASSUME NEW k \in 0 .. m - 1
                 PROVE  \/ next[At(order, k)] = At(order, k + 1)
                        \/ /\ next[At(order, k)] = 0 /\ k >= r + 1
                           /\ \E d \in Linking : Owes(prev[d], node[d], order, k)
      OBVIOUS
    <3>1. \/ next[At(order, k)] = At(order, k + 1)
          \/ next[At(order, k)] = 0 /\ k >= r /\ \E d \in Linking : Owes(prev[d], node[d], order, k)
      BY <1>m, <1>r DEF IInv, LinkInv
    <3>2. CASE k = r BY <1>2, <1>r, <3>1, <3>2
    <3>3. CASE k # r
      <4>1. k >= r => k >= r + 1 BY <1>r, <3>3
      <4> QED BY <3>1, <4>1
    <3> QED BY <3>2, <3>3
  <2>3. \A d \in Linking : \E k \in r + 1 .. m - 1 :
          Owes(prev[d], node[d], order, k) /\ next[At(order, k)] = 0
    <3> SUFFICES ASSUME NEW d \in Linking
                 PROVE  \E k \in r + 1 .. m - 1 :
                          Owes(prev[d], node[d], order, k) /\ next[At(order, k)] = 0
      OBVIOUS
    <3>1. PICK k \in r .. m - 1 : Owes(prev[d], node[d], order, k) /\ next[At(order, k)] = 0
      BY <1>m, <1>r DEF IInv, LinkInv
    <3>2. k # r BY <1>2, <1>r, <3>1
    <3>3. k \in r + 1 .. m - 1 BY <1>r, <3>2
    <3> QED BY <3>1, <3>3
  <2>4. pc'[Worker] # "run" BY <1>a, ThreadSets DEF IInv, TypeOK
  <2> QED BY <1>a, <1>1, <1>m, <1>3, <2>1, <2>2, <2>3, <2>4 DEF IInv, LinkInv
<1>6. LiveInv'
  <2>1. owner \in {"alive", "notify", "join"}
    BY <1>a DEF IInv, TypeOK, PlaceInv
  <2>2. live = {At(order, k) : k \in r .. m} \cup {node[d] : d \in New}
    BY <1>m, <1>r, <2>1 DEF IInv, LiveInv
  <2>3. head = At(order, r) /\ \A d \in New : node[d] # head
    <3>1. r \in 0 .. Last BY <1>m, <1>r
    <3> QED BY <1>2, <1>r, <3>1, AtFacts
  <2>4. {At(order, k) : k \in r .. m} \ {head} = {At(order, k) : k \in r + 1 .. m}
    <3>1. \A k \in r .. m : k = r \/ k \in r + 1 .. m BY <1>r
    <3>2. \A k \in r + 1 .. m : k \in r .. m /\ At(order, k) # head
      <4>1. \A k \in r + 1 .. m : k \in 0 .. Last /\ k # r /\ r \in 0 .. Last BY <1>m, <1>r
      <4> QED BY <1>r, <1>m, <2>3, <4>1, AtFacts
    <3> QED BY <2>3, <3>1, <3>2
  <2> QED BY <1>a, <1>1, <1>3, <2>1, <2>2, <2>3, <2>4 DEF LiveInv
<1> QED BY <1>4, <1>5, <1>6

\* The loop of the destructor meets every node that is left, each once.
LEMMA DestroyStep ==
    ASSUME IInv, DestroyJoin \/ DestroyNode
    PROVE  OrderInv' /\ LinkInv' /\ LiveInv'
<1>a. /\ UNCHANGED <<next, tail, head, node, prev, allocated, order, ran, pc>>
      /\ owner \in {"join", "free"}
  BY DEF DestroyJoin, DestroyNode, list, enq, history
<1>1. New' = New /\ Linking' = Linking /\ Last' = Last /\ Done' = Done
  BY <1>a DEF New, Linking, Last, Done
<1>2. New = {} /\ Linking = {}
  BY <1>a, ThreadSets DEF New, Linking, IInv, PlaceInv, EnqueueStates
<1>3. OrderInv' /\ LinkInv'
  BY <1>a, <1>1 DEF IInv, OrderInv, LinkInv
<1>4. CASE DestroyJoin
  <2>1. cursor' = head /\ owner' = "free" /\ live' = live /\ owner = "join"
    BY <1>4 DEF DestroyJoin, list
  <2>2. live = {At(order, k) : k \in Done .. Last}
    BY <1>2, <2>1 DEF IInv, LiveInv
  <2>3. Done \in Done .. Last /\ head = At(order, Done) BY AtFacts DEF IInv, LinkInv
  <2> QED BY <1>a, <1>1, <1>3, <2>1, <2>2, <2>3 DEF LiveInv
<1>5. CASE DestroyNode
  <2>1. /\ owner = "free" /\ live' = live \ {cursor} /\ cursor' = next[cursor]
        /\ owner' = IF next[cursor] = 0 THEN "freed" ELSE "free"
    BY <1>5 DEF DestroyNode
  <2>2. PICK j \in Done .. Last : cursor = At(order, j) /\ live = {At(order, k) : k \in j .. Last}
    BY <2>1 DEF IInv, LiveInv
  <2>3. Last \in Nat /\ j \in Nat /\ j <= Last /\ j \in 0 .. Last /\ Done \in Nat BY <2>2, AtFacts
  <2>4. live' = {At(order, k) : k \in j + 1 .. Last}
    <3>1. \A k \in j .. Last : k = j \/ k \in j + 1 .. Last BY <2>3
    <3>2. \A k \in j + 1 .. Last : k \in j .. Last /\ k \in 0 .. Last /\ k # j BY <2>3
    <3>3. \A k \in j + 1 .. Last : At(order, k) # cursor BY <2>2, <2>3, <3>2, AtFacts
    <3> QED BY <2>1, <2>2, <3>1, <3>2, <3>3
  <2>5. CASE j = Last
    <3>1. next[cursor] = 0 BY <2>2, <2>5 DEF IInv, LinkInv
    <3>2. j + 1 .. Last = {} BY <2>3, <2>5
    <3> QED BY <1>3, <2>1, <2>4, <3>1, <3>2 DEF LiveInv
  <2>6. CASE j < Last
    <3>1. j \in 0 .. Last - 1 /\ j + 1 \in 1 .. Last /\ j + 1 \in Done .. Last BY <2>3, <2>6
    <3>2. next[cursor] = At(order, j + 1) BY <1>2, <2>2, <3>1 DEF IInv, LinkInv
    <3>3. next[cursor] # 0 BY <3>1, <3>2, AtFacts
    <3>4. owner' = "free" /\ cursor' = At(order, j + 1) BY <2>1, <3>2, <3>3
    <3>5. \E k \in Done' .. Last' :
            cursor' = At(order', k) /\ live' = {At(order', l) : l \in k .. Last'}
      BY <1>a, <1>1, <2>4, <3>1, <3>4
    <3> QED BY <1>3, <3>4, <3>5 DEF LiveInv
  <2> QED BY <2>3, <2>5, <2>6
<1> QED BY <1>3, <1>4, <1>5

-----------------------------------------------------------------------------
(* Types and places *)

\* The step of one thread moves its program counter and no other.
LEMMA Moves ==
    ASSUME TypeOK, NEW t \in Threads, NEW from, NEW to, Step(t, from, to)
    PROVE  /\ pc[t] = from /\ pc'[t] = to /\ \A u \in Threads : u # t => pc'[u] = pc[u]
           /\ to \in ClientStates \cup WorkerStates => pc' \in [Threads -> ClientStates \cup WorkerStates]
BY DEF Step, TypeOK

\* Every variable keeps its type; pending never wraps below zero.
LEMMA TypeStep ==
    ASSUME IInv, [Next]_vars
    PROVE  TypeOK'
<1>t. TypeOK /\ allocated \in Nat /\ allocated <= MaxTasks BY AtFacts DEF IInv
<1>s. Worker \in Threads /\ \A c \in Enqueuers \cup Syncers : c \in Clients /\ c \in Threads
  BY ThreadSets
<1>1. ASSUME NEW c \in Enqueuers, EnqueueCall(c) PROVE TypeOK'
  <2>1. allocated + 1 \in Nodes /\ pending + 1 \in 0 .. MaxTasks
    BY <1>1, <1>t, PendingFacts, SizeAssumption DEF EnqueueCall, Nodes
  <2>2. pc' \in [Threads -> ClientStates \cup WorkerStates]
    BY <1>1, <1>t, <1>s, Moves DEF EnqueueCall, ClientStates
  <2> QED BY <1>1, <1>t, <2>1, <2>2 DEF EnqueueCall, TypeOK, lock, dtor
<1>2. ASSUME NEW c \in Enqueuers, Exchange(c) PROVE TypeOK'
  <2>1. node[c] \in Nodes /\ node[c] \in Tasks
    <3>1. c \in Clients /\ pc[c] \in EnqueueStates BY <1>2, <1>s DEF Exchange, Step, EnqueueStates
    <3>2. node[c] \in 1 .. allocated BY <3>1 DEF IInv, CountInv
    <3> QED BY <1>t, <3>2, SizeAssumption DEF Nodes, Tasks
  <2>2. pc' \in [Threads -> ClientStates \cup WorkerStates]
    BY <1>2, <1>t, <1>s, Moves DEF Exchange, ClientStates
  <2>3. order' \in Seq(Tasks)
    BY <1>2, <1>t, <2>1 DEF Exchange, TypeOK
  <2> QED BY <1>2, <1>t, <2>1, <2>2, <2>3 DEF Exchange, TypeOK, lock, dtor
<1>3. ASSUME NEW c \in Enqueuers, Link(c) PROVE TypeOK'
  <2>2. pc' \in [Threads -> ClientStates \cup WorkerStates]
    BY <1>3, <1>t, <1>s, Moves DEF Link, ClientStates
  <2>3. next' \in [Nodes -> Nodes]
    BY <1>3, <1>t, <1>s DEF Link, TypeOK
  <2> QED BY <1>3, <1>t, <2>2, <2>3 DEF Link, TypeOK, lock, dtor, enq, history
<1>4. ASSUME NEW c \in Enqueuers, Fence(c) \/ EnqueueReturn(c) PROVE TypeOK'
  <2>2. pc' \in [Threads -> ClientStates \cup WorkerStates]
    BY <1>4, <1>t, <1>s, Moves DEF Fence, EnqueueReturn, ClientStates
  <2>3. CASE Fence(c)
    BY <1>t, <2>2, <2>3 DEF Fence, TypeOK, lock, dtor, enq, history, list
  <2>4. CASE EnqueueReturn(c)
    <3>1. c \in Clients /\ pc[c] \in EnqueueStates BY <2>4, <1>s DEF EnqueueReturn, Step, EnqueueStates
    <3>2. node[c] \in 1 .. allocated BY <3>1 DEF IInv, CountInv
    <3>3. node[c] \in Tasks BY <1>t, <3>2, SizeAssumption DEF Tasks
    <3>5. returned' \subseteq Tasks BY <2>4, <1>t, <3>3 DEF EnqueueReturn, TypeOK
    <3>4. waiters' \subseteq Threads BY <2>4, <1>t DEF EnqueueReturn, NotifyOne, TypeOK
    <3> QED BY <2>4, <1>t, <2>2, <3>4, <3>5 DEF EnqueueReturn, TypeOK, dtor, enq, list
  <2> QED BY <1>4, <2>3, <2>4
<1>5. ASSUME NEW c \in Syncers, NEW n \in Allowed, SyncCall(c, n) PROVE TypeOK'
  <2>2. pc' \in [Threads -> ClientStates \cup WorkerStates]
    BY <1>5, <1>t, <1>s, Moves DEF SyncCall, ClientStates
  <2>3. mtx' \in Threads \cup {Nobody} /\ allow' \in [Clients -> Allowed \cup {0}]
        /\ before' \in [Clients -> SUBSET Tasks]
    BY <1>5, <1>t, <1>s DEF SyncCall, Acquire, TypeOK
  <2> QED BY <1>5, <1>t, <2>2, <2>3 DEF SyncCall, TypeOK, dtor, enq, list
<1>6. ASSUME NEW c \in Syncers, SyncPark(c) \/ SyncReturn(c) PROVE TypeOK'
  <2>2. pc' \in [Threads -> ClientStates \cup WorkerStates]
    BY <1>6, <1>t, <1>s, Moves DEF SyncPark, SyncReturn, ClientStates
  <2>3. 0 \in Nodes BY SizeAssumption DEF Nodes
  <2>4. << >> \in Seq(Tasks) OBVIOUS
  <2> QED BY <1>6, <1>t, <2>2, <2>3, <2>4 DEF SyncPark, SyncReturn, TypeOK, lock, dtor, enq, list, history
<1>7. ASSUME NEW t \in Threads, Sleep(t) \/ Relock(t) PROVE TypeOK'
  <2>2. pc' \in [Threads -> ClientStates \cup WorkerStates]
    BY <1>7, <1>t, Moves DEF Sleep, Relock, ClientStates
  <2> QED BY <1>7, <1>t, <2>2 DEF Sleep, Relock, Acquire, TypeOK, dtor, enq, list, history
<1>8. ASSUME NEW t \in Threads, SpuriousWakeup(t) PROVE TypeOK'
  BY <1>8, <1>t DEF SpuriousWakeup, TypeOK, dtor, enq, list, history
<1>9. CASE WorkerLoop
  <2>2. pc' \in [Threads -> ClientStates \cup WorkerStates]
    BY <1>9, <1>t, <1>s, Moves DEF WorkerLoop, WorkerStates
  <2> QED BY <1>9, <1>t, <2>2 DEF WorkerLoop, TypeOK, lock, dtor, enq, list, history
<1>10. ASSUME NEW fails \in BOOLEAN, RunTask(fails) PROVE TypeOK'
  <2>2. pc' \in [Threads -> ClientStates \cup WorkerStates]
    BY <1>10, <1>t, <1>s, Moves DEF RunTask, WorkerStates
  <2>3. next[head] \in Nodes /\ next[head] # 0
    BY <1>10, <1>t DEF RunTask, Step, IInv, LinkInv, TypeOK
  <2>4. next[head] \in Tasks BY <2>3, SizeAssumption DEF Nodes, Tasks
  <2>5. ran' \in Seq(Tasks) BY <1>10, <1>t, <2>4 DEF RunTask, TypeOK
  <2> QED BY <1>10, <1>t, <2>2, <2>3, <2>5 DEF RunTask, TypeOK, lock, dtor, enq
<1>11. CASE Report
  <2>1. pc[Worker] = "report" BY <1>11 DEF Report, Step
  <2>2. pc' \in [Threads -> ClientStates \cup WorkerStates]
    BY <1>11, <1>t, <1>s, Moves DEF Report, WorkerStates
  <2>3. head \in Tasks /\ head \in Nodes BY <2>1, NextOfHead
  <2>4. pending' \in 0 .. MaxTasks
    BY <1>11, <1>t, <2>1, PendingFacts, SizeAssumption DEF Report
  <2>5. firstException' \in Nodes BY <1>11, <1>t, <2>3 DEF Report, TypeOK
  <2>6. unreported' \in Seq(Tasks)
    <3>1. unreported \in Seq(Tasks) /\ Append(unreported, head) \in Seq(Tasks)
      BY <1>t, <2>3 DEF TypeOK
    <3> QED BY <1>11, <3>1 DEF Report
  <2> QED BY <1>11, <1>t, <2>2, <2>4, <2>5, <2>6 DEF Report, TypeOK, lock, dtor, enq, list
<1>12. CASE Announce
  <2>2. pc' \in [Threads -> ClientStates \cup WorkerStates]
    BY <1>12, <1>t, <1>s, Moves DEF Announce, WorkerStates
  <2> QED BY <1>12, <1>t, <2>2 DEF Announce, NotifyAll, TypeOK, dtor, enq, list, history
<1>13. CASE WorkerLock \/ WorkerPark \/ WorkerUnlock
  <2>2. pc' \in [Threads -> ClientStates \cup WorkerStates]
    BY <1>13, <1>t, <1>s, Moves DEF WorkerLock, WorkerPark, WorkerUnlock, WorkerStates
  <2>3. mtx' \in Threads \cup {Nobody} /\ waiters' = waiters
    BY <1>13, <1>t, <1>s DEF WorkerLock, WorkerPark, WorkerUnlock, Acquire, TypeOK, lock
  <2> QED BY <1>13, <1>t, <2>2, <2>3 DEF WorkerLock, WorkerPark, WorkerUnlock, TypeOK, dtor, enq, list, history
<1>14. CASE DestroyCall
  BY <1>14, <1>t DEF DestroyCall, TypeOK, lock, enq, list, history
<1>15. CASE DestroyNotify
  BY <1>15, <1>t DEF DestroyNotify, NotifyAll, TypeOK, enq, list, history
<1>16. CASE DestroyJoin
  BY <1>16, <1>t DEF DestroyJoin, TypeOK, lock, enq, list, history
<1>17. CASE DestroyNode
  BY <1>17, <1>t DEF DestroyNode, TypeOK, lock, enq, list, history
<1>18. CASE UNCHANGED vars
  BY <1>18, <1>t DEF vars, TypeOK, lock, dtor, enq, list, history
<1> QED
  BY NextCases, <1>1, <1>2, <1>3, <1>4, <1>5, <1>6, <1>7, <1>8, <1>9, <1>10, <1>11, <1>12,
     <1>13, <1>14, <1>15, <1>16, <1>17, <1>18 DEF Quiet

\* A client that moves stays a client, and only an enqueuer is inside enqueue,
\* and only while the queue is not being destroyed.
LEMMA ClientPlace ==
    ASSUME IInv, NEW c \in Clients, NEW from, NEW to, Step(c, from, to),
           to \in ClientStates, to \in EnqueueStates => c \in Enqueuers /\ owner = "alive",
           UNCHANGED <<owner, ran>>
    PROVE  PlaceInv'
<1>1. TypeOK /\ c \in Threads /\ c # Worker BY ThreadSets DEF IInv
<1>2. pc'[c] = to /\ pc'[Worker] = pc[Worker] /\ \A d \in Clients : d # c => pc'[d] = pc[d]
  BY <1>1, Moves, ThreadSets
<1>3. Done' = Done BY DEF Done
<1> QED BY <1>2, <1>3 DEF IInv, PlaceInv

\* So does the worker, which does not move again once it has left its loop.
LEMMA WorkerPlace ==
    ASSUME IInv, NEW from, NEW to, Step(Worker, from, to),
           from # "exit", to \in WorkerStates, to = "report" => Done' > 0,
           UNCHANGED owner
    PROVE  PlaceInv'
<1>1. TypeOK /\ Worker \in Threads BY ThreadSets DEF IInv
<1>2. pc[Worker] = from /\ pc'[Worker] = to /\ \A d \in Clients : pc'[d] = pc[d]
  BY <1>1, Moves, ThreadSets
<1> QED BY <1>2 DEF IInv, PlaceInv

\* Every thread is where the code of its role can be.
LEMMA PlaceStep ==
    ASSUME IInv, [Next]_vars
    PROVE  PlaceInv'
<1>s. /\ \A c \in Enqueuers \cup Syncers : c \in Clients
      /\ \A t \in Threads : t \in Clients \/ t = Worker
  BY ThreadSets DEF Threads
<1>a. \A c \in Clients : pc[c] \in EnqueueStates => owner = "alive"
  BY DEF IInv, PlaceInv
<1> USE DEF ClientStates, WorkerStates, EnqueueStates
<1>1. ASSUME NEW c \in Enqueuers,
             EnqueueCall(c) \/ Exchange(c) \/ Link(c) \/ Fence(c) \/ EnqueueReturn(c)
      PROVE  PlaceInv'
  <2>1. \E from, to \in ClientStates : Step(c, from, to) /\ UNCHANGED <<owner, ran>>
                                       /\ (to \in EnqueueStates => owner = "alive")
    <3>1. CASE EnqueueCall(c) BY <3>1 DEF EnqueueCall, dtor
    <3>2. CASE Exchange(c) BY <1>a, <1>s, <3>2 DEF Exchange, dtor, Step
    <3>3. CASE Link(c) BY <1>a, <1>s, <3>3 DEF Link, dtor, history, Step
    <3>4. CASE Fence(c) BY <1>a, <1>s, <3>4 DEF Fence, dtor, history, Step
    <3>5. CASE EnqueueReturn(c) BY <3>5 DEF EnqueueReturn, dtor
    <3> QED BY <1>1, <3>1, <3>2, <3>3, <3>4, <3>5
  <2> HIDE DEF ClientStates, EnqueueStates
  <2> QED BY <1>s, <2>1, ClientPlace
<1>2. ASSUME NEW c \in Syncers, NEW n \in Allowed, SyncCall(c, n) PROVE PlaceInv'
  BY <1>s, <1>2, ClientPlace DEF SyncCall, dtor
<1>3. ASSUME NEW c \in Syncers, SyncPark(c) \/ SyncReturn(c) PROVE PlaceInv'
  BY <1>s, <1>3, ClientPlace DEF SyncPark, SyncReturn, dtor, history
<1>4. ASSUME NEW t \in Threads, Sleep(t) \/ Relock(t) PROVE PlaceInv'
  <2>1. CASE t \in Clients BY <1>4, <2>1, ClientPlace DEF Sleep, Relock, dtor, history
  <2>2. CASE t = Worker BY <1>4, <2>2, WorkerPlace DEF Sleep, Relock, dtor
  <2> QED BY <1>s, <2>1, <2>2
<1>5. CASE WorkerLoop
  BY <1>5, WorkerPlace DEF WorkerLoop, dtor
<1>6. ASSUME NEW fails \in BOOLEAN, RunTask(fails) PROVE PlaceInv'
  <2>1. Done' > 0
    <3>1. ran \in Seq(Tasks) /\ ran' = Append(ran, next[head]) BY <1>6 DEF RunTask, IInv, TypeOK
    <3> QED BY <3>1 DEF Done
  <2> QED BY <1>6, <2>1, WorkerPlace DEF RunTask, dtor
<1>7. CASE Report \/ Announce \/ WorkerLock \/ WorkerPark \/ WorkerUnlock
  BY <1>7, WorkerPlace DEF Report, Announce, WorkerLock, WorkerPark, WorkerUnlock, dtor
<1>8. ASSUME (\E t \in Threads : SpuriousWakeup(t)) \/ UNCHANGED vars PROVE PlaceInv'
  <2>1. UNCHANGED <<pc, owner, ran>> BY <1>8 DEF SpuriousWakeup, vars, dtor, history
  <2> QED BY <2>1 DEF IInv, PlaceInv, Done
<1>9. CASE DestroyCall \/ DestroyNotify \/ DestroyJoin \/ DestroyNode
  <2>1. UNCHANGED <<pc, ran>>
    BY <1>9 DEF DestroyCall, DestroyNotify, DestroyJoin, DestroyNode, history
  <2>2. \A c \in Clients : pc[c] \notin EnqueueStates
    BY <1>9 DEF DestroyCall, DestroyNotify, DestroyJoin, DestroyNode, IInv, PlaceInv
  <2>3. owner' \in {"free", "freed"} => pc[Worker] = "exit"
    BY <1>9 DEF DestroyCall, DestroyNotify, DestroyJoin, DestroyNode, IInv, PlaceInv
  <2> QED BY <2>1, <2>2, <2>3 DEF IInv, PlaceInv, Done
<1> QED
  BY NextCases, <1>1, <1>2, <1>3, <1>4, <1>5, <1>6, <1>7, <1>8, <1>9 DEF Quiet

-----------------------------------------------------------------------------
(* Counting and failures *)

\* The tasks that have run are those of the sequence, and a task that runs has
\* not run before.
LEMMA FinishedFacts ==
    ASSUME IInv, NEW fails, RunTask(fails)
    PROVE  /\ Finished' = Finished \cup {next[head]}
           /\ next[head] \in Unfinished
<1>1. /\ pc[Worker] = "run" /\ ran' = Append(ran, next[head])
  BY DEF RunTask, Step
<1>2. Done < Last /\ next[head] = At(order, Done + 1)
  BY <1>1, NextOfHead DEF IInv, LinkInv
<1>3. Done + 1 \in 1 .. Last /\ next[head] \in 1 .. allocated /\ next[head] = order[Done + 1]
  BY <1>2, AtFacts
<1>4. DOMAIN ran = 1 .. Done /\ Done \in Nat /\ Last \in Nat
  BY AtFacts DEF IInv, TypeOK, Done
<1>5. next[head] \notin Finished
  <2> SUFFICES ASSUME NEW i \in 1 .. Done, ran[i] = next[head] PROVE FALSE
    BY <1>4 DEF Finished
  <2>1. i \in 1 .. Last /\ ran[i] = order[i] /\ i # Done + 1
    BY <1>2, <1>4 DEF IInv, OrderInv
  <2> QED BY <1>3, <2>1 DEF IInv, OrderInv
<1>6. Finished' = Finished \cup {next[head]}
  <2>1. ran \in Seq(Tasks) /\ Len(ran) = Done BY DEF IInv, TypeOK, Done
  <2>2. DOMAIN ran' = 1 .. Done + 1 /\ ran'[Done + 1] = next[head]
    BY <1>1, <1>4, <2>1
  <2>3. \A i \in 1 .. Done : ran'[i] = ran[i] BY <1>1, <2>1
  <2>4. \A i \in 1 .. Done + 1 : i = Done + 1 \/ i \in 1 .. Done BY <1>4
  <2>5. Done + 1 \in 1 .. Done + 1 /\ \A i \in 1 .. Done : i \in 1 .. Done + 1 BY <1>4
  <2> QED BY <1>4, <2>2, <2>3, <2>4, <2>5 DEF Finished
<1> QED BY <1>3, <1>5, <1>6 DEF Unfinished

\* A step that neither allocates, runs nor reports leaves the count alone.
LEMMA CountSame ==
    ASSUME IInv, UNCHANGED <<allocated, ran, pending>>,
           pc'[Worker] = "report" <=> pc[Worker] = "report"
    PROVE  pending' = Cardinality(Unfinished') + IF pc'[Worker] = "report" THEN 1 ELSE 0
<1>1. Unfinished' = Unfinished BY DEF Unfinished, Finished
<1> QED BY <1>1 DEF IInv, CountInv

\* pending goes up before a task can be seen and down after it has run.
LEMMA PendingStep ==
    ASSUME IInv, [Next]_vars
    PROVE  pending' = Cardinality(Unfinished') + IF pc'[Worker] = "report" THEN 1 ELSE 0
<1>t. TypeOK BY DEF IInv
<1>s. /\ Worker \in Threads
      /\ \A c \in Enqueuers \cup Syncers : c \in Threads /\ c # Worker
  BY ThreadSets
<1>f. /\ IsFiniteSet(Unfinished) /\ Cardinality(Unfinished) \in Nat
      /\ pending = Cardinality(Unfinished) + IF pc[Worker] = "report" THEN 1 ELSE 0
  BY PendingFacts DEF IInv, CountInv
<1> DEFINE Goal == pending' = Cardinality(Unfinished') + IF pc'[Worker] = "report" THEN 1 ELSE 0
<1>0. ASSUME NEW c \in Threads, NEW from, NEW to, Step(c, from, to),
             c = Worker => "report" \notin {from, to}, UNCHANGED <<allocated, ran, pending>>
      PROVE  Goal
  <2>1. pc'[Worker] = "report" <=> pc[Worker] = "report" BY <1>0, <1>t, <1>s, Moves
  <2> QED BY <1>0, <2>1, CountSame
<1>1. ASSUME NEW c \in Enqueuers, EnqueueCall(c) PROVE Goal
  <2>1. pc'[Worker] = pc[Worker] BY <1>1, <1>t, <1>s, Moves DEF EnqueueCall
  <2>2. allocated' = allocated + 1 /\ ran' = ran /\ pending' = pending + 1 BY <1>1 DEF EnqueueCall
  <2>3. allocated \in Nat /\ allocated + 1 \notin 1 .. allocated
        /\ 1 .. allocated + 1 = (1 .. allocated) \cup {allocated + 1}
    BY AtFacts
  <2>4. Finished' = Finished /\ allocated + 1 \notin Finished
    <3>1. DOMAIN ran = 1 .. Done BY DEF IInv, TypeOK, Done
    <3>2. \A k \in 1 .. Done : k \in 1 .. Last BY AtFacts
    <3>3. \A k \in 1 .. Done : ran[k] \in 1 .. allocated BY <3>2 DEF IInv, OrderInv
    <3> QED BY <2>2, <2>3, <3>1, <3>3 DEF Finished
  <2>5. Unfinished' = Unfinished \cup {allocated + 1} /\ allocated + 1 \notin Unfinished
    BY <2>2, <2>3, <2>4 DEF Unfinished
  <2>6. Cardinality(Unfinished') = Cardinality(Unfinished) + 1
    BY <1>f, <2>5, FS_AddElement
  <2> QED BY <1>f, <2>1, <2>2, <2>6
<1>2. ASSUME NEW c \in Enqueuers, Exchange(c) \/ Link(c) \/ Fence(c) \/ EnqueueReturn(c) PROVE Goal
  BY <1>0, <1>s, <1>2 DEF Exchange, Link, Fence, EnqueueReturn, history
<1>3. ASSUME NEW c \in Syncers, NEW n \in Allowed, SyncCall(c, n) PROVE Goal
  BY <1>0, <1>s, <1>3 DEF SyncCall, history
<1>4. ASSUME NEW c \in Syncers, SyncPark(c) \/ SyncReturn(c) PROVE Goal
  BY <1>0, <1>s, <1>4 DEF SyncPark, SyncReturn, history
<1>5. ASSUME NEW c \in Threads, Sleep(c) \/ Relock(c) PROVE Goal
  BY <1>0, <1>5 DEF Sleep, Relock, history
<1>6. CASE WorkerLoop \/ Announce \/ WorkerLock \/ WorkerPark \/ WorkerUnlock
  BY <1>0, <1>s, <1>6 DEF WorkerLoop, Announce, WorkerLock, WorkerPark, WorkerUnlock, history
<1>7. ASSUME NEW fails \in BOOLEAN, RunTask(fails) PROVE Goal
  <2>1. /\ pc[Worker] = "run" /\ pc'[Worker] = "report"
        /\ allocated' = allocated /\ pending' = pending
    BY <1>7, <1>t, <1>s, Moves DEF RunTask
  <2>2. Unfinished' = Unfinished \ {next[head]} /\ next[head] \in Unfinished
    BY <1>7, <2>1, FinishedFacts DEF Unfinished
  <2>3. Cardinality(Unfinished') = Cardinality(Unfinished) - 1
    BY <1>f, <2>2, FS_RemoveElement
  <2> QED BY <1>f, <2>1, <2>3
<1>8. CASE Report
  <2>1. /\ pc[Worker] = "report" /\ pc'[Worker] = "announce" /\ pending' = pending - 1
        /\ allocated' = allocated /\ ran' = ran
    BY <1>8, <1>t, <1>s, Moves DEF Report
  <2>2. Unfinished' = Unfinished BY <2>1 DEF Unfinished, Finished
  <2> QED BY <1>f, <2>1, <2>2
<1>9. ASSUME (\E c \in Threads : SpuriousWakeup(c)) \/ UNCHANGED vars PROVE Goal
  BY <1>9, CountSame DEF SpuriousWakeup, vars, history
<1>10. CASE DestroyCall \/ DestroyNotify \/ DestroyJoin \/ DestroyNode
  BY <1>10, CountSame DEF DestroyCall, DestroyNotify, DestroyJoin, DestroyNode, history
<1> QED
  BY NextCases, <1>1, <1>2, <1>3, <1>4, <1>5, <1>6, <1>7, <1>8, <1>9, <1>10 DEF Quiet

\* What an enqueue has returned, and what a sync has seen returned, is allocated.
LEMMA CountStep ==
    ASSUME IInv, [Next]_vars
    PROVE  CountInv'
<1>t. TypeOK /\ allocated \in Nat BY AtFacts DEF IInv
<1>s. /\ Worker \in Threads /\ Worker \notin Clients
      /\ \A c \in Enqueuers \cup Syncers : c \in Clients
      /\ \A c \in Clients : c \in Threads
  BY ThreadSets
<1>i. /\ returned \subseteq 1 .. allocated
      /\ \A c \in Clients : before[c] \subseteq returned
      /\ \A c \in Clients : pc[c] \in EnqueueStates => node[c] \in 1 .. allocated
  BY DEF IInv, CountInv
<1> DEFINE Goal == /\ returned' \subseteq 1 .. allocated'
                   /\ \A c \in Clients : before'[c] \subseteq returned'
                   /\ \A c \in Clients : pc'[c] \in EnqueueStates => node'[c] \in 1 .. allocated'
<1>0. ASSUME NEW t \in Threads, NEW from, NEW to, Step(t, from, to),
             to \in EnqueueStates => from \in EnqueueStates
      PROVE  \A c \in Clients : pc'[c] \in EnqueueStates => pc[c] \in EnqueueStates
  BY <1>0, <1>t, <1>s, Moves
<1>1. ASSUME NEW c \in Enqueuers, EnqueueCall(c) PROVE Goal
  <2>1. /\ allocated' = allocated + 1 /\ returned' = returned /\ before' = before
        /\ node' = [node EXCEPT ![c] = allocated + 1]
    BY <1>1 DEF EnqueueCall
  <2>2. \A d \in Clients : d # c => pc'[d] = pc[d] /\ node'[d] = node[d]
    BY <1>1, <1>t, <1>s, <2>1, Moves DEF EnqueueCall, TypeOK
  <2>3. node'[c] = allocated + 1 BY <2>1, <1>t, <1>s DEF TypeOK
  <2> QED BY <1>i, <1>t, <2>1, <2>2, <2>3
<1>2. ASSUME NEW c \in Enqueuers, Exchange(c) \/ Link(c) \/ Fence(c) PROVE Goal
  <2>1. \A d \in Clients : pc'[d] \in EnqueueStates => pc[d] \in EnqueueStates
    BY <1>0, <1>2, <1>s DEF Exchange, Link, Fence, EnqueueStates
  <2> QED BY <1>i, <1>2, <2>1 DEF Exchange, Link, Fence, enq, history
<1>3. ASSUME NEW c \in Enqueuers, EnqueueReturn(c) PROVE Goal
  <2>1. \A d \in Clients : pc'[d] \in EnqueueStates => pc[d] \in EnqueueStates
    BY <1>0, <1>3, <1>s DEF EnqueueReturn, EnqueueStates
  <2>2. node[c] \in 1 .. allocated BY <1>3, <1>i, <1>s DEF EnqueueReturn, Step, EnqueueStates
  <2>3. /\ returned' = returned \cup {node[c]}
        /\ UNCHANGED <<node, allocated, before>>
    BY <1>3 DEF EnqueueReturn, enq
  <2> QED BY <1>i, <2>1, <2>2, <2>3
<1>4. ASSUME NEW c \in Syncers, NEW n \in Allowed, SyncCall(c, n) PROVE Goal
  <2>1. \A d \in Clients : pc'[d] \in EnqueueStates => pc[d] \in EnqueueStates
    BY <1>0, <1>4, <1>s DEF SyncCall, EnqueueStates
  <2>2. before' = [before EXCEPT ![c] = returned] /\ UNCHANGED <<node, allocated, returned>>
    BY <1>4 DEF SyncCall, enq
  <2>3. \A d \in Clients : before'[d] \subseteq returned
    BY <1>i, <1>t, <2>2 DEF TypeOK
  <2> QED BY <1>i, <2>1, <2>2, <2>3
<1>5. ASSUME NEW c \in Syncers, SyncPark(c) \/ SyncReturn(c) PROVE Goal
  <2>1. \A d \in Clients : pc'[d] \in EnqueueStates => pc[d] \in EnqueueStates
    BY <1>0, <1>5, <1>s DEF SyncPark, SyncReturn, EnqueueStates
  <2> QED BY <1>i, <1>5, <2>1 DEF SyncPark, SyncReturn, enq, history
<1>6. ASSUME NEW t \in Threads, Sleep(t) \/ Relock(t) PROVE Goal
  <2>1. \A d \in Clients : pc'[d] \in EnqueueStates => pc[d] \in EnqueueStates
    BY <1>0, <1>6 DEF Sleep, Relock, EnqueueStates
  <2> QED BY <1>i, <1>6, <2>1 DEF Sleep, Relock, enq, history
<1>7. ASSUME NEW t \in Threads, SpuriousWakeup(t) PROVE Goal
  BY <1>i, <1>7 DEF SpuriousWakeup, enq, history
<1>8. ASSUME WorkerNext PROVE Goal
  <2>1. \A d \in Clients : pc'[d] = pc[d]
    BY <1>8, <1>t, <1>s, Moves
    DEF WorkerNext, WorkerLoop, RunTask, Report, Announce, WorkerLock, WorkerPark, WorkerUnlock
  <2>2. UNCHANGED <<node, allocated, returned, before>>
    BY <1>8 DEF WorkerNext, WorkerLoop, RunTask, Report, Announce, WorkerLock, WorkerPark,
                WorkerUnlock, enq, history
  <2> QED BY <1>i, <2>1, <2>2
<1>9. ASSUME DestroyNext \/ UNCHANGED vars PROVE Goal
  <2>1. UNCHANGED <<pc, node, allocated, returned, before>>
    BY <1>9 DEF DestroyNext, DestroyCall, DestroyNotify, DestroyJoin, DestroyNode, enq, history, vars
  <2> QED BY <1>i, <2>1
<1>10. Goal
  BY <1>1, <1>2, <1>3, <1>4, <1>5, <1>6, <1>7, <1>8, <1>9
  DEF Next, EnqueueNext, SyncNext, WaitNext
<1> QED BY <1>10, PendingStep DEF CountInv

\* The exception that is kept is the first of those no sync has seen.
LEMMA FailureStep ==
    ASSUME IInv, [Next]_vars
    PROVE  FailureInv'
<1>i. /\ unreported \in Seq(Tasks) /\ \A k \in DOMAIN unreported : unreported[k] # 0
      /\ firstException = IF unreported = << >> THEN 0 ELSE unreported[1]
  BY DEF IInv, TypeOK, FailureInv, FirstFailure
<1>1. CASE Report
  <2>1. head \in Tasks /\ head # 0
    BY <1>1, NextOfHead, SizeAssumption DEF Report, Step, Tasks
  <2>2. CASE threw
    <3>1. /\ unreported' = Append(unreported, head)
          /\ firstException' = IF firstException = 0 THEN head ELSE firstException
      BY <1>1, <2>2 DEF Report
    <3>2. unreported' # << >> BY <1>i, <2>1, <3>1
    <3>3. \A k \in DOMAIN unreported' : unreported'[k] # 0
      BY <1>i, <2>1, <3>1
    <3>4. CASE unreported = << >>
      BY <1>i, <2>1, <3>1, <3>2, <3>3, <3>4 DEF FailureInv, FirstFailure
    <3>5. CASE unreported # << >>
      <4>1. 1 \in DOMAIN unreported /\ Len(unreported) \in Nat /\ 1 <= Len(unreported) BY <1>i, <3>5
      <4>2. unreported'[1] = unreported[1] BY <1>i, <2>1, <3>1, <4>1
      <4> QED BY <1>i, <3>1, <3>2, <3>3, <3>5, <4>1, <4>2 DEF FailureInv, FirstFailure
    <3> QED BY <3>4, <3>5
  <2>3. CASE ~threw
    BY <1>i, <1>1, <2>3 DEF Report, FailureInv, FirstFailure
  <2> QED BY <2>2, <2>3
<1>2. ASSUME NEW c \in Syncers, SyncReturn(c) PROVE FailureInv'
  BY <1>2 DEF SyncReturn, FailureInv, FirstFailure
<1>3. ASSUME UNCHANGED <<firstException, unreported>> PROVE FailureInv'
  BY <1>i, <1>3 DEF FailureInv, FirstFailure
<1>4. ASSUME NEW c \in Enqueuers, EnqueueNext(c) PROVE FailureInv'
  BY <1>3, <1>4 DEF EnqueueNext, EnqueueCall, Exchange, Link, Fence, EnqueueReturn, history
<1>5. ASSUME NEW c \in Syncers, (\E n \in Allowed : SyncCall(c, n)) \/ SyncPark(c) PROVE FailureInv'
  BY <1>3, <1>5 DEF SyncCall, SyncPark, history
<1>6. ASSUME NEW t \in Threads, Sleep(t) \/ Relock(t) \/ SpuriousWakeup(t) PROVE FailureInv'
  BY <1>3, <1>6 DEF Sleep, Relock, SpuriousWakeup, history
<1>7. CASE WorkerNext /\ ~Report
  BY <1>3, <1>7 DEF WorkerNext, WorkerLoop, RunTask, Announce, WorkerLock, WorkerPark, WorkerUnlock,
                    history
<1>8. ASSUME DestroyNext \/ UNCHANGED vars PROVE FailureInv'
  BY <1>3, <1>8 DEF DestroyNext, DestroyCall, DestroyNotify, DestroyJoin, DestroyNode, history, vars
<1> QED BY <1>1, <1>2, <1>4, <1>5, <1>6, <1>7, <1>8 DEF Next, SyncNext, WaitNext

-----------------------------------------------------------------------------
(* The theorems *)

\* The constructor leaves an empty list: the dummy is head and tail.
LEMMA InitIInv == Init => IInv
<1> SUFFICES ASSUME Init PROVE IInv
  OBVIOUS
<1>0. Worker \in Threads /\ Worker \notin Clients /\ Clients \subseteq Threads /\ Enqueuers \subseteq Clients
  BY ThreadSets
<1>1. pc[Worker] = "loop" /\ \A c \in Clients : pc[c] = "idle"
  BY <1>0 DEF Init
<1>2. Last = 0 /\ Done = 0 /\ New = {} /\ Linking = {}
  <2>1. Last = 0 /\ Done = 0 BY DEF Init, Last, Done
  <2> QED BY <1>0, <1>1, <2>1 DEF New, Linking
<1>3. 0 \in Nodes /\ MaxTasks \in Nat BY SizeAssumption DEF Nodes
<1>4. TypeOK
  <2>1. pc \in [Threads -> ClientStates \cup WorkerStates]
    BY DEF Init, ClientStates, WorkerStates
  <2>2. << >> \in Seq(Tasks) OBVIOUS
  <2>3. /\ next \in [Nodes -> Nodes] /\ live \subseteq Nodes /\ tail \in Nodes /\ head \in Nodes
        /\ node \in [Clients -> Nodes] /\ prev \in [Clients -> Nodes] /\ cursor \in Nodes
    BY <1>3 DEF Init
  <2>4. /\ allow \in [Clients -> Allowed \cup {0}] /\ before \in [Clients -> SUBSET Tasks]
        /\ returned \subseteq Tasks
    BY DEF Init
  <2>5. pending \in 0 .. MaxTasks BY <1>3 DEF Init
  <2>6. mtx \in Threads \cup {Nobody} /\ waiters \subseteq Threads BY DEF Init
  <2>7. done \in BOOLEAN /\ threw \in BOOLEAN BY DEF Init
  <2>8. order \in Seq(Tasks) /\ ran \in Seq(Tasks) /\ unreported \in Seq(Tasks) BY <2>2 DEF Init
  <2>9. /\ owner \in {"alive", "notify", "join", "free", "freed"}
        /\ firstException \in Nodes /\ allocated \in Nodes
    BY <1>3 DEF Init
  <2> QED BY <2>1, <2>3, <2>4, <2>5, <2>6, <2>7, <2>8, <2>9 DEF TypeOK
<1>5. PlaceInv BY <1>1 DEF Init, PlaceInv, ClientStates, WorkerStates, EnqueueStates
<1>6. OrderInv BY <1>2 DEF OrderInv
<1>7. LinkInv
  <2>1. At(order, 0) = 0 BY DEF At
  <2>2. \A n \in Nodes : next[n] = 0 BY DEF Init
  <2> QED BY <1>1, <1>2, <1>3, <2>1, <2>2 DEF Init, LinkInv
<1>8. LiveInv
  <2>1. At(order, 0) = 0 /\ 0 .. 0 = {0} BY DEF At
  <2> QED BY <1>2, <2>1 DEF Init, LiveInv
<1>9. CountInv
  <2>1. Unfinished = {}
    <3>1. allocated = 0 /\ 1 .. 0 = {} BY DEF Init
    <3> QED BY <3>1 DEF Unfinished
  <2>2. Cardinality(Unfinished) = 0 BY <2>1, FS_EmptySet
  <2> QED BY <1>1, <2>2 DEF Init, CountInv, EnqueueStates
<1>10. FailureInv BY DEF Init, FailureInv, FirstFailure
<1> QED BY <1>4, <1>5, <1>6, <1>7, <1>8, <1>9, <1>10 DEF IInv

\* Every step of the queue keeps the invariant.
LEMMA NextIInv == IInv /\ [Next]_vars => IInv'
<1> SUFFICES ASSUME IInv, [Next]_vars PROVE IInv'
  OBVIOUS
<1>1. OrderInv' /\ LinkInv' /\ LiveInv'
  BY NextCases, QuietStep, EnqueueCallStep, ExchangeStep, LinkStep, RunTaskStep, DestroyStep
<1> QED BY <1>1, TypeStep, PlaceStep, CountStep, FailureStep DEF IInv

\* The inductive invariant holds of every behaviour of the queue.
THEOREM Invariance == Spec => []IInv
BY InitIInv, NextIInv, PTL DEF Spec

\* In particular the counter pending, a size_t, never wraps below zero and
\* never exceeds the number of tasks.
THEOREM TypesKept == Spec => []TypeOK
<1>1. IInv => TypeOK BY DEF IInv
<1> QED BY <1>1, Invariance, PTL

\* task_queue.cpp deletes a node as soon as the worker has moved past it, while
\* an enqueue holds the node it was exchanged for: no thread uses a deleted
\* node, and the destructor deletes every node that is left, each once.
THEOREM NodesUsedWhileLive == Spec => []NodeLifetimes
<1>1. IInv => NodeLifetimes
  <2> SUFFICES ASSUME IInv PROVE NodeLifetimes
    OBVIOUS
  <2>a. /\ Last \in Nat /\ Done \in Nat /\ Done <= Last BY AtFacts
  <2>o. owner \in {"alive", "notify", "join", "free", "freed"} BY DEF IInv, TypeOK
  <2>1. ASSUME NEW c \in Enqueuers, pc[c] = "link" PROVE prev[c] \in live /\ node[c] \in live
    <3>1. c \in Clients /\ c \in Linking BY <2>1, ThreadSets DEF Linking
    <3>2. owner = "alive" BY <2>1, <3>1 DEF IInv, PlaceInv, EnqueueStates
    <3>3. PICK k \in Done .. Last - 1 : Owes(prev[c], node[c], order, k)
      BY <3>1 DEF IInv, LinkInv
    <3>4. k \in Done .. Last /\ k + 1 \in Done .. Last BY <2>a
    <3>5. prev[c] = At(order, k) /\ node[c] = At(order, k + 1) BY <3>3 DEF Owes
    <3> QED BY <3>2, <3>4, <3>5 DEF IInv, LiveInv
  <2>2. ASSUME pc[Worker] \in {"loop", "run", "check", "park"}
        PROVE  head \in live /\ (pc[Worker] = "run" => next[head] \in live)
    <3>1. owner \in {"alive", "notify", "join"} BY <2>2, <2>o DEF IInv, PlaceInv
    <3>2. live = {At(order, k) : k \in Done .. Last} \cup {node[c] : c \in New}
      BY <3>1 DEF IInv, LiveInv
    <3>3. Done \in Done .. Last /\ head = At(order, Done) BY <2>a DEF IInv, LinkInv
    <3>4. ASSUME pc[Worker] = "run" PROVE next[head] \in live
      <4>1. Done < Last /\ next[head] = At(order, Done + 1)
        BY <3>4, NextOfHead DEF IInv, LinkInv
      <4>2. Done + 1 \in Done .. Last BY <2>a, <4>1
      <4> QED BY <3>2, <4>1, <4>2
    <3> QED BY <3>2, <3>3, <3>4
  <2>3. ASSUME owner = "free" PROVE cursor \in live
    <3>1. PICK j \in Done .. Last : cursor = At(order, j) /\ live = {At(order, k) : k \in j .. Last}
      BY <2>3 DEF IInv, LiveInv
    <3>2. j \in j .. Last BY <2>a
    <3> QED BY <3>1, <3>2
  <2>4. owner = "freed" => live = {} BY DEF IInv, LiveInv
  <2> QED BY <2>1, <2>2, <2>3, <2>4 DEF NodeLifetimes
<1> QED BY <1>1, Invariance, PTL

\* sync rethrows the first exception since the last sync, and it misses none.
THEOREM FirstFailureKept == Spec => []FirstFailure
<1>1. IInv => FirstFailure BY DEF IInv, FailureInv
<1> QED BY <1>1, Invariance, PTL

\* When sync(n) returns and the queue is not being destroyed, at most n of the
\* tasks enqueued before the call have still to run: pending counts each of
\* them, although it is incremented without the mutex.
THEOREM SyncWaits == Spec => SyncDrains
<1>1. ASSUME IInv, NEW c \in Syncers, SyncReturn(c) /\ ~done
      PROVE  Cardinality(before[c] \ Finished) <= allow[c]
  <2>1. c \in Clients BY ThreadSets
  <2>2. pending <= allow[c] BY <1>1 DEF SyncReturn, SyncReady
  <2>3. before[c] \ Finished \in SUBSET Unfinished
    BY <1>1, <2>1 DEF IInv, CountInv, Unfinished
  <2>4. IsFiniteSet(Unfinished) /\ Cardinality(Unfinished) \in Nat BY <1>1, PendingFacts
  <2> DEFINE Owed == before[c] \ Finished
  <2>5. Owed \in SUBSET Unfinished BY <2>3
  <2> HIDE DEF Owed
  <2>6. IsFiniteSet(Owed) /\ Cardinality(Owed) <= Cardinality(Unfinished)
    BY <2>4, <2>5, FS_Subset
  <2>7. Cardinality(Owed) \in Nat BY <2>6, FS_CardinalityType
  <2>8. Cardinality(Unfinished) <= pending /\ pending \in Nat
    BY <1>1, <2>4, PendingFacts DEF IInv, CountInv
  <2>9. allow[c] \in Nat
    <3>1. allow[c] \in Allowed \cup {0} BY <1>1, <2>1 DEF IInv, TypeOK
    <3>2. 0 \in Nat OBVIOUS
    <3> QED BY <3>1, <3>2, SizeAssumption, Zenon
  <2> QED BY <2>2, <2>4, <2>6, <2>7, <2>8, <2>9 DEF Owed
<1>2. IInv => \A c \in Syncers : SyncReturn(c) /\ ~done =>
                Cardinality(before[c] \ Finished) <= allow[c]
  BY <1>1
<1> QED BY <1>2, Invariance, PTL DEF SyncDrains

\* A step of the queue is a step of the executor it implements, or none.
LEMMA FifoStep == IInv /\ [Next]_vars => [Fifo!Next]_<<order, ran, done>>
<1> SUFFICES ASSUME IInv, [Next]_vars PROVE [Fifo!Next]_<<order, ran, done>>
  OBVIOUS
<1>1. ASSUME NEW c \in Enqueuers, Exchange(c) PROVE Fifo!Next
  <2>1. c \in Clients /\ c \in New BY <1>1, ThreadSets DEF Exchange, Step, New
  <2>2. node[c] \in Tasks
    BY <2>1, AtFacts, SizeAssumption DEF IInv, OrderInv, Tasks
  <2>3. \A i \in DOMAIN order : order[i] # node[c]
    BY <2>1 DEF IInv, OrderInv, TypeOK, Last
  <2>4. order' = Append(order, node[c]) /\ UNCHANGED <<ran, done>> BY <1>1 DEF Exchange
  <2>5. Fifo!Submit(node[c]) BY <2>3, <2>4 DEF Fifo!Submit
  <2> QED BY <2>2, <2>5 DEF Fifo!Next
<1>2. ASSUME NEW fails \in BOOLEAN, RunTask(fails) PROVE Fifo!Next
  <2>1. Done < Last /\ next[head] = At(order, Done + 1)
    BY <1>2, NextOfHead DEF RunTask, Step, IInv, LinkInv
  <2>2. Done + 1 \in 1 .. Last BY <2>1, AtFacts
  <2>3. next[head] = order[Len(ran) + 1] BY <2>1, <2>2, AtFacts DEF Done
  <2>4. ran' = Append(ran, next[head]) /\ UNCHANGED <<order, done>> BY <1>2 DEF RunTask
  <2>5. Fifo!Complete BY <2>1, <2>3, <2>4 DEF Fifo!Complete, Done, Last
  <2> QED BY <2>5 DEF Fifo!Next
<1>3. CASE DestroyCall
  BY <1>3 DEF DestroyCall, history, Fifo!Next, Fifo!Shutdown
<1>4. ASSUME NEW c \in Enqueuers, EnqueueCall(c) \/ Link(c) \/ Fence(c) \/ EnqueueReturn(c)
      PROVE  UNCHANGED <<order, ran, done>>
  BY <1>4 DEF EnqueueCall, Link, Fence, EnqueueReturn, history
<1>5. ASSUME NEW c \in Syncers, SyncNext(c) PROVE UNCHANGED <<order, ran, done>>
  BY <1>5 DEF SyncNext, SyncCall, SyncPark, SyncReturn, history
<1>6. ASSUME NEW t \in Threads, WaitNext(t) \/ SpuriousWakeup(t) PROVE UNCHANGED <<order, ran, done>>
  BY <1>6 DEF WaitNext, Sleep, Relock, SpuriousWakeup, history
<1>7. CASE WorkerLoop \/ Report \/ Announce \/ WorkerLock \/ WorkerPark \/ WorkerUnlock
  BY <1>7 DEF WorkerLoop, Report, Announce, WorkerLock, WorkerPark, WorkerUnlock, history
<1>8. ASSUME DestroyNotify \/ DestroyJoin \/ DestroyNode \/ UNCHANGED vars
      PROVE  UNCHANGED <<order, ran, done>>
  BY <1>8 DEF DestroyNotify, DestroyJoin, DestroyNode, history, vars
<1> QED
  BY <1>1, <1>2, <1>3, <1>4, <1>5, <1>6, <1>7, <1>8
  DEF Next, EnqueueNext, WorkerNext, DestroyNext

\* The queue implements a FIFO executor: the lock-free list, whose links are
\* stored after the exchange that orders them, runs the tasks in that order.
THEOREM QueueIsFifo == Spec => RunsInOrder
<1>1. Init => Fifo!Init BY DEF Init, Fifo!Init
<1> QED BY <1>1, FifoStep, Invariance, PTL DEF Spec, RunsInOrder, Fifo!Spec
=============================================================================
