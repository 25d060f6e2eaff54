------------------------ MODULE CallbackWorkerProof ------------------------
(***************************************************************************)
(* The safety of CallbackWorker, proved for any host threads and streams,  *)
(* any number of callbacks and any failures of ACL: a subscription always  *)
(* belongs to a worker that processes reports, through every start,        *)
(* shutdown and restart.                                                   *)
(***************************************************************************)
EXTENDS CallbackWorker, TLAPS

-----------------------------------------------------------------------------
(* The inductive invariant *)

\* Where a host thread holds g_mu, and where only the main thread can be.
Locked == {"init", "initBarrier", "ensure", "barrier", "subscribe", "shutdown", "join"}
MainOnly == {"init", "initBarrier", "probe", "shutdown", "join", "exit"}

MutexInv ==
    \A h \in Hosts :
        /\ pc[h] \in Locked <=> mtx = h
        /\ pc[h] \in MainOnly => h = Main

\* Without a worker nothing is left of the last one; with one, the globals
\* describe it.
WorkerInv ==
    /\ started <=> worker # "none"
    /\ started => id = thread
    /\ ~started => streams = {}
    /\ ready <=> worker \notin {"none", "context"}
    /\ \A h \in Hosts :
         /\ pc[h] \in {"initBarrier", "barrier"} => started /\ ~stop /\ streams = {}
         /\ pc[h] = "subscribe" => started /\ worker # "context"
    /\ worker = "context" => \E h \in Hosts : pc[h] \in {"initBarrier", "barrier"}
    /\ pc[Main] = "join" => started /\ stop /\ worker # "context"
    /\ started /\ stop => pc[Main] = "join"
    /\ worker \in {"drain", "unsubscribe", "exit"} => stop

\* A stream is subscribed, to the present worker, when it has been asked for
\* and ACL has not refused it, until the worker unsubscribes.
SubscribedInv ==
    /\ refused \subseteq streams
    /\ subscribed = IF worker = "exit" THEN {} ELSE {<<thread, s>> : s \in streams \ refused}

IInv == TypeOK /\ MutexInv /\ WorkerInv /\ SubscribedInv

-----------------------------------------------------------------------------
(* The steps *)

\* Every step keeps the variables in their sets.
LEMMA TypeStep == ASSUME IInv, [Next]_vars PROVE TypeOK'
<1> USE HostsAssumption, BoundsAssumption DEF IInv, TypeOK, None, shared, python, own, acl, Callbacks
<1>1. CASE InitCall BY <1>1 DEF InitCall, Lock, Goto
<1>2. ASSUME NEW ctx \in Contexts, InitWorker(ctx) PROVE TypeOK'
  <2>1. CASE started \/ ~ctx BY <1>2, <2>1 DEF InitWorker, Unlock, Goto
  <2>2. CASE ~(started \/ ~ctx)
    <3>1. StartWorker(Main, ctx, "initBarrier") BY <1>2, <2>2 DEF InitWorker
    <3>2. context' \in BOOLEAN BY <3>1, HostsAssumption, Zenon DEF StartWorker
    <3>3. UNCHANGED <<arg, python, acl, failures, refused>> BY <1>2 DEF InitWorker
    <3>4. started' \in BOOLEAN /\ stop' \in BOOLEAN /\ ready' \in BOOLEAN
      BY <3>1, Zenon DEF StartWorker
    <3>5. id' \in Nat /\ thread' \in Nat /\ worker' = "context" /\ UNCHANGED <<mtx, streams>>
      BY <3>1 DEF StartWorker
    <3>6. Goto(Main, "initBarrier") BY <3>1 DEF StartWorker
    <3> QED BY <3>2, <3>3, <3>4, <3>5, <3>6 DEF Goto
  <2> QED BY <2>1, <2>2
<1>3. CASE InitReturn
  <2>1. subscribed' = subscribed BY <1>3 DEF InitReturn, Resubscribe, WorkerInv
  <2> QED BY <1>3, <2>1 DEF InitReturn, Unlock, Goto
<1>4. CASE Probe BY <1>4 DEF Probe, Goto
<1>5. ASSUME NEW h \in Hosts, NEW s \in Streams \cup {Null}, SubscribeCall(h, s) PROVE TypeOK'
  BY <1>5 DEF SubscribeCall, Lock, Goto
<1>6. ASSUME NEW h \in Hosts, NEW ctx \in Contexts, EnsureStream(h, ctx) PROVE TypeOK'
  <2>1. CASE started BY <1>6, <2>1 DEF EnsureStream, Goto
  <2>2. CASE ~started
    <3>1. StartWorker(h, ctx, "barrier") BY <1>6, <2>2 DEF EnsureStream
    <3>2. context' \in BOOLEAN BY <3>1, HostsAssumption, Zenon DEF StartWorker
    <3>3. UNCHANGED <<arg, python, acl, failures, refused>> BY <1>6 DEF EnsureStream
    <3>4. started' \in BOOLEAN /\ stop' \in BOOLEAN /\ ready' \in BOOLEAN
      BY <3>1, Zenon DEF StartWorker
    <3>5. id' \in Nat /\ thread' \in Nat /\ worker' = "context" /\ UNCHANGED <<mtx, streams>>
      BY <3>1 DEF StartWorker
    <3>6. Goto(h, "barrier") BY <3>1 DEF StartWorker
    <3> QED BY <3>2, <3>3, <3>4, <3>5, <3>6 DEF Goto
  <2> QED BY <2>1, <2>2
<1>7. ASSUME NEW h \in Hosts, EnsureReturn(h) PROVE TypeOK'
  <2>1. subscribed' = subscribed BY <1>7 DEF EnsureReturn, Resubscribe, WorkerInv
  <2> QED BY <1>7, <2>1 DEF EnsureReturn, Goto
<1>8. ASSUME NEW h \in Hosts, Subscribe(h) PROVE TypeOK'
  BY <1>8 DEF Subscribe, Unlock, Goto
<1>9. ASSUME NEW h \in Hosts, Launch(h) PROVE TypeOK'
  <2>1. callbacks' \in [Callbacks -> [at : {"none", "launched", "reported", "ran"},
                                     stream : Streams \cup {Null}]]
    <3> DEFINE rec == [at |-> "launched", stream |-> arg[h]]
    <3>1. rec \in [at : {"none", "launched", "reported", "ran"}, stream : Streams \cup {Null}]
      BY <1>9
    <3>2. callbacks' = callbacks \/ \E c \in Callbacks : callbacks' = [callbacks EXCEPT ![c] = rec]
      BY <1>9 DEF Launch
    <3> HIDE DEF rec
    <3> QED BY <3>1, <3>2
  <2>2. /\ arg' \in [Hosts -> Streams \cup {Null}] /\ Goto(h, "idle")
        /\ UNCHANGED <<mtx, shared, python, own, subscribed, failures, refused>>
    BY <1>9 DEF Launch
  <2> QED BY <2>1, <2>2 DEF Goto
<1>10. CASE ShutdownCall BY <1>10 DEF ShutdownCall, Lock, Goto
<1>11. CASE Shutdown BY <1>11 DEF Shutdown, Unlock, Goto
<1>12. CASE Joined BY <1>12 DEF Joined, Unlock, Goto
<1>13. CASE SetContext
  <2>1. UNCHANGED <<context, failures>>
        \/ (failures < MaxFailures /\ context' = FALSE /\ failures' = failures + 1)
    BY <1>13 DEF SetContext
  <2>2. context' \in BOOLEAN /\ ready' \in BOOLEAN BY <1>13, <2>1, Zenon DEF SetContext, Announce
  <2>3. failures' \in 0 .. MaxFailures BY <2>1
  <2>4. /\ worker' = "loop"
        /\ UNCHANGED <<mtx, started, stop, streams, id, pc, arg, python, thread, acl, refused>>
    BY <1>13 DEF SetContext, Announce
  <2> QED BY <2>2, <2>3, <2>4
<1>14. CASE CheckStop BY <1>14 DEF CheckStop
<1>15. CASE Process BY <1>15 DEF Process, Report
<1>16. CASE Drain BY <1>16 DEF Drain, Report
<1>17. CASE Unsubscribe BY <1>17 DEF Unsubscribe
<1>18. ASSUME NEW c \in Callbacks, Reached(c) PROVE TypeOK'
  BY <1>18 DEF Reached
<1>19. CASE UNCHANGED vars BY <1>19 DEF vars
<1> QED BY <1>1, <1>2, <1>3, <1>4, <1>5, <1>6, <1>7, <1>8, <1>9, <1>10, <1>11, <1>12, <1>13, <1>14, <1>15, <1>16, <1>17, <1>18, <1>19
        DEF Next, MainStep, HostStep, WorkerStep

\* g_mu is held exactly where the code holds it: the lock, the unlock and the
\* early returns match.
LEMMA MutexStep == ASSUME IInv, [Next]_vars PROVE MutexInv'
<1> USE HostsAssumption, NamesAssumption DEF IInv, TypeOK, MutexInv, Locked, MainOnly
<1>1. CASE InitCall BY <1>1 DEF InitCall, Lock, Goto
<1>2. ASSUME NEW ctx \in Contexts, InitWorker(ctx) PROVE MutexInv'
  BY <1>2 DEF InitWorker, Unlock, StartWorker, Goto
<1>3. CASE InitReturn BY <1>3 DEF InitReturn, BarrierOpen, Unlock, Goto
<1>4. CASE Probe BY <1>4 DEF Probe, Goto
<1>5. ASSUME NEW h \in Hosts, NEW s \in Streams \cup {Null}, SubscribeCall(h, s) PROVE MutexInv'
  BY <1>5 DEF SubscribeCall, Lock, Goto
<1>6. ASSUME NEW h \in Hosts, NEW ctx \in Contexts, EnsureStream(h, ctx) PROVE MutexInv'
  BY <1>6 DEF EnsureStream, StartWorker, Goto
<1>7. ASSUME NEW h \in Hosts, EnsureReturn(h) PROVE MutexInv'
  BY <1>7 DEF EnsureReturn, BarrierOpen, Goto
<1>8. ASSUME NEW h \in Hosts, Subscribe(h) PROVE MutexInv'
  BY <1>8 DEF Subscribe, Unlock, Goto
<1>9. ASSUME NEW h \in Hosts, Launch(h) PROVE MutexInv'
  BY <1>9 DEF Launch, Goto
<1>10. CASE ShutdownCall BY <1>10 DEF ShutdownCall, Lock, Goto
<1>11. CASE Shutdown BY <1>11 DEF Shutdown, Unlock, Goto
<1>12. CASE Joined BY <1>12 DEF Joined, Unlock, Goto
<1>13. CASE SetContext BY <1>13 DEF SetContext, Announce
<1>14. CASE CheckStop BY <1>14 DEF CheckStop
<1>15. CASE Process BY <1>15 DEF Process
<1>16. CASE Drain BY <1>16 DEF Drain
<1>17. CASE Unsubscribe BY <1>17 DEF Unsubscribe
<1>18. ASSUME NEW c \in Callbacks, Reached(c) PROVE MutexInv'
  BY <1>18 DEF Reached
<1>19. CASE UNCHANGED vars BY <1>19 DEF vars
<1> QED BY <1>1, <1>2, <1>3, <1>4, <1>5, <1>6, <1>7, <1>8, <1>9, <1>10, <1>11, <1>12, <1>13, <1>14, <1>15, <1>16, <1>17, <1>18, <1>19
        DEF Next, MainStep, HostStep, WorkerStep

\* Every step keeps the globals in line with the worker thread.
LEMMA WorkerStepInv == ASSUME IInv, [Next]_vars PROVE WorkerInv'
<1> USE HostsAssumption, NamesAssumption DEF IInv, TypeOK, MutexInv, Locked, MainOnly, WorkerInv, shared, own
<1>1. CASE InitCall BY <1>1 DEF InitCall, Lock, Goto
<1>2. ASSUME NEW ctx \in Contexts, InitWorker(ctx) PROVE WorkerInv'
  BY <1>2 DEF InitWorker, Unlock, StartWorker, Goto
<1>3. CASE InitReturn BY <1>3 DEF InitReturn, BarrierOpen, Unlock, Goto
<1>4. CASE Probe BY <1>4 DEF Probe, Goto
<1>5. ASSUME NEW h \in Hosts, NEW s \in Streams \cup {Null}, SubscribeCall(h, s) PROVE WorkerInv'
  BY <1>5 DEF SubscribeCall, Lock, Goto
<1>6. ASSUME NEW h \in Hosts, NEW ctx \in Contexts, EnsureStream(h, ctx) PROVE WorkerInv'
  BY <1>6 DEF EnsureStream, StartWorker, Goto
<1>7. ASSUME NEW h \in Hosts, EnsureReturn(h) PROVE WorkerInv'
  BY <1>7 DEF EnsureReturn, BarrierOpen, Goto
<1>8. ASSUME NEW h \in Hosts, Subscribe(h) PROVE WorkerInv'
  BY <1>8 DEF Subscribe, Unlock, Goto
<1>9. ASSUME NEW h \in Hosts, Launch(h) PROVE WorkerInv'
  BY <1>9 DEF Launch, Goto
<1>10. CASE ShutdownCall BY <1>10 DEF ShutdownCall, Lock, Goto
<1>11. CASE Shutdown BY <1>11 DEF Shutdown, Unlock, Goto
<1>12. CASE Joined BY <1>12 DEF Joined, Unlock, Goto
<1>13. CASE SetContext BY <1>13 DEF SetContext, Announce
<1>14. CASE CheckStop BY <1>14 DEF CheckStop
<1>15. CASE Process BY <1>15 DEF Process
<1>16. CASE Drain BY <1>16 DEF Drain
<1>17. CASE Unsubscribe BY <1>17 DEF Unsubscribe
<1>18. ASSUME NEW c \in Callbacks, Reached(c) PROVE WorkerInv'
  BY <1>18 DEF Reached
<1>19. CASE UNCHANGED vars BY <1>19 DEF vars
<1> QED BY <1>1, <1>2, <1>3, <1>4, <1>5, <1>6, <1>7, <1>8, <1>9, <1>10, <1>11, <1>12, <1>13, <1>14, <1>15, <1>16, <1>17, <1>18, <1>19
        DEF Next, MainStep, HostStep, WorkerStep

\* Every step keeps the subscriptions of ACL in line with g_subscribed_streams.
LEMMA SubscribedStep == ASSUME IInv, [Next]_vars PROVE SubscribedInv'
<1> USE HostsAssumption, NamesAssumption DEF IInv, TypeOK, MutexInv, Locked, MainOnly, WorkerInv, SubscribedInv, shared, own, acl
<1>1. CASE InitCall BY <1>1 DEF InitCall, Lock, Goto
<1>2. ASSUME NEW ctx \in Contexts, InitWorker(ctx) PROVE SubscribedInv'
  <2>1. CASE started \/ ~ctx
    <3>1. UNCHANGED <<shared, own, subscribed, refused>> BY <1>2, <2>1, Zenon DEF InitWorker, acl
    <3> QED BY <3>1
  <2>2. CASE ~(started \/ ~ctx)
    <3>1. streams = {} /\ refused = {} /\ subscribed = {} BY <2>2
    <3>2. worker' = "context" /\ UNCHANGED <<streams, refused, subscribed>>
      BY <1>2, <2>2 DEF InitWorker, StartWorker
    <3> QED BY <3>1, <3>2
  <2> QED BY <2>1, <2>2
<1>3. CASE InitReturn
  <2>1. subscribed' = subscribed BY <1>3 DEF InitReturn, Resubscribe
  <2> QED BY <1>3, <2>1 DEF InitReturn
<1>4. CASE Probe BY <1>4 DEF Probe, Goto
<1>5. ASSUME NEW h \in Hosts, NEW s \in Streams \cup {Null}, SubscribeCall(h, s) PROVE SubscribedInv'
  BY <1>5 DEF SubscribeCall, Lock, Goto
<1>6. ASSUME NEW h \in Hosts, NEW ctx \in Contexts, EnsureStream(h, ctx) PROVE SubscribedInv'
  <2>1. CASE started BY <1>6, <2>1 DEF EnsureStream
  <2>2. CASE ~started
    <3>1. streams = {} /\ refused = {} /\ subscribed = {} BY <2>2
    <3>2. worker' = "context" /\ UNCHANGED <<streams, refused, subscribed>>
      BY <1>6, <2>2 DEF EnsureStream, StartWorker
    <3> QED BY <3>1, <3>2
  <2> QED BY <2>1, <2>2
<1>7. ASSUME NEW h \in Hosts, EnsureReturn(h) PROVE SubscribedInv'
  <2>1. subscribed' = subscribed BY <1>7 DEF EnsureReturn, Resubscribe
  <2> QED BY <1>7, <2>1 DEF EnsureReturn
<1>8. ASSUME NEW h \in Hosts, Subscribe(h) PROVE SubscribedInv'
  BY <1>8 DEF Subscribe, Unlock, Goto
<1>9. ASSUME NEW h \in Hosts, Launch(h) PROVE SubscribedInv'
  BY <1>9 DEF Launch, Goto
<1>10. CASE ShutdownCall BY <1>10 DEF ShutdownCall, Lock, Goto
<1>11. CASE Shutdown BY <1>11 DEF Shutdown, Unlock, Goto
<1>12. CASE Joined BY <1>12 DEF Joined, Unlock, Goto
<1>13. CASE SetContext BY <1>13 DEF SetContext, Announce
<1>14. CASE CheckStop BY <1>14 DEF CheckStop
<1>15. CASE Process BY <1>15 DEF Process
<1>16. CASE Drain BY <1>16 DEF Drain
<1>17. CASE Unsubscribe BY <1>17 DEF Unsubscribe
<1>18. ASSUME NEW c \in Callbacks, Reached(c) PROVE SubscribedInv'
  BY <1>18 DEF Reached
<1>19. CASE UNCHANGED vars BY <1>19 DEF vars
<1> QED BY <1>1, <1>2, <1>3, <1>4, <1>5, <1>6, <1>7, <1>8, <1>9, <1>10, <1>11, <1>12, <1>13, <1>14, <1>15, <1>16, <1>17, <1>18, <1>19
        DEF Next, MainStep, HostStep, WorkerStep

-----------------------------------------------------------------------------
(* The results *)

\* The inductive invariant holds in every reachable state.
THEOREM Invariance == Spec => []IInv
<1>1. Init => IInv
  <2> SUFFICES ASSUME Init PROVE IInv
    OBVIOUS
  <2>0. None \in [at : {"none", "launched", "reported", "ran"}, stream : Streams \cup {Null}]
    BY DEF None
  <2>1. TypeOK
    <3>1. started \in BOOLEAN /\ stop \in BOOLEAN /\ ready \in BOOLEAN /\ done \in BOOLEAN
          /\ context \in BOOLEAN
      BY Zenon DEF Init
    <3> QED BY <2>0, <3>1, BoundsAssumption DEF Init, TypeOK
  <2>2. MutexInv BY NamesAssumption DEF Init, MutexInv, Locked, MainOnly
  <2>3. WorkerInv BY HostsAssumption DEF Init, WorkerInv
  <2>4. SubscribedInv BY DEF Init, SubscribedInv
  <2> QED BY <2>1, <2>2, <2>3, <2>4 DEF IInv
<1>2. IInv /\ [Next]_vars => IInv'
  BY TypeStep, MutexStep, WorkerStepInv, SubscribedStep DEF IInv
<1> QED BY <1>1, <1>2, PTL DEF Spec

\* Every variable of the callback worker keeps its type.
THEOREM TypesKept == Spec => []TypeOK
<1>1. IInv => TypeOK BY DEF IInv
<1> QED BY <1>1, Invariance, PTL

\* No stream is ever subscribed to a worker that does not process reports, and
\* between calls exactly the streams that were asked for are subscribed: the
\* barrier of start_worker_locked, the mutex and the join before the globals
\* are cleared are enough for any number of threads and restarts.
THEOREM SubscriptionsServed == Spec => []SubscriptionsLive
<1>1. IInv => SubscriptionsLive
  <2> SUFFICES ASSUME IInv PROVE SubscriptionsLive
    OBVIOUS
  <2>1. ASSUME NEW p \in subscribed
        PROVE  p[1] = thread /\ worker \in {"loop", "process", "drain", "unsubscribe"}
    BY <2>1 DEF IInv, TypeOK, WorkerInv, SubscribedInv
  <2>2. ASSUME mtx = Nobody PROVE {p[2] : p \in subscribed} = streams \ refused
    <3>1. worker # "exit"
      BY <2>2, HostsAssumption, NamesAssumption DEF IInv, MutexInv, WorkerInv, Locked
    <3>2. subscribed = {<<thread, s>> : s \in streams \ refused}
      BY <3>1 DEF IInv, SubscribedInv
    <3>3. \A s \in streams \ refused : <<thread, s>> \in subscribed /\ <<thread, s>>[2] = s
      BY <3>2
    <3>4. \A p \in subscribed : p[2] \in streams \ refused
      BY <3>2
    <3> QED BY <3>3, <3>4, Zenon
  <2> QED BY <2>1, <2>2 DEF SubscriptionsLive
<1> QED BY <1>1, Invariance, PTL
=============================================================================
