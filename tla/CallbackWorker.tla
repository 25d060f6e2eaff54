--------------------------- MODULE CallbackWorker ---------------------------
(***************************************************************************)
(* The ACL callback worker of kt-kernel (ascend_callback_worker.cpp): one  *)
(* global thread that subscribes to the streams on which callbacks are     *)
(* launched and calls aclrtProcessReport until it is stopped.  Its state   *)
(* is shared by the host threads under the mutex g_mu; the worker itself   *)
(* never takes it.                                                         *)
(*                                                                         *)
(* The host threads run the Python side of experts_base.py: the first      *)
(* wrapper starts the worker and probes it once, layers launch callbacks   *)
(* unless the probe has failed, atexit shuts the worker down; a thread     *)
(* that is still running may launch at any time.                           *)
(*                                                                         *)
(* ACL is external.  A callback is launched into a stream; when the stream *)
(* reaches it, it is reported to the stream's subscriber, and runs when    *)
(* that thread calls aclrtProcessReport with a usable context.             *)
(***************************************************************************)
EXTENDS Naturals, FiniteSets

CONSTANTS Hosts,         \* the host threads
          Main,          \* the one that imports the module and runs atexit
          Streams,
          Contexts,      \* whether a thread that asks ACL for its context may have one
          MaxCallbacks,  \* bound: callbacks launched
          MaxFailures    \* bound: calls of ACL that fail

ASSUME HostsAssumption == Main \in Hosts /\ Contexts \subseteq BOOLEAN
ASSUME BoundsAssumption == MaxCallbacks \in Nat /\ MaxFailures \in Nat

VARIABLES
    mtx,         \* g_mu: the host thread that holds it, or Nobody
    started, stop, ready, \* g_started, g_stop, g_worker_ready
    streams,     \* g_subscribed_streams
    id,          \* g_worker_thread_id, 0 without a worker; workers are numbered
    pc,          \* the host threads
    arg,         \* the stream of a host thread's call
    done,        \* _ensure_ascend_callback_worker._done
    degraded,    \* _ascend_worker_degraded: "unknown" is None
    worker,      \* the state of the worker thread
    thread,      \* its number
    context,     \* it has a usable ACL context
    subscribed,  \* ACL: the pairs (thread, stream) of aclrtSubscribeReport
    callbacks,   \* ACL: for each callback its stream and where it is
    failures,    \* the calls of ACL that have failed so far
    refused      \* history: the streams whose subscription has failed

shared == <<started, stop, ready, streams, id>>
python == <<done, degraded>>
own == <<worker, thread, context>>
acl == <<subscribed, callbacks>>
vars == <<mtx, shared, pc, arg, python, own, acl, failures, refused>>

Nobody == "nobody"
Callbacks == 1 .. MaxCallbacks
Null == "null"
None == [at |-> "none", stream |-> Null]

\* The free mutex is no thread, and the null stream is none of the others.
ASSUME NamesAssumption == Nobody \notin Hosts /\ Null \notin Streams

Init ==
    /\ mtx = Nobody /\ started = FALSE /\ stop = FALSE /\ ready = FALSE
    /\ streams = {} /\ id = 0
    /\ pc = [h \in Hosts |-> "idle"] /\ arg = [h \in Hosts |-> Null]
    /\ done = FALSE /\ degraded = "unknown"
    /\ worker = "none" /\ thread = 0 /\ context = FALSE
    /\ subscribed = {} /\ callbacks = [c \in Callbacks |-> None]
    /\ failures = 0 /\ refused = {}

Goto(h, to) == pc' = [pc EXCEPT ![h] = to]
Lock(h, from, to) == pc[h] = from /\ mtx = Nobody /\ mtx' = h /\ Goto(h, to)
Unlock(h, to) == mtx = h /\ mtx' = Nobody /\ Goto(h, to)
-----------------------------------------------------------------------------
(* start_worker_locked *)

\* Everything up to the barrier, for a caller with or without a context.
StartWorker(h, ctx, to) ==
    /\ stop' = FALSE /\ ready' = FALSE
    /\ worker' = "context" /\ thread' = thread + 1 /\ context' = ctx
    /\ id' = thread + 1 /\ started' = TRUE
    /\ Goto(h, to)
    /\ UNCHANGED <<mtx, streams>>

\* Mutant: there is no barrier.
BarrierOpenAlways == TRUE

\* The host thread spins until the worker is about to process reports.
BarrierOpen == ready

\* ... and subscribes the streams known so far.
Resubscribe == subscribed' = subscribed \cup {<<id, s>> : s \in streams}
-----------------------------------------------------------------------------
(* ensure_callback_worker, called once by _ensure_ascend_callback_worker *)

InitCall ==
    /\ ~done
    /\ Lock(Main, "idle", "init")
    /\ UNCHANGED <<shared, arg, python, own, acl, failures, refused>>

\* A thread without an ACL context does not start the worker.
InitWorker(ctx) ==
    /\ pc[Main] = "init"
    /\ IF started \/ ~ctx THEN Unlock(Main, "probe") /\ UNCHANGED <<shared, own>>
       ELSE StartWorker(Main, ctx, "initBarrier")
    /\ UNCHANGED <<arg, python, acl, failures, refused>>

InitReturn ==
    /\ pc[Main] = "initBarrier" /\ BarrierOpen
    /\ Resubscribe
    /\ Unlock(Main, "probe")
    /\ UNCHANGED <<shared, arg, python, own, callbacks, failures, refused>>

\* The rest of _ensure_ascend_callback_worker: callback_worker_running is
\* asked once and remembered.
Probe ==
    /\ pc[Main] = "probe" /\ mtx = Nobody
    /\ done' = TRUE
    /\ degraded' = IF started /\ ready THEN "no" ELSE "yes"
    /\ Goto(Main, "idle")
    /\ UNCHANGED <<mtx, shared, arg, own, acl, failures, refused>>
-----------------------------------------------------------------------------
(* ensure_stream_subscribed and cudaLaunchHostFunc *)

\* _should_bypass_stream_callback: a degraded worker is not used.
SubscribeCall(h, s) ==
    /\ done /\ degraded = "no"
    /\ Lock(h, "idle", "ensure")
    /\ arg' = [arg EXCEPT ![h] = s]
    /\ UNCHANGED <<shared, python, own, acl, failures, refused>>

\* After a shutdown the worker is started again, with whatever context the
\* caller has, also with none.
EnsureStream(h, ctx) ==
    /\ pc[h] = "ensure"
    /\ IF started THEN Goto(h, "subscribe") /\ UNCHANGED <<mtx, shared, own>>
       ELSE StartWorker(h, ctx, "barrier")
    /\ UNCHANGED <<arg, python, acl, failures, refused>>

EnsureReturn(h) ==
    /\ pc[h] = "barrier" /\ BarrierOpen
    /\ Resubscribe
    /\ Goto(h, "subscribe")
    /\ UNCHANGED <<mtx, shared, arg, python, own, callbacks, failures, refused>>

\* subscribe_stream_locked: the null stream is passed over; a failed
\* subscription is printed and not retried.
Subscribe(h) ==
    LET s == arg[h] IN
    /\ pc[h] = "subscribe"
    /\ streams' = streams \cup ({s} \ {Null})
    /\ \/ /\ s \in streams \cup {Null}
          /\ UNCHANGED <<subscribed, failures, refused>>
       \/ /\ s \notin streams \cup {Null}
          /\ subscribed' = subscribed \cup {<<id, s>>}
          /\ UNCHANGED <<failures, refused>>
       \/ /\ s \notin streams \cup {Null} /\ failures < MaxFailures
          /\ failures' = failures + 1
          /\ refused' = refused \cup {s}
          /\ UNCHANGED subscribed
    /\ Unlock(h, "launch")
    /\ UNCHANGED <<started, stop, ready, id, arg, python, own, callbacks>>

\* aclrtLaunchCallback, without the mutex; subscribe_ascend_stream alone
\* launches nothing.
Launch(h) ==
    /\ pc[h] = "launch"
    /\ \/ \E c \in Callbacks :
             /\ callbacks[c] = None /\ \A b \in Callbacks : b < c => callbacks[b] # None
             /\ callbacks' = [callbacks EXCEPT ![c] = [at |-> "launched", stream |-> arg[h]]]
       \/ UNCHANGED callbacks
    /\ arg' = [arg EXCEPT ![h] = Null]
    /\ Goto(h, "idle")
    /\ UNCHANGED <<mtx, shared, python, own, subscribed, failures, refused>>
-----------------------------------------------------------------------------
(* shutdown_callback_worker, registered with atexit *)

ShutdownCall ==
    /\ done
    /\ Lock(Main, "idle", "shutdown")
    /\ UNCHANGED <<shared, arg, python, own, acl, failures, refused>>

Shutdown ==
    /\ pc[Main] = "shutdown"
    /\ IF started THEN stop' = TRUE /\ Goto(Main, "join") /\ UNCHANGED mtx
       ELSE Unlock(Main, "exit") /\ UNCHANGED stop
    /\ UNCHANGED <<started, ready, streams, id, arg, python, own, acl, failures, refused>>

\* The worker is joined before its state is cleared.
Joined ==
    /\ pc[Main] = "join" /\ worker = "exit"
    /\ worker' = "none"
    /\ streams' = {} /\ started' = FALSE /\ ready' = FALSE /\ id' = 0
    /\ refused' = {}
    /\ Unlock(Main, "exit")
    /\ UNCHANGED <<stop, arg, python, thread, context, acl, failures>>
-----------------------------------------------------------------------------
(* worker_main *)

\* Mutant: the worker never says that it is ready.
AnnounceSilent == UNCHANGED ready

Announce == ready' = TRUE

\* aclrtSetCurrentContext may fail; the worker goes on without a context.
SetContext ==
    /\ worker = "context"
    /\ \/ UNCHANGED <<context, failures>>
       \/ /\ context /\ failures < MaxFailures
          /\ context' = FALSE /\ failures' = failures + 1
    /\ Announce
    /\ worker' = "loop"
    /\ UNCHANGED <<mtx, started, stop, streams, id, pc, arg, python, thread, acl, refused>>

CheckStop ==
    /\ worker = "loop"
    /\ worker' = IF stop THEN "drain" ELSE "process"
    /\ UNCHANGED <<mtx, shared, pc, arg, python, thread, context, acl, failures, refused>>

Mine(c) == callbacks[c].at = "reported" /\ <<thread, callbacks[c].stream>> \in subscribed

\* aclrtProcessReport: runs what has been reported to this thread, or returns
\* after kProcessReportTimeoutMs.
Report ==
    callbacks' = [c \in Callbacks |-> IF context /\ Mine(c) THEN [callbacks[c] EXCEPT !.at = "ran"]
                                      ELSE callbacks[c]]

Process ==
    /\ worker = "process"
    /\ Report
    /\ worker' = "loop"
    /\ UNCHANGED <<mtx, shared, pc, arg, python, thread, context, subscribed, failures, refused>>

\* Mutant: what is left is not processed.
DrainNothing ==
    /\ worker = "drain"
    /\ worker' = "unsubscribe"
    /\ UNCHANGED <<mtx, shared, pc, arg, python, thread, context, acl, failures, refused>>

\* The last aclrtProcessReport after the loop.
Drain ==
    /\ worker = "drain"
    /\ Report
    /\ worker' = "unsubscribe"
    /\ UNCHANGED <<mtx, shared, pc, arg, python, thread, context, subscribed, failures, refused>>

\* The worker reads g_subscribed_streams without the mutex, which the thread
\* that joins it holds.
Unsubscribe ==
    /\ worker = "unsubscribe"
    /\ subscribed' = subscribed \ {<<id, s>> : s \in streams}
    /\ worker' = "exit"
    /\ UNCHANGED <<mtx, shared, pc, arg, python, thread, context, callbacks, failures, refused>>

\* The device reaches a callback.
Reached(c) ==
    /\ callbacks[c].at = "launched"
    /\ callbacks' = [callbacks EXCEPT ![c].at = "reported"]
    /\ UNCHANGED <<mtx, shared, pc, arg, python, own, subscribed, failures, refused>>
-----------------------------------------------------------------------------
HostStep(h) ==
    \/ \E ctx \in Contexts : EnsureStream(h, ctx)
    \/ EnsureReturn(h) \/ Subscribe(h) \/ Launch(h)

MainStep ==
    \/ \E ctx \in Contexts : InitWorker(ctx)
    \/ InitReturn \/ Probe \/ Shutdown \/ Joined

WorkerStep == SetContext \/ CheckStop \/ Process \/ Drain \/ Unsubscribe

Next ==
    \/ InitCall \/ ShutdownCall
    \/ \E h \in Hosts, s \in Streams \cup {Null} : SubscribeCall(h, s)
    \/ MainStep
    \/ \E h \in Hosts : HostStep(h)
    \/ WorkerStep
    \/ \E c \in Callbacks : Reached(c)

\* Threads inside a call and the worker keep running; nobody has to call.
Spec ==
    /\ Init /\ [][Next]_vars
    /\ WF_vars(MainStep) /\ WF_vars(WorkerStep)
    /\ \A h \in Hosts : WF_vars(HostStep(h))
-----------------------------------------------------------------------------
\* Every variable holds a value of its kind.
TypeOK ==
    /\ mtx \in Hosts \cup {Nobody}
    /\ started \in BOOLEAN /\ stop \in BOOLEAN /\ ready \in BOOLEAN
    /\ streams \subseteq Streams /\ id \in Nat
    /\ pc \in [Hosts -> {"idle", "init", "initBarrier", "probe", "ensure", "barrier",
                         "subscribe", "launch", "shutdown", "join", "exit"}]
    /\ arg \in [Hosts -> Streams \cup {Null}]
    /\ done \in BOOLEAN /\ degraded \in {"unknown", "no", "yes"}
    /\ worker \in {"none", "context", "loop", "process", "drain", "unsubscribe", "exit"}
    /\ thread \in Nat /\ context \in BOOLEAN
    /\ subscribed \subseteq Nat \X Streams
    /\ callbacks \in [Callbacks -> [at : {"none", "launched", "reported", "ran"},
                                    stream : Streams \cup {Null}]]
    /\ failures \in 0 .. MaxFailures /\ refused \subseteq Streams

\* Every subscription belongs to a worker that is in its report loop, so that no
\* first callback is dropped and none is sent to a thread that has ended; and
\* between calls exactly the streams that callers have asked for are subscribed,
\* except where ACL has refused.
SubscriptionsLive ==
    /\ \A p \in subscribed :
          p[1] = thread /\ worker \in {"loop", "process", "drain", "unsubscribe"}
    /\ mtx = Nobody => {p[2] : p \in subscribed} = streams \ refused

\* A callback that is reported to the worker before it is asked to stop runs,
\* also when the request comes before the next look at the reports.
ReportsServed ==
    \A c \in Callbacks :
        Mine(c) /\ context /\ ~stop ~> callbacks[c].at = "ran"

\* No call keeps the mutex for ever: neither the barrier at the start nor the
\* join at the end waits for a worker that waits for somebody else.
CallsEnd == \A h \in Hosts : mtx = h ~> mtx # h
=============================================================================
