---------------------------- MODULE FifoExecutor ----------------------------
(***************************************************************************)
(* What kt-kernel's TaskQueue promises: the tasks complete one at a time,  *)
(* in the order in which they were submitted, each at most once; only a    *)
(* shutdown may leave tasks that never run.                                *)
(***************************************************************************)
EXTENDS Naturals, Sequences

CONSTANT Tasks          \* the tasks that may be submitted

VARIABLES submitted,    \* the tasks in the order of their submission
          completed,    \* the tasks that have run, in the order they ran
          shutdown      \* the executor is being destroyed

Init == submitted = << >> /\ completed = << >> /\ shutdown = FALSE

Submit(t) ==
    /\ \A i \in DOMAIN submitted : submitted[i] # t
    /\ submitted' = Append(submitted, t)
    /\ UNCHANGED <<completed, shutdown>>

Complete ==
    /\ Len(completed) < Len(submitted)
    /\ completed' = Append(completed, submitted[Len(completed) + 1])
    /\ UNCHANGED <<submitted, shutdown>>

\* Tasks may be dropped at shutdown: nothing forces a Complete any more.
Shutdown ==
    /\ shutdown' = TRUE
    /\ UNCHANGED <<submitted, completed>>

Next == (\E t \in Tasks : Submit(t)) \/ Complete \/ Shutdown

Spec == Init /\ [][Next]_<<submitted, completed, shutdown>>
=============================================================================
