------------------------------ MODULE ForkJoin ------------------------------
(***************************************************************************)
(* What a parallel job of kt-kernel's worker pools promises its caller:    *)
(* the job has a set of parts, each of them is done exactly once, between  *)
(* the call and its return, and there is one job at a time.                *)
(***************************************************************************)
CONSTANT Parts          \* the parts a job may have

VARIABLES busy,         \* a job is in progress
          todo          \* its parts that are not done

Init == busy = FALSE /\ todo = {}

Fork(S) == ~busy /\ busy' = TRUE /\ todo' = S

Do(p) == busy /\ p \in todo /\ todo' = todo \ {p} /\ UNCHANGED busy

Join == busy /\ todo = {} /\ busy' = FALSE /\ UNCHANGED todo

Next == (\E S \in SUBSET Parts : Fork(S)) \/ (\E p \in Parts : Do(p)) \/ Join

Spec == Init /\ [][Next]_<<busy, todo>>
=============================================================================
