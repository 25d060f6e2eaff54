------------------------ MODULE ExpertPipelineProof ------------------------
(***************************************************************************)
(* The safety of ExpertPipeline, proved for every number of layers, passes *)
(* and failures, every choice of deferring layers, and all five modes.     *)
(***************************************************************************)
EXTENDS ExpertPipeline, SequenceTheorems, TLAPS

-----------------------------------------------------------------------------
(* The inductive invariant *)

\* The stages of a layer.  The device, or the host where it does not use
\* callbacks, is in front of one of them.
Stages == {"d2h", "immediate", "deferred", "sync", "run", "h2d"}
Stage(o) == IF o.op = "submit" THEN o.task.kind ELSE o.op

\* The stage that the host will queue or do next.  While a graph is captured
\* nothing runs: the device is in front of the first replay.
HostStage == IF Capturing \/ pc \in {"start", "done"} THEN "d2h" ELSE pc
HostPass == IF Capturing THEN 2 ELSE pass
HostLayer == IF Capturing THEN 0 ELSE layer

\* Where the execution is.
IsAt(st, p, l) ==
    IF stream = << >> THEN st = HostStage /\ p = HostPass /\ l = HostLayer
                      ELSE st = Stage(stream[1]) /\ p = stream[1].pass /\ l = stream[1].layer

\* What comes after an operation, ...
Follows(o, st, p, l) ==
    IF o.op = "h2d"
    THEN /\ st = "d2h"
         /\ IF o.layer + 1 < NumLayers THEN p = o.pass /\ l = o.layer + 1
                                       ELSE p = o.pass + 1 /\ l = 0
    ELSE /\ p = o.pass /\ l = o.layer
         /\ o.op = "d2h" => st \in {"run", "immediate"}
         /\ o.op \in {"sync", "run"} => st = "h2d"
         /\ o.op = "submit" =>
              st = IF o.task.kind = "immediate" /\ o.layer \in Defers THEN "deferred" ELSE "sync"

\* ... or, when the host has raised an exception in that pass, a new pass.
Comes(o, st, p, l, ended) ==
    \/ Follows(o, st, p, l)
    \/ st = "d2h" /\ p = o.pass + 1 /\ l = 0 /\ o.pass \in ended

\* The operations of a sequence are those of consecutive stages, the last one
\* before the given stage.
Linked(s, ended) ==
    \A i \in 1 .. Len(s) - 1 :
        Comes(s[i], Stage(s[i + 1]), s[i + 1].pass, s[i + 1].layer, ended)
EndsAt(s, st, p, l, ended) == s # << >> => Comes(s[Len(s)], st, p, l, ended)

\* A callback has the arguments that belong to its layer, ...
Formed(o) ==
    /\ o.op = "submit" =>
         IF o.task.kind = "immediate"
         THEN o.task = [kind |-> "immediate", slot |-> SlotOf(o.layer), out |-> SlotOf(o.layer),
                        incremental |-> o.layer > 0 /\ o.layer - 1 \in Defers]
         ELSE o.task = Deferred(o.layer) /\ o.layer \in Defers
    /\ o.op = "sync" => o.allow = IF o.layer \in Defers THEN 1 ELSE 0

\* ... and an operation belongs to the mode and to the choices of its pass.
Fits(o) ==
    /\ o.op \in {"submit", "sync"} => OnStream
    /\ o.op = "run" => mode = "pinned"
    /\ o.op = "d2h" => o.deferred = chose[o.pass][o.layer]

\* The host is behind nothing that it has queued.
Earlier(p, l) == p < pass \/ (p = pass /\ (l < layer \/ (l = layer /\ pc # "start")))

StreamInv ==
    /\ Linked(stream, raised) /\ EndsAt(stream, HostStage, HostPass, HostLayer, raised)
    /\ \A i \in 1 .. Len(stream) : /\ Formed(stream[i]) /\ Fits(stream[i])
                                  /\ Earlier(stream[i].pass, stream[i].layer)
    /\ Capturing \/ (OnHost /\ pc \in {"deferred", "sync"}) => stream = << >>
    /\ ~OnStream => \A i \in 1 .. Len(stream), q \in raised : q < stream[i].pass
    /\ callback => mode = "pinned" /\ stream # << >> /\ stream[1].op = "run"

\* The captured operations are those of the first pass, in order.
GraphInv ==
    /\ Linked(graph, {})
    /\ \A i \in 1 .. Len(graph) : /\ Formed(graph[i]) /\ graph[i].pass = 1
                                 /\ graph[i].op # "run"
    /\ graph # << >> => graph[1].op = "d2h" /\ graph[1].layer = 0
    /\ Capturing => EndsAt(graph, IF pc = "start" THEN "d2h" ELSE pc, 1, layer, {})
    /\ Capturing /\ (pc # "start" \/ layer # 0) => graph # << >>
    /\ mode = "graph" /\ ~Capturing => graph # << >> /\ EndsAt(graph, "d2h", 2, 0, {})

\* The host thread.
HostInv ==
    /\ OnStream => pc \in {"start", "sync", "done"}
    /\ mode = "pinned" => pc \in {"start", "done"}
    /\ mode = "graph" /\ ~Capturing => pc \in {"start", "done"} /\ layer = 0 /\ raised = {}
    /\ pc = "deferred" => layer \in Defers
    /\ pc = "done" <=> pass = MaxPasses + 1
    /\ pc = "done" => layer = 0
    /\ mode # "pinned" =>
         \A k \in Layers : k < layer \/ (k = layer /\ pc = "sync") =>
                               pendingDeferred[k] = (k \in Defers)
    /\ \A p \in Passes, l \in Layers : chose[p][l] => l \in Defers

\* Errors come from tasks that have thrown, and end passes that are over.
ErrorInv ==
    /\ failures = 0 => ~exception /\ ~deviceError /\ raised = {}
    /\ mode = "pinned" => failures = 0
    /\ ~OnStream => ~deviceError
    /\ mode = "graph" => raised = {}
    /\ \A q \in raised : q < pass
    /\ Capturing => failures = 0 /\ queue = << >> /\ result.pass = 0

\* The layer has a deferred task.  In the pinned mode this is known only when
\* the ids are there.
HasDef(p, l) == l \in Defers /\ (mode = "pinned" => chose[p][l])

ImmediateOf(p, l) == [kind |-> "immediate", slot |-> SlotOf(l), out |-> SlotOf(l),
                      incremental |-> l > 0 /\ HasDef(p, l - 1)]

\* The tasks of layer l that are submitted when the execution is at stage st.
Full(p, l) == IF HasDef(p, l) THEN 2 ELSE 1
Fresh(st, p, l) ==
    CASE st \in {"d2h", "immediate"} -> 0
      [] st = "deferred" -> 1
      [] st = "run" -> IF callback THEN Full(p, l) ELSE 0
      [] OTHER -> Full(p, l)

\* The newest tasks of the queue are those of this layer; before them there is
\* at most the deferred task of the layer before, or in the first layer the
\* tasks that failed passes have left.
QueueAt(st, p, l) ==
    LET f == Fresh(st, p, l)  n == Len(queue) IN
    /\ f = 2 /\ n >= 1 => queue[n] = Deferred(l)
    /\ f = 2 /\ n >= 2 => queue[n - 1] = ImmediateOf(p, l)
    /\ f = 1 /\ n >= 1 => queue[n] = ImmediateOf(p, l)
    /\ l > 0 => n <= f + 1
    /\ l > 0 /\ n = f + 1 => queue[1] = Deferred(l - 1) /\ HasDef(p, l - 1)
    /\ l = 0 /\ raised = {} => n <= f
    /\ st = "h2d" => n <= f - 1
    /\ mode = "pinned" =>
         /\ l > 0 => pendingDeferred[l - 1] = HasDef(p, l - 1)
         /\ callback \/ st = "h2d" => pendingDeferred[l] = HasDef(p, l)

\* No exception has ended this pass or a later one.
Trusted(p) == \A q \in raised : q < p

DeferredPart(p, l) == IF chose[p][l] THEN {Part("deferred", Inputs(p, l, TRUE))} ELSE {}

\* What the slots hold, in terms of the tasks that are still pending.
DataAt(st, p, l) ==
    LET f == Fresh(st, p, l)  n == Len(queue) IN
    /\ st # "d2h" => input[SlotOf(l)] = Inputs(p, l, chose[p][l])
    /\ l > 0 /\ n = f + 1 => input[SlotOf(l - 1)] = Inputs(p, l - 1, chose[p][l - 1])
    /\ l > 0 /\ HasDef(p, l - 1) /\ n = f => output[SlotOf(l)] = DeferredPart(p, l - 1)
    /\ n < f => output[SlotOf(l)] = Expected(p, l)
    /\ f = 2 /\ n = 0 => output[NextSlot(l)] = DeferredPart(p, l)

Good(st, p, l) ==
    Trusted(p) /\ ~deviceError =>
        /\ st = "h2d" => output[SlotOf(l)] = Expected(p, l)
        /\ ~exception => DataAt(st, p, l)

TaskInv ==
    \A st \in Stages, p \in 1 .. MaxPasses + 1, l \in Layers :
        IsAt(st, p, l) => QueueAt(st, p, l) /\ Good(st, p, l)

\* The last output that was copied to the device.
ResultInv ==
    result.pass # 0 =>
        /\ Earlier(result.pass, result.layer)
        /\ ~OnStream \/ (Trusted(result.pass) /\ ~deviceError) =>
             result.value = Expected(result.pass, result.layer)

IInv == TypeOK /\ StreamInv /\ GraphInv /\ HostInv /\ ErrorInv /\ TaskInv /\ ResultInv

-----------------------------------------------------------------------------
(* Slots and sequences *)

\* The two slots alternate.
LEMMA SlotFacts ==
    ASSUME NEW l \in Nat
    PROVE  /\ SlotOf(l) \in Slots /\ NextSlot(l) \in Slots
           /\ NextSlot(l) # SlotOf(l) /\ SlotOf(l + 1) = NextSlot(l)
           /\ l > 0 => /\ l - 1 \in Nat /\ SlotOf(l - 1) \in Slots
                       /\ SlotOf(l - 1) # SlotOf(l) /\ NextSlot(l - 1) = SlotOf(l)
BY DEF SlotOf, NextSlot, Slots, BufferDepth

\* A sequence without elements is the empty one.
LEMMA EmptyFacts ==
    ASSUME NEW S, NEW s \in Seq(S)
    PROVE  Len(s) \in Nat /\ (s = << >> <=> Len(s) = 0)
OBVIOUS

\* What is left of a sequence without its head.
LEMMA TailFacts ==
    ASSUME NEW S, NEW s \in Seq(S), s # << >>
    PROVE  /\ Tail(s) \in Seq(S) /\ Len(s) \in Nat /\ Len(s) >= 1 /\ Len(Tail(s)) = Len(s) - 1
           /\ Head(s) = s[1] /\ s[1] \in S
           /\ \A i \in 1 .. Len(s) - 1 : Tail(s)[i] = s[i + 1] /\ s[i + 1] \in S
           /\ Tail(s) = << >> <=> Len(s) = 1
<1>1. /\ Tail(s) \in Seq(S) /\ Len(s) \in Nat /\ Len(s) >= 1 /\ Len(Tail(s)) = Len(s) - 1
      /\ Head(s) = s[1] /\ s[1] \in S
  OBVIOUS
<1>2. \A i \in 1 .. Len(s) - 1 : Tail(s)[i] = s[i + 1] /\ s[i + 1] \in S
  OBVIOUS
<1>3. Tail(s) = << >> <=> Len(Tail(s)) = 0
  BY <1>1, EmptyFacts
<1> QED
  BY <1>1, <1>2, <1>3

\* A sequence with one more element.
LEMMA AppendFacts ==
    ASSUME NEW S, NEW s \in Seq(S), NEW x \in S
    PROVE  /\ Append(s, x) \in Seq(S) /\ Len(Append(s, x)) = Len(s) + 1 /\ Len(s) \in Nat
           /\ Append(s, x)[Len(s) + 1] = x
           /\ \A i \in 1 .. Len(s) : Append(s, x)[i] = s[i]
OBVIOUS

\* Two sequences in a row.
LEMMA ConcatFacts ==
    ASSUME NEW S, NEW s \in Seq(S), NEW t \in Seq(S)
    PROVE  /\ s \o t \in Seq(S) /\ Len(s) \in Nat /\ Len(t) \in Nat
           /\ Len(s \o t) = Len(s) + Len(t)
           /\ \A i \in 1 .. Len(s) : (s \o t)[i] = s[i]
           /\ \A i \in 1 .. Len(t) : (s \o t)[Len(s) + i] = t[i]
           /\ \A i \in Len(s) + 1 .. Len(s) + Len(t) : (s \o t)[i] = t[i - Len(s)]
OBVIOUS

\* An operation has a pass, a layer and a stage.
LEMMA OpFacts ==
    ASSUME NEW o \in Ops
    PROVE  /\ o.pass \in Passes /\ o.layer \in Layers /\ Stage(o) \in Stages
           /\ o.pass \in Nat /\ o.pass >= 1 /\ o.pass <= MaxPasses /\ o.layer \in Nat
           /\ o.op \in {"d2h", "h2d", "run", "submit", "sync"}
           /\ o.op = "d2h" => o.deferred \in BOOLEAN
           /\ o.op = "submit" => o.task \in Tasks /\ o.args \in Nat
           /\ o.op = "sync" => o.args \in Nat
           /\ o.op = "submit" <=> Stage(o) \in {"immediate", "deferred"}
           /\ o.op # "submit" => Stage(o) = o.op
BY SizeAssumption DEF Ops, Stage, Stages, Passes, Layers, Tasks

\* The rest of a chain is a chain with the same end.
LEMMA LinkedTail ==
    ASSUME NEW s \in Seq(Ops), s # << >>, NEW R, Linked(s, R)
    PROVE  /\ Linked(Tail(s), R)
           /\ \A st, p, l : EndsAt(s, st, p, l, R) => EndsAt(Tail(s), st, p, l, R)
           /\ Tail(s) # << >> => Comes(s[1], Stage(Tail(s)[1]), Tail(s)[1].pass, Tail(s)[1].layer, R)
           /\ \A st, p, l : Tail(s) = << >> /\ EndsAt(s, st, p, l, R) => Comes(s[1], st, p, l, R)
<1>1. /\ Tail(s) \in Seq(Ops) /\ Len(s) \in Nat /\ Len(s) >= 1 /\ Len(Tail(s)) = Len(s) - 1
      /\ \A i \in 1 .. Len(s) - 1 : Tail(s)[i] = s[i + 1]
      /\ Tail(s) = << >> <=> Len(s) = 1
  BY TailFacts
<1>2. Linked(Tail(s), R)
  <2> SUFFICES ASSUME NEW i \in 1 .. Len(Tail(s)) - 1
               PROVE  Comes(Tail(s)[i], Stage(Tail(s)[i + 1]), Tail(s)[i + 1].pass,
                            Tail(s)[i + 1].layer, R)
    BY DEF Linked
  <2>1. i \in 1 .. Len(s) - 1 /\ i + 1 \in 1 .. Len(s) - 1
    BY <1>1
  <2>2. Tail(s)[i] = s[i + 1] /\ Tail(s)[i + 1] = s[i + 1 + 1]
    BY <1>1, <2>1
  <2> QED
    BY <2>1, <2>2 DEF Linked
<1>3. ASSUME NEW st, NEW p, NEW l, EndsAt(s, st, p, l, R) PROVE EndsAt(Tail(s), st, p, l, R)
  <2> SUFFICES ASSUME Tail(s) # << >> PROVE Comes(Tail(s)[Len(Tail(s))], st, p, l, R)
    BY DEF EndsAt
  <2>1. Tail(s)[Len(Tail(s))] = s[Len(s)]
    BY <1>1
  <2> QED
    BY <1>3, <2>1 DEF EndsAt
<1>4. ASSUME Tail(s) # << >>
      PROVE  Comes(s[1], Stage(Tail(s)[1]), Tail(s)[1].pass, Tail(s)[1].layer, R)
  <2>1. 1 \in 1 .. Len(s) - 1 /\ Tail(s)[1] = s[1 + 1]
    BY <1>1, <1>4
  <2> QED
    BY <2>1 DEF Linked
<1>5. ASSUME NEW st, NEW p, NEW l, Tail(s) = << >>, EndsAt(s, st, p, l, R)
      PROVE  Comes(s[1], st, p, l, R)
  BY <1>1, <1>5 DEF EndsAt
<1> QED
  BY <1>2, <1>3, <1>4, <1>5

\* A chain that ends where another begins can be continued by it.
LEMMA LinkedConcat ==
    ASSUME NEW s \in Seq(Ops), NEW t \in Seq(Ops), t # << >>, NEW R, NEW st, NEW p, NEW l,
           Linked(s, R), Linked(t, R), EndsAt(s, Stage(t[1]), t[1].pass, t[1].layer, R),
           EndsAt(t, st, p, l, R)
    PROVE  /\ Linked(s \o t, R) /\ EndsAt(s \o t, st, p, l, R) /\ s \o t # << >>
           /\ (s \o t)[1] = IF s = << >> THEN t[1] ELSE s[1]
<1>1. /\ s \o t \in Seq(Ops) /\ Len(s) \in Nat /\ Len(t) \in Nat /\ Len(t) >= 1
      /\ Len(s \o t) = Len(s) + Len(t)
      /\ \A i \in 1 .. Len(s) : (s \o t)[i] = s[i]
      /\ \A i \in Len(s) + 1 .. Len(s) + Len(t) : (s \o t)[i] = t[i - Len(s)]
      /\ s = << >> <=> Len(s) = 0
  BY ConcatFacts, TailFacts
<1>2. ASSUME NEW i \in 1 .. Len(s \o t) - 1
      PROVE  Comes((s \o t)[i], Stage((s \o t)[i + 1]), (s \o t)[i + 1].pass,
                   (s \o t)[i + 1].layer, R)
  <2>1. CASE i < Len(s)
    <3>1. (s \o t)[i] = s[i] /\ (s \o t)[i + 1] = s[i + 1] /\ i \in 1 .. Len(s) - 1
      BY <1>1, <2>1
    <3> QED
      BY <3>1 DEF Linked
  <2>2. CASE i = Len(s)
    <3>1. (s \o t)[i] = s[Len(s)] /\ (s \o t)[i + 1] = t[1] /\ s # << >>
      BY <1>1, <2>2
    <3> QED
      BY <3>1 DEF EndsAt
  <2>3. CASE i > Len(s)
    <3>1. /\ i - Len(s) \in 1 .. Len(t) - 1 /\ i + 1 - Len(s) = i - Len(s) + 1
          /\ (s \o t)[i] = t[i - Len(s)] /\ (s \o t)[i + 1] = t[i - Len(s) + 1]
      BY <1>1, <2>3
    <3> QED
      BY <3>1 DEF Linked
  <2> QED
    BY <1>1, <2>1, <2>2, <2>3
<1>3. (s \o t)[Len(s \o t)] = t[Len(t)] /\ s \o t # << >>
  BY <1>1
<1>4. (s \o t)[1] = IF s = << >> THEN t[1] ELSE s[1]
  BY <1>1
<1> QED
  BY <1>2, <1>3, <1>4 DEF Linked, EndsAt

-----------------------------------------------------------------------------
(* What each stage does to the queue and to the slots, whoever does it.    *)

\* The tasks a layer can have.
LEMMA TaskTypes ==
    ASSUME TypeOK, NEW p, NEW l \in Layers
    PROVE  /\ l \in Nat /\ Deferred(l) \in Tasks /\ Full(p, l) \in {1, 2}
           /\ (l > 0 => l - 1 \in Layers)
           /\ (l > 0 => HasDef(p, l - 1) \in BOOLEAN) => ImmediateOf(p, l) \in Tasks
<1>1. l \in Nat
  BY SizeAssumption DEF Layers
<1> QED
  BY <1>1, SlotFacts, SizeAssumption DEF Deferred, ImmediateOf, Tasks, Full, Layers

\* The first layer of a pass makes no claim at its beginning, except that the
\* queue is empty if no pass has failed.
LEMMA StartStep ==
    ASSUME NEW p, TypeOK, ~callback, raised = {} => queue = << >>
    PROVE  QueueAt("d2h", p, 0) /\ Good("d2h", p, 0)
<1>1. Len(queue) \in Nat /\ (queue = << >> <=> Len(queue) = 0)
  BY EmptyFacts DEF TypeOK
<1>2. Fresh("d2h", p, 0) = 0
  BY DEF Fresh
<1> QED
  BY <1>1, <1>2 DEF QueueAt, Good, DataAt

\* A step that leaves the tasks and the slots alone.
LEMMA KeptStep ==
    ASSUME NEW st, NEW p, NEW l, QueueAt(st, p, l), Good(st, p, l),
           UNCHANGED <<mode, queue, buffers, chose, pendingDeferred, callback, exception,
                       deviceError, raised>>
    PROVE  QueueAt(st, p, l)' /\ Good(st, p, l)'
<1> USE DEF buffers
<1>1. Fresh(st, p, l)' = Fresh(st, p, l) /\ ImmediateOf(p, l)' = ImmediateOf(p, l)
  BY DEF Fresh, Full, HasDef, ImmediateOf
<1>2. QueueAt(st, p, l)'
  BY <1>1 DEF QueueAt, HasDef
<1>3. Good(st, p, l)'
  BY <1>1 DEF Good, DataAt, HasDef, Trusted, Expected, DeferredPart
<1> QED
  BY <1>2, <1>3

\* d2h: the inputs of the layer are copied to its slot; the task that may still
\* be pending reads the other one.
LEMMA CopyInStep ==
    ASSUME TypeOK, NEW p \in Passes, NEW l \in Layers, NEW st \in {"run", "immediate"},
           QueueAt("d2h", p, l), Good("d2h", p, l), ~callback,
           input' = [input EXCEPT ![SlotOf(l)] = Inputs(p, l, chose[p][l])],
           UNCHANGED <<mode, queue, output, chose, pendingDeferred, callback, exception,
                       deviceError, raised>>
    PROVE  QueueAt(st, p, l)' /\ Good(st, p, l)'
<1>1. l \in Nat
  BY SizeAssumption DEF Layers
<1>2. /\ Fresh("d2h", p, l) = 0 /\ Fresh(st, p, l)' = 0 /\ Len(queue) \in Nat
      /\ ImmediateOf(p, l)' = ImmediateOf(p, l)
  BY EmptyFacts DEF Fresh, ImmediateOf, HasDef, TypeOK
<1>3. QueueAt(st, p, l)'
  BY <1>2 DEF QueueAt, HasDef
<1>4. /\ input'[SlotOf(l)] = Inputs(p, l, chose[p][l])
      /\ l > 0 => input'[SlotOf(l - 1)] = input[SlotOf(l - 1)]
  BY <1>1, SlotFacts DEF TypeOK
<1>5. Good(st, p, l)'
  BY <1>2, <1>4 DEF Good, DataAt, HasDef, Trusted, Expected, DeferredPart
<1> QED
  BY <1>3, <1>5

\* The immediate task is submitted.
LEMMA ImmediateStep ==
    ASSUME TypeOK, NEW p \in Passes, NEW l \in Layers, mode # "pinned", ~callback,
           QueueAt("immediate", p, l), Good("immediate", p, l),
           queue' = Append(queue, ImmediateOf(p, l)), NEW st,
           st = IF l \in Defers THEN "deferred" ELSE "sync",
           UNCHANGED <<mode, buffers, chose, callback, exception, deviceError, raised>>
    PROVE  QueueAt(st, p, l)' /\ Good(st, p, l)' /\ queue' \in Seq(Tasks)
<1> USE DEF buffers
<1>1. l \in Nat /\ ImmediateOf(p, l) \in Tasks
  BY TaskTypes DEF HasDef, TypeOK
<1>2. /\ queue' \in Seq(Tasks) /\ Len(queue') = Len(queue) + 1 /\ Len(queue) \in Nat
      /\ queue'[Len(queue) + 1] = ImmediateOf(p, l)
      /\ \A i \in 1 .. Len(queue) : queue'[i] = queue[i]
  BY <1>1, AppendFacts DEF TypeOK
<1>3. Fresh("immediate", p, l) = 0 /\ Fresh(st, p, l)' = 1
  BY DEF Fresh, Full, HasDef
<1>4. ImmediateOf(p, l)' = ImmediateOf(p, l)
  BY DEF ImmediateOf, HasDef
<1>5. QueueAt(st, p, l)'
  <2>1. l > 0 => Len(queue) <= 0 + 1
    BY <1>3 DEF QueueAt
  <2>2. l > 0 /\ Len(queue') = 1 + 1 => queue'[1] = Deferred(l - 1) /\ HasDef(p, l - 1)'
    BY <1>2, <1>3 DEF QueueAt, HasDef
  <2>3. l = 0 /\ raised = {} => Len(queue) <= 0
    BY <1>3 DEF QueueAt
  <2> QED
    BY <1>1, <1>2, <1>3, <1>4, <2>1, <2>2, <2>3 DEF QueueAt
<1>6. Good(st, p, l)'
  <2>1. /\ Expected(p, l)' = Expected(p, l) /\ Trusted(p)' = Trusted(p)
        /\ DeferredPart(p, l)' = DeferredPart(p, l)
        /\ DeferredPart(p, l - 1)' = DeferredPart(p, l - 1)
        /\ HasDef(p, l - 1)' = HasDef(p, l - 1)
    BY DEF Trusted, Expected, DeferredPart, HasDef
  <2>2. ASSUME DataAt("immediate", p, l) PROVE DataAt(st, p, l)'
    BY <1>2, <1>3, <2>1, <2>2 DEF DataAt
  <2> QED
    BY <2>1, <2>2 DEF Good
<1> QED
  BY <1>2, <1>5, <1>6

\* The deferred task is submitted.
LEMMA DeferredStep ==
    ASSUME TypeOK, NEW p \in Passes, NEW l \in Layers, mode # "pinned", ~callback, l \in Defers,
           QueueAt("deferred", p, l), Good("deferred", p, l),
           queue' = Append(queue, Deferred(l)),
           UNCHANGED <<mode, buffers, chose, callback, exception, deviceError, raised>>
    PROVE  QueueAt("sync", p, l)' /\ Good("sync", p, l)' /\ queue' \in Seq(Tasks)
<1> USE DEF buffers
<1>1. l \in Nat /\ Deferred(l) \in Tasks
  BY TaskTypes
<1>2. /\ queue' \in Seq(Tasks) /\ Len(queue') = Len(queue) + 1 /\ Len(queue) \in Nat
      /\ queue'[Len(queue) + 1] = Deferred(l)
      /\ \A i \in 1 .. Len(queue) : queue'[i] = queue[i]
  BY <1>1, AppendFacts DEF TypeOK
<1>3. Fresh("deferred", p, l) = 1 /\ Fresh("sync", p, l)' = 2
  BY DEF Fresh, Full, HasDef
<1>4. ImmediateOf(p, l)' = ImmediateOf(p, l) /\ Deferred(l)' = Deferred(l)
  BY DEF ImmediateOf, HasDef, Deferred
<1>5. QueueAt("sync", p, l)'
  <2>1. l > 0 => Len(queue) <= 1 + 1
    BY <1>3 DEF QueueAt
  <2>2. l > 0 /\ Len(queue') = 2 + 1 => queue'[1] = Deferred(l - 1) /\ HasDef(p, l - 1)'
    BY <1>2, <1>3 DEF QueueAt, HasDef
  <2>3. l = 0 /\ raised = {} => Len(queue) <= 1
    BY <1>3 DEF QueueAt
  <2> QED
    BY <1>1, <1>2, <1>3, <1>4, <2>1, <2>2, <2>3 DEF QueueAt
<1>6. Good("sync", p, l)'
  <2>1. /\ Expected(p, l)' = Expected(p, l) /\ Trusted(p)' = Trusted(p)
        /\ DeferredPart(p, l)' = DeferredPart(p, l)
        /\ DeferredPart(p, l - 1)' = DeferredPart(p, l - 1)
        /\ HasDef(p, l - 1)' = HasDef(p, l - 1)
    BY DEF Trusted, Expected, DeferredPart, HasDef
  <2>2. ASSUME DataAt("deferred", p, l) PROVE DataAt("sync", p, l)'
    BY <1>2, <1>3, <2>1, <2>2 DEF DataAt
  <2> QED
    BY <2>1, <2>2 DEF Good
<1> QED
  BY <1>2, <1>5, <1>6

\* sync: at most the deferred task of the layer is pending.  An exception that
\* is found is kept in deviceError.
LEMMA SyncStep ==
    ASSUME TypeOK, NEW p \in Passes, NEW l \in Layers, ~callback,
           QueueAt("sync", p, l), Good("sync", p, l),
           Len(queue) <= IF HasDef(p, l) THEN 1 ELSE 0, mode # "pinned",
           exception' = FALSE, exception => deviceError', deviceError => deviceError',
           UNCHANGED <<mode, queue, buffers, chose, callback, raised>>
    PROVE  QueueAt("h2d", p, l)' /\ Good("h2d", p, l)'
<1> USE DEF buffers
<1>1. /\ Fresh("sync", p, l) = Full(p, l) /\ Fresh("h2d", p, l)' = Full(p, l)
      /\ Full(p, l) = IF HasDef(p, l) THEN 2 ELSE 1
      /\ Len(queue) \in Nat /\ Len(queue) < Full(p, l) /\ Len(queue) <= Full(p, l) - 1
  BY EmptyFacts DEF Fresh, Full, HasDef, TypeOK
<1>2. /\ Expected(p, l)' = Expected(p, l) /\ Trusted(p)' = Trusted(p)
      /\ DeferredPart(p, l)' = DeferredPart(p, l)
      /\ DeferredPart(p, l - 1)' = DeferredPart(p, l - 1)
      /\ HasDef(p, l - 1)' = HasDef(p, l - 1) /\ ImmediateOf(p, l)' = ImmediateOf(p, l)
  BY DEF Trusted, Expected, DeferredPart, HasDef, ImmediateOf
<1>3. QueueAt("h2d", p, l)'
  BY <1>1, <1>2 DEF QueueAt
<1>4. ASSUME DataAt("sync", p, l) PROVE DataAt("h2d", p, l)' /\ output'[SlotOf(l)] = Expected(p, l)
  BY <1>1, <1>2, <1>4 DEF DataAt
<1>5. Good("h2d", p, l)'
  BY <1>2, <1>4 DEF Good
<1> QED
  BY <1>3, <1>5

\* h2d: the output is copied, and the next layer or the next pass begins.
LEMMA CopyOutStep ==
    ASSUME TypeOK, NEW p \in Passes, NEW l \in Layers, ~callback,
           QueueAt("h2d", p, l), Good("h2d", p, l), NEW q, NEW k,
           IF l + 1 < NumLayers THEN q = p /\ k = l + 1 ELSE q = p + 1 /\ k = 0,
           UNCHANGED <<mode, queue, buffers, chose, pendingDeferred, callback, exception,
                       deviceError, raised>>
    PROVE  QueueAt("d2h", q, k)' /\ Good("d2h", q, k)'
<1> USE DEF buffers
<1>1. /\ Fresh("h2d", p, l) = Full(p, l) /\ Fresh("d2h", q, k)' = 0
      /\ Full(p, l) = IF HasDef(p, l) THEN 2 ELSE 1
      /\ Len(queue) \in Nat /\ Len(queue) <= Full(p, l) - 1
  BY EmptyFacts DEF Fresh, Full, QueueAt, TypeOK
<1>2. l \in Nat
  BY SizeAssumption DEF Layers
<1>3. CASE l + 1 < NumLayers
  <2>1. q = p /\ k = l + 1 /\ k > 0 /\ k - 1 = l /\ NextSlot(l) = SlotOf(k)
    BY <1>2, <1>3, SlotFacts
  <2>2. /\ Trusted(p)' = Trusted(p) /\ DeferredPart(p, l)' = DeferredPart(p, l)
        /\ HasDef(p, l)' = HasDef(p, l)
    BY DEF Trusted, DeferredPart, HasDef
  <2>3. QueueAt("d2h", q, k)'
    <3>1. Len(queue) = 1 => queue[1] = Deferred(l) /\ HasDef(p, l)
      BY <1>1 DEF QueueAt
    <3>2. mode = "pinned" => pendingDeferred[l] = HasDef(p, l)
      BY DEF QueueAt
    <3>3. Deferred(k - 1)' = Deferred(l) /\ HasDef(q, k - 1)' = HasDef(p, l)
      BY <2>1, <2>2 DEF Deferred
    <3> QED
      BY <1>1, <2>1, <3>1, <3>2, <3>3 DEF QueueAt
  <2>4. ASSUME DataAt("h2d", p, l) PROVE DataAt("d2h", q, k)'
    <3>1. HasDef(p, l) /\ Len(queue) = 0 => output[SlotOf(k)] = DeferredPart(p, l)
      BY <1>1, <2>1, <2>4 DEF DataAt
    <3>2. input[SlotOf(l)] = Inputs(p, l, chose[p][l])
      BY <2>4 DEF DataAt
    <3>3. HasDef(q, k - 1)' = HasDef(p, l) /\ DeferredPart(q, k - 1)' = DeferredPart(p, l)
      BY <2>1, <2>2
    <3> QED
      BY <1>1, <2>1, <3>1, <3>2, <3>3 DEF DataAt
  <2>5. Good("d2h", q, k)'
    BY <2>1, <2>2, <2>4 DEF Good
  <2> QED
    BY <2>3, <2>5
<1>4. CASE ~(l + 1 < NumLayers)
  <2>1. k = 0 /\ ~HasDef(p, l)
    BY <1>2, <1>4, DefersAssumption, SizeAssumption DEF HasDef, Layers
  <2>2. Len(queue') = 0 /\ ~callback'
    BY <1>1, <2>1
  <2> QED
    BY <1>1, <2>1, <2>2 DEF QueueAt, Good, DataAt
<1> QED
  BY <1>3, <1>4

\* The callback of the pinned mode submits the tasks, ...
LEMMA PinnedSubmitStep ==
    ASSUME TypeOK, NEW p \in Passes, NEW l \in Layers, mode = "pinned", ~callback, callback',
           QueueAt("run", p, l), DataAt("run", p, l), NEW hd,
           hd = HasDef(p, l), hd \in BOOLEAN, (l > 0 => HasDef(p, l - 1) \in BOOLEAN),
           queue' = queue \o <<ImmediateOf(p, l)>> \o IF hd THEN <<Deferred(l)>> ELSE << >>,
           pendingDeferred' = [pendingDeferred EXCEPT ![l] = hd],
           UNCHANGED <<mode, buffers, chose, exception, deviceError, raised>>
    PROVE  QueueAt("run", p, l)' /\ Good("run", p, l)' /\ queue' \in Seq(Tasks)
<1> USE DEF buffers
<1>1. /\ l \in Nat /\ ImmediateOf(p, l) \in Tasks /\ Deferred(l) \in Tasks
      /\ Full(p, l) \in {1, 2} /\ (l > 0 => l - 1 \in Layers)
  BY TaskTypes
<1> DEFINE one == Append(queue, ImmediateOf(p, l))
<1>2. /\ one \in Seq(Tasks) /\ Len(one) = Len(queue) + 1 /\ Len(queue) \in Nat
      /\ one[Len(queue) + 1] = ImmediateOf(p, l)
      /\ \A i \in 1 .. Len(queue) : one[i] = queue[i]
  BY <1>1, AppendFacts DEF TypeOK
<1>3. queue \o <<ImmediateOf(p, l)>> = one
  BY <1>1 DEF TypeOK
<1>4. queue' = IF hd THEN Append(one, Deferred(l)) ELSE one
  <2> HIDE DEF one
  <2> QED
    BY <1>1, <1>2, <1>3
<1> HIDE DEF one
<1>5. /\ queue' \in Seq(Tasks) /\ Len(queue') = Len(queue) + Full(p, l)
      /\ queue'[Len(queue) + 1] = ImmediateOf(p, l)
      /\ hd => queue'[Len(queue) + 2] = Deferred(l)
      /\ \A i \in 1 .. Len(queue) : queue'[i] = queue[i]
  <2>1. CASE hd
    <3> DEFINE two == Append(one, Deferred(l))
    <3>1. queue' = two /\ Full(p, l) = 2
      BY <1>4, <2>1 DEF Full
    <3>2. /\ two \in Seq(Tasks) /\ Len(two) = Len(one) + 1 /\ two[Len(one) + 1] = Deferred(l)
          /\ \A i \in 1 .. Len(one) : two[i] = one[i]
      BY <1>1, <1>2, AppendFacts
    <3> HIDE DEF two
    <3>3. Len(two) = Len(queue) + 2 /\ two[Len(queue) + 2] = Deferred(l)
      BY <1>2, <3>2
    <3>4. \A i \in 1 .. Len(queue) + 1 : two[i] = one[i]
      BY <1>2, <3>2
    <3>5. two[Len(queue) + 1] = ImmediateOf(p, l) /\ \A i \in 1 .. Len(queue) : two[i] = queue[i]
      BY <1>2, <3>4
    <3> QED
      BY <3>1, <3>2, <3>3, <3>5
  <2>2. CASE ~hd
    BY <1>2, <1>4, <2>2 DEF Full
  <2> QED
    BY <2>1, <2>2
<1>6. Fresh("run", p, l) = 0 /\ Fresh("run", p, l)' = Full(p, l) /\ Full(p, l) = IF hd THEN 2 ELSE 1
  BY DEF Fresh, Full, HasDef
<1>7. /\ ImmediateOf(p, l)' = ImmediateOf(p, l) /\ HasDef(p, l)' = hd
      /\ HasDef(p, l - 1)' = HasDef(p, l - 1)
      /\ DeferredPart(p, l - 1)' = DeferredPart(p, l - 1)
  BY DEF ImmediateOf, HasDef, DeferredPart
<1>8. QueueAt("run", p, l)'
  <2>1. l > 0 => Len(queue) <= 1
    BY <1>6 DEF QueueAt
  <2>2. l > 0 /\ Len(queue) = 1 => queue[1] = Deferred(l - 1) /\ HasDef(p, l - 1)
    BY <1>6 DEF QueueAt
  <2>3. l = 0 /\ raised = {} => Len(queue) = 0
    BY <1>2, <1>6 DEF QueueAt
  <2>4. l > 0 => pendingDeferred[l - 1] = HasDef(p, l - 1)
    BY DEF QueueAt
  <2>5. pendingDeferred'[l] = hd /\ (l > 0 => pendingDeferred'[l - 1] = pendingDeferred[l - 1])
    BY <1>1 DEF TypeOK
  <2>6. l > 0 /\ Len(queue') = Full(p, l) + 1 => queue'[1] = Deferred(l - 1)' /\ HasDef(p, l - 1)'
    <3>1. Len(queue') = Full(p, l) + 1 => Len(queue) = 1
      BY <1>1, <1>2, <1>5
    <3>2. Deferred(l - 1)' = Deferred(l - 1)
      BY DEF Deferred
    <3>3. Len(queue) = 1 => queue'[1] = queue[1]
      BY <1>5
    <3> QED
      BY <1>7, <2>2, <3>1, <3>2, <3>3
  <2> QED
    BY <1>1, <1>2, <1>5, <1>6, <1>7, <2>1, <2>3, <2>4, <2>5, <2>6 DEF QueueAt
<1>9. DataAt("run", p, l)'
  BY <1>1, <1>2, <1>5, <1>6, <1>7 DEF DataAt
<1> QED
  BY <1>5, <1>8, <1>9 DEF Good

\* ... and waits for the immediate one.
LEMMA PinnedReturnStep ==
    ASSUME TypeOK, NEW p \in Passes, NEW l \in Layers, mode = "pinned", callback, ~callback',
           QueueAt("run", p, l), DataAt("run", p, l),
           Len(queue) <= IF pendingDeferred[l] THEN 1 ELSE 0,
           UNCHANGED <<mode, queue, buffers, chose, pendingDeferred, exception, deviceError,
                       raised>>
    PROVE  QueueAt("h2d", p, l)' /\ Good("h2d", p, l)'
<1> USE DEF buffers
<1>1. pendingDeferred[l] = HasDef(p, l)
  BY DEF QueueAt
<1>2. /\ Fresh("run", p, l) = Full(p, l) /\ Fresh("h2d", p, l)' = Full(p, l)
      /\ Full(p, l) = IF HasDef(p, l) THEN 2 ELSE 1
      /\ Len(queue) \in Nat /\ Len(queue) < Full(p, l) /\ Len(queue) <= Full(p, l) - 1
  BY <1>1, EmptyFacts DEF Fresh, Full, HasDef, TypeOK
<1>3. /\ Expected(p, l)' = Expected(p, l)
      /\ DeferredPart(p, l)' = DeferredPart(p, l)
      /\ DeferredPart(p, l - 1)' = DeferredPart(p, l - 1)
      /\ HasDef(p, l)' = HasDef(p, l)
      /\ HasDef(p, l - 1)' = HasDef(p, l - 1) /\ ImmediateOf(p, l)' = ImmediateOf(p, l)
  BY DEF Expected, DeferredPart, HasDef, ImmediateOf
<1>4. QueueAt("h2d", p, l)'
  BY <1>1, <1>2, <1>3 DEF QueueAt
<1>5. DataAt("h2d", p, l)' /\ output'[SlotOf(l)] = Expected(p, l)'
  BY <1>2, <1>3 DEF DataAt
<1> QED
  BY <1>4, <1>5 DEF Good

\* What a finished task writes.
Sum(t, in) == IF t.kind = "deferred" /\ ~in.deferred THEN {} ELSE {Part(t.kind, in)}

\* The queue loses its oldest task; what was said of it remains true.
LEMMA PoppedQueue ==
    ASSUME TypeOK, NEW st \in Stages, NEW p, NEW l \in Layers, QueueAt(st, p, l),
           queue # << >>, queue' = Tail(queue),
           UNCHANGED <<mode, chose, pendingDeferred, callback, raised>>
    PROVE  /\ QueueAt(st, p, l)' /\ queue' \in Seq(Tasks)
           /\ Fresh(st, p, l)' = Fresh(st, p, l) /\ Fresh(st, p, l) \in {0, 1, 2}
           /\ Len(queue) \in Nat /\ Len(queue) >= 1 /\ Len(queue') = Len(queue) - 1
           /\ Head(queue) = queue[1] /\ queue[1] \in Tasks
<1>1. /\ queue' \in Seq(Tasks) /\ Len(queue) \in Nat /\ Len(queue) >= 1
      /\ Len(queue') = Len(queue) - 1 /\ Head(queue) = queue[1] /\ queue[1] \in Tasks
      /\ \A i \in 1 .. Len(queue) - 1 : queue'[i] = queue[i + 1]
  BY TailFacts DEF TypeOK
<1>2. Fresh(st, p, l)' = Fresh(st, p, l) /\ Fresh(st, p, l) \in {0, 1, 2}
  BY DEF Fresh, Full, HasDef
<1>3. ImmediateOf(p, l)' = ImmediateOf(p, l) /\ Deferred(l)' = Deferred(l) /\ l \in Nat
  BY SizeAssumption DEF ImmediateOf, HasDef, Deferred, Layers
<1>4. /\ HasDef(p, l)' = HasDef(p, l) /\ HasDef(p, l - 1)' = HasDef(p, l - 1)
  BY DEF HasDef
<1>5. /\ Len(queue') >= 1 => queue'[Len(queue')] = queue[Len(queue)]
      /\ Len(queue') >= 2 => queue'[Len(queue') - 1] = queue[Len(queue) - 1]
  BY <1>1
<1>6. l > 0 => Len(queue') <= Fresh(st, p, l)
  BY <1>1, <1>2 DEF QueueAt
<1> DEFINE f == Fresh(st, p, l)
<1>7. /\ f = 2 /\ Len(queue') >= 1 => queue'[Len(queue')] = Deferred(l)
      /\ f = 2 /\ Len(queue') >= 2 => queue'[Len(queue') - 1] = ImmediateOf(p, l)
      /\ f = 1 /\ Len(queue') >= 1 => queue'[Len(queue')] = ImmediateOf(p, l)
  BY <1>1, <1>5 DEF QueueAt
<1>8. /\ l = 0 /\ raised = {} => Len(queue') <= f
      /\ st = "h2d" => Len(queue') <= f - 1
  BY <1>1, <1>2 DEF QueueAt
<1>9. mode = "pinned" =>
         /\ l > 0 => pendingDeferred[l - 1] = HasDef(p, l - 1)
         /\ callback \/ st = "h2d" => pendingDeferred[l] = HasDef(p, l)
  BY DEF QueueAt
<1>10. QueueAt(st, p, l)'
  BY <1>1, <1>2, <1>3, <1>4, <1>6, <1>7, <1>8, <1>9 DEF QueueAt
<1> QED
  BY <1>1, <1>2, <1>10

\* The immediate task adds to its slot exactly when the layer before has a
\* deferred task.
LEMMA IncrementalFact ==
    ASSUME NEW p, NEW l
    PROVE  /\ ImmediateOf(p, l).incremental = (l > 0 /\ HasDef(p, l - 1))
           /\ ImmediateOf(p, l).kind = "immediate" /\ ImmediateOf(p, l).out = SlotOf(l)
           /\ ImmediateOf(p, l).slot = SlotOf(l)
BY DEF ImmediateOf, HasDef

\* The worker ends a task.
LEMMA TaskEndStep ==
    ASSUME TypeOK, NEW st \in Stages, NEW p, NEW l \in Layers,
           st # "d2h" \/ l > 0 => p \in Passes,
           QueueAt(st, p, l), Good(st, p, l),
           \A a \in Passes, b \in Layers : chose[a][b] => b \in Defers,
           queue # << >>, queue' = Tail(queue), NEW t, NEW sum,
           t = Head(queue), sum = Sum(t, input[t.slot]),
           output' = [output EXCEPT ![t.out] = IF t.incremental THEN @ \cup sum ELSE sum],
           UNCHANGED <<mode, input, chose, pendingDeferred, callback, exception, deviceError,
                       raised>>
    PROVE  QueueAt(st, p, l)' /\ Good(st, p, l)'
<1> DEFINE f == Fresh(st, p, l)  n == Len(queue)
<1>1. /\ QueueAt(st, p, l)' /\ Fresh(st, p, l)' = f /\ f \in {0, 1, 2}
      /\ n \in Nat /\ n >= 1 /\ Len(queue') = n - 1 /\ t = queue[1] /\ t \in Tasks
  BY PoppedQueue
<1>2. /\ l \in Nat /\ SlotOf(l) \in Slots /\ NextSlot(l) \in Slots /\ NextSlot(l) # SlotOf(l)
      /\ l > 0 => l - 1 \in Nat /\ l - 1 \in Layers /\ NextSlot(l - 1) = SlotOf(l)
  BY SlotFacts, SizeAssumption DEF Layers
<1>3. /\ output \in [Slots -> SUBSET Parts] /\ t.out \in Slots
      /\ \A s \in Slots : s # t.out => output'[s] = output[s]
      /\ output'[t.out] = IF t.incremental THEN output[t.out] \cup sum ELSE sum
  BY <1>1 DEF TypeOK, Tasks
<1>4. /\ Expected(p, l)' = Expected(p, l) /\ Trusted(p)' = Trusted(p)
      /\ DeferredPart(p, l)' = DeferredPart(p, l)
      /\ DeferredPart(p, l - 1)' = DeferredPart(p, l - 1)
      /\ HasDef(p, l - 1)' = HasDef(p, l - 1)
  BY DEF Expected, Trusted, DeferredPart, HasDef
<1>5. n < f => t = Deferred(l) /\ n = 1 /\ f = 2
  BY <1>1 DEF QueueAt
<1>6. st = "h2d" => n < f
  BY <1>1 DEF QueueAt
<1>7. st = "h2d" => output'[SlotOf(l)] = output[SlotOf(l)]
  BY <1>2, <1>3, <1>5, <1>6 DEF Deferred
<1>8. ASSUME DataAt(st, p, l) PROVE DataAt(st, p, l)'
  <2>1. st # "d2h" => input'[SlotOf(l)] = Inputs(p, l, chose[p][l])
    BY <1>8 DEF DataAt
  <2>2. ~(l > 0 /\ n - 1 = f + 1)
    BY <1>1, <1>2 DEF QueueAt
  <2>3. CASE n > f + 1
    BY <1>1, <1>2, <1>4, <2>1, <2>2, <2>3 DEF DataAt, QueueAt
  <2>4. CASE n = f + 1
    <3>1. ASSUME l > 0 PROVE output'[SlotOf(l)] = DeferredPart(p, l - 1)
      <4>1. t = Deferred(l - 1) /\ input[SlotOf(l - 1)] = Inputs(p, l - 1, chose[p][l - 1])
        BY <1>1, <1>8, <2>4, <3>1 DEF QueueAt, DataAt
      <4>2. sum = DeferredPart(p, l - 1)
        <5>1. chose[p][l - 1] \in BOOLEAN
          BY <1>2, <3>1 DEF TypeOK
        <5>2. /\ input[t.slot].deferred = chose[p][l - 1] /\ t.kind = "deferred"
              /\ Part(t.kind, input[t.slot]) = Part("deferred", Inputs(p, l - 1, TRUE))
          BY <4>1 DEF Deferred, Inputs, Part
        <5> QED
          BY <5>1, <5>2 DEF Sum, DeferredPart
      <4>3. t.out = SlotOf(l) /\ ~t.incremental
        BY <1>2, <3>1, <4>1 DEF Deferred
      <4> QED
        BY <1>3, <4>2, <4>3
    <3> QED
      BY <1>1, <1>4, <2>1, <2>4, <3>1 DEF DataAt
  <2>5. CASE n = f
    <3>1. t = ImmediateOf(p, l) /\ st # "d2h"
      BY <1>1, <2>5 DEF QueueAt, Fresh
    <3>2. p \in Passes
      BY <3>1
    <3>3. sum = {Part("immediate", Inputs(p, l, FALSE))} /\ t.out = SlotOf(l)
      BY <1>8, <3>1 DEF Sum, ImmediateOf, DataAt, Part, Inputs
    <3>4. output'[SlotOf(l)] = Expected(p, l)
      <4>0. t.incremental = (l > 0 /\ HasDef(p, l - 1))
        BY <3>1, IncrementalFact, Zenon
      <4>1. CASE l > 0 /\ HasDef(p, l - 1)
        <5>1. t.incremental
          BY <4>0, <4>1, Zenon
        <5>2. output'[SlotOf(l)] = DeferredPart(p, l - 1) \cup sum
          BY <1>3, <1>8, <2>5, <3>3, <4>1, <5>1 DEF DataAt
        <5> QED
          BY <3>3, <4>1, <5>2 DEF Expected, DeferredPart
      <4>2. CASE ~(l > 0 /\ HasDef(p, l - 1))
        <5>1. ~t.incremental
          BY <4>0, <4>2, Zenon
        <5>2. ~(l > 0 /\ chose[p][l - 1])
          BY <1>2, <3>2, <4>2 DEF HasDef
        <5> QED
          BY <1>3, <3>3, <5>1, <5>2 DEF Expected
      <4> QED
        BY <4>1, <4>2
    <3> QED
      BY <1>1, <1>4, <2>1, <2>5, <3>4 DEF DataAt
  <2>6. CASE n < f
    <3>1. t = Deferred(l) /\ n = 1 /\ f = 2 /\ st # "d2h"
      BY <1>5, <2>6 DEF Fresh
    <3>2. t.out = NextSlot(l) /\ ~t.incremental /\ sum = DeferredPart(p, l)
      <4>1. chose[p][l] \in BOOLEAN
        BY <3>1 DEF TypeOK
      <4>2. input[SlotOf(l)] = Inputs(p, l, chose[p][l])
        BY <1>8, <3>1 DEF DataAt
      <4>3. /\ input[t.slot].deferred = chose[p][l] /\ t.kind = "deferred"
            /\ Part(t.kind, input[t.slot]) = Part("deferred", Inputs(p, l, TRUE))
            /\ t.out = NextSlot(l) /\ ~t.incremental
        BY <3>1, <4>2 DEF Deferred, Inputs, Part
      <4> QED
        BY <4>1, <4>3 DEF Sum, DeferredPart
    <3>3. output'[NextSlot(l)] = DeferredPart(p, l) /\ output'[SlotOf(l)] = output[SlotOf(l)]
      BY <1>2, <1>3, <3>2
    <3>4. output[SlotOf(l)] = Expected(p, l)
      BY <1>8, <2>6 DEF DataAt
    <3> QED
      <4>1. Len(queue') = 0 /\ Fresh(st, p, l)' = 2
        BY <1>1, <3>1
      <4>2. ~(Len(queue') = Fresh(st, p, l)' + 1) /\ ~(Len(queue') = Fresh(st, p, l)')
        BY <4>1, 0 # 2, 0 # 2 + 1, Zenon
      <4>3. output'[SlotOf(l)] = Expected(p, l)' /\ output'[NextSlot(l)] = DeferredPart(p, l)'
        BY <1>4, <3>3, <3>4
      <4> QED
        BY <2>1, <4>2, <4>3 DEF DataAt
  <2> QED
    BY <1>1, <2>3, <2>4, <2>5, <2>6
<1> QED
  BY <1>1, <1>4, <1>7, <1>8 DEF Good

\* The worker's task throws: it may have torn the slot it writes, which is not
\* the one that is being copied to the device.
LEMMA TaskThrowsStep ==
    ASSUME TypeOK, NEW st \in Stages, NEW p, NEW l \in Layers,
           QueueAt(st, p, l), Good(st, p, l), exception',
           queue # << >>, queue' = Tail(queue), output' = [output EXCEPT ![Head(queue).out] = {Torn}],
           UNCHANGED <<mode, input, chose, pendingDeferred, callback, deviceError, raised>>
    PROVE  QueueAt(st, p, l)' /\ Good(st, p, l)'
<1>1. /\ QueueAt(st, p, l)' /\ Fresh(st, p, l) \in {0, 1, 2}
      /\ Len(queue) \in Nat /\ Len(queue) >= 1 /\ Head(queue) = queue[1] /\ queue[1] \in Tasks
  BY PoppedQueue
<1>2. Trusted(p)' = Trusted(p) /\ Expected(p, l)' = Expected(p, l)
  BY DEF Trusted, Expected
<1>3. ASSUME st = "h2d" PROVE output'[SlotOf(l)] = output[SlotOf(l)]
  <2>1. Head(queue) = Deferred(l)
    BY <1>1, <1>3 DEF QueueAt
  <2>2. l \in Nat /\ SlotOf(l) \in Slots /\ NextSlot(l) # SlotOf(l)
    BY SlotFacts, SizeAssumption DEF Layers
  <2> QED
    BY <2>1, <2>2 DEF Deferred, TypeOK
<1> QED
  BY <1>1, <1>2, <1>3 DEF Good

\* The host raises an exception while the device is still in an earlier stage:
\* nothing of that pass counts any more.
LEMMA RaiseStep ==
    ASSUME NEW st, NEW p, NEW l, QueueAt(st, p, l), NEW q, q \in raised', ~(q < p),
           UNCHANGED <<mode, queue, chose, pendingDeferred, callback>>
    PROVE  QueueAt(st, p, l)' /\ Good(st, p, l)'
<1>1. /\ Fresh(st, p, l)' = Fresh(st, p, l) /\ ImmediateOf(p, l)' = ImmediateOf(p, l)
      /\ HasDef(p, l)' = HasDef(p, l) /\ HasDef(p, l - 1)' = HasDef(p, l - 1)
  BY DEF Fresh, Full, HasDef, ImmediateOf
<1>2. QueueAt(st, p, l)'
  BY <1>1 DEF QueueAt
<1> QED
  BY <1>2 DEF Good, Trusted

\* The host makes the choices of a layer that the device has not reached.
LEMMA ChoiceStep ==
    ASSUME NEW st, NEW p, NEW l, QueueAt(st, p, l), Good(st, p, l),
           st # "d2h" => chose'[p][l] = chose[p][l],
           l > 0 => chose'[p][l - 1] = chose[p][l - 1],
           callback => st # "d2h",
           Len(queue) \in Nat,
           mode # "pinned" \/ UNCHANGED pendingDeferred,
           UNCHANGED <<mode, queue, buffers, callback, exception, deviceError, raised>>
    PROVE  QueueAt(st, p, l)' /\ Good(st, p, l)'
<1> USE DEF buffers
<1>1. /\ Fresh(st, p, l)' = Fresh(st, p, l)
      /\ l > 0 => HasDef(p, l - 1)' = HasDef(p, l - 1)
      /\ ImmediateOf(p, l)' = ImmediateOf(p, l)
      /\ st # "d2h" => HasDef(p, l)' = HasDef(p, l)
  BY DEF Fresh, Full, HasDef, ImmediateOf
<1>2. QueueAt(st, p, l)'
  BY <1>1 DEF QueueAt
<1>3. /\ Trusted(p)' = Trusted(p) /\ Expected(p, l)' = Expected(p, l)
      /\ l > 0 => DeferredPart(p, l - 1)' = DeferredPart(p, l - 1)
      /\ st # "d2h" => DeferredPart(p, l)' = DeferredPart(p, l)
  BY DEF Trusted, Expected, DeferredPart
<1>4. st = "d2h" => Fresh(st, p, l) = 0
  BY DEF Fresh
<1>5. ASSUME DataAt(st, p, l) PROVE DataAt(st, p, l)'
  BY <1>1, <1>3, <1>4, <1>5 DEF DataAt
<1> QED
  BY <1>2, <1>3, <1>5 DEF Good

\* The same as StartStep, for the state after a step.
LEMMA StartNext ==
    ASSUME NEW p, TypeOK', ~callback', raised' = {} => queue' = << >>
    PROVE  QueueAt("d2h", p, 0)' /\ Good("d2h", p, 0)'
<1>1. Len(queue') \in Nat /\ (queue' = << >> <=> Len(queue') = 0)
  BY EmptyFacts DEF TypeOK
<1>2. Fresh("d2h", p, 0)' = 0
  BY DEF Fresh
<1> QED
  BY <1>1, <1>2 DEF QueueAt, Good, DataAt

-----------------------------------------------------------------------------
(* The parts of the invariant that a step leaves alone *)

\* A step that touches neither the host nor the stream.
LEMMA StreamFrame ==
    ASSUME StreamInv, UNCHANGED <<mode, host, stream, chose, raised, callback>>
    PROVE  StreamInv'
BY DEF host, StreamInv, Fits, Earlier, Capturing, OnHost, OnStream, HostStage, HostPass, HostLayer

\* A step that touches neither the host nor the captured operations.
LEMMA GraphFrame ==
    ASSUME GraphInv, UNCHANGED <<mode, host, graph>>
    PROVE  GraphInv'
BY DEF host, GraphInv, Capturing

\* A step that does not touch the host.
LEMMA HostFrame ==
    ASSUME HostInv, UNCHANGED <<mode, host, chose, raised>>,
           mode # "pinned" => UNCHANGED pendingDeferred
    PROVE  HostInv'
BY DEF host, HostInv, Capturing, OnStream

\* A step that touches neither the last output nor the errors.
LEMMA ResultFrame ==
    ASSUME ResultInv, UNCHANGED <<mode, host, chose, result, raised, deviceError>>
    PROVE  ResultInv'
BY DEF host, ResultInv, Earlier, Trusted, Expected, OnStream

\* Where the execution is, and what is known there.
LEMMA PlaceFacts ==
    ASSUME IInv, NEW st, NEW p, NEW l, IsAt(st, p, l)
    PROVE  /\ st \in Stages /\ l \in Layers /\ p \in 1 .. MaxPasses + 1
           /\ st # "d2h" \/ l > 0 => p \in Passes
           /\ QueueAt(st, p, l) /\ Good(st, p, l)
           /\ callback => st = "run"
<1>1. CASE stream = << >>
  <2>1. st = HostStage /\ p = HostPass /\ l = HostLayer /\ ~callback
    BY <1>1 DEF IsAt, IInv, StreamInv
  <2>2. CASE Capturing
    <3>1. st = "d2h" /\ p = 2 /\ l = 0
      BY <2>1, <2>2 DEF HostStage, HostPass, HostLayer
    <3> QED
      BY <2>1, <3>1, SizeAssumption DEF Stages, Layers, IInv, TaskInv
  <2>3. CASE ~Capturing
    <3>1. p = pass /\ l = layer /\ st = IF pc \in {"start", "done"} THEN "d2h" ELSE pc
      BY <2>1, <2>3 DEF HostStage, HostPass, HostLayer
    <3>2. st \in Stages /\ l \in Layers /\ p \in 1 .. MaxPasses + 1
      BY <3>1 DEF Stages, IInv, TypeOK
    <3>3. st # "d2h" \/ l > 0 => pc # "done"
      BY <3>1, SizeAssumption DEF IInv, HostInv, Layers
    <3>4. pc # "done" => p \in Passes
      BY <3>1, <3>2, SizeAssumption DEF IInv, HostInv, Passes
    <3> QED
      BY <2>1, <3>2, <3>3, <3>4 DEF IInv, TaskInv
  <2> QED
    BY <2>2, <2>3
<1>2. CASE stream # << >>
  <2>1. stream[1] \in Ops
    BY <1>2, TailFacts DEF IInv, TypeOK
  <2>2. st = Stage(stream[1]) /\ p = stream[1].pass /\ l = stream[1].layer
    BY <1>2 DEF IsAt
  <2>3. st \in Stages /\ l \in Layers /\ p \in Passes
    BY <2>1, <2>2, OpFacts
  <2>4. p \in 1 .. MaxPasses + 1
    BY <2>3, SizeAssumption DEF Passes
  <2>5. callback => st = "run"
    BY <2>1, <2>2, OpFacts DEF IInv, StreamInv
  <2> QED
    BY <2>3, <2>4, <2>5 DEF IInv, TaskInv
<1> QED
  BY <1>1, <1>2

\* The device runs the first operation of the stream: the execution is at the
\* stage that comes after it.
LEMMA StreamPop ==
    ASSUME IInv, stream # << >>, stream' = Tail(stream), ~callback',
           UNCHANGED <<mode, host, chose, raised>>
    PROVE  /\ StreamInv' /\ stream' \in Seq(Ops) /\ ~Capturing
           /\ stream[1] \in Ops /\ Head(stream) = stream[1]
           /\ Formed(stream[1]) /\ Fits(stream[1])
           /\ Earlier(stream[1].pass, stream[1].layer)
           /\ IsAt(Stage(stream[1]), stream[1].pass, stream[1].layer)
           /\ \A st, p, l : IsAt(st, p, l)' => Comes(stream[1], st, p, l, raised)
<1> USE DEF host
<1>1. /\ stream \in Seq(Ops) /\ Tail(stream) \in Seq(Ops) /\ Len(stream) \in Nat
      /\ Len(stream) >= 1 /\ Len(Tail(stream)) = Len(stream) - 1 /\ Head(stream) = stream[1]
      /\ stream[1] \in Ops
      /\ \A i \in 1 .. Len(stream) - 1 : Tail(stream)[i] = stream[i + 1]
  BY TailFacts DEF IInv, TypeOK
<1>2. /\ Linked(Tail(stream), raised)
      /\ EndsAt(Tail(stream), HostStage, HostPass, HostLayer, raised)
      /\ Tail(stream) # << >> => Comes(stream[1], Stage(Tail(stream)[1]), Tail(stream)[1].pass,
                                       Tail(stream)[1].layer, raised)
      /\ Tail(stream) = << >> => Comes(stream[1], HostStage, HostPass, HostLayer, raised)
  BY LinkedTail, <1>1 DEF IInv, StreamInv
<1>3. HostStage' = HostStage /\ HostPass' = HostPass /\ HostLayer' = HostLayer
  BY DEF HostStage, HostPass, HostLayer, Capturing
<1>4. ASSUME NEW st, NEW p, NEW l, IsAt(st, p, l)' PROVE Comes(stream[1], st, p, l, raised)
  BY <1>2, <1>3, <1>4 DEF IsAt
<1>5. ~Capturing /\ ~(OnHost /\ pc \in {"deferred", "sync"})
  BY DEF IInv, StreamInv
<1>6. \A i \in 1 .. Len(stream) - 1 : i + 1 \in 1 .. Len(stream)
  BY <1>1
<1>7. \A i \in 1 .. Len(stream') :
         /\ Formed(stream'[i]) /\ Fits(stream[i])'
         /\ Earlier(stream[i].pass, stream[i].layer)'
  BY <1>1, <1>6 DEF IInv, StreamInv, Fits, Earlier, OnStream
<1>8. ~OnStream' => \A i \in 1 .. Len(stream'), q \in raised' : q < stream'[i].pass
  BY <1>1, <1>6 DEF IInv, StreamInv, OnStream
<1>9. StreamInv'
  BY <1>2, <1>3, <1>5, <1>7, <1>8 DEF StreamInv, Capturing, OnHost
<1>10. /\ Formed(stream[1]) /\ Fits(stream[1]) /\ Earlier(stream[1].pass, stream[1].layer)
       /\ IsAt(Stage(stream[1]), stream[1].pass, stream[1].layer)
  BY <1>1 DEF IInv, StreamInv, IsAt
<1> QED
  BY <1>1, <1>4, <1>5, <1>9, <1>10

-----------------------------------------------------------------------------
(* The worker *)

\* The worker begins a task.
LEMMA TaskBeginInv ==
    ASSUME IInv, TaskBegin, UNCHANGED <<mode, failures>>
    PROVE  IInv'
<1> USE DEF TaskBegin, host, buffers, args
<1>1. TypeOK'
  BY DEF IInv, TypeOK
<1>2. StreamInv' /\ GraphInv' /\ HostInv' /\ ResultInv'
  BY StreamFrame, GraphFrame, HostFrame, ResultFrame DEF IInv
<1>3. ErrorInv'
  BY DEF IInv, ErrorInv, OnStream, Capturing
<1>4. TaskInv'
  <2> SUFFICES ASSUME NEW st \in Stages, NEW p \in 1 .. MaxPasses + 1, NEW l \in Layers,
                      IsAt(st, p, l)'
               PROVE  QueueAt(st, p, l)' /\ Good(st, p, l)'
    BY DEF TaskInv
  <2>1. IsAt(st, p, l)
    BY DEF IsAt, HostStage, HostPass, HostLayer, Capturing
  <2> QED
    BY <2>1, PlaceFacts, KeptStep
<1> QED
  BY <1>1, <1>2, <1>3, <1>4 DEF IInv

\* The worker ends a task: its part is in the slot that the queue promised.
LEMMA TaskEndInv ==
    ASSUME IInv, TaskEnd, UNCHANGED <<mode, failures>>
    PROVE  IInv'
<1> USE DEF host, args
<1> DEFINE t == Head(queue)  in == input[t.slot]  sum == Sum(t, in)
<1>1. /\ running /\ queue # << >> /\ running' = FALSE /\ queue' = Tail(queue)
      /\ output' = [output EXCEPT ![t.out] = IF t.incremental THEN @ \cup sum ELSE sum]
      /\ UNCHANGED <<pc, pass, layer, pendingDeferred, input, stream, graph, callback, exception,
                     deviceError, launched, freed, chose, result, raised>>
  BY DEF TaskEnd, Sum, IInv, TypeOK
<1>2. t \in Tasks /\ queue' \in Seq(Tasks)
  BY <1>1, TailFacts DEF IInv, TypeOK
<1>3. t.slot \in Slots /\ t.out \in Slots /\ t.kind \in {"immediate", "deferred"}
  BY <1>2 DEF Tasks
<1>4. in \in [pass : 0 .. MaxPasses, layer : Layers, deferred : BOOLEAN]
  BY <1>3 DEF IInv, TypeOK
<1>5. sum \in SUBSET Parts
  <2>1. Part(t.kind, in) \in Parts
    BY <1>3, <1>4 DEF Part, Parts
  <2> QED
    BY <2>1 DEF Sum
<1> HIDE DEF t, in, sum
<1>6. output' \in [Slots -> SUBSET Parts]
  <2>1. output \in [Slots -> SUBSET Parts]
    BY DEF IInv, TypeOK
  <2>2. (IF t.incremental THEN output[t.out] \cup sum ELSE sum) \in SUBSET Parts
    BY <1>3, <1>5, <2>1
  <2> QED
    BY <1>1, <2>1, <2>2
<1>7. TypeOK'
  BY <1>1, <1>2, <1>6 DEF IInv, TypeOK
<1>8. StreamInv' /\ GraphInv' /\ HostInv' /\ ResultInv'
  BY <1>1, StreamFrame, GraphFrame, HostFrame, ResultFrame DEF IInv
<1>9. ErrorInv'
  BY <1>1 DEF IInv, ErrorInv, OnStream, Capturing
<1>10. TaskInv'
  <2> SUFFICES ASSUME NEW st \in Stages, NEW p \in 1 .. MaxPasses + 1, NEW l \in Layers,
                      IsAt(st, p, l)'
               PROVE  QueueAt(st, p, l)' /\ Good(st, p, l)'
    BY DEF TaskInv
  <2>1. IsAt(st, p, l)
    BY <1>1 DEF IsAt, HostStage, HostPass, HostLayer, Capturing
  <2>2. /\ QueueAt(st, p, l) /\ Good(st, p, l) /\ TypeOK
        /\ st # "d2h" \/ l > 0 => p \in Passes
        /\ \A a \in Passes, b \in Layers : chose[a][b] => b \in Defers
    BY <2>1, PlaceFacts DEF IInv, HostInv
  <2> QED
    BY <1>1, <2>2, TaskEndStep DEF t, in, sum
<1> QED
  BY <1>7, <1>8, <1>9, <1>10 DEF IInv

\* A task throws: from now on nothing is promised until the exception is
\* taken.
LEMMA TaskThrowsInv ==
    ASSUME IInv, TaskThrows, UNCHANGED mode
    PROVE  IInv'
<1> USE DEF host, args
<1>1. /\ running /\ queue # << >> /\ running' = FALSE /\ queue' = Tail(queue) /\ mode # "pinned"
      /\ output' = [output EXCEPT ![Head(queue).out] = {Torn}] /\ exception' = TRUE
      /\ failures \in 0 .. MaxFailures /\ failures' = failures + 1 /\ failures < MaxFailures
      /\ UNCHANGED <<pc, pass, layer, pendingDeferred, input, stream, graph, callback,
                     deviceError, launched, freed, chose, result, raised>>
  BY DEF TaskThrows, IInv, TypeOK
<1>2. Head(queue) \in Tasks /\ queue' \in Seq(Tasks)
  BY <1>1, TailFacts DEF IInv, TypeOK
<1>3. output' \in [Slots -> SUBSET Parts]
  <2>1. {Torn} \in SUBSET Parts
    BY SizeAssumption DEF Torn, Parts, Layers
  <2> QED
    BY <1>1, <2>1 DEF IInv, TypeOK
<1>4. TypeOK'
  <2>1. failures' \in 0 .. MaxFailures
    BY <1>1, FailAssumption
  <2>2. exception' \in BOOLEAN /\ running' \in BOOLEAN /\ ~running'
    BY <1>1
  <2> QED
    BY <1>1, <1>2, <1>3, <2>1, <2>2 DEF IInv, TypeOK
<1>5. StreamInv' /\ GraphInv' /\ HostInv' /\ ResultInv'
  BY <1>1, StreamFrame, GraphFrame, HostFrame, ResultFrame DEF IInv
<1>6. ErrorInv'
  <2>1. failures' # 0 /\ ~Capturing'
    BY <1>1, FailAssumption DEF IInv, ErrorInv, Capturing
  <2> QED
    BY <1>1, <2>1 DEF IInv, ErrorInv, OnStream
<1>7. TaskInv'
  <2> SUFFICES ASSUME NEW st \in Stages, NEW p \in 1 .. MaxPasses + 1, NEW l \in Layers,
                      IsAt(st, p, l)'
               PROVE  QueueAt(st, p, l)' /\ Good(st, p, l)'
    BY DEF TaskInv
  <2>1. IsAt(st, p, l)
    BY <1>1 DEF IsAt, HostStage, HostPass, HostLayer, Capturing
  <2>2. QueueAt(st, p, l) /\ Good(st, p, l) /\ TypeOK
    BY <2>1, PlaceFacts DEF IInv
  <2> QED
    BY <1>1, <2>2, TaskThrowsStep
<1> QED
  BY <1>4, <1>5, <1>6, <1>7 DEF IInv

-----------------------------------------------------------------------------
(* The device stream *)

\* What is to be shown of the tasks and slots when the device runs an
\* operation: they fit the stage that follows.
LEMMA PopTasks ==
    ASSUME IInv, stream # << >>, stream' = Tail(stream), ~callback', TypeOK',
           UNCHANGED <<mode, host, chose, raised>>,
           \A st, p, l : st \in Stages /\ Follows(stream[1], st, p, l) =>
                             QueueAt(st, p, l)' /\ Good(st, p, l)'
    PROVE  TaskInv'
<1> SUFFICES ASSUME NEW st \in Stages, NEW p \in 1 .. MaxPasses + 1, NEW l \in Layers,
                    IsAt(st, p, l)'
             PROVE  QueueAt(st, p, l)' /\ Good(st, p, l)'
  BY DEF TaskInv
<1>1. Comes(stream[1], st, p, l, raised)
  BY StreamPop
<1>2. CASE Follows(stream[1], st, p, l)
  BY <1>2
<1>3. CASE st = "d2h" /\ p = stream[1].pass + 1 /\ l = 0 /\ stream[1].pass \in raised
  BY <1>3, StartNext
<1> QED
  BY <1>1, <1>2, <1>3 DEF Comes

\* The device copies the inputs of a layer.
LEMMA StreamCopyInInv ==
    ASSUME IInv, StreamCopyIn, UNCHANGED <<mode, failures>>
    PROVE  IInv'
<1> USE DEF host, args, worker
<1> DEFINE o == stream[1]
<1>1. /\ stream # << >> /\ stream' = Tail(stream) /\ Head(stream).op = "d2h"
      /\ input' = [input EXCEPT ![SlotOf(Head(stream).layer)] =
                      Inputs(Head(stream).pass, Head(stream).layer, Head(stream).deferred)]
      /\ UNCHANGED <<pc, pass, layer, pendingDeferred, output, graph, callback, queue, running,
                     exception, deviceError, launched, freed, chose, result, raised>>
  BY DEF StreamCopyIn, StreamStep
<1>2. Head(stream) = o /\ o \in Ops
  BY <1>1, TailFacts DEF IInv, TypeOK
<1>3. ~callback /\ ~callback'
  BY <1>1, <1>2 DEF IInv, StreamInv
<1>4. /\ StreamInv' /\ stream' \in Seq(Ops) /\ ~Capturing /\ Fits(o)
      /\ IsAt(Stage(o), o.pass, o.layer)
  BY <1>1, <1>3, StreamPop
<1>5. /\ o.pass \in Passes /\ o.layer \in Layers /\ Stage(o) = "d2h" /\ o.deferred \in BOOLEAN
      /\ o.deferred = chose[o.pass][o.layer] /\ o.layer \in Nat
  BY <1>1, <1>2, <1>4, OpFacts DEF Fits
<1>6. input' = [input EXCEPT ![SlotOf(o.layer)] = Inputs(o.pass, o.layer, chose[o.pass][o.layer])]
  BY <1>1, <1>2, <1>5
<1>7. TypeOK'
  <2>1. Inputs(o.pass, o.layer, chose[o.pass][o.layer]) \in
            [pass : 0 .. MaxPasses, layer : Layers, deferred : BOOLEAN]
    BY <1>5, SizeAssumption DEF Inputs, Passes
  <2>2. input' \in [Slots -> [pass : 0 .. MaxPasses, layer : Layers, deferred : BOOLEAN]]
    BY <1>6, <2>1 DEF IInv, TypeOK
  <2> QED
    BY <1>1, <1>4, <2>2 DEF IInv, TypeOK
<1>8. GraphInv' /\ HostInv' /\ ResultInv'
  BY <1>1, GraphFrame, HostFrame, ResultFrame DEF IInv
<1>9. ErrorInv'
  BY <1>1 DEF IInv, ErrorInv, OnStream, Capturing
<1>10. QueueAt("d2h", o.pass, o.layer) /\ Good("d2h", o.pass, o.layer)
  BY <1>4, <1>5, PlaceFacts
<1>11. ASSUME NEW st, NEW p, NEW l, st \in Stages, Follows(o, st, p, l)
       PROVE  QueueAt(st, p, l)' /\ Good(st, p, l)'
  <2>1. p = o.pass /\ l = o.layer /\ st \in {"run", "immediate"}
    BY <1>1, <1>2, <1>11 DEF Follows
  <2> QED
    BY <1>1, <1>3, <1>5, <1>6, <1>10, <2>1, CopyInStep DEF IInv
<1>12. TaskInv'
  BY <1>1, <1>3, <1>7, <1>11, PopTasks
<1> QED
  BY <1>4, <1>7, <1>8, <1>9, <1>12 DEF IInv

\* The device runs a submission.
LEMMA StreamSubmitInv ==
    ASSUME IInv, StreamSubmit, UNCHANGED <<mode, failures>>
    PROVE  IInv'
<1> USE DEF host, buffers
<1> DEFINE o == stream[1]
<1>1. /\ stream # << >> /\ stream' = Tail(stream) /\ Head(stream).op = "submit"
      /\ queue' = Append(queue, Head(stream).task) /\ freed' = freed \cup {Head(stream).args}
      /\ UNCHANGED <<pc, pass, layer, pendingDeferred, input, output, graph, callback, running,
                     exception, deviceError, launched, chose, result, raised>>
  BY DEF StreamSubmit, StreamStep
<1>2. Head(stream) = o /\ o \in Ops
  BY <1>1, TailFacts DEF IInv, TypeOK
<1>3. ~callback /\ ~callback'
  BY <1>1, <1>2 DEF IInv, StreamInv
<1>4. /\ StreamInv' /\ stream' \in Seq(Ops) /\ ~Capturing /\ Fits(o) /\ Formed(o)
      /\ IsAt(Stage(o), o.pass, o.layer)
  BY <1>1, <1>3, StreamPop
<1>5. /\ o.pass \in Passes /\ o.layer \in Layers /\ Stage(o) = o.task.kind
      /\ o.task \in Tasks /\ o.args \in Nat /\ o.op = "submit"
  BY <1>1, <1>2, OpFacts DEF Stage
<1>6. mode # "pinned" /\ OnStream
  BY <1>4, <1>5 DEF Fits, OnStream
<1>7. QueueAt(o.task.kind, o.pass, o.layer) /\ Good(o.task.kind, o.pass, o.layer)
  BY <1>4, <1>5, PlaceFacts
<1>8. TypeOK'
  <2>1. queue' \in Seq(Tasks) /\ Len(queue') = Len(queue) + 1 /\ Len(queue) \in Nat
    BY <1>1, <1>2, <1>5, AppendFacts DEF IInv, TypeOK
  <2>2. queue' # << >>
    BY <2>1, EmptyFacts
  <2>3. freed' \subseteq Nat
    BY <1>1, <1>2, <1>5 DEF IInv, TypeOK
  <2> QED
    BY <1>1, <1>4, <2>1, <2>2, <2>3 DEF IInv, TypeOK
<1>9. GraphInv' /\ HostInv' /\ ResultInv'
  BY <1>1, GraphFrame, HostFrame, ResultFrame DEF IInv
<1>10. ErrorInv'
  BY <1>1, <1>4 DEF IInv, ErrorInv, OnStream, Capturing
<1>11. ASSUME NEW st, NEW p, NEW l, st \in Stages, Follows(o, st, p, l)
       PROVE  QueueAt(st, p, l)' /\ Good(st, p, l)'
  <2>1. /\ p = o.pass /\ l = o.layer
        /\ st = IF o.task.kind = "immediate" /\ l \in Defers THEN "deferred" ELSE "sync"
    BY <1>5, <1>11 DEF Follows
  <2>2. CASE o.task.kind = "immediate"
    <3>1. o.task = ImmediateOf(p, l)
      BY <1>4, <1>5, <1>6, <2>1, <2>2 DEF Formed, ImmediateOf, HasDef
    <3> QED
      BY <1>1, <1>2, <1>3, <1>5, <1>6, <1>7, <2>1, <2>2, <3>1, ImmediateStep DEF IInv
  <2>3. CASE o.task.kind # "immediate"
    <3>1. o.task = Deferred(l) /\ l \in Defers /\ o.task.kind = "deferred"
      BY <1>4, <1>5, <2>1, <2>3 DEF Formed, Deferred
    <3> QED
      BY <1>1, <1>2, <1>3, <1>5, <1>6, <1>7, <2>1, <3>1, DeferredStep DEF IInv
  <2> QED
    BY <2>2, <2>3
<1>12. TaskInv'
  BY <1>1, <1>3, <1>8, <1>11, PopTasks
<1> QED
  BY <1>4, <1>8, <1>9, <1>10, <1>12 DEF IInv

\* The device waits for the immediate task; an exception is kept for the host.
LEMMA StreamSyncInv ==
    ASSUME IInv, StreamSync, UNCHANGED <<mode, failures>>
    PROVE  IInv'
<1> USE DEF host, buffers
<1> DEFINE o == stream[1]
<1>1. /\ stream # << >> /\ stream' = Tail(stream) /\ Head(stream).op = "sync"
      /\ Len(queue) <= Head(stream).allow
      /\ deviceError' = (deviceError \/ exception) /\ exception' = FALSE
      /\ freed' = freed \cup {Head(stream).args}
      /\ UNCHANGED <<pc, pass, layer, pendingDeferred, input, output, graph, callback, queue,
                     running, launched, chose, result, raised>>
  BY DEF StreamSync, StreamStep, Drained
<1>2. Head(stream) = o /\ o \in Ops
  BY <1>1, TailFacts DEF IInv, TypeOK
<1>3. ~callback /\ ~callback'
  BY <1>1, <1>2 DEF IInv, StreamInv
<1>4. /\ StreamInv' /\ stream' \in Seq(Ops) /\ ~Capturing /\ Fits(o) /\ Formed(o)
      /\ IsAt(Stage(o), o.pass, o.layer)
  BY <1>1, <1>3, StreamPop
<1>5. /\ o.pass \in Passes /\ o.layer \in Layers /\ Stage(o) = "sync"
      /\ o.args \in Nat /\ o.op = "sync"
  BY <1>1, <1>2, OpFacts
<1>6. mode # "pinned" /\ OnStream
  BY <1>4, <1>5 DEF Fits, OnStream
<1>7. QueueAt("sync", o.pass, o.layer) /\ Good("sync", o.pass, o.layer)
  BY <1>4, <1>5, PlaceFacts
<1>8. deviceError' \in BOOLEAN /\ (exception => deviceError') /\ (deviceError => deviceError')
  BY <1>1
<1>9. TypeOK'
  <2>1. freed' \subseteq Nat /\ exception' \in BOOLEAN
    BY <1>1, <1>2, <1>5 DEF IInv, TypeOK
  <2> QED
    BY <1>1, <1>4, <1>8, <2>1 DEF IInv, TypeOK
<1>10. GraphInv' /\ HostInv'
  BY <1>1, GraphFrame, HostFrame DEF IInv
<1>11. ResultInv'
  <2>1. OnStream' /\ Expected(result.pass, result.layer)' = Expected(result.pass, result.layer)
    BY <1>1, <1>6 DEF OnStream, Expected
  <2> QED
    BY <1>1, <1>6, <1>8, <2>1 DEF IInv, ResultInv, Earlier, Trusted
<1>12. ErrorInv'
  <2>1. failures' = 0 => ~exception' /\ ~deviceError' /\ raised' = {}
    BY <1>1 DEF IInv, ErrorInv
  <2>2. OnStream' /\ ~Capturing'
    BY <1>1, <1>4, <1>6 DEF OnStream, Capturing
  <2> QED
    BY <1>1, <2>1, <2>2 DEF IInv, ErrorInv
<1>13. ASSUME NEW st, NEW p, NEW l, st \in Stages, Follows(o, st, p, l)
       PROVE  QueueAt(st, p, l)' /\ Good(st, p, l)'
  <2>1. p = o.pass /\ l = o.layer /\ st = "h2d"
    BY <1>5, <1>13 DEF Follows
  <2>2. Len(queue) <= IF HasDef(p, l) THEN 1 ELSE 0
    BY <1>1, <1>2, <1>4, <1>5, <1>6, <2>1 DEF Formed, HasDef
  <2> QED
    BY <1>1, <1>3, <1>5, <1>6, <1>7, <1>8, <2>1, <2>2, SyncStep DEF IInv
<1>14. TaskInv'
  BY <1>1, <1>3, <1>9, <1>13, PopTasks
<1> QED
  BY <1>4, <1>9, <1>10, <1>11, <1>12, <1>14 DEF IInv

\* The device copies the output of a layer.
LEMMA StreamCopyOutInv ==
    ASSUME IInv, StreamCopyOut, UNCHANGED <<mode, failures>>
    PROVE  IInv'
<1> USE DEF host, buffers, args, worker
<1> DEFINE o == stream[1]
<1>1. /\ stream # << >> /\ stream' = Tail(stream) /\ Head(stream).op = "h2d"
      /\ result' = [pass |-> Head(stream).pass, layer |-> Head(stream).layer,
                    value |-> output[SlotOf(Head(stream).layer)]]
      /\ UNCHANGED <<pc, pass, layer, pendingDeferred, input, output, graph, callback, queue,
                     running, exception, deviceError, launched, freed, chose, raised>>
  BY DEF StreamCopyOut, StreamStep
<1>2. Head(stream) = o /\ o \in Ops
  BY <1>1, TailFacts DEF IInv, TypeOK
<1>3. ~callback /\ ~callback'
  BY <1>1, <1>2 DEF IInv, StreamInv
<1>4. /\ StreamInv' /\ stream' \in Seq(Ops) /\ ~Capturing /\ Earlier(o.pass, o.layer)
      /\ IsAt(Stage(o), o.pass, o.layer)
  BY <1>1, <1>3, StreamPop
<1>5. /\ o.pass \in Passes /\ o.layer \in Layers /\ Stage(o) = "h2d" /\ o.op = "h2d"
      /\ o.layer \in Nat /\ o.pass # 0 /\ o.pass \in 0 .. MaxPasses
  BY <1>1, <1>2, OpFacts, SizeAssumption
<1>6. QueueAt("h2d", o.pass, o.layer) /\ Good("h2d", o.pass, o.layer)
  BY <1>4, <1>5, PlaceFacts
<1>7. /\ result'.pass = o.pass /\ result'.layer = o.layer
      /\ result'.value = output[SlotOf(o.layer)]
  BY <1>1, <1>2
<1>8. TypeOK'
  <2>1. output[SlotOf(o.layer)] \in SUBSET Parts
    BY <1>5, SlotFacts DEF IInv, TypeOK
  <2>2. result' \in [pass : 0 .. MaxPasses, layer : Layers, value : SUBSET Parts]
    BY <1>1, <1>2, <1>5, <2>1
  <2> QED
    BY <1>1, <1>4, <2>2 DEF IInv, TypeOK
<1>9. GraphInv' /\ HostInv'
  BY <1>1, GraphFrame, HostFrame DEF IInv
<1>10. ResultInv'
  <2>1. Earlier(result.pass, result.layer)'
    BY <1>1, <1>4, <1>7 DEF Earlier
  <2>2. Expected(result.pass, result.layer)' = Expected(o.pass, o.layer)
    BY <1>1, <1>7 DEF Expected
  <2>3. Trusted(o.pass) /\ ~deviceError => output[SlotOf(o.layer)] = Expected(o.pass, o.layer)
    BY <1>6 DEF Good
  <2>4. ~OnStream => Trusted(o.pass) /\ ~deviceError
    <3>1. Len(stream) \in Nat /\ Len(stream) >= 1
      BY <1>1, TailFacts DEF IInv, TypeOK
    <3> QED
      BY <3>1 DEF IInv, StreamInv, ErrorInv, Trusted
  <2>5. OnStream' = OnStream /\ Trusted(result.pass)' = Trusted(o.pass)
    BY <1>1, <1>7 DEF OnStream, Trusted
  <2> QED
    BY <1>1, <1>7, <2>1, <2>2, <2>3, <2>4, <2>5 DEF ResultInv
<1>11. ErrorInv'
  BY <1>1, <1>4 DEF IInv, ErrorInv, OnStream, Capturing
<1>12. ASSUME NEW st, NEW p, NEW l, st \in Stages, Follows(o, st, p, l)
       PROVE  QueueAt(st, p, l)' /\ Good(st, p, l)'
  <2>1. /\ st = "d2h"
        /\ IF o.layer + 1 < NumLayers THEN p = o.pass /\ l = o.layer + 1
                                      ELSE p = o.pass + 1 /\ l = 0
    BY <1>5, <1>12 DEF Follows
  <2> QED
    BY <1>1, <1>3, <1>5, <1>6, <2>1, CopyOutStep DEF IInv
<1>13. TaskInv'
  BY <1>1, <1>3, <1>8, <1>12, PopTasks
<1> QED
  BY <1>4, <1>8, <1>9, <1>10, <1>11, <1>13 DEF IInv

\* The pinned callback submits the tasks of its layer; in this mode no task
\* throws, so what the stage promises of the slots holds.
LEMMA PinnedSubmitInv ==
    ASSUME IInv, PinnedSubmit, UNCHANGED <<mode, failures>>
    PROVE  IInv'
<1> USE DEF host, buffers, args
<1> DEFINE o == stream[1]  l == o.layer  p == o.pass
           hd == l \in Defers /\ input[SlotOf(l)].deferred
<1>1. Head(stream) = o /\ o \in Ops /\ stream # << >>
  BY TailFacts DEF IInv, TypeOK, PinnedSubmit
<1>2. /\ o.op = "run" /\ ~callback /\ callback' = TRUE
      /\ queue' = queue \o <<Immediate(l)>> \o IF hd THEN <<Deferred(l)>> ELSE << >>
      /\ pendingDeferred' = [pendingDeferred EXCEPT ![l] = hd]
      /\ UNCHANGED <<pc, pass, layer, input, output, stream, graph, running, exception,
                     deviceError, launched, freed, chose, result, raised>>
  BY <1>1 DEF PinnedSubmit
<1>3. /\ p \in Passes /\ l \in Layers /\ l \in Nat /\ Stage(o) = "run" /\ IsAt("run", p, l)
      /\ l > 0 => l - 1 \in Layers
  BY <1>1, <1>2, OpFacts, TaskTypes DEF IsAt, IInv
<1>4. mode = "pinned"
  <2>1. Len(stream) \in Nat /\ Len(stream) >= 1
    BY <1>1, TailFacts DEF IInv, TypeOK
  <2> QED
    BY <1>2, <2>1 DEF IInv, StreamInv, Fits
<1>5. QueueAt("run", p, l) /\ Good("run", p, l)
  BY <1>3, PlaceFacts
<1>6. DataAt("run", p, l)
  <2>1. raised = {} /\ ~exception /\ ~deviceError
    BY <1>4 DEF IInv, ErrorInv
  <2> QED
    BY <1>5, <2>1 DEF Good, Trusted
<1>7. hd = HasDef(p, l) /\ hd \in BOOLEAN
  <2>1. input[SlotOf(l)].deferred = chose[p][l] /\ chose[p][l] \in BOOLEAN
    BY <1>3, <1>6 DEF DataAt, Inputs, IInv, TypeOK
  <2> QED
    BY <1>4, <2>1 DEF HasDef
<1>8. l > 0 => HasDef(p, l - 1) \in BOOLEAN
  BY DEF HasDef
<1>9. Immediate(l) = ImmediateOf(p, l)
  <2>1. l > 0 => pendingDeferred[l - 1] = HasDef(p, l - 1)
    BY <1>4, <1>5 DEF QueueAt
  <2> QED
    BY <2>1 DEF Immediate, ImmediateOf, Incremental
<1> HIDE DEF hd, l, p
<1>10. QueueAt("run", p, l)' /\ Good("run", p, l)' /\ queue' \in Seq(Tasks)
  <2>1. queue' = queue \o <<ImmediateOf(p, l)>> \o IF hd THEN <<Deferred(l)>> ELSE << >>
    BY <1>2, <1>9
  <2>2. TypeOK /\ callback'
    BY <1>2 DEF IInv
  <2>3. ASSUME NEW pp, NEW ll, pp = p, ll = l
        PROVE  QueueAt("run", pp, ll)' /\ Good("run", pp, ll)' /\ queue' \in Seq(Tasks)
    BY <1>2, <1>3, <1>4, <1>5, <1>6, <1>7, <1>8, <2>1, <2>2, <2>3, PinnedSubmitStep
  <2>4. p' = p /\ l' = l
    BY <1>2 DEF p, l
  <2> QED
    BY <2>3, <2>4
<1>11. TypeOK'
  <2>1. pendingDeferred' \in [Layers -> BOOLEAN] /\ callback' \in BOOLEAN
    BY <1>2, <1>3, <1>7 DEF IInv, TypeOK
  <2>2. queue' # << >>
    <3>1. ImmediateOf(p, l) \in Tasks /\ Deferred(l) \in Tasks
      BY <1>3, <1>8, TaskTypes DEF IInv
    <3>2. <<ImmediateOf(p, l)>> \in Seq(Tasks) /\ Len(<<ImmediateOf(p, l)>>) = 1
      BY <3>1
    <3>3. (IF hd THEN <<Deferred(l)>> ELSE << >>) \in Seq(Tasks)
      BY <3>1
    <3> DEFINE b == IF hd THEN <<Deferred(l)>> ELSE << >>
    <3> HIDE DEF b
    <3>4. /\ queue \o <<ImmediateOf(p, l)>> \in Seq(Tasks)
          /\ Len(queue \o <<ImmediateOf(p, l)>>) = Len(queue) + 1 /\ Len(queue) \in Nat
      BY <3>2, ConcatFacts DEF IInv, TypeOK
    <3>5. b \in Seq(Tasks) /\ queue' = (queue \o <<ImmediateOf(p, l)>>) \o b
      BY <1>2, <1>9, <3>3 DEF b
    <3>6. Len(queue') = Len(queue) + 1 + Len(b) /\ Len(b) \in Nat
      BY <3>4, <3>5, ConcatFacts
    <3> QED
      BY <1>10, <3>4, <3>6, EmptyFacts
  <2> QED
    BY <1>2, <1>10, <2>1, <2>2 DEF IInv, TypeOK
<1>12. StreamInv'
  BY <1>1, <1>2, <1>4 DEF IInv, StreamInv, Fits, Earlier, Capturing, OnHost, OnStream, HostStage,
                          HostPass, HostLayer
<1>13. GraphInv' /\ HostInv' /\ ResultInv'
  BY <1>2, <1>4, GraphFrame, HostFrame, ResultFrame DEF IInv
<1>14. ErrorInv'
  BY <1>2, <1>4 DEF IInv, ErrorInv, OnStream, Capturing
<1>15. TaskInv'
  <2> SUFFICES ASSUME NEW st \in Stages, NEW p0 \in 1 .. MaxPasses + 1, NEW l0 \in Layers,
                      IsAt(st, p0, l0)'
               PROVE  QueueAt(st, p0, l0)' /\ Good(st, p0, l0)'
    BY DEF TaskInv
  <2>1. st = "run" /\ p0 = p /\ l0 = l /\ p' = p /\ l' = l
    BY <1>1, <1>2, <1>3 DEF IsAt, p, l
  <2> QED
    BY <1>10, <2>1
<1> QED
  BY <1>11, <1>12, <1>13, <1>14, <1>15 DEF IInv

\* The pinned callback returns when its immediate task is done.
LEMMA PinnedReturnInv ==
    ASSUME IInv, PinnedReturn, UNCHANGED <<mode, failures>>
    PROVE  IInv'
<1> USE DEF host, buffers, args, worker
<1> DEFINE o == stream[1]
<1>1. /\ stream # << >> /\ stream' = Tail(stream) /\ Head(stream).op = "run"
      /\ callback /\ callback' = FALSE
      /\ Len(queue) <= IF pendingDeferred[Head(stream).layer] THEN 1 ELSE 0
      /\ UNCHANGED <<pc, pass, layer, pendingDeferred, input, output, graph, queue, running,
                     exception, deviceError, launched, freed, chose, result, raised>>
  BY DEF PinnedReturn, StreamStep, Drained, AllowPending
<1>2. Head(stream) = o /\ o \in Ops
  BY <1>1, TailFacts DEF IInv, TypeOK
<1>3. mode = "pinned" /\ ~callback'
  BY <1>1 DEF IInv, StreamInv
<1>4. /\ StreamInv' /\ stream' \in Seq(Ops) /\ ~Capturing
      /\ IsAt(Stage(o), o.pass, o.layer)
  BY <1>1, <1>3, StreamPop
<1>5. o.pass \in Passes /\ o.layer \in Layers /\ Stage(o) = "run" /\ o.op = "run"
  BY <1>1, <1>2, OpFacts
<1>6. QueueAt("run", o.pass, o.layer) /\ Good("run", o.pass, o.layer)
  BY <1>4, <1>5, PlaceFacts
<1>7. DataAt("run", o.pass, o.layer)
  <2>1. raised = {} /\ ~exception /\ ~deviceError
    BY <1>3 DEF IInv, ErrorInv
  <2> QED
    BY <1>6, <2>1 DEF Good, Trusted
<1>8. TypeOK'
  <2>1. callback' \in BOOLEAN
    BY <1>1
  <2> QED
    BY <1>1, <1>4, <2>1 DEF IInv, TypeOK
<1>9. GraphInv' /\ HostInv' /\ ResultInv'
  BY <1>1, GraphFrame, HostFrame, ResultFrame DEF IInv
<1>10. ErrorInv'
  BY <1>1, <1>4 DEF IInv, ErrorInv, OnStream, Capturing
<1>11. ASSUME NEW st, NEW p, NEW l, st \in Stages, Follows(o, st, p, l)
       PROVE  QueueAt(st, p, l)' /\ Good(st, p, l)'
  <2>1. p = o.pass /\ l = o.layer /\ st = "h2d"
    BY <1>5, <1>11 DEF Follows
  <2> QED
    BY <1>1, <1>2, <1>3, <1>5, <1>6, <1>7, <2>1, PinnedReturnStep DEF IInv
<1>12. TaskInv'
  BY <1>1, <1>3, <1>8, <1>11, PopTasks
<1> QED
  BY <1>4, <1>8, <1>9, <1>10, <1>12 DEF IInv

-----------------------------------------------------------------------------
(* The host: what its actions have in common *)

\* Sequences of up to three operations.
LEMMA TupleFacts ==
    ASSUME NEW a \in Ops, NEW b \in Ops, NEW c \in Ops
    PROVE  /\ <<a>> \in Seq(Ops) /\ Len(<<a>>) = 1 /\ <<a>>[1] = a /\ <<a>> # << >>
           /\ <<a, b>> \in Seq(Ops) /\ Len(<<a, b>>) = 2 /\ <<a, b>>[1] = a /\ <<a, b>>[2] = b
           /\ <<a, b>> # << >> /\ <<a, b>> \o << >> = <<a, b>>
           /\ <<a, b, c>> \in Seq(Ops) /\ Len(<<a, b, c>>) = 3 /\ <<a, b, c>>[1] = a
           /\ <<a, b, c>>[2] = b /\ <<a, b, c>>[3] = c /\ <<a, b, c>> # << >>
           /\ <<a, b>> \o <<c>> = <<a, b, c>>
<1>1. <<a>> \in Seq(Ops) /\ Len(<<a>>) = 1 /\ <<a>>[1] = a /\ <<a>> # << >>
  OBVIOUS
<1>2. /\ <<a, b>> \in Seq(Ops) /\ Len(<<a, b>>) = 2 /\ <<a, b>>[1] = a /\ <<a, b>>[2] = b
      /\ <<a, b>> # << >>
  OBVIOUS
<1>3. <<a, b>> \o << >> = <<a, b>>
  BY <1>2
<1>4. /\ <<a, b, c>> \in Seq(Ops) /\ Len(<<a, b, c>>) = 3 /\ <<a, b, c>>[1] = a
      /\ <<a, b, c>>[2] = b /\ <<a, b, c>>[3] = c /\ <<a, b, c>> # << >>
  <2>1. <<a, b, c>> \in Seq(Ops)
    OBVIOUS
  <2>2. Len(<<a, b, c>>) = 3
    OBVIOUS
  <2>3. <<a, b, c>>[1] = a /\ <<a, b, c>>[2] = b /\ <<a, b, c>>[3] = c
    OBVIOUS
  <2>4. <<a, b, c>> # << >>
    BY <2>1, <2>2, EmptyFacts
  <2> QED
    BY <2>1, <2>2, <2>3, <2>4
<1>5. <<a, b>> \o <<c>> = <<a, b, c>>
  <2>1. <<c>> \in Seq(Ops) /\ Len(<<c>>) = 1 /\ <<c>>[1] = c
    OBVIOUS
  <2> DEFINE s == <<a, b>>  t == <<c>>  u == <<a, b, c>>
  <2>2. /\ s \in Seq(Ops) /\ t \in Seq(Ops) /\ u \in Seq(Ops)
        /\ Len(s) = 2 /\ Len(t) = 1 /\ Len(u) = 3
        /\ s[1] = a /\ s[2] = b /\ t[1] = c /\ u[1] = a /\ u[2] = b /\ u[3] = c
    BY <1>2, <1>4, <2>1
  <2> HIDE DEF s, t, u
  <2>3. /\ s \o t \in Seq(Ops) /\ Len(s \o t) = 3
        /\ (s \o t)[1] = a /\ (s \o t)[2] = b /\ (s \o t)[3] = c
    <3>1. /\ s \o t \in Seq(Ops) /\ Len(s \o t) = Len(s) + Len(t)
          /\ \A i \in 1 .. Len(s) : (s \o t)[i] = s[i]
          /\ \A i \in 1 .. Len(t) : (s \o t)[Len(s) + i] = t[i]
      BY <2>2, ConcatFacts
    <3>2. 1 \in 1 .. Len(s) /\ 2 \in 1 .. Len(s) /\ 1 \in 1 .. Len(t) /\ Len(s) + 1 = 3
      BY <2>2
    <3> QED
      BY <2>2, <3>1, <3>2
  <2>4. \A i \in 1 .. Len(s \o t) : (s \o t)[i] = u[i]
    <3>1. \A i \in 1 .. 3 : i = 1 \/ i = 2 \/ i = 3
      OBVIOUS
    <3> QED
      BY <2>2, <2>3, <3>1
  <2>5. s \o t = u
    BY <2>2, <2>3, <2>4, SeqEqual
  <2> QED
    BY <2>5 DEF s, t, u
<1> QED
  BY <1>1, <1>2, <1>3, <1>4, <1>5

\* When such a sequence is a chain.
LEMMA TupleLinked ==
    ASSUME NEW a \in Ops, NEW b \in Ops, NEW c \in Ops, NEW R
    PROVE  /\ Linked(<<a>>, R)
           /\ Comes(a, Stage(b), b.pass, b.layer, R) => Linked(<<a, b>>, R)
           /\ Comes(a, Stage(b), b.pass, b.layer, R) /\ Comes(b, Stage(c), c.pass, c.layer, R) =>
                  Linked(<<a, b, c>>, R)
           /\ \A st, p, l : /\ Comes(a, st, p, l, R) => EndsAt(<<a>>, st, p, l, R)
                            /\ Comes(b, st, p, l, R) => EndsAt(<<a, b>>, st, p, l, R)
                            /\ Comes(c, st, p, l, R) => EndsAt(<<a, b, c>>, st, p, l, R)
<1>1. Linked(<<a>>, R)
  BY TupleFacts DEF Linked
<1>2. ASSUME Comes(a, Stage(b), b.pass, b.layer, R) PROVE Linked(<<a, b>>, R)
  <2>1. \A i \in 1 .. 2 - 1 : i = 1 /\ i + 1 = 2
    OBVIOUS
  <2> QED
    BY <1>2, <2>1, TupleFacts DEF Linked
<1>3. ASSUME Comes(a, Stage(b), b.pass, b.layer, R), Comes(b, Stage(c), c.pass, c.layer, R)
      PROVE  Linked(<<a, b, c>>, R)
  <2>1. \A i \in 1 .. 3 - 1 : (i = 1 /\ i + 1 = 2) \/ (i = 2 /\ i + 1 = 3)
    OBVIOUS
  <2> QED
    BY <1>3, <2>1, TupleFacts DEF Linked
<1>4. ASSUME NEW st, NEW p, NEW l
      PROVE  /\ Comes(a, st, p, l, R) => EndsAt(<<a>>, st, p, l, R)
             /\ Comes(b, st, p, l, R) => EndsAt(<<a, b>>, st, p, l, R)
             /\ Comes(c, st, p, l, R) => EndsAt(<<a, b, c>>, st, p, l, R)
  BY TupleFacts DEF EndsAt
<1> QED
  BY <1>1, <1>2, <1>3, <1>4

\* The layers before one that the host has left behind are left behind, too.
LEMMA EarlierPrev ==
    ASSUME TypeOK, NEW p, NEW l \in Layers, Earlier(p, l), l > 0
    PROVE  l - 1 \in Layers /\ Earlier(p, l - 1)
BY SizeAssumption DEF Earlier, TypeOK, Layers

\* The host queues operations on the stream, from the stage it was at to the
\* stage it is at now: the execution stays where it is.
LEMMA StreamAppend ==
    ASSUME IInv, ~Capturing, ~Capturing', NEW t \in Seq(Ops), t # << >>, stream' = stream \o t,
           UNCHANGED <<mode, callback, raised>>, Linked(t, raised),
           Stage(t[1]) = HostStage, t[1].pass = pass, t[1].layer = layer,
           EndsAt(t, HostStage', HostPass', HostLayer', raised),
           \A i \in 1 .. Len(t) : /\ Formed(t[i]) /\ Fits(t[i])' /\ t[i].pass = pass
                                  /\ Earlier(t[i].pass, t[i].layer)',
           \A p \in Passes, l \in Layers : Earlier(p, l) => Earlier(p, l)' /\ chose'[p][l] = chose[p][l],
           OnHost => pc' \notin {"deferred", "sync"}
    PROVE  /\ StreamInv' /\ stream' \in Seq(Ops)
           /\ \A st, p, l : IsAt(st, p, l)' => IsAt(st, p, l)
<1>1. /\ stream \in Seq(Ops) /\ stream' \in Seq(Ops) /\ Len(stream) \in Nat /\ Len(t) \in Nat
      /\ Len(stream') = Len(stream) + Len(t)
      /\ \A i \in 1 .. Len(stream) : stream'[i] = stream[i]
      /\ \A i \in Len(stream) + 1 .. Len(stream) + Len(t) : stream'[i] = t[i - Len(stream)]
  BY ConcatFacts DEF IInv, TypeOK
<1>2. HostPass = pass /\ HostLayer = layer
  BY DEF HostPass, HostLayer
<1>3. /\ Linked(stream', raised) /\ EndsAt(stream', HostStage', HostPass', HostLayer', raised)
      /\ stream' # << >> /\ stream'[1] = IF stream = << >> THEN t[1] ELSE stream[1]
  <2>1. Linked(stream, raised) /\ EndsAt(stream, Stage(t[1]), t[1].pass, t[1].layer, raised)
    BY <1>2 DEF IInv, StreamInv
  <2> QED
    BY <1>1, <2>1, LinkedConcat
<1>4. ASSUME NEW i \in 1 .. Len(stream')
      PROVE  /\ Formed(stream'[i]) /\ Fits(stream[i])' /\ Earlier(stream[i].pass, stream[i].layer)'
             /\ ~OnStream => \A q \in raised : q < stream'[i].pass
  <2>1. CASE i \in 1 .. Len(stream)
    <3>1. stream[i] \in Ops /\ stream'[i] = stream[i]
      BY <1>1, <2>1
    <3>2. /\ Formed(stream[i]) /\ Fits(stream[i]) /\ Earlier(stream[i].pass, stream[i].layer)
          /\ ~OnStream => \A q \in raised : q < stream[i].pass
      BY <2>1 DEF IInv, StreamInv
    <3>3. stream[i].pass \in Passes /\ stream[i].layer \in Layers
      BY <3>1, OpFacts
    <3> QED
      BY <3>1, <3>2, <3>3 DEF Fits, OnStream, Earlier
  <2>2. CASE i \notin 1 .. Len(stream)
    <3>1. PICK j \in 1 .. Len(t) : stream'[i] = t[j]
      <4>1. i \in Len(stream) + 1 .. Len(stream) + Len(t) /\ i - Len(stream) \in 1 .. Len(t)
        BY <1>1, <2>2
      <4> QED
        BY <1>1, <4>1
    <3>2. \A q \in raised : q < pass
      BY DEF IInv, ErrorInv
    <3> QED
      BY <3>1, <3>2 DEF Fits, Earlier
  <2> QED
    BY <2>1, <2>2
<1>5. StreamInv'
  <2>1. callback => mode = "pinned" /\ stream # << >> /\ stream[1].op = "run"
    BY DEF IInv, StreamInv
  <2>2. callback' => mode' = "pinned" /\ stream' # << >> /\ stream'[1].op = "run"
    BY <1>3, <2>1
  <2>3. OnStream' = OnStream /\ OnHost' = OnHost
    BY DEF OnStream, OnHost
  <2> QED
    BY <1>3, <1>4, <2>2, <2>3 DEF StreamInv
<1>6. ASSUME NEW st, NEW p, NEW l, IsAt(st, p, l)' PROVE IsAt(st, p, l)
  BY <1>2, <1>3, <1>6 DEF IsAt
<1> QED
  BY <1>1, <1>5, <1>6

\* The host makes its choices for a layer that has not begun.
LEMMA ChoiceTasks ==
    ASSUME IInv, \A st, p, l : IsAt(st, p, l)' => IsAt(st, p, l),
           \A p \in Passes, l \in Layers : Earlier(p, l) => chose'[p][l] = chose[p][l],
           mode # "pinned" \/ UNCHANGED pendingDeferred,
           UNCHANGED <<mode, queue, buffers, callback, exception, deviceError, raised>>
    PROVE  TaskInv'
<1> SUFFICES ASSUME NEW st \in Stages, NEW p \in 1 .. MaxPasses + 1, NEW l \in Layers,
                    IsAt(st, p, l)'
             PROVE  QueueAt(st, p, l)' /\ Good(st, p, l)'
  BY DEF TaskInv
<1>1. IsAt(st, p, l) /\ l \in Nat
  BY SizeAssumption DEF Layers
<1>2. /\ QueueAt(st, p, l) /\ Good(st, p, l) /\ (st # "d2h" \/ l > 0 => p \in Passes)
      /\ callback => st # "d2h"
  BY <1>1, PlaceFacts
<1>3. Len(queue) \in Nat
  BY EmptyFacts DEF IInv, TypeOK
<1>4. (st # "d2h" => Earlier(p, l)) /\ (l > 0 => l - 1 \in Layers /\ Earlier(p, l - 1))
  <2>1. CASE stream = << >>
    <3>1. st = HostStage /\ p = HostPass /\ l = HostLayer
      BY <1>1, <2>1 DEF IsAt
    <3>2. CASE Capturing
      BY <3>1, <3>2 DEF HostStage, HostLayer
    <3>3. CASE ~Capturing
      <4>1. p = pass /\ l = layer /\ (st # "d2h" => pc # "start")
        BY <3>1, <3>3 DEF HostStage, HostLayer, HostPass
      <4>2. st # "d2h" => Earlier(p, l)
        BY <4>1 DEF Earlier
      <4>3. l > 0 => l - 1 \in Layers /\ Earlier(p, l - 1)
        BY <1>1, <4>1, SizeAssumption DEF Earlier, Layers
      <4> QED
        BY <4>2, <4>3
    <3> QED
      BY <3>2, <3>3
  <2>2. CASE stream # << >>
    <3>1. p = stream[1].pass /\ l = stream[1].layer /\ Len(stream) \in Nat /\ Len(stream) >= 1
      BY <1>1, <2>2, TailFacts DEF IsAt, IInv, TypeOK
    <3>2. Earlier(p, l)
      BY <3>1 DEF IInv, StreamInv
    <3> QED
      BY <3>2, EarlierPrev DEF IInv
  <2> QED
    BY <2>1, <2>2
<1>5. /\ st # "d2h" => chose'[p][l] = chose[p][l]
      /\ l > 0 => chose'[p][l - 1] = chose[p][l - 1]
  BY <1>2, <1>4
<1> QED
  BY <1>2, <1>3, <1>5, ChoiceStep

\* The last output is older than the choices that the host makes.
LEMMA ResultChoice ==
    ASSUME IInv, \A p \in Passes, l \in Layers :
                     Earlier(p, l) => Earlier(p, l)' /\ chose'[p][l] = chose[p][l],
           UNCHANGED <<mode, result, raised, deviceError>>
    PROVE  ResultInv'
<1> SUFFICES ASSUME result.pass # 0
             PROVE  /\ Earlier(result.pass, result.layer)'
                    /\ ~OnStream \/ (Trusted(result.pass) /\ ~deviceError) =>
                          result.value = Expected(result.pass, result.layer)'
  BY DEF ResultInv, OnStream, Trusted
<1>1. result.pass \in Passes /\ result.layer \in Layers /\ result.layer \in Nat
  BY SizeAssumption DEF IInv, TypeOK, Passes, Layers
<1>2. Earlier(result.pass, result.layer)
  BY DEF IInv, ResultInv
<1>3. result.layer > 0 => result.layer - 1 \in Layers /\ Earlier(result.pass, result.layer - 1)
  BY <1>1, <1>2, EarlierPrev DEF IInv
<1>4. Expected(result.pass, result.layer)' = Expected(result.pass, result.layer)
  BY <1>1, <1>3 DEF Expected
<1>5. Earlier(result.pass, result.layer)'
  BY <1>1, <1>2 DEF Earlier
<1> QED
  BY <1>4, <1>5 DEF IInv, ResultInv

\* The choice of a layer that the host begins.
LEMMA ChosenFacts ==
    ASSUME IInv, pc = "start", NEW d \in BOOLEAN, d => layer \in Defers,
           chose' = [chose EXCEPT ![pass][layer] = d]
    PROVE  /\ pass \in Passes /\ layer \in Layers /\ layer \in Nat
           /\ chose' \in [Passes -> [Layers -> BOOLEAN]] /\ chose'[pass][layer] = d
           /\ \A p \in Passes, l \in Layers : Earlier(p, l) => chose'[p][l] = chose[p][l]
           /\ \A p \in Passes, l \in Layers : chose'[p][l] => l \in Defers
<1>1. pass \in Passes /\ layer \in Layers /\ layer \in Nat /\ pass \in Nat
  BY SizeAssumption DEF IInv, TypeOK, HostInv, Passes, Layers
<1>2. chose \in [Passes -> [Layers -> BOOLEAN]]
  BY DEF IInv, TypeOK
<1>3. \A p \in Passes, l \in Layers :
         chose'[p][l] = IF p = pass /\ l = layer THEN d ELSE chose[p][l]
  BY <1>1, <1>2
<1>4. chose' \in [Passes -> [Layers -> BOOLEAN]]
  BY <1>1, <1>2
<1>5. ~Earlier(pass, layer)
  BY <1>1 DEF Earlier
<1>6. \A p \in Passes, l \in Layers : Earlier(p, l) => chose'[p][l] = chose[p][l]
  BY <1>3, <1>5
<1>7. \A p \in Passes, l \in Layers : chose'[p][l] => l \in Defers
  BY <1>3 DEF IInv, HostInv
<1> QED
  BY <1>1, <1>3, <1>4, <1>6, <1>7

\* The host goes on with the next layer or pass.
LEMMA AdvanceFacts ==
    ASSUME IInv, pc # "done", Advance, UNCHANGED mode
    PROVE  /\ pc' \in {"start", "done"} /\ pass' \in 1 .. MaxPasses + 1 /\ layer' \in Layers
           /\ pc' = "done" <=> pass' = MaxPasses + 1
           /\ pc' = "done" => layer' = 0
           /\ pass \in Passes /\ layer \in Layers /\ pass \in Nat /\ pass' \in Nat /\ pass <= pass'
           /\ \A p \in Passes, l \in Layers : Earlier(p, l) \/ (p = pass /\ l = layer) => Earlier(p, l)'
           /\ IF layer + 1 < NumLayers THEN pass' = pass /\ layer' = layer + 1
                                       ELSE pass' = pass + 1 /\ layer' = 0
           /\ ~Capturing => ~Capturing'
           /\ ~Capturing' => HostStage' = "d2h" /\ HostPass' = pass' /\ HostLayer' = layer'
<1>1. /\ pass \in Passes /\ layer \in Layers /\ layer \in Nat /\ pass \in Nat
      /\ pass >= 1 /\ pass <= MaxPasses
  BY SizeAssumption DEF IInv, TypeOK, HostInv, Passes, Layers
<1>2. IF layer + 1 < NumLayers THEN pass' = pass /\ layer' = layer + 1 /\ pc' = "start"
                               ELSE /\ pass' = pass + 1 /\ layer' = 0
                                    /\ pc' = IF pass < MaxPasses THEN "start" ELSE "done"
  BY DEF Advance
<1>3. /\ pc' \in {"start", "done"} /\ pass' \in 1 .. MaxPasses + 1 /\ layer' \in Layers
      /\ pc' = "done" <=> pass' = MaxPasses + 1
      /\ pc' = "done" => layer' = 0
      /\ pass <= pass' /\ pass' \in Nat
  BY <1>1, <1>2, SizeAssumption DEF Layers
<1>4. \A p \in Passes, l \in Layers : Earlier(p, l) \/ (p = pass /\ l = layer) => Earlier(p, l)'
  BY <1>1, <1>2, SizeAssumption DEF Earlier, Passes, Layers
<1>5. /\ ~Capturing => ~Capturing'
      /\ ~Capturing' => HostStage' = "d2h" /\ HostPass' = pass' /\ HostLayer' = layer'
  BY <1>1, <1>2, <1>3 DEF Capturing, HostStage, HostPass, HostLayer
<1> QED
  BY <1>1, <1>2, <1>3, <1>4, <1>5

\* The exception ends the pass.
LEMMA RaiseFacts ==
    ASSUME IInv, pc # "done", Raise, UNCHANGED mode
    PROVE  /\ pc' \in {"start", "done"} /\ pass' \in 1 .. MaxPasses + 1 /\ layer' = 0
           /\ layer' \in Layers /\ (pc' = "done" <=> pass' = MaxPasses + 1)
           /\ pass \in Passes /\ layer \in Layers /\ pass \in Nat /\ pass' = pass + 1
           /\ \A p \in Passes, l \in Layers : Earlier(p, l) => Earlier(p, l)'
           /\ raised' = raised \cup {pass} /\ raised' \subseteq Passes
           /\ \A q \in raised' : q < pass'
           /\ ~Capturing => ~Capturing'
           /\ ~Capturing' => HostStage' = "d2h" /\ HostPass' = pass' /\ HostLayer' = layer'
<1>1. /\ pass \in Passes /\ layer \in Layers /\ layer \in Nat /\ pass \in Nat
      /\ pass >= 1 /\ pass <= MaxPasses
  BY SizeAssumption DEF IInv, TypeOK, HostInv, Passes, Layers
<1>2. /\ pass' = pass + 1 /\ layer' = 0 /\ pc' = IF pass < MaxPasses THEN "start" ELSE "done"
      /\ raised' = raised \cup {pass}
  BY DEF Raise
<1>3. /\ pc' \in {"start", "done"} /\ pass' \in 1 .. MaxPasses + 1 /\ layer' \in Layers
      /\ pc' = "done" <=> pass' = MaxPasses + 1
  BY <1>1, <1>2, SizeAssumption DEF Layers
<1>4. \A p \in Passes, l \in Layers : Earlier(p, l) => Earlier(p, l)'
  BY <1>1, <1>2, SizeAssumption DEF Earlier, Passes, Layers
<1>5. raised' \subseteq Passes
  BY <1>1, <1>2 DEF IInv, TypeOK
<1>6. \A q \in raised' : q < pass'
  <2>1. \A q \in raised : q \in Nat /\ q < pass
    BY SizeAssumption DEF IInv, TypeOK, ErrorInv, Passes
  <2> QED
    BY <1>1, <1>2, <2>1
<1>7. /\ ~Capturing => ~Capturing'
      /\ ~Capturing' => HostStage' = "d2h" /\ HostPass' = pass' /\ HostLayer' = layer'
  BY <1>1, <1>2, <1>3 DEF Capturing, HostStage, HostPass, HostLayer
<1> QED
  BY <1>1, <1>2, <1>3, <1>4, <1>5, <1>6, <1>7

\* The host after it has gone on to the next layer.
LEMMA AdvanceHost ==
    ASSUME IInv, pc # "done", Advance, UNCHANGED <<mode, raised>>,
           mode # "pinned" => pc = "sync" /\ UNCHANGED pendingDeferred,
           mode = "graph" => Capturing,
           \A p \in Passes, l \in Layers : chose'[p][l] => l \in Defers
    PROVE  HostInv'
<1>1. /\ pc' \in {"start", "done"} /\ pass' \in 1 .. MaxPasses + 1 /\ layer' \in Layers
      /\ pc' = "done" <=> pass' = MaxPasses + 1
      /\ pc' = "done" => layer' = 0
      /\ pass \in Passes /\ layer \in Layers
      /\ IF layer + 1 < NumLayers THEN pass' = pass /\ layer' = layer + 1
                                  ELSE pass' = pass + 1 /\ layer' = 0
  BY AdvanceFacts
<1>2. mode' = "graph" /\ ~Capturing' => pc' \in {"start", "done"} /\ layer' = 0 /\ raised' = {}
  BY <1>1 DEF Capturing, IInv, ErrorInv
<1>3. mode' # "pinned" =>
         \A k \in Layers : k < layer' \/ (k = layer' /\ pc' = "sync") =>
                               pendingDeferred'[k] = (k \in Defers)
  <2> SUFFICES ASSUME mode # "pinned", NEW k \in Layers, k < layer'
               PROVE  pendingDeferred[k] = (k \in Defers)
    BY <1>1
  <2>1. k < layer \/ k = layer
    BY <1>1, SizeAssumption DEF Layers
  <2> QED
    BY <2>1 DEF IInv, HostInv
<1> QED
  BY <1>1, <1>2, <1>3 DEF HostInv, OnStream

-----------------------------------------------------------------------------
(* The host: without callbacks *)

\* The host copies the inputs of a layer.
LEMMA PrepareInv ==
    ASSUME IInv, NEW d \in BOOLEAN, Prepare(d), UNCHANGED <<mode, failures>>
    PROVE  IInv'
<1> USE DEF buffers, worker, args
<1>1. /\ OnHost /\ pc = "start" /\ pc' = "immediate" /\ ~Capturing /\ ~Capturing'
      /\ d => layer \in Defers
      /\ chose' = [chose EXCEPT ![pass][layer] = d]
      /\ stream' = stream \o <<CopyIn(layer, d)>>
      /\ UNCHANGED <<graph, pass, layer, pendingDeferred, input, output, callback, queue, running,
                     exception, deviceError, launched, freed, result, raised>>
  <2>1. ~Capturing /\ ~Capturing'
    BY DEF Prepare, Capturing, OnHost
  <2> QED
    BY <2>1 DEF Prepare, Enqueue
<1>2. /\ pass \in Passes /\ layer \in Layers /\ layer \in Nat
      /\ chose' \in [Passes -> [Layers -> BOOLEAN]] /\ chose'[pass][layer] = d
      /\ \A p \in Passes, l \in Layers : Earlier(p, l) => chose'[p][l] = chose[p][l]
      /\ \A p \in Passes, l \in Layers : chose'[p][l] => l \in Defers
  BY <1>1, ChosenFacts
<1>3. \A p \in Passes, l \in Layers : Earlier(p, l) => Earlier(p, l)'
  BY <1>1 DEF Earlier
<1>4. mode # "pinned" /\ ~OnStream /\ mode # "graph"
  BY <1>1 DEF OnHost, OnStream
<1>5. /\ StreamInv' /\ stream' \in Seq(Ops)
      /\ \A st, p, l : IsAt(st, p, l)' => IsAt(st, p, l)
  <2>1. PICK o : o = CopyIn(layer, d)
    OBVIOUS
  <2>2. /\ o \in Ops /\ o.op = "d2h" /\ o.pass = pass /\ o.layer = layer /\ o.deferred = d
    BY <1>2, <2>1 DEF CopyIn, Ops
  <2>3. /\ <<o>> \in Seq(Ops) /\ <<o>> # << >> /\ Len(<<o>>) = 1 /\ <<o>>[1] = o
        /\ Linked(<<o>>, raised)
    BY <2>2, TupleFacts, TupleLinked
  <2>4. /\ HostStage = "d2h" /\ HostStage' = "immediate" /\ HostPass' = pass
        /\ HostLayer' = layer /\ Stage(o) = "d2h"
    BY <1>1, <2>2 DEF HostStage, HostPass, HostLayer, Stage
  <2>5. EndsAt(<<o>>, HostStage', HostPass', HostLayer', raised)
    BY <2>2, <2>4, TupleLinked DEF Comes, Follows
  <2>6. Formed(o) /\ Fits(o)' /\ Earlier(o.pass, o.layer)'
    BY <1>1, <1>2, <2>2 DEF Formed, Fits, Earlier
  <2>7. \A i \in 1 .. Len(<<o>>) : i = 1
    BY <2>3
  <2> QED
    <3>1. ASSUME NEW t, t = <<o>>
          PROVE  /\ StreamInv' /\ stream' \in Seq(Ops)
                 /\ \A st, p, l : IsAt(st, p, l)' => IsAt(st, p, l)
      <4>1. \A i \in 1 .. Len(t) : t[i] = o
        BY <2>3, <2>7, <3>1
      <4>2. \A i \in 1 .. Len(t) : /\ Formed(t[i]) /\ Fits(t[i])' /\ t[i].pass = pass
                                    /\ Earlier(t[i].pass, t[i].layer)'
        BY <2>2, <2>6, <4>1
      <4>3. /\ t \in Seq(Ops) /\ t # << >> /\ Linked(t, raised) /\ stream' = stream \o t
            /\ Stage(t[1]) = HostStage /\ t[1].pass = pass /\ t[1].layer = layer
            /\ EndsAt(t, HostStage', HostPass', HostLayer', raised)
        BY <1>1, <2>1, <2>2, <2>3, <2>4, <2>5, <3>1
      <4> QED
        BY <1>1, <1>2, <1>3, <4>2, <4>3, StreamAppend
    <3> QED
      BY <3>1
<1>6. TypeOK'
  BY <1>1, <1>2, <1>5 DEF IInv, TypeOK
<1>7. GraphInv'
  BY <1>1, <1>4 DEF IInv, GraphInv
<1>8. HostInv'
  BY <1>1, <1>2, <1>4 DEF IInv, HostInv, OnStream
<1>9. ErrorInv'
  BY <1>1 DEF IInv, ErrorInv, OnStream
<1>10. ResultInv'
  BY <1>1, <1>2, <1>3, ResultChoice
<1>11. TaskInv'
  BY <1>1, <1>2, <1>5, ChoiceTasks
<1> QED
  BY <1>5, <1>6, <1>7, <1>8, <1>9, <1>10, <1>11 DEF IInv

\* The host is at a stage of its own: the stream is empty, and the execution
\* is at the stage of the host.
LEMMA HostPlace ==
    ASSUME IInv, ~Capturing, pc \notin {"start", "done"}, stream = << >>
    PROVE  /\ IsAt(pc, pass, layer) /\ QueueAt(pc, pass, layer) /\ Good(pc, pass, layer)
           /\ pass \in Passes /\ layer \in Layers /\ layer \in Nat /\ ~callback
<1>1. IsAt(pc, pass, layer) /\ layer \in Layers /\ layer \in Nat
  BY SizeAssumption DEF IsAt, HostStage, HostPass, HostLayer, IInv, TypeOK, Layers
<1>2. pass \in Passes
  BY SizeAssumption DEF IInv, TypeOK, HostInv, Passes
<1>3. ~callback
  BY DEF IInv, StreamInv
<1> QED
  BY <1>1, <1>2, <1>3, PlaceFacts

\* The host submits the immediate task itself.
LEMMA SubmitImmediateInv ==
    ASSUME IInv, SubmitImmediate, UNCHANGED <<mode, failures>>
    PROVE  IInv'
<1> USE DEF buffers, args
<1>1. /\ pc = "immediate" /\ stream = << >> /\ queue' = Append(queue, Immediate(layer))
      /\ pendingDeferred' = [pendingDeferred EXCEPT ![layer] = FALSE]
      /\ pc' = IF layer \in Defers THEN "deferred" ELSE "sync"
      /\ UNCHANGED <<pass, layer, input, output, stream, graph, callback, running, exception,
                     deviceError, launched, freed, chose, result, raised>>
  BY DEF SubmitImmediate, DeviceIdle
<1>2. OnHost /\ mode # "pinned" /\ mode # "graph" /\ ~OnStream /\ ~Capturing /\ ~Capturing'
  BY <1>1, ModeAssumption DEF IInv, HostInv, TypeOK, OnStream, OnHost, Capturing
<1>3. /\ QueueAt("immediate", pass, layer) /\ Good("immediate", pass, layer)
      /\ pass \in Passes /\ layer \in Layers /\ layer \in Nat /\ ~callback
  BY <1>1, <1>2, HostPlace
<1>4. Immediate(layer) = ImmediateOf(pass, layer)
  <2>1. layer > 0 => layer - 1 \in Layers /\ layer - 1 < layer
    BY <1>3, SizeAssumption DEF Layers
  <2>2. layer > 0 => pendingDeferred[layer - 1] = HasDef(pass, layer - 1)
    BY <1>2, <2>1 DEF IInv, HostInv, HasDef
  <2> QED
    BY <2>2 DEF Immediate, ImmediateOf, Incremental
<1>5. ASSUME NEW st, NEW p, NEW l, st = pc', p = pass, l = layer
      PROVE  QueueAt(st, p, l)' /\ Good(st, p, l)' /\ queue' \in Seq(Tasks)
  BY <1>1, <1>2, <1>3, <1>4, <1>5, ImmediateStep DEF IInv
<1>6. queue' \in Seq(Tasks)
  BY <1>5
<1>7. TypeOK'
  <2>1. queue' # << >>
    <3>1. Len(queue') = Len(queue) + 1 /\ Len(queue) \in Nat
      <4>1. ImmediateOf(pass, layer) \in Tasks
        BY <1>3, TaskTypes DEF IInv, HasDef
      <4> QED
        BY <1>1, <1>4, <4>1, AppendFacts DEF IInv, TypeOK
    <3> QED
      BY <1>6, <3>1, EmptyFacts
  <2>2. pendingDeferred' \in [Layers -> BOOLEAN]
    BY <1>1, <1>3 DEF IInv, TypeOK
  <2> QED
    BY <1>1, <1>6, <2>1, <2>2 DEF IInv, TypeOK
<1>8. \A p \in Passes, l \in Layers : Earlier(p, l) => Earlier(p, l)' /\ chose'[p][l] = chose[p][l]
  BY <1>1 DEF Earlier
<1>9. StreamInv'
  <2>1. Len(stream) = 0
    BY <1>1
  <2> QED
    BY <1>1, <1>2, <1>3, <2>1 DEF StreamInv, Linked, EndsAt
<1>10. GraphInv'
  BY <1>1, <1>2 DEF IInv, GraphInv
<1>11. HostInv'
  <2>1. \A k \in Layers : k < layer \/ (k = layer /\ pc' = "sync") =>
                              pendingDeferred'[k] = (k \in Defers)
    <3> SUFFICES ASSUME NEW k \in Layers, k < layer \/ (k = layer /\ pc' = "sync")
                 PROVE  pendingDeferred'[k] = (k \in Defers)
      OBVIOUS
    <3>1. CASE k = layer
      <4>1. pendingDeferred'[k] = FALSE
        BY <1>1, <1>3, <3>1 DEF IInv, TypeOK
      <4>2. ~(k < layer)
        BY <1>3, <3>1
      <4>3. k \notin Defers
        BY <1>1, <3>1, <4>2, "deferred" # "sync"
      <4>4. (k \in Defers) = FALSE
        BY <4>3
      <4> QED
        BY <4>1, <4>4, Zenon
    <3>2. CASE k # layer
      <4>1. pendingDeferred'[k] = pendingDeferred[k]
        BY <1>1, <3>2 DEF IInv, TypeOK
      <4> QED
        BY <1>2, <3>2, <4>1 DEF IInv, HostInv
    <3> QED
      BY <3>1, <3>2
  <2> QED
    BY <1>1, <1>2, <2>1 DEF IInv, HostInv, OnStream
<1>12. ErrorInv'
  BY <1>1, <1>2 DEF IInv, ErrorInv, OnStream
<1>13. ResultInv'
  BY <1>1, <1>8, ResultChoice
<1>14. TaskInv'
  <2> SUFFICES ASSUME NEW st \in Stages, NEW p \in 1 .. MaxPasses + 1, NEW l \in Layers,
                      IsAt(st, p, l)'
               PROVE  QueueAt(st, p, l)' /\ Good(st, p, l)'
    BY DEF TaskInv
  <2>1. st = pc' /\ p = pass /\ l = layer
    BY <1>1, <1>2 DEF IsAt, HostStage, HostPass, HostLayer
  <2> QED
    BY <1>5, <2>1
<1> QED
  BY <1>7, <1>9, <1>10, <1>11, <1>12, <1>13, <1>14 DEF IInv

\* The host submits the deferred task itself.
LEMMA SubmitDeferredInv ==
    ASSUME IInv, SubmitDeferred, UNCHANGED <<mode, failures>>
    PROVE  IInv'
<1> USE DEF buffers, args
<1>1. /\ pc = "deferred" /\ stream = << >> /\ queue' = Append(queue, Deferred(layer))
      /\ pendingDeferred' = [pendingDeferred EXCEPT ![layer] = TRUE] /\ pc' = "sync"
      /\ UNCHANGED <<pass, layer, input, output, stream, graph, callback, running, exception,
                     deviceError, launched, freed, chose, result, raised>>
  BY DEF SubmitDeferred, DeviceIdle
<1>2. /\ OnHost /\ mode # "pinned" /\ mode # "graph" /\ ~OnStream /\ ~Capturing /\ ~Capturing'
      /\ layer \in Defers
  BY <1>1, ModeAssumption DEF IInv, HostInv, TypeOK, OnStream, OnHost, Capturing
<1>3. /\ QueueAt("deferred", pass, layer) /\ Good("deferred", pass, layer)
      /\ pass \in Passes /\ layer \in Layers /\ layer \in Nat /\ ~callback
  BY <1>1, <1>2, HostPlace
<1>4. ASSUME NEW p, NEW l, p = pass, l = layer
      PROVE  QueueAt("sync", p, l)' /\ Good("sync", p, l)' /\ queue' \in Seq(Tasks)
  BY <1>1, <1>2, <1>3, <1>4, DeferredStep DEF IInv
<1>5. queue' \in Seq(Tasks)
  BY <1>4
<1>6. TypeOK'
  <2>1. queue' # << >>
    <3>1. Len(queue') = Len(queue) + 1 /\ Len(queue) \in Nat
      <4>1. Deferred(layer) \in Tasks
        BY <1>3, TaskTypes DEF IInv
      <4> QED
        BY <1>1, <4>1, AppendFacts DEF IInv, TypeOK
    <3> QED
      BY <1>5, <3>1, EmptyFacts
  <2>2. pendingDeferred' \in [Layers -> BOOLEAN]
    BY <1>1, <1>3 DEF IInv, TypeOK
  <2> QED
    BY <1>1, <1>5, <2>1, <2>2 DEF IInv, TypeOK
<1>7. \A p \in Passes, l \in Layers : Earlier(p, l) => Earlier(p, l)' /\ chose'[p][l] = chose[p][l]
  BY <1>1 DEF Earlier
<1>8. StreamInv'
  <2>1. Len(stream) = 0
    BY <1>1
  <2> QED
    BY <1>1, <1>2, <1>3, <2>1 DEF StreamInv, Linked, EndsAt
<1>9. GraphInv'
  BY <1>1, <1>2 DEF IInv, GraphInv
<1>10. HostInv'
  <2>1. ASSUME NEW k \in Layers, k < layer \/ (k = layer /\ pc' = "sync")
        PROVE  pendingDeferred'[k] = (k \in Defers)
    <3>1. CASE k = layer
      <4>1. pendingDeferred'[k] = TRUE
        BY <1>1, <1>3, <3>1 DEF IInv, TypeOK
      <4>2. (k \in Defers) = TRUE
        BY <1>2, <3>1
      <4> QED
        BY <4>1, <4>2, Zenon
    <3>2. CASE k # layer
      <4>1. pendingDeferred'[k] = pendingDeferred[k]
        BY <1>1, <3>2 DEF IInv, TypeOK
      <4> QED
        BY <1>2, <2>1, <3>2, <4>1 DEF IInv, HostInv
    <3> QED
      BY <3>1, <3>2
  <2> QED
    BY <1>1, <1>2, <2>1 DEF IInv, HostInv, OnStream
<1>11. ErrorInv'
  BY <1>1, <1>2 DEF IInv, ErrorInv, OnStream
<1>12. ResultInv'
  BY <1>1, <1>7, ResultChoice
<1>13. TaskInv'
  <2> SUFFICES ASSUME NEW st \in Stages, NEW p \in 1 .. MaxPasses + 1, NEW l \in Layers,
                      IsAt(st, p, l)'
               PROVE  QueueAt(st, p, l)' /\ Good(st, p, l)'
    BY DEF TaskInv
  <2>1. st = "sync" /\ p = pass /\ l = layer
    BY <1>1, <1>2 DEF IsAt, HostStage, HostPass, HostLayer
  <2> QED
    BY <1>4, <2>1
<1> QED
  BY <1>6, <1>8, <1>9, <1>10, <1>11, <1>12, <1>13 DEF IInv

\* The host waits for the immediate task itself, and gets its exception.
LEMMA SyncForwardInv ==
    ASSUME IInv, SyncForward, UNCHANGED <<mode, failures>>
    PROVE  IInv'
<1> USE DEF buffers, args
<1>1. /\ OnHost /\ pc = "sync" /\ Len(queue) <= IF pendingDeferred[layer] THEN 1 ELSE 0
      /\ exception' = FALSE
      /\ UNCHANGED <<pendingDeferred, input, output, callback, queue, running, deviceError,
                     launched, freed, chose, result>>
  BY DEF SyncForward, Drained, AllowPending
<1>2. mode # "pinned" /\ mode # "graph" /\ ~OnStream /\ ~Capturing /\ ~Capturing' /\ stream = << >>
  BY <1>1 DEF IInv, StreamInv, OnStream, OnHost, Capturing
<1>3. /\ QueueAt("sync", pass, layer) /\ Good("sync", pass, layer)
      /\ pass \in Passes /\ layer \in Layers /\ layer \in Nat /\ ~callback
  BY <1>1, <1>2, HostPlace
<1>4. CASE exception
  <2>1. Raise /\ UNCHANGED <<stream, graph>>
    BY <1>4 DEF SyncForward
  <2>2. /\ pc' \in {"start", "done"} /\ pass' \in 1 .. MaxPasses + 1 /\ layer' = 0
        /\ layer' \in Layers /\ (pc' = "done" <=> pass' = MaxPasses + 1)
        /\ \A p \in Passes, l \in Layers : Earlier(p, l) => Earlier(p, l)'
        /\ raised' = raised \cup {pass} /\ raised' \subseteq Passes
        /\ \A q \in raised' : q < pass'
        /\ HostStage' = "d2h" /\ HostPass' = pass' /\ HostLayer' = layer'
    BY <1>1, <1>2, <2>1, RaiseFacts
  <2>3. TypeOK'
    BY <1>1, <2>1, <2>2 DEF IInv, TypeOK
  <2>4. StreamInv'
    <3>1. Len(stream) = 0
      BY <1>2
    <3> QED
      BY <1>1, <1>2, <1>3, <2>1, <3>1 DEF StreamInv, Linked, EndsAt
  <2>5. GraphInv'
    BY <1>2, <2>1 DEF IInv, GraphInv
  <2>6. HostInv'
    <3>1. \A k \in Layers : ~(k < 0)
      BY SizeAssumption DEF Layers
    <3> QED
      BY <1>1, <1>2, <2>2, <3>1 DEF IInv, HostInv, OnStream
  <2>7. ErrorInv'
    BY <1>1, <1>2, <1>4, <2>2 DEF IInv, ErrorInv, OnStream
  <2>8. ResultInv'
    <3> SUFFICES ASSUME result.pass # 0
                 PROVE  /\ Earlier(result.pass, result.layer)'
                        /\ result.value = Expected(result.pass, result.layer)'
      BY <1>1 DEF ResultInv
    <3>1. result.pass \in Passes /\ result.layer \in Layers
      BY SizeAssumption DEF IInv, TypeOK, Passes
    <3>2. /\ Earlier(result.pass, result.layer)
          /\ result.value = Expected(result.pass, result.layer)
      BY <1>2 DEF IInv, ResultInv
    <3>3. \A p, l : p = result.pass /\ l = result.layer => Earlier(p, l)'
      BY <2>2, <3>1, <3>2
    <3> QED
      BY <1>1, <3>2, <3>3 DEF Expected, Earlier
  <2>9. TaskInv'
    <3> SUFFICES ASSUME NEW st \in Stages, NEW p \in 1 .. MaxPasses + 1, NEW l \in Layers,
                        IsAt(st, p, l)'
                 PROVE  QueueAt(st, p, l)' /\ Good(st, p, l)'
      BY DEF TaskInv
    <3>1. st = "d2h" /\ l = 0
      BY <1>2, <2>1, <2>2 DEF IsAt
    <3>2. raised' # {} /\ ~callback'
      BY <1>1, <1>3, <2>2
    <3> QED
      BY <2>3, <3>1, <3>2, StartNext
  <2> QED
    BY <2>3, <2>4, <2>5, <2>6, <2>7, <2>8, <2>9 DEF IInv
<1>5. CASE ~exception
  <2>1. PICK o : o = CopyOut(layer)
    OBVIOUS
  <2>2. /\ Advance /\ UNCHANGED <<raised, graph>> /\ stream' = stream \o <<o>>
    BY <1>2, <1>5, <2>1 DEF SyncForward, Enqueue
  <2>3. o \in Ops /\ o.op = "h2d" /\ o.pass = pass /\ o.layer = layer /\ Stage(o) = "h2d"
    BY <1>3, <2>1 DEF CopyOut, Ops, Stage
  <2>4. stream' = <<o>> /\ stream' \in Seq(Ops) /\ Len(stream') = 1 /\ stream'[1] = o
    BY <1>2, <2>2, <2>3, TupleFacts, ConcatEmptySeq
  <2>5. /\ pc' \in {"start", "done"} /\ pass' \in 1 .. MaxPasses + 1 /\ layer' \in Layers
        /\ pass \in Nat /\ pass' \in Nat /\ pass <= pass'
        /\ \A p \in Passes, l \in Layers : Earlier(p, l) \/ (p = pass /\ l = layer) => Earlier(p, l)'
        /\ IF layer + 1 < NumLayers THEN pass' = pass /\ layer' = layer + 1
                                    ELSE pass' = pass + 1 /\ layer' = 0
        /\ HostStage' = "d2h" /\ HostPass' = pass' /\ HostLayer' = layer'
    BY <1>1, <1>2, <2>2, AdvanceFacts
  <2>6. TypeOK'
    BY <1>1, <2>2, <2>4, <2>5 DEF IInv, TypeOK
  <2>7. StreamInv'
    <3>1. Comes(o, HostStage', HostPass', HostLayer', raised)
      BY <2>3, <2>5 DEF Comes, Follows
    <3>2. Linked(stream', raised) /\ EndsAt(stream', HostStage', HostPass', HostLayer', raised)
      BY <2>3, <2>4, <3>1, TupleLinked
    <3>3. Formed(o) /\ Fits(o)' /\ Earlier(o.pass, o.layer)'
      BY <1>3, <2>3, <2>5 DEF Formed, Fits
    <3>4. \A i \in 1 .. Len(stream') : stream'[i] = o
      <4>1. \A i \in 1 .. 1 : i = 1
        OBVIOUS
      <4> QED
        BY <2>4, <4>1
    <3>5. \A i \in 1 .. Len(stream') : /\ Formed(stream'[i]) /\ Fits(stream[i])'
                                      /\ Earlier(stream[i].pass, stream[i].layer)'
      BY <3>3, <3>4 DEF Fits, Earlier
    <3>6. \A i \in 1 .. Len(stream'), q \in raised' : q < stream'[i].pass
      BY <2>2, <2>3, <3>4 DEF IInv, ErrorInv
    <3>7. ~callback' /\ pc' \notin {"deferred", "sync"}
      BY <1>1, <1>3, <2>5
    <3> QED
      BY <1>2, <2>2, <3>2, <3>5, <3>6, <3>7 DEF StreamInv
  <2>8. GraphInv'
    BY <1>2, <2>2 DEF IInv, GraphInv
  <2>9. HostInv'
    BY <1>1, <1>2, <2>2, AdvanceHost DEF IInv, HostInv
  <2>10. ErrorInv'
    <3>1. \A q \in raised : q < pass'
      <4>1. \A q \in raised : q \in Nat /\ q < pass
        BY SizeAssumption DEF IInv, TypeOK, ErrorInv, Passes
      <4> QED
        BY <2>5, <4>1
    <3> QED
      BY <1>1, <1>2, <2>2, <3>1 DEF IInv, ErrorInv, OnStream
  <2>11. ResultInv'
    BY <1>1, <2>2, <2>5, ResultChoice
  <2>12. TaskInv'
    <3> SUFFICES ASSUME NEW st \in Stages, NEW p \in 1 .. MaxPasses + 1, NEW l \in Layers,
                        IsAt(st, p, l)'
                 PROVE  QueueAt(st, p, l)' /\ Good(st, p, l)'
      BY DEF TaskInv
    <3>1. stream' # << >>
      BY <2>4, EmptyFacts
    <3>2. st = "h2d" /\ p = pass /\ l = layer
      BY <2>3, <2>4, <3>1 DEF IsAt
    <3>3. Len(queue) <= IF HasDef(p, l) THEN 1 ELSE 0
      <4>1. pendingDeferred[layer] = (layer \in Defers)
        BY <1>1, <1>2, <1>3 DEF IInv, HostInv
      <4>2. pendingDeferred[layer] => HasDef(p, l)
        BY <1>2, <3>2, <4>1 DEF HasDef
      <4>3. ~pendingDeferred[layer] => ~HasDef(p, l)
        BY <3>2, <4>1 DEF HasDef
      <4> QED
        BY <1>1, <4>2, <4>3
    <3> QED
      BY <1>1, <1>2, <1>3, <1>5, <2>2, <3>2, <3>3, SyncStep DEF IInv
  <2> QED
    BY <2>6, <2>7, <2>8, <2>9, <2>10, <2>11, <2>12 DEF IInv
<1> QED
  BY <1>4, <1>5

-----------------------------------------------------------------------------
(* The host: with callbacks *)

\* The elements of a pair, ...
LEMMA PairElements ==
    ASSUME NEW a \in Ops, NEW b \in Ops, NEW t, t = <<a, b>>
    PROVE  \A i \in 1 .. Len(t) : t[i] = a \/ t[i] = b
<1>1. \A i \in 1 .. 2 : i = 1 \/ i = 2
  OBVIOUS
<1> QED
  BY <1>1, TupleFacts

\* ... and those of a triple.
LEMMA TripleElements ==
    ASSUME NEW a \in Ops, NEW b \in Ops, NEW c \in Ops, NEW t, t = <<a, b, c>>
    PROVE  \A i \in 1 .. Len(t) : t[i] = a \/ t[i] = b \/ t[i] = c
<1>1. \A i \in 1 .. 3 : i = 1 \/ i = 2 \/ i = 3
  OBVIOUS
<1> QED
  BY <1>1, TupleFacts

\* The operations of a submission: a copy, and one or two tasks.
SubmitSeq(d) ==
    <<CopyIn(layer, d), Submit(layer, Immediate(layer), launched + 1)>> \o
    IF layer \in Defers THEN <<Submit(layer, Deferred(layer), launched + 1 + 1)>> ELSE << >>

\* They are a chain from the first stage of the layer to its sync.
LEMMA SubmitOps ==
    ASSUME IInv, OnStream, pc = "start", NEW d \in BOOLEAN, NEW t, t = SubmitSeq(d)
    PROVE  /\ t \in Seq(Ops) /\ t # << >> /\ Len(t) \in Nat
           /\ \A R : Linked(t, R) /\ EndsAt(t, "sync", pass, layer, R)
           /\ t[1].op = "d2h" /\ Stage(t[1]) = "d2h" /\ t[1].pass = pass /\ t[1].layer = layer
           /\ \A i \in 1 .. Len(t) : /\ Formed(t[i]) /\ t[i].pass = pass /\ t[i].layer = layer
                                     /\ t[i].op # "run" /\ (t[i].op = "d2h" => t[i].deferred = d)
<1>1. /\ pass \in Passes /\ layer \in Layers /\ layer \in Nat
      /\ (layer > 0 => layer - 1 \in Layers /\ layer - 1 < layer)
  BY SizeAssumption DEF IInv, TypeOK, HostInv, Passes, Layers
<1>n. PICK n : n = launched + 1
  OBVIOUS
<1>2. n \in Nat /\ n + 1 \in Nat /\ mode # "pinned"
  BY <1>n DEF IInv, TypeOK, OnStream
<1>3. Immediate(layer) = [kind |-> "immediate", slot |-> SlotOf(layer), out |-> SlotOf(layer),
                          incremental |-> layer > 0 /\ layer - 1 \in Defers]
  <2>1. layer > 0 => pendingDeferred[layer - 1] = (layer - 1 \in Defers)
    BY <1>1, <1>2 DEF IInv, HostInv
  <2> QED
    BY <2>1 DEF Immediate, Incremental
<1>4. Immediate(layer) \in Tasks /\ Deferred(layer) \in Tasks
  <2>1. SlotOf(layer) \in Slots
    BY <1>1, SlotFacts
  <2>2. (layer > 0 /\ layer - 1 \in Defers) \in BOOLEAN
    OBVIOUS
  <2>3. Deferred(layer) \in Tasks
    BY <1>1, TaskTypes DEF IInv
  <2> DEFINE inc == layer > 0 /\ layer - 1 \in Defers
  <2> HIDE DEF inc
  <2>4. inc \in BOOLEAN
    BY <2>2 DEF inc
  <2>5. [kind |-> "immediate", slot |-> SlotOf(layer), out |-> SlotOf(layer),
         incremental |-> inc] \in Tasks
    BY <2>1, <2>4 DEF Tasks
  <2> QED
    BY <1>3, <2>3, <2>5 DEF inc
<1>5. /\ Immediate(layer).kind = "immediate" /\ Deferred(layer).kind = "deferred"
  BY DEF Immediate, Deferred
<1>6. PICK a, b, c : /\ a = CopyIn(layer, d) /\ b = Submit(layer, Immediate(layer), n)
                     /\ c = Submit(layer, Deferred(layer), n + 1)
  OBVIOUS
<1>7. /\ a \in Ops /\ a.op = "d2h" /\ a.pass = pass /\ a.layer = layer /\ a.deferred = d
      /\ Stage(a) = "d2h"
  BY <1>1, <1>6 DEF CopyIn, Ops, Stage
<1>8. /\ b \in Ops /\ b.op = "submit" /\ b.pass = pass /\ b.layer = layer
      /\ b.task = Immediate(layer) /\ Stage(b) = "immediate"
  <2>1. b \in [op : {"submit"}, pass : Passes, layer : Layers, task : Tasks, args : Nat]
    BY <1>1, <1>2, <1>4, <1>6 DEF Submit
  <2>2. b \in Ops
    BY <2>1 DEF Ops
  <2> QED
    BY <1>5, <1>6, <2>2 DEF Submit, Stage
<1>9. /\ c \in Ops /\ c.op = "submit" /\ c.pass = pass /\ c.layer = layer
      /\ c.task = Deferred(layer) /\ Stage(c) = "deferred"
  <2>1. c \in [op : {"submit"}, pass : Passes, layer : Layers, task : Tasks, args : Nat]
    BY <1>1, <1>2, <1>4, <1>6 DEF Submit
  <2>2. c \in Ops
    BY <2>1 DEF Ops
  <2> QED
    BY <1>5, <1>6, <2>2 DEF Submit, Stage
<1>10. Formed(a) /\ Formed(b) /\ (layer \in Defers => Formed(c))
  BY <1>3, <1>5, <1>7, <1>8, <1>9 DEF Formed
<1>11. \A R : Comes(a, Stage(b), b.pass, b.layer, R)
  BY <1>7, <1>8 DEF Comes, Follows
<1>12. CASE layer \in Defers
  <2>1. t = <<a, b, c>>
    BY <1>n, <1>6, <1>7, <1>8, <1>9, <1>12, TupleFacts DEF SubmitSeq
  <2>2. \A R : Comes(b, Stage(c), c.pass, c.layer, R)
    BY <1>5, <1>8, <1>9, <1>12 DEF Comes, Follows
  <2>3. \A R : Comes(c, "sync", pass, layer, R)
    BY <1>5, <1>9 DEF Comes, Follows
  <2>4. \A R : Linked(t, R) /\ EndsAt(t, "sync", pass, layer, R)
    BY <1>7, <1>8, <1>9, <1>11, <2>1, <2>2, <2>3, TupleLinked
  <2>5. t \in Seq(Ops) /\ t # << >> /\ Len(t) \in Nat /\ t[1] = a
    BY <1>7, <1>8, <1>9, <2>1, TupleFacts
  <2>6. \A i \in 1 .. Len(t) : t[i] = a \/ t[i] = b \/ t[i] = c
    BY <1>7, <1>8, <1>9, <2>1, TripleElements
  <2>7. \A i \in 1 .. Len(t) : /\ Formed(t[i]) /\ t[i].pass = pass /\ t[i].layer = layer
                               /\ t[i].op # "run" /\ (t[i].op = "d2h" => t[i].deferred = d)
    BY <1>7, <1>8, <1>9, <1>10, <1>12, <2>6
  <2> QED
    BY <1>7, <2>4, <2>5, <2>7
<1>13. CASE layer \notin Defers
  <2>1. t = <<a, b>>
    BY <1>n, <1>6, <1>7, <1>8, <1>9, <1>13, TupleFacts DEF SubmitSeq
  <2>2. \A R : Comes(b, "sync", pass, layer, R)
    BY <1>5, <1>8, <1>13 DEF Comes, Follows
  <2>3. \A R : Linked(t, R) /\ EndsAt(t, "sync", pass, layer, R)
    BY <1>7, <1>8, <1>9, <1>11, <2>1, <2>2, TupleLinked
  <2>4. t \in Seq(Ops) /\ t # << >> /\ Len(t) \in Nat /\ t[1] = a
    <3>1. <<a, b>> \in Seq(Ops) /\ <<a, b>> # << >> /\ Len(<<a, b>>) = 2 /\ <<a, b>>[1] = a
      BY <1>7, <1>8, <1>9, TupleFacts, Zenon
    <3>2. 2 \in Nat
      OBVIOUS
    <3> QED
      BY <2>1, <3>1, <3>2, Zenon
  <2>5. \A i \in 1 .. Len(t) : t[i] = a \/ t[i] = b
    BY <1>7, <1>8, <2>1, PairElements
  <2>6. \A i \in 1 .. Len(t) : /\ Formed(t[i]) /\ t[i].pass = pass /\ t[i].layer = layer
                               /\ t[i].op # "run" /\ (t[i].op = "d2h" => t[i].deferred = d)
    BY <1>7, <1>8, <1>10, <2>5
  <2> QED
    BY <1>7, <2>3, <2>4, <2>6
<1> QED
  BY <1>12, <1>13

\* The operations of a sync: the wait and the copy.
SyncSeq == <<Sync(layer, AllowPending(layer), launched + 1), CopyOut(layer)>>

\* They are a chain from the sync to the next layer.
LEMMA SyncOps ==
    ASSUME IInv, OnStream, pc = "sync", NEW t, NEW q, NEW k, t = SyncSeq,
           IF layer + 1 < NumLayers THEN q = pass /\ k = layer + 1 ELSE q = pass + 1 /\ k = 0
    PROVE  /\ t \in Seq(Ops) /\ t # << >> /\ Len(t) \in Nat
           /\ \A R : Linked(t, R) /\ EndsAt(t, "d2h", q, k, R)
           /\ t[1].op = "sync" /\ Stage(t[1]) = "sync" /\ t[1].pass = pass /\ t[1].layer = layer
           /\ \A i \in 1 .. Len(t) : /\ Formed(t[i]) /\ t[i].pass = pass /\ t[i].layer = layer
                                     /\ t[i].op # "run" /\ t[i].op # "d2h"
<1>1. pass \in Passes /\ layer \in Layers /\ launched + 1 \in Nat /\ mode # "pinned"
  BY SizeAssumption DEF IInv, TypeOK, HostInv, Passes, OnStream
<1>2. AllowPending(layer) = IF layer \in Defers THEN 1 ELSE 0
  <2>1. pendingDeferred[layer] = (layer \in Defers)
    BY <1>1 DEF IInv, HostInv
  <2> QED
    BY <2>1 DEF AllowPending
<1>3. PICK a, b : a = Sync(layer, AllowPending(layer), launched + 1) /\ b = CopyOut(layer)
  OBVIOUS
<1>4. /\ a \in Ops /\ a.op = "sync" /\ a.pass = pass /\ a.layer = layer /\ Stage(a) = "sync"
      /\ a.allow = IF layer \in Defers THEN 1 ELSE 0
  <2>1. a \in [op : {"sync"}, pass : Passes, layer : Layers, allow : {0, 1}, args : Nat]
    BY <1>1, <1>2, <1>3 DEF Sync
  <2>2. a \in Ops
    BY <2>1 DEF Ops
  <2> QED
    BY <1>2, <1>3, <2>2 DEF Sync, Stage
<1>5. b \in Ops /\ b.op = "h2d" /\ b.pass = pass /\ b.layer = layer /\ Stage(b) = "h2d"
  BY <1>1, <1>3 DEF CopyOut, Ops, Stage
<1>6. Formed(a) /\ Formed(b)
  BY <1>4, <1>5 DEF Formed
<1>7. \A R : Comes(a, Stage(b), b.pass, b.layer, R)
  BY <1>4, <1>5 DEF Comes, Follows
<1>8. \A R : Comes(b, "d2h", q, k, R)
  BY <1>5 DEF Comes, Follows
<1>9. t = <<a, b>>
  BY <1>3 DEF SyncSeq
<1>10. \A R : Linked(t, R) /\ EndsAt(t, "d2h", q, k, R)
  BY <1>4, <1>5, <1>7, <1>8, <1>9, TupleLinked
<1>11. t \in Seq(Ops) /\ t # << >> /\ Len(t) \in Nat /\ t[1] = a
  BY <1>4, <1>5, <1>9, TupleFacts
<1>12. \A i \in 1 .. Len(t) : t[i] = a \/ t[i] = b
  BY <1>4, <1>5, <1>9, PairElements
<1>13. \A i \in 1 .. Len(t) : /\ Formed(t[i]) /\ t[i].pass = pass /\ t[i].layer = layer
                              /\ t[i].op # "run" /\ t[i].op # "d2h"
  BY <1>4, <1>5, <1>6, <1>12
<1> QED
  BY <1>4, <1>10, <1>11, <1>13

\* The host adds operations to the graph that it captures.
LEMMA GraphAppend ==
    ASSUME IInv, Capturing, NEW t \in Seq(Ops), t # << >>, graph' = graph \o t,
           Linked(t, {}), Stage(t[1]) = IF pc = "start" THEN "d2h" ELSE pc,
           t[1].pass = 1, t[1].layer = layer,
           \A i \in 1 .. Len(t) : Formed(t[i]) /\ t[i].pass = 1 /\ t[i].op # "run"
    PROVE  /\ graph' \in Seq(Ops) /\ Linked(graph', {}) /\ graph' # << >>
           /\ \A st, p, l : EndsAt(t, st, p, l, {}) => EndsAt(graph', st, p, l, {})
           /\ \A i \in 1 .. Len(graph') : /\ Formed(graph'[i]) /\ graph'[i].pass = 1
                                         /\ graph'[i].op # "run"
           /\ graph'[1].op = "d2h" /\ graph'[1].layer = 0
<1>1. /\ graph \in Seq(Ops) /\ graph' \in Seq(Ops) /\ Len(graph) \in Nat /\ Len(t) \in Nat
      /\ Len(graph') = Len(graph) + Len(t) /\ Len(t) >= 1 /\ t[1] \in Ops
      /\ \A i \in 1 .. Len(graph) : graph'[i] = graph[i]
      /\ \A i \in Len(graph) + 1 .. Len(graph) + Len(t) : graph'[i] = t[i - Len(graph)]
  BY ConcatFacts, TailFacts DEF IInv, TypeOK
<1>2. Linked(graph, {}) /\ EndsAt(graph, Stage(t[1]), t[1].pass, t[1].layer, {})
  BY DEF IInv, GraphInv
<1>3. ASSUME NEW st, NEW p, NEW l, EndsAt(t, st, p, l, {})
      PROVE  /\ Linked(graph', {}) /\ EndsAt(graph', st, p, l, {}) /\ graph' # << >>
             /\ graph'[1] = IF graph = << >> THEN t[1] ELSE graph[1]
  BY <1>1, <1>2, <1>3, LinkedConcat
<1>4. \E st, p, l : EndsAt(t, st, p, l, {})
  <2>1. t[Len(t)] \in Ops
    BY <1>1
  <2>2. PICK o : o = t[Len(t)]
    OBVIOUS
  <2>3. \E st, p, l : Follows(o, st, p, l)
    <3>1. CASE o.op = "h2d"
      BY <3>1 DEF Follows
    <3>2. CASE o.op = "d2h"
      <4>1. Follows(o, "run", o.pass, o.layer)
        BY <3>2 DEF Follows
      <4> QED
        BY <4>1
    <3>3. CASE o.op \in {"sync", "run"}
      <4>1. Follows(o, "h2d", o.pass, o.layer)
        BY <3>3 DEF Follows
      <4> QED
        BY <4>1
    <3>4. CASE o.op = "submit"
      BY <3>4 DEF Follows
    <3> QED
      BY <2>1, <2>2, <3>1, <3>2, <3>3, <3>4, OpFacts
  <2> QED
    BY <2>2, <2>3 DEF EndsAt, Comes
<1>5. /\ Linked(graph', {}) /\ graph' # << >>
      /\ graph'[1] = IF graph = << >> THEN t[1] ELSE graph[1]
  BY <1>3, <1>4
<1>6. ASSUME NEW i \in 1 .. Len(graph')
      PROVE  Formed(graph'[i]) /\ graph'[i].pass = 1 /\ graph'[i].op # "run"
  <2>1. CASE i \in 1 .. Len(graph)
    BY <1>1, <2>1 DEF IInv, GraphInv
  <2>2. CASE i \notin 1 .. Len(graph)
    <3>1. i \in Len(graph) + 1 .. Len(graph) + Len(t) /\ i - Len(graph) \in 1 .. Len(t)
      BY <1>1, <2>2
    <3> QED
      BY <1>1, <3>1
  <2> QED
    BY <2>1, <2>2
<1>7. graph'[1].op = "d2h" /\ graph'[1].layer = 0
  <2>1. CASE graph = << >>
    <3>1. pc = "start" /\ layer = 0
      BY <2>1 DEF IInv, GraphInv
    <3> QED
      BY <1>1, <1>5, <2>1, <3>1, OpFacts
  <2>2. CASE graph # << >>
    BY <1>5, <2>2 DEF IInv, GraphInv
  <2> QED
    BY <2>1, <2>2
<1> QED
  BY <1>1, <1>3, <1>5, <1>6, <1>7

\* While a graph is captured nothing is on the stream and no task is pending:
\* the execution waits in front of the first replay.
LEMMA CaptureIdle ==
    ASSUME IInv, Capturing, UNCHANGED <<mode, stream, callback, queue>>, TypeOK',
           HostStage' = "d2h", HostPass' = 2, HostLayer' = 0
    PROVE  /\ TaskInv' /\ stream = << >> /\ ~callback /\ Len(stream) = 0
<1>1. stream = << >> /\ ~callback /\ queue = << >> /\ Len(stream) = 0
  BY DEF IInv, StreamInv, ErrorInv, Capturing
<1>2. TaskInv'
  <2> SUFFICES ASSUME NEW st \in Stages, NEW p \in 1 .. MaxPasses + 1, NEW l \in Layers,
                      IsAt(st, p, l)'
               PROVE  QueueAt(st, p, l)' /\ Good(st, p, l)'
    BY DEF TaskInv
  <2>1. st = "d2h" /\ l = 0
    BY <1>1 DEF IsAt
  <2> QED
    BY <1>1, <2>1, StartNext
<1> QED
  BY <1>1, <1>2

\* The host queues the copy and the tasks of a layer, or captures them.
LEMMA SubmitOnStreamInv ==
    ASSUME IInv, NEW d \in BOOLEAN, SubmitOnStream(d), UNCHANGED <<mode, failures>>
    PROVE  IInv'
<1> USE DEF buffers, worker
<1>1. PICK t : t = SubmitSeq(d)
  OBVIOUS
<1>2. /\ OnStream /\ pc = "start" /\ pc' = "sync" /\ (mode = "graph" => Capturing)
      /\ d => layer \in Defers
      /\ chose' = [chose EXCEPT ![pass][layer] = d]
      /\ IF Capturing THEN graph' = graph \o t /\ UNCHANGED stream
                      ELSE stream' = stream \o t /\ UNCHANGED graph
      /\ launched' = (IF layer \in Defers THEN launched + 1 + 1 ELSE launched + 1)
      /\ pendingDeferred' = [pendingDeferred EXCEPT ![layer] = layer \in Defers]
      /\ UNCHANGED <<pass, layer, input, output, callback, queue, running, exception,
                     deviceError, freed, result, raised>>
  BY <1>1 DEF SubmitOnStream, Enqueue, SubmitSeq
<1>3. /\ pass \in Passes /\ layer \in Layers /\ layer \in Nat
      /\ chose' \in [Passes -> [Layers -> BOOLEAN]] /\ chose'[pass][layer] = d
      /\ \A p \in Passes, l \in Layers : Earlier(p, l) => chose'[p][l] = chose[p][l]
      /\ \A p \in Passes, l \in Layers : chose'[p][l] => l \in Defers
  BY <1>2, ChosenFacts
<1>4. \A p \in Passes, l \in Layers : Earlier(p, l) \/ (p = pass /\ l = layer) => Earlier(p, l)'
  BY <1>2 DEF Earlier
<1>5. /\ t \in Seq(Ops) /\ t # << >> /\ Len(t) \in Nat
      /\ \A R : Linked(t, R) /\ EndsAt(t, "sync", pass, layer, R)
      /\ t[1].op = "d2h" /\ Stage(t[1]) = "d2h" /\ t[1].pass = pass /\ t[1].layer = layer
      /\ \A i \in 1 .. Len(t) : /\ Formed(t[i]) /\ t[i].pass = pass /\ t[i].layer = layer
                                /\ t[i].op # "run" /\ (t[i].op = "d2h" => t[i].deferred = d)
  BY <1>1, <1>2, SubmitOps
<1>6. mode # "pinned" /\ ~OnHost /\ Capturing' = Capturing /\ OnStream'
  BY <1>2 DEF OnHost, OnStream, Capturing
<1>7. /\ launched' \in Nat /\ pendingDeferred' \in [Layers -> BOOLEAN]
      /\ \A k \in Layers : k # layer => pendingDeferred'[k] = pendingDeferred[k]
      /\ pendingDeferred'[layer] = (layer \in Defers)
  <2>1. pendingDeferred \in [Layers -> BOOLEAN] /\ launched \in Nat
    BY DEF IInv, TypeOK
  <2>2. (layer \in Defers) \in BOOLEAN
    OBVIOUS
  <2> QED
    BY <1>2, <1>3, <2>1, <2>2
<1>8. HostInv'
  <2>1. \A k \in Layers : k < layer \/ (k = layer /\ pc' = "sync") =>
                              pendingDeferred'[k] = (k \in Defers)
    <3> SUFFICES ASSUME NEW k \in Layers, k < layer \/ k = layer
                 PROVE  pendingDeferred'[k] = (k \in Defers)
      OBVIOUS
    <3>1. CASE k = layer
      BY <1>7, <3>1
    <3>2. CASE k # layer
      BY <1>6, <1>7, <3>2 DEF IInv, HostInv
    <3> QED
      BY <3>1, <3>2
  <2>2. pc' = "done" <=> pass' = MaxPasses + 1
    BY <1>2 DEF IInv, HostInv
  <2> QED
    BY <1>2, <1>3, <1>6, <2>1, <2>2 DEF HostInv
<1>9. ErrorInv'
  BY <1>2, <1>6 DEF IInv, ErrorInv
<1>10. ResultInv'
  BY <1>2, <1>3, <1>4, ResultChoice
<1>11. CASE Capturing
  <2>1. pass = 1 /\ mode = "graph" /\ graph' = graph \o t /\ UNCHANGED stream
    BY <1>2, <1>11 DEF Capturing
  <2>2. /\ graph' \in Seq(Ops) /\ Linked(graph', {}) /\ graph' # << >>
        /\ \A st, p, l : EndsAt(t, st, p, l, {}) => EndsAt(graph', st, p, l, {})
        /\ \A i \in 1 .. Len(graph') : /\ Formed(graph'[i]) /\ graph'[i].pass = 1
                                      /\ graph'[i].op # "run"
        /\ graph'[1].op = "d2h" /\ graph'[1].layer = 0
    BY <1>2, <1>5, <1>11, <2>1, GraphAppend
  <2>3. EndsAt(graph', "sync", 1, layer, {})
    BY <1>5, <2>1, <2>2
  <2>4. TypeOK'
    BY <1>2, <1>3, <1>7, <2>1, <2>2 DEF IInv, TypeOK
  <2>5. HostStage' = "d2h" /\ HostPass' = 2 /\ HostLayer' = 0
    BY <1>6, <1>11 DEF HostStage, HostPass, HostLayer
  <2>6. TaskInv' /\ stream = << >> /\ ~callback /\ Len(stream) = 0
    BY <1>2, <1>11, <2>1, <2>4, <2>5, CaptureIdle
  <2>7. GraphInv'
    BY <1>2, <1>6, <1>11, <2>2, <2>3 DEF GraphInv
  <2>8. StreamInv'
    BY <1>2, <2>1, <2>6 DEF StreamInv, Linked, EndsAt
  <2> QED
    BY <1>8, <1>9, <1>10, <2>4, <2>6, <2>7, <2>8 DEF IInv
<1>12. CASE ~Capturing
  <2>1. stream' = stream \o t /\ graph' = graph /\ mode # "graph"
    BY <1>2, <1>12
  <2>2. /\ HostStage = "d2h" /\ HostStage' = "sync" /\ HostPass' = pass /\ HostLayer' = layer
    BY <1>2, <1>6, <1>12 DEF HostStage, HostPass, HostLayer
  <2>3. \A i \in 1 .. Len(t) : /\ Formed(t[i]) /\ Fits(t[i])' /\ t[i].pass = pass
                               /\ Earlier(t[i].pass, t[i].layer)'
    <3> SUFFICES ASSUME NEW i \in 1 .. Len(t)
                 PROVE  Fits(t[i])' /\ Earlier(t[i].pass, t[i].layer)'
      BY <1>5
    <3>1. t[i].pass = pass /\ t[i].layer = layer
      BY <1>5
    <3>2. Earlier(t[i].pass, t[i].layer)'
      BY <1>3, <1>4, <3>1
    <3>3. Fits(t[i])'
      BY <1>3, <1>5, <1>6, <3>1 DEF Fits
    <3> QED
      BY <3>2, <3>3
  <2>4. /\ StreamInv' /\ stream' \in Seq(Ops)
        /\ \A st, p, l : IsAt(st, p, l)' => IsAt(st, p, l)
    BY <1>2, <1>3, <1>4, <1>5, <1>6, <1>12, <2>1, <2>2, <2>3, StreamAppend
  <2>5. TypeOK'
    BY <1>2, <1>3, <1>7, <2>1, <2>4 DEF IInv, TypeOK
  <2>6. GraphInv'
    BY <1>2, <2>1 DEF IInv, GraphInv, Capturing
  <2>7. TaskInv'
    BY <1>2, <1>3, <1>6, <2>4, ChoiceTasks
  <2> QED
    BY <1>8, <1>9, <1>10, <2>4, <2>5, <2>6, <2>7 DEF IInv
<1> QED
  BY <1>11, <1>12

\* The host finds the error of a callback, and the pass ends while the stream
\* still has operations of it.
LEMMA StreamRaiseInv ==
    ASSUME IInv, OnStream, pc = "sync", deviceError, deviceError' = FALSE, Raise,
           UNCHANGED <<mode, failures, stream, graph, launched, pendingDeferred, buffers, callback,
                       worker, freed, chose, result>>
    PROVE  IInv'
<1> USE DEF buffers, worker
<1>1. failures # 0 /\ ~Capturing /\ mode = "cuda"
  BY DEF IInv, ErrorInv, HostInv, OnStream
<1>2. ~OnHost /\ OnStream' /\ ~callback /\ mode # "pinned" /\ mode # "graph"
  BY <1>1 DEF OnHost, OnStream, IInv, StreamInv
<1>3. /\ pc' \in {"start", "done"} /\ pass' \in 1 .. MaxPasses + 1 /\ layer' = 0
      /\ layer' \in Layers /\ (pc' = "done" <=> pass' = MaxPasses + 1)
      /\ pass \in Passes /\ layer \in Layers /\ pass \in Nat /\ pass' = pass + 1
      /\ \A p \in Passes, l \in Layers : Earlier(p, l) => Earlier(p, l)'
      /\ raised' = raised \cup {pass} /\ raised' \subseteq Passes
      /\ \A q \in raised' : q < pass'
      /\ ~Capturing' /\ HostStage' = "d2h" /\ HostPass' = pass' /\ HostLayer' = layer'
  BY <1>1, RaiseFacts
<1>4. TypeOK'
  <2>1. deviceError' \in BOOLEAN
    OBVIOUS
  <2> QED
    BY <1>3, <2>1 DEF IInv, TypeOK
<1>5. /\ stream \in Seq(Ops) /\ Len(stream) \in Nat
      /\ \A i \in 1 .. Len(stream) : stream[i].pass \in Passes /\ stream[i].layer \in Layers
  <2>1. stream \in Seq(Ops) /\ Len(stream) \in Nat
    BY EmptyFacts DEF IInv, TypeOK
  <2>2. \A i \in 1 .. Len(stream) : stream[i] \in Ops
    BY <2>1
  <2> QED
    BY <2>1, <2>2, OpFacts
<1>6. StreamInv'
  <2>1. Linked(stream, raised')
    BY <1>3 DEF IInv, StreamInv, Linked, Comes
  <2>2. EndsAt(stream, "d2h", pass + 1, 0, raised')
    <3> SUFFICES ASSUME stream # << >>
                 PROVE  Comes(stream[Len(stream)], "d2h", pass + 1, 0, raised')
      BY DEF EndsAt
    <3>1. HostStage = "sync" /\ HostPass = pass
      BY <1>1 DEF HostStage, HostPass
    <3>2. Comes(stream[Len(stream)], "sync", pass, HostLayer, raised)
      BY <3>1 DEF IInv, StreamInv, EndsAt
    <3>3. stream[Len(stream)].pass = pass
      BY <3>2 DEF Comes, Follows
    <3> QED
      BY <1>3, <3>3 DEF Comes
  <2>3. \A i \in 1 .. Len(stream) : /\ Formed(stream[i]) /\ Fits(stream[i])'
                                   /\ Earlier(stream[i].pass, stream[i].layer)'
    <3> SUFFICES ASSUME NEW i \in 1 .. Len(stream)
                 PROVE  /\ Formed(stream[i]) /\ Fits(stream[i])'
                        /\ Earlier(stream[i].pass, stream[i].layer)'
      OBVIOUS
    <3>1. PICK o : o = stream[i]
      OBVIOUS
    <3>2. /\ Formed(o) /\ Fits(o) /\ Earlier(o.pass, o.layer)
          /\ o.pass \in Passes /\ o.layer \in Layers
      BY <1>5, <3>1 DEF IInv, StreamInv
    <3>3. Earlier(o.pass, o.layer)' /\ Fits(o)'
      BY <1>2, <1>3, <3>2 DEF Fits
    <3> QED
      BY <3>1, <3>2, <3>3 DEF Fits, Earlier
  <2> QED
    BY <1>2, <1>3, <2>1, <2>2, <2>3 DEF StreamInv, OnHost
<1>7. GraphInv'
  BY <1>2, <1>3 DEF IInv, GraphInv
<1>8. HostInv'
  <2>1. \A k \in Layers : ~(k < 0)
    BY SizeAssumption DEF Layers
  <2> QED
    BY <1>2, <1>3, <2>1 DEF IInv, HostInv
<1>9. ErrorInv'
  BY <1>1, <1>2, <1>3 DEF IInv, ErrorInv
<1>10. ResultInv'
  <2> SUFFICES ASSUME result.pass # 0
               PROVE  Earlier(result.pass, result.layer)' /\ ~Trusted(result.pass)'
    BY <1>2 DEF ResultInv
  <2>1. PICK p, l : p = result.pass /\ l = result.layer
    OBVIOUS
  <2>2. p \in Passes /\ l \in Layers /\ Earlier(p, l) /\ p \in Nat
    BY <2>1, SizeAssumption DEF IInv, TypeOK, ResultInv, Passes
  <2>3. Earlier(p, l)' /\ ~(pass < p) /\ pass \in raised'
    BY <1>3, <2>2 DEF Earlier
  <2> QED
    BY <2>1, <2>3 DEF Earlier, Trusted
<1>11. TaskInv'
  <2> SUFFICES ASSUME NEW st \in Stages, NEW p \in 1 .. MaxPasses + 1, NEW l \in Layers,
                      IsAt(st, p, l)'
               PROVE  QueueAt(st, p, l)' /\ Good(st, p, l)'
    BY DEF TaskInv
  <2>1. CASE stream = << >>
    <3>1. st = "d2h" /\ l = 0 /\ raised' # {} /\ ~callback'
      BY <1>2, <1>3, <2>1 DEF IsAt
    <3> QED
      BY <1>4, <3>1, StartNext
  <2>2. CASE stream # << >>
    <3>1. IsAt(st, p, l) /\ p = stream[1].pass /\ l = stream[1].layer
      BY <2>2 DEF IsAt
    <3>2. 1 \in 1 .. Len(stream)
      BY <1>5, <2>2
    <3>3. Earlier(p, l) /\ p \in Passes /\ p \in Nat
      BY <1>5, <3>1, <3>2, SizeAssumption DEF IInv, StreamInv, Passes
    <3>4. pass \in raised' /\ ~(pass < p)
      BY <1>3, <3>3 DEF Earlier
    <3>5. QueueAt(st, p, l)
      BY <3>1, PlaceFacts
    <3> QED
      BY <3>4, <3>5, RaiseStep
  <2> QED
    BY <2>1, <2>2
<1> QED
  BY <1>4, <1>6, <1>7, <1>8, <1>9, <1>10, <1>11 DEF IInv

\* The host queues the sync and the copy of a layer, or captures them, unless
\* a callback has failed.
LEMMA SyncOnStreamInv ==
    ASSUME IInv, SyncOnStream, UNCHANGED <<mode, failures>>
    PROVE  IInv'
<1> USE DEF buffers, worker
<1>1. /\ OnStream /\ pc = "sync" /\ deviceError' = FALSE
      /\ UNCHANGED <<pendingDeferred, input, output, callback, queue, running, exception, freed,
                     chose, result>>
  BY DEF SyncOnStream
<1>2. CASE deviceError
  <2>1. Raise /\ UNCHANGED <<stream, graph, launched>>
    BY <1>2 DEF SyncOnStream
  <2> QED
    BY <1>1, <1>2, <2>1, StreamRaiseInv
<1>3. CASE ~deviceError
  <2>1. PICK t : t = SyncSeq
    OBVIOUS
  <2>2. /\ Advance /\ launched' = launched + 1 /\ raised' = raised
        /\ IF Capturing THEN graph' = graph \o t /\ UNCHANGED stream
                        ELSE stream' = stream \o t /\ UNCHANGED graph
    BY <1>3, <2>1 DEF SyncOnStream, Enqueue, SyncSeq
  <2>3. /\ pc' \in {"start", "done"} /\ pass' \in 1 .. MaxPasses + 1 /\ layer' \in Layers
        /\ pass \in Passes /\ layer \in Layers /\ pass \in Nat /\ pass' \in Nat /\ pass <= pass'
        /\ \A p \in Passes, l \in Layers : Earlier(p, l) \/ (p = pass /\ l = layer) => Earlier(p, l)'
        /\ IF layer + 1 < NumLayers THEN pass' = pass /\ layer' = layer + 1
                                    ELSE pass' = pass + 1 /\ layer' = 0
        /\ ~Capturing => ~Capturing'
        /\ ~Capturing' => HostStage' = "d2h" /\ HostPass' = pass' /\ HostLayer' = layer'
    BY <1>1, <2>2, AdvanceFacts
  <2>4. /\ t \in Seq(Ops) /\ t # << >> /\ Len(t) \in Nat
        /\ \A R : Linked(t, R) /\ EndsAt(t, "d2h", pass', layer', R)
        /\ t[1].op = "sync" /\ Stage(t[1]) = "sync" /\ t[1].pass = pass /\ t[1].layer = layer
        /\ \A i \in 1 .. Len(t) : /\ Formed(t[i]) /\ t[i].pass = pass /\ t[i].layer = layer
                                  /\ t[i].op # "run" /\ t[i].op # "d2h"
    BY <1>1, <2>1, <2>3, SyncOps
  <2>5. mode # "pinned" /\ ~OnHost /\ OnStream' /\ (mode = "graph" => Capturing)
    BY <1>1 DEF OnHost, OnStream, IInv, HostInv
  <2>6. HostInv'
    BY <1>1, <2>2, <2>5, AdvanceHost DEF IInv, HostInv
  <2>7. deviceError' = deviceError /\ launched' \in Nat
    <3>1. deviceError = FALSE
      BY <1>3 DEF IInv, TypeOK
    <3>2. launched' \in Nat
      BY <2>2 DEF IInv, TypeOK
    <3> QED
      BY <1>1, <3>1, <3>2, Zenon
  <2>8. ResultInv'
    BY <1>1, <2>2, <2>3, <2>7, ResultChoice
  <2>9. ErrorInv'
    <3>1. \A q \in raised : q < pass'
      <4>1. \A q \in raised : q \in Nat /\ q < pass
        BY SizeAssumption DEF IInv, TypeOK, ErrorInv, Passes
      <4> QED
        BY <2>3, <4>1
    <3> QED
      BY <1>1, <2>2, <2>3, <2>5, <2>7, <3>1 DEF IInv, ErrorInv
  <2>10. CASE Capturing
    <3>1. pass = 1 /\ mode = "graph" /\ graph' = graph \o t /\ UNCHANGED stream
      BY <2>2, <2>10 DEF Capturing
    <3>2. /\ graph' \in Seq(Ops) /\ Linked(graph', {}) /\ graph' # << >>
          /\ \A st, p, l : EndsAt(t, st, p, l, {}) => EndsAt(graph', st, p, l, {})
          /\ \A i \in 1 .. Len(graph') : /\ Formed(graph'[i]) /\ graph'[i].pass = 1
                                        /\ graph'[i].op # "run"
          /\ graph'[1].op = "d2h" /\ graph'[1].layer = 0
      BY <1>1, <2>4, <2>10, <3>1, GraphAppend
    <3>3. EndsAt(graph', "d2h", pass', layer', {})
      BY <2>4, <3>2
    <3>4. (Capturing' => pass' = 1) /\ (~Capturing' => pass' = 2 /\ layer' = 0)
      BY <2>3, <3>1 DEF Capturing
    <3>5. TypeOK'
      BY <1>1, <2>2, <2>3, <2>7, <3>1, <3>2 DEF IInv, TypeOK
    <3>6. HostStage' = "d2h" /\ HostPass' = 2 /\ HostLayer' = 0
      BY <2>3, <3>4 DEF HostStage, HostPass, HostLayer
    <3>7. TaskInv' /\ stream = << >> /\ ~callback /\ Len(stream) = 0
      BY <1>1, <2>10, <3>1, <3>5, <3>6, CaptureIdle
    <3>8. GraphInv'
      <4>1. Capturing' => EndsAt(graph', "d2h", 1, layer', {})
        BY <3>3, <3>4
      <4>2. ~Capturing' => EndsAt(graph', "d2h", 2, 0, {})
        BY <3>3, <3>4
      <4>3. Capturing' => pc' = "start"
        <5>1. Capturing' => pass' # MaxPasses + 1
          BY <3>4, SizeAssumption
        <5> QED
          BY <2>3, <2>6, <5>1 DEF HostInv
      <4> QED
        BY <3>2, <4>1, <4>2, <4>3 DEF GraphInv
    <3>9. StreamInv'
      BY <1>1, <2>5, <3>1, <3>7 DEF StreamInv, Linked, EndsAt
    <3> QED
      BY <2>6, <2>8, <2>9, <3>5, <3>7, <3>8, <3>9 DEF IInv
  <2>11. CASE ~Capturing
    <3>1. stream' = stream \o t /\ graph' = graph /\ mode # "graph" /\ ~Capturing'
      BY <2>2, <2>3, <2>5, <2>11
    <3>2. HostStage = "sync"
      BY <1>1, <2>11 DEF HostStage
    <3>3. ASSUME NEW i \in 1 .. Len(t)
          PROVE  /\ Formed(t[i]) /\ Fits(t[i])' /\ t[i].pass = pass
                 /\ Earlier(t[i].pass, t[i].layer)'
      <4>1. Formed(t[i]) /\ t[i].pass = pass /\ t[i].layer = layer
        BY <2>4
      <4>2. Earlier(t[i].pass, t[i].layer)'
        BY <2>3, <4>1
      <4>3. Fits(t[i])'
        BY <2>4, <2>5 DEF Fits
      <4> QED
        BY <4>1, <4>2, <4>3
    <3>4. EndsAt(t, HostStage', HostPass', HostLayer', raised)
      BY <2>3, <2>4, <3>1
    <3>5. \A p \in Passes, l \in Layers :
             Earlier(p, l) => Earlier(p, l)' /\ chose'[p][l] = chose[p][l]
      BY <1>1, <2>3
    <3>6. /\ StreamInv' /\ stream' \in Seq(Ops)
          /\ \A st, p, l : IsAt(st, p, l)' => IsAt(st, p, l)
      BY <1>1, <2>2, <2>4, <2>5, <2>11, <3>1, <3>2, <3>3, <3>4, <3>5, StreamAppend
    <3>7. TypeOK'
      BY <1>1, <2>2, <2>3, <2>7, <3>1, <3>6 DEF IInv, TypeOK
    <3>8. GraphInv'
      BY <3>1 DEF IInv, GraphInv, Capturing
    <3>9. TaskInv'
      BY <1>1, <2>2, <2>7, <3>6, ChoiceTasks
    <3> QED
      BY <2>6, <2>8, <2>9, <3>6, <3>7, <3>8, <3>9 DEF IInv
  <2> QED
    BY <2>10, <2>11
<1> QED
  BY <1>2, <1>3

\* The operations of one layer in the pinned mode.
PinnedSeq(d) == <<CopyIn(layer, d), RunPinned(layer), CopyOut(layer)>>

\* The host queues a layer of the pinned mode.
LEMMA LaunchPinnedInv ==
    ASSUME IInv, NEW d \in BOOLEAN, LaunchPinned(d), UNCHANGED <<mode, failures>>
    PROVE  IInv'
<1> USE DEF buffers, worker, args
<1>1. PICK t : t = PinnedSeq(d)
  OBVIOUS
<1>2. mode = "pinned" /\ ~Capturing /\ ~OnStream /\ ~OnHost /\ mode # "graph"
  BY DEF LaunchPinned, Capturing, OnStream, OnHost
<1>3. /\ pc = "start" /\ Advance /\ (d => layer \in Defers)
      /\ chose' = [chose EXCEPT ![pass][layer] = d]
      /\ stream' = stream \o t
      /\ UNCHANGED <<graph, pendingDeferred, input, output, callback, queue, running, exception,
                     deviceError, launched, freed, result, raised>>
  BY <1>1, <1>2 DEF LaunchPinned, Enqueue, PinnedSeq
<1>4. /\ layer \in Nat
      /\ chose' \in [Passes -> [Layers -> BOOLEAN]] /\ chose'[pass][layer] = d
      /\ \A p \in Passes, l \in Layers : Earlier(p, l) => chose'[p][l] = chose[p][l]
      /\ \A p \in Passes, l \in Layers : chose'[p][l] => l \in Defers
  BY <1>3, ChosenFacts
<1>5. /\ pc' \in {"start", "done"} /\ pass' \in 1 .. MaxPasses + 1 /\ layer' \in Layers
      /\ pass \in Passes /\ layer \in Layers /\ pass \in Nat /\ pass' \in Nat /\ pass <= pass'
      /\ \A p \in Passes, l \in Layers : Earlier(p, l) \/ (p = pass /\ l = layer) => Earlier(p, l)'
      /\ IF layer + 1 < NumLayers THEN pass' = pass /\ layer' = layer + 1
                                  ELSE pass' = pass + 1 /\ layer' = 0
      /\ ~Capturing' /\ HostStage' = "d2h" /\ HostPass' = pass' /\ HostLayer' = layer'
  BY <1>2, <1>3, AdvanceFacts
<1>6. PICK a, b, c : a = CopyIn(layer, d) /\ b = RunPinned(layer) /\ c = CopyOut(layer)
  OBVIOUS
<1>7. /\ a \in Ops /\ a.op = "d2h" /\ a.pass = pass /\ a.layer = layer /\ a.deferred = d
      /\ Stage(a) = "d2h"
  BY <1>5, <1>6 DEF CopyIn, Ops, Stage
<1>8. b \in Ops /\ b.op = "run" /\ b.pass = pass /\ b.layer = layer /\ Stage(b) = "run"
  BY <1>5, <1>6 DEF RunPinned, Ops, Stage
<1>9. c \in Ops /\ c.op = "h2d" /\ c.pass = pass /\ c.layer = layer /\ Stage(c) = "h2d"
  BY <1>5, <1>6 DEF CopyOut, Ops, Stage
<1>10. t = <<a, b, c>>
  BY <1>1, <1>6 DEF PinnedSeq
<1>11. t \in Seq(Ops) /\ t # << >> /\ t[1] = a
  BY <1>7, <1>8, <1>9, <1>10, TupleFacts
<1>12. Linked(t, raised) /\ EndsAt(t, HostStage', HostPass', HostLayer', raised)
  <2>1. /\ Comes(a, Stage(b), b.pass, b.layer, raised)
        /\ Comes(b, Stage(c), c.pass, c.layer, raised)
    BY <1>7, <1>8, <1>9 DEF Comes, Follows
  <2>2. Comes(c, HostStage', HostPass', HostLayer', raised)
    BY <1>5, <1>9 DEF Comes, Follows
  <2> QED
    BY <1>7, <1>8, <1>9, <1>10, <2>1, <2>2, TupleLinked
<1>13. ASSUME NEW i \in 1 .. Len(t)
       PROVE  /\ Formed(t[i]) /\ Fits(t[i])' /\ t[i].pass = pass
              /\ Earlier(t[i].pass, t[i].layer)'
  <2>1. t[i] = a \/ t[i] = b \/ t[i] = c
    BY <1>7, <1>8, <1>9, <1>10, TripleElements
  <2>2. Formed(a) /\ Formed(b) /\ Formed(c)
    BY <1>7, <1>8, <1>9 DEF Formed
  <2>3. Fits(a)' /\ Fits(b)' /\ Fits(c)'
    BY <1>2, <1>4, <1>7, <1>8, <1>9 DEF Fits
  <2>4. t[i].pass = pass /\ t[i].layer = layer
    BY <1>7, <1>8, <1>9, <2>1
  <2>5. Earlier(t[i].pass, t[i].layer)'
    BY <1>5, <2>4
  <2> QED
    BY <2>1, <2>2, <2>3, <2>4, <2>5
<1>14. /\ StreamInv' /\ stream' \in Seq(Ops)
       /\ \A st, p, l : IsAt(st, p, l)' => IsAt(st, p, l)
  <2>1. Stage(t[1]) = HostStage /\ t[1].pass = pass /\ t[1].layer = layer
    BY <1>2, <1>3, <1>7, <1>11 DEF HostStage
  <2> QED
    BY <1>2, <1>3, <1>4, <1>5, <1>11, <1>12, <1>13, <2>1, StreamAppend
<1>15. TypeOK'
  BY <1>3, <1>4, <1>5, <1>14 DEF IInv, TypeOK
<1>16. GraphInv'
  BY <1>2, <1>3, <1>5 DEF IInv, GraphInv
<1>17. HostInv'
  BY <1>2, <1>3, <1>4, AdvanceHost
<1>18. ErrorInv'
  <2>1. \A q \in raised : q < pass'
    <3>1. \A q \in raised : q \in Nat /\ q < pass
      BY SizeAssumption DEF IInv, TypeOK, ErrorInv, Passes
    <3> QED
      BY <1>5, <3>1
  <2> QED
    BY <1>2, <1>3, <1>5, <2>1 DEF IInv, ErrorInv, OnStream
<1>19. ResultInv'
  BY <1>3, <1>4, <1>5, ResultChoice
<1>20. TaskInv'
  BY <1>3, <1>4, <1>14, ChoiceTasks
<1> QED
  BY <1>14, <1>15, <1>16, <1>17, <1>18, <1>19, <1>20 DEF IInv

\* An operation of a replay differs from the captured one in its pass, and a
\* copy in the choice.
LEMMA AgainFacts ==
    ASSUME NEW o \in Ops, NEW ds \in [Layers -> BOOLEAN], pass \in Passes, NEW a, a = Again(o, ds)
    PROVE  /\ a \in Ops /\ a.op = o.op /\ a.layer = o.layer /\ a.pass = pass
           /\ Stage(a) = Stage(o) /\ (Formed(o) => Formed(a))
           /\ a.op = "d2h" => a.deferred = ds[a.layer]
           /\ a.op = "submit" => a.task = o.task
<1>1. CASE o \in [op : {"d2h"}, pass : Passes, layer : Layers, deferred : BOOLEAN]
  <2>1. a = [o EXCEPT !.pass = pass, !.deferred = ds[o.layer]] /\ o.op = "d2h"
    BY <1>1 DEF Again
  <2>2. /\ a \in [op : {"d2h"}, pass : Passes, layer : Layers, deferred : BOOLEAN]
        /\ a.layer = o.layer /\ a.pass = pass /\ a.deferred = ds[o.layer] /\ a.op = "d2h"
    BY <1>1, <2>1
  <2> QED
    BY <2>1, <2>2 DEF Ops, Stage, Formed
<1>2. CASE o \in [op : {"h2d", "run"}, pass : Passes, layer : Layers]
  <2>1. a = [o EXCEPT !.pass = pass] /\ o.op \in {"h2d", "run"}
    BY <1>2 DEF Again
  <2>2. /\ a \in [op : {"h2d", "run"}, pass : Passes, layer : Layers]
        /\ a.layer = o.layer /\ a.pass = pass /\ a.op = o.op
    BY <1>2, <2>1
  <2> QED
    BY <2>1, <2>2 DEF Ops, Stage, Formed
<1>3. CASE o \in [op : {"submit"}, pass : Passes, layer : Layers, task : Tasks, args : Nat]
  <2>1. a = [o EXCEPT !.pass = pass] /\ o.op = "submit"
    BY <1>3 DEF Again
  <2>2. /\ a \in [op : {"submit"}, pass : Passes, layer : Layers, task : Tasks, args : Nat]
        /\ a.layer = o.layer /\ a.pass = pass /\ a.op = o.op /\ a.task = o.task
    BY <1>3, <2>1
  <2>3. a \in Ops
    BY <2>2 DEF Ops
  <2> QED
    BY <2>1, <2>2, <2>3 DEF Stage, Formed
<1>4. CASE o \in [op : {"sync"}, pass : Passes, layer : Layers, allow : {0, 1}, args : Nat]
  <2>1. a = [o EXCEPT !.pass = pass] /\ o.op = "sync"
    BY <1>4 DEF Again
  <2>2. /\ a \in [op : {"sync"}, pass : Passes, layer : Layers, allow : {0, 1}, args : Nat]
        /\ a.layer = o.layer /\ a.pass = pass /\ a.op = o.op /\ a.allow = o.allow
    BY <1>4, <2>1
  <2>3. a \in Ops
    BY <2>2 DEF Ops
  <2> QED
    BY <2>1, <2>2, <2>3 DEF Stage, Formed
<1> QED
  BY <1>1, <1>2, <1>3, <1>4 DEF Ops

\* The operations of a replay.
ReplaySeq(ds) == [i \in DOMAIN graph |-> Again(graph[i], ds)]

\* They are a chain from the first layer of the pass to the next pass.
LEMMA ReplayOps ==
    ASSUME IInv, mode = "graph", ~Capturing, pass \in Passes, NEW ds \in [Layers -> BOOLEAN],
           NEW t, t = ReplaySeq(ds)
    PROVE  /\ t \in Seq(Ops) /\ t # << >> /\ Len(t) \in Nat
           /\ \A R : Linked(t, R) /\ EndsAt(t, "d2h", pass + 1, 0, R)
           /\ Stage(t[1]) = "d2h" /\ t[1].pass = pass /\ t[1].layer = 0
           /\ \A i \in 1 .. Len(t) : /\ t[i] \in Ops /\ Formed(t[i]) /\ t[i].pass = pass
                                     /\ t[i].op # "run"
                                     /\ (t[i].op = "d2h" => t[i].deferred = ds[t[i].layer])
<1>1. /\ graph \in Seq(Ops) /\ graph # << >> /\ Len(graph) \in Nat /\ Len(graph) >= 1
      /\ DOMAIN graph = 1 .. Len(graph) /\ \A i \in 1 .. Len(graph) : graph[i] \in Ops
  BY TailFacts DEF IInv, TypeOK, GraphInv
<1>2. \A i \in 1 .. Len(graph) : t[i] = Again(graph[i], ds)
  BY <1>1 DEF ReplaySeq
<1>3. \A i \in 1 .. Len(graph) :
         /\ t[i] \in Ops /\ t[i].op = graph[i].op /\ t[i].layer = graph[i].layer
         /\ t[i].pass = pass /\ Stage(t[i]) = Stage(graph[i])
         /\ (Formed(graph[i]) => Formed(t[i]))
         /\ (t[i].op = "d2h" => t[i].deferred = ds[t[i].layer])
         /\ (t[i].op = "submit" => t[i].task = graph[i].task)
  BY <1>1, <1>2, AgainFacts
<1>4. t \in Seq(Ops) /\ Len(t) = Len(graph)
  <2>1. t = [i \in 1 .. Len(graph) |-> Again(graph[i], ds)]
    BY <1>1 DEF ReplaySeq
  <2>2. \A i \in 1 .. Len(graph) : Again(graph[i], ds) \in Ops
    BY <1>2, <1>3
  <2> QED
    BY <1>1, <2>1, <2>2
<1>5. t # << >>
  BY <1>1, <1>4, EmptyFacts
<1>6. \A i \in 1 .. Len(graph) : /\ Formed(graph[i]) /\ graph[i].pass = 1 /\ graph[i].op # "run"
                                /\ graph[i].layer \in Nat
  BY <1>1, OpFacts DEF IInv, GraphInv
<1>7. ASSUME NEW R, NEW i \in 1 .. Len(t) - 1
      PROVE  Comes(t[i], Stage(t[i + 1]), t[i + 1].pass, t[i + 1].layer, R)
  <2>1. i \in 1 .. Len(graph) /\ i + 1 \in 1 .. Len(graph) /\ i \in 1 .. Len(graph) - 1
    BY <1>1, <1>4
  <2>2. Comes(graph[i], Stage(graph[i + 1]), graph[i + 1].pass, graph[i + 1].layer, {})
    BY <2>1 DEF IInv, GraphInv, Linked
  <2>3. Follows(graph[i], Stage(graph[i + 1]), 1, graph[i + 1].layer)
    BY <1>6, <2>1, <2>2 DEF Comes
  <2>4. graph[i].pass = 1 /\ 1 # 1 + 1
    BY <1>6, <2>1
  <2>5. Follows(t[i], Stage(t[i + 1]), pass, t[i + 1].layer)
    BY <1>3, <2>1, <2>3, <2>4 DEF Follows
  <2> QED
    BY <1>3, <2>1, <2>5 DEF Comes
<1>8. ASSUME NEW R PROVE EndsAt(t, "d2h", pass + 1, 0, R)
  <2>1. Len(graph) \in 1 .. Len(graph)
    BY <1>1
  <2> DEFINE o == graph[Len(graph)]
  <2>2. Comes(o, "d2h", 2, 0, {})
    BY <1>1 DEF IInv, GraphInv, EndsAt
  <2>3. o.pass = 1 /\ 2 # 1 /\ Follows(o, "d2h", 2, 0)
    BY <1>6, <2>1, <2>2 DEF Comes
  <2>4. o.op = "h2d" /\ ~(o.layer + 1 < NumLayers)
    BY <2>3 DEF Follows
  <2>5. Follows(t[Len(t)], "d2h", pass + 1, 0)
    BY <1>3, <1>4, <2>1, <2>4 DEF Follows
  <2> QED
    BY <2>5 DEF EndsAt, Comes
<1>9. /\ \A R : Linked(t, R) /\ EndsAt(t, "d2h", pass + 1, 0, R)
  BY <1>7, <1>8 DEF Linked
<1>10. Stage(t[1]) = "d2h" /\ t[1].pass = pass /\ t[1].layer = 0
  <2>1. 1 \in 1 .. Len(graph) /\ graph[1].op = "d2h" /\ graph[1].layer = 0
    BY <1>1 DEF IInv, GraphInv
  <2> QED
    BY <1>3, <2>1, OpFacts
<1>11. \A i \in 1 .. Len(t) : /\ t[i] \in Ops /\ Formed(t[i]) /\ t[i].pass = pass
                              /\ t[i].op # "run"
                              /\ (t[i].op = "d2h" => t[i].deferred = ds[t[i].layer])
  BY <1>3, <1>4, <1>6
<1> QED
  BY <1>1, <1>4, <1>5, <1>9, <1>10, <1>11

\* The host launches the captured graph as the next pass.
LEMMA ReplayInv ==
    ASSUME IInv, NEW ds \in [Layers -> BOOLEAN], Replay(ds), UNCHANGED <<mode, failures>>
    PROVE  IInv'
<1> USE DEF buffers, worker, args
<1>1. PICK t : t = ReplaySeq(ds)
  OBVIOUS
<1>2. /\ mode = "graph" /\ pc = "start" /\ ~Capturing
      /\ \A l \in Layers : ds[l] => l \in Defers
      /\ stream' = stream \o t /\ chose' = [chose EXCEPT ![pass] = ds] /\ pass' = pass + 1
      /\ pc' = IF pass < MaxPasses THEN "start" ELSE "done"
      /\ UNCHANGED <<layer, pendingDeferred, input, output, graph, callback, queue, running,
                     exception, deviceError, launched, freed, result, raised>>
  BY <1>1 DEF Replay, ReplaySeq
<1>3. /\ pass \in Passes /\ pass \in Nat /\ pass >= 1 /\ pass <= MaxPasses /\ layer = 0
      /\ raised = {} /\ pass # 1
  BY <1>2, SizeAssumption DEF IInv, TypeOK, HostInv, Passes, Capturing
<1>4. /\ pass' \in 1 .. MaxPasses + 1 /\ pc' \in {"start", "done"}
      /\ (pc' = "done" <=> pass' = MaxPasses + 1) /\ pass' # 1 /\ ~Capturing'
  BY <1>2, <1>3, SizeAssumption DEF Capturing
<1>5. /\ chose' \in [Passes -> [Layers -> BOOLEAN]] /\ chose'[pass] = ds
      /\ \A p \in Passes, l \in Layers : chose'[p][l] => l \in Defers
      /\ \A p \in Passes : p # pass => chose'[p] = chose[p]
  <2>1. chose \in [Passes -> [Layers -> BOOLEAN]]
    BY DEF IInv, TypeOK
  <2>2. chose' \in [Passes -> [Layers -> BOOLEAN]] /\ chose'[pass] = ds
    BY <1>2, <1>3, <2>1
  <2>3. \A p \in Passes : p # pass => chose'[p] = chose[p]
    BY <1>2, <2>1
  <2>4. ASSUME NEW p \in Passes, NEW l \in Layers, chose'[p][l] PROVE l \in Defers
    <3>1. CASE p = pass
      BY <1>2, <2>2, <2>4, <3>1
    <3>2. CASE p # pass
      BY <2>3, <2>4, <3>2 DEF IInv, HostInv
    <3> QED
      BY <3>1, <3>2
  <2> QED
    BY <2>2, <2>3, <2>4
<1>6. \A p \in Passes, l \in Layers : Earlier(p, l) => Earlier(p, l)' /\ chose'[p][l] = chose[p][l]
  <2> SUFFICES ASSUME NEW p \in Passes, NEW l \in Layers, Earlier(p, l)
               PROVE  Earlier(p, l)' /\ chose'[p][l] = chose[p][l]
    OBVIOUS
  <2>1. l \in Nat /\ p \in Nat
    BY SizeAssumption DEF Layers, Passes
  <2>2. p < pass
    BY <1>2, <1>3, <2>1 DEF Earlier
  <2>3. p # pass /\ p < pass'
    BY <1>2, <1>3, <2>1, <2>2
  <2> QED
    BY <1>5, <2>3 DEF Earlier
<1>7. /\ t \in Seq(Ops) /\ t # << >> /\ Len(t) \in Nat
      /\ \A R : Linked(t, R) /\ EndsAt(t, "d2h", pass + 1, 0, R)
      /\ Stage(t[1]) = "d2h" /\ t[1].pass = pass /\ t[1].layer = 0
      /\ \A i \in 1 .. Len(t) : /\ t[i] \in Ops /\ Formed(t[i]) /\ t[i].pass = pass
                                /\ t[i].op # "run"
                                /\ (t[i].op = "d2h" => t[i].deferred = ds[t[i].layer])
  BY <1>1, <1>2, <1>3, ReplayOps
<1>8. /\ HostStage = "d2h" /\ HostStage' = "d2h" /\ HostPass' = pass + 1 /\ HostLayer' = 0
  BY <1>2, <1>3, <1>4 DEF HostStage, HostPass, HostLayer
<1>9. OnStream /\ OnStream' /\ ~OnHost /\ mode # "pinned"
  BY <1>2 DEF OnStream, OnHost
<1>10. ASSUME NEW i \in 1 .. Len(t)
       PROVE  /\ Formed(t[i]) /\ Fits(t[i])' /\ t[i].pass = pass
              /\ Earlier(t[i].pass, t[i].layer)'
  <2>1. Formed(t[i]) /\ t[i].pass = pass
    BY <1>7
  <2>2. Fits(t[i])'
    BY <1>5, <1>7, <1>9, <2>1 DEF Fits
  <2>3. pass < pass'
    BY <1>2, <1>3
  <2>4. Earlier(t[i].pass, t[i].layer)'
    BY <2>1, <2>3 DEF Earlier
  <2> QED
    BY <2>1, <2>2, <2>4
<1>11. /\ StreamInv' /\ stream' \in Seq(Ops)
       /\ \A st, p, l : IsAt(st, p, l)' => IsAt(st, p, l)
  <2>1. Linked(t, raised) /\ EndsAt(t, HostStage', HostPass', HostLayer', raised)
    BY <1>7, <1>8
  <2> QED
    BY <1>2, <1>3, <1>4, <1>6, <1>7, <1>8, <1>9, <1>10, <2>1, StreamAppend
<1>12. TypeOK'
  BY <1>2, <1>4, <1>5, <1>11 DEF IInv, TypeOK
<1>13. GraphInv'
  BY <1>2, <1>4 DEF IInv, GraphInv
<1>14. HostInv'
  <2>1. \A k \in Layers : ~(k < 0)
    BY SizeAssumption DEF Layers
  <2> QED
    BY <1>2, <1>3, <1>4, <1>5, <1>9, <2>1 DEF HostInv
<1>15. ErrorInv'
  BY <1>2, <1>3, <1>4, <1>9 DEF IInv, ErrorInv
<1>16. ResultInv'
  BY <1>2, <1>6, ResultChoice
<1>17. TaskInv'
  BY <1>2, <1>6, <1>11, ChoiceTasks
<1> QED
  BY <1>11, <1>12, <1>13, <1>14, <1>15, <1>16, <1>17 DEF IInv

-----------------------------------------------------------------------------
(* The theorems *)

\* The invariant holds initially.
LEMMA InitInv == Init => IInv
<1> SUFFICES ASSUME Init PROVE IInv
  OBVIOUS
<1> USE DEF Init
<1>1. TypeOK
  <2>1. Inputs(0, 0, FALSE) \in [pass : 0 .. MaxPasses, layer : Layers, deferred : BOOLEAN]
    BY SizeAssumption DEF Inputs, Layers
  <2>2. /\ result \in [pass : 0 .. MaxPasses, layer : Layers, value : SUBSET Parts]
        /\ pass \in 1 .. MaxPasses + 1 /\ layer \in Layers /\ failures \in 0 .. MaxFailures
    BY SizeAssumption, FailAssumption DEF Layers
  <2>3. input \in [Slots -> [pass : 0 .. MaxPasses, layer : Layers, deferred : BOOLEAN]]
    BY <2>1 DEF Slots
  <2>4. output \in [Slots -> SUBSET Parts]
    BY DEF Slots
  <2>5. stream \in Seq(Ops) /\ graph \in Seq(Ops) /\ queue \in Seq(Tasks)
    OBVIOUS
  <2> QED
    BY <2>2, <2>3, <2>4, <2>5 DEF TypeOK
<1>2. Len(stream) = 0 /\ Len(graph) = 0
  OBVIOUS
<1>3. StreamInv
  BY <1>2 DEF StreamInv, Linked, EndsAt
<1>4. GraphInv
  BY <1>2 DEF GraphInv, Linked, EndsAt, Capturing
<1>5. HostInv
  <2>1. \A k \in Layers : ~(k < 0)
    BY SizeAssumption DEF Layers
  <2>2. 1 # MaxPasses + 1
    BY SizeAssumption
  <2> QED
    BY <2>1, <2>2 DEF HostInv, Capturing
<1>6. ErrorInv
  BY DEF ErrorInv
<1>7. TaskInv
  <2> SUFFICES ASSUME NEW st \in Stages, NEW p \in 1 .. MaxPasses + 1, NEW l \in Layers,
                      IsAt(st, p, l)
               PROVE  QueueAt(st, p, l) /\ Good(st, p, l)
    BY DEF TaskInv
  <2>1. st = "d2h" /\ l = 0
    BY DEF IsAt, HostStage, HostLayer
  <2> QED
    BY <1>1, <2>1, StartStep
<1>8. ResultInv
  BY DEF ResultInv
<1> QED
  BY <1>1, <1>3, <1>4, <1>5, <1>6, <1>7, <1>8 DEF IInv

\* Every step preserves it.
LEMMA NextInv == IInv /\ [Next]_vars => IInv'
<1> SUFFICES ASSUME IInv, [Next]_vars PROVE IInv'
  OBVIOUS
<1>1. CASE HostNext
  <2>1. UNCHANGED <<mode, failures>>
    BY <1>1 DEF HostNext
  <2>2. ASSUME NEW d \in BOOLEAN, Prepare(d) PROVE IInv'
    BY <2>1, <2>2, PrepareInv
  <2>3. ASSUME NEW d \in BOOLEAN, SubmitOnStream(d) PROVE IInv'
    BY <2>1, <2>3, SubmitOnStreamInv
  <2>4. ASSUME NEW d \in BOOLEAN, LaunchPinned(d) PROVE IInv'
    BY <2>1, <2>4, LaunchPinnedInv
  <2>5. CASE SubmitImmediate
    BY <2>1, <2>5, SubmitImmediateInv
  <2>6. CASE SubmitDeferred
    BY <2>1, <2>6, SubmitDeferredInv
  <2>7. CASE SyncForward
    BY <2>1, <2>7, SyncForwardInv
  <2>8. CASE SyncOnStream
    BY <2>1, <2>8, SyncOnStreamInv
  <2>9. ASSUME NEW ds \in [Layers -> BOOLEAN], Replay(ds) PROVE IInv'
    BY <2>1, <2>9, ReplayInv
  <2> QED
    BY <1>1, <2>2, <2>3, <2>4, <2>5, <2>6, <2>7, <2>8, <2>9 DEF HostNext
<1>2. CASE StreamNext
  BY <1>2, StreamCopyInInv, StreamSubmitInv, StreamSyncInv, StreamCopyOutInv, PinnedSubmitInv,
     PinnedReturnInv DEF StreamNext
<1>3. CASE WorkerNext
  BY <1>3, TaskBeginInv, TaskEndInv, TaskThrowsInv DEF WorkerNext
<1>4. CASE UNCHANGED vars
  <2> USE <1>4 DEF vars, host, buffers, worker, args
  <2>1. TypeOK' /\ ErrorInv'
    BY DEF IInv, TypeOK, ErrorInv, OnStream, Capturing
  <2>2. StreamInv' /\ GraphInv' /\ HostInv' /\ ResultInv'
    BY StreamFrame, GraphFrame, HostFrame, ResultFrame DEF IInv
  <2>3. TaskInv'
    <3> SUFFICES ASSUME NEW st \in Stages, NEW p \in 1 .. MaxPasses + 1, NEW l \in Layers,
                        IsAt(st, p, l)'
                 PROVE  QueueAt(st, p, l)' /\ Good(st, p, l)'
      BY DEF TaskInv
    <3>1. IsAt(st, p, l)
      BY DEF IsAt, HostStage, HostPass, HostLayer, Capturing
    <3> QED
      BY <3>1, PlaceFacts, KeptStep
  <2> QED
    BY <2>1, <2>2, <2>3 DEF IInv
<1> QED
  BY <1>1, <1>2, <1>3, <1>4 DEF Next

\* The invariant of the pipeline: the stream and the graph are chains of
\* stages, and the queue and the slots fit the stage the execution is at.
THEOREM Invariance == Spec => []IInv
<1> QED
  BY InitInv, NextInv, PTL DEF Spec

\* Every variable keeps its type.
THEOREM TypesKept == Spec => []TypeOK
<1>1. IInv => TypeOK
  BY DEF IInv
<1> QED
  BY Invariance, <1>1, PTL

\* Without failures every output that reaches the device is the sum of the
\* experts of its layer and those deferred to it, in every mode
\* (submit_forward, sync_forward and run_pinned_forward_sync).
THEOREM OutputsCorrect == Spec => []ResultCorrect
<1>1. IInv => ResultCorrect
  <2> SUFFICES ASSUME IInv, failures = 0, result.pass # 0
               PROVE  result.value = Expected(result.pass, result.layer)
    BY DEF ResultCorrect
  <2>1. raised = {} /\ ~deviceError
    BY DEF IInv, ErrorInv
  <2> QED
    BY <2>1 DEF IInv, ResultInv, Trusted
<1> QED
  BY Invariance, <1>1, PTL

\* Without failures no copy of the stream touches a slot that the running
\* task uses: two slots are enough (KExpertsCPUBuffer.buffer_depth).
THEOREM BuffersNotRaced == Spec => []NoBufferRace
<1>1. IInv => NoBufferRace
  <2> SUFFICES ASSUME IInv, failures = 0, running, stream # << >>
               PROVE  /\ Head(stream).op = "d2h" => SlotOf(Head(stream).layer) # Head(queue).slot
                      /\ Head(stream).op = "h2d" => SlotOf(Head(stream).layer) # Head(queue).out
    BY DEF NoBufferRace
  <2> DEFINE o == stream[1]  l == o.layer  p == o.pass  n == Len(queue)
  <2>1. Head(stream) = o /\ o \in Ops
    BY TailFacts DEF IInv, TypeOK
  <2>2. queue # << >> /\ Head(queue) = queue[1] /\ n \in Nat /\ n >= 1
    <3>1. queue # << >> /\ queue \in Seq(Tasks)
      BY DEF IInv, TypeOK
    <3> QED
      BY <3>1, TailFacts
  <2>3. /\ l \in Layers /\ l \in Nat /\ IsAt(Stage(o), p, l) /\ (o.op # "submit" => Stage(o) = o.op)
    BY <2>1, OpFacts DEF IsAt
  <2>4. raised = {}
    BY DEF IInv, ErrorInv
  <2> HIDE DEF l, p, n
  <2>5. QueueAt(Stage(o), p, l)
    BY <2>3, PlaceFacts
  <2>6. ASSUME o.op = "d2h" PROVE SlotOf(l) # Head(queue).slot
    <3>1. QueueAt("d2h", p, l) /\ Fresh("d2h", p, l) = 0
      BY <2>3, <2>5, <2>6 DEF Fresh
    <3>2. l > 0 /\ queue[1] = Deferred(l - 1)
      BY <2>2, <2>3, <2>4, <3>1 DEF QueueAt, n
    <3> QED
      BY <2>2, <2>3, <3>2, SlotFacts DEF Deferred
  <2>7. ASSUME o.op = "h2d" PROVE SlotOf(l) # Head(queue).out
    <3>1. QueueAt("h2d", p, l) /\ Fresh("h2d", p, l) = Full(p, l)
      BY <2>3, <2>5, <2>7 DEF Fresh
    <3>2. n <= Full(p, l) - 1 /\ Full(p, l) \in {1, 2}
      BY <3>1 DEF QueueAt, Full, n
    <3>3. n = 1 /\ Full(p, l) = 2
      BY <2>2, <3>2
    <3>4. queue[1] = Deferred(l)
      BY <3>1, <3>3 DEF QueueAt, n
    <3> QED
      BY <2>2, <2>3, <3>4, SlotFacts DEF Deferred
  <2> QED
    BY <2>1, <2>6, <2>7 DEF l
<1> QED
  BY Invariance, <1>1, PTL

\* A wrong output reaches the device only with callbacks, and then the error is
\* kept for the host, or the host has got an exception in that pass or later
\* (sync_callback_ and sync_with_cuda_stream).
THEOREM FailuresSurface == Spec => []FailureSurfaces
<1>1. IInv => FailureSurfaces
  <2> SUFFICES ASSUME IInv, result.pass # 0,
                      result.value # Expected(result.pass, result.layer)
               PROVE  OnStream /\ (deviceError \/ \E p \in raised : p >= result.pass)
    BY DEF FailureSurfaces
  <2>1. OnStream /\ (~Trusted(result.pass) \/ deviceError)
    BY DEF IInv, ResultInv
  <2>2. ~Trusted(result.pass) => \E p \in raised : p >= result.pass
    <3>1. result.pass \in Nat /\ \A p \in raised : p \in Nat
      BY SizeAssumption DEF IInv, TypeOK, Passes
    <3> QED
      BY <3>1 DEF Trusted
  <2> QED
    BY <2>1, <2>2
<1> QED
  BY Invariance, <1>1, PTL
=============================================================================
