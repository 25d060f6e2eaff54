--------------------------- MODULE EphemeralStore ---------------------------
(***************************************************************************)
(* The ephemeral INT8 expert weights of kt-kernel's fine-tuning runtime    *)
(* (sft/ephemeral.py, its driver scripts/prepare_ephemeral_int8.py and its *)
(* use in sft/wrapper.py).  A driver creates a staging tree in /dev/shm,   *)
(* leaves a lease in it, has a child process convert the model into it and *)
(* publishes it: it validates the tree, writes a manifest and renames the  *)
(* tree.  A training process opens the published tree, loads it layer by   *)
(* layer and deletes each layer when it has been loaded.  A driver that    *)
(* finds a staging tree reclaims it when the process in the lease is gone. *)
(*                                                                         *)
(* All drivers and training processes use one run id, so there are two     *)
(* paths: staging and ready.  Everything is done by path: a process that   *)
(* works on a path does not notice that the tree there is another one.     *)
(***************************************************************************)
EXTENDS Naturals

CONSTANTS
    Drivers,       \* invocations of prepare_ephemeral_int8.py
    Trainers,      \* training processes, one at a time
    Casts,         \* the sets of drivers and training processes that take part
    NumLayers,     \* expert layers of the model
    MaxKills,      \* bound: processes killed by SIGKILL
    MaxSignals     \* bound: SIGINT or SIGTERM received in all

ASSUME SizeAssumption == NumLayers \in Nat \ {0}
ASSUME CastAssumption == Casts \subseteq SUBSET (Drivers \cup Trainers)
ASSUME BoundAssumption == MaxKills \in Nat /\ MaxSignals \in Nat

Layers == 1 .. NumLayers

\* A tree: what there is of each layer (no directory, an empty one, some of its
\* files, all of them), the lease (a process), the manifest with the state of
\* each layer, and its temporary file.  Every directory that is made has an
\* inode of its own (for the properties only).
None == "none"
Process(d, kind) == [driver |-> d, kind |-> kind]
Processes == {Process(d, kind) : d \in Drivers, kind \in {"driver", "child"}}
NoProcess == [driver |-> None, kind |-> None]
NoManifest == [l \in Layers |-> None]
EmptyTree(n) == [exists |-> TRUE, layer |-> [l \in Layers |-> None], lease |-> NoProcess,
                 manifest |-> NoManifest, tmp |-> FALSE, inode |-> n]
NoTree == [EmptyTree(0) EXCEPT !.exists = FALSE]
Empty(tree) == tree = EmptyTree(tree.inode)

VARIABLES
    staging, ready,   \* the trees at the two paths
    \* per driver
    pc, probed,       \* ... the process that the lease named
    listed, unwalked, \* cleanup: the root entries that os.walk has listed, and the
                      \* layers among them that it has still to walk
    plan,             \* the layers that _discover_layers has found
    received,         \* received_signal
    child, wrote,     \* the converter, and the half layers it has written
    \* per training process
    tpc, at,          \* ... and the layer it is at
    mem,              \* EphemeralKTWeightStore.manifest
    source,           \* the inode of the tree it was read from
    closed, armed,    \* _closed; its signal handlers are installed
    cleaning,         \* how far its cleanup is
    ignores,          \* SIGINT and SIGTERM were ignored before
    \* history
    inodes,           \* staging directories made so far
    kills, signals,
    interrupted,      \* a signal has cut short a cleanup, or hit a driver without handlers
    trespass          \* why a driver has deleted in the tree of another live
                      \* producer; "overlap": in one that another deletes

driver == <<pc, probed, listed, unwalked, plan, received>>
converter == <<child, wrote>>
trainer == <<tpc, at, mem, source, closed, armed, cleaning, ignores>>
faults == <<kills, signals, interrupted>>
vars == <<staging, ready, driver, converter, trainer, inodes, faults, trespass>>

Init ==
    /\ staging = NoTree /\ ready = NoTree
    /\ \E cast \in Casts :
           /\ pc = [d \in Drivers |-> IF d \in cast THEN "start" ELSE "absent"]
           /\ tpc = [t \in Trainers |-> IF t \in cast THEN "start" ELSE "absent"]
    /\ probed = [d \in Drivers |-> NoProcess]
    /\ listed = [d \in Drivers |-> {}]
    /\ unwalked = [d \in Drivers |-> {}]
    /\ plan = [d \in Drivers |-> {}]
    /\ received = [d \in Drivers |-> FALSE]
    /\ child = [d \in Drivers |-> None]
    /\ wrote = [d \in Drivers |-> 0]
    /\ at = [t \in Trainers |-> 1]
    /\ mem = [t \in Trainers |-> NoManifest]
    /\ source = [t \in Trainers |-> 0]
    /\ closed = [t \in Trainers |-> FALSE]
    /\ armed = [t \in Trainers |-> FALSE]
    /\ cleaning = [t \in Trainers |-> "off"]
    /\ ignores \in {f \in [Trainers -> BOOLEAN] : \A t \in Trainers : f[t] => tpc[t] = "start"}
    /\ inodes = 0 /\ kills = 0 /\ signals = 0 /\ interrupted = FALSE
    /\ trespass = {}

-----------------------------------------------------------------------------
(* The driver: reclaiming and cleaning up a staging tree *)

Ended == {"absent", "done", "failed", "dead"}
Cleanups == {"reclaim", "cleanup", "atexit"}

DriverStep(d, from, to) == pc[d] = from /\ pc' = [pc EXCEPT ![d] = to]

\* /proc/<pid> exists: also for a child that has exited but that its driver has
\* not waited for.
Exists(p) ==
    IF p.kind = "driver" THEN pc[p.driver] \notin Ended
    ELSE \/ child[p.driver] = "running"
         \/ child[p.driver] \in {"ok", "error"} /\ pc[p.driver] \notin Ended

\* The processes that work on the staging tree, or still write into it.
Works == {"lease", "spawn", "lease2", "wait", "discover", "unlease", "scan", "manifest", "rename"}
Producing(d) == pc[d] \in Works \/ child[d] = "running"

\* The root entries of the staging tree.
Entries ==
    {l \in Layers : staging.layer[l] # None}
        \cup (IF staging.lease # NoProcess THEN {0} ELSE {})
        \cup (IF staging.manifest # NoManifest THEN {NumLayers + 1} ELSE {})

\* main, up to the validation of the lease in reclaim_stale_ephemeral_int8_staging.
Start(d) ==
    /\ DriverStep(d, "start", IF ~staging.exists THEN "check"
                              ELSE IF staging.lease = NoProcess THEN "failed" ELSE "probe")
    /\ probed' = [probed EXCEPT ![d] = staging.lease]
    /\ UNCHANGED <<staging, ready, listed, unwalked, plan, received, converter, trainer, inodes,
                   faults, trespass>>

Probe(d) ==
    /\ DriverStep(d, "probe", IF Exists(probed[d]) THEN "failed" ELSE "reclaim")
    /\ UNCHANGED <<staging, ready, probed, listed, unwalked, plan, received, converter, trainer,
                   inodes, faults, trespass>>

\* What follows a cleanup that has ended or raised: the one after an error is
\* repeated at exit, where cleanup_staging is still registered.
After(d, raises) ==
    pc' = [pc EXCEPT ![d] = CASE @ \in {"cleanup", "cleanup walk"} -> "atexit"
                              [] @ = "reclaim walk" /\ ~raises -> "check"
                              [] OTHER -> "failed"]

Walks == {"reclaim walk", "cleanup walk", "atexit walk"}

\* (history) d deletes while another process produces the tree, or deletes too.
Deletes(d) ==
    LET purpose == CASE pc[d] \in {"reclaim", "reclaim walk"} -> "reclaim"
                     [] pc[d] \in {"cleanup", "cleanup walk"} -> "cleanup"
                     [] pc[d] \in {"atexit", "atexit walk"} -> "atexit" IN
    trespass' = trespass
        \cup (IF \E e \in Drivers \ {d} : Producing(e) THEN {purpose} ELSE {})
        \cup (IF \E e \in Drivers \ {d} : pc[e] \in Cleanups \cup Walks THEN {"overlap"}
              ELSE {})

\* cleanup_ephemeral_int8_staging: os.walk lists the root first.
ListRoot(d) ==
    /\ pc[d] \in Cleanups
    /\ IF staging.exists
       THEN /\ pc' = [pc EXCEPT ![d] = CASE @ = "reclaim" -> "reclaim walk"
                                         [] @ = "cleanup" -> "cleanup walk"
                                         [] @ = "atexit"  -> "atexit walk"]
            /\ listed' = [listed EXCEPT ![d] = Entries]
            /\ unwalked' = [unwalked EXCEPT ![d] = Entries \cap Layers]
       ELSE After(d, pc[d] = "reclaim") /\ UNCHANGED <<listed, unwalked>>
    /\ UNCHANGED <<staging, ready, probed, plan, received, converter, trainer, inodes,
                   faults, trespass>>

\* The walk is bottom-up: below each listed layer it deletes everything, and
\* passes over a layer that has gone.  A file or a directory that comes or goes
\* while it is there makes it raise.
WalkLayer(d, l) ==
    /\ pc[d] \in Walks /\ l \in unwalked[d]
    /\ \/ /\ staging' = IF staging.layer[l] = None THEN staging
                         ELSE [staging EXCEPT !.layer[l] = "empty"]
          /\ unwalked' = [unwalked EXCEPT ![d] = @ \ {l}]
          /\ UNCHANGED <<pc, listed>>
       \/ /\ \E e \in Drivers : child[e] = "running" \/ (e # d /\ pc[e] \in Walks)
          /\ staging' = IF staging.layer[l] \in {None, "empty"} THEN staging
                        ELSE [staging EXCEPT !.layer[l] = "part"]
          /\ After(d, TRUE)
          /\ listed' = [listed EXCEPT ![d] = {}]
          /\ unwalked' = [unwalked EXCEPT ![d] = {}]
    /\ Deletes(d)
    /\ UNCHANGED <<ready, probed, plan, received, converter, trainer, inodes, faults>>

\* The staging tree without the root entries S.
Without(S) ==
    [staging EXCEPT !.lease = IF 0 \in S THEN NoProcess ELSE @,
                    !.manifest = IF NumLayers + 1 \in S THEN NoManifest ELSE @,
                    !.layer = [l \in Layers |-> IF l \in S THEN None ELSE @[l]]]

\* At the root it unlinks the listed files, then removes the listed directories,
\* then the root.  It raises at the first entry that has gone, at a directory
\* that is not empty any more, or at a root that is not; S is what it got to.
WalkRoot(d) ==
    LET files == listed[d] \ Layers
        gone == files \ Entries
        stuck == {l \in listed[d] \cap Layers : staging.layer[l] # "empty"} IN
    /\ pc[d] \in Walks /\ unwalked[d] = {}
    /\ listed' = [listed EXCEPT ![d] = {}]
    /\ \E S \in SUBSET listed[d] :
          /\ IF gone # {} THEN S \subseteq files \ gone
             ELSE files \subseteq S /\ S \cap stuck = {} /\ (stuck = {} => S = listed[d])
          /\ IF gone \cup stuck = {} /\ staging.exists /\ Empty(Without(S))
             THEN staging' = NoTree /\ After(d, FALSE)
             ELSE staging' = Without(S) /\ After(d, TRUE)
    /\ Deletes(d)
    /\ UNCHANGED <<ready, probed, unwalked, plan, received, converter, trainer, inodes, faults>>

-----------------------------------------------------------------------------
(* The driver: preparing and publishing a tree *)

\* A step on the staging tree that raises when the tree is not there (or bad).
OnTree(d, from, to, good) ==
    DriverStep(d, from, IF staging.exists /\ good THEN to
                        ELSE IF from = "lease" THEN "failed" ELSE "cleanup")

Check(d) ==
    /\ DriverStep(d, "check", IF staging.exists \/ ready.exists THEN "failed" ELSE "mkdir")
    /\ UNCHANGED <<staging, ready, probed, listed, unwalked, plan, received, converter, trainer,
                   inodes, faults, trespass>>

Mkdir(d) ==
    /\ DriverStep(d, "mkdir", IF staging.exists THEN "failed" ELSE "lease")
    /\ IF staging.exists THEN UNCHANGED <<staging, inodes>>
       ELSE inodes' = inodes + 1 /\ staging' = EmptyTree(inodes')
    /\ UNCHANGED <<ready, probed, listed, unwalked, plan, received, converter, trainer, faults,
                   trespass>>

\* write_ephemeral_staging_lease, for the driver and again for its child.
WriteLease(d) ==
    /\ \/ OnTree(d, "lease", "spawn", TRUE)
       \/ OnTree(d, "lease2", "wait", TRUE)
    /\ staging' = IF staging.exists
                  THEN [staging EXCEPT !.lease =
                          Process(d, IF pc[d] = "lease" THEN "driver" ELSE "child")]
                  ELSE staging
    /\ UNCHANGED <<ready, probed, listed, unwalked, plan, received, converter, trainer, inodes,
                   faults, trespass>>

Spawn(d) ==
    /\ DriverStep(d, "spawn", "lease2")
    /\ child' = [child EXCEPT ![d] = "running"]
    /\ UNCHANGED <<staging, ready, probed, listed, unwalked, plan, received, wrote, trainer,
                   inodes, faults, trespass>>

\* Mutant: the return code of the converter is not looked at.
WaitChildUnchecked(d) ==
    /\ child[d] \in {"ok", "error"}
    /\ child' = [child EXCEPT ![d] = "reaped"]
    /\ DriverStep(d, "wait", IF received[d] THEN "cleanup" ELSE "discover")
    /\ UNCHANGED <<staging, ready, probed, listed, unwalked, plan, received, wrote, trainer,
                   inodes, faults, trespass>>

WaitChild(d) ==
    /\ child[d] \in {"ok", "error"}
    /\ child' = [child EXCEPT ![d] = "reaped"]
    /\ DriverStep(d, "wait", IF received[d] \/ child[d] = "error" THEN "cleanup" ELSE "discover")
    /\ UNCHANGED <<staging, ready, probed, listed, unwalked, plan, received, wrote, trainer,
                   inodes, faults, trespass>>

\* _model_dimensions, which may raise, and _discover_layers.
Discover(d) ==
    /\ \E dimensions \in BOOLEAN :
          OnTree(d, "discover", "unlease", dimensions /\ Entries \cap Layers # {})
    /\ plan' = [plan EXCEPT ![d] = Entries \cap Layers]
    /\ UNCHANGED <<staging, ready, probed, listed, unwalked, received, converter, trainer, inodes,
                   faults, trespass>>

\* publish_ephemeral_int8_weights removes the lease first, whose ever it is, ...
Unlease(d) ==
    /\ OnTree(d, "unlease", "scan", TRUE)
    /\ staging' = [staging EXCEPT !.lease = NoProcess]
    /\ UNCHANGED <<ready, probed, listed, unwalked, plan, received, converter, trainer, inodes,
                   faults, trespass>>

\* ... compares the root entries and scans every layer (_scan_layer), ...
Scan(d) ==
    /\ OnTree(d, "scan", "manifest",
              Entries = plan[d] /\ \A l \in plan[d] : staging.layer[l] = "full")
    /\ UNCHANGED <<staging, ready, probed, listed, unwalked, plan, received, converter, trainer,
                   inodes, faults, trespass>>

\* ... writes the manifest ...
WriteManifest(d) ==
    /\ OnTree(d, "manifest", "rename", TRUE)
    /\ staging' = IF staging.exists
                  THEN [staging EXCEPT !.manifest =
                          [l \in Layers |-> IF l \in plan[d] THEN "ready" ELSE None]]
                  ELSE staging
    /\ UNCHANGED <<ready, probed, listed, unwalked, plan, received, converter, trainer, inodes,
                   faults, trespass>>

\* ... and renames the tree.
Rename(d) ==
    /\ OnTree(d, "rename", "done", ~ready.exists)
    /\ IF staging.exists /\ ~ready.exists
       THEN ready' = staging /\ staging' = NoTree
       ELSE UNCHANGED <<ready, staging>>
    /\ UNCHANGED <<probed, listed, unwalked, plan, received, converter, trainer, inodes,
                   faults, trespass>>

\* The handlers are installed between the first lease and the end of the cleanup
\* that follows an error; received_signal is read once, when the child has ended.
Handled == {"spawn", "lease2", "wait"}
Ignored == (Works \ (Handled \cup {"lease"})) \cup {"cleanup", "cleanup walk"}

\* A signal: without the handlers it ends the driver on the spot; with them it
\* is noted, and forwarded to a child that has already been assigned.
DriverSignal(d) ==
    /\ signals < MaxSignals /\ signals' = signals + 1
    /\ pc[d] \notin Ended \cup Ignored \cup {"start"}
    /\ IF pc[d] \notin Handled
       THEN /\ pc' = [pc EXCEPT ![d] = "dead"]
            /\ interrupted' = TRUE
            /\ UNCHANGED <<received, child>>
       ELSE /\ received' = [received EXCEPT ![d] = TRUE]
            /\ \/ child' = [child EXCEPT ![d] = IF @ = "running" THEN "error" ELSE @]
               \/ pc[d] = "lease2" /\ UNCHANGED child
            /\ UNCHANGED <<pc, interrupted>>
    /\ UNCHANGED <<staging, ready, probed, listed, unwalked, plan, wrote, trainer, kills, inodes,
                   trespass>>

DriverKilled(d) ==
    /\ kills < MaxKills /\ kills' = kills + 1
    /\ pc[d] \notin Ended \cup {"start"}
    /\ pc' = [pc EXCEPT ![d] = "dead"]
    /\ child' = [child EXCEPT ![d] = IF @ \in {"ok", "error"} THEN "reaped" ELSE @]
    /\ UNCHANGED <<staging, ready, probed, listed, unwalked, plan, received, wrote, trainer,
                   signals, interrupted, inodes, trespass>>

-----------------------------------------------------------------------------
(* The converter (scripts/convert_cpu_weights.py) *)

\* It makes the directories it needs, the staging root too, and a file that it
\* cannot open is skipped without an error.
Convert(d) ==
    LET l == wrote[d] \div 2 + 1
        begins == wrote[d] % 2 = 0 IN
    /\ child[d] = "running" /\ l <= NumLayers
    /\ wrote' = [wrote EXCEPT ![d] = @ + 1]
    /\ inodes' = IF begins /\ ~staging.exists THEN inodes + 1 ELSE inodes
    /\ staging' = CASE begins -> [staging EXCEPT !.exists = TRUE, !.layer[l] = "part",
                                                   !.inode = IF @ = 0 THEN inodes' ELSE @]
                    [] ~begins /\ staging.layer[l] = "part" ->
                                 [staging EXCEPT !.layer[l] = "full"]
                    [] OTHER -> staging
    /\ UNCHANGED <<ready, driver, child, trainer, faults, trespass>>

\* It exits, with an error at any time; a child without parent is reaped by init.
ConverterExit(d, result) ==
    /\ child[d] = "running"
    /\ result = "ok" => wrote[d] = 2 * NumLayers
    /\ child' = [child EXCEPT ![d] = IF pc[d] \in Ended THEN "reaped" ELSE result]
    /\ UNCHANGED <<staging, ready, driver, wrote, trainer, inodes, faults, trespass>>

DriverNext(d) ==
    \/ Start(d) \/ Probe(d) \/ ListRoot(d) \/ WalkRoot(d) \/ Check(d) \/ Mkdir(d)
    \/ \E l \in Layers : WalkLayer(d, l)
    \/ WriteLease(d) \/ Spawn(d) \/ WaitChild(d) \/ Discover(d) \/ Unlease(d) \/ Scan(d)
    \/ WriteManifest(d) \/ Rename(d) \/ DriverSignal(d) \/ DriverKilled(d)
    \/ Convert(d) \/ \E result \in {"ok", "error"} : ConverterExit(d, result)

-----------------------------------------------------------------------------
(* The training process (rank 0): EphemeralKTWeightStore in wrap_moe_layers *)

TrainerEnded == {"absent", "success", "failed", "dead"}
Holds(t) == tpc[t] \notin TrainerEnded \cup {"start", "validate"}

\* The main code of t runs: no cleanup is on top of it.
TrainerAt(t, from) == tpc[t] = from /\ cleaning[t] = "off"
Goto(t, to) == tpc' = [tpc EXCEPT ![t] = to]

\* An exception: wrap_moe_layers catches it, cleans up and reports it.
Raise(t) ==
    /\ IF closed[t] THEN Goto(t, "failed") /\ UNCHANGED <<closed, cleaning>>
       ELSE /\ Goto(t, "failing")
            /\ closed' = [closed EXCEPT ![t] = TRUE]
            /\ cleaning' = [cleaning EXCEPT ![t] = "layers"]
    /\ UNCHANGED <<ready, at, mem, armed>>

\* A step of the store on the ready tree, or else an exception.
Try(t, from, good, step) ==
    /\ TrainerAt(t, from)
    /\ \/ good /\ step /\ UNCHANGED <<closed, cleaning>>
       \/ ~good /\ Raise(t)
    /\ UNCHANGED <<staging, driver, converter, source, ignores, inodes, faults, trespass>>

\* open reads the manifest, ...
ReadManifest(t) ==
    /\ \A u \in Trainers \ {t} : tpc[u] \in TrainerEnded \cup {"start"}
    /\ ready.exists
    /\ TrainerAt(t, "start")
    /\ Goto(t, IF ready.manifest = NoManifest THEN "failed" ELSE "validate")
    /\ mem' = [mem EXCEPT ![t] = ready.manifest]
    /\ source' = [source EXCEPT ![t] = ready.inode]
    /\ UNCHANGED <<staging, ready, driver, converter, at, closed, armed, cleaning, ignores,
                   inodes, faults, trespass>>

\* Mutant: the files are not compared with the manifest.
IntactManifest(t) == \A l \in Layers : mem[t][l] = "ready"

\* (what open and _validate_manifest_layer demand of the tree)
Intact(t) ==
    /\ ready.exists /\ ready.lease = NoProcess /\ ~ready.tmp
    /\ \A l \in Layers : mem[t][l] = "ready" /\ ready.layer[l] = "full"

\* ... and validates it; only then is there a store with its handlers.
Validate(t) ==
    /\ TrainerAt(t, "validate")
    /\ Goto(t, IF Intact(t) THEN "load" ELSE "failed")
    /\ armed' = [armed EXCEPT ![t] = Intact(t)]
    /\ UNCHANGED <<staging, ready, driver, converter, at, mem, source, closed, cleaning, ignores,
                   inodes, faults, trespass>>

\* load_weights is submitted and waited for: C++ reads the files of the layer,
\* and throws if one is missing or short.
LoadBegin(t) ==
    Try(t, "load", TRUE, Goto(t, "loading") /\ UNCHANGED <<ready, at, mem, armed>>)
LoadEnd(t) ==
    Try(t, "loading", ready.exists /\ ready.layer[at[t]] = "full",
        Goto(t, "consume") /\ UNCHANGED <<ready, at, mem, armed>>)

\* consume_layer: validates the layer, marks it in the manifest, ...
Consume(t) ==
    Try(t, "consume", ~closed[t] /\ ready.exists /\ ready.layer[at[t]] = "full",
        /\ mem' = [mem EXCEPT ![t][at[t]] = "consuming"]
        /\ Goto(t, "write")
        /\ UNCHANGED <<ready, at, armed>>)

\* (_atomic_write_manifest: a temporary file, created exclusively, ...
WriteTemporary(t) ==
    Try(t, "write", ready.exists /\ ~ready.tmp,
        ready' = [ready EXCEPT !.tmp = TRUE] /\ Goto(t, "replace")
            /\ UNCHANGED <<at, mem, armed>>)

\* ... that replaces the manifest)
Replace(t) ==
    Try(t, "replace", ready.exists /\ ready.tmp,
        /\ ready' = [ready EXCEPT !.tmp = FALSE, !.manifest = mem[t]]
        /\ IF mem[t][at[t]] = "consuming" THEN Goto(t, "unlink") /\ UNCHANGED at
           ELSE IF at[t] = NumLayers THEN Goto(t, "finish") /\ UNCHANGED at
           ELSE Goto(t, "load") /\ at' = [at EXCEPT ![t] = @ + 1]
        /\ UNCHANGED <<mem, armed>>)

\* ... deletes the files one by one ...
Unlink(t) ==
    Try(t, "unlink", ready.exists /\ ready.layer[at[t]] = "full",
        ready' = [ready EXCEPT !.layer[at[t]] = "part"] /\ Goto(t, "rmdir")
            /\ UNCHANGED <<at, mem, armed>>)

\* ... and the directories, and marks the layer again.
RemoveLayer(t) ==
    Try(t, "rmdir", ready.exists /\ ready.layer[at[t]] = "part",
        /\ ready' = [ready EXCEPT !.layer[at[t]] = None]
        /\ mem' = [mem EXCEPT ![t][at[t]] = "consumed"]
        /\ Goto(t, "write")
        /\ UNCHANGED <<at, armed>>)

\* finish: the manifest, the root, then the handlers.
Finish(t) ==
    Try(t, "finish", ready.exists /\ ready.manifest # NoManifest,
        ready' = [ready EXCEPT !.manifest = NoManifest] /\ Goto(t, "rmroot")
            /\ UNCHANGED <<at, mem, armed>>)
RemoveRoot(t) ==
    /\ TrainerAt(t, "rmroot")
    /\ IF ready.exists /\ Empty(ready)
       THEN /\ ready' = NoTree
            /\ closed' = [closed EXCEPT ![t] = TRUE]
            /\ armed' = [armed EXCEPT ![t] = FALSE]
            /\ Goto(t, "success")
            /\ UNCHANGED <<at, mem, cleaning>>
       ELSE Raise(t)
    /\ UNCHANGED <<staging, driver, converter, source, ignores, inodes, faults, trespass>>

-----------------------------------------------------------------------------
(* EphemeralKTWeightStore.cleanup, after an exception or in a signal handler *)

CleanupStep(t, from, to) ==
    /\ cleaning[t] = from /\ tpc[t] # "dead"
    /\ cleaning' = [cleaning EXCEPT ![t] = to]
    /\ UNCHANGED <<staging, driver, converter, at, mem, source, closed, ignores, inodes, faults,
                   trespass>>

\* The layers that the manifest of the store still lists, and that are there.
Listed(t) == {l \in Layers : mem[t][l] # "consumed" /\ ready.layer[l] # None}

\* Mutant: a layer that is being consumed is skipped, too.
CleanLayersReady(t) ==
    LET left == {l \in Layers : mem[t][l] = "ready" /\ ready.layer[l] # None} IN
    /\ CleanupStep(t, "layers", IF left = {} THEN "manifest" ELSE "layers")
    /\ IF left = {} THEN UNCHANGED ready
       ELSE ready' = [ready EXCEPT !.layer[CHOOSE l \in left : \A m \in left : l <= m] = None]
    /\ UNCHANGED <<tpc, armed>>

\* The files of a layer, then its directory.
CleanLayers(t) ==
    /\ CleanupStep(t, "layers", IF Listed(t) = {} THEN "manifest" ELSE "layers")
    /\ IF Listed(t) = {} THEN UNCHANGED ready
       ELSE ready' = [ready EXCEPT !.layer[CHOOSE l \in Listed(t) :
                                             \A m \in Listed(t) : l <= m] =
                         IF @ = "full" THEN "part" ELSE None]
    /\ UNCHANGED <<tpc, armed>>

CleanManifest(t) ==
    /\ CleanupStep(t, "manifest", "root")
    /\ ready' = [ready EXCEPT !.manifest = NoManifest, !.tmp = FALSE]
    /\ UNCHANGED <<tpc, armed>>

\* The root goes if it is empty; the handlers are restored.  Then the process
\* fails, or goes on where a signal that it used to ignore has hit it.
CleanRoot(t) ==
    /\ CleanupStep(t, "root", "off")
    /\ ready' = IF ready.exists /\ Empty(ready) THEN NoTree ELSE ready
    /\ armed' = [armed EXCEPT ![t] = FALSE]
    /\ tpc' = [tpc EXCEPT ![t] = IF @ = "failing" THEN "failed" ELSE @]

\* A signal before the store is open, or after it has restored the handlers.
SignalUnarmed(t) ==
    /\ ~armed[t] /\ ~ignores[t] /\ tpc[t] \notin TrainerEnded \cup {"start"}
    /\ Goto(t, "failed")
    /\ UNCHANGED <<closed, cleaning, armed, interrupted>>

\* The handler starts the cleanup; unless signals used to be ignored an
\* exception follows.
SignalCleanup(t) ==
    /\ armed[t] /\ ~closed[t] /\ tpc[t] \notin TrainerEnded
    /\ closed' = [closed EXCEPT ![t] = TRUE]
    /\ cleaning' = [cleaning EXCEPT ![t] = "layers"]
    /\ Goto(t, IF ignores[t] THEN tpc[t] ELSE "failing")
    /\ UNCHANGED <<armed, interrupted>>

\* During a cleanup the exception ends the cleanup; the handlers are restored.
SignalAgain(t) ==
    /\ armed[t] /\ closed[t] /\ cleaning[t] # "off" /\ ~ignores[t] /\ tpc[t] \notin TrainerEnded
    /\ cleaning' = [cleaning EXCEPT ![t] = "off"]
    /\ armed' = [armed EXCEPT ![t] = FALSE]
    /\ Goto(t, "failed")
    /\ interrupted' = TRUE
    /\ UNCHANGED closed

TrainerSignal(t) ==
    /\ signals < MaxSignals /\ signals' = signals + 1
    /\ SignalUnarmed(t) \/ SignalCleanup(t) \/ SignalAgain(t)
    /\ UNCHANGED <<staging, ready, driver, converter, at, mem, source, ignores, kills, inodes,
                   trespass>>

TrainerKilled(t) ==
    /\ kills < MaxKills /\ kills' = kills + 1
    /\ tpc[t] \notin TrainerEnded \cup {"start"}
    /\ Goto(t, "dead")
    /\ UNCHANGED <<staging, ready, driver, converter, at, mem, source, closed, armed, cleaning,
                   ignores, signals, interrupted, inodes, trespass>>

TrainerNext(t) ==
    \/ ReadManifest(t) \/ Validate(t) \/ LoadBegin(t) \/ LoadEnd(t)
    \/ Consume(t) \/ WriteTemporary(t) \/ Replace(t) \/ Unlink(t) \/ RemoveLayer(t)
    \/ Finish(t) \/ RemoveRoot(t)
    \/ CleanLayers(t) \/ CleanManifest(t) \/ CleanRoot(t)
    \/ TrainerSignal(t) \/ TrainerKilled(t)

Next == (\E d \in Drivers : DriverNext(d)) \/ (\E t \in Trainers : TrainerNext(t))

Spec == Init /\ [][Next]_vars

-----------------------------------------------------------------------------
(* Properties *)

LayerStates == {None, "ready", "consuming", "consumed"}
Trees == [exists : BOOLEAN, layer : [Layers -> {None, "empty", "part", "full"}],
          lease : Processes \cup {NoProcess}, manifest : [Layers -> LayerStates],
          tmp : BOOLEAN, inode : 0 .. inodes]

\* Every tree and every variable of the processes holds a value of its kind;
\* a path without a tree has no files.
TypeOK ==
    /\ staging \in Trees /\ ready \in Trees
    /\ ~staging.exists => staging = NoTree
    /\ ~ready.exists => ready = NoTree
    /\ pc \in [Drivers -> Ended \cup Cleanups \cup Walks \cup Works \cup
                          {"start", "probe", "check", "mkdir"}]
    /\ probed \in [Drivers -> Processes \cup {NoProcess}]
    /\ listed \in [Drivers -> SUBSET (0 .. NumLayers + 1)]
    /\ unwalked \in [Drivers -> SUBSET Layers]
    /\ plan \in [Drivers -> SUBSET Layers]
    /\ received \in [Drivers -> BOOLEAN]
    /\ wrote \in [Drivers -> 0 .. 2 * NumLayers]
    /\ child \in [Drivers -> {None, "running", "ok", "error", "reaped"}]
    /\ tpc \in [Trainers -> TrainerEnded \cup
                   {"start", "validate", "load", "loading", "consume", "write", "replace",
                    "unlink", "rmdir", "finish", "rmroot", "failing"}]
    /\ at \in [Trainers -> Layers]
    /\ mem \in [Trainers -> [Layers -> LayerStates]]
    /\ inodes \in Nat /\ source \in [Trainers -> 0 .. inodes]
    /\ closed \in [Trainers -> BOOLEAN] /\ armed \in [Trainers -> BOOLEAN]
    /\ cleaning \in [Trainers -> {"off", "layers", "manifest", "root"}]
    /\ ignores \in [Trainers -> BOOLEAN]
    /\ kills \in 0 .. MaxKills /\ signals \in 0 .. MaxSignals /\ interrupted \in BOOLEAN
    /\ trespass \subseteq {"reclaim", "cleanup", "atexit", "overlap"}

\* Nobody has got hold of the ready tree yet.
Untouched == \A t \in Trainers : tpc[t] \in {"absent", "start", "validate"}

\* A tree that has been published is complete: every layer is there and in the
\* manifest, whatever driver or converter died or raced before; provided that
\* no driver has deleted the tree of another that was alive.
PublishedComplete ==
    ready.exists /\ Untouched /\ trespass = {} =>
        ready = [EmptyTree(ready.inode) EXCEPT !.layer = [l \in Layers |-> "full"],
                                  !.manifest = [l \in Layers |-> "ready"]]

\* The files of a layer are complete from the time C++ starts to load them until
\* consume_layer has marked them: a tree that an earlier process has consumed
\* or cleaned in part is never opened, and nobody else deletes from it.  The
\* manifest on disk calls a layer ready only while all of its files are there,
\* as long as no store has cleaned up: what a crash leaves is readable.
LoadUndisturbed ==
    /\ \A t \in Trainers :
          tpc[t] \in {"loading", "consume", "write", "replace"} /\ ~closed[t]
              /\ mem[t][at[t]] # "consumed"
          => ready.layer[at[t]] = "full"
    /\ (\A t \in Trainers : ~closed[t]) /\ trespass = {} =>
          \A l \in Layers : ready.manifest[l] = "ready" => ready.layer[l] = "full"

\* Nothing stays in /dev/shm.  Drivers that have ended have left no staging tree
\* behind, unless one was killed, hit by a signal while its handlers were not
\* installed, or trespassed on.  A training process that has opened the tree and was not
\* killed leaves nothing of it, whatever fails and at whatever point one signal
\* arrives; only a further signal can cut its cleanup short.
NothingLeft ==
    /\ (\A d \in Drivers : pc[d] \in Ended) /\ kills = 0 /\ ~interrupted /\ trespass = {} =>
          ~staging.exists
    /\ \A t \in Trainers :
          tpc[t] \in {"success", "failed"} /\ closed[t] /\ ~interrupted
              => ready.inode # source[t]

\* A driver reclaims a staging tree only when no live process is producing it.
ReclaimSafe == "reclaim" \notin trespass
=============================================================================
