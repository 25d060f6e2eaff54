------------------------- MODULE LayerwiseTransport -------------------------
(***************************************************************************)
(* The FP8 layerwise transport of kt-kernel (fp8_layerwise_transport.cpp). *)
(* The processes of a tensor-parallel group share one control block in     *)
(* mmap'ed memory and, per host slot, the staging buffers.  For every      *)
(* layer ("epoch") rank 0 runs a producer that writes the experts one      *)
(* after the other into the host slots; a consumer thread in every process *)
(* copies each expert to its own GPU and acknowledges it, and the slot is  *)
(* written again only after every rank's acknowledgement.  The callers     *)
(* bracket the layer with join(epoch, layer_id, expert_count) and          *)
(* wait(epoch).  The first error poisons the control block for everyone.   *)
(*                                                                         *)
(* One step of the model is one access that another thread can observe.    *)
(* The loop of wait_until is not a step: its outcomes are (the predicate   *)
(* holds and no poison is seen, a poison is seen, stopping, a timeout).    *)
(***************************************************************************)
EXTENDS Integers, FiniteSets

CONSTANTS
    TP,           \* tp_size_: number of ranks; rank 0 is the producer
    NumExperts,   \* num_experts_: experts a GPU buffer has room for
    HostSlots,    \* kFP8LayerwiseHostSlots
    Counts,       \* the expert_count arguments the callers may pass
    MaxEpoch,     \* bound: the epochs the callers use are 1..MaxEpoch
    MaxExitEpoch, \* bound: a rank closes or dies at the latest in this epoch
    FaultSets     \* the environments: each is the set of faults it may cause

AllFaults == {"timeout", "crash", "close", "writer", "copy", "init", "misuse", "hang"}

ASSUME TPAssumption == TP \in Nat \ {0}
ASSUME SizeAssumption == NumExperts \in Nat \ {0} /\ HostSlots \in Nat \ {0}
ASSUME CountsAssumption == Counts \subseteq 1 .. NumExperts
ASSUME EpochAssumption == MaxEpoch \in Nat /\ MaxExitEpoch \in Nat
ASSUME FaultsAssumption == FaultSets \subseteq SUBSET AllFaults

Ranks == 0 .. TP - 1
Experts == 0 .. NumExperts - 1
Slots == 0 .. HostSlots - 1
Epochs == 1 .. MaxEpoch

\* The slot an expert is staged in: expert % kFP8LayerwiseHostSlots.
SlotOf(x) == x % HostSlots

\* What a buffer holds: the weights of one expert of one layer, or bytes that
\* are no expert's weights (never written, or half written).
Weights(e, x) == [epoch |-> e, expert |-> x]
Garbage == Weights(0, 0)

VARIABLES
    \* the control block (FP8LayerwiseControl)
    active,        \* active_epoch
    expertCount,   \* expert_count; stands for the pair (layer_id, expert_count)
    nextSeq,       \* next_sequence
    producerDone,  \* producer_done_epoch
    joinEpoch,     \* join_epoch[rank]
    consumerDone,  \* consumer_done_epoch[rank], = the consumer's completed_epoch
    waitReturned,  \* wait_returned_epoch[rank]
    readySeq, readyEpoch, readyExpert,   \* ready[slot]
    ack,           \* ack_sequence[rank][slot]
    poison,        \* poison_state with error_code and error_rank
    \* the buffers
    host,          \* host[slot]; the writer fills every rank's copy of the slot
    gpu,           \* gpu[rank][expert]
    \* the thread that calls join and wait
    mpc, mEpoch, mCount,
    \* the thread of rank 0 that calls run_producer
    ppc, pEpoch, pCount, pExpert,
    published,     \* published_sequence[slot]
    \* the consumer thread of each rank
    cpc, cEpoch, cCount, cExpert,
    cSeen,         \* observed_sequence
    last,          \* last_ready_sequence_[slot]
    dma,           \* the H2D copy in flight on copy_stream_
    \* the processes
    alive,
    closing,       \* closed_ and stopping_
    \* the environment of this behaviour
    faults

control == <<active, expertCount, nextSeq, producerDone, joinEpoch, consumerDone,
             waitReturned, readySeq, readyEpoch, readyExpert, ack>>
main == <<mpc, mEpoch, mCount>>
producer == <<ppc, pEpoch, pCount, pExpert, published>>
consumer == <<cpc, cEpoch, cCount, cExpert, cSeen, last, dma>>
process == <<alive, closing>>
vars == <<control, poison, host, gpu, main, producer, consumer, process, faults>>

-----------------------------------------------------------------------------
(* Helpers *)

\* Only callers that respect the protocol are considered unless misuse is on.
Misuse == "misuse" \in faults

Healthy == poison.state = "healthy"

\* publish_poison: the compare-and-swap that only the first error wins.  The
\* claimant fills in the diagnostics afterwards (FinishPoison).
Claim(code, r) ==
    poison' = IF Healthy THEN [state |-> "claimed", code |-> code, rank |-> r]
                         ELSE poison

Closed(r) == closing[r] # "open"
Stopping(r) == closing[r] \in {"stopping", "closed"}

\* The diagnostics are complete: poison_state goes from kPoisonClaimed to 1.
FinishPoison ==
    /\ poison.state = "claimed"
    /\ alive[poison.rank]
    /\ poison' = [poison EXCEPT !.state = "set"]
    /\ UNCHANGED <<control, host, gpu, main, producer, consumer, process>>

-----------------------------------------------------------------------------
(* Construction.  The control block is zeroed by                           *)
(* initialize_fp8_layerwise_control before any transport is constructed.   *)

Init ==
    /\ active = 0 /\ expertCount = 0 /\ nextSeq = 0 /\ producerDone = 0
    /\ joinEpoch = [r \in Ranks |-> 0]
    /\ consumerDone = [r \in Ranks |-> 0]
    /\ waitReturned = [r \in Ranks |-> 0]
    /\ readySeq = [s \in Slots |-> 0]
    /\ readyEpoch = [s \in Slots |-> 0]
    /\ readyExpert = [s \in Slots |-> 0]
    /\ ack = [r \in Ranks |-> [s \in Slots |-> 0]]
    /\ poison = [state |-> "healthy", code |-> "none", rank |-> 0]
    /\ host = [s \in Slots |-> Garbage]
    /\ gpu = [r \in Ranks |-> [x \in Experts |-> Garbage]]
    /\ mpc = [r \in Ranks |-> "new"]
    /\ mEpoch = [r \in Ranks |-> 0]
    /\ mCount = [r \in Ranks |-> 0]
    /\ ppc = "idle" /\ pEpoch = 0 /\ pCount = 0 /\ pExpert = 0
    /\ published = [s \in Slots |-> 0]
    /\ cpc = [r \in Ranks |-> "new"]
    /\ cEpoch = [r \in Ranks |-> 0]
    /\ cCount = [r \in Ranks |-> 0]
    /\ cExpert = [r \in Ranks |-> 0]
    /\ cSeen = [r \in Ranks |-> 0]
    /\ last = [r \in Ranks |-> [s \in Slots |-> 0]]
    /\ dma = [r \in Ranks |-> "none"]
    /\ alive = [r \in Ranks |-> TRUE]
    /\ closing = [r \in Ranks |-> "open"]
    /\ faults \in FaultSets

\* The constructor: remembers the generations already published, starts the
\* consumer thread and waits until it has set up its CUDA stream.
Construct(r) ==
    /\ alive[r] /\ mpc[r] = "new"
    /\ last' = [last EXCEPT ![r] = readySeq]
    /\ mpc' = [mpc EXCEPT ![r] = "idle"]
    /\ cpc' = [cpc EXCEPT ![r] = "scan"]
    /\ UNCHANGED <<control, poison, host, gpu, mEpoch, mCount, producer,
                   cEpoch, cCount, cExpert, cSeen, dma, process>>

\* initialize_cuda_worker fails and the constructor throws.  The consumer
\* reports the error to the constructor first and poisons the group afterwards,
\* but not if the constructor has already set stopping_ by then.
ConstructFails(r) ==
    /\ "init" \in faults
    /\ alive[r] /\ mpc[r] = "new"
    /\ Claim("CudaInitialization", r) \/ UNCHANGED poison
    /\ mpc' = [mpc EXCEPT ![r] = "unbuilt"]
    /\ cpc' = [cpc EXCEPT ![r] = "exit"]
    /\ UNCHANGED <<control, host, gpu, mEpoch, mCount, producer,
                   cEpoch, cCount, cExpert, cSeen, last, dma, process>>

-----------------------------------------------------------------------------
(* The caller's thread: join and wait.  An exception ends the caller's use *)
(* of the transport (mpc = "failed"); it may still close it.               *)

MainStep(r, from, to) ==
    /\ alive[r]
    /\ mpc[r] = from
    /\ mpc' = [mpc EXCEPT ![r] = to]

\* The caller's thread throws, after poisoning the group with the given code.
MainPoisons(r, from, code) ==
    /\ MainStep(r, from, "failed")
    /\ Claim(code, r)
    /\ UNCHANGED <<control, host, gpu, mEpoch, mCount, producer, consumer, process>>

\* ensure_open and throw_if_poisoned at the head of join and wait; an argument
\* out of range (validate_call), which throws without poisoning the group.
CallRejected(r) ==
    /\ Closed(r) \/ ~Healthy \/ Misuse
    /\ MainStep(r, "idle", "failed")
    /\ UNCHANGED <<control, poison, host, gpu, mEpoch, mCount, producer, consumer, process>>

\* join(epoch, layer_id, expert_count) up to its wait.  Rank 0 refuses an
\* epoch that is not larger than the active one.  A caller that respects the
\* protocol uses consecutive epochs, each followed by its wait, and passes the
\* arguments that the other ranks pass for that epoch.  A misusing caller picks
\* any arguments, with one restriction on the environment: no rank joins the
\* epoch it is in a second time.  (join accepts that, even with the description
\* of the next layer when it falls between PublishCount and PublishEpoch.)
JoinCall(r, e, c) ==
    /\ ~Closed(r) /\ Healthy
    /\ \/ Misuse /\ (r = 0 \/ e # mEpoch[r])
       \/ /\ e = mEpoch[r] + 1 /\ waitReturned[r] = mEpoch[r]
          /\ \A q \in Ranks : mEpoch[q] = e => mCount[q] = c
    /\ IF r = 0 /\ e <= active
       THEN /\ MainPoisons(r, "idle", "Protocol")
       ELSE /\ MainStep(r, "idle", "join")
            /\ mEpoch' = [mEpoch EXCEPT ![r] = e]
            /\ mCount' = [mCount EXCEPT ![r] = c]
            /\ UNCHANGED <<control, poison, host, gpu, producer, consumer, process>>

\* Mutant: rank 0 publishes without waiting for anybody.
AllReturnedUnchecked == TRUE

\* What join waits for: rank 0 for every rank to have returned from the
\* previous layer (unless there is none), the others for rank 0 to publish.
AllReturned == active = 0 \/ \A r \in Ranks : waitReturned[r] >= active
JoinReady(r) == IF r = 0 THEN AllReturned ELSE active = mEpoch[r]

JoinWaited(r) ==
    /\ JoinReady(r)
    /\ Healthy \/ (r = 0 /\ active = 0)
    /\ MainStep(r, "join", IF r = 0 THEN "count" ELSE "check")
    /\ UNCHANGED <<control, poison, host, gpu, mEpoch, mCount, producer, consumer, process>>

\* The group moved on to a later epoch than the one this rank asked for.
JoinTooLate(r) ==
    /\ r # 0 /\ active > mEpoch[r]
    /\ MainPoisons(r, "join", "Protocol")

\* Mutant: the epoch is published ahead of its description.
PublishCountEpochFirst ==
    /\ MainStep(0, "count", "epoch")
    /\ active' = mEpoch[0]
    /\ UNCHANGED <<expertCount, nextSeq, producerDone, joinEpoch, consumerDone, waitReturned,
                   readySeq, readyEpoch, readyExpert, ack, poison, host, gpu,
                   mEpoch, mCount, producer, consumer, process>>

\* Rank 0 publishes the layer: first its description, then the epoch.
PublishCount ==
    /\ MainStep(0, "count", "epoch")
    /\ expertCount' = mCount[0]
    /\ UNCHANGED <<active, nextSeq, producerDone, joinEpoch, consumerDone, waitReturned,
                   readySeq, readyEpoch, readyExpert, ack, poison, host, gpu,
                   mEpoch, mCount, producer, consumer, process>>

PublishEpoch ==
    /\ MainStep(0, "epoch", "joined")
    /\ active' = mEpoch[0]
    /\ UNCHANGED <<expertCount, nextSeq, producerDone, joinEpoch, consumerDone, waitReturned,
                   readySeq, readyEpoch, readyExpert, ack, poison, host, gpu,
                   mEpoch, mCount, producer, consumer, process>>

\* Mutant: the arguments are not compared.
CheckLayerUnchecked(r) ==
    /\ MainStep(r, "check", "joined")
    /\ UNCHANGED <<control, poison, host, gpu, mEpoch, mCount, producer, consumer, process>>

\* The other ranks compare their arguments with what rank 0 published.
CheckLayer(r) ==
    IF expertCount # mCount[r]
    THEN MainPoisons(r, "check", "Protocol")
    ELSE /\ MainStep(r, "check", "joined")
         /\ UNCHANGED <<control, poison, host, gpu, mEpoch, mCount,
                        producer, consumer, process>>

StoreJoin(r) ==
    /\ MainStep(r, "joined", "idle")
    /\ joinEpoch' = [joinEpoch EXCEPT ![r] = mEpoch[r]]
    /\ UNCHANGED <<active, expertCount, nextSeq, producerDone, consumerDone, waitReturned,
                   readySeq, readyEpoch, readyExpert, ack, poison, host, gpu,
                   mEpoch, mCount, producer, consumer, process>>

\* wait(epoch) up to its wait: the epoch must be the one this rank joined.
WaitCall(r, e) ==
    /\ ~Closed(r) /\ Healthy
    /\ Misuse \/ (e = joinEpoch[r] /\ waitReturned[r] < e)
    /\ IF joinEpoch[r] # e
       THEN MainPoisons(r, "idle", "Protocol")
       ELSE /\ MainStep(r, "idle", "wait")
            /\ UNCHANGED <<control, poison, host, gpu, mEpoch, mCount,
                           producer, consumer, process>>

LayerDone(r) == consumerDone[r] >= joinEpoch[r] /\ producerDone >= joinEpoch[r]

WaitDone(r) ==
    /\ LayerDone(r) /\ Healthy
    /\ MainStep(r, "wait", "return")
    /\ UNCHANGED <<control, poison, host, gpu, mEpoch, mCount, producer, consumer, process>>

\* wait returns the statistics of the layer and records that it has.
WaitReturn(r) ==
    /\ MainStep(r, "return", "idle")
    /\ waitReturned' = [waitReturned EXCEPT ![r] = joinEpoch[r]]
    /\ UNCHANGED <<active, expertCount, nextSeq, producerDone, joinEpoch, consumerDone,
                   readySeq, readyEpoch, readyExpert, ack, poison, host, gpu,
                   mEpoch, mCount, producer, consumer, process>>

\* The exits of wait_until by an exception, in join and in wait.
MainReady(r) == IF mpc[r] = "join" THEN JoinReady(r) ELSE LayerDone(r)

MainAborted(r) ==
    /\ mpc[r] \in {"join", "wait"}
    /\ \/ ~Healthy /\ ~(r = 0 /\ mpc[r] = "join" /\ active = 0)
       \/ Stopping(r) /\ ~MainReady(r)
    /\ MainStep(r, mpc[r], "failed")
    /\ UNCHANGED <<control, poison, host, gpu, mEpoch, mCount, producer, consumer, process>>

\* Mutant: the wait of join has no timeout.
MainTimeoutOnlyWait(r) ==
    /\ "timeout" \in faults
    /\ mpc[r] = "wait" /\ ~MainReady(r) /\ Healthy
    /\ MainPoisons(r, mpc[r], "Timeout")

MainTimeout(r) ==
    /\ "timeout" \in faults
    /\ mpc[r] \in {"join", "wait"} /\ ~MainReady(r) /\ Healthy
    /\ MainPoisons(r, mpc[r], "Timeout")

-----------------------------------------------------------------------------
(* run_producer, on rank 0, once per layer. *)

ProducerStep(from, to) ==
    /\ alive[0]
    /\ ppc = from
    /\ ppc' = to

\* As CallRejected; under misuse also for an empty writer.
ProducerRejected ==
    /\ mpc[0] \notin {"new", "unbuilt"} /\ (Closed(0) \/ ~Healthy \/ Misuse)
    /\ ProducerStep("idle", "failed")
    /\ UNCHANGED <<control, poison, host, gpu, main, pEpoch, pCount, pExpert,
                   published, consumer, process>>

\* run_producer(epoch, layer_id, expert_count): the arguments must be those of
\* the layer that rank 0 has joined.  A restriction on the environment: not even
\* a misusing caller runs the producer of an epoch twice (run_producer accepts it).
ProducerCall(e, c) ==
    /\ mpc[0] \notin {"new", "unbuilt"} /\ ~Closed(0) /\ Healthy
    /\ e > pEpoch
    /\ Misuse \/ (e = joinEpoch[0] /\ c = mCount[0])
    /\ IF active # e \/ expertCount # c \/ joinEpoch[0] # e
       THEN /\ ProducerStep("idle", "failed")
            /\ Claim("Protocol", 0)
            /\ UNCHANGED <<pEpoch, pCount, pExpert, published>>
       ELSE /\ ProducerStep("idle", "gather")
            /\ pEpoch' = e /\ pCount' = c /\ pExpert' = 0
            /\ published' = [s \in Slots |-> 0]
            /\ UNCHANGED poison
    /\ UNCHANGED <<control, host, gpu, main, consumer, process>>

AllJoined == \A r \in Ranks : joinEpoch[r] = pEpoch

Gathered ==
    /\ AllJoined /\ Healthy
    /\ ProducerStep("gather", "slot")
    /\ UNCHANGED <<control, poison, host, gpu, main, pEpoch, pCount, pExpert,
                   published, consumer, process>>

\* Mutant: only the producer's own consumer is asked.
AckedOnlyRank0(s) == ack[0][s] >= published[s]

\* wait_for_slot_ack: every rank has acknowledged what was published in s.
Acked(s) == \A r \in Ranks : ack[r][s] >= published[s]

\* Mutant: the slot is taken without waiting for its acknowledgements.
BeginWriteUnacked ==
    /\ ProducerStep("slot", "write")
    /\ host' = [host EXCEPT ![SlotOf(pExpert)] = Garbage]
    /\ UNCHANGED <<control, poison, gpu, main, pEpoch, pCount, pExpert,
                   published, consumer, process>>

\* A slot that this layer has not used yet is taken without waiting (and
\* without looking at the poison); the writer starts to fill it.
BeginWrite ==
    LET s == SlotOf(pExpert) IN
    /\ published[s] = 0 \/ (Acked(s) /\ Healthy)
    /\ ProducerStep("slot", "write")
    /\ host' = [host EXCEPT ![s] = Garbage]
    /\ UNCHANGED <<control, poison, gpu, main, pEpoch, pCount, pExpert,
                   published, consumer, process>>

EndWrite ==
    /\ ProducerStep("write", "meta")
    /\ host' = [host EXCEPT ![SlotOf(pExpert)] = Weights(pEpoch, pExpert)]
    /\ UNCHANGED <<control, poison, gpu, main, pEpoch, pCount, pExpert,
                   published, consumer, process>>

\* The generation is announced in two steps: what it is, then its sequence.
PublishMeta ==
    LET s == SlotOf(pExpert) IN
    /\ ProducerStep("meta", "publish")
    /\ nextSeq' = nextSeq + 1
    /\ readyEpoch' = [readyEpoch EXCEPT ![s] = pEpoch]
    /\ readyExpert' = [readyExpert EXCEPT ![s] = pExpert]
    /\ UNCHANGED <<active, expertCount, producerDone, joinEpoch, consumerDone, waitReturned,
                   readySeq, ack, poison, host, gpu, main, pEpoch, pCount, pExpert,
                   published, consumer, process>>

\* Mutant: the loop over the experts runs once too often.
PublishSequenceOnceMore ==
    LET s == SlotOf(pExpert) IN
    /\ ProducerStep("publish", IF pExpert < pCount THEN "slot" ELSE "drain")
    /\ readySeq' = [readySeq EXCEPT ![s] = nextSeq]
    /\ published' = [published EXCEPT ![s] = nextSeq]
    /\ pExpert' = pExpert + 1
    /\ UNCHANGED <<active, expertCount, nextSeq, producerDone, joinEpoch, consumerDone,
                   waitReturned, readyEpoch, readyExpert, ack, poison, host, gpu, main,
                   pEpoch, pCount, consumer, process>>

PublishSequence ==
    LET s == SlotOf(pExpert) IN
    /\ ProducerStep("publish", IF pExpert + 1 < pCount THEN "slot" ELSE "drain")
    /\ readySeq' = [readySeq EXCEPT ![s] = nextSeq]
    /\ published' = [published EXCEPT ![s] = nextSeq]
    /\ pExpert' = pExpert + 1
    /\ UNCHANGED <<active, expertCount, nextSeq, producerDone, joinEpoch, consumerDone,
                   waitReturned, readyEpoch, readyExpert, ack, poison, host, gpu, main,
                   pEpoch, pCount, consumer, process>>

\* The last generation of every slot has been acknowledged by every rank.
\* (A slot this layer has not used has published_sequence 0 and is skipped.)
AllAcked == \A s \in Slots : Acked(s)

Drained ==
    /\ AllAcked /\ Healthy
    /\ ProducerStep("drain", "finish")
    /\ UNCHANGED <<control, poison, host, gpu, main, pEpoch, pCount, pExpert,
                   published, consumer, process>>

ProducerReturn ==
    /\ ProducerStep("finish", "idle")
    /\ producerDone' = pEpoch
    /\ UNCHANGED <<active, expertCount, nextSeq, joinEpoch, consumerDone, waitReturned,
                   readySeq, readyEpoch, readyExpert, ack, poison, host, gpu, main,
                   pEpoch, pCount, pExpert, published, consumer, process>>

\* What the producer waits for in its present state.
ProducerReady ==
    CASE ppc = "gather" -> AllJoined
      [] ppc = "slot"   -> Acked(SlotOf(pExpert))
      [] ppc = "drain"  -> AllAcked

\* The exits by an exception; the catch clause poisons the group if nobody has.
ProducerThrows(code) ==
    /\ ProducerStep(ppc, "failed")
    /\ Claim(code, 0)
    /\ UNCHANGED <<control, host, gpu, main, pEpoch, pCount, pExpert,
                   published, consumer, process>>

ProducerAborted ==
    /\ ppc \in {"gather", "slot", "drain"}
    /\ \/ ~Healthy /\ ~(ppc = "slot" /\ published[SlotOf(pExpert)] = 0)
       \/ Stopping(0) /\ ~ProducerReady
    /\ ProducerThrows("Writer")

ProducerTimeout ==
    /\ "timeout" \in faults
    /\ ppc \in {"gather", "slot", "drain"} /\ ~ProducerReady /\ Healthy
    /\ ProducerThrows("Timeout")

\* The writer callback throws: the slot is left half written.
WriterFails ==
    /\ "writer" \in faults
    /\ ppc = "write"
    /\ ProducerThrows("Writer")

-----------------------------------------------------------------------------
(* consumer_main *)

ConsumerStep(r, from, to) ==
    /\ alive[r]
    /\ cpc[r] = from
    /\ cpc' = [cpc EXCEPT ![r] = to]

\* The scan of the loop finds a layer to copy.  It reads active, join_epoch and
\* expert_count one after the other; once active equals this rank's join_epoch
\* none of them changes before the rank has copied the layer and returned.
Joined(r) == active # 0 /\ active > consumerDone[r] /\ joinEpoch[r] = active

BeginLayer(r) ==
    /\ ~Stopping(r) /\ Joined(r)
    /\ ConsumerStep(r, "scan", "await")
    /\ cEpoch' = [cEpoch EXCEPT ![r] = active]
    /\ cCount' = [cCount EXCEPT ![r] = expertCount]
    /\ cExpert' = [cExpert EXCEPT ![r] = 0]
    /\ UNCHANGED <<control, poison, host, gpu, main, producer, cSeen, last, dma, process>>

\* The next expert generation is in its slot.
Ready(r) ==
    LET s == SlotOf(cExpert[r]) IN
    /\ readySeq[s] # last[r][s]
    /\ readyEpoch[s] = cEpoch[r]
    /\ readyExpert[s] = cExpert[r]

\* copy_expert, first half: the asynchronous copy is started.
BeginCopy(r) ==
    /\ Ready(r) /\ ~(active > cEpoch[r]) /\ Healthy
    /\ ConsumerStep(r, "await", "copy")
    /\ cSeen' = [cSeen EXCEPT ![r] = readySeq[SlotOf(cExpert[r])]]
    /\ dma' = [dma EXCEPT ![r] = "busy"]
    /\ UNCHANGED <<control, poison, host, gpu, main, producer,
                   cEpoch, cCount, cExpert, last, process>>

\* The device finishes the copy, whether or not the thread still waits for it.
DmaComplete(r) ==
    /\ alive[r] /\ dma[r] = "busy"
    /\ gpu' = [gpu EXCEPT ![r][cExpert[r]] = host[SlotOf(cExpert[r])]]
    /\ dma' = [dma EXCEPT ![r] = "none"]
    /\ UNCHANGED <<control, poison, host, main, producer,
                   cpc, cEpoch, cCount, cExpert, cSeen, last, process>>

\* Mutant: the acknowledgement is not stored.
AcknowledgeUnstored(r) ==
    /\ dma[r] = "none" /\ Healthy
    /\ ConsumerStep(r, "copy", IF cExpert[r] + 1 < cCount[r] THEN "await" ELSE "finish")
    /\ last' = [last EXCEPT ![r][SlotOf(cExpert[r])] = cSeen[r]]
    /\ cExpert' = [cExpert EXCEPT ![r] = @ + 1]
    /\ UNCHANGED <<control, poison, host, gpu, main, producer, cEpoch, cCount, cSeen, dma,
                   process>>

\* The event has completed: the generation is acknowledged.
Acknowledge(r) ==
    LET s == SlotOf(cExpert[r]) IN
    /\ dma[r] = "none" /\ Healthy
    /\ ConsumerStep(r, "copy", IF cExpert[r] + 1 < cCount[r] THEN "await" ELSE "finish")
    /\ last' = [last EXCEPT ![r][s] = cSeen[r]]
    /\ ack' = [ack EXCEPT ![r][s] = cSeen[r]]
    /\ cExpert' = [cExpert EXCEPT ![r] = @ + 1]
    /\ UNCHANGED <<active, expertCount, nextSeq, producerDone, joinEpoch, consumerDone,
                   waitReturned, readySeq, readyEpoch, readyExpert, poison, host, gpu,
                   main, producer, cEpoch, cCount, cSeen, dma, process>>

EndLayer(r) ==
    /\ ConsumerStep(r, "finish", "scan")
    /\ consumerDone' = [consumerDone EXCEPT ![r] = cEpoch[r]]
    /\ UNCHANGED <<active, expertCount, nextSeq, producerDone, joinEpoch, waitReturned,
                   readySeq, readyEpoch, readyExpert, ack, poison, host, gpu,
                   main, producer, cEpoch, cCount, cExpert, cSeen, last, dma, process>>

\* The thread ends; unless the transport is stopping it poisons the group.
ConsumerThrows(r, code) ==
    /\ ConsumerStep(r, cpc[r], "exit")
    /\ IF Stopping(r) /\ code = "CudaCopy" THEN UNCHANGED poison ELSE Claim(code, r)
    /\ UNCHANGED <<control, host, gpu, main, producer, cEpoch, cCount, cExpert,
                   cSeen, last, dma, process>>

\* What the consumer waits for in its present state.
ConsumerReady(r) ==
    CASE cpc[r] = "scan"  -> Joined(r)
      [] cpc[r] = "await" -> Ready(r)
      [] cpc[r] = "copy"  -> dma[r] = "none"

\* A check of the awaiting predicate: the active epoch has advanced too early.
EpochOverrun(r) == cpc[r] = "await" /\ active > cEpoch[r]

\* Mutant: the wait for the copy's event does not look at stopping.
ConsumerAbortedDeaf(r) ==
    /\ cpc[r] \in {"scan", "await", "copy"}
    /\ \/ ~Healthy /\ ~(cpc[r] = "scan" /\ Joined(r)) /\ cpc[r] # "copy"
       \/ Stopping(r) /\ (cpc[r] = "scan" \/ (cpc[r] = "await" /\ ~Ready(r)))
       \/ EpochOverrun(r)
    /\ ConsumerThrows(r, IF EpochOverrun(r) THEN "Protocol" ELSE "CudaCopy")

\* The loop ends when stopping; a poison seen in a wait ends it by a throw.
\* A scan that has found a layer looks at the poison only in its first wait.
ConsumerAborted(r) ==
    /\ cpc[r] \in {"scan", "await", "copy"}
    /\ \/ ~Healthy /\ ~(cpc[r] = "scan" /\ Joined(r))
       \/ Stopping(r) /\ (cpc[r] = "scan" \/ ~ConsumerReady(r))
       \/ EpochOverrun(r)
    /\ ConsumerThrows(r, IF EpochOverrun(r) THEN "Protocol" ELSE "CudaCopy")

ConsumerTimeout(r) ==
    /\ "timeout" \in faults
    /\ cpc[r] \in {"await", "copy"} /\ ~ConsumerReady(r) /\ Healthy
    /\ ConsumerThrows(r, "Timeout")

\* cudaMemcpyAsync, cudaEventRecord or cudaEventQuery reports an error.
CopyFails(r) ==
    /\ "copy" \in faults
    /\ cpc[r] = "copy"
    /\ ConsumerThrows(r, "CudaCopy")

-----------------------------------------------------------------------------
(* close and process death *)

CloseStep(r, from, to) ==
    /\ alive[r]
    /\ closing[r] = from
    /\ closing' = [closing EXCEPT ![r] = to]

\* Closing in the middle of a layer poisons the group, before stopping_ is set.
\* closed_ is set in the same step: only the entries of join, wait and
\* run_producer read it, and a call they refuse has no effect on anyone else.
CloseCall(r) ==
    /\ "close" \in faults /\ mEpoch[r] <= MaxExitEpoch
    /\ mpc[r] \notin {"new", "unbuilt"}
    /\ CloseStep(r, "open", "closing")
    /\ IF active # 0 /\ consumerDone[r] < active
       THEN Claim("ClosedWhileActive", r) ELSE UNCHANGED poison
    /\ UNCHANGED <<control, host, gpu, main, producer, consumer, alive>>

CloseStop(r) ==
    /\ CloseStep(r, "closing", "stopping")
    /\ UNCHANGED <<control, poison, host, gpu, main, producer, consumer, alive>>

CloseReturn(r) ==
    /\ cpc[r] = "exit"
    /\ CloseStep(r, "stopping", "closed")
    /\ UNCHANGED <<control, poison, host, gpu, main, producer, consumer, alive>>

\* The process dies, at any point of any of its threads.
Crash(r) ==
    /\ "crash" \in faults /\ mEpoch[r] <= MaxExitEpoch
    /\ alive[r]
    /\ alive' = [alive EXCEPT ![r] = FALSE]
    /\ UNCHANGED <<control, poison, host, gpu, main, producer, consumer, closing>>

-----------------------------------------------------------------------------

MainNext(r) ==
    \/ Construct(r) \/ ConstructFails(r)
    \/ CallRejected(r)
    \/ \E e \in Epochs, c \in Counts : JoinCall(r, e, c)
    \/ JoinWaited(r) \/ JoinTooLate(r) \/ CheckLayer(r) \/ StoreJoin(r)
    \/ r = 0 /\ (PublishCount \/ PublishEpoch)
    \/ \E e \in Epochs : WaitCall(r, e)
    \/ WaitDone(r) \/ WaitReturn(r)
    \/ MainAborted(r) \/ MainTimeout(r)

ProducerNext ==
    \/ ProducerRejected
    \/ \E e \in Epochs, c \in Counts : ProducerCall(e, c)
    \/ Gathered \/ BeginWrite \/ EndWrite \/ PublishMeta \/ PublishSequence
    \/ Drained \/ ProducerReturn
    \/ ProducerAborted \/ ProducerTimeout \/ WriterFails

ConsumerNext(r) ==
    \/ BeginLayer(r) \/ BeginCopy(r) \/ Acknowledge(r) \/ EndLayer(r)
    \/ ConsumerAborted(r) \/ ConsumerTimeout(r) \/ CopyFails(r)

CloseNext(r) == CloseStop(r) \/ CloseReturn(r)

Next ==
    /\ \/ \E r \in Ranks : \/ MainNext(r) \/ ConsumerNext(r) \/ DmaComplete(r)
                           \/ CloseCall(r) \/ CloseNext(r) \/ Crash(r)
       \/ ProducerNext
       \/ FinishPoison
    /\ UNCHANGED faults

Spec == Init /\ [][Next]_vars

\* Every thread of a live process is scheduled, a wait that makes no progress
\* times out (where the environment has timeouts), and the callers go on
\* calling.  The copies complete unless the device of this environment hangs.
FairSpec ==
    /\ Spec
    /\ \A r \in Ranks :
          /\ WF_vars(MainNext(r) /\ UNCHANGED faults)
          /\ WF_vars(ConsumerNext(r) /\ UNCHANGED faults)
          /\ WF_vars(CloseNext(r) /\ UNCHANGED faults)
          /\ WF_vars("hang" \notin faults /\ DmaComplete(r) /\ UNCHANGED faults)
    /\ WF_vars(ProducerNext /\ UNCHANGED faults)

-----------------------------------------------------------------------------
(* Properties *)

MainStates == {"new", "unbuilt", "idle", "join", "count", "epoch", "check", "joined",
               "wait", "return", "failed"}
ProducerStates == {"idle", "gather", "slot", "write", "meta", "publish", "drain",
                   "finish", "failed"}
ConsumerStates == {"new", "scan", "await", "copy", "finish", "exit"}
CloseStates == {"open", "closing", "stopping", "closed"}
Codes == {"none", "Protocol", "Timeout", "CudaInitialization", "CudaCopy", "Writer",
          "ClosedWhileActive"}
Poisons == [state : {"healthy", "claimed", "set"}, code : Codes, rank : Ranks]

ControlTypeOK ==
    /\ active \in Nat /\ expertCount \in Nat /\ nextSeq \in Nat /\ producerDone \in Nat
    /\ joinEpoch \in [Ranks -> Nat]
    /\ consumerDone \in [Ranks -> Nat]
    /\ waitReturned \in [Ranks -> Nat]
    /\ readySeq \in [Slots -> Nat]
    /\ readyEpoch \in [Slots -> Nat]
    /\ readyExpert \in [Slots -> Nat]
    /\ ack \in [Ranks -> [Slots -> Nat]]
    /\ poison \in Poisons

BufferTypeOK ==
    /\ host \in [Slots -> [epoch : Nat, expert : Nat]]
    /\ gpu \in [Ranks -> [Experts -> [epoch : Nat, expert : Nat]]]

MainTypeOK ==
    /\ mpc \in [Ranks -> MainStates]
    /\ mEpoch \in [Ranks -> Nat]
    /\ mCount \in [Ranks -> 0 .. NumExperts]
    /\ alive \in [Ranks -> BOOLEAN]
    /\ closing \in [Ranks -> CloseStates]

ProducerTypeOK ==
    /\ ppc \in ProducerStates
    /\ pEpoch \in Nat /\ pCount \in 0 .. NumExperts /\ pExpert \in 0 .. NumExperts
    /\ published \in [Slots -> Nat]

ConsumerTypeOK ==
    /\ cpc \in [Ranks -> ConsumerStates]
    /\ cEpoch \in [Ranks -> Nat]
    /\ cCount \in [Ranks -> 0 .. NumExperts]
    /\ cExpert \in [Ranks -> 0 .. NumExperts]
    /\ cSeen \in [Ranks -> Nat]
    /\ last \in [Ranks -> [Slots -> Nat]]
    /\ dma \in [Ranks -> {"none", "busy"}]

\* Every cell of the control block, buffer and thread-local variable holds a
\* value of its kind; the experts and counts stay within the GPU buffer, so no
\* copy_expert goes past num_experts.
TypeOK == ControlTypeOK /\ BufferTypeOK /\ MainTypeOK /\ ProducerTypeOK /\ ConsumerTypeOK

\* A copy to the device that is in flight reads the complete weights of the
\* expert it is for: the writer never touches a host slot (the next expert of
\* this or of a later layer) before every rank's copy out of it has ended,
\* also when the copying thread has given up after a timeout or a poison.
CopyIntact ==
    \A r \in Ranks :
        dma[r] = "busy" => host[SlotOf(cExpert[r])] = Weights(cEpoch[r], cExpert[r])

\* From the moment wait(epoch) succeeds until the same rank's next join, the
\* rank's GPU buffer holds exactly the experts its caller asked for.
Delivered ==
    \A r \in Ranks :
        \/ mpc[r] = "return"
        \/ mpc[r] = "idle" /\ mEpoch[r] # 0 /\ waitReturned[r] = mEpoch[r]
        => \A x \in 0 .. mCount[r] - 1 : gpu[r][x] = Weights(mEpoch[r], x)

\* When the producer reports the layer done, every rank's GPU holds all of it:
\* draining the last generation of each slot covers all the experts.
GroupDelivered ==
    pEpoch = active /\ producerDone = active =>
        \A r \in Ranks, x \in 0 .. pCount - 1 : gpu[r][x] = Weights(active, x)

\* No rank joins a layer while another has not returned from an earlier one
\* that it joined.
Lockstep ==
    \A r, q \in Ranks : joinEpoch[q] < joinEpoch[r] => waitReturned[q] = joinEpoch[q]

\* The protocol error "active epoch advanced before consumer completed" is
\* never raised, whatever epochs and arguments the callers pass.
NoOverrun == \A r \in Ranks : ~EpochOverrun(r)

\* Without a fault and with callers that respect the protocol nobody poisons
\* the group.
NeverPoisoned == faults = {} => Healthy

\* ... and every layer is delivered to every rank.
AllLayersDelivered == faults = {} => <>(\A r \in Ranks : waitReturned[r] = MaxEpoch)

\* Whatever process dies and whichever device hangs: with timeouts, the join,
\* wait and run_producer of every live process end.  (The calls are finitely
\* many, so a call that never ended would keep the group from being quiet.)
CallsEnd ==
    "timeout" \in faults =>
        []<>(/\ \A r \in Ranks : mpc[r] \in {"new", "unbuilt", "idle", "failed"} \/ ~alive[r]
             /\ ppc \in {"idle", "failed"} \/ ~alive[0])

\* close joins the consumer thread, wherever that thread is and even when the
\* copy it waits for never completes: no close of a live process blocks for ever.
CloseEnds == []<>(\A r \in Ranks : closing[r] \in {"open", "closed"} \/ ~alive[r])
=============================================================================
