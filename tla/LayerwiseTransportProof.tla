---------------------- MODULE LayerwiseTransportProof ----------------------
(***************************************************************************)
(* The safety of LayerwiseTransport, proved for every number of ranks,     *)
(* experts, host slots and epochs, for every subset of the faults and for  *)
(* callers that misuse the protocol, as long as none repeats a join or a   *)
(* run_producer for the epoch it is in.                                    *)
(***************************************************************************)
EXTENDS LayerwiseTransport, TLAPS

-----------------------------------------------------------------------------
(* The inductive invariant *)

\* The experts of the active layer that the producer has published, and those
\* that the consumer of rank r has acknowledged.
Sent == IF pEpoch = active THEN pExpert ELSE 0
Got(r) == IF cEpoch[r] = active THEN cExpert[r] ELSE 0

\* The slot that the producer is working on.
Filling == ppc \in {"write", "meta", "publish"}

\* The order of the epochs that the control block records.
RankOrder(r) ==
    /\ waitReturned[r] <= consumerDone[r] /\ waitReturned[r] <= producerDone
    /\ consumerDone[r] <= cEpoch[r] /\ cEpoch[r] <= joinEpoch[r]
    /\ joinEpoch[r] <= active
    /\ joinEpoch[r] < active => waitReturned[r] = joinEpoch[r]
    /\ cEpoch[r] > consumerDone[r] => cEpoch[r] = joinEpoch[r]

EpochOrder ==
    /\ producerDone <= pEpoch /\ pEpoch <= active
    /\ \A r \in Ranks : RankOrder(r)

\* What the thread that calls join and wait has established.
MainOf(r) ==
    /\ mpc[r] \in {"new", "unbuilt"} =>
         /\ joinEpoch[r] = 0 /\ mEpoch[r] = 0 /\ mCount[r] = 0
         /\ cEpoch[r] = 0 /\ cCount[r] = 0
         /\ \A s \in Slots : readySeq[s] = 0
    /\ (mpc[r] = "new") <=> (cpc[r] = "new")
    /\ mpc[r] \in {"idle", "wait", "return"} => mEpoch[r] = joinEpoch[r]
    /\ mpc[r] \in {"join", "count", "epoch", "check", "joined"} =>
         mEpoch[r] # joinEpoch[r] /\ mEpoch[r] > 0
    /\ mpc[r] \in {"check", "joined"} => active = mEpoch[r]
    /\ mpc[r] = "return" => consumerDone[r] = joinEpoch[r] /\ producerDone >= joinEpoch[r]

MainInv == \A r \in Ranks : MainOf(r)

\* Rank 0 publishes a new layer only when everybody has left the previous one.
RankZeroInv ==
    /\ mpc[0] \in {"join", "count", "epoch"} => mEpoch[0] > active
    /\ mpc[0] # "joined" => joinEpoch[0] = active
    /\ mpc[0] \in {"count", "epoch"} => AllReturned
    /\ \A r \in Ranks : mpc[r] \in {"count", "epoch"} => r = 0

\* The ranks agree on the layer's expert_count as long as they work on it.
CountOf(r) ==
    /\ /\ mpc[r] \in {"joined", "idle", "wait", "return"}
       /\ mEpoch[r] = active /\ active # 0 /\ waitReturned[r] < active
       => mCount[r] = expertCount
    /\ cEpoch[r] > consumerDone[r] => cCount[r] = expertCount
    /\ mpc[r] \in {"idle", "wait", "return"} /\ cEpoch[r] = mEpoch[r] => cCount[r] = mCount[r]

CountInv ==
    /\ active # 0 => expertCount \in 1 .. NumExperts
    /\ mpc[0] \in {"join", "count", "epoch"} => mCount[0] >= 1
    /\ mpc[0] = "epoch" => expertCount = mCount[0]
    /\ \A r \in Ranks : CountOf(r)

\* Where the consumers are in the layer they are copying.
ConsumerInv ==
    \A r \in Ranks :
        /\ cExpert[r] <= cCount[r]
        /\ cEpoch[r] = consumerDone[r] => cExpert[r] = cCount[r]
        /\ cpc[r] \in {"new", "scan"} => cEpoch[r] = consumerDone[r]
        /\ cpc[r] \in {"await", "copy", "finish"} => cEpoch[r] > consumerDone[r]
        /\ cpc[r] \in {"await", "copy"} => cExpert[r] < cCount[r]
        /\ cpc[r] = "finish" => cExpert[r] = cCount[r]
        /\ dma[r] = "busy" => cpc[r] \in {"copy", "exit"} /\ cExpert[r] < cCount[r]

\* Where the producer is in the layer it is writing.
ProducerInv ==
    /\ pExpert <= pCount
    /\ ppc = "idle" => pEpoch = producerDone
    /\ ppc \notin {"idle", "failed"} =>
         pEpoch = active /\ producerDone < active /\ pCount = expertCount
    /\ ppc \notin {"idle", "failed", "gather"} => \A r \in Ranks : joinEpoch[r] = active
    /\ ppc = "gather" => pExpert = 0 /\ \A s \in Slots : published[s] = 0
    /\ ppc \in {"slot", "write", "meta", "publish"} => pExpert < pCount
    /\ ppc \in {"drain", "finish"} => pExpert = pCount
    /\ ppc = "finish" \/ (producerDone = pEpoch /\ pEpoch = active) =>
         pExpert = pCount /\ \A r \in Ranks : cEpoch[r] = active /\ cExpert[r] = pExpert

\* The sequence numbers: a rank is behind in a slot exactly when the slot
\* holds a published expert that the rank has not acknowledged.
SequenceInv ==
    /\ \A s \in Slots :
         /\ readySeq[s] <= nextSeq
         /\ published[s] \in {0, readySeq[s]}
         /\ ppc = "publish" => readySeq[s] < nextSeq
    /\ \A r \in Ranks, s \in Slots :
         /\ ack[r][s] = last[r][s]
         /\ last[r][s] <= readySeq[s]
         /\ last[r][s] # readySeq[s] =>
              /\ pEpoch = active /\ published[s] # 0
              /\ readyExpert[s] >= Got(r) /\ readyExpert[s] < pExpert
              /\ SlotOf(readyExpert[s]) = s

\* Every expert that is published and not yet acknowledged by rank r is still
\* in its slot, and the acknowledgement of the slot is outstanding.
Window(r, x) ==
    Got(r) <= x /\ x < Sent =>
        /\ host[SlotOf(x)] = Weights(active, x)
        /\ readyEpoch[SlotOf(x)] = active
        /\ readyExpert[SlotOf(x)] = x
        /\ published[SlotOf(x)] # 0
        /\ last[r][SlotOf(x)] < readySeq[SlotOf(x)]

WindowInv == \A r \in Ranks, x \in Nat : Window(r, x)

\* The slot that is being filled is awaited by nobody.
FillingInv ==
    /\ Filling => \A r \in Ranks : last[r][SlotOf(pExpert)] = readySeq[SlotOf(pExpert)]
    /\ ppc \in {"meta", "publish"} => host[SlotOf(pExpert)] = Weights(active, pExpert)
    /\ ppc = "publish" => /\ readyEpoch[SlotOf(pExpert)] = active
                          /\ readyExpert[SlotOf(pExpert)] = pExpert

\* What a consumer has copied, and what it is copying.
CopyOf(r) ==
    /\ Got(r) <= Sent
    /\ cpc[r] = "copy" \/ dma[r] = "busy" =>
         pEpoch = active /\ cEpoch[r] > consumerDone[r] /\ cExpert[r] < pExpert
    /\ cpc[r] = "copy" => cSeen[r] = readySeq[SlotOf(cExpert[r])]
    /\ \A x \in Experts : x < cExpert[r] => gpu[r][x] = Weights(cEpoch[r], x)
    /\ cpc[r] = "copy" /\ dma[r] = "none" =>
         gpu[r][cExpert[r]] = Weights(cEpoch[r], cExpert[r])

CopyInv == \A r \in Ranks : CopyOf(r)

IInv ==
    /\ ControlTypeOK /\ BufferTypeOK /\ MainTypeOK /\ ProducerTypeOK /\ ConsumerTypeOK
    /\ EpochOrder /\ MainInv /\ RankZeroInv /\ CountInv /\ ConsumerInv
    /\ ProducerInv /\ SequenceInv /\ WindowInv /\ FillingInv /\ CopyInv

-----------------------------------------------------------------------------
(* Proofs *)

\* The slot of an expert is one of the host slots.
LEMMA SlotType == \A x \in Nat : SlotOf(x) \in Slots
BY SizeAssumption DEF SlotOf, Slots

\* The group has a rank 0.
LEMMA ZeroRank == 0 \in Ranks
BY TPAssumption DEF Ranks

\* Whoever poisons the group leaves a well-formed error behind.
LEMMA ClaimType ==
    ASSUME IInv, NEW r \in Ranks, NEW code \in Codes, Claim(code, r)
    PROVE  poison' \in Poisons
BY DEF IInv, ControlTypeOK, Claim, Poisons

\* A consumer that has not finished the layer it has begun is in the active
\* layer, which its rank has joined.
LEMMA InLayer ==
    ASSUME IInv, NEW r \in Ranks, cEpoch[r] > consumerDone[r]
    PROVE  cEpoch[r] = active /\ joinEpoch[r] = active
<1>1. RankOrder(r)
  BY DEF IInv, EpochOrder
<1>2. /\ cEpoch[r] \in Nat /\ consumerDone[r] \in Nat /\ joinEpoch[r] \in Nat
      /\ waitReturned[r] \in Nat /\ active \in Nat
  BY DEF IInv, ControlTypeOK, ConsumerTypeOK
<1> QED
  BY <1>1, <1>2 DEF RankOrder

\* The copies in flight read the weights they are for: what is being copied
\* is published and not acknowledged.
LEMMA CopyIntactLemma == IInv => CopyIntact
<1> SUFFICES ASSUME IInv, NEW r \in Ranks, dma[r] = "busy"
             PROVE  host[SlotOf(cExpert[r])] = Weights(cEpoch[r], cExpert[r])
  BY DEF CopyIntact
<1>1. pEpoch = active /\ cEpoch[r] > consumerDone[r] /\ cExpert[r] < pExpert
  BY DEF IInv, CopyInv, CopyOf
<1>2. cEpoch[r] = active
  BY <1>1, InLayer
<1>3. Got(r) = cExpert[r] /\ Sent = pExpert /\ cExpert[r] \in Nat
  BY <1>1, <1>2 DEF Got, Sent, IInv, ConsumerTypeOK
<1> QED
  BY <1>1, <1>2, <1>3 DEF IInv, WindowInv, Window

\* A new transport starts with nothing outstanding: no slot has been published before
\* every rank has joined once.
LEMMA ConstructInv ==
    ASSUME IInv, NEW r \in Ranks, Construct(r)
    PROVE  IInv'
<1> USE DEF control, main, producer, consumer, process
<1>1. ControlTypeOK' /\ BufferTypeOK' /\ ProducerTypeOK'
  BY DEF IInv, ControlTypeOK, BufferTypeOK, ProducerTypeOK, Construct
<1>2. EpochOrder' /\ ProducerInv'
  BY DEF IInv, EpochOrder, ProducerInv, RankOrder, Construct
<1>3. MainTypeOK'
  BY DEF IInv, MainTypeOK, MainStates, Construct
<1>4. ConsumerTypeOK'
  BY DEF IInv, ConsumerTypeOK, ControlTypeOK, ConsumerStates, Construct
<1>5. MainInv'
  BY DEF IInv, MainInv, MainTypeOK, ConsumerTypeOK, EpochOrder, MainOf, MainStates,
     ConsumerStates, RankOrder, Construct
<1>6. RankZeroInv'
  BY ZeroRank DEF IInv, RankZeroInv, MainTypeOK, ControlTypeOK, AllReturned, MainStates,
     Construct
<1>7. CountInv'
  BY ZeroRank DEF IInv, CountInv, MainTypeOK, ConsumerTypeOK, ControlTypeOK, MainInv,
     EpochOrder, CountOf, MainStates, ConsumerStates, MainOf, RankOrder, Construct
<1>8. ConsumerInv'
  BY DEF IInv, ConsumerInv, ConsumerTypeOK, MainTypeOK, MainInv, ConsumerStates, MainStates,
     MainOf, Construct
<1>9. SequenceInv'
  BY DEF IInv, SequenceInv, ConsumerTypeOK, ControlTypeOK, MainInv, Got, ConsumerStates,
     MainOf, Construct
<1>10. WindowInv'
  BY SlotType DEF IInv, WindowInv, ConsumerTypeOK, ControlTypeOK, MainInv, Window, Got, Sent,
     ConsumerStates, MainOf, Construct
<1>11. FillingInv'
  BY SlotType DEF IInv, FillingInv, ConsumerTypeOK, ControlTypeOK, ProducerTypeOK, MainInv,
     Filling, ConsumerStates, ProducerStates, MainOf, Construct
<1>12. CopyInv'
  BY DEF IInv, CopyInv, ConsumerTypeOK, MainInv, CopyOf, Got, Sent, ConsumerStates, MainOf,
     Construct
<1> QED
  BY <1>1, <1>2, <1>3, <1>4, <1>5, <1>6, <1>7, <1>8, <1>9, <1>10, <1>11, <1>12 DEF IInv

\* The caller enters join.
LEMMA JoinCallInv ==
    ASSUME IInv, NEW r \in Ranks, NEW e \in Epochs, NEW c \in Counts,
           MainStep(r, "idle", "join"), r = 0 => e > active, r # 0 => e # mEpoch[r],
           mEpoch' = [mEpoch EXCEPT ![r] = e], mCount' = [mCount EXCEPT ![r] = c],
           UNCHANGED <<control, poison, host, gpu, producer, consumer, process>>
    PROVE  IInv'
<1> USE DEF control, main, producer, consumer, process
<1>1. ControlTypeOK' /\ BufferTypeOK' /\ ProducerTypeOK' /\ ConsumerTypeOK'
  BY DEF IInv, ControlTypeOK, BufferTypeOK, ProducerTypeOK, ConsumerTypeOK, MainStep
<1>2. EpochOrder' /\ ConsumerInv' /\ ProducerInv'
  BY DEF IInv, EpochOrder, ConsumerInv, ProducerInv, RankOrder, MainStep
<1>3. SequenceInv' /\ WindowInv' /\ FillingInv'
  BY DEF IInv, SequenceInv, WindowInv, FillingInv, Got, Window, Sent, Filling, MainStep
<1>4. CopyInv'
  BY DEF IInv, CopyInv, CopyOf, Got, Sent, MainStep
<1>5. MainTypeOK'
  BY CountsAssumption, EpochAssumption, SizeAssumption DEF IInv, MainTypeOK, MainStates,
     Epochs, MainStep
<1>6. MainInv'
  BY EpochAssumption DEF IInv, MainInv, MainTypeOK, ControlTypeOK, ConsumerTypeOK, EpochOrder,
     MainOf, MainStates, ConsumerStates, RankOrder, Epochs, MainStep
<1>7. RankZeroInv'
  BY ZeroRank DEF IInv, RankZeroInv, MainTypeOK, ControlTypeOK, AllReturned, MainStates,
     MainStep
<1>8. CountInv'
  BY ZeroRank, CountsAssumption, SizeAssumption DEF IInv, CountInv, MainTypeOK, ControlTypeOK,
     CountOf, MainStates, MainStep
<1> QED
  BY <1>1, <1>2, <1>3, <1>4, <1>5, <1>6, <1>7, <1>8 DEF IInv

\* join has waited: for rank 0 nobody is left in the previous layer.
LEMMA JoinWaitedInv ==
    ASSUME IInv, NEW r \in Ranks, JoinWaited(r)
    PROVE  IInv'
<1> USE DEF control, main, producer, consumer, process
<1>1. ControlTypeOK' /\ BufferTypeOK' /\ ProducerTypeOK' /\ ConsumerTypeOK'
  BY DEF IInv, ControlTypeOK, BufferTypeOK, ProducerTypeOK, ConsumerTypeOK, JoinWaited,
     JoinReady, MainStep
<1>2. EpochOrder' /\ ConsumerInv' /\ ProducerInv'
  BY DEF IInv, EpochOrder, ConsumerInv, ProducerInv, RankOrder, JoinWaited, JoinReady, MainStep
<1>3. SequenceInv' /\ WindowInv' /\ FillingInv'
  BY DEF IInv, SequenceInv, WindowInv, FillingInv, Got, Window, Sent, Filling, JoinWaited,
     JoinReady, MainStep
<1>4. CopyInv'
  BY DEF IInv, CopyInv, CopyOf, Got, Sent, JoinWaited, JoinReady, MainStep
<1>5. MainTypeOK'
  BY DEF IInv, MainTypeOK, MainStates, JoinWaited, JoinReady, MainStep
<1>6. MainInv'
  BY DEF IInv, MainInv, MainTypeOK, MainOf, MainStates, JoinWaited, JoinReady, MainStep
<1>7. RankZeroInv'
  BY ZeroRank DEF IInv, RankZeroInv, MainTypeOK, ControlTypeOK, AllReturned, MainStates,
     JoinWaited, JoinReady, MainStep
<1>8. CountInv'
  BY ZeroRank DEF IInv, CountInv, MainTypeOK, CountOf, MainStates, JoinWaited, JoinReady,
     MainStep
<1> QED
  BY <1>1, <1>2, <1>3, <1>4, <1>5, <1>6, <1>7, <1>8 DEF IInv

\* The description of the next layer is stored while nobody works on the previous one.
LEMMA PublishCountInv ==
    ASSUME IInv, PublishCount
    PROVE  IInv'
<1> USE DEF control, main, producer, consumer, process
<1>1. BufferTypeOK' /\ ProducerTypeOK' /\ ConsumerTypeOK'
  BY DEF IInv, BufferTypeOK, ProducerTypeOK, ConsumerTypeOK, PublishCount, MainStep
<1>2. EpochOrder' /\ ConsumerInv' /\ SequenceInv'
  BY DEF IInv, EpochOrder, ConsumerInv, SequenceInv, RankOrder, Got, PublishCount, MainStep
<1>3. WindowInv' /\ FillingInv' /\ CopyInv'
  BY DEF IInv, WindowInv, FillingInv, CopyInv, Window, Got, Sent, Filling, CopyOf,
     PublishCount, MainStep
<1>4. ControlTypeOK'
  BY ZeroRank, SizeAssumption DEF IInv, ControlTypeOK, MainTypeOK, MainStates, PublishCount,
     MainStep
<1>5. MainTypeOK'
  BY ZeroRank DEF IInv, MainTypeOK, MainStates, PublishCount, MainStep
<1>6. MainInv'
  BY ZeroRank DEF IInv, MainInv, MainTypeOK, MainOf, MainStates, PublishCount, MainStep
<1>7. RankZeroInv'
  BY ZeroRank DEF IInv, RankZeroInv, MainTypeOK, AllReturned, MainStates, PublishCount, MainStep
<1>8. CountInv'
  BY ZeroRank, SizeAssumption DEF IInv, CountInv, MainTypeOK, ControlTypeOK, ConsumerTypeOK,
     RankZeroInv, EpochOrder, MainInv, CountOf, MainStates, ConsumerStates, AllReturned,
     RankOrder, MainOf, PublishCount, MainStep
<1>9. ProducerInv'
  BY ZeroRank DEF IInv, ProducerInv, ProducerTypeOK, ControlTypeOK, RankZeroInv, EpochOrder,
     ProducerStates, AllReturned, RankOrder, PublishCount, MainStep
<1> QED
  BY <1>1, <1>2, <1>3, <1>4, <1>5, <1>6, <1>7, <1>8, <1>9 DEF IInv

\* The next layer becomes active: nobody is behind in any slot.
LEMMA PublishEpochInv ==
    ASSUME IInv, PublishEpoch
    PROVE  IInv'
<1> USE DEF control, main, producer, consumer, process
<1>1. BufferTypeOK' /\ ProducerTypeOK' /\ ConsumerTypeOK'
  BY DEF IInv, BufferTypeOK, ProducerTypeOK, ConsumerTypeOK, PublishEpoch, MainStep
<1>2. ConsumerInv'
  BY DEF IInv, ConsumerInv, PublishEpoch, MainStep
<1>3. ControlTypeOK'
  BY ZeroRank DEF IInv, ControlTypeOK, MainTypeOK, MainStates, PublishEpoch, MainStep
<1>4. MainTypeOK'
  BY ZeroRank DEF IInv, MainTypeOK, MainStates, PublishEpoch, MainStep
<1>5. EpochOrder'
  <2>1. /\ mEpoch[0] > active /\ AllReturned /\ active' = mEpoch[0]
        /\ mEpoch[0] \in Nat /\ active \in Nat
    BY ZeroRank DEF IInv, RankZeroInv, MainTypeOK, ControlTypeOK, PublishEpoch, MainStep
  <2>2. producerDone' <= pEpoch' /\ pEpoch' <= active'
    BY <2>1 DEF IInv, EpochOrder, ControlTypeOK, ProducerTypeOK, PublishEpoch
  <2>3. ASSUME NEW r \in Ranks PROVE RankOrder(r)'
    <3>1. RankOrder(r)
      BY DEF IInv, EpochOrder
    <3>2. /\ waitReturned[r] \in Nat /\ joinEpoch[r] \in Nat
          /\ consumerDone[r] \in Nat /\ cEpoch[r] \in Nat
      BY DEF IInv, ControlTypeOK, ConsumerTypeOK
    <3>3. waitReturned[r] = joinEpoch[r] /\ joinEpoch[r] <= active
      BY <2>1, <3>1, <3>2 DEF RankOrder, AllReturned
    <3> QED
      BY <2>1, <3>1, <3>2, <3>3 DEF RankOrder, PublishEpoch
  <2> QED
    BY <2>2, <2>3 DEF EpochOrder
<1>6. MainInv'
  <2> SUFFICES ASSUME NEW r \in Ranks PROVE MainOf(r)'
    BY DEF MainInv
  <2>1. MainOf(r) /\ RankOrder(r) /\ AllReturned
    BY DEF IInv, MainInv, EpochOrder, RankZeroInv, PublishEpoch, MainStep
  <2>2. /\ waitReturned[r] \in Nat /\ joinEpoch[r] \in Nat /\ mEpoch[r] \in Nat
        /\ consumerDone[r] \in Nat /\ cEpoch[r] \in Nat /\ active \in Nat
    BY DEF IInv, ControlTypeOK, MainTypeOK, ConsumerTypeOK
  <2>3. mpc[r] \notin {"check", "joined"}
    BY <2>1, <2>2 DEF MainOf, RankOrder, AllReturned
  <2>4. mpc' = [mpc EXCEPT ![0] = "joined"] /\ mpc[0] = "epoch" /\ active' = mEpoch[0]
    BY DEF PublishEpoch, MainStep
  <2> QED
    BY <2>1, <2>3, <2>4, ZeroRank DEF MainOf, IInv, MainTypeOK, PublishEpoch
<1>7. RankZeroInv'
  BY ZeroRank DEF IInv, RankZeroInv, MainTypeOK, ControlTypeOK, MainInv, AllReturned,
     MainStates, MainOf, PublishEpoch, MainStep
<1>8. CountInv'
  BY ZeroRank, SizeAssumption DEF IInv, CountInv, MainTypeOK, ControlTypeOK, ConsumerTypeOK,
     RankZeroInv, EpochOrder, MainInv, CountOf, MainStates, ConsumerStates, AllReturned,
     RankOrder, MainOf, PublishEpoch, MainStep
<1>9. ProducerInv'
  BY ZeroRank DEF IInv, ProducerInv, ProducerTypeOK, ControlTypeOK, ConsumerTypeOK,
     MainTypeOK, RankZeroInv, EpochOrder, ProducerStates, ConsumerStates, MainStates,
     AllReturned, RankOrder, PublishEpoch, MainStep
<1>10. SequenceInv'
  BY ZeroRank DEF IInv, SequenceInv, ProducerTypeOK, ControlTypeOK, ConsumerTypeOK,
     MainTypeOK, RankZeroInv, EpochOrder, ProducerInv, Got, ProducerStates, ConsumerStates,
     MainStates, AllReturned, RankOrder, PublishEpoch, MainStep
<1>11. WindowInv'
  BY ZeroRank DEF IInv, WindowInv, ProducerTypeOK, ControlTypeOK, ConsumerTypeOK, MainTypeOK,
     RankZeroInv, EpochOrder, Window, Got, Sent, ProducerStates, ConsumerStates, MainStates,
     AllReturned, RankOrder, PublishEpoch, MainStep
<1>12. FillingInv'
  BY ZeroRank DEF IInv, FillingInv, ProducerTypeOK, ControlTypeOK, MainTypeOK, RankZeroInv,
     EpochOrder, ProducerInv, Filling, ProducerStates, MainStates, AllReturned, RankOrder,
     PublishEpoch, MainStep
<1>13. CopyInv'
  BY ZeroRank DEF IInv, CopyInv, ProducerTypeOK, ControlTypeOK, ConsumerTypeOK, MainTypeOK,
     RankZeroInv, EpochOrder, CopyOf, Got, Sent, ProducerStates, ConsumerStates, MainStates,
     AllReturned, RankOrder, PublishEpoch, MainStep
<1> QED
  BY <1>1, <1>2, <1>3, <1>4, <1>5, <1>6, <1>7, <1>8, <1>9, <1>10, <1>11, <1>12, <1>13 DEF IInv

\* Another rank agrees with rank 0 on the layer.
LEMMA CheckLayerInv ==
    ASSUME IInv, NEW r \in Ranks, MainStep(r, "check", "joined"), expertCount = mCount[r],
           UNCHANGED <<control, poison, host, gpu, mEpoch, mCount, producer, consumer, process>>
    PROVE  IInv'
<1> USE DEF control, main, producer, consumer, process
<1>1. ControlTypeOK' /\ BufferTypeOK' /\ ProducerTypeOK' /\ ConsumerTypeOK'
  BY DEF IInv, ControlTypeOK, BufferTypeOK, ProducerTypeOK, ConsumerTypeOK, MainStep
<1>2. EpochOrder' /\ ConsumerInv' /\ ProducerInv'
  BY DEF IInv, EpochOrder, ConsumerInv, ProducerInv, RankOrder, MainStep
<1>3. SequenceInv' /\ WindowInv' /\ FillingInv'
  BY DEF IInv, SequenceInv, WindowInv, FillingInv, Got, Window, Sent, Filling, MainStep
<1>4. CopyInv'
  BY DEF IInv, CopyInv, CopyOf, Got, Sent, MainStep
<1>5. MainTypeOK'
  BY DEF IInv, MainTypeOK, MainStates, MainStep
<1>6. MainInv'
  BY DEF IInv, MainInv, MainTypeOK, ControlTypeOK, MainOf, MainStates, MainStep
<1>7. RankZeroInv'
  BY ZeroRank DEF IInv, RankZeroInv, MainTypeOK, AllReturned, MainStates, MainStep
<1>8. CountInv'
  BY ZeroRank DEF IInv, CountInv, MainTypeOK, CountOf, MainStates, MainStep
<1> QED
  BY <1>1, <1>2, <1>3, <1>4, <1>5, <1>6, <1>7, <1>8 DEF IInv

\* The rank is announced as a member of the layer.
LEMMA StoreJoinInv ==
    ASSUME IInv, NEW r \in Ranks, StoreJoin(r)
    PROVE  IInv'
<1> USE DEF control, main, producer, consumer, process
<1>1. BufferTypeOK' /\ ProducerTypeOK' /\ ConsumerTypeOK'
  BY DEF IInv, BufferTypeOK, ProducerTypeOK, ConsumerTypeOK, StoreJoin, MainStep
<1>2. ConsumerInv' /\ SequenceInv' /\ WindowInv'
  BY DEF IInv, ConsumerInv, SequenceInv, WindowInv, Got, Window, Sent, StoreJoin, MainStep
<1>3. FillingInv' /\ CopyInv'
  BY DEF IInv, FillingInv, CopyInv, Filling, CopyOf, Got, Sent, StoreJoin, MainStep
<1>4. ControlTypeOK'
  BY DEF IInv, ControlTypeOK, MainTypeOK, MainStates, StoreJoin, MainStep
<1>5. MainTypeOK'
  BY DEF IInv, MainTypeOK, MainStates, StoreJoin, MainStep
<1>6. EpochOrder'
  <2> SUFFICES ASSUME NEW q \in Ranks PROVE RankOrder(q)'
    BY DEF IInv, EpochOrder, StoreJoin
  <2>1. RankOrder(q) /\ MainOf(q)
    BY DEF IInv, EpochOrder, MainInv
  <2>2. /\ cEpoch[q] \in Nat /\ consumerDone[q] \in Nat /\ joinEpoch[q] \in Nat
        /\ waitReturned[q] \in Nat /\ active \in Nat /\ mEpoch[q] \in Nat
    BY DEF IInv, ControlTypeOK, ConsumerTypeOK, MainTypeOK
  <2>3. joinEpoch'[q] = IF q = r THEN mEpoch[r] ELSE joinEpoch[q]
    BY DEF IInv, ControlTypeOK, StoreJoin
  <2>4. q = r => mEpoch[q] = active /\ joinEpoch[q] < active
    BY <2>1, <2>2 DEF MainOf, RankOrder, StoreJoin, MainStep
  <2> QED
    BY <2>1, <2>2, <2>3, <2>4 DEF RankOrder, StoreJoin
<1>7. MainInv'
  BY DEF IInv, MainInv, MainTypeOK, ControlTypeOK, ConsumerTypeOK, MainOf, MainStates,
     ConsumerStates, StoreJoin, MainStep
<1>8. RankZeroInv'
  BY ZeroRank DEF IInv, RankZeroInv, MainTypeOK, ControlTypeOK, MainInv, AllReturned,
     MainStates, MainOf, StoreJoin, MainStep
<1>9. CountInv'
  <2>1. mpc'[0] \in {"join", "count", "epoch"} => mpc'[0] = mpc[0]
    BY ZeroRank DEF IInv, MainTypeOK, StoreJoin, MainStep
  <2> SUFFICES ASSUME NEW q \in Ranks PROVE CountOf(q)'
    BY <2>1 DEF IInv, CountInv, StoreJoin
  <2>2. CountOf(q) /\ RankOrder(q) /\ MainOf(q)
    BY DEF IInv, CountInv, EpochOrder, MainInv
  <2>3. /\ cEpoch[q] \in Nat /\ joinEpoch[q] \in Nat /\ active \in Nat /\ mEpoch[q] \in Nat
    BY DEF IInv, ControlTypeOK, ConsumerTypeOK, MainTypeOK
  <2>4. mpc'[q] = IF q = r THEN "idle" ELSE mpc[q]
    BY DEF IInv, MainTypeOK, StoreJoin, MainStep
  <2>5. q = r => mpc[q] = "joined" /\ cEpoch[q] # mEpoch[q]
    BY <2>2, <2>3 DEF MainOf, RankOrder, StoreJoin, MainStep
  <2> QED
    BY <2>2, <2>4, <2>5 DEF CountOf, StoreJoin
<1>10. ProducerInv'
  BY DEF IInv, ProducerInv, ProducerTypeOK, ControlTypeOK, MainTypeOK, MainInv,
     ProducerStates, MainStates, MainOf, StoreJoin, MainStep
<1> QED
  BY <1>1, <1>2, <1>3, <1>4, <1>5, <1>6, <1>7, <1>8, <1>9, <1>10 DEF IInv

\* The caller enters wait.
LEMMA WaitCallInv ==
    ASSUME IInv, NEW r \in Ranks, NEW e \in Epochs, MainStep(r, "idle", "wait"),
           UNCHANGED <<control, poison, host, gpu, mEpoch, mCount, producer, consumer, process>>
    PROVE  IInv'
<1> USE DEF control, main, producer, consumer, process
<1>1. ControlTypeOK' /\ BufferTypeOK' /\ ProducerTypeOK' /\ ConsumerTypeOK'
  BY DEF IInv, ControlTypeOK, BufferTypeOK, ProducerTypeOK, ConsumerTypeOK, MainStep
<1>2. EpochOrder' /\ ConsumerInv' /\ ProducerInv'
  BY DEF IInv, EpochOrder, ConsumerInv, ProducerInv, RankOrder, MainStep
<1>3. SequenceInv' /\ WindowInv' /\ FillingInv'
  BY DEF IInv, SequenceInv, WindowInv, FillingInv, Got, Window, Sent, Filling, MainStep
<1>4. CopyInv'
  BY DEF IInv, CopyInv, CopyOf, Got, Sent, MainStep
<1>5. MainTypeOK'
  BY DEF IInv, MainTypeOK, MainStates, MainStep
<1>6. MainInv'
  BY DEF IInv, MainInv, MainTypeOK, MainOf, MainStates, MainStep
<1>7. RankZeroInv'
  BY ZeroRank DEF IInv, RankZeroInv, MainTypeOK, AllReturned, MainStates, MainStep
<1>8. CountInv'
  BY ZeroRank DEF IInv, CountInv, MainTypeOK, CountOf, MainStates, MainStep
<1> QED
  BY <1>1, <1>2, <1>3, <1>4, <1>5, <1>6, <1>7, <1>8 DEF IInv

\* wait has seen its consumer and the producer done.
LEMMA WaitDoneInv ==
    ASSUME IInv, NEW r \in Ranks, WaitDone(r)
    PROVE  IInv'
<1> USE DEF control, main, producer, consumer, process
<1>1. ControlTypeOK' /\ BufferTypeOK' /\ ProducerTypeOK' /\ ConsumerTypeOK'
  BY DEF IInv, ControlTypeOK, BufferTypeOK, ProducerTypeOK, ConsumerTypeOK, WaitDone,
     LayerDone, MainStep
<1>2. EpochOrder' /\ ConsumerInv' /\ ProducerInv'
  BY DEF IInv, EpochOrder, ConsumerInv, ProducerInv, RankOrder, WaitDone, LayerDone, MainStep
<1>3. SequenceInv' /\ WindowInv' /\ FillingInv'
  BY DEF IInv, SequenceInv, WindowInv, FillingInv, Got, Window, Sent, Filling, WaitDone,
     LayerDone, MainStep
<1>4. CopyInv'
  BY DEF IInv, CopyInv, CopyOf, Got, Sent, WaitDone, LayerDone, MainStep
<1>5. MainTypeOK'
  BY DEF IInv, MainTypeOK, MainStates, WaitDone, LayerDone, MainStep
<1>6. MainInv'
  <2> SUFFICES ASSUME NEW q \in Ranks PROVE MainOf(q)'
    BY DEF MainInv
  <2>1. MainOf(q) /\ RankOrder(q)
    BY DEF IInv, MainInv, EpochOrder
  <2>2. /\ joinEpoch[q] \in Nat /\ consumerDone[q] \in Nat /\ cEpoch[q] \in Nat
        /\ producerDone \in Nat
    BY DEF IInv, ControlTypeOK, ConsumerTypeOK
  <2>3. q = r => consumerDone[q] = joinEpoch[q] /\ producerDone >= joinEpoch[q]
    BY <2>1, <2>2 DEF RankOrder, WaitDone, LayerDone
  <2> QED
    BY <2>1, <2>3 DEF MainOf, IInv, MainTypeOK, WaitDone, MainStep
<1>7. RankZeroInv'
  BY ZeroRank DEF IInv, RankZeroInv, MainTypeOK, AllReturned, MainStates, WaitDone, LayerDone,
     MainStep
<1>8. CountInv'
  BY ZeroRank DEF IInv, CountInv, MainTypeOK, CountOf, MainStates, WaitDone, LayerDone, MainStep
<1> QED
  BY <1>1, <1>2, <1>3, <1>4, <1>5, <1>6, <1>7, <1>8 DEF IInv

\* wait returns and lets rank 0 go on.
LEMMA WaitReturnInv ==
    ASSUME IInv, NEW r \in Ranks, WaitReturn(r)
    PROVE  IInv'
<1> USE DEF control, main, producer, consumer, process
<1>1. BufferTypeOK' /\ ProducerTypeOK' /\ ConsumerTypeOK'
  BY DEF IInv, BufferTypeOK, ProducerTypeOK, ConsumerTypeOK, WaitReturn, MainStep
<1>2. ConsumerInv' /\ ProducerInv' /\ SequenceInv'
  BY DEF IInv, ConsumerInv, ProducerInv, SequenceInv, Got, WaitReturn, MainStep
<1>3. WindowInv' /\ FillingInv' /\ CopyInv'
  BY DEF IInv, WindowInv, FillingInv, CopyInv, Window, Got, Sent, Filling, CopyOf, WaitReturn,
     MainStep
<1>4. ControlTypeOK'
  BY DEF IInv, ControlTypeOK, WaitReturn, MainStep
<1>5. MainTypeOK'
  BY DEF IInv, MainTypeOK, MainStates, WaitReturn, MainStep
<1>6. EpochOrder'
  BY DEF IInv, EpochOrder, ControlTypeOK, ProducerTypeOK, ConsumerTypeOK, MainTypeOK, MainInv,
     RankOrder, ProducerStates, ConsumerStates, MainStates, MainOf, WaitReturn, MainStep
<1>7. MainInv'
  BY DEF IInv, MainInv, MainTypeOK, MainOf, MainStates, WaitReturn, MainStep
<1>8. RankZeroInv'
  BY ZeroRank DEF IInv, RankZeroInv, MainTypeOK, ControlTypeOK, EpochOrder, MainInv,
     AllReturned, MainStates, RankOrder, MainOf, WaitReturn, MainStep
<1>9. CountInv'
  BY ZeroRank DEF IInv, CountInv, MainTypeOK, ControlTypeOK, MainInv, EpochOrder,
     ConsumerTypeOK, CountOf, MainStates, MainOf, RankOrder, ConsumerStates, WaitReturn,
     MainStep
<1> QED
  BY <1>1, <1>2, <1>3, <1>4, <1>5, <1>6, <1>7, <1>8, <1>9 DEF IInv

\* The producer starts the layer with no slot used.
LEMMA ProducerCallInv ==
    ASSUME IInv, NEW e \in Epochs, NEW c \in Counts, ProducerStep("idle", "gather"),
           e > pEpoch, active = e, expertCount = c, joinEpoch[0] = e,
           pEpoch' = e, pCount' = c, pExpert' = 0, published' = [s \in Slots |-> 0],
           UNCHANGED <<control, poison, host, gpu, main, consumer, process>>
    PROVE  IInv'
<1> USE DEF control, main, producer, consumer, process
<1>1. ControlTypeOK' /\ BufferTypeOK' /\ MainTypeOK' /\ ConsumerTypeOK'
  BY DEF IInv, ControlTypeOK, BufferTypeOK, MainTypeOK, ConsumerTypeOK, ProducerStep
<1>2. MainInv' /\ RankZeroInv' /\ CountInv'
  BY DEF IInv, MainInv, RankZeroInv, CountInv, MainOf, AllReturned, CountOf, ProducerStep
<1>3. ConsumerInv'
  BY DEF IInv, ConsumerInv, ProducerStep
<1>4. ProducerTypeOK'
  BY CountsAssumption, EpochAssumption, SizeAssumption DEF IInv, ProducerTypeOK,
     ProducerStates, Epochs, ProducerStep
<1>5. EpochOrder'
  BY DEF IInv, EpochOrder, ControlTypeOK, ProducerTypeOK, RankOrder, ProducerStates,
     ProducerStep
<1>6. ProducerInv'
  BY CountsAssumption, SizeAssumption DEF IInv, ProducerInv, ControlTypeOK, ProducerTypeOK,
     ConsumerTypeOK, EpochOrder, ProducerStates, ConsumerStates, RankOrder, ProducerStep
<1>7. SequenceInv'
  BY DEF IInv, SequenceInv, ControlTypeOK, ProducerTypeOK, ConsumerTypeOK, Got,
     ProducerStates, ConsumerStates, ProducerStep
<1>8. WindowInv'
  BY DEF IInv, WindowInv, ControlTypeOK, ProducerTypeOK, ConsumerTypeOK, Window, Got, Sent,
     ProducerStates, ConsumerStates, ProducerStep
<1>9. FillingInv'
  BY DEF IInv, FillingInv, ProducerTypeOK, Filling, ProducerStates, ProducerStep
<1>10. CopyInv'
  BY DEF IInv, CopyInv, ControlTypeOK, ProducerTypeOK, ConsumerTypeOK, EpochOrder, CopyOf,
     Got, Sent, ProducerStates, ConsumerStates, RankOrder, ProducerStep
<1> QED
  BY <1>1, <1>2, <1>3, <1>4, <1>5, <1>6, <1>7, <1>8, <1>9, <1>10 DEF IInv

\* Every rank has joined.
LEMMA GatheredInv ==
    ASSUME IInv, Gathered
    PROVE  IInv'
<1> USE DEF control, main, producer, consumer, process
<1>1. ControlTypeOK' /\ BufferTypeOK' /\ MainTypeOK' /\ ConsumerTypeOK'
  BY DEF IInv, ControlTypeOK, BufferTypeOK, MainTypeOK, ConsumerTypeOK, Gathered, AllJoined,
     ProducerStep
<1>2. EpochOrder' /\ MainInv' /\ RankZeroInv'
  BY DEF IInv, EpochOrder, MainInv, RankZeroInv, RankOrder, MainOf, AllReturned, Gathered,
     AllJoined, ProducerStep
<1>3. CountInv' /\ ConsumerInv' /\ WindowInv'
  BY DEF IInv, CountInv, ConsumerInv, WindowInv, CountOf, Window, Got, Sent, Gathered,
     AllJoined, ProducerStep
<1>4. CopyInv'
  BY DEF IInv, CopyInv, CopyOf, Got, Sent, Gathered, AllJoined, ProducerStep
<1>5. ProducerTypeOK'
  BY DEF IInv, ProducerTypeOK, ProducerStates, Gathered, AllJoined, ProducerStep
<1>6. ProducerInv'
  BY DEF IInv, ProducerInv, ControlTypeOK, ProducerTypeOK, CountInv, ProducerStates, CountOf,
     Gathered, AllJoined, ProducerStep
<1>7. SequenceInv'
  BY DEF IInv, SequenceInv, Got, Gathered, AllJoined, ProducerStep
<1>8. FillingInv'
  BY DEF IInv, FillingInv, Filling, Gathered, AllJoined, ProducerStep
<1> QED
  BY <1>1, <1>2, <1>3, <1>4, <1>5, <1>6, <1>7, <1>8 DEF IInv

\* The slot about to be written holds nothing that some rank still has to copy.
LEMMA BeginWriteInv ==
    ASSUME IInv, BeginWrite
    PROVE  IInv'
<1> USE DEF control, main, producer, consumer, process
<1>1. ControlTypeOK' /\ MainTypeOK' /\ ConsumerTypeOK'
  BY DEF IInv, ControlTypeOK, MainTypeOK, ConsumerTypeOK, BeginWrite, Acked, ProducerStep
<1>2. EpochOrder' /\ MainInv' /\ RankZeroInv'
  BY DEF IInv, EpochOrder, MainInv, RankZeroInv, RankOrder, MainOf, AllReturned, BeginWrite,
     Acked, ProducerStep
<1>3. CountInv' /\ ConsumerInv' /\ CopyInv'
  BY DEF IInv, CountInv, ConsumerInv, CopyInv, CountOf, CopyOf, Got, Sent, BeginWrite, Acked,
     ProducerStep
<1>4. BufferTypeOK'
  BY SlotType DEF IInv, BufferTypeOK, ProducerTypeOK, ProducerStates, Garbage, Weights,
     BeginWrite, Acked, ProducerStep
<1>5. ProducerTypeOK'
  BY DEF IInv, ProducerTypeOK, ProducerStates, BeginWrite, Acked, ProducerStep
<1>6. ProducerInv'
  BY DEF IInv, ProducerInv, BeginWrite, Acked, ProducerStep
<1>7. SequenceInv'
  BY DEF IInv, SequenceInv, Got, BeginWrite, Acked, ProducerStep
<1>8. WindowInv'
  <2> SUFFICES ASSUME NEW r \in Ranks, NEW x \in Nat, Got(r) <= x, x < Sent
               PROVE  Window(r, x)'
    BY DEF WindowInv, Window, Got, Sent, BeginWrite
  <2>1. Window(r, x) /\ SlotOf(x) \in Slots /\ SlotOf(pExpert) \in Slots
    BY SlotType DEF IInv, WindowInv, ProducerTypeOK
  <2>2. SlotOf(x) # SlotOf(pExpert)
    BY <2>1 DEF IInv, Window, SequenceInv, BeginWrite, Acked, ControlTypeOK, ConsumerTypeOK,
                ProducerTypeOK
  <2> QED
    BY <2>1, <2>2 DEF Window, Got, Sent, IInv, BufferTypeOK, BeginWrite
<1>9. FillingInv'
  <2>1. SlotOf(pExpert) \in Slots
    BY SlotType DEF IInv, ProducerTypeOK
  <2>2. ASSUME NEW r \in Ranks
        PROVE  last[r][SlotOf(pExpert)] = readySeq[SlotOf(pExpert)]
    <3> DEFINE s == SlotOf(pExpert)
    <3>1. /\ ack[r][s] = last[r][s] /\ last[r][s] <= readySeq[s]
          /\ last[r][s] # readySeq[s] => published[s] # 0
          /\ published[s] \in {0, readySeq[s]}
      BY <2>1 DEF IInv, SequenceInv
    <3>2. published[s] = 0 \/ ack[r][s] >= published[s]
      BY DEF BeginWrite, Acked
    <3>3. last[r][s] \in Nat /\ readySeq[s] \in Nat
      BY <2>1 DEF IInv, ControlTypeOK, ConsumerTypeOK
    <3> HIDE DEF s
    <3>4. last[r][s] = readySeq[s]
      BY <3>1, <3>2, <3>3
    <3> QED
      BY <3>4 DEF s
  <2> QED
    BY <2>2 DEF FillingInv, BeginWrite, ProducerStep
<1> QED
  BY <1>1, <1>2, <1>3, <1>4, <1>5, <1>6, <1>7, <1>8, <1>9 DEF IInv

\* The writer has filled the slot.
LEMMA EndWriteInv ==
    ASSUME IInv, EndWrite
    PROVE  IInv'
<1> USE DEF control, main, producer, consumer, process
<1>1. ControlTypeOK' /\ MainTypeOK' /\ ConsumerTypeOK'
  BY DEF IInv, ControlTypeOK, MainTypeOK, ConsumerTypeOK, EndWrite, ProducerStep
<1>2. EpochOrder' /\ MainInv' /\ RankZeroInv'
  BY DEF IInv, EpochOrder, MainInv, RankZeroInv, RankOrder, MainOf, AllReturned, EndWrite,
     ProducerStep
<1>3. CountInv' /\ ConsumerInv' /\ CopyInv'
  BY DEF IInv, CountInv, ConsumerInv, CopyInv, CountOf, CopyOf, Got, Sent, EndWrite,
     ProducerStep
<1>4. BufferTypeOK'
  BY SlotType DEF IInv, BufferTypeOK, ProducerTypeOK, ProducerStates, Weights, EndWrite,
     ProducerStep
<1>5. ProducerTypeOK'
  BY DEF IInv, ProducerTypeOK, ProducerStates, EndWrite, ProducerStep
<1>6. ProducerInv'
  BY DEF IInv, ProducerInv, EndWrite, ProducerStep
<1>7. SequenceInv'
  BY DEF IInv, SequenceInv, Got, EndWrite, ProducerStep
<1>8. WindowInv'
  <2> SUFFICES ASSUME NEW r \in Ranks, NEW x \in Nat, Got(r) <= x, x < Sent
               PROVE  Window(r, x)'
    BY DEF WindowInv, Window, Got, Sent, EndWrite
  <2>1. Window(r, x) /\ SlotOf(x) \in Slots /\ SlotOf(pExpert) \in Slots
    BY SlotType DEF IInv, WindowInv, ProducerTypeOK
  <2>2. SlotOf(x) # SlotOf(pExpert)
    BY <2>1 DEF IInv, Window, FillingInv, Filling, EndWrite, ProducerStep, ControlTypeOK,
                ConsumerTypeOK
  <2> QED
    BY <2>1, <2>2 DEF Window, Got, Sent, IInv, BufferTypeOK, EndWrite
<1>9. FillingInv'
  BY SlotType DEF IInv, FillingInv, BufferTypeOK, ControlTypeOK, ProducerTypeOK, ProducerInv,
     Filling, ProducerStates, EndWrite, ProducerStep
<1> QED
  BY <1>1, <1>2, <1>3, <1>4, <1>5, <1>6, <1>7, <1>8, <1>9 DEF IInv

\* The generation is described while nobody looks at the slot.
LEMMA PublishMetaInv ==
    ASSUME IInv, PublishMeta
    PROVE  IInv'
<1> USE DEF control, main, producer, consumer, process
<1>1. BufferTypeOK' /\ MainTypeOK' /\ ConsumerTypeOK'
  BY DEF IInv, BufferTypeOK, MainTypeOK, ConsumerTypeOK, PublishMeta, ProducerStep
<1>2. EpochOrder' /\ MainInv' /\ RankZeroInv'
  BY DEF IInv, EpochOrder, MainInv, RankZeroInv, RankOrder, MainOf, AllReturned, PublishMeta,
     ProducerStep
<1>3. CountInv' /\ ConsumerInv' /\ CopyInv'
  BY DEF IInv, CountInv, ConsumerInv, CopyInv, CountOf, CopyOf, Got, Sent, PublishMeta,
     ProducerStep
<1>4. ControlTypeOK'
  BY SlotType DEF IInv, ControlTypeOK, ProducerTypeOK, ProducerStates, PublishMeta, ProducerStep
<1>5. ProducerTypeOK'
  BY DEF IInv, ProducerTypeOK, ProducerStates, PublishMeta, ProducerStep
<1>6. ProducerInv'
  BY DEF IInv, ProducerInv, PublishMeta, ProducerStep
<1>7. SequenceInv'
  BY SlotType DEF IInv, SequenceInv, ControlTypeOK, ProducerTypeOK, ConsumerTypeOK,
     FillingInv, Got, ProducerStates, ConsumerStates, Filling, PublishMeta, ProducerStep
<1>8. WindowInv'
  BY SlotType DEF IInv, WindowInv, ControlTypeOK, ProducerTypeOK, ConsumerTypeOK, FillingInv,
     Window, Got, Sent, ProducerStates, ConsumerStates, Filling, PublishMeta, ProducerStep
<1>9. FillingInv'
  BY SlotType DEF IInv, FillingInv, ControlTypeOK, ProducerTypeOK, ProducerInv, Filling,
     ProducerStates, PublishMeta, ProducerStep
<1> QED
  BY <1>1, <1>2, <1>3, <1>4, <1>5, <1>6, <1>7, <1>8, <1>9 DEF IInv

\* The new generation is outstanding for every rank.
LEMMA PublishSequenceInv ==
    ASSUME IInv, PublishSequence
    PROVE  IInv'
<1> USE DEF control, main, producer, consumer, process
<1>1. BufferTypeOK' /\ MainTypeOK' /\ ConsumerTypeOK'
  BY DEF IInv, BufferTypeOK, MainTypeOK, ConsumerTypeOK, PublishSequence, ProducerStep
<1>2. EpochOrder' /\ RankZeroInv' /\ CountInv'
  BY DEF IInv, EpochOrder, RankZeroInv, CountInv, RankOrder, AllReturned, CountOf,
     PublishSequence, ProducerStep
<1>3. ConsumerInv'
  BY DEF IInv, ConsumerInv, PublishSequence, ProducerStep
<1>4. ControlTypeOK'
  BY SlotType DEF IInv, ControlTypeOK, ProducerTypeOK, ProducerStates, PublishSequence,
     ProducerStep
<1>5. ProducerTypeOK'
  BY SlotType, SizeAssumption DEF IInv, ProducerTypeOK, ControlTypeOK, ProducerInv,
     ProducerStates, PublishSequence, ProducerStep
<1>6. MainInv'
  BY DEF IInv, MainInv, MainTypeOK, ControlTypeOK, ProducerTypeOK, EpochOrder, ProducerInv,
     MainOf, MainStates, ProducerStates, RankOrder, PublishSequence, ProducerStep
<1>7. ProducerInv'
  BY DEF IInv, ProducerInv, ProducerTypeOK, ControlTypeOK, ConsumerTypeOK, ProducerStates,
     ConsumerStates, PublishSequence, ProducerStep
<1>8. SequenceInv'
  BY SlotType DEF IInv, SequenceInv, ControlTypeOK, ProducerTypeOK, ConsumerTypeOK,
     FillingInv, ProducerInv, CopyInv, Got, ProducerStates, ConsumerStates, Filling, CopyOf,
     Sent, PublishSequence, ProducerStep
<1>9. WindowInv'
  <2>1. /\ pEpoch = active /\ pExpert \in Nat /\ SlotOf(pExpert) \in Slots /\ ppc = "publish"
        /\ nextSeq \in Nat /\ readySeq[SlotOf(pExpert)] \in Nat
    BY SlotType DEF IInv, ProducerInv, ProducerTypeOK, ControlTypeOK, PublishSequence,
       ProducerStep
  <2> SUFFICES ASSUME NEW r \in Ranks, NEW x \in Nat, Got(r) <= x, x < pExpert + 1
               PROVE  Window(r, x)'
    BY <2>1 DEF WindowInv, Window, Got, Sent, PublishSequence
  <2>2. SlotOf(x) \in Slots /\ last[r][SlotOf(x)] \in Nat /\ readySeq[SlotOf(x)] \in Nat
    BY SlotType DEF IInv, ControlTypeOK, ConsumerTypeOK
  <2>3. CASE x = pExpert
    <3>1. /\ readySeq[SlotOf(x)] < nextSeq /\ last[r][SlotOf(x)] = readySeq[SlotOf(x)]
          /\ host[SlotOf(x)] = Weights(active, x)
          /\ readyEpoch[SlotOf(x)] = active /\ readyExpert[SlotOf(x)] = x
      BY <2>1, <2>2, <2>3 DEF IInv, SequenceInv, FillingInv, Filling
    <3>2. readySeq'[SlotOf(x)] = nextSeq /\ published'[SlotOf(x)] = nextSeq
      BY <2>2, <2>3 DEF IInv, ControlTypeOK, ProducerTypeOK, PublishSequence
    <3> QED
      BY <2>1, <2>2, <3>1, <3>2 DEF Window, PublishSequence
  <2>4. CASE x < pExpert
    <3>1. Window(r, x) /\ Sent = pExpert
      BY <2>1 DEF IInv, WindowInv, Sent
    <3>2. SlotOf(x) # SlotOf(pExpert)
      BY <2>1, <2>2, <2>4, <3>1 DEF IInv, Window, FillingInv, Filling
    <3> QED
      BY <2>1, <2>2, <2>4, <3>1, <3>2
         DEF Window, IInv, ControlTypeOK, ProducerTypeOK, PublishSequence
  <2> QED
    BY <2>1, <2>3, <2>4
<1>10. FillingInv'
  BY DEF IInv, FillingInv, ProducerTypeOK, Filling, ProducerStates, PublishSequence,
     ProducerStep
<1>11. CopyInv'
  <2>1. /\ pEpoch = active /\ pExpert \in Nat /\ SlotOf(pExpert) \in Slots /\ ppc = "publish"
    BY SlotType DEF IInv, ProducerInv, ProducerTypeOK, PublishSequence, ProducerStep
  <2> SUFFICES ASSUME NEW r \in Ranks PROVE CopyOf(r)'
    BY DEF CopyInv
  <2>2. CopyOf(r) /\ cExpert[r] \in Nat /\ SlotOf(cExpert[r]) \in Slots /\ Got(r) \in Nat
    BY SlotType DEF IInv, CopyInv, ConsumerTypeOK, Got
  <2>3. cpc[r] = "copy" => SlotOf(cExpert[r]) # SlotOf(pExpert)
    <3> SUFFICES ASSUME cpc[r] = "copy" PROVE SlotOf(cExpert[r]) # SlotOf(pExpert)
      OBVIOUS
    <3>1. cEpoch[r] = active /\ cExpert[r] < pExpert
      BY <2>2, InLayer DEF CopyOf
    <3>2. Window(r, cExpert[r]) /\ Got(r) <= cExpert[r] /\ cExpert[r] < Sent
      BY <2>1, <2>2, <3>1 DEF IInv, WindowInv, Got, Sent
    <3>3. last[r][SlotOf(pExpert)] = readySeq[SlotOf(pExpert)] /\ readySeq[SlotOf(pExpert)] \in Nat
      BY <2>1 DEF IInv, FillingInv, Filling, ControlTypeOK
    <3> QED
      BY <3>2, <3>3 DEF Window
  <2>4. Got(r)' <= Sent'
    BY <2>1, <2>2 DEF CopyOf, Got, Sent, PublishSequence
  <2> QED
    BY <2>1, <2>2, <2>3, <2>4 DEF CopyOf, IInv, ControlTypeOK, PublishSequence
<1> QED
  BY <1>1, <1>2, <1>3, <1>4, <1>5, <1>6, <1>7, <1>8, <1>9, <1>10, <1>11 DEF IInv

\* When every slot is acknowledged, every rank has every expert.
LEMMA DrainedInv ==
    ASSUME IInv, Drained
    PROVE  IInv'
<1> USE DEF control, main, producer, consumer, process
<1>1. ControlTypeOK' /\ BufferTypeOK' /\ MainTypeOK' /\ ConsumerTypeOK'
  BY DEF IInv, ControlTypeOK, BufferTypeOK, MainTypeOK, ConsumerTypeOK, Drained, AllAcked,
     Acked, ProducerStep
<1>2. EpochOrder' /\ MainInv' /\ RankZeroInv'
  BY DEF IInv, EpochOrder, MainInv, RankZeroInv, RankOrder, MainOf, AllReturned, Drained,
     AllAcked, Acked, ProducerStep
<1>3. CountInv' /\ ConsumerInv' /\ WindowInv'
  BY DEF IInv, CountInv, ConsumerInv, WindowInv, CountOf, Window, Got, Sent, Drained,
     AllAcked, Acked, ProducerStep
<1>4. CopyInv'
  BY DEF IInv, CopyInv, CopyOf, Got, Sent, Drained, AllAcked, Acked, ProducerStep
<1>5. ProducerTypeOK'
  BY DEF IInv, ProducerTypeOK, ProducerStates, Drained, AllAcked, Acked, ProducerStep
<1>6. ProducerInv'
  <2>1. /\ ppc = "drain" /\ pEpoch = active /\ pExpert = pCount /\ pExpert \in Nat
        /\ pCount = expertCount /\ producerDone < active /\ active \in Nat
    BY DEF IInv, ProducerInv, ProducerTypeOK, ControlTypeOK, Drained, ProducerStep
  <2>2. pCount >= 1
    BY <2>1 DEF IInv, CountInv, ControlTypeOK
  <2>3. ASSUME NEW r \in Ranks PROVE cEpoch[r] = active /\ cExpert[r] = pExpert
    <3>1. Got(r) \in Nat /\ Got(r) <= Sent /\ Sent = pExpert
      BY <2>1 DEF IInv, CopyInv, CopyOf, ConsumerTypeOK, Got, Sent
    <3>2. ~(Got(r) < Sent)
      <4> SUFFICES ASSUME Got(r) < Sent PROVE FALSE
        OBVIOUS
      <4> DEFINE s == SlotOf(Got(r))
      <4>1. s \in Slots /\ published[s] # 0 /\ last[r][s] < readySeq[s]
        BY <3>1, SlotType DEF IInv, WindowInv, Window
      <4>2. ack[r][s] = last[r][s] /\ published[s] = readySeq[s] /\ ack[r][s] >= published[s]
        BY <4>1 DEF IInv, SequenceInv, Drained, AllAcked, Acked
      <4>3. last[r][s] \in Nat /\ readySeq[s] \in Nat
        BY <4>1 DEF IInv, ControlTypeOK, ConsumerTypeOK
      <4> HIDE DEF s
      <4> QED
        BY <4>1, <4>2, <4>3
    <3>3. Got(r) = pExpert
      BY <2>1, <3>1, <3>2
    <3> QED
      BY <2>1, <2>2, <3>3 DEF Got
  <2> QED
    BY <2>1, <2>3 DEF IInv, ProducerInv, Drained, ProducerStep
<1>7. SequenceInv'
  BY DEF IInv, SequenceInv, Got, Drained, AllAcked, Acked, ProducerStep
<1>8. FillingInv'
  BY DEF IInv, FillingInv, Filling, Drained, AllAcked, Acked, ProducerStep
<1> QED
  BY <1>1, <1>2, <1>3, <1>4, <1>5, <1>6, <1>7, <1>8 DEF IInv

\* The producer reports the layer done.
LEMMA ProducerReturnInv ==
    ASSUME IInv, ProducerReturn
    PROVE  IInv'
<1> USE DEF control, main, producer, consumer, process
<1>1. BufferTypeOK' /\ MainTypeOK' /\ ConsumerTypeOK'
  BY DEF IInv, BufferTypeOK, MainTypeOK, ConsumerTypeOK, ProducerReturn, ProducerStep
<1>2. RankZeroInv' /\ CountInv' /\ ConsumerInv'
  BY DEF IInv, RankZeroInv, CountInv, ConsumerInv, AllReturned, CountOf, ProducerReturn,
     ProducerStep
<1>3. WindowInv' /\ CopyInv'
  BY DEF IInv, WindowInv, CopyInv, Window, Got, Sent, CopyOf, ProducerReturn, ProducerStep
<1>4. ControlTypeOK'
  BY DEF IInv, ControlTypeOK, ProducerTypeOK, ProducerStates, ProducerReturn, ProducerStep
<1>5. ProducerTypeOK'
  BY DEF IInv, ProducerTypeOK, ProducerStates, ProducerReturn, ProducerStep
<1>6. EpochOrder'
  BY DEF IInv, EpochOrder, ControlTypeOK, ProducerTypeOK, ProducerInv, RankOrder,
     ProducerStates, ProducerReturn, ProducerStep
<1>7. MainInv'
  BY DEF IInv, MainInv, ControlTypeOK, MainTypeOK, ProducerTypeOK, EpochOrder, MainOf,
     MainStates, ProducerStates, RankOrder, ProducerReturn, ProducerStep
<1>8. ProducerInv'
  BY DEF IInv, ProducerInv, ControlTypeOK, ProducerTypeOK, ProducerStates, ProducerReturn,
     ProducerStep
<1>9. SequenceInv'
  BY DEF IInv, SequenceInv, Got, ProducerReturn, ProducerStep
<1>10. FillingInv'
  BY DEF IInv, FillingInv, Filling, ProducerReturn, ProducerStep
<1> QED
  BY <1>1, <1>2, <1>3, <1>4, <1>5, <1>6, <1>7, <1>8, <1>9, <1>10 DEF IInv

\* A consumer enters the active layer.
LEMMA BeginLayerInv ==
    ASSUME IInv, NEW r \in Ranks, BeginLayer(r)
    PROVE  IInv'
<1> USE DEF control, main, producer, consumer, process
<1>1. ControlTypeOK' /\ BufferTypeOK' /\ MainTypeOK' /\ ProducerTypeOK'
  BY DEF IInv, ControlTypeOK, BufferTypeOK, MainTypeOK, ProducerTypeOK, BeginLayer, Joined,
     ConsumerStep
<1>2. RankZeroInv' /\ FillingInv'
  BY DEF IInv, RankZeroInv, FillingInv, AllReturned, Filling, BeginLayer, Joined, ConsumerStep
<1>3. ConsumerTypeOK'
  BY SizeAssumption DEF IInv, ConsumerTypeOK, ControlTypeOK, CountInv, ConsumerStates,
     CountOf, BeginLayer, Joined, ConsumerStep
<1>4. EpochOrder'
  BY DEF IInv, EpochOrder, ControlTypeOK, ConsumerTypeOK, RankOrder, ConsumerStates,
     BeginLayer, Joined, ConsumerStep
<1>5. MainInv'
  BY DEF IInv, MainInv, MainTypeOK, ControlTypeOK, ConsumerTypeOK, MainOf, MainStates,
     ConsumerStates, BeginLayer, Joined, ConsumerStep
<1>6. CountInv'
  BY DEF IInv, CountInv, MainTypeOK, ControlTypeOK, ConsumerTypeOK, MainInv, EpochOrder,
     CountOf, MainStates, ConsumerStates, MainOf, RankOrder, BeginLayer, Joined, ConsumerStep
<1>7. ConsumerInv'
  BY DEF IInv, ConsumerInv, ControlTypeOK, ConsumerTypeOK, CountInv, EpochOrder,
     ConsumerStates, CountOf, RankOrder, BeginLayer, Joined, ConsumerStep
<1>8. ProducerInv'
  BY DEF IInv, ProducerInv, ControlTypeOK, ProducerTypeOK, ConsumerTypeOK, EpochOrder,
     CountInv, ConsumerInv, ProducerStates, ConsumerStates, RankOrder, CountOf, BeginLayer,
     Joined, ConsumerStep
<1>9. SequenceInv'
  BY DEF IInv, SequenceInv, ControlTypeOK, ProducerTypeOK, ConsumerTypeOK, EpochOrder,
     ConsumerInv, Got, ProducerStates, ConsumerStates, RankOrder, BeginLayer, Joined,
     ConsumerStep
<1>10. WindowInv'
  BY DEF IInv, WindowInv, ControlTypeOK, ProducerTypeOK, ConsumerTypeOK, EpochOrder,
     ConsumerInv, Window, Got, Sent, ProducerStates, ConsumerStates, RankOrder, BeginLayer,
     Joined, ConsumerStep
<1>11. CopyInv'
  BY DEF IInv, CopyInv, ControlTypeOK, ProducerTypeOK, ConsumerTypeOK, ConsumerInv,
     EpochOrder, CopyOf, Got, Sent, ProducerStates, ConsumerStates, RankOrder, Experts,
     BeginLayer, Joined, ConsumerStep
<1> QED
  BY <1>1, <1>2, <1>3, <1>4, <1>5, <1>6, <1>7, <1>8, <1>9, <1>10, <1>11 DEF IInv

\* A consumer starts to copy the expert it awaits.
LEMMA BeginCopyInv ==
    ASSUME IInv, NEW r \in Ranks, BeginCopy(r)
    PROVE  IInv'
<1> USE DEF control, main, producer, consumer, process
<1>1. ControlTypeOK' /\ BufferTypeOK' /\ MainTypeOK' /\ ProducerTypeOK'
  BY DEF IInv, ControlTypeOK, BufferTypeOK, MainTypeOK, ProducerTypeOK, BeginCopy, Ready,
     ConsumerStep
<1>2. EpochOrder' /\ RankZeroInv' /\ CountInv'
  BY DEF IInv, EpochOrder, RankZeroInv, CountInv, RankOrder, AllReturned, CountOf, BeginCopy,
     Ready, ConsumerStep
<1>3. ProducerInv' /\ SequenceInv' /\ WindowInv'
  BY DEF IInv, ProducerInv, SequenceInv, WindowInv, Got, Window, Sent, BeginCopy, Ready,
     ConsumerStep
<1>4. FillingInv'
  BY DEF IInv, FillingInv, Filling, BeginCopy, Ready, ConsumerStep
<1>5. ConsumerTypeOK'
  BY SlotType DEF IInv, ConsumerTypeOK, ControlTypeOK, ConsumerStates, BeginCopy, Ready,
     ConsumerStep
<1>6. MainInv'
  BY DEF IInv, MainInv, ConsumerTypeOK, MainOf, ConsumerStates, BeginCopy, Ready, ConsumerStep
<1>7. ConsumerInv'
  BY DEF IInv, ConsumerInv, ConsumerTypeOK, ConsumerStates, BeginCopy, Ready, ConsumerStep
<1>8. CopyInv'
  BY SlotType DEF IInv, CopyInv, ControlTypeOK, ConsumerTypeOK, ProducerTypeOK, ConsumerInv,
     SequenceInv, EpochOrder, CopyOf, Got, Sent, ConsumerStates, ProducerStates, RankOrder,
     BeginCopy, Ready, ConsumerStep
<1> QED
  BY <1>1, <1>2, <1>3, <1>4, <1>5, <1>6, <1>7, <1>8 DEF IInv

\* The device has copied the weights that the slot was published with.
LEMMA DmaCompleteInv ==
    ASSUME IInv, NEW r \in Ranks, DmaComplete(r)
    PROVE  IInv'
<1> USE DEF control, main, producer, consumer, process
<1>1. ControlTypeOK' /\ MainTypeOK' /\ ProducerTypeOK'
  BY DEF IInv, ControlTypeOK, MainTypeOK, ProducerTypeOK, DmaComplete
<1>2. EpochOrder' /\ MainInv' /\ RankZeroInv'
  BY DEF IInv, EpochOrder, MainInv, RankZeroInv, RankOrder, MainOf, AllReturned, DmaComplete
<1>3. CountInv' /\ ProducerInv' /\ SequenceInv'
  BY DEF IInv, CountInv, ProducerInv, SequenceInv, CountOf, Got, DmaComplete
<1>4. WindowInv' /\ FillingInv'
  BY DEF IInv, WindowInv, FillingInv, Window, Got, Sent, Filling, DmaComplete
<1>5. BufferTypeOK'
  <2>1. cExpert[r] \in Nat /\ cExpert[r] \in Experts
    BY SizeAssumption DEF IInv, ConsumerInv, ConsumerTypeOK, Experts, DmaComplete
  <2>2. host[SlotOf(cExpert[r])] \in [epoch : Nat, expert : Nat]
    BY <2>1, SlotType DEF IInv, BufferTypeOK
  <2> QED
    BY <2>1, <2>2 DEF IInv, BufferTypeOK, DmaComplete
<1>6. ConsumerTypeOK'
  BY DEF IInv, ConsumerTypeOK, ConsumerStates, DmaComplete
<1>7. ConsumerInv'
  BY DEF IInv, ConsumerInv, ConsumerTypeOK, ConsumerStates, DmaComplete
<1>8. CopyInv'
  <2> SUFFICES ASSUME NEW q \in Ranks PROVE CopyOf(q)'
    BY DEF CopyInv
  <2>1. CopyOf(q)
    BY DEF IInv, CopyInv
  <2>2. /\ cExpert[r] \in Nat /\ cExpert[r] \in Experts
    BY SizeAssumption DEF IInv, ConsumerInv, ConsumerTypeOK, Experts, DmaComplete
  <2>3. host[SlotOf(cExpert[r])] = Weights(cEpoch[r], cExpert[r])
    BY CopyIntactLemma DEF CopyIntact, DmaComplete
  <2>4. gpu'[q] = IF q = r THEN [gpu[r] EXCEPT ![cExpert[r]] = host[SlotOf(cExpert[r])]] ELSE gpu[q]
    BY DEF IInv, BufferTypeOK, DmaComplete
  <2>5. \A x \in Experts : x < cExpert[q] => gpu'[q][x] = Weights(cEpoch[q], x)
    BY <2>1, <2>2, <2>4 DEF CopyOf, IInv, BufferTypeOK, Experts
  <2>6. q = r => gpu'[q][cExpert[q]] = Weights(cEpoch[q], cExpert[q])
    BY <2>2, <2>3, <2>4 DEF IInv, BufferTypeOK
  <2>7. dma'[q] = IF q = r THEN "none" ELSE dma[q]
    BY DEF IInv, ConsumerTypeOK, DmaComplete
  <2>8. q # r => gpu'[q] = gpu[q]
    BY <2>4
  <2> QED
    BY <2>1, <2>5, <2>6, <2>7, <2>8 DEF CopyOf, Got, Sent, DmaComplete
<1> QED
  BY <1>1, <1>2, <1>3, <1>4, <1>5, <1>6, <1>7, <1>8 DEF IInv

\* The acknowledgement releases exactly the slot that was copied.
LEMMA AcknowledgeInv ==
    ASSUME IInv, NEW r \in Ranks, Acknowledge(r)
    PROVE  IInv'
<1> USE DEF control, main, producer, consumer, process
<1>1. BufferTypeOK' /\ MainTypeOK' /\ ProducerTypeOK'
  BY DEF IInv, BufferTypeOK, MainTypeOK, ProducerTypeOK, Acknowledge, ConsumerStep
<1>2. EpochOrder' /\ RankZeroInv' /\ CountInv'
  BY DEF IInv, EpochOrder, RankZeroInv, CountInv, RankOrder, AllReturned, CountOf,
     Acknowledge, ConsumerStep
<1>3. ControlTypeOK'
  BY SlotType DEF IInv, ControlTypeOK, ConsumerTypeOK, ConsumerStates, Acknowledge, ConsumerStep
<1>4. ConsumerTypeOK'
  BY SlotType, SizeAssumption DEF IInv, ConsumerTypeOK, ConsumerInv, ConsumerStates,
     Acknowledge, ConsumerStep
<1>5. MainInv'
  BY DEF IInv, MainInv, ConsumerTypeOK, MainOf, ConsumerStates, Acknowledge, ConsumerStep
<1>6. ConsumerInv'
  BY DEF IInv, ConsumerInv, ConsumerTypeOK, ConsumerStates, Acknowledge, ConsumerStep
<1>7. ProducerInv'
  BY DEF IInv, ProducerInv, ControlTypeOK, ProducerTypeOK, ConsumerTypeOK, CopyInv,
     ProducerStates, ConsumerStates, CopyOf, Got, Sent, Acknowledge, ConsumerStep
<1>8. SequenceInv'
  <2>1. /\ cpc[r] = "copy" /\ cExpert[r] \in Nat /\ SlotOf(cExpert[r]) \in Slots
        /\ cEpoch[r] = active /\ cSeen[r] = readySeq[SlotOf(cExpert[r])]
    BY SlotType, InLayer DEF IInv, ConsumerTypeOK, CopyInv, CopyOf, Acknowledge, ConsumerStep
  <2>2. ASSUME NEW q \in Ranks, NEW s \in Slots
        PROVE  /\ ack'[q][s] = last'[q][s]
               /\ last'[q][s] <= readySeq[s]
               /\ last'[q][s] # readySeq[s] =>
                    /\ pEpoch = active /\ published[s] # 0
                    /\ readyExpert[s] >= Got(q)' /\ readyExpert[s] < pExpert
                    /\ SlotOf(readyExpert[s]) = s
    <3>1. /\ ack[q][s] = last[q][s] /\ last[q][s] <= readySeq[s]
          /\ last[q][s] # readySeq[s] =>
               /\ pEpoch = active /\ published[s] # 0
               /\ readyExpert[s] >= Got(q) /\ readyExpert[s] < pExpert
               /\ SlotOf(readyExpert[s]) = s
      BY DEF IInv, SequenceInv
    <3>2. readySeq[s] \in Nat /\ readyExpert[s] \in Nat
      BY DEF IInv, ControlTypeOK
    <3>3. CASE q # r \/ s # SlotOf(cExpert[r])
      <4>1. last'[q][s] = last[q][s] /\ ack'[q][s] = ack[q][s]
        BY <3>3 DEF Acknowledge, IInv, ControlTypeOK, ConsumerTypeOK
      <4>2. CASE q # r
        BY <3>1, <4>1, <4>2 DEF Acknowledge, Got, IInv, ConsumerTypeOK
      <4>3. CASE q = r
        <5>1. Got(q) = cExpert[r] /\ Got(q)' = cExpert[r] + 1
          BY <2>1, <4>3 DEF Got, Acknowledge, IInv, ConsumerTypeOK
        <5>2. last[q][s] # readySeq[s] => readyExpert[s] # cExpert[r]
          BY <3>1, <3>3, <4>3
        <5> QED
          BY <2>1, <3>1, <3>2, <4>1, <5>1, <5>2
      <4> QED
        BY <4>2, <4>3
    <3>4. CASE q = r /\ s = SlotOf(cExpert[r])
      <4>1. last'[q][s] = readySeq[s] /\ ack'[q][s] = readySeq[s]
        BY <2>1, <3>4 DEF Acknowledge, IInv, ControlTypeOK, ConsumerTypeOK
      <4> QED
        BY <3>2, <4>1
    <3> QED
      BY <3>3, <3>4
  <2>3. \A s \in Slots : /\ readySeq[s] <= nextSeq
                         /\ published[s] \in {0, readySeq[s]}
                         /\ ppc = "publish" => readySeq[s] < nextSeq
    BY DEF IInv, SequenceInv
  <2> QED
    BY <2>2, <2>3 DEF SequenceInv, Acknowledge
<1>9. WindowInv'
  <2>1. /\ cpc[r] = "copy" /\ cExpert[r] \in Nat /\ SlotOf(cExpert[r]) \in Slots
        /\ cEpoch[r] = active
    BY SlotType, InLayer DEF IInv, ConsumerTypeOK, CopyInv, CopyOf, Acknowledge, ConsumerStep
  <2> SUFFICES ASSUME NEW q \in Ranks, NEW x \in Nat, Got(q)' <= x, x < Sent
               PROVE  Window(q, x)'
    BY DEF WindowInv, Window, Sent, Acknowledge
  <2>2. SlotOf(x) \in Slots /\ Sent' = Sent
    BY SlotType DEF Sent, Acknowledge
  <2>3. CASE q # r
    <3>1. Got(q)' = Got(q) /\ last'[q] = last[q]
      BY <2>3 DEF Got, Acknowledge, IInv, ConsumerTypeOK
    <3>2. Window(q, x) /\ Got(q) <= x /\ x < Sent
      BY <3>1 DEF IInv, WindowInv
    <3> QED
      BY <2>2, <3>1, <3>2 DEF Window, Acknowledge
  <2>4. CASE q = r
    <3>1. Got(r) = cExpert[r] /\ Got(r)' = cExpert[r] + 1
      BY <2>1 DEF Got, Acknowledge, IInv, ConsumerTypeOK
    <3>2. /\ Window(r, x) /\ Got(r) <= x /\ x < Sent
          /\ Window(r, cExpert[r]) /\ cExpert[r] < Sent /\ cExpert[r] # x
      BY <2>1, <2>4, <3>1 DEF IInv, WindowInv, Sent, ProducerTypeOK
    <3>3. SlotOf(x) # SlotOf(cExpert[r])
      BY <2>1, <3>1, <3>2 DEF Window
    <3>4. last'[r][SlotOf(x)] = last[r][SlotOf(x)]
      BY <2>1, <2>2, <3>3 DEF Acknowledge, IInv, ConsumerTypeOK
    <3> QED
      BY <2>2, <2>4, <3>2, <3>4 DEF Window, Acknowledge
  <2> QED
    BY <2>3, <2>4
<1>10. FillingInv'
  BY SlotType DEF IInv, FillingInv, ControlTypeOK, ProducerTypeOK, ConsumerTypeOK, CopyInv,
     Filling, ProducerStates, ConsumerStates, CopyOf, Got, Sent, Acknowledge, ConsumerStep
<1>11. CopyInv'
  <2>1. /\ cpc[r] = "copy" /\ dma[r] = "none" /\ cExpert[r] \in Nat
        /\ CopyOf(r) /\ cEpoch[r] = active
    BY InLayer DEF IInv, ConsumerTypeOK, CopyInv, CopyOf, Acknowledge, ConsumerStep
  <2> SUFFICES ASSUME NEW q \in Ranks PROVE CopyOf(q)'
    BY DEF CopyInv
  <2>2. CASE q # r
    <3>1. cExpert'[q] = cExpert[q] /\ cpc'[q] = cpc[q] /\ CopyOf(q)
      BY <2>2 DEF Acknowledge, ConsumerStep, IInv, ConsumerTypeOK, CopyInv
    <3> QED
      BY <3>1 DEF CopyOf, Got, Sent, Acknowledge
  <2>3. CASE q = r
    <3>1. cExpert'[r] = cExpert[r] + 1 /\ cpc'[r] \in {"await", "finish"}
      BY DEF Acknowledge, ConsumerStep, IInv, ConsumerTypeOK
    <3>2. Got(r)' <= Sent'
      BY <2>1, <3>1 DEF CopyOf, Got, Sent, Acknowledge, IInv, ProducerTypeOK
    <3>3. \A x \in Experts : x < cExpert[r] + 1 => gpu[r][x] = Weights(cEpoch[r], x)
      BY <2>1 DEF CopyOf, Experts
    <3> QED
      BY <2>1, <2>3, <3>1, <3>2, <3>3 DEF CopyOf, Acknowledge
  <2> QED
    BY <2>2, <2>3
<1> QED
  BY <1>1, <1>2, <1>3, <1>4, <1>5, <1>6, <1>7, <1>8, <1>9, <1>10, <1>11 DEF IInv

\* A consumer has finished the layer.
LEMMA EndLayerInv ==
    ASSUME IInv, NEW r \in Ranks, EndLayer(r)
    PROVE  IInv'
<1> USE DEF control, main, producer, consumer, process
<1>1. BufferTypeOK' /\ MainTypeOK' /\ ProducerTypeOK'
  BY DEF IInv, BufferTypeOK, MainTypeOK, ProducerTypeOK, EndLayer, ConsumerStep
<1>2. RankZeroInv' /\ ProducerInv' /\ SequenceInv'
  BY DEF IInv, RankZeroInv, ProducerInv, SequenceInv, AllReturned, Got, EndLayer, ConsumerStep
<1>3. WindowInv' /\ FillingInv'
  BY DEF IInv, WindowInv, FillingInv, Window, Got, Sent, Filling, EndLayer, ConsumerStep
<1>4. ControlTypeOK'
  BY DEF IInv, ControlTypeOK, ConsumerTypeOK, ConsumerStates, EndLayer, ConsumerStep
<1>5. ConsumerTypeOK'
  BY DEF IInv, ConsumerTypeOK, ConsumerStates, EndLayer, ConsumerStep
<1>6. EpochOrder'
  BY DEF IInv, EpochOrder, ControlTypeOK, ConsumerTypeOK, ConsumerInv, RankOrder,
     ConsumerStates, EndLayer, ConsumerStep
<1>7. MainInv'
  BY DEF IInv, MainInv, MainTypeOK, ControlTypeOK, ConsumerTypeOK, EpochOrder, ConsumerInv,
     MainOf, MainStates, ConsumerStates, RankOrder, EndLayer, ConsumerStep
<1>8. CountInv'
  BY DEF IInv, CountInv, MainTypeOK, ControlTypeOK, ConsumerTypeOK, CountOf, MainStates,
     ConsumerStates, EndLayer, ConsumerStep
<1>9. ConsumerInv'
  BY DEF IInv, ConsumerInv, ConsumerTypeOK, ControlTypeOK, ConsumerStates, EndLayer,
     ConsumerStep
<1>10. CopyInv'
  BY DEF IInv, CopyInv, ControlTypeOK, ConsumerTypeOK, ConsumerInv, CopyOf, Got, Sent,
     ConsumerStates, EndLayer, ConsumerStep
<1> QED
  BY <1>1, <1>2, <1>3, <1>4, <1>5, <1>6, <1>7, <1>8, <1>9, <1>10 DEF IInv

\* A caller's thread that throws establishes nothing and takes nothing away.
LEMMA MainFailsInv ==
    ASSUME IInv, NEW r \in Ranks, mpc[r] \notin {"new", "unbuilt", "joined"},
           mpc' = [mpc EXCEPT ![r] = "failed"], poison' \in Poisons,
           UNCHANGED <<control, host, gpu, mEpoch, mCount, producer, consumer, process>>
    PROVE  IInv'
<1> USE DEF control, main, producer, consumer, process
<1>1. BufferTypeOK' /\ ProducerTypeOK' /\ ConsumerTypeOK'
  BY DEF IInv, BufferTypeOK, ProducerTypeOK, ConsumerTypeOK, MainStates
<1>2. EpochOrder' /\ ConsumerInv' /\ ProducerInv'
  BY DEF IInv, EpochOrder, ConsumerInv, ProducerInv, RankOrder, MainStates
<1>3. SequenceInv' /\ WindowInv' /\ FillingInv'
  BY DEF IInv, SequenceInv, WindowInv, FillingInv, Got, Window, Sent, Filling, MainStates
<1>4. CopyInv'
  BY DEF IInv, CopyInv, CopyOf, Got, Sent, MainStates
<1>5. ControlTypeOK'
  BY DEF IInv, ControlTypeOK, MainStates
<1>6. MainTypeOK'
  BY DEF IInv, MainTypeOK, MainStates, MainStates
<1>7. MainInv'
  BY DEF IInv, MainInv, MainTypeOK, MainOf, MainStates, MainStates
<1>8. RankZeroInv'
  BY ZeroRank DEF IInv, RankZeroInv, MainTypeOK, AllReturned, MainStates, MainStates
<1>9. CountInv'
  BY ZeroRank DEF IInv, CountInv, MainTypeOK, CountOf, MainStates, MainStates
<1> QED
  BY <1>1, <1>2, <1>3, <1>4, <1>5, <1>6, <1>7, <1>8, <1>9 DEF IInv

\* Nor does a producer that throws.
LEMMA ProducerFailsInv ==
    ASSUME IInv, ppc' = "failed", poison' \in Poisons,
           UNCHANGED <<control, host, gpu, main, pEpoch, pCount, pExpert, published, consumer, process>>
    PROVE  IInv'
<1> USE DEF control, main, producer, consumer, process
<1>1. BufferTypeOK' /\ MainTypeOK' /\ ConsumerTypeOK'
  BY DEF IInv, BufferTypeOK, MainTypeOK, ConsumerTypeOK, ProducerStates
<1>2. EpochOrder' /\ MainInv' /\ RankZeroInv'
  BY DEF IInv, EpochOrder, MainInv, RankZeroInv, RankOrder, MainOf, AllReturned, ProducerStates
<1>3. CountInv' /\ ConsumerInv' /\ WindowInv'
  BY DEF IInv, CountInv, ConsumerInv, WindowInv, CountOf, Window, Got, Sent, ProducerStates
<1>4. CopyInv'
  BY DEF IInv, CopyInv, CopyOf, Got, Sent, ProducerStates
<1>5. ControlTypeOK'
  BY DEF IInv, ControlTypeOK, ProducerStates
<1>6. ProducerTypeOK'
  BY DEF IInv, ProducerTypeOK, ProducerStates, ProducerStates
<1>7. ProducerInv'
  BY DEF IInv, ProducerInv, ProducerStates
<1>8. SequenceInv'
  BY DEF IInv, SequenceInv, Got, ProducerStates
<1>9. FillingInv'
  BY DEF IInv, FillingInv, Filling, ProducerStates
<1> QED
  BY <1>1, <1>2, <1>3, <1>4, <1>5, <1>6, <1>7, <1>8, <1>9 DEF IInv

\* Nor does a consumer that ends, with or without a copy in flight.
LEMMA ConsumerExitsInv ==
    ASSUME IInv, NEW r \in Ranks, cpc[r] # "new",
           cpc' = [cpc EXCEPT ![r] = "exit"], poison' \in Poisons,
           UNCHANGED <<control, host, gpu, main, producer, cEpoch, cCount, cExpert, cSeen, last, dma, process>>
    PROVE  IInv'
<1> USE DEF control, main, producer, consumer, process
<1>1. BufferTypeOK' /\ MainTypeOK' /\ ProducerTypeOK'
  BY DEF IInv, BufferTypeOK, MainTypeOK, ProducerTypeOK, ConsumerStates
<1>2. EpochOrder' /\ RankZeroInv' /\ CountInv'
  BY DEF IInv, EpochOrder, RankZeroInv, CountInv, RankOrder, AllReturned, CountOf,
     ConsumerStates
<1>3. ProducerInv' /\ SequenceInv' /\ WindowInv'
  BY DEF IInv, ProducerInv, SequenceInv, WindowInv, Got, Window, Sent, ConsumerStates
<1>4. FillingInv'
  BY DEF IInv, FillingInv, Filling, ConsumerStates
<1>5. ControlTypeOK'
  BY DEF IInv, ControlTypeOK, ConsumerStates
<1>6. ConsumerTypeOK'
  BY DEF IInv, ConsumerTypeOK, ConsumerStates, ConsumerStates
<1>7. MainInv'
  BY DEF IInv, MainInv, ConsumerTypeOK, MainOf, ConsumerStates, ConsumerStates
<1>8. ConsumerInv'
  BY DEF IInv, ConsumerInv, ConsumerTypeOK, ConsumerStates, ConsumerStates
<1>9. CopyInv'
  BY DEF IInv, CopyInv, ConsumerTypeOK, CopyOf, Got, Sent, ConsumerStates, ConsumerStates
<1> QED
  BY <1>1, <1>2, <1>3, <1>4, <1>5, <1>6, <1>7, <1>8, <1>9 DEF IInv

\* The invariant does not depend on which processes live, close or have poisoned.
LEMMA ProcessInv ==
    ASSUME IInv, alive' \in [Ranks -> BOOLEAN],
           closing' \in [Ranks -> CloseStates],
           poison' \in Poisons,
           UNCHANGED <<control, host, gpu, main, producer, consumer>>
    PROVE  IInv'
<1> USE DEF control, main, producer, consumer, process
<1>1. BufferTypeOK' /\ ProducerTypeOK' /\ ConsumerTypeOK'
  BY DEF IInv, BufferTypeOK, ProducerTypeOK, ConsumerTypeOK, Poisons
<1>2. EpochOrder' /\ MainInv' /\ RankZeroInv'
  BY DEF IInv, EpochOrder, MainInv, RankZeroInv, RankOrder, MainOf, AllReturned, Poisons
<1>3. CountInv' /\ ConsumerInv' /\ ProducerInv'
  BY DEF IInv, CountInv, ConsumerInv, ProducerInv, CountOf, Poisons
<1>4. SequenceInv' /\ WindowInv' /\ FillingInv'
  BY DEF IInv, SequenceInv, WindowInv, FillingInv, Got, Window, Sent, Filling, Poisons
<1>5. CopyInv'
  BY DEF IInv, CopyInv, CopyOf, Got, Sent, Poisons
<1>6. ControlTypeOK'
  BY DEF IInv, ControlTypeOK, Poisons
<1>7. MainTypeOK'
  BY DEF IInv, MainTypeOK, MainStates, Poisons
<1> QED
  BY <1>1, <1>2, <1>3, <1>4, <1>5, <1>6, <1>7 DEF IInv

\* A transport whose constructor throws.
LEMMA ConstructFailsInv ==
    ASSUME IInv, NEW r \in Ranks, ConstructFails(r), poison' \in Poisons
    PROVE  IInv'
<1> USE DEF control, main, producer, consumer, process
<1>1. BufferTypeOK' /\ ProducerTypeOK'
  BY DEF IInv, BufferTypeOK, ProducerTypeOK, ConstructFails
<1>2. EpochOrder' /\ ProducerInv' /\ SequenceInv'
  BY DEF IInv, EpochOrder, ProducerInv, SequenceInv, RankOrder, Got, ConstructFails
<1>3. WindowInv' /\ FillingInv'
  BY DEF IInv, WindowInv, FillingInv, Window, Got, Sent, Filling, ConstructFails
<1>4. ControlTypeOK'
  BY DEF IInv, ControlTypeOK, ConstructFails
<1>5. MainTypeOK'
  BY DEF IInv, MainTypeOK, MainStates, ConstructFails
<1>6. ConsumerTypeOK'
  BY DEF IInv, ConsumerTypeOK, ConsumerStates, ConstructFails
<1>7. MainInv'
  BY DEF IInv, MainInv, MainTypeOK, ConsumerTypeOK, MainOf, MainStates, ConsumerStates,
     ConstructFails
<1>8. RankZeroInv'
  BY ZeroRank DEF IInv, RankZeroInv, MainTypeOK, AllReturned, MainStates, ConstructFails
<1>9. CountInv'
  BY ZeroRank DEF IInv, CountInv, MainTypeOK, CountOf, MainStates, ConstructFails
<1>10. ConsumerInv'
  BY DEF IInv, ConsumerInv, ConsumerTypeOK, ConsumerStates, ConstructFails
<1>11. CopyInv'
  BY DEF IInv, CopyInv, ConsumerTypeOK, CopyOf, Got, Sent, ConsumerStates, ConstructFails
<1> QED
  BY <1>1, <1>2, <1>3, <1>4, <1>5, <1>6, <1>7, <1>8, <1>9, <1>10, <1>11 DEF IInv

-----------------------------------------------------------------------------
(* The invariant holds initially and is preserved by every step. *)

\* The zeroed control block satisfies the invariant.
LEMMA InitInv == Init => IInv
<1> SUFFICES ASSUME Init PROVE IInv
  OBVIOUS
<1> USE ZeroRank, SizeAssumption DEF Init
<1>1. Garbage \in [epoch : Nat, expert : Nat]
  BY DEF Garbage, Weights
<1>2. ControlTypeOK /\ BufferTypeOK
  BY <1>1 DEF ControlTypeOK, BufferTypeOK, Poisons, Codes
<1>3. MainTypeOK /\ ProducerTypeOK /\ ConsumerTypeOK
  BY DEF MainTypeOK, ProducerTypeOK, ConsumerTypeOK, MainStates, ProducerStates, ConsumerStates,
     CloseStates
<1>4. EpochOrder /\ MainInv
  BY DEF EpochOrder, RankOrder, MainInv, MainOf
<1>5. RankZeroInv /\ CountInv
  BY DEF RankZeroInv, CountInv, CountOf, AllReturned
<1>6. ConsumerInv /\ ProducerInv
  BY DEF ConsumerInv, ProducerInv
<1>7. SequenceInv /\ WindowInv
  BY DEF SequenceInv, WindowInv, Window, Got, Sent
<1>8. FillingInv /\ CopyInv
  BY DEF FillingInv, Filling, CopyInv, CopyOf, Got, Sent, Experts
<1> QED
  BY <1>2, <1>3, <1>4, <1>5, <1>6, <1>7, <1>8 DEF IInv

\* The invariant is preserved by the callers' threads.
LEMMA MainNextInv ==
    ASSUME IInv, NEW r \in Ranks, MainNext(r)
    PROVE  IInv'
<1> USE DEF control, main, producer, consumer, process
<1>1. CASE Construct(r)
  BY <1>1, ConstructInv
<1>2. CASE ConstructFails(r)
  <2>1. poison' \in Poisons
    <3>1. CASE UNCHANGED poison
      BY <3>1 DEF IInv, ControlTypeOK
    <3>2. CASE Claim("CudaInitialization", r)
      BY <3>2, ClaimType DEF Codes
    <3> QED
      BY <1>2, <3>1, <3>2 DEF ConstructFails
  <2> QED
    BY <1>2, <2>1, ConstructFailsInv
<1>3. ASSUME NEW from \in {"idle", "join", "check", "wait"}, NEW code \in Codes,
             MainPoisons(r, from, code)
      PROVE  IInv'
  <2>1. poison' \in Poisons
    BY <1>3, ClaimType DEF MainPoisons
  <2> QED
    BY <1>3, <2>1, MainFailsInv DEF MainPoisons, MainStep
<1>4. CASE CallRejected(r) \/ MainAborted(r)
  <2>1. poison' \in Poisons
    BY <1>4 DEF CallRejected, MainAborted, IInv, ControlTypeOK
  <2> QED
    BY <1>4, <2>1, MainFailsInv DEF CallRejected, MainAborted, MainStep
<1>5. CASE JoinTooLate(r) \/ MainTimeout(r)
  BY <1>3, <1>5 DEF JoinTooLate, MainTimeout, Codes
<1>6. ASSUME NEW e \in Epochs, NEW c \in Counts, JoinCall(r, e, c) PROVE IInv'
  <2>1. CASE r = 0 /\ e <= active
    BY <1>3, <1>6, <2>1 DEF JoinCall, Codes
  <2>2. CASE ~(r = 0 /\ e <= active)
    <3>1. /\ MainStep(r, "idle", "join")
          /\ mEpoch' = [mEpoch EXCEPT ![r] = e] /\ mCount' = [mCount EXCEPT ![r] = c]
          /\ UNCHANGED <<control, poison, host, gpu, producer, consumer, process>>
      BY <1>6, <2>2 DEF JoinCall
    <3>2. (r = 0 => e > active) /\ (r # 0 => e # mEpoch[r])
      BY <1>6, <2>2, EpochAssumption DEF JoinCall, Epochs, IInv, ControlTypeOK, MainTypeOK
    <3> QED
      BY <3>1, <3>2, JoinCallInv
  <2> QED
    BY <2>1, <2>2
<1>7. CASE JoinWaited(r)
  BY <1>7, JoinWaitedInv
<1>8. CASE CheckLayer(r)
  <2>1. CASE expertCount # mCount[r]
    BY <1>3, <1>8, <2>1 DEF CheckLayer, Codes
  <2>2. CASE expertCount = mCount[r]
    BY <1>8, <2>2, CheckLayerInv DEF CheckLayer
  <2> QED
    BY <2>1, <2>2
<1>9. CASE StoreJoin(r)
  BY <1>9, StoreJoinInv
<1>10. CASE r = 0 /\ (PublishCount \/ PublishEpoch)
  BY <1>10, PublishCountInv, PublishEpochInv
<1>11. ASSUME NEW e \in Epochs, WaitCall(r, e) PROVE IInv'
  <2>1. CASE joinEpoch[r] # e
    BY <1>3, <1>11, <2>1 DEF WaitCall, Codes
  <2>2. CASE joinEpoch[r] = e
    BY <1>11, <2>2, WaitCallInv DEF WaitCall
  <2> QED
    BY <2>1, <2>2
<1>12. CASE WaitDone(r) \/ WaitReturn(r)
  BY <1>12, WaitDoneInv, WaitReturnInv
<1> QED
  BY <1>1, <1>2, <1>4, <1>5, <1>6, <1>7, <1>8, <1>9, <1>10, <1>11, <1>12 DEF MainNext

\* ... by the producer.
LEMMA ProducerNextInv ==
    ASSUME IInv, ProducerNext
    PROVE  IInv'
<1> USE DEF control, main, producer, consumer, process
<1>1. ASSUME NEW code \in Codes, ProducerThrows(code) PROVE IInv'
  <2>1. poison' \in Poisons
    BY <1>1, ClaimType, ZeroRank DEF ProducerThrows
  <2> QED
    BY <1>1, <2>1, ProducerFailsInv DEF ProducerThrows, ProducerStep
<1>2. CASE ProducerAborted \/ ProducerTimeout \/ WriterFails
  BY <1>1, <1>2 DEF ProducerAborted, ProducerTimeout, WriterFails, Codes
<1>3. CASE ProducerRejected
  <2>1. poison' \in Poisons
    BY <1>3 DEF ProducerRejected, IInv, ControlTypeOK
  <2> QED
    BY <1>3, <2>1, ProducerFailsInv DEF ProducerRejected, ProducerStep
<1>4. ASSUME NEW e \in Epochs, NEW c \in Counts, ProducerCall(e, c) PROVE IInv'
  <2>1. CASE active # e \/ expertCount # c \/ joinEpoch[0] # e
    <3>1. poison' \in Poisons
      BY <1>4, <2>1, ClaimType, ZeroRank DEF ProducerCall, Codes
    <3> QED
      BY <1>4, <2>1, <3>1, ProducerFailsInv DEF ProducerCall, ProducerStep
  <2>2. CASE active = e /\ expertCount = c /\ joinEpoch[0] = e
    BY <1>4, <2>2, ProducerCallInv DEF ProducerCall
  <2> QED
    BY <2>1, <2>2
<1>5. CASE Gathered \/ BeginWrite \/ EndWrite
  BY <1>5, GatheredInv, BeginWriteInv, EndWriteInv
<1>6. CASE PublishMeta \/ PublishSequence
  BY <1>6, PublishMetaInv, PublishSequenceInv
<1>7. CASE Drained \/ ProducerReturn
  BY <1>7, DrainedInv, ProducerReturnInv
<1> QED
  BY <1>2, <1>3, <1>4, <1>5, <1>6, <1>7 DEF ProducerNext

\* ... by the consumers and their devices.
LEMMA ConsumerNextInv ==
    ASSUME IInv, NEW r \in Ranks, ConsumerNext(r) \/ DmaComplete(r)
    PROVE  IInv'
<1> USE DEF control, main, producer, consumer, process
<1>1. ASSUME NEW code \in Codes, cpc[r] # "new", ConsumerThrows(r, code) PROVE IInv'
  <2>1. poison' \in Poisons
    <3>1. CASE Claim(code, r)
      BY <3>1, ClaimType
    <3>2. CASE UNCHANGED poison
      BY <3>2 DEF IInv, ControlTypeOK
    <3> QED
      BY <1>1, <3>1, <3>2 DEF ConsumerThrows
  <2> QED
    BY <1>1, <2>1, ConsumerExitsInv DEF ConsumerThrows, ConsumerStep
<1>2. CASE ConsumerAborted(r) \/ ConsumerTimeout(r) \/ CopyFails(r)
  BY <1>1, <1>2 DEF ConsumerAborted, ConsumerTimeout, CopyFails, Codes
<1>3. CASE BeginLayer(r) \/ BeginCopy(r)
  BY <1>3, BeginLayerInv, BeginCopyInv
<1>4. CASE DmaComplete(r) \/ Acknowledge(r) \/ EndLayer(r)
  BY <1>4, DmaCompleteInv, AcknowledgeInv, EndLayerInv
<1> QED
  BY <1>2, <1>3, <1>4 DEF ConsumerNext

\* ... by closing, dying and poisoning processes.
LEMMA ProcessNextInv ==
    ASSUME IInv,
           FinishPoison \/ \E r \in Ranks : CloseCall(r) \/ CloseNext(r) \/ Crash(r)
    PROVE  IInv'
<1> USE DEF control, main, producer, consumer, process
<1>1. CASE FinishPoison
  <2>1. poison' \in Poisons
    BY <1>1 DEF FinishPoison, IInv, ControlTypeOK, Poisons
  <2> QED
    BY <1>1, <2>1, ProcessInv DEF FinishPoison, IInv, MainTypeOK
<1>2. ASSUME NEW r \in Ranks, CloseCall(r) \/ CloseNext(r) \/ Crash(r) PROVE IInv'
  <2>1. poison' \in Poisons
    <3>1. CASE UNCHANGED poison
      BY <3>1 DEF IInv, ControlTypeOK
    <3>2. CASE Claim("ClosedWhileActive", r)
      BY <3>2, ClaimType DEF Codes
    <3> QED
      BY <1>2, <3>1, <3>2 DEF CloseCall, CloseNext, CloseStop, CloseReturn, Crash
  <2>2. /\ alive' \in [Ranks -> BOOLEAN]
        /\ closing' \in [Ranks -> CloseStates]
    BY <1>2 DEF CloseCall, CloseNext, CloseStop, CloseReturn, Crash,
       CloseStep, CloseStates, IInv, MainTypeOK
  <2> QED
    BY <1>2, <2>1, <2>2, ProcessInv
       DEF CloseCall, CloseNext, CloseStop, CloseReturn, Crash, CloseStep
<1> QED
  BY <1>1, <1>2

\* ... and by stuttering.
LEMMA StutterInv ==
    ASSUME IInv, UNCHANGED vars
    PROVE  IInv'
<1> USE DEF vars, control, main, producer, consumer, process
<1>1. /\ ControlTypeOK' /\ BufferTypeOK' /\ MainTypeOK' /\ ProducerTypeOK' /\ ConsumerTypeOK'
  BY DEF IInv, ControlTypeOK, BufferTypeOK, MainTypeOK, ProducerTypeOK, ConsumerTypeOK
<1>2. EpochOrder' /\ MainInv' /\ RankZeroInv'
  BY DEF IInv, EpochOrder, RankOrder, MainInv, MainOf, RankZeroInv, AllReturned
<1>3. CountInv' /\ ConsumerInv' /\ ProducerInv'
  BY DEF IInv, CountInv, CountOf, ConsumerInv, ProducerInv
<1>4. SequenceInv' /\ WindowInv'
  BY DEF IInv, SequenceInv, WindowInv, Window, Got, Sent
<1>5. FillingInv' /\ CopyInv'
  BY DEF IInv, FillingInv, Filling, CopyInv, CopyOf, Got, Sent
<1> QED
  BY <1>1, <1>2, <1>3, <1>4, <1>5 DEF IInv

\* The inductive invariant holds in every reachable state, whatever processes
\* crash, time out or close, and whatever arguments the callers pass.
THEOREM Invariance == Spec => []IInv
<1>1. IInv /\ [Next]_vars => IInv'
  <2> SUFFICES ASSUME IInv, [Next]_vars PROVE IInv'
    OBVIOUS
  <2>1. ASSUME NEW r \in Ranks, MainNext(r) PROVE IInv'
    BY <2>1, MainNextInv
  <2>2. ASSUME NEW r \in Ranks, ConsumerNext(r) \/ DmaComplete(r) PROVE IInv'
    BY <2>2, ConsumerNextInv
  <2>3. ASSUME NEW r \in Ranks, CloseCall(r) \/ CloseNext(r) \/ Crash(r) PROVE IInv'
    BY <2>3, ProcessNextInv
  <2>4. CASE ProducerNext
    BY <2>4, ProducerNextInv
  <2>5. CASE FinishPoison
    BY <2>5, ProcessNextInv
  <2>6. CASE UNCHANGED vars
    BY <2>6, StutterInv
  <2> QED
    BY <2>1, <2>2, <2>3, <2>4, <2>5, <2>6 DEF Next
<1> QED
  BY <1>1, InitInv, PTL DEF Spec

-----------------------------------------------------------------------------
(* The properties follow from the invariant. *)

\* A rank whose wait has succeeded is at the end of the layer it asked for.
LEMMA DeliveredLemma == IInv => Delivered
<1> SUFFICES ASSUME IInv, NEW r \in Ranks,
                    \/ mpc[r] = "return"
                    \/ mpc[r] = "idle" /\ mEpoch[r] # 0 /\ waitReturned[r] = mEpoch[r],
                    NEW x \in 0 .. mCount[r] - 1
             PROVE  gpu[r][x] = Weights(mEpoch[r], x)
  BY DEF Delivered
<1>1. MainOf(r) /\ RankOrder(r) /\ CountOf(r) /\ CopyOf(r)
  BY DEF IInv, MainInv, EpochOrder, CountInv, CopyInv
<1>2. /\ cEpoch[r] \in Nat /\ consumerDone[r] \in Nat /\ joinEpoch[r] \in Nat
      /\ waitReturned[r] \in Nat /\ mEpoch[r] \in Nat /\ mCount[r] \in 0 .. NumExperts
  BY DEF IInv, ControlTypeOK, ConsumerTypeOK, MainTypeOK
<1>3. consumerDone[r] = mEpoch[r] /\ cEpoch[r] = mEpoch[r] /\ mpc[r] \in {"idle", "return"}
  BY <1>1, <1>2 DEF MainOf, RankOrder
<1>4. cCount[r] = mCount[r] /\ cExpert[r] = cCount[r]
  BY <1>1, <1>3 DEF CountOf, IInv, ConsumerInv
<1>5. x \in Experts /\ x < cExpert[r]
  BY <1>2, <1>4, SizeAssumption DEF Experts
<1> QED
  BY <1>1, <1>3, <1>5 DEF CopyOf

\* A producer that is done has seen every rank acknowledge everything.
LEMMA GroupDeliveredLemma == IInv => GroupDelivered
<1> SUFFICES ASSUME IInv, pEpoch = active, producerDone = active,
                    NEW r \in Ranks, NEW x \in 0 .. pCount - 1
             PROVE  gpu[r][x] = Weights(active, x)
  BY DEF GroupDelivered
<1>1. pExpert = pCount /\ cEpoch[r] = active /\ cExpert[r] = pExpert
  BY DEF IInv, ProducerInv
<1>2. x \in Experts /\ x < cExpert[r]
  BY <1>1, SizeAssumption DEF Experts, IInv, ProducerTypeOK
<1> QED
  BY <1>1, <1>2 DEF IInv, CopyInv, CopyOf

\* A rank that has not joined the active layer has returned from its last one.
LEMMA LockstepLemma == IInv => Lockstep
<1> SUFFICES ASSUME IInv, NEW r \in Ranks, NEW q \in Ranks, joinEpoch[q] < joinEpoch[r]
             PROVE  waitReturned[q] = joinEpoch[q]
  BY DEF Lockstep
<1> QED
  BY DEF IInv, EpochOrder, RankOrder, ControlTypeOK

\* An awaiting consumer is in the active layer.
LEMMA NoOverrunLemma == IInv => NoOverrun
<1> SUFFICES ASSUME IInv, NEW r \in Ranks, cpc[r] = "await"
             PROVE  ~(active > cEpoch[r])
  BY DEF NoOverrun, EpochOverrun
<1>1. cEpoch[r] > consumerDone[r]
  BY DEF IInv, ConsumerInv
<1>2. cEpoch[r] = active /\ active \in Nat
  BY <1>1, InLayer DEF IInv, ControlTypeOK
<1> QED
  BY <1>2

\* Every variable of the transport keeps its type: in particular no consumer
\* copies past the GPU buffer.
THEOREM TypeCorrect == Spec => []TypeOK
BY Invariance, PTL DEF IInv, TypeOK

\* No H2D copy ever reads a host slot that the writer has touched since the
\* expert was published, in any interleaving and after any fault.
THEOREM CopiesIntact == Spec => []CopyIntact
BY Invariance, CopyIntactLemma, PTL

\* A wait that returns without an exception leaves the requested experts on
\* the GPU until the rank's next join, for every group size and layer.
THEOREM LayersDelivered == Spec => []Delivered
BY Invariance, DeliveredLemma, PTL

\* producer_done_epoch is only published when every rank has every expert.
THEOREM GroupIsDelivered == Spec => []GroupDelivered
BY Invariance, GroupDeliveredLemma, PTL

\* The ranks proceed from layer to layer in lockstep.
THEOREM RanksInLockstep == Spec => []Lockstep
BY Invariance, LockstepLemma, PTL

\* The consumers' check of the active epoch never fires.
THEOREM ConsumersNotOverrun == Spec => []NoOverrun
BY Invariance, NoOverrunLemma, PTL

-----------------------------------------------------------------------------
(* Without faults nobody poisons the group.  IInv holds for callers of any *)
(* kind; that no check of the code ever fires needs more: the callers are  *)
(* in consecutive epochs and agree on their arguments.                     *)

\* The states of a caller that is inside join.
Joining == {"join", "count", "epoch", "check", "joined"}

QuietOf(r) ==
    /\ closing[r] = "open" /\ mpc[r] # "failed"
    /\ mpc[r] \in Joining => waitReturned[r] = joinEpoch[r] /\ mEpoch[r] = joinEpoch[r] + 1
    /\ active <= joinEpoch[r] + 1
    /\ \A q \in Ranks : mEpoch[q] = mEpoch[r] => mCount[q] = mCount[r]

Quiet ==
    /\ Healthy
    /\ mEpoch[0] = active /\ active # 0 => expertCount = mCount[0]
    /\ \A r \in Ranks : QuietOf(r)

\* A step of any thread that leaves the callers' variables alone is harmless.
LEMMA QuietKept ==
    ASSUME Quiet, Healthy',
           UNCHANGED <<closing, mpc, waitReturned, joinEpoch, mEpoch, mCount, active, expertCount>>
    PROVE  Quiet'
BY DEF Quiet, QuietOf

\* So is a step of a caller that only moves on inside join or inside wait.
LEMMA QuietMoved ==
    ASSUME Quiet, IInv, Healthy', NEW r \in Ranks, NEW to \in MainStates, to # "failed",
           to \in Joining => mpc[r] \in Joining,
           mpc' = [mpc EXCEPT ![r] = to],
           UNCHANGED <<closing, waitReturned, joinEpoch, mEpoch, mCount, active, expertCount>>
    PROVE  Quiet'
<1>1. mpc \in [Ranks -> MainStates]
  BY DEF IInv, MainTypeOK
<1>2. ASSUME NEW q \in Ranks PROVE QuietOf(q)'
  BY <1>1, <1>2 DEF Quiet, QuietOf
<1>3. (mEpoch[0] = active /\ active # 0 => expertCount = mCount[0])'
  BY DEF Quiet
<1> QED
  BY <1>2, <1>3 DEF Quiet

\* The types that the arithmetic on epochs needs.
LEMMA EpochTypes ==
    ASSUME IInv, NEW r \in Ranks
    PROVE  /\ active \in Nat /\ producerDone \in Nat /\ pEpoch \in Nat
           /\ joinEpoch[r] \in Nat /\ waitReturned[r] \in Nat /\ consumerDone[r] \in Nat
           /\ cEpoch[r] \in Nat /\ mEpoch[r] \in Nat
BY DEF IInv, ControlTypeOK, MainTypeOK, ProducerTypeOK, ConsumerTypeOK

\* While a rank compares its arguments with those that rank 0 has published,
\* rank 0 is still in that layer; so the two agree.
LEMMA ArgumentsAgree ==
    ASSUME IInv, Quiet, NEW r \in Ranks, mpc[r] = "check"
    PROVE  expertCount = mCount[r]
<1>1. active = mEpoch[r] /\ mEpoch[r] # joinEpoch[r] /\ active # 0
  BY EpochTypes DEF IInv, MainInv, MainOf
<1>2. mEpoch[0] = active
  <2>1. MainOf(0) /\ RankOrder(0) /\ QuietOf(0) /\ mpc[0] \in MainStates
    BY ZeroRank DEF IInv, MainInv, EpochOrder, Quiet, MainTypeOK
  <2>2. /\ active \in Nat /\ joinEpoch[0] \in Nat /\ waitReturned[0] \in Nat
        /\ producerDone \in Nat /\ pEpoch \in Nat
    BY ZeroRank, EpochTypes
  <2>3. mpc[0] # "joined" => joinEpoch[0] = active
    BY DEF IInv, RankZeroInv
  <2>4. mpc[0] \notin {"join", "count", "epoch"}
    <3> SUFFICES ASSUME mpc[0] \in {"join", "count", "epoch"} PROVE FALSE
      OBVIOUS
    <3>1. waitReturned[0] = active
      BY <2>1, <2>3 DEF QuietOf, Joining
    <3>2. producerDone = active /\ pEpoch = active
      BY <2>1, <2>2, <3>1 DEF RankOrder, IInv, EpochOrder
    <3>3. cEpoch[r] = active
      BY <3>2 DEF IInv, ProducerInv
    <3>4. joinEpoch[r] = active
      BY <3>3, EpochTypes DEF IInv, EpochOrder, RankOrder
    <3> QED
      BY <1>1, <3>4
  <2> QED
    BY <1>1, <2>1, <2>3, <2>4 DEF MainOf, QuietOf, MainStates
<1> QED
  BY <1>1, <1>2, ZeroRank DEF Quiet, QuietOf

\* The producer is called for the layer that rank 0 has published.
LEMMA ProducerArgumentsAgree ==
    ASSUME IInv, Quiet, NEW e \in Epochs, NEW c \in Counts,
           mpc[0] \notin {"new", "unbuilt"}, e > pEpoch, e = joinEpoch[0], c = mCount[0]
    PROVE  active = e /\ expertCount = c
<1>1. MainOf(0) /\ RankOrder(0) /\ QuietOf(0) /\ mpc[0] \in MainStates
  BY ZeroRank DEF IInv, MainInv, EpochOrder, Quiet, MainTypeOK
<1>2. /\ active \in Nat /\ joinEpoch[0] \in Nat /\ waitReturned[0] \in Nat
      /\ producerDone \in Nat /\ pEpoch \in Nat /\ mEpoch[0] \in Nat
  BY ZeroRank, EpochTypes
<1>3. mpc[0] \notin Joining
  <2> SUFFICES ASSUME mpc[0] \in Joining PROVE FALSE
    OBVIOUS
  <2>1. waitReturned[0] = e
    BY <1>1 DEF QuietOf
  <2> QED
    BY <1>1, <1>2, <2>1 DEF RankOrder, IInv, EpochOrder
<1>4. joinEpoch[0] = active /\ mEpoch[0] = joinEpoch[0]
  BY <1>1, <1>3 DEF IInv, RankZeroInv, MainOf, QuietOf, MainStates, Joining
<1> QED
  BY <1>2, <1>4 DEF Quiet

\* The callers stay in consecutive epochs and never raise an error.
LEMMA QuietMain ==
    ASSUME IInv, Quiet, faults = {}, NEW r \in Ranks, MainNext(r)
    PROVE  Quiet'
<1> USE DEF control, main, producer, consumer, process
<1>1. Healthy /\ QuietOf(r) /\ ~Closed(r) /\ ~Stopping(r) /\ ~Misuse
  BY DEF Quiet, QuietOf, Closed, Stopping, Misuse
<1>2. MainOf(r) /\ RankOrder(r) /\ mpc \in [Ranks -> MainStates]
  BY DEF IInv, MainInv, EpochOrder, MainTypeOK
<1>3. CASE Construct(r)
  BY <1>1, <1>3, QuietMoved DEF Construct, Healthy, MainStates, Joining
<1>4. CASE ConstructFails(r) \/ CallRejected(r) \/ MainTimeout(r) \/ MainAborted(r)
  BY <1>1, <1>4 DEF ConstructFails, CallRejected, MainTimeout, MainAborted
<1>5. ASSUME NEW e \in Epochs, NEW c \in Counts, JoinCall(r, e, c) PROVE Quiet'
  <2>1. /\ mpc[r] = "idle" /\ e = mEpoch[r] + 1 /\ waitReturned[r] = mEpoch[r]
        /\ \A q \in Ranks : mEpoch[q] = e => mCount[q] = c
    BY <1>1, <1>5 DEF JoinCall, MainPoisons, MainStep
  <2>2. mEpoch[r] = joinEpoch[r] /\ (r = 0 => joinEpoch[r] = active)
    BY <1>2, <2>1 DEF MainOf, IInv, RankZeroInv
  <2>3. ~(r = 0 /\ e <= active)
    BY <2>1, <2>2, EpochTypes
  <2>4. /\ mpc' = [mpc EXCEPT ![r] = "join"]
        /\ mEpoch' = [mEpoch EXCEPT ![r] = e] /\ mCount' = [mCount EXCEPT ![r] = c]
        /\ UNCHANGED <<closing, poison, waitReturned, joinEpoch, active, expertCount>>
    BY <1>5, <2>3 DEF JoinCall, MainStep
  <2>5. mEpoch \in [Ranks -> Nat] /\ mCount \in [Ranks -> 0 .. NumExperts]
    BY DEF IInv, MainTypeOK
  <2>6. ASSUME NEW q \in Ranks PROVE QuietOf(q)'
    <3>1. QuietOf(q)
      BY DEF Quiet
    <3>2. (closing[q] = "open" /\ mpc[q] # "failed" /\ active <= joinEpoch[q] + 1)'
      BY <1>2, <2>4, <3>1 DEF QuietOf
    <3>3. (mpc[q] \in Joining => waitReturned[q] = joinEpoch[q] /\ mEpoch[q] = joinEpoch[q] + 1)'
      BY <1>2, <2>1, <2>2, <2>4, <2>5, <3>1 DEF QuietOf
    <3>4. ASSUME NEW p \in Ranks, mEpoch'[p] = mEpoch'[q] PROVE mCount'[p] = mCount'[q]
      BY <2>1, <2>4, <2>5, <3>1, <3>4 DEF QuietOf
    <3> QED
      BY <3>2, <3>3, <3>4 DEF QuietOf
  <2>7. (mEpoch[0] = active /\ active # 0 => expertCount = mCount[0])'
    <3>1. CASE r = 0
      BY <2>1, <2>2, <2>4, <2>5, <3>1, EpochTypes
    <3>2. CASE r # 0
      BY <2>4, <2>5, <3>2, ZeroRank DEF Quiet
    <3> QED
      BY <3>1, <3>2
  <2> QED
    BY <1>1, <2>4, <2>6, <2>7 DEF Quiet, Healthy
<1>6. CASE JoinWaited(r)
  BY <1>1, <1>6, QuietMoved DEF JoinWaited, MainStep, Healthy, MainStates, Joining
<1>7. CASE JoinTooLate(r)
  <2>1. mpc[r] = "join" /\ active > mEpoch[r]
    BY <1>7 DEF JoinTooLate, MainPoisons, MainStep
  <2> QED
    BY <1>1, <2>1, EpochTypes DEF QuietOf, Joining
<1>8. CASE CheckLayer(r)
  <2>1. mpc[r] = "check"
    BY <1>8 DEF CheckLayer, MainPoisons, MainStep
  <2>2. expertCount = mCount[r]
    BY <2>1, ArgumentsAgree
  <2> QED
    BY <1>1, <1>8, <2>2, QuietMoved DEF CheckLayer, MainStep, Healthy, MainStates, Joining
<1>9. CASE StoreJoin(r)
  <2>1. /\ mpc[r] = "joined" /\ mpc' = [mpc EXCEPT ![r] = "idle"]
        /\ joinEpoch' = [joinEpoch EXCEPT ![r] = mEpoch[r]]
        /\ UNCHANGED <<closing, poison, waitReturned, mEpoch, mCount, active, expertCount>>
    BY <1>9 DEF StoreJoin, MainStep
  <2>2. active = mEpoch[r] /\ joinEpoch \in [Ranks -> Nat]
    BY <1>2, <2>1 DEF MainOf, IInv, ControlTypeOK
  <2>3. ASSUME NEW q \in Ranks PROVE QuietOf(q)'
    <3>1. QuietOf(q)
      BY DEF Quiet
    <3>2. CASE q = r
      BY <1>2, <2>1, <2>2, <3>1, <3>2, EpochTypes DEF QuietOf, Joining
    <3>3. CASE q # r
      BY <1>2, <2>1, <2>2, <3>1, <3>3 DEF QuietOf
    <3> QED
      BY <3>2, <3>3
  <2> QED
    BY <1>1, <2>1, <2>3 DEF Quiet, Healthy
<1>10. CASE r = 0 /\ PublishCount
  <2>1. /\ mpc[0] = "count" /\ mpc' = [mpc EXCEPT ![0] = "epoch"]
        /\ UNCHANGED <<closing, poison, waitReturned, joinEpoch, mEpoch, mCount, active>>
    BY <1>10 DEF PublishCount, MainStep
  <2>2. mEpoch[0] # active
    BY <2>1, ZeroRank, EpochTypes DEF IInv, RankZeroInv
  <2>3. ASSUME NEW q \in Ranks PROVE QuietOf(q)'
    BY <1>2, <2>1, <2>3 DEF Quiet, QuietOf, Joining
  <2> QED
    BY <1>1, <2>1, <2>2, <2>3 DEF Quiet, Healthy
<1>11. CASE r = 0 /\ PublishEpoch
  <2>1. /\ mpc[0] = "epoch" /\ mpc' = [mpc EXCEPT ![0] = "joined"] /\ active' = mEpoch[0]
        /\ UNCHANGED <<closing, poison, waitReturned, joinEpoch, mEpoch, mCount, expertCount>>
    BY <1>11 DEF PublishEpoch, MainStep
  <2>2. expertCount = mCount[0] /\ AllReturned /\ joinEpoch[0] = active
    BY <2>1 DEF IInv, CountInv, RankZeroInv
  <2>3. active' = active + 1
    BY <2>1, <2>2, ZeroRank DEF Quiet, QuietOf, Joining
  <2>4. ASSUME NEW q \in Ranks PROVE QuietOf(q)'
    <3>1. QuietOf(q) /\ RankOrder(q)
      BY DEF Quiet, IInv, EpochOrder
    <3>2. active <= joinEpoch[q]
      BY <2>2, <3>1, EpochTypes DEF AllReturned, RankOrder
    <3> QED
      BY <1>2, <2>1, <2>3, <3>1, <3>2, EpochTypes DEF QuietOf, Joining
  <2> QED
    BY <1>1, <2>1, <2>2, <2>4 DEF Quiet, Healthy
<1>12. ASSUME NEW e \in Epochs, WaitCall(r, e) PROVE Quiet'
  BY <1>1, <1>12, QuietMoved DEF WaitCall, MainStep, Healthy, MainStates, Joining
<1>13. CASE WaitDone(r)
  BY <1>1, <1>13, QuietMoved DEF WaitDone, MainStep, Healthy, MainStates, Joining
<1>14. CASE WaitReturn(r)
  <2>1. /\ mpc' = [mpc EXCEPT ![r] = "idle"]
        /\ waitReturned' = [waitReturned EXCEPT ![r] = joinEpoch[r]]
        /\ UNCHANGED <<closing, poison, joinEpoch, mEpoch, mCount, active, expertCount>>
    BY <1>14 DEF WaitReturn, MainStep
  <2>2. ASSUME NEW q \in Ranks PROVE QuietOf(q)'
    BY <1>2, <2>1, <2>2 DEF Quiet, QuietOf, Joining
  <2> QED
    BY <1>1, <2>1, <2>2 DEF Quiet, Healthy
<1> QED
  BY <1>3, <1>4, <1>5, <1>6, <1>7, <1>8, <1>9, <1>10, <1>11, <1>12, <1>13, <1>14 DEF MainNext

\* The producer raises no error.
LEMMA QuietProducer ==
    ASSUME IInv, Quiet, faults = {}, ProducerNext
    PROVE  Quiet'
<1> USE DEF control, main, producer, consumer, process
<1>1. Healthy /\ ~Closed(0) /\ ~Stopping(0) /\ ~Misuse
  BY ZeroRank DEF Quiet, QuietOf, Closed, Stopping, Misuse
<1>2. CASE ProducerRejected \/ ProducerAborted \/ ProducerTimeout \/ WriterFails
  BY <1>1, <1>2 DEF ProducerRejected, ProducerAborted, ProducerTimeout, WriterFails
<1>3. ASSUME NEW e \in Epochs, NEW c \in Counts, ProducerCall(e, c) PROVE Quiet'
  <2>1. active = e /\ expertCount = c /\ joinEpoch[0] = e
    BY <1>1, <1>3, ProducerArgumentsAgree DEF ProducerCall
  <2>2. UNCHANGED <<poison, control, main, process>>
    BY <1>3, <2>1 DEF ProducerCall
  <2> QED
    BY <1>1, <2>2, QuietKept DEF Healthy
<1>4. CASE Gathered \/ BeginWrite \/ EndWrite \/ PublishMeta
  BY <1>1, <1>4, QuietKept DEF Gathered, BeginWrite, EndWrite, PublishMeta, Healthy
<1>5. CASE PublishSequence \/ Drained \/ ProducerReturn
  BY <1>1, <1>5, QuietKept DEF PublishSequence, Drained, ProducerReturn, Healthy
<1> QED
  BY <1>2, <1>3, <1>4, <1>5 DEF ProducerNext

\* Nor does a consumer, and no process closes, dies or finishes a poison.
LEMMA QuietOthers ==
    ASSUME IInv, Quiet, faults = {},
           \/ FinishPoison
           \/ \E r \in Ranks : \/ ConsumerNext(r) \/ DmaComplete(r)
                               \/ CloseCall(r) \/ CloseNext(r) \/ Crash(r)
    PROVE  Quiet'
<1> USE DEF control, main, producer, consumer, process
<1>1. CASE FinishPoison
  BY <1>1 DEF FinishPoison, Quiet, Healthy
<1>2. ASSUME NEW r \in Ranks,
             \/ ConsumerNext(r) \/ DmaComplete(r)
             \/ CloseCall(r) \/ CloseNext(r) \/ Crash(r)
      PROVE  Quiet'
  <2>1. Healthy /\ closing[r] = "open" /\ ~Stopping(r) /\ ~EpochOverrun(r)
    BY NoOverrunLemma DEF Quiet, QuietOf, Stopping, NoOverrun
  <2>2. CASE \/ ConsumerAborted(r) \/ ConsumerTimeout(r) \/ CopyFails(r)
             \/ CloseCall(r) \/ CloseNext(r) \/ Crash(r)
    BY <2>1, <2>2 DEF ConsumerAborted, ConsumerTimeout, CopyFails, CloseCall, CloseNext,
       CloseStop, CloseReturn, CloseStep, Crash
  <2>3. CASE BeginLayer(r) \/ BeginCopy(r) \/ DmaComplete(r)
    BY <2>1, <2>3, QuietKept DEF BeginLayer, BeginCopy, DmaComplete, Healthy
  <2>4. CASE Acknowledge(r) \/ EndLayer(r)
    BY <2>1, <2>4, QuietKept DEF Acknowledge, EndLayer, Healthy
  <2> QED
    BY <1>2, <2>2, <2>3, <2>4 DEF ConsumerNext
<1> QED
  BY <1>1, <1>2

\* For every group size, every number of layers and experts: where nothing
\* fails and the callers respect the protocol, none of the checks and timeouts
\* of the transport poisons the group.
THEOREM NobodyPoisons == Spec => []NeverPoisoned
<1> DEFINE QInv == faults = {} => Quiet
<1>1. Init => QInv
  BY ZeroRank DEF Init, Quiet, QuietOf, Healthy, Joining
<1>2. IInv /\ QInv /\ [Next]_vars => QInv'
  <2> SUFFICES ASSUME IInv, QInv, [Next]_vars, faults' = {} PROVE Quiet'
    OBVIOUS
  <2>1. faults = {} /\ Quiet
    BY DEF Next, vars
  <2>2. CASE Next
    BY <2>1, <2>2, QuietMain, QuietProducer, QuietOthers DEF Next
  <2>3. CASE UNCHANGED vars
    BY <2>1, <2>3, QuietKept DEF vars, control, main, process, Healthy, Quiet
  <2> QED
    BY <2>2, <2>3
<1>3. QInv => NeverPoisoned
  BY DEF NeverPoisoned, Quiet
<1> QED
  BY <1>1, <1>2, <1>3, Invariance, PTL DEF Spec
=============================================================================
