--------------------------- MODULE RunViewsProofs ---------------------------
(***************************************************************************)
(* Proofs about what a user sees of a run: ResultDelivery, in the chat;     *)
(* Dashboard, in the terminal, for any files, saves and length of the list; *)
(* Transcripts, in the files of its children, for any messages, edits and   *)
(* faults.  They share no variable.                                         *)
(***************************************************************************)
EXTENDS ResultDelivery, Dashboard, Transcripts, SequenceTheorems, FiniteSetTheorems, TLAPS
-----------------------------------------------------------------------------
(* ResultDelivery.                                                         *)
\* One snapshot: the bubble becomes active once, when its seed lands, and the final
\* snapshot ends that.
SnapshotInv ==
  /\ worker = "launching" => seed = "none"
  /\ seed # "landed" => ~active /\ finals = 0
  /\ active => finals = 0
  /\ finals <= 1

\* A thread between its claim and the answer to its send.
WorkerSends == worker \in {"submitting", "sending"}
LoopSends   == loop = "submitting" \/ resultSend["loop"] = "flying"

\* One result: a thread that sends has the claim, alone, and finds the result undelivered
\* until it is answered; so what arrives with nothing unsure is what was delivered.
ClaimInv ==
  /\ WorkerSends \/ LoopSends => sendInFlight /\ ~delivered
  /\ ~(WorkerSends /\ LoopSends)
  /\ ~(loop = "submitting" /\ resultSend["loop"] = "flying")

ArrivalInv ==
  /\ ~unsure => arrived = IF delivered THEN 1 ELSE 0
  /\ delivered => arrived > 0

DInv == BubbleTypeOK /\ ResultTypeOK /\ SnapshotInv /\ ClaimInv /\ ArrivalInv

LEMMA DeliveryInitInv == DeliveryInit => DInv
  <1> SUFFICES ASSUME DeliveryInit PROVE DInv
    OBVIOUS
  <1> USE DEF DeliveryInit
  <1>1. BubbleTypeOK
    BY DEF BubbleTypeOK, Workers, Loops, Seeds, Edits
  <1>2. ResultTypeOK
    BY DEF ResultTypeOK, Sends
  <1>3. SnapshotInv /\ ClaimInv /\ ArrivalInv
    BY DEF SnapshotInv, ClaimInv, ArrivalInv, WorkerSends, LoopSends, Senders
  <1> QED
    BY <1>1, <1>2, <1>3 DEF DInv
-----------------------------------------------------------------------------
(* The types.                                                              *)
LEMMA CaptureLiveTyped ==
  ASSUME BubbleTypeOK, NEW e \in Editors, CaptureLive(e)
  PROVE  edit' \in [Editors -> Edits]
  BY DEF BubbleTypeOK, CaptureLive, Edits

LEMMA CaptureFinalTyped ==
  ASSUME BubbleTypeOK, NEW e \in Editors, CaptureFinal(e)
  PROVE  edit' \in [Editors -> Edits] /\ finals' \in Nat
  BY DEF BubbleTypeOK, CaptureFinal, Edits

LEMMA ScheduleTyped ==
  ASSUME BubbleTypeOK, NEW e \in Editors, ScheduleEdit(e)
  PROVE  edit' \in [Editors -> Edits] /\ blurred' \in BOOLEAN
  <1>1. edit' \in [Editors -> Edits]
    BY DEF BubbleTypeOK, ScheduleEdit, Edits
  <1>2. blurred' \in BOOLEAN
    BY DEF BubbleTypeOK, ScheduleEdit
  <1> QED
    BY <1>1, <1>2

LEMMA NextBubbleTypeOK ==
  BubbleTypeOK /\ [DeliveryNext]_deliveryVars => BubbleTypeOK'
  <1> SUFFICES ASSUME BubbleTypeOK, [DeliveryNext]_deliveryVars PROVE BubbleTypeOK'
    OBVIOUS
  <1> USE DEF bubbleVars, resultVars
  <1>1. ASSUME UNCHANGED bubbleVars, worker' \in Workers, loop' \in Loops PROVE BubbleTypeOK'
    BY <1>1 DEF BubbleTypeOK
  <1>2. CASE LaunchStep
    BY <1>2 DEF BubbleTypeOK, LaunchStep, AnnouncePlainly, SeedBubble, Workers, Seeds
  <1>3. CASE SeedLands
    BY <1>3 DEF BubbleTypeOK, SeedLands, Loops, Seeds
  <1>4. CASE SeedFails
    BY <1>4 DEF BubbleTypeOK, SeedFails, Loops, Seeds
  <1>5. CASE GreetBubble
    <2>1. loop' \in Loops /\ worker' \in Workers
      BY <1>5 DEF GreetBubble, Loops, BubbleTypeOK
    <2>2. "greeting" \in Editors
      BY DEF Editors
    <2>3. CASE CaptureLive("greeting")
      BY <2>1, <2>2, <2>3, CaptureLiveTyped DEF CaptureLive, BubbleTypeOK
    <2>4. CASE ScheduleEdit("greeting")
      BY <2>1, <2>2, <2>4, ScheduleTyped DEF ScheduleEdit, BubbleTypeOK
    <2> QED
      BY <1>1, <1>5, <2>1, <2>3, <2>4 DEF GreetBubble
  <1>6. CASE FinishBubble
    <2>1. loop' \in Loops /\ worker' \in Workers
      BY <1>6 DEF FinishBubble, Loops, BubbleTypeOK
    <2>2. "loop" \in Editors
      BY DEF Editors
    <2>3. CASE CaptureFinal("loop")
      BY <2>1, <2>2, <2>3, CaptureFinalTyped DEF CaptureFinal, BubbleTypeOK
    <2>4. CASE ScheduleEdit("loop")
      BY <2>1, <2>2, <2>4, ScheduleTyped DEF ScheduleEdit, BubbleTypeOK
    <2> QED
      BY <1>1, <1>6, <2>1, <2>3, <2>4 DEF FinishBubble
  <1>7. CASE WorkerFinalizes
    <2>1. loop' \in Loops /\ worker' \in Workers
      BY <1>7 DEF WorkerFinalizes, Workers, BubbleTypeOK
    <2>2. "worker" \in Editors
      BY DEF Editors
    <2>3. CASE CaptureFinal("worker")
      BY <2>1, <2>2, <2>3, CaptureFinalTyped DEF CaptureFinal, BubbleTypeOK
    <2>4. CASE ScheduleEdit("worker")
      BY <2>1, <2>2, <2>4, ScheduleTyped DEF ScheduleEdit, BubbleTypeOK
    <2> QED
      BY <1>1, <1>7, <2>1, <2>3, <2>4 DEF WorkerFinalizes
  <1>8. ASSUME NEW e \in Editors, EditAnswered(e) PROVE BubbleTypeOK'
    <2>1. edit' \in [Editors -> Edits] /\ loop' \in Loops
      BY <1>8 DEF EditAnswered, BubbleTypeOK, Edits, Loops
    <2>2. bubble' \in {"none", "live", "final"}
      BY <1>8 DEF EditAnswered, BubbleTypeOK
    <2>3. blurred' \in BOOLEAN
      BY <1>8 DEF EditAnswered, BubbleTypeOK
    <2> QED
      BY <1>8, <2>1, <2>2, <2>3 DEF EditAnswered, BubbleTypeOK
  <1>9. CASE OperatorEdits
    <2>1. "operator" \in Editors
      BY DEF Editors
    <2>2. CASE CaptureLive("operator")
      BY <1>9, <2>1, <2>2, CaptureLiveTyped DEF OperatorEdits, CaptureLive, BubbleTypeOK
    <2>3. CASE ScheduleEdit("operator")
      BY <1>9, <2>1, <2>3, ScheduleTyped DEF OperatorEdits, ScheduleEdit, BubbleTypeOK
    <2> QED
      BY <1>9, <2>2, <2>3 DEF OperatorEdits
  <1>10. CASE \/ LoopDelivers \/ WorkerDelivers \/ LateArrival \/ ThreadProceeds \/ RunOperated
              \/ Poll \/ Wake \/ UNCHANGED deliveryVars
    <2>1. UNCHANGED bubbleVars
      BY <1>10
      DEF LoopDelivers, WorkerDelivers, LateArrival, ThreadProceeds, RunOperated, Poll, Wake,
          deliveryVars
    <2>2. worker' \in Workers /\ loop' \in Loops
      BY <1>10
      DEF LoopDelivers, WorkerDelivers, LateArrival, ThreadProceeds, RunOperated, Poll, Wake,
          deliveryVars, BubbleTypeOK, Workers, Loops
    <2> QED
      BY <1>1, <2>1, <2>2
  <1> QED
    BY <1>2, <1>3, <1>4, <1>5, <1>6, <1>7, <1>8, <1>9, <1>10
    DEF DeliveryNext, LoopStep, WorkerStep

LEMMA NextResultTypeOK ==
  ResultTypeOK /\ [DeliveryNext]_deliveryVars => ResultTypeOK'
  <1> SUFFICES ASSUME ResultTypeOK, [DeliveryNext]_deliveryVars PROVE ResultTypeOK'
    OBVIOUS
  <1> USE DEF ResultTypeOK, resultVars, Senders, Sends
  \* What each party does to the claim and its send.
  <1>1. ASSUME NEW s \in Senders, woken' \in BOOLEAN,
               Claim \/ NothingToClaim \/ Submit(s) \/ FinishUnsent \/ FinishSent(s)
        PROVE  ResultTypeOK'
    <2>1. sendInFlight' \in BOOLEAN
      BY <1>1 DEF Claim, NothingToClaim, Submit, FinishUnsent, FinishSent
    <2>2. delivered' \in BOOLEAN
      BY <1>1 DEF Claim, NothingToClaim, Submit, FinishUnsent, FinishSent
    <2>3. unsure' \in BOOLEAN
      BY <1>1 DEF Claim, NothingToClaim, Submit, FinishUnsent, FinishSent
    <2>4. resultSend' \in [Senders -> Sends]
      BY <1>1 DEF Claim, NothingToClaim, Submit, FinishUnsent, FinishSent
    <2>5. arrived' \in Nat /\ attempts' \in Nat
      BY <1>1 DEF Claim, NothingToClaim, Submit, FinishUnsent, FinishSent
    <2> QED
      BY <1>1, <2>1, <2>2, <2>3, <2>4, <2>5
  <1>2. CASE LoopDelivers
    BY <1>1, <1>2 DEF LoopDelivers
  <1>3. ASSUME NEW how \in {"late", "over"}, woken' \in BOOLEAN,
               resultSend' = [resultSend EXCEPT !["worker"] = how],
               sendInFlight' = FALSE \/ UNCHANGED sendInFlight,
               unsure' = TRUE \/ UNCHANGED unsure,
               arrived' = arrived + 1 \/ UNCHANGED arrived,
               UNCHANGED <<delivered, attempts>>
        PROVE  ResultTypeOK'
    <2>1. sendInFlight' \in BOOLEAN /\ unsure' \in BOOLEAN /\ delivered' \in BOOLEAN
      BY <1>3
    <2>2. resultSend' \in [Senders -> Sends] /\ arrived' \in Nat /\ attempts' \in Nat
      BY <1>3
    <2> QED
      BY <1>3, <2>1, <2>2
  <1>4. CASE WorkerDelivers
    <2>1. woken' \in BOOLEAN
      BY <1>4 DEF WorkerDelivers
    <2> HIDE DEF ResultTypeOK
    <2> QED
      BY <1>1, <1>3, <1>4, <2>1 DEF WorkerDelivers
  <1>5. CASE LateArrival
    <2>1. woken' \in BOOLEAN
      BY <1>5 DEF LateArrival
    <2> HIDE DEF ResultTypeOK
    <2> QED
      BY <1>3, <1>5, <2>1 DEF LateArrival
  <1>6. CASE Wake
    BY <1>6 DEF Wake
  <1>7. CASE \/ LaunchStep \/ SeedLands \/ SeedFails \/ GreetBubble \/ FinishBubble
             \/ (\E e \in Editors : EditAnswered(e)) \/ WorkerFinalizes \/ OperatorEdits
             \/ ThreadProceeds \/ RunOperated \/ Poll \/ UNCHANGED deliveryVars
    <2>1. UNCHANGED <<resultVars, woken>>
      BY <1>7
      DEF LaunchStep, AnnouncePlainly, SeedBubble, SeedLands, SeedFails, GreetBubble,
          FinishBubble, EditAnswered, WorkerFinalizes, OperatorEdits, ThreadProceeds,
          RunOperated, Poll, deliveryVars
    <2> QED
      BY <2>1
  <1> QED
    BY <1>2, <1>7, <1>4, <1>5, <1>6 DEF DeliveryNext, LoopStep, WorkerStep
-----------------------------------------------------------------------------
(* One final snapshot.                                                     *)
LEMMA NextSnapshotInv ==
  BubbleTypeOK /\ SnapshotInv /\ [DeliveryNext]_deliveryVars => SnapshotInv'
  <1> SUFFICES ASSUME BubbleTypeOK, SnapshotInv, [DeliveryNext]_deliveryVars PROVE SnapshotInv'
    OBVIOUS
  <1> USE DEF SnapshotInv, bubbleVars
  <1>1. ASSUME UNCHANGED <<seed, active, finals>>, worker' = worker \/ worker' # "launching"
        PROVE  SnapshotInv'
    BY <1>1
  <1>2. ASSUME NEW e, CaptureFinal(e), worker' = worker \/ worker' # "launching"
        PROVE  SnapshotInv'
    BY <1>2 DEF CaptureFinal
  <1>3. CASE LaunchStep
    BY <1>3 DEF LaunchStep, AnnouncePlainly, SeedBubble
  <1>4. CASE SeedLands
    BY <1>4 DEF SeedLands
  <1>5. CASE SeedFails
    BY <1>5 DEF SeedFails
  <1>6. CASE FinishBubble \/ WorkerFinalizes
    <2>1. worker' = worker \/ worker' # "launching"
      BY <1>6 DEF FinishBubble, WorkerFinalizes
    <2>2. \/ CaptureFinal("loop") \/ CaptureFinal("worker") \/ UNCHANGED <<seed, active, finals>>
      BY <1>6 DEF FinishBubble, WorkerFinalizes, ScheduleEdit
    <2> QED
      BY <1>1, <1>2, <2>1, <2>2
  <1>7. CASE \/ GreetBubble \/ (\E e \in Editors : EditAnswered(e)) \/ OperatorEdits
             \/ LoopDelivers \/ WorkerDelivers \/ LateArrival \/ ThreadProceeds \/ RunOperated
             \/ Poll \/ Wake \/ UNCHANGED deliveryVars
    <2>1. UNCHANGED <<seed, active, finals>>
      BY <1>7
      DEF GreetBubble, EditAnswered, OperatorEdits, CaptureLive, ScheduleEdit, LoopDelivers,
          WorkerDelivers, LateArrival, ThreadProceeds, RunOperated, Poll, Wake, deliveryVars
    <2>2. worker' = worker \/ worker' # "launching"
      BY <1>7
      DEF GreetBubble, EditAnswered, OperatorEdits, LoopDelivers,
          WorkerDelivers, LateArrival, ThreadProceeds, RunOperated, Poll, Wake, deliveryVars
    <2> QED
      BY <1>1, <2>1, <2>2
  <1> QED
    BY <1>3, <1>4, <1>5, <1>6, <1>7 DEF DeliveryNext, LoopStep, WorkerStep
-----------------------------------------------------------------------------
(* One result.                                                             *)
LEMMA NextClaimInv ==
  DInv /\ [DeliveryNext]_deliveryVars => (ClaimInv /\ ArrivalInv)'
  <1> SUFFICES ASSUME DInv, [DeliveryNext]_deliveryVars PROVE (ClaimInv /\ ArrivalInv)'
    OBVIOUS
  <1>0. ResultTypeOK /\ ClaimInv /\ ArrivalInv
    BY DEF DInv
  <1> USE DEF ClaimInv, ArrivalInv, WorkerSends, LoopSends
  \* A step that delivers nothing only must not make anybody a sender.
  <1>1. ASSUME UNCHANGED resultVars,
               worker' = worker \/ worker' \notin {"submitting", "sending"},
               loop' = loop \/ loop' # "submitting"
        PROVE  (ClaimInv /\ ArrivalInv)'
    BY <1>0, <1>1 DEF resultVars
  <1>2. CASE LoopDelivers
    <2>1. CASE loop = "owing" /\ Claim /\ loop' = "submitting" /\ UNCHANGED worker
      BY <1>0, <2>1 DEF Claim
    <2>2. CASE loop = "submitting" /\ loop' = "idle" /\ Submit("loop") /\ UNCHANGED worker
      BY <1>0, <2>2 DEF Submit, ResultTypeOK, Senders
    <2>3. CASE loop = "submitting" /\ loop' = "idle" /\ FinishUnsent /\ UNCHANGED worker
      BY <1>0, <2>3 DEF FinishUnsent
    <2>4. CASE /\ loop = "idle" /\ resultSend["loop"] = "flying" /\ FinishSent("loop")
               /\ UNCHANGED <<loop, worker>>
      <3>1. ~delivered /\ resultSend'["loop"] = "over" /\ ~WorkerSends /\ arrived \in Nat
        BY <1>0, <2>4 DEF FinishSent, ResultTypeOK, Senders
      <3>2. ClaimInv'
        BY <1>0, <2>4, <3>1 DEF FinishSent
      <3>3. ArrivalInv'
        BY <1>0, <2>4, <3>1 DEF FinishSent
      <3> QED
        BY <3>2, <3>3
    <2> QED
      BY <1>1, <1>2, <2>1, <2>2, <2>3, <2>4 DEF LoopDelivers, NothingToClaim
  <1>3. CASE WorkerDelivers
    <2> USE DEF ResultTypeOK, Senders
    <2>1. CASE worker = "delivering" /\ Claim /\ worker' = "submitting" /\ UNCHANGED loop
      BY <1>0, <2>1 DEF Claim
    <2>2. CASE worker = "submitting" /\ Submit("worker") /\ worker' = "sending" /\ UNCHANGED loop
      BY <1>0, <2>2 DEF Submit
    <2>3. CASE worker = "submitting" /\ FinishUnsent /\ worker' = "waking" /\ UNCHANGED loop
      BY <1>0, <2>3 DEF FinishUnsent
    <2>4. CASE worker = "sending" /\ FinishSent("worker") /\ worker' = "waking" /\ UNCHANGED loop
      <3>1. ~delivered /\ ~LoopSends /\ resultSend'["loop"] # "flying" /\ arrived \in Nat
        BY <1>0, <2>4 DEF FinishSent
      <3>2. ClaimInv'
        BY <1>0, <2>4, <3>1 DEF FinishSent
      <3>3. ArrivalInv'
        BY <1>0, <2>4, <3>1 DEF FinishSent
      <3> QED
        BY <3>2, <3>3
    <2>5. CASE /\ worker = "sending" /\ worker' = "waking"
               /\ resultSend' = [resultSend EXCEPT !["worker"] = "late"]
               /\ sendInFlight' = FALSE
               /\ UNCHANGED <<delivered, arrived, unsure, attempts, loop>>
      BY <1>0, <2>5
    <2> QED
      BY <1>1, <1>3, <2>1, <2>2, <2>3, <2>4, <2>5 DEF WorkerDelivers, NothingToClaim
  <1>4. CASE LateArrival
    BY <1>0, <1>4 DEF LateArrival, ResultTypeOK, Senders
  <1>5. CASE \/ LaunchStep \/ SeedLands \/ SeedFails \/ GreetBubble \/ FinishBubble
             \/ (\E e \in Editors : EditAnswered(e)) \/ WorkerFinalizes \/ OperatorEdits
             \/ ThreadProceeds \/ RunOperated \/ Poll \/ Wake \/ UNCHANGED deliveryVars
    <2> USE DEF LaunchStep, AnnouncePlainly, SeedBubble, SeedLands, SeedFails, GreetBubble,
                FinishBubble, EditAnswered, WorkerFinalizes, OperatorEdits, ThreadProceeds,
                RunOperated, Poll, Wake, deliveryVars
    <2>1. UNCHANGED resultVars
      BY <1>5
    <2>2. worker' = worker \/ worker' \notin {"submitting", "sending"}
      BY <1>5
    <2>3. loop' = loop \/ loop' # "submitting"
      BY <1>5
    <2> QED
      BY <1>1, <2>1, <2>2, <2>3
  <1> QED
    BY <1>2, <1>3, <1>4, <1>5 DEF DeliveryNext, LoopStep, WorkerStep
-----------------------------------------------------------------------------
\* Two threads may both find a run to be completed, on the seed's callback and at the end
\* of the run: one renders the final snapshot, and one at a time sends the result, so that
\* a second message needs an answer that was lost (_edit_progress_bubble,
\* _deliver_result_message, _finish_result_delivery).
THEOREM ResultOnce == DeliverySpec => []OneSnapshotOneResult
  <1>1. DeliveryInit => DInv
    BY DeliveryInitInv
  <1>2. DInv /\ [DeliveryNext]_deliveryVars => DInv'
    BY NextBubbleTypeOK, NextResultTypeOK, NextSnapshotInv, NextClaimInv DEF DInv
  <1>3. DInv => OneSnapshotOneResult
    BY DEF DInv, SnapshotInv, ArrivalInv, ResultTypeOK, OneSnapshotOneResult
  <1> QED
    BY <1>1, <1>2, <1>3, PTL DEF DeliverySpec
-----------------------------------------------------------------------------
\* What the delivery has done before the end of the run: nothing.  Whoever completes the run
\* has seen it over, which it stays.
RunOver == Over <=> phase = "ended"

SealInv ==
  phase # "ended" =>
    /\ worker \in {"launching", "running"}
    /\ loop \notin {"terminal", "scheduling", "owing", "submitting"}
    /\ edit["loop"] = "none"
    /\ \A s \in Senders : resultSend[s] = "none"
    /\ finals = 0 /\ attempts = 0 /\ arrived = 0

LEMMA OverIsFinal ==
  ASSUME RunOver, [RunNext]_runVars
  PROVE  RunOver' /\ (phase = "ended" => phase' = "ended")
  <1> USE RunAssumption DEF RunOver, Over
  <1>1. CASE BeginRun \/ EndRun
    BY <1>1 DEF BeginRun, EndRun
  <1>2. CASE StopRun \/ PauseRun \/ ResumeRun
    BY <1>2 DEF StopRun, PauseRun, ResumeRun, ActiveStatuses
  <1>3. CASE UNCHANGED runVars
    BY <1>3 DEF runVars
  <1> QED
    BY <1>1, <1>2, <1>3 DEF RunNext, ThreadRun, OperateRun

LEMMA DeliveryKeepsRun == [DeliveryNext]_deliveryVars => [RunNext]_runVars
  <1> SUFFICES ASSUME [DeliveryNext]_deliveryVars PROVE [RunNext]_runVars
    OBVIOUS
  <1>1. CASE LaunchStep
    BY <1>1 DEF LaunchStep, AnnouncePlainly, SeedBubble
  <1>2. CASE LoopStep
    BY <1>2 DEF LoopStep, SeedLands, SeedFails, GreetBubble, FinishBubble, LoopDelivers, EditAnswered
  <1>3. CASE WorkerStep
    BY <1>3 DEF WorkerStep, ThreadProceeds, Poll, WorkerFinalizes, WorkerDelivers, Wake, RunNext
  <1>4. CASE LateArrival \/ RunOperated \/ OperatorEdits \/ UNCHANGED deliveryVars
    BY <1>4 DEF LateArrival, RunOperated, OperatorEdits, deliveryVars, RunNext
  <1> QED
    BY <1>1, <1>2, <1>3, <1>4 DEF DeliveryNext

LEMMA NextSealInv ==
  ASSUME BubbleTypeOK, ResultTypeOK, RunOver, SealInv, [DeliveryNext]_deliveryVars
  PROVE  RunOver' /\ SealInv'
  <1>1. RunOver' /\ (phase = "ended" => phase' = "ended")
    BY OverIsFinal, DeliveryKeepsRun
  <1>2. SUFFICES ASSUME phase' # "ended" PROVE SealInv'
    BY <1>1 DEF SealInv
  <1>3. /\ phase # "ended" /\ ~Over
        /\ worker \in {"launching", "running"}
        /\ loop \notin {"terminal", "scheduling", "owing", "submitting"}
        /\ edit["loop"] = "none" /\ edit \in [Editors -> Edits]
        /\ \A s \in Senders : resultSend[s] = "none"
        /\ finals = 0 /\ attempts = 0 /\ arrived = 0
    BY <1>1, <1>2 DEF RunOver, SealInv, BubbleTypeOK
  <1> USE DEF SealInv, bubbleVars, resultVars
  <1>4. CASE LaunchStep
    BY <1>3, <1>4 DEF LaunchStep, AnnouncePlainly, SeedBubble
  <1>5. CASE SeedLands \/ SeedFails
    BY <1>3, <1>5 DEF SeedLands, SeedFails
  <1>6. CASE GreetBubble
    BY <1>3, <1>6 DEF GreetBubble, CaptureLive, ScheduleEdit, Editors
  <1>7. CASE FinishBubble \/ WorkerFinalizes \/ WorkerDelivers \/ LateArrival \/ Poll \/ Wake
    BY <1>3, <1>7
    DEF FinishBubble, WorkerFinalizes, WorkerDelivers, LateArrival, Poll, Wake, Senders
  <1>8. CASE LoopDelivers
    BY <1>3, <1>8 DEF LoopDelivers, Senders
  <1>9. ASSUME NEW e \in Editors, EditAnswered(e) PROVE SealInv'
    <2>1. e # "loop"
      BY <1>3, <1>9 DEF EditAnswered
    <2> QED
      BY <1>3, <1>9, <2>1 DEF EditAnswered
  <1>10. CASE ThreadProceeds
    BY <1>2, <1>3, <1>10 DEF ThreadProceeds
  <1>11. CASE OperatorEdits
    BY <1>3, <1>11 DEF OperatorEdits, CaptureLive, ScheduleEdit, Editors
  <1>12. CASE RunOperated \/ UNCHANGED deliveryVars
    BY <1>3, <1>12 DEF RunOperated, deliveryVars
  <1> QED
    BY <1>4, <1>5, <1>6, <1>7, <1>8, <1>9, <1>10, <1>11, <1>12
    DEF DeliveryNext, LoopStep, WorkerStep

\* No final snapshot is rendered, no result is tried and none arrives before the record
\* has a terminal status, which it keeps: whoever completes a run, its thread or the seed's
\* callback, shows what it has come to (_on_seeded, _notify_completion).
THEOREM ResultAfterEnd ==
  DeliverySpec => [](finals > 0 \/ attempts > 0 \/ arrived > 0 => Over)
  <1> DEFINE OInv == DInv /\ RunOver /\ SealInv
  <1>1. DeliveryInit => OInv
    <2>1. DeliveryInit => RunOver
      BY RunAssumption DEF DeliveryInit, RunInit, RunOver, Over
    <2>2. DeliveryInit => SealInv
      BY DEF DeliveryInit, SealInv, Senders, Editors
    <2> QED
      BY <2>1, <2>2, DeliveryInitInv
  <1>2. OInv /\ [DeliveryNext]_deliveryVars => OInv'
    BY NextBubbleTypeOK, NextResultTypeOK, NextSnapshotInv, NextClaimInv, NextSealInv DEF DInv
  <1>3. OInv => (finals > 0 \/ attempts > 0 \/ arrived > 0 => Over)
    BY DEF DInv, RunOver, SealInv
  <1> QED
    BY <1>1, <1>2, <1>3, PTL DEF DeliverySpec
-----------------------------------------------------------------------------
(* Dashboard.                                                              *)
\* The paths are of files, a file that is read is the first of them, and the screen
\* follows the open run.
ListInv ==
  /\ newest \in Seq(Files) /\ listing \in Seq(Files)
  /\ at = "read" => listing # << >>

DashInv == DashboardTypeOK /\ ListInv /\ DashboardHolds
-----------------------------------------------------------------------------
(* The operators on lists.                                                 *)
LEMMA ClampInRange ==
  ASSUME NEW i \in Nat, NEW n \in Nat
  PROVE  /\ Clamp(i, n) \in Nat \ {0}
         /\ n > 0 => Clamp(i, n) \in 1..n
         /\ i \in 1..n => Clamp(i, n) = i
  BY DEF Clamp

\* What a list offers at a position is a run of it.
LEMMA RunAt ==
  ASSUME NEW views \in Seq(Views), views # << >>, NEW i \in Nat
  PROVE  /\ Clamp(i, Len(views)) \in DOMAIN views
         /\ views[Clamp(i, Len(views))].run \in Files
         /\ views[Clamp(i, Len(views))].run \in Listed(views)
  <1>1. Len(views) \in Nat /\ Len(views) > 0 /\ DOMAIN views = 1..Len(views)
    BY LenProperties, EmptySeq
  <1>2. Clamp(i, Len(views)) \in 1..Len(views)
    BY <1>1, ClampInRange
  <1>3. views[Clamp(i, Len(views))] \in Views
    BY <1>2, ElementOfSeq
  <1> QED
    BY <1>1, <1>2, <1>3 DEF Views, Listed

\* A run of a list is found again at the position of it that is chosen.
LEMMA FoundAgain ==
  ASSUME NEW views \in Seq(Views), NEW run \in Listed(views)
  PROVE  LET i == CHOOSE i \in Indexes(views, run) : TRUE
         IN  /\ i \in Nat \ {0}
             /\ views # << >>
             /\ views[Clamp(i, Len(views))].run = run
  <1> DEFINE i == CHOOSE i \in Indexes(views, run) : TRUE
  <1>1. Indexes(views, run) # {}
    BY DEF Listed, Indexes
  <1>2. i \in DOMAIN views /\ views[i].run = run
    BY <1>1 DEF Indexes
  <1>3. Len(views) \in Nat /\ DOMAIN views = 1..Len(views)
    BY LenProperties
  <1> HIDE DEF i
  <1>4. i \in 1..Len(views) /\ i \in Nat \ {0}
    BY <1>2, <1>3
  <1>5. Clamp(i, Len(views)) = i
    BY <1>3, <1>4, ClampInRange
  <1>6. views # << >>
    BY <1>3, <1>4, EmptySeq
  <1> QED
    BY <1>2, <1>4, <1>5, <1>6 DEF i

LEMMA ListedAreFiles ==
  ASSUME NEW views \in Seq(Views)
  PROVE  Listed(views) \subseteq Files
  <1>1. \A i \in DOMAIN views : views[i] \in Views
    BY LenProperties, ElementOfSeq
  <1> QED
    BY <1>1 DEF Listed, Views

LEMMA FirstOfTyped ==
  ASSUME NEW seq \in Seq(Files), NEW n \in Nat
  PROVE  FirstOf(seq, n) \in Seq(Files)
  <1> DEFINE m == IF Len(seq) < n THEN Len(seq) ELSE n
  <1>1. Len(seq) \in Nat /\ \A i \in 1..Len(seq) : seq[i] \in Files
    BY LenProperties, ElementOfSeq
  <1>2. m \in Nat /\ m <= Len(seq)
    BY <1>1
  <1>3. \A i \in 1..m : seq[i] \in Files
    BY <1>1, <1>2
  <1> HIDE DEF m
  <1>4. SubSeq(seq, 1, m) \in Seq(Files)
    BY <1>2, <1>3, SubSeqProperties
  <1> QED
    BY <1>4 DEF FirstOf, m

LEMMA OthersTyped ==
  ASSUME newest \in Seq(Files), NEW f \in Files
  PROVE  << f >> \o Others(f) \in Seq(Files)
  <1> DEFINE here == {i \in DOMAIN newest : newest[i] = f}
             at_f == CHOOSE j \in here : TRUE
  <1>1. Len(newest) \in Nat /\ DOMAIN newest = 1..Len(newest)
        /\ \A i \in 1..Len(newest) : newest[i] \in Files
    BY LenProperties, ElementOfSeq
  <1>2. CASE here # {}
    <2>1. at_f \in 1..Len(newest)
      BY <1>1, <1>2
    <2> HIDE DEF at_f
    <2>2. SubSeq(newest, 1, at_f - 1) \in Seq(Files)
      BY <1>1, <2>1, SubSeqProperties
    <2>3. SubSeq(newest, at_f + 1, Len(newest)) \in Seq(Files)
      BY <1>1, <2>1, SubSeqProperties
    <2>4. Others(f) = SubSeq(newest, 1, at_f - 1) \o SubSeq(newest, at_f + 1, Len(newest))
      BY <1>2 DEF Others, at_f
    <2>5. Others(f) \in Seq(Files) /\ << f >> \in Seq(Files)
      BY <2>2, <2>3, <2>4, ConcatProperties
    <2> QED
      BY <2>5, ConcatProperties
  <1>3. CASE here = {}
    <2>1. Others(f) = newest /\ << f >> \in Seq(Files)
      BY <1>3 DEF Others
    <2> QED
      BY <2>1, ConcatProperties
  <1> QED
    BY <1>2, <1>3
-----------------------------------------------------------------------------
\* What a key acts on is a run of the store, or nothing.
LEMMA TargetTyped ==
  ASSUME DashboardTypeOK
  PROVE  Target \in Files \cup {NoRun} /\ CurrentRun \in Files \cup {NoRun}
  <1>1. CurrentRun \in Files \cup {NoRun}
    BY RunAt DEF DashboardTypeOK, CurrentRun
  <1>2. shown # << >> => shown[Clamp(cursor, Len(shown))].run \in Files
    BY RunAt DEF DashboardTypeOK
  <1> QED
    BY <1>1, <1>2 DEF DashboardTypeOK, Target

LEMMA DashboardInitInv == DashboardInit => DashInv
  <1> SUFFICES ASSUME DashboardInit PROVE DashInv
    OBVIOUS
  <1> USE DashboardAssumption DEF DashboardInit
  <1>1. DashboardTypeOK
    <2>1. /\ saved \in [Files -> Nat] /\ lastVersion \in [Files -> Nat]
          /\ cached \in [Files -> [sig : Nat, ver : Nat]]
      BY DEF World, NoView
    <2>2. loaded \in Seq(Views) /\ shown \in Seq(Views)
      OBVIOUS
    <2>3. hasActive \in BOOLEAN /\ slipped \in BOOLEAN /\ thenVersion \in BOOLEAN
      OBVIOUS
    <2> QED
      BY <2>1, <2>2, <2>3 DEF DashboardTypeOK, Spots
  <1>2. ListInv
    BY DEF ListInv
  <1>3. DashboardHolds
    BY DEF DashboardHolds
  <1> QED
    BY <1>1, <1>2, <1>3 DEF DashInv
-----------------------------------------------------------------------------
(* The steps.                                                              *)
LEMMA SaveKeeps ==
  ASSUME DashInv, NEW f \in Files, Save(f)
  PROVE  DashInv'
  <1>0. DashboardTypeOK /\ ListInv
    BY DEF DashInv
  <1> USE DEF Save, loadVars, stateVars
  <1>1. DashboardTypeOK'
    <2>1. saved' \in [Files -> Nat] /\ live' \subseteq Files
      <3>1. live' \in {live \cup {f}, live \ {f}, live}
        OBVIOUS
      <3>2. saved' \in [Files -> Nat]
        <4>1. saved' = [saved EXCEPT ![f] = @ + 1] /\ saved \in [Files -> Nat]
          BY <1>0 DEF DashboardTypeOK
        <4> HIDE DEF Save
        <4> QED
          BY <4>1
      <3> QED
        BY <1>0, <3>1, <3>2 DEF DashboardTypeOK
    <2>2. slipped' \in BOOLEAN
      OBVIOUS
    <2> QED
      BY <1>0, <2>1, <2>2 DEF DashboardTypeOK
  <1>2. ListInv'
    BY <1>0, OthersTyped DEF ListInv
  <1>3. DashboardHolds'
    BY DEF DashInv, DashboardHolds, CurrentRun, Target
  <1> QED
    BY <1>1, <1>2, <1>3 DEF DashInv

\* load() adds a view of the first file of the listing, and goes on with the rest.
LEMMA LoadKeeps ==
  ASSUME DashInv, Stat \/ ReadRecord
  PROVE  DashInv'
  <1>0. DashboardTypeOK /\ ListInv
    BY DEF DashInv
  <1>1. listing # << >>
    BY <1>0 DEF Stat, ReadRecord, ListInv
  <1>2. /\ Head(listing) \in Files /\ Tail(listing) \in Seq(Files)
        /\ saved[Head(listing)] \in Nat
        /\ cached[Head(listing)] \in [sig : Nat, ver : Nat]
    BY <1>0, <1>1, HeadTailProperties DEF ListInv, DashboardTypeOK
  <1>3. ASSUME NEW sig \in Nat, NEW ver \in Nat, NEW open \in BOOLEAN
        PROVE  Append(loaded, [run |-> Head(listing), sig |-> sig, ver |-> ver, active |-> open])
                 \in Seq(Views)
    <2>1. [run |-> Head(listing), sig |-> sig, ver |-> ver, active |-> open] \in Views
      BY <1>2 DEF Views
    <2> QED
      BY <1>0, <2>1, AppendProperties DEF DashboardTypeOK
  <1>4. loaded' \in Seq(Views)
    <2>1. CASE Stat
      <3>1. cached[Head(listing)].ver \in Nat /\ FALSE \in BOOLEAN
        BY <1>2
      <3>2. Append(loaded, [run |-> Head(listing), sig |-> saved[Head(listing)],
                            ver |-> cached[Head(listing)].ver, active |-> FALSE]) \in Seq(Views)
        BY <1>2, <1>3, <3>1
      <3>3. CASE cached[Head(listing)].sig = saved[Head(listing)]
        BY <2>1, <3>2, <3>3 DEF Stat
      <3>4. CASE cached[Head(listing)].sig # saved[Head(listing)]
        BY <1>0, <2>1, <3>4 DEF Stat, DashboardTypeOK
      <3> QED
        BY <3>3, <3>4
    <2>2. CASE ReadRecord
      <3>1. (Head(listing) \in live) \in BOOLEAN /\ statted \in Nat
        BY <1>0 DEF DashboardTypeOK
      <3> QED
        BY <1>2, <1>3, <2>2, <3>1 DEF ReadRecord, Keep
    <2> QED
      BY <2>1, <2>2
  <1>5. /\ cached' \in [Files -> [sig : Nat, ver : Nat]]
        /\ statted' \in Nat /\ at' \in Spots
    <2>1. CASE Stat
      <3>1. UNCHANGED cached /\ at' \in {at, "read"} /\ statted' \in {statted, saved[Head(listing)]}
        BY <2>1 DEF Stat
      <3> QED
        BY <1>0, <1>2, <3>1 DEF DashboardTypeOK, Spots
    <2>2. CASE ReadRecord
      <3>1. /\ statted' = 0 /\ at' = "stat"
            /\ \/ UNCHANGED cached
               \/ cached' = [cached EXCEPT ![Head(listing)] =
                               [sig |-> statted, ver |-> saved[Head(listing)]]]
        BY <2>2 DEF ReadRecord, Keep
      <3>2. [sig |-> statted, ver |-> saved[Head(listing)]] \in [sig : Nat, ver : Nat]
        BY <1>0, <1>2 DEF DashboardTypeOK
      <3>3. cached \in [Files -> [sig : Nat, ver : Nat]]
        BY <1>0 DEF DashboardTypeOK
      <3>4. cached' \in [Files -> [sig : Nat, ver : Nat]]
        BY <1>2, <3>1, <3>2, <3>3
      <3> QED
        BY <3>1, <3>4 DEF Spots
    <2> QED
      BY <2>1, <2>2
  <1>6. UNCHANGED <<storeVars, thenVersion, stateVars, lastVersion, drawn, slipped>>
    BY DEF Stat, ReadRecord
  <1>7. DashboardTypeOK'
    BY <1>0, <1>4, <1>5, <1>6 DEF DashboardTypeOK, storeVars, stateVars
  <1>8. ListInv'
    BY <1>0, <1>1, <1>2, <1>6 DEF Stat, ReadRecord, Keep, ListInv, storeVars
  <1>9. DashboardHolds'
    <2>1. at' # "key"
      BY DEF Stat, ReadRecord, Keep
    <2> QED
      BY <1>6, <2>1 DEF DashInv, DashboardHolds, CurrentRun, stateVars
  <1> QED
    BY <1>7, <1>8, <1>9 DEF DashInv

\* The open run is found in the new list, or it is not open any more.
LEMMA RefreshFollows ==
  ASSUME DashInv, FinishRefresh
  PROVE  /\ DashboardHolds'
         /\ runIndex' \in Nat \ {0} /\ cursor' \in Nat \ {0}
         /\ opened' \in Files \cup {NoRun}
  <1>0. DashboardTypeOK /\ DashboardHolds /\ loaded \in Seq(Views) /\ Len(loaded) \in Nat
    BY LenProperties DEF DashInv, DashboardTypeOK
  <1>1. shown' = loaded /\ UNCHANGED screen /\ at' # "key"
    BY DEF FinishRefresh
  <1>2. ASSUME restarted \in Listed(loaded) PROVE DashboardHolds' /\ runIndex' \in Nat \ {0}
    <2>1. runIndex' = CHOOSE i \in Indexes(loaded, restarted) : TRUE
      BY <1>2 DEF FinishRefresh
    <2>2. runIndex' \in Nat \ {0} /\ CurrentRun' = restarted
      BY <1>0, <1>1, <1>2, <2>1, FoundAgain DEF CurrentRun
    <2>3. screen = "workflow" => opened' = restarted
      BY <1>2 DEF FinishRefresh
    <2> QED
      BY <1>0, <1>1, <2>2, <2>3 DEF DashboardHolds
  <1>3. ASSUME restarted \notin Listed(loaded) PROVE DashboardHolds' /\ runIndex' \in Nat \ {0}
    <2>1. runIndex' = FollowRun(loaded)
      BY <1>3 DEF FinishRefresh
    <2>2. opened' = IF opened \in Listed(loaded) THEN opened ELSE NoRun
      BY <1>3 DEF FinishRefresh
    <2>3. ASSUME screen = "workflow", opened' # NoRun PROVE CurrentRun' = opened'
      <3>1. opened' = opened /\ opened \in Listed(loaded) /\ CurrentRun = opened
        BY <1>0, <2>2, <2>3 DEF DashboardHolds
      <3>2. Indexes(loaded, opened) # {}
        BY <3>1 DEF Indexes, Listed
      <3>3. runIndex' = CHOOSE i \in Indexes(loaded, opened) : TRUE
        BY <2>1, <3>1, <3>2 DEF FollowRun
      <3> QED
        BY <1>0, <1>1, <3>1, <3>3, FoundAgain DEF CurrentRun
    <2>4. runIndex' \in Nat \ {0}
      <3>1. CASE Indexes(loaded, CurrentRun) = {}
        <4>1. Clamp(runIndex, Len(loaded)) \in Nat \ {0}
          BY <1>0, ClampInRange DEF DashboardTypeOK
        <4> QED
          BY <2>1, <3>1, <4>1 DEF FollowRun
      <3>2. CASE Indexes(loaded, CurrentRun) # {}
        <4>1. CurrentRun \in Listed(loaded)
          BY <3>2 DEF Indexes, Listed
        <4> QED
          BY <1>0, <2>1, <3>2, <4>1, FoundAgain DEF FollowRun
      <3> QED
        BY <3>1, <3>2
    <2>5. DashboardHolds'
      BY <1>1, <2>3 DEF DashboardHolds
    <2> QED
      BY <2>4, <2>5
  <1>4. cursor' \in Nat \ {0}
    BY <1>0, ClampInRange DEF FinishRefresh, DashboardTypeOK
  <1>5. opened' \in Files \cup {NoRun}
    BY <1>0, ListedAreFiles DEF FinishRefresh, DashboardTypeOK
  <1> QED
    BY <1>2, <1>3, <1>4, <1>5

LEMMA RefreshKeeps ==
  ASSUME DashInv, FinishRefresh
  PROVE  DashInv'
  <1>0. DashboardTypeOK /\ ListInv
    BY DEF DashInv
  <1>1. /\ DashboardHolds'
        /\ runIndex' \in Nat \ {0} /\ cursor' \in Nat \ {0}
        /\ opened' \in Files \cup {NoRun}
    BY RefreshFollows
  <1>2. cached' \in [Files -> [sig : Nat, ver : Nat]]
    BY <1>0 DEF FinishRefresh, Prune, NoView, DashboardTypeOK
  <1>3. hasActive' \in BOOLEAN
    BY DEF FinishRefresh
  <1>4. loaded' \in Seq(Views) /\ shown' \in Seq(Views)
    BY <1>0 DEF FinishRefresh, DashboardTypeOK
  <1>5. at' \in {"version", "drawing"} /\ restarted' = NoRun
    BY DEF FinishRefresh
  <1>6. UNCHANGED <<storeVars, listing, statted, thenVersion, screen, lastVersion, drawn, slipped>>
    BY DEF FinishRefresh
  <1>7. DashboardTypeOK'
    BY <1>0, <1>1, <1>2, <1>3, <1>4, <1>5, <1>6 DEF DashboardTypeOK, storeVars, Spots
  <1>8. ListInv'
    BY <1>0, <1>5, <1>6 DEF ListInv, storeVars
  <1> QED
    BY <1>1, <1>7, <1>8 DEF DashInv

LEMMA BeginKeeps ==
  ASSUME DashInv, NEW version \in BOOLEAN, BeginRefresh(version), UNCHANGED storeVars,
         UNCHANGED <<shown, hasActive, screen, cursor, runIndex, opened>>,
         restarted' \in Files \cup {NoRun}, drawn' \in Files \cup {NoRun},
         lastVersion' \in [Files -> Nat]
  PROVE  DashInv'
  <1>0. DashboardTypeOK /\ ListInv /\ DashboardHolds
    BY DEF DashInv
  <1>1. listing' \in Seq(Files) /\ loaded' = << >> /\ at' = "stat"
    BY <1>0, FirstOfTyped, DashboardAssumption DEF ListInv, BeginRefresh
  <1>2. loaded' \in Seq(Views)
    BY <1>1
  <1>3. thenVersion' \in BOOLEAN /\ slipped' \in BOOLEAN
    BY DEF BeginRefresh
  <1>4. DashboardTypeOK'
    BY <1>0, <1>1, <1>2, <1>3 DEF DashboardTypeOK, BeginRefresh, storeVars, Spots
  <1>5. ListInv'
    BY <1>0, <1>1 DEF ListInv, storeVars
  <1>6. DashboardHolds'
    BY <1>0, <1>1 DEF DashboardHolds, CurrentRun
  <1> QED
    BY <1>4, <1>5, <1>6 DEF DashInv

LEMMA NavigateKeeps ==
  ASSUME DashInv, Navigate
  PROVE  DashInv'
  <1>0. DashboardTypeOK /\ ListInv /\ DashboardHolds
    BY DEF DashInv
  <1>1. at' = "polling" /\ drawn' = NoRun
        /\ UNCHANGED <<storeVars, loadVars, shown, hasActive, restarted, lastVersion, slipped>>
    BY DEF Navigate
  <1>2. Len(shown) \in Nat /\ cursor - 1 \in Nat /\ cursor + 1 \in Nat
    BY <1>0, LenProperties DEF DashboardTypeOK
  <1>3. ASSUME screen' \in {"list", "workflow"}, cursor' \in Nat \ {0}, runIndex' \in Nat \ {0},
               opened' \in Files \cup {NoRun},
               (screen' = "workflow" /\ opened' # NoRun) => CurrentRun' = opened'
        PROVE  DashInv'
    <2>1. DashboardTypeOK'
      BY <1>0, <1>1, <1>3 DEF DashboardTypeOK, storeVars, loadVars, Spots
    <2>2. ListInv'
      BY <1>0, <1>1 DEF ListInv, storeVars, loadVars
    <2>3. DashboardHolds'
      BY <1>1, <1>3 DEF DashboardHolds
    <2> QED
      BY <2>1, <2>2, <2>3 DEF DashInv
  <1>4. CASE /\ screen = "list"
             /\ cursor' \in {Clamp(cursor - 1, Len(shown)), Clamp(cursor + 1, Len(shown))}
             /\ UNCHANGED <<screen, runIndex, opened>>
    <2>1. /\ Clamp(cursor - 1, Len(shown)) \in Nat \ {0}
          /\ Clamp(cursor + 1, Len(shown)) \in Nat \ {0}
      BY <1>2, ClampInRange
    <2>2. cursor' \in Nat \ {0}
      BY <1>4, <2>1
    <2> QED
      BY <1>0, <1>3, <1>4, <2>2 DEF DashboardTypeOK
  <1>5. CASE /\ screen = "list" /\ Target # NoRun
             /\ screen' = "workflow" /\ opened' = Target
             /\ runIndex' = CHOOSE i \in Indexes(shown, Target) : TRUE
             /\ UNCHANGED cursor
    <2>1. Target \in Listed(shown)
      BY <1>0, <1>5, RunAt DEF Target, DashboardTypeOK
    <2>2. runIndex' \in Nat \ {0} /\ CurrentRun' = Target
      BY <1>0, <1>1, <1>5, <2>1, FoundAgain DEF CurrentRun, DashboardTypeOK
    <2>3. Target \in Files \cup {NoRun}
      BY <1>0, TargetTyped
    <2> QED
      BY <1>0, <1>3, <1>5, <2>2, <2>3 DEF DashboardTypeOK
  <1>6. CASE /\ screen = "workflow"
             /\ screen' = "list" /\ opened' = NoRun
             /\ UNCHANGED <<cursor, runIndex>>
    BY <1>0, <1>3, <1>6 DEF DashboardTypeOK
  <1> QED
    BY <1>4, <1>5, <1>6 DEF Navigate

LEMMA DashInvNext == DashInv /\ [DashboardNext]_dashboardVars => DashInv'
  <1> SUFFICES ASSUME DashInv, [DashboardNext]_dashboardVars PROVE DashInv'
    OBVIOUS
  <1>0. DashboardTypeOK /\ ListInv /\ DashboardHolds
    BY DEF DashInv
  <1>1. CASE Reload
    <2>1. CASE hasActive /\ BeginRefresh(TRUE) /\ UNCHANGED lastVersion
      BY <1>0, <1>1, <2>1, BeginKeeps DEF Reload, stateVars, DashboardTypeOK
    <2>2. CASE BeginRefresh(FALSE) /\ lastVersion' = World
      BY <1>0, <1>1, <2>2, BeginKeeps DEF Reload, stateVars, DashboardTypeOK, World
    <2> QED
      BY <1>1, <2>1, <2>2 DEF Reload
  <1>2. CASE Control
    <2>1. restarted' \in Files \cup {NoRun} /\ drawn' \in Files \cup {NoRun}
      BY <1>0, <1>2 DEF Control, DashboardTypeOK
    <2> QED
      BY <1>0, <1>2, <2>1, BeginKeeps DEF Control, DashboardTypeOK
  \* The steps that only move the loop, look at the version, draw or take no key.
  <1>3. CASE NoReload \/ LookAtVersion \/ Draw \/ NoKey \/ UNCHANGED dashboardVars
    <2>1. /\ at' \in Spots /\ (at' = at \/ at' # "read") /\ (at' = "key" => drawn' = Target)
          /\ UNCHANGED <<storeVars, loadVars, stateVars, slipped>>
      BY <1>0, <1>3
      DEF NoReload, LookAtVersion, Draw, NoKey, dashboardVars, Spots, DashboardTypeOK,
          DashboardHolds
    <2>2. drawn' \in Files \cup {NoRun} /\ lastVersion' \in [Files -> Nat]
      BY <1>0, <1>3, TargetTyped
      DEF NoReload, LookAtVersion, Draw, NoKey, dashboardVars, DashboardTypeOK, World
    <2>3. DashboardTypeOK'
      BY <1>0, <2>1, <2>2 DEF DashboardTypeOK, storeVars, loadVars, stateVars
    <2>4. ListInv'
      BY <1>0, <2>1 DEF ListInv, storeVars, loadVars
    <2>5. DashboardHolds'
      BY <1>0, <2>1 DEF DashboardHolds, Target, CurrentRun, stateVars
    <2> QED
      BY <2>3, <2>4, <2>5 DEF DashInv
  <1> QED
    BY <1>1, <1>2, <1>3, SaveKeeps, LoadKeeps, RefreshKeeps, NavigateKeeps
    DEF DashboardNext, LoopTurn
-----------------------------------------------------------------------------
\* Records are saved, listed anew and pushed out while the dashboard is open: its screen
\* stays on the run that was opened or launched from it, and a key acts on what the last
\* frame showed (TuiController.refresh, WorkflowRepository.load).
THEOREM DashboardKeepsTarget == DashboardSpec => []DashboardHolds
  <1>1. DashboardInit => DashInv
    BY DashboardInitInv
  <1>2. DashInv /\ [DashboardNext]_dashboardVars => DashInv'
    BY DashInvNext
  <1>3. DashInv => DashboardHolds
    BY DEF DashInv
  <1> QED
    BY <1>1, <1>2, <1>3, PTL DEF DashboardSpec
-----------------------------------------------------------------------------
(* Transcripts: rows in the order of their identifiers.                    *)
Below(ids, i) == {j \in ids : j <= i}

LEMMA IdsFinite ==
  ASSUME NEW ids \in SUBSET MessageIds
  PROVE  /\ IsFiniteSet(ids) /\ Cardinality(ids) \in Nat
         /\ \A i : IsFiniteSet(Below(ids, i)) /\ Cardinality(Below(ids, i)) \in Nat
<1>1. IsFiniteSet(MessageIds)
  BY FS_Interval, TranscriptAssumption DEF MessageIds
<1>2. IsFiniteSet(ids)
  BY <1>1, FS_Subset
<1>3. \A i : Below(ids, i) \in SUBSET ids
  BY DEF Below
<1> QED
  BY <1>2, <1>3, FS_Subset, FS_CardinalityType

LEMMA RankGrows ==
  ASSUME NEW ids \in SUBSET MessageIds, NEW i \in ids, NEW j \in ids, i < j
  PROVE  Cardinality(Below(ids, i)) < Cardinality(Below(ids, j))
<1>1. i \in Nat /\ j \in Nat /\ \A k \in ids : k \in Nat
  BY TranscriptAssumption DEF MessageIds
<1>2. Below(ids, i) \in SUBSET Below(ids, j)
  <2>1. \A k \in ids : k <= i => k <= j
    BY <1>1
  <2> QED
    BY <2>1, Zenon DEF Below
<1>3. j \in Below(ids, j) /\ j \notin Below(ids, i)
  BY <1>1 DEF Below
<1> QED
  BY <1>2, <1>3, IdsFinite, FS_Subset

LEMMA RankInRange ==
  ASSUME NEW ids \in SUBSET MessageIds, NEW i \in ids
  PROVE  Cardinality(Below(ids, i)) \in 1..Cardinality(ids)
<1>1. i \in Nat
  BY TranscriptAssumption DEF MessageIds
<1>2. i \in Below(ids, i) /\ Below(ids, i) \in SUBSET ids
  BY <1>1 DEF Below
<1>3. Cardinality(Below(ids, i)) <= Cardinality(ids)
  BY <1>2, IdsFinite, FS_Subset
<1>4. Cardinality(Below(ids, i)) # 0
  BY <1>2, IdsFinite, FS_EmptySet
<1> QED
  BY <1>3, <1>4, IdsFinite

\* Every position of the rows is the rank of one identifier: ranks are distinct, and as many.
LEMMA NthExists ==
  ASSUME NEW ids \in SUBSET MessageIds, NEW k \in 1..Cardinality(ids)
  PROVE  \E i \in ids : Cardinality(Below(ids, i)) = k
<1> DEFINE n == Cardinality(ids)
           rank == [i \in ids |-> Cardinality(Below(ids, i))]
<1>1. n \in Nat
  BY IdsFinite
<1>2. rank \in [ids -> 1..n]
  BY RankInRange
<1>3. ASSUME NEW i \in ids, NEW j \in ids, rank[i] = rank[j] PROVE i = j
  <2>1. i \in Nat /\ j \in Nat
    BY TranscriptAssumption DEF MessageIds
  <2>2. rank[i] \in Nat /\ rank[j] \in Nat
    BY IdsFinite
  <2>3. i < j => rank[i] < rank[j]
    BY RankGrows
  <2>4. j < i => rank[j] < rank[i]
    BY RankGrows
  <2> QED
    BY <1>3, <2>1, <2>2, <2>3, <2>4
<1>4. rank \in Injection(ids, 1..n)
  BY <1>2, <1>3 DEF Injection, IsInjective
<1>5. IsFiniteSet(1..n) /\ Cardinality(1..n) = n
  BY <1>1, FS_Interval
<1>6. rank \in Surjection(ids, 1..n)
  BY <1>4, <1>5, FS_Injection
<1>7. \E i \in ids : rank[i] = k
  BY <1>6 DEF Surjection
<1> QED
  BY <1>7

LEMMA NthIn ==
  ASSUME NEW ids \in SUBSET MessageIds, NEW k \in 1..Cardinality(ids)
  PROVE  Nth(ids, k) \in ids /\ Cardinality(Below(ids, Nth(ids, k))) = k
BY NthExists DEF Nth, Below

LEMMA NthIs ==
  ASSUME NEW ids \in SUBSET MessageIds, NEW i \in ids,
         NEW k \in 1..Cardinality(ids), Cardinality(Below(ids, i)) = k
  PROVE  Nth(ids, k) = i
<1> DEFINE j == Nth(ids, k)
<1>1. j \in ids /\ Cardinality(Below(ids, j)) = k
  BY NthIn
<1> HIDE DEF j
<1>2. i \in Nat /\ j \in Nat /\ k \in Nat
  BY <1>1, TranscriptAssumption, IdsFinite DEF MessageIds
<1>3. ~ i < j
  BY <1>1, <1>2, RankGrows
<1>4. ~ j < i
  BY <1>1, <1>2, RankGrows
<1>5. i = j
  BY <1>2, <1>3, <1>4
<1> QED
  BY <1>5 DEF j

LEMMA GreatestIs ==
  ASSUME NEW ids \in SUBSET MessageIds
  PROVE  /\ Greatest(ids) \in 0..MaxRows
         /\ \A i \in ids : i <= Greatest(ids)
         /\ Greatest(ids) > 0 => Greatest(ids) \in ids
<1>1. CASE ids = {}
  BY <1>1, TranscriptAssumption DEF Greatest
<1>2. CASE ids # {}
  <2> DEFINE n == Cardinality(ids)
             m == Nth(ids, n)
  <2>1. n \in Nat /\ n # 0
    BY <1>2, IdsFinite, FS_EmptySet
  <2>2. m \in ids /\ Cardinality(Below(ids, m)) = n
    BY <2>1, NthIn
  <2>3. Below(ids, m) \in SUBSET ids
    BY DEF Below
  <2>4. Below(ids, m) = ids
    BY <2>2, <2>3, IdsFinite, FS_Subset
  <2>5. \A i \in ids : i <= m
    BY <2>4 DEF Below
  <2> HIDE DEF m
  <2>6. Greatest(ids) \in ids /\ \A i \in ids : i <= Greatest(ids)
    BY <1>2, <2>2, <2>5 DEF Greatest
  <2> HIDE DEF n
  <2>7. \A i \in ids : i \in 0..MaxRows
    BY TranscriptAssumption DEF MessageIds
  <2> QED
    BY <2>6, <2>7
<1> QED
  BY <1>1, <1>2

LEMMA CardinalityOfBoth ==
  ASSUME NEW A \in SUBSET MessageIds, NEW B \in SUBSET MessageIds, A \cap B = {}
  PROVE  Cardinality(A \cup B) = Cardinality(A) + Cardinality(B)
<1>1. Cardinality(A \cap B) = 0
  BY FS_EmptySet
<1>2. Cardinality(A \cup B) = Cardinality(A) + Cardinality(B) - Cardinality(A \cap B)
  BY IdsFinite, FS_Union
<1> QED
  BY <1>1, <1>2, IdsFinite

\* What is appended comes after what was there.
LEMMA NthOfBoth ==
  ASSUME NEW A \in SUBSET MessageIds, NEW B \in SUBSET MessageIds,
         \A i \in A, j \in B : i < j,
         NEW k \in 1..(Cardinality(A) + Cardinality(B))
  PROVE  Nth(A \cup B, k) = IF k <= Cardinality(A) THEN Nth(A, k) ELSE Nth(B, k - Cardinality(A))
<1> DEFINE a == Cardinality(A)
           b == Cardinality(B)
           C == A \cup B
<1>1. /\ a \in Nat /\ b \in Nat /\ k \in Nat
      /\ \A i \in C : i \in Nat
  BY IdsFinite, TranscriptAssumption DEF MessageIds
<1>2. A \cap B = {}
  BY <1>1
<1>3. Cardinality(C) = a + b
  BY <1>2, CardinalityOfBoth
<1>4. CASE k <= a
  <2> DEFINE i == Nth(A, k)
  <2>1. k \in 1..a
    BY <1>1, <1>4
  <2>2. i \in A /\ Cardinality(Below(A, i)) = k
    BY <2>1, NthIn
  <2> HIDE DEF i
  <2>3. Below(C, i) = Below(A, i)
    BY <1>1, <2>2 DEF Below
  <2>4. Nth(C, k) = i
    BY <1>3, <2>2, <2>3, NthIs
  <2> QED
    BY <1>4, <2>4 DEF i
<1>5. CASE ~(k <= a)
  <2> DEFINE i == Nth(B, k - a)
  <2>1. k - a \in 1..b
    BY <1>1, <1>5
  <2>2. i \in B /\ Cardinality(Below(B, i)) = k - a
    BY <2>1, NthIn
  <2> HIDE DEF i
  <2>3. Below(C, i) = A \cup Below(B, i)
    BY <1>1, <2>2 DEF Below
  <2>4. Cardinality(Below(C, i)) = a + (k - a)
    BY <1>2, <2>2, <2>3, CardinalityOfBoth DEF Below
  <2>5. Cardinality(Below(C, i)) = k
    BY <1>1, <2>4
  <2>6. Nth(C, k) = i
    BY <1>3, <2>2, <2>5, NthIs
  <2> QED
    BY <1>5, <2>6 DEF i
<1> QED
  BY <1>4, <1>5

\* Rows with the marks of on; MessageRows gives them with those of the database.
Marked(ids, on) ==
  [k \in 1..Cardinality(ids) |-> [id |-> Nth(ids, k), on |-> Nth(ids, k) \in on]]
Lines == [id : 0..MaxRows, on : BOOLEAN]

LEMMA MarkedTyped ==
  ASSUME NEW ids \in SUBSET MessageIds, NEW on
  PROVE  Marked(ids, on) \in Seq(Lines) /\ Len(Marked(ids, on)) = Cardinality(ids)
<1>1. \A i \in ids : i \in 0..MaxRows
  BY TranscriptAssumption DEF MessageIds
<1>2. ASSUME NEW k \in 1..Cardinality(ids)
      PROVE  [id |-> Nth(ids, k), on |-> Nth(ids, k) \in on] \in Lines
  <2>1. Nth(ids, k) \in 0..MaxRows
    BY <1>1, NthIn
  <2>2. (Nth(ids, k) \in on) \in BOOLEAN
    OBVIOUS
  <2> QED
    BY <2>1, <2>2, Zenon DEF Lines
<1>3. Cardinality(ids) \in Nat
  BY IdsFinite
<1> QED
  BY <1>2, <1>3 DEF Marked

\* The marks of the rows are those of their own identifiers.
LEMMA MarkedAlike ==
  ASSUME NEW ids \in SUBSET MessageIds, NEW on, NEW off,
         \A i \in ids : i \in on <=> i \in off
  PROVE  Marked(ids, on) = Marked(ids, off)
<1>1. \A k \in 1..Cardinality(ids) : (Nth(ids, k) \in on) = (Nth(ids, k) \in off)
  BY NthIn
<1> QED
  BY <1>1, Zenon DEF Marked

LEMMA MarkedOfBoth ==
  ASSUME NEW A \in SUBSET MessageIds, NEW B \in SUBSET MessageIds, NEW on,
         \A i \in A, j \in B : i < j
  PROVE  Marked(A \cup B, on) = Marked(A, on) \o Marked(B, on)
<1> DEFINE a == Cardinality(A)
           b == Cardinality(B)
           fa == Marked(A, on)
           fb == Marked(B, on)
           fc == Marked(A \cup B, on)
           row(i) == [id |-> i, on |-> i \in on]
<1>1. a \in Nat /\ b \in Nat
  BY IdsFinite
<1>2. A \cap B = {}
  BY TranscriptAssumption DEF MessageIds
<1>3. Cardinality(A \cup B) = a + b
  BY <1>2, CardinalityOfBoth
<1>4. /\ fa \in Seq(Lines) /\ Len(fa) = a
      /\ fb \in Seq(Lines) /\ Len(fb) = b
      /\ fc \in Seq(Lines) /\ Len(fc) = a + b
  BY <1>3, MarkedTyped
<1>5. /\ \A k \in 1..a : fa[k] = row(Nth(A, k))
      /\ \A k \in 1..b : fb[k] = row(Nth(B, k))
      /\ \A k \in 1..(a + b) : fc[k] = row(Nth(A \cup B, k))
  BY <1>3, Zenon DEF Marked
<1> HIDE DEF fa, fb, fc, row
<1>6. ASSUME NEW k \in 1..(a + b) PROVE fc[k] = IF k <= a THEN fa[k] ELSE fb[k - a]
  <2>1. Nth(A \cup B, k) = IF k <= a THEN Nth(A, k) ELSE Nth(B, k - a)
    BY NthOfBoth
  <2> HIDE DEF a, b
  <2>2. CASE k <= a
    <3>1. k \in 1..a
      BY <1>1, <2>2
    <3> QED
      BY <1>5, <2>1, <2>2, <3>1
  <2>3. CASE ~(k <= a)
    <3>1. k - a \in 1..b
      BY <1>1, <2>3
    <3> QED
      BY <1>5, <2>1, <2>3, <3>1
  <2> QED
    BY <2>2, <2>3
<1> HIDE DEF a, b
<1>7. fc = fa \o fb
  <2> DEFINE ab == fa \o fb
  <2>1. /\ ab \in Seq(Lines) /\ Len(ab) = a + b
        /\ \A k \in 1..(a + b) : ab[k] = IF k <= a THEN fa[k] ELSE fb[k - a]
    BY <1>4, ConcatProperties
  <2> HIDE DEF ab
  <2>2. /\ Len(fc) = Len(ab)
        /\ \A k \in 1..Len(fc) : fc[k] = ab[k]
    BY <1>4, <1>6, <2>1
  <2>3. fc = ab
    BY <1>4, <2>1, <2>2, SeqEqual
  <2> QED
    BY <2>3 DEF ab
<1> QED
  BY <1>7 DEF fa, fb, fc
-----------------------------------------------------------------------------
(* Transcripts: the invariant.                                             *)
TargetTypes ==
  /\ owner \in [MessageIds -> {"none", "gone"} \cup Sessions]
  /\ enabled \subseteq MessageIds
  /\ restored \in BOOLEAN
  /\ mode \in {"pending", "incremental", "full_fallback"}
  /\ known \subseteq Sessions /\ lastId \in 0..MaxRows

FileTypes ==
  /\ pending \in [do : {"nothing", "append", "rebuild", "unchanged"},
                  lines : Seq(Lines), final : BOOLEAN]
  /\ pending # Nothing => pending.do # "nothing"
  /\ exporter \in {"running", "stopping", "closed", "left open"}
  /\ file \in Seq(Lines) /\ seen \in Seq(Lines) /\ torn \in BOOLEAN

\* What the target remembers of an incremental read that found the messages P, those of E
\* marked: of the messages up to the last one it saw, none has come since, and none was
\* marked that it saw unmarked.
Remembers(P, E) ==
  /\ DOMAIN states = known
  /\ \A s \in known : /\ states[s].count = Cardinality(P[s])
                      /\ states[s].onCount = Cardinality(P[s] \cap E)
                      /\ \A i \in P[s] : i <= lastId
                      /\ \A i \in IdsOf(s) : i <= lastId =>
                           /\ i \in P[s]
                           /\ (~restored /\ i \in enabled) => i \in E
  /\ seen = Marked(UNION {P[s] : s \in known}, E)

MemoryInv ==
  /\ lastId > 0 => owner[lastId] # "none"
  /\ mode = "pending" => known = {}
  /\ mode = "incremental" =>
       \E P \in [Sessions -> SUBSET MessageIds], E \in SUBSET MessageIds : Remembers(P, E)
  /\ signed = IF mode = "full_fallback" THEN seen ELSE Unsigned

\* The file when the flush that is under way has ended well.
Outcome ==
  IF pending.do = "rebuild" THEN pending.lines
  ELSE IF pending.do = "append" THEN file \o pending.lines ELSE file

Ids(rows) == [k \in DOMAIN rows |-> rows[k].id]
Alike(f, g) == Ids(f) = Ids(g) /\ (~restored => f = g)

OutcomeInv ==
  /\ (~torn \/ pending.do = "rebuild") => Alike(Outcome, seen)
  /\ (pending.final /\ mode # "full_fallback") => pending.do = "rebuild"
  /\ exporter \in {"closed", "left open"} => pending = Nothing
  /\ (exporter = "closed" /\ torn) => mode = "full_fallback"

TInv == TargetTypes /\ FileTypes /\ MemoryInv /\ OutcomeInv

LEMMA TranscriptInitInv == TranscriptInit => TInv
<1> SUFFICES ASSUME TranscriptInit PROVE TInv
  OBVIOUS
<1> USE DEF TranscriptInit
<1>1. << >> \in Seq(Lines)
  OBVIOUS
<1>2. TargetTypes
  <2>1. 0 \in 0..MaxRows
    BY TranscriptAssumption
  <2>2. owner \in [MessageIds -> {"none", "gone"} \cup Sessions]
    OBVIOUS
  <2> QED
    BY <2>1, <2>2 DEF TargetTypes
<1>3. FileTypes
  BY <1>1 DEF FileTypes, Nothing
<1>4. MemoryInv
  BY DEF MemoryInv
<1>5. OutcomeInv
  BY DEF OutcomeInv, Outcome, Alike, Nothing
<1> QED
  BY <1>2, <1>3, <1>4, <1>5 DEF TInv

\* What a step of the host does to the messages the last read may have seen.
LEMMA HostMoves ==
  ASSUME TInv, HostStep
  PROVE  /\ UNCHANGED <<targetVars, fileVars>>
         /\ TargetTypes'
         /\ restored => restored'
         /\ lastId > 0 => owner'[lastId] # "none"
         /\ \A i \in MessageIds : (i <= lastId /\ owner'[i] \in Sessions) => owner[i] = owner'[i]
         /\ \A i \in MessageIds :
              (i <= lastId /\ i \in enabled' /\ ~restored') => i \in enabled
<1> USE DEF TInv, TargetTypes, ExporterIdle, targetVars, fileVars
<1>0. lastId > 0 => owner[lastId] # "none"
  BY DEF MemoryInv
<1>1. CASE Compress
  BY <1>0, <1>1 DEF Compress
<1>2. ASSUME NEW i \in MessageIds, AddMessage(i) PROVE i > lastId
  <2>1. \A j \in i..MaxRows : owner[j] = "none"
    BY <1>2 DEF AddMessage, Unwritten
  <2> QED
    BY <1>0, <2>1, TranscriptAssumption DEF MessageIds
<1>3. ASSUME NEW i \in MessageIds, AddMessage(i) PROVE UNCHANGED <<targetVars, fileVars, restored>>
  BY <1>3 DEF AddMessage
<1>4. ASSUME NEW i \in MessageIds, AddMessage(i)
      PROVE  /\ TargetTypes'
             /\ \A j \in MessageIds \ {i} : owner'[j] = owner[j] /\ (j \in enabled' <=> j \in enabled)
  BY <1>4 DEF AddMessage, Sessions
<1>5. ASSUME NEW i \in MessageIds, DropMessage(i)
      PROVE  /\ UNCHANGED <<targetVars, fileVars, restored>>
             /\ TargetTypes' /\ owner'[i] = "gone" /\ enabled' \subseteq enabled
             /\ \A j \in MessageIds \ {i} : owner'[j] = owner[j]
  BY <1>5 DEF DropMessage
<1>6. ASSUME NEW i \in MessageIds, Toggle(i)
      PROVE  /\ UNCHANGED <<targetVars, fileVars, owner>>
             /\ TargetTypes' /\ (restored => restored')
             /\ restored' \/ enabled' \subseteq enabled
  <2>1. UNCHANGED <<targetVars, fileVars, owner>>
    BY <1>6 DEF Toggle
  <2>2. \/ enabled' = enabled \ {i} /\ restored' = restored
        \/ enabled' = enabled \cup {i} /\ restored' = TRUE
    BY <1>6 DEF Toggle
  <2>3. /\ enabled' \subseteq MessageIds /\ restored' \in BOOLEAN
        /\ restored => restored'
        /\ restored' \/ enabled' \subseteq enabled
    BY <2>2
  <2> QED
    BY <2>1, <2>3
<1>7. \A i \in MessageIds : i \in Nat
  BY TranscriptAssumption DEF MessageIds
<1>8. lastId > 0 => lastId \in MessageIds
  BY DEF MessageIds
<1>9. CASE \E i \in MessageIds : AddMessage(i)
  <2>1. PICK i \in MessageIds : AddMessage(i)
    BY <1>9
  <2>2. /\ i > lastId
        /\ UNCHANGED <<targetVars, fileVars, restored>>
        /\ TargetTypes'
        /\ \A j \in MessageIds \ {i} : owner'[j] = owner[j] /\ (j \in enabled' <=> j \in enabled)
    BY <1>2, <1>3, <1>4, <2>1
  <2>3. \A j \in MessageIds : j <= lastId => j # i
    BY <1>7, <2>2
  <2>4. \A j \in MessageIds : j <= lastId => owner'[j] = owner[j] /\ (j \in enabled' <=> j \in enabled)
    BY <2>2, <2>3
  <2>5. lastId > 0 => owner'[lastId] = owner[lastId]
    BY <1>8, <2>4
  <2> QED
    BY <1>0, <2>2, <2>4, <2>5
<1>10. CASE \E i \in MessageIds : DropMessage(i)
  <2>1. PICK i \in MessageIds : DropMessage(i)
    BY <1>10
  <2>2. /\ UNCHANGED <<targetVars, fileVars, restored>>
        /\ TargetTypes' /\ owner'[i] = "gone" /\ enabled' \subseteq enabled
        /\ \A j \in MessageIds \ {i} : owner'[j] = owner[j]
    BY <1>5, <2>1
  <2>3. lastId > 0 => owner'[lastId] # "none"
    BY <1>0, <1>8, <2>2
  <2> QED
    BY <2>2, <2>3 DEF Sessions
<1>11. CASE \E i \in MessageIds : Toggle(i)
  BY <1>0, <1>6, <1>11
<1> QED
  BY <1>1, <1>9, <1>10, <1>11 DEF HostStep

LEMMA HostStepKeeps == TInv /\ HostStep => TInv'
<1> SUFFICES ASSUME TInv, HostStep PROVE TInv'
  OBVIOUS
<1>1. /\ UNCHANGED <<targetVars, fileVars>>
      /\ TargetTypes'
      /\ restored => restored'
      /\ lastId > 0 => owner'[lastId] # "none"
      /\ \A i \in MessageIds : (i <= lastId /\ owner'[i] \in Sessions) => owner[i] = owner'[i]
      /\ \A i \in MessageIds :
           (i <= lastId /\ i \in enabled' /\ ~restored') => i \in enabled
  BY HostMoves
<1>2. FileTypes'
  BY <1>1 DEF TInv, FileTypes, fileVars
<1>3. ASSUME NEW P \in [Sessions -> SUBSET MessageIds], NEW E \in SUBSET MessageIds,
             Remembers(P, E)
      PROVE  Remembers(P, E)'
  <2>1. known \subseteq Sessions /\ UNCHANGED <<known, states, lastId, seen>>
    BY <1>1 DEF TInv, TargetTypes, targetVars, fileVars
  <2>2. ASSUME NEW s \in known, NEW i \in MessageIds, owner'[i] = s, i <= lastId
        PROVE  /\ i \in P[s]
               /\ (~restored' /\ i \in enabled') => i \in E
    <3>1. owner[i] = s
      BY <1>1, <2>1, <2>2
    <3>2. i \in P[s] /\ ((~restored /\ i \in enabled) => i \in E)
      BY <1>3, <2>2, <3>1 DEF Remembers, IdsOf
    <3> QED
      BY <1>1, <2>2, <3>2
  <2>3. \A s \in known : \A i \in IdsOf(s)' : i <= lastId' =>
           /\ i \in P[s]
           /\ (~restored' /\ i \in enabled') => i \in E
    BY <2>1, <2>2 DEF IdsOf
  <2>4. /\ DOMAIN states' = known'
        /\ \A s \in known' : /\ states'[s].count = Cardinality(P[s])
                             /\ states'[s].onCount = Cardinality(P[s] \cap E)
                             /\ \A i \in P[s] : i <= lastId'
        /\ seen' = Marked(UNION {P[s] : s \in known'}, E)
    BY <1>3, <2>1 DEF Remembers
  <2> QED
    BY <2>1, <2>3, <2>4 DEF Remembers
<1>4. MemoryInv'
  <2>1. UNCHANGED <<mode, known, lastId, signed, seen>>
    BY <1>1 DEF targetVars, fileVars
  <2>2. mode' = "incremental" =>
           \E P \in [Sessions -> SUBSET MessageIds], E \in SUBSET MessageIds : Remembers(P, E)'
    BY <1>3, <2>1 DEF TInv, MemoryInv
  <2>3. /\ lastId' > 0 => owner'[lastId'] # "none"
        /\ mode' = "pending" => known' = {}
        /\ signed' = IF mode' = "full_fallback" THEN seen' ELSE Unsigned
    BY <1>1, <2>1 DEF TInv, MemoryInv
  <2> QED
    BY <2>2, <2>3 DEF MemoryInv
<1>5. OutcomeInv'
  BY <1>1 DEF TInv, OutcomeInv, Outcome, Alike, targetVars, fileVars
<1> QED
  BY <1>1, <1>2, <1>4, <1>5 DEF TInv
-----------------------------------------------------------------------------
(* Transcripts: the reads.                                                 *)
Now(ss, after) == {i \in MessageIds : owner[i] \in ss /\ i > after}

LEMMA RowsAreMarked ==
  ASSUME NEW ss, NEW after
  PROVE  /\ Now(ss, after) \in SUBSET MessageIds
         /\ MessageRows(ss, after) = Marked(Now(ss, after), enabled)
         /\ MessageRows(ss, after) \in Seq(Lines)
         /\ (MessageRows(ss, after) = << >>) => Now(ss, after) = {}
<1> DEFINE ids == Now(ss, after)
<1>1. ids \in SUBSET MessageIds
  BY DEF Now
<1>2. MessageRows(ss, after) = Marked(ids, enabled)
  BY DEF Now, MessageRows, RowsOf, Line, Marked
<1>3. Marked(ids, enabled) \in Seq(Lines) /\ Len(Marked(ids, enabled)) = Cardinality(ids)
  BY <1>1, MarkedTyped
<1>4. MessageRows(ss, after) = << >> => Cardinality(ids) = 0
  BY <1>2, <1>3
<1>5. Cardinality(ids) = 0 => ids = {}
  BY <1>1, IdsFinite, FS_EmptySet
<1> QED
  BY <1>1, <1>2, <1>3, <1>4, <1>5

\* The signature a target begins with is not that of any messages.
LEMMA RowsAreSigned ==
  ASSUME NEW ids \in SUBSET MessageIds, NEW on
  PROVE  Marked(ids, on) # Unsigned
<1> SUFFICES ASSUME Marked(ids, on) = Unsigned PROVE FALSE
  OBVIOUS
<1>1. Len(Marked(ids, on)) = Cardinality(ids)
  BY MarkedTyped
<1>2. Cardinality(ids) = 1
  BY <1>1 DEF Unsigned
<1>3. Marked(ids, on)[1].id = 0
  BY DEF Unsigned
<1>4. Marked(ids, on)[1].id = Nth(ids, 1)
  BY <1>2 DEF Marked
<1>5. Nth(ids, 1) \in ids
  BY <1>2, NthIn
<1> QED
  BY <1>3, <1>4, <1>5, TranscriptAssumption DEF MessageIds

LEMMA ReadFullKeeps ==
  ASSUME TInv, NEW force \in BOOLEAN, ReadFull(force), pending = Nothing,
         exporter \in {"running", "stopping"},
         UNCHANGED <<hostVars, exporter, file, torn>>
  PROVE  TInv'
<1> DEFINE lines == MessageRows({"root"}, 0)
<1>1. lines \in Seq(Lines) /\ lines # Unsigned
  BY RowsAreMarked, RowsAreSigned
<1> HIDE DEF lines
<1>2. /\ mode' = "full_fallback" /\ known' = {"root"} /\ signed' = lines /\ seen' = lines
      /\ pending' = [do |-> IF lines = signed THEN "unchanged" ELSE "rebuild",
                     lines |-> lines, final |-> force]
      /\ lastId' = lastId
  BY DEF ReadFull, lines
<1>3. UNCHANGED <<owner, enabled, restored>> /\ exporter' \notin {"closed", "left open"}
  BY DEF hostVars
<1>4. TargetTypes'
  BY <1>2, <1>3 DEF TInv, TargetTypes, MessageIds, Sessions
<1>5. FileTypes'
  BY <1>1, <1>2, Zenon DEF TInv, FileTypes, Nothing
<1>6. MemoryInv'
  BY <1>2, <1>3 DEF TInv, MemoryInv
<1>10. /\ ((pending.final /\ mode # "full_fallback") => pending.do = "rebuild")'
       /\ (exporter \in {"closed", "left open"} => pending = Nothing)'
       /\ ((exporter = "closed" /\ torn) => mode = "full_fallback")'
  BY <1>2, <1>3
<1>7. ASSUME lines = signed PROVE OutcomeInv'
  <2>1. signed = seen
    BY <1>1, <1>7 DEF TInv, MemoryInv
  <2>2. ~torn => Alike(file, seen)
    BY DEF TInv, OutcomeInv, Outcome, Nothing
  <2>3. pending'.do = "unchanged"
    BY <1>2, <1>7
  <2>4. Outcome' = file /\ seen' = seen
    BY <1>2, <1>7, <2>1, <2>3 DEF Outcome
  <2>5. (~torn' \/ pending'.do = "rebuild") => Alike(Outcome, seen)'
    BY <1>3, <2>2, <2>3, <2>4 DEF Alike
  <2> QED
    BY <1>10, <2>5 DEF OutcomeInv
<1>8. ASSUME lines # signed PROVE OutcomeInv'
  <2>1. Outcome' = lines
    BY <1>2, <1>8 DEF Outcome
  <2>2. Alike(Outcome, seen)'
    BY <1>2, <2>1 DEF Alike
  <2> QED
    BY <1>10, <2>2 DEF OutcomeInv, Alike
<1> QED
  BY <1>4, <1>5, <1>6, <1>7, <1>8 DEF TInv

\* The counts of a session tell that nothing is missing of what was read of it.
LEMMA NothingMissing ==
  ASSUME TInv, NEW s \in known,
         NEW P \in [Sessions -> SUBSET MessageIds], NEW E \in SUBSET MessageIds,
         Remembers(P, E),
         StateOf(IdsOf(s)) = Appended(states[s], {i \in IdsOf(s) : i > lastId})
  PROVE  /\ {i \in IdsOf(s) : i <= lastId} = P[s]
         /\ ~restored => \A i \in P[s] : i \in E <=> i \in enabled
<1> DEFINE ids == IdsOf(s)
           old == {i \in ids : i <= lastId}
           new == {i \in ids : i > lastId}
<1>1. /\ s \in Sessions /\ lastId \in Nat /\ enabled \in SUBSET MessageIds
      /\ \A i \in MessageIds : i \in Nat
  BY TranscriptAssumption DEF TInv, TargetTypes, MessageIds
<1>2. /\ ids \in SUBSET MessageIds /\ old \in SUBSET MessageIds /\ new \in SUBSET MessageIds
      /\ P[s] \in SUBSET MessageIds
  BY <1>1 DEF IdsOf
<1>3. /\ states[s].count = Cardinality(P[s])
      /\ states[s].onCount = Cardinality(P[s] \cap E)
  BY DEF Remembers
<1>4. StateOf(ids).count = Appended(states[s], new).count
      /\ StateOf(ids).onCount = Appended(states[s], new).onCount
  OBVIOUS
<1>5. /\ Cardinality(ids) = states[s].count + Cardinality(new)
      /\ Cardinality(ids \cap enabled) = states[s].onCount + Cardinality(new \cap enabled)
  BY <1>4, Zenon DEF StateOf, Appended
<1>6. /\ ids = old \cup new /\ old \cap new = {}
      /\ ids \cap enabled = (old \cap enabled) \cup (new \cap enabled)
      /\ (old \cap enabled) \cap (new \cap enabled) = {}
  BY <1>1, <1>2
<1>7. /\ \A i \in old : i \in P[s]
      /\ ~restored => \A i \in old : i \in enabled => i \in E
  BY DEF Remembers
<1> HIDE DEF ids, old, new
<1>8. /\ Cardinality(ids) = Cardinality(old) + Cardinality(new)
      /\ Cardinality(ids \cap enabled) = Cardinality(old \cap enabled) + Cardinality(new \cap enabled)
  BY <1>1, <1>2, <1>6, CardinalityOfBoth
<1>9. /\ Cardinality(old) \in Nat /\ Cardinality(new) \in Nat /\ Cardinality(P[s]) \in Nat
      /\ IsFiniteSet(P[s]) /\ IsFiniteSet(P[s] \cap E)
      /\ Cardinality(old \cap enabled) \in Nat /\ Cardinality(new \cap enabled) \in Nat
      /\ Cardinality(P[s] \cap E) \in Nat
  <2>1. /\ P[s] \cap E \in SUBSET MessageIds
        /\ old \cap enabled \in SUBSET MessageIds /\ new \cap enabled \in SUBSET MessageIds
    BY <1>1, <1>2
  <2> QED
    BY <1>2, <2>1, IdsFinite
<1>10. /\ Cardinality(old) = Cardinality(P[s])
       /\ Cardinality(old \cap enabled) = Cardinality(P[s] \cap E)
  BY <1>3, <1>5, <1>8, <1>9
<1>11. old = P[s]
  <2>1. old \in SUBSET P[s]
    BY <1>7
  <2> QED
    BY <1>9, <1>10, <2>1, FS_Subset
<1>12. ~restored => old \cap enabled = P[s] \cap E
  <2> SUFFICES ASSUME ~restored PROVE old \cap enabled = P[s] \cap E
    OBVIOUS
  <2>1. old \cap enabled \in SUBSET (P[s] \cap E)
    BY <1>7, <1>11
  <2> QED
    BY <1>9, <1>10, <2>1, FS_Subset
<1> QED
  BY <1>11, <1>12 DEF old, ids

\* A reader of the new rows only has what a reader of all rows would have.
LEMMA NewRowsSuffice ==
  ASSUME TInv, mode = "incremental", known = Lineage, IsAppendOnly(states, SessionStates),
         ~torn, pending = Nothing
  PROVE  Alike(file \o MessageRows(Lineage, lastId), MessageRows(Lineage, 0))
<1>1. PICK P \in [Sessions -> SUBSET MessageIds], E \in SUBSET MessageIds : Remembers(P, E)
  BY DEF TInv, MemoryInv
<1> DEFINE A == UNION {P[s] : s \in known}
           B == Now(Lineage, lastId)
           all == Now(Lineage, 0)
<1>2. /\ lastId \in Nat /\ known \subseteq Sessions
      /\ \A i \in MessageIds : i \in Nat /\ i > 0
  BY TranscriptAssumption DEF TInv, TargetTypes, MessageIds
<1>3. ASSUME NEW s \in known
      PROVE  StateOf(IdsOf(s)) = Appended(states[s], {i \in IdsOf(s) : i > lastId})
  <2>1. SessionStates[s] = StateOf(IdsOf(s))
    BY DEF SessionStates
  <2>2. s \in DOMAIN states
    BY <1>1 DEF Remembers
  <2> QED
    BY <2>1, <2>2 DEF IsAppendOnly
<1>4. \A s \in known : /\ {i \in IdsOf(s) : i <= lastId} = P[s]
                       /\ ~restored => \A i \in P[s] : i \in E <=> i \in enabled
  BY <1>1, <1>3, NothingMissing
<1>5. A \in SUBSET MessageIds /\ B \in SUBSET MessageIds
  BY <1>2 DEF Now
<1>6. \A i \in A, j \in B : i < j
  <2>1. \A i \in A : i <= lastId
    BY <1>1 DEF Remembers
  <2>2. \A j \in B : j > lastId
    BY DEF Now
  <2> QED
    BY <1>2, <1>5, <2>1, <2>2
<1>7. all = A \cup B
  <2>1. \A i \in MessageIds : i \in A <=> owner[i] \in known /\ i <= lastId
    BY <1>4 DEF IdsOf
  <2> QED
    BY <1>2, <1>5, <2>1 DEF Now
<1>8. seen = Marked(A, E)
  BY <1>1 DEF Remembers
<1>9. /\ MessageRows(Lineage, lastId) = Marked(B, enabled)
      /\ MessageRows(Lineage, 0) = Marked(A \cup B, enabled)
  BY <1>7, RowsAreMarked
<1>10. ~restored => \A i \in A : i \in E <=> i \in enabled
  BY <1>4
<1> HIDE DEF A, B, all
<1>11. Marked(A \cup B, enabled) = Marked(A, enabled) \o Marked(B, enabled)
  <2>1. \A x \in SUBSET MessageIds, y \in SUBSET MessageIds :
          (\A i \in x, j \in y : i < j) =>
            Marked(x \cup y, enabled) = Marked(x, enabled) \o Marked(y, enabled)
    BY MarkedOfBoth
  <2> QED
    BY <1>5, <1>6, <2>1
<1>12. /\ Marked(A, E) \in Seq(Lines) /\ Len(Marked(A, E)) = Cardinality(A)
       /\ Marked(A, enabled) \in Seq(Lines) /\ Len(Marked(A, enabled)) = Cardinality(A)
       /\ Marked(B, enabled) \in Seq(Lines)
  BY <1>5, MarkedTyped
<1>13. \A k \in 1..Cardinality(A) : Marked(A, E)[k].id = Marked(A, enabled)[k].id
  BY Zenon DEF Marked
<1>14. /\ Ids(file) = Ids(Marked(A, E))
       /\ ~restored => file = Marked(A, E)
  BY <1>8 DEF TInv, OutcomeInv, Outcome, Nothing, Alike
<1>15. file \in Seq(Lines)
  BY DEF TInv, FileTypes
<1>16. ~restored => file \o Marked(B, enabled) = Marked(A \cup B, enabled)
  BY <1>5, <1>10, <1>11, <1>14, MarkedAlike
<1>17. Ids(file \o Marked(B, enabled)) = Ids(Marked(A \cup B, enabled))
  <2> DEFINE fa == Marked(A, enabled)
             fb == Marked(B, enabled)
  <2>1. Len(file) = Cardinality(A) /\ Cardinality(A) \in Nat
        /\ \A k \in 1..Cardinality(A) : file[k].id = fa[k].id
    <3>1. DOMAIN Ids(file) = DOMAIN file /\ \A k \in DOMAIN file : Ids(file)[k] = file[k].id
      BY DEF Ids
    <3>2. /\ DOMAIN Ids(Marked(A, E)) = 1..Cardinality(A)
          /\ \A k \in 1..Cardinality(A) : Ids(Marked(A, E))[k] = Marked(A, E)[k].id
      BY <1>12 DEF Ids
    <3>3. DOMAIN file = 1..Len(file) /\ Len(file) \in Nat
      BY <1>15
    <3>4. Cardinality(A) \in Nat
      BY <1>5, IdsFinite
    <3>5. 1..Len(file) = 1..Cardinality(A)
      BY <1>14, <3>1, <3>2, <3>3
    <3>6. Len(file) = Cardinality(A)
      BY <3>3, <3>4, <3>5
    <3> QED
      BY <1>13, <1>14, <3>1, <3>2, <3>3, <3>4, <3>6
  <2> HIDE DEF fa, fb
  <2>2. fa \in Seq(Lines) /\ fb \in Seq(Lines) /\ Len(fa) = Cardinality(A)
    BY <1>12 DEF fa, fb
  <2>3. DOMAIN (file \o fb) = DOMAIN (fa \o fb)
    BY <1>15, <2>1, <2>2
  <2>4. \A k \in DOMAIN (fa \o fb) : (file \o fb)[k].id = (fa \o fb)[k].id
    BY <1>15, <2>1, <2>2
  <2>5. Ids(file \o fb) = Ids(fa \o fb)
    BY <2>3, <2>4, Zenon DEF Ids
  <2> QED
    BY <1>11, <2>5 DEF fa, fb
<1> QED
  BY <1>9, <1>16, <1>17 DEF Alike

LEMMA ReadIncrementalKeeps ==
  ASSUME TInv, NEW force \in BOOLEAN, mode # "full_fallback", ReadIncremental(force),
         pending = Nothing, exporter \in {"running", "stopping"},
         UNCHANGED <<hostVars, exporter, file, torn>>
  PROVE  TInv'
<1> DEFINE rebuild == force \/ known # Lineage \/ ~IsAppendOnly(states, SessionStates)
           lines == MessageRows(Lineage, IF rebuild THEN 0 ELSE lastId)
           all == UNION {IdsOf(s) : s \in Lineage}
           kind == CASE rebuild -> "rebuild"
                     [] ~rebuild /\ lines # << >> -> "append"
                     [] ~rebuild /\ lines = << >> -> "unchanged"
<1>1. /\ mode' = "incremental" /\ known' = Lineage /\ states' = SessionStates
      /\ lastId' = Greatest(all) /\ seen' = MessageRows(Lineage, 0) /\ signed' = signed
      /\ pending' = [do |-> kind, lines |-> lines, final |-> force]
  BY DEF ReadIncremental
<1>2. /\ kind \in {"append", "rebuild", "unchanged"}
      /\ kind = "rebuild" <=> rebuild
      /\ kind = "append" => lines # << >>
      /\ kind = "unchanged" => lines = << >>
  OBVIOUS
<1>3. /\ rebuild => lines = MessageRows(Lineage, 0)
      /\ ~rebuild => lines = MessageRows(Lineage, lastId)
  OBVIOUS
<1>4. lines \in Seq(Lines) /\ MessageRows(Lineage, 0) \in Seq(Lines)
  BY RowsAreMarked
<1>5. ~rebuild => ~force /\ known = Lineage /\ IsAppendOnly(states, SessionStates)
  OBVIOUS
<1>6. force => rebuild
  OBVIOUS
<1> HIDE DEF kind, lines, rebuild
<1>7. UNCHANGED <<owner, enabled, restored, parted, file, torn>>
      /\ exporter' = exporter
  BY DEF hostVars
<1>8. Lineage \in SUBSET Sessions /\ Lineage # {} /\ Lineage' = Lineage
  BY <1>7 DEF Lineage, Sessions
<1>9. all \in SUBSET MessageIds /\ \A i \in MessageIds : i \in all <=> owner[i] \in Lineage
  BY DEF IdsOf
<1> HIDE DEF all
<1>10. /\ lastId' \in 0..MaxRows /\ \A i \in all : i <= lastId'
       /\ lastId' > 0 => lastId' \in all
  BY <1>1, <1>9, GreatestIs
<1>11. TargetTypes'
  <2>1. /\ owner' \in [MessageIds -> {"none", "gone"} \cup Sessions]
        /\ enabled' \subseteq MessageIds /\ restored' \in BOOLEAN
    BY <1>7 DEF TInv, TargetTypes
  <2> QED
    BY <1>1, <1>8, <1>10, <2>1 DEF TargetTypes
<1>12. FileTypes'
  <2>1. pending' \in [do : {"nothing", "append", "rebuild", "unchanged"},
                      lines : Seq(Lines), final : BOOLEAN]
    BY <1>1, <1>2, <1>4, Zenon
  <2>2. pending'.do # "nothing"
    BY <1>1, <1>2, Zenon
  <2>3. exporter' \in {"running", "stopping", "closed", "left open"}
    BY <1>7
  <2>4. file' \in Seq(Lines) /\ torn' \in BOOLEAN
    BY <1>7 DEF TInv, FileTypes
  <2> QED
    BY <1>1, <1>4, <2>1, <2>2, <2>3, <2>4, Zenon DEF FileTypes
<1>13. MemoryInv'
  <2>1. PICK P \in [Sessions -> SUBSET MessageIds] : P = [s \in Sessions |-> IdsOf(s)]
    BY DEF IdsOf
  <2>2. PICK E \in SUBSET MessageIds : E = enabled
    BY DEF TInv, TargetTypes
  <2>3. \A s \in Lineage : P[s] = IdsOf(s) /\ IdsOf(s)' = IdsOf(s)
    BY <1>7, <1>8, <2>1 DEF IdsOf
  <2>4. UNION {P[s] : s \in Lineage} = all
    BY <2>3 DEF all
  <2>5. seen' = Marked(all, E)
    <3>1. \A i \in MessageIds : i > 0
      BY TranscriptAssumption DEF MessageIds
    <3>2. Now(Lineage, 0) = all
      BY <1>9, <3>1 DEF Now
    <3> QED
      BY <1>1, <2>2, <3>2, RowsAreMarked
  <2>6. /\ DOMAIN states' = known'
        /\ \A s \in known' : /\ states'[s].count = Cardinality(P[s])
                             /\ states'[s].onCount = Cardinality(P[s] \cap E)
    BY <1>1, <2>2, <2>3 DEF SessionStates, StateOf
  <2>7. \A s \in known' : \A i \in P[s] : i <= lastId'
    BY <1>1, <1>10, <2>3, <2>4
  <2>8. Remembers(P, E)'
    <3>1. \A s \in known' : \A i \in IdsOf(s)' : i \in P[s]
      BY <1>1, <2>3
    <3>2. seen' = Marked(UNION {P[s] : s \in known'}, E)
      BY <1>1, <2>4, <2>5
    <3> QED
      BY <1>7, <2>2, <2>6, <2>7, <3>1, <3>2 DEF Remembers
  <2>9. lastId' > 0 => owner'[lastId'] # "none"
    BY <1>7, <1>8, <1>9, <1>10 DEF Sessions
  <2> QED
    BY <1>1, <2>1, <2>2, <2>8, <2>9 DEF TInv, MemoryInv
<1>14. OutcomeInv'
  <2>1. ASSUME rebuild PROVE Alike(Outcome, seen)'
    <3>1. Outcome' = lines
      BY <1>1, <1>2, <2>1 DEF Outcome
    <3>2. Outcome' = seen'
      BY <1>1, <1>3, <2>1, <3>1
    <3> QED
      BY <3>2 DEF Alike
  <2>2. ASSUME ~rebuild, ~torn PROVE Alike(Outcome, seen)'
    <3>1. mode = "incremental"
      BY <1>5, <1>8, <2>2 DEF TInv, TargetTypes, MemoryInv
    <3>2. Alike(file \o lines, MessageRows(Lineage, 0))
      BY <1>3, <1>5, <2>2, <3>1, NewRowsSuffice
    <3>3. file \in Seq(Lines)
      BY DEF TInv, FileTypes
    <3>4. Outcome' = file \o lines
      <4>1. CASE kind = "append"
        BY <1>1, <1>7, <4>1 DEF Outcome
      <4>2. CASE kind = "unchanged"
        <5>1. file \o lines = file
          BY <1>2, <3>3, <4>2
        <5> QED
          BY <1>1, <1>7, <4>2, <5>1 DEF Outcome
      <4> QED
        BY <1>2, <2>2, <4>1, <4>2
    <3> QED
      BY <1>1, <1>7, <3>2, <3>4 DEF Alike
  <2>3. ((~torn \/ pending.do = "rebuild") => Alike(Outcome, seen))'
    <3>1. pending'.do = "rebuild" => rebuild
      BY <1>1, <1>2
    <3> QED
      BY <1>7, <2>1, <2>2, <3>1
  <2>4. /\ ((pending.final /\ mode # "full_fallback") => pending.do = "rebuild")'
        /\ (exporter \in {"closed", "left open"} => pending = Nothing)'
        /\ ((exporter = "closed" /\ torn) => mode = "full_fallback")'
    BY <1>1, <1>2, <1>6, <1>7
  <2> QED
    BY <2>3, <2>4 DEF OutcomeInv
<1> QED
  BY <1>11, <1>12, <1>13, <1>14 DEF TInv

LEMMA ReadKeeps == TInv /\ (\E force \in BOOLEAN : Read(force)) => TInv'
<1> SUFFICES ASSUME TInv, NEW force \in BOOLEAN, Read(force) PROVE TInv'
  OBVIOUS
<1>1. /\ pending = Nothing /\ exporter \in {"running", "stopping"}
      /\ UNCHANGED <<hostVars, exporter, file, torn>>
  BY DEF Read, TInv, FileTypes
<1>2. \/ mode # "full_fallback" /\ ReadIncremental(force)
      \/ ReadFull(force)
  BY DEF Read
<1> QED
  BY <1>1, <1>2, ReadIncrementalKeeps, ReadFullKeeps
-----------------------------------------------------------------------------
(* Transcripts: the writes.                                                *)
LEMMA FileGrows ==
  ASSUME NEW f \in Seq(Lines), NEW g \in Seq(Lines), NEW l \in Lines
  PROVE  f \o g \in Seq(Lines) /\ Append(f, l) \in Seq(Lines)
OBVIOUS

LEMMA WriteKeeps == TInv /\ (Write \/ WriteFails \/ StopExporter) => TInv'
<1> SUFFICES ASSUME TInv, Write \/ WriteFails \/ StopExporter PROVE TInv'
  OBVIOUS
<1>1. /\ UNCHANGED <<hostVars, targetVars, seen>>
      /\ pending' = pending \/ pending' = Nothing
  BY DEF Write, WriteFails, StopExporter, EndFlush
<1>2. TargetTypes' /\ MemoryInv'
  <2>1. UNCHANGED <<owner, enabled, restored, mode, known, states, lastId, signed, seen>>
    BY <1>1 DEF hostVars, targetVars
  <2>2. TargetTypes'
    BY <2>1 DEF TInv, TargetTypes
  <2>3. ASSUME NEW P, NEW E, Remembers(P, E) PROVE Remembers(P, E)'
    BY <2>1, <2>3 DEF Remembers, IdsOf
  <2>4. MemoryInv'
    BY <2>1, <2>3 DEF TInv, MemoryInv
  <2> QED
    BY <2>2, <2>4
<1>3. UNCHANGED <<restored, mode, seen>>
  BY <1>1 DEF hostVars, targetVars
<1>4. << >> \in Seq(Lines) /\ TornLine \in Lines
  BY TranscriptAssumption DEF Lines, TornLine
<1>5. /\ pending.lines \in Seq(Lines) /\ file \in Seq(Lines) /\ seen \in Seq(Lines)
      /\ exporter \in {"running", "stopping", "closed", "left open"}
      /\ pending # Nothing => pending.do \in {"append", "rebuild", "unchanged"}
  BY DEF TInv, FileTypes
<1>6. pending # Nothing => Written = Outcome /\ Written \in Seq(Lines)
  <2>1. CASE pending.do = "append"
    <3>1. Written = file \o pending.lines /\ Outcome = file \o pending.lines
      BY <2>1 DEF Written, Outcome
    <3>2. file \o pending.lines \in Seq(Lines)
      BY <1>4, <1>5, FileGrows
    <3> QED
      BY <3>1, <3>2
  <2>2. CASE pending.do = "rebuild"
    BY <1>5, <2>2 DEF Written, Outcome
  <2>3. CASE pending.do = "unchanged"
    BY <1>5, <2>3 DEF Written, Outcome
  <2> QED
    BY <1>5, <2>1, <2>2, <2>3
<1>7. /\ pending' \in [do : {"nothing", "append", "rebuild", "unchanged"},
                       lines : Seq(Lines), final : BOOLEAN]
      /\ pending' # Nothing => pending'.do # "nothing"
  <2>1. Nothing \in [do : {"nothing", "append", "rebuild", "unchanged"},
                     lines : Seq(Lines), final : BOOLEAN]
    BY <1>4, Zenon DEF Nothing
  <2> QED
    BY <1>1, <2>1, Zenon DEF TInv, FileTypes
<1>8. CASE Write
  <2>1. /\ pending # Nothing /\ file' = Outcome /\ pending' = Nothing
        /\ torn' = (torn /\ pending.do # "rebuild")
        /\ exporter' = IF pending.final THEN "closed" ELSE exporter
    BY <1>6, <1>8 DEF Write, EndFlush
  <2>2. FileTypes'
    BY <1>3, <1>5, <1>6, <1>7, <2>1 DEF FileTypes
  <2>3. Outcome' = file'
    BY <2>1 DEF Outcome, Nothing
  <2>4. ~torn' => (~torn \/ pending.do = "rebuild")
    BY <2>1
  <2>5. ~torn' => Alike(Outcome, seen)'
    BY <1>3, <2>1, <2>3, <2>4 DEF TInv, OutcomeInv, Alike
  <2>6. (exporter = "closed" /\ torn)' => mode' = "full_fallback"
    BY <1>3, <2>1 DEF TInv, OutcomeInv
  <2> QED
    BY <1>2, <2>1, <2>2, <2>5, <2>6 DEF TInv, OutcomeInv, Nothing
<1>9. CASE WriteFails
  <2>1. /\ pending.do \in {"append", "rebuild"} /\ pending' = Nothing /\ torn' = TRUE
        /\ file' = file \/ file' = Append(file, TornLine)
        /\ exporter' = IF pending.final THEN "left open" ELSE exporter
    BY <1>9 DEF WriteFails, EndFlush
  <2>2. pending # Nothing
    <3>1. Nothing.do = "nothing"
      BY DEF Nothing
    <3> QED
      BY <2>1, <3>1
  <2>3. FileTypes'
    <3>1. file' \in Seq(Lines)
      <4>1. Append(file, TornLine) \in Seq(Lines)
        BY <1>4, <1>5, FileGrows
      <4> QED
        BY <1>5, <2>1, <4>1
    <3>2. exporter' \in {"running", "stopping", "closed", "left open"} /\ torn' \in BOOLEAN
      BY <1>5, <2>1
    <3>3. seen' \in Seq(Lines)
      BY <1>3, <1>5
    <3> QED
      BY <1>7, <3>1, <3>2, <3>3, Zenon DEF FileTypes
  <2>4. exporter' # "closed"
    BY <2>1, <2>2 DEF TInv, OutcomeInv
  <2> QED
    BY <1>2, <2>1, <2>3, <2>4 DEF TInv, OutcomeInv, Nothing
<1>10. CASE StopExporter
  <2>1. UNCHANGED <<pending, file, torn>> /\ exporter' = "stopping"
    BY <1>10 DEF StopExporter
  <2>2. FileTypes'
    BY <1>3, <2>1 DEF TInv, FileTypes
  <2>3. OutcomeInv'
    BY <1>3, <2>1 DEF TInv, OutcomeInv, Outcome, Alike
  <2> QED
    BY <1>2, <2>2, <2>3 DEF TInv
<1> QED
  BY <1>8, <1>9, <1>10

\* However little its flushes have read: what they leave is the file that a reader of all
\* messages would leave, up to the marks of messages that were made active again; and a
\* write that failed is made good by the last flush, but in the fallback mode
\* (_read_incremental, _is_append_only, _flush_target).
THEOREM TranscriptComplete == TranscriptSpec => []TranscriptFollows
<1>1. TInv /\ [TranscriptNext]_transcriptVars => TInv'
  <2> SUFFICES ASSUME TInv, [TranscriptNext]_transcriptVars PROVE TInv'
    OBVIOUS
  <2>1. CASE TranscriptNext
    BY <2>1, HostStepKeeps, ReadKeeps, WriteKeeps DEF TranscriptNext, FlushStep
  <2>2. CASE UNCHANGED transcriptVars
    <3>1. UNCHANGED <<owner, enabled, restored, mode, known, states, lastId, signed, pending,
                      exporter, file, seen, torn>>
      BY <2>2 DEF transcriptVars, hostVars, targetVars, fileVars
    <3>2. ASSUME NEW P, NEW E, Remembers(P, E) PROVE Remembers(P, E)'
      BY <3>1, <3>2 DEF Remembers, IdsOf
    <3>3. TargetTypes' /\ FileTypes'
      BY <3>1 DEF TInv, TargetTypes, FileTypes
    <3>4. MemoryInv'
      BY <3>1, <3>2 DEF TInv, MemoryInv
    <3>5. OutcomeInv'
      BY <3>1 DEF TInv, OutcomeInv, Outcome, Alike
    <3> QED
      BY <3>3, <3>4, <3>5 DEF TInv
  <2> QED
    BY <2>1, <2>2
<1>2. TInv => TranscriptFollows
  <2> SUFFICES ASSUME TInv PROVE TranscriptFollows
    OBVIOUS
  <2>1. (pending = Nothing /\ ~torn) => Alike(file, seen)
    BY DEF TInv, OutcomeInv, Outcome, Nothing
  <2> QED
    BY <2>1 DEF TInv, OutcomeInv, Alike, Ids, TranscriptFollows
<1> QED
  BY <1>1, <1>2, TranscriptInitInv, PTL DEF TranscriptSpec
=============================================================================
