---------------------------- MODULE ResultDelivery ----------------------------
(***************************************************************************)
(* What the chat a run was started from gets to see of it (run/manager.py): *)
(* the progress bubble, which is seeded before the run's thread starts and  *)
(* edited in place, and the one message with the result.  Three threads     *)
(* share managed.lock: the run's thread, which announces and completes the  *)
(* run; the gateway loop, which runs the callbacks of sends and edits, one  *)
(* at a time, and never waits; and an operator who pauses and resumes.      *)
(* The run itself is AbstractRun.                                           *)
(***************************************************************************)
EXTENDS AbstractRun, Naturals

VARIABLES
  worker,       \* where the launching thread, and then the run's thread, is
  loop,         \* where the gateway loop is in a callback
  seed,         \* the message that becomes the bubble
  requested,    \* progress_requested
  active,       \* progress_active, set together with progress_message_id
  edit,         \* the edit of the bubble that each party has under way
  bubble,       \* what the bubble shows
  finals,       \* the final snapshots rendered
  blurred,      \* a final edit was lost, or overtaken by a live one
  sendInFlight, \* result_send_in_flight
  resultSend,   \* the result message that each thread has sent
  delivered,    \* resultMessageId or resultMessageDelivered
  arrived,      \* the result messages that have reached the chat
  unsure,       \* one of them was not confirmed
  attempts,     \* the attempts to send the result
  announced,    \* the chat was told of the launch
  woken         \* the agent's loop was told of the completion

bubbleVars   == <<seed, requested, active, edit, bubble, finals, blurred, announced>>
resultVars   == <<sendInFlight, resultSend, delivered, arrived, unsure, attempts>>
deliveryVars == <<runVars, worker, loop, bubbleVars, resultVars, woken>>
-----------------------------------------------------------------------------
Workers == {"launching", "running", "polling", "finalizing", "scheduling", "awaiting",
            "delivering", "submitting", "sending", "waking", "done"}
Loops   == {"idle", "terminal", "scheduling", "greeting", "greeted", "owing", "submitting"}
Seeds   == {"none", "flying", "landed", "failed", "broken"}
Editors == {"worker", "loop", "greeting", "operator"}
Edits   == {"none", "captured", "flying"}
Senders == {"worker", "loop"}
Sends   == {"none", "flying", "late", "over"}

\* _RUNNING_STATES is every status that is not terminal.
Over == status \in Outcomes

DeliveryInit ==
  /\ RunInit
  /\ worker = "launching" /\ loop = "idle"
  /\ seed = "none" /\ requested = FALSE /\ active = FALSE
  /\ edit = [e \in Editors |-> "none"]
  /\ bubble = "none" /\ finals = 0 /\ blurred = FALSE
  /\ announced = FALSE
  /\ sendInFlight = FALSE
  /\ resultSend = [s \in Senders |-> "none"]
  /\ delivered = FALSE /\ arrived = 0 /\ unsure = FALSE /\ attempts = 0
  /\ woken = FALSE
-----------------------------------------------------------------------------
(* Launch: _seed_progress_bubble, and _notify_launch when there is no seed. *)

\* No progress wanted, no gateway, an adapter that cannot edit, or a send that could not
\* be scheduled: the launch marker is sent instead.
AnnouncePlainly ==
  /\ worker = "launching"
  /\ worker' = "running"
  /\ announced' = TRUE
  /\ UNCHANGED <<runVars, loop, seed, requested, active, edit, bubble, finals, blurred,
                 resultVars, woken>>

\* The seed is on its way, with its callback; or adapter.send has raised after
\* progress_requested was set, which nothing clears, and the marker is sent.
SeedBubble ==
  /\ worker = "launching"
  /\ worker' = "running"
  /\ requested' = TRUE
  /\ \/ seed' = "flying" /\ UNCHANGED announced
     \/ seed' = "broken" /\ announced' = TRUE
  /\ UNCHANGED <<runVars, loop, active, edit, bubble, finals, blurred, resultVars, woken>>
-----------------------------------------------------------------------------
(* The callback of the seed, on the gateway loop: _on_seeded.              *)

\* The bubble has an id; the status read under the same lock says who completes it.
SeedLands ==
  /\ seed = "flying" /\ loop = "idle"
  /\ seed' = "landed" /\ bubble' = "live"
  /\ active' = TRUE
  /\ announced' = TRUE
  /\ loop' = IF Over THEN "terminal" ELSE "greeting"
  /\ UNCHANGED <<runVars, worker, requested, edit, finals, blurred, resultVars, woken>>

\* Mutant: a failed seed is reported with the launch marker, whatever the run does.
SeedFailsQuietly ==
  /\ seed = "flying" /\ loop = "idle"
  /\ seed' = "failed"
  /\ requested' = FALSE
  /\ announced' = TRUE
  /\ UNCHANGED <<runVars, worker, loop, active, edit, bubble, finals, blurred, resultVars, woken>>

\* The send failed, or gave no id: the result of a run that is over is owed now, the
\* launch marker of one that is not.
SeedFails ==
  /\ seed = "flying" /\ loop = "idle"
  /\ seed' = "failed"
  /\ requested' = FALSE
  /\ \/ Over /\ loop' = "owing" /\ UNCHANGED announced
     \/ ~Over /\ announced' = TRUE /\ UNCHANGED loop
  /\ UNCHANGED <<runVars, worker, active, edit, bubble, finals, blurred, resultVars, woken>>
-----------------------------------------------------------------------------
(* _edit_progress_bubble: the text is rendered under the lock, the edit is  *)
(* scheduled after it.                                                      *)

\* A live snapshot, which may be skipped as unchanged or too early.
CaptureLive(e) ==
  /\ active /\ edit[e] = "none"
  /\ edit' = [edit EXCEPT ![e] = "captured"]
  /\ UNCHANGED <<seed, requested, active, bubble, finals, blurred, announced>>

\* The final snapshot: no edit is rendered after it.
CaptureFinal(e) ==
  /\ active
  /\ active' = FALSE
  /\ finals' = finals + 1
  /\ edit' = [edit EXCEPT ![e] = "captured"]
  /\ UNCHANGED <<seed, requested, bubble, blurred, announced>>

Final(e) == e \in {"worker", "loop"}

\* The edit is on its way, or there is no gateway any more.
ScheduleEdit(e) ==
  /\ edit[e] = "captured"
  /\ \/ edit' = [edit EXCEPT ![e] = "flying"] /\ UNCHANGED blurred
     \/ edit' = [edit EXCEPT ![e] = "none"] /\ blurred' = (blurred \/ Final(e))
  /\ UNCHANGED <<seed, requested, active, bubble, finals, announced>>

\* pause(), resume() and _update_state edit the bubble after they have let the lock go.
OperatorEdits ==
  /\ CaptureLive("operator") \/ ScheduleEdit("operator")
  /\ UNCHANGED <<runVars, worker, loop, resultVars, woken>>

\* Edits are answered in any order.  The answer of the loop's final one starts the
\* delivery of the result (_after_terminal_edit).
EditAnswered(e) ==
  /\ edit[e] = "flying" /\ loop = "idle"
  /\ edit' = [edit EXCEPT ![e] = "none"]
  /\ \/ /\ bubble' = IF Final(e) THEN "final" ELSE "live"
        /\ blurred' = (blurred \/ (bubble = "final" /\ ~Final(e)))
     \/ /\ blurred' = (blurred \/ Final(e))
        /\ UNCHANGED bubble
  /\ loop' = IF e = "loop" THEN "owing" ELSE "idle"
  /\ UNCHANGED <<runVars, worker, seed, requested, active, finals, announced, resultVars, woken>>

\* The run is not over when its seed lands: a first live edit, unless the bubble has been
\* finalized since.
GreetBubble ==
  /\ \/ loop = "greeting" /\ CaptureLive("greeting") /\ loop' = "greeted"
     \/ loop = "greeting" /\ ~active /\ loop' = "idle" /\ UNCHANGED bubbleVars
     \/ loop = "greeted" /\ ScheduleEdit("greeting") /\ loop' = "idle"
  /\ UNCHANGED <<runVars, worker, resultVars, woken>>

\* The run was over when its seed landed: the final edit, which the loop does not wait for,
\* unless the run's thread was faster.
FinishBubble ==
  /\ \/ loop = "terminal" /\ CaptureFinal("loop") /\ loop' = "scheduling"
     \/ loop = "terminal" /\ ~active /\ loop' = "owing" /\ UNCHANGED bubbleVars
     \/ /\ loop = "scheduling" /\ ScheduleEdit("loop")
        /\ loop' = IF edit'["loop"] = "flying" THEN "idle" ELSE "owing"
  /\ UNCHANGED <<runVars, worker, resultVars, woken>>
-----------------------------------------------------------------------------
(* _deliver_result_message and _finish_result_delivery.                    *)

\* Mutant: nobody looks whether a send is already in flight.
ClaimAgain ==
  /\ ~delivered
  /\ sendInFlight' = TRUE
  /\ attempts' = attempts + 1
  /\ UNCHANGED <<resultSend, delivered, arrived, unsure>>

Claim ==
  /\ ~delivered /\ ~sendInFlight
  /\ sendInFlight' = TRUE
  /\ attempts' = attempts + 1
  /\ UNCHANGED <<resultSend, delivered, arrived, unsure>>

NothingToClaim == (delivered \/ sendInFlight) /\ UNCHANGED resultVars

\* The send is scheduled; or it cannot be, which finishes the attempt.
Submit(s) ==
  /\ resultSend' = [resultSend EXCEPT ![s] = "flying"]
  /\ UNCHANGED <<sendInFlight, delivered, arrived, unsure, attempts>>

FinishUnsent ==
  /\ sendInFlight' = FALSE
  /\ UNCHANGED <<resultSend, delivered, arrived, unsure, attempts>>

\* The answer: confirmed, refused, or an error though the message is there.
FinishSent(s) ==
  /\ resultSend' = [resultSend EXCEPT ![s] = "over"]
  /\ sendInFlight' = FALSE
  /\ \/ delivered' = TRUE /\ arrived' = arrived + 1 /\ UNCHANGED unsure
     \/ UNCHANGED <<delivered, arrived, unsure>>
     \/ unsure' = TRUE /\ arrived' = arrived + 1 /\ UNCHANGED delivered
  /\ UNCHANGED attempts

\* The loop: it claims, schedules, and is called back with the answer.
LoopDelivers ==
  /\ \/ loop = "owing" /\ Claim /\ loop' = "submitting"
     \/ loop = "owing" /\ NothingToClaim /\ loop' = "idle"
     \/ loop = "submitting" /\ loop' = "idle" /\ (Submit("loop") \/ FinishUnsent)
     \/ loop = "idle" /\ resultSend["loop"] = "flying" /\ FinishSent("loop") /\ UNCHANGED loop
  /\ UNCHANGED <<runVars, worker, bubbleVars, woken>>

\* The run's thread does the same and waits for the answer, for 15 s at most.  What it
\* has given up may still arrive.
WorkerDelivers ==
  /\ \/ worker = "delivering" /\ Claim /\ worker' = "submitting"
     \/ worker = "delivering" /\ NothingToClaim /\ worker' = "waking"
     \/ worker = "submitting" /\ Submit("worker") /\ worker' = "sending"
     \/ worker = "submitting" /\ FinishUnsent /\ worker' = "waking"
     \/ worker = "sending" /\ loop = "idle" /\ FinishSent("worker") /\ worker' = "waking"
     \/ /\ worker = "sending"
        /\ resultSend' = [resultSend EXCEPT !["worker"] = "late"]
        /\ sendInFlight' = FALSE
        /\ worker' = "waking"
        /\ UNCHANGED <<delivered, arrived, unsure, attempts>>
  /\ UNCHANGED <<runVars, loop, bubbleVars, woken>>

LateArrival ==
  /\ resultSend["worker"] = "late"
  /\ resultSend' = [resultSend EXCEPT !["worker"] = "over"]
  /\ arrived' = arrived + 1 /\ unsure' = TRUE
  /\ UNCHANGED <<runVars, worker, loop, bubbleVars, sendInFlight, delivered, attempts, woken>>
-----------------------------------------------------------------------------
(* The run's thread: _notify_completion.                                   *)

\* The thread begins and ends the run; control operations move it at any time.
ThreadProceeds ==
  /\ worker = "running"
  /\ ThreadRun
  /\ worker' = IF phase' = "ended" THEN "polling" ELSE "running"
  /\ UNCHANGED <<loop, bubbleVars, resultVars, woken>>

RunOperated ==
  /\ OperateRun
  /\ UNCHANGED <<worker, loop, bubbleVars, resultVars, woken>>

\* It looks at the bubble until that is there, is not expected, or 15 s are over: then the
\* seed's callback is left to complete it.
Poll ==
  /\ worker = "polling"
  /\ \/ active /\ worker' = "finalizing"
     \/ ~active /\ ~requested /\ worker' = "delivering"
     \/ ~active /\ requested /\ worker' = "waking"
  /\ UNCHANGED <<runVars, loop, bubbleVars, resultVars, woken>>

\* The final edit, unless the callback was faster; its answer is awaited for 15 s.
WorkerFinalizes ==
  /\ \/ worker = "finalizing" /\ CaptureFinal("worker") /\ worker' = "scheduling"
     \/ worker = "finalizing" /\ ~active /\ worker' = "delivering" /\ UNCHANGED bubbleVars
     \/ /\ worker = "scheduling" /\ ScheduleEdit("worker")
        /\ worker' = IF edit'["worker"] = "flying" THEN "awaiting" ELSE "delivering"
     \/ worker = "awaiting" /\ worker' = "delivering" /\ UNCHANGED bubbleVars
  /\ UNCHANGED <<runVars, loop, resultVars, woken>>

\* notify_on_complete: inject_message takes the notification, or else an event for the
\* gateway's watcher is enqueued, once for a run; or there is no loop to wake.
Wake ==
  /\ worker = "waking"
  /\ worker' = "done"
  /\ woken' \in BOOLEAN
  /\ UNCHANGED <<runVars, loop, bubbleVars, resultVars>>
-----------------------------------------------------------------------------
LaunchStep == AnnouncePlainly \/ SeedBubble
LoopStep ==
  \/ SeedLands \/ SeedFails \/ GreetBubble \/ FinishBubble \/ LoopDelivers
  \/ \E e \in Editors : EditAnswered(e)
WorkerStep == ThreadProceeds \/ Poll \/ WorkerFinalizes \/ WorkerDelivers \/ Wake

DeliveryNext ==
  \/ LaunchStep \/ LoopStep \/ WorkerStep \/ LateArrival
  \/ RunOperated \/ OperatorEdits

DeliverySpec == DeliveryInit /\ [][DeliveryNext]_deliveryVars

\* The run ends (StopEndsRun and StopEnds are about when), its thread runs on, the loop
\* runs, and every send and edit is answered in the end.
DeliveryFairness ==
  /\ WF_deliveryVars(LaunchStep \/ WorkerStep)
  /\ WF_deliveryVars(LoopStep)
-----------------------------------------------------------------------------
(* Properties.                                                             *)

BubbleTypeOK ==
  /\ worker \in Workers /\ loop \in Loops /\ seed \in Seeds
  /\ requested \in BOOLEAN /\ active \in BOOLEAN /\ blurred \in BOOLEAN
  /\ edit \in [Editors -> Edits]
  /\ bubble \in {"none", "live", "final"} /\ finals \in Nat /\ announced \in BOOLEAN
ResultTypeOK ==
  /\ sendInFlight \in BOOLEAN /\ delivered \in BOOLEAN /\ unsure \in BOOLEAN
  /\ resultSend \in [Senders -> Sends]
  /\ arrived \in Nat /\ attempts \in Nat /\ woken \in BOOLEAN

\* Every variable has its type.
DeliveryTypeOK ==
  /\ status \in RunStatuses /\ phase \in {"waiting", "executing", "ended"}
  /\ BubbleTypeOK /\ ResultTypeOK

\* The run's thread and the seed's callback may both come to complete a run: they render
\* one final snapshot, and the chat gets one result, unless the answer of an earlier send
\* was lost.
OneSnapshotOneResult ==
  /\ finals <= 1
  /\ arrived > 1 => unsure
  /\ delivered => arrived > 0

\* Every run that ends is heard of: its result is tried to deliver, and its bubble, if it
\* has one, shows the final snapshot (unless that edit was lost or overtaken).  The
\* exception is a seed that broke after it was announced: then nobody delivers.
DeliverySettles ==
  <>[](/\ worker = "done" /\ loop = "idle" /\ ~sendInFlight
       /\ seed # "broken" => attempts > 0
       /\ bubble = "live" => blurred)
=============================================================================
