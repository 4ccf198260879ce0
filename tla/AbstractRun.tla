----------------------------- MODULE AbstractRun -----------------------------
(***************************************************************************)
(* What a run promises to those who control it: a status that the control   *)
(* operations may move while the run is active, that the run's thread sets   *)
(* once when it begins and once when it ends, and that never moves again     *)
(* after the end.  RunLifecycle implements it; ControlQueue is built on it.  *)
(***************************************************************************)
CONSTANT Outcomes  \* the terminal statuses: "completed", "stopped" and "failed"

ASSUME RunAssumption == Outcomes \cap {"queued", "running", "paused", "stopping"} = {}

VARIABLES
  status,  \* record["status"]
  phase    \* "waiting" for the thread to begin, "executing", "ended"

runVars == <<status, phase>>

ActiveStatuses   == {"queued", "running", "paused"}
RunStatuses      == ActiveStatuses \cup {"stopping"} \cup Outcomes

RunInit == status = "queued" /\ phase = "waiting"

\* The thread's first update: it writes what it has read of the gate, over whatever is there.
BeginRun ==
  /\ phase = "waiting"
  /\ phase' = "executing"
  /\ status' \in {"running", "paused"}

\* The thread's last update; it has not begun if it could not build the child runner.
EndRun ==
  /\ phase # "ended"
  /\ phase' = "ended"
  /\ status' \in Outcomes

\* stop(), pause() and resume(), each under managed.lock.
StopRun ==
  /\ status \in ActiveStatuses
  /\ status' = "stopping"
  /\ UNCHANGED phase

PauseRun ==
  /\ status \in {"queued", "running"}
  /\ status' = "paused"
  /\ UNCHANGED phase

ResumeRun ==
  /\ status = "paused"
  /\ status' = "running"
  /\ UNCHANGED phase

ThreadRun == BeginRun \/ EndRun
OperateRun == StopRun \/ PauseRun \/ ResumeRun

RunNext == ThreadRun \/ OperateRun
RunSpec == RunInit /\ [][RunNext]_runVars
=============================================================================
