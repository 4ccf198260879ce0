---------------------------- MODULE RunLifecycle ----------------------------
(***************************************************************************)
(* One run under WorkflowRunManager (run/manager.py): its record's status, *)
(* the stop event and the pause gate, the run thread, and the control       *)
(* operations stop, pause, resume and restart that other threads (the      *)
(* control listener, the gateway buttons, task_stop) call at any time.      *)
(*                                                                         *)
(* Each operation decides and writes under managed.lock, so it is one step. *)
(* The run thread does not: it reads the gate, and later the stop event,   *)
(* before it takes the lock to write the status, so these are two steps.   *)
(* The engine is seen through what WorkflowEngine establishes: an agent     *)
(* starts behind an open gate only, a stop halts the run, and a normal      *)
(* return has passed a last check.                                          *)
(***************************************************************************)
EXTENDS Naturals

CONSTANTS Restarts,   \* the calls of restart()
          MaxStarts   \* bound: agents the engine starts

ASSUME LifecycleAssumption == MaxStarts \in Nat

VARIABLES
  status,     \* record["status"]
  stopSet,    \* stop_event.is_set()
  closed,     \* pause_gate.is_paused
  hasRunner,  \* child_runner is assigned
  thread,     \* where _run_thread is
  seen,       \* the status it has computed and not yet written
  started,    \* agents started by the engine
  raced,      \* the read-then-write windows an operation has fallen into
  missed,     \* a stop found no child_runner to interrupt
  restart,    \* where each restart() is
  launched    \* the restarts that have started a new run

vars == <<status, stopSet, closed, hasRunner, thread, seen, started, raced, missed,
          restart, launched>>
-----------------------------------------------------------------------------
Active    == {"queued", "running", "paused"}
Terminal  == {"completed", "stopped", "failed"}
Statuses  == Active \cup {"stopping"} \cup Terminal
Threads   == {"constructing", "reading", "starting", "engine", "returned", "raised",
              "ending", "finalizing", "finished"}
Restarting == {"idle", "stopping", "waiting", "launching", "over"}

\* start_from_params: the record is registered before the thread starts.
Init ==
  /\ status = "queued"
  /\ stopSet = FALSE /\ closed = FALSE
  /\ hasRunner = FALSE
  /\ thread = "constructing"
  /\ seen = "queued"
  /\ started = 0
  /\ raced = {} /\ missed = FALSE
  /\ restart = [r \in Restarts |-> "idle"]
  /\ launched = {}
-----------------------------------------------------------------------------
(* _run_thread.                                                            *)

\* The runner is built and assigned, or its constructor raises.
AssignRunner ==
  /\ thread = "constructing"
  /\ \/ hasRunner' = TRUE /\ thread' = "reading"
     \/ thread' = "raised" /\ UNCHANGED hasRunner
  /\ UNCHANGED <<status, stopSet, closed, seen, started, raced, missed, restart, launched>>

\* Mutant: the run is taken to be running whatever happened while it was queued.
ReadGateNever ==
  /\ thread = "reading"
  /\ seen' = "running"
  /\ thread' = "starting"
  /\ UNCHANGED <<status, stopSet, closed, hasRunner, started, raced, missed, restart, launched>>

\* "paused" if managed.pause_gate.is_paused else "running", evaluated without the lock.
ReadGate ==
  /\ thread = "reading"
  /\ seen' = IF closed THEN "paused" ELSE "running"
  /\ thread' = "starting"
  /\ UNCHANGED <<status, stopSet, closed, hasRunner, started, raced, missed, restart, launched>>

\* The first _update: whatever was read is written.
WriteStarted ==
  /\ thread = "starting"
  /\ status' = seen
  /\ thread' = "engine"
  /\ UNCHANGED <<stopSet, closed, hasRunner, seen, started, raced, missed, restart, launched>>

\* Mutant: the engine looks at the gate and not at the stop event.
StartAgentGateOnly ==
  /\ thread = "engine"
  /\ ~closed
  /\ started < MaxStarts
  /\ started' = started + 1
  /\ UNCHANGED <<status, stopSet, closed, hasRunner, thread, seen, raced, missed, restart, launched>>

\* check_runtime in front of a child.
StartAgent ==
  /\ thread = "engine"
  /\ ~stopSet /\ ~closed
  /\ started < MaxStarts
  /\ started' = started + 1
  /\ UNCHANGED <<status, stopSet, closed, hasRunner, thread, seen, raced, missed, restart, launched>>

EngineReturns ==
  /\ thread = "engine"
  /\ ~stopSet /\ ~closed
  /\ thread' = "returned"
  /\ UNCHANGED <<status, stopSet, closed, hasRunner, seen, started, raced, missed, restart, launched>>

\* Mutant: a closed gate is waited on whatever the stop event says.
EngineHaltsBehindGate ==
  /\ thread = "engine"
  /\ stopSet /\ ~closed
  /\ thread' = "raised"
  /\ UNCHANGED <<status, stopSet, closed, hasRunner, seen, started, raced, missed, restart, launched>>

\* WorkflowStopped.
EngineHalts ==
  /\ thread = "engine"
  /\ stopSet
  /\ thread' = "raised"
  /\ UNCHANGED <<status, stopSet, closed, hasRunner, seen, started, raced, missed, restart, launched>>

\* A script error, a limit or the deadline.
EngineRaises ==
  /\ thread = "engine"
  /\ thread' = "raised"
  /\ UNCHANGED <<status, stopSet, closed, hasRunner, seen, started, raced, missed, restart, launched>>

\* Mutant: a normal return completes the run.
ReadStopOnErrorOnly ==
  /\ thread \in {"returned", "raised"}
  /\ seen' = IF thread = "returned" THEN "completed"
             ELSE IF stopSet THEN "stopped" ELSE "failed"
  /\ thread' = "ending"
  /\ UNCHANGED <<status, stopSet, closed, hasRunner, started, raced, missed, restart, launched>>

\* Mutant: a failed run gets the status name of the engine's frames.
ReadStopFrameStatus ==
  /\ thread \in {"returned", "raised"}
  /\ seen' = IF stopSet THEN "stopped" ELSE IF thread = "returned" THEN "completed" ELSE "error"
  /\ thread' = "ending"
  /\ UNCHANGED <<status, stopSet, closed, hasRunner, started, raced, missed, restart, launched>>

\* The terminal status, computed without the lock on both ways out.
ReadStop ==
  /\ thread \in {"returned", "raised"}
  /\ seen' = CASE stopSet -> "stopped"
               [] ~stopSet /\ thread = "returned" -> "completed"
               [] ~stopSet /\ thread = "raised" -> "failed"
  /\ thread' = "ending"
  /\ UNCHANGED <<status, stopSet, closed, hasRunner, started, raced, missed, restart, launched>>

\* The last _update.
WriteTerminal ==
  /\ thread = "ending"
  /\ status' = seen
  /\ thread' = "finalizing"
  /\ UNCHANGED <<stopSet, closed, hasRunner, seen, started, raced, missed, restart, launched>>

\* The artifacts and the notification; the thread can be joined afterwards.
Finalize ==
  /\ thread = "finalizing"
  /\ thread' = "finished"
  /\ UNCHANGED <<status, stopSet, closed, hasRunner, seen, started, raced, missed, restart, launched>>
-----------------------------------------------------------------------------
(* The control operations, each under managed.lock.                        *)

Windows == {"starting", "ending"}
RacesThread == raced' = raced \cup (Windows \cap {thread})

\* stop() and stop_task(): set the event, open the gate, write "stopping"; the
\* runner captured here is told to interrupt its children after the lock.
StopEffect ==
  /\ status \in Active
  /\ status' = "stopping"
  /\ stopSet' = TRUE
  /\ closed' = FALSE
  /\ missed' = (missed \/ ~hasRunner)
  /\ RacesThread

Stop ==
  /\ StopEffect
  /\ UNCHANGED <<hasRunner, thread, seen, started, restart, launched>>

\* Mutant: a pause is refused only when the run is over.
PauseUnlessOver ==
  /\ status \notin Terminal
  /\ closed' = TRUE
  /\ status' = "paused"
  /\ RacesThread
  /\ UNCHANGED <<stopSet, hasRunner, thread, seen, started, missed, restart, launched>>

Pause ==
  /\ status \in {"queued", "running"}
  /\ closed' = TRUE
  /\ status' = "paused"
  /\ RacesThread
  /\ UNCHANGED <<stopSet, hasRunner, thread, seen, started, missed, restart, launched>>

Resume ==
  /\ status = "paused"
  /\ closed' = FALSE
  /\ status' = "running"
  /\ RacesThread
  /\ UNCHANGED <<stopSet, hasRunner, thread, seen, started, missed, restart, launched>>
-----------------------------------------------------------------------------
(* restart(): a status read, a stop, a join of at most five seconds, a     *)
(* second status read, a launch.                                           *)

RestartTo(r, where) == restart' = [restart EXCEPT ![r] = where]

RestartReads(r) ==
  /\ restart[r] = "idle"
  /\ RestartTo(r, IF status \in Terminal THEN "launching" ELSE "stopping")
  /\ UNCHANGED <<status, stopSet, closed, hasRunner, thread, seen, started, raced, missed, launched>>

\* self.stop(run_id), whose answer is ignored.
RestartStops(r) ==
  /\ restart[r] = "stopping"
  /\ RestartTo(r, "waiting")
  /\ StopEffect \/ (status \notin Active /\ UNCHANGED <<status, stopSet, closed, missed, raced>>)
  /\ UNCHANGED <<hasRunner, thread, seen, started, launched>>

\* Mutant: a join that times out is taken for an end.
RestartWaitsBlindly(r) ==
  /\ restart[r] = "waiting"
  /\ RestartTo(r, "launching")
  /\ UNCHANGED <<status, stopSet, closed, hasRunner, thread, seen, started, raced, missed, launched>>

\* The join ends with the thread or times out; the status read next decides.
RestartWaits(r) ==
  /\ restart[r] = "waiting"
  /\ RestartTo(r, IF status \in Terminal THEN "launching" ELSE "over")
  /\ UNCHANGED <<status, stopSet, closed, hasRunner, thread, seen, started, raced, missed, launched>>

RestartLaunches(r) ==
  /\ restart[r] = "launching"
  /\ launched' = launched \cup {r}
  /\ RestartTo(r, "over")
  /\ UNCHANGED <<status, stopSet, closed, hasRunner, thread, seen, started, raced, missed>>
-----------------------------------------------------------------------------
ThreadStep ==
  \/ AssignRunner \/ ReadGate \/ WriteStarted \/ EngineHalts
  \/ ReadStop \/ WriteTerminal \/ Finalize
EngineStep == StartAgent \/ EngineReturns \/ EngineRaises
RestartStep(r) == \/ RestartReads(r) \/ RestartStops(r) \/ RestartWaits(r)
                  \/ RestartLaunches(r)

Next == ThreadStep \/ EngineStep \/ Stop \/ Pause \/ Resume
        \/ \E r \in Restarts : RestartStep(r)

Spec == Init /\ [][Next]_vars

\* The run thread runs; the engine reaches its next check (WorkflowEngine, StopEndsRun).
FairSpec == Spec /\ WF_vars(ThreadStep)
-----------------------------------------------------------------------------
(* Properties.                                                             *)

RunTypeOK ==
  /\ status \in Statuses /\ seen \in Statuses
  /\ thread \in Threads
  /\ started \in 0..MaxStarts
FlagTypeOK ==
  /\ stopSet \in BOOLEAN /\ closed \in BOOLEAN
  /\ hasRunner \in BOOLEAN /\ missed \in BOOLEAN
RestartTypeOK ==
  /\ raced \subseteq Windows
  /\ restart \in [Restarts -> Restarting]
  /\ launched \subseteq Restarts

\* Every variable has its type.
TypeOK == RunTypeOK /\ FlagTypeOK /\ RestartTypeOK

\* A pause or resume while the run is queued is taken over by the run thread: while the
\* engine runs the record says "paused" exactly when the gate is closed - provided no
\* operation fell into the thread's read-then-write window.
GateAgreesWithRecord ==
  (thread = "engine" /\ ~stopSet /\ "starting" \notin raced) => (status = "paused" <=> closed)

\* A stop accepted before the thread reads the stop event decides the final status:
\* the run is never recorded as completed or failed after all.
StopDecides ==
  (stopSet /\ "ending" \notin raced /\ status \in Terminal) => status = "stopped"

\* Control operations racing with the end of the run never revive its record.
TerminalIsFinal == [][(status \in Terminal) => status' = status]_vars

\* A stop that comes before the child runner exists has nobody to interrupt, and then
\* no agent ever starts.
StopBeforeRunnerIsEnough == missed => started = 0

\* A restart launches the new run only when the old one's engine is over, however its
\* stop, the join's timeout and other operations interleave.
RestartNeverOverlaps ==
  launched # {} => thread \in {"finalizing", "finished"}

\* A stop ends the run, even when the lost "stopping" lets a pause close the gate again.
StopEnds == stopSet ~> status \in Terminal

\* To its controllers the run is the abstract run: whatever the windows, timeouts and
\* restarts do, its status moves as AbstractRun says and in no other way.
Phase == CASE thread \in {"finalizing", "finished"} -> "ended"
           [] thread \in {"engine", "returned", "raised", "ending"} /\ hasRunner -> "executing"
           [] OTHER -> "waiting"
Run == INSTANCE AbstractRun WITH phase <- Phase, Outcomes <- Terminal
ImplementsRun == Run!RunSpec

\* "while paused, no new subagents or subsequent pipeline stages start" (TECHNICAL.md):
\* no agent starts while the record says paused.
PausedStartsNothing == [][status = "paused" => started' = started]_vars
=============================================================================
