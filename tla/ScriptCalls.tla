------------------------------ MODULE ScriptCalls ------------------------------
(***************************************************************************)
(* What a workflow script does beside agent(): codex() stages, direct or in  *)
(* the lanes of parallel() and pipeline(), and the topologies that show it   *)
(* (engine/api.py, engine/codex.py, engine/runtime.py, core/types.py).  The  *)
(* script and its lanes are coroutines of one event loop; every stage runs   *)
(* in a thread, which goes on when its coroutine is gone.  A stage that      *)
(* fails raises an Exception, which a script may catch; one that is stopped  *)
(* or times out raises a WorkflowHalt, which only run_workflow() catches.    *)
(***************************************************************************)
EXTENDS Naturals, FiniteSets, Sequences

CONSTANTS Lanes,       \* the thunks of a parallel(), or the items of a pipeline()
          Main,        \* the script itself, when it calls codex() directly
          MaxSteps,    \* bound: direct calls and helpers of the script
          MaxStages,   \* config.max_agents
          StageSlots   \* the slots of the run

ASSUME ScriptAssumption ==
  /\ Main \notin Lanes /\ IsFiniteSet(Lanes)
  /\ MaxSteps \in Nat /\ MaxStages \in Nat /\ StageSlots \in Nat \ {0}

VARIABLES
  stopSet,    \* stop_event
  held,       \* PauseGate._paused
  late,       \* monotonic() - paused_seconds > deadline
  spot,       \* what the script's coroutine awaits
  helper,     \* the kind of the last helper
  steps,      \* direct calls and helpers so far
  lane,       \* where the coroutine of each lane is
  callAt,     \* where the codex() call of each coroutine is
  stageOf,    \* the record of that call, 0 if it has none
  records,    \* AgentRecord.status, in the order of reservation
  shapes,     \* frame.topologies
  chainOpen,  \* frame._sequential_chain_open
  freeStages, \* the value of the slot semaphore
  ending      \* frame.status

clockVars  == <<stopSet, held, late>>
frameVars  == <<records, shapes, chainOpen>>
callVars   == <<callAt, stageOf, freeStages>>
bodyVars   == <<spot, helper, steps, lane, ending>>
scriptVars == <<clockVars, bodyVars, callVars, frameVars>>
-----------------------------------------------------------------------------
Callers   == Lanes \cup {Main}
Helpers   == {"parallel", "pipeline"}
CallSpots == {"none", "called", "looking", "starting", "acquiring", "acquired",
              "polling", "ok", "failed", "halted"}
Working   == CallSpots \ {"none", "ok", "failed", "halted"}
Shapes    == [kind : Helpers \cup {"sequential"}, open : BOOLEAN, members : SUBSET (1..MaxStages)]

ScriptInit ==
  /\ stopSet = FALSE /\ held = FALSE /\ late = FALSE
  /\ spot = "script" /\ helper = "parallel" /\ steps = 0 /\ ending = "running"
  /\ lane = [l \in Lanes |-> "out"]
  /\ callAt = [c \in Callers |-> "none"] /\ stageOf = [c \in Callers |-> 0]
  /\ records = << >> /\ shapes = << >> /\ chainOpen = FALSE
  /\ freeStages = StageSlots

\* check_runtime(): it waits while the run is paused, unless it is stopped.
Passes == ~stopSet /\ ~held /\ ~late
Halts  == stopSet \/ (~held /\ late)

\* The user, and the clock.
Environment ==
  /\ ending = "running"
  /\ \/ stopSet' = TRUE /\ UNCHANGED <<held, late>>
     \/ held' = ~held /\ UNCHANGED <<stopSet, late>>
     \/ ~held /\ late' = TRUE /\ UNCHANGED <<stopSet, held>>
  /\ UNCHANGED <<bodyVars, callVars, frameVars>>

\* The except clause of run_workflow: what has come out of the script ends it.
Raise(how) ==
  /\ ending' = IF stopSet THEN "stopped" ELSE how
  /\ spot' = "over"
-----------------------------------------------------------------------------
(* _begin_sequential_step, _begin_helper_topology, _finish_topology.       *)

NewShape(kind) == [kind |-> kind, open |-> TRUE, members |-> {}]

\* A direct call continues the chain of the last one, whose record is active again.
OpenSequential ==
  /\ shapes' = IF chainOpen /\ shapes # << >> /\ shapes[Len(shapes)].kind = "sequential"
               THEN [shapes EXCEPT ![Len(shapes)].open = TRUE]
               ELSE Append(shapes, NewShape("sequential"))
  /\ chainOpen' = TRUE

OpenHelper(kind) ==
  /\ shapes' = Append(shapes, NewShape(kind))
  /\ chainOpen' = FALSE

CloseShape == shapes' = [shapes EXCEPT ![Len(shapes)].open = FALSE] /\ UNCHANGED chainOpen
-----------------------------------------------------------------------------
(* codex().                                                                *)

CallTo(c, where) == callAt' = [callAt EXCEPT ![c] = where]
Stays(c, where)  == CallTo(c, where) /\ UNCHANGED <<stageOf, freeStages, frameVars>>
Mark(c, what)    == records' = [records EXCEPT ![stageOf[c]] = what]

\* A coroutine that may call codex(): the check is made in the event loop.
MayCall(c) ==
  /\ ending = "running" /\ callAt[c] = "none"
  /\ IF c = Main THEN spot = "script" /\ steps < MaxSteps
                 ELSE spot = "helper" /\ lane[c] = "working"

\* The options, the directory and its HEAD are validated, which may raise; a direct call
\* has a topology of its own.
CallCodex(c) ==
  /\ MayCall(c)
  /\ \/ Halts /\ Stays(c, "halted")
     \/ Passes /\ Stays(c, "failed")
     \/ Passes /\ CallTo(c, "called") /\ UNCHANGED <<stageOf, freeStages, records>>
        /\ IF c = Main THEN OpenSequential ELSE UNCHANGED <<shapes, chainOpen>>
  /\ IF c = Main THEN spot' = "direct" /\ steps' = steps + 1 ELSE UNCHANGED <<spot, steps>>
  /\ UNCHANGED <<clockVars, helper, lane, ending>>

\* reserve_agent() and the record, a member of the topology that is bound (the last one).
ReserveStage(c) ==
  /\ callAt[c] = "called"
  /\ \/ Halts /\ Stays(c, "halted")
     \/ Passes /\ Len(records) >= MaxStages /\ Stays(c, "halted")
     \/ /\ Passes /\ Len(records) < MaxStages
        /\ records' = Append(records, "queued")
        /\ stageOf' = [stageOf EXCEPT ![c] = Len(records) + 1]
        /\ shapes' = [shapes EXCEPT ![Len(shapes)].members = @ \cup {Len(records) + 1}]
        /\ CallTo(c, "looking")
        /\ UNCHANGED <<freeStages, chainOpen>>
  /\ UNCHANGED <<clockVars, bodyVars>>

\* A cached receipt, or the stage is started.
LookUpStage(c) ==
  /\ callAt[c] = "looking"
  /\ \/ Mark(c, "done") /\ CallTo(c, "ok")
     \/ Mark(c, "running") /\ CallTo(c, "starting")
  /\ UNCHANGED <<clockVars, bodyVars, stageOf, freeStages, shapes, chainOpen>>

\* agent_slot(): a check before the semaphore and one after it.
TakeSlot(c) ==
  /\ \/ callAt[c] = "starting" /\ Halts /\ Stays(c, "halted")
     \/ callAt[c] = "starting" /\ Passes /\ Stays(c, "acquiring")
     \/ /\ callAt[c] = "acquiring" /\ freeStages > 0
        /\ freeStages' = freeStages - 1
        /\ CallTo(c, "acquired") /\ UNCHANGED <<stageOf, frameVars>>
  /\ UNCHANGED <<clockVars, bodyVars>>

\* The end of a call that has a slot.
Settle(c, where, what) ==
  /\ CallTo(c, where)
  /\ Mark(c, what)
  /\ freeStages' = freeStages + 1
  /\ UNCHANGED <<stageOf, shapes, chainOpen>>

\* The second check, and the launcher, which may not be there or not start.
LaunchStage(c) ==
  /\ callAt[c] = "acquired"
  /\ \/ Halts /\ Settle(c, "halted", "running")
     \/ Passes /\ Stays(c, "polling")
     \/ Passes /\ Settle(c, "failed", "error")
  /\ UNCHANGED <<clockVars, bodyVars>>

\* Every 50 ms, in this order: a stop; the stage's time, or the deadline of the run (paused
\* or not); the launcher has exited, with a good receipt or without.
PollStage(c) ==
  /\ callAt[c] = "polling"
  /\ \/ Settle(c, "halted", "running")
     \/ ~stopSet /\ Settle(c, "ok", "done")
     \/ ~stopSet /\ Settle(c, "failed", "error")
  /\ UNCHANGED <<clockVars, bodyVars>>

CallStep(c) == ReserveStage(c) \/ LookUpStage(c) \/ TakeSlot(c) \/ LaunchStage(c) \/ PollStage(c)

\* The script has its direct call back: a value; an error, caught or not; a halt.
DirectReturns ==
  /\ spot = "direct" /\ callAt[Main] \in {"ok", "failed", "halted"}
  /\ \/ callAt[Main] # "halted" /\ spot' = "script" /\ UNCHANGED ending
     \/ callAt[Main] # "ok" /\ Raise("error")
  /\ IF shapes # << >> THEN CloseShape ELSE UNCHANGED <<shapes, chainOpen>>
  /\ callAt' = IF callAt[Main] = "halted" THEN callAt ELSE [callAt EXCEPT ![Main] = "none"]
  /\ UNCHANGED <<clockVars, helper, steps, lane, stageOf, freeStages, records>>
-----------------------------------------------------------------------------
(* parallel() and pipeline().                                              *)

LaneTo(l, where) == lane' = [lane EXCEPT ![l] = where]

BeginHelper(kind) ==
  /\ spot = "script" /\ steps < MaxSteps /\ Passes
  /\ spot' = "helper" /\ helper' = kind /\ steps' = steps + 1
  /\ OpenHelper(kind)
  /\ lane' = [l \in Lanes |-> "checking"]
  /\ UNCHANGED <<clockVars, ending, callVars, records>>

\* Before the thunk of a lane, and before each stage of an item.
LaneChecks(l) ==
  /\ lane[l] = "checking"
  /\ \/ Passes /\ LaneTo(l, "working")
     \/ Halts /\ LaneTo(l, "halted")
  /\ UNCHANGED <<clockVars, spot, helper, steps, ending, callVars, frameVars>>

\* An item's next stage; a value; or an Exception, which is logged and makes it None.
LaneGoesOn(l) ==
  /\ lane[l] = "working" /\ callAt[l] = "none"
  /\ \/ helper = "pipeline" /\ LaneTo(l, "checking")
     \/ LaneTo(l, "value")
     \/ LaneTo(l, "none")
  /\ UNCHANGED <<clockVars, spot, helper, steps, ending, callVars, frameVars>>

\* Mutant: a lane's except clause is that of every exception.
LaneSwallows(l) ==
  /\ lane[l] = "working" /\ callAt[l] \in {"ok", "failed", "halted"}
  /\ \/ callAt[l] # "halted" /\ UNCHANGED lane
     \/ callAt[l] # "ok" /\ LaneTo(l, "none")
  /\ CallTo(l, "none")
  /\ UNCHANGED <<clockVars, spot, helper, steps, ending, stageOf, freeStages, frameVars>>

\* The lane has its call back, and may catch an error of it; a halt goes through.
LaneReturns(l) ==
  /\ lane[l] = "working" /\ callAt[l] \in {"ok", "failed", "halted"}
  /\ \/ callAt[l] # "halted" /\ CallTo(l, "none") /\ UNCHANGED lane
     \/ callAt[l] = "failed" /\ CallTo(l, "none") /\ LaneTo(l, "none")
     \/ callAt[l] = "halted" /\ LaneTo(l, "halted") /\ UNCHANGED callAt
  /\ UNCHANGED <<clockVars, spot, helper, steps, ending, stageOf, freeStages, frameVars>>

LaneStep(l) ==
  /\ ending = "running" /\ spot = "helper"
  /\ LaneChecks(l) \/ LaneGoesOn(l) \/ LaneReturns(l)

\* All lanes have ended by themselves; parallel() checks once more.
JoinHelper ==
  /\ spot = "helper" /\ \A l \in Lanes : lane[l] \in {"value", "none"}
  /\ \/ (helper = "pipeline" \/ Passes) /\ spot' = "script" /\ UNCHANGED ending
     \/ helper = "parallel" /\ Halts /\ Raise("error")
  /\ CloseShape
  /\ UNCHANGED <<clockVars, helper, steps, lane, callVars, records>>

\* The first halt of a lane goes on to the script, whatever the other lanes do.
HelperHalts ==
  /\ spot = "helper" /\ \E l \in Lanes : lane[l] = "halted"
  /\ CloseShape
  /\ Raise("error")
  /\ UNCHANGED <<clockVars, helper, steps, lane, callVars, records>>

\* The script returns and passes a last check; or it raises, or meets a halt in a loop,
\* in a helper's first check or in that one.
ScriptEnds ==
  /\ spot = "script"
  /\ \/ Passes /\ ending' = "completed" /\ spot' = "over"
     \/ Raise("error")
  /\ UNCHANGED <<clockVars, helper, steps, lane, callVars, frameVars>>
-----------------------------------------------------------------------------
BodyStep ==
  \/ DirectReturns \/ JoinHelper \/ HelperHalts \/ ScriptEnds
  \/ \E kind \in Helpers : BeginHelper(kind)
  \/ \E l \in Lanes : LaneStep(l)

ScriptNext == Environment \/ BodyStep \/ \E c \in Callers : CallCodex(c) \/ CallStep(c)
ScriptSpec == ScriptInit /\ [][ScriptNext]_scriptVars
-----------------------------------------------------------------------------
(* Properties.                                                             *)

Busy == {c \in Callers : callAt[c] \in Working}
Halted == (\E c \in Callers : callAt[c] = "halted") \/ (\E l \in Lanes : lane[l] = "halted")
Unsettled(s) == {i \in s.members : records[i] \in {"queued", "running"}}

\* Every variable has its type.
ScriptTypeOK ==
  /\ stopSet \in BOOLEAN /\ held \in BOOLEAN /\ late \in BOOLEAN /\ chainOpen \in BOOLEAN
  /\ spot \in {"script", "direct", "helper", "over"} /\ helper \in Helpers /\ steps \in 0..MaxSteps
  /\ lane \in [Lanes -> {"out", "checking", "working", "value", "none", "halted"}]
  /\ callAt \in [Callers -> CallSpots] /\ stageOf \in [Callers -> 0..MaxStages]
  /\ records \in Seq({"queued", "running", "done", "error"}) /\ Len(records) <= MaxStages
  /\ shapes \in Seq(Shapes)
  /\ freeStages \in 0..StageSlots
  /\ ending \in {"running", "completed", "stopped", "error"}

\* A script that completes had every call settled, and no stop, deadline or limit that one
\* of its calls met was swallowed on the way, by a lane or by the script.
HaltsReachTheEnd ==
  ending = "completed" => ~Halted /\ Busy = {} /\ \A i \in DOMAIN records : records[i] # "running"

\* A topology is shown as active while the script is inside it, and one that is shown as
\* done has no unsettled member - until a halt, which leaves the other lanes behind.
ShapesTell ==
  /\ spot \in {"script", "over"} => \A i \in DOMAIN shapes : ~shapes[i].open
  /\ \A i \in DOMAIN shapes : (~shapes[i].open /\ ~Halted) => Unsettled(shapes[i]) = {}

\* Every way out of a stage gives back the slot it has, and no other.
SlotsReturned ==
  freeStages + Cardinality({c \in Callers : callAt[c] \in {"acquired", "polling"}}) = StageSlots

ScriptHolds == HaltsReachTheEnd /\ ShapesTell /\ SlotsReturned
=============================================================================
