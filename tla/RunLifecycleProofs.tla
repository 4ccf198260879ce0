------------------------- MODULE RunLifecycleProofs -------------------------
(***************************************************************************)
(* The record's status against the gate, the stop event, the engine and    *)
(* restart(), for any number of restarts and agents (RunLifecycle).        *)
(***************************************************************************)
EXTENDS RunLifecycle, TLAPS

\* What the thread has computed and not yet written, by where it is.
SeenInv ==
  /\ thread = "starting" => seen \in {"paused", "running"}
  /\ thread = "ending" => seen \in Terminal
  /\ (thread = "ending" /\ stopSet /\ "ending" \notin raced) => seen = "stopped"

\* The record and the gate agree until an operation falls into the first window.
GateInv ==
  (thread \in {"constructing", "reading", "starting", "engine"}
     /\ ~stopSet /\ "starting" \notin raced)
    => /\ status = "paused" <=> closed
       /\ thread = "starting" => (seen = "paused" <=> closed)

\* The record is terminal exactly when the thread has written its last status.
EndInv ==
  /\ status \in Terminal <=> thread \in {"finalizing", "finished"}
  /\ (stopSet /\ "ending" \notin raced /\ status \in Terminal) => status = "stopped"

\* Without a child runner the thread never reaches the engine.
RunnerInv ==
  /\ ~hasRunner => started = 0
  /\ thread \in {"reading", "starting", "engine", "returned"} => hasRunner
  /\ thread = "constructing" => ~hasRunner
  /\ missed => stopSet /\ started = 0

\* A restart that is about to launch, or has launched, has seen a terminal record.
RestartInv ==
  /\ \A r \in Restarts : restart[r] = "launching" => status \in Terminal
  /\ launched # {} => status \in Terminal

LInv == TypeOK /\ SeenInv /\ GateInv /\ EndInv /\ RunnerInv /\ RestartInv
-----------------------------------------------------------------------------
LEMMA InitLInv == Init => LInv
  <1> USE LifecycleAssumption DEF Init, Terminal
  <1>1. Init => TypeOK
    <2> USE DEF Statuses, Active, Threads, Restarting, Windows
    <2>1. Init => RunTypeOK
      BY DEF RunTypeOK
    <2>2. Init => FlagTypeOK
      BY DEF FlagTypeOK
    <2>3. Init => RestartTypeOK
      BY DEF RestartTypeOK
    <2> QED
      BY <2>1, <2>2, <2>3 DEF TypeOK
  <1>2. Init => SeenInv /\ GateInv /\ EndInv /\ RunnerInv
    BY DEF SeenInv, GateInv, EndInv, RunnerInv
  <1>3. Init => RestartInv
    BY DEF RestartInv
  <1> QED
    BY <1>1, <1>2, <1>3 DEF LInv

LEMMA NextTypeOK == TypeOK /\ [Next]_vars => TypeOK'
  <1> SUFFICES ASSUME TypeOK, [Next]_vars PROVE TypeOK'
    OBVIOUS
  <1>0. RunTypeOK /\ FlagTypeOK /\ RestartTypeOK
    BY DEF TypeOK
  <1>1. RunTypeOK'
    BY <1>0, LifecycleAssumption
    DEF Next, vars, RunTypeOK, Statuses, Active, Terminal, Threads, ThreadStep, EngineStep,
        AssignRunner, ReadGate, WriteStarted, EngineHalts, ReadStop, WriteTerminal, Finalize,
        StartAgent, EngineReturns, EngineRaises, Stop, StopEffect, Pause, Resume, RestartStep,
        RestartReads, RestartStops, RestartWaits, RestartLaunches
  <1>2. FlagTypeOK'
    BY <1>0
    DEF Next, vars, FlagTypeOK, ThreadStep, EngineStep,
        AssignRunner, ReadGate, WriteStarted, EngineHalts, ReadStop, WriteTerminal, Finalize,
        StartAgent, EngineReturns, EngineRaises, Stop, StopEffect, Pause, Resume, RestartStep,
        RestartReads, RestartStops, RestartWaits, RestartLaunches
  <1>3. RestartTypeOK'
    <2> USE DEF RestartTypeOK, RacesThread, RestartTo, Restarting
    <2>1. CASE ThreadStep \/ EngineStep
      BY <1>0, <2>1
      DEF ThreadStep, EngineStep, AssignRunner, ReadGate, WriteStarted, EngineHalts,
          ReadStop, WriteTerminal, Finalize, StartAgent, EngineReturns, EngineRaises
    <2>2. CASE Stop \/ Pause \/ Resume
      BY <1>0, <2>2 DEF Stop, StopEffect, Pause, Resume
    <2>3. ASSUME NEW r \in Restarts, RestartStep(r) PROVE RestartTypeOK'
      <3>1. CASE RestartReads(r)
        BY <1>0, <3>1 DEF RestartReads
      <3>2. CASE RestartStops(r)
        BY <1>0, <3>2 DEF RestartStops, StopEffect
      <3>3. CASE RestartWaits(r)
        BY <1>0, <3>3 DEF RestartWaits
      <3>4. CASE RestartLaunches(r)
        BY <1>0, <3>4 DEF RestartLaunches
      <3> QED
        BY <2>3, <3>1, <3>2, <3>3, <3>4 DEF RestartStep
    <2>4. CASE UNCHANGED vars
      BY <1>0, <2>4 DEF vars
    <2> QED
      BY <2>1, <2>2, <2>3, <2>4 DEF Next
  <1> QED
    BY <1>1, <1>2, <1>3 DEF TypeOK
-----------------------------------------------------------------------------
\* A stop never touches the thread and never revives a terminal record.
LEMMA StopEffectSafe ==
  ASSUME LInv, StopEffect,
         UNCHANGED <<hasRunner, thread, seen, started, launched>>
  PROVE  /\ status \notin Terminal /\ status' \notin Terminal
         /\ (SeenInv /\ GateInv /\ EndInv /\ RunnerInv)'
  <1> USE DEF LInv, StopEffect, RacesThread, Active, Terminal, Windows
  <1>1. status \notin Terminal /\ status' \notin Terminal
    OBVIOUS
  <1>2. SeenInv'
    BY DEF SeenInv, TypeOK, RestartTypeOK
  <1>3. GateInv' /\ EndInv'
    BY DEF GateInv, EndInv
  <1>4. RunnerInv'
    BY DEF RunnerInv
  <1> QED
    BY <1>1, <1>2, <1>3, <1>4

LEMMA NextLInv == LInv /\ [Next]_vars => LInv'
  <1> SUFFICES ASSUME LInv, [Next]_vars PROVE LInv'
    OBVIOUS
  <1>0. TypeOK'
    BY NextTypeOK DEF LInv
  <1>1. CASE ThreadStep
    <2> USE DEF LInv, TypeOK, RunTypeOK, FlagTypeOK, RestartTypeOK, Terminal, Active, Statuses
    <2>1. SeenInv'
      BY <1>1 DEF SeenInv, ThreadStep, AssignRunner, ReadGate, WriteStarted, EngineHalts,
                  ReadStop, WriteTerminal, Finalize
    <2>2. GateInv'
      BY <1>1 DEF GateInv, ThreadStep, AssignRunner, ReadGate, WriteStarted, EngineHalts,
                  ReadStop, WriteTerminal, Finalize
    <2>3. EndInv'
      BY <1>1 DEF EndInv, SeenInv, ThreadStep, AssignRunner, ReadGate, WriteStarted,
                  EngineHalts, ReadStop, WriteTerminal, Finalize
    <2>4. RunnerInv'
      BY <1>1 DEF RunnerInv, ThreadStep, AssignRunner, ReadGate, WriteStarted, EngineHalts,
                  ReadStop, WriteTerminal, Finalize
    <2>5. RestartInv'
      BY <1>1 DEF RestartInv, EndInv, SeenInv, ThreadStep, AssignRunner, ReadGate,
                  WriteStarted, EngineHalts, ReadStop, WriteTerminal, Finalize
    <2> QED
      BY <1>0, <2>1, <2>2, <2>3, <2>4, <2>5
  <1>2. CASE EngineStep
    BY <1>0, <1>2 DEF LInv, TypeOK, RunTypeOK, FlagTypeOK, RestartTypeOK, SeenInv, GateInv, EndInv, RunnerInv, RestartInv,
                      EngineStep, StartAgent, EngineReturns, EngineRaises
  <1>3. CASE Stop
    <2>1. /\ status \notin Terminal
          /\ (SeenInv /\ GateInv /\ EndInv /\ RunnerInv)'
      BY <1>3, StopEffectSafe DEF Stop
    <2>2. RestartInv'
      BY <1>3, <2>1 DEF Stop, LInv, RestartInv
    <2> QED
      BY <1>0, <2>1, <2>2 DEF LInv
  <1>4. CASE Pause \/ Resume
    <2> USE DEF LInv, Pause, Resume, RacesThread, Terminal, Windows
    <2>1. SeenInv' /\ EndInv' /\ RunnerInv'
      BY <1>4 DEF SeenInv, EndInv, RunnerInv, TypeOK, FlagTypeOK, RestartTypeOK
    <2>2. GateInv'
      BY <1>4 DEF GateInv, TypeOK, FlagTypeOK, RestartTypeOK
    <2>3. RestartInv'
      BY <1>4 DEF RestartInv
    <2> QED
      BY <1>0, <2>1, <2>2, <2>3
  <1>5. ASSUME NEW r \in Restarts, RestartStep(r) PROVE LInv'
    <2>1. CASE RestartReads(r) \/ RestartWaits(r) \/ RestartLaunches(r)
      <3>1. UNCHANGED <<status, stopSet, closed, hasRunner, thread, seen, started, raced, missed>>
        BY <2>1 DEF RestartReads, RestartWaits, RestartLaunches
      <3>2. (SeenInv /\ GateInv /\ EndInv /\ RunnerInv)'
        BY <3>1 DEF LInv, SeenInv, GateInv, EndInv, RunnerInv
      <3>3. RestartInv'
        BY <2>1 DEF LInv, TypeOK, RestartTypeOK, RestartInv, RestartReads, RestartWaits,
                    RestartLaunches, RestartTo
      <3> QED
        BY <1>0, <3>2, <3>3 DEF LInv
    <2>2. CASE RestartStops(r)
      <3>1. CASE StopEffect
        <4>1. /\ status \notin Terminal
              /\ (SeenInv /\ GateInv /\ EndInv /\ RunnerInv)'
          BY <2>2, <3>1, StopEffectSafe DEF RestartStops
        <4>2. RestartInv'
          BY <2>2, <4>1 DEF LInv, TypeOK, RestartTypeOK, RestartInv, RestartStops, RestartTo
        <4> QED
          BY <1>0, <4>1, <4>2 DEF LInv
      <3>2. CASE ~StopEffect
        <4>1. UNCHANGED <<status, stopSet, closed, hasRunner, thread, seen, started, raced, missed>>
          BY <2>2, <3>2 DEF RestartStops
        <4>2. (SeenInv /\ GateInv /\ EndInv /\ RunnerInv)'
          BY <4>1 DEF LInv, SeenInv, GateInv, EndInv, RunnerInv
        <4>3. RestartInv'
          BY <2>2, <4>1 DEF LInv, TypeOK, RestartTypeOK, RestartInv, RestartStops, RestartTo
        <4> QED
          BY <1>0, <4>2, <4>3 DEF LInv
      <3> QED
        BY <3>1, <3>2
    <2> QED
      BY <1>5, <2>1, <2>2 DEF RestartStep
  <1>6. CASE UNCHANGED vars
    BY <1>0, <1>6 DEF vars, LInv, SeenInv, GateInv, EndInv, RunnerInv, RestartInv
  <1> QED
    BY <1>1, <1>2, <1>3, <1>4, <1>5, <1>6 DEF Next

LEMMA LInvHolds == Spec => []LInv
  BY InitLInv, NextLInv, PTL DEF Spec
-----------------------------------------------------------------------------
\* However many operations race with the run thread, while the engine runs the record
\* says "paused" exactly when the gate is closed, unless one of them fell between the
\* thread's unlocked read of the gate and its write (_run_thread).
THEOREM GateAgrees == Spec => []GateAgreesWithRecord
  <1>1. LInv => GateAgreesWithRecord
    BY DEF LInv, GateInv, GateAgreesWithRecord
  <1> QED
    BY <1>1, LInvHolds, PTL

\* An accepted stop decides the final status unless it comes after the thread has read
\* the stop event for the last time (stop, _run_thread).
THEOREM StopIsDecisive == Spec => []StopDecides
  <1>1. LInv => StopDecides
    BY DEF LInv, EndInv, StopDecides
  <1> QED
    BY <1>1, LInvHolds, PTL

\* A stop that finds no child runner to interrupt misses no child.
THEOREM StopMissesNoChild == Spec => []StopBeforeRunnerIsEnough
  <1>1. LInv => StopBeforeRunnerIsEnough
    BY DEF LInv, RunnerInv, StopBeforeRunnerIsEnough
  <1> QED
    BY <1>1, LInvHolds, PTL

\* No number of concurrent restarts launches a run beside the old one's engine.
THEOREM RestartsNeverOverlap == Spec => []RestartNeverOverlaps
  <1>1. LInv => RestartNeverOverlaps
    BY DEF LInv, EndInv, RestartInv, RestartNeverOverlaps
  <1> QED
    BY <1>1, LInvHolds, PTL

\* No operation and no thread step moves a terminal record.
THEOREM TerminalStays == Spec => TerminalIsFinal
  <1>1. LInv /\ [Next]_vars => [(status \in Terminal) => status' = status]_vars
    <2> SUFFICES ASSUME LInv, Next, status \in Terminal PROVE status' = status
      OBVIOUS
    <2>1. thread \in {"finalizing", "finished"} /\ status \notin Active /\ status # "paused"
      BY DEF LInv, EndInv, Terminal, Active
    <2>2. CASE ThreadStep \/ EngineStep
      BY <2>1, <2>2
      DEF ThreadStep, AssignRunner, ReadGate, WriteStarted, EngineHalts, ReadStop,
          WriteTerminal, Finalize, EngineStep, StartAgent, EngineReturns, EngineRaises
    <2>3. CASE Stop \/ Pause \/ Resume
      BY <2>1, <2>3 DEF Stop, StopEffect, Pause, Resume, Active
    <2>4. ASSUME NEW r \in Restarts, RestartStep(r) PROVE status' = status
      BY <2>1, <2>4
      DEF RestartStep, RestartReads, RestartStops, RestartWaits, RestartLaunches, StopEffect
    <2> QED
      BY <2>2, <2>3, <2>4 DEF Next
  <1> QED
    BY <1>1, LInvHolds, PTL DEF Spec, TerminalIsFinal

\* Every reachable state of a run has the declared types, for any number of restarts.
THEOREM LifecycleTypeCorrect == Spec => []TypeOK
  <1>1. LInv => TypeOK
    BY DEF LInv
  <1> QED
    BY <1>1, LInvHolds, PTL
-----------------------------------------------------------------------------
(* The run implements AbstractRun.                                         *)

LEMMA RunStarts == Init => Run!RunInit
  BY DEF Init, Run!RunInit, Phase

\* The steps of the run thread: two of them write the status, the others are seen as a
\* change of phase at most.
LEMMA ThreadStepMaps == LInv /\ ThreadStep => [Run!RunNext]_(Run!runVars)
  <1> SUFFICES ASSUME LInv, ThreadStep PROVE Run!RunNext \/ UNCHANGED Run!runVars
    OBVIOUS
  <1> USE DEF Run!runVars, Phase
  <1>1. CASE AssignRunner
    BY <1>1 DEF AssignRunner, LInv, RunnerInv
  <1>2. CASE WriteStarted
    <2>1. seen \in {"running", "paused"}
      BY <1>2 DEF LInv, SeenInv, WriteStarted
    <2>2. hasRunner
      BY <1>2 DEF LInv, RunnerInv, WriteStarted
    <2> QED
      BY <1>2, <2>1, <2>2 DEF WriteStarted, Run!RunNext, Run!ThreadRun, Run!BeginRun
  <1>3. CASE WriteTerminal
    <2>1. seen \in Terminal
      BY <1>3 DEF LInv, SeenInv, WriteTerminal
    <2> QED
      BY <1>3, <2>1
      DEF WriteTerminal, Run!RunNext, Run!ThreadRun, Run!EndRun
  <1>4. CASE ReadGate \/ EngineHalts \/ ReadStop \/ Finalize
    BY <1>4 DEF ReadGate, EngineHalts, ReadStop, Finalize
  <1> QED
    BY <1>1, <1>2, <1>3, <1>4 DEF ThreadStep

\* The control operations, also the stop inside a restart.
LEMMA OperationMaps ==
  ASSUME UNCHANGED <<thread, hasRunner>>,
         UNCHANGED status \/ StopEffect \/ Pause \/ Resume
  PROVE  [Run!RunNext]_(Run!runVars)
  <1>1. Phase' = Phase
    BY DEF Phase
  <1> QED
    BY <1>1 DEF StopEffect, Pause, Resume, Active, Run!runVars, Run!RunNext, Run!OperateRun,
                Run!StopRun, Run!PauseRun, Run!ResumeRun, Run!ActiveStatuses

LEMMA StepMaps == LInv /\ [Next]_vars => [Run!RunNext]_(Run!runVars)
  <1> SUFFICES ASSUME LInv, [Next]_vars PROVE [Run!RunNext]_(Run!runVars)
    OBVIOUS
  <1>1. CASE ThreadStep
    BY <1>1, ThreadStepMaps
  <1>2. CASE EngineStep
    BY <1>2 DEF EngineStep, StartAgent, EngineReturns, EngineRaises, Run!runVars, Phase
  <1>3. CASE Stop
    BY <1>3, OperationMaps DEF Stop
  <1>4. CASE Pause \/ Resume
    BY <1>4, OperationMaps DEF Pause, Resume
  <1>5. ASSUME NEW r \in Restarts, RestartStep(r) PROVE [Run!RunNext]_(Run!runVars)
    BY <1>5, OperationMaps
    DEF RestartStep, RestartReads, RestartStops, RestartWaits, RestartLaunches
  <1>6. CASE UNCHANGED vars
    BY <1>6, OperationMaps DEF vars
  <1> QED
    BY <1>1, <1>2, <1>3, <1>4, <1>5, <1>6 DEF Next

\* The run thread, its two read-then-write windows and the operations of any number of
\* restarts together move the status only as the abstract run does.
THEOREM RunImplementsAbstractRun == Spec => ImplementsRun
  BY RunStarts, StepMaps, LInvHolds, PTL DEF Spec, ImplementsRun, Run!RunSpec
=============================================================================
