------------------------------ MODULE Recovery ------------------------------
(***************************************************************************)
(* Runs across processes: the run records and journals on disk, processes  *)
(* that crash, the reaper every process runs when it boots, the harvest of *)
(* the journal, auto-resume, and runs that resume another run              *)
(* (run/manager.py, storage/store.py, engine/cache.py).                    *)
(*                                                                         *)
(* A cache or a journal is seen as a bag: the number of results it has for *)
(* each fingerprint.  A call's put and its journal event are one step here: *)
(* between them there is only the call's own thread, and WorkflowEngine     *)
(* (TerminalCacheIsHarvest) shows that the two agree.                       *)
(***************************************************************************)
EXTENDS Naturals, FiniteSets

CONSTANTS Procs,      \* the processes; a restarted one is another process
          Listening,  \* those whose control listener has started
          MaxRuns,    \* bound: runs launched
          Keys,       \* the fingerprints
          Script,     \* how often the script calls each of them
          AutoMax,    \* max(1, config.auto_resume_max)
          Null

ASSUME RecoveryAssumption ==
       /\ Listening \subseteq Procs
       /\ MaxRuns \in Nat
       /\ Script \in [Keys -> Nat]
       /\ AutoMax \in Nat \ {0}
       /\ Null \notin Procs \cup Nat \cup [run : Nat, cache : [Keys -> Nat]]

Runs == 1..MaxRuns

VARIABLES
  proc,      \* the boot of each process and its end
  launched,  \* the number of runs launched
  runner,    \* the process whose thread executes the run
  from,      \* record["resumeFromRunId"]
  mem,       \* the status in managed.record
  disk,      \* the status in the run's file
  saved,     \* agentCache in the run's file
  journal,   \* the results in journal.jsonl
  todo,      \* the calls the script has still to make
  previous,  \* ResumeCache._previous
  current,   \* ResumeCache.current
  fresh,     \* those of current that a child computed in this run
  toReap,    \* the listed runs a booting process has not yet looked at
  holding,   \* the record it has loaded and not yet marked
  reaped,    \* the runs it has marked
  resumed,   \* the number of runs it has resumed
  markedBy,  \* the processes that have marked the run
  raced,     \* the runs that two processes were marking at one time
  settled,   \* the runs resumed from a record that was in order
  late,      \* the runs resumed from a run that its owner's death had cut off
  found      \* the runs that were active and without a live owner when it booted

procVars == <<proc, toReap, holding, reaped, resumed>>
runVars  == <<launched, runner, from>>
fileVars == <<disk, saved>>
callVars == <<journal, todo, previous, current, fresh>>
history  == <<markedBy, raced, settled, late, found>>

vars == <<proc, launched, runner, from, mem, disk, saved, journal, todo, previous, current,
          fresh, toReap, holding, reaped, resumed, markedBy, raced, settled,
          late, found>>
-----------------------------------------------------------------------------
Up        == {"reaping", "resuming", "up"}
\* active: queued, running, paused or stopping; over: completed, stopped or failed.
Statuses  == {"none", "active", "over", "interrupted"}
Bags      == [Keys -> Nat]
EmptyBag  == [k \in Keys |-> 0]
Known     == 1..launched

Plus(b, c) == [k \in Keys |-> b[k] + c[k]]
Gone(p)    == p \in Procs /\ proc[p] = "dead"
Live(r)    == runner[r] # Null /\ proc[runner[r]] \in Up /\ mem[r] = "active"
\* record["controlOwner"]: written only by a process whose listener runs.
Owned(r)   == runner[r] \in Listening

Init ==
  /\ proc = [p \in Procs |-> "off"]
  /\ launched = 0
  /\ runner = [r \in Runs |-> Null]
  /\ from = [r \in Runs |-> Null]
  /\ mem = [r \in Runs |-> "none"]
  /\ disk = [r \in Runs |-> "none"]
  /\ saved = [r \in Runs |-> EmptyBag]
  /\ journal = [r \in Runs |-> EmptyBag]
  /\ todo = [r \in Runs |-> EmptyBag]
  /\ previous = [r \in Runs |-> EmptyBag]
  /\ current = [r \in Runs |-> EmptyBag]
  /\ fresh = [r \in Runs |-> EmptyBag]
  /\ toReap = [p \in Procs |-> {}]
  /\ holding = [p \in Procs |-> Null]
  /\ reaped = [p \in Procs |-> {}]
  /\ resumed = [p \in Procs |-> 0]
  /\ markedBy = [r \in Runs |-> {}]
  /\ raced = {}
  /\ settled = {}
  /\ late = {}
  /\ found = [p \in Procs |-> {}]
-----------------------------------------------------------------------------
(* Launching and executing a run.                                          *)

\* The results the record of r offers to a resume: it is final, or reaped.
InOrder(r) == Owned(r) /\ disk[r] \in {"over", "interrupted"}
CutOff(r)  == Owned(r) /\ mem[r] = "active" /\ Gone(runner[r])

\* start_from_params: the cache comes from the file of the run to resume, whatever
\* its status there.
LaunchEffect(p, source) ==
  LET r == launched + 1 IN
  /\ r \in Runs
  /\ launched' = r
  /\ runner' = [runner EXCEPT ![r] = p]
  /\ from' = [from EXCEPT ![r] = source]
  /\ mem' = [mem EXCEPT ![r] = "active"]
  /\ disk' = [disk EXCEPT ![r] = "active"]
  /\ previous' = [previous EXCEPT ![r] = IF source = Null THEN EmptyBag ELSE saved[source]]
  /\ settled' = IF source # Null /\ InOrder(source) THEN settled \cup {r} ELSE settled
  /\ late' = IF source # Null /\ CutOff(source) THEN late \cup {r} ELSE late
  /\ todo' = [todo EXCEPT ![r] = Script]
  /\ UNCHANGED <<saved, journal, current, fresh, raced, found>>

Launch(p) ==
  /\ proc[p] \in Up
  /\ LaunchEffect(p, Null)
  /\ UNCHANGED <<procVars, markedBy>>

\* _active_resume_run refuses a run that this process itself is executing.
Resume(p, source) ==
  /\ proc[p] \in Up
  /\ source \in Known
  /\ ~(runner[source] = p /\ mem[source] = "active")
  /\ LaunchEffect(p, source)
  /\ UNCHANGED <<procVars, markedBy>>

Results(r, k) ==
  /\ journal' = [journal EXCEPT ![r][k] = @ + 1]
  /\ current' = [current EXCEPT ![r][k] = @ + 1]
Settles(r, k) ==
  /\ Live(r)
  /\ todo[r][k] > 0
  /\ todo' = [todo EXCEPT ![r][k] = @ - 1]
  /\ UNCHANGED <<procVars, runVars, mem, fileVars, history>>

\* Mutant: a result is taken without looking whether one is left.
ReuseUnchecked(r, k) ==
  /\ Settles(r, k)
  /\ previous' = [previous EXCEPT ![r][k] = @ - 1]
  /\ Results(r, k)
  /\ UNCHANGED fresh

Reuse(r, k) ==
  /\ Settles(r, k)
  /\ previous[r][k] > 0
  /\ previous' = [previous EXCEPT ![r][k] = @ - 1]
  /\ Results(r, k)
  /\ UNCHANGED fresh

\* Mutant: a child runs although the cache has a result for the call.
ComputeAlways(r, k) ==
  /\ Settles(r, k)
  /\ fresh' = [fresh EXCEPT ![r][k] = @ + 1]
  /\ Results(r, k)
  /\ UNCHANGED previous

Compute(r, k) ==
  /\ Settles(r, k)
  /\ previous[r][k] = 0
  /\ fresh' = [fresh EXCEPT ![r][k] = @ + 1]
  /\ Results(r, k)
  /\ UNCHANGED previous

\* A skip is journalled as a result and not put in the cache; an error is neither.
SkipOrFail(r, k) ==
  /\ Settles(r, k)
  /\ previous[r][k] = 0
  /\ \/ journal' = [journal EXCEPT ![r][k] = @ + 1]
     \/ UNCHANGED journal
  /\ UNCHANGED <<previous, current, fresh>>

\* Every _update_state, _update and control operation writes the record in memory over
\* the file; its agentCache stays empty until the end.
Save(r) ==
  /\ Live(r)
  /\ disk' = [disk EXCEPT ![r] = "active"]
  /\ saved' = [saved EXCEPT ![r] = EmptyBag]
  /\ UNCHANGED <<procVars, runVars, mem, callVars, history>>

\* The terminal _update: completed, stopped or failed, with agentCache = current.
Finish(r) ==
  /\ Live(r)
  /\ mem' = [mem EXCEPT ![r] = "over"]
  /\ disk' = [disk EXCEPT ![r] = "over"]
  /\ saved' = [saved EXCEPT ![r] = current[r]]
  /\ previous' = [previous EXCEPT ![r] = EmptyBag]
  /\ todo' = [todo EXCEPT ![r] = EmptyBag]
  /\ UNCHANGED <<procVars, runVars, journal, current, fresh, history>>
-----------------------------------------------------------------------------
(* A process boots: get_run_manager builds the manager and reaps.          *)

\* An owner decides by its liveness.  Without one the time since the last activity does,
\* and a pause exempts: the time may be short or long, so either may be found.
MaybeOrphan(r) == Owned(r) => Gone(runner[r])
MaybeAlive(r)  == Owned(r) => ~Gone(runner[r])

\* The listing: every record with an active status.
Boot(p) ==
  /\ proc[p] = "off"
  /\ proc' = [proc EXCEPT ![p] = "reaping"]
  /\ toReap' = [toReap EXCEPT ![p] = {r \in Known : disk[r] = "active"}]
  /\ found' = [found EXCEPT ![p] =
                  {r \in Known : disk[r] = "active" /\ CutOff(r)}]
  /\ UNCHANGED <<holding, reaped, resumed, runVars, mem, fileVars, callVars,
                 markedBy, raced, settled, late>>

\* Mutant: a live owner is not believed once its run has been idle for long.
ReloadStale(p, r) ==
  /\ proc[p] = "reaping" /\ holding[p] = Null
  /\ r \in toReap[p]
  /\ disk[r] = "active"
  /\ holding' = [holding EXCEPT ![p] = [run |-> r, cache |-> saved[r]]]
  /\ toReap' = [toReap EXCEPT ![p] = @ \ {r}]
  /\ UNCHANGED raced
  /\ UNCHANGED <<proc, reaped, resumed, runVars, mem, fileVars, callVars, markedBy, settled,
                 late, found>>

\* Mutant: the listed record is trusted and not loaded again.
ReloadNoCheck(p, r) ==
  /\ proc[p] = "reaping" /\ holding[p] = Null
  /\ r \in toReap[p]
  /\ MaybeOrphan(r)
  /\ holding' = [holding EXCEPT ![p] = [run |-> r, cache |-> saved[r]]]
  /\ toReap' = [toReap EXCEPT ![p] = @ \ {r}]
  /\ raced' = raced \cup {x \in {r} : \E q \in Procs : holding[q] # Null /\ holding[q].run = x}
  /\ UNCHANGED <<proc, reaped, resumed, runVars, mem, fileVars, callVars, markedBy, settled,
                 late, found>>

\* An orphan whose record, loaded again, is still active: it is held until the save.
Reload(p, r) ==
  /\ proc[p] = "reaping" /\ holding[p] = Null
  /\ r \in toReap[p]
  /\ MaybeOrphan(r)
  /\ disk[r] = "active"
  /\ holding' = [holding EXCEPT ![p] = [run |-> r, cache |-> saved[r]]]
  /\ toReap' = [toReap EXCEPT ![p] = @ \ {r}]
  /\ raced' = raced \cup {x \in {r} : \E q \in Procs : holding[q] # Null /\ holding[q].run = x}
  /\ UNCHANGED <<proc, reaped, resumed, runVars, mem, fileVars, callVars, markedBy, settled,
                 late, found>>

\* Mutant: a recent run is passed over before its owner is looked at.
PassOverRecent(p, r) ==
  /\ proc[p] = "reaping" /\ holding[p] = Null
  /\ r \in toReap[p]
  /\ toReap' = [toReap EXCEPT ![p] = @ \ {r}]
  /\ UNCHANGED <<proc, holding, reaped, resumed, runVars, mem, fileVars, callVars, history>>

PassOver(p, r) ==
  /\ proc[p] = "reaping" /\ holding[p] = Null
  /\ r \in toReap[p]
  /\ MaybeAlive(r) \/ disk[r] # "active"
  /\ toReap' = [toReap EXCEPT ![p] = @ \ {r}]
  /\ UNCHANGED <<proc, holding, reaped, resumed, runVars, mem, fileVars, callVars, history>>

\* Mutant: the status is written without the harvest.
MarkWithoutHarvest(p) ==
  /\ holding[p] # Null
  /\ proc[p] = "reaping"
  /\ LET r == holding[p].run IN
     /\ disk' = [disk EXCEPT ![r] = "interrupted"]
     /\ saved' = [saved EXCEPT ![r] = holding[p].cache]
     /\ reaped' = [reaped EXCEPT ![p] = @ \cup {r}]
     /\ markedBy' = [markedBy EXCEPT ![r] = @ \cup {p}]
  /\ holding' = [holding EXCEPT ![p] = Null]
  /\ UNCHANGED <<proc, toReap, resumed, runVars, mem, callVars, raced, settled,
                 late, found>>

\* _mark_interrupted: the harvest is added to the loaded cache and all of it is saved.
Mark(p) ==
  /\ proc[p] = "reaping"
  /\ holding[p] # Null
  /\ LET r == holding[p].run IN
     /\ disk' = [disk EXCEPT ![r] = "interrupted"]
     /\ saved' = [saved EXCEPT ![r] = Plus(holding[p].cache, journal[r])]
     /\ reaped' = [reaped EXCEPT ![p] = @ \cup {r}]
     /\ markedBy' = [markedBy EXCEPT ![r] = @ \cup {p}]
  /\ holding' = [holding EXCEPT ![p] = Null]
  /\ UNCHANGED <<proc, toReap, resumed, runVars, mem, callVars, raced, settled,
                 late, found>>

ReapEnds(p) ==
  /\ proc[p] = "reaping"
  /\ toReap[p] = {} /\ holding[p] = Null
  /\ proc' = [proc EXCEPT ![p] = "resuming"]
  /\ UNCHANGED <<toReap, holding, reaped, resumed, runVars, mem, fileVars, callVars, history>>

\* auto_resume_orphans: the record is loaded again and must be interrupted.
AutoResume(p, r) ==
  /\ proc[p] = "resuming"
  /\ r \in reaped[p]
  /\ resumed[p] < AutoMax
  /\ disk[r] = "interrupted"
  /\ LaunchEffect(p, r)
  /\ reaped' = [reaped EXCEPT ![p] = @ \ {r}]
  /\ resumed' = [resumed EXCEPT ![p] = @ + 1]
  /\ UNCHANGED <<proc, toReap, holding, markedBy>>

\* Auto-resume is off, no gateway loop is here, the run is too old, its script is gone,
\* the launch failed or the record has changed.
PassResume(p, r) ==
  /\ proc[p] = "resuming"
  /\ r \in reaped[p]
  /\ reaped' = [reaped EXCEPT ![p] = @ \ {r}]
  /\ UNCHANGED <<proc, toReap, holding, resumed, runVars, mem, fileVars, callVars, history>>

BootEnds(p) ==
  /\ proc[p] = "resuming"
  /\ reaped[p] = {} \/ resumed[p] >= AutoMax
  /\ proc' = [proc EXCEPT ![p] = "up"]
  /\ reaped' = [reaped EXCEPT ![p] = {}]
  /\ resumed' = [resumed EXCEPT ![p] = 0]
  /\ UNCHANGED <<toReap, holding, runVars, mem, fileVars, callVars, history>>

\* The process exits or is killed; its threads and its memory are gone.
Crash(p) ==
  /\ proc[p] \in Up
  /\ proc' = [proc EXCEPT ![p] = "dead"]
  /\ toReap' = [toReap EXCEPT ![p] = {}]
  /\ holding' = [holding EXCEPT ![p] = Null]
  /\ reaped' = [reaped EXCEPT ![p] = {}]
  /\ resumed' = [resumed EXCEPT ![p] = 0]
  /\ previous' = [r \in Runs |-> IF runner[r] = p THEN EmptyBag ELSE previous[r]]
  /\ todo' = [r \in Runs |-> IF runner[r] = p THEN EmptyBag ELSE todo[r]]
  /\ UNCHANGED <<runVars, mem, fileVars, journal, current, fresh, history>>
-----------------------------------------------------------------------------
BootStep(p) ==
  \/ Mark(p) \/ ReapEnds(p) \/ BootEnds(p)
  \/ \E r \in Runs : Reload(p, r) \/ PassOver(p, r) \/ AutoResume(p, r) \/ PassResume(p, r)
RunStep(r) ==
  \/ Save(r) \/ Finish(r)
  \/ \E k \in Keys : Reuse(r, k) \/ Compute(r, k) \/ SkipOrFail(r, k)

Next ==
  \/ \E p \in Procs : Boot(p) \/ BootStep(p) \/ Crash(p) \/ Launch(p)
  \/ \E p \in Procs, r \in Runs : Resume(p, r)
  \/ \E r \in Runs : RunStep(r)

Spec == Init /\ [][Next]_vars
-----------------------------------------------------------------------------
(* Properties.                                                             *)

BootTypeOK ==
  /\ proc \in [Procs -> Up \cup {"off", "dead"}]
  /\ toReap \in [Procs -> SUBSET Runs]
  /\ holding \in [Procs -> [run : Runs, cache : Bags] \cup {Null}]
  /\ reaped \in [Procs -> SUBSET Runs]
  /\ resumed \in [Procs -> Nat]
RunTypeOK ==
  /\ launched \in 0..MaxRuns
  /\ runner \in [Runs -> Procs \cup {Null}]
  /\ from \in [Runs -> Runs \cup {Null}]
  /\ mem \in [Runs -> Statuses] /\ disk \in [Runs -> Statuses]
BagTypeOK ==
  /\ saved \in [Runs -> Bags] /\ journal \in [Runs -> Bags]
  /\ previous \in [Runs -> Bags] /\ todo \in [Runs -> Bags]
  /\ current \in [Runs -> Bags] /\ fresh \in [Runs -> Bags]
HistoryTypeOK ==
  /\ markedBy \in [Runs -> SUBSET Procs]
  /\ raced \subseteq Runs /\ settled \subseteq Runs /\ late \subseteq Runs
  /\ found \in [Procs -> SUBSET Runs]

\* Every variable has its type.
TypeOK == BootTypeOK /\ RunTypeOK /\ BagTypeOK /\ HistoryTypeOK

\* A run that a live process owns is never marked interrupted, however long it is idle
\* and however many processes boot.
LiveRunsUntouched ==
  \A r \in Known : (Owned(r) /\ disk[r] = "interrupted") => Gone(runner[r])

\* The record of a reaped run offers each result of its journal once, even when two
\* processes reap it at the same time or one is killed half way.
HarvestExact ==
  \A r \in Known : (Owned(r) /\ disk[r] = "interrupted") => saved[r] = journal[r]

\* A run whose owner finished it is not turned into an interrupted one by a reaper that
\* had listed it before.
FinishedNotReaped ==
  \A r \in Known : (Owned(r) /\ mem[r] = "over") => disk[r] = "over"

\* A run that resumes a finished or reaped one computes a call only when every result
\* the resumed run had for its fingerprint has been used.
ResumeReusesResults ==
  \A r \in settled, k \in Keys :
    fresh[r][k] > 0 => current[r][k] - fresh[r][k] >= current[from[r]][k]

\* Two processes mark the same orphan, and so may both resume it, only when both held its
\* record at one time.
MarkedOnce ==
  \A r \in Known \ raced : Owned(r) => Cardinality(markedBy[r]) <= 1

\* A process that has finished reaping leaves no run active whose owner was dead when it
\* booted, whoever else reaps or dies meanwhile.
OrphansAreReaped ==
  \A p \in Procs : proc[p] \in {"resuming", "up"} => \A r \in found[p] : disk[r] # "active"

\* "So a crash loses nothing that already completed" and "any later resume" is cheap
\* (README.md): a run that resumes one whose owner has died computes a call only when
\* every result the dead run had returned for it has been used.
CrashLosesNothing ==
  \A r \in late, k \in Keys :
    fresh[r][k] > 0 => current[r][k] - fresh[r][k] >= current[from[r]][k]
=============================================================================
