--------------------------- MODULE WorkflowEngine ---------------------------
(***************************************************************************)
(* The execution engine of one workflow run: the shared execution context, *)
(* the agent() threads of every frame of the run, the content-addressed    *)
(* resume cache and the journal (engine/context.py, engine/api.py,         *)
(* engine/cache.py, engine/runtime.py).                                    *)
(*                                                                         *)
(* An agent() call runs in a worker thread of its own.  Its steps are      *)
(* separated wherever another thread can observe or disturb them: at each  *)
(* check_runtime(), at the frame lock, at the context lock, at the slot    *)
(* semaphore and at the return of the child.  The script itself is a       *)
(* nondeterministic caller; the user and the clock set stop, pause and     *)
(* expired.  The live result of a child is named by the call it answers.   *)
(***************************************************************************)
EXTENDS Naturals, Sequences, FiniteSets, Functions

CONSTANTS Agents,     \* the agent() calls the script may make
          Keys,       \* the fingerprints of (prompt, opts)
          KeyOf,      \* the fingerprint of each call
          Frames,     \* the root frame and the nested workflow() frames
          FrameOf,    \* the frame each call belongs to
          Slots,      \* max(1, min(concurrency, max_concurrency))
          MaxAgents,  \* config.max_agents
          Budget,     \* token_budget_total, or NoBudget
          NoBudget,
          Usage,      \* the token counts a child may report
          Old,        \* the results cached by the run this one resumes
          Previous,   \* the agentCache of that run
          Null        \* no result, no lock holder

ASSUME EngineAssumption ==
       /\ IsFiniteSet(Agents)
       /\ KeyOf \in [Agents -> Keys]
       /\ FrameOf \in [Agents -> Frames]
       /\ Slots \in Nat \ {0}
       /\ MaxAgents \in Nat
       /\ Budget \in Nat \cup {NoBudget}
       /\ NoBudget \notin Nat
       /\ Usage \subseteq Nat
       /\ Previous \in [Keys -> Seq(Old)]
       /\ Null \notin Agents \cup Old
       /\ Agents \cap Old = {}

VARIABLES
  stop,        \* stop_event is set
  paused,      \* PauseGate._paused
  expired,     \* monotonic() - paused_seconds > deadline
  frameLock,   \* the holder of each WorkflowAPI._lock
  agentCount,  \* context._agent_count
  spent,       \* context._spent_tokens
  freeSlots,   \* the value of the slot semaphore
  pc,          \* where each agent() thread is
  status,      \* AgentRecord.status, "none" before the record exists
  attempt,     \* how the child of the call ended
  used,        \* the tokens that child really used
  tokens,      \* AgentRecord.tokens
  accounted,   \* attempt_accounted_tokens
  outcome,     \* what agent() returned
  previous,    \* ResumeCache._previous
  current,     \* ResumeCache.current
  journal,     \* the events appended to journal.jsonl
  script,      \* the root frame's status
  drained      \* run_workflow() has returned or raised

control   == <<stop, paused, expired>>
cacheVars == <<previous, current>>
usageVars == <<used, tokens, accounted>>
vars == <<stop, paused, expired, frameLock, agentCount, spent, freeSlots, pc,
          status, attempt, used, tokens, accounted, outcome, previous, current,
          journal, script, drained>>
-----------------------------------------------------------------------------
PC == {"idle", "called", "validated", "locked", "reserving", "lookup", "hit",
       "queued", "acquiring", "acquired", "child", "returned", "accounted",
       "done", "halted"}
Resting  == {"idle", "done", "halted"}
Attempts == {"none", "value", "uncaptured", "skip", "error", "crash"}
Statuses == {"none", "queued", "running", "done", "skipped", "error"}
Results  == Agents \cup Old

Live     == {a \in Agents : pc[a] \notin Resting}
Holders  == {a \in Agents : pc[a] \in {"acquired", "child"}}
Reserved == {a \in Agents : status[a] # "none"}

\* how: whether the event carries "cached" or "skipped".
Hows == {"live", "cached", "skipped"}
Event(type, a, how, result) ==
  [type |-> type, agent |-> a, how |-> how, result |-> result]
Events == [type : {"started", "result", "error"}, agent : Agents, how : Hows,
           result : Results \cup {Null}]

Init ==
  /\ stop = FALSE /\ paused = FALSE /\ expired = FALSE
  /\ frameLock = [f \in Frames |-> Null]
  /\ agentCount = 0 /\ spent = 0
  /\ freeSlots = Slots
  /\ pc = [a \in Agents |-> "idle"]
  /\ status = [a \in Agents |-> "none"]
  /\ attempt = [a \in Agents |-> "none"]
  /\ used = [a \in Agents |-> 0]
  /\ tokens = [a \in Agents |-> 0]
  /\ accounted = [a \in Agents |-> 0]
  /\ outcome = [a \in Agents |-> Null]
  /\ previous = Previous
  /\ current = [k \in Keys |-> <<>>]
  /\ journal = {}
  /\ script = "running"
  /\ drained = FALSE

Goto(a, where) == pc' = [pc EXCEPT ![a] = where]
-----------------------------------------------------------------------------
(* check_runtime: the stop flag wins over the gate, a closed gate blocks,  *)
(* and the deadline is read once the gate has opened.                      *)

\* Mutants of the next operators: the gate waited on without looking at stop; a halt
\* that forgets the slot, and one that releases a slot it may not hold.
RuntimeHaltsBehindGate == ~paused /\ (stop \/ expired)
UnwindKeepsSlot(a) ==
  /\ frameLock' = [f \in Frames |-> IF frameLock[f] = a THEN Null ELSE frameLock[f]]
  /\ freeSlots' = freeSlots
UnwindAlwaysReleases(a) ==
  /\ frameLock' = [f \in Frames |-> IF frameLock[f] = a THEN Null ELSE frameLock[f]]
  /\ freeSlots' = freeSlots + 1

RuntimePasses == ~stop /\ ~paused /\ ~expired
RuntimeHalts  == stop \/ (~paused /\ expired)

\* Releasing what the thread holds as a halt unwinds it.
UnwindLocks(a) ==
  /\ frameLock' = [f \in Frames |-> IF frameLock[f] = a THEN Null ELSE frameLock[f]]
  /\ freeSlots' = IF pc[a] = "acquired" THEN freeSlots + 1 ELSE freeSlots

Halt(a) ==
  /\ UnwindLocks(a)
  /\ Goto(a, "halted")
  /\ UNCHANGED <<control, agentCount, spent, status, attempt, usageVars, outcome,
                 cacheVars, journal, script, drained>>

\* A thread at a check_runtime() call, and where it goes when the check passes.
CheckAt == [called |-> "validated", locked |-> "reserving",
            queued |-> "acquiring", acquired |-> "child"]

CheckPasses(a) ==
  /\ pc[a] \in DOMAIN CheckAt
  /\ RuntimePasses
  /\ Goto(a, CheckAt[pc[a]])
  /\ UNCHANGED <<control, frameLock, agentCount, spent, freeSlots, status, attempt,
                 usageVars, outcome, cacheVars, journal, script, drained>>

CheckHalts(a) ==
  /\ pc[a] \in DOMAIN CheckAt
  /\ RuntimeHalts
  /\ Halt(a)
-----------------------------------------------------------------------------
(* agent(): validation, reservation under the frame lock, cache lookup.    *)

Call(a) ==
  /\ script = "running"
  /\ pc[a] = "idle"
  /\ Goto(a, "called")
  /\ UNCHANGED <<control, frameLock, agentCount, spent, freeSlots, status, attempt,
                 usageVars, outcome, cacheVars, journal, script, drained>>

\* Bad options, schema or agentType: raised before anything is reserved.
RejectOptions(a) ==
  /\ pc[a] = "validated"
  /\ Goto(a, "done")
  /\ UNCHANGED <<control, frameLock, agentCount, spent, freeSlots, status, attempt,
                 usageVars, outcome, cacheVars, journal, script, drained>>

\* with self._lock: one WorkflowAPI, hence one lock, per frame.
LockFrame(a) ==
  /\ pc[a] = "validated"
  /\ frameLock[FrameOf[a]] = Null
  /\ frameLock' = [frameLock EXCEPT ![FrameOf[a]] = a]
  /\ Goto(a, "locked")
  /\ UNCHANGED <<control, agentCount, spent, freeSlots, status, attempt, usageVars,
                 outcome, cacheVars, journal, script, drained>>

\* Mutant: the cap compared with the wrong sign of equality.
AtLimitOffByOne == \/ agentCount > MaxAgents
                   \/ Budget # NoBudget /\ spent >= Budget

AtLimit == \/ agentCount >= MaxAgents
           \/ Budget # NoBudget /\ spent >= Budget

\* reserve_agent past its check, and the AgentRecord; both under the frame lock.
Reserve(a) ==
  /\ pc[a] = "reserving"
  /\ ~AtLimit
  /\ agentCount' = agentCount + 1
  /\ status' = [status EXCEPT ![a] = "queued"]
  /\ frameLock' = [frameLock EXCEPT ![FrameOf[a]] = Null]
  /\ Goto(a, "lookup")
  /\ UNCHANGED <<control, spent, freeSlots, attempt, usageVars, outcome, cacheVars,
                 journal, script, drained>>

ReserveOverLimit(a) ==
  /\ pc[a] = "reserving"
  /\ AtLimit
  /\ Halt(a)

\* Mutant: the bucket is read and never popped.
CacheHitKeepsEntry(a) ==
  /\ pc[a] = "lookup"
  /\ previous[KeyOf[a]] # <<>>
  /\ outcome' = [outcome EXCEPT ![a] = Head(previous[KeyOf[a]])]
  /\ status' = [status EXCEPT ![a] = "done"]
  /\ Goto(a, "hit")
  /\ UNCHANGED <<control, frameLock, agentCount, spent, freeSlots, attempt, usageVars,
                 cacheVars, journal, script, drained>>

\* resume_cache.get: pop the oldest unconsumed result of this fingerprint.
CacheHit(a) ==
  LET k == KeyOf[a] IN
  /\ pc[a] = "lookup"
  /\ previous[k] # <<>>
  /\ outcome' = [outcome EXCEPT ![a] = Head(previous[k])]
  /\ previous' = [previous EXCEPT ![k] = Tail(@)]
  /\ status' = [status EXCEPT ![a] = "done"]
  /\ Goto(a, "hit")
  /\ UNCHANGED <<control, frameLock, agentCount, spent, freeSlots, attempt, usageVars,
                 current, journal, script, drained>>

CacheMiss(a) ==
  /\ pc[a] = "lookup"
  /\ previous[KeyOf[a]] = <<>>
  /\ status' = [status EXCEPT ![a] = "running"]
  /\ journal' = journal \cup {Event("started", a, "live", Null)}
  /\ Goto(a, "queued")
  /\ UNCHANGED <<control, frameLock, agentCount, spent, freeSlots, attempt, usageVars,
                 outcome, cacheVars, script, drained>>

\* Mutant: a reused result is journalled and not put back in the cache.
ReturnCachedWithoutPut(a) ==
  /\ pc[a] = "hit"
  /\ journal' = journal \cup {Event("result", a, "cached", outcome[a])}
  /\ Goto(a, "done")
  /\ UNCHANGED <<control, frameLock, agentCount, spent, freeSlots, status, attempt,
                 usageVars, outcome, cacheVars, script, drained>>

\* The tail of a hit: resume_cache.put, then the cached result event.
ReturnCached(a) ==
  /\ pc[a] = "hit"
  /\ current' = [current EXCEPT ![KeyOf[a]] = Append(@, outcome[a])]
  /\ journal' = journal \cup {Event("result", a, "cached", outcome[a])}
  /\ Goto(a, "done")
  /\ UNCHANGED <<control, frameLock, agentCount, spent, freeSlots, status, attempt,
                 usageVars, outcome, previous, script, drained>>
-----------------------------------------------------------------------------
(* The child: a slot, the run, the settlement.                             *)

\* Mutant: the state is not checked again after the wait for a slot.
AcquireSlotUnchecked(a) ==
  /\ pc[a] = "acquiring"
  /\ freeSlots > 0
  /\ freeSlots' = freeSlots - 1
  /\ Goto(a, "child")
  /\ UNCHANGED <<control, frameLock, agentCount, spent, status, attempt, usageVars,
                 outcome, cacheVars, journal, script, drained>>

\* BoundedSemaphore.acquire() blocks whatever stop and pause say meanwhile.
AcquireSlot(a) ==
  /\ pc[a] = "acquiring"
  /\ freeSlots > 0
  /\ freeSlots' = freeSlots - 1
  /\ Goto(a, "acquired")
  /\ UNCHANGED <<control, frameLock, agentCount, spent, status, attempt, usageVars,
                 outcome, cacheVars, journal, script, drained>>

\* runner.run returns or raises, and the slot is released.
ChildEnds(a, how, real, shown) ==
  /\ pc[a] = "child"
  /\ attempt' = [attempt EXCEPT ![a] = how]
  /\ used' = [used EXCEPT ![a] = real]
  /\ tokens' = [tokens EXCEPT ![a] = shown]
  /\ freeSlots' = freeSlots + 1
  /\ Goto(a, "returned")
  /\ UNCHANGED <<control, frameLock, agentCount, spent, status, accounted, outcome,
                 cacheVars, journal, script, drained>>

\* A child that ends on its own, by its timeout or by an interrupt reports its final
\* metadata first: on_update runs in the child's thread and takes the frame lock.
ChildReports(a) ==
  /\ frameLock[FrameOf[a]] = Null
  /\ \E how \in {"value", "uncaptured", "skip", "error"}, n \in Usage :
       ChildEnds(a, how, n, n)

\* The shared core raises before any report: the record shows no tokens.
ChildCrashes(a) == \E n \in Usage : ChildEnds(a, "crash", n, 0)

\* Mutant: the error path charges the whole count again.
ChargeTwice(a) ==
  /\ spent' = spent + tokens[a]
  /\ accounted' = [accounted EXCEPT ![a] = tokens[a]]

\* record_tokens(token_delta): charge what the record shows and is not yet charged.
Charge(a) ==
  /\ spent' = spent + (tokens[a] - accounted[a])
  /\ accounted' = [accounted EXCEPT ![a] = tokens[a]]

AccountTokens(a) ==
  /\ pc[a] = "returned"
  /\ attempt[a] \in {"value", "uncaptured"}
  /\ Charge(a)
  /\ Goto(a, "accounted")
  /\ UNCHANGED <<control, frameLock, agentCount, freeSlots, status, attempt, used,
                 tokens, outcome, cacheVars, journal, script, drained>>

Publish(a) ==
  /\ pc[a] = "accounted"
  /\ attempt[a] = "value"
  /\ outcome' = [outcome EXCEPT ![a] = a]
  /\ status' = [status EXCEPT ![a] = "done"]
  /\ current' = [current EXCEPT ![KeyOf[a]] = Append(@, a)]
  /\ journal' = journal \cup {Event("result", a, "live", a)}
  /\ Goto(a, "done")
  /\ UNCHANGED <<control, frameLock, agentCount, spent, freeSlots, attempt, usageVars,
                 previous, script, drained>>

\* except Exception: a failed child, or a schema child with no captured output.
Fail(a) ==
  /\ \/ pc[a] = "returned"  /\ attempt[a] \in {"error", "crash"}
     \/ pc[a] = "accounted" /\ attempt[a] = "uncaptured"
  /\ Charge(a)
  /\ status' = [status EXCEPT ![a] = "error"]
  /\ journal' = journal \cup {Event("error", a, "live", Null)}
  /\ Goto(a, "done")
  /\ UNCHANGED <<control, frameLock, agentCount, freeSlots, attempt, used, tokens,
                 outcome, cacheVars, script, drained>>

\* except ChildAgentSkipped: agent() resolves to None and record.tokens is reset.
Skip(a) ==
  /\ pc[a] = "returned"
  /\ attempt[a] = "skip"
  /\ tokens' = [tokens EXCEPT ![a] = 0]
  /\ status' = [status EXCEPT ![a] = "skipped"]
  /\ journal' = journal \cup {Event("result", a, "skipped", Null)}
  /\ Goto(a, "done")
  /\ UNCHANGED <<control, frameLock, agentCount, spent, freeSlots, attempt, used,
                 accounted, outcome, cacheVars, script, drained>>
-----------------------------------------------------------------------------
(* The script's coroutine and the end of run_workflow().                   *)

FrameStatusOnError == IF stop THEN "stopped" ELSE "error"

\* The entry point returns: nothing it awaited is live, no halt reached it, and
\* the final check_runtime() passes.
ScriptReturns ==
  /\ script = "running"
  /\ \A a \in Agents : pc[a] \in {"idle", "done"}
  /\ RuntimePasses
  /\ script' = "completed"
  /\ UNCHANGED <<control, frameLock, agentCount, spent, freeSlots, pc, status, attempt,
                 usageVars, outcome, cacheVars, journal, drained>>

\* A halt of a call, or of a check_runtime() on the event loop (parallel,
\* pipeline, tick_loop, the final check), ends the script while the other
\* worker threads go on.
ScriptHalts ==
  /\ script = "running"
  /\ RuntimeHalts \/ \E a \in Agents : pc[a] = "halted"
  /\ script' = FrameStatusOnError
  /\ UNCHANGED <<control, frameLock, agentCount, spent, freeSlots, pc, status, attempt,
                 usageVars, outcome, cacheVars, journal, drained>>

\* An ordinary exception the script does not handle; helpers turn those of
\* concurrent branches into None, so nothing is live.
ScriptRaises ==
  /\ script = "running"
  /\ Live = {}
  /\ script' = FrameStatusOnError
  /\ UNCHANGED <<control, frameLock, agentCount, spent, freeSlots, pc, status, attempt,
                 usageVars, outcome, cacheVars, journal, drained>>

\* asyncio.run joins the executor's threads before it returns.
RunReturns ==
  /\ script # "running"
  /\ ~drained
  /\ Live = {}
  /\ drained' = TRUE
  /\ UNCHANGED <<control, frameLock, agentCount, spent, freeSlots, pc, status, attempt,
                 usageVars, outcome, cacheVars, journal, script>>
-----------------------------------------------------------------------------
(* The user and the clock.                                                 *)

SetStop ==
  /\ ~stop /\ ~drained
  /\ stop' = TRUE
  /\ UNCHANGED <<paused, expired, frameLock, agentCount, spent, freeSlots, pc, status,
                 attempt, usageVars, outcome, cacheVars, journal, script, drained>>

PauseGateCloses ==
  /\ ~paused /\ ~drained
  /\ paused' = TRUE
  /\ UNCHANGED <<stop, expired, frameLock, agentCount, spent, freeSlots, pc, status,
                 attempt, usageVars, outcome, cacheVars, journal, script, drained>>

PauseGateOpens ==
  /\ paused
  /\ paused' = FALSE
  /\ UNCHANGED <<stop, expired, frameLock, agentCount, spent, freeSlots, pc, status,
                 attempt, usageVars, outcome, cacheVars, journal, script, drained>>

\* paused_seconds is subtracted, so the deadline cannot pass while paused.
DeadlinePasses ==
  /\ ~expired /\ ~paused /\ ~drained
  /\ expired' = TRUE
  /\ UNCHANGED <<stop, paused, frameLock, agentCount, spent, freeSlots, pc, status,
                 attempt, usageVars, outcome, cacheVars, journal, script, drained>>
-----------------------------------------------------------------------------
\* The steps of an agent() thread that wait for nobody outside the engine.
ThreadStep(a) ==
  \/ CheckPasses(a) \/ CheckHalts(a) \/ RejectOptions(a) \/ LockFrame(a)
  \/ Reserve(a) \/ ReserveOverLimit(a) \/ CacheHit(a) \/ CacheMiss(a)
  \/ ReturnCached(a) \/ AcquireSlot(a) \/ AccountTokens(a) \/ Publish(a)
  \/ Fail(a) \/ Skip(a)

RunEnd  == ScriptHalts \/ RunReturns
Outside == SetStop \/ PauseGateCloses \/ PauseGateOpens \/ DeadlinePasses

Next ==
  \/ \E a \in Agents : Call(a) \/ ThreadStep(a) \/ ChildReports(a) \/ ChildCrashes(a)
  \/ ScriptReturns \/ ScriptRaises \/ RunEnd
  \/ Outside

Spec == Init /\ [][Next]_vars

\* Threads run, a child ends within child_timeout_seconds, the event loop reaches
\* its next check.  Nobody is obliged to call, stop, pause or resume.
Fairness ==
  /\ \A a \in Agents : WF_vars(ThreadStep(a)) /\ WF_vars(ChildReports(a))
  /\ WF_vars(RunEnd)

FairSpec == Spec /\ Fairness
-----------------------------------------------------------------------------
(* Properties.                                                             *)

ControlTypeOK ==
  /\ stop \in BOOLEAN /\ paused \in BOOLEAN /\ expired \in BOOLEAN
  /\ frameLock \in [Frames -> Agents \cup {Null}]
  /\ script \in {"running", "completed", "stopped", "error"}
  /\ drained \in BOOLEAN
CounterTypeOK ==
  /\ agentCount \in Nat /\ spent \in Nat
  /\ freeSlots \in 0..Slots
ThreadTypeOK ==
  /\ pc \in [Agents -> PC]
  /\ status \in [Agents -> Statuses]
  /\ attempt \in [Agents -> Attempts]
  /\ outcome \in [Agents -> Results \cup {Null}]
UsageTypeOK ==
  /\ used \in [Agents -> Nat]
  /\ tokens \in [Agents -> Nat]
  /\ accounted \in [Agents -> Nat]
CacheTypeOK ==
  /\ previous \in [Keys -> Seq(Old)]
  /\ current \in [Keys -> Seq(Results)]
  /\ journal \in SUBSET Events

\* Every variable has its type; in particular the semaphore never exceeds its
\* initial value (a BoundedSemaphore would raise) and never goes below zero.
TypeOK == ControlTypeOK /\ CounterTypeOK /\ ThreadTypeOK /\ UsageTypeOK /\ CacheTypeOK

\* No path out of agent_slot() - a normal end, a failure, a halt at the check
\* behind the acquire - loses or duplicates a slot.
SlotConservation == freeSlots + Cardinality(Holders) = Slots

\* However many threads of however many frames race in reserve_agent, a run never
\* owns more agent records than max_agents, and the count is that of the records.
AgentCap == agentCount = Cardinality(Reserved) /\ agentCount <= MaxAgents

\* A frame lock is held exactly by the thread of that frame that is in its
\* reservation: no halt leaves it behind.
FrameLockHeld ==
  \A f \in Frames, a \in Agents :
    frameLock[f] = a <=> FrameOf[a] = f /\ pc[a] \in {"locked", "reserving"}

Hits(k)     == {a \in Agents : KeyOf[a] = k /\ attempt[a] = "none" /\ outcome[a] # Null}
Consumed(k) == SubSeq(Previous[k], 1, Len(Previous[k]) - Len(previous[k]))

\* Two concurrent calls with one fingerprint never share a cached result: the calls
\* answered from the cache hold exactly the entries popped, one each, oldest first.
CachedResultsUsedOnce ==
  \A k \in Keys :
    /\ previous[k] = SubSeq(Previous[k], Len(Consumed(k)) + 1, Len(Previous[k]))
    /\ Cardinality(Hits(k)) = Len(Consumed(k))
    /\ {outcome[a] : a \in Hits(k)} = Range(Consumed(k))

\* What a terminal save keeps for the next resume is what a crash harvest of the
\* journal would restore: each fingerprint's results, cached ones included, once per
\* call.  A skip is the exception: the harvest restores it as the result None, while
\* the terminal cache has nothing for it.
TerminalCacheIsHarvest ==
  drained =>
    \A k \in Keys :
      LET harvest == {e \in journal : /\ e.type = "result"
                                       /\ e.how # "skipped"
                                       /\ KeyOf[e.agent] = k}
      IN /\ Range(current[k]) = {e.result : e \in harvest}
         /\ Len(current[k]) = Cardinality(harvest)

\* The tokens accounted for, each numbered within its call: as many as their sum.
Charged == UNION {{a} \X (1..accounted[a]) : a \in Agents}

\* The budget counter is the sum of what each call accounted for, and a call that
\* completed or failed with a report is accounted for exactly once and in full.
TokensChargedOnce ==
  /\ spent = Cardinality(Charged)
  /\ \A a \in Agents :
       (pc[a] = "done" /\ attempt[a] \in {"value", "uncaptured", "error"})
         => accounted[a] = used[a]

\* No child starts past a stop, a closed gate or the deadline, however long its
\* thread waited for a slot since its previous check.
NoStartPastGate ==
  [][\A a \in Agents :
       (pc[a] # "child" /\ pc'[a] = "child") => ~stop /\ ~paused /\ ~expired]_vars

\* A stop ends the run: every thread unwinds and run_workflow() returns, even when
\* the run is paused and never resumed.
StopEndsRun == stop ~> drained

\* A call that has started settles unless the user keeps the run paused.
CallsSettle ==
  (<>[]~paused) => \A a \in Agents : pc[a] = "called" ~> pc[a] \in {"done", "halted"}

\* "While paused, no new subagents or subsequent pipeline stages start (those already
\* running can finish)" (TECHNICAL.md): a child that runs when the user pauses for good
\* still reaches its end.
RunningChildrenFinish ==
  (<>[]paused) => \A a \in Agents : pc[a] = "child" ~> pc[a] # "child"
=============================================================================
