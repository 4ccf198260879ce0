# Verification of hermes-dynamic-workflows

TLA+ models of the workflow engine, the child runner, the run manager and the
services around them of `hermes_dynamic_workflows`, TLC configurations that check
them on small instances, and TLAPS proofs of every safety property the passing runs check, for
every instance.
All paths below are relative to the package `src/hermes_dynamic_workflows/`
unless they name a document of the repository root (`README.md`,
`TECHNICAL.md`).

## 1. The system

A workflow is a Python script whose `agent()`, `parallel()`, `pipeline()`,
`workflow()` and `codex()` calls start child agents. One process runs any number
of workflows in the background; other processes watch and control them through
files.

| Part | State | Operations | Talks to |
|---|---|---|---|
| Engine (`engine/context.py`, `engine/api.py`, `engine/runtime.py`) | stop event, pause gate, slot semaphore, agent and token counters (under the context lock), the frames with one lock each, the agent records | `agent()`, `codex()`, the combinators, nested `workflow()`, `check_runtime`, `run_workflow` | child runner (calls), resume cache, manager (callbacks `on_update`, `on_journal`) |
| Resume cache (`engine/cache.py`) | unconsumed results of the resumed run, results of this run | `get`, `put` | engine; persisted by the manager |
| Child runner (`child/runner.py`) | `_active_children`, `_skipped_children`, the approval coordinator | `run`, `skip_child`, `interrupt_all` | shared core (external), worktrees, structured-output broker, engine (`on_start`, `on_update`) |
| Worktrees (`child/worktree.py`) | a git worktree and branch per isolated child | `create_workspace_lease`, `cleanup` | git |
| Structured output (`child/structured_output.py`) | expectation, attempts and accepted result per child | `register`, `submit`, `peek`, `clear` | runner, the child's tool calls |
| Approvals (`run/manager.py`, `child/runner.py`, `adapters/hooks.py`) | the entry of a launch in the host's queue, the coordinator's lock, what was granted for the session | `_approve_launch`, the callback of a CLI session, the `pre_tool_call` hook | host (external), child threads |
| Presets and tool surface (`child/presets.py`, `engine/api.py`, `child/runner.py`) | none kept: a surface is carried from the preset to the child | resolve, compose, resolve again, configure, specialise | engine to runner |
| Codex stages and combinators (`engine/api.py`, `engine/codex.py`) | stage records, topologies of a frame, the slot of each stage | `codex()`, `parallel()`, `pipeline()` | launcher process (external), engine context |
| Run manager (`run/manager.py`) | `_runs`, and per run a record, lock, stop event, pause gate, runner, thread, bubble and delivery flags | launch, stop, pause, resume, restart, `skip_agent`, reap, auto-resume, delivery | engine, runner, store, control queue, gateway |
| Store (`storage/store.py`) | one JSON file per run, replaced atomically; `journal.jsonl` | `save_run`, `load_run`, `list_runs` | every process |
| Control queue (`storage/control.py`) | request and response files per owner | `request`, `process_once` | dashboard to manager |
| Transcripts (`run/transcripts.py`) | per child what was read last, and the transcript file | `flush`, `stop` | the host's session database (external) |
| Dashboard (`tui/app.py`, `tui/model.py`) | list, cursor, screen, open run, kept views | poll, reload, draw, keys | store (reads), control queue (writes) |
| Adapters (`adapters/`) | none of their own | tool, slash command, gateway buttons, hooks | manager |
| Rendering (`view/`, `tui/render.py`) | none | records to text | dashboard, gateway |
| Sandbox, schemas, config (`engine/sandbox.py`, `core/`) | none | validation | engine, runner |

What is hard in it:

- **Threads.** Every `agent()` call is a worker thread. A call passes the frame
  lock, the context lock, the slot semaphore and four `check_runtime()` points;
  stop, pause, resume and the deadline change between any two of them.
- **Callbacks.** A running child reports through `on_child_update`, which takes
  the frame lock in the child's own thread.
- **Read, then write.** The run thread reads the gate and the stop event before
  it takes `managed.lock` to write the status it has computed.
- **Late and lost answers.** Skips race with a child's end, a stop with a
  child's registration, `restart()` with a thread that does not end in time.
- **Crashes.** A killed process leaves a record that says `running` and a
  journal; another process reaps both and may resume.
- **Deliveries.** Sends and edits time out after they may have arrived, and two
  threads may come to complete the same run.
- **Requests that wait.** A request file outlives the patience of its sender, and
  the run it is about moves on.
- **Shared tools.** One tool entry and one broker serve all children with a schema;
  a child that was given up may still call them.
- **Partial reads.** Transcripts and dashboard read what is new since the last time
  and must not be told apart from a reader of everything.

What makes each part correct is stated with its module in sections 2 and 3. The
hazards are listed in `PROJECT.json`, each at its line, with the properties about
it; four have none and say why.

## 2. Modules

| Module | Models | Extended by |
|---|---|---|
| `WorkflowEngine` | one run of the engine: `agent()` threads of several frames, resume cache, journal, stop/pause/deadline | `MCWorkflowEngine`, `WorkflowEngineProofs` |
| `ScriptCalls` | the script beside `agent()`: `codex()` stages, `parallel()`, `pipeline()`, topologies | `MCServices`, `ScriptCallsProofs` |
| `ChildRegistry` | the children of one run in the child runner, skips and a stop | `MCChildRegistry`, `ChildRegistryProofs` |
| `StructuredOutput` | the children with a schema: tool entry, broker, conversations | `MCServices`, `ChildServicesProofs` |
| `ChildTools` | which tools a child gets, from the preset to its definitions | `MCServices`, `ChildServicesProofs` |
| `Approvals` | who is asked before a launch or a child's flagged command | `MCServices`, `ChildServicesProofs` |
| `AbstractRun` | what a run promises to those who control it: status and phase | `ControlQueue`, `ResultDelivery`; implemented by `RunLifecycle` |
| `RunLifecycle` | one run under the manager: record, thread, control operations, restarts | `MCRunDashboard`, `MCRunLifecycle`, `RunLifecycleProofs` |
| `ControlQueue` | dashboards, request and response files, the listener and its handler, over `AbstractRun` | `MCControlQueue`, `ControlQueueProofs` |
| `ResultDelivery` | bubble, edits and the result message of one run, over `AbstractRun` | `MCControlQueue`, `RunViewsProofs` |
| `Recovery` | several processes over one store: run files, journals, crashes, reaping, harvest, resumes | `MCRecovery`, `RecoveryProofs` |
| `Transcripts` | the transcript file of one child and the host's database | `MCServices`, `RunViewsProofs` |
| `Dashboard` | the terminal dashboard and the run files | `MCRunDashboard`, `RunViewsProofs` |

They meet at narrow interfaces. `WorkflowEngine` sees a child as one step
that ends with a value, a missing structured output, a skip, an error or a
crash: `ChildRegistry` shows which of these verdicts `run()` gives, and
`StructuredOutput` how a conversation ends. `RunLifecycle` sees the engine as
something that starts agents behind an open gate only, halts on a stop and returns
after a last check: `NoStartPastGate` and `StopEndsRun` of `WorkflowEngine` are
those facts. `ChildRegistry` starts a child only after the engine's last check,
which is why its `Lease` asks `~stopSet`. `Recovery` sees a run of the engine as
calls that are answered from the cache or by a child, and a cache as a bag; that the
terminal cache and the journal agree, which it takes as one step, is
`TerminalCacheIsHarvest` of `WorkflowEngine`.

The queue and the delivery do not see the run thread, the gate and the windows
between reading and writing. They EXTEND `AbstractRun`, and `RunLifecycle` states,
with an instance of it and the refinement mapping `Phase`, that it implements it
(`ImplementsRun`, checked and proved). Its steps are deliberately weak: the thread's
first write may be "running" or "paused" whatever the status is, because that is what
the window of `_run_thread` allows.

`MCServices`, `MCControlQueue` and `MCRunDashboard` check several modules in one run: a
behaviour is one of one of them, chosen by the variable `part`, and the variables of
the others stand still. Their next-state relation and their fairness are those of the
parts. Nothing is claimed of two parts together.

Definitions that begin with "Mutant:" in their comment belong to no
specification. Each is a plausible mistake in the operator that follows it, kept
to show that a property notices the mistake.

### WorkflowEngine

`pc[a]` follows `_agent_sync` of call `a`; one step lies between two points that
another thread can observe:

| `pc` | Code |
|---|---|
| `called` | at the first `_check_deadline()` (api.py:122) |
| `validated` | options checked, in front of `with self._lock` (149) |
| `locked` | frame lock held, at the check inside `reserve_agent` (context.py:116) |
| `reserving` | check passed, in front of the context lock (117) |
| `lookup` | record written, frame lock released |
| `hit` | a cached result was popped, not yet put back and journalled |
| `queued`, `acquiring`, `acquired` | at the check of `agent_slot`, in the semaphore's queue, at the second check (138-141) |
| `child` | inside `runner.run` |
| `returned`, `accounted` | the slot is released; tokens charged |
| `done`, `halted` | returned or raised an ordinary error; raised a `WorkflowHalt` |

The blocking wait of the pause gate is a guard: `RuntimePasses` needs an open
gate, `RuntimeHalts` is enabled by a stop even when the gate is closed. A halt
unwinds what the thread holds (`UnwindLocks`): the `with` statements around it.
Options, prompts, schemas and models are abstracted to the fingerprint `KeyOf`,
results to the name of the call that produced them, a child's usage to a number.

The script is any caller: it may call, return when nothing it awaited is live,
or raise. A frame is given by its lock only.

### ScriptCalls

Script and lanes are coroutines of one loop, stages are threads. `spot` is what the
script awaits, `lane[l]` where a thunk of `parallel()` or an item of `pipeline()` is,
`callAt[c]` where the `codex()` call of a coroutine is: validated in the loop
(`called`), `looking` for a cached receipt, then as an `agent()` call through
`agent_slot` into `polling`, which watches the launcher every 50 ms for a stop, a
timeout or an exit. `records` are the stage records and `shapes` the topologies of
the frame; a direct call continues the chain of the one before it
(`OpenSequential`). A `WorkflowHalt` is `halted`: it passes through a lane's except
clause, `gather()` raises the first one and leaves the other lanes behind
(`HelperHalts`), whose threads go on taking steps here after the script is over. An
error makes its lane None or is caught. `agent()` in a lane, whose locks and slots
are `WorkflowEngine`'s, is not repeated.

### ChildRegistry

`pc[c]` follows `run()`: `leased` (worktree made), `created` (child and tools
made, `on_start` reported), `running` (in `_active_children`), `returned` or
`raised` (`_run_child` over), `judged` (the verdict is decided by
`_consume_skipped`), `unregistered`, `done`. A failure before the registration is
outside the code's `try`, so it keeps the lease: verdict `setup`. A lease cleanup
that raises replaces the result: verdict `lost`. `skip_agent` has no caller in
the adapters at this commit; it is part of the manager's interface and tested
there. `skipper[s].mark` remembers whether a skip's mark came while the child ran
or after; it is read by properties only.

### StructuredOutput

`entry`, `users` and `owned` are the tool in the host's registry and its reference
count; `expected`, `tries`, `captured` and `exhausted` the broker's dictionaries. A
submission is three steps, as its three critical sections: `CountCall`, then
`StoreCall` or `RejectCall` for the attempt in `inCheck`. `kid[k]` follows
`_run_child` and the scope around it, `convs` and `turns` the conversations and the
turns left. A child in `bothered` was interrupted or left behind by a timeout; its
threads may submit when it is gone (`Lives`), which is why the property on what is
left behind excepts it. `Judge` is the order of the questions after a conversation.

### ChildTools

One step per function on the way: `_resolve_agent_spec` for each origin of a preset
(runtime, Markdown, JSON, built-in), which lays the call's options over it
(`Compose`) and resolves toolsets; `Prepare`, where `run()` resolves what is left of
them again; `ConfigureTools`, or `ConfigureByHand` when the assembly fails;
`Specialize`. A field is absent, null or a list, because the origins treat null
differently (`Declares`). `Granted`, `Installed` and `Permitted` state what a child
should get from the call and the preset alone, as `README.md:222-231` describes it.

### Approvals

`launch` follows `_approve_launch` through the gateway's queue or the CLI prompt, with
its timeout between the user's tap and the removal of the entry. `asker[a]` follows a
flagged command through the callback of a CLI session, whose coordinator prompts for
one child at a time, or through the hook. The two gates resolve the policy in two
files (`CallbackPolicy`, `HookPolicy`). Every configuration is one of `Settings`.

### RunLifecycle

Each operation of the manager decides and writes under `managed.lock`, so it is
one step. `_run_thread` does not: `ReadGate` and `WriteStarted`, `ReadStop` and
`WriteTerminal` are separate steps with the value in `seen`. `raced` remembers
which of these two windows an operation fell into, `missed` that a stop found no
runner; both are read by properties only. `wait(timeout=5)` in `restart()` may
end with or without the thread.

### ControlQueue

A client writes a request with the status it shows, waits 1.5 s and gives up or
collects the response. The listener lists the files, takes them in the order of their
names and works on each one: `Check` copies the status and compares it, `Act`
and the steps of the restart take effect on the run under its own lock, so the run
may move in between (`RunMoves`). A response that cannot be written ends the pass and
leaves the request, a removal that fails is swallowed and leaves it too: both
execute it again. `effects`, `halfway` and `faulty` are read by properties only. A
dashboard's picture may be older than the status it sends; a change since then is the
same as one between the sending and the handling, which the model has. "Pending" is
no answer (`told` stays "none").

### ResultDelivery

`worker` is the launching thread and then the run's thread, `loop` the gateway's
event loop, which runs the callbacks of seed, edits and sends one after another.
`seed` is the message that becomes the bubble, `requested` and `active` the flags
under `managed.lock` by which the two threads agree who completes the run, `edit[e]`
the edit of each party (captured under the lock, scheduled after it). The result
message is claimed by `sendInFlight` and `delivered`. Waits of 15 s may end with or
without the answer; what was given up may still arrive (`LateArrival`). `broken` is
a seed that failed after `progress_requested` was set. How a message is worded, and
which adapter carries it, is left out.

### Recovery

`proc[p]` follows `get_run_manager()`: `reaping` (in `reap_orphans`), `resuming`
(in `auto_resume_orphans`), `up`, `dead`. A restarted process is another process,
as its PID is another one. `mem` is the status in the memory of the process that
executes a run, `disk` and `saved` are status and `agentCache` in its file,
`journal` the results in its journal. A reaper lists (`Boot`), and for each listed
run decides on the listed owner and loads the record again (`Reload`,
`PassOver`); `Mark` harvests and saves what it holds in `holding`. Others act
between any two of these steps. The journal and the file are read in one step by
`Mark`, because the owner of what it marks is dead. `previous`, `current` and
`fresh` are the cache of an executing run and the results in it that a child
computed.

A run whose process has no control listener has no owner in its record; `Owned`
excepts these runs from the properties, and a reaper may find them alive or not.
Unconstrained: whether auto-resume is on, the age of a run, whether its script is
still there (`PassResume`). Assumed: file operations succeed (`get_run_manager`
swallows an error, which then ends that reaping), a file is replaced in one step,
and a PID is not used again while a record names it (the code gives that case up,
`run/manager.py:487-489`). `markedBy`, `raced`, `settled`, `late` and `found` are
read by properties only.

### Transcripts

`owner` and `enabled` are the host's database: the session of each message and its
`active` column; a compressed session continues in another one. `mode`, `known`,
`states`, `lastId` and `signed` are the fields of a target. `Read` is one read under
`_flush_lock`, incremental or in the fallback mode; it updates that memory before
`Write` has changed the file, and either may fail. The test for append-only changes
compares the aggregates of the code (count, least and greatest identifier, count and
sum of the active ones). `MessageRows` are the messages in the order of their
identifiers, which is their rank (`Nth`). `seen` is what the last read would have given if it had read
everything; `torn` that a write failed since the last rewrite.

### Dashboard

One thread: `polling`, the reload file by file (`Stat`, `ReadRecord`; other processes
save between any two), `FinishRefresh`, the look at the version, `drawing`, `key`.
Views of runs that are over are kept under the signature seen before the read. The
list is sorted by the last save, so positions move; `cursor`, `runIndex` and `opened`
follow. A signature is the number of saves: two saves of one file are never taken for
the same (time in nanoseconds and size in the code). Groups, phases and agents within
a run are not modelled.

## 3. Runs

| Run | Configuration | States | Shows |
|---|---|---|---|
| `engine_safety` | 4 calls, 2 frames, 1 slot, cap 3, budget 2, 2 cached results | 500,146 | slots conserved, cap and budget respected, cached results used once, the terminal cache equals what a crash harvest restores, tokens charged once, no child starts past stop/pause/deadline |
| `engine_liveness` | 3 calls, 2 frames, 1 slot, fair threads | 76,354 | a stop ends the run, paused or not; a call settles unless the user keeps the run paused |
| `engine_pause` | the same | violation | a running child may not finish while the run is paused |
| `child_registry` | 2 children, 2 skips, 1 stop, fair threads | 307,273 | an early skip decides the verdict, leases return, interrupts are delivered, a stop drains the runner |
| `child_skip` | 2 children, 1 skip | violation | a late skip is answered True and ignored |
| `child_stop` | 2 children | violation | a stop misses a child that registers late |
| `run_lifecycle` | 1 run, 2 restarts, any number of stops, pauses, resumes; or the dashboard below | 432,564 with the dashboard | record and gate agree, a stop decides, restarts never overlap, a stop ends the run, the run implements `AbstractRun` |
| `run_pause` | 1 run, 1 restart | violation | agents start under a record that says paused |
| `recovery` | 3 processes, 2 runs, 2 calls of one fingerprint, 1 auto-resume | 429,547 (up to symmetry) | live and finished runs are not reaped, the harvest is exact, a resume computes nothing twice, one mark per orphan, a boot leaves no orphan |
| `recovery_crash` | the same | violation | a resume by a process that had booted before the crash loses finished results |
| `control_queue` | 1 dashboard, 2 requests, 1 failing write or removal, fair listener; or the delivery below | 1,028,264 with the delivery | what a sender was told is what its request did, an action takes effect only on a run in the status its sender saw, every request is answered and removed |
| `services` | one part per behaviour | 1,070,543 | the five parts below |

The parts of `services`, with the second ones of `control_queue` (delivery) and of
`run_lifecycle` (dashboard):

| Part | Instance | States | Shows |
|---|---|---|---|
| delivery | 1 run | 2,226 | one final snapshot, one result unless an answer was lost (`OneSnapshotOneResult`); every run that ends is heard of (`ResultSettles`) |
| structured | 2 children, 2 retries, 2 turns, one of them submits 3 times | 178,927 | the shared tool is there as long as it is needed, nothing is left in the broker, a child answers only with one of its first valid submissions and is not given up after one was stored (`StructuredHolds`) |
| approvals | 2 children, 2 descriptions, every configuration | 144,701 | one question at a time and none about what was granted, a gated launch only on a choice made in time, the two gates agree where nobody can be asked (`ApprovalsHold`) |
| transcripts | 3 messages, 2 deletions or marks, 1 failing read, 1 failing write | 288,926 | the file is what a reader of everything would have written (`TranscriptFollows`) |
| dashboard | 3 runs in a list of 2, one of them saved twice | 425,552 | the open run stays open and a key acts on what was drawn (`DashboardHolds`); the list shows the last saves (`DashboardCatchesUp`) |
| script | 2 lanes, 2 stages, 1 slot, 2 helpers or direct calls | 393,463 | a completed script swallowed no halt and left nothing unsettled, topologies tell the truth, slots return (`ScriptHolds`) |
| tools | 5 toolsets, 36 presets of each origin, 12 surfaces of the call | 64,526 | a child has exactly the tools its preset and its call permit (`ToolsHold`) |

**Bounds.** `engine_safety`: two frames are needed for a race between two frame
locks, two calls in one frame for contention on one lock, three calls of one
fingerprint against two cached results for a race on a bucket that also runs dry;
one slot makes every child wait for every other; four calls against a cap of
three, and a usage of 2 against a budget of 2, let both limits be hit, each
before and after the other. `child_registry`: two skips meet on one child while
the other one is a bystander. `run_lifecycle`: operations are unbounded because
their effects repeat; `MaxStarts = 2` bounds the agents counted. `recovery`: an
owner that dies and two reapers need three processes, a resume needs two runs,
and two calls of one fingerprint let a crash come between a result that is
harvested and one that is not; every process has a listener here, and the proofs
cover any choice. `control_queue`: two requests of one dashboard wait behind each
other once it has given the first one up, and one fault repeats one of them; one
terminal status is enough, as no property tells them apart, and the proofs cover any
number of each. `services`: three submissions against two retries use up a child's
attempts and leave one refused, while the other child shares the tool; three messages
and two edits reach every disagreement between the aggregates and the rows that a
swap of two messages does not need (the swap, two messages for two others with the same
sums, is what `restored` excepts); a list of two that three runs compete for pushes
one out and brings it back; two lanes and one slot make a stage wait for one that is
left behind; the presets and options contain each form of a field and a wildcard, a
blocked toolset and an empty list. Processes are interchangeable, so `recovery` uses
symmetry (it checks invariants only); the other runs use none. No state constraint is used. Deadlock checking is off in every
configuration because a run that is over takes no step.

**Fairness.** Weak fairness of each thread's own steps: CPython threads are
scheduled, locks and semaphores are eventually granted, and the pause gate polls
every 0.1 s. Weak fairness per thread is enough because each wait is freed by
somebody who holds it for finitely many steps, and a bounded number of calls
competes. The liveness instance has three calls, of which one is answered from the
cache and two compete for the slot. `ChildReports` and `RunChild` are fair because of
`child_timeout_seconds`; `ScriptHalts` because the event loop reaches its next
check or awaits a call that halted; `EngineHalts` because `StopEndsRun` holds of
the engine. `ListenerStep` is fair because the listener polls every 0.1 s and waits
for at most `restart()`'s join. In the delivery, the launching and the run's thread
run on and the gateway answers every send and edit in the end; the run ends because
of `StopEndsRun` and `StopEnds` or its own script. The dashboard's loop never waits
(`LoopTurn`), and a poll is due again and again: whether it is due at a turn is the
clock's choice, so `Reload` has strong fairness. Nothing obliges the user to call, stop, pause, resume or skip, and no
clock is obliged to pass the deadline.

**Properties with an exception.** `TerminalCacheIsHarvest` excepts skips: a crash
harvest restores a skip as the result `None`, the terminal cache has nothing.
`GateAgreesWithRecord` and `StopDecides` except the two windows of the run
thread; what the first window costs is the run `run_pause`, the second one turns
an accepted stop into `completed`. `EarlySkipWins` excepts a mark that a
concurrent skip of the same child took back, and a lease cleanup that raises.
`CallsSettle` assumes that the run is not paused for good, which `engine_pause`
shows to be necessary.

`HarvestExact`, `LiveRunsUntouched` and the others of `Recovery` except runs
without an owner; `MarkedOnce` excepts the run that two reapers had loaded before
either saved it: both then mark it, with the same record, and with auto-resume on
both may resume it. `ResumeReusesResults` starts from a record that is final or
reaped; `recovery_crash` shows what a resume finds before that.

`AnswersAreTrue` excepts a request whose own response or removal failed (it is
executed again) and a restart that has stopped the run and then failed, which is
answered with False. `ActsOnWhatWasSeen` excepts a run that moved after the copy.
`OneSnapshotOneResult` allows a second result when the answer of the first was lost,
`ResultSettles` a bubble whose final edit was lost or overtaken by a live one, and
excepts a seed that broke after it was announced. `TranscriptFollows` excepts the
marks of a message that was made active again, and a file torn by a failed write until
the next rewrite, which in the fallback mode may not come. `DashboardCatchesUp`
excepts a save between a reload and the look at the version that follows it.
`StructuredHolds` lets a child that was interrupted or timed out leave something in the
broker; `ScriptHolds` lets a topology be closed with pending members after a halt.

### Divergences found

1. `engine_pause`: `reserve_agent()` waits on the pause gate with the frame lock
   held (`engine/api.py:149-150`), and a running child of that frame needs the lock
   for its last update (`engine/api.py:205`). "Those already running can finish"
   (TECHNICAL.md:460) does not hold while a sibling is in its reservation.
2. `child_skip`: the skip mark is consumed before the child leaves the registry
   (`child/runner.py:283`, `306`); a skip in between returns True and has no effect.
3. `child_stop`: `interrupt_all()` copies the registry (`child/runner.py:509`); a
   child that passed its last check before the stop and registers later is not
   interrupted.
4. `run_pause`: the start status is read before the lock is taken
   (`run/manager.py:810`), so a resume in between leaves `paused` over an open gate.
5. `recovery_crash`: orphans are reaped when a process builds its manager
   (`run/manager.py:2456-2467`) and at no other time. A process that was up when
   another one crashed can resume the crashed run, whose file still says `running`
   and has no `agentCache` (`run/manager.py:219-220`); it runs again what is in the
   journal, against "a crash loses nothing that already completed" (README.md:105).

### Noted without a run

Met while modelling, and not settled by a property here; the first four are hazards
without a property in `PROJECT.json` or exceptions above.

- A seed whose send raises after `progress_requested` is set leaves it set with no
  callback to come (`run/manager.py:2007-2014`); the run's thread then leaves the
  result to that callback (2125).
- The deadline of a codex stage is the run's without the paused seconds
  (`engine/api.py:447`), while `README.md:60` excludes time on pause.
- `resolve_agent_type` tries the name as a path in every directory before it looks
  for declared names (`child/presets.py:103`), `list_agent_types` does not: the listed
  and the chosen preset may differ.
- A step that fails between the lease and the `try` of `run()` keeps the lease
  (`child/runner.py:239`).
- What is discovered depends on how long discovery was waited for
  (`engine/api.py:1110`), so the fingerprint of a call, and with it a resume, may
  differ from one process to the next.
- `_terminate_process_group` returns when the launcher has exited
  (`engine/codex.py:212-216`): what it has spawned is left alone.

## 4. Proofs

All theorems are of the form `Spec => []P`, `Spec => [][A]_vars` or, for
`ImplementsRun`, `Spec => Run!RunSpec`, for every value of the constants that
satisfies the module's named `ASSUME` (`EngineAssumption`: finitely many calls, at
least one slot, natural limits and usages, distinct result names;
`RegistryAssumption`; `LifecycleAssumption`; `RecoveryAssumption`: natural counts, and
`Null` is none of the other values; `RunAssumption`: no terminal status is an active
one; `ControlAssumption`: requests are named by numbers, which give their order;
`ApprovalsAssumption`: there is a description; `ChildToolsAssumption`:
structured_output is the one tool of its toolset, which nobody requests, excludes or
has by default, and the wildcard names no toolset; `ScriptAssumption`: finitely many
lanes, natural bounds, at least one slot; `StructuredAssumption`: natural bounds, and
at least one attempt, which the code sets to 5; `DashboardAssumption`: natural bounds
and a list of at least one; `TranscriptAssumption`: natural bounds). TLC evaluates them
in the runs.

**WorkflowEngineProofs.** `TypeCorrect`, `SlotsConserved`, `AgentCapRespected`,
`FrameLocksReleased`, `GateBeforeChild`; and `CachedResultsTaken`, `HarvestAgrees`,
`TokensCharged`. `TypeOK` says `freeSlots \in 0..Slots`,
which no step preserves by itself: a release must know that a slot was held. The
inductive invariant is therefore

    IInv == TypeOK /\ RecordInv /\ ChargeInv /\ SlotConservation /\ AgentCap

where `RecordInv` ties a call's record to its place in the code (no record before
`lookup`, which makes the count of records change exactly with the counter) and
`ChargeInv` keeps what a record shows at least what is charged (the code's
`max(0, ...)`). A step that takes or gives a slot moves one call in or out of
`Holders`; the lemmas on cardinality turn that into an arithmetic fact.
`FrameLockHeld` ties each lock to the program counter of its holder and is
inductive as it stands, given the types.

The last three theorems are about data and use `IInv` beside

    DataInv == PathInv /\ UsedInv /\ CachedResultsUsedOnce /\ HarvestInv /\ BudgetInv

`PathInv` says that a call has no outcome before it is answered, so that a hit adds one
call to `Hits` and takes one entry off its list, and that a journal event and an entry
of the cache are always of a new call. `HarvestInv` is `TerminalCacheIsHarvest` without
its premise: the cache and the journal get a result in one step, and agree all the time.
What was charged is counted as a set of numbered tokens (`Charged`), whose cardinality
grows by what one call adds: no induction over a sum is needed.

**ChildRegistryProofs.** `EarlySkipsWin`, `SkipsHitTheirTarget`, `LeasesComeBack`
from an invariant `RInv` that says, for each child, what its mark, its verdict and
the skips that marked it have to do with each other at every place of `run()`.
`RegistryTypeCorrect` follows from it. That only the named child is skipped
(`SkippedOnlyWhenAsked`), like `FrameLockHeld` and `TerminalIsFinal`, is stated by a
theorem and no run.

**RunLifecycleProofs.** `GateAgrees`, `StopIsDecisive`, `StopMissesNoChild`,
`RestartsNeverOverlap`, `TerminalStays`, `LifecycleTypeCorrect` and
`RunImplementsAbstractRun`, from

    LInv == TypeOK /\ SeenInv /\ GateInv /\ EndInv /\ RunnerInv /\ RestartInv

`SeenInv` says what the thread may hold in `seen`, `GateInv` and `EndInv` what
that value implies about the gate and the stop event unless an operation raced,
`RunnerInv` that the engine runs only with a runner, and that a run whose stop
missed it is stopped with no agent started,
`RestartInv` that a restart about to launch has seen a terminal status. For the
refinement the lemmas `ThreadStepMaps` and `OperationMaps` map each step to one of
`AbstractRun` or to a stutter: `SeenInv` gives the status that is written,
`RunnerInv` the phase it is written in.

**RecoveryProofs.** `RecoveryTypeCorrect`, `LiveRunsAreSafe`, `HarvestIsExact`,
`FinishedStaysFinished`, `BootReaps` from

    RInv == TypeOK /\ KnownInv /\ FileInv /\ HoldInv /\ FoundInv /\ ListInv

`HarvestExact` is not inductive: a second reaper adds the journal to a cache it
loaded earlier. `HoldInv` says that what a reaper holds is cut off (its owner is
dead and had not finished) and has an empty cache, `FileInv` that an active file has
an empty cache and an interrupted one the journal of a dead run, and the lemma
`CutOffStays` that a dead run's journal does not change. The lemmas `StepKinds` and
`CallKinds` reduce every step to what it does to one run and to one of its calls.
`OneMarkPerOrphan` adds `MarkInv` (one holder, and no mark yet, unless raced).
`ResumesReuse` adds `ReuseInv`: the results a resumed run has taken and those it
can still take cover the results of the run it resumes, whose count is frozen, and
what is saved is at least what was returned.

**ControlQueueProofs.** `ControlTypeCorrect`, `AnswersTrue` and
`ActsOnlyOnWhatWasSeen`. `AnswersAreTrue` says nothing of a request on its way;
`QInv` adds where the listener is against its listing and the files (`PlaceInv`) and,
for each request without a fault, what it has done and what has been said of it at
each place (`RequestInv`): none of it before it is taken, an effect only behind the
check, and a response that is true before it is written. `SeenInv` adds that the
handler goes on only with a copy that equals what the request expects.

**ChildServicesProofs**, one section per module.

*Approvals:* `ApprovalsTypeCorrect` and `ApprovalsCorrect`. The queue entry needs
`LaunchInv`, which says while of which places it may be there; that the two gates agree
is a lemma on the two policies, in every configuration in which nobody can be asked.

*ChildTools:* `ToolsCorrect`. The invariant `CInv` says of each place what the surface
and the tools were computed from; the property is then a fact about the operators:
`ResolvingTwice` (resolving what was resolved changes nothing, although an empty list
means "not given" to the second resolution), `ReachedIsGranted` (the result is what the
preset and the call grant) and `FilterPermits` (the merged lists let through what both
permit).

*StructuredOutput:* `StructuredOutputShared`, from

    SInv == StructuredTypeOK /\ RegistryInv /\ \A k \in Kids : ChildInv(k)

`RegistryInv` says that the reference count is the number of children in the scope and
the entry is ours exactly while it is not zero; a child enters, leaves or moves within
the scope (lemmas `LeaverCounted`, `ScopeAfterMove`, `SameScope`). `ChildInv` says at
each place of a child what the broker may hold of it: nothing before it is registered,
nothing after it was cleared unless a thread of it was left behind, and, while its
conversation is judged, what a valid submission stored.

**RunViewsProofs**, likewise.

*ResultDelivery:* `ResultOnce`, from `DInv`: the types, `SnapshotInv` (the bubble is
active only between its seed's landing and the final snapshot), `ClaimInv` (a thread
that sends has the claim, alone, and the result is undelivered until its answer) and
`ArrivalInv` (with no answer lost, what arrived is what was delivered). `ResultAfterEnd`
says when: no final snapshot, attempt or arrival before the record has a terminal status.
Every step of the delivery moves the run only as `AbstractRun` allows
(`DeliveryKeepsRun`), which never leaves a terminal status (`OverIsFinal`), and until
then no editor or sender is past its question whether the run is over (`SealInv`). No
run checks this one: it is proved only.

*Dashboard:* `DashboardKeepsTarget`. The property is inductive with the types and
`ListInv`; the work is in the operators on lists: a run of the list is found again at
the position chosen for it, and a clamped cursor is in range.

*Transcripts:* `TranscriptComplete`, from

    TInv == TargetTypes /\ FileTypes /\ MemoryInv /\ OutcomeInv

The counts a target remembers do not say which messages were read. `MemoryInv` says
that they are those of some sets of messages, of which `seen` is the rows, and that of
the messages up to the last identifier nothing has come since: then equal counts mean
equal sets (`NothingMissing`, by cardinality), and equal counts of the marked ones mean
equal marks unless one was made active again. That the rows of the old messages and
those of the new ones, one after the other, are the rows of both (`MarkedOfBoth`) rests
on ranks: the n-th identifier of a set is the one with n members up to it, there is one
for each n (`NthExists`, an injection into as many positions is onto), and appending
larger identifiers changes no rank (`NthOfBoth`). `OutcomeInv` then says that the file,
when the flush that is under way ends well, has what `seen` has. The proof compares the
counts only; least and greatest identifier and the sum are not needed for it.

**ScriptCallsProofs.** `ScriptTypeCorrect` and `ScriptCorrect`, from

    SInv == SpotTypes /\ RecordTypes /\ SpotInv /\ RecordInv /\ ShapeInv /\ EndInv

and `SlotInv`. `SpotInv` says which coroutine can have a call under way and where a
halt can be; `RecordInv` that every pending record is the stage of one call, which
goes on or was halted; `ShapeInv` that only the last topology is open, that it is
while the script is inside it, and that a closed one has no pending member before a
halt. A step of a call reserves a record, marks its own or leaves them alone (lemma
`CallStepKinds`), and all other steps leave them alone (`OtherSteps`); a topology
is closed only when no call has a stage, or after a halt (`NoneLeft`).

**Only model-checked.** Liveness under fairness, which is out of the prover's reach
(`StopEndsRun`, `CallsSettle`, `InterruptsDelivered`, `StopDrains`, `StopEnds`,
`DashboardCatchesUp`, `RequestsSettle`, `ResultSettles`). Nothing is proved of the two
sums the transcripts' test compares (`SumOf` is a fold), and nothing needs it.

## 5. Not modelled, and the plan

Not modelled for good:

- Rendering (`view/`, `tui/render.py`), prompts, progress lines, log texts: pure
  output.
- The script sandbox and the schema and configuration checks: validation of data
  without a state. The check a sandboxed loop makes is a `check_runtime` of the models.
- The parsers of presets and the search of their directories; `ChildTools` starts from
  the preset that was found.
- The git commands of a worktree; `ChildRegistry` has its being there and its loss.
- The shared core, the gateway, the session database and the codex launcher, which are
  outside the repository; the models contain what the code in it sees of them. What a
  launcher has spawned and left behind is not.
- The adapters of the tool, the slash command and the buttons, which parse arguments
  and call one operation of the manager each; host access and the entry point.

Left out so far, in the order in which it would add most:

1. Nested `workflow()` as an operation of `ScriptCalls` (its frames and locks are in
   `WorkflowEngine`), `phase()` and `log()`.
2. The capture of the parent's session at launch, the metadata file beside a
   transcript, several targets of one exporter.
3. Phases and agents within a run in `Dashboard`, and a refresh that fails.
