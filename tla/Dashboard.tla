------------------------------ MODULE Dashboard ------------------------------
(***************************************************************************)
(* The terminal dashboard: a loop of one thread that polls the run files,    *)
(* draws and handles a key (tui/app.py), over a repository that parses the   *)
(* files, keeps the views of runs that are over, and never locks the store   *)
(* (tui/model.py).  Other processes save records whenever they like; each    *)
(* save replaces the file and makes it the newest of the directory.          *)
(***************************************************************************)
EXTENDS Naturals, FiniteSets, Sequences

CONSTANTS Files,     \* the runs whose records are in the store
          MaxSaves,  \* bound: saves of each record
          Limit      \* the runs that load() lists

ASSUME DashboardAssumption == MaxSaves \in [Files -> Nat] /\ Limit \in Nat \ {0}

VARIABLES
  saved,       \* the version of each file, 0 if it is not there
  live,        \* the runs with an active status in it
  newest,      \* the files, the last saved first (list_run_paths)
  at,          \* where the loop is
  listing,     \* the paths that load() has not looked at yet
  statted,     \* the signature of the first of them
  loaded,      \* the views load() has made so far
  thenVersion, \* this refresh is followed by a look at world_version()
  cached,      \* _view_cache: the signature and the version of each view in it
  shown,       \* controller.workflows
  hasActive,   \* controller.has_active
  lastVersion, \* last_version of the loop
  screen,      \* state.view
  cursor,      \* state.list_cursor, in a list with every group open
  runIndex,    \* state.run_index
  opened,      \* the run that was opened, until it leaves the list
  restarted,   \* newRunId of the response of a restart, until the refresh is over
  drawn,       \* the run that the last frame showed as the target of the next key
  slipped      \* a save came after a refresh had begun and before its look at the version

storeVars     == <<saved, live, newest>>
loadVars      == <<listing, statted, loaded, thenVersion, cached>>
stateVars     == <<shown, hasActive, screen, cursor, runIndex, opened, restarted>>
dashboardVars == <<storeVars, at, loadVars, stateVars, lastVersion, drawn, slipped>>
-----------------------------------------------------------------------------
Spots  == {"polling", "stat", "read", "version", "drawing", "key"}
NoRun  == "no run"
Views  == [run : Files, sig : Nat, ver : Nat, active : BOOLEAN]
NoView == [sig |-> 0, ver |-> 0]

\* The runs directory changes with every save.
World == saved

\* The first refresh of main() and the loop's first look at the version.
DashboardInit ==
  /\ saved = [f \in Files |-> 0] /\ live = {} /\ newest = << >>
  /\ at = "stat" /\ listing = << >> /\ statted = 0 /\ loaded = << >> /\ thenVersion = TRUE
  /\ cached = [f \in Files |-> NoView]
  /\ shown = << >> /\ hasActive = FALSE /\ lastVersion = World
  /\ screen = "list" /\ cursor = 1 /\ runIndex = 1 /\ opened = NoRun
  /\ restarted = NoRun /\ drawn = NoRun /\ slipped = FALSE
-----------------------------------------------------------------------------
(* The store, from any other process.                                      *)

\* The other files: f is there at most once.
Others(f) ==
  LET here == {i \in DOMAIN newest : newest[i] = f} IN
  IF here = {} THEN newest
  ELSE LET i == CHOOSE j \in here : TRUE
       IN  SubSeq(newest, 1, i - 1) \o SubSeq(newest, i + 1, Len(newest))

\* A record is saved while its run is active, and also when it is over (its result is
\* delivered, its transcripts are exported); it is not active again.
Save(f) ==
  /\ saved[f] < MaxSaves[f]
  /\ saved' = [saved EXCEPT ![f] = @ + 1]
  /\ live' \in IF saved[f] = 0 \/ f \in live THEN {live \cup {f}, live \ {f}} ELSE {live}
  /\ newest' = <<f>> \o Others(f)
  /\ slipped' = (slipped \/ (thenVersion /\ at \in {"stat", "read", "version"}))
  /\ UNCHANGED <<at, loadVars, stateVars, lastVersion, drawn>>
-----------------------------------------------------------------------------
(* WorkflowRepository.load().                                              *)

Clamp(i, length) == IF length = 0 \/ i < 1 THEN 1 ELSE IF i > length THEN length ELSE i
FirstOf(seq, n) == SubSeq(seq, 1, IF Len(seq) < n THEN Len(seq) ELSE n)

BeginRefresh(version) ==
  /\ at' = "stat"
  /\ listing' = FirstOf(newest, Limit) /\ loaded' = << >>
  /\ thenVersion' = version
  /\ slipped' = FALSE
  /\ UNCHANGED <<statted, cached>>

\* A file whose signature is that of a kept view is not read.
Stat ==
  /\ at = "stat" /\ listing # << >>
  /\ LET f == Head(listing) IN
     IF cached[f].sig = saved[f]
       THEN /\ loaded' = Append(loaded, [run |-> f, sig |-> saved[f], ver |-> cached[f].ver,
                                         active |-> FALSE])
            /\ listing' = Tail(listing)
            /\ UNCHANGED <<at, statted>>
       ELSE /\ statted' = saved[f] /\ at' = "read"
            /\ UNCHANGED <<listing, loaded>>
  /\ UNCHANGED <<storeVars, thenVersion, cached, stateVars, lastVersion, drawn, slipped>>

Keep(sig, ver, active) ==
  LET f == Head(listing) IN
  /\ loaded' = Append(loaded, [run |-> f, sig |-> sig, ver |-> ver, active |-> active])
  /\ cached' = IF active THEN cached ELSE [cached EXCEPT ![f] = [sig |-> sig, ver |-> ver]]
  /\ listing' = Tail(listing) /\ statted' = 0
  /\ at' = "stat"

\* Mutant: the record is read first, and the signature taken after that.
ReadThenStat ==
  /\ at = "read"
  /\ Keep(saved[Head(listing)], statted, FALSE)
  /\ UNCHANGED <<storeVars, thenVersion, stateVars, lastVersion, drawn, slipped>>

\* The record may have been saved again since the stat; the view of a run that is over is
\* kept under the signature seen before.
ReadRecord ==
  /\ at = "read"
  /\ Keep(statted, saved[Head(listing)], Head(listing) \in live)
  /\ UNCHANGED <<storeVars, thenVersion, stateVars, lastVersion, drawn, slipped>>

\* Kept views of runs that were not listed are dropped.
Listed(views) == {views[i].run : i \in DOMAIN views}
Prune(views) == [f \in Files |-> IF f \in Listed(views) THEN cached[f] ELSE NoView]
-----------------------------------------------------------------------------
(* TuiController.                                                          *)

Indexes(views, run) == {i \in DOMAIN views : views[i].run = run}
CurrentRun == IF shown = << >> THEN NoRun ELSE shown[Clamp(runIndex, Len(shown))].run

\* Mutant: the open run stays where it was in the list.
IndexAgain(views) == Clamp(runIndex, Len(views))

\* The run of a screen is found again by its identifier.
FollowRun(views) ==
  LET found == Indexes(views, CurrentRun) IN
  IF found = {} THEN Clamp(runIndex, Len(views)) ELSE CHOOSE i \in found : TRUE

\* refresh(): the list, and the cursor and the open run in it.
FinishRefresh ==
  /\ at = "stat" /\ listing = << >>
  /\ shown' = loaded
  /\ hasActive' = (\E i \in DOMAIN loaded : loaded[i].active)
  /\ runIndex' = IF restarted \in Listed(loaded)
                 THEN CHOOSE i \in Indexes(loaded, restarted) : TRUE ELSE FollowRun(loaded)
  /\ cursor' = Clamp(cursor, Len(loaded))
  /\ cached' = Prune(loaded)
  /\ opened' = CASE screen = "workflow" /\ restarted \in Listed(loaded) -> restarted
                 [] OTHER -> IF opened \in Listed(loaded) THEN opened ELSE NoRun
  /\ restarted' = NoRun
  /\ loaded' = << >>
  /\ at' = IF thenVersion THEN "version" ELSE "drawing"
  /\ UNCHANGED <<storeVars, listing, statted, thenVersion, screen, lastVersion, drawn, slipped>>

LookAtVersion ==
  /\ at = "version"
  /\ lastVersion' = World
  /\ at' = "drawing"
  /\ UNCHANGED <<storeVars, loadVars, stateVars, drawn, slipped>>

\* A poll that is due: with an active run in the list it always reloads, and then looks at
\* the version; otherwise it reloads when the version has changed.
Reload ==
  /\ at = "polling"
  /\ \/ hasActive /\ BeginRefresh(TRUE) /\ UNCHANGED lastVersion
     \/ ~hasActive /\ World # lastVersion /\ BeginRefresh(FALSE) /\ lastVersion' = World
  /\ UNCHANGED <<storeVars, stateVars, drawn>>

\* It is not due, or the version has not changed.
NoReload ==
  /\ at = "polling"
  /\ at' = "drawing"
  /\ UNCHANGED <<storeVars, loadVars, stateVars, lastVersion, drawn, slipped>>

\* What a key acts on.
Target ==
  CASE screen = "workflow" -> CurrentRun
    [] screen = "list" -> IF shown = << >> THEN NoRun ELSE shown[Clamp(cursor, Len(shown))].run

Draw ==
  /\ at = "drawing"
  /\ drawn' = Target
  /\ at' = "key"
  /\ UNCHANGED <<storeVars, loadVars, stateVars, lastVersion, slipped>>

NoKey ==
  /\ at = "key"
  /\ at' = "polling" /\ drawn' = NoRun
  /\ UNCHANGED <<storeVars, loadVars, stateVars, lastVersion, slipped>>

\* The arrows, Enter and Escape; the loop polls and draws next.
Navigate ==
  /\ at = "key"
  /\ \/ /\ screen = "list"
        /\ cursor' \in {Clamp(cursor - 1, Len(shown)), Clamp(cursor + 1, Len(shown))}
        /\ UNCHANGED <<screen, runIndex, opened>>
     \/ /\ screen = "list" /\ Target # NoRun
        /\ screen' = "workflow" /\ opened' = Target
        /\ runIndex' = CHOOSE i \in Indexes(shown, Target) : TRUE
        /\ UNCHANGED cursor
     \/ /\ screen = "workflow"
        /\ screen' = "list" /\ opened' = NoRun
        /\ UNCHANGED <<cursor, runIndex>>
  /\ at' = "polling" /\ drawn' = NoRun
  /\ UNCHANGED <<storeVars, loadVars, shown, hasActive, restarted, lastVersion, slipped>>

\* x, p and r: a request for the target, and a refresh, after which the run that a restart
\* has launched - one that was not listed before - is the open one.
Control ==
  /\ at = "key" /\ Target # NoRun
  /\ BeginRefresh(FALSE)
  /\ restarted' \in {NoRun} \cup (live \ Listed(shown))
  /\ drawn' = NoRun
  /\ UNCHANGED <<storeVars, shown, hasActive, screen, cursor, runIndex, opened, lastVersion>>
-----------------------------------------------------------------------------
LoopTurn ==
  \/ Reload \/ NoReload \/ Stat \/ ReadRecord \/ FinishRefresh \/ LookAtVersion \/ Draw
  \/ NoKey \/ Navigate \/ Control

DashboardNext == LoopTurn \/ \E f \in Files : Save(f)
DashboardSpec == DashboardInit /\ [][DashboardNext]_dashboardVars

\* The loop never waits, and every half or whole second a poll is due.
DashboardFairness == WF_dashboardVars(LoopTurn) /\ SF_dashboardVars(Reload)
-----------------------------------------------------------------------------
(* Properties.                                                             *)

\* Every variable has its type.
DashboardTypeOK ==
  /\ saved \in [Files -> Nat] /\ live \subseteq Files
  /\ at \in Spots /\ statted \in Nat /\ thenVersion \in BOOLEAN
  /\ loaded \in Seq(Views) /\ shown \in Seq(Views)
  /\ cached \in [Files -> [sig : Nat, ver : Nat]]
  /\ hasActive \in BOOLEAN /\ slipped \in BOOLEAN
  /\ screen \in {"list", "workflow"} /\ cursor \in Nat \ {0} /\ runIndex \in Nat \ {0}
  /\ lastVersion \in [Files -> Nat]
  /\ {opened, drawn, restarted} \subseteq Files \cup {NoRun}

\* While records are saved and move in the list, a screen stays on the run that was opened,
\* or launched from it by a restart (unless Limit newer ones have pushed that out of the
\* list), and a key acts on the run that the last frame showed as its target.
DashboardHolds ==
  /\ (screen = "workflow" /\ opened # NoRun) => CurrentRun = opened
  /\ at = "key" => Target = drawn

\* When the records come to rest the list shows each of its runs as last saved.  A save
\* that came between the reload of a list without active runs and the look at the version
\* that follows it is the exception: nothing makes the loop look again.
DashboardCatchesUp ==
  <>[](~slipped => /\ Len(shown) = Len(FirstOf(newest, Limit))
                   /\ \A i \in DOMAIN shown : shown[i].ver = saved[shown[i].run])
=============================================================================
