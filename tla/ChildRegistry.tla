---------------------------- MODULE ChildRegistry ----------------------------
(***************************************************************************)
(* The children of one run inside HermesChildAgentRunner (child/runner.py): *)
(* the registry of active children, skip_child(), interrupt_all() and the   *)
(* way from run() to its verdict, with the manager's stop and skip_agent    *)
(* (run/manager.py) as the callers.                                         *)
(*                                                                         *)
(* Each child is run by its agent() thread; a skip comes from a thread of   *)
(* its own, the stop from another.  _active_lock covers single reads and    *)
(* writes only, so all of them interleave between its sections.             *)
(***************************************************************************)
EXTENDS Naturals, FiniteSets

CONSTANTS Children,  \* the agent() calls that reach the runner
          Skippers,  \* the skip_agent() calls
          Targets,   \* the children each of them may name
          Null

ASSUME RegistryAssumption ==
       /\ Null \notin Children
       /\ Targets \in [Skippers -> SUBSET Children]

VARIABLES
  stopSet,      \* stop_event is set, status "stopping"
  pc,           \* where run() is for each child
  verdict,      \* how run() ends: "setup" is an error before the child
                \* is registered, "lost" a failing lease cleanup
  active,       \* _active_children
  skipped,      \* _skipped_children
  interrupted,  \* the children whose interrupt() was called
  leases,       \* the workspace leases not cleaned up
  skipper,      \* each skip_agent() call
  stopper,      \* where stop() is
  toInterrupt   \* the children interrupt_all() copied and has not reached

childVars == <<pc, verdict, leases>>
skipVars  == <<skipper>>
stopVars  == <<stopSet, stopper, toInterrupt>>
vars == <<stopSet, pc, verdict, active, skipped, interrupted, leases, skipper,
          stopper, toInterrupt>>
-----------------------------------------------------------------------------
PC == {"idle", "leased", "created", "running", "returned", "raised",
       "judged", "unregistered", "done"}
Verdicts == {"none", "setup", "value", "error", "skipped", "lost"}

\* mark: whether the call has marked its child while it was running or after.
SkipCalls == [pc : {"idle", "routed", "marked", "yes", "no"},
              child : Children \cup {Null}, mark : {"none", "early", "late"}]

Init ==
  /\ stopSet = FALSE
  /\ pc = [c \in Children |-> "idle"]
  /\ verdict = [c \in Children |-> "none"]
  /\ active = {} /\ skipped = {} /\ interrupted = {} /\ leases = {}
  /\ skipper = [s \in Skippers |-> [pc |-> "idle", child |-> Null, mark |-> "none"]]
  /\ stopper = "idle"
  /\ toInterrupt = {}

Goto(c, where) == pc' = [pc EXCEPT ![c] = where]
Rule(c, what)  == verdict' = [verdict EXCEPT ![c] = what]
-----------------------------------------------------------------------------
(* run(), up to the registration.                                          *)

\* The engine's last check_runtime() has passed - a stop may come at any time after it -
\* and create_workspace_lease runs; an unknown agentType or a failing git command raises.
Lease(c) ==
  /\ pc[c] = "idle"
  /\ ~stopSet
  /\ \/ Goto(c, "leased") /\ leases' = leases \cup {c} /\ UNCHANGED verdict
     \/ Goto(c, "done") /\ Rule(c, "setup") /\ UNCHANGED leases
  /\ UNCHANGED <<active, skipped, interrupted, skipVars, stopVars>>

\* create_child, its tools and on_start; a failure here is outside the try, so it
\* leaves the lease behind.
Create(c) ==
  /\ pc[c] = "leased"
  /\ \/ Goto(c, "created") /\ UNCHANGED verdict
     \/ Goto(c, "done") /\ Rule(c, "setup")
  /\ UNCHANGED <<leases, active, skipped, interrupted, skipVars, stopVars>>

Register(c) ==
  /\ pc[c] = "created"
  /\ active' = active \cup {c}
  /\ Goto(c, "running")
  /\ UNCHANGED <<verdict, leases, skipped, interrupted, skipVars, stopVars>>
-----------------------------------------------------------------------------
(* run(), from the child's end to its verdict.                             *)

\* _run_child returns, or raises a timeout, a failure or an exhaustion.
RunChild(c) ==
  /\ pc[c] = "running"
  /\ \/ Goto(c, "returned") /\ UNCHANGED verdict
     \/ Goto(c, "raised") /\ Rule(c, "error")
  /\ UNCHANGED <<leases, active, skipped, interrupted, skipVars, stopVars>>

\* _consume_skipped after a return: a marked child raises ChildAgentSkipped, which
\* its own handler then sees.
JudgeReturn(c) ==
  /\ pc[c] = "returned"
  /\ \/ c \in skipped /\ Goto(c, "raised") /\ Rule(c, "skipped")
     \/ c \notin skipped /\ Goto(c, "judged") /\ Rule(c, "value")
  /\ skipped' = skipped \ {c}
  /\ UNCHANGED <<leases, active, interrupted, skipVars, stopVars>>

\* Mutant: only a child that returned looks at its mark.
JudgeRaiseBlind(c) ==
  /\ pc[c] = "raised"
  /\ Goto(c, "judged")
  /\ UNCHANGED <<verdict, skipped, leases, active, interrupted, skipVars, stopVars>>

\* except BaseException: a marked child's error becomes a skip.
JudgeRaise(c) ==
  /\ pc[c] = "raised"
  /\ Rule(c, IF c \in skipped THEN "skipped" ELSE verdict[c])
  /\ skipped' = skipped \ {c}
  /\ Goto(c, "judged")
  /\ UNCHANGED <<leases, active, interrupted, skipVars, stopVars>>

\* Mutant: the entry stays in the registry.
UnregisterForgotten(c) ==
  /\ pc[c] = "judged"
  /\ Goto(c, "unregistered")
  /\ UNCHANGED <<verdict, leases, active, skipped, interrupted, skipVars, stopVars>>

\* Mutant: the entry is overwritten with None where it should be popped.
UnregisterAsNull(c) ==
  /\ pc[c] = "judged"
  /\ active' = (active \ {c}) \cup {Null}
  /\ Goto(c, "unregistered")
  /\ UNCHANGED <<verdict, leases, skipped, interrupted, skipVars, stopVars>>

Unregister(c) ==
  /\ pc[c] = "judged"
  /\ active' = active \ {c}
  /\ Goto(c, "unregistered")
  /\ UNCHANGED <<verdict, leases, skipped, interrupted, skipVars, stopVars>>

\* Mutant: the cleanup runs for the children that returned a value only.
CleanupOnValue(c) ==
  /\ pc[c] = "unregistered"
  /\ Goto(c, "done")
  /\ leases' = IF verdict[c] = "value" THEN leases \ {c} ELSE leases
  /\ UNCHANGED <<verdict, active, skipped, interrupted, skipVars, stopVars>>

\* lease.cleanup(); when its git command times out the exception replaces the result.
Cleanup(c) ==
  /\ pc[c] = "unregistered"
  /\ Goto(c, "done")
  /\ \/ leases' = leases \ {c} /\ UNCHANGED verdict
     \/ Rule(c, "lost") /\ UNCHANGED leases
  /\ UNCHANGED <<active, skipped, interrupted, skipVars, stopVars>>
-----------------------------------------------------------------------------
(* skip_agent() and skip_child().                                          *)

\* The run is active when skip_agent looks; the child's task id is known to the
\* outside from on_start.
RouteSkip(s, c) ==
  /\ skipper[s].pc = "idle"
  /\ ~stopSet
  /\ c \in Targets[s]
  /\ pc[c] \notin {"idle", "leased"}
  /\ skipper' = [skipper EXCEPT ![s] = [@ EXCEPT !.pc = "routed", !.child = c]]
  /\ UNCHANGED <<childVars, active, skipped, interrupted, stopVars>>

RefuseSkip(s) ==
  /\ skipper[s].pc = "routed"
  /\ skipper[s].child \notin active
  /\ skipper' = [skipper EXCEPT ![s].pc = "no"]
  /\ UNCHANGED <<childVars, active, skipped, interrupted, stopVars>>

MarkSkipped(s) ==
  LET c == skipper[s].child IN
  /\ skipper[s].pc = "routed"
  /\ c \in active
  /\ skipped' = skipped \cup {c}
  /\ skipper' = [skipper EXCEPT ![s] = [@ EXCEPT !.pc = "marked",
                      !.mark = IF pc[c] = "running" THEN "early" ELSE "late"]]
  /\ UNCHANGED <<childVars, active, interrupted, stopVars>>

\* child.interrupt(), outside the lock; when it raises the mark is taken back.
InterruptSkipped(s) ==
  LET c == skipper[s].child IN
  /\ skipper[s].pc = "marked"
  /\ \/ /\ interrupted' = interrupted \cup {c}
        /\ skipper' = [skipper EXCEPT ![s].pc = "yes"]
        /\ UNCHANGED skipped
     \/ /\ skipped' = skipped \ {c}
        /\ skipper' = [skipper EXCEPT ![s].pc = "no"]
        /\ UNCHANGED interrupted
  /\ UNCHANGED <<childVars, active, stopVars>>
-----------------------------------------------------------------------------
(* stop() and interrupt_all().                                             *)

Stop ==
  /\ ~stopSet
  /\ stopSet' = TRUE
  /\ stopper' = "stopped"
  /\ UNCHANGED <<childVars, active, skipped, interrupted, skipVars, toInterrupt>>

\* The registry is copied under the lock, the copies are interrupted outside it.
CopyActive ==
  /\ stopper = "stopped"
  /\ toInterrupt' = active
  /\ stopper' = "interrupting"
  /\ UNCHANGED <<stopSet, childVars, active, skipped, interrupted, skipVars>>

\* Mutant: the first child whose interrupt() raises ends the loop.
InterruptNextOrGiveUp(c) ==
  /\ stopper = "interrupting"
  /\ c \in toInterrupt
  /\ \/ interrupted' = interrupted \cup {c} /\ toInterrupt' = toInterrupt \ {c}
     \/ toInterrupt' = {} /\ UNCHANGED interrupted
  /\ UNCHANGED <<stopSet, stopper, childVars, active, skipped, skipVars>>

InterruptNext(c) ==
  /\ stopper = "interrupting"
  /\ c \in toInterrupt
  /\ toInterrupt' = toInterrupt \ {c}
  /\ interrupted' = interrupted \cup {c}
  /\ UNCHANGED <<stopSet, stopper, childVars, active, skipped, skipVars>>

StopReturns ==
  /\ stopper = "interrupting"
  /\ toInterrupt = {}
  /\ stopper' = "done"
  /\ UNCHANGED <<stopSet, toInterrupt, childVars, active, skipped, interrupted, skipVars>>
-----------------------------------------------------------------------------
ChildStep(c) ==
  \/ Create(c) \/ Register(c) \/ RunChild(c)
  \/ JudgeReturn(c) \/ JudgeRaise(c) \/ Unregister(c) \/ Cleanup(c)
SkipStep(s) == RefuseSkip(s) \/ MarkSkipped(s) \/ InterruptSkipped(s)
StopStep == CopyActive \/ StopReturns \/ \E c \in Children : InterruptNext(c)

Next ==
  \/ \E c \in Children : Lease(c) \/ ChildStep(c)
  \/ \E s \in Skippers : SkipStep(s) \/ \E c \in Children : RouteSkip(s, c)
  \/ Stop \/ StopStep

Spec == Init /\ [][Next]_vars

\* Threads run; a child ends within child_timeout_seconds, interrupted or not.
Fairness ==
  /\ \A c \in Children : WF_vars(ChildStep(c))
  /\ \A s \in Skippers : WF_vars(SkipStep(s))
  /\ WF_vars(StopStep)

FairSpec == Spec /\ Fairness
-----------------------------------------------------------------------------
(* Properties.                                                             *)

\* Every variable has its type; the registry holds children only.
TypeOK ==
  /\ stopSet \in BOOLEAN
  /\ pc \in [Children -> PC]
  /\ verdict \in [Children -> Verdicts]
  /\ active \subseteq Children /\ skipped \subseteq Children
  /\ interrupted \subseteq Children /\ leases \subseteq Children
  /\ skipper \in [Skippers -> SkipCalls]
  /\ stopper \in {"idle", "stopped", "interrupting", "done"}
  /\ toInterrupt \subseteq Children

Withdrawn(c) == \E s \in Skippers : /\ skipper[s].child = c
                                    /\ skipper[s].pc = "no"
                                    /\ skipper[s].mark # "none"

\* A skip that marks its child while the child runs decides the verdict, whether the
\* child then returns, fails or is stopped - unless a concurrent skip of the same child
\* took the shared mark back, or the lease cleanup fails.
EarlySkipWins ==
  \A s \in Skippers :
    LET c == skipper[s].child IN
    (skipper[s].mark = "early" /\ pc[c] = "done" /\ ~Withdrawn(c))
      => verdict[c] \in {"skipped", "lost"}

\* No child resolves to a skip that was meant for another one.
SkippedOnlyWhenAsked ==
  \A c \in Children :
    verdict[c] = "skipped"
      => \E s \in Skippers : skipper[s].child = c /\ skipper[s].mark # "none"

\* A child that was registered gives its workspace back however it ended; only a
\* failed setup and a failed cleanup keep one.
LeasesReturned ==
  \A c \in leases : pc[c] = "done" => verdict[c] \in {"setup", "lost"}

\* The loop of interrupt_all() reaches every child it copied.
InterruptsDelivered ==
  \A c \in Children : (stopper = "interrupting" /\ c \in toInterrupt) ~> c \in interrupted

\* After a stop the runner empties: every child that had entered ends and the registry
\* holds nobody.
StopDrains ==
  stopSet ~> (active = {} /\ \A c \in Children : pc[c] \in {"idle", "done"})

\* "Interrupt one active child and make its agent() call resolve to None." (skip_child):
\* a skip answered True makes the call resolve to None.
SkipAnswerKept ==
  \A s \in Skippers :
    (skipper[s].pc = "yes" /\ pc[skipper[s].child] = "done")
      => verdict[skipper[s].child] = "skipped"

\* "x stops the run and interrupts its active subagents" (TECHNICAL.md): once the stop
\* has returned, every child that still runs has been interrupted.
StopInterruptsActive ==
  stopper = "done" => \A c \in Children : pc[c] = "running" => c \in interrupted
=============================================================================
