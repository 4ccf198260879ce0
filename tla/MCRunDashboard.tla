---------------------------- MODULE MCRunDashboard ----------------------------
(***************************************************************************)
(* One run, two restarts of it, and any number of stops, pauses and resumes; *)
(* or the dashboard over a store of three runs.  A behaviour is one of one  *)
(* of the two, the part, and the other one stands still.                    *)
(***************************************************************************)
EXTENDS RunLifecycle, Dashboard

CONSTANTS r1, r2

\* One record is saved twice, so that it moves in a list that is full.
Saves == [f \in Files |-> IF f = "f" THEN 2 ELSE 1]

VARIABLE part

MCInit == part \in {"run", "dashboard"} /\ Init /\ DashboardInit

Manage == part = "run" /\ Next /\ UNCHANGED <<part, dashboardVars>>
Show   == part = "dashboard" /\ DashboardNext /\ UNCHANGED <<part, vars>>

\* The fairness of the part that runs: FairSpec and DashboardFairness.
MCFairness ==
  /\ WF_vars(part = "run" /\ ThreadStep)
  /\ WF_dashboardVars(part = "dashboard" /\ LoopTurn)
  /\ SF_dashboardVars(part = "dashboard" /\ Reload)

MCSpec == MCInit /\ [][Manage \/ Show]_<<part, vars, dashboardVars>> /\ MCFairness
=============================================================================
