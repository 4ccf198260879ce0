SPECIFICATION MCSpec
CONSTANTS
  r1 = r1
  r2 = r2
  Restarts = {r1, r2}
  MaxStarts = 2
  Files = {"f", "g", "h"}
  MaxSaves <- Saves
  Limit = 2
INVARIANTS
  TypeOK
  GateAgreesWithRecord
  StopDecides
  StopBeforeRunnerIsEnough
  RestartNeverOverlaps
  DashboardHolds
PROPERTIES
  StopEnds
  ImplementsRun
  DashboardCatchesUp
CHECK_DEADLOCK FALSE
