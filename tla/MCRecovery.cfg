SPECIFICATION Spec
CONSTANTS
  p1 = p1
  p2 = p2
  p3 = p3
  k1 = k1
  Null = Null
  Procs = {p1, p2, p3}
  Listening = {p1, p2, p3}
  MaxRuns = 2
  Keys = {k1}
  Script <- MCScript
  AutoMax = 1
INVARIANTS
  TypeOK
  
  HarvestExact
  FinishedNotReaped
  ResumeReusesResults
  MarkedOnce
  OrphansAreReaped
SYMMETRY Symmetry
CHECK_DEADLOCK FALSE
