SPECIFICATION Spec
CONSTANTS
  r1 = r1
  r2 = r2
  Restarts = {r1}
  MaxStarts = 2
PROPERTY
  PausedStartsNothing
CHECK_DEADLOCK FALSE
