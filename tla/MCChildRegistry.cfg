SPECIFICATION FairSpec
CONSTANTS
  c1 = c1
  c2 = c2
  s1 = s1
  s2 = s2
  Null = Null
  Children = {c1, c2}
  Skippers = {s1, s2}
  Targets <- MCTargets
INVARIANTS
  TypeOK
  EarlySkipWins
  LeasesReturned
PROPERTIES
  InterruptsDelivered
  StopDrains
CHECK_DEADLOCK FALSE
