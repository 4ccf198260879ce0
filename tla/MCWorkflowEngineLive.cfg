SPECIFICATION FairSpec
CONSTANTS
  a1 = a1
  a2 = a2
  a3 = a3
  a4 = a4
  f1 = f1
  f2 = f2
  k1 = k1
  k2 = k2
  o1 = o1
  o2 = o2
  Null = Null
  NoBudget = NoBudget
  Agents <- FewAgents
  Keys <- MCKeys
  KeyOf <- FewKeyOf
  Frames <- MCFrames
  FrameOf <- FewFrameOf
  Usage <- MCUsage
  Old <- MCOld
  Previous <- FewPrevious
  Slots = 1
  MaxAgents = 3
  Budget = 2
PROPERTIES
  StopEndsRun
  CallsSettle
CHECK_DEADLOCK FALSE
