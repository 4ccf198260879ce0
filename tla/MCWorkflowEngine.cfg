SPECIFICATION Spec
CONSTANTS
  a1 = a1
  a2 = a2
  a3 = a3
  a4 = a4
  f1 = f1
  f2 = f2
  k1 = k1
  k2 = k2
  o1 = o1
  o2 = o2
  Null = Null
  NoBudget = NoBudget
  Agents <- MCAgents
  Keys <- MCKeys
  KeyOf <- MCKeyOf
  Frames <- MCFrames
  FrameOf <- MCFrameOf
  Usage <- MCUsage
  Old <- MCOld
  Previous <- MCPrevious
  Slots = 1
  MaxAgents = 3
  Budget = 2
INVARIANTS
  TypeOK
  SlotConservation
  AgentCap
  CachedResultsUsedOnce
  
  TokensChargedOnce

  
CHECK_DEADLOCK FALSE
