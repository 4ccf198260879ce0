SPECIFICATION MCSpec
CONSTANTS
  k1 = k1
  k2 = k2
  Kids = {k1, k2}
  MaxRetries = 2
  MaxTurns = 2
  MaxCalls <- KidCalls
  a1 = a1
  a2 = a2
  Askers = {a1, a2}
  t1 = t1
  t2 = t2
  Topics = {t1, t2}
  MaxRows = 3
  MaxEdits = 2
  MaxReadFaults = 1
  MaxWriteFaults = 1
  l1 = l1
  l2 = l2
  main = main
  Lanes = {l1, l2}
  Main = main
  MaxSteps = 2
  MaxStages = 2
  StageSlots = 1
  ToolsOf <- Registry
  Defaults = {"file", "web"}
  Blocked = {"workflow"}
  Discoverable = {"mcp", "workflow", "structured"}
  Structured = "structured"
  Output = "output"
  Excluded = {"skill_manage"}
  PresetSurfaces <- Presets
  InlineSurfaces <- Inlines
INVARIANTS
  StructuredHolds
  
  TranscriptFollows
  
  ToolsHold
CHECK_DEADLOCK FALSE
