SPECIFICATION Spec
CONSTANTS
  c1 = c1
  c2 = c2
  s1 = s1
  s2 = s2
  Null = Null
  Children = {c1, c2}
  Skippers = {s1}
  Targets <- OneTargets
INVARIANT
  SkipAnswerKept
CHECK_DEADLOCK FALSE
