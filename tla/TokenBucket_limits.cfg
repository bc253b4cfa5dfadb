CONSTANTS
  Null = Null
  c1 = c1
  c2 = c2
  Capacity = 2
  PerHour = 2
  Hour = 2
  Calls <- TwoCalls
  ScriptDelay = 1
  UpsertDelay = 1
  MaxTime = 4
  MaxCalls = 6

SPECIFICATION Spec

CHECK_DEADLOCK FALSE
INVARIANT TypeOK
INVARIANT ScriptLimits
INVARIANT UpsertLimits
SYMMETRY CallSymmetry
