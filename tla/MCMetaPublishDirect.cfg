SPECIFICATION Spec
CONSTANTS
  p1 = p1
  r1 = r1
  Plan <- MCPlan
  Rival <- MCRival
  Count = 2
  Budget = 2
  MaxAsks = 2
  MaxGates = 1
INVARIANTS PublishedOnce
CHECK_DEADLOCK FALSE
