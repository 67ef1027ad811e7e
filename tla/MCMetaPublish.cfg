SPECIFICATION FairSpec
CONSTANTS
  p1 = p1
  r1 = r1
  Plan <- MCPlan
  Rival <- MCRival
  Count = 2
  Budget = 2
  MaxAsks = 2
  MaxGates = 1
INVARIANTS TypeOK QueuedObjectsOnce ApprovedIsClean SuccessIsComplete SpentOnLiveCampaign
CHECK_DEADLOCK FALSE
PROPERTIES ApprovalIsAnswered
