SPECIFICATION LiveSpec
CONSTANTS
  c1 = c1  c2 = c2  k1 = k1  k2 = k2  child = child
  Call = {c1, c2}
  Jobs = {c2}
  Mutation = {k1, k2}
  Own <- MCOwn
  NoCall = NoCall  NoRow = NoRow
  Camp = camp
  Child = {child}
  OwnsCampaign = FALSE
  OnTime = TRUE
  MaxFaults = 1
  MaxCrashes = 1
PROPERTY ClientIsAnswered

CHECK_DEADLOCK FALSE
