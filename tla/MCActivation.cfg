SPECIFICATION Spec
CONSTANTS
  c1 = c1  c2 = c2  k1 = k1  k2 = k2  child = child
  Call = {c1, c2}
  Jobs = {}
  Mutation = {k1, k2}
  Own <- MCOwn
  NoCall = NoCall  NoRow = NoRow
  Camp = camp
  Child = {child}
  OwnsCampaign = TRUE
  OnTime = TRUE
  MaxFaults = 2
  MaxCrashes = 2
SYMMETRY MCAlike
INVARIANTS TypeOK OneExecutor NoSilentSpend
PROPERTIES NoReplay ActivatedIsTrue ConfirmedMeansPaused
CHECK_DEADLOCK FALSE
