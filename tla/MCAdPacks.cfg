CONSTANTS
  r1 = r1
  r2 = r2
  r3 = r3
  s1 = s1
  s2 = s2
  trial = trial
  paid = paid
  c1 = c1
  None = None
  Request <- MCRequest
  Scope <- MCScope
  ScopeOf <- MCScopeOf
  Period <- MCPeriod
  PaidPeriod <- MCPaidPeriod
  Credits <- MCCredits
  Start <- MCStart
  Trial = trial
  Correction <- MCCorrection
  Delta <- MCDelta
  MutationKey <- MCMutationKey
  Pack = 2
SPECIFICATION AdSpec
SYMMETRY Symmetry
INVARIANTS BooksBalance NeverOverdrawn SupersededIsClosed AdsArePaid ChargedOnlyForAds
