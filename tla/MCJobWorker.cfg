CONSTANTS
  j1 = j1
  j2 = j2
  w1 = w1
  w2 = w2
  NoKey = NoKey
  NoJob = NoJob
  Job <- MCOneJob
  Worker <- MCWorkers
  Key <- MCNoKeys
  Kind <- MCKind
  Budgets <- MCBudgets
  StartDelays <- MCStartDelays
  Leases <- MCLeases
  Lease = 2
  Margin = 1
  MaxLate = 1
  BackoffCap = 1
SPECIFICATION WSpec
SYMMETRY MCSymmetryWorkers
INVARIANTS OneHandlerPerWorker
PROPERTIES LiveLeaseIsNotStolen CompletedOnlyBySuccess
