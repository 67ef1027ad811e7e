CONSTANTS
  j1 = j1
  j2 = j2
  k1 = k1
  NoKey = NoKey
  Job <- MCJob
  Key <- MCKey
  Kind <- MCKind
  Budgets <- MCBudgets
  StartDelays <- MCStartDelays
  Leases <- MCLeases
  BackoffCap = 3
SPECIFICATION Spec
SYMMETRY Symmetry
INVARIANTS TypeOK LatestClaimOwns DedupeHolds BudgetSpentExactly
PROPERTIES SettledForGood ImplementsContract
