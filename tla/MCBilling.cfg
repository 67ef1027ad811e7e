SPECIFICATION FairSpec
CONSTANTS
  a1 = a1
  a2 = a2
  NoAttempt = NoAttempt
  Attempt <- MCAttempt
  Event <- MCEvent
  Webhook <- MCWebhook
  Final <- MCFinal
  Impatient <- MCImpatient
  Scripts <- MCScripts
  MaxTime = 2
  MaxFaults = 1
INVARIANTS RiskAnswered NewestSnapshotShown SettledHasEffect CreditedOnce ToldWasShown
PROPERTIES EventTakesEffect
CHECK_DEADLOCK FALSE
