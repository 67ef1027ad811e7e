SPECIFICATION Spec
CONSTANTS
  a1 = a1
  a2 = a2
  NoAttempt = NoAttempt
  Attempt <- MCAttempt
  Event <- MCEvent
  Webhook <- MCWebhook
  Final <- MCFinal
  Impatient <- MCImpatient
  Scripts <- MCScripts
  MaxTime = 2
  MaxFaults = 0
INVARIANTS RefundSuspends
CHECK_DEADLOCK FALSE
