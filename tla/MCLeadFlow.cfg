SPECIFICATION FairSpec
CONSTANTS
  h1 = h1
  h2 = h2
  Handler = {h1, h2}
  Nobody = Nobody
  Lead <- MCLead
  Leaving = {1}
  Budget = 2
  MaxFaults = 1
INVARIANTS MarkedIsQueued AnnouncedOnce CapturedOnce RowsExplained
PROPERTIES EveryLeadAnnounced FailedIsRetried
CHECK_DEADLOCK FALSE
