CONSTANTS
  e1 = e1
  e2 = e2
  e3 = e3
  i1 = i1
  i2 = i2
  w1 = w1
  None = None
  Envelopes = {e1, e2, e3}
  Ids = {i1, i2}
  IdOf <- MCIdOf
  Expiry <- MCExpiry
  Workers = {w1}
  MaxClock = 2
  MaxRegistrations = 3
  MinLead = 1
  MaxLead = 2
  MaxRuns = 2
SPECIFICATION FairSpec
INVARIANTS
  OneResultPerEnvelope
  BatchedAtMostOnce
  ScheduledIsBatched
PROPERTIES
  ImplementsLifecycle
  LeavesSchedule
CHECK_DEADLOCK FALSE
