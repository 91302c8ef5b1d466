CONSTANTS
  e1 = e1
  e2 = e2
  e3 = e3
  i1 = i1
  i2 = i2
  w1 = w1
  w2 = w2
  None = None
  Envelopes <- MCEnvelopes
  Ids <- MCIds
  IdOf <- MCIdOf
  Expiry <- MCExpiry
  Workers = {w1, w2}
  MaxClock = 2
  MaxRegistrations = 3
SPECIFICATION FairSchedSpec
INVARIANTS
  ExactlyOneResult
PROPERTIES
  EventuallyAnalysed
CHECK_DEADLOCK FALSE
