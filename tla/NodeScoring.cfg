CONSTANTS
  s1 = s1
  s2 = s2
  s3 = s3
  lower = lower
  mixed = mixed
  provider = provider
  batch = batch
  Signals = {s1, s2, s3}
  Nodes = {lower, mixed}
  Addresses = {provider}
  Others = {batch}
  NodeOf <- MCNodeOf
  AddressOf <- MCAddressOf
  MaxRuns = 2
  MaxNonce = 2
SYMMETRY MCSymmetry
SPECIFICATION Spec
INVARIANTS
  ClosedAreCounted
  StaleOnlyAfterOverlap
  OracleCurrent
PROPERTIES
  DurableHistoryGrows
CHECK_DEADLOCK FALSE
