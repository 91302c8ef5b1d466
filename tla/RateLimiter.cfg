CONSTANTS
  r1 = r1
  r2 = r2
  r3 = r3
  r4 = r4
  s1 = s1
  s2 = s2
  s3 = s3
  n1 = n1
  n2 = n2
  Never = Never
  Requests = {r1, r2, r3, r4}
  Signals = {s1, s2, s3}
  Nodes = {n1, n2}
  SignalOf <- MCSignalOf
  NodeOf <- MCNodeOf
  NodeMaxCount = 1
  NodeWindow = 2
  GlobalMaxCount = 2
  GlobalWindow = 3
  DupWindow = 4
  MaxTime = 8
SPECIFICATION Spec
INVARIANTS
  WindowsRespected
  DuplicatesApart
  RetryHonoured
