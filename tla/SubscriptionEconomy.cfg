CONSTANTS
  agent1 = agent1
  agent2 = agent2
  user1 = user1
  Agents = {agent1, agent2}
  Tokens = {}
  NoAgent = NoAgent
  Users = {user1}
  Scores = {4000, 4100}
  Prices = {3}
  Durations = {1, 2}
  FeeBps = {10000}
  MaxTime = 3
  MaxPayments = 2
  MaxChanges = 1
SPECIFICATION Spec
INVARIANTS
  RouterSolvent
  AccessCoversPayments
  TierNotInflated
CHECK_DEADLOCK FALSE
