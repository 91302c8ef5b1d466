CONSTANTS
  agent1 = agent1
  agent2 = agent2
  agent3 = agent3
  Agents = {agent1, agent2, agent3}
  Tokens = {0, 1}
  NoAgent = NoAgent
SYMMETRY MCSymmetry
SPECIFICATION RegistrySpec
INVARIANTS
  LinksAgree
  ListedOnce
  PagesCoverLists
