CONSTANTS
  Entry = 200
  Prices <- MCPrices
  Levels = {176, 190, 199, 201, 210, 224}
  Weights <- MCWeights
  Bases = {10, 25}
SPECIFICATION EvaluationSpec
INVARIANTS
  JudgedAlike
  BetterNeverWorse
CHECK_DEADLOCK FALSE
