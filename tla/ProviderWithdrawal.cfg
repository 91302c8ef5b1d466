CONSTANTS
  p = p
  cut = cut
  tiny = tiny
  negative = negative
  queued = queued
  Providers = {p}
  Requests = {cut, tiny, negative, queued}
  ProviderOf <- MCProviderOf
  AmountWei <- MCAmountWei
  Redeemed <- MCRedeemed
  WeiPerPoint = 2
  AutoThreshold = 3
  Reward = 1
  MaxRewards = 2
SPECIFICATION WithdrawalSpec
INVARIANTS
  ColumnsAgree
  PaidWithinRewards
  NothingEvaporates
  RowsAreOnChain
CHECK_DEADLOCK FALSE
