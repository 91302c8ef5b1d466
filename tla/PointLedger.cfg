CONSTANTS
  t1 = t1
  t2 = t2
  t3 = t3
  u = u
  nobody = nobody
  r1 = r1
  r2 = r2
  Deposits <- MCDeposits
  Txs = {t1, t2, t3}
  TxOf <- MCTxOf
  BlockOf <- MCBlockOf
  UserOf <- MCUserOf
  Points <- MCPoints
  Users = {u}
  Requests = {r1, r2}
  Subscriber <- MCSubscriber
  Price <- MCPrice
  Confirmations = 1
  MaxBlock = 5
  MaxErrors = 2
SPECIFICATION FairSpec
INVARIANTS
  CreditedAtMostOnce
  BooksBalance
PROPERTIES
  EventuallySettled
CHECK_DEADLOCK FALSE
