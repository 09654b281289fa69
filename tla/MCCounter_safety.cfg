SPECIFICATION Spec
CONSTANTS
  l1 = l1
  c1 = c1
  s1 = s1
  s2 = s2
  w1 = w1
  w2 = w2
  Workers = {w1, w2}
  Laybys = {l1}
  Cards = {c1}
  Sessions = {s1, s2}
  Price <- MCPrice
  Deposits = {1, 6}
  Amounts = {1, 5}
  Installments = {2, 3}
  ExtensionFee = 1
  CancellationFee = 1
  MaxExtensions = 1
  Values = {1, 2}
  Cash = {1}
  MaxRequests = 5
SYMMETRY CounterSymmetry
INVARIANT TypeOK
INVARIANT BalanceAddsUp
INVARIANT PaidIsReceived
INVARIANT CollectedIsPaid
INVARIANT GoodsOrMoney
INVARIANT ScheduleCoversBalance
INVARIANT NextSkipsNothing
INVARIANT CardBalanceExplained
INVARIANT OneOpenSession
INVARIANT NoFalseDifference
PROPERTY ImplementsContract
CHECK_DEADLOCK FALSE
