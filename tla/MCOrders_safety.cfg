SPECIFICATION Spec
CONSTANTS
  o1 = o1
  o2 = o2
  i1 = i1
  i2 = i2
  w1 = w1
  w2 = w2
  Orders = {o1, o2}
  Items = {i1, i2}
  Workers = {w1, w2}
  NoOrder = NoOrder
  Gross <- MCGross
  Discounts <- MCDiscounts
  RoundsDown <- MCRoundsDown
  MaxRequests = 5
  Payments = {20, 25}
  OrderDiscounts = {10}
  Targets = {"cancelled"}
  StaffPayStatus = {}
  Fees = {5}
  Wanted = {"confirmed"}
SYMMETRY MCSymmetry
INVARIANT TypeOK
INVARIANT RecordedWithinPeak
INVARIANT RecordedWasReceived
INVARIANT LossNeedsOverlap
INVARIANT BillNotTooLow
INVARIANT IInv
CHECK_DEADLOCK FALSE
