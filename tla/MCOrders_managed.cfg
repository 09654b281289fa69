SPECIFICATION Spec
CONSTANTS
  o1 = o1
  o2 = o2
  i1 = i1
  i2 = i2
  w1 = w1
  w2 = w2
  Orders = {o1, o2}
  Items = {i1, i2}
  Workers = {w1}
  NoOrder = NoOrder
  Gross <- MCGross
  Discounts <- MCDiscounts
  RoundsDown <- MCRoundsDown
  MaxRequests = 4
  Payments = {20, 25}
  OrderDiscounts = {10}
  Targets = {"cancelled"}
  StaffPayStatus = {"refunded"}
  Fees = {5}
  Wanted = {"confirmed"}
CHECK_DEADLOCK FALSE
PROPERTY ManagedTotalIsSum
