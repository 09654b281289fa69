SPECIFICATION Spec
CONSTANTS
  products = products
  customers = customers
  orders = orders
  a = a
  b = b
  c = c
  d = d
  e = e
  s1 = s1
  s2 = s2
  s3 = s3
  Entities <- MCEntities
  Rows = {a, b, c, d, e}
  EntityOf <- MCEntityOf
  Strategy <- MCStrategy
  Slots = {s1, s2, s3}
  Nobody = Nobody
  PageSize = 1
  MaxPages = 2
  MaxClock = 3
  MaxPulls = 2
SYMMETRY PullSymmetry
INVARIANT TypeOK
INVARIANT WatermarkCovers
INVARIANT OneCopy
PROPERTY EditsKept
CHECK_DEADLOCK FALSE
