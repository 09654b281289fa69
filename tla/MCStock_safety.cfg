SPECIFICATION Spec
CONSTANTS
  p1 = p1
  p2 = p2
  w1 = w1
  w2 = w2
  po = po
  take = take
  job = job
  bulk = bulk
  Products = {p1, p2}
  Workers = {w1, w2}
  Purchases = {po}
  Takes = {take}
  Jobs = {job}
  Bulks = {bulk}
  Nothing = Nothing
  Opening <- MCOpening
  Lines <- MCLines
  Stocked = {}
  Repeats = {p2}
  Adjustments <- MCAdjustments
  Sales <- MCSales
  Shifts <- MCShifts
  Batches <- MCBatches
  Omissions <- MCOmissions
  Entries <- MCEntries
  ByHand = {"received"}
  MaxRequests = 4
SYMMETRY WorkerSymmetry
INVARIANT TypeOK
INVARIANT LogExplainsStock
INVARIANT NotBelowZero
INVARIANT ReceivedOnce
INVARIANT ReceivedIsInStock
INVARIANT CompletedMeansApplied
PROPERTY CountCorrects
CHECK_DEADLOCK FALSE
