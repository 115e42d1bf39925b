SPECIFICATION Spec
CONSTANTS
  i1 = i1
  i2 = i2
  p1 = p1
  p2 = p2
  Items = {i1, i2}
  Price = 2
  Charges <- Cards
  Procs = {p1, p2}
  NoProc = NoProc
  MaxRefunds = 2
  MaxFaults = 1
SYMMETRY Symmetry
INVARIANTS TypeOK LeaseIsExclusive RefundedOnce DebitsWithinCredit LedgerCoversStripe
PROPERTY GiftIsKept
CHECK_DEADLOCK FALSE
