SPECIFICATION FairSpec
CONSTANTS
  i1 = i1
  p1 = p1
  p2 = p2
  Items = {i1}
  Price = 2
  Charges <- CardAndDebit
  Procs = {p1, p2}
  NoProc = NoProc
  MaxRefunds = 1
  MaxFaults = 1
INVARIANT RefundedItemHasMoney
PROPERTY PaidIsRecorded
CHECK_DEADLOCK FALSE
