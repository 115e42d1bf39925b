SPECIFICATION Spec
CONSTANTS
  c1 = c1
  c2 = c2
  r1 = r1
  r2 = r2
  Credits = {c1, c2}
  Runs = {r1, r2}
  KeepDays = 2
  FaultPlans <- LedgerTwice
  MaxDay = 2
  MaxItems = 2
INVARIANT SentWithinCredits
SYMMETRY Symmetry
CHECK_DEADLOCK FALSE
