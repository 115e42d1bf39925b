SPECIFICATION FairSpec
CONSTANTS
  t1 = t1
  d1 = d1
  o1 = o1
  Tickets = {t1}
  Devices = {d1}
  Operators = {o1}
  Nobody = Nobody
  MaxAttempts = 1
  MaxAdmits = 2
  FaultPlans <- Calm
INVARIANT AcceptedIsRecorded
CHECK_DEADLOCK FALSE
