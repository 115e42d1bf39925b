SPECIFICATION FairSpec
CONSTANTS
  t1 = t1
  d1 = d1
  o1 = o1
  o2 = o2
  Tickets = {t1}
  Devices = {d1}
  Operators = {o1, o2}
  Nobody = Nobody
  MaxAttempts = 1
  MaxAdmits = 2
  FaultPlans <- Plans
INVARIANTS TypeOK AcceptedOnce MarkedOnce StandingIsAccounted PurgeIsFinal
PROPERTY VoidIsFinal GoneStaysGone QueueDrains
CHECK_DEADLOCK FALSE
